--------------------------- MODULE MCTriageLog ---------------------------
(***************************************************************************)
(* Instances of TriageLog for TLC.                                         *)
(***************************************************************************)
EXTENDS TriageLog, TLC

CONSTANTS q1, q2, q3, f1, f2, ola

Perms == Permutations(Requests)

Do(act, fp, assignee) == [act |-> act, fp |-> fp, assignee |-> assignee]

(* A status change that competes, one that does not, and an assignment.    *)
MCActions == {Do("resolve", f1, NoOne), Do("unresolve", f1, NoOne), Do("assign", f1, ola)}
StatusActions == {Do("resolve", f1, NoOne), Do("unresolve", f1, NoOne)}
OneAction == {Do("resolve", f1, NoOne)}

Event(i, t, fp, act, assignee) ==
  [id |-> i, time |-> t, fp |-> fp, act |-> act, assignee |-> assignee, by |-> NoOne]

(* Nothing yet, or an ignored issue next to a row that is no event, or an  *)
(* assigned issue.                                                         *)
MCLogs == {{},
           {Event(1, 1, f1, "ignore", NoOne), Event(2, 2, f1, "other", NoOne)},
           {Event(1, 2, f1, "assign", ola)}}

(* A resolve followed by as many newer events of another issue as a page   *)
(* holds.                                                                  *)
OldResolve == {{Event(1, 1, f1, "resolve", NoOne)} \cup
               {Event(i, i, f2, "assign", ola) : i \in 2 .. 4}}

(* Logs on both sides of a page of three.                                  *)
ShortAndLong == {{}} \cup OldResolve

EmptyLog == {{}}
=============================================================================

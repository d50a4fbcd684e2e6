----------------------------- MODULE MCUserData -----------------------------
(***************************************************************************)
(* A small instance of UserData for TLC.                                   *)
(***************************************************************************)
EXTENDS UserData, TLC

CONSTANTS
  a1, a2, b1,  \* two tabs of a browser, and one of another
  k1, k2,      \* services
  ib, is       \* an issue of browsers and one of the server logs

MCTabs == {a1, a2, b1}
MCbrowser == [t \in MCTabs |-> IF t = b1 THEN "b" ELSE "a"]
MCStarts == {None, {k1, k2}}
MCSymmetry == Permutations({k1, k2}) \cup Permutations({a1, a2})

(* Two kinds of data sources, two environments, one thing to type.         *)
MCKinds == {"metrics", "logs"}
MCSecrets == {"k"}
MCLabels == {"service", "logs"}
MCDetected == {None, "d"}

NoOverride == [k \in MCKinds |-> [e \in {} |-> 0]]
Bare ==
  [uids |-> [k \in MCKinds |-> None], byEnv |-> NoOverride, routing |-> [e \in {} |-> 0],
   labels |-> [l \in MCLabels |-> None], aliases |-> << >>, watch |-> << >>, text |-> None,
   secrets |-> [x \in MCSecrets |-> None]]
Full ==
  [uids |-> [k \in MCKinds |-> "u"], byEnv |-> [NoOverride EXCEPT !["logs"] = [e \in {1} |-> "u"]],
   routing |-> [e \in {2} |-> "u"], labels |-> [service |-> None, logs |-> "u"],
   aliases |-> << <<"h", "u">> >>, watch |-> << <<"u", "u">> >>, text |-> "u",
   secrets |-> [x \in MCSecrets |-> "u"]]
MCStored == {Bare, Full, [Bare EXCEPT !.routing = [e \in {1, 2} |-> "u"]]}

Source(kind, uid, def, env) == [kind |-> kind, uid |-> uid, def |-> def, env |-> env]
MCSources ==
  {{Source("metrics", "m1", TRUE, None), Source("metrics", "m2", FALSE, 1), Source("logs", "l1", FALSE, 1)},
   {Source("metrics", "m1", FALSE, None)}}

(* Pages of one issue, of which one is muted at first.                     *)
MCLists == {<<ib>>, <<ib, is>>}
MCServer == {is}
MCInitialMutes == {{ib}}

=============================================================================

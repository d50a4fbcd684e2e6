------------------------------- MODULE MCPages -------------------------------
(***************************************************************************)
(* A small instance of Pages for TLC.                                      *)
(***************************************************************************)
EXTENDS Pages

(* Two services with and without an environment; the service list says of  *)
(* both that they have SERVER spans, or only outside the environment.      *)
MCLists ==
  {[x \in Services \X (Envs \cup {None}) |-> TRUE],
   [x \in Services \X (Envs \cup {None}) |-> x[2] = None]}

Capability(has, pyro) ==
  [loki |-> has, tempo |-> has, graph |-> has, pyro |-> pyro, calls |-> "x"]
MCCaps == {Capability(TRUE, FALSE), Capability(FALSE, TRUE)}

(* Rows that agree in some columns and differ in others.                   *)
ListRow(name, ns, env, sidecar, err, rate) ==
  [name |-> name, ns |-> ns, env |-> env, sidecar |-> sidecar, err |-> err, rate |-> rate]
MCRows ==
  <<ListRow(2, 1, 2, FALSE, TRUE, 1), ListRow(1, 2, 1, TRUE, FALSE, 2), ListRow(2, 1, 3, FALSE, TRUE, 2),
    ListRow(3, 1, 2, FALSE, FALSE, 1)>>
MCAnswers ==
  {[rows |-> << >>, detected |-> FALSE], [rows |-> << >>, detected |-> TRUE],
   [rows |-> MCRows, detected |-> TRUE]}

MCKinds == {"services", "jobs", "namespace", "callers"}
MCNsPicks == {{}, {1}}
MCEnvPicks == {{}, {2}}
MCScore == [q \in {"q"} |-> [n \in {2, 3} |-> n]]
MCPrefix == [q \in {"q"} |-> {3}]
MCEnvRank == [e \in 1..3 |-> IF e = 1 THEN 0 ELSE 1]

(* Two rows that tie in every column, and one without an error rate.       *)
TableRow(id, name, rate, errorRate, found) ==
  [id |-> id, name |-> name, rate |-> rate, errorRate |-> errorRate, found |-> found]
MCTableRows ==
  {TableRow(1, 1, 1, 1, {"a"}), TableRow(2, 1, 1, 1, {"a", "b"}), TableRow(3, 2, 2, None, {"b"})}

=============================================================================

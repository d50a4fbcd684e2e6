------------------------- MODULE MCDeployMarkers -------------------------
(***************************************************************************)
(* Instances of DeployMarkers for TLC.                                     *)
(***************************************************************************)
EXTENDS DeployMarkers, TLC

CONSTANTS p1, p2, k1, k2, d1, d2

Perms == Permutations(Pollers)

MCDeployKey == [d \in {d1, d2} |-> k1]

(* d1 is as old as the retention window at the start and past it from the  *)
(* next tick on, when the Console may still list it; d2 stays inside.      *)
MCDeployTime == [d \in {d1, d2} |-> IF d = d1 THEN 3 ELSE 5]

Marker(i, t, k) == [id |-> i, time |-> t, key |-> k, dep |-> NoDep, triage |-> FALSE]

(* Every way four older markers may share the identities and the           *)
(* timestamps 1 to 3, two or more of them in the same millisecond, one of  *)
(* them possibly a row a person also tagged as triage or one without an    *)
(* identity.                                                               *)
OldMarkers ==
  {{Marker(1, 3, k1), Marker(2, a, k1), Marker(3, b, k), r} :
     a \in 1 .. 3, b \in 1 .. 3, k \in {k1, k2},
     r \in {Marker(4, 3, k1), Marker(4, 1, NoKey), [Marker(4, 1, k1) EXCEPT !.triage = TRUE]}}

(* Every way five markers with timestamps of their own may belong to two   *)
(* services or to none.                                                    *)
DistinctMarkers ==
  {{Marker(i, i, f[i]) : i \in 1 .. 5} : f \in [1 .. 5 -> {k1, k2, NoKey}]}

(* Two services: the newest marker of each fills the pages of a sweep, the *)
(* superseded one comes after them.                                        *)
AnchorsFirst == {{Marker(1, 5, k1), Marker(2, 4, k2), Marker(3, 2, k2)}}

(* What two sweeps race over: markers that share timestamps and markers    *)
(* that do not.                                                            *)
SweptStores == OldMarkers \cup DistinctMarkers

(* A marker the GitHub Action posts, in the millisecond of d1.             *)
ActionMarker == {[time |-> 3, key |-> k1, triage |-> FALSE]}

NoDeployKey == [d \in {} |-> k1]
NoDeployTime == [d \in {} |-> 1]
NoMarkers == {}
EmptyStore == {{}}
=============================================================================

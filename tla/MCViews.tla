------------------------------- MODULE MCViews -------------------------------
(***************************************************************************)
(* A small instance of Views for TLC.                                      *)
(***************************************************************************)
EXTENDS Views, TLC

CONSTANTS ib, is, h1, s1, s2, k1  \* a browser issue and a server issue, hash, sessions, stack

(* Two services that share no part, and one without a namespace.           *)
Here == [ns |-> 1, name |-> 1]
MCServices == {Here, [ns |-> 2, name |-> 2], [ns |-> None, name |-> 3]}
MCInitialLists == {{}, {Here}}

(* One issue of each source; of the occurrences in a browser one has a     *)
(* stack and each a session of its own, those on the server have neither.  *)
MCSource == ib :> "browser" @@ is :> "server"
MCHashes == ib :> {h1} @@ is :> {}
MCSessionOf == "o1" :> s1 @@ "o2" :> s2 @@ "p1" :> None @@ "p2" :> None
MCStackOf == "o1" :> k1 @@ "o2" :> None @@ "p1" :> k1 @@ "p2" :> None
MCBrowserLists == {<< >>, <<"o1", "o2">>, <<"o2">>}
MCServerLists == {<< >>, <<"p1", "p2">>}

(* Three cards in two environments; two of them have one name.  An area    *)
(* shows one large card, two small ones, or has not been measured.         *)
MCIds == {[name |-> 1, env |-> 1], [name |-> 2, env |-> 1], [name |-> 2, env |-> 2]}
Healthy(ids) == [i \in ids |-> "healthy"]
MCCardAnswers ==
  {Healthy(MCIds), Healthy({i \in MCIds : i.name = 2}), Healthy({i \in MCIds : i.env = 1}), Healthy({}),
   [i \in MCIds |-> IF i.env = 2 THEN "critical" ELSE "healthy"]}
MCFilters == {{}, {1}}
MCAreas == {<<0, 0>>, <<300, 200>>}

(* The second environment has a log store of its own; one vital counts     *)
(* much where it is good, the other little where it is bad.                *)
MCCards == {{}, {"jvm", "kafka", "nodejs", "container"}, {"go", "dbPool"}}
MCGroups == {{}, {"http"}, {"database"}}
MCTargets == <<[avg |-> 5, count |-> 1], [avg |-> 1, count |-> 5]>>

(* Rules of one name in both sources, more instances than are passed on,   *)
(* and sources that fail.                                                  *)
Rule(name, st, alerts) == [name |-> name, state |-> st, alerts |-> alerts]
Instance(st, at) == [state |-> st, at |-> at]
MCAlertAnswers ==
  {[mimir |-> <<Rule(1, "pending", <<Instance("pending", 4)>>), Rule(2, "inactive", <<Instance("inactive", 1)>>),
                Rule(3, "firing", <<Instance("firing", 3)>>)>>,
    grafana |-> <<Rule(1, "firing", <<Instance("pending", 5), Instance("firing", 2)>>)>>],
   [mimir |-> None, grafana |-> << >>], [mimir |-> None, grafana |-> None],
   [mimir |-> <<Rule(2, "firing", <<Instance("firing", 2)>>), Rule(1, "inactive", << >>)>>, grafana |-> << >>]}
MCDeploys == {[env |-> 1, at |-> 1, own |-> TRUE], [env |-> 2, at |-> 2, own |-> FALSE]}

(* Sessions in chunks: two streams whose chunks are twice there and out of *)
(* order, single events, one that cannot be decoded, a snapshot, nothing.  *)
Event(at, id) == [at |-> at, id |-> id]
Chunk(stream, seq, enc, mode, events) ==
  [stream |-> stream, format |-> "A", seq |-> seq, enc |-> enc, mode |-> mode, events |-> events]
Single(stream, event) ==
  [stream |-> stream, format |-> "B", seq |-> 0, enc |-> TRUE, mode |-> "none", events |-> <<event>>]
MCStored == <<
  <<Chunk(2, 1, TRUE, "recording", <<Event(0, 1), Event(1, 2)>>), Chunk(1, 2, TRUE, "snapshot", <<Event(2, 3)>>),
    Chunk(1, 1, TRUE, "recording", <<Event(0, 1), Event(1, 2)>>), Chunk(1, 3, TRUE, "recording", <<Event(3, 4)>>)>>,
  <<Single(1, Event(1, 1)), Single(2, Event(1, 2)), Single(1, Event(1, 1)), Single(2, Event(2, 3)),
    Single(1, Event(3, 4))>>,
  <<Chunk(1, 1, FALSE, "recording", <<Event(0, 1)>>)>>,
  <<Chunk(1, 1, TRUE, "snapshot", <<Event(0, 1), Event(0, 2)>>)>>,
  << >> >>
MCBuckets == << <<2, 2>>, <<5, 0>>, <<0, 1>>, <<1, 1>>, <<0, 0>> >>
MCEnvOf == <<1, 1, 1, 2, 2>>

=============================================================================

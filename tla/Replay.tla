------------------------------- MODULE Replay -------------------------------
(***************************************************************************)
(* Session replay (src/pages/tabs/frontend/replay): the recorded sessions  *)
(* of a service are listed, one is chosen, its lines are fetched from Loki *)
(* and put together, and a player plays them.  The drawer of an exception  *)
(* has the player of one session, behind a button.                         *)
(*                                                                         *)
(* A stored line is a chunk of events with a sequence number (format A) or *)
(* one event (format B); a line may be stored twice.  An event has the     *)
(* time it was recorded at.                                                *)
(*                                                                         *)
(* Definitions marked "Slip" are wrong variants of the one that follows.   *)
(***************************************************************************)
EXTENDS Ordering, FiniteSetsExt

CONSTANTS
  Stored,       \* by session its lines as Loki stored them:
                \* [stream, format, seq, enc, mode, events]
  Buckets,      \* by session how many lines fall in each bucket of the window
  EnvOf,        \* by session the environment it was recorded in
  LineLimit,    \* lines a query returns
  ListLimit,    \* sessions the list shows
  SeekTo,       \* in the drawer, when the exception was; None if not known
  Speeds,       \* speeds of the player
  MaxMoves,     \* bound of what the user does
  None

VARIABLES
  page,      \* the environment, the window, and whether it is the drawer
  list,      \* the request whose answer is awaited, the answer that is kept
  selected,  \* the session that is chosen
  section,   \* the ReplaySection that is mounted, None if there is none
  moves

replayVars == <<page, list, selected, section, moves>>

Sessions == DOMAIN Stored

-----------------------------------------------------------------------------
(* The queries.                                                            *)

(* The first lines, stream by stream, the streams in any order.            *)
Delivered(s) ==
  LET first == SubSeq(Stored[s], 1, Min({LineLimit, Len(Stored[s])}))
      of(stream) == ElementsAt(first, {i \in DOMAIN first : first[i].stream = stream})
  IN {of(1) \o of(2), of(2) \o of(1)}

Times(events) == [i \in DOMAIN events |-> events[i].at]

Recording(events) == [events |-> SortedBy(events, Times(events)), mode |-> "recording"]

(* Slip: events are told apart by their time.                              *)
SinglesByTime(events) == Recording(FirstOfEach(events, Times(events)))

(* The whole event is its key.                                             *)
assembleSingles(events) == Recording(FirstOfEach(events, events))

EventsOf(lines) == Flat([i \in DOMAIN lines |-> lines[i].events])

Chunks(lines) == ElementsAt(lines, {i \in DOMAIN lines : lines[i].format = "A"})

Numbers(chunks) == [i \in DOMAIN chunks |-> chunks[i].seq]

(* Slip: chunks in the order of their delivery.                            *)
AsDelivered(chunks) == FirstOfEach(chunks, Numbers(chunks))

InSequence(chunks) ==
  LET sorted == SortedBy(chunks, Numbers(chunks)) IN FirstOfEach(sorted, Numbers(sorted))

(* A chunk in an encoding the plugin does not know fails the whole replay. *)
unsupported(lines) == \E c \in Range(InSequence(Chunks(lines))) : ~c.enc

(* Chunks win over single events; None when there is neither.              *)
fetchReplay(lines) ==
  IF lines = << >> THEN None
  ELSE IF Chunks(lines) = << >> THEN assembleSingles(EventsOf(lines))
  ELSE [events |-> EventsOf(InSequence(Chunks(lines))),
        mode |-> IF \E c \in Range(Chunks(lines)) : c.mode = "recording" THEN "recording" ELSE "snapshot"]

(* What the drawer offers: lines are counted by the mode they carry.       *)
probeReplay(s) ==
  LET modes == {l.mode : l \in Range(Stored[s])}
  IN CASE modes = {}           -> None
       [] modes = {"snapshot"} -> "snapshot"
       [] OTHER                -> "recording"

Recent(s) == {i \in DOMAIN Buckets[s] : Buckets[s][i] > 0}

lastSeen(s) == Max(Recent(s))

(* Those seen last come first, and no more than the list shows.            *)
listReplaySessions(env) ==
  LET found == {s \in Sessions : EnvOf[s] = env /\ Recent(s) # {}}
      later == {p \in found \X found : \/ lastSeen(p[1]) > lastSeen(p[2])
                                       \/ lastSeen(p[1]) = lastSeen(p[2]) /\ p[1] < p[2]}
      sorted == InOrder(found, later)
  IN SubSeq(sorted, 1, Min({ListLimit, Len(sorted)}))

-----------------------------------------------------------------------------
(* What the page shows.                                                    *)
requestKey(p) == <<p.env, p.tick>>

ReplaySessions(p, l) ==
  IF l.loaded = None \/ l.loaded.key # requestKey(p) THEN "loading"
  ELSE IF l.loaded.state = "error" THEN "error"
  ELSE IF l.loaded.sessions = << >> THEN "empty" ELSE "table"

durationOf(data) == data.events[Len(data.events)].at - data.events[1].at

hasEnoughEvents(data) == Len(data.events) >= 2

(* Ten seconds before the exception, counted from the first event.         *)
startAt(p, data) ==
  IF p.drawer /\ SeekTo # None /\ data.mode = "recording" /\ data.events # << >>
  THEN Max({0, SeekTo - data.events[1].at}) ELSE 0

Player(p, data) ==
  [playing |-> data.mode # "snapshot" /\ hasEnoughEvents(data),
   offset |-> startAt(p, data), at |-> startAt(p, data), speed |-> 1]

(* A section of the list is loading when it is mounted, one of the drawer  *)
(* waits for its button.                                                   *)
SectionOf(p, s) ==
  [session |-> s, query |-> requestKey(p), status |-> IF p.drawer THEN "idle" ELSE "loading",
   data |-> None, player |-> None]

(* Slip: the section of another session is not another section.            *)
SectionKept(p, l, chosen, old) ==
  IF chosen = None \/ ReplaySessions(p, l) # "table" THEN None
  ELSE IF old # None THEN old ELSE SectionOf(p, chosen)

(* The section below the table: mounted with it, keyed by the session.     *)
SectionBelow(p, l, chosen, old) ==
  IF chosen = None \/ ReplaySessions(p, l) # "table" THEN None
  ELSE IF old # None /\ old.session = chosen THEN old ELSE SectionOf(p, chosen)

-----------------------------------------------------------------------------
Init ==
  /\ page \in [env : Range(EnvOf), tick : {0}, drawer : BOOLEAN]
  /\ list = [call |-> IF page.drawer THEN None ELSE requestKey(page), loaded |-> None]
  /\ selected \in IF page.drawer THEN {s \in Sessions : probeReplay(s) # None} ELSE {None}
  /\ section = IF page.drawer THEN SectionOf(page, selected) ELSE None
  /\ moves = 0

Moves == moves < MaxMoves /\ moves' = moves + 1

(* The window or the environment of the page: what was asked is cancelled. *)
ToPage(p) ==
  /\ page' = p /\ p # page
  /\ list' = [list EXCEPT !.call = IF p.drawer THEN None ELSE requestKey(p)]
  /\ section' = IF p.drawer THEN section ELSE SectionBelow(p, list, selected, section)
  /\ UNCHANGED selected

handleRefresh == Moves /\ ToPage([page EXCEPT !.tick = @ + 1])

setEnv == Moves /\ \E e \in Range(EnvOf) : ToPage([page EXCEPT !.env = e])

Settled(answer) ==
  /\ list' = [call |-> None, loaded |-> answer]
  /\ section' = SectionBelow(page, list', selected, section)
  /\ UNCHANGED <<page, selected, moves>>

ListArrives ==
  /\ list.call # None
  /\ Settled([key |-> list.call, state |-> "ready", sessions |-> listReplaySessions(list.call[1])])

ListFails ==
  /\ list.call # None
  /\ Settled([key |-> list.call, state |-> "error", sessions |-> << >>])

setSelected ==
  /\ Moves /\ ~page.drawer /\ ReplaySessions(page, list) = "table"
  /\ \E s \in Range(list.loaded.sessions) :
       selected' = s /\ section' = SectionBelow(page, list, s, section)
  /\ UNCHANGED <<page, list>>

(* The button of the drawer asks with the window of the render.            *)
load ==
  /\ Moves /\ section # None /\ section.status = "idle"
  /\ section' = [section EXCEPT !.status = "loading", !.query = requestKey(page)]
  /\ UNCHANGED <<page, list, selected>>

Loading == section # None /\ section.status = "loading"

(* Lines of another environment are not found.                             *)
settle ==
  /\ Loading
  /\ \E lines \in Delivered(section.session) :
       LET found == IF EnvOf[section.session] = section.query[1] /\ ~unsupported(lines)
                    THEN fetchReplay(lines) ELSE None
       IN section' = IF found = None THEN [section EXCEPT !.status = "error"]
                     ELSE [section EXCEPT !.status = "ready", !.data = found,
                                          !.player = Player(page, found)]
  /\ UNCHANGED <<page, list, selected, moves>>

fail ==
  /\ Loading
  /\ section' = [section EXCEPT !.status = "error"]
  /\ UNCHANGED <<page, list, selected, moves>>

-----------------------------------------------------------------------------
(* The player.                                                             *)
HasPlayer == section # None /\ section.data # None /\ hasEnoughEvents(section.data)

playing == HasPlayer /\ section.player.playing

ToPlayer(q) == section' = [section EXCEPT !.player = q] /\ UNCHANGED <<page, list, selected>>

(* The replayer goes on to the last event.                                 *)
Advanced(q, end) == IF q.at >= end THEN q.at ELSE Min({q.at + q.speed, end})

(* Slip: playback has ended after the last event, not with it.             *)
TickPast ==
  /\ playing /\ UNCHANGED moves
  /\ LET q == section.player
         end == durationOf(section.data)
         at == Advanced(q, end)
     IN ToPlayer([q EXCEPT !.at = at, !.offset = at, !.playing = ~(end > 0 /\ at > end)])

Tick ==
  /\ playing /\ UNCHANGED moves
  /\ LET q == section.player
         end == durationOf(section.data)
         at == Advanced(q, end)
     IN ToPlayer([q EXCEPT !.at = at, !.offset = at, !.playing = ~(end > 0 /\ at >= end)])

(* Resumed at the end it starts again.                                     *)
toggle ==
  /\ Moves /\ HasPlayer /\ section.data.mode # "snapshot"
  /\ LET q == section.player
     IN ToPlayer(IF q.playing THEN [q EXCEPT !.playing = FALSE]
                 ELSE [q EXCEPT !.playing = TRUE,
                                !.at = IF q.offset >= durationOf(section.data) THEN 0 ELSE q.offset])

seek ==
  /\ Moves /\ HasPlayer /\ section.data.mode # "snapshot"
  /\ \E v \in 0..durationOf(section.data) :
       ToPlayer([section.player EXCEPT !.offset = v, !.at = v])

changeSpeed ==
  /\ Moves /\ HasPlayer /\ section.data.mode # "snapshot"
  /\ \E v \in Speeds : ToPlayer([section.player EXCEPT !.speed = v])

Network == ListFails \/ ListArrives \/ fail \/ settle

Next ==
  \/ handleRefresh \/ setEnv \/ setSelected \/ load
  \/ toggle \/ seek \/ changeSpeed
  \/ Network \/ Tick

(* Every request is answered or fails, and the clock of the page ticks.    *)
Fairness == WF_replayVars(Network) /\ WF_replayVars(Tick)

Spec == Init /\ [][Next]_replayVars /\ Fairness

-----------------------------------------------------------------------------
Events == [at : Nat, id : Nat]
Lines == [stream : {1, 2}, format : {"A", "B"}, seq : Int, enc : BOOLEAN,
          mode : {"recording", "snapshot", "none"}, events : Seq(Events)]

(* What the recorders promise: a session is in one format; chunks of one   *)
(* number are one chunk, stored again; a chunk goes on where the one with  *)
(* the number before it ended, and events are put into a chunk as they     *)
(* happen.                                                                 *)
Agree(a, b) ==
  /\ a.format = b.format
  /\ a.format = "A" /\ a.seq = b.seq => a.events = b.events
  /\ a.format = "A" /\ a.seq < b.seq =>
       \A e \in Range(a.events), f \in Range(b.events) : e # f /\ e.at <= f.at

AsTheyHappen(events) ==
  \A i, j \in DOMAIN events : i < j => events[i] # events[j] /\ events[i].at <= events[j].at

(* Sessions are numbers; a session has been seen, or not, in each bucket.  *)
ConstantsOK ==
  /\ Stored \in Seq(Seq(Lines)) /\ \A s \in Sessions : Buckets[s] \in Seq(Nat)
  /\ \A s \in Sessions :
       /\ \A a, b \in Range(Stored[s]) : Agree(a, b)
       /\ \A a \in Range(Stored[s]) : a.format = "A" => AsTheyHappen(a.events)
  /\ LineLimit \in Nat /\ ListLimit \in Nat /\ MaxMoves \in Nat

Pages == [env : Range(EnvOf), tick : Nat, drawer : BOOLEAN]
Keys == Range(EnvOf) \X Nat
Lists == [key : Keys, state : {"ready", "error"}, sessions : Seq(Sessions)]

ReplayTypeOK ==
  /\ page \in Pages /\ selected \in Sessions \cup {None} /\ moves \in 0..MaxMoves
  /\ list.call \in Keys \cup {None} /\ list.loaded \in Lists \cup {None}
  /\ section # None => /\ section.session = selected /\ section.query \in Keys
                       /\ section.status \in {"idle", "loading", "ready", "error"}
                       /\ (section.data # None <=> section.status = "ready")

Recorded(s) == UNION {Range(l.events) : l \in Range(Stored[s])}

(* The first lines of a session hold what a query returns of it.           *)
Returned(s) == UNION {Range(Stored[s][i].events) : i \in 1..Min({LineLimit, Len(Stored[s])})}

(* However Loki splits a session into streams and however often it stored  *)
(* a line, the player gets each event once, and in the order of the clock. *)
PlayedOnceInOrder ==
  HasPlayer =>
    LET played == section.data.events
    IN /\ Range(played) = Returned(section.session)
       /\ Len(played) = Cardinality(Range(played))
       /\ \A i, j \in DOMAIN played : i < j => played[i].at <= played[j].at

(* Frames below the table are of the session that is chosen and were asked *)
(* for with the window and the environment of the page.                    *)
PlayerOfPage ==
  ~page.drawer /\ section # None =>
    /\ section.session = selected /\ section.query = requestKey(page)
    /\ ReplaySessions(page, list) = "table"

(* The list and a session that is loading do not wait for ever, and what   *)
(* plays comes to its end.                                                 *)
ReplayWaits ==
  \/ ~page.drawer /\ ReplaySessions(page, list) = "loading"
  \/ Loading
  \/ playing /\ durationOf(section.data) > 0

ReplayEnds == ReplayWaits ~> ~ReplayWaits

(* Violated.  Playback of a session whose events have one time ends.       *)
InstantEnds == playing ~> ~playing

(* Violated.  The player has the whole session.                            *)
WholeSession == HasPlayer => Recorded(section.session) \subseteq Range(section.data.events)

(* Violated.  The button of the drawer promises what the player then is.   *)
ButtonTellsPlayer ==
  section # None /\ section.data # None => section.data.mode = probeReplay(section.session)

(* Violated.  A refresh of the page does not tear down what plays.         *)
PlaybackKept == [][playing /\ selected' = selected => section' # None]_replayVars

=============================================================================

---------------------------- MODULE MarketReplay ----------------------------
(***************************************************************************)
(* Market-data replays (M32): each consumes one immutable stream of events *)
(* in canonical order, and checkpoints its cursor in the database.  A      *)
(* process restores an engine from the checkpoint, moves it in memory, and *)
(* stores the new checkpoint only where it still finds the one it read;    *)
(* between the two it may stop, and others may have moved the replay.      *)
(***************************************************************************)
EXTENDS Integers, Sequences, FiniteSets

CONSTANTS
  Replay,    \* replay ids
  Process,   \* holders of an engine
  EventId, Time, Payload,  \* what makes an event; ids are ordered numbers
  MaxEvents  \* bound: the length of a stream

MarketReplayAssumption ==
  EventId \subseteq Nat \ {0} /\ Time \subseteq Nat /\ MaxEvents \in Nat

VARIABLES
  store,     \* market_data_events
  streams,   \* the events of each replay that exists
  cursors,   \* and its checkpoint
  engines,   \* of each process: the engine in its memory
  consumed   \* of each replay: the events handed out, as the checkpoints record

vars == <<store, streams, cursors, engines, consumed>>

Event  == [id : EventId, time : Time, payload : Payload]
Status == {"ready", "running", "paused", "completed"}
None   == [id |-> 0, time |-> 0]
Cursor == [position : 0..MaxEvents, status : Status,
           last : [id : EventId, time : Time] \union {None}]
Idle   == [at |-> "none"]
Engine == [at : Replay, read : Cursor, now : Cursor, out : Seq(Event)]

----------------------------------------------------------------------------
(* The engine.                                                             *)

Before(e, f) == e.time < f.time \/ (e.time = f.time /\ e.id < f.id)

UniqueIds(events) == \A e, f \in events : e.id = f.id => e = f
\* The canonical order of a set of events.
Sorted(events) ==
  CHOOSE s \in [1..Cardinality(events) -> events] :
    \A i, j \in DOMAIN s : i < j => Before(s[i], s[j])

Reference(e) == [id |-> e.id, time |-> e.time]
CursorAt(stream, position, status) ==
  [position |-> position, status |-> status,
   last |-> IF position = 0 THEN None ELSE Reference(stream[position])]

\* What a cursor must satisfy to be taken as one of this stream.
ValidCursor(stream, c) ==
  /\ c.status = "ready" => c.position = 0
  /\ c.position <= Len(stream)
  /\ \/ stream = <<>> /\ c.status = "ready"
     \/ (c.position = Len(stream)) <=> (c.status = "completed")
  /\ c.last = IF c.position = 0 THEN None ELSE Reference(stream[c.position])

Started(stream, c) ==
  IF c.status = "ready" THEN {CursorAt(stream, 0, IF stream = <<>> THEN "completed" ELSE "running")} ELSE {}
Paused(stream, c) ==
  IF c.status = "running" THEN {CursorAt(stream, c.position, "paused")} ELSE {}
Resumed(stream, c) ==
  IF c.status = "paused" THEN {CursorAt(stream, c.position, "running")} ELSE {}
NextStatus(stream, position) == IF position = Len(stream) THEN "completed" ELSE "running"
Consumed(stream, c) ==
  IF c.status = "running" /\ c.position < Len(stream)
  THEN {CursorAt(stream, c.position + 1, NextStatus(stream, c.position + 1))} ELSE {}

----------------------------------------------------------------------------
(* The repository.                                                         *)

Exists(r) == r \in DOMAIN streams
Stored(id) == {e \in store : e.id = id}

\* A replay reads back when every event of its stream is the one stored under its id.
Restorable(r) ==
  /\ \A i \in DOMAIN streams[r] : Stored(streams[r][i].id) = {streams[r][i]}
  /\ \A i, j \in DOMAIN streams[r] : i < j => Before(streams[r][i], streams[r][j])
  /\ ValidCursor(streams[r], cursors[r])

Init ==
  /\ store = {} /\ streams = <<>> /\ cursors = <<>> /\ consumed = <<>>
  /\ engines = [p \in Process |-> Idle]

\* An event may be shared by replays, when it is the same event.
Agrees(events) == \A e \in events : Stored(e.id) \subseteq {e}
AddReplay(r, events) ==
  /\ ~Exists(r) /\ UniqueIds(events) /\ Agrees(events)
  /\ store' = store \union events
  /\ streams' = [q \in DOMAIN streams \union {r} |-> IF q = r THEN Sorted(events) ELSE streams[q]]
  /\ cursors' = [q \in DOMAIN cursors \union {r} |-> IF q = r THEN CursorAt(<<>>, 0, "ready") ELSE cursors[q]]
  /\ consumed' = [q \in DOMAIN consumed \union {r} |-> IF q = r THEN <<>> ELSE consumed[q]]
  /\ UNCHANGED engines

GetReplay(p, r) ==
  /\ engines[p] = Idle /\ Exists(r) /\ Restorable(r)
  /\ engines' = [engines EXCEPT ![p] = [at |-> r, read |-> cursors[r], now |-> cursors[r], out |-> <<>>]]
  /\ UNCHANGED <<store, streams, cursors, consumed>>

Operate(p, c, out) ==
  /\ ValidCursor(streams[engines[p].at], c)
  /\ engines' = [engines EXCEPT ![p] = [at |-> engines[p].at, read |-> engines[p].read, now |-> c, out |-> out]]
  /\ UNCHANGED <<store, streams, cursors, consumed>>
Start(p)  == \E c \in Started(streams[engines[p].at], engines[p].now) : Operate(p, c, engines[p].out)
Pause(p)  == \E c \in Paused(streams[engines[p].at], engines[p].now) : Operate(p, c, engines[p].out)
Resume(p) == \E c \in Resumed(streams[engines[p].at], engines[p].now) : Operate(p, c, engines[p].out)
NextEvent(p) ==
  \E c \in Consumed(streams[engines[p].at], engines[p].now) :
    Operate(p, c, Append(engines[p].out, streams[engines[p].at][c.position]))

\* As Unmoved with a comparison of the status alone.
UnmovedStatus(r, expected) == cursors[r].status = expected.status
\* The checkpoint is replaced where the whole expected cursor is still found.
Unmoved(r, expected) == cursors[r] = expected
ReplaceCheckpoint(p) ==
  LET r == engines[p].at IN
  /\ engines[p].now # engines[p].read
  /\ Restorable(r) /\ ValidCursor(streams[r], engines[p].now)
  /\ IF Unmoved(r, engines[p].read)
     THEN /\ cursors' = [cursors EXCEPT ![r] = engines[p].now]
          /\ consumed' = [consumed EXCEPT ![r] = @ \o engines[p].out]
     ELSE UNCHANGED <<cursors, consumed>>
  /\ engines' = [engines EXCEPT ![p] = Idle]
  /\ UNCHANGED <<store, streams>>

\* The process stops, or its transaction rolls back: only its memory is lost.
Drop(p) ==
  /\ engines' = [engines EXCEPT ![p] = Idle]
  /\ UNCHANGED <<store, streams, cursors, consumed>>

Next ==
  \/ \E r \in Replay, events \in {S \in SUBSET Event : IsFiniteSet(S) /\ Cardinality(S) <= MaxEvents} :
       AddReplay(r, events)
  \/ \E p \in Process :
       \/ \E r \in Replay : GetReplay(p, r)
       \/ engines[p] # Idle /\ (Start(p) \/ Pause(p) \/ Resume(p) \/ NextEvent(p) \/ ReplaceCheckpoint(p) \/ Drop(p))

Spec == Init /\ [][Next]_vars

----------------------------------------------------------------------------
(* Properties.                                                             *)

TypeOK ==
  /\ store \subseteq Event
  /\ DOMAIN streams \subseteq Replay /\ DOMAIN cursors = DOMAIN streams /\ DOMAIN consumed = DOMAIN streams
  /\ \A r \in DOMAIN streams : /\ streams[r] \in Seq(Event) /\ Len(streams[r]) <= MaxEvents
                               /\ cursors[r] \in Cursor /\ consumed[r] \in Seq(Event)
  /\ engines \in [Process -> Engine \union {Idle}]

\* Whatever processes restored, moved, stored or dropped the engine, in whatever
\* order, the events handed out are the stream's first ones: none twice, none
\* left out, none out of order.
EachEventOnce ==
  \A r \in DOMAIN streams : consumed[r] = SubSeq(streams[r], 1, cursors[r].position)

\* Every replay can be read back at any time: a later replay that shares an
\* event never changes it, and no checkpoint is one that its stream disowns.
EveryReplayRestores ==
  \A r \in DOMAIN streams : Restorable(r)

\* A checkpoint never moves back, a completed replay stays so, and no step
\* changes a stream or an event that exists.
OnlyForward ==
  [][/\ store \subseteq store'
     /\ \A r \in DOMAIN streams :
          /\ streams'[r] = streams[r]
          /\ cursors'[r].position >= cursors[r].position
          /\ cursors[r].status = "completed" => cursors'[r] = cursors[r]]_vars
=============================================================================

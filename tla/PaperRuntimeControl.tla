------------------------ MODULE PaperRuntimeControl ------------------------
(***************************************************************************)
(* The row of one durable paper runtime (M35) as all its writers see it:   *)
(* control commands that carry the version their sender read and an        *)
(* idempotency key, and processes that own the row under a lease.  Every   *)
(* transaction reads the clock, replaces the whole row by its successor    *)
(* and appends an event that holds the result.  What the processes do      *)
(* between two transactions is the subject of PaperRuntime; here the       *)
(* versions, the events, the receipts and the clock are kept in full, and  *)
(* the clock may be set back.                                              *)
(***************************************************************************)
EXTENDS Integers, Sequences, FiniteSets

CONSTANTS
  Worker,      \* recovering processes, each with its own owner_id
  Key,         \* idempotency keys
  Policy,      \* the versions of the runtime policy that a Create may bind
  NoOwner, NoReceipt,
  Duration,    \* of a lease
  MaxVersion,  \* bound: row versions
  MaxEvents,   \* bound: events
  MaxTime,     \* bound: the clock
  SetBacks     \* bound: how often the clock is set back

ASSUME ControlAssumption ==
  /\ NoOwner \notin Worker
  /\ Policy \subseteq Nat
  /\ Duration \in Nat \ {0}
  /\ MaxVersion \in Nat /\ MaxEvents \in Nat /\ MaxTime \in Nat /\ SetBacks \in Nat

VARIABLES
  row,       \* the runtime
  events,    \* paper_runtime_events, by event_sequence
  receipts,  \* paper_runtime_command_receipts, by namespace and key
  told,      \* the answers that were given
  order,     \* what the execution order is: live, stale, terminal or corrupt
  token,     \* of each process: the fence it claimed, 0 when it is not at work
  blocking,  \* of each process: the reason for which it is about to block
  now, setBacks

evidence == <<events, receipts, told>>
process  == <<token, blocking>>
clock    == <<now, setBacks>>
vars     == <<row, evidence, order, process, clock>>

Version   == 0..MaxVersion
Time      == 0..MaxTime + Duration
Namespace == {"create", "start", "stop", "resume", "recover"}

Row == [desired : {"running", "stopped"},
        observed : {"absent", "ready", "running", "stopped", "completed", "blocked"},
        owner : Worker \union {NoOwner}, fence : Version, expires : Time,
        version : Version, updated : Time, reason : {"none", "stale", "corrupt"}]

EventType == Namespace \union {"claim_acquired", "claim_taken_over", "claim_released",
               "work", "completed", "blocked"}
Event == [type : EventType, result : Row, at : Time]

\* A command is told from another by its digest: what it asks for, and the row
\* version it expects; a Create names the policy that it binds.
Command == [ns : {"create"}, asks : Policy] \union [ns : Namespace \ {"create"}, asks : Version]
Slot    == Namespace \X Key
Answer  == 1..MaxEvents
Receipt == [command : Command, answer : Answer]

ASSUME ReceiptAssumption == NoReceipt \notin Receipt

TypeOK ==
  /\ row \in Row
  /\ events \in Seq(Event) /\ Len(events) <= MaxEvents
  /\ receipts \in [Slot -> Receipt \union {NoReceipt}]
  /\ told \subseteq Slot \X Command \X Answer
  /\ order \in {"live", "stale", "terminal", "corrupt"}
  /\ token \in [Worker -> Version]
  /\ blocking \in [Worker -> {"none", "stale", "corrupt"}]
  /\ now \in 0..MaxTime /\ setBacks \in 0..SetBacks

NoRow == [desired |-> "stopped", observed |-> "absent", owner |-> NoOwner, fence |-> 0,
          expires |-> 0, version |-> 0, updated |-> 0, reason |-> "none"]

Init ==
  /\ row = NoRow /\ events = <<>>
  /\ receipts = [s \in Slot |-> NoReceipt] /\ told = {}
  /\ order = "live"
  /\ token = [w \in Worker |-> 0] /\ blocking = [w \in Worker |-> "none"]
  /\ now = 0 /\ setBacks = 0

-----------------------------------------------------------------------------
(* Writing the row and its evidence *)

Exists == row.observed # "absent"

\* Mutant: the timestamps are not compared.
NeverRegresses == FALSE

\* compare_and_swap_runtime refuses a replacement that is older than the row.
TimestampRegresses == now < row.updated

Successor(new) == [new EXCEPT !.version = row.version + 1, !.updated = now]

\* The row read in this transaction becomes its successor; SQLite lets one
\* transaction write at a time.
Replace(new) ==
  /\ ~TimestampRegresses
  /\ row.version < MaxVersion
  /\ row' = Successor(new)

\* next_event_sequence; the code counts from 0.
NextSequence == Len(events) + 1

Record(type, result) ==
  /\ Len(events) < MaxEvents
  /\ events' = Append(events, [type |-> type, result |-> result, at |-> now])

Silent == UNCHANGED events

-----------------------------------------------------------------------------
(* Control commands *)

\* Mutant: the key's receipt answers whatever is sent under the key.
AnsweredByKey(s, c) == {r \in {receipts[s]} : r # NoReceipt}

\* resolve_paper_runtime_control_replay: the receipt of the key, which has to be
\* about this command, or else the receipt of the command under another key.
Answered(s, c) ==
  LET stored == IF receipts[s] # NoReceipt THEN {receipts[s]}
                ELSE {receipts[o] : o \in Slot} \ {NoReceipt}
  IN {r \in stored : r.command = c}

New(s, c) == receipts[s] = NoReceipt /\ Answered(s, c) = {}

\* The historical result is given again.
ControlReplay(s, c) ==
  /\ \E r \in Answered(s, c) : told' = told \union {<<s, c, r.answer>>}
  /\ UNCHANGED <<row, events, receipts, order, process, clock>>

Owned == row.owner # NoOwner /\ row.expires > now

Open == row.observed \notin {"completed", "blocked"}

\* What each namespace requires of the row.
Allowed(ns) ==
  CASE ns = "create"  -> ~Exists /\ order = "live"
    [] ns = "start"   -> row.desired = "stopped" /\ row.observed = "ready" /\ order = "live"
    [] ns = "stop"    -> row.desired = "running" /\ Open /\ order # "corrupt"
    [] ns = "resume"  -> row.desired = "stopped" /\ row.observed = "stopped" /\ order = "live"
    [] ns = "recover" -> /\ row.desired = "running" /\ row.observed \in {"ready", "running"}
                         /\ ~Owned /\ order = "live"

\* _load_exact_runtime
Expected(c) == Exists /\ row.version = c.asks

Desired(ns) ==
  CASE ns \in {"start", "resume"} -> "running"
    [] ns = "stop" -> "stopped"
    [] OTHER -> row.desired

\* A Create inserts the first version of the row, another command replaces it.
Requested(c) ==
  IF c.ns = "create"
  THEN row' = [NoRow EXCEPT !.observed = "ready", !.updated = now]
  ELSE Expected(c) /\ Replace([row EXCEPT !.desired = Desired(c.ns)])

\* The command is carried out, its event and its receipt are stored with it; the
\* answer may be lost.
Control(s, c) ==
  /\ s[1] = c.ns
  /\ New(s, c)
  /\ Allowed(c.ns)
  /\ Requested(c)
  /\ Record(c.ns, row')
  /\ receipts' = [receipts EXCEPT ![s] = [command |-> c, answer |-> NextSequence]]
  /\ told' \in {told, told \union {<<s, c, NextSequence>>}}
  /\ UNCHANGED <<order, process, clock>>

-----------------------------------------------------------------------------
(* Ownership *)

\* _assert_exact_claim
Claims(w) == token[w] > 0 /\ row.owner = w /\ row.fence = token[w] /\ row.expires > now

NextFence == row.fence + 1

Lease(w) == [row EXCEPT !.owner = w, !.fence = NextFence, !.expires = now + Duration]

\* claim_runtime: one's own live claim converges, another's is busy.
ClaimRuntime(w) ==
  /\ token[w] = 0 /\ Exists
  /\ IF Owned
     THEN row.owner = w /\ UNCHANGED <<row, events>>
     ELSE /\ Replace(Lease(w))
          /\ Record(IF row.owner = NoOwner THEN "claim_acquired" ELSE "claim_taken_over", row')
  /\ token' = [token EXCEPT ![w] = row'.fence]
  /\ UNCHANGED <<receipts, told, order, blocking, clock>>

\* A renewal leaves no event.
RenewClaim(w) ==
  /\ Claims(w) /\ blocking[w] = "none"
  /\ Replace([row EXCEPT !.expires = now + Duration])
  /\ Silent
  /\ UNCHANGED <<receipts, told, order, process, clock>>

ReleaseClaim(w) ==
  /\ Claims(w) /\ blocking[w] = "none"
  /\ Replace([row EXCEPT !.owner = NoOwner, !.expires = 0])
  /\ Record("claim_released", row')
  /\ token' = [token EXCEPT ![w] = 0]
  /\ UNCHANGED <<receipts, told, order, blocking, clock>>

\* The process ends: it lost its claim, its renewal or release was refused, or it
\* was killed.
Exit(w) ==
  /\ token[w] > 0
  /\ token' = [token EXCEPT ![w] = 0] /\ blocking' = [blocking EXCEPT ![w] = "none"]
  /\ UNCHANGED <<row, evidence, order, clock>>

-----------------------------------------------------------------------------
(* Observation *)

\* Where reconciliation finds that the runtime ought to be.
Due == CASE order = "terminal" -> "completed"
         [] order # "terminal" /\ row.desired = "stopped" -> "stopped"
         [] OTHER -> "running"

\* Mutant: a runtime that has ended is no longer desired.
ObserveAndStop(state) ==
  [row EXCEPT !.observed = state, !.desired = IF state = "completed" THEN "stopped" ELSE @]

Observed(state) == [row EXCEPT !.observed = state]

Reconciles(w) == Claims(w) /\ blocking[w] = "none" /\ row.observed # "blocked" /\ order # "corrupt"

\* _transition_observed and _transition_completed: only the completion is an event,
\* unless work is created with the transition to running.
Transition(w) ==
  /\ Reconciles(w) /\ row.observed # Due
  /\ Due = "running" => order = "live"
  /\ Replace(Observed(Due))
  /\ \/ Due = "completed" /\ Record("completed", row')
     \/ Due # "completed" /\ Silent
     \/ Due = "running" /\ Record("work", row')
  /\ UNCHANGED <<receipts, told, order, process, clock>>

\* Work is created or observed without a transition: an event of the same version.
Work(w) ==
  /\ Reconciles(w) /\ row.observed = "running"
  /\ Record("work", row)
  /\ UNCHANGED <<row, receipts, told, order, process, clock>>

\* The runtime had a Work, created or observed.
Worked == \E i \in DOMAIN events : events[i].type = "work"

\* reconcile_claimed_runtime turns what phase R1 and the look after it raise into a block:
\* stale authority, corrupt authority, and any ValueError, which is what a transition
\* raises whose timestamp regresses.  The look at the order of a Work is several
\* statements: a Step or account movement between two of them, which PaperRuntime
\* follows, is taken for corruption.
ReconcileFails(w) ==
  /\ Claims(w) /\ blocking[w] = "none" /\ row.observed # "blocked"
  /\ \E reason \in {"stale", "corrupt"} :
       /\ blocking' = [blocking EXCEPT ![w] = reason]
       /\ \/ reason = "stale" /\ order = "stale" /\ Due = "running"
          \/ reason = "corrupt" /\ order = "corrupt"
          \/ /\ reason = "corrupt" /\ Reconciles(w)
             /\ row.observed # Due /\ (Due = "running" => order = "live")
             /\ TimestampRegresses
          \/ reason = "corrupt" /\ Worked /\ Open
  /\ UNCHANGED <<row, evidence, order, token, clock>>

\* _transition_blocked, a transaction of its own; a release comes next.
Block(w) ==
  /\ Claims(w) /\ blocking[w] # "none"
  /\ row.observed # "blocked"
  /\ Replace([row EXCEPT !.observed = "blocked", !.reason = blocking[w]])
  /\ Record("blocked", row')
  /\ blocking' = [blocking EXCEPT ![w] = "none"]
  /\ UNCHANGED <<receipts, told, order, token, clock>>

-----------------------------------------------------------------------------
(* The order and the clock *)

OrderChanges ==
  /\ order = "live" /\ order' \in {"stale", "terminal", "corrupt"}
  /\ UNCHANGED <<row, evidence, process, clock>>

Tick ==
  /\ now < MaxTime /\ now' = now + 1
  /\ UNCHANGED <<row, evidence, order, process, setBacks>>

SetBack ==
  /\ setBacks < SetBacks /\ setBacks' = setBacks + 1
  /\ now' \in 0..now - 1
  /\ UNCHANGED <<row, evidence, order, process>>

Next ==
  \/ \E s \in Slot, c \in Command : s[1] = c.ns /\ (ControlReplay(s, c) \/ Control(s, c))
  \/ \E w \in Worker : \/ ClaimRuntime(w) \/ RenewClaim(w) \/ ReleaseClaim(w) \/ Exit(w)
                       \/ Transition(w) \/ Work(w) \/ ReconcileFails(w) \/ Block(w)
  \/ OrderChanges \/ Tick \/ SetBack

Spec == Init /\ [][Next]_vars

-----------------------------------------------------------------------------
(* Properties *)

Events(types) == {i \in DOMAIN events : events[i].type \in types}
Latest(S) == CHOOSE i \in S : \A j \in S : j <= i

\* What the last accepted command wanted is what the row wants: although every
\* process replaces the whole row, none of them undoes a Start, Stop or Resume.
LastWordHolds ==
  Exists => row.desired = events[Latest(Events(Namespace))].result.desired

\* The events are a history of the row: versions, timestamps of the row and fences
\* never decrease, one version is one row, and the row itself is no older than the
\* last event.
HistoryInOrder ==
  /\ \A i, j \in DOMAIN events : i < j =>
       LET a == events[i].result
           b == events[j].result
       IN /\ a.version <= b.version /\ a.updated <= b.updated /\ a.fence <= b.fence
          /\ a.version = b.version => a = b
  /\ \A i \in DOMAIN events :
       events[i].result.version <= row.version /\ events[i].result.updated <= row.updated

\* Each fence was given out by exactly one claim, so that a token that was taken
\* over never becomes valid again.
OneClaimPerFence ==
  LET claims == Events({"claim_acquired", "claim_taken_over"})
  IN /\ Cardinality(claims) = row.fence
     /\ \A i, j \in claims : i # j => events[i].result.fence # events[j].result.fence

\* Nobody acts on a row they have not seen: a command that was carried out found the
\* row as the last event before it left it, or as silent writes of the owner of then
\* left it; so two commands that were sent for one version are never both done.
OneCommandPerVersion ==
  \A s, t \in Slot :
    s # t /\ receipts[s] # NoReceipt /\ receipts[t] # NoReceipt
    /\ receipts[s].command.ns # "create" /\ receipts[t].command.ns # "create"
      => receipts[s].command.asks # receipts[t].command.asks

\* A runtime that never had a Work is blocked as corrupt only when its authority is.
BlockedForCause ==
  row.reason = "corrupt" => order = "corrupt" \/ Worked

\* The history of the row is in order, each fence belongs to one claim, and no two
\* commands that were sent for one version are both carried out; with a clock that is
\* never set back, a runtime that never had a Work is blocked as corrupt only when its
\* authority is.
HistoryIsSound ==
  /\ TypeOK /\ HistoryInOrder /\ OneClaimPerFence /\ OneCommandPerVersion
  /\ setBacks = 0 => BlockedForCause

\* Whoever was told something was told what is stored for the command they sent, under
\* their key or under another one, and per command that is one answer: the event that
\* the command itself once caused.
AnswersAgree ==
  /\ \A t \in told :
       /\ \E s \in Slot : receipts[s] = [command |-> t[2], answer |-> t[3]]
       /\ events[t[3]].type = t[2].ns
  /\ \A t, u \in told : t[2] = u[2] => t[3] = u[3]
=============================================================================

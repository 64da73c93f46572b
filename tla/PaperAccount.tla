---------------------------- MODULE PaperAccount ----------------------------
(***************************************************************************)
(* Durable paper accounts (M31): the account row, its ledger of events,    *)
(* the cached projection of the ledger, and the evidence that is recorded  *)
(* about it.  Every write is one transaction that holds the database's     *)
(* write lock from its start; a read is several statements, between which  *)
(* writers commit.                                                         *)
(***************************************************************************)
EXTENDS PaperLedger, FiniteSets, SequencesExt

CONSTANTS
  Account,
  Command,         \* what the commands on an account ask for, creation included
  Key, OpKey,      \* idempotency keys of commands, of snapshots and reconciliations
  Reader,
  NoAccount, NoProjection, NoReceipt,
  MaxVersion,      \* bound: events of an account
  MaxDamage        \* bound: projections that are damaged from outside

Movement == {"deposit", "withdrawal", "fee", "commission", "tax", "manual_adjustment"}

\* What the commands carry; an adjustment moves a position by any amounts.
CommandAssumption ==
  \A c \in Command :
    \/ c.type = "create" /\ c.cash \in Int
    \/ c.type = "cash" /\ c.movement \in Movement /\ c.amount \in Int
    \/ c.type = "position" /\ c.symbol \in Symbol /\ c.quantity \in Int /\ c.cost \in Int
    \/ /\ c.type = "fill" /\ c.symbol \in Symbol /\ c.side \in {"buy", "sell"}
       /\ c.quantity \in Nat \ {0} /\ c.gross \in Nat /\ c.charges \in Nat
    \/ c.type = "link" /\ c.decision \in Decision
    \/ c.type \in {"freeze", "reactivate", "close"}

Row        == [version : Nat, status : Status, projection : {"current", "reconciliation_required"}]
Projection == [version : Nat, state : State]
Receipt    == [command : Command, answer : Account]
Finding    == [version : Nat, candidate : Projection, outcome : {"matched", "mismatched"}]
Repeatable == [command : [command : Command, expected : Nat], answer : Nat]

\* What stands for the lack of a row, a projection or a receipt is none itself.
ASSUME AccountAssumption ==
  /\ CommandAssumption
  /\ NoAccount \notin Row /\ NoProjection \notin Projection
  /\ NoReceipt \notin Receipt \union Repeatable \union Projection \union Finding
  /\ MaxVersion \in Nat \ {0} /\ MaxDamage \in Nat

VARIABLES
  accounts,         \* the row of each account: version, status, projection status
  ledger,           \* the events of each account
  projections,      \* the cached projection of each account
  creations,        \* what is stored under each creation key
  snapshots,        \* per account and operation key
  reconciliations,
  told,             \* answers to commands: key, digest, version and projection
  toldCreations,    \* answers to creations: key, digest and account
  reads,            \* what each reader has seen so far
  damaged, damages  \* accounts whose projection was changed from outside since it
                    \* was last written, and how often that has happened

stored  == <<accounts, ledger, projections, creations, snapshots, reconciliations>>
history == <<told, toldCreations>>
outside == <<damaged, damages>>
vars    == <<stored, history, reads, outside>>

Version == 1..MaxVersion

Project(events) == [version |-> Len(events), state |-> Rebuild(events)]

Prefix(a, n) == SubSeq(ledger[a], 1, n)

Idle == [at |-> "idle"]

Exists(a) == accounts[a] # NoAccount

TypeOK ==
  /\ \A a \in Account :
       /\ Exists(a) => /\ accounts[a].version = Len(ledger[a])
                       /\ accounts[a].projection \in {"current", "reconciliation_required"}
       /\ ~Exists(a) => ledger[a] = <<>> /\ projections[a] = NoProjection
  /\ \A k \in Key : creations[k] # NoReceipt => Exists(creations[k].answer)
  /\ \A t \in told : t.version \in 1..Len(ledger[t.account])
  /\ \A r \in Reader : reads[r].at \in {"idle", "row", "events", "cash", "positions", "done"}
  /\ damaged \subseteq Account /\ damages \in 0..MaxDamage

Init ==
  /\ accounts = [a \in Account |-> NoAccount]
  /\ ledger = [a \in Account |-> <<>>]
  /\ projections = [a \in Account |-> NoProjection]
  /\ creations = [k \in Key |-> NoReceipt]
  /\ snapshots = [a \in Account |-> [o \in OpKey |-> NoReceipt]]
  /\ reconciliations = [a \in Account |-> [o \in OpKey |-> NoReceipt]]
  /\ told = {} /\ toldCreations = {}
  /\ reads = [r \in Reader |-> Idle]
  /\ damaged = {} /\ damages = 0

-----------------------------------------------------------------------------
(* The account row and its projection *)

\* What a command is told apart by: its content and the version it was made for.
Digest(c, expected) == [command |-> c, expected |-> expected]

EventOf(a, k) == {n \in 1..Len(ledger[a]) : ledger[a][n].key = k}

\* Mutant: the stored projection is not compared with the ledger.
TrustedCurrent(a) ==
  /\ accounts[a].projection = "current"
  /\ projections[a] # NoProjection
  /\ projections[a].version = accounts[a].version

\* The history replays, the projection is marked current, stands at the head and
\* is what the replay gives.
VerifiedCurrent(a) ==
  /\ accounts[a].projection = "current"
  /\ projections[a] # NoProjection
  /\ projections[a].version = accounts[a].version
  /\ projections[a] = Project(ledger[a])

\* Mutant: the projection is written before the event is appended.
KeepsProjection(a, event) ==
  /\ ledger' = [ledger EXCEPT ![a] = Append(@, event)]
  /\ projections' = [projections EXCEPT ![a] = Project(ledger[a])]
  /\ accounts' = [accounts EXCEPT ![a] =
       [version |-> Len(ledger[a]) + 1, status |-> event.state.status, projection |-> "current"]]
  /\ damaged' = damaged \ {a}

\* The event is appended, the row moves to it and the projection is written again.
AppendMutation(a, event) ==
  LET next == Append(ledger[a], event) IN
  /\ ledger' = [ledger EXCEPT ![a] = next]
  /\ projections' = [projections EXCEPT ![a] = Project(next)]
  /\ accounts' = [accounts EXCEPT ![a] =
       [version |-> Len(next), projection |-> "current",
        status  |-> Posted(Rebuild(ledger[a]), event.command, event.effect).status]]
  /\ damaged' = damaged \ {a}

AnswerOf(a, k, n) ==
  [account |-> a, key |-> k, version |-> n, projection |-> Project(Prefix(a, n)),
   digest |-> Digest(ledger[a][n].command, ledger[a][n].expected)]

-----------------------------------------------------------------------------
(* Commands *)

\* A new account takes the creation key, which is also the key of its first event.
Create(a, c, k) ==
  /\ creations[k] = NoReceipt /\ ~Exists(a)
  /\ c.type = "create" /\ Applicable(Genesis, c)
  /\ AppendMutation(a, NewEvent(Genesis, c, k, 0))
  /\ creations' = [creations EXCEPT ![k] = [command |-> c, answer |-> a]]
  /\ toldCreations' \in {toldCreations, toldCreations \union {<<k, c, a>>}}
  /\ UNCHANGED <<snapshots, reconciliations, told, reads, damages>>

\* The creation is sent again: its account as it was created.
CreateAgain(c, k) ==
  /\ creations[k] # NoReceipt /\ creations[k].command = c
  /\ toldCreations' = toldCreations \union {<<k, c, creations[k].answer>>}
  /\ UNCHANGED <<stored, told, reads, outside>>

\* A command is sent again under its key: the ledger up to its event answers.
Repeat(a, c, k, expected) ==
  /\ \E n \in EventOf(a, k) :
       /\ Digest(ledger[a][n].command, ledger[a][n].expected) = Digest(c, expected)
       /\ told' = told \union {AnswerOf(a, k, n)}
  /\ UNCHANGED <<stored, toldCreations, reads, outside>>

\* _mutate and the review link: key, account, projection, version, then the rules
\* of the ledger.  The answer may not arrive.
Mutate(a, c, k, expected) ==
  /\ EventOf(a, k) = {}
  /\ Exists(a) /\ VerifiedCurrent(a)
  /\ expected = accounts[a].version /\ expected < MaxVersion
  /\ c.type # "create" /\ Applicable(Rebuild(ledger[a]), c)
  /\ AppendMutation(a, NewEvent(Rebuild(ledger[a]), c, k, expected))
  /\ told' \in {told, told \union {AnswerOf(a, k, expected + 1)'}}
  /\ UNCHANGED <<creations, snapshots, reconciliations, toldCreations, reads, damages>>

-----------------------------------------------------------------------------
(* The projection: repair and evidence *)

RebuildProjection(a, expected) ==
  /\ Exists(a) /\ expected = accounts[a].version
  /\ projections' = [projections EXCEPT ![a] = Project(ledger[a])]
  /\ accounts' = [accounts EXCEPT ![a] = [@ EXCEPT !.projection = "current"]]
  /\ damaged' = damaged \ {a}
  /\ UNCHANGED <<ledger, creations, snapshots, reconciliations, history, reads, damages>>

\* A snapshot records the replay of the head it names, whatever is cached.
CreateSnapshot(a, o, expected) ==
  /\ Exists(a) /\ snapshots[a][o] = NoReceipt
  /\ expected = Len(ledger[a])
  /\ snapshots' = [snapshots EXCEPT ![a] = [@ EXCEPT ![o] = Project(ledger[a])]]
  /\ UNCHANGED <<accounts, ledger, projections, creations, reconciliations, history, reads, outside>>

Outcome(a) == IF projections[a] = Project(ledger[a]) THEN "matched" ELSE "mismatched"

\* A reconciliation compares what is cached with the replay, records what it found
\* and marks the account; it repairs nothing.
ReconcileProjection(a, o, expected) ==
  /\ Exists(a) /\ reconciliations[a][o] = NoReceipt
  /\ projections[a] # NoProjection /\ expected = Len(ledger[a])
  /\ reconciliations' = [reconciliations EXCEPT ![a] =
       [@ EXCEPT ![o] = [version |-> expected, candidate |-> projections[a], outcome |-> Outcome(a)]]]
  /\ accounts' = [accounts EXCEPT ![a] = [@ EXCEPT !.projection =
       IF Outcome(a) = "matched" THEN "current" ELSE "reconciliation_required"]]
  /\ UNCHANGED <<ledger, projections, creations, snapshots, history, reads, outside>>

\* From outside: the projection is lost, restored from before, or changed in place.
Damage(a) ==
  /\ Exists(a) /\ projections[a] # NoProjection /\ damages < MaxDamage
  /\ \E p \in {NoProjection, [projections[a] EXCEPT !.state.cash = @ + 1]} \union
              {Project(Prefix(a, n)) : n \in 1..Len(ledger[a]) - 1} :
       projections' = [projections EXCEPT ![a] = p]
  /\ damaged' = damaged \union {a} /\ damages' = damages + 1
  /\ UNCHANGED <<accounts, ledger, creations, snapshots, reconciliations, history, reads>>

-----------------------------------------------------------------------------
(* Reads: get_account_detail, one statement at a time *)

Read(r, seen) == /\ reads' = [reads EXCEPT ![r] = seen]
                 /\ UNCHANGED <<stored, history, outside>>

Seen(r) == reads[r]

Finish(r, result) ==
  Read(r, [at |-> "done", account |-> Seen(r).account, row |-> Seen(r).row, result |-> result])

ReadRow(r, a) ==
  /\ Seen(r).at = "idle" /\ Exists(a)
  /\ Read(r, [at |-> "row", account |-> a, row |-> accounts[a]])

ReadEvents(r) ==
  /\ Seen(r).at = "row"
  /\ Read(r, [at |-> "events", account |-> Seen(r).account, row |-> Seen(r).row,
              events |-> ledger[Seen(r).account]])

\* Events that a later statement sees and that the statement for events did not.
Newer(r) == {n \in 1..Len(ledger[Seen(r).account]) : n > Len(Seen(r).events)}

HasCash(event)     == event.command.type \in {"create", "cash", "fill"}
HasPosition(event) == event.command.type \in {"position", "fill"}

ReadCash(r) ==
  /\ Seen(r).at = "events"
  /\ Read(r, [Seen(r) EXCEPT !.at = "cash",
       !.row = IF \E n \in Newer(r) : HasCash(ledger[Seen(r).account][n]) THEN Corrupt ELSE @])

\* reconstruct_history: no posting without its event, and the replay stands where
\* the account row does.
HistoryValid(r) ==
  /\ Seen(r).row # Corrupt
  /\ Rebuild(Seen(r).events) # Corrupt
  /\ Seen(r).row.version = Len(Seen(r).events)
  /\ Seen(r).row.status = Rebuild(Seen(r).events).status

ReadPositions(r) ==
  LET orphan == \E n \in Newer(r) : HasPosition(ledger[Seen(r).account][n]) IN
  /\ Seen(r).at = "cash"
  /\ IF orphan \/ ~HistoryValid(r) THEN Finish(r, Corrupt)
     ELSE IF Seen(r).row.projection # "current" THEN Finish(r, NoProjection)
     ELSE Read(r, [Seen(r) EXCEPT !.at = "positions"])

\* The answer is what is cached, or that the projection has to be reconciled.
ReadProjection(r) ==
  LET p == projections[Seen(r).account] IN
  /\ Seen(r).at = "positions"
  /\ Finish(r, IF p = Project(Seen(r).events) THEN p ELSE NoProjection)

Answered(r) ==
  /\ Seen(r).at = "done"
  /\ Read(r, Idle)

-----------------------------------------------------------------------------

Next ==
  \/ \E a \in Account, k \in Key, c \in Command : Create(a, c, k)
  \/ \E k \in Key, c \in Command : CreateAgain(c, k)
  \/ \E a \in Account, k \in Key, c \in Command, v \in Version :
       Mutate(a, c, k, v) \/ Repeat(a, c, k, v)
  \/ \E a \in Account, v \in Version :
       \/ RebuildProjection(a, v)
       \/ \E o \in OpKey : CreateSnapshot(a, o, v) \/ ReconcileProjection(a, o, v)
  \/ \E a \in Account : Damage(a)
  \/ \E r \in Reader :
       \/ \E a \in Account : ReadRow(r, a)
       \/ ReadEvents(r) \/ ReadCash(r) \/ ReadPositions(r) \/ ReadProjection(r) \/ Answered(r)

Spec == Init /\ [][Next]_vars

-----------------------------------------------------------------------------
(* Properties *)

\* Whatever was appended, the replay accepts it: no legal sequence of commands makes
\* an account that cannot be read again.
LedgersReplay ==
  \A a \in Account : Exists(a) =>
    IF Rebuild(ledger[a]) = Corrupt THEN FALSE
    ELSE accounts[a].status = Rebuild(ledger[a]).status

\* A closed account holds nothing and has no later event; a frozen one has no event
\* but its reactivation or its closure.
RestsAtEmpty ==
  \A a \in Account : \A n \in 1..Len(ledger[a]) : LET s == ledger[a][n].state IN
    /\ s.status = "closed" => n = Len(ledger[a]) /\ Empty(s)
    /\ s.status = "frozen" /\ n < Len(ledger[a]) =>
         ledger[a][n + 1].command.type \in {"reactivate", "close"}

\* No update is lost: every event was asked for by a caller who had seen the event
\* before it, and no two events of an account have one key.
EachOnItsVersion ==
  \A a \in Account : \A n \in 1..Len(ledger[a]) :
    ledger[a][n].expected = n - 1 /\ EventOf(a, ledger[a][n].key) = {n}

\* A sale takes its share of the cost basis, off by half a unit at most, however
\* the position was built.
SalesAreProportional ==
  \A a \in Account : \A n \in 2..Len(ledger[a]) :
    LET e == ledger[a][n]
    IN (e.command.type = "fill" /\ e.command.side = "sell") =>
         LET p == ledger[a][n - 1].state.positions[e.command.symbol]
             off == -e.effect.cost * p.quantity - p.cost * e.command.quantity
         IN 2 * off <= p.quantity /\ -2 * off <= p.quantity

\* Answers, the first and the repeated ones, are about the account as the command
\* left it and not as it is by now.
AnswersAreOfTheirEvent ==
  \A t \in told : t.projection = Project(Prefix(t.account, t.version))

\* Only the outside makes the cache differ from the ledger.
CacheFollowsLedger ==
  \A a \in Account : Exists(a) /\ a \notin damaged => projections[a] = Project(ledger[a])

\* Evidence tells the truth for good: a snapshot is the replay of the version it
\* names, a reconciliation found a match exactly if there was one.
EvidenceIsTrue ==
  \A a \in Account, o \in OpKey :
    /\ snapshots[a][o] # NoReceipt => snapshots[a][o] = Project(Prefix(a, snapshots[a][o].version))
    /\ reconciliations[a][o] # NoReceipt =>
         LET x == reconciliations[a][o]
         IN (x.outcome = "matched") <=> (x.candidate = Project(Prefix(a, x.version)))

\* A ledger only grows, and never on a projection that is wrong or awaits its
\* reconciliation; only a rebuild and an event bring a wrong one back.
GrowsOnSoundProjection == [][
  \A a \in Account :
    /\ IsPrefix(ledger[a], ledger'[a])
    /\ Exists(a) /\ ledger'[a] # ledger[a] =>
         projections[a] = Project(ledger[a]) /\ accounts[a].projection = "current"
  ]_vars

\* After a mismatch was found the account is not taken for current again before its
\* projection is right again.
MismatchHolds ==
  \A a \in Account : Exists(a) /\ accounts[a].projection = "reconciliation_required" => a \in damaged

\* A read answers with the account at one version, the one its first statement saw.
ReadsAreOfOneVersion ==
  \A r \in Reader : LET x == reads[r] IN
    x.at = "done" /\ x.result \notin {Corrupt, NoProjection} =>
      x.result = Project(Prefix(x.account, x.row.version))

\* Every ledger the program writes is one the replay accepts; a closed account is
\* empty and has no later event; every event was asked for by a caller who had seen
\* the one before it; a sale takes its share of the cost basis.
LedgersAreSound ==
  TypeOK /\ LedgersReplay /\ RestsAtEmpty /\ EachOnItsVersion /\ SalesAreProportional

\* Only the outside makes the cache differ from the ledger, a mismatch that was found
\* holds until the projection is right again, and the evidence of snapshots and
\* reconciliations stays true.  Every event is answered to its own command, whenever that
\* is sent again, and a read whose statements see the account move on answers with one
\* version of it.
ProjectionsAreHonest ==
  /\ CacheFollowsLedger /\ MismatchHolds /\ EvidenceIsTrue
  /\ AnswersAreOfTheirEvent /\ ReadsAreOfOneVersion

\* An account whose every event was written by the program is not reported corrupt.
CorruptionIsReal == \A r \in Reader : reads[r].at = "done" => reads[r].result # Corrupt

\* Commands keep the promise of idempotent commands, per account, and creations do.
Commands == INSTANCE KeyedCommands WITH
  Key <- Account \X Key, Command <- [command : Command, expected : 0..MaxVersion],
  Answer <- Version,
  receipts <- [x \in Account \X Key |->
    IF EventOf(x[1], x[2]) = {} THEN NoReceipt
    ELSE LET n == CHOOSE i \in EventOf(x[1], x[2]) : TRUE
         IN [command |-> Digest(ledger[x[1]][n].command, ledger[x[1]][n].expected), answer |-> n]],
  told <- {<<<<t.account, t.key>>, t.digest, t.version>> : t \in told}

Creations == INSTANCE KeyedCommands WITH
  Answer <- Account, receipts <- creations, told <- toldCreations

=============================================================================

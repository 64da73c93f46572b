-------------------------- MODULE PortfolioReview --------------------------
(***************************************************************************)
(* Portfolio reviews: a review is created from a source and an analysis,   *)
(* and later settled by one human decision.  Its row is in the database;   *)
(* the three documents are write-once files beside it, published while the *)
(* transaction is open.  A process may stop between any two steps, which   *)
(* rolls its row back and leaves the files it has published.               *)
(*                                                                         *)
(* A SELECT takes no lock here; the first INSERT or UPDATE of a            *)
(* transaction takes the one write lock of the database.  A digest is the  *)
(* content it is taken of.                                                 *)
(***************************************************************************)
EXTENDS Naturals, FiniteSets

CONSTANTS
  Process,    \* API workers
  Creates,    \* the create commands sent: [key, analysis]
  Decisions,  \* the decision commands sent: [key, decision]
  MaxCalls, MaxStops  \* bounds: calls made, and processes stopped in a call

\* A command is bound to its key, and to all of what it asks for.
ASSUME ReviewAssumption ==
  /\ \A c \in Creates : c = [key |-> c.key, analysis |-> c.analysis]
  /\ \A d \in Decisions : d = [key |-> d.key, decision |-> d.decision]
  /\ MaxCalls \in Nat /\ MaxStops \in Nat

VARIABLES
  rows,     \* portfolio_reviews, as committed
  files,    \* the files published, by relative path
  proc,     \* of each process: where it is in its call, and its open transaction
  answers,  \* the answers given: [cmd, is, view]
  calls, stops

vars == <<rows, files, proc, answers, calls, stops>>

\* An analysis holds its source; a decision holds the review it is about.
Analyses == {c.analysis : c \in Creates}
Sources  == {a.source : a \in Analyses}
Outcomes == {d.decision : d \in Decisions}
Commands == Creates \union Decisions
IsCreate(c) == "analysis" \in DOMAIN c

NoDecision == [key |-> "none"]
Row == [analysis : Analyses, key : {c.key : c \in Creates},
        settled : Decisions \union {NoDecision}]
Awaiting(row) == row.settled = NoDecision

SourcePath(s)   == <<"source", s.id>>
AnalysisPath(r) == <<"analysis", r>>
DecisionPath(r) == <<"decision", r>>

----------------------------------------------------------------------------
(* Files.                                                                  *)

Published(path) == path \in DOMAIN files

\* A file that reads back as this very document.
Holds(path, document) == Published(path) /\ files[path] = document

\* Write the file, or keep the one that is there.
Publish(path, document) ==
  files' = [p \in DOMAIN files \union {path} |->
              IF Published(p) THEN files[p] ELSE document]

\* Reopening a review: its documents are there, and are those the row names.
SourceReopens(row) == Holds(SourcePath(row.analysis.source), row.analysis.source)
AnalysisReopens(row) ==
  SourceReopens(row) /\ Holds(AnalysisPath(row.analysis.review), row.analysis)
DecisionReopens(row) ==
  Awaiting(row) \/ Holds(DecisionPath(row.analysis.review), row.settled.decision)
Reopens(row) == AnalysisReopens(row) /\ DecisionReopens(row)

----------------------------------------------------------------------------
(* Rows.                                                                   *)

RowsOf(r)           == {row \in rows : row.analysis.review = r}
ByCreateKey(k)      == {row \in rows : row.key = k}
ByDecisionKey(k)    == {row \in rows : ~Awaiting(row) /\ row.settled.key = k}
Unsettled(r)        == {row \in RowsOf(r) : Awaiting(row)}
CreateCollides(c)   == RowsOf(c.analysis.review) # {} \/ ByCreateKey(c.key) # {}
DecisionCollides(c) ==
  \E row \in rows : /\ ~Awaiting(row)
                    /\ row.settled.key = c.key \/ row.settled.decision.id = c.decision.id

----------------------------------------------------------------------------
(* Calls.                                                                  *)

Idle == [at |-> "idle"]
In(at, c, row) == [at |-> at, cmd |-> c, row |-> row]
NoRow == [key |-> "none"]
Holding == {"source", "analysis", "seal", "decision", "confirm"}
LockFree == \A p \in Process : proc[p].at \notin Holding

Init ==
  /\ rows = {} /\ files = [path \in {} |-> 0]
  /\ proc = [p \in Process |-> Idle]
  /\ answers = {} /\ calls = 0 /\ stops = 0

Go(p, at, row) == proc' = [proc EXCEPT ![p] = In(at, proc[p].cmd, row)]
Tell(p, is, row) ==
  /\ answers' = answers \union {[cmd |-> proc[p].cmd, is |-> is, view |-> row]}
  /\ proc' = [proc EXCEPT ![p] = Idle]
Refuse(p, is) == Tell(p, is, NoRow)

\* The replay of a settled row: its detail is reopened, which may fail.
Replay(p, row) == IF Reopens(row) THEN Tell(p, "replayed", row) ELSE Refuse(p, "invalid_artifact")

At(p, at) == proc[p].at = at
Quiet == UNCHANGED <<calls, stops>>
ReadOnly == UNCHANGED <<rows, files>> /\ Quiet

Call(p, c) ==
  /\ At(p, "idle") /\ calls < MaxCalls
  /\ calls' = calls + 1
  /\ proc' = [proc EXCEPT ![p] = In(IF IsCreate(c) THEN "create" ELSE "decide", c, NoRow)]
  /\ UNCHANGED <<rows, files, answers, stops>>

\* What a key that is already bound answers.
ReplayCreate(p, row) ==
  IF row.analysis # proc[p].cmd.analysis THEN Refuse(p, "key_conflict") ELSE Replay(p, row)

Create(p) ==
  /\ At(p, "create")
  /\ IF ByCreateKey(proc[p].cmd.key) = {} THEN Go(p, "insert", NoRow) /\ UNCHANGED answers
     ELSE \E row \in ByCreateKey(proc[p].cmd.key) : ReplayCreate(p, row)
  /\ ReadOnly

NewRow(c) == [analysis |-> c.analysis, key |-> c.key, settled |-> NoDecision]

\* A mutant: the row is committed before its files are written.
InsertAtOnce(p) ==
  /\ At(p, "insert") /\ LockFree
  /\ IF CreateCollides(proc[p].cmd) THEN Go(p, "collided", NoRow) /\ UNCHANGED rows
     ELSE Go(p, "source", NewRow(proc[p].cmd)) /\ rows' = rows \union {NewRow(proc[p].cmd)}
  /\ UNCHANGED <<answers, files>> /\ Quiet

\* add_awaiting_decision: the row is in the open transaction, and holds the lock.
Insert(p) ==
  /\ At(p, "insert") /\ LockFree
  /\ IF CreateCollides(proc[p].cmd) THEN Go(p, "collided", NoRow)
     ELSE Go(p, "source", NewRow(proc[p].cmd))
  /\ UNCHANGED answers /\ ReadOnly

Collided(p) ==
  /\ At(p, "collided")
  /\ IF ByCreateKey(proc[p].cmd.key) = {} THEN Refuse(p, "conflict")
     ELSE \E row \in ByCreateKey(proc[p].cmd.key) : ReplayCreate(p, row)
  /\ ReadOnly

\* Publish a document and read it back: on another one the transaction rolls back.
PublishSource(p) ==
  LET s == proc[p].row.analysis.source IN
  /\ At(p, "source")
  /\ Publish(SourcePath(s), s)
  /\ IF Published(SourcePath(s)) /\ ~Holds(SourcePath(s), s) THEN Refuse(p, "artifact_conflict")
     ELSE Go(p, "analysis", proc[p].row) /\ UNCHANGED answers
  /\ UNCHANGED rows /\ Quiet

PublishAnalysis(p) ==
  LET a == proc[p].row.analysis
      there == AnalysisPath(a.review)
  IN
  /\ At(p, "analysis")
  /\ Publish(there, a)
  /\ IF Published(there) /\ files[there].source # a.source THEN Refuse(p, "invalid_artifact")
     ELSE IF Published(there) /\ files[there] # a THEN Refuse(p, "artifact_conflict")
     ELSE Go(p, "seal", proc[p].row) /\ UNCHANGED answers
  /\ UNCHANGED rows /\ Quiet

Seal(p) ==
  /\ At(p, "seal")
  /\ IF Reopens(proc[p].row)
     THEN rows' = rows \union {proc[p].row} /\ Tell(p, "created", proc[p].row)
     ELSE Refuse(p, "invalid_artifact") /\ UNCHANGED rows
  /\ UNCHANGED files /\ Quiet

\* get_portfolio_review_detail, and the decision built on the analysis it returns.
Decide(p) ==
  LET d == proc[p].cmd.decision IN
  /\ At(p, "decide")
  /\ IF RowsOf(d.review) = {} THEN Refuse(p, "not_found")
     ELSE \E row \in RowsOf(d.review) :
            IF ~Reopens(row) THEN Refuse(p, "invalid_artifact")
            ELSE IF d.at < row.analysis.at THEN Refuse(p, "invalid")
            ELSE Go(p, "check", row) /\ UNCHANGED answers
  /\ ReadOnly

\* A key or a review that is already settled.
ReplayDecision(p, row) ==
  IF row.settled.decision # proc[p].cmd.decision THEN Refuse(p, "key_conflict") ELSE Replay(p, row)
Classify(p, row) ==
  IF row.settled.key # proc[p].cmd.key THEN Refuse(p, "settled") ELSE ReplayDecision(p, row)

Check(p) ==
  LET c == proc[p].cmd IN
  /\ At(p, "check")
  /\ IF ByDecisionKey(c.key) # {} THEN \E row \in ByDecisionKey(c.key) : ReplayDecision(p, row)
     ELSE \E row \in RowsOf(c.decision.review) :
            IF Awaiting(row) THEN Go(p, "settle", row) /\ UNCHANGED answers
            ELSE Classify(p, row)
  /\ ReadOnly

SettledRow(row, c) == [row EXCEPT !.settled = c]

\* The conditional UPDATE: nothing when the review is settled, an error when it collides.
Settle(p) ==
  LET c == proc[p].cmd
      open == Unsettled(c.decision.review)
  IN
  /\ At(p, "settle") /\ LockFree
  /\ IF open = {} THEN Go(p, "missed", NoRow)
     ELSE IF DecisionCollides(c) THEN Go(p, "decision_collided", NoRow)
     ELSE \E row \in open : Go(p, "decision", SettledRow(row, c))
  /\ UNCHANGED answers /\ ReadOnly

Missed(p) ==
  /\ At(p, "missed")
  /\ \E row \in RowsOf(proc[p].cmd.decision.review) :
       IF Awaiting(row) THEN Refuse(p, "conflict") ELSE Classify(p, row)
  /\ ReadOnly

DecisionCollided(p) ==
  LET c == proc[p].cmd IN
  /\ At(p, "decision_collided")
  /\ IF ByDecisionKey(c.key) # {} THEN \E row \in ByDecisionKey(c.key) : ReplayDecision(p, row)
     ELSE Refuse(p, IF Unsettled(c.decision.review) = {} THEN "settled" ELSE "conflict")
  /\ ReadOnly

PublishDecision(p) ==
  LET d == proc[p].cmd.decision IN
  /\ At(p, "decision")
  /\ Publish(DecisionPath(d.review), d)
  /\ IF Published(DecisionPath(d.review)) /\ ~Holds(DecisionPath(d.review), d)
     THEN Refuse(p, "artifact_conflict")
     ELSE Go(p, "confirm", proc[p].row) /\ UNCHANGED answers
  /\ UNCHANGED rows /\ Quiet

Confirm(p) ==
  LET row == proc[p].row IN
  /\ At(p, "confirm")
  /\ IF Reopens(row)
     THEN /\ rows' = (rows \ RowsOf(row.analysis.review)) \union {row}
          /\ Tell(p, "created", row)
     ELSE Refuse(p, "invalid_artifact") /\ UNCHANGED rows
  /\ UNCHANGED files /\ Quiet

\* The lock is not to be had in time: sqlite gives up, and the call fails with nothing done.
Busy(p) ==
  /\ At(p, "insert") \/ At(p, "settle")
  /\ ~LockFree
  /\ Refuse(p, "unavailable") /\ ReadOnly

Stop(p) ==
  /\ proc[p] # Idle /\ stops < MaxStops
  /\ stops' = stops + 1
  /\ proc' = [proc EXCEPT ![p] = Idle]
  /\ UNCHANGED <<rows, files, answers, calls>>

Step(p) ==
  \/ Create(p) \/ Insert(p) \/ Collided(p) \/ PublishSource(p) \/ PublishAnalysis(p) \/ Seal(p)
  \/ Decide(p) \/ Check(p) \/ Settle(p) \/ Missed(p) \/ DecisionCollided(p)
  \/ PublishDecision(p) \/ Confirm(p) \/ Busy(p)
Next == \E p \in Process : Step(p) \/ Stop(p) \/ \E c \in Commands : Call(p, c)
Spec == Init /\ [][Next]_vars

----------------------------------------------------------------------------
(* Properties.                                                             *)

TypeOK ==
  /\ rows \subseteq Row
  /\ \A r \in {a.review : a \in Analyses} : Cardinality(RowsOf(r)) <= 1
  /\ \A path \in DOMAIN files : files[path] \in Sources \union Analyses \union Outcomes
  /\ \A p \in Process : proc[p] = Idle \/ proc[p].cmd \in Commands
  /\ calls \in 0..MaxCalls /\ stops \in 0..MaxStops

\* Whatever process stops where, every review in the database reopens: its source, its
\* analysis and, once settled, its decision are published and are the ones it names
\* (the files are written inside the transaction that commits the row).
EveryReviewReopens == \A row \in rows : Reopens(row)

\* A call that succeeds answers with what that very command asked for, first or replayed:
\* never with another command's review under the same key, nor another decision.
Succeeded(a) == a.is \in {"created", "replayed"}
AnswersTheCommand ==
  \A a \in answers : Succeeded(a) =>
    IF IsCreate(a.cmd) THEN a.view.analysis = a.cmd.analysis /\ a.view.key = a.cmd.key
    ELSE a.view.settled = a.cmd

\* One review has one winning decision: whoever decides on it with success is told the
\* same one, and it is the one the database keeps.
OneWinner ==
  \A a \in answers : Succeeded(a) /\ ~IsCreate(a.cmd) =>
    \A row \in RowsOf(a.cmd.decision.review) : row.settled = a.cmd

\* A refusal is true: a review is called settled when a decision under another key has
\* settled it, a key is called taken when another command has it, and a document is called
\* in conflict when another one is in its place; so the exact retry of a stopped call is
\* never refused over the files that call left.
Settled(c) == \E row \in RowsOf(c.decision.review) : ~Awaiting(row) /\ row.settled # c
KeyTaken(c) ==
  IF IsCreate(c) THEN \E row \in ByCreateKey(c.key) : row.analysis # c.analysis
  ELSE \E row \in ByDecisionKey(c.key) : row.settled.decision # c.decision
PlaceTaken(c) ==
  IF IsCreate(c)
  THEN ~Holds(SourcePath(c.analysis.source), c.analysis.source)
       \/ ~Holds(AnalysisPath(c.analysis.review), c.analysis)
  ELSE ~Holds(DecisionPath(c.decision.review), c.decision)
RefusalsAreTrue ==
  \A a \in answers :
    /\ a.is = "settled" => Settled(a.cmd)
    /\ a.is = "key_conflict" => KeyTaken(a.cmd)
    /\ a.is = "artifact_conflict" => PlaceTaken(a.cmd)

\* Whatever worker stops where, every review in the database reopens, one decision on it
\* wins, no call succeeds with the answer to another one, and none is refused but for what
\* is really there: the retry of a call that was stopped finds only files of its own.
ReviewsReopen ==
  TypeOK /\ EveryReviewReopens /\ OneWinner /\ AnswersTheCommand /\ RefusalsAreTrue

\* Creations, and decisions, are idempotent commands: a key is of one analysis, or of one
\* decision, for good, and the answer is the review it was first carried out on.
CreationReceipt(k) ==
  IF ByCreateKey(k) = {} THEN NoRow
  ELSE LET row == CHOOSE x \in ByCreateKey(k) : TRUE
       IN [command |-> row.analysis, answer |-> row.analysis.review]
DecisionReceipt(k) ==
  IF ByDecisionKey(k) = {} THEN NoRow
  ELSE LET row == CHOOSE x \in ByDecisionKey(k) : TRUE
       IN [command |-> row.settled.decision, answer |-> row.analysis.review]
Successes(commands) == {a \in answers : Succeeded(a) /\ a.cmd \in commands}

Creations == INSTANCE KeyedCommands WITH
  Key <- {c.key : c \in Creates}, Command <- Analyses, Answer <- {a.review : a \in Analyses},
  NoReceipt <- NoRow,
  receipts <- [k \in {c.key : c \in Creates} |-> CreationReceipt(k)],
  told <- {<<a.cmd.key, a.cmd.analysis, a.view.analysis.review>> : a \in Successes(Creates)}
Settlements == INSTANCE KeyedCommands WITH
  Key <- {d.key : d \in Decisions}, Command <- Outcomes, Answer <- {a.review : a \in Analyses},
  NoReceipt <- NoRow,
  receipts <- [k \in {d.key : d \in Decisions} |-> DecisionReceipt(k)],
  told <- {<<a.cmd.key, a.cmd.decision, a.view.analysis.review>> : a \in Successes(Decisions)}

=============================================================================

----------------------- MODULE PortfolioReview_proofs -----------------------
(***************************************************************************)
(* Proofs about portfolio reviews, for any number of workers, commands,    *)
(* stops and calls.  The invariant says what a transaction that holds the  *)
(* write lock knows of the rows, what a row that is settled is settled by, *)
(* and of each answer the evidence for it, which later steps only add to.  *)
(***************************************************************************)
EXTENDS Workspace, Sequences, FiniteSetTheorems, TLAPS

----------------------------------------------------------------------------
(* The invariant.                                                          *)

Creating == {"create", "insert", "collided", "source", "analysis", "seal"}
Deciding == {"decide", "check", "settle", "missed", "decision_collided", "decision", "confirm"}
ProcState ==
  {Idle} \union [at : Creating, cmd : Creates, row : Row \union {NoRow}]
         \union [at : Deciding, cmd : Decisions, row : Row \union {NoRow}]
Documents == Sources \union Analyses \union Outcomes

Typed ==
  /\ rows \subseteq Row
  /\ proc \in [Process -> ProcState]
  /\ \A path \in DOMAIN files : files[path] \in Documents
  /\ \A a \in answers : a.cmd \in Commands
  /\ calls \in 0..MaxCalls /\ stops \in 0..MaxStops

\* One transaction at a time holds the write lock.
Exclusive ==
  \A p, q \in Process : proc[p].at \in Holding /\ proc[q].at \in Holding => p = q

\* A review has one row, and a key has one; what settles a row is about its review,
\* under a key of its own.
RowsApart ==
  \A x, y \in rows :
    x.analysis.review = y.analysis.review \/ x.key = y.key => x = y
SettledApart ==
  \A x, y \in rows :
    ~Awaiting(x) /\ ~Awaiting(y) /\ x.settled.key = y.settled.key => x = y
SettledByItsOwn ==
  \A x \in rows : ~Awaiting(x) => x.settled.decision.review = x.analysis.review

\* What an open transaction is about to commit still fits the rows, and a decision is made
\* on a review that was found.
OpenCreate(s) ==
  s.at \in {"source", "analysis", "seal"} => s.row = NewRow(s.cmd) /\ ~CreateCollides(s.cmd)
OpenDecision(s) ==
  s.at \in {"decision", "confirm"} =>
    /\ ~DecisionCollides(s.cmd)
    /\ \E old \in Unsettled(s.cmd.decision.review) : s.row = SettledRow(old, s.cmd)
Found(s) ==
  s.at \in {"check", "settle", "missed", "decision_collided"} =>
    RowsOf(s.cmd.decision.review) # {}
Fitting(s) == OpenCreate(s) /\ OpenDecision(s) /\ Found(s)
AllFit == \A p \in Process : Fitting(proc[p])

\* The evidence of an answer.
Won(d) == \E row \in RowsOf(d.decision.review) : row.settled = d
Another(path, document) == Published(path) /\ files[path] # document
PlaceLost(c) ==
  IF IsCreate(c)
  THEN Another(SourcePath(c.analysis.source), c.analysis.source)
       \/ Another(AnalysisPath(c.analysis.review), c.analysis)
  ELSE Another(DecisionPath(c.decision.review), c.decision)
Right(a) ==
  /\ Succeeded(a) /\ ~IsCreate(a.cmd) => Won(a.cmd) /\ a.view.settled = a.cmd
  /\ Succeeded(a) /\ IsCreate(a.cmd) =>
       a.view.analysis = a.cmd.analysis /\ a.view.key = a.cmd.key
  /\ a.is = "settled" => Settled(a.cmd)
  /\ a.is = "key_conflict" => KeyTaken(a.cmd)
  /\ a.is = "artifact_conflict" => PlaceLost(a.cmd)
AnswersRight == \A a \in answers : Right(a)

RowsRight == rows \subseteq Row /\ RowsApart /\ SettledApart /\ SettledByItsOwn
IInv == Typed /\ Exclusive /\ RowsRight /\ AllFit /\ EveryReviewReopens /\ AnswersRight

----------------------------------------------------------------------------
(* Commands, and what the typing says of a process.                        *)

LEMMA CreatesAre == ASSUME NEW c \in Creates PROVE IsCreate(c) /\ c \in Commands
BY ReviewAssumption DEF IsCreate, Commands

LEMMA DecisionsAre ==
  ASSUME NEW d \in Decisions
  PROVE  ~IsCreate(d) /\ d \in Commands /\ d # NoDecision
<1>1. d = [key |-> d.key, decision |-> d.decision] BY ReviewAssumption
<1>2. DOMAIN d = {"key", "decision"} BY <1>1
<1>3. ~IsCreate(d) /\ d \in Commands BY <1>2 DEF IsCreate, Commands
<1>4. DOMAIN NoDecision = {"key"} BY DEF NoDecision
<1> QED BY <1>2, <1>3, <1>4

\* Decisions that agree on key and decision are the same.
LEMMA DecisionsAgree ==
  ASSUME NEW c \in Decisions, NEW d \in Decisions, c.key = d.key, c.decision = d.decision
  PROVE  c = d
BY ReviewAssumption

LEMMA InCreating ==
  ASSUME Typed, NEW p \in Process, proc[p].at \in Creating
  PROVE  /\ proc[p].cmd \in Creates /\ proc[p].row \in Row \union {NoRow}
<1>1. proc[p] \in ProcState BY DEF Typed
<1>2. proc[p] # Idle BY DEF Idle, Creating
<1>3. proc[p] \notin [at : Deciding, cmd : Decisions, row : Row \union {NoRow}]
  BY DEF Creating, Deciding
<1> QED BY <1>1, <1>2, <1>3 DEF ProcState

LEMMA InDeciding ==
  ASSUME Typed, NEW p \in Process, proc[p].at \in Deciding
  PROVE  /\ proc[p].cmd \in Decisions /\ proc[p].row \in Row \union {NoRow}
<1>1. proc[p] \in ProcState BY DEF Typed
<1>2. proc[p] # Idle BY DEF Idle, Deciding
<1>3. proc[p] \notin [at : Creating, cmd : Creates, row : Row \union {NoRow}]
  BY DEF Creating, Deciding
<1> QED BY <1>1, <1>2, <1>3 DEF ProcState

LEMMA ToCreating ==
  ASSUME NEW to \in Creating, NEW c \in Creates, NEW row \in Row \union {NoRow}
  PROVE  In(to, c, row) \in ProcState
<1>1. [at |-> to, cmd |-> c, row |-> row] \in [at : Creating, cmd : Creates, row : Row \union {NoRow}]
  OBVIOUS
<1> QED BY <1>1 DEF ProcState, In

LEMMA ToDeciding ==
  ASSUME NEW to \in Deciding, NEW c \in Decisions, NEW row \in Row \union {NoRow}
  PROVE  In(to, c, row) \in ProcState
<1>1. [at |-> to, cmd |-> c, row |-> row] \in [at : Deciding, cmd : Decisions, row : Row \union {NoRow}]
  OBVIOUS
<1> QED BY <1>1 DEF ProcState, In

LEMMA IdleFits == Idle \in ProcState /\ Fitting(Idle) /\ Fitting(Idle)' /\ Idle.at \notin Holding
BY DEF Idle, ProcState, Fitting, OpenCreate, OpenDecision, Found, Holding

----------------------------------------------------------------------------
(* What every step does: files stay as they are, and a row stays, or is    *)
(* settled.                                                                *)

FilesKept == \A path \in DOMAIN files : path \in DOMAIN files' /\ files'[path] = files[path]
RowsKept ==
  \A row \in rows : \E new \in rows' :
    /\ new.analysis = row.analysis /\ new.key = row.key
    /\ new = row \/ Awaiting(row)

LEMMA ReopensStays ==
  ASSUME FilesKept, NEW row, Reopens(row) PROVE Reopens(row)'
BY DEF FilesKept, Reopens, AnalysisReopens, SourceReopens, DecisionReopens, Holds, Published

LEMMA AnotherStays ==
  ASSUME FilesKept, NEW path, NEW document, Another(path, document)
  PROVE  Another(path, document)'
BY DEF FilesKept, Another, Published

LEMMA PlaceLostStays ==
  ASSUME FilesKept, NEW c, PlaceLost(c) PROVE PlaceLost(c)'
BY AnotherStays DEF PlaceLost

LEMMA FoundStays ==
  ASSUME RowsKept, NEW r, RowsOf(r) # {} PROVE (RowsOf(r) # {})'
BY DEF RowsKept, RowsOf

LEMMA WonStays ==
  ASSUME RowsKept, NEW d \in Decisions, Won(d) PROVE Won(d)'
BY DecisionsAre DEF RowsKept, Won, RowsOf, Awaiting

LEMMA SettledStays ==
  ASSUME RowsKept, NEW d, Settled(d) PROVE Settled(d)'
BY DEF RowsKept, Settled, RowsOf

LEMMA KeyTakenStays ==
  ASSUME RowsKept, NEW c, KeyTaken(c) PROVE KeyTaken(c)'
<1>1. CASE IsCreate(c)
  BY <1>1 DEF RowsKept, KeyTaken, ByCreateKey
<1>2. CASE ~IsCreate(c)
  BY <1>2 DEF RowsKept, KeyTaken, ByDecisionKey
<1> QED BY <1>1, <1>2

LEMMA RightStays ==
  ASSUME RowsKept, FilesKept, NEW a, a.cmd \in Commands, Right(a) PROVE Right(a)'
<1>1. ~IsCreate(a.cmd) => a.cmd \in Decisions BY CreatesAre DEF Commands
<1> QED BY <1>1, WonStays, SettledStays, KeyTakenStays, PlaceLostStays DEF Right

LEMMA FittingStays ==
  ASSUME NEW s, Fitting(s), RowsKept, rows' = rows \/ s.at \notin Holding
  PROVE  Fitting(s)'
<1>1. Found(s)' BY FoundStays DEF Fitting, Found
<1>2. CASE s.at \notin Holding
  BY <1>1, <1>2 DEF Fitting, OpenCreate, OpenDecision, Holding
<1>3. CASE rows' = rows
  <2>1. OpenCreate(s)' BY <1>3 DEF Fitting, OpenCreate, CreateCollides, RowsOf, ByCreateKey
  <2>2. OpenDecision(s)'
    BY <1>3 DEF Fitting, OpenDecision, DecisionCollides, Unsettled, RowsOf
  <2> QED BY <1>1, <2>1, <2>2 DEF Fitting
<1> QED BY <1>2, <1>3

----------------------------------------------------------------------------
(* A step of one process preserves the invariant when its new state fits,  *)
(* its rows and files are right, and what it tells is right.               *)

\* What the files hold, and what is told, in a step.
DocumentsOnly == \A path \in DOMAIN files : files[path] \in Documents
AllRight(told) == \A a \in told : a.cmd \in Commands /\ Right(a)

LEMMA StepKeeps ==
  ASSUME IInv, NEW p \in Process, NEW s \in ProcState,
         RowsKept, FilesKept, RowsRight', EveryReviewReopens',
         DocumentsOnly',
         proc' = [proc EXCEPT ![p] = s], Fitting(s)',
         rows' = rows \/ proc[p].at \in Holding,
         s.at \in Holding => LockFree \/ proc[p].at \in Holding,
         NEW told, answers' \subseteq answers \union told, AllRight(told)',
         calls' \in 0..MaxCalls, stops' \in 0..MaxStops
  PROVE  IInv'
<1> USE DEF IInv
<1>0. \A q \in Process : proc'[q] = IF q = p THEN s ELSE proc[q] BY DEF Typed
<1>1. Typed'
  <2>1. (rows \subseteq Row)' BY DEF RowsRight
  <2>2. proc' \in [Process -> ProcState] BY DEF Typed
  <2>3. (\A a \in answers : a.cmd \in Commands)' BY DEF Typed, AllRight
  <2> QED BY <2>1, <2>2, <2>3 DEF Typed, DocumentsOnly
<1>2. Exclusive'
  BY <1>0 DEF Exclusive, LockFree
<1>3. AllFit'
  <2> SUFFICES ASSUME NEW q \in Process PROVE Fitting(proc[q])' BY DEF AllFit
  <2>1. CASE q = p BY <2>1, <1>0
  <2>2. CASE q # p
    <3>1. proc'[q] = proc[q] BY <2>2, <1>0
    <3>2. rows' = rows \/ proc[q].at \notin Holding BY <2>2 DEF Exclusive
    <3>3. PICK t : t = proc[q] OBVIOUS
    <3>4. Fitting(t) BY <3>3 DEF AllFit
    <3>5. Fitting(t)' BY <3>2, <3>3, <3>4, FittingStays
    <3> QED BY <3>1, <3>3, <3>5
  <2> QED BY <2>1, <2>2
<1>4. AnswersRight'
  <2> SUFFICES ASSUME NEW a \in answers' PROVE Right(a)' BY DEF AnswersRight
  <2>1. CASE a \in answers
    BY <2>1, RightStays DEF AnswersRight, Typed
  <2> QED BY <2>1 DEF AllRight
<1> QED BY <1>1, <1>2, <1>3, <1>4

----------------------------------------------------------------------------
(* The ways a step ends: it goes on, or it answers, and leaves the rows.   *)

LEMMA RowsSame ==
  ASSUME IInv, rows' = rows, FilesKept
  PROVE  RowsKept /\ RowsRight' /\ EveryReviewReopens'
<1>1. RowsKept BY DEF RowsKept
<1>2. RowsRight'
  BY DEF IInv, RowsRight, RowsApart, SettledApart, SettledByItsOwn
<1>3. EveryReviewReopens' BY ReopensStays DEF IInv, EveryReviewReopens
<1> QED BY <1>1, <1>2, <1>3

LEMMA FilesSame ==
  ASSUME IInv, UNCHANGED files PROVE FilesKept /\ DocumentsOnly'
BY DEF IInv, Typed, FilesKept, DocumentsOnly

LEMMA PublishKeeps ==
  ASSUME IInv, NEW path, NEW document \in Documents, Publish(path, document)
  PROVE  FilesKept /\ DocumentsOnly'
BY DEF IInv, Typed, Publish, Published, FilesKept, DocumentsOnly

LEMMA GoKeeps ==
  ASSUME IInv, NEW p \in Process, NEW to, NEW row,
         In(to, proc[p].cmd, row) \in ProcState, Fitting(In(to, proc[p].cmd, row)),
         to \in Holding => LockFree \/ proc[p].at \in Holding,
         Go(p, to, row), UNCHANGED <<rows, answers>>, FilesKept, DocumentsOnly', Quiet
  PROVE  IInv'
<1>1. PICK s : s = In(to, proc[p].cmd, row) OBVIOUS
<1>2. s \in ProcState /\ s.at = to BY <1>1 DEF In
<1>3. proc' = [proc EXCEPT ![p] = s] BY <1>1 DEF Go
<1>4. RowsKept /\ RowsRight' /\ EveryReviewReopens' BY RowsSame
<1>5. Fitting(s)' BY <1>1, <1>4, FittingStays
<1>6. answers' \subseteq answers \union {} /\ AllRight({})' BY DEF AllRight
<1>7. calls' \in 0..MaxCalls /\ stops' \in 0..MaxStops BY DEF Quiet, IInv, Typed
<1>8. rows' = rows /\ (s.at \in Holding => LockFree \/ proc[p].at \in Holding) BY <1>2
<1> QED BY <1>2, <1>3, <1>4, <1>5, <1>6, <1>7, <1>8, StepKeeps

LEMMA AnswerKeeps ==
  ASSUME IInv, NEW p \in Process, NEW is, NEW row, proc[p].cmd \in Commands,
         Right([cmd |-> proc[p].cmd, is |-> is, view |-> row]),
         Tell(p, is, row), UNCHANGED rows, FilesKept, DocumentsOnly', Quiet
  PROVE  IInv'
<1>1. PICK a : a = [cmd |-> proc[p].cmd, is |-> is, view |-> row] OBVIOUS
<1>2. a.cmd \in Commands /\ Right(a) BY <1>1
<1>3. proc' = [proc EXCEPT ![p] = Idle] /\ answers' \subseteq answers \union {a}
  BY <1>1 DEF Tell
<1>4. RowsKept /\ RowsRight' /\ EveryReviewReopens' BY RowsSame
<1>5. AllRight({a})' BY <1>2, <1>4, RightStays DEF AllRight
<1>6. calls' \in 0..MaxCalls /\ stops' \in 0..MaxStops BY DEF Quiet, IInv, Typed
<1>7. rows' = rows OBVIOUS
<1> QED BY <1>3, <1>4, <1>5, <1>6, <1>7, IdleFits, StepKeeps

\* A refusal that says nothing about other commands.
LEMMA RefuseKeeps ==
  ASSUME IInv, NEW p \in Process, proc[p].cmd \in Commands,
         NEW is \in {"invalid_artifact", "conflict", "not_found", "invalid", "unavailable"},
         Refuse(p, is), UNCHANGED rows, FilesKept, DocumentsOnly', Quiet
  PROVE  IInv'
<1>1. Right([cmd |-> proc[p].cmd, is |-> is, view |-> NoRow]) BY DEF Right, Succeeded
<1> QED BY <1>1, AnswerKeeps DEF Refuse

LEMMA ReplayCreateKeeps ==
  ASSUME IInv, NEW p \in Process, proc[p].at \in Creating,
         NEW row \in ByCreateKey(proc[p].cmd.key), ReplayCreate(p, row), ReadOnly
  PROVE  IInv'
<1>1. proc[p].cmd \in Creates /\ IsCreate(proc[p].cmd) /\ proc[p].cmd \in Commands
  BY InCreating, CreatesAre DEF IInv
<1>2. UNCHANGED <<rows, files>> /\ Quiet /\ FilesKept /\ DocumentsOnly'
  BY FilesSame DEF ReadOnly
<1>3. CASE row.analysis # proc[p].cmd.analysis
  <2>1. KeyTaken(proc[p].cmd) BY <1>1, <1>3 DEF KeyTaken
  <2>2. Right([cmd |-> proc[p].cmd, is |-> "key_conflict", view |-> NoRow])
    BY <1>1, <2>1 DEF Right, Succeeded
  <2>3. Tell(p, "key_conflict", NoRow) BY <1>3 DEF ReplayCreate, Refuse
  <2> QED BY <1>1, <1>2, <2>2, <2>3, AnswerKeeps
<1>4. CASE row.analysis = proc[p].cmd.analysis /\ Reopens(row)
  <2>1. Right([cmd |-> proc[p].cmd, is |-> "replayed", view |-> row])
    BY <1>1, <1>4 DEF Right, Succeeded, ByCreateKey
  <2>2. Tell(p, "replayed", row) BY <1>4 DEF ReplayCreate, Replay
  <2> QED BY <1>1, <1>2, <2>1, <2>2, AnswerKeeps
<1>5. CASE row.analysis = proc[p].cmd.analysis /\ ~Reopens(row)
  <2>1. Refuse(p, "invalid_artifact") BY <1>5 DEF ReplayCreate, Replay
  <2> QED BY <1>1, <1>2, <2>1, RefuseKeeps
<1> QED BY <1>3, <1>4, <1>5

LEMMA ReplayDecisionKeeps ==
  ASSUME IInv, NEW p \in Process, proc[p].at \in Deciding,
         NEW row \in ByDecisionKey(proc[p].cmd.key), ReplayDecision(p, row), ReadOnly
  PROVE  IInv'
<1>1. proc[p].cmd \in Decisions /\ ~IsCreate(proc[p].cmd) /\ proc[p].cmd \in Commands
  BY InDeciding, DecisionsAre DEF IInv
<1>2. UNCHANGED <<rows, files>> /\ Quiet /\ FilesKept /\ DocumentsOnly'
  BY FilesSame DEF ReadOnly
<1>3. CASE row.settled.decision # proc[p].cmd.decision
  <2>1. KeyTaken(proc[p].cmd) BY <1>1, <1>3 DEF KeyTaken
  <2>2. Right([cmd |-> proc[p].cmd, is |-> "key_conflict", view |-> NoRow])
    BY <1>1, <2>1 DEF Right, Succeeded
  <2>3. Tell(p, "key_conflict", NoRow) BY <1>3 DEF ReplayDecision, Refuse
  <2> QED BY <1>1, <1>2, <2>2, <2>3, AnswerKeeps
<1>4. CASE row.settled.decision = proc[p].cmd.decision /\ Reopens(row)
  <2>1. row \in rows /\ ~Awaiting(row) /\ row.settled \in Decisions
    BY DEF ByDecisionKey, IInv, RowsRight, Row, Awaiting
  <2>2. row.settled = proc[p].cmd BY <1>1, <1>4, <2>1, DecisionsAgree DEF ByDecisionKey
  <2>3. row.analysis.review = proc[p].cmd.decision.review
    BY <2>1, <2>2 DEF IInv, RowsRight, SettledByItsOwn
  <2>4. Won(proc[p].cmd) BY <2>1, <2>2, <2>3 DEF Won, RowsOf
  <2>5. Right([cmd |-> proc[p].cmd, is |-> "replayed", view |-> row])
    BY <1>1, <2>2, <2>4 DEF Right, Succeeded
  <2>6. Tell(p, "replayed", row) BY <1>4 DEF ReplayDecision, Replay
  <2> QED BY <1>1, <1>2, <2>5, <2>6, AnswerKeeps
<1>5. CASE row.settled.decision = proc[p].cmd.decision /\ ~Reopens(row)
  <2>1. Refuse(p, "invalid_artifact") BY <1>5 DEF ReplayDecision, Replay
  <2> QED BY <1>1, <1>2, <2>1, RefuseKeeps
<1> QED BY <1>3, <1>4, <1>5

\* A review that is settled: by this very key, or by another one.
LEMMA SettledKeeps ==
  ASSUME IInv, NEW p \in Process, proc[p].at \in Deciding, Settled(proc[p].cmd),
         Refuse(p, "settled"), ReadOnly
  PROVE  IInv'
<1>1. proc[p].cmd \in Decisions /\ ~IsCreate(proc[p].cmd) /\ proc[p].cmd \in Commands
  BY InDeciding, DecisionsAre DEF IInv
<1>2. UNCHANGED <<rows, files>> /\ Quiet /\ FilesKept /\ DocumentsOnly'
  BY FilesSame DEF ReadOnly
<1>3. Right([cmd |-> proc[p].cmd, is |-> "settled", view |-> NoRow])
  BY <1>1 DEF Right, Succeeded
<1> QED BY <1>1, <1>2, <1>3, AnswerKeeps DEF Refuse

LEMMA ClassifyKeeps ==
  ASSUME IInv, NEW p \in Process, proc[p].at \in Deciding,
         NEW row \in RowsOf(proc[p].cmd.decision.review), ~Awaiting(row),
         Classify(p, row), ReadOnly
  PROVE  IInv'
<1>1. CASE row.settled.key # proc[p].cmd.key
  <2>1. Settled(proc[p].cmd) BY <1>1 DEF Settled
  <2> QED BY <1>1, <2>1, SettledKeeps DEF Classify
<1>2. CASE row.settled.key = proc[p].cmd.key
  <2>1. row \in ByDecisionKey(proc[p].cmd.key) BY <1>2 DEF ByDecisionKey, RowsOf
  <2> QED BY <1>2, <2>1, ReplayDecisionKeeps DEF Classify
<1> QED BY <1>1, <1>2

----------------------------------------------------------------------------
(* Creating a review, step by step.                                        *)

LEMMA CallKeeps ==
  ASSUME IInv, NEW p \in Process, NEW c \in Commands, Call(p, c) PROVE IInv'
<1>1. PICK s : s = In(IF IsCreate(c) THEN "create" ELSE "decide", c, NoRow) OBVIOUS
<1>2. s \in ProcState
  <2>1. CASE c \in Creates
    <3>1. IsCreate(c) /\ "create" \in Creating BY <2>1, CreatesAre DEF Creating
    <3> QED BY <1>1, <2>1, <3>1, ToCreating
  <2>2. CASE c \in Decisions
    <3>1. ~IsCreate(c) /\ "decide" \in Deciding BY <2>2, DecisionsAre DEF Deciding
    <3> QED BY <1>1, <2>2, <3>1, ToDeciding
  <2> QED BY <2>1, <2>2 DEF Commands
<1>3. s.at \in {"create", "decide"} BY <1>1 DEF In
<1>4. Fitting(s)' /\ s.at \notin Holding
  BY <1>3 DEF Fitting, OpenCreate, OpenDecision, Found, Holding
<1>5. proc' = [proc EXCEPT ![p] = s] BY <1>1 DEF Call
<1>6. UNCHANGED <<rows, files, answers, stops>> /\ calls' \in 0..MaxCalls /\ stops' \in 0..MaxStops
  BY ReviewAssumption DEF Call, IInv, Typed
<1>7. FilesKept /\ DocumentsOnly' BY <1>6, FilesSame
<1>8. RowsKept /\ RowsRight' /\ EveryReviewReopens' BY <1>6, <1>7, RowsSame
<1>9. answers' \subseteq answers \union {} /\ AllRight({})' BY <1>6 DEF AllRight
<1>10. rows' = rows BY <1>6
<1> QED BY <1>2, <1>4, <1>5, <1>6, <1>7, <1>8, <1>9, <1>10, StepKeeps

LEMMA StopKeeps ==
  ASSUME IInv, NEW p \in Process, Stop(p) PROVE IInv'
<1>1. UNCHANGED <<rows, files, answers, calls>> /\ calls' \in 0..MaxCalls /\ stops' \in 0..MaxStops
  BY ReviewAssumption DEF Stop, IInv, Typed
<1>2. FilesKept /\ DocumentsOnly' BY <1>1, FilesSame
<1>3. RowsKept /\ RowsRight' /\ EveryReviewReopens' BY <1>1, <1>2, RowsSame
<1>4. answers' \subseteq answers \union {} /\ AllRight({})' BY <1>1 DEF AllRight
<1>5. proc' = [proc EXCEPT ![p] = Idle] /\ rows' = rows BY <1>1 DEF Stop
<1> QED BY <1>1, <1>2, <1>3, <1>4, <1>5, IdleFits, StepKeeps

\* A state of a call that has no open transaction, and no review found.
LEMMA PlainFits ==
  ASSUME NEW to \in {"insert", "collided"}, NEW c, NEW row
  PROVE  Fitting(In(to, c, row)) /\ to \notin Holding /\ to \in Creating
BY DEF Fitting, OpenCreate, OpenDecision, Found, In, Holding, Creating

LEMMA CreateKeeps ==
  ASSUME IInv, NEW p \in Process, Create(p) PROVE IInv'
<1>1. proc[p].at \in Creating /\ ReadOnly BY DEF Create, At, Creating
<1>2. proc[p].cmd \in Creates BY <1>1, InCreating DEF IInv
<1>3. CASE ByCreateKey(proc[p].cmd.key) = {}
  <2>1. Go(p, "insert", NoRow) /\ UNCHANGED answers BY <1>3 DEF Create
  <2>2. In("insert", proc[p].cmd, NoRow) \in ProcState BY <1>2, PlainFits, ToCreating
  <2>3. Fitting(In("insert", proc[p].cmd, NoRow)) /\ "insert" \notin Holding BY PlainFits
  <2>4. UNCHANGED <<rows, files, answers>> /\ Quiet BY <1>1, <2>1 DEF ReadOnly
  <2>5. FilesKept /\ DocumentsOnly' BY <2>4, FilesSame
  <2> QED BY <2>1, <2>2, <2>3, <2>4, <2>5, GoKeeps
<1>4. CASE ByCreateKey(proc[p].cmd.key) # {}
  <2>1. PICK row \in ByCreateKey(proc[p].cmd.key) : ReplayCreate(p, row) BY <1>4 DEF Create
  <2> QED BY <1>1, <2>1, ReplayCreateKeeps
<1> QED BY <1>3, <1>4

LEMMA NewRowIsRow ==
  ASSUME NEW c \in Creates PROVE NewRow(c) \in Row /\ Awaiting(NewRow(c))
<1>1. c.analysis \in Analyses /\ c.key \in {d.key : d \in Creates} BY DEF Analyses
<1> QED BY <1>1 DEF NewRow, Row, Awaiting

LEMMA InsertKeeps ==
  ASSUME IInv, NEW p \in Process, Insert(p) PROVE IInv'
<1>1. proc[p].at \in Creating /\ LockFree BY DEF Insert, At, Creating
<1>2. proc[p].cmd \in Creates BY <1>1, InCreating DEF IInv
<1>3. UNCHANGED <<rows, files, answers>> /\ Quiet BY DEF Insert, ReadOnly
<1>4. FilesKept /\ DocumentsOnly' BY <1>3, FilesSame
<1>5. CASE CreateCollides(proc[p].cmd)
  <2>1. Go(p, "collided", NoRow) BY <1>5 DEF Insert
  <2>2. In("collided", proc[p].cmd, NoRow) \in ProcState BY <1>2, PlainFits, ToCreating
  <2>3. Fitting(In("collided", proc[p].cmd, NoRow)) /\ "collided" \notin Holding BY PlainFits
  <2> QED BY <1>3, <1>4, <2>1, <2>2, <2>3, GoKeeps
<1>6. CASE ~CreateCollides(proc[p].cmd)
  <2>1. PICK row : row = NewRow(proc[p].cmd) OBVIOUS
  <2>2. Go(p, "source", row) BY <1>6, <2>1 DEF Insert
  <2>3. "source" \in Creating BY DEF Creating
  <2>4. In("source", proc[p].cmd, row) \in ProcState BY <1>2, <2>1, <2>3, NewRowIsRow, ToCreating
  <2>5. Fitting(In("source", proc[p].cmd, row))
    BY <1>6, <2>1 DEF Fitting, OpenCreate, OpenDecision, Found, In
  <2> QED BY <1>1, <1>3, <1>4, <2>2, <2>4, <2>5, GoKeeps
<1> QED BY <1>5, <1>6

LEMMA CollidedKeeps ==
  ASSUME IInv, NEW p \in Process, Collided(p) PROVE IInv'
<1>1. proc[p].at \in Creating /\ ReadOnly BY DEF Collided, At, Creating
<1>2. proc[p].cmd \in Commands BY <1>1, InCreating, CreatesAre DEF IInv
<1>3. CASE ByCreateKey(proc[p].cmd.key) = {}
  <2>1. Refuse(p, "conflict") BY <1>3 DEF Collided
  <2>2. UNCHANGED <<rows, files>> /\ Quiet BY <1>1 DEF ReadOnly
  <2>3. FilesKept /\ DocumentsOnly' BY <2>2, FilesSame
  <2> QED BY <1>2, <2>1, <2>2, <2>3, RefuseKeeps
<1>4. CASE ByCreateKey(proc[p].cmd.key) # {}
  <2>1. PICK row \in ByCreateKey(proc[p].cmd.key) : ReplayCreate(p, row) BY <1>4 DEF Collided
  <2> QED BY <1>1, <2>1, ReplayCreateKeeps
<1> QED BY <1>3, <1>4

\* What a transaction that creates a review holds.
LEMMA OpenCreateHolds ==
  ASSUME IInv, NEW p \in Process, proc[p].at \in {"source", "analysis", "seal"}
  PROVE  /\ proc[p].cmd \in Creates /\ IsCreate(proc[p].cmd) /\ proc[p].cmd \in Commands
         /\ proc[p].row = NewRow(proc[p].cmd) /\ proc[p].row \in Row
         /\ proc[p].row.analysis = proc[p].cmd.analysis
         /\ ~CreateCollides(proc[p].cmd) /\ proc[p].at \in Holding
<1>1. proc[p].at \in Creating /\ proc[p].at \in Holding BY DEF Creating, Holding
<1>2. proc[p].cmd \in Creates /\ IsCreate(proc[p].cmd) /\ proc[p].cmd \in Commands
  BY <1>1, InCreating, CreatesAre DEF IInv
<1>3. Fitting(proc[p]) BY DEF IInv, AllFit
<1>4. proc[p].row = NewRow(proc[p].cmd) /\ ~CreateCollides(proc[p].cmd)
  BY <1>3 DEF Fitting, OpenCreate
<1>5. proc[p].row.analysis = proc[p].cmd.analysis BY <1>4 DEF NewRow
<1> QED BY <1>1, <1>2, <1>4, <1>5, NewRowIsRow

\* It goes on to its next document.
LEMMA CreateGoesOn ==
  ASSUME IInv, NEW p \in Process, proc[p].at \in {"source", "analysis"},
         NEW to \in {"analysis", "seal"}, Go(p, to, proc[p].row),
         UNCHANGED <<rows, answers>>, FilesKept, DocumentsOnly', Quiet
  PROVE  IInv'
<1>1. PICK row : row = proc[p].row OBVIOUS
<1>2. proc[p].cmd \in Creates /\ row \in Row /\ proc[p].at \in Holding
  BY <1>1, OpenCreateHolds
<1>3. to \in Creating BY DEF Creating
<1>4. In(to, proc[p].cmd, row) \in ProcState BY <1>2, <1>3, ToCreating
<1>5. Fitting(In(to, proc[p].cmd, row))
  BY <1>1, OpenCreateHolds DEF Fitting, OpenCreate, OpenDecision, Found, In
<1>6. Go(p, to, row) BY <1>1
<1> QED BY <1>2, <1>4, <1>5, <1>6, GoKeeps

\* It finds another document in the place of one of its own.
LEMMA CreateFindsAnother ==
  ASSUME IInv, NEW p \in Process, proc[p].at \in {"source", "analysis"},
         \/ Another(SourcePath(proc[p].row.analysis.source), proc[p].row.analysis.source)
         \/ Another(AnalysisPath(proc[p].row.analysis.review), proc[p].row.analysis),
         Refuse(p, "artifact_conflict"), UNCHANGED rows, FilesKept, DocumentsOnly', Quiet
  PROVE  IInv'
<1>1. IsCreate(proc[p].cmd) /\ proc[p].cmd \in Commands /\ proc[p].row.analysis = proc[p].cmd.analysis
  BY OpenCreateHolds
<1>2. PlaceLost(proc[p].cmd) BY <1>1 DEF PlaceLost
<1>3. Right([cmd |-> proc[p].cmd, is |-> "artifact_conflict", view |-> NoRow])
  BY <1>1, <1>2 DEF Right, Succeeded
<1> QED BY <1>1, <1>3, AnswerKeeps DEF Refuse

LEMMA PublishSourceKeeps ==
  ASSUME IInv, NEW p \in Process, PublishSource(p) PROVE IInv'
<1>1. PICK s : s = proc[p].row.analysis.source OBVIOUS
<1>2. proc[p].at \in {"source", "analysis"} /\ UNCHANGED rows /\ Quiet BY DEF PublishSource, At
<1>3. proc[p].row \in Row BY <1>2, OpenCreateHolds
<1>4. s \in Documents BY <1>1, <1>3 DEF Row, Sources, Documents
<1>5. FilesKept /\ DocumentsOnly' BY <1>1, <1>4, PublishKeeps DEF PublishSource
<1>6. CASE Published(SourcePath(s)) /\ ~Holds(SourcePath(s), s)
  <2>1. Refuse(p, "artifact_conflict") BY <1>1, <1>6 DEF PublishSource
  <2>2. Another(SourcePath(proc[p].row.analysis.source), proc[p].row.analysis.source)
    BY <1>1, <1>6 DEF Another, Holds
  <2> QED BY <1>2, <1>5, <2>1, <2>2, CreateFindsAnother
<1>7. CASE ~(Published(SourcePath(s)) /\ ~Holds(SourcePath(s), s))
  <2>1. Go(p, "analysis", proc[p].row) /\ UNCHANGED answers BY <1>1, <1>7 DEF PublishSource
  <2> QED BY <1>2, <1>5, <2>1, CreateGoesOn
<1> QED BY <1>6, <1>7

LEMMA PublishAnalysisKeeps ==
  ASSUME IInv, NEW p \in Process, PublishAnalysis(p) PROVE IInv'
<1>1. PICK a : a = proc[p].row.analysis OBVIOUS
<1>2. PICK there : there = AnalysisPath(a.review) OBVIOUS
<1>3. proc[p].at \in {"source", "analysis"} /\ UNCHANGED rows /\ Quiet BY DEF PublishAnalysis, At
<1>4. proc[p].row \in Row /\ proc[p].cmd \in Commands BY <1>3, OpenCreateHolds
<1>5. a \in Documents BY <1>1, <1>4 DEF Row, Documents
<1>6. FilesKept /\ DocumentsOnly' BY <1>1, <1>2, <1>5, PublishKeeps DEF PublishAnalysis
<1>7. CASE Published(there) /\ files[there].source # a.source
  <2>1. Refuse(p, "invalid_artifact") BY <1>1, <1>2, <1>7 DEF PublishAnalysis
  <2> QED BY <1>3, <1>4, <1>6, <2>1, RefuseKeeps
<1>8. CASE ~(Published(there) /\ files[there].source # a.source) /\ Published(there) /\ files[there] # a
  <2>1. Refuse(p, "artifact_conflict") BY <1>1, <1>2, <1>8 DEF PublishAnalysis
  <2>2. Another(AnalysisPath(proc[p].row.analysis.review), proc[p].row.analysis)
    BY <1>1, <1>2, <1>8 DEF Another
  <2> QED BY <1>3, <1>6, <2>1, <2>2, CreateFindsAnother
<1>9. CASE ~(Published(there) /\ files[there].source # a.source) /\ ~(Published(there) /\ files[there] # a)
  <2>1. Go(p, "seal", proc[p].row) /\ UNCHANGED answers BY <1>1, <1>2, <1>9 DEF PublishAnalysis
  <2> QED BY <1>3, <1>6, <2>1, CreateGoesOn
<1> QED BY <1>7, <1>8, <1>9

----------------------------------------------------------------------------
(* The commit of a row, which ends the transaction that holds the lock.    *)

LEMMA CommitKeeps ==
  ASSUME IInv, NEW p \in Process, proc[p].at \in Holding,
         NEW c \in Commands, c = proc[p].cmd, NEW row, Reopens(row), RowsKept, RowsRight',
         \A x \in rows' : x \in rows \/ x = row,
         Tell(p, "created", row), Right([cmd |-> c, is |-> "created", view |-> row])',
         UNCHANGED files, Quiet
  PROVE  IInv'
<1>1. PICK a : a = [cmd |-> c, is |-> "created", view |-> row] OBVIOUS
<1>2. answers' \subseteq answers \union {a} /\ proc' = [proc EXCEPT ![p] = Idle]
  BY <1>1 DEF Tell
<1>3. AllRight({a})'
  <2>1. a.cmd \in Commands /\ Right(a)' BY <1>1
  <2> QED BY <2>1 DEF AllRight
<1>4. FilesKept /\ DocumentsOnly' BY FilesSame
<1>5. EveryReviewReopens'
  <2> SUFFICES ASSUME NEW x \in rows' PROVE Reopens(x)' BY DEF EveryReviewReopens
  <2>1. Reopens(x) BY DEF IInv, EveryReviewReopens
  <2> QED BY <1>4, <2>1, ReopensStays
<1>6. calls' \in 0..MaxCalls /\ stops' \in 0..MaxStops BY DEF Quiet, IInv, Typed
<1> QED BY <1>2, <1>3, <1>4, <1>5, <1>6, IdleFits, StepKeeps

LEMMA SealKeeps ==
  ASSUME IInv, NEW p \in Process, Seal(p) PROVE IInv'
<1>1. PICK row : row = proc[p].row OBVIOUS
<1>2. PICK c : c = proc[p].cmd OBVIOUS
<1>3. proc[p].at \in {"source", "analysis", "seal"} /\ UNCHANGED files /\ Quiet BY DEF Seal, At
<1>4. /\ c \in Creates /\ IsCreate(c) /\ c \in Commands /\ row = NewRow(c) /\ row \in Row
      /\ ~CreateCollides(c) /\ proc[p].at \in Holding /\ Awaiting(row)
  BY <1>1, <1>2, <1>3, OpenCreateHolds, NewRowIsRow
<1>5. FilesKept /\ DocumentsOnly' BY <1>3, FilesSame
<1>6. CASE ~Reopens(proc[p].row)
  <2>1. Refuse(p, "invalid_artifact") /\ UNCHANGED rows BY <1>6 DEF Seal
  <2> QED BY <1>2, <1>3, <1>4, <1>5, <2>1, RefuseKeeps
<1>7. CASE Reopens(proc[p].row)
  <2>1. rows' = rows \union {row} /\ Tell(p, "created", row) BY <1>1, <1>7 DEF Seal
  <2>2. RowsKept BY <2>1 DEF RowsKept
  <2>3. row.analysis = c.analysis /\ row.key = c.key BY <1>4 DEF NewRow
  <2>4. \A x \in rows : x.analysis.review # row.analysis.review /\ x.key # row.key
    BY <1>4, <2>3 DEF CreateCollides, RowsOf, ByCreateKey
  <2>5. RowsRight'
    <3>1. (rows \subseteq Row)' BY <1>4, <2>1 DEF IInv, RowsRight
    <3>2. RowsApart' BY <2>1, <2>4 DEF IInv, RowsRight, RowsApart
    <3>3. SettledApart' BY <1>4, <2>1 DEF IInv, RowsRight, SettledApart
    <3>4. SettledByItsOwn' BY <1>4, <2>1 DEF IInv, RowsRight, SettledByItsOwn
    <3> QED BY <3>1, <3>2, <3>3, <3>4 DEF RowsRight
  <2>6. Right([cmd |-> c, is |-> "created", view |-> row])'
    BY <1>4, <2>3 DEF Right, Succeeded
  <2> QED BY <1>1, <1>2, <1>3, <1>4, <1>7, <2>1, <2>2, <2>5, <2>6, CommitKeeps
<1> QED BY <1>6, <1>7

----------------------------------------------------------------------------
(* Deciding on a review, step by step.                                     *)

DecidedSteps == {"check", "settle", "missed", "decision_collided"}

LEMMA InDecision ==
  ASSUME IInv, NEW p \in Process, proc[p].at \in Deciding
  PROVE  proc[p].cmd \in Decisions /\ ~IsCreate(proc[p].cmd) /\ proc[p].cmd \in Commands
BY InDeciding, DecisionsAre DEF IInv

LEMMA ReviewFound ==
  ASSUME IInv, NEW p \in Process, proc[p].at \in DecidedSteps
  PROVE  RowsOf(proc[p].cmd.decision.review) # {}
BY DEF IInv, AllFit, Fitting, Found, DecidedSteps

\* A decision goes on, on a review that is there.
LEMMA DecisionGoesOn ==
  ASSUME IInv, NEW p \in Process, proc[p].at \in Deciding, NEW to \in DecidedSteps,
         NEW row \in Row \union {NoRow}, RowsOf(proc[p].cmd.decision.review) # {},
         Go(p, to, row), UNCHANGED answers, ReadOnly
  PROVE  IInv'
<1>1. to \in Deciding /\ to \notin Holding BY DEF DecidedSteps, Deciding, Holding
<1>2. In(to, proc[p].cmd, row) \in ProcState BY <1>1, InDecision, ToDeciding
<1>3. Fitting(In(to, proc[p].cmd, row))
  BY DEF Fitting, OpenCreate, OpenDecision, Found, In, DecidedSteps
<1>4. UNCHANGED <<rows, answers>> /\ UNCHANGED files /\ Quiet BY DEF ReadOnly
<1>5. FilesKept /\ DocumentsOnly' BY <1>4, FilesSame
<1> QED BY <1>1, <1>2, <1>3, <1>4, <1>5, GoKeeps

LEMMA DecisionRefused ==
  ASSUME IInv, NEW p \in Process, proc[p].at \in Deciding, ReadOnly,
         NEW is \in {"invalid_artifact", "conflict", "not_found", "invalid", "unavailable"},
         Refuse(p, is)
  PROVE  IInv'
<1>1. UNCHANGED rows /\ UNCHANGED files /\ Quiet BY DEF ReadOnly
<1>2. FilesKept /\ DocumentsOnly' BY <1>1, FilesSame
<1> QED BY <1>1, <1>2, InDecision, RefuseKeeps

LEMMA DecideKeeps ==
  ASSUME IInv, NEW p \in Process, Decide(p) PROVE IInv'
<1>1. proc[p].at \in Deciding /\ ReadOnly BY DEF Decide, At, Deciding
<1>2. PICK d : d = proc[p].cmd.decision OBVIOUS
<1>3. CASE RowsOf(d.review) = {}
  <2>1. Refuse(p, "not_found") BY <1>2, <1>3 DEF Decide
  <2> QED BY <1>1, <2>1, DecisionRefused
<1>4. CASE RowsOf(d.review) # {}
  <2>1. PICK row \in RowsOf(d.review) :
          IF ~Reopens(row) THEN Refuse(p, "invalid_artifact")
          ELSE IF d.at < row.analysis.at THEN Refuse(p, "invalid")
          ELSE Go(p, "check", row) /\ UNCHANGED answers
    BY <1>2, <1>4 DEF Decide
  <2>2. row \in Row BY DEF IInv, RowsRight, RowsOf
  <2>3. CASE Refuse(p, "invalid_artifact") BY <1>1, <2>3, DecisionRefused
  <2>4. CASE Refuse(p, "invalid") BY <1>1, <2>4, DecisionRefused
  <2>5. CASE Go(p, "check", row) /\ UNCHANGED answers
    <3>1. "check" \in DecidedSteps BY DEF DecidedSteps
    <3> QED BY <1>1, <1>2, <1>4, <2>2, <2>5, <3>1, DecisionGoesOn
  <2> QED BY <2>1, <2>3, <2>4, <2>5
<1> QED BY <1>3, <1>4

LEMMA CheckKeeps ==
  ASSUME IInv, NEW p \in Process, Check(p) PROVE IInv'
<1>1. proc[p].at \in Deciding /\ proc[p].at \in DecidedSteps /\ ReadOnly
  BY DEF Check, At, Deciding, DecidedSteps
<1>2. CASE ByDecisionKey(proc[p].cmd.key) # {}
  <2>1. PICK row \in ByDecisionKey(proc[p].cmd.key) : ReplayDecision(p, row) BY <1>2 DEF Check
  <2> QED BY <1>1, <2>1, ReplayDecisionKeeps
<1>3. CASE ByDecisionKey(proc[p].cmd.key) = {}
  <2>1. PICK row \in RowsOf(proc[p].cmd.decision.review) :
          IF Awaiting(row) THEN Go(p, "settle", row) /\ UNCHANGED answers ELSE Classify(p, row)
    BY <1>3 DEF Check
  <2>2. CASE Awaiting(row)
    <3>1. row \in Row BY DEF IInv, RowsRight, RowsOf
    <3>2. "settle" \in DecidedSteps BY DEF DecidedSteps
    <3>3. RowsOf(proc[p].cmd.decision.review) # {} BY <1>1, ReviewFound
    <3> QED BY <1>1, <2>1, <2>2, <3>1, <3>2, <3>3, DecisionGoesOn
  <2>3. CASE ~Awaiting(row) BY <1>1, <2>1, <2>3, ClassifyKeeps
  <2> QED BY <2>2, <2>3
<1> QED BY <1>2, <1>3

LEMMA SettledRowIsRow ==
  ASSUME NEW old \in Row, NEW c \in Decisions
  PROVE  /\ SettledRow(old, c) \in Row /\ SettledRow(old, c).analysis = old.analysis
         /\ SettledRow(old, c).key = old.key /\ SettledRow(old, c).settled = c
BY DEF SettledRow, Row

LEMMA SettleKeeps ==
  ASSUME IInv, NEW p \in Process, Settle(p) PROVE IInv'
<1>1. proc[p].at \in Deciding /\ proc[p].at \in DecidedSteps /\ LockFree /\ ReadOnly
  BY DEF Settle, At, Deciding, DecidedSteps
<1>2. UNCHANGED answers BY DEF Settle
<1>3. PICK c : c = proc[p].cmd OBVIOUS
<1>4. RowsOf(c.decision.review) # {} /\ c \in Decisions BY <1>1, <1>3, ReviewFound, InDecision
<1>5. CASE Unsettled(c.decision.review) = {}
  <2>1. Go(p, "missed", NoRow) BY <1>3, <1>5 DEF Settle
  <2>2. "missed" \in DecidedSteps /\ NoRow \in Row \union {NoRow} BY DEF DecidedSteps
  <2> QED BY <1>1, <1>2, <1>3, <1>4, <2>1, <2>2, DecisionGoesOn
<1>6. CASE Unsettled(c.decision.review) # {} /\ DecisionCollides(c)
  <2>1. Go(p, "decision_collided", NoRow) BY <1>3, <1>6 DEF Settle
  <2>2. "decision_collided" \in DecidedSteps /\ NoRow \in Row \union {NoRow} BY DEF DecidedSteps
  <2> QED BY <1>1, <1>2, <1>3, <1>4, <2>1, <2>2, DecisionGoesOn
<1>7. CASE Unsettled(c.decision.review) # {} /\ ~DecisionCollides(c)
  <2>1. PICK old \in Unsettled(c.decision.review) : Go(p, "decision", SettledRow(old, c))
    BY <1>3, <1>7 DEF Settle
  <2>2. PICK row : row = SettledRow(old, c) OBVIOUS
  <2>3. old \in Row BY DEF IInv, RowsRight, Unsettled, RowsOf
  <2>4. row \in Row /\ "decision" \in Deciding BY <1>4, <2>2, <2>3, SettledRowIsRow DEF Deciding
  <2>5. In("decision", proc[p].cmd, row) \in ProcState BY <1>3, <1>4, <2>4, ToDeciding
  <2>6. Fitting(In("decision", proc[p].cmd, row))
    BY <1>3, <1>7, <2>1, <2>2 DEF Fitting, OpenCreate, OpenDecision, Found, In
  <2>7. UNCHANGED <<rows, answers>> /\ UNCHANGED files /\ Quiet BY <1>1, <1>2 DEF ReadOnly
  <2>8. FilesKept /\ DocumentsOnly' BY <2>7, FilesSame
  <2>9. Go(p, "decision", row) BY <2>1, <2>2
  <2> QED BY <1>1, <2>5, <2>6, <2>7, <2>8, <2>9, GoKeeps
<1> QED BY <1>5, <1>6, <1>7

LEMMA MissedKeeps ==
  ASSUME IInv, NEW p \in Process, Missed(p) PROVE IInv'
<1>1. proc[p].at \in Deciding /\ ReadOnly BY DEF Missed, At, Deciding
<1>2. PICK row \in RowsOf(proc[p].cmd.decision.review) :
        IF Awaiting(row) THEN Refuse(p, "conflict") ELSE Classify(p, row)
  BY DEF Missed
<1>3. CASE Awaiting(row) BY <1>1, <1>2, <1>3, DecisionRefused
<1>4. CASE ~Awaiting(row) BY <1>1, <1>2, <1>4, ClassifyKeeps
<1> QED BY <1>3, <1>4

LEMMA DecisionCollidedKeeps ==
  ASSUME IInv, NEW p \in Process, DecisionCollided(p) PROVE IInv'
<1>1. proc[p].at \in Deciding /\ proc[p].at \in DecidedSteps /\ ReadOnly
  BY DEF DecisionCollided, At, Deciding, DecidedSteps
<1>2. PICK c : c = proc[p].cmd OBVIOUS
<1>3. CASE ByDecisionKey(c.key) # {}
  <2>1. PICK row \in ByDecisionKey(proc[p].cmd.key) : ReplayDecision(p, row)
    BY <1>2, <1>3 DEF DecisionCollided
  <2> QED BY <1>1, <2>1, ReplayDecisionKeeps
<1>4. CASE ByDecisionKey(c.key) = {} /\ Unsettled(c.decision.review) = {}
  <2>1. PICK row \in RowsOf(c.decision.review) : ~Awaiting(row)
    BY <1>1, <1>2, <1>4, ReviewFound DEF Unsettled
  <2>2. row \in rows /\ row.settled.key # c.key BY <1>4, <2>1 DEF ByDecisionKey, RowsOf
  <2>3. Settled(c) BY <2>1, <2>2 DEF Settled
  <2>4. Refuse(p, "settled") BY <1>2, <1>4 DEF DecisionCollided
  <2> QED BY <1>1, <1>2, <2>3, <2>4, SettledKeeps
<1>5. CASE ByDecisionKey(c.key) = {} /\ Unsettled(c.decision.review) # {}
  <2>1. Refuse(p, "conflict") BY <1>2, <1>5 DEF DecisionCollided
  <2> QED BY <1>1, <2>1, DecisionRefused
<1> QED BY <1>3, <1>4, <1>5

LEMMA OpenDecisionHolds ==
  ASSUME IInv, NEW p \in Process, proc[p].at \in {"decision", "confirm"}
  PROVE  /\ proc[p].at \in Deciding /\ proc[p].at \in Holding
         /\ ~DecisionCollides(proc[p].cmd)
         /\ \E old \in Unsettled(proc[p].cmd.decision.review) :
              proc[p].row = SettledRow(old, proc[p].cmd)
<1>1. Fitting(proc[p]) BY DEF IInv, AllFit
<1> QED BY <1>1 DEF Fitting, OpenDecision, Deciding, Holding

LEMMA PublishDecisionKeeps ==
  ASSUME IInv, NEW p \in Process, PublishDecision(p) PROVE IInv'
<1>1. PICK c : c = proc[p].cmd OBVIOUS
<1>2. PICK row : row = proc[p].row OBVIOUS
<1>3. proc[p].at \in {"decision", "confirm"} /\ UNCHANGED rows /\ Quiet BY DEF PublishDecision, At
<1>4. proc[p].at \in Deciding /\ proc[p].at \in Holding /\ ~DecisionCollides(c)
  BY <1>1, <1>3, OpenDecisionHolds
<1>5. PICK old \in Unsettled(c.decision.review) : row = SettledRow(old, c)
  BY <1>1, <1>2, <1>3, OpenDecisionHolds
<1>6. c \in Decisions /\ ~IsCreate(c) /\ c \in Commands BY <1>1, <1>4, InDecision
<1>7. c.decision \in Documents BY <1>6 DEF Outcomes, Documents
<1>8. FilesKept /\ DocumentsOnly' BY <1>1, <1>7, PublishKeeps DEF PublishDecision
<1>9. CASE Another(DecisionPath(c.decision.review), c.decision)
  <2>1. PlaceLost(c) BY <1>6, <1>9 DEF PlaceLost
  <2>2. Right([cmd |-> c, is |-> "artifact_conflict", view |-> NoRow])
    BY <1>6, <2>1 DEF Right, Succeeded
  <2>3. Tell(p, "artifact_conflict", NoRow)
    BY <1>1, <1>9 DEF PublishDecision, Another, Holds, Refuse
  <2> QED BY <1>1, <1>3, <1>6, <1>8, <2>2, <2>3, AnswerKeeps
<1>10. CASE ~Another(DecisionPath(c.decision.review), c.decision)
  <2>1. Go(p, "confirm", row) /\ UNCHANGED answers
    BY <1>1, <1>2, <1>10 DEF PublishDecision, Another, Holds
  <2>2. old \in Row BY DEF IInv, RowsRight, Unsettled, RowsOf
  <2>3. row \in Row /\ "confirm" \in Deciding BY <1>5, <1>6, <2>2, SettledRowIsRow DEF Deciding
  <2>4. In("confirm", proc[p].cmd, row) \in ProcState BY <1>1, <1>6, <2>3, ToDeciding
  <2>5. Fitting(In("confirm", proc[p].cmd, row))
    BY <1>1, <1>4, <1>5 DEF Fitting, OpenCreate, OpenDecision, Found, In
  <2>6. UNCHANGED <<rows, answers>> BY <1>3, <2>1
  <2> QED BY <1>3, <1>4, <1>8, <2>1, <2>4, <2>5, <2>6, GoKeeps
<1> QED BY <1>9, <1>10

LEMMA ConfirmKeeps ==
  ASSUME IInv, NEW p \in Process, Confirm(p) PROVE IInv'
<1>1. PICK c : c = proc[p].cmd OBVIOUS
<1>2. PICK row : row = proc[p].row OBVIOUS
<1>3. proc[p].at \in {"decision", "confirm"} /\ UNCHANGED files /\ Quiet BY DEF Confirm, At
<1>4. proc[p].at \in Deciding /\ proc[p].at \in Holding /\ ~DecisionCollides(c)
  BY <1>1, <1>3, OpenDecisionHolds
<1>5. PICK old \in Unsettled(c.decision.review) : row = SettledRow(old, c)
  BY <1>1, <1>2, <1>3, OpenDecisionHolds
<1>6. c \in Decisions /\ ~IsCreate(c) /\ c \in Commands BY <1>1, <1>4, InDecision
<1>7. FilesKept /\ DocumentsOnly' BY <1>3, FilesSame
<1>8. CASE ~Reopens(proc[p].row)
  <2>1. Refuse(p, "invalid_artifact") /\ UNCHANGED rows BY <1>8 DEF Confirm
  <2> QED BY <1>1, <1>3, <1>6, <1>7, <2>1, RefuseKeeps
<1>9. CASE Reopens(proc[p].row)
  <2>1. /\ rows' = (rows \ RowsOf(row.analysis.review)) \union {row}
        /\ Tell(p, "created", row)
    BY <1>2, <1>9 DEF Confirm
  <2>2. old \in rows /\ old \in Row /\ old.analysis.review = c.decision.review /\ Awaiting(old)
    BY DEF IInv, RowsRight, Unsettled, RowsOf
  <2>3. row \in Row /\ row.analysis = old.analysis /\ row.key = old.key /\ row.settled = c
    BY <1>5, <1>6, <2>2, SettledRowIsRow
  <2>4. RowsOf(row.analysis.review) = {old}
    BY <2>2, <2>3 DEF RowsOf, IInv, RowsRight, RowsApart
  <2>5. rows' = (rows \ {old}) \union {row} BY <2>1, <2>4
  <2>6. ~Awaiting(row) BY <1>6, <2>3, DecisionsAre DEF Awaiting
  <2>7. RowsKept BY <2>2, <2>3, <2>5 DEF RowsKept
  <2>8. RowsRight'
    <3>1. (rows \subseteq Row)' BY <2>3, <2>5 DEF IInv, RowsRight
    <3>2. RowsApart' BY <2>2, <2>3, <2>5 DEF IInv, RowsRight, RowsApart
    <3>3. SettledApart'
      <4>1. \A x \in rows : ~Awaiting(x) => x.settled.key # c.key BY <1>4 DEF DecisionCollides
      <4> QED BY <2>3, <2>5, <4>1 DEF IInv, RowsRight, SettledApart
    <3>4. SettledByItsOwn' BY <2>2, <2>3, <2>5 DEF IInv, RowsRight, SettledByItsOwn
    <3> QED BY <3>1, <3>2, <3>3, <3>4 DEF RowsRight
  <2>9. Won(c)' BY <2>2, <2>3, <2>5 DEF Won, RowsOf
  <2>10. Right([cmd |-> c, is |-> "created", view |-> row])'
    BY <1>6, <2>3, <2>9 DEF Right, Succeeded
  <2>11. \A x \in rows' : x \in rows \/ x = row BY <2>5
  <2> QED BY <1>1, <1>2, <1>3, <1>4, <1>6, <1>9, <2>1, <2>7, <2>8, <2>10, <2>11, CommitKeeps
<1> QED BY <1>8, <1>9

LEMMA BusyKeeps ==
  ASSUME IInv, NEW p \in Process, Busy(p) PROVE IInv'
<1>1. Refuse(p, "unavailable") /\ ReadOnly BY DEF Busy
<1>2. proc[p].at \in Creating \/ proc[p].at \in Deciding BY DEF Busy, At, Creating, Deciding
<1>3. proc[p].cmd \in Commands BY <1>2, InCreating, InDeciding DEF IInv, Commands
<1>4. UNCHANGED <<rows, files>> /\ Quiet BY <1>1 DEF ReadOnly
<1>5. FilesKept /\ DocumentsOnly' BY <1>4, FilesSame
<1> QED BY <1>1, <1>3, <1>4, <1>5, RefuseKeeps

----------------------------------------------------------------------------
(* The theorem.                                                            *)

LEMMA InitIInv == Init => IInv
<1> SUFFICES ASSUME Init PROVE IInv OBVIOUS
<1> USE DEF Init
<1>1. Typed
  <2>1. proc \in [Process -> ProcState] BY IdleFits
  <2>2. 0 \in 0..MaxCalls /\ 0 \in 0..MaxStops BY ReviewAssumption
  <2> QED BY <2>1, <2>2 DEF Typed
<1>2. Exclusive BY DEF Exclusive, Idle, Holding
<1>3. RowsRight BY DEF RowsRight, RowsApart, SettledApart, SettledByItsOwn
<1>4. AllFit BY IdleFits DEF AllFit
<1>5. EveryReviewReopens BY DEF EveryReviewReopens
<1>6. AnswersRight BY DEF AnswersRight
<1> QED BY <1>1, <1>2, <1>3, <1>4, <1>5, <1>6 DEF IInv

LEMMA StutterIInv == IInv /\ UNCHANGED vars => IInv'
<1> SUFFICES ASSUME IInv, UNCHANGED vars PROVE IInv' OBVIOUS
<1>1. UNCHANGED <<rows, files, proc, answers, calls, stops>> BY DEF vars
<1>2. FilesKept /\ DocumentsOnly' BY <1>1, FilesSame
<1>3. RowsKept /\ RowsRight' /\ EveryReviewReopens' BY <1>1, <1>2, RowsSame
<1>4. Typed' BY <1>1 DEF IInv, Typed
<1>5. Exclusive' BY <1>1 DEF IInv, Exclusive
<1>6. AllFit'
  <2> SUFFICES ASSUME NEW q \in Process PROVE Fitting(proc[q])' BY DEF AllFit
  <2>1. PICK t : t = proc[q] OBVIOUS
  <2>2. Fitting(t) BY <2>1 DEF IInv, AllFit
  <2>3. Fitting(t)' BY <1>1, <1>3, <2>2, FittingStays
  <2> QED BY <1>1, <2>1, <2>3
<1>7. AnswersRight'
  <2> SUFFICES ASSUME NEW a \in answers' PROVE Right(a)' BY DEF AnswersRight
  <2>1. a.cmd \in Commands /\ Right(a) BY <1>1 DEF IInv, AnswersRight, Typed
  <2> QED BY <1>2, <1>3, <2>1, RightStays
<1> QED BY <1>3, <1>4, <1>5, <1>6, <1>7 DEF IInv

LEMMA NextIInv == IInv /\ [Next]_vars => IInv'
<1> SUFFICES ASSUME IInv, [Next]_vars PROVE IInv' OBVIOUS
<1>1. CASE Next
  <2>1. PICK p \in Process : Step(p) \/ Stop(p) \/ \E c \in Commands : Call(p, c)
    BY <1>1 DEF Next
  <2>2. CASE Stop(p) BY <2>2, StopKeeps
  <2>3. CASE \E c \in Commands : Call(p, c) BY <2>3, CallKeeps
  <2>4. CASE Create(p) \/ Insert(p) \/ Collided(p)
    BY <2>4, CreateKeeps, InsertKeeps, CollidedKeeps
  <2>5. CASE PublishSource(p) \/ PublishAnalysis(p) \/ Seal(p)
    BY <2>5, PublishSourceKeeps, PublishAnalysisKeeps, SealKeeps
  <2>6. CASE Decide(p) \/ Check(p) \/ Settle(p)
    BY <2>6, DecideKeeps, CheckKeeps, SettleKeeps
  <2>7. CASE Missed(p) \/ DecisionCollided(p) \/ Busy(p)
    BY <2>7, MissedKeeps, DecisionCollidedKeeps, BusyKeeps
  <2>8. CASE PublishDecision(p) \/ Confirm(p)
    BY <2>8, PublishDecisionKeeps, ConfirmKeeps
  <2> QED BY <2>1, <2>2, <2>3, <2>4, <2>5, <2>6, <2>7, <2>8 DEF Step
<1>2. CASE UNCHANGED vars BY <1>2, StutterIInv
<1> QED BY <1>1, <1>2

LEMMA OneRow == ASSUME IInv, NEW r PROVE Cardinality(RowsOf(r)) <= 1
<1>1. CASE RowsOf(r) = {} BY <1>1, FS_EmptySet
<1>2. CASE RowsOf(r) # {}
  <2>1. PICK x : x \in RowsOf(r) BY <1>2
  <2>2. RowsOf(r) = {x} BY <2>1 DEF RowsOf, IInv, RowsRight, RowsApart
  <2> QED BY <2>2, FS_Singleton
<1> QED BY <1>1, <1>2

LEMMA IInvImplies == IInv => ReviewsReopen
<1> SUFFICES ASSUME IInv PROVE ReviewsReopen OBVIOUS
<1>1. TypeOK
  <2>1. \A p \in Process : proc[p] = Idle \/ proc[p].cmd \in Commands
    BY DEF IInv, Typed, ProcState, Commands
  <2>2. \A path \in DOMAIN files : files[path] \in Sources \union Analyses \union Outcomes
    BY DEF IInv, Typed, Documents
  <2>3. rows \subseteq Row /\ calls \in 0..MaxCalls /\ stops \in 0..MaxStops BY DEF IInv, Typed
  <2> QED BY <2>1, <2>2, <2>3, OneRow DEF TypeOK
<1>2. EveryReviewReopens BY DEF IInv
<1>3. \A a \in answers : Right(a) /\ (IsCreate(a.cmd) \/ a.cmd \in Decisions)
  BY CreatesAre DEF IInv, AnswersRight, Typed, Commands
<1>4. OneWinner
  BY <1>3 DEF OneWinner, Right, Won, RowsOf, IInv, RowsRight, RowsApart
<1>5. AnswersTheCommand BY <1>3 DEF AnswersTheCommand, Right
<1>6. RefusalsAreTrue
  <2>1. \A c : PlaceLost(c) => PlaceTaken(c) BY DEF PlaceLost, PlaceTaken, Another, Holds
  <2> QED BY <1>3, <2>1 DEF RefusalsAreTrue, Right
<1> QED BY <1>1, <1>2, <1>4, <1>5, <1>6 DEF ReviewsReopen

\* Whatever worker stops where, and however many there are, every review in the database
\* reopens, one decision on it wins, no call succeeds with another one's answer, and no
\* refusal is untrue: the row commits last, under a lock it was checked under.
THEOREM Reopen == Spec => []ReviewsReopen
BY InitIInv, NextIInv, IInvImplies, PTL DEF Spec

----------------------------------------------------------------------------
(* What a step tells, and what it commits.                                 *)

Tells(c, is, row) == answers' = answers \union {[cmd |-> c, is |-> is, view |-> row]}
Silent == /\ rows' = rows /\ answers \subseteq answers'
          /\ \A a \in answers' : a \in answers \/ ~Succeeded(a)
ReplaysCreate(c, row) ==
  row \in ByCreateKey(c.key) /\ row.analysis = c.analysis /\ Tells(c, "replayed", row) /\ rows' = rows
ReplaysDecision(c, row) ==
  row \in ByDecisionKey(c.key) /\ row.settled = c /\ Tells(c, "replayed", row) /\ rows' = rows
CommitsReview(c, row) ==
  row = NewRow(c) /\ ~CreateCollides(c) /\ Tells(c, "created", row) /\ rows' = rows \union {row}
CommitsDecision(c, old, row) ==
  /\ old \in Unsettled(c.decision.review) /\ row = SettledRow(old, c) /\ ~DecisionCollides(c)
  /\ Tells(c, "created", row) /\ rows' = (rows \ {old}) \union {row}
Outcome ==
  \/ Silent
  \/ \E c \in Creates, row \in Row : ReplaysCreate(c, row) \/ CommitsReview(c, row)
  \/ \E c \in Decisions, row \in Row : ReplaysDecision(c, row) \/ \E old \in Row : CommitsDecision(c, old, row)

LEMMA RefusesSilently ==
  ASSUME NEW p, NEW is, is \notin {"created", "replayed"}, Refuse(p, is), UNCHANGED rows
  PROVE  Outcome
BY DEF Refuse, Tell, Succeeded, Silent, Outcome

LEMMA GoesSilently == ASSUME UNCHANGED <<rows, answers>> PROVE Outcome
BY DEF Silent, Outcome

LEMMA ReplayCreateTells ==
  ASSUME IInv, NEW p \in Process, proc[p].at \in Creating,
         NEW row \in ByCreateKey(proc[p].cmd.key), ReplayCreate(p, row), UNCHANGED rows
  PROVE  Outcome
<1>1. proc[p].cmd \in Creates /\ row \in Row
  BY InCreating DEF IInv, RowsRight, ByCreateKey
<1>2. CASE Refuse(p, "key_conflict") \/ Refuse(p, "invalid_artifact") BY <1>2, RefusesSilently
<1>3. CASE row.analysis = proc[p].cmd.analysis /\ Tell(p, "replayed", row)
  <2>1. ReplaysCreate(proc[p].cmd, row) BY <1>3 DEF ReplaysCreate, Tell, Tells
  <2> QED BY <1>1, <2>1 DEF Outcome
<1> QED BY <1>2, <1>3 DEF ReplayCreate, Replay

LEMMA ReplayDecisionTells ==
  ASSUME IInv, NEW p \in Process, proc[p].at \in Deciding,
         NEW row \in ByDecisionKey(proc[p].cmd.key), ReplayDecision(p, row), UNCHANGED rows
  PROVE  Outcome
<1>1. proc[p].cmd \in Decisions BY InDecision
<1>2. row \in Row /\ row.settled \in Decisions
  BY DEF IInv, RowsRight, ByDecisionKey, Row, Awaiting
<1>3. CASE Refuse(p, "key_conflict") \/ Refuse(p, "invalid_artifact") BY <1>3, RefusesSilently
<1>4. CASE row.settled.decision = proc[p].cmd.decision /\ Tell(p, "replayed", row)
  <2>1. row.settled = proc[p].cmd BY <1>1, <1>2, <1>4, DecisionsAgree DEF ByDecisionKey
  <2>2. ReplaysDecision(proc[p].cmd, row) BY <1>4, <2>1 DEF ReplaysDecision, Tell, Tells
  <2> QED BY <1>1, <1>2, <2>2 DEF Outcome
<1> QED BY <1>3, <1>4 DEF ReplayDecision, Replay

LEMMA ClassifyTells ==
  ASSUME IInv, NEW p \in Process, proc[p].at \in Deciding,
         NEW row \in RowsOf(proc[p].cmd.decision.review), ~Awaiting(row),
         Classify(p, row), UNCHANGED rows
  PROVE  Outcome
<1>1. CASE row.settled.key # proc[p].cmd.key BY <1>1, RefusesSilently DEF Classify
<1>2. CASE row.settled.key = proc[p].cmd.key
  <2>1. row \in ByDecisionKey(proc[p].cmd.key) BY <1>2 DEF ByDecisionKey, RowsOf
  <2> QED BY <1>2, <2>1, ReplayDecisionTells DEF Classify
<1> QED BY <1>1, <1>2

LEMMA CreatingTells ==
  ASSUME IInv, NEW p \in Process,
         \/ Create(p) \/ Insert(p) \/ Collided(p) \/ PublishSource(p) \/ PublishAnalysis(p) \/ Seal(p)
  PROVE  Outcome
<1>1. CASE Create(p) \/ Collided(p)
  <2>1. proc[p].at \in Creating /\ UNCHANGED rows
    BY <1>1 DEF Create, Collided, At, Creating, ReadOnly
  <2>2. CASE UNCHANGED answers BY <2>1, <2>2, GoesSilently
  <2>3. CASE Refuse(p, "conflict") BY <2>1, <2>3, RefusesSilently
  <2>4. CASE \E row \in ByCreateKey(proc[p].cmd.key) : ReplayCreate(p, row)
    BY <2>1, <2>4, ReplayCreateTells
  <2> QED BY <1>1, <2>2, <2>3, <2>4 DEF Create, Collided
<1>2. CASE Insert(p) BY <1>2, GoesSilently DEF Insert, ReadOnly
<1>3. CASE PublishSource(p) \/ PublishAnalysis(p)
  BY <1>3, GoesSilently, RefusesSilently DEF PublishSource, PublishAnalysis
<1>4. CASE Seal(p)
  <2>1. CASE Refuse(p, "invalid_artifact") /\ UNCHANGED rows BY <2>1, RefusesSilently
  <2>2. CASE rows' = rows \union {proc[p].row} /\ Tell(p, "created", proc[p].row)
    <3>1. PICK c \in Creates, row \in Row : c = proc[p].cmd /\ row = proc[p].row
      BY <1>4, OpenCreateHolds DEF Seal, At
    <3>2. row = NewRow(c) /\ ~CreateCollides(c) BY <1>4, <3>1, OpenCreateHolds DEF Seal, At
    <3>3. CommitsReview(c, row) BY <2>2, <3>1, <3>2 DEF CommitsReview, Tell, Tells
    <3> QED BY <3>3 DEF Outcome
  <2> QED BY <1>4, <2>1, <2>2 DEF Seal
<1> QED BY <1>1, <1>2, <1>3, <1>4

LEMMA DecidingTells ==
  ASSUME IInv, NEW p \in Process,
         \/ Decide(p) \/ Check(p) \/ Settle(p) \/ Missed(p) \/ DecisionCollided(p)
         \/ PublishDecision(p) \/ Confirm(p)
  PROVE  Outcome
<1>1. CASE Decide(p)
  BY <1>1, GoesSilently, RefusesSilently DEF Decide, ReadOnly
<1>2. CASE Check(p) \/ Missed(p) \/ DecisionCollided(p)
  <2>1. proc[p].at \in Deciding /\ UNCHANGED rows
    BY <1>2 DEF Check, Missed, DecisionCollided, At, Deciding, ReadOnly
  <2>2. CASE UNCHANGED answers BY <2>1, <2>2, GoesSilently
  <2>3. CASE \E is \in {"conflict", "settled"} : Refuse(p, is) BY <2>1, <2>3, RefusesSilently
  <2>4. CASE \E row \in ByDecisionKey(proc[p].cmd.key) : ReplayDecision(p, row)
    BY <2>1, <2>4, ReplayDecisionTells
  <2>5. CASE \E row \in RowsOf(proc[p].cmd.decision.review) : ~Awaiting(row) /\ Classify(p, row)
    BY <2>1, <2>5, ClassifyTells
  <2>6. CASE Check(p) BY <2>2, <2>4, <2>5, <2>6 DEF Check
  <2>7. CASE Missed(p) BY <2>3, <2>5, <2>7 DEF Missed
  <2>8. CASE DecisionCollided(p) BY <2>3, <2>4, <2>8 DEF DecisionCollided
  <2> QED BY <1>2, <2>6, <2>7, <2>8
<1>3. CASE Settle(p) BY <1>3, GoesSilently DEF Settle, ReadOnly
<1>4. CASE PublishDecision(p)
  BY <1>4, GoesSilently, RefusesSilently DEF PublishDecision
<1>5. CASE Confirm(p)
  <2>1. CASE Refuse(p, "invalid_artifact") /\ UNCHANGED rows BY <2>1, RefusesSilently
  <2>2. CASE /\ rows' = (rows \ RowsOf(proc[p].row.analysis.review)) \union {proc[p].row}
             /\ Tell(p, "created", proc[p].row)
    <3>1. proc[p].at \in {"decision", "confirm"} BY <1>5 DEF Confirm, At
    <3>2. PICK c \in Decisions : c = proc[p].cmd BY <3>1, OpenDecisionHolds, InDecision
    <3>3. PICK old \in Unsettled(c.decision.review) : proc[p].row = SettledRow(old, c)
      BY <3>1, <3>2, OpenDecisionHolds
    <3>4. PICK row : row = SettledRow(old, c) OBVIOUS
    <3>5. old \in rows /\ old \in Row /\ old.analysis.review = c.decision.review
      BY DEF IInv, RowsRight, Unsettled, RowsOf
    <3>6. row \in Row /\ row.analysis = old.analysis BY <3>4, <3>5, SettledRowIsRow
    <3>7. RowsOf(row.analysis.review) = {old}
      BY <3>5, <3>6 DEF RowsOf, IInv, RowsRight, RowsApart
    <3>8. ~DecisionCollides(c) BY <3>1, <3>2, OpenDecisionHolds
    <3>9. CommitsDecision(c, old, row)
      BY <2>2, <3>2, <3>3, <3>4, <3>7, <3>8 DEF CommitsDecision, Tell, Tells
    <3> QED BY <3>5, <3>6, <3>9 DEF Outcome
  <2> QED BY <1>5, <2>1, <2>2 DEF Confirm
<1> QED BY <1>1, <1>2, <1>3, <1>4, <1>5

LEMMA StepTells == IInv /\ [Next]_vars => Outcome
<1> SUFFICES ASSUME IInv, [Next]_vars PROVE Outcome OBVIOUS
<1>1. CASE UNCHANGED vars BY <1>1, GoesSilently DEF vars
<1>2. CASE Next
  <2>1. PICK p \in Process : Step(p) \/ Stop(p) \/ \E c \in Commands : Call(p, c)
    BY <1>2 DEF Next
  <2>2. CASE Stop(p) \/ \E c \in Commands : Call(p, c) BY <2>2, GoesSilently DEF Stop, Call
  <2>3. CASE Busy(p) BY <2>3, RefusesSilently DEF Busy, ReadOnly
  <2>4. CASE Step(p) BY <2>3, <2>4, CreatingTells, DecidingTells DEF Step
  <2> QED BY <2>1, <2>2, <2>4
<1> QED BY <1>1, <1>2

----------------------------------------------------------------------------
(* Creations are idempotent commands.                                      *)

CreateKeys  == {c.key : c \in Creates}
CreationReceipts == [k \in CreateKeys |-> CreationReceipt(k)]
CreationOf(a) == <<a.cmd.key, a.cmd.analysis, a.view.analysis.review>>
CreationsTold == {CreationOf(a) : a \in Successes(Creates)}
ReceiptOfRow(row) == [command |-> row.analysis, answer |-> row.analysis.review]

\* KeyedCommands under the mapping of Creations.
LEMMA MappedCreations ==
  /\ Creations!Init <=> (CreationReceipts = [k \in CreateKeys |-> NoRow] /\ CreationsTold = {})
  /\ \A k, c, a :
       Creations!First(k, c, a) <=>
         /\ CreationReceipts[k] = NoRow
         /\ CreationReceipts' = [CreationReceipts EXCEPT ![k] = [command |-> c, answer |-> a]]
         /\ CreationsTold' \in {CreationsTold, CreationsTold \union {<<k, c, a>>}}
  /\ \A k :
       Creations!Again(k) <=>
         /\ CreationReceipts[k] # NoRow
         /\ CreationsTold' =
              CreationsTold \union {<<k, CreationReceipts[k].command, CreationReceipts[k].answer>>}
         /\ CreationReceipts' = CreationReceipts
  /\ UNCHANGED <<CreationReceipts, CreationsTold>> => UNCHANGED Creations!vars
BY DEF Creations!Init, Creations!First, Creations!Again, Creations!vars,
       CreationReceipts, CreationsTold, CreationOf, CreateKeys

LEMMA CreationReceiptIs ==
  ASSUME RowsApart, NEW row \in rows PROVE CreationReceipt(row.key) = ReceiptOfRow(row)
<1>1. ByCreateKey(row.key) = {row} BY DEF RowsApart, ByCreateKey
<1>2. (CHOOSE x \in {row} : TRUE) = row OBVIOUS
<1> QED BY <1>1, <1>2 DEF CreationReceipt, ReceiptOfRow

\* The same after a step.
LEMMA CreationReceiptWillBe ==
  ASSUME RowsApart', NEW row \in rows' PROVE CreationReceipt(row.key)' = ReceiptOfRow(row)
<1>1. ByCreateKey(row.key)' = {row} BY DEF RowsApart, ByCreateKey
<1>2. (CHOOSE x \in {row} : TRUE) = row OBVIOUS
<1> QED BY <1>1, <1>2 DEF CreationReceipt, ReceiptOfRow

LEMMA ReceiptIsSome == ASSUME NEW row PROVE ReceiptOfRow(row) # NoRow
<1>1. DOMAIN ReceiptOfRow(row) = {"command", "answer"} BY DEF ReceiptOfRow
<1>2. DOMAIN NoRow = {"key"} BY DEF NoRow
<1> QED BY <1>1, <1>2

LEMMA CreationReceiptsSame == ASSUME rows' = rows PROVE CreationReceipts' = CreationReceipts
BY DEF CreationReceipts, CreationReceipt, ByCreateKey

\* What is told of a creation, and of a decision.
LEMMA CreationTold ==
  ASSUME NEW c \in Creates, NEW is, NEW row, Succeeded([cmd |-> c, is |-> is, view |-> row]),
         Tells(c, is, row)
  PROVE  CreationsTold' = CreationsTold \union {<<c.key, c.analysis, row.analysis.review>>}
<1>1. PICK a : a = [cmd |-> c, is |-> is, view |-> row] OBVIOUS
<1>2. Successes(Creates)' = Successes(Creates) \union {a} BY <1>1 DEF Successes, Tells
<1>3. CreationOf(a) = <<c.key, c.analysis, row.analysis.review>> BY <1>1 DEF CreationOf
<1> QED BY <1>2, <1>3 DEF CreationsTold

LEMMA CreationNotTold ==
  ASSUME \/ Silent
         \/ \E row : \E c \in Decisions, is \in {"created", "replayed"} : Tells(c, is, row)
  PROVE  CreationsTold' = CreationsTold
<1>1. Successes(Creates)' = Successes(Creates)
  <2>1. CASE Silent BY <2>1 DEF Silent, Successes
  <2>2. ASSUME NEW c \in Decisions, NEW is, NEW row, Tells(c, is, row)
        PROVE  Successes(Creates)' = Successes(Creates)
    <3>1. c \notin Creates BY CreatesAre, DecisionsAre
    <3> QED BY <2>2, <3>1 DEF Tells, Successes
  <2> QED BY <2>1, <2>2
<1> QED BY <1>1 DEF CreationsTold

LEMMA CreationSteps ==
  ASSUME IInv, IInv', Outcome PROVE [Creations!Next]_(Creations!vars)
<1>0. RowsApart /\ RowsApart' BY DEF IInv, RowsRight
<1>1. CASE Silent
  BY <1>1, CreationReceiptsSame, CreationNotTold, MappedCreations DEF Silent
<1>2. ASSUME NEW c \in Creates, NEW row \in Row, ReplaysCreate(c, row) PROVE Creations!Next
  <2>1. row \in rows /\ row.key = c.key /\ row.analysis = c.analysis /\ rows' = rows
    BY <1>2 DEF ReplaysCreate, ByCreateKey
  <2>2. c.key \in CreateKeys BY DEF CreateKeys
  <2>3. CreationReceipts[c.key] = ReceiptOfRow(row)
    BY <1>0, <2>1, <2>2, CreationReceiptIs DEF CreationReceipts
  <2>4. CreationReceipts[c.key] # NoRow BY <2>3, ReceiptIsSome
  <2>5. CreationsTold' = CreationsTold \union {<<c.key, c.analysis, row.analysis.review>>}
    BY <1>2, CreationTold DEF ReplaysCreate, Succeeded
  <2>6. CreationReceipts[c.key].command = c.analysis /\ CreationReceipts[c.key].answer = row.analysis.review
    BY <2>1, <2>3 DEF ReceiptOfRow
  <2>7. Creations!Again(c.key) BY <2>1, <2>4, <2>5, <2>6, CreationReceiptsSame, MappedCreations
  <2> QED BY <2>2, <2>7 DEF Creations!Next, CreateKeys
<1>3. ASSUME NEW c \in Creates, NEW row \in Row, CommitsReview(c, row) PROVE Creations!Next
  <2>1. /\ row.key = c.key /\ row.analysis = c.analysis /\ rows' = rows \union {row}
        /\ \A x \in rows : x.key # c.key
    BY <1>3 DEF CommitsReview, NewRow, CreateCollides, ByCreateKey
  <2>2. c.key \in CreateKeys BY DEF CreateKeys
  <2>3. CreationReceipts[c.key] = NoRow
    BY <2>1, <2>2 DEF CreationReceipts, CreationReceipt, ByCreateKey
  <2>4. CreationReceipt(row.key)' = ReceiptOfRow(row) BY <1>0, <2>1, CreationReceiptWillBe
  <2>5. \A k \in CreateKeys : k # row.key => CreationReceipt(k)' = CreationReceipt(k)
    <3> SUFFICES ASSUME NEW k \in CreateKeys, k # row.key
                 PROVE  CreationReceipt(k)' = CreationReceipt(k)
      OBVIOUS
    <3>1. ByCreateKey(k)' = ByCreateKey(k) BY <2>1 DEF ByCreateKey
    <3> QED BY <3>1 DEF CreationReceipt
  <2>6. CreationReceipts' = [CreationReceipts EXCEPT ![c.key] = ReceiptOfRow(row)]
    BY <2>1, <2>2, <2>4, <2>5 DEF CreationReceipts
  <2>7. CreationsTold' = CreationsTold \union {<<c.key, c.analysis, row.analysis.review>>}
    BY <1>3, CreationTold DEF CommitsReview, Succeeded
  <2>8. Creations!First(c.key, c.analysis, row.analysis.review)
    BY <2>1, <2>3, <2>6, <2>7, MappedCreations DEF ReceiptOfRow
  <2>9. c.analysis \in Analyses /\ row.analysis.review \in {a.review : a \in Analyses}
    BY <2>1 DEF Analyses
  <2> QED BY <2>2, <2>8, <2>9 DEF Creations!Next, CreateKeys
<1>4. ASSUME NEW c \in Decisions, NEW row \in Row, ReplaysDecision(c, row)
      PROVE  UNCHANGED Creations!vars
  <2>1. rows' = rows /\ Tells(c, "replayed", row) BY <1>4 DEF ReplaysDecision
  <2> QED BY <2>1, CreationReceiptsSame, CreationNotTold, MappedCreations
<1>5. ASSUME NEW c \in Decisions, NEW old \in Row, NEW row \in Row, CommitsDecision(c, old, row)
      PROVE  UNCHANGED Creations!vars
  <2>1. /\ old \in rows /\ rows' = (rows \ {old}) \union {row} /\ Tells(c, "created", row)
        /\ row.key = old.key /\ row.analysis = old.analysis
    BY <1>5, SettledRowIsRow DEF CommitsDecision, Unsettled, RowsOf
  <2>2. \A k \in CreateKeys : CreationReceipt(k)' = CreationReceipt(k)
    <3> SUFFICES ASSUME NEW k \in CreateKeys PROVE CreationReceipt(k)' = CreationReceipt(k)
      OBVIOUS
    <3>1. CASE k # old.key
      <4>1. ByCreateKey(k)' = ByCreateKey(k) BY <2>1, <3>1 DEF ByCreateKey
      <4> QED BY <4>1 DEF CreationReceipt
    <3>2. CASE k = old.key
      <4>1. CreationReceipt(old.key) = ReceiptOfRow(old) BY <1>0, <2>1, CreationReceiptIs
      <4>2. row \in rows' BY <2>1
      <4>3. CreationReceipt(row.key)' = ReceiptOfRow(row) BY <1>0, <4>2, CreationReceiptWillBe
      <4> QED BY <2>1, <3>2, <4>1, <4>3 DEF ReceiptOfRow
    <3> QED BY <3>1, <3>2
  <2>3. CreationReceipts' = CreationReceipts BY <2>2 DEF CreationReceipts
  <2> QED BY <2>1, <2>3, CreationNotTold, MappedCreations
<1> QED BY <1>1, <1>2, <1>3, <1>4, <1>5 DEF Outcome

\* Whatever worker stops where, creations are carried out once per key and answered with
\* the review they created, and a key stays with the analysis it was first used for.
THEOREM CreationPromise == Spec => Creations!Spec
<1>1. Init => Creations!Init
  <2>1. ASSUME Init PROVE CreationReceipts = [k \in CreateKeys |-> NoRow] /\ CreationsTold = {}
    BY <2>1 DEF Init, CreationReceipts, CreationReceipt, ByCreateKey, CreationsTold, Successes
  <2> QED BY <2>1, MappedCreations
<1>2. IInv /\ [Next]_vars => [Creations!Next]_(Creations!vars)
  BY StepTells, NextIInv, CreationSteps
<1> QED BY <1>1, <1>2, InitIInv, NextIInv, PTL DEF Spec, Creations!Spec

----------------------------------------------------------------------------
(* Settlements are idempotent commands.                                    *)

DecisionKeys  == {d.key : d \in Decisions}
SettlementReceipts == [k \in DecisionKeys |-> DecisionReceipt(k)]
SettlementOf(a) == <<a.cmd.key, a.cmd.decision, a.view.analysis.review>>
SettlementsTold == {SettlementOf(a) : a \in Successes(Decisions)}
ReceiptOfSettled(row) == [command |-> row.settled.decision, answer |-> row.analysis.review]

\* KeyedCommands under the mapping of Settlements.
LEMMA MappedSettlements ==
  /\ Settlements!Init <=> (SettlementReceipts = [k \in DecisionKeys |-> NoRow] /\ SettlementsTold = {})
  /\ \A k, c, a :
       Settlements!First(k, c, a) <=>
         /\ SettlementReceipts[k] = NoRow
         /\ SettlementReceipts' = [SettlementReceipts EXCEPT ![k] = [command |-> c, answer |-> a]]
         /\ SettlementsTold' \in {SettlementsTold, SettlementsTold \union {<<k, c, a>>}}
  /\ \A k :
       Settlements!Again(k) <=>
         /\ SettlementReceipts[k] # NoRow
         /\ SettlementsTold' =
              SettlementsTold \union {<<k, SettlementReceipts[k].command, SettlementReceipts[k].answer>>}
         /\ SettlementReceipts' = SettlementReceipts
  /\ UNCHANGED <<SettlementReceipts, SettlementsTold>> => UNCHANGED Settlements!vars
BY DEF Settlements!Init, Settlements!First, Settlements!Again, Settlements!vars,
       SettlementReceipts, SettlementsTold, SettlementOf, DecisionKeys

LEMMA DecisionReceiptIs ==
  ASSUME SettledApart, NEW row \in rows, ~Awaiting(row)
  PROVE  DecisionReceipt(row.settled.key) = ReceiptOfSettled(row)
<1>1. ByDecisionKey(row.settled.key) = {row} BY DEF SettledApart, ByDecisionKey
<1>2. (CHOOSE x \in {row} : TRUE) = row OBVIOUS
<1> QED BY <1>1, <1>2 DEF DecisionReceipt, ReceiptOfSettled

\* The same after a step.
LEMMA DecisionReceiptWillBe ==
  ASSUME SettledApart', NEW row \in rows', ~Awaiting(row)
  PROVE  DecisionReceipt(row.settled.key)' = ReceiptOfSettled(row)
<1>1. ByDecisionKey(row.settled.key)' = {row} BY DEF SettledApart, ByDecisionKey, Awaiting
<1>2. (CHOOSE x \in {row} : TRUE) = row OBVIOUS
<1> QED BY <1>1, <1>2 DEF DecisionReceipt, ReceiptOfSettled

LEMMA SettledReceiptIsSome == ASSUME NEW row PROVE ReceiptOfSettled(row) # NoRow
<1>1. DOMAIN ReceiptOfSettled(row) = {"command", "answer"} BY DEF ReceiptOfSettled
<1>2. DOMAIN NoRow = {"key"} BY DEF NoRow
<1> QED BY <1>1, <1>2

LEMMA SettlementReceiptsSame == ASSUME rows' = rows PROVE SettlementReceipts' = SettlementReceipts
BY DEF SettlementReceipts, DecisionReceipt, ByDecisionKey

LEMMA SettlementTold ==
  ASSUME NEW c \in Decisions, NEW is, NEW row, Succeeded([cmd |-> c, is |-> is, view |-> row]),
         Tells(c, is, row)
  PROVE  SettlementsTold' = SettlementsTold \union {<<c.key, c.decision, row.analysis.review>>}
<1>1. PICK a : a = [cmd |-> c, is |-> is, view |-> row] OBVIOUS
<1>2. Successes(Decisions)' = Successes(Decisions) \union {a} BY <1>1 DEF Successes, Tells
<1>3. SettlementOf(a) = <<c.key, c.decision, row.analysis.review>> BY <1>1 DEF SettlementOf
<1> QED BY <1>2, <1>3 DEF SettlementsTold

LEMMA SettlementNotTold ==
  ASSUME \/ Silent
         \/ \E row : \E c \in Creates, is \in {"created", "replayed"} : Tells(c, is, row)
  PROVE  SettlementsTold' = SettlementsTold
<1>1. Successes(Decisions)' = Successes(Decisions)
  <2>1. CASE Silent BY <2>1 DEF Silent, Successes
  <2>2. ASSUME NEW c \in Creates, NEW is, NEW row, Tells(c, is, row)
        PROVE  Successes(Decisions)' = Successes(Decisions)
    <3>1. c \notin Decisions BY CreatesAre, DecisionsAre
    <3> QED BY <2>2, <3>1 DEF Tells, Successes
  <2> QED BY <2>1, <2>2
<1> QED BY <1>1 DEF SettlementsTold

LEMMA SettlementSteps ==
  ASSUME IInv, IInv', Outcome PROVE [Settlements!Next]_(Settlements!vars)
<1>0. SettledApart /\ SettledApart' BY DEF IInv, RowsRight
<1>1. CASE Silent
  BY <1>1, SettlementReceiptsSame, SettlementNotTold, MappedSettlements DEF Silent
<1>2. ASSUME NEW c \in Decisions, NEW row \in Row, ReplaysDecision(c, row) PROVE Settlements!Next
  <2>1. row \in rows /\ row.settled = c /\ ~Awaiting(row) /\ rows' = rows
    BY <1>2 DEF ReplaysDecision, ByDecisionKey
  <2>2. c.key \in DecisionKeys BY DEF DecisionKeys
  <2>3. SettlementReceipts[c.key] = ReceiptOfSettled(row)
    BY <1>0, <2>1, <2>2, DecisionReceiptIs DEF SettlementReceipts
  <2>4. SettlementReceipts[c.key] # NoRow BY <2>3, SettledReceiptIsSome
  <2>5. SettlementsTold' = SettlementsTold \union {<<c.key, c.decision, row.analysis.review>>}
    BY <1>2, SettlementTold DEF ReplaysDecision, Succeeded
  <2>6. /\ SettlementReceipts[c.key].command = c.decision
        /\ SettlementReceipts[c.key].answer = row.analysis.review
    BY <2>1, <2>3 DEF ReceiptOfSettled
  <2>7. Settlements!Again(c.key)
    BY <2>1, <2>4, <2>5, <2>6, SettlementReceiptsSame, MappedSettlements
  <2> QED BY <2>2, <2>7 DEF Settlements!Next, DecisionKeys
<1>3. ASSUME NEW c \in Decisions, NEW old \in Row, NEW row \in Row, CommitsDecision(c, old, row)
      PROVE  Settlements!Next
  <2>1. /\ old \in rows /\ Awaiting(old) /\ rows' = (rows \ {old}) \union {row}
        /\ row.settled = c /\ ~Awaiting(row)
        /\ \A x \in rows : Awaiting(x) \/ x.settled.key # c.key
    BY <1>3, DecisionsAre
    DEF CommitsDecision, Unsettled, RowsOf, SettledRow, Awaiting, DecisionCollides, Row
  <2>2. c.key \in DecisionKeys BY DEF DecisionKeys
  <2>3. SettlementReceipts[c.key] = NoRow
    BY <2>1, <2>2 DEF SettlementReceipts, DecisionReceipt, ByDecisionKey
  <2>4. DecisionReceipt(c.key)' = ReceiptOfSettled(row) BY <1>0, <2>1, DecisionReceiptWillBe
  <2>5. \A k \in DecisionKeys : k # c.key => DecisionReceipt(k)' = DecisionReceipt(k)
    <3> SUFFICES ASSUME NEW k \in DecisionKeys, k # c.key
                 PROVE  DecisionReceipt(k)' = DecisionReceipt(k)
      OBVIOUS
    <3>1. ByDecisionKey(k)' = ByDecisionKey(k) BY <2>1 DEF ByDecisionKey, Awaiting
    <3> QED BY <3>1 DEF DecisionReceipt
  <2>6. SettlementReceipts' = [SettlementReceipts EXCEPT ![c.key] = ReceiptOfSettled(row)]
    BY <2>1, <2>2, <2>4, <2>5 DEF SettlementReceipts
  <2>7. SettlementsTold' = SettlementsTold \union {<<c.key, c.decision, row.analysis.review>>}
    BY <1>3, SettlementTold DEF CommitsDecision, Succeeded
  <2>8. Settlements!First(c.key, c.decision, row.analysis.review)
    BY <2>1, <2>3, <2>6, <2>7, MappedSettlements DEF ReceiptOfSettled
  <2>9. c.decision \in Outcomes /\ row.analysis.review \in {a.review : a \in Analyses}
    BY DEF Outcomes, Row
  <2> QED BY <2>2, <2>8, <2>9 DEF Settlements!Next, DecisionKeys
<1>4. ASSUME NEW c \in Creates, NEW row \in Row, ReplaysCreate(c, row)
      PROVE  UNCHANGED Settlements!vars
  <2>1. rows' = rows /\ Tells(c, "replayed", row) BY <1>4 DEF ReplaysCreate
  <2> QED BY <2>1, SettlementReceiptsSame, SettlementNotTold, MappedSettlements
<1>5. ASSUME NEW c \in Creates, NEW row \in Row, CommitsReview(c, row)
      PROVE  UNCHANGED Settlements!vars
  <2>1. rows' = rows \union {row} /\ Tells(c, "created", row) /\ Awaiting(row)
    BY <1>5 DEF CommitsReview, NewRow, Awaiting
  <2>2. \A k \in DecisionKeys : DecisionReceipt(k)' = DecisionReceipt(k)
    <3> SUFFICES ASSUME NEW k \in DecisionKeys PROVE DecisionReceipt(k)' = DecisionReceipt(k)
      OBVIOUS
    <3>1. ByDecisionKey(k)' = ByDecisionKey(k) BY <2>1 DEF ByDecisionKey, Awaiting
    <3> QED BY <3>1 DEF DecisionReceipt
  <2>3. SettlementReceipts' = SettlementReceipts BY <2>2 DEF SettlementReceipts
  <2> QED BY <2>1, <2>3, SettlementNotTold, MappedSettlements
<1> QED BY <1>1, <1>2, <1>3, <1>4, <1>5 DEF Outcome

\* However many decide on a review at once, a decision is carried out once per key and
\* answered with the review it settled, and a key stays with its decision.
THEOREM SettlementPromise == Spec => Settlements!Spec
<1>1. Init => Settlements!Init
  <2>1. ASSUME Init
        PROVE  SettlementReceipts = [k \in DecisionKeys |-> NoRow] /\ SettlementsTold = {}
    BY <2>1 DEF Init, SettlementReceipts, DecisionReceipt, ByDecisionKey, SettlementsTold, Successes
  <2> QED BY <2>1, MappedSettlements
<1>2. IInv /\ [Next]_vars => [Settlements!Next]_(Settlements!vars)
  BY StepTells, NextIInv, SettlementSteps
<1> QED BY <1>1, <1>2, InitIInv, NextIInv, PTL DEF Spec, Settlements!Spec

-----------------------------------------------------------------------------
(* Demo installations (DemoInstall), by any number of backends.               *)

Datasets == Sound \union {Demo!OtherDataset, "none"}

\* What a part of a workspace is recorded by.
Parts ==
  [research : Datasets, evidence : Datasets, paper : {"none", "staging", "target"},
   rev : {0, 9, Demo!Newest}, jobs : Datasets, review : {"none", "awaiting", "decided"},
   account : {0, Demo!SeededHead, Demo!SeededHead + 1}, market : {0, Demo!SeededPosition},
   signals : Nat, orders : {"none", "fresh", "ordered", "amiss"},
   runtime : {"none", "fresh", "worked", "amiss"},
   descriptor : Datasets, marker : Datasets]

\* A staging directory after the first n - 1 stages.
Built(d, n) ==
  [research |-> IF n > 1 THEN d ELSE "none", evidence |-> IF n > 2 THEN d ELSE "none",
   paper |-> IF n > 3 THEN "staging" ELSE "none", rev |-> IF n > 4 THEN Demo!Newest ELSE 0,
   jobs |-> IF n > 5 THEN d ELSE "none", review |-> IF n > 6 THEN "awaiting" ELSE "none",
   account |-> IF n > 7 THEN Demo!SeededHead ELSE 0,
   market |-> IF n > 8 THEN Demo!SeededPosition ELSE 0, signals |-> IF n > 9 THEN 1 ELSE 0,
   orders |-> IF n > 10 THEN "fresh" ELSE "none", runtime |-> IF n > 10 THEN "fresh" ELSE "none",
   descriptor |-> IF n > 11 THEN d ELSE "none", marker |-> IF n > 12 THEN d ELSE "none"]

LEMMA StagesBuild ==
  ASSUME NEW d
  PROVE  /\ Demo!NoParts = Built(d, 1)
         /\ \A n \in 1..Demo!Stages : Demo!Staged(Built(d, n), d, n) = Built(d, n + 1)
         /\ Demo!Retargeted(Built(d, Demo!Stages + 1)) = Demo!Installed(d)
<1>1. Demo!NoParts = Built(d, 1)
  BY DEF Demo!NoParts, Built
<1>2. Demo!Retargeted(Built(d, Demo!Stages + 1)) = Demo!Installed(d)
  BY DEF Demo!Retargeted, Demo!Stages, Demo!Installed, Built
<1>3. ASSUME NEW n \in 1..Demo!Stages
      PROVE  Demo!Staged(Built(d, n), d, n) = Built(d, n + 1)
  <2>1. n \in 1..12
    BY DEF Demo!Stages
  <2>2. CASE n = 1
    BY <2>2 DEF Demo!Staged, Demo!CopyResearch, Built
  <2>3. CASE n = 2
    BY <2>3 DEF Demo!Staged, Demo!CopyEvidence, Built
  <2>4. CASE n = 3
    BY <2>4 DEF Demo!Staged, Demo!RunPaper, Built
  <2>5. CASE n = 4
    BY <2>5 DEF Demo!Staged, Demo!UpgradeDatabase, Built
  <2>6. CASE n = 5
    BY <2>6 DEF Demo!Staged, Demo!PopulateDatabase, Built
  <2>7. CASE n = 6
    BY <2>7 DEF Demo!Staged, Demo!SeedReview, Built
  <2>8. CASE n = 7
    BY <2>8 DEF Demo!Staged, Demo!SeedAccount, Built
  <2>9. CASE n = 8
    BY <2>9 DEF Demo!Staged, Demo!SeedMarket, Built
  <2>10. CASE n = 9
    BY <2>10 DEF Demo!Staged, Demo!SeedOrders, Built
  <2>11. CASE n = 10
    <3>1. Demo!Staged(Built(d, 10), d, 10) = [Built(d, 10) EXCEPT !.orders = "fresh", !.runtime = "fresh"]
      BY DEF Demo!Staged, Demo!SeedExecution
    <3>2. PICK w : w = [Built(d, 10) EXCEPT !.orders = "fresh"]
      OBVIOUS
    <3>3. w = [research |-> d, evidence |-> d, paper |-> "staging", rev |-> Demo!Newest,
               jobs |-> d, review |-> "awaiting", account |-> Demo!SeededHead,
               market |-> Demo!SeededPosition, signals |-> 1, orders |-> "fresh",
               runtime |-> "none", descriptor |-> "none", marker |-> "none"]
      BY <3>2 DEF Built
    <3>4. [w EXCEPT !.runtime = "fresh"] = Built(d, 11)
      BY <3>3 DEF Built
    <3> QED
      BY <2>11, <3>1, <3>2, <3>4
  <2>12. CASE n = 11
    BY <2>12 DEF Demo!Staged, Demo!WriteDescriptor, Built
  <2>13. CASE n = 12
    BY <2>13 DEF Demo!Staged, Demo!WriteMarker, Built
  <2> QED
    BY <2>1, <2>2, <2>3, <2>4, <2>5, <2>6, <2>7, <2>8, <2>9, <2>10, <2>11, <2>12, <2>13
<1> QED
  BY <1>1, <1>2, <1>3

LEMMA InstalledIsWhole ==
  ASSUME NEW d \in Sound, Demo!DemoInstallAssumption
  PROVE  /\ Demo!Complete(Demo!Installed(d), d) /\ Demo!Installed(d) \in Parts
         /\ Demo!Installed(d).marker = d /\ Demo!Installed(d) # Demo!NoParts /\ d # "none"
         /\ Demo!Installed(d).account = Demo!SeededHead /\ Demo!Installed(d).signals = 1
<1>1. d # "none"
  BY DEF Demo!DemoInstallAssumption
<1>2. /\ Demo!Installed(d).marker = d /\ Demo!NoParts.marker = "none"
      /\ Demo!Installed(d).account = Demo!SeededHead /\ Demo!Installed(d).signals = 1
  BY DEF Demo!Installed, Demo!NoParts
<1>3. Demo!Complete(Demo!Installed(d), d)
  BY DEF Demo!Complete, Demo!Installed, Demo!SeededHead, Demo!SeededPosition
<1>4. Demo!Installed(d) \in Parts
  BY DEF Demo!Installed, Parts, Datasets
<1> QED
  BY <1>1, <1>2, <1>3, <1>4

\* What startups and users change of a workspace in place.
LEMMA PartsStay ==
  ASSUME NEW w \in Parts, NEW d
  PROVE  /\ Demo!UpgradeDatabase(w, d) \in Parts /\ Demo!UpgradeDatabase(w, d).marker = w.marker
         /\ Demo!SeedOrders(w, d) \in Parts /\ Demo!SeedOrders(w, d).marker = w.marker
BY DEF Parts, Demo!UpgradeDatabase, Demo!SeedOrders

LEMMA UsedStays ==
  ASSUME NEW w \in Parts, NEW use \in Demo!Uses, Demo!DemoInstallAssumption
  PROVE  Demo!Used(w, use) \in Parts /\ Demo!Used(w, use).marker = w.marker
<1>1. CASE use = "decide"
  BY <1>1 DEF Parts, Demo!Used
<1>2. CASE use = "deposit"
  BY <1>2 DEF Parts, Demo!Used
<1>3. CASE use = "order"
  <2>1. PICK o \in {"none", "fresh", "ordered", "amiss"} :
          o = IF w.orders = "fresh" THEN "ordered" ELSE w.orders
    BY DEF Parts
  <2>2. Demo!Used(w, use) = [w EXCEPT !.orders = o]
    BY <1>3, <2>1 DEF Demo!Used
  <2> QED
    BY <2>2 DEF Parts
<1>4. CASE use = "reorder"
  BY <1>4 DEF Parts, Demo!Used
<1>5. CASE use = "work"
  <2>1. PICK r \in {"none", "fresh", "worked", "amiss"} :
          r = IF w.runtime = "fresh" THEN "worked" ELSE w.runtime
    BY DEF Parts
  <2>2. Demo!Used(w, use) = [w EXCEPT !.runtime = r]
    BY <1>5, <2>1 DEF Demo!Used
  <2> QED
    BY <2>2 DEF Parts
<1>6. CASE use = "bypass"
  BY <1>6 DEF Parts, Demo!Used
<1>7. CASE use = "signal"
  <2>1. w.signals \in Nat /\ w.signals + 1 \in Nat
    BY DEF Parts
  <2>2. PICK n \in Nat : n = IF w.signals <= Page THEN w.signals + 1 ELSE w.signals
    BY <2>1
  <2>3. Demo!Used(w, use) = [w EXCEPT !.signals = n]
    BY <1>7, <2>2 DEF Demo!Used
  <2> QED
    BY <2>3 DEF Parts
<1> QED
  BY <1>1, <1>2, <1>3, <1>4, <1>5, <1>6, <1>7 DEF Demo!Uses

-----------------------------------------------------------------------------
(* Demo installations: the invariant.                                         *)

Owning      == {"build", "check", "retarget", "recheck", "replace"}
Recognizing == {"upgrade", "reseed", "validate", "verify", "serving"}
Places == {"idle", "refused", "inspect", "claim", "cleanup"} \union Owning \union Recognizing

BackendState ==
  [at : Places, stage : 1..Demo!Stages + 1, mine : BOOLEAN, emptied : BOOLEAN,
   prior : {0, 9, Demo!Newest}]

\* A directory that is there holds what was made in it.
Made(w) == [there |-> TRUE, foreign |-> FALSE, w |-> w]

\* What is in the root is marked, from its first moment on.
RootGood(tg) ==
  /\ tg \in [there : BOOLEAN, foreign : BOOLEAN, w : Parts]
  /\ tg.there \/ tg = Demo!Gone
  /\ tg.w # Demo!NoParts => tg.w.marker # "none"

StagingGood(st) == st.there \/ st = Demo!Gone

\* A backend in the state s: an installer owns the staging directory and knows what is in
\* it; who has recognized a dataset, or put it in place, finds it in the root.
BackendGood(p, s, st, tg) ==
  /\ s.at \in Owning => s.mine
  /\ s.mine => st.there /\ s.at \in Owning \union {"cleanup"}
  /\ s.at = "build" => s.stage \in 1..Demo!Stages /\ st = Made(Built(SourceOf[p], s.stage))
  /\ s.at \in {"check", "retarget"} => st = Made(Built(SourceOf[p], Demo!Stages + 1))
  /\ s.at \in {"recheck", "replace"} => st = Made(Demo!Installed(SourceOf[p]))
  /\ s.at \notin {"idle", "refused"} => SourceOf[p] \in Sound
  /\ s.at \in Recognizing => tg.w.marker = SourceOf[p]

DemoInv ==
  /\ backends \in [Backend -> BackendState]
  /\ RootGood(target) /\ StagingGood(staging)
  /\ \A p \in Backend : BackendGood(p, backends[p], staging, target)
  /\ \A p, q \in Backend : backends[p].mine /\ backends[q].mine => p = q

\* What a step does.
AppearsWhole ==
  target.w = Demo!NoParts /\ target'.w # Demo!NoParts =>
    \E p \in Backend : Demo!Complete(target'.w, SourceOf[p])
OthersKept ==
  /\ target.foreign => target'.foreign
  /\ target.w.marker = Demo!OtherDataset => target'.w = target.w
OwnersOnly ==
  /\ \A p, q \in Backend : backends'[p].mine /\ backends'[q].mine => p = q
  /\ staging' # staging => \E p \in Backend : backends[p].mine \/ backends'[p].mine
ServedWhole ==
  \A p \in Backend : backends[p].at # "serving" /\ backends'[p].at = "serving" =>
    Demo!Complete(target.w, SourceOf[p]) /\ ~target.foreign

Keeps == DemoInv' /\ AppearsWhole /\ OthersKept /\ OwnersOnly /\ ServedWhole

LEMMA DemoStep ==
  ASSUME Demo!DemoInstallAssumption, DemoInv, NEW p \in Backend, NEW s \in BackendState,
         NEW st, NEW tg, backends' = [backends EXCEPT ![p] = s], staging' = st, target' = tg,
         StagingGood(st), RootGood(tg), BackendGood(p, s, st, tg),
         target.w.marker # "none" => tg.w.marker = target.w.marker,
         st # staging \/ s.mine => backends[p].mine \/ ~staging.there,
         st # staging => backends[p].mine \/ s.mine,
         AppearsWhole, OthersKept,
         backends[p].at # "serving" /\ s.at = "serving" =>
           Demo!Complete(target.w, SourceOf[p]) /\ ~target.foreign
  PROVE  Keeps
<1>1. /\ backends \in [Backend -> BackendState] /\ backends' \in [Backend -> BackendState]
      /\ backends'[p] = s /\ \A q \in Backend : q # p => backends'[q] = backends[q]
  BY DEF DemoInv
<1>2. backends[p].mine \/ ~staging.there => \A q \in Backend : q # p => ~backends[q].mine
  BY DEF DemoInv, BackendGood
<1>3. ASSUME NEW q \in Backend PROVE BackendGood(q, backends'[q], staging', target')
  <2>1. CASE q = p
    BY <1>1, <2>1
  <2>2. CASE q # p
    <3>1. BackendGood(q, backends[q], staging, target) /\ backends'[q] = backends[q]
      BY <1>1, <2>2 DEF DemoInv
    <3>2. backends[q].at \in Recognizing => tg.w.marker = SourceOf[q]
      <4> SUFFICES ASSUME backends[q].at \in Recognizing PROVE tg.w.marker = SourceOf[q]
        OBVIOUS
      <4>1. target.w.marker = SourceOf[q] /\ SourceOf[q] \in Sound
        BY <3>1 DEF BackendGood, Recognizing
      <4> QED
        BY <4>1 DEF Demo!DemoInstallAssumption
    <3>3. CASE st = staging
      BY <3>1, <3>2, <3>3 DEF BackendGood
    <3>4. CASE st # staging
      <4>1. ~backends[q].mine
        BY <1>2, <2>2, <3>4
      <4>2. backends[q].at \notin Owning
        BY <3>1, <4>1 DEF BackendGood
      <4> QED
        BY <3>1, <3>2, <4>1, <4>2 DEF BackendGood, Owning
    <3> QED
      BY <3>3, <3>4
  <2> QED
    BY <2>1, <2>2
<1>4. \A q, r \in Backend : backends'[q].mine /\ backends'[r].mine => q = r
  BY <1>1, <1>2 DEF DemoInv
<1>5. DemoInv'
  BY <1>1, <1>3, <1>4 DEF DemoInv
<1>6. OwnersOnly
  BY <1>1, <1>4 DEF OwnersOnly
<1>7. ServedWhole
  BY <1>1 DEF ServedWhole
<1> QED
  BY <1>5, <1>6, <1>7 DEF Keeps

\* A backend that goes on and changes no file.
LEMMA GoesOn ==
  ASSUME Demo!DemoInstallAssumption, DemoInv, NEW p \in Backend, NEW at \in Places,
         Demo!Go(p, at), UNCHANGED <<target, staging>>,
         at \in Owning => backends[p].mine,
         backends[p].mine => at \in Owning \union {"cleanup"},
         at # "build",
         at \in {"check", "retarget"} => staging = Made(Built(SourceOf[p], Demo!Stages + 1)),
         at \in {"recheck", "replace"} => staging = Made(Demo!Installed(SourceOf[p])),
         at \notin {"idle", "refused"} => SourceOf[p] \in Sound,
         at \in Recognizing => target.w.marker = SourceOf[p],
         at = "serving" => Demo!Complete(target.w, SourceOf[p]) /\ ~target.foreign
  PROVE  Keeps
<1>1. PICK b \in BackendState : b = backends[p]
  BY DEF DemoInv
<1>2. PICK s : s = [b EXCEPT !.at = at]
  OBVIOUS
<1>3. s \in BackendState /\ s.at = at /\ s.mine = b.mine
  BY <1>1, <1>2 DEF BackendState
<1>4. backends' = [backends EXCEPT ![p] = s]
  BY <1>1, <1>2 DEF Demo!Go, DemoInv
<1>5. StagingGood(staging) /\ RootGood(target) /\ BackendGood(p, b, staging, target)
  BY <1>1 DEF DemoInv
<1>6. BackendGood(p, s, staging, target)
  BY <1>1, <1>3, <1>5 DEF BackendGood
<1>7. AppearsWhole /\ OthersKept
  BY DEF AppearsWhole, OthersKept
<1>8. s.mine => backends[p].mine
  BY <1>1, <1>3
<1> QED
  BY <1>3, <1>4, <1>5, <1>6, <1>7, <1>8, DemoStep

LEMMA BackendIs ==
  ASSUME DemoInv, NEW p \in Backend
  PROVE  /\ backends[p] \in BackendState /\ BackendGood(p, backends[p], staging, target)
         /\ backends \in [Backend -> BackendState] /\ RootGood(target) /\ StagingGood(staging)
         /\ target.foreign \in BOOLEAN /\ target.there \in BOOLEAN /\ target.w \in Parts
BY DEF DemoInv, RootGood

\* A workspace that is changed where it is.
LEMMA InPlace ==
  ASSUME RootGood(target), target.w.marker # "none", NEW w \in Parts,
         w.marker = target.w.marker
  PROVE  LET tg == [target EXCEPT !.w = w]
         IN  RootGood(tg) /\ tg.w = w /\ tg.foreign = target.foreign /\ target.w # Demo!NoParts
<1>1. target.w # Demo!NoParts /\ target # Demo!Gone
  BY DEF Demo!NoParts, Demo!Gone
<1> QED
  BY <1>1 DEF RootGood

LEMMA StartKeeps ==
  ASSUME Demo!DemoInstallAssumption, DemoInv, NEW p \in Backend, Demo!Start(p)
  PROVE  Keeps
<1>1. PICK at : at = IF SourceOf[p] \in Sound THEN "inspect" ELSE "refused"
  OBVIOUS
<1>2. backends[p].at \in {"idle", "refused"} /\ Demo!Go(p, at) /\ UNCHANGED <<target, staging>>
  BY <1>1 DEF Demo!Start
<1>3. ~backends[p].mine
  BY <1>2, BackendIs DEF BackendGood, Owning
<1> QED
  BY <1>1, <1>2, <1>3, GoesOn DEF Places, Owning, Recognizing

LEMMA InspectKeeps ==
  ASSUME Demo!DemoInstallAssumption, DemoInv, NEW p \in Backend, Demo!Inspect(p)
  PROVE  Keeps
<1>1. PICK at : at = IF Demo!Entries(target)
                     THEN IF target.w.marker = SourceOf[p] /\ ~target.foreign
                          THEN "upgrade" ELSE "refused"
                     ELSE IF staging.there THEN "refused" ELSE "claim"
  OBVIOUS
<1>2. backends[p].at = "inspect" /\ Demo!Go(p, at) /\ UNCHANGED <<target, staging>>
  BY <1>1 DEF Demo!Inspect, Demo!At
<1>3. ~backends[p].mine /\ SourceOf[p] \in Sound
  BY <1>2, BackendIs DEF BackendGood, Owning
<1>4. at \in {"upgrade", "refused", "claim"} /\ (at = "upgrade" => target.w.marker = SourceOf[p])
  BY <1>1
<1> QED
  BY <1>2, <1>3, <1>4, GoesOn DEF Places, Owning, Recognizing

LEMMA ValidateKeeps ==
  ASSUME Demo!DemoInstallAssumption, DemoInv, NEW p \in Backend, Demo!Validate(p)
  PROVE  Keeps
<1>1. PICK at : at = IF Demo!InstalledValid(target.w, SourceOf[p], "target", FALSE)
                     THEN "verify" ELSE "refused"
  OBVIOUS
<1>2. backends[p].at = "validate" /\ Demo!Go(p, at) /\ UNCHANGED <<target, staging>>
  BY <1>1 DEF Demo!Validate, Demo!At
<1>3. ~backends[p].mine /\ SourceOf[p] \in Sound /\ target.w.marker = SourceOf[p]
  BY <1>2, BackendIs DEF BackendGood, Owning, Recognizing
<1>4. at \in {"verify", "refused"}
  BY <1>1
<1> QED
  BY <1>2, <1>3, <1>4, GoesOn DEF Places, Owning, Recognizing

LEMMA CheckFreshKeeps ==
  ASSUME Demo!DemoInstallAssumption, DemoInv, NEW p \in Backend, Demo!CheckFresh(p)
  PROVE  Keeps
<1>1. PICK at : at = IF Demo!InstalledValid(staging.w, SourceOf[p], "staging", TRUE)
                     THEN "retarget" ELSE "cleanup"
  OBVIOUS
<1>2. backends[p].at = "check" /\ Demo!Go(p, at) /\ UNCHANGED <<target, staging>>
  BY <1>1 DEF Demo!CheckFresh, Demo!At
<1>3. /\ backends[p].mine /\ SourceOf[p] \in Sound
      /\ staging = Made(Built(SourceOf[p], Demo!Stages + 1))
  BY <1>2, BackendIs DEF BackendGood, Owning
<1>4. at \in {"retarget", "cleanup"}
  BY <1>1
<1> QED
  BY <1>2, <1>3, <1>4, GoesOn DEF Places, Owning, Recognizing

LEMMA VerifyKeeps ==
  ASSUME Demo!DemoInstallAssumption, DemoInv, NEW p \in Backend, Demo!Verify(p)
  PROVE  Keeps
<1>1. PICK at : at = IF target.there /\ ~target.foreign /\ Demo!VerifiedValid(target.w)
                     THEN "serving" ELSE "refused"
  OBVIOUS
<1>2. backends[p].at = "verify" /\ Demo!Go(p, at) /\ UNCHANGED <<target, staging>>
  BY <1>1 DEF Demo!Verify, Demo!At
<1>3. ~backends[p].mine /\ SourceOf[p] \in Sound /\ target.w.marker = SourceOf[p]
  BY <1>2, BackendIs DEF BackendGood, Owning, Recognizing
<1>4. at \in {"serving", "refused"}
  BY <1>1
<1>5. ASSUME at = "serving" PROVE Demo!Complete(target.w, SourceOf[p]) /\ ~target.foreign
  <2>1. PICK w : w = target.w
    OBVIOUS
  <2>2. Demo!VerifiedValid(w) /\ ~target.foreign /\ w.marker = SourceOf[p]
    BY <1>1, <1>3, <1>5, <2>1
  <2>3. w.signals \in 1..Page /\ Page \in Nat
    BY <2>2 DEF Demo!VerifiedValid, Demo!JourneysValid, Demo!OrdersValid,
                Demo!DemoInstallAssumption
  <2>4. /\ w.account = Demo!SeededHead /\ w.market = Demo!SeededPosition
        /\ w.review # "none" /\ w.orders # "none" /\ w.runtime # "none"
    BY <2>2 DEF Demo!VerifiedValid, Demo!JourneysValid, Demo!ReviewValid, Demo!AccountValid,
                Demo!MarketValid, Demo!ManualValid, Demo!RuntimeValid
  <2>5. /\ w.research = w.marker /\ w.evidence = w.marker /\ w.jobs = w.marker
        /\ w.descriptor = w.marker /\ w.paper = "target" /\ w.rev = Demo!Newest
    BY <2>2 DEF Demo!VerifiedValid, Demo!DescriptorValid
  <2>6. Demo!Complete(w, SourceOf[p])
    BY <2>2, <2>3, <2>4, <2>5 DEF Demo!Complete, Demo!SeededHead, Demo!SeededPosition
  <2> QED
    BY <2>1, <2>2, <2>6
<1> QED
  BY <1>2, <1>3, <1>4, <1>5, GoesOn DEF Places, Owning, Recognizing

LEMMA FailKeeps ==
  ASSUME Demo!DemoInstallAssumption, DemoInv, NEW p \in Backend, Demo!Fail(p)
  PROVE  Keeps
<1>1. backends[p].at \in Owning /\ Demo!Go(p, "cleanup") /\ UNCHANGED <<target, staging>>
  BY DEF Demo!Fail, Owning
<1>2. SourceOf[p] \in Sound
  BY <1>1, BackendIs DEF BackendGood, Owning
<1> QED
  BY <1>1, <1>2, GoesOn DEF Places, Owning, Recognizing

LEMMA StopDemoKeeps ==
  ASSUME Demo!DemoInstallAssumption, DemoInv, NEW p \in Backend, Demo!Stop(p)
  PROVE  Keeps
<1>1. backends' = [backends EXCEPT ![p] = Demo!Quit] /\ UNCHANGED <<target, staging>>
  BY DEF Demo!Stop
<1>2. Demo!Quit \in BackendState /\ Demo!Quit.at = "idle" /\ ~Demo!Quit.mine
  BY DEF Demo!Quit, BackendState, Places, Demo!Stages
<1>3. BackendGood(p, Demo!Quit, staging, target)
  BY <1>2 DEF BackendGood, Owning, Recognizing
<1>4. AppearsWhole /\ OthersKept
  BY <1>1 DEF AppearsWhole, OthersKept
<1>5. PICK s : s = Demo!Quit
  OBVIOUS
<1> QED
  BY <1>1, <1>2, <1>3, <1>4, <1>5, BackendIs, DemoStep

\* The staging directory goes from one stage to the next.
LEMMA MadeAnew ==
  ASSUME NEW v, NEW w
  PROVE  [Made(v) EXCEPT !.w = w] = Made(w)
<1>1. PICK t, f : t = TRUE /\ f = FALSE
  OBVIOUS
<1>2. [[there |-> t, foreign |-> f, w |-> v] EXCEPT !.w = w]
        = [there |-> t, foreign |-> f, w |-> w]
  OBVIOUS
<1> QED
  BY <1>1, <1>2, Zenon DEF Made

LEMMA ClaimKeeps ==
  ASSUME Demo!DemoInstallAssumption, DemoInv, NEW p \in Backend, Demo!Claim(p)
  PROVE  Keeps
<1>1. PICK b \in BackendState : b = backends[p]
  BY BackendIs
<1>2. b.at = "claim" /\ ~b.mine /\ SourceOf[p] \in Sound /\ UNCHANGED target
  BY <1>1, BackendIs DEF Demo!Claim, Demo!At, BackendGood, Owning
<1>3. CASE staging.there
  BY <1>1, <1>2, <1>3, GoesOn DEF Demo!Claim, Places, Owning, Recognizing
<1>4. CASE ~staging.there
  <2>1. PICK s : s = [b EXCEPT !.at = "build", !.mine = TRUE, !.stage = 1]
    OBVIOUS
  <2>2. s \in BackendState /\ s.at = "build" /\ s.mine /\ s.stage = 1
    <3>1. PICK e \in BOOLEAN, r \in {0, 9, Demo!Newest} : e = b.emptied /\ r = b.prior
      BY <1>1 DEF BackendState
    <3>2. s = [at |-> "build", stage |-> 1, mine |-> TRUE, emptied |-> e, prior |-> r]
      BY <1>1, <2>1, <3>1 DEF BackendState
    <3>3. "build" \in Places /\ 1 \in 1..Demo!Stages + 1
      BY DEF Places, Owning, Demo!Stages
    <3> QED
      BY <3>1, <3>2, <3>3 DEF BackendState
  <2>3. backends' = [backends EXCEPT ![p] = s] /\ staging' = Demo!Bare
    BY <1>1, <1>4, <2>1, BackendIs DEF Demo!Claim
  <2>4. Demo!Bare = Made(Built(SourceOf[p], 1)) /\ 1 \in 1..Demo!Stages
    <3>1. Demo!NoParts = Built(SourceOf[p], 1)
      BY StagesBuild
    <3> QED
      BY <3>1 DEF Demo!Bare, Made, Demo!Stages
  <2>5. BackendGood(p, s, Demo!Bare, target) /\ StagingGood(Demo!Bare)
    BY <1>2, <2>2, <2>4 DEF BackendGood, StagingGood, Owning, Recognizing, Made
  <2>6. AppearsWhole /\ OthersKept
    BY <1>2 DEF AppearsWhole, OthersKept
  <2>7. PICK st : st = Demo!Bare
    OBVIOUS
  <2> QED
    BY <1>2, <1>4, <2>2, <2>3, <2>5, <2>6, <2>7, BackendIs, DemoStep
<1> QED
  BY <1>3, <1>4

LEMMA BuildKeeps ==
  ASSUME Demo!DemoInstallAssumption, DemoInv, NEW p \in Backend, Demo!Build(p)
  PROVE  Keeps
<1>1. PICK b \in BackendState : b = backends[p]
  BY BackendIs
<1>2. /\ b.at = "build" /\ b.mine /\ SourceOf[p] \in Sound /\ UNCHANGED target
      /\ b.stage \in 1..Demo!Stages /\ staging = Made(Built(SourceOf[p], b.stage))
  BY <1>1, BackendIs DEF Demo!Build, Demo!At, BackendGood, Owning
<1>3. PICK n \in 1..12 : n = b.stage
  BY <1>2 DEF Demo!Stages
<1>4. PICK at : at = IF n = Demo!Stages THEN "check" ELSE "build"
  OBVIOUS
<1>5. PICK s : s = [b EXCEPT !.stage = n + 1, !.at = at]
  OBVIOUS
<1>6. at \in {"check", "build"} /\ n + 1 \in 1..Demo!Stages + 1
      /\ (at = "build" => n + 1 \in 1..Demo!Stages) /\ (at = "check" => n = Demo!Stages)
  BY <1>4 DEF Demo!Stages
<1>7. s \in BackendState /\ s.at = at /\ s.mine /\ s.stage = n + 1
  BY <1>1, <1>2, <1>5, <1>6 DEF BackendState, Places, Owning
<1>8. PICK st : st = Made(Built(SourceOf[p], n + 1))
  OBVIOUS
<1>9. staging' = st
  <2>1. staging' = [staging EXCEPT !.w = Demo!Staged(@, SourceOf[p], n)]
    BY <1>1, <1>3 DEF Demo!Build
  <2>2. staging.w = Built(SourceOf[p], n)
    BY <1>2, <1>3 DEF Made
  <2>3. Demo!Staged(Built(SourceOf[p], n), SourceOf[p], n) = Built(SourceOf[p], n + 1)
    BY StagesBuild DEF Demo!Stages
  <2>4. staging' = [staging EXCEPT !.w = Built(SourceOf[p], n + 1)]
    BY <2>1, <2>2, <2>3
  <2> QED
    BY <1>2, <1>3, <1>8, <2>4, MadeAnew
<1>10. backends' = [backends EXCEPT ![p] = s]
  BY <1>1, <1>3, <1>4, <1>5, BackendIs DEF Demo!Build
<1>11. st.there /\ BackendGood(p, s, st, target)
  BY <1>2, <1>6, <1>7, <1>8 DEF BackendGood, Owning, Recognizing, Made
<1>12. AppearsWhole /\ OthersKept
  BY <1>2 DEF AppearsWhole, OthersKept
<1>13. StagingGood(st) /\ backends[p].mine
  BY <1>1, <1>2, <1>11 DEF StagingGood
<1>14. s.at # "serving"
  BY <1>6, <1>7
<1>15. RootGood(target)
  BY BackendIs
<1> QED
  BY <1>2, <1>7, <1>9, <1>10, <1>11, <1>12, <1>13, <1>14, <1>15, DemoStep

LEMMA RetargetKeeps ==
  ASSUME Demo!DemoInstallAssumption, DemoInv, NEW p \in Backend, Demo!Retarget(p)
  PROVE  Keeps
<1>1. PICK b \in BackendState : b = backends[p]
  BY BackendIs
<1>2. /\ b.at = "retarget" /\ b.mine /\ SourceOf[p] \in Sound /\ UNCHANGED target
      /\ staging = Made(Built(SourceOf[p], Demo!Stages + 1))
  BY <1>1, BackendIs DEF Demo!Retarget, Demo!At, BackendGood, Owning
<1>3. PICK s : s = [b EXCEPT !.at = "recheck"]
  OBVIOUS
<1>4. s \in BackendState /\ s.at = "recheck" /\ s.mine
  BY <1>1, <1>2, <1>3 DEF BackendState, Places, Owning
<1>5. PICK st : st = Made(Demo!Installed(SourceOf[p]))
  OBVIOUS
<1>6. staging' = st
  <2>1. staging' = [staging EXCEPT !.w = Demo!Retargeted(staging.w)]
    BY DEF Demo!Retarget
  <2>2. Demo!Retargeted(staging.w) = Demo!Installed(SourceOf[p])
    BY <1>2, StagesBuild DEF Made
  <2> QED
    BY <1>2, <1>5, <2>1, <2>2, MadeAnew
<1>7. backends' = [backends EXCEPT ![p] = s]
  BY <1>1, <1>3, BackendIs DEF Demo!Retarget, Demo!Go
<1>8. st.there /\ BackendGood(p, s, st, target)
  BY <1>2, <1>4, <1>5 DEF BackendGood, Owning, Recognizing, Made
<1>9. AppearsWhole /\ OthersKept
  BY <1>2 DEF AppearsWhole, OthersKept
<1>10. StagingGood(st) /\ backends[p].mine /\ RootGood(target)
  BY <1>1, <1>2, <1>8, BackendIs DEF StagingGood
<1> QED
  BY <1>2, <1>4, <1>6, <1>7, <1>8, <1>9, <1>10, DemoStep

\* The root is looked at again, and the workspace put in its place.
LEMMA EmptyRoot ==
  ASSUME DemoInv, ~Demo!Entries(target)
  PROVE  ~target.foreign /\ target.w = Demo!NoParts /\ target.w.marker = "none"
<1>1. target.foreign \in BOOLEAN /\ (target.there \/ target = Demo!Gone)
  BY DEF DemoInv, RootGood
<1>2. Demo!NoParts.marker = "none" /\ ~Demo!Gone.foreign /\ Demo!Gone.w = Demo!NoParts
  BY DEF Demo!NoParts, Demo!Gone
<1>3. CASE target.there
  BY <1>1, <1>2, <1>3 DEF Demo!Entries
<1>4. CASE target = Demo!Gone
  BY <1>2, <1>4
<1> QED
  BY <1>1, <1>3, <1>4

LEMMA RootsMade ==
  /\ RootGood(Demo!Gone) /\ RootGood(Demo!Bare)
  /\ Demo!Gone.w = Demo!NoParts /\ Demo!Bare.w = Demo!NoParts /\ Demo!NoParts.marker = "none"
<1>1. Demo!NoParts \in Parts /\ Demo!NoParts.marker = "none"
  BY DEF Demo!NoParts, Parts, Datasets
<1> QED
  BY <1>1 DEF RootGood, Demo!Gone, Demo!Bare

LEMMA RecheckKeeps ==
  ASSUME Demo!DemoInstallAssumption, DemoInv, NEW p \in Backend, Demo!Recheck(p)
  PROVE  Keeps
<1>1. PICK b \in BackendState : b = backends[p]
  BY BackendIs
<1>2. /\ b.at = "recheck" /\ b.mine /\ SourceOf[p] \in Sound /\ UNCHANGED staging
      /\ staging = Made(Demo!Installed(SourceOf[p]))
  BY <1>1, BackendIs DEF Demo!Recheck, Demo!At, BackendGood, Owning
<1>3. CASE Demo!Entries(target)
  BY <1>1, <1>2, <1>3, GoesOn DEF Demo!Recheck, Places, Owning, Recognizing
<1>4. CASE ~Demo!Entries(target)
  <2>1. PICK s : s = [b EXCEPT !.at = "replace", !.emptied = target.there]
    OBVIOUS
  <2>2. s \in BackendState /\ s.at = "replace" /\ s.mine
    BY <1>1, <1>2, <2>1, BackendIs DEF BackendState, Places, Owning
  <2>3. backends' = [backends EXCEPT ![p] = s] /\ target' = Demo!Gone
    BY <1>1, <1>4, <2>1, BackendIs DEF Demo!Recheck
  <2>4. BackendGood(p, s, staging, Demo!Gone)
    BY <1>2, <2>2 DEF BackendGood, Owning, Recognizing, Made
  <2>5. AppearsWhole /\ OthersKept
    BY <1>4, <2>3, EmptyRoot, RootsMade DEF AppearsWhole, OthersKept, Demo!OtherDataset
  <2>6. PICK tg : tg = Demo!Gone
    OBVIOUS
  <2> QED
    BY <1>1, <1>2, <1>4, <2>2, <2>3, <2>4, <2>5, <2>6, BackendIs, EmptyRoot, RootsMade, DemoStep
<1> QED
  BY <1>3, <1>4

LEMMA ReplaceKeeps ==
  ASSUME Demo!DemoInstallAssumption, DemoInv, NEW p \in Backend, Demo!Replace(p)
  PROVE  Keeps
<1>1. PICK b \in BackendState : b = backends[p]
  BY BackendIs
<1>2. /\ b.at = "replace" /\ b.mine /\ SourceOf[p] \in Sound
      /\ staging = Made(Demo!Installed(SourceOf[p]))
  BY <1>1, BackendIs DEF Demo!Replace, Demo!At, BackendGood, Owning
<1>3. CASE Demo!Entries(target)
  BY <1>1, <1>2, <1>3, GoesOn DEF Demo!Replace, Places, Owning, Recognizing
<1>4. CASE ~Demo!Entries(target)
  <2>1. PICK s : s = [b EXCEPT !.at = "verify", !.mine = FALSE]
    OBVIOUS
  <2>2. s \in BackendState /\ s.at = "verify" /\ ~s.mine
    BY <1>1, <2>1 DEF BackendState, Places, Owning, Recognizing
  <2>3. PICK d \in Sound : d = SourceOf[p]
    BY <1>2
  <2>4. PICK tg : tg = Made(Demo!Installed(d))
    OBVIOUS
  <2>5. /\ backends' = [backends EXCEPT ![p] = s] /\ target' = tg /\ staging' = Demo!Gone
    BY <1>1, <1>2, <1>4, <2>1, <2>3, <2>4, BackendIs DEF Demo!Replace
  <2>6. /\ RootGood(tg) /\ tg.w = Demo!Installed(d) /\ tg.w.marker = d
        /\ Demo!Complete(tg.w, d)
    BY <2>4, InstalledIsWhole DEF RootGood, Made
  <2>7. BackendGood(p, s, Demo!Gone, tg) /\ StagingGood(Demo!Gone)
    BY <1>2, <2>2, <2>3, <2>6 DEF BackendGood, StagingGood, Owning, Recognizing
  <2>8. AppearsWhole /\ OthersKept
    BY <1>4, <2>3, <2>5, <2>6, EmptyRoot DEF AppearsWhole, OthersKept, Demo!OtherDataset
  <2>9. PICK st : st = Demo!Gone
    OBVIOUS
  <2> QED
    BY <1>1, <1>2, <1>4, <2>2, <2>5, <2>6, <2>7, <2>8, <2>9, BackendIs, EmptyRoot, DemoStep
<1> QED
  BY <1>3, <1>4

LEMMA CleanupKeeps ==
  ASSUME Demo!DemoInstallAssumption, DemoInv, NEW p \in Backend, Demo!Cleanup(p)
  PROVE  Keeps
<1>1. PICK b \in BackendState : b = backends[p]
  BY BackendIs
<1>2. PICK s : s = [Demo!Quit EXCEPT !.at = "refused"]
  OBVIOUS
<1>3. s \in BackendState /\ s.at = "refused" /\ ~s.mine
  <2>1. s = [at |-> "refused", stage |-> 1, mine |-> FALSE, emptied |-> FALSE,
             prior |-> Demo!Newest]
    BY <1>2 DEF Demo!Quit
  <2>2. "refused" \in Places /\ 1 \in 1..Demo!Stages + 1
    BY DEF Places, Demo!Stages
  <2> QED
    BY <2>1, <2>2 DEF BackendState
<1>4. PICK st : st = IF b.mine THEN Demo!Gone ELSE staging
  OBVIOUS
<1>5. PICK tg : tg = IF b.emptied /\ ~target.there THEN Demo!Bare ELSE target
  OBVIOUS
<1>6. backends' = [backends EXCEPT ![p] = s] /\ staging' = st /\ target' = tg
  BY <1>1, <1>2, <1>4, <1>5 DEF Demo!Cleanup
<1>7. StagingGood(st) /\ (st # staging => b.mine)
  BY <1>4, BackendIs DEF StagingGood
<1>8. tg = target \/ (tg = Demo!Bare /\ ~Demo!Entries(target))
  BY <1>5 DEF Demo!Entries
<1>9. RootGood(tg) /\ (target.w.marker # "none" => tg.w.marker = target.w.marker)
  BY <1>8, BackendIs, EmptyRoot, RootsMade
<1>10. AppearsWhole /\ OthersKept
  BY <1>6, <1>8, EmptyRoot, RootsMade DEF AppearsWhole, OthersKept, Demo!OtherDataset
<1>11. BackendGood(p, s, st, tg)
  BY <1>3 DEF BackendGood, Owning, Recognizing
<1> QED
  BY <1>1, <1>3, <1>6, <1>7, <1>9, <1>10, <1>11, DemoStep

\* What is there is brought forward, and worked in.
LEMMA UpgradeKeeps ==
  ASSUME Demo!DemoInstallAssumption, DemoInv, NEW p \in Backend, Demo!Upgrade(p)
  PROVE  Keeps
<1>1. PICK b \in BackendState : b = backends[p]
  BY BackendIs
<1>2. /\ b.at = "upgrade" /\ ~b.mine /\ SourceOf[p] \in Sound /\ UNCHANGED staging
      /\ target.w.marker = SourceOf[p] /\ SourceOf[p] # "none" /\ SourceOf[p] # Demo!OtherDataset
  BY <1>1, BackendIs DEF Demo!Upgrade, Demo!At, BackendGood, Owning, Recognizing, Demo!DemoInstallAssumption
<1>3. PICK s : s = [b EXCEPT !.at = "reseed", !.prior = target.w.rev]
  OBVIOUS
<1>4. s \in BackendState /\ s.at = "reseed" /\ ~s.mine
  <2>1. target.w.rev \in {0, 9, Demo!Newest}
    BY BackendIs DEF Parts
  <2> QED
    BY <1>1, <1>2, <1>3, <2>1 DEF BackendState, Places, Owning, Recognizing
<1>5. PICK w : w = Demo!UpgradeDatabase(target.w, SourceOf[p])
  OBVIOUS
<1>6. w \in Parts /\ w.marker = target.w.marker
  BY <1>5, BackendIs, PartsStay
<1>7. PICK tg : tg = [target EXCEPT !.w = w]
  OBVIOUS
<1>8. RootGood(tg) /\ tg.w = w /\ tg.foreign = target.foreign /\ target.w # Demo!NoParts
  BY <1>2, <1>6, <1>7, BackendIs, InPlace
<1>9. backends' = [backends EXCEPT ![p] = s] /\ target' = tg
  BY <1>1, <1>3, <1>5, <1>7, BackendIs DEF Demo!Upgrade
<1>10. BackendGood(p, s, staging, tg)
  BY <1>2, <1>4, <1>6, <1>8 DEF BackendGood, Owning, Recognizing
<1>11. AppearsWhole /\ OthersKept
  BY <1>2, <1>8, <1>9 DEF AppearsWhole, OthersKept
<1> QED
  BY <1>1, <1>2, <1>4, <1>6, <1>8, <1>9, <1>10, <1>11, BackendIs, DemoStep

LEMMA ReseedKeeps ==
  ASSUME Demo!DemoInstallAssumption, DemoInv, NEW p \in Backend, Demo!Reseed(p)
  PROVE  Keeps
<1>1. PICK b \in BackendState : b = backends[p]
  BY BackendIs
<1>2. /\ b.at = "reseed" /\ ~b.mine /\ SourceOf[p] \in Sound /\ UNCHANGED staging
      /\ target.w.marker = SourceOf[p] /\ SourceOf[p] # "none" /\ SourceOf[p] # Demo!OtherDataset
  BY <1>1, BackendIs DEF Demo!Reseed, Demo!At, BackendGood, Owning, Recognizing, Demo!DemoInstallAssumption
<1>3. PICK s : s = [b EXCEPT !.at = "validate"]
  OBVIOUS
<1>4. s \in BackendState /\ s.at = "validate" /\ ~s.mine
  BY <1>1, <1>2, <1>3 DEF BackendState, Places, Owning, Recognizing
<1>5. PICK w : w = IF b.prior = 9 THEN Demo!SeedOrders(target.w, SourceOf[p]) ELSE target.w
  OBVIOUS
<1>6. w \in Parts /\ w.marker = target.w.marker
  BY <1>5, BackendIs, PartsStay
<1>7. PICK tg : tg = [target EXCEPT !.w = w]
  OBVIOUS
<1>8. RootGood(tg) /\ tg.w = w /\ tg.foreign = target.foreign /\ target.w # Demo!NoParts
  BY <1>2, <1>6, <1>7, BackendIs, InPlace
<1>9. backends' = [backends EXCEPT ![p] = s] /\ target' = tg
  <2>1. backends' = [backends EXCEPT ![p] = s]
    BY <1>1, <1>3, BackendIs DEF Demo!Reseed, Demo!Go
  <2>2. CASE b.prior = 9
    BY <1>1, <1>5, <1>7, <2>1, <2>2 DEF Demo!Reseed
  <2>3. CASE b.prior # 9
    <3>1. target' = target
      BY <1>1, <2>3 DEF Demo!Reseed
    <3>2. [target EXCEPT !.w = target.w] = target
      BY BackendIs DEF RootGood
    <3> QED
      BY <1>5, <1>7, <2>1, <2>3, <3>1, <3>2
  <2> QED
    BY <2>2, <2>3
<1>10. BackendGood(p, s, staging, tg)
  BY <1>2, <1>4, <1>6, <1>8 DEF BackendGood, Owning, Recognizing
<1>11. AppearsWhole /\ OthersKept
  BY <1>2, <1>8, <1>9 DEF AppearsWhole, OthersKept
<1> QED
  BY <1>1, <1>2, <1>4, <1>6, <1>8, <1>9, <1>10, <1>11, BackendIs, DemoStep

\* Nobody's startup: users, and somebody with files of his own.
LEMMA RootStep ==
  ASSUME Demo!DemoInstallAssumption, DemoInv, UNCHANGED <<staging, backends>>, RootGood(target'),
         target.w.marker # "none" => target'.w.marker = target.w.marker,
         AppearsWhole, OthersKept
  PROVE  Keeps
<1>1. ASSUME NEW p \in Backend PROVE BackendGood(p, backends'[p], staging', target')
  <2>1. BackendGood(p, backends[p], staging, target)
    BY BackendIs
  <2>2. backends[p].at \in Recognizing => target'.w.marker = SourceOf[p]
    BY <2>1 DEF BackendGood, Recognizing, Demo!DemoInstallAssumption
  <2> QED
    BY <2>1, <2>2 DEF BackendGood
<1>2. DemoInv'
  BY <1>1 DEF DemoInv
<1> QED
  BY <1>2 DEF Keeps, OwnersOnly, ServedWhole, DemoInv

LEMMA UseKeeps ==
  ASSUME Demo!DemoInstallAssumption, DemoInv, Demo!Use
  PROVE  Keeps
<1>1. PICK p \in Backend, use \in Demo!Uses :
        backends[p].at = "serving" /\ target' = [target EXCEPT !.w = Demo!Used(@, use)]
  BY DEF Demo!Use, Demo!At
<1>2. /\ target.w.marker = SourceOf[p] /\ SourceOf[p] # "none" /\ SourceOf[p] # Demo!OtherDataset
  BY <1>1, BackendIs DEF BackendGood, Recognizing, Demo!DemoInstallAssumption
<1>3. PICK w : w = Demo!Used(target.w, use)
  OBVIOUS
<1>4. w \in Parts /\ w.marker = target.w.marker
  BY <1>3, BackendIs, UsedStays DEF Demo!DemoInstallAssumption
<1>5. PICK tg : tg = [target EXCEPT !.w = w]
  OBVIOUS
<1>6. target' = tg
  BY <1>1, <1>3, <1>5
<1>7. RootGood(tg) /\ tg.w = w /\ tg.foreign = target.foreign /\ target.w # Demo!NoParts
  BY <1>2, <1>4, <1>5, BackendIs, InPlace
<1>8. AppearsWhole /\ OthersKept
  BY <1>2, <1>6, <1>7 DEF AppearsWhole, OthersKept
<1>9. UNCHANGED <<staging, backends>>
  BY DEF Demo!Use
<1> QED
  BY <1>4, <1>6, <1>7, <1>8, <1>9, RootStep

LEMMA IntrudeKeeps ==
  ASSUME Demo!DemoInstallAssumption, DemoInv, Demo!Intrude
  PROVE  Keeps
<1>1. target' = [target EXCEPT !.there = TRUE, !.foreign = TRUE] /\ UNCHANGED <<staging, backends>>
  BY DEF Demo!Intrude
<1>2. target \in [there : BOOLEAN, foreign : BOOLEAN, w : Parts] /\ RootGood(target)
  BY DEF DemoInv, RootGood
<1>3. target' = [there |-> TRUE, foreign |-> TRUE, w |-> target.w]
  <2>1. PICK w \in Parts, t \in BOOLEAN, f \in BOOLEAN :
          target = [there |-> t, foreign |-> f, w |-> w]
    BY <1>2
  <2> HIDE DEF Parts
  <2> QED
    BY <1>1, <2>1
<1>4. RootGood(target') /\ target'.w = target.w /\ target'.foreign
  BY <1>2, <1>3 DEF RootGood
<1> QED
  BY <1>1, <1>4, RootStep DEF AppearsWhole, OthersKept

-----------------------------------------------------------------------------
(* Demo installations: every behaviour.                                       *)

LEMMA DemoStarts ==
  ASSUME Demo!DemoInstallAssumption, Demo!Init
  PROVE  DemoInv
<1>1. backends = [p \in Backend |-> Demo!Quit] /\ staging = Demo!Gone
  BY DEF Demo!Init
<1>2. Demo!Quit \in BackendState /\ Demo!Quit.at = "idle" /\ ~Demo!Quit.mine
  BY DEF Demo!Quit, BackendState, Places, Demo!Stages
<1>3. ASSUME NEW w \in Parts, w.marker # "none", target = Made(w)
      PROVE  RootGood(target)
  BY <1>3 DEF RootGood, Made
<1>4. RootGood(target)
  <2>1. CASE target = Demo!Gone \/ target = Demo!Bare
    BY <2>1, RootsMade
  <2>2. CASE target = [Demo!Bare EXCEPT !.foreign = TRUE]
    <3>1. target = [there |-> TRUE, foreign |-> TRUE, w |-> Demo!NoParts]
      BY <2>2 DEF Demo!Bare
    <3>2. Demo!NoParts \in Parts
      BY DEF Demo!NoParts, Parts, Datasets
    <3> QED
      BY <3>1, <3>2 DEF RootGood
  <2>3. ASSUME NEW w, target = [Demo!Bare EXCEPT !.w = w]
        PROVE  target = Made(w)
    <3>1. Demo!Bare = Made(Demo!NoParts)
      BY DEF Demo!Bare, Made
    <3> QED
      BY <2>3, <3>1, MadeAnew
  <2>4. CASE target = [Demo!Bare EXCEPT !.w = Demo!Installed(Demo!OtherDataset)]
    <3>1. Demo!Installed(Demo!OtherDataset) \in Parts
      BY DEF Demo!Installed, Parts, Datasets
    <3>2. Demo!Installed(Demo!OtherDataset).marker = "another"
      BY DEF Demo!Installed, Demo!OtherDataset
    <3> QED
      BY <1>3, <2>3, <2>4, <3>1, <3>2
  <2>5. CASE target = [Demo!Bare EXCEPT !.w = Demo!Old(CHOOSE d \in Sound : TRUE)]
    <3>1. PICK d \in Sound : d = CHOOSE e \in Sound : TRUE
      BY DEF Demo!DemoInstallAssumption
    <3>2. Demo!Installed(d) \in Parts /\ Demo!Installed(d).marker = d /\ d # "none"
      BY InstalledIsWhole
    <3>3. PICK w \in Parts : w = Demo!Installed(d)
      BY <3>2
    <3>4. PICK old : old = [w EXCEPT !.rev = 9, !.signals = 0, !.orders = "none",
                                     !.runtime = "none"]
      OBVIOUS
    <3>5. old \in Parts /\ old.marker = w.marker
      <4>1. PICK w1 : w1 = [w EXCEPT !.rev = 9]
        OBVIOUS
      <4>2. w1 \in Parts /\ w1.marker = w.marker
        BY <3>3, <4>1 DEF Parts
      <4>3. PICK w2 : w2 = [w1 EXCEPT !.signals = 0]
        OBVIOUS
      <4>4. w2 \in Parts /\ w2.marker = w.marker
        BY <4>2, <4>3 DEF Parts
      <4>5. PICK w3 : w3 = [w2 EXCEPT !.orders = "none"]
        OBVIOUS
      <4>6. w3 \in Parts /\ w3.marker = w.marker
        BY <4>4, <4>5 DEF Parts
      <4>7. old = [w3 EXCEPT !.runtime = "none"]
        BY <3>4, <4>1, <4>3, <4>5
      <4> QED
        BY <4>6, <4>7 DEF Parts
    <3>6. old = Demo!Old(d)
      BY <3>3, <3>4 DEF Demo!Old
    <3> QED
      BY <1>3, <2>3, <2>5, <3>1, <3>2, <3>3, <3>5, <3>6
  <2> QED
    BY <2>1, <2>2, <2>4, <2>5 DEF Demo!Init
<1>5. \A p \in Backend : BackendGood(p, backends[p], staging, target)
  BY <1>1, <1>2 DEF BackendGood, Owning, Recognizing
<1>6. \A p, q \in Backend : backends[p].mine /\ backends[q].mine => p = q
  BY <1>1, <1>2
<1>7. backends \in [Backend -> BackendState] /\ StagingGood(staging)
  BY <1>1, <1>2 DEF StagingGood
<1> QED
  BY <1>4, <1>5, <1>6, <1>7 DEF DemoInv

LEMMA DemoGoesOn ==
  ASSUME Demo!DemoInstallAssumption, DemoInv, [Demo!Next]_(Demo!vars)
  PROVE  Keeps
<1>1. ASSUME NEW p \in Backend, Demo!Step(p) PROVE Keeps
  <2> USE DEF Demo!Step
  <2> QED
    BY <1>1, StartKeeps, InspectKeeps, UpgradeKeeps, ReseedKeeps, ValidateKeeps, ClaimKeeps,
       BuildKeeps, CheckFreshKeeps, RetargetKeeps, RecheckKeeps, ReplaceKeeps, CleanupKeeps,
       VerifyKeeps
<1>2. CASE UNCHANGED Demo!vars
  <2>1. UNCHANGED <<target, staging, backends>>
    BY <1>2 DEF Demo!vars
  <2>2. AppearsWhole /\ OthersKept /\ RootGood(target')
    BY <2>1 DEF AppearsWhole, OthersKept, DemoInv
  <2> QED
    BY <2>1, <2>2, RootStep
<1>3. CASE Demo!Next
  BY <1>1, <1>3, FailKeeps, StopDemoKeeps, IntrudeKeeps, UseKeeps DEF Demo!Next
<1> QED
  BY <1>2, <1>3

\* However many backends start on one root, fail and are stopped between which stages, and
\* whatever others put there or users do in it: an installation appears in the root whole or
\* not at all, what others keep there stays, a staging directory has one owner, and a backend
\* goes into service only on a whole installation of its own dataset.
THEOREM Installations ==
  ASSUME Demo!DemoInstallAssumption
  PROVE  Demo!Spec =>
           Demo!AllOrNothing /\ Demo!OthersStay /\ Demo!StagingOwned /\ Demo!ServesWhole
<1>1. Demo!Init => DemoInv
  BY DemoStarts
<1>2. DemoInv /\ [Demo!Next]_(Demo!vars) => DemoInv'
  BY DemoGoesOn DEF Keeps
<1>3. DemoInv /\ [Demo!Next]_(Demo!vars) =>
        (target.w = Demo!NoParts /\ target'.w # Demo!NoParts =>
           \E p \in Backend : Demo!Complete(target'.w, SourceOf[p]))
  BY DemoGoesOn DEF Keeps, AppearsWhole
<1>4. DemoInv /\ [Demo!Next]_(Demo!vars) =>
        /\ target.foreign => target'.foreign
        /\ target.w.marker = Demo!OtherDataset => target'.w = target.w
  BY DemoGoesOn DEF Keeps, OthersKept
<1>5. DemoInv /\ [Demo!Next]_(Demo!vars) =>
        /\ \A p, q \in Backend : backends'[p].mine /\ backends'[q].mine => p = q
        /\ staging' # staging => \E p \in Backend : backends[p].mine \/ backends'[p].mine
  BY DemoGoesOn DEF Keeps, OwnersOnly
<1>6. DemoInv /\ [Demo!Next]_(Demo!vars) =>
        (\A p \in Backend : ~Demo!At(p, "serving") /\ backends'[p].at = "serving" =>
           Demo!Complete(target.w, SourceOf[p]) /\ ~target.foreign)
  BY DemoGoesOn DEF Keeps, ServedWhole, Demo!At
<1>7. Demo!Spec => Demo!AllOrNothing
  BY <1>1, <1>2, <1>3, PTL DEF Demo!Spec, Demo!AllOrNothing
<1>8. Demo!Spec => Demo!OthersStay
  BY <1>1, <1>2, <1>4, PTL DEF Demo!Spec, Demo!OthersStay
<1>9. Demo!Spec => Demo!StagingOwned
  BY <1>1, <1>2, <1>5, PTL DEF Demo!Spec, Demo!StagingOwned
<1>10. Demo!Spec => Demo!ServesWhole
  BY <1>1, <1>2, <1>6, PTL DEF Demo!Spec, Demo!ServesWhole
<1> QED
  BY <1>7, <1>8, <1>9, <1>10

\* A workspace tells of the uses that no validator foresees, and nothing ever hides them.
Told(w, told) ==
  /\ told \subseteq {"deposit", "reorder", "bypass"}
  /\ "deposit" \in told <=> w.account = Demo!SeededHead + 1
  /\ "reorder" \in told <=> w.orders = "amiss"
  /\ "bypass" \in told <=> w.runtime = "amiss"

LEMMA NothingToTell ==
  /\ Told(Demo!NoParts, {}) /\ \A d : Told(Demo!Installed(d), {})
  /\ \A told : Told(Demo!NoParts, told) => told = {}
<1>1. Told(Demo!NoParts, {})
  BY DEF Told, Demo!NoParts, Demo!SeededHead
<1>2. \A d : Told(Demo!Installed(d), {})
  BY DEF Told, Demo!Installed, Demo!SeededHead
<1>3. ASSUME NEW told, Told(Demo!NoParts, told) PROVE told = {}
  BY <1>3 DEF Told, Demo!NoParts, Demo!SeededHead
<1> QED
  BY <1>1, <1>2, <1>3

LEMMA ToldStarts ==
  ASSUME Demo!DemoInstallAssumption, Demo!Init
  PROVE  Told(target.w, surprises)
<1>1. Demo!Gone.w = Demo!NoParts /\ Demo!Bare.w = Demo!NoParts
  BY DEF Demo!Gone, Demo!Bare
<1>2. ASSUME NEW d PROVE Told(Demo!Old(d), {})
  <2>1. PICK w : w = Demo!Installed(d)
    OBVIOUS
  <2>2. {"account", "orders", "runtime"} \subseteq DOMAIN w /\ w.account = Demo!SeededHead
    BY <2>1 DEF Demo!Installed
  <2>3. PICK w1 : w1 = [w EXCEPT !.rev = 9]
    OBVIOUS
  <2>4. PICK w2 : w2 = [w1 EXCEPT !.signals = 0]
    OBVIOUS
  <2>5. PICK w3 : w3 = [w2 EXCEPT !.orders = "none"]
    OBVIOUS
  <2>6. Demo!Old(d) = [w3 EXCEPT !.runtime = "none"]
    BY <2>1, <2>3, <2>4, <2>5 DEF Demo!Old
  <2>7. w1.account = w.account /\ {"account", "orders", "runtime"} \subseteq DOMAIN w1
    BY <2>2, <2>3
  <2>8. w2.account = w.account /\ {"account", "orders", "runtime"} \subseteq DOMAIN w2
    BY <2>4, <2>7
  <2>9. /\ w3.account = w.account /\ w3.orders = "none"
        /\ {"account", "orders", "runtime"} \subseteq DOMAIN w3
    BY <2>5, <2>8
  <2>10. PICK w4 : w4 = Demo!Old(d)
    OBVIOUS
  <2>11. w4.account = Demo!SeededHead /\ w4.orders = "none" /\ w4.runtime = "none"
    BY <2>2, <2>6, <2>9, <2>10
  <2> QED
    BY <2>10, <2>11 DEF Told, Demo!SeededHead
<1>3. ASSUME NEW w PROVE [Demo!Bare EXCEPT !.w = w].w = w
  BY DEF Demo!Bare
<1>4. [Demo!Bare EXCEPT !.foreign = TRUE].w = Demo!NoParts
  BY DEF Demo!Bare
<1>5. \/ target = Demo!Gone \/ target = Demo!Bare
      \/ target = [Demo!Bare EXCEPT !.foreign = TRUE]
      \/ \E d : target = [Demo!Bare EXCEPT !.w = Demo!Installed(d)]
      \/ \E d : target = [Demo!Bare EXCEPT !.w = Demo!Old(d)]
  BY Zenon DEF Demo!Init
<1>6. Told(target.w, {})
  <2>1. CASE \E d : target = [Demo!Bare EXCEPT !.w = Demo!Installed(d)]
    BY <1>3, <2>1, NothingToTell
  <2>2. CASE \E d : target = [Demo!Bare EXCEPT !.w = Demo!Old(d)]
    BY <1>2, <1>3, <2>2
  <2> QED
    BY <1>1, <1>4, <1>5, <2>1, <2>2, NothingToTell
<1>7. surprises = {}
  BY DEF Demo!Init
<1> QED
  BY <1>6, <1>7

LEMMA UseTells ==
  ASSUME NEW w \in Parts, NEW use \in Demo!Uses, NEW told, Told(w, told)
  PROVE  Told(Demo!Used(w, use), told \union ({use} \ Demo!Expected))
<1> PICK v : v = Demo!Used(w, use)
  OBVIOUS
<1> PICK new : new = told \union ({use} \ Demo!Expected)
  OBVIOUS
<1>1. ASSUME use \in Demo!Expected, v.account = w.account,
             v.orders = "amiss" <=> w.orders = "amiss",
             v.runtime = "amiss" <=> w.runtime = "amiss"
      PROVE  Told(v, new)
  <2>1. new = told
    BY <1>1
  <2> QED
    BY <1>1, <2>1 DEF Told
<1>2. CASE use = "decide"
  <2>1. v.account = w.account /\ v.orders = w.orders /\ v.runtime = w.runtime
    BY <1>2 DEF Parts, Demo!Used
  <2> QED
    BY <1>1, <1>2, <2>1 DEF Demo!Expected
<1>3. CASE use = "deposit"
  <2>1. /\ v.account = Demo!SeededHead + 1 /\ v.orders = w.orders
        /\ v.runtime = w.runtime
    BY <1>3 DEF Parts, Demo!Used
  <2>2. new = told \union {"deposit"}
    BY <1>3 DEF Demo!Expected
  <2> QED
    BY <2>1, <2>2 DEF Told
<1>4. CASE use = "order"
  <2>1. PICK o : o = IF w.orders = "fresh" THEN "ordered" ELSE w.orders
    OBVIOUS
  <2>2. v = [w EXCEPT !.orders = o]
    BY <1>4, <2>1 DEF Demo!Used
  <2>3. v.account = w.account /\ v.orders = o /\ v.runtime = w.runtime
    BY <2>2 DEF Parts
  <2> QED
    BY <1>1, <1>4, <2>1, <2>3 DEF Demo!Expected
<1>5. CASE use = "reorder"
  <2>1. v.account = w.account /\ v.orders = "amiss" /\ v.runtime = w.runtime
    BY <1>5 DEF Parts, Demo!Used
  <2>2. new = told \union {"reorder"}
    BY <1>5 DEF Demo!Expected
  <2> QED
    BY <2>1, <2>2 DEF Told
<1>6. CASE use = "work"
  <2>1. PICK r : r = IF w.runtime = "fresh" THEN "worked" ELSE w.runtime
    OBVIOUS
  <2>2. v = [w EXCEPT !.runtime = r]
    BY <1>6, <2>1 DEF Demo!Used
  <2>3. v.account = w.account /\ v.orders = w.orders /\ v.runtime = r
    BY <2>2 DEF Parts
  <2> QED
    BY <1>1, <1>6, <2>1, <2>3 DEF Demo!Expected
<1>7. CASE use = "bypass"
  <2>1. v.account = w.account /\ v.orders = w.orders /\ v.runtime = "amiss"
    BY <1>7 DEF Parts, Demo!Used
  <2>2. new = told \union {"bypass"}
    BY <1>7 DEF Demo!Expected
  <2> QED
    BY <2>1, <2>2 DEF Told
<1>8. CASE use = "signal"
  <2>1. PICK n : n = IF w.signals <= Page THEN w.signals + 1 ELSE w.signals
    OBVIOUS
  <2>2. v = [w EXCEPT !.signals = n]
    BY <1>8, <2>1 DEF Demo!Used
  <2>3. v.account = w.account /\ v.orders = w.orders /\ v.runtime = w.runtime
    BY <2>2 DEF Parts
  <2> QED
    BY <1>1, <1>8, <2>3 DEF Demo!Expected
<1> QED
  BY <1>2, <1>3, <1>4, <1>5, <1>6, <1>7, <1>8 DEF Demo!Uses

LEMMA ToldStays ==
  ASSUME Demo!DemoInstallAssumption, DemoInv, Told(target.w, surprises),
         [Demo!Next]_(Demo!vars)
  PROVE  Told(target'.w, surprises')
<1>1. target \in [there : BOOLEAN, foreign : BOOLEAN, w : Parts] /\ target.w \in Parts
  BY DEF DemoInv, RootGood
<1>2. ASSUME NEW w, target' = [target EXCEPT !.w = w]
      PROVE  target'.w = w
  <2> HIDE DEF Parts
  <2> QED
    BY <1>1, <1>2
<1>3. ASSUME NEW w, target.w = Demo!NoParts, surprises' = surprises, target'.w = w, Told(w, {})
      PROVE  Told(target'.w, surprises')
  <2>1. Told(Demo!NoParts, surprises)
    BY <1>3
  <2>2. surprises = {}
    BY <2>1, NothingToTell
  <2> QED
    BY <1>3, <2>2
<1>4. ASSUME NEW p \in Backend, Demo!Step(p) \/ Demo!Fail(p) \/ Demo!Stop(p)
      PROVE  Told(target'.w, surprises')
  <2>1. surprises' = surprises
    BY <1>4 DEF Demo!Step, Demo!Start, Demo!Inspect, Demo!Upgrade, Demo!Reseed,
       Demo!Validate, Demo!Claim, Demo!Build, Demo!CheckFresh, Demo!Retarget, Demo!Recheck,
       Demo!Replace, Demo!Cleanup, Demo!Verify, Demo!Fail, Demo!Stop, Demo!Quiet
  <2>2. CASE UNCHANGED target
    BY <2>1, <2>2
  <2>3. CASE Demo!Upgrade(p)
    <3>1. PICK w : w = Demo!UpgradeDatabase(target.w, SourceOf[p])
      OBVIOUS
    <3>2. target'.w = w
      BY <1>2, <2>3, <3>1 DEF Demo!Upgrade
    <3>3. w.account = target.w.account /\ w.orders = target.w.orders /\ w.runtime = target.w.runtime
      BY <1>1, <3>1 DEF Parts, Demo!UpgradeDatabase
    <3> QED
      BY <2>1, <3>2, <3>3 DEF Told
  <2>4. CASE Demo!Reseed(p) /\ target' # target
    <3>1. PICK w : w = Demo!SeedOrders(target.w, SourceOf[p])
      OBVIOUS
    <3>2. target'.w = w
      BY <1>2, <2>4, <3>1 DEF Demo!Reseed
    <3>3. w.account = target.w.account /\ w.orders = target.w.orders /\ w.runtime = target.w.runtime
      BY <1>1, <3>1 DEF Parts, Demo!SeedOrders
    <3> QED
      BY <2>1, <3>2, <3>3 DEF Told
  <2>5. CASE Demo!Recheck(p) /\ target' # target
    <3>1. ~Demo!Entries(target) /\ target' = Demo!Gone
      BY <2>5 DEF Demo!Recheck
    <3> QED
      BY <1>3, <2>1, <3>1, EmptyRoot, RootsMade, NothingToTell
  <2>6. CASE Demo!Replace(p) /\ target' # target
    <3>1. backends[p].at = "replace" /\ ~Demo!Entries(target) /\ target' = staging
      BY <2>6 DEF Demo!Replace, Demo!At
    <3>2. staging = Made(Demo!Installed(SourceOf[p]))
      BY <3>1, BackendIs DEF BackendGood
    <3>3. target'.w = Demo!Installed(SourceOf[p])
      BY <3>1, <3>2 DEF Made
    <3> QED
      BY <1>3, <2>1, <3>1, <3>3, EmptyRoot, NothingToTell
  <2>7. CASE Demo!Cleanup(p) /\ target' # target
    <3>1. ~target.there /\ target' = Demo!Bare
      BY <2>7 DEF Demo!Cleanup
    <3>2. target = Demo!Gone
      BY <3>1 DEF DemoInv, RootGood
    <3> QED
      BY <1>3, <2>1, <3>1, <3>2, RootsMade, NothingToTell
  <2> QED
    BY <1>4, <2>2, <2>3, <2>4, <2>5, <2>6, <2>7
       DEF Demo!Step, Demo!Start, Demo!Inspect, Demo!Validate, Demo!Claim, Demo!Build,
           Demo!CheckFresh, Demo!Retarget, Demo!Verify, Demo!Fail, Demo!Stop
<1>5. CASE Demo!Intrude
  <2>1. target' = [target EXCEPT !.there = TRUE, !.foreign = TRUE] /\ surprises' = surprises
    BY <1>5 DEF Demo!Intrude
  <2>2. PICK t : t = [target EXCEPT !.there = TRUE]
    OBVIOUS
  <2> HIDE DEF Parts
  <2>3. t \in [there : BOOLEAN, foreign : BOOLEAN, w : Parts] /\ t.w = target.w
    BY <1>1, <2>2
  <2>4. target' = [t EXCEPT !.foreign = TRUE]
    BY <2>1, <2>2
  <2>5. target'.w = target.w
    BY <2>3, <2>4
  <2> QED
    BY <2>1, <2>5
<1>6. CASE Demo!Use
  <2>1. PICK use \in Demo!Uses :
          /\ target' = [target EXCEPT !.w = Demo!Used(target.w, use)]
          /\ surprises' = surprises \union ({use} \ Demo!Expected)
    BY <1>6 DEF Demo!Use
  <2>2. target'.w = Demo!Used(target.w, use)
    BY <1>2, <2>1
  <2>3. Told(Demo!Used(target.w, use), surprises \union ({use} \ Demo!Expected))
    BY <1>1, UseTells
  <2> QED
    BY <2>1, <2>2, <2>3
<1>7. CASE UNCHANGED Demo!vars
  BY <1>7 DEF Demo!vars
<1> QED
  BY <1>4, <1>5, <1>6, <1>7 DEF Demo!Next

\* A whole installation is valid, for the startup and for service, if and only if it tells
\* of no surprise and its seeded signal is still on the first page.
LEMMA WholeIsValid ==
  ASSUME Demo!DemoInstallAssumption, NEW w \in Parts, Told(w, {}), w.signals <= Page,
         NEW d \in Sound, Demo!Complete(w, d)
  PROVE  Demo!InstalledValid(w, d, "target", FALSE) /\ Demo!VerifiedValid(w)
<1>1. w.review \in {"awaiting", "decided"} /\ w.orders \in {"fresh", "ordered"}
      /\ w.runtime \in {"fresh", "worked"} /\ w.market = Demo!SeededPosition
  BY DEF Parts, Told, Demo!Complete, Demo!SeededPosition
<1>2. w.account = Demo!SeededHead
  BY DEF Parts, Told, Demo!Complete, Demo!SeededHead
<1>3. w.signals \in 1..Page
  BY DEF Parts, Demo!Complete, Demo!DemoInstallAssumption
<1>4. Demo!JourneysValid(w, FALSE)
  BY <1>1, <1>2, <1>3 DEF Demo!JourneysValid, Demo!ReviewValid, Demo!AccountValid,
     Demo!MarketValid, Demo!OrdersValid, Demo!ManualValid, Demo!RuntimeValid
<1>5. /\ w.research = d /\ w.evidence = d /\ w.jobs = d /\ w.descriptor = d /\ w.marker = d
      /\ w.paper = "target" /\ w.rev = Demo!Newest /\ d # "none"
  BY DEF Demo!Complete, Demo!DemoInstallAssumption
<1> QED
  BY <1>4, <1>5 DEF Demo!InstalledValid, Demo!VerifiedValid, Demo!DescriptorValid

LEMMA SurpriseIsInvalid ==
  ASSUME Demo!DemoInstallAssumption, NEW w, NEW told, Told(w, told), Demo!VerifiedValid(w)
  PROVE  told = {} /\ w.signals <= Page
<1>1. w.account = Demo!SeededHead /\ w.signals \in 1..Page
      /\ w.orders # "amiss" /\ w.runtime # "amiss"
  BY DEF Demo!VerifiedValid, Demo!JourneysValid, Demo!AccountValid, Demo!OrdersValid,
     Demo!ManualValid, Demo!RuntimeValid
<1> QED
  BY <1>1 DEF Told, Demo!SeededHead, Demo!DemoInstallAssumption

\* Where a startup goes that has found something in the root.
LEMMA StartupGoes ==
  ASSUME DemoInv, [Demo!Next]_(Demo!vars),
         NEW p \in Backend, backends[p].at \in {"inspect", "validate", "verify"}
  PROVE  \/ backends'[p].at \in {backends[p].at, "idle"}
         \/ /\ backends'[p].at = "refused"
            /\ ~Demo!Entries(target) \/ target.w.marker # SourceOf[p] \/ target.foreign
         \/ backends'[p].at \in {"upgrade", "claim"}
         \/ /\ backends'[p].at = "verify"
            /\ Demo!InstalledValid(target.w, SourceOf[p], "target", FALSE)
         \/ /\ backends'[p].at = "refused"
            /\ ~Demo!InstalledValid(target.w, SourceOf[p], "target", FALSE)
         \/ backends'[p].at = "serving" /\ Demo!VerifiedValid(target.w)
         \/ /\ backends'[p].at = "refused"
            /\ ~(target.there /\ ~target.foreign /\ Demo!VerifiedValid(target.w))
<1>1. backends \in [Backend -> BackendState]
  BY BackendIs
<1>2. ASSUME NEW q \in Backend, NEW at, Demo!Go(q, at)
      PROVE  q = p => backends'[p].at = at
  <2>1. PICK b \in BackendState : b = backends[q]
    BY <1>1
  <2>2. PICK s : s = [b EXCEPT !.at = at]
    OBVIOUS
  <2>3. s.at = at
    BY <2>1, <2>2 DEF BackendState
  <2>4. backends' = [backends EXCEPT ![q] = s]
    BY <1>1, <1>2, <2>1, <2>2 DEF Demo!Go
  <2> QED
    BY <1>1, <2>3, <2>4
<1>3. ASSUME NEW q \in Backend, q # p, Demo!Step(q) \/ Demo!Fail(q) \/ Demo!Stop(q)
      PROVE  backends'[p] = backends[p]
  BY <1>1, <1>3 DEF Demo!Step, Demo!Start, Demo!Inspect, Demo!Upgrade, Demo!Reseed,
     Demo!Validate, Demo!Claim, Demo!Build, Demo!CheckFresh, Demo!Retarget, Demo!Recheck,
     Demo!Replace, Demo!Cleanup, Demo!Verify, Demo!Fail, Demo!Stop, Demo!Go
<1>4. CASE Demo!Step(p)
  <2>1. Demo!Inspect(p) \/ Demo!Validate(p) \/ Demo!Verify(p)
    BY <1>4 DEF Demo!Step, Demo!Start, Demo!Upgrade, Demo!Reseed, Demo!Claim, Demo!Build,
       Demo!CheckFresh, Demo!Retarget, Demo!Recheck, Demo!Replace, Demo!Cleanup, Demo!At
  <2>2. CASE Demo!Inspect(p)
    <3>1. PICK at : at = IF Demo!Entries(target)
                         THEN IF target.w.marker = SourceOf[p] /\ ~target.foreign
                              THEN "upgrade" ELSE "refused"
                         ELSE IF staging.there THEN "refused" ELSE "claim"
      OBVIOUS
    <3>2. Demo!Go(p, at)
      BY <2>2, <3>1 DEF Demo!Inspect
    <3>3. backends'[p].at = at
      BY <1>2, <3>2
    <3> QED
      BY <3>1, <3>3
  <2>3. CASE Demo!Validate(p)
    <3>1. PICK at : at = IF Demo!InstalledValid(target.w, SourceOf[p], "target", FALSE)
                         THEN "verify" ELSE "refused"
      OBVIOUS
    <3>2. Demo!Go(p, at)
      BY <2>3, <3>1 DEF Demo!Validate
    <3>3. backends'[p].at = at
      BY <1>2, <3>2
    <3> QED
      BY <3>1, <3>3
  <2>4. CASE Demo!Verify(p)
    <3>1. PICK at : at = IF target.there /\ ~target.foreign /\ Demo!VerifiedValid(target.w)
                         THEN "serving" ELSE "refused"
      OBVIOUS
    <3>2. Demo!Go(p, at)
      BY <2>4, <3>1 DEF Demo!Verify
    <3>3. backends'[p].at = at
      BY <1>2, <3>2
    <3> QED
      BY <3>1, <3>3
  <2> QED
    BY <2>1, <2>2, <2>3, <2>4
<1>5. CASE Demo!Stop(p)
  <2>1. backends' = [backends EXCEPT ![p] = Demo!Quit] /\ Demo!Quit.at = "idle"
    BY <1>5 DEF Demo!Stop, Demo!Quit
  <2> QED
    BY <1>1, <2>1
<1>6. ~Demo!Fail(p)
  BY DEF Demo!Fail
<1>7. CASE UNCHANGED backends
  BY <1>7
<1>8. CASE \E q \in Backend : Demo!Step(q) \/ Demo!Fail(q) \/ Demo!Stop(q)
  <2>1. PICK q \in Backend : Demo!Step(q) \/ Demo!Fail(q) \/ Demo!Stop(q)
    BY <1>8
  <2>2. CASE q # p
    BY <1>3, <2>1, <2>2
  <2> QED
    BY <1>4, <1>5, <1>6, <2>1, <2>2
<1> QED
  BY <1>7, <1>8 DEF Demo!Next, Demo!Intrude, Demo!Use, Demo!vars

LEMMA NotRefused ==
  ASSUME Demo!DemoInstallAssumption, DemoInv, Told(target.w, surprises),
         [Demo!Next]_(Demo!vars), surprises = {}, target.w.signals <= Page,
         NEW p \in Backend, backends[p].at \in {"inspect", "validate", "verify"},
         Demo!Complete(target.w, SourceOf[p]), ~target.foreign
  PROVE  backends'[p].at # "refused"
<1>1. SourceOf[p] \in Sound /\ target.w \in Parts
  BY BackendIs DEF BackendGood
<1>2. Demo!InstalledValid(target.w, SourceOf[p], "target", FALSE)
      /\ Demo!VerifiedValid(target.w)
  BY <1>1, WholeIsValid
<1>3. target.there /\ target.w # Demo!NoParts /\ target.w.marker = SourceOf[p]
  <2>1. target.w.marker = SourceOf[p] /\ SourceOf[p] # "none"
    BY <1>1 DEF Demo!Complete, Demo!DemoInstallAssumption
  <2>2. Demo!NoParts.marker = "none" /\ Demo!Gone.w = Demo!NoParts
    BY DEF Demo!NoParts, Demo!Gone
  <2> QED
    BY <2>1, <2>2, BackendIs DEF RootGood
<1>4. Demo!Entries(target)
  BY <1>3 DEF Demo!Entries
<1> QED
  BY <1>2, <1>3, <1>4, StartupGoes

LEMMA NotServed ==
  ASSUME Demo!DemoInstallAssumption, DemoInv, Told(target.w, surprises),
         [Demo!Next]_(Demo!vars), ~(surprises = {} /\ target.w.signals <= Page),
         NEW p \in Backend, backends[p].at \in {"inspect", "validate", "verify"}
  PROVE  backends'[p].at # "serving"
<1>1. ~Demo!VerifiedValid(target.w)
  BY SurpriseIsInvalid
<1> QED
  BY <1>1, StartupGoes

\* What a startup does with a Demo that is installed whole depends on the uses made of it:
\* it is never refused while they are those its validators foresee, and never served after.
THEOREM RestartsServe ==
  ASSUME Demo!DemoInstallAssumption
  PROVE  Demo!Spec => Demo!RestartServes
<1> DEFINE Inv == DemoInv /\ Told(target.w, surprises)
<1>1. Demo!Init => Inv
  BY DemoStarts, ToldStarts
<1>2. Inv /\ [Demo!Next]_(Demo!vars) => Inv'
  BY DemoGoesOn, ToldStays DEF Keeps, Told
<1>3. Inv /\ [Demo!Next]_(Demo!vars) =>
        \A p \in Backend :
          /\ Demo!Complete(target.w, SourceOf[p]) /\ ~target.foreign
          /\ backends[p].at \in {"inspect", "validate", "verify"}
          => IF surprises = {} /\ target.w.signals <= Page
             THEN backends'[p].at # "refused" ELSE backends'[p].at # "serving"
  BY NotRefused, NotServed
<1> QED
  BY <1>1, <1>2, <1>3, PTL DEF Demo!Spec, Demo!RestartServes

\* A Demo keeps all it promises, whatever its users do: it appears whole, is served whole,
\* leaves others alone, and whether it is served again depends on their uses alone.
THEOREM DemosInstallWhole ==
  ASSUME Demo!DemoInstallAssumption
  PROVE  Demo!Spec => DemoInstallsWhole
BY Installations, RestartsServe DEF DemoInstallsWhole, Demo!DemoInstallsWhole

----------------------------------------------------------------------------
(* The upgrade of a workspace (SchemaMigration), for any set of revisions  *)
(* a database with rows may be found at.  First what the twelve revisions  *)
(* make, as sets: the chain is written as lists of statements, and the     *)
(* verifier lists what it asks for apart from it.  Then the invariant: the *)
(* tables of the stamped revisions stand, or the copy that the rebuild of  *)
(* one has made; the rows are in the table, or in the copy once the table  *)
(* is dropped; and how far the revision being applied has come.            *)

Operations == {"table", "guard", "copy", "fill", "drop", "rename", "guard if missing"}
Statement  == [op : Operations, on : Migration!RequiredTables]
Names(s)  == {s[i] : i \in 1..Len(s)}

\* A stretch of a revision makes the tables T and the guards G, each guard after its table.
Builds(s, T, G) ==
  /\ s \in Seq(Statement)
  /\ \A i \in 1..Len(s) :
       \/ s[i].op = "table" /\ s[i].on \in T
       \/ /\ s[i].op = "guard" /\ s[i].on \in G
          /\ \E j \in 1..i - 1 : s[j] = Migration!Table(s[i].on)
  /\ \A t \in T : \E i \in 1..Len(s) : s[i] = Migration!Table(t)
  /\ \A t \in G : \E i \in 1..Len(s) : s[i] = Migration!Guard(t)

\* A statement that makes a table, and one that makes a guard.
LEMMA Singles ==
  ASSUME NEW t \in Migration!RequiredTables
  PROVE  /\ Migration!Table(t) \in Statement /\ Migration!Table(t).op = "table" /\ Migration!Table(t).on = t
         /\ Migration!Guard(t) \in Statement /\ Migration!Guard(t).op = "guard" /\ Migration!Guard(t).on = t
<1>1. PICK s : s = [op |-> "table", on |-> t]
  OBVIOUS
<1>2. s \in Statement /\ s.op = "table" /\ s.on = t
  BY <1>1 DEF Statement, Operations
<1>3. PICK g : g = [op |-> "guard", on |-> t]
  OBVIOUS
<1>4. g \in Statement /\ g.op = "guard" /\ g.on = t
  BY <1>3 DEF Statement, Operations
<1>5. s = Migration!Table(t) /\ g = Migration!Guard(t)
  BY <1>1, <1>3 DEF Migration!Table, Migration!Guard
<1> QED
  BY <1>2, <1>4, <1>5

\* The names a list of two, and of three, holds.
LEMMA TwoNames ==
  ASSUME NEW S, NEW a \in S, NEW b \in S
  PROVE  <<a, b>> \in Seq(S) /\ Len(<<a, b>>) = 2 /\ Names(<<a, b>>) = {a, b}
<1>1. PICK s : s = <<a, b>>
  OBVIOUS
<1>2. s \in Seq(S) /\ Len(s) = 2 /\ s[1] = a /\ s[2] = b
  BY <1>1
<1>3. 1..2 = {1, 2}
  OBVIOUS
<1>4. Names(s) = {a, b}
  BY <1>2, <1>3 DEF Names
<1> QED
  BY <1>1, <1>2, <1>4

LEMMA ThreeNames ==
  ASSUME NEW S, NEW a \in S, NEW b \in S, NEW c \in S
  PROVE  <<a, b, c>> \in Seq(S) /\ Len(<<a, b, c>>) = 3 /\ Names(<<a, b, c>>) = {a, b, c}
<1>1. PICK s : s = <<a, b, c>>
  OBVIOUS
<1>2. s \in Seq(S) /\ Len(s) = 3 /\ s[1] = a /\ s[2] = b /\ s[3] = c
  BY <1>1
<1>3. 1..3 = {1, 2, 3}
  OBVIOUS
<1>4. Names(s) = {a, b, c}
  BY <1>2, <1>3 DEF Names
<1> QED
  BY <1>1, <1>2, <1>4

\* One sequence after another: which place holds what.
LEMMA Concat ==
  ASSUME NEW S, NEW a \in Seq(S), NEW b \in Seq(S)
  PROVE  /\ a \o b \in Seq(S) /\ Len(a \o b) = Len(a) + Len(b) /\ Len(a) \in Nat /\ Len(b) \in Nat
         /\ \A i \in 1..Len(a) : (a \o b)[i] = a[i]
         /\ \A i \in 1..Len(b) : (a \o b)[Len(a) + i] = b[i]
         /\ \A i \in 1..Len(a) + Len(b) : i \in 1..Len(a) \/ \E j \in 1..Len(b) : i = Len(a) + j
<1>1. /\ a \o b \in Seq(S) /\ Len(a \o b) = Len(a) + Len(b) /\ Len(a) \in Nat /\ Len(b) \in Nat
  OBVIOUS
<1>2. \A i \in 1..Len(a) : (a \o b)[i] = a[i]
  BY <1>1
<1>3. \A i \in 1..Len(b) : (a \o b)[Len(a) + i] = b[i]
  BY <1>1
<1>4. ASSUME NEW i \in 1..Len(a) + Len(b), i \notin 1..Len(a)
      PROVE  \E j \in 1..Len(b) : i = Len(a) + j
  <2>1. i - Len(a) \in 1..Len(b) /\ i = Len(a) + (i - Len(a))
    BY <1>1, <1>4
  <2> QED
    BY <2>1
<1> QED
  BY <1>1, <1>2, <1>3, <1>4

\* The names of two lists in a row are those of the one and those of the other.
LEMMA ConcatNames ==
  ASSUME NEW S, NEW a \in Seq(S), NEW b \in Seq(S)
  PROVE  a \o b \in Seq(S) /\ Len(a \o b) = Len(a) + Len(b) /\ Names(a \o b) = Names(a) \union Names(b)
<1>1. PICK c : c = a \o b
  OBVIOUS
<1>2. /\ c \in Seq(S) /\ Len(c) = Len(a) + Len(b) /\ Len(a) \in Nat /\ Len(b) \in Nat
      /\ \A i \in 1..Len(a) : c[i] = a[i]
      /\ \A i \in 1..Len(b) : c[Len(a) + i] = b[i]
      /\ \A i \in 1..Len(a) + Len(b) : i \in 1..Len(a) \/ \E j \in 1..Len(b) : i = Len(a) + j
  BY <1>1, Concat
<1>3. /\ 1..Len(a) \subseteq 1..Len(c)
      /\ \A i \in 1..Len(b) : Len(a) + i \in 1..Len(c)
  BY <1>2
<1>4. Names(c) = Names(a) \union Names(b)
  <2>1. ASSUME NEW i \in 1..Len(c) PROVE c[i] \in Names(a) \union Names(b)
    <3>1. CASE i \in 1..Len(a)
      BY <3>1, <1>2 DEF Names
    <3>2. CASE \E j \in 1..Len(b) : i = Len(a) + j
      BY <3>2, <1>2 DEF Names
    <3> QED
      BY <2>1, <3>1, <3>2, <1>2
  <2>2. ASSUME NEW i \in 1..Len(a) PROVE a[i] \in Names(c)
    BY <1>2, <1>3 DEF Names
  <2>3. ASSUME NEW i \in 1..Len(b) PROVE b[i] \in Names(c)
    BY <1>2, <1>3 DEF Names
  <2>4. Names(c) \subseteq Names(a) \union Names(b)
    BY <2>1 DEF Names
  <2>5. Names(a) \subseteq Names(c)
    BY <2>2 DEF Names
  <2>6. Names(b) \subseteq Names(c)
    BY <2>3 DEF Names
  <2> QED
    BY <2>4, <2>5, <2>6
<1> QED
  BY <1>1, <1>2, <1>4

\* The statements of a list of tables and of the guards of some of them.
LEMMA ListBuilds ==
  ASSUME NEW ts \in Seq(Migration!RequiredTables), NEW gs \in Seq(Migration!RequiredTables), Names(gs) \subseteq Names(ts)
  PROVE  Builds(Migration!Tables(ts) \o Migration!Guards(gs), Names(ts), Names(gs))
<1>a. PICK a : a = Migration!Tables(ts)
  OBVIOUS
<1>b. PICK b : b = Migration!Guards(gs)
  OBVIOUS
<1>1. /\ a \in Seq(Statement) /\ Len(a) = Len(ts) /\ \A i \in 1..Len(ts) : a[i] = Migration!Table(ts[i])
      /\ \A i \in 1..Len(ts) : ts[i] \in Migration!RequiredTables
  <2>1. DOMAIN ts = 1..Len(ts) /\ Len(ts) \in Nat /\ \A i \in 1..Len(ts) : ts[i] \in Migration!RequiredTables
    OBVIOUS
  <2>2. \A i \in 1..Len(ts) : Migration!Table(ts[i]) \in Statement
    BY <2>1, Singles
  <2>3. a = [i \in 1..Len(ts) |-> Migration!Table(ts[i])]
    BY <1>a, <2>1 DEF Migration!Tables
  <2> QED
    BY <2>1, <2>2, <2>3
<1>2. /\ b \in Seq(Statement) /\ Len(b) = Len(gs) /\ \A i \in 1..Len(gs) : b[i] = Migration!Guard(gs[i])
      /\ \A i \in 1..Len(gs) : gs[i] \in Migration!RequiredTables
  <2>1. DOMAIN gs = 1..Len(gs) /\ Len(gs) \in Nat /\ \A i \in 1..Len(gs) : gs[i] \in Migration!RequiredTables
    OBVIOUS
  <2>2. \A i \in 1..Len(gs) : Migration!Guard(gs[i]) \in Statement
    BY <2>1, Singles
  <2>3. b = [i \in 1..Len(gs) |-> Migration!Guard(gs[i])]
    BY <1>b, <2>1 DEF Migration!Guards
  <2> QED
    BY <2>1, <2>2, <2>3
<1>3. PICK c : c = a \o b
  OBVIOUS
<1>4. /\ c \in Seq(Statement) /\ Len(c) = Len(a) + Len(b) /\ Len(a) \in Nat /\ Len(b) \in Nat
      /\ \A i \in 1..Len(a) : c[i] = a[i]
      /\ \A i \in 1..Len(b) : c[Len(a) + i] = b[i]
      /\ \A i \in 1..Len(a) + Len(b) : i \in 1..Len(a) \/ \E j \in 1..Len(b) : i = Len(a) + j
  <2>1. a \in Seq(Statement) /\ b \in Seq(Statement)
    BY <1>1, <1>2
  <2>2. /\ a \o b \in Seq(Statement) /\ Len(a \o b) = Len(a) + Len(b) /\ Len(a) \in Nat /\ Len(b) \in Nat
        /\ \A i \in 1..Len(a) : (a \o b)[i] = a[i]
        /\ \A i \in 1..Len(b) : (a \o b)[Len(a) + i] = b[i]
        /\ \A i \in 1..Len(a) + Len(b) : i \in 1..Len(a) \/ \E j \in 1..Len(b) : i = Len(a) + j
    BY ONLY <2>1, Concat
  <2> QED
    BY ONLY <2>2, <1>3, Zenon
<1>5. 1..Len(a) \subseteq 1..Len(c) /\ \A i \in 1..Len(b) : Len(a) + i \in 1..Len(c) /\ 1..Len(a) \subseteq 1..(Len(a) + i) - 1
  BY <1>4
<1>6. ASSUME NEW i \in 1..Len(c)
      PROVE  \/ c[i].op = "table" /\ c[i].on \in Names(ts)
             \/ /\ c[i].op = "guard" /\ c[i].on \in Names(gs)
                /\ \E j \in 1..i - 1 : c[j] = Migration!Table(c[i].on)
  <2>1. CASE i \in 1..Len(a)
    <3>1. ts[i] \in Migration!RequiredTables /\ ts[i] \in Names(ts) /\ c[i] = Migration!Table(ts[i])
      BY <2>1, <1>1, <1>4 DEF Names
    <3> QED
      BY <3>1, Singles
  <2>2. ASSUME NEW j \in 1..Len(b), i = Len(a) + j PROVE c[i].op = "guard" /\ c[i].on \in Names(gs) /\ \E k \in 1..i - 1 : c[k] = Migration!Table(c[i].on)
    <3>1. gs[j] \in Migration!RequiredTables /\ gs[j] \in Names(gs) /\ c[i] = Migration!Guard(gs[j])
      BY <2>2, <1>2, <1>4 DEF Names
    <3>2. PICK k \in 1..Len(ts) : ts[k] = gs[j]
      BY <3>1 DEF Names
    <3>3. k \in 1..i - 1 /\ c[k] = Migration!Table(gs[j])
      BY <3>2, <2>2, <1>1, <1>4, <1>5
    <3>4. c[i].op = "guard" /\ c[i].on = gs[j]
      BY <3>1, Singles
    <3> QED
      BY <3>1, <3>3, <3>4
  <2> QED
    BY <1>4, <1>6, <2>1, <2>2
<1>7. ASSUME NEW t \in Names(ts) PROVE \E i \in 1..Len(c) : c[i] = Migration!Table(t)
  <2>1. PICK i \in 1..Len(ts) : ts[i] = t
    BY DEF Names
  <2> QED
    BY <2>1, <1>1, <1>4, <1>5
<1>8. ASSUME NEW t \in Names(gs) PROVE \E i \in 1..Len(c) : c[i] = Migration!Guard(t)
  <2>1. PICK i \in 1..Len(gs) : gs[i] = t
    BY DEF Names
  <2> QED
    BY <2>1, <1>2, <1>4, <1>5
<1>9. Builds(c, Names(ts), Names(gs))
  BY <1>4, <1>6, <1>7, <1>8 DEF Builds
<1> QED
  BY <1>a, <1>b, <1>3, <1>9

\* One stretch after another.
LEMMA StretchesBuild ==
  ASSUME NEW a, NEW b, NEW T, NEW U, NEW G, NEW H, Builds(a, T, G), Builds(b, U, H)
  PROVE  Builds(a \o b, T \union U, G \union H)
<1>1. a \in Seq(Statement) /\ b \in Seq(Statement)
  BY DEF Builds
<1>2. PICK c : c = a \o b
  OBVIOUS
<1>3. /\ c \in Seq(Statement) /\ Len(c) = Len(a) + Len(b) /\ Len(a) \in Nat /\ Len(b) \in Nat
      /\ \A i \in 1..Len(a) : c[i] = a[i]
      /\ \A i \in 1..Len(b) : c[Len(a) + i] = b[i]
      /\ \A i \in 1..Len(a) + Len(b) : i \in 1..Len(a) \/ \E j \in 1..Len(b) : i = Len(a) + j
  BY <1>1, <1>2, Concat
<1>4. 1..Len(a) \subseteq 1..Len(c) /\ \A i \in 1..Len(b) : Len(a) + i \in 1..Len(c)
  BY <1>3
<1>5. ASSUME NEW i \in 1..Len(c)
      PROVE  \/ c[i].op = "table" /\ c[i].on \in T \union U
             \/ /\ c[i].op = "guard" /\ c[i].on \in G \union H
                /\ \E j \in 1..i - 1 : c[j] = Migration!Table(c[i].on)
  <2>1. CASE i \in 1..Len(a)
    <3>1. 1..i - 1 \subseteq 1..Len(a)
      BY <2>1, <1>3
    <3>2. \/ a[i].op = "table" /\ a[i].on \in T
          \/ a[i].op = "guard" /\ a[i].on \in G /\ \E j \in 1..i - 1 : a[j] = Migration!Table(a[i].on)
      BY <2>1 DEF Builds
    <3>3. c[i] = a[i] /\ \A j \in 1..i - 1 : c[j] = a[j]
      BY <2>1, <3>1, <1>3
    <3> QED
      BY <3>2, <3>3
  <2>2. ASSUME NEW j \in 1..Len(b), i = Len(a) + j
        PROVE  \/ c[i].op = "table" /\ c[i].on \in T \union U
               \/ /\ c[i].op = "guard" /\ c[i].on \in G \union H
                  /\ \E k \in 1..i - 1 : c[k] = Migration!Table(c[i].on)
    <3>1. c[i] = b[j]
      BY <2>2, <1>3
    <3>2. \/ b[j].op = "table" /\ b[j].on \in U
          \/ b[j].op = "guard" /\ b[j].on \in H /\ \E k \in 1..j - 1 : b[k] = Migration!Table(b[j].on)
      BY DEF Builds
    <3>3. ASSUME NEW k \in 1..j - 1, b[k] = Migration!Table(b[j].on)
          PROVE  Len(a) + k \in 1..i - 1 /\ c[Len(a) + k] = Migration!Table(c[i].on)
      <4>1. k \in 1..Len(b) /\ Len(a) + k \in 1..i - 1
        BY <2>2, <1>3
      <4> QED
        BY <4>1, <3>1, <3>3, <1>3
    <3> QED
      BY <3>1, <3>2, <3>3
  <2> QED
    BY <1>3, <1>5, <2>1, <2>2
<1>6. ASSUME NEW t \in T \union U PROVE \E i \in 1..Len(c) : c[i] = Migration!Table(t)
  <2>1. CASE t \in T
    <3>1. PICK i \in 1..Len(a) : a[i] = Migration!Table(t)
      BY <2>1 DEF Builds
    <3> QED
      BY <3>1, <1>3, <1>4
  <2>2. CASE t \in U
    <3>1. PICK i \in 1..Len(b) : b[i] = Migration!Table(t)
      BY <2>2 DEF Builds
    <3> QED
      BY <3>1, <1>3, <1>4
  <2> QED
    BY <2>1, <2>2
<1>7. ASSUME NEW t \in G \union H PROVE \E i \in 1..Len(c) : c[i] = Migration!Guard(t)
  <2>1. CASE t \in G
    <3>1. PICK i \in 1..Len(a) : a[i] = Migration!Guard(t)
      BY <2>1 DEF Builds
    <3> QED
      BY <3>1, <1>3, <1>4
  <2>2. CASE t \in H
    <3>1. PICK i \in 1..Len(b) : b[i] = Migration!Guard(t)
      BY <2>2 DEF Builds
    <3> QED
      BY <3>1, <1>3, <1>4
  <2> QED
    BY <2>1, <2>2
<1>8. Builds(c, T \union U, G \union H)
  BY <1>3, <1>5, <1>6, <1>7 DEF Builds
<1> QED
  BY <1>2, <1>8

\* A revision of a single table.
LEMMA OneBuilds ==
  ASSUME NEW t \in Migration!RequiredTables
  PROVE  Builds(<<Migration!Table(t)>>, {t}, {})
<1>1. PICK u : u = Migration!Table(t)
  OBVIOUS
<1>2. u \in Statement /\ u.op = "table" /\ u.on = t
  BY <1>1, Singles
<1>3. PICK s : s = <<u>>
  OBVIOUS
<1>4. s \in Seq(Statement) /\ Len(s) = 1 /\ s[1] = u /\ 1..1 = {1}
  BY <1>2, <1>3
<1>5. \A i \in 1..Len(s) : s[i].op = "table" /\ s[i].on \in {t}
  BY <1>2, <1>4
<1>6. \A e \in {t} : \E i \in 1..Len(s) : s[i] = Migration!Table(e)
  BY <1>1, <1>4
<1>7. Builds(s, {t}, {})
  BY <1>4, <1>5, <1>6 DEF Builds
<1> QED
  BY <1>1, <1>3, <1>7

\* The revision that makes a table, and its guard if it has one.
Era(t) ==
  CASE t = "artifact_index_entries" -> 2
    [] t = "paper_jobs" -> 3
    [] t \in {"paper_job_submission_keys", "paper_job_attempts"} -> 4
    [] t = "paper_job_result_references" -> 5
    [] t = "portfolio_reviews" -> 6
    [] t \in Migration!RequiredAccountTables -> 7
    [] t \in {"trading_calendars", "trading_sessions"} -> 8
    [] t \in {"market_data_events", "market_data_replays", "market_data_replay_events"} -> 9
    [] t \in {"strategy_signals", "order_intents", "pre_trade_risk_decisions",
              "strategy_order_command_receipts"} -> 10
    [] t \in {"paper_execution_orders", "paper_execution_attempts", "paper_execution_fills",
              "paper_execution_settlement_links", "paper_execution_command_receipts"} -> 11
    [] OTHER -> 12

TablesOf(v) == {t \in Migration!RequiredTables : Era(t) = v}
GuardsOf(v) == {t \in Migration!RequiredGuards : Era(t) = v}

\* What each revision adds, as the verifier lists it: the first six and the rest.
LEMMA EarlyTables ==
  /\ TablesOf(1) = {} /\ GuardsOf(1) = {}
  /\ TablesOf(2) = {"artifact_index_entries"} /\ GuardsOf(2) = {}
  /\ TablesOf(3) = {"paper_jobs"} /\ GuardsOf(3) = {}
  /\ TablesOf(4) = {"paper_job_submission_keys", "paper_job_attempts"} /\ GuardsOf(4) = {}
  /\ TablesOf(5) = {"paper_job_result_references"} /\ GuardsOf(5) = {}
  /\ TablesOf(6) = {"portfolio_reviews"} /\ GuardsOf(6) = {}
<1> USE DEF TablesOf, GuardsOf, Era, Migration!RequiredTables, Migration!RequiredJobTables,
            Migration!RequiredAccountTables, Migration!RequiredOrderTables,
            Migration!RequiredExecutionTables, Migration!RequiredGuards
<1>1. TablesOf(1) = {} /\ GuardsOf(1) = {}
  OBVIOUS
<1>2. TablesOf(2) = {"artifact_index_entries"} /\ GuardsOf(2) = {}
  OBVIOUS
<1>3. TablesOf(3) = {"paper_jobs"} /\ GuardsOf(3) = {}
  OBVIOUS
<1>4. TablesOf(4) = {"paper_job_submission_keys", "paper_job_attempts"} /\ GuardsOf(4) = {}
  OBVIOUS
<1>5. TablesOf(5) = {"paper_job_result_references"} /\ GuardsOf(5) = {}
  OBVIOUS
<1>6. TablesOf(6) = {"portfolio_reviews"} /\ GuardsOf(6) = {}
  OBVIOUS
<1> QED
  BY <1>1, <1>2, <1>3, <1>4, <1>5, <1>6

LEMMA LateTables ==
  /\ TablesOf(7) = Migration!RequiredAccountTables
  /\ GuardsOf(7) = Migration!RequiredAccountTables \ {"paper_account_projections", "paper_account_position_projections"}
  /\ TablesOf(8) = {"trading_calendars", "trading_sessions"} /\ GuardsOf(8) = TablesOf(8)
  /\ TablesOf(9) = {"market_data_events", "market_data_replays", "market_data_replay_events"}
  /\ GuardsOf(9) = TablesOf(9)
  /\ TablesOf(10) = {"strategy_signals", "order_intents", "pre_trade_risk_decisions",
                     "strategy_order_command_receipts"}
  /\ GuardsOf(10) = TablesOf(10)
  /\ TablesOf(11) = {"paper_execution_orders", "paper_execution_attempts", "paper_execution_fills",
                     "paper_execution_settlement_links", "paper_execution_command_receipts"}
  /\ GuardsOf(11) = TablesOf(11)
  /\ TablesOf(12) = {"paper_runtimes", "paper_runtime_work", "paper_runtime_checkpoints",
                     "paper_runtime_events", "paper_runtime_command_receipts"}
  /\ GuardsOf(12) = TablesOf(12)
<1> USE DEF TablesOf, GuardsOf, Era, Migration!RequiredTables, Migration!RequiredJobTables,
            Migration!RequiredAccountTables, Migration!RequiredOrderTables,
            Migration!RequiredExecutionTables, Migration!RequiredGuards
<1>1. TablesOf(7) = Migration!RequiredAccountTables
  OBVIOUS
<1>2. GuardsOf(7) = Migration!RequiredAccountTables \ {"paper_account_projections", "paper_account_position_projections"}
  OBVIOUS
<1>3. TablesOf(8) = {"trading_calendars", "trading_sessions"} /\ GuardsOf(8) = TablesOf(8)
  OBVIOUS
<1>4. /\ TablesOf(9) = {"market_data_events", "market_data_replays", "market_data_replay_events"}
      /\ GuardsOf(9) = TablesOf(9)
  OBVIOUS
<1>5. /\ TablesOf(10) = {"strategy_signals", "order_intents", "pre_trade_risk_decisions",
                         "strategy_order_command_receipts"}
      /\ GuardsOf(10) = TablesOf(10)
  OBVIOUS
<1>6. /\ TablesOf(11) = {"paper_execution_orders", "paper_execution_attempts", "paper_execution_fills",
                         "paper_execution_settlement_links", "paper_execution_command_receipts"}
      /\ GuardsOf(11) = TablesOf(11)
  OBVIOUS
<1>7. /\ TablesOf(12) = {"paper_runtimes", "paper_runtime_work", "paper_runtime_checkpoints",
                         "paper_runtime_events", "paper_runtime_command_receipts"}
      /\ GuardsOf(12) = TablesOf(12)
  OBVIOUS
<1> QED
  BY <1>1, <1>2, <1>3, <1>4, <1>5, <1>6, <1>7

\* The lists that the revisions are made of, and what they name.
LEMMA Lists ==
  /\ Migration!AccountTables \in Seq(Migration!RequiredTables)
  /\ Names(Migration!AccountTables) = {"paper_accounts", "paper_account_events"}
  /\ Migration!PostingTables \in Seq(Migration!RequiredTables)
  /\ Names(Migration!PostingTables) = {"paper_cash_ledger_entries", "paper_position_ledger_entries", "paper_account_creation_keys"}
  /\ Migration!ProjectionTables \in Seq(Migration!RequiredTables)
  /\ Names(Migration!ProjectionTables) = {"paper_account_projections", "paper_account_position_projections"}
  /\ Migration!EvidenceTables \in Seq(Migration!RequiredTables)
  /\ Names(Migration!EvidenceTables) = {"paper_account_snapshots", "paper_account_reconciliations"}
  /\ Migration!CalendarTables \in Seq(Migration!RequiredTables)
  /\ Names(Migration!CalendarTables) = {"trading_calendars", "trading_sessions"}
  /\ Migration!MarketTables \in Seq(Migration!RequiredTables)
  /\ Names(Migration!MarketTables) = {"market_data_events", "market_data_replays", "market_data_replay_events"}
  /\ Migration!MarketGuards \in Seq(Migration!RequiredTables)
  /\ Names(Migration!MarketGuards) = {"market_data_events", "market_data_replay_events", "market_data_replays"}
  /\ Migration!SignalTables \in Seq(Migration!RequiredTables)
  /\ Names(Migration!SignalTables) = {"strategy_signals", "order_intents"}
  /\ Migration!DecisionTables \in Seq(Migration!RequiredTables)
  /\ Names(Migration!DecisionTables) = {"pre_trade_risk_decisions", "strategy_order_command_receipts"}
  /\ Migration!AttemptTables \in Seq(Migration!RequiredTables)
  /\ Names(Migration!AttemptTables) = {"paper_execution_orders", "paper_execution_attempts"}
  /\ Migration!FillTables \in Seq(Migration!RequiredTables)
  /\ Names(Migration!FillTables) = {"paper_execution_fills", "paper_execution_settlement_links", "paper_execution_command_receipts"}
  /\ Migration!WorkTables \in Seq(Migration!RequiredTables)
  /\ Names(Migration!WorkTables) = {"paper_runtime_work", "paper_runtime_checkpoints"}
  /\ Migration!TrailTables \in Seq(Migration!RequiredTables)
  /\ Names(Migration!TrailTables) = {"paper_runtime_events", "paper_runtime_command_receipts"}
<1>1. \A v \in 7..12 : TablesOf(v) \subseteq Migration!RequiredTables
  BY DEF TablesOf
<1>2. Migration!AccountTables \in Seq(Migration!RequiredTables) /\ Names(Migration!AccountTables) = {"paper_accounts", "paper_account_events"}
  <2>1. "paper_accounts" \in Migration!RequiredTables /\ "paper_account_events" \in Migration!RequiredTables
    BY <1>1, LateTables DEF Migration!RequiredAccountTables
  <2> QED
    BY <2>1, TwoNames DEF Migration!AccountTables
<1>3. Migration!PostingTables \in Seq(Migration!RequiredTables) /\ Names(Migration!PostingTables) = {"paper_cash_ledger_entries", "paper_position_ledger_entries", "paper_account_creation_keys"}
  <2>1. "paper_cash_ledger_entries" \in Migration!RequiredTables /\ "paper_position_ledger_entries" \in Migration!RequiredTables /\ "paper_account_creation_keys" \in Migration!RequiredTables
    BY <1>1, LateTables DEF Migration!RequiredAccountTables
  <2> QED
    BY <2>1, ThreeNames DEF Migration!PostingTables
<1>4. Migration!ProjectionTables \in Seq(Migration!RequiredTables) /\ Names(Migration!ProjectionTables) = {"paper_account_projections", "paper_account_position_projections"}
  <2>1. "paper_account_projections" \in Migration!RequiredTables /\ "paper_account_position_projections" \in Migration!RequiredTables
    BY <1>1, LateTables DEF Migration!RequiredAccountTables
  <2> QED
    BY <2>1, TwoNames DEF Migration!ProjectionTables
<1>5. Migration!EvidenceTables \in Seq(Migration!RequiredTables) /\ Names(Migration!EvidenceTables) = {"paper_account_snapshots", "paper_account_reconciliations"}
  <2>1. "paper_account_snapshots" \in Migration!RequiredTables /\ "paper_account_reconciliations" \in Migration!RequiredTables
    BY <1>1, LateTables DEF Migration!RequiredAccountTables
  <2> QED
    BY <2>1, TwoNames DEF Migration!EvidenceTables
<1>6. Migration!CalendarTables \in Seq(Migration!RequiredTables) /\ Names(Migration!CalendarTables) = {"trading_calendars", "trading_sessions"}
  <2>1. "trading_calendars" \in Migration!RequiredTables /\ "trading_sessions" \in Migration!RequiredTables
    BY <1>1, LateTables
  <2> QED
    BY <2>1, TwoNames DEF Migration!CalendarTables
<1>7. Migration!MarketTables \in Seq(Migration!RequiredTables) /\ Names(Migration!MarketTables) = {"market_data_events", "market_data_replays", "market_data_replay_events"}
  <2>1. "market_data_events" \in Migration!RequiredTables /\ "market_data_replays" \in Migration!RequiredTables /\ "market_data_replay_events" \in Migration!RequiredTables
    BY <1>1, LateTables
  <2> QED
    BY <2>1, ThreeNames DEF Migration!MarketTables
<1>8. Migration!MarketGuards \in Seq(Migration!RequiredTables) /\ Names(Migration!MarketGuards) = {"market_data_events", "market_data_replay_events", "market_data_replays"}
  <2>1. "market_data_events" \in Migration!RequiredTables /\ "market_data_replay_events" \in Migration!RequiredTables /\ "market_data_replays" \in Migration!RequiredTables
    BY <1>1, LateTables
  <2> QED
    BY <2>1, ThreeNames DEF Migration!MarketGuards
<1>9. Migration!SignalTables \in Seq(Migration!RequiredTables) /\ Names(Migration!SignalTables) = {"strategy_signals", "order_intents"}
  <2>1. "strategy_signals" \in Migration!RequiredTables /\ "order_intents" \in Migration!RequiredTables
    BY <1>1, LateTables
  <2> QED
    BY <2>1, TwoNames DEF Migration!SignalTables
<1>10. Migration!DecisionTables \in Seq(Migration!RequiredTables) /\ Names(Migration!DecisionTables) = {"pre_trade_risk_decisions", "strategy_order_command_receipts"}
  <2>1. "pre_trade_risk_decisions" \in Migration!RequiredTables /\ "strategy_order_command_receipts" \in Migration!RequiredTables
    BY <1>1, LateTables
  <2> QED
    BY <2>1, TwoNames DEF Migration!DecisionTables
<1>11. Migration!AttemptTables \in Seq(Migration!RequiredTables) /\ Names(Migration!AttemptTables) = {"paper_execution_orders", "paper_execution_attempts"}
  <2>1. "paper_execution_orders" \in Migration!RequiredTables /\ "paper_execution_attempts" \in Migration!RequiredTables
    BY <1>1, LateTables
  <2> QED
    BY <2>1, TwoNames DEF Migration!AttemptTables
<1>12. Migration!FillTables \in Seq(Migration!RequiredTables) /\ Names(Migration!FillTables) = {"paper_execution_fills", "paper_execution_settlement_links", "paper_execution_command_receipts"}
  <2>1. "paper_execution_fills" \in Migration!RequiredTables /\ "paper_execution_settlement_links" \in Migration!RequiredTables /\ "paper_execution_command_receipts" \in Migration!RequiredTables
    BY <1>1, LateTables
  <2> QED
    BY <2>1, ThreeNames DEF Migration!FillTables
<1>13. Migration!WorkTables \in Seq(Migration!RequiredTables) /\ Names(Migration!WorkTables) = {"paper_runtime_work", "paper_runtime_checkpoints"}
  <2>1. "paper_runtime_work" \in Migration!RequiredTables /\ "paper_runtime_checkpoints" \in Migration!RequiredTables
    BY <1>1, LateTables
  <2> QED
    BY <2>1, TwoNames DEF Migration!WorkTables
<1>14. Migration!TrailTables \in Seq(Migration!RequiredTables) /\ Names(Migration!TrailTables) = {"paper_runtime_events", "paper_runtime_command_receipts"}
  <2>1. "paper_runtime_events" \in Migration!RequiredTables /\ "paper_runtime_command_receipts" \in Migration!RequiredTables
    BY <1>1, LateTables
  <2> QED
    BY <2>1, TwoNames DEF Migration!TrailTables
<1> QED
  BY <1>2, <1>3, <1>4, <1>5, <1>6, <1>7, <1>8, <1>9, <1>10, <1>11, <1>12, <1>13, <1>14

\* The longer lists.
LEMMA LongLists ==
  /\ Migration!LedgerTables \in Seq(Migration!RequiredTables) /\ Names(Migration!LedgerTables) = TablesOf(7)
  /\ Migration!LedgerGuards \in Seq(Migration!RequiredTables) /\ Names(Migration!LedgerGuards) = GuardsOf(7)
  /\ Migration!OrderTables \in Seq(Migration!RequiredTables) /\ Names(Migration!OrderTables) = TablesOf(10)
  /\ Migration!ExecutionTables \in Seq(Migration!RequiredTables)
  /\ Names(Migration!ExecutionTables) = TablesOf(11)
  /\ Migration!WorkTables \o Migration!TrailTables \in Seq(Migration!RequiredTables)
  /\ Names(Migration!WorkTables \o Migration!TrailTables) = TablesOf(12) \ {"paper_runtimes"}
<1>1. Migration!LedgerTables \in Seq(Migration!RequiredTables) /\ Names(Migration!LedgerTables) = TablesOf(7)
  <2>1. PICK u : u = Migration!AccountTables \o Migration!PostingTables
    OBVIOUS
  <2>1a. u \in Seq(Migration!RequiredTables) /\ Names(u) = Names(Migration!AccountTables) \union Names(Migration!PostingTables)
    <3>1. Migration!AccountTables \in Seq(Migration!RequiredTables) /\ Migration!PostingTables \in Seq(Migration!RequiredTables)
      BY Lists
    <3> QED
      BY <3>1, <2>1, ConcatNames
  <2>2. PICK v : v = u \o Migration!ProjectionTables
    OBVIOUS
  <2>2a. v \in Seq(Migration!RequiredTables) /\ Names(v) = Names(u) \union Names(Migration!ProjectionTables)
    <3>1. u \in Seq(Migration!RequiredTables) /\ Migration!ProjectionTables \in Seq(Migration!RequiredTables)
      BY Lists, <2>1a
    <3> QED
      BY <3>1, <2>2, ConcatNames
  <2>3. PICK w : w = v \o Migration!EvidenceTables
    OBVIOUS
  <2>3a. w \in Seq(Migration!RequiredTables) /\ Names(w) = Names(v) \union Names(Migration!EvidenceTables)
    <3>1. v \in Seq(Migration!RequiredTables) /\ Migration!EvidenceTables \in Seq(Migration!RequiredTables)
      BY Lists, <2>2a
    <3> QED
      BY <3>1, <2>3, ConcatNames
  <2>4. w = Migration!LedgerTables
    BY <2>1, <2>2, <2>3 DEF Migration!LedgerTables
  <2>5. Names(w) = Migration!RequiredAccountTables
    BY <2>1a, <2>2a, <2>3a, Lists DEF Migration!RequiredAccountTables
  <2> QED
    BY <2>3a, <2>4, <2>5, LateTables
<1>2. Migration!LedgerGuards \in Seq(Migration!RequiredTables) /\ Names(Migration!LedgerGuards) = GuardsOf(7)
  <2>1. PICK s : s = Migration!LedgerGuards
    OBVIOUS
  <2>2. /\ s = << "paper_account_events", "paper_cash_ledger_entries", "paper_position_ledger_entries",
                  "paper_account_creation_keys", "paper_account_snapshots",
                  "paper_account_reconciliations", "paper_accounts" >>
    BY <2>1 DEF Migration!LedgerGuards
  <2>3. /\ GuardsOf(7) = {"paper_account_events", "paper_cash_ledger_entries", "paper_position_ledger_entries",
                          "paper_account_creation_keys", "paper_account_snapshots",
                          "paper_account_reconciliations", "paper_accounts"}
        /\ GuardsOf(7) \subseteq Migration!RequiredTables
    BY LateTables DEF Migration!RequiredAccountTables, TablesOf
  <2>4. /\ Len(s) = 7 /\ s[1] = "paper_account_events" /\ s[2] = "paper_cash_ledger_entries"
        /\ s[3] = "paper_position_ledger_entries" /\ s[4] = "paper_account_creation_keys"
        /\ s[5] = "paper_account_snapshots" /\ s[6] = "paper_account_reconciliations" /\ s[7] = "paper_accounts"
    BY <2>2
  <2>5. 1..7 = {1, 2, 3, 4, 5, 6, 7}
    OBVIOUS
  <2>6. Names(s) = GuardsOf(7)
    BY <2>3, <2>4, <2>5 DEF Names
  <2>7. s \in Seq(Migration!RequiredTables)
    <3>1. \A i \in 1..7 : s[i] \in Migration!RequiredTables
      BY <2>3, <2>4, <2>5
    <3>2. s = [i \in 1..7 |-> s[i]]
      BY <2>2
    <3> QED
      BY <3>1, <3>2
  <2> QED
    BY <2>1, <2>6, <2>7
<1>3. Migration!OrderTables \in Seq(Migration!RequiredTables) /\ Names(Migration!OrderTables) = TablesOf(10)
  <2>1. PICK s : s = Migration!SignalTables \o Migration!DecisionTables
    OBVIOUS
  <2>1a. s \in Seq(Migration!RequiredTables) /\ Names(s) = Names(Migration!SignalTables) \union Names(Migration!DecisionTables)
    <3>1. Migration!SignalTables \in Seq(Migration!RequiredTables) /\ Migration!DecisionTables \in Seq(Migration!RequiredTables)
      BY Lists
    <3> QED
      BY <3>1, <2>1, ConcatNames
  <2>2. Names(s) = TablesOf(10)
    BY <2>1a, Lists, LateTables
  <2> QED
    BY <2>1, <2>1a, <2>2 DEF Migration!OrderTables
<1>4. Migration!ExecutionTables \in Seq(Migration!RequiredTables) /\ Names(Migration!ExecutionTables) = TablesOf(11)
  <2>1. PICK s : s = Migration!AttemptTables \o Migration!FillTables
    OBVIOUS
  <2>1a. s \in Seq(Migration!RequiredTables) /\ Names(s) = Names(Migration!AttemptTables) \union Names(Migration!FillTables)
    <3>1. Migration!AttemptTables \in Seq(Migration!RequiredTables) /\ Migration!FillTables \in Seq(Migration!RequiredTables)
      BY Lists
    <3> QED
      BY <3>1, <2>1, ConcatNames
  <2>2. Names(s) = TablesOf(11)
    BY <2>1a, Lists, LateTables
  <2> QED
    BY <2>1, <2>1a, <2>2 DEF Migration!ExecutionTables
<1>5. /\ Migration!WorkTables \o Migration!TrailTables \in Seq(Migration!RequiredTables)
      /\ Names(Migration!WorkTables \o Migration!TrailTables) = TablesOf(12) \ {"paper_runtimes"}
  <2>1. PICK s : s = Migration!WorkTables \o Migration!TrailTables
    OBVIOUS
  <2>1a. s \in Seq(Migration!RequiredTables) /\ Names(s) = Names(Migration!WorkTables) \union Names(Migration!TrailTables)
    <3>1. Migration!WorkTables \in Seq(Migration!RequiredTables) /\ Migration!TrailTables \in Seq(Migration!RequiredTables)
      BY Lists
    <3> QED
      BY <3>1, <2>1, ConcatNames
  <2>2. Names(s) = TablesOf(12) \ {"paper_runtimes"}
    BY <2>1a, Lists, LateTables
  <2> QED
    BY <2>1, <2>1a, <2>2
<1> QED
  BY <1>1, <1>2, <1>3, <1>4, <1>5

\* A function on 1..n is a sequence.
LEMMA Listed ==
  ASSUME NEW S, NEW n \in Nat, NEW s, s = [i \in 1..n |-> s[i]], \A i \in 1..n : s[i] \in S
  PROVE  s \in Seq(S) /\ Len(s) = n
OBVIOUS

\* The short stretches: none, two tables, a table and its guard.
LEMMA NoneBuild == Builds(<< >>, {}, {})
<1>1. PICK s : s = << >>
  OBVIOUS
<1>2. s \in Seq(Statement) /\ Len(s) = 0
  BY <1>1
<1>3. \A i \in 1..Len(s) : FALSE
  BY <1>2
<1>4. Builds(s, {}, {})
  BY <1>2, <1>3 DEF Builds
<1> QED
  BY <1>1, <1>4

LEMMA TwoBuild ==
  ASSUME NEW t \in Migration!RequiredTables, NEW u \in Migration!RequiredTables
  PROVE  Builds(<<Migration!Table(t), Migration!Table(u)>>, {t, u}, {})
<1>1. PICK a, b : a = Migration!Table(t) /\ b = Migration!Table(u)
  OBVIOUS
<1>2. a \in Statement /\ a.op = "table" /\ a.on = t /\ b \in Statement /\ b.op = "table" /\ b.on = u
  BY <1>1, Singles
<1>3. PICK s : s = <<a, b>>
  OBVIOUS
<1>4. s \in Seq(Statement) /\ Len(s) = 2 /\ s[1] = a /\ s[2] = b /\ 1..2 = {1, 2}
  BY <1>2, <1>3
<1>5. \A i \in 1..Len(s) : s[i].op = "table" /\ s[i].on \in {t, u}
  BY <1>2, <1>4
<1>6. \A e \in {t, u} : \E i \in 1..Len(s) : s[i] = Migration!Table(e)
  BY <1>1, <1>4
<1>7. Builds(s, {t, u}, {})
  BY <1>4, <1>5, <1>6 DEF Builds
<1> QED
  BY <1>1, <1>3, <1>7

LEMMA PairBuilds ==
  ASSUME NEW t \in Migration!RequiredTables
  PROVE  Builds(<<Migration!Table(t), Migration!Guard(t)>>, {t}, {t})
<1>1. PICK a, b : a = Migration!Table(t) /\ b = Migration!Guard(t)
  OBVIOUS
<1>2. a \in Statement /\ a.op = "table" /\ a.on = t /\ b \in Statement /\ b.op = "guard" /\ b.on = t
  BY <1>1, Singles
<1>3. PICK s : s = <<a, b>>
  OBVIOUS
<1>4. s \in Seq(Statement) /\ Len(s) = 2 /\ s[1] = a /\ s[2] = b /\ 1..2 = {1, 2} /\ 1 \in 1..2 - 1
  BY <1>2, <1>3
<1>5. s[1].op = "table" /\ s[1].on = t
  BY <1>2, <1>4
<1>6. s[2].op = "guard" /\ s[2].on = t /\ s[1] = Migration!Table(s[2].on)
  BY <1>1, <1>2, <1>4
<1>7. \A i \in 1..Len(s) : \/ s[i].op = "table" /\ s[i].on \in {t}
                           \/ /\ s[i].op = "guard" /\ s[i].on \in {t}
                              /\ \E j \in 1..i - 1 : s[j] = Migration!Table(s[i].on)
  BY <1>4, <1>5, <1>6
<1>8. /\ \A e \in {t} : \E i \in 1..Len(s) : s[i] = Migration!Table(e)
      /\ \A e \in {t} : \E i \in 1..Len(s) : s[i] = Migration!Guard(e)
  BY <1>1, <1>4
<1>9. Builds(s, {t}, {t})
  BY <1>4, <1>7, <1>8 DEF Builds
<1> QED
  BY <1>1, <1>3, <1>9

\* Concatenation is associative.
LEMMA Join ==
  ASSUME NEW S, NEW a \in Seq(S), NEW b \in Seq(S), NEW c \in Seq(S)
  PROVE  (a \o b) \o c = a \o (b \o c)
OBVIOUS

\* A list of tables gives a list of statements.
LEMMA ListsMake ==
  ASSUME NEW ts \in Seq(Migration!RequiredTables)
  PROVE  Migration!Tables(ts) \in Seq(Statement) /\ Migration!Guards(ts) \in Seq(Statement)
<1>1. DOMAIN ts = 1..Len(ts) /\ Len(ts) \in Nat /\ \A i \in 1..Len(ts) : ts[i] \in Migration!RequiredTables
  OBVIOUS
<1>2. \A i \in 1..Len(ts) : Migration!Table(ts[i]) \in Statement /\ Migration!Guard(ts[i]) \in Statement
  BY <1>1, Singles
<1>3. PICK a, b : a = Migration!Tables(ts) /\ b = Migration!Guards(ts)
  OBVIOUS
<1>4. /\ a = [i \in 1..Len(ts) |-> Migration!Table(ts[i])]
      /\ b = [i \in 1..Len(ts) |-> Migration!Guard(ts[i])]
  BY <1>1, <1>3 DEF Migration!Tables, Migration!Guards
<1> QED
  BY <1>1, <1>2, <1>3, <1>4

\* The statements that rebuild the three ledger tables.
Stmt(o, t) == [op |-> o, on |-> t]

\* The three rebuilt tables are tables and guards of revision 7.
LEMMA RebuiltTables ==
  /\ Migration!Rebuilt[1] = "paper_account_events" /\ Migration!Rebuilt[2] = "paper_cash_ledger_entries"
  /\ Migration!Rebuilt[3] = "paper_position_ledger_entries"
  /\ \A k \in 1..3 : /\ Migration!Rebuilt[k] \in TablesOf(7) /\ Migration!Rebuilt[k] \in GuardsOf(7)
                     /\ Migration!Rebuilt[k] \in Migration!RequiredTables
  /\ \A k, j \in 1..3 : Migration!Rebuilt[k] = Migration!Rebuilt[j] => k = j
<1>1. /\ Migration!Rebuilt[1] = "paper_account_events" /\ Migration!Rebuilt[2] = "paper_cash_ledger_entries"
      /\ Migration!Rebuilt[3] = "paper_position_ledger_entries" /\ 1..3 = {1, 2, 3}
  BY DEF Migration!Rebuilt
<1>2. {"paper_account_events", "paper_cash_ledger_entries", "paper_position_ledger_entries"} \subseteq GuardsOf(7)
  BY LateTables DEF Migration!RequiredAccountTables
<1>3. GuardsOf(7) \subseteq TablesOf(7) /\ TablesOf(7) \subseteq Migration!RequiredTables
  BY LateTables DEF TablesOf
<1> QED
  BY <1>1, <1>2, <1>3

\* A statement by its operation and its table.
LEMMA StatementsAre ==
  ASSUME NEW o \in Operations, NEW t \in Migration!RequiredTables
  PROVE  Stmt(o, t) \in Statement /\ Stmt(o, t).op = o /\ Stmt(o, t).on = t
<1>1. PICK s : s = [op |-> o, on |-> t]
  OBVIOUS
<1>2. s \in Statement /\ s.op = o /\ s.on = t
  BY <1>1 DEF Statement
<1> QED
  BY <1>1, <1>2 DEF Stmt

\* The four statements of one rebuild.
LEMMA OneRebuild ==
  ASSUME NEW t \in Migration!RequiredTables
  PROVE  /\ Migration!Rebuild(t) \in Seq(Statement) /\ Len(Migration!Rebuild(t)) = 4
         /\ Migration!Rebuild(t)[1] = Stmt("copy", t) /\ Migration!Rebuild(t)[2] = Stmt("fill", t)
         /\ Migration!Rebuild(t)[3] = Stmt("drop", t) /\ Migration!Rebuild(t)[4] = Stmt("rename", t)
<1>1. /\ Stmt("copy", t) \in Statement /\ Stmt("fill", t) \in Statement
      /\ Stmt("drop", t) \in Statement /\ Stmt("rename", t) \in Statement
  BY StatementsAre DEF Operations
<1>2. PICK a, b, c, d : a = Stmt("copy", t) /\ b = Stmt("fill", t) /\ c = Stmt("drop", t) /\ d = Stmt("rename", t)
  OBVIOUS
<1>3. Migration!Rebuild(t) = <<a, b, c, d>>
  BY <1>2 DEF Migration!Rebuild, Stmt
<1> QED
  BY <1>1, <1>2, <1>3

\* The fifteen statements of the three rebuilds.
LEMMA Expansion ==
  /\ Migration!ExpandVocabulary \in Seq(Statement) /\ Len(Migration!ExpandVocabulary) = 15
  /\ \A k \in 1..3 : /\ Migration!ExpandVocabulary[4 * k - 3] = Stmt("copy", Migration!Rebuilt[k])
                     /\ Migration!ExpandVocabulary[4 * k - 2] = Stmt("fill", Migration!Rebuilt[k])
                     /\ Migration!ExpandVocabulary[4 * k - 1] = Stmt("drop", Migration!Rebuilt[k])
                     /\ Migration!ExpandVocabulary[4 * k] = Stmt("rename", Migration!Rebuilt[k])
                     /\ Migration!ExpandVocabulary[12 + k] = Stmt("guard if missing", Migration!Rebuilt[k])
<1>1. PICK a, b, c, d : /\ a = Migration!Rebuild(Migration!Rebuilt[1]) /\ b = Migration!Rebuild(Migration!Rebuilt[2])
                        /\ c = Migration!Rebuild(Migration!Rebuilt[3])
                        /\ d = [i \in 1..3 |-> Stmt("guard if missing", Migration!Rebuilt[i])]
  OBVIOUS
<1>2. Migration!ExpandVocabulary = ((a \o b) \o c) \o d
  BY <1>1 DEF Migration!ExpandVocabulary, Stmt
<1>3. /\ a \in Seq(Statement) /\ Len(a) = 4 /\ b \in Seq(Statement) /\ Len(b) = 4 /\ c \in Seq(Statement) /\ Len(c) = 4
      /\ a[1] = Stmt("copy", Migration!Rebuilt[1]) /\ a[2] = Stmt("fill", Migration!Rebuilt[1])
      /\ a[3] = Stmt("drop", Migration!Rebuilt[1]) /\ a[4] = Stmt("rename", Migration!Rebuilt[1])
      /\ b[1] = Stmt("copy", Migration!Rebuilt[2]) /\ b[2] = Stmt("fill", Migration!Rebuilt[2])
      /\ b[3] = Stmt("drop", Migration!Rebuilt[2]) /\ b[4] = Stmt("rename", Migration!Rebuilt[2])
      /\ c[1] = Stmt("copy", Migration!Rebuilt[3]) /\ c[2] = Stmt("fill", Migration!Rebuilt[3])
      /\ c[3] = Stmt("drop", Migration!Rebuilt[3]) /\ c[4] = Stmt("rename", Migration!Rebuilt[3])
  <2>1. /\ Migration!Rebuilt[1] \in Migration!RequiredTables /\ Migration!Rebuilt[2] \in Migration!RequiredTables
        /\ Migration!Rebuilt[3] \in Migration!RequiredTables
    BY RebuiltTables
  <2>2. /\ a \in Seq(Statement) /\ Len(a) = 4
        /\ a[1] = Stmt("copy", Migration!Rebuilt[1]) /\ a[2] = Stmt("fill", Migration!Rebuilt[1])
        /\ a[3] = Stmt("drop", Migration!Rebuilt[1]) /\ a[4] = Stmt("rename", Migration!Rebuilt[1])
    BY <1>1, <2>1, OneRebuild
  <2>3. /\ b \in Seq(Statement) /\ Len(b) = 4
        /\ b[1] = Stmt("copy", Migration!Rebuilt[2]) /\ b[2] = Stmt("fill", Migration!Rebuilt[2])
        /\ b[3] = Stmt("drop", Migration!Rebuilt[2]) /\ b[4] = Stmt("rename", Migration!Rebuilt[2])
    BY <1>1, <2>1, OneRebuild
  <2>4. /\ c \in Seq(Statement) /\ Len(c) = 4
        /\ c[1] = Stmt("copy", Migration!Rebuilt[3]) /\ c[2] = Stmt("fill", Migration!Rebuilt[3])
        /\ c[3] = Stmt("drop", Migration!Rebuilt[3]) /\ c[4] = Stmt("rename", Migration!Rebuilt[3])
    BY <1>1, <2>1, OneRebuild
  <2> QED
    BY <2>2, <2>3, <2>4
<1>4. d \in Seq(Statement) /\ Len(d) = 3 /\ \A i \in 1..3 : d[i] = Stmt("guard if missing", Migration!Rebuilt[i])
  <2>1. \A i \in 1..3 : Stmt("guard if missing", Migration!Rebuilt[i]) \in Statement
    BY RebuiltTables, StatementsAre DEF Operations
  <2>2. d = [i \in 1..3 |-> Stmt("guard if missing", Migration!Rebuilt[i])]
    BY <1>1
  <2>3. DOMAIN d = 1..3 /\ \A i \in 1..3 : d[i] = Stmt("guard if missing", Migration!Rebuilt[i])
    BY <2>2
  <2>4. d = [i \in 1..3 |-> d[i]] /\ \A i \in 1..3 : d[i] \in Statement
    BY <2>1, <2>2, <2>3
  <2>5. d \in Seq(Statement) /\ Len(d) = 3
    BY <2>4, Listed
  <2> QED
    BY <2>3, <2>5
<1>5. PICK e : e = a \o b
  OBVIOUS
<1>6. /\ e \in Seq(Statement) /\ Len(e) = 8 /\ \A i \in 1..4 : e[i] = a[i] /\ e[4 + i] = b[i]
  <2>1. /\ e \in Seq(Statement) /\ Len(e) = Len(a) + Len(b)
        /\ \A i \in 1..Len(a) : e[i] = a[i]
        /\ \A i \in 1..Len(b) : e[Len(a) + i] = b[i]
    <3>1. a \in Seq(Statement) /\ b \in Seq(Statement)
      BY <1>3
    <3> QED
      BY <3>1, <1>5, Concat
  <2> QED
    <3>1. Len(e) = 8 /\ \A i \in 1..4 : e[i] = a[i]
      BY <2>1, <1>3
    <3>2. \A i \in 1..4 : e[4 + i] = b[i]
      BY <2>1, <1>3
    <3> QED
      BY <2>1, <3>1, <3>2
<1>7. PICK f : f = e \o c
  OBVIOUS
<1>8. /\ f \in Seq(Statement) /\ Len(f) = 12 /\ \A i \in 1..8 : f[i] = e[i]
      /\ \A i \in 1..4 : f[8 + i] = c[i]
  <2>1. /\ f \in Seq(Statement) /\ Len(f) = Len(e) + Len(c)
        /\ \A i \in 1..Len(e) : f[i] = e[i]
        /\ \A i \in 1..Len(c) : f[Len(e) + i] = c[i]
    <3>1. e \in Seq(Statement) /\ c \in Seq(Statement)
      BY <1>3, <1>6
    <3> QED
      BY <3>1, <1>7, Concat
  <2> QED
    <3>1. Len(f) = 12 /\ \A i \in 1..8 : f[i] = e[i]
      BY <2>1, <1>3, <1>6
    <3>2. \A i \in 1..4 : f[8 + i] = c[i]
      BY <2>1, <1>3, <1>6
    <3> QED
      BY <2>1, <3>1, <3>2
<1>9. PICK g : g = f \o d
  OBVIOUS
<1>10. /\ g \in Seq(Statement) /\ Len(g) = 15 /\ \A i \in 1..12 : g[i] = f[i]
       /\ \A i \in 1..3 : g[12 + i] = d[i]
  <2>1. /\ g \in Seq(Statement) /\ Len(g) = Len(f) + Len(d)
        /\ \A i \in 1..Len(f) : g[i] = f[i]
        /\ \A i \in 1..Len(d) : g[Len(f) + i] = d[i]
    <3>1. f \in Seq(Statement) /\ d \in Seq(Statement)
      BY <1>4, <1>8
    <3> QED
      BY <3>1, <1>9, Concat
  <2> QED
    <3>0. Len(f) = 12 /\ Len(d) = 3
      BY <1>4, <1>8
    <3>1. Len(g) = 15 /\ \A i \in 1..12 : g[i] = f[i]
      BY <2>1, <3>0
    <3>2. ASSUME NEW i \in 1..3 PROVE g[12 + i] = d[i]
      BY <2>1, <3>0
    <3> QED
      BY <2>1, <3>1, <3>2
<1>11. /\ g[1] = a[1] /\ g[2] = a[2] /\ g[3] = a[3] /\ g[4] = a[4]
       /\ g[5] = b[1] /\ g[6] = b[2] /\ g[7] = b[3] /\ g[8] = b[4]
       /\ g[9] = c[1] /\ g[10] = c[2] /\ g[11] = c[3] /\ g[12] = c[4]
  <2>1. /\ e[1] = a[1] /\ e[2] = a[2] /\ e[3] = a[3] /\ e[4] = a[4]
        /\ e[4 + 1] = b[1] /\ e[4 + 2] = b[2] /\ e[4 + 3] = b[3] /\ e[4 + 4] = b[4]
    BY <1>6
  <2>2. /\ f[1] = e[1] /\ f[2] = e[2] /\ f[3] = e[3] /\ f[4] = e[4]
        /\ f[5] = e[5] /\ f[6] = e[6] /\ f[7] = e[7] /\ f[8] = e[8]
        /\ f[8 + 1] = c[1] /\ f[8 + 2] = c[2] /\ f[8 + 3] = c[3] /\ f[8 + 4] = c[4]
    BY <1>8
  <2>3. /\ g[1] = f[1] /\ g[2] = f[2] /\ g[3] = f[3] /\ g[4] = f[4]
        /\ g[5] = f[5] /\ g[6] = f[6] /\ g[7] = f[7] /\ g[8] = f[8]
        /\ g[9] = f[9] /\ g[10] = f[10] /\ g[11] = f[11] /\ g[12] = f[12]
    BY <1>10
  <2> QED
    BY <2>1, <2>2, <2>3
<1>12. \A k \in 1..3 : /\ g[4 * k - 3] = Stmt("copy", Migration!Rebuilt[k])
                       /\ g[4 * k - 2] = Stmt("fill", Migration!Rebuilt[k])
                       /\ g[4 * k - 1] = Stmt("drop", Migration!Rebuilt[k])
                       /\ g[4 * k] = Stmt("rename", Migration!Rebuilt[k])
  <2> SUFFICES ASSUME NEW k \in 1..3
               PROVE  /\ g[4 * k - 3] = Stmt("copy", Migration!Rebuilt[k])
                      /\ g[4 * k - 2] = Stmt("fill", Migration!Rebuilt[k])
                      /\ g[4 * k - 1] = Stmt("drop", Migration!Rebuilt[k])
                      /\ g[4 * k] = Stmt("rename", Migration!Rebuilt[k])
    OBVIOUS
  <2>1. CASE k = 1
    BY <2>1, <1>3, <1>11
  <2>2. CASE k = 2
    BY <2>2, <1>3, <1>11
  <2>3. CASE k = 3
    BY <2>3, <1>3, <1>11
  <2> QED
    BY <2>1, <2>2, <2>3
<1> QED
  BY <1>2, <1>4, <1>5, <1>7, <1>9, <1>10, <1>12

\* Every revision makes the tables and guards of its era; the eleventh after its rebuilds.
LEMMA Revisions ==
  /\ DOMAIN Migration!Chain = 1..12
  /\ \A v \in (1..12) \ {11} : Builds(Migration!Chain[v], TablesOf(v), GuardsOf(v))
  /\ \E x : /\ Migration!Chain[11] = Migration!ExpandVocabulary \o x
            /\ Builds(x, TablesOf(11), GuardsOf(11))
<1>1. /\ DOMAIN Migration!Chain = 1..12
      /\ Migration!Chain[1] = << >>
      /\ Migration!Chain[2] = <<Migration!Table("artifact_index_entries")>>
      /\ Migration!Chain[3] = <<Migration!Table("paper_jobs")>>
      /\ Migration!Chain[4] = <<Migration!Table("paper_job_submission_keys"), Migration!Table("paper_job_attempts")>>
      /\ Migration!Chain[5] = <<Migration!Table("paper_job_result_references")>>
      /\ Migration!Chain[6] = <<Migration!Table("portfolio_reviews")>>
  BY DEF Migration!Chain
<1>2. /\ Migration!Chain[7] = Migration!Tables(Migration!LedgerTables) \o Migration!Guards(Migration!LedgerGuards)
      /\ Migration!Chain[8] = Migration!Tables(Migration!CalendarTables) \o Migration!Guards(Migration!CalendarTables)
      /\ Migration!Chain[9] = Migration!Tables(Migration!MarketTables) \o Migration!Guards(Migration!MarketGuards)
      /\ Migration!Chain[10] = Migration!Tables(Migration!OrderTables) \o Migration!Guards(Migration!OrderTables)
  BY DEF Migration!Chain
<1>3. /\ Migration!Chain[11] = (Migration!ExpandVocabulary \o Migration!Tables(Migration!ExecutionTables))
                                 \o Migration!Guards(Migration!ExecutionTables)
      /\ Migration!Chain[12] =
           (<<Migration!Table("paper_runtimes"), Migration!Guard("paper_runtimes")>>
              \o Migration!Tables(Migration!WorkTables \o Migration!TrailTables)) \o Migration!Guards(Migration!RuntimeGuards)
  BY DEF Migration!Chain
<1>4. /\ Builds(Migration!Chain[1], TablesOf(1), GuardsOf(1)) /\ Builds(Migration!Chain[2], TablesOf(2), GuardsOf(2))
      /\ Builds(Migration!Chain[3], TablesOf(3), GuardsOf(3)) /\ Builds(Migration!Chain[4], TablesOf(4), GuardsOf(4))
      /\ Builds(Migration!Chain[5], TablesOf(5), GuardsOf(5)) /\ Builds(Migration!Chain[6], TablesOf(6), GuardsOf(6))
  <2>1. /\ "artifact_index_entries" \in Migration!RequiredTables /\ "paper_jobs" \in Migration!RequiredTables
        /\ "paper_job_submission_keys" \in Migration!RequiredTables
        /\ "paper_job_attempts" \in Migration!RequiredTables
        /\ "paper_job_result_references" \in Migration!RequiredTables
        /\ "portfolio_reviews" \in Migration!RequiredTables
    BY DEF Migration!RequiredTables, Migration!RequiredJobTables
  <2>2. Builds(Migration!Chain[1], TablesOf(1), GuardsOf(1))
    BY <1>1, EarlyTables, NoneBuild
  <2>3. Builds(Migration!Chain[2], TablesOf(2), GuardsOf(2))
    BY <1>1, <2>1, EarlyTables, OneBuilds
  <2>4. Builds(Migration!Chain[3], TablesOf(3), GuardsOf(3))
    BY <1>1, <2>1, EarlyTables, OneBuilds
  <2>5. Builds(Migration!Chain[4], TablesOf(4), GuardsOf(4))
    <3>1. Builds(<<Migration!Table("paper_job_submission_keys"), Migration!Table("paper_job_attempts")>>,
                 {"paper_job_submission_keys", "paper_job_attempts"}, {})
      BY <2>1, TwoBuild
    <3> QED
      BY <1>1, <3>1, EarlyTables
  <2>6. Builds(Migration!Chain[5], TablesOf(5), GuardsOf(5))
    BY <1>1, <2>1, EarlyTables, OneBuilds
  <2>7. Builds(Migration!Chain[6], TablesOf(6), GuardsOf(6))
    BY <1>1, <2>1, EarlyTables, OneBuilds
  <2> QED
    BY <2>2, <2>3, <2>4, <2>5, <2>6, <2>7
<1>5. Builds(Migration!Chain[7], TablesOf(7), GuardsOf(7))
  BY <1>2, LongLists, LateTables, ListBuilds
<1>6. Builds(Migration!Chain[8], TablesOf(8), GuardsOf(8))
  <2>1. /\ Migration!CalendarTables \in Seq(Migration!RequiredTables)
        /\ Names(Migration!CalendarTables) = TablesOf(8) /\ GuardsOf(8) = TablesOf(8)
    BY Lists, LateTables
  <2>2. Builds(Migration!Tables(Migration!CalendarTables) \o Migration!Guards(Migration!CalendarTables),
               Names(Migration!CalendarTables), Names(Migration!CalendarTables))
    BY <2>1, ListBuilds
  <2> QED
    BY <1>2, <2>1, <2>2
<1>7. Builds(Migration!Chain[9], TablesOf(9), GuardsOf(9))
  <2>1. Migration!MarketTables \in Seq(Migration!RequiredTables) /\ Migration!MarketGuards \in Seq(Migration!RequiredTables)
    BY Lists
  <2>2. Names(Migration!MarketTables) = TablesOf(9) /\ Names(Migration!MarketGuards) = GuardsOf(9)
    <3>1. Names(Migration!MarketTables) = TablesOf(9)
      BY Lists, LateTables
    <3>2. Names(Migration!MarketGuards) = GuardsOf(9)
      <4>1. Names(Migration!MarketGuards) = {"market_data_events", "market_data_replay_events", "market_data_replays"}
        BY Lists
      <4>2. GuardsOf(9) = {"market_data_events", "market_data_replays", "market_data_replay_events"}
        BY LateTables
      <4> QED
        BY ONLY <4>1, <4>2
    <3> QED
      BY <3>1, <3>2
  <2>3. GuardsOf(9) \subseteq TablesOf(9)
    BY LateTables
  <2>4. Builds(Migration!Tables(Migration!MarketTables) \o Migration!Guards(Migration!MarketGuards),
               Names(Migration!MarketTables), Names(Migration!MarketGuards))
    BY <2>1, <2>2, <2>3, ListBuilds
  <2> QED
    BY <1>2, <2>2, <2>4
<1>8. Builds(Migration!Chain[10], TablesOf(10), GuardsOf(10))
  BY <1>2, LongLists, LateTables, ListBuilds
<1>9. \E x : /\ Migration!Chain[11] = Migration!ExpandVocabulary \o x
             /\ Builds(x, TablesOf(11), GuardsOf(11))
  <2>1. Builds(Migration!Tables(Migration!ExecutionTables) \o Migration!Guards(Migration!ExecutionTables), TablesOf(11), GuardsOf(11))
    BY LongLists, LateTables, ListBuilds
  <2>2. /\ Migration!Tables(Migration!ExecutionTables) \in Seq(Statement)
        /\ Migration!Guards(Migration!ExecutionTables) \in Seq(Statement)
    BY LongLists, ListsMake
  <2>3. Migration!Chain[11] =
          Migration!ExpandVocabulary \o (Migration!Tables(Migration!ExecutionTables) \o Migration!Guards(Migration!ExecutionTables))
    <3>1. PICK e, t, g : /\ e = Migration!ExpandVocabulary /\ t = Migration!Tables(Migration!ExecutionTables)
                         /\ g = Migration!Guards(Migration!ExecutionTables)
      OBVIOUS
    <3>2. e \in Seq(Statement) /\ t \in Seq(Statement) /\ g \in Seq(Statement)
      BY <2>2, <3>1, Expansion
    <3>3. (e \o t) \o g = e \o (t \o g)
      BY <3>2, Join
    <3> QED
      BY <1>3, <3>1, <3>3
  <2> QED
    BY <2>1, <2>3
<1>10. Builds(Migration!Chain[12], TablesOf(12), GuardsOf(12))
  <2> DEFINE t == Migration!WorkTables \o Migration!TrailTables
  <2>1. PICK u : u = Migration!Tables(t) /\ Migration!RuntimeGuards = t
    BY DEF Migration!RuntimeGuards
  <2>2. PICK g : g = Migration!Guards(t)
    OBVIOUS
  <2>3. t \in Seq(Migration!RequiredTables) /\ Names(t) = TablesOf(12) \ {"paper_runtimes"}
    BY LongLists
  <2> HIDE DEF t
  <2>4. u \in Seq(Statement) /\ g \in Seq(Statement)
    BY <2>1, <2>2, <2>3, ListsMake
  <2>5. Builds(u \o g, TablesOf(12) \ {"paper_runtimes"}, TablesOf(12) \ {"paper_runtimes"})
    BY <2>1, <2>2, <2>3, ListBuilds
  <2>6. PICK p : p = <<Migration!Table("paper_runtimes"), Migration!Guard("paper_runtimes")>>
    OBVIOUS
  <2>7. "paper_runtimes" \in TablesOf(12) /\ "paper_runtimes" \in Migration!RequiredTables
    BY LateTables DEF TablesOf
  <2>8. Builds(p, {"paper_runtimes"}, {"paper_runtimes"})
    BY <2>6, <2>7, PairBuilds
  <2>9. Builds(p \o (u \o g), {"paper_runtimes"} \union (TablesOf(12) \ {"paper_runtimes"}),
                             {"paper_runtimes"} \union (TablesOf(12) \ {"paper_runtimes"}))
    BY <2>5, <2>8, StretchesBuild
  <2>10. {"paper_runtimes"} \union (TablesOf(12) \ {"paper_runtimes"}) = TablesOf(12)
    BY <2>7
  <2>11. p \in Seq(Statement)
    BY <2>8 DEF Builds
  <2>12. Migration!Chain[12] = (p \o u) \o g
    BY <1>3, <2>1, <2>2, <2>6 DEF t
  <2>13. Migration!Chain[12] = p \o (u \o g)
    BY <2>4, <2>11, <2>12, Join
  <2> QED
    BY <2>9, <2>10, <2>13, LateTables
<1>11. \A v \in (1..12) \ {11} : v \in {1, 2, 3, 4, 5, 6, 7, 8, 9, 10, 12}
  OBVIOUS
<1> QED
  BY <1>1, <1>4, <1>5, <1>6, <1>7, <1>8, <1>9, <1>10, <1>11

\* A sequence of fifteen statements before another.
LEMMA Fifteen ==
  ASSUME NEW S, NEW e \in Seq(S), NEW x \in Seq(S), NEW n, n = Len(e), NEW c, c = e \o x
  PROVE  /\ c \in Seq(S) /\ Len(x) \in Nat /\ Len(c) = n + Len(x)
         /\ \A i \in 1..n : i \in 1..Len(c) /\ c[i] = e[i]
         /\ \A j \in 1..Len(x) : n + j \in 1..Len(c) /\ c[n + j] = x[j]
         /\ \A i \in 1..Len(c) : i \in 1..n \/ \E j \in 1..Len(x) : i = n + j
<1>2. /\ c \in Seq(S) /\ Len(c) = Len(e) + Len(x) /\ Len(e) \in Nat /\ Len(x) \in Nat
      /\ \A i \in 1..Len(e) : c[i] = e[i]
      /\ \A i \in 1..Len(x) : c[Len(e) + i] = x[i]
      /\ \A i \in 1..Len(e) + Len(x) : i \in 1..Len(e) \/ \E j \in 1..Len(x) : i = Len(e) + j
  BY Concat
<1>3. PICK m : m = Len(x)
  OBVIOUS
<1>4. n \in Nat /\ m \in Nat /\ Len(c) = n + m
  BY <1>2, <1>3
<1>5. \A i \in 1..n : i \in 1..n + m
  BY <1>4
<1>6. \A j \in 1..m : n + j \in 1..n + m
  BY <1>4
<1> QED
  BY <1>2, <1>3, <1>4, <1>5, <1>6

\* The fifteen statements that rebuild three tables, by the table they are about.
LEMMA RebuildPlaces ==
  ASSUME NEW i \in 1..15
  PROVE  \E k \in 1..3 : i \in {4 * k - 3, 4 * k - 2, 4 * k - 1, 4 * k, 12 + k}
<1>1. CASE i \in 1..4 \/ i = 13
  <2>1. i \in {4 * 1 - 3, 4 * 1 - 2, 4 * 1 - 1, 4 * 1, 12 + 1} /\ 1 \in 1..3
    BY <1>1
  <2> QED
    BY <2>1
<1>2. CASE i \in 5..8 \/ i = 14
  <2>1. i \in {4 * 2 - 3, 4 * 2 - 2, 4 * 2 - 1, 4 * 2, 12 + 2} /\ 2 \in 1..3
    BY <1>2
  <2> QED
    BY <2>1
<1>3. CASE i \in 9..12 \/ i = 15
  <2>1. i \in {4 * 3 - 3, 4 * 3 - 2, 4 * 3 - 1, 4 * 3, 12 + 3} /\ 3 \in 1..3
    BY <1>3
  <2> QED
    BY <2>1
<1> QED
  BY <1>1, <1>2, <1>3

\* None of them makes a table or a guard that may be in the way.
LEMMA Rebuilding ==
  ASSUME NEW i \in 1..15
  PROVE  Migration!ExpandVocabulary[i].op \notin {"table", "guard"}
<1>1. PICK e : e = Migration!ExpandVocabulary
  OBVIOUS
<1>2. PICK k \in 1..3 : i \in {4 * k - 3, 4 * k - 2, 4 * k - 1, 4 * k, 12 + k}
  BY RebuildPlaces
<1>3. PICK t : t = Migration!Rebuilt[k]
  OBVIOUS
<1>4. t \in Migration!RequiredTables
  BY <1>3, RebuiltTables
<1>5. e[i] \in {Stmt("copy", t), Stmt("fill", t), Stmt("drop", t), Stmt("rename", t), Stmt("guard if missing", t)}
  <2>1. /\ e[4 * k - 3] = Stmt("copy", t) /\ e[4 * k - 2] = Stmt("fill", t) /\ e[4 * k - 1] = Stmt("drop", t)
        /\ e[4 * k] = Stmt("rename", t) /\ e[12 + k] = Stmt("guard if missing", t)
    BY <1>1, <1>3, Expansion
  <2>2. PICK a, b, c, d, f : a = 4 * k - 3 /\ b = 4 * k - 2 /\ c = 4 * k - 1 /\ d = 4 * k /\ f = 12 + k
    OBVIOUS
  <2>3. i \in {a, b, c, d, f}
    BY <1>2, <2>2
  <2> QED
    BY <2>1, <2>2, <2>3
<1>6. /\ Stmt("copy", t).op = "copy" /\ Stmt("fill", t).op = "fill" /\ Stmt("drop", t).op = "drop"
      /\ Stmt("rename", t).op = "rename" /\ Stmt("guard if missing", t).op = "guard if missing"
  BY DEF Stmt
<1> QED
  BY <1>1, <1>5, <1>6

\* What is true of the statements of every revision.
LEMMA StatementsOf ==
  ASSUME NEW v \in 1..12
  PROVE  /\ Migration!Chain[v] \in Seq(Statement)
         /\ \A i \in 1..Len(Migration!Chain[v]) :
              /\ Migration!Chain[v][i].op = "table" => Migration!Chain[v][i].on \in TablesOf(v)
              /\ Migration!Chain[v][i].op = "guard" =>
                   /\ Migration!Chain[v][i].on \in GuardsOf(v)
                   /\ \E j \in 1..i - 1 : Migration!Chain[v][j] = Migration!Table(Migration!Chain[v][i].on)
              /\ v # 11 => Migration!Chain[v][i].op \in {"table", "guard"}
         /\ \A t \in TablesOf(v) : \E i \in 1..Len(Migration!Chain[v]) : Migration!Chain[v][i] = Migration!Table(t)
         /\ \A t \in GuardsOf(v) : \E i \in 1..Len(Migration!Chain[v]) : Migration!Chain[v][i] = Migration!Guard(t)
<1>1. CASE v # 11
  <2>1. Builds(Migration!Chain[v], TablesOf(v), GuardsOf(v))
    BY <1>1, Revisions
  <2> QED
    BY <1>1, <2>1 DEF Builds
<1>2. CASE v = 11
  <2>1. PICK x : Migration!Chain[11] = Migration!ExpandVocabulary \o x /\ Builds(x, TablesOf(11), GuardsOf(11))
    BY Revisions
  <2>2. PICK c, e : c = Migration!Chain[11] /\ e = Migration!ExpandVocabulary
    OBVIOUS
  <2>3. x \in Seq(Statement)
    BY <2>1 DEF Builds
  <2>4. e \in Seq(Statement) /\ c = e \o x
    BY <2>1, <2>2, Expansion
  <2>a. PICK n : n = Len(e)
    OBVIOUS
  <2>b. /\ c \in Seq(Statement) /\ Len(x) \in Nat /\ Len(c) = n + Len(x)
        /\ \A i \in 1..n : i \in 1..Len(c) /\ c[i] = e[i]
        /\ \A j \in 1..Len(x) : n + j \in 1..Len(c) /\ c[n + j] = x[j]
        /\ \A i \in 1..Len(c) : i \in 1..n \/ \E j \in 1..Len(x) : i = n + j
    <3>1. /\ \A i \in 1..n : i \in 1..Len(c) /\ c[i] = e[i]
          /\ \A j \in 1..Len(x) : n + j \in 1..Len(c) /\ c[n + j] = x[j]
          /\ \A i \in 1..Len(c) : i \in 1..n \/ \E j \in 1..Len(x) : i = n + j
      BY <2>3, <2>4, <2>a, Fifteen
    <3>2. c \in Seq(Statement) /\ Len(x) \in Nat /\ Len(c) = n + Len(x)
      BY <2>3, <2>4, <2>a
    <3> QED
      BY <3>1, <3>2
  <2>c. n = 15
    BY <2>a, <2>2, Expansion
  <2>5. /\ c \in Seq(Statement) /\ Len(x) \in Nat /\ Len(c) = 15 + Len(x)
        /\ \A i \in 1..15 : i \in 1..Len(c) /\ c[i] = e[i]
        /\ \A j \in 1..Len(x) : 15 + j \in 1..Len(c) /\ c[15 + j] = x[j]
        /\ \A i \in 1..Len(c) : i \in 1..15 \/ \E j \in 1..Len(x) : i = 15 + j
    BY <2>b, <2>c
  <2>6. ASSUME NEW i \in 1..Len(c)
        PROVE  /\ c[i].op = "table" => c[i].on \in TablesOf(11)
               /\ c[i].op = "guard" => /\ c[i].on \in GuardsOf(11)
                                       /\ \E j \in 1..i - 1 : c[j] = Migration!Table(c[i].on)
    <3>1. CASE i \in 1..15
      <4>1. c[i] = e[i]
        BY <3>1, <2>5
      <4>2. c[i].op \notin {"table", "guard"}
        BY <3>1, <4>1, <2>2, Rebuilding
      <4> QED
        BY <4>2
    <3>2. ASSUME NEW j \in 1..Len(x), i = 15 + j
          PROVE  /\ c[i].op = "table" => c[i].on \in TablesOf(11)
                 /\ c[i].op = "guard" => /\ c[i].on \in GuardsOf(11)
                                         /\ \E k \in 1..i - 1 : c[k] = Migration!Table(c[i].on)
      <4>1. c[i] = x[j]
        BY <3>2, <2>5
      <4>2. \/ x[j].op = "table" /\ x[j].on \in TablesOf(11)
            \/ /\ x[j].op = "guard" /\ x[j].on \in GuardsOf(11)
               /\ \E k \in 1..j - 1 : x[k] = Migration!Table(x[j].on)
        BY <2>1 DEF Builds
      <4>3. ASSUME NEW k \in 1..j - 1, x[k] = Migration!Table(x[j].on)
            PROVE  15 + k \in 1..i - 1 /\ c[15 + k] = Migration!Table(c[i].on)
        <5>1. PICK m : m = Len(x)
          OBVIOUS
        <5>2. k \in 1..m /\ 15 + k \in 1..i - 1
          BY <3>2, <2>5, <5>1
        <5>3. c[15 + k] = x[k]
          BY <5>1, <5>2, <2>5
        <5> QED
          BY <5>2, <5>3, <4>1, <4>3
      <4>4. CASE x[j].op = "table" /\ x[j].on \in TablesOf(11)
        BY <4>1, <4>4
      <4>5. CASE /\ x[j].op = "guard" /\ x[j].on \in GuardsOf(11)
                 /\ \E k \in 1..j - 1 : x[k] = Migration!Table(x[j].on)
        BY <4>1, <4>3, <4>5
      <4> QED
        BY <4>2, <4>4, <4>5
    <3> QED
      BY <2>5, <3>1, <3>2
  <2>8. ASSUME NEW t \in TablesOf(11) PROVE \E i \in 1..Len(c) : c[i] = Migration!Table(t)
    <3>1. PICK j \in 1..Len(x) : x[j] = Migration!Table(t)
      BY <2>1 DEF Builds
    <3> QED
      BY <3>1, <2>5
  <2>9. ASSUME NEW t \in GuardsOf(11) PROVE \E i \in 1..Len(c) : c[i] = Migration!Guard(t)
    <3>1. PICK j \in 1..Len(x) : x[j] = Migration!Guard(t)
      BY <2>1 DEF Builds
    <3> QED
      BY <3>1, <2>5
  <2> QED
    BY <1>2, <2>2, <2>5, <2>6, <2>8, <2>9
<1> QED
  BY <1>1, <1>2

\* What the revision that rebuilds three tables starts with.
LEMMA Eleventh ==
  /\ 15 \in 1..Len(Migration!Chain[11])
  /\ \A i \in 1..Len(Migration!Chain[11]) : i \notin 1..15 => Migration!Chain[11][i].op \in {"table", "guard"}
  /\ \A k \in 1..3 : /\ Migration!Chain[11][4 * k - 3] = Stmt("copy", Migration!Rebuilt[k])
                     /\ Migration!Chain[11][4 * k - 2] = Stmt("fill", Migration!Rebuilt[k])
                     /\ Migration!Chain[11][4 * k - 1] = Stmt("drop", Migration!Rebuilt[k])
                     /\ Migration!Chain[11][4 * k] = Stmt("rename", Migration!Rebuilt[k])
                     /\ Migration!Chain[11][12 + k] = Stmt("guard if missing", Migration!Rebuilt[k])
<1>1. PICK x : Migration!Chain[11] = Migration!ExpandVocabulary \o x /\ Builds(x, TablesOf(11), GuardsOf(11))
  BY Revisions
<1>2. PICK c, e : c = Migration!Chain[11] /\ e = Migration!ExpandVocabulary
  OBVIOUS
<1>3. x \in Seq(Statement)
  BY <1>1 DEF Builds
<1>4. e \in Seq(Statement) /\ c = e \o x
  BY <1>1, <1>2, Expansion
<1>a. PICK n : n = Len(e)
  OBVIOUS
<1>b. /\ \A i \in 1..n : i \in 1..Len(c) /\ c[i] = e[i]
      /\ \A j \in 1..Len(x) : n + j \in 1..Len(c) /\ c[n + j] = x[j]
      /\ \A i \in 1..Len(c) : i \in 1..n \/ \E j \in 1..Len(x) : i = n + j
  BY <1>3, <1>4, <1>a, Fifteen
<1>c. n = 15
  BY <1>a, <1>2, Expansion
<1>5. /\ \A i \in 1..15 : i \in 1..Len(c) /\ c[i] = e[i]
      /\ \A j \in 1..Len(x) : 15 + j \in 1..Len(c) /\ c[15 + j] = x[j]
      /\ \A i \in 1..Len(c) : i \in 1..15 \/ \E j \in 1..Len(x) : i = 15 + j
  BY <1>b, <1>c
<1>6. ASSUME NEW i \in 1..Len(c), i \notin 1..15 PROVE c[i].op \in {"table", "guard"}
  <2>1. PICK j \in 1..Len(x) : i = 15 + j
    BY <1>5, <1>6
  <2>2. c[i] = x[j]
    BY <2>1, <1>5
  <2> QED
    BY <2>1, <2>2, <1>1 DEF Builds
<1>7. ASSUME NEW k \in 1..3
      PROVE  /\ c[4 * k - 3] = e[4 * k - 3] /\ c[4 * k - 2] = e[4 * k - 2] /\ c[4 * k - 1] = e[4 * k - 1]
             /\ c[4 * k] = e[4 * k] /\ c[12 + k] = e[12 + k]
  <2>1. /\ 4 * k - 3 \in 1..15 /\ 4 * k - 2 \in 1..15 /\ 4 * k - 1 \in 1..15 /\ 4 * k \in 1..15 /\ 12 + k \in 1..15
    OBVIOUS
  <2> QED
    BY <2>1, <1>5
<1>8. ASSUME NEW k \in 1..3
      PROVE  /\ c[4 * k - 3] = Stmt("copy", Migration!Rebuilt[k]) /\ c[4 * k - 2] = Stmt("fill", Migration!Rebuilt[k])
             /\ c[4 * k - 1] = Stmt("drop", Migration!Rebuilt[k]) /\ c[4 * k] = Stmt("rename", Migration!Rebuilt[k])
             /\ c[12 + k] = Stmt("guard if missing", Migration!Rebuilt[k])
  BY <1>2, <1>7, Expansion
<1>9. 15 \in 1..Len(c)
  BY <1>5
<1> QED
  BY <1>2, <1>6, <1>8, <1>9

\* Every required table is made by one of the revisions 2 to 12; every guarded table is a table.
LEMMA Eras ==
  /\ \A t \in Migration!RequiredTables : Era(t) \in 2..12
  /\ Migration!RequiredGuards \subseteq Migration!RequiredTables
<1>1. \A t \in Migration!RequiredTables : Era(t) \in 2..12
  BY DEF Era
<1>2. Migration!RequiredGuards \subseteq Migration!RequiredTables
  BY DEF Migration!RequiredTables, Migration!RequiredJobTables, Migration!RequiredAccountTables,
         Migration!RequiredOrderTables, Migration!RequiredExecutionTables, Migration!RequiredGuards
<1> QED
  BY <1>1, <1>2

\* What the chain makes up to a revision is what the verifier asks for, up to that revision.
LEMMA MadeSoFar ==
  ASSUME NEW r \in 0..12
  PROVE  /\ Migration!Made("table", r) = {t \in Migration!RequiredTables : Era(t) <= r}
         /\ Migration!Made("guard", r) = {t \in Migration!RequiredGuards : Era(t) <= r}
<1>1. ASSUME NEW v \in 1..12
      PROVE  DOMAIN Migration!Chain[v] = 1..Len(Migration!Chain[v])
  <2>1. Migration!Chain[v] \in Seq(Statement)
    BY StatementsOf
  <2> QED
    BY <2>1
<1>2. \A t \in Migration!RequiredTables : Era(t) \in 2..12 /\ t \in TablesOf(Era(t))
  BY Eras DEF TablesOf
<1>3. \A t \in Migration!RequiredGuards : Era(t) \in 2..12 /\ t \in GuardsOf(Era(t)) /\ t \in Migration!RequiredTables
  BY Eras DEF GuardsOf
<1>4. ASSUME NEW o, NEW t
      PROVE  t \in Migration!Made(o, r) <=>
               \E v \in 1..r : \E i \in 1..Len(Migration!Chain[v]) :
                 Migration!Chain[v][i].op = o /\ Migration!Chain[v][i].on = t
  <2>1. \A v \in 1..r : v \in 1..12
    OBVIOUS
  <2>2. \A v \in 1..r : DOMAIN Migration!Chain[v] = 1..Len(Migration!Chain[v])
    BY <2>1, <1>1
  <2>3. t \in Migration!Made(o, r) <=>
        \E v \in 1..r : t \in {Migration!Chain[v][i].on : i \in {j \in DOMAIN Migration!Chain[v] : Migration!Chain[v][j].op = o}}
    BY Zenon DEF Migration!Made
  <2>4. ASSUME NEW v \in 1..r
        PROVE  t \in {Migration!Chain[v][i].on : i \in {j \in DOMAIN Migration!Chain[v] : Migration!Chain[v][j].op = o}} <=>
               \E i \in 1..Len(Migration!Chain[v]) : Migration!Chain[v][i].op = o /\ Migration!Chain[v][i].on = t
    <3>1. PICK c, d : c = Migration!Chain[v] /\ d = DOMAIN c
      OBVIOUS
    <3>2. d = 1..Len(c)
      BY <2>2, <3>1
    <3>3. t \in {c[i].on : i \in {j \in d : c[j].op = o}} <=> \E i \in d : c[i].op = o /\ c[i].on = t
      BY Zenon
    <3> QED
      BY <3>1, <3>2, <3>3
  <2> QED
    BY <2>3, <2>4
<1>5. ASSUME NEW t PROVE t \in Migration!Made("table", r) <=> t \in Migration!RequiredTables /\ Era(t) <= r
  <2>1. ASSUME NEW v \in 1..r, NEW i \in 1..Len(Migration!Chain[v]),
               Migration!Chain[v][i].op = "table", Migration!Chain[v][i].on = t
        PROVE  t \in Migration!RequiredTables /\ Era(t) <= r
    <3>1. v \in 1..12
      OBVIOUS
    <3>2. t \in TablesOf(v)
      BY <2>1, <3>1, StatementsOf
    <3> QED
      BY <3>2 DEF TablesOf
  <2>2. ASSUME t \in Migration!RequiredTables, Era(t) <= r
        PROVE  \E v \in 1..r : \E i \in 1..Len(Migration!Chain[v]) :
                 Migration!Chain[v][i].op = "table" /\ Migration!Chain[v][i].on = t
    <3>1. PICK v : v = Era(t)
      OBVIOUS
    <3>2. v \in 1..r /\ v \in 1..12 /\ t \in TablesOf(v)
      BY <2>2, <1>2, <3>1
    <3>3. PICK i \in 1..Len(Migration!Chain[v]) : Migration!Chain[v][i] = Migration!Table(t)
      BY <3>2, StatementsOf
    <3> QED
      BY <2>2, <3>2, <3>3, Singles
  <2> QED
    BY <2>1, <2>2, <1>4
<1>6. ASSUME NEW t PROVE t \in Migration!Made("guard", r) <=> t \in Migration!RequiredGuards /\ Era(t) <= r
  <2>1. ASSUME NEW v \in 1..r, NEW i \in 1..Len(Migration!Chain[v]),
               Migration!Chain[v][i].op = "guard", Migration!Chain[v][i].on = t
        PROVE  t \in Migration!RequiredGuards /\ Era(t) <= r
    <3>1. v \in 1..12
      OBVIOUS
    <3>2. t \in GuardsOf(v)
      BY <2>1, <3>1, StatementsOf
    <3> QED
      BY <3>2 DEF GuardsOf
  <2>2. ASSUME t \in Migration!RequiredGuards, Era(t) <= r
        PROVE  \E v \in 1..r : \E i \in 1..Len(Migration!Chain[v]) :
                 Migration!Chain[v][i].op = "guard" /\ Migration!Chain[v][i].on = t
    <3>1. PICK v : v = Era(t)
      OBVIOUS
    <3>2. v \in 1..r /\ v \in 1..12 /\ t \in GuardsOf(v) /\ t \in Migration!RequiredTables
      BY <2>2, <1>3, <3>1
    <3>3. PICK i \in 1..Len(Migration!Chain[v]) : Migration!Chain[v][i] = Migration!Guard(t)
      BY <3>2, StatementsOf
    <3> QED
      BY <3>2, <3>3, Singles
  <2> QED
    BY <2>1, <2>2, <1>4
<1> QED
  BY <1>5, <1>6

\* The tables a rebuild copies, drops and puts back.
RebuiltSet == {Migration!Rebuilt[1], Migration!Rebuilt[2], Migration!Rebuilt[3]}
CopySet    == {Migration!Copy(t) : t \in RebuiltSet}

\* A copy is no table of the product, and no two tables have the same copy.
LEMMA Copies ==
  /\ \A k \in 1..3 : Migration!Rebuilt[k] \in RebuiltSet
  /\ \A t \in RebuiltSet : /\ \E k \in 1..3 : t = Migration!Rebuilt[k]
                           /\ t \in Migration!RequiredTables /\ t \in Migration!RequiredGuards
                           /\ Era(t) = 7
                           /\ Migration!Copy(t) \notin Migration!RequiredTables /\ Migration!Copy(t) \in CopySet
  /\ \A t, u \in RebuiltSet : Migration!Copy(t) = Migration!Copy(u) => t = u
<1>1. /\ Migration!Copy(Migration!Rebuilt[1]) = "_alembic_tmp_paper_account_events"
      /\ Migration!Copy(Migration!Rebuilt[2]) = "_alembic_tmp_paper_cash_ledger_entries"
      /\ Migration!Copy(Migration!Rebuilt[3]) = "_alembic_tmp_paper_position_ledger_entries"
  BY RebuiltTables DEF Migration!Copy
<1>2. /\ "_alembic_tmp_paper_account_events" \notin Migration!RequiredTables
      /\ "_alembic_tmp_paper_cash_ledger_entries" \notin Migration!RequiredTables
      /\ "_alembic_tmp_paper_position_ledger_entries" \notin Migration!RequiredTables
  BY DEF Migration!RequiredTables, Migration!RequiredJobTables, Migration!RequiredAccountTables,
         Migration!RequiredOrderTables, Migration!RequiredExecutionTables
<1>3. \A k \in 1..3 : Migration!Rebuilt[k] \in RebuiltSet
  BY DEF RebuiltSet
<1>4. \A t \in RebuiltSet : \E k \in 1..3 : t = Migration!Rebuilt[k]
  BY DEF RebuiltSet
<1>5. \A t \in RebuiltSet : /\ t \in Migration!RequiredTables /\ t \in Migration!RequiredGuards
                            /\ Era(t) = 7
  BY <1>4, RebuiltTables DEF TablesOf, GuardsOf
<1>6. \A t \in RebuiltSet : Migration!Copy(t) \notin Migration!RequiredTables /\ Migration!Copy(t) \in CopySet
  BY <1>1, <1>2 DEF RebuiltSet, CopySet
<1>7. \A t, u \in RebuiltSet : Migration!Copy(t) = Migration!Copy(u) => t = u
  BY <1>1 DEF RebuiltSet
<1> QED
  BY <1>3, <1>4, <1>5, <1>6, <1>7

----------------------------------------------------------------------------
\* The shape of the database, and what it may hold.
DbShape ==
  /\ db = [rev |-> db.rev, tables |-> db.tables, guards |-> db.guards, rows |-> db.rows, file |-> db.file]
  /\ db.rev \in 0..12 /\ db.file \in BOOLEAN /\ next \in Nat \ {0} /\ dirs \subseteq Migration!Artifacts
DbSets ==
  /\ db.tables \subseteq Migration!RequiredTables \union CopySet
  /\ db.guards \subseteq db.tables /\ db.guards \subseteq Migration!RequiredGuards
  /\ db.rows \subseteq db.tables
  /\ kept \subseteq {t \in Migration!RequiredTables : Era(t) <= db.rev}
  /\ \A t \in RebuiltSet : Migration!Copy(t) \in db.tables => db.rev = 10

\* Every table of a stamped revision is there, or the copy of it that its rebuild has made.
TablesStand ==
  \A t \in Migration!RequiredTables :
    Era(t) <= db.rev => t \in db.tables \/ (t \in RebuiltSet /\ Migration!Copy(t) \in db.tables)
\* The rows are in the table, or in the copy once the table is dropped.
RowsStand ==
  \A t \in kept : IF t \in db.tables THEN t \in db.rows
                  ELSE t \in RebuiltSet /\ Migration!Copy(t) \in db.rows

\* What the statements executed so far have made of the database.
TablesMade ==
  phase = "upgrading" /\ db.rev < 12 =>
    \A i \in 1..Len(Migration!Chain[db.rev + 1]) :
      i < next /\ Migration!Chain[db.rev + 1][i].op = "table" =>
        Migration!Chain[db.rev + 1][i].on \in db.tables
RebuildStands(k) ==
  /\ next = 4 * k - 2 => /\ Migration!Rebuilt[k] \in db.tables
                         /\ Migration!Copy(Migration!Rebuilt[k]) \in db.tables
  /\ next = 4 * k - 1 => /\ Migration!Rebuilt[k] \in db.tables
                         /\ Migration!Copy(Migration!Rebuilt[k]) \in db.tables
                         /\ Migration!Rebuilt[k] \in db.rows => Migration!Copy(Migration!Rebuilt[k]) \in db.rows
  /\ next = 4 * k => /\ Migration!Rebuilt[k] \notin db.tables
                     /\ Migration!Copy(Migration!Rebuilt[k]) \in db.tables
  /\ next > 4 * k => /\ Migration!Rebuilt[k] \in db.tables
                     /\ Migration!Copy(Migration!Rebuilt[k]) \notin db.tables
RebuildsStand == phase = "upgrading" /\ db.rev = 10 => \A k \in 1..3 : RebuildStands(k)

PhasesStand ==
  /\ phase \in {"stopped", "preparing", "reading", "upgrading", "verifying", "serving", "refused"}
  /\ phase \in {"reading", "upgrading", "verifying", "serving"} => dirs = Migration!Artifacts
  /\ phase \in {"verifying", "serving"} => db.rev = 12

UpgradeInv ==
  /\ DbShape /\ DbSets /\ TablesStand /\ RowsStand /\ TablesMade /\ RebuildsStand /\ PhasesStand
  /\ Migration!ServedIsWhole /\ Migration!RefusedForCause

\* The invariant says what the runs check.
LEMMA UpgradeInvSuffices == UpgradeInv => UpgradesKeepRows
<1> SUFFICES ASSUME UpgradeInv PROVE UpgradesKeepRows
  OBVIOUS
<1>1. Migration!TypeOK
  BY DEF UpgradeInv, DbShape, DbSets, PhasesStand, Migration!TypeOK, Migration!Newest
<1>2. Migration!RowsSurvive
  <2> SUFFICES ASSUME NEW t \in kept, t \notin db.rows
               PROVE  \E i \in 1..3 : t = Migration!Rebuilt[i] /\ Migration!Copy(t) \in db.rows
    BY DEF Migration!RowsSurvive
  <2>1. t \in RebuiltSet /\ Migration!Copy(t) \in db.rows
    BY DEF UpgradeInv, RowsStand
  <2> QED
    BY <2>1, Copies
<1>3. Migration!ServedIsWhole /\ Migration!RefusedForCause
  BY DEF UpgradeInv
<1> QED
  BY <1>1, <1>2, <1>3 DEF UpgradesKeepRows, Migration!UpgradesKeepRows

----------------------------------------------------------------------------
\* A database found at a revision.
LEMMA WholeStands ==
  ASSUME NEW r \in 1..12, db = Migration!Whole(r)
  PROVE  /\ db = [rev |-> r, tables |-> {t \in Migration!RequiredTables : Era(t) <= r},
                  guards |-> {t \in Migration!RequiredGuards : Era(t) <= r},
                  rows |-> {t \in Migration!RequiredTables : Era(t) <= r}, file |-> TRUE]
<1>1. r \in 0..12
  OBVIOUS
<1>2. /\ Migration!Made("table", r) = {t \in Migration!RequiredTables : Era(t) <= r}
      /\ Migration!Made("guard", r) = {t \in Migration!RequiredGuards : Era(t) <= r}
  BY <1>1, MadeSoFar
<1> QED
  BY <1>2 DEF Migration!Whole

\* The invariant holds of every workspace the startup may find.
LEMMA UpgradeInit == Migration!MigrationAssumption /\ Migration!Init => UpgradeInv
<1> SUFFICES ASSUME Migration!MigrationAssumption, Migration!Init PROVE UpgradeInv
  OBVIOUS
<1>1. phase = "stopped" /\ next = 1 /\ kept = db.rows /\ dirs \subseteq Migration!Artifacts
  BY DEF Migration!Init
<1>2. \E r \in 0..12, G \in SUBSET Migration!RequiredGuards, f \in BOOLEAN :
        /\ G \subseteq {t \in Migration!RequiredTables : Era(t) <= r}
        /\ db = [rev |-> r, tables |-> {t \in Migration!RequiredTables : Era(t) <= r}, guards |-> G,
                 rows |-> {t \in Migration!RequiredTables : Era(t) <= r}, file |-> f]
  <2>1. CASE db = Migration!NoFile
    <3>1. {t \in Migration!RequiredTables : Era(t) <= 0} = {}
      BY Eras
    <3>2. db = [rev |-> 0, tables |-> {t \in Migration!RequiredTables : Era(t) <= 0}, guards |-> {},
                rows |-> {t \in Migration!RequiredTables : Era(t) <= 0}, file |-> FALSE]
      BY <2>1, <3>1 DEF Migration!NoFile
    <3>3. 0 \in 0..12 /\ {} \in SUBSET Migration!RequiredGuards /\ FALSE \in BOOLEAN
      OBVIOUS
    <3> QED
      BY <3>2, <3>3, Zenon
  <2>2. CASE db = Migration!Damaged
    <3>1. PICK G : G = Migration!Made("guard", 12) \ {"paper_account_events"}
      OBVIOUS
    <3>2. G \in SUBSET Migration!RequiredGuards /\ G \subseteq {t \in Migration!RequiredTables : Era(t) <= 12}
      BY <3>1, MadeSoFar, Eras
    <3>3. db = [rev |-> 12, tables |-> {t \in Migration!RequiredTables : Era(t) <= 12}, guards |-> G,
                rows |-> {t \in Migration!RequiredTables : Era(t) <= 12}, file |-> TRUE]
      <4>1. Migration!Made("table", 12) = {t \in Migration!RequiredTables : Era(t) <= 12} /\ 12 \in 0..12
        BY MadeSoFar
      <4>2. PICK w : w = Migration!Whole(12)
        OBVIOUS
      <4>3. w = [rev |-> 12, tables |-> {t \in Migration!RequiredTables : Era(t) <= 12},
                 guards |-> Migration!Made("guard", 12),
                 rows |-> {t \in Migration!RequiredTables : Era(t) <= 12}, file |-> TRUE]
        BY <4>1, <4>2 DEF Migration!Whole
      <4>4. db = [w EXCEPT !.guards = @ \ {"paper_account_events"}]
        BY <2>2, <4>2 DEF Migration!Damaged, Migration!Newest
      <4> QED
        BY <3>1, <4>3, <4>4
    <3>4. 12 \in 0..12 /\ TRUE \in BOOLEAN
      OBVIOUS
    <3> QED
      BY <3>2, <3>3, <3>4, Zenon
  <2>3. ASSUME NEW r \in Populated, db = Migration!Whole(r)
        PROVE  \E q \in 0..12, G \in SUBSET Migration!RequiredGuards, f \in BOOLEAN :
                 /\ G \subseteq {t \in Migration!RequiredTables : Era(t) <= q}
                 /\ db = [rev |-> q, tables |-> {t \in Migration!RequiredTables : Era(t) <= q}, guards |-> G,
                          rows |-> {t \in Migration!RequiredTables : Era(t) <= q}, file |-> f]
    <3>1. r \in 1..12 /\ r \in 0..12
      BY DEF Migration!MigrationAssumption, Migration!Newest
    <3>2. PICK G : G = {t \in Migration!RequiredGuards : Era(t) <= r}
      OBVIOUS
    <3>3. G \in SUBSET Migration!RequiredGuards /\ G \subseteq {t \in Migration!RequiredTables : Era(t) <= r}
      BY <3>2, Eras
    <3>4. db = [rev |-> r, tables |-> {t \in Migration!RequiredTables : Era(t) <= r}, guards |-> G,
                rows |-> {t \in Migration!RequiredTables : Era(t) <= r}, file |-> TRUE]
      BY <2>3, <3>1, <3>2, WholeStands
    <3> QED
      BY <3>1, <3>3, <3>4, Zenon
  <2> QED
    BY <2>1, <2>2, <2>3 DEF Migration!Init
<1>3. PICK r \in 0..12, G \in SUBSET Migration!RequiredGuards, f \in BOOLEAN :
        /\ G \subseteq {t \in Migration!RequiredTables : Era(t) <= r}
        /\ db = [rev |-> r, tables |-> {t \in Migration!RequiredTables : Era(t) <= r}, guards |-> G,
                 rows |-> {t \in Migration!RequiredTables : Era(t) <= r}, file |-> f]
  BY <1>2
<1>4. /\ db.rev = r /\ db.guards = G /\ db.file = f
      /\ db.tables = {t \in Migration!RequiredTables : Era(t) <= r} /\ db.rows = db.tables
  BY <1>3
<1>5. DbShape
  BY <1>1, <1>3, <1>4 DEF DbShape
<1>6. \A t \in RebuiltSet : Migration!Copy(t) \notin db.tables
  BY <1>4, Copies
<1>7. DbSets
  BY <1>1, <1>3, <1>4, <1>6 DEF DbSets
<1>8. TablesStand /\ RowsStand
  BY <1>1, <1>4 DEF TablesStand, RowsStand
<1>9. TablesMade /\ RebuildsStand /\ PhasesStand /\ Migration!ServedIsWhole /\ Migration!RefusedForCause
  BY <1>1 DEF TablesMade, RebuildsStand, PhasesStand, Migration!ServedIsWhole, Migration!RefusedForCause
<1> QED
  BY <1>5, <1>7, <1>8, <1>9 DEF UpgradeInv

----------------------------------------------------------------------------
\* What a statement makes of the database.
LEMMA StatementOutcomes ==
  ASSUME DbShape, NEW s
  PROVE  /\ s.op = "table" =>
              Migration!Executed(s) = [rev |-> db.rev, tables |-> db.tables \union {s.on}, guards |-> db.guards,
                                       rows |-> db.rows, file |-> db.file]
         /\ s.op \in {"guard", "guard if missing"} =>
              Migration!Executed(s) = [rev |-> db.rev, tables |-> db.tables, guards |-> db.guards \union {s.on},
                                       rows |-> db.rows, file |-> db.file]
         /\ s.op = "copy" =>
              Migration!Executed(s) = [rev |-> db.rev, tables |-> db.tables \union {Migration!Copy(s.on)},
                                       guards |-> db.guards, rows |-> db.rows, file |-> db.file]
         /\ s.op = "fill" =>
              Migration!Executed(s) =
                [rev |-> db.rev, tables |-> db.tables, guards |-> db.guards,
                 rows |-> IF s.on \in db.rows THEN db.rows \union {Migration!Copy(s.on)} ELSE db.rows,
                 file |-> db.file]
         /\ s.op = "drop" =>
              Migration!Executed(s) = [rev |-> db.rev, tables |-> db.tables \ {s.on}, guards |-> db.guards \ {s.on},
                                       rows |-> db.rows \ {s.on}, file |-> db.file]
         /\ s.op = "rename" =>
              Migration!Executed(s) = [rev |-> db.rev, tables |-> Migration!Moved(db.tables, Migration!Copy(s.on), s.on),
                                       guards |-> db.guards,
                                       rows |-> Migration!Moved(db.rows, Migration!Copy(s.on), s.on),
                                       file |-> db.file]
<1>1. db = [rev |-> db.rev, tables |-> db.tables, guards |-> db.guards, rows |-> db.rows, file |-> db.file]
  BY DEF DbShape
<1>2. PICK r, T, G, W, f : r = db.rev /\ T = db.tables /\ G = db.guards /\ W = db.rows /\ f = db.file
  OBVIOUS
<1>3. db = [rev |-> r, tables |-> T, guards |-> G, rows |-> W, file |-> f]
  BY <1>1, <1>2
<1>4. s.op = "table" =>
        Migration!Executed(s) = [rev |-> r, tables |-> T \union {s.on}, guards |-> G, rows |-> W, file |-> f]
  BY <1>3 DEF Migration!Executed
<1>5. s.op \in {"guard", "guard if missing"} =>
        Migration!Executed(s) = [rev |-> r, tables |-> T, guards |-> G \union {s.on}, rows |-> W, file |-> f]
  BY <1>3 DEF Migration!Executed
<1>6. s.op = "copy" =>
        Migration!Executed(s) = [rev |-> r, tables |-> T \union {Migration!Copy(s.on)}, guards |-> G, rows |-> W, file |-> f]
  BY <1>3 DEF Migration!Executed
<1>7. s.op = "fill" =>
        Migration!Executed(s) = [rev |-> r, tables |-> T, guards |-> G,
                                 rows |-> IF s.on \in W THEN W \union {Migration!Copy(s.on)} ELSE W, file |-> f]
  BY <1>3 DEF Migration!Executed
<1>8. s.op = "drop" =>
        Migration!Executed(s) = [rev |-> r, tables |-> T \ {s.on}, guards |-> G \ {s.on}, rows |-> W \ {s.on}, file |-> f]
  BY <1>3 DEF Migration!Executed
<1>9. s.op = "rename" =>
        Migration!Executed(s) = [rev |-> r, tables |-> Migration!Moved(T, Migration!Copy(s.on), s.on), guards |-> G,
                                 rows |-> Migration!Moved(W, Migration!Copy(s.on), s.on), file |-> f]
  BY <1>3 DEF Migration!Executed
<1> QED
  BY <1>2, <1>4, <1>5, <1>6, <1>7, <1>8, <1>9

\* A statement is executed: nothing but the database and the place in the revision changes.
Executes(T, G, W) ==
  /\ phase = "upgrading" /\ phase' = "upgrading" /\ db.rev < 12
  /\ dirs' = dirs /\ demo' = demo /\ kept' = kept /\ next' = next + 1
  /\ db' = [rev |-> db.rev, tables |-> T, guards |-> G, rows |-> W, file |-> db.file]

\* What a statement must leave as it is for the invariant to go on.
LEMMA StatementKeeps ==
  ASSUME UpgradeInv, NEW T, NEW G, NEW W, Executes(T, G, W),
         T \subseteq Migration!RequiredTables \union CopySet,
         G \subseteq T, G \subseteq Migration!RequiredGuards, W \subseteq T,
         \A t \in RebuiltSet : Migration!Copy(t) \in T => db.rev = 10,
         \A t \in Migration!RequiredTables : t \in db.tables =>
           t \in T \/ (t \in RebuiltSet /\ Migration!Copy(t) \in T),
         \A t \in RebuiltSet : t \notin db.tables /\ Migration!Copy(t) \in db.tables =>
           t \in T \/ Migration!Copy(t) \in T,
         \A t \in kept : IF t \in T THEN t \in W ELSE t \in RebuiltSet /\ Migration!Copy(t) \in W,
         \A t \in TablesOf(db.rev + 1) : t \in db.tables => t \in T,
         Migration!Chain[db.rev + 1][next].op = "table" => Migration!Chain[db.rev + 1][next].on \in T,
         db.rev = 10 => \A k \in 1..3 : RebuildStands(k)'
  PROVE  UpgradeInv'
<1>1. /\ phase = "upgrading" /\ phase' = "upgrading" /\ dirs' = dirs /\ kept' = kept /\ next' = next + 1
      /\ db'.rev = db.rev /\ db'.tables = T /\ db'.guards = G /\ db'.rows = W /\ db'.file = db.file
      /\ db' = [rev |-> db'.rev, tables |-> db'.tables, guards |-> db'.guards, rows |-> db'.rows, file |-> db'.file]
      /\ db.rev < 12
  BY DEF Executes
<1>2. DbShape /\ DbSets /\ TablesStand /\ TablesMade /\ PhasesStand
  BY DEF UpgradeInv
<1>3. DbShape'
  BY <1>1, <1>2 DEF DbShape
<1>4. DbSets'
  <2>1. kept' \subseteq {t \in Migration!RequiredTables : Era(t) <= db'.rev}
    BY <1>1, <1>2 DEF DbSets
  <2>2. \A t \in RebuiltSet : Migration!Copy(t) \in db'.tables => db'.rev = 10
    BY <1>1
  <2> QED
    BY <1>1, <2>1, <2>2 DEF DbSets
<1>5. TablesStand'
  <2>1. ASSUME NEW t \in Migration!RequiredTables, Era(t) <= db.rev
        PROVE  t \in T \/ (t \in RebuiltSet /\ Migration!Copy(t) \in T)
    <3>1. t \in db.tables \/ (t \in RebuiltSet /\ Migration!Copy(t) \in db.tables)
      BY <2>1, <1>2 DEF TablesStand
    <3> QED
      BY <3>1
  <2> QED
    BY <1>1, <2>1 DEF TablesStand
<1>6. RowsStand'
  BY <1>1 DEF RowsStand
<1>7. TablesMade'
  <2>1. PICK c : c = Migration!Chain[db.rev + 1]
    OBVIOUS
  <2>2. ASSUME NEW i \in 1..Len(c), i < next + 1, c[i].op = "table"
        PROVE  c[i].on \in T
    <3>1. CASE i < next
      <4>1. c[i].on \in db.tables
        BY <2>1, <2>2, <3>1, <1>1, <1>2 DEF TablesMade
      <4>2. db.rev + 1 \in 1..12
        BY <1>1, <1>2 DEF DbShape
      <4>3. c[i].on \in TablesOf(db.rev + 1)
        BY <2>1, <2>2, <4>2, StatementsOf
      <4> QED
        BY <4>1, <4>3
    <3>2. CASE i = next
      BY <2>1, <2>2, <3>2
    <3>3. i < next \/ i = next
      BY <2>2, <1>2 DEF DbShape
    <3> QED
      BY <3>1, <3>2, <3>3
  <2>3. \A i \in 1..Len(Migration!Chain[db'.rev + 1]) :
          i < next' /\ Migration!Chain[db'.rev + 1][i].op = "table" =>
            Migration!Chain[db'.rev + 1][i].on \in db'.tables
    BY <2>1, <2>2, <1>1
  <2> QED
    BY <2>3 DEF TablesMade
<1>8. RebuildsStand'
  <2>1. db.rev = 10 => \A k \in 1..3 : RebuildStands(k)'
    OBVIOUS
  <2> QED
    BY <1>1, <2>1 DEF RebuildsStand
<1>9. PhasesStand' /\ Migration!ServedIsWhole' /\ Migration!RefusedForCause'
  BY <1>1, <1>2 DEF PhasesStand, Migration!ServedIsWhole, Migration!RefusedForCause
<1> QED
  BY <1>3, <1>4, <1>5, <1>6, <1>7, <1>8, <1>9 DEF UpgradeInv

\* The rebuild of a table is not disturbed by what comes before it or after it.
LEMMA RebuildsApart ==
  ASSUME NEW j \in 1..3, RebuildStands(j), DbShape, next' = next + 1, next > 4 * j \/ next' <= 4 * j - 3,
         Migration!Rebuilt[j] \in db.tables => Migration!Rebuilt[j] \in db'.tables,
         Migration!Copy(Migration!Rebuilt[j]) \in db'.tables => Migration!Copy(Migration!Rebuilt[j]) \in db.tables
  PROVE  RebuildStands(j)'
<1>1. PICK p : p = 4 * j
  OBVIOUS
<1>2. p \in Nat /\ next \in Nat
  BY <1>1 DEF DbShape
<1>3. CASE next > p
  <2>1. next' > p /\ next' # p /\ next' # p - 1 /\ next' # p - 2
    BY <1>2, <1>3
  <2>2. /\ Migration!Rebuilt[j] \in db.tables
        /\ Migration!Copy(Migration!Rebuilt[j]) \notin db.tables
    BY <1>1, <1>3 DEF RebuildStands
  <2> QED
    BY <1>1, <2>1, <2>2 DEF RebuildStands
<1>4. CASE next' <= p - 3
  <2>1. ~(next' > p) /\ next' # p /\ next' # p - 1 /\ next' # p - 2
    BY <1>2, <1>4
  <2> QED
    BY <1>1, <2>1 DEF RebuildStands
<1> QED
  BY <1>1, <1>3, <1>4

\* A statement that makes a table.
LEMMA TableKeeps ==
  ASSUME UpgradeInv, NEW t \in TablesOf(db.rev + 1), t = Migration!Chain[db.rev + 1][next].on,
         db.rev = 10 => next > 12,
         t \notin db.tables,
         Executes(db.tables \union {t}, db.guards, db.rows)
  PROVE  UpgradeInv'
<1>1. DbShape /\ DbSets /\ TablesStand /\ RowsStand /\ RebuildsStand
  BY DEF UpgradeInv
<1>2. PICK T : T = db.tables \union {t}
  OBVIOUS
<1>3. t \in Migration!RequiredTables /\ Era(t) = db.rev + 1
  BY DEF TablesOf
<1>4. \A u \in RebuiltSet : Migration!Copy(u) # t
  BY <1>3, Copies
<1>5. \A u \in kept : u # t
  BY <1>1, <1>3 DEF DbSets, DbShape
<1>6. /\ T \subseteq Migration!RequiredTables \union CopySet
      /\ db.guards \subseteq T /\ db.guards \subseteq Migration!RequiredGuards /\ db.rows \subseteq T
  BY <1>1, <1>2, <1>3 DEF DbSets
<1>7. \A u \in RebuiltSet : Migration!Copy(u) \in T => db.rev = 10
  BY <1>1, <1>2, <1>4 DEF DbSets
<1>8. \A u \in kept : IF u \in T THEN u \in db.rows ELSE u \in RebuiltSet /\ Migration!Copy(u) \in db.rows
  BY <1>1, <1>2, <1>5 DEF RowsStand
<1>9. ASSUME db.rev = 10 PROVE \A k \in 1..3 : RebuildStands(k)'
  <2> SUFFICES ASSUME NEW k \in 1..3 PROVE RebuildStands(k)'
    OBVIOUS
  <2>1. RebuildStands(k) /\ db'.tables = T /\ next' = next + 1
    BY <1>9, <1>1, <1>2 DEF RebuildsStand, Executes
  <2>2. next > 4 * k
    BY <1>9, <1>1 DEF DbShape
  <2>3. Migration!Copy(Migration!Rebuilt[k]) \in T => Migration!Copy(Migration!Rebuilt[k]) \in db.tables
    BY <1>2, <1>4, Copies
  <2>4. Migration!Rebuilt[k] \in db.tables => Migration!Rebuilt[k] \in T
    BY <1>2
  <2> QED
    BY <2>1, <2>2, <2>3, <2>4, <1>1, RebuildsApart
<1>10. Executes(T, db.guards, db.rows)
  BY <1>2
<1>11. /\ \A u \in db.tables : u \in T
       /\ t \in T
  BY <1>2
<1> QED
  BY <1>6, <1>7, <1>8, <1>9, <1>10, <1>11, StatementKeeps

\* A statement that makes a guard of a table that is there.
LEMMA GuardKeeps ==
  ASSUME UpgradeInv, NEW t \in Migration!RequiredGuards, t \in db.tables,
         Migration!Chain[db.rev + 1][next].op # "table",
         db.rev = 10 => next > 12,
         Executes(db.tables, db.guards \union {t}, db.rows)
  PROVE  UpgradeInv'
<1>1. DbShape /\ DbSets /\ TablesStand /\ RowsStand /\ RebuildsStand
  BY DEF UpgradeInv
<1>2. PICK G : G = db.guards \union {t}
  OBVIOUS
<1>6. /\ db.tables \subseteq Migration!RequiredTables \union CopySet
      /\ G \subseteq db.tables /\ G \subseteq Migration!RequiredGuards /\ db.rows \subseteq db.tables
  BY <1>1, <1>2 DEF DbSets
<1>7. \A u \in RebuiltSet : Migration!Copy(u) \in db.tables => db.rev = 10
  BY <1>1 DEF DbSets
<1>8. \A u \in kept : IF u \in db.tables THEN u \in db.rows ELSE u \in RebuiltSet /\ Migration!Copy(u) \in db.rows
  BY <1>1 DEF RowsStand
<1>9. ASSUME db.rev = 10 PROVE \A k \in 1..3 : RebuildStands(k)'
  <2> SUFFICES ASSUME NEW k \in 1..3 PROVE RebuildStands(k)'
    OBVIOUS
  <2>1. RebuildStands(k) /\ db'.tables = db.tables /\ next' = next + 1
    BY <1>9, <1>1, <1>2 DEF RebuildsStand, Executes
  <2>2. next > 4 * k
    BY <1>9, <1>1 DEF DbShape
  <2> QED
    BY <2>1, <2>2, <1>1, RebuildsApart
<1>10. Executes(db.tables, G, db.rows)
  BY <1>2
<1> QED
  BY <1>6, <1>7, <1>8, <1>9, <1>10, StatementKeeps

----------------------------------------------------------------------------
\* The revision that rebuilds: t is the k-th table rebuilt, c the copy of it.
Rebuilds(k, t, c) ==
  /\ k \in 1..3 /\ t = Migration!Rebuilt[k] /\ c = Migration!Copy(t)
  /\ UpgradeInv /\ db.rev = 10

\* What is known of a table that is rebuilt, and of its copy.
LEMMA RebuildFacts ==
  ASSUME NEW k, NEW t, NEW c, Rebuilds(k, t, c)
  PROVE  /\ k \in 1..3 /\ t \in RebuiltSet /\ t \in Migration!RequiredTables /\ t \in Migration!RequiredGuards
         /\ c \notin Migration!RequiredTables /\ c \in CopySet
         /\ \A u \in RebuiltSet : Migration!Copy(u) = c => u = t
         /\ t \notin TablesOf(11)
         /\ \A j \in 1..3 : j # k => Migration!Rebuilt[j] # t /\ Migration!Copy(Migration!Rebuilt[j]) # c
<1>1. k \in 1..3 /\ t = Migration!Rebuilt[k] /\ c = Migration!Copy(t)
  BY DEF Rebuilds
<1>2. t \in RebuiltSet
  BY <1>1, Copies
<1>3. /\ t \in Migration!RequiredTables /\ t \in Migration!RequiredGuards /\ Era(t) = 7
      /\ c \notin Migration!RequiredTables /\ c \in CopySet
      /\ \A u \in RebuiltSet : Migration!Copy(u) = c => u = t
  BY <1>1, <1>2, Copies
<1>4. t \notin TablesOf(11)
  BY <1>3 DEF TablesOf
<1>5. ASSUME NEW j \in 1..3, j # k PROVE Migration!Rebuilt[j] # t /\ Migration!Copy(Migration!Rebuilt[j]) # c
  <2>1. Migration!Rebuilt[j] # t
    BY <1>1, <1>5, RebuiltTables
  <2>2. Migration!Rebuilt[j] \in RebuiltSet
    BY Copies
  <2> QED
    BY <2>1, <2>2, <1>3
<1> QED
  BY <1>1, <1>2, <1>3, <1>4, <1>5

\* The other rebuilds stay as they are.
LEMMA OthersStand ==
  ASSUME NEW k, NEW t, NEW c, Rebuilds(k, t, c), phase = "upgrading",
         next \in {4 * k - 3, 4 * k - 2, 4 * k - 1, 4 * k}, next' = next + 1,
         \A u \in db.tables : u # t => u \in db'.tables,
         \A u \in db'.tables : u \notin {t, c} => u \in db.tables,
         NEW j \in 1..3, j # k
  PROVE  RebuildStands(j)'
<1>1. /\ k \in 1..3 /\ c \notin Migration!RequiredTables /\ t \in Migration!RequiredTables
      /\ \A i \in 1..3 : i # k => Migration!Rebuilt[i] # t /\ Migration!Copy(Migration!Rebuilt[i]) # c
  BY RebuildFacts
<1>2. DbShape /\ RebuildStands(j)
  BY DEF Rebuilds, UpgradeInv, RebuildsStand
<1>3. next > 4 * j \/ next' <= 4 * j - 3
  <2>1. PICK n : n = next
    OBVIOUS
  <2>2. n \in Nat
    BY <1>2, <2>1 DEF DbShape
  <2>3. CASE j < k
    <3>1. 4 * j <= 4 * k - 4
      BY <1>1, <2>3
    <3>2. n >= 4 * k - 3
      BY <2>1, <1>1
    <3>3. n > 4 * j
      BY <3>1, <3>2, <2>2, <1>1
    <3> QED
      BY <3>3, <2>1
  <2>4. CASE j > k
    <3>1. 4 * k <= 4 * j - 4
      BY <1>1, <2>4
    <3>2. n <= 4 * k
      BY <2>1, <1>1
    <3>3. n + 1 <= 4 * j - 3
      BY <3>1, <3>2, <2>2, <1>1
    <3> QED
      BY <3>3, <2>1
  <2>5. j < k \/ j > k
    BY <1>1
  <2> QED
    BY <2>3, <2>4, <2>5
<1>4. Migration!Rebuilt[j] # t /\ Migration!Copy(Migration!Rebuilt[j]) # c
  BY <1>1
<1>5. Migration!Rebuilt[j] \in RebuiltSet
  BY Copies
<1>6. Migration!Copy(Migration!Rebuilt[j]) # t
  BY <1>1, <1>5, Copies
<1>7. /\ Migration!Rebuilt[j] \in db.tables => Migration!Rebuilt[j] \in db'.tables
      /\ Migration!Copy(Migration!Rebuilt[j]) \in db'.tables => Migration!Copy(Migration!Rebuilt[j]) \in db.tables
  BY <1>4, <1>6
<1> QED
  BY <1>2, <1>3, <1>7, RebuildsApart

\* The copy is made.
LEMMA CopyKeeps ==
  ASSUME NEW k, NEW t, NEW c, Rebuilds(k, t, c), next = 4 * k - 3,
         Migration!Chain[db.rev + 1][next].op # "table",
         t \in db.tables, c \notin db.tables,
         Executes(db.tables \union {c}, db.guards, db.rows)
  PROVE  UpgradeInv'
<1>1. /\ k \in 1..3 /\ t \in RebuiltSet /\ t \in Migration!RequiredTables /\ t \in Migration!RequiredGuards
      /\ c \notin Migration!RequiredTables /\ c \in CopySet
      /\ t = Migration!Rebuilt[k] /\ c = Migration!Copy(t)
  BY RebuildFacts DEF Rebuilds
<1>2. UpgradeInv /\ DbShape /\ DbSets /\ RowsStand /\ db.rev = 10
  BY DEF Rebuilds, UpgradeInv
<1>3. PICK T : T = db.tables \union {c}
  OBVIOUS
<1>4. Executes(T, db.guards, db.rows) /\ db'.tables = T /\ next' = next + 1 /\ phase = "upgrading"
  BY <1>3 DEF Executes
<1>5. /\ T \subseteq Migration!RequiredTables \union CopySet
      /\ db.guards \subseteq T /\ db.guards \subseteq Migration!RequiredGuards /\ db.rows \subseteq T
  BY <1>1, <1>2, <1>3 DEF DbSets
<1>6. c \notin kept
  BY <1>1, <1>2 DEF DbSets
<1>7. \A u \in kept : IF u \in T THEN u \in db.rows ELSE u \in RebuiltSet /\ Migration!Copy(u) \in db.rows
  BY <1>2, <1>3, <1>6 DEF RowsStand
<1>8. RebuildStands(k)'
  <2>1. next' = 4 * k - 2 /\ next' # 4 * k - 1 /\ next' # 4 * k /\ ~(next' > 4 * k)
    BY <1>1, <1>4
  <2> QED
    BY <2>1, <1>1, <1>3, <1>4 DEF RebuildStands
<1>9. \A j \in 1..3 : RebuildStands(j)'
  <2>1. /\ \A u \in db.tables : u # t => u \in db'.tables
        /\ \A u \in db'.tables : u \notin {t, c} => u \in db.tables
    BY <1>3, <1>4
  <2>2. next \in {4 * k - 3, 4 * k - 2, 4 * k - 1, 4 * k}
    OBVIOUS
  <2>3. \A j \in 1..3 : j # k => RebuildStands(j)'
    BY <2>1, <2>2, <1>4, OthersStand
  <2> QED
    BY <2>3, <1>8
<1>10. \A u \in db.tables : u \in T
  BY <1>3
<1> QED
  BY <1>2, <1>4, <1>5, <1>7, <1>9, <1>10, StatementKeeps

\* The rows are carried over.
LEMMA FillKeeps ==
  ASSUME NEW k, NEW t, NEW c, Rebuilds(k, t, c), next = 4 * k - 2, phase = "upgrading",
         Migration!Chain[db.rev + 1][next].op # "table",
         Executes(db.tables, db.guards, IF t \in db.rows THEN db.rows \union {c} ELSE db.rows)
  PROVE  UpgradeInv'
<1>1. /\ k \in 1..3 /\ t \in RebuiltSet /\ t \in Migration!RequiredTables
      /\ t = Migration!Rebuilt[k] /\ c = Migration!Copy(t)
  BY RebuildFacts DEF Rebuilds
<1>2. UpgradeInv /\ DbShape /\ DbSets /\ RowsStand /\ db.rev = 10
  BY DEF Rebuilds, UpgradeInv
<1>3. PICK W : W = IF t \in db.rows THEN db.rows \union {c} ELSE db.rows
  OBVIOUS
<1>4. /\ Executes(db.tables, db.guards, W) /\ db'.tables = db.tables /\ db'.rows = W
      /\ next' = next + 1 /\ phase = "upgrading"
  BY <1>3 DEF Executes
<1>5. t \in db.tables /\ c \in db.tables
  <2>1. RebuildStands(k)
    BY <1>1, <1>2 DEF UpgradeInv, RebuildsStand
  <2> QED
    BY <2>1, <1>1 DEF RebuildStands
<1>6. /\ db.tables \subseteq Migration!RequiredTables \union CopySet
      /\ db.guards \subseteq db.tables /\ db.guards \subseteq Migration!RequiredGuards /\ W \subseteq db.tables
      /\ \A u \in RebuiltSet : Migration!Copy(u) \in db.tables => db.rev = 10
  BY <1>2, <1>3, <1>5 DEF DbSets
<1>7. \A u \in kept : IF u \in db.tables THEN u \in W ELSE u \in RebuiltSet /\ Migration!Copy(u) \in W
  BY <1>2, <1>3 DEF RowsStand
<1>8. RebuildStands(k)'
  <2>1. next' = 4 * k - 1 /\ next' # 4 * k - 2 /\ next' # 4 * k /\ ~(next' > 4 * k)
    BY <1>1, <1>4
  <2>2. t \in W => c \in W
    BY <1>3
  <2> QED
    BY <2>1, <2>2, <1>1, <1>4, <1>5 DEF RebuildStands
<1>9. \A j \in 1..3 : RebuildStands(j)'
  <2>1. /\ \A u \in db.tables : u # t => u \in db'.tables
        /\ \A u \in db'.tables : u \notin {t, c} => u \in db.tables
    BY <1>4
  <2>2. next \in {4 * k - 3, 4 * k - 2, 4 * k - 1, 4 * k}
    OBVIOUS
  <2>3. \A j \in 1..3 : j # k => RebuildStands(j)'
    BY <2>1, <2>2, <1>4, OthersStand
  <2> QED
    BY <2>3, <1>8
<1> QED
  BY <1>2, <1>4, <1>6, <1>7, <1>9, StatementKeeps

\* The table is dropped: its rows are in the copy.
LEMMA DropKeeps ==
  ASSUME NEW k, NEW t, NEW c, Rebuilds(k, t, c), next = 4 * k - 1, phase = "upgrading",
         Migration!Chain[db.rev + 1][next].op # "table",
         Executes(db.tables \ {t}, db.guards \ {t}, db.rows \ {t})
  PROVE  UpgradeInv'
<1>1. /\ k \in 1..3 /\ t \in RebuiltSet /\ t \in Migration!RequiredTables /\ c \notin Migration!RequiredTables
      /\ t = Migration!Rebuilt[k] /\ c = Migration!Copy(t) /\ t \notin TablesOf(11) /\ c # t
  BY RebuildFacts DEF Rebuilds
<1>2. UpgradeInv /\ DbShape /\ DbSets /\ RowsStand /\ db.rev = 10
  BY DEF Rebuilds, UpgradeInv
<1>3. PICK T, G, W : T = db.tables \ {t} /\ G = db.guards \ {t} /\ W = db.rows \ {t}
  OBVIOUS
<1>4. /\ Executes(T, G, W) /\ db'.tables = T /\ next' = next + 1 /\ phase = "upgrading"
  BY <1>3 DEF Executes
<1>5. t \in db.tables /\ c \in db.tables /\ (t \in db.rows => c \in db.rows)
  <2>1. RebuildStands(k)
    BY <1>1, <1>2 DEF UpgradeInv, RebuildsStand
  <2> QED
    BY <2>1, <1>1 DEF RebuildStands
<1>6. /\ T \subseteq Migration!RequiredTables \union CopySet
      /\ G \subseteq T /\ G \subseteq Migration!RequiredGuards /\ W \subseteq T
      /\ \A u \in RebuiltSet : Migration!Copy(u) \in T => db.rev = 10
  BY <1>2, <1>3 DEF DbSets
<1>7. \A u \in Migration!RequiredTables : u \in db.tables => u \in T \/ (u \in RebuiltSet /\ Migration!Copy(u) \in T)
  <2>1. c \in T
    BY <1>1, <1>3, <1>5
  <2> QED
    BY <2>1, <1>1, <1>3
<1>8. \A u \in RebuiltSet : Migration!Copy(u) # t
  BY <1>1, Copies
<1>9. \A u \in RebuiltSet : u \notin db.tables /\ Migration!Copy(u) \in db.tables => u \in T \/ Migration!Copy(u) \in T
  BY <1>3, <1>8
<1>10. ASSUME NEW u \in kept PROVE IF u \in T THEN u \in W ELSE u \in RebuiltSet /\ Migration!Copy(u) \in W
  <2>1. IF u \in db.tables THEN u \in db.rows ELSE u \in RebuiltSet /\ Migration!Copy(u) \in db.rows
    BY <1>2 DEF RowsStand
  <2>2. CASE u = t
    <3>1. c \in W
      BY <2>1, <2>2, <1>1, <1>3, <1>5
    <3> QED
      BY <3>1, <2>2, <1>1, <1>3
  <2>3. CASE u # t
    BY <2>1, <2>3, <1>3, <1>8
  <2> QED
    BY <2>2, <2>3
<1>11. \A u \in TablesOf(db.rev + 1) : u \in db.tables => u \in T
  BY <1>1, <1>2, <1>3
<1>12. RebuildStands(k)'
  <2>1. next' = 4 * k /\ next' # 4 * k - 2 /\ next' # 4 * k - 1 /\ ~(next' > 4 * k)
    BY <1>1, <1>4
  <2> QED
    BY <2>1, <1>1, <1>3, <1>4, <1>5 DEF RebuildStands
<1>13. \A j \in 1..3 : RebuildStands(j)'
  <2>1. /\ \A u \in db.tables : u # t => u \in db'.tables
        /\ \A u \in db'.tables : u \notin {t, c} => u \in db.tables
    BY <1>3, <1>4
  <2>2. next \in {4 * k - 3, 4 * k - 2, 4 * k - 1, 4 * k}
    OBVIOUS
  <2>3. \A j \in 1..3 : j # k => RebuildStands(j)'
    BY <2>1, <2>2, <1>4, OthersStand
  <2> QED
    BY <2>3, <1>12
<1> QED
  BY <1>2, <1>4, <1>6, <1>7, <1>9, <1>10, <1>11, <1>13, StatementKeeps

\* The copy takes the place of the table, with the rows.
LEMMA RenameKeeps ==
  ASSUME NEW k, NEW t, NEW c, Rebuilds(k, t, c), next = 4 * k, phase = "upgrading",
         Migration!Chain[db.rev + 1][next].op # "table",
         Executes(Migration!Moved(db.tables, c, t), db.guards, Migration!Moved(db.rows, c, t))
  PROVE  UpgradeInv'
<1>1. /\ k \in 1..3 /\ t \in RebuiltSet /\ t \in Migration!RequiredTables /\ c \notin Migration!RequiredTables
      /\ t = Migration!Rebuilt[k] /\ c = Migration!Copy(t) /\ t \notin TablesOf(11) /\ c # t
      /\ \A u \in RebuiltSet : Migration!Copy(u) = c => u = t
  BY RebuildFacts DEF Rebuilds
<1>2. UpgradeInv /\ DbShape /\ DbSets /\ RowsStand /\ db.rev = 10
  BY DEF Rebuilds, UpgradeInv
<1>3. PICK T, W : T = Migration!Moved(db.tables, c, t) /\ W = Migration!Moved(db.rows, c, t)
  OBVIOUS
<1>4. /\ Executes(T, db.guards, W) /\ db'.tables = T /\ next' = next + 1 /\ phase = "upgrading"
  BY <1>3 DEF Executes
<1>5. t \notin db.tables /\ c \in db.tables
  <2>1. RebuildStands(k)
    BY <1>1, <1>2 DEF UpgradeInv, RebuildsStand
  <2> QED
    BY <2>1, <1>1 DEF RebuildStands
<1>6. /\ T = (db.tables \ {c}) \union {t}
      /\ W = IF c \in db.rows THEN (db.rows \ {c}) \union {t} ELSE db.rows
  BY <1>3, <1>5 DEF Migration!Moved
<1>7. /\ T \subseteq Migration!RequiredTables \union CopySet
      /\ db.guards \subseteq T /\ db.guards \subseteq Migration!RequiredGuards /\ W \subseteq T
  <2>1. db.guards \subseteq db.tables /\ db.guards \subseteq Migration!RequiredGuards /\ c \notin Migration!RequiredGuards
    BY <1>1, <1>2, Eras DEF DbSets
  <2>2. db.guards \subseteq T
    BY <2>1, <1>6
  <2>3. T \subseteq Migration!RequiredTables \union CopySet
    BY <1>1, <1>2, <1>6 DEF DbSets
  <2>4. db.rows \subseteq db.tables
    BY <1>2 DEF DbSets
  <2>5. W \subseteq T
    BY <2>4, <1>6
  <2> QED
    BY <2>1, <2>2, <2>3, <2>5
<1>8. \A u \in RebuiltSet : Migration!Copy(u) \in T => db.rev = 10
  BY <1>2
<1>9. \A u \in db.tables : u # c => u \in T
  BY <1>6
<1>10. \A u \in Migration!RequiredTables : u \in db.tables => u \in T
  BY <1>1, <1>9
<1>11. \A u \in RebuiltSet : u \notin db.tables /\ Migration!Copy(u) \in db.tables => u \in T \/ Migration!Copy(u) \in T
  BY <1>1, <1>6, <1>9
<1>12. ASSUME NEW u \in kept PROVE IF u \in T THEN u \in W ELSE u \in RebuiltSet /\ Migration!Copy(u) \in W
  <2>1. IF u \in db.tables THEN u \in db.rows ELSE u \in RebuiltSet /\ Migration!Copy(u) \in db.rows
    BY <1>2 DEF RowsStand
  <2>2. CASE u = t
    <3>1. c \in db.rows
      BY <2>1, <2>2, <1>1, <1>5
    <3> QED
      BY <3>1, <2>2, <1>6
  <2>3. CASE u # t
    <3>1. u \in Migration!RequiredTables /\ u # c
      BY <1>1, <1>2 DEF DbSets
    <3>2. u \in db.tables <=> u \in T
      BY <3>1, <2>3, <1>6
    <3>3. u \in db.rows => u \in W
      BY <3>1, <1>6
    <3>4. u \in RebuiltSet /\ Migration!Copy(u) \in db.rows => Migration!Copy(u) \in W
      BY <1>1, <2>3, <1>6
    <3> QED
      BY <2>1, <3>2, <3>3, <3>4
  <2> QED
    BY <2>2, <2>3
<1>13. \A u \in TablesOf(db.rev + 1) : u \in db.tables => u \in T
  BY <1>10 DEF TablesOf
<1>14. RebuildStands(k)'
  <2>1. next' > 4 * k /\ next' # 4 * k /\ next' # 4 * k - 2 /\ next' # 4 * k - 1
    BY <1>1, <1>4
  <2>2. t \in T /\ c \notin T
    BY <1>1, <1>6
  <2> QED
    BY <2>1, <2>2, <1>1, <1>4 DEF RebuildStands
<1>15. \A j \in 1..3 : RebuildStands(j)'
  <2>1. \A u \in db'.tables : u \notin {t, c} => u \in db.tables
    BY <1>6, <1>4
  <2>2. next \in {4 * k - 3, 4 * k - 2, 4 * k - 1, 4 * k}
    OBVIOUS
  <2>3. ASSUME NEW j \in 1..3, j # k PROVE RebuildStands(j)'
    <3>1. RebuildStands(j) /\ (next > 4 * j \/ next' <= 4 * j - 3)
      <4>1. RebuildStands(j)
        BY <1>2 DEF UpgradeInv, RebuildsStand
      <4>2. CASE j < k
        BY <4>1, <4>2, <1>1
      <4>3. CASE j > k
        <5>1. 4 * k <= 4 * j - 4
          BY <4>3, <1>1
        <5>2. next' = 4 * k + 1
          BY <1>4
        <5>3. 4 * k + 1 <= 4 * j - 3
          BY <5>1, <1>1
        <5> QED
          BY <4>1, <5>2, <5>3
      <4>4. j < k \/ j > k
        BY <2>3, <1>1
      <4> QED
        BY <4>2, <4>3, <4>4
    <3>2. Migration!Rebuilt[j] \in RebuiltSet
      BY Copies
    <3>3. Migration!Rebuilt[j] # c /\ Migration!Copy(Migration!Rebuilt[j]) # t
      BY <3>2, <1>1, Copies
    <3>4. Migration!Copy(Migration!Rebuilt[j]) # c
      BY <2>3, RebuildFacts
    <3>5. /\ Migration!Rebuilt[j] \in db.tables => Migration!Rebuilt[j] \in db'.tables
          /\ Migration!Copy(Migration!Rebuilt[j]) \in db'.tables => Migration!Copy(Migration!Rebuilt[j]) \in db.tables
      BY <3>3, <3>4, <1>4, <1>6
    <3> QED
      BY <3>1, <3>5, <1>2, <1>4, RebuildsApart
  <2> QED
    BY <2>3, <1>14
<1> QED
  BY <1>2, <1>4, <1>7, <1>8, <1>10, <1>11, <1>12, <1>13, <1>15, StatementKeeps

----------------------------------------------------------------------------
\* A step that leaves the database alone, and no revision being applied.
LEMMA IdleKeeps ==
  ASSUME UpgradeInv, db' = db, kept' = kept, next' \in Nat \ {0}, dirs' \subseteq Migration!Artifacts,
         phase' # "upgrading", PhasesStand', Migration!ServedIsWhole', Migration!RefusedForCause'
  PROVE  UpgradeInv'
<1>1. DbShape /\ DbSets /\ TablesStand /\ RowsStand
  BY DEF UpgradeInv
<1>2. DbShape' /\ DbSets' /\ TablesStand' /\ RowsStand'
  BY <1>1 DEF DbShape, DbSets, TablesStand, RowsStand
<1>3. TablesMade' /\ RebuildsStand'
  BY DEF TablesMade, RebuildsStand
<1> QED
  BY <1>2, <1>3 DEF UpgradeInv

\* A refusal for a cause.
LEMMA RefusalKeeps ==
  ASSUME UpgradeInv, db' = db, kept' = kept, dirs' = dirs, demo' = demo, next' \in Nat \ {0}, phase' = "refused",
         Migration!HalfMade \/ demo \/ (db.rev = 12 /\ ~(Migration!RequiredGuards \subseteq db.guards))
  PROVE  UpgradeInv'
<1>1. DbShape
  BY DEF UpgradeInv
<1>2. dirs' \subseteq Migration!Artifacts
  BY <1>1 DEF DbShape
<1>3. PhasesStand' /\ Migration!ServedIsWhole'
  BY DEF PhasesStand, Migration!ServedIsWhole
<1>4. Migration!HalfMade => Migration!HalfMade'
  BY DEF Migration!HalfMade
<1>5. Migration!RefusedForCause'
  BY <1>4 DEF Migration!RefusedForCause, Migration!Newest
<1> QED
  BY <1>2, <1>3, <1>5, IdleKeeps

\* An object of a revision that is not stamped is a cause.
LEMMA AheadIsHalf ==
  ASSUME DbShape,
         \/ \E t \in db.tables : t \notin Migration!RequiredTables \/ Era(t) > db.rev
         \/ \E t \in db.guards : Era(t) > db.rev
  PROVE  Migration!HalfMade
<1>1. db.rev \in 0..12
  BY DEF DbShape
<1>2. /\ Migration!Made("table", db.rev) = {t \in Migration!RequiredTables : Era(t) <= db.rev}
      /\ Migration!Made("guard", db.rev) = {t \in Migration!RequiredGuards : Era(t) <= db.rev}
  BY <1>1, MadeSoFar
<1>3. CASE \E t \in db.tables : t \notin Migration!RequiredTables \/ Era(t) > db.rev
  <2>1. PICK t \in db.tables : t \notin Migration!RequiredTables \/ Era(t) > db.rev
    BY <1>3
  <2>2. t \in Migration!RequiredTables => Era(t) \in 2..12
    BY Eras
  <2>3. t \notin Migration!Made("table", db.rev)
    BY <2>1, <2>2, <1>1, <1>2
  <2> QED
    BY <2>1, <2>3 DEF Migration!HalfMade
<1>4. CASE \E t \in db.guards : Era(t) > db.rev
  <2>1. PICK t \in db.guards : Era(t) > db.rev
    BY <1>4
  <2>2. t \in Migration!RequiredGuards => Era(t) \in 2..12
    BY Eras
  <2>3. t \notin Migration!Made("guard", db.rev)
    BY <2>1, <2>2, <1>1, <1>2
  <2> QED
    BY <2>1, <2>3 DEF Migration!HalfMade
<1> QED
  BY <1>3, <1>4

\* What Execute does, with the revision being applied named.
LEMMA ExecuteKeeps == UpgradeInv /\ Migration!Execute => UpgradeInv'
<1> SUFFICES ASSUME UpgradeInv, Migration!Execute PROVE UpgradeInv'
  OBVIOUS
<1>1. PICK v, c, s : v = db.rev + 1 /\ c = Migration!Chain[v] /\ s = c[next]
  OBVIOUS
<1>2. /\ phase = "upgrading" /\ db.rev < 12 /\ next <= Len(c) /\ dirs' = dirs /\ demo' = demo /\ kept' = kept
      /\ \/ Migration!Executable(s) /\ db' = Migration!Executed(s) /\ next' = next + 1 /\ phase' = phase
         \/ ~Migration!Executable(s) /\ phase' = "refused" /\ next' = next /\ db' = db
  BY <1>1 DEF Migration!Execute, Migration!Statements, Migration!Newest, Migration!Refuse
<1>3. DbShape /\ DbSets /\ TablesStand /\ RowsStand /\ TablesMade
  BY DEF UpgradeInv
<1>4. v \in 1..12 /\ next \in Nat \ {0} /\ db.rev \in 0..12
  BY <1>1, <1>2, <1>3 DEF DbShape
<1>5. c \in Seq(Statement)
  BY <1>1, <1>4, StatementsOf
<1>6. next \in 1..Len(c) /\ s \in Statement
  BY <1>1, <1>2, <1>4, <1>5
<1>7. /\ s.op = "table" => s.on \in TablesOf(v)
      /\ s.op = "guard" => s.on \in GuardsOf(v) /\ \E j \in 1..next - 1 : c[j] = Migration!Table(s.on)
      /\ v # 11 => s.op \in {"table", "guard"}
  BY <1>1, <1>4, <1>6, StatementsOf
<1>8. v = 11 /\ next \notin 1..15 => s.op \in {"table", "guard"} /\ next > 12
  <2>1. v = 11 /\ next \notin 1..15 => s.op \in {"table", "guard"}
    BY <1>1, <1>6, Eleventh
  <2> QED
    BY <2>1, <1>4
<1>9. v = 11 <=> db.rev = 10
  BY <1>1, <1>4
<1>10. CASE s.op = "table" /\ (v = 11 => next \notin 1..15)
  <2>1. PICK t : t = s.on
    OBVIOUS
  <2>2. t \in TablesOf(v) /\ (db.rev = 10 => next > 12)
    BY <2>1, <1>7, <1>8, <1>9, <1>10
  <2>3. CASE t \in db.tables
    <3>1. ~Migration!Executable(s)
      BY <2>1, <2>3, <1>10 DEF Migration!Executable
    <3>2. Era(t) > db.rev
      BY <2>2, <1>1, <1>4 DEF TablesOf
    <3>3. Migration!HalfMade
      BY <2>3, <3>2, <1>3, AheadIsHalf
    <3> QED
      BY <3>1, <3>3, <1>2, <1>4, RefusalKeeps
  <2>4. CASE t \notin db.tables
    <3>1. Migration!Executable(s)
      BY <2>1, <2>4, <1>10 DEF Migration!Executable
    <3>2. db' = [rev |-> db.rev, tables |-> db.tables \union {t}, guards |-> db.guards, rows |-> db.rows, file |-> db.file]
      BY <3>1, <2>1, <1>2, <1>3, <1>10, StatementOutcomes
    <3>3. Executes(db.tables \union {t}, db.guards, db.rows)
      BY <3>1, <3>2, <1>2 DEF Executes
    <3>4. t \in TablesOf(db.rev + 1) /\ t = Migration!Chain[db.rev + 1][next].on
      BY <1>1, <2>1, <2>2
    <3> QED
      BY <3>3, <3>4, <2>2, <2>4, TableKeeps
  <2> QED
    BY <2>3, <2>4
<1>11. CASE s.op = "guard" /\ (v = 11 => next \notin 1..15)
  <2>1. PICK t : t = s.on
    OBVIOUS
  <2>2. t \in GuardsOf(v) /\ (db.rev = 10 => next > 12)
    BY <2>1, <1>7, <1>8, <1>9, <1>11
  <2>3. t \in Migration!RequiredGuards /\ Era(t) = v
    BY <2>2 DEF GuardsOf
  <2>4. t \in db.tables
    <3>1. PICK j \in 1..next - 1 : c[j] = Migration!Table(t)
      BY <2>1, <1>7, <1>11
    <3>2. j \in 1..Len(c) /\ j < next
      BY <3>1, <1>4, <1>6
    <3>3. c[j].op = "table" /\ c[j].on = t
      <4>1. t \in Migration!RequiredTables
        BY <2>3, Eras
      <4> QED
        BY <3>1, <4>1, Singles
    <3> QED
      BY <3>2, <3>3, <1>1, <1>2, <1>3 DEF TablesMade
  <2>5. CASE t \in db.guards
    <3>1. ~Migration!Executable(s)
      BY <2>1, <2>5, <1>11 DEF Migration!Executable
    <3>2. Era(t) > db.rev
      BY <2>3, <1>1, <1>4
    <3>3. Migration!HalfMade
      BY <2>5, <3>2, <1>3, AheadIsHalf
    <3> QED
      BY <3>1, <3>3, <1>2, <1>4, RefusalKeeps
  <2>6. CASE t \notin db.guards
    <3>1. Migration!Executable(s)
      BY <2>1, <2>4, <2>6, <1>11 DEF Migration!Executable
    <3>2. db' = [rev |-> db.rev, tables |-> db.tables, guards |-> db.guards \union {t}, rows |-> db.rows, file |-> db.file]
      BY <3>1, <2>1, <1>2, <1>3, <1>11, StatementOutcomes
    <3>3. Executes(db.tables, db.guards \union {t}, db.rows)
      BY <3>1, <3>2, <1>2 DEF Executes
    <3>4. Migration!Chain[db.rev + 1][next].op # "table"
      BY <1>1, <1>11
    <3> QED
      BY <3>3, <3>4, <2>2, <2>3, <2>4, GuardKeeps
  <2> QED
    BY <2>5, <2>6
<1>12. CASE v = 11 /\ next \in 1..15
  <2>1. PICK k \in 1..3 : next \in {4 * k - 3, 4 * k - 2, 4 * k - 1, 4 * k, 12 + k}
    BY <1>12, RebuildPlaces
  <2>2. PICK t, u : t = Migration!Rebuilt[k] /\ u = Migration!Copy(t)
    OBVIOUS
  <2>3. Rebuilds(k, t, u) /\ db.rev = 10
    BY <2>1, <2>2, <1>9, <1>12 DEF Rebuilds
  <2>4. /\ k \in 1..3 /\ t \in RebuiltSet /\ t \in Migration!RequiredTables /\ t \in Migration!RequiredGuards
        /\ u \notin Migration!RequiredTables
    BY <2>3, RebuildFacts
  <2>5. /\ c[4 * k - 3] = Stmt("copy", t) /\ c[4 * k - 2] = Stmt("fill", t) /\ c[4 * k - 1] = Stmt("drop", t)
        /\ c[4 * k] = Stmt("rename", t) /\ c[12 + k] = Stmt("guard if missing", t)
    BY <2>2, <1>1, <1>12, Eleventh
  <2>7. CASE next = 4 * k - 3
    <3>1. s.op = "copy" /\ s.on = t /\ Migration!Chain[db.rev + 1][next].op # "table"
      <4>1. s = Stmt("copy", t)
        BY <2>5, <2>7, <1>1
      <4> QED
        BY <4>1, <1>1 DEF Stmt
    <3>2. CASE t \in db.tables /\ u \notin db.tables
      <4>1. Migration!Executable(s)
        BY <3>1, <3>2, <2>2 DEF Migration!Executable
      <4>2. db' = [rev |-> db.rev, tables |-> db.tables \union {u}, guards |-> db.guards, rows |-> db.rows, file |-> db.file]
        BY <4>1, <3>1, <2>2, <1>2, <1>3, StatementOutcomes
      <4>3. Executes(db.tables \union {u}, db.guards, db.rows)
        BY <4>1, <4>2, <1>2 DEF Executes
      <4> QED
        BY <4>3, <3>1, <3>2, <2>3, <2>7, CopyKeeps
    <3>3. CASE ~(t \in db.tables /\ u \notin db.tables)
      <4>1. ~Migration!Executable(s)
        BY <3>1, <3>3, <2>2 DEF Migration!Executable
      <4>2. Era(t) = 7
        BY <2>4, Copies
      <4>3. u \in db.tables
        BY <4>2, <3>3, <2>2, <2>3, <2>4, <1>3 DEF TablesStand
      <4>4. Migration!HalfMade
        BY <4>3, <2>4, <1>3, AheadIsHalf
      <4> QED
        BY <4>1, <4>4, <1>2, <1>4, RefusalKeeps
    <3> QED
      BY <3>2, <3>3
  <2>8. CASE next = 4 * k - 2
    <3>1. s.op = "fill" /\ s.on = t /\ Migration!Chain[db.rev + 1][next].op # "table"
      <4>1. s = Stmt("fill", t)
        BY <2>5, <2>8, <1>1
      <4> QED
        BY <4>1, <1>1 DEF Stmt
    <3>2. Migration!Executable(s)
      BY <3>1 DEF Migration!Executable
    <3>3. db' = [rev |-> db.rev, tables |-> db.tables, guards |-> db.guards,
                 rows |-> IF t \in db.rows THEN db.rows \union {u} ELSE db.rows, file |-> db.file]
      BY <3>1, <3>2, <2>2, <1>2, <1>3, StatementOutcomes
    <3>4. Executes(db.tables, db.guards, IF t \in db.rows THEN db.rows \union {u} ELSE db.rows)
      BY <3>2, <3>3, <1>2 DEF Executes
    <3> QED
      BY <3>1, <3>4, <2>3, <2>8, <1>2, FillKeeps
  <2>9. CASE next = 4 * k - 1
    <3>1. s.op = "drop" /\ s.on = t /\ Migration!Chain[db.rev + 1][next].op # "table"
      <4>1. s = Stmt("drop", t)
        BY <2>5, <2>9, <1>1
      <4> QED
        BY <4>1, <1>1 DEF Stmt
    <3>2. Migration!Executable(s)
      BY <3>1 DEF Migration!Executable
    <3>3. db' = [rev |-> db.rev, tables |-> db.tables \ {t}, guards |-> db.guards \ {t},
                 rows |-> db.rows \ {t}, file |-> db.file]
      BY <3>1, <3>2, <1>2, <1>3, StatementOutcomes
    <3>4. Executes(db.tables \ {t}, db.guards \ {t}, db.rows \ {t})
      BY <3>2, <3>3, <1>2 DEF Executes
    <3> QED
      BY <3>1, <3>4, <2>3, <2>9, <1>2, DropKeeps
  <2>10. CASE next = 4 * k
    <3>1. s.op = "rename" /\ s.on = t /\ Migration!Chain[db.rev + 1][next].op # "table"
      <4>1. s = Stmt("rename", t)
        BY <2>5, <2>10, <1>1
      <4> QED
        BY <4>1, <1>1 DEF Stmt
    <3>2. Migration!Executable(s)
      BY <3>1 DEF Migration!Executable
    <3>3. db' = [rev |-> db.rev, tables |-> Migration!Moved(db.tables, u, t), guards |-> db.guards,
                 rows |-> Migration!Moved(db.rows, u, t), file |-> db.file]
      BY <3>1, <3>2, <2>2, <1>2, <1>3, StatementOutcomes
    <3>4. Executes(Migration!Moved(db.tables, u, t), db.guards, Migration!Moved(db.rows, u, t))
      BY <3>2, <3>3, <1>2 DEF Executes
    <3> QED
      BY <3>1, <3>4, <2>3, <2>10, <1>2, RenameKeeps
  <2>11. CASE next = 12 + k
    <3>1. s.op = "guard if missing" /\ s.on = t /\ Migration!Chain[db.rev + 1][next].op # "table"
      <4>1. s = Stmt("guard if missing", t)
        BY <2>5, <2>11, <1>1
      <4>2. s.op = "guard if missing" /\ s.on = t
        BY <4>1 DEF Stmt
      <4>3. Migration!Chain[db.rev + 1][next] = s
        BY <1>1
      <4> QED
        BY <4>2, <4>3
    <3>2. Migration!Executable(s)
      BY <3>1 DEF Migration!Executable
    <3>3. db' = [rev |-> db.rev, tables |-> db.tables, guards |-> db.guards \union {t}, rows |-> db.rows, file |-> db.file]
      BY <3>1, <3>2, <1>2, <1>3, StatementOutcomes
    <3>4. Executes(db.tables, db.guards \union {t}, db.rows)
      BY <3>2, <3>3, <1>2 DEF Executes
    <3>5. next > 12 /\ next > 4 * k
      BY <2>4, <2>11
    <3>6. t \in db.tables
      BY <3>5, <2>2, <2>3, <2>4, <1>2 DEF UpgradeInv, RebuildsStand, RebuildStands
    <3> QED
      BY <3>1, <3>4, <3>5, <3>6, <2>4, GuardKeeps
  <2> QED
    BY <2>1, <2>7, <2>8, <2>9, <2>10, <2>11
<1> QED
  BY <1>7, <1>8, <1>10, <1>11, <1>12

\* A revision is stamped once its last statement is executed.
LEMMA StampKeeps == UpgradeInv /\ Migration!Stamp => UpgradeInv'
<1> SUFFICES ASSUME UpgradeInv, Migration!Stamp PROVE UpgradeInv'
  OBVIOUS
<1>1. PICK v, c : v = db.rev + 1 /\ c = Migration!Chain[v]
  OBVIOUS
<1>2. /\ phase = "upgrading" /\ phase' = "upgrading" /\ db.rev < 12 /\ next > Len(c)
      /\ next' = 1 /\ dirs' = dirs /\ kept' = kept /\ db' = [db EXCEPT !.rev = @ + 1]
  BY <1>1 DEF Migration!Stamp, Migration!Statements, Migration!Newest
<1>3. DbShape /\ DbSets /\ TablesStand /\ RowsStand /\ TablesMade /\ PhasesStand
  BY DEF UpgradeInv
<1>4. v \in 1..12 /\ next \in Nat /\ db.rev \in 0..12
  BY <1>1, <1>2, <1>3 DEF DbShape
<1>5. db' = [rev |-> v, tables |-> db.tables, guards |-> db.guards, rows |-> db.rows, file |-> db.file]
  <2>1. PICK T, G, W, f : T = db.tables /\ G = db.guards /\ W = db.rows /\ f = db.file
    OBVIOUS
  <2>2. PICK r : r = db.rev
    OBVIOUS
  <2>3. db = [rev |-> r, tables |-> T, guards |-> G, rows |-> W, file |-> f]
    BY <2>1, <2>2, <1>3 DEF DbShape
  <2>4. db' = [rev |-> r + 1, tables |-> T, guards |-> G, rows |-> W, file |-> f]
    BY <2>3, <1>2
  <2> QED
    BY <2>1, <2>2, <2>4, <1>1
<1>6. db'.rev = v /\ db'.tables = db.tables /\ db'.guards = db.guards /\ db'.rows = db.rows /\ db'.file = db.file
  BY <1>5
<1>7. DbShape'
  <2>1. v \in 0..12 /\ next' \in Nat \ {0}
    BY <1>2, <1>4
  <2> QED
    BY <2>1, <1>2, <1>3, <1>5, <1>6 DEF DbShape
<1>8. \A t \in RebuiltSet : Migration!Copy(t) \notin db.tables
  <2>1. CASE db.rev = 10
    <3>1. 15 \in 1..Len(c) /\ c \in Seq(Statement)
      <4>1. v = 11 /\ c = Migration!Chain[11]
        BY <2>1, <1>1
      <4>2. c \in Seq(Statement)
        BY <1>1, <1>4, StatementsOf
      <4> QED
        BY <4>1, <4>2, Eleventh
    <3>2. \A k \in 1..3 : next > 4 * k
      <4>1. Len(c) \in Nat /\ Len(c) >= 15
        BY <3>1
      <4>2. next > 15
        BY <4>1, <1>2, <1>4
      <4> QED
        BY <4>2, <1>4
    <3>3. \A k \in 1..3 : Migration!Copy(Migration!Rebuilt[k]) \notin db.tables
      BY <3>2, <2>1, <1>2 DEF UpgradeInv, RebuildsStand, RebuildStands
    <3> QED
      BY <3>3, Copies
  <2>2. CASE db.rev # 10
    BY <2>2, <1>3 DEF DbSets
  <2> QED
    BY <2>1, <2>2
<1>9. DbSets'
  <2>1. \A t \in kept : t \in Migration!RequiredTables /\ Era(t) <= v
    <3>1. \A t \in kept : t \in Migration!RequiredTables /\ Era(t) <= db.rev
      BY <1>3 DEF DbSets
    <3>2. \A t \in Migration!RequiredTables : Era(t) \in 2..12
      BY Eras
    <3> QED
      BY <3>1, <3>2, <1>1, <1>4
  <2> QED
    BY <2>1, <1>2, <1>3, <1>6, <1>8 DEF DbSets
<1>10. TablesStand'
  <2>1. ASSUME NEW t \in Migration!RequiredTables, Era(t) <= v PROVE t \in db.tables
    <3>1. Era(t) \in 2..12
      BY Eras
    <3>2. CASE Era(t) <= db.rev
      BY <3>2, <1>3, <1>8 DEF TablesStand
    <3>3. CASE Era(t) = v
      <4>1. t \in TablesOf(v)
        BY <3>3 DEF TablesOf
      <4>2. PICK i \in 1..Len(c) : c[i] = Migration!Table(t)
        BY <4>1, <1>1, <1>4, StatementsOf
      <4>3. c[i].op = "table" /\ c[i].on = t
        BY <4>2, Singles
      <4>4. c \in Seq(Statement)
        BY <1>1, <1>4, StatementsOf
      <4>5. i < next
        BY <4>2, <4>4, <1>2, <1>4
      <4> QED
        BY <4>3, <4>5, <1>1, <1>2, <1>3 DEF TablesMade
    <3> QED
      BY <2>1, <3>1, <3>2, <3>3, <1>1, <1>4
  <2> QED
    BY <2>1, <1>6 DEF TablesStand
<1>11. RowsStand'
  BY <1>2, <1>3, <1>6 DEF RowsStand
<1>12. TablesMade' /\ RebuildsStand'
  <2>1. \A i \in Nat \ {0} : ~(i < next')
    BY <1>2
  <2>2. \A k \in 1..3 : next' # 4 * k - 2 /\ next' # 4 * k - 1 /\ next' # 4 * k /\ ~(next' > 4 * k)
    BY <1>2
  <2>3. \A k \in 1..3 : RebuildStands(k)'
    BY <2>2 DEF RebuildStands
  <2>4. TablesMade'
    BY <2>1 DEF TablesMade
  <2> QED
    BY <2>3, <2>4 DEF RebuildsStand
<1>13. PhasesStand' /\ Migration!ServedIsWhole' /\ Migration!RefusedForCause'
  BY <1>2, <1>3 DEF PhasesStand, Migration!ServedIsWhole, Migration!RefusedForCause
<1> QED
  BY <1>7, <1>9, <1>10, <1>11, <1>12, <1>13 DEF UpgradeInv

----------------------------------------------------------------------------
\* The other steps.
LEMMA UpgradeStep == UpgradeInv /\ [Migration!Next]_(Migration!vars) => UpgradeInv'
<1> SUFFICES ASSUME UpgradeInv, [Migration!Next]_(Migration!vars) PROVE UpgradeInv'
  OBVIOUS
<1>1. DbShape /\ DbSets /\ TablesStand /\ RowsStand /\ PhasesStand
  BY DEF UpgradeInv
<1>2. next \in Nat \ {0} /\ dirs \subseteq Migration!Artifacts /\ db.rev \in 0..12
  BY <1>1 DEF DbShape
<1>3. CASE Migration!Start
  <2>1. phase' = "preparing" /\ db' = db /\ dirs' = dirs /\ next' = next /\ kept' = kept
    BY <1>3 DEF Migration!Start
  <2>2. PhasesStand' /\ Migration!ServedIsWhole' /\ Migration!RefusedForCause'
    BY <2>1 DEF PhasesStand, Migration!ServedIsWhole, Migration!RefusedForCause
  <2> QED
    BY <2>1, <2>2, <1>2, IdleKeeps
<1>4. CASE Migration!Prepare
  <2>1. /\ db' = db /\ next' = next /\ kept' = kept /\ dirs' \subseteq Migration!Artifacts
        /\ phase' \in {"preparing", "reading"} /\ (phase' = "reading" => dirs' = Migration!Artifacts)
    BY <1>2, <1>4 DEF Migration!Prepare
  <2>2. PhasesStand' /\ Migration!ServedIsWhole' /\ Migration!RefusedForCause'
    BY <2>1 DEF PhasesStand, Migration!ServedIsWhole, Migration!RefusedForCause
  <2> QED
    BY <2>1, <2>2, <1>2, IdleKeeps
<1>5. CASE Migration!ReadRevision
  <2>1. /\ phase = "reading" /\ dirs' = dirs /\ demo' = demo /\ kept' = kept
        /\ \/ db.file /\ db.rev = 0 /\ phase' = "refused" /\ next' = next /\ db' = db
           \/ phase' = "upgrading" /\ next' = 1 /\ db' = [db EXCEPT !.file = TRUE]
    BY <1>5 DEF Migration!ReadRevision, Migration!Refuse
  <2>2. CASE db.file /\ db.rev = 0 /\ phase' = "refused" /\ next' = next /\ db' = db
    <3>1. Migration!HalfMade
      BY <2>2 DEF Migration!HalfMade
    <3> QED
      BY <3>1, <2>1, <2>2, <1>2, RefusalKeeps
  <2>3. CASE phase' = "upgrading" /\ next' = 1 /\ db' = [db EXCEPT !.file = TRUE]
    <3>1. db' = [rev |-> db.rev, tables |-> db.tables, guards |-> db.guards, rows |-> db.rows, file |-> TRUE]
      <4>1. PICK r, T, G, W, f : r = db.rev /\ T = db.tables /\ G = db.guards /\ W = db.rows /\ f = db.file
        OBVIOUS
      <4>2. db = [rev |-> r, tables |-> T, guards |-> G, rows |-> W, file |-> f]
        BY <4>1, <1>1 DEF DbShape
      <4>3. db' = [rev |-> r, tables |-> T, guards |-> G, rows |-> W, file |-> TRUE]
        BY <4>2, <2>3
      <4> QED
        BY <4>1, <4>3
    <3>2. db'.rev = db.rev /\ db'.tables = db.tables /\ db'.guards = db.guards /\ db'.rows = db.rows /\ db'.file = TRUE
      BY <3>1
    <3>3. next' \in Nat \ {0} /\ next' = 1
      BY <2>3
    <3>4. DbShape'
      BY <3>1, <3>2, <3>3, <2>1, <1>1 DEF DbShape
    <3>5. DbSets' /\ TablesStand' /\ RowsStand'
      BY <3>2, <2>1, <1>1 DEF DbSets, TablesStand, RowsStand
    <3>6. TablesMade' /\ RebuildsStand'
      <4>1. \A k \in 1..3 : next' # 4 * k - 2 /\ next' # 4 * k - 1 /\ next' # 4 * k /\ ~(next' > 4 * k)
        BY <3>3
      <4>2. \A k \in 1..3 : RebuildStands(k)'
        BY <4>1 DEF RebuildStands
      <4>3. \A i \in Nat \ {0} : ~(i < next')
        BY <3>3
      <4>4. TablesMade'
        BY <4>3 DEF TablesMade
      <4> QED
        BY <4>2, <4>4 DEF RebuildsStand
    <3>7. PhasesStand' /\ Migration!ServedIsWhole' /\ Migration!RefusedForCause'
      BY <2>1, <2>3, <1>1 DEF PhasesStand, Migration!ServedIsWhole, Migration!RefusedForCause
    <3> QED
      BY <3>4, <3>5, <3>6, <3>7 DEF UpgradeInv
  <2> QED
    BY <2>1, <2>2, <2>3
<1>6. CASE Migration!Execute
  BY <1>6, ExecuteKeeps
<1>7. CASE Migration!Stamp
  BY <1>7, StampKeeps
<1>8. CASE Migration!Upgraded
  <2>1. /\ phase = "upgrading" /\ phase' = "verifying" /\ db.rev = 12
        /\ db' = db /\ dirs' = dirs /\ next' = next /\ kept' = kept
    BY <1>8 DEF Migration!Upgraded, Migration!Newest
  <2>2. PhasesStand' /\ Migration!ServedIsWhole' /\ Migration!RefusedForCause'
    BY <2>1, <1>1 DEF PhasesStand, Migration!ServedIsWhole, Migration!RefusedForCause
  <2> QED
    BY <2>1, <2>2, <1>2, IdleKeeps
<1>9. CASE Migration!Verify
  <2>1. /\ phase = "verifying" /\ db' = db /\ dirs' = dirs /\ demo' = demo /\ next' = next /\ kept' = kept
        /\ phase' = IF Migration!SchemaVerified /\ dirs = Migration!Artifacts /\ ~demo THEN "serving" ELSE "refused"
    BY <1>9 DEF Migration!Verify
  <2>2. db.rev = 12 /\ dirs = Migration!Artifacts
    BY <2>1, <1>1 DEF PhasesStand
  <2>3. \A t \in RebuiltSet : Migration!Copy(t) \notin db.tables
    BY <2>2, <1>1 DEF DbSets
  <2>4. Migration!RequiredTables \subseteq db.tables
    <3>1. \A t \in Migration!RequiredTables : Era(t) <= db.rev
      BY <2>2, Eras
    <3> QED
      BY <3>1, <2>3, <1>1 DEF TablesStand
  <2>5. db.tables \subseteq Migration!RequiredTables
    BY <2>3, <1>1 DEF DbSets, CopySet
  <2>6. CASE Migration!SchemaVerified /\ ~demo
    <3>1. phase' = "serving" /\ Migration!RequiredGuards \subseteq db.guards
      BY <2>1, <2>2, <2>6 DEF Migration!SchemaVerified
    <3>2. db.guards = Migration!RequiredGuards /\ db.tables = Migration!RequiredTables
      BY <3>1, <2>4, <2>5, <1>1 DEF DbSets
    <3>3. PhasesStand' /\ Migration!RefusedForCause'
      BY <3>1, <2>1, <2>2 DEF PhasesStand, Migration!RefusedForCause
    <3>4. Migration!ServedIsWhole'
      BY <3>2, <2>1, <2>2, <2>6 DEF Migration!ServedIsWhole, Migration!Newest
    <3> QED
      BY <3>1, <3>3, <3>4, <2>1, <1>2, IdleKeeps
  <2>7. CASE ~(Migration!SchemaVerified /\ ~demo)
    <3>1. phase' = "refused"
      BY <2>1, <2>7
    <3>2. demo \/ ~(Migration!RequiredGuards \subseteq db.guards)
      BY <2>2, <2>4, <2>7 DEF Migration!SchemaVerified, Migration!Newest
    <3> QED
      BY <3>1, <3>2, <2>1, <2>2, <1>2, RefusalKeeps
  <2> QED
    BY <2>6, <2>7
<1>10. CASE Migration!Work
  <2>1. /\ phase = "serving" /\ phase' = "serving" /\ db' = [db EXCEPT !.rows = Migration!RequiredTables]
        /\ kept' = kept \union Migration!RequiredTables /\ dirs' = dirs /\ demo' = demo /\ next' = next
    BY <1>10 DEF Migration!Work
  <2>2. /\ db.rev = 12 /\ db.tables = Migration!RequiredTables /\ db.guards = Migration!RequiredGuards
        /\ dirs = Migration!Artifacts /\ ~demo
    BY <2>1 DEF UpgradeInv, Migration!ServedIsWhole, Migration!Newest
  <2>3. db' = [rev |-> db.rev, tables |-> db.tables, guards |-> db.guards, rows |-> Migration!RequiredTables, file |-> db.file]
    <3>1. PICK r, T, G, W, f : r = db.rev /\ T = db.tables /\ G = db.guards /\ W = db.rows /\ f = db.file
      OBVIOUS
    <3>2. db = [rev |-> r, tables |-> T, guards |-> G, rows |-> W, file |-> f]
      BY <3>1, <1>1 DEF DbShape
    <3>3. db' = [rev |-> r, tables |-> T, guards |-> G, rows |-> Migration!RequiredTables, file |-> f]
      BY <3>2, <2>1
    <3> QED
      BY <3>1, <3>3
  <2>4. /\ db'.rev = 12 /\ db'.tables = Migration!RequiredTables /\ db'.guards = Migration!RequiredGuards
        /\ db'.rows = Migration!RequiredTables /\ db'.file = db.file /\ db'.rev = db.rev /\ db'.tables = db.tables
        /\ db'.guards = db.guards
    BY <2>2, <2>3
  <2>5. DbShape'
    BY <2>1, <2>3, <2>4, <1>1 DEF DbShape
  <2>6. DbSets'
    <3>1. \A t \in Migration!RequiredTables : Era(t) <= 12
      BY Eras
    <3>2. \A t \in RebuiltSet : Migration!Copy(t) \notin db'.tables
      BY <2>4, Copies
    <3>3. kept' \subseteq Migration!RequiredTables
      BY <2>1, <1>1 DEF DbSets
    <3>4. db'.guards \subseteq db'.tables
      BY <2>4, Eras
    <3> QED
      BY <2>4, <3>1, <3>2, <3>3, <3>4 DEF DbSets
  <2>7. TablesStand' /\ RowsStand'
    <3>1. kept' \subseteq Migration!RequiredTables
      BY <2>1, <1>1 DEF DbSets
    <3> QED
      BY <3>1, <2>4 DEF TablesStand, RowsStand
  <2>8. TablesMade' /\ RebuildsStand'
    BY <2>1 DEF TablesMade, RebuildsStand
  <2>9. PhasesStand' /\ Migration!ServedIsWhole' /\ Migration!RefusedForCause'
    BY <2>1, <2>2, <2>4 DEF PhasesStand, Migration!ServedIsWhole, Migration!RefusedForCause, Migration!Newest
  <2> QED
    BY <2>5, <2>6, <2>7, <2>8, <2>9 DEF UpgradeInv
<1>11. CASE Migration!Stop
  <2>1. phase' = "stopped" /\ next' = 1 /\ db' = db /\ dirs' = dirs /\ kept' = kept
    BY <1>11 DEF Migration!Stop
  <2>2. PhasesStand' /\ Migration!ServedIsWhole' /\ Migration!RefusedForCause'
    BY <2>1 DEF PhasesStand, Migration!ServedIsWhole, Migration!RefusedForCause
  <2> QED
    BY <2>1, <2>2, <1>2, IdleKeeps
<1>12. CASE UNCHANGED Migration!vars
  <2>1. db' = db /\ dirs' = dirs /\ demo' = demo /\ phase' = phase /\ next' = next /\ kept' = kept
    BY <1>12 DEF Migration!vars
  <2>2. DbShape' /\ DbSets' /\ TablesStand' /\ RowsStand' /\ PhasesStand'
    BY <2>1, <1>1 DEF DbShape, DbSets, TablesStand, RowsStand, PhasesStand
  <2>3. TablesMade' /\ RebuildsStand'
    BY <2>1 DEF UpgradeInv, TablesMade, RebuildsStand, RebuildStands
  <2>4. Migration!ServedIsWhole' /\ Migration!RefusedForCause'
    BY <2>1 DEF UpgradeInv, Migration!ServedIsWhole, Migration!RefusedForCause, Migration!HalfMade
  <2> QED
    BY <2>2, <2>3, <2>4 DEF UpgradeInv
<1> QED
  BY <1>3, <1>4, <1>5, <1>6, <1>7, <1>8, <1>9, <1>10, <1>11, <1>12 DEF Migration!Next

\* However often the startup of a Standard backend is stopped on its way through the twelve
\* revisions, no row of the user is lost, a backend that serves has the whole schema below it,
\* and one that refuses does so for a cause in the workspace, whatever the revisions
\* (prepare_standard_workspace, upgrade_database_to_head, verify_product_schema).
THEOREM Upgrades ==
  ASSUME Migration!MigrationAssumption PROVE Migration!Spec => []UpgradesKeepRows
<1>1. Migration!Init => UpgradeInv
  BY UpgradeInit
<1>2. UpgradeInv /\ [Migration!Next]_(Migration!vars) => UpgradeInv'
  BY UpgradeStep
<1>3. UpgradeInv => UpgradesKeepRows
  BY UpgradeInvSuffices
<1> QED
  BY <1>1, <1>2, <1>3, PTL DEF Migration!Spec
=============================================================================

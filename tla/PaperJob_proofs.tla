--------------------------- MODULE PaperJob_proofs ---------------------------
(* Proofs about PaperJob, for every set of workers and whoever serves the job, *)
(* and, at the end, about the submission of jobs (PaperJobSubmission) and the  *)
(* routes that answer for one (PaperJobRoutes).                                *)
EXTENDS PaperJobs, TLAPS

-----------------------------------------------------------------------------
(* Types *)

Executing  == {"verify", "artifact", "artifactBody", "summary", "summaryBody", "succeed", "fail"}
Recovering == {"statArtifact", "statSummary", "read", "finalize"}

\* Who carries out an attempt was given it, and a whole file is a file.
TypeInv ==
  /\ TypeOK
  /\ \A w \in Worker : pc[w] \in Executing => mine[w] \in 1..Len(attempts)
  /\ \A f \in File : file[f].whole => Exists(f)

\* The attempts, of which an appended one runs and another one may change its status.
LEMMA AttemptFacts ==
  ASSUME attempts \in Seq(AttemptStatus)
  PROVE  /\ Len(attempts) \in Nat /\ DOMAIN attempts = 1..Len(attempts)
         /\ \A n \in 1..Len(attempts) : attempts[n] \in AttemptStatus
         /\ Running \subseteq 1..Len(attempts)
         /\ attempts = <<>> <=> Len(attempts) = 0
BY DEF Running

LEMMA AppendedFacts ==
  ASSUME attempts \in Seq(AttemptStatus), NEW s \in AttemptStatus,
         attempts' = Append(attempts, s)
  PROVE  /\ attempts' \in Seq(AttemptStatus)
         /\ Len(attempts') = Len(attempts) + 1
         /\ \A n \in 1..Len(attempts) : attempts'[n] = attempts[n]
         /\ attempts'[Len(attempts) + 1] = s
OBVIOUS

LEMMA CompletedFacts ==
  ASSUME attempts \in Seq(AttemptStatus), NEW n, NEW s \in AttemptStatus, CompleteAttempt(n, s)
  PROVE  /\ attempts' \in Seq(AttemptStatus)
         /\ Len(attempts') = Len(attempts)
         /\ n \in 1..Len(attempts)
         /\ attempts'[n] = s
         /\ \A m \in 1..Len(attempts) : m # n => attempts'[m] = attempts[m]
BY DEF CompleteAttempt, Running

LEMMA SettledFacts ==
  ASSUME attempts \in Seq(AttemptStatus), NEW s \in AttemptStatus, Settle(s)
  PROVE  /\ attempts' \in Seq(AttemptStatus)
         /\ Len(attempts') >= Len(attempts)
         /\ \A m \in 1..Len(attempts) : attempts[m] # "running" => attempts'[m] = attempts[m]
<1>1. ASSUME NEW n \in Running, CompleteAttempt(n, s)
      PROVE  /\ attempts' \in Seq(AttemptStatus)
             /\ Len(attempts') >= Len(attempts)
             /\ \A m \in 1..Len(attempts) : attempts[m] # "running" => attempts'[m] = attempts[m]
  BY <1>1, AttemptFacts, CompletedFacts DEF Running
<1>2. CASE attempts = <<>> /\ attempts' = <<s>>
  BY <1>2
<1> QED
  BY <1>1, <1>2 DEF Settle

\* What each action does to the row, taken from what its worker holds and saw.
LEMMA TransitionFacts ==
  ASSUME TypeOK, NEW expected, NEW target \in Status, Transition(expected, target)
  PROVE  /\ job' \in [status : Status, stamp : Nat]
         /\ job.status = expected /\ job'.status = target
         /\ job.stamp <= job'.stamp /\ (~service.ties => job.stamp < job'.stamp)
BY DEF TypeOK, Transition

LEMMA TypeInvInductive ==
  ASSUME TypeInv, [Next]_vars
  PROVE  TypeInv'
<1> USE DEF row, locals, bounds
<1>1. /\ attempts \in Seq(AttemptStatus) /\ Len(attempts) \in Nat
      /\ file \in [File -> [by : 0..Len(attempts), whole : BOOLEAN]]
      /\ pc \in [Worker -> Label] /\ mine \in [Worker -> Nat]
  BY AttemptFacts DEF TypeInv, TypeOK
\* The parts of the invariant that speak of attempts, files and places, on their own.
<1> DEFINE Rest == /\ service' \in Service
                   /\ job' \in [status : Status, stamp : Nat]
                   /\ reference' \in BOOLEAN
                   /\ seen' \in [Worker -> Nat] /\ verdict' \in [Worker -> Verdict]
                   /\ faults' \in Nat /\ cleans' \in Nat
           Grows == attempts' \in Seq(AttemptStatus) /\ Len(attempts') >= Len(attempts)
           Files == /\ file' \in [File -> [by : 0..Len(attempts), whole : BOOLEAN]]
                    /\ \A f \in File : file'[f].whole => file'[f].by # 0
           Places == /\ pc' \in [Worker -> Label] /\ mine' \in [Worker -> Nat]
                     /\ \A w \in Worker : pc'[w] \in Executing => mine'[w] \in 1..Len(attempts')
<1>2. ASSUME Rest, Grows, Files, Places PROVE TypeInv'
  <2>1. Len(attempts') \in Nat
    BY <1>2
  <2>2. file' \in [File -> [by : 0..Len(attempts'), whole : BOOLEAN]]
    BY <1>1, <1>2, <2>1
  <2> QED
    BY <1>2, <2>2 DEF TypeInv, TypeOK, Exists
<1>3. /\ UNCHANGED file => Files
      /\ UNCHANGED attempts => Grows
  BY <1>1 DEF TypeInv, Exists
\* A worker moves, and only a claim gives it an attempt.
<1>4. ASSUME NEW w \in Worker, NEW l \in Label, Goto(w, l), UNCHANGED mine, Grows,
             l \in Executing => pc[w] \in Executing
      PROVE  Places
  <2>1. pc' \in [Worker -> Label] /\ pc'[w] = l /\ \A v \in Worker : v # w => pc'[v] = pc[v]
    BY <1>1, <1>4 DEF Goto
  <2>2. ASSUME NEW v \in Worker, pc'[v] \in Executing PROVE mine'[v] \in 1..Len(attempts')
    <3>1. mine[v] \in 1..Len(attempts)
      BY <1>4, <2>1, <2>2 DEF TypeInv
    <3> QED
      BY <1>1, <1>4, <3>1
  <2> QED
    BY <1>1, <1>4, <2>1, <2>2
<1>5. ASSUME NEW w \in Worker, Leave(w), Grows
      PROVE  /\ Places
             /\ seen' \in [Worker -> Nat] /\ verdict' \in [Worker -> Verdict]
  <2>1. /\ pc' \in [Worker -> Label] /\ pc'[w] = "idle" /\ \A v \in Worker : v # w => pc'[v] = pc[v]
        /\ mine' \in [Worker -> Nat] /\ \A v \in Worker : v # w => mine'[v] = mine[v]
    BY <1>1, <1>5 DEF Leave, Goto, Label
  <2>2. ASSUME NEW v \in Worker, pc'[v] \in Executing PROVE mine'[v] \in 1..Len(attempts')
    <3>1. v # w
      BY <2>1, <2>2 DEF Executing
    <3>2. mine[v] \in 1..Len(attempts)
      BY <2>1, <2>2, <3>1 DEF TypeInv
    <3> QED
      BY <1>1, <1>5, <2>1, <3>1, <3>2
  <2> QED
    BY <1>5, <2>1, <2>2 DEF Leave, TypeInv, TypeOK, Verdict
<1> USE DEF Label, Executing
<1>6. ASSUME NEW w \in Worker, UNCHANGED service,
             Preflight(w) \/ Verify(w) \/ WorkflowFails(w) \/ Observe(w) \/ StatArtifact(w)
               \/ StatSummary(w) \/ PreflightRetry(w)
      PROVE  TypeInv'
  <2> DEFINE Moves(l) == Goto(w, l) /\ UNCHANGED <<row, file, mine>>
                         /\ (l \in Executing => pc[w] \in Executing)
  <2>1. \E l \in Label : Moves(l)
    BY <1>6 DEF Preflight, Verify, WorkflowFails, Observe, StatArtifact, StatSummary, PreflightRetry
  <2>2. Places
    BY <1>3, <1>4, <2>1
  <2>3. UNCHANGED <<row, file>>
    BY <2>1
  <2>4. Rest
    <3>1. seen' \in [Worker -> Nat]
      BY <1>6 DEF Preflight, Verify, WorkflowFails, Observe, StatArtifact, StatSummary,
                  PreflightRetry, TypeInv, TypeOK
    <3>2. verdict' \in [Worker -> Verdict]
      BY <1>6 DEF Preflight, Verify, WorkflowFails, Observe, StatArtifact, StatSummary,
                  PreflightRetry, TypeInv, TypeOK, Verdict
    <3>3. faults' \in Nat /\ cleans' \in Nat
      BY <1>6 DEF Preflight, Verify, WorkflowFails, Observe, StatArtifact, StatSummary,
                  PreflightRetry, TypeInv, TypeOK
    <3> QED
      BY <1>6, <2>3, <3>1, <3>2, <3>3 DEF TypeInv, TypeOK
  <2> QED
    BY <1>2, <1>3, <2>2, <2>3, <2>4
<1>7. ASSUME NEW w \in Worker, UNCHANGED service, Claim(w) PROVE TypeInv'
  <2>1. /\ Grows /\ Len(attempts') = Len(attempts) + 1
    BY <1>1, <1>7, AppendedFacts DEF Claim, AttemptStatus
  <2>2. Places
    <3>1. /\ pc' \in [Worker -> Label] /\ \A v \in Worker : v # w => pc'[v] = pc[v]
          /\ mine' \in [Worker -> Nat] /\ mine'[w] = Len(attempts) + 1
          /\ \A v \in Worker : v # w => mine'[v] = mine[v]
      BY <1>1, <1>7 DEF Claim, Goto
    <3>2. ASSUME NEW v \in Worker, pc'[v] \in Executing PROVE mine'[v] \in 1..Len(attempts')
      BY <1>1, <2>1, <3>1, <3>2 DEF TypeInv
    <3> QED
      BY <3>1, <3>2
  <2>3. Rest
    BY <1>7, TransitionFacts DEF Claim, TypeInv, TypeOK, Status
  <2> QED
    BY <1>2, <1>3, <1>7, <2>1, <2>2, <2>3 DEF Claim
<1>8. ASSUME NEW w \in Worker, NEW f \in File, UNCHANGED service, Create(w, f) \/ Write(w, f)
      PROVE  TypeInv'
  <2>1. UNCHANGED <<row, locals, bounds>>
    BY <1>8 DEF Create, Write
  <2>2. Grows /\ Rest
    BY <1>3, <1>8, <2>1 DEF TypeInv, TypeOK
  <2>3. pc[w] \in Executing
    BY <1>8 DEF Create, Write, File
  <2>4. \E l \in Label : Goto(w, l)
    BY <1>8 DEF Create, Write, File
  <2>5. Places
    BY <1>4, <2>1, <2>2, <2>3, <2>4
  <2>6. CASE Create(w, f)
    <3>1. CASE Exists(f)
      BY <1>2, <1>3, <2>2, <2>5, <2>6, <3>1 DEF Create
    <3>2. CASE ~Exists(f)
      <4>1. file' = [file EXCEPT ![f] = [by |-> mine[w], whole |-> FALSE]]
        BY <2>6, <3>2 DEF Create
      <4>2. mine[w] \in 0..Len(attempts)
        BY <1>1, <2>3 DEF TypeInv
      <4>3. [by |-> mine[w], whole |-> FALSE] \in [by : 0..Len(attempts), whole : BOOLEAN]
        BY <4>2
      <4>4. file' \in [File -> [by : 0..Len(attempts), whole : BOOLEAN]]
        BY <1>1, <4>1, <4>3
      <4>5. \A g \in File : file'[g].whole => file'[g].by # 0
        BY <1>1, <4>1 DEF TypeInv, Exists
      <4> QED
        BY <1>2, <2>2, <2>5, <4>4, <4>5
    <3> QED
      BY <3>1, <3>2
  <2>7. CASE Write(w, f)
    <3> DEFINE b == file[f].whole \/ file[f].by = mine[w]
    <3>1. file' = [file EXCEPT ![f].whole = b]
      BY <2>7 DEF Write
    <3>2. file[f] \in [by : 0..Len(attempts), whole : BOOLEAN] /\ b \in BOOLEAN
      BY <1>1
    <3>3. mine[w] # 0
      BY <1>1, <2>3 DEF TypeInv
    <3>4. b => file[f].by # 0
      BY <3>3 DEF TypeInv, Exists
    <3> HIDE DEF b
    <3>5. [file[f] EXCEPT !.whole = b] \in [by : 0..Len(attempts), whole : BOOLEAN]
      BY <3>2
    <3>6. file' = [file EXCEPT ![f] = [file[f] EXCEPT !.whole = b]]
      BY <1>1, <3>1
    <3>7. file' \in [File -> [by : 0..Len(attempts), whole : BOOLEAN]]
      BY <1>1, <3>5, <3>6
    <3>8. ASSUME NEW g \in File, file'[g].whole PROVE file'[g].by # 0
      <4>1. CASE g = f
        BY <1>1, <3>2, <3>4, <3>6, <3>8, <4>1
      <4>2. CASE g # f
        BY <1>1, <3>6, <3>8, <4>2 DEF TypeInv, Exists
      <4> QED
        BY <4>1, <4>2
    <3> QED
      BY <1>2, <2>2, <2>5, <3>7, <3>8
  <2> QED
    BY <1>8, <2>6, <2>7
<1>9. ASSUME NEW w \in Worker, UNCHANGED service, Complete(w) PROVE TypeInv'
  <2>1. PICK s \in {"succeeded", "failed"} :
          /\ Transition("running", s) /\ CompleteAttempt(mine[w], s)
          /\ reference' = (reference \/ (service.product /\ s = "succeeded"))
    BY <1>9 DEF Complete
  <2>2. Grows
    BY <1>1, <2>1, CompletedFacts DEF AttemptStatus
  <2>3. job' \in [status : Status, stamp : Nat]
    BY <2>1, TransitionFacts DEF TypeInv, Status
  <2>4. reference' \in BOOLEAN
    BY <2>1
  <2> QED
    BY <1>2, <1>3, <1>5, <1>9, <2>2, <2>3, <2>4 DEF Complete, TypeInv, TypeOK
<1>10. ASSUME NEW w \in Worker, UNCHANGED service, Finalize(w) PROVE TypeInv'
  <2>1. verdict[w] \in Verdict
    BY DEF TypeInv, TypeOK
  <2>2. PICK s \in AttemptStatus, t \in Status :
          /\ Transition("running", t) /\ Settle(s)
          /\ reference' = (reference \/ (service.product /\ verdict[w] = "succeeded"))
    BY <1>10, <2>1 DEF Finalize, AttemptStatusOf, Verdict, Status, AttemptStatus
  <2>3. Grows
    BY <1>1, <2>2, SettledFacts
  <2>4. job' \in [status : Status, stamp : Nat]
    BY <2>2, TransitionFacts DEF TypeInv
  <2>5. reference' \in BOOLEAN
    BY <2>2
  <2> QED
    BY <1>2, <1>3, <1>5, <1>10, <2>3, <2>4, <2>5 DEF Finalize, TypeInv, TypeOK
<1>11. ASSUME NEW w \in Worker, UNCHANGED service, Read(w) PROVE TypeInv'
  <2>1. CASE Leave(w)
    BY <1>2, <1>3, <1>5, <1>11, <2>1 DEF Read, TypeInv, TypeOK
  <2>2. CASE ~Leave(w)
    <3>1. /\ Goto(w, "finalize") /\ UNCHANGED <<row, file, mine, seen, bounds>>
          /\ verdict' \in [Worker -> Verdict]
      BY <1>11, <2>2 DEF Read, TypeInv, TypeOK, Verdict
    <3> QED
      BY <1>2, <1>3, <1>4, <1>11, <3>1 DEF TypeInv, TypeOK
  <2> QED
    BY <2>1, <2>2
<1>12. ASSUME NEW w \in Worker, UNCHANGED service, Retry(w) \/ GiveUp(w) \/ Crash(w) PROVE TypeInv'
  <2>1. Leave(w) /\ UNCHANGED <<attempts, reference, file, cleans>> /\ faults' \in Nat
    BY <1>12 DEF Retry, GiveUp, Crash, TypeInv, TypeOK
  <2>2. job' \in [status : Status, stamp : Nat]
    BY <1>12, TransitionFacts DEF Retry, GiveUp, Crash, Status, TypeInv, TypeOK
  <2> QED
    BY <1>2, <1>3, <1>5, <1>12, <2>1, <2>2 DEF TypeInv, TypeOK
<1>13. CASE UNCHANGED service /\ Cancel
  <2>1. job' \in [status : Status, stamp : Nat]
    BY <1>13, TransitionFacts DEF Cancel, Status, TypeInv
  <2> QED
    BY <1>13, <2>1 DEF Cancel, TypeInv, TypeOK, Exists
<1>14. CASE UNCHANGED service /\ RemoveOutputs
  <2>1. Files
    BY <1>1, <1>14 DEF RemoveOutputs, Absent
  <2> QED
    BY <1>2, <1>3, <1>14, <2>1 DEF RemoveOutputs, TypeInv, TypeOK
<1>15. CASE UNCHANGED vars
  BY <1>15 DEF vars, TypeInv, TypeOK, Exists
<1> QED
  BY <1>6, <1>7, <1>8, <1>9, <1>10, <1>11, <1>12, <1>13, <1>14, <1>15 DEF Next, Execute

LEMMA TypeInvInitially == Init => TypeInv
<1> SUFFICES ASSUME Init PROVE TypeInv
  OBVIOUS
<1>1. Len(attempts) = 0 /\ attempts \in Seq(AttemptStatus)
  BY DEF Init
<1>2. file \in [File -> [by : 0..Len(attempts), whole : BOOLEAN]]
  BY <1>1 DEF Init, Absent
<1>3. \A f \in File : ~file[f].whole
  BY DEF Init, Absent
<1>4. \A w \in Worker : pc[w] \notin Executing
  BY DEF Init, Executing
<1>5. job \in [status : Status, stamp : Nat]
  BY DEF Init, Status
<1> QED
  BY <1>1, <1>2, <1>3, <1>4, <1>5 DEF Init, TypeInv, TypeOK, Label, Verdict

\* Every variable keeps its type, and an attempt that is carried out is one of the job's.
THEOREM Typing == Spec => []TypeInv
BY TypeInvInitially, TypeInvInductive, PTL DEF Spec

-----------------------------------------------------------------------------
(* What a step does to the row, the files and a worker *)

LEMMA RowSteps ==
  ASSUME [Next]_vars
  PROVE  /\ UNCHANGED service
         /\ \/ UNCHANGED row
            \/ \E w \in Worker : Claim(w) \/ Complete(w) \/ Finalize(w) \/ Retry(w)
            \/ Cancel
BY DEF Next, Execute, vars, row, Preflight, Verify, WorkflowFails, GiveUp, Create, Write,
       Observe, StatArtifact, StatSummary, Read, PreflightRetry, Crash, RemoveOutputs

\* Nothing but the operator of a failed job removes a file, or replaces what is in it.
LEMMA FileSteps ==
  ASSUME TypeInv, [Next]_vars
  PROVE  \/ RemoveOutputs
         \/ \A f \in File : Exists(f) => /\ file'[f].by = file[f].by
                                         /\ file[f].whole => file'[f].whole
<1> DEFINE Kept == \A f \in File : Exists(f) => /\ file'[f].by = file[f].by
                                                /\ file[f].whole => file'[f].whole
<1>1. file \in [File -> [by : 0..Len(attempts), whole : BOOLEAN]]
  BY DEF TypeInv, TypeOK
<1>2. ASSUME NEW w \in Worker, NEW f \in File, Create(w, f) PROVE Kept
  BY <1>1, <1>2 DEF Create
<1>3. ASSUME NEW w \in Worker, NEW f \in File, Write(w, f) PROVE Kept
  BY <1>1, <1>3 DEF Write
<1>4. CASE UNCHANGED file
  BY <1>4
<1>5. ASSUME NEW w \in Worker,
             \/ Preflight(w) \/ Claim(w) \/ Verify(w) \/ WorkflowFails(w) \/ Complete(w) \/ GiveUp(w)
             \/ Observe(w) \/ StatArtifact(w) \/ StatSummary(w) \/ Read(w) \/ Finalize(w)
             \/ PreflightRetry(w) \/ Retry(w) \/ Crash(w)
      PROVE  UNCHANGED file
  BY <1>5 DEF Preflight, Claim, Verify, WorkflowFails, Complete, GiveUp, Observe, StatArtifact,
              StatSummary, Read, Finalize, PreflightRetry, Retry, Crash
<1> QED
  BY <1>2, <1>3, <1>4, <1>5 DEF Next, Execute, vars, Cancel

\* A worker stays as it is, works on a file, looks at row and files, or is at no file.
Stays(w) == pc'[w] = pc[w] /\ mine'[w] = mine[w] /\ seen'[w] = seen[w] /\ verdict'[w] = verdict[w]

LEMMA WorkerSteps ==
  ASSUME TypeInv, [Next]_vars, NEW w \in Worker
  PROVE  \/ Stays(w)
         \/ \E f \in File : Create(w, f) \/ Write(w, f)
         \/ Observe(w) \/ StatArtifact(w) \/ StatSummary(w) \/ Read(w)
         \/ pc'[w] \in {"idle", "claim", "verify", "artifact", "fail", "retry"}
<1> USE DEF locals, TypeInv, TypeOK, Goto
<1>1. ASSUME NEW v \in Worker, v # w,
             \/ Preflight(v) \/ Claim(v) \/ Verify(v) \/ WorkflowFails(v) \/ PreflightRetry(v)
             \/ Observe(v) \/ StatArtifact(v) \/ StatSummary(v)
      PROVE  Stays(w)
  BY <1>1 DEF Preflight, Claim, Verify, WorkflowFails, Observe, StatArtifact, StatSummary,
              PreflightRetry, Stays
<1>2. ASSUME NEW v \in Worker, v # w, Leave(v) PROVE Stays(w)
  BY <1>2 DEF Leave, Stays
<1>3. ASSUME NEW v \in Worker, v # w, Complete(v) \/ GiveUp(v) \/ Finalize(v) \/ Retry(v) \/ Crash(v)
      PROVE  Stays(w)
  BY <1>2, <1>3 DEF Complete, GiveUp, Finalize, Retry, Crash
<1>4. ASSUME NEW v \in Worker, v # w, Read(v) PROVE Stays(w)
  <2>1. CASE Leave(v)
    BY <1>2, <1>4, <2>1
  <2>2. CASE ~Leave(v)
    BY <1>4, <2>2 DEF Read, Stays
  <2> QED
    BY <2>1, <2>2
<1>5. ASSUME NEW v \in Worker, v # w, NEW f \in File, Create(v, f) \/ Write(v, f) PROVE Stays(w)
  BY <1>5 DEF Create, Write, Stays
<1>6. CASE Cancel \/ RemoveOutputs \/ UNCHANGED vars
  BY <1>6 DEF Cancel, RemoveOutputs, vars, Stays
<1>7. Leave(w) => pc'[w] = "idle"
  BY DEF Leave
<1>8. CASE \/ Preflight(w) \/ Claim(w) \/ Verify(w) \/ WorkflowFails(w) \/ Complete(w) \/ GiveUp(w)
           \/ Finalize(w) \/ PreflightRetry(w) \/ Retry(w) \/ Crash(w)
  BY <1>7, <1>8 DEF Preflight, Claim, Verify, WorkflowFails, Complete, GiveUp, Finalize,
                    PreflightRetry, Retry, Crash
<1> QED
  BY <1>1, <1>3, <1>4, <1>5, <1>6, <1>8 DEF Next, Execute

-----------------------------------------------------------------------------
(* The row and its attempts *)

\* Whether a claim, a completion, a recovery, a retry or a cancelation writes the row, it
\* agrees with the attempts.
LEMMA StatusInductive ==
  ASSUME TypeInv, TypeInv', StatusMatchesAttempts, [Next]_vars
  PROVE  StatusMatchesAttempts'
<1> DEFINE n == Len(attempts)
           Ended == {"failed", "interrupted"}
<1>1. /\ attempts \in Seq(AttemptStatus) /\ n \in Nat /\ DOMAIN attempts = 1..n
      /\ \A m \in 1..n : attempts[m] \in AttemptStatus
      /\ Running = {m \in 1..n : attempts[m] = "running"}
      /\ attempts = <<>> <=> n = 0
      /\ attempts' \in Seq(AttemptStatus) /\ Len(attempts') \in Nat
      /\ attempts' = <<>> <=> Len(attempts') = 0
  BY AttemptFacts DEF TypeInv, TypeOK, Running
<1>2. /\ job.status = "running" => Running = {n} \ {0}
      /\ job.status \in {"succeeded", "failed"} => n # 0 /\ attempts[n] = job.status
      /\ job.status \in {"queued", "canceled"} => n = 0 \/ attempts[n] \in Ended
      /\ \A m \in 1..n - 1 : attempts[m] \in Ended
  <2>1. CASE attempts = <<>>
    BY <1>1, <2>1 DEF StatusMatchesAttempts
  <2>2. CASE attempts # <<>>
    <3>1. n # 0
      BY <1>1, <2>2
    <3>2. /\ job.status = "running" => Running = {n} \ {0}
          /\ job.status \in {"succeeded", "failed"} => attempts[n] = job.status
          /\ job.status \in {"queued", "canceled"} => attempts[n] \in {"none"} \union Ended
          /\ \A m \in 1..n - 1 : attempts[m] \in Ended
      BY <2>2 DEF StatusMatchesAttempts
    <3>3. attempts[n] \in AttemptStatus
      BY <1>1, <3>1
    <3> QED
      BY <3>1, <3>2, <3>3 DEF AttemptStatus
  <2> QED
    BY <2>1, <2>2
<1>3. SUFFICES
      /\ job'.status = "running" => Running' = {Len(attempts')} \ {0}
      /\ job'.status \in {"succeeded", "failed"} =>
           Len(attempts') # 0 /\ attempts'[Len(attempts')] = job'.status
      /\ job'.status \in {"queued", "canceled"} =>
           Len(attempts') = 0 \/ attempts'[Len(attempts')] \in Ended
      /\ \A m \in 1..Len(attempts') - 1 : attempts'[m] \in Ended
  BY <1>1 DEF StatusMatchesAttempts
<1>4. CASE UNCHANGED row
  BY <1>2, <1>4 DEF row, Running
<1>5. ASSUME NEW w \in Worker, Claim(w)
      PROVE  /\ job'.status = "running" => Running' = {Len(attempts')} \ {0}
             /\ job'.status = "running"
             /\ \A m \in 1..Len(attempts') - 1 : attempts'[m] \in Ended
  <2>1. job.status = "queued" /\ job'.status = "running"
    BY <1>5, TransitionFacts DEF Claim, TypeInv, Status
  <2>2. /\ Len(attempts') = n + 1 /\ attempts'[n + 1] = "running"
        /\ \A m \in 1..n : attempts'[m] = attempts[m]
    BY <1>1, <1>5, AppendedFacts DEF Claim, AttemptStatus
  <2>3. \A m \in 1..n : attempts[m] \in Ended
    BY <1>1, <1>2, <2>1
  <2>4. Running' = {n + 1}
    BY <1>1, <2>2, <2>3 DEF Running
  <2> QED
    BY <1>1, <2>1, <2>2, <2>3, <2>4
<1>6. ASSUME NEW s \in {"succeeded", "failed", "interrupted"}, job.status = "running",
             \/ \E m \in Running : CompleteAttempt(m, s)
             \/ n = 0 /\ attempts' = <<s>>
      PROVE  /\ Len(attempts') # 0 /\ attempts'[Len(attempts')] = s
             /\ \A m \in 1..Len(attempts') - 1 : attempts'[m] \in Ended
  <2>1. ASSUME NEW m \in Running, CompleteAttempt(m, s)
        PROVE  /\ Len(attempts') # 0 /\ attempts'[Len(attempts')] = s
               /\ \A k \in 1..Len(attempts') - 1 : attempts'[k] \in Ended
    <3>1. m = n /\ n # 0
      BY <1>1, <1>2, <1>6, <2>1
    <3>2. /\ Len(attempts') = n /\ attempts'[n] = s
          /\ \A k \in 1..n : k # n => attempts'[k] = attempts[k]
      BY <1>1, <2>1, <3>1, CompletedFacts DEF AttemptStatus
    <3>3. \A k \in 1..n - 1 : k \in 1..n /\ k # n
      <4>1. \A i \in Nat : \A k \in 1..i - 1 : k \in 1..i /\ k # i
        OBVIOUS
      <4> QED
        BY <1>1, <4>1
    <3>4. \A k \in 1..n - 1 : attempts'[k] \in Ended
      BY <1>2, <3>2, <3>3
    <3>5. Len(attempts') # 0 /\ attempts'[Len(attempts')] = s
      BY <3>1, <3>2
    <3> QED
      BY <3>2, <3>4, <3>5
  <2>2. CASE n = 0 /\ attempts' = <<s>>
    BY <2>2
  <2> QED
    BY <1>6, <2>1, <2>2
<1>7. ASSUME NEW w \in Worker, Complete(w)
      PROVE  /\ Len(attempts') # 0 /\ attempts'[Len(attempts')] = job'.status
             /\ job'.status \in {"succeeded", "failed"}
             /\ \A m \in 1..Len(attempts') - 1 : attempts'[m] \in Ended
  <2>1. PICK s \in {"succeeded", "failed"} : Transition("running", s) /\ CompleteAttempt(mine[w], s)
    BY <1>7 DEF Complete
  <2>2. job.status = "running" /\ job'.status = s
    BY <2>1, TransitionFacts DEF TypeInv, Status
  <2>3. mine[w] \in Running
    BY <2>1 DEF CompleteAttempt
  <2> QED
    BY <1>6, <2>1, <2>2, <2>3
<1>8. ASSUME NEW w \in Worker, Finalize(w)
      PROVE  /\ Len(attempts') # 0
             /\ \/ job'.status \in {"succeeded", "failed"} /\ attempts'[Len(attempts')] = job'.status
                \/ job'.status = "queued" /\ attempts'[Len(attempts')] = "interrupted"
             /\ \A m \in 1..Len(attempts') - 1 : attempts'[m] \in Ended
  <2>1. verdict[w] \in Verdict
    BY DEF TypeInv, TypeOK
  <2>2. PICK t \in Status, s \in {"succeeded", "failed", "interrupted"} :
          /\ Transition("running", t) /\ Settle(s)
          /\ \/ t \in {"succeeded", "failed"} /\ s = t
             \/ t = "queued" /\ s = "interrupted"
    BY <1>8, <2>1 DEF Finalize, AttemptStatusOf, Verdict, Status
  <2>3. job.status = "running" /\ job'.status = t
    BY <2>2, TransitionFacts DEF TypeInv
  <2>4. \/ \E m \in Running : CompleteAttempt(m, s)
        \/ n = 0 /\ attempts' = <<s>>
    BY <1>1, <2>2 DEF Settle
  <2> QED
    BY <1>6, <2>2, <2>3, <2>4
<1>9. ASSUME NEW expected \in {"failed", "queued"}, NEW target \in {"queued", "canceled"},
             Transition(expected, target), UNCHANGED attempts
      PROVE  /\ job'.status \in {"queued", "canceled"}
             /\ Len(attempts') = 0 \/ attempts'[Len(attempts')] \in Ended
             /\ \A m \in 1..Len(attempts') - 1 : attempts'[m] \in Ended
  BY <1>2, <1>9, TransitionFacts DEF TypeInv, Status
<1>10. CASE (\E w \in Worker : Retry(w)) \/ Cancel
  BY <1>9, <1>10 DEF Retry, Cancel
<1> QED
  BY <1>1, <1>4, <1>5, <1>7, <1>8, <1>10, RowSteps

\* What ended stays ended.
LEMMA OneWinnerSteps ==
  ASSUME TypeInv, [Next]_vars
  PROVE  OneWinner
<1>1. attempts \in Seq(AttemptStatus) /\ Len(attempts) \in Nat
  BY AttemptFacts DEF TypeInv, TypeOK
<1> DEFINE Grown == /\ Len(attempts') >= Len(attempts)
                    /\ \A n \in 1..Len(attempts) :
                         attempts[n] # "running" => attempts'[n] = attempts[n]
<1>2. ASSUME UNCHANGED attempts PROVE Grown
  BY <1>1, <1>2
<1>3. CASE UNCHANGED row
  BY <1>2, <1>3 DEF OneWinner, row
<1>4. ASSUME NEW w \in Worker, Claim(w) PROVE OneWinner
  BY <1>1, <1>4, TransitionFacts, AppendedFacts DEF Claim, AttemptStatus, Status, OneWinner, TypeInv
<1>5. ASSUME NEW w \in Worker, Complete(w) PROVE OneWinner
  <2>1. PICK s \in {"succeeded", "failed"} : Transition("running", s) /\ CompleteAttempt(mine[w], s)
    BY <1>5 DEF Complete
  <2>2. job.status = "running" /\ attempts[mine[w]] = "running"
    BY <2>1 DEF Transition, CompleteAttempt, Running
  <2> QED
    BY <1>1, <2>1, <2>2, CompletedFacts DEF AttemptStatus, OneWinner
<1>6. ASSUME NEW w \in Worker, Finalize(w) PROVE OneWinner
  <2>1. verdict[w] \in Verdict
    BY DEF TypeInv, TypeOK
  <2>2. PICK s \in AttemptStatus : Settle(s)
    BY <1>6, <2>1 DEF Finalize, AttemptStatusOf, Verdict, AttemptStatus
  <2>3. job.status = "running"
    BY <1>6 DEF Finalize, Transition
  <2> QED
    BY <1>1, <2>2, <2>3, SettledFacts DEF OneWinner
<1>7. CASE (\E w \in Worker : Retry(w)) \/ Cancel
  BY <1>2, <1>7 DEF Retry, Cancel, Transition, OneWinner
<1> QED
  BY <1>3, <1>4, <1>5, <1>6, <1>7, RowSteps

-----------------------------------------------------------------------------
(* The files of the attempt that runs *)

\* As long as an attempt runs, what its worker created is its own, and what it wrote whole.
FileInv ==
  \A w \in Worker : mine[w] \in Running =>
    /\ pc[w] \in {"artifactBody", "summary", "summaryBody", "succeed"} =>
         file["artifact"].by = mine[w]
    /\ pc[w] \in {"summary", "summaryBody", "succeed"} => file["artifact"].whole
    /\ pc[w] \in {"summaryBody", "succeed"} => file["summary"].by = mine[w]
    /\ pc[w] = "succeed" => file["summary"].whole

\* An attempt that ended does not run again.
LEMMA RunningShrinks ==
  ASSUME TypeInv, [Next]_vars
  PROVE  \A n \in 1..Len(attempts) : n \in Running' => n \in Running
<1>1. OneWinner
  BY OneWinnerSteps
<1> QED
  BY <1>1 DEF OneWinner, Running

LEMMA FileInductive ==
  ASSUME TypeInv, TypeInv', StatusMatchesAttempts, FileInv, [Next]_vars
  PROVE  FileInv'
<1> SUFFICES ASSUME NEW w \in Worker, mine'[w] \in Running'
             PROVE  /\ pc'[w] \in {"artifactBody", "summary", "summaryBody", "succeed"} =>
                         file'["artifact"].by = mine'[w]
                    /\ pc'[w] \in {"summary", "summaryBody", "succeed"} => file'["artifact"].whole
                    /\ pc'[w] \in {"summaryBody", "succeed"} => file'["summary"].by = mine'[w]
                    /\ pc'[w] = "succeed" => file'["summary"].whole
  BY DEF FileInv
<1>1. /\ file \in [File -> [by : 0..Len(attempts), whole : BOOLEAN]]
      /\ pc \in [Worker -> Label] /\ mine \in [Worker -> Nat]
      /\ Len(attempts) \in Nat
  BY AttemptFacts DEF TypeInv, TypeOK
<1>2. ASSUME pc[w] \in Executing, mine'[w] = mine[w]
      PROVE  mine[w] \in Running /\ mine[w] # 0
  <2>1. mine[w] \in 1..Len(attempts)
    BY <1>2 DEF TypeInv
  <2> QED
    BY <1>1, <1>2, <2>1, RunningShrinks
<1>3. CASE Stays(w)
  <2>1. CASE pc[w] \in {"artifactBody", "summary", "summaryBody", "succeed"}
    <3>1. mine[w] \in Running /\ mine[w] # 0
      BY <1>2, <1>3, <2>1 DEF Stays, Executing
    <3>2. ~RemoveOutputs
      <4>1. job.status # "failed"
        <5>1. mine[w] \in 1..Len(attempts) /\ attempts[mine[w]] = "running"
          BY <3>1 DEF Running
        <5>2. \A n \in 1..Len(attempts) - 1 : attempts[n] \in {"failed", "interrupted"}
          BY DEF StatusMatchesAttempts
        <5>3. mine[w] = Len(attempts)
          BY <1>1, <5>1, <5>2
        <5>4. attempts # <<>> /\ attempts[Len(attempts)] # "failed"
          BY <1>1, <5>1, <5>3
        <5> QED
          BY <5>4 DEF StatusMatchesAttempts
      <4> QED
        BY <4>1 DEF RemoveOutputs
    <3>3. /\ file["artifact"].by = mine[w]
          /\ pc[w] \in {"summary", "summaryBody", "succeed"} => file["artifact"].whole
          /\ pc[w] \in {"summaryBody", "succeed"} => file["summary"].by = mine[w]
          /\ pc[w] = "succeed" => file["summary"].whole
      BY <2>1, <3>1 DEF FileInv
    <3>4. \A f \in File : file[f].by = mine[w] =>
            file'[f].by = mine[w] /\ (file[f].whole => file'[f].whole)
      BY <3>1, <3>2, FileSteps DEF Exists
    <3> QED
      BY <1>3, <3>3, <3>4 DEF Stays, File
  <2>2. CASE pc[w] \notin {"artifactBody", "summary", "summaryBody", "succeed"}
    BY <1>3, <2>2 DEF Stays
  <2> QED
    BY <2>1, <2>2
<1>4. ASSUME NEW f \in File, Create(w, f)
      PROVE  /\ mine'[w] = mine[w] /\ pc[w] = f
             /\ \/ pc'[w] = "fail"
                \/ /\ pc'[w] = IF f = "artifact" THEN "artifactBody" ELSE "summaryBody"
                   /\ file'[f].by = mine[w]
                   /\ \A g \in File : g # f => file'[g] = file[g]
  BY <1>1, <1>4 DEF Create, Goto, locals
<1>5. ASSUME NEW f \in File, Create(w, f)
      PROVE  /\ pc'[w] \in {"artifactBody", "summary", "summaryBody", "succeed"} =>
                  file'["artifact"].by = mine'[w]
             /\ pc'[w] \in {"summary", "summaryBody", "succeed"} => file'["artifact"].whole
             /\ pc'[w] \in {"summaryBody", "succeed"} => file'["summary"].by = mine'[w]
             /\ pc'[w] = "succeed" => file'["summary"].whole
  <2>1. CASE f = "artifact"
    BY <1>4, <1>5, <2>1
  <2>2. CASE f = "summary"
    <3>1. pc[w] = "summary" /\ mine[w] \in Running
      BY <1>2, <1>4, <1>5, <2>2 DEF Executing
    <3>2. file["artifact"].by = mine[w] /\ file["artifact"].whole
      BY <3>1 DEF FileInv
    <3> QED
      BY <1>4, <1>5, <2>2, <3>2 DEF File
  <2> QED
    BY <2>1, <2>2 DEF File
<1>6. ASSUME NEW f \in File, Write(w, f)
      PROVE  /\ mine'[w] = mine[w]
             /\ pc[w] = IF f = "artifact" THEN "artifactBody" ELSE "summaryBody"
             /\ pc'[w] = IF f = "artifact" THEN "summary" ELSE "succeed"
             /\ file'[f].by = file[f].by /\ (file[f].by = mine[w] => file'[f].whole)
             /\ \A g \in File : g # f => file'[g] = file[g]
  BY <1>1, <1>6 DEF Write, Goto, locals
<1>7. ASSUME NEW f \in File, Write(w, f)
      PROVE  /\ pc'[w] \in {"artifactBody", "summary", "summaryBody", "succeed"} =>
                  file'["artifact"].by = mine'[w]
             /\ pc'[w] \in {"summary", "summaryBody", "succeed"} => file'["artifact"].whole
             /\ pc'[w] \in {"summaryBody", "succeed"} => file'["summary"].by = mine'[w]
             /\ pc'[w] = "succeed" => file'["summary"].whole
  <2>1. mine[w] \in Running
    BY <1>2, <1>6, <1>7 DEF Executing
  <2>2. CASE f = "artifact"
    <3>1. file["artifact"].by = mine[w]
      BY <1>6, <1>7, <2>1, <2>2 DEF FileInv
    <3> QED
      BY <1>6, <1>7, <2>2, <3>1
  <2>3. CASE f = "summary"
    <3>1. /\ file["artifact"].by = mine[w] /\ file["artifact"].whole
          /\ file["summary"].by = mine[w]
      BY <1>6, <1>7, <2>1, <2>3 DEF FileInv
    <3> QED
      BY <1>6, <1>7, <2>3, <3>1 DEF File
  <2> QED
    BY <2>2, <2>3 DEF File
<1>8. CASE Observe(w) \/ StatArtifact(w) \/ StatSummary(w) \/ Read(w)
  <2>1. pc'[w] \in {"idle", "statArtifact", "statSummary", "read", "finalize"}
    BY <1>1, <1>8 DEF Observe, StatArtifact, StatSummary, Read, Leave, Goto
  <2> QED
    BY <2>1
<1>9. CASE pc'[w] \in {"idle", "claim", "verify", "artifact", "fail", "retry"}
  BY <1>9
<1> QED
  BY <1>3, <1>5, <1>7, <1>8, <1>9, WorkerSteps

\* Only the worker that completes its attempt makes its job succeed from its place at "succeed".
LEMMA OwnSuccess ==
  ASSUME TypeInv, FileInv, [Next]_vars
  PROVE  SucceedsWithItsOwn
<1> SUFFICES ASSUME NEW w \in Worker, pc[w] = "succeed", job.status = "running",
                    job'.status = "succeeded", pc'[w] = "idle"
             PROVE  \A f \in File : file[f].by = mine[w] /\ file[f].whole
  BY DEF SucceedsWithItsOwn
<1>1. pc \in [Worker -> Label]
  BY DEF TypeInv, TypeOK
<1>2. ASSUME NEW v \in Worker, Claim(v) \/ Finalize(v) \/ Retry(v) PROVE FALSE
  <2>1. v # w
    BY <1>2 DEF Claim, Finalize, Retry
  <2>2. pc'[w] = pc[w]
    BY <1>1, <1>2, <2>1 DEF Claim, Finalize, Retry, Leave, Goto
  <2> QED
    BY <2>2
<1>3. ASSUME NEW v \in Worker, Complete(v) PROVE v = w
  <2>1. v # w => pc'[w] = pc[w]
    BY <1>1, <1>3 DEF Complete, Leave, Goto
  <2> QED
    BY <2>1
<1>4. job' # job
  OBVIOUS
<1>5. Complete(w)
  BY <1>2, <1>3, <1>4, RowSteps DEF row, Cancel
<1>6. mine[w] \in Running
  BY <1>5 DEF Complete, CompleteAttempt
<1> QED
  BY <1>6 DEF FileInv, File

-----------------------------------------------------------------------------
(* What a recovery saw *)

\* If timestamps do not tie, a row with the timestamp a recovery saw is still the row it
\* saw: the job was running all the while, and the files that were whole still are.
SeenInv ==
  ~service.ties => \A w \in Worker : pc[w] \in Recovering =>
    /\ seen[w] <= job.stamp
    /\ seen[w] = job.stamp => job.status = "running"
    /\ pc[w] = "finalize" /\ verdict[w] = "succeeded" /\ seen[w] = job.stamp =>
         \A f \in File : file[f].whole

\* A row that is written is given a new timestamp, unless timestamps tie.
LEMMA StampSteps ==
  ASSUME TypeInv, [Next]_vars
  PROVE  /\ job.stamp \in Nat /\ job'.stamp \in Nat
         /\ job' = job \/ (job.stamp <= job'.stamp /\ (~service.ties => job.stamp < job'.stamp))
<1>1. job.stamp \in Nat
  BY DEF TypeInv, TypeOK
<1>2. ASSUME NEW expected, NEW target \in Status, Transition(expected, target)
      PROVE  /\ job'.stamp \in Nat /\ job.stamp <= job'.stamp
             /\ ~service.ties => job.stamp < job'.stamp
  BY <1>1, <1>2, TransitionFacts DEF TypeInv
<1>3. ASSUME NEW w \in Worker, Finalize(w)
      PROVE  \E target \in Status : Transition("running", target)
  <2>1. verdict[w] \in Verdict
    BY DEF TypeInv, TypeOK
  <2> QED
    BY <1>3, <2>1 DEF Finalize, Verdict, Status
<1>4. ASSUME NEW w \in Worker, Claim(w) \/ Complete(w) \/ Retry(w)
      PROVE  \E expected \in Status, target \in Status : Transition(expected, target)
  BY <1>4 DEF Claim, Complete, Retry, Status
<1>5. Cancel => \E expected \in Status, target \in Status : Transition(expected, target)
  BY DEF Cancel, Status
<1>6. CASE UNCHANGED row
  BY <1>1, <1>6 DEF row
<1>7. \/ UNCHANGED row
      \/ \E expected \in Status, target \in Status : Transition(expected, target)
  BY <1>3, <1>4, <1>5, RowSteps DEF Status
<1> QED
  BY <1>1, <1>2, <1>6, <1>7

LEMMA SeenInductive ==
  ASSUME TypeInv, TypeInv', SeenInv, [Next]_vars
  PROVE  SeenInv'
<1> SUFFICES ASSUME ~service.ties, NEW w \in Worker, pc'[w] \in Recovering
             PROVE  /\ seen'[w] <= job'.stamp
                    /\ seen'[w] = job'.stamp => job'.status = "running"
                    /\ pc'[w] = "finalize" /\ verdict'[w] = "succeeded" /\ seen'[w] = job'.stamp =>
                         \A f \in File : file'[f].whole
  BY RowSteps DEF SeenInv
<1>1. /\ seen \in [Worker -> Nat] /\ verdict \in [Worker -> Verdict] /\ pc \in [Worker -> Label]
      /\ job.stamp \in Nat /\ job'.stamp \in Nat
  BY StampSteps DEF TypeInv, TypeOK
\* What a worker at a place of the recovery saw, and did not see anew.
<1>2. ASSUME pc[w] \in Recovering, seen'[w] = seen[w]
      PROVE  /\ seen'[w] <= job'.stamp
             /\ seen'[w] = job'.stamp => job'.status = "running" /\ job' = job
  <2>1. /\ seen[w] <= job.stamp
        /\ seen[w] = job.stamp => job.status = "running"
    BY <1>2 DEF SeenInv
  <2> QED
    BY <1>1, <1>2, <2>1, StampSteps
<1>3. CASE Stays(w)
  <2>1. ASSUME pc'[w] = "finalize", verdict'[w] = "succeeded", seen'[w] = job'.stamp,
               NEW f \in File
        PROVE  file'[f].whole
    <3>1. job' = job /\ job.status = "running"
      BY <1>2, <1>3, <2>1 DEF Stays, Recovering
    <3>2. file[f].whole
      BY <1>3, <2>1, <3>1 DEF SeenInv, Stays, Recovering
    <3>3. ~RemoveOutputs
      BY <3>1 DEF RemoveOutputs
    <3> QED
      BY <3>2, <3>3, FileSteps DEF TypeInv
  <2> QED
    BY <1>2, <1>3, <2>1 DEF Stays
<1>4. CASE Observe(w)
  <2>1. seen'[w] = job.stamp /\ pc'[w] = "statArtifact" /\ job' = job /\ job.status = "running"
    BY <1>1, <1>4 DEF Observe, Goto, row
  <2> QED
    BY <1>1, <2>1
<1>5. CASE StatArtifact(w)
  <2>1. pc[w] \in Recovering /\ seen'[w] = seen[w] /\ pc'[w] # "finalize"
    BY <1>1, <1>5 DEF StatArtifact, Goto, Recovering
  <2> QED
    BY <1>2, <2>1
<1>6. CASE StatSummary(w)
  <2>1. pc[w] \in Recovering /\ seen'[w] = seen[w]
    BY <1>6 DEF StatSummary, Recovering
  <2> DEFINE both == verdict[w] = "succeeded" /\ Exists("summary")
             none == verdict[w] = "requeued" /\ ~Exists("summary")
  <2>3. /\ verdict'[w] = IF both \/ none THEN verdict[w] ELSE "failed"
        /\ pc'[w] = IF both THEN "read" ELSE "finalize"
    BY <1>1, <1>6 DEF StatSummary, Goto
  <2>2. pc'[w] = "finalize" => verdict'[w] # "succeeded"
    BY <2>3
  <2> QED
    BY <1>2, <2>1, <2>2
<1>7. CASE Read(w)
  <2>1. ~Leave(w)
    BY <1>1 DEF Leave, Goto, Recovering
  <2>2. /\ pc[w] \in Recovering /\ seen'[w] = seen[w] /\ UNCHANGED file
        /\ verdict'[w] = IF \A f \in File : file[f].whole THEN "succeeded" ELSE "failed"
    BY <1>1, <1>7, <2>1 DEF Read, Recovering
  <2> QED
    BY <1>2, <2>2
<1>8. ASSUME NEW f \in File, Create(w, f) \/ Write(w, f) PROVE FALSE
  <2>1. pc'[w] \in {"fail", "artifactBody", "summaryBody", "summary", "succeed"}
    BY <1>1, <1>8 DEF Create, Write, Goto
  <2> QED
    BY <2>1 DEF Recovering
<1> QED
  BY <1>3, <1>4, <1>5, <1>6, <1>7, <1>8, WorkerSteps DEF Recovering

-----------------------------------------------------------------------------
(* The result *)

\* Whoever makes the job succeed, executor or recovery, has found the files whole.
LEMMA ResultInductive ==
  ASSUME TypeInv, TypeInv', FileInv, SeenInv, ResultIsThere, [Next]_vars
  PROVE  ResultIsThere'
<1>1. service' = service /\ service.product \in BOOLEAN /\ reference \in BOOLEAN
  BY JobAssumption, RowSteps DEF TypeInv, TypeOK
<1>2. ASSUME NEW w \in Worker, Complete(w)
      PROVE  /\ service.product => (reference' <=> job'.status = "succeeded")
             /\ job'.status = "succeeded" => \A f \in File : file'[f].whole
  <2>1. PICK s \in {"succeeded", "failed"} :
          /\ s = IF pc[w] = "succeed" THEN "succeeded" ELSE "failed"
          /\ Transition("running", s) /\ CompleteAttempt(mine[w], s)
          /\ reference' = (reference \/ (service.product /\ s = "succeeded"))
    BY <1>2 DEF Complete
  <2>2. job.status = "running" /\ job'.status = s
    BY <2>1, TransitionFacts DEF TypeInv, Status
  <2>3. service.product => ~reference
    BY <2>2 DEF ResultIsThere
  <2>4. service.product => (reference' <=> job'.status = "succeeded")
    BY <1>1, <2>1, <2>2, <2>3
  <2>5. s = "succeeded" => \A f \in File : file[f].whole
    BY <2>1 DEF FileInv, CompleteAttempt, File
  <2> QED
    BY <1>2, <2>2, <2>4, <2>5 DEF Complete
<1>3. ASSUME NEW w \in Worker, Finalize(w)
      PROVE  /\ service.product => (reference' <=> job'.status = "succeeded")
             /\ ~service.ties /\ job'.status = "succeeded" => \A f \in File : file'[f].whole
  <2> DEFINE target == IF verdict[w] = "requeued" THEN "queued" ELSE verdict[w]
  <2>1. verdict[w] \in Verdict
    BY DEF TypeInv, TypeOK
  <2>2. /\ Transition("running", target) /\ target \in Status
        /\ reference' = (reference \/ (service.product /\ verdict[w] = "succeeded"))
        /\ pc[w] = "finalize" /\ seen[w] = job.stamp /\ UNCHANGED file
    BY <1>3, <2>1 DEF Finalize, StillObserved, Verdict, Status
  <2>3. job.status = "running" /\ job'.status = target
    BY <2>2, TransitionFacts DEF TypeInv
  <2>4. service.product => ~reference
    BY <2>3 DEF ResultIsThere
  <2>5. target = "succeeded" <=> verdict[w] = "succeeded"
    BY <2>1 DEF Verdict
  <2>6. service.product => (reference' <=> job'.status = "succeeded")
    BY <1>1, <2>2, <2>3, <2>4, <2>5
  <2>7. ~service.ties /\ verdict[w] = "succeeded" => \A f \in File : file[f].whole
    BY <2>2 DEF SeenInv, Recovering
  <2> QED
    BY <2>2, <2>3, <2>5, <2>6, <2>7
<1>4. ASSUME NEW w \in Worker, Claim(w) \/ Retry(w)
      PROVE  UNCHANGED reference /\ job.status # "succeeded" /\ job'.status # "succeeded"
  BY <1>4, TransitionFacts DEF Claim, Retry, Status, TypeInv
<1>5. ASSUME Cancel
      PROVE  UNCHANGED reference /\ job.status # "succeeded" /\ job'.status # "succeeded"
  BY <1>5, TransitionFacts DEF Cancel, Status, TypeInv
<1>6. ASSUME UNCHANGED row, ~service.ties, job.status = "succeeded", NEW f \in File
      PROVE  file'[f].whole
  <2>1. file[f].whole /\ ~RemoveOutputs
    BY <1>6 DEF ResultIsThere, RemoveOutputs
  <2> QED
    BY <2>1, FileSteps DEF TypeInv
<1>7. CASE UNCHANGED row
  BY <1>1, <1>6, <1>7 DEF row, ResultIsThere
<1> QED
  BY <1>1, <1>2, <1>3, <1>4, <1>5, <1>7, RowSteps DEF ResultIsThere

\* No zombie writes what a job that succeeded refers to.
LEMMA ResultStaysSteps ==
  ASSUME TypeInv, ResultIsThere, [Next]_vars
  PROVE  ResultStays
<1> SUFFICES ASSUME ~service.ties, job.status = "succeeded" PROVE file' = file
  BY DEF ResultStays
<1>1. /\ file \in [File -> [by : 0..Len(attempts), whole : BOOLEAN]]
      /\ \A f \in File : file[f].whole /\ Exists(f)
  BY DEF TypeInv, TypeOK, ResultIsThere
<1>2. ASSUME NEW w \in Worker, NEW f \in File, Create(w, f) PROVE file' = file
  BY <1>1, <1>2 DEF Create
<1>3. ASSUME NEW w \in Worker, NEW f \in File, Write(w, f) PROVE file' = file
  <2> DEFINE b == file[f].whole \/ file[f].by = mine[w]
  <2>1. b = TRUE /\ file[f].whole = TRUE
    BY <1>1
  <2>2. file' = [file EXCEPT ![f].whole = b]
    BY <1>3 DEF Write
  <2> HIDE DEF b
  <2>3. file' = [file EXCEPT ![f].whole = TRUE]
    BY <2>1, <2>2
  <2>4. [file[f] EXCEPT !.whole = TRUE] = file[f]
    BY <1>1, <2>1
  <2> QED
    BY <1>1, <2>3, <2>4
<1>4. ASSUME NEW w \in Worker,
             \/ Preflight(w) \/ Claim(w) \/ Verify(w) \/ WorkflowFails(w) \/ Complete(w) \/ GiveUp(w)
             \/ Observe(w) \/ StatArtifact(w) \/ StatSummary(w) \/ Read(w) \/ Finalize(w)
             \/ PreflightRetry(w) \/ Retry(w) \/ Crash(w)
      PROVE  file' = file
  BY <1>4 DEF Preflight, Claim, Verify, WorkflowFails, Complete, GiveUp, Observe, StatArtifact,
              StatSummary, Read, Finalize, PreflightRetry, Retry, Crash
<1> QED
  BY <1>2, <1>3, <1>4 DEF Next, Execute, Cancel, RemoveOutputs, vars

-----------------------------------------------------------------------------
(* Theorems *)

Inv == TypeInv /\ StatusMatchesAttempts /\ FileInv /\ SeenInv /\ ResultIsThere

LEMMA Inductive == Spec => []Inv
<1>1. Init => Inv
  <2> SUFFICES ASSUME Init PROVE StatusMatchesAttempts /\ FileInv /\ SeenInv /\ ResultIsThere
    BY TypeInvInitially DEF Inv
  <2>1. StatusMatchesAttempts
    BY DEF Init, StatusMatchesAttempts, Running
  <2>2. FileInv /\ SeenInv
    BY DEF Init, FileInv, SeenInv, Running, Recovering
  <2>3. job.status # "succeeded" /\ reference = FALSE
    BY DEF Init
  <2> QED
    BY <2>1, <2>2, <2>3 DEF ResultIsThere
<1>2. Inv /\ [Next]_vars => Inv'
  <2> SUFFICES ASSUME Inv, [Next]_vars PROVE Inv'
    OBVIOUS
  <2>1. TypeInv'
    BY TypeInvInductive DEF Inv
  <2> QED
    BY <2>1, StatusInductive, FileInductive, SeenInductive, ResultInductive DEF Inv
<1> QED
  BY <1>1, <1>2, PTL DEF Spec

\* The row agrees with its attempts, and a result that is registered is there, whole, for
\* any number of executors, zombies and recoveries.
THEOREM Sound == Spec => []JobIsSound
<1>1. Inv => JobIsSound
  BY DEF Inv, TypeInv, JobIsSound
<1> QED
  BY <1>1, Inductive, PTL

\* What ended stays ended, and success is what the executor that won made itself.
THEOREM Winners == Spec => WinnersStay
<1>1. Inv /\ [Next]_vars => [OneWinner /\ SucceedsWithItsOwn /\ ResultStays]_vars
  BY OneWinnerSteps, OwnSuccess, ResultStaysSteps DEF Inv
<1> QED
  BY <1>1, Inductive, PTL DEF Spec, WinnersStay

-----------------------------------------------------------------------------
(* Submissions (PaperJobSubmission), for every set of requests, keys and runs. *)

Receipts == [command : JobCommand, answer : Submission!Job]

\* Who carries a submission knows what it is.
SubmissionTypes ==
  /\ Submission!TypeOK
  /\ \A w \in Worker : carrying[w] # "idle" => sent[w] \in Submission!Sent

\* What was told is what is mapped to the key.
ToldIsMapped ==
  \A t \in told : keys[t[1]] = [command |-> t[2], answer |-> t[3]]

\* What was refused has lost its run, and no key is mapped to it.
RefusedHasNone ==
  \A r \in refused : Submission!RunTaken(r[2]) /\ (keys[r[1]] # NoReceipt => keys[r[1]].command # r[2])

\* Who reads the key again does so because of a row that is there.
RereadForCause ==
  \A w \in Worker : carrying[w] = "reread" => Submission!RunTaken(sent[w].command) \/ Submission!Mapped(w)

SubmissionInv ==
  SubmissionTypes /\ Submission!OneJob /\ ToldIsMapped /\ RefusedHasNone /\ RereadForCause

\* A conflict is the answer of one for whom the run is taken and no key is mapped.
LEMMA SubmissionInvImplies ==
  ASSUME Submission!SubmissionAssumption, SubmissionInv
  PROVE  Submission!OneJob /\ Submission!RefusalsAreReal /\ Submission!AnswersAgree
<1>1. \A r \in refused, t \in told : r # <<t[1], t[2]>>
  <2> SUFFICES ASSUME NEW r \in refused, NEW t \in told, r = <<t[1], t[2]>> PROVE FALSE
    OBVIOUS
  <2>1. keys[t[1]] = [command |-> t[2], answer |-> t[3]]
    BY DEF SubmissionInv, ToldIsMapped
  <2>2. t[1] \in Key /\ t[2] \in JobCommand /\ t[3] \in Submission!Job
    BY DEF SubmissionInv, SubmissionTypes, Submission!TypeOK
  <2>3. keys[t[1]] # NoReceipt /\ keys[t[1]].command = t[2]
    BY <2>1, <2>2 DEF Submission!SubmissionAssumption, Submission!Job
  <2> QED
    BY <2>3 DEF SubmissionInv, RefusedHasNone
<1>2. ASSUME NEW s \in told, NEW t \in told, s[1] = t[1]
      PROVE  s = t
  <2>1. [command |-> s[2], answer |-> s[3]] = [command |-> t[2], answer |-> t[3]]
    BY <1>2 DEF SubmissionInv, ToldIsMapped
  <2>2. s[2] = t[2] /\ s[3] = t[3]
    BY <2>1
  <2>3. s = <<s[1], s[2], s[3]>> /\ t = <<t[1], t[2], t[3]>>
    BY DEF SubmissionInv, SubmissionTypes, Submission!TypeOK
  <2> QED
    BY <1>2, <2>2, <2>3
<1>3. Submission!AnswersAgree
  BY <1>2 DEF Submission!AnswersAgree, Submission!Commands!Agreement
<1> QED
  BY <1>1, <1>3 DEF SubmissionInv, RefusedHasNone, Submission!RefusalsAreReal

LEMMA SubmissionInit ==
  ASSUME Submission!SubmissionAssumption, Submission!Init
  PROVE  SubmissionInv
<1>1. Submission!OneJob
  BY DEF Submission!Init, Submission!OneJob, Submission!Stored
<1> QED
  BY <1>1
  DEF Submission!Init, SubmissionInv, SubmissionTypes, Submission!TypeOK, ToldIsMapped,
      RefusedHasNone, RereadForCause

\* A worker that only moves on, or ends, keeps what is stored and said.
LEMMA OnlyMovesOn ==
  ASSUME SubmissionInv, UNCHANGED <<jobs, keys, told, refused>>,
         SubmissionTypes', RereadForCause'
  PROVE  SubmissionInv'
<1>1. Submission!OneJob'
  BY DEF SubmissionInv, Submission!OneJob, Submission!Stored
<1>2. ToldIsMapped' /\ RefusedHasNone'
  BY DEF SubmissionInv, ToldIsMapped, RefusedHasNone, Submission!RunTaken, Submission!Stored
<1> QED
  BY <1>1, <1>2 DEF SubmissionInv

LEMMA DoneTypes ==
  ASSUME SubmissionTypes, NEW w \in Worker, Submission!Done(w)
  PROVE  /\ carrying' \in [Worker -> {"idle", "lookup", "insert", "reread"}]
         /\ sent' \in [Worker -> Submission!Sent \union {NoReceipt}]
         /\ \A v \in Worker : carrying'[v] # "idle" =>
              v # w /\ carrying'[v] = carrying[v] /\ sent'[v] = sent[v] /\ sent'[v] \in Submission!Sent
BY DEF SubmissionTypes, Submission!TypeOK, Submission!Done, Submission!Goto

\* What a worker that ends leaves behind of the causes of the others.
LEMMA DoneKeepsCauses ==
  ASSUME SubmissionInv, NEW w \in Worker, Submission!Done(w), UNCHANGED <<jobs, keys>>
  PROVE  RereadForCause'
<1> SUFFICES ASSUME NEW v \in Worker, carrying'[v] = "reread"
             PROVE  (Submission!RunTaken(sent[v].command) \/ Submission!Mapped(v))'
  BY DEF RereadForCause
<1>1. carrying[v] = "reread" /\ sent'[v] = sent[v]
  BY DoneTypes DEF SubmissionInv
<1>2. Submission!RunTaken(sent[v].command) \/ Submission!Mapped(v)
  BY <1>1 DEF SubmissionInv, RereadForCause
<1> QED
  BY <1>1, <1>2 DEF Submission!RunTaken, Submission!Stored, Submission!Mapped, Submission!KeyOf

LEMMA ReplayedKeeps ==
  ASSUME Submission!SubmissionAssumption, SubmissionInv,
         NEW w \in Worker, carrying[w] # "idle", Submission!Replayed(w)
  PROVE  SubmissionInv'
<1>1. sent[w] \in Submission!Sent
  BY DEF SubmissionInv, SubmissionTypes
<1>2. PICK k \in Key : k = sent[w].key /\ keys[k] # NoReceipt
  BY <1>1 DEF Submission!Replayed, Submission!Mapped, Submission!KeyOf, Submission!Sent
<1>3. keys[k] \in Receipts
  BY <1>2 DEF SubmissionInv, SubmissionTypes, Submission!TypeOK, Receipts
<1>4. Submission!Done(w) /\ UNCHANGED <<jobs, keys, refused>>
  BY DEF Submission!Replayed
<1>5. told' = told \/ (/\ keys[k].command = sent[w].command
                      /\ told' = told \union {<<k, sent[w].command, keys[k].answer>>})
  BY <1>2 DEF Submission!Replayed, Submission!KeyOf, Submission!CommandOf
<1>6. SubmissionTypes'
  BY <1>1, <1>2, <1>3, <1>4, <1>5, DoneTypes
  DEF SubmissionInv, SubmissionTypes, Submission!TypeOK, Submission!Sent, Receipts
<1>7. ToldIsMapped'
  <2>1. CASE told' = told
    BY <1>4, <2>1 DEF SubmissionInv, ToldIsMapped
  <2>2. CASE keys[k].command = sent[w].command
             /\ told' = told \union {<<k, sent[w].command, keys[k].answer>>}
    <3>1. keys[k] = [command |-> sent[w].command, answer |-> keys[k].answer]
      BY <1>3, <2>2 DEF Receipts
    <3>2. ASSUME NEW t \in told'
          PROVE  keys[t[1]] = [command |-> t[2], answer |-> t[3]]
      <4>1. CASE t \in told
        BY <4>1 DEF SubmissionInv, ToldIsMapped
      <4>2. CASE t = <<k, sent[w].command, keys[k].answer>>
        <5>1. t[1] = k /\ t[2] = sent[w].command /\ t[3] = keys[k].answer
          BY <4>2
        <5> QED
          BY <3>1, <5>1
      <4> QED
        BY <2>2, <4>1, <4>2
    <3> QED
      BY <1>4, <3>2 DEF ToldIsMapped
  <2> QED
    BY <1>5, <2>1, <2>2
<1>8. Submission!OneJob' /\ RefusedHasNone'
  BY <1>4 DEF SubmissionInv, Submission!OneJob, Submission!Stored, RefusedHasNone, Submission!RunTaken
<1> QED
  BY <1>4, <1>6, <1>7, <1>8, DoneKeepsCauses DEF SubmissionInv

LEMMA MovesKeep ==
  ASSUME Submission!SubmissionAssumption, SubmissionInv, NEW w \in Worker,
         \/ \E s \in Submission!Sent : Submission!Submit(w, s)
         \/ Submission!InsertFails(w) \/ Submission!Crash(w)
         \/ Submission!Lookup(w)
  PROVE  SubmissionInv'
<1>1. CASE Submission!Crash(w)
  <2>1. SubmissionTypes'
    BY <1>1, DoneTypes DEF SubmissionInv, SubmissionTypes, Submission!TypeOK, Submission!Crash
  <2> QED
    BY <1>1, <2>1, DoneKeepsCauses, OnlyMovesOn DEF Submission!Crash
<1>2. CASE Submission!Lookup(w) /\ Submission!Replayed(w)
  BY <1>2, ReplayedKeeps DEF Submission!Lookup
<1>3. ASSUME NEW l \in {"lookup", "insert", "reread"}, Submission!Goto(w, l),
             UNCHANGED <<jobs, keys, told, refused>>,
             \/ sent' = sent /\ sent[w] \in Submission!Sent
             \/ \E s \in Submission!Sent : sent' = [sent EXCEPT ![w] = s],
             l = "reread" => sent' = sent /\ ~Submission!Accepted(w)
      PROVE  SubmissionInv'
  <2>1. SubmissionTypes'
    BY <1>3 DEF SubmissionInv, SubmissionTypes, Submission!TypeOK, Submission!Goto
  <2>2. RereadForCause'
    <3> SUFFICES ASSUME NEW v \in Worker, carrying'[v] = "reread"
                 PROVE  (Submission!RunTaken(sent[v].command) \/ Submission!Mapped(v))'
      BY DEF RereadForCause
    <3>1. sent'[v] = sent[v]
      BY <1>3 DEF SubmissionInv, SubmissionTypes, Submission!TypeOK, Submission!Goto
    <3>2. v # w => carrying[v] = "reread"
      BY <1>3 DEF SubmissionInv, SubmissionTypes, Submission!TypeOK, Submission!Goto
    <3>3. v = w => ~Submission!Accepted(v)
      BY <1>3 DEF SubmissionInv, SubmissionTypes, Submission!TypeOK, Submission!Goto
    <3>4. Submission!RunTaken(sent[v].command) \/ Submission!Mapped(v)
      BY <3>2, <3>3 DEF SubmissionInv, RereadForCause, Submission!Accepted, Submission!CommandOf
    <3> QED
      BY <1>3, <3>1, <3>4
      DEF Submission!RunTaken, Submission!Stored, Submission!Mapped, Submission!KeyOf
  <2> QED
    BY <1>3, <2>1, <2>2, OnlyMovesOn
<1>4. CASE \E s \in Submission!Sent : Submission!Submit(w, s)
  BY <1>3, <1>4 DEF Submission!Submit
<1>5. CASE Submission!InsertFails(w)
  <2>1. sent[w] \in Submission!Sent
    BY <1>5 DEF Submission!InsertFails, SubmissionInv, SubmissionTypes
  <2> QED
    BY <1>3, <1>5, <2>1 DEF Submission!InsertFails
<1>6. CASE Submission!Lookup(w) /\ ~Submission!Replayed(w)
  <2>1. sent[w] \in Submission!Sent
    BY <1>6 DEF Submission!Lookup, SubmissionInv, SubmissionTypes
  <2> QED
    BY <1>3, <1>6, <2>1 DEF Submission!Lookup
<1> QED
  BY <1>1, <1>2, <1>4, <1>5, <1>6

LEMMA RereadKeeps ==
  ASSUME Submission!SubmissionAssumption, SubmissionInv, NEW w \in Worker, Submission!Reread(w)
  PROVE  SubmissionInv'
<1>1. sent[w] \in Submission!Sent /\ carrying[w] = "reread"
  BY DEF Submission!Reread, SubmissionInv, SubmissionTypes
<1>2. CASE Submission!Replayed(w)
  BY <1>1, <1>2, ReplayedKeeps
<1>3. CASE /\ ~Submission!Mapped(w) /\ Submission!Done(w) /\ UNCHANGED <<jobs, keys, told>>
           /\ refused' = IF sent[w].key = NoKey THEN refused
                         ELSE refused \union {<<sent[w].key, sent[w].command>>}
  <2>1. Submission!RunTaken(sent[w].command)
    BY <1>1, <1>3 DEF SubmissionInv, RereadForCause
  <2>2. SubmissionTypes'
    BY <1>1, <1>3, DoneTypes DEF SubmissionInv, SubmissionTypes, Submission!TypeOK, Submission!Sent
  <2>3. \A r \in refused' : Submission!RunTaken(r[2]) /\ (keys[r[1]] # NoReceipt => keys[r[1]].command # r[2])
    BY <1>3, <2>1 DEF SubmissionInv, RefusedHasNone, Submission!Mapped, Submission!KeyOf
  <2>4. RefusedHasNone'
    BY <1>3, <2>3 DEF RefusedHasNone, Submission!RunTaken, Submission!Stored
  <2>5. Submission!OneJob' /\ ToldIsMapped'
    BY <1>3 DEF SubmissionInv, Submission!OneJob, Submission!Stored, ToldIsMapped
  <2> QED
    BY <1>3, <2>2, <2>4, <2>5, DoneKeepsCauses DEF SubmissionInv
<1> QED
  BY <1>2, <1>3 DEF Submission!Reread, Submission!KeyOf, Submission!CommandOf

\* A job that is stored: its run and its key were free, and no refusal was about them.
LEMMA InsertKeeps ==
  ASSUME Submission!SubmissionAssumption, SubmissionInv, NEW w \in Worker, Submission!Insert(w)
  PROVE  SubmissionInv'
<1>1. PICK s \in Submission!Sent : s = sent[w]
  BY DEF Submission!Insert, SubmissionInv, SubmissionTypes, Submission!TypeOK
<1>2. PICK j \in Submission!Job :
        /\ jobs[j] = NoJob /\ jobs' = [jobs EXCEPT ![j] = s.command]
        /\ IF s.key = NoKey THEN UNCHANGED <<keys, told>>
           ELSE /\ keys' = [keys EXCEPT ![s.key] = [command |-> s.command, answer |-> j]]
                /\ told' \in {told, told \union {<<s.key, s.command, j>>}}
  BY <1>1 DEF Submission!Insert, Submission!KeyOf, Submission!CommandOf
<1>3. /\ ~Submission!RunTaken(s.command) /\ (s.key # NoKey => keys[s.key] = NoReceipt)
      /\ Submission!Done(w) /\ refused' = refused
  BY <1>1 DEF Submission!Insert, Submission!Accepted, Submission!Mapped, Submission!KeyOf,
              Submission!CommandOf
<1>4. /\ s.command \in JobCommand /\ s.key \in Key \union {NoKey} /\ s.command # NoJob
      /\ jobs \in [Submission!Job -> JobCommand \union {NoJob}]
      /\ keys \in [Key -> Receipts \union {NoReceipt}]
  BY DEF SubmissionInv, SubmissionTypes, Submission!TypeOK, Submission!Sent, Receipts,
         Submission!SubmissionAssumption
<1>5. /\ Submission!Stored' = Submission!Stored \union {j} /\ j \notin Submission!Stored
      /\ jobs'[j] = s.command /\ \A i \in Submission!Stored : jobs'[i] = jobs[i]
      /\ \A i \in Submission!Stored : RunOf[jobs[i]] # RunOf[s.command]
  BY <1>2, <1>3, <1>4 DEF Submission!Stored, Submission!RunTaken
<1>6. \A c : Submission!RunTaken(c) => Submission!RunTaken(c)'
  BY <1>5 DEF Submission!RunTaken
<1>7. PICK r : r = [command |-> s.command, answer |-> j]
  OBVIOUS
<1>8. \A k \in Key : keys'[k] = keys[k] \/ (k = s.key /\ keys'[k] = r /\ keys[k] = NoReceipt)
  BY <1>2, <1>3, <1>4, <1>7
<1>9. r \in Receipts /\ r.command = s.command /\ r.answer = j /\ r # NoReceipt
  BY <1>2, <1>4, <1>7 DEF Receipts, Submission!SubmissionAssumption, Submission!Job
<1>10. SubmissionTypes'
  <2>1. jobs' \in [Submission!Job -> JobCommand \union {NoJob}]
    BY <1>2, <1>4
  <2>2. keys' \in [Key -> Receipts \union {NoReceipt}]
    BY <1>2, <1>4, <1>7, <1>9
  <2>3. told' \subseteq Key \X JobCommand \X Submission!Job
    BY <1>2, <1>4 DEF SubmissionInv, SubmissionTypes, Submission!TypeOK
  <2> QED
    BY <1>3, <2>1, <2>2, <2>3, DoneTypes
    DEF SubmissionInv, SubmissionTypes, Submission!TypeOK, Receipts
<1>11. Submission!OneJob'
  <2>1. \A i, h \in Submission!Stored' : RunOf[jobs'[i]] = RunOf[jobs'[h]] => i = h
    BY <1>5 DEF SubmissionInv, Submission!OneJob
  <2>2. \A k \in Key : keys[k] # NoReceipt => keys[k].answer \in Submission!Stored
    <3> SUFFICES ASSUME NEW k \in Key, keys[k] # NoReceipt PROVE keys[k].answer \in Submission!Stored
      OBVIOUS
    <3>1. keys[k] \in Receipts /\ jobs[keys[k].answer] = keys[k].command
      BY <1>4 DEF SubmissionInv, Submission!OneJob
    <3> QED
      BY <3>1 DEF Receipts, Submission!Stored, Submission!SubmissionAssumption
  <2>3. \A k, l \in Key :
          keys'[k] # NoReceipt /\ keys'[l] # NoReceipt /\ keys'[k].answer = keys'[l].answer => k = l
    BY <1>5, <1>8, <1>9, <2>2 DEF SubmissionInv, Submission!OneJob
  <2>4. \A k \in Key : keys'[k] # NoReceipt => jobs'[keys'[k].answer] = keys'[k].command
    BY <1>5, <1>8, <1>9, <2>2 DEF SubmissionInv, Submission!OneJob
  <2> QED
    BY <2>1, <2>3, <2>4 DEF Submission!OneJob
<1>12. ToldIsMapped'
  <2> SUFFICES ASSUME NEW t \in told' PROVE keys'[t[1]] = [command |-> t[2], answer |-> t[3]]
    BY DEF ToldIsMapped
  <2>1. CASE t \in told
    <3>1. t[1] \in Key /\ t[2] \in JobCommand /\ t[3] \in Submission!Job
      BY <2>1 DEF SubmissionInv, SubmissionTypes, Submission!TypeOK
    <3>2. keys[t[1]] = [command |-> t[2], answer |-> t[3]] /\ keys[t[1]] # NoReceipt
      BY <2>1, <3>1 DEF SubmissionInv, ToldIsMapped, Submission!SubmissionAssumption, Submission!Job
    <3> QED
      BY <1>8, <3>1, <3>2
  <2>2. CASE t \notin told
    <3>1. t = <<s.key, s.command, j>> /\ s.key # NoKey
      BY <1>2, <2>2
    <3>2. t[1] = s.key /\ t[2] = s.command /\ t[3] = j
      BY <3>1
    <3> QED
      BY <1>2, <1>4, <3>1, <3>2
  <2> QED
    BY <2>1, <2>2
<1>13. RefusedHasNone'
  <2> SUFFICES ASSUME NEW q \in refused
               PROVE  Submission!RunTaken(q[2])' /\ (keys'[q[1]] # NoReceipt => keys'[q[1]].command # q[2])
    BY <1>3 DEF RefusedHasNone
  <2>1. Submission!RunTaken(q[2]) /\ (keys[q[1]] # NoReceipt => keys[q[1]].command # q[2])
    BY DEF SubmissionInv, RefusedHasNone
  <2>2. q[1] \in Key
    BY DEF SubmissionInv, SubmissionTypes, Submission!TypeOK
  <2>3. s.command # q[2]
    BY <1>3, <2>1
  <2> QED
    BY <1>6, <1>8, <1>9, <2>1, <2>2, <2>3
<1>14. RereadForCause'
  <2> SUFFICES ASSUME NEW v \in Worker, carrying'[v] = "reread"
               PROVE  (Submission!RunTaken(sent[v].command) \/ Submission!Mapped(v))'
    BY DEF RereadForCause
  <2>1. PICK q \in Submission!Sent : q = sent[v] /\ q = sent'[v] /\ carrying[v] = "reread"
    BY <1>3, DoneTypes DEF SubmissionInv
  <2>2. Submission!RunTaken(q.command) \/ (q.key # NoKey /\ keys[q.key] # NoReceipt)
    BY <2>1 DEF SubmissionInv, RereadForCause, Submission!Mapped, Submission!KeyOf
  <2>3. q.key # NoKey /\ keys[q.key] # NoReceipt => keys'[q.key] # NoReceipt
    BY <1>8, <1>9 DEF Submission!Sent
  <2>4. Submission!RunTaken(q.command) => Submission!RunTaken(q.command)'
    BY <1>6
  <2> QED
    BY <2>1, <2>2, <2>3, <2>4
    DEF Submission!Mapped, Submission!KeyOf, Submission!RunTaken, Submission!Stored
<1> QED
  BY <1>10, <1>11, <1>12, <1>13, <1>14 DEF SubmissionInv

LEMMA SubmissionStep ==
  ASSUME Submission!SubmissionAssumption, SubmissionInv, [Submission!Next]_(Submission!vars)
  PROVE  SubmissionInv'
<1>1. CASE UNCHANGED Submission!vars
  <2>1. SubmissionTypes' /\ RereadForCause'
    BY <1>1 DEF Submission!vars, SubmissionInv, SubmissionTypes, Submission!TypeOK, RereadForCause,
                Submission!RunTaken, Submission!Stored, Submission!Mapped, Submission!KeyOf
  <2> QED
    BY <1>1, <2>1, OnlyMovesOn DEF Submission!vars
<1>2. CASE Submission!Next
  BY <1>2, MovesKeep, InsertKeeps, RereadKeeps DEF Submission!Next
<1> QED
  BY <1>1, <1>2

\* However requests race under whatever keys, a run is stored once, a key names one job,
\* and only who never stored a job is told that its run is taken.
THEOREM Submissions ==
  ASSUME Submission!SubmissionAssumption
  PROVE  Submission!Spec =>
           [](SubmissionsAreSound /\ Submission!AnswersAgree)
<1>1. Submission!Init => SubmissionInv
  BY SubmissionInit
<1>2. SubmissionInv /\ [Submission!Next]_(Submission!vars) => SubmissionInv'
  BY SubmissionStep
<1>3. SubmissionInv => SubmissionsAreSound /\ Submission!AnswersAgree
  BY SubmissionInvImplies
  DEF SubmissionInv, SubmissionTypes, SubmissionsAreSound, Submission!SubmissionsAreSound
<1> QED
  BY <1>1, <1>2, <1>3, PTL DEF Submission!Spec

LEMMA SubmissionIsCommand ==
  ASSUME Submission!SubmissionAssumption, SubmissionInv, Submission!Next
  PROVE  [Submission!Commands!Next]_(Submission!Commands!vars)
<1>1. PICK w \in Worker :
        \/ \E s \in Submission!Sent : Submission!Submit(w, s)
        \/ Submission!Lookup(w) \/ Submission!Insert(w) \/ Submission!InsertFails(w)
        \/ Submission!Reread(w) \/ Submission!Crash(w)
  BY DEF Submission!Next
<1>2. ASSUME carrying[w] # "idle", Submission!Replayed(w)
      PROVE  [Submission!Commands!Next]_(Submission!Commands!vars)
  <2>1. sent[w] \in Submission!Sent
    BY <1>2 DEF SubmissionInv, SubmissionTypes
  <2>2. PICK k \in Key : k = sent[w].key /\ keys[k] # NoReceipt
    BY <1>2, <2>1 DEF Submission!Replayed, Submission!Mapped, Submission!KeyOf, Submission!Sent
  <2>3. keys' = keys
    BY <1>2 DEF Submission!Replayed
  <2>4. told' = told \/ told' = told \union {<<k, keys[k].command, keys[k].answer>>}
    BY <1>2, <2>2 DEF Submission!Replayed, Submission!KeyOf, Submission!CommandOf
  <2> QED
    BY <2>2, <2>3, <2>4
    DEF Submission!Commands!Next, Submission!Commands!Again, Submission!Commands!vars
<1>3. CASE Submission!Insert(w)
  <2>1. PICK s \in Submission!Sent : s = sent[w]
    BY <1>3 DEF Submission!Insert, SubmissionInv, SubmissionTypes, Submission!TypeOK
  <2>2. PICK j \in Submission!Job :
          IF s.key = NoKey THEN UNCHANGED <<keys, told>>
          ELSE /\ keys' = [keys EXCEPT ![s.key] = [command |-> s.command, answer |-> j]]
               /\ told' \in {told, told \union {<<s.key, s.command, j>>}}
    BY <1>3, <2>1 DEF Submission!Insert, Submission!KeyOf, Submission!CommandOf
  <2>3. CASE s.key = NoKey
    BY <2>2, <2>3 DEF Submission!Commands!vars
  <2>4. CASE s.key # NoKey
    <3>1. s.key \in Key /\ s.command \in JobCommand /\ keys[s.key] = NoReceipt
      BY <1>3, <2>1, <2>4
      DEF Submission!Insert, Submission!Accepted, Submission!Mapped, Submission!KeyOf, Submission!Sent
    <3>2. Submission!Commands!First(s.key, s.command, j)
      BY <2>2, <2>4, <3>1 DEF Submission!Commands!First
    <3> QED
      BY <3>1, <3>2 DEF Submission!Commands!Next
  <2> QED
    BY <2>3, <2>4
<1>4. CASE UNCHANGED <<keys, told>>
  BY <1>4 DEF Submission!Commands!vars
<1> QED
  BY <1>1, <1>2, <1>3, <1>4
  DEF Submission!Submit, Submission!Lookup, Submission!InsertFails, Submission!Reread, Submission!Crash

\* Submitting a job is a command of KeyedCommands, although the key is read before the
\* transaction that stores it, and again when that fails.
THEOREM SubmissionPromise ==
  ASSUME Submission!SubmissionAssumption
  PROVE  Submission!Spec => Submission!Commands!Spec /\ SubmissionsKeepPromise
<1>1. Submission!Init => SubmissionInv /\ Submission!Commands!Init
  BY SubmissionInit DEF Submission!Init, Submission!Commands!Init
<1>2. SubmissionInv /\ [Submission!Next]_(Submission!vars)
        => SubmissionInv' /\ [Submission!Commands!Next]_(Submission!Commands!vars)
  <2>1. UNCHANGED Submission!vars => UNCHANGED Submission!Commands!vars
    BY DEF Submission!vars, Submission!Commands!vars
  <2> QED
    BY <2>1, SubmissionStep, SubmissionIsCommand
<1> QED
  BY <1>1, <1>2, PTL DEF Submission!Spec, Submission!Commands!Spec, SubmissionsKeepPromise

-----------------------------------------------------------------------------
(* Routes (PaperJobRoutes) *)

Background == {"execute", "auditJob", "auditAttempt", "uncertainJob"}

\* The job, its newest attempt and the reference agree after every transaction.
RouteRowGood ==
  /\ status \in Routes!Status /\ audit \in Seq(Routes!Attempt) /\ Len(audit) <= MaxAttempts
  /\ result = (status = "succeeded")
  /\ status \in {"running", "succeeded", "failed"} => Len(audit) > 0
  /\ status \in {"running", "succeeded"} => audit[Len(audit)].status = status
  /\ \A i \in 1..Len(audit) : audit[i].status = "running" => status = "running" /\ i = Len(audit)

\* What a request has read of the job still holds where the job cannot go back on it, and
\* its pieces agree once they are all read.
ViewGood(r) ==
  /\ view[r].job = "succeeded" => status = "succeeded"
  /\ view[r].available => status = "succeeded"
  /\ at[r] \in {"reference", "respond"} \/ answer[r] = "view" =>
       /\ view[r].job = "succeeded" => view[r].latest.status = "succeeded"
       /\ view[r].job \in {"running", "failed"} => view[r].count > 0
  /\ at[r] = "respond" \/ answer[r] = "view" => (view[r].job = "succeeded" => view[r].available)
  /\ at[r] \in {"attempts", "reference", "respond"} /\ view[r].job \in {"running", "failed"} => Len(audit) > 0

\* Where a request is tells what it was told and what it was given to carry out.
PlaceGood(r) ==
  /\ answer[r] = "view" => at[r] \in Background \union {"done"}
  /\ at[r] = "idle" => answer[r] = "none"
  /\ at[r] \in {"idle", "commit"} => claim[r] = 0
  /\ at[r] \in {"resultReference", "files"} => command[r] = "result"
  /\ at[r] \in Background => command[r] = "run"
  /\ command[r] = "run" /\ at[r] \notin {"idle", "commit", "done"} => claim[r] > 0
  /\ claim[r] <= Len(audit)
  /\ at[r] \in {"auditJob", "auditAttempt"} => audit[claim[r]].status = "failed"

\* A link is given for a job that has succeeded for good.
LinkGood(r) ==
  /\ linked[r] => status = "succeeded" /\ answer[r] # "result_unavailable"
  /\ linked[r] /\ at[r] = "resultReference" => view[r].job = "succeeded"
  /\ answer[r] = "result_invalid" => lost

\* An attempt is of one run, and what the log tells of it was told by that run's task.
ClaimsApart ==
  \A r, s \in Request :
    command[r] = "run" /\ command[s] = "run" /\ claim[r] > 0 /\ claim[r] = claim[s] => r = s
EventGood(e) ==
  /\ e.event = "completed" => audit[e.attempt].status = "succeeded"
  /\ e.event = "failed" => audit[e.attempt] = [status |-> "failed", error |-> e.error]
  /\ \E r \in Request : command[r] = "run" /\ claim[r] = e.attempt /\ at[r] = "done"
EventsGood == \A e \in events : EventGood(e)
EventsOnce == \A e, f \in events : e.attempt = f.attempt => e = f

RequestsGood == \A r \in Request : ViewGood(r) /\ PlaceGood(r) /\ LinkGood(r)

RoutesInv ==
  /\ Routes!TypeOK /\ RouteRowGood /\ RequestsGood
  /\ ClaimsApart /\ EventsGood /\ EventsOnce /\ Routes!RunIsCarried

\* The row goes on: success stays, and an attempt that has ended keeps its status and error.
RowGoesOn ==
  /\ status = "succeeded" => status' = "succeeded"
  /\ Len(audit) <= Len(audit')
  /\ \A i \in 1..Len(audit) : audit[i].status # "running" => audit'[i] = audit[i]

Alike(s) ==
  /\ at'[s] = at[s] /\ command'[s] = command[s] /\ claim'[s] = claim[s] /\ view'[s] = view[s]
  /\ answer'[s] = answer[s] /\ linked'[s] = linked[s]

LEMMA AuditFacts ==
  ASSUME RouteRowGood
  PROVE  /\ Len(audit) \in Nat /\ \A i \in 1..Len(audit) : audit[i] \in Routes!Attempt
         /\ Len(audit) > 0 => Len(audit) \in 1..Len(audit)
BY DEF RouteRowGood

LEMMA RowStands ==
  ASSUME RouteRowGood, UNCHANGED <<status, audit, result>>
  PROVE  RouteRowGood' /\ RowGoesOn
<1>1. Len(audit) \in Nat
  BY AuditFacts
<1>2. RouteRowGood'
  BY DEF RouteRowGood
<1> QED
  BY <1>1, <1>2 DEF RowGoesOn

\* What holds of a request that does nothing holds although the row goes on.
LEMMA AlikeStaysGood ==
  ASSUME RouteRowGood, RouteRowGood', RowGoesOn, lost => lost',
         NEW s \in Request, claim[s] \in Nat,
         Alike(s), ViewGood(s), PlaceGood(s), LinkGood(s)
  PROVE  ViewGood(s)' /\ PlaceGood(s)' /\ LinkGood(s)'
<1>1. Len(audit) \in Nat /\ Len(audit') \in Nat /\ Len(audit) <= Len(audit')
  BY AuditFacts DEF RouteRowGood, RowGoesOn
<1>2. ViewGood(s)'
  BY <1>1 DEF ViewGood, Alike, RowGoesOn
<1>3. PlaceGood(s)'
  <2>1. ASSUME at[s] \in {"auditJob", "auditAttempt"}
        PROVE  audit'[claim[s]].status = "failed"
    <3>1. claim[s] \in 1..Len(audit) /\ audit[claim[s]].status = "failed"
      BY <1>1, <2>1 DEF PlaceGood, Background
    <3> QED
      BY <3>1 DEF RowGoesOn
  <2> QED
    BY <1>1, <2>1 DEF PlaceGood, Alike
<1>4. LinkGood(s)'
  BY DEF LinkGood, Alike, RowGoesOn
<1> QED
  BY <1>2, <1>3, <1>4

\* What the log tells holds as long as requests that are done stay as they are.
LEMMA EventStaysGood ==
  ASSUME RoutesInv, RowGoesOn, NEW e \in events,
         \A s \in Request : at[s] = "done" =>
           at'[s] = "done" /\ command'[s] = command[s] /\ claim'[s] = claim[s]
  PROVE  EventGood(e)'
<1>1. PICK s \in Request : command[s] = "run" /\ claim[s] = e.attempt /\ at[s] = "done"
  BY DEF RoutesInv, EventsGood, EventGood
<1>2. e.attempt \in Nat /\ e.attempt > 0
  BY DEF RoutesInv, Routes!TypeOK, Routes!Event
<1>3. e.attempt \in 1..Len(audit)
  BY <1>1, <1>2, AuditFacts DEF RoutesInv, RequestsGood, PlaceGood
<1>4. /\ e.event = "completed" => audit[e.attempt].status = "succeeded"
      /\ e.event = "failed" => audit[e.attempt] = [status |-> "failed", error |-> e.error]
  BY DEF RoutesInv, EventsGood, EventGood
<1>5. audit[e.attempt].status # "running" => audit'[e.attempt] = audit[e.attempt]
  BY <1>3 DEF RowGoesOn
<1> QED
  BY <1>1, <1>4, <1>5 DEF EventGood

LEMMA EventsStayGood ==
  ASSUME RoutesInv, RowGoesOn, events' = events,
         \A s \in Request : at[s] = "done" =>
           at'[s] = "done" /\ command'[s] = command[s] /\ claim'[s] = claim[s]
  PROVE  EventsGood' /\ EventsOnce'
<1>1. EventsOnce'
  BY DEF RoutesInv, EventsOnce
<1>2. \A e \in events : EventGood(e)'
  BY EventStaysGood
<1> QED
  BY <1>1, <1>2 DEF EventsGood

Carrying == {"job", "attempts", "reference", "respond", "execute"}

LEMMA StaysCarried ==
  ASSUME RoutesInv, UNCHANGED <<status, audit, missed>>, NEW r \in Request,
         \A s \in Request : s # r => Alike(s),
         status = "running" /\ command[r] = "run" /\ claim[r] = Len(audit) /\ at[r] \in Carrying =>
           command'[r] = "run" /\ claim'[r] = claim[r] /\ at'[r] \in Carrying
  PROVE  Routes!RunIsCarried'
BY DEF RoutesInv, Routes!RunIsCarried, Alike, Carrying

\* A request that reads, or is answered.
LEMMA QuietKeeps ==
  ASSUME RoutesInv, NEW r \in Request,
         UNCHANGED <<status, audit, result, lost, claim, events>>,
         \A s \in Request : s # r => Alike(s),
         at[r] # "done", command'[r] = command[r] \/ at[r] = "idle",
         Routes!TypeOK', ViewGood(r)', PlaceGood(r)', LinkGood(r)', Routes!RunIsCarried'
  PROVE  RoutesInv'
<1>1. RouteRowGood' /\ RowGoesOn
  BY RowStands DEF RoutesInv
<1>2. \A s \in Request : claim[s] \in Nat
  BY DEF RoutesInv, Routes!TypeOK
<1>3. RequestsGood'
  BY <1>1, <1>2, AlikeStaysGood DEF RoutesInv, RequestsGood
<1>4. EventsGood' /\ EventsOnce'
  BY <1>1, EventsStayGood DEF Alike
<1>5. ClaimsApart'
  BY <1>2 DEF RoutesInv, ClaimsApart, Alike, RequestsGood, PlaceGood
<1> QED
  BY <1>1, <1>3, <1>4, <1>5 DEF RoutesInv

LEMMA RoutesBegin ==
  ASSUME Routes!RoutesAssumption, Routes!Init
  PROVE  RoutesInv
<1>1. /\ status = "queued" /\ audit = <<>> /\ result = FALSE /\ events = {} /\ lost = FALSE /\ missed = 0
      /\ MaxAttempts \in Nat /\ Len(audit) = 0
  BY DEF Routes!Init, Routes!RoutesAssumption
<1>2. \A r \in Request :
        /\ at[r] = "idle" /\ command[r] = "detail" /\ claim[r] = 0 /\ view[r] = Routes!Unread
        /\ answer[r] = "none" /\ linked[r] = FALSE
  BY DEF Routes!Init
<1>3. Routes!Unread \in Routes!View
  BY <1>1 DEF Routes!Unread, Routes!View, Routes!Status, Routes!NoAttempt
<1>4. Routes!TypeOK
  <2>1. view \in [Request -> Routes!View]
    BY <1>3 DEF Routes!Init
  <2>2. linked \in [Request -> BOOLEAN]
    BY DEF Routes!Init
  <2>3. /\ at \in [Request -> Routes!Label] /\ command \in [Request -> Routes!Command]
        /\ answer \in [Request -> Routes!Answer]
        /\ audited \in [Request -> Routes!Status \union {"unread"}]
    BY DEF Routes!Init, Routes!Label, Routes!Command, Routes!Answer
  <2>4. claim \in [Request -> 0..MaxAttempts]
    BY <1>1 DEF Routes!Init
  <2>5. result \in BOOLEAN /\ lost \in BOOLEAN
    BY <1>1
  <2>6. /\ audit \in Seq(Routes!Attempt) /\ status \in Routes!Status
        /\ events \subseteq Routes!Event /\ missed \in Nat
    BY <1>1 DEF Routes!Status
  <2> QED
    BY <2>1, <2>2, <2>3, <2>4, <2>5, <2>6 DEF Routes!TypeOK
<1>5. RouteRowGood
  BY <1>1, <1>4 DEF RouteRowGood, Routes!TypeOK
<1>6. Routes!Unread.job = "unread" /\ Routes!Unread.available = FALSE
  BY DEF Routes!Unread
<1>7. RequestsGood
  BY <1>1, <1>2, <1>6 DEF RequestsGood, ViewGood, PlaceGood, LinkGood, Background
<1>8. ClaimsApart /\ EventsGood /\ EventsOnce /\ Routes!RunIsCarried
  BY <1>1, <1>2 DEF ClaimsApart, EventsGood, EventsOnce, Routes!RunIsCarried
<1> QED
  BY <1>4, <1>5, <1>7, <1>8 DEF RoutesInv

LEMMA SendKeeps ==
  ASSUME RoutesInv, NEW r \in Request, NEW c \in Routes!Command, Routes!Send(r, c)
  PROVE  RoutesInv'
<1>1. /\ at[r] = "idle" /\ command' = [command EXCEPT ![r] = c]
      /\ linked' = [linked EXCEPT ![r] = Routes!LinkGiven]
      /\ at' = [at EXCEPT ![r] = IF c \in {"detail", "result"} THEN "job" ELSE "commit"]
      /\ UNCHANGED <<status, audit, result, lost, claim, audited, view, answer, events, missed>>
  BY DEF Routes!Send, Routes!Goto, Routes!row
<1>2. Routes!TypeOK /\ ViewGood(r) /\ PlaceGood(r) /\ LinkGood(r)
  BY DEF RoutesInv, RequestsGood
<1>3. Routes!LinkGiven \in BOOLEAN
  BY DEF Routes!LinkGiven
<1>4. linked' \in [Request -> BOOLEAN]
  BY <1>1, <1>2, <1>3 DEF Routes!TypeOK
<1>5. Routes!TypeOK'
  BY <1>1, <1>2, <1>4 DEF Routes!TypeOK, Routes!Label
<1>6. \A s \in Request : s # r => Alike(s)
  BY <1>1, <1>2 DEF Alike, Routes!TypeOK
<1>7. at'[r] \in {"job", "commit"} /\ command'[r] = c /\ (c = "run" => at'[r] = "commit")
  BY <1>1, <1>2 DEF Routes!TypeOK
<1>8. linked'[r] => status = "succeeded"
  <2>1. linked'[r] = Routes!LinkGiven
    BY <1>1, <1>2 DEF Routes!TypeOK
  <2>2. Routes!LinkGiven => status = "succeeded"
    BY DEF RoutesInv, RequestsGood, ViewGood, Routes!LinkGiven
  <2> QED
    BY <2>1, <2>2
<1>9. ViewGood(r)'
  BY <1>1, <1>2, <1>7 DEF ViewGood, PlaceGood
<1>10. PlaceGood(r)'
  BY <1>1, <1>2, <1>7 DEF PlaceGood, Background
<1>11. LinkGood(r)'
  BY <1>1, <1>2, <1>7, <1>8 DEF LinkGood, PlaceGood
<1>12. Routes!RunIsCarried'
  BY <1>1, <1>6, StaysCarried DEF Carrying
<1> QED
  BY <1>1, <1>5, <1>6, <1>9, <1>10, <1>11, <1>12, QuietKeeps

\* What a request that goes to another place keeps.
LEMMA GotoFacts ==
  ASSUME Routes!TypeOK, NEW r \in Request, NEW l \in Routes!Label, Routes!Goto(r, l)
  PROVE  /\ at' \in [Request -> Routes!Label] /\ at'[r] = l
         /\ \A s \in Request : s # r => at'[s] = at[s]
BY DEF Routes!TypeOK, Routes!Goto

LEMMA RespondFacts ==
  ASSUME Routes!TypeOK, NEW r \in Request, NEW a \in Routes!Answer, Routes!Respond(r, a)
  PROVE  /\ answer' \in [Request -> Routes!Answer] /\ answer'[r] = a
         /\ \A s \in Request : s # r => answer'[s] = answer[s]
BY DEF Routes!TypeOK, Routes!Respond

LEMMA RefuseKeeps ==
  ASSUME RoutesInv, NEW r \in Request, Routes!Refuse(r)
  PROVE  RoutesInv'
<1>1. /\ at[r] = "commit" /\ Routes!Goto(r, "done") /\ Routes!Respond(r, "conflict")
      /\ UNCHANGED <<status, audit, result, lost, command, claim, audited, view, events, linked, missed>>
  BY DEF Routes!Refuse, Routes!row
<1>2. Routes!TypeOK /\ ViewGood(r) /\ PlaceGood(r) /\ LinkGood(r)
  BY DEF RoutesInv, RequestsGood
<1>3. "done" \in Routes!Label /\ "conflict" \in Routes!Answer
  BY DEF Routes!Label, Routes!Answer
<1>4. /\ at' \in [Request -> Routes!Label] /\ at'[r] = "done"
      /\ answer' \in [Request -> Routes!Answer] /\ answer'[r] = "conflict"
      /\ \A s \in Request : s # r => at'[s] = at[s] /\ answer'[s] = answer[s]
  BY <1>1, <1>2, <1>3, GotoFacts, RespondFacts
<1>5. Routes!TypeOK' /\ \A s \in Request : s # r => Alike(s)
  BY <1>1, <1>2, <1>4 DEF Alike, Routes!TypeOK
<1>6. ViewGood(r)'
  BY <1>1, <1>2, <1>4 DEF ViewGood
<1>7. PlaceGood(r)'
  BY <1>1, <1>2, <1>4 DEF PlaceGood, Background
<1>8. LinkGood(r)'
  BY <1>1, <1>2, <1>4 DEF LinkGood
<1>9. Routes!RunIsCarried'
  BY <1>1, <1>5, StaysCarried DEF Carrying
<1> QED
  BY <1>1, <1>5, <1>6, <1>7, <1>8, <1>9, QuietKeeps

\* What a request reads becomes part of its view, and it goes on to another place.
LEMMA ReadFacts ==
  ASSUME Routes!TypeOK, NEW r \in Request, NEW v \in Routes!View, view' = [view EXCEPT ![r] = v]
  PROVE  /\ view' \in [Request -> Routes!View] /\ view'[r] = v
         /\ \A s \in Request : s # r => view'[s] = view[s]
BY DEF Routes!TypeOK

LEMMA ReadJobKeeps ==
  ASSUME RoutesInv, NEW r \in Request, Routes!ReadJob(r)
  PROVE  RoutesInv'
<1>1. /\ at[r] = "job" /\ view' = [view EXCEPT ![r] = [view[r] EXCEPT !.job = status]]
      /\ Routes!Goto(r, IF command[r] = "result" THEN "resultReference" ELSE "attempts")
      /\ UNCHANGED <<status, audit, result, lost, command, claim, audited, answer, events, linked, missed>>
  BY DEF Routes!ReadJob, Routes!row
<1>2. Routes!TypeOK /\ ViewGood(r) /\ PlaceGood(r) /\ LinkGood(r) /\ RouteRowGood
  BY DEF RoutesInv, RequestsGood
<1>3. PICK v \in Routes!View : v = [view[r] EXCEPT !.job = status]
  BY <1>2 DEF Routes!TypeOK, Routes!View
<1>4. v.job = status /\ v.available = view[r].available /\ v.count = view[r].count /\ v.latest = view[r].latest
  BY <1>2, <1>3 DEF Routes!TypeOK, Routes!View
<1>5. /\ view' \in [Request -> Routes!View] /\ view'[r] = v
      /\ \A s \in Request : s # r => view'[s] = view[s]
  BY <1>1, <1>2, <1>3, ReadFacts
<1>6. PICK l \in {"resultReference", "attempts"} :
        /\ l = IF command[r] = "result" THEN "resultReference" ELSE "attempts"
        /\ at' \in [Request -> Routes!Label] /\ at'[r] = l
        /\ \A s \in Request : s # r => at'[s] = at[s]
  BY <1>1, <1>2, GotoFacts DEF Routes!Label
<1>7. Routes!TypeOK' /\ \A s \in Request : s # r => Alike(s)
  BY <1>1, <1>2, <1>5, <1>6 DEF Alike, Routes!TypeOK
<1>8. ViewGood(r)'
  BY <1>1, <1>2, <1>4, <1>5, <1>6 DEF ViewGood, PlaceGood, Background, RouteRowGood
<1>9. PlaceGood(r)'
  BY <1>1, <1>2, <1>6 DEF PlaceGood, Background
<1>10. LinkGood(r)'
  BY <1>1, <1>2, <1>4, <1>5, <1>6 DEF LinkGood
<1>11. Routes!RunIsCarried'
  BY <1>1, <1>6, <1>7, StaysCarried DEF Carrying
<1> QED
  BY <1>1, <1>7, <1>8, <1>9, <1>10, <1>11, QuietKeeps

LEMMA ReadAttemptsKeeps ==
  ASSUME RoutesInv, NEW r \in Request, Routes!ReadAttempts(r)
  PROVE  RoutesInv'
<1>1. /\ at[r] = "attempts" /\ Routes!Goto(r, "reference")
      /\ view' = [view EXCEPT ![r] = [view[r] EXCEPT !.count = Len(audit), !.latest = Routes!Latest]]
      /\ UNCHANGED <<status, audit, result, lost, command, claim, audited, answer, events, linked, missed>>
  BY DEF Routes!ReadAttempts, Routes!row
<1>2. Routes!TypeOK /\ ViewGood(r) /\ PlaceGood(r) /\ LinkGood(r) /\ RouteRowGood
  BY DEF RoutesInv, RequestsGood
<1>3. Len(audit) \in 0..MaxAttempts /\ Len(audit) \in Nat
  BY <1>2, AuditFacts DEF RouteRowGood
<1>4. PICK n : n = Routes!Latest
  OBVIOUS
<1>5. n \in Routes!Attempt \union {Routes!NoAttempt}
  BY <1>2, <1>4, AuditFacts DEF Routes!Latest, RouteRowGood
<1>6. PICK u \in Routes!View : u = [view[r] EXCEPT !.count = Len(audit)]
  BY <1>2, <1>3 DEF Routes!TypeOK, Routes!View
<1>7. PICK v \in Routes!View : v = [u EXCEPT !.latest = n]
  BY <1>5, <1>6 DEF Routes!View
<1>8. v.job = view[r].job /\ v.available = view[r].available /\ v.count = Len(audit) /\ v.latest = n
  BY <1>2, <1>6, <1>7 DEF Routes!TypeOK, Routes!View
<1>9. v = [view[r] EXCEPT !.count = Len(audit), !.latest = Routes!Latest]
  BY <1>4, <1>6, <1>7
<1>10. /\ view' \in [Request -> Routes!View] /\ view'[r] = v
       /\ \A s \in Request : s # r => view'[s] = view[s]
  BY <1>1, <1>2, <1>9, ReadFacts
<1>11. /\ at' \in [Request -> Routes!Label] /\ at'[r] = "reference"
       /\ \A s \in Request : s # r => at'[s] = at[s]
  BY <1>1, <1>2, GotoFacts DEF Routes!Label
<1>12. Routes!TypeOK' /\ \A s \in Request : s # r => Alike(s)
  BY <1>1, <1>2, <1>10, <1>11 DEF Alike, Routes!TypeOK
<1>13. status = "succeeded" => n.status = "succeeded"
  BY <1>2, <1>3, <1>4 DEF RouteRowGood, Routes!Latest
<1>14. ViewGood(r)'
  BY <1>1, <1>2, <1>3, <1>8, <1>10, <1>11, <1>13 DEF ViewGood, PlaceGood, Background
<1>15. PlaceGood(r)' /\ LinkGood(r)'
  BY <1>1, <1>2, <1>11 DEF PlaceGood, LinkGood, Background
<1>16. Routes!RunIsCarried'
  BY <1>1, <1>11, <1>12, StaysCarried DEF Carrying
<1> QED
  BY <1>1, <1>12, <1>14, <1>15, <1>16, QuietKeeps

\* What the reference tells becomes part of the view.
LEMMA AvailableFacts ==
  ASSUME RoutesInv, NEW r \in Request, view' = [view EXCEPT ![r] = [view[r] EXCEPT !.available = result]]
  PROVE  /\ view' \in [Request -> Routes!View]
         /\ \A s \in Request : s # r => view'[s] = view[s]
         /\ view'[r].job = view[r].job /\ view'[r].count = view[r].count
         /\ view'[r].latest = view[r].latest
         /\ view'[r].available <=> status = "succeeded"
<1>1. Routes!TypeOK /\ result \in BOOLEAN /\ (result <=> status = "succeeded")
  BY DEF RoutesInv, Routes!TypeOK, RouteRowGood
<1>2. PICK b \in BOOLEAN : b = result
  BY <1>1
<1>3. view[r] \in Routes!View
  BY <1>1 DEF Routes!TypeOK
<1>4. PICK v \in Routes!View : v = [view[r] EXCEPT !.available = b]
  BY <1>2, <1>3 DEF Routes!View
<1>5. v.job = view[r].job /\ v.count = view[r].count /\ v.latest = view[r].latest
  BY <1>3, <1>4 DEF Routes!View
<1>6. v.available = b
  BY <1>3, <1>4 DEF Routes!View
<1>7. v = [view[r] EXCEPT !.available = result]
  BY <1>2, <1>4
<1>8. /\ view' \in [Request -> Routes!View] /\ view'[r] = v
      /\ \A s \in Request : s # r => view'[s] = view[s]
  BY <1>1, <1>7, ReadFacts
<1>9. view'[r].available <=> status = "succeeded"
  BY <1>1, <1>2, <1>6, <1>8
<1> QED
  BY <1>5, <1>8, <1>9

LEMMA ReadReferenceKeeps ==
  ASSUME RoutesInv, NEW r \in Request, Routes!ReadReference(r)
  PROVE  RoutesInv'
<1>1. /\ at[r] = "reference" /\ Routes!Goto(r, "respond")
      /\ view' = [view EXCEPT ![r] = [view[r] EXCEPT !.available = result]]
      /\ UNCHANGED <<status, audit, result, lost, command, claim, audited, answer, events, linked, missed>>
  BY DEF Routes!ReadReference, Routes!row
<1>2. Routes!TypeOK /\ ViewGood(r) /\ PlaceGood(r) /\ LinkGood(r)
  BY DEF RoutesInv, RequestsGood
<1>3. /\ view' \in [Request -> Routes!View]
      /\ \A s \in Request : s # r => view'[s] = view[s]
      /\ view'[r].job = view[r].job /\ view'[r].count = view[r].count
      /\ view'[r].latest = view[r].latest
      /\ view'[r].available <=> status = "succeeded"
  BY <1>1, AvailableFacts
<1>4. /\ at' \in [Request -> Routes!Label] /\ at'[r] = "respond"
      /\ \A s \in Request : s # r => at'[s] = at[s]
  BY <1>1, <1>2, GotoFacts DEF Routes!Label
<1>5. Routes!TypeOK' /\ \A s \in Request : s # r => Alike(s)
  BY <1>1, <1>2, <1>3, <1>4 DEF Alike, Routes!TypeOK
<1>6. ViewGood(r)'
  BY <1>1, <1>2, <1>3, <1>4 DEF ViewGood, PlaceGood, Background
<1>7. PlaceGood(r)' /\ LinkGood(r)'
  BY <1>1, <1>2, <1>4 DEF PlaceGood, LinkGood, Background
<1>8. Routes!RunIsCarried'
  BY <1>1, <1>4, <1>5, StaysCarried DEF Carrying
<1> QED
  BY <1>1, <1>5, <1>6, <1>7, <1>8, QuietKeeps

LEMMA FinishKeeps ==
  ASSUME RoutesInv, NEW r \in Request, Routes!Finish(r)
  PROVE  RoutesInv'
<1>1. /\ at[r] = "respond" /\ Routes!Respond(r, "view")
      /\ Routes!Goto(r, IF command[r] = "run" THEN "execute" ELSE "done")
      /\ UNCHANGED <<status, audit, result, lost, command, claim, audited, view, events, linked, missed>>
  BY DEF Routes!Finish, Routes!row
<1>2. Routes!TypeOK /\ ViewGood(r) /\ PlaceGood(r) /\ LinkGood(r)
  BY DEF RoutesInv, RequestsGood
<1>3. PICK l \in {"execute", "done"} :
        /\ l = IF command[r] = "run" THEN "execute" ELSE "done"
        /\ at' \in [Request -> Routes!Label] /\ at'[r] = l
        /\ \A s \in Request : s # r => at'[s] = at[s]
  BY <1>1, <1>2, GotoFacts DEF Routes!Label
<1>4. /\ answer' \in [Request -> Routes!Answer] /\ answer'[r] = "view"
      /\ \A s \in Request : s # r => answer'[s] = answer[s]
  BY <1>1, <1>2, RespondFacts DEF Routes!Answer
<1>5. Routes!TypeOK' /\ \A s \in Request : s # r => Alike(s)
  BY <1>1, <1>2, <1>3, <1>4 DEF Alike, Routes!TypeOK
<1>6. ViewGood(r)'
  BY <1>1, <1>2, <1>3, <1>4 DEF ViewGood
<1>7. PlaceGood(r)' /\ LinkGood(r)'
  BY <1>1, <1>2, <1>3, <1>4 DEF PlaceGood, LinkGood, Background
<1>8. Routes!RunIsCarried'
  BY <1>1, <1>3, <1>5, StaysCarried DEF Carrying
<1> QED
  BY <1>1, <1>5, <1>6, <1>7, <1>8, QuietKeeps

\* A task that is displaced is of an attempt that runs no more.
LEMMA DisplacedKeeps ==
  ASSUME RoutesInv, NEW r \in Request, Routes!Displaced(r)
  PROVE  RoutesInv'
<1>1. /\ at[r] = "execute" /\ ~Routes!StillMine(r) /\ Routes!Goto(r, "uncertainJob")
      /\ UNCHANGED <<status, audit, result, lost, command, claim, audited, view, answer, events, linked, missed>>
  BY DEF Routes!Displaced, Routes!row
<1>2. Routes!TypeOK /\ ViewGood(r) /\ PlaceGood(r) /\ LinkGood(r) /\ RouteRowGood
  BY DEF RoutesInv, RequestsGood
<1>3. /\ at' \in [Request -> Routes!Label] /\ at'[r] = "uncertainJob"
      /\ \A s \in Request : s # r => at'[s] = at[s]
  BY <1>1, <1>2, GotoFacts DEF Routes!Label
<1>4. Routes!TypeOK' /\ \A s \in Request : s # r => Alike(s)
  BY <1>1, <1>2, <1>3 DEF Alike, Routes!TypeOK
<1>5. ViewGood(r)'
  BY <1>1, <1>2, <1>3 DEF ViewGood
<1>6. PlaceGood(r)' /\ LinkGood(r)'
  BY <1>1, <1>2, <1>3 DEF PlaceGood, LinkGood, Background
<1>7. ~(status = "running" /\ claim[r] = Len(audit))
  BY <1>1, <1>2 DEF Routes!StillMine, RouteRowGood
<1>8. Routes!RunIsCarried'
  BY <1>1, <1>4, <1>7, StaysCarried DEF Carrying
<1> QED
  BY <1>1, <1>4, <1>5, <1>6, <1>8, QuietKeeps

LEMMA AuditJobKeeps ==
  ASSUME RoutesInv, NEW r \in Request, Routes!AuditJob(r)
  PROVE  RoutesInv'
<1>1. /\ at[r] = "auditJob" /\ audited' = [audited EXCEPT ![r] = status] /\ Routes!Goto(r, "auditAttempt")
      /\ UNCHANGED <<status, audit, result, lost, command, claim, view, answer, events, linked, missed>>
  BY DEF Routes!AuditJob, Routes!row
<1>2. Routes!TypeOK /\ ViewGood(r) /\ PlaceGood(r) /\ LinkGood(r)
  BY DEF RoutesInv, RequestsGood
<1>3. /\ at' \in [Request -> Routes!Label] /\ at'[r] = "auditAttempt"
      /\ \A s \in Request : s # r => at'[s] = at[s]
  BY <1>1, <1>2, GotoFacts DEF Routes!Label
<1>4. audited' \in [Request -> Routes!Status \union {"unread"}]
  BY <1>1, <1>2 DEF Routes!TypeOK
<1>5. Routes!TypeOK' /\ \A s \in Request : s # r => Alike(s)
  BY <1>1, <1>2, <1>3, <1>4 DEF Alike, Routes!TypeOK
<1>6. ViewGood(r)'
  BY <1>1, <1>2, <1>3 DEF ViewGood
<1>7. PlaceGood(r)' /\ LinkGood(r)'
  BY <1>1, <1>2, <1>3 DEF PlaceGood, LinkGood, Background
<1>8. Routes!RunIsCarried'
  BY <1>1, <1>5, StaysCarried DEF Carrying
<1> QED
  BY <1>1, <1>5, <1>6, <1>7, <1>8, QuietKeeps

\* A request for the result: who was given the link finds the reference.
LEMMA ReadResultKeeps ==
  ASSUME RoutesInv, NEW r \in Request, Routes!ReadResult(r)
  PROVE  RoutesInv'
<1>1. /\ at[r] = "resultReference"
      /\ view' = [view EXCEPT ![r] = [view[r] EXCEPT !.available = result]]
      /\ IF view[r].job = "succeeded" /\ result
         THEN Routes!Goto(r, "files") /\ UNCHANGED answer
         ELSE Routes!Respond(r, "result_unavailable") /\ Routes!Goto(r, "done")
      /\ UNCHANGED <<status, audit, result, lost, command, claim, audited, events, linked, missed>>
  BY DEF Routes!ReadResult, Routes!row
<1>2. Routes!TypeOK /\ ViewGood(r) /\ PlaceGood(r) /\ LinkGood(r) /\ RouteRowGood
  BY DEF RoutesInv, RequestsGood
<1>3. /\ view' \in [Request -> Routes!View]
      /\ \A s \in Request : s # r => view'[s] = view[s]
      /\ view'[r].job = view[r].job
      /\ view'[r].available <=> status = "succeeded"
  BY <1>1, AvailableFacts
<1>4. PICK l \in {"files", "done"}, a \in {answer[r], "result_unavailable"} :
        /\ l = "files" => a = answer[r]
        /\ l = "done" => a = "result_unavailable" /\ ~(view[r].job = "succeeded" /\ result)
        /\ at' \in [Request -> Routes!Label] /\ at'[r] = l
        /\ answer' \in [Request -> Routes!Answer] /\ answer'[r] = a
        /\ \A s \in Request : s # r => at'[s] = at[s] /\ answer'[s] = answer[s]
  <2>1. CASE view[r].job = "succeeded" /\ result
    <3>1. Routes!Goto(r, "files") /\ answer' = answer
      BY <1>1, <2>1
    <3> QED
      BY <1>2, <3>1, GotoFacts DEF Routes!Label, Routes!TypeOK
  <2>2. CASE ~(view[r].job = "succeeded" /\ result)
    <3>1. Routes!Goto(r, "done") /\ Routes!Respond(r, "result_unavailable")
      BY <1>1, <2>2
    <3> QED
      BY <1>2, <2>2, <3>1, GotoFacts, RespondFacts DEF Routes!Label, Routes!Answer
  <2> QED
    BY <2>1, <2>2
<1>5. Routes!TypeOK' /\ \A s \in Request : s # r => Alike(s)
  BY <1>1, <1>2, <1>3, <1>4 DEF Alike, Routes!TypeOK
<1>6. answer[r] # "view"
  BY <1>1, <1>2 DEF PlaceGood, Background
<1>7. ViewGood(r)'
  BY <1>1, <1>2, <1>3, <1>4, <1>6 DEF ViewGood
<1>8. PlaceGood(r)'
  BY <1>1, <1>2, <1>4, <1>6 DEF PlaceGood, Background
<1>9. LinkGood(r)'
  <2>1. linked[r] => l = "files"
    BY <1>1, <1>2, <1>4 DEF LinkGood, RouteRowGood
  <2> QED
    BY <1>1, <1>2, <1>4, <2>1 DEF LinkGood
<1>10. Routes!RunIsCarried'
  BY <1>1, <1>5, StaysCarried DEF Carrying
<1> QED
  BY <1>1, <1>5, <1>7, <1>8, <1>9, <1>10, QuietKeeps

LEMMA ReadFilesKeeps ==
  ASSUME RoutesInv, NEW r \in Request, Routes!ReadFiles(r)
  PROVE  RoutesInv'
<1>1. /\ at[r] = "files" /\ Routes!Respond(r, IF lost THEN "result_invalid" ELSE "result")
      /\ Routes!Goto(r, "done")
      /\ UNCHANGED <<status, audit, result, lost, command, claim, audited, view, events, linked, missed>>
  BY DEF Routes!ReadFiles, Routes!row
<1>2. Routes!TypeOK /\ ViewGood(r) /\ PlaceGood(r) /\ LinkGood(r)
  BY DEF RoutesInv, RequestsGood
<1>3. /\ at' \in [Request -> Routes!Label] /\ at'[r] = "done"
      /\ \A s \in Request : s # r => at'[s] = at[s]
  BY <1>1, <1>2, GotoFacts DEF Routes!Label
<1>4. PICK a \in {"result_invalid", "result"} : Routes!Respond(r, a) /\ (a = "result_invalid" => lost)
  <2>1. CASE lost
    BY <1>1, <2>1
  <2>2. CASE ~lost
    BY <1>1, <2>2
  <2> QED
    BY <2>1, <2>2
<1>5. /\ answer' \in [Request -> Routes!Answer] /\ answer'[r] = a
      /\ \A s \in Request : s # r => answer'[s] = answer[s]
  BY <1>2, <1>4, RespondFacts DEF Routes!Answer
<1>6. Routes!TypeOK' /\ \A s \in Request : s # r => Alike(s)
  BY <1>1, <1>2, <1>3, <1>5 DEF Alike, Routes!TypeOK
<1>7. ViewGood(r)'
  BY <1>1, <1>2, <1>3, <1>5 DEF ViewGood
<1>8. PlaceGood(r)'
  BY <1>1, <1>2, <1>3, <1>5 DEF PlaceGood, Background
<1>9. LinkGood(r)'
  BY <1>1, <1>2, <1>3, <1>4, <1>5 DEF LinkGood
<1>10. Routes!RunIsCarried'
  BY <1>1, <1>6, StaysCarried DEF Carrying
<1> QED
  BY <1>1, <1>6, <1>7, <1>8, <1>9, <1>10, QuietKeeps

\* A fault is counted, and what was promised without one is promised no more.
LEMMA FaultExcuses ==
  ASSUME missed \in Nat, missed' = missed + 1
  PROVE  Routes!RunIsCarried' /\ missed' \in Nat
BY DEF Routes!RunIsCarried

LEMMA UnavailableKeeps ==
  ASSUME RoutesInv, NEW r \in Request, Routes!Unavailable(r)
  PROVE  RoutesInv'
<1>1. /\ at[r] \in {"job", "attempts", "reference", "respond", "resultReference"}
      /\ missed' = missed + 1 /\ Routes!Respond(r, "unavailable") /\ Routes!Goto(r, "done")
      /\ UNCHANGED <<status, audit, result, lost, command, claim, audited, view, events, linked>>
  BY DEF Routes!Unavailable, Routes!row
<1>2. Routes!TypeOK /\ ViewGood(r) /\ PlaceGood(r) /\ LinkGood(r)
  BY DEF RoutesInv, RequestsGood
<1>3. /\ at' \in [Request -> Routes!Label] /\ at'[r] = "done"
      /\ \A s \in Request : s # r => at'[s] = at[s]
  BY <1>1, <1>2, GotoFacts DEF Routes!Label
<1>4. /\ answer' \in [Request -> Routes!Answer] /\ answer'[r] = "unavailable"
      /\ \A s \in Request : s # r => answer'[s] = answer[s]
  BY <1>1, <1>2, RespondFacts DEF Routes!Answer
<1>5. Routes!RunIsCarried' /\ missed' \in Nat
  BY <1>1, <1>2, FaultExcuses DEF Routes!TypeOK
<1>6. Routes!TypeOK' /\ \A s \in Request : s # r => Alike(s)
  BY <1>1, <1>2, <1>3, <1>4, <1>5 DEF Alike, Routes!TypeOK
<1>7. ViewGood(r)'
  BY <1>1, <1>2, <1>3, <1>4 DEF ViewGood
<1>8. PlaceGood(r)' /\ LinkGood(r)'
  BY <1>1, <1>2, <1>3, <1>4 DEF PlaceGood, LinkGood, Background
<1> QED
  BY <1>1, <1>5, <1>6, <1>7, <1>8, QuietKeeps

LEMMA AuditFailsKeeps ==
  ASSUME RoutesInv, NEW r \in Request, Routes!AuditFails(r)
  PROVE  RoutesInv'
<1>1. /\ at[r] \in {"auditJob", "auditAttempt"} /\ missed' = missed + 1
      /\ Routes!Goto(r, "uncertainJob")
      /\ UNCHANGED <<status, audit, result, lost, command, claim, audited, view, answer, events, linked>>
  BY DEF Routes!AuditFails, Routes!row
<1>2. Routes!TypeOK /\ ViewGood(r) /\ PlaceGood(r) /\ LinkGood(r)
  BY DEF RoutesInv, RequestsGood
<1>3. /\ at' \in [Request -> Routes!Label] /\ at'[r] = "uncertainJob"
      /\ \A s \in Request : s # r => at'[s] = at[s]
  BY <1>1, <1>2, GotoFacts DEF Routes!Label
<1>4. Routes!RunIsCarried' /\ missed' \in Nat
  BY <1>1, <1>2, FaultExcuses DEF Routes!TypeOK
<1>5. Routes!TypeOK' /\ \A s \in Request : s # r => Alike(s)
  BY <1>1, <1>2, <1>3, <1>4 DEF Alike, Routes!TypeOK
<1>6. ViewGood(r)'
  BY <1>1, <1>2, <1>3 DEF ViewGood
<1>7. PlaceGood(r)' /\ LinkGood(r)'
  BY <1>1, <1>2, <1>3 DEF PlaceGood, LinkGood, Background
<1> QED
  BY <1>1, <1>4, <1>5, <1>6, <1>7, QuietKeeps

\* A task that tells what became of its attempt tells it once.
LEMMA LogKeeps ==
  ASSUME RoutesInv, RowGoesOn, NEW r \in Request, at[r] \in Background, at'[r] = "done",
         command'[r] = command[r], claim' = claim,
         \A s \in Request : s # r => Alike(s),
         NEW e, e.attempt = claim[r], events' = events \union {e},
         e.event = "completed" => audit'[claim[r]].status = "succeeded",
         e.event = "failed" => audit'[claim[r]] = [status |-> "failed", error |-> e.error]
  PROVE  EventsGood' /\ EventsOnce'
<1>1. command[r] = "run" /\ claim[r] > 0
  BY DEF RoutesInv, RequestsGood, PlaceGood, Background
<1>2. EventGood(e)'
  BY <1>1 DEF EventGood
<1>3. \A f \in events : EventGood(f)'
  BY EventStaysGood DEF Alike, Background
<1>4. ASSUME NEW f \in events PROVE f.attempt # claim[r]
  <2>1. PICK s \in Request : command[s] = "run" /\ claim[s] = f.attempt /\ at[s] = "done"
    BY <1>4 DEF RoutesInv, EventsGood, EventGood
  <2> QED
    BY <1>1, <2>1 DEF RoutesInv, ClaimsApart, Background
<1>5. ASSUME NEW f \in events', NEW g \in events', f.attempt = g.attempt
      PROVE  f = g
  <2>1. f \in events \union {e} /\ g \in events \union {e}
    BY <1>5
  <2>2. CASE f \in events /\ g \in events
    BY <1>5, <2>2 DEF RoutesInv, EventsOnce
  <2> QED
    BY <1>4, <1>5, <2>1, <2>2
<1>6. EventsOnce'
  BY <1>5 DEF EventsOnce
<1> QED
  BY <1>2, <1>3, <1>6 DEF EventsGood

\* What the transactions make of the row.
LEMMA CompletedRow ==
  ASSUME RouteRowGood, NEW n \in 1..Len(audit), audit[n].status = "running",
         NEW a \in Routes!Attempt, a.status # "running",
         audit' = [audit EXCEPT ![n] = a],
         status' \in {"queued", "succeeded", "failed"}, result' = (status' = "succeeded"),
         status' = "succeeded" => a.status = "succeeded"
  PROVE  /\ RouteRowGood' /\ RowGoesOn /\ audit' \in Seq(Routes!Attempt)
         /\ Len(audit') = Len(audit) /\ audit'[n] = a /\ n = Len(audit) /\ status = "running"
<1>1. Len(audit) \in Nat /\ n = Len(audit) /\ status = "running" /\ audit \in Seq(Routes!Attempt)
  BY AuditFacts DEF RouteRowGood
<1>2. /\ audit' \in Seq(Routes!Attempt) /\ Len(audit') = Len(audit) /\ audit'[n] = a
      /\ \A i \in 1..Len(audit) : i # n => audit'[i] = audit[i]
  BY <1>1
<1>3. RowGoesOn
  BY <1>1, <1>2 DEF RowGoesOn
<1>4. \A i \in 1..Len(audit') : audit'[i].status # "running"
  BY <1>1, <1>2 DEF RouteRowGood
<1>5. status' \in Routes!Status
  BY DEF Routes!Status
<1>6. RouteRowGood'
  BY <1>1, <1>2, <1>4, <1>5 DEF RouteRowGood
<1> QED
  BY <1>1, <1>2, <1>3, <1>6

LEMMA ClaimRow ==
  ASSUME Routes!RoutesAssumption, RouteRowGood, NEW r \in Request, Routes!Claim(r)
  PROVE  /\ RouteRowGood' /\ RowGoesOn /\ audit' \in Seq(Routes!Attempt)
         /\ Len(audit') = Len(audit) + 1 /\ Len(audit') <= MaxAttempts /\ status' = "running"
<1>1. /\ Len(audit) \in Nat /\ audit \in Seq(Routes!Attempt) /\ status = "queued"
      /\ Len(audit) < MaxAttempts /\ MaxAttempts \in Nat
  BY AuditFacts DEF RouteRowGood, Routes!Claim, Routes!RoutesAssumption
<1>2. PICK a : a = [status |-> "running", error |-> NoError]
  OBVIOUS
<1>3. a \in Routes!Attempt /\ a.status = "running"
  BY <1>2 DEF Routes!Attempt
<1>4. audit' = Append(audit, a) /\ status' = "running" /\ result' = result
  BY <1>2 DEF Routes!Claim
<1>5. /\ audit' \in Seq(Routes!Attempt) /\ Len(audit') = Len(audit) + 1
      /\ audit'[Len(audit) + 1] = a
      /\ \A i \in 1..Len(audit) : audit'[i] = audit[i]
  BY <1>1, <1>3, <1>4
<1>6. RowGoesOn
  BY <1>1, <1>5 DEF RowGoesOn
<1>7. result = FALSE
  BY <1>1 DEF RouteRowGood
<1>8. \A i \in 1..Len(audit') : audit'[i].status = "running" => i = Len(audit')
  BY <1>1, <1>5 DEF RouteRowGood
<1>9. result' = (status' = "succeeded")
  BY <1>4, <1>7
<1>10. RouteRowGood'
  BY <1>1, <1>3, <1>4, <1>5, <1>8, <1>9 DEF RouteRowGood, Routes!Status
<1> QED
  BY <1>1, <1>4, <1>5, <1>6, <1>10

LEMMA MovedRow ==
  ASSUME RouteRowGood, status \in {"queued", "failed"}, status' \in {"queued", "canceled"},
         UNCHANGED <<audit, result>>
  PROVE  RouteRowGood' /\ RowGoesOn
<1>1. Len(audit) \in Nat /\ result = FALSE
  BY AuditFacts DEF RouteRowGood
<1>2. result' = (status' = "succeeded")
  BY <1>1
<1>3. RowGoesOn
  BY <1>1 DEF RowGoesOn
<1>4. RouteRowGood'
  BY <1>1, <1>2 DEF RouteRowGood, Routes!Status
<1> QED
  BY <1>3, <1>4

LEMMA RecoverRow ==
  ASSUME RouteRowGood, NEW r \in Request, Routes!Recover(r)
  PROVE  /\ RouteRowGood' /\ RowGoesOn /\ Len(audit') = Len(audit) /\ Len(audit) > 0
         /\ status' \in {"queued", "succeeded", "failed"}
<1>1. Len(audit) \in 1..Len(audit) /\ audit[Len(audit)].status = "running" /\ Len(audit) > 0
  BY AuditFacts DEF RouteRowGood, Routes!Recover
<1>2. PICK target \in {"queued", "succeeded", "failed"}, e \in RecoveryError :
        /\ status' = target
        /\ audit' = [audit EXCEPT ![Len(audit)] =
             [status |-> IF target = "queued" THEN "interrupted" ELSE target,
              error  |-> IF target = "succeeded" THEN NoError ELSE e]]
        /\ result' = (target = "succeeded")
  BY DEF Routes!Recover
<1>3. PICK a : a = [status |-> IF target = "queued" THEN "interrupted" ELSE target,
                    error  |-> IF target = "succeeded" THEN NoError ELSE e]
  OBVIOUS
<1>4. a \in Routes!Attempt /\ a.status # "running" /\ (target = "succeeded" => a.status = "succeeded")
  BY <1>3 DEF Routes!Attempt, Routes!Error
<1>5. audit' = [audit EXCEPT ![Len(audit)] = a]
  BY <1>2, <1>3
<1>6. result' = (status' = "succeeded")
  BY <1>2
<1> QED
  BY <1>1, <1>2, <1>4, <1>5, <1>6, CompletedRow

\* A transaction of a request: a run claims a new attempt, and nothing else makes a job run.
LEMMA TransactionKeeps ==
  ASSUME RoutesInv, NEW r \in Request, at[r] = "commit", Routes!Goto(r, "job"),
         RouteRowGood', RowGoesOn,
         UNCHANGED <<lost, command, audited, view, answer, events, linked, missed>>,
         claim' \in [Request -> 0..MaxAttempts], \A s \in Request : s # r => claim'[s] = claim[s],
         claim'[r] <= Len(audit'),
         IF command[r] = "run"
         THEN claim'[r] = Len(audit) + 1 /\ claim'[r] = Len(audit') /\ status' = "running"
         ELSE status' # "running"
  PROVE  RoutesInv'
<1>1. Routes!TypeOK /\ RequestsGood /\ RouteRowGood /\ ViewGood(r) /\ PlaceGood(r) /\ LinkGood(r)
  BY DEF RoutesInv, RequestsGood
<1>2. /\ at' \in [Request -> Routes!Label] /\ at'[r] = "job"
      /\ \A s \in Request : s # r => at'[s] = at[s]
  BY <1>1, GotoFacts DEF Routes!Label
<1>3. \A s \in Request : s # r => Alike(s)
  BY <1>2 DEF Alike
<1>4. \A s \in Request : claim[s] \in Nat /\ claim[s] <= Len(audit)
  BY <1>1 DEF Routes!TypeOK, RequestsGood, PlaceGood
<1>5. Len(audit) \in Nat /\ Len(audit') \in Nat
  BY <1>1, AuditFacts DEF RouteRowGood
<1>6. result' \in BOOLEAN
  BY DEF RouteRowGood
<1>7. Routes!TypeOK'
  BY <1>1, <1>2, <1>6 DEF Routes!TypeOK, RouteRowGood
<1>8. answer[r] # "view"
  BY <1>1 DEF PlaceGood, Background
<1>9. ViewGood(r)'
  BY <1>1, <1>2, <1>8 DEF ViewGood, RowGoesOn
<1>10. PlaceGood(r)'
  BY <1>1, <1>2, <1>5, <1>8 DEF PlaceGood, Background
<1>11. LinkGood(r)'
  BY <1>1, <1>2 DEF LinkGood, RowGoesOn
<1>12. RequestsGood'
  <2>1. ASSUME NEW s \in Request, s # r PROVE ViewGood(s)' /\ PlaceGood(s)' /\ LinkGood(s)'
    BY <1>1, <1>3, <1>4, <2>1, AlikeStaysGood DEF RequestsGood
  <2> QED
    BY <1>9, <1>10, <1>11, <2>1 DEF RequestsGood
<1>13. ClaimsApart'
  <2>1. ASSUME NEW s \in Request, s # r, command[r] = "run" PROVE claim'[s] # claim'[r]
    BY <1>4, <1>5, <2>1
  <2> QED
    BY <2>1 DEF RoutesInv, ClaimsApart
<1>14. EventsGood' /\ EventsOnce'
  BY <1>3, EventsStayGood DEF Alike
<1>15. Routes!RunIsCarried'
  BY <1>2 DEF Routes!RunIsCarried
<1> QED
  BY <1>7, <1>12, <1>13, <1>14, <1>15 DEF RoutesInv

LEMMA CommitKeeps ==
  ASSUME Routes!RoutesAssumption, RoutesInv, NEW r \in Request, Routes!Commit(r)
  PROVE  RoutesInv'
<1>1. /\ at[r] = "commit" /\ Routes!Goto(r, "job")
      /\ UNCHANGED <<lost, command, audited, view, answer, events, linked, missed>>
  BY DEF Routes!Commit
<1>2. /\ RouteRowGood /\ claim \in [Request -> 0..MaxAttempts] /\ claim[r] = 0
      /\ MaxAttempts \in Nat /\ Len(audit) \in Nat
  BY <1>1, AuditFacts
  DEF RoutesInv, RequestsGood, PlaceGood, Routes!TypeOK, Routes!RoutesAssumption
<1>3. CASE command[r] = "run" /\ Routes!Claim(r)
  <2>1. claim' = [claim EXCEPT ![r] = Len(audit) + 1]
    BY <1>3 DEF Routes!Claim
  <2>2. /\ RouteRowGood' /\ RowGoesOn /\ status' = "running"
        /\ Len(audit') = Len(audit) + 1 /\ Len(audit') <= MaxAttempts
    BY <1>2, <1>3, ClaimRow
  <2>3. /\ claim' \in [Request -> 0..MaxAttempts] /\ claim'[r] = Len(audit) + 1
        /\ \A s \in Request : s # r => claim'[s] = claim[s]
    BY <1>2, <2>1, <2>2
  <2> QED
    BY <1>1, <1>2, <1>3, <2>2, <2>3, TransactionKeeps
<1>4. CASE /\ UNCHANGED claim
            /\ \/ command[r] = "cancel" /\ Routes!Cancel
               \/ command[r] = "retry" /\ Routes!Retry
  <2>1. /\ status \in {"queued", "failed"} /\ status' \in {"queued", "canceled"}
        /\ UNCHANGED <<audit, result>> /\ command[r] # "run"
    BY <1>4 DEF Routes!Cancel, Routes!Retry
  <2>2. RouteRowGood' /\ RowGoesOn
    BY <1>2, <2>1, MovedRow
  <2> QED
    BY <1>1, <1>2, <1>4, <2>1, <2>2, TransactionKeeps
<1>5. CASE command[r] = "recover" /\ Routes!Recover(r)
  <2>1. claim' = [claim EXCEPT ![r] = Len(audit)]
    BY <1>5 DEF Routes!Recover
  <2>2. /\ RouteRowGood' /\ RowGoesOn /\ Len(audit') = Len(audit)
        /\ status' \in {"queued", "succeeded", "failed"}
    BY <1>2, <1>5, RecoverRow
  <2>3. /\ claim' \in [Request -> 0..MaxAttempts] /\ claim'[r] = Len(audit)
        /\ \A s \in Request : s # r => claim'[s] = claim[s]
    BY <1>2, <2>1 DEF RouteRowGood
  <2> QED
    BY <1>1, <1>2, <1>5, <2>2, <2>3, TransactionKeeps
<1> QED
  BY <1>3, <1>4, <1>5 DEF Routes!Commit

\* What is known of a task that completes its attempt.
LEMMA TaskFacts ==
  ASSUME RoutesInv, NEW r \in Request, at[r] = "execute", Routes!StillMine(r)
  PROVE  /\ command[r] = "run" /\ claim[r] \in 1..Len(audit) /\ claim[r] > 0
         /\ audit[claim[r]].status = "running"
<1>1. PlaceGood(r) /\ claim[r] \in Nat /\ Len(audit) \in Nat
  BY AuditFacts DEF RoutesInv, RequestsGood, Routes!TypeOK
<1> QED
  BY <1>1 DEF PlaceGood, Background, Routes!StillMine

\* A task that completes its attempt ends, or goes on to the audit.
LEMMA CompletionKeeps ==
  ASSUME RoutesInv, NEW r \in Request, at[r] = "execute", Routes!StillMine(r),
         NEW l \in {"done", "auditJob"}, Routes!Goto(r, l),
         RouteRowGood', RowGoesOn, status' # "running",
         l = "auditJob" => audit'[claim[r]].status = "failed",
         UNCHANGED <<lost, command, claim, audited, view, answer, linked, missed>>,
         events' \subseteq Routes!Event, EventsGood', EventsOnce'
  PROVE  RoutesInv'
<1>1. Routes!TypeOK /\ RequestsGood /\ RouteRowGood /\ ViewGood(r) /\ PlaceGood(r) /\ LinkGood(r)
  BY DEF RoutesInv, RequestsGood
<1>2. /\ at' \in [Request -> Routes!Label] /\ at'[r] = l
      /\ \A s \in Request : s # r => at'[s] = at[s]
  BY <1>1, GotoFacts DEF Routes!Label
<1>3. \A s \in Request : s # r => Alike(s)
  BY <1>2 DEF Alike
<1>4. /\ \A s \in Request : claim[s] \in Nat
      /\ Len(audit) \in Nat /\ Len(audit') \in Nat /\ Len(audit) <= Len(audit')
  BY <1>1, AuditFacts DEF Routes!TypeOK, RouteRowGood, RowGoesOn
<1>5. result' \in BOOLEAN
  BY DEF RouteRowGood
<1>6. Routes!TypeOK'
  BY <1>1, <1>2, <1>5 DEF Routes!TypeOK, RouteRowGood
<1>7. ViewGood(r)'
  BY <1>1, <1>2, <1>4 DEF ViewGood, RowGoesOn
<1>8. PlaceGood(r)'
  BY <1>1, <1>2, <1>4 DEF PlaceGood, Background
<1>9. LinkGood(r)'
  BY <1>1, <1>2 DEF LinkGood, RowGoesOn
<1>10. RequestsGood'
  <2>1. ASSUME NEW s \in Request, s # r PROVE ViewGood(s)' /\ PlaceGood(s)' /\ LinkGood(s)'
    BY <1>1, <1>3, <1>4, <2>1, AlikeStaysGood DEF RequestsGood
  <2> QED
    BY <1>7, <1>8, <1>9, <2>1 DEF RequestsGood
<1>11. ClaimsApart' /\ Routes!RunIsCarried'
  BY DEF RoutesInv, ClaimsApart, Routes!RunIsCarried
<1> QED
  BY <1>6, <1>10, <1>11 DEF RoutesInv

LEMMA SucceedKeeps ==
  ASSUME RoutesInv, NEW r \in Request, Routes!Succeed(r)
  PROVE  RoutesInv'
<1>1. /\ at[r] = "execute" /\ Routes!StillMine(r) /\ Routes!Goto(r, "done")
      /\ status' = "succeeded" /\ result' = TRUE
      /\ audit' = [audit EXCEPT ![claim[r]] = [status |-> "succeeded", error |-> NoError]]
      /\ events' = events \union
           {[attempt |-> claim[r], event |-> "completed", job |-> "succeeded", error |-> NoError]}
      /\ UNCHANGED <<lost, command, claim, audited, view, answer, linked, missed>>
  BY DEF Routes!Succeed, Routes!Log
<1>2. Routes!TypeOK /\ RouteRowGood
  BY DEF RoutesInv
<1>3. /\ command[r] = "run" /\ claim[r] \in 1..Len(audit) /\ audit[claim[r]].status = "running"
  BY <1>1, TaskFacts
<1>4. PICK a : a = [status |-> "succeeded", error |-> NoError]
  OBVIOUS
<1>5. a \in Routes!Attempt /\ a.status = "succeeded"
  BY <1>4 DEF Routes!Attempt
<1>6. result' = (status' = "succeeded")
  BY <1>1
<1>7. RouteRowGood' /\ RowGoesOn /\ audit'[claim[r]] = a
  BY <1>1, <1>2, <1>3, <1>4, <1>5, <1>6, CompletedRow
<1>8. PICK e : e = [attempt |-> claim[r], event |-> "completed", job |-> "succeeded", error |-> NoError]
  OBVIOUS
<1>9. claim[r] \in 1..MaxAttempts
  BY <1>2, <1>3 DEF Routes!TypeOK
<1>10. e \in Routes!Event /\ e.attempt = claim[r] /\ e.event = "completed"
  BY <1>8, <1>9 DEF Routes!Event, Routes!Status
<1>11. /\ at'[r] = "done" /\ \A s \in Request : s # r => Alike(s)
  BY <1>1, <1>2, GotoFacts DEF Alike, Routes!Label
<1>12. EventsGood' /\ EventsOnce'
  BY <1>1, <1>5, <1>7, <1>8, <1>10, <1>11, LogKeeps DEF Background
<1>13. events' \subseteq Routes!Event
  BY <1>1, <1>2, <1>8, <1>10 DEF Routes!TypeOK
<1> QED
  BY <1>1, <1>7, <1>12, <1>13, CompletionKeeps

LEMMA FailKeeps ==
  ASSUME RoutesInv, NEW r \in Request, Routes!Fail(r)
  PROVE  RoutesInv'
<1>1. PICK x \in ExecutionError :
        audit' = [audit EXCEPT ![claim[r]] = [status |-> "failed", error |-> x]]
  BY DEF Routes!Fail
<1>2. /\ at[r] = "execute" /\ Routes!StillMine(r) /\ Routes!Goto(r, "auditJob")
      /\ status' = "failed"
      /\ UNCHANGED <<result, lost, command, claim, audited, view, answer, events, linked, missed>>
  BY DEF Routes!Fail
<1>3. Routes!TypeOK /\ RouteRowGood
  BY DEF RoutesInv
<1>4. claim[r] \in 1..Len(audit) /\ audit[claim[r]].status = "running"
  BY <1>2, TaskFacts
<1>5. PICK a : a = [status |-> "failed", error |-> x]
  OBVIOUS
<1>6. a \in Routes!Attempt /\ a.status = "failed"
  BY <1>5 DEF Routes!Attempt, Routes!Error
<1>7. status = "running"
  BY <1>2 DEF Routes!StillMine
<1>8. result' = (status' = "succeeded")
  BY <1>2, <1>3, <1>7 DEF RouteRowGood
<1>9. RouteRowGood' /\ RowGoesOn /\ audit'[claim[r]] = a
  BY <1>1, <1>2, <1>3, <1>4, <1>5, <1>6, <1>8, CompletedRow
<1>10. /\ at'[r] = "auditJob" /\ \A s \in Request : s # r => at'[s] = at[s]
  BY <1>2, <1>3, GotoFacts DEF Routes!Label
<1>11. EventsGood' /\ EventsOnce'
  BY <1>2, <1>9, <1>10, EventsStayGood
<1>12. events' \subseteq Routes!Event
  BY <1>2, <1>3 DEF Routes!TypeOK
<1> QED
  BY <1>2, <1>6, <1>9, <1>11, <1>12, CompletionKeeps

\* A task that tells what it has read of its attempt, and ends.
LEMMA TellingKeeps ==
  ASSUME RoutesInv, NEW r \in Request, at[r] \in {"auditAttempt", "uncertainJob"}, Routes!Goto(r, "done"),
         UNCHANGED <<status, audit, result, lost, command, claim, audited, view, answer, linked, missed>>,
         NEW e \in Routes!Event, e.attempt = claim[r], events' = events \union {e},
         e.event # "completed",
         e.event = "failed" => audit[claim[r]] = [status |-> "failed", error |-> e.error]
  PROVE  RoutesInv'
<1>1. Routes!TypeOK /\ RequestsGood /\ RouteRowGood /\ ViewGood(r) /\ PlaceGood(r) /\ LinkGood(r)
  BY DEF RoutesInv, RequestsGood
<1>2. /\ at' \in [Request -> Routes!Label] /\ at'[r] = "done"
      /\ \A s \in Request : s # r => at'[s] = at[s]
  BY <1>1, GotoFacts DEF Routes!Label
<1>3. \A s \in Request : s # r => Alike(s)
  BY <1>2 DEF Alike
<1>4. RouteRowGood' /\ RowGoesOn
  BY <1>1, RowStands
<1>5. EventsGood' /\ EventsOnce'
  BY <1>2, <1>3, <1>4, LogKeeps DEF Background
<1>6. Routes!TypeOK'
  BY <1>1, <1>2 DEF Routes!TypeOK
<1>7. ViewGood(r)'
  BY <1>1, <1>2 DEF ViewGood
<1>8. PlaceGood(r)' /\ LinkGood(r)'
  BY <1>1, <1>2 DEF PlaceGood, LinkGood, Background
<1>9. RequestsGood'
  <2>1. ASSUME NEW s \in Request, s # r PROVE ViewGood(s)' /\ PlaceGood(s)' /\ LinkGood(s)'
    BY <1>1, <1>3, <1>4, <2>1, AlikeStaysGood DEF RequestsGood, Routes!TypeOK
  <2> QED
    BY <1>7, <1>8, <2>1 DEF RequestsGood
<1>10. ClaimsApart'
  BY DEF RoutesInv, ClaimsApart
<1>11. Routes!RunIsCarried'
  BY <1>3, StaysCarried DEF Carrying
<1> QED
  BY <1>4, <1>5, <1>6, <1>9, <1>10, <1>11 DEF RoutesInv

LEMMA OfClaim ==
  ASSUME RoutesInv, NEW r \in Request, at[r] \in Background
  PROVE  claim[r] \in 1..MaxAttempts
<1>1. claim[r] \in 0..MaxAttempts
  BY DEF RoutesInv, Routes!TypeOK
<1>2. PlaceGood(r)
  BY DEF RoutesInv, RequestsGood
<1>3. claim[r] > 0
  BY <1>2 DEF PlaceGood, Background
<1> QED
  BY <1>1, <1>3

LEMMA AuditAttemptKeeps ==
  ASSUME RoutesInv, NEW r \in Request, Routes!AuditAttempt(r)
  PROVE  RoutesInv'
<1>1. /\ at[r] = "auditAttempt"
      /\ UNCHANGED <<status, audit, result, lost, command, claim, audited, view, answer, linked, missed>>
  BY DEF Routes!AuditAttempt, Routes!row
<1>2. Routes!TypeOK /\ ViewGood(r) /\ PlaceGood(r) /\ LinkGood(r) /\ RouteRowGood
  BY DEF RoutesInv, RequestsGood
<1>3. CASE audited[r] = "failed" /\ Routes!ErrorOf(r) \in Routes!Error
  <2>1. PICK x \in Routes!Error : x = audit[claim[r]].error
    BY <1>3 DEF Routes!ErrorOf
  <2>2. PICK e : e = [attempt |-> claim[r], event |-> "failed", job |-> "failed", error |-> x]
    OBVIOUS
  <2>3. events' = events \union {e} /\ Routes!Goto(r, "done")
    BY <1>3, <2>1, <2>2 DEF Routes!AuditAttempt, Routes!Log, Routes!ErrorOf
  <2>4. claim[r] \in 1..MaxAttempts
    BY <1>1, OfClaim DEF Background
  <2>5. e \in Routes!Event /\ e.attempt = claim[r] /\ e.event = "failed" /\ e.error = x
    BY <2>2, <2>4 DEF Routes!Event, Routes!Status
  <2>6. claim[r] \in 1..Len(audit) /\ audit[claim[r]].status = "failed"
    BY <1>1, <1>2, <2>4, AuditFacts DEF PlaceGood
  <2>7. audit[claim[r]] \in Routes!Attempt
    BY <1>2, <2>6, AuditFacts
  <2>8. audit[claim[r]] = [status |-> "failed", error |-> e.error]
    BY <2>1, <2>5, <2>6, <2>7 DEF Routes!Attempt
  <2> QED
    BY <1>1, <2>3, <2>5, <2>8, TellingKeeps
<1>4. CASE ~(audited[r] = "failed" /\ Routes!ErrorOf(r) \in Routes!Error)
  <2>1. Routes!Goto(r, "uncertainJob") /\ UNCHANGED events
    BY <1>4 DEF Routes!AuditAttempt
  <2>2. /\ at' \in [Request -> Routes!Label] /\ at'[r] = "uncertainJob"
        /\ \A s \in Request : s # r => at'[s] = at[s]
    BY <1>2, <2>1, GotoFacts DEF Routes!Label
  <2>3. Routes!TypeOK' /\ \A s \in Request : s # r => Alike(s)
    BY <1>1, <1>2, <2>1, <2>2 DEF Alike, Routes!TypeOK
  <2>4. ViewGood(r)'
    BY <1>1, <1>2, <2>2 DEF ViewGood
  <2>5. PlaceGood(r)' /\ LinkGood(r)'
    BY <1>1, <1>2, <2>2 DEF PlaceGood, LinkGood, Background
  <2>6. Routes!RunIsCarried'
    BY <1>1, <2>3, StaysCarried DEF Carrying
  <2> QED
    BY <1>1, <2>1, <2>3, <2>4, <2>5, <2>6, QuietKeeps
<1> QED
  BY <1>3, <1>4

LEMMA TellUncertainKeeps ==
  ASSUME RoutesInv, NEW r \in Request, Routes!TellUncertain(r)
  PROVE  RoutesInv'
<1>1. /\ at[r] = "uncertainJob" /\ Routes!Goto(r, "done")
      /\ UNCHANGED <<status, audit, result, lost, command, claim, audited, view, answer, linked, missed>>
  BY DEF Routes!TellUncertain, Routes!row
<1>2. PICK x \in {status, "unread"} : events' = events \union
        {[attempt |-> claim[r], event |-> "uncertain", job |-> x, error |-> NoError]}
  BY DEF Routes!TellUncertain, Routes!Log
<1>3. PICK e : e = [attempt |-> claim[r], event |-> "uncertain", job |-> x, error |-> NoError]
  OBVIOUS
<1>4. claim[r] \in 1..MaxAttempts /\ x \in Routes!Status \union {"unread"}
  BY <1>1, OfClaim DEF Background, RoutesInv, Routes!TypeOK
<1>5. e \in Routes!Event /\ e.attempt = claim[r] /\ e.event = "uncertain"
  BY <1>3, <1>4 DEF Routes!Event
<1> QED
  BY <1>1, <1>2, <1>3, <1>5, TellingKeeps

\* What everybody that is at work is left with when the process ends.
LEMMA RestartKeeps ==
  ASSUME RoutesInv, Routes!Restart
  PROVE  RoutesInv'
<1>1. /\ missed' = missed + 1
      /\ UNCHANGED <<status, audit, result, lost, command, claim, audited, view, answer, events, linked>>
      /\ at' = [r \in Request |-> IF at[r] = "idle" THEN "idle" ELSE "done"]
  BY DEF Routes!Restart, Routes!row
<1>2. Routes!TypeOK /\ RequestsGood /\ RouteRowGood
  BY DEF RoutesInv
<1>3. Routes!RunIsCarried' /\ missed' \in Nat
  BY <1>1, <1>2, FaultExcuses DEF Routes!TypeOK
<1>4. Routes!TypeOK'
  BY <1>1, <1>2, <1>3 DEF Routes!TypeOK, Routes!Label
<1>5. RouteRowGood' /\ RowGoesOn
  BY <1>1, <1>2, RowStands
<1>6. RequestsGood'
  <2> SUFFICES ASSUME NEW r \in Request PROVE ViewGood(r)' /\ PlaceGood(r)' /\ LinkGood(r)'
    BY DEF RequestsGood
  <2>1. ViewGood(r) /\ PlaceGood(r) /\ LinkGood(r)
    BY <1>2 DEF RequestsGood
  <2>2. at'[r] = "done" \/ (at'[r] = "idle" /\ at[r] = "idle")
    BY <1>1
  <2>3. ViewGood(r)'
    BY <1>1, <2>1, <2>2 DEF ViewGood
  <2>4. PlaceGood(r)' /\ LinkGood(r)'
    BY <1>1, <2>1, <2>2 DEF PlaceGood, LinkGood, Background
  <2> QED
    BY <2>3, <2>4
<1>7. \A s \in Request : at[s] = "done" => at'[s] = "done"
  BY <1>1
<1>8. EventsGood' /\ EventsOnce'
  BY <1>1, <1>5, <1>7, EventsStayGood
<1>9. ClaimsApart'
  BY <1>1 DEF RoutesInv, ClaimsApart
<1> QED
  BY <1>3, <1>4, <1>5, <1>6, <1>8, <1>9 DEF RoutesInv

LEMMA LoseFilesKeeps ==
  ASSUME RoutesInv, Routes!LoseFiles \/ UNCHANGED Routes!vars
  PROVE  RoutesInv'
<1>1. /\ lost' \in BOOLEAN /\ (lost => lost')
      /\ UNCHANGED <<status, audit, result, at, command, claim, audited, view, answer, events, linked, missed>>
  BY DEF Routes!LoseFiles, Routes!vars, Routes!row, RoutesInv, Routes!TypeOK
<1>2. Routes!TypeOK /\ RequestsGood /\ RouteRowGood
  BY DEF RoutesInv
<1>3. Routes!TypeOK'
  BY <1>1, <1>2 DEF Routes!TypeOK
<1>4. RouteRowGood' /\ RowGoesOn
  BY <1>1, <1>2, RowStands
<1>5. \A s \in Request : Alike(s) /\ claim[s] \in Nat
  BY <1>1, <1>2 DEF Alike, Routes!TypeOK
<1>6. RequestsGood'
  BY <1>1, <1>2, <1>4, <1>5, AlikeStaysGood DEF RequestsGood
<1>7. EventsGood' /\ EventsOnce'
  BY <1>1, <1>4, EventsStayGood
<1>8. ClaimsApart' /\ Routes!RunIsCarried'
  BY <1>1 DEF RoutesInv, ClaimsApart, Routes!RunIsCarried
<1> QED
  BY <1>3, <1>4, <1>6, <1>7, <1>8 DEF RoutesInv

LEMMA RoutesStep ==
  ASSUME Routes!RoutesAssumption, RoutesInv, [Routes!Next]_(Routes!vars)
  PROVE  RoutesInv'
<1>1. CASE \E r \in Request :
             \/ \E c \in Routes!Command : Routes!Send(r, c)
             \/ Routes!Commit(r) \/ Routes!Refuse(r)
             \/ Routes!ReadJob(r) \/ Routes!ReadAttempts(r) \/ Routes!ReadReference(r) \/ Routes!Finish(r)
  BY <1>1, SendKeeps, CommitKeeps, RefuseKeeps, ReadJobKeeps, ReadAttemptsKeeps,
     ReadReferenceKeeps, FinishKeeps
<1>2. CASE \E r \in Request :
             \/ Routes!Succeed(r) \/ Routes!Fail(r) \/ Routes!Displaced(r) \/ Routes!AuditJob(r)
             \/ Routes!AuditAttempt(r) \/ Routes!TellUncertain(r)
             \/ Routes!ReadResult(r) \/ Routes!ReadFiles(r)
             \/ Routes!Unavailable(r) \/ Routes!AuditFails(r)
  BY <1>2, SucceedKeeps, FailKeeps, DisplacedKeeps, AuditJobKeeps, AuditAttemptKeeps,
     TellUncertainKeeps, ReadResultKeeps, ReadFilesKeeps, UnavailableKeeps, AuditFailsKeeps
<1>3. CASE Routes!Restart \/ Routes!LoseFiles \/ UNCHANGED Routes!vars
  BY <1>3, RestartKeeps, LoseFilesKeeps
<1> QED
  BY <1>1, <1>2, <1>3 DEF Routes!Next

LEMMA RoutesSay ==
  ASSUME RoutesInv
  PROVE  Routes!RoutesTellTheJob
<1>1. Routes!ViewsHangTogether
  BY DEF RoutesInv, RequestsGood, ViewGood, RouteRowGood, Routes!ViewsHangTogether, Routes!Told
<1>2. Routes!LinksWork
  BY DEF RoutesInv, RequestsGood, LinkGood, Routes!LinksWork
<1>3. Routes!EventsTellTheAttempt
  BY DEF RoutesInv, EventsGood, EventGood, EventsOnce, Routes!EventsTellTheAttempt
<1> QED
  BY <1>1, <1>2, <1>3 DEF RoutesInv, Routes!RoutesTellTheJob

\* However requests, their background tasks and faults interleave: an answer put together
\* from three reads hangs together, a link that was given works, an accepted run is carried
\* out, and the log tells of each attempt once, and what became of it.
THEOREM RoutesTell ==
  ASSUME Routes!RoutesAssumption
  PROVE  Routes!Spec => []RoutesTellTheJob
<1>1. Routes!Init => RoutesInv
  BY RoutesBegin
<1>2. RoutesInv /\ [Routes!Next]_(Routes!vars) => RoutesInv'
  BY RoutesStep
<1>3. RoutesInv => RoutesTellTheJob
  BY RoutesSay DEF RoutesTellTheJob
<1> QED
  BY <1>1, <1>2, <1>3, PTL DEF Routes!Spec
=============================================================================

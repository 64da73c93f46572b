------------------------------ MODULE PaperJob ------------------------------
(***************************************************************************)
(* One durable paper job (M27): requests that run, recover, retry and      *)
(* cancel it.  A request is a sequence of short transactions with file     *)
(* system calls between them: a run is claimed in one transaction, carried *)
(* out in none, and completed in another; a recovery looks at the row,     *)
(* then at the files, then at the row again.  A worker is such a request,  *)
(* and may die anywhere.  Nobody knows whether an executor still lives, so *)
(* a recovery may take its job away while it goes on: it is then a zombie. *)
(*                                                                         *)
(* What is in the output files is a function of the job's request, which   *)
(* never changes: a file is absent, being written, or whole.               *)
(***************************************************************************)
EXTENDS Naturals, Sequences, FiniteSets

CONSTANTS
  Worker,
  Service,      \* by whom the job may be served, see service
  MaxAttempts,  \* bound: attempts
  MaxFaults,    \* bound: workers that die, workflows that fail
  MaxCleans     \* bound: times an operator removes the outputs of a failed job

ASSUME JobAssumption ==
  /\ Service \subseteq [product : BOOLEAN, ties : BOOLEAN]
  /\ MaxAttempts \in Nat /\ MaxFaults \in Nat /\ MaxCleans \in Nat

VARIABLES
  service,    \* product: by the API's functions, or by the operator's own runs;
              \* ties: whether two transactions may carry the same timestamp
  job,        \* status, and updated_timestamp as stamp
  attempts,   \* the status of each attempt, by attempt number
  reference,  \* whether a result reference is registered
  file,       \* the artifact and the summary: the attempt that created it, if it is whole
  pc, mine, seen, verdict,  \* of each worker: where it is, its attempt, the stamp and files it saw
  faults, cleans

row     == <<job, attempts, reference>>
locals  == <<mine, seen, verdict>>
bounds  == <<faults, cleans>>
vars    == <<service, row, file, pc, locals, bounds>>

Status        == {"queued", "running", "succeeded", "failed", "canceled"}
AttemptStatus == {"running", "succeeded", "failed", "interrupted"}
File          == {"artifact", "summary"}
Verdict       == {"requeued", "succeeded", "failed"}
Label == {"idle", "claim", "verify", "artifact", "artifactBody", "summary", "summaryBody",
          "succeed", "fail", "statArtifact", "statSummary", "read", "finalize", "retry"}

\* No file is there.
Absent == [by |-> 0, whole |-> FALSE]

\* Every variable keeps its type.
TypeOK ==
  /\ service \in Service
  /\ job \in [status : Status, stamp : Nat]
  /\ attempts \in Seq(AttemptStatus)
  /\ reference \in BOOLEAN
  /\ file \in [File -> [by : 0..Len(attempts), whole : BOOLEAN]]
  /\ pc \in [Worker -> Label]
  /\ mine \in [Worker -> Nat] /\ seen \in [Worker -> Nat] /\ verdict \in [Worker -> Verdict]
  /\ faults \in Nat /\ cleans \in Nat

\* A job that was running before attempts were recorded has none.
Init ==
  /\ service \in Service
  /\ job \in [status : {"queued", "running"}, stamp : {0}]
  /\ attempts = <<>> /\ reference = FALSE
  /\ file = [f \in File |-> Absent]
  /\ pc = [w \in Worker |-> "idle"]
  /\ mine = [w \in Worker |-> 0] /\ seen = [w \in Worker |-> 0]
  /\ verdict = [w \in Worker |-> "failed"]
  /\ faults = 0 /\ cleans = 0

-----------------------------------------------------------------------------

Exists(f)  == file[f].by # 0
Running    == {n \in 1..Len(attempts) : attempts[n] = "running"}
Clean      == ~Exists("artifact") /\ ~Exists("summary")
Goto(w, l) == pc' = [pc EXCEPT ![w] = l]

\* A request that ended has forgotten what it held and saw.
Leave(w) ==
  /\ Goto(w, "idle")
  /\ mine' = [mine EXCEPT ![w] = 0] /\ seen' = [seen EXCEPT ![w] = 0]
  /\ verdict' = [verdict EXCEPT ![w] = "failed"]

\* Mutant: the status of the row is not looked at.
TransitionAnyway(expected, target) ==
  \E stamp \in {job.stamp, job.stamp + 1} :
    /\ service.ties \/ stamp # job.stamp
    /\ job' = [status |-> target, stamp |-> stamp]

\* transition_status: the row, if it is still in the expected status, carries a
\* timestamp that is not before the one it had.
Transition(expected, target) ==
  /\ job.status = expected
  /\ \E stamp \in {job.stamp, job.stamp + 1} :
       /\ service.ties \/ stamp # job.stamp
       /\ job' = [status |-> target, stamp |-> stamp]

\* Mutant: a transition is kept although its attempt could not be completed.
CompleteAttemptAnyway(n, status) ==
  attempts' = IF n \in Running THEN [attempts EXCEPT ![n] = status] ELSE attempts

\* complete_attempt: an attempt that no longer runs is not completed.
CompleteAttempt(n, status) ==
  /\ n \in Running
  /\ attempts' = [attempts EXCEPT ![n] = status]

-----------------------------------------------------------------------------
(* Run: preflight, claim, execution, completion *)

\* The directory is looked at before the claim; so is the status of an API job,
\* which only refuses sooner what the claim refuses.
Preflight(w) ==
  /\ pc[w] = "idle" /\ Clean
  /\ Goto(w, "claim")
  /\ UNCHANGED <<row, file, locals, bounds>>

Claim(w) ==
  /\ pc[w] = "claim" /\ Len(attempts) < MaxAttempts
  /\ service.product => ~reference
  /\ Transition("queued", "running")
  /\ attempts' = Append(attempts, "running")
  /\ mine' = [mine EXCEPT ![w] = Len(attempts) + 1]
  /\ Goto(w, IF service.product THEN "verify" ELSE "artifact")
  /\ UNCHANGED <<reference, file, seen, verdict, bounds>>

\* An API job looks, in a transaction of its own, whether it still has its claim.
Verify(w) ==
  /\ pc[w] = "verify" /\ job.status = "running" /\ Running = {mine[w]}
  /\ Goto(w, "artifact")
  /\ UNCHANGED <<row, file, locals, bounds>>

\* Files are created exclusively: FileExistsError fails the attempt.
Create(w, f) ==
  /\ pc[w] = f
  /\ IF Exists(f) THEN Goto(w, "fail") /\ UNCHANGED file
     ELSE /\ file' = [file EXCEPT ![f] = [by |-> mine[w], whole |-> FALSE]]
          /\ Goto(w, IF f = "artifact" THEN "artifactBody" ELSE "summaryBody")
  /\ UNCHANGED <<row, locals, bounds>>

\* What is written goes to the file that was created, if it is still there.
Write(w, f) ==
  /\ pc[w] = IF f = "artifact" THEN "artifactBody" ELSE "summaryBody"
  /\ file' = [file EXCEPT ![f].whole = @ \/ file[f].by = mine[w]]
  /\ Goto(w, IF f = "artifact" THEN "summary" ELSE "succeed")
  /\ UNCHANGED <<row, locals, bounds>>

\* The workflow finds its request invalid, or the file system fails it.
WorkflowFails(w) ==
  /\ pc[w] \in {"artifact", "artifactBody", "summary", "summaryBody"} /\ faults < MaxFaults
  /\ faults' = faults + 1
  /\ Goto(w, "fail")
  /\ UNCHANGED <<row, file, locals, cleans>>

\* Job, attempt and reference are completed in one transaction.  It is rolled back,
\* and the request gives up, if the job or the attempt no longer runs.
Complete(w) ==
  /\ pc[w] \in {"succeed", "fail"}
  /\ LET status == IF pc[w] = "succeed" THEN "succeeded" ELSE "failed" IN
     /\ Transition("running", status)
     /\ CompleteAttempt(mine[w], status)
     /\ reference' = (reference \/ (service.product /\ status = "succeeded"))
  /\ Leave(w)
  /\ UNCHANGED <<file, bounds>>

-----------------------------------------------------------------------------
(* Recover: look at the row, at each file, inside the files, at the row again *)

\* Whether the job is stale is the operator's judgement.
Observe(w) ==
  /\ pc[w] = "idle" /\ job.status = "running"
  /\ seen' = [seen EXCEPT ![w] = job.stamp]
  /\ Goto(w, "statArtifact")
  /\ UNCHANGED <<row, file, mine, verdict, bounds>>

\* Until both files are known, the verdict says whether the artifact was there.
StatArtifact(w) ==
  /\ pc[w] = "statArtifact"
  /\ verdict' = [verdict EXCEPT ![w] = IF Exists("artifact") THEN "succeeded" ELSE "requeued"]
  /\ Goto(w, "statSummary")
  /\ UNCHANGED <<row, file, mine, seen, bounds>>

\* No file requeues the job, one file fails it, two are read.
StatSummary(w) ==
  /\ pc[w] = "statSummary"
  /\ LET both == verdict[w] = "succeeded" /\ Exists("summary")
         none == verdict[w] = "requeued" /\ ~Exists("summary")
     IN /\ verdict' = [verdict EXCEPT ![w] = IF both \/ none THEN @ ELSE "failed"]
        /\ Goto(w, IF both THEN "read" ELSE "finalize")
  /\ UNCHANGED <<row, file, mine, seen, bounds>>

\* Files that are not whole fail the job; if one is gone nothing is decided.
Read(w) ==
  /\ pc[w] = "read"
  /\ \/ /\ \A f \in File : Exists(f)
        /\ verdict' = [verdict EXCEPT ![w] = IF \A f \in File : file[f].whole THEN "succeeded" ELSE "failed"]
        /\ Goto(w, "finalize")
        /\ UNCHANGED <<mine, seen>>
     \/ (\E f \in File : ~Exists(f)) /\ Leave(w)
  /\ UNCHANGED <<row, file, bounds>>

\* The observed claim is the one that is settled: its row was not written since.
StillObserved(w) == job.status = "running" /\ job.stamp = seen[w]

\* The attempt that is settled: the one that runs, or, for a job without attempts,
\* one made up for it.
Settle(status) ==
  \/ \E n \in Running : Running = {n} /\ CompleteAttempt(n, status)
  \/ attempts = <<>> /\ attempts' = <<status>>

\* The attempt of a requeued job was interrupted.
AttemptStatusOf(outcome) == IF outcome = "requeued" THEN "interrupted" ELSE outcome

Finalize(w) ==
  /\ pc[w] = "finalize" /\ StillObserved(w)
  /\ service.product => ~reference
  /\ Transition("running", IF verdict[w] = "requeued" THEN "queued" ELSE verdict[w])
  /\ Settle(AttemptStatusOf(verdict[w]))
  /\ reference' = (reference \/ (service.product /\ verdict[w] = "succeeded"))
  /\ Leave(w)
  /\ UNCHANGED <<file, bounds>>

-----------------------------------------------------------------------------
(* Retry and cancel *)

PreflightRetry(w) ==
  /\ pc[w] = "idle" /\ Clean
  /\ Goto(w, "retry")
  /\ UNCHANGED <<row, file, locals, bounds>>

Retry(w) ==
  /\ pc[w] = "retry"
  /\ Transition("failed", "queued")
  /\ service.product => ~reference
  /\ Leave(w)
  /\ UNCHANGED <<attempts, reference, file, bounds>>

Cancel ==
  /\ Transition("queued", "canceled")
  /\ UNCHANGED <<attempts, reference, file, pc, locals, bounds>>

-----------------------------------------------------------------------------

\* A request whose look at the job is in vain gives up; a transaction that finds the
\* job or its attempt settled by another is rolled back.
GiveUp(w) ==
  /\ \/ pc[w] = "claim" /\ (job.status # "queued" \/ (service.product /\ reference))
     \/ pc[w] = "verify" /\ (job.status # "running" \/ Running # {mine[w]})
     \/ pc[w] \in {"succeed", "fail"} /\ (job.status # "running" \/ mine[w] \notin Running)
     \/ pc[w] = "finalize" /\ ~StillObserved(w)
     \/ pc[w] = "retry" /\ (job.status # "failed" \/ (service.product /\ reference))
  /\ Leave(w)
  /\ UNCHANGED <<row, file, bounds>>

\* A worker dies, or an error nobody expects ends its request; so does an error
\* between the claim and the background task that should carry it out.
Crash(w) ==
  /\ pc[w] # "idle" /\ faults < MaxFaults
  /\ faults' = faults + 1
  /\ Leave(w)
  /\ UNCHANGED <<row, file, cleans>>

\* Nothing in the code removes an output: an operator does, of a job that failed.
RemoveOutputs ==
  /\ job.status = "failed" /\ cleans < MaxCleans
  /\ cleans' = cleans + 1
  /\ file' = [f \in File |-> Absent]
  /\ UNCHANGED <<row, pc, locals, faults>>

Execute(w) ==
  /\ \/ Verify(w) \/ WorkflowFails(w) \/ Complete(w) \/ GiveUp(w)
     \/ \E f \in File : Create(w, f) \/ Write(w, f)
  /\ UNCHANGED service

Next ==
  /\ \/ \E w \in Worker :
          \/ Preflight(w) \/ Claim(w) \/ Execute(w)
          \/ Observe(w) \/ StatArtifact(w) \/ StatSummary(w) \/ Read(w) \/ Finalize(w)
          \/ PreflightRetry(w) \/ Retry(w)
          \/ Crash(w)
     \/ Cancel \/ RemoveOutputs
  /\ UNCHANGED service

Spec == Init /\ [][Next]_vars

\* A request that was started goes on; nobody has to send one.
FairSpec == Spec /\ \A w \in Worker : WF_vars(Execute(w))

-----------------------------------------------------------------------------
(* Properties *)

\* The row, written by claims, completions and recoveries that may belong to
\* different requests, always agrees with its attempts: a running job has one running
\* attempt (or none at all if it is older than attempts), a job that ended by running
\* ended as its last attempt did, and a queued or canceled one left only attempts that
\* failed or were interrupted.
StatusMatchesAttempts ==
  LET last == IF attempts = <<>> THEN "none" ELSE attempts[Len(attempts)] IN
  /\ job.status = "running" => Running = {Len(attempts)} \ {0}
  /\ job.status \in {"succeeded", "failed"} => last = job.status
  /\ job.status \in {"queued", "canceled"} => last \in {"none", "failed", "interrupted"}
  /\ \A n \in 1..Len(attempts) - 1 : attempts[n] \in {"failed", "interrupted"}

\* A result reference is registered for exactly the succeeded API jobs, and what it
\* refers to is there, whole, whichever of executor, zombie and recovery wrote it and
\* whichever of them registered it; a clock that ties cannot tell two claims apart.
ResultIsThere ==
  /\ service.product => (reference <=> job.status = "succeeded")
  /\ ~service.ties /\ job.status = "succeeded" => \A f \in File : file[f].whole

JobIsSound == TypeOK /\ StatusMatchesAttempts /\ ResultIsThere

\* The sprint that hardened recovery promises one terminal winner: a job that
\* succeeded or was canceled stays as it is, with its attempts and its reference; an
\* attempt that ended is never rewritten, by a zombie's completion or a late recovery.
OneWinner ==
  /\ job.status \in {"succeeded", "canceled"} => UNCHANGED row
  /\ Len(attempts') >= Len(attempts)
  /\ \A n \in 1..Len(attempts) : attempts[n] # "running" => attempts'[n] = attempts[n]

\* An executor's success is registered for files it created itself: none of them is
\* another attempt's, although attempts of the same job may overlap.
SucceedsWithItsOwn ==
  \A w \in Worker :
    pc[w] = "succeed" /\ job.status = "running" /\ job'.status = "succeeded" /\ pc'[w] = "idle"
      => \A f \in File : file[f].by = mine[w] /\ file[f].whole

\* What was written for a job that succeeded is never written again or replaced.
ResultStays ==
  ~service.ties /\ job.status = "succeeded" => UNCHANGED file

\* What ended stays ended, and success is what the executor that won made itself.
WinnersStay == [][OneWinner /\ SucceedsWithItsOwn /\ ResultStays]_vars

\* An attempt runs only as long as somebody carries it out: unless its worker dies,
\* it ends.
Held(n) == n \in Running /\ \E w \in Worker :
  mine[w] = n /\ pc[w] \in {"verify", "artifact", "artifactBody", "summary", "summaryBody", "succeed", "fail"}

AttemptsEnd == \A n \in 1..MaxAttempts : Held(n) ~> ~Held(n)
=============================================================================

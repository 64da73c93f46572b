--------------------------- MODULE PaperJobRoutes ---------------------------
(***************************************************************************)
(* The HTTP routes of one API job (M28).  A command commits in its own     *)
(* transaction; what it answers is read afterwards, the job, its attempts  *)
(* and its result reference by three statements that share no snapshot.    *)
(* Only then is a run handed to a background task, whose outcome is told   *)
(* by one event of the log, after the audit has been read again.           *)
(* What happens between claim and completion, and to the files, is in      *)
(* PaperJob; here an execution ends in one step.                           *)
(***************************************************************************)
EXTENDS Naturals, Sequences, FiniteSets

CONSTANTS
  Request,
  ExecutionError, RecoveryError,  \* the error codes that an executor, and a recovery, give an attempt
  NoError,
  MaxAttempts,  \* bound: attempts
  MaxFaults     \* bound: requests the database fails or the process loses

RoutesAssumption ==
  /\ NoError \notin ExecutionError \union RecoveryError
  /\ MaxAttempts \in Nat /\ MaxFaults \in Nat

VARIABLES
  job,        \* the status of the job
  attempts,   \* of each attempt its status and error code
  reference,  \* whether a result reference is registered
  lost,       \* whether somebody took the output files away
  pc,         \* of each request, and of the background task a run leaves behind
  command, claim,
  view,       \* what was read of the job so far
  audited,    \* the status of the job that a background task read
  answer,     \* what the caller was told
  events,     \* the terminal events of the log
  linked,     \* of a request for the result: whether a caller had been given its link
  faults

row  == <<job, attempts, reference>>
vars == <<row, lost, pc, command, claim, view, audited, answer, events, linked, faults>>

Error   == ExecutionError \union RecoveryError
Command == {"run", "cancel", "retry", "recover", "detail", "result"}
Attempt == [status : {"running", "succeeded", "failed", "interrupted"}, error : Error \union {NoError}]
NoAttempt == [status |-> "none", error |-> NoError]
Status == {"queued", "running", "succeeded", "failed", "canceled"}
View   == [job : Status \union {"unread"},
           count : 0..MaxAttempts, latest : Attempt \union {NoAttempt}, available : BOOLEAN]
Unread == [job |-> "unread", count |-> 0, latest |-> NoAttempt, available |-> FALSE]
Label  == {"idle", "commit", "job", "attempts", "reference", "respond", "resultReference", "files",
           "execute", "auditJob", "auditAttempt", "uncertainJob", "done"}
Answer == {"none", "view", "result", "conflict", "result_unavailable", "result_invalid", "unavailable"}
Event  == [attempt : 1..MaxAttempts, event : {"completed", "failed", "uncertain"},
           job : Status \union {"unread"}, error : Error \union {NoError}]

\* Every variable keeps its type.
TypeOK ==
  /\ job \in Status /\ audited \in [Request -> Status \union {"unread"}]
  /\ attempts \in Seq(Attempt) /\ reference \in BOOLEAN /\ lost \in BOOLEAN
  /\ pc \in [Request -> Label] /\ command \in [Request -> Command]
  /\ claim \in [Request -> 0..MaxAttempts] /\ view \in [Request -> View]
  /\ answer \in [Request -> Answer] /\ linked \in [Request -> BOOLEAN]
  /\ events \subseteq Event /\ faults \in Nat

Init ==
  /\ job = "queued" /\ attempts = <<>> /\ reference = FALSE /\ lost = FALSE
  /\ pc = [r \in Request |-> "idle"] /\ command = [r \in Request |-> "detail"]
  /\ claim = [r \in Request |-> 0]
  /\ view = [r \in Request |-> Unread] /\ audited = [r \in Request |-> "unread"]
  /\ answer = [r \in Request |-> "none"] /\ linked = [r \in Request |-> FALSE]
  /\ events = {} /\ faults = 0

-----------------------------------------------------------------------------
(* What a status view says *)

Goto(r, l) == pc' = [pc EXCEPT ![r] = l]

Latest == IF attempts = <<>> THEN NoAttempt ELSE attempts[Len(attempts)]

\* Some caller was told that the result is available.
LinkGiven == \E r \in Request : answer[r] = "view" /\ view[r].available

Send(r, c) ==
  /\ pc[r] = "idle"
  /\ command' = [command EXCEPT ![r] = c]
  /\ linked' = [linked EXCEPT ![r] = LinkGiven]
  /\ Goto(r, IF c \in {"detail", "result"} THEN "job" ELSE "commit")
  /\ UNCHANGED <<row, lost, claim, audited, view, answer, events, faults>>

Respond(r, a) == answer' = [answer EXCEPT ![r] = a]

\* The job is read first.
ReadJob(r) ==
  /\ pc[r] = "job"
  /\ view' = [view EXCEPT ![r].job = job]
  /\ Goto(r, IF command[r] = "result" THEN "resultReference" ELSE "attempts")
  /\ UNCHANGED <<row, lost, command, claim, audited, answer, events, linked, faults>>

ReadAttempts(r) ==
  /\ pc[r] = "attempts"
  /\ view' = [view EXCEPT ![r] = [@ EXCEPT !.count = Len(attempts), !.latest = Latest]]
  /\ Goto(r, "reference")
  /\ UNCHANGED <<row, lost, command, claim, audited, answer, events, linked, faults>>

ReadReference(r) ==
  /\ pc[r] = "reference"
  /\ view' = [view EXCEPT ![r].available = reference]
  /\ Goto(r, "respond")
  /\ UNCHANGED <<row, lost, command, claim, audited, answer, events, linked, faults>>

\* Mutant: the task is not left behind.
AnswerOnly(r) ==
  /\ pc[r] = "respond"
  /\ Respond(r, "view")
  /\ Goto(r, "done")
  /\ UNCHANGED <<row, lost, command, claim, audited, view, events, linked, faults>>

\* The view is returned, and a run leaves its background task behind.
Finish(r) ==
  /\ pc[r] = "respond"
  /\ Respond(r, "view")
  /\ Goto(r, IF command[r] = "run" THEN "execute" ELSE "done")
  /\ UNCHANGED <<row, lost, command, claim, audited, view, events, linked, faults>>

-----------------------------------------------------------------------------
(* The commands *)

Claim(r) ==
  /\ job = "queued" /\ ~reference /\ Len(attempts) < MaxAttempts
  /\ job' = "running"
  /\ attempts' = Append(attempts, [status |-> "running", error |-> NoError])
  /\ claim' = [claim EXCEPT ![r] = Len(attempts) + 1]
  /\ UNCHANGED reference

Cancel ==
  /\ job = "queued" /\ job' = "canceled"
  /\ UNCHANGED <<attempts, reference>>

Retry ==
  /\ job = "failed" /\ ~reference /\ job' = "queued"
  /\ UNCHANGED <<attempts, reference>>

\* A recovery requeues, fails or completes the running attempt, as its files tell.
Recover(r) ==
  /\ job = "running" /\ ~reference
  /\ \E target \in {"queued", "succeeded", "failed"}, e \in RecoveryError :
       /\ job' = target
       /\ attempts' = [attempts EXCEPT ![Len(attempts)] =
            [status |-> IF target = "queued" THEN "interrupted" ELSE target,
             error  |-> IF target = "succeeded" THEN NoError ELSE e]]
       /\ reference' = (target = "succeeded")
  /\ claim' = [claim EXCEPT ![r] = Len(attempts)]

Commit(r) ==
  /\ pc[r] = "commit"
  /\ \/ command[r] = "run" /\ Claim(r)
     \/ command[r] = "cancel" /\ Cancel /\ UNCHANGED claim
     \/ command[r] = "retry" /\ Retry /\ UNCHANGED claim
     \/ command[r] = "recover" /\ Recover(r)
  /\ Goto(r, "job")
  /\ UNCHANGED <<lost, command, audited, view, answer, events, linked, faults>>

StatusFor == [run |-> "queued", cancel |-> "queued", retry |-> "failed", recover |-> "running",
              detail |-> "", result |-> ""]

\* The transaction finds the job in another status; a run, a retry or a recovery may
\* also be refused for what it finds in the output directory.
Refuse(r) ==
  /\ pc[r] = "commit"
  /\ job # StatusFor[command[r]] \/ command[r] # "cancel"
  /\ Respond(r, "conflict")
  /\ Goto(r, "done")
  /\ UNCHANGED <<row, lost, command, claim, audited, view, events, linked, faults>>

-----------------------------------------------------------------------------
(* The background task *)

Log(e) == events' = events \union {e}

\* The attempt the task was given is still the one that runs.
StillMine(r) == job = "running" /\ attempts[claim[r]].status = "running"

\* The workflow succeeds; job, attempt and reference are completed.
Succeed(r) ==
  /\ pc[r] = "execute" /\ StillMine(r)
  /\ job' = "succeeded" /\ reference' = TRUE
  /\ attempts' = [attempts EXCEPT ![claim[r]] = [status |-> "succeeded", error |-> NoError]]
  /\ Log([attempt |-> claim[r], event |-> "completed", job |-> "succeeded", error |-> NoError])
  /\ Goto(r, "done")
  /\ UNCHANGED <<lost, command, claim, audited, view, answer, linked, faults>>

\* It fails: the task is told by an exception, and reads the audit.
Fail(r) ==
  /\ pc[r] = "execute" /\ StillMine(r)
  /\ \E e \in ExecutionError :
       attempts' = [attempts EXCEPT ![claim[r]] = [status |-> "failed", error |-> e]]
  /\ job' = "failed"
  /\ Goto(r, "auditJob")
  /\ UNCHANGED <<reference, lost, command, claim, audited, view, answer, events, linked, faults>>

\* A recovery displaced it, or something unexpected happened: nothing is known.
Displaced(r) ==
  /\ pc[r] = "execute" /\ ~StillMine(r)
  /\ Goto(r, "uncertainJob")
  /\ UNCHANGED <<row, lost, command, claim, audited, view, answer, events, linked, faults>>

AuditJob(r) ==
  /\ pc[r] = "auditJob"
  /\ audited' = [audited EXCEPT ![r] = job]
  /\ Goto(r, "auditAttempt")
  /\ UNCHANGED <<row, lost, command, claim, view, answer, events, linked, faults>>

\* The error of exactly the claimed attempt.
ErrorOf(r) == attempts[claim[r]].error

\* A job that is failed, and an error of the attempt, are told; anything else is read
\* once more and told as uncertain.
AuditAttempt(r) ==
  /\ pc[r] = "auditAttempt"
  /\ IF audited[r] = "failed" /\ ErrorOf(r) \in Error
     THEN /\ Log([attempt |-> claim[r], event |-> "failed", job |-> "failed", error |-> ErrorOf(r)])
          /\ Goto(r, "done")
     ELSE Goto(r, "uncertainJob") /\ UNCHANGED events
  /\ UNCHANGED <<row, lost, command, claim, audited, view, answer, linked, faults>>

\* What cannot be read is told as unknown.
TellUncertain(r) ==
  /\ pc[r] = "uncertainJob"
  /\ \E status \in {job, "unread"} :
       Log([attempt |-> claim[r], event |-> "uncertain", job |-> status, error |-> NoError])
  /\ Goto(r, "done")
  /\ UNCHANGED <<row, lost, command, claim, audited, view, answer, linked, faults>>

-----------------------------------------------------------------------------
(* The result *)

\* Job and reference decide; the files are read when the session is closed.
ReadResult(r) ==
  /\ pc[r] = "resultReference"
  /\ view' = [view EXCEPT ![r].available = reference]
  /\ IF view[r].job = "succeeded" /\ reference
     THEN Goto(r, "files") /\ UNCHANGED answer
     ELSE Respond(r, "result_unavailable") /\ Goto(r, "done")
  /\ UNCHANGED <<row, lost, command, claim, audited, events, linked, faults>>

ReadFiles(r) ==
  /\ pc[r] = "files"
  /\ Respond(r, IF lost THEN "result_invalid" ELSE "result")
  /\ Goto(r, "done")
  /\ UNCHANGED <<row, lost, command, claim, audited, view, events, linked, faults>>

-----------------------------------------------------------------------------

\* The database fails a request after its transaction; the caller is told so.
Unavailable(r) ==
  /\ pc[r] \in {"job", "attempts", "reference", "respond", "resultReference"} /\ faults < MaxFaults
  /\ faults' = faults + 1
  /\ Respond(r, "unavailable")
  /\ Goto(r, "done")
  /\ UNCHANGED <<row, lost, command, claim, audited, view, events, linked>>

\* The audit cannot be read.
AuditFails(r) ==
  /\ pc[r] \in {"auditJob", "auditAttempt"} /\ faults < MaxFaults
  /\ faults' = faults + 1
  /\ Goto(r, "uncertainJob")
  /\ UNCHANGED <<row, lost, command, claim, audited, view, answer, events, linked>>

\* The process ends, and with it every request and task.
Restart ==
  /\ faults < MaxFaults
  /\ faults' = faults + 1
  /\ pc' = [r \in Request |-> IF pc[r] = "idle" THEN "idle" ELSE "done"]
  /\ UNCHANGED <<row, lost, command, claim, audited, view, answer, events, linked>>

\* Not in the code: somebody removes the output files of a job that succeeded.
LoseFiles ==
  /\ job = "succeeded" /\ lost' = TRUE
  /\ UNCHANGED <<row, pc, command, claim, audited, view, answer, events, linked, faults>>

Next ==
  \/ \E r \in Request :
       \/ \E c \in Command : Send(r, c)
       \/ Commit(r) \/ Refuse(r)
       \/ ReadJob(r) \/ ReadAttempts(r) \/ ReadReference(r) \/ Finish(r)
       \/ Succeed(r) \/ Fail(r) \/ Displaced(r) \/ AuditJob(r) \/ AuditAttempt(r) \/ TellUncertain(r)
       \/ ReadResult(r) \/ ReadFiles(r)
       \/ Unavailable(r) \/ AuditFails(r)
  \/ Restart \/ LoseFiles

Spec == Init /\ [][Next]_vars

-----------------------------------------------------------------------------
(* Properties *)

Told(r) == answer[r] = "view"

\* Although an answer is put together from three reads, one that says succeeded also
\* gives the attempt that succeeded and the link to the result, and one that gives the
\* link gives it for good: the job has succeeded and stays so.
ViewsHangTogether ==
  \A r \in Request : Told(r) =>
    /\ view[r].job = "succeeded" => view[r].available /\ view[r].latest.status = "succeeded"
    /\ view[r].available => job = "succeeded" /\ reference
    /\ view[r].job \in {"running", "failed"} => view[r].count > 0

\* The log tells, at most once for each attempt, what became of it: completed and failed
\* are true of exactly that attempt, with its own error, whatever later attempts did
\* before the audit was read; and success is always told as such.
EventsTellTheAttempt ==
  /\ \A e \in events :
       /\ e.event = "completed" => attempts[e.attempt].status = "succeeded"
       /\ e.event = "failed" => attempts[e.attempt] = [status |-> "failed", error |-> e.error]
  /\ \A e, f \in events : e.attempt = f.attempt => e = f

\* A job runs only while a request or its task carries it, unless a fault was met: an
\* accepted run is never forgotten.
RunIsCarried ==
  job = "running" /\ faults = 0 =>
    \E r \in Request : command[r] = "run" /\ claim[r] = Len(attempts)
      /\ pc[r] \in {"job", "attempts", "reference", "respond", "execute"}

\* A link that was given works: a request for the result that was sent afterwards is not
\* told that there is none, nor that it is invalid unless files were taken away.
LinksWork ==
  \A r \in Request : command[r] = "result" =>
    /\ linked[r] => answer[r] # "result_unavailable"
    /\ answer[r] = "result_invalid" => lost

\* What a caller is told of a job hangs together although it is read in pieces, the link
\* to a result that was given to one caller works for every later one, a run that was
\* accepted is carried out, and the log tells what became of exactly its attempt.
RoutesTellTheJob ==
  TypeOK /\ ViewsHangTogether /\ LinksWork /\ RunIsCarried /\ EventsTellTheAttempt
=============================================================================

------------------------------ MODULE PaperJobs ------------------------------
(***************************************************************************)
(* Paper jobs as a whole: a job with its files (PaperJob), the submission  *)
(* of jobs (PaperJobSubmission) and the routes that answer for a job       *)
(* (PaperJobRoutes).  Each part sees of the others what the database shows *)
(* it, so they stand side by side, each with variables of its own.         *)
(***************************************************************************)
EXTENDS PaperJob

CONSTANTS
  JobCommand, Run, RunOf, Key, NoKey, NoJob, NoReceipt, MaxJobs,  \* of PaperJobSubmission
  Request, ExecutionError, RecoveryError, NoError              \* of PaperJobRoutes

VARIABLES
  jobs, keys, carrying, sent, told, refused,                   \* of PaperJobSubmission
  status, audit, result, lost, at, command, claim, view, audited, answer, events, linked, missed
                                                               \* of PaperJobRoutes

Submission == INSTANCE PaperJobSubmission WITH Command <- JobCommand, pc <- carrying
Routes == INSTANCE PaperJobRoutes WITH
  job <- status, attempts <- audit, reference <- result, pc <- at, faults <- missed

submitVars == <<jobs, keys, carrying, sent, told, refused>>
routeVars  == <<status, audit, result, lost, at, command, claim, view, audited, answer, events, linked, missed>>

\* No submission is stored twice, and who is refused never stored one.
SubmissionsAreSound == Submission!SubmissionsAreSound

\* Submissions under a key keep the promise of idempotent commands.
SubmissionsKeepPromise == [][Submission!Commands!Next]_(Submission!Commands!vars)

\* What a caller is told of a job hangs together although it is read in pieces, the link
\* to a result that was given to one caller works for every later one, a run that was
\* accepted is carried out, and the log tells what became of exactly its attempt.
RoutesTellTheJob == Routes!RoutesTellTheJob
=============================================================================

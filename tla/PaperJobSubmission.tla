------------------------- MODULE PaperJobSubmission -------------------------
(***************************************************************************)
(* Submitting a paper job (M27) under an optional idempotency key.  The    *)
(* key is read before the first write, hence outside the transaction that  *)
(* stores the job: requests race, the database's unique constraints decide,*)
(* and who loses reads the key again.                                      *)
(***************************************************************************)
EXTENDS Naturals, FiniteSets

CONSTANTS
  Worker,
  Command,   \* requests, told apart by their digest
  Run,       \* the run identities that requests name
  RunOf,     \* of each command
  Key,
  NoKey,     \* a submission without a key
  NoJob, NoReceipt,
  MaxJobs    \* bound: jobs; a job is named by a number that is not used again

SubmissionAssumption ==
  /\ RunOf \in [Command -> Run]
  /\ NoKey \notin Key
  /\ NoJob \notin Command
  /\ NoReceipt \notin [command : Command, answer : Nat] \union [command : Command, key : Key \union {NoKey}]
  /\ MaxJobs \in Nat

VARIABLES
  jobs,     \* the command of each job
  keys,     \* what is mapped to each key: a command and its job
  pc, sent, \* of each worker: where it is, and the command and the key it carries
  told,     \* the jobs that callers were told of under a key
  refused   \* keys and commands that were answered with a conflict of the run

vars == <<jobs, keys, pc, sent, told, refused>>

Job  == 1..MaxJobs
Sent == [command : Command, key : Key \union {NoKey}]

TypeOK ==
  /\ jobs \in [Job -> Command \union {NoJob}]
  /\ keys \in [Key -> [command : Command, answer : Job] \union {NoReceipt}]
  /\ pc \in [Worker -> {"idle", "lookup", "insert", "reread"}]
  /\ sent \in [Worker -> Sent \union {NoReceipt}]
  /\ told \subseteq Key \X Command \X Job
  /\ refused \subseteq Key \X Command

Init ==
  /\ jobs = [j \in Job |-> NoJob]
  /\ keys = [k \in Key |-> NoReceipt]
  /\ pc = [w \in Worker |-> "idle"]
  /\ sent = [w \in Worker |-> NoReceipt]
  /\ told = {} /\ refused = {}

-----------------------------------------------------------------------------

Goto(w, l) == pc' = [pc EXCEPT ![w] = l]

Stored == {j \in Job : jobs[j] # NoJob}

KeyOf(w)     == sent[w].key
CommandOf(w) == sent[w].command

\* The worker is done with what it carries.
Done(w) == /\ Goto(w, "idle")
           /\ sent' = [sent EXCEPT ![w] = NoReceipt]

Mapped(w) == IF KeyOf(w) = NoKey THEN FALSE ELSE keys[KeyOf(w)] # NoReceipt

\* _replay_job: the mapping of a key, if it has one, answers the command it was
\* made for and is a conflict for any other.
Replayed(w) ==
  /\ Mapped(w)
  /\ IF keys[KeyOf(w)].command = CommandOf(w)
     THEN told' = told \union {<<KeyOf(w), CommandOf(w), keys[KeyOf(w)].answer>>}
     ELSE UNCHANGED told
  /\ Done(w)
  /\ UNCHANGED <<jobs, keys, refused>>

\* The request is parsed and its digest taken.
Submit(w, s) ==
  /\ pc[w] = "idle"
  /\ sent' = [sent EXCEPT ![w] = s]
  /\ Goto(w, "lookup")
  /\ UNCHANGED <<jobs, keys, told, refused>>

Lookup(w) ==
  /\ pc[w] = "lookup"
  /\ \/ Replayed(w)
     \/ ~Mapped(w) /\ Goto(w, "insert") /\ UNCHANGED <<jobs, keys, sent, told, refused>>

\* uq_paper_jobs_run_id and pk_paper_job_submission_keys.
RunTaken(c) == \E j \in Stored : RunOf[jobs[j]] = RunOf[c]

\* Mutant: the key is not unique.
AcceptedByRun(w) == ~RunTaken(CommandOf(w))

Accepted(w) == ~RunTaken(CommandOf(w)) /\ ~Mapped(w)

\* Job and key are stored in one transaction; the answer may not arrive.
Insert(w) ==
  /\ pc[w] = "insert" /\ Accepted(w)
  /\ \E j \in Job :
       /\ jobs[j] = NoJob /\ \A i \in 1..j - 1 : i \in Stored
       /\ jobs' = [jobs EXCEPT ![j] = CommandOf(w)]
       /\ IF KeyOf(w) = NoKey THEN UNCHANGED <<keys, told>>
          ELSE /\ keys' = [keys EXCEPT ![KeyOf(w)] = [command |-> CommandOf(w), answer |-> j]]
               /\ told' \in {told, told \union {<<KeyOf(w), CommandOf(w), j>>}}
  /\ Done(w)
  /\ UNCHANGED refused

\* Mutant: who loses the race is refused at once.
RefusedAtOnce(w) ==
  /\ pc[w] = "insert" /\ ~Accepted(w)
  /\ refused' = IF KeyOf(w) = NoKey THEN refused ELSE refused \union {<<KeyOf(w), CommandOf(w)>>}
  /\ Done(w)
  /\ UNCHANGED <<jobs, keys, told>>

\* IntegrityError: the transaction is rolled back and the key read again.
InsertFails(w) ==
  /\ pc[w] = "insert" /\ ~Accepted(w)
  /\ Goto(w, "reread")
  /\ UNCHANGED <<jobs, keys, sent, told, refused>>

Reread(w) ==
  /\ pc[w] = "reread"
  /\ \/ Replayed(w)
     \/ /\ ~Mapped(w)
        /\ refused' = IF KeyOf(w) = NoKey THEN refused ELSE refused \union {<<KeyOf(w), CommandOf(w)>>}
        /\ Done(w)
        /\ UNCHANGED <<jobs, keys, told>>

\* The request ends without an answer.
Crash(w) ==
  /\ pc[w] # "idle"
  /\ Done(w)
  /\ UNCHANGED <<jobs, keys, told, refused>>

Next == \E w \in Worker :
  \/ \E s \in Sent : Submit(w, s)
  \/ Lookup(w) \/ Insert(w) \/ InsertFails(w) \/ Reread(w) \/ Crash(w)

Spec == Init /\ [][Next]_vars

-----------------------------------------------------------------------------
(* Properties *)

\* One job per run identity, and per key at most one job, which no other key names:
\* however submissions race, no job is stored twice.
OneJob ==
  /\ \A i, j \in Stored : RunOf[jobs[i]] = RunOf[jobs[j]] => i = j
  /\ \A k, l \in Key :
       keys[k] # NoReceipt /\ keys[l] # NoReceipt /\ keys[k].answer = keys[l].answer => k = l
  /\ \A k \in Key :
       keys[k] # NoReceipt => jobs[keys[k].answer] = keys[k].command

\* A conflict of the run is the answer only to a submission that never stored a job:
\* a lost answer that is asked for again, or a race that is lost to the same command
\* under the same key, is answered with the job.
RefusalsAreReal ==
  \A r \in refused : RunTaken(r[2]) /\ \A t \in told : r = <<t[1], t[2]>> => FALSE

\* No submission is stored twice, and who is refused never stored one.
SubmissionsAreSound == TypeOK /\ OneJob /\ RefusalsAreReal

\* The promise of idempotent commands, kept by the submissions of paper jobs.
Commands == INSTANCE KeyedCommands WITH Answer <- Job, receipts <- keys

AnswersAgree == Commands!Agreement
=============================================================================

---------------------------- MODULE DemoInstall ----------------------------
(***************************************************************************)
(* The startup of a Demo backend: install one dataset into one workspace   *)
(* root, or recognize it there, verify what it owns, and only then serve.  *)
(* An installation is built in a staging directory beside the root and put *)
(* in place by one rename.  Several backends may start at the same time,   *)
(* any of them may fail or be stopped between two stages, somebody may put *)
(* files of his own into the root, and the Demo's users work in it.        *)
(*                                                                         *)
(* A part of a workspace is recorded by what the validators tell apart:    *)
(* the dataset it comes from, or how far it has got since it was seeded.   *)
(***************************************************************************)
EXTENDS Naturals, Sequences

CONSTANTS
  Process,   \* backends started on this root
  SourceOf,  \* the dataset each of them is given
  Sound,     \* the datasets whose source validates
  Page,      \* the length of the page a seeded record is looked for in
  MaxFailures, MaxIntrusions, MaxStops  \* bounds

\* A dataset is neither nothing nor the one that others have installed here.
OtherDataset == "another"

DemoInstallAssumption ==
  /\ Sound # {} /\ OtherDataset \notin Sound /\ "none" \notin Sound
  /\ Page \in Nat \ {0}

VARIABLES
  target,   \* the workspace root: [there, foreign, w]
  staging,  \* the staging directory beside it
  proc,     \* of each backend: [at, stage, mine, emptied, prior]
  failures, intrusions, stops,
  surprises \* history: the uses so far that no validator of a startup foresees

vars == <<target, staging, proc, failures, intrusions, stops, surprises>>

----------------------------------------------------------------------------
(* A workspace, and the stages that seed it.                               *)

Newest == 12
SeededHead == 5      \* the version of the seeded account
SeededPosition == 4  \* the position of the paused replay

NoParts ==
  [research |-> "none", evidence |-> "none", paper |-> "none", rev |-> 0, jobs |-> "none",
   review |-> "none", account |-> 0, market |-> 0, signals |-> 0, orders |-> "none",
   runtime |-> "none", descriptor |-> "none", marker |-> "none"]

CopyResearch(w, d) == [w EXCEPT !.research = d]
CopyEvidence(w, d) == [w EXCEPT !.evidence = d]
\* The summaries of these runs name the directory they were written in.
RunPaper(w, d) == [w EXCEPT !.paper = "staging"]
UpgradeDatabase(w, d) == [w EXCEPT !.rev = Newest]
PopulateDatabase(w, d) == [w EXCEPT !.jobs = d]
SeedReview(w, d) == [w EXCEPT !.review = "awaiting"]
SeedAccount(w, d) == [w EXCEPT !.account = SeededHead]
SeedMarket(w, d) == [w EXCEPT !.market = SeededPosition]
\* One signal, its intent and two decisions, anchored in the seeded account and replay.
SeedOrders(w, d) == [w EXCEPT !.signals = 1]
\* A manual candidate without an order, three settled orders, and a runtime with no work.
SeedExecution(w, d) == [w EXCEPT !.orders = "fresh", !.runtime = "fresh"]
WriteDescriptor(w, d) == [w EXCEPT !.descriptor = d]
WriteMarker(w, d) == [w EXCEPT !.marker = d]
Retargeted(w) == [w EXCEPT !.paper = "target"]

Stages == 12
Staged(w, d, stage) ==
  CASE stage = 1 -> CopyResearch(w, d)     [] stage = 2 -> CopyEvidence(w, d)
    [] stage = 3 -> RunPaper(w, d)         [] stage = 4 -> UpgradeDatabase(w, d)
    [] stage = 5 -> PopulateDatabase(w, d) [] stage = 6 -> SeedReview(w, d)
    [] stage = 7 -> SeedAccount(w, d)      [] stage = 8 -> SeedMarket(w, d)
    [] stage = 9 -> SeedOrders(w, d)       [] stage = 10 -> SeedExecution(w, d)
    [] stage = 11 -> WriteDescriptor(w, d) [] stage = 12 -> WriteMarker(w, d)

----------------------------------------------------------------------------
(* What the validators accept.                                             *)

\* The seeded review replays its creation; a human decision on it is welcome.
ReviewValid(w) == w.review \in {"awaiting", "decided"}
\* The journey replays, and the ledger holds it and nothing else.
AccountValid(w) == w.account = SeededHead
MarketValid(w) == w.market = SeededPosition
\* The seeded signal is read, and is on the first page of the list, newest first.
OrdersValid(w) == w.signals \in 1..Page
\* One order at most, of this candidate and under the policy the Demo was seeded with, that
\* reads back: a working order does not once its account has moved without it.
ManualValid(w, fresh) == w.orders = "fresh" \/ (w.orders = "ordered" /\ ~fresh)
\* Coherent, whatever its protocol has done: no attempt without a Work, no order torn off
\* its account.
RuntimeValid(w, fresh) == w.runtime = "fresh" \/ (w.runtime = "worked" /\ ~fresh)
JourneysValid(w, fresh) ==
  /\ ReviewValid(w) /\ AccountValid(w) /\ MarketValid(w) /\ OrdersValid(w)
  /\ ManualValid(w, fresh) /\ RuntimeValid(w, fresh)

InstalledValid(w, d, place, fresh) ==
  /\ w.rev = Newest /\ w.research = d /\ w.evidence = d /\ w.jobs = d
  /\ w.paper = place /\ JourneysValid(w, fresh) /\ w.descriptor = d

\* What startup verifies at the end, by the descriptor alone: no source at hand.
DescriptorValid(w) == w.descriptor # "none" /\ w.marker = w.descriptor
VerifiedValid(w) ==
  /\ w.rev = Newest /\ DescriptorValid(w)
  /\ w.research = w.descriptor /\ w.evidence = w.descriptor /\ w.jobs = w.descriptor
  /\ w.paper = "target" /\ JourneysValid(w, FALSE)

----------------------------------------------------------------------------
(* A startup.                                                              *)

Gone == [there |-> FALSE, foreign |-> FALSE, w |-> NoParts]
Bare == [there |-> TRUE, foreign |-> FALSE, w |-> NoParts]
Entries(dir) == dir.there /\ (dir.foreign \/ dir.w # NoParts)

\* The dataset, installed whole by an installer; users may have worked in it.
Complete(w, d) ==
  /\ w.research = d /\ w.evidence = d /\ w.jobs = d /\ w.descriptor = d /\ w.marker = d
  /\ w.paper = "target" /\ w.rev = Newest /\ w.review # "none" /\ w.account >= SeededHead
  /\ w.market >= SeededPosition /\ w.signals > 0 /\ w.orders # "none" /\ w.runtime # "none"

Installed(d) ==
  [research |-> d, evidence |-> d, paper |-> "target", rev |-> Newest, jobs |-> d,
   review |-> "awaiting", account |-> SeededHead, market |-> SeededPosition, signals |-> 1,
   orders |-> "fresh", runtime |-> "fresh", descriptor |-> d, marker |-> d]
\* The dataset under a database of revision 9: no signals, orders and runtimes yet.
Old(d) ==
  [Installed(d) EXCEPT !.rev = 9, !.signals = 0, !.orders = "none", !.runtime = "none"]

Quit == [at |-> "idle", stage |-> 1, mine |-> FALSE, emptied |-> FALSE, prior |-> Newest]

Init ==
  /\ target \in {Gone, Bare, [Bare EXCEPT !.foreign = TRUE],
                 [Bare EXCEPT !.w = Installed(OtherDataset)],
                 [Bare EXCEPT !.w = Old(CHOOSE d \in Sound : TRUE)]}
  /\ staging = Gone
  /\ proc = [p \in Process |-> Quit]
  /\ failures = 0 /\ intrusions = 0 /\ stops = 0 /\ surprises = {}

At(p, at) == proc[p].at = at
Go(p, at) == proc' = [proc EXCEPT ![p].at = at]
Quiet == UNCHANGED <<failures, intrusions, stops, surprises>>

Start(p) ==
  /\ proc[p].at \in {"idle", "refused"}
  /\ Go(p, IF SourceOf[p] \in Sound THEN "inspect" ELSE "refused")
  /\ UNCHANGED <<target, staging>> /\ Quiet

\* What the root holds decides: refuse, recognize the dataset, or install it.
Inspect(p) ==
  /\ At(p, "inspect")
  /\ Go(p, IF Entries(target)
           THEN IF target.w.marker = SourceOf[p] /\ ~target.foreign THEN "upgrade" ELSE "refused"
           ELSE IF staging.there THEN "refused" ELSE "claim")
  /\ UNCHANGED <<target, staging>> /\ Quiet

\* The dataset is there: bring its database forward, seed what a revision has added.
Upgrade(p) ==
  /\ At(p, "upgrade")
  /\ proc' = [proc EXCEPT ![p].at = "reseed", ![p].prior = target.w.rev]
  /\ target' = [target EXCEPT !.w = UpgradeDatabase(@, SourceOf[p])]
  /\ UNCHANGED staging /\ Quiet

Reseed(p) ==
  /\ At(p, "reseed")
  /\ Go(p, "validate")
  /\ target' = IF proc[p].prior = 9
               THEN [target EXCEPT !.w = SeedOrders(@, SourceOf[p])] ELSE target
  /\ UNCHANGED staging /\ Quiet

Validate(p) ==
  /\ At(p, "validate")
  /\ Go(p, IF InstalledValid(target.w, SourceOf[p], "target", FALSE)
           THEN "verify" ELSE "refused")
  /\ UNCHANGED <<target, staging>> /\ Quiet

\* mkdir: the staging directory belongs to the one who makes it.
Claim(p) ==
  /\ At(p, "claim")
  /\ IF staging.there THEN Go(p, "refused") /\ UNCHANGED staging
     ELSE /\ staging' = Bare
          /\ proc' = [proc EXCEPT ![p].at = "build", ![p].mine = TRUE, ![p].stage = 1]
  /\ UNCHANGED target /\ Quiet

Build(p) ==
  /\ At(p, "build")
  /\ staging' = [staging EXCEPT !.w = Staged(@, SourceOf[p], proc[p].stage)]
  /\ proc' = [proc EXCEPT ![p].stage = @ + 1,
                          ![p].at = IF proc[p].stage = Stages THEN "check" ELSE "build"]
  /\ UNCHANGED target /\ Quiet

CheckFresh(p) ==
  /\ At(p, "check")
  /\ Go(p, IF InstalledValid(staging.w, SourceOf[p], "staging", TRUE)
           THEN "retarget" ELSE "cleanup")
  /\ UNCHANGED <<target, staging>> /\ Quiet

\* The summaries are bound to the path they will have once in place.
Retarget(p) ==
  /\ At(p, "retarget")
  /\ Go(p, "recheck")
  /\ staging' = [staging EXCEPT !.w = Retargeted(@)]
  /\ UNCHANGED target /\ Quiet

\* The root again: what has come into it is not touched, an empty one is removed.
Recheck(p) ==
  /\ At(p, "recheck")
  /\ IF Entries(target) THEN Go(p, "cleanup") /\ UNCHANGED target
     ELSE /\ proc' = [proc EXCEPT ![p].at = "replace", ![p].emptied = target.there]
          /\ target' = Gone
  /\ UNCHANGED staging /\ Quiet

\* The rename: it fails on a directory that is not empty.
Replace(p) ==
  /\ At(p, "replace")
  /\ IF Entries(target) THEN Go(p, "cleanup") /\ UNCHANGED <<target, staging>>
     ELSE /\ target' = staging /\ staging' = Gone
          /\ proc' = [proc EXCEPT ![p].at = "verify", ![p].mine = FALSE]
  /\ Quiet

\* The finally block: what this process has made is taken away, and nothing else.
Cleanup(p) ==
  /\ At(p, "cleanup")
  /\ staging' = IF proc[p].mine THEN Gone ELSE staging
  /\ target' = IF proc[p].emptied /\ ~target.there THEN Bare ELSE target
  /\ proc' = [proc EXCEPT ![p] = [Quit EXCEPT !.at = "refused"]]
  /\ Quiet

\* A mutant: startup serves what it has installed without a look at it.
VerifyNothing(p) ==
  /\ At(p, "verify") /\ Go(p, "serving")
  /\ UNCHANGED <<target, staging>> /\ Quiet

Verify(p) ==
  /\ At(p, "verify")
  /\ Go(p, IF target.there /\ ~target.foreign /\ VerifiedValid(target.w)
           THEN "serving" ELSE "refused")
  /\ UNCHANGED <<target, staging>> /\ Quiet

\* A stage of an installation raises: the disk, a seed that diverges.
Fail(p) ==
  /\ proc[p].at \in {"build", "check", "retarget", "recheck", "replace"}
  /\ failures < MaxFailures /\ failures' = failures + 1
  /\ Go(p, "cleanup")
  /\ UNCHANGED <<target, staging, intrusions, stops, surprises>>

\* The process ends; a staging directory it has made stays.
Stop(p) ==
  /\ proc[p].at \notin {"idle", "refused"}
  /\ proc[p].at = "serving" \/ stops < MaxStops
  /\ stops' = IF proc[p].at = "serving" THEN stops ELSE stops + 1
  /\ proc' = [proc EXCEPT ![p] = Quit]
  /\ UNCHANGED <<target, staging, failures, intrusions, surprises>>

\* Somebody puts a file of his own into the root.
Intrude ==
  /\ intrusions < MaxIntrusions /\ intrusions' = intrusions + 1
  /\ target' = [target EXCEPT !.there = TRUE, !.foreign = TRUE]
  /\ UNCHANGED <<staging, proc, failures, stops, surprises>>

\* What users may do through the API of a served Demo: decide on the seeded review, post an
\* event on the seeded account, order the manual candidate; order it under a policy of their
\* own, order again in its market, or move the account of its working order; let the seeded
\* runtime work; step its order by hand or move its account; create a signal.
Uses == {"decide", "deposit", "order", "reorder", "work", "bypass", "signal"}
\* Those the validators of the next startup are written for.
Expected == {"decide", "order", "work", "signal"}
Used(w, use) ==
  CASE use = "decide"  -> [w EXCEPT !.review = "decided"]
    [] use = "deposit" -> [w EXCEPT !.account = SeededHead + 1]
    [] use = "order"   -> [w EXCEPT !.orders = IF @ = "fresh" THEN "ordered" ELSE @]
    [] use = "reorder" -> [w EXCEPT !.orders = "amiss"]
    [] use = "work"    -> [w EXCEPT !.runtime = IF @ = "fresh" THEN "worked" ELSE @]
    [] use = "bypass"  -> [w EXCEPT !.runtime = "amiss"]
    [] use = "signal"  -> [w EXCEPT !.signals = IF @ <= Page THEN @ + 1 ELSE @]
Use ==
  /\ \E p \in Process : At(p, "serving")
  /\ \E use \in Uses :
       /\ target' = [target EXCEPT !.w = Used(@, use)]
       /\ surprises' = surprises \union ({use} \ Expected)
  /\ UNCHANGED <<staging, proc, failures, intrusions, stops>>

Step(p) ==
  \/ Start(p) \/ Inspect(p) \/ Upgrade(p) \/ Reseed(p) \/ Validate(p) \/ Claim(p) \/ Build(p)
  \/ CheckFresh(p) \/ Retarget(p) \/ Recheck(p) \/ Replace(p) \/ Cleanup(p) \/ Verify(p)
Next == (\E p \in Process : Step(p) \/ Fail(p) \/ Stop(p)) \/ Intrude \/ Use
Spec == Init /\ [][Next]_vars

----------------------------------------------------------------------------
(* Properties.                                                             *)

TypeOK ==
  /\ target.there \/ target = Gone
  /\ staging.there \/ staging = Gone
  /\ ~staging.foreign
  /\ \A p \in Process : proc[p].stage \in 1..(Stages + 1) /\ proc[p].prior \in {9, Newest}

\* An installation appears in the root at once and whole, or not at all: no stage of it is
\* ever to be seen there, whoever fails or stops where (one rename puts it in place).
AllOrNothing ==
  [][target.w = NoParts /\ target'.w # NoParts =>
       \E p \in Process : Complete(target'.w, SourceOf[p])]_vars

\* Whoever starts, what was in the root before stays: files of somebody else, and the
\* workspace of another dataset (the root is inspected before, and again at the end).
OthersStay ==
  [][/\ target.foreign => target'.foreign
     /\ target.w.marker = OtherDataset => target'.w = target.w]_vars

\* A staging directory has at most one owner, who alone changes or removes it; one that a
\* stopped installer has left is left alone by everybody else.
StagingOwned ==
  [][/\ \A p, q \in Process : proc'[p].mine /\ proc'[q].mine => p = q
     /\ staging' # staging => \E p \in Process : proc[p].mine \/ proc'[p].mine]_vars

\* A backend goes into service only on a whole installation of its own dataset, with
\* nothing foreign beside it.
ServesWhole ==
  [][\A p \in Process : ~At(p, "serving") /\ proc'[p].at = "serving" =>
       Complete(target.w, SourceOf[p]) /\ ~target.foreign]_vars

\* Of a Demo that is installed whole, a startup depends on what its users have done, on
\* nothing else and for good: it is never refused after any decision, order, runtime work
\* and as many signals as a page shows, and it never serves again after any other use, such
\* as cash that was moved or an order under a policy of the user's own.
RestartServes ==
  [][\A p \in Process :
       /\ Complete(target.w, SourceOf[p]) /\ ~target.foreign
       /\ proc[p].at \in {"inspect", "validate", "verify"}
       => IF surprises = {} /\ target.w.signals <= Page
          THEN proc'[p].at # "refused" ELSE proc'[p].at # "serving"]_vars

\* A Demo installation appears in its root at once and whole or not at all, is served
\* only whole, leaves what others keep there alone, its staging has one owner, and whether
\* it is served after a restart depends on the uses made of it alone.
DemoInstallsWhole == AllOrNothing /\ OthersStay /\ StagingOwned /\ ServesWhole /\ RestartServes
=============================================================================

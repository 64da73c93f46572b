---------------------------- MODULE MCWorkspace ----------------------------
(* What is kept on a disk, for TLC.  A behaviour is one of four: backends     *)
(* that install and serve a Demo (DemoInstall), a Standard backend that       *)
(* upgrades its database (SchemaMigration), and workers that create, or       *)
(* decide on, portfolio reviews (PortfolioReview).  The variables of the      *)
(* others keep their first state.                                            *)
EXTENDS Workspace, TLC

CONSTANTS p1, p2, b1, b2

VARIABLE subject
allVars == <<subject, vars, migrationVars, demoVars>>

\* Two backends, both given the one dataset.
Backends == {b1, b2}
MCSourceOf == [b \in Backend |-> "v7"]
ASSUME Demo!DemoInstallAssumption /\ Migration!MigrationAssumption

\* One source id with two contents, a second source; analyses of two reviews.
Workers == {p1, p2}
S(i, b) == [id |-> i, body |-> b]
A(r, s, b) == [review |-> r, source |-> s, body |-> b, at |-> 1]
D(i, r, b, t) == [id |-> i, review |-> r, body |-> b, at |-> t]

TwoReviews ==
  { [key |-> "k1", analysis |-> A("r1", S("s1", "x"), "b")],
    [key |-> "k2", analysis |-> A("r2", S("s1", "x"), "b")] }
AllCreates == TwoReviews \union
  { [key |-> "k1", analysis |-> A("r2", S("s1", "y"), "b")],
    [key |-> "k3", analysis |-> A("r1", S("s2", "x"), "b")],
    [key |-> "k4", analysis |-> A("r1", S("s1", "x"), "c")] }
AllDecisions ==
  { [key |-> "d1", decision |-> D("i1", "r1", "approved", 1)],
    [key |-> "d2", decision |-> D("i2", "r1", "rejected", 2)],
    [key |-> "d2", decision |-> D("i2", "r2", "approved", 2)],
    [key |-> "d3", decision |-> D("i1", "r2", "approved", 1)],
    [key |-> "d1", decision |-> D("i3", "r1", "deferred", 0)] }

\* The commands that a behaviour about creating, or about deciding, is made of.
Sent(commands) == \A p \in Workers : proc[p] # Idle => proc[p].cmd \in commands
Creating == calls <= 4 /\ Sent(AllCreates)
Deciding == stops <= 1 /\ Sent(TwoReviews \union AllDecisions)

MCInit ==
  /\ subject \in {"demo", "upgrade", "creating", "deciding"}
  /\ Init /\ Migration!Init /\ Demo!Init
  /\ subject # "demo" => target = Demo!Gone
  /\ subject # "upgrade" => db = Migration!NoFile /\ ~demo

MCNext ==
  \/ subject = "demo" /\ Demo!Next /\ UNCHANGED <<subject, migrationVars, vars>>
  \/ subject = "upgrade" /\ Migration!Next /\ UNCHANGED <<subject, vars, demoVars>>
  \/ subject = "creating" /\ Next /\ Creating' /\ UNCHANGED <<subject, migrationVars, demoVars>>
  \/ subject = "deciding" /\ Next /\ Deciding' /\ UNCHANGED <<subject, migrationVars, demoVars>>

MCSpec == MCInit /\ [][MCNext]_allVars

MCSymmetry == Permutations(Workers) \union Permutations(Backends)
=============================================================================

------------------------------ MODULE Workspace ------------------------------
(***************************************************************************)
(* What is kept on a disk as a whole: portfolio reviews with their files   *)
(* (PortfolioReview), the database that a Standard backend brings forward  *)
(* (SchemaMigration) and the Demo that a backend installs (DemoInstall).   *)
(* No two of them write to the same table or file at the same time, so     *)
(* they stand side by side, each with variables of its own.                *)
(***************************************************************************)
EXTENDS PortfolioReview

CONSTANTS
  Populated,                                                   \* of SchemaMigration
  Backend, SourceOf, Sound, Page,
  MaxFailures, MaxIntrusions, MaxBackendStops                  \* of DemoInstall

VARIABLES
  db, dirs, demo, phase, next, kept,                              \* of SchemaMigration
  target, staging, backends, failures, intrusions, backendStops, surprises  \* of DemoInstall

Migration == INSTANCE SchemaMigration WITH at <- phase
Demo == INSTANCE DemoInstall WITH
  Process <- Backend, MaxStops <- MaxBackendStops, proc <- backends, stops <- backendStops

migrationVars == <<db, dirs, demo, phase, next, kept>>
demoVars      == <<target, staging, backends, failures, intrusions, backendStops, surprises>>

\* However often an upgrade is stopped, it loses no row, what is served in the end is
\* whole, and a refusal has a cause that is in the workspace.
UpgradesKeepRows == Migration!UpgradesKeepRows

\* A Demo installation appears in its root at once and whole or not at all, is served
\* only whole, leaves what others keep there alone, its staging has one owner, and whether
\* it is served after a restart depends on the uses made of it alone.
DemoInstallsWhole == Demo!DemoInstallsWhole
=============================================================================

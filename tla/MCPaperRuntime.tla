-------------------------- MODULE MCPaperRuntime --------------------------
(* PaperRuntime for TLC: two worker processes at a time, of different owner *)
(* ids with somebody who may step the order through the execution API, or   *)
(* of one owner id.                                                         *)
EXTENDS PaperRuntime

CONSTANTS w1, w2, w3

\* The --owner-id of each process.
MCOwnerOf == [w \in {w1, w2, w3} |-> IF w = w2 THEN "beta" ELSE "alpha"]

VARIABLE scene

Apart  == INSTANCE PaperRuntime WITH Worker <- {w1, w2}, ManualSteps <- TRUE, ClockTies <- TRUE
Shared == INSTANCE PaperRuntime WITH Worker <- {w1, w3}, MaxFaults <- 1

MCInit == scene \in {"apart", "shared"} /\ Init
MCNext ==
  \/ scene = "apart" /\ Apart!Next /\ UNCHANGED scene
  \/ scene = "shared" /\ Shared!Next /\ UNCHANGED scene
MCSpec == MCInit /\ [][MCNext]_<<vars, scene>>

\* Two processes of one owner id; nobody steps the order by hand.
SharedSpec == Init /\ scene = "shared" /\ [][Shared!Next /\ UNCHANGED scene]_<<vars, scene>>
=============================================================================

----------------------- MODULE MCPaperRuntimeControl -----------------------
(* PaperRuntimeControl for TLC, asked three questions: how repeated commands  *)
(* are answered; what becomes of the row and its history when commands and    *)
(* two processes write it while the clock is set back; and what blocks a      *)
(* runtime when the clock only goes forward.                                  *)
EXTENDS PaperRuntimeControl, TLC

CONSTANTS w1, k1

VARIABLE question

Replays == INSTANCE PaperRuntimeControl WITH
  Worker <- {w1}, MaxVersion <- 3, MaxEvents <- 4, MaxTime <- 0, SetBacks <- 0
Clocks == INSTANCE PaperRuntimeControl WITH
  Key <- {k1}, Policy <- {0}, MaxVersion <- 3, MaxEvents <- 4, MaxTime <- 2
Blocks == INSTANCE PaperRuntimeControl WITH
  Worker <- {w1}, Key <- {k1}, Policy <- {0}, Duration <- 2, MaxVersion <- 4, MaxTime <- 2, SetBacks <- 0

MCInit == question \in {"replay", "clock", "block"} /\ Init

MCNext ==
  /\ UNCHANGED question
  /\ \/ question = "replay" /\ Replays!Next
     \/ question = "clock" /\ Clocks!Next
     \/ question = "block" /\ Blocks!Next

MCSpec == MCInit /\ [][MCNext]_<<vars, question>>

\* w1 and k1 are alone wherever they are named.
MCSymmetry == Permutations(Worker) \union Permutations(Key)
=============================================================================

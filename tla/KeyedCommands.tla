--------------------------- MODULE KeyedCommands ---------------------------
(***************************************************************************)
(* What every idempotent command of the application promises: a key that   *)
(* was used belongs to one command for good, and whoever sends that        *)
(* command under that key is given the one answer that is stored, however  *)
(* often, by however many senders at once, and whether or not an earlier   *)
(* answer arrived.                                                         *)
(***************************************************************************)

CONSTANTS Key, Command, Answer, NoReceipt

NoReceiptAssumption == NoReceipt \notin [command : Command, answer : Answer]

VARIABLES
  receipts,  \* what is stored under each key
  told       \* the answers that were given: key, command and answer

vars == <<receipts, told>>

Receipt == [command : Command, answer : Answer]

Init == receipts = [k \in Key |-> NoReceipt] /\ told = {}

\* The command is carried out and its answer stored; the answer may be lost.
First(k, c, a) ==
  /\ receipts[k] = NoReceipt
  /\ receipts' = [receipts EXCEPT ![k] = [command |-> c, answer |-> a]]
  /\ told' \in {told, told \union {<<k, c, a>>}}

\* The stored answer is given again.
Again(k) ==
  /\ receipts[k] # NoReceipt
  /\ told' = told \union {<<k, receipts[k].command, receipts[k].answer>>}
  /\ UNCHANGED receipts

Next ==
  \E k \in Key : Again(k) \/ \E c \in Command, a \in Answer : First(k, c, a)

Spec == Init /\ [][Next]_vars

\* No two answers given under one key differ, or are about different commands.
Agreement ==
  \A s, t \in told : s[1] = t[1] => s = t
=============================================================================

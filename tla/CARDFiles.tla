------------------------------ MODULE CARDFiles ------------------------------
(***************************************************************************)
(* What a memory card promises a program: whenever the power is lost or    *)
(* the card pulled out, the files are those of the last operation that     *)
(* succeeded or, all in one step, those the program has asked for since.   *)
(* An operation that failed may be carried out by a later one, and one     *)
(* that was carried out although it was said to have failed, undone.       *)
(***************************************************************************)
CONSTANT NoFiles      \* the files of a card that was just formatted

VARIABLES
  files,     \* what a restart finds on the card
  asked,     \* what the program wants the card to hold
  kept,      \* what the last operation to succeed left there
  done       \* the last operation has succeeded

vars == <<files, asked, kept, done>>

Init ==
  /\ files = NoFiles /\ asked = NoFiles /\ kept = NoFiles
  /\ done = FALSE

(* The program creates, renames or deletes a file. *)
Ask ==
  /\ done' = FALSE
  /\ UNCHANGED <<files, kept>>

Save ==
  /\ files' \in {files, kept, asked}
  /\ kept' \in {kept, files'}
  /\ kept' # kept => files' = asked
  /\ done' => kept' = asked /\ files' = asked
  /\ UNCHANGED asked

(* What is found is kept, and the rest of what was asked for forgotten.    *)
Restart ==
  /\ files' \in {files, kept, asked}
  /\ asked' = files' /\ kept' = files'
  /\ done' = FALSE

Next == Ask \/ Save \/ Restart

Spec == Init /\ [][Next]_vars
=============================================================================

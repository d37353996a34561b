----------------------------- MODULE DVDCommands -----------------------------
(***************************************************************************)
(* What the DVD driver promises a program: a command it was given is       *)
(* answered by one call of its callback, in the step in which it leaves    *)
(* the driver, and by what became of it: only a command that is all        *)
(* transferred has ended, only after an error is one answered as failed,   *)
(* and only one to be cancelled, that waits or waits for the cover is      *)
(* answered as cancelled.  Commands are taken up one at a time.            *)
(*                                                                         *)
(* The exceptions are the driver's own.  Those that wait are dropped       *)
(* without an answer when a boot command finds the cover closed, and by    *)
(* the reset, which also takes the callback of the one in execution.  And  *)
(* one that was taken up with the motor stopped is still marked as waiting *)
(* until the drive works on it: cancelled then, it is answered at once,    *)
(* stays in execution, and is answered again.                              *)
(***************************************************************************)
CONSTANTS
  Block,
  Command,      \* what the program issues each block for
  Boot,         \* commands of the boot program
  DmaCommand,   \* those that transfer something
  Nobody, NoResult

VARIABLES
  given,        \* the blocks to be answered
  result,       \* the last answer since the block was given, or NoResult
  command,      \* what it was given for
  partial,      \* the blocks of which something is left to transfer
  current,      \* the one in execution, or Nobody
  phase,        \* how it fares: "waiting", "cover" (awaited), "going"; or "none"
  canceling,    \* one is to be cancelled once it can be
  broken,       \* an error was fatal
  resetting     \* the reset was asked for

flags == <<canceling, broken, resetting>>
vars == <<given, result, command, partial, current, phase, flags>>

Init ==
  /\ given = {} /\ partial = {}
  /\ result = [b \in Block |-> NoResult]
  /\ command = [b \in Block |-> "READ"]
  /\ current = Nobody /\ phase = "none"
  /\ ~canceling /\ ~broken /\ ~resetting

Answered(b, r) == result' = IF b \in given THEN [result EXCEPT ![b] = r] ELSE result

(* The block in execution leaves, or one that was just taken up.           *)
Leaves(b) ==
  /\ IF current = Nobody THEN b \in given ELSE b = current
  /\ current' = Nobody /\ phase' = "none"
  /\ partial' \subseteq partial
  /\ UNCHANGED <<command, resetting>>

LeavesAlone(b) == Leaves(b) /\ given' = given \ {b}

-----------------------------------------------------------------------------
Give(b, c) ==
  /\ b \notin given /\ b # current
  /\ given' = given \cup {b}
  /\ result' = [result EXCEPT ![b] = NoResult]
  /\ command' = [command EXCEPT ![b] = c]
  /\ partial' = partial \ {b} \/ (c \in DmaCommand /\ partial' = partial \cup {b})
  /\ UNCHANGED <<current, phase, flags>>

Take(b) ==
  /\ current = Nobody /\ b \in given /\ ~broken
  /\ current' = b /\ phase' \in {"waiting", "cover", "going"}
  /\ partial' \subseteq partial
  /\ UNCHANGED <<given, result, command, flags>>

(* A chunk is transferred, an error is handled, the cover awaited ...      *)
GoOn ==
  /\ phase' = phase \/ (current # Nobody /\ phase' \in {"cover", "going"})
  /\ partial' \subseteq partial
  /\ UNCHANGED <<given, result, command, current, flags>>

(* Only a command that transfers nothing ends without being executed.      *)
Ended(b) ==
  /\ LeavesAlone(b) /\ Answered(b, "ended")
  /\ ~broken /\ b \notin partial'
  /\ current = Nobody => command[b] \in DmaCommand
  /\ UNCHANGED <<canceling, broken>>

(* INITSTREAM, when the stream before it is to end by itself               *)
Ignored(b) ==
  /\ LeavesAlone(b) /\ Answered(b, "ignored")
  /\ b = current /\ command[b] = "INITSTREAM" /\ ~broken
  /\ UNCHANGED <<canceling, broken>>

(* The error of the command in execution is fatal, or one was before.      *)
Failed(b) ==
  /\ LeavesAlone(b) /\ Answered(b, "fatal")
  /\ broken' /\ (current = Nobody => broken)
  /\ canceling' => canceling

CoverClosed(b) ==
  /\ Leaves(b) /\ Answered(b, "cover closed")
  /\ command[b] \in Boot /\ ~broken
  /\ given' = {}
  /\ UNCHANGED <<canceling, broken>>

-----------------------------------------------------------------------------
AskToCancel ==
  /\ current # Nobody /\ ~canceling /\ canceling'
  /\ UNCHANGED <<given, result, command, partial, current, phase, broken, resetting>>

Canceled(b) ==
  /\ LeavesAlone(b) /\ Answered(b, "canceled")
  /\ b = current /\ canceling /\ ~canceling'
  /\ UNCHANGED broken

CanceledAtCover(b) ==
  /\ LeavesAlone(b) /\ Answered(b, "canceled")
  /\ b = current /\ phase = "cover"
  /\ UNCHANGED <<canceling, broken>>

CanceledInQueue(b) ==
  /\ b \in given /\ b # current
  /\ given' = given \ {b} /\ Answered(b, "canceled")
  /\ UNCHANGED <<command, partial, current, phase, flags>>

CanceledTooEarly(b) ==
  /\ b \in given /\ b = current
  /\ phase = "waiting" /\ result[b] = NoResult
  /\ phase' = "going" /\ Answered(b, "canceled")
  /\ UNCHANGED <<given, command, partial, current, flags>>

(* The one in execution is answered still if it is being cancelled.        *)
Reset ==
  /\ ~resetting /\ resetting'
  /\ given' = IF canceling THEN given \cap {current} ELSE {}
  /\ UNCHANGED <<result, command, partial, current, phase, canceling, broken>>

-----------------------------------------------------------------------------
Next ==
  \/ GoOn \/ AskToCancel \/ Reset
  \/ \E b \in Block :
       \/ \E c \in Command[b] : Give(b, c)
       \/ Take(b)
       \/ Ended(b) \/ Ignored(b) \/ Failed(b) \/ CoverClosed(b)
       \/ Canceled(b) \/ CanceledAtCover(b) \/ CanceledInQueue(b) \/ CanceledTooEarly(b)

Spec == Init /\ [][Next]_vars
=============================================================================

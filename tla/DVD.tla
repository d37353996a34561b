---------------------------------- MODULE DVD ----------------------------------
(***************************************************************************)
(* The DVD driver (src/src/dvd/dvd.c): command blocks wait in queues; one  *)
(* is executed, by a chain of commands to the drive, waits for the cover   *)
(* and waits for an alarm, each continued by the callback of an interrupt. *)
(*                                                                         *)
(* A function of dvd.c is an operator that takes the record s of all       *)
(* statics and returns it changed.  A call back into the program ends a    *)
(* step: what the driver does when it returns is left on the stack s.todo. *)
(* Callbacks of the program, and threads when the stack is empty, call the *)
(* API.  Interrupts are disabled but between two such calls of threads.    *)
(*                                                                         *)
(* The build is the debug one: issueCommand asserts that the block is not  *)
(* in use, so that CurrCommand is the command of the block in execution.   *)
(* ResetRequired, which is only reported, is left out.                     *)
(***************************************************************************)
EXTENDS DVDQueue, DVDLow, Sequences, TLC

CONSTANTS
  Command,     \* what the program issues each block for
  ReadPrio,    \* the priorities of its reads
  ChunkCounts, \* a read is of that many times 0x80000 bytes, or part of it
  Dummy,       \* DummyCommandBlock
  MaxFaults,   \* bound on the failures of the drive and wrong disks
  MaxCalls     \* bound on the calls the callbacks make before the driver is done

ASSUME DVDAssumption ==
  /\ MaxPrio >= 2 /\ ReadPrio \subseteq Prio
  /\ ChunkCounts \subseteq 0..4096
  /\ Dummy \notin Block \cup {Nil}
  /\ MaxFaults \in Nat /\ MaxCalls \in Nat

VARIABLE
  s   \* of dvdqueue.c and dvdlow.c: q, and the fields DVDLow names; of dvd.c:
      \*   executing (Nil for NULL), PauseFlag, PausingFlag, FatalErrorFlag,
      \*   Canceling, CancelCallback, ResumeFromHere, MotorState, AutoFinishing,
      \*   NumInternalRetry (3 stands for more), LastState
      \*   resetAlarm        ResetAlarm is set
      \* of the command blocks: state, command, and
      \*   left              chunks of a read to transfer; for INITSTREAM, 1
      \*                     while the status of the stream is asked for
      \*   callback          is not NULL
      \* of the program:
      \*   todo              the stack of what is left to do, its top first
      \*   told              what each block's callback was last called with
      \*   calls             how many calls callbacks made so far
      \*   reset             "no", "called" by OSExec or "asked": __DVDPrepareResetAsync
      \*   Prepared          its callback was called (OSExec.c)
      \*   faults            how often the drive has failed
      \*   target            the block a cancellation is asked for, and its command

vars == s

Boot == {"BSREAD", "READID", "AUDIO_BUFFER_CONFIG", "BS_CHANGE_DISK"}
Reads == {"READ", "BSREAD"}
DmaCommand == {"READ", "BSREAD", "READID", "INQUIRY"}     \* IsDmaCommand
DiskChange == {"CHANGE_DISK", "BS_CHANGE_DISK"}
StopMotor == "UNK_16"                                     \* of DVDStopMotorAsync

(* The states in which a command waits for the cover to be closed *)
AwaitsCover == {"NO_DISK", "COVER_OPEN", "WRONG_DISK", "MOTOR_STOPPED", "RETRY"}
Over == {"END", "FATAL_ERROR", "CANCELED"}
States == AwaitsCover \cup Over \cup {"BUSY", "WAITING", "COVER_CLOSED", "IGNORED"}

Results == {"ended", "fatal", "ignored", "canceled", "cover closed"}   \* 0 and more, -1, -2, -3, -4

NoTarget == <<Nil, "none">>

(* DVDInit *)
Init ==
  s = [q |-> ClearWaitingQueue([next |-> NoLinks, prev |-> NoLinks]),
       Callback |-> "none", StopAtNextInt |-> FALSE, WaitingCoverClose |-> FALSE,
       ResetOccurred |-> FALSE, drive |-> "idle", timeout |-> FALSE, coverInt |-> FALSE,
       executing |-> Nil, PauseFlag |-> FALSE, PausingFlag |-> FALSE, FatalErrorFlag |-> FALSE,
       Canceling |-> FALSE, CancelCallback |-> "program", ResumeFromHere |-> 0,
       MotorState |-> 0, AutoFinishing |-> FALSE, NumInternalRetry |-> 0,
       LastState |-> "stateBusy", resetAlarm |-> FALSE,
       state |-> [b \in Block |-> "END"], command |-> [b \in Block |-> "READ"],
       left |-> [b \in Block |-> 0], callback |-> [b \in Block |-> FALSE],
       todo |-> <<>>, told |-> [b \in Block |-> "nothing"],
       calls |-> 0, reset |-> "no", Prepared |-> FALSE, faults |-> 0, target |-> NoTarget]

Waiting(b) == IsBlockInWaitingQueue(s.q, b)
CommandOf(x) == x.command[x.executing]

-----------------------------------------------------------------------------
(* The end of a command *)

(* The frames are done first, from left to right. *)
First(x, frames) == [x EXCEPT !.todo = frames \o @]

(* if (block->callback) block->callback(result, block) *)
Tell(x, b, result) ==
  IF x.callback[b] THEN First([x EXCEPT !.told[b] = result], <<"program">>) ELSE x

SetState(x, state) == [x EXCEPT !.state[x.executing] = state]

(* finished = executing; executing = &DummyCommandBlock; ...; stateReady() *)
Finished_asksDummy(x, state, result) ==
  First([SetState(x, state) EXCEPT !.executing = Dummy], <<"stateReady">>)

Finished(x, state, result) ==
  Tell(First([SetState(x, state) EXCEPT !.executing = Dummy], <<"stateReady">>), x.executing, result)

FinishedCanceling_keepsFlag(x, state, result) ==
  Tell(First([SetState(x, state) EXCEPT !.executing = Dummy], <<x.CancelCallback, "stateReady">>),
       x.executing, result)

(* The same for a command that is cancelled, or fails while it is *)
FinishedCanceling(x, state, result) ==
  Tell(First([SetState(x, state) EXCEPT !.executing = Dummy, !.Canceling = FALSE, !.CancelCallback = "program", !.target = NoTarget],
             <<x.CancelCallback, "stateReady">>), x.executing, result)

FinishedMaybeCanceling(x, state, result) ==
  IF x.Canceling THEN FinishedCanceling(x, state, result) ELSE Finished(x, state, result)

(* if (CheckCancel(resume)) return; otherwise what follows *)
CheckCancel(x, resume, otherwise) ==
  IF x.Canceling THEN FinishedCanceling([x EXCEPT !.ResumeFromHere = resume], "CANCELED", "canceled")
  ELSE otherwise

-----------------------------------------------------------------------------
(* Errors *)

StateError(x) == Send(x, "busy", "cbForStateError")

DVDReset(x) == [DVDLowReset(x) EXCEPT !.ResumeFromHere = 0]

(* cbForStateError but for the timeout *)
FatalError(x) == FinishedMaybeCanceling([x EXCEPT !.FatalErrorFlag = TRUE], "FATAL_ERROR", "fatal")

StateTimeout(x) == FatalError(DVDReset(x))

StateGettingError(x) == Send(x, "busy", "cbForStateGettingError")

StateGoToRetry(x) == Send(x, "busy", "cbForStateGoToRetry")

StateMotorStopped(x, state) ==
  DVDLowWaitCoverClose(SetState(x, state), "cbForStateMotorStopped")

(* What the drive may answer a request for the error with: errors due to   *)
(* the cover, by the status that comes with them, a fatal one, one after   *)
(* which the motor is stopped, another, and the one before again           *)
CoverError == {"open", "closed", "no disk", "other status"}
CodeError == {"unrecovered", "other", "repeated"}
ErrorCode == CoverError \cup CodeError \cup {"fatal"}

ResumeAt(e) == CASE e = "open" -> 4 [] e = "closed" -> 6 [] e = "no disk" -> 3 [] OTHER -> 5

CountRetry(x) == [x EXCEPT !.NumInternalRetry = Min({@ + 1, 3})]

CategorizeError(x, e) ==
  LET n == CountRetry(x).NumInternalRetry IN
  CASE e = "fatal" -> 1
    [] e \in CoverError -> 0
    [] e \in CodeError /\ n = 2 -> IF e = "repeated" THEN 1 ELSE 2
    [] e \in CodeError /\ n # 2 -> IF e = "unrecovered" \/ CommandOf(x) = "READID" THEN 2 ELSE 3

-----------------------------------------------------------------------------
(* The states of a command in execution *)

(* stateBusy *)
StateBusy(x) ==
  LET b == x.executing
      y == [SetState(x, "BUSY") EXCEPT !.LastState = "stateBusy"]
      c == CommandOf(x)
  IN
  CASE c \in Reads /\ x.left[b] = 0 -> Finished(y, "END", "ended")
    [] c \in Reads /\ x.left[b] > 0 -> Send(y, "read", "cbForStateBusy")
    [] c = "INITSTREAM" ->
         Send([y EXCEPT !.left[b] = IF x.AutoFinishing THEN 1 ELSE 0], "busy", "cbForStateBusy")
    [] c = "STOP_STREAM_AT_END" -> Send([y EXCEPT !.AutoFinishing = TRUE], "busy", "cbForStateBusy")
    [] OTHER -> Send(y, "busy", "cbForStateBusy")

StateCoverClosed_noAlarm(x) ==
  IF CommandOf(x) \in Boot
  THEN Tell(First([x EXCEPT !.q = ClearWaitingQueue(@), !.executing = Dummy], <<"stateReady">>),
            x.executing, "cover closed")
  ELSE [DVDReset(x) EXCEPT !.MotorState = 0]

(* stateCoverClosed: a boot command ends, in the state it has, and those   *)
(* that wait are dropped; another one goes on when the drive was reset.    *)
StateCoverClosed(x) ==
  IF CommandOf(x) \in Boot
  THEN Tell(First([x EXCEPT !.q = ClearWaitingQueue(@), !.executing = Dummy], <<"stateReady">>),
            x.executing, "cover closed")
  ELSE [DVDReset(x) EXCEPT !.MotorState = 0, !.resetAlarm = TRUE]

StateCoverClosedCMD(x) ==
  Send([x EXCEPT !.LastState = "stateCoverClosed_CMD"], "busy", "cbForStateCoverClosed")

StateCheckID2a(x) == Send([x EXCEPT !.LastState = "stateCheckID2a"], "busy", "cbForStateCheckID2a")
StateCheckID2(x) == Send(x, "read", "cbForStateCheckID2")
StateReadingFST(x) == Send([x EXCEPT !.LastState = "stateReadingFST"], "read", "cbForStateReadingFST")
StateCheckID3(x) == Send([x EXCEPT !.LastState = "stateCheckID3"], "busy", "cbForStateCheckID3")

StateCheckID(x, rightDisk) ==
  CASE ~rightDisk -> Send(x, "busy", "cbForStateCheckID1")
    [] rightDisk /\ CommandOf(x) = "CHANGE_DISK" -> StateCheckID2a(SetState(x, "BUSY"))
    [] rightDisk /\ CommandOf(x) # "CHANGE_DISK" -> StateCheckID3(x)

(* LastState(executing) *)
Again(x) ==
  CASE x.LastState = "stateBusy" -> StateBusy(x)
    [] x.LastState = "stateCoverClosed_CMD" -> StateCoverClosedCMD(x)
    [] x.LastState = "stateCheckID2a" -> StateCheckID2a(x)
    [] x.LastState = "stateReadingFST" -> StateReadingFST(x)
    [] x.LastState = "stateCheckID3" -> StateCheckID3(x)

(* stateReady, after a command that was cancelled on the way, goes on      *)
(* where that one was; ResumeFromHere is cleared last.                     *)
Resumed(x) ==
  LET r == x.ResumeFromHere
      y == First(x, <<"resumed">>)
  IN
  CASE r = 2 -> StateMotorStopped(y, "RETRY")
    [] r = 3 -> StateMotorStopped(y, "NO_DISK")
    [] r = 4 -> StateMotorStopped(y, "COVER_OPEN")
    [] r \in {1, 6, 7} -> StateCoverClosed(SetState(y, "COVER_CLOSED"))
    [] r = 5 -> StateError(y)

StateReady(x) ==
  LET y == [x EXCEPT !.q = Popped(@), !.executing = FirstWaiting(x.q)] IN
  CASE ~HasWaiting(x.q) -> [x EXCEPT !.executing = Nil]
    [] HasWaiting(x.q) /\ x.PauseFlag -> [x EXCEPT !.PausingFlag = TRUE, !.executing = Nil]
    [] HasWaiting(x.q) /\ ~x.PauseFlag /\ x.FatalErrorFlag -> Finished(y, "FATAL_ERROR", "fatal")
    [] HasWaiting(x.q) /\ ~x.PauseFlag /\ ~x.FatalErrorFlag ->
         IF x.ResumeFromHere # 0 THEN Resumed(y)
         ELSE IF x.MotorState = 0 THEN StateBusy(y) ELSE StateCoverClosed(y)

-----------------------------------------------------------------------------
(* The callbacks of the low-level interface.  The drive's answer is one of *)
(* Answers(callback): an error, or whether something is so.                *)
Answers(callback) ==
  CASE callback = "cbForStateGettingError" -> ErrorCode
    [] callback \in {"cbForStateBusy", "cbForStateCoverClosed"} -> {"yes", "no"}
    [] OTHER -> {"yes"}

NoRetries(x) == [x EXCEPT !.NumInternalRetry = 0]

(* transferredSize is increased; the drive may fail after the whole chunk. *)
Transferred(x, cause, answer) ==
  IF CommandOf(x) \in DmaCommand /\ ("TC" \in cause \/ answer = "yes")
  THEN [x EXCEPT !.left[x.executing] = @ - 1] ELSE x

(* cbForStateBusy when the drive has done what it was told *)
BusyDone(x, answer) ==
  LET b == x.executing
      c == CommandOf(x)
  IN
  IF c = StopMotor THEN Finished([x EXCEPT !.MotorState = 1], "END", "ended")
  ELSE CheckCancel(x, 0,
    CASE c \in DmaCommand /\ x.left[b] > 0 -> StateBusy(x)
      [] c = "INITSTREAM" /\ x.left[b] = 1 ->
           IF answer = "yes" THEN Finished(x, "IGNORED", "ignored")
           ELSE Send([x EXCEPT !.AutoFinishing = FALSE, !.left[b] = 0], "busy", "cbForStateBusy")
      [] OTHER -> Finished(x, "END", "ended"))

CbForStateBusy(x, cause, answer) ==
  LET y == Transferred(x, cause, answer)
      c == CommandOf(x)
  IN
  CASE c \in DiskChange ->
         IF "DE" \in cause THEN StateError(x)
         ELSE CheckCancel(NoRetries(x), 7, StateMotorStopped(NoRetries(x), "MOTOR_STOPPED"))
    [] c \notin DiskChange /\ "BR" \in cause -> FinishedCanceling(y, "CANCELED", "canceled")
    [] c \notin DiskChange /\ cause = {"TC"} -> BusyDone(NoRetries(y), answer)
    [] c \notin DiskChange /\ cause = {"DE"} ->
         IF c = "INQUIRY" THEN StateError(y)
         ELSE IF c \in DmaCommand /\ y.left[y.executing] = 0
         THEN CheckCancel(y, 0, Finished(y, "END", "ended"))
         ELSE StateGettingError(y)

CbForStateGettingError(x, cause, e) ==
  LET category == CategorizeError(x, e)
      y == IF e \in CoverError \cup {"fatal"} THEN x ELSE CountRetry(x)
      resume == IF category = 0 THEN ResumeAt(e) ELSE 0
  IN
  IF "DE" \in cause THEN StateError(x)
  ELSE IF category = 1 THEN StateError(y)
  ELSE CheckCancel(y, resume,
    CASE category = 2 -> StateGoToRetry(y)
      [] category = 3 -> Again(y)
      [] category = 0 ->
           CASE e = "open" -> StateMotorStopped(y, "COVER_OPEN")
             [] e = "closed" -> StateCoverClosed(SetState(y, "COVER_CLOSED"))
             [] e = "no disk" -> StateMotorStopped(y, "NO_DISK")
             [] e = "other status" -> StateError(y))

CbForStateGoToRetry(x, cause) ==
  IF "DE" \in cause THEN StateError(x)
  ELSE CheckCancel(NoRetries(x), 2, StateMotorStopped(NoRetries(x), "RETRY"))

CbForStateCheckID1(x, cause) ==
  IF "DE" \in cause THEN StateError(x)
  ELSE CheckCancel(NoRetries(x), 1, StateMotorStopped(NoRetries(x), "WRONG_DISK"))

CbForStateCheckID3(x) == CheckCancel(NoRetries(x), 0, StateBusy(NoRetries(x)))

(* The disk change has ended, whether it was to be cancelled or not. *)
CbForStateReadingFST(x) == Finished(NoRetries(x), "END", "ended")

(* The other callbacks, when the drive has done what it was told *)
CheckCallback(x, callback, answer) ==
  CASE callback = "cbForStateCheckID2a" -> StateCheckID2(NoRetries(x))
    [] callback = "cbForStateCheckID2" -> StateReadingFST(NoRetries(x))
    [] callback = "cbForStateReadingFST" -> CbForStateReadingFST(x)
    [] callback = "cbForStateCheckID3" -> CbForStateCheckID3(x)
    [] callback = "cbForStateCoverClosed" -> StateCheckID(NoRetries(x), answer = "yes")

(* The callback for an interrupt of the drive *)
DriveCallback(x, callback, cause, answer) ==
  CASE callback = "cbForStateBusy" -> CbForStateBusy(x, cause, answer)
    [] callback = "cbForStateGettingError" -> CbForStateGettingError(x, cause, answer)
    [] callback = "cbForStateGoToRetry" -> CbForStateGoToRetry(x, cause)
    [] callback = "cbForStateCheckID1" -> CbForStateCheckID1(x, cause)
    [] callback = "cbForStateError" -> FatalError(x)
    [] OTHER -> IF "DE" \in cause THEN StateGettingError(x) ELSE CheckCallback(x, callback, answer)

CbForStateMotorStopped(x) ==
  StateCoverClosed(SetState([x EXCEPT !.coverInt = FALSE], "COVER_CLOSED"))

-----------------------------------------------------------------------------
(* The API *)

(* The assertion of issueCommand *)
InUse(b) == s.executing = b \/ (s.state[b] = "WAITING" /\ Waiting(b))

(* The priority a command is issued with, but for READ *)
Stream == {"INITSTREAM", "CANCELSTREAM", "STOP_STREAM_AT_END",
           "REQUEST_AUDIO_ERROR", "REQUEST_PLAY_ADDR", "REQUEST_START_ADDR", "REQUEST_LENGTH"}
Prios(c) == IF c = "READ" THEN ReadPrio ELSE IF c \in Stream THEN {1} ELSE {2}
Chunks(c) == IF c \in Reads THEN ChunkCounts ELSE IF c \in DmaCommand THEN {1} ELSE {0}

(* issueCommand, and the assignments of its callers to the block.          *)
(* stateReady, which it calls, is the next step.                           *)
IssueCommand(x, b, c, chunks, prio) ==
  LET y == [x EXCEPT !.command[b] = c, !.left[b] = chunks, !.callback[b] = TRUE, !.told[b] = "nothing",
                     !.state[b] = "WAITING", !.q = Pushed(@, prio, b)]
  IN  IF x.executing = Nil /\ ~x.PauseFlag THEN First(y, <<"stateReady">>) ELSE y

DVDPause(x) == [x EXCEPT !.PauseFlag = TRUE, !.PausingFlag = @ \/ x.executing = Nil]

DVDResume(x) ==
  LET y == [x EXCEPT !.PauseFlag = FALSE, !.PausingFlag = FALSE] IN
  IF x.PausingFlag THEN First(y, <<"stateReady">>) ELSE y

(* Canceling = TRUE, unless it is already: then DVDCancelAsync fails. *)
Cancel(x, b, who) ==
  IF x.Canceling THEN x ELSE [x EXCEPT !.Canceling = TRUE, !.CancelCallback = who, !.target = <<b, x.command[b]>>]

ResumeAfter(state) ==
  CASE state = "NO_DISK" -> 3 [] state = "COVER_OPEN" -> 4 [] state = "WRONG_DISK" -> 1
    [] state = "RETRY" -> 2 [] state = "MOTOR_STOPPED" -> 7

(* DVDCancelAsync with the callback who *)
DVDCancelAsync(x, b, who) ==
  LET st == IF b = Dummy THEN "END" ELSE x.state[b] IN
  CASE st \in Over -> First(x, who)
    [] st = "BUSY" ->
         IF x.command[b] \in Reads /\ ~x.Canceling THEN DVDLowBreak(Cancel(x, b, who[1])) ELSE Cancel(x, b, who[1])
    [] st = "WAITING" ->
         Tell(First([x EXCEPT !.q = Dequeued(@, b), !.state[b] = "CANCELED"], who), b, "canceled")
    [] st = "COVER_CLOSED" ->
         IF x.command[b] \in Boot THEN First(x, who) ELSE Cancel(x, b, who[1])
    [] st \in AwaitsCover ->
         Tell(First([DVDLowClearCallback(x) EXCEPT !.ResumeFromHere = ResumeAfter(st),
                                                   !.executing = Dummy, !.state[b] = "CANCELED"],
                    who \o <<"stateReady">>), b, "canceled")
    [] st = "IGNORED" -> x

(* The callback of DVDCancelAllAsync: OSExec's, or the program's *)
Who(x) == IF x.reset = "asked" THEN "prepared" ELSE "program"

(* DVDCancelAllAsync: those that wait, then the one in execution *)
DVDCancelAllAsync(x) == First(DVDPause(x), <<"cancelWaiting", "cancelExecuting", "DVDResume">>)

CancelWaiting(x) ==
  LET b == FirstWaiting(x.q) IN
  IF HasWaiting(x.q)
  THEN DVDCancelAsync(First([x EXCEPT !.q = Popped(@)], <<"cancelWaiting">>), b, <<>>)
  ELSE x

CancelExecuting(x) ==
  IF x.executing = Nil THEN First(x, <<Who(x)>>) ELSE DVDCancelAsync(x, x.executing, <<Who(x)>>)

DVDPrepareResetAsync_cancelsAgain(x) ==
  DVDCancelAllAsync([x EXCEPT !.q = ClearWaitingQueue(@), !.reset = "asked"])

(* __DVDPrepareResetAsync, which is called last of all *)
DVDPrepareResetAsync(x) ==
  LET y == [x EXCEPT !.q = ClearWaitingQueue(@), !.reset = "asked"] IN
  IF x.Canceling THEN [y EXCEPT !.CancelCallback = "prepared"]
  ELSE DVDCancelAllAsync(IF x.executing = Nil THEN y ELSE [y EXCEPT !.callback[x.executing] = FALSE])

-----------------------------------------------------------------------------
(* Once nothing is left to do, callbacks may call again. *)
Become(x) == s' = IF x.todo = <<>> THEN [x EXCEPT !.calls = 0] ELSE x

(* OSExec lets no interrupt in from DVDResume to __DVDPrepareResetAsync. *)
Top ==
  CASE s.todo # <<>> -> Head(s.todo)
    [] s.todo = <<>> /\ s.reset = "called" -> "OSExec"
    [] s.todo = <<>> /\ s.reset # "called" -> "thread"
Return(x) == [x EXCEPT !.todo = Tail(@)]

(* A program does not cancel what the driver has dropped from its queues   *)
(* but left in the state WAITING.                                          *)
Dropped(b) == s.state[b] = "WAITING" /\ s.executing # b /\ ~Waiting(b)

(* A call of a thread, or the last one of a callback *)
ProgramCalls ==
  LET x == IF Top = "thread" THEN s ELSE [Return(s) EXCEPT !.calls = @ + 1] IN
  /\ (Top = "thread" /\ s.reset = "no") \/ (Top = "program" /\ s.calls < MaxCalls)
  /\ \/ \E b \in Block : \E c \in Command[b] : \E chunks \in Chunks(c), prio \in Prios(c) :
          ~InUse(b) /\ Become(IssueCommand(x, b, c, chunks, prio))
     \/ \E b \in Block : ~Dropped(b) /\ Become(DVDCancelAsync(x, b, <<"program">>))
     \/ s.reset # "asked" /\ Become(DVDCancelAllAsync(x))
     \/ Become(DVDPause(x))
     \/ Become(DVDResume(x))

OSExec == Top = "thread" /\ s.reset = "no" /\ Become(DVDResume([s EXCEPT !.reset = "called"]))

(* Callbacks return and the driver goes on. *)
Continue ==
  \/ Top = "program" /\ Become(Return(s))
  \/ Top = "prepared" /\ Become([Return(s) EXCEPT !.Prepared = TRUE])
  \/ Top = "stateReady" /\ Become(StateReady(Return(s)))
  \/ Top = "resumed" /\ Become([Return(s) EXCEPT !.ResumeFromHere = 0])
  \/ Top = "cancelWaiting" /\ Become(CancelWaiting(Return(s)))
  \/ Top = "cancelExecuting" /\ Become(CancelExecuting(Return(s)))
  \/ Top = "DVDResume" /\ Become(DVDResume(Return(s)))
  \/ Top = "OSExec" /\ Become(DVDPrepareResetAsync(s))

(* The interrupt of the drive at the end of a command: done or failed.     *)
DriveInterrupt ==
  /\ Top = "thread" /\ s.drive # "idle"
  /\ \E end \in {"TC", "DE"}, answer \in Answers(s.Callback) :
       LET fault == end = "DE" \/ (s.Callback = "cbForStateCoverClosed" /\ answer = "no")
           x == [s EXCEPT !.faults = IF fault THEN @ + 1 ELSE @]
       IN  /\ x.faults <= MaxFaults
           /\ Become(DriveCallback(DriveDone(x), s.Callback, Cause(s, end), answer))

(* The cover was closed. *)
CoverInterrupt ==
  /\ Top = "thread" /\ s.coverInt
  /\ \E recent \in BOOLEAN :
       LET x == CoverDone(s, recent) IN
       IF s.WaitingCoverClose /\ ~CoverIsForReset(s, recent) THEN Become(CbForStateMotorStopped(x)) ELSE Become(x)

(* AlarmHandler, 1150 ms after the cover was closed *)
ResetAlarm ==
  /\ Top = "thread" /\ s.resetAlarm
  /\ Become(StateCoverClosedCMD(DVDReset([s EXCEPT !.resetAlarm = FALSE])))

(* AlarmHandlerForTimeout: every callback calls stateTimeout. *)
Timeout ==
  /\ Top = "thread" /\ s.timeout /\ s.faults < MaxFaults
  /\ Become(IF s.Callback = "none" THEN TimedOut(s) ELSE StateTimeout([TimedOut(s) EXCEPT !.faults = @ + 1]))

Next == ProgramCalls \/ OSExec \/ Continue \/ DriveInterrupt \/ CoverInterrupt \/ ResetAlarm \/ Timeout

Spec == Init /\ [][Next]_vars

(* Callbacks return; the drive answers, alarms go off and the cover is     *)
(* closed again, and their interrupts are taken as soon as no call of a    *)
(* thread keeps them disabled.                                             *)
FairSpec ==
  /\ Spec
  /\ WF_vars(Continue)
  /\ SF_vars(DriveInterrupt)
  /\ SF_vars(ResetAlarm)
  /\ SF_vars(CoverInterrupt /\ s.WaitingCoverClose)

-----------------------------------------------------------------------------
(* The types, and the queues: links agree both ways, and a block waits in  *)
(* one queue at most, is marked as waiting there, and is not the one in    *)
(* execution, though it may be issued again by the callback of its end.    *)
(* This holds of programs that cancel no block the driver has dropped:     *)
(* DVDCancelAsync would take it out of a queue it is no longer in.         *)
QueuesWellFormed ==
  /\ s.q \in [next : [Node -> Node \cup {Nil}], prev : [Node -> Node \cup {Nil}]]
  /\ s.state \in [Block -> States] /\ s.told \in [Block -> Results \cup {"nothing"}]
  /\ s.executing \in Block \cup {Nil, Dummy}
  /\ s.left \in [Block -> 0..Max(ChunkCounts \cup {1})]
  /\ s.ResumeFromHere \in 0..7 /\ s.drive \in {"idle", "read", "busy"}
  /\ \A p \in Prio :
       /\ \A n \in WaitingIn(s.q, p) \cup {p} :
            s.q.prev[s.q.next[n]] = n /\ s.q.next[s.q.prev[n]] = n
       /\ \A b \in WaitingIn(s.q, p) : s.state[b] = "WAITING" /\ s.executing # b
       /\ \A p2 \in Prio \ {p} : WaitingIn(s.q, p) \cap WaitingIn(s.q, p2) = {}

(* The ASSERTs of the callbacks (dvd.c:152 and on, 1645) rest on this: the *)
(* command in execution is continued by one thing and no more, an          *)
(* interrupt of the drive, with its timeout set, the cover, the alarm      *)
(* after a reset, or stateReady when it has ended, and the drive is idle   *)
(* whenever it is sent a command.  A read is not disturbed by the cover,   *)
(* whose interrupt would stop a break.                                     *)
OneContinuation ==
  LET ways == (IF s.drive # "idle" THEN {"drive"} ELSE {})
                \cup (IF s.WaitingCoverClose THEN {"cover"} ELSE {})
                \cup (IF s.resetAlarm THEN {"alarm"} ELSE {})
      ready == Cardinality({i \in DOMAIN s.todo : s.todo[i] = "stateReady"})
  IN
  /\ s.executing \in Block => Cardinality(ways) = 1 /\ ready = 0
  /\ s.executing = Dummy => ways = {} /\ ready = 1
  /\ s.executing = Nil => ways = {} /\ ready <= 1
  /\ s.timeout <=> s.drive # "idle"
  /\ s.WaitingCoverClose => s.coverInt /\ ~s.ResetOccurred
  /\ s.WaitingCoverClose <=> s.Callback = "cbForStateMotorStopped"
  /\ s.drive = "idle" /\ ~s.WaitingCoverClose => s.Callback = "none"
  /\ s.drive = "read" => ~s.coverInt
  /\ \A b \in Block : s.state[b] \in AwaitsCover => s.executing = b /\ s.WaitingCoverClose

(* Of the state the driver promises: the commands to be answered, those    *)
(* that have something to transfer, the one in execution and how it fares  *)
InQueues(q) == {b \in Block : IsBlockInWaitingQueue(q, b)}
Given(x) == {b \in Block : x.callback[b] /\ (x.executing = b \/ b \in InQueues(x.q))}
Partial(x) == {b \in Block : x.command[b] \in DmaCommand /\ x.left[b] # 0}
Current(x) == IF x.executing \in Block THEN x.executing ELSE Nil
Phase(x) ==
  CASE x.executing \notin Block -> "none"
    [] x.executing \in Block /\ x.state[x.executing] = "WAITING" -> "waiting"
    [] x.executing \in Block /\ x.state[x.executing] \in AwaitsCover -> "cover"
    [] x.executing \in Block /\ x.state[x.executing] \notin AwaitsCover \cup {"WAITING"} -> "going"

(* No answer is lost, doubled or wrong, but for the exceptions that        *)
(* DVDCommands names: a command is answered in the step in which it leaves *)
(* the driver, by what became of it.                                       *)
Commands == INSTANCE DVDCommands WITH
  NoResult <- "nothing", Nobody <- Nil,
  given <- Given(s), result <- s.told, command <- s.command, partial <- Partial(s),
  current <- Current(s), phase <- Phase(s), canceling <- s.Canceling,
  broken <- s.FatalErrorFlag, resetting <- (s.reset = "asked")

ImplementsCommands == Commands!Spec

(* A command in execution ends as cancelled only if it was the one the     *)
(* program asked to cancel, or that one was a disk change or a stop of the *)
(* motor: these end without a look at Canceling once they cannot be        *)
(* stopped, and the next command is cancelled in their place.              *)
CancelHitsTarget ==
  [][\A b \in Block :
       s.executing = b /\ s'.executing = Dummy /\ s'.state[b] = "CANCELED" /\ s.state[b] \notin AwaitsCover =>
         s.target[1] = b \/ s.target[2] \in {"CHANGE_DISK", StopMotor}]_vars

(* No command stays in execution for ever, once the drive fails no more:   *)
(* it retries, waits for the cover and the alarm, and ends.                *)
CommandsEnd == \A b \in Block : s.executing = b ~> s.executing # b

(* OSExec, whose loop waits for the callback of __DVDPrepareResetAsync,    *)
(* goes on, unless a cancellation was left over by a disk change or a stop *)
(* of the motor that ended nevertheless: then nothing calls it, and only   *)
(* DVDCheckDisk, which the loop asks too, can end it by a hot reset.       *)
ResetPrepared ==
  s.reset = "asked" ~> s.Prepared \/ (s.executing = Nil /\ s.Canceling)

(* issueCommand (dvd.c:982) asserts that the block is not in use: a       *)
(* program that was called back with the end of its command may reuse it.  *)
ReusableOnceTold ==
  \A b \in Block : s.told[b] # "nothing" => ~InUse(b)
=============================================================================

-------------------------------- MODULE DVDLow --------------------------------
(***************************************************************************)
(* The DVD drive and its low-level interface (src/src/dvd/dvdlow.c).  A    *)
(* function sends the drive one command, or waits for the cover, and keeps *)
(* the callback of the interrupt, or of the alarm should the drive not     *)
(* answer.  The operators work on a record s of the statics of the driver: *)
(*   Callback, StopAtNextInt, WaitingCoverClose, ResetOccurred             *)
(*   drive     what the drive does: "idle", "read" (LastCommandWasRead),   *)
(*             "busy", or "overrun" when it was sent a command before that *)
(*   timeout   AlarmForTimeout is set                                      *)
(*   coverInt  the mask of the cover interrupt, bit 1 of __DIRegs[1]       *)
(* Breaking is set with StopAtNextInt and lives as long as the handler of  *)
(* that interrupt: it adds nothing.  The work-around for early drives, set *)
(* by nobody (__DVDLowSetWAType(0, 0)), is left out.                       *)
(***************************************************************************)

(* Every function that sends a command; kind tells reads from the others. *)
Send(s, kind, callback) ==
  [s EXCEPT !.Callback = callback,
            !.StopAtNextInt = FALSE,
            !.drive = IF @ = "idle" THEN kind ELSE "overrun",
            !.timeout = TRUE]

DVDLowWaitCoverClose(s, callback) ==
  [s EXCEPT !.Callback = callback,
            !.WaitingCoverClose = TRUE,
            !.StopAtNextInt = FALSE,
            !.coverInt = TRUE]

(* The reset of the drive ends what it was doing. *)
DVDLowReset(s) == [s EXCEPT !.coverInt = TRUE, !.ResetOccurred = TRUE, !.drive = "idle"]

DVDLowBreak(s) == [s EXCEPT !.StopAtNextInt = TRUE]

DVDLowClearCallback_keepsWaiting(s) == [s EXCEPT !.coverInt = FALSE, !.Callback = "none"]

DVDLowClearCallback(s) ==
  [s EXCEPT !.coverInt = FALSE, !.WaitingCoverClose = FALSE, !.Callback = "none"]

(* __DVDInterruptHandler: what it finds to be the cause when the drive is  *)
(* done or failed ("TC" or "DE"): the break too, asked for during a read.  *)
Cause(s, end) == {end} \cup (IF s.drive = "read" /\ s.StopAtNextInt THEN {"BR"} ELSE {})

(* __DVDInterruptHandler up to the call of the callback, for an interrupt  *)
(* of the drive ...                                                        *)
DriveDone(s) ==
  [s EXCEPT !.drive = "idle", !.StopAtNextInt = FALSE, !.timeout = FALSE, !.ResetOccurred = FALSE,
            !.coverInt = s.WaitingCoverClose, !.WaitingCoverClose = FALSE, !.Callback = "none"]

(* ... and for one of the cover, which is a cause only for who waits.      *)
(* Until 200 ms after a reset it is for ResetCoverCallback.                *)
CoverIsForReset(s, recent) == s.ResetOccurred /\ recent

CoverDone(s, recent) ==
  IF CoverIsForReset(s, recent) THEN [s EXCEPT !.StopAtNextInt = FALSE]
  ELSE IF s.WaitingCoverClose
  THEN [s EXCEPT !.StopAtNextInt = FALSE, !.WaitingCoverClose = FALSE, !.Callback = "none"]
  ELSE [s EXCEPT !.StopAtNextInt = FALSE, !.coverInt = FALSE]

(* AlarmHandlerForTimeout up to the call of the callback *)
TimedOut(s) == [s EXCEPT !.timeout = FALSE, !.Callback = "none"]
=============================================================================

--------------------------------- MODULE MCDVD ---------------------------------
(* The DVD driver with two command blocks: what the program issues them for *)
EXTENDS DVD

CONSTANTS b1, b2

(* A disk change and reads: all of the game's recovery from errors *)
MCGame == b1 :> {"CHANGE_DISK"} @@ b2 :> {"READ"}

(* The boot program's read, streams, and a stop of the motor *)
MCStreams == b1 :> {StopMotor, "BSREAD"} @@ b2 :> {"INITSTREAM", "STOP_STREAM_AT_END"}

(* A stop of the motor and reads *)
MCStopMotor == b1 :> {StopMotor} @@ b2 :> {"READ"}
=============================================================================

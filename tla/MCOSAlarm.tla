------------------------------ MODULE MCOSAlarm ------------------------------
(* Three alarms: a program's one-shot and periodic ones, and the DVD       *)
(* driver's, which is tagged 0.  They are set to times past and ahead, and *)
(* further ahead than the decrementer counts.                              *)
EXTENDS OSAlarm

CONSTANTS once, every, dvd

MCAlarm == {once, every, dvd}
MCTag == (once :> 1) @@ (every :> 1) @@ (dvd :> 0)
MCTicks == (once :> {1, 2}) @@ (every :> {}) @@ (dvd :> {})
MCTimes == (once :> {}) @@ (every :> {}) @@ (dvd :> {1})
MCStarts == (once :> {}) @@ (every :> {0, 1}) @@ (dvd :> {})
MCPeriods == (once :> {}) @@ (every :> {2}) @@ (dvd :> {})
=============================================================================

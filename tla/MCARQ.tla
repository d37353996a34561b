-------------------------------- MODULE MCARQ --------------------------------
(* Against chunks of two units: a request shorter than a chunk, one of     *)
(* exactly one chunk, and one of two equal chunks and a part of a third.   *)
(* The last two have the same owner.                                       *)
EXTENDS ARQ

CONSTANTS short, whole, long, o1, o2

MCRequest == {short, whole, long}
MCLength == (short :> 1) @@ (whole :> 2) @@ (long :> 5)
MCOwner == (short :> o1) @@ (whole :> o2) @@ (long :> o2)
=============================================================================

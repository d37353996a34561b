-------------------------------- MODULE MCCARD --------------------------------
(* A card with room for two blocks, and two names for files               *)
EXTENDS CARD, TLC

CONSTANTS name1, name2

Symmetry == Permutations(Name)

(* The check codes in memory do not matter once the card is not listened   *)
(* to: they are never written.                                             *)
View ==
  <<card, cur, attached, result, op, listening, faults,
    IF attached /\ ~listening THEN [s \in System |-> [work[s] EXCEPT !.code = 0]] ELSE work>>
=============================================================================

-------------------------------- MODULE Table --------------------------------
(***************************************************************************)
(* The table both philosopher programs share: philosophers numbered from 1 *)
(* and an array of NUM chopsticks numbered from 0, addressed as x and      *)
(* (x + 1) % NUM.                                                          *)
(*                                                                         *)
(* Philosopher NUM's x is one past the end of the array.  In the builds    *)
(* kept beside the sources the array is the last object of .bss, so what   *)
(* lies there is zeroed memory nothing else uses: a chopstick of its own,  *)
(* number NUM, that no initialisation reaches.                             *)
(***************************************************************************)
EXTENDS Integers

CONSTANT NUM

ASSUME NumAssumption == NUM \in Nat /\ NUM >= 2

Phil == 1..NUM
Chopstick == 0..NUM

\* Mutant: chopstick x is taken modulo NUM too, as at a round table.
Left_Wraps(x) == x % NUM

Left(x) == x
Right(x) == (x + 1) % NUM
Reach(x) == {Left(x), Right(x)}

Rivals == {r \in Phil \X Phil : r[1] # r[2] /\ Reach(r[1]) \cap Reach(r[2]) # {}}
=============================================================================

------------------------------ MODULE MCItems ------------------------------
(* The instance of Items in which the promise about its index fails. *)
EXTENDS Items, TLC

CONSTANTS belt, coin, waist

\* A belt is worn around the waist and holds one thing; coins are carried.
OneThing  == belt :> 1
BeltSlot  == belt :> waist
BeltCells == {Loose, <<belt, 0>>}

\* Characters are interchangeable; every property is an invariant or about single steps.
Symmetry == Permutations(Owners)
=============================================================================

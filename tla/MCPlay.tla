------------------------------- MODULE MCPlay -------------------------------
(* Instances of Items and WarRoom for TLC.  The two share no state, so one run explores them   *)
(* one after the other: a behaviour belongs to one of them from its first state.               *)
EXTENDS Items, WarRoom, TLC

CONSTANTS belt, coin, waist

VARIABLE subject

play == <<subject, itemVars, warVars>>

PlayInit == ItemsInit /\ WarInit /\ subject \in {"items", "fight"}

\* A behaviour of the fights ends with the Player's death; the theorems go on after it.
PlayNext ==
    /\ UNCHANGED subject
    /\ \/ subject = "items" /\ ItemsNext /\ UNCHANGED warVars
       \/ subject = "fight" /\ ~ dead /\ WarNext /\ UNCHANGED itemVars

PlaySpec == PlayInit /\ [][PlayNext]_play

\* The types of both.
PlayTypeOK == ItemsTypeOK /\ WarTypeOK

\* A belt is worn around the waist and holds one thing; coins are carried.
OneThing  == belt :> 1
BeltSlot  == belt :> waist
BeltCells == {Loose, <<belt, 0>>}

\* Owners are interchangeable, and scenes are; every property is an invariant or about single
\* steps.
Symmetry == Permutations(Owners) \cup Permutations(Scenes)
=============================================================================

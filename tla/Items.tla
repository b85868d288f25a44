------------------------------- MODULE Items -------------------------------
(***************************************************************************)
(* The item operations of the reducer (state.py, _apply_op): instances with *)
(* an authoritative location, and the gear and inventory indexes derived    *)
(* from it.  One action per operation; a rejected operation is a step too,  *)
(* because what it did before the rejection stays in the live state.        *)
(*                                                                         *)
(* A location is a pair: <<"gear", slot>>, <<"inv", cell>>, the world or    *)
(* gone.  A cell is a free name, and the cell that is called like an        *)
(* instance has the capacity of that instance.                              *)
(***************************************************************************)
EXTENDS Integers, FiniteSets

CONSTANTS
    Owners,     \* characters
    Kinds,      \* item names
    Slots,      \* gear slots
    Cells,      \* the inventory cells operations name
    Loose,      \* the cell that is always there and has no limit
    Scenes,
    None,
    Capacity,   \* of the kinds that are containers
    SlotOf,     \* of the kinds that are worn
    MaxCopy,    \* bound: the last number of an instance of a kind
    MaxQty,     \* bound: units in one instance
    MaxItems    \* bound: instances that are ever created

Ids  == Kinds \X (0..MaxCopy)

ASSUME ItemsAssumption ==
    /\ MaxCopy \in Nat /\ MaxQty \in Nat \ {0} /\ MaxItems \in Nat
    /\ IsFiniteSet(Kinds)
    /\ None \notin Owners \cup Scenes
    /\ Loose \in Cells /\ Loose \notin Ids
    /\ DOMAIN Capacity \subseteq Kinds /\ \A k \in DOMAIN Capacity : Capacity[k] \in Nat
    /\ DOMAIN SlotOf \subseteq Kinds /\ \A k \in DOMAIN SlotOf : SlotOf[k] \in Slots

World  == <<"world", None>>
Gone   == <<"gone", None>>
Absent == <<"absent", None>>
Gear   == {"gear"} \X Slots
Inv    == {"inv"} \X Cells
Held   == Gear \cup Inv
Place  == Held \cup {World, Gone}
Carried == <<"inv", Loose>>

VARIABLES
    place,   \* items[iid].loc; Absent when there is no such row
    owner,   \* items[iid].owner
    qty,     \* items[iid].qty
    origin,  \* items[iid].world_origin_*, while it is read: the scene it was dropped in
    index,   \* the gear and inventory indexes: <<owner, location, instance>>
    scene    \* the current scene

itemVars == <<place, owner, qty, origin, index, scene>>

Known == {i \in Ids : place[i] # Absent}

-----------------------------------------------------------------------------
(* The index helpers *)

At(X, o, p) == {i \in Ids : <<o, p, i>> \in X}

\* _container_capacity over the rows K: the cell is bounded when a row has its name and the
\* row's kind is a container, whatever became of the instance.
Bounded(K, p) == p \in Inv /\ p[2] \in K /\ p[2][1] \in DOMAIN Capacity
Limit(p) == Capacity[p[2][1]]

Full(X, K, o, p) == Bounded(K, p) /\ Cardinality(At(X, o, p)) >= Limit(p)

\* _index_remove
Without(X, i) == {e \in X : e[3] # i}

\* Mutant: the index of a slot is overwritten.
FitsOver(X, K, o, i, p) ==
    p \in Held => o # None /\ (p \in Inv => i \in At(X, o, p) \/ ~ Full(X, K, o, p))

\* _index_add: whether the location takes the instance.
Fits(X, K, o, i, p) ==
    p \in Held =>
        /\ o # None
        /\ p \in Gear => At(X, o, p) = {}
        /\ p \in Inv => i \in At(X, o, p) \/ ~ Full(X, K, o, p)

\* Mutant: what lies in the world is indexed too.
WithAlways(X, o, i, p) == X \cup {<<o, p, i>>}

With(X, o, i, p) == IF p \in Held THEN X \cup {<<o, p, i>>} ELSE X

\* Mutant: a rejected operation forgets to put the instance back.
NotRestored(X, K, o, i, p) == X

\* The rollback: the old location is added again, and the answer is not looked at.
Restored(X, K, o, i, p) == IF Fits(X, K, o, i, p) THEN With(X, o, i, p) ELSE X

\* _auto_loc: a worn item takes its slot when that is free.
AutoPlace(o, k) ==
    IF k \in DOMAIN SlotOf /\ At(index, o, <<"gear", SlotOf[k]>>) = {}
    THEN <<"gear", SlotOf[k]>> ELSE Carried

\* _world_item_is_here
Here(i) == place[i] = World /\ owner[i] = None /\ origin[i] = scene

\* The numbers minting and gaining give: base#1, base#2, ... and base, base#2, ...
Free(k, N) == {n \in N : <<k, n>> \in Ids /\ place[<<k, n>>] = Absent}
Least(N) == CHOOSE n \in N : \A m \in N : n <= m
Numbered(k) == {n \in 1..MaxCopy : place[<<k, n>>] # Absent}
MintNumbers(k) == Free(k, (Cardinality(Numbered(k)) + 1)..MaxCopy)
GainNumbers(k) == Free(k, {0} \cup 2..MaxCopy)

-----------------------------------------------------------------------------
(* What an operation leaves *)

\* A new row, at a location that takes it; a row that finds no room is deleted again.
Create(i, o, p, q, from) ==
    /\ Cardinality(Known) < MaxItems
    /\ Fits(index, Known \cup {i}, o, i, p)
    /\ place'  = [place EXCEPT ![i] = p]
    /\ owner'  = [owner EXCEPT ![i] = o]
    /\ qty'    = [qty EXCEPT ![i] = q]
    /\ origin' = [origin EXCEPT ![i] = from]
    /\ index'  = With(index, o, i, p)
    /\ UNCHANGED scene

\* Removed from the index, and added where it goes to.
Settle(i, o, p) ==
    /\ Fits(Without(index, i), Known, o, i, p)
    /\ index' = With(Without(index, i), o, i, p)
    /\ place' = [place EXCEPT ![i] = p]
    /\ owner' = [owner EXCEPT ![i] = IF p \in Held THEN o ELSE None]
    /\ origin' = [origin EXCEPT ![i] = IF p = World THEN scene ELSE None]
    /\ UNCHANGED <<qty, scene>>

\* Removed from the index, refused by the location it goes to, and put back.
Refuse(i, o, p) ==
    /\ ~ Fits(Without(index, i), Known, o, i, p)
    /\ index' = Restored(Without(index, i), Known, owner[i], i, place[i])
    /\ UNCHANGED <<place, owner, qty, origin, scene>>

\* The last unit went.
Vanish(i) ==
    /\ place' = [place EXCEPT ![i] = Gone]
    /\ owner' = [owner EXCEPT ![i] = None]
    /\ origin' = [origin EXCEPT ![i] = None]
    /\ index' = Without(index, i)
    /\ UNCHANGED scene

-----------------------------------------------------------------------------
(* The operations *)

\* item_mint; without a location the instance lands where _auto_loc puts it.  A location given
\* with the operation is taken as it is: in the world it keeps its owner and gets no origin.
Mint(k, o, p, q) ==
    /\ MintNumbers(k) # {}
    /\ Create(<<k, Least(MintNumbers(k))>>, o, p, q, None)

\* item_move; whoever owns nothing cannot carry it.
Move(i, p) ==
    /\ i \in Known
    /\ p \in Held => owner[i] # None
    /\ Settle(i, owner[i], p) \/ Refuse(i, owner[i], p)

\* item_unequip
Unequip(i, p) ==
    /\ i \in Known /\ place[i] \in Gear
    /\ Settle(i, owner[i], p) \/ Refuse(i, owner[i], p)

\* The instances a swap displaces are carried from then on.
Displaced(X, o, occ) ==
    {e \in X : e[3] \notin occ} \cup {<<o, Carried, j>> : j \in occ}

\* item_equip, with the atomic swap.
Equip(i, s, swap) ==
    LET occ == At(index, owner[i], <<"gear", s>>) \ {i}
    IN  /\ i \in Known /\ owner[i] # None
        /\ occ # {} => swap
        /\ index' = With(Without(Displaced(index, owner[i], occ), i), owner[i], i, <<"gear", s>>)
        /\ place' = [j \in Ids |-> IF j = i THEN <<"gear", s>>
                                   ELSE IF j \in occ THEN Carried ELSE place[j]]
        /\ UNCHANGED <<owner, qty, origin, scene>>

\* item_consume
Consume(i, n) ==
    /\ i \in Known /\ qty[i] >= 1
    /\ qty' = [qty EXCEPT ![i] = IF n < @ THEN @ - n ELSE 0]
    /\ IF n < qty[i]
       THEN UNCHANGED <<place, owner, origin, index, scene>>
       ELSE Vanish(i)

\* item_transfer; what lies in the world must lie in this scene.
Transfer(i, o, p) ==
    /\ i \in Known
    /\ place[i] = World => Here(i)
    /\ Settle(i, o, p) \/ Refuse(i, o, p)

\* The live rows of that name the character owns.
Rows(o, k) == {i \in Known : i[1] = k /\ owner[i] = o /\ place[i] # Gone}

\* item_gain onto a row of that name.  (The second gain of a turn is ignored: a stutter.)
GainMore(i, o, q) ==
    /\ i \in Rows(o, i[1])
    /\ qty[i] + q <= MaxQty
    /\ qty' = [qty EXCEPT ![i] = @ + q]
    /\ UNCHANGED <<place, owner, origin, index, scene>>

\* item_gain of something the character does not have.
GainNew(k, o, q) ==
    /\ Rows(o, k) = {} /\ GainNumbers(k) # {}
    /\ Create(<<k, Least(GainNumbers(k))>>, o, AutoPlace(o, k), q, None)

\* item_lose; the last units keep their number when the row is gone.
Lose(i, o, n) ==
    /\ i \in Rows(o, i[1])
    /\ IF n < qty[i]
       THEN /\ qty' = [qty EXCEPT ![i] = @ - n]
            /\ UNCHANGED <<place, owner, origin, index, scene>>
       ELSE Vanish(i) /\ UNCHANGED qty

\* combatant_defeat: what the defeated one drops lies in the world.
Loot(k, q) ==
    /\ GainNumbers(k) # {}
    /\ Create(<<k, Least(GainNumbers(k))>>, None, World, q, scene)

\* defeat_resolve with the outcome "robbed"; the flag that keeps a bound item is not modelled,
\* so any part of what is carried is taken.
Robbed(o, taken) ==
    /\ taken # {} /\ \A i \in taken : owner[i] = o /\ place[i] \in Inv
    /\ index'  = {e \in index : e[3] \notin taken}
    /\ place'  = [i \in Ids |-> IF i \in taken THEN World ELSE place[i]]
    /\ owner'  = [i \in Ids |-> IF i \in taken THEN None ELSE owner[i]]
    /\ origin' = [i \in Ids |-> IF i \in taken THEN scene ELSE origin[i]]
    /\ UNCHANGED <<qty, scene>>

\* The story moves on to another scene.
NextScene(s) ==
    /\ s # scene
    /\ scene' = s
    /\ UNCHANGED <<place, owner, qty, origin, index>>

-----------------------------------------------------------------------------
ItemsInit ==
    /\ place  = [i \in Ids |-> Absent]
    /\ owner  = [i \in Ids |-> None]
    /\ qty    = [i \in Ids |-> 0]
    /\ origin = [i \in Ids |-> None]
    /\ index = {}
    /\ scene \in Scenes

ItemsNext ==
    \/ \E k \in Kinds, o \in Owners, q \in 1..MaxQty :
        \/ \E p \in Place : Mint(k, o, p, q)
        \/ GainNew(k, o, q)
    \/ \E k \in Kinds, q \in 1..MaxQty : Loot(k, q)
    \/ \E i \in Ids :
        \/ \E p \in Place : Move(i, p) \/ Unequip(i, p)
        \/ \E s \in Slots, swap \in BOOLEAN : Equip(i, s, swap)
        \/ \E o \in Owners, p \in Held : Transfer(i, o, p)
        \/ \E n \in 1..MaxQty : Consume(i, n)
        \/ \E o \in Owners, n \in 1..MaxQty : GainMore(i, o, n) \/ Lose(i, o, n)
    \/ \E o \in Owners, taken \in SUBSET Known : Robbed(o, taken)
    \/ \E s \in Scenes : NextScene(s)

ItemsSpec == ItemsInit /\ [][ItemsNext]_itemVars

-----------------------------------------------------------------------------
(* Properties *)

\* The types of the state.
ItemsTypeOK ==
    /\ place \in [Ids -> Place \cup {Absent}]
    /\ owner \in [Ids -> Owners \cup {None}]
    /\ qty \in [Ids -> 0..MaxQty]
    /\ origin \in [Ids -> Scenes \cup {None}]
    /\ index \in SUBSET (Owners \X Held \X Ids)
    /\ scene \in Scenes

\* The indexes never contradict the rows: an instance is indexed at most where its row says, and
\* for its owner only, so it is never in two hands or places; a slot holds one instance; and
\* what is worn or carried loosely is always indexed: only in a cell whose container has a limit
\* can an instance be lost (state.py, _index_add and the rollbacks of _apply_op).
IndexAgrees ==
    /\ \A e \in index : e[2] = place[e[3]] /\ e[1] = owner[e[3]]
    /\ \A e, f \in index : e[1] = f[1] /\ e[2] = f[2] /\ e[2] \in Gear => e = f
    /\ \A i \in Known : place[i] \in Held /\ ~ Bounded(Known, place[i]) =>
            <<owner[i], place[i], i>> \in index

\* It is lost only by the rollback into a cell that already holds more than its limit: an
\* operation that drops an indexed instance has either put it in the world, removed it for
\* good, or left its row alone in an overfull cell (_apply_op, item_move to item_transfer).
LossesAreOverflows ==
    [][\A e \in index : e[3] \notin {f[3] : f \in index'} =>
        \/ place'[e[3]] \in {World, Gone}
        \/ /\ place'[e[3]] = e[2] /\ Bounded(Known, e[2])
           /\ Cardinality(At(index, e[1], e[2])) > Limit(e[2])]_itemVars

\* What state.py:3072, linter.py:501 and docs/02-data-model.md promise by construction: a row
\* whose location is a slot or a cell is indexed there.
OneInstanceOnePlace ==
    \A i \in Known : place[i] \in Held => <<owner[i], place[i], i>> \in index
=============================================================================

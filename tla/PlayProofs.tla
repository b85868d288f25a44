----------------------------- MODULE PlayProofs -----------------------------
(***************************************************************************)
(* Items and fights: proofs about Items and WarRoom, for every set of      *)
(* characters, things, cells, names and sizes; and that it holds in their  *)
(* run.                                                                    *)
(***************************************************************************)
EXTENDS MCPlay, TurnOrder, FiniteSetTheorems, TLAPS

-----------------------------------------------------------------------------
(* Items: rows and indexes *)

Rowed(P) == {i \in Ids : P[i] # Absent}

\* What the indexes X have to do with the places P and the owners W.
Agree(P, W, X) ==
    /\ P \in [Ids -> Place \cup {Absent}]
    /\ W \in [Ids -> Owners \cup {None}]
    /\ X \in SUBSET (Owners \X Held \X Ids)
    /\ \A i \in Ids : P[i] \in Held => W[i] \in Owners
    /\ \A o \in Owners, p \in Held, i \in Ids : <<o, p, i>> \in X => P[i] = p /\ W[i] = o
    /\ \A o \in Owners, p \in Gear, i, j \in Ids :
            <<o, p, i>> \in X /\ <<o, p, j>> \in X => i = j
    /\ \A i \in Ids : P[i] \in Held /\ ~ Bounded(Rowed(P), P[i]) => <<W[i], P[i], i>> \in X

\* The invariant of the items.
ItemsInv ==
    /\ Agree(place, owner, index)
    /\ qty \in [Ids -> 0..MaxQty] /\ origin \in [Ids -> Scenes \cup {None}] /\ scene \in Scenes

LEMMA PlacesDiffer ==
    /\ World \notin Held /\ Gone \notin Held /\ Absent \notin Held
    /\ World # Absent /\ Gone # Absent
    /\ \A p \in Gear : p \notin Inv
BY DEF World, Gone, Absent, Held, Gear, Inv

\* A row more bounds no fewer cells.
LEMMA MoreRows ==
    ASSUME NEW P, NEW Q, Rowed(P) \subseteq Rowed(Q), NEW p, ~ Bounded(Rowed(Q), p)
    PROVE  ~ Bounded(Rowed(P), p)
BY DEF Bounded

\* Instances leave the indexes, and their rows the hands they were in.
LEMMA Removing ==
    ASSUME NEW P, NEW W, NEW X, Agree(P, W, X), NEW Y \in SUBSET X,
           NEW Q \in [Ids -> Place \cup {Absent}], NEW V \in [Ids -> Owners \cup {None}],
           \A i \in Ids :
              \/ Q[i] = P[i] /\ V[i] = W[i] /\ \A e \in X : e[3] = i => e \in Y
              \/ Q[i] \notin Held /\ Q[i] # Absent /\ \A e \in Y : e[3] # i
    PROVE  Agree(Q, V, Y)
<1>1. Rowed(P) \subseteq Rowed(Q)
    BY DEF Rowed
<1>2. \A p : ~ Bounded(Rowed(Q), p) => ~ Bounded(Rowed(P), p)
    BY <1>1 DEF Bounded
<1> QED BY <1>2 DEF Agree

\* An instance that no index has is added where its row goes to, if that takes it.
LEMMA Adding ==
    ASSUME NEW P, NEW W, NEW X, Agree(P, W, X), NEW i \in Ids, P[i] \notin Held,
           NEW o \in Owners \cup {None}, NEW p \in Place, NEW K, Fits(X, K, o, i, p),
           NEW v \in Owners \cup {None}, p \in Held => v = o
    PROVE  Agree([P EXCEPT ![i] = p], [W EXCEPT ![i] = v], With(X, o, i, p))
<1> DEFINE Q == [P EXCEPT ![i] = p]
           V == [W EXCEPT ![i] = v]
           Y == With(X, o, i, p)
<1>1. /\ Q \in [Ids -> Place \cup {Absent}] /\ V \in [Ids -> Owners \cup {None}]
      /\ Q[i] = p /\ V[i] = v /\ \A j \in Ids \ {i} : Q[j] = P[j] /\ V[j] = W[j]
    BY DEF Agree
<1>2. Absent \notin Place
    BY DEF Absent, Place, Held, Gear, Inv, World, Gone
<1>3. \A q : ~ Bounded(Rowed(Q), q) => ~ Bounded(Rowed(P), q)
    BY <1>1, <1>2 DEF Bounded, Rowed
<1>4. \A e \in X : e[3] # i
    BY DEF Agree
<1>5. CASE p \in Held
    <2>1. o \in Owners /\ Y = X \cup {<<o, p, i>>}
        BY <1>5 DEF With, Fits
    <2>2. \A j \in Ids, q \in Held, u \in Owners :
            <<u, q, j>> \in Y <=> (<<u, q, j>> \in X \/ (u = o /\ q = p /\ j = i))
        BY <2>1
    <2>3. \A q \in Gear, u \in Owners, j, k \in Ids :
            <<u, q, j>> \in Y /\ <<u, q, k>> \in Y => j = k
        <3>1. p \in Gear => \A j \in Ids : <<o, p, j>> \notin X
            BY <1>5 DEF Fits, At
        <3> QED BY <2>2, <3>1 DEF Agree, Held
    <2>4. Y \in SUBSET (Owners \X Held \X Ids)
        BY <2>1, <1>5 DEF Agree
    <2> HIDE DEF Q, V, Y
    <2>5. \A u \in Owners, q \in Held, j \in Ids : <<u, q, j>> \in Y => Q[j] = q /\ V[j] = u
        BY <1>1, <1>4, <1>5, <2>1, <2>2 DEF Agree
    <2>6. \A j \in Ids : Q[j] \in Held => V[j] \in Owners
        BY <1>1, <2>1, <1>5 DEF Agree
    <2>7. \A j \in Ids : Q[j] \in Held /\ ~ Bounded(Rowed(Q), Q[j]) => <<V[j], Q[j], j>> \in Y
        BY <1>1, <1>3, <1>5, <2>1 DEF Agree
    <2>8. Agree(Q, V, Y)
        BY <1>1, <2>3, <2>4, <2>5, <2>6, <2>7 DEF Agree
    <2> QED BY <2>8 DEF Q, V, Y
<1>6. CASE p \notin Held
    <2>1. Y = X
        BY <1>6 DEF With
    <2> HIDE DEF Q, V, Y
    <2>2. Agree(Q, V, Y)
        BY <1>1, <1>3, <1>4, <1>6, <2>1 DEF Agree
    <2> QED BY <2>2 DEF Q, V, Y
<1> QED BY <1>5, <1>6

\* Putting a row's instance back where the row says.
LEMMA Restoring ==
    ASSUME NEW P, NEW W, NEW X, Agree(P, W, X), NEW i \in Ids, P[i] # Absent
    PROVE  Agree(P, W, Restored(Without(X, i), Rowed(P), W[i], i, P[i]))
<1> DEFINE Y == Without(X, i)
           Z == Restored(Y, Rowed(P), W[i], i, P[i])
<1>1. Y \subseteq X /\ \A e \in X : e \in Y <=> e[3] # i
    BY DEF Without
<1>2. CASE P[i] \in Held
    <2>1. W[i] \in Owners
        BY <1>2 DEF Agree
    <2>2. P[i] \in Gear => At(Y, W[i], P[i]) = {}
        <3> SUFFICES ASSUME P[i] \in Gear, NEW j \in Ids, <<W[i], P[i], j>> \in Y PROVE FALSE
            BY DEF At
        <3>1. ~ Bounded(Rowed(P), P[i])
            BY PlacesDiffer DEF Bounded
        <3>2. <<W[i], P[i], i>> \in X
            BY <1>2, <3>1 DEF Agree
        <3>3. i = j
            BY <2>1, <3>2, <1>1 DEF Agree
        <3> QED BY <3>3, <1>1
    <2>3. Fits(Y, Rowed(P), W[i], i, P[i]) \/ Bounded(Rowed(P), P[i])
        <3>1. W[i] # None
            BY <2>1, ItemsAssumption
        <3> QED BY <3>1, <2>2 DEF Fits, Full
    <2>4. Z = Y \cup {<<W[i], P[i], i>>} \/ (Z = Y /\ Bounded(Rowed(P), P[i]))
        BY <2>3, <1>2 DEF Restored, With
    <2>5. Z \in SUBSET (Owners \X Held \X Ids)
        BY <2>4, <2>1, <1>1, <1>2 DEF Agree
    <2>6. \A u \in Owners, q \in Held, j \in Ids :
            <<u, q, j>> \in Z => <<u, q, j>> \in Y \/ (u = W[i] /\ q = P[i] /\ j = i)
        BY <2>4
    <2>7. \A q \in Gear, u \in Owners, j, k \in Ids :
            <<u, q, j>> \in Z /\ <<u, q, k>> \in Z => j = k
        BY <2>6, <2>2, <1>1 DEF Agree, At, Held
    <2>8. \A j \in Ids : P[j] \in Held /\ ~ Bounded(Rowed(P), P[j]) => <<W[j], P[j], j>> \in Z
        BY <2>4, <1>1 DEF Agree
    <2> HIDE DEF Y, Z
    <2>9. \A u \in Owners, q \in Held, j \in Ids : <<u, q, j>> \in Z => P[j] = q /\ W[j] = u
        BY <2>6, <1>1 DEF Agree
    <2>10. Agree(P, W, Z)
        BY <2>5, <2>7, <2>8, <2>9 DEF Agree
    <2> QED BY <2>10 DEF Y, Z
<1>3. CASE P[i] \notin Held
    <2>1. Y = X
        BY <1>1, <1>3 DEF Agree
    <2>2. Z = X
        BY <2>1, <1>3 DEF Restored, With
    <2> QED BY <2>2
<1> QED BY <1>2, <1>3

-----------------------------------------------------------------------------
(* Items: what an operation leaves *)

\* What a step may take out of the indexes (LossesAreOverflows).
Losses ==
    \A e \in index : e[3] \notin {f[3] : f \in index'} =>
        \/ place'[e[3]] \in {World, Gone}
        \/ /\ place'[e[3]] = e[2] /\ Bounded(Known, e[2])
           /\ Cardinality(At(index, e[1], e[2])) > Limit(e[2])

LEMMA KnownAreRowed == Known = Rowed(place)
BY DEF Known, Rowed

LEMMA NumbersAreFree ==
    ASSUME NEW k \in Kinds, NEW N \in SUBSET (0..MaxCopy), Free(k, N) # {}
    PROVE  /\ <<k, Least(Free(k, N))>> \in Ids
           /\ place[<<k, Least(Free(k, N))>>] = Absent
<1>1. Free(k, N) \in SUBSET Nat
    <2>1. 0..MaxCopy \subseteq Nat
        BY ItemsAssumption
    <2>2. Free(k, N) \subseteq N
        BY DEF Free
    <2> QED BY <2>1, <2>2
<1>2. \E n \in Free(k, N) : \A m \in Free(k, N) : n <= m
    BY <1>1, FirstNatural
<1>3. Least(Free(k, N)) \in Free(k, N)
    BY <1>2 DEF Least
<1> QED BY <1>3 DEF Free

LEMMA CreateStep ==
    ASSUME ItemsInv, NEW k \in Kinds, NEW N \in SUBSET (0..MaxCopy), Free(k, N) # {},
           NEW o \in Owners \cup {None}, NEW p \in Place, NEW q \in 0..MaxQty,
           NEW from \in Scenes \cup {None},
           Create(<<k, Least(Free(k, N))>>, o, p, q, from)
    PROVE  ItemsInv' /\ Losses
<1> DEFINE i == <<k, Least(Free(k, N))>>
<1>1. i \in Ids /\ place[i] = Absent
    BY NumbersAreFree
<1> HIDE DEF i
<1>2. Create(i, o, p, q, from)
    BY DEF i
<1>3. Agree(place', owner', index')
    <2>1. Agree(place, owner, index) /\ place[i] \notin Held /\ Fits(index, Known \cup {i}, o, i, p)
        BY <1>1, <1>2, PlacesDiffer DEF Create, ItemsInv
    <2>2. Agree([place EXCEPT ![i] = p], [owner EXCEPT ![i] = o], With(index, o, i, p))
        BY <1>1, <2>1, Adding
    <2> QED BY <1>2, <2>2 DEF Create
<1>4. index \subseteq index'
    BY <1>2 DEF Create, With
<1>5. qty' \in [Ids -> 0..MaxQty] /\ origin' \in [Ids -> Scenes \cup {None}] /\ scene' = scene
    <2>1. /\ qty' = [qty EXCEPT ![i] = q] /\ origin' = [origin EXCEPT ![i] = from]
          /\ scene' = scene
        BY <1>2 DEF Create
    <2>2. qty \in [Ids -> 0..MaxQty] /\ origin \in [Ids -> Scenes \cup {None}]
        BY DEF ItemsInv
    <2> QED BY <2>1, <2>2
<1>6. Losses
    BY <1>4 DEF Losses
<1> QED BY <1>3, <1>5, <1>6 DEF ItemsInv

LEMMA SettleStep ==
    ASSUME ItemsInv, NEW i \in Known, NEW o \in Owners \cup {None}, NEW p \in Place,
           Settle(i, o, p)
    PROVE  ItemsInv' /\ Losses
<1> DEFINE v == IF p \in Held THEN o ELSE None
           P == [place EXCEPT ![i] = Gone]
           W == [owner EXCEPT ![i] = None]
<1>1. i \in Ids
    BY DEF Known
<1>2. P \in [Ids -> Place \cup {Absent}] /\ W \in [Ids -> Owners \cup {None}]
    BY DEF ItemsInv, Agree, Place
<1>3. P[i] = Gone /\ \A j \in Ids \ {i} : P[j] = place[j] /\ W[j] = owner[j]
    BY <1>1 DEF ItemsInv, Agree
<1>4. Agree(P, W, Without(index, i))
    <2>1. Agree(place, owner, index)
        BY DEF ItemsInv
    <2>2. /\ Without(index, i) \in SUBSET index
          /\ \A e \in index : e \in Without(index, i) <=> e[3] # i
        BY DEF Without
    <2> HIDE DEF P, W
    <2>3. \A j \in Ids :
            \/ /\ P[j] = place[j] /\ W[j] = owner[j]
               /\ \A e \in index : e[3] = j => e \in Without(index, i)
            \/ P[j] \notin Held /\ P[j] # Absent /\ \A e \in Without(index, i) : e[3] # j
        BY <1>3, <2>2, PlacesDiffer
    <2> QED BY <1>2, <2>1, <2>2, <2>3, Removing
<1>6. [P EXCEPT ![i] = p] = place' /\ [W EXCEPT ![i] = v] = owner'
    BY <1>1 DEF Settle, ItemsInv, Agree
<1>7. index' = With(Without(index, i), o, i, p) /\ Fits(Without(index, i), Known, o, i, p)
    BY DEF Settle
<1>8. v \in Owners \cup {None} /\ (p \in Held => v = o)
    OBVIOUS
<1> HIDE DEF P, W, v
<1>9. Agree([P EXCEPT ![i] = p], [W EXCEPT ![i] = v], With(Without(index, i), o, i, p))
    BY <1>1, <1>3, <1>4, <1>7, <1>8, Adding, PlacesDiffer
<1>10. Agree(place', owner', index')
    BY <1>6, <1>7, <1>9
<1>11. origin' \in [Ids -> Scenes \cup {None}] /\ qty' = qty /\ scene' = scene
    BY DEF Settle, ItemsInv
<1>12. Losses
    <2> SUFFICES ASSUME NEW e \in index, e[3] \notin {f[3] : f \in index'}
                 PROVE  place'[e[3]] \in {World, Gone}
        BY DEF Losses
    <2>1. e[3] = i
        BY <1>7 DEF With, Without
    <2>2. p \notin Held
        <3>1. p \in Held => <<o, p, i>> \in index'
            BY <1>7 DEF With
        <3> QED BY <2>1, <3>1
    <2>3. p \in {World, Gone}
        BY <2>2 DEF Place
    <2> QED BY <2>1, <2>3, <1>1 DEF Settle, ItemsInv, Agree
<1> QED BY <1>10, <1>11, <1>12 DEF ItemsInv

LEMMA RefuseStep ==
    ASSUME ItemsInv, NEW i \in Known, NEW o, NEW p, Refuse(i, o, p)
    PROVE  ItemsInv' /\ Losses
<1>1. i \in Ids /\ place[i] # Absent
    BY DEF Known
<1>2. index' = Restored(Without(index, i), Known, owner[i], i, place[i])
    BY DEF Refuse
<1>3. Agree(place', owner', index')
    BY <1>1, <1>2, Restoring, KnownAreRowed DEF Refuse, ItemsInv
<1>4. Losses
    <2> SUFFICES ASSUME NEW e \in index, e[3] \notin {f[3] : f \in index'}
                 PROVE  /\ place[e[3]] = e[2] /\ Bounded(Known, e[2])
                        /\ Cardinality(At(index, e[1], e[2])) > Limit(e[2])
        BY DEF Losses, Refuse
    <2> DEFINE X == Without(index, i)
               c == place[i]
               w == owner[i]
    <2>1. X \subseteq index' /\ \A f \in index : f[3] # i => f \in X
        BY <1>2 DEF Restored, With, Without
    <2>2. e[3] = i
        BY <2>1
    <2>3. e = <<w, c, i>> /\ c \in Held /\ w \in Owners
        BY <2>2, <1>1 DEF ItemsInv, Agree
    <2>4. ~ Fits(X, Known, w, i, c)
        BY <1>2, <2>2, <2>3 DEF Restored, With
    <2>5. c \in Gear => At(X, w, c) = {}
        BY <2>3, <1>1 DEF ItemsInv, Agree, At, Without
    <2>6. w # None
        BY <2>3, ItemsAssumption
    <2>7. c \in Inv /\ Full(X, Known, w, c)
        BY <2>3, <2>4, <2>5, <2>6 DEF Fits
    <2>8. Bounded(Known, c) /\ Cardinality(At(X, w, c)) >= Limit(c)
        BY <2>7 DEF Full
    <2>9. IsFiniteSet(At(X, w, c))
        <3>1. IsFiniteSet(0..MaxCopy)
            BY FS_Interval, ItemsAssumption
        <3>2. IsFiniteSet(Ids)
            BY <3>1, FS_Product, ItemsAssumption DEF Ids
        <3> QED BY <3>2, FS_Subset DEF At
    <2>10. At(index, w, c) = At(X, w, c) \cup {i} /\ i \notin At(X, w, c)
        BY <2>3, <1>1 DEF At, Without
    <2>11. /\ Cardinality(At(index, w, c)) = Cardinality(At(X, w, c)) + 1
           /\ Cardinality(At(X, w, c)) \in Nat
        BY <2>9, <2>10, FS_AddElement, FS_CardinalityType
    <2>12. Limit(c) \in Nat
        BY <2>8, ItemsAssumption DEF Bounded, Limit
    <2>13. Cardinality(At(index, w, c)) > Limit(c)
        BY <2>8, <2>11, <2>12
    <2> QED BY <2>2, <2>3, <2>8, <2>13
<1> QED BY <1>3, <1>4 DEF Refuse, ItemsInv

LEMMA VanishStep ==
    ASSUME ItemsInv, NEW i \in Known, Vanish(i), qty' \in [Ids -> 0..MaxQty]
    PROVE  ItemsInv' /\ Losses
<1>1. i \in Ids
    BY DEF Known
<1>2. /\ place' \in [Ids -> Place \cup {Absent}] /\ owner' \in [Ids -> Owners \cup {None}]
      /\ place'[i] = Gone
      /\ \A j \in Ids \ {i} : place'[j] = place[j] /\ owner'[j] = owner[j]
    BY <1>1 DEF Vanish, ItemsInv, Agree, Place
<1>3. Agree(place', owner', index')
    <2>1. Agree(place, owner, index)
        BY DEF ItemsInv
    <2>2. index' \in SUBSET index /\ \A e \in index : e \in index' <=> e[3] # i
        BY DEF Vanish, Without
    <2>3. \A j \in Ids :
            \/ /\ place'[j] = place[j] /\ owner'[j] = owner[j]
               /\ \A e \in index : e[3] = j => e \in index'
            \/ place'[j] \notin Held /\ place'[j] # Absent /\ \A e \in index' : e[3] # j
        BY <1>2, <2>2, PlacesDiffer
    <2> QED BY <1>2, <2>1, <2>2, <2>3, Removing
<1>5. origin' \in [Ids -> Scenes \cup {None}] /\ scene' = scene
    BY DEF Vanish, ItemsInv
<1>6. Losses
    BY <1>2 DEF Losses, Vanish, Without
<1> QED BY <1>3, <1>5, <1>6 DEF ItemsInv

\* Only a quantity changes.
LEMMA CountStep ==
    ASSUME ItemsInv, qty' \in [Ids -> 0..MaxQty],
           UNCHANGED <<place, owner, origin, index, scene>>
    PROVE  ItemsInv' /\ Losses
<1>1. place' = place /\ owner' = owner /\ index' = index
    OBVIOUS
<1>2. Agree(place', owner', index')
    BY <1>1 DEF ItemsInv
<1>3. Losses
    BY <1>1 DEF Losses
<1> QED BY <1>2, <1>3 DEF ItemsInv

\* What the slot held is carried, and the instance takes the slot.
LEMMA EquipStep ==
    ASSUME ItemsInv, NEW i \in Ids, NEW s \in Slots, NEW swap, Equip(i, s, swap)
    PROVE  ItemsInv' /\ Losses
<1> DEFINE g == <<"gear", s>>
           o == owner[i]
           occ == At(index, o, g) \ {i}
<1>1. /\ place[i] # Absent /\ o # None /\ o \in Owners
      /\ index' = With(Without(Displaced(index, o, occ), i), o, i, g)
      /\ place' = [j \in Ids |-> IF j = i THEN g ELSE IF j \in occ THEN Carried ELSE place[j]]
      /\ owner' = owner /\ qty' = qty /\ origin' = origin /\ scene' = scene
    BY DEF Equip, Known, ItemsInv, Agree
<1>2. g \in Gear /\ g \in Held /\ g \in Place /\ Carried \in Inv /\ Carried \in Held /\ Carried \in Place
    BY ItemsAssumption DEF Gear, Inv, Held, Place, Carried
<1>3. Agree(place, owner, index)
    BY DEF ItemsInv
<1>4. \A j \in Ids : j \in occ <=> j # i /\ <<o, g, j>> \in index
    BY DEF At
<1>5. \A j \in Ids : j \in occ => place[j] = g /\ owner[j] = o
    BY <1>1, <1>2, <1>3, <1>4 DEF Agree
<1>6. occ \subseteq Ids
    BY DEF At
<1> HIDE DEF g, occ, o
<1>7. /\ \A e \in index : e[3] # i /\ e[3] \notin occ => e \in index'
      /\ \A j \in occ : j # i => <<o, Carried, j>> \in index'
      /\ <<o, g, i>> \in index'
      /\ \A e \in index' : \/ e \in index /\ e[3] # i /\ e[3] \notin occ
                           \/ e = <<o, g, i>>
                           \/ \E j \in occ : e = <<o, Carried, j>>
    BY <1>1, <1>2 DEF With, Without, Displaced
<1>8. i \notin occ
    BY <1>4
<1>9. /\ place' \in [Ids -> Place \cup {Absent}]
      /\ \A j \in Ids : place'[j] = IF j = i THEN g ELSE IF j \in occ THEN Carried ELSE place[j]
    BY <1>1, <1>2, <1>3 DEF Agree
<1>10. index' \in SUBSET (Owners \X Held \X Ids)
    BY <1>1, <1>2, <1>3, <1>6, <1>7 DEF Agree
<1>11. \A u \in Owners, p \in Held, j \in Ids :
            <<u, p, j>> \in index' => place'[j] = p /\ owner'[j] = u
    <2> SUFFICES ASSUME NEW u \in Owners, NEW p \in Held, NEW j \in Ids, <<u, p, j>> \in index'
                 PROVE  place'[j] = p /\ owner[j] = u
        BY <1>1
    <2>1. CASE <<u, p, j>> \in index /\ j # i /\ j \notin occ
        BY <2>1, <1>3, <1>9 DEF Agree
    <2>2. CASE <<u, p, j>> = <<o, g, i>>
        BY <2>2, <1>9 DEF o
    <2>3. CASE \E k \in occ : <<u, p, j>> = <<o, Carried, k>>
        BY <2>3, <1>5, <1>8, <1>9
    <2> QED BY <2>1, <2>2, <2>3, <1>7
<1>12. \A u \in Owners, p \in Gear, j, k \in Ids :
            <<u, p, j>> \in index' /\ <<u, p, k>> \in index' => j = k
    <2> SUFFICES ASSUME NEW u \in Owners, NEW p \in Gear, NEW j \in Ids, NEW k \in Ids,
                        <<u, p, j>> \in index', <<u, p, k>> \in index'
                 PROVE  j = k
        OBVIOUS
    <2>1. \A l \in Ids : <<u, p, l>> \in index' =>
            (<<u, p, l>> \in index /\ l # i /\ l \notin occ) \/ (u = o /\ p = g /\ l = i)
        BY <1>2, <1>7, PlacesDiffer
    <2>2. CASE u = o /\ p = g
        BY <2>1, <2>2, <1>4
    <2>3. CASE ~ (u = o /\ p = g)
        BY <2>1, <2>3, <1>3 DEF Agree
    <2> QED BY <2>2, <2>3
<1>13. Rowed(place') = Rowed(place)
    BY <1>1, <1>2, <1>5, <1>9, PlacesDiffer DEF Rowed
<1>14. \A j \in Ids : place'[j] \in Held /\ ~ Bounded(Rowed(place'), place'[j])
            => <<owner'[j], place'[j], j>> \in index'
    <2> SUFFICES ASSUME NEW j \in Ids, place'[j] \in Held, ~ Bounded(Rowed(place), place'[j])
                 PROVE  <<owner[j], place'[j], j>> \in index'
        BY <1>1, <1>13
    <2>1. CASE j = i
        BY <2>1, <1>7, <1>9 DEF o
    <2>2. CASE j # i /\ j \in occ
        BY <2>2, <1>5, <1>7, <1>9
    <2>3. CASE j # i /\ j \notin occ
        <3>1. <<owner[j], place[j], j>> \in index
            BY <2>3, <1>3, <1>9 DEF Agree
        <3> QED BY <3>1, <2>3, <1>7, <1>9
    <2> QED BY <2>1, <2>2, <2>3
<1>15. \A j \in Ids : place'[j] \in Held => owner'[j] \in Owners
    BY <1>1, <1>2, <1>3, <1>5, <1>9 DEF Agree, o
<1>16. Agree(place', owner', index')
    BY <1>1, <1>3, <1>9, <1>10, <1>11, <1>12, <1>14, <1>15 DEF Agree
<1>17. Losses
    <2>1. \A e \in index : e[3] \in {f[3] : f \in index'}
        <3> SUFFICES ASSUME NEW e \in index PROVE \E f \in index' : f[3] = e[3]
            OBVIOUS
        <3>1. CASE e[3] = i
            BY <3>1, <1>7
        <3>2. CASE e[3] # i /\ e[3] \in occ
            BY <3>2, <1>7
        <3>3. CASE e[3] # i /\ e[3] \notin occ
            BY <3>3, <1>7
        <3> QED BY <3>1, <3>2, <3>3
    <2> QED BY <2>1 DEF Losses
<1> QED BY <1>1, <1>16, <1>17 DEF ItemsInv

\* What the robbed one carried lies in the world.
LEMMA RobbedStep ==
    ASSUME ItemsInv, NEW o \in Owners, NEW taken \in SUBSET Known, Robbed(o, taken)
    PROVE  ItemsInv' /\ Losses
<1>1. /\ index' = {e \in index : e[3] \notin taken} /\ taken \subseteq Ids
      /\ place' = [i \in Ids |-> IF i \in taken THEN World ELSE place[i]]
      /\ owner' = [i \in Ids |-> IF i \in taken THEN None ELSE owner[i]]
      /\ origin' = [i \in Ids |-> IF i \in taken THEN scene ELSE origin[i]]
      /\ qty' = qty /\ scene' = scene
    BY DEF Robbed, Known
<1>2. Agree(place, owner, index)
    BY DEF ItemsInv
<1>3. place' \in [Ids -> Place \cup {Absent}] /\ owner' \in [Ids -> Owners \cup {None}]
    BY <1>1, <1>2 DEF Agree, Place
<1>4. index' \in SUBSET index
    BY <1>1
<1>5. \A i \in Ids :
        \/ place'[i] = place[i] /\ owner'[i] = owner[i] /\ \A e \in index : e[3] = i => e \in index'
        \/ place'[i] \notin Held /\ place'[i] # Absent /\ \A e \in index' : e[3] # i
    BY <1>1, PlacesDiffer
<1>6. Agree(place', owner', index')
    BY <1>2, <1>3, <1>4, <1>5, Removing
<1>7. origin' \in [Ids -> Scenes \cup {None}]
    BY <1>1 DEF ItemsInv
<1>8. Losses
    <2> SUFFICES ASSUME NEW e \in index, e[3] \notin {f[3] : f \in index'}
                 PROVE  place'[e[3]] = World
        BY DEF Losses
    <2>1. e[3] \in taken
        BY <1>1
    <2> QED BY <2>1, <1>1
<1> QED BY <1>1, <1>6, <1>7, <1>8 DEF ItemsInv

LEMMA ItemsStart == ItemsInit => ItemsInv
<1> SUFFICES ASSUME ItemsInit PROVE ItemsInv
    OBVIOUS
<1>1. /\ place \in [Ids -> Place \cup {Absent}] /\ owner \in [Ids -> Owners \cup {None}]
      /\ index = {} /\ \A i \in Ids : place[i] \notin Held
    BY PlacesDiffer DEF ItemsInit
<1>2. Agree(place, owner, index)
    BY <1>1 DEF Agree
<1>3. qty \in [Ids -> 0..MaxQty]
    BY ItemsAssumption DEF ItemsInit
<1> QED BY <1>2, <1>3 DEF ItemsInv, ItemsInit

\* Every operation keeps the invariant, and loses what LossesAreOverflows allows.
LEMMA ItemsStep == ItemsInv /\ [ItemsNext]_itemVars => ItemsInv' /\ Losses
<1> SUFFICES ASSUME ItemsInv, [ItemsNext]_itemVars PROVE ItemsInv' /\ Losses
    OBVIOUS
<1>q. /\ qty \in [Ids -> 0..MaxQty] /\ MaxQty \in Nat
      /\ \A i \in Ids : owner[i] \in Owners \cup {None}
    BY ItemsAssumption DEF ItemsInv, Agree
<1>1. ASSUME NEW k \in Kinds, NEW o \in Owners, NEW q \in 1..MaxQty, NEW p \in Place,
             Mint(k, o, p, q)
      PROVE  ItemsInv' /\ Losses
    <2> DEFINE N == (Cardinality(Numbered(k)) + 1)..MaxCopy
    <2>1. /\ Free(k, N) # {} /\ Create(<<k, Least(Free(k, N))>>, o, p, q, None)
        BY <1>1 DEF Mint, MintNumbers
    <2>2. IsFiniteSet(Numbered(k))
        <3>1. IsFiniteSet(1..MaxCopy)
            BY FS_Interval, ItemsAssumption
        <3> QED BY <3>1, FS_Subset DEF Numbered
    <2>3. N \in SUBSET (0..MaxCopy)
        BY <2>2, FS_CardinalityType, ItemsAssumption
    <2> HIDE DEF N
    <2> QED BY <2>1, <2>3, <1>q, CreateStep
<1>2. ASSUME NEW k \in Kinds, NEW o \in Owners, NEW q \in 1..MaxQty, GainNew(k, o, q)
      PROVE  ItemsInv' /\ Losses
    <2> DEFINE N == {0} \cup 2..MaxCopy
               p == AutoPlace(o, k)
    <2>1. Free(k, N) # {} /\ Create(<<k, Least(Free(k, N))>>, o, p, q, None)
        BY <1>2 DEF GainNew, GainNumbers
    <2>2. N \in SUBSET (0..MaxCopy)
        BY ItemsAssumption
    <2>3. p \in Place
        BY ItemsAssumption DEF AutoPlace, Place, Held, Gear, Inv, Carried
    <2> HIDE DEF N, p
    <2> QED BY <2>1, <2>2, <2>3, <1>q, CreateStep
<1>3. ASSUME NEW k \in Kinds, NEW q \in 1..MaxQty, Loot(k, q)
      PROVE  ItemsInv' /\ Losses
    <2> DEFINE N == {0} \cup 2..MaxCopy
    <2>1. Free(k, N) # {} /\ Create(<<k, Least(Free(k, N))>>, None, World, q, scene)
        BY <1>3 DEF Loot, GainNumbers
    <2>2. N \in SUBSET (0..MaxCopy)
        BY ItemsAssumption
    <2>3. World \in Place /\ scene \in Scenes
        BY DEF Place, ItemsInv
    <2> HIDE DEF N
    <2> QED BY <2>1, <2>2, <2>3, <1>q, CreateStep
<1>4. ASSUME NEW i \in Ids, NEW p \in Place, Move(i, p) \/ Unequip(i, p)
      PROVE  ItemsInv' /\ Losses
    <2>1. i \in Known /\ (Settle(i, owner[i], p) \/ Refuse(i, owner[i], p))
        BY <1>4 DEF Move, Unequip
    <2> QED BY <2>1, <1>q, SettleStep, RefuseStep
<1>5. ASSUME NEW i \in Ids, NEW o \in Owners, NEW p \in Held, Transfer(i, o, p)
      PROVE  ItemsInv' /\ Losses
    <2>1. i \in Known /\ (Settle(i, o, p) \/ Refuse(i, o, p)) /\ p \in Place
        BY <1>5 DEF Transfer, Place
    <2> QED BY <2>1, SettleStep, RefuseStep
<1>6. ASSUME NEW i \in Ids, NEW n \in 1..MaxQty, Consume(i, n)
      PROVE  ItemsInv' /\ Losses
    <2>1. i \in Known /\ qty' \in [Ids -> 0..MaxQty]
        BY <1>6, <1>q DEF Consume
    <2>2. Vanish(i) \/ UNCHANGED <<place, owner, origin, index, scene>>
        BY <1>6 DEF Consume
    <2> QED BY <2>1, <2>2, VanishStep, CountStep
<1>7. ASSUME NEW i \in Ids, NEW o \in Owners, NEW n \in 1..MaxQty, GainMore(i, o, n)
      PROVE  ItemsInv' /\ Losses
    <2>1. qty' \in [Ids -> 0..MaxQty]
        BY <1>7, <1>q DEF GainMore
    <2> QED BY <1>7, <2>1, CountStep DEF GainMore
<1>8. ASSUME NEW i \in Ids, NEW o \in Owners, NEW n \in 1..MaxQty, Lose(i, o, n)
      PROVE  ItemsInv' /\ Losses
    <2>1. i \in Known /\ qty' \in [Ids -> 0..MaxQty]
        BY <1>8, <1>q DEF Lose, Rows
    <2>2. Vanish(i) \/ UNCHANGED <<place, owner, origin, index, scene>>
        BY <1>8 DEF Lose
    <2> QED BY <2>1, <2>2, VanishStep, CountStep
<1>9. ASSUME NEW s \in Scenes, NextScene(s)
      PROVE  ItemsInv' /\ Losses
    BY <1>9 DEF NextScene, ItemsInv, Losses
<1>10. ASSUME UNCHANGED itemVars PROVE ItemsInv' /\ Losses
    BY <1>10, <1>q, CountStep DEF itemVars
<1> QED BY <1>1, <1>2, <1>3, <1>4, <1>5, <1>6, <1>7, <1>8, <1>9, <1>10, EquipStep, RobbedStep
        DEF ItemsNext

-----------------------------------------------------------------------------
(* Items: the theorems *)

\* The rows, their holders and the index agree in every reachable state.
THEOREM ItemsInvariant == ItemsSpec => []ItemsInv
<1>1. ItemsInv /\ [ItemsNext]_itemVars => ItemsInv'
    BY ItemsStep
<1> QED BY <1>1, ItemsStart, PTL DEF ItemsSpec

\* The rows and indexes of the reducer's items are well typed (_apply_op).
THEOREM ItemsAreTyped == ItemsSpec => []ItemsTypeOK
<1>1. ItemsInv => ItemsTypeOK
    BY DEF ItemsInv, Agree, ItemsTypeOK
<1> QED BY <1>1, ItemsInvariant, PTL

\* No operation, rejected or not, lets an index contradict a row: an instance is never in two
\* hands or places, and only a cell whose container has a limit can lose one (_apply_op).
THEOREM IndexesAgree == ItemsSpec => []IndexAgrees
<1>1. ItemsInv => IndexAgrees
    <2> SUFFICES ASSUME ItemsInv PROVE IndexAgrees
        OBVIOUS
    <2>1. Agree(place, owner, index)
        BY DEF ItemsInv
    <2>2. \A e \in index : e[2] = place[e[3]] /\ e[1] = owner[e[3]]
        BY <2>1 DEF Agree
    <2>3. \A e, f \in index : e[1] = f[1] /\ e[2] = f[2] /\ e[2] \in Gear => e = f
        BY <2>1 DEF Agree
    <2>4. \A i \in Known : place[i] \in Held /\ ~ Bounded(Known, place[i]) =>
            <<owner[i], place[i], i>> \in index
        BY <2>1, KnownAreRowed DEF Agree, Known
    <2> QED BY <2>2, <2>3, <2>4 DEF IndexAgrees
<1> QED BY <1>1, ItemsInvariant, PTL

\* An indexed instance is lost only by a rejected operation on an overfull cell (the rollbacks of
\* _apply_op, whose answer nobody looks at).
THEOREM OnlyOverflowsLose == ItemsSpec => LossesAreOverflows
<1>1. ItemsInv /\ [ItemsNext]_itemVars => [Losses]_itemVars
    BY ItemsStep
<1> QED BY <1>1, ItemsInvariant, PTL DEF ItemsSpec, LossesAreOverflows, Losses

-----------------------------------------------------------------------------
(* Fights: the rows of the field *)

Used(R, i) == R[i].side \in Sides

\* The used rows of a name are the first ones.
Lined(R) ==
    \A n \in Names :
        /\ Count(R, n) \in 0..MaxRows
        /\ \A j \in 1..MaxRows : Used(R, <<n, j>>) <=> j <= Count(R, n)

\* The combatants in I take the next free rows of their names.
Queued(R, I) ==
    \A n \in Names : \E k \in Nat : \A j \in 1..MaxRows :
        <<n, j>> \in I <=> Count(R, n) < j /\ j <= Count(R, n) + k

LEMMA Counting ==
    ASSUME NEW R, NEW n, NEW c \in 0..MaxRows,
           \A j \in 1..MaxRows : Used(R, <<n, j>>) <=> j <= c
    PROVE  Count(R, n) = c
<1>1. {k \in 1..MaxRows : R[<<n, k>>].side \in Sides} = 1..c
    BY WarAssumption DEF Used
<1>2. Cardinality(1..c) = c
    BY FS_Interval
<1> QED BY <1>1, <1>2 DEF Count

LEMMA ComingIsQueued ==
    ASSUME NEW R, Lined(R), NEW n \in Names, NEW k \in Nat
    PROVE  Queued(R, Coming(R, n, k))
<1>1. \A m \in Names : Count(R, m) \in Nat
    BY WarAssumption DEF Lined
<1>2. \A j \in 1..MaxRows :
        <<n, j>> \in Coming(R, n, k) <=> Count(R, n) < j /\ j <= Count(R, n) + k
    BY <1>1 DEF Coming
<1>3. \A m \in Names \ {n} : \A j \in 1..MaxRows :
        <<m, j>> \in Coming(R, n, k) <=> Count(R, m) < j /\ j <= Count(R, m) + 0
    <2> SUFFICES ASSUME NEW m \in Names \ {n}, NEW j \in 1..MaxRows
                 PROVE  /\ <<m, j>> \notin Coming(R, n, k)
                        /\ ~ (Count(R, m) < j /\ j <= Count(R, m) + 0)
        OBVIOUS
    <2>1. <<m, j>> \notin Coming(R, n, k)
        BY DEF Coming
    <2>2. ~ (Count(R, m) < j /\ j <= Count(R, m) + 0)
        BY <1>1
    <2> QED BY <2>1, <2>2
<1>4. ASSUME NEW m \in Names
      PROVE  \E l \in Nat : \A j \in 1..MaxRows :
                <<m, j>> \in Coming(R, n, k) <=> Count(R, m) < j /\ j <= Count(R, m) + l
    <2>1. CASE m = n
        BY <2>1, <1>2
    <2>2. CASE m # n
        BY <2>2, <1>3
    <2> QED BY <2>1, <2>2
<1> QED BY <1>4 DEF Queued

LEMMA EnlistingIsQueued ==
    ASSUME NEW R, Lined(R), NEW S \in SUBSET Named
    PROVE  Queued(R, Enlisting(R, S))
<1>1. \A m \in Names : Count(R, m) \in Nat
    BY WarAssumption DEF Lined
<1> SUFFICES ASSUME NEW n \in Names
             PROVE  \E k \in Nat : \A j \in 1..MaxRows :
                <<n, j>> \in Enlisting(R, S) <=> Count(R, n) < j /\ j <= Count(R, n) + k
    BY DEF Queued
<1>2. \A j \in 1..MaxRows : <<n, j>> \in Enlisting(R, S) <=> n \in S /\ j = Count(R, n) + 1
    <2>1. \A m \in S, j \in 1..MaxRows : <<n, j>> \in Coming(R, m, 1) <=> m = n /\ j = Count(R, n) + 1
        <3>1. \A m \in S : Count(R, m) \in Nat
            BY <1>1 DEF Names
        <3> QED BY <3>1 DEF Coming
    <2> QED BY <2>1 DEF Enlisting
<1>3. CASE n \in S
    <2>1. \A j \in 1..MaxRows :
            <<n, j>> \in Enlisting(R, S) <=> Count(R, n) < j /\ j <= Count(R, n) + 1
        BY <1>1, <1>2, <1>3
    <2> QED BY <2>1
<1>4. CASE n \notin S
    <2>1. \A j \in 1..MaxRows :
            <<n, j>> \in Enlisting(R, S) <=> Count(R, n) < j /\ j <= Count(R, n) + 0
        BY <1>1, <1>2, <1>4
    <2> QED BY <2>1
<1> QED BY <1>3, <1>4

\* Who joins takes nobody's row.
LEMMA Joining ==
    ASSUME NEW R \in [Fighters -> Row], Lined(R), NEW I, Queued(R, I), NEW s \in Sides,
           wounds \in [Named -> 0..Health]
    PROVE  /\ Joined(R, I, s) \in [Fighters -> Row] /\ Lined(Joined(R, I, s))
           /\ \A i \in Fighters : i \in I =>
                /\ ~ Used(R, i)
                /\ Joined(R, I, s)[i].side = s /\ ~ Joined(R, I, s)[i].down
           /\ \A i \in Fighters : i \notin I => Joined(R, I, s)[i] = R[i]
<1> DEFINE J == Joined(R, I, s)
           h(i) == IF i[1] \in Named THEN wounds[i[1]] ELSE Health
<1>1. \A i \in Fighters : J[i] = IF i \in I THEN [side |-> s, down |-> FALSE, hp |-> h(i)] ELSE R[i]
    BY DEF Joined
<1>2. \A i \in Fighters : h(i) \in 0..Health
    BY WarAssumption
<1>3. J \in [Fighters -> Row]
    <2>1. \A i \in Fighters : [side |-> s, down |-> FALSE, hp |-> h(i)] \in Row
        BY <1>2 DEF Row
    <2> QED BY <2>1 DEF Joined
<1>4. \A i \in Fighters : i \in I => J[i].side = s /\ ~ J[i].down
    BY DEF Joined
<1>5. \A i \in Fighters : i \notin I => J[i] = R[i]
    BY DEF Joined
<1> HIDE DEF h, J
<1>6. \A i \in Fighters : i \in I => ~ Used(R, i)
    <2> SUFFICES ASSUME NEW n \in Names, NEW j \in 1..MaxRows, <<n, j>> \in I
                 PROVE  ~ Used(R, <<n, j>>)
        BY DEF Fighters
    <2>1. Count(R, n) < j /\ Count(R, n) \in Nat
        BY DEF Queued, Lined
    <2>2. ~ (j <= Count(R, n))
        BY <2>1
    <2> QED BY <2>2 DEF Lined
<1>7. Lined(J)
    <2> SUFFICES ASSUME NEW n \in Names
                 PROVE  /\ Count(J, n) \in 0..MaxRows
                        /\ \A j \in 1..MaxRows : Used(J, <<n, j>>) <=> j <= Count(J, n)
        BY DEF Lined
    <2> DEFINE c == Count(R, n)
    <2>1. PICK k \in Nat : \A j \in 1..MaxRows : <<n, j>> \in I <=> c < j /\ j <= c + k
        BY DEF Queued
    <2>2. c \in 0..MaxRows /\ \A j \in 1..MaxRows : Used(R, <<n, j>>) <=> j <= c
        BY DEF Lined
    <2> HIDE DEF c
    <2> DEFINE d == IF c + k <= MaxRows THEN c + k ELSE MaxRows
    <2>3. d \in 0..MaxRows /\ MaxRows \in Nat
        BY <2>2, WarAssumption
    <2>4. \A j \in 1..MaxRows : Used(J, <<n, j>>) <=> j <= d
        <3> SUFFICES ASSUME NEW j \in 1..MaxRows PROVE Used(J, <<n, j>>) <=> j <= d
            OBVIOUS
        <3>1. <<n, j>> \in Fighters
            BY DEF Fighters
        <3>2. Used(J, <<n, j>>) <=> <<n, j>> \in I \/ Used(R, <<n, j>>)
            BY <3>1, <1>4, <1>5 DEF Used
        <3>3. j <= d <=> (c < j /\ j <= c + k) \/ j <= c
            BY <2>2, <2>3
        <3> QED BY <3>2, <3>3, <2>1, <2>2
    <2> HIDE DEF d
    <2>5. Count(J, n) = d
        BY <2>3, <2>4, Counting
    <2> QED BY <2>3, <2>4, <2>5
<1> QED BY <1>3, <1>4, <1>5, <1>6, <1>7 DEF J

LEMMA FightersAreFinite == IsFiniteSet(Fighters)
<1>1. IsFiniteSet(Named \cup {Extra, Band})
    <2>1. IsFiniteSet({Extra}) /\ IsFiniteSet({Band})
        BY FS_Singleton
    <2>2. IsFiniteSet({Extra} \cup {Band})
        BY <2>1, FS_Union
    <2>3. {Extra} \cup {Band} = {Extra, Band}
        OBVIOUS
    <2> QED BY <2>2, <2>3, FS_Union, WarAssumption
<1>2. IsFiniteSet(1..MaxRows)
    BY FS_Interval, WarAssumption
<1> QED BY <1>1, <1>2, FS_Product DEF Fighters, Names

\* What there is room for comes into rows of the field.
LEMMA ComingFits ==
    ASSUME Lined(rows), NEW n \in Names, NEW k \in Nat, NEW m \in 0..k, Room(k)
    PROVE  Coming(rows, n, m) \subseteq Fighters
<1> DEFINE c == Count(rows, n)
           U == {i \in Fighters : rows[i].side \in Sides}
<1>1. c \in 0..MaxRows /\ \A j \in 1..MaxRows : Used(rows, <<n, j>>) <=> j <= c
    BY DEF Lined
<1>2. MaxRows \in Nat /\ IsFiniteSet(U)
    BY WarAssumption, FightersAreFinite, FS_Subset
<1>3. Cardinality(U) + k <= MaxRows
    BY DEF Room
<1> HIDE DEF c
<1>4. {n} \X (1..c) \in SUBSET U
    BY <1>1, <1>2 DEF Fighters, Used
<1> HIDE DEF U
<1>5. Cardinality({n} \X (1..c)) = c
    <2>1. IsFiniteSet(1..c) /\ Cardinality(1..c) = c
        BY <1>1, <1>2, FS_Interval
    <2>2. IsFiniteSet({n}) /\ Cardinality({n}) = 1
        BY FS_Singleton
    <2>3. Cardinality({n} \X (1..c)) = 1 * c
        BY <2>1, <2>2, FS_Product
    <2> QED BY <2>3, <1>1
<1>6. c <= Cardinality(U) /\ Cardinality(U) \in Nat
    BY <1>2, <1>4, <1>5, FS_Subset, FS_CardinalityType
<1>7. c + m <= MaxRows
    BY <1>1, <1>2, <1>3, <1>6
<1>8. \A j \in (c + 1)..(c + m) : j \in 1..MaxRows
    BY <1>1, <1>2, <1>7
<1> QED BY <1>8 DEF Coming, c, Fighters

\* The rows are typed, lined up, gone when there is no fight, and hold who committed to a move.
FieldOK ==
    /\ rows \in [Fighters -> Row] /\ fight \in BOOLEAN /\ pending \in Fighters \cup {Nobody}
    /\ Lined(rows)
    /\ fight \/ \A i \in Fighters : rows[i] = NoRow
    /\ IntentNamesAFoe

\* Combatants who join keep the field as it should be.
LEMMA JoinStep ==
    ASSUME FieldOK, wounds \in [Named -> 0..Health], NEW s \in Sides,
           NEW I \in SUBSET Fighters, Queued(rows, I), rows' = Joined(rows, I, s),
           fight' \in BOOLEAN, fight' \/ (~ fight /\ I = {}),
           pending' \in Intent(pending, IF s = "enemy" THEN I ELSE {})
    PROVE  /\ FieldOK'
           /\ \A i \in I : rows'[i].side = s /\ ~ rows'[i].down
           /\ \A i \in Fighters : i \notin I => rows'[i] = rows[i]
<1>1. /\ rows' \in [Fighters -> Row] /\ Lined(rows')
      /\ \A i \in I : ~ Used(rows, i) /\ rows'[i].side = s /\ ~ rows'[i].down
      /\ \A i \in Fighters : i \notin I => rows'[i] = rows[i]
    BY Joining DEF FieldOK
<1>2. fight' \/ \A i \in Fighters : rows'[i] = NoRow
    BY <1>1 DEF FieldOK
<1>3. \/ pending' = pending
      \/ s = "enemy" /\ pending' \in I
    BY DEF Intent
<1>4. pending' \in Fighters \cup {Nobody}
    BY <1>3 DEF FieldOK
<1>5. IntentNamesAFoe'
    <2> SUFFICES ASSUME pending' # Nobody PROVE pending' \in Standing(rows', "enemy")
        BY DEF IntentNamesAFoe
    <2>1. CASE pending' = pending
        <3>1. pending \in Fighters /\ rows[pending].side = "enemy" /\ ~ rows[pending].down
            BY <2>1 DEF FieldOK, IntentNamesAFoe, Standing
        <3>2. pending \notin I
            BY <3>1, <1>1 DEF Used, Sides
        <3> QED BY <2>1, <3>1, <3>2, <1>1 DEF Standing
    <2>2. CASE s = "enemy" /\ pending' \in I
        BY <2>2, <1>1 DEF Standing
    <2> QED BY <1>3, <2>1, <2>2
<1> QED BY <1>1, <1>2, <1>4, <1>5 DEF FieldOK

\* The end of a fight clears the field.
LEMMA OverStep ==
    ASSUME NEW R \in [Fighters -> Row], Lined(R), wounds \in [Named -> 0..Health], FightOver(R)
    PROVE  FieldOK' /\ wounds' \in [Named -> 0..Health] /\ ~ fight'
<1>1. /\ rows' = [i \in Fighters |-> NoRow] /\ ~ fight' /\ fight' \in BOOLEAN /\ pending' = Nobody
      /\ wounds' = CarriedOn(R)
    BY DEF FightOver
<1>2. rows' \in [Fighters -> Row] /\ \A i \in Fighters : rows'[i] = NoRow
    BY <1>1 DEF Row
<1>3. Lined(rows')
    <2> SUFFICES ASSUME NEW n \in Names
                 PROVE  /\ Count(rows', n) \in 0..MaxRows
                        /\ \A j \in 1..MaxRows : Used(rows', <<n, j>>) <=> j <= Count(rows', n)
        BY DEF Lined
    <2>1. \A j \in 1..MaxRows : ~ Used(rows', <<n, j>>)
        BY <1>2 DEF Used, NoRow, Sides, Fighters
    <2>2. \A j \in 1..MaxRows : Used(rows', <<n, j>>) <=> j <= 0
        BY <2>1, WarAssumption
    <2>3. 0 \in 0..MaxRows
        BY WarAssumption
    <2>4. Count(rows', n) = 0
        BY <2>2, <2>3, Counting
    <2> QED BY <2>2, <2>3, <2>4
<1>4. wounds' \in [Named -> 0..Health]
    <2>1. ASSUME NEW n \in Named, Count(R, n) # 0 PROVE R[<<n, Count(R, n)>>].hp \in 0..Health
        <3>1. Count(R, n) \in 1..MaxRows /\ n \in Names
            BY <2>1, WarAssumption DEF Lined, Names
        <3>2. <<n, Count(R, n)>> \in Fighters
            BY <3>1 DEF Fighters
        <3> QED BY <3>2, WarAssumption DEF Row, NoRow
    <2> QED BY <1>1, <2>1 DEF CarriedOn
<1> QED BY <1>1, <1>2, <1>3, <1>4 DEF FieldOK, IntentNamesAFoe

-----------------------------------------------------------------------------
(* Fights: the operations *)

RestOK ==
    /\ battle \in Battles
    /\ wounds \in [Named -> 0..Health] /\ health \in 0..Health
    /\ fell \in BOOLEAN /\ dead \in BOOLEAN
    /\ stage \in {"rest", "battle", "progress"} /\ batch \in {"quiet", "left", "fresh"}
    /\ refused \in BOOLEAN

\* What the combat referee leaves to the battle referee: no member of a cohort without hit
\* points stands, and a fight with no battle around it has a foe, if none was refused.
Ready ==
    stage = "battle" =>
        /\ \A i \in Standing(rows, "enemy") : i[1] = Band => rows[i].hp > 0
        /\ fight => battle.on \/ Standing(rows, "enemy") # {} \/ refused

\* The invariant of fights and battles.
WarInv == FieldOK /\ RestOK /\ Ready

\* The steps of FightsHaveFoes and VictoryIsEarned.
FoesStep ==
    stage = "battle" /\ stage' = "progress" /\ fight' =>
        Standing(rows', "enemy") # {} \/ refused'
VictoryStep ==
    stage = "battle" /\ battle.on /\ battle.counted /\ ~ battle'.on =>
        /\ battle.spawned = Total
        /\ \A i \in Standing(rows, "enemy") : i[1] # Band

LEMMA OtherStep ==
    ASSUME WarInv, FieldOK', RestOK', stage' # "battle",
           stage # "battle" \/ (stage' = "rest" /\ battle' = battle)
    PROVE  WarInv' /\ FoesStep /\ VictoryStep
BY DEF WarInv, Ready, FoesStep, VictoryStep

LEMMA SameField ==
    ASSUME FieldOK, rows' = rows, fight' = fight, pending' \in {pending, Nobody}
    PROVE  FieldOK'
BY DEF FieldOK, IntentNamesAFoe

LEMMA SameSides ==
    ASSUME NEW R, NEW Q, Lined(R), \A i \in Fighters : Q[i].side = R[i].side
    PROVE  Lined(Q)
<1> SUFFICES ASSUME NEW n \in Names
             PROVE  /\ Count(Q, n) \in 0..MaxRows
                    /\ \A j \in 1..MaxRows : Used(Q, <<n, j>>) <=> j <= Count(Q, n)
    BY DEF Lined
<1>1. Count(R, n) \in 0..MaxRows /\ \A j \in 1..MaxRows : Used(R, <<n, j>>) <=> j <= Count(R, n)
    BY DEF Lined
<1>2. \A j \in 1..MaxRows : Used(Q, <<n, j>>) <=> j <= Count(R, n)
    BY <1>1 DEF Used, Fighters
<1>3. Count(Q, n) = Count(R, n)
    BY <1>1, <1>2, Counting
<1> QED BY <1>1, <1>2, <1>3

LEMMA PlacesAreNumbers ==
    ASSUME NEW R, NEW s
    PROVE  /\ Places(R, s) \in Nat
           /\ Places(R, s) = 0 => Cardinality(Standing(R, s)) >= Cap(s)
           /\ Cardinality(Standing(R, s)) \in Nat
<1>1. IsFiniteSet(Standing(R, s))
    BY FightersAreFinite, FS_Subset DEF Standing
<1>2. Cardinality(Standing(R, s)) \in Nat
    BY <1>1, FS_CardinalityType
<1>3. Cap(s) \in Nat
    BY WarAssumption DEF Cap
<1> QED BY <1>2, <1>3 DEF Places

LEMMA LesserIs ==
    ASSUME NEW m \in Nat, NEW n \in Nat
    PROVE  Lesser(m, n) \in 0..m /\ Lesser(m, n) \in 0..n /\ Lesser(m, n) \in {m, n}
BY DEF Lesser

LEMMA NoughtIsFine ==
    0 \in 0..Total /\ 0 \in 0..WaveCap /\ 0 \in -Momentum..Momentum /\ 0 \in 0..Health
BY WarAssumption

LEMMA PeaceIsABattle == Peace \in Battles
BY NoughtIsFine DEF Peace, Battles

LEMMA ClampedIs ==
    ASSUME NEW m \in Int
    PROVE  Clamped(m) \in -Momentum..Momentum
BY WarAssumption DEF Clamped

LEMMA EnterStep ==
    ASSUME WarInv, NEW n \in Named \cup {Extra}, NEW s \in Sides, Enter(n, s)
    PROVE  WarInv' /\ FoesStep /\ VictoryStep
<1> DEFINE I == Coming(rows, n, 1)
<1>1. /\ stage = "rest" /\ Room(1) /\ rows' = Joined(rows, I, s) /\ fight' = TRUE
      /\ pending' \in Intent(pending, IF s = "enemy" THEN I ELSE {})
      /\ batch' \in {"fresh", batch} /\ UNCHANGED <<battle, wounds, Bystanders>>
    BY DEF Enter
<1>2. FieldOK /\ RestOK /\ Lined(rows) /\ n \in Names
    BY DEF WarInv, FieldOK, Names
<1>3. I \in SUBSET Fighters /\ Queued(rows, I)
    BY <1>1, <1>2, ComingFits, ComingIsQueued
<1> HIDE DEF I
<1>4. FieldOK'
    BY <1>1, <1>2, <1>3, JoinStep DEF RestOK
<1>5. RestOK' /\ stage' = "rest"
    BY <1>1, <1>2 DEF RestOK, Bystanders
<1> QED BY <1>1, <1>4, <1>5, OtherStep

LEMMA DeclareStep ==
    ASSUME WarInv, NEW k \in 0..Total, Declare(k)
    PROVE  WarInv' /\ FoesStep /\ VictoryStep
<1> DEFINE asked == Lesser(Total, Places(rows, "enemy"))
           I == Coming(rows, Band, k)
<1>1. /\ stage = "rest" /\ Room(Total) /\ rows' = Joined(rows, I, "enemy")
      /\ fight' = (fight \/ I # {}) /\ pending' \in Intent(pending, I)
      /\ battle' = [Peace EXCEPT !.on = TRUE, !.counted = TRUE, !.opened = asked, !.spawned = k]
      /\ batch' \in {"fresh", batch} /\ UNCHANGED <<wounds, Bystanders>>
    BY DEF Declare
<1>2. FieldOK /\ RestOK /\ Lined(rows) /\ Band \in Names /\ Total \in Nat
    BY WarAssumption DEF WarInv, FieldOK, Names
<1>3. asked \in 0..Total
    BY <1>2, PlacesAreNumbers, LesserIs
<1> HIDE DEF asked
<1>4. I \in SUBSET Fighters /\ Queued(rows, I)
    <2>1. k \in Nat
        BY <1>2
    <2> QED BY <1>1, <1>2, <2>1, ComingFits, ComingIsQueued
<1> HIDE DEF I
<1>5. fight' \in BOOLEAN /\ (fight' \/ (~ fight /\ I = {}))
    BY <1>1, <1>2 DEF FieldOK
<1>6. FieldOK'
    BY <1>1, <1>2, <1>4, <1>5, JoinStep DEF RestOK, Sides
<1>7. battle' \in Battles
    <2>1. battle' = [on |-> TRUE, counted |-> TRUE, spawned |-> k, opened |-> asked,
                     waves |-> 0, momentum |-> 0]
        BY <1>1 DEF Peace
    <2> QED BY <1>3, <2>1, NoughtIsFine DEF Battles
<1>8. RestOK' /\ stage' = "rest"
    BY <1>1, <1>2, <1>7 DEF RestOK, Bystanders
<1> QED BY <1>1, <1>6, <1>8, OtherStep

LEMMA HurtStep ==
    ASSUME WarInv, NEW i \in Fighters, NEW h \in 0..Health, Hurt(i, h)
    PROVE  WarInv' /\ FoesStep /\ VictoryStep
<1>1. /\ stage = "rest" /\ rows[i].side \in Sides /\ rows' = [rows EXCEPT ![i].hp = h]
      /\ UNCHANGED <<fight, pending, battle, wounds, batch, Bystanders>>
    BY DEF Hurt
<1>2. FieldOK /\ RestOK
    BY DEF WarInv
<1>3. rows[i] \in [side : Sides, hp : 0..Health, down : BOOLEAN]
    BY <1>1, <1>2 DEF FieldOK, Row, NoRow, Sides
<1>4. /\ rows' \in [Fighters -> Row]
      /\ \A j \in Fighters : rows'[j].side = rows[j].side /\ rows'[j].down = rows[j].down
    <2>1. [rows[i] EXCEPT !.hp = h] \in Row
        BY <1>3 DEF Row
    <2>2. /\ [rows[i] EXCEPT !.hp = h].side = rows[i].side
          /\ [rows[i] EXCEPT !.hp = h].down = rows[i].down
        BY <1>3
    <2>3. /\ rows'[i] = [rows[i] EXCEPT !.hp = h]
          /\ \A j \in Fighters \ {i} : rows'[j] = rows[j]
        BY <1>1, <1>2 DEF FieldOK
    <2>4. rows' = [j \in Fighters |-> IF j = i THEN [rows[i] EXCEPT !.hp = h] ELSE rows[j]]
        BY <1>1, <1>2 DEF FieldOK
    <2> QED BY <1>2, <2>1, <2>2, <2>3, <2>4 DEF FieldOK
<1>5. Lined(rows')
    BY <1>2, <1>4, SameSides DEF FieldOK
<1>6. fight'
    BY <1>1, <1>2 DEF FieldOK, NoRow, Sides
<1>7. IntentNamesAFoe'
    BY <1>1, <1>2, <1>4 DEF FieldOK, IntentNamesAFoe, Standing
<1>8. FieldOK'
    BY <1>1, <1>2, <1>4, <1>5, <1>6, <1>7 DEF FieldOK
<1>9. RestOK' /\ stage' = "rest"
    BY <1>1, <1>2 DEF RestOK, Bystanders
<1> QED BY <1>1, <1>8, <1>9, OtherStep

LEMMA BattleSteps ==
    ASSUME WarInv,
           \/ \E m \in -Momentum..Momentum : StartBattle(m)
           \/ \E target \in {-Momentum, 0, Momentum} : Tide(target)
           \/ EndBattle
    PROVE  WarInv' /\ FoesStep /\ VictoryStep
<1>1. FieldOK /\ RestOK
    BY DEF WarInv
<1>2. /\ stage = "rest" /\ UNCHANGED <<fight, rows, pending, wounds, batch, Bystanders>>
    BY DEF StartBattle, Tide, EndBattle
<1>3. FieldOK'
    BY <1>1, <1>2, SameField
<1>4. battle' \in Battles
    <2>1. CASE \E m \in -Momentum..Momentum : StartBattle(m)
        <3>1. PICK m \in -Momentum..Momentum : StartBattle(m)
            BY <2>1
        <3>2. battle' = [Peace EXCEPT !.on = TRUE, !.momentum = m]
            BY <3>1 DEF StartBattle
        <3> QED BY <3>2, PeaceIsABattle DEF Battles
    <2>2. CASE \E target \in {-Momentum, 0, Momentum} : Tide(target)
        <3>1. PICK target \in {-Momentum, 0, Momentum} : Tide(target)
            BY <2>2
        <3>2. battle.momentum \in -Momentum..Momentum
            BY <1>1 DEF RestOK, Battles
        <3> DEFINE now == IF target > battle.momentum THEN Clamped(battle.momentum + 1)
                          ELSE IF target < battle.momentum THEN Clamped(battle.momentum - 1)
                          ELSE battle.momentum
        <3>3. battle' = [battle EXCEPT !.momentum = now]
            BY <3>1 DEF Tide
        <3>4. battle.momentum \in Int
            BY <3>2, WarAssumption
        <3>5. now \in -Momentum..Momentum
            BY <3>2, <3>4, ClampedIs
        <3> HIDE DEF now
        <3> QED BY <1>1, <3>3, <3>5 DEF RestOK, Battles
    <2>3. CASE EndBattle
        BY <2>3, PeaceIsABattle DEF EndBattle
    <2> QED BY <2>1, <2>2, <2>3
<1>5. RestOK' /\ stage' = "rest"
    BY <1>1, <1>2, <1>4 DEF RestOK, Bystanders
<1> QED BY <1>2, <1>3, <1>5, OtherStep

LEMMA EndFightStep ==
    ASSUME WarInv, EndFight
    PROVE  WarInv' /\ FoesStep /\ VictoryStep
<1>1. FieldOK /\ RestOK
    BY DEF WarInv
<1>2. stage = "rest" /\ FightOver(rows) /\ UNCHANGED <<battle, batch, Bystanders>>
    BY DEF EndFight
<1>3. FieldOK' /\ wounds' \in [Named -> 0..Health]
    BY <1>1, <1>2, OverStep DEF FieldOK, RestOK
<1>4. RestOK' /\ stage' = "rest"
    BY <1>1, <1>2, <1>3 DEF RestOK, Bystanders
<1> QED BY <1>2, <1>3, <1>4, OtherStep

LEMMA PersonSteps ==
    ASSUME WarInv,
           \/ \E h \in 0..Health, move \in BOOLEAN : HurtPlayer(h, move)
           \/ Leave
           \/ \E n \in Named : Recover(n)
           \/ NextTurn \/ Interrupted
           \/ \E level, lethal, late \in BOOLEAN : Progress(level, lethal, late)
    PROVE  WarInv' /\ FoesStep /\ VictoryStep
<1>1. FieldOK /\ RestOK
    BY DEF WarInv
<1>2. /\ UNCHANGED <<fight, rows, battle>>
      /\ pending' \in {pending, Nobody}
      /\ stage' = "rest"
    BY DEF HurtPlayer, Leave, Recover, NextTurn, Interrupted, Progress, Bystanders
<1>3. FieldOK'
    BY <1>1, <1>2, SameField
<1>4. RestOK'
    <2>1. CASE \E h \in 0..Health, move \in BOOLEAN : HurtPlayer(h, move)
        BY <1>1, <1>2, <2>1 DEF RestOK, HurtPlayer
    <2>2. CASE Leave
        BY <1>1, <1>2, <2>2 DEF RestOK, Leave, Bystanders
    <2>3. CASE \E n \in Named : Recover(n)
        <3>1. PICK n \in Named : Recover(n)
            BY <2>3
        <3>2. wounds' = [wounds EXCEPT ![n] = Health] /\ UNCHANGED <<battle, batch, Bystanders>>
            BY <3>1 DEF Recover
        <3>3. wounds' \in [Named -> 0..Health]
            BY <1>1, <3>2, WarAssumption DEF RestOK
        <3> QED BY <1>1, <1>2, <3>2, <3>3 DEF RestOK, Bystanders
    <2>4. CASE NextTurn
        BY <1>1, <1>2, <2>4 DEF RestOK, NextTurn
    <2>5. CASE Interrupted
        BY <1>1, <1>2, <2>5 DEF RestOK, Interrupted
    <2>6. CASE \E level, lethal, late \in BOOLEAN : Progress(level, lethal, late)
        <3>1. PICK level, lethal, late \in BOOLEAN : Progress(level, lethal, late)
            BY <2>6
        <3>2. /\ health' \in {0, 1, Lesser(health + 1, Health), health}
              /\ dead' \in BOOLEAN /\ fell' \in BOOLEAN /\ refused' \in BOOLEAN /\ UNCHANGED <<wounds, batch>>
            BY <1>1, <3>1 DEF RestOK, Progress
        <3>3. health' \in 0..Health
            BY <1>1, <3>2, WarAssumption DEF RestOK, Lesser
        <3> QED BY <1>1, <1>2, <3>2, <3>3 DEF RestOK
    <2> QED BY <2>1, <2>2, <2>3, <2>4, <2>5, <2>6
<1> QED BY <1>2, <1>3, <1>4, OtherStep

-----------------------------------------------------------------------------
(* Fights: the referees *)

LEMMA NobodyFights ==
    ASSUME FieldOK, ~ fight
    PROVE  /\ \A i \in Fighters : rows[i] = NoRow
           /\ pending = Nobody
           /\ \A n \in Names : Count(rows, n) = 0
<1>1. \A i \in Fighters : rows[i] = NoRow
    BY DEF FieldOK
<1>2. pending = Nobody
    BY <1>1 DEF FieldOK, IntentNamesAFoe, Standing, NoRow
<1>3. ASSUME NEW n \in Names PROVE Count(rows, n) = 0
    <2>1. \A j \in 1..MaxRows : Used(rows, <<n, j>>) <=> j <= 0
        BY <1>1, WarAssumption DEF Used, NoRow, Sides, Fighters
    <2> QED BY <2>1, WarAssumption, Counting
<1> QED BY <1>1, <1>2, <1>3

\* The first rows of a fight.
LEMMA OpensStep ==
    ASSUME FieldOK, RestOK, NEW here \in SUBSET Named, Opens(here)
    PROVE  /\ FieldOK'
           /\ \A i \in Standing(rows', "enemy") : i[1] # Band
           /\ Standing(rows', "enemy") # {} \/ refused'
           /\ refused' \in BOOLEAN /\ UNCHANGED <<battle, wounds>>
<1>1. ~ fight /\ UNCHANGED <<battle, wounds>>
    BY DEF Opens
<1>2. /\ \A i \in Fighters : rows[i] = NoRow
      /\ pending = Nobody
      /\ \A n \in Names : Count(rows, n) = 0
    BY <1>1, NobodyFights
<1>3. PICK H \in SUBSET Named, C \in SUBSET Named, A \in SUBSET Named :
        /\ H # {} /\ refused' = (C # H) /\ A \cap C = {}
        /\ rows' = Joined(Joined(rows, Enlisting(rows, C), "enemy"), Enlisting(rows, A), "ally")
        /\ pending' \in Intent(pending, Enlisting(rows, C))
        /\ fight' = (C \cup A # {})
    BY DEF Opens, Chosen, Willing
<1> DEFINE I == Enlisting(rows, C)
           W == Enlisting(rows, A)
           R == Joined(rows, I, "enemy")
<1>4. /\ \A i \in Fighters : i \in I <=> i[1] \in C /\ i[2] = 1
      /\ \A i \in Fighters : i \in W <=> i[1] \in A /\ i[2] = 1
      /\ \A n \in C : <<n, 1>> \in I
      /\ I \subseteq Fighters
    <2>1. \A n \in Named : Coming(rows, n, 1) = {<<n, 1>>}
        <3> SUFFICES ASSUME NEW n \in Named PROVE Coming(rows, n, 1) = {<<n, 1>>}
            OBVIOUS
        <3>1. Count(rows, n) = 0
            BY <1>2 DEF Names
        <3>2. (Count(rows, n) + 1)..(Count(rows, n) + 1) = {1}
            BY <3>1
        <3> QED BY <3>2 DEF Coming
    <2>2. I = {<<n, 1>> : n \in C}
        BY <2>1 DEF Enlisting
    <2>3. W = {<<n, 1>> : n \in A}
        BY <2>1 DEF Enlisting
    <2>4. 1 \in 1..MaxRows
        BY WarAssumption
    <2> HIDE DEF I, W
    <2> QED BY <2>2, <2>3, <2>4 DEF Fighters, Names
<1>5. Lined(rows) /\ rows \in [Fighters -> Row] /\ wounds \in [Named -> 0..Health]
    BY DEF FieldOK, RestOK
<1>6. Queued(rows, I)
    BY <1>5, EnlistingIsQueued
<1>7. rows' = Joined(R, W, "ally") /\ pending' \in Intent(pending, I)
    BY <1>3
<1> HIDE DEF I, W
<1>8. /\ R \in [Fighters -> Row] /\ Lined(R)
      /\ \A i \in Fighters : i \in I => R[i].side = "enemy" /\ ~ R[i].down
      /\ \A i \in Fighters : i \notin I => R[i] = rows[i]
    BY <1>5, <1>6, Joining DEF Sides
<1> HIDE DEF R
<1>9. Queued(R, W)
    <2> SUFFICES ASSUME NEW n \in Names
                 PROVE  \E k \in Nat : \A j \in 1..MaxRows :
                            <<n, j>> \in W <=> Count(R, n) < j /\ j <= Count(R, n) + k
        BY DEF Queued
    <2>1. \A j \in 1..MaxRows : <<n, j>> \in Fighters
        BY DEF Fighters
    <2>2. Count(R, n) \in Nat
        BY <1>8, WarAssumption DEF Lined
    <2>3. CASE n \in A
        <3>1. \A j \in 1..MaxRows : Used(R, <<n, j>>) <=> j <= 0
            BY <2>1, <2>3, <1>2, <1>3, <1>4, <1>8, WarAssumption DEF Used, NoRow, Sides
        <3>2. Count(R, n) = 0
            BY <3>1, WarAssumption, Counting
        <3>3. \A j \in 1..MaxRows : <<n, j>> \in W <=> j = 1
            BY <2>1, <2>3, <1>4
        <3>4. \A j \in 1..MaxRows : <<n, j>> \in W <=> Count(R, n) < j /\ j <= Count(R, n) + 1
            BY <3>2, <3>3
        <3> QED BY <3>4
    <2>4. CASE n \notin A
        <3>1. \A j \in 1..MaxRows : <<n, j>> \notin W
            BY <2>1, <2>4, <1>4
        <3>2. \A j \in 1..MaxRows : <<n, j>> \in W <=> Count(R, n) < j /\ j <= Count(R, n) + 0
            BY <2>2, <3>1
        <3> QED BY <3>2
    <2> QED BY <2>3, <2>4
<1>10. /\ rows' \in [Fighters -> Row] /\ Lined(rows')
       /\ \A i \in Fighters : i \in W => rows'[i].side = "ally"
       /\ \A i \in Fighters : i \notin W => rows'[i] = R[i]
    BY <1>5, <1>7, <1>8, <1>9, Joining DEF Sides
<1>11. \A i \in I : i \in Standing(rows', "enemy")
    <2> SUFFICES ASSUME NEW i \in I PROVE i \in Standing(rows', "enemy")
        OBVIOUS
    <2>1. i \in Fighters /\ i \notin W
        BY <1>3, <1>4
    <2> QED BY <2>1, <1>8, <1>10 DEF Standing
<1>12. \A i \in Standing(rows', "enemy") : i \in I
    BY <1>2, <1>8, <1>10 DEF Standing, NoRow
<1>13. I = {} => refused'
    BY <1>3, <1>4
<1>14. pending' = Nobody \/ pending' \in I
    BY <1>2, <1>7 DEF Intent
<1>15. fight' \in BOOLEAN /\ (fight' \/ \A i \in Fighters : rows'[i] = NoRow)
    <2>1. CASE C \cup A # {}
        BY <2>1, <1>3
    <2>2. CASE C \cup A = {}
        <3>1. \A i \in Fighters : i \notin I /\ i \notin W
            BY <2>2, <1>4
        <3> QED BY <2>2, <3>1, <1>2, <1>3, <1>8, <1>10
    <2> QED BY <2>1, <2>2
<1>16. FieldOK'
    BY <1>4, <1>10, <1>11, <1>14, <1>15 DEF FieldOK, IntentNamesAFoe
<1>17. \A i \in Standing(rows', "enemy") : i[1] # Band
    <2>1. Band \notin Named
        BY WarAssumption
    <2> QED BY <2>1, <1>4, <1>12
<1> QED BY <1>1, <1>3, <1>11, <1>13, <1>16, <1>17

\* The defeated go down, the others stay as they are, and friends join.
LEMMA SettlesStep ==
    ASSUME FieldOK, RestOK, NEW here \in SUBSET Named, Settles(here)
    PROVE  /\ FieldOK' /\ wounds' \in [Named -> 0..Health] /\ battle' \in Battles
           /\ \A i \in Standing(rows', "enemy") : rows'[i].hp > 0
           /\ fight' => battle'.on \/ Standing(rows', "enemy") # {}
           /\ ~ refused' /\ refused' \in BOOLEAN
<1>0. ~ refused' /\ refused' \in BOOLEAN
    BY DEF Settles
<1>1. PICK A \in SUBSET Named :
        LET field == Beaten(Joined(rows, Enlisting(rows, A), "ally"))
        IN  IF Ends
            THEN /\ FightOver(field)
                 /\ battle' = IF Able(rows) # {} THEN Peace ELSE battle
            ELSE /\ rows' = field
                 /\ \/ pending' = Kept(pending) /\ (Able(rows) = {} \/ pending \in Able(rows))
                    \/ pending' \in Able(rows)
                 /\ UNCHANGED <<fight, battle, wounds>>
    BY DEF Settles, Willing
<1> DEFINE I == Enlisting(rows, A)
           J == Joined(rows, I, "ally")
           F == Beaten(J)
<1>2. /\ Ends => FightOver(F) /\ battle' \in {Peace, battle}
      /\ ~ Ends => /\ rows' = F
                   /\ pending' = Kept(pending) \/ pending' \in Able(rows)
                   /\ UNCHANGED <<fight, battle, wounds>>
    BY <1>1
<1>3. /\ Lined(rows) /\ rows \in [Fighters -> Row] /\ wounds \in [Named -> 0..Health]
      /\ battle \in Battles /\ fight
    BY DEF FieldOK, RestOK, Settles
<1>4. Queued(rows, I)
    BY <1>3, EnlistingIsQueued
<1> HIDE DEF I
<1>5. /\ J \in [Fighters -> Row] /\ Lined(J)
      /\ \A i \in Fighters : i \in I => ~ Used(rows, i) /\ J[i].side = "ally"
      /\ \A i \in Fighters : i \notin I => J[i] = rows[i]
    BY <1>3, <1>4, Joining DEF Sides
<1> HIDE DEF J
<1>6. \A i \in Fallen : J[i] = rows[i] /\ J[i] \in [side : Sides, hp : 0..Health, down : BOOLEAN]
    BY <1>3, <1>5 DEF Fallen, Used, Row, NoRow, Sides
<1>7. /\ \A i \in Fighters : i \notin Fallen => F[i] = J[i]
      /\ \A i \in Fallen : F[i] = [J[i] EXCEPT !.down = TRUE]
      /\ F = [i \in Fighters |-> IF i \in Fallen THEN [J[i] EXCEPT !.down = TRUE] ELSE J[i]]
    BY DEF Beaten, Fallen
<1> HIDE DEF F
<1>8. /\ F \in [Fighters -> Row]
      /\ \A i \in Fighters : F[i].side = J[i].side
      /\ \A i \in Fallen : F[i].down
    <2>1. \A i \in Fallen : /\ [J[i] EXCEPT !.down = TRUE] \in Row
                             /\ [J[i] EXCEPT !.down = TRUE].side = J[i].side
                             /\ [J[i] EXCEPT !.down = TRUE].down
        BY <1>6 DEF Row
    <2>2. \A i \in Fighters : F[i] \in Row
        BY <2>1, <1>5, <1>7
    <2> QED BY <2>1, <2>2, <1>7
<1>9. Lined(F)
    BY <1>5, <1>8, SameSides
<1>10. \A i \in Standing(F, "enemy") : i \notin Fallen /\ F[i] = rows[i]
    <2> SUFFICES ASSUME NEW i \in Standing(F, "enemy")
                 PROVE  i \notin Fallen /\ F[i] = rows[i]
        OBVIOUS
    <2>1. i \in Fighters /\ F[i].side = "enemy" /\ ~ F[i].down
        BY DEF Standing
    <2>2. i \notin Fallen
        BY <2>1, <1>8
    <2>3. i \notin I
        BY <2>1, <1>5, <1>8
    <2> QED BY <2>1, <2>2, <2>3, <1>5, <1>7
<1>11. \A i \in Standing(rows, "enemy") \ Fallen : F[i] = rows[i] /\ i \in Standing(F, "enemy")
    <2> SUFFICES ASSUME NEW i \in Standing(rows, "enemy"), i \notin Fallen
                 PROVE  F[i] = rows[i] /\ i \in Standing(F, "enemy")
        OBVIOUS
    <2>1. i \in Fighters /\ rows[i].side = "enemy" /\ ~ rows[i].down
        BY DEF Standing
    <2>2. i \notin I
        BY <2>1, <1>5 DEF Used, Sides
    <2>3. F[i] = rows[i]
        BY <2>1, <2>2, <1>5, <1>7
    <2> QED BY <2>1, <2>3 DEF Standing
<1>12. CASE Ends
    <2>1. FieldOK' /\ wounds' \in [Named -> 0..Health] /\ ~ fight'
        BY <1>2, <1>3, <1>8, <1>9, <1>12, OverStep
    <2>2. Standing(rows', "enemy") = {}
        BY <2>1 DEF FieldOK, Standing, NoRow
    <2>3. battle' \in Battles
        BY <1>2, <1>3, <1>12, PeaceIsABattle
    <2> QED BY <1>0, <2>1, <2>2, <2>3
<1>13. CASE ~ Ends
    <2>1. /\ rows' = F /\ UNCHANGED <<fight, battle, wounds>>
          /\ pending' = Kept(pending) \/ pending' \in Able(rows)
        BY <1>2, <1>13
    <2>2. \A i \in Standing(F, "enemy") : F[i].hp > 0
        <3> SUFFICES ASSUME NEW i \in Standing(F, "enemy") PROVE F[i].hp > 0
            OBVIOUS
        <3>1. i \in Fighters /\ F[i].side = "enemy" /\ ~ F[i].down
            BY DEF Standing
        <3>2. F[i] = rows[i] /\ i \notin Fallen
            BY <1>10
        <3>3. rows[i] \in [side : Sides, hp : 0..Health, down : BOOLEAN]
            BY <3>1, <3>2, <1>3 DEF Row, NoRow, Sides
        <3>4. rows[i].hp # 0
            BY <3>1, <3>2, <3>3 DEF Fallen
        <3> QED BY <3>2, <3>3, <3>4, WarAssumption
    <2>3. \A i \in Able(rows) : i \in Standing(rows, "enemy") \ Fallen
        BY <1>3, WarAssumption DEF Able, Standing, Fallen, Row
    <2>4. \A i \in Able(rows) : i \in Standing(F, "enemy")
        BY <2>3, <1>11
    <2>5. pending' = Nobody \/ pending' \in Standing(F, "enemy")
        <3>1. CASE pending' \in Able(rows)
            BY <3>1, <2>4
        <3>2. CASE pending' = Kept(pending)
            BY <3>2, <1>11 DEF Kept, FieldOK, IntentNamesAFoe
        <3> QED BY <3>1, <3>2, <2>1
    <2>6. FieldOK'
        <3>1. pending' \in Fighters \cup {Nobody}
            BY <2>5 DEF Standing
        <3> QED BY <3>1, <1>3, <1>8, <1>9, <2>1, <2>5 DEF FieldOK, IntentNamesAFoe
    <2>7. battle'.on \/ Standing(rows', "enemy") # {}
        BY <2>1, <2>4, <1>13 DEF Ends
    <2> QED BY <1>0, <1>3, <2>1, <2>2, <2>6, <2>7
<1> QED BY <1>0, <1>12, <1>13

LEMMA RefereeStep ==
    ASSUME WarInv, NEW here \in SUBSET Named, Referee(here)
    PROVE  WarInv' /\ FoesStep /\ VictoryStep
<1>1. FieldOK /\ RestOK
    BY DEF WarInv
<1>2. stage = "rest" /\ stage' = "battle" /\ UNCHANGED <<health, fell, dead, batch>>
    BY DEF Referee
<1>3. /\ FieldOK' /\ wounds' \in [Named -> 0..Health] /\ battle' \in Battles
      /\ \A i \in Standing(rows', "enemy") : i[1] = Band => rows'[i].hp > 0
      /\ fight' => battle'.on \/ Standing(rows', "enemy") # {} \/ refused'
      /\ refused' \in BOOLEAN
    <2>1. CASE Opens(here)
        <3>1. /\ FieldOK'
              /\ \A i \in Standing(rows', "enemy") : i[1] # Band
              /\ Standing(rows', "enemy") # {} \/ refused'
              /\ refused' \in BOOLEAN /\ UNCHANGED <<battle, wounds>>
            BY <1>1, <2>1, OpensStep
        <3> QED BY <1>1, <3>1 DEF RestOK
    <2>2. CASE StaysQuiet
        <3>1. UNCHANGED <<fight, rows, pending, battle, wounds>> /\ ~ fight /\ refused' = FALSE
            BY <2>2 DEF StaysQuiet
        <3>2. FieldOK'
            BY <1>1, <3>1, SameField
        <3>3. Standing(rows', "enemy") = {}
            BY <1>1, <3>1, NobodyFights DEF Standing, NoRow
        <3> QED BY <1>1, <3>1, <3>2, <3>3 DEF RestOK
    <2>3. CASE Settles(here)
        BY <1>1, <2>3, SettlesStep
    <2> QED BY <2>1, <2>2, <2>3 DEF Referee
<1>4. RestOK'
    BY <1>1, <1>2, <1>3 DEF RestOK
<1>5. Ready'
    BY <1>3 DEF Ready
<1>6. FoesStep /\ VictoryStep
    BY <1>2 DEF FoesStep, VictoryStep
<1> QED BY <1>3, <1>4, <1>5, <1>6 DEF WarInv

\* What a wave may bring, and that nobody of a wave comes only where one stands or is refused.
LEMMA AdmittedIs ==
    ASSUME RestOK, ~ Contested, MoreToCome, NEW k \in Admitted
    PROVE  /\ Admitted \subseteq Nat
           /\ battle.counted => battle.spawned + k \in 0..Total
           /\ k = 0 => k < Sent \/ Standing(rows, "enemy") # {}
<1> DEFINE free == Places(rows, "enemy")
<1>1. free \in Nat /\ (free = 0 => Cardinality(Standing(rows, "enemy")) >= SideCap)
    BY PlacesAreNumbers DEF Cap
<1> HIDE DEF free
<1>2. free = 0 => Standing(rows, "enemy") # {}
    BY <1>1, FS_EmptySet, WarAssumption
<1>3. battle.spawned \in 0..Total /\ Total \in Nat
    BY WarAssumption DEF RestOK, Battles
<1>4. Sent \in Nat /\ (Sent = 0 => free = 0) /\ (battle.counted => Sent \in 0..(Total - battle.spawned))
    <2>1. CASE ~ battle.counted
        <3>1. WaveSize \in Nat \ {0}
            BY WarAssumption
        <3>2. Sent = Lesser(WaveSize, free)
            BY <2>1 DEF Sent, free
        <3>3. Sent \in {WaveSize, free}
            BY <3>1, <3>2, <1>1, LesserIs
        <3> QED BY <2>1, <3>1, <3>3, <1>1
    <2>2. CASE battle.counted
        <3> DEFINE left == Total - battle.spawned
        <3>1. left \in Nat \ {0}
            BY <1>3, <2>2 DEF MoreToCome
        <3>2. Sent = Lesser(left, free)
            BY <2>2 DEF Sent, free
        <3> HIDE DEF left
        <3>3. Sent \in 0..left /\ Sent \in {left, free}
            BY <3>1, <3>2, <1>1, LesserIs
        <3>4. Sent \in Nat /\ (Sent = 0 => free = 0)
            BY <3>1, <3>3, <1>1
        <3> QED BY <3>3, <3>4 DEF left
    <2> QED BY <2>1, <2>2
<1>5. Admitted \subseteq 0..Sent
    BY <1>4 DEF Admitted
<1>6. k \in 0..Sent
    BY <1>5
<1>7. k = 0 => k < Sent \/ Standing(rows, "enemy") # {}
    BY <1>2, <1>4, <1>6
<1>8. battle.counted => battle.spawned + k \in 0..Total
    BY <1>3, <1>4, <1>6
<1> QED BY <1>4, <1>5, <1>7, <1>8

LEMMA WaveStep ==
    ASSUME FieldOK, RestOK, ~ Contested, MoreToCome, NEW k, Wave(k)
    PROVE  /\ FieldOK' /\ wounds' = wounds /\ battle' \in Battles /\ battle'.on
           /\ refused' \in BOOLEAN
           /\ Standing(rows', "enemy") # {} \/ refused'
<1> DEFINE name == IF battle.counted THEN Band ELSE Extra
           I == Coming(rows, name, k)
<1>1. /\ k \in Admitted /\ Room(k) /\ rows' = Joined(rows, I, "enemy")
      /\ fight' = (fight \/ I # {}) /\ pending' \in Intent(pending, I)
      /\ battle' = IF battle.counted
                   THEN [battle EXCEPT !.spawned = @ + k]
                   ELSE [battle EXCEPT !.waves = @ + 1, !.momentum = Clamped(@ + 1)]
      /\ refused' = (refused \/ k < Sent) /\ wounds' = wounds
    BY DEF Wave
<1>2. /\ k \in Nat
      /\ battle.counted => battle.spawned + k \in 0..Total
      /\ k = 0 => k < Sent \/ Standing(rows, "enemy") # {}
    BY <1>1, AdmittedIs
<1>3. Lined(rows) /\ name \in Names /\ Count(rows, name) \in Nat
    BY WarAssumption DEF FieldOK, Names, Lined
<1>4. I \in SUBSET Fighters /\ Queued(rows, I)
    <2>1. k \in 0..k
        BY <1>2
    <2> QED BY <1>1, <1>2, <1>3, <2>1, ComingFits, ComingIsQueued
<1>5. k # 0 => I # {}
    <2> SUFFICES ASSUME k # 0 PROVE I # {}
        OBVIOUS
    <2>1. Count(rows, name) + 1 \in (Count(rows, name) + 1)..(Count(rows, name) + k)
        BY <1>2, <1>3
    <2>2. <<name, Count(rows, name) + 1>> \in I
        BY <2>1 DEF Coming
    <2> QED BY <2>2
<1> HIDE DEF name, I
<1>6. fight' \in BOOLEAN /\ (fight' \/ (~ fight /\ I = {}))
    BY <1>1 DEF FieldOK
<1>7. /\ FieldOK'
      /\ \A i \in I : rows'[i].side = "enemy" /\ ~ rows'[i].down
      /\ \A i \in Fighters : i \notin I => rows'[i] = rows[i]
    BY <1>1, <1>4, <1>6, JoinStep DEF RestOK, Sides
<1>8. battle.on
    BY DEF Contested
<1>9. battle' \in Battles /\ battle'.on
    <2>1. CASE battle.counted
        <3>1. battle' = [battle EXCEPT !.spawned = battle.spawned + k]
            BY <1>1, <2>1
        <3> QED BY <1>2, <1>8, <2>1, <3>1 DEF RestOK, Battles
    <2>2. CASE ~ battle.counted
        <3>1. battle' = [battle EXCEPT !.waves = battle.waves + 1,
                                       !.momentum = Clamped(battle.momentum + 1)]
            BY <1>1, <2>2
        <3>2. battle.waves + 1 \in 0..WaveCap
            BY <2>2, WarAssumption DEF MoreToCome, RestOK, Battles
        <3>3. Clamped(battle.momentum + 1) \in -Momentum..Momentum
            <4>1. battle.momentum + 1 \in Int
                BY WarAssumption DEF RestOK, Battles
            <4> QED BY <4>1, ClampedIs
        <3> QED BY <1>8, <3>1, <3>2, <3>3 DEF RestOK, Battles
    <2> QED BY <2>1, <2>2
<1>10. Standing(rows', "enemy") # {} \/ refused'
    <2>1. CASE I # {}
        BY <1>4, <1>7, <2>1 DEF Standing
    <2>2. CASE k < Sent
        BY <1>1, <2>2
    <2>3. CASE Standing(rows, "enemy") # {} /\ I = {}
        <3>1. \A i \in Standing(rows, "enemy") : i \in Standing(rows', "enemy")
            BY <1>7, <2>3 DEF Standing
        <3> QED BY <2>3, <3>1
    <2> QED BY <1>2, <1>5, <2>1, <2>2, <2>3
<1>11. refused' \in BOOLEAN
    BY <1>1
<1> QED BY <1>1, <1>7, <1>9, <1>10, <1>11

LEMMA BattleStep ==
    ASSUME WarInv, BattlePass
    PROVE  WarInv' /\ FoesStep /\ VictoryStep
<1>1. FieldOK /\ RestOK /\ Ready
    BY DEF WarInv
<1>2. stage = "battle" /\ stage' = "progress" /\ batch' = "quiet" /\ UNCHANGED <<health, fell, dead>>
    BY DEF BattlePass
<1>3. /\ FieldOK' /\ wounds' \in [Named -> 0..Health] /\ battle' \in Battles
      /\ refused' \in BOOLEAN /\ FoesStep /\ VictoryStep
    <2>1. CASE Contested /\ UNCHANGED <<fight, rows, pending, battle, wounds, refused>>
        <3>1. FieldOK'
            BY <1>1, <2>1, SameField
        <3>2. FoesStep
            <4> SUFFICES ASSUME fight PROVE Standing(rows', "enemy") # {} \/ refused'
                BY <2>1 DEF FoesStep
            <4>1. CASE ~ battle.on
                BY <4>1, <1>1, <1>2, <2>1 DEF Ready
            <4>2. CASE Able(rows) # {}
                BY <4>2, <2>1 DEF Able
            <4> QED BY <4>1, <4>2, <2>1 DEF Contested
        <3>3. VictoryStep
            BY <2>1 DEF VictoryStep
        <3> QED BY <1>1, <2>1, <3>1, <3>2, <3>3 DEF RestOK
    <2>2. CASE ~ Contested /\ MoreToCome /\ \E k \in 0..SideCap : Wave(k)
        <3>1. /\ FieldOK' /\ wounds' = wounds /\ battle' \in Battles /\ battle'.on
              /\ refused' \in BOOLEAN
              /\ Standing(rows', "enemy") # {} \/ refused'
            BY <1>1, <2>2, WaveStep
        <3>2. FoesStep /\ VictoryStep
            BY <3>1 DEF FoesStep, VictoryStep
        <3> QED BY <1>1, <3>1, <3>2 DEF RestOK
    <2>3. CASE ~ Contested /\ ~ MoreToCome /\ Won
        <3>1. FightOver(rows) /\ battle' = Peace /\ refused' = refused
            BY <2>3 DEF Won
        <3>2. FieldOK' /\ wounds' \in [Named -> 0..Health] /\ ~ fight'
            BY <1>1, <3>1, OverStep DEF FieldOK, RestOK
        <3>3. VictoryStep
            <4> SUFFICES ASSUME battle.on, battle.counted
                         PROVE  /\ battle.spawned = Total
                                /\ \A i \in Standing(rows, "enemy") : i[1] # Band
                BY DEF VictoryStep
            <4>1. ~ (battle.spawned < Total)
                BY <2>3 DEF MoreToCome
            <4>2. battle.spawned = Total
                BY <4>1, <1>1, WarAssumption DEF RestOK, Battles
            <4>3. Able(rows) = {}
                BY <2>3 DEF Contested
            <4>4. \A i \in Standing(rows, "enemy") : i[1] # Band
                BY <4>3, <1>1, <1>2 DEF Ready, Able
            <4> QED BY <4>2, <4>4
        <3>4. FoesStep
            BY <3>2 DEF FoesStep
        <3> QED BY <1>1, <3>1, <3>2, <3>3, <3>4, PeaceIsABattle DEF RestOK
    <2> QED BY <2>1, <2>2, <2>3 DEF BattlePass
<1>4. RestOK'
    BY <1>1, <1>2, <1>3 DEF RestOK
<1>5. Ready'
    BY <1>2 DEF Ready
<1> QED BY <1>3, <1>4, <1>5 DEF WarInv

-----------------------------------------------------------------------------
(* Fights: the invariant and the theorems *)

LEMMA WarStart == WarInit => WarInv
<1> SUFFICES ASSUME WarInit PROVE WarInv
    OBVIOUS
<1>1. /\ fight = FALSE /\ rows = [i \in Fighters |-> NoRow] /\ pending = Nobody /\ battle = Peace
      /\ wounds = [n \in Named |-> Health] /\ health = Health /\ fell = FALSE /\ dead = FALSE
      /\ stage = "rest" /\ batch = "quiet" /\ refused = FALSE
    BY DEF WarInit
<1>2. rows \in [Fighters -> Row] /\ \A i \in Fighters : rows[i] = NoRow
    BY <1>1 DEF Row
<1>3. Lined(rows)
    <2> SUFFICES ASSUME NEW n \in Names
                 PROVE  /\ Count(rows, n) \in 0..MaxRows
                        /\ \A j \in 1..MaxRows : Used(rows, <<n, j>>) <=> j <= Count(rows, n)
        BY DEF Lined
    <2>1. \A j \in 1..MaxRows : ~ Used(rows, <<n, j>>)
        BY <1>2 DEF Used, NoRow, Sides, Fighters
    <2>2. 0 \in 0..MaxRows /\ \A j \in 1..MaxRows : Used(rows, <<n, j>>) <=> j <= 0
        BY <2>1, WarAssumption
    <2>3. Count(rows, n) = 0
        BY <2>2, Counting
    <2> QED BY <2>2, <2>3
<1>4. FieldOK
    BY <1>1, <1>2, <1>3 DEF FieldOK, IntentNamesAFoe
<1>5. RestOK
    <2>1. Health \in 0..Health
        BY WarAssumption
    <2>2. [n \in Named |-> Health] \in [Named -> 0..Health]
        BY <2>1
    <2>3. battle \in Battles
        BY <1>1, PeaceIsABattle
    <2> QED BY <1>1, <2>1, <2>2, <2>3 DEF RestOK
<1> QED BY <1>1, <1>4, <1>5 DEF WarInv, Ready

LEMMA WarStep == WarInv /\ [WarNext]_warVars =>
                    /\ WarInv'
                    /\ [FoesStep]_warVars
                    /\ [VictoryStep]_warVars
<1> SUFFICES ASSUME WarInv, [WarNext]_warVars
             PROVE  WarInv' /\ (UNCHANGED warVars \/ (FoesStep /\ VictoryStep))
    OBVIOUS
<1>1. ASSUME NEW n \in Named \cup {Extra}, NEW s \in Sides, Enter(n, s)
      PROVE  WarInv' /\ FoesStep /\ VictoryStep
    BY <1>1, EnterStep
<1>2. CASE \/ \E m \in -Momentum..Momentum : StartBattle(m)
           \/ \E target \in {-Momentum, 0, Momentum} : Tide(target)
           \/ EndBattle
    BY <1>2, BattleSteps
<1>3. ASSUME NEW k \in 0..Total, Declare(k)
      PROVE  WarInv' /\ FoesStep /\ VictoryStep
    BY <1>3, DeclareStep
<1>4. ASSUME NEW i \in Fighters, NEW h \in 0..Health, Hurt(i, h)
      PROVE  WarInv' /\ FoesStep /\ VictoryStep
    BY <1>4, HurtStep
<1>5. CASE \/ \E h \in 0..Health, move \in BOOLEAN : HurtPlayer(h, move)
           \/ Leave
           \/ \E n \in Named : Recover(n)
           \/ NextTurn \/ Interrupted
           \/ \E level, lethal, late \in BOOLEAN : Progress(level, lethal, late)
    BY <1>5, PersonSteps
<1>6. CASE EndFight
    BY <1>6, EndFightStep
<1>7. ASSUME NEW here \in SUBSET Named, Referee(here)
      PROVE  WarInv' /\ FoesStep /\ VictoryStep
    BY <1>7, RefereeStep
<1>8. CASE BattlePass
    BY <1>8, BattleStep
<1>9. CASE UNCHANGED warVars
    <2>1. FieldOK'
        BY <1>9, SameField DEF WarInv, warVars
    <2>2. RestOK' /\ Ready'
        BY <1>9 DEF WarInv, warVars, RestOK, Ready, Standing
    <2> QED BY <1>9, <2>1, <2>2 DEF WarInv
<1>10. CASE \E n \in Named \cup {Extra}, s \in Sides : Enter(n, s)
    BY <1>1, <1>10
<1>11. CASE \E k \in 0..Total : Declare(k)
    BY <1>3, <1>11
<1>12. CASE \E i \in Fighters, h \in 0..Health : Hurt(i, h)
    BY <1>4, <1>12
<1>13. CASE \E here \in SUBSET Named : Referee(here)
    BY <1>7, <1>13
<1> QED BY <1>2, <1>5, <1>6, <1>8, <1>9, <1>10, <1>11, <1>12, <1>13 DEF WarNext

\* The field is in order and its move is a foe's in every reachable state, and between the two
\* referees no fallen member of a cohort stands (WarInv).
THEOREM WarInvariant == WarSpec => []WarInv
<1>1. WarInit => WarInv
    BY WarStart
<1>2. WarInv /\ [WarNext]_warVars => WarInv'
    BY WarStep
<1> QED BY <1>1, <1>2, PTL DEF WarSpec

\* The state of fights has its types: no cohort larger than declared, no momentum or wave
\* beyond its bound.
THEOREM FightsAreTyped == WarSpec => []WarTypeOK
<1>1. WarInv => WarTypeOK
    BY DEF WarInv, FieldOK, RestOK, WarTypeOK
<1> QED BY <1>1, WarInvariant, PTL

\* The committed move is that of a foe who stands (combatant_defeat, combat_end,
\* enemy_intent_set, combatant_spawn).
THEOREM IntentsAreFoes == WarSpec => []IntentNamesAFoe
<1>1. WarInv => IntentNamesAFoe
    BY DEF WarInv, FieldOK
<1> QED BY <1>1, WarInvariant, PTL

\* After both referees a fight that is on has a foe who stands, unless one whom these passes sent
\* was refused (combat_ops, battle_ops).
THEOREM FightsKeepFoes == WarSpec => FightsHaveFoes
<1>1. WarInv /\ [WarNext]_warVars => [FoesStep]_warVars
    BY WarStep
<1>2. [FoesStep]_warVars =>
        [stage = "battle" /\ stage' = "progress" /\ fight' =>
            Standing(rows', "enemy") # {} \/ refused']_warVars
    BY DEF FoesStep
<1> QED BY <1>1, <1>2, WarInvariant, PTL DEF WarSpec, FightsHaveFoes

\* A counted battle is won when all have come and none of them stands (battle_ops).
THEOREM VictoriesAreEarned == WarSpec => VictoryIsEarned
<1>1. WarInv /\ [WarNext]_warVars => [VictoryStep]_warVars
    BY WarStep
<1>2. [VictoryStep]_warVars =>
        [stage = "battle" /\ battle.on /\ battle.counted /\ ~ battle'.on =>
            /\ battle.spawned = Total
            /\ \A i \in Standing(rows, "enemy") : i[1] # Band]_warVars
    BY DEF VictoryStep
<1> QED BY <1>1, <1>2, WarInvariant, PTL DEF WarSpec, VictoryIsEarned

-----------------------------------------------------------------------------
(* Items beside fights, as the run explores them *)

\* Whatever of the two a behaviour belongs to, it is a behaviour of both: what is proved of one
\* holds of every behaviour of the run.
THEOREM PlaysRunBoth == PlaySpec => ItemsSpec /\ WarSpec
<1>1. PlayInit => ItemsInit /\ WarInit
    BY DEF PlayInit
<1>2. [PlayNext]_play => [ItemsNext]_itemVars /\ [WarNext]_warVars
    BY DEF PlayNext, play, itemVars, warVars
<1> QED BY <1>1, <1>2, PTL DEF PlaySpec, ItemsSpec, WarSpec

\* The state of both has its types.
THEOREM PlayIsTyped == PlaySpec => []PlayTypeOK
<1>1. ItemsTypeOK /\ WarTypeOK => PlayTypeOK
    BY DEF PlayTypeOK
<1> QED BY <1>1, PlaysRunBoth, ItemsAreTyped, FightsAreTyped, PTL
=============================================================================

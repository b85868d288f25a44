---------------------------- MODULE LessonsProofs ----------------------------
(***************************************************************************)
(* The privacy of the local catalogs: proofs about SchemaMigrations and    *)
(* PlayerLessons, for every number of processes, lessons, revisions,       *)
(* branches and turns.                                                     *)
(***************************************************************************)
EXTENDS PlayerLessons, SchemaMigrations, TLAPS

-----------------------------------------------------------------------------
(* SchemaMigrations *)

\* What an installation that is under way has read still tells what it has to do.
Knows(m) ==
    /\ m.at # "down" /\ ~ m.rebuild => shape # "old"
    /\ m.at \in {"peeked", "ready", "migrated"} /\ ~ m.rebuild /\ ~ m.pending => ~ remains
    /\ m.at \in {"migrated", "scrubbed", "up"} => ledger
    /\ m.at \in {"scrubbed", "up"} => ~ remains

\* What remains in the files is owed a cleanup, and what is in the ledger was done.
SchemaInv ==
    /\ SchemaTypeOK
    /\ remains => owed
    /\ ledger => shape = "current"
    /\ \A h \in Hosts : Knows(host[h])

LEMMA SchemaStep == SchemaInv /\ [SchemaNext]_schemaVars => SchemaInv'
<1> SUFFICES ASSUME SchemaInv, [SchemaNext]_schemaVars PROVE SchemaInv'
    OBVIOUS
<1> USE DEF SchemaInv, SchemaTypeOK, Knows, Phase, Shape
<1>1. CASE UNCHANGED schemaVars
    BY <1>1 DEF schemaVars
<1>2. ASSUME NEW h \in Hosts, Look(h) PROVE SchemaInv'
    BY <1>2 DEF Look, Down
<1>3. ASSUME NEW h \in Hosts, Peek(h) PROVE SchemaInv'
    BY <1>3 DEF Peek
<1>4. ASSUME NEW h \in Hosts, Prepare(h) PROVE SchemaInv'
    BY <1>4 DEF Prepare
<1>5. ASSUME NEW h \in Hosts, Migrate(h) PROVE SchemaInv'
    <2>1. CASE ledger
        BY <1>5, <2>1 DEF Migrate
    <2>2. CASE ~ ledger
        BY <1>5, <2>2 DEF Migrate
    <2> QED BY <2>1, <2>2
<1>6. ASSUME NEW h \in Hosts, Scrub(h) PROVE SchemaInv'
    BY <1>6 DEF Scrub
<1>7. ASSUME NEW h \in Hosts, Clear(h) PROVE SchemaInv'
    BY <1>7 DEF Clear
<1>8. ASSUME NEW h \in Hosts, Serve(h) PROVE SchemaInv'
    BY <1>8 DEF Serve, MustScrub
<1>9. ASSUME NEW h \in Hosts, Stops(h) PROVE SchemaInv'
    BY <1>9 DEF Stops, Down
<1> QED BY <1>1, <1>2, <1>3, <1>4, <1>5, <1>6, <1>7, <1>8, <1>9 DEF SchemaNext

LEMMA SchemaHolds == SchemaSpec => []SchemaInv
<1>1. SchemaInit => SchemaInv
    <2>1. /\ Down \in [at : Phase, rebuild : BOOLEAN, pending : BOOLEAN, committed : BOOLEAN]
          /\ Down.at = "down"
        BY DEF Down, Phase
    <2> QED BY <2>1 DEF SchemaInit, SchemaInv, SchemaTypeOK, Knows
<1> QED BY <1>1, SchemaStep, PTL DEF SchemaSpec

\* The state of the migrations has its types.
THEOREM SchemaIsTyped == SchemaSpec => []SchemaTypeOK
<1>1. SchemaInv => SchemaTypeOK
    BY DEF SchemaInv
<1> QED BY <1>1, SchemaHolds, PTL

\* A catalog with private text is served only when nothing of its old tables is left in the
\* files, whatever crashed and whichever process did the rebuild.
THEOREM ServedCatalogsAreClean == SchemaSpec => []CleanWhenServed
<1>1. SchemaInv => CleanWhenServed
    BY DEF SchemaInv, Knows, CleanWhenServed
<1> QED BY <1>1, SchemaHolds, PTL

-----------------------------------------------------------------------------
(* PlayerLessons: receipts and their copies *)

\* Of each lesson at most one version.
OneVersion(S) == \A u, v \in S : u[1] = v[1] => u = v

\* A receipt has items only when it is frozen.
Sound(r) == OneVersion(r.items) /\ (r.items # {} => r.frozen)

\* What is left of what turn t of branch o was given.
Left(G, L, o, t) == {v \in G[<<o, t>>] : L[v[1]].kept # "gone"}

\* The receipts T are those of the turns G were given, less what is gone, and packets P show
\* nothing that contradicts them.
ReceiptsHold(T, G, L, P) ==
    /\ \A x \in Slot : Sound(T[x])
    /\ \A x \in Slot : T[x].frozen =>
        /\ T[x].origin \in Branches /\ T[<<T[x].origin, x[2]>>].frozen
        /\ T[x].items = Left(G, L, T[x].origin, x[2])
    /\ \A p \in P : \A v \in p.shows :
        /\ T[<<p.branch, p.turn>>].frozen
        /\ \A u \in T[<<p.branch, p.turn>>].items : u[1] = v[1] => u = v

\* Nothing of the lesson l is in the receipts T.
Clean(T, l) ==
    \A x \in Slot : \A v \in Version : v[1] = l => v \notin T[x].items \cup T[x].marked

\* U is T with the receipt at x replaced by a copy of another, if there was none.
Copied(T, U, x) ==
    /\ U \in [Slot -> ReceiptRow]
    /\ \A y \in Slot \ {x} : U[y] = T[y]
    /\ \/ U[x] = T[x]
       \/ /\ ~ T[x].frozen /\ U[x].frozen
          /\ \E a \in Branches : LET y == <<a, x[2]>> IN
                /\ T[y].frozen /\ U[x].origin = T[y].origin
                /\ U[x].items = T[y].items /\ U[x].marked \subseteq T[y].marked

LEMMA EnsuredCopies ==
    ASSUME NEW T \in [Slot -> ReceiptRow], NEW b \in Branches, NEW t \in 0..LastTurn,
           NEW marks \in BOOLEAN
    PROVE  Copied(T, Ensured(T, b, t, marks), <<b, t>>)
<1> DEFINE a == Ancestor(T, b, t)
<1> HIDE DEF a
<1>1. Ensured(T, b, t, marks) =
        IF ~ T[<<b, t>>].frozen /\ a \in Branches /\ T[<<a, t>>].frozen
        THEN [T EXCEPT ![<<b, t>>] = Clone(T, a, t, marks)] ELSE T
    BY DEF Ensured, a
<1>2. CASE ~ T[<<b, t>>].frozen /\ a \in Branches /\ T[<<a, t>>].frozen
    <2> DEFINE r == T[<<a, t>>]
               c == Clone(T, a, t, marks)
    <2>1. r \in ReceiptRow /\ <<b, t>> \in Slot
        BY <1>2 DEF Slot
    <2>2. /\ c \in ReceiptRow /\ c.frozen = r.frozen /\ c.origin = r.origin
          /\ c.items = r.items /\ c.marked \subseteq r.marked
        BY <2>1 DEF Clone, ReceiptRow
    <2> HIDE DEF c
    <2>3. Ensured(T, b, t, marks) = [T EXCEPT ![<<b, t>>] = c]
        BY <1>1, <1>2 DEF c
    <2> QED BY <1>2, <2>1, <2>2, <2>3 DEF Copied
<1>3. CASE ~ (~ T[<<b, t>>].frozen /\ a \in Branches /\ T[<<a, t>>].frozen)
    BY <1>1, <1>3 DEF Copied
<1> QED BY <1>2, <1>3

LEMMA CopiesHold ==
    ASSUME NEW T \in [Slot -> ReceiptRow], NEW U, NEW x \in Slot, Copied(T, U, x),
           NEW G, NEW L, NEW P \in SUBSET Packet
    PROVE  /\ ReceiptsHold(T, G, L, P) => ReceiptsHold(U, G, L, P)
           /\ \A l \in Lessons : Clean(T, l) => Clean(U, l)
           /\ \A y \in Slot : T[y].frozen => U[y] = T[y]
           /\ ~ U[x].frozen => U = T
<1>1. \A y \in Slot : T[y].frozen => U[y] = T[y]
    BY DEF Copied
<1>2. ~ U[x].frozen => U = T
    BY DEF Copied
<1>3. \A l \in Lessons : Clean(T, l) => Clean(U, l)
    <2> SUFFICES ASSUME NEW l \in Lessons, Clean(T, l), NEW y \in Slot, NEW v \in Version,
                        v[1] = l
                 PROVE  v \notin U[y].items \cup U[y].marked
        BY DEF Clean
    <2>1. CASE U[y] = T[y]
        BY <2>1 DEF Clean
    <2>2. CASE U[y] # T[y]
        <3>1. y = x /\ x[2] \in 0..LastTurn
            BY <2>2 DEF Copied, Slot
        <3>2. PICK a \in Branches : U[x].items = T[<<a, x[2]>>].items /\ U[x].marked \subseteq T[<<a, x[2]>>].marked
            BY <2>2, <3>1 DEF Copied
        <3>3. <<a, x[2]>> \in Slot
            BY <3>1 DEF Slot
        <3> QED BY <3>1, <3>2, <3>3 DEF Clean
    <2> QED BY <2>1, <2>2
<1>4. ASSUME ReceiptsHold(T, G, L, P) PROVE ReceiptsHold(U, G, L, P)
    <2>1. ASSUME NEW y \in Slot
          PROVE  /\ Sound(U[y])
                 /\ U[y].frozen =>
                      /\ U[y].origin \in Branches /\ U[<<U[y].origin, y[2]>>].frozen
                      /\ U[y].items = Left(G, L, U[y].origin, y[2])
        <3>1. PICK z \in Slot : /\ z[2] = y[2] /\ U[y].items = T[z].items
                                /\ U[y].frozen => T[z].frozen /\ U[y].origin = T[z].origin
                                /\ T[z].frozen => U[y].frozen
            <4>1. CASE U[y] = T[y]
                BY <4>1
            <4>2. CASE U[y] # T[y]
                <5>1. y = x /\ x[2] \in 0..LastTurn
                    BY <4>2 DEF Copied, Slot
                <5>2. PICK a \in Branches : LET w == <<a, x[2]>> IN
                          /\ T[w].frozen /\ U[x].frozen
                          /\ U[x].origin = T[w].origin /\ U[x].items = T[w].items
                    BY <4>2, <5>1 DEF Copied
                <5>3. <<a, x[2]>> \in Slot
                    BY <5>1 DEF Slot
                <5> QED BY <5>1, <5>2, <5>3
            <4> QED BY <4>1, <4>2
        <3>2. Sound(T[z])
            BY <1>4 DEF ReceiptsHold
        <3>3. T[z].frozen =>
                 /\ T[z].origin \in Branches /\ T[<<T[z].origin, z[2]>>].frozen
                 /\ T[z].items = Left(G, L, T[z].origin, z[2])
            BY <1>4 DEF ReceiptsHold
        <3>4. \A o \in Branches : <<o, y[2]>> \in Slot
            BY DEF Slot
        <3>5. Sound(U[y])
            BY <3>1, <3>2 DEF Sound
        <3>6. ASSUME U[y].frozen
              PROVE  /\ U[y].origin \in Branches /\ U[<<U[y].origin, y[2]>>].frozen
                     /\ U[y].items = Left(G, L, U[y].origin, y[2])
            <4>1. T[z].frozen /\ U[y].origin = T[z].origin
                BY <3>1, <3>6
            <4>2. U[y].origin \in Branches /\ T[<<U[y].origin, y[2]>>].frozen
                BY <3>1, <3>3, <4>1
            <4>3. U[<<U[y].origin, y[2]>>].frozen
                BY <1>1, <3>4, <4>2
            <4>4. T[z].items = Left(G, L, T[z].origin, z[2])
                BY <3>3, <4>1
            <4> QED BY <3>1, <4>1, <4>2, <4>3, <4>4
        <3> QED BY <3>5, <3>6
    <2>2. ASSUME NEW p \in P, NEW v \in p.shows
          PROVE  /\ U[<<p.branch, p.turn>>].frozen
                 /\ \A u \in U[<<p.branch, p.turn>>].items : u[1] = v[1] => u = v
        <3>1. <<p.branch, p.turn>> \in Slot
            BY DEF Slot, Packet
        <3>2. /\ T[<<p.branch, p.turn>>].frozen
              /\ \A u \in T[<<p.branch, p.turn>>].items : u[1] = v[1] => u = v
            BY <1>4, <2>2 DEF ReceiptsHold
        <3> QED BY <1>1, <3>1, <3>2
    <2> QED BY <2>1, <2>2 DEF ReceiptsHold
<1> QED BY <1>1, <1>2, <1>3, <1>4

\* Correction and disabling take nothing away, and dropping packets contradicts nothing.
LEMMA ChangesHold ==
    ASSUME NEW T, NEW G \in [Slot -> SUBSET Version], NEW L, NEW M, NEW P, NEW Q \in SUBSET P,
           \A l \in Lessons : M[l].kept = "gone" <=> L[l].kept = "gone",
           \A x \in Slot : T[x].frozen => T[x].origin \in Branches,
           ReceiptsHold(T, G, L, P)
    PROVE  ReceiptsHold(T, G, M, Q)
<1>1. ASSUME NEW o \in Branches, NEW x \in Slot PROVE Left(G, M, o, x[2]) = Left(G, L, o, x[2])
    <2>1. G[<<o, x[2]>>] \subseteq Version
        BY DEF Slot
    <2>2. \A v \in G[<<o, x[2]>>] : v[1] \in Lessons
        BY <2>1 DEF Version
    <2> QED BY <2>2 DEF Left
<1> QED BY <1>1 DEF ReceiptsHold

\* A packet that shows what its receipt holds.
LEMMA PacketHolds ==
    ASSUME NEW T, NEW G, NEW L, NEW P, NEW p,
           \A v \in p.shows : v \in T[<<p.branch, p.turn>>].items,
           p.shows # {} => T[<<p.branch, p.turn>>].frozen,
           <<p.branch, p.turn>> \in Slot,
           ReceiptsHold(T, G, L, P)
    PROVE  ReceiptsHold(T, G, L, P \cup {p})
BY DEF ReceiptsHold, Sound, OneVersion

\* The receipt of turn t of branch b is S, and S is what the turn is given.
Freeze(T, b, t, S) == [T EXCEPT ![<<b, t>>] = Frozen(b, S)]
Give(G, b, t, S)   == [G EXCEPT ![<<b, t>>] = S]

\* A receipt is frozen for a turn that had none.
LEMMA FreezeHolds ==
    ASSUME NEW T \in [Slot -> ReceiptRow], NEW G \in [Slot -> SUBSET Version], NEW L,
           NEW b \in Branches, NEW t \in 0..LastTurn, NEW S \in SUBSET Version,
           ~ T[<<b, t>>].frozen, OneVersion(S), \A v \in S : L[v[1]].kept # "gone",
           NEW P \in SUBSET Packet
    PROVE  /\ Freeze(T, b, t, S) \in [Slot -> ReceiptRow]
           /\ \A l \in Lessons : Clean(T, l) /\ (\A v \in S : v[1] # l)
                => Clean(Freeze(T, b, t, S), l)
           /\ ReceiptsHold(T, G, L, P)
                => ReceiptsHold(Freeze(T, b, t, S), Give(G, b, t, S), L, P)
<1> DEFINE U == Freeze(T, b, t, S)
           H == Give(G, b, t, S)
           x == <<b, t>>
           f == Frozen(b, S)
<1>1. x \in Slot /\ x[2] = t
    BY DEF Slot
<1>2. /\ f \in ReceiptRow /\ f.frozen /\ f.origin = b /\ f.items = S /\ f.marked = {}
    BY DEF Frozen, ReceiptRow
<1>7. U = [T EXCEPT ![x] = f] /\ H = [G EXCEPT ![x] = S]
    BY DEF Freeze, Give
<1> HIDE DEF f, U, H
<1>3. U \in [Slot -> ReceiptRow] /\ U[x] = f /\ \A y \in Slot \ {x} : U[y] = T[y]
    BY <1>1, <1>2, <1>7
<1>4. H[x] = S /\ \A y \in Slot \ {x} : H[y] = G[y]
    BY <1>1, <1>7
<1> HIDE DEF x
<1>5. \A l \in Lessons : Clean(T, l) /\ (\A v \in S : v[1] # l) => Clean(U, l)
    BY <1>2, <1>3 DEF Clean
<1>6. ASSUME ReceiptsHold(T, G, L, P) PROVE ReceiptsHold(U, H, L, P)
    <2>1. \A y \in Slot : Sound(U[y])
        BY <1>2, <1>3, <1>6 DEF ReceiptsHold, Sound
    <2>2. ASSUME NEW y \in Slot, U[y].frozen
          PROVE  /\ U[y].origin \in Branches /\ U[<<U[y].origin, y[2]>>].frozen
                 /\ U[y].items = Left(H, L, U[y].origin, y[2])
        <3>1. CASE y = x
            <4>1. <<U[y].origin, y[2]>> = x
                BY <1>1, <1>2, <1>3, <3>1 DEF x
            <4>2. Left(H, L, U[y].origin, y[2]) = S
                BY <1>4, <4>1 DEF Left
            <4> QED BY <1>2, <1>3, <3>1, <4>1, <4>2
        <3>2. CASE y # x
            <4> DEFINE z == <<T[y].origin, y[2]>>
            <4>1. U[y] = T[y] /\ T[y].frozen
                BY <1>3, <2>2, <3>2
            <4>2. /\ T[y].origin \in Branches /\ T[z].frozen
                  /\ T[y].items = Left(G, L, T[y].origin, y[2])
                BY <1>6, <4>1 DEF ReceiptsHold
            <4>3. z \in Slot /\ z # x
                BY <4>2 DEF Slot, x
            <4>4. U[z].frozen /\ H[z] = G[z]
                BY <1>3, <1>4, <4>2, <4>3
            <4>5. Left(H, L, T[y].origin, y[2]) = Left(G, L, T[y].origin, y[2])
                BY <4>4 DEF Left
            <4> QED BY <4>1, <4>2, <4>4, <4>5
        <3> QED BY <3>1, <3>2
    <2>3. ASSUME NEW p \in P, NEW v \in p.shows
          PROVE  /\ U[<<p.branch, p.turn>>].frozen
                 /\ \A u \in U[<<p.branch, p.turn>>].items : u[1] = v[1] => u = v
        <3>1. <<p.branch, p.turn>> \in Slot
            BY DEF Slot, Packet
        <3>2. /\ T[<<p.branch, p.turn>>].frozen
              /\ \A u \in T[<<p.branch, p.turn>>].items : u[1] = v[1] => u = v
            BY <1>6, <2>3 DEF ReceiptsHold
        <3> QED BY <1>3, <3>1, <3>2 DEF x
    <2> QED BY <2>1, <2>2, <2>3 DEF ReceiptsHold
<1> QED BY <1>3, <1>5, <1>6 DEF U, H

\* U is T with more of its items marked.
Marks(T, U) ==
    /\ U \in [Slot -> ReceiptRow]
    /\ \A x \in Slot :
        /\ U[x].frozen = T[x].frozen /\ U[x].origin = T[x].origin /\ U[x].items = T[x].items
        /\ U[x].marked \subseteq T[x].marked \cup T[x].items

LEMMA MarksHold ==
    ASSUME NEW T \in [Slot -> ReceiptRow], NEW U, Marks(T, U), NEW G, NEW L,
           NEW P \in SUBSET Packet
    PROVE  /\ ReceiptsHold(T, G, L, P) => ReceiptsHold(U, G, L, P)
           /\ \A l \in Lessons : Clean(T, l) => Clean(U, l)
<1>1. \A l \in Lessons : Clean(T, l) => Clean(U, l)
    BY DEF Marks, Clean
<1>2. ASSUME ReceiptsHold(T, G, L, P) PROVE ReceiptsHold(U, G, L, P)
    <2>1. \A p \in P : <<p.branch, p.turn>> \in Slot
        BY DEF Slot, Packet
    <2>2. \A o \in Branches, x \in Slot : <<o, x[2]>> \in Slot
        BY DEF Slot
    <2>3. ASSUME NEW x \in Slot, U[x].frozen
          PROVE  /\ U[x].origin \in Branches /\ U[<<U[x].origin, x[2]>>].frozen
                 /\ U[x].items = Left(G, L, U[x].origin, x[2])
        <3>1. T[x].frozen /\ U[x].origin = T[x].origin /\ U[x].items = T[x].items
            BY <2>3 DEF Marks
        <3>2. /\ T[x].origin \in Branches /\ T[<<T[x].origin, x[2]>>].frozen
              /\ T[x].items = Left(G, L, T[x].origin, x[2])
            BY <1>2, <3>1 DEF ReceiptsHold
        <3>3. U[<<T[x].origin, x[2]>>].frozen
            BY <2>2, <3>2 DEF Marks
        <3> QED BY <3>1, <3>2, <3>3
    <2>4. \A x \in Slot : Sound(U[x])
        BY <1>2 DEF ReceiptsHold, Sound, Marks
    <2>5. ASSUME NEW p \in P, NEW v \in p.shows
          PROVE  /\ U[<<p.branch, p.turn>>].frozen
                 /\ \A u \in U[<<p.branch, p.turn>>].items : u[1] = v[1] => u = v
        BY <1>2, <2>1 DEF ReceiptsHold, Marks
    <2> QED BY <2>3, <2>4, <2>5 DEF ReceiptsHold
<1> QED BY <1>1, <1>2

\* The receipt at x gets the marks M as well.
LEMMA MarkingMarks ==
    ASSUME NEW T \in [Slot -> ReceiptRow], NEW x \in Slot, NEW M \in SUBSET Version,
           M \subseteq T[x].items
    PROVE  Marks(T, [T EXCEPT ![x].marked = @ \cup M])
<1> DEFINE r == [T[x] EXCEPT !.marked = @ \cup M]
<1>1. /\ r \in ReceiptRow /\ r.frozen = T[x].frozen /\ r.origin = T[x].origin
      /\ r.items = T[x].items /\ r.marked = T[x].marked \cup M
    BY DEF ReceiptRow
<1>2. [T EXCEPT ![x].marked = @ \cup M] = [T EXCEPT ![x] = r]
    OBVIOUS
<1> HIDE DEF r
<1> QED BY <1>1, <1>2 DEF Marks

LEMMA RepairMarks ==
    ASSUME NEW T \in [Slot -> ReceiptRow], NEW p \in Packet
    PROVE  Marks(T, Repaired(T, p))
<1>1. <<p.branch, p.turn>> \in Slot /\ p.owed \in SUBSET Version
    BY DEF Slot, Packet
<1>2. CASE p.owed \subseteq T[<<p.branch, p.turn>>].items
    BY <1>1, <1>2, MarkingMarks DEF Repaired
<1>3. CASE ~ (p.owed \subseteq T[<<p.branch, p.turn>>].items)
    BY <1>3 DEF Repaired, Marks
<1> QED BY <1>2, <1>3

LEMMA DeletionHolds ==
    ASSUME NEW T \in [Slot -> ReceiptRow], NEW G \in [Slot -> SUBSET Version],
           NEW L \in [Lessons -> LessonRow], NEW M \in [Lessons -> LessonRow],
           NEW k \in Lessons, M[k].kept = "gone", \A l \in Lessons \ {k} : M[l] = L[l],
           NEW P \in SUBSET Packet, NEW Q \in SUBSET P
    PROVE  /\ Deleted(T, k) \in [Slot -> ReceiptRow]
           /\ Clean(Deleted(T, k), k)
           /\ \A l \in Lessons : Clean(T, l) => Clean(Deleted(T, k), l)
           /\ ReceiptsHold(T, G, L, P) => ReceiptsHold(Deleted(T, k), G, M, Q)
<1> DEFINE U == Deleted(T, k)
<1>1. ASSUME NEW x \in Slot
      PROVE  /\ U[x] \in ReceiptRow /\ U[x].frozen = T[x].frozen /\ U[x].origin = T[x].origin
             /\ U[x].items = {v \in T[x].items : v[1] # k}
             /\ U[x].marked = {v \in T[x].marked : v[1] # k}
    <2> DEFINE r == T[x]
    <2>1. r \in ReceiptRow
        OBVIOUS
    <2> HIDE DEF r
    <2>2. U[x] = [r EXCEPT !.items = {v \in @ : v[1] # k}, !.marked = {v \in @ : v[1] # k}]
        BY DEF Deleted, r
    <2> HIDE DEF U
    <2>3. {v \in r.items : v[1] # k} \in SUBSET Version /\ {v \in r.marked : v[1] # k} \in SUBSET Version
        BY <2>1 DEF ReceiptRow
    <2> QED BY <2>1, <2>2, <2>3 DEF ReceiptRow, r
<1>2. U \in [Slot -> ReceiptRow]
    BY <1>1 DEF Deleted
<1> HIDE DEF U
<1>3. Clean(U, k)
    BY <1>1 DEF Clean
<1>4. \A l \in Lessons : Clean(T, l) => Clean(U, l)
    BY <1>1 DEF Clean
<1>5. ASSUME ReceiptsHold(T, G, L, P) PROVE ReceiptsHold(U, G, M, Q)
    <2>1. \A p \in P : <<p.branch, p.turn>> \in Slot
        BY DEF Slot, Packet
    <2>2. \A o \in Branches, x \in Slot : <<o, x[2]>> \in Slot
        BY DEF Slot
    <2>3. ASSUME NEW x \in Slot, U[x].frozen
          PROVE  /\ U[x].origin \in Branches /\ U[<<U[x].origin, x[2]>>].frozen
                 /\ U[x].items = Left(G, M, U[x].origin, x[2])
        <3> DEFINE o == T[x].origin
        <3>1. T[x].frozen /\ U[x].origin = o /\ U[x].items = {v \in T[x].items : v[1] # k}
            BY <1>1, <2>3
        <3>2. o \in Branches /\ T[<<o, x[2]>>].frozen /\ T[x].items = Left(G, L, o, x[2])
            BY <1>5, <3>1 DEF ReceiptsHold
        <3>3. U[<<o, x[2]>>].frozen
            BY <1>1, <2>2, <3>2
        <3> HIDE DEF o
        <3>4. G[<<o, x[2]>>] \in SUBSET Version
            BY <2>2, <3>2
        <3>5. \A v \in G[<<o, x[2]>>] : v[1] \in Lessons
            BY <3>4 DEF Version
        <3>6. {v \in Left(G, L, o, x[2]) : v[1] # k} = Left(G, M, o, x[2])
            BY <3>5 DEF Left
        <3> QED BY <3>1, <3>2, <3>3, <3>6
    <2>4. \A x \in Slot : Sound(U[x])
        BY <1>1, <1>5 DEF ReceiptsHold, Sound, OneVersion
    <2>5. ASSUME NEW p \in Q, NEW v \in p.shows
          PROVE  /\ U[<<p.branch, p.turn>>].frozen
                 /\ \A u \in U[<<p.branch, p.turn>>].items : u[1] = v[1] => u = v
        BY <1>1, <1>5, <2>1 DEF ReceiptsHold
    <2> QED BY <2>3, <2>4, <2>5 DEF ReceiptsHold
<1> QED BY <1>2, <1>3, <1>4, <1>5 DEF U

-----------------------------------------------------------------------------
(* PlayerLessons: the steps *)

LessonsInv == LessonsTypeOK /\ ReceiptsHold(receipt, given, lesson, packets) /\ RemovedIsGone

\* The step of ServedIsCurrent.
ServedStep ==
    \A c \in Connections : post'[c] # post[c] /\ post'[c] # Nowhere =>
        \A v \in post'[c].shows : Usable(v)

\* What RemovedIsGone says of one lesson.
PacketsClean(P, l) == \A p \in P : l \notin p.meant /\ \A v \in p.shows : v[1] # l
Purged(l) ==
    /\ lesson[l].kept = "gone" /\ l \notin residue
    /\ Clean(receipt, l) /\ Clean(intent, l) /\ PacketsClean(packets, l)

LEMMA RemovedArePurged == RemovedIsGone <=> \A l \in removed : Purged(l)
BY DEF RemovedIsGone, Purged, Clean, PacketsClean

LEMMA OriginsAreBranches ==
    ReceiptsHold(receipt, given, lesson, packets)
        => \A x \in Slot : receipt[x].frozen => receipt[x].origin \in Branches
BY DEF ReceiptsHold

LEMMA ForgottenIsClean ==
    ASSUME NEW P \in SUBSET Packet, NEW l \in Lessons
    PROVE  /\ Forgotten(P, l) \in SUBSET P /\ PacketsClean(Forgotten(P, l), l)
           /\ \A k \in Lessons : PacketsClean(P, k) => PacketsClean(Forgotten(P, l), k)
BY DEF Forgotten, PacketsClean

LEMMA NextRevision ==
    ASSUME NEW r \in LessonRow, NEW e \in BOOLEAN, r.kept = "kept", r.revision < MaxRevision
    PROVE  LET q == [r EXCEPT !.revision = @ + 1, !.enabled = e] IN
           q \in LessonRow /\ q.kept = "kept"
<1> DEFINE q1 == [r EXCEPT !.revision = @ + 1]
<1>1. q1 \in LessonRow /\ q1.kept = "kept"
    BY LessonsAssumption DEF LessonRow
<1>2. [r EXCEPT !.revision = @ + 1, !.enabled = e] = [q1 EXCEPT !.enabled = e]
    OBVIOUS
<1> HIDE DEF q1
<1>3. [q1 EXCEPT !.enabled = e] \in LessonRow /\ [q1 EXCEPT !.enabled = e].kept = "kept"
    BY <1>1 DEF LessonRow
<1> QED BY <1>2, <1>3

\* A lesson is written, and not removed.
LEMMA WritingSteps ==
    ASSUME LessonsInv, NEW l \in Lessons,
           \/ \E means \in BOOLEAN : CreateLesson(l, means)
           \/ Correct(l) \/ \E e \in BOOLEAN : SetEnabled(l, e)
    PROVE  LessonsInv' /\ ServedStep
<1> USE DEF LessonsInv, LessonsTypeOK
<1>1. /\ UNCHANGED <<branch, receipt, intent, post, removed, given>>
      /\ stale' \in SUBSET Lessons /\ packets' \in SUBSET packets
      /\ residue' = residue \/ (residue' = residue \cup {l} /\ lesson[l].kept = "new")
    BY ForgottenIsClean DEF CreateLesson, Correct, SetEnabled
<1> DEFINE Written ==
        /\ lesson' \in [Lessons -> LessonRow]
        /\ \A k \in Lessons : lesson'[k].kept = "gone" <=> lesson[k].kept = "gone"
<1>2. Written
    <2>1. ASSUME NEW means \in BOOLEAN, CreateLesson(l, means) PROVE Written
        <3>1. [kept |-> "kept", revision |-> 1, enabled |-> TRUE, means |-> means] \in LessonRow
            BY LessonsAssumption DEF LessonRow
        <3> QED BY <2>1, <3>1 DEF CreateLesson
    <2>2. CASE Correct(l)
        <3> DEFINE r == [lesson[l] EXCEPT !.revision = @ + 1]
        <3>1. r \in LessonRow /\ r.kept = "kept" /\ lesson[l].kept = "kept"
            BY <2>2, LessonsAssumption DEF Correct, LessonRow
        <3>2. lesson' = [lesson EXCEPT ![l] = r]
            BY <2>2 DEF Correct
        <3> HIDE DEF r
        <3> QED BY <3>1, <3>2
    <2>3. ASSUME NEW e \in BOOLEAN, SetEnabled(l, e) PROVE Written
        <3> DEFINE r == [lesson[l] EXCEPT !.revision = @ + 1, !.enabled = e]
        <3>0. /\ lesson[l] \in LessonRow /\ lesson[l].kept = "kept"
              /\ lesson[l].revision < MaxRevision
            BY <2>3 DEF SetEnabled
        <3>1. r \in LessonRow /\ r.kept = "kept" /\ lesson[l].kept = "kept"
            BY <3>0, NextRevision
        <3>2. lesson' = [lesson EXCEPT ![l] = r]
            BY <2>3 DEF SetEnabled
        <3> HIDE DEF r
        <3> QED BY <3>1, <3>2
    <2> QED BY <2>1, <2>2, <2>3
<1>3. LessonsTypeOK'
    BY <1>1, <1>2
<1>4. ReceiptsHold(receipt, given, lesson, packets)'
    BY <1>1, <1>2, ChangesHold, OriginsAreBranches
<1>5. ASSUME NEW k \in removed PROVE Purged(k)'
    <2>1. k \in Lessons /\ Purged(k)
        BY RemovedArePurged
    <2>2. lesson'[k].kept = "gone" /\ k \notin residue'
        BY <1>1, <1>2, <2>1 DEF Purged
    <2>3. PacketsClean(packets', k)
        BY <1>1, <2>1 DEF Purged, PacketsClean
    <2> QED BY <1>1, <2>1, <2>2, <2>3 DEF Purged
<1>6. RemovedIsGone'
    BY <1>1, <1>5 DEF RemovedIsGone, Purged, Clean, PacketsClean
<1>7. ServedStep
    BY <1>1 DEF ServedStep
<1> QED BY <1>3, <1>4, <1>6, <1>7

LEMMA LexSteps ==
    ASSUME LessonsInv, NEW l \in Lessons, LexChanges(l)
    PROVE  LessonsInv' /\ ServedStep
<1>1. /\ stale' \in SUBSET Lessons
      /\ UNCHANGED <<lesson, branch, receipt, intent, residue, packets, post, removed, given>>
    BY DEF LexChanges, LessonsInv, LessonsTypeOK
<1>2. LessonsTypeOK'
    BY <1>1 DEF LessonsInv, LessonsTypeOK
<1>3. ReceiptsHold(receipt, given, lesson, packets)'
    BY <1>1 DEF LessonsInv
<1>4. RemovedIsGone'
    BY <1>1 DEF LessonsInv, RemovedIsGone
<1>5. ServedStep
    BY <1>1 DEF ServedStep
<1> QED BY <1>2, <1>3, <1>4, <1>5 DEF LessonsInv

\* Whatever is left of an earlier removal, this one takes it.
LEMMA RemovingSteps ==
    ASSUME LessonsInv, NEW l \in Lessons, NEW outcome \in {"busy_after", "done"},
           Remove(l, outcome)
    PROVE  LessonsInv' /\ ServedStep
<1> USE DEF LessonsInv, LessonsTypeOK
<1>1. /\ receipt' = Deleted(receipt, l) /\ intent' = Deleted(intent, l)
      /\ UNCHANGED <<stale, branch, post, given>>
    BY DEF Remove
<1>2. /\ lesson' \in [Lessons -> LessonRow] /\ lesson'[l].kept = "gone"
      /\ \A k \in Lessons \ {l} : lesson'[k] = lesson[k]
    <2> DEFINE r == [lesson[l] EXCEPT !.kept = "gone"]
    <2>1. r \in LessonRow /\ r.kept = "gone"
        BY DEF LessonRow
    <2>2. lesson' = [lesson EXCEPT ![l] = r]
        BY DEF Remove
    <2> HIDE DEF r
    <2> QED BY <2>1, <2>2
<1>3. /\ residue' \in SUBSET residue
      /\ outcome = "done" => l \notin residue'
    BY <1>2 DEF Remove, Scrubbed
<1>4. /\ packets' \in SUBSET packets
      /\ outcome = "done" => PacketsClean(packets', l)
      /\ \A k \in Lessons : PacketsClean(packets, k) => PacketsClean(packets', k)
    BY ForgottenIsClean DEF Remove
<1>5. /\ removed' \in SUBSET Lessons
      /\ \A k \in removed' : k \in removed \/ (k = l /\ outcome = "done")
    BY DEF Remove
<1>6. /\ receipt' \in [Slot -> ReceiptRow] /\ Clean(receipt', l)
      /\ \A k \in Lessons : Clean(receipt, k) => Clean(receipt', k)
      /\ ReceiptsHold(receipt, given, lesson, packets)'
    BY <1>1, <1>2, <1>4, DeletionHolds
<1>7. /\ intent' \in [Slot -> ReceiptRow] /\ Clean(intent', l)
      /\ \A k \in Lessons : Clean(intent, k) => Clean(intent', k)
    BY <1>1, <1>2, DeletionHolds
<1>8. LessonsTypeOK'
    BY <1>1, <1>2, <1>3, <1>4, <1>5, <1>6, <1>7
<1>9. ASSUME NEW k \in removed' PROVE Purged(k)'
    <2>1. CASE k \in removed
        <3>1. k \in Lessons /\ Purged(k)
            BY <2>1, RemovedArePurged
        <3>2. lesson'[k].kept = "gone" /\ k \notin residue'
            BY <1>2, <1>3, <3>1 DEF Purged
        <3> QED BY <1>4, <1>6, <1>7, <3>1, <3>2 DEF Purged
    <2>2. CASE k = l /\ outcome = "done"
        BY <1>2, <1>3, <1>4, <1>6, <1>7, <2>2 DEF Purged
    <2> QED BY <1>5, <2>1, <2>2
<1>10. RemovedIsGone'
    BY <1>9 DEF RemovedIsGone, Purged, Clean, PacketsClean
<1>11. ServedStep
    BY <1>1 DEF ServedStep
<1> QED BY <1>6, <1>8, <1>10, <1>11

LEMMA ReachingIsTyped ==
    ASSUME NEW B \in [Branches -> BranchRow], NEW b \in Branches, NEW t \in 0..LastTurn
    PROVE  [B EXCEPT ![b].last = IF t > @ THEN t ELSE @] \in [Branches -> BranchRow]
<1> DEFINE r == [B[b] EXCEPT !.last = IF t > @ THEN t ELSE @]
<1>1. r \in BranchRow
    BY LessonsAssumption DEF BranchRow
<1>2. [B EXCEPT ![b].last = IF t > @ THEN t ELSE @] = [B EXCEPT ![b] = r]
    OBVIOUS
<1> HIDE DEF r
<1> QED BY <1>1, <1>2

\* What a request changes: receipts that hold and are clean, and a packet that is current.
LEMMA RequestHolds ==
    ASSUME LessonsInv, NEW c \in Connections, NEW p \in Packet,
           post' = [post EXCEPT ![c] = p], packets' \in SUBSET (packets \cup {p}),
           branch' \in [Branches -> BranchRow], UNCHANGED <<lesson, residue, removed, stale>>,
           given' \in [Slot -> SUBSET Version],
           receipt' \in [Slot -> ReceiptRow], intent' \in [Slot -> ReceiptRow],
           ReceiptsHold(receipt', given', lesson, packets),
           \A v \in p.shows : Usable(v) /\ v \in receipt'[<<p.branch, p.turn>>].items,
           \A l \in p.meant : lesson[l].kept = "kept",
           \A l \in Lessons : /\ lesson[l].kept = "gone"
                              /\ Clean(receipt, l) /\ Clean(intent, l)
                              => Clean(receipt', l) /\ Clean(intent', l)
    PROVE  LessonsInv' /\ ServedStep
<1> USE DEF LessonsInv
<1>1. LessonsTypeOK'
    BY DEF LessonsTypeOK
<1>2. ReceiptsHold(receipt, given, lesson, packets)'
    <2>1. <<p.branch, p.turn>> \in Slot
        BY DEF Slot, Packet
    <2>2. p.shows # {} => receipt'[<<p.branch, p.turn>>].frozen
        BY <2>1 DEF ReceiptsHold, Sound
    <2>3. ReceiptsHold(receipt', given', lesson, packets \cup {p})
        BY <2>1, <2>2, PacketHolds
    <2> QED BY <2>3 DEF ReceiptsHold
<1>3. ASSUME NEW k \in removed PROVE Purged(k)'
    <2>1. k \in Lessons /\ Purged(k)
        BY RemovedArePurged DEF LessonsTypeOK
    <2>2. k \notin p.meant /\ \A v \in p.shows : v[1] # k
        BY <2>1 DEF Purged, Usable
    <2>3. PacketsClean(packets', k)
        BY <2>1, <2>2 DEF Purged, PacketsClean
    <2> QED BY <2>1, <2>3 DEF Purged
<1>4. RemovedIsGone'
    BY <1>3 DEF RemovedIsGone, Purged, Clean, PacketsClean
<1>5. ServedStep
    BY DEF ServedStep, LessonsTypeOK
<1> QED BY <1>1, <1>2, <1>4, <1>5

LEMMA SelectionsAreOneVersion ==
    ASSUME LessonsTypeOK, NEW means \in BOOLEAN, NEW S \in Selections(means)
    PROVE  S \in SUBSET Version /\ OneVersion(S) /\ \A v \in S : Usable(v)
<1>1. S \in SUBSET Version /\ \A v \in S : Usable(v)
    BY DEF Selections
<1>2. ASSUME NEW u \in S, NEW v \in S, u[1] = v[1] PROVE u = v
    BY <1>1, <1>2 DEF Usable, Version
<1> QED BY <1>1, <1>2 DEF OneVersion

\* What becomes of the receipts T, and of what the turns are given.
Asked(T, b, t, marks, same, S) ==
    LET E == Ensured(T, b, t, marks)
    IN  IF ~ E[<<b, t>>].frozen THEN Freeze(E, b, t, S) ELSE IF same THEN E ELSE T
Given(T, G, b, t, marks, S) ==
    IF Ensured(T, b, t, marks)[<<b, t>>].frozen THEN G ELSE Give(G, b, t, S)

\* What becomes of the receipts T of one kind when turn t of branch b asks: its own receipt, a
\* copy, or a new one with S.
LEMMA AskedHold ==
    ASSUME NEW T \in [Slot -> ReceiptRow], NEW G \in [Slot -> SUBSET Version],
           NEW L \in [Lessons -> LessonRow], NEW b \in Branches, NEW t \in 0..LastTurn, NEW marks \in BOOLEAN, NEW same \in BOOLEAN,
           NEW S \in SUBSET Version, OneVersion(S), \A v \in S : L[v[1]].kept = "kept"
    PROVE  /\ Asked(T, b, t, marks, same, S) \in [Slot -> ReceiptRow]
           /\ Given(T, G, b, t, marks, S) \in [Slot -> SUBSET Version]
           /\ \A P \in SUBSET Packet : ReceiptsHold(T, G, L, P)
                => ReceiptsHold(Asked(T, b, t, marks, same, S), Given(T, G, b, t, marks, S), L, P)
           /\ \A l \in Lessons : L[l].kept = "gone" /\ Clean(T, l)
                => Clean(Asked(T, b, t, marks, same, S), l)
<1> DEFINE x == <<b, t>>
           E == Ensured(T, b, t, marks)
           U == Asked(T, b, t, marks, same, S)
           H == Given(T, G, b, t, marks, S)
<1> SUFFICES ASSUME NEW P \in SUBSET Packet
             PROVE  /\ U \in [Slot -> ReceiptRow] /\ H \in [Slot -> SUBSET Version]
                    /\ ReceiptsHold(T, G, L, P) => ReceiptsHold(U, H, L, P)
                    /\ \A l \in Lessons : L[l].kept = "gone" /\ Clean(T, l) => Clean(U, l)
    OBVIOUS
<1>1. x \in Slot /\ Copied(T, E, x)
    BY EnsuredCopies DEF Slot
<1>2. /\ U = IF ~ E[x].frozen THEN Freeze(E, b, t, S) ELSE IF same THEN E ELSE T
      /\ H = IF E[x].frozen THEN G ELSE Give(G, b, t, S)
    BY DEF Asked, Given
<1> HIDE DEF E, U, H
<1>3. /\ E \in [Slot -> ReceiptRow]
      /\ ReceiptsHold(T, G, L, P) => ReceiptsHold(E, G, L, P)
      /\ \A l \in Lessons : Clean(T, l) => Clean(E, l)
      /\ ~ E[x].frozen => E = T
    <2> HIDE DEF x
    <2>1. E \in [Slot -> ReceiptRow]
        BY <1>1 DEF Copied
    <2> QED BY <1>1, <2>1, CopiesHold
<1>4. CASE E[x].frozen
    <2>1. (U = E \/ U = T) /\ H = G
        BY <1>2, <1>4
    <2> HIDE DEF x
    <2> QED BY <1>3, <2>1
<1>5. CASE ~ E[x].frozen
    <2>1. E = T
        BY <1>3, <1>5
    <2>2. U = Freeze(T, b, t, S) /\ H = Give(G, b, t, S)
        BY <1>2, <1>5, <2>1
    <2>3. ~ T[<<b, t>>].frozen /\ \A v \in S : L[v[1]].kept # "gone"
        BY <1>5, <2>1
    <2>4. \A l \in Lessons : L[l].kept = "gone" => \A v \in S : v[1] # l
        OBVIOUS
    <2> HIDE DEF x
    <2>5. H \in [Slot -> SUBSET Version]
        BY <1>1, <2>2 DEF Give
    <2>6. /\ Freeze(T, b, t, S) \in [Slot -> ReceiptRow]
          /\ \A l \in Lessons : Clean(T, l) /\ (\A v \in S : v[1] # l)
                => Clean(Freeze(T, b, t, S), l)
          /\ ReceiptsHold(T, G, L, P)
                => ReceiptsHold(Freeze(T, b, t, S), Give(G, b, t, S), L, P)
        BY <2>3, FreezeHolds
    <2> QED BY <2>2, <2>4, <2>5, <2>6
<1> QED BY <1>4, <1>5

LEMMA AskingSteps ==
    ASSUME LessonsInv, NEW c \in Connections, NEW b \in Branches, NEW t \in 0..LastTurn,
           NEW same \in BOOLEAN, NEW recorded \in BOOLEAN,
           AskForLessons(c, b, t, same, recorded)
    PROVE  LessonsInv' /\ ServedStep
<1> DEFINE narr == Ensured(receipt, b, t, FALSE)
           mean == Ensured(intent, b, t, TRUE)
           x    == <<b, t>>
           knew == mean[x].frozen
<1>0. x \in Slot
    BY DEF Slot
<1>1. PICK chosen \in Selections(FALSE), wanted \in Selections(TRUE) :
        /\ receipt' = IF ~ narr[x].frozen THEN [narr EXCEPT ![x] = Frozen(b, chosen)]
                      ELSE IF same THEN narr ELSE receipt
        /\ given' = IF narr[x].frozen THEN given ELSE [given EXCEPT ![x] = chosen]
        /\ LET frozen == IF ~ knew THEN [mean EXCEPT ![x] = Frozen(b, wanted)]
                         ELSE IF same THEN mean ELSE intent
               here   == IF knew /\ ~ same THEN {} ELSE CurrentItems(frozen, b, t)
           IN  /\ intent' = IF recorded THEN [frozen EXCEPT ![x].marked = @ \cup here]
                            ELSE frozen
               /\ \E shows \in SUBSET (IF narr[x].frozen /\ ~ same THEN {}
                                       ELSE CurrentItems(receipt', b, t)) :
                   LET p == [branch |-> b, turn |-> t, shows |-> shows,
                             meant |-> {v[1] : v \in here},
                             owed |-> IF recorded THEN {} ELSE here]
                   IN  /\ Sends(c, p)
                       /\ packets' = packets \cup {p}
    BY DEF AskForLessons
<1>2. UNCHANGED <<lesson, stale, residue, removed>> /\ Reaches(b, t)
    BY DEF AskForLessons
<1> DEFINE frozen == IF ~ knew THEN [mean EXCEPT ![x] = Frozen(b, wanted)]
                     ELSE IF same THEN mean ELSE intent
           here   == IF knew /\ ~ same THEN {} ELSE CurrentItems(frozen, b, t)
<1>3. PICK shows \in SUBSET (IF narr[x].frozen /\ ~ same THEN {}
                             ELSE CurrentItems(receipt', b, t)) :
        LET p == [branch |-> b, turn |-> t, shows |-> shows, meant |-> {v[1] : v \in here},
                  owed |-> IF recorded THEN {} ELSE here]
        IN  Sends(c, p) /\ packets' = packets \cup {p}
    BY <1>1
<1> DEFINE p == [branch |-> b, turn |-> t, shows |-> shows, meant |-> {v[1] : v \in here},
                 owed |-> IF recorded THEN {} ELSE here]
<1>4. /\ chosen \in SUBSET Version /\ OneVersion(chosen) /\ \A v \in chosen : Usable(v)
      /\ wanted \in SUBSET Version /\ OneVersion(wanted) /\ \A v \in wanted : Usable(v)
    BY SelectionsAreOneVersion DEF LessonsInv
<1>5. /\ receipt' \in [Slot -> ReceiptRow] /\ given' \in [Slot -> SUBSET Version]
      /\ ReceiptsHold(receipt', given', lesson, packets)
      /\ \A l \in Lessons : lesson[l].kept = "gone" /\ Clean(receipt, l) => Clean(receipt', l)
    <2>1. \A v \in chosen : lesson[v[1]].kept = "kept"
        BY <1>4 DEF Usable
    <2>2. /\ receipt' = Asked(receipt, b, t, FALSE, same, chosen)
          /\ given' = Given(receipt, given, b, t, FALSE, chosen)
        BY <1>1 DEF Asked, Given, Freeze, Give
    <2> HIDE DEF narr
    <2> QED BY <1>4, <2>1, <2>2, AskedHold DEF LessonsInv, LessonsTypeOK
<1>6. /\ frozen \in [Slot -> ReceiptRow]
      /\ \A l \in Lessons : lesson[l].kept = "gone" /\ Clean(intent, l) => Clean(frozen, l)
    <2>1. \A v \in wanted : lesson[v[1]].kept = "kept"
        BY <1>4 DEF Usable
    <2>2. frozen = Asked(intent, b, t, TRUE, same, wanted)
        BY DEF Asked, Freeze
    <2> HIDE DEF frozen, mean
    <2> QED BY <1>4, <2>1, <2>2, AskedHold DEF LessonsInv, LessonsTypeOK
<1> HIDE DEF frozen
<1>7. here \in SUBSET Version /\ here \subseteq frozen[x].items /\ \A v \in here : Usable(v)
    BY <1>0, <1>6 DEF CurrentItems, ReceiptRow
<1> HIDE DEF here
<1>8. /\ intent' \in [Slot -> ReceiptRow]
      /\ \A l \in Lessons : lesson[l].kept = "gone" /\ Clean(intent, l) => Clean(intent', l)
    <2>1. intent' = IF recorded THEN [frozen EXCEPT ![x].marked = @ \cup here] ELSE frozen
        BY <1>1 DEF frozen, here
    <2>2. CASE recorded
        <3>1. Marks(frozen, intent')
            BY <1>0, <1>6, <1>7, <2>1, <2>2, MarkingMarks
        <3>2. {} \in SUBSET Packet
            OBVIOUS
        <3>3. \A l \in Lessons : Clean(frozen, l) => Clean(intent', l)
            BY <1>6, <3>1, <3>2, MarksHold
        <3> QED BY <1>6, <3>1, <3>3 DEF Marks
    <2>3. CASE ~ recorded
        BY <1>6, <2>1, <2>3
    <2> QED BY <2>2, <2>3
<1>9. shows \in SUBSET Version /\ \A v \in shows : Usable(v) /\ v \in receipt'[x].items
    BY <1>0, <1>5 DEF CurrentItems, ReceiptRow
<1>10. p \in Packet
    BY <1>7, <1>9 DEF Packet, Version
<1>11. \A l \in p.meant : lesson[l].kept = "kept"
    BY <1>7 DEF Usable
<1>12. post' = [post EXCEPT ![c] = p] /\ packets' \in SUBSET (packets \cup {p})
    BY <1>3 DEF Sends
<1>13. branch' \in [Branches -> BranchRow]
    BY <1>2, ReachingIsTyped DEF Reaches, LessonsInv, LessonsTypeOK
<1>14. <<p.branch, p.turn>> = x /\ p.shows = shows
    OBVIOUS
<1> HIDE DEF p, x
<1> QED BY <1>2, <1>5, <1>8, <1>9, <1>10, <1>11, <1>12, <1>13, <1>14, RequestHolds

\* Looking for a receipt of turn t in branch b, and copying one.
LEMMA EnsuringHolds ==
    ASSUME LessonsInv, NEW b \in Branches, NEW t \in 0..LastTurn
    PROVE  LET kept == Ensured(receipt, b, t, FALSE) IN
           /\ kept \in [Slot -> ReceiptRow] /\ ReceiptsHold(kept, given, lesson, packets)
           /\ \A l \in Lessons : Clean(receipt, l) => Clean(kept, l)
<1> DEFINE kept == Ensured(receipt, b, t, FALSE)
           x == <<b, t>>
<1>1. x \in Slot /\ Copied(receipt, kept, x)
    BY EnsuredCopies DEF Slot, LessonsInv, LessonsTypeOK
<1> HIDE DEF kept, x
<1>2. kept \in [Slot -> ReceiptRow]
    BY <1>1 DEF Copied
<1>3. /\ ReceiptsHold(kept, given, lesson, packets)
      /\ \A l \in Lessons : Clean(receipt, l) => Clean(kept, l)
    BY <1>1, CopiesHold DEF LessonsInv, LessonsTypeOK
<1> QED BY <1>2, <1>3 DEF kept

LEMMA ReplayingSteps ==
    ASSUME LessonsInv, NEW c \in Connections, NEW b \in Branches, NEW t \in 0..LastTurn,
           Replay(c, b, t)
    PROVE  LessonsInv' /\ ServedStep
<1>1. /\ receipt' = Ensured(receipt, b, t, FALSE) /\ Reaches(b, t)
      /\ UNCHANGED <<lesson, stale, intent, residue, removed, given>>
    BY DEF Replay
<1>2. PICK shows \in SUBSET CurrentItems(receipt', b, t) :
        LET p == [branch |-> b, turn |-> t, shows |-> shows, meant |-> {}, owed |-> {}]
        IN  Sends(c, p) /\ packets' = packets \cup {p}
    BY DEF Replay
<1> DEFINE p == [branch |-> b, turn |-> t, shows |-> shows, meant |-> {}, owed |-> {}]
<1>3. /\ receipt' \in [Slot -> ReceiptRow] /\ ReceiptsHold(receipt', given, lesson, packets)
      /\ \A l \in Lessons : Clean(receipt, l) => Clean(receipt', l)
    BY <1>1, EnsuringHolds
<1>4. /\ shows \in SUBSET Version
      /\ \A v \in shows : Usable(v) /\ v \in receipt'[<<b, t>>].items
    BY <1>3 DEF CurrentItems, ReceiptRow, Slot
<1>5. p \in Packet /\ p.meant = {}
    BY <1>4 DEF Packet
<1>6. post' = [post EXCEPT ![c] = p] /\ packets' \in SUBSET (packets \cup {p})
    BY <1>2 DEF Sends
<1>7. branch' \in [Branches -> BranchRow]
    BY <1>1, ReachingIsTyped DEF Reaches, LessonsInv, LessonsTypeOK
<1>8. \A v \in p.shows : Usable(v) /\ v \in receipt'[<<p.branch, p.turn>>].items
    BY <1>4
<1>9. /\ given' = given /\ given \in [Slot -> SUBSET Version]
      /\ intent' = intent /\ intent \in [Slot -> ReceiptRow]
    BY <1>1 DEF LessonsInv, LessonsTypeOK
<1> HIDE DEF p
<1> QED BY <1>1, <1>3, <1>5, <1>6, <1>7, <1>8, <1>9, RequestHolds

\* A cached packet that is still current shows the versions that are usable now.
LEMMA DuplicateSteps ==
    ASSUME LessonsInv, NEW c \in Connections, NEW p \in packets, Duplicate(c, p)
    PROVE  LessonsInv' /\ ServedStep
<1> DEFINE kept == Ensured(receipt, p.branch, p.turn, FALSE)
<1>1. p \in Packet /\ p.branch \in Branches /\ p.turn \in 0..LastTurn
    BY DEF LessonsInv, LessonsTypeOK, Packet
<1>2. /\ kept \in [Slot -> ReceiptRow] /\ ReceiptsHold(kept, given, lesson, packets)
      /\ \A l \in Lessons : Clean(receipt, l) => Clean(kept, l)
    BY <1>1, EnsuringHolds
<1>3. /\ receipt' = IF p.shows = {} THEN receipt ELSE kept
      /\ UNCHANGED <<lesson, stale, branch, residue, removed, given>>
    BY DEF Duplicate
<1>4. \/ /\ CachedCurrent(kept, p) /\ intent' = Repaired(intent, p)
         /\ Sends(c, p) /\ UNCHANGED packets
      \/ /\ packets' \in SUBSET packets /\ Sends(c, Quiet) /\ UNCHANGED intent
    BY DEF Duplicate
<1> HIDE DEF kept
<1>5. /\ receipt' \in [Slot -> ReceiptRow] /\ ReceiptsHold(receipt', given, lesson, packets)
      /\ \A l \in Lessons : Clean(receipt, l) => Clean(receipt', l)
      /\ branch' \in [Branches -> BranchRow] /\ given' = given
      /\ given \in [Slot -> SUBSET Version] /\ intent \in [Slot -> ReceiptRow]
    BY <1>2, <1>3 DEF LessonsInv, LessonsTypeOK
<1>6. CASE /\ CachedCurrent(kept, p) /\ intent' = Repaired(intent, p)
           /\ Sends(c, p) /\ UNCHANGED packets
    <2>1. ASSUME NEW v \in p.shows
          PROVE  Usable(v) /\ v \in receipt'[<<p.branch, p.turn>>].items
        <3>1. v[1] \in {u[1] : u \in p.shows}
            OBVIOUS
        <3>2. {u[1] : u \in CurrentItems(kept, p.branch, p.turn)} = {u[1] : u \in p.shows}
            BY <1>6, <2>1 DEF CachedCurrent
        <3>3. PICK u \in CurrentItems(kept, p.branch, p.turn) : u[1] = v[1]
            BY <3>1, <3>2
        <3>4. u = v
            BY <1>2, <2>1, <3>3 DEF ReceiptsHold, CurrentItems
        <3> QED BY <1>3, <2>1, <3>3, <3>4 DEF CurrentItems
    <2>2. Marks(intent, intent')
        BY <1>1, <1>5, <1>6, RepairMarks
    <2>3. /\ intent' \in [Slot -> ReceiptRow]
          /\ \A l \in Lessons : Clean(intent, l) => Clean(intent', l)
        <3>1. {} \in SUBSET Packet
            OBVIOUS
        <3> QED BY <1>5, <2>2, <3>1, MarksHold DEF Marks
    <2>4. post' = [post EXCEPT ![c] = p] /\ packets' = packets
        BY <1>6 DEF Sends
    <2>5. /\ LessonsTypeOK'
          /\ ReceiptsHold(receipt, given, lesson, packets)'
        BY <1>1, <1>3, <1>5, <2>3, <2>4 DEF LessonsInv, LessonsTypeOK
    <2>6. ASSUME NEW k \in removed PROVE Purged(k)'
        <3>1. k \in Lessons /\ Purged(k)
            BY RemovedArePurged DEF LessonsInv, LessonsTypeOK
        <3> QED BY <1>3, <1>5, <2>3, <2>4, <3>1 DEF Purged
    <2>7. RemovedIsGone'
        BY <1>3, <2>6 DEF RemovedIsGone, Purged, Clean, PacketsClean
    <2>8. ServedStep
        BY <1>1, <2>1, <2>4 DEF ServedStep, LessonsInv, LessonsTypeOK
    <2> QED BY <2>5, <2>7, <2>8 DEF LessonsInv
<1>7. CASE packets' \in SUBSET packets /\ Sends(c, Quiet) /\ UNCHANGED intent
    <2>1. Quiet \in Packet /\ Quiet.shows = {} /\ Quiet.meant = {}
        BY LessonsAssumption DEF Quiet, Packet
    <2>2. post' = [post EXCEPT ![c] = Quiet]
        BY <1>7 DEF Sends
    <2> QED BY <1>3, <1>5, <1>7, <2>1, <2>2, RequestHolds
<1> QED BY <1>4, <1>6, <1>7

LEMMA HeaderSteps ==
    ASSUME LessonsInv, NEW c \in Connections, Headers(c)
    PROVE  LessonsInv' /\ ServedStep
<1> DEFINE p == post[c]
           x == <<p.branch, p.turn>>
           M == {v \in receipt[x].items : \E u \in p.shows : u[1] = v[1]}
<1>1. /\ p # Nowhere /\ intent' = Repaired(intent, p)
      /\ receipt' = [receipt EXCEPT ![x].marked = @ \cup M] \/ receipt' = receipt
      /\ post' = [post EXCEPT ![c] = Nowhere]
      /\ UNCHANGED <<lesson, stale, branch, residue, packets, removed, given>>
    BY DEF Headers
<1>2. p \in Packet /\ x \in Slot
    BY <1>1 DEF LessonsInv, LessonsTypeOK, Packet, Slot
<1>3. M \in SUBSET Version /\ M \subseteq receipt[x].items
    BY <1>2 DEF LessonsInv, LessonsTypeOK, ReceiptRow
<1> HIDE DEF M, x, p
<1>4. receipt \in [Slot -> ReceiptRow] /\ intent \in [Slot -> ReceiptRow] /\ packets \in SUBSET Packet
    BY DEF LessonsInv, LessonsTypeOK
<1>5. Marks(receipt, receipt')
    <2>1. Marks(receipt, receipt)
        BY <1>4 DEF Marks
    <2> QED BY <1>1, <1>2, <1>3, <1>4, <2>1, MarkingMarks
<1>6. Marks(intent, intent')
    BY <1>1, <1>2, <1>4, RepairMarks
<1>7. /\ receipt' \in [Slot -> ReceiptRow] /\ intent' \in [Slot -> ReceiptRow]
      /\ ReceiptsHold(receipt', given, lesson, packets)
      /\ \A l \in Lessons : Clean(receipt, l) => Clean(receipt', l)
      /\ \A l \in Lessons : Clean(intent, l) => Clean(intent', l)
    BY <1>4, <1>5, <1>6, MarksHold DEF LessonsInv, Marks
<1>8. LessonsTypeOK' /\ ReceiptsHold(receipt, given, lesson, packets)'
    BY <1>1, <1>7 DEF LessonsInv, LessonsTypeOK
<1>9. ASSUME NEW k \in removed PROVE Purged(k)'
    <2>1. k \in Lessons /\ Purged(k)
        BY RemovedArePurged DEF LessonsInv, LessonsTypeOK
    <2> QED BY <1>1, <1>7, <2>1 DEF Purged
<1>10. RemovedIsGone'
    BY <1>1, <1>9 DEF RemovedIsGone, Purged, Clean, PacketsClean
<1>11. ServedStep
    BY <1>1 DEF ServedStep, LessonsInv, LessonsTypeOK
<1> QED BY <1>8, <1>10, <1>11 DEF LessonsInv

\* No reply, a fork or a crash: receipts and lessons stay, packets at most go.
LEMMA OtherSteps ==
    ASSUME LessonsInv,
           \/ \E c \in Connections : NoHeaders(c)
           \/ \E b, d \in Branches, at \in -1..LastTurn, kill \in BOOLEAN,
                 pruned \in SUBSET Branches : Fork(b, d, at, kill, pruned)
           \/ Crash
    PROVE  LessonsInv' /\ ServedStep
<1>1. /\ UNCHANGED <<lesson, stale, receipt, intent, residue, removed, given>>
      /\ packets' \in SUBSET packets
    BY DEF NoHeaders, Fork, Crash
<1>2. post' \in [Connections -> Packet \cup {Nowhere}] /\ ServedStep
    BY DEF NoHeaders, Fork, Crash, ServedStep, LessonsInv, LessonsTypeOK
<1>3. branch' \in [Branches -> BranchRow]
    <2>1. CASE branch' = branch
        BY <2>1 DEF LessonsInv, LessonsTypeOK
    <2>2. ASSUME NEW b \in Branches, NEW d \in Branches, NEW at \in -1..LastTurn,
                 NEW kill \in BOOLEAN, NEW pruned \in SUBSET Branches,
                 Fork(b, d, at, kill, pruned)
          PROVE  branch' \in [Branches -> BranchRow]
        <3>1. [status |-> "live", parent |-> b, ceiling |-> at, last |-> at] \in BranchRow
            BY DEF BranchRow
        <3>2. ASSUME NEW r \in BranchRow, NEW s \in {"pruned", "dead"}
              PROVE  [r EXCEPT !.status = s] \in BranchRow
            BY <3>2 DEF BranchRow
        <3>3. \A x \in Branches : branch[x] \in BranchRow
            BY DEF LessonsInv, LessonsTypeOK
        <3> QED BY <2>2, <3>1, <3>2, <3>3 DEF Fork
    <2> QED BY <2>1, <2>2 DEF NoHeaders, Crash
<1>4. LessonsTypeOK'
    BY <1>1, <1>2, <1>3 DEF LessonsInv, LessonsTypeOK
<1>5. ReceiptsHold(receipt, given, lesson, packets)'
    BY <1>1 DEF LessonsInv, ReceiptsHold
<1>6. RemovedIsGone'
    BY <1>1 DEF LessonsInv, RemovedIsGone
<1> QED BY <1>2, <1>4, <1>5, <1>6 DEF LessonsInv

LEMMA LessonsStep == LessonsInv /\ [LessonsNext]_lessonVars => LessonsInv' /\ ServedStep
<1> SUFFICES ASSUME LessonsInv, [LessonsNext]_lessonVars PROVE LessonsInv' /\ ServedStep
    OBVIOUS
<1>1. CASE UNCHANGED lessonVars
    <2>1. UNCHANGED <<lesson, stale, branch, receipt, intent, residue, packets, post, removed,
                      given>>
        BY <1>1 DEF lessonVars
    <2>2. LessonsTypeOK'
        BY <2>1 DEF LessonsInv, LessonsTypeOK
    <2>3. RemovedIsGone' /\ ServedStep
        BY <2>1 DEF LessonsInv, RemovedIsGone, ServedStep
    <2> QED BY <2>1, <2>2, <2>3 DEF LessonsInv
<1>2. CASE LessonsNext
    BY <1>2, WritingSteps, LexSteps, RemovingSteps, AskingSteps, ReplayingSteps,
       DuplicateSteps, HeaderSteps, OtherSteps DEF LessonsNext
<1> QED BY <1>1, <1>2

LEMMA LessonsStart == LessonsInit => LessonsInv
<1> SUFFICES ASSUME LessonsInit PROVE LessonsInv
    OBVIOUS
<1>1. Blank \in ReceiptRow /\ ~ Blank.frozen /\ Blank.items = {}
    BY DEF Blank, ReceiptRow
<1>2. LessonsTypeOK
    BY <1>1, LessonsAssumption DEF LessonsInit, LessonsTypeOK, LessonRow, BranchRow
<1>3. ReceiptsHold(receipt, given, lesson, packets)
    BY <1>1 DEF LessonsInit, ReceiptsHold, Sound, OneVersion
<1>4. RemovedIsGone
    BY DEF LessonsInit, RemovedIsGone
<1> QED BY <1>2, <1>3, <1>4 DEF LessonsInv

\* The types, for every number of lessons, revisions, branches and turns.
THEOREM LessonsAreTyped == LessonsSpec => []LessonsTypeOK
<1>1. LessonsInv => LessonsTypeOK
    BY DEF LessonsInv
<1> QED BY <1>1, LessonsStart, LessonsStep, PTL DEF LessonsSpec

\* A removed lesson is nowhere and never comes back, whatever was cached, copied or in flight
\* (remove, _clone_receipt, repair_intent_applications).
THEOREM RemovalIsFinal == LessonsSpec => []RemovedIsGone
<1>1. LessonsInv => RemovedIsGone
    BY DEF LessonsInv
<1> QED BY <1>1, LessonsStart, LessonsStep, PTL DEF LessonsSpec

\* What a turn was given stands in every branch, less what was removed (select, rehydrate).
THEOREM SelectionsAreFrozen == LessonsSpec => []SelectionsStand
<1>1. LessonsInv => SelectionsStand
    BY DEF LessonsInv, ReceiptsHold, SelectionsStand, Left
<1> QED BY <1>1, LessonsStart, LessonsStep, PTL DEF LessonsSpec

\* No request carries a lesson in a version that is no longer the stored, enabled, anchored one,
\* not even one whose packet was cached before the change (_cached_player_lessons_current).
THEOREM OnlyCurrentLessonsAreServed == LessonsSpec => ServedIsCurrent
<1>1. LessonsInv /\ [LessonsNext]_lessonVars => [ServedStep]_lessonVars
    BY LessonsStep
<1> QED BY <1>1, LessonsStart, LessonsStep, PTL DEF LessonsSpec, ServedIsCurrent, ServedStep
=============================================================================

---------------------------- MODULE LedgerProofs ----------------------------
(***************************************************************************)
(* Proofs about Ledger: first the properties that hold however replies are *)
(* timed, then those that hold when the stream of a request ends before    *)
(* the host opens the next request on its branch.                          *)
(***************************************************************************)
EXTENDS Ledger, TurnOrder

-----------------------------------------------------------------------------
(* Checkpoints and replay *)

LEMMA Fields ==
    ASSUME NEW B \in BranchRow
    PROVE  /\ B.status \in {"unused", "live", "dead", "pruned"} /\ B.session \in Branches
           /\ B.forkedAt \in -1..(MaxTurn + 1) /\ B.head \in -1..MaxTurn
           /\ B.turns \in [Turn -> TurnRow] /\ B.journal \in SUBSET Row
           /\ B.receipts \in SUBSET Receipt
           /\ B.ckpt \in [TurnIdx -> State \cup {NoCheckpoint}]
BY DEF BranchRow

LEMMA TurnUpdates ==
    ASSUME NEW row \in TurnRow, NEW status \in Progress
    PROVE  /\ [row EXCEPT !.settled = TRUE] \in TurnRow
           /\ [row EXCEPT !.open = FALSE] \in TurnRow /\ [row EXCEPT !.open = TRUE] \in TurnRow
           /\ [row EXCEPT !.again = TRUE] \in TurnRow
           /\ [row EXCEPT !.replied = TRUE] \in TurnRow
           /\ [row EXCEPT !.replied = TRUE, !.open = FALSE] \in TurnRow
           /\ [row EXCEPT !.replied = TRUE, !.again = FALSE] \in TurnRow
           /\ Unattended(row) \in TurnRow
           /\ [row EXCEPT !.progress = status] \in TurnRow
           /\ [row EXCEPT !.progress = status, !.replied = FALSE] \in TurnRow
BY DEF TurnRow, Unattended

\* The replay of a branch starts from the newest checkpoint up to the turn asked for.
LEMMA BaseTurnIs ==
    ASSUME NEW B \in BranchRow, NEW t, Checkpointed(B, t) # {}
    PROVE  /\ BaseTurn(B, t) \in Checkpointed(B, t)
           /\ \A k \in Checkpointed(B, t) : k <= BaseTurn(B, t)
<1>1. Checkpointed(B, t) \in SUBSET (0..(MaxTurn + 1)) /\ MaxTurn + 1 \in Nat
    BY LedgerAssumption DEF Checkpointed, TurnIdx
<1>2. \E k \in Checkpointed(B, t) : \A j \in Checkpointed(B, t) : j <= k
    BY <1>1, LastNatural
<1>3. QED
    BY <1>2 DEF BaseTurn, Newest

LEMMA BaseTurnType ==
    ASSUME NEW B \in BranchRow, NEW t
    PROVE  BaseTurn(B, t) \in -1..(MaxTurn + 1)
<1>1. CASE Checkpointed(B, t) = {}
    BY <1>1, LedgerAssumption DEF BaseTurn
<1>2. CASE Checkpointed(B, t) # {}
    BY <1>2, BaseTurnIs, LedgerAssumption DEF Checkpointed, TurnIdx
<1>3. QED
    BY <1>1, <1>2

LEMMA BaseStateType ==
    ASSUME NEW B \in BranchRow, NEW t
    PROVE  BaseState(B, t) \in State
<1>1. CASE Checkpointed(B, t) = {}
    BY <1>1 DEF BaseState, EmptyState, State
<1>2. CASE Checkpointed(B, t) # {}
    <2>1. BaseTurn(B, t) \in TurnIdx /\ B.ckpt[BaseTurn(B, t)] # NoCheckpoint
        BY <1>2, BaseTurnIs DEF Checkpointed
    <2>2. B.ckpt[BaseTurn(B, t)] \in State
        BY <2>1, Fields
    <2>3. QED
        BY <1>2, <2>2 DEF BaseState
<1>3. QED
    BY <1>1, <1>2

LEMMA StateAtType ==
    ASSUME NEW B \in BranchRow, NEW t
    PROVE  StateAt(B, t) \in State /\ CurrentState(B) \in State
<1>1. ASSUME NEW u PROVE StateAt(B, u) \in State
    <2>1. \A c \in Commit : BaseState(B, u)[c] \in Nat
        BY BaseStateType DEF State
    <2>2. \A c \in Commit : Replays(B, BaseTurn(B, u), u, c) \in {0, 1}
        BY DEF Replays
    <2>3. QED
        BY <2>1, <2>2 DEF StateAt, State
<1>2. QED
    BY <1>1 DEF CurrentState

\* The turns writes of the user and of the creator land on.
LEMMA WriteTurns ==
    ASSUME NEW B \in BranchRow
    PROVE  /\ MaxCkpt(B) \in -1..(MaxTurn + 1)
           /\ UserTurn(B) \in Int /\ UserTurn(B) >= -1 /\ UserTurn(B) >= MaxCkpt(B)
           /\ UserTurn(B) > MaxCkpt(B) \/ UserTurn(B) = B.head
           /\ CreatorTurn(B) \in Int /\ CreatorTurn(B) >= -1 /\ CreatorTurn(B) > MaxCkpt(B)
<1>1. MaxCkpt(B) \in -1..(MaxTurn + 1) /\ B.head \in -1..MaxTurn
    BY BaseTurnType, Fields DEF MaxCkpt
<1>2. QED
    BY <1>1, LedgerAssumption DEF UserTurn, CreatorTurn, Furthest

-----------------------------------------------------------------------------
(* What the operations return *)

LEMMA AdmittedType ==
    ASSUME NEW b \in Branches, NEW B \in BranchRow, NEW lo \in RowTurn, NEW hi \in RowTurn,
           NEW owner \in Owner, NEW delta \in Delta, NEW c, delta # NoDelta => c \in Commit
    PROVE  Admitted(b, B, lo, hi, owner, delta, c) \in Effect \cup {NoEffect}
BY DEF Admitted, Effect, Delta, NoDelta

LEMMA OnCadenceTurn ==
    ASSUME NEW t \in RowTurn, OnCadence(t)
    PROVE  t \in TurnIdx
BY DEF OnCadence, RowTurn, TurnIdx

LEMMA NewBranchType ==
    ASSUME NEW status \in {"unused", "live", "dead", "pruned"}
    PROVE  NewBranch(status) \in BranchRow
<1>1. UnrecordedTurn \in TurnRow
    BY DEF UnrecordedTurn, TurnRow, Progress
<1>2. -1 \in -1..(MaxTurn + 1) /\ -1 \in -1..MaxTurn
    BY LedgerAssumption
<1>3. [t \in TurnIdx |-> NoCheckpoint] \in [TurnIdx -> State \cup {NoCheckpoint}]
      /\ [t \in Turn |-> UnrecordedTurn] \in [Turn -> TurnRow]
    BY <1>1
<1>4. Root \in Branches
    BY LedgerAssumption
<1>5. QED
    BY <1>2, <1>3, <1>4 DEF NewBranch, BranchRow

\* A delta is applied with a fresh commit number unless it is empty.
LEMMA ApplyType ==
    ASSUME NEW b \in Branches, NEW B \in BranchRow, NEW lo \in RowTurn, NEW hi \in RowTurn,
           NEW source \in Source, NEW owner \in Owner, NEW delta \in Delta, NEW c,
           delta # NoDelta => c \in Commit
    PROVE  Apply(b, B, lo, hi, source, owner, delta, c) \in BranchRow
<1> DEFINE e   == Admitted(b, B, lo, hi, owner, delta, c)
           now == [CurrentState(B) EXCEPT ![c] = @ + 1]
           row == [commit |-> c, lo |-> lo, turn |-> hi, source |-> source, effect |-> e]
<1>1. CASE ~ Applies(b, B, lo, hi, owner, delta, c)
    BY <1>1 DEF Apply
<1>2. CASE Applies(b, B, lo, hi, owner, delta, c)
    <2>1. delta # NoDelta
        BY <1>2 DEF Applies, NoDelta, Admitted
    <2>2. c \in Commit /\ e \in Effect \cup {NoEffect}
        BY <2>1, AdmittedType
    <2>3. now \in State
        BY <2>2, StateAtType DEF State
    <2>4. B.journal \cup {row} \in SUBSET Row
        BY <2>2, Fields DEF Row
    <2> DEFINE got == IF e = NoEffect THEN B.receipts
                      ELSE B.receipts \cup {[effect |-> e, turn |-> hi, source |-> source]}
               ck  == IF OnCadence(hi) THEN [B.ckpt EXCEPT ![hi] = now] ELSE B.ckpt
    <2>5. got \in SUBSET Receipt
        BY <2>2, Fields DEF Receipt
    <2>6. ck \in [TurnIdx -> State \cup {NoCheckpoint}]
        BY <2>3, Fields, OnCadenceTurn
    <2>7. Apply(b, B, lo, hi, source, owner, delta, c)
            = [B EXCEPT !.journal = B.journal \cup {row}, !.receipts = got, !.ckpt = ck]
        BY <1>2 DEF Apply
    <2> HIDE DEF e, now, row, got, ck
    <2>8. QED
        BY <2>4, <2>5, <2>6, <2>7 DEF BranchRow
<1>3. QED
    BY <1>1, <1>2

LEMMA RecordTurnType ==
    ASSUME NEW B \in BranchRow, NEW t \in Turn
    PROVE  RecordTurn(B, t) \in BranchRow
<1>1. Furthest(B.head, t) \in -1..MaxTurn
    BY Fields, LedgerAssumption DEF Furthest, Turn
<1>2. [UnrecordedTurn EXCEPT !.progress = "pending"] \in TurnRow
    BY DEF TurnRow, Progress, UnrecordedTurn
<1>3. \A i \in Turn : B.turns[i] \in TurnRow /\ [B.turns[i] EXCEPT !.settled = TRUE] \in TurnRow
    BY Fields, TurnUpdates DEF Progress
<1> DEFINE h == Furthest(B.head, t)
           T == [i \in Turn |->
                   IF i < t /\ i \in Recorded(B) THEN [B.turns[i] EXCEPT !.settled = TRUE]
                   ELSE IF i = t /\ i \notin Recorded(B)
                        THEN [UnrecordedTurn EXCEPT !.progress = "pending"]
                   ELSE B.turns[i]]
<1>4. T \in [Turn -> TurnRow]
    BY <1>2, <1>3
<1>5. RecordTurn(B, t) = [B EXCEPT !.head = h, !.turns = T]
    BY DEF RecordTurn
<1> HIDE DEF h, T
<1>6. QED
    BY <1>1, <1>4, <1>5 DEF BranchRow, h

\* Replacing the turn rows of a branch by turn rows keeps its type.
LEMMA TurnsType ==
    ASSUME NEW B \in BranchRow, NEW T \in [Turn -> TurnRow]
    PROVE  [B EXCEPT !.turns = T] \in BranchRow
BY DEF BranchRow

LEMMA SettleHeadType ==
    ASSUME NEW B \in BranchRow
    PROVE  SettleHead(B) \in BranchRow
<1> DEFINE T == [B.turns EXCEPT ![B.head].settled = TRUE]
<1>1. T \in [Turn -> TurnRow]
    <2>1. B.turns \in [Turn -> TurnRow]
        BY Fields
    <2>2. B.head \in Turn => [B.turns[B.head] EXCEPT !.settled = TRUE] \in TurnRow
        BY <2>1, TurnUpdates DEF Progress
    <2>3. QED
        BY <2>1, <2>2
<1>2. SettleHead(B) = B \/ SettleHead(B) = [B EXCEPT !.turns = T]
    BY DEF SettleHead
<1> HIDE DEF T
<1>3. QED
    BY <1>1, <1>2, TurnsType

LEMMA MarkExtractionType ==
    ASSUME NEW B \in BranchRow, NEW lo, NEW hi, NEW status \in Progress, NEW expected
    PROVE  MarkExtraction(B, lo, hi, status, expected) \in BranchRow
<1> DEFINE T == [t \in Turn |->
                   IF lo <= t /\ t <= hi /\ B.turns[t].progress = expected
                   THEN [B.turns[t] EXCEPT !.progress = status] ELSE B.turns[t]]
<1>1. T \in [Turn -> TurnRow]
    BY Fields DEF TurnRow
<1>2. MarkExtraction(B, lo, hi, status, expected) = [B EXCEPT !.turns = T]
    BY DEF MarkExtraction
<1> HIDE DEF T
<1>3. QED
    BY <1>1, <1>2, TurnsType

LEMMA SupersedingType ==
    ASSUME NEW B \in BranchRow
    PROVE  Superseding(B) \in BranchRow
<1> DEFINE T == [t \in Turn |-> Unattended(B.turns[t])]
<1>1. T \in [Turn -> TurnRow]
    BY Fields, TurnUpdates DEF Progress
<1>2. Superseding(B) = B \/ Superseding(B) = [B EXCEPT !.turns = T]
    BY DEF Superseding
<1> HIDE DEF T
<1>3. QED
    BY <1>1, <1>2, TurnsType

LEMMA RetractType ==
    ASSUME NEW B \in BranchRow, NEW t \in Turn
    PROVE  RetractExtractionAt(B, t) \in BranchRow
<1> DEFINE J == {r \in B.journal : ~ (r.source = "extraction" /\ r.turn >= t)}
           R == {r \in B.receipts : ~ (r.source = "extraction" /\ r.turn >= t)}
           K == [k \in TurnIdx |-> IF k >= t THEN NoCheckpoint ELSE B.ckpt[k]]
           T == [B.turns EXCEPT ![t] = [B.turns[t] EXCEPT !.progress = "skipped", !.replied = FALSE]]
<1>1. J \in SUBSET Row /\ R \in SUBSET Receipt
      /\ K \in [TurnIdx -> State \cup {NoCheckpoint}]
    BY Fields
<1>2. T \in [Turn -> TurnRow]
    BY Fields, TurnUpdates DEF Progress
<1>3. RetractExtractionAt(B, t)
        = [B EXCEPT !.journal = J, !.receipts = R, !.ckpt = K, !.turns = T]
    BY Fields DEF RetractExtractionAt, BranchRow
<1> HIDE DEF J, R, K, T
<1>4. QED
    BY <1>1, <1>2, <1>3 DEF BranchRow

LEMMA ForkOfType ==
    ASSUME NEW B \in BranchRow, NEW ft \in Turn \cup {-1}
    PROVE  ForkOf(B, ft) \in BranchRow
<1> DEFINE T == [t \in Turn |-> IF t <= ft THEN Unattended(B.turns[t])
                               ELSE UnrecordedTurn]
           J == {r \in B.journal : r.turn <= ft}
           R == {r \in B.receipts : r.turn <= ft}
           K == [k \in TurnIdx |-> IF k <= ft THEN B.ckpt[k] ELSE NoCheckpoint]
<1>1. UnrecordedTurn \in TurnRow
    BY DEF UnrecordedTurn, TurnRow, Progress
<1>2. \A t \in Turn : Unattended(B.turns[t]) \in TurnRow
    BY Fields, TurnUpdates DEF Progress
<1>3. T \in [Turn -> TurnRow] /\ J \in SUBSET Row /\ R \in SUBSET Receipt
      /\ K \in [TurnIdx -> State \cup {NoCheckpoint}]
    BY <1>1, <1>2, Fields
<1>4. ft + 1 \in -1..(MaxTurn + 1) /\ ft \in -1..MaxTurn
    BY LedgerAssumption DEF Turn
<1>5. ForkOf(B, ft) = [B EXCEPT !.status = "live", !.forkedAt = ft + 1, !.head = ft,
                                !.turns = T, !.journal = J, !.receipts = R, !.ckpt = K]
    BY DEF ForkOf
<1> HIDE DEF T, J, R, K
<1>6. QED
    BY <1>3, <1>4, <1>5 DEF BranchRow

-----------------------------------------------------------------------------
(* The inductive invariant, branch by branch *)

ReceiptOf(r) == [effect |-> r.effect, turn |-> r.turn, source |-> r.source]

\* Receipts and journaled damage correspond, and no effect is journaled twice.
Matched(B) ==
    /\ \A r \in B.journal : r.effect # NoEffect => ReceiptOf(r) \in B.receipts
    /\ \A x \in B.receipts : \E r \in B.journal : r.effect # NoEffect /\ x = ReceiptOf(r)
    /\ \A r, q \in B.journal : r.effect # NoEffect /\ r.effect = q.effect => r = q

\* Only turns on the cadence carry checkpoints: a write there replaces what is stored.
CheckpointsOnCadence(B) == \A k \in TurnIdx : B.ckpt[k] # NoCheckpoint => OnCadence(k)

\* Every checkpoint holds each user write at or below its turn.
CheckpointsHoldWrites(B) ==
    \A k \in TurnIdx : \A r \in B.journal :
        B.ckpt[k] # NoCheckpoint /\ r.source = "user" /\ 0 <= r.turn /\ r.turn <= k
            => B.ckpt[k][r.commit] >= 1

RowInv(B) == B \in BranchRow /\ Matched(B) /\ CheckpointsOnCadence(B) /\ CheckpointsHoldWrites(B)

IInv == branch \in [Branches -> BranchRow] /\ commits \in 0..MaxCommits
            /\ continued \subseteq Commit /\ \A b \in Branches : RowInv(branch[b])

\* In a branch that satisfies the invariant, the current state holds every user write.
LEMMA CurrentHoldsWrites ==
    ASSUME NEW B, RowInv(B), NEW r \in B.journal, r.source = "user", r.turn >= 0
    PROVE  CurrentState(B)[r.commit] >= 1
<1> DEFINE u == MaxTurn + 1
           k == BaseTurn(B, u)
<1>1. B \in BranchRow /\ CheckpointsHoldWrites(B)
    BY DEF RowInv
<1>2. r.commit \in Commit /\ r.turn \in RowTurn
    BY <1>1, Fields DEF Row
<1>3. k \in -1..u /\ r.turn <= u /\ u \in Nat
    BY <1>1, <1>2, BaseTurnType, LedgerAssumption DEF RowTurn
<1>4. BaseState(B, u)[r.commit] \in Nat
    BY <1>1, <1>2, BaseStateType DEF State
<1>5. CurrentState(B)[r.commit] = BaseState(B, u)[r.commit] + Replays(B, k, u, r.commit)
    BY <1>2 DEF CurrentState, StateAt
<1>6. CASE k < r.turn
    <2>1. Replays(B, k, u, r.commit) = 1
        BY <1>3, <1>6 DEF Replays
    <2>2. QED
        BY <1>4, <1>5, <2>1
<1>7. CASE ~ (k < r.turn)
    <2>1. k >= r.turn /\ k # -1
        BY <1>2, <1>3, <1>7 DEF RowTurn
    <2>2. Checkpointed(B, u) # {}
        BY <2>1 DEF BaseTurn
    <2>3. k \in TurnIdx /\ B.ckpt[k] # NoCheckpoint
        BY <1>1, <2>2, BaseTurnIs DEF Checkpointed
    <2>4. BaseState(B, u) = B.ckpt[k]
        BY <2>2 DEF BaseState
    <2>5. BaseState(B, u)[r.commit] >= 1
        BY <1>1, <2>1, <2>3, <2>4 DEF CheckpointsHoldWrites
    <2>6. Replays(B, k, u, r.commit) \in {0, 1}
        BY DEF Replays
    <2>7. QED
        BY <1>4, <1>5, <2>5, <2>6
<1>8. QED
    BY <1>6, <1>7

\* Where a delta of this source may land: a user write lies above every checkpoint, or on
\* the newest one, which it then replaces.
Lands(B, source, hi) == source = "user" => hi >= MaxCkpt(B)

LEMMA BelowMaxCkpt ==
    ASSUME NEW B \in BranchRow, NEW k \in TurnIdx, B.ckpt[k] # NoCheckpoint
    PROVE  k <= MaxCkpt(B)
<1>1. k \in Checkpointed(B, MaxTurn + 1)
    BY LedgerAssumption DEF Checkpointed, TurnIdx
<1>2. QED
    BY <1>1, BaseTurnIs DEF MaxCkpt

\* The journal row of an applied delta.
NewRow(b, B, lo, hi, source, owner, delta, c) ==
    [commit |-> c, lo |-> lo, turn |-> hi, source |-> source,
     effect |-> Admitted(b, B, lo, hi, owner, delta, c)]

\* The checkpoints after it: on the cadence its turn gets the state with the delta applied.
Bumped(B, c) == [CurrentState(B) EXCEPT ![c] = @ + 1]
Stored(B, hi, c) == IF OnCadence(hi) THEN [B.ckpt EXCEPT ![hi] = Bumped(B, c)] ELSE B.ckpt

\* The journal and the receipts after it.
Journaled(b, B, lo, hi, source, owner, delta, c) ==
    B.journal \cup {NewRow(b, B, lo, hi, source, owner, delta, c)}
Receipted(b, B, lo, hi, source, owner, delta, c) ==
    IF Admitted(b, B, lo, hi, owner, delta, c) = NoEffect THEN B.receipts
    ELSE B.receipts \cup {ReceiptOf(NewRow(b, B, lo, hi, source, owner, delta, c))}

\* What Apply does to a branch when the delta is applied.
LEMMA ApplyRows ==
    ASSUME NEW b, NEW B \in BranchRow, NEW lo, NEW hi, NEW source, NEW owner, NEW delta, NEW c,
           Applies(b, B, lo, hi, owner, delta, c)
    PROVE  /\ Apply(b, B, lo, hi, source, owner, delta, c).journal
                = Journaled(b, B, lo, hi, source, owner, delta, c)
           /\ Apply(b, B, lo, hi, source, owner, delta, c).receipts
                = Receipted(b, B, lo, hi, source, owner, delta, c)
           /\ Apply(b, B, lo, hi, source, owner, delta, c).ckpt = Stored(B, hi, c)
BY DEF Apply, BranchRow, ReceiptOf, NewRow, Journaled, Receipted, Stored, Bumped

\* The turn rows and the head are left alone.
LEMMA ApplyTurns ==
    ASSUME NEW b, NEW B \in BranchRow, NEW lo, NEW hi, NEW source, NEW owner, NEW delta, NEW c
    PROVE  /\ Apply(b, B, lo, hi, source, owner, delta, c).turns = B.turns
           /\ Apply(b, B, lo, hi, source, owner, delta, c).head = B.head
BY DEF Apply, BranchRow

LEMMA ApplyKeeps ==
    ASSUME NEW b \in Branches, NEW B, RowInv(B), NEW lo \in RowTurn, NEW hi \in RowTurn,
           NEW source \in Source, NEW owner \in Owner, NEW delta \in Delta, NEW c,
           delta # NoDelta => c \in Commit, Lands(B, source, hi)
    PROVE  RowInv(Apply(b, B, lo, hi, source, owner, delta, c))
<1> DEFINE e   == Admitted(b, B, lo, hi, owner, delta, c)
           row == NewRow(b, B, lo, hi, source, owner, delta, c)
           A   == Apply(b, B, lo, hi, source, owner, delta, c)
           now == Bumped(B, c)
<1>1. B \in BranchRow /\ Matched(B) /\ CheckpointsOnCadence(B) /\ CheckpointsHoldWrites(B)
    BY DEF RowInv
<1>2. A \in BranchRow
    BY <1>1, ApplyType
<1>3. CASE ~ Applies(b, B, lo, hi, owner, delta, c)
    BY <1>3 DEF Apply
<1>4. CASE Applies(b, B, lo, hi, owner, delta, c)
    <2>1. c \in Commit
        BY <1>4 DEF Applies, NoDelta, Admitted
    <2>2. /\ A.journal = B.journal \cup {row}
          /\ A.receipts = IF e = NoEffect THEN B.receipts
                          ELSE B.receipts \cup {ReceiptOf(row)}
          /\ A.ckpt = Stored(B, hi, c)
        <3>1. /\ A.journal = Journaled(b, B, lo, hi, source, owner, delta, c)
              /\ A.receipts = Receipted(b, B, lo, hi, source, owner, delta, c)
              /\ A.ckpt = Stored(B, hi, c)
            BY <1>1, <1>4, ApplyRows
        <3>2. QED
            BY <3>1 DEF Journaled, Receipted
    <2>3. row.effect = e /\ row.turn = hi /\ row.source = source /\ row.commit = c
        BY DEF NewRow
    <2>4. e # NoEffect => \A x \in B.receipts : x.effect # e
        BY DEF Admitted, Admits
    <2>5. e # NoEffect => \A r \in B.journal : r.effect # e
        <3>1. ASSUME e # NoEffect, NEW r \in B.journal, r.effect = e PROVE FALSE
            <4>1. ReceiptOf(r) \in B.receipts
                BY <1>1, <3>1 DEF Matched
            <4>2. QED
                BY <2>4, <3>1, <4>1 DEF ReceiptOf
        <3>2. QED
            BY <3>1
    <2> HIDE DEF e, row, A
    <2>6. Matched(A)
        <3>1. \A r \in A.journal : r.effect # NoEffect => ReceiptOf(r) \in A.receipts
            BY <1>1, <2>2, <2>3 DEF Matched
        <3>2. \A x \in A.receipts : \E r \in A.journal : r.effect # NoEffect /\ x = ReceiptOf(r)
            BY <1>1, <2>2, <2>3 DEF Matched
        <3>3. \A r, q \in A.journal : r.effect # NoEffect /\ r.effect = q.effect => r = q
            BY <1>1, <2>2, <2>3, <2>5 DEF Matched
        <3>4. QED
            BY <3>1, <3>2, <3>3 DEF Matched
    <2>7. CurrentState(B) \in State /\ now \in State
        BY <1>1, <2>1, StateAtType DEF State, Bumped
    <2>8. now # NoCheckpoint
        BY <2>7, NoCheckpointAssumption
    <2>9. B.ckpt \in [TurnIdx -> State \cup {NoCheckpoint}]
        BY <1>1, Fields
    <2>10. CheckpointsOnCadence(A)
        BY <1>1, <2>2, <2>9 DEF CheckpointsOnCadence, Stored
    <2>11. ASSUME NEW k \in TurnIdx, NEW r \in A.journal, A.ckpt[k] # NoCheckpoint,
                  r.source = "user", 0 <= r.turn, r.turn <= k
           PROVE  A.ckpt[k][r.commit] >= 1
        <3>1. CASE k = hi /\ OnCadence(hi)
            <4>1. A.ckpt[k] = now
                BY <2>2, <2>9, <3>1 DEF Stored
            <4>2. CASE r = row
                <5>1. CurrentState(B)[c] \in Nat
                    BY <2>1, <2>7 DEF State
                <5>2. now[c] = CurrentState(B)[c] + 1
                    BY <2>1, <2>7 DEF State, Bumped
                <5>3. QED
                    BY <2>3, <4>1, <4>2, <5>1, <5>2
            <4>3. CASE r \in B.journal
                <5>1. CurrentState(B)[r.commit] >= 1
                    BY <2>11, <4>3, CurrentHoldsWrites
                <5>2. r.commit \in Commit
                    BY <1>1, <4>3, Fields DEF Row
                <5>3. CurrentState(B)[r.commit] \in Nat /\ CurrentState(B)[c] \in Nat
                    BY <2>1, <2>7, <5>2 DEF State
                <5>4. now[r.commit] >= CurrentState(B)[r.commit] /\ now[r.commit] \in Nat
                    BY <2>1, <2>7, <5>2, <5>3 DEF State, Bumped
                <5>5. QED
                    BY <4>1, <5>1, <5>3, <5>4
            <4>4. QED
                BY <2>2, <4>2, <4>3
        <3>2. CASE ~ (k = hi /\ OnCadence(hi))
            <4>1. A.ckpt[k] = B.ckpt[k]
                BY <2>2, <2>9, <3>2 DEF Stored
            <4>2. CASE r = row
                <5>1. hi >= MaxCkpt(B) /\ hi <= k
                    BY <2>3, <2>11, <4>2 DEF Lands
                <5>2. k <= MaxCkpt(B) /\ OnCadence(k)
                    BY <1>1, <2>11, <4>1, BelowMaxCkpt DEF CheckpointsOnCadence
                <5>3. k = hi
                    BY <1>1, <5>1, <5>2, WriteTurns, LedgerAssumption DEF TurnIdx, RowTurn
                <5>4. QED
                    BY <3>2, <5>2, <5>3
            <4>3. CASE r \in B.journal
                BY <1>1, <2>11, <4>1, <4>3 DEF CheckpointsHoldWrites
            <4>4. QED
                BY <2>2, <4>2, <4>3
        <3>3. QED
            BY <3>1, <3>2
    <2>12. CheckpointsHoldWrites(A)
        BY <2>11 DEF CheckpointsHoldWrites
    <2>13. QED
        BY <1>2, <2>6, <2>10, <2>12 DEF RowInv, A
<1>5. QED
    BY <1>3, <1>4

\* Operations that leave journal, receipts and checkpoints alone keep the invariant.
LEMMA OtherRowsKeep ==
    ASSUME NEW B, RowInv(B), NEW A \in BranchRow,
           A.journal = B.journal, A.receipts = B.receipts, A.ckpt = B.ckpt
    PROVE  RowInv(A)
BY DEF RowInv, Matched, CheckpointsOnCadence, CheckpointsHoldWrites

\* So do operations that keep a subset of the rows by source and turn only.
LEMMA SelectionKeeps ==
    ASSUME NEW B, RowInv(B), NEW A \in BranchRow,
           A.journal \subseteq B.journal, A.receipts \subseteq B.receipts,
           \A r \in B.journal : \A x \in B.receipts :
              x.source = r.source /\ x.turn = r.turn => (r \in A.journal <=> x \in A.receipts),
           \A k \in TurnIdx : A.ckpt[k] \in {B.ckpt[k], NoCheckpoint}
    PROVE  RowInv(A)
<1>1. B \in BranchRow /\ Matched(B) /\ CheckpointsOnCadence(B) /\ CheckpointsHoldWrites(B)
    BY DEF RowInv
<1>2. \A r : ReceiptOf(r).source = r.source /\ ReceiptOf(r).turn = r.turn
    BY DEF ReceiptOf
<1>3. Matched(A)
    BY <1>1, <1>2 DEF Matched
<1>4. CheckpointsOnCadence(A) /\ CheckpointsHoldWrites(A)
    BY <1>1 DEF CheckpointsOnCadence, CheckpointsHoldWrites
<1>5. QED
    BY <1>3, <1>4 DEF RowInv

LEMMA NewBranchKeeps ==
    ASSUME NEW status \in {"unused", "live", "dead", "pruned"}
    PROVE  RowInv(NewBranch(status))
<1>1. NewBranch(status).journal = {} /\ NewBranch(status).receipts = {}
      /\ \A k \in TurnIdx : NewBranch(status).ckpt[k] = NoCheckpoint
    BY DEF NewBranch
<1>2. QED
    BY <1>1, NewBranchType DEF RowInv, Matched, CheckpointsOnCadence, CheckpointsHoldWrites

\* The writers of turn rows keep the invariant.
LEMMA TurnsKeep ==
    ASSUME NEW B, RowInv(B), NEW T \in [Turn -> TurnRow]
    PROVE  RowInv([B EXCEPT !.turns = T])
<1>1. B \in BranchRow
    BY DEF RowInv
<1> DEFINE A == [B EXCEPT !.turns = T]
<1>2. A.journal = B.journal /\ A.receipts = B.receipts /\ A.ckpt = B.ckpt
    BY <1>1 DEF BranchRow
<1>3. A \in BranchRow
    BY <1>1, TurnsType
<1> HIDE DEF A
<1>4. RowInv(A)
    BY <1>2, <1>3, OtherRowsKeep
<1>5. QED
    BY <1>4 DEF A

LEMMA TurnWritersKeep ==
    ASSUME NEW B, RowInv(B)
    PROVE  /\ RowInv(Superseding(B))
           /\ RowInv(SettleHead(B))
           /\ \A t \in Turn : RowInv(RecordTurn(B, t))
           /\ \A lo, hi, expected : \A status \in Progress :
                 RowInv(MarkExtraction(B, lo, hi, status, expected))
<1>1. B \in BranchRow
    BY DEF RowInv
<1>2. RowInv(Superseding(B))
    <2>1. Superseding(B).journal = B.journal /\ Superseding(B).receipts = B.receipts
          /\ Superseding(B).ckpt = B.ckpt
        BY <1>1 DEF Superseding, BranchRow
    <2>2. QED
        BY <1>1, <2>1, SupersedingType, OtherRowsKeep
<1>3. RowInv(SettleHead(B))
    <2>1. SettleHead(B).journal = B.journal /\ SettleHead(B).receipts = B.receipts
          /\ SettleHead(B).ckpt = B.ckpt
        BY <1>1 DEF SettleHead, BranchRow
    <2>2. QED
        BY <1>1, <2>1, SettleHeadType, OtherRowsKeep
<1>4. ASSUME NEW t \in Turn PROVE RowInv(RecordTurn(B, t))
    <2>1. RecordTurn(B, t).journal = B.journal /\ RecordTurn(B, t).receipts = B.receipts
          /\ RecordTurn(B, t).ckpt = B.ckpt
        BY <1>1 DEF RecordTurn, BranchRow
    <2>2. QED
        BY <1>1, <2>1, RecordTurnType, OtherRowsKeep
<1>5. ASSUME NEW lo, NEW hi, NEW expected, NEW status \in Progress
      PROVE  RowInv(MarkExtraction(B, lo, hi, status, expected))
    <2> DEFINE A == MarkExtraction(B, lo, hi, status, expected)
    <2>1. A.journal = B.journal /\ A.receipts = B.receipts /\ A.ckpt = B.ckpt
        BY <1>1 DEF MarkExtraction, BranchRow
    <2>2. A \in BranchRow
        BY <1>1, MarkExtractionType
    <2> HIDE DEF A
    <2>3. RowInv(A)
        BY <2>1, <2>2, OtherRowsKeep
    <2>4. QED
        BY <2>3 DEF A
<1>6. QED
    BY <1>2, <1>3, <1>4, <1>5

LEMMA RetractKeeps ==
    ASSUME NEW B, RowInv(B), NEW t \in Turn
    PROVE  RowInv(RetractExtractionAt(B, t))
<1> DEFINE A == RetractExtractionAt(B, t)
<1>1. B \in BranchRow
    BY DEF RowInv
<1>2. A \in BranchRow
    BY <1>1, RetractType
<1>3. /\ A.journal = {r \in B.journal : ~ (r.source = "extraction" /\ r.turn >= t)}
      /\ A.receipts = {r \in B.receipts : ~ (r.source = "extraction" /\ r.turn >= t)}
      /\ \A k \in TurnIdx : A.ckpt[k] \in {B.ckpt[k], NoCheckpoint}
    BY <1>1 DEF RetractExtractionAt, BranchRow
<1> HIDE DEF A
<1>4. A.journal \subseteq B.journal /\ A.receipts \subseteq B.receipts
    BY <1>3
<1>5. \A r \in B.journal : \A x \in B.receipts :
         x.source = r.source /\ x.turn = r.turn => (r \in A.journal <=> x \in A.receipts)
    BY <1>3
<1>6. RowInv(A)
    BY <1>2, <1>3, <1>4, <1>5, SelectionKeeps
<1>7. QED
    BY <1>6 DEF A

LEMMA ForkOfKeeps ==
    ASSUME NEW B, RowInv(B), NEW ft \in Turn \cup {-1}
    PROVE  RowInv(ForkOf(B, ft))
<1> DEFINE A == ForkOf(B, ft)
<1>1. B \in BranchRow
    BY DEF RowInv
<1>2. A \in BranchRow
    BY <1>1, ForkOfType
<1>3. /\ A.journal = {r \in B.journal : r.turn <= ft}
      /\ A.receipts = {r \in B.receipts : r.turn <= ft}
      /\ \A k \in TurnIdx : A.ckpt[k] \in {B.ckpt[k], NoCheckpoint}
    BY <1>1 DEF ForkOf, BranchRow
<1> HIDE DEF A
<1>4. A.journal \subseteq B.journal /\ A.receipts \subseteq B.receipts
    BY <1>3
<1>5. \A r \in B.journal : \A x \in B.receipts :
         x.source = r.source /\ x.turn = r.turn => (r \in A.journal <=> x \in A.receipts)
    BY <1>3
<1>6. RowInv(A)
    BY <1>2, <1>3, <1>4, <1>5, SelectionKeeps
<1>7. QED
    BY <1>6 DEF A

\* Fields that no part of the invariant but the type speaks of.
LEMMA StatusKeeps ==
    ASSUME NEW B, RowInv(B)
    PROVE  /\ \A s \in {"unused", "live", "dead", "pruned"} : RowInv([B EXCEPT !.status = s])
           /\ \A s \in Branches : RowInv([B EXCEPT !.session = s])
<1>1. B \in BranchRow
    BY DEF RowInv
<1>2. ASSUME NEW s \in {"unused", "live", "dead", "pruned"} PROVE RowInv([B EXCEPT !.status = s])
    <2> DEFINE A == [B EXCEPT !.status = s]
    <2>1. A \in BranchRow /\ A.journal = B.journal /\ A.receipts = B.receipts /\ A.ckpt = B.ckpt
        BY <1>1 DEF BranchRow
    <2> HIDE DEF A
    <2>2. RowInv(A)
        BY <2>1, OtherRowsKeep
    <2>3. QED
        BY <2>2 DEF A
<1>3. ASSUME NEW s \in Branches PROVE RowInv([B EXCEPT !.session = s])
    <2> DEFINE A == [B EXCEPT !.session = s]
    <2>1. A \in BranchRow /\ A.journal = B.journal /\ A.receipts = B.receipts /\ A.ckpt = B.ckpt
        BY <1>1 DEF BranchRow
    <2> HIDE DEF A
    <2>2. RowInv(A)
        BY <2>1, OtherRowsKeep
    <2>3. QED
        BY <2>2 DEF A
<1>4. QED
    BY <1>2, <1>3

-----------------------------------------------------------------------------
(* The actions *)

\* A transaction that replaces one branch keeps the invariant of all.
LEMMA OneBranchStep ==
    ASSUME IInv, NEW b \in Branches, NEW B, RowInv(B), branch' = [branch EXCEPT ![b] = B],
           commits' \in 0..MaxCommits, continued' \subseteq Commit
    PROVE  IInv'
BY DEF IInv, RowInv

\* The commit numbers of a transaction's deltas are free and within the bound.
LEMMA CommitNumbers ==
    ASSUME commits \in 0..MaxCommits, NEW d \in Delta, NEW e \in Delta,
           commits + Spent(d) + Spent(e) <= MaxCommits
    PROVE  /\ d # NoDelta => commits + 1 \in Commit
           /\ e # NoDelta => commits + 1 + Spent(d) \in Commit
           /\ commits + Spent(d) \in 0..MaxCommits
           /\ commits + Spent(d) + Spent(e) \in 0..MaxCommits
<1>1. Spent(d) \in {0, 1} /\ Spent(e) \in {0, 1} /\ (d # NoDelta => Spent(d) = 1)
      /\ (e # NoDelta => Spent(e) = 1)
    BY DEF Spent
<1>2. QED
    BY <1>1, LedgerAssumption DEF Commit

LEMMA DeltaFacts ==
    /\ PlainDelta \in Delta /\ NoDelta \in Delta /\ Deltas \cup {NoDelta} \subseteq Delta
    /\ Spent(NoDelta) = 0 /\ Spent(PlainDelta) = 1
<1>1. PlainDelta # NoDelta
    BY DEF PlainDelta, NoDelta
<1>2. PlainDelta \in Delta /\ NoDelta \in Delta
    BY DEF PlainDelta, NoDelta, Delta
<1>3. QED
    BY <1>1, <1>2, LedgerAssumption DEF Spent

LEMMA TurnIsRowTurn == Turn \subseteq RowTurn
BY LedgerAssumption DEF Turn, RowTurn

\* Opening and answering a turn keep the invariant: both rewrite a turn row.
LEMMA OpenTurnKeeps ==
    ASSUME NEW B, RowInv(B), NEW t \in Turn
    PROVE  RowInv([RecordTurn(B, t) EXCEPT !.turns[t].open = TRUE])
<1> DEFINE R == RecordTurn(B, t)
           T == [R.turns EXCEPT ![t] = [R.turns[t] EXCEPT !.open = TRUE]]
<1>1. RowInv(R) /\ R \in BranchRow
    BY TurnWritersKeep DEF RowInv
<1>2. T \in [Turn -> TurnRow]
    BY <1>1, Fields, TurnUpdates DEF Progress
<1>3. [R EXCEPT !.turns[t].open = TRUE] = [R EXCEPT !.turns = T]
    OBVIOUS
<1> HIDE DEF T, R
<1>4. RowInv([R EXCEPT !.turns = T])
    BY <1>1, <1>2, TurnsKeep
<1>5. QED
    BY <1>3, <1>4 DEF R

Answered(B, t) == [B EXCEPT !.turns[t] = [@ EXCEPT !.replied = TRUE, !.open = FALSE]]
Resumed(B, t)  == [B EXCEPT !.turns[t] = [@ EXCEPT !.replied = TRUE, !.again = FALSE]]

LEMMA AnsweredKeeps ==
    ASSUME NEW B, RowInv(B), NEW t \in Turn
    PROVE  RowInv(Answered(B, t)) /\ RowInv(Resumed(B, t))
<1> DEFINE T == [B.turns EXCEPT ![t] = [B.turns[t] EXCEPT !.replied = TRUE, !.open = FALSE]]
           U == [B.turns EXCEPT ![t] = [B.turns[t] EXCEPT !.replied = TRUE, !.again = FALSE]]
<1>1. T \in [Turn -> TurnRow] /\ U \in [Turn -> TurnRow]
    BY Fields, TurnUpdates DEF RowInv, Progress
<1>2. Answered(B, t) = [B EXCEPT !.turns = T] /\ Resumed(B, t) = [B EXCEPT !.turns = U]
    BY DEF Answered, Resumed
<1> HIDE DEF T, U
<1>3. RowInv([B EXCEPT !.turns = T]) /\ RowInv([B EXCEPT !.turns = U])
    BY <1>1, TurnsKeep
<1>4. QED
    BY <1>2, <1>3

\* Two deltas in one transaction that the user did not write.
LEMMA TwoDeltasKeep ==
    ASSUME IInv, NEW b \in Branches, NEW B, RowInv(B), NEW lo \in RowTurn, NEW hi \in RowTurn,
           NEW s \in Source \ {"user"}, NEW o \in Owner, NEW s2 \in Source \ {"user"},
           NEW o2 \in Owner, NEW d \in Delta, NEW e \in Delta,
           commits + Spent(d) + Spent(e) <= MaxCommits
    PROVE  RowInv(Apply(b, Apply(b, B, lo, hi, s, o, d, commits + 1),
                        hi, hi, s2, o2, e, commits + 1 + Spent(d)))
<1> DEFINE A == Apply(b, B, lo, hi, s, o, d, commits + 1)
<1>1. (d # NoDelta => commits + 1 \in Commit) /\ (e # NoDelta => commits + 1 + Spent(d) \in Commit)
    BY CommitNumbers DEF IInv
<1>2. RowInv(A)
    <2>1. Lands(B, s, hi)
        BY DEF Lands
    <2>2. QED
        BY <1>1, <2>1, ApplyKeeps
<1> HIDE DEF A
<1>3. Lands(A, s2, hi)
    BY DEF Lands
<1>4. RowInv(Apply(b, A, hi, hi, s2, o2, e, commits + 1 + Spent(d)))
    BY <1>1, <1>2, <1>3, ApplyKeeps
<1>5. QED
    BY <1>4 DEF A

LEMMA SourcesAndOwners ==
    /\ "rule" \in Source \ {"user"} /\ "extraction" \in Source \ {"user"}
    /\ "code" \in Owner /\ "reply_tag" \in Owner /\ "extraction" \in Owner
BY DEF Source, Owner

LEMMA NewTurnKeeps ==
    ASSUME IInv, NEW b \in Branches, NEW t \in Turn, NEW d \in Deltas \cup {NoDelta},
           NEW proposals \in Deltas \cup {NoDelta}, NEW live, NewTurn(b, t, d, proposals, live)
    PROVE  IInv'
<1> DEFINE R  == RecordTurn(Superseding(branch[b]), t)
           B1 == [R EXCEPT !.turns[t].open = TRUE]
           B2 == Apply(b, B1, t, t, "rule", "code", d, commits + 1)
           B3 == Apply(b, B2, t, t, "extraction", "reply_tag", proposals, commits + 1 + Spent(d))
<1>1. d \in Delta /\ proposals \in Delta /\ commits \in 0..MaxCommits
      /\ commits + Spent(d) + Spent(proposals) <= MaxCommits
    BY DeltaFacts DEF NewTurn, IInv
<1>2. RowInv(Superseding(branch[b]))
    BY TurnWritersKeep DEF IInv
<1>3. RowInv(B1)
    BY <1>2, OpenTurnKeeps
<1>4. RowInv(B3)
    <2> HIDE DEF B1
    <2>1. t \in RowTurn
        BY TurnIsRowTurn
    <2>2. QED
        BY <1>1, <1>3, <2>1, SourcesAndOwners, TwoDeltasKeep
<1>5. branch' = [branch EXCEPT ![b] = B3]
      /\ commits' = commits + Spent(d) + Spent(proposals) /\ UNCHANGED continued
    BY DEF NewTurn
<1>6. commits' \in 0..MaxCommits
    BY <1>1, <1>5, CommitNumbers
<1> HIDE DEF B3
<1>7. continued' \subseteq Commit
    BY <1>5 DEF IInv
<1>8. QED
    BY <1>4, <1>5, <1>6, <1>7, OneBranchStep

\* A request that goes on with the head keeps the invariant.
LEMMA ContinueKeeps ==
    ASSUME IInv, NEW b \in Branches, NEW rules \in {PlainDelta, NoDelta}, Continue(b, rules)
    PROVE  IInv'
<1> DEFINE t  == branch[b].head
           C  == Superseding(branch[b])
           T  == [C.turns EXCEPT ![t] = [C.turns[t] EXCEPT !.again = TRUE]]
           B1 == [C EXCEPT !.turns = T]
           B2 == Apply(b, B1, t, t, "rule", "code", rules, commits + 1)
<1>1. rules \in Delta /\ commits \in 0..MaxCommits /\ t \in Turn
      /\ commits + Spent(rules) <= MaxCommits
    BY DeltaFacts DEF Continue, IInv, Recorded
<1>2. RowInv(C) /\ C \in BranchRow
    BY TurnWritersKeep DEF IInv, RowInv
<1>3. T \in [Turn -> TurnRow]
    BY <1>1, <1>2, Fields, TurnUpdates DEF Progress
<1>4. branch' = [branch EXCEPT ![b] = B2] /\ commits' = commits + Spent(rules)
      /\ UNCHANGED continued
    BY DEF Continue
<1> HIDE DEF t, C, T
<1>5. RowInv(B1)
    BY <1>2, <1>3, TurnsKeep
<1>6. commits' \in 0..MaxCommits /\ (rules # NoDelta => commits + 1 \in Commit)
    BY <1>1, <1>4, LedgerAssumption DEF Spent, Commit
<1>7. RowInv(B2)
    <2>1. t \in RowTurn /\ Lands(B1, "rule", t)
        BY <1>1, TurnIsRowTurn DEF Lands
    <2> HIDE DEF B1
    <2>2. QED
        BY <1>1, <1>5, <1>6, <2>1, SourcesAndOwners, ApplyKeeps
<1> HIDE DEF B2
<1>8. continued' \subseteq Commit
    BY <1>4 DEF IInv
<1>9. QED
    BY <1>4, <1>6, <1>7, <1>8, OneBranchStep

\* What the end of a stream commits keeps the invariant of the branch.
LEMMA IngestedKeeps ==
    ASSUME IInv, NEW b \in Branches, NEW B, RowInv(B), NEW t \in Turn,
           NEW tags \in Deltas \cup {NoDelta}, NEW rules \in {PlainDelta, NoDelta}, NEW live,
           Ingesting(tags, rules, live)
    PROVE  RowInv(Ingested(b, B, t, tags, rules)) /\ commits' \in 0..MaxCommits
<1>1. tags \in Delta /\ rules \in Delta /\ commits \in 0..MaxCommits /\ t \in RowTurn
      /\ commits + Spent(tags) + Spent(rules) <= MaxCommits
      /\ commits' = commits + Spent(tags) + Spent(rules)
    BY DeltaFacts, TurnIsRowTurn DEF Ingesting, IInv
<1>2. RowInv(Ingested(b, B, t, tags, rules))
    BY <1>1, SourcesAndOwners, TwoDeltasKeep DEF Ingested
<1>3. QED
    BY <1>1, <1>2, CommitNumbers

LEMMA ReplyKeeps ==
    ASSUME IInv, NEW b \in Branches, NEW t \in Turn, NEW tags \in Deltas \cup {NoDelta},
           NEW rules \in {PlainDelta, NoDelta}, NEW live,
           Reply(b, t, tags, rules, live) \/ ContinueReply(b, t, tags, rules, live)
    PROVE  IInv'
<1> DEFINE A == Answered(branch[b], t)
           G == Resumed(branch[b], t)
<1>1. RowInv(A) /\ RowInv(G) /\ Ingesting(tags, rules, live)
    BY AnsweredKeeps DEF IInv, Reply, ContinueReply
<1>2. PICK B2 \in {Ingested(b, A, t, tags, rules), Ingested(b, G, t, tags, rules)} :
          branch' = [branch EXCEPT ![b] = SettleHead(B2)] \/ branch' = [branch EXCEPT ![b] = B2]
    BY DEF Reply, ContinueReply, Answered, Resumed
<1> HIDE DEF A, G
<1>3. RowInv(B2) /\ commits' \in 0..MaxCommits
    BY <1>1, <1>2, IngestedKeeps
<1>4. RowInv(SettleHead(B2))
    BY <1>3, TurnWritersKeep
<1>5. continued' \subseteq Commit
    <2>1. continued' = continued \/ continued' = continued \cup (commits + 1 .. commits')
        BY DEF Reply, ContinueReply
    <2>2. commits + 1 .. commits' \subseteq Commit
        BY <1>3, LedgerAssumption DEF IInv, Commit
    <2>3. QED
        BY <2>1, <2>2 DEF IInv
<1>6. QED
    BY <1>2, <1>3, <1>4, <1>5, OneBranchStep

\* Steps that change turn rows only.
LEMMA RowOnlyKeeps ==
    ASSUME IInv, NEW b \in Branches, NEW t \in Turn, NEW lo, NEW hi,
           RetryReply(b, t) \/ IdleSettle(b) \/ ExtractionFails(b, lo, hi) \/ Requeue(b, lo, hi)
    PROVE  IInv'
<1>1. RowInv(branch[b]) /\ branch[b] \in BranchRow /\ commits \in 0..MaxCommits
      /\ continued' \subseteq Commit
    BY DEF IInv, RowInv, RetryReply, IdleSettle, ExtractionFails, Requeue
<1>2. CASE RetryReply(b, t)
    <2> DEFINE T == [branch[b].turns EXCEPT ![t] = [branch[b].turns[t] EXCEPT !.replied = TRUE]]
    <2>1. T \in [Turn -> TurnRow]
        BY <1>1, Fields, TurnUpdates DEF Progress
    <2>2. branch' = [branch EXCEPT ![b] = [branch[b] EXCEPT !.turns = T]] /\ UNCHANGED commits
        BY <1>2 DEF RetryReply
    <2> HIDE DEF T
    <2>3. QED
        BY <1>1, <2>1, <2>2, TurnsKeep, OneBranchStep
<1>3. CASE IdleSettle(b)
    <2>1. branch' = [branch EXCEPT ![b] = SettleHead(branch[b])] /\ UNCHANGED commits
        BY <1>3 DEF IdleSettle
    <2>2. QED
        BY <1>1, <2>1, TurnWritersKeep, OneBranchStep
<1>4. CASE ExtractionFails(b, lo, hi) \/ Requeue(b, lo, hi)
    <2>1. PICK status \in {"failed", "pending"}, expected \in {"failed", "pending"} :
              branch' = [branch EXCEPT ![b] = MarkExtraction(branch[b], lo, hi, status, expected)]
        BY <1>4 DEF ExtractionFails, Requeue
    <2>2. RowInv(MarkExtraction(branch[b], lo, hi, status, expected))
        BY <1>1, TurnWritersKeep DEF Progress
    <2>3. UNCHANGED commits
        BY <1>4 DEF ExtractionFails, Requeue
    <2>4. QED
        BY <1>1, <2>1, <2>2, <2>3, OneBranchStep
<1>5. QED
    BY <1>2, <1>3, <1>4

LEMMA ExtractKeeps ==
    ASSUME IInv, NEW b \in Branches, NEW lo \in Turn, NEW hi \in Turn,
           NEW d \in Deltas \cup {NoDelta}, NEW cascade \in {PlainDelta, NoDelta},
           Extract(b, lo, hi, d, cascade)
    PROVE  IInv'
<1> DEFINE X == Extracted(b, lo, hi, d, cascade)
<1>1. d \in Delta /\ cascade \in Delta /\ commits \in 0..MaxCommits /\ RowInv(branch[b])
      /\ commits + Spent(d) + Spent(cascade) <= MaxCommits /\ continued' \subseteq Commit
    BY DeltaFacts DEF Extract, IInv
<1>2. RowInv(X)
    <2>1. lo \in RowTurn /\ hi \in RowTurn
        BY TurnIsRowTurn
    <2>2. QED
        BY <1>1, <2>1, SourcesAndOwners, TwoDeltasKeep DEF Extracted
<1>3. branch' = [branch EXCEPT ![b] = MarkExtraction(X, lo, hi, "done", "pending")]
      /\ commits' = commits + Spent(d) + Spent(cascade)
    BY DEF Extract
<1> HIDE DEF X
<1>4. RowInv(MarkExtraction(X, lo, hi, "done", "pending"))
    BY <1>2, TurnWritersKeep DEF Progress
<1>5. commits' \in 0..MaxCommits
    BY <1>1, <1>3, CommitNumbers
<1>6. QED
    BY <1>1, <1>3, <1>4, <1>5, OneBranchStep

LEMMA ExtractInterruptedKeeps ==
    ASSUME IInv, NEW b \in Branches, NEW lo \in Turn, NEW hi \in Turn, NEW d \in Deltas,
           ExtractInterrupted(b, lo, hi, d)
    PROVE  IInv'
<1>1. d \in Delta /\ NoDelta \in Delta /\ commits \in 0..MaxCommits /\ RowInv(branch[b])
      /\ commits + Spent(d) + Spent(NoDelta) <= MaxCommits /\ continued' \subseteq Commit
    BY DeltaFacts, LedgerAssumption DEF ExtractInterrupted, IInv, Spent
<1>2. RowInv(Extracted(b, lo, hi, d, NoDelta))
    <2>1. lo \in RowTurn /\ hi \in RowTurn
        BY TurnIsRowTurn
    <2>2. QED
        BY <1>1, <2>1, SourcesAndOwners, TwoDeltasKeep DEF Extracted
<1>3. branch' = [branch EXCEPT ![b] = Extracted(b, lo, hi, d, NoDelta)]
      /\ commits' = commits + Spent(d)
    BY DEF ExtractInterrupted
<1>4. commits' \in 0..MaxCommits
    BY <1>1, <1>3, CommitNumbers
<1>5. QED
    BY <1>1, <1>2, <1>3, <1>4, OneBranchStep

LEMMA SwipeKeeps ==
    ASSUME IInv, NEW b \in Branches, Swipe(b)
    PROVE  IInv'
<1>1. RowInv(branch[b]) /\ commits \in 0..MaxCommits /\ continued' \subseteq Commit
    BY DEF IInv, Swipe
<1>2. branch[b].head \in Turn
    BY DEF Swipe, Recorded
<1>3. RowInv(RetractExtractionAt(Superseding(branch[b]), branch[b].head))
    BY <1>1, <1>2, TurnWritersKeep, RetractKeeps
<1>4. branch' = [branch EXCEPT ![b] = RetractExtractionAt(Superseding(branch[b]), branch[b].head)]
      /\ UNCHANGED commits
    BY DEF Swipe
<1>5. QED
    BY <1>1, <1>3, <1>4, OneBranchStep

LEMMA WriteKeeps ==
    ASSUME IInv, NEW b \in Branches, CreatorWrite(b) \/ UserWrite(b)
    PROVE  IInv'
<1> DEFINE B == branch[b]
<1>1. RowInv(B) /\ B \in BranchRow /\ commits \in 0..MaxCommits
    BY DEF IInv, RowInv
<1>2. PICK t \in {CreatorTurn(B), UserTurn(B)} : Write(b, t)
    BY DEF CreatorWrite, UserWrite
<1>3. t \in RowTurn /\ Lands(B, "user", t)
    <2>1. t \in Int /\ t >= -1 /\ t >= MaxCkpt(B) /\ t <= MaxTurn + 1
        BY <1>1, <1>2, WriteTurns DEF Write
    <2>2. QED
        BY <2>1, LedgerAssumption DEF RowTurn, Lands
<1>4. commits + 1 \in Commit /\ commits + 1 \in 0..MaxCommits
    BY <1>1, <1>2, LedgerAssumption DEF Write, Commit
<1>5. RowInv(Apply(b, B, t, t, "user", "code", PlainDelta, commits + 1))
    <2>1. "user" \in Source /\ "code" \in Owner /\ PlainDelta \in Delta
        BY DeltaFacts DEF Source, Owner
    <2> HIDE DEF B
    <2>2. QED
        BY <1>1, <1>3, <1>4, <2>1, ApplyKeeps
<1>6. branch' = [branch EXCEPT ![b] = Apply(b, B, t, t, "user", "code", PlainDelta, commits + 1)]
      /\ commits' = commits + 1 /\ continued' \subseteq Commit
    BY <1>2 DEF Write, IInv
<1>7. QED
    BY <1>4, <1>5, <1>6, OneBranchStep

\* The branches after a fork: the new one, the source's status, and what is pruned.
LEMMA ForkKeeps ==
    ASSUME IInv, NEW src \in Branches, NEW new \in Branches, NEW ft \in Turn \cup {-1},
           NEW kill \in BOOLEAN, Fork(src, new, ft, kill)
    PROVE  IInv'
<1> DEFINE N == [ForkOf(branch[src], ft) EXCEPT !.session = IF kill THEN @ ELSE new]
           S == [branch[src] EXCEPT !.status = IF kill THEN "dead" ELSE @]
<1>1. RowInv(branch[src]) /\ branch[src] \in BranchRow /\ branch \in [Branches -> BranchRow]
      /\ src # new
    BY DEF IInv, RowInv, Fork
<1>2. RowInv(N)
    <2>1. RowInv(ForkOf(branch[src], ft)) /\ ForkOf(branch[src], ft) \in BranchRow
        BY <1>1, ForkOfKeeps DEF RowInv
    <2>2. ForkOf(branch[src], ft).session \in Branches
        BY <2>1, Fields
    <2>3. QED
        BY <2>1, <2>2, StatusKeeps
<1>3. RowInv(S)
    <2>1. branch[src].status \in {"unused", "live", "dead", "pruned"}
        BY <1>1, Fields
    <2>2. QED
        BY <1>1, <2>1, StatusKeeps
<1>4. \A x \in Branches : branch'[x] \in {NewBranch("pruned"), branch[x], S, N}
    BY <1>1 DEF Fork, IInv
<1> HIDE DEF N, S
<1>5. \A x \in Branches : RowInv(branch'[x])
    BY <1>2, <1>3, <1>4, NewBranchKeeps DEF IInv
<1>6. branch' \in [Branches -> BranchRow]
    <2>1. \A x \in Branches : branch'[x] \in BranchRow
        BY <1>5 DEF RowInv
    <2>2. branch' = [x \in Branches |-> branch'[x]]
        BY DEF Fork
    <2>3. QED
        BY <2>1, <2>2
<1>7. UNCHANGED <<commits, continued>>
    BY DEF Fork
<1>8. QED
    BY <1>5, <1>6, <1>7 DEF IInv

LEMMA IInvInit == Init => IInv
<1> SUFFICES ASSUME Init PROVE IInv
    OBVIOUS
<1>1. \A b \in Branches : branch[b] = NewBranch("live") \/ branch[b] = NewBranch("unused")
    BY DEF Init
<1>2. \A b \in Branches : RowInv(branch[b])
    BY <1>1, NewBranchKeeps
<1>3. branch = [b \in Branches |-> branch[b]]
    BY DEF Init
<1>4. branch \in [Branches -> BranchRow]
    BY <1>2, <1>3 DEF RowInv
<1>5. commits \in 0..MaxCommits /\ continued \subseteq Commit
    BY LedgerAssumption DEF Init
<1>6. QED
    BY <1>2, <1>4, <1>5 DEF IInv

LEMMA IInvStep == IInv /\ [Next]_vars => IInv'
<1> SUFFICES ASSUME IInv, [Next]_vars PROVE IInv'
    OBVIOUS
<1>1. CASE UNCHANGED vars
    BY <1>1 DEF vars, IInv
<1>2. ASSUME NEW b \in Branches, NEW t \in Turn, NEW d \in Deltas \cup {NoDelta},
             NEW proposals \in Deltas \cup {NoDelta}, NEW rules \in {PlainDelta, NoDelta},
             NEW live \in BOOLEAN,
             \/ NewTurn(b, t, d, proposals, live)
             \/ Continue(b, rules)
             \/ Reply(b, t, d, rules, live) \/ ContinueReply(b, t, d, rules, live)
      PROVE  IInv'
    BY <1>2, NewTurnKeeps, ContinueKeeps, ReplyKeeps
<1>3. ASSUME NEW b \in Branches, NEW t \in Turn, NEW lo \in Turn, NEW hi \in Turn,
             RetryReply(b, t) \/ IdleSettle(b) \/ ExtractionFails(b, lo, hi) \/ Requeue(b, lo, hi)
      PROVE  IInv'
    BY <1>3, RowOnlyKeeps
<1>4. ASSUME NEW b \in Branches, NEW lo \in Turn, NEW hi \in Turn,
             NEW d \in Deltas \cup {NoDelta}, NEW cascade \in {PlainDelta, NoDelta},
             Extract(b, lo, hi, d, cascade)
      PROVE  IInv'
    BY <1>4, ExtractKeeps
<1>5. ASSUME NEW b \in Branches, NEW lo \in Turn, NEW hi \in Turn, NEW d \in Deltas,
             ExtractInterrupted(b, lo, hi, d)
      PROVE  IInv'
    BY <1>5, ExtractInterruptedKeeps
<1>6. ASSUME NEW b \in Branches, Swipe(b) \/ CreatorWrite(b) \/ UserWrite(b)
      PROVE  IInv'
    BY <1>6, SwipeKeeps, WriteKeeps
<1>7. ASSUME NEW b \in Branches, NEW new \in Branches, NEW ft \in Turn \cup {-1},
             NEW kill \in BOOLEAN, Fork(b, new, ft, kill)
      PROVE  IInv'
    BY <1>7, ForkKeeps
<1>8. 0 \in Turn /\ LiveRecalcs \subseteq BOOLEAN
    BY LedgerAssumption DEF Turn
<1>9. ASSUME NEW b \in Branches, NEW live \in LiveRecalcs, Step(b, live) PROVE IInv'
    BY <1>2, <1>3, <1>4, <1>5, <1>6, <1>8, <1>9 DEF Step
<1>10. QED
    BY <1>1, <1>7, <1>9 DEF Next

LEMMA IInvAlways == Spec => []IInv
BY IInvInit, IInvStep, PTL DEF Spec

-----------------------------------------------------------------------------
(* The theorems *)

\* Every row the handlers write is well typed, whatever deltas and turns they are given: in
\* particular no commit, mark, retry or fork leaves a status or a turn its table does not have.
THEOREM TypeCorrect == Spec => []TypeOK
<1>1. IInv => TypeOK
    BY DEF IInv, TypeOK
<1>2. QED
    BY <1>1, IInvAlways, PTL

\* Receipts and journaled damage stay in one-to-one correspondence through commits, retries,
\* forks and pruning, so the exactly-once check on receipts speaks for the journal.
THEOREM ReceiptsStayMatched == Spec => []ReceiptsMatchJournal
<1>1. IInv => ReceiptsMatchJournal
    <2>1. ASSUME NEW B, Matched(B)
          PROVE  LET damage == {r \in B.journal : r.effect # NoEffect}
                 IN  /\ B.receipts =
                          {[effect |-> r.effect, turn |-> r.turn, source |-> r.source] : r \in damage}
                     /\ \A r, q \in damage : r.effect = q.effect => r = q
        <3> DEFINE damage == {r \in B.journal : r.effect # NoEffect}
        <3>1. \A x : x \in B.receipts <=> \E r \in damage : x = ReceiptOf(r)
            BY <2>1 DEF Matched
        <3>2. B.receipts = {ReceiptOf(r) : r \in damage}
            <4> HIDE DEF damage
            <4> QED
                BY <3>1
        <3>3. \A r, q \in damage : r.effect = q.effect => r = q
            BY <2>1 DEF Matched
        <3>4. QED
            BY <3>2, <3>3 DEF ReceiptOf
    <2>2. QED
        BY <2>1 DEF IInv, RowInv, ReceiptsMatchJournal
<1>2. QED
    BY <1>1, IInvAlways, PTL

\* A user's write is never hidden by a checkpoint: not by one written later on another turn,
\* not after a retry has deleted some, not on a fork.
THEOREM UserWritesStayVisible == Spec => []UserWritesSurvive
<1>1. IInv => UserWritesSurvive
    BY CurrentHoldsWrites DEF IInv, UserWritesSurvive
<1>2. QED
    BY <1>1, IInvAlways, PTL

\* At and below the fork turn the new branch has the checkpoints and the rows of its source.
LEMMA ForkReads ==
    ASSUME NEW B \in BranchRow, NEW ft \in Turn \cup {-1}, NEW t \in Int
    PROVE  /\ t <= ft => StateAt(ForkOf(B, ft), t) = StateAt(B, t)
           /\ ft <= t => StateAt(ForkOf(B, ft), t) = StateAt(B, ft)
<1> DEFINE F == ForkOf(B, ft)
           m == IF t <= ft THEN t ELSE ft
<1>1. /\ F.journal = {r \in B.journal : r.turn <= ft}
      /\ F.ckpt = [k \in TurnIdx |-> IF k <= ft THEN B.ckpt[k] ELSE NoCheckpoint]
    BY DEF ForkOf, BranchRow
<1>2. ft \in Int /\ m \in Int /\ TurnIdx \subseteq Int /\ m <= t /\ m <= ft
    BY LedgerAssumption DEF Turn, TurnIdx
<1> HIDE DEF F
<1>3. Checkpointed(F, t) = Checkpointed(B, m)
    <2>1. \A k \in TurnIdx : (k <= t /\ F.ckpt[k] # NoCheckpoint)
                               <=> (k <= m /\ B.ckpt[k] # NoCheckpoint)
        BY <1>1, <1>2
    <2>2. QED
        BY <2>1 DEF Checkpointed
<1>4. BaseTurn(F, t) = BaseTurn(B, m)
    BY <1>3 DEF BaseTurn
<1>5. BaseState(F, t) = BaseState(B, m)
    <2>1. CASE Checkpointed(B, m) = {}
        BY <1>3, <2>1 DEF BaseState
    <2>2. CASE Checkpointed(B, m) # {}
        <3>1. BaseTurn(B, m) \in Checkpointed(B, m)
            BY <2>2, BaseTurnIs
        <3>2. BaseTurn(B, m) \in TurnIdx /\ BaseTurn(B, m) <= ft
            <4>1. BaseTurn(B, m) \in TurnIdx /\ BaseTurn(B, m) <= m
                BY <3>1 DEF Checkpointed
            <4> HIDE DEF m
            <4>2. BaseTurn(B, m) \in Int
                BY <1>2, <4>1
            <4>3. QED
                BY <1>2, <4>1, <4>2
        <3>3. \A k \in TurnIdx : k <= ft => F.ckpt[k] = B.ckpt[k]
            BY <1>1
        <3>4. F.ckpt[BaseTurn(B, m)] = B.ckpt[BaseTurn(B, m)]
            BY <3>2, <3>3
        <3>5. QED
            BY <1>3, <1>4, <2>2, <3>4 DEF BaseState
    <2>3. QED
        BY <2>1, <2>2
<1>6. \A c \in Commit : Replays(F, BaseTurn(F, t), t, c) = Replays(B, BaseTurn(B, m), m, c)
    <2>1. \A r \in B.journal : r.turn \in Int
        BY LedgerAssumption, Fields DEF Row, RowTurn
    <2>2. \A r \in B.journal : (r.turn <= ft /\ r.turn <= t) <=> r.turn <= m
        BY <1>2, <2>1
    <2>3. QED
        BY <1>1, <1>4, <2>2 DEF Replays
<1>7. StateAt(F, t) = StateAt(B, m)
    BY <1>5, <1>6 DEF StateAt
<1>8. (t <= ft => m = t) /\ (ft <= t => m = ft)
    BY <1>2
<1>9. QED
    BY <1>7, <1>8 DEF F

\* The state of a branch depends on its journal and its checkpoints only.
LEMMA SameReads ==
    ASSUME NEW A, NEW B, A.journal = B.journal, A.ckpt = B.ckpt, NEW t
    PROVE  StateAt(A, t) = StateAt(B, t)
BY DEF StateAt, BaseState, BaseTurn, Checkpointed, Replays

\* An edit fork starts from exactly the source's state at the fork turn and reads the same at
\* every earlier turn, wherever checkpoints and rows that run ahead of their turn lie.
THEOREM ForksInherit == Spec => ForkInheritsHistory
<1>1. ASSUME IInv, NEW src \in Branches, NEW new \in Branches, NEW ft \in Turn \cup {-1},
             NEW kill \in BOOLEAN, Fork(src, new, ft, kill)
      PROVE  /\ CurrentState(branch'[new]) = StateAt(branch[src], ft)
             /\ \A t \in Turn : t <= ft => StateAt(branch'[new], t) = StateAt(branch[src], t)
    <2> DEFINE F == ForkOf(branch[src], ft)
               N == [F EXCEPT !.session = IF kill THEN @ ELSE new]
    <2>1. branch[src] \in BranchRow /\ src # new
        BY <1>1 DEF IInv, Fork
    <2>2. F \in BranchRow
        BY <2>1, ForkOfType
    <2>3. F.status = "live"
        BY <2>1 DEF ForkOf, BranchRow
    <2> HIDE DEF F
    <2>4. N.status = "live" /\ N.journal = F.journal /\ N.ckpt = F.ckpt
        BY <2>2, <2>3 DEF BranchRow
    <2>5. branch'[new] = N
        BY <1>1, <2>1, <2>4 DEF Fork, Dead, F, IInv
    <2> HIDE DEF N
    <2>6. \A t : StateAt(branch'[new], t) = StateAt(F, t)
        BY <2>4, <2>5, SameReads
    <2>7. ft <= MaxTurn + 1 /\ MaxTurn + 1 \in Int /\ Turn \subseteq Int
        BY LedgerAssumption DEF Turn
    <2>8. CurrentState(branch'[new]) = StateAt(branch[src], ft)
        BY <2>1, <2>6, <2>7, ForkReads DEF CurrentState, F
    <2>9. QED
        BY <2>1, <2>6, <2>7, <2>8, ForkReads DEF F
<1>2. IInv /\ [Next]_vars
        => [\A new \in Branches : branch[new].status = "unused" /\ branch'[new].status = "live" =>
               \A src \in Branches, ft \in Turn \cup {-1}, kill \in BOOLEAN :
                  Fork(src, new, ft, kill) =>
                     /\ CurrentState(branch'[new]) = StateAt(branch[src], ft)
                     /\ \A t \in Turn : t <= ft =>
                            StateAt(branch'[new], t) = StateAt(branch[src], t)]_vars
    BY <1>1
<1>3. QED
    BY <1>2, IInvAlways, PTL DEF Spec, ForkInheritsHistory

-----------------------------------------------------------------------------
(* Retries, when the stream of a request ends before the host opens the next request on its    *)
(* branch: the inductive invariant, branch by branch.  C are the commits of streams that went  *)
(* on with a turn, n the commits made so far.                                                  *)

\* Recorded turns lie behind the head.
RecordedUpToHead(B) == \A t \in Turn : B.turns[t].progress # "none" => t <= B.head

\* The turn of a stream that opened it is recorded, not retired, neither replied to nor settled;
\* the turn of a stream that goes on with it is recorded, and the other stream has ended.
OpenIsUndecided(B) ==
    \A t \in Turn : B.turns[t].open =>
        B.turns[t].progress \notin {"none", "skipped"} /\ ~ B.turns[t].settled /\ ~ B.turns[t].replied
ContinuedIsRecorded(B) ==
    \A t \in Turn : B.turns[t].again => B.turns[t].progress # "none" /\ ~ B.turns[t].open

\* Narrator proposals lie behind the head, at a retired turn only those of continuations.
ProposalsBehindHead(B) == \A r \in B.journal : r.source = "extraction" => r.turn <= B.head
RetiredHoldsContinued(B, C) ==
    \A t \in Turn : B.turns[t].progress = "skipped" =>
        \A r \in B.journal : r.source = "extraction" /\ r.turn = t => r.commit \in C

\* Only proposals carry the damage of a reply or of an extraction; a turn whose own stream still
\* runs has not been extracted.
OwnersAreProposals(B) ==
    \A r \in B.journal : r.effect # NoEffect => r.effect.owner = "code" \/ r.source = "extraction"
ExtractedIsClosed(B) ==
    \A r \in B.journal : \A t \in Turn :
        r.effect # NoEffect /\ r.effect.owner = "extraction" /\ r.turn = t => ~ B.turns[t].open

\* Whether a report of owner o, committed as c, may follow one of owner p for the same wound.
MayFollow(p, o, c, C) == p = o \/ (p = "extraction" /\ o = "reply_tag" /\ c \in C)

\* Rows were committed before; reports of one wound follow each other only as they may.
CommitsBehind(B, n) == \A r \in B.journal : r.commit <= n
ReportsInOrder(B, C) ==
    \A r, q \in B.journal :
        (r.effect # NoEffect /\ q.effect # NoEffect /\ r.turn = q.turn
            /\ r.effect.wound = q.effect.wound /\ r.commit < q.commit)
        => MayFollow(r.effect.owner, q.effect.owner, q.commit, C)

Timely(B, C, n) ==
    /\ RecordedUpToHead(B) /\ OpenIsUndecided(B) /\ ContinuedIsRecorded(B)
    /\ ProposalsBehindHead(B) /\ RetiredHoldsContinued(B, C)
    /\ OwnersAreProposals(B) /\ ExtractedIsClosed(B)
    /\ CommitsBehind(B, n) /\ ReportsInOrder(B, C)

TInv == \A b \in Branches : Timely(branch[b], continued, commits)

-----------------------------------------------------------------------------
(* The operations *)

LEMMA BlockersAre ==
    /\ Blockers("code") = {} /\ Blockers("reply_tag") = {"code"}
    /\ Blockers("extraction") = {"code", "reply_tag"}
BY DEF Blockers

LEMMA IntFacts ==
    ASSUME NEW B \in BranchRow
    PROVE  /\ B.head \in Int /\ B.turns \in [Turn -> TurnRow] /\ Turn \subseteq Int
           /\ \A r \in B.journal : r.turn \in Int /\ r.commit \in Int
<1>1. Row \subseteq [commit : Int, lo : RowTurn, turn : Int, source : Source,
                     effect : Effect \cup {NoEffect}]
    BY LedgerAssumption DEF Row, RowTurn, Commit
<1>2. QED
    BY <1>1, Fields, LedgerAssumption DEF Turn

\* More commits and more continuations change nothing for the branches they do not touch.
LEMMA TimelyGrows ==
    ASSUME NEW B \in BranchRow, NEW C, NEW D, C \subseteq D, NEW n \in Int, NEW m \in Int, n <= m,
           Timely(B, C, n)
    PROVE  Timely(B, D, m)
<1>1. CommitsBehind(B, m)
    BY IntFacts DEF Timely, CommitsBehind
<1>2. RetiredHoldsContinued(B, D) /\ ReportsInOrder(B, D)
    BY DEF Timely, RetiredHoldsContinued, ReportsInOrder, MayFollow
<1>3. QED
    BY <1>1, <1>2 DEF Timely

\* A commit keeps the invariant when a narrator proposal lands on a turn that is recorded and
\* not retired or comes from a continuation, and when whoever reported the wound at this turn
\* before is outranked or may be followed.
LEMMA ApplyTimely ==
    ASSUME NEW b \in Branches, NEW B, RowInv(B), NEW C, NEW n \in Int, Timely(B, C, n),
           NEW lo \in RowTurn, NEW hi \in RowTurn, NEW source \in Source, NEW owner \in Owner,
           NEW delta \in Delta, NEW c, c = n + 1,
           source = "extraction" => hi <= B.head /\ (B.turns[hi].progress # "skipped" \/ c \in C),
           owner = "code" \/ source = "extraction",
           owner = "extraction" => ~ B.turns[hi].open,
           \A q \in B.journal : q.effect # NoEffect /\ q.turn = hi /\ delta.wound # NoWound
              => q.effect.owner \in Blockers(owner) \/ MayFollow(q.effect.owner, owner, c, C)
    PROVE  Timely(Apply(b, B, lo, hi, source, owner, delta, c), C, n + Spent(delta))
<1> DEFINE e   == Admitted(b, B, lo, hi, owner, delta, c)
           row == NewRow(b, B, lo, hi, source, owner, delta, c)
           A   == Apply(b, B, lo, hi, source, owner, delta, c)
<1>1. B \in BranchRow /\ Matched(B)
    BY DEF RowInv
<1>2. CASE ~ Applies(b, B, lo, hi, owner, delta, c)
    <2>1. A = B
        BY <1>2 DEF Apply
    <2>2. n + Spent(delta) \in Int /\ n <= n + Spent(delta)
        BY DEF Spent
    <2> HIDE DEF A
    <2>3. QED
        BY <1>1, <2>1, <2>2, TimelyGrows DEF A
<1>3. CASE Applies(b, B, lo, hi, owner, delta, c)
    <2>1. A.journal = Journaled(b, B, lo, hi, source, owner, delta, c)
        BY <1>1, <1>3, ApplyRows
    <2>2. A.journal = B.journal \cup {row}
        BY <2>1 DEF Journaled
    <2>3. A.turns = B.turns /\ A.head = B.head
        BY <1>1, ApplyTurns
    <2>4. row.effect = e /\ row.turn = hi /\ row.source = source /\ row.commit = n + 1
        BY DEF NewRow
    <2>5. e # NoEffect => /\ delta.wound # NoWound /\ e.owner = owner /\ e.turn = hi
                          /\ e.wound = delta.wound /\ Admits(B, e)
        BY DEF Admitted
    <2>6. n + Spent(delta) = n + 1
        BY <1>3 DEF Applies, Admitted, NoDelta, Spent
    <2>7. ASSUME e # NoEffect, NEW r \in B.journal, r.effect # NoEffect, r.turn = hi,
                 r.effect.wound = e.wound
          PROVE  r.effect.owner \notin Blockers(owner)
        <3>1. ReceiptOf(r) \in B.receipts
            BY <1>1, <2>7 DEF Matched
        <3>2. ReceiptOf(r).turn = hi /\ ReceiptOf(r).effect = r.effect
            BY <2>7 DEF ReceiptOf
        <3>3. QED
            BY <2>5, <2>7, <3>1, <3>2 DEF Admits
    <2>8. \A r \in B.journal : r.commit \in Int /\ r.commit <= n
        BY <1>1, IntFacts DEF Timely, CommitsBehind
    <2> HIDE DEF e, row, A
    <2>9. RecordedUpToHead(A) /\ OpenIsUndecided(A) /\ ContinuedIsRecorded(A)
        BY <2>3 DEF Timely, RecordedUpToHead, OpenIsUndecided, ContinuedIsRecorded
    <2>10. ProposalsBehindHead(A) /\ RetiredHoldsContinued(A, C)
        BY <2>2, <2>3, <2>4 DEF Timely, ProposalsBehindHead, RetiredHoldsContinued
    <2>11. OwnersAreProposals(A)
        BY <2>2, <2>4, <2>5 DEF Timely, OwnersAreProposals
    <2>12. ExtractedIsClosed(A)
        BY <2>2, <2>3, <2>4, <2>5 DEF Timely, ExtractedIsClosed
    <2>13. CommitsBehind(A, n + 1)
        BY <2>2, <2>4, <2>8 DEF CommitsBehind
    <2>14. ReportsInOrder(A, C)
        <3>1. ASSUME NEW r \in A.journal, NEW q \in A.journal, r.effect # NoEffect,
                     q.effect # NoEffect, r.turn = q.turn, r.effect.wound = q.effect.wound,
                     r.commit < q.commit
              PROVE  MayFollow(r.effect.owner, q.effect.owner, q.commit, C)
            <4>1. CASE r \in B.journal /\ q \in B.journal
                BY <3>1, <4>1 DEF Timely, ReportsInOrder
            <4>2. CASE r = row
                BY <2>2, <2>4, <2>8, <3>1, <4>2
            <4>3. CASE r \in B.journal /\ q = row
                BY <2>4, <2>5, <2>7, <3>1, <4>3
            <4>4. QED
                BY <2>2, <4>1, <4>2, <4>3
        <3>2. QED
            BY <3>1 DEF ReportsInOrder
    <2>15. QED
        BY <2>6, <2>9, <2>10, <2>11, <2>12, <2>13, <2>14 DEF Timely, A
<1>4. QED
    BY <1>2, <1>3

\* A plain delta reports no wound, so the user and code's rules may commit it anywhere.
LEMMA PlainTimely ==
    ASSUME NEW b \in Branches, NEW B, RowInv(B), NEW C, NEW n \in Int, Timely(B, C, n),
           NEW hi \in RowTurn, NEW source \in {"rule", "user"}, NEW delta \in {PlainDelta, NoDelta},
           NEW c, c = n + 1
    PROVE  Timely(Apply(b, B, hi, hi, source, "code", delta, c), C, n + Spent(delta))
<1>1. delta \in Delta
    BY DeltaFacts
<1>2. delta.wound = NoWound
    BY DEF PlainDelta, NoDelta
<1>3. source \in Source /\ "code" \in Owner
    BY DEF Source, Owner
<1>4. \A q \in B.journal : q.effect # NoEffect /\ q.turn = hi /\ delta.wound # NoWound
         => q.effect.owner \in Blockers("code") \/ MayFollow(q.effect.owner, "code", c, C)
    BY <1>2
<1>5. source # "extraction" /\ "code" # "extraction"
    OBVIOUS
<1>6. QED
    BY <1>1, <1>3, <1>4, <1>5, ApplyTimely

LEMMA NewBranchTimely ==
    ASSUME NEW status, NEW C, NEW n
    PROVE  Timely(NewBranch(status), C, n)
<1>1. NewBranch(status).journal = {}
      /\ \A t \in Turn : NewBranch(status).turns[t] = UnrecordedTurn
    BY DEF NewBranch
<1>2. UnrecordedTurn.progress = "none" /\ ~ UnrecordedTurn.open /\ ~ UnrecordedTurn.again
    BY DEF UnrecordedTurn
<1>3. QED
    BY <1>1, <1>2 DEF Timely, RecordedUpToHead, OpenIsUndecided, ContinuedIsRecorded,
           ProposalsBehindHead, RetiredHoldsContinued, OwnersAreProposals, ExtractedIsClosed,
           CommitsBehind, ReportsInOrder

\* Operations that only rewrite turn rows: what they must not do.
LEMMA TurnsTimely ==
    ASSUME NEW B \in BranchRow, NEW C, NEW n, Timely(B, C, n), NEW A, A.journal = B.journal,
           A.head >= B.head, A.head \in Int,
           RecordedUpToHead(A), OpenIsUndecided(A), ContinuedIsRecorded(A),
           \A t \in Turn : A.turns[t].progress = "skipped" => B.turns[t].progress = "skipped",
           \A t \in Turn : A.turns[t].open => B.turns[t].open \/ t > B.head
    PROVE  Timely(A, C, n)
<1> USE IntFacts
<1>1. ProposalsBehindHead(A)
    BY DEF Timely, ProposalsBehindHead
<1>2. RetiredHoldsContinued(A, C)
    BY DEF Timely, RetiredHoldsContinued
<1>3. ExtractedIsClosed(A)
    <2>1. ASSUME NEW r \in B.journal, NEW t \in Turn, r.effect # NoEffect,
                 r.effect.owner = "extraction", r.turn = t, A.turns[t].open
          PROVE  FALSE
        <3>1. ~ B.turns[t].open
            BY <2>1 DEF Timely, ExtractedIsClosed
        <3>2. r.source = "extraction"
            BY <2>1 DEF Timely, OwnersAreProposals
        <3>3. t <= B.head /\ t \in Int
            BY <2>1, <3>2 DEF Timely, ProposalsBehindHead
        <3>4. QED
            BY <2>1, <3>1, <3>3
    <2>2. QED
        BY <2>1 DEF ExtractedIsClosed
<1>4. OwnersAreProposals(A) /\ CommitsBehind(A, n) /\ ReportsInOrder(A, C)
    BY DEF Timely, OwnersAreProposals, CommitsBehind, ReportsInOrder
<1>5. QED
    BY <1>1, <1>2, <1>3, <1>4 DEF Timely

LEMMA SettleTimely ==
    ASSUME NEW B \in BranchRow, NEW C, NEW n, Timely(B, C, n)
    PROVE  Timely(SettleHead(B), C, n)
<1> DEFINE A == SettleHead(B)
<1>1. B.head \in Int /\ B.turns \in [Turn -> TurnRow]
    BY IntFacts
<1>2. A.journal = B.journal /\ A.head = B.head
    BY DEF SettleHead, BranchRow
<1>3. \A t \in Turn : /\ A.turns[t].progress = B.turns[t].progress
                      /\ A.turns[t].open = B.turns[t].open
                      /\ A.turns[t].again = B.turns[t].again
                      /\ A.turns[t].replied = B.turns[t].replied
                      /\ A.turns[t].settled # B.turns[t].settled => B.turns[t].replied
    BY <1>1 DEF SettleHead, BranchRow, TurnRow
<1> HIDE DEF A
<1>4. RecordedUpToHead(A) /\ OpenIsUndecided(A) /\ ContinuedIsRecorded(A)
    BY <1>2, <1>3 DEF Timely, RecordedUpToHead, OpenIsUndecided, ContinuedIsRecorded
<1>5. A.head >= B.head
    BY <1>1, <1>2
<1>6. Timely(A, C, n)
    BY <1>1, <1>2, <1>3, <1>4, <1>5, TurnsTimely
<1>7. QED
    BY <1>6 DEF A

LEMMA MarkTimely ==
    ASSUME NEW B \in BranchRow, NEW C, NEW n, Timely(B, C, n), NEW lo, NEW hi,
           NEW status \in {"pending", "done", "failed"}, NEW expected \in {"pending", "failed"}
    PROVE  Timely(MarkExtraction(B, lo, hi, status, expected), C, n)
<1> DEFINE A == MarkExtraction(B, lo, hi, status, expected)
<1>1. B.head \in Int /\ B.turns \in [Turn -> TurnRow]
    BY IntFacts
<1>2. A.journal = B.journal /\ A.head = B.head
    BY DEF MarkExtraction, BranchRow
<1>3. \A t \in Turn : /\ \/ A.turns[t].progress = B.turns[t].progress
                         \/ /\ B.turns[t].progress \in {"pending", "failed"}
                            /\ A.turns[t].progress \in {"pending", "done", "failed"}
                      /\ A.turns[t].open = B.turns[t].open
                      /\ A.turns[t].again = B.turns[t].again
                      /\ A.turns[t].replied = B.turns[t].replied
                      /\ A.turns[t].settled = B.turns[t].settled
    BY <1>1 DEF MarkExtraction, BranchRow, TurnRow
<1> HIDE DEF A
<1>4. RecordedUpToHead(A) /\ OpenIsUndecided(A) /\ ContinuedIsRecorded(A)
    BY <1>2, <1>3 DEF Timely, RecordedUpToHead, OpenIsUndecided, ContinuedIsRecorded
<1>5. A.head >= B.head
    BY <1>1, <1>2
<1>6. Timely(A, C, n)
    BY <1>1, <1>2, <1>3, <1>4, <1>5, TurnsTimely
<1>7. QED
    BY <1>6 DEF A

\* Without late replies a new request leaves no stream running.
LEMMA SupersedingTimely ==
    ASSUME ~ LateReplies, NEW B \in BranchRow, NEW C, NEW n, Timely(B, C, n)
    PROVE  /\ Timely(Superseding(B), C, n)
           /\ Superseding(B).head = B.head /\ Superseding(B).journal = B.journal
           /\ \A t \in Turn : /\ ~ Superseding(B).turns[t].open /\ ~ Superseding(B).turns[t].again
                              /\ Superseding(B).turns[t].progress = B.turns[t].progress
<1> DEFINE A == Superseding(B)
<1>1. B.head \in Int /\ B.turns \in [Turn -> TurnRow]
    BY IntFacts
<1>2. A.journal = B.journal /\ A.head = B.head
    BY DEF Superseding, BranchRow
<1>3. \A t \in Turn : A.turns[t].progress = B.turns[t].progress
                      /\ ~ A.turns[t].open /\ ~ A.turns[t].again
    BY <1>1 DEF Superseding, Unattended, BranchRow, TurnRow
<1> HIDE DEF A
<1>4. RecordedUpToHead(A) /\ OpenIsUndecided(A) /\ ContinuedIsRecorded(A)
    BY <1>2, <1>3 DEF Timely, RecordedUpToHead, OpenIsUndecided, ContinuedIsRecorded
<1>5. A.head >= B.head
    BY <1>1, <1>2
<1>6. Timely(A, C, n)
    BY <1>1, <1>2, <1>3, <1>4, <1>5, TurnsTimely
<1>7. QED
    BY <1>2, <1>3, <1>6 DEF A

\* A new turn past the head, opened on a branch without a running stream.
LEMMA OpenTurnTimely ==
    ASSUME NEW B \in BranchRow, NEW C, NEW n, Timely(B, C, n),
           \A t \in Turn : ~ B.turns[t].open /\ ~ B.turns[t].again, NEW t \in Turn, t > B.head
    PROVE  /\ Timely([RecordTurn(B, t) EXCEPT !.turns[t].open = TRUE], C, n)
           /\ [RecordTurn(B, t) EXCEPT !.turns[t].open = TRUE].journal = B.journal
           /\ [RecordTurn(B, t) EXCEPT !.turns[t].open = TRUE].head = t
           /\ [RecordTurn(B, t) EXCEPT !.turns[t].open = TRUE].turns[t].progress = "pending"
<1> DEFINE R == RecordTurn(B, t)
           A == [R EXCEPT !.turns[t].open = TRUE]
<1>1. B.head \in Int /\ B.turns \in [Turn -> TurnRow] /\ Turn \subseteq Int
    BY IntFacts
<1>2. R \in BranchRow
    BY RecordTurnType
<1>3. t \notin Recorded(B)
    BY <1>1 DEF Timely, RecordedUpToHead, Recorded
<1>4. R.journal = B.journal /\ R.head = t
    BY <1>1 DEF RecordTurn, BranchRow, Furthest
<1>5. /\ R.turns[t] = [UnrecordedTurn EXCEPT !.progress = "pending"]
      /\ \A i \in Turn \ {t} : R.turns[i].progress = B.turns[i].progress
                               /\ R.turns[i].open = B.turns[i].open
                               /\ R.turns[i].again = B.turns[i].again
    BY <1>1, <1>3 DEF RecordTurn, BranchRow, TurnRow
<1> HIDE DEF R
<1>6. A.journal = B.journal /\ A.head = t /\ A.turns = [R.turns EXCEPT ![t].open = TRUE]
    BY <1>2, <1>4 DEF BranchRow
<1>7. R.turns \in [Turn -> TurnRow]
    BY <1>2, Fields
<1> HIDE DEF A
<1>8. /\ A.turns[t].progress = "pending" /\ ~ A.turns[t].settled /\ ~ A.turns[t].replied
      /\ ~ A.turns[t].again
      /\ \A i \in Turn \ {t} : A.turns[i] = R.turns[i]
    <2>1. \A i \in Turn \ {t} : A.turns[i] = R.turns[i]
        BY <1>6, <1>7
    <2>2. A.turns[t] = [R.turns[t] EXCEPT !.open = TRUE] /\ R.turns[t] \in TurnRow
        BY <1>6, <1>7
    <2>3. /\ A.turns[t].progress = R.turns[t].progress /\ A.turns[t].settled = R.turns[t].settled
          /\ A.turns[t].replied = R.turns[t].replied /\ A.turns[t].again = R.turns[t].again
        BY <2>2 DEF TurnRow
    <2>4. R.turns[t].progress = "pending" /\ R.turns[t].settled = FALSE
          /\ R.turns[t].replied = FALSE /\ R.turns[t].again = FALSE
        BY <1>5 DEF UnrecordedTurn
    <2>5. QED
        BY <2>1, <2>3, <2>4
<1>9. RecordedUpToHead(A)
    BY <1>1, <1>5, <1>6, <1>8 DEF Timely, RecordedUpToHead
<1>10. OpenIsUndecided(A) /\ ContinuedIsRecorded(A)
    BY <1>5, <1>8 DEF OpenIsUndecided, ContinuedIsRecorded
<1>11. \A i \in Turn : A.turns[i].progress = "skipped" => B.turns[i].progress = "skipped"
    BY <1>5, <1>8
<1>12. \A i \in Turn : A.turns[i].open => B.turns[i].open \/ i > B.head
    BY <1>5, <1>8
<1>13. A.head >= B.head /\ A.head \in Int
    BY <1>1, <1>6
<1>14. Timely(A, C, n)
    BY <1>6, <1>9, <1>10, <1>11, <1>12, <1>13, TurnsTimely
<1>15. QED
    BY <1>6, <1>8, <1>14 DEF A, R

\* The retry of the head turn, once no stream runs.
LEMMA RetractTimely ==
    ASSUME NEW B \in BranchRow, NEW C, NEW n, Timely(B, C, n),
           \A t \in Turn : ~ B.turns[t].open /\ ~ B.turns[t].again, B.head \in Recorded(B)
    PROVE  Timely(RetractExtractionAt(B, B.head), C, n)
<1> DEFINE A == RetractExtractionAt(B, B.head)
<1>1. /\ B.head \in Int /\ B.turns \in [Turn -> TurnRow] /\ Turn \subseteq Int
      /\ \A r \in B.journal : r.turn \in Int
    BY IntFacts
<1>2. B.head \in Turn /\ B.turns[B.head].progress # "none"
    BY DEF Recorded
<1>3. A.head = B.head
      /\ A.journal = {r \in B.journal : ~ (r.source = "extraction" /\ r.turn >= B.head)}
    BY DEF RetractExtractionAt, BranchRow
<1>4. /\ \A t \in Turn \ {B.head} : A.turns[t] = B.turns[t]
      /\ ~ A.turns[B.head].open /\ ~ A.turns[B.head].again
    BY <1>1, <1>2 DEF RetractExtractionAt, BranchRow, TurnRow
<1> HIDE DEF A
<1>5. RecordedUpToHead(A) /\ OpenIsUndecided(A) /\ ContinuedIsRecorded(A)
    BY <1>1, <1>2, <1>3, <1>4
       DEF Timely, RecordedUpToHead, OpenIsUndecided, ContinuedIsRecorded
<1>6. A.journal \subseteq B.journal
    BY <1>3
<1>7. ProposalsBehindHead(A) /\ OwnersAreProposals(A) /\ CommitsBehind(A, n) /\ ReportsInOrder(A, C)
    BY <1>3, <1>6
       DEF Timely, ProposalsBehindHead, OwnersAreProposals, CommitsBehind, ReportsInOrder
<1>8. RetiredHoldsContinued(A, C)
    <2>1. ASSUME NEW t \in Turn, A.turns[t].progress = "skipped", NEW r \in A.journal,
                 r.source = "extraction", r.turn = t
          PROVE  r.commit \in C
        <3>1. CASE t = B.head
            BY <1>1, <1>3, <2>1, <3>1
        <3>2. CASE t # B.head
            BY <1>4, <1>6, <2>1, <3>2 DEF Timely, RetiredHoldsContinued
        <3>3. QED
            BY <3>1, <3>2
    <2>2. QED
        BY <2>1 DEF RetiredHoldsContinued
<1>9. ExtractedIsClosed(A)
    BY <1>4 DEF ExtractedIsClosed
<1>10. Timely(A, C, n)
    BY <1>5, <1>7, <1>8, <1>9 DEF Timely
<1>11. QED
    BY <1>10 DEF A

LEMMA ForkOfTimely ==
    ASSUME NEW B \in BranchRow, NEW C, NEW n, Timely(B, C, n), NEW ft \in Turn \cup {-1}
    PROVE  Timely(ForkOf(B, ft), C, n)
<1> DEFINE A == ForkOf(B, ft)
<1>1. B.turns \in [Turn -> TurnRow] /\ Turn \subseteq Int /\ \A r \in B.journal : r.turn \in Int
    BY IntFacts
<1>2. A.head = ft /\ A.journal = {r \in B.journal : r.turn <= ft}
    BY DEF ForkOf, BranchRow
<1>3. \A t \in Turn : /\ ~ A.turns[t].open /\ ~ A.turns[t].again
                      /\ IF t <= ft THEN A.turns[t].progress = B.turns[t].progress
                         ELSE A.turns[t].progress = "none"
    <2>1. A.turns = [t \in Turn |-> IF t <= ft THEN Unattended(B.turns[t]) ELSE UnrecordedTurn]
        BY DEF ForkOf, BranchRow
    <2>2. \A row \in TurnRow : ~ Unattended(row).open /\ ~ Unattended(row).again
                               /\ Unattended(row).progress = row.progress
        BY DEF Unattended, TurnRow
    <2>3. UnrecordedTurn.progress = "none" /\ ~ UnrecordedTurn.open /\ ~ UnrecordedTurn.again
        BY DEF UnrecordedTurn
    <2> HIDE DEF A
    <2>4. QED
        BY <1>1, <2>1, <2>2, <2>3
<1> HIDE DEF A
<1>4. RecordedUpToHead(A) /\ OpenIsUndecided(A) /\ ContinuedIsRecorded(A)
      /\ ProposalsBehindHead(A)
    BY <1>2, <1>3 DEF RecordedUpToHead, OpenIsUndecided, ContinuedIsRecorded, ProposalsBehindHead
<1>5. RetiredHoldsContinued(A, C) /\ ExtractedIsClosed(A)
    BY <1>2, <1>3 DEF Timely, RetiredHoldsContinued, ExtractedIsClosed
<1>6. OwnersAreProposals(A) /\ CommitsBehind(A, n) /\ ReportsInOrder(A, C)
    BY <1>2 DEF Timely, OwnersAreProposals, CommitsBehind, ReportsInOrder
<1>7. Timely(A, C, n)
    BY <1>4, <1>5, <1>6 DEF Timely
<1>8. QED
    BY <1>7 DEF A

-----------------------------------------------------------------------------
(* The actions *)

\* A step that replaces one branch: the others only see more commits.
LEMMA OneBranchTimely ==
    ASSUME IInv, TInv, NEW b \in Branches, NEW B, Timely(B, continued', commits'),
           branch' = [branch EXCEPT ![b] = B],
           continued \subseteq continued', commits <= commits', commits' \in Int
    PROVE  TInv'
<1>1. ASSUME NEW x \in Branches PROVE Timely(branch'[x], continued', commits')
    <2>1. CASE x = b
        BY <2>1 DEF IInv
    <2>2. CASE x # b
        <3>1. branch'[x] = branch[x] /\ branch[x] \in BranchRow
              /\ Timely(branch[x], continued, commits) /\ commits \in Int
            BY <2>2 DEF IInv, TInv
        <3>2. QED
            BY <3>1, TimelyGrows
    <2>3. QED
        BY <2>1, <2>2
<1>2. QED
    BY <1>1 DEF TInv

LEMMA QuietBranchTimely ==
    ASSUME IInv, TInv, NEW b \in Branches, NEW B, Timely(B, continued, commits),
           branch' = [branch EXCEPT ![b] = B], UNCHANGED <<commits, continued>>
    PROVE  TInv'
<1>1. Timely(B, continued', commits')
    <2>1. continued' = continued /\ commits' = commits
        OBVIOUS
    <2>2. QED
        BY <2>1
<1>2. continued \subseteq continued' /\ commits <= commits' /\ commits' \in Int
    BY DEF IInv
<1>3. QED
    BY <1>1, <1>2, OneBranchTimely

LEMMA SpentIs == ASSUME NEW d PROVE Spent(d) \in {0, 1}
BY DEF Spent

LEMMA NothingApplies ==
    ASSUME NEW b, NEW B, NEW lo, NEW hi, NEW source, NEW owner, NEW c
    PROVE  Apply(b, B, lo, hi, source, owner, NoDelta, c) = B
BY DEF Apply, Applies, Admitted, NoDelta

\* The damage a commit adds is of its owner.
LEMMA AppliedOwner ==
    ASSUME NEW b, NEW B \in BranchRow, NEW lo, NEW hi, NEW source, NEW owner, NEW delta, NEW c
    PROVE  \A q \in Apply(b, B, lo, hi, source, owner, delta, c).journal :
              q \in B.journal \/ (q.effect # NoEffect => q.effect.owner = owner)
<1>1. CASE ~ Applies(b, B, lo, hi, owner, delta, c)
    BY <1>1 DEF Apply
<1>2. CASE Applies(b, B, lo, hi, owner, delta, c)
    <2>1. NewRow(b, B, lo, hi, source, owner, delta, c).effect # NoEffect
            => NewRow(b, B, lo, hi, source, owner, delta, c).effect.owner = owner
        BY DEF NewRow, Admitted
    <2>2. QED
        BY <1>2, <2>1, ApplyRows DEF Journaled
<1>3. QED
    BY <1>1, <1>2

LEMMA NewTurnTimely ==
    ASSUME ~ LateReplies, IInv, TInv, NEW b \in Branches, NEW t \in Turn,
           NEW d \in Deltas \cup {NoDelta}, NEW proposals \in Deltas \cup {NoDelta}, NEW live,
           NewTurn(b, t, d, proposals, live)
    PROVE  TInv'
<1> DEFINE C  == Superseding(branch[b])
           B1 == [RecordTurn(C, t) EXCEPT !.turns[t].open = TRUE]
           B2 == Apply(b, B1, t, t, "rule", "code", d, commits + 1)
           B3 == Apply(b, B2, t, t, "extraction", "reply_tag", proposals, commits + 1 + Spent(d))
           m  == commits + Spent(d)
<1>1. branch[b] \in BranchRow /\ RowInv(branch[b]) /\ Timely(branch[b], continued, commits)
      /\ d \in Delta /\ proposals \in Delta /\ commits \in 0..MaxCommits /\ commits \in Int
      /\ commits + Spent(d) + Spent(proposals) <= MaxCommits
    BY DeltaFacts DEF IInv, TInv, RowInv, NewTurn
<1>2. t > branch[b].head
    BY <1>1, IntFacts DEF NewTurn
<1>3. /\ Timely(C, continued, commits) /\ C.head = branch[b].head /\ C.journal = branch[b].journal
      /\ \A i \in Turn : ~ C.turns[i].open /\ ~ C.turns[i].again
    BY <1>1, SupersedingTimely
<1>4. C \in BranchRow /\ RowInv(C)
    BY <1>1, TurnWritersKeep DEF RowInv
<1>5. RowInv(B1) /\ B1 \in BranchRow
    BY <1>4, OpenTurnKeeps DEF RowInv
<1> HIDE DEF C
<1>6. /\ Timely(B1, continued, commits) /\ B1.journal = C.journal
      /\ B1.head = t /\ B1.turns[t].progress = "pending"
    BY <1>2, <1>3, <1>4, OpenTurnTimely
<1> HIDE DEF B1
\* Nobody but code has reported a wound of the new turn: proposals lie behind the head.
<1>7. \A q \in B1.journal : q.effect # NoEffect /\ q.turn = t => q.effect.owner = "code"
    <2>1. ASSUME NEW q \in branch[b].journal, q.effect # NoEffect, q.turn = t
          PROVE  q.effect.owner = "code"
        <3>1. q.source # "extraction"
            <4>1. branch[b].head \in Int /\ t \in Int
                BY <1>1, IntFacts
            <4>2. q.source = "extraction" => t <= branch[b].head
                BY <1>1, <2>1 DEF Timely, ProposalsBehindHead
            <4>3. QED
                BY <1>2, <4>1, <4>2
        <3>2. QED
            BY <1>1, <2>1, <3>1 DEF Timely, OwnersAreProposals
    <2>2. QED
        BY <1>3, <1>6, <2>1
<1>8. t \in RowTurn /\ "rule" \in Source /\ "code" \in Owner /\ "extraction" \in Source
      /\ "reply_tag" \in Owner
    BY TurnIsRowTurn DEF Source, Owner
<1>9. Timely(B2, continued, m)
    <2>1. "rule" # "extraction" /\ "code" # "extraction"
        OBVIOUS
    <2>2. \A q \in B1.journal : q.effect # NoEffect /\ q.turn = t /\ d.wound # NoWound
             => q.effect.owner \in Blockers("code")
                \/ MayFollow(q.effect.owner, "code", commits + 1, continued)
        BY <1>7 DEF MayFollow
    <2>3. QED
        BY <1>1, <1>5, <1>6, <1>8, <2>1, <2>2, ApplyTimely
<1>10. RowInv(B2) /\ B2 \in BranchRow
    <2>1. d # NoDelta => commits + 1 \in Commit
        BY <1>1, CommitNumbers
    <2>2. Lands(B1, "rule", t)
        BY DEF Lands
    <2>3. QED
        BY <1>1, <1>5, <1>8, <2>1, <2>2, ApplyKeeps DEF RowInv
<1>11. B2.head = t /\ B2.turns[t].progress = "pending"
    BY <1>5, <1>6, ApplyTurns
<1>12. \A q \in B2.journal : q.effect # NoEffect /\ q.turn = t => q.effect.owner = "code"
    BY <1>5, <1>7, AppliedOwner
<1>13. m \in Int /\ commits + 1 + Spent(d) = m + 1 /\ m + Spent(proposals) \in Int
       /\ commits <= m + Spent(proposals)
    BY <1>1, SpentIs
<1>14. branch' = [branch EXCEPT ![b] = B3] /\ commits' = m + Spent(proposals)
       /\ UNCHANGED continued
    BY DEF NewTurn, B1, C
<1> HIDE DEF B2, m
<1>15. Timely(B3, continued, m + Spent(proposals))
    <2>1. t <= B2.head /\ B2.turns[t].progress # "skipped" /\ "reply_tag" # "extraction"
        BY <1>1, <1>11, IntFacts
    <2>2. \A q \in B2.journal : q.effect # NoEffect /\ q.turn = t /\ proposals.wound # NoWound
             => q.effect.owner \in Blockers("reply_tag")
                \/ MayFollow(q.effect.owner, "reply_tag", commits + 1 + Spent(d), continued)
        BY <1>12, BlockersAre
    <2>3. QED
        BY <1>1, <1>8, <1>9, <1>10, <1>13, <2>1, <2>2, ApplyTimely
<1> HIDE DEF B3
<1>16. QED
    BY <1>13, <1>14, <1>15, OneBranchTimely

\* A request that goes on with the head opens nothing; code's rules report no wound.
LEMMA ContinueTimely ==
    ASSUME ~ LateReplies, IInv, TInv, NEW b \in Branches, NEW rules \in {PlainDelta, NoDelta},
           Continue(b, rules)
    PROVE  TInv'
<1> DEFINE t  == branch[b].head
           C  == Superseding(branch[b])
           T  == [C.turns EXCEPT ![t] = [C.turns[t] EXCEPT !.again = TRUE]]
           B1 == [C EXCEPT !.turns = T]
           B2 == Apply(b, B1, t, t, "rule", "code", rules, commits + 1)
<1>1. branch[b] \in BranchRow /\ RowInv(branch[b]) /\ Timely(branch[b], continued, commits)
      /\ commits \in 0..MaxCommits /\ commits \in Int /\ t \in Turn
      /\ branch[b].turns[t].progress # "none"
    BY DEF IInv, TInv, RowInv, Continue, Recorded
<1>2. /\ Timely(C, continued, commits) /\ C.head = branch[b].head
      /\ \A i \in Turn : /\ ~ C.turns[i].open /\ ~ C.turns[i].again
                         /\ C.turns[i].progress = branch[b].turns[i].progress
    BY <1>1, SupersedingTimely
<1>3. C \in BranchRow /\ RowInv(C)
    BY <1>1, TurnWritersKeep DEF RowInv
<1>4. branch' = [branch EXCEPT ![b] = B2] /\ commits' = commits + Spent(rules)
      /\ UNCHANGED continued
    BY DEF Continue
<1>5. C.turns \in [Turn -> TurnRow] /\ C.head \in Int
    BY <1>3, IntFacts
<1> HIDE DEF C
<1>6. T \in [Turn -> TurnRow]
    BY <1>1, <1>5, TurnUpdates DEF Progress
<1>7. RowInv(B1)
    <2> HIDE DEF T
    <2>1. QED
        BY <1>3, <1>6, TurnsKeep
<1>8. B1.journal = C.journal /\ B1.head = C.head /\ B1.turns = T
    BY <1>3 DEF BranchRow
<1>9. \A i \in Turn : /\ T[i].progress = C.turns[i].progress /\ T[i].open = C.turns[i].open
                      /\ T[i].again => i = t
    BY <1>1, <1>2, <1>5 DEF TurnRow
<1> HIDE DEF T, B1
<1>10. Timely(B1, continued, commits)
    <2>1. RecordedUpToHead(B1) /\ OpenIsUndecided(B1) /\ ContinuedIsRecorded(B1)
        BY <1>1, <1>2, <1>8, <1>9
           DEF Timely, RecordedUpToHead, OpenIsUndecided, ContinuedIsRecorded
    <2>2. B1.head >= C.head /\ B1.head \in Int
        BY <1>5, <1>8
    <2>3. QED
        BY <1>2, <1>3, <1>8, <1>9, <2>1, <2>2, TurnsTimely
<1>11. Timely(B2, continued, commits + Spent(rules))
    BY <1>1, <1>7, <1>10, TurnIsRowTurn, PlainTimely
<1>12. commits' \in Int /\ commits <= commits'
    BY <1>1, <1>4, SpentIs
<1> HIDE DEF B2
<1>13. QED
    BY <1>4, <1>11, <1>12, OneBranchTimely

\* The end of a stream: of one that went on with its turn, the tag's commit counts as continued.
LEMMA IngestedTimely ==
    ASSUME IInv, NEW b \in Branches, NEW B, RowInv(B), NEW C, Timely(B, C, commits),
           NEW t \in Turn, NEW tags \in Deltas \cup {NoDelta}, NEW rules \in {PlainDelta, NoDelta},
           NEW live, Ingesting(tags, rules, live), t <= B.head,
           tags # NoDelta => B.turns[t].progress # "skipped" \/ commits + 1 \in C,
           \A q \in B.journal : tags # NoDelta /\ q.effect # NoEffect /\ q.turn = t
              => q.effect.owner # "extraction" \/ commits + 1 \in C
    PROVE  /\ Timely(Ingested(b, B, t, tags, rules), C, commits')
           /\ Ingested(b, B, t, tags, rules) \in BranchRow
           /\ commits' \in Int /\ commits <= commits'
<1> DEFINE A == Apply(b, B, t, t, "extraction", "reply_tag", tags, commits + 1)
           m == commits + Spent(tags)
<1>1. B \in BranchRow /\ tags \in Delta /\ rules \in Delta /\ commits \in 0..MaxCommits
      /\ commits \in Int /\ t \in RowTurn /\ commits' = m + Spent(rules)
      /\ commits + Spent(tags) + Spent(rules) <= MaxCommits
    BY DeltaFacts, TurnIsRowTurn DEF IInv, RowInv, Ingesting
<1>2. "extraction" \in Source /\ "reply_tag" \in Owner /\ "rule" \in Source /\ "code" \in Owner
    BY DEF Source, Owner
<1>3. Timely(A, C, m)
    <2>1. CASE tags = NoDelta
        <3>1. A = B
            BY <2>1, NothingApplies
        <3>2. m = commits
            BY <1>1, <2>1, DeltaFacts
        <3>3. QED
            BY <3>1, <3>2
    <2>2. CASE tags # NoDelta
        <3>1. \A q \in B.journal : q.effect # NoEffect => q.effect.owner \in Owner
            BY <1>1, Fields DEF Row, Effect
        <3>2. \A q \in B.journal : q.effect # NoEffect /\ q.turn = t /\ tags.wound # NoWound
                 => q.effect.owner \in Blockers("reply_tag")
                    \/ MayFollow(q.effect.owner, "reply_tag", commits + 1, C)
            BY <2>2, <3>1, BlockersAre DEF Owner, MayFollow
        <3>3. "reply_tag" # "extraction"
            OBVIOUS
        <3>4. QED
            BY <1>1, <1>2, <2>2, <3>2, <3>3, ApplyTimely
    <2>3. QED
        BY <2>1, <2>2
<1>4. RowInv(A)
    <2>1. tags # NoDelta => commits + 1 \in Commit
        BY <1>1, CommitNumbers
    <2>2. Lands(B, "extraction", t)
        BY DEF Lands
    <2>3. QED
        BY <1>1, <1>2, <2>1, <2>2, ApplyKeeps
<1>5. m \in Int /\ commits + 1 + Spent(tags) = m + 1 /\ commits' \in Int /\ commits <= commits'
    BY <1>1, SpentIs
<1> HIDE DEF A, m
<1>6. Timely(Apply(b, A, t, t, "rule", "code", rules, commits + 1 + Spent(tags)), C, m + Spent(rules))
    BY <1>1, <1>3, <1>4, <1>5, PlainTimely
<1>7. Ingested(b, B, t, tags, rules) \in BranchRow
    BY IngestedKeeps DEF RowInv
<1>8. QED
    BY <1>1, <1>5, <1>6, <1>7 DEF Ingested, A

\* The end of the stream that opened a turn: it is recorded, not retired and not extracted yet.
LEMMA ReplyTimely ==
    ASSUME IInv, TInv, NEW b \in Branches, NEW t \in Turn, NEW tags \in Deltas \cup {NoDelta},
           NEW rules \in {PlainDelta, NoDelta}, NEW live, Reply(b, t, tags, rules, live)
    PROVE  TInv'
<1> DEFINE B  == branch[b]
           B1 == Answered(B, t)
           B2 == Ingested(b, B1, t, tags, rules)
<1>1. B \in BranchRow /\ RowInv(B) /\ Timely(B, continued, commits) /\ B.turns[t].open
      /\ Ingesting(tags, rules, live)
    BY DEF IInv, TInv, RowInv, Reply
<1>2. B.head \in Int /\ B.turns \in [Turn -> TurnRow]
    BY <1>1, IntFacts
<1>3. B.turns[t].progress \notin {"none", "skipped"} /\ t <= B.head
    BY <1>1 DEF Timely, OpenIsUndecided, RecordedUpToHead
<1>4. RowInv(B1)
    BY <1>1, AnsweredKeeps
<1>5. B1.journal = B.journal /\ B1.head = B.head
    BY <1>1 DEF Answered, BranchRow
<1>6. \A i \in Turn : /\ B1.turns[i].progress = B.turns[i].progress
                      /\ B1.turns[i].again = B.turns[i].again
                      /\ B1.turns[i].open => i # t /\ B1.turns[i] = B.turns[i]
    BY <1>1, <1>2 DEF Answered, BranchRow, TurnRow
<1>7. branch' = [branch EXCEPT ![b] = SettleHead(B2)] \/ branch' = [branch EXCEPT ![b] = B2]
    BY DEF Reply, Answered
<1>8. continued' = continued
    BY DEF Reply
<1> HIDE DEF B, B1
<1>9. Timely(B1, continued, commits)
    <2>1. RecordedUpToHead(B1) /\ OpenIsUndecided(B1) /\ ContinuedIsRecorded(B1)
        BY <1>1, <1>5, <1>6 DEF Timely, RecordedUpToHead, OpenIsUndecided, ContinuedIsRecorded
    <2>2. B1.head >= B.head /\ B1.head \in Int
        BY <1>2, <1>5
    <2>3. \A i \in Turn : B1.turns[i].open => B.turns[i].open
        BY <1>6
    <2>4. QED
        BY <1>1, <1>5, <1>6, <2>1, <2>2, <2>3, TurnsTimely
<1>10. \A q \in B1.journal : q.effect # NoEffect /\ q.turn = t => q.effect.owner # "extraction"
    BY <1>1, <1>5 DEF Timely, ExtractedIsClosed
<1>11. B1.turns[t].progress # "skipped" /\ t <= B1.head
    BY <1>3, <1>5, <1>6
<1>12. /\ Timely(B2, continued, commits') /\ B2 \in BranchRow
       /\ commits' \in Int /\ commits <= commits'
    BY <1>1, <1>4, <1>9, <1>10, <1>11, IngestedTimely
<1> HIDE DEF B2
<1>13. Timely(SettleHead(B2), continued, commits')
    BY <1>12, SettleTimely
<1>14. QED
    BY <1>7, <1>8, <1>12, <1>13, OneBranchTimely

\* The end of a stream that went on with its turn, whatever has become of the turn.
LEMMA ContinueReplyTimely ==
    ASSUME IInv, TInv, NEW b \in Branches, NEW t \in Turn, NEW tags \in Deltas \cup {NoDelta},
           NEW rules \in {PlainDelta, NoDelta}, NEW live, ContinueReply(b, t, tags, rules, live)
    PROVE  TInv'
<1> DEFINE B  == branch[b]
           B1 == Resumed(B, t)
           B2 == Ingested(b, B1, t, tags, rules)
           D  == continued \cup (commits + 1 .. commits')
<1>1. B \in BranchRow /\ RowInv(B) /\ Timely(B, continued, commits) /\ B.turns[t].again
      /\ Ingesting(tags, rules, live) /\ commits \in Int
    BY DEF IInv, TInv, RowInv, ContinueReply
<1>2. B.head \in Int /\ B.turns \in [Turn -> TurnRow]
    BY <1>1, IntFacts
<1>3. ~ B.turns[t].open /\ t <= B.head
    BY <1>1 DEF Timely, ContinuedIsRecorded, RecordedUpToHead
<1>4. RowInv(B1) /\ B1 \in BranchRow
    BY <1>1, AnsweredKeeps DEF RowInv
<1>5. B1.journal = B.journal /\ B1.head = B.head
    BY <1>1 DEF Resumed, BranchRow
<1>6. \A i \in Turn : /\ B1.turns[i].progress = B.turns[i].progress
                      /\ B1.turns[i].open = B.turns[i].open
                      /\ B1.turns[i].again => B.turns[i].again
                      /\ B1.turns[i].open => i # t /\ B1.turns[i] = B.turns[i]
    BY <1>1, <1>2, <1>3 DEF Resumed, BranchRow, TurnRow
<1>7. branch' = [branch EXCEPT ![b] = SettleHead(B2)] \/ branch' = [branch EXCEPT ![b] = B2]
    BY DEF ContinueReply, Resumed
<1>8. continued' = D
    BY DEF ContinueReply
<1>9. tags # NoDelta => commits + 1 \in D
    <2>1. tags # NoDelta => Spent(tags) = 1
        BY DEF Spent
    <2>2. Spent(rules) \in {0, 1} /\ commits' = commits + Spent(tags) + Spent(rules)
        BY SpentIs DEF Ingesting, ContinueReply
    <2>3. QED
        BY <1>1, <2>1, <2>2
<1>10. continued \subseteq D
    OBVIOUS
<1> HIDE DEF B, B1, D
<1>11. Timely(B1, D, commits)
    <2>1. RecordedUpToHead(B1) /\ OpenIsUndecided(B1) /\ ContinuedIsRecorded(B1)
        BY <1>1, <1>5, <1>6 DEF Timely, RecordedUpToHead, OpenIsUndecided, ContinuedIsRecorded
    <2>2. B1.head >= B.head /\ B1.head \in Int /\ commits <= commits
        BY <1>1, <1>2, <1>5
    <2>3. Timely(B1, continued, commits)
        BY <1>1, <1>5, <1>6, <2>1, <2>2, TurnsTimely
    <2>4. QED
        BY <1>1, <1>4, <1>10, <2>2, <2>3, TimelyGrows
<1>12. t <= B1.head
    BY <1>3, <1>5
<1>13. /\ Timely(B2, D, commits') /\ B2 \in BranchRow
       /\ commits' \in Int /\ commits <= commits'
    BY <1>1, <1>4, <1>9, <1>11, <1>12, IngestedTimely
<1> HIDE DEF B2
<1>14. Timely(SettleHead(B2), D, commits')
    BY <1>13, SettleTimely
<1>15. QED
    BY <1>7, <1>8, <1>10, <1>13, <1>14, OneBranchTimely

\* The reply to a retry is text only, and its turn has no running stream.
LEMMA RetryReplyTimely ==
    ASSUME IInv, TInv, NEW b \in Branches, NEW t \in Turn, RetryReply(b, t)
    PROVE  TInv'
<1> DEFINE B == branch[b]
           A == [B EXCEPT !.turns[t].replied = TRUE]
<1>1. B \in BranchRow /\ Timely(B, continued, commits) /\ B.turns[t].progress = "skipped"
      /\ UNCHANGED <<commits, continued>> /\ commits \in Int
    BY DEF IInv, TInv, RetryReply
<1>2. B.head \in Int /\ B.turns \in [Turn -> TurnRow]
    BY <1>1, IntFacts
<1>3. ~ B.turns[t].open
    BY <1>1 DEF Timely, OpenIsUndecided
<1>4. A.journal = B.journal /\ A.head = B.head
    BY <1>1 DEF BranchRow
<1>5. \A i \in Turn : /\ A.turns[i].progress = B.turns[i].progress
                      /\ A.turns[i].open = B.turns[i].open
                      /\ A.turns[i].again = B.turns[i].again
                      /\ i # t => A.turns[i] = B.turns[i]
    BY <1>1, <1>2 DEF BranchRow, TurnRow
<1>6. branch' = [branch EXCEPT ![b] = A]
    BY DEF RetryReply
<1> HIDE DEF A, B
<1>7. RecordedUpToHead(A) /\ OpenIsUndecided(A) /\ ContinuedIsRecorded(A)
    BY <1>1, <1>3, <1>4, <1>5
       DEF Timely, RecordedUpToHead, OpenIsUndecided, ContinuedIsRecorded
<1>8. A.head >= B.head /\ A.head \in Int
    BY <1>2, <1>4
<1>9. Timely(A, continued, commits)
    BY <1>1, <1>4, <1>5, <1>7, <1>8, TurnsTimely
<1>10. QED
    BY <1>1, <1>6, <1>9, QuietBranchTimely

LEMMA StatusOnlyTimely ==
    ASSUME IInv, TInv, NEW b \in Branches, NEW lo, NEW hi,
           IdleSettle(b) \/ ExtractionFails(b, lo, hi) \/ Requeue(b, lo, hi)
    PROVE  TInv'
<1>1. branch[b] \in BranchRow /\ Timely(branch[b], continued, commits)
      /\ UNCHANGED <<commits, continued>> /\ commits \in Int
    BY DEF IInv, TInv, IdleSettle, ExtractionFails, Requeue
<1>2. CASE IdleSettle(b)
    <2>1. branch' = [branch EXCEPT ![b] = SettleHead(branch[b])]
        BY <1>2 DEF IdleSettle
    <2>2. QED
        BY <1>1, <2>1, SettleTimely, QuietBranchTimely
<1>3. CASE ExtractionFails(b, lo, hi) \/ Requeue(b, lo, hi)
    <2>1. PICK status \in {"failed", "pending"}, expected \in {"failed", "pending"} :
              branch' = [branch EXCEPT ![b] = MarkExtraction(branch[b], lo, hi, status, expected)]
        BY <1>3 DEF ExtractionFails, Requeue
    <2>2. Timely(MarkExtraction(branch[b], lo, hi, status, expected), continued, commits)
        BY <1>1, MarkTimely
    <2>3. QED
        BY <1>1, <2>1, <2>2, QuietBranchTimely
<1>4. QED
    BY <1>2, <1>3

\* What a batch commits lands on a settled turn that awaits extraction.
LEMMA ExtractedTimely ==
    ASSUME IInv, TInv, NEW b \in Branches, NEW lo \in Turn, NEW hi \in Turn,
           NEW d \in Delta, NEW cascade \in {PlainDelta, NoDelta},
           Batch(branch[b], lo, hi), ExtractionRangeIs(branch[b], lo, hi, "pending"),
           commits + Spent(d) + Spent(cascade) <= MaxCommits
    PROVE  /\ Timely(Extracted(b, lo, hi, d, cascade), continued, commits + Spent(d) + Spent(cascade))
           /\ Extracted(b, lo, hi, d, cascade) \in BranchRow
           /\ commits + Spent(d) + Spent(cascade) \in Int
           /\ commits <= commits + Spent(d) + Spent(cascade)
<1> DEFINE B == branch[b]
           A == Apply(b, B, lo, hi, "extraction", "extraction", d, commits + 1)
           m == commits + Spent(d)
<1>1. B \in BranchRow /\ RowInv(B) /\ Timely(B, continued, commits) /\ cascade \in Delta
      /\ commits \in 0..MaxCommits /\ commits \in Int
    BY DeltaFacts DEF IInv, TInv, RowInv
<1>2. hi \in Recorded(B) /\ B.turns[hi].settled /\ lo <= hi
    BY DEF Batch
<1>3. B.turns[hi].progress = "pending"
    <2>1. hi <= hi
        BY <1>1, IntFacts
    <2>2. QED
        BY <1>2, <2>1 DEF ExtractionRangeIs
<1>4. ~ B.turns[hi].open /\ hi <= B.head
    BY <1>1, <1>2, <1>3 DEF Timely, OpenIsUndecided, RecordedUpToHead
\* Code and the reply's tag outrank an extraction.
<1>5. \A q \in B.journal : q.effect # NoEffect /\ q.turn = hi /\ d.wound # NoWound
         => q.effect.owner \in Blockers("extraction")
            \/ MayFollow(q.effect.owner, "extraction", commits + 1, continued)
    <2>1. \A q \in B.journal : q.effect # NoEffect => q.effect.owner \in Owner
        BY <1>1, Fields DEF Row, Effect
    <2>2. QED
        BY <2>1, BlockersAre DEF Owner, MayFollow
<1>6. lo \in RowTurn /\ hi \in RowTurn /\ "extraction" \in Source /\ "extraction" \in Owner
    BY TurnIsRowTurn DEF Source, Owner
<1> HIDE DEF B
<1>7. Timely(A, continued, m)
    <2>1. B.turns[hi].progress # "skipped"
        BY <1>3
    <2>2. QED
        BY <1>1, <1>4, <1>5, <1>6, <2>1, ApplyTimely
<1>8. RowInv(A)
    <2>1. d # NoDelta => commits + 1 \in Commit
        BY <1>1, CommitNumbers
    <2>2. Lands(B, "extraction", hi)
        BY DEF Lands
    <2>3. QED
        BY <1>1, <1>6, <2>1, <2>2, ApplyKeeps
<1>9. m \in Int /\ commits + 1 + Spent(d) = m + 1 /\ m + Spent(cascade) \in Int
      /\ commits <= m + Spent(cascade)
    BY <1>1, SpentIs
<1>10. RowInv(Extracted(b, lo, hi, d, cascade))
    BY <1>1, <1>6, SourcesAndOwners, TwoDeltasKeep DEF Extracted, B
<1> HIDE DEF A, m
<1>11. Timely(Apply(b, A, hi, hi, "rule", "code", cascade, commits + 1 + Spent(d)),
              continued, m + Spent(cascade))
    BY <1>6, <1>7, <1>8, <1>9, PlainTimely
<1>12. QED
    BY <1>9, <1>10, <1>11 DEF Extracted, A, B, RowInv, m

LEMMA ExtractTimely ==
    ASSUME IInv, TInv, NEW b \in Branches, NEW lo \in Turn, NEW hi \in Turn,
           NEW d \in Deltas \cup {NoDelta}, NEW cascade \in {PlainDelta, NoDelta},
           Extract(b, lo, hi, d, cascade)
    PROVE  TInv'
<1> DEFINE X == Extracted(b, lo, hi, d, cascade)
<1>1. branch' = [branch EXCEPT ![b] = MarkExtraction(X, lo, hi, "done", "pending")]
      /\ commits' = commits + Spent(d) + Spent(cascade) /\ UNCHANGED continued
    BY DEF Extract
<1>2. Timely(X, continued, commits') /\ X \in BranchRow /\ commits' \in Int /\ commits <= commits'
    BY <1>1, DeltaFacts, ExtractedTimely DEF Extract
<1> HIDE DEF X
<1>3. Timely(MarkExtraction(X, lo, hi, "done", "pending"), continued, commits')
    BY <1>2, MarkTimely
<1>4. QED
    BY <1>1, <1>2, <1>3, OneBranchTimely

LEMMA ExtractInterruptedTimely ==
    ASSUME IInv, TInv, NEW b \in Branches, NEW lo \in Turn, NEW hi \in Turn, NEW d \in Deltas,
           ExtractInterrupted(b, lo, hi, d)
    PROVE  TInv'
<1> DEFINE X == Extracted(b, lo, hi, d, NoDelta)
<1>1. d \in Delta /\ commits + Spent(d) + Spent(NoDelta) <= MaxCommits
      /\ commits + Spent(d) + Spent(NoDelta) = commits + Spent(d)
    <2>1. commits + Spent(d) + 0 = commits + Spent(d)
        BY SpentIs DEF IInv
    <2>2. QED
        BY <2>1, DeltaFacts DEF ExtractInterrupted
<1>2. branch' = [branch EXCEPT ![b] = X]
      /\ commits' = commits + Spent(d) /\ UNCHANGED continued
    BY DEF ExtractInterrupted
<1>3. Timely(X, continued, commits') /\ commits' \in Int /\ commits <= commits'
    BY <1>1, <1>2, DeltaFacts, ExtractedTimely DEF ExtractInterrupted
<1> HIDE DEF X
<1>4. QED
    BY <1>2, <1>3, OneBranchTimely

LEMMA SwipeTimely ==
    ASSUME ~ LateReplies, IInv, TInv, NEW b \in Branches, Swipe(b)
    PROVE  TInv'
<1> DEFINE B == Superseding(branch[b])
<1>1. branch[b] \in BranchRow /\ Timely(branch[b], continued, commits)
      /\ branch[b].head \in Recorded(branch[b])
      /\ UNCHANGED <<commits, continued>> /\ commits \in Int
    BY DEF IInv, TInv, Swipe
<1>2. /\ Timely(B, continued, commits) /\ B.head = branch[b].head
      /\ \A t \in Turn : /\ ~ B.turns[t].open /\ ~ B.turns[t].again
                         /\ B.turns[t].progress = branch[b].turns[t].progress
    BY <1>1, SupersedingTimely
<1>3. B \in BranchRow
    BY <1>1, SupersedingType
<1>4. branch' = [branch EXCEPT ![b] = RetractExtractionAt(B, B.head)]
    BY <1>2 DEF Swipe
<1> HIDE DEF B
<1>5. B.head \in Recorded(B)
    BY <1>1, <1>2 DEF Recorded
<1>6. Timely(RetractExtractionAt(B, B.head), continued, commits)
    BY <1>2, <1>3, <1>5, RetractTimely
<1>7. QED
    BY <1>1, <1>4, <1>6, QuietBranchTimely

LEMMA WriteTimely ==
    ASSUME IInv, TInv, NEW b \in Branches, CreatorWrite(b) \/ UserWrite(b)
    PROVE  TInv'
<1> DEFINE B == branch[b]
<1>1. B \in BranchRow /\ RowInv(B) /\ Timely(B, continued, commits) /\ commits \in Int
    BY DEF IInv, TInv, RowInv
<1>2. PICK t \in {CreatorTurn(B), UserTurn(B)} : Write(b, t)
    BY DEF CreatorWrite, UserWrite
<1>3. t \in RowTurn
    <2>1. t \in Int /\ t >= -1 /\ t <= MaxTurn + 1
        BY <1>1, <1>2, WriteTurns DEF Write
    <2>2. QED
        BY <2>1, LedgerAssumption DEF RowTurn
<1> DEFINE A == Apply(b, B, t, t, "user", "code", PlainDelta, commits + 1)
<1>4. branch' = [branch EXCEPT ![b] = A] /\ commits' = commits + 1 /\ UNCHANGED continued
    BY <1>2 DEF Write
<1> HIDE DEF B
<1>5. Timely(A, continued, commits + 1)
    BY <1>1, <1>3, DeltaFacts, PlainTimely
<1>6. commits' \in Int /\ commits <= commits'
    BY <1>1, <1>4
<1> HIDE DEF A
<1>7. QED
    BY <1>4, <1>5, <1>6, OneBranchTimely

LEMMA ForkTimely ==
    ASSUME IInv, TInv, NEW src \in Branches, NEW new \in Branches, NEW ft \in Turn \cup {-1},
           NEW kill \in BOOLEAN, Fork(src, new, ft, kill)
    PROVE  TInv'
<1> DEFINE F == ForkOf(branch[src], ft)
           N == [F EXCEPT !.session = IF kill THEN @ ELSE new]
           S == [branch[src] EXCEPT !.status = IF kill THEN "dead" ELSE @]
<1>1. branch[src] \in BranchRow /\ Timely(branch[src], continued, commits) /\ src # new
      /\ branch \in [Branches -> BranchRow] /\ UNCHANGED <<commits, continued>>
    BY DEF IInv, TInv, Fork
<1>2. \A A, B : A.turns = B.turns /\ A.journal = B.journal /\ A.head = B.head
                   /\ Timely(B, continued, commits) => Timely(A, continued, commits)
    BY DEF Timely, RecordedUpToHead, OpenIsUndecided, ContinuedIsRecorded, ProposalsBehindHead,
           RetiredHoldsContinued, OwnersAreProposals, ExtractedIsClosed, CommitsBehind,
           ReportsInOrder
<1>3. Timely(N, continued, commits)
    <2>1. F \in BranchRow /\ Timely(F, continued, commits)
        BY <1>1, ForkOfType, ForkOfTimely
    <2> HIDE DEF F
    <2>2. N.turns = F.turns /\ N.journal = F.journal /\ N.head = F.head
        BY <2>1 DEF BranchRow
    <2> HIDE DEF N
    <2>3. QED
        BY <1>2, <2>1, <2>2
<1>4. Timely(S, continued, commits)
    <2>1. S.turns = branch[src].turns /\ S.journal = branch[src].journal
          /\ S.head = branch[src].head
        BY <1>1 DEF BranchRow
    <2> HIDE DEF S
    <2>2. QED
        BY <1>1, <1>2, <2>1
<1>5. \A x \in Branches : branch'[x] \in {NewBranch("pruned"), branch[x], S, N}
    BY <1>1 DEF Fork, IInv
<1> HIDE DEF F, N, S
<1>6. QED
    BY <1>1, <1>3, <1>4, <1>5, NewBranchTimely DEF TInv

LEMMA TInvInit == Init => TInv
<1>1. ASSUME Init PROVE \A b \in Branches : branch[b] = NewBranch("live")
                                           \/ branch[b] = NewBranch("unused")
    BY <1>1 DEF Init
<1>2. QED
    BY <1>1, NewBranchTimely DEF TInv

LEMMA TInvStep ==
    ASSUME ~ LateReplies
    PROVE  IInv /\ TInv /\ [Next]_vars => TInv'
<1> SUFFICES ASSUME IInv, TInv, [Next]_vars PROVE TInv'
    OBVIOUS
<1>1. CASE UNCHANGED vars
    BY <1>1 DEF vars, TInv
<1>2. ASSUME NEW b \in Branches, NEW t \in Turn, NEW d \in Deltas \cup {NoDelta},
             NEW proposals \in Deltas \cup {NoDelta}, NEW rules \in {PlainDelta, NoDelta},
             NEW live \in BOOLEAN,
             \/ NewTurn(b, t, d, proposals, live)
             \/ Continue(b, rules)
             \/ Reply(b, t, d, rules, live) \/ ContinueReply(b, t, d, rules, live)
      PROVE  TInv'
    BY <1>2, NewTurnTimely, ContinueTimely, ReplyTimely, ContinueReplyTimely
<1>3. ASSUME NEW b \in Branches, NEW t \in Turn, RetryReply(b, t)
      PROVE  TInv'
    BY <1>3, RetryReplyTimely
<1>4. ASSUME NEW b \in Branches, NEW lo \in Turn, NEW hi \in Turn,
             IdleSettle(b) \/ ExtractionFails(b, lo, hi) \/ Requeue(b, lo, hi)
      PROVE  TInv'
    BY <1>4, StatusOnlyTimely
<1>5. ASSUME NEW b \in Branches, NEW lo \in Turn, NEW hi \in Turn,
             NEW d \in Deltas \cup {NoDelta}, NEW cascade \in {PlainDelta, NoDelta},
             Extract(b, lo, hi, d, cascade)
      PROVE  TInv'
    BY <1>5, ExtractTimely
<1>6. ASSUME NEW b \in Branches, NEW lo \in Turn, NEW hi \in Turn, NEW d \in Deltas,
             ExtractInterrupted(b, lo, hi, d)
      PROVE  TInv'
    BY <1>6, ExtractInterruptedTimely
<1>7. ASSUME NEW b \in Branches, Swipe(b) \/ CreatorWrite(b) \/ UserWrite(b)
      PROVE  TInv'
    BY <1>7, SwipeTimely, WriteTimely
<1>8. ASSUME NEW b \in Branches, NEW new \in Branches, NEW ft \in Turn \cup {-1},
             NEW kill \in BOOLEAN, Fork(b, new, ft, kill)
      PROVE  TInv'
    BY <1>8, ForkTimely
<1>9. 0 \in Turn /\ LiveRecalcs \subseteq BOOLEAN
    BY LedgerAssumption DEF Turn
<1>10. ASSUME NEW b \in Branches, NEW live \in LiveRecalcs, Step(b, live) PROVE TInv'
    BY <1>2, <1>3, <1>4, <1>5, <1>6, <1>7, <1>9, <1>10 DEF Step
<1>11. QED
    BY <1>1, <1>8, <1>10 DEF Next

-----------------------------------------------------------------------------
(* The theorems *)

\* When streams end before the next request, a turn retired by a narration retry holds no
\* narrator proposal but those of replies that went on with it afterwards, whatever batches,
\* requeues, crashes, continuations and forks come before or after.
THEOREM RetiredTurnsStayClosed ==
    ASSUME ~ LateReplies
    PROVE  Spec => []RetiredTurnsStayRetired
<1>1. TInv => RetiredTurnsStayRetired
    BY DEF TInv, Timely, RetiredHoldsContinued, RetiredTurnsStayRetired
<1>2. QED
    BY <1>1, TInvInit, TInvStep, IInvAlways, PTL DEF Spec

\* When streams end before the next request, a wound that code, the reply's tag and the
\* extraction report in three separate commits of one turn lands once, but for the tag of a
\* continuation that follows an extraction of its turn; nothing follows such a tag.
THEOREM NoRestatementEver ==
    ASSUME ~ LateReplies
    PROVE  Spec => []RestatementNeverLands
<1>1. TInv => RestatementNeverLands
    BY DEF TInv, Timely, ReportsInOrder, MayFollow, RestatementNeverLands
<1>2. QED
    BY <1>1, TInvInit, TInvStep, IInvAlways, PTL DEF Spec
=============================================================================

------------------------ MODULE ExtractionJobsProofs ------------------------
(* Proofs of the safety properties of ExtractionJobs. *)
EXTENDS ExtractionJobs, TurnOrder, FiniteSetTheorems, TLAPS

-----------------------------------------------------------------------------
(* Sets of turns *)

\* The least and the greatest turn of a set are in it, in this order.
LEMMA MinMaxTurn ==
    ASSUME NEW S \in SUBSET Turn, S # {}
    PROVE  Min(S) \in S /\ Max(S) \in S /\ Min(S) <= Max(S)
<1>1. S \in SUBSET Nat
    BY JobsAssumption DEF Turn
<1>2. Min(S) \in S /\ \A y \in S : Min(S) <= y
    BY <1>1, FirstNatural DEF Min
<1>3. Max(S) \in S
    BY JobsAssumption, LastNatural DEF Max, Turn
<1>4. QED
    BY <1>2, <1>3

\* When turns are pending, the span a batch takes is a span of turns.
LEMMA DueSpan ==
    ASSUME NEW T, Pending(T) # {}
    PROVE  <<Min(Due(T)), Max(Due(T))>> \in Span
<1>1. Pending(T) \in SUBSET Turn /\ Turn \in SUBSET Nat
    BY JobsAssumption DEF Pending, Turn
<1>2. PICK p \in Pending(T) : \A u \in Pending(T) : p <= u
    BY <1>1, FirstNatural
<1>3. {u \in Pending(T) : u < p} = {}
    <2>1. \A u \in Pending(T) : u \in Nat /\ p \in Nat /\ p <= u
        BY <1>1, <1>2
    <2>2. \A u \in Pending(T) : ~ (u < p)
        BY <2>1
    <2>3. QED
        BY <2>2
<1>4. Cardinality({u \in Pending(T) : u < p}) < BatchMax
    BY <1>3, FS_EmptySet, JobsAssumption
<1>5. p \in Due(T)
    BY <1>2, <1>4 DEF Due
<1>6. Due(T) \in SUBSET Turn /\ Due(T) # {}
    BY <1>1, <1>5 DEF Due
<1>7. QED
    BY <1>6, MinMaxTurn DEF Span

-----------------------------------------------------------------------------
(* What the operators return *)

LEMMA MarkType ==
    ASSUME NEW T \in [Turn -> TurnRow], NEW s, NEW status \in Progress, NEW expected
    PROVE  Mark(T, s, status, expected) \in [Turn -> TurnRow]
BY DEF Mark, TurnRow

LEMMA SettleHeadType ==
    ASSUME NEW T \in [Turn -> TurnRow]
    PROVE  SettleHead(T) \in [Turn -> TurnRow]
BY DEF SettleHead, TurnRow

LEMMA RecordTurnType ==
    ASSUME NEW T \in [Turn -> TurnRow], NEW t, NEW text \in BOOLEAN
    PROVE  RecordTurn(T, t, text) \in [Turn -> TurnRow]
<1>1. ASSUME NEW i \in Turn PROVE [T[i] EXCEPT !.settled = i \in Recorded(T)] \in TurnRow
    <2>1. (i \in Recorded(T)) \in BOOLEAN
        OBVIOUS
    <2>2. \A x \in BOOLEAN : [T[i] EXCEPT !.settled = x] \in TurnRow
        BY DEF TurnRow
    <2>3. QED
        BY <2>1, <2>2
<1>2. [progress |-> "pending", settled |-> FALSE, text |-> text, replied |-> FALSE] \in TurnRow
    BY DEF TurnRow, Progress
<1>3. QED
    BY <1>1, <1>2 DEF RecordTurn

LEMMA EmptyMemoryType == EmptyMemory \in Memory
<1>1. [s \in Span |-> 0] \in [Span -> 0..RetryLimit]
    BY JobsAssumption
<1>2. 0 \in Nat
    OBVIOUS
<1>3. QED
    BY <1>1, <1>2 DEF EmptyMemory, Memory

\* A flush forms a batch only from pending turns, and then its head is a turn.
LEMMA FlushType ==
    ASSUME NEW m \in Memory, NEW T, NEW h, Pending(T) # {} => h \in Turn
    PROVE  Flush(m, T, h) \in Memory
<1>1. CASE Pending(T) = {} \/ m.queued
    BY <1>1 DEF Flush, Memory
<1>2. CASE Pending(T) # {} /\ ~ m.queued
    <2> DEFINE new == [span |-> <<Min(Due(T)), Max(Due(T))>>, head |-> h, stage |-> "queue"]
    <2>1. new \in Batch
        BY <1>2, DueSpan DEF Batch
    <2>2. Flush(m, T, h) = [m EXCEPT !.timer = NoTurn, !.queued = TRUE, !.batches = @ \cup {new}]
        BY <1>2 DEF Flush
    <2> HIDE DEF new
    <2>3. m.batches \cup {new} \in SUBSET Batch
        BY <2>1 DEF Memory
    <2>4. NoTurn \in Turn \cup {NoTurn}
        OBVIOUS
    <2> HIDE DEF NoTurn
    <2>5. QED
        BY <2>2, <2>3, <2>4 DEF Memory
<1>3. QED
    BY <1>1, <1>2

LEMMA NotifyType ==
    ASSUME NEW m \in Memory, NEW T, NEW h \in Turn
    PROVE  Notify(m, T, h) \in Memory
<1> DEFINE m1 == IF m.until = NoTurn THEN m ELSE [m EXCEPT !.until = NoTurn, !.fails = 0]
<1>1. m1 \in Memory
    BY DEF Memory
<1>2. Flush(m1, T, h) \in Memory
    BY <1>1, FlushType
<1>3. [m1 EXCEPT !.timer = h] \in Memory
    BY <1>1 DEF Memory
<1>4. Notify(m, T, h) \in {m, m1, Flush(m1, T, h), [m1 EXCEPT !.timer = h]}
    BY DEF Notify
<1>5. QED
    BY <1>1, <1>2, <1>3, <1>4

LEMMA FinishType ==
    ASSUME NEW m \in Memory, NEW b \in Batch, NEW T
    PROVE  Finish(m, b, T) \in Memory
<1> DEFINE m1 == [m EXCEPT !.batches = @ \ {b}, !.queued = FALSE]
<1>1. m1 \in Memory
    BY DEF Memory
<1>2. b.head \in Turn
    BY DEF Batch
<1>3. Notify(m1, T, b.head) \in Memory
    BY <1>1, <1>2, NotifyType
<1>4. Finish(m, b, T) = IF Pending(T) = {} THEN m1 ELSE Notify(m1, T, b.head)
    BY DEF Finish
<1>5. QED
    BY <1>1, <1>3, <1>4

LEMMA StagedType ==
    ASSUME mem \in Memory, NEW b \in Batch, NEW stage \in {"queue", "model", "post"}
    PROVE  Staged(b, stage) \in Memory
<1>1. [b EXCEPT !.stage = stage] \in Batch
    BY DEF Batch
<1>2. QED
    BY <1>1 DEF Staged, Memory

\* A mark changes the progress of turns that are in the expected status, and only those.
LEMMA MarkProgress ==
    ASSUME NEW T \in [Turn -> TurnRow], NEW s, NEW status, NEW expected, NEW t \in Turn
    PROVE  \/ Mark(T, s, status, expected)[t].progress = T[t].progress
           \/ T[t].progress = expected /\ Mark(T, s, status, expected)[t].progress = status
BY DEF Mark, TurnRow

\* The counters of a memory may be set to any value of their types.
LEMMA CountersType ==
    ASSUME NEW m \in Memory, NEW s \in Span, NEW n \in 0..RetryLimit, NEW k \in Nat,
           NEW u \in Nat \cup {NoTurn}, NEW R \in SUBSET Retry
    PROVE  /\ [m EXCEPT !.used[s] = n] \in Memory
           /\ [m EXCEPT !.fails = k] \in Memory
           /\ [m EXCEPT !.fails = k, !.used[s] = n] \in Memory
           /\ [m EXCEPT !.fails = k, !.until = u, !.used[s] = n] \in Memory
           /\ [m EXCEPT !.used[s] = n, !.retries = R] \in Memory
           /\ [m EXCEPT !.retries = R] \in Memory
<1> HIDE DEF NoTurn
<1>1. [m.used EXCEPT ![s] = n] \in [Span -> 0..RetryLimit]
    BY DEF Memory
<1>2. QED
    BY <1>1 DEF Memory

-----------------------------------------------------------------------------
(* Type correctness *)

\* The turns past the head have no row yet: what a restart finds pending is behind the head.
FutureTurnsUnrecorded == \A t \in Turn : t > head => turn[t].progress = "none"

IInv == TypeOK /\ FutureTurnsUnrecorded

LEMMA IInvInit == Init => IInv
<1> SUFFICES ASSUME Init PROVE IInv
    OBVIOUS
<1>1. turn \in [Turn -> TurnRow]
    BY DEF Init, TurnRow, Progress
<1>2. mem \in Memory
    BY EmptyMemoryType DEF Init
<1>3. restarts \in 0..MaxRestarts
    BY JobsAssumption DEF Init
<1>4. head \in Turn \cup {NoTurn}
    BY DEF Init
<1>5. FutureTurnsUnrecorded
    BY DEF Init, FutureTurnsUnrecorded
<1>6. QED
    BY <1>1, <1>2, <1>3, <1>4, <1>5 DEF IInv, TypeOK

\* A step that only marks turns keeps the type and the emptiness of the future turns.
LEMMA MarkKeeps ==
    ASSUME IInv, UNCHANGED head, NEW s, NEW status \in Progress, NEW expected,
           expected # "none", turn' = Mark(turn, s, status, expected)
    PROVE  turn' \in [Turn -> TurnRow] /\ FutureTurnsUnrecorded'
<1>1. turn' \in [Turn -> TurnRow]
    BY MarkType DEF IInv, TypeOK
<1>2. ASSUME NEW t \in Turn, t > head PROVE turn'[t].progress = "none"
    <2>1. turn[t].progress = "none"
        BY <1>2 DEF IInv, FutureTurnsUnrecorded
    <2>2. QED
        BY <2>1, MarkProgress DEF IInv, TypeOK
<1>3. QED
    BY <1>1, <1>2 DEF FutureTurnsUnrecorded

LEMMA SettleKeeps ==
    ASSUME IInv, UNCHANGED head, NEW T \in [Turn -> TurnRow],
           \A t \in Turn : t > head => T[t].progress = "none"
    PROVE  /\ SettleHead(T) \in [Turn -> TurnRow]
           /\ \A t \in Turn : t > head => SettleHead(T)[t].progress = "none"
<1>1. SettleHead(T) \in [Turn -> TurnRow]
    BY SettleHeadType
<1>2. \A t \in Turn : SettleHead(T)[t].progress = T[t].progress
    BY DEF SettleHead, TurnRow
<1>3. QED
    BY <1>1, <1>2

LEMMA HeadOfPending ==
    ASSUME IInv, Pending(turn) # {}
    PROVE  head \in Turn
<1>1. PICK t \in Pending(turn) : TRUE
    OBVIOUS
<1>2. t \in Turn /\ turn[t].progress = "pending" /\ t >= 0
    BY <1>1 DEF Pending, Turn
<1>3. head # NoTurn
    BY <1>2 DEF IInv, FutureTurnsUnrecorded, NoTurn, Turn
<1>4. QED
    BY <1>3 DEF IInv, TypeOK

LEMMA RequestKeeps ==
    ASSUME IInv, NEW text \in BOOLEAN, Request(text)
    PROVE  IInv'
<1>1. turn \in [Turn -> TurnRow] /\ head \in Turn \cup {NoTurn} /\ mem \in Memory
      /\ restarts \in 0..MaxRestarts
    BY DEF IInv, TypeOK
<1>2. head + 1 \in Turn /\ head < head + 1
    BY <1>1, JobsAssumption DEF Request, Turn, NoTurn
<1>3. head' \in Turn \cup {NoTurn}
    BY <1>2 DEF Request
<1>4. turn' \in [Turn -> TurnRow]
    BY <1>1, RecordTurnType DEF Request
<1>5. ASSUME NEW t \in Turn, t > head' PROVE turn'[t].progress = "none"
    <2>1. t > head + 1 /\ t > head
        BY <1>1, <1>2, <1>5, JobsAssumption DEF Request, Turn, NoTurn
    <2>2. ~ (t < head + 1) /\ t # head + 1
        BY <1>1, <1>2, <2>1 DEF Turn, NoTurn
    <2>3. turn'[t] = turn[t]
        BY <2>2 DEF Request, RecordTurn
    <2>4. QED
        BY <2>1, <2>3 DEF IInv, FutureTurnsUnrecorded
<1>6. QED
    BY <1>1, <1>3, <1>4, <1>5 DEF Request, IInv, TypeOK, FutureTurnsUnrecorded

LEMMA ReplyKeeps ==
    ASSUME IInv, Reply \/ ContinueReply
    PROVE  IInv'
<1> DEFINE T == [turn EXCEPT ![head].replied = TRUE, ![head].text = TRUE]
<1>1. turn \in [Turn -> TurnRow] /\ mem \in Memory /\ head \in Turn /\ UNCHANGED head
    BY DEF IInv, TypeOK, Reply, ContinueReply
<1>2. T \in [Turn -> TurnRow] /\ \A t \in Turn : T[t].progress = turn[t].progress
    BY <1>1 DEF TurnRow
<1>3. \A t \in Turn : t > head => T[t].progress = "none"
    BY <1>2 DEF IInv, FutureTurnsUnrecorded
<1>4. turn' = SettleHead(T) \/ turn' = T
    BY DEF Reply, ContinueReply
<1> HIDE DEF T
<1>5. turn' \in [Turn -> TurnRow] /\ FutureTurnsUnrecorded'
    BY <1>1, <1>2, <1>3, <1>4, SettleKeeps DEF FutureTurnsUnrecorded
<1>6. mem' \in Memory
    BY <1>1, NotifyType DEF Reply, ContinueReply
<1>7. QED
    BY <1>1, <1>5, <1>6 DEF Reply, ContinueReply, IInv, TypeOK

LEMMA RetryReplyKeeps ==
    ASSUME IInv, RetryReply
    PROVE  IInv'
<1>1. turn \in [Turn -> TurnRow] /\ head \in Turn
    BY DEF IInv, TypeOK, RetryReply
<1>2. turn' \in [Turn -> TurnRow] /\ \A t \in Turn : turn'[t].progress = turn[t].progress
    BY <1>1 DEF RetryReply, TurnRow
<1>3. QED
    BY <1>2 DEF RetryReply, IInv, TypeOK, FutureTurnsUnrecorded

LEMMA SwipeKeeps ==
    ASSUME IInv, Swipe
    PROVE  IInv'
<1>1. turn \in [Turn -> TurnRow] /\ head \in Turn /\ UNCHANGED head
    BY DEF IInv, TypeOK, Swipe
<1>2. turn' \in [Turn -> TurnRow]
    BY <1>1 DEF Swipe, TurnRow, Progress
<1>3. \A t \in Turn : t > head => turn'[t] = turn[t]
    BY <1>1, JobsAssumption DEF Swipe, Turn
<1>4. QED
    BY <1>1, <1>2, <1>3 DEF Swipe, IInv, TypeOK, FutureTurnsUnrecorded

LEMMA DebounceKeeps ==
    ASSUME IInv, DebounceFires
    PROVE  IInv'
<1>1. turn \in [Turn -> TurnRow] /\ mem \in Memory /\ UNCHANGED head /\ mem.timer # NoTurn
    BY DEF IInv, TypeOK, DebounceFires
<1>2. turn' \in [Turn -> TurnRow] /\ FutureTurnsUnrecorded'
    BY <1>1, SettleKeeps DEF DebounceFires, IInv, FutureTurnsUnrecorded
<1>3. mem.timer \in Turn
    BY <1>1 DEF Memory
<1>4. mem' \in Memory
    BY <1>1, <1>3, FlushType DEF DebounceFires
<1>5. QED
    BY <1>2, <1>4 DEF DebounceFires, IInv, TypeOK

\* A batch in the queue or in flight has a span of turns and a head.
LEMMA BatchOfMemory ==
    ASSUME IInv, NEW b \in mem.batches
    PROVE  b \in Batch /\ b.span \in Span /\ b.head \in Turn /\ mem \in Memory
BY DEF IInv, TypeOK, Memory, Batch

LEMMA RunnerKeeps ==
    ASSUME IInv, NEW b \in mem.batches, Runner(b)
    PROVE  IInv'
<1> USE DEF Progress
<1>1. turn \in [Turn -> TurnRow] /\ head \in Turn \cup {NoTurn} /\ mem \in Memory
      /\ restarts \in 0..MaxRestarts
    BY DEF IInv, TypeOK
<1>2. b \in Batch /\ b.span \in Span /\ b.head \in Turn
    BY BatchOfMemory
<1>3. 0 \in 0..RetryLimit /\ 0 \in Nat /\ mem.used \in [Span -> 0..RetryLimit]
      /\ mem.fails \in Nat /\ mem.until \in Nat \cup {NoTurn} /\ mem.retries \in SUBSET Retry
    BY <1>1, JobsAssumption DEF Memory
<1>4. CASE Start(b)
    <2>1. CASE mem' = Staged(b, "model") /\ UNCHANGED turn
        <3>1. mem' \in Memory
            BY <1>1, <1>2, <2>1, StagedType
        <3>2. QED
            BY <1>4, <2>1, <3>1 DEF Start, IInv, TypeOK, FutureTurnsUnrecorded
    <2>2. CASE turn' = Mark(turn, b.span, "skipped", "pending") /\ mem' = Finish(mem, b, turn')
        <3>1. mem' \in Memory
            BY <1>1, <1>2, <2>2, FinishType
        <3>2. turn' \in [Turn -> TurnRow] /\ FutureTurnsUnrecorded'
            BY <1>4, <2>2, MarkKeeps DEF Start
        <3>3. QED
            BY <1>4, <3>1, <3>2 DEF Start, IInv, TypeOK
    <2>3. QED
        BY <1>4, <2>1, <2>2 DEF Start
<1>5. CASE Commit(b)
    <2>1. mem' \in Memory
        <3>1. Staged(b, "post") \in Memory
            BY <1>1, <1>2, StagedType
        <3>2. QED
            BY <1>2, <1>3, <1>5, <3>1, CountersType DEF Commit
    <2>2. turn' \in [Turn -> TurnRow] /\ FutureTurnsUnrecorded'
        BY <1>5, MarkKeeps DEF Commit
    <2>3. QED
        BY <1>5, <2>1, <2>2 DEF Commit, IInv, TypeOK
<1>6. CASE DiscardRetired(b)
    <2>1. [mem EXCEPT !.fails = 0, !.used[b.span] = 0] \in Memory
        BY <1>1, <1>2, <1>3, CountersType
    <2>2. mem' \in Memory
        BY <1>2, <1>6, <2>1, FinishType DEF DiscardRetired
    <2>3. QED
        BY <1>6, <2>2 DEF DiscardRetired, IInv, TypeOK, FutureTurnsUnrecorded
<1>7. CASE PostDone(b)
    <2>1. mem' \in Memory
        BY <1>1, <1>2, <1>7, FinishType DEF PostDone
    <2>2. QED
        BY <1>7, <2>1 DEF PostDone, IInv, TypeOK, FutureTurnsUnrecorded
<1>8. CASE FailTransient(b)
    <2> DEFINE r == [span |-> b.span, head |-> b.head]
    <2>1. mem.used[b.span] + 1 \in 0..RetryLimit
        BY <1>2, <1>3, <1>8, JobsAssumption DEF FailTransient
    <2>2. mem.retries \cup {r} \in SUBSET Retry
        BY <1>2, <1>3 DEF Retry
    <2>3. [mem EXCEPT !.used[b.span] = mem.used[b.span] + 1, !.retries = mem.retries \cup {r}]
          \in Memory
        BY <1>1, <1>2, <1>3, <2>1, <2>2, CountersType
    <2>4. mem' = Finish([mem EXCEPT !.used[b.span] = mem.used[b.span] + 1,
                                    !.retries = mem.retries \cup {r}], b, turn')
        BY <1>8 DEF FailTransient
    <2>5. mem' \in Memory
        BY <1>2, <2>3, <2>4, FinishType
    <2>6. turn' \in [Turn -> TurnRow] /\ FutureTurnsUnrecorded'
        BY <1>8, MarkKeeps DEF FailTransient
    <2>7. QED
        BY <1>8, <2>5, <2>6 DEF FailTransient, IInv, TypeOK
<1>9. ASSUME NEW transient \in BOOLEAN, Fail(b, transient) PROVE IInv'
    <2> DEFINE n == mem.fails + 1
               u == IF n >= FailLimit THEN b.head + ReenableAfter ELSE mem.until
               used == IF transient THEN 0 ELSE mem.used[b.span]
               m1 == [mem EXCEPT !.fails = n, !.until = u, !.used[b.span] = used]
    <2>1. n \in Nat /\ u \in Nat \cup {NoTurn} /\ used \in 0..RetryLimit
        BY <1>2, <1>3, JobsAssumption DEF Turn
    <2>2. m1 \in Memory
        <3> HIDE DEF n, u, used
        <3> QED
            BY <1>1, <1>2, <1>3, <2>1, CountersType
    <2>3. mem' = Finish(m1, b, turn')
        BY <1>9 DEF Fail
    <2>4. mem' \in Memory
        <3> HIDE DEF m1
        <3> QED
            BY <1>2, <2>2, <2>3, FinishType
    <2>5. turn' \in [Turn -> TurnRow] /\ FutureTurnsUnrecorded'
        BY <1>9, MarkKeeps DEF Fail
    <2>6. QED
        BY <1>9, <2>4, <2>5 DEF Fail, IInv, TypeOK
<1>10. CASE JobRaises(b)
    <2>1. mem' \in Memory
        BY <1>1, <1>2, <1>10, FinishType DEF JobRaises
    <2>2. turn' \in [Turn -> TurnRow] /\ FutureTurnsUnrecorded'
        BY <1>10, MarkKeeps DEF JobRaises
    <2>3. QED
        BY <1>10, <2>1, <2>2 DEF JobRaises, IInv, TypeOK
<1>11. QED
    BY <1>4, <1>5, <1>6, <1>7, <1>8, <1>9, <1>10 DEF Runner

LEMMA RetryFiresKeeps ==
    ASSUME IInv, NEW r \in mem.retries, RetryFires(r)
    PROVE  IInv'
<1> DEFINE m1 == [mem EXCEPT !.retries = mem.retries \ {r}]
<1>1. mem \in Memory /\ r \in Retry /\ r.head \in Turn
    BY DEF IInv, TypeOK, Memory, Retry
<1>2. m1 \in Memory
    <2>1. mem.retries \ {r} \in SUBSET Retry
        BY <1>1 DEF Memory
    <2>2. QED
        BY <1>1, <2>1 DEF Memory
<1>3. mem' = m1 \/ mem' = Notify(m1, turn', r.head)
    BY DEF RetryFires
<1> HIDE DEF m1
<1>4. mem' \in Memory
    BY <1>1, <1>2, <1>3, NotifyType
<1>5. turn' \in [Turn -> TurnRow] /\ FutureTurnsUnrecorded'
    BY MarkKeeps DEF RetryFires, Progress
<1>6. QED
    BY <1>4, <1>5 DEF RetryFires, IInv, TypeOK

LEMMA RestartKeeps ==
    ASSUME IInv, Restart
    PROVE  IInv'
<1>1. restarts \in 0..MaxRestarts
    BY DEF IInv, TypeOK
<1>2. mem' = Flush(EmptyMemory, turn, head) /\ UNCHANGED <<turn, head>>
      /\ restarts < MaxRestarts /\ restarts' = restarts + 1
    BY DEF Restart, Restarted
<1>3. mem' \in Memory
    BY <1>2, EmptyMemoryType, FlushType, HeadOfPending
<1>4. restarts' \in 0..MaxRestarts
    BY <1>1, <1>2, JobsAssumption
<1>5. QED
    BY <1>2, <1>3, <1>4 DEF IInv, TypeOK, FutureTurnsUnrecorded

LEMMA IInvStep == IInv /\ [Next]_vars => IInv'
<1> SUFFICES ASSUME IInv, [Next]_vars PROVE IInv'
    OBVIOUS
<1>1. CASE \E text \in BOOLEAN : Request(text)
    BY <1>1, RequestKeeps
<1>2. CASE Reply \/ ContinueReply
    BY <1>2, ReplyKeeps
<1>3. CASE RetryReply
    BY <1>3, RetryReplyKeeps
<1>4. CASE Swipe
    BY <1>4, SwipeKeeps
<1>5. CASE Step
    BY <1>5, DebounceKeeps, RunnerKeeps, RetryFiresKeeps DEF Step
<1>6. CASE Restart
    BY <1>6, RestartKeeps
<1>7. CASE UNCHANGED vars
    BY <1>7 DEF vars, IInv, TypeOK, FutureTurnsUnrecorded
<1>8. QED
    BY <1>1, <1>2, <1>3, <1>4, <1>5, <1>6, <1>7 DEF Next

LEMMA IInvAlways == Spec => []IInv
BY IInvInit, IInvStep, PTL DEF Spec

\* Every state of the scheduler is well typed: in particular a batch always spans turns in
\* order, an armed timer holds a turn, and no span uses more retries than the limit.
THEOREM TypeCorrect == Spec => []TypeOK
<1>1. IInv => TypeOK
    BY DEF IInv
<1>2. QED
    BY <1>1, IInvAlways, PTL

-----------------------------------------------------------------------------
(* One batch at a time *)

\* The scheduler has no batch, or exactly one and the branch is in _queued.
Single(m) ==
    \/ m.batches = {} /\ m.queued = FALSE
    \/ \E b \in Batch : m.batches = {b} /\ m.queued = TRUE

LEMMA FlushSingle ==
    ASSUME NEW m \in Memory, NEW T, NEW h, Single(m), Pending(T) # {} => h \in Turn
    PROVE  Single(Flush(m, T, h))
<1>1. CASE Pending(T) = {} \/ m.queued
    BY <1>1 DEF Flush, Memory, Single
<1>2. CASE Pending(T) # {} /\ ~ m.queued
    <2> DEFINE new == [span |-> <<Min(Due(T)), Max(Due(T))>>, head |-> h, stage |-> "queue"]
    <2>1. new \in Batch
        BY <1>2, DueSpan DEF Batch
    <2>2. Flush(m, T, h) = [m EXCEPT !.timer = NoTurn, !.queued = TRUE, !.batches = @ \cup {new}]
        BY <1>2 DEF Flush
    <2> HIDE DEF new
    <2>3. m.batches = {}
        BY <1>2 DEF Single
    <2>4. Flush(m, T, h).batches = {new} /\ Flush(m, T, h).queued = TRUE
        BY <2>2, <2>3 DEF Memory
    <2>5. QED
        BY <2>1, <2>4 DEF Single
<1>3. QED
    BY <1>1, <1>2

LEMMA NotifySingle ==
    ASSUME NEW m \in Memory, NEW T, NEW h \in Turn, Single(m)
    PROVE  Single(Notify(m, T, h))
<1> DEFINE m1 == IF m.until = NoTurn THEN m ELSE [m EXCEPT !.until = NoTurn, !.fails = 0]
<1>1. m1 \in Memory
    BY DEF Memory
<1>2. Single(m1)
    BY DEF Memory, Single
<1>3. Notify(m, T, h) \in {m, m1, Flush(m1, T, h), [m1 EXCEPT !.timer = h]}
    BY DEF Notify
<1> HIDE DEF m1
<1>4. Single(Flush(m1, T, h))
    BY <1>1, <1>2, FlushSingle
<1>5. Single([m1 EXCEPT !.timer = h])
    BY <1>1, <1>2 DEF Memory, Single
<1>6. QED
    BY <1>2, <1>3, <1>4, <1>5

LEMMA FinishSingle ==
    ASSUME NEW m \in Memory, NEW b \in m.batches, NEW T, Single(m)
    PROVE  Single(Finish(m, b, T))
<1> DEFINE m1 == [m EXCEPT !.batches = @ \ {b}, !.queued = FALSE]
<1>1. m1 \in Memory /\ b.head \in Turn
    BY DEF Memory, Batch
<1>2. Single(m1)
    BY DEF Memory, Single
<1>3. Finish(m, b, T) = IF Pending(T) = {} THEN m1 ELSE Notify(m1, T, b.head)
    BY DEF Finish
<1> HIDE DEF m1
<1>4. QED
    BY <1>1, <1>2, <1>3, NotifySingle

LEMMA StagedSingle ==
    ASSUME mem \in Memory, NEW b \in mem.batches, NEW stage \in {"queue", "model", "post"},
           Single(mem)
    PROVE  Single(Staged(b, stage))
<1>1. b \in Batch /\ mem.batches = {b} /\ mem.queued = TRUE
    BY DEF Memory, Single
<1>2. [b EXCEPT !.stage = stage] \in Batch
    BY <1>1 DEF Batch
<1>3. Staged(b, stage).batches = {[b EXCEPT !.stage = stage]} /\ Staged(b, stage).queued = TRUE
    BY <1>1 DEF Staged, Memory
<1>4. QED
    BY <1>2, <1>3 DEF Single

LEMMA RunnerSingle ==
    ASSUME IInv, Single(mem), NEW b \in mem.batches, Runner(b)
    PROVE  Single(mem')
<1>1. mem \in Memory /\ b \in Batch /\ b.span \in Span /\ b.head \in Turn
    BY BatchOfMemory
<1>2. 0 \in 0..RetryLimit /\ 0 \in Nat /\ mem.used \in [Span -> 0..RetryLimit]
      /\ mem.fails \in Nat /\ mem.until \in Nat \cup {NoTurn} /\ mem.retries \in SUBSET Retry
    BY <1>1, JobsAssumption DEF Memory
\* The counters a runner step sets are not what Single speaks of.
<1>3. ASSUME NEW m1 \in Memory, m1.batches = mem.batches, m1.queued = mem.queued,
             mem' = Finish(m1, b, turn')
      PROVE  Single(mem')
    BY <1>3, FinishSingle DEF Single
<1>4. CASE Start(b)
    BY <1>1, <1>3, <1>4, StagedSingle DEF Start
<1>5. CASE Commit(b)
    <2>1. Single(Staged(b, "post")) /\ Staged(b, "post") \in Memory
        BY <1>1, StagedSingle, StagedType
    <2>2. mem'.batches = Staged(b, "post").batches /\ mem'.queued = Staged(b, "post").queued
        BY <1>5, <2>1 DEF Commit, Memory
    <2>3. QED
        BY <2>1, <2>2 DEF Single
<1>6. CASE DiscardRetired(b)
    <2> DEFINE m1 == [mem EXCEPT !.fails = 0, !.used[b.span] = 0]
    <2>1. m1 \in Memory
        BY <1>1, <1>2, CountersType
    <2>2. m1.batches = mem.batches /\ m1.queued = mem.queued
        BY <1>1 DEF Memory
    <2>3. mem' = Finish(m1, b, turn')
        BY <1>6 DEF DiscardRetired
    <2> HIDE DEF m1
    <2>4. QED
        BY <1>3, <2>1, <2>2, <2>3
<1>7. CASE PostDone(b)
    BY <1>1, <1>7, FinishSingle DEF PostDone
<1>8. CASE FailTransient(b)
    <2> DEFINE r == [span |-> b.span, head |-> b.head]
               m1 == [mem EXCEPT !.used[b.span] = mem.used[b.span] + 1,
                                 !.retries = mem.retries \cup {r}]
    <2>1. mem.used[b.span] + 1 \in 0..RetryLimit
        BY <1>1, <1>2, <1>8, JobsAssumption DEF FailTransient
    <2>2. mem.retries \cup {r} \in SUBSET Retry
        BY <1>1, <1>2 DEF Retry
    <2>3. m1 \in Memory
        BY <1>1, <1>2, <2>1, <2>2, CountersType
    <2>4. m1.batches = mem.batches /\ m1.queued = mem.queued
        BY <1>1 DEF Memory
    <2>5. mem' = Finish(m1, b, turn')
        BY <1>8 DEF FailTransient
    <2> HIDE DEF m1
    <2>6. QED
        BY <1>3, <2>3, <2>4, <2>5
<1>9. ASSUME NEW transient \in BOOLEAN, Fail(b, transient) PROVE Single(mem')
    <2> DEFINE n == mem.fails + 1
               u == IF n >= FailLimit THEN b.head + ReenableAfter ELSE mem.until
               used == IF transient THEN 0 ELSE mem.used[b.span]
               m1 == [mem EXCEPT !.fails = n, !.until = u, !.used[b.span] = used]
    <2>1. n \in Nat /\ u \in Nat \cup {NoTurn} /\ used \in 0..RetryLimit
        BY <1>1, <1>2, JobsAssumption DEF Turn
    <2>2. mem' = Finish(m1, b, turn')
        BY <1>9 DEF Fail
    <2> HIDE DEF n, u, used
    <2>3. m1 \in Memory
        BY <1>1, <1>2, <2>1, CountersType
    <2>4. m1.batches = mem.batches /\ m1.queued = mem.queued
        BY <1>1 DEF Memory
    <2> HIDE DEF m1
    <2>5. QED
        BY <1>3, <2>2, <2>3, <2>4
<1>10. CASE JobRaises(b)
    BY <1>1, <1>10, FinishSingle DEF JobRaises
<1>11. QED
    BY <1>4, <1>5, <1>6, <1>7, <1>8, <1>9, <1>10 DEF Runner

OneInv == Single(mem)

LEMMA SingleStep == IInv /\ Single(mem) /\ [Next]_vars => Single(mem')
<1> SUFFICES ASSUME IInv, Single(mem), [Next]_vars PROVE Single(mem')
    OBVIOUS
<1>1. mem \in Memory
    BY DEF IInv, TypeOK
<1>2. CASE \E text \in BOOLEAN : Request(text)
    BY <1>2 DEF Request
<1>3. CASE Reply \/ ContinueReply
    BY <1>1, <1>3, NotifySingle DEF Reply, ContinueReply
<1>4. CASE RetryReply \/ Swipe
    BY <1>4 DEF RetryReply, Swipe
<1>5. CASE DebounceFires
    <2>1. mem.timer \in Turn
        BY <1>1, <1>5 DEF DebounceFires, Memory
    <2>2. QED
        BY <1>1, <1>5, <2>1, FlushSingle DEF DebounceFires
<1>6. CASE \E b \in mem.batches : Runner(b)
    BY <1>6, RunnerSingle
<1>7. ASSUME NEW r \in mem.retries, RetryFires(r) PROVE Single(mem')
    <2> DEFINE m1 == [mem EXCEPT !.retries = mem.retries \ {r}]
    <2>1. r \in Retry /\ r.head \in Turn /\ mem.retries \ {r} \in SUBSET Retry
        BY <1>1 DEF Memory, Retry
    <2>2. m1 \in Memory /\ Single(m1)
        BY <1>1, <2>1 DEF Memory, Single
    <2>3. mem' = m1 \/ mem' = Notify(m1, turn', r.head)
        BY <1>7 DEF RetryFires
    <2> HIDE DEF m1
    <2>4. QED
        BY <2>1, <2>2, <2>3, NotifySingle
<1>8. CASE Restart
    <2>1. mem' = Flush(EmptyMemory, turn, head)
        BY <1>8 DEF Restart, Restarted
    <2>2. Single(EmptyMemory)
        BY DEF Single, EmptyMemory
    <2>3. QED
        BY <2>1, <2>2, EmptyMemoryType, HeadOfPending, FlushSingle
<1>9. CASE UNCHANGED vars
    BY <1>9 DEF vars
<1>10. QED
    BY <1>2, <1>3, <1>4, <1>5, <1>6, <1>7, <1>8, <1>9 DEF Next, Step

\* However timers, retries, notifications, ends of batches and restarts interleave, a branch
\* has at most one batch queued or in flight, and _queued says so exactly.
THEOREM OneBatch == Spec => []OneBatchPerBranch
<1>1. Init => OneInv
    BY DEF Init, EmptyMemory, Single, OneInv
<1>2. IInv /\ OneInv /\ [Next]_vars => OneInv'
    BY SingleStep DEF OneInv
<1>3. OneInv => OneBatchPerBranch
    <2>1. CASE mem.batches = {} /\ mem.queued = FALSE
        <3>1. Cardinality(mem.batches) = 0
            BY <2>1, FS_EmptySet
        <3>2. QED
            BY <2>1, <3>1 DEF OneBatchPerBranch
    <2>2. ASSUME NEW b \in Batch, mem.batches = {b}, mem.queued = TRUE PROVE OneBatchPerBranch
        <3>1. Cardinality(mem.batches) = 1
            BY <2>2, FS_Singleton
        <3>2. QED
            BY <2>2, <3>1 DEF OneBatchPerBranch
    <2>3. QED
        BY <2>1, <2>2 DEF OneInv, Single
<1>4. QED
    BY <1>1, <1>2, <1>3, IInvAlways, PTL DEF Spec

-----------------------------------------------------------------------------
(* What a status is never overwritten by *)

\* A step changes the status of a turn only as a request, a narration retry or a mark does:
\* marks take pending and failed turns, requests take turns that have no row.
LEMMA StatusStep ==
    ASSUME IInv, [Next]_vars, NEW t \in Turn
    PROVE  \/ turn'[t].progress = turn[t].progress
           \/ turn[t].progress \in {"none", "pending", "failed"}
           \/ turn'[t].progress = "skipped"
<1>1. turn \in [Turn -> TurnRow] /\ head \in Turn \cup {NoTurn}
    BY DEF IInv, TypeOK
<1>2. ASSUME NEW s, NEW status, NEW expected, expected \in {"pending", "failed"},
             turn' = Mark(turn, s, status, expected)
      PROVE  turn'[t].progress = turn[t].progress \/ turn[t].progress \in {"pending", "failed"}
    BY <1>1, <1>2, MarkProgress
<1>3. ASSUME NEW text \in BOOLEAN, Request(text)
      PROVE  turn'[t].progress = turn[t].progress \/ turn[t].progress = "none"
    <2>1. turn' = RecordTurn(turn, head + 1, text)
        BY <1>3 DEF Request
    <2>2. CASE t < head + 1
        BY <1>1, <2>1, <2>2 DEF RecordTurn, TurnRow
    <2>3. CASE ~ (t < head + 1)
        <3>1. t > head
            BY <1>1, <2>3, JobsAssumption DEF Turn, NoTurn
        <3>2. QED
            BY <3>1 DEF IInv, FutureTurnsUnrecorded
    <2>4. QED
        BY <2>2, <2>3
<1>4. \A T \in [Turn -> TurnRow] : SettleHead(T)[t].progress = T[t].progress
    BY DEF SettleHead, TurnRow
<1>5. CASE Reply \/ ContinueReply
    <2> DEFINE T == [turn EXCEPT ![head].replied = TRUE, ![head].text = TRUE]
    <2>1. head \in Turn
        BY <1>5 DEF Reply, ContinueReply
    <2>2. T \in [Turn -> TurnRow] /\ T[t].progress = turn[t].progress
        BY <1>1, <2>1 DEF TurnRow
    <2>3. turn' = SettleHead(T) \/ turn' = T
        BY <1>5 DEF Reply, ContinueReply
    <2> HIDE DEF T
    <2>4. QED
        BY <1>4, <2>2, <2>3
<1>6. CASE RetryReply
    BY <1>1, <1>6 DEF RetryReply, TurnRow
<1>7. CASE Swipe
    BY <1>1, <1>7 DEF Swipe, TurnRow
<1>8. CASE DebounceFires
    BY <1>1, <1>4, <1>8 DEF DebounceFires
<1>9. ASSUME NEW b \in mem.batches, Runner(b)
      PROVE  turn'[t].progress = turn[t].progress \/ turn[t].progress \in {"pending", "failed"}
    BY <1>2, <1>9
       DEF Runner, Start, Commit, DiscardRetired, PostDone, FailTransient, Fail, JobRaises
<1>10. ASSUME NEW r \in mem.retries, RetryFires(r)
       PROVE  turn'[t].progress = turn[t].progress \/ turn[t].progress \in {"pending", "failed"}
    BY <1>2, <1>10 DEF RetryFires
<1>11. CASE Restart
    BY <1>11 DEF Restart
<1>12. CASE UNCHANGED vars
    BY <1>12 DEF vars
<1>13. QED
    BY <1>3, <1>5, <1>6, <1>7, <1>8, <1>9, <1>10, <1>11, <1>12 DEF Next, Step

\* No late answer, failure, delayed retry or restart revives a turn that a narration retry
\* has retired or extracts again what was extracted, whatever the limits of the scheduler are.
THEOREM DecisionsAreFinal == Spec => DecisionsStand
<1>1. IInv /\ [Next]_vars
        => [\A t \in Turn :
                /\ turn[t].progress = "skipped" => turn'[t].progress = "skipped"
                /\ turn[t].progress = "done" => turn'[t].progress \in {"done", "skipped"}]_vars
    BY StatusStep
<1>2. QED
    BY <1>1, IInvAlways, PTL DEF Spec, DecisionsStand
=============================================================================

--------------------------- MODULE ServicesProofs ---------------------------
(***************************************************************************)
(* Answers, workers and passes that come too late: proofs about            *)
(* ChatReplies, GenesisClaims and WorldEvents, for every set of texts,     *)
(* turns, regenerates, restarts, sessions, workers, fronts and forks; and  *)
(* that it holds, with LessonsProofs, in the run of the five services.     *)
(***************************************************************************)
EXTENDS MCServices, LessonsProofs, TurnOrder

-----------------------------------------------------------------------------
(* ChatReplies: rows *)

\* The turns U are the turns T with the same attempts, replies and receipts.
SameReplies(T, U) ==
    /\ U \in [Turn -> TurnRow]
    /\ \A t \in Turn : /\ U[t].reply = T[t].reply /\ U[t].count = T[t].count
                       /\ U[t].receipt = T[t].receipt

LEMMA NoReplyIsReply == NoReply \in Reply /\ NoReply.count = 0
BY ChatAssumption DEF NoReply, Reply, Count

LEMMA ProgressStays ==
    ASSUME NEW T \in [Turn -> TurnRow], NEW t \in Turn,
           NEW s \in {"pending", "done", "failed", "skipped"}
    PROVE  SameReplies(T, [T EXCEPT ![t].progress = s])
<1> DEFINE r == [T[t] EXCEPT !.progress = s]
<1>1. /\ r \in TurnRow /\ r.reply = T[t].reply /\ r.count = T[t].count
      /\ r.receipt = T[t].receipt
    BY DEF TurnRow
<1>2. [T EXCEPT ![t].progress = s] = [T EXCEPT ![t] = r]
    OBVIOUS
<1> HIDE DEF r
<1> QED BY <1>1, <1>2 DEF SameReplies

LEMMA SettlingStays ==
    ASSUME NEW T \in [Turn -> TurnRow] PROVE SameReplies(T, SettledHead(T))
<1>1. ASSUME head \in Turn PROVE SameReplies(T, [T EXCEPT ![head].settled = TRUE])
    <2> DEFINE r == [T[head] EXCEPT !.settled = TRUE]
    <2>1. /\ r \in TurnRow /\ r.reply = T[head].reply /\ r.count = T[head].count
          /\ r.receipt = T[head].receipt
        BY <1>1 DEF TurnRow
    <2>2. [T EXCEPT ![head].settled = TRUE] = [T EXCEPT ![head] = r]
        OBVIOUS
    <2> HIDE DEF r
    <2> QED BY <1>1, <2>1, <2>2 DEF SameReplies
<1>2. SameReplies(T, T)
    BY DEF SameReplies
<1> QED BY <1>1, <1>2 DEF SettledHead

-----------------------------------------------------------------------------
(* ChatReplies: the job runner *)

Jobs == [batch : Batch, timer : BOOLEAN, retries : SUBSET Again, used : [Turn -> 0..RetryLimit]]

\* A batch is there for a reply.
JobsOK(m) == m \in Jobs /\ (m.batch = NoBatch \/ m.batch.reply # NoReply)

LEMMA NoBatchIsBatch == NoBatch \in Batch /\ NoBatch.asked = FALSE
BY NoReplyIsReply, ChatAssumption DEF NoBatch, Batch, Turn

LEMMA FirstIsThere ==
    ASSUME NEW T, Pending(T) # {} PROVE First(Pending(T)) \in Turn
<1>1. Pending(T) \in SUBSET Nat
    BY ChatAssumption DEF Pending, Turn
<1>2. \E t \in Pending(T) : \A u \in Pending(T) : t <= u
    BY <1>1, FirstNatural
<1>3. First(Pending(T)) \in Pending(T)
    BY <1>2 DEF First
<1> QED BY <1>3 DEF Pending

LEMMA RunnerHolds ==
    ASSUME NEW T \in [Turn -> TurnRow], NEW m, JobsOK(m)
    PROVE  JobsOK(Flushed(T, m)) /\ JobsOK(Notified(T, m)) /\ JobsOK(Freed(T, m))
<1>1. ASSUME NEW n, JobsOK(n), NEW B \in Batch, B = NoBatch \/ B.reply # NoReply
      PROVE  JobsOK([n EXCEPT !.batch = B])
    BY <1>1 DEF JobsOK, Jobs
<1>2. ASSUME NEW n, JobsOK(n), NEW b \in BOOLEAN
      PROVE  JobsOK([n EXCEPT !.timer = b])
    BY <1>2 DEF JobsOK, Jobs
<1>3. ASSUME NEW n, JobsOK(n) PROVE JobsOK(Flushed(T, n))
    <2> DEFINE t == First(Pending(T))
               B == [turn |-> t, reply |-> T[t].reply, asked |-> FALSE]
               k == [n EXCEPT !.timer = FALSE]
    <2>1. JobsOK(k)
        BY <1>2, <1>3
    <2>2. CASE Flushed(T, n) = k
        BY <2>1, <2>2
    <2>3. CASE ~ (Pending(T) = {} \/ n.batch # NoBatch \/ T[t].reply = NoReply)
        <3>1. t \in Turn
            BY <2>3, FirstIsThere
        <3> HIDE DEF t
        <3>2. B \in Batch /\ B.reply # NoReply
            BY <2>3, <3>1 DEF Batch, TurnRow
        <3>3. Flushed(T, n) = [n EXCEPT !.timer = FALSE, !.batch = B]
            BY <2>3 DEF Flushed, t
        <3>4. [n EXCEPT !.timer = FALSE, !.batch = B] = [k EXCEPT !.batch = B]
            OBVIOUS
        <3> HIDE DEF k, B
        <3> QED BY <1>1, <2>1, <3>2, <3>3, <3>4
    <2> QED BY <2>2, <2>3 DEF Flushed
<1>4. ASSUME NEW n, JobsOK(n) PROVE JobsOK(Notified(T, n))
    BY <1>2, <1>3, <1>4 DEF Notified
<1>5. JobsOK([m EXCEPT !.batch = NoBatch])
    BY <1>1, NoBatchIsBatch
<1> QED BY <1>3, <1>4, <1>5 DEF Freed

LEMMA UsedHolds ==
    ASSUME NEW m, JobsOK(m), NEW t \in Turn, NEW k \in 0..RetryLimit
    PROVE  JobsOK([m EXCEPT !.used[t] = k])
<1> DEFINE u == [m.used EXCEPT ![t] = k]
<1>1. u \in [Turn -> 0..RetryLimit]
    BY DEF JobsOK, Jobs
<1>2. [m EXCEPT !.used[t] = k] = [m EXCEPT !.used = u]
    OBVIOUS
<1> HIDE DEF u
<1> QED BY <1>1, <1>2 DEF JobsOK, Jobs

LEMMA RetriesHold ==
    ASSUME NEW m, JobsOK(m), NEW R \in SUBSET Again
    PROVE  JobsOK([m EXCEPT !.retries = R])
BY DEF JobsOK, Jobs

-----------------------------------------------------------------------------
(* ChatReplies: the steps *)

\* The jobs are typed as JobsOK says.
ChatInv ==
    /\ ChatTypeOK /\ ReplyIsLatest /\ FactsRestOnReplies
    /\ jobs.batch = NoBatch \/ jobs.batch.reply # NoReply

LEMMA JobsAreOK == ChatInv => JobsOK(jobs)
BY DEF ChatInv, ChatTypeOK, JobsOK, Jobs

\* The steps of AcceptedOnce and RemindersAreCurrent.
AcceptedStep ==
    \A t \in Turn : turn[t].reply # NoReply /\ turn'[t].reply # turn[t].reply =>
        /\ turn'[t].reply = NoReply /\ turn'[t].count = turn[t].count + 1 /\ t = head
        /\ \A f \in facts' : f.turn # t
RemindedStep == shown' # shown => shown' \subseteq facts'

\* A step of the runner: no reply changes, and no fact goes.
LEMMA QuietSteps ==
    ASSUME ChatInv, SameReplies(turn, turn'), JobsOK(jobs'),
           facts' \in SUBSET Fact, recall' \in SUBSET Recall,
           \A f \in facts' : f \in facts \/ (turn[f.turn].reply = f.reply /\ f.reply # NoReply),
           flights' \in SUBSET Flight, restarts' \in 0..MaxRestarts,
           UNCHANGED <<head, shown>>
    PROVE  ChatInv' /\ AcceptedStep /\ RemindedStep
<1> USE DEF ChatInv, ChatTypeOK
<1>1. \A f \in facts' : f.turn \in Turn
    BY DEF Fact
<1>2. ChatTypeOK'
    BY DEF SameReplies, JobsOK, Jobs
<1>3. ReplyIsLatest'
    BY DEF SameReplies, ReplyIsLatest
<1>4. FactsRestOnReplies'
    BY <1>1 DEF SameReplies, FactsRestOnReplies
<1>5. (jobs.batch = NoBatch \/ jobs.batch.reply # NoReply)'
    BY DEF JobsOK
<1>6. AcceptedStep /\ RemindedStep
    BY DEF SameReplies, AcceptedStep, RemindedStep
<1> QED BY <1>2, <1>3, <1>4, <1>5, <1>6

LEMMA SendStep ==
    ASSUME ChatInv, Send PROVE ChatInv' /\ AcceptedStep /\ RemindedStep
<1> USE DEF ChatInv, ChatTypeOK
<1>1. head' \in Turn /\ head' = head + 1 /\ head < MaxTurn
    BY ChatAssumption DEF Send, Turn
<1>2. ASSUME NEW t \in Turn
      PROVE  /\ turn'[t] \in TurnRow /\ turn'[t].reply = turn[t].reply
             /\ turn'[t].count = turn[t].count /\ turn'[t].receipt = turn[t].receipt
    <2> DEFINE r == turn[t]
    <2>1. r \in TurnRow
        OBVIOUS
    <2>2. turn'[t] = [r EXCEPT !.known = TRUE] \/ turn'[t] = [r EXCEPT !.settled = TRUE]
             \/ turn'[t] = r
        BY DEF Send
    <2> HIDE DEF r
    <2>3. \A b \in BOOLEAN :
            /\ [r EXCEPT !.known = b] \in TurnRow /\ [r EXCEPT !.settled = b] \in TurnRow
            /\ [r EXCEPT !.known = b].reply = r.reply /\ [r EXCEPT !.settled = b].reply = r.reply
            /\ [r EXCEPT !.known = b].count = r.count /\ [r EXCEPT !.settled = b].count = r.count
            /\ [r EXCEPT !.known = b].receipt = r.receipt
            /\ [r EXCEPT !.settled = b].receipt = r.receipt
        BY <2>1 DEF TurnRow
    <2> QED BY <2>1, <2>2, <2>3 DEF r
<1>3. turn' \in [Turn -> TurnRow]
    BY <1>2 DEF Send
<1>4. [turn |-> head + 1, count |-> 0] \in Flight
    BY <1>1, ChatAssumption DEF Flight, Count
<1>5. UNCHANGED <<facts, recall, jobs, restarts>>
    BY DEF Send
<1>6. shown' \in SUBSET facts'
    BY <1>5 DEF Send, Reminders, Readable
<1>7. ChatTypeOK'
    BY <1>1, <1>3, <1>4, <1>5, <1>6 DEF Send
<1>8. ReplyIsLatest'
    BY <1>2 DEF ReplyIsLatest
<1>9. FactsRestOnReplies'
    BY <1>2, <1>5 DEF FactsRestOnReplies, Fact
<1>10. AcceptedStep /\ RemindedStep
    BY <1>2, <1>6 DEF AcceptedStep, RemindedStep
<1> QED BY <1>5, <1>7, <1>8, <1>9, <1>10

\* A regenerate takes the reply back and everything that came of it.
LEMMA SwipeStep ==
    ASSUME ChatInv, Swipe PROVE ChatInv' /\ AcceptedStep /\ RemindedStep
<1> USE DEF ChatInv, ChatTypeOK
<1> DEFINE id == turn[head].reply
           r  == turn[head]
           q  == [Retracted(r) EXCEPT !.count = @ + 1]
<1>1. head \in Turn /\ r \in TurnRow /\ r.count < MaxSwipes /\ r.receipt = r.reply
    BY DEF Swipe, ReplyIsLatest
<1>2. /\ q \in TurnRow /\ q.reply = NoReply /\ q.receipt = NoReply
      /\ q.count = r.count + 1
    <2> HIDE DEF r
    <2>1. /\ Retracted(r) \in TurnRow /\ Retracted(r).reply = NoReply
          /\ Retracted(r).receipt = NoReply /\ Retracted(r).count = r.count
        BY <1>1, NoReplyIsReply DEF Retracted, TurnRow
    <2>2. r.count + 1 \in Count
        BY <1>1, ChatAssumption DEF TurnRow, Count
    <2> DEFINE s == Retracted(r)
    <2> HIDE DEF s
    <2>3. [s EXCEPT !.count = @ + 1] \in TurnRow /\ [s EXCEPT !.count = @ + 1].reply = NoReply
          /\ [s EXCEPT !.count = @ + 1].receipt = NoReply
          /\ [s EXCEPT !.count = @ + 1].count = r.count + 1
        BY <2>1, <2>2 DEF TurnRow, s
    <2> QED BY <2>3 DEF s
<1>3. turn' = [turn EXCEPT ![head] = q]
    BY DEF Swipe
<1> HIDE DEF q
<1>4. turn' \in [Turn -> TurnRow] /\ turn'[head] = q /\ \A t \in Turn \ {head} : turn'[t] = turn[t]
    BY <1>1, <1>2, <1>3
<1>5. facts' \in SUBSET facts /\ \A f \in facts' : f.turn # head
    BY DEF Swipe, Abandoned, FactsRestOnReplies
<1>6. recall' \in SUBSET recall
    BY DEF Swipe
<1>7. [turn |-> head, count |-> turn[head].count + 1] \in Flight
    BY <1>1, <1>2 DEF Flight, TurnRow
<1>8. shown' \in SUBSET facts'
    BY DEF Swipe, Reminders, Readable
<1>9. UNCHANGED <<head, jobs, restarts>>
    BY DEF Swipe
<1>10. ChatTypeOK'
    BY <1>4, <1>5, <1>6, <1>7, <1>8, <1>9 DEF Swipe
<1>11. ReplyIsLatest'
    BY <1>2, <1>4 DEF ReplyIsLatest
<1>12. FactsRestOnReplies'
    BY <1>4, <1>5 DEF FactsRestOnReplies, Fact
<1>13. AcceptedStep /\ RemindedStep
    BY <1>2, <1>4, <1>5, <1>8 DEF AcceptedStep, RemindedStep
<1> QED BY <1>9, <1>10, <1>11, <1>12, <1>13

\* An answer becomes the reply only of a turn that has none, and only for its latest attempt.
LEMMA AnswerStep ==
    ASSUME ChatInv, NEW f \in flights, NEW x \in Texts, NEW recognised \in BOOLEAN,
           Answer(f, x, recognised)
    PROVE  ChatInv' /\ AcceptedStep /\ RemindedStep
<1>1. /\ f \in Flight /\ turn \in [Turn -> TurnRow] /\ turn[f.turn] \in TurnRow
      /\ f.turn \in Turn
    BY DEF ChatInv, ChatTypeOK, Flight
<1>2. CASE ~ Publishable(turn[f.turn], f)
    <2>1. /\ UNCHANGED <<turn, facts, jobs, head, recall, shown, restarts>>
          /\ flights' \in SUBSET flights
        BY <1>2 DEF Answer
    <2>2. SameReplies(turn, turn') /\ JobsOK(jobs')
        BY <1>1, <2>1, JobsAreOK DEF SameReplies
    <2> QED BY <2>1, <2>2, QuietSteps DEF ChatInv, ChatTypeOK
<1>3. CASE Publishable(turn[f.turn], f)
    <2> DEFINE id   == [count |-> f.count, text |-> x]
               r    == turn[f.turn]
               q    == Published(r, id)
               kept == [turn EXCEPT ![f.turn] = q]
               next == IF LiveRecalc /\ f.turn > 0 THEN SettledHead(kept) ELSE kept
    <2>1. id \in Reply /\ id # NoReply /\ id.count = r.count
        BY <1>1, <1>3, ChatAssumption DEF Publishable, Reply, NoReply, Flight
    <2>2. r.reply = NoReply /\ r.receipt = NoReply /\ r \in TurnRow
        BY <1>1, <1>3 DEF Publishable, ChatInv, ReplyIsLatest
    <2>3. /\ turn' = next /\ jobs' = Notified(next, jobs)
          /\ facts' = (IF recognised THEN facts \cup {[turn |-> f.turn, reply |-> id, cold |-> FALSE]}
                       ELSE facts)
          /\ UNCHANGED <<head, recall, shown, restarts>> /\ flights' \in SUBSET flights
        BY <1>3 DEF Answer
    <2> HIDE DEF id, r
    <2>4. q \in TurnRow /\ q.reply = id /\ q.receipt = id /\ q.count = r.count
        BY <2>1, <2>2 DEF Published, TurnRow
    <2> HIDE DEF q
    <2>5. kept \in [Turn -> TurnRow] /\ kept[f.turn] = q
          /\ \A t \in Turn \ {f.turn} : kept[t] = turn[t]
        BY <1>1, <2>4
    <2> HIDE DEF kept
    <2>6. SameReplies(kept, next)
        BY <2>5, SettlingStays DEF SameReplies
    <2> HIDE DEF next
    <2>7. /\ turn' \in [Turn -> TurnRow] /\ turn'[f.turn].reply = id
          /\ turn'[f.turn].receipt = id /\ turn'[f.turn].count = id.count
          /\ \A t \in Turn \ {f.turn} :
                turn'[t].reply = turn[t].reply /\ turn'[t].receipt = turn[t].receipt
                /\ turn'[t].count = turn[t].count
        BY <1>1, <2>1, <2>3, <2>4, <2>5, <2>6 DEF SameReplies
    <2>8. JobsOK(jobs')
        BY <2>3, <2>7, JobsAreOK, RunnerHolds
    <2>9. /\ facts' \in SUBSET Fact
          /\ \A g \in facts' : g \in facts \/ (g.turn = f.turn /\ g.reply = id)
        <3> DEFINE fact == [turn |-> f.turn, reply |-> id, cold |-> FALSE]
        <3>1. fact \in Fact /\ fact.turn = f.turn /\ fact.reply = id
            BY <1>1, <2>1 DEF Fact
        <3>2. facts' \in SUBSET (facts \cup {fact})
            BY <2>3
        <3>3. facts \in SUBSET Fact
            BY DEF ChatInv, ChatTypeOK
        <3> HIDE DEF fact
        <3> QED BY <3>1, <3>2, <3>3
    <2>10. ChatTypeOK'
        BY <2>3, <2>7, <2>8, <2>9 DEF ChatInv, ChatTypeOK, JobsOK, Jobs
    <2>11. ReplyIsLatest'
        BY <2>7 DEF ReplyIsLatest, ChatInv
    <2>12. \A g \in facts : g.turn \in Turn \ {f.turn}
        BY <2>2 DEF ChatInv, ChatTypeOK, FactsRestOnReplies, Fact, r
    <2>13. FactsRestOnReplies'
        BY <2>1, <2>7, <2>9, <2>12 DEF FactsRestOnReplies, ChatInv
    <2>14. AcceptedStep /\ RemindedStep
        BY <2>2, <2>3, <2>7 DEF AcceptedStep, RemindedStep, r
    <2> QED BY <2>8, <2>10, <2>11, <2>13, <2>14 DEF ChatInv, JobsOK
<1> QED BY <1>2, <1>3

\* Requests again, answers that never come, and the runner.
LEMMA OtherChatSteps ==
    ASSUME ChatInv,
           \/ \E f \in flights : Lost(f)
           \/ head \in Turn /\ \E f \in {[turn |-> head, count |-> turn[head].count]} : Resend(f)
           \/ TimerFires \/ Ask \/ Discard \/ Restart
           \/ \E transient \in BOOLEAN : Fail(transient)
           \/ \E a \in jobs.retries : Retry(a)
    PROVE  ChatInv' /\ AcceptedStep /\ RemindedStep
<1>1. /\ turn \in [Turn -> TurnRow] /\ JobsOK(jobs) /\ facts \in SUBSET Fact
      /\ recall \in SUBSET Recall /\ flights \in SUBSET Flight /\ restarts \in 0..MaxRestarts
      /\ SameReplies(turn, turn)
    BY JobsAreOK DEF ChatInv, ChatTypeOK, SameReplies
<1>2. UNCHANGED <<head, facts, recall, shown>>
    BY DEF Lost, Resend, TimerFires, Ask, Discard, Restart, Fail, Retry
<1> DEFINE Goal == /\ SameReplies(turn, turn') /\ JobsOK(jobs')
                   /\ flights' \in SUBSET Flight /\ restarts' \in 0..MaxRestarts
<1>3. SUFFICES Goal
    BY <1>1, <1>2, QuietSteps
<1>4. ASSUME NEW f \in flights, Lost(f) PROVE Goal
    BY <1>1, <1>4 DEF Lost
<1>5. ASSUME head \in Turn, NEW f \in {[turn |-> head, count |-> turn[head].count]}, Resend(f)
      PROVE  Goal
    <2>1. f \in Flight
        BY <1>1, <1>5 DEF Flight, TurnRow
    <2> QED BY <1>1, <1>5, <2>1 DEF Resend
<1>6. CASE TimerFires
    <2>1. SameReplies(turn, SettledHead(turn))
        BY <1>1, SettlingStays
    <2>2. JobsOK(Flushed(SettledHead(turn), jobs))
        BY <1>1, <2>1, RunnerHolds DEF SameReplies
    <2> QED BY <1>1, <1>6, <2>1, <2>2 DEF TimerFires
<1>7. CASE Ask
    <2>1. JobsOK([jobs EXCEPT !.batch.asked = TRUE])
        <3> DEFINE b == [jobs.batch EXCEPT !.asked = TRUE]
        <3>1. jobs.batch \in Batch /\ jobs.batch.reply # NoReply
            BY <1>1, <1>7 DEF Ask, JobsOK, Jobs
        <3>2. b \in Batch /\ b.reply # NoReply
            BY <3>1 DEF Batch
        <3>3. [jobs EXCEPT !.batch.asked = TRUE] = [jobs EXCEPT !.batch = b]
            OBVIOUS
        <3> HIDE DEF b
        <3> QED BY <1>1, <3>2, <3>3 DEF JobsOK, Jobs
    <2>2. JobsOK(Freed(turn, jobs))
        BY <1>1, RunnerHolds
    <2>3. jobs' = [jobs EXCEPT !.batch.asked = TRUE] \/ jobs' = Freed(turn, jobs)
        BY <1>7 DEF Ask
    <2>4. UNCHANGED <<turn, flights, restarts>>
        BY <1>7 DEF Ask
    <2> QED BY <1>1, <2>1, <2>2, <2>3, <2>4
<1>8. CASE Discard
    BY <1>1, <1>8, RunnerHolds DEF Discard
<1>9. CASE Restart
    <2>1. JobsOK(NoJobs)
        BY NoBatchIsBatch, ChatAssumption DEF NoJobs, JobsOK, Jobs
    <2>2. restarts + 1 \in 0..MaxRestarts
        BY <1>1, <1>9, ChatAssumption DEF Restart
    <2> QED BY <1>1, <1>9, <2>1, <2>2, RunnerHolds DEF Restart
<1>10. ASSUME NEW transient \in BOOLEAN, Fail(transient) PROVE Goal
    <2> DEFINE b      == jobs.batch
               failed == [turn EXCEPT ![b.turn].progress = "failed"]
               used   == [jobs EXCEPT !.used[b.turn] = @ + 1]
               later  == [jobs EXCEPT !.used[b.turn] = @ + 1,
                                      !.retries = @ \cup {[turn |-> b.turn, reply |-> b.reply]}]
               zero   == [jobs EXCEPT !.used[b.turn] = 0]
    <2>1. b \in Batch /\ b.turn \in Turn /\ b.reply \in Reply
        BY <1>1 DEF JobsOK, Jobs, Batch
    <2>2. SameReplies(turn, failed) /\ failed \in [Turn -> TurnRow]
        BY <1>1, <2>1, ProgressStays DEF SameReplies
    <2>3. JobsOK(zero)
        <3>1. 0 \in 0..RetryLimit
            BY ChatAssumption
        <3> QED BY <1>1, <2>1, <3>1, UsedHolds
    <2>4. ASSUME MayRetry(jobs.used, b.turn) PROVE JobsOK(later)
        <3> DEFINE n == jobs.used[b.turn] + 1
                   R == used.retries \cup {[turn |-> b.turn, reply |-> b.reply]}
        <3>1. n \in 0..RetryLimit
            BY <1>1, <2>1, <2>4, ChatAssumption DEF MayRetry, JobsOK, Jobs
        <3>2. used = [jobs EXCEPT !.used[b.turn] = n]
            OBVIOUS
        <3>3. JobsOK(used)
            <4> HIDE DEF n, used
            <4> QED BY <1>1, <2>1, <3>1, <3>2, UsedHolds
        <3>4. R \in SUBSET Again
            <4>1. [turn |-> b.turn, reply |-> b.reply] \in Again
                BY <2>1 DEF Again
            <4> HIDE DEF used
            <4> QED BY <3>3, <4>1 DEF JobsOK, Jobs
        <3>5. later = [used EXCEPT !.retries = R]
            <4>1. jobs.retries = used.retries
                BY <1>1 DEF JobsOK, Jobs
            <4> QED BY <4>1
        <3> HIDE DEF used, R, later
        <3> QED BY <3>3, <3>4, <3>5, RetriesHold
    <2>5. \/ jobs' = Freed(failed, later) /\ MayRetry(jobs.used, b.turn)
          \/ jobs' = Freed(failed, zero) \/ jobs' = Freed(failed, jobs)
        BY <1>10 DEF Fail
    <2>6. turn' = failed /\ UNCHANGED <<flights, restarts>>
        BY <1>10 DEF Fail
    <2> HIDE DEF failed, later, zero, b
    <2>7. JobsOK(jobs')
        BY <1>1, <2>2, <2>3, <2>4, <2>5, RunnerHolds
    <2> QED BY <1>1, <2>2, <2>6, <2>7
<1>11. ASSUME NEW a \in jobs.retries, Retry(a) PROVE Goal
    <2> DEFINE open == [turn EXCEPT ![a.turn].progress = "pending"]
               R    == jobs.retries \ {a}
               less == [jobs EXCEPT !.retries = R]
    <2>1. a \in Again /\ a.turn \in Turn /\ R \in SUBSET Again
        BY <1>1 DEF JobsOK, Jobs, Again
    <2>2. SameReplies(turn, open) /\ open \in [Turn -> TurnRow]
        BY <1>1, <2>1, ProgressStays DEF SameReplies
    <2>3. JobsOK(less)
        BY <1>1, <2>1, RetriesHold
    <2>4. \/ turn' = open /\ jobs' = Notified(open, less)
          \/ turn' = turn /\ jobs' = less
        BY <1>11 DEF Retry
    <2>5. UNCHANGED <<flights, restarts>>
        BY <1>11 DEF Retry
    <2> HIDE DEF open, less
    <2> QED BY <1>1, <2>2, <2>3, <2>4, <2>5, RunnerHolds
<1> QED BY <1>4, <1>5, <1>6, <1>7, <1>8, <1>9, <1>10, <1>11

\* A commit adds facts of the reply it was asked about, which is still accepted.
LEMMA ExtractStep ==
    ASSUME ChatInv, NEW refs \in SUBSET (facts \cup {[turn |-> jobs.batch.turn,
                                                      reply |-> jobs.batch.reply, cold |-> TRUE]}),
           Extract(refs)
    PROVE  ChatInv' /\ AcceptedStep /\ RemindedStep
<1> DEFINE b    == jobs.batch
           fact == [turn |-> b.turn, reply |-> b.reply, cold |-> TRUE]
           done == [turn EXCEPT ![b.turn].progress = "done"]
           entry == [for |-> b.turn + 1, turn |-> b.turn, reply |-> b.reply, refs |-> refs]
           zero == [jobs EXCEPT !.used[b.turn] = 0]
<1>1. /\ turn \in [Turn -> TurnRow] /\ JobsOK(jobs) /\ facts \in SUBSET Fact
      /\ recall \in SUBSET Recall /\ flights \in SUBSET Flight /\ restarts \in 0..MaxRestarts
    BY JobsAreOK DEF ChatInv, ChatTypeOK
<1>2. b \in Batch /\ b.turn \in Turn /\ b.reply \in Reply
    BY <1>1 DEF JobsOK, Jobs, Batch
<1>3. /\ turn[b.turn].reply = b.reply /\ b.reply # NoReply
    BY <1>1, NoBatchIsBatch DEF Extract, BatchCurrent, JobsOK
<1>4. fact \in Fact /\ fact.turn = b.turn /\ fact.reply = b.reply
    BY <1>2 DEF Fact
<1>5. facts' = facts \cup {fact} /\ turn' = done /\ jobs' = Freed(done, zero)
      /\ recall' \in SUBSET (recall \cup (IF refs = {} THEN {} ELSE {entry}))
      /\ UNCHANGED <<head, flights, shown, restarts>>
    BY DEF Extract
<1>6. refs \in SUBSET facts'
    BY <1>5
<1> HIDE DEF fact
<1>7. facts' \in SUBSET Fact
    BY <1>1, <1>4, <1>5
<1>8. entry \in Recall
    <2>1. b.turn + 1 \in 1..(MaxTurn + 1)
        BY <1>2, ChatAssumption DEF Turn
    <2> QED BY <1>2, <1>6, <1>7, <2>1 DEF Recall
<1>9. SameReplies(turn, done) /\ done \in [Turn -> TurnRow]
    BY <1>1, <1>2, ProgressStays DEF SameReplies
<1>10. JobsOK(zero)
    <2>1. 0 \in 0..RetryLimit
        BY ChatAssumption
    <2> QED BY <1>1, <1>2, <2>1, UsedHolds
<1> HIDE DEF done, zero, entry, b
<1>11. JobsOK(jobs') /\ SameReplies(turn, turn') /\ recall' \in SUBSET Recall
    BY <1>1, <1>5, <1>8, <1>9, <1>10, RunnerHolds
<1>12. \A f \in facts' : f \in facts \/ (turn[f.turn].reply = f.reply /\ f.reply # NoReply)
    BY <1>3, <1>4, <1>5
<1> QED BY <1>1, <1>5, <1>7, <1>11, <1>12, QuietSteps

LEMMA ChatStep == ChatInv /\ [ChatNext]_chatVars => ChatInv' /\ AcceptedStep /\ RemindedStep
<1> SUFFICES ASSUME ChatInv, [ChatNext]_chatVars PROVE ChatInv' /\ AcceptedStep /\ RemindedStep
    OBVIOUS
<1>1. CASE UNCHANGED chatVars
    <2>1. SameReplies(turn, turn') /\ JobsOK(jobs')
        BY <1>1, JobsAreOK DEF chatVars, SameReplies, ChatInv, ChatTypeOK
    <2> QED BY <1>1, <2>1, QuietSteps DEF chatVars, ChatInv, ChatTypeOK
<1>2. CASE ChatNext
    BY <1>2, SendStep, SwipeStep, AnswerStep, OtherChatSteps, ExtractStep DEF ChatNext
<1> QED BY <1>1, <1>2

LEMMA ChatStart == ChatInit => ChatInv
<1> SUFFICES ASSUME ChatInit PROVE ChatInv
    OBVIOUS
<1>1. NoTurn \in TurnRow /\ NoTurn.reply = NoReply /\ NoTurn.receipt = NoReply
    BY NoReplyIsReply, ChatAssumption DEF NoTurn, TurnRow, Count
<1>2. JobsOK(NoJobs) /\ NoJobs.batch = NoBatch
    BY NoBatchIsBatch, ChatAssumption DEF NoJobs, JobsOK, Jobs
<1>3. ChatTypeOK
    BY <1>1, <1>2, ChatAssumption DEF ChatInit, ChatTypeOK, JobsOK, Jobs
<1>4. ReplyIsLatest /\ FactsRestOnReplies
    BY <1>1 DEF ChatInit, ReplyIsLatest, FactsRestOnReplies
<1> QED BY <1>2, <1>3, <1>4 DEF ChatInit, ChatInv

\* The types, for every bound and every set of texts.
THEOREM ChatIsTyped == ChatSpec => []ChatTypeOK
<1>1. ChatInv => ChatTypeOK
    BY DEF ChatInv
<1> QED BY <1>1, ChatStart, ChatStep, PTL DEF ChatSpec

\* A late answer of an older attempt is never the reply of a turn
\* (publish_chat_response_if_current).
THEOREM LateAnswersAreRefused == ChatSpec => []ReplyIsLatest
<1>1. ChatInv => ReplyIsLatest
    BY DEF ChatInv
<1> QED BY <1>1, ChatStart, ChatStep, PTL DEF ChatSpec

\* Nothing that came of an abandoned reply is left in the ledger
\* (retract_chat_response_at, _batch_candidate_current).
THEOREM NothingOfAbandonedReplies == ChatSpec => []FactsRestOnReplies
<1>1. ChatInv => FactsRestOnReplies
    BY DEF ChatInv
<1> QED BY <1>1, ChatStart, ChatStep, PTL DEF ChatSpec

\* Only a regenerate takes an accepted reply back, with everything that came of it.
THEOREM RepliesAreTakenBackWhole == ChatSpec => AcceptedOnce
<1>1. ChatInv /\ [ChatNext]_chatVars => [AcceptedStep]_chatVars
    BY ChatStep
<1> QED BY <1>1, ChatStart, ChatStep, PTL DEF ChatSpec, AcceptedOnce, AcceptedStep

\* No request is reminded of something that rests on an abandoned reply (read_recall).
THEOREM RemindersRestOnReplies == ChatSpec => RemindersAreCurrent
<1>1. ChatInv /\ [ChatNext]_chatVars => [RemindedStep]_chatVars
    BY ChatStep
<1> QED BY <1>1, ChatStart, ChatStep, PTL DEF ChatSpec, RemindersAreCurrent, RemindedStep

-----------------------------------------------------------------------------
(* GenesisClaims: rows *)

\* The row r of a session becomes q: a claim on q with a generation of r is one on r.
Grows(r, q) ==
    /\ q \in Row /\ q.epoch >= r.epoch
    /\ q.stage = "llm" /\ q.epoch <= r.epoch => r.stage = "llm"

LEMMA SupersededRow ==
    ASSUME NEW r \in Row, NEW s \in Stage
    PROVE  /\ Superseded(r, s) \in Row /\ Superseded(r, s).stage = s
           /\ Superseded(r, s).epoch = r.epoch + 1 /\ r.epoch \in Nat
<1> DEFINE q == [r EXCEPT !.stage = s]
<1>1. q \in Row /\ q.stage = s /\ q.epoch = r.epoch /\ r.epoch \in Nat
    BY DEF Row
<1>2. Superseded(r, s) = [q EXCEPT !.epoch = q.epoch + 1]
    BY <1>1 DEF Superseded, Row
<1> HIDE DEF q
<1>3. Superseded(r, s) \in Row /\ Superseded(r, s).stage = q.stage
      /\ Superseded(r, s).epoch = q.epoch + 1
    BY <1>1, <1>2 DEF Row
<1> QED BY <1>1, <1>3

Staged(r, s) == [r EXCEPT !.stage = s]

LEMMA StageRow ==
    ASSUME NEW r \in Row, NEW s \in Stage
    PROVE  /\ Staged(r, s) \in Row /\ Staged(r, s).stage = s
           /\ Staged(r, s).epoch = r.epoch /\ r.epoch \in Nat
BY DEF Staged, Row

LEMMA RowGrows == ASSUME NEW r \in Row PROVE Grows(r, r) /\ r.epoch \in Nat /\ r.stage \in Stage
BY DEF Grows, Row

LEMMA StageGrows ==
    ASSUME NEW r \in Row, NEW s \in Stage \ {"llm"}
    PROVE  Grows(r, Staged(r, s))
BY StageRow DEF Grows

LEMMA SeededRow ==
    ASSUME NEW r \in Row, NEW card \in BOOLEAN, NEW a \in Seeded(r, card)
    PROVE  /\ a \in Row /\ Grows(r, a) /\ a.epoch = r.epoch
           /\ r.stage # "" => a = r
<1>1. a = r \/ (r.stage = "" /\ (a = Staged(r, "rules") \/ a = Staged(r, "skipped")))
    BY DEF Seeded, Staged
<1>2. "rules" \in Stage \ {"llm"} /\ "skipped" \in Stage \ {"llm"}
    BY DEF Stage
<1>3. \A s \in {"rules", "skipped"} :
        Staged(r, s) \in Row /\ Grows(r, Staged(r, s)) /\ Staged(r, s).epoch = r.epoch
    BY <1>2, StageRow, StageGrows
<1>4. Grows(r, r)
    BY RowGrows
<1> QED BY <1>1, <1>3, <1>4

LEMMA SupersededGrows ==
    ASSUME NEW r \in Row, NEW s \in Stage PROVE Grows(r, Superseded(r, s))
<1>1. /\ Superseded(r, s) \in Row /\ Superseded(r, s).epoch = r.epoch + 1 /\ r.epoch \in Nat
    BY SupersededRow
<1> QED BY <1>1 DEF Grows

LEMMA LaterStill ==
    \A i, j, k, l \in Nat : j >= i /\ k >= j /\ l >= k /\ (j > i \/ l > k) => l > i
OBVIOUS

LEMMA SupersededLater ==
    ASSUME NEW r \in Row, NEW s \in Stage PROVE Superseded(r, s).epoch > r.epoch
<1>1. Superseded(r, s).epoch = r.epoch + 1 /\ r.epoch \in Nat
    BY SupersededRow
<1> QED BY <1>1

LEMMA GrowsOn ==
    ASSUME NEW r \in Row, NEW p \in Row, NEW q, Grows(r, p), Grows(p, q) PROVE Grows(r, q)
<1>1. r.epoch \in Nat /\ p.epoch \in Nat /\ q.epoch \in Nat
    BY RowGrows DEF Grows
<1> QED BY <1>1 DEF Grows

\* What ChatOpens makes of a row: Stage A makes it a, and then it stays, or is done.
Opened(a) == {a, Superseded(a, "done"), Staged(a, "done")}

LEMMA OpenedRow ==
    ASSUME NEW r \in Row, NEW start, start = r \/ start = Superseded(r, ""),
           NEW card \in BOOLEAN, NEW a \in Seeded(start, card), NEW q \in Opened(a)
    PROVE  /\ Grows(r, q)
           /\ start = r /\ r.stage = "done" => q.stage = "done"
           /\ q = Superseded(a, "done") => q.stage = "done" /\ q.epoch > r.epoch
           /\ start = Superseded(r, "") => q.epoch > r.epoch
<1>1. "" \in Stage /\ "done" \in Stage \ {"llm"} /\ "done" \in Stage
    BY DEF Stage
<1>2. start \in Row /\ Grows(r, start)
    <2>1. Superseded(r, "") \in Row /\ Grows(r, Superseded(r, ""))
        BY <1>1, SupersededRow, SupersededGrows
    <2>2. Grows(r, r)
        BY RowGrows
    <2> QED BY <2>1, <2>2
<1>3. /\ a \in Row /\ Grows(start, a)
      /\ start.stage # "" => a = start
    BY <1>2, SeededRow
<1>4. Grows(r, a)
    BY <1>2, <1>3, GrowsOn
<1>5. /\ Grows(a, q)
      /\ q = Superseded(a, "done") \/ a.stage = "done" => q.stage = "done"
    <2>1. /\ Grows(a, Superseded(a, "done")) /\ Superseded(a, "done").stage = "done"
          /\ Grows(a, Staged(a, "done")) /\ Staged(a, "done").stage = "done"
          /\ Grows(a, a)
        BY <1>1, <1>3, SupersededRow, SupersededGrows, StageRow, StageGrows, RowGrows
    <2> QED BY <2>1 DEF Opened
<1>6. Grows(r, q)
    BY <1>3, <1>4, <1>5, GrowsOn
<1>7. start = r /\ r.stage = "done" => a.stage = "done"
    BY <1>3
<1>8. q = Superseded(a, "done") \/ start = Superseded(r, "") => q.epoch > r.epoch
    <2>0. r.epoch \in Nat /\ start.epoch \in Nat /\ a.epoch \in Nat
        BY <1>2, <1>3, RowGrows
    <2>1. start.epoch >= r.epoch /\ a.epoch >= start.epoch /\ q.epoch >= a.epoch /\ q.epoch \in Nat
        <3>1. q \in Row
            BY <1>5 DEF Grows
        <3> QED BY <1>2, <1>3, <1>5, <3>1, RowGrows DEF Grows
    <2>2. CASE start = Superseded(r, "")
        <3>1. Superseded(r, "").epoch > r.epoch
            BY <1>1, SupersededLater
        <3> QED BY <2>0, <2>1, <2>2, <3>1, LaterStill
    <2>3. CASE q = Superseded(a, "done")
        <3>1. Superseded(a, "done").epoch > a.epoch
            BY <1>1, <1>3, SupersededLater
        <3> QED BY <2>0, <2>1, <2>3, <3>1, LaterStill
    <2> QED BY <2>2, <2>3
<1> QED BY <1>5, <1>6, <1>7, <1>8

-----------------------------------------------------------------------------
(* GenesisClaims: the invariant *)

Claims(w) == worker[w].at \in {"resolve", "chat"}

\* A claim is of a generation the session has had, and the claim that owns it is fresh.
ClaimOK(w) ==
    /\ worker[w].at # "idle" => worker[w].of \in born
    /\ Claims(w) =>
        /\ worker[w].claim \in Nat /\ worker[w].claim <= session[worker[w].of].epoch
        /\ Owns(session[worker[w].of], worker[w]) => w \in fresh

\* No two workers claim the same generation of a session.
Distinct ==
    \A v, w \in Workers :
        v # w /\ Claims(v) /\ Claims(w) /\ worker[v].of = worker[w].of
        => worker[v].claim # worker[w].claim

\* What was published made the session done, and an exact seed did so without a model.
SeedOK(s) ==
    /\ published[s] \in {0, 1}
    /\ published[s] = 1 => session[s].stage = "done"
    /\ s \in exact => s \in born /\ session[s].stage = "done" /\ published[s] = 0
    /\ streaming[s] # Nobody => s \in born

GenesisInv ==
    /\ GenesisTypeOK
    /\ \A w \in Workers : ClaimOK(w)
    /\ Distinct
    /\ \A s \in Sessions : SeedOK(s)

\* The step of OnlyCurrentPublishes.
PublishStep ==
    \A s \in Sessions : published'[s] > published[s] /\ s \in born =>
        \E w \in fresh : worker[w].of = s /\ worker[w].branch = session[s].active

\* The claims survive when rows grow, workers end or go on, and only the overtaken lose their
\* freshness.
LEMMA ClaimsHold ==
    ASSUME GenesisInv, GenesisTypeOK', born \in SUBSET born',
           \A s \in born : Grows(session[s], session'[s]),
           \A w \in Workers :
              \/ worker'[w] = worker[w]
              \/ worker'[w].at = "idle"
              \/ worker'[w].at = "queued" /\ worker'[w].of \in born'
              \/ /\ Claims(w) /\ worker'[w].at = "chat"
                 /\ worker'[w].of = worker[w].of /\ worker'[w].claim = worker[w].claim,
           \A w \in Workers :
              w \in fresh /\ worker'[w].at \in {"resolve", "chat"}
                 => w \in fresh' \/ session'[worker[w].of].epoch > session[worker[w].of].epoch
    PROVE  (\A w \in Workers : ClaimOK(w)') /\ Distinct'
<1>1. ASSUME NEW w \in Workers, worker'[w].at \in {"resolve", "chat"}
      PROVE  /\ Claims(w) /\ worker'[w].of = worker[w].of /\ worker'[w].claim = worker[w].claim
             /\ worker[w].of \in born
    BY <1>1 DEF Claims, GenesisInv, ClaimOK
<1>2. ASSUME NEW w \in Workers PROVE ClaimOK(w)'
    <2>1. ASSUME worker'[w].at # "idle" PROVE worker'[w].of \in born'
        BY <2>1 DEF GenesisInv, ClaimOK, Claims
    <2>2. ASSUME worker'[w].at \in {"resolve", "chat"}
          PROVE  /\ worker'[w].claim \in Nat
                 /\ worker'[w].claim <= session'[worker'[w].of].epoch
                 /\ Owns(session'[worker'[w].of], worker'[w]) => w \in fresh'
        <3> DEFINE o == worker[w].of
                   k == worker[w].claim
        <3>1. /\ Claims(w) /\ worker'[w].of = o /\ worker'[w].claim = k /\ o \in born
            BY <1>1, <2>2
        <3>2. /\ k \in Nat /\ k <= session[o].epoch
              /\ Owns(session[o], worker[w]) => w \in fresh
            BY <3>1 DEF GenesisInv, ClaimOK
        <3>3. /\ session[o] \in Row /\ Grows(session[o], session'[o])
            BY <3>1 DEF GenesisInv, GenesisTypeOK
        <3>4. /\ session[o].epoch \in Nat /\ session'[o].epoch \in Nat
              /\ session'[o].epoch >= session[o].epoch
            BY <3>3, RowGrows DEF Grows
        <3>5. ASSUME Owns(session'[o], worker'[w]) PROVE w \in fresh'
            <4>1. session'[o].stage = "llm" /\ session'[o].epoch = k
                BY <3>1, <3>5 DEF Owns
            <4>2. session'[o].epoch = session[o].epoch /\ session[o].stage = "llm"
                BY <3>2, <3>3, <3>4, <4>1 DEF Grows
            <4>3. w \in fresh
                BY <3>2, <4>1, <4>2 DEF Owns
            <4> QED BY <2>2, <3>4, <4>2, <4>3
        <3> QED BY <3>1, <3>2, <3>4, <3>5
    <2> QED BY <2>1, <2>2 DEF ClaimOK, Claims
<1>3. Distinct'
    BY <1>1 DEF Distinct, Claims, GenesisInv
<1> QED BY <1>2, <1>3

\* A task is scheduled for the session s.
LEMMA Scheduling ==
    ASSUME GenesisInv, NEW s \in born, NEW b \in Nat, Schedule(s, b)
    PROVE  /\ worker' \in [Workers -> [at : Where, of : Sessions \cup {Nobody},
                                        branch : Nat, claim : Nat \cup {Nobody}]]
           /\ \A w \in Workers : \/ worker'[w] = worker[w]
                                 \/ worker'[w].at = "queued" /\ worker'[w].of \in born
<1> DEFINE t == [at |-> "queued", of |-> s, branch |-> b, claim |-> Nobody]
<1>1. /\ t.at = "queued" /\ t.of = s
      /\ t \in [at : Where, of : Sessions \cup {Nobody}, branch : Nat, claim : Nat \cup {Nobody}]
    BY DEF GenesisInv, GenesisTypeOK, Where
<1>2. PICK v \in Workers : worker' = [worker EXCEPT ![v] = t]
    BY DEF Schedule
<1> HIDE DEF t
<1> QED BY <1>1, <1>2 DEF GenesisInv, GenesisTypeOK

\* The row of s becomes q, which makes nothing undone; workers at most start.
LEMMA RowStep ==
    ASSUME GenesisInv, NEW s \in born, NEW q, session' = [session EXCEPT ![s] = q],
           Grows(session[s], q), session[s].stage = "done" => q.stage = "done",
           worker' \in [Workers -> [at : Where, of : Sessions \cup {Nobody},
                                     branch : Nat, claim : Nat \cup {Nobody}]],
           \A w \in Workers : \/ worker'[w] = worker[w]
                              \/ worker'[w].at = "queued" /\ worker'[w].of \in born,
           streaming' \in [Sessions -> Nat \cup {Nobody}],
           \A x \in Sessions : streaming'[x] # Nobody => x \in born,
           UNCHANGED <<born, exact, fresh, published>>
    PROVE  GenesisInv' /\ PublishStep
<1> USE DEF GenesisInv
<1>1. /\ s \in Sessions /\ q \in Row /\ session \in [Sessions -> Row]
    BY DEF GenesisTypeOK, Grows
<1>2. GenesisTypeOK'
    BY <1>1 DEF GenesisTypeOK
<1>3. \A x \in Sessions : session'[x] = IF x = s THEN q ELSE session[x]
    BY <1>1
<1>4. \A x \in born : Grows(session[x], session'[x])
    BY <1>1, <1>3, RowGrows DEF GenesisTypeOK
<1>5. (\A w \in Workers : ClaimOK(w)') /\ Distinct'
    BY <1>2, <1>4, ClaimsHold
<1>6. \A x \in Sessions : SeedOK(x)'
    BY <1>3 DEF SeedOK
<1>7. PublishStep
    BY DEF PublishStep, GenesisTypeOK
<1> QED BY <1>2, <1>5, <1>6, <1>7

\* A decision: the row of s becomes q, of a newer generation, and nothing counts as published.
LEMMA DecisionStep ==
    ASSUME GenesisInv, NEW s \in born, NEW q, session' = [session EXCEPT ![s] = q],
           Grows(session[s], q), q.epoch > session[s].epoch,
           \/ exact' = exact \cup {s} /\ q.stage = "done"
           \/ exact' = exact \ {s},
           Overtake(s), published' = [published EXCEPT ![s] = 0],
           worker' \in [Workers -> [at : Where, of : Sessions \cup {Nobody},
                                     branch : Nat, claim : Nat \cup {Nobody}]],
           \A w \in Workers : \/ worker'[w] = worker[w]
                              \/ worker'[w].at = "queued" /\ worker'[w].of \in born,
           UNCHANGED <<born, streaming>>
    PROVE  GenesisInv' /\ PublishStep
<1> USE DEF GenesisInv
<1>1. /\ s \in Sessions /\ q \in Row /\ session \in [Sessions -> Row]
      /\ published \in [Sessions -> Nat]
    BY DEF GenesisTypeOK, Grows
<1>2. GenesisTypeOK'
    BY <1>1 DEF GenesisTypeOK, Overtake
<1>3. \A x \in Sessions : /\ session'[x] = IF x = s THEN q ELSE session[x]
                          /\ published'[x] = IF x = s THEN 0 ELSE published[x]
    BY <1>1
<1>4. \A x \in born : Grows(session[x], session'[x])
    BY <1>1, <1>3, RowGrows DEF GenesisTypeOK
<1>5. \A w \in Workers : w \in fresh
        => w \in fresh' \/ session'[worker[w].of].epoch > session[worker[w].of].epoch
    BY <1>1, <1>3 DEF Overtake
<1>6. (\A w \in Workers : ClaimOK(w)') /\ Distinct'
    BY <1>2, <1>4, <1>5, ClaimsHold
<1>7. \A x \in Sessions : SeedOK(x)'
    BY <1>3 DEF SeedOK
<1>8. PublishStep
    BY <1>3 DEF PublishStep, SeedOK
<1> QED BY <1>2, <1>6, <1>7, <1>8

LEMMA OpeningStep ==
    ASSUME GenesisInv, NEW s \in Sessions, NEW card \in BOOLEAN, NEW force \in BOOLEAN,
           NEW seed \in BOOLEAN, NEW off \in BOOLEAN, ChatOpens(s, card, force, seed, off)
    PROVE  GenesisInv' /\ PublishStep
<1> DEFINE r      == session[s]
           forced == force /\ r.stage # ""
           start  == IF forced THEN Superseded(r, "") ELSE r
<1>1. /\ s \in born /\ r \in Row /\ UNCHANGED <<born, streaming>>
      /\ r.active \in Nat
    BY DEF ChatOpens, GenesisInv, GenesisTypeOK, Row
<1>2. PICK a \in Seeded(start, card) :
        session' = [session EXCEPT ![s] =
            IF seed THEN Superseded(a, "done")
            ELSE IF off /\ a.stage = "rules" THEN [a EXCEPT !.stage = "done"] ELSE a]
    BY DEF ChatOpens
<1> DEFINE q == IF seed THEN Superseded(a, "done")
                ELSE IF off /\ a.stage = "rules" THEN Staged(a, "done") ELSE a
<1>3. start = r \/ start = Superseded(r, "")
    OBVIOUS
<1>4. /\ IF forced THEN start = Superseded(r, "") ELSE start = r
      /\ q \in Opened(a) /\ session' = [session EXCEPT ![s] = q]
      /\ seed => q = Superseded(a, "done")
    BY <1>2 DEF Opened, Staged
<1> HIDE DEF start, q
<1>5. /\ Grows(r, q)
      /\ start = r /\ r.stage = "done" => q.stage = "done"
      /\ q = Superseded(a, "done") => q.stage = "done" /\ q.epoch > r.epoch
      /\ start = Superseded(r, "") => q.epoch > r.epoch
    <2> HIDE DEF r
    <2> QED BY <1>1, <1>2, <1>3, <1>4, OpenedRow
<1>6. /\ worker' \in [Workers -> [at : Where, of : Sessions \cup {Nobody},
                                   branch : Nat, claim : Nat \cup {Nobody}]]
      /\ \A w \in Workers : \/ worker'[w] = worker[w]
                            \/ worker'[w].at = "queued" /\ worker'[w].of \in born
    <2>1. UNCHANGED worker \/ Schedule(s, r.active)
        BY DEF ChatOpens
    <2>2. CASE UNCHANGED worker
        BY <2>2 DEF GenesisInv, GenesisTypeOK
    <2> QED BY <1>1, <2>1, <2>2, Scheduling
<1>7. CASE seed \/ forced
    <2>1. /\ Overtake(s) /\ published' = [published EXCEPT ![s] = 0]
          /\ exact' = (IF seed THEN exact \cup {s} ELSE exact \ {s})
        BY <1>7 DEF ChatOpens
    <2>2. q.epoch > r.epoch
        BY <1>4, <1>5, <1>7
    <2> HIDE DEF forced
    <2> QED BY <1>1, <1>4, <1>5, <1>6, <2>1, <2>2, DecisionStep
<1>8. CASE ~ seed /\ ~ forced
    <2>1. UNCHANGED <<fresh, published, exact>>
        BY <1>8 DEF ChatOpens
    <2>2. r.stage = "done" => q.stage = "done"
        BY <1>4, <1>5, <1>8
    <2>3. /\ streaming' \in [Sessions -> Nat \cup {Nobody}]
          /\ \A x \in Sessions : streaming'[x] # Nobody => x \in born
        BY <1>1 DEF GenesisInv, GenesisTypeOK, SeedOK
    <2> QED BY <1>1, <1>4, <1>5, <1>6, <2>1, <2>2, <2>3, RowStep
<1> QED BY <1>7, <1>8

LEMMA FirstTurnStep ==
    ASSUME GenesisInv, NEW s \in Sessions, NEW card \in BOOLEAN, FirstTurn(s, card)
    PROVE  GenesisInv' /\ PublishStep
<1>1. /\ s \in born /\ session[s] \in Row /\ session[s].active \in Nat
      /\ UNCHANGED <<born, worker, exact, fresh, published>>
    BY DEF FirstTurn, GenesisInv, GenesisTypeOK, Row
<1>2. PICK a \in Seeded(session[s], card) : session' = [session EXCEPT ![s] = a]
    BY DEF FirstTurn
<1>3. Grows(session[s], a) /\ (session[s].stage = "done" => a.stage = "done")
    BY <1>1, SeededRow
<1>4. /\ streaming' \in [Sessions -> Nat \cup {Nobody}]
      /\ \A x \in Sessions : streaming'[x] # Nobody => x \in born
    BY <1>1 DEF FirstTurn, GenesisInv, GenesisTypeOK, SeedOK
<1>5. worker' \in [Workers -> [at : Where, of : Sessions \cup {Nobody},
                               branch : Nat, claim : Nat \cup {Nobody}]]
    BY <1>1 DEF GenesisInv, GenesisTypeOK
<1> QED BY <1>1, <1>2, <1>3, <1>4, <1>5, RowStep

LEMMA FirstReplyStep ==
    ASSUME GenesisInv, NEW s \in Sessions, NEW off \in BOOLEAN, FirstReply(s, off)
    PROVE  GenesisInv' /\ PublishStep
<1> DEFINE r == session[s]
           q == IF off /\ r.stage = "rules" THEN Staged(r, "done") ELSE r
<1>1. /\ s \in born /\ r \in Row /\ streaming[s] \in Nat
      /\ session \in [Sessions -> Row] /\ UNCHANGED <<born, exact, fresh, published>>
    BY DEF FirstReply, GenesisInv, GenesisTypeOK, SeedOK
<1>2. session' = [session EXCEPT ![s] = q]
    <2>1. CASE off
        <3>1. session' = [session EXCEPT ![s].stage = IF @ = "rules" THEN "done" ELSE @]
            BY <2>1 DEF FirstReply
        <3>2. session' = [session EXCEPT ![s] = [r EXCEPT !.stage = IF @ = "rules" THEN "done" ELSE @]]
            BY <3>1
        <3>3. [r EXCEPT !.stage = IF @ = "rules" THEN "done" ELSE @] = q
            BY <1>1, <2>1 DEF Staged, Row
        <3> QED BY <3>2, <3>3
    <2>2. CASE ~ off
        <3>1. session' = session /\ q = r
            BY <2>2 DEF FirstReply
        <3> QED BY <1>1, <3>1
    <2> QED BY <2>1, <2>2
<1>3. Grows(r, q) /\ (r.stage = "done" => q.stage = "done")
    <2>1. "done" \in Stage \ {"llm"} /\ "done" \in Stage
        BY DEF Stage
    <2>2. Grows(r, r) /\ Grows(r, Staged(r, "done"))
        BY <1>1, <2>1, RowGrows, StageGrows
    <2> QED BY <2>2
<1>4. /\ streaming' \in [Sessions -> Nat \cup {Nobody}]
      /\ \A x \in Sessions : streaming'[x] # Nobody => x \in born
    BY DEF FirstReply, GenesisInv, GenesisTypeOK, SeedOK
<1>5. /\ worker' \in [Workers -> [at : Where, of : Sessions \cup {Nobody},
                                   branch : Nat, claim : Nat \cup {Nobody}]]
      /\ \A w \in Workers : \/ worker'[w] = worker[w]
                            \/ worker'[w].at = "queued" /\ worker'[w].of \in born
    <2>1. CASE off
        BY <2>1 DEF FirstReply, GenesisInv, GenesisTypeOK
    <2>2. CASE ~ off
        BY <1>1, <2>2, Scheduling DEF FirstReply
    <2> QED BY <2>1, <2>2
<1> HIDE DEF q
<1> QED BY <1>1, <1>2, <1>3, <1>4, <1>5, RowStep

\* The Creator's core and another branch change one field of the row.
LEMMA SmallSteps ==
    ASSUME GenesisInv, NEW s \in Sessions, CoreSeeded(s) \/ Branched(s)
    PROVE  GenesisInv' /\ PublishStep
<1> DEFINE r == session[s]
           p == [r EXCEPT !.active = @ + 1]
<1>1. /\ s \in born /\ r \in Row /\ session \in [Sessions -> Row]
      /\ UNCHANGED <<born, worker, streaming, exact, fresh, published>>
    BY DEF CoreSeeded, Branched, GenesisInv, GenesisTypeOK
<1>2. /\ worker' \in [Workers -> [at : Where, of : Sessions \cup {Nobody},
                                   branch : Nat, claim : Nat \cup {Nobody}]]
      /\ streaming' \in [Sessions -> Nat \cup {Nobody}]
      /\ \A x \in Sessions : streaming'[x] # Nobody => x \in born
    BY <1>1 DEF GenesisInv, GenesisTypeOK, SeedOK
<1>3. CASE CoreSeeded(s)
    <2>1. session' = [session EXCEPT ![s] = Staged(r, "rules")] /\ r.stage = ""
        BY <1>3 DEF CoreSeeded, Staged
    <2>2. Grows(r, Staged(r, "rules"))
        <3>1. "rules" \in Stage \ {"llm"}
            BY DEF Stage
        <3> QED BY <1>1, <3>1, StageGrows
    <2> QED BY <1>1, <1>2, <2>1, <2>2, RowStep
<1>4. CASE Branched(s)
    <2>1. session' = [session EXCEPT ![s] = p]
        BY <1>4 DEF Branched
    <2>2. /\ p \in Row /\ p.stage = r.stage /\ p.epoch = r.epoch
        BY <1>1 DEF Row
    <2>3. Grows(r, p)
        BY <1>1, <2>2, RowGrows DEF Grows
    <2> HIDE DEF p
    <2> QED BY <1>1, <1>2, <2>1, <2>2, <2>3, RowStep
<1> QED BY <1>3, <1>4

LEMMA ReauthoredStep ==
    ASSUME GenesisInv, NEW s \in Sessions, Reauthored(s)
    PROVE  GenesisInv' /\ PublishStep
<1> DEFINE q == Superseded(session[s], "")
<1>1. /\ s \in born /\ session[s] \in Row /\ session' = [session EXCEPT ![s] = q]
      /\ Overtake(s) /\ published' = [published EXCEPT ![s] = 0] /\ exact' = exact \ {s}
      /\ UNCHANGED <<born, worker, streaming>>
    BY DEF Reauthored, GenesisInv, GenesisTypeOK
<1>2. "" \in Stage
    BY DEF Stage
<1>3. Grows(session[s], q) /\ q.epoch > session[s].epoch
    BY <1>1, <1>2, SupersededGrows, SupersededLater
<1>4. worker' \in [Workers -> [at : Where, of : Sessions \cup {Nobody},
                               branch : Nat, claim : Nat \cup {Nobody}]]
    BY <1>1 DEF GenesisInv, GenesisTypeOK
<1> HIDE DEF q
<1> QED BY <1>1, <1>3, <1>4, DecisionStep

\* A child starts with what its root has published; nobody works for it yet.
LEMMA ForkedStep ==
    ASSUME GenesisInv, NEW s \in Sessions, NEW c \in Children, Forked(s, c)
    PROVE  GenesisInv' /\ PublishStep
<1> USE DEF GenesisInv
<1> DEFINE q == Staged(session[c], session[s].stage)
<1>1. /\ s \in born /\ c \notin born /\ c \in Sessions /\ born' = born \cup {c}
      /\ exact' = (IF s \in exact THEN exact \cup {c} ELSE exact)
      /\ published' = [published EXCEPT ![c] = published[s]]
      /\ UNCHANGED <<worker, streaming, fresh>>
    BY DEF Forked, Sessions
<1>2. session' = [session EXCEPT ![c] = q]
    BY DEF Forked, Staged
<1>3. q \in Row /\ q.stage = session[s].stage
    BY <1>1, RowGrows, StageRow DEF GenesisTypeOK
<1> HIDE DEF q
<1>4. \A x \in Sessions : /\ session'[x] = IF x = c THEN q ELSE session[x]
                          /\ published'[x] = IF x = c THEN published[s] ELSE published[x]
    BY <1>1, <1>2 DEF GenesisTypeOK
<1>5. GenesisTypeOK'
    BY <1>1, <1>2, <1>3 DEF GenesisTypeOK
<1>6. \A x \in born : Grows(session[x], session'[x])
    BY <1>1, <1>4, RowGrows DEF GenesisTypeOK
<1>7. (\A w \in Workers : ClaimOK(w)') /\ Distinct'
    BY <1>1, <1>5, <1>6, ClaimsHold
<1>8. \A x \in Sessions : SeedOK(x)'
    BY <1>1, <1>3, <1>4 DEF SeedOK, GenesisTypeOK
<1>9. PublishStep
    BY <1>1, <1>4 DEF PublishStep, GenesisTypeOK
<1> QED BY <1>5, <1>7, <1>8, <1>9

\* A restart gives every claim back.
LEMMA OpensStep ==
    ASSUME GenesisInv, StoreOpens PROVE GenesisInv' /\ PublishStep
<1> USE DEF GenesisInv
<1>1. /\ session' = [s \in Sessions |-> Released(session[s])]
      /\ worker' = [w \in Workers |-> Idle] /\ streaming' = [s \in Sessions |-> Nobody]
      /\ fresh' = {} /\ UNCHANGED <<born, exact, published>>
    BY DEF StoreOpens
<1>2. ASSUME NEW s \in Sessions
      PROVE  /\ session'[s] \in Row /\ Grows(session[s], session'[s])
             /\ session[s].stage = "done" => session'[s] = session[s]
    <2>1. session[s] \in Row /\ "rules" \in Stage
        BY DEF GenesisTypeOK, Stage
    <2>2. session'[s] = Superseded(session[s], "rules")
            \/ session'[s] = session[s]
        BY <1>1 DEF Released
    <2>3. session[s].stage = "done" => session'[s] = session[s]
        BY <1>1 DEF Released
    <2> QED BY <2>1, <2>2, <2>3, RowGrows, SupersededRow, SupersededGrows
<1>3. /\ Idle.at = "idle"
      /\ Idle \in [at : Where, of : Sessions \cup {Nobody}, branch : Nat, claim : Nat \cup {Nobody}]
    BY DEF Idle, Where
<1>4. GenesisTypeOK'
    BY <1>1, <1>2, <1>3 DEF GenesisTypeOK
<1>5. (\A w \in Workers : ClaimOK(w)') /\ Distinct'
    <2>1. \A w \in Workers : worker'[w].at = "idle"
        BY <1>1, <1>3
    <2>2. \A x \in born : Grows(session[x], session'[x])
        BY <1>2 DEF GenesisTypeOK
    <2> QED BY <1>1, <1>4, <2>1, <2>2, ClaimsHold
<1>6. \A x \in Sessions : SeedOK(x)'
    BY <1>1, <1>2 DEF SeedOK
<1>7. PublishStep
    BY <1>1 DEF PublishStep, GenesisTypeOK
<1> QED BY <1>4, <1>5, <1>6, <1>7

-----------------------------------------------------------------------------
(* GenesisClaims: the workers *)

LEMMA WorkerIsTyped ==
    ASSUME GenesisInv, NEW w \in Workers, worker[w].at # "idle"
    PROVE  /\ worker[w].of \in born /\ worker[w].of \in Sessions
           /\ session[worker[w].of] \in Row
           /\ worker[w] \in [at : Where, of : Sessions \cup {Nobody}, branch : Nat,
                             claim : Nat \cup {Nobody}]
BY DEF GenesisInv, ClaimOK, GenesisTypeOK

\* A worker ends, with a row that makes nothing undone.
LEMMA EndStep ==
    ASSUME GenesisInv, NEW w \in Workers, worker[w].at # "idle", NEW r, Ends(w, r),
           Grows(session[worker[w].of], r),
           session[worker[w].of].stage = "done" => r.stage = "done",
           UNCHANGED <<born, streaming, exact, published>>
    PROVE  GenesisInv' /\ PublishStep
<1> USE DEF GenesisInv
<1> DEFINE s == worker[w].of
<1>1. /\ s \in born /\ s \in Sessions /\ session[s] \in Row /\ r \in Row
      /\ session' = [session EXCEPT ![s] = r] /\ worker' = [worker EXCEPT ![w] = Idle]
      /\ fresh' = fresh \ {w}
    BY WorkerIsTyped DEF Ends, Grows
<1> HIDE DEF s
<1>2. /\ Idle.at = "idle"
      /\ Idle \in [at : Where, of : Sessions \cup {Nobody}, branch : Nat, claim : Nat \cup {Nobody}]
    BY DEF Idle, Where
<1>3. \A x \in Sessions : session'[x] = IF x = s THEN r ELSE session[x]
    BY <1>1 DEF GenesisTypeOK
<1>4. GenesisTypeOK'
    BY <1>1, <1>2 DEF GenesisTypeOK
<1>5. \A x \in born : Grows(session[x], session'[x])
    BY <1>1, <1>3, RowGrows DEF GenesisTypeOK, s
<1>6. \A v \in Workers : worker'[v] = worker[v] \/ (v = w /\ worker'[v].at = "idle")
    BY <1>1, <1>2 DEF GenesisTypeOK
<1>7. (\A v \in Workers : ClaimOK(v)') /\ Distinct'
    <2>1. \A v \in Workers : v \in fresh /\ worker'[v].at \in {"resolve", "chat"} => v \in fresh'
        BY <1>1, <1>2 DEF GenesisTypeOK
    <2> QED BY <1>4, <1>5, <1>6, <2>1, ClaimsHold
<1>8. \A x \in Sessions : SeedOK(x)'
    BY <1>3 DEF SeedOK, s
<1>9. PublishStep
    BY DEF PublishStep, GenesisTypeOK
<1> QED BY <1>4, <1>7, <1>8, <1>9

\* Giving a claim back makes nothing undone.
LEMMA GivingBack ==
    ASSUME NEW r \in Row, NEW m
    PROVE  /\ Grows(r, GivenBack(r, m))
           /\ r.stage = "done" => GivenBack(r, m).stage = "done"
<1>1. GivenBack(r, m) = r \/ (GivenBack(r, m) = Staged(r, "rules") /\ r.stage = "llm")
    BY DEF GivenBack, Owns, Staged
<1>2. "rules" \in Stage \ {"llm"}
    BY DEF Stage
<1>3. Grows(r, r) /\ Grows(r, Staged(r, "rules"))
    BY <1>2, RowGrows, StageGrows
<1> QED BY <1>1, <1>3

LEMMA ClaimStep ==
    ASSUME GenesisInv, NEW w \in Workers, Claim(w) PROVE GenesisInv' /\ PublishStep
<1> DEFINE me   == worker[w]
           s    == me.of
           row  == session[s]
           mine == Superseded(row, "llm")
           mn   == [me EXCEPT !.claim = mine.epoch]
           t    == [mn EXCEPT !.at = "resolve"]
<1>1. /\ me.at = "queued" /\ UNCHANGED <<born, streaming, exact, published>>
    BY DEF Claim
<1>2. /\ s \in born /\ s \in Sessions /\ row \in Row
      /\ me \in [at : Where, of : Sessions \cup {Nobody}, branch : Nat, claim : Nat \cup {Nobody}]
    BY <1>1, WorkerIsTyped
<1>3. /\ mine \in Row /\ Grows(row, mine) /\ mine.epoch = row.epoch + 1 /\ row.epoch \in Nat
      /\ mine.epoch \in Nat
    <2>1. "llm" \in Stage
        BY DEF Stage
    <2> QED BY <1>2, <2>1, SupersededRow, SupersededGrows, RowGrows
<1>4. \/ Ends(w, row)
      \/ Ends(w, GivenBack(mine, mn)) /\ row.stage # "done"
      \/ /\ session' = [session EXCEPT ![s] = mine] /\ row.stage # "done"
         /\ worker' = [worker EXCEPT ![w].at = "resolve", ![w].claim = mine.epoch]
         /\ fresh' = fresh \cup {w}
    BY DEF Claim, Claimable, Superseded
<1>5. CASE Ends(w, row)
    BY <1>1, <1>2, <1>5, RowGrows, EndStep
<1>6. CASE Ends(w, GivenBack(mine, mn)) /\ row.stage # "done"
    <2> HIDE DEF mine, mn
    <2>1. Grows(mine, GivenBack(mine, mn))
        BY <1>3, GivingBack
    <2>2. Grows(row, GivenBack(mine, mn))
        BY <1>2, <1>3, <2>1, GrowsOn
    <2> QED BY <1>1, <1>6, <2>2, EndStep
<1>7. CASE /\ session' = [session EXCEPT ![s] = mine] /\ row.stage # "done"
           /\ worker' = [worker EXCEPT ![w].at = "resolve", ![w].claim = mine.epoch]
           /\ fresh' = fresh \cup {w}
    <2> USE DEF GenesisInv
    <2>1. /\ t \in [at : Where, of : Sessions \cup {Nobody}, branch : Nat, claim : Nat \cup {Nobody}]
          /\ t.at = "resolve" /\ t.of = s /\ t.claim = mine.epoch
        <3> HIDE DEF mine, me
        <3>1. s = me.of
            OBVIOUS
        <3> HIDE DEF s
        <3> QED BY <1>2, <1>3, <3>1 DEF Where
    <2>2. worker' = [worker EXCEPT ![w] = t]
        <3>1. worker' = [worker EXCEPT ![w].at = "resolve", ![w].claim = mine.epoch]
            BY <1>7
        <3> HIDE DEF mine
        <3> QED BY <1>2, <3>1
    <2> HIDE DEF t, mn
    <2>3. /\ \A v \in Workers : worker'[v] = IF v = w THEN t ELSE worker[v]
          /\ \A x \in Sessions : session'[x] = IF x = s THEN mine ELSE session[x]
        BY <1>2, <1>7, <2>2 DEF GenesisTypeOK
    <2>4. GenesisTypeOK'
        BY <1>1, <1>2, <1>3, <1>7, <2>1, <2>2 DEF GenesisTypeOK
    <2>5. ASSUME NEW v \in Workers, v # w, Claims(v)
          PROVE  /\ worker[v].claim \in Nat /\ worker[v].of \in born
                 /\ worker[v].claim <= session[worker[v].of].epoch
                 /\ worker[v].claim <= session'[worker[v].of].epoch
                 /\ worker[v].of = s => worker[v].claim < mine.epoch
        <3>1. /\ worker[v].claim \in Nat /\ worker[v].of \in born
              /\ worker[v].claim <= session[worker[v].of].epoch
            BY <2>5 DEF ClaimOK, Claims
        <3>2. worker[v].of = s => worker[v].claim < mine.epoch
            BY <1>3, <3>1
        <3> QED BY <1>2, <1>3, <2>3, <3>1, <3>2 DEF GenesisTypeOK
    <2>6. ASSUME NEW v \in Workers PROVE ClaimOK(v)'
        <3>1. CASE v = w
            <4>1. worker'[w] = t /\ session'[t.of] = mine /\ w \in fresh' /\ t.of \in born'
                BY <1>1, <1>2, <1>7, <2>1, <2>3
            <4>2. t.claim \in Nat /\ t.claim <= mine.epoch
                BY <1>3, <2>1
            <4> HIDE DEF mine
            <4> QED BY <3>1, <4>1, <4>2 DEF ClaimOK, Claims
        <3>2. CASE v # w
            <4>1. worker'[v] = worker[v] /\ (worker[v].at # "idle" => worker[v].of \in born)
                BY <2>3, <3>2 DEF ClaimOK
            <4>2. ASSUME Claims(v), Owns(session'[worker[v].of], worker[v]) PROVE v \in fresh'
                <5>1. worker[v].of # s
                    BY <1>2, <1>3, <2>3, <2>5, <3>2, <4>2 DEF Owns
                <5>2. session'[worker[v].of] = session[worker[v].of]
                    BY <2>3, <2>5, <3>2, <4>2, <5>1 DEF GenesisTypeOK
                <5> QED BY <1>7, <4>2, <5>2 DEF ClaimOK
            <4> QED BY <1>1, <2>5, <3>2, <4>1, <4>2 DEF ClaimOK, Claims
        <3> QED BY <3>1, <3>2
    <2>7. Distinct'
        BY <1>3, <2>1, <2>3, <2>5 DEF Distinct, Claims
    <2>8. \A x \in Sessions : SeedOK(x)'
        BY <1>1, <1>7, <2>3 DEF SeedOK
    <2>9. PublishStep
        BY <1>1 DEF PublishStep, GenesisTypeOK
    <2> QED BY <2>4, <2>6, <2>7, <2>8, <2>9
<1> QED BY <1>4, <1>5, <1>6, <1>7

LEMMA ResolveStep ==
    ASSUME GenesisInv, NEW w \in Workers, NEW found \in BOOLEAN, Resolve(w, found)
    PROVE  GenesisInv' /\ PublishStep
<1> DEFINE me  == worker[w]
           row == session[me.of]
           t   == [me EXCEPT !.at = "chat"]
<1>1. /\ me.at = "resolve" /\ UNCHANGED <<born, streaming, exact, published>>
      /\ \/ worker' = [worker EXCEPT ![w].at = "chat"] /\ UNCHANGED <<session, fresh>>
         \/ Ends(w, GivenBack(row, me))
    BY DEF Resolve
<1>2. /\ row \in Row
      /\ me \in [at : Where, of : Sessions \cup {Nobody}, branch : Nat, claim : Nat \cup {Nobody}]
    BY <1>1, WorkerIsTyped
<1>3. CASE Ends(w, GivenBack(row, me))
    BY <1>1, <1>2, <1>3, GivingBack, EndStep
<1>4. CASE worker' = [worker EXCEPT ![w].at = "chat"] /\ UNCHANGED <<session, fresh>>
    <2> USE DEF GenesisInv
    <2>1. /\ t \in [at : Where, of : Sessions \cup {Nobody}, branch : Nat, claim : Nat \cup {Nobody}]
          /\ t.at = "chat" /\ t.of = me.of /\ t.claim = me.claim
        <3> HIDE DEF me
        <3> QED BY <1>2 DEF Where
    <2>2. worker' = [worker EXCEPT ![w] = t]
        BY <1>4
    <2> HIDE DEF t
    <2>3. GenesisTypeOK'
        BY <1>1, <1>4, <2>1, <2>2 DEF GenesisTypeOK
    <2>4. \A v \in Workers :
            \/ worker'[v] = worker[v]
            \/ /\ Claims(v) /\ worker'[v].at = "chat"
               /\ worker'[v].of = worker[v].of /\ worker'[v].claim = worker[v].claim
        BY <1>1, <2>1, <2>2 DEF GenesisTypeOK, Claims
    <2>5. \A x \in born : Grows(session[x], session'[x])
        BY <1>4, RowGrows DEF GenesisTypeOK
    <2>6. (\A v \in Workers : ClaimOK(v)') /\ Distinct'
        BY <1>1, <1>4, <2>3, <2>4, <2>5, ClaimsHold
    <2>7. (\A x \in Sessions : SeedOK(x)') /\ PublishStep
        BY <1>1, <1>4 DEF SeedOK, PublishStep, GenesisTypeOK
    <2> QED BY <2>3, <2>6, <2>7
<1> QED BY <1>1, <1>3, <1>4

\* Who publishes owns the claim, so nothing was published before and no exact seed stands.
LEMMA PublishingStep ==
    ASSUME GenesisInv, NEW w \in Workers, Publish(w) PROVE GenesisInv' /\ PublishStep
<1> USE DEF GenesisInv
<1> DEFINE me == worker[w]
           s  == me.of
           q  == Staged(session[s], "done")
<1>1. /\ me.at = "chat" /\ Current(session[s], me) /\ Ends(w, q)
      /\ published' = [published EXCEPT ![s] = @ + 1] /\ UNCHANGED <<born, streaming, exact>>
    BY DEF Publish, Staged
<1>2. s \in born /\ s \in Sessions /\ session[s] \in Row
    BY <1>1, WorkerIsTyped
<1>3. /\ session[s].stage = "llm" /\ session[s].active = me.branch /\ w \in fresh
    BY <1>1 DEF Current, Owns, ClaimOK, Claims
<1>4. q \in Row /\ Grows(session[s], q) /\ q.stage = "done"
    <2>1. "done" \in Stage \ {"llm"} /\ "done" \in Stage
        BY DEF Stage
    <2> QED BY <1>2, <2>1, StageRow, StageGrows
<1>5. /\ session' = [session EXCEPT ![s] = q] /\ worker' = [worker EXCEPT ![w] = Idle]
      /\ fresh' = fresh \ {w}
    BY <1>1 DEF Ends
<1> HIDE DEF q
<1>6. published[s] = 0 /\ s \notin exact
    BY <1>2, <1>3 DEF SeedOK
<1>7. \A x \in Sessions : /\ session'[x] = IF x = s THEN q ELSE session[x]
                          /\ published'[x] = IF x = s THEN 1 ELSE published[x]
    BY <1>1, <1>5, <1>6 DEF GenesisTypeOK
<1>8. /\ Idle.at = "idle"
      /\ Idle \in [at : Where, of : Sessions \cup {Nobody}, branch : Nat, claim : Nat \cup {Nobody}]
    BY DEF Idle, Where
<1>9. published' \in [Sessions -> Nat] /\ session' \in [Sessions -> Row]
    <2>1. published \in [Sessions -> Nat] /\ session \in [Sessions -> Row]
        BY DEF GenesisTypeOK
    <2>2. published' = [published EXCEPT ![s] = 1]
        BY <1>1, <1>6, <2>1
    <2> HIDE DEF s
    <2> QED BY <1>4, <1>5, <2>1, <2>2
<1>10. GenesisTypeOK'
    BY <1>1, <1>5, <1>8, <1>9 DEF GenesisTypeOK
<1>11. \A x \in born : Grows(session[x], session'[x])
    BY <1>4, <1>7, RowGrows DEF GenesisTypeOK
<1>12. \A v \in Workers : worker'[v] = worker[v] \/ (v = w /\ worker'[v].at = "idle")
    BY <1>5, <1>8 DEF GenesisTypeOK
<1>13. (\A v \in Workers : ClaimOK(v)') /\ Distinct'
    <2>1. \A v \in Workers : v \in fresh /\ worker'[v].at \in {"resolve", "chat"} => v \in fresh'
        BY <1>5, <1>8 DEF GenesisTypeOK
    <2> QED BY <1>1, <1>10, <1>11, <1>12, <2>1, ClaimsHold
<1>14. \A x \in Sessions : SeedOK(x)'
    BY <1>1, <1>4, <1>6, <1>7 DEF SeedOK
<1>15. PublishStep
    BY <1>3, <1>7 DEF PublishStep, GenesisTypeOK
<1> QED BY <1>10, <1>13, <1>14, <1>15

LEMMA GiveUpStep ==
    ASSUME GenesisInv, NEW w \in Workers, NEW broken \in BOOLEAN, GiveUp(w, broken)
    PROVE  GenesisInv' /\ PublishStep
<1> DEFINE me  == worker[w]
           row == session[me.of]
<1>1. /\ me.at = "chat" /\ UNCHANGED <<born, streaming, exact, published>>
      /\ Ends(w, Staged(row, "done")) \/ Ends(w, GivenBack(row, me))
    BY DEF GiveUp, Staged
<1>2. row \in Row
    BY <1>1, WorkerIsTyped
<1>3. Grows(row, Staged(row, "done")) /\ Staged(row, "done").stage = "done"
    <2>1. "done" \in Stage \ {"llm"} /\ "done" \in Stage
        BY DEF Stage
    <2> QED BY <1>2, <2>1, StageRow, StageGrows
<1>4. /\ Grows(row, GivenBack(row, me))
      /\ row.stage = "done" => GivenBack(row, me).stage = "done"
    BY <1>2, GivingBack
<1> QED BY <1>1, <1>3, <1>4, EndStep

LEMMA GenesisStep == GenesisInv /\ [GenesisNext]_genesisVars => GenesisInv' /\ PublishStep
<1> SUFFICES ASSUME GenesisInv, [GenesisNext]_genesisVars PROVE GenesisInv' /\ PublishStep
    OBVIOUS
<1>1. CASE UNCHANGED genesisVars
    BY <1>1 DEF genesisVars, GenesisInv, GenesisTypeOK, ClaimOK, Claims, Distinct, SeedOK,
                PublishStep
<1>2. CASE GenesisNext
    BY <1>2, OpeningStep, FirstTurnStep, FirstReplyStep, SmallSteps, ReauthoredStep,
       ForkedStep, OpensStep, ClaimStep, ResolveStep, PublishingStep, GiveUpStep
       DEF GenesisNext, Work
<1> QED BY <1>1, <1>2

LEMMA GenesisStart == GenesisInit => GenesisInv
<1> SUFFICES ASSUME GenesisInit PROVE GenesisInv
    OBVIOUS
<1>1. /\ Idle.at = "idle"
      /\ Idle \in [at : Where, of : Sessions \cup {Nobody}, branch : Nat, claim : Nat \cup {Nobody}]
    BY DEF Idle, Where
<1>2. GenesisTypeOK
    BY <1>1 DEF GenesisInit, GenesisTypeOK, Row, Stage, Sessions
<1>3. (\A w \in Workers : ClaimOK(w)) /\ Distinct
    BY <1>1 DEF GenesisInit, ClaimOK, Claims, Distinct
<1>4. ASSUME NEW s \in Sessions PROVE SeedOK(s)
    <2>1. published[s] = 0 /\ streaming[s] = Nobody /\ exact = {}
        BY DEF GenesisInit
    <2> QED BY <2>1 DEF SeedOK
<1> QED BY <1>2, <1>3, <1>4 DEF GenesisInv

\* The types, for every set of sessions and workers.
THEOREM GenesisIsTyped == GenesisSpec => []GenesisTypeOK
<1>1. GenesisInv => GenesisTypeOK
    BY DEF GenesisInv
<1> QED BY <1>1, GenesisStart, GenesisStep, PTL DEF GenesisSpec

\* At most one worker owns the claim of a session (genesis_claim_llm).
THEOREM ClaimsAreExclusive == GenesisSpec => []OneOwner
<1>1. GenesisInv => OneOwner
    BY DEF GenesisInv, OneOwner, Owns, Distinct, Claims
<1> QED BY <1>1, GenesisStart, GenesisStep, PTL DEF GenesisSpec

\* Seeds stand against every older worker and card (genesis_supersede, commit_stage_b).
THEOREM SeedsAreKept == GenesisSpec => []SeedsStand
<1>1. GenesisInv => SeedsStand
    BY DEF GenesisInv, SeedsStand, SeedOK, GenesisTypeOK
<1> QED BY <1>1, GenesisStart, GenesisStep, PTL DEF GenesisSpec

\* A worker publishes only under a claim that nothing has overtaken, into the active branch.
THEOREM StaleWorkersPublishNothing == GenesisSpec => OnlyCurrentPublishes
<1>1. GenesisInv /\ [GenesisNext]_genesisVars => [PublishStep]_genesisVars
    BY GenesisStep
<1> QED BY <1>1, GenesisStart, GenesisStep, PTL DEF GenesisSpec, OnlyCurrentPublishes, PublishStep

-----------------------------------------------------------------------------
(* World events *)

\* Every segment of a front holds the turn of a tick, or none.
ClocksOK ==
    DOMAIN ticks = Front /\ \A f \in Front : ticks[f] \in [1..Segments[f] -> Story \cup {Empty}]

\* What a pass does to the clocks: those it fills hold its turn and have come to a head, and no
\* other front does.
LEMMA PassFills ==
    ASSUME WorldEventsTypeOK, NEW t \in Story, NEW touched \in SUBSET Front,
           WorldPass(touched, t)
    PROVE  /\ ClocksOK'
           /\ \A f \in Filling(touched) :
                 f \in Front /\ ~ Done(f) /\ Done(f)' /\ \E i \in 1..Segments[f] : ticks'[f][i] = t
           /\ \A f \in Front : Done(f) => ticks'[f] = ticks[f] /\ Done(f)'
           /\ \A f \in Front : Done(f)' => Done(f) \/ f \in Filling(touched)
<1>1. /\ ClocksOK /\ \A f \in touched : ~ Done(f)
      /\ ticks' = [f \in Front |-> IF f \in touched THEN Ticked(f, t) ELSE ticks[f]]
    BY DEF WorldEventsTypeOK, ClocksOK, WorldPass
<1>2. t # Empty
    BY WorldAssumption DEF Story, Empty
<1>3. ClocksOK'
    BY <1>1 DEF ClocksOK, Ticked
<1>4. ASSUME NEW f \in Filling(touched)
      PROVE  f \in Front /\ ~ Done(f) /\ Done(f)' /\ \E i \in 1..Segments[f] : ticks'[f][i] = t
    <2>1. f \in touched /\ f \in Front /\ ~ Done(f)
        BY <1>1 DEF Filling
    <2>2. PICK n \in Open(f) : \A j \in Open(f) : j = n
        BY <2>1 DEF Filling, Done
    <2>3. n \in Int /\ n \in 1..Segments[f]
        BY <2>2 DEF Open
    <2>4. (CHOOSE j \in Open(f) : \A k \in Open(f) : j <= k) = n
        <3>1. \E j \in Open(f) : \A k \in Open(f) : j <= k
            BY <2>2, <2>3
        <3> QED BY <2>2, <3>1, Zenon
    <2>5. ticks'[f] = [ticks[f] EXCEPT ![n] = t]
        BY <1>1, <2>1, <2>4 DEF Ticked
    <2>6. DOMAIN ticks[f] = 1..Segments[f]
        BY <1>1, <2>1 DEF ClocksOK
    <2>7. ticks'[f][n] = t /\ \A i \in 1..Segments[f] : i # n => ticks'[f][i] # Empty
        BY <2>2, <2>3, <2>5, <2>6 DEF Open
    <2> QED BY <1>2, <2>1, <2>3, <2>7 DEF Done, Open
<1>5. ASSUME NEW f \in Front, Done(f) PROVE ticks'[f] = ticks[f] /\ Done(f)'
    BY <1>1, <1>5 DEF Done, Open
<1>6. ASSUME NEW f \in Front, Done(f)', ~ Done(f) PROVE f \in Filling(touched)
    <2> DEFINE next == CHOOSE i \in Open(f) : \A j \in Open(f) : i <= j
    <2>1. f \in touched
        BY <1>1, <1>6 DEF Done, Open
    <2>2. ticks'[f] = [ticks[f] EXCEPT ![next] = t]
        BY <1>1, <2>1 DEF Ticked
    <2> HIDE DEF next
    <2>3. ASSUME NEW i \in Open(f), i # next PROVE FALSE
        <3>1. i \in 1..Segments[f] /\ ticks[f][i] = Empty
            BY <2>3 DEF Open
        <3>2. ticks'[f][i] = Empty
            BY <1>1, <2>2, <2>3, <3>1 DEF ClocksOK
        <3> QED BY <1>6, <3>1, <3>2 DEF Done, Open
    <2> QED BY <2>1, <2>3 DEF Filling
<1> QED BY <1>3, <1>4, <1>5, <1>6

LEMMA PassIsTyped ==
    ASSUME WorldEventsTypeOK, NEW t \in Story, NEW touched \in SUBSET Front,
           WorldPass(touched, t)
    PROVE  WorldEventsTypeOK'
<1> DEFINE full == Filling(touched)
<1>1. /\ line \in 0..MaxForks /\ newest \in Story /\ since \in Story
      /\ events \subseteq Event /\ ended \subseteq Ending /\ refused \subseteq Ending
    BY DEF WorldEventsTypeOK
<1>2. full \subseteq Front
    BY DEF Filling
<1>3. \A f \in Front : Completion(f, t) \in Event
    BY <1>1 DEF Completion, Event
<1>4. \A f \in full : Lands(f, t, full) \subseteq Event /\ Overtaken(f, t, full) \subseteq Event
    BY <1>1 DEF Lands, Overtaken, SupersededBy, InForceAt, EndedBy, Ending
<1>5. ASSUME NEW due, DOMAIN due = full, \A f \in full : due[f] \subseteq Event
      PROVE  Endings(due, t) \subseteq Ending
    BY <1>2, <1>3, <1>5 DEF Endings, Ending
<1> DEFINE landing  == [f \in full |-> Lands(f, t, full)]
           dropping == [f \in full |-> Overtaken(f, t, full)]
<1>6. /\ DOMAIN landing = full /\ DOMAIN dropping = full
      /\ \A f \in full : landing[f] \subseteq Event /\ dropping[f] \subseteq Event
    BY <1>4
<1>7. /\ line' = line /\ newest' = newest /\ since' = since
      /\ events' = events \cup {Completion(f, t) : f \in full}
      /\ ended' = ended \cup Endings(landing, t)
      /\ refused' = refused \cup Endings(dropping, t)
    BY DEF WorldPass
<1>8. ClocksOK'
    BY PassFills
<1> HIDE DEF landing, dropping, full
<1>9. Endings(landing, t) \subseteq Ending /\ Endings(dropping, t) \subseteq Ending
    BY <1>5, <1>6
<1> QED BY <1>1, <1>2, <1>3, <1>7, <1>8, <1>9 DEF WorldEventsTypeOK, ClocksOK

LEMMA ForkIsTyped ==
    ASSUME WorldEventsTypeOK, NEW t \in Story, ForkStory(t)
    PROVE  WorldEventsTypeOK'
<1>1. line' \in 0..MaxForks
    BY WorldAssumption DEF WorldEventsTypeOK, ForkStory
<1>2. ClocksOK'
    BY DEF WorldEventsTypeOK, ForkStory, ClocksOK
<1> QED BY <1>1, <1>2 DEF WorldEventsTypeOK, ClocksOK, ForkStory, Inherited

\* Why no late completion ends a circumstance of a later turn: the overlay at a turn shows none,
\* and the records an unfinished front is rebuilt from were inherited, hence no younger than the
\* fork.
WorldInv ==
    /\ WorldEventsTypeOK
    /\ since <= newest
    /\ OverlayProjects
    /\ \A e \in ended : ~ Done(e.by.front) => e.by.turn <= since

LEMMA WorldStart == WorldEventsInit => WorldInv
<1> USE WorldAssumption DEF WorldEventsInit
<1> SUFFICES ASSUME WorldEventsInit PROVE WorldInv
    OBVIOUS
<1>1. DOMAIN ticks = Front /\ \A f \in Front : ticks[f] \in [1..Segments[f] -> Story \cup {Empty}]
    OBVIOUS
<1>2. line \in 0..MaxForks /\ newest \in Story /\ since \in Story
    BY DEF Story
<1> QED BY <1>1, <1>2 DEF WorldInv, WorldEventsTypeOK, OverlayProjects, Projects, Story

\* What a completion ends is in the branch and not younger than the turn of the completion.
LEMMA DueIsOlder ==
    ASSUME WorldInv, NEW f \in Front, NEW t \in Story, ~ Done(f), t >= since,
           NEW a \in SupersededBy(f, t)
    PROVE  a \in events /\ a \in Event /\ a.turn <= t
<1>1. CASE a \in InForceAt(t)
    BY <1>1 DEF InForceAt, WorldInv, WorldEventsTypeOK
<1>2. CASE a \in EndedBy(f)
    <2>1. PICK e \in ended : e.by.front = f /\ a = e.of
        BY <1>2 DEF EndedBy
    <2>2. e \in Ending /\ a \in events /\ e.by.turn >= a.turn /\ e.by.turn <= since
        BY <2>1 DEF WorldInv, WorldEventsTypeOK, OverlayProjects, Projects
    <2>3. a \in Event /\ e.by.turn \in Nat /\ a.turn \in Nat /\ since \in Nat /\ t \in Nat
        BY <2>2, WorldAssumption DEF WorldInv, WorldEventsTypeOK, Ending, Event, Story
    <2> QED BY <2>2, <2>3
<1> QED BY <1>1, <1>2 DEF SupersededBy

LEMMA PassKeeps ==
    ASSUME WorldInv, ~ LateInForks, NEW t \in Story, NEW touched \in SUBSET Front,
           WorldPass(touched, t)
    PROVE  WorldInv'
<1> DEFINE full == Filling(touched)
           Recorded(S) == \A e \in S :
                /\ e \in Ending /\ e.by \in {Completion(f, t) : f \in full}
                /\ e.of \in events /\ e.of.turn <= t
<1>1. /\ line \in 0..MaxForks /\ newest \in Story /\ since \in Story
      /\ ClocksOK /\ since <= newest
      /\ events \subseteq Event /\ ended \subseteq Ending /\ refused \subseteq Ending
    BY DEF WorldInv, WorldEventsTypeOK, ClocksOK
<1>2. t >= since /\ \A f \in touched : ~ Done(f)
    BY DEF WorldPass
<1>3. full \subseteq touched /\ full \subseteq Front
    BY DEF Filling
<1>4. \A f \in Front : Completion(f, t) \in Event /\ Completion(f, t).turn = t
                        /\ Completion(f, t).front = f
    BY <1>1 DEF Completion, Event
<1>5. ASSUME NEW due, DOMAIN due = full, \A f \in full : due[f] \subseteq SupersededBy(f, t)
      PROVE  Recorded(Endings(due, t))
    <2> SUFFICES ASSUME NEW e \in Endings(due, t)
                 PROVE  /\ e \in Ending /\ e.by \in {Completion(f, t) : f \in full}
                        /\ e.of \in events /\ e.of.turn <= t
        OBVIOUS
    <2>1. PICK f \in full : \E a \in due[f] : e = [by |-> Completion(f, t), of |-> a]
        BY <1>5 DEF Endings
    <2>2. PICK a \in due[f] : e = [by |-> Completion(f, t), of |-> a]
        BY <2>1
    <2>3. a \in events /\ a \in Event /\ a.turn <= t
        BY <1>2, <1>3, <1>5, <2>1, DueIsOlder
    <2>4. e.by = Completion(f, t) /\ e.of = a
        BY <2>2
    <2> QED BY <1>3, <1>4, <2>1, <2>2, <2>3, <2>4 DEF Ending
<1>6. PICK landed, dropped : /\ Recorded(landed) /\ ended' = ended \cup landed
                             /\ Recorded(dropped) /\ refused' = refused \cup dropped
    <2> DEFINE landing  == [f \in full |-> Lands(f, t, full)]
               dropping == [f \in full |-> Overtaken(f, t, full)]
    <2>1. \A f \in full : landing[f] \subseteq SupersededBy(f, t)
                          /\ dropping[f] \subseteq SupersededBy(f, t)
        BY DEF Lands, Overtaken
    <2>2. /\ ended' = ended \cup Endings(landing, t)
          /\ refused' = refused \cup Endings(dropping, t)
        BY DEF WorldPass
    <2>3. DOMAIN landing = full /\ DOMAIN dropping = full
        OBVIOUS
    <2> HIDE DEF landing, dropping, full
    <2>4. Recorded(Endings(landing, t)) /\ Recorded(Endings(dropping, t))
        BY <1>5, <2>1, <2>3
    <2> QED BY <2>2, <2>4
<1>7. /\ line' = line /\ newest' = newest /\ since' = since
      /\ ticks' = [f \in Front |-> IF f \in touched THEN Ticked(f, t) ELSE ticks[f]]
      /\ events' = events \cup {Completion(f, t) : f \in full}
    BY DEF WorldPass
<1>9. \A f \in full : Done(f)'
    BY PassFills DEF WorldInv
<1>10. WorldEventsTypeOK'
    BY PassIsTyped DEF WorldInv
<1>11. OverlayProjects'
    <2> SUFFICES ASSUME NEW e \in ended' PROVE e.of \in events' /\ e.by.turn >= e.of.turn
        BY DEF OverlayProjects, Projects
    <2>1. CASE e \in ended
        BY <1>7, <2>1 DEF WorldInv, OverlayProjects, Projects
    <2>2. CASE e \in landed
        BY <1>3, <1>4, <1>6, <1>7, <2>2
    <2> QED BY <1>6, <2>1, <2>2
<1>12. ASSUME NEW e \in ended', ~ Done(e.by.front)' PROVE e.by.turn <= since'
    <2>1. CASE e \in ended
        <3>1. e.by.front \in Front
            BY <1>1, <2>1 DEF Ending, Event
        <3>2. ~ Done(e.by.front)
            BY <1>12, <3>1, PassFills DEF WorldInv
        <3> QED BY <1>7, <2>1, <3>2 DEF WorldInv
    <2>2. CASE e \in landed
        <3>1. e.by.front \in full
            BY <1>3, <1>4, <1>6, <2>2
        <3> QED BY <1>9, <1>12, <3>1
    <2> QED BY <1>6, <2>1, <2>2
<1> QED BY <1>1, <1>7, <1>10, <1>11, <1>12 DEF WorldInv

LEMMA ForkKeeps ==
    ASSUME WorldInv, NEW t \in Story, ForkStory(t)
    PROVE  WorldInv'
<1>1. ended \subseteq Ending
    BY DEF WorldInv, WorldEventsTypeOK
<1>2. /\ newest' = t /\ since' = t
      /\ events' = {a \in events : a.turn <= t}
      /\ ended' = {e \in ended : e.by.turn <= t}
    BY DEF ForkStory, Inherited
<1>5. WorldEventsTypeOK'
    BY ForkIsTyped DEF WorldInv
<1>6. OverlayProjects'
    <2> SUFFICES ASSUME NEW e \in ended' PROVE e.of \in events' /\ e.by.turn >= e.of.turn
        BY DEF OverlayProjects, Projects
    <2>1. e \in ended /\ e.by.turn <= t
        BY <1>2
    <2>2. e.of \in events /\ e.by.turn >= e.of.turn
        BY <2>1 DEF WorldInv, OverlayProjects, Projects
    <2>3. e.by.turn \in Nat /\ e.of.turn \in Nat /\ t \in Nat
        BY <1>1, <2>1, WorldAssumption DEF Ending, Event, Story
    <2> QED BY <1>2, <2>1, <2>2, <2>3
<1> QED BY <1>2, <1>5, <1>6, WorldAssumption DEF WorldInv, Story

LEMMA WorldStep ==
    ASSUME ~ LateInForks, WorldInv, [WorldEventsNext]_worldVars
    PROVE  WorldInv'
<1>1. CASE StoryGoesOn
    <2>1. /\ newest \in Story /\ since \in Story /\ since <= newest /\ newest' = newest + 1
          /\ newest < MaxStory
          /\ UNCHANGED <<line, since, ticks, events, ended, refused>>
        BY <1>1 DEF StoryGoesOn, WorldInv, WorldEventsTypeOK
    <2>2. newest' \in Story /\ since' <= newest'
        BY <2>1, WorldAssumption DEF Story
    <2> QED BY <2>1, <2>2 DEF WorldInv, WorldEventsTypeOK, OverlayProjects, Projects, Done, Open
<1>2. CASE \E t \in Story, touched \in SUBSET Front : WorldPass(touched, t)
    BY <1>2, PassKeeps
<1>3. CASE \E t \in Story : ForkStory(t)
    BY <1>3, ForkKeeps
<1>4. CASE UNCHANGED worldVars
    BY <1>4 DEF worldVars, WorldInv, WorldEventsTypeOK, OverlayProjects, Projects, Done, Open
<1> QED BY <1>1, <1>2, <1>3, <1>4 DEF WorldEventsNext

\* As long as a fork does not work on turns older than itself, every branch has an overlay:
\* every supersession record ends an event of the branch that is no younger.
THEOREM OverlaysProject ==
    ASSUME ~ LateInForks
    PROVE  WorldEventsSpec => []OverlayProjects
<1>1. WorldInv /\ [WorldEventsNext]_worldVars => WorldInv'
    BY WorldStep
<1>2. WorldInv => OverlayProjects
    BY DEF WorldInv
<1> QED BY <1>1, <1>2, WorldStart, PTL DEF WorldEventsSpec
\* Why a front that has come to a head keeps its event through every fork: the event is no younger
\* than one of its ticks, and a fork that cuts the event off cuts the tick off as well.  An event
\* admitted in this branch is of a front that stays full as long as the branch does.
ToldInv ==
    /\ WorldEventsTypeOK
    /\ \A f \in Front : Done(f) =>
          \E a \in events : a.front = f /\ \E i \in 1..Segments[f] : a.turn <= ticks[f][i]
    /\ \A a \in events : a.line <= line /\ (a.line = line => Done(a.front))
    /\ \A a, b \in events : a.front = b.front /\ a.line = line /\ b.line = line => a = b

LEMMA ToldStart == WorldEventsInit => ToldInv
<1> SUFFICES ASSUME WorldEventsInit PROVE ToldInv
    OBVIOUS
<1>1. WorldEventsTypeOK /\ events = {}
    BY WorldStart DEF WorldInv, WorldEventsInit
<1>2. \A f \in Front : ~ Done(f)
    BY WorldAssumption DEF WorldEventsInit, Done, Open
<1> QED BY <1>1, <1>2 DEF ToldInv

LEMMA PassTells ==
    ASSUME ToldInv, NEW t \in Story, NEW touched \in SUBSET Front, WorldPass(touched, t)
    PROVE  ToldInv'
<1>1. WorldEventsTypeOK
    BY DEF ToldInv
<1>2. /\ line' = line
      /\ events' = events \cup {Completion(f, t) : f \in Filling(touched)}
    BY DEF WorldPass
<1>3. \A f \in Filling(touched) :
         f \in Front /\ ~ Done(f) /\ Done(f)' /\ \E i \in 1..Segments[f] : ticks'[f][i] = t
    BY <1>1, PassFills
<1>4. /\ \A f \in Front : Done(f) => ticks'[f] = ticks[f] /\ Done(f)'
      /\ \A f \in Front : Done(f)' => Done(f) \/ f \in Filling(touched)
    BY <1>1, PassFills
<1>5. /\ line \in Nat /\ t \in Nat
      /\ \A f : /\ Completion(f, t).front = f /\ Completion(f, t).line = line
                /\ Completion(f, t).turn = t
    BY <1>1, WorldAssumption DEF WorldEventsTypeOK, Completion, Story
<1>6. ASSUME NEW f \in Front, Done(f)'
      PROVE  \E a \in events' : a.front = f /\ \E i \in 1..Segments[f] : a.turn <= ticks'[f][i]
    <2>1. CASE Done(f)
        BY <1>2, <1>4, <2>1 DEF ToldInv
    <2>2. CASE f \in Filling(touched)
        <3>1. PICK i \in 1..Segments[f] : ticks'[f][i] = t
            BY <1>3, <2>2
        <3>2. Completion(f, t) \in events' /\ Completion(f, t).turn <= ticks'[f][i]
            BY <1>2, <1>5, <2>2, <3>1
        <3> QED BY <1>5, <3>2
    <2> QED BY <1>4, <1>6, <2>1, <2>2
<1>7. ASSUME NEW a \in events' PROVE a.line <= line' /\ (a.line = line' => Done(a.front)')
    <2>1. CASE a \in events
        <3>1. a.front \in Front
            BY <1>1, <2>1 DEF WorldEventsTypeOK, Event
        <3> QED BY <1>2, <1>4, <2>1, <3>1 DEF ToldInv
    <2>2. CASE \E f \in Filling(touched) : a = Completion(f, t)
        BY <1>2, <1>3, <1>5, <2>2
    <2> QED BY <1>2, <2>1, <2>2
<1>8. ASSUME NEW a \in events', NEW b \in events',
             a.front = b.front, a.line = line', b.line = line'
      PROVE  a = b
    <2>1. ASSUME NEW c \in events, c.line = line PROVE c.front \notin Filling(touched)
        BY <1>3, <2>1 DEF ToldInv
    <2>2. CASE a \in events /\ b \in events
        BY <1>2, <1>8, <2>2 DEF ToldInv
    <2>3. CASE a \notin events /\ b \notin events
        BY <1>2, <1>5, <1>8, <2>3
    <2>4. \A c \in events' \ events : c.front \in Filling(touched)
        BY <1>2, <1>5
    <2> QED BY <1>2, <1>8, <2>1, <2>2, <2>3, <2>4
<1>9. WorldEventsTypeOK'
    BY <1>1, PassIsTyped
<1> QED BY <1>6, <1>7, <1>8, <1>9 DEF ToldInv

LEMMA ForkTells ==
    ASSUME ToldInv, NEW t \in Story, ForkStory(t)
    PROVE  ToldInv'
<1>1. WorldEventsTypeOK
    BY DEF ToldInv
<1>2. /\ line' = line + 1 /\ line \in Nat /\ t \in Nat
      /\ ticks' = [f \in Front |->
                    [i \in 1..Segments[f] |-> IF ticks[f][i] <= t THEN ticks[f][i] ELSE Empty]]
      /\ events' = {a \in events : a.turn <= t}
    BY <1>1, WorldAssumption DEF ForkStory, Inherited, WorldEventsTypeOK, Story
<1>3. WorldEventsTypeOK'
    BY <1>1, ForkIsTyped
<1>4. ASSUME NEW a \in events' PROVE a.line <= line' /\ a.line # line'
    <2>1. a \in events /\ a.line \in Nat /\ a.line <= line
        BY <1>1, <1>2, WorldAssumption DEF ToldInv, WorldEventsTypeOK, Event
    <2> QED BY <1>2, <2>1
<1>5. ASSUME NEW f \in Front, Done(f)'
      PROVE  \E a \in events' : a.front = f /\ \E i \in 1..Segments[f] : a.turn <= ticks'[f][i]
    <2>1. \A i \in 1..Segments[f] : ticks[f][i] # Empty /\ ticks[f][i] <= t /\ ticks'[f][i] = ticks[f][i]
        BY <1>2, <1>5 DEF Done, Open
    <2>2. Done(f)
        BY <2>1 DEF Done, Open
    <2>3. PICK a \in events : a.front = f /\ \E i \in 1..Segments[f] : a.turn <= ticks[f][i]
        BY <2>2 DEF ToldInv
    <2>4. PICK i \in 1..Segments[f] : a.turn <= ticks[f][i]
        BY <2>3
    <2>5. a.turn \in Story /\ ticks[f][i] \in Story \cup {Empty}
        BY <1>1 DEF WorldEventsTypeOK, Event
    <2>6. ticks[f][i] \in Int /\ a.turn \in Int
        BY <2>5, WorldAssumption DEF Story, Empty
    <2>7. ticks[f][i] <= t
        BY <2>1
    <2>8. a.turn <= t
        BY <1>2, <2>4, <2>6, <2>7
    <2> QED BY <1>2, <2>1, <2>3, <2>4, <2>8
<1> QED BY <1>3, <1>4, <1>5 DEF ToldInv

LEMMA ToldStep == ToldInv /\ [WorldEventsNext]_worldVars => ToldInv'
<1> SUFFICES ASSUME ToldInv, [WorldEventsNext]_worldVars PROVE ToldInv'
    OBVIOUS
<1>1. CASE StoryGoesOn
    <2>1. newest \in Story /\ newest' = newest + 1 /\ newest < MaxStory
        BY <1>1 DEF StoryGoesOn, ToldInv, WorldEventsTypeOK
    <2>2. newest' \in Story
        BY <2>1, WorldAssumption DEF Story
    <2> QED BY <1>1, <2>2 DEF StoryGoesOn, ToldInv, WorldEventsTypeOK, Done, Open
<1>2. CASE \E t \in Story, touched \in SUBSET Front : WorldPass(touched, t)
    BY <1>2, PassTells
<1>3. CASE \E t \in Story : ForkStory(t)
    BY <1>3, ForkTells
<1>4. CASE UNCHANGED worldVars
    BY <1>4 DEF worldVars, ToldInv, WorldEventsTypeOK, Done, Open
<1> QED BY <1>1, <1>2, <1>3, <1>4 DEF WorldEventsNext

\* The state of the fronts, of the events and of the records keeps its types.
THEOREM WorldIsTyped == WorldEventsSpec => []WorldEventsTypeOK
<1>1. ToldInv => WorldEventsTypeOK
    BY DEF ToldInv
<1> QED BY <1>1, ToldStart, ToldStep, PTL DEF WorldEventsSpec

\* A front that has come to a head has its event in the branch, through passes of older turns and
\* through every fork; on the first branch an event means a full front, and there is one of each.
THEOREM CompletionsTold == WorldEventsSpec => []CompletionsAreTold
<1>1. ToldInv => CompletionsAreTold
    <2> SUFFICES ASSUME ToldInv, NEW f \in Front
                 PROVE  LET told == {a \in events : a.front = f}
                        IN  /\ Done(f) => told # {}
                            /\ line = 0 => /\ told # {} => Done(f)
                                           /\ \A a, b \in told : a = b
        BY Zenon DEF CompletionsAreTold
    <2>1. Done(f) => \E a \in events : a.front = f
        BY DEF ToldInv
    <2>2. ASSUME line = 0, NEW a \in events PROVE a.line = line
        <3>1. a.line \in 0..MaxForks /\ a.line <= line /\ MaxForks \in Nat
            BY WorldAssumption DEF ToldInv, WorldEventsTypeOK, Event
        <3> QED BY <2>2, <3>1
    <2>3. line = 0 => /\ \A a \in events : a.front = f => Done(f)
                      /\ \A a, b \in events : a.front = f /\ b.front = f => a = b
        BY <2>2 DEF ToldInv
    <2> QED BY <2>1, <2>3
<1> QED BY <1>1, ToldStart, ToldStep, PTL DEF WorldEventsSpec

\* What a pass admits ends every other circumstance of the faction at its turn.
LEMMA PassReplaces ==
    ASSUME WorldInv, ToldInv, ~ LateInForks,
           NEW t \in Story, NEW touched \in SUBSET Front, WorldPass(touched, t),
           NEW a \in events' \ events,
           \A b \in events' \ events : Faction[b.front] = Faction[a.front] => a = b
    PROVE  {b \in InForceAt(a.turn)' : Faction[b.front] = Faction[a.front]} = {a}
<1> DEFINE full == Filling(touched)
<1>1. /\ t >= since /\ line' = line
      /\ events' = events \cup {Completion(g, t) : g \in full}
      /\ ended' = ended \cup Endings([g \in full |-> Lands(g, t, full)], t)
    BY DEF WorldPass
<1>2. PICK f \in full : a = Completion(f, t)
    BY <1>1
<1>3. /\ \A g \in full : g \in Front /\ ~ Done(g)
      /\ \A g : /\ Completion(g, t).front = g /\ Completion(g, t).line = line
                /\ Completion(g, t).turn = t
    BY PassFills DEF WorldInv, Completion
<1>4. a.front = f /\ a.turn = t /\ a.line = line /\ t \in Nat /\ f \in Front
    BY <1>2, <1>3, WorldAssumption DEF Story
<1>5. \A g \in full : Completion(g, t) \notin events
    BY <1>3 DEF ToldInv
<1>6. WorldInv'
    BY PassKeeps
<1>7. Projects /\ Projects'
    BY <1>6 DEF WorldInv, OverlayProjects
<1>8. a \in InForceAt(t)'
    <2>1. \A e \in ended : e.of # a
        BY <1>7 DEF Projects
    <2>2. ASSUME NEW e \in Endings([g \in full |-> Lands(g, t, full)], t) PROVE e.of \in events
        <3>1. PICK g \in full : \E c \in Lands(g, t, full) : e = [by |-> Completion(g, t), of |-> c]
            BY <2>2 DEF Endings
        <3>2. PICK c \in Lands(g, t, full) : e = [by |-> Completion(g, t), of |-> c]
            BY <3>1
        <3>3. c \in SupersededBy(g, t)
            BY DEF Lands
        <3>4. c \in events
            BY <1>1, <1>3, <3>3, DueIsOlder
        <3> QED BY <3>2, <3>4
    <2>3. \A e \in ended' : e.of # a
        BY <1>1, <2>1, <2>2
    <2>4. Lasts[f] = 0 \/ t < t + Lasts[f]
        BY <1>4, WorldAssumption
    <2> QED BY <1>4, <1>7, <2>3, <2>4 DEF InForceAt
<1>9. ASSUME NEW b \in InForceAt(t)', Faction[b.front] = Faction[f], b # a PROVE FALSE
    <2>1. /\ b \in events' /\ b.turn <= t
          /\ Lasts[b.front] = 0 \/ t < b.turn + Lasts[b.front]
          /\ \A e \in ended' : ~ (e.of = b /\ e.by.turn <= t)
        BY <1>9 DEF InForceAt
    <2>2. b \in events
        BY <1>4, <1>9, <2>1
    <2>3. b \in InForceAt(t)
        BY <1>1, <1>7, <2>1, <2>2 DEF InForceAt
    <2>4. b \in SupersededBy(f, t)
        BY <1>9, <2>3 DEF SupersededBy
    <2>5. ASSUME NEW g \in full, g < f, Faction[g] = Faction[f] PROVE FALSE
        <3>1. Completion(g, t) \in events' \ events
            BY <1>1, <1>5
        <3>2. Completion(g, t) = a
            BY <1>3, <1>4, <2>5, <3>1
        <3>3. g = f /\ f \in Int
            BY <1>3, <1>4, <3>2 DEF Front
        <3> QED BY <2>5, <3>3
    <2>6. b \in Lands(f, t, full)
        BY <2>4, <2>5 DEF Lands, Overtaken
    <2>7. [by |-> Completion(f, t), of |-> b] \in ended'
        BY <1>1, <1>2, <2>6 DEF Endings
    <2> QED BY <1>3, <1>4, <2>1, <2>7
<1> QED BY <1>4, <1>8, <1>9

\* As long as a fork does not work on turns older than itself, the event of a front that comes to
\* a head alone is at once the only circumstance of its faction at that turn.
THEOREM CompletionsTakeOver ==
    ASSUME ~ LateInForks
    PROVE  WorldEventsSpec => CompletionsReplace
<1> DEFINE Step == line' = line =>
              \A a \in events' \ events :
                 (\A b \in events' \ events : Faction[b.front] = Faction[a.front] => a = b) =>
                     {b \in InForceAt(a.turn)' : Faction[b.front] = Faction[a.front]} = {a}
<1>1. WorldInv /\ ToldInv /\ [WorldEventsNext]_worldVars => Step
    <2> SUFFICES ASSUME WorldInv, ToldInv, [WorldEventsNext]_worldVars, line' = line,
                        NEW a \in events' \ events,
                        \A b \in events' \ events : Faction[b.front] = Faction[a.front] => a = b
                 PROVE  {b \in InForceAt(a.turn)' : Faction[b.front] = Faction[a.front]} = {a}
        OBVIOUS
    <2>1. CASE \E t \in Story, touched \in SUBSET Front : WorldPass(touched, t)
        BY <2>1, PassReplaces
    <2>2. CASE \E t \in Story : ForkStory(t)
        BY <2>2 DEF ForkStory, WorldInv, WorldEventsTypeOK
    <2>3. CASE StoryGoesOn \/ UNCHANGED worldVars
        BY <2>3 DEF StoryGoesOn, worldVars
    <2> QED BY <2>1, <2>2, <2>3 DEF WorldEventsNext
<1>2. WorldInv /\ [WorldEventsNext]_worldVars => WorldInv'
    BY WorldStep
<1> QED BY <1>1, <1>2, WorldStart, ToldStart, ToldStep, PTL DEF WorldEventsSpec, CompletionsReplace

-----------------------------------------------------------------------------
(* The services side by side, as the run explores them *)

\* Whatever of the five a behaviour belongs to, it is a behaviour of each: what is proved of one
\* holds of every behaviour of the run.
THEOREM ServicesRunAll ==
    ServicesSpec => ChatSpec /\ GenesisFairSpec /\ LessonsSpec /\ SchemaSpec /\ WorldEventsSpec
<1>1. ServicesInit => ChatInit /\ GenesisInit /\ LessonsInit /\ SchemaInit /\ WorldEventsInit
    BY DEF ServicesInit
<1>2. [ServicesNext]_services => [ChatNext]_chatVars
    BY DEF ServicesNext, services, chatVars
<1>3. [ServicesNext]_services => [GenesisNext]_genesisVars
    BY DEF ServicesNext, services, genesisVars
<1>4. [ServicesNext]_services => [LessonsNext]_lessonVars
    BY DEF ServicesNext, services, lessonVars
<1>5. [ServicesNext]_services => [SchemaNext]_schemaVars
    BY DEF ServicesNext, services, schemaVars
<1>6. [ServicesNext]_services => [WorldEventsNext]_worldVars
    BY DEF ServicesNext, services, worldVars
<1> QED BY <1>1, <1>2, <1>3, <1>4, <1>5, <1>6, PTL
        DEF ServicesSpec, ChatSpec, GenesisSpec, GenesisFairSpec, LessonsSpec, SchemaSpec,
            WorldEventsSpec

\* The state of all five has its types.
THEOREM ServicesAreTyped == ServicesSpec => []ServicesTypeOK
<1>1. ChatTypeOK /\ GenesisTypeOK /\ LessonsTypeOK /\ SchemaTypeOK /\ WorldEventsTypeOK
        => ServicesTypeOK
    BY DEF ServicesTypeOK
<1> QED BY <1>1, ServicesRunAll, ChatIsTyped, GenesisIsTyped, LessonsAreTyped, SchemaIsTyped,
           WorldIsTyped, PTL DEF GenesisFairSpec
=============================================================================

---------------------------- MODULE ChatReplies ----------------------------
(***************************************************************************)
(* The accepted replies of one branch of a Chat session: which of the      *)
(* model's answers becomes the reply of a turn, what is recognised in it   *)
(* and extracted from it later, what a regenerate retracts, and what the   *)
(* next request is reminded of (store.py, pipeline.py, jobs.py, memory.py).*)
(*                                                                         *)
(* A request is handled in one transaction without awaiting, and so is an  *)
(* answer when its stream has ended.  A cold job awaits its model once and *)
(* commits in one transaction.                                             *)
(***************************************************************************)
EXTENDS Integers, FiniteSets

CONSTANTS
    Texts,        \* what the model may answer
    None,
    MaxTurn,      \* bound: the last turn
    MaxSwipes,    \* bound: regenerates of a turn
    MaxRestarts,  \* bound: process crashes
    Cadence,      \* [extraction].cadence_turns
    RetryLimit,   \* [extraction].transient_batch_retries
    LiveRecalc    \* [extraction].live_recalc

ASSUME ChatAssumption ==
    /\ MaxTurn \in Nat /\ MaxSwipes \in Nat /\ MaxRestarts \in Nat
    /\ Cadence \in Nat \ {0} /\ RetryLimit \in Nat /\ LiveRecalc \in BOOLEAN
    /\ None \notin Texts

Turn  == 0..MaxTurn
Count == 0..MaxSwipes
\* accepted_response_occurrence_id: the hash of the turn, the attempt and the text.
Reply == [count : Count, text : Texts \cup {None}]
NoReply == [count |-> 0, text |-> None]

TurnRow == [known : BOOLEAN, count : Count, reply : Reply, receipt : Reply,
            settled : BOOLEAN, progress : {"pending", "done", "failed", "skipped"}]
Flight  == [turn : Turn, count : Count]
\* A journal row with the lineage of a reply, written when the reply was accepted or, with the
\* memory it indexes, by the cold job.
Fact    == [turn : Turn, reply : Reply, cold : BOOLEAN]
Recall  == [for : 1..(MaxTurn + 1), turn : Turn, reply : Reply, refs : SUBSET Fact]
Batch   == [turn : Turn, reply : Reply, asked : BOOLEAN]
Again   == [turn : Turn, reply : Reply]
NoBatch == [turn |-> 0, reply |-> NoReply, asked |-> FALSE]

VARIABLES
    turn,      \* the turns, turn_texts and receipts of the branch
    head,      \* branches.head_turn
    flights,   \* memory: requests the model has not answered yet
    facts,     \* ops_journal and memories that carry a reply's lineage
    recall,    \* recall_records
    jobs,      \* memory of JobRunner: batch, debounce timer, delayed retries and their number
    shown,     \* history: the facts the latest request was reminded of
    restarts

chatVars == <<turn, head, flights, facts, recall, jobs, shown, restarts>>

NoTurn == [known |-> FALSE, count |-> 0, reply |-> NoReply, receipt |-> NoReply,
           settled |-> FALSE, progress |-> "pending"]
NoJobs == [batch |-> NoBatch, timer |-> FALSE, retries |-> {}, used |-> [t \in Turn |-> 0]]

-----------------------------------------------------------------------------
(* The rows *)

\* Mutant: a candidate of an older attempt is taken when the turn has no reply.
AnyAttempt(r, f) == r.known /\ r.reply = NoReply

\* publish_chat_response_if_current: the attempt still owns the turn, and nothing was accepted.
Publishable(r, f) == r.known /\ r.count = f.count /\ r.reply = NoReply

\* The receipts are inserted unless there are some (INSERT OR IGNORE).
Published(r, id) ==
    [r EXCEPT !.reply = id, !.receipt = IF @ = NoReply THEN id ELSE @]

\* retract_chat_response_at: the row is open for the reply that replaces this one.
Retracted(r) ==
    [r EXCEPT !.reply = NoReply, !.progress = "pending",
              !.receipt = IF @ = r.reply THEN NoReply ELSE @]

\* Mutant: what the cold job extracted stays.
AbandonedEarly(F, t, id) == {f \in F : f.turn = t /\ f.reply = id /\ ~ f.cold}

\* The journal rows and memories a retraction deletes.
Abandoned(F, t, id) == {f \in F : f.turn = t /\ f.reply = id}

\* settle_head
SettledHead(T) ==
    IF head \in Turn /\ T[head].reply # NoReply THEN [T EXCEPT ![head].settled = TRUE] ELSE T

\* Mutant: only the row's own reply is compared, not what its lines rest on.
LineageOnly(row, T, F) == T[row.turn].reply = row.reply

\* read_recall: the reply the row was written for and every operation it rests on are current.
Readable(row, T, F) ==
    /\ T[row.turn].reply = row.reply
    /\ \A f \in row.refs : f \in F /\ T[f.turn].reply = f.reply

Reminders(k, T, F, R) == UNION {r.refs : r \in {x \in R : x.for = k /\ Readable(x, T, F)}}

-----------------------------------------------------------------------------
(* The job runner, for a Chat session: one turn at a time *)

Pending(T) == {t \in Turn : T[t].known /\ T[t].settled /\ T[t].progress = "pending"}
First(S)   == CHOOSE t \in S : \A u \in S : t <= u

\* _flush: the first pending turn, if it has an accepted reply.
Flushed(T, m) ==
    IF \/ Pending(T) = {} \/ m.batch # NoBatch
       \/ T[First(Pending(T))].reply = NoReply
    THEN [m EXCEPT !.timer = FALSE]
    ELSE [m EXCEPT !.timer = FALSE,
                   !.batch = [turn |-> First(Pending(T)), reply |-> T[First(Pending(T))].reply,
                              asked |-> FALSE]]

\* notify
Notified(T, m) ==
    IF Pending(T) # {} /\ m.batch # NoBatch THEN m
    ELSE IF Cardinality(Pending(T)) >= Cadence THEN Flushed(T, m)
    ELSE [m EXCEPT !.timer = TRUE]

\* The end of _run_guarded: more turns may have settled meanwhile.
Freed(T, m) ==
    IF Pending(T) = {} THEN [m EXCEPT !.batch = NoBatch]
    ELSE Notified(T, [m EXCEPT !.batch = NoBatch])

\* _batch_candidate_current
BatchCurrent(T, b) == T[b.turn].reply = b.reply /\ T[b.turn].progress = "pending"

\* Mutant: one retry too many.
MayRetryOnceMore(used, t) == used[t] <= RetryLimit

\* _schedule_transient_retry: the turn has retries left.
MayRetry(used, t) == used[t] < RetryLimit

-----------------------------------------------------------------------------
(* Requests and answers *)

\* The next message: it settles every turn before it and is reminded of what was prepared.
Send ==
    /\ head < MaxTurn
    /\ head' = head + 1
    /\ turn' = [t \in Turn |-> IF t = head + 1 THEN [turn[t] EXCEPT !.known = TRUE]
                               ELSE IF turn[t].known THEN [turn[t] EXCEPT !.settled = TRUE]
                               ELSE turn[t]]
    /\ flights' = flights \cup {[turn |-> head + 1, count |-> 0]}
    /\ shown' = Reminders(head + 1, turn', facts, recall)
    /\ UNCHANGED <<facts, recall, jobs, restarts>>

\* Regenerate: the accepted reply of the head is retracted with all that came of it, and the
\* next attempt goes out (apply_deferred_chat_swipe).
Swipe ==
    LET id == turn[head].reply
    IN  /\ head \in Turn /\ turn[head].count < MaxSwipes
        /\ turn' = [turn EXCEPT ![head] = [Retracted(turn[head]) EXCEPT !.count = @ + 1]]
        /\ facts' = IF id = NoReply THEN facts ELSE facts \ Abandoned(facts, head, id)
        /\ recall' = {r \in recall : id = NoReply \/ r.turn # head \/ r.reply # id}
        /\ flights' = flights \cup {[turn |-> head, count |-> turn[head].count + 1]}
        /\ shown' = Reminders(head, turn', facts', recall')
        /\ UNCHANGED <<head, jobs, restarts>>

\* A transport duplicate of a request gets the same packet again.
Resend(f) ==
    /\ f \in [turn : {head}, count : {turn[head].count}] /\ f \notin flights
    /\ flights' = flights \cup {f}
    /\ UNCHANGED <<turn, head, facts, recall, jobs, shown, restarts>>

\* on_response: the answer is accepted or comes too late; recognition is a nested savepoint
\* that may fail open.  Live recalculation settles the head unless the session just began.
Answer(f, x, recognised) ==
    /\ f \in flights
    /\ flights' = flights \ {f}
    /\ IF Publishable(turn[f.turn], f)
       THEN LET id   == [count |-> f.count, text |-> x]
                kept == [turn EXCEPT ![f.turn] = Published(@, id)]
                next == IF LiveRecalc /\ f.turn > 0 THEN SettledHead(kept) ELSE kept
            IN  /\ turn' = next
                /\ facts' = IF recognised
                            THEN facts \cup {[turn |-> f.turn, reply |-> id, cold |-> FALSE]}
                            ELSE facts
                /\ jobs' = Notified(next, jobs)
       ELSE UNCHANGED <<turn, facts, jobs>>
    /\ UNCHANGED <<head, recall, shown, restarts>>

\* The answer never arrives.
Lost(f) ==
    /\ f \in flights
    /\ flights' = flights \ {f}
    /\ UNCHANGED <<turn, head, facts, recall, jobs, shown, restarts>>

-----------------------------------------------------------------------------
(* Cold jobs *)

TimerFires ==
    /\ jobs.timer
    /\ turn' = SettledHead(turn)
    /\ jobs' = Flushed(SettledHead(turn), jobs)
    /\ UNCHANGED <<head, flights, facts, recall, shown, restarts>>

\* The batch is taken from the queue and asks the model, unless its reply is gone.
Ask ==
    /\ jobs.batch # NoBatch /\ ~ jobs.batch.asked
    /\ jobs' = IF BatchCurrent(turn, jobs.batch) THEN [jobs EXCEPT !.batch.asked = TRUE]
               ELSE Freed(turn, jobs)
    /\ UNCHANGED <<turn, head, flights, facts, recall, shown, restarts>>

\* The reply was replaced while the model was asked: nothing of the answer is written.
Discard ==
    /\ jobs.batch.asked /\ ~ BatchCurrent(turn, jobs.batch)
    /\ jobs' = Freed(turn, jobs)
    /\ UNCHANGED <<turn, head, flights, facts, recall, shown, restarts>>

\* The commit: facts with their memories, the lines for the turn after it, and the status.
Extract(refs) ==
    LET b    == jobs.batch
        fact == [turn |-> b.turn, reply |-> b.reply, cold |-> TRUE]
        done == [turn EXCEPT ![b.turn].progress = "done"]
    IN  /\ b.asked /\ BatchCurrent(turn, b) /\ turn[b.turn].receipt = b.reply
        /\ facts' = facts \cup {fact}
        /\ refs \subseteq {f \in facts' : f.cold /\ turn[f.turn].reply = f.reply}
        /\ recall' = {r \in recall : r.for # b.turn + 1} \cup
                     (IF refs = {} THEN {}
                      ELSE {[for |-> b.turn + 1, turn |-> b.turn, reply |-> b.reply,
                             refs |-> refs]})
        /\ turn' = done
        /\ jobs' = Freed(done, [jobs EXCEPT !.used[b.turn] = 0])
        /\ UNCHANGED <<head, flights, shown, restarts>>

\* The model failed or the commit was rolled back; a transient failure is tried again later.
Fail(transient) ==
    LET b      == jobs.batch
        failed == [turn EXCEPT ![b.turn].progress = "failed"]
        again  == transient /\ MayRetry(jobs.used, b.turn)
        next   == IF again
                  THEN [jobs EXCEPT !.used[b.turn] = @ + 1,
                                    !.retries = @ \cup {[turn |-> b.turn, reply |-> b.reply]}]
                  ELSE IF transient THEN [jobs EXCEPT !.used[b.turn] = 0] ELSE jobs
    IN  /\ b.asked /\ BatchCurrent(turn, b)
        /\ turn' = failed
        /\ jobs' = Freed(failed, next)
        /\ UNCHANGED <<head, flights, facts, recall, shown, restarts>>

\* The delayed retry: only of the reply that failed.
Retry(a) ==
    LET due  == turn[a.turn].reply = a.reply /\ turn[a.turn].progress = "failed"
        open == [turn EXCEPT ![a.turn].progress = "pending"]
        less == [jobs EXCEPT !.retries = @ \ {a}]
    IN  /\ a \in jobs.retries
        /\ turn' = IF due THEN open ELSE turn
        /\ jobs' = IF due THEN Notified(open, less) ELSE less
        /\ UNCHANGED <<head, flights, facts, recall, shown, restarts>>

\* The process crashes and starts again: resume_pending.
Restart ==
    /\ restarts < MaxRestarts
    /\ restarts' = restarts + 1
    /\ flights' = {}
    /\ jobs' = Flushed(turn, NoJobs)
    /\ UNCHANGED <<turn, head, facts, recall, shown>>

-----------------------------------------------------------------------------
ChatInit ==
    /\ turn = [t \in Turn |-> NoTurn]
    /\ head = -1
    /\ flights = {} /\ facts = {} /\ recall = {} /\ shown = {}
    /\ jobs = NoJobs
    /\ restarts = 0

ChatNext ==
    \/ Send \/ Swipe
    \/ \E f \in flights : Lost(f) \/ \E x \in Texts, recognised \in BOOLEAN : Answer(f, x, recognised)
    \/ head \in Turn /\ \E f \in {[turn |-> head, count |-> turn[head].count]} : Resend(f)
    \/ TimerFires \/ Ask \/ Discard
    \/ \E refs \in SUBSET (facts \cup {[turn |-> jobs.batch.turn, reply |-> jobs.batch.reply,
                                       cold |-> TRUE]}) : Extract(refs)
    \/ \E transient \in BOOLEAN : Fail(transient)
    \/ \E a \in jobs.retries : Retry(a)
    \/ Restart

ChatSpec == ChatInit /\ [][ChatNext]_chatVars

-----------------------------------------------------------------------------
(* Properties *)

\* The types of the state.
ChatTypeOK ==
    /\ turn \in [Turn -> TurnRow]
    /\ head \in Turn \cup {-1}
    /\ flights \in SUBSET Flight
    /\ facts \in SUBSET Fact /\ shown \in SUBSET Fact
    /\ recall \in SUBSET Recall
    /\ jobs \in [batch : Batch, timer : BOOLEAN, retries : SUBSET Again,
                 used : [Turn -> 0..RetryLimit]]
    /\ restarts \in 0..MaxRestarts

\* The reply of a turn answers its latest attempt, and its receipts are those of that reply
\* (publish_chat_response_if_current, retract_chat_response_at).
ReplyIsLatest ==
    \A t \in Turn :
        /\ turn[t].reply # NoReply => turn[t].reply.count = turn[t].count
        /\ turn[t].receipt = turn[t].reply

\* Everything in the ledger that came of a reply came of one that is still accepted: neither a
\* late answer nor a late extraction of an abandoned reply leaves anything behind.
FactsRestOnReplies == \A f \in facts : turn[f.turn].reply = f.reply /\ f.reply # NoReply

\* An accepted reply is only ever taken back by a regenerate of its turn, and then with all
\* that came of it; nothing replaces it in place.
AcceptedOnce ==
    [][\A t \in Turn : turn[t].reply # NoReply /\ turn'[t].reply # turn[t].reply =>
        /\ turn'[t].reply = NoReply /\ turn'[t].count = turn[t].count + 1 /\ t = head
        /\ \A f \in facts' : f.turn # t]_chatVars

\* What a request is reminded of rests on facts of accepted replies only, also when the turn
\* behind a line was regenerated after the line was written (read_recall).
RemindersAreCurrent == [][shown' # shown => shown' \subseteq facts']_chatVars
=============================================================================

--------------------------- MODULE ExtractionJobs ---------------------------
(***************************************************************************)
(* The Tier-1 extraction scheduler of jobs.py for one branch of a session: *)
(* when settled turns are batched, what a batch may commit after its model *)
(* call, the debounce and retry timers, the automatic disabling, and what  *)
(* a restart recovers from the database.                                   *)
(*                                                                         *)
(* JobRunner runs on one event loop: the code between two awaits is one    *)
(* step.  The turn rows are in the database and survive a crash; the queue *)
(* and every timer and counter of JobRunner are in memory and do not.      *)
(***************************************************************************)
EXTENDS Integers, FiniteSets, FiniteSetsExt

CONSTANTS
    MaxTurn,        \* bound: the last turn a request opens
    MaxRestarts,    \* bound: process crashes in a behaviour
    Cadence,        \* [extraction].cadence_turns
    BatchMax,       \* [extraction].batch_max_turns
    RetryLimit,     \* [extraction].transient_batch_retries
    FailLimit,      \* [extraction].fail_autodisable_after
    ReenableAfter,  \* [extraction].fail_reenable_after_turns
    LiveRecalc      \* [extraction].live_recalc

ASSUME JobsAssumption ==
    /\ MaxTurn \in Nat /\ MaxRestarts \in Nat /\ RetryLimit \in Nat /\ ReenableAfter \in Nat
    /\ Cadence \in Nat \ {0} /\ BatchMax \in Nat \ {0} /\ FailLimit \in Nat \ {0}
    /\ LiveRecalc \in BOOLEAN

Turn     == 0..MaxTurn
NoTurn   == -1
Progress == {"none", "pending", "done", "failed", "skipped"}
\* text: turn_texts holds something of the turn; replied: it holds the assistant's reply.
TurnRow  == [progress : Progress, settled : BOOLEAN, text : BOOLEAN, replied : BOOLEAN]
Span     == {s \in Turn \X Turn : s[1] <= s[2]}
Batch    == [span : Span, head : Turn, stage : {"queue", "model", "post"}]
Retry    == [span : Span, head : Turn]

\* What JobRunner keeps in memory: the batches in its queue or in flight, whether _queued
\* holds the branch, the head the debounce timer was armed with, the delayed retries and how
\* many each span used, the session's consecutive failures and the turn it is disabled until.
Memory == [batches : SUBSET Batch, queued : BOOLEAN, timer : Turn \cup {NoTurn},
           retries : SUBSET Retry, used : [Span -> 0..RetryLimit],
           fails : Nat, until : Nat \cup {NoTurn}]

VARIABLES
    turn,       \* the turns rows of the branch
    head,       \* branches.head_turn
    mem,        \* the memory of the JobRunner
    restarts    \* crashes so far

vars == <<turn, head, mem, restarts>>

EmptyMemory ==
    [batches |-> {}, queued |-> FALSE, timer |-> NoTurn, retries |-> {},
     used |-> [s \in Span |-> 0], fails |-> 0, until |-> NoTurn]

-----------------------------------------------------------------------------
(* The turn rows *)

Within(t, s) == s[1] <= t /\ t <= s[2]
Recorded(T)  == {t \in Turn : T[t].progress # "none"}
Pending(T)   == {t \in Turn : T[t].settled /\ T[t].progress = "pending"}

RangeIs(T, s, status) ==
    /\ \E t \in Recorded(T) : Within(t, s)
    /\ \A t \in Recorded(T) : Within(t, s) => T[t].progress = status

\* Mutant: the status is written whatever a retry has made of the turn meanwhile.
MarkAnyway(T, s, status, expected) ==
    [t \in Turn |-> IF Within(t, s) THEN [T[t] EXCEPT !.progress = status] ELSE T[t]]

\* store.mark_extraction, only from the expected status.
Mark(T, s, status, expected) ==
    [t \in Turn |-> IF Within(t, s) /\ T[t].progress = expected
                    THEN [T[t] EXCEPT !.progress = status] ELSE T[t]]

SettleHead(T) ==
    IF head \in Turn /\ T[head].replied THEN [T EXCEPT ![head].settled = TRUE] ELSE T

\* store.record_turn, with or without the request's own text (history the host replays
\* into a new session is recorded without).
RecordTurn(T, t, text) ==
    [i \in Turn |-> IF i < t THEN [T[i] EXCEPT !.settled = i \in Recorded(T)]
                    ELSE IF i = t THEN [progress |-> "pending", settled |-> FALSE,
                                        text |-> text, replied |-> FALSE]
                    ELSE T[i]]

-----------------------------------------------------------------------------
(* Scheduling *)

\* The turns a batch takes: the oldest pending ones.
Due(T) == {t \in Pending(T) : Cardinality({u \in Pending(T) : u < t}) < BatchMax}

\* Mutant: the guard on _queued is lost.
FlushAlways(m, T, h) ==
    IF Pending(T) = {} THEN [m EXCEPT !.timer = NoTurn]
    ELSE [m EXCEPT !.timer = NoTurn, !.queued = TRUE,
                   !.batches = @ \cup {[span |-> <<Min(Due(T)), Max(Due(T))>>, head |-> h,
                                        stage |-> "queue"]}]

\* JobRunner._flush: one batch of a branch at a time.
Flush(m, T, h) ==
    IF Pending(T) = {} \/ m.queued THEN [m EXCEPT !.timer = NoTurn]
    ELSE [m EXCEPT !.timer = NoTurn, !.queued = TRUE,
                   !.batches = @ \cup {[span |-> <<Min(Due(T)), Max(Due(T))>>, head |-> h,
                                        stage |-> "queue"]}]

Disabled(m, h) == m.until # NoTurn /\ h < m.until

\* JobRunner.notify: with nothing pending, or less than the cadence, the idle debounce is
\* armed; while a batch is queued or in flight nothing is.
Notify(m, T, h) ==
    LET m1 == IF m.until = NoTurn THEN m ELSE [m EXCEPT !.until = NoTurn, !.fails = 0]
        n  == Cardinality(Pending(T))
    IN  CASE Disabled(m, h)                           -> m
          [] ~ Disabled(m, h) /\ n > 0 /\ m.queued    -> m1
          [] ~ Disabled(m, h) /\ n >= Cadence
             /\ ~ m.queued                            -> Flush(m1, T, h)
          [] OTHER                                    -> [m1 EXCEPT !.timer = h]

\* Mutant: a finished batch does not look for turns that settled meanwhile.
FinishQuietly(m, b, T) == [m EXCEPT !.batches = @ \ {b}, !.queued = FALSE]

\* JobRunner._run_guarded, its finally block.
Finish(m, b, T) ==
    LET m1 == [m EXCEPT !.batches = @ \ {b}, !.queued = FALSE]
    IN  IF Pending(T) = {} THEN m1 ELSE Notify(m1, T, b.head)

-----------------------------------------------------------------------------
(* The pipeline's side *)

Init ==
    /\ turn = [t \in Turn |-> [progress |-> "none", settled |-> FALSE, text |-> FALSE,
                               replied |-> FALSE]]
    /\ head = NoTurn
    /\ mem = EmptyMemory
    /\ restarts = 0

Request(text) ==
    /\ head < MaxTurn
    /\ head' = head + 1
    /\ turn' = RecordTurn(turn, head + 1, text)
    /\ UNCHANGED <<mem, restarts>>

\* Pipeline.on_response for the head turn: the reply is stored, live recalculation settles
\* the head of all but a session's first turn, and the scheduler is notified.
Reply ==
    /\ head \in Turn /\ ~ turn[head].replied /\ turn[head].progress # "skipped"
    /\ LET T == [turn EXCEPT ![head].replied = TRUE, ![head].text = TRUE]
       IN  /\ turn' = IF LiveRecalc /\ head > 0 THEN SettleHead(T) ELSE T
           /\ mem' = Notify(mem, turn', head)
    /\ UNCHANGED <<head, restarts>>

\* Pipeline.on_response for a request that goes on with the head turn ("continue"), whatever
\* has become of the turn; the first turn of a session is settled here as well.
ContinueReply ==
    /\ head \in Turn
    /\ LET T == [turn EXCEPT ![head].replied = TRUE, ![head].text = TRUE]
       IN  /\ turn' = IF LiveRecalc THEN SettleHead(T) ELSE T
           /\ mem' = Notify(mem, turn', head)
    /\ UNCHANGED <<head, restarts>>

\* Pipeline.on_response for a narration retry: the text only.
RetryReply ==
    /\ head \in Turn /\ ~ turn[head].replied /\ turn[head].progress = "skipped"
    /\ turn' = [turn EXCEPT ![head].replied = TRUE, ![head].text = TRUE]
    /\ UNCHANGED <<head, mem, restarts>>

\* store.retract_extraction_at, when a narration retry of the head turn starts.
Swipe ==
    /\ head \in Turn
    /\ turn' = [turn EXCEPT ![head].progress = "skipped", ![head].replied = FALSE]
    /\ UNCHANGED <<head, mem, restarts>>

-----------------------------------------------------------------------------
(* The runner's side *)

\* The idle debounce: settle the head, then flush whatever is pending.
DebounceFires ==
    /\ mem.timer # NoTurn
    /\ turn' = SettleHead(turn)
    /\ mem' = Flush(mem, turn', mem.timer)
    /\ UNCHANGED <<head, restarts>>

Staged(b, stage) == [mem EXCEPT !.batches = (@ \ {b}) \cup {[b EXCEPT !.stage = stage]}]

\* JobRunner._work and the start of _run_batch: a span without any text is skipped, any
\* other goes to the model.
Start(b) ==
    /\ b.stage = "queue"
    /\ IF \E t \in Turn : Within(t, b.span) /\ turn[t].text
       THEN mem' = Staged(b, "model") /\ UNCHANGED turn
       ELSE /\ turn' = Mark(turn, b.span, "skipped", "pending")
            /\ mem' = Finish(mem, b, turn')
    /\ UNCHANGED <<head, restarts>>

\* The model answers and the span still awaits this batch: the delta commits, the span is
\* done, and the post-processing passes (which await) begin.
Commit(b) ==
    /\ b.stage = "model" /\ RangeIs(turn, b.span, "pending")
    /\ turn' = Mark(turn, b.span, "done", "pending")
    /\ mem' = [Staged(b, "post") EXCEPT !.fails = 0, !.used[b.span] = 0]
    /\ UNCHANGED <<head, restarts>>

\* The model answers for a span that has been retired meanwhile.
DiscardRetired(b) ==
    /\ b.stage = "model" /\ ~ RangeIs(turn, b.span, "pending")
    /\ mem' = Finish([mem EXCEPT !.fails = 0, !.used[b.span] = 0], b, turn)
    /\ UNCHANGED <<turn, head, restarts>>

PostDone(b) ==
    /\ b.stage = "post"
    /\ mem' = Finish(mem, b, turn)
    /\ UNCHANGED <<turn, head, restarts>>

\* Mutant: the number of retries a span has used is not compared with the limit.
FailTransientAgain(b) ==
    /\ b.stage = "model"
    /\ turn' = Mark(turn, b.span, "failed", "pending")
    /\ mem' = Finish([mem EXCEPT !.used[b.span] = @ + 1,
                                 !.retries = @ \cup {[span |-> b.span, head |-> b.head]}],
                     b, turn')
    /\ UNCHANGED <<head, restarts>>

\* The ladder gives up on a transient upstream failure and a delayed retry is due.
FailTransient(b) ==
    /\ b.stage = "model" /\ mem.used[b.span] < RetryLimit
    /\ turn' = Mark(turn, b.span, "failed", "pending")
    /\ mem' = Finish([mem EXCEPT !.used[b.span] = @ + 1,
                                 !.retries = @ \cup {[span |-> b.span, head |-> b.head]}],
                     b, turn')
    /\ UNCHANGED <<head, restarts>>

\* The ladder gives up for good; enough of these in a row disable the session.
Fail(b, transient) ==
    LET n  == mem.fails + 1
        m1 == [mem EXCEPT !.fails = n,
                          !.until = IF n >= FailLimit THEN b.head + ReenableAfter ELSE @,
                          !.used[b.span] = IF transient THEN 0 ELSE @]
    IN
    /\ b.stage = "model" /\ (transient => mem.used[b.span] = RetryLimit)
    /\ turn' = Mark(turn, b.span, "failed", "pending")
    /\ mem' = Finish(m1, b, turn')
    /\ UNCHANGED <<head, restarts>>

\* An exception of the job: failed, and not counted.
JobRaises(b) ==
    /\ b.stage = "model"
    /\ turn' = Mark(turn, b.span, "failed", "pending")
    /\ mem' = Finish(mem, b, turn')
    /\ UNCHANGED <<head, restarts>>

\* The delayed retry: failed turns await extraction again; the scheduler hears of it when
\* that is the whole span.
RetryFires(r) ==
    LET m1 == [mem EXCEPT !.retries = @ \ {r}] IN
    /\ turn' = Mark(turn, r.span, "pending", "failed")
    /\ mem' = IF RangeIs(turn', r.span, "pending") THEN Notify(m1, turn', r.head) ELSE m1
    /\ UNCHANGED <<head, restarts>>

\* The process dies and JobRunner.resume_pending runs at the next start.  A batch that had
\* committed its delta and not yet marked its span (two transactions) is among those that are
\* formed again.
Restarted == Flush(EmptyMemory, turn, head)

Restart ==
    /\ restarts < MaxRestarts
    /\ restarts' = restarts + 1
    /\ mem' = Restarted
    /\ UNCHANGED <<turn, head>>

Runner(b) ==
    \/ Start(b)
    \/ Commit(b)
    \/ DiscardRetired(b)
    \/ PostDone(b)
    \/ FailTransient(b)
    \/ \E transient \in BOOLEAN : Fail(b, transient)
    \/ JobRaises(b)

Step ==
    \/ DebounceFires
    \/ \E b \in mem.batches : Runner(b)
    \/ \E r \in mem.retries : RetryFires(r)

Next ==
    \/ \E text \in BOOLEAN : Request(text)
    \/ Reply
    \/ ContinueReply
    \/ RetryReply
    \/ Swipe
    \/ Step
    \/ Restart

Spec == Init /\ [][Next]_vars

\* Timers fire, the queue is served and every model call returns (the ladder's calls time
\* out).  Nothing is assumed of the host or of restarts.
Fairness ==
    /\ WF_vars(DebounceFires)
    /\ WF_vars(\E b \in mem.batches : Runner(b))
    /\ WF_vars(\E r \in mem.retries : RetryFires(r))

FairSpec == Spec /\ Fairness

-----------------------------------------------------------------------------
(* Properties *)

TypeOK ==
    /\ turn \in [Turn -> TurnRow]
    /\ head \in Turn \cup {NoTurn}
    /\ mem \in Memory
    /\ restarts \in 0..MaxRestarts

\* A branch has at most one batch queued or in flight, and _queued says exactly when: timers,
\* retries, notifications and the end of a batch never start a second one beside it.
OneBatchPerBranch ==
    /\ Cardinality(mem.batches) <= 1
    /\ mem.queued <=> mem.batches # {}

\* What a narration retry has retired stays retired, and what has been extracted is extracted
\* again by nobody: no late model answer, failure, delayed retry or restart gives such a turn
\* another status, except that a narration retry retires an extracted turn.
DecisionsStand ==
    [][\A t \in Turn :
        /\ turn[t].progress = "skipped" => turn'[t].progress = "skipped"
        /\ turn[t].progress = "done" => turn'[t].progress \in {"done", "skipped"}]_vars

\* A settled turn that awaits extraction while the scheduler has something to do (a batch, or
\* an armed timer) is decided in the end, unless the session has been disabled.
ScheduledTurnsAreDecided ==
    \A t \in Turn :
        (t \in Pending(turn) /\ (mem.queued \/ mem.timer # NoTurn))
            ~> (t \notin Pending(turn) \/ mem.until # NoTurn)
=============================================================================

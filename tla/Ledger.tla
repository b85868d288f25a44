------------------------------- MODULE Ledger -------------------------------
(***************************************************************************)
(* The state spine of AetherState: store.py's branches, turns, operation   *)
(* journal, checkpoints and effect receipts, with the one commit primitive *)
(* of state.py (apply_delta) that writes them.                             *)
(*                                                                         *)
(* Every handler of the program runs its database work inside              *)
(* Store.transaction, under one process-wide lock, so a transaction is one *)
(* step here.  A branch is a record; the operations of the store are       *)
(* operators from branch records to branch records, and a transaction that *)
(* makes several calls composes them.                                      *)
(*                                                                         *)
(* The reducer is left free: the state a branch replays to is how often    *)
(* each committed delta was applied (a bag of commit numbers), which is    *)
(* the most any reducer can distinguish apart from order.                  *)
(***************************************************************************)
EXTENDS Integers, FiniteSets

CONSTANTS
    Branches,         \* branch identities; Root is the one a session starts on
    Root,
    Wounds,           \* (family, target, direction) triples of damage operations
    NoWound,          \* the wound of a delta without a damage operation
    NoEffect,         \* the effect of a journal row without a damage operation
    NoCheckpoint,     \* no checkpoints row for this turn
    MaxTurn,          \* bound: the last turn index a request may open
    MaxCommits,       \* bound: the number of deltas committed in a behaviour
    CheckpointEvery,  \* [session].checkpoint_every_turns; 0 turns checkpoints off
    BatchMax,         \* [extraction].batch_max_turns
    PruneKeep,        \* fork_branch's prune_keep: dead branches kept per session
    LateReplies,      \* TRUE when a host may open a request while an older stream still runs
    ColdPath,         \* TRUE when Tier-1 extraction runs ([extraction].mode)
    LiveRecalcs,      \* the values of [extraction].live_recalc: both when a restart may change it
    Deltas            \* the deltas the environment submits, a subset of Delta

Turn     == 0..MaxTurn          \* turns a request opens
TurnIdx  == 0..(MaxTurn + 1)    \* turns a checkpoint can carry: creator writes run ahead
RowTurn  == -1..(MaxTurn + 1)   \* turns a row can carry: -1 is the head of a fresh branch
Commit   == 1..MaxCommits
Source   == {"user", "rule", "extraction"}
Owner    == {"code", "reply_tag", "extraction"}
Progress == {"none", "pending", "done", "failed", "skipped"}
Delta    == [plain : BOOLEAN, wound : Wounds \cup {NoWound}]

ASSUME LedgerAssumption ==
    /\ Root \in Branches
    /\ NoWound \notin Wounds
    /\ MaxTurn \in Nat /\ MaxCommits \in Nat
    /\ CheckpointEvery \in Nat /\ BatchMax \in Nat \ {0} /\ PruneKeep \in Nat
    /\ LateReplies \in BOOLEAN /\ ColdPath \in BOOLEAN /\ LiveRecalcs \subseteq BOOLEAN
    /\ Deltas \subseteq Delta

\* An EffectId hashes these coordinates (state.assign_damage_effect_ids).  The basis of an
\* extraction is the first turn of its span; that of a reply's tag is the text it was read from,
\* for which the number of its commit stands (the same text once more adds no wound).
Effect  == [branch : Branches, turn : RowTurn, owner : Owner, basis : RowTurn \cup Commit,
            wound : Wounds]
ASSUME NoEffectAssumption == NoEffect \notin Effect
Row     == [commit : Commit, lo : RowTurn, turn : RowTurn, source : Source,
            effect : Effect \cup {NoEffect}]
Receipt == [effect : Effect, turn : RowTurn, source : Source]
State   == [Commit -> Nat]
ASSUME NoCheckpointAssumption == NoCheckpoint \notin State
\* replied: turn_texts holds the turn's assistant text; open: the stream of the request that
\* opened the turn still runs (the proxy's tee will report its reply when it ends); again: so
\* does the stream of a request that goes on with the turn.
TurnRow == [progress : Progress, settled : BOOLEAN, replied : BOOLEAN, open : BOOLEAN,
            again : BOOLEAN]

BranchRow ==
    [status : {"unused", "live", "dead", "pruned"}, session : Branches, forkedAt : -1..(MaxTurn + 1), head : -1..MaxTurn,
     turns : [Turn -> TurnRow], journal : SUBSET Row, receipts : SUBSET Receipt,
     ckpt : [TurnIdx -> State \cup {NoCheckpoint}]]
    \* session: the branch the session of this branch started on

VARIABLES
    branch,   \* branch[b]: every row the database holds for branch b
    commits,  \* commits journaled so far; numbers the next journal row
    continued \* history, read by no action: the commits of streams that went on with a turn

vars == <<branch, commits, continued>>

-----------------------------------------------------------------------------
(* Reads *)

EmptyState == [c \in Commit |-> 0]
UnrecordedTurn ==
    [progress |-> "none", settled |-> FALSE, replied |-> FALSE, open |-> FALSE, again |-> FALSE]
NewBranch(status) ==
    [status |-> status, session |-> Root, forkedAt |-> -1, head |-> -1, turns |-> [t \in Turn |-> UnrecordedTurn],
     journal |-> {}, receipts |-> {}, ckpt |-> [t \in TurnIdx |-> NoCheckpoint]]

\* A turn no stream reports to any more.
Unattended(row) == [row EXCEPT !.open = FALSE, !.again = FALSE]

Recorded(B) == {t \in Turn : B.turns[t].progress # "none"}
Checkpointed(B, t) == {k \in TurnIdx : k <= t /\ B.ckpt[k] # NoCheckpoint}
Newest(S) == CHOOSE k \in S : \A j \in S : j <= k

\* The turn of the checkpoint state_at starts from, -1 when it starts empty.
BaseTurn(B, t) == IF Checkpointed(B, t) = {} THEN -1 ELSE Newest(Checkpointed(B, t))
BaseState(B, t) == IF Checkpointed(B, t) = {} THEN EmptyState ELSE B.ckpt[BaseTurn(B, t)]

\* Whether the rows of (after, upto] carry commit c: a replay applies it once more.
Replays(B, after, upto, c) ==
    IF \E r \in B.journal : r.commit = c /\ after < r.turn /\ r.turn <= upto THEN 1 ELSE 0

StateAt(B, t) == [c \in Commit |-> BaseState(B, t)[c] + Replays(B, BaseTurn(B, t), t, c)]
CurrentState(B) == StateAt(B, MaxTurn + 1)

MaxCkpt(B) == BaseTurn(B, MaxTurn + 1)
Furthest(i, j) == IF i < j THEN j ELSE i

\* control._next_turn: a creator write lands past the head and every checkpoint.
CreatorTurn(B) == Furthest(B.head, MaxCkpt(B)) + 1
\* Mutant: the rule before the repair its comment tells of.
UserTurnAtHead(B) == B.head

\* control._user_ops: a console write lands at the head unless a checkpoint is ahead of it.
UserTurn(B) == IF MaxCkpt(B) > B.head THEN MaxCkpt(B) + 1 ELSE B.head

-----------------------------------------------------------------------------
(* The commit primitive *)

\* Mutant: an extraction does not see that the reply's tag reported the wound.
BlockersCodeOnly(owner) == IF owner = "code" THEN {} ELSE {"code"}

\* Who outranks an owner when both report one wound of one turn.
Blockers(owner) == CASE owner = "reply_tag"  -> {"code"}
                     [] owner = "extraction" -> {"code", "reply_tag"}
                     [] OTHER                -> {}

\* A wound is admitted when no stronger owner has claimed it this turn and its
\* EffectId has no receipt yet (an exact repeat is a duplicate, a changed payload
\* a conflict: neither is applied).
Admits(B, e) ==
    /\ \A r \in B.receipts : r.effect # e
    /\ \A r \in B.receipts :
          ~ (r.turn = e.turn /\ r.effect.wound = e.wound /\ r.effect.owner \in Blockers(e.owner))

\* The effect a delta journals, NoEffect when it has none or it is refused.
Admitted(b, B, lo, hi, owner, delta, c) ==
    LET e == [branch |-> b, turn |-> hi, owner |-> owner,
              basis |-> IF owner = "reply_tag" THEN c ELSE lo, wound |-> delta.wound]
    IN  IF delta.wound # NoWound /\ Admits(B, e) THEN e ELSE NoEffect

Applies(b, B, lo, hi, owner, delta, c) ==
    delta.plain \/ Admitted(b, B, lo, hi, owner, delta, c) # NoEffect

OnCadence(t) == t >= 0 /\ CheckpointEvery > 0 /\ t % CheckpointEvery = 0

\* state._apply_delta_locked: journal what was admitted with its receipts and, on the
\* cadence, store the whole state the delta was applied to as the checkpoint of its turn.
Apply(b, B, lo, hi, source, owner, delta, c) ==
    LET e   == Admitted(b, B, lo, hi, owner, delta, c)
        now == [CurrentState(B) EXCEPT ![c] = @ + 1]
    IN  IF ~ Applies(b, B, lo, hi, owner, delta, c) THEN B
        ELSE [B EXCEPT
                !.journal  = @ \cup {[commit |-> c, lo |-> lo, turn |-> hi,
                                     source |-> source, effect |-> e]},
                !.receipts = IF e = NoEffect THEN @
                             ELSE @ \cup {[effect |-> e, turn |-> hi, source |-> source]},
                !.ckpt     = IF OnCadence(hi) THEN [@ EXCEPT ![hi] = now] ELSE @]

-----------------------------------------------------------------------------
(* The other writers of a branch *)

\* store.record_turn: a newer turn settles everything before it (the lag-1 gate).
RecordTurn(B, t) ==
    [B EXCEPT
        !.head  = Furthest(@, t),
        !.turns = [i \in Turn |->
            IF i < t /\ i \in Recorded(B) THEN [@[i] EXCEPT !.settled = TRUE]
            ELSE IF i = t /\ i \notin Recorded(B)
                 THEN [UnrecordedTurn EXCEPT !.progress = "pending"]
            ELSE @[i]]]

SettleHead(B) ==
    IF B.head \in Recorded(B) /\ B.turns[B.head].replied
    THEN [B EXCEPT !.turns[B.head].settled = TRUE] ELSE B

\* store.mark_extraction on lo..hi, only rows still in the expected state.
MarkExtraction(B, lo, hi, status, expected) ==
    [B EXCEPT !.turns = [t \in Turn |->
        IF lo <= t /\ t <= hi /\ @[t].progress = expected
        THEN [@[t] EXCEPT !.progress = status] ELSE @[t]]]

\* Mutant: one turn of the range still awaits extraction.
SomeOfRangeIs(B, lo, hi, status) ==
    \E t \in Recorded(B) : lo <= t /\ t <= hi /\ B.turns[t].progress = status

\* store.extraction_range_is: EVERY recorded turn of lo..hi has the status.
ExtractionRangeIs(B, lo, hi, status) ==
    /\ \E t \in Recorded(B) : lo <= t /\ t <= hi
    /\ \A t \in Recorded(B) : lo <= t /\ t <= hi => B.turns[t].progress = status

\* Mutant: the retired turn gets a status the progress column does not have.
RetractToUnknownStatus(B, t) == [B EXCEPT !.turns[t].progress = "retired"]

\* Mutant: the retraction forgets the receipts of the rows it deletes.
RetractKeepingReceipts(B, t) ==
    [B EXCEPT
        !.journal = {r \in @ : ~ (r.source = "extraction" /\ r.turn >= t)},
        !.turns[t] = [@ EXCEPT !.progress = "skipped", !.replied = FALSE]]

\* store.retract_extraction_at: what a narration retry of turn t retires.
RetractExtractionAt(B, t) ==
    [B EXCEPT
        !.journal  = {r \in @ : ~ (r.source = "extraction" /\ r.turn >= t)},
        !.receipts = {r \in @ : ~ (r.source = "extraction" /\ r.turn >= t)},
        !.ckpt     = [k \in TurnIdx |-> IF k >= t THEN NoCheckpoint ELSE @[k]],
        !.turns[t] = [@ EXCEPT !.progress = "skipped", !.replied = FALSE]]

\* Mutant: the journal is copied up to the fork turn, exclusively.
ForkShort(B, ft) ==
    [B EXCEPT
        !.status   = "live", !.forkedAt = ft + 1, !.head = ft,
        !.turns    = [t \in Turn |-> IF t <= ft THEN Unattended(@[t]) ELSE UnrecordedTurn],
        !.journal  = {r \in @ : r.turn < ft},
        !.receipts = {r \in @ : r.turn <= ft},
        !.ckpt     = [k \in TurnIdx |-> IF k <= ft THEN @[k] ELSE NoCheckpoint]]

\* store.fork_branch: the new branch inherits every row up to the fork turn.
ForkOf(B, ft) ==
    [B EXCEPT
        !.status   = "live", !.forkedAt = ft + 1, !.head = ft,
        !.turns    = [t \in Turn |-> IF t <= ft THEN Unattended(@[t]) ELSE UnrecordedTurn],
        !.journal  = {r \in @ : r.turn <= ft},
        !.receipts = {r \in @ : r.turn <= ft},
        !.ckpt     = [k \in TurnIdx |-> IF k <= ft THEN @[k] ELSE NoCheckpoint]]

\* The dead branches of a session that fork_branch keeps: the PruneKeep forked furthest in.
Dead(rows, session) ==
    {b \in Branches : rows[b].status = "dead" /\ rows[b].session = session}
Kept(rows, session, kept) ==
    LET dead == Dead(rows, session)
    IN  /\ kept \subseteq dead
        /\ Cardinality(kept) = IF Cardinality(dead) < PruneKeep THEN Cardinality(dead)
                               ELSE PruneKeep
        /\ \A b \in kept, d \in dead \ kept : rows[b].forkedAt >= rows[d].forkedAt

-----------------------------------------------------------------------------
(* Actions: one transaction each *)

PlainDelta == [plain |-> TRUE, wound |-> NoWound]
NoDelta    == [plain |-> FALSE, wound |-> NoWound]
Spent(d)   == IF d = NoDelta THEN 0 ELSE 1

Init ==
    /\ branch = [b \in Branches |-> NewBranch(IF b = Root THEN "live" ELSE "unused")]
    /\ commits = 0
    /\ continued = {}

\* A new request on a branch: an older stream ends with it unless replies may be late.
Superseding(B) ==
    IF LateReplies THEN B ELSE [B EXCEPT !.turns = [t \in Turn |-> Unattended(@[t])]]

\* Pipeline._process_observed on a new Player turn: the turn is recorded (head + 1, or the
\* base its stamp establishes) and its settled mechanics commit at it, those of its commands
\* included.  Without live recalculation the tags of the reply before commit here, as narrator
\* proposals of the new turn.
NewTurn(b, t, d, proposals, live) ==
    LET B == branch[b] IN
    /\ B.status = "live"
    /\ IF B.head < 0 THEN t \in {0, 1} ELSE t = B.head + 1
    /\ t <= MaxTurn
    /\ live => proposals = NoDelta
    /\ commits + Spent(d) + Spent(proposals) <= MaxCommits
    /\ LET B1 == [RecordTurn(Superseding(B), t) EXCEPT !.turns[t].open = TRUE]
           B2 == Apply(b, B1, t, t, "rule", "code", d, commits + 1)
       IN  branch' = [branch EXCEPT ![b] =
                        Apply(b, B2, t, t, "extraction", "reply_tag", proposals,
                              commits + 1 + Spent(d))]
    /\ commits' = commits + Spent(d) + Spent(proposals)
    /\ UNCHANGED continued

\* Pipeline._process_observed on a request that goes on with the head: a "continue" outside the
\* semantic gate, or an edit fork that ends at a known message.  No turn opens and no message
\* resolves; the referees may still commit rules.
Continue(b, rules) ==
    LET t  == branch[b].head
        B1 == [Superseding(branch[b]) EXCEPT !.turns[t].again = TRUE]
    IN
    /\ branch[b].status = "live" /\ t \in Recorded(branch[b])
    /\ commits + Spent(rules) <= MaxCommits
    /\ branch' = [branch EXCEPT ![b] = Apply(b, B1, t, t, "rule", "code", rules, commits + 1)]
    /\ commits' = commits + Spent(rules)
    /\ UNCHANGED continued

\* Pipeline._ingest_reply_tags under live recalculation: a reply's inline tags commit as narrator
\* proposals of its turn, code's reaction to them as rules.
Ingested(b, B, t, tags, rules) ==
    Apply(b, Apply(b, B, t, t, "extraction", "reply_tag", tags, commits + 1),
          t, t, "rule", "code", rules, commits + 1 + Spent(tags))

\* The commits a stream's end may make; none without live recalculation.
Ingesting(tags, rules, live) ==
    /\ ~ live => tags = NoDelta /\ rules = NoDelta
    /\ commits + Spent(tags) + Spent(rules) <= MaxCommits
    /\ commits' = commits + Spent(tags) + Spent(rules)

\* The first turn of a new session: on_response leaves it unsettled for genesis.
Opening(B, t) == B.forkedAt = -1 /\ \A u \in Recorded(B) : t <= u

\* Pipeline.on_response when the stream that opened turn t ends: its tags are ingested, and live
\* recalculation settles the head.  Nothing compares the turn with what a retry has made of it
\* meanwhile.
Reply(b, t, tags, rules, live) ==
    LET B  == branch[b]
        B1 == [B EXCEPT !.turns[t] = [@ EXCEPT !.replied = TRUE, !.open = FALSE]]
        B2 == Ingested(b, B1, t, tags, rules)
    IN
    /\ B.status \in {"live", "dead"} /\ B.turns[t].open
    /\ Ingesting(tags, rules, live)
    /\ branch' = [branch EXCEPT ![b] = IF live /\ ~ Opening(B2, t) THEN SettleHead(B2) ELSE B2]
    /\ UNCHANGED continued

\* Pipeline.on_response when the stream of a request that went on with turn t ends: the same
\* path, whatever extraction or a retry has made of the turn; only a retry's own stream stops short.
ContinueReply(b, t, tags, rules, live) ==
    LET B  == branch[b]
        B1 == [B EXCEPT !.turns[t] = [@ EXCEPT !.replied = TRUE, !.again = FALSE]]
        B2 == Ingested(b, B1, t, tags, rules)
    IN
    /\ B.status \in {"live", "dead"} /\ B.turns[t].again
    /\ Ingesting(tags, rules, live)
    /\ branch' = [branch EXCEPT ![b] = IF live THEN SettleHead(B2) ELSE B2]
    /\ continued' = continued \cup (commits + 1 .. commits')

\* Pipeline.on_response for the stream of a narration retry: continuity text only.
RetryReply(b, t) ==
    /\ branch[b].status \in {"live", "dead"}
    /\ branch[b].turns[t].progress = "skipped" /\ ~ branch[b].turns[t].replied
    /\ branch' = [branch EXCEPT ![b].turns[t].replied = TRUE]
    /\ UNCHANGED <<commits, continued>>

\* The idle debounce of jobs._arm_debounce settles the head a walk-away left open.
IdleSettle(b) ==
    /\ branch[b].status \in {"live", "dead"}
    /\ branch' = [branch EXCEPT ![b] = SettleHead(@)]
    /\ branch' # branch
    /\ UNCHANGED <<commits, continued>>

\* A batch runs from one settled turn to another; they were pending when it was formed.
Batch(B, lo, hi) ==
    /\ B.status \in {"live", "dead"}
    /\ \A t \in {lo, hi} : t \in Recorded(B) /\ B.turns[t].settled
    /\ lo <= hi /\ hi - lo < BatchMax

\* What jobs._run_batch commits for a batch: the extracted delta, then code's cascade.
Extracted(b, lo, hi, d, cascade) ==
    Apply(b, Apply(b, branch[b], lo, hi, "extraction", "extraction", d, commits + 1),
          hi, hi, "rule", "code", cascade, commits + 1 + Spent(d))

\* jobs._run_batch after its model call: every turn of the range still awaits extraction,
\* the deltas commit at the batch's last turn and the whole range is marked done.
Extract(b, lo, hi, d, cascade) ==
    /\ ColdPath
    /\ Batch(branch[b], lo, hi) /\ ExtractionRangeIs(branch[b], lo, hi, "pending")
    /\ commits + Spent(d) + Spent(cascade) <= MaxCommits
    /\ branch' = [branch EXCEPT ![b] =
                    MarkExtraction(Extracted(b, lo, hi, d, cascade), lo, hi, "done", "pending")]
    /\ commits' = commits + Spent(d) + Spent(cascade)
    /\ UNCHANGED continued

\* The process dies after the extracted delta committed and before the range was marked:
\* after a restart the turns are still pending and extract again.
ExtractInterrupted(b, lo, hi, d) ==
    /\ ColdPath
    /\ Batch(branch[b], lo, hi) /\ ExtractionRangeIs(branch[b], lo, hi, "pending")
    /\ commits + Spent(d) <= MaxCommits
    /\ branch' = [branch EXCEPT ![b] = Extracted(b, lo, hi, d, NoDelta)]
    /\ commits' = commits + Spent(d)
    /\ UNCHANGED continued

\* A failed model call; a transient failure is put back to pending after a delay.
ExtractionFails(b, lo, hi) ==
    /\ ColdPath
    /\ Batch(branch[b], lo, hi)
    /\ branch' = [branch EXCEPT ![b] = MarkExtraction(@, lo, hi, "failed", "pending")]
    /\ branch' # branch
    /\ UNCHANGED <<commits, continued>>

Requeue(b, lo, hi) ==
    /\ ColdPath
    /\ branch[b].status \in {"live", "dead"}
    /\ {lo, hi} \subseteq {t \in Turn : branch[b].turns[t].progress = "failed"}
    /\ lo <= hi /\ hi - lo < BatchMax
    /\ branch' = [branch EXCEPT ![b] = MarkExtraction(@, lo, hi, "pending", "failed")]
    /\ UNCHANGED <<commits, continued>>

\* A narration retry of the head turn (session_engine.apply_deferred_swipe_db).
Swipe(b) ==
    /\ branch[b].status = "live" /\ branch[b].head \in Recorded(branch[b])
    /\ branch' = [branch EXCEPT ![b] = RetractExtractionAt(Superseding(@), branch[b].head)]
    /\ UNCHANGED <<commits, continued>>

Write(b, t) ==
    /\ branch[b].status = "live"
    /\ t <= MaxTurn + 1 /\ commits < MaxCommits
    /\ branch' = [branch EXCEPT ![b] = Apply(b, @, t, t, "user", "code", PlainDelta, commits + 1)]
    /\ commits' = commits + 1
    /\ UNCHANGED continued

CreatorWrite(b) == Write(b, CreatorTurn(branch[b]))
UserWrite(b)    == Write(b, UserTurn(branch[b]))

\* store.fork_branch.  With kill, an edit replaces the source branch in its session: it dies,
\* and the session's dead branches beyond the kept ones are deleted.  Without, the new branch
\* starts a session of its own (a chat branched or copied by the host).
Fork(src, new, ft, kill) ==
    LET session == branch[src].session
        rows == [branch EXCEPT
                   ![new] = [ForkOf(branch[src], ft) EXCEPT !.session = IF kill THEN @ ELSE new],
                   ![src].status = IF kill THEN "dead" ELSE @]
    IN
    /\ branch[src].status = "live" /\ branch[new].status = "unused"
    /\ ft \in Recorded(branch[src]) \cup {-1}
    /\ \E kept \in SUBSET Branches :
          /\ Kept(rows, session, kept)
          /\ branch' = [b \in Branches |->
                IF kill /\ b \in Dead(rows, session) \ kept
                THEN NewBranch("pruned") ELSE rows[b]]
    /\ UNCHANGED <<commits, continued>>

\* One step within branch b, under a value of [extraction].live_recalc.
Step(b, live) ==
    \/ \E t \in Turn, d, proposals \in Deltas \cup {NoDelta} : NewTurn(b, t, d, proposals, live)
    \/ \E rules \in {PlainDelta, NoDelta} : Continue(b, rules)
    \/ \E t \in Turn, tags \in Deltas \cup {NoDelta}, rules \in {PlainDelta, NoDelta} :
          \/ Reply(b, t, tags, rules, live)
          \/ ContinueReply(b, t, tags, rules, live)
    \/ \E t \in Turn : RetryReply(b, t)
    \/ IdleSettle(b)
    \/ \E lo, hi \in Turn :
          \/ \E d \in Deltas \cup {NoDelta}, cascade \in {PlainDelta, NoDelta} :
                Extract(b, lo, hi, d, cascade)
          \/ \E d \in Deltas : ExtractInterrupted(b, lo, hi, d)
          \/ ExtractionFails(b, lo, hi)
          \/ Requeue(b, lo, hi)
    \/ Swipe(b)
    \/ CreatorWrite(b)
    \/ UserWrite(b)

Next ==
    \E b \in Branches :
        \/ \E live \in LiveRecalcs : Step(b, live)
        \/ \E new \in Branches, ft \in Turn \cup {-1}, kill \in BOOLEAN : Fork(b, new, ft, kill)

Spec == Init /\ [][Next]_vars

-----------------------------------------------------------------------------
(* Properties *)

TypeOK ==
    /\ branch \in [Branches -> BranchRow]
    /\ commits \in 0..MaxCommits
    /\ continued \subseteq Commit

\* A damage receipt stands for exactly one journal row of the same branch, turn and source,
\* and every journaled damage has its receipt: commits, retries, forks and pruning touch the
\* two tables in step, so an exactly-once check on receipts speaks for the journal.
ReceiptsMatchJournal ==
    \A b \in Branches :
        LET damage == {r \in branch[b].journal : r.effect # NoEffect}
        IN  /\ branch[b].receipts =
                  {[effect |-> r.effect, turn |-> r.turn, source |-> r.source] : r \in damage}
            /\ \A r, q \in damage : r.effect = q.effect => r = q

\* One wound reported by code, by the reply's tag and by extraction lands once: the reports of a
\* wound that a branch holds for one turn are of one owner, though the owners commit in three
\* transactions and only the weaker look for the stronger.  One case is left: a reply that went
\* on with the turn may tag a wound that extraction has reported before, for a tag looks for code
\* only; and nothing else ever follows such a report.
RestatementNeverLands ==
    \A b \in Branches : \A r, q \in branch[b].journal :
        (r.effect # NoEffect /\ q.effect # NoEffect /\ r.turn = q.turn
            /\ r.effect.wound = q.effect.wound /\ r.effect.owner # q.effect.owner
            /\ r.commit < q.commit)
        => /\ r.effect.owner = "extraction" /\ q.effect.owner = "reply_tag"
           /\ q.commit \in continued

\* A turn retired by a narration retry is terminal: whatever batches, requeues and replies were
\* outstanding, its branch holds no narrator proposal for it but those of replies that went on
\* with its new narration.
RetiredTurnsStayRetired ==
    \A b \in Branches : \A t \in Turn : branch[b].turns[t].progress = "skipped" =>
        \A r \in branch[b].journal :
            r.source = "extraction" /\ r.turn = t => r.commit \in continued

\* A turn retired by a narration retry is never a second settlement opportunity: its branch holds
\* no narrator proposal for it at all.
RetiredTurnsHoldNoProposals ==
    \A b \in Branches : \A t \in Turn : branch[b].turns[t].progress = "skipped" =>
        \A r \in branch[b].journal : ~ (r.source = "extraction" /\ r.turn = t)

\* A write of the user that carries a turn (creator save, console edit of a started session)
\* is never hidden by a checkpoint, whatever is checkpointed, retried or forked afterwards.
UserWritesSurvive ==
    \A b \in Branches : \A r \in branch[b].journal :
        r.source = "user" /\ r.turn >= 0 => CurrentState(branch[b])[r.commit] >= 1

\* An edit fork starts from exactly the state the source branch had at the fork point, and
\* its history reads the same at every earlier turn.
ForkInheritsHistory ==
    [][\A new \in Branches : branch[new].status = "unused" /\ branch'[new].status = "live" =>
          \A src \in Branches, ft \in Turn \cup {-1}, kill \in BOOLEAN :
             Fork(src, new, ft, kill) =>
                /\ CurrentState(branch'[new]) = StateAt(branch[src], ft)
                /\ \A t \in Turn : t <= ft =>
                       StateAt(branch'[new], t) = StateAt(branch[src], t)]_vars

\* The state of a branch is the replay of its journal: every delta journaled at a turn is in
\* it once, and nothing else is, whatever was checkpointed, extracted late or retired.
StateIsReplayOfJournal ==
    \A b \in Branches : \A c \in Commit :
        (\A r \in branch[b].journal : r.commit = c => r.turn >= 0) =>
            CurrentState(branch[b])[c] =
                IF \E r \in branch[b].journal : r.commit = c THEN 1 ELSE 0
=============================================================================

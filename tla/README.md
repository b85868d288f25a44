# AetherState in TLA+

AetherState is a local proxy between a role-playing chat host (SillyTavern, or the bundled
PlayStack) and a language model. It reads the transcript the host sends, keeps a ledger of the
story's state in SQLite, adds a state block to the prompt, and reads what the model's reply
says happened back into the ledger. This directory holds TLA+ modules of the parts where
ordering, retries and crashes decide whether that ledger is right, the TLC configurations that
check them, and TLAPS proofs of their main properties.

Every definition is a translation of code under `src/src/aetherstate/`; `PROJECT.json` maps
each one to its lines. Where code and documentation disagree, the modules say what the code
does and a run shows the difference.

## 1. The system

### Components, their state and their operations

| component (files) | state it keeps | operations that change it |
|---|---|---|
| state ledger (`store.py`, `state.py`, `store_schema.py`) | tables sessions, branches, turns, turn_texts, journal, checkpoints, effect receipts; a per-branch cache of the current state | `apply_delta` (the one commit primitive), `record_turn`, `settle_head`, `mark_extraction`, `retract_extraction_at`, `fork_branch` (with pruning), `rollback_to` |
| reducer (`state.py`): items, fights and battles | inside a state: item rows and the gear and inventory indexes; combat, battle, wounds, the Player | its operations; `combat_ops`, `battle_ops`, `progression_ops` after a batch of them |
| Tier-1 extraction jobs (`jobs.py`) | in memory: work queue, `_queued`, debounce timers, retry counters, consecutive failures, disabled sessions; in the database: `turns.extraction_status` | `notify`, debounce, `_flush`, `_run_batch`, delayed retry, `resume_pending` |
| request pipeline (`pipeline.py`, `proxy.py`) | nothing of its own between requests but the prepared turn and small caches | `observe`/`prepare` (open a turn, settle Player mechanics), `on_response` (end of a stream) |
| session resolution (`session_engine.py`, `stamps.py`, `lcp.py`, `canon.py`) | prefix index of branches, stamps | which branch and turn a transcript belongs to: continue, swipe, edit fork, adoption, lineage, new session |
| control API (`control.py`, `creator.py`) | – | creator saves, console edits, deletion, reads |
| semantic turn lifecycle (`turn_lifecycle.py`) | per turn: attempts with fallback and selected narration, reservations, delivery claims and completions | reserve, commit with fallback, promote, claim and complete delivery, replay, swipe, fork |
| chat publication (`chat_continuity.py`, `store.py`, `jobs.py`, `memory.py`) | replies, receipts and swipe counts per turn, facts with the lineage of a reply | publish if current, retract, deferred extraction of the accepted reply, reminders |
| genesis (`genesis.py`) | stage of a session, claims with epochs | Stage A, claim, supersede, publish, give up |
| PlayerLex, Player Lessons (`playerlex.py`, `player_lessons.py`) | lessons with revisions, frozen receipts and their items, packets in a cache | edits, removal, selection, replay, application records, forks |
| schema migrations (`schema_migrations.py`) | ledger of applied migrations, cleanups owed | transform, scrub, clear, serve |
| fronts and world events (`state.py`, `world_events.py`) | inside a state: fronts with their clocks, event records; a table of the records | `world_ops` after a batch, the check and the admission of its record groups, the overlay, forks |
| PlayStack, system health, WorldLex, settlement receipts, narration guards | see `PROJECT.json` | see `PROJECT.json` |

`PROJECT.json` lists all of them with what is modelled and why the rest is not.

### How they interact

A request runs `session_engine` → `pipeline` → `store`/`state` inside one transaction; every
transaction of the process takes one lock (`Store.transaction`), so it is one step of a model.
The model call and the streaming of the reply happen outside any transaction. When the stream
ends, `Pipeline.on_response` commits the inline tags and notifies the scheduler of `jobs.py`,
which later extracts the settled turns in batches: it reads, awaits a model call, and commits
in transactions of its own. Control calls, a narration retry ("swipe"), an edit fork, a newer
turn or a crash can come between any two of those steps. Genesis workers await their model the
same way. After each committed batch of operations the referees of fights and battles read the
state and commit operations of their own, and so does the living world: a front whose clock is
full admits an event and ends the circumstances before it.

### What is hard in it

* A batch is read before a model call and committed after it; the turn may have been retried,
  replied to again or forked meanwhile.
* A turn's facts are committed several times by several owners: code at the request, inline
  tags at the end of the stream, extraction a turn or more later.
* Rows carry the turn they are about, not the time they were written. Checkpoints make replay
  depend on both.
* The scheduler's memory is lost in a crash, the database is not. The prefix index is memory
  that must follow rows which a failed request takes back.
* A retry must take back what the turn committed, in every table that repeats it.
* A worker that asks a model for minutes is overtaken by decisions about the same session.
* What the Player removes must not survive in a cache, a frozen receipt or a parent's copy.
* An operation of the reducer that is rejected has already changed the live state.
* The records of one world event are checked as a group and land one by one, and they carry the
  turn of the batch they came of, which may be older than events that are there already.

For each component, what makes it correct: the ledger's reads depend on journal and not on
timing, every effect is counted once, user writes are never lost, a fork inherits exactly the
past; the scheduler never runs two batches of a branch, never revives what a retry retired and
decides every turn it took up; session resolution never rewrites a transcript, keeps one live
branch per session and its index in step with the rows; the lifecycle and the chat publication
accept one candidate per turn and deliver one result; nothing rests on a reply that was
abandoned; one worker owns a claim, and an exact seed stands; a removed lesson is gone from
everywhere and a selection is never reranked; a catalog is served only when its old text is out
of the files; an instance is in one place; a fight that is on has a foe; the circumstance of
a faction is the one its last completed agenda brought, in every branch.

## 2. Modules

| module | what it is |
|---|---|
| `Ledger` | the database rows of all branches and every transaction that writes them |
| `ExtractionJobs` | the scheduler of one branch: queue, timers, retries, disabling, restart |
| `DeliveryPromise` | what a proof-gated turn promises the Player, without attempts, claims or connections |
| `TurnLifecycle` | one proof-gated turn with the requests that work on it; implements `DeliveryPromise` |
| `SessionResolution` | which session, branch and turn a transcript belongs to, with the index in memory |
| `ChatReplies` | the accepted replies of a Chat session, what is extracted from them and reminded of |
| `GenesisClaims` | who may publish the opening state of a session |
| `PlayerLessons` | lessons, frozen selections, forks of them and the packets of requests |
| `SchemaMigrations` | how several processes install a catalog and empty the files of its old text |
| `Items` | the reducer's item operations with their gear and inventory indexes |
| `WarRoom` | the referees of fights and battles between the batches of operations |
| `WorldEvents` | fronts, the events they end in, the overlay, and forks of the story |
| `TurnOrder` | least and greatest element of a set of turns, for the proofs |
| `MCLedger`, `MCExtractionJobs`, `MCItems` | instances for TLC |
| `MCBranches` | an instance of `Ledger` whose behaviours keep to one branch or may fork |
| `MCTurnLifecycle`, `MCServices`, `MCPlay` | instances of several modules that share no state, explored in one run: a behaviour belongs to one of them from its first state (`subject`) |
| `LedgerProofs`, `ExtractionJobsProofs`, `TurnLifecycleProofs`, `ResolutionProofs`, `LessonsProofs`, `ServicesProofs`, `PlayProofs` | the theorems |

Operators whose comment starts with "Mutant:" are variants with a plausible bug. Nothing but a
mutation run uses them.

### Ledger

`branch[b]` is a record of all rows the database holds for branch `b`: its status and head, the
`turns` rows (extraction status, settled, whether the turn has a reply text, whether the stream
that opened it still runs and whether one that goes on with it does), the journal, the damage receipts and the checkpoints. The
operations of `store.py` and `state.py` are operators from such a record to the next, and an
action composes those its transaction calls, in the code's order:

| action | code |
|---|---|
| `NewTurn` | `Pipeline._process_observed`, `store.record_turn`, settled mechanics through `apply_delta`; without live recalculation also the tags of the reply before, as proposals |
| `Continue` | `Pipeline._process_observed` on a request that goes on with the head, whatever has become of it: no turn opens |
| `Reply`, `ContinueReply`, `RetryReply` | `Pipeline.on_response` for the stream that opened the turn, for one that goes on with it, and for a retry: tags, code's reaction, settling of the head; or text only |
| `IdleSettle` | the debounce of `jobs._arm_debounce` |
| `Extract`, `ExtractInterrupted`, `ExtractionFails`, `Requeue` | `jobs._run_batch` after its model call, a crash inside it, its failure, the delayed retry |
| `Swipe` | `session_engine.apply_deferred_swipe_db`, `store.retract_extraction_at` |
| `CreatorWrite`, `UserWrite` | `control._next_turn`, `control._user_ops` |
| `Fork` | `store.fork_branch` with and without replacing the source, and pruning |

Abstractions. The reducer is free: a state is the number of times each commit was applied, the
most any reducer can tell apart but for order. A delta is only what the commit primitive
distinguishes: whether it has operations that always apply, and whether it reports a wound
(an EffectId is the coordinates the code hashes). The free-form text of a turn is whether it is
there. Batches appear in `Ledger` as their outcome, because at the commit the code looks at the
rows only; how a batch is formed is `ExtractionJobs`. Commit numbers stand for journal ids. What
the Player's commands commit when a turn opens (`t0.user_ops`) is one delta with the turn's
mechanics: it is at the turn, not at `UserTurn`, so a checkpoint ahead of the head may hide it, as
`replay` shows of any such delta, and `UserWritesSurvive` speaks of console and creator writes.
`LiveRecalcs` holds the values of `[extraction].live_recalc`, which may change from one request to
the next. `continued` is a history variable: the commits of continuations.

### ExtractionJobs

`turn` and `head` are the rows a crash keeps; `mem` is the whole memory of `JobRunner` for the
branch (batches with their stage, `_queued`, the debounce timer, delayed retries, retry counts,
failures, the turn a session is disabled until), which `Restart` clears before
`resume_pending`. The code between two awaits is one step (one event loop). A batch goes
through the stages queue, model call and post-processing; the model call may succeed, fail for
good, fail transiently or raise. `Reply` and `ContinueReply` are the ends of the streams that
notify it. A crash between the commit of a batch and its mark is a `Restart` that leaves the turns
pending: here only their status counts, what they commit is `ExtractInterrupted` of `Ledger`.

### TurnLifecycle

A turn on the proof-gated path is settled with a code-owned fallback narration in one
transaction; a selector may then find a better one; the narration is claimed before its first
byte and completed after its last; a swipe opens the next attempt. `attempt[i]` is the row of
`semantic_turn_attempts` with its claim and completion, `state`, `active` and `anchor` are the
lifecycle's status, its pointer and the ledger root it is bound to, `swipes` and `text` the
turn's row and reply in the other tables, `conn` the requests between their two awaits.

| action | code |
|---|---|
| `Settle`, `SettleFails` | `Pipeline._process_truth_gated`: `reserve` and `commit_mutation_with_fallback_factory`; a failure after recording or after reserving |
| `LostReply`, `Duplicate` | the same transcript again, the same bytes again (`SessionEngine.observe`) |
| `SwipeSettles`, `SwipeFails`, `SwipeReplays`, `SwipeRecovers` | `_process_truth_gated_swipe`, `reserve_swipe`, `apply_deferred_swipe_db`: a new narration, a failure after the reservation, the same swipe again, recovery of one never delivered |
| `FinishSelection`, `SelectionUnclaimed` | `complete_semantic_selection`, `promote_candidate`; a failure between promotion and claim |
| `StreamEnds`, `Disconnect` | `_on_semantic_response`: keep the reply, complete the delivery, either of which may fail; the client goes away |
| `UserWrite`, `NextTurn`, `Crash` | a ledger edit, the next turn, the loss of all memory |

`Pipeline.process` does not await, so what a request does between two awaits is one step even
where it takes several transactions; that a later one of them fails is an action of its own.
`applied` is a history variable. Artifacts, envelopes and capsules are reduced to which
narration they hold: their fingerprints are checked by code the model takes as sound. Refused
attempts and attempts inherited through `fork_prefix` are not modelled; the latter lie below
the head of the child branch and no request reaches them.

`DeliveryPromise` is the Player's view: `settled`, the number of the narration, the narration,
whether a byte of it may have been shown, whether it was shown completely. The mapping takes
them from `applied`, `active` and the active attempt's row.

### SessionResolution

`branch` and `session` are the rows of the tables, `index` the transcripts that
`PrefixIndex.branches` keeps in memory. A request composes operators on the three together
(`Created`, `Replaced`, `Copied`, `Appended`, `Synced`, `Cut`, `Indexed`), in the order the
engine calls them.

| action | code |
|---|---|
| `Heuristic` (`NewSession`, `GoesOn`, `Regenerates`, `Edits`) | a request without a stamp: `SessionEngine.resolve`, `_deferred_swipe_plan`, `longest_prefix`, `align`, `_fork` |
| `Stamped` (`Located` by `Lineage`, `Adopted`, `Relinked` or `Created`; then `Speaks`, `Swipes`, `Continues`) | `resolve_stamped`, `_session_for_external`, `_unseen_tail`, `_exact_forward_window` |
| `Recovers` | a failed request, whose rows are taken back and whose index is rebuilt; a restart |

Hosts send any transcript of a given set, so edits, truncations, windows and copies of another
chat all occur. Which of several equally good matches is the newest, and whether a session is
bound to a Chat card, are open. The turn a stamp carries is open too, so a transcript that
differs from the remembered one may always turn out to be the next turn's window. A transcript
that is refused after its chat was found is `Continues`. A repeated request changes nothing and
is no action. `Unmixed` is a host that stamps every request of a chat or none; without it
`TurnsRunOn` fails (listed as a hazard). Turns reserved by the proof-gated path, pruning (there
are never more than three branches) and deletion are not modelled.

### ChatReplies

One branch of a Chat session: `turn` is the row with its reply, its receipt and its extraction
status, `flights` the requests that the model has not answered, `facts` everything journaled or
indexed under the lineage of a reply, `recall` the lines prepared for a later turn, `jobs` the
memory of the job runner. `shown` is a history variable.

| action | code |
|---|---|
| `Send`, `Swipe`, `Resend` | `pipeline.py` with `apply_deferred_chat_swipe`, `retract_chat_response_at`, `read_recall`; a transport duplicate |
| `Answer`, `Lost` | `on_response`, `publish_chat_response_if_current`; an aborted stream |
| `TimerFires`, `Ask`, `Discard`, `Extract`, `Fail`, `Retry`, `Restart` | `jobs.py` for a Chat session: one turn per batch, compared before the model call and again in the commit |

What a reply says is free; a fact is known by its turn, the reply it came from and whether the
cold job wrote it. A failed commit of a group is `Fail` (the transaction is taken back whole).
Disabling after failures is in `ExtractionJobs`. The facts of the Player's own text, the
reflection summaries and the set of responses already completed are left out: none of them is
retracted or compared with a reply.

### GenesisClaims

`session` is the stage, the claim generation and the active branch of a session, `worker` the
tasks of `seed_llm` with what they captured, `streaming` the first turns whose reply is still
under way. `ChatOpens` is `POST /session/{sid}/genesis` with its four flags, `FirstTurn` and
`FirstReply` the path without an extension, `CoreSeeded`, `Reauthored`, `Branched` and `Forked`
the decisions that overtake, `StoreOpens` a restart, `Claim`, `Resolve`, `Publish` and `GiveUp`
the worker between its awaits. `exact`, `fresh` and `published` are history. What Stage A and
Stage B read out of a card is not modelled: that they publish, and for which claim, is.

### PlayerLessons

`lesson` is the catalog, `receipt` and `intent` the frozen selections of a turn with their
items and what is marked as delivered or applied, `branch` what a copy is computed from,
`packets` and `post` the cache of the pipeline and the requests at the narrator, `residue` the
lessons whose text lies in the database file. A request and a change of a lesson each hold the
lifecycle guard throughout, so each is one step; the headers of the narrator come in between.
`AskForLessons`, `Replay`, `Duplicate`, `Headers` and `NoHeaders` are the request's steps,
`CreateLesson`, `Correct`, `SetEnabled`, `Remove` and `LexChanges` the endpoints', `Fork` the
branch, `Crash` the loss of the cache. Which lessons a turn's text recognises and how they rank
is open within the limits. A packet that leaves the bounded cache is never sent again, so
eviction is no step.

### SchemaMigrations

One catalog with a cleanup, installed by several processes: `shape`, `ledger` and `owed` are
the tables, the ledger row and the pending marker, `remains` says whether the files still hold
text of dropped tables, `host[h]` is the installation of a process with what it read before its
transaction. Each statement of `_install_schema` is an action, `Stops` an error, a busy
checkpoint or a crash after any of them. The verification of tables and ledger is one guard.

### Items

`place`, `owner`, `qty` and `origin` are columns of an item row, `index` the gear and inventory
indexes of all characters as one relation, `scene` the current scene. Each operation of
`_apply_op` that touches items is an action; a rejected one is an action too (`Refuse`),
because the instance has left the index by then and is put back by a call that may refuse. A
cell is a name, and one that is called like an instance has that instance's capacity, as in
`_container_capacity`. The flag that keeps a bound item and what consuming does to the Player
are left out.

### WarRoom

`fight`, `rows` and `pending` are `combat`, `battle` the large battle, `wounds` and `health` the
hit points that outlive a fight. Operations of a batch (`Enter` to `NextTurn`) come at stage
"rest"; `Referee` (`combat_ops`), `BattlePass` (`battle_ops`) and `Progress`
(`progression_ops`) follow one another and commit on their own, and `Interrupted` is an error,
a crash, or a path that has no further pass (`Pipeline._progress`, `_ingest_reply_tags`,
`jobs.py`). Nothing runs between two passes, so no other action comes between them. Hit points
are a few steps; loot, kits, initiative and the amounts of experience are left out; who is
present, whether the scene is one of violence, who outranks whom and whether a committed move
still fits are open. A blow reported again in its own turn changes nothing and is no step. Every
spawn of a pass can be refused on its own (an active world overlay, a faction that names none): of
the foes and friends of an opening any (`Opens`), of a wave any and still the wave counts, of a
cohort all from some member on, because only the exact next one is admitted (`Declare`, `Wave`).
`refused` is a history variable: a foe whom these passes sent was turned down. The momentum and
the waves of a counted battle are never read and not kept.

### WorldEvents

The story of one line of branches: `line` counts its forks, `newest` is the last turn, `since`
the turn of the last fork. `ticks[f]` is the clock of front `f`, with the turn of the tick that
filled each segment (the journal rows a fork replays are the ones up to its turn), `events` and
`ended` are the admissions and supersession records of `world_event_records`, with the
completion that wrote them. `WorldPass` is one run of `world_ops` over the operations of a
batch and the `apply_delta` that commits what it returns: which fronts were touched is open,
and so is the turn, because an extraction runs the pass for the last turn of its batch.
`Overtaken` is what the record-by-record check turns down after the check of the groups, kept
in `refused`. `ForkStory` is what `fork_branch` copies of journal and records; checkpoints are
left to `Ledger`. Fronts are there from the beginning; reveals, texts, the effects on who may
be spawned and the identity of records (hashes of world, branch, turn and front) are left out.
No other code of `src` produces events. `LateInForks` says whether a fork may still extract a
turn older than itself.

## 3. Runs

| run | result | what it shows |
|---|---|---|
| `branch` | holds | one branch with all its writers: `TypeOK`, `UserWritesSurvive`, `RetiredTurnsStayRetired`, `ReceiptsMatchJournal`, `RestatementNeverLands`; two branches, edits and copies: `ForkInheritsHistory` |
| `safety` | holds | scheduler: `TypeOK`, `OneBatchPerBranch`, `DecisionsStand` (what is retired stays retired, what is done stays done) |
| `live` | holds | with one turn per batch, `ScheduledTurnsAreDecided` |
| `turn` | holds | one proof-gated turn: `RowsAgree`, `StreamsAreClaimed`, `ShownIsFinal`, `TextIsCurrent` and the refinement `KeepsPromise`; session resolution: `IndexInStep`, `TurnsRunOn`, `HistoryOnlyGrows`; `TurnsTypeOK` |
| `play` | holds | items: `IndexAgrees`, `LossesAreOverflows`; fights: `IntentNamesAFoe`, `FightsHaveFoes`, `VictoryIsEarned`; `PlayTypeOK` |
| `services` | holds | Chat replies: `ReplyIsLatest`, `FactsRestOnReplies`, `RemindersAreCurrent`; genesis: `OneOwner`, `SeedsStand`, `OnlyCurrentPublishes`, `ClaimsEnd`; lessons: `RemovedIsGone`, `SelectionsStand`, `ServedIsCurrent`; migrations: `CleanWhenServed`; world events: `OverlayProjects`, `CompletionsAreTold`, `CompletionsReplace`; `ServicesTypeOK` |
| `replay` | violated | `StateIsReplayOfJournal` |
| `late` | violated | `RetiredTurnsStayRetired` when a stream may outlive the next request |
| `continued` | violated | `RetiredTurnsHoldNoProposals`, without late streams |
| `gap` | violated | `ScheduledTurnsAreDecided` with two turns per batch |
| `split` | violated | `OneInstanceOnePlace` |
| `group` | violated | `GroupsLandWhole` |

Bounds. The constants whose names start with `Max` (but `MaxLessons` and `MaxSelected`) and the
sets of values are the only bounds; the other constants are configuration values or limits of
the program, chosen small enough that they are reached.

* `branch`: turns 0 and 1 (and creator writes at 2), three commits, checkpoints on even turns.
  Two turns are enough for a turn with a checkpoint and one without, for a settled turn beside
  a head, and for a batch of two; three commits are a wound, its restatement and one delta
  more. One wound suffices because wounds never meet in the code. Every report of settled
  mechanics, a reply or extraction tells of it; one kind of report is nothing else, the other
  lands without its wound when that is refused. The rules of referees change plain state.
  A behaviour is of one kind. "live" keeps to one branch, with live recalculation; "lagging" is
  the same without it, where two commits (`MaxLagging`) are enough for a proposal and what it
  meets. "forking" has two branches and two commits of plain deltas; it leaves out the cold
  path, continuations, texts of retries and idle settling, because a fork copies rows whoever
  wrote them and `ForkInheritsHistory` is about one step. The theorems cover forks together with the rest, and a setting that changes on the way.
* `safety`: three turns, batches of up to two, one retry, disabling after two failures, one
  crash: a batch can be overtaken by a settled turn, a retry and a swipe. Live recalculation is
  off, because then a reply can arm the debounce while a batch is in flight and only the guard
  on `_queued` keeps the timer from starting a second one; `live` and the violated runs have
  it on.
* `live`: the same with one turn per batch and a cadence of two, so that the debounce is
  needed as well as the cadence.
* `turn`, the lifecycle: two connections serve requests with two different bodies, so that a
  reservation can be found by its own request and by another; one swipe, two ledger roots, one
  crash. The proofs cover any number of swipes.
* `turn`, resolution: two things the Player may say and one reply, in transcripts of up to
  three messages without a repetition; two chats with ids, two sessions, three branches; the
  anchors `MinAnchor` and `AdoptMin` at two, so that a shallow and a deep match differ,
  `AlignK` at one. A branch is copied, copied again, adopted and edited within these.
* `play`: a belt that is worn and holds one thing, and coins; two owners, two scenes, three
  rows of up to two units. A container can be filled before it exists. One golem that may be
  foe or friend, a cohort of two, a side of two places and waves of one, one hit point: every
  fight can be lost, won, left and cut short within three rows. A behaviour of the fights ends
  with the Player's death (not with a defeat survived); the theorems go on after it.
* `services`: one text is enough for a reply to come back identical after a regenerate; two
  turns with one regenerate each, one crash. One root and one child session with two workers
  and three claim generations. One lesson with two revisions, two branches of one turn (a
  lesson removed in one branch and copied to the other). Three processes install a catalog: one
  that rebuilds, one that looked before it, one that comes later. Three fronts with clocks of
  three segments, the smallest the code admits, two of one faction and one of another, one
  event that lasts a turn and two that last; two turns, so that a pass can be late, and one
  fork: by a late completion and a fork a front completes again, and two circumstances of a
  faction are in force when a third comes. `group` has all three in one faction and no fork.

`turn` uses symmetry over connections, bodies and ids of chats, `play` over owners and
scenes, `split` over owners, which no definition tells apart; their properties are invariants,
step properties and a refinement without fairness. The other runs use none: branches differ by
`Root`, turns by their order, and `services` checks liveness.

### Fairness

`ExtractionJobs!FairSpec` assumes weak fairness of the debounce timer, of the runner and of the
delayed retries. The code justifies each: asyncio timers fire, the worker task serves its queue
for the life of the process, and the ladder's calls carry timeouts, so a batch in flight ends.
Nothing is assumed of the host (requests, replies and swipes may stop) and of crashes (at most
`MaxRestarts`). That the timer fires means that the host pauses for `debounce_s` in the end: one
that went on with its last reply again and again without a pause would keep putting it off.
`ScheduledTurnsAreDecided` excuses a disabled session, which by design waits for
`fail_reenable_after_turns` more turns.

`ServicesSpec` assumes weak fairness of each genesis worker's next step: the event loop runs
every task on and the calls a worker awaits time out (120 s for the model, 15 s for its name).
`ClaimsEnd` needs nothing more; it speaks of root sessions, because a child that copies the
stage of its root copies a claim that nobody works on.

### What the violated runs show

* `replay`. `store.state_at` starts from the newest checkpoint and replays the rows of later
  turns. `apply_delta` labels a checkpoint with the turn of its delta but stores the whole
  state. An extraction that lags a checkpoint is journaled where no read looks; a checkpoint
  written by a lagging extraction holds later rows, which are then applied twice; and a retry
  deletes rows an earlier checkpoint still holds. The module reference promises "nearest
  checkpoint <= turn + ordered replay of journal ops". The shortest trace takes a request on a
  checkpoint turn, its settling and its extraction.
* `late`. `on_response` of the RPG path does not compare the turn it was prepared for with what
  a retry has made of it. With `LateReplies = FALSE` (the host ends a stream before it opens
  the next request) the property holds, and is proved. The Chat path compares, and `services`
  shows that it needs no such assumption.
* `continued`. A turn is retried and becomes `skipped`; then the host asks to go on with the new
  narration. `on_response` stops short for class "swipe" only, so the continuation's tags are
  committed as narrator proposals at the turn which the retry has closed for them ("never a
  second mechanical settlement opportunity"). No stream is late. `RetiredTurnsStayRetired` allows
  this and nothing else: what was there or under way when the turn was retired never lands.
* `gap`. A batch is a first and a last turn. If a turn between them is no longer pending, the
  batch is extracted, refused and formed again, without end and with a model call each time.
* `split`. Two coins are put into the cell that is called like a belt before there is a belt;
  the belt comes into being and holds one thing; a move of a coin that is then refused takes it
  out of the cell's index and cannot put it back. The row says it is in the cell, the index
  does not, and the rejected operation is not journaled, so a replay disagrees with the live
  state. `LossesAreOverflows` says that this is the only way.
* `group`. One front of a faction has come to a head; then two more do in one pass. Their groups
  are checked against the state before the batch and found whole. The first ends the old
  circumstance; the second one's record that ends it is turned down, because by now there is
  nothing to end, but its admission lands. Both new circumstances stay in force, against "one
  exact, complete immutable event group". `CompletionsReplace` says that a completion which is
  the only one of its faction in its pass leaves the faction with its own circumstance alone.

Other behaviours the models reach and that no run states as a property (most are listed as
hazards, with the reason):

* The tag of a continuation looks for a wound that code has claimed, as every tag does, and not
  for one that an extraction has reported: a wound may land twice if a turn is continued after it
  was extracted. `RestatementNeverLands` leaves exactly this out; no text of the repository says
  what a continuation may report.
* A crash between the commit of a batch and its mark: the batch runs again, which the head of
  `jobs.py` states as the design. A wound it reports again finds its receipt
  (`ReceiptsMatchJournal`); the rest is applied a second time.
* A console write on a session without turns lands on turn -1, which no replay reads. A retry
  of the last turn of a batch retracts the delta of the others, which stay `done`. Pruning keeps
  the dead branches forked furthest in, not the youngest.
* A restart between a transient failure and its delayed retry leaves the span failed. With live
  recalculation off the head of a host that walks away is never settled. A Chat turn whose
  stream was lost keeps later ones from being extracted until it is regenerated.
* A swipe whose transaction fails after its reservation (always when an edit has moved the
  ledger root) blocks every swipe with another body until the next turn, and a turn reserved
  and not settled resumes only for the same bytes over an unchanged ledger.
* A stamped transcript that differs from the remembered one is refused until its counter or an
  overlapping window shows that it goes on; a duplicate of a swipe within the window is passed
  through; a reply that repeats the Player's last message is not taken for the one to replace.
  Deleting a session leaves its branches in the prefix index until a restart.
* A gone instance can be named by its id and taken up again with the quantity it had.
* With `LateInForks` a fork that still extracts an inherited turn can complete a front again
  before the circumstance it has once ended; the rebuilt record then predates its target, and
  the overlay of the branch is empty (`OverlayProjects` fails). A front whose last tick was
  late hands its event, but not all its ticks, to a fork at that turn, and tells it a second
  time. A late completion does not end the circumstance of a later turn, so from that turn on
  both are in force.
* A child chat forked while Stage B runs is never seeded until a restart.
* A counted battle whose fight the Player ends, or in which the Player falls with the last foe,
  stays on with nothing to send; one whose opening was refused in part can send nobody. A wave of
  which everybody is refused counts, and the fight goes on without a foe until a later wave or
  the Player ends it. A fallen friend
  who is enlisted again has the hit points of before the fight.

## 4. Proofs

`tlapm` proves, for every value of the constants that satisfies the modules' assumptions:

| theorem | module | says |
|---|---|---|
| `TypeCorrect` | `LedgerProofs` | `Spec => []TypeOK` |
| `ReceiptsStayMatched` | `LedgerProofs` | `Spec => []ReceiptsMatchJournal` |
| `UserWritesStayVisible` | `LedgerProofs` | `Spec => []UserWritesSurvive` |
| `ForksInherit` | `LedgerProofs` | `Spec => ForkInheritsHistory` |
| `RetiredTurnsStayClosed` | `LedgerProofs` | `Spec => []RetiredTurnsStayRetired`, if `~ LateReplies` |
| `NoRestatementEver` | `LedgerProofs` | `Spec => []RestatementNeverLands`, if `~ LateReplies` |
| `TypeCorrect` | `ExtractionJobsProofs` | `Spec => []TypeOK` |
| `OneBatch` | `ExtractionJobsProofs` | `Spec => []OneBatchPerBranch` |
| `DecisionsAreFinal` | `ExtractionJobsProofs` | `Spec => DecisionsStand` |
| `TypeCorrect` | `TurnLifecycleProofs` | `Spec => []TypeOK` |
| `RowsStayInStep` | `TurnLifecycleProofs` | `Spec => []RowsAgree` |
| `EveryStreamIsClaimed` | `TurnLifecycleProofs` | `Spec => []StreamsAreClaimed` |
| `KeptTextIsCurrent` | `TurnLifecycleProofs` | `Spec => []TextIsCurrent` |
| `NarrationsSucceed` | `TurnLifecycleProofs` | `Spec => []NarrationsFollowDelivery` |
| `ShownStaysFinal` | `TurnLifecycleProofs` | `Spec => ShownIsFinal` |
| `LifecycleKeepsPromise` | `TurnLifecycleProofs` | `Spec => KeepsPromise`, the refinement |
| `ResolutionIsTyped` | `ResolutionProofs` | `ResolutionSpec => []ResolutionTypeOK` |
| `MemoryInStep` | `ResolutionProofs` | `ResolutionSpec => []IndexInStep` |
| `HistoryGrows` | `ResolutionProofs` | `ResolutionSpec => HistoryOnlyGrows` |
| `TurnsRun` | `ResolutionProofs` | `ResolutionSpec => []TurnsRunOn`, if `Unmixed` |
| `TurnsRunBoth` | `TurnLifecycleProofs` | `TurnsSpec => Spec /\ ResolutionSpec` |
| `TurnsAreTyped` | `TurnLifecycleProofs` | `TurnsSpec => []TurnsTypeOK` |
| `ChatIsTyped` | `ServicesProofs` | `ChatSpec => []ChatTypeOK` |
| `LateAnswersAreRefused` | `ServicesProofs` | `ChatSpec => []ReplyIsLatest` |
| `NothingOfAbandonedReplies` | `ServicesProofs` | `ChatSpec => []FactsRestOnReplies` |
| `RepliesAreTakenBackWhole` | `ServicesProofs` | `ChatSpec => AcceptedOnce` |
| `RemindersRestOnReplies` | `ServicesProofs` | `ChatSpec => RemindersAreCurrent` |
| `GenesisIsTyped` | `ServicesProofs` | `GenesisSpec => []GenesisTypeOK` |
| `ClaimsAreExclusive` | `ServicesProofs` | `GenesisSpec => []OneOwner` |
| `SeedsAreKept` | `ServicesProofs` | `GenesisSpec => []SeedsStand` |
| `StaleWorkersPublishNothing` | `ServicesProofs` | `GenesisSpec => OnlyCurrentPublishes` |
| `OverlaysProject` | `ServicesProofs` | `WorldEventsSpec => []OverlayProjects`, if `~ LateInForks` |
| `WorldIsTyped` | `ServicesProofs` | `WorldEventsSpec => []WorldEventsTypeOK` |
| `CompletionsTold` | `ServicesProofs` | `WorldEventsSpec => []CompletionsAreTold` |
| `CompletionsTakeOver` | `ServicesProofs` | `WorldEventsSpec => CompletionsReplace`, if `~ LateInForks` |
| `ServicesRunAll` | `ServicesProofs` | `ServicesSpec =>` the specification of each of the five, with the fairness of genesis |
| `ServicesAreTyped` | `ServicesProofs` | `ServicesSpec => []ServicesTypeOK` |
| `LessonsAreTyped` | `LessonsProofs` | `LessonsSpec => []LessonsTypeOK` |
| `RemovalIsFinal` | `LessonsProofs` | `LessonsSpec => []RemovedIsGone` |
| `SelectionsAreFrozen` | `LessonsProofs` | `LessonsSpec => []SelectionsStand` |
| `OnlyCurrentLessonsAreServed` | `LessonsProofs` | `LessonsSpec => ServedIsCurrent` |
| `SchemaIsTyped` | `LessonsProofs` | `SchemaSpec => []SchemaTypeOK` |
| `ServedCatalogsAreClean` | `LessonsProofs` | `SchemaSpec => []CleanWhenServed` |
| `ItemsAreTyped` | `PlayProofs` | `ItemsSpec => []ItemsTypeOK` |
| `IndexesAgree` | `PlayProofs` | `ItemsSpec => []IndexAgrees` |
| `OnlyOverflowsLose` | `PlayProofs` | `ItemsSpec => LossesAreOverflows` |
| `FightsAreTyped` | `PlayProofs` | `WarSpec => []WarTypeOK` |
| `IntentsAreFoes` | `PlayProofs` | `WarSpec => []IntentNamesAFoe` |
| `FightsKeepFoes` | `PlayProofs` | `WarSpec => FightsHaveFoes` |
| `VictoriesAreEarned` | `PlayProofs` | `WarSpec => VictoryIsEarned` |
| `PlaysRunBoth` | `PlayProofs` | `PlaySpec => ItemsSpec /\ WarSpec` |
| `PlayIsTyped` | `PlayProofs` | `PlaySpec => []PlayTypeOK` |

Assumptions: `LedgerAssumption`, `NoEffectAssumption` and `NoCheckpointAssumption` (the two
"none" values are not an effect and not a state), `JobsAssumption`, `LifecycleAssumption`,
`ResolutionAssumption`, `ChatAssumption`, `GenesisAssumption`, `LessonsAssumption`,
`ItemsAssumption`, `WarAssumption`, `WorldAssumption`: bounds and limits are numbers, messages
have a role and a text, requests are not empty, and the values that mean "none" are not values.
TLC evaluates them in every run of their module. Four theorems add that a reply is not later
than the next request (`~ LateReplies`, twice) or that a fork works on no turn older than itself
(`~ LateInForks`, twice), and one that a host stamps all of a chat or none of it (`Unmixed`);
without them the properties fail, which the run `late`, the list of section 3 and the hazards
show. The theorems about the modules that share a run are about each module's own
specification. The combined specification of the run does a step of one of them and leaves the
others alone; `TurnsRunBoth`, `PlaysRunBoth` and `ServicesRunAll` prove that it therefore
implies each of them, so that what is proved of a module holds in its run, and carry the types
over.

The argument for the ledger goes branch by branch. `RowInv` is the type, the correspondence of
receipts and journal in both directions, that only turns on the cadence carry checkpoints, and
that every checkpoint holds each user write at or below its turn. The last two make
`UserWritesSurvive` inductive: a user write lands above every checkpoint, or on the newest one,
which (being on the cadence) it replaces with a state that holds it; and a checkpoint written
later stores a current state that holds every user write already. One lemma per operation shows
that it keeps `RowInv`, one per action composes them. `ForksInherit` needs no induction beyond
the type: below the fork turn both branches have the same newest checkpoint and the same rows.

For retries, `Timely` strengthens this: recorded turns lie behind the head; the turn of a stream
that opened it is recorded, not retired, not settled and not replied, that of one which goes on
with it is recorded; proposals lie behind the head; damage of a reply or an extraction is a
proposal's; an extracted turn has no stream that opened it; journal rows are numbered by the
commits made so far; and of two reports of a wound at a turn the later is as strong as the
earlier, or a continuation's after an extraction's (`ReportsInOrder`). With it a reply of the
stream that opened a turn commits only to a turn no retry has taken, code opens a turn before
anyone else can have reported a wound of it, and whatever a continuation commits is in
`continued`. A retry or a newer turn ends the streams before it, which is where `~ LateReplies`
is used; the run `late` shows it cannot be dropped.

For the scheduler, `IInv` adds to the type that turns past the head have no row (so a restart
that finds work has a head to run it for, and a request never overwrites a status); `Single`
says that there is no batch and `_queued` is false, or one batch and it is true. `StatusStep`
lists what a step can do to a status, from which `DecisionsStand` follows.

For the proof-gated turn, `Inv` says that a row's claim names its narration and only a provable
narration is claimed or completed (`RowSound`), that streams carry what their attempt's claim
names, and how the attempts lie: before the commit nothing but a reservation of the first one
(`Unplaced`), afterwards provable ones up to the pointer, completed before it and at most one
reservation behind it (`Placed`). `Placed` is what makes "a swipe opens the next attempt"
inductive, and through it the type of the swipe count. Serving a request composes promotion and
claim; `Follows` is what both keep of the attempts, one lemma each, so every action that opens
and finishes no attempt is one step of `ServedStep`, which gives the invariant, `ShownIsFinal`
and the abstract step together. Settling, swiping and the end of a stream have lemmas of their
own and map to `Settle`, `Renew` and `Finish` of `DeliveryPromise`.

For session resolution, rows and memory are one value (`Now`) and a request a composition of
operators on such values, so the argument is about values and not about steps. `InStep(w)` says
that `w` has rows (`Shaped`), that an open session and its one live branch point at each other
(`Owned`), that the memory mirrors the rows (`Mirrors`) and covers exactly the live branches. It
is not kept at every point of a request: a branch that has just been created has rows and is not
in memory yet. `Near(w, b)` is `InStep` but for that one branch, and the lemmas about
`Created`, `Copied`, `Replaced`, `Relinked`, `Appended`, `Synced` and `Cut` say which of the two
they need and which they leave; `Changes` and `Founds` are the two shapes of what they do (one
branch gets a transcript and turns; a session with its branch comes to be). What the properties
need of recognition is little: a match names a live branch and a length within its transcript
(`CommonIsThere`, `AlignedIsThere`, `MatchesAre`), so `HistoryOnlyGrows` and `IndexInStep` hold
whichever branch is recognised. For the turns, `Runs` adds to `RunOn` that without stamps they
are `0..Players - 1`: then a copy that keeps the turns up to the one of its last Player message
(`CopyRunsOn`) and an append that counts from the Player messages in memory continue without a
gap, while a stamped request adds the turn after the last one (`NextRunsOn`). A branch that was
counted by stamps and then matched without one would be counted by its messages again; that is
what `Unmixed` excludes. `Outcome(w)` collects all this, one lemma per kind of request proves
it, and `BecomesKeeps` turns it into the invariant and `HistoryOnlyGrows` at once; after an error
the memory is rebuilt from rows it agreed with.

For Chat replies, `ChatInv` adds two things to `ReplyIsLatest` and `FactsRestOnReplies`: the
types, and that a batch names a reply (so the comparison in the commit is with something that
was accepted). What makes `FactsRestOnReplies` inductive is that a regenerate deletes by turn
and reply and counts the attempt up in one transaction, and every writer compares with the row
in the transaction that writes.

For genesis, `GenesisInv` says of every worker past its claim that its generation is at most the
session's, that no two of them have the same, and that whoever has the current one has not been
overtaken. A decision counts the generation up, so no worker owns it any more; `OneOwner` and
both seed properties follow from the one comparison in the commit.

For lessons, `LessonsInv` is the type, `RemovedIsGone` and `ReceiptsHold`: a receipt holds
what the branch it comes from was given in that turn, less what was removed, and a cached packet
shows no other version of a lesson than its receipt. A copy takes over items and origin of an
ancestor's receipt for the same turn, whichever ancestor that is; so nothing has to be known of
the walk up the branches. A migrating process that saw an old table, a
pending cleanup or its own commit scrubs; one that saw none of them looked after the scrub of
whoever rebuilt. That is the invariant behind `ServedCatalogsAreClean`.

For world events, `WorldInv` adds to the type and `OverlayProjects` that an unfinished front's
records are no younger than the fork. A completion ends what is in force at its own turn, which
is no younger, or what the front has ended before; the latter it can only have inherited, and
without `LateInForks` it completes no earlier than the fork. `ToldInv`, which needs no such
assumption, is behind `CompletionsAreTold`: an event carries the line it was admitted in, only
fronts that are full have one of the current line, and a full front has one that is no younger
than one of its ticks, so a fork that inherits all ticks inherits the event. Both together give
`CompletionsReplace`: what is still in force beside the new event would have been due at its
turn, no other front of the faction was full in the pass, and so its end landed. `NarrationsSucceed` and
`RepliesAreTakenBackWhole` state properties that no run lists: the refinement `KeepsPromise`
covers the first, `FactsRestOnReplies` and `ReplyIsLatest` most of the second.

For items, `ItemsInv` is the type and `Agree`, which relates places, holders and the index entry
by entry. Each operation removes the entries of one instance, adds one, or restores the ones it
took away when a rejection rolls it back; a lemma for each of the three (`Removing`, `Adding`,
`Restoring`) carries `Agree` over and says what is lost, so an operation's lemma only names its
steps. `Restoring` is where a full cell refuses what it held before: the one loss that
`LossesAreOverflows` allows.

For fights, `WarInv` adds two things to the type and `IntentNamesAFoe`. The used rows of a name
are its first ones (`Lined`), so whoever joins takes nobody's row and no committed move changes
its owner; when there is no fight there are no rows. And after the combat referee no member of
a cohort without hit points stands, and a fight outside a battle has a foe or `refused` holds
(`Ready`): the battle
referee ends a counted battle when nobody is able to act, and by `Ready` then nobody of the
cohort stands. A wave of which nobody comes is the other hard case of `FightsHaveFoes`: it sends
nobody only when the foes' side is full (`AdmittedIs`), and otherwise somebody was refused.

Only model-checked: `ScheduledTurnsAreDecided` and `ClaimsEnd`, because liveness under fairness
is out of the prover's reach. Every other property of a passing run is a theorem. What the
counterexample runs of section 3 show is TLC's alone: a behaviour is shown by giving it.

## 5. Not modelled, and the plan

Not modelled for good: formatting and prompt composition, the HUD, text analysis of Tier 0, of
PlayerLex and of the narration guards beyond their decisions, HTTP and wiring, the browser
extension. The reducer's several dozen operations are free in `Ledger` on purpose: what the
ledger promises holds for any reducer. The operations on items and fights are modelled for what
they promise themselves; of the others (attributes, quests, factions, meters) most are one
assignment with a clamp.

The plan, in this order:

1. Deletion of sessions in `SessionResolution`, against the index that keeps their branches
   (`control.py:2438`), and the turns a proof-gated request reserves there.
2. An abstract extraction life cycle (a turn is extracted, retired or given up) and a refinement
   mapping from `ExtractionJobs`; several branches that share an endpoint.
3. WorldLex, new fronts during the story, and the settlement receipts, whose forks and retries
   follow the pattern of `Ledger` and `ChatReplies`.
4. `PlayStack`: the start order of its processes, ownership records and resume.
5. System health, the extraction ladder and the buffered guard's retries as operators checked
   against reference definitions.

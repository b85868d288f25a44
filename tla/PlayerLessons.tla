--------------------------- MODULE PlayerLessons ---------------------------
(***************************************************************************)
(* The Player's local lessons (player_lessons.py, with their use in        *)
(* pipeline.py and their endpoints in control.py): what a turn was given   *)
(* is frozen once, replayed on retries and in forks as far as it is still  *)
(* current, and forgotten everywhere when a lesson is removed.             *)
(*                                                                         *)
(* A request and a change of a lesson each hold the lifecycle guard from    *)
(* their first read to their last write, cache included, so each is one    *)
(* step.  The headers of the narrator come while the guard is free.        *)
(***************************************************************************)
EXTENDS Integers, FiniteSets

CONSTANTS
    Lessons,      \* lesson ids; an id is never used again
    Branches,
    Root,
    Nowhere,
    Connections,
    LastTurn,     \* bound: the last turn of a branch
    MaxRevision,  \* bound: the last revision of a lesson
    MaxLessons,   \* MAX_LESSONS
    MaxSelected   \* MAX_SELECTED_LESSONS

ASSUME LessonsAssumption ==
    /\ LastTurn \in Nat /\ MaxRevision \in Nat \ {0}
    /\ MaxLessons \in Nat /\ MaxSelected \in Nat
    /\ IsFiniteSet(Lessons)
    /\ Root \in Branches /\ Nowhere \notin Branches

Version == Lessons \X (1..MaxRevision)
Slot    == Branches \X (0..LastTurn)
\* A lesson that means something interprets what the Player wants; the others are told to the
\* narrator.
LessonRow  == [kept : {"new", "kept", "gone"}, revision : 0..MaxRevision, enabled : BOOLEAN,
               means : BOOLEAN]
BranchRow  == [status : {"unused", "live", "dead", "pruned"}, parent : Branches \cup {Nowhere},
               ceiling : -1..LastTurn, last : -1..LastTurn]
\* A frozen receipt with its items, of which some are marked as delivered or applied.
ReceiptRow == [frozen : BOOLEAN, origin : Branches \cup {Nowhere},
               items : SUBSET Version, marked : SUBSET Version]
\* What a request carries: the lessons in its text, and applications still to be recorded.
Packet     == [branch : Branches, turn : 0..LastTurn, shows : SUBSET Version,
               meant : SUBSET Lessons, owed : SUBSET Version]
Quiet      == [branch |-> Root, turn |-> 0, shows |-> {}, meant |-> {}, owed |-> {}]

VARIABLES
    lesson,    \* player_lessons
    stale,     \* lessons whose PlayerLex entry is no longer the one they were anchored to
    branch,    \* branches, and what of turns and branch_msgs a fork's ceiling is computed from
    receipt,   \* player_lesson_selection_receipts and _items; marked: delivered
    intent,    \* player_lesson_intent_receipts, _selection_items and _applications
    residue,   \* lessons whose text is in the database file or its WAL
    packets,   \* memory: _request_packets
    post,      \* memory: the request of a connection, until its headers come; or Nowhere
    removed,   \* history: lessons whose removal was reported
    given      \* history: the versions a turn of a branch was given when it was selected

lessonVars == <<lesson, stale, branch, receipt, intent, residue, packets, post, removed, given>>

Blank == [frozen |-> FALSE, origin |-> Nowhere, items |-> {}, marked |-> {}]

-----------------------------------------------------------------------------
(* Lessons *)

\* The stored lesson is still the version v, is enabled, and its anchor holds.
Usable(v) ==
    /\ lesson[v[1]].kept = "kept" /\ lesson[v[1]].revision = v[2]
    /\ lesson[v[1]].enabled /\ v[1] \notin stale

\* What select and select_intent choose from.  Scope and recognition are left open: any of them
\* may match.
Selections(means) ==
    {S \in SUBSET {v \in Version : lesson[v[1]].means = means /\ Usable(v)} :
        Cardinality(S) <= MaxSelected}

\* forget_player_lesson
Forgotten(P, l) == {p \in P : l \notin p.meant /\ \A v \in p.shows : v[1] # l}

\* wal_checkpoint(TRUNCATE) with secure_delete: only the text of stored lessons is left.
Scrubbed(R, L) == {l \in R : L[l].kept = "kept"}

CreateLesson(l, means) ==
    /\ lesson[l].kept = "new"
    /\ Cardinality({k \in Lessons : lesson[k].kept = "kept"}) < MaxLessons
    /\ lesson' = [lesson EXCEPT ![l] = [kept |-> "kept", revision |-> 1, enabled |-> TRUE,
                                         means |-> means]]
    /\ residue' = residue \cup {l}
    /\ UNCHANGED <<stale, branch, receipt, intent, packets, post, removed, given>>

\* A correction approves the lesson anew, with the anchor as it is now.  (Who shows another
\* version than the stored one gets a conflict and changes nothing.)
Correct(l) ==
    /\ lesson[l].kept = "kept" /\ lesson[l].revision < MaxRevision
    /\ lesson' = [lesson EXCEPT ![l].revision = @ + 1]
    /\ stale' = stale \ {l}
    /\ packets' = Forgotten(packets, l)
    /\ UNCHANGED <<branch, receipt, intent, residue, post, removed, given>>

SetEnabled(l, e) ==
    /\ lesson[l].kept = "kept" /\ lesson[l].revision < MaxRevision
    /\ lesson[l].enabled # e /\ (e => l \notin stale)
    /\ lesson' = [lesson EXCEPT ![l].revision = @ + 1, ![l].enabled = e]
    /\ packets' = Forgotten(packets, l)
    /\ UNCHANGED <<stale, branch, receipt, intent, residue, post, removed, given>>

\* The Player changes the PlayerLex entry a lesson is anchored to, away from it or back; the
\* packets of the lesson stay.
LexChanges(l) ==
    /\ lesson[l].kept = "kept"
    /\ stale' = IF l \in stale THEN stale \ {l} ELSE stale \cup {l}
    /\ UNCHANGED <<lesson, branch, receipt, intent, residue, packets, post, removed, given>>

\* Mutant: only what was selected is deleted, not what was recorded of it.
DeletedItems(T, l) == [x \in Slot |-> [T[x] EXCEPT !.items = {v \in @ : v[1] # l}]]

\* The four deletions of remove.
Deleted(T, l) ==
    [x \in Slot |-> [T[x] EXCEPT !.items = {v \in @ : v[1] # l}, !.marked = {v \in @ : v[1] # l}]]

\* remove, again if it has to be.  When a reader keeps the checkpoint after the deletion from
\* the files, the caller is told to try again; when it keeps the one before it, nothing happens.
Remove(l, outcome) ==
    /\ lesson[l].kept # "new"
    /\ outcome \in {"busy_after", "done"}
    /\ lesson'  = [lesson EXCEPT ![l].kept = "gone"]
    /\ receipt' = Deleted(receipt, l)
    /\ intent'  = Deleted(intent, l)
    /\ residue' = Scrubbed(residue, IF outcome = "done" THEN lesson' ELSE lesson)
    /\ packets' = IF outcome = "done" THEN Forgotten(packets, l) ELSE packets
    /\ removed' = IF outcome = "done" THEN removed \cup {l} ELSE removed
    /\ UNCHANGED <<stale, branch, post, given>>

-----------------------------------------------------------------------------
(* Frozen receipts *)

\* _ancestor_receipt_branch: the nearest branch above whose turn was copied and has a receipt.
\* The ceiling needs the messages of the parent, which pruning deletes.
Ancestor(T, b, t) ==
    LET up[x \in Branches] ==
            LET p == branch[x].parent
            IN  IF p = Nowhere THEN Nowhere
                ELSE IF branch[p].status = "pruned" \/ t > branch[x].ceiling THEN Nowhere
                ELSE IF T[<<p, t>>].frozen THEN p ELSE up[p]
    IN  up[b]

\* Mutant: the copy is what could be selected now.
CloneAnew(T, a, t, marks) ==
    [frozen |-> TRUE, origin |-> T[<<a, t>>].origin,
     items |-> {v \in Version : Usable(v)}, marked |-> {}]

\* _clone_receipt, _clone_intent_receipt: deliveries are not copied, applications are.
Clone(T, a, t, marks) ==
    [T[<<a, t>>] EXCEPT !.marked = IF marks THEN @ ELSE {}]

\* _ensure_receipt, _ensure_intent_receipt
Ensured(T, b, t, marks) ==
    LET a == Ancestor(T, b, t)
    IN  IF ~ T[<<b, t>>].frozen /\ a \in Branches /\ T[<<a, t>>].frozen
        THEN [T EXCEPT ![<<b, t>>] = Clone(T, a, t, marks)]
        ELSE T

Frozen(b, chosen) == [frozen |-> TRUE, origin |-> b, items |-> chosen, marked |-> {}]

\* Mutant: the items are not looked at.
RepairedAnyway(T, p) == [T EXCEPT ![<<p.branch, p.turn>>].marked = @ \cup p.owed]

\* repair_intent_applications: for what the frozen selection still has.
Repaired(T, p) ==
    IF p.owed \subseteq T[<<p.branch, p.turn>>].items
    THEN [T EXCEPT ![<<p.branch, p.turn>>].marked = @ \cup p.owed]
    ELSE T

\* What of a receipt can be shown now (_rehydrate_direct).
CurrentItems(T, b, t) == {v \in T[<<b, t>>].items : Usable(v)}

\* Mutant: a cached packet is as good as it was.
StillAsCached(T, p) == TRUE

\* _cached_player_lessons_current
CachedCurrent(T, p) ==
    p.shows = {} \/ {v[1] : v \in CurrentItems(T, p.branch, p.turn)} = {v[1] : v \in p.shows}

\* The packet goes out on the connection.
Sends(c, p) == post[c] = Nowhere /\ post' = [post EXCEPT ![c] = p]

Reaches(b, t) == branch' = [branch EXCEPT ![b].last = IF t > @ THEN t ELSE @]

-----------------------------------------------------------------------------
(* Requests *)

\* A turn asks for its lessons, a new one or one that was asked for before.  With another
\* message than before the receipt is a conflict, and the request goes without.
AskForLessons(c, b, t, same, recorded) ==
    LET narr == Ensured(receipt, b, t, FALSE)
        mean == Ensured(intent, b, t, TRUE)
        old  == narr[<<b, t>>].frozen
        knew == mean[<<b, t>>].frozen
    IN  /\ branch[b].status = "live" /\ t \in {branch[b].last, branch[b].last + 1} \cap (0..LastTurn)
        /\ \E chosen \in Selections(FALSE), wanted \in Selections(TRUE) :
            /\ old => chosen = {}
            /\ knew => wanted = {}
            /\ receipt' = IF ~ old THEN [narr EXCEPT ![<<b, t>>] = Frozen(b, chosen)]
                          ELSE IF same THEN narr ELSE receipt
            /\ LET frozen == IF ~ knew THEN [mean EXCEPT ![<<b, t>>] = Frozen(b, wanted)]
                             ELSE IF same THEN mean ELSE intent
                   here   == IF knew /\ ~ same THEN {} ELSE CurrentItems(frozen, b, t)
               IN  /\ intent' = IF recorded
                                THEN [frozen EXCEPT ![<<b, t>>].marked = @ \cup here]
                                ELSE frozen
                   /\ \E shows \in SUBSET (IF old /\ ~ same THEN {} ELSE CurrentItems(receipt', b, t)) :
                       LET p == [branch |-> b, turn |-> t, shows |-> shows,
                                 meant |-> {v[1] : v \in here},
                                 owed |-> IF recorded THEN {} ELSE here]
                       IN  /\ Sends(c, p)
                           /\ packets' = packets \cup {p}
            /\ given' = IF old THEN given ELSE [given EXCEPT ![<<b, t>>] = chosen]
        /\ Reaches(b, t)
        /\ UNCHANGED <<lesson, stale, residue, removed>>

\* A continuation, a swipe, an edited message or an action sent again: the turn is rehydrated.
Replay(c, b, t) ==
    /\ branch[b].status = "live" /\ t \in (0..(branch[b].last + 1)) \cap (0..LastTurn)
    /\ receipt' = Ensured(receipt, b, t, FALSE)
    /\ \E shows \in SUBSET CurrentItems(receipt', b, t) :
        LET p == [branch |-> b, turn |-> t, shows |-> shows, meant |-> {}, owed |-> {}]
        IN  Sends(c, p) /\ packets' = packets \cup {p}
    /\ Reaches(b, t)
    /\ UNCHANGED <<lesson, stale, intent, residue, removed, given>>

\* A transport duplicate: the same packet, unless a lesson in it is no longer what it was; then
\* the request goes as it came.  (What is owed stays listed: recording it again changes nothing.
\* A packet that left the bounded cache is never sent again, so eviction is no step of its own.)
Duplicate(c, p) ==
    LET kept == Ensured(receipt, p.branch, p.turn, FALSE)
    IN  /\ p \in packets
        /\ IF CachedCurrent(kept, p)
           THEN /\ intent' = Repaired(intent, p)
                /\ Sends(c, p)
                /\ UNCHANGED packets
           ELSE /\ packets' = {q \in packets : \A v \in p.shows :
                                  v[1] \notin q.meant /\ \A u \in q.shows : u[1] # v[1]}
                /\ Sends(c, Quiet)
                /\ UNCHANGED intent
        /\ receipt' = IF p.shows = {} THEN receipt ELSE kept
        /\ UNCHANGED <<lesson, stale, branch, residue, removed, given>>

\* The headers of the narrator: what is owed is recorded, and what was shown is delivered,
\* unless a lesson of the request was removed meanwhile.
Headers(c) ==
    LET p == post[c]
        r == receipt[<<p.branch, p.turn>>]
    IN  /\ p # Nowhere
        /\ intent' = Repaired(intent, p)
        /\ receipt' = IF {v[1] : v \in p.shows} \subseteq {v[1] : v \in r.items}
                      THEN [receipt EXCEPT ![<<p.branch, p.turn>>].marked =
                               @ \cup {v \in r.items : \E u \in p.shows : u[1] = v[1]}]
                      ELSE receipt
        /\ post' = [post EXCEPT ![c] = Nowhere]
        /\ UNCHANGED <<lesson, stale, branch, residue, packets, removed, given>>

\* The narrator cannot be reached.
NoHeaders(c) ==
    /\ post[c] # Nowhere
    /\ post' = [post EXCEPT ![c] = Nowhere]
    /\ UNCHANGED <<lesson, stale, branch, receipt, intent, residue, packets, removed, given>>

\* fork_branch; the receipts are copied later, when somebody asks for them.  Which of the dead
\* branches are pruned is left open here (Ledger has the order).
Fork(b, d, at, kill, pruned) ==
    /\ branch[b].status = "live" /\ branch[d].status = "unused" /\ at \in -1..branch[b].last
    /\ pruned \subseteq {x \in Branches : branch[x].status = "dead"} \cup {b}
    /\ pruned # {} => kill
    /\ branch' = [x \in Branches |->
           IF x = d THEN [status |-> "live", parent |-> b, ceiling |-> at, last |-> at]
           ELSE IF x \in pruned THEN [branch[x] EXCEPT !.status = "pruned"]
           ELSE IF x = b /\ kill THEN [branch[x] EXCEPT !.status = "dead"]
           ELSE branch[x]]
    /\ UNCHANGED <<lesson, stale, receipt, intent, residue, packets, post, removed, given>>

Crash ==
    /\ packets' = {} /\ post' = [c \in Connections |-> Nowhere]
    /\ UNCHANGED <<lesson, stale, branch, receipt, intent, residue, removed, given>>

-----------------------------------------------------------------------------
LessonsInit ==
    /\ lesson  = [l \in Lessons |-> [kept |-> "new", revision |-> 0, enabled |-> FALSE,
                                means |-> FALSE]]
    /\ stale = {} /\ residue = {} /\ removed = {} /\ packets = {}
    /\ branch  = [b \in Branches |-> [status |-> IF b = Root THEN "live" ELSE "unused",
                                      parent |-> Nowhere, ceiling |-> -1, last |-> -1]]
    /\ receipt = [x \in Slot |-> Blank] /\ intent = [x \in Slot |-> Blank]
    /\ post    = [c \in Connections |-> Nowhere]
    /\ given   = [x \in Slot |-> {}]

LessonsNext ==
    \/ \E l \in Lessons :
        \/ \E means \in BOOLEAN : CreateLesson(l, means)
        \/ Correct(l) \/ LexChanges(l)
        \/ \E e \in BOOLEAN : SetEnabled(l, e)
        \/ \E outcome \in {"busy_after", "done"} : Remove(l, outcome)
    \/ \E c \in Connections :
        \/ \E b \in Branches, t \in 0..LastTurn :
            \/ \E same, recorded \in BOOLEAN : AskForLessons(c, b, t, same, recorded)
            \/ Replay(c, b, t)
        \/ \E p \in packets : Duplicate(c, p)
        \/ Headers(c) \/ NoHeaders(c)
    \/ \E b, d \in Branches, at \in -1..LastTurn, kill \in BOOLEAN, pruned \in SUBSET Branches :
        Fork(b, d, at, kill, pruned)
    \/ Crash

LessonsSpec == LessonsInit /\ [][LessonsNext]_lessonVars

-----------------------------------------------------------------------------
(* Properties *)

\* The types of the state.
LessonsTypeOK ==
    /\ lesson \in [Lessons -> LessonRow]
    /\ stale \in SUBSET Lessons /\ residue \in SUBSET Lessons /\ removed \in SUBSET Lessons
    /\ branch \in [Branches -> BranchRow]
    /\ receipt \in [Slot -> ReceiptRow] /\ intent \in [Slot -> ReceiptRow]
    /\ packets \in SUBSET Packet
    /\ post \in [Connections -> Packet \cup {Nowhere}]
    /\ given \in [Slot -> SUBSET Version]

\* A lesson whose removal was reported is nowhere any more, and never comes back: no row, no
\* receipt or application of any branch, no cached packet, no byte in the files; whatever was
\* cached, in flight, owed or still to be copied from a parent branch when it was removed.
RemovedIsGone ==
    \A l \in removed :
        /\ lesson[l].kept = "gone" /\ l \notin residue
        /\ \A x \in Slot : \A v \in Version : v[1] = l =>
            /\ v \notin receipt[x].items \cup receipt[x].marked
            /\ v \notin intent[x].items \cup intent[x].marked
        /\ \A p \in packets : l \notin p.meant /\ \A v \in p.shows : v[1] # l

\* Whatever goes out, new, replayed or from the cache, shows lessons only in the version that
\* is stored, enabled and anchored at that moment (lifecycle_guard, _cached_player_lessons_current).
ServedIsCurrent ==
    [][\A c \in Connections : post'[c] # post[c] /\ post'[c] # Nowhere =>
        \A v \in post'[c].shows : Usable(v)]_lessonVars

\* What a turn was given stands, whenever and in whatever branch it is replayed: a receipt is
\* the selection of the branch it comes from, less what was deleted since, and never reranked.
SelectionsStand ==
    \A x \in Slot : receipt[x].frozen =>
        receipt[x].items =
            {v \in given[<<receipt[x].origin, x[2]>>] : lesson[v[1]].kept # "gone"}
=============================================================================

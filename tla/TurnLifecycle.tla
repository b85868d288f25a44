---------------------------- MODULE TurnLifecycle ----------------------------
(***************************************************************************)
(* One proof-gated turn (turn_lifecycle.py) with the requests that work on *)
(* it (pipeline.py, proxy.py): reservation, settlement with a fallback     *)
(* narration, selection of a better one by the model, the durable claim    *)
(* before the first byte, completion after the last one, replays of lost   *)
(* replies, transport duplicates and swipes.                               *)
(*                                                                         *)
(* Pipeline.process runs on the event loop without awaiting, so everything *)
(* a request does between two awaits is one step, although it takes        *)
(* several transactions; a failure between two of them is an action of its *)
(* own.  The two awaits are the buffering of the selector's answer and the *)
(* yield of the payload.                                                   *)
(***************************************************************************)
EXTENDS Integers

CONSTANTS
    Connections,  \* requests that can be served at the same time
    Bodies,       \* request bodies: one transcript, different bytes
    Stories,      \* narrations a selector may have accepted
    Fallback,     \* the code-owned narration
    None,
    MaxSwipes,    \* bound: the last attempt
    MaxRoot,      \* bound: changes of the state ledger
    MaxCrashes    \* bound: crashes of the process

ASSUME LifecycleAssumption ==
    /\ MaxSwipes \in Nat /\ MaxRoot \in Nat /\ MaxCrashes \in Nat
    /\ Fallback \notin Stories
    /\ None \notin Stories \cup {Fallback} /\ None \notin Bodies

Attempt == 0..MaxSwipes
Story   == Stories \cup {Fallback}
Status  == {"none", "reserved", "fallback_ready", "accepted", "fallback_final"}
Provable == {"fallback_ready", "accepted", "fallback_final"}

\* A semantic_turn_attempts row with its delivery claim and completion.  The request hash of a
\* swipe covers the body and the swipe count it was resolved at; -1 for the initial request.
Row == [status : Status, body : Bodies \cup {None}, count : -1..MaxSwipes,
        story : Story \cup {None}, claim : Story \cup {None}, completed : BOOLEAN]

\* What a connection waits for: the selector's answer, or the client to take the payload.
Work == [stage : {"idle", "select", "stream"}, at : Attempt, story : Story \cup {None}]

VARIABLES
    state,     \* turns row and lifecycle status
    attempt,   \* the attempts of the lifecycle
    active,    \* active_attempt_index; 0 before there is one
    anchor,    \* the ledger root the lifecycle is bound to: its pre root, once settled its post root
    root,      \* the root of the branch's state now
    swipes,    \* turns.swipe_count
    text,      \* turn_texts: the attempt and narration kept as the turn's reply
    advanced,  \* the head of the branch is past this turn
    applied,   \* history: how often the turn's mechanics were applied
    conn,      \* memory: the requests being served
    seen,      \* memory: SessionEngine._dedup, resolutions still in their window
    told,      \* memory: Pipeline._completed_responses
    crashes

ledger == <<state, anchor, root, applied>>
memory == <<conn, seen, told>>
vars == <<state, attempt, active, anchor, root, swipes, text, advanced, applied,
          conn, seen, told, crashes>>

-----------------------------------------------------------------------------
(* Rows *)

NoRow == [status |-> "none", body |-> None, count |-> -1, story |-> None,
          claim |-> None, completed |-> FALSE]
ReservedRow(b, n) ==
    [status |-> "reserved", body |-> b, count |-> n, story |-> None,
     claim |-> None, completed |-> FALSE]
FallbackRow(b, n) ==
    [status |-> "fallback_ready", body |-> b, count |-> n, story |-> Fallback,
     claim |-> None, completed |-> FALSE]

NoWork == [stage |-> "idle", at |-> 0, story |-> None]
NothingSeen == [normal |-> [b \in Bodies |-> "no"], swipe |-> [b \in Bodies |-> -1]]

Newest(A, i) == \A j \in Attempt : j > i => A[j].status = "none"

-----------------------------------------------------------------------------
(* Transactions on the attempts *)

\* Mutant: a fallback somebody has already been shown is replaced.
PromotableThoughShown(A, act, i, s) ==
    A[i].status = "fallback_ready" /\ act = i /\ Newest(A, i)

\* promote_candidate: the attempt is still a fallback, active and the newest one, and nobody
\* has claimed it for delivery unless the fallback itself becomes final.
Promotable(A, act, i, s) ==
    /\ A[i].status = "fallback_ready" /\ act = i /\ Newest(A, i)
    /\ A[i].claim = None \/ (s = Fallback /\ A[i].claim = Fallback)

Promoted(A, act, i, s) ==
    IF Promotable(A, act, i, s)
    THEN [A EXCEPT ![i].status = IF s = Fallback THEN "fallback_final" ELSE "accepted",
                   ![i].story = s]
    ELSE A

\* claim_delivery: only the active attempt, and only as what it was claimed before.
Claimable(A, act, i) ==
    i = act /\ A[i].status \in Provable /\ A[i].claim \in {None, A[i].story}

\* Mutant: the first byte leaves without a durable claim.
ClaimForgotten(A, i) == A

Claimed(A, i) == [A EXCEPT ![i].claim = A[i].story]

\* Mutant: a narration whose delivery merely began counts as delivered.
DeliveredWhenClaimed(i) == attempt[i].claim # None

\* reserve_swipe: what lets a swipe leave the active attempt behind.
Delivered(i) == attempt[i].completed

-----------------------------------------------------------------------------
(* What the proxy does with a replay *)

\* Claim attempt i and stream it, or answer with a conflict.
Deliver(c, A, act, i) ==
    IF Claimable(A, act, i)
    THEN /\ attempt' = Claimed(A, i)
         /\ conn' = [conn EXCEPT ![c] = [stage |-> "stream", at |-> i, story |-> A[i].story]]
    ELSE /\ attempt' = A
         /\ conn' = [conn EXCEPT ![c] = NoWork]

\* Pipeline._semantic_route_replay: a fallback nobody was shown goes to the selector; when no
\* selection can be prepared it becomes final, or what is active by then is replayed.
Route(c, A, act, i) ==
    \/ /\ A[i].status \in {"accepted", "fallback_final"}
       /\ Deliver(c, A, act, i)
    \/ /\ A[i].status = "fallback_ready" /\ i = act /\ A[i].claim = None
       /\ attempt' = A
       /\ conn' = [conn EXCEPT ![c] = [stage |-> "select", at |-> i, story |-> None]]
    \/ /\ A[i].status = "fallback_ready"
       /\ Deliver(c, Promoted(A, act, i, Fallback), act, act)

Idle(c) == conn[c] = NoWork

-----------------------------------------------------------------------------
(* The Player's request *)

Init ==
    /\ state = "absent" /\ attempt = [i \in Attempt |-> NoRow] /\ active = 0
    /\ anchor = 0 /\ root = 0 /\ swipes = 0 /\ text = None /\ advanced = FALSE
    /\ applied = 0 /\ crashes = 0
    /\ conn = [c \in Connections |-> NoWork] /\ seen = NothingSeen /\ told = {}

\* Mutant: a transport duplicate settles a turn that is settled already.
AwaitsSettlementAgain(b) == state = "absent" \/ seen.normal[b] = "open"

\* The request finds the turn without a lifecycle (only a duplicate still leads to a turn that
\* was recorded and not reserved), or finds its own reservation over an unchanged ledger.
AwaitsSettlement(b) ==
    \/ state = "absent"
    \/ state = "recorded" /\ seen.normal[b] = "open"
    \/ state = "reserved" /\ attempt[0].body = b /\ anchor = root

\* reserve and commit_mutation_with_fallback_factory: mechanics and fallback commit together.
Settle(c, b) ==
    /\ Idle(c) /\ AwaitsSettlement(b) /\ ~ advanced /\ root < MaxRoot
    /\ state' = "committed" /\ active' = 0 /\ applied' = applied + 1
    /\ root' = root + 1 /\ anchor' = root + 1
    /\ Route(c, [attempt EXCEPT ![0] = FallbackRow(b, -1)], 0, 0)
    /\ seen' = [seen EXCEPT !.normal[b] = "open"]
    /\ UNCHANGED <<swipes, text, advanced, told, crashes>>

\* Something fails after the turn was recorded, or after it was reserved.
SettleFails(b) ==
    /\ \/ state = "absent" /\ state' \in {"recorded", "reserved"}
       \/ state = "recorded" /\ seen.normal[b] = "open" /\ state' = "reserved"
    /\ attempt' = IF state' = "reserved" THEN [attempt EXCEPT ![0] = ReservedRow(b, -1)]
                  ELSE attempt
    /\ anchor' = root
    /\ seen' = [seen EXCEPT !.normal[b] = "open"]
    /\ UNCHANGED <<active, root, swipes, text, advanced, applied, conn, told, crashes>>

\* The same transcript again: the frontend did not keep the reply.
LostReply(c, b) ==
    /\ Idle(c) /\ state = "committed"
    /\ ~ advanced \/ seen.normal[b] = "lost"
    /\ Route(c, attempt, active, active)
    /\ seen' = [seen EXCEPT !.normal[b] = "lost"]
    /\ UNCHANGED <<ledger, active, swipes, text, advanced, told, crashes>>

\* The same bytes again within the window: the request that opened the turn, once more.
Duplicate(c, b) ==
    /\ Idle(c) /\ state = "committed" /\ seen.normal[b] = "open" /\ attempt[0].body = b
    /\ Route(c, attempt, active, 0)
    /\ UNCHANGED <<ledger, active, swipes, text, advanced, seen, told, crashes>>

-----------------------------------------------------------------------------
(* Swipes *)

\* A swipe is resolved at the current count, or as in its window.
Resolved(b, n) ==
    /\ state = "committed"
    /\ (n = swipes /\ ~ advanced) \/ (n = seen.swipe[b] /\ n >= 0)
SwipeSeen(b, n) == seen' = [seen EXCEPT !.swipe[b] = n]

Prior(b, n, p) == p > 0 /\ attempt[p].status # "none" /\ attempt[p].body = b /\ attempt[p].count = n

\* The attempt a swipe opens or takes up: its own earlier reservation, or the next one when
\* none is in flight.
Opens(b, n, p) ==
    \/ Prior(b, n, p) /\ attempt[p].status = "reserved"
    \/ /\ p > 0 /\ attempt[p].status = "none" /\ attempt[p - 1].status # "none"
       /\ \A i \in Attempt : attempt[i].status # "reserved" /\ ~ Prior(b, n, i)

\* The current narration never reached the Player completely: it is recovered.
SwipeRecovers(c, b, n) ==
    /\ Idle(c) /\ Resolved(b, n) /\ ~ Delivered(active)
    /\ Deliver(c, attempt, active, active)
    /\ SwipeSeen(b, n)
    /\ UNCHANGED <<ledger, active, swipes, text, advanced, told, crashes>>

\* The same swipe request again: its own attempt, which may be stale by now.
SwipeReplays(c, b, n, p) ==
    /\ Idle(c) /\ Resolved(b, n) /\ Delivered(active)
    /\ Prior(b, n, p) /\ attempt[p].status \in Provable
    /\ Deliver(c, attempt, active, p)
    /\ SwipeSeen(b, n)
    /\ UNCHANGED <<ledger, active, swipes, text, advanced, told, crashes>>

\* Mutant: the swipe is not counted.
CountedNot(n) == n

\* Mutant: the swipe is counted twice.
CountedTwice(n) == n + 2

Counted(n) == n + 1

\* reserve_swipe, then commit_mutation_with_fallback with apply_deferred_swipe_db: over an
\* unchanged ledger, at the head, at the count of its resolution.  The old reply is retracted.
SwipeSettles(c, b, n, p) ==
    /\ Idle(c) /\ Resolved(b, n) /\ Delivered(active) /\ Opens(b, n, p)
    /\ ~ advanced /\ n = swipes /\ anchor = root
    /\ active' = p /\ swipes' = Counted(n) /\ text' = None
    /\ Route(c, [attempt EXCEPT ![p] = FallbackRow(b, n)], p, p)
    /\ SwipeSeen(b, n)
    /\ UNCHANGED <<ledger, advanced, told, crashes>>

\* Its transaction fails (always so when the ledger moved); the reservation stays.
SwipeFails(b, n, p) ==
    /\ Resolved(b, n) /\ Delivered(active) /\ Opens(b, n, p) /\ n < MaxSwipes
    /\ attempt' = [attempt EXCEPT ![p] = ReservedRow(b, n)]
    /\ SwipeSeen(b, n)
    /\ UNCHANGED <<ledger, active, swipes, text, advanced, conn, told, crashes>>

-----------------------------------------------------------------------------
(* After the awaits *)

\* The selector answered with a provable narration, or not at all: complete_semantic_selection.
\* Whatever cannot be promoted gives way to what is active now.
FinishSelection(c, s) ==
    /\ conn[c].stage = "select"
    /\ Deliver(c, Promoted(attempt, active, conn[c].at, s), active, active)
    /\ UNCHANGED <<ledger, active, swipes, text, advanced, seen, told, crashes>>

\* The promotion commits and the claim does not.
SelectionUnclaimed(c, s) ==
    /\ conn[c].stage = "select"
    /\ attempt' = Promoted(attempt, active, conn[c].at, s)
    /\ conn' = [conn EXCEPT ![c] = NoWork]
    /\ UNCHANGED <<ledger, active, swipes, text, advanced, seen, told, crashes>>

\* Mutant: whether the attempt is still active is not asked.
ClaimHoldsAnyway(i, s) == attempt[i].claim = s

\* verify_claimed_delivery, and the same check in complete_delivery.
ClaimHolds(i, s) == active = i /\ attempt[i].claim = s

\* The client took the payload: the reply is kept, then the delivery is sealed; either may fail.
StreamEnds(c, kept, sealed) ==
    LET i == conn[c].at
        s == conn[c].story
        keep == kept /\ ClaimHolds(i, s) /\ <<i, s>> \notin told
    IN
    /\ conn[c].stage = "stream"
    /\ text' = IF keep THEN <<i, s>> ELSE text
    /\ told' = IF keep THEN told \cup {<<i, s>>} ELSE told
    /\ attempt' = IF sealed /\ ClaimHolds(i, s) THEN [attempt EXCEPT ![i].completed = TRUE]
                  ELSE attempt
    /\ conn' = [conn EXCEPT ![c] = NoWork]
    /\ UNCHANGED <<ledger, active, swipes, advanced, seen, crashes>>

\* The client goes away while the request waits.
Disconnect(c) ==
    /\ ~ Idle(c)
    /\ conn' = [conn EXCEPT ![c] = NoWork]
    /\ UNCHANGED <<ledger, attempt, active, swipes, text, advanced, seen, told, crashes>>

-----------------------------------------------------------------------------
(* The surroundings *)

\* A console edit or creator save changes the branch's state.
UserWrite ==
    /\ root < MaxRoot
    /\ root' = root + 1
    /\ UNCHANGED <<state, attempt, active, anchor, swipes, text, advanced, applied, memory, crashes>>

\* The next Player turn is recorded; a reserved head refuses every other transcript.
NextTurn ==
    /\ state \in {"recorded", "committed"} /\ ~ advanced
    /\ advanced' = TRUE
    /\ UNCHANGED <<ledger, attempt, active, swipes, text, memory, crashes>>

Crash ==
    /\ crashes < MaxCrashes
    /\ crashes' = crashes + 1
    /\ conn' = [c \in Connections |-> NoWork] /\ seen' = NothingSeen /\ told' = {}
    /\ UNCHANGED <<ledger, attempt, active, swipes, text, advanced>>

Serve(c) ==
    \/ \E b \in Bodies :
          \/ Settle(c, b)
          \/ LostReply(c, b)
          \/ Duplicate(c, b)
          \/ \E n \in Attempt :
                \/ SwipeRecovers(c, b, n)
                \/ \E p \in Attempt : SwipeReplays(c, b, n, p) \/ SwipeSettles(c, b, n, p)
    \/ \E s \in Story : FinishSelection(c, s) \/ SelectionUnclaimed(c, s)
    \/ \E kept, sealed \in BOOLEAN : StreamEnds(c, kept, sealed)
    \/ Disconnect(c)

Next ==
    \/ \E c \in Connections : Serve(c)
    \/ \E b \in Bodies : SettleFails(b)
    \/ \E b \in Bodies, n, p \in Attempt : SwipeFails(b, n, p)
    \/ UserWrite
    \/ NextTurn
    \/ Crash

Spec == Init /\ [][Next]_vars

-----------------------------------------------------------------------------
(* Properties *)

TypeOK ==
    /\ state \in {"absent", "recorded", "reserved", "committed"}
    /\ attempt \in [Attempt -> Row] /\ active \in Attempt
    /\ anchor \in Nat /\ root \in Nat /\ swipes \in Attempt
    /\ text \in (Attempt \X Story) \cup {None} /\ advanced \in BOOLEAN
    /\ applied \in Nat /\ crashes \in 0..MaxCrashes
    /\ conn \in [Connections -> Work]
    /\ seen \in [normal : [Bodies -> {"no", "open", "lost"}],
                 swipe : [Bodies -> -1..MaxSwipes]]
    /\ told \subseteq Attempt \X Story

\* The ledger, the lifecycle and the turns row are three tables written apart: however the request
\* is repeated, resumed after a failure or swiped, the mechanics are applied once, the lifecycle is
\* committed exactly when they were, and then the swipe count is the number of its narration.
RowsAgree ==
    /\ applied = IF state = "committed" THEN 1 ELSE 0
    /\ state = "committed" => swipes = active

\* Bytes leave only under a durable claim, and all the streams of an attempt carry the same
\* narration: the one its claim names.
StreamsAreClaimed ==
    \A c \in Connections :
        conn[c].stage = "stream" => attempt[conn[c].at].claim = conn[c].story

\* What may have been shown is never replaced: not by the selector's late answer, not by a
\* retry, not after a crash.
ShownIsFinal ==
    [][\A i \in Attempt : attempt[i].claim # None =>
          /\ attempt'[i].claim = attempt[i].claim
          /\ attempt'[i].story = attempt[i].story]_vars

\* The reply kept for the turn is the current narration, as it was shown: a stream that ends
\* late cannot put back what a swipe has retired.
TextIsCurrent ==
    text # None => text[1] = active /\ attempt[active].claim = text[2]

\* Attempts are numbered without gaps, and one is opened only when the one before it has been
\* delivered to its end.
NarrationsFollowDelivery ==
    \A i \in Attempt : i > 0 /\ attempt[i].status # "none" =>
        attempt[i - 1].status \in Provable /\ attempt[i - 1].completed

Promise == INSTANCE DeliveryPromise WITH
    NoStory <- None,
    settled <- applied,
    nth <- active,
    story <- attempt[active].story,
    shown <- attempt[active].claim # None,
    done <- attempt[active].completed

\* The turn keeps the promise: settled once, one narration at a time, no replacement of what was
\* shown, no next narration before the end of the current one.
KeepsPromise == Promise!Spec
=============================================================================

------------------------- MODULE TurnLifecycleProofs -------------------------
(***************************************************************************)
(* The invariants of TurnLifecycle and that it implements DeliveryPromise, *)
(* for every number of connections, bodies, narrations and swipes; and     *)
(* that what is proved of it and of SessionResolution holds in their run.  *)
(***************************************************************************)
EXTENDS MCTurnLifecycle, ResolutionProofs

-----------------------------------------------------------------------------
(* The inductive invariant *)

\* What a narration is shown as is what it is, and only a provable one is shown.
RowSound(r) ==
    /\ r.status \in Provable => r.story \in Story
    /\ r.status \notin Provable => r.story = None /\ r.claim = None /\ r.completed = FALSE
    /\ r.claim # None => r.claim = r.story
    /\ r.completed => r.claim # None

Sound(A) ==
    /\ A \in [Attempt -> Row]
    /\ \A i \in Attempt : RowSound(A[i])

\* A committed lifecycle: provable up to the active attempt, delivered before it, at most one
\* reservation after it.
Placed(A, act) ==
    \A i \in Attempt :
        /\ i <= act => A[i].status \in Provable
        /\ i < act => A[i].completed
        /\ i = act + 1 => A[i].status \in {"none", "reserved"}
        /\ i = act + 1 /\ A[i].status = "reserved" => A[act].completed
        /\ i > act + 1 => A[i].status = "none"

\* Before: at most the reservation of the first attempt.
Unplaced(A) ==
    /\ A[0].status \in {"none", "reserved"}
    /\ \A i \in Attempt : i > 0 => A[i].status = "none"

Phase ==
    /\ state # "committed" =>
          /\ applied = 0 /\ active = 0 /\ swipes = 0 /\ text = None
          /\ Unplaced(attempt)
    /\ state = "committed" => applied = 1 /\ swipes = active /\ Placed(attempt, active)
    /\ state \in {"absent", "recorded"} => attempt[0].status = "none"

Streams(A, k) ==
    \A c \in Connections :
        k[c].stage = "stream" => k[c].story # None /\ A[k[c].at].claim = k[c].story

Inv == TypeOK /\ Sound(attempt) /\ Phase /\ Streams(attempt, conn) /\ TextIsCurrent

-----------------------------------------------------------------------------
(* Changes of the attempts *)

\* B keeps of A all that was shown, and neither opens nor finishes an attempt.
Follows(A, B) ==
    \A i \in Attempt :
        /\ A[i].status \in Provable <=> B[i].status \in Provable
        /\ A[i].status \notin Provable => B[i] = A[i]
        /\ B[i].completed = A[i].completed
        /\ A[i].claim # None => B[i].claim = A[i].claim /\ B[i].story = A[i].story

\* Deliver and Route with their results as parameters.
Delivers(c, A, act, i, B, k, l) ==
    IF Claimable(A, act, i)
    THEN /\ B = Claimed(A, i)
         /\ l = [k EXCEPT ![c] = [stage |-> "stream", at |-> i, story |-> A[i].story]]
    ELSE /\ B = A
         /\ l = [k EXCEPT ![c] = NoWork]

Routes(c, A, act, i, B, k, l) ==
    \/ Delivers(c, A, act, i, B, k, l)
    \/ B = A /\ l = [k EXCEPT ![c] = [stage |-> "select", at |-> i, story |-> None]]
    \/ Delivers(c, Promoted(A, act, i, Fallback), act, act, B, k, l)

\* What a step that serves a request leaves behind.
Served(A, B, l) ==
    Sound(B) /\ Follows(A, B) /\ l \in [Connections -> Work] /\ Streams(B, l)

LEMMA FollowsSelf == ASSUME NEW A PROVE Follows(A, A)
  BY DEF Follows

LEMMA FollowsOn ==
  ASSUME NEW A, NEW B, NEW C, Follows(A, B), Follows(B, C)
  PROVE  Follows(A, C)
  BY DEF Follows

LEMMA PlacedFollows ==
  ASSUME NEW A, NEW B, NEW act \in Attempt, Placed(A, act), Follows(A, B)
  PROVE  Placed(B, act)
  BY LifecycleAssumption DEF Placed, Follows, Attempt, Provable

LEMMA StreamsFollow ==
  ASSUME NEW A, NEW B, NEW k \in [Connections -> Work], Streams(A, k), Follows(A, B)
  PROVE  Streams(B, k)
<1> SUFFICES ASSUME NEW c \in Connections, k[c].stage = "stream"
             PROVE  k[c].story # None /\ B[k[c].at].claim = k[c].story
    BY DEF Streams
<1>1. k[c] \in Work /\ k[c].at \in Attempt
    BY DEF Work
<1> QED BY <1>1 DEF Streams, Follows

\* A claim is a claim of the narration.
LEMMA ClaimedFollows ==
  ASSUME NEW A, Sound(A), NEW act \in Attempt, NEW i \in Attempt, Claimable(A, act, i)
  PROVE  /\ Sound(Claimed(A, i)) /\ Follows(A, Claimed(A, i))
         /\ A[i].story \in Story /\ Claimed(A, i)[i].claim = A[i].story
<1> DEFINE B == Claimed(A, i)
<1>1. A[i] \in Row /\ RowSound(A[i]) /\ A[i].status \in Provable /\ A[i].story \in Story
    BY DEF Sound, Claimable, RowSound
<1>2. B \in [Attempt -> Row] /\ \A j \in Attempt : j # i => B[j] = A[j]
    BY <1>1 DEF Sound, Claimed, Row
<1>3. /\ B[i].status = A[i].status /\ B[i].story = A[i].story
      /\ B[i].completed = A[i].completed /\ B[i].claim = A[i].story
    BY <1>1 DEF Sound, Claimed, Row
<1>4. A[i].story # None
    BY <1>1, LifecycleAssumption DEF Story
<1>5. Sound(B)
    BY <1>1, <1>2, <1>3, <1>4 DEF Sound, RowSound
<1>6. Follows(A, B)
    BY <1>1, <1>2, <1>3, <1>4 DEF Follows, Claimable
<1> QED BY <1>1, <1>3, <1>5, <1>6

\* A promotion replaces only what nobody was shown.
LEMMA PromotedFollows ==
  ASSUME NEW A, Sound(A), NEW act \in Attempt, NEW i \in Attempt, NEW s \in Story
  PROVE  Sound(Promoted(A, act, i, s)) /\ Follows(A, Promoted(A, act, i, s))
<1> DEFINE B == Promoted(A, act, i, s)
<1>1. CASE ~ Promotable(A, act, i, s)
    BY <1>1, FollowsSelf DEF Promoted
<1>2. CASE Promotable(A, act, i, s)
    <2>1. A[i] \in Row /\ RowSound(A[i]) /\ A[i].status = "fallback_ready"
        BY <1>2 DEF Sound, Promotable
    <2>2. B \in [Attempt -> Row] /\ \A j \in Attempt : j # i => B[j] = A[j]
        BY <1>2, <2>1 DEF Sound, Promoted, Row, Status
    <2>3. /\ B[i].status \in {"accepted", "fallback_final"} /\ B[i].story = s
          /\ B[i].completed = A[i].completed /\ B[i].claim = A[i].claim
        BY <1>2, <2>1 DEF Sound, Promoted, Row
    <2>4. A[i].claim # None => A[i].claim = s /\ A[i].story = s
        BY <1>2, <2>1 DEF Promotable, RowSound
    <2>5. A[i].status \in Provable /\ B[i].status \in Provable
        BY <2>1, <2>3 DEF Provable
    <2>6. Sound(B)
        BY <2>1, <2>2, <2>3, <2>4, <2>5 DEF Sound, RowSound
    <2>7. Follows(A, B)
        BY <2>2, <2>3, <2>4, <2>5 DEF Follows
    <2> QED BY <2>6, <2>7
<1> QED BY <1>1, <1>2

LEMMA DeliversServed ==
  ASSUME NEW c \in Connections, NEW A, Sound(A), NEW act \in Attempt, NEW i \in Attempt,
         NEW k \in [Connections -> Work], Streams(A, k), NEW B, NEW l,
         Delivers(c, A, act, i, B, k, l)
  PROVE  Served(A, B, l)
<1>1. CASE Claimable(A, act, i)
    <2> DEFINE w == [stage |-> "stream", at |-> i, story |-> A[i].story]
    <2>1. B = Claimed(A, i) /\ l = [k EXCEPT ![c] = w]
        BY <1>1 DEF Delivers
    <2>2. Sound(B) /\ Follows(A, B) /\ A[i].story \in Story /\ B[i].claim = A[i].story
        BY <1>1, <2>1, ClaimedFollows
    <2>3. w \in Work
        BY <2>2 DEF Work
    <2>4. l \in [Connections -> Work]
        BY <2>1, <2>3
    <2>5. Streams(B, k)
        BY <2>2, StreamsFollow
    <2>6. A[i].story # None
        BY <2>2, LifecycleAssumption DEF Story
    <2>7. Streams(B, l)
        BY <2>1, <2>2, <2>5, <2>6 DEF Streams
    <2> QED BY <2>2, <2>4, <2>7 DEF Served
<1>2. CASE ~ Claimable(A, act, i)
    <2>1. B = A /\ l = [k EXCEPT ![c] = NoWork]
        BY <1>2 DEF Delivers
    <2>2. NoWork \in Work /\ NoWork.stage # "stream"
        BY LifecycleAssumption DEF NoWork, Work, Attempt
    <2>3. l \in [Connections -> Work] /\ Streams(B, l)
        BY <2>1, <2>2 DEF Streams
    <2>4. Follows(A, B)
        BY <2>1, FollowsSelf
    <2> QED BY <2>1, <2>3, <2>4 DEF Served
<1> QED BY <1>1, <1>2

LEMMA FallbackIsStory == Fallback \in Story
  BY DEF Story

LEMMA ServedOn ==
  ASSUME NEW A, NEW B, NEW C, NEW l, Follows(A, B), Served(B, C, l)
  PROVE  Served(A, C, l)
  BY FollowsOn DEF Served

LEMMA RoutesServed ==
  ASSUME NEW c \in Connections, NEW A, Sound(A), NEW act \in Attempt, NEW i \in Attempt,
         NEW k \in [Connections -> Work], Streams(A, k), NEW B, NEW l,
         Routes(c, A, act, i, B, k, l)
  PROVE  Served(A, B, l)
<1>1. CASE Delivers(c, A, act, i, B, k, l)
    BY <1>1, DeliversServed
<1>2. CASE B = A /\ l = [k EXCEPT ![c] = [stage |-> "select", at |-> i, story |-> None]]
    <2>1. l \in [Connections -> Work] /\ Streams(B, l)
        BY <1>2 DEF Streams, Work
    <2> QED BY <1>2, <2>1, FollowsSelf DEF Served
<1>3. CASE Delivers(c, Promoted(A, act, i, Fallback), act, act, B, k, l)
    <2> DEFINE P == Promoted(A, act, i, Fallback)
    <2>1. Sound(P) /\ Follows(A, P)
        BY FallbackIsStory, PromotedFollows
    <2>2. Streams(P, k)
        BY <2>1, StreamsFollow
    <2> HIDE DEF P
    <2>3. Delivers(c, P, act, act, B, k, l)
        BY <1>3 DEF P
    <2>4. Served(P, B, l)
        BY <2>1, <2>2, <2>3, DeliversServed
    <2> QED BY <2>1, <2>4, ServedOn
<1> QED BY <1>1, <1>2, <1>3 DEF Routes

-----------------------------------------------------------------------------
(* Steps that open and finish no attempt *)

\* ShownIsFinal and KeepsPromise of a single step.
ShownStep ==
    \A i \in Attempt : attempt[i].claim # None =>
        /\ attempt'[i].claim = attempt[i].claim
        /\ attempt'[i].story = attempt[i].story

PromiseStep == [Promise!Next]_(Promise!vars)

\* The parts of TypeOK that the argument does not speak of.
Surroundings ==
    /\ anchor \in Nat /\ root \in Nat /\ advanced \in BOOLEAN
    /\ crashes \in 0..MaxCrashes
    /\ seen \in [normal : [Bodies -> {"no", "open", "lost"}],
                 swipe : [Bodies -> -1..MaxSwipes]]
    /\ told \subseteq Attempt \X Story

Lifecycle == <<state, active, swipes, text, applied>>

LEMMA ZeroIsAttempt == 0 \in Attempt
  BY LifecycleAssumption DEF Attempt

\* Before the lifecycle is committed nothing is shown.
LEMMA NothingShown ==
  ASSUME Inv, state # "committed"
  PROVE  /\ Unplaced(attempt) /\ active = 0
         /\ \A i \in Attempt : /\ attempt[i].status \notin Provable
                               /\ attempt[i].story = None /\ attempt[i].claim = None
                               /\ attempt[i].completed = FALSE
         /\ \A c \in Connections : conn[c].stage # "stream"
<1>1. Unplaced(attempt) /\ active = 0
    BY DEF Inv, Phase
<1>2. ASSUME NEW i \in Attempt PROVE attempt[i].status \in {"none", "reserved"}
    BY <1>1, LifecycleAssumption DEF Unplaced, Attempt
<1>3. ASSUME NEW i \in Attempt
      PROVE  /\ attempt[i].status \notin Provable
             /\ attempt[i].story = None /\ attempt[i].claim = None
             /\ attempt[i].completed = FALSE
    BY <1>2 DEF Inv, Sound, RowSound, Provable
<1>4. ASSUME NEW c \in Connections PROVE conn[c].stage # "stream"
    BY <1>3 DEF Inv, TypeOK, Streams, Work
<1> QED BY <1>1, <1>3, <1>4

LEMMA ServedStep ==
  ASSUME Inv, Served(attempt, attempt', conn'), UNCHANGED Lifecycle, Surroundings'
  PROVE  Inv' /\ ShownStep /\ PromiseStep
<1>1. /\ Sound(attempt') /\ Follows(attempt, attempt')
      /\ conn' \in [Connections -> Work] /\ Streams(attempt', conn')
    BY DEF Served
<1>2. /\ state' = state /\ active' = active /\ swipes' = swipes /\ text' = text
      /\ applied' = applied
    BY DEF Lifecycle
<1>3. active \in Attempt
    BY DEF Inv, TypeOK
<1>4. TypeOK'
    BY <1>1, <1>2 DEF Inv, TypeOK, Surroundings, Sound
<1>5. TextIsCurrent'
    <2> SUFFICES ASSUME text # None
                 PROVE  text[1] = active /\ attempt'[active].claim = text[2]
        BY <1>2 DEF TextIsCurrent
    <2>1. text[2] # None
        BY LifecycleAssumption DEF Inv, TypeOK, Story
    <2> QED BY <1>1, <1>3, <2>1 DEF Inv, TextIsCurrent, Follows
<1>6. Phase'
    <2>1. CASE state # "committed"
        <3>1. \A i \in Attempt : attempt'[i] = attempt[i]
            BY <1>1, <2>1, NothingShown DEF Follows
        <3> QED BY <1>2, <2>1, <3>1, ZeroIsAttempt DEF Inv, Phase, Unplaced
    <2>2. CASE state = "committed"
        <3>1. Placed(attempt', active)
            BY <1>1, <1>3, <2>2, PlacedFollows DEF Inv, Phase
        <3> QED BY <1>2, <2>2, <3>1 DEF Inv, Phase
    <2> QED BY <2>1, <2>2
<1>7. ShownStep
    BY <1>1 DEF ShownStep, Follows
<1>8. PromiseStep
    <2>1. CASE attempt[active].status \notin Provable \/ attempt[active].claim # None
        <3>1. /\ attempt'[active].story = attempt[active].story
              /\ attempt'[active].claim = attempt[active].claim
              /\ attempt'[active].completed = attempt[active].completed
            BY <1>1, <1>3, <2>1 DEF Follows
        <3> QED BY <1>2, <3>1 DEF PromiseStep, Promise!vars
    <2>2. CASE attempt[active].status \in Provable /\ attempt[active].claim = None
        <3>1. applied = 1
            BY <1>3, <2>2, NothingShown DEF Inv, Phase
        <3>2. /\ attempt'[active].status \in Provable
              /\ attempt'[active].completed = attempt[active].completed
            BY <1>1, <1>3, <2>2 DEF Follows
        <3>3. attempt'[active].story \in Story
            BY <1>1, <1>3, <3>2 DEF Sound, RowSound
        <3>4. Promise!Choose
            BY <1>2, <2>2, <3>1, <3>2, <3>3 DEF Promise!Choose, Promise!Tell
        <3> QED BY <3>4 DEF PromiseStep, Promise!Next
    <2> QED BY <2>1, <2>2
<1> QED BY <1>1, <1>4, <1>5, <1>6, <1>7, <1>8 DEF Inv

\* Nothing but memory and surroundings changes.
LEMMA RestStep ==
  ASSUME Inv, attempt' = attempt, UNCHANGED Lifecycle, Surroundings',
         conn' \in [Connections -> Work],
         \A c \in Connections : conn'[c].stage = "stream" => conn'[c] = conn[c]
  PROVE  Inv' /\ ShownStep /\ PromiseStep
<1>1. Streams(attempt', conn')
    BY DEF Inv, Streams
<1>2. Served(attempt, attempt', conn')
    BY <1>1, FollowsSelf DEF Served, Inv
<1> QED BY <1>2, ServedStep

-----------------------------------------------------------------------------
(* The actions *)

LEMMA SurroundingsNow == ASSUME Inv PROVE Surroundings
  BY DEF Inv, TypeOK, Surroundings

Windows == [normal : [Bodies -> {"no", "open", "lost"}], swipe : [Bodies -> -1..MaxSwipes]]

LEMMA SeenNormal ==
  ASSUME NEW m \in Windows, NEW b \in Bodies, NEW v \in {"no", "open", "lost"}
  PROVE  [m EXCEPT !.normal[b] = v] \in Windows
  BY DEF Windows

LEMMA SeenSwipe ==
  ASSUME NEW m \in Windows, NEW b \in Bodies, NEW n \in Attempt
  PROVE  [m EXCEPT !.swipe[b] = n] \in Windows
<1>1. n \in -1..MaxSwipes
    BY LifecycleAssumption DEF Attempt
<1> QED BY <1>1 DEF Windows

\* A served request that starts from the attempts as they are.
LEMMA DeliverStep ==
  ASSUME Inv, NEW c \in Connections, NEW i \in Attempt, Deliver(c, attempt, active, i),
         UNCHANGED Lifecycle, Surroundings'
  PROVE  Inv' /\ ShownStep /\ PromiseStep
<1>1. Delivers(c, attempt, active, i, attempt', conn, conn')
    BY DEF Deliver, Delivers
<1>2. /\ Sound(attempt) /\ Streams(attempt, conn) /\ active \in Attempt
      /\ conn \in [Connections -> Work]
    BY DEF Inv, TypeOK
<1>3. Served(attempt, attempt', conn')
    BY <1>1, <1>2, DeliversServed
<1> QED BY <1>3, ServedStep

LEMMA RouteStep ==
  ASSUME Inv, NEW c \in Connections, NEW i \in Attempt, Route(c, attempt, active, i),
         UNCHANGED Lifecycle, Surroundings'
  PROVE  Inv' /\ ShownStep /\ PromiseStep
<1>1. Routes(c, attempt, active, i, attempt', conn, conn')
    BY DEF Route, Routes, Deliver, Delivers
<1>2. /\ Sound(attempt) /\ Streams(attempt, conn) /\ active \in Attempt
      /\ conn \in [Connections -> Work]
    BY DEF Inv, TypeOK
<1>3. Served(attempt, attempt', conn')
    BY <1>1, <1>2, RoutesServed
<1> QED BY <1>3, ServedStep

LEMMA NoCount == -1 \in -1..MaxSwipes
  BY LifecycleAssumption

LEMMA FallbackRowSound ==
  ASSUME NEW b \in Bodies, NEW n \in -1..MaxSwipes
  PROVE  /\ FallbackRow(b, n) \in Row /\ RowSound(FallbackRow(b, n))
         /\ FallbackRow(b, n).status \in Provable
         /\ FallbackRow(b, n).completed = FALSE
  BY LifecycleAssumption DEF FallbackRow, Row, RowSound, Status, Story, Provable

LEMMA ReservedRowSound ==
  ASSUME NEW b \in Bodies, NEW n \in -1..MaxSwipes
  PROVE  /\ ReservedRow(b, n) \in Row /\ RowSound(ReservedRow(b, n))
         /\ ReservedRow(b, n).status = "reserved" /\ ReservedRow(b, n).story = None
         /\ ReservedRow(b, n).claim = None /\ ReservedRow(b, n).completed = FALSE
  BY LifecycleAssumption DEF ReservedRow, Row, RowSound, Status, Story, Provable

\* A new row where nothing was shown.
With(A, i, r) == [A EXCEPT ![i] = r]

LEMMA WithSound ==
  ASSUME NEW A, Sound(A), NEW i \in Attempt, NEW r \in Row, RowSound(r)
  PROVE  /\ Sound(With(A, i, r)) /\ With(A, i, r)[i] = r
         /\ \A j \in Attempt : j # i => With(A, i, r)[j] = A[j]
  BY DEF With, Sound

LEMMA WithStreams ==
  ASSUME NEW A, NEW i \in Attempt, NEW r, NEW k \in [Connections -> Work],
         A \in [Attempt -> Row], A[i].claim = None, Streams(A, k)
  PROVE  Streams(With(A, i, r), k)
<1> SUFFICES ASSUME NEW c \in Connections, k[c].stage = "stream"
             PROVE  k[c].story # None /\ With(A, i, r)[k[c].at].claim = k[c].story
    BY DEF Streams
<1>1. k[c].at \in Attempt
    BY DEF Work
<1>2. k[c].story # None /\ A[k[c].at].claim = k[c].story
    BY DEF Streams
<1>3. k[c].at # i
    BY <1>2
<1> QED BY <1>1, <1>2, <1>3 DEF With

LEMMA SettleStep ==
  ASSUME Inv, NEW c \in Connections, NEW b \in Bodies, Settle(c, b)
  PROVE  Inv' /\ ShownStep /\ PromiseStep
<1> DEFINE r == FallbackRow(b, -1)
           A == With(attempt, 0, r)
<1>1. state # "committed"
    BY DEF Settle, AwaitsSettlement
<1>2. /\ Unplaced(attempt) /\ active = 0
      /\ \A i \in Attempt : attempt[i].claim = None /\ attempt[i].completed = FALSE
    BY <1>1, NothingShown
<1>3. /\ applied = 0 /\ swipes = 0 /\ text = None
    BY <1>1 DEF Inv, Phase
<1>4. r \in Row /\ RowSound(r) /\ r.status \in Provable /\ r.completed = FALSE
    BY NoCount, FallbackRowSound
<1> HIDE DEF r
<1>5. /\ Sound(A) /\ A[0] = r /\ \A j \in Attempt : j # 0 => A[j] = attempt[j]
    BY <1>4, ZeroIsAttempt, WithSound DEF Inv
<1>6. Streams(A, conn)
    BY <1>2, ZeroIsAttempt, WithStreams DEF Inv, TypeOK
<1>7. Placed(A, 0)
    BY <1>2, <1>4, <1>5, LifecycleAssumption DEF Placed, Unplaced, Attempt
<1>8. Route(c, A, 0, 0)
    BY DEF Settle, With, r
<1> HIDE DEF A
<1>9. Routes(c, A, 0, 0, attempt', conn, conn')
    BY <1>8 DEF Route, Routes, Deliver, Delivers
<1>10. Served(A, attempt', conn')
    BY <1>5, <1>6, <1>9, ZeroIsAttempt, RoutesServed DEF Inv, TypeOK
<1>11. /\ Sound(attempt') /\ Follows(A, attempt')
       /\ conn' \in [Connections -> Work] /\ Streams(attempt', conn')
    BY <1>10 DEF Served
<1>12. Placed(attempt', 0)
    BY <1>7, <1>11, ZeroIsAttempt, PlacedFollows
<1>13. /\ state' = "committed" /\ active' = 0 /\ applied' = 1 /\ swipes' = 0 /\ text' = None
    BY <1>3 DEF Settle
<1>14. seen' \in Windows
    BY SeenNormal DEF Settle, Inv, TypeOK, Windows
<1>15. TypeOK'
    BY <1>11, <1>13, <1>14, ZeroIsAttempt DEF Settle, Inv, TypeOK, Sound, Windows
<1>16. Phase' /\ TextIsCurrent'
    BY <1>12, <1>13 DEF Phase, TextIsCurrent
<1>17. ShownStep
    BY <1>2 DEF ShownStep
<1>18. PromiseStep
    <2>1. attempt'[0].story \in Story /\ attempt'[0].completed = FALSE
        <3>1. attempt'[0].status \in Provable /\ attempt'[0].completed = FALSE
            BY <1>4, <1>5, <1>11, ZeroIsAttempt DEF Follows
        <3> QED BY <1>11, <3>1, ZeroIsAttempt DEF Sound, RowSound
    <2>2. Promise!Settle
        BY <1>2, <1>3, <1>13, <2>1, ZeroIsAttempt DEF Promise!Settle, Promise!Tell
    <2> QED BY <2>2 DEF PromiseStep, Promise!Next
<1> QED BY <1>11, <1>15, <1>16, <1>17, <1>18 DEF Inv

LEMMA SettleFailsStep ==
  ASSUME Inv, NEW b \in Bodies, SettleFails(b)
  PROVE  Inv' /\ ShownStep /\ PromiseStep
<1>1. state \in {"absent", "recorded"} /\ state' \in {"recorded", "reserved"}
    BY DEF SettleFails
<1>2. /\ Unplaced(attempt) /\ active = 0
      /\ \A i \in Attempt : /\ attempt[i].story = None /\ attempt[i].claim = None
                            /\ attempt[i].completed = FALSE
    BY <1>1, NothingShown
<1>3. attempt[0].status = "none" /\ applied = 0 /\ swipes = 0 /\ text = None
    BY <1>1 DEF Inv, Phase
<1>4. /\ active' = active /\ swipes' = swipes /\ text' = text /\ applied' = applied
      /\ conn' = conn
    BY DEF SettleFails
<1>5. /\ Sound(attempt') /\ Streams(attempt', conn)
      /\ Unplaced(attempt') /\ (state' = "recorded" => attempt'[0].status = "none")
      /\ attempt'[0].story = None /\ attempt'[0].claim = None
      /\ attempt'[0].completed = FALSE
    <2>1. CASE state' = "recorded"
        <3>1. attempt' = attempt
            BY <2>1 DEF SettleFails
        <3> QED BY <1>2, <1>3, <3>1, ZeroIsAttempt DEF Inv
    <2>2. CASE state' = "reserved"
        <3> DEFINE r == ReservedRow(b, -1)
        <3>1. attempt' = With(attempt, 0, r)
            BY <2>2 DEF SettleFails, With
        <3>2. /\ r \in Row /\ RowSound(r) /\ r.status = "reserved" /\ r.story = None
              /\ r.claim = None /\ r.completed = FALSE
            BY NoCount, ReservedRowSound
        <3> HIDE DEF r
        <3>3. /\ Sound(attempt') /\ attempt'[0] = r
              /\ \A j \in Attempt : j # 0 => attempt'[j] = attempt[j]
            BY <3>1, <3>2, ZeroIsAttempt, WithSound DEF Inv
        <3>4. Streams(attempt', conn)
            BY <1>2, <3>1, ZeroIsAttempt, WithStreams DEF Inv, TypeOK
        <3> QED BY <1>2, <2>2, <3>2, <3>3, <3>4 DEF Unplaced
    <2> QED BY <1>1, <2>1, <2>2
<1>6. seen' \in Windows
    BY SeenNormal DEF SettleFails, Inv, TypeOK, Windows
<1>7. TypeOK'
    BY <1>1, <1>4, <1>5, <1>6 DEF SettleFails, Inv, TypeOK, Sound, Windows
<1>8. Phase' /\ TextIsCurrent'
    BY <1>1, <1>2, <1>3, <1>4, <1>5 DEF Phase, TextIsCurrent
<1>9. ShownStep
    BY <1>2 DEF ShownStep
<1>10. PromiseStep
    BY <1>2, <1>4, <1>5, ZeroIsAttempt DEF PromiseStep, Promise!vars
<1> QED BY <1>4, <1>5, <1>7, <1>8, <1>9, <1>10 DEF Inv

\* A swipe opens the attempt after the active one.
LEMMA OpensNext ==
  ASSUME Inv, state = "committed", NEW b \in Bodies, NEW n \in Attempt, NEW p \in Attempt,
         Opens(b, n, p)
  PROVE  p = active + 1 /\ attempt[p].status \in {"none", "reserved"}
<1>1. Placed(attempt, active) /\ active \in Attempt
    BY DEF Inv, Phase, TypeOK
<1>2. CASE attempt[p].status = "reserved"
    BY <1>1, <1>2, LifecycleAssumption DEF Placed, Attempt, Provable
<1>3. CASE /\ p > 0 /\ attempt[p].status = "none" /\ attempt[p - 1].status # "none"
           /\ \A i \in Attempt : attempt[i].status # "reserved"
    <2>1. p - 1 \in Attempt
        BY <1>3, LifecycleAssumption DEF Attempt
    <2>2. ~ p <= active
        BY <1>1, <1>3 DEF Placed, Provable
    <2>3. ~ p - 1 > active + 1
        BY <1>1, <1>3, <2>1 DEF Placed
    <2>4. p - 1 # active + 1
        BY <1>1, <1>3, <2>1 DEF Placed
    <2> QED BY <1>1, <1>3, <2>1, <2>2, <2>3, <2>4, LifecycleAssumption DEF Attempt
<1> QED BY <1>2, <1>3 DEF Opens

\* The row of an attempt that is not open shows nothing.
LEMMA ClosedRow ==
  ASSUME Inv, NEW p \in Attempt, attempt[p].status \in {"none", "reserved"}
  PROVE  attempt[p].claim = None
  BY DEF Inv, Sound, RowSound, Provable

LEMMA SwipeSettlesStep ==
  ASSUME Inv, NEW c \in Connections, NEW b \in Bodies, NEW n \in Attempt, NEW p \in Attempt,
         SwipeSettles(c, b, n, p)
  PROVE  Inv' /\ ShownStep /\ PromiseStep
<1> DEFINE r == FallbackRow(b, n)
           A == With(attempt, p, r)
<1>1. /\ state = "committed" /\ Opens(b, n, p) /\ n = swipes
      /\ attempt[active].completed
    BY DEF SwipeSettles, Resolved, Delivered
<1>2. p = active + 1 /\ attempt[p].status \in {"none", "reserved"} /\ attempt[p].claim = None
    BY <1>1, OpensNext, ClosedRow
<1>3. /\ applied = 1 /\ swipes = active /\ Placed(attempt, active) /\ active \in Attempt
    BY <1>1 DEF Inv, Phase, TypeOK
<1>4. r \in Row /\ RowSound(r) /\ r.status \in Provable /\ r.completed = FALSE
    <2>1. n \in -1..MaxSwipes
        BY LifecycleAssumption DEF Attempt
    <2> QED BY <2>1, FallbackRowSound
<1> HIDE DEF r
<1>5. /\ Sound(A) /\ A[p] = r /\ \A j \in Attempt : j # p => A[j] = attempt[j]
    BY <1>4, WithSound DEF Inv
<1>6. Streams(A, conn)
    BY <1>2, WithStreams DEF Inv, TypeOK
<1>7. Placed(A, p)
    BY <1>1, <1>2, <1>3, <1>4, <1>5, LifecycleAssumption DEF Placed, Attempt
<1>8. Route(c, A, p, p)
    BY DEF SwipeSettles, With, r
<1> HIDE DEF A
<1>9. Routes(c, A, p, p, attempt', conn, conn')
    BY <1>8 DEF Route, Routes, Deliver, Delivers
<1>10. Served(A, attempt', conn')
    BY <1>5, <1>6, <1>9, RoutesServed DEF Inv, TypeOK
<1>11. /\ Sound(attempt') /\ Follows(A, attempt')
       /\ conn' \in [Connections -> Work] /\ Streams(attempt', conn')
    BY <1>10 DEF Served
<1>12. Placed(attempt', p)
    BY <1>7, <1>11, PlacedFollows
<1>13. /\ state' = "committed" /\ active' = p /\ applied' = 1 /\ swipes' = p /\ text' = None
    BY <1>1, <1>2, <1>3 DEF SwipeSettles, Counted, ledger
<1>14. seen' \in Windows
    BY SeenSwipe DEF SwipeSettles, SwipeSeen, Inv, TypeOK, Windows
<1>15. TypeOK'
    BY <1>11, <1>13, <1>14 DEF SwipeSettles, Inv, TypeOK, Sound, Windows, ledger
<1>16. Phase' /\ TextIsCurrent'
    BY <1>12, <1>13 DEF Phase, TextIsCurrent
<1>17. ShownStep
    BY <1>2, <1>5, <1>11 DEF ShownStep, Follows
<1>18. PromiseStep
    <2>1. attempt'[p].story \in Story /\ attempt'[p].completed = FALSE
        <3>1. attempt'[p].status \in Provable /\ attempt'[p].completed = FALSE
            BY <1>4, <1>5, <1>11 DEF Follows
        <3> QED BY <1>11, <3>1 DEF Sound, RowSound
    <2>2. Promise!Renew
        BY <1>1, <1>2, <1>3, <1>13, <2>1 DEF Promise!Renew, Promise!Tell
    <2> QED BY <2>2 DEF PromiseStep, Promise!Next
<1> QED BY <1>11, <1>15, <1>16, <1>17, <1>18 DEF Inv

LEMMA SwipeFailsStep ==
  ASSUME Inv, NEW b \in Bodies, NEW n \in Attempt, NEW p \in Attempt, SwipeFails(b, n, p)
  PROVE  Inv' /\ ShownStep /\ PromiseStep
<1> DEFINE r == ReservedRow(b, n)
<1>1. state = "committed" /\ Opens(b, n, p) /\ attempt[active].completed
    BY DEF SwipeFails, Resolved, Delivered
<1>2. p = active + 1 /\ attempt[p].status \in {"none", "reserved"} /\ attempt[p].claim = None
    BY <1>1, OpensNext, ClosedRow
<1>3. /\ applied = 1 /\ swipes = active /\ Placed(attempt, active) /\ active \in Attempt
    BY <1>1 DEF Inv, Phase, TypeOK
<1>4. attempt' = With(attempt, p, r)
    BY DEF SwipeFails, With
<1>5. r \in Row /\ RowSound(r) /\ r.status = "reserved"
    <2>1. n \in -1..MaxSwipes
        BY LifecycleAssumption DEF Attempt
    <2> QED BY <2>1, ReservedRowSound
<1> HIDE DEF r
<1>6. /\ Sound(attempt') /\ attempt'[p] = r
      /\ \A j \in Attempt : j # p => attempt'[j] = attempt[j]
    BY <1>4, <1>5, WithSound DEF Inv
<1>7. Streams(attempt', conn)
    BY <1>2, <1>4, WithStreams DEF Inv, TypeOK
<1>8. p # active
    BY <1>2, <1>3, LifecycleAssumption DEF Attempt
<1>9. Placed(attempt', active)
    BY <1>1, <1>2, <1>3, <1>5, <1>6, <1>8 DEF Placed
<1>10. /\ state' = state /\ active' = active /\ swipes' = swipes /\ text' = text
       /\ applied' = applied /\ conn' = conn
    BY DEF SwipeFails, ledger
<1>11. seen' \in Windows
    BY SeenSwipe DEF SwipeFails, SwipeSeen, Inv, TypeOK, Windows
<1>12. TypeOK'
    BY <1>6, <1>10, <1>11 DEF SwipeFails, Inv, TypeOK, Sound, Windows, ledger
<1>13. attempt'[active] = attempt[active]
    BY <1>3, <1>6, <1>8
<1>14. Phase' /\ TextIsCurrent'
    BY <1>1, <1>3, <1>9, <1>10, <1>13 DEF Phase, TextIsCurrent, Inv
<1>15. ShownStep
    BY <1>2, <1>6 DEF ShownStep
<1>16. PromiseStep
    BY <1>10, <1>13 DEF PromiseStep, Promise!vars
<1> QED BY <1>6, <1>7, <1>10, <1>12, <1>14, <1>15, <1>16 DEF Inv

LEMMA StreamEndsStep ==
  ASSUME Inv, NEW c \in Connections, NEW kept \in BOOLEAN, NEW sealed \in BOOLEAN,
         StreamEnds(c, kept, sealed)
  PROVE  Inv' /\ ShownStep /\ PromiseStep
<1> DEFINE i == conn[c].at
           s == conn[c].story
<1>1. conn[c].stage = "stream" /\ conn[c] \in Work /\ i \in Attempt
    BY DEF StreamEnds, Inv, TypeOK, Work
<1>2. s # None /\ attempt[i].claim = s /\ s \in Story
    BY <1>1 DEF Inv, Streams, Work
<1>3. attempt[i].status \in Provable
    BY <1>1, <1>2 DEF Inv, Sound, RowSound
<1>4. state = "committed"
    BY <1>1, NothingShown
<1>5. applied = 1 /\ swipes = active /\ Placed(attempt, active) /\ active \in Attempt
    BY <1>4 DEF Inv, Phase, TypeOK
<1>6. /\ state' = state /\ active' = active /\ swipes' = swipes /\ applied' = applied
      /\ conn' = [conn EXCEPT ![c] = NoWork]
    BY DEF StreamEnds, ledger
<1>7. \/ attempt' = attempt
      \/ i = active /\ attempt' = [attempt EXCEPT ![i].completed = TRUE]
    BY DEF StreamEnds, ClaimHolds
<1>8. text' = text \/ (i = active /\ text' = <<i, s>>)
    BY DEF StreamEnds, ClaimHolds
<1>9. told' = told \/ told' = told \cup {<<i, s>>}
    BY DEF StreamEnds
<1>10. /\ attempt' \in [Attempt -> Row]
       /\ \A j \in Attempt : /\ attempt'[j].status = attempt[j].status
                             /\ attempt'[j].story = attempt[j].story
                             /\ attempt'[j].claim = attempt[j].claim
                             /\ attempt'[j].completed = attempt[j].completed
                                \/ (attempt'[j].completed = TRUE /\ j = active /\ j = i)
    <2> HIDE DEF i, s
    <2>1. attempt \in [Attempt -> Row]
        BY DEF Inv, TypeOK
    <2>2. CASE attempt' = attempt
        BY <2>1, <2>2
    <2>3. CASE i = active /\ attempt' = [attempt EXCEPT ![i].completed = TRUE]
        <3>1. attempt'[i] = [attempt[i] EXCEPT !.completed = TRUE]
            BY <1>1, <2>1, <2>3
        <3>2. /\ attempt'[i] \in Row /\ attempt'[i].completed = TRUE
              /\ attempt'[i].status = attempt[i].status
              /\ attempt'[i].story = attempt[i].story
              /\ attempt'[i].claim = attempt[i].claim
            BY <1>1, <2>1, <3>1 DEF Row
        <3>3. \A j \in Attempt : j # i => attempt'[j] = attempt[j]
            BY <2>1, <2>3
        <3>4. attempt' \in [Attempt -> Row]
            BY <2>1, <2>3, <3>2, <3>3
        <3> QED BY <2>3, <3>2, <3>3, <3>4
    <2> QED BY <1>7, <2>2, <2>3
<1>11. Sound(attempt')
    <2> SUFFICES ASSUME NEW j \in Attempt PROVE RowSound(attempt'[j])
        BY <1>10 DEF Sound
    <2>1. RowSound(attempt[j])
        BY DEF Inv, Sound
    <2>2. j = i => attempt[j].status \in Provable /\ attempt[j].claim # None
        BY <1>2, <1>3
    <2> QED BY <1>10, <2>1, <2>2 DEF RowSound
<1>12. Placed(attempt', active)
    <2>1. \A j \in Attempt : attempt[j].completed => attempt'[j].completed
        BY <1>10
    <2> QED BY <1>5, <1>10, <2>1 DEF Placed
<1>13. conn' \in [Connections -> Work] /\ Streams(attempt', conn')
    <2>1. NoWork \in Work /\ NoWork.stage # "stream"
        BY ZeroIsAttempt DEF NoWork, Work
    <2>2. conn \in [Connections -> Work] /\ Streams(attempt, conn)
        BY DEF Inv, TypeOK
    <2>3. conn' \in [Connections -> Work]
        BY <1>6, <2>1, <2>2
    <2>4. \A d \in Connections : conn'[d].stage = "stream" =>
              conn'[d] = conn[d] /\ conn[d].at \in Attempt
        BY <1>6, <2>1, <2>2 DEF Work
    <2> QED BY <1>10, <2>2, <2>3, <2>4 DEF Streams
<1>14. TypeOK'
    <2>1. text' \in (Attempt \X Story) \cup {None}
        BY <1>1, <1>2, <1>8 DEF Inv, TypeOK
    <2>2. told' \subseteq Attempt \X Story
        BY <1>1, <1>2, <1>9 DEF Inv, TypeOK
    <2> QED BY <1>6, <1>10, <1>13, <2>1, <2>2 DEF StreamEnds, Inv, TypeOK, ledger
<1>15. TextIsCurrent'
    BY <1>2, <1>5, <1>6, <1>8, <1>10 DEF Inv, TextIsCurrent
<1>16. Phase'
    BY <1>4, <1>5, <1>6, <1>12 DEF Phase
<1>17. ShownStep
    BY <1>10 DEF ShownStep
<1>18. PromiseStep
    <2>1. CASE attempt'[active].completed = attempt[active].completed
        BY <1>5, <1>6, <1>10, <2>1 DEF PromiseStep, Promise!vars
    <2>2. CASE attempt'[active].completed # attempt[active].completed
        <3>1. attempt'[active].completed = TRUE /\ attempt[active].claim # None
            BY <1>2, <1>5, <1>10, <2>2
        <3>2. attempt[active].completed \in BOOLEAN
            BY <1>5 DEF Inv, TypeOK, Row
        <3>3. Promise!Finish
            BY <1>5, <1>6, <1>10, <2>2, <3>1, <3>2 DEF Promise!Finish
        <3> QED BY <3>3 DEF PromiseStep, Promise!Next
    <2> QED BY <2>1, <2>2
<1> QED BY <1>11, <1>13, <1>14, <1>15, <1>16, <1>17, <1>18 DEF Inv

-----------------------------------------------------------------------------
(* The specification *)

LEMMA InitInv ==
  ASSUME Init
  PROVE  Inv
<1>1. NoRow \in Row /\ RowSound(NoRow) /\ NoRow.status = "none"
    BY LifecycleAssumption DEF NoRow, Row, Status, RowSound, Provable
<1>2. Sound(attempt) /\ Unplaced(attempt)
    BY <1>1, ZeroIsAttempt DEF Init, Sound, Unplaced
<1>3. NoWork \in Work /\ NoWork.stage # "stream"
    BY ZeroIsAttempt DEF NoWork, Work
<1>4. conn \in [Connections -> Work] /\ Streams(attempt, conn)
    BY <1>3 DEF Init, Streams
<1>5. NothingSeen \in Windows
    BY LifecycleAssumption DEF NothingSeen, Windows
<1>6. TypeOK
    <2>1. state = "absent" /\ anchor = 0 /\ root = 0 /\ applied = 0 /\ advanced = FALSE
        BY DEF Init
    <2>2. active \in Attempt /\ swipes \in Attempt /\ text = None /\ told = {}
        BY ZeroIsAttempt DEF Init
    <2>3. crashes \in 0..MaxCrashes
        BY LifecycleAssumption DEF Init
    <2>4. seen \in Windows
        BY <1>5 DEF Init
    <2>5. attempt \in [Attempt -> Row]
        BY <1>2 DEF Sound
    <2> QED BY <1>4, <2>1, <2>2, <2>3, <2>4, <2>5 DEF TypeOK, Windows
<1>7. Phase /\ TextIsCurrent
    BY <1>1, <1>2, ZeroIsAttempt DEF Init, Phase, TextIsCurrent
<1> QED BY <1>2, <1>4, <1>6, <1>7 DEF Inv

LEMMA ServeStep ==
  ASSUME Inv, NEW c \in Connections, Serve(c)
  PROVE  Inv' /\ ShownStep /\ PromiseStep
<1>0. Surroundings /\ seen \in Windows /\ active \in Attempt /\ conn \in [Connections -> Work]
    BY SurroundingsNow DEF Surroundings, Windows, Inv, TypeOK
<1>1. ASSUME NEW b \in Bodies, Settle(c, b) PROVE Inv' /\ ShownStep /\ PromiseStep
    BY <1>1, SettleStep
<1>2. ASSUME NEW b \in Bodies, LostReply(c, b) PROVE Inv' /\ ShownStep /\ PromiseStep
    <2>1. seen' \in Windows
        BY <1>0, <1>2, SeenNormal DEF LostReply
    <2>2. UNCHANGED Lifecycle /\ Surroundings'
        BY <1>0, <1>2, <2>1 DEF LostReply, Lifecycle, ledger, Surroundings, Windows
    <2>3. Route(c, attempt, active, active)
        BY <1>2 DEF LostReply
    <2> QED BY <1>0, <2>2, <2>3, RouteStep
<1>3. ASSUME NEW b \in Bodies, Duplicate(c, b) PROVE Inv' /\ ShownStep /\ PromiseStep
    <2>1. UNCHANGED Lifecycle /\ Surroundings'
        BY <1>0, <1>3 DEF Duplicate, Lifecycle, ledger, Surroundings
    <2>2. Route(c, attempt, active, 0)
        BY <1>3 DEF Duplicate
    <2> QED BY <2>1, <2>2, ZeroIsAttempt, RouteStep
<1>4. ASSUME NEW b \in Bodies, NEW n \in Attempt, SwipeRecovers(c, b, n)
      PROVE  Inv' /\ ShownStep /\ PromiseStep
    <2>1. seen' \in Windows
        BY <1>0, <1>4, SeenSwipe DEF SwipeRecovers, SwipeSeen
    <2>2. UNCHANGED Lifecycle /\ Surroundings'
        BY <1>0, <1>4, <2>1 DEF SwipeRecovers, Lifecycle, ledger, Surroundings, Windows
    <2>3. Deliver(c, attempt, active, active)
        BY <1>4 DEF SwipeRecovers
    <2> QED BY <1>0, <2>2, <2>3, DeliverStep
<1>5. ASSUME NEW b \in Bodies, NEW n \in Attempt, NEW p \in Attempt, SwipeReplays(c, b, n, p)
      PROVE  Inv' /\ ShownStep /\ PromiseStep
    <2>1. seen' \in Windows
        BY <1>0, <1>5, SeenSwipe DEF SwipeReplays, SwipeSeen
    <2>2. UNCHANGED Lifecycle /\ Surroundings'
        BY <1>0, <1>5, <2>1 DEF SwipeReplays, Lifecycle, ledger, Surroundings, Windows
    <2>3. Deliver(c, attempt, active, p)
        BY <1>5 DEF SwipeReplays
    <2> QED BY <2>2, <2>3, DeliverStep
<1>6. ASSUME NEW b \in Bodies, NEW n \in Attempt, NEW p \in Attempt, SwipeSettles(c, b, n, p)
      PROVE  Inv' /\ ShownStep /\ PromiseStep
    BY <1>6, SwipeSettlesStep
<1>7. ASSUME NEW t \in Story, FinishSelection(c, t)
      PROVE  Inv' /\ ShownStep /\ PromiseStep
    <2> DEFINE P == Promoted(attempt, active, conn[c].at, t)
    <2>1. conn[c].at \in Attempt
        BY <1>0 DEF Work
    <2>2. Sound(P) /\ Follows(attempt, P)
        BY <1>0, <2>1, PromotedFollows DEF Inv
    <2>3. Streams(P, conn)
        BY <1>0, <2>2, StreamsFollow DEF Inv
    <2>4. Deliver(c, P, active, active)
        BY <1>7 DEF FinishSelection
    <2> HIDE DEF P
    <2>5. Delivers(c, P, active, active, attempt', conn, conn')
        BY <2>4 DEF Deliver, Delivers
    <2>6. Served(P, attempt', conn')
        BY <1>0, <2>2, <2>3, <2>5, DeliversServed
    <2>7. Served(attempt, attempt', conn')
        BY <2>2, <2>6, ServedOn
    <2>8. UNCHANGED Lifecycle /\ Surroundings'
        BY <1>0, <1>7 DEF FinishSelection, Lifecycle, ledger, Surroundings
    <2> QED BY <2>7, <2>8, ServedStep
<1>8. ASSUME NEW t \in Story, SelectionUnclaimed(c, t)
      PROVE  Inv' /\ ShownStep /\ PromiseStep
    <2>1. conn[c].at \in Attempt
        BY <1>0 DEF Work
    <2>2. attempt' = Promoted(attempt, active, conn[c].at, t) /\ conn' = [conn EXCEPT ![c] = NoWork]
        BY <1>8 DEF SelectionUnclaimed
    <2>3. Sound(attempt') /\ Follows(attempt, attempt')
        BY <1>0, <2>1, <2>2, PromotedFollows DEF Inv
    <2>4. Streams(attempt', conn)
        BY <1>0, <2>3, StreamsFollow DEF Inv
    <2>5. NoWork \in Work /\ NoWork.stage # "stream"
        BY ZeroIsAttempt DEF NoWork, Work
    <2>6. conn' \in [Connections -> Work] /\ Streams(attempt', conn')
        BY <1>0, <2>2, <2>4, <2>5 DEF Streams
    <2>7. UNCHANGED Lifecycle /\ Surroundings'
        BY <1>0, <1>8 DEF SelectionUnclaimed, Lifecycle, ledger, Surroundings
    <2>8. Served(attempt, attempt', conn')
        BY <2>3, <2>6 DEF Served
    <2> QED BY <2>7, <2>8, ServedStep
<1>9. ASSUME NEW kept \in BOOLEAN, NEW sealed \in BOOLEAN, StreamEnds(c, kept, sealed)
      PROVE  Inv' /\ ShownStep /\ PromiseStep
    BY <1>9, StreamEndsStep
<1>10. ASSUME Disconnect(c) PROVE Inv' /\ ShownStep /\ PromiseStep
    <2>1. NoWork \in Work /\ NoWork.stage # "stream"
        BY ZeroIsAttempt DEF NoWork, Work
    <2>2. /\ conn' \in [Connections -> Work]
          /\ \A d \in Connections : conn'[d].stage = "stream" => conn'[d] = conn[d]
        BY <1>0, <1>10, <2>1 DEF Disconnect
    <2>3. attempt' = attempt /\ UNCHANGED Lifecycle /\ Surroundings'
        BY <1>0, <1>10 DEF Disconnect, Lifecycle, ledger, Surroundings
    <2> QED BY <2>2, <2>3, RestStep
<1> QED BY <1>1, <1>2, <1>3, <1>4, <1>5, <1>6, <1>7, <1>8, <1>9, <1>10 DEF Serve

LEMMA Step ==
  ASSUME Inv, [Next]_vars
  PROVE  Inv' /\ ShownStep /\ PromiseStep
<1>0. Surroundings /\ conn \in [Connections -> Work]
    BY SurroundingsNow DEF Inv, TypeOK
<1>1. ASSUME NEW c \in Connections, Serve(c) PROVE Inv' /\ ShownStep /\ PromiseStep
    BY <1>1, ServeStep
<1>2. ASSUME NEW b \in Bodies, SettleFails(b) PROVE Inv' /\ ShownStep /\ PromiseStep
    BY <1>2, SettleFailsStep
<1>3. ASSUME NEW b \in Bodies, NEW n \in Attempt, NEW p \in Attempt, SwipeFails(b, n, p)
      PROVE  Inv' /\ ShownStep /\ PromiseStep
    BY <1>3, SwipeFailsStep
<1>4. CASE UserWrite
    <2>1. attempt' = attempt /\ UNCHANGED Lifecycle /\ Surroundings' /\ conn' = conn
        BY <1>0, <1>4 DEF UserWrite, Lifecycle, memory, Surroundings
    <2> QED BY <1>0, <2>1, RestStep
<1>5. CASE NextTurn
    <2>1. attempt' = attempt /\ UNCHANGED Lifecycle /\ Surroundings' /\ conn' = conn
        BY <1>0, <1>5 DEF NextTurn, Lifecycle, ledger, memory, Surroundings
    <2> QED BY <1>0, <2>1, RestStep
<1>6. CASE Crash
    <2>1. NoWork \in Work /\ NoWork.stage # "stream"
        BY ZeroIsAttempt DEF NoWork, Work
    <2>2. /\ conn' \in [Connections -> Work]
          /\ \A d \in Connections : conn'[d].stage # "stream"
        BY <1>6, <2>1 DEF Crash
    <2>3. NothingSeen \in Windows
        BY LifecycleAssumption DEF NothingSeen, Windows
    <2>4. crashes' \in 0..MaxCrashes
        BY <1>0, <1>6, LifecycleAssumption DEF Crash, Surroundings
    <2>5. attempt' = attempt /\ UNCHANGED Lifecycle /\ Surroundings'
        BY <1>0, <1>6, <2>3, <2>4 DEF Crash, Lifecycle, ledger, Surroundings, Windows
    <2> QED BY <2>2, <2>5, RestStep
<1>7. CASE UNCHANGED vars
    <2>1. attempt' = attempt /\ UNCHANGED Lifecycle /\ Surroundings' /\ conn' = conn
        BY <1>0, <1>7 DEF vars, Lifecycle, Surroundings
    <2> QED BY <1>0, <2>1, RestStep
<1> QED BY <1>1, <1>2, <1>3, <1>4, <1>5, <1>6, <1>7 DEF Next

\* Everything the later theorems need of the specification: rows are what they were shown as,
\* the lifecycle is in one of its two phases, streams carry what their attempt's claim names,
\* and the kept reply is the current narration.
THEOREM InvHolds == Spec => []Inv
<1>1. Init => Inv
    BY InitInv
<1>2. Inv /\ [Next]_vars => Inv'
    BY Step
<1> QED BY <1>1, <1>2, PTL DEF Spec

\* Every reachable state has the types of TypeOK, so a swipe never opens an attempt out of
\* turn and the swipe count never runs past the attempts.
THEOREM TypeCorrect == Spec => []TypeOK
<1>1. Inv => TypeOK
    BY DEF Inv
<1> QED BY <1>1, InvHolds, PTL

\* The mechanics of the turn are applied once, however its request is repeated or resumed, and
\* the swipe count of the turns row and the lifecycle's pointer move together.
THEOREM RowsStayInStep == Spec => []RowsAgree
<1>1. Inv => RowsAgree
    BY DEF Inv, Phase, RowsAgree
<1> QED BY <1>1, InvHolds, PTL

\* No stream without a durable claim of what it carries.
THEOREM EveryStreamIsClaimed == Spec => []StreamsAreClaimed
<1>1. Inv => StreamsAreClaimed
    BY DEF Inv, Streams, StreamsAreClaimed
<1> QED BY <1>1, InvHolds, PTL

\* The reply kept for the turn is the current narration as it was shown.
THEOREM KeptTextIsCurrent == Spec => []TextIsCurrent
<1>1. Inv => TextIsCurrent
    BY DEF Inv
<1> QED BY <1>1, InvHolds, PTL

\* An attempt is opened only when the one before it was delivered to its end.
THEOREM NarrationsSucceed == Spec => []NarrationsFollowDelivery
<1>1. ASSUME Inv PROVE NarrationsFollowDelivery
    <2> SUFFICES ASSUME NEW i \in Attempt, i > 0, attempt[i].status # "none"
                 PROVE  attempt[i - 1].status \in Provable /\ attempt[i - 1].completed
        BY DEF NarrationsFollowDelivery
    <2>1. state = "committed"
        BY <1>1 DEF Inv, Phase, Unplaced
    <2>2. Placed(attempt, active) /\ active \in Attempt
        BY <1>1, <2>1 DEF Inv, Phase, TypeOK
    <2>3. i <= active + 1 /\ i - 1 \in Attempt
        BY <2>2, LifecycleAssumption DEF Placed, Attempt
    <2>4. CASE i <= active
        BY <2>2, <2>3, <2>4, LifecycleAssumption DEF Placed, Attempt
    <2>5. CASE i = active + 1
        <3>1. attempt[i].status = "reserved" /\ i - 1 = active
            BY <2>2, <2>5, LifecycleAssumption DEF Placed, Attempt
        <3> QED BY <2>2, <2>3, <2>5, <3>1 DEF Placed
    <2> QED BY <2>2, <2>3, <2>4, <2>5, LifecycleAssumption DEF Attempt
<1> QED BY <1>1, InvHolds, PTL

\* A narration that may have been shown is never replaced and its claim never withdrawn.
THEOREM ShownStaysFinal == Spec => ShownIsFinal
<1>1. Inv /\ [Next]_vars => ShownStep
    BY Step
<1> QED BY <1>1, InvHolds, PTL DEF Spec, ShownIsFinal, ShownStep

\* The lifecycle implements DeliveryPromise: settled once, one narration at a time, none
\* replaced after its first byte, the next one only after the last byte of the current one.
THEOREM LifecycleKeepsPromise == Spec => KeepsPromise
<1>1. Init => Promise!Init
    BY ZeroIsAttempt DEF Init, Promise!Init, NoRow
<1>2. Inv /\ [Next]_vars => [Promise!Next]_(Promise!vars)
    BY Step DEF PromiseStep
<1> QED BY <1>1, <1>2, InvHolds, PTL DEF Spec, KeepsPromise, Promise!Spec

-----------------------------------------------------------------------------
(* The lifecycle beside session resolution, as the run explores them *)

\* Whatever of the two a behaviour belongs to, it is a behaviour of both: what is proved of one
\* holds of every behaviour of the run.
THEOREM TurnsRunBoth == TurnsSpec => Spec /\ ResolutionSpec
<1>1. TurnsInit => Init /\ ResolutionInit
    BY DEF TurnsInit
<1>2. [TurnsNext]_turns => [Next]_vars /\ [ResolutionNext]_resolutionVars
    BY DEF TurnsNext, turns, vars, resolutionVars
<1> QED BY <1>1, <1>2, PTL DEF TurnsSpec, Spec, ResolutionSpec

\* The state of both has its types.
THEOREM TurnsAreTyped == TurnsSpec => []TurnsTypeOK
<1>1. TypeOK /\ ResolutionTypeOK => TurnsTypeOK
    BY DEF TurnsTypeOK
<1> QED BY <1>1, TurnsRunBoth, TypeCorrect, ResolutionIsTyped, PTL
=============================================================================

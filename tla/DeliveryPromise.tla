--------------------------- MODULE DeliveryPromise ---------------------------
(***************************************************************************)
(* What a proof-gated turn promises the Player, whoever asks and however   *)
(* often: its mechanics are settled once; it then has one narration at a   *)
(* time, which may be replaced until its first byte is shown and never     *)
(* afterwards; and the next narration (a swipe) begins only when the       *)
(* current one has been delivered to its end.                              *)
(***************************************************************************)
EXTENDS Integers

CONSTANTS
    Story,    \* the narrations of the turn
    NoStory   \* the narration of a turn that is not settled

VARIABLES
    settled,  \* how often the mechanics were applied
    nth,      \* number of the current narration
    story,    \* the current narration
    shown,    \* a byte of it may have reached the Player
    done      \* it reached the Player completely

vars == <<settled, nth, story, shown, done>>

Init ==
    /\ settled = 0 /\ nth = 0 /\ story = NoStory
    /\ shown = FALSE /\ done = FALSE

\* A step may show what it has chosen at once.
Tell ==
    /\ story' \in Story
    /\ shown' \in BOOLEAN

Settle ==
    /\ settled = 0
    /\ settled' = 1
    /\ Tell
    /\ UNCHANGED <<nth, done>>

Choose ==
    /\ settled = 1 /\ ~ shown
    /\ Tell
    /\ UNCHANGED <<settled, nth, done>>

Finish ==
    /\ shown /\ ~ done
    /\ done' = TRUE
    /\ UNCHANGED <<settled, nth, story, shown>>

Renew ==
    /\ done
    /\ nth' = nth + 1
    /\ Tell
    /\ done' = FALSE
    /\ UNCHANGED settled

Next == Settle \/ Choose \/ Finish \/ Renew

Spec == Init /\ [][Next]_vars
=============================================================================

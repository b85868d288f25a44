------------------------------ MODULE MCLedger ------------------------------
(* Instances of Ledger for TLC. *)
EXTENDS Ledger, TLC

CONSTANTS w1

\* Deltas that only change state: enough for the replay and retirement properties.
PlainOnly == {PlainDelta}

\* Every report tells of a wound: one that is nothing else, and one that changes state even when
\* its wound is refused.
Reports == {d \in Delta : d.wound # NoWound}
=============================================================================

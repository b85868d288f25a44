--------------------------- MODULE MCTurnLifecycle ---------------------------
(* Instances of TurnLifecycle and SessionResolution for TLC.  The two share no state, so one    *)
(* run explores them one after the other: a behaviour belongs to one of them from its first     *)
(* state.                                                                                       *)
EXTENDS TurnLifecycle, SessionResolution, TLC

CONSTANTS x, y, z

VARIABLE subject

turns == <<subject, vars, resolutionVars>>

TurnsInit == Init /\ ResolutionInit /\ subject \in {"lifecycle", "resolution"}

TurnsNext ==
    /\ UNCHANGED subject
    /\ \/ subject = "lifecycle" /\ Next /\ UNCHANGED resolutionVars
       \/ subject = "resolution" /\ ResolutionNext /\ UNCHANGED vars

TurnsSpec == TurnsInit /\ [][TurnsNext]_turns

\* The types of both.
TurnsTypeOK == TypeOK /\ ResolutionTypeOK

\* Two things the Player may say and one reply; hosts send what has no message twice.
Said == {[role |-> "user", text |-> x], [role |-> "user", text |-> y],
         [role |-> "assistant", text |-> z]}
Sent == UNION {{s \in [1..n -> Said] : \A i, j \in 1..n : s[i] = s[j] => i = j} : n \in 1..3}

\* Connections, bodies and the ids of chats are interchangeable.  Every property of the runs is
\* an invariant or about single steps, so exploring one state of each orbit is enough.
Symmetry == Permutations(Connections) \cup Permutations(Bodies) \cup Permutations(Externals)
=============================================================================

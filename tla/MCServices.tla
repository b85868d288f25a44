----------------------------- MODULE MCServices -----------------------------
(* Instances of ChatReplies, GenesisClaims, PlayerLessons, SchemaMigrations and WorldEvents    *)
(* for TLC.  The five share no state, so one run explores them side by side: a behaviour        *)
(* belongs to one of them from its first state.                                                 *)
EXTENDS ChatReplies, GenesisClaims, PlayerLessons, SchemaMigrations, WorldEvents, TLC

CONSTANTS root, child

VARIABLE subject

services == <<subject, chatVars, genesisVars, lessonVars, schemaVars, worldVars>>

ServicesInit ==
    /\ ChatInit /\ GenesisInit /\ LessonsInit /\ WorldEventsInit
    /\ subject \in {"chat", "genesis", "lessons", "schema", "world"}
    /\ SchemaInit /\ (subject # "schema" => shape = "none")

ServicesNext ==
    /\ UNCHANGED subject
    /\ \/ /\ subject = "chat" /\ ChatNext
          /\ UNCHANGED <<genesisVars, lessonVars, schemaVars, worldVars>>
       \/ /\ subject = "genesis" /\ GenesisNext
          /\ UNCHANGED <<chatVars, lessonVars, schemaVars, worldVars>>
       \/ /\ subject = "lessons" /\ LessonsNext
          /\ UNCHANGED <<chatVars, genesisVars, schemaVars, worldVars>>
       \/ /\ subject = "schema" /\ SchemaNext
          /\ UNCHANGED <<chatVars, genesisVars, lessonVars, worldVars>>
       \/ /\ subject = "world" /\ WorldEventsNext
          /\ UNCHANGED <<chatVars, genesisVars, lessonVars, schemaVars>>

ServicesSpec ==
    /\ ServicesInit /\ [][ServicesNext]_services
    /\ \A w \in Workers : WF_genesisVars(Work(w))

\* The types of all five.
ServicesTypeOK ==
    ChatTypeOK /\ GenesisTypeOK /\ LessonsTypeOK /\ SchemaTypeOK /\ WorldEventsTypeOK

\* How often a session can be claimed or overtaken.
Epochs == root :> 3 @@ child :> 1

\* The story of the child goes on in one branch.
LastBranch == root :> 1 @@ child :> 0

\* Clocks of three segments, the smallest an author can set.  In one world the faction of the
\* first two fronts does not concern the third, and the second leaves a circumstance for a turn
\* only; in the other all are of one faction.
Clocks      == <<3, 3, 3>>
TwoFactions == <<"guild", "guild", "crown">>
OneFaction  == <<"guild", "guild", "guild">>
ForATurn    == <<0, 1, 0>>
ForEver     == <<0, 0, 0>>
=============================================================================

----------------------------- MODULE MCBranches -----------------------------
(* An instance of Ledger for TLC with one branch or two.  What a commit may look like multiplies *)
(* with the branches and with the settings: a behaviour is of one kind from its first state on.  *)
EXTENDS MCLedger

CONSTANTS
    MaxForked,   \* commits of a behaviour that may fork
    MaxLagging   \* commits of a behaviour without live recalculation

VARIABLE kind

branches == <<vars, kind>>

BranchesInit == Init /\ kind \in {"forking", "lagging", "live"}

\* Behaviours that may fork: all commits are of plain deltas, Tier-1 extraction is off, and what
\* only a text or the settling of a turn would change is left out.
ForkingNext ==
    /\ \E b \in Branches :
          \/ \E t \in Turn, d \in {PlainDelta, NoDelta} : NewTurn(b, t, d, NoDelta, TRUE)
          \/ \E t \in Turn, tags, rules \in {PlainDelta, NoDelta} :
                Reply(b, t, tags, rules, TRUE)
          \/ Swipe(b)
          \/ CreatorWrite(b)
          \/ UserWrite(b)
          \/ \E new \in Branches, ft \in Turn \cup {-1}, kill \in BOOLEAN : Fork(b, new, ft, kill)
    /\ commits' <= MaxForked

BranchesNext ==
    /\ UNCHANGED kind
    /\ \/ kind = "forking" /\ ForkingNext
       \/ kind = "lagging" /\ Step(Root, FALSE) /\ commits' <= MaxLagging
       \/ kind = "live" /\ Step(Root, TRUE)

BranchesSpec == BranchesInit /\ [][BranchesNext]_branches
=============================================================================

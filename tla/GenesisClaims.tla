--------------------------- MODULE GenesisClaims ---------------------------
(***************************************************************************)
(* Who may publish the opening state of a session (genesis.py, store.py,   *)
(* control.py, pipeline.py): the deterministic Stage A, the Stage-B worker *)
(* that asks a model for minutes, and the decisions that overtake it: a    *)
(* forced re-seed, an exact Creator seed, a re-author, another branch, a   *)
(* child chat and a restart.                                               *)
(*                                                                         *)
(* Every store call is one transaction.  Stage A runs in a transaction of  *)
(* its own thread; a worker runs on the event loop and what it does        *)
(* between two awaits ends in one compare-and-set, so it is one step.      *)
(***************************************************************************)
EXTENDS Integers

CONSTANTS
    Roots,      \* sessions that chats open
    Children,   \* sessions that fork off a root
    Workers,    \* seed_llm tasks
    MaxEpoch,   \* bound: the last claim generation of a session
    MaxBranch   \* bound: the last branch of a session

ASSUME GenesisAssumption ==
    /\ MaxEpoch \in [Roots \cup Children -> Nat]
    /\ MaxBranch \in [Roots \cup Children -> Nat]
    /\ Roots \cap Children = {}

Sessions == Roots \cup Children
Stage    == {"", "rules", "llm", "done", "skipped"}
Where    == {"idle", "queued", "resolve", "chat"}
Row      == [stage : Stage, epoch : Nat, active : Nat]
Nobody   == -1

VARIABLES
    session,   \* sessions.genesis, genesis_epoch and active_branch
    born,      \* the sessions that exist
    worker,    \* memory: the seed_llm tasks, with the session, branch and claim they work for
    streaming, \* memory: first turns whose reply is still streamed, with their branch
    exact,     \* history: sessions whose latest decision is an exact Creator seed
    fresh,     \* history: workers that hold a claim nothing has overtaken since
    published  \* history: Stage-B publications of a session since its latest decision

genesisVars == <<session, born, worker, streaming, exact, fresh, published>>

Idle == [at |-> "idle", of |-> Nobody, branch |-> 0, claim |-> Nobody]

-----------------------------------------------------------------------------
(* Store calls *)

\* Mutant: only the stage is looked at.
StageIsLlm(r, w) == r.stage = "llm"

\* genesis_claim_is_current without a branch: the worker's generation still owns the stage.
Owns(r, w) == r.stage = "llm" /\ r.epoch = w.claim

\* Mutant: the branch the worker seeds is not compared.
CurrentAnywhere(r, w) == Owns(r, w)

\* genesis_claim_is_current with the worker's branch.
Current(r, w) == Owns(r, w) /\ r.active = w.branch

\* Mutant: the generation is not asked for.
GivenBackAnyway(r, w) == [r EXCEPT !.stage = "rules"]

\* genesis_mark_if_claim(..., "rules"): the session may be seeded again, unless overtaken.
GivenBack(r, w) == IF Owns(r, w) THEN [r EXCEPT !.stage = "rules"] ELSE r

\* genesis_claim_llm
Claimable(r) == r.stage \in {"", "rules"}

\* genesis_supersede
Superseded(r, s) == [r EXCEPT !.stage = s, !.epoch = @ + 1]

\* seed_rules; without a card there is nothing to seed.  It fails open: the stage is kept.
Seeded(r, card) ==
    IF r.stage # "" THEN {r}
    ELSE {r, [r EXCEPT !.stage = IF card THEN "rules" ELSE "skipped"]}

\* A task is created for the session's row as it was read.
Schedule(s, b) ==
    \E w \in Workers :
        /\ worker[w] = Idle
        /\ worker' = [worker EXCEPT ![w] = [at |-> "queued", of |-> s, branch |-> b,
                                             claim |-> Nobody]]

\* Everything claimed for the session is overtaken.
Overtake(s) == fresh' = {w \in fresh : worker[w].of # s}

-----------------------------------------------------------------------------
(* Stage A and the decisions *)

\* POST /session/{sid}/genesis: commit_stage_a, and the task it schedules.  An exact Creator
\* seed supersedes whatever is under way; with extraction off Stage A is the whole product.
ChatOpens(s, card, force, seed, off) ==
    LET r      == session[s]
        forced == force /\ r.stage # ""
        start  == IF forced THEN Superseded(r, "") ELSE r
    IN  /\ s \in born /\ (force => forced) /\ (seed => card /\ ~ off)
        /\ \E a \in Seeded(start, card) :
               /\ session' = [session EXCEPT ![s] =
                      IF seed THEN Superseded(a, "done")
                      ELSE IF off /\ a.stage = "rules" THEN [a EXCEPT !.stage = "done"] ELSE a]
               /\ session'[s].epoch <= MaxEpoch[s]
        /\ IF seed \/ forced
           THEN /\ Overtake(s)
                /\ published' = [published EXCEPT ![s] = 0]
                /\ exact' = IF seed THEN exact \cup {s} ELSE exact \ {s}
           ELSE UNCHANGED <<fresh, published, exact>>
        /\ IF seed \/ off \/ ~ card THEN UNCHANGED worker ELSE Schedule(s, r.active)
        /\ UNCHANGED <<born, streaming>>

\* The first turn of a session without an extension: Stage A inline.
FirstTurn(s, card) ==
    /\ s \in born /\ streaming[s] = Nobody
    /\ \E a \in Seeded(session[s], card) : session' = [session EXCEPT ![s] = a]
    /\ streaming' = IF card THEN [streaming EXCEPT ![s] = session[s].active] ELSE streaming
    /\ UNCHANGED <<born, worker, exact, fresh, published>>

\* _genesis_pass, when its reply has been streamed.
FirstReply(s, off) ==
    /\ streaming[s] # Nobody
    /\ streaming' = [streaming EXCEPT ![s] = Nobody]
    /\ IF off
       THEN /\ session' = [session EXCEPT ![s].stage = IF @ = "rules" THEN "done" ELSE @]
            /\ UNCHANGED worker
       ELSE Schedule(s, streaming[s]) /\ UNCHANGED session
    /\ UNCHANGED <<born, exact, fresh, published>>

\* The Creator binds a Character and Persona (control.py).
CoreSeeded(s) ==
    /\ s \in born /\ session[s].stage = ""
    /\ session' = [session EXCEPT ![s].stage = "rules"]
    /\ UNCHANGED <<born, worker, streaming, exact, fresh, published>>

\* The experience is set anew before its first real turn (store.py).
Reauthored(s) ==
    /\ s \in born /\ session[s].epoch < MaxEpoch[s]
    /\ session' = [session EXCEPT ![s] = Superseded(@, "")]
    /\ Overtake(s)
    /\ published' = [published EXCEPT ![s] = 0]
    /\ exact' = exact \ {s}
    /\ UNCHANGED <<born, worker, streaming>>

\* The story goes on in another branch of the session.
Branched(s) ==
    /\ s \in born /\ session[s].active < MaxBranch[s]
    /\ session' = [session EXCEPT ![s].active = @ + 1]
    /\ UNCHANGED <<born, worker, streaming, exact, fresh, published>>

\* A child chat: inherit_session_settings copies the stage of its root as it is.
Forked(s, c) ==
    /\ s \in born \cap Roots /\ c \in Children \ born
    /\ born' = born \cup {c}
    /\ session' = [session EXCEPT ![c].stage = session[s].stage]
    /\ exact' = IF s \in exact THEN exact \cup {c} ELSE exact
    /\ published' = [published EXCEPT ![c] = published[s]]
    /\ UNCHANGED <<worker, streaming, fresh>>

\* Mutant: the claims in flight are left as they are.
NotReleased(r) == r

\* The process starts again: every claim in flight is given back (Store.__init__).
Released(r) == IF r.stage = "llm" THEN Superseded(r, "rules") ELSE r

StoreOpens ==
    /\ \A s \in Sessions : Released(session[s]).epoch <= MaxEpoch[s]
    /\ session' = [s \in Sessions |-> Released(session[s])]
    /\ worker' = [w \in Workers |-> Idle]
    /\ streaming' = [s \in Sessions |-> Nobody]
    /\ fresh' = {}
    /\ UNCHANGED <<born, exact, published>>

-----------------------------------------------------------------------------
(* The Stage-B worker *)

\* The worker ends with the session's row as given.
Ends(w, r) ==
    /\ session' = [session EXCEPT ![worker[w].of] = r]
    /\ worker' = [worker EXCEPT ![w] = Idle]
    /\ fresh' = fresh \ {w}

\* It claims the session and asks which model to use.
Claim(w) ==
    LET me   == worker[w]
        row  == session[me.of]
        mine == [row EXCEPT !.stage = "llm", !.epoch = @ + 1]
    IN  /\ me.at = "queued" /\ row.epoch < MaxEpoch[me.of]
        /\ IF ~ Claimable(row) THEN Ends(w, row)
           ELSE IF ~ Current(mine, [me EXCEPT !.claim = mine.epoch])
           THEN Ends(w, GivenBack(mine, [me EXCEPT !.claim = mine.epoch]))
           ELSE /\ session' = [session EXCEPT ![me.of] = mine]
                /\ worker' = [worker EXCEPT ![w].at = "resolve", ![w].claim = mine.epoch]
                /\ fresh' = fresh \cup {w}
        /\ UNCHANGED <<born, streaming, exact, published>>

\* The model is known, or there is none.
Resolve(w, found) ==
    LET me  == worker[w]
        row == session[me.of]
    IN  /\ me.at = "resolve"
        /\ IF found /\ Current(row, me)
           THEN worker' = [worker EXCEPT ![w].at = "chat"] /\ UNCHANGED <<session, fresh>>
           ELSE Ends(w, GivenBack(row, me))
        /\ UNCHANGED <<born, streaming, exact, published>>

\* The model answered: commit_stage_b checks again and publishes in the same transaction.
Publish(w) ==
    LET me  == worker[w]
        row == session[me.of]
    IN  /\ me.at = "chat" /\ Current(row, me)
        /\ Ends(w, [row EXCEPT !.stage = "done"])
        /\ published' = [published EXCEPT ![me.of] = @ + 1]
        /\ UNCHANGED <<born, streaming, exact>>

\* It did not, or too late, or what it said could not be committed.
GiveUp(w, broken) ==
    LET me  == worker[w]
        row == session[me.of]
    IN  /\ me.at = "chat"
        /\ Ends(w, IF broken /\ Current(row, me) THEN [row EXCEPT !.stage = "done"]
                   ELSE GivenBack(row, me))
        /\ UNCHANGED <<born, streaming, exact, published>>

Work(w) ==
    Claim(w) \/ (\E found \in BOOLEAN : Resolve(w, found)) \/ Publish(w)
        \/ \E broken \in BOOLEAN : GiveUp(w, broken)

-----------------------------------------------------------------------------
GenesisInit ==
    /\ session = [s \in Sessions |-> [stage |-> "", epoch |-> 0, active |-> 0]]
    /\ born = Roots
    /\ worker = [w \in Workers |-> Idle]
    /\ streaming = [s \in Sessions |-> Nobody]
    /\ exact = {} /\ fresh = {}
    /\ published = [s \in Sessions |-> 0]

GenesisNext ==
    \/ \E s \in Sessions :
        \/ \E card, force, seed, off \in BOOLEAN : ChatOpens(s, card, force, seed, off)
        \/ \E card \in BOOLEAN : FirstTurn(s, card)
        \/ \E off \in BOOLEAN : FirstReply(s, off)
        \/ CoreSeeded(s) \/ Reauthored(s) \/ Branched(s)
        \/ \E c \in Children : Forked(s, c)
    \/ \E w \in Workers : Work(w)
    \/ StoreOpens

GenesisSpec == GenesisInit /\ [][GenesisNext]_genesisVars

\* The event loop runs every task on, and the calls a worker awaits time out (120 s).
GenesisFairSpec == GenesisSpec /\ \A w \in Workers : WF_genesisVars(Work(w))

-----------------------------------------------------------------------------
(* Properties *)

\* The types of the state.
GenesisTypeOK ==
    /\ session \in [Sessions -> Row]
    /\ born \in SUBSET Sessions
    /\ worker \in [Workers -> [at : Where, of : Sessions \cup {Nobody},
                               branch : Nat, claim : Nat \cup {Nobody}]]
    /\ streaming \in [Sessions -> Nat \cup {Nobody}]
    /\ exact \in SUBSET Sessions /\ fresh \in SUBSET Workers
    /\ published \in [Sessions -> Nat]

\* At most one worker owns the claim of a session (genesis_claim_llm).
OneOwner ==
    \A v, w \in Workers :
        /\ v # w /\ worker[v].at \in {"resolve", "chat"} /\ worker[w].at \in {"resolve", "chat"}
        /\ worker[v].of = worker[w].of
        => ~ (Owns(session[worker[v].of], worker[v]) /\ Owns(session[worker[v].of], worker[w]))

\* A session is seeded by a model at most once between two decisions, and after an exact Creator
\* seed not at all, however late an older worker or a re-read card arrives: it stays done until
\* somebody forces or authors it anew (control.py, genesis_seed; commit_stage_b).
SeedsStand ==
    /\ \A s \in Sessions : published[s] <= 1
    /\ \A s \in exact : session[s].stage = "done" /\ published[s] = 0

\* Only a worker whose claim nothing has overtaken publishes, and only into the branch that is
\* still active (commit_stage_b).
OnlyCurrentPublishes ==
    [][\A s \in Sessions : published'[s] > published[s] /\ s \in born =>
        \E w \in fresh : worker[w].of = s /\ worker[w].branch = session[s].active]_genesisVars

\* The claim of a session that is no child ends: the session is seeded or can be seeded again
\* (the timeouts of seed_llm and the restart).
ClaimsEnd == \A s \in Roots : session[s].stage = "llm" ~> session[s].stage # "llm"
=============================================================================

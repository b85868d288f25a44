------------------------- MODULE SessionResolution -------------------------
(***************************************************************************)
(* Which session, branch and turn a transcript belongs to                  *)
(* (session_engine.py, lcp.py, with their tables in store.py).  The host   *)
(* sends its whole transcript, or the window of it that fits, with every   *)
(* request; an identity stamp is believed where there is one, and without  *)
(* one the longest known prefix decides.  The engine keeps the transcripts *)
(* of the live branches in memory, beside the rows of the database.        *)
(*                                                                         *)
(* A request is one transaction and one step; an error takes the           *)
(* transaction back and rebuilds the memory.  The proof-gated path is      *)
(* TurnLifecycle; here no turn is reserved.  A repeated request within the *)
(* window changes nothing (the count a regenerate carries along is stale)  *)
(* and is no action.  Recency, which breaks ties, and whether a matched    *)
(* session is bound to a Chat card are open; a collapsed transcript is one *)
(* of Player messages.                                                     *)
(***************************************************************************)
EXTENDS Integers, Sequences, FiniteSets

CONSTANTS
    Msgs,         \* messages, with a role and a text
    Requests,     \* transcripts that hosts send
    Externals,    \* the ids a host gives its chats
    NoId,         \* no such id
    MinAnchor,    \* min_anchor_msgs
    AdoptMin,     \* adopt_min_lcp
    AlignK,       \* align_k
    Unmixed,      \* a host that stamps a chat stamps every request of it
    MaxBranches, MaxSessions, MaxLen, MaxTurn    \* bounds

ASSUME ResolutionAssumption ==
    /\ Msgs \subseteq [role : {"user", "assistant"}, text : {m.text : m \in Msgs}]
    /\ Requests \subseteq Seq(Msgs) \ {<<>>}
    /\ NoId \notin Externals
    /\ MinAnchor \in Nat /\ AdoptMin \in Nat \ {0} /\ AlignK \in Nat
    /\ Unmixed \in BOOLEAN
    /\ MaxBranches \in Nat /\ MaxSessions \in Nat /\ MaxLen \in Nat /\ MaxTurn \in Nat

VARIABLES
    branch,     \* the rows of branches, branch_msgs and turns
    session,    \* the rows of sessions
    index       \* PrefixIndex.branches

resolutionVars == <<branch, session, index>>

Branches == 1..MaxBranches
Sessions == 1..MaxSessions
Transcripts == UNION {[1..n -> Msgs] : n \in 0..MaxLen}

BranchRow  == [status : {"none", "live", "dead"}, session : 0..MaxSessions,
               msgs : Transcripts, turns : SUBSET (0..MaxTurn)]
SessionRow == [status : {"none", "open"}, ext : Externals \cup {NoId},
               active : 0..MaxBranches]
NoBranch   == [status |-> "none", session |-> 0, msgs |-> <<>>, turns |-> {}]
NoSession  == [status |-> "none", ext |-> NoId, active |-> 0]

\* The rows and the memory as a value, for the operations that make up a request.
Now == [branch |-> branch, session |-> session, index |-> index]

Becomes(w) ==
    /\ \A b \in Branches : Len(w.branch[b].msgs) <= MaxLen /\ w.branch[b].turns \subseteq 0..MaxTurn
    /\ branch' = w.branch /\ session' = w.session /\ index' = w.index

Lesser(m, n) == IF m <= n THEN m ELSE n
First(s, n) == SubSeq(s, 1, Lesser(n, Len(s)))
Rest(s, n)  == SubSeq(s, n + 1, Len(s))
Tip(s)      == s[Len(s)]

-----------------------------------------------------------------------------
(* Turns of a branch *)

Players(s) == Cardinality({i \in DOMAIN s : s[i].role = "user"})

LastTurn(T) == CHOOSE t \in T \cup {-1} : \A u \in T : u <= t

\* Mutant: every branch is taken to number its turns from one.
FromOne(T, n) == IF n = 0 \/ T = {} THEN -1 ELSE n

\* turn_for_message_ordinal
TurnOf(T, n) ==
    IF n = 0 \/ T = {} THEN -1
    ELSE CHOOSE t \in T : Cardinality({u \in T : u <= t}) = Lesser(n, Cardinality(T))

-----------------------------------------------------------------------------
(* The operations a request is made of, from rows and memory to rows and memory *)

View(w, b) == IF b \in DOMAIN w.index THEN w.index[b] ELSE w.branch[b].msgs

Indexed(w, b, view) ==
    [w EXCEPT !.index = [c \in DOMAIN @ \cup {b} |-> IF c = b THEN view ELSE @[c]]]

\* append_msgs writes from a position on and leaves what lies behind.
Written(rows, start, tail) == First(rows, start) \o tail \o Rest(rows, start + Len(tail))

\* _append_tail without turns
Synced(w, b, tail) ==
    [Indexed(w, b, View(w, b) \o tail) EXCEPT
        !.branch[b].msgs = Written(@, Len(View(w, b)), tail)]

\* _append_tail with turns: a Player message gets its ordinal, whatever turns there are.
Appended(w, b, tail) ==
    [Synced(w, b, tail) EXCEPT
        !.branch[b].turns = @ \cup (Players(View(w, b))..Players(View(w, b) \o tail) - 1)]

\* Mutant: the reply that is regenerated stays in memory.
OnlyRowsCut(w, b, keep) == [w EXCEPT !.branch[b].msgs = First(@, keep)]

\* apply_deferred_swipe_db and finalize_deferred_swipe_index
Cut(w, b, keep) ==
    [Indexed(w, b, First(View(w, b), keep)) EXCEPT !.branch[b].msgs = First(@, keep)]

FreshBranch(w)  == CHOOSE b \in Branches : w.branch[b].status = "none"
FreshSession(w) == CHOOSE s \in Sessions : w.session[s].status = "none"

\* create_session, get_or_create_session
Created(w, x) ==
    LET b == FreshBranch(w)
        s == FreshSession(w)
    IN  [w EXCEPT !.branch[b] = [NoBranch EXCEPT !.status = "live", !.session = s],
                  !.session[s] = [status |-> "open", ext |-> x, active |-> b]]

\* fork_branch: what a copy has of its source.
Copy(row, view, at, s) ==
    [status |-> "live", session |-> s, msgs |-> First(row.msgs, at),
     turns |-> {t \in row.turns : t <= TurnOf(row.turns, Players(First(view, at)))}]

\* _fork of an edit: the copy takes the place of its source, on disk and in memory.
Replaced(w, b, at) ==
    LET c == FreshBranch(w)
        s == w.branch[b].session
    IN  [w EXCEPT
            !.branch[c] = Copy(w.branch[b], View(w, b), at, s),
            !.branch[b].status = "dead",
            !.session[s].active = c,
            !.index = [d \in (DOMAIN @ \ {b}) \cup {c} |->
                            IF d = c THEN First(View(w, b), at) ELSE @[d]]]

\* Mutant: the branch that a session is created with stays beside the copy.
CopiedBeside(w, b, at, x) ==
    LET v == Created(w, x)
        s == FreshSession(w)
        c == FreshBranch(v)
    IN  Indexed([v EXCEPT
            !.branch = [@ EXCEPT ![c] = Copy(w.branch[b], View(w, b), at, s)],
            !.session[s].active = c], c, First(View(w, b), at))

\* _fork into a session of its own: the branch that session was created with is discarded.
Copied(w, b, at, x) ==
    LET v == Created(w, x)
        s == FreshSession(w)
        c == FreshBranch(v)
    IN  Indexed([v EXCEPT
            !.branch = [@ EXCEPT ![c] = Copy(w.branch[b], View(w, b), at, s),
                                 ![FreshBranch(w)] = NoBranch],
            !.session[s].active = c], c, First(View(w, b), at))

\* Ids are enough for k branches and a session.
Ids(k) == /\ Cardinality({b \in Branches : branch[b].status = "none"}) >= k
          /\ \E s \in Sessions : session[s].status = "none"

-----------------------------------------------------------------------------
(* Recognition *)

\* Two messages agree in role and text, or for an alignment in their text.
Common(s, t) ==
    CHOOSE n \in 0..Lesser(Len(s), Len(t)) :
        /\ First(s, n) = First(t, n)
        /\ n < Lesser(Len(s), Len(t)) => s[n + 1] # t[n + 1]

Aligned(s, p, t) ==
    CHOOSE n \in 0..Lesser(Len(s) - p, Len(t)) :
        /\ \A j \in 1..n : s[p + j].text = t[j].text
        /\ n < Lesser(Len(s) - p, Len(t)) => s[p + n + 1].text # t[n + 1].text

Best(S) == {m \in S : \A k \in S : k.run <= m.run}

\* longest_prefix, and where it finds nothing align
Matches(canon) ==
    LET prefix == {[at |-> b, off |-> 0, run |-> Common(index[b], canon)] : b \in DOMAIN index}
        slid   == UNION {{[at |-> b, off |-> p, run |-> Aligned(index[b], p, canon)] :
                            p \in 0..Len(index[b]) - 1} : b \in DOMAIN index}
        known  == {m \in prefix : m.run > 0}
    IN  IF known # {} THEN Best(known)
        ELSE Best({m \in slid : m.run > 0 /\ m.run >= Lesser(AlignK, Len(canon))})

\* Where the match ends in the branch.
Upto(m) == m.off + m.run

Shallow(m) == m.run < MinAnchor /\ Upto(m) < Len(index[m.at])

Alone(m) == Unmixed => session[branch[m.at].session].ext = NoId

-----------------------------------------------------------------------------
(* Requests without a stamp *)

NewSession(canon) ==
    /\ Players(canon) > 0
    /\ Ids(1)
    /\ LET w == Created(Now, NoId)
           b == FreshBranch(Now)
       IN  Becomes(Appended(Indexed(w, b, <<>>), b, canon))

\* A longer transcript: what the branch has not seen of it is appended.
GoesOn(canon, m) ==
    /\ Upto(m) = Len(index[m.at]) /\ m.off + Len(canon) > Len(index[m.at])
    /\ Tip(canon).role = "user"
    /\ Becomes(Appended(Now, m.at, Rest(canon, Len(index[m.at]) - m.off)))

\* Mutant: what is last gives way, whoever wrote it.
KeptLess(view, canon) ==
    IF view # <<>> /\ (canon = <<>> \/ Tip(view).text # Tip(canon).text)
    THEN Len(view) - 1 ELSE Len(view)

\* _deferred_swipe_plan: the last reply, if it is there, gives way.
Kept(view, canon) ==
    IF view # <<>> /\ Tip(view).role = "assistant" /\ (canon = <<>> \/ Tip(view).text # Tip(canon).text)
    THEN Len(view) - 1 ELSE Len(view)

Regenerates(canon, m) ==
    LET view == index[m.at]
        end  == m.off + Len(canon)
    IN  /\ Upto(m) = end /\ Tip(canon).role = "user"
        /\ end = Len(view) \/ (end = Len(view) - 1 /\ Tip(view).role = "assistant")
        /\ branch[m.at].turns # {}
        /\ Becomes(Cut(Now, m.at, Kept(view, canon)))

\* A transcript that differs, or ends earlier, goes on in a copy.
Edits(canon, m) ==
    LET view == index[m.at]
        end  == m.off + Len(canon)
        at   == Upto(m)
    IN  /\ at = Len(view) => end <= Len(view)
        /\ at = end => \/ end < Len(view) - 1
                       \/ end = Len(view) - 1 /\ (Tip(canon).role = "assistant"
                                                    \/ Tip(view).role = "user")
        /\ \E b \in Branches : branch[b].status = "none"
        /\ LET w == Replaced(Now, m.at, at)
               c == FreshBranch(Now)
           IN  Becomes(Appended(w, c, Rest(canon, at - m.off)))

\* Whether the match is of a chat bound to a Chat card is open.
Heuristic(canon) ==
    \/ NewSession(canon)
    \/ \E m \in Matches(canon) :
        /\ ~ Shallow(m) /\ Alone(m)
        /\ GoesOn(canon, m) \/ Regenerates(canon, m) \/ Edits(canon, m)

-----------------------------------------------------------------------------
(* Requests with a stamp *)

Known(x) == {s \in Sessions : session[s].status = "open" /\ session[s].ext = x}

\* Where a chat with a new id can have left session p: after messages it shares, at one of the
\* Player.
ForkPoints(p, x, canon) ==
    {at \in 1..Len(canon) - 1 :
        /\ session[p].status = "open" /\ session[p].ext \notin {NoId, x}
        /\ canon[at + 1].role = "user"
        /\ at <= Len(View(Now, session[p].active))
        /\ First(View(Now, session[p].active), at) = First(canon, at)}

\* A chat with a new id that names its parent goes on in a copy.
Lineage(x, canon) ==
    UNION {{Copied(Now, session[p].active, at, x) : at \in ForkPoints(p, x, canon)} : p \in Sessions}

\* relink_external
Relinked(s, x) == [Now EXCEPT !.session[s].ext = x]

\* A chat with a new id and no parent: renamed, copied by the host, or new.
Adopted(x, canon) ==
    LET deep == {m \in Matches(canon) : Len(canon) >= AdoptMin /\ Upto(m) >= AdoptMin}
    IN  {Created(Now, x)}
        \cup {IF Upto(m) >= Len(index[m.at]) THEN Relinked(branch[m.at].session, x)
              ELSE Copied(Now, m.at, Upto(m), x) : m \in deep}

\* _session_for_external
Located(x, canon) == IF Known(x) # {} THEN {Now} ELSE Lineage(x, canon) \cup Adopted(x, canon)

Diverges(view, canon) == \E i \in DOMAIN view \cap DOMAIN canon : view[i] # canon[i]

\* _exact_forward_window: the turn a stamp counts may be the next one.
Forward(T, canon) == canon # <<>> /\ Tip(canon).role = "user" /\ T # {}

\* A window that starts with the end of the transcript and goes on.
Overlap(view, canon, n) == First(canon, n) = Rest(view, Len(view) - n)

\* _unseen_tail
Unseen(view, canon) ==
    LET shared == Common(view, canon)
        ends   == {n \in 1..Lesser(Len(view), Len(canon)) : Overlap(view, canon, n)}
    IN  IF shared = Len(view) THEN Rest(canon, shared)
        ELSE IF shared > 0 THEN <<>>
        ELSE IF ends # {} THEN Rest(canon, CHOOSE n \in ends : \A k \in ends : k <= n)
        ELSE canon

\* A message of the Player; the stamped turn counts on a new branch only.
Speaks(w, b, canon, base) ==
    LET view == View(w, b)
        T    == w.branch[b].turns
        turn == IF T = {} THEN base ELSE LastTurn(T) + 1
    IN  /\ Diverges(view, canon) => Forward(T, canon)
        /\ Becomes([Synced(Indexed(w, b, view), b, Unseen(view, canon)) EXCEPT
                        !.branch[b].turns = @ \cup {turn}])

\* swipe and regenerate; without a turn this fails.
Swipes(w, b, canon) ==
    /\ w.branch[b].turns # {}
    /\ Becomes(Cut(w, b, Kept(View(w, b), canon)))

\* continue, or a transcript that is refused once its chat has been found
Continues(w, b) == Becomes(Indexed(w, b, View(w, b)))

Stamped(x, canon) ==
    /\ Ids(2) \/ Known(x) # {}
    /\ \E w \in Located(x, canon) :
        LET s == CHOOSE s \in Sessions : w.session[s].status = "open" /\ w.session[s].ext = x
            b == w.session[s].active
        IN  \/ \E base \in {0, 1} : Speaks(w, b, canon, base)
            \/ Swipes(w, b, canon)
            \/ Continues(w, b)

-----------------------------------------------------------------------------
(* Errors and restart *)

\* Restart recovery, and what is left of a request that failed: it is taken back.
Rebuilt == [b \in {c \in Branches : branch[c].status = "live"} |-> branch[b].msgs]

Recovers ==
    /\ index' = Rebuilt
    /\ UNCHANGED <<branch, session>>

-----------------------------------------------------------------------------
ResolutionInit ==
    /\ branch  = [b \in Branches |-> NoBranch]
    /\ session = [s \in Sessions |-> NoSession]
    /\ index   = <<>>

ResolutionNext ==
    \/ \E canon \in Requests : Heuristic(canon)
    \/ \E x \in Externals, canon \in Requests \cup {<<>>} : Stamped(x, canon)
    \/ Recovers

ResolutionSpec == ResolutionInit /\ [][ResolutionNext]_resolutionVars

-----------------------------------------------------------------------------
(* Properties *)

\* The types of the state.
ResolutionTypeOK ==
    /\ branch \in [Branches -> BranchRow]
    /\ session \in [Sessions -> SessionRow]
    /\ DOMAIN index \subseteq Branches
    /\ \A b \in DOMAIN index : index[b] \in Transcripts

\* The memory holds the transcripts of exactly the live branches, as the rows have them
\* (lcp.py: rebuilt from the store, mutated in lockstep with it), and a session has one live
\* branch, the one its requests go to, through edits, copies, renames and errors.
IndexInStep ==
    /\ DOMAIN index = {b \in Branches : branch[b].status = "live"}
    /\ \A b \in DOMAIN index : index[b] = branch[b].msgs
    /\ \A s \in Sessions : session[s].status = "open" =>
        {b \in Branches : branch[b].session = s /\ branch[b].status = "live"} = {session[s].active}

\* No request, of whatever chat and however it is classified, rewrites what a branch remembers:
\* its transcript grows at the end, or loses its last reply (session_engine.py: a wrong
\* classification never corrupts state).
HistoryOnlyGrows ==
    [][\A b \in Branches : branch[b].status = "live" =>
        LET old == branch[b].msgs
            new == branch'[b].msgs
        IN  \/ First(new, Len(old)) = old
            \/ Tip(old).role = "assistant" /\ new = First(old, Len(old) - 1)]_resolutionVars

\* The turns of a branch have no gaps, and as long as no stamp counted them each Player message
\* has a turn of its own (_append_tail, turn_for_message_ordinal, resolve_stamped).
TurnsRunOn ==
    \A b \in Branches : branch[b].status = "live" =>
        /\ \A t, u \in branch[b].turns : t..u \subseteq branch[b].turns
        /\ session[branch[b].session].ext = NoId => branch[b].turns = 0..Players(branch[b].msgs) - 1
=============================================================================

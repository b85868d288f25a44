-------------------------- MODULE ResolutionProofs --------------------------
(***************************************************************************)
(* Proofs about SessionResolution, for every set of messages, requests and *)
(* chats and every number of branches, sessions, turns and messages.       *)
(***************************************************************************)
EXTENDS SessionResolution, TurnOrder, SequenceTheorems, FiniteSetTheorems, TLAPS

-----------------------------------------------------------------------------
(* Transcripts *)

LEMMA FirstProperties ==
    ASSUME NEW S, NEW s \in Seq(S), NEW n \in Nat
    PROVE  /\ First(s, n) \in Seq(S)
           /\ Len(First(s, n)) = Lesser(n, Len(s)) /\ Lesser(n, Len(s)) \in 0..Len(s)
           /\ \A i \in 1..Lesser(n, Len(s)) : First(s, n)[i] = s[i]
<1>1. Lesser(n, Len(s)) \in 0..Len(s) /\ Len(s) \in Nat
    BY LenProperties DEF Lesser
<1>2. \A i \in 1..Lesser(n, Len(s)) : s[i] \in S
    BY <1>1, ElementOfSeq
<1> QED BY <1>1, <1>2, SubSeqProperties DEF First

LEMMA RestProperties ==
    ASSUME NEW S, NEW s \in Seq(S), NEW n \in Nat
    PROVE  /\ Rest(s, n) \in Seq(S)
           /\ n >= Len(s) => Rest(s, n) = <<>>
<1>1. Len(s) \in Nat
    BY LenProperties
<1>2. \A i \in (n + 1)..Len(s) : s[i] \in S
    BY <1>1, ElementOfSeq
<1> QED BY <1>1, <1>2, SubSeqProperties, SubSeqEmpty DEF Rest

LEMMA FirstWhole ==
    ASSUME NEW S, NEW s \in Seq(S), NEW n \in Nat, n >= Len(s)
    PROVE  First(s, n) = s
<1>1. Lesser(n, Len(s)) = Len(s)
    BY LenProperties DEF Lesser
<1> QED BY <1>1, FirstProperties, SeqEqual, SubSeqFull DEF First

LEMMA FirstOfConcat ==
    ASSUME NEW S, NEW s \in Seq(S), NEW t \in Seq(S)
    PROVE  First(s \o t, Len(s)) = s
<1>1. s \o t \in Seq(S) /\ Len(s \o t) = Len(s) + Len(t) /\ Len(s) \in Nat /\ Len(t) \in Nat
    BY ConcatProperties, LenProperties
<1>2. Lesser(Len(s), Len(s \o t)) = Len(s)
    BY <1>1 DEF Lesser
<1>3. /\ First(s \o t, Len(s)) \in Seq(S) /\ Len(First(s \o t, Len(s))) = Len(s)
      /\ \A i \in 1..Len(s) : First(s \o t, Len(s))[i] = (s \o t)[i]
    BY <1>1, <1>2, FirstProperties
<1>4. \A i \in 1..Len(s) : (s \o t)[i] = s[i]
    BY <1>1, ConcatProperties
<1> QED BY <1>3, <1>4, SeqEqual

\* What append_msgs writes behind the last row is appended.
LEMMA WrittenAtEnd ==
    ASSUME NEW S, NEW s \in Seq(S), NEW t \in Seq(S)
    PROVE  Written(s, Len(s), t) = s \o t
<1>1. Len(s) \in Nat /\ Len(t) \in Nat
    BY LenProperties
<1>2. Len(s) + Len(t) \in Nat /\ Len(s) + Len(t) >= Len(s)
    BY <1>1
<1>3. Rest(s, Len(s) + Len(t)) = <<>>
    BY <1>2, RestProperties
<1>4. First(s, Len(s)) = s
    BY <1>1, FirstWhole
<1>5. (s \o t) \o <<>> = s \o t
    BY ConcatProperties, ConcatEmptySeq
<1> QED BY <1>3, <1>4, <1>5 DEF Written

-----------------------------------------------------------------------------
(* Rows and memory as a value *)

\* A row as the operations of a request leave it, before its bounds are checked.
OpenRow == [status : {"none", "live", "dead"}, session : 0..MaxSessions,
            msgs : Seq(Msgs), turns : SUBSET Nat]

Shaped(w) ==
    /\ w = [branch |-> w.branch, session |-> w.session, index |-> w.index]
    /\ w.branch \in [Branches -> OpenRow] /\ w.session \in [Sessions -> SessionRow]

Live(w) == {b \in Branches : w.branch[b].status = "live"}

\* A session that is open has a live branch, the one its requests go to, and no other.
Owned(w) ==
    /\ \A b \in Live(w) :
          LET s == w.branch[b].session
          IN  s \in Sessions /\ w.session[s].status = "open" /\ w.session[s].active = b
    /\ \A s \in Sessions : w.session[s].status = "open" =>
          w.session[s].active \in Live(w) /\ w.branch[w.session[s].active].session = s

Mirrors(w) == \A b \in DOMAIN w.index : w.index[b] = w.branch[b].msgs

\* Rows and memory agree; or they will, once the live branch b is in the memory.
InStep(w) == Shaped(w) /\ Owned(w) /\ Mirrors(w) /\ DOMAIN w.index = Live(w)

Near(w, b) ==
    Shaped(w) /\ Owned(w) /\ Mirrors(w) /\ b \in Live(w) /\ DOMAIN w.index \cup {b} = Live(w)

LEMMA InStepIsNear == ASSUME NEW w, InStep(w), NEW b \in Live(w) PROVE Near(w, b)
    BY DEF InStep, Near

LEMMA RowOf ==
    ASSUME NEW w, Shaped(w), NEW b \in Branches
    PROVE  /\ w.branch[b] \in OpenRow /\ w.branch[b].msgs \in Seq(Msgs)
           /\ w.branch[b].turns \in SUBSET Nat /\ w.branch[b].session \in 0..MaxSessions
    BY DEF Shaped, OpenRow

LEMMA ViewIsRow == ASSUME NEW w, NEW b, Near(w, b) PROVE View(w, b) = w.branch[b].msgs
    BY DEF Near, Mirrors, View

\* From w to v, branch b gets a transcript and turns, in its rows and in the memory.
Changes(w, v, b, msgs, turns) ==
    /\ v = [branch |-> v.branch, session |-> w.session,
            index  |-> [c \in DOMAIN w.index \cup {b} |-> IF c = b THEN msgs ELSE w.index[c]]]
    /\ v.branch = [w.branch EXCEPT ![b] =
            [status |-> "live", session |-> w.branch[b].session, msgs |-> msgs, turns |-> turns]]

LEMMA ChangesInStep ==
    ASSUME NEW w, NEW b, Near(w, b), NEW v, NEW msgs \in Seq(Msgs), NEW turns \in SUBSET Nat,
           Changes(w, v, b, msgs, turns)
    PROVE  InStep(v)
<1> DEFINE row == [status |-> "live", session |-> w.branch[b].session, msgs |-> msgs, turns |-> turns]
<1>1. Shaped(w) /\ b \in Branches /\ b \in Live(w) /\ w.branch[b] \in OpenRow
    BY RowOf DEF Near, Live
<1>2. row \in OpenRow /\ row.status = "live" /\ row.session = w.branch[b].session /\ row.msgs = msgs
    BY <1>1 DEF OpenRow
<1>3. v.branch = [w.branch EXCEPT ![b] = row]
    BY DEF Changes
<1> HIDE DEF row
<1>4. v.branch = [c \in Branches |-> IF c = b THEN row ELSE w.branch[c]]
    BY <1>1, <1>3 DEF Shaped
<1>5. /\ v = [branch |-> v.branch, session |-> v.session, index |-> v.index]
      /\ v.session = w.session
      /\ v.index = [c \in DOMAIN w.index \cup {b} |-> IF c = b THEN msgs ELSE w.index[c]]
    BY DEF Changes
<1>6. Live(v) = Live(w)
    BY <1>1, <1>2, <1>4 DEF Live
<1>7. Shaped(v)
    BY <1>1, <1>2, <1>4, <1>5 DEF Shaped
<1>8. \A c \in Branches : v.branch[c].session = w.branch[c].session
    BY <1>2, <1>4
<1>9. Owned(v)
    BY <1>5, <1>6, <1>8 DEF Near, Owned, Live
<1>10. DOMAIN v.index = Live(v)
    BY <1>5, <1>6 DEF Near
<1>11. Mirrors(v)
    BY <1>2, <1>4, <1>5, <1>6, <1>10 DEF Near, Mirrors, Live
<1> QED BY <1>7, <1>9, <1>10, <1>11 DEF InStep

LEMMA IndexedIs ==
    ASSUME NEW w, Shaped(w), NEW b, NEW view
    PROVE  Indexed(w, b, view) =
              [branch |-> w.branch, session |-> w.session,
               index |-> [c \in DOMAIN w.index \cup {b} |-> IF c = b THEN view ELSE w.index[c]]]
    BY DEF Shaped, Indexed

LEMMA IndexedInStep ==
    ASSUME NEW w, NEW b, Near(w, b)
    PROVE  LET v == Indexed(w, b, View(w, b))
           IN  InStep(v) /\ v.branch = w.branch /\ v.session = w.session
<1>1. View(w, b) = w.branch[b].msgs /\ Shaped(w)
    BY ViewIsRow DEF Near
<1> DEFINE v   == Indexed(w, b, View(w, b))
           idx == [c \in DOMAIN w.index \cup {b} |-> IF c = b THEN View(w, b) ELSE w.index[c]]
<1>6. v = [branch |-> w.branch, session |-> w.session, index |-> idx]
    BY <1>1, IndexedIs, Zenon
<1> HIDE DEF v, idx
<1>2. v.branch = w.branch /\ v.session = w.session /\ v.index = idx
      /\ v = [branch |-> v.branch, session |-> v.session, index |-> v.index]
    BY <1>6
<1>3. Shaped(v) /\ Live(v) = Live(w)
    BY <1>1, <1>2 DEF Shaped, Live
<1>4. Owned(v) /\ DOMAIN v.index = Live(v)
    BY <1>2, <1>3 DEF Near, Owned, idx
<1>5. Mirrors(v)
    BY <1>1, <1>2 DEF Near, Mirrors, idx
<1> QED BY <1>2, <1>3, <1>4, <1>5 DEF InStep, v

LEMMA SyncedChanges ==
    ASSUME NEW w, NEW b, Near(w, b), NEW tail \in Seq(Msgs)
    PROVE  Changes(w, Synced(w, b, tail), b, w.branch[b].msgs \o tail, w.branch[b].turns)
<1> DEFINE old  == w.branch[b].msgs
           all  == old \o tail
           idx  == [c \in DOMAIN w.index \cup {b} |-> IF c = b THEN all ELSE w.index[c]]
           base == [branch |-> w.branch, session |-> w.session, index |-> idx]
           row  == [status |-> "live", session |-> w.branch[b].session,
                    msgs |-> all, turns |-> w.branch[b].turns]
<1>1. /\ View(w, b) = old /\ Shaped(w) /\ b \in Branches
      /\ w.branch[b] \in OpenRow /\ old \in Seq(Msgs) /\ w.branch[b].status = "live"
    BY ViewIsRow, RowOf DEF Near, Live
<1>2. Written(old, Len(old), tail) = all
    BY <1>1, WrittenAtEnd
<1>3. Indexed(w, b, all) = base
    BY <1>1, IndexedIs
<1>4. Synced(w, b, tail) = [base EXCEPT !.branch[b].msgs = Written(@, Len(old), tail)]
    BY <1>1, <1>3 DEF Synced
<1>5. base.branch[b].msgs = old
    OBVIOUS
<1>6. Synced(w, b, tail) = [base EXCEPT !.branch[b].msgs = all]
    BY <1>2, <1>4, <1>5, Zenon
<1> HIDE DEF idx, all
<1>7. [w.branch[b] EXCEPT !.msgs = all] = row
    BY <1>1 DEF OpenRow
<1>8. Synced(w, b, tail) = [branch |-> [w.branch EXCEPT ![b] = row], session |-> w.session, index |-> idx]
    BY <1>1, <1>6, <1>7
<1> QED BY <1>8 DEF Changes, idx, all

\* The turns of a row are set in the rows alone.
LEMMA TurnsSet ==
    ASSUME NEW w, NEW v, NEW b, b \in DOMAIN w.branch, NEW msgs, NEW old, NEW turns,
           Changes(w, v, b, msgs, old)
    PROVE  Changes(w, [v EXCEPT !.branch[b].turns = turns], b, msgs, turns)
<1> DEFINE row(T) == [status |-> "live", session |-> w.branch[b].session, msgs |-> msgs, turns |-> T]
           B == [w.branch EXCEPT ![b] = row(old)]
<1>1. v = [branch |-> B, session |-> w.session, index |-> v.index]
      /\ v.index = [c \in DOMAIN w.index \cup {b} |-> IF c = b THEN msgs ELSE w.index[c]]
    BY DEF Changes
<1>2. B[b] = row(old) /\ [row(old) EXCEPT !.turns = turns] = row(turns)
      /\ [B EXCEPT ![b] = row(turns)] = [w.branch EXCEPT ![b] = row(turns)]
    OBVIOUS
<1> HIDE DEF B, row
<1>3. [v EXCEPT !.branch[b].turns = turns] =
        [branch |-> [B EXCEPT ![b] = [row(old) EXCEPT !.turns = turns]], session |-> w.session,
         index |-> v.index]
    BY <1>1, <1>2
<1>4. [v EXCEPT !.branch[b].turns = turns] =
        [branch |-> [w.branch EXCEPT ![b] = row(turns)], session |-> w.session, index |-> v.index]
    BY <1>2, <1>3
<1> QED BY <1>1, <1>4 DEF Changes, row

LEMMA AppendedChanges ==
    ASSUME NEW w, NEW b, Near(w, b), NEW tail \in Seq(Msgs)
    PROVE  LET old == w.branch[b].msgs
               new == Players(old)..Players(old \o tail) - 1
           IN  Changes(w, Appended(w, b, tail), b, old \o tail, w.branch[b].turns \cup new)
<1> DEFINE old  == w.branch[b].msgs
           all  == old \o tail
           new  == Players(old)..Players(all) - 1
           syn  == Synced(w, b, tail)
<1>1. View(w, b) = old /\ b \in DOMAIN w.branch
    BY ViewIsRow DEF Near, Live, Shaped
<1>2. Changes(w, syn, b, all, w.branch[b].turns)
    BY SyncedChanges
<1>3. Appended(w, b, tail) = [syn EXCEPT !.branch[b].turns = @ \cup new]
    BY <1>1 DEF Appended
<1> HIDE DEF syn, new, all
<1>4. syn.branch[b].turns = w.branch[b].turns
    BY <1>1, <1>2 DEF Changes
<1>5. Appended(w, b, tail) = [syn EXCEPT !.branch[b].turns = w.branch[b].turns \cup new]
    BY <1>3, <1>4
<1> DEFINE had  == w.branch[b].turns
           both == had \cup new
<1>6. Appended(w, b, tail) = [syn EXCEPT !.branch[b].turns = both] /\ Changes(w, syn, b, all, had)
    BY <1>2, <1>5
<1> HIDE DEF both, had
<1>7. Changes(w, Appended(w, b, tail), b, all, both)
    BY <1>1, <1>6, TurnsSet
<1> QED BY <1>7 DEF new, all, both, had

LEMMA CutChanges ==
    ASSUME NEW w, NEW b, Near(w, b), NEW keep \in Nat
    PROVE  Changes(w, Cut(w, b, keep), b, First(w.branch[b].msgs, keep), w.branch[b].turns)
<1> DEFINE kept == First(w.branch[b].msgs, keep)
           idx  == [c \in DOMAIN w.index \cup {b} |-> IF c = b THEN kept ELSE w.index[c]]
           base == [branch |-> w.branch, session |-> w.session, index |-> idx]
           row  == [status |-> "live", session |-> w.branch[b].session,
                    msgs |-> kept, turns |-> w.branch[b].turns]
<1>1. /\ View(w, b) = w.branch[b].msgs /\ Shaped(w) /\ b \in Branches
      /\ w.branch[b] \in OpenRow /\ w.branch[b].status = "live"
    BY ViewIsRow, RowOf DEF Near, Live
<1>2. Indexed(w, b, First(View(w, b), keep)) = base
    BY <1>1, IndexedIs
<1> HIDE DEF idx
<1>3. Cut(w, b, keep) = [base EXCEPT !.branch[b].msgs = First(@, keep)]
    BY <1>1, <1>2 DEF Cut
<1>4. [w.branch[b] EXCEPT !.msgs = kept] = row
    BY <1>1 DEF OpenRow
<1>5. Cut(w, b, keep) = [branch |-> [w.branch EXCEPT ![b] = row], session |-> w.session, index |-> idx]
    BY <1>1, <1>3, <1>4
<1> QED BY <1>5 DEF Changes, idx

-----------------------------------------------------------------------------
(* New sessions and copies *)

Unused(w) == {b \in Branches : w.branch[b].status = "none"}
Vacant(w) == {s \in Sessions : w.session[s].status = "none"}

LEMMA FreshIs ==
    ASSUME NEW w
    PROVE  /\ Unused(w) # {} => FreshBranch(w) \in Unused(w)
           /\ Vacant(w) # {} => FreshSession(w) \in Vacant(w)
    BY DEF Unused, Vacant, FreshBranch, FreshSession

\* Branches beside a set are never all, as long as one more than those that are in use is.
LEMMA IdsAreLeft ==
    ASSUME NEW k \in {1, 2}, Ids(k)
    PROVE  /\ Vacant(Now) # {} /\ Unused(Now) # {}
           /\ k = 2 => \A b : Unused(Now) \ {b} # {}
<1>1. IsFiniteSet(Branches)
    <2>1. 1 \in Int /\ MaxBranches \in Int
        BY ResolutionAssumption
    <2> QED BY <2>1, FS_Interval DEF Branches
<1>2. IsFiniteSet(Unused(Now)) /\ Cardinality(Unused(Now)) >= k
    BY <1>1, FS_Subset DEF Unused, Now, Ids
<1>3. Unused(Now) # {}
    BY <1>2, FS_EmptySet
<1>4. ASSUME k = 2, NEW b PROVE Unused(Now) \ {b} # {}
    <2>1. /\ Cardinality(Unused(Now)) \in Nat
          /\ IsFiniteSet(Unused(Now) \ {b}) /\ Cardinality(Unused(Now) \ {b}) \in Nat
          /\ \/ Cardinality(Unused(Now) \ {b}) = Cardinality(Unused(Now)) - 1
             \/ Cardinality(Unused(Now) \ {b}) = Cardinality(Unused(Now))
        BY <1>2, FS_CardinalityType, FS_RemoveElement
    <2>2. Cardinality(Unused(Now) \ {b}) >= 1
        BY <1>2, <1>4, <2>1
    <2> QED BY <2>1, <2>2, FS_EmptySet
<1> QED BY <1>3, <1>4 DEF Vacant, Now, Ids

\* From w to v, a session comes into being with one branch; what was live stays as it is.
Founds(w, v, b, s, x, msgs, turns) ==
    /\ v = [branch |-> v.branch, session |-> v.session, index |-> v.index]
    /\ v.branch \in [Branches -> OpenRow] /\ b \in Branches \ Live(w)
    /\ \A c \in Branches \ {b} : v.branch[c] = w.branch[c] \/ (c \notin Live(w) /\ v.branch[c].status = "none")
    /\ v.branch[b] = [status |-> "live", session |-> s, msgs |-> msgs, turns |-> turns]
    /\ s \in Vacant(w)
    /\ v.session = [w.session EXCEPT ![s] = [status |-> "open", ext |-> x, active |-> b]]

LEMMA FoundsOwned ==
    ASSUME NEW w, Shaped(w), Owned(w), NEW v, NEW b, NEW s, NEW x \in Externals \cup {NoId},
           NEW msgs, NEW turns, Founds(w, v, b, s, x, msgs, turns)
    PROVE  /\ Shaped(v) /\ Owned(v) /\ Live(v) = Live(w) \cup {b}
           /\ \A c \in Live(w) : v.branch[c] = w.branch[c]
           /\ \A t \in Sessions : t # s => v.session[t] = w.session[t]
<1>1. /\ b \in Branches /\ b \notin Live(w) /\ v.branch[b].status = "live" /\ v.branch[b].session = s
      /\ s \in Sessions /\ w.session[s].status = "none"
      /\ \A c \in Branches \ {b} : v.branch[c] = w.branch[c] \/ (c \notin Live(w) /\ v.branch[c].status = "none")
    BY DEF Founds, Vacant
<1>2. Live(v) = Live(w) \cup {b} /\ \A c \in Live(w) : v.branch[c] = w.branch[c]
    BY <1>1 DEF Live
<1>3. [status |-> "open", ext |-> x, active |-> b] \in SessionRow
    BY <1>1, ResolutionAssumption DEF SessionRow, Branches
<1>4. v.session = [t \in Sessions |-> IF t = s THEN [status |-> "open", ext |-> x, active |-> b]
                                               ELSE w.session[t]]
    BY DEF Founds, Shaped
<1>5. Shaped(v)
    BY <1>3, <1>4 DEF Founds, Shaped
<1>6. v.session[s].status = "open" /\ v.session[s].active = b
    BY <1>1, <1>4
<1>7. \A t \in Sessions : t # s => v.session[t] = w.session[t]
    BY <1>4
<1>8. Owned(v)
    BY <1>1, <1>2, <1>6, <1>7 DEF Owned
<1> QED BY <1>2, <1>5, <1>7, <1>8

LEMMA NewRowIs ==
    ASSUME NEW s
    PROVE  [NoBranch EXCEPT !.status = "live", !.session = s] =
              [status |-> "live", session |-> s, msgs |-> <<>>, turns |-> {}]
<1>1. ASSUME NEW e, NEW T
      PROVE  [[status |-> "none", session |-> 0, msgs |-> e, turns |-> T] EXCEPT !.status = "live"] =
             [status |-> "live", session |-> 0, msgs |-> e, turns |-> T]
    OBVIOUS
<1>2. ASSUME NEW e, NEW T
      PROVE  [[status |-> "live", session |-> 0, msgs |-> e, turns |-> T] EXCEPT !.session = s] =
             [status |-> "live", session |-> s, msgs |-> e, turns |-> T]
    OBVIOUS
<1> QED BY <1>1, <1>2 DEF NoBranch

LEMMA CreatedFounds ==
    ASSUME NEW w, Shaped(w), NEW x \in Externals \cup {NoId}, Unused(w) # {}, Vacant(w) # {}
    PROVE  /\ Founds(w, Created(w, x), FreshBranch(w), FreshSession(w), x, <<>>, {})
           /\ Created(w, x).index = w.index /\ FreshBranch(w) \in Unused(w)
           /\ \A c \in Branches \ {FreshBranch(w)} : Created(w, x).branch[c] = w.branch[c]
<1> DEFINE b == FreshBranch(w)
           s == FreshSession(w)
           v == Created(w, x)
           row == [NoBranch EXCEPT !.status = "live", !.session = s]
           sess == [status |-> "open", ext |-> x, active |-> b]
<1>1. b \in Unused(w) /\ s \in Vacant(w)
    BY FreshIs
<1>2. v = [w EXCEPT !.branch[b] = row, !.session[s] = sess]
    BY DEF Created
<1>3. row = [status |-> "live", session |-> s, msgs |-> <<>>, turns |-> {}]
    BY NewRowIs
<1> HIDE DEF b, s, v, row, sess
<1>4. v = [branch |-> [w.branch EXCEPT ![b] = row], session |-> [w.session EXCEPT ![s] = sess],
           index |-> w.index]
    BY <1>2 DEF Shaped
<1>5. s \in Sessions /\ b \in Branches /\ b \notin Live(w)
    BY <1>1 DEF Vacant, Unused, Live
<1>6. row \in OpenRow
    BY <1>3, <1>5, ResolutionAssumption, EmptySeq DEF OpenRow, Sessions
<1>7. v.branch = [c \in Branches |-> IF c = b THEN row ELSE w.branch[c]]
    BY <1>4, <1>5 DEF Shaped
<1>8. Founds(w, v, b, s, x, <<>>, {})
    BY <1>1, <1>3, <1>4, <1>5, <1>6, <1>7 DEF Founds, Shaped, sess
<1>9. v.index = w.index /\ \A c \in Branches \ {b} : v.branch[c] = w.branch[c]
    BY <1>4, <1>7
<1> QED BY <1>1, <1>8, <1>9 DEF v, b, s

\* A new session is in step once its branch is in the memory.
LEMMA CreatedIsNear ==
    ASSUME NEW w, InStep(w), NEW x \in Externals \cup {NoId}, Unused(w) # {}, Vacant(w) # {}
    PROVE  LET v == Created(w, x)
           IN  /\ Near(v, FreshBranch(w)) /\ Live(v) = Live(w) \cup {FreshBranch(w)}
               /\ \A c \in Live(w) : v.branch[c] = w.branch[c]
               /\ \A t \in Sessions : t # FreshSession(w) => v.session[t] = w.session[t]
<1> DEFINE b == FreshBranch(w)
           s == FreshSession(w)
           v == Created(w, x)
           none == {}
           empty == <<>>
<1>1. Shaped(w) /\ Owned(w) /\ Mirrors(w) /\ DOMAIN w.index = Live(w)
    BY DEF InStep
<1>2. Founds(w, v, b, s, x, empty, none) /\ v.index = w.index
    BY <1>1, CreatedFounds
<1> HIDE DEF b, s, v, none, empty
<1>3. /\ Shaped(v) /\ Owned(v) /\ Live(v) = Live(w) \cup {b}
      /\ \A c \in Live(w) : v.branch[c] = w.branch[c]
    BY <1>1, <1>2, FoundsOwned
<1>4. \A t \in Sessions : t # s => v.session[t] = w.session[t]
    BY <1>2 DEF Founds, Shaped
<1> QED BY <1>1, <1>2, <1>3, <1>4 DEF Near, Mirrors, b, v, s

LEMMA CopyIs ==
    ASSUME NEW row \in OpenRow, NEW view \in Seq(Msgs), NEW at \in Nat, NEW s \in Sessions
    PROVE  /\ Copy(row, view, at, s) \in OpenRow
           /\ Copy(row, view, at, s) =
                [status |-> "live", session |-> s, msgs |-> First(row.msgs, at),
                 turns |-> Copy(row, view, at, s).turns]
           /\ Copy(row, view, at, s).turns \subseteq row.turns
<1>1. First(row.msgs, at) \in Seq(Msgs) /\ row.turns \in SUBSET Nat
    BY FirstProperties DEF OpenRow
<1>2. s \in 0..MaxSessions
    BY ResolutionAssumption DEF Sessions
<1> QED BY <1>1, <1>2 DEF Copy, OpenRow

\* A copy into a session of its own takes the place of the branch that session came with.
LEMMA CopiedIs ==
    ASSUME NEW w, InStep(w), NEW b \in Live(w), NEW at \in Nat, NEW x \in Externals \cup {NoId},
           Vacant(w) # {}, \A d : Unused(w) \ {d} # {}
    PROVE  \E c \in Unused(w), s \in Vacant(w) :
              LET u == Copied(w, b, at, x)
                  row == Copy(w.branch[b], w.branch[b].msgs, at, s)
              IN  InStep(u) /\ Founds(w, u, c, s, x, First(w.branch[b].msgs, at), row.turns)
<1> DEFINE v  == Created(w, x)
           a  == FreshBranch(w)
           s  == FreshSession(w)
           c  == FreshBranch(v)
           u  == Copied(w, b, at, x)
           msgs == w.branch[b].msgs
           row  == Copy(w.branch[b], msgs, at, s)
           sess == [status |-> "open", ext |-> x, active |-> c]
           idx  == [d \in DOMAIN w.index \cup {c} |-> IF d = c THEN First(msgs, at) ELSE w.index[d]]
<1>1. /\ Shaped(w) /\ Owned(w) /\ Mirrors(w) /\ DOMAIN w.index = Live(w)
      /\ b \in Branches /\ Unused(w) # {}
    BY DEF InStep, Live
<1>2. w.branch[b] \in OpenRow /\ msgs \in Seq(Msgs)
    BY <1>1, RowOf
<1>3. View(w, b) = msgs
    BY InStepIsNear, ViewIsRow
<1>4. /\ Founds(w, v, a, s, x, <<>>, {}) /\ v.index = w.index /\ a \in Unused(w) /\ s \in Vacant(w)
      /\ \A d \in Branches \ {a} : v.branch[d] = w.branch[d]
    BY <1>1, CreatedFounds, FreshIs
<1>5. u = Indexed([v EXCEPT !.branch = [@ EXCEPT ![c] = row, ![a] = NoBranch],
                            !.session[s].active = c], c, First(msgs, at))
    BY <1>3 DEF Copied
<1>6. Unused(v) = Unused(w) \ {a} /\ v.branch[a].status = "live"
    BY <1>4 DEF Unused, Founds
<1>7. c \in Unused(v)
    BY <1>6, FreshIs
<1>8. c \in Unused(w) /\ c # a /\ c \in Branches /\ a \in Branches /\ s \in Sessions
    BY <1>4, <1>6, <1>7 DEF Unused, Vacant
<1>9. row \in OpenRow /\ row = [status |-> "live", session |-> s, msgs |-> First(msgs, at), turns |-> row.turns]
    BY <1>2, <1>8, CopyIs DEF OpenRow
<1>10. NoBranch \in OpenRow /\ NoBranch.status = "none"
    BY ResolutionAssumption, EmptySeq DEF NoBranch, OpenRow
<1> DEFINE B == [d \in Branches |-> IF d = a THEN NoBranch ELSE IF d = c THEN row ELSE w.branch[d]]
           S == [w.session EXCEPT ![s] = sess]
<1>11. [v.branch EXCEPT ![c] = row, ![a] = NoBranch] = B
    <2>1. v.branch = [d \in Branches |-> v.branch[d]]
        BY <1>4 DEF Founds
    <2> HIDE DEF row, v, c, a
    <2> QED BY <1>4, <1>8, <2>1
<1>12. [v.session EXCEPT ![s].active = c] = S
    <2>1. v.session = [w.session EXCEPT ![s] = [status |-> "open", ext |-> x, active |-> a]]
        BY <1>4 DEF Founds
    <2>2. v.session[s] = [status |-> "open", ext |-> x, active |-> a]
        BY <1>1, <1>8, <2>1 DEF Shaped
    <2>3. [v.session[s] EXCEPT !.active = c] = sess
        BY <2>2
    <2> HIDE DEF sess, v, c, s
    <2> QED BY <2>1, <2>3
<1>13. v = [branch |-> v.branch, session |-> v.session, index |-> w.index]
    BY <1>4 DEF Founds
<1> HIDE DEF u, v, a, s, c, row, idx, sess, msgs
<1>15. B \in [Branches -> OpenRow]
    BY <1>1, <1>9, <1>10 DEF Shaped
<1> HIDE DEF B, S
<1>14. [v EXCEPT !.branch = [@ EXCEPT ![c] = row, ![a] = NoBranch], !.session[s].active = c] =
         [branch |-> B, session |-> S, index |-> w.index]
    <2>1. [v EXCEPT !.branch = B] = [branch |-> B, session |-> v.session, index |-> w.index]
        BY <1>13
    <2>2. ASSUME NEW q
          PROVE  [[branch |-> B, session |-> q, index |-> w.index] EXCEPT !.session = S] =
                 [branch |-> B, session |-> S, index |-> w.index]
        OBVIOUS
    <2>3. [v EXCEPT !.branch = B, !.session = S] = [branch |-> B, session |-> S, index |-> w.index]
        BY <2>1, <2>2
    <2> QED BY <1>11, <1>12, <2>3
<1>16. u = [branch |-> B, session |-> S, index |-> idx]
    BY <1>5, <1>14 DEF Indexed, idx
<1>17. Founds(w, u, c, s, x, First(msgs, at), row.turns)
    <2>1. c \in Branches \ Live(w) /\ a \notin Live(w)
        BY <1>4, <1>8 DEF Unused, Live
    <2>2. B[c] = row /\ \A d \in Branches \ {c} : B[d] = w.branch[d] \/ (d = a /\ B[d].status = "none")
        BY <1>8, <1>10 DEF B
    <2> QED BY <1>4, <1>9, <1>15, <1>16, <2>1, <2>2 DEF Founds, S, sess
<1>18. /\ Shaped(u) /\ Owned(u) /\ Live(u) = Live(w) \cup {c}
       /\ \A d \in Live(w) : u.branch[d] = w.branch[d]
    BY <1>1, <1>17, FoundsOwned
<1>19. u.branch[c].msgs = First(msgs, at)
    BY <1>17 DEF Founds
<1>20. InStep(u)
    BY <1>1, <1>16, <1>18, <1>19 DEF InStep, Mirrors, idx
<1> QED BY <1>4, <1>8, <1>17, <1>20 DEF u, s, row, msgs

\* A copy that replaces its source takes its place in the session and in the memory.
LEMMA ReplacedIs ==
    ASSUME NEW w, InStep(w), NEW b \in Live(w), NEW at \in Nat, Unused(w) # {}
    PROVE  LET u == Replaced(w, b, at)
               c == FreshBranch(w)
               s == w.branch[b].session
           IN  /\ InStep(u) /\ c \in Unused(w) /\ c \in Live(u)
               /\ u.branch[c] = Copy(w.branch[b], w.branch[b].msgs, at, s)
               /\ u.branch[b].msgs = w.branch[b].msgs /\ Live(u) = (Live(w) \ {b}) \cup {c}
               /\ \A d \in Branches \ {b, c} : u.branch[d] = w.branch[d]
               /\ \A t \in Sessions : u.session[t].ext = w.session[t].ext
<1> DEFINE c == FreshBranch(w)
           s == w.branch[b].session
           u == Replaced(w, b, at)
           msgs == w.branch[b].msgs
           row  == Copy(w.branch[b], msgs, at, s)
           dead == [w.branch[b] EXCEPT !.status = "dead"]
           sess == [w.session[s] EXCEPT !.active = c]
           idx  == [d \in (DOMAIN w.index \ {b}) \cup {c} |->
                        IF d = c THEN First(msgs, at) ELSE w.index[d]]
<1>1. /\ Shaped(w) /\ Owned(w) /\ Mirrors(w) /\ DOMAIN w.index = Live(w)
      /\ b \in Branches /\ c \in Unused(w) /\ c \in Branches /\ c # b
    BY FreshIs DEF InStep, Live, Unused
<1>2. /\ w.branch[b] \in OpenRow /\ msgs \in Seq(Msgs) /\ View(w, b) = msgs
      /\ s \in Sessions /\ w.session[s].status = "open" /\ w.session[s].active = b
      /\ w.session[s] \in SessionRow
    BY <1>1, RowOf, InStepIsNear, ViewIsRow DEF Owned, Shaped
<1>3. row \in OpenRow /\ row = [status |-> "live", session |-> s, msgs |-> First(msgs, at), turns |-> row.turns]
    BY <1>1, <1>2, CopyIs DEF OpenRow
<1>4. dead \in OpenRow /\ dead.status = "dead" /\ dead.msgs = msgs /\ dead.session = s
    BY <1>2 DEF OpenRow
<1>5. sess \in SessionRow /\ sess.status = "open" /\ sess.active = c /\ sess.ext = w.session[s].ext
    BY <1>1, <1>2, ResolutionAssumption DEF SessionRow, Branches
<1>6. u = [w EXCEPT !.branch[c] = row, !.branch[b].status = "dead", !.session[s].active = c, !.index = idx]
    BY <1>1, <1>2 DEF Replaced
<1> DEFINE B == [d \in Branches |-> IF d = b THEN dead ELSE IF d = c THEN row ELSE w.branch[d]]
           S == [t \in Sessions |-> IF t = s THEN sess ELSE w.session[t]]
<1>7. [[w.branch EXCEPT ![c] = row] EXCEPT ![b].status = "dead"] = B
    <2>1. [w.branch EXCEPT ![c] = row][b] = w.branch[b]
        BY <1>1 DEF Shaped
    <2> HIDE DEF row, c
    <2> QED BY <1>1, <2>1 DEF Shaped
<1>8. [w.session EXCEPT ![s].active = c] = S
    BY <1>1, <1>2 DEF Shaped
<1> HIDE DEF u, c, s, row, idx, sess, dead, msgs
<1>9. u = [branch |-> [[w.branch EXCEPT ![c] = row] EXCEPT ![b].status = "dead"],
           session |-> [w.session EXCEPT ![s].active = c], index |-> idx]
    BY <1>1, <1>6 DEF Shaped
<1>10. u = [branch |-> B, session |-> S, index |-> idx]
    BY <1>7, <1>8, <1>9
<1>11. B \in [Branches -> OpenRow] /\ S \in [Sessions -> SessionRow]
    BY <1>1, <1>3, <1>4, <1>5 DEF Shaped
<1>12. B[c] = row /\ B[b] = dead /\ \A d \in Branches \ {b, c} : B[d] = w.branch[d]
    BY <1>1
<1>13. S[s] = sess /\ \A t \in Sessions \ {s} : S[t] = w.session[t]
    BY <1>2
<1> HIDE DEF B, S
<1>14. u.branch = B /\ u.session = S /\ u.index = idx /\ Shaped(u)
    BY <1>10, <1>11 DEF Shaped
<1>15. Live(u) = (Live(w) \ {b}) \cup {c}
    BY <1>1, <1>3, <1>4, <1>12, <1>14 DEF Live, Unused
<1>16. \A d \in Live(w) \ {b} : w.branch[d].session # s /\ d # c
    BY <1>1, <1>2 DEF Owned, Live, Unused
<1>17. Owned(u)
    <2>1. \A d \in Live(w) \ {b} : u.branch[d] = w.branch[d] /\ d \in Branches
        BY <1>12, <1>14, <1>16 DEF Live
    <2>2. u.branch[c].session = s /\ u.session[s].status = "open" /\ u.session[s].active = c
        BY <1>3, <1>5, <1>12, <1>13, <1>14
    <2>3. ASSUME NEW d \in Live(u)
          PROVE  LET t == u.branch[d].session
                 IN  t \in Sessions /\ u.session[t].status = "open" /\ u.session[t].active = d
        <3>1. CASE d = c
            BY <1>2, <2>2, <3>1
        <3>2. CASE d \in Live(w) \ {b}
            BY <1>1, <1>13, <1>14, <1>16, <2>1, <3>2 DEF Owned
        <3> QED BY <1>15, <3>1, <3>2
    <2>4. ASSUME NEW t \in Sessions, u.session[t].status = "open"
          PROVE  u.session[t].active \in Live(u) /\ u.branch[u.session[t].active].session = t
        <3>1. CASE t = s
            BY <1>15, <2>2, <3>1
        <3>2. CASE t # s
            <4>1. u.session[t] = w.session[t]
                BY <1>13, <1>14, <3>2
            <4>2. w.session[t].active \in Live(w) /\ w.branch[w.session[t].active].session = t
                BY <1>1, <2>4, <4>1 DEF Owned
            <4>3. w.session[t].active # b
                BY <3>2, <4>2 DEF s
            <4> QED BY <1>15, <2>1, <4>1, <4>2, <4>3
        <3> QED BY <3>1, <3>2
    <2> QED BY <2>3, <2>4 DEF Owned
<1>18. Mirrors(u) /\ DOMAIN u.index = Live(u)
    <2>1. u.branch[c].msgs = First(msgs, at)
        BY <1>3, <1>12, <1>14
    <2>2. \A d \in Live(w) \ {b} : u.branch[d] = w.branch[d]
        BY <1>12, <1>14, <1>16 DEF Live
    <2> QED BY <1>1, <1>14, <1>15, <2>1, <2>2 DEF Mirrors, idx
<1>19. \A t \in Sessions : u.session[t].ext = w.session[t].ext
    BY <1>5, <1>13, <1>14
<1> QED BY <1>1, <1>4, <1>12, <1>14, <1>15, <1>17, <1>18, <1>19 DEF InStep, u, c, s, row, msgs

LEMMA RelinkedIs ==
    ASSUME InStep(Now), NEW s \in Sessions, session[s].status = "open", NEW x \in Externals
    PROVE  LET u == Relinked(s, x)
           IN  /\ InStep(u) /\ u.branch = branch /\ u.index = index
               /\ u.session = [session EXCEPT ![s].ext = x]
               /\ u.session[s].status = "open" /\ u.session[s].ext = x
               /\ u.session[s].active = session[s].active
<1> DEFINE u == Relinked(s, x)
           sess == [session[s] EXCEPT !.ext = x]
<1>1. /\ Now.branch = branch /\ Now.session = session /\ Now.index = index
      /\ Shaped(Now) /\ Owned(Now) /\ Mirrors(Now) /\ DOMAIN index = Live(Now)
    BY DEF Now, InStep
<1>2. u = [branch |-> branch, session |-> [session EXCEPT ![s].ext = x], index |-> index]
    BY DEF Relinked, Now
<1>3. /\ sess \in SessionRow /\ sess.status = "open" /\ sess.ext = x
      /\ sess.active = session[s].active
    BY <1>1 DEF Shaped, SessionRow
<1>4. [session EXCEPT ![s].ext = x] = [t \in Sessions |-> IF t = s THEN sess ELSE session[t]]
    BY <1>1 DEF Shaped
<1> HIDE DEF u, sess
<1>5. Shaped(u) /\ Live(u) = Live(Now)
    BY <1>1, <1>2, <1>3, <1>4 DEF Shaped, Live
<1>6. \A t \in Sessions : u.session[t].status = session[t].status /\ u.session[t].active = session[t].active
    BY <1>2, <1>3, <1>4
<1>7. Owned(u) /\ Mirrors(u)
    BY <1>1, <1>2, <1>5, <1>6 DEF Owned, Mirrors
<1>8. /\ u.branch = branch /\ u.index = index /\ u.session = [session EXCEPT ![s].ext = x]
      /\ u.session[s].status = "open" /\ u.session[s].ext = x
      /\ u.session[s].active = session[s].active
    BY <1>2, <1>3, <1>4
<1>9. InStep(u)
    BY <1>1, <1>5, <1>7, <1>8 DEF InStep
<1> QED BY <1>8, <1>9, Zenon DEF u

-----------------------------------------------------------------------------
(* Recognition *)

LEMMA CommonIsThere ==
    ASSUME NEW S, NEW s \in Seq(S), NEW t \in Seq(S)
    PROVE  Common(s, t) \in 0..Lesser(Len(s), Len(t))
<1> DEFINE L == Lesser(Len(s), Len(t))
           A == {n \in 0..L : First(s, n) = First(t, n)}
<1>1. L \in Nat /\ L <= Len(s) /\ L <= Len(t) /\ Len(s) \in Nat /\ Len(t) \in Nat
    BY LenProperties DEF Lesser
<1>2. 0 \in A
    <2>1. First(s, 0) \in Seq(S) /\ Len(First(s, 0)) = 0 /\ First(t, 0) \in Seq(S) /\ Len(First(t, 0)) = 0
        BY <1>1, FirstProperties DEF Lesser
    <2>2. First(s, 0) = First(t, 0)
        BY <2>1, SeqEqual
    <2> QED BY <1>1, <2>2
<1>3. A \in SUBSET (0..L) /\ A # {}
    BY <1>2
<1> HIDE DEF A, L
<1>4. PICK n \in A : \A k \in A : k <= n
    BY <1>1, <1>3, LastNatural
<1>5. n \in 0..L /\ First(s, n) = First(t, n)
    BY <1>4 DEF A
<1>6. n < L => s[n + 1] # t[n + 1]
    <2> SUFFICES ASSUME n < L, s[n + 1] = t[n + 1] PROVE FALSE
        OBVIOUS
    <2>1. n \in Nat /\ n + 1 \in Nat /\ n + 1 <= L
        BY <1>1, <1>5
    <2>2. /\ First(s, n + 1) \in Seq(S) /\ Len(First(s, n + 1)) = n + 1
          /\ \A i \in 1..(n + 1) : First(s, n + 1)[i] = s[i]
          /\ \A i \in 1..n : First(s, n)[i] = s[i]
        <3>1. Lesser(n + 1, Len(s)) = n + 1 /\ Lesser(n, Len(s)) = n
            BY <1>1, <2>1 DEF Lesser
        <3> QED BY <2>1, <3>1, FirstProperties
    <2>3. /\ First(t, n + 1) \in Seq(S) /\ Len(First(t, n + 1)) = n + 1
          /\ \A i \in 1..(n + 1) : First(t, n + 1)[i] = t[i]
          /\ \A i \in 1..n : First(t, n)[i] = t[i]
        <3>1. Lesser(n + 1, Len(t)) = n + 1 /\ Lesser(n, Len(t)) = n
            BY <1>1, <2>1 DEF Lesser
        <3> QED BY <2>1, <3>1, FirstProperties
    <2>4. \A i \in 1..(n + 1) : i \in 1..n \/ i = n + 1
        BY <2>1
    <2>5. \A i \in 1..(n + 1) : First(s, n + 1)[i] = First(t, n + 1)[i]
        BY <1>5, <2>2, <2>3, <2>4
    <2>6. First(s, n + 1) = First(t, n + 1)
        BY <2>2, <2>3, <2>5, SeqEqual
    <2>7. n + 1 \in A
        BY <1>1, <2>1, <2>6 DEF A
    <2> QED BY <1>4, <2>1, <2>7
<1> QED BY <1>5, <1>6 DEF Common, L

LEMMA AlignedIsThere ==
    ASSUME NEW S, NEW s \in Seq(S), NEW t \in Seq(S), NEW p \in 0..Len(s)
    PROVE  Aligned(s, p, t) \in Nat
<1> DEFINE L == Lesser(Len(s) - p, Len(t))
           A == {n \in 0..L : \A j \in 1..n : s[p + j].text = t[j].text}
<1>1. L \in Nat
    BY LenProperties DEF Lesser
<1>2. A \in SUBSET (0..L) /\ A # {}
    <2>1. 0 \in A
        BY <1>1
    <2> QED BY <2>1
<1> HIDE DEF A, L
<1>3. PICK n \in A : \A k \in A : k <= n
    BY <1>1, <1>2, LastNatural
<1>4. n \in 0..L /\ \A j \in 1..n : s[p + j].text = t[j].text
    BY <1>3 DEF A
<1>5. n < L => s[p + n + 1].text # t[n + 1].text
    <2> SUFFICES ASSUME n < L, s[p + n + 1].text = t[n + 1].text PROVE FALSE
        OBVIOUS
    <2>1. n \in Nat /\ n + 1 \in 0..L /\ p \in Int
        BY <1>1, <1>4
    <2>2. \A j \in 1..(n + 1) : j \in 1..n \/ j = n + 1
        BY <2>1
    <2>3. p + (n + 1) = p + n + 1
        BY <2>1
    <2>4. n + 1 \in A
        BY <1>4, <2>1, <2>2, <2>3 DEF A
    <2> QED BY <1>3, <2>1, <2>4
<1>6. Aligned(s, p, t) \in 0..L
    BY <1>4, <1>5 DEF Aligned, L
<1> QED BY <1>1, <1>6

\* A match lies in a live branch, and starts and ends at a message.
LEMMA MatchesAre ==
    ASSUME InStep(Now), NEW canon \in Seq(Msgs), NEW m \in Matches(canon)
    PROVE  m.at \in Live(Now) /\ m.off \in Nat /\ m.run \in Nat /\ Upto(m) \in Nat
<1> DEFINE prefix == {[at |-> b, off |-> 0, run |-> Common(index[b], canon)] : b \in DOMAIN index}
           slid   == UNION {{[at |-> b, off |-> p, run |-> Aligned(index[b], p, canon)] :
                                p \in 0..Len(index[b]) - 1} : b \in DOMAIN index}
<1>1. \A b \in DOMAIN index : b \in Live(Now) /\ index[b] \in Seq(Msgs)
    BY RowOf DEF InStep, Now, Mirrors, Live
<1>2. m \in prefix \cup slid
    BY DEF Matches, Best
<1>3. CASE m \in prefix
    <2>1. PICK b \in DOMAIN index : m = [at |-> b, off |-> 0, run |-> Common(index[b], canon)]
        BY <1>3
    <2>2. Common(index[b], canon) \in Nat
        <3>1. Common(index[b], canon) \in 0..Lesser(Len(index[b]), Len(canon))
            BY <1>1, CommonIsThere
        <3>2. Lesser(Len(index[b]), Len(canon)) \in Nat
            BY <1>1, LenProperties DEF Lesser
        <3> QED BY <3>1, <3>2
    <2> QED BY <1>1, <2>1, <2>2 DEF Upto
<1>4. CASE m \in slid
    <2>1. PICK b \in DOMAIN index : \E p \in 0..Len(index[b]) - 1 :
                m = [at |-> b, off |-> p, run |-> Aligned(index[b], p, canon)]
        BY <1>4
    <2>2. PICK p \in 0..Len(index[b]) - 1 :
                m = [at |-> b, off |-> p, run |-> Aligned(index[b], p, canon)]
        BY <2>1
    <2>3. Len(index[b]) \in Nat
        BY <1>1, LenProperties
    <2>4. p \in 0..Len(index[b]) /\ p \in Nat
        BY <2>3
    <2>5. Aligned(index[b], p, canon) \in Nat
        BY <1>1, <2>4, AlignedIsThere
    <2> QED BY <1>1, <2>2, <2>4, <2>5 DEF Upto
<1> QED BY <1>2, <1>3, <1>4

-----------------------------------------------------------------------------
(* Turns and messages of the Player *)

Spoken(s) == {i \in DOMAIN s : s[i].role = "user"}

LEMMA PlayersAre ==
    ASSUME NEW s \in Seq(Msgs)
    PROVE  IsFiniteSet(Spoken(s)) /\ Players(s) = Cardinality(Spoken(s)) /\ Players(s) \in Nat
<1>1. IsFiniteSet(1..Len(s)) /\ DOMAIN s = 1..Len(s)
    <2>1. 1 \in Int /\ Len(s) \in Int
        BY LenProperties
    <2> QED BY <2>1, FS_Interval, LenProperties
<1>2. Spoken(s) \in SUBSET (1..Len(s))
    BY <1>1 DEF Spoken
<1> QED BY <1>1, <1>2, FS_Subset, FS_CardinalityType DEF Players, Spoken

\* A transcript that goes on has no fewer messages of the Player, and as many where the messages
\* it goes on with are not theirs.
LEMMA PlayersGrow ==
    ASSUME NEW s \in Seq(Msgs), NEW t \in Seq(Msgs), Len(s) <= Len(t),
           \A i \in 1..Len(s) : t[i] = s[i]
    PROVE  /\ Players(s) <= Players(t)
           /\ (\A i \in 1..Len(t) : i > Len(s) => t[i].role # "user") => Players(s) = Players(t)
<1>1. /\ Len(s) \in Nat /\ Len(t) \in Nat /\ DOMAIN s = 1..Len(s) /\ DOMAIN t = 1..Len(t)
    BY LenProperties
<1>2. Spoken(s) \in SUBSET Spoken(t)
    BY <1>1 DEF Spoken
<1>3. (\A i \in 1..Len(t) : i > Len(s) => t[i].role # "user") => Spoken(s) = Spoken(t)
    BY <1>1 DEF Spoken
<1> QED BY <1>2, <1>3, PlayersAre, FS_Subset

LEMMA PlayersOfConcat ==
    ASSUME NEW s \in Seq(Msgs), NEW t \in Seq(Msgs)
    PROVE  Players(s) <= Players(s \o t)
<1> DEFINE all == s \o t
<1>1. all \in Seq(Msgs) /\ Len(all) = Len(s) + Len(t) /\ Len(s) \in Nat /\ Len(t) \in Nat
    BY ConcatProperties, LenProperties
<1>2. \A i \in 1..Len(s) : all[i] = s[i]
    BY <1>1, ConcatProperties
<1> HIDE DEF all
<1>3. Len(s) <= Len(all)
    BY <1>1
<1>4. Players(s) <= Players(all)
    BY <1>1, <1>2, <1>3, PlayersGrow
<1> QED BY <1>4 DEF all

LEMMA PlayersOfFirst ==
    ASSUME NEW s \in Seq(Msgs), NEW n \in Nat
    PROVE  /\ Players(First(s, n)) <= Players(s)
           /\ s # <<>> /\ n = Len(s) - 1 /\ Tip(s).role # "user" => Players(First(s, n)) = Players(s)
<1>1. /\ First(s, n) \in Seq(Msgs) /\ Len(First(s, n)) = Lesser(n, Len(s))
      /\ Lesser(n, Len(s)) <= Len(s) /\ Len(s) \in Nat
      /\ \A i \in 1..Lesser(n, Len(s)) : First(s, n)[i] = s[i]
    <2>1. Len(s) \in Nat
        BY LenProperties
    <2>2. Lesser(n, Len(s)) <= Len(s)
        BY <2>1 DEF Lesser
    <2> QED BY <2>1, <2>2, FirstProperties
<1>2. s # <<>> /\ n = Len(s) - 1 /\ Tip(s).role # "user" =>
        \A i \in 1..Len(s) : i > Len(First(s, n)) => s[i].role # "user"
    BY <1>1 DEF Lesser, Tip
<1> QED BY <1>1, <1>2, PlayersGrow

LEMMA NobodySpoke == <<>> \in Seq(Msgs) /\ Players(<<>>) = 0
<1>1. <<>> \in Seq(Msgs) /\ Len(<<>>) = 0
    BY EmptySeq
<1>2. Spoken(<<>>) = {}
    BY <1>1, LenProperties DEF Spoken
<1> QED BY <1>1, <1>2, PlayersAre, FS_EmptySet

\* Turns without a gap between them.
RunOn(T) == \A t, u \in T : t..u \subseteq T

\* Some that run on are an interval.
LEMMA RunIsInterval ==
    ASSUME NEW n \in Nat, NEW T \in SUBSET (0..n), T # {}, RunOn(T)
    PROVE  \E a, b \in Nat : a <= b /\ T = a..b
<1>1. PICK b \in T : \A t \in T : t <= b
    BY LastNatural
<1>2. PICK a \in T : \A t \in T : a <= t
    <2>1. T \in SUBSET Nat
        OBVIOUS
    <2> QED BY <2>1, FirstNatural
<1>3. a \in Nat /\ b \in Nat /\ a <= b
    BY <1>1, <1>2
<1>4. a..b \subseteq T
    BY <1>1, <1>2 DEF RunOn
<1>5. T \subseteq a..b
    BY <1>1, <1>2
<1> QED BY <1>3, <1>4, <1>5

\* The turn of an ordinal is there, and ordinals count from the first turn.
LEMMA TurnOfIs ==
    ASSUME NEW m \in Nat, NEW T \in SUBSET (0..m), RunOn(T), NEW n \in Nat
    PROVE  /\ TurnOf(T, n) \in Int
           /\ \A p \in Nat : T = 0..p - 1 /\ n <= p => TurnOf(T, n) = n - 1
<1>1. CASE n = 0 \/ T = {}
    <2>1. TurnOf(T, n) = -1
        BY <1>1 DEF TurnOf
    <2>2. ASSUME NEW p \in Nat, T = 0..p - 1, n <= p PROVE n = 0
        BY <1>1, <2>2
    <2> QED BY <2>1, <2>2
<1>2. CASE n # 0 /\ T # {}
    <2>1. PICK a \in Nat, b \in Nat : a <= b /\ T = a..b
        BY <1>2, RunIsInterval
    <2> DEFINE k == Lesser(n, b - a + 1)
    <2>2. Cardinality(T) = b - a + 1
        BY <2>1, FS_Interval
    <2>3. k \in Nat /\ 1 <= k /\ k <= b - a + 1
        BY <1>2, <2>1 DEF Lesser
    <2>4. \A t \in T : t \in Nat /\ Cardinality({u \in T : u <= t}) = t - a + 1
        <3> SUFFICES ASSUME NEW t \in T PROVE t \in Nat /\ Cardinality({u \in T : u <= t}) = t - a + 1
            OBVIOUS
        <3>1. t \in Nat /\ a <= t /\ {u \in T : u <= t} = a..t
            BY <2>1
        <3>2. Cardinality(a..t) = t - a + 1
            BY <3>1, FS_Interval
        <3> QED BY <3>1, <3>2
    <2>5. a + k - 1 \in T /\ Cardinality({u \in T : u <= a + k - 1}) = k
        BY <2>1, <2>3, <2>4
    <2> HIDE DEF k
    <2>6. TurnOf(T, n) = CHOOSE t \in T : Cardinality({u \in T : u <= t}) = k
        BY <1>2, <2>2 DEF TurnOf, k
    <2>7. TurnOf(T, n) \in T /\ Cardinality({u \in T : u <= TurnOf(T, n)}) = k
        BY <2>5, <2>6, Zenon
    <2>8. TurnOf(T, n) \in Nat /\ TurnOf(T, n) - a + 1 = k
        BY <2>4, <2>7
    <2>9. ASSUME NEW p \in Nat, T = 0..p - 1, n <= p PROVE a = 0 /\ k = n
        <3>1. p > 0
            BY <1>2, <2>9
        <3>2. 0 \in a..b /\ a \in 0..p - 1
            BY <2>1, <2>9, <3>1
        <3>3. a = 0
            BY <2>1, <3>2
        <3>4. b \in 0..p - 1 /\ p - 1 \in a..b
            BY <2>1, <2>9, <3>1
        <3>5. b = p - 1
            BY <2>1, <3>1, <3>4
        <3> QED BY <2>9, <3>3, <3>5 DEF k, Lesser
    <2> QED BY <2>8, <2>9
<1> QED BY <1>1, <1>2

\* What a copy has of turns that run on runs on, and is counted as in its source.
LEMMA CopyRunsOn ==
    ASSUME NEW m \in Nat, NEW T \in SUBSET (0..m), RunOn(T), NEW n \in Nat
    PROVE  /\ RunOn({t \in T : t <= TurnOf(T, n)})
           /\ \A p \in Nat : T = 0..p - 1 /\ n <= p => {t \in T : t <= TurnOf(T, n)} = 0..n - 1
<1>1. TurnOf(T, n) \in Int /\ \A p \in Nat : T = 0..p - 1 /\ n <= p => TurnOf(T, n) = n - 1
    BY TurnOfIs
<1>2. \A t \in T : t \in Int
    OBVIOUS
<1> QED BY <1>1, <1>2 DEF RunOn

\* The turn after the last one keeps turns running on.
LEMMA NextRunsOn ==
    ASSUME NEW m \in Nat, NEW T \in SUBSET (0..m), NEW base \in {0, 1}
    PROVE  LET turn == IF T = {} THEN base ELSE LastTurn(T) + 1
           IN  turn \in Nat /\ (RunOn(T) => RunOn(T \cup {turn}))
<1>1. CASE T = {}
    BY <1>1 DEF RunOn
<1>2. CASE T # {}
    <2>1. PICK b \in T : \A t \in T : t <= b
        BY <1>2, LastNatural
    <2>2. LastTurn(T) \in T \cup {-1} /\ \A u \in T : u <= LastTurn(T)
        BY <2>1, Zenon DEF LastTurn
    <2>3. LastTurn(T) \in T
        BY <2>1, <2>2
    <2> DEFINE l == LastTurn(T)
    <2>6. \A u \in T : u \in Nat
        OBVIOUS
    <2>4. l \in Nat /\ l \in T /\ \A u \in T : u <= l /\ u \in Nat
        BY <2>2, <2>3, <2>6
    <2> HIDE DEF l
    <2>5. ASSUME RunOn(T), NEW t \in T \cup {l + 1}, NEW u \in T \cup {l + 1}, NEW i \in t..u
          PROVE  i \in T \cup {l + 1}
        <3>1. i <= l \/ i = l + 1
            BY <2>4, <2>5
        <3>2. i <= l => t \in T /\ i \in t..l
            BY <2>4, <2>5
        <3> QED BY <2>4, <2>5, <3>1, <3>2 DEF RunOn
    <2> QED BY <1>2, <2>4, <2>5 DEF RunOn, l
<1> QED BY <1>1, <1>2

-----------------------------------------------------------------------------
(* The invariant *)

\* The turns of a row run on, and as long as no stamp counted them they are one for each message
\* of the Player.
RowRunsOn(turns, msgs, ext) ==
    RunOn(turns) /\ (ext = NoId => turns = 0..Players(msgs) - 1)

ExtOf(w, b) == w.session[w.branch[b].session].ext
RunsAt(w, b) == RowRunsOn(w.branch[b].turns, w.branch[b].msgs, ExtOf(w, b))
Runs(w) == \A b \in Live(w) : RunsAt(w, b)

\* Rows and memory agree; and the turns run on, if a host that stamps a chat stamps all of it.
ResolutionInv == ResolutionTypeOK /\ InStep(Now) /\ (Unmixed => Runs(Now))

\* What a transcript may become.
GrewTo(old, new) ==
    \/ First(new, Len(old)) = old
    \/ Tip(old).role = "assistant" /\ new = First(old, Len(old) - 1)

\* What a request may make of the rows and the memory.
Outcome(w) ==
    /\ InStep(w) /\ (Unmixed => Runs(w))
    /\ \A b \in Live(Now) : GrewTo(branch[b].msgs, w.branch[b].msgs)

\* The transcripts that were live are as they were, and what turns there are is bounded.
Preserves(w) ==
    /\ \A c \in Live(Now) : w.branch[c].msgs = branch[c].msgs
    /\ \A c \in Live(w) : w.branch[c].turns \subseteq 0..MaxTurn

LEMMA NowIs ==
    ASSUME ResolutionInv
    PROVE  /\ Now.branch = branch /\ Now.session = session /\ Now.index = index
           /\ InStep(Now) /\ Shaped(Now) /\ Owned(Now) /\ Preserves(Now)
           /\ \A b \in Live(Now) : /\ b \in Branches /\ branch[b].msgs \in Seq(Msgs)
                                   /\ branch[b].turns \in SUBSET (0..MaxTurn)
                                   /\ b \in DOMAIN index /\ index[b] = branch[b].msgs
<1>1. Now.branch = branch /\ Now.session = session /\ Now.index = index
    BY DEF Now
<1>2. InStep(Now) /\ Shaped(Now) /\ Owned(Now) /\ Mirrors(Now) /\ DOMAIN index = Live(Now)
    BY <1>1 DEF ResolutionInv, InStep
<1>3. \A b \in Branches : branch[b].turns \in SUBSET (0..MaxTurn)
    BY DEF ResolutionInv, ResolutionTypeOK, BranchRow
<1>4. \A b \in Live(Now) : /\ b \in Branches /\ branch[b].msgs \in Seq(Msgs)
                           /\ branch[b].turns \in SUBSET (0..MaxTurn)
                           /\ b \in DOMAIN index /\ index[b] = branch[b].msgs
    BY <1>1, <1>2, <1>3, RowOf DEF Live, Mirrors
<1> QED BY <1>1, <1>2, <1>4 DEF Preserves

LEMMA SameGrew == ASSUME NEW s \in Seq(Msgs) PROVE GrewTo(s, s)
    BY FirstWhole, LenProperties DEF GrewTo

\* A request that changes one branch, after what it prepared.
LEMMA ChangeOutcome ==
    ASSUME ResolutionInv, NEW u, NEW b, Near(u, b), Preserves(u),
           Unmixed => \A c \in Live(u) \ {b} : RunsAt(u, c),
           NEW v, NEW msgs \in Seq(Msgs), NEW turns \in SUBSET Nat, Changes(u, v, b, msgs, turns),
           Unmixed => RowRunsOn(turns, msgs, ExtOf(u, b)),
           GrewTo(u.branch[b].msgs, msgs)
    PROVE  Outcome(v)
<1>1. InStep(v)
    BY ChangesInStep
<1>2. Shaped(u) /\ Owned(u) /\ b \in Live(u) /\ b \in Branches
    BY DEF Near, Live
<1>3. /\ v.session = u.session /\ v.branch[b].msgs = msgs /\ v.branch[b].turns = turns
      /\ v.branch[b].session = u.branch[b].session
      /\ \A c \in Branches \ {b} : v.branch[c] = u.branch[c]
    BY <1>2 DEF Changes, Shaped
<1>4. Live(v) = Live(u)
    BY <1>2, <1>3 DEF Live, Changes, Shaped
<1>5. Unmixed => Runs(v)
    BY <1>2, <1>3, <1>4 DEF Runs, RunsAt, ExtOf, Live
<1>6. ASSUME NEW c \in Live(Now) PROVE GrewTo(branch[c].msgs, v.branch[c].msgs)
    <2>1. u.branch[c].msgs = branch[c].msgs /\ c \in Branches /\ branch[c].msgs \in Seq(Msgs)
        BY NowIs DEF Preserves
    <2>2. CASE c = b
        BY <1>3, <2>1, <2>2
    <2>3. CASE c # b
        BY <1>3, <2>1, <2>3, SameGrew
    <2> QED BY <2>2, <2>3
<1> QED BY <1>1, <1>5, <1>6 DEF Outcome

\* What is appended grows the transcript; in a chat without a stamp its Player messages are the
\* turns that follow.
LEMMA AppendedOutcome ==
    ASSUME ResolutionInv, NEW u, NEW b, Near(u, b), Preserves(u), NEW tail \in Seq(Msgs),
           Unmixed => ExtOf(u, b) = NoId /\ Runs(u)
    PROVE  Outcome(Appended(u, b, tail))
<1> DEFINE old == u.branch[b].msgs
           all == old \o tail
           new == Players(old)..Players(all) - 1
           turns == u.branch[b].turns \cup new
<1>1. b \in Live(u) /\ b \in Branches /\ old \in Seq(Msgs) /\ u.branch[b].turns \in SUBSET Nat
    BY RowOf DEF Near, Live
<1>2. Changes(u, Appended(u, b, tail), b, all, turns)
    BY AppendedChanges
<1>3. all \in Seq(Msgs) /\ GrewTo(old, all)
    BY <1>1, ConcatProperties, FirstOfConcat DEF GrewTo
<1>4. Players(old) \in Nat /\ Players(all) \in Nat /\ Players(old) <= Players(all)
    BY <1>1, <1>3, PlayersAre, PlayersOfConcat
<1>5. turns \in SUBSET Nat
    BY <1>1, <1>4
<1>6. ASSUME Unmixed PROVE RowRunsOn(turns, all, ExtOf(u, b))
    <2>1. u.branch[b].turns = 0..Players(old) - 1
        BY <1>1, <1>6 DEF Runs, RunsAt, RowRunsOn
    <2> HIDE DEF all, old
    <2>2. turns = 0..Players(all) - 1
        BY <1>4, <2>1
    <2>3. RunOn(0..Players(all) - 1)
        BY <1>4 DEF RunOn
    <2> QED BY <2>2, <2>3 DEF RowRunsOn
<1>7. Unmixed => \A c \in Live(u) \ {b} : RunsAt(u, c)
    BY DEF Runs
<1> HIDE DEF all, turns
<1>8. GrewTo(u.branch[b].msgs, all)
    BY <1>3
<1> QED BY <1>2, <1>3, <1>5, <1>6, <1>7, <1>8, ChangeOutcome

\* What gives way is at most the last reply.
LEMMA KeptIs ==
    ASSUME NEW view \in Seq(Msgs), NEW canon
    PROVE  /\ Kept(view, canon) \in Nat /\ First(view, Kept(view, canon)) \in Seq(Msgs)
           /\ GrewTo(view, First(view, Kept(view, canon)))
           /\ Players(First(view, Kept(view, canon))) = Players(view)
<1>1. Len(view) \in Nat /\ (view # <<>> => Len(view) - 1 \in Nat)
    BY LenProperties, EmptySeq
<1>2. First(view, Len(view)) = view
    BY <1>1, FirstWhole
<1>3. CASE Kept(view, canon) = Len(view)
    BY <1>1, <1>2, <1>3, SameGrew
<1>4. CASE view # <<>> /\ Tip(view).role = "assistant" /\ Kept(view, canon) = Len(view) - 1
    BY <1>1, <1>4, FirstProperties, PlayersOfFirst DEF GrewTo
<1> QED BY <1>3, <1>4 DEF Kept

LEMMA CutOutcome ==
    ASSUME ResolutionInv, NEW u, NEW b, Near(u, b), Preserves(u), NEW canon, Unmixed => Runs(u)
    PROVE  Outcome(Cut(u, b, Kept(View(u, b), canon)))
<1> DEFINE old == u.branch[b].msgs
           new == First(old, Kept(old, canon))
<1>1. /\ b \in Live(u) /\ b \in Branches /\ old \in Seq(Msgs) /\ u.branch[b].turns \in SUBSET Nat
      /\ View(u, b) = old
    BY RowOf, ViewIsRow DEF Near, Live
<1>2. /\ Kept(old, canon) \in Nat /\ new \in Seq(Msgs) /\ GrewTo(old, new)
      /\ Players(new) = Players(old)
    BY <1>1, KeptIs
<1>3. Changes(u, Cut(u, b, Kept(old, canon)), b, new, u.branch[b].turns)
    BY <1>2, CutChanges
<1>4. Unmixed => RowRunsOn(u.branch[b].turns, new, ExtOf(u, b))
    BY <1>1, <1>2 DEF Runs, RunsAt, RowRunsOn
<1>5. Unmixed => \A c \in Live(u) \ {b} : RunsAt(u, c)
    BY DEF Runs
<1>6. Outcome(Cut(u, b, Kept(old, canon)))
    BY <1>1, <1>2, <1>3, <1>4, <1>5, ChangeOutcome
<1> QED BY <1>1, <1>6

-----------------------------------------------------------------------------
(* Requests without a stamp *)

\* A new session: its branch has neither messages nor turns.
LEMMA CreatedRuns ==
    ASSUME ResolutionInv, NEW x \in Externals \cup {NoId}, Unused(Now) # {}, Vacant(Now) # {}
    PROVE  LET u == Created(Now, x)
               b == FreshBranch(Now)
           IN  /\ Near(u, b) /\ Preserves(u) /\ (Unmixed => Runs(u)) /\ Live(u) = Live(Now) \cup {b}
               /\ u.branch[b].msgs = <<>> /\ View(u, b) = <<>> /\ ExtOf(u, b) = x
               /\ FreshSession(Now) \in Vacant(Now)
               /\ u.session = [session EXCEPT ![FreshSession(Now)] =
                                    [status |-> "open", ext |-> x, active |-> b]]
<1> DEFINE u == Created(Now, x)
           b == FreshBranch(Now)
           s == FreshSession(Now)
<1>1. InStep(Now) /\ Shaped(Now) /\ Owned(Now) /\ Now.branch = branch /\ Now.session = session
    BY NowIs
<1>2. Founds(Now, u, b, s, x, <<>>, {})
    BY <1>1, CreatedFounds
<1>11. /\ Near(u, b) /\ Live(u) = Live(Now) \cup {b} /\ \A c \in Live(Now) : u.branch[c] = Now.branch[c]
       /\ \A t \in Sessions : t # s => u.session[t] = Now.session[t]
    BY <1>1, CreatedIsNear
<1> HIDE DEF u, b, s
<1>3. /\ Live(u) = Live(Now) \cup {b} /\ \A c \in Live(Now) : u.branch[c] = branch[c]
      /\ \A t \in Sessions : t # s => u.session[t] = session[t]
    BY <1>1, <1>11
<1>4. /\ u.branch[b].msgs = <<>> /\ u.branch[b].turns = {} /\ u.branch[b].session = s
      /\ s \in Vacant(Now) /\ u.session = [session EXCEPT ![s] = [status |-> "open", ext |-> x, active |-> b]]
    BY <1>1, <1>2 DEF Founds
<1>5. s \in Sessions /\ session[s].status = "none" /\ ExtOf(u, b) = x
    BY <1>1, <1>4 DEF Vacant, ExtOf, Shaped
<1>6. Preserves(u)
    BY <1>3, <1>4, NowIs DEF Preserves
<1>7. RunsAt(u, b)
    <2>1. RunOn({}) /\ {} = 0..Players(<<>>) - 1
        BY NobodySpoke DEF RunOn
    <2> QED BY <1>4, <2>1 DEF RunsAt, RowRunsOn
<1>8. ASSUME Unmixed, NEW c \in Live(Now) PROVE RunsAt(u, c)
    <2>1. RunsAt(Now, c)
        BY <1>8 DEF ResolutionInv, Runs
    <2>2. branch[c].session \in Sessions \ {s}
        BY <1>1, <1>5 DEF Owned
    <2> QED BY <1>1, <1>3, <2>1, <2>2 DEF RunsAt, ExtOf
<1>9. View(u, b) = <<>>
    BY <1>4, <1>11, ViewIsRow
<1>10. Unmixed => Runs(u)
    BY <1>3, <1>7, <1>8 DEF Runs
<1> QED BY <1>3, <1>4, <1>5, <1>6, <1>9, <1>10, <1>11 DEF u, b, s

LEMMA NewSessionOutcome ==
    ASSUME ResolutionInv, NEW canon \in Seq(Msgs), NewSession(canon)
    PROVE  \E w : Becomes(w) /\ Outcome(w)
<1> DEFINE u == Created(Now, NoId)
           b == FreshBranch(Now)
           v == Indexed(u, b, View(u, b))
<1>1. Unused(Now) # {} /\ Vacant(Now) # {}
    BY IdsAreLeft DEF NewSession
<1>2. /\ Near(u, b) /\ Preserves(u) /\ (Unmixed => Runs(u)) /\ View(u, b) = <<>> /\ ExtOf(u, b) = NoId
    BY <1>1, CreatedRuns
<1>3. Becomes(Appended(v, b, canon))
    BY <1>2 DEF NewSession
<1>4. InStep(v) /\ v.branch = u.branch /\ v.session = u.session
    BY <1>2, IndexedInStep
<1> HIDE DEF v, u
<1>5. Live(v) = Live(u) /\ Preserves(v) /\ ExtOf(v, b) = NoId /\ (Unmixed => Runs(v))
    BY <1>2, <1>4 DEF Live, Preserves, ExtOf, Runs, RunsAt
<1>6. Near(v, b)
    BY <1>2, <1>4, <1>5, InStepIsNear DEF Near
<1>7. Outcome(Appended(v, b, canon))
    BY <1>5, <1>6, AppendedOutcome
<1> QED BY <1>3, <1>7

\* A copy in the place of its source is numbered as the source was, up to the message it ends at.
LEMMA ReplacedRuns ==
    ASSUME ResolutionInv, Unmixed, NEW b \in Live(Now), NEW at \in Nat, Unused(Now) # {}
    PROVE  Runs(Replaced(Now, b, at))
<1> DEFINE u == Replaced(Now, b, at)
           c == FreshBranch(Now)
           s == branch[b].session
           msgs == branch[b].msgs
           T == branch[b].turns
           n == Players(First(msgs, at))
<1>1. /\ InStep(Now) /\ Owned(Now) /\ Now.branch = branch /\ Now.session = session
      /\ msgs \in Seq(Msgs) /\ T \in SUBSET (0..MaxTurn)
    BY NowIs
<1>2. /\ u.branch[c] = Copy(branch[b], msgs, at, s)
      /\ Live(u) = (Live(Now) \ {b}) \cup {c} /\ c \in Unused(Now)
      /\ \A d \in Branches \ {b, c} : u.branch[d] = branch[d]
      /\ \A t \in Sessions : u.session[t].ext = session[t].ext
    BY <1>1, ReplacedIs
<1>3. s \in Sessions /\ RunsAt(Now, b)
    BY <1>1 DEF Owned, ResolutionInv, Runs
<1> HIDE DEF u, c
<1>4. /\ u.branch[c].msgs = First(msgs, at) /\ u.branch[c].turns = {t \in T : t <= TurnOf(T, n)}
      /\ u.branch[c].session = s
    BY <1>2 DEF Copy
<1>5. n \in Nat /\ Players(msgs) \in Nat /\ n <= Players(msgs)
    BY <1>1, FirstProperties, PlayersAre, PlayersOfFirst
<1>6. RunOn(T) /\ (session[s].ext = NoId => T = 0..Players(msgs) - 1)
    BY <1>1, <1>3 DEF RunsAt, RowRunsOn, ExtOf
<1> HIDE DEF n, msgs, T
<1>7. /\ RunOn({t \in T : t <= TurnOf(T, n)})
      /\ T = 0..Players(msgs) - 1 => {t \in T : t <= TurnOf(T, n)} = 0..n - 1
    <2>1. MaxTurn \in Nat
        BY ResolutionAssumption
    <2>2. /\ RunOn({t \in T : t <= TurnOf(T, n)})
          /\ \A p \in Nat : T = 0..p - 1 /\ n <= p => {t \in T : t <= TurnOf(T, n)} = 0..n - 1
        BY <1>1, <1>5, <1>6, <2>1, CopyRunsOn
    <2> QED BY <1>5, <2>2
<1>8. RunsAt(u, c)
    BY <1>2, <1>3, <1>4, <1>6, <1>7 DEF RunsAt, RowRunsOn, ExtOf, n
<1>9. ASSUME NEW d \in Live(Now) \ {b} PROVE RunsAt(u, d)
    <2>1. d # c /\ d \in Branches /\ branch[d].session \in Sessions /\ RunsAt(Now, d)
        BY <1>1, <1>2 DEF Live, Unused, Owned, ResolutionInv, Runs
    <2> QED BY <1>1, <1>2, <2>1 DEF RunsAt, ExtOf
<1> QED BY <1>2, <1>8, <1>9 DEF Runs, u

\* A match outside the stamped chats is in a session no host has named.
LEMMA AloneIs ==
    ASSUME ResolutionInv, NEW m, m.at \in Live(Now), Alone(m), Unmixed
    PROVE  ExtOf(Now, m.at) = NoId
    BY NowIs DEF Alone, ExtOf

LEMMA GoesOnOutcome ==
    ASSUME ResolutionInv, NEW canon \in Seq(Msgs), NEW m \in Matches(canon), Alone(m), GoesOn(canon, m)
    PROVE  \E w : Becomes(w) /\ Outcome(w)
<1> DEFINE tail == Rest(canon, Len(index[m.at]) - m.off)
<1>1. /\ InStep(Now) /\ Preserves(Now) /\ m.at \in Live(Now) /\ m.off \in Nat /\ m.run \in Nat
      /\ Upto(m) = Len(index[m.at])
    BY NowIs, MatchesAre DEF GoesOn
<1>2. Len(index[m.at]) - m.off \in Nat
    BY <1>1 DEF Upto
<1>3. tail \in Seq(Msgs)
    BY <1>2, RestProperties
<1>4. Near(Now, m.at)
    BY <1>1, InStepIsNear
<1>5. Unmixed => ExtOf(Now, m.at) = NoId /\ Runs(Now)
    BY <1>1, AloneIs DEF ResolutionInv
<1>6. Outcome(Appended(Now, m.at, tail))
    BY <1>1, <1>3, <1>4, <1>5, AppendedOutcome
<1> QED BY <1>6 DEF GoesOn

LEMMA RegeneratesOutcome ==
    ASSUME ResolutionInv, NEW canon \in Seq(Msgs), NEW m \in Matches(canon), Regenerates(canon, m)
    PROVE  \E w : Becomes(w) /\ Outcome(w)
<1>1. InStep(Now) /\ Preserves(Now) /\ m.at \in Live(Now)
    BY NowIs, MatchesAre
<1>2. Near(Now, m.at)
    BY <1>1, InStepIsNear
<1>3. View(Now, m.at) = index[m.at]
    BY <1>1, NowIs DEF View
<1>4. Outcome(Cut(Now, m.at, Kept(View(Now, m.at), canon)))
    BY <1>1, <1>2, CutOutcome DEF ResolutionInv
<1> QED BY <1>3, <1>4 DEF Regenerates

LEMMA EditsOutcome ==
    ASSUME ResolutionInv, NEW canon \in Seq(Msgs), NEW m \in Matches(canon), Alone(m), Edits(canon, m)
    PROVE  \E w : Becomes(w) /\ Outcome(w)
<1> DEFINE b == m.at
           at == Upto(m)
           u == Replaced(Now, b, at)
           c == FreshBranch(Now)
           tail == Rest(canon, at - m.off)
           v == Appended(u, c, tail)
<1>1. /\ InStep(Now) /\ b \in Live(Now) /\ at \in Nat /\ m.off \in Nat /\ m.run \in Nat
      /\ Now.branch = branch /\ Now.session = session /\ Owned(Now)
    BY NowIs, MatchesAre
<1>2. Unused(Now) # {}
    BY <1>1 DEF Edits, Unused
<1>3. /\ InStep(u) /\ c \in Unused(Now) /\ c \in Live(u)
      /\ u.branch[c] = Copy(branch[b], branch[b].msgs, at, branch[b].session)
      /\ u.branch[b].msgs = branch[b].msgs /\ Live(u) = (Live(Now) \ {b}) \cup {c}
      /\ \A d \in Branches \ {b, c} : u.branch[d] = branch[d]
      /\ \A t \in Sessions : u.session[t].ext = session[t].ext
    BY <1>1, <1>2, ReplacedIs
<1>4. tail \in Seq(Msgs)
    <2>1. at - m.off \in Nat
        BY <1>1 DEF Upto
    <2> QED BY <2>1, RestProperties
<1>5. Becomes(v)
    BY DEF Edits
<1>6. Unmixed => Runs(u)
    BY <1>1, <1>2, ReplacedRuns
<1>7. Unmixed => ExtOf(u, c) = NoId
    <2>1. u.branch[c].session = branch[b].session
        BY <1>3 DEF Copy
    <2>2. branch[b].session \in Sessions
        BY <1>1 DEF Owned
    <2>3. Unmixed => session[branch[b].session].ext = NoId
        BY DEF Alone
    <2> QED BY <1>3, <2>1, <2>2, <2>3 DEF ExtOf
<1>8. Near(u, c)
    BY <1>3, InStepIsNear
<1>9. Preserves(u)
    <2>1. u.branch[c].turns \subseteq branch[b].turns
        BY <1>3 DEF Copy
    <2>2. \A d \in Live(Now) : d \in Branches /\ d # c
        BY <1>3 DEF Unused, Live
    <2> HIDE DEF u, c
    <2> QED BY <1>1, <1>3, <2>1, <2>2, NowIs DEF Preserves
<1>10. Outcome(v)
    BY <1>4, <1>6, <1>7, <1>8, <1>9, AppendedOutcome
<1> QED BY <1>5, <1>10

LEMMA HeuristicOutcome ==
    ASSUME ResolutionInv, NEW canon \in Requests, Heuristic(canon)
    PROVE  \E w : Becomes(w) /\ Outcome(w)
<1>1. canon \in Seq(Msgs)
    BY ResolutionAssumption
<1> QED BY <1>1, NewSessionOutcome, GoesOnOutcome, RegeneratesOutcome, EditsOutcome DEF Heuristic

-----------------------------------------------------------------------------
(* Requests with a stamp *)

\* Where a stamped request goes on: what was there is preserved, and the session that has the id
\* is there, in step once its branch is in the memory.
LocatedAt(u, x) ==
    /\ Preserves(u) /\ (Unmixed => Runs(u))
    /\ \E s \in Sessions : u.session[s].status = "open" /\ u.session[s].ext = x
    /\ \A s \in Sessions : u.session[s].status = "open" /\ u.session[s].ext = x =>
          Near(u, u.session[s].active) /\ ExtOf(u, u.session[s].active) = x

LEMMA InStepNear ==
    ASSUME NEW u, InStep(u), NEW s \in Sessions, u.session[s].status = "open"
    PROVE  Near(u, u.session[s].active) /\ ExtOf(u, u.session[s].active) = u.session[s].ext
<1>1. u.session[s].active \in Live(u) /\ u.branch[u.session[s].active].session = s
    BY DEF InStep, Owned
<1> QED BY <1>1, InStepIsNear DEF ExtOf

LEMMA CreatedLocated ==
    ASSUME ResolutionInv, NEW x \in Externals, Known(x) = {}, Unused(Now) # {}, Vacant(Now) # {}
    PROVE  LocatedAt(Created(Now, x), x)
<1> DEFINE u == Created(Now, x)
           b == FreshBranch(Now)
           s == FreshSession(Now)
           sess == [status |-> "open", ext |-> x, active |-> b]
<1>1. /\ Near(u, b) /\ Preserves(u) /\ (Unmixed => Runs(u)) /\ ExtOf(u, b) = x /\ s \in Vacant(Now)
      /\ u.session = [session EXCEPT ![s] = sess]
    BY CreatedRuns
<1>2. Now.session = session /\ Shaped(Now)
    BY NowIs
<1> HIDE DEF u, b, s
<1>3. s \in Sessions /\ u.session[s] = sess
    BY <1>1, <1>2 DEF Vacant, Shaped
<1>4. \A t \in Sessions : t # s => u.session[t] = session[t]
    BY <1>1, <1>2 DEF Shaped
<1>5. \A t \in Sessions : u.session[t].status = "open" /\ u.session[t].ext = x => t = s
    BY <1>4 DEF Known
<1> QED BY <1>1, <1>3, <1>5 DEF LocatedAt, u

LEMMA RelinkedLocated ==
    ASSUME ResolutionInv, NEW x \in Externals, NEW s \in Sessions, session[s].status = "open"
    PROVE  LocatedAt(Relinked(s, x), x)
<1> DEFINE u == Relinked(s, x)
<1>1. /\ InStep(u) /\ u.branch = branch
      /\ u.session = [session EXCEPT ![s].ext = x]
      /\ u.session[s].status = "open" /\ u.session[s].ext = x
    BY NowIs, RelinkedIs
<1>2. Now.branch = branch /\ Now.session = session /\ Owned(Now) /\ Preserves(Now) /\ Shaped(Now)
    BY NowIs
<1> HIDE DEF u
<1>3. Live(u) = Live(Now) /\ Preserves(u)
    BY <1>1, <1>2 DEF Preserves, Live
<1>4. \A t \in Sessions : t # s => u.session[t] = session[t]
    BY <1>1, <1>2 DEF Shaped
<1>5. ASSUME Unmixed, NEW c \in Live(u) PROVE RunsAt(u, c)
    <2>1. RunsAt(Now, c) /\ branch[c].session \in Sessions
        BY <1>2, <1>3, <1>5 DEF ResolutionInv, Runs, Owned
    <2> QED BY <1>1, <1>2, <1>4, <2>1, ResolutionAssumption DEF RunsAt, RowRunsOn, ExtOf
<1>6. \A t \in Sessions : u.session[t].status = "open" /\ u.session[t].ext = x =>
          Near(u, u.session[t].active) /\ ExtOf(u, u.session[t].active) = x
    BY <1>1, InStepNear
<1>7. LocatedAt(u, x)
    BY <1>1, <1>3, <1>5, <1>6 DEF LocatedAt, Runs
<1> QED BY <1>7 DEF u

LEMMA CopiedLocated ==
    ASSUME ResolutionInv, NEW x \in Externals, NEW b \in Live(Now), NEW at \in Nat, Ids(2)
    PROVE  LocatedAt(Copied(Now, b, at, x), x)
<1> DEFINE u == Copied(Now, b, at, x)
           msgs == branch[b].msgs
           T == branch[b].turns
           n == Players(First(msgs, at))
           C == {t \in T : t <= TurnOf(T, n)}
<1>1. /\ InStep(Now) /\ Shaped(Now) /\ Owned(Now) /\ Now.branch = branch /\ Now.session = session
      /\ msgs \in Seq(Msgs) /\ T \in SUBSET (0..MaxTurn) /\ Preserves(Now)
    BY NowIs
<1>2. Vacant(Now) # {} /\ \A d : Unused(Now) \ {d} # {}
    BY IdsAreLeft
<1>3. PICK c \in Unused(Now), s \in Vacant(Now) :
         /\ InStep(u)
         /\ Founds(Now, u, c, s, x, First(msgs, at), Copy(branch[b], msgs, at, s).turns)
    BY <1>1, <1>2, CopiedIs
<1>4. Copy(branch[b], msgs, at, s).turns = C
    BY DEF Copy
<1> DEFINE sess == [status |-> "open", ext |-> x, active |-> c]
           cut == First(msgs, at)
<1>5. /\ u.branch[c].turns = C /\ u.branch[c].session = s
      /\ \A d \in Branches : d # c => u.branch[d] = branch[d] \/ (d \notin Live(Now) /\ u.branch[d].status = "none")
      /\ u.session = [session EXCEPT ![s] = sess] /\ s \in Sessions /\ session[s].status = "none"
    BY <1>1, <1>3, <1>4 DEF Founds, Vacant
<1>6. Unmixed => RunOn(C)
    <2>1. n \in Nat /\ MaxTurn \in Nat
        BY <1>1, FirstProperties, PlayersAre, ResolutionAssumption
    <2>2. Unmixed => RunOn(T)
        BY <1>1 DEF ResolutionInv, Runs, RunsAt, RowRunsOn
    <2> HIDE DEF n, T
    <2> QED BY <1>1, <2>1, <2>2, CopyRunsOn
<1>7. C \subseteq 0..MaxTurn
    BY <1>1
<1> HIDE DEF u, C, cut
<1>8. /\ \A d \in Live(Now) : u.branch[d] = branch[d]
      /\ \A d \in Live(u) : d = c \/ d \in Live(Now)
    BY <1>1, <1>3, <1>5 DEF Live, Unused
<1>9. \A t \in Sessions : t # s => u.session[t] = session[t]
    BY <1>1, <1>5 DEF Shaped
<1>10. u.session[s].status = "open" /\ u.session[s].ext = x
    BY <1>1, <1>5 DEF Shaped
<1>11. Preserves(u)
    BY <1>1, <1>5, <1>7, <1>8 DEF Preserves
<1>12. ASSUME Unmixed, NEW d \in Live(u) PROVE RunsAt(u, d)
    <2>1. CASE d = c
        BY <1>5, <1>6, <1>10, <1>12, <2>1, ResolutionAssumption DEF RunsAt, RowRunsOn, ExtOf
    <2>2. CASE d \in Live(Now)
        <3>1. RunsAt(Now, d) /\ branch[d].session \in Sessions /\ branch[d].session # s
            BY <1>1, <1>5, <1>12, <2>2 DEF ResolutionInv, Runs, Owned
        <3> QED BY <1>1, <1>8, <1>9, <2>2, <3>1 DEF RunsAt, ExtOf
    <2> QED BY <1>8, <2>1, <2>2
<1>13. \A t \in Sessions : u.session[t].status = "open" /\ u.session[t].ext = x =>
          Near(u, u.session[t].active) /\ ExtOf(u, u.session[t].active) = x
    BY <1>3, InStepNear
<1>14. LocatedAt(u, x)
    BY <1>5, <1>10, <1>11, <1>12, <1>13 DEF LocatedAt, Runs
<1> QED BY <1>14 DEF u

LEMMA LocatedIs ==
    ASSUME ResolutionInv, NEW x \in Externals, NEW canon \in Seq(Msgs), Ids(2) \/ Known(x) # {},
           NEW u \in Located(x, canon)
    PROVE  LocatedAt(u, x)
<1>1. CASE Known(x) # {}
    <2>1. u = Now /\ InStep(Now) /\ Now.session = session /\ Preserves(Now)
        BY <1>1, NowIs DEF Located
    <2>2. \A t \in Sessions : Now.session[t].status = "open" /\ Now.session[t].ext = x =>
            Near(Now, Now.session[t].active) /\ ExtOf(Now, Now.session[t].active) = x
        BY <2>1, InStepNear
    <2>3. \E s \in Sessions : Now.session[s].status = "open" /\ Now.session[s].ext = x
        BY <1>1, <2>1 DEF Known
    <2> QED BY <2>1, <2>2, <2>3 DEF LocatedAt, ResolutionInv
<1>2. CASE Known(x) = {} /\ u \in Lineage(x, canon)
    <2>1. PICK p \in Sessions : \E at \in ForkPoints(p, x, canon) :
                u = Copied(Now, session[p].active, at, x)
        BY <1>2 DEF Lineage
    <2>2. PICK at \in ForkPoints(p, x, canon) : u = Copied(Now, session[p].active, at, x)
        BY <2>1
    <2>3. session[p].status = "open" /\ at \in Nat
        BY LenProperties DEF ForkPoints
    <2>4. session[p].active \in Live(Now)
        BY <2>3, NowIs DEF Owned
    <2> QED BY <1>2, <2>2, <2>3, <2>4, CopiedLocated
<1>3. CASE Known(x) = {} /\ u \in Adopted(x, canon)
    <2>1. Vacant(Now) # {} /\ Unused(Now) # {} /\ Ids(2)
        BY <1>3, IdsAreLeft
    <2>2. CASE u = Created(Now, x)
        BY <1>3, <2>1, <2>2, CreatedLocated
    <2>3. CASE \E m \in Matches(canon) : u = Relinked(branch[m.at].session, x)
        <3>1. PICK m \in Matches(canon) : u = Relinked(branch[m.at].session, x)
            BY <2>3
        <3>2. m.at \in Live(Now)
            BY NowIs, MatchesAre
        <3>3. branch[m.at].session \in Sessions /\ session[branch[m.at].session].status = "open"
            BY <3>2, NowIs DEF Owned
        <3> QED BY <3>1, <3>3, RelinkedLocated
    <2>4. CASE \E m \in Matches(canon) : u = Copied(Now, m.at, Upto(m), x)
        <3>1. PICK m \in Matches(canon) : u = Copied(Now, m.at, Upto(m), x)
            BY <2>4
        <3>2. m.at \in Live(Now) /\ Upto(m) \in Nat
            BY NowIs, MatchesAre
        <3> QED BY <2>1, <3>1, <3>2, CopiedLocated
    <2> QED BY <1>3, <2>2, <2>3, <2>4 DEF Adopted
<1> QED BY <1>1, <1>2, <1>3 DEF Located

LEMMA UnseenIs ==
    ASSUME NEW view \in Seq(Msgs), NEW canon \in Seq(Msgs)
    PROVE  Unseen(view, canon) \in Seq(Msgs)
<1> DEFINE L == Lesser(Len(view), Len(canon))
           ends == {n \in 1..L : Overlap(view, canon, n)}
<1>1. L \in Nat
    BY LenProperties DEF Lesser
<1>2. Common(view, canon) \in Nat
    BY <1>1, CommonIsThere
<1>3. <<>> \in Seq(Msgs)
    BY EmptySeq
<1>4. ASSUME ends # {} PROVE (CHOOSE n \in ends : \A k \in ends : k <= n) \in Nat
    <2>1. ends \in SUBSET (0..L)
        BY <1>1
    <2> HIDE DEF ends
    <2>2. PICK m \in ends : \A k \in ends : k <= m
        BY <1>1, <1>4, <2>1, LastNatural
    <2>3. (CHOOSE n \in ends : \A k \in ends : k <= n) \in ends
        BY <2>2, Zenon
    <2>4. \A k \in ends : k \in Nat
        BY <1>1, <2>1
    <2> QED BY <2>3, <2>4, Zenon
<1> HIDE DEF ends
<1>5. Unseen(view, canon) =
        IF Common(view, canon) = Len(view) THEN Rest(canon, Common(view, canon))
        ELSE IF Common(view, canon) > 0 THEN <<>>
        ELSE IF ends # {} THEN Rest(canon, CHOOSE n \in ends : \A k \in ends : k <= n)
        ELSE canon
    BY DEF Unseen, ends
<1> QED BY <1>2, <1>3, <1>4, <1>5, RestProperties

LEMMA SpeaksOutcome ==
    ASSUME ResolutionInv, NEW u, NEW b, Near(u, b), Preserves(u), Unmixed => Runs(u),
           ExtOf(u, b) # NoId, NEW canon \in Seq(Msgs), NEW base \in {0, 1}, Speaks(u, b, canon, base)
    PROVE  \E w : Becomes(w) /\ Outcome(w)
<1> DEFINE view == View(u, b)
           v == Indexed(u, b, view)
           T == u.branch[b].turns
           turn == IF T = {} THEN base ELSE LastTurn(T) + 1
           tail == Unseen(view, canon)
           y == Synced(v, b, tail)
           w == [y EXCEPT !.branch[b].turns = @ \cup {turn}]
           all == v.branch[b].msgs \o tail
           turns == T \cup {turn}
<1>1. Becomes(w)
    BY DEF Speaks
<1>2. b \in Live(u) /\ b \in Branches /\ view = u.branch[b].msgs /\ u.branch[b].msgs \in Seq(Msgs)
    BY RowOf, ViewIsRow DEF Near, Live
<1>3. tail \in Seq(Msgs)
    BY <1>2, UnseenIs
<1>4. InStep(v) /\ v.branch = u.branch /\ v.session = u.session
    BY IndexedInStep
<1> HIDE DEF v, tail
<1>5. Live(v) = Live(u) /\ Preserves(v) /\ (Unmixed => Runs(v)) /\ ExtOf(v, b) # NoId
    BY <1>4 DEF Live, Preserves, Runs, RunsAt, ExtOf
<1>6. Near(v, b)
    BY <1>2, <1>4, <1>5, InStepIsNear
<1>7. Changes(v, y, b, all, T)
    BY <1>3, <1>4, <1>6, SyncedChanges
<1>8. all \in Seq(Msgs) /\ GrewTo(v.branch[b].msgs, all)
    BY <1>2, <1>3, <1>4, ConcatProperties, FirstOfConcat DEF GrewTo
<1>9. turn \in Nat /\ (RunOn(T) => RunOn(turns)) /\ turns \in SUBSET Nat
    <2>1. T \in SUBSET (0..MaxTurn) /\ MaxTurn \in Nat
        BY <1>2, ResolutionAssumption DEF Preserves
    <2>2. turn \in Nat /\ (RunOn(T) => RunOn(turns))
        BY <2>1, NextRunsOn
    <2> HIDE DEF turn
    <2> QED BY <2>1, <2>2
<1> HIDE DEF y, all
<1>10. Unmixed => RunOn(T)
    BY <1>2 DEF Runs, RunsAt, RowRunsOn
<1>11. b \in DOMAIN v.branch /\ y.branch[b].turns = T
    BY <1>2, <1>4, <1>7 DEF Changes, InStep, Shaped
<1> HIDE DEF turn, T
<1>12. w = [y EXCEPT !.branch[b].turns = turns]
    BY <1>11
<1> HIDE DEF turns
<1>13. Changes(v, w, b, all, turns)
    BY <1>7, <1>11, <1>12, TurnsSet
<1>14. Unmixed => RowRunsOn(turns, all, ExtOf(v, b))
    BY <1>5, <1>9, <1>10 DEF RowRunsOn
<1>15. Unmixed => \A c \in Live(v) \ {b} : RunsAt(v, c)
    BY <1>5 DEF Runs
<1> HIDE DEF w
<1>16. Outcome(w)
    BY <1>5, <1>6, <1>8, <1>9, <1>13, <1>14, <1>15, ChangeOutcome
<1> QED BY <1>1, <1>16

LEMMA ContinuesOutcome ==
    ASSUME ResolutionInv, NEW u, NEW b, Near(u, b), Preserves(u), Unmixed => Runs(u), Continues(u, b)
    PROVE  \E w : Becomes(w) /\ Outcome(w)
<1> DEFINE v == Indexed(u, b, View(u, b))
<1>1. Becomes(v)
    BY DEF Continues
<1>2. InStep(v) /\ v.branch = u.branch /\ v.session = u.session
    BY IndexedInStep
<1> HIDE DEF v
<1>3. Unmixed => Runs(v)
    BY <1>2 DEF Runs, RunsAt, ExtOf, Live
<1>4. \A c \in Live(Now) : GrewTo(branch[c].msgs, v.branch[c].msgs)
    BY <1>2, NowIs, SameGrew DEF Preserves
<1> QED BY <1>1, <1>2, <1>3, <1>4 DEF Outcome

LEMMA StampedOutcome ==
    ASSUME ResolutionInv, NEW x \in Externals, NEW canon \in Requests \cup {<<>>}, Stamped(x, canon)
    PROVE  \E w : Becomes(w) /\ Outcome(w)
<1>1. canon \in Seq(Msgs)
    BY ResolutionAssumption, EmptySeq
<1> DEFINE Chosen(u) == CHOOSE s \in Sessions : u.session[s].status = "open" /\ u.session[s].ext = x
<1>2. PICK u \in Located(x, canon) :
         LET b == u.session[Chosen(u)].active
         IN  \/ \E base \in {0, 1} : Speaks(u, b, canon, base)
             \/ Swipes(u, b, canon)
             \/ Continues(u, b)
    BY DEF Stamped
<1>3. LocatedAt(u, x)
    BY <1>1, LocatedIs DEF Stamped
<1> DEFINE s == Chosen(u)
           b == u.session[s].active
<1>4. s \in Sessions /\ u.session[s].status = "open" /\ u.session[s].ext = x
    BY <1>3, Zenon DEF LocatedAt
<1> HIDE DEF s
<1>5. Near(u, b) /\ Preserves(u) /\ (Unmixed => Runs(u)) /\ ExtOf(u, b) # NoId
    BY <1>3, <1>4, ResolutionAssumption DEF LocatedAt
<1>6. \/ \E base \in {0, 1} : Speaks(u, b, canon, base)
      \/ Swipes(u, b, canon)
      \/ Continues(u, b)
    BY <1>2 DEF s
<1> HIDE DEF b
<1>7. CASE \E base \in {0, 1} : Speaks(u, b, canon, base)
    BY <1>1, <1>5, <1>7, SpeaksOutcome
<1>8. CASE Swipes(u, b, canon)
    BY <1>5, <1>8, CutOutcome DEF Swipes
<1>9. CASE Continues(u, b)
    BY <1>5, <1>9, ContinuesOutcome
<1> QED BY <1>6, <1>7, <1>8, <1>9

-----------------------------------------------------------------------------
(* The theorems *)

\* What a request becomes is within its bounds, so rows and memory have their types.
LEMMA BecomesKeeps ==
    ASSUME ResolutionInv, NEW w, Becomes(w), Outcome(w)
    PROVE  /\ ResolutionInv'
           /\ \A b \in Live(Now) : GrewTo(branch[b].msgs, branch'[b].msgs)
<1>1. InStep(w) /\ Shaped(w) /\ Mirrors(w) /\ DOMAIN w.index = Live(w)
    BY DEF Outcome, InStep
<1>2. branch' = w.branch /\ session' = w.session /\ index' = w.index
    BY DEF Becomes
<1>3. Now' = w
    BY <1>1, <1>2 DEF Now, Shaped
<1>4. InStep(Now)' /\ (Unmixed => Runs(Now)')
    <2>1. InStep(Now)'
        BY <1>1, <1>3 DEF InStep, Shaped, Owned, Mirrors, Live
    <2>2. Unmixed => Runs(Now)'
        BY <1>3 DEF Outcome, Runs, RunsAt, ExtOf, Live
    <2> QED BY <2>1, <2>2
<1>5. ASSUME NEW b \in Branches PROVE w.branch[b] \in BranchRow
    <2>1. w.branch[b] \in OpenRow /\ w.branch[b].msgs \in Seq(Msgs)
        BY <1>1, RowOf
    <2>2. w.branch[b].msgs \in [1..Len(w.branch[b].msgs) -> Msgs] /\ Len(w.branch[b].msgs) \in Nat
        BY <2>1, LenProperties
    <2>3. Len(w.branch[b].msgs) <= MaxLen /\ w.branch[b].turns \subseteq 0..MaxTurn
        BY DEF Becomes
    <2>4. MaxLen \in Nat
        BY ResolutionAssumption
    <2>5. Len(w.branch[b].msgs) \in 0..MaxLen
        BY <2>2, <2>3, <2>4
    <2>6. w.branch[b].msgs \in Transcripts
        BY <2>2, <2>5 DEF Transcripts
    <2> QED BY <2>1, <2>3, <2>6 DEF OpenRow, BranchRow
<1>6. w.branch \in [Branches -> BranchRow] /\ w.session \in [Sessions -> SessionRow]
    BY <1>1, <1>5 DEF Shaped
<1>7. DOMAIN w.index \subseteq Branches /\ \A b \in DOMAIN w.index : w.index[b] \in Transcripts
    BY <1>1, <1>6 DEF Live, Mirrors, BranchRow
<1>8. ResolutionTypeOK'
    BY <1>2, <1>6, <1>7 DEF ResolutionTypeOK
<1>9. \A b \in Live(Now) : GrewTo(branch[b].msgs, branch'[b].msgs)
    BY <1>2 DEF Outcome
<1> QED BY <1>4, <1>8, <1>9 DEF ResolutionInv

\* An error, or a restart, rebuilds the memory from the rows it should agree with.
LEMMA RecoversKeeps ==
    ASSUME ResolutionInv, Recovers
    PROVE  ResolutionInv' /\ branch' = branch
<1>1. branch' = branch /\ session' = session /\ index' = Rebuilt
    BY DEF Recovers
<1>2. /\ DOMAIN Rebuilt = Live(Now)
      /\ \A b \in Live(Now) : b \in Branches /\ Rebuilt[b] = branch[b].msgs
    BY NowIs DEF Rebuilt, Live
<1>3. \A b \in Branches : branch[b].msgs \in Transcripts
    BY DEF ResolutionInv, ResolutionTypeOK, BranchRow
<1>4. ResolutionTypeOK'
    BY <1>1, <1>2, <1>3 DEF ResolutionInv, ResolutionTypeOK
<1>5. /\ Now'.branch = branch /\ Now'.session = session /\ Now'.index = Rebuilt
      /\ Now' = [branch |-> branch, session |-> session, index |-> Rebuilt]
    BY <1>1 DEF Now
<1>6. Live(Now)' = Live(Now)
    BY <1>5, NowIs DEF Live
<1>7. Shaped(Now)' /\ Owned(Now)'
    BY <1>5, <1>6, NowIs DEF Shaped, Owned
<1>8. Mirrors(Now)' /\ (DOMAIN Now.index)' = Live(Now)'
    BY <1>2, <1>5, <1>6 DEF Mirrors
<1>9. Runs(Now)' = Runs(Now)
    BY <1>5, <1>6, NowIs DEF Runs, RunsAt, ExtOf
<1> QED BY <1>1, <1>4, <1>7, <1>8, <1>9 DEF ResolutionInv, InStep

LEMMA ResolutionStart == ResolutionInit => ResolutionInv
<1> SUFFICES ASSUME ResolutionInit PROVE ResolutionInv
    OBVIOUS
<1>1. MaxLen \in Nat /\ MaxBranches \in Nat /\ MaxSessions \in Nat
    BY ResolutionAssumption
<1>2. <<>> \in [1..0 -> Msgs] /\ <<>> \in Seq(Msgs) /\ DOMAIN <<>> = {}
    BY LenProperties, EmptySeq
<1>3. <<>> \in Transcripts
    BY <1>1, <1>2 DEF Transcripts
<1> DEFINE e == <<>>
           nothing == {}
<1>4. e \in Transcripts /\ e \in Seq(Msgs) /\ nothing \in SUBSET Nat /\ nothing \in SUBSET (0..MaxTurn)
    BY <1>2, <1>3
<1>5. /\ NoBranch = [status |-> "none", session |-> 0, msgs |-> e, turns |-> nothing]
      /\ index = e /\ DOMAIN e = {}
    BY <1>2 DEF NoBranch, ResolutionInit
<1> HIDE DEF e, nothing
<1>6. NoBranch \in BranchRow /\ NoBranch \in OpenRow /\ NoBranch.status = "none"
    BY <1>1, <1>4, <1>5 DEF BranchRow, OpenRow
<1>7. NoSession \in SessionRow /\ NoSession.status = "none"
    BY <1>1 DEF NoSession, SessionRow
<1>8. ResolutionTypeOK
    BY <1>5, <1>6, <1>7 DEF ResolutionInit, ResolutionTypeOK
<1>9. Now.branch = branch /\ Now.session = session /\ Now.index = index
    BY DEF Now
<1>10. Live(Now) = {} /\ \A s \in Sessions : session[s].status = "none"
    BY <1>6, <1>7, <1>9 DEF Live, ResolutionInit
<1>11. Shaped(Now)
    BY <1>6, <1>7, <1>9 DEF Shaped, Now, ResolutionInit
<1>12. Owned(Now) /\ Mirrors(Now) /\ DOMAIN Now.index = Live(Now) /\ Runs(Now)
    BY <1>5, <1>9, <1>10 DEF Owned, Mirrors, Runs
<1> QED BY <1>8, <1>11, <1>12 DEF ResolutionInv, InStep

\* One step of the specification: the invariant holds on, and no transcript is rewritten.
LEMMA ResolutionStep ==
    ASSUME ResolutionInv, [ResolutionNext]_resolutionVars
    PROVE  ResolutionInv' /\ \A b \in Live(Now) : GrewTo(branch[b].msgs, branch'[b].msgs)
<1>1. ASSUME NEW canon \in Requests, Heuristic(canon) PROVE \E w : Becomes(w) /\ Outcome(w)
    BY <1>1, HeuristicOutcome
<1>2. ASSUME NEW x \in Externals, NEW canon \in Requests \cup {<<>>}, Stamped(x, canon)
      PROVE  \E w : Becomes(w) /\ Outcome(w)
    BY <1>2, StampedOutcome
<1>3. ASSUME branch' = branch PROVE \A b \in Live(Now) : GrewTo(branch[b].msgs, branch'[b].msgs)
    BY <1>3, NowIs, SameGrew
<1>4. CASE Recovers
    BY <1>3, <1>4, RecoversKeeps
<1>5. CASE UNCHANGED resolutionVars
    <2>1. branch' = branch /\ session' = session /\ index' = index
        BY <1>5 DEF resolutionVars
    <2>2. ResolutionInv'
        BY <2>1 DEF ResolutionInv, ResolutionTypeOK, InStep, Shaped, Owned, Mirrors, Live, Now,
                    Runs, RunsAt, ExtOf
    <2> QED BY <1>3, <2>1, <2>2
<1>6. CASE \E w : Becomes(w) /\ Outcome(w)
    BY <1>6, BecomesKeeps
<1> QED BY <1>1, <1>2, <1>4, <1>5, <1>6 DEF ResolutionNext

\* Whatever the requests, the invariant holds.
LEMMA ResolutionHolds == ResolutionSpec => []ResolutionInv
<1>1. ResolutionInv /\ [ResolutionNext]_resolutionVars => ResolutionInv'
    BY ResolutionStep
<1> QED BY <1>1, ResolutionStart, PTL DEF ResolutionSpec

\* The state has its types.
THEOREM ResolutionIsTyped == ResolutionSpec => []ResolutionTypeOK
<1>1. ResolutionInv => ResolutionTypeOK
    BY DEF ResolutionInv
<1> QED BY <1>1, ResolutionHolds, PTL

\* The memory holds exactly the transcripts of the live branches (lcp.py: rebuilt from the store,
\* mutated in lockstep with it), and an open session has one live branch, the one its requests go
\* to, whatever requests are classified as what, copied, renamed, refused or taken back.
THEOREM MemoryInStep == ResolutionSpec => []IndexInStep
<1>1. ASSUME ResolutionInv PROVE IndexInStep
    <2>1. InStep(Now) /\ Now.branch = branch /\ Now.session = session /\ Now.index = index
        BY <1>1, NowIs
    <2>2. DOMAIN index = {b \in Branches : branch[b].status = "live"}
        BY <2>1 DEF InStep, Live
    <2>3. \A b \in DOMAIN index : index[b] = branch[b].msgs
        BY <2>1 DEF InStep, Mirrors
    <2>4. ASSUME NEW s \in Sessions, session[s].status = "open"
          PROVE  {b \in Branches : branch[b].session = s /\ branch[b].status = "live"}
                     = {session[s].active}
        BY <2>1, <2>4 DEF InStep, Owned, Live
    <2> QED BY <2>2, <2>3, <2>4 DEF IndexInStep
<1> QED BY <1>1, ResolutionHolds, PTL

\* No request rewrites what a branch remembers: its transcript grows at the end or loses its last
\* reply (session_engine.py: a wrong classification never corrupts state).
THEOREM HistoryGrows == ResolutionSpec => HistoryOnlyGrows
<1>1. ASSUME ResolutionInv, [ResolutionNext]_resolutionVars
      PROVE  \A b \in Branches : branch[b].status = "live" =>
                LET old == branch[b].msgs
                    new == branch'[b].msgs
                IN  \/ First(new, Len(old)) = old
                    \/ Tip(old).role = "assistant" /\ new = First(old, Len(old) - 1)
    BY <1>1, ResolutionStep, NowIs DEF Live, GrewTo
<1> QED BY <1>1, ResolutionHolds, PTL DEF ResolutionSpec, HistoryOnlyGrows

\* Where a host that stamps a chat stamps every request of it, the turns of a branch have no gaps,
\* and as long as no stamp counted them each Player message has a turn of its own (_append_tail,
\* turn_for_message_ordinal, resolve_stamped).
THEOREM TurnsRun == ASSUME Unmixed PROVE ResolutionSpec => []TurnsRunOn
<1>1. ASSUME ResolutionInv PROVE TurnsRunOn
    BY <1>1, NowIs DEF ResolutionInv, Runs, RunsAt, RowRunsOn, RunOn, ExtOf, Live, TurnsRunOn
<1> QED BY <1>1, ResolutionHolds, PTL
=============================================================================

---------------------------- MODULE WorldEvents ----------------------------
(***************************************************************************)
(* The fronts of the living world and the events they end in (state.py,    *)
(* world_events.py).  A front is an agenda clock; a pass over the ops of a *)
(* batch ticks some of the fronts, and one that fills admits an immutable  *)
(* event, the circumstance its faction is in from then on, and ends those  *)
(* that were in force.  Passes follow each request, each reply and each    *)
(* extraction, so one may belong to an older turn than the passes before.  *)
(* The story is one line of branches: a fork goes on in the new branch     *)
(* with what its source had up to a turn.                                  *)
(***************************************************************************)
EXTENDS Integers

CONSTANTS
    Agendas,    \* how many fronts there are; they are numbered in the order of their ids
    Faction,    \* of each front; the fronts without one have the world in common
    Segments,   \* the size of each clock
    Lasts,      \* for how many turns the event of a front is in force, 0 for ever
    MaxStory,   \* bound: the last turn
    MaxForks,   \* bound: forks in the line of branches
    LateInForks \* bound: whether a fork may still work on a turn older than the fork

Front == 1..Agendas
Story == 0..MaxStory
Empty == -1

ASSUME WorldAssumption ==
    /\ Agendas \in Nat /\ MaxStory \in Nat /\ MaxForks \in Nat
    /\ Segments \in [Front -> Nat \ {0}]
    /\ Lasts \in [Front -> Nat]
    /\ DOMAIN Faction = Front
    /\ LateInForks \in BOOLEAN

Event  == [front : Front, line : 0..MaxForks, turn : Story]
Ending == [by : Event, of : Event]

VARIABLES
    line,     \* the branch: how often the story was forked
    newest,   \* its newest turn
    since,    \* the turn it was forked at
    ticks,    \* of each front, the turn of the tick that filled a segment, or Empty
    events,   \* the admissions of the branch
    ended,    \* its supersession records, with the completion that wrote them
    refused   \* supersession records the cause check turned down after the batch check

worldVars == <<line, newest, since, ticks, events, ended, refused>>

\* fronts[f].filled is how many are not open, and fronts[f].done that none is.
Open(f) == {i \in 1..Segments[f] : ticks[f][i] = Empty}
Done(f) == Open(f) = {}

-----------------------------------------------------------------------------
(* The overlay *)

\* Every record fits the branch: project_world_overlay raises otherwise, for all of them.
Projects == \A e \in ended : e.of \in events /\ e.by.turn >= e.of.turn

\* What is in force at a turn, by story time.
InForceAt(t) ==
    {a \in events : /\ Projects
                    /\ a.turn <= t
                    /\ Lasts[a.front] = 0 \/ t < a.turn + Lasts[a.front]
                    /\ ~ \E e \in ended : e.of = a /\ e.by.turn <= t}

\* Once an agenda has ended something, its records are rebuilt whenever it is looked at again.
EndedBy(f) == {e.of : e \in {x \in ended : x.by.front = f}}

\* Mutant: what the overlay shows now is ended, not what it shows at the turn of the completion.
SupersededNow(f, t) == {a \in InForceAt(newest) : Faction[a.front] = Faction[f]} \cup EndedBy(f)

\* Mutant: only one circumstance is ended where two are in force.
SupersededOne(f, t) ==
    LET due == {a \in InForceAt(t) : Faction[a.front] = Faction[f]}
    IN  {a \in due : \A b \in due : a.front <= b.front} \cup EndedBy(f)

\* The circumstances a completion of f at turn t has to end, before it or its like land.
SupersededBy(f, t) == {a \in InForceAt(t) : Faction[a.front] = Faction[f]} \cup EndedBy(f)

-----------------------------------------------------------------------------
(* A pass *)

Completion(f, t) == [front |-> f, line |-> line, turn |-> t]

\* The batch check rebuilds the records of each completion from the state before the batch and
\* finds them whole.  Then they land one after the other, fronts in order, and each is compared
\* with what would be due by now: a circumstance that the completion of an earlier front of the
\* same faction has just ended is not.
Overtaken(f, t, full) ==
    {a \in SupersededBy(f, t) \ EndedBy(f) : \E g \in full : g < f /\ Faction[g] = Faction[f]}

Lands(f, t, full) == SupersededBy(f, t) \ Overtaken(f, t, full)

\* The fronts a tick fills.
Filling(touched) == {f \in touched : \A i, j \in Open(f) : i = j}

Ticked(f, t) ==
    LET next == CHOOSE i \in Open(f) : \A j \in Open(f) : i <= j
    IN  [ticks[f] EXCEPT ![next] = t]

Endings(due, t) ==
    UNION {{[by |-> Completion(f, t), of |-> a] : a \in due[f]} : f \in DOMAIN due}

\* world_ops ticks the fronts that the batch of turn t touched - by a new day, dealings with the
\* faction, a quest, a defeat - and apply_delta commits ticks and records in one transaction.
WorldPass(touched, t) ==
    LET full == Filling(touched) IN
    /\ t <= newest /\ (t >= since \/ LateInForks) /\ touched # {}
    /\ \A f \in touched : ~ Done(f)
    /\ ticks' = [f \in Front |-> IF f \in touched THEN Ticked(f, t) ELSE ticks[f]]
    /\ events' = events \cup {Completion(f, t) : f \in full}
    /\ ended' = ended \cup Endings([f \in full |-> Lands(f, t, full)], t)
    /\ refused' = refused \cup Endings([f \in full |-> Overtaken(f, t, full)], t)
    /\ UNCHANGED <<line, newest, since>>

StoryGoesOn ==
    /\ newest < MaxStory
    /\ newest' = newest + 1
    /\ UNCHANGED <<line, since, ticks, events, ended, refused>>

\* Mutant: the turn of the fork itself is left out.
InheritedShort(S, t) == {a \in S : a.turn < t}

\* What fork_branch copies of the journal, which the fronts of the fork are replayed from, and of
\* the event table: the rows up to a turn.
Inherited(S, t) == {a \in S : a.turn <= t}

ForkStory(t) ==
    /\ line < MaxForks /\ t <= newest
    /\ line' = line + 1
    /\ newest' = t /\ since' = t
    /\ ticks' = [f \in Front |->
                    [i \in 1..Segments[f] |-> IF ticks[f][i] <= t THEN ticks[f][i] ELSE Empty]]
    /\ events' = Inherited(events, t)
    /\ ended' = {e \in ended : e.by.turn <= t}
    /\ UNCHANGED refused

WorldEventsInit ==
    /\ line = 0 /\ newest = 0 /\ since = 0
    /\ ticks = [f \in Front |-> [i \in 1..Segments[f] |-> Empty]]
    /\ events = {} /\ ended = {} /\ refused = {}

WorldEventsNext ==
    \/ StoryGoesOn
    \/ \E t \in Story :
          \/ \E touched \in SUBSET Front : WorldPass(touched, t)
          \/ ForkStory(t)

WorldEventsSpec == WorldEventsInit /\ [][WorldEventsNext]_worldVars

-----------------------------------------------------------------------------
(* Properties *)

WorldEventsTypeOK ==
    /\ line \in 0..MaxForks /\ newest \in Story /\ since \in Story /\ DOMAIN ticks = Front
    /\ \A f \in Front : ticks[f] \in [1..Segments[f] -> Story \cup {Empty}]
    /\ events \subseteq Event
    /\ ended \subseteq Ending /\ refused \subseteq Ending

\* Every branch has an overlay: what a record ends is there, and is not younger than the record,
\* whatever was completed late or cut off by a fork.  One that does not fit takes the whole
\* overlay away (project_world_overlay raises, _attach_world_event_branch_view shows nothing).
OverlayProjects == Projects

\* A front that has come to a head has told so: its event is in the branch, and on the first
\* branch exactly one, which no other front has (_front_event_batch_failures).
CompletionsAreTold ==
    \A f \in Front :
        LET told == {a \in events : a.front = f}
        IN  /\ Done(f) => told # {}
            /\ line = 0 => /\ told # {} => Done(f)
                           /\ \A a, b \in told : a = b

\* When one front of a faction comes to a head, its event is the only circumstance of the
\* faction at that turn, also when two were in force before or a later turn was told first.
CompletionsReplace ==
    [][line' = line =>
         \A a \in events' \ events :
            (\A b \in events' \ events : Faction[b.front] = Faction[a.front] => a = b) =>
                {b \in InForceAt(a.turn)' : Faction[b.front] = Faction[a.front]} = {a}]_worldVars

\* The records of a completion land all or none: what ends the old circumstances and what admits
\* the new one are one group.
GroupsLandWhole == \A e \in refused : e.by \notin events
=============================================================================

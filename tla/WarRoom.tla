------------------------------ MODULE WarRoom ------------------------------
(***************************************************************************)
(* The referee of fights and large battles (state.py: combat_ops,          *)
(* battle_ops, progression_ops and the operations they commit).  A batch of *)
(* operations of the Player, of a reply or of an extraction is followed by  *)
(* the passes: the combat referee, the battle referee and, on two of the    *)
(* three paths, the progression.  Each reads the state the one before it    *)
(* left and commits on its own; an error or a crash may cut them short.     *)
(*                                                                         *)
(* Hit points are a few steps, a wound or a cure is a new value.  Loot,     *)
(* kits, initiative and the amounts of experience are left out; who is      *)
(* present, whether the scene is one of violence, and the rank of friends   *)
(* and foes are open.                                                       *)
(***************************************************************************)
EXTENDS Integers, FiniteSets

CONSTANTS
    Named,      \* the characters the story tracks
    Foes,       \* of them, those hostile to the Player
    Friends,    \* of them, those with a reason to fight beside the Player
    Extra,      \* what an untracked combatant is called
    Band,       \* what the members of a counted cohort are called
    Nobody,     \* no combatant
    Health,     \* the most hit points
    SideCap,    \* COMBAT_SIDE_CAP; the Player holds one place of the allies
    Total,      \* the size of a counted cohort
    WaveSize,   \* foes in a wave of a battle that is not counted
    WaveCap,    \* BATTLE_WAVE_CAP
    Momentum,   \* BATTLE_MOMENTUM_CLAMP
    MaxRows     \* bound: rows in one fight

Names    == Named \cup {Extra, Band}
Fighters == Names \X (1..MaxRows)

ASSUME WarAssumption ==
    /\ Foes \subseteq Named /\ Friends \subseteq Named /\ IsFiniteSet(Named)
    /\ Extra \notin Named /\ Band \notin Named /\ Extra # Band /\ Nobody \notin Fighters
    /\ Health \in Nat \ {0} /\ SideCap \in Nat \ {0} /\ WaveSize \in 1..SideCap
    /\ WaveCap \in Nat /\ Momentum \in Nat /\ MaxRows \in Nat /\ Total \in 1..MaxRows

VARIABLES
    fight,      \* combat.active
    rows,       \* combat.combatants
    pending,    \* the actor of combat.pending_intent
    battle,     \* the large battle
    wounds,     \* attributes[e].hp of the tracked
    health,     \* the Player's hit points
    fell,       \* the Player was defeated in this turn (player.defeated.turn)
    dead,       \* player.defeated.outcome is death
    stage,      \* the pass that comes next
    batch,      \* what the referee looks up in the batch: a foe came, or the Player left
    refused     \* history, read by no action: a foe whom these passes sent was refused

warVars == <<fight, rows, pending, battle, wounds, health, fell, dead, stage, batch, refused>>

Sides   == {"enemy", "ally"}
NoRow   == [side |-> "none", hp |-> 0, down |-> FALSE]
Row     == [side : Sides, hp : 0..Health, down : BOOLEAN] \cup {NoRow}
Battles == [on : BOOLEAN, counted : BOOLEAN, spawned : 0..Total, opened : 0..Total,
            waves : 0..WaveCap, momentum : -Momentum..Momentum]
Peace   == [on |-> FALSE, counted |-> FALSE, spawned |-> 0, opened |-> 0,
            waves |-> 0, momentum |-> 0]

Lesser(m, n) == IF m <= n THEN m ELSE n
Clamped(m) == IF m > Momentum THEN Momentum ELSE IF m < -Momentum THEN -Momentum ELSE m

-----------------------------------------------------------------------------
(* The field *)

\* live_combatants: the rows of a side that are not defeated.
Standing(R, s) == {i \in Fighters : R[i].side = s /\ ~ R[i].down}

\* The foes that can still act.
Able(R) == {i \in Standing(R, "enemy") : R[i].hp > 0}

Cap(s)     == IF s = "ally" THEN SideCap - 1 ELSE SideCap
Places(R, s) == IF Cardinality(Standing(R, s)) < Cap(s)
                THEN Cap(s) - Cardinality(Standing(R, s)) ELSE 0
OnField(R) == {n \in Named : \E i \in Fighters : i[1] = n /\ R[i].side \in Sides /\ ~ R[i].down}

\* Rows are numbered as they come, and stay until the fight is over.
Count(R, n)   == Cardinality({k \in 1..MaxRows : R[<<n, k>>].side \in Sides})
Coming(R, n, k) == {<<n, j>> : j \in (Count(R, n) + 1)..(Count(R, n) + k)}

\* combatant_spawn, of the combatants in I.  The operation of each can be refused on its own: an
\* active world overlay finds it ineligible or lacks its faction, or the faction of a tracked one
\* names no faction of the story.
Joined(R, I, s) ==
    [i \in Fighters |-> IF i \in I
                   THEN [side |-> s, down |-> FALSE,
                         hp |-> IF i[1] \in Named THEN wounds[i[1]] ELSE Health]
                   ELSE R[i]]

\* Of those who are in S, each once.
Enlisting(R, S) == UNION {Coming(R, n, 1) : n \in S}

\* The first foe to come commits to a move when none is committed.
Intent(old, I) == IF old # Nobody \/ I = {} THEN {old} ELSE I

\* combat_end: every row goes, and a tracked combatant takes its wounds along; of several rows
\* the last one counts.
CarriedOn(R) ==
    [n \in Named |-> IF Count(R, n) = 0 THEN wounds[n] ELSE R[<<n, Count(R, n)>>].hp]

FightOver(R) ==
    /\ fight' = FALSE /\ pending' = Nobody
    /\ rows' = [i \in Fighters |-> NoRow]
    /\ wounds' = CarriedOn(R)

\* The bound on the rows of a fight.
Room(k) == Cardinality({i \in Fighters : rows[i].side \in Sides}) + k <= MaxRows

-----------------------------------------------------------------------------
(* The operations of a batch *)

Bystanders == <<health, fell, dead, stage, refused>>

\* A [foe] or [ally] tag, or the Player's own word for it.
Enter(n, s) ==
    /\ stage = "rest" /\ n \in Named \cup {Extra}
    /\ n \notin OnField(rows) /\ Places(rows, s) > 0
    /\ Room(1)
    /\ rows' = Joined(rows, Coming(rows, n, 1), s)
    /\ fight' = TRUE
    /\ pending' \in Intent(pending, IF s = "enemy" THEN Coming(rows, n, 1) ELSE {})
    /\ batch' = IF s = "enemy" THEN "fresh" ELSE batch
    /\ UNCHANGED <<battle, wounds, Bystanders>>

\* battle_start without a count.
StartBattle(m) ==
    /\ stage = "rest" /\ ~ battle.on
    /\ battle' = [Peace EXCEPT !.on = TRUE, !.momentum = m]
    /\ UNCHANGED <<fight, rows, pending, wounds, batch, Bystanders>>

\* battle_start with a counted cohort, whose first members come in the same batch.  Each must be
\* the next of its queue, so that none comes after one who is refused; what was asked for is
\* remembered.
Declare(k) ==
    LET asked == Lesser(Total, Places(rows, "enemy"))
        come  == Coming(rows, Band, k)
    IN  /\ stage = "rest" /\ ~ battle.on
        /\ Room(Total) /\ k <= asked
        /\ battle' = [Peace EXCEPT !.on = TRUE, !.counted = TRUE, !.opened = asked, !.spawned = k]
        /\ rows' = Joined(rows, come, "enemy")
        /\ fight' = (fight \/ come # {})
        /\ pending' \in Intent(pending, come)
        /\ batch' = IF come # {} THEN "fresh" ELSE batch
        /\ UNCHANGED <<wounds, Bystanders>>

\* combatant_hp; a report of a blow the Player's own strike has already paid is ignored.
Hurt(i, h) ==
    /\ stage = "rest"
    /\ rows[i].side \in Sides /\ ~ rows[i].down /\ rows[i].hp # h
    /\ rows' = [rows EXCEPT ![i].hp = h]
    /\ UNCHANGED <<fight, pending, battle, wounds, batch, Bystanders>>

\* hp_adj, as the committed move of a foe or not.
HurtPlayer(h, move) ==
    /\ stage = "rest"
    /\ move => pending # Nobody /\ h <= health
    /\ h # health \/ move
    /\ health' = h
    /\ pending' = IF move THEN Nobody ELSE pending
    /\ UNCHANGED <<fight, rows, battle, wounds, fell, dead, stage, batch, refused>>

\* tide_set
Tide(target) ==
    /\ stage = "rest" /\ battle.on /\ ~ battle.counted
    /\ battle' = [battle EXCEPT !.momentum =
                    IF target > @ THEN Clamped(@ + 1) ELSE IF target < @ THEN Clamped(@ - 1) ELSE @]
    /\ UNCHANGED <<fight, rows, pending, wounds, batch, Bystanders>>

\* scene_set to another place, and out of violence; a foe who comes with it goes with it.
Leave ==
    /\ stage = "rest"
    /\ batch' = IF batch = "fresh" THEN batch ELSE "left"
    /\ UNCHANGED <<fight, rows, pending, battle, wounds, Bystanders>>

\* The Player's "combat end" and "battle end".
EndFight ==
    /\ stage = "rest" /\ fight
    /\ FightOver(rows)
    /\ UNCHANGED <<battle, batch, Bystanders>>

EndBattle ==
    /\ stage = "rest" /\ battle.on
    /\ battle' = Peace
    /\ UNCHANGED <<fight, rows, pending, wounds, batch, Bystanders>>

\* A tracked character recovers between fights.
Recover(n) ==
    /\ stage = "rest"
    /\ wounds' = [wounds EXCEPT ![n] = Health]
    /\ UNCHANGED <<fight, rows, pending, battle, batch, Bystanders>>

NextTurn ==
    /\ stage = "rest" /\ batch = "quiet"
    /\ fell' = FALSE
    /\ UNCHANGED <<fight, rows, pending, battle, wounds, health, dead, stage, batch, refused>>

\* An error, a crash, a batch no pass follows, or the path of a reply, which has no progression.
Interrupted ==
    /\ <<stage, batch>> # <<"rest", "quiet">>
    /\ stage' = "rest" /\ batch' = "quiet" /\ refused' = FALSE
    /\ UNCHANGED <<fight, rows, pending, battle, wounds, health, fell, dead>>

-----------------------------------------------------------------------------
(* combat_ops *)

\* As many as there is room for, and whoever of them is not refused.
Chosen(S, room) == {C \in SUBSET S : Cardinality(C) = Lesser(Cardinality(S), room)}
Willing(S, room) == {C \in SUBSET S : Cardinality(C) <= room}

\* No fight: in a scene of violence the foes who are there open one, and friends join.
Opens(here) ==
    /\ ~ fight
    /\ \E H \in Chosen(here \cap Foes, SideCap), C \in SUBSET (here \cap Foes) :
        /\ H # {} /\ C \subseteq H
        /\ \E A \in Willing((here \cap Friends) \ C, SideCap - 1) :
            LET come == Enlisting(rows, C)
                with == Enlisting(rows, A)
            IN  /\ rows' = Joined(Joined(rows, come, "enemy"), with, "ally")
                /\ pending' \in Intent(pending, come)
                /\ fight' = (C \cup A # {})
        /\ refused' = (C # H)
    /\ UNCHANGED <<battle, wounds>>

StaysQuiet ==
    /\ ~ fight
    /\ refused' = FALSE
    /\ UNCHANGED <<fight, rows, pending, battle, wounds>>

\* combatant_defeat, of everyone who has no hit points left.
Fallen == {i \in Fighters : rows[i].side \in Sides /\ ~ rows[i].down /\ rows[i].hp = 0}
Beaten(R) == [i \in Fighters |-> IF i \in Fallen THEN [R[i] EXCEPT !.down = TRUE] ELSE R[i]]

\* Mutant: the committed move outlives who committed it.
KeptAnyway(p) == p

\* A defeated foe's move is off.
Kept(p) == IF p \in Fallen THEN Nobody ELSE p

PlayerFell == fell \/ health = 0
SceneLeft  == batch = "left"

\* Mutant: nobody notices that the last foe fell.
EndsOnDefeat == PlayerFell \/ SceneLeft

\* A fight ends when no foe is able any more, unless a battle goes on around it, and when the
\* Player falls or leaves.
Ends == IF Able(rows) = {}
        THEN ~ battle.on \/ PlayerFell \/ SceneLeft
        ELSE PlayerFell \/ SceneLeft

\* The fight goes on or ends; friends who are there and not up join either way.
Settles(here) ==
    /\ fight
    /\ refused' = FALSE
    /\ \E A \in Willing((here \cap Friends) \ OnField(rows), Places(rows, "ally")) :
        LET field == Beaten(Joined(rows, Enlisting(rows, A), "ally"))
        IN  /\ Room(Cardinality(A))
            /\ IF Ends
               THEN /\ FightOver(field)
                    /\ battle' = IF Able(rows) # {} THEN Peace ELSE battle
               ELSE /\ rows' = field
                    /\ \/ pending' = Kept(pending) /\ (Able(rows) = {} \/ pending \in Able(rows))
                       \/ pending' \in Able(rows)      \* enemy_intent_set
                    /\ UNCHANGED <<fight, battle, wounds>>

Referee(here) ==
    /\ stage = "rest" /\ stage' = "battle"
    /\ Opens(here) \/ StaysQuiet \/ Settles(here)
    /\ UNCHANGED <<health, fell, dead, batch>>

-----------------------------------------------------------------------------
(* battle_ops *)

\* The members the next wave sends.
Sent ==
    IF battle.counted THEN Lesser(Total - battle.spawned, Places(rows, "enemy"))
    ELSE Lesser(WaveSize, Places(rows, "enemy"))

\* The numbers of them that may come.  Of a cohort, only the next after those its opening asked
\* for may.
Admitted == IF battle.counted /\ battle.spawned < battle.opened THEN {0} ELSE 0..Sent

\* battle_wave lands whoever of the wave is refused.
Wave(k) ==
    LET name == IF battle.counted THEN Band ELSE Extra
        come == Coming(rows, name, k)
    IN  /\ k \in Admitted /\ Room(k)
        /\ rows' = Joined(rows, come, "enemy")
        /\ fight' = (fight \/ come # {})
        /\ pending' \in Intent(pending, come)
        /\ battle' = IF battle.counted
                     THEN [battle EXCEPT !.spawned = @ + k]
                     ELSE [battle EXCEPT !.waves = @ + 1, !.momentum = Clamped(@ + 1)]
        /\ refused' = (refused \/ k < Sent)
        /\ UNCHANGED wounds

Won ==
    /\ UNCHANGED refused
    /\ battle' = Peace
    /\ FightOver(rows)

\* Mutant: the last of a cohort is forgotten.
MoreButOne ==
    IF battle.counted THEN battle.spawned + 1 < Total
    ELSE battle.momentum <= 0 /\ battle.waves < WaveCap

\* Whether the battle has more foes to send.
MoreToCome ==
    IF battle.counted THEN battle.spawned < Total
    ELSE battle.momentum <= 0 /\ battle.waves < WaveCap

Contested ==
    \/ ~ battle.on
    \/ fight /\ Able(rows) # {}
    \/ ~ fight /\ ~ (battle.counted /\ MoreToCome)

BattlePass ==
    /\ stage = "battle" /\ stage' = "progress"
    /\ batch' = "quiet"
    /\ \/ Contested /\ UNCHANGED <<fight, rows, pending, battle, wounds, refused>>
       \/ ~ Contested /\ MoreToCome /\ \E k \in 0..SideCap : Wave(k)
       \/ ~ Contested /\ ~ MoreToCome /\ Won
    /\ UNCHANGED <<health, fell, dead>>

-----------------------------------------------------------------------------
(* progression_ops: levels and the Player's defeat.  A pass over an older turn dates the defeat   *)
(* by that turn.                                                                                 *)

Progress(level, lethal, late) ==
    /\ stage = "progress" /\ stage' = "rest" /\ refused' = FALSE
    /\ IF health = 0 /\ ~ dead /\ ~ fell
       THEN /\ health' = IF lethal THEN 0 ELSE 1
            /\ dead' = lethal
            /\ fell' = ~ late
       ELSE /\ health' = IF level THEN Lesser(health + 1, Health) ELSE health
            /\ UNCHANGED <<dead, fell>>
    /\ UNCHANGED <<fight, rows, pending, battle, wounds, batch>>

-----------------------------------------------------------------------------
WarInit ==
    /\ fight = FALSE /\ rows = [i \in Fighters |-> NoRow] /\ pending = Nobody
    /\ battle = Peace
    /\ wounds = [n \in Named |-> Health]
    /\ health = Health /\ fell = FALSE /\ dead = FALSE
    /\ stage = "rest" /\ batch = "quiet" /\ refused = FALSE

WarNext ==
    \/ \E n \in Named \cup {Extra}, s \in Sides : Enter(n, s)
    \/ \E m \in -Momentum..Momentum : StartBattle(m)
    \/ \E k \in 0..Total : Declare(k)
    \/ \E i \in Fighters, h \in 0..Health : Hurt(i, h)
    \/ \E h \in 0..Health, move \in BOOLEAN : HurtPlayer(h, move)
    \/ \E target \in {-Momentum, 0, Momentum} : Tide(target)
    \/ Leave \/ EndFight \/ EndBattle
    \/ \E n \in Named : Recover(n)
    \/ NextTurn \/ Interrupted
    \/ \E here \in SUBSET Named : Referee(here)
    \/ BattlePass
    \/ \E level, lethal, late \in BOOLEAN : Progress(level, lethal, late)

WarSpec == WarInit /\ [][WarNext]_warVars

-----------------------------------------------------------------------------
(* Properties *)

\* The types of the state.
WarTypeOK ==
    /\ fight \in BOOLEAN
    /\ rows \in [Fighters -> Row]
    /\ pending \in Fighters \cup {Nobody}
    /\ battle \in Battles
    /\ wounds \in [Named -> 0..Health]
    /\ health \in 0..Health
    /\ fell \in BOOLEAN /\ dead \in BOOLEAN
    /\ stage \in {"rest", "battle", "progress"}
    /\ batch \in {"quiet", "left", "fresh"}
    /\ refused \in BOOLEAN

\* The one committed move of the enemies is that of a foe on the field who is not defeated,
\* through waves, defeats, a fight that ends in the middle of the passes and a new one
\* (combatant_defeat, combat_end, enemy_intent_set, combatant_spawn).
IntentNamesAFoe == pending # Nobody => pending \in Standing(rows, "enemy")

\* Once both referees have run, a fight that is on has a foe who is not defeated, unless a foe
\* whom these very passes sent was refused: nobody is kept in a fight that is over, and a fight
\* without foes is over or sends for some with the next passes (combat_ops, battle_ops).
FightsHaveFoes ==
    [][stage = "battle" /\ stage' = "progress" /\ fight' =>
        Standing(rows', "enemy") # {} \/ refused']_warVars

\* A counted battle is won only when all its members have come and none of them stands, however
\* the tide has turned (battle_ops).
VictoryIsEarned ==
    [][stage = "battle" /\ battle.on /\ battle.counted /\ ~ battle'.on =>
        /\ battle.spawned = Total
        /\ \A i \in Standing(rows, "enemy") : i[1] # Band]_warVars
=============================================================================

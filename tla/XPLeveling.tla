------------------------------ MODULE XPLeveling ------------------------------
(***************************************************************************)
(* MWMechanics::XPLeveling: experience earned by the player, levels banked  *)
(* from it, skill points spent on skills, what dying and jail cost, and the *)
(* part of a frame of the engine that lets a dead player recover and come   *)
(* back.  Saved games keep the player, but not the recovery under way.      *)
(***************************************************************************)
EXTENDS Integers, FiniteSets

CONSTANTS
    BaseXp, IncrementStart, IncrementStep, IncrementThreshold, IncrementHighStep,
    PointsPerLevel,
    ActionXp,        \* what using a skill, a trade or a critical hit may be worth
    KillXp,          \* what killing may be worth
    StageXp, QuestXp, TravelXp, TheftXp, BookXp,
    Stages,          \* the journal entries of a quest
    Finishing, Restarting, \* those that finish it or start it again
    Silent,          \* those without text, which the journal does not keep
    Importance,      \* what the skill is to the class of the player
    AttributeGain,   \* quarters of a point, for a point of a skill of that importance
    StartSkills, StartAttributes,
    Duration, BaseDelay, CooldownPerLevel, \* in frames
    Absent,          \* model value: nothing has been saved
    MaxLevel, MaxSlot, MaxDeaths, MaxLoads, EarlySaves \* bounds

ASSUME CurveAssumption ==
    /\ BaseXp \in Nat \ {0} /\ IncrementStart \in Nat /\ IncrementStep \in Nat
    /\ IncrementThreshold \in Nat /\ IncrementHighStep \in Nat
    /\ MaxLevel \in Nat \ {0}

\* Settings are made non-negative when they are read; what is worth nothing is ignored.
ASSUME AmountsAssumption ==
    /\ ActionXp \subseteq Nat /\ KillXp \subseteq Nat
    /\ StageXp \in Nat /\ QuestXp \in Nat /\ TravelXp \in Nat /\ TheftXp \in Nat /\ BookXp \in Nat
    /\ PointsPerLevel \in Nat /\ AttributeGain \in Nat
    /\ StartSkills \subseteq Nat /\ StartAttributes \subseteq 0..100

ASSUME ImportanceAssumption == Importance \in {"major", "minor", "misc"}

ASSUME TimesAssumption ==
    /\ Duration \in Nat \ {0} /\ BaseDelay \in Nat /\ CooldownPerLevel \in Nat
    /\ MaxSlot \in Nat /\ MaxDeaths \in Nat /\ MaxLoads \in Nat /\ EarlySaves \in BOOLEAN

VARIABLES
    player,        \* NpcStats, journal and potions of the player: what a save keeps
    sDeathRecovery,
    mRespawnTimer,
    saved,         \* the player of the saved game
    deaths, loads,
    foreign        \* the recovery under way began before a game was loaded

vars == <<player, sDeathRecovery, mRespawnTimer, saved, deaths, loads, foreign>>

Cap == 100 \* of skills and attributes
AtLeast(a, b) == IF a < b THEN b ELSE a
AtMost(a, b) == IF a < b THEN a ELSE b
Stage(i) == <<"quest-stage", i>>
Completion == <<"quest-complete", 0>>
Roll(slot) == <<"travel-roll-slot", slot>>
TheftBlocked == <<"theft-reward-blocked", 1>>
Keys == {Stage(i) : i \in Stages} \cup {Roll(s) : s \in 0..MaxSlot} \cup {Completion, TheftBlocked}
Without(keys, prefix) == {k \in keys : k[1] # prefix}

\* What the requirement grows by from a level to the next.
Increment[level \in 1..MaxLevel] ==
    IF level = 1 THEN IncrementStart
    ELSE IF Increment[level - 1] < IncrementThreshold
         THEN AtMost(IncrementThreshold, Increment[level - 1] + IncrementStep)
         ELSE Increment[level - 1] + IncrementHighStep

Requirement[level \in 1..MaxLevel] ==
    IF level = 1 THEN BaseXp ELSE Requirement[level - 1] + Increment[level - 1]

xpRequirementForLevel(level) == Requirement[level]

\* The experience from the first level to the beginning of another.
Threshold[level \in 1..MaxLevel] ==
    IF level = 1 THEN 0 ELSE Threshold[level - 1] + xpRequirementForLevel(level - 1)

NotDead == [level |-> 1, experience |-> 0]
NoRecovery == [active |-> FALSE, elapsed |-> 0, initialXp |-> 0]

Init ==
    /\ \E skill \in StartSkills, attribute \in StartAttributes :
           player = [ level |-> 1, experience |-> 0, skillPoints |-> 0,
                      skill |-> skill, attribute |-> attribute, progress |-> 0,
                      keys |-> {}, journal |-> {}, finished |-> FALSE, read |-> FALSE,
                      slot |-> 0, potions |-> 1, dead |-> FALSE,
                      \* ghosts: where it began, what was paid for and paid twice,
                      \* points of the skill that came from a book, the last death,
                      \* experience set by a recovery that is not of this death
                      from |-> <<skill, attribute>>, paid |-> {}, twice |-> FALSE,
                      learnt |-> {}, died |-> NotDead, stale |-> FALSE ]
    /\ sDeathRecovery = NoRecovery
    /\ mRespawnTimer = 0
    /\ saved = Absent
    /\ deaths = 0
    /\ loads = 0
    /\ foreign = FALSE

-----------------------------------------------------------------------------
(* Rewards. *)

\* Remembers that something was paid for. A theft may be rewarded once more
\* as soon as anything else has been.
Paid(p, key) ==
    [p EXCEPT !.paid = @ \cup {key}, !.twice = @ \/ key \in p.paid]

\* Seeded change for BankedAtOnce: one level at a time.
OneLevel(p) ==
    IF p.experience < xpRequirementForLevel(p.level) THEN p
    ELSE [p EXCEPT !.level = @ + 1, !.experience = @ - xpRequirementForLevel(p.level),
                   !.skillPoints = @ + PointsPerLevel]

\* The levels reached with the experience, the loop that banks it.
Bank(p) ==
    LET total == Threshold[p.level] + p.experience
        level == CHOOSE l \in p.level..MaxLevel :
                     /\ Threshold[l] =< total
                     /\ l < MaxLevel => total < Threshold[l + 1]
    IN [p EXCEPT !.level = level,
                 !.experience = total - Threshold[level],
                 !.skillPoints = @ + PointsPerLevel * (level - p.level)]

Rewarded(p, amount, theftReward) ==
    LET paid == IF theftReward THEN Paid(p, TheftBlocked)
                ELSE [p EXCEPT !.paid = @ \ {TheftBlocked}]
    IN Bank([paid EXCEPT
           !.keys = Without(@, "theft-reward-blocked")
                        \cup (IF theftReward THEN {TheftBlocked} ELSE {}),
           !.experience = @ + amount])

\* Seeded change for NothingPaidTwice: any call lets a theft be rewarded again.
UnblockedByNothing(p, amount, theftReward) ==
    IF amount = 0 THEN [p EXCEPT !.keys = Without(@, "theft-reward-blocked")]
    ELSE Rewarded(p, amount, theftReward)

addExperience(p, amount, theftReward) ==
    IF amount = 0 THEN p ELSE Rewarded(p, amount, theftReward)

awardQuestProgress(p, i, completed) ==
    LET stage == Stage(i) \notin p.keys
        completion == completed /\ Completion \notin p.keys
        first == IF stage THEN Paid(p, Stage(i)) ELSE p
        second == IF completion THEN Paid(first, Completion) ELSE first
        due == (IF stage THEN {Stage(i)} ELSE {}) \cup (IF completion THEN {Completion} ELSE {})
    IN addExperience([second EXCEPT !.keys = @ \cup due],
           (IF stage THEN StageXp ELSE 0) + (IF completion THEN QuestXp ELSE 0), FALSE)

\* Travel is rolled for once in a slot of time, whether the roll succeeds or not.
awardTravel(p) ==
    IF Roll(p.slot) \in p.keys THEN {p}
    ELSE LET rolled == [Paid(p, Roll(p.slot)) EXCEPT
                            !.keys = Without(@, "travel-roll-slot") \cup {Roll(p.slot)}]
         IN {rolled, addExperience(rolled, TravelXp, FALSE)}

Same == UNCHANGED <<sDeathRecovery, mRespawnTimer, saved, deaths, loads, foreign>>

\* The bound on levels: what would bring the player to MaxLevel does not happen.
Becomes(p) ==
    /\ p.level < MaxLevel
    /\ player' = p
    /\ Same

awardSkillUse == ~player.dead /\ \E xp \in ActionXp : Becomes(addExperience(player, xp, FALSE))
awardSuccessfulTrade == ~player.dead /\ \E xp \in ActionXp : Becomes(addExperience(player, xp, FALSE))
awardCriticalHit == ~player.dead /\ \E xp \in ActionXp : Becomes(addExperience(player, xp, FALSE))

\* Followers, and what the player has done before, kill when the player is dead too.
awardKill == \E xp \in KillXp : Becomes(addExperience(player, xp, FALSE))

awardSuccessfulTheft ==
    /\ ~player.dead
    /\ TheftBlocked \notin player.keys
    /\ Becomes(addExperience(player, TheftXp, TRUE))

\* ActionRead on a book that teaches the skill.
ActionRead ==
    /\ ~player.dead
    /\ ~player.read
    /\ LET p == addExperience(player, BookXp, FALSE)
           \* increaseSkill, with the limit on skill books
           q == IF p.skill >= 90 THEN p
                ELSE [p EXCEPT !.learnt = @ \cup {p.skill}, !.skill = @ + 1]
       IN Becomes([q EXCEPT !.read = TRUE])

\* Journal::addEntry and Quest::addEntry.
addEntry(i) ==
    /\ i \notin player.journal
    /\ LET finished == i \in Finishing \/ (player.finished /\ i \notin Restarting)
           p == awardQuestProgress([player EXCEPT !.finished = finished], i,
                    ~player.finished /\ finished)
       IN Becomes([p EXCEPT !.journal = IF i \in Silent THEN @ ELSE @ \cup {i}])

\* Scene::changePlayerCell
changePlayerCell == \E p \in awardTravel(player) : Becomes(p)

\* The time of the game: later slots for travel.
Later ==
    /\ player.slot < MaxSlot
    /\ Becomes([player EXCEPT !.slot = @ + 1])

-----------------------------------------------------------------------------
(* Skill points. *)

getSkillPointCost(base) ==
    IF base < 50 THEN 1 ELSE IF base < 75 THEN 2 ELSE IF base < 90 THEN 3 ELSE 4

\* In quarters: whole points go to the attribute; at the cap the rest is dropped.
addAttributeProgress(p, amount) ==
    LET progress == p.progress + amount
        gained == AtMost(progress \div 4, Cap - p.attribute)
        attribute == p.attribute + gained
    IN [p EXCEPT !.attribute = attribute,
                 !.progress = IF attribute >= Cap THEN 0 ELSE progress - 4 * gained]

\* Seeded change for PointsAccounted: the price is that of the skill once raised.
SpendAfter(p) ==
    addAttributeProgress(
        [p EXCEPT !.skill = @ + 1,
                  !.skillPoints = @ - AtMost(p.skillPoints, getSkillPointCost(p.skill + 1))],
        AttributeGain)

Spend(p) ==
    addAttributeProgress(
        [p EXCEPT !.skill = @ + 1, !.skillPoints = @ - getSkillPointCost(p.skill)],
        AttributeGain)

spendSkillPoints ==
    /\ ~sDeathRecovery.active /\ ~player.dead
    /\ player.skill < Cap
    /\ player.skillPoints >= getSkillPointCost(player.skill)
    /\ Becomes(Spend(player))

-----------------------------------------------------------------------------
(* Death, recovery, jail. *)

\* CreatureStats: health falls below one.
Die ==
    /\ ~player.dead
    /\ deaths < MaxDeaths
    /\ deaths' = deaths + 1
    /\ player' = [player EXCEPT !.dead = TRUE,
                                !.died = [level |-> player.level, experience |-> player.experience]]
    /\ UNCHANGED <<sDeathRecovery, mRespawnTimer, saved, loads, foreign>>

\* Seeded change for Revived: every frame begins it.
BeginAgain(recovery) == [active |-> TRUE, elapsed |-> 0, initialXp |-> player.experience]

beginDeathRecovery(recovery) ==
    IF recovery.active THEN recovery
    ELSE [active |-> TRUE, elapsed |-> 0, initialXp |-> player.experience]

\* A frame lasts one unit of time. A fraction of experience is still some.
Drained(recovery) ==
    (recovery.initialXp * (Duration - recovery.elapsed) + Duration - 1) \div Duration

isDeathRecoveryExpired == sDeathRecovery.active /\ sDeathRecovery.elapsed >= Duration

getDeathRespawnDelay(p) ==
    BaseDelay + (IF p.experience > 0 THEN 0 ELSE p.level * CooldownPerLevel)

Patience == AtLeast(BaseDelay + MaxLevel * CooldownPerLevel, Duration) \* no delay is longer

\* The frame of a player that is dead, in the game and not paused. It ends with
\* resurrection, the penalty and the way to a shrine, which may be travel.
Frame ==
    /\ player.dead
    /\ LET begun == beginDeathRecovery(sDeathRecovery)
           recovery == [begun EXCEPT !.elapsed = AtMost(Duration, @ + 1)]
           p == [player EXCEPT !.experience = Drained(recovery), !.stale = @ \/ foreign]
           timer == AtMost(Patience, mRespawnTimer + 1)
           revived == [p EXCEPT !.dead = FALSE, !.experience = 0, !.died = NotDead]
       IN IF timer >= getDeathRespawnDelay(p) /\ recovery.elapsed >= Duration
          THEN /\ player' \in {q \in {revived} \cup awardTravel(revived) : q.level < MaxLevel}
               /\ sDeathRecovery' = NoRecovery
               /\ mRespawnTimer' = 0
               /\ foreign' = FALSE
          ELSE /\ player' = p
               /\ sDeathRecovery' = recovery
               /\ mRespawnTimer' = timer
               /\ UNCHANGED foreign
    /\ UNCHANGED <<saved, deaths, loads>>

\* The frame of a living player.
finishDeathRecovery ==
    /\ ~player.dead
    /\ sDeathRecovery' = NoRecovery
    /\ mRespawnTimer' = 0
    /\ foreign' = FALSE
    /\ UNCHANGED <<player, saved, deaths, loads>>

\* Seeded change for PenaltiesOnlyTake: what has been drained is given back.
PotionGivesBack ==
    /\ sDeathRecovery.active /\ ~isDeathRecoveryExpired
    /\ player.dead
    /\ player.potions > 0
    /\ player' = [player EXCEPT !.potions = @ - 1, !.dead = FALSE, !.died = NotDead,
                                !.experience = sDeathRecovery.initialXp]
    /\ sDeathRecovery' = NoRecovery
    /\ foreign' = FALSE
    /\ UNCHANGED <<mRespawnTimer, saved, deaths, loads>>

\* The key that activates things, while the player recovers.
tryPotionRecovery ==
    /\ sDeathRecovery.active /\ ~isDeathRecoveryExpired
    /\ player.dead
    /\ player.potions > 0
    /\ player' = [player EXCEPT !.potions = @ - 1, !.dead = FALSE, !.died = NotDead]
    /\ sDeathRecovery' = NoRecovery
    /\ foreign' = FALSE
    /\ UNCHANGED <<mRespawnTimer, saved, deaths, loads>>

applyJailPenalty ==
    /\ ~player.dead
    /\ player.experience > 0
    /\ Becomes([player EXCEPT !.experience = (@ + 1) \div 2])

-----------------------------------------------------------------------------
(* Saved games: the state of the recovery is not part of them. *)

\* The bounds on saves: they can be loaded and, with EarlySaves, were made early.
Early == player.paid = {} /\ player.slot = 0 /\ player.level = 1 /\ player.experience > 0

Save ==
    /\ loads < MaxLoads
    /\ EarlySaves => Early
    /\ saved' = player
    /\ UNCHANGED <<player, sDeathRecovery, mRespawnTimer, deaths, loads, foreign>>

Load ==
    /\ saved # Absent
    /\ loads < MaxLoads
    /\ loads' = loads + 1
    /\ player' = saved
    /\ saved' = IF loads' < MaxLoads THEN saved ELSE Absent \* it cannot be loaded again
    /\ foreign' = sDeathRecovery.active
    /\ UNCHANGED <<sDeathRecovery, mRespawnTimer, deaths>>

Rewards ==
    \/ awardSkillUse \/ awardSuccessfulTrade \/ awardCriticalHit \/ awardKill
    \/ awardSuccessfulTheft \/ ActionRead \/ changePlayerCell
    \/ \E i \in Stages : addEntry(i)

Next ==
    \/ Rewards \/ Later \/ spendSkillPoints
    \/ Die \/ Frame \/ finishDeathRecovery \/ tryPotionRecovery \/ applyJailPenalty
    \/ Save \/ Load

Spec == Init /\ [][Next]_vars

\* Frames come as long as the player does not stay in the main menu.
FairSpec == Spec /\ WF_vars(Frame)
-----------------------------------------------------------------------------
(* Properties. *)

Player ==
    [ level : 1..MaxLevel, experience : Nat, skillPoints : Nat,
      skill : Nat, attribute : 0..Cap, progress : Nat,
      keys : SUBSET Keys, journal : SUBSET Stages, finished : BOOLEAN, read : BOOLEAN,
      slot : 0..MaxSlot, potions : Nat, dead : BOOLEAN,
      from : Nat \X Nat, paid : SUBSET Keys, twice : BOOLEAN,
      learnt : SUBSET (0..Cap), died : [level : 1..MaxLevel, experience : Nat],
      stale : BOOLEAN ]

\* The type invariant: shapes, no negative amounts, bounds.
TypeOK ==
    /\ player \in Player
    /\ sDeathRecovery \in [active : BOOLEAN, elapsed : 0..Duration, initialXp : Nat]
    /\ mRespawnTimer \in 0..Patience
    /\ saved \in Player \cup {Absent}
    /\ deaths \in 0..MaxDeaths /\ loads \in 0..MaxLoads
    /\ foreign \in BOOLEAN

\* Whatever is rewarded and whatever raises a level, no experience is left that
\* would buy the next level, in recovery and after it as well.
BankedAtOnce == player.stale \/ player.experience < xpRequirementForLevel(player.level)

\* No journal entry, no completion of a quest (even one started again) and no
\* slot of travel is paid for twice, and no two thefts are rewarded without
\* another reward between them; failed rolls and worthless deeds do not count.
NothingPaidTwice == ~player.twice

\* The points of the skill that were bought, and the skill points due for them:
\* CHANGELOG.md:56 and xpleveling.hpp:26 weigh the price by class.
Bought(p) == (p.from[1]..(p.skill - 1)) \ p.learnt
Weight == [major |-> 1, minor |-> 2, misc |-> 3]
DuePoints(p) == {x \in Bought(p) \X (1..12) : x[2] =< Weight[Importance] * getSkillPointCost(x[1])}

\* Skill points are neither lost nor made: those that are left and the prices of
\* the points of skill that were bought are all that the levels have given.
PricedByClass ==
    player.skillPoints + Cardinality(DuePoints(player)) = PointsPerLevel * (player.level - 1)

\* So it is of a Major skill.  spendSkillPoints charges the same for the others, which
\* is a half and a third of the price that is promised: there PricedByClass fails.
PointsAccounted == Importance = "major" => PricedByClass

Total(p) == Threshold[p.level] + p.experience

\* A recovery that was begun in another game, or before a level that was
\* reached while dead, gives back experience: two flaws the property leaves out.
Excused == player.dead /\ (foreign \/ player.level # player.died.level)

\* Frames of a dead player, potions and jail never add to what has been earned,
\* but for the travel to a shrine.
PenaltiesOnlyTake ==
    [][(Frame \/ tryPotionRecovery \/ applyJailPenalty) /\ ~Excused
         => Total(player') =< Total(player) + IF player.dead /\ ~player'.dead THEN TravelXp ELSE 0]_vars

\* A player who dies comes back, whatever else happens and without any potion.
Revived == player.dead ~> ~player.dead

\* README.md:112, xpleveling.hpp:59, settings-default.cfg:477: experience that is
\* there at death is wiped instead of a longer delay.
NoCooldownAfterWipe ==
    player.dead /\ player.died.experience > 0 /\ loads = 0
        => ~(isDeathRecoveryExpired /\ mRespawnTimer >= BaseDelay)

=============================================================================

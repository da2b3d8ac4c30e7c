SPECIFICATION FairSpec
CONSTANTS
    BaseXp = 2
    IncrementStart = 1
    IncrementStep = 1
    IncrementThreshold = 2
    IncrementHighStep = 1
    PointsPerLevel = 4
    ActionXp = {1}
    KillXp = {0, 5}
    StageXp = 1
    QuestXp = 1
    TravelXp = 1
    TheftXp = 1
    BookXp = 1
    Stages = {1, 2}
    Finishing = {2}
    Restarting = {1}
    Silent = {1, 2}
    Importance = "major"
    AttributeGain = 3
    StartSkills = {89}
    StartAttributes = {50}
    Duration = 2
    BaseDelay = 1
    CooldownPerLevel = 1
    Absent = Absent
    MaxLevel = 4
    MaxSlot = 1
    MaxDeaths = 1
    MaxLoads = 1
    EarlySaves = TRUE
INVARIANTS BankedAtOnce NothingPaidTwice PointsAccounted
PROPERTIES PenaltiesOnlyTake Revived

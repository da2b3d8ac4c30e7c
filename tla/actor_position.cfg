SPECIFICATION Spec
CONSTANTS
    MaxSteps = 2
    MaxChanges = 4
INVARIANTS QuietChangesSurvive CollisionObjectFollows
PROPERTIES TeleportSurvivesFrame

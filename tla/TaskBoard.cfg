SPECIFICATION Spec
CONSTANTS
    Tasks = {a, b}
    Jobs = {j1, j2}
    Statuses = {"blocked", "done"}
    Edits = {"completed", "cancelled"}
    MaxFaults = 1
INVARIANTS
    TypeOK
    MilestoneTracksTasks
    CompletedMeansDone
PROPERTIES
    SettledIsShown
CHECK_DEADLOCK FALSE

SPECIFICATION Spec
CONSTANTS
    Tasks = {a, b}
    Jobs = {j1, j2}
    Statuses = {"blocked", "done"}
    Edits = {"completed", "cancelled"}
    MaxFaults = 1
PROPERTY CompletedIsNotAtRisk
CHECK_DEADLOCK FALSE

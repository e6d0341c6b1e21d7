SPECIFICATION Spec
CONSTANTS
    Configs <- MCConfigs
    ResultCap = 1
    MaxChanges = 3
    MaxBreaks = 0
INVARIANT
    ScheduleIsRecalculated

CHECK_DEADLOCK FALSE

SPECIFICATION Spec
CONSTANTS
    MaxBoot = 4
    MaxBusy = 2
INVARIANTS RestrictedSurvives CleanExitRecorded
CHECK_DEADLOCK FALSE

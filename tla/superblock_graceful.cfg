SPECIFICATION Spec
CONSTANTS
    MaxBoot = 3
    MaxBusy = 1
INVARIANTS NoReplayAfterGraceful
CHECK_DEADLOCK FALSE

SPECIFICATION Spec
CONSTANTS
    Configs <- MCConfigs
    Faults <- MCFaults
INVARIANTS FiltersAreExact JailedBeforeVm   NothingLeftBehind
PROPERTY LaunchSettles
CHECK_DEADLOCK FALSE

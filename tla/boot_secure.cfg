SPECIFICATION Spec
CONSTANTS
    Configs <- MCConfigs
    Faults <- MCFaults
INVARIANT SecureHostBoots
CHECK_DEADLOCK FALSE

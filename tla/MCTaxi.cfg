SPECIFICATION Spec
CONSTANTS
    Driver = {d1, d2}
    MAX_DRIVERS = 1
    Timer <- TwoTimers
    QCAP = 1
    MaxRestarts = 1
SYMMETRY Symmetry
INVARIANTS NoDuplicateRegistration HangsOnlyInMsgsnd
PROPERTIES ForgottenForever
CHECK_DEADLOCK FALSE

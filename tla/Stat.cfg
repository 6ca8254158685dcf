SPECIFICATION Spec
CONSTANTS
    Requests <- MCRequests
    Umasks <- MCUmasks
    Width = 3
INVARIANTS ModeSurvives AccessesAgree StringShowsBits MtimeIsAFiles
CHECK_DEADLOCK FALSE

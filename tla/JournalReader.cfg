SPECIFICATION FairSpec
CONSTANTS
    None = None
    MaxLines = 3
    MaxSegments = 3
    MaxEvents = 0
    MaxOverwrites = 1
INVARIANTS AcceptedReadIsSnapshot AlarmHasCause
PROPERTIES TerminalShownIsFinal DisplaySettles
CHECK_DEADLOCK FALSE

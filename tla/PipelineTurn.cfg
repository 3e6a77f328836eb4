CONSTANTS
    MaxTurns = 2
    MaxFaults = 2
SPECIFICATION TurnSpec
INVARIANTS TurnTypeOK ReportsWhatIsStored CompletedWasDelivered NoTurnLeftBehind DegradedIsSilent
PROPERTIES TerminalIsFinal OneCheckpoint
CHECK_DEADLOCK FALSE

CONSTANTS
    Script <- MCScript
    MaxGenerations = 2
    MaxBufferedCommands = 3
    MaxBufferedBytes = 2
    MaxAttempts = 2
    MaxQuickFailures = 2
SPECIFICATION SttSpec
INVARIANTS SttTypeOK GapFree ReplayInFull NoAudioLost CommitsAreBarriers NothingLeaks NobodySleepsThroughWork
CHECK_DEADLOCK FALSE

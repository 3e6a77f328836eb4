CONSTANTS
    MaxEvents = 6
    EventSizes = {1, 2}
    MaxPendingBytes = 3
SPECIFICATION TtsFairSpec
INVARIANTS TtsTypeOK OneVoice InOrderAndInFull NoStreamLeaks
PROPERTIES CancelIsPrompt
CHECK_DEADLOCK FALSE

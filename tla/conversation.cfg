CONSTANTS
    MaxChats = 2
    MaxSessions = 2
    MaxDeletes = 1
    MaxFaults = 1
    None = None
SPECIFICATION ConversationSpec
CHECK_DEADLOCK FALSE
INVARIANTS TranscriptInOrder CopyIsCurrent PanelIsOneConversation
PROPERTY DeletedStaysDeleted

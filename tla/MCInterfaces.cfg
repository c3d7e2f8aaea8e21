SPECIFICATION InterfaceSpec
CONSTANTS
    CompletionFrames <- MCCompletionFrames
    MessagesFrames <- MCMessagesFrames
    ChatFrames <- MCChatFrames
    ResponsesFrames <- MCResponsesFrames
    JsonAnswers <- MCJsonAnswers
    MaxFrames = 4
    KiroMarkers <- MCMarkers
    CustomTools = {"c"}
INVARIANTS
    CallsAreWhole
    CompleteIsTrue
    MessagesAreSound
    ChatIsSound
    ItemsAreSound
    StreamsAreTheAnswer
    SnapshotIsCurrent

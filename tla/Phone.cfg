SPECIFICATION PhoneSpec
CONSTANTS
    Parts = {"lobbyOfTwo", "lossyLobby", "anyLobby", "promptScan", "queuedScan", "link", "failingLink", "calc", "map", "faultyMap", "mapOnly", "oneSurface", "surfaces", "chat"}
CHECK_DEADLOCK FALSE
INVARIANTS LobbyKept TagUnderstood SpyingKept TeamShown DrawingKept RecordingKept
 

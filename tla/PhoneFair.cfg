SPECIFICATION PhoneSpec
CONSTANTS
    Parts = {"anyLobby", "queuedScan", "link", "map", "surfaces", "chat"}
CHECK_DEADLOCK FALSE
PROPERTIES BeginningsArrive RoundsEnd

CONSTANTS
  ByteSize = 16
  Lines <- ModelLines
  Texts <- ModelTexts
  Prefix <- ModelPrefix
  Lobbies <- ModelLobbies
  Broadcasts <- ModelBroadcasts
  MaxRequests = 3
  MaxTexts = 1
  MaxBroadcasts = 2
SPECIFICATION Spec
\* A session ends.
CHECK_DEADLOCK FALSE
INVARIANTS
  MessagesReceived

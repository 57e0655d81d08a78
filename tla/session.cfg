CONSTANTS
  ByteSize = 16
  Lines <- ModelLines
  Texts <- ModelTexts
  Prefix <- ModelPrefix
  Lobbies <- ModelLobbies
  Broadcasts <- ModelBroadcasts
  MaxRequests = 3
  MaxTexts = 1
  MaxBroadcasts = 2
SPECIFICATION FairSpec
\* A session ends.
CHECK_DEADLOCK FALSE
INVARIANTS
  TypeOK
  ResponsesArrive
  FramesArrive
  QuitIsLast
  LobbyShown
  EndsExplained
PROPERTIES
  QuitReturns

CONSTANTS
  a = a  b = b  c = c  Ann = Ann  Bob = Bob  Cyd = Cyd  Tea = Tea  Go = Go  None = None
  Names <- TwoNames
  Usernames <- TwoUsernames
  Peers <- TwoPeers
  Choices <- AnyUsername
  MaxRooms = 2
  BufSize = 2
  Capacity = 2
  MaxMessages = 2
  MaxRequests = 1
  Killable <- TwoPeers
SPECIFICATION Spec
SYMMETRY TwoNamesSymmetry
\* The system may rest: users need not connect, answer a prompt or leave.
CHECK_DEADLOCK FALSE
INVARIANTS
  TypeOK
  RegistryInv
  NoCorruption
  ClientsOutlived
  MessagesInOrder
  NoStrayMessage
  BrokerOutlivesClients

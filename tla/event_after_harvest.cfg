CONSTANTS
  a = a  b = b  c = c  Ann = Ann  Bob = Bob  Cyd = Cyd  Tea = Tea  Go = Go  None = None
  Names <- OneName
  Usernames <- TwoUsernames
  Peers <- TwoPeers
  Choices <- AnyUsername
  MaxRooms = 2
  BufSize = 1
  Capacity = 2
  MaxMessages = 0
  MaxRequests = 1
  Killable <- TwoPeers
SPECIFICATION Spec
SYMMETRY TwoPeersSymmetry
\* The system may rest: users need not connect, answer a prompt or leave.
CHECK_DEADLOCK FALSE
INVARIANTS
  EventsOfListedClients

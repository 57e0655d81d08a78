CONSTANTS
  a = a  b = b  c = c  Ann = Ann  Bob = Bob  Cyd = Cyd  Tea = Tea  Go = Go  None = None
  Names <- OneName
  Usernames <- ThreeUsernames
  Peers <- ThreePeers
  Choices <- OwnUsername
  MaxRooms = 3
  BufSize = 1
  Capacity = 2
  MaxMessages = 0
  MaxRequests = 1
  Killable <- Nobody
SPECIFICATION Spec
SYMMETRY ThreePeersSymmetry
\* The system may rest: users need not connect, answer a prompt or leave.
CHECK_DEADLOCK FALSE
INVARIANTS
  CapacityRespected
PROPERTIES
  ImplementsDirectory

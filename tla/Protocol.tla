------------------------------ MODULE Protocol ------------------------------
(***************************************************************************)
(* The vocabulary of rusty_chat (src/lib.rs): the frames a client program  *)
(* sends, the events the server's tasks exchange, the responses a client   *)
(* program receives.  Names, user names and message texts are members of   *)
(* small sets; the bytes they travel as are left out.                      *)
(***************************************************************************)
EXTENDS Naturals, Sequences, FiniteSets

CONSTANTS
  Peers,        \* the connections: every accepted TCP stream mints a peer_id
  Names,        \* the chatroom names a user may type
  Usernames,    \* the user names a user may type
  None,         \* no name: Option::None for a user name, an empty payload
  MaxRooms      \* the number of chatroom ids the model has

ASSUME NoneAssumption == None \notin Usernames \cup Names
ASSUME MaxRoomsAssumption == MaxRooms \in Nat

\* Chatroom ids (Uuid::new_v4), minted in increasing order.
Rooms == 1 .. MaxRooms

\* Option::None for a chatroom id; as the address of an event, the main broker.
NoRoom == 0

\* A frame: the variant and its payload.
Frame ==
  [kind : {"Quit", "Lobby"}, arg : {None}]
    \cup [kind : {"Join", "Create"}, arg : Names]
    \cup [kind : {"Username"}, arg : Usernames]
    \cup [kind : {"Message"}, arg : Nat]

\* An event: a frame with the peer it came from, or one of the two events that
\* a connection's read task makes up itself.
Event ==
  [kind : {"Quit", "Lobby", "NewClient", "ReadSync"}, arg : {None},
   peer_id : Peers]
    \cup [kind : {"Join", "Create"}, arg : Names, peer_id : Peers]
    \cup [kind : {"Username"}, arg : Usernames, peer_id : Peers]
    \cup [kind : {"Message"}, arg : Nat, peer_id : Peers]

\* The event handle_connection builds from a frame of peer p.
EventOf(p, frame) == [kind |-> frame.kind, arg |-> frame.arg, peer_id |-> p]

\* An event without a payload.
Signal(k, p) == [kind |-> k, arg |-> None, peer_id |-> p]

\* The variants of Response that name a chatroom or a user but carry no lobby.
PlainKinds ==
  {"ConnectionOk", "Subscribed", "ChatroomCreated", "UsernameAlreadyExists",
   "ExitChatroom", "ExitLobby", "ReadSync"}

\* The variants of Response that carry a picture of the lobby.
LobbyKinds ==
  {"ChatroomAlreadyExists", "ChatroomDoesNotExist", "ChatroomFull",
   "UsernameOk", "Lobby"}

\* A response.  lobby_state is the set of the listed chatrooms' names.  The
\* field room of a Message is not on the wire: it records the chatroom that
\* broadcast it, for the properties.
PlainResponse == [kind : PlainKinds]
LobbyResponse == [kind : LobbyKinds, lobby_state : SUBSET Names]
MessageResponse ==
  [kind : {"Message"}, peer_id : Peers, msg : Nat, room : Rooms]
Response == PlainResponse \cup LobbyResponse \cup MessageResponse

Plain(k) == [kind |-> k]
WithLobby(k, names) == [kind |-> k, lobby_state |-> names]
MessageOf(event, r) ==
  [kind |-> "Message", peer_id |-> event.peer_id, msg |-> event.arg, room |-> r]

=============================================================================

----------------------------- MODULE ChatState ------------------------------
(***************************************************************************)
(* The state of one chat server and of the client programs that connect to *)
(* it: the variables of every task, the channels between the tasks and the *)
(* two directions of every TCP connection.  The modules that extend this   *)
(* one hold the actions of one kind of task each; ChatServer composes them.*)
(*                                                                         *)
(* A bounded async-std channel is a sequence that holds BufSize messages;  *)
(* an unbounded one is a sequence.  A client's socket is two sequences.    *)
(* Message lengths, partial reads and full kernel buffers are left out.    *)
(***************************************************************************)
EXTENDS Protocol

CONSTANTS
  BufSize,      \* -b: capacity of the events channels, broadcast buffer size
  Capacity,     \* -c: how many clients may share a chatroom
  MaxMessages,  \* bound: messages a user types
  MaxRequests,  \* bound: chatrooms a user asks to create or join
  Killable,     \* the client programs that may be killed
  Choices       \* the user names each user may type

ASSUME BufSizeAssumption == BufSize \in Nat \ {0}
\* The command line accepts -c 0 too: the test for a full chatroom then never
\* holds, and nothing bounds a chatroom.
ASSUME CapacityAssumption == Capacity \in Nat
ASSUME BoundsAssumption == MaxMessages \in Nat /\ MaxRequests \in Nat
ASSUME KillableAssumption == Killable \subseteq Peers
ASSUME ChoicesAssumption == Choices \in [Peers -> SUBSET Usernames]
ASSUME PeersAssumption == IsFiniteSet(Peers)

VARIABLES
  \* the client program, client.rs and interface/
  page,                  \* the UIPage, or how the program ended
  step,                  \* what Interface::run awaits on that page
  lobby,                 \* the lobby_state of a LobbyPage
  sent,                  \* how many messages the user typed
  requests,              \* how many Create and Join frames the user sent
  \* the TCP connection
  to_server, to_client,
  \* handle_connection, the read task
  read_pc, chatroom_sender,
  outgoing,              \* the send it is suspended in: <<>> or one element
  \* client_write_loop, the write task
  write_pc, chat_receiver,
  \* the main broker's locals, and the chatrooms' shared parts
  broker_pc, clients, username, chatroom_broker_id, client_usernames,
  chatroom_brokers, chatroom_name, num_clients, chatroom_name_to_id,
  \* the chatroom sub-brokers
  room_pc,
  \* the channels
  events,                \* read tasks to the main broker, bounded
  main_responses,        \* main broker to a write task
  chatroom_connection,   \* main broker to a read task: a chatroom's address
  subscriptions,         \* main broker to a write task: a broadcast receiver
  chat_events,           \* read tasks to a sub-broker, bounded
  client_exit,           \* sub-brokers to the main broker
  client_disconnection,  \* finished write tasks to the main broker
  disconnected_sub_broker \* finished sub-brokers to the main broker

ui_vars == <<page, step, lobby, sent, requests>>
sockets == <<to_server, to_client>>
read_vars == <<read_pc, chatroom_sender, outgoing>>
write_vars == <<write_pc, chat_receiver>>
client_vars == <<clients, username, client_usernames>>
room_vars ==
  <<chatroom_brokers, chatroom_name, num_clients, chatroom_name_to_id>>
registry == <<broker_pc, client_vars, chatroom_broker_id, room_vars>>
harvest_channels == <<client_disconnection, disconnected_sub_broker>>
peer_channels == <<main_responses, chatroom_connection, subscriptions>>
channels ==
  <<events, peer_channels, chat_events, client_exit, harvest_channels>>
vars ==
  <<ui_vars, sockets, read_vars, write_vars, registry, room_pc, channels>>

-----------------------------------------------------------------------------
(* The client program                                                      *)

OpenPages == {"WelcomePage", "UsernamePage", "LobbyPage", "Chatroom", "QuitChatroom"}

\* Unstarted: not connected yet.  QuitLobbyPage: run returned Ok.  Crashed: a
\* response it did not expect.  Gone: its connection failed or it was killed.
Pages == OpenPages \cup {"Unstarted", "QuitLobbyPage", "Crashed", "Gone"}

\* response: in state_from_response.  readsync, subscription: in its second
\* try_parse.  request: in process_request, with the user.
Steps == {"response", "readsync", "subscription", "request"}

ClientOpen(p) == page[p] \in OpenPages
ClientClosed(p) == page[p] \in {"QuitLobbyPage", "Crashed", "Gone"}

-----------------------------------------------------------------------------
(* The connection and the tasks that hold its server end                   *)

IsNewClient(event, p) == event.kind = "NewClient" /\ event.peer_id = p

\* The Arc<TcpStream> of a NewClient event that nobody has taken from the queue.
StreamInQueue(p) == \E i \in DOMAIN events : IsNewClient(events[i], p)

\* The last clone of the Arc is dropped: the socket's server end is closed.
ServerClosed(p) ==
  read_pc[p] = "done" /\ write_pc[p] # "running" /\ ~StreamInQueue(p)

\* A broadcast receiver: the chatroom, the messages still to be read, whether
\* older ones were overwritten.  The write task starts on a dummy channel.
Receiver(r) == [room |-> r, queue |-> <<>>, lagged |-> FALSE]
DummyReceiver == Receiver(NoRoom)

\* The broadcast buffer: tokio rounds its length up to a power of two.
RingSize == CHOOSE n \in BufSize .. 2 * BufSize - 1 :
              \E k \in 0 .. BufSize : n = 2 ^ k

\* Mutant of Pushed: the newest message is read first.
PushedFirst(receiver, m) ==
  LET all == <<m>> \o receiver.queue
      full == Len(all) > RingSize
  IN [receiver EXCEPT !.queue = IF full THEN Tail(all) ELSE all, !.lagged = @ \/ full]

\* One more message m in a receiver's share of the buffer: if that is full, the
\* oldest message is overwritten.
Pushed(receiver, m) ==
  LET all == Append(receiver.queue, m)
      full == Len(all) > RingSize
  IN [receiver EXCEPT !.queue = IF full THEN Tail(all) ELSE all, !.lagged = @ \/ full]

-----------------------------------------------------------------------------
(* The main broker and its channels                                        *)

BrokerRunning == broker_pc = "running"

\* How the main broker may end, by the error it returns.
BrokerErrors ==
  {"NoSuchClient",        \* an event of a client that was harvested
   "IllegalEvent",        \* an event the client must not send in its state
   "ReadTaskGone",        \* a new chatroom for a read task that has ended
   "ExitOfUnknownClient", \* an exit of a client that was harvested
   "RoomStillInMap",      \* a sub-broker ended before its chatroom was removed
   "Corrupt"}             \* the maps disagree with one another

Members(r) == {p \in clients : chatroom_broker_id[p] = r}

\* create_lobby_state
LobbyState == {chatroom_name[r] : r \in chatroom_brokers}

Put(channel, key, m) == [channel EXCEPT ![key] = Append(@, m)]
Empty(channel, key) == [channel EXCEPT ![key] = <<>>]

=============================================================================

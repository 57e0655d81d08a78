----------------------------- MODULE MainBroker -----------------------------
(***************************************************************************)
(* The main broker task (broker, src/bin/server.rs) and its event handlers *)
(* (src/bin/server_handlers/mod.rs).  One action per branch of its select! *)
(* and per event.  Its own sends are on unbounded channels and never wait, *)
(* so a branch is one atomic step.                                         *)
(***************************************************************************)
EXTENDS ChatState

-----------------------------------------------------------------------------
(* Helpers                                                                 *)

\* The broker returns an error.  Its locals are dropped: the maps, and with
\* them every sender to a client's tasks and every chatroom's shutdown sender;
\* and the receivers of the channels it harvests, with what they still hold.
\* What it already sent to a running task can still be read there.
BrokerFails(reason) ==
  /\ broker_pc' = reason
  /\ clients' = {}
  /\ username' = [p \in Peers |-> None]
  /\ client_usernames' = {}
  /\ chatroom_broker_id' = [p \in Peers |-> NoRoom]
  /\ chatroom_brokers' = {}
  /\ num_clients' = [r \in Rooms |-> 0]
  /\ chatroom_name_to_id' = [n \in Names |-> NoRoom]
  /\ room_pc' = [r \in Rooms |->
                   IF room_pc[r] = "ended" THEN "harvested" ELSE room_pc[r]]
  /\ chat_events' = [r \in Rooms |->
                       IF room_pc[r] = "ended" THEN <<>> ELSE chat_events[r]]
  /\ main_responses' = [p \in Peers |->
                          IF write_pc[p] = "done" THEN <<>> ELSE main_responses[p]]
  /\ subscriptions' = [p \in Peers |->
                         IF write_pc[p] = "done" THEN <<>> ELSE subscriptions[p]]
  /\ client_exit' = <<>>
  /\ client_disconnection' = <<>>
  /\ disconnected_sub_broker' = <<>>
  /\ UNCHANGED <<chatroom_name, chatroom_connection>>

\* What the broker relies on when a client leaves chatroom r: it is in the
\* map, and so is its name if the chatroom is to be removed.
RoomIsListed(r) ==
  /\ r \in chatroom_brokers
  /\ num_clients[r] = 1 => chatroom_name_to_id[chatroom_name[r]] # NoRoom

\* Mutant of LeaveRoom: the last client leaves the name behind.
LeaveRoomKeepsName(r) ==
  /\ num_clients' = [num_clients EXCEPT ![r] = @ - 1]
  /\ chatroom_brokers' = IF num_clients[r] = 1 THEN chatroom_brokers \ {r}
                                               ELSE chatroom_brokers
  /\ UNCHANGED <<chatroom_name, chatroom_name_to_id>>

\* One client less in chatroom r.  The last one takes it out of both maps,
\* which drops its shutdown sender.
LeaveRoom(r) ==
  /\ num_clients' = [num_clients EXCEPT ![r] = @ - 1]
  /\ IF num_clients[r] = 1
     THEN /\ chatroom_brokers' = chatroom_brokers \ {r}
          /\ chatroom_name_to_id' =
               [chatroom_name_to_id EXCEPT ![chatroom_name[r]] = NoRoom]
     ELSE UNCHANGED <<chatroom_brokers, chatroom_name_to_id>>
  /\ UNCHANGED chatroom_name

\* The broker's response to client p.
Respond(p, response) == main_responses' = Put(main_responses, p, response)

-----------------------------------------------------------------------------
(* Harvesting                                                              *)

\* What the broker relies on when it harvests client p.
ClientIsListed(p) ==
  /\ p \in clients
  /\ username[p] # None => username[p] \in client_usernames
  /\ chatroom_broker_id[p] # NoRoom => RoomIsListed(chatroom_broker_id[p])

\* Mutant of HarvestClient: a client that disconnects keeps its place in the
\* chatroom it was in.
HarvestClientKeepsPlace ==
  /\ BrokerRunning
  /\ client_disconnection # <<>>
  /\ LET p == Head(client_disconnection)
     IN /\ client_disconnection' = Tail(client_disconnection)
        /\ clients' = clients \ {p}
        /\ username' = [username EXCEPT ![p] = None]
        /\ client_usernames' = client_usernames \ {username[p]}
        /\ chatroom_broker_id' = [chatroom_broker_id EXCEPT ![p] = NoRoom]
        /\ main_responses' = Empty(main_responses, p)
        /\ subscriptions' = Empty(subscriptions, p)
  /\ UNCHANGED <<room_vars, broker_pc, room_pc, chatroom_connection, chat_events,
                 client_exit, disconnected_sub_broker, ui_vars, sockets,
                 read_vars, write_vars, events>>

\* A disconnected client: forget it, its user name and its place in a room.
\* Its write task's receivers came with the notice and are dropped.
HarvestClient ==
  /\ BrokerRunning
  /\ client_disconnection # <<>>
  /\ LET p == Head(client_disconnection)
         r == chatroom_broker_id[p]
     IN IF ~ClientIsListed(p)
        THEN BrokerFails("Corrupt")
        ELSE /\ client_disconnection' = Tail(client_disconnection)
             /\ clients' = clients \ {p}
             /\ username' = [username EXCEPT ![p] = None]
             /\ client_usernames' = client_usernames \ {username[p]}
             /\ chatroom_broker_id' = [chatroom_broker_id EXCEPT ![p] = NoRoom]
             /\ IF r = NoRoom THEN UNCHANGED room_vars ELSE LeaveRoom(r)
             /\ main_responses' = Empty(main_responses, p)
             /\ subscriptions' = Empty(subscriptions, p)
             /\ UNCHANGED <<broker_pc, room_pc, chatroom_connection,
                            chat_events, client_exit, disconnected_sub_broker>>
  /\ UNCHANGED <<ui_vars, sockets, read_vars, write_vars, events>>

\* A finished sub-broker: its chatroom must be gone from the map.
HarvestRoom ==
  /\ BrokerRunning
  /\ disconnected_sub_broker # <<>>
  /\ LET r == Head(disconnected_sub_broker)
     IN IF r \in chatroom_brokers
        THEN BrokerFails("RoomStillInMap")
        ELSE /\ disconnected_sub_broker' = Tail(disconnected_sub_broker)
             /\ room_pc' = [room_pc EXCEPT ![r] = "harvested"]
             /\ chat_events' = Empty(chat_events, r)
             /\ UNCHANGED <<registry, events, peer_channels, client_exit,
                            client_disconnection>>
  /\ UNCHANGED <<ui_vars, sockets, read_vars, write_vars, events>>

\* Mutant of ClientExit: the client's chatroom id is read, not taken.
ClientExitKeepsId ==
  /\ BrokerRunning
  /\ client_exit # <<>>
  /\ LET p == Head(client_exit)
         r == chatroom_broker_id[p]
     IN IF p \notin clients
        THEN BrokerFails("ExitOfUnknownClient")
        ELSE IF r = NoRoom \/ ~RoomIsListed(r)
        THEN BrokerFails("Corrupt")
        ELSE /\ client_exit' = Tail(client_exit)
             /\ LeaveRoom(r)
             /\ Respond(p, Plain("ExitChatroom"))
             /\ UNCHANGED <<broker_pc, client_vars, chatroom_broker_id, room_pc,
                            chatroom_connection, subscriptions, chat_events,
                            harvest_channels>>
  /\ UNCHANGED <<ui_vars, sockets, read_vars, write_vars, events>>

\* A client left its chatroom: answer ExitChatroom and free its place.
ClientExit ==
  /\ BrokerRunning
  /\ client_exit # <<>>
  /\ LET p == Head(client_exit)
         r == chatroom_broker_id[p]
     IN IF p \notin clients
        THEN BrokerFails("ExitOfUnknownClient")
        ELSE IF r = NoRoom \/ ~RoomIsListed(r)
        THEN BrokerFails("Corrupt")
        ELSE /\ client_exit' = Tail(client_exit)
             /\ chatroom_broker_id' = [chatroom_broker_id EXCEPT ![p] = NoRoom]
             /\ LeaveRoom(r)
             /\ Respond(p, Plain("ExitChatroom"))
             /\ UNCHANGED <<broker_pc, client_vars, room_pc,
                            chatroom_connection, subscriptions, chat_events,
                            harvest_channels>>
  /\ UNCHANGED <<ui_vars, sockets, read_vars, write_vars, events>>

-----------------------------------------------------------------------------
(* Events                                                                  *)

\* The states in which the handlers of these events do not return an error.
MayReadSync(p) ==
  p \in clients /\ username[p] # None /\ chatroom_broker_id[p] # NoRoom
MayEnter(p) ==
  p \in clients /\ username[p] # None /\ chatroom_broker_id[p] = NoRoom
MayTakeUsername(p) ==
  p \in clients /\ username[p] = None /\ chatroom_broker_id[p] = NoRoom

\* The broker goes on after this event.
Acceptable(event) ==
  LET p == event.peer_id
  IN \/ event.kind = "Quit"
     \/ event.kind = "NewClient" /\ p \notin clients
     \/ event.kind = "Lobby" /\ p \in clients
     \/ event.kind = "ReadSync" /\ MayReadSync(p)
     \/ event.kind \in {"Create", "Join"} /\ MayEnter(p)
     \/ event.kind = "Username" /\ MayTakeUsername(p)

\* The broker takes an acceptable event of this kind.
Takes(kind) ==
  /\ BrokerRunning
  /\ events # <<>>
  /\ Head(events).kind = kind
  /\ Acceptable(Head(events))
  /\ events' = Tail(events)

\* Any other event ends the broker.
RejectEvent ==
  /\ BrokerRunning
  /\ events # <<>>
  /\ ~Acceptable(Head(events))
  /\ events' = Tail(events)
  /\ BrokerFails(IF /\ Head(events).kind \notin {"NewClient", "Message"}
                    /\ Head(events).peer_id \notin clients
                 THEN "NoSuchClient" ELSE "IllegalEvent")
  /\ UNCHANGED <<ui_vars, sockets, read_vars, write_vars>>

\* An event of the lobby changes nothing of the tasks and of their addresses.
OnlyAnswers ==
  UNCHANGED <<ui_vars, sockets, read_vars, write_vars, broker_pc, room_pc,
              chatroom_connection, subscriptions, chat_events, client_exit,
              harvest_channels>>

\* handle_new_client_event: spawn the write task and greet the client.
NewClient ==
  /\ Takes("NewClient")
  /\ LET p == Head(events).peer_id
     IN /\ clients' = clients \cup {p}
        /\ write_pc' = [write_pc EXCEPT ![p] = "running"]
        /\ Respond(p, Plain("ConnectionOk"))
  /\ UNCHANGED <<ui_vars, sockets, read_vars, chat_receiver, broker_pc,
                 username, client_usernames, chatroom_broker_id, room_vars,
                 room_pc, chatroom_connection, subscriptions, chat_events,
                 client_exit, harvest_channels>>

\* The client quit the program: its read task's end tells its write task.
QuitEvent ==
  /\ Takes("Quit")
  /\ OnlyAnswers
  /\ UNCHANGED <<client_vars, chatroom_broker_id, room_vars, main_responses>>

\* handle_lobby_event
Lobby ==
  /\ Takes("Lobby")
  /\ Respond(Head(events).peer_id, WithLobby("Lobby", LobbyState))
  /\ OnlyAnswers
  /\ UNCHANGED <<client_vars, chatroom_broker_id, room_vars>>

\* handle_read_sync_event
ReadSync ==
  /\ Takes("ReadSync")
  /\ Respond(Head(events).peer_id, Plain("ReadSync"))
  /\ OnlyAnswers
  /\ UNCHANGED <<client_vars, chatroom_broker_id, room_vars>>

\* handle_username_event
Username ==
  /\ Takes("Username")
  /\ LET p == Head(events).peer_id
         new_username == Head(events).arg
     IN IF new_username \in client_usernames
        THEN /\ Respond(p, Plain("UsernameAlreadyExists"))
             /\ UNCHANGED <<username, client_usernames>>
        ELSE /\ Respond(p, WithLobby("UsernameOk", LobbyState))
             /\ username' = [username EXCEPT ![p] = new_username]
             /\ client_usernames' = client_usernames \cup {new_username}
  /\ OnlyAnswers
  /\ UNCHANGED <<clients, chatroom_broker_id, room_vars>>

\* Mutant of Refuse: the refused client is not told.
RefuseSilently(kind) ==
  /\ OnlyAnswers
  /\ UNCHANGED <<client_vars, chatroom_broker_id, room_vars, main_responses>>

\* The client is told no: nothing but the response.
Refuse(kind) ==
  /\ Respond(Head(events).peer_id, WithLobby(kind, LobbyState))
  /\ OnlyAnswers
  /\ UNCHANGED <<client_vars, chatroom_broker_id, room_vars>>

\* The client's two tasks learn of chatroom r: the read task gets its address,
\* the write task a new receiver of its broadcasts with the response to write.
Admit(p, r, response) ==
  /\ chatroom_broker_id' = [chatroom_broker_id EXCEPT ![p] = r]
  /\ chatroom_connection' = Put(chatroom_connection, p, r)
  /\ subscriptions' =
       Put(subscriptions, p, [receiver |-> Receiver(r), response |-> response])
  /\ UNCHANGED <<ui_vars, sockets, read_vars, write_vars, broker_pc,
                 client_vars, main_responses, chat_events, client_exit,
                 harvest_channels>>

\* Ids are minted in increasing order.
IsFresh(r) ==
  /\ room_pc[r] = "unborn"
  /\ \A s \in Rooms : s < r => room_pc[s] # "unborn"

\* Mutant of Create: the name is not looked for in the map of names.
CreateAnyName ==
  /\ Takes("Create")
  /\ LET p == Head(events).peer_id
         name == Head(events).arg
     IN IF read_pc[p] = "done"
        THEN /\ BrokerFails("ReadTaskGone")
             /\ UNCHANGED <<ui_vars, sockets, read_vars, write_vars>>
        ELSE \E r \in Rooms :
             /\ IsFresh(r)
             /\ room_pc' = [room_pc EXCEPT ![r] = "running"]
             /\ chatroom_brokers' = chatroom_brokers \cup {r}
             /\ chatroom_name' = [chatroom_name EXCEPT ![r] = name]
             /\ num_clients' = [num_clients EXCEPT ![r] = 1]
             /\ chatroom_name_to_id' = [chatroom_name_to_id EXCEPT ![name] = r]
             /\ Admit(p, r, Plain("ChatroomCreated"))

\* handle_create_event.  If the read task has ended the broker fails with the
\* chatroom already made: its sub-broker finds the shutdown sender dropped and
\* ends, and no other task ever learns of it.
Create ==
  /\ Takes("Create")
  /\ LET p == Head(events).peer_id
         name == Head(events).arg
     IN IF chatroom_name_to_id[name] # NoRoom
        THEN Refuse("ChatroomAlreadyExists")
        ELSE IF read_pc[p] = "done"
        THEN /\ BrokerFails("ReadTaskGone")
             /\ UNCHANGED <<ui_vars, sockets, read_vars, write_vars>>
        ELSE \E r \in Rooms :
             /\ IsFresh(r)
             /\ room_pc' = [room_pc EXCEPT ![r] = "running"]
             /\ chatroom_brokers' = chatroom_brokers \cup {r}
             /\ chatroom_name' = [chatroom_name EXCEPT ![r] = name]
             /\ num_clients' = [num_clients EXCEPT ![r] = 1]
             /\ chatroom_name_to_id' = [chatroom_name_to_id EXCEPT ![name] = r]
             /\ Admit(p, r, Plain("ChatroomCreated"))

\* Mutant of Join: the name is not looked for in the map of names.
JoinAnyName ==
  /\ Takes("Join")
  /\ LET r == chatroom_name_to_id[Head(events).arg]
     IN IF r # NoRoom /\ num_clients[r] = Capacity
        THEN Refuse("ChatroomFull")
        ELSE /\ num_clients' = [s \in Rooms |->
                                  IF s = r THEN num_clients[s] + 1 ELSE num_clients[s]]
             /\ Admit(Head(events).peer_id, r, Plain("Subscribed"))
             /\ UNCHANGED <<room_pc, chatroom_brokers, chatroom_name,
                            chatroom_name_to_id>>

\* Mutant of Join: a chatroom is full one client too late.
JoinLate ==
  /\ Takes("Join")
  /\ LET p == Head(events).peer_id
         r == chatroom_name_to_id[Head(events).arg]
     IN IF r = NoRoom
        THEN Refuse("ChatroomDoesNotExist")
        ELSE IF num_clients[r] > Capacity
        THEN Refuse("ChatroomFull")
        ELSE /\ num_clients' = [num_clients EXCEPT ![r] = @ + 1]
             /\ Admit(p, r, Plain("Subscribed"))
             /\ UNCHANGED <<room_pc, chatroom_brokers, chatroom_name,
                            chatroom_name_to_id>>

\* handle_join_event
Join ==
  /\ Takes("Join")
  /\ LET p == Head(events).peer_id
         r == chatroom_name_to_id[Head(events).arg]
     IN IF r = NoRoom
        THEN Refuse("ChatroomDoesNotExist")
        ELSE IF r \notin chatroom_brokers
        THEN /\ BrokerFails("Corrupt")
             /\ UNCHANGED <<ui_vars, sockets, read_vars, write_vars>>
        ELSE IF num_clients[r] = Capacity
        THEN Refuse("ChatroomFull")
        ELSE IF read_pc[p] = "done"
        THEN /\ BrokerFails("ReadTaskGone")
             /\ UNCHANGED <<ui_vars, sockets, read_vars, write_vars>>
        ELSE /\ num_clients' = [num_clients EXCEPT ![r] = @ + 1]
             /\ Admit(p, r, Plain("Subscribed"))
             /\ UNCHANGED <<room_pc, chatroom_brokers, chatroom_name,
                            chatroom_name_to_id>>

=============================================================================

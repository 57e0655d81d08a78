--------------------------- MODULE ChatProperties ---------------------------
(***************************************************************************)
(* What the chat server of ChatServer must and must not do.                *)
(***************************************************************************)
EXTENDS ChatServer

-----------------------------------------------------------------------------
(* Types                                                                   *)

Maybe(S) == S \cup {None}
RoomOrNone == Rooms \cup {NoRoom}

BroadcastReceiver ==
  [room : RoomOrNone, queue : Seq(MessageResponse), lagged : BOOLEAN]
SubscriptionOf == [receiver : BroadcastReceiver, response : Response]
SuspendedSend == [to : RoomOrNone, event : Event]

\* Every variable has its type.
TypeOK ==
  /\ page \in [Peers -> Pages]
  /\ step \in [Peers -> Steps]
  /\ lobby \in [Peers -> SUBSET Names]
  /\ sent \in [Peers -> Nat]
  /\ requests \in [Peers -> Nat]
  /\ to_server \in [Peers -> Seq(Frame)]
  /\ to_client \in [Peers -> Seq(Response)]
  /\ read_pc \in [Peers -> {"idle", "running", "done"}]
  /\ chatroom_sender \in [Peers -> RoomOrNone]
  /\ outgoing \in [Peers -> Seq(SuspendedSend)]
  /\ write_pc \in [Peers -> {"idle", "running", "done"}]
  /\ chat_receiver \in [Peers -> BroadcastReceiver]
  /\ broker_pc \in BrokerErrors \cup {"running"}
  /\ clients \in SUBSET Peers
  /\ username \in [Peers -> Maybe(Usernames)]
  /\ chatroom_broker_id \in [Peers -> RoomOrNone]
  /\ client_usernames \in SUBSET Usernames
  /\ chatroom_brokers \in SUBSET Rooms
  /\ chatroom_name \in [Rooms -> Maybe(Names)]
  /\ num_clients \in [Rooms -> Nat]
  /\ chatroom_name_to_id \in [Names -> RoomOrNone]
  /\ room_pc \in [Rooms -> {"unborn", "running", "ended", "harvested"}]
  /\ events \in Seq(Event)
  /\ main_responses \in [Peers -> Seq(Response)]
  /\ chatroom_connection \in [Peers -> Seq(Rooms)]
  /\ subscriptions \in [Peers -> Seq(SubscriptionOf)]
  /\ chat_events \in [Rooms -> Seq(Event)]
  /\ client_exit \in Seq(Peers)
  /\ client_disconnection \in Seq(Peers)
  /\ disconnected_sub_broker \in Seq(Rooms)

-----------------------------------------------------------------------------
(* The main broker's maps                                                  *)

\* The count a chatroom keeps is the number of clients that name it as theirs,
\* and the last one to leave takes the chatroom out of the map.
CountsAgree ==
  \A r \in Rooms :
    /\ num_clients[r] = Cardinality(Members(r))
    /\ r \in chatroom_brokers <=> num_clients[r] > 0

\* The name map and the chatroom map are inverses of each other.
NamesAgree ==
  /\ \A r \in chatroom_brokers :
       chatroom_name[r] \in Names /\ chatroom_name_to_id[chatroom_name[r]] = r
  /\ \A n \in Names : chatroom_name_to_id[n] # NoRoom =>
       /\ chatroom_name_to_id[n] \in chatroom_brokers
       /\ chatroom_name[chatroom_name_to_id[n]] = n

\* The set of taken user names is the set of the clients' names, no two of
\* which are the same, and only a named client is in a chatroom.
UsernamesAgree ==
  /\ client_usernames = {username[p] : p \in clients} \ {None}
  /\ \A p, q \in clients : username[p] # None /\ username[p] = username[q] => p = q
  /\ \A p \in Peers :
       /\ p \notin clients => username[p] = None /\ chatroom_broker_id[p] = NoRoom
       /\ chatroom_broker_id[p] # NoRoom => username[p] # None

\* The five places the broker keeps its state in agree after every event, and
\* with them the conditions under which it would return a StateError.
RegistryInv == CountsAgree /\ NamesAgree /\ UsernamesAgree

\* No chatroom holds more clients than its capacity, unless that is 0: the
\* broker tests for equality only (handle_join_event).
CapacityRespected == Capacity # 0 => \A r \in Rooms : num_clients[r] <= Capacity

\* The broker never finds its maps in disagreement, whoever leaves in whatever
\* order: by quitting, by a dead connection, from a room or from the lobby.
NoCorruption == broker_pc # "Corrupt"

\* A client in the map has a write task that holds its receivers, or the
\* notice with them is waiting to be harvested, once: a send to a client that
\* is in the map cannot find its channel closed.
ClientsOutlived ==
  /\ \A p \in clients :
       write_pc[p] = "running" \/ \E i \in DOMAIN client_disconnection :
                                     client_disconnection[i] = p
  /\ \A i \in DOMAIN client_disconnection :
       /\ client_disconnection[i] \in clients
       /\ write_pc[client_disconnection[i]] = "done"
       /\ \A j \in DOMAIN client_disconnection :
            client_disconnection[i] = client_disconnection[j] => i = j

-----------------------------------------------------------------------------
(* The directory                                                           *)

\* The name of the chatroom in which the main broker counts client p.
RoomNameOf(p) ==
  IF chatroom_broker_id[p] = NoRoom THEN None ELSE chatroom_name[chatroom_broker_id[p]]

\* The main broker's maps, read as the directory of users and chatrooms.
Dir == INSTANCE Directory WITH
         serving <- BrokerRunning,
         online <- clients,
         user <- username,
         room <- [p \in Peers |-> RoomNameOf(p)]

\* The server implements the directory: whatever its tasks do, each of its
\* steps is one change of the directory or none.  A user name or a chatroom
\* name has one owner at a time, a chatroom that is entered is open and not
\* full, and a place that is left is free at once (broker and its handlers).
ImplementsDirectory == Dir!Spec

-----------------------------------------------------------------------------
(* Switching a client between the lobby and a chatroom                     *)

\* No read task ever meets a frame that is illegal where it sends its events:
\* a client that speaks the protocol cannot be cut off by the order in which
\* the main broker, the read task and the write task learn of a chatroom.
NoIllegalFrame ==
  \A p \in Peers :
    Selecting(p) /\ to_server[p] # <<>> =>
      Head(to_server[p]).kind \in LegalFrames(chatroom_sender[p])

\* Nor does the main broker get an event that a live client must not send.
NoIllegalEvent == broker_pc # "IllegalEvent"

\* While a new chatroom address waits for the read task, no frame is on its
\* way: select! does not drop a half-read frame when it takes the address.
NoTornFrame ==
  \A p \in Peers :
    Selecting(p) /\ chatroom_connection[p] # <<>> => to_server[p] = <<>>

\* While the chat window is open both halves of the connection are tied to the
\* chatroom in which the main broker counts the client.
WiringAgrees ==
  \A p \in Peers :
    page[p] = "Chatroom" /\ step[p] = "request" =>
      /\ read_pc[p] = "running" =>
           chatroom_sender[p] = chatroom_broker_id[p] \/ p \notin clients
      /\ write_pc[p] = "running" /\ p \in clients =>
           /\ chat_receiver[p].room = chatroom_broker_id[p]
           /\ chatroom_broker_id[p] # NoRoom

\* After ExitChatroom no message follows until the client is in a chatroom
\* again, whatever the old chatroom still broadcasts.
NoStrayMessage ==
  \A p \in Peers : \A i, j \in DOMAIN to_client[p] :
    (i < j /\ to_client[p][i].kind = "ExitChatroom" /\ to_client[p][j].kind = "Message")
      => \E k \in i .. j : to_client[p][k].kind \in JoinedKinds

\* The messages of one sender reach a reader in the order they were typed, with
\* gaps at most: first those on the socket, then those its write task holds.
MessagesInOrder ==
  \A q \in Peers :
    LET inbox == to_client[q] \o chat_receiver[q].queue
        IsMessage(i) == inbox[i].kind = "Message"
    IN \A i, j \in DOMAIN inbox :
         i < j /\ IsMessage(i) /\ IsMessage(j) /\ inbox[i].peer_id = inbox[j].peer_id
           => inbox[i].msg < inbox[j].msg

-----------------------------------------------------------------------------
(* Failures                                                                *)

\* The main broker ends only after some client program has: as long as every
\* program is up, no order of events ends the server.
BrokerOutlivesClients ==
  ~BrokerRunning => \E p \in Peers : page[p] \in {"Crashed", "Gone"}

-----------------------------------------------------------------------------
(* What the source says of the program and the program does not keep       *)

\* ui_page/mod.rs:216: ReadSync "should be the only response that the client
\* receives" between Subscribed and the chat window.
OnlyReadSyncAwaited ==
  \A p \in Peers :
    step[p] = "readsync" /\ to_client[p] # <<>> => Head(to_client[p]).kind = "ReadSync"

\* Whoever sent what the main broker takes is still in its map: of the sender of
\* a request, server_handlers/mod.rs:69 says "ensure client is a valid connected
\* client", of a client that has left its chatroom server.rs:536 says "Ensure we
\* have a client with peer_id".
EventsOfListedClients == broker_pc \notin {"NoSuchClient", "ExitOfUnknownClient"}

\* server.rs:498: the chatroom of a sub-broker that has ended "should no longer
\* exist in map".
RoomRemovedFirst == broker_pc # "RoomStillInMap"

\* server.rs:405: the main broker sends "an ExitChatroom response to the client
\* that has exited": the write task does not end with that response in hand
\* while the client waits for it.
ExitAnswered ==
  [][\A p \in Peers :
       Writing(p) /\ write_pc'[p] = "done" /\ ClientOpen(p) =>
         \A i \in DOMAIN main_responses[p] : main_responses[p][i].kind # "ExitChatroom"]_vars

\* ui_page/mod.rs:308: after Ctrl-q "we just need to ensure the client receives
\* a ExitChatroom response": no message still on its way ends the program.
QuitSurvived ==
  [][\A p \in Peers :
       page[p] = "Chatroom" /\ step[p] = "response" => page'[p] # "Crashed"]_vars

-----------------------------------------------------------------------------
(* Liveness                                                                *)

\* A client whose read task has ended leaves the main broker's map.
ClientReaped ==
  \A p \in Peers : (read_pc[p] = "done" /\ p \in clients) ~> p \notin clients

\* The sub-broker of a chatroom that is no longer in the map ends and is
\* harvested.
RoomReaped ==
  \A r \in Rooms :
    (room_pc[r] \in {"running", "ended"} /\ r \notin chatroom_brokers)
      ~> room_pc[r] = "harvested"

\* A read task that is suspended on a full channel gets through: the main
\* broker never waits for a client, so nobody waits for it in a circle.
SuspensionEnds == \A p \in Peers : Suspended(p) ~> ~Suspended(p)

\* A client program that waits for a response gets one or finds its connection
\* closed, unless the main broker has ended.
Answered ==
  \A p \in Peers :
    (ClientOpen(p) /\ step[p] # "request")
      ~> (~ClientOpen(p) \/ step[p] = "request" \/ ~BrokerRunning)

=============================================================================

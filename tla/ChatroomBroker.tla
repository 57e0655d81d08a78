--------------------------- MODULE ChatroomBroker ---------------------------
(***************************************************************************)
(* The sub-broker task of a chatroom (chatroom_broker, src/bin/server.rs,  *)
(* and the task around it in handle_create_event).                         *)
(***************************************************************************)
EXTENDS ChatState

Serving(r) == room_pc[r] = "running"

\* Mutant of EndRoom: the main broker is not told.
EndRoomSilently(r) ==
  /\ room_pc' = [room_pc EXCEPT ![r] = "ended"]
  /\ UNCHANGED disconnected_sub_broker

\* chatroom_broker returns; the task sends its ends of the channels to the
\* main broker for harvesting.  If the broker has ended they are dropped.
EndRoom(r) ==
  IF BrokerRunning
  THEN /\ room_pc' = [room_pc EXCEPT ![r] = "ended"]
       /\ disconnected_sub_broker' = Append(disconnected_sub_broker, r)
  ELSE /\ room_pc' = [room_pc EXCEPT ![r] = "harvested"]
       /\ UNCHANGED disconnected_sub_broker

\* The receivers of the chatroom's broadcasts: those in use, and those still
\* on their way to a write task or held by one that has ended.
HoldsReceiver(p, r) ==
  \/ chat_receiver[p].room = r
  \/ \E i \in DOMAIN subscriptions[p] : subscriptions[p][i].receiver.room = r

\* Message m reaches every receiver of chatroom r.
Broadcast(r, m) ==
  /\ chat_receiver' =
       [p \in Peers |-> IF chat_receiver[p].room = r
                        THEN Pushed(chat_receiver[p], m) ELSE chat_receiver[p]]
  /\ subscriptions' =
       [p \in Peers |-> [i \in DOMAIN subscriptions[p] |->
          LET s == subscriptions[p][i]
          IN IF s.receiver.room = r
             THEN [s EXCEPT !.receiver = Pushed(s.receiver, m)] ELSE s]]

RoomOnly ==
  UNCHANGED <<ui_vars, sockets, read_vars, write_pc, registry, events,
              main_responses, chatroom_connection, client_disconnection>>

TakesEvent(r, kind) ==
  /\ Serving(r)
  /\ chat_events[r] # <<>>
  /\ Head(chat_events[r]).kind = kind
  /\ chat_events' = [chat_events EXCEPT ![r] = Tail(@)]

\* A message is broadcast.  With no receiver left that is an error.
RoomMessage(r) ==
  /\ TakesEvent(r, "Message")
  /\ IF \E p \in Peers : HoldsReceiver(p, r)
     THEN /\ Broadcast(r, MessageOf(Head(chat_events[r]), r))
          /\ UNCHANGED <<room_pc, disconnected_sub_broker>>
     ELSE EndRoom(r) /\ UNCHANGED <<chat_receiver, subscriptions>>
  /\ UNCHANGED client_exit
  /\ RoomOnly

\* A client quits: the main broker is told, if it is still there.
RoomQuit(r) ==
  /\ TakesEvent(r, "Quit")
  /\ IF BrokerRunning
     THEN /\ client_exit' = Append(client_exit, Head(chat_events[r]).peer_id)
          /\ UNCHANGED <<room_pc, disconnected_sub_broker>>
     ELSE EndRoom(r) /\ UNCHANGED client_exit
  /\ UNCHANGED <<chat_receiver, subscriptions>>
  /\ RoomOnly

\* The main broker dropped the shutdown sender with the chatroom's entry.
RoomShutdown(r) ==
  /\ Serving(r)
  /\ r \notin chatroom_brokers
  /\ EndRoom(r)
  /\ UNCHANGED <<chat_events, chat_receiver, subscriptions, client_exit>>
  /\ RoomOnly

=============================================================================

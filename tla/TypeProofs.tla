----------------------------- MODULE TypeProofs -----------------------------
(***************************************************************************)
(* Type correctness of ChatServer, for every value of the constants.  The  *)
(* steps of one kind of task are proved together, one step per action.     *)
(***************************************************************************)
EXTENDS ChatProperties, TLAPS

-----------------------------------------------------------------------------
(* Messages                                                                *)

\* A response without a lobby is a response.
LEMMA PlainType == \A k \in PlainKinds : Plain(k) \in Response
  BY DEF Plain, Response, PlainResponse

\* A response with a lobby is a response.
LEMMA WithLobbyType ==
  \A k \in LobbyKinds : \A S \in SUBSET Names : WithLobby(k, S) \in Response
  BY DEF WithLobby, Response, LobbyResponse

\* What a client program finds in a response with a lobby.
LEMMA LobbyStateType ==
  \A m \in Response : m.kind \in LobbyKinds => m.lobby_state \in SUBSET Names
  BY DEF Response, PlainResponse, LobbyResponse, MessageResponse, PlainKinds,
         LobbyKinds

\* An event of the read task without a payload is an event.
LEMMA SignalType ==
  \A k \in {"Quit", "Lobby", "NewClient", "ReadSync"} : \A p \in Peers :
    Signal(k, p) \in Event
  BY DEF Signal, Event

\* A frame with the peer it came from is an event.
LEMMA EventOfType ==
  \A p \in Peers : \A frame \in Frame : EventOf(p, frame) \in Event
  BY DEF EventOf, Frame, Event

\* What the tasks that take events find in them.
LEMMA EventParts ==
  \A event \in Event :
    /\ event.peer_id \in Peers
    /\ event.kind \in {"Create", "Join"} => event.arg \in Names
    /\ event.kind = "Username" => event.arg \in Usernames
    /\ event.kind = "Message" => event.arg \in Nat
  BY DEF Event

\* A broadcast is a message.
LEMMA MessageOfType ==
  \A event \in Event : \A r \in Rooms :
    event.kind = "Message" => MessageOf(event, r) \in MessageResponse
  BY EventParts DEF MessageOf, MessageResponse

\* A message is a response.
LEMMA MessageIsResponse == MessageResponse \subseteq Response
  BY DEF Response

\* One more message leaves a receiver a receiver, whatever the buffer holds.
LEMMA PushedType ==
  ASSUME NEW receiver \in BroadcastReceiver, NEW m \in MessageResponse
  PROVE  Pushed(receiver, m) \in BroadcastReceiver
<1> DEFINE all == Append(receiver.queue, m)
<1>1. receiver.queue \in Seq(MessageResponse) /\ receiver.lagged \in BOOLEAN
  BY DEF BroadcastReceiver
<1>2. all \in Seq(MessageResponse) /\ all # <<>>
  BY <1>1
<1>3. Tail(all) \in Seq(MessageResponse)
  BY <1>2
<1>4. (receiver.lagged \/ Len(all) > RingSize) \in BOOLEAN
  OBVIOUS
<1> QED
  BY <1>2, <1>3, <1>4 DEF Pushed, BroadcastReceiver

\* A new receiver is a receiver.
LEMMA ReceiverType == \A r \in RoomOrNone : Receiver(r) \in BroadcastReceiver
  BY DEF Receiver, BroadcastReceiver

-----------------------------------------------------------------------------
(* Channels                                                                *)

\* Sending keeps the type of a family of channels.
LEMMA PutType ==
  ASSUME NEW K, NEW S, NEW channel \in [K -> Seq(S)], NEW k \in K, NEW m \in S
  PROVE  Put(channel, k, m) \in [K -> Seq(S)]
<1>1. Append(channel[k], m) \in Seq(S)
  OBVIOUS
<1> QED
  BY <1>1 DEF Put

\* So does dropping what a channel holds.
LEMMA EmptyType ==
  ASSUME NEW K, NEW S, NEW channel \in [K -> Seq(S)], NEW k
  PROVE  Empty(channel, k) \in [K -> Seq(S)]
<1>1. <<>> \in Seq(S)
  OBVIOUS
<1> QED
  BY <1>1 DEF Empty

\* So does receiving.
LEMMA ReceiveType ==
  ASSUME NEW K, NEW S, NEW channel \in [K -> Seq(S)], NEW k \in K,
         channel[k] # <<>>
  PROVE  /\ [channel EXCEPT ![k] = Tail(@)] \in [K -> Seq(S)]
         /\ Head(channel[k]) \in S
<1>1. channel[k] \in Seq(S)
  OBVIOUS
<1>2. Tail(channel[k]) \in Seq(S) /\ Head(channel[k]) \in S
  BY <1>1
<1> QED
  BY <1>2

-----------------------------------------------------------------------------
(* The client programs                                                     *)

\* Reading takes the first response off the socket.
LEMMA ReadingType ==
  ASSUME TypeOK, NEW p \in Peers, to_client[p] # <<>>,
         to_client' = [to_client EXCEPT ![p] = Tail(@)]
  PROVE  to_client' \in [Peers -> Seq(Response)] /\ Head(to_client[p]) \in Response
  BY ReceiveType DEF TypeOK

\* The actions of a client program that read a response keep the types.
LEMMA ResponseTypes ==
  ASSUME TypeOK, NEW p \in Peers,
         \/ AskUsername(p) \/ ShowLobby(p) \/ AwaitConfirmation(p)
         \/ EnterChatroom(p) \/ ShowMessage(p) \/ LeaveChatroom(p)
         \/ SayGoodbye(p) \/ UnexpectedResponse(p)
  PROVE  TypeOK'
<1>1. to_client' \in [Peers -> Seq(Response)] /\ Head(to_client[p]) \in Response
  BY ReadingType DEF AskUsername, ShowLobby, AwaitConfirmation, EnterChatroom,
     ShowMessage, LeaveChatroom, SayGoodbye, UnexpectedResponse, Reading
<1> USE DEF UIOnly, read_vars, write_vars, registry, client_vars, room_vars,
            channels, peer_channels, harvest_channels, Show, Pages, OpenPages, Steps
<1>2. CASE AskUsername(p)
  BY <1>1, <1>2 DEF AskUsername, TypeOK
<1>3. CASE ShowLobby(p)
  <2>1. Head(to_client[p]).lobby_state \in SUBSET Names
    BY <1>1, <1>3, LobbyStateType DEF ShowLobby, Reading
  <2> QED
    BY <1>1, <1>3, <2>1 DEF ShowLobby, TypeOK
<1>4. CASE AwaitConfirmation(p)
  BY <1>1, <1>4 DEF AwaitConfirmation, TypeOK
<1>5. CASE EnterChatroom(p)
  BY <1>1, <1>5 DEF EnterChatroom, TypeOK
<1>6. CASE ShowMessage(p)
  BY <1>1, <1>6 DEF ShowMessage, ui_vars, TypeOK
<1>7. CASE LeaveChatroom(p)
  BY <1>1, <1>7 DEF LeaveChatroom, TypeOK
<1>8. CASE SayGoodbye(p)
  BY <1>1, <1>8 DEF SayGoodbye, End, TypeOK
<1>9. CASE UnexpectedResponse(p)
  BY <1>1, <1>9 DEF UnexpectedResponse, End, TypeOK
<1> QED
  BY <1>2, <1>3, <1>4, <1>5, <1>6, <1>7, <1>8, <1>9

\* A request puts a frame on the socket.
LEMMA RequestType ==
  ASSUME TypeOK, NEW p \in Peers, NEW frame \in Frame,
         to_server' = Put(to_server, p, frame)
  PROVE  to_server' \in [Peers -> Seq(Frame)]
  BY PutType DEF TypeOK

\* The actions of a client program that write a frame keep the types.
LEMMA RequestTypes ==
  ASSUME TypeOK, NEW p \in Peers, RefreshLobby(p) \/ UserNext(p) \/ ConnectionFails(p)
  PROVE  TypeOK'
<1> USE DEF UIOnly, read_vars, write_vars, registry, client_vars, room_vars,
            channels, peer_channels, harvest_channels, Show, Pages, OpenPages, Steps
<1>1. ASSUME NEW u \in Choices[p], RequestUsername(p, u)
      PROVE  TypeOK'
  <2>1. [kind |-> "Username", arg |-> u] \in Frame
    BY ChoicesAssumption DEF Frame
  <2>2. to_server' \in [Peers -> Seq(Frame)]
    BY <1>1, <2>1, RequestType DEF RequestUsername, Request
  <2> QED
    BY <1>1, <2>2 DEF RequestUsername, Request, TypeOK
<1>2. ASSUME NEW kind \in {"Create", "Join"}, NEW n \in Names, RequestChatroom(p, kind, n)
      PROVE  TypeOK'
  <2>1. [kind |-> kind, arg |-> n] \in Frame
    BY DEF Frame
  <2>2. to_server' \in [Peers -> Seq(Frame)]
    BY <1>2, <2>1, RequestType DEF RequestChatroom, Request
  <2>3. requests' \in [Peers -> Nat]
    BY <1>2 DEF RequestChatroom, TypeOK
  <2> QED
    BY <1>2, <2>2, <2>3 DEF RequestChatroom, Request, TypeOK
<1>3. CASE RequestQuit(p) \/ QuitChatroom(p)
  <2>1. [kind |-> "Quit", arg |-> None] \in Frame
    BY DEF Frame
  <2>2. to_server' \in [Peers -> Seq(Frame)]
    BY <1>3, <2>1, RequestType DEF RequestQuit, QuitChatroom, Request
  <2> QED
    BY <1>3, <2>2 DEF RequestQuit, QuitChatroom, Request, TypeOK
<1>4. CASE RefreshLobby(p)
  <2>1. [kind |-> "Lobby", arg |-> None] \in Frame
    BY DEF Frame
  <2>2. to_server' \in [Peers -> Seq(Frame)]
    BY <1>4, <2>1, RequestType DEF RefreshLobby, Request
  <2> QED
    BY <1>4, <2>2 DEF RefreshLobby, Request, TypeOK
<1>5. CASE SendMessage(p)
  <2>1. [kind |-> "Message", arg |-> sent[p] + 1] \in Frame
    BY DEF Frame, TypeOK
  <2>2. to_server' \in [Peers -> Seq(Frame)]
    BY <1>5, <2>1, RequestType DEF SendMessage
  <2>3. sent' \in [Peers -> Nat]
    BY <1>5 DEF SendMessage, TypeOK
  <2> QED
    BY <1>5, <2>2, <2>3 DEF SendMessage, TypeOK
<1>6. CASE Kill(p)
  BY <1>6 DEF Kill, End, TypeOK
<1>7. CASE ConnectionFails(p)
  BY <1>7 DEF ConnectionFails, End, TypeOK
<1> QED
  BY <1>1, <1>2, <1>3, <1>4, <1>5, <1>6, <1>7 DEF UserNext

-----------------------------------------------------------------------------
(* The read tasks                                                          *)

\* A suspended send.
LEMMA PendingType ==
  ASSUME NEW to \in RoomOrNone, NEW event \in Event
  PROVE  Pending(to, event) \in Seq(SuspendedSend)
<1>1. [to |-> to, event |-> event] \in SuspendedSend
  BY DEF SuspendedSend
<1> QED
  BY <1>1 DEF Pending

\* An event on its way to a channel is put in it, or the task keeps it, or
\* drops it.
LEMMA SendTypes ==
  ASSUME TypeOK, NEW p \in Peers, NEW to \in RoomOrNone, NEW event \in Event,
         NEW next \in RoomOrNone, Send(p, to, event, next)
  PROVE  /\ read_pc' \in [Peers -> {"idle", "running", "done"}]
         /\ chatroom_sender' \in [Peers -> RoomOrNone]
         /\ outgoing' \in [Peers -> Seq(SuspendedSend)]
         /\ chatroom_connection' \in [Peers -> Seq(Rooms)]
         /\ events' \in Seq(Event)
         /\ chat_events' \in [Rooms -> Seq(Event)]
<1>1. Pending(to, event) \in Seq(SuspendedSend)
  BY PendingType
<1>2. /\ NoRoom \in RoomOrNone
      /\ Empty(outgoing, p) \in [Peers -> Seq(SuspendedSend)]
      /\ Empty(chatroom_connection, p) \in [Peers -> Seq(Rooms)]
  BY EmptyType DEF TypeOK, RoomOrNone
<1>3. Append(events, event) \in Seq(Event)
  BY DEF TypeOK
<1>4. to # NoRoom => Put(chat_events, to, event) \in [Rooms -> Seq(Event)]
  BY PutType DEF TypeOK, RoomOrNone
<1>5. UNCHANGED <<events, chat_events>> \/ Enqueue(to, event)
  BY DEF Send
<1>6. events' \in Seq(Event) /\ chat_events' \in [Rooms -> Seq(Event)]
  BY <1>3, <1>4, <1>5 DEF Enqueue, TypeOK
<1>7. CASE EndRead(p)
  BY <1>2, <1>6, <1>7 DEF EndRead, TypeOK
<1>8. CASE ~EndRead(p)
  <2>1. /\ read_pc' = [read_pc EXCEPT ![p] = "running"]
        /\ chatroom_sender' = [chatroom_sender EXCEPT ![p] = next]
        /\ UNCHANGED chatroom_connection
        /\ \/ outgoing' = Empty(outgoing, p)
           \/ outgoing' = [outgoing EXCEPT ![p] = Pending(to, event)]
    BY <1>8 DEF Send
  <2>2. outgoing' \in [Peers -> Seq(SuspendedSend)]
    <3>1. outgoing \in [Peers -> Seq(SuspendedSend)]
      BY DEF TypeOK
    <3> QED
      BY <1>1, <1>2, <2>1, <3>1
  <2> QED
    BY <1>6, <2>1, <2>2 DEF TypeOK
<1> QED
  BY <1>7, <1>8

\* The actions of a read task keep the types.
LEMMA ReadTypes ==
  ASSUME TypeOK, NEW p \in Peers, ReadNext(p)
  PROVE  TypeOK'
<1> USE DEF ReadTaskOnly, ui_vars, sockets, write_vars, registry, client_vars,
            room_vars, harvest_channels, Pages, OpenPages
<1>1. NoRoom \in RoomOrNone
  BY DEF RoomOrNone
<1>2. CASE AcceptConnection(p)
  <2>1. Signal("NewClient", p) \in Event
    BY SignalType
  <2> QED
    BY <1>1, <1>2, <2>1, SendTypes DEF AcceptConnection, TypeOK
<1>3. CASE ResumeSend(p)
  <2>1. Head(outgoing[p]).to \in RoomOrNone /\ Head(outgoing[p]).event \in Event
    <3>1. Head(outgoing[p]) \in SuspendedSend
      BY <1>3, ReceiveType DEF ResumeSend, Suspended, TypeOK
    <3> QED
      BY <3>1 DEF SuspendedSend
  <2>2. chatroom_sender[p] \in RoomOrNone
    BY DEF TypeOK
  <2> QED
    BY <1>3, <2>1, <2>2, SendTypes DEF ResumeSend, TypeOK
<1>4. CASE ReadFrame(p)
  <2>1. Head(to_server[p]) \in Frame /\ to_server' \in [Peers -> Seq(Frame)]
    BY <1>4, ReceiveType DEF ReadFrame, TypeOK
  <2>2. EventOf(p, Head(to_server[p])) \in Event /\ chatroom_sender[p] \in RoomOrNone
    BY <2>1, EventOfType DEF TypeOK
  <2>3. CASE EndRead(p) /\ UNCHANGED <<events, chat_events>>
    BY <1>1, <1>4, <2>1, <2>3, EmptyType DEF EndRead, ReadFrame, TypeOK
  <2>4. ASSUME NEW next \in RoomOrNone,
               Send(p, chatroom_sender[p], EventOf(p, Head(to_server[p])), next)
        PROVE  TypeOK'
    BY <1>4, <2>1, <2>2, <2>4, SendTypes DEF ReadFrame, TypeOK
  <2> QED
    BY <1>1, <1>4, <2>2, <2>3, <2>4 DEF ReadFrame
<1>5. CASE ReadFails(p)
  BY <1>1, <1>5, EmptyType DEF ReadFails, EndRead, TypeOK
<1>7. CASE ChatroomChannelClosed(p)
  BY <1>1, <1>7, EmptyType DEF ChatroomChannelClosed, EndRead, TypeOK
<1>6. CASE NewChatroomChannel(p)
  <2>1. /\ Head(chatroom_connection[p]) \in Rooms
        /\ [chatroom_connection EXCEPT ![p] = Tail(@)] \in [Peers -> Seq(Rooms)]
    BY <1>6, ReceiveType DEF NewChatroomChannel, TypeOK
  <2>2. Signal("ReadSync", p) \in Event
    BY SignalType
  <2>3. /\ Append(events, Signal("ReadSync", p)) \in Seq(Event)
        /\ Pending(NoRoom, Signal("ReadSync", p)) \in Seq(SuspendedSend)
    BY <1>1, <2>2, PendingType DEF TypeOK
  <2>4. CASE IsClosed(NoRoom)
    <3>1. EndRead(p) /\ UNCHANGED <<events, chat_events, ui_vars, sockets>> /\ ReadTaskOnly
      BY <1>6, <2>4 DEF NewChatroomChannel
    <3> QED
      BY <1>1, <3>1, EmptyType DEF EndRead, TypeOK
  <2>5. CASE ~IsClosed(NoRoom)
    <3>1. /\ chatroom_connection' \in [Peers -> Seq(Rooms)]
          /\ chatroom_sender' \in [Peers -> RoomOrNone]
          /\ UNCHANGED read_pc
      BY <1>6, <2>1, <2>5 DEF NewChatroomChannel, RoomOrNone, TypeOK
    <3>2. outgoing' \in [Peers -> Seq(SuspendedSend)]
      BY <1>6, <2>3, <2>5 DEF NewChatroomChannel, TypeOK
    <3>3. events' \in Seq(Event) /\ UNCHANGED chat_events
      BY <1>6, <2>3, <2>5 DEF NewChatroomChannel, Enqueue, TypeOK
    <3>4. UNCHANGED <<ui_vars, sockets>> /\ ReadTaskOnly
      BY <1>6 DEF NewChatroomChannel
    <3> QED
      BY <3>1, <3>2, <3>3, <3>4 DEF TypeOK
  <2> QED
    BY <2>4, <2>5
<1> QED
  BY <1>2, <1>3, <1>4, <1>5, <1>6, <1>7 DEF ReadNext, FrameNext, ChannelNext

-----------------------------------------------------------------------------
(* The write tasks                                                         *)

\* What is left of a write task when it ends.
LEMMA EndWriteTypes ==
  ASSUME TypeOK, NEW p \in Peers, EndWrite(p)
  PROVE  /\ write_pc' \in [Peers -> {"idle", "running", "done"}]
         /\ chat_receiver' \in [Peers -> BroadcastReceiver]
         /\ main_responses' \in [Peers -> Seq(Response)]
         /\ subscriptions' \in [Peers -> Seq(SubscriptionOf)]
         /\ client_disconnection' \in Seq(Peers)
<1>1. DummyReceiver \in BroadcastReceiver
  BY ReceiverType DEF DummyReceiver, RoomOrNone
<1>2. /\ Empty(main_responses, p) \in [Peers -> Seq(Response)]
      /\ Empty(subscriptions, p) \in [Peers -> Seq(SubscriptionOf)]
  BY EmptyType DEF TypeOK
<1>3. Append(client_disconnection, p) \in Seq(Peers)
  BY DEF TypeOK
<1> QED
  BY <1>1, <1>2, <1>3 DEF EndWrite, TypeOK

\* Writing a response keeps the type of the socket.
LEMMA WriteType ==
  ASSUME TypeOK, NEW p \in Peers, NEW response \in Response, Write(p, response)
  PROVE  to_client' \in [Peers -> Seq(Response)]
  BY PutType DEF Write, TypeOK

\* The actions of a write task keep the types.
LEMMA WriteTypes ==
  ASSUME TypeOK, NEW p \in Peers, WriteNext(p)
  PROVE  TypeOK'
<1> USE DEF WriteTaskOnly, ui_vars, read_vars, registry, client_vars, room_vars
<1>1. CASE Shutdown(p)
  <2>1. to_client' \in [Peers -> Seq(Response)]
    <3>1. Plain("ExitLobby") \in Response
      BY PlainType DEF PlainKinds
    <3> QED
      BY <1>1, <3>1, WriteType DEF Shutdown, TypeOK
  <2> QED
    BY <1>1, <2>1, EndWriteTypes DEF Shutdown, TypeOK
<1>2. CASE MainResponse(p)
  <2>1. /\ Head(main_responses[p]) \in Response
        /\ main_responses' \in [Peers -> Seq(Response)]
    BY <1>2, ReceiveType DEF MainResponse, TypeOK
  <2>2. to_client' \in [Peers -> Seq(Response)]
    BY <1>2, <2>1, WriteType DEF MainResponse
  <2>3. chat_receiver' \in [Peers -> BroadcastReceiver]
    BY <1>2, ReceiverType DEF MainResponse, DummyReceiver, RoomOrNone, TypeOK
  <2> QED
    BY <1>2, <2>1, <2>2, <2>3 DEF MainResponse, TypeOK
<1>3. CASE Subscription(p)
  <2>1. /\ Head(subscriptions[p]) \in SubscriptionOf
        /\ subscriptions' \in [Peers -> Seq(SubscriptionOf)]
    BY <1>3, ReceiveType DEF Subscription, TypeOK
  <2>2. /\ Head(subscriptions[p]).response \in Response
        /\ Head(subscriptions[p]).receiver \in BroadcastReceiver
    BY <2>1 DEF SubscriptionOf
  <2>3. to_client' \in [Peers -> Seq(Response)]
    BY <1>3, <2>2, WriteType DEF Subscription
  <2>4. chat_receiver' \in [Peers -> BroadcastReceiver]
    BY <1>3, <2>2 DEF Subscription, TypeOK
  <2> QED
    BY <1>3, <2>1, <2>3, <2>4 DEF Subscription, TypeOK
<1>4. CASE ChatMessage(p)
  <2> DEFINE queue == chat_receiver[p].queue
  <2>1. queue \in Seq(MessageResponse) /\ queue # <<>>
    BY <1>4 DEF ChatMessage, BroadcastReceiver, TypeOK
  <2>2. Head(queue) \in Response /\ Tail(queue) \in Seq(MessageResponse)
    BY <2>1, MessageIsResponse
  <2>3. to_client' \in [Peers -> Seq(Response)]
    BY <1>4, <2>2, WriteType DEF ChatMessage, TypeOK
  <2>4. chat_receiver' \in [Peers -> BroadcastReceiver]
    BY <1>4, <2>2 DEF ChatMessage, BroadcastReceiver, TypeOK
  <2> QED
    BY <1>4, <2>3, <2>4 DEF ChatMessage, TypeOK
<1>5. CASE Lagged(p)
  <2>1. chat_receiver' \in [Peers -> BroadcastReceiver]
    BY <1>5 DEF Lagged, BroadcastReceiver, TypeOK
  <2> QED
    BY <1>5, <2>1 DEF Lagged, TypeOK
<1>6. CASE WriteFails(p)
  BY <1>6, EndWriteTypes DEF WriteFails, TypeOK
<1> QED
  BY <1>1, <1>2, <1>3, <1>4, <1>5, <1>6 DEF WriteNext, BroadcastNext

-----------------------------------------------------------------------------
(* The sub-brokers                                                         *)

\* What is left of a sub-broker when it ends.
LEMMA EndRoomTypes ==
  ASSUME TypeOK, NEW r \in Rooms, EndRoom(r)
  PROVE  /\ room_pc' \in [Rooms -> {"unborn", "running", "ended", "harvested"}]
         /\ disconnected_sub_broker' \in Seq(Rooms)
<1>1. Append(disconnected_sub_broker, r) \in Seq(Rooms)
  BY DEF TypeOK
<1> QED
  BY <1>1 DEF EndRoom, TypeOK

\* A message in every receiver of a chatroom leaves them receivers.
LEMMA BroadcastTypes ==
  ASSUME TypeOK, NEW r \in Rooms, NEW m \in MessageResponse, Broadcast(r, m)
  PROVE  /\ chat_receiver' \in [Peers -> BroadcastReceiver]
         /\ subscriptions' \in [Peers -> Seq(SubscriptionOf)]
<1>1. ASSUME NEW p \in Peers
      PROVE  chat_receiver'[p] \in BroadcastReceiver
  BY PushedType DEF Broadcast, TypeOK
<1>2. ASSUME NEW p \in Peers
      PROVE  subscriptions'[p] \in Seq(SubscriptionOf)
  <2> DEFINE q == subscriptions[p]
             f(s) == IF s.receiver.room = r
                     THEN [s EXCEPT !.receiver = Pushed(s.receiver, m)] ELSE s
  <2>1. q \in Seq(SubscriptionOf)
    BY DEF TypeOK
  <2>2. ASSUME NEW s \in SubscriptionOf
        PROVE  f(s) \in SubscriptionOf
    <3>1. Pushed(s.receiver, m) \in BroadcastReceiver
      BY PushedType DEF SubscriptionOf
    <3> QED
      BY <3>1 DEF SubscriptionOf
  <2>3. subscriptions'[p] = [i \in DOMAIN q |-> f(q[i])]
    BY DEF Broadcast
  <2> HIDE DEF q, f
  <2>4. DOMAIN q = 1 .. Len(q) /\ Len(q) \in Nat
    BY <2>1
  <2>5. \A i \in 1 .. Len(q) : q[i] \in SubscriptionOf
    BY <2>1
  <2>6. [i \in 1 .. Len(q) |-> f(q[i])] \in Seq(SubscriptionOf)
    BY <2>2, <2>4, <2>5
  <2> QED
    BY <2>3, <2>4, <2>6
<1> QED
  BY <1>1, <1>2 DEF Broadcast

\* The actions of a sub-broker keep the types.
LEMMA RoomTypes ==
  ASSUME TypeOK, NEW r \in Rooms, RoomNext(r)
  PROVE  TypeOK'
<1> USE DEF RoomOnly, ui_vars, sockets, read_vars, registry, client_vars, room_vars
<1>1. ASSUME NEW kind, TakesEvent(r, kind)
      PROVE  /\ Head(chat_events[r]) \in Event
             /\ Head(chat_events[r]).kind = kind
             /\ chat_events' \in [Rooms -> Seq(Event)]
  BY <1>1, ReceiveType DEF TakesEvent, TypeOK
<1>2. CASE RoomMessage(r)
  <2>1. /\ MessageOf(Head(chat_events[r]), r) \in MessageResponse
        /\ chat_events' \in [Rooms -> Seq(Event)]
    BY <1>1, <1>2, MessageOfType DEF RoomMessage
  <2>2. CASE EndRoom(r) /\ UNCHANGED <<chat_receiver, subscriptions>>
    BY <1>2, <2>1, <2>2, EndRoomTypes DEF RoomMessage, TypeOK
  <2>3. CASE /\ Broadcast(r, MessageOf(Head(chat_events[r]), r))
             /\ UNCHANGED <<room_pc, disconnected_sub_broker>>
    BY <1>2, <2>1, <2>3, BroadcastTypes DEF RoomMessage, TypeOK
  <2> QED
    BY <1>2, <2>2, <2>3 DEF RoomMessage
<1>3. CASE RoomQuit(r)
  <2>1. /\ Head(chat_events[r]).peer_id \in Peers
        /\ chat_events' \in [Rooms -> Seq(Event)]
    BY <1>1, <1>3, EventParts DEF RoomQuit
  <2>2. Append(client_exit, Head(chat_events[r]).peer_id) \in Seq(Peers)
    BY <2>1 DEF TypeOK
  <2> QED
    BY <1>3, <2>1, <2>2, EndRoomTypes DEF RoomQuit, TypeOK
<1>4. CASE RoomShutdown(r)
  BY <1>4, EndRoomTypes DEF RoomShutdown, TypeOK
<1> QED
  BY <1>2, <1>3, <1>4 DEF RoomNext, RoomEventNext

-----------------------------------------------------------------------------
(* The main broker                                                         *)

\* The lobby's picture holds names.
LEMMA LobbyType ==
  ASSUME NamesAgree
  PROVE  LobbyState \in SUBSET Names
  BY DEF NamesAgree, LobbyState

\* Whatever the broker answers, the channel to the write task keeps its type.
LEMMA RespondType ==
  ASSUME TypeOK, NEW p \in Peers, NEW response \in Response, Respond(p, response)
  PROVE  main_responses' \in [Peers -> Seq(Response)]
  BY PutType DEF Respond, TypeOK

\* A client that leaves a listed chatroom leaves the maps with their types: the
\* count is not zero, so it stays a natural number.
LEMMA LeaveRoomTypes ==
  ASSUME TypeOK, CountsAgree, NEW r \in Rooms, RoomIsListed(r), LeaveRoom(r)
  PROVE  /\ num_clients' \in [Rooms -> Nat]
         /\ chatroom_brokers' \in SUBSET Rooms
         /\ chatroom_name' \in [Rooms -> Maybe(Names)]
         /\ chatroom_name_to_id' \in [Names -> RoomOrNone]
<1>1. num_clients[r] \in Nat /\ num_clients[r] > 0
  BY DEF CountsAgree, RoomIsListed, TypeOK
<1>2. num_clients' \in [Rooms -> Nat]
  BY <1>1 DEF LeaveRoom, TypeOK
<1> QED
  BY <1>2 DEF LeaveRoom, RoomOrNone, TypeOK

\* What a broker that ends leaves behind.
LEMMA BrokerFailsTypes ==
  ASSUME TypeOK, NEW reason \in BrokerErrors, BrokerFails(reason),
         UNCHANGED <<ui_vars, sockets, read_vars, write_vars>>,
         events' \in Seq(Event)
  PROVE  TypeOK'
<1>1. room_pc' \in [Rooms -> {"unborn", "running", "ended", "harvested"}]
  BY DEF BrokerFails, TypeOK
<1>2. chat_events' \in [Rooms -> Seq(Event)]
  BY DEF BrokerFails, TypeOK
<1>3. /\ main_responses' \in [Peers -> Seq(Response)]
      /\ subscriptions' \in [Peers -> Seq(SubscriptionOf)]
  BY DEF BrokerFails, TypeOK
<1>4. /\ username' \in [Peers -> Maybe(Usernames)]
      /\ chatroom_broker_id' \in [Peers -> RoomOrNone]
      /\ num_clients' \in [Rooms -> Nat]
      /\ chatroom_name_to_id' \in [Names -> RoomOrNone]
  BY DEF BrokerFails, Maybe, RoomOrNone
<1>5. /\ client_exit' \in Seq(Peers)
      /\ client_disconnection' \in Seq(Peers)
      /\ disconnected_sub_broker' \in Seq(Rooms)
  BY DEF BrokerFails
<1> QED
  BY <1>1, <1>2, <1>3, <1>4, <1>5
     DEF BrokerFails, ui_vars, sockets, read_vars, write_vars, TypeOK

\* Harvesting, and the exit of a client, keep the types.
LEMMA HarvestTypes ==
  ASSUME TypeOK, CountsAgree, HarvestClient \/ HarvestRoom \/ ClientExit
  PROVE  TypeOK'
<1> USE DEF ui_vars, sockets, read_vars, write_vars, registry, client_vars,
            room_vars, harvest_channels, peer_channels
<1>1. CASE HarvestClient
  <2> DEFINE p == Head(client_disconnection)
             r == chatroom_broker_id[p]
  <2>1. p \in Peers /\ Tail(client_disconnection) \in Seq(Peers) /\ r \in RoomOrNone
    <3>1. client_disconnection \in Seq(Peers) /\ client_disconnection # <<>>
      BY <1>1 DEF HarvestClient, TypeOK
    <3>2. Head(client_disconnection) \in Peers /\ Tail(client_disconnection) \in Seq(Peers)
      BY <3>1
    <3> HIDE DEF p
    <3>3. \A q \in Peers : chatroom_broker_id[q] \in RoomOrNone
      BY DEF TypeOK
    <3> QED
      BY <3>2, <3>3 DEF p
  <2>2. CASE ~ClientIsListed(p)
    <3>1. /\ BrokerFails("Corrupt")
          /\ UNCHANGED <<ui_vars, sockets, read_vars, write_vars, events>>
      BY <1>1, <2>2 DEF HarvestClient
    <3> QED
      BY <3>1, BrokerFailsTypes DEF BrokerErrors, TypeOK
  <2>3. CASE ClientIsListed(p)
    <3>1. /\ num_clients' \in [Rooms -> Nat]
          /\ chatroom_brokers' \in SUBSET Rooms
          /\ chatroom_name' \in [Rooms -> Maybe(Names)]
          /\ chatroom_name_to_id' \in [Names -> RoomOrNone]
      <4>1. CASE r = NoRoom
        BY <1>1, <2>3, <4>1 DEF HarvestClient, TypeOK
      <4>2. CASE r # NoRoom
        <5>1. r \in Rooms /\ RoomIsListed(r) /\ LeaveRoom(r)
          BY <1>1, <2>1, <2>3, <4>2 DEF HarvestClient, ClientIsListed, RoomOrNone
        <5> QED
          BY <5>1, LeaveRoomTypes
      <4> QED
        BY <4>1, <4>2
    <3>2. /\ main_responses' \in [Peers -> Seq(Response)]
          /\ subscriptions' \in [Peers -> Seq(SubscriptionOf)]
      <4>1. /\ main_responses' = Empty(main_responses, p)
            /\ subscriptions' = Empty(subscriptions, p)
        BY <1>1, <2>3 DEF HarvestClient
      <4> HIDE DEF p
      <4> QED
        BY <2>1, <4>1, EmptyType DEF TypeOK
    <3>3. /\ username' \in [Peers -> Maybe(Usernames)]
          /\ chatroom_broker_id' \in [Peers -> RoomOrNone]
      BY <1>1, <2>3 DEF HarvestClient, Maybe, RoomOrNone, TypeOK
    <3> HIDE DEF r
    <3> QED
      BY <1>1, <2>1, <2>3, <3>1, <3>2, <3>3 DEF HarvestClient, TypeOK
  <2> QED
    BY <2>2, <2>3
<1>2. CASE HarvestRoom
  <2> DEFINE r == Head(disconnected_sub_broker)
  <2>1. r \in Rooms /\ Tail(disconnected_sub_broker) \in Seq(Rooms)
    <3>1. disconnected_sub_broker \in Seq(Rooms) /\ disconnected_sub_broker # <<>>
      BY <1>2 DEF HarvestRoom, TypeOK
    <3>2. Head(disconnected_sub_broker) \in Rooms /\ Tail(disconnected_sub_broker) \in Seq(Rooms)
      BY <3>1
    <3> QED
      BY <3>2
  <2>2. CASE r \in chatroom_brokers
    <3>1. /\ BrokerFails("RoomStillInMap")
          /\ UNCHANGED <<ui_vars, sockets, read_vars, write_vars, events>>
      BY <1>2, <2>2 DEF HarvestRoom
    <3> QED
      BY <3>1, BrokerFailsTypes DEF BrokerErrors, TypeOK
  <2>3. CASE r \notin chatroom_brokers
    <3>1. chat_events' \in [Rooms -> Seq(Event)]
      <4>1. chat_events' = Empty(chat_events, r)
        BY <1>2, <2>3 DEF HarvestRoom
      <4> HIDE DEF r
      <4> QED
        BY <2>1, <4>1, EmptyType DEF TypeOK
    <3> QED
      BY <1>2, <2>1, <2>3, <3>1 DEF HarvestRoom, TypeOK
  <2> QED
    BY <2>2, <2>3
<1>3. CASE ClientExit
  <2> DEFINE p == Head(client_exit)
             r == chatroom_broker_id[p]
  <2>1. p \in Peers /\ Tail(client_exit) \in Seq(Peers) /\ r \in RoomOrNone
    <3>1. client_exit \in Seq(Peers) /\ client_exit # <<>>
      BY <1>3 DEF ClientExit, TypeOK
    <3>2. Head(client_exit) \in Peers /\ Tail(client_exit) \in Seq(Peers)
      BY <3>1
    <3> HIDE DEF p
    <3>3. \A q \in Peers : chatroom_broker_id[q] \in RoomOrNone
      BY DEF TypeOK
    <3> QED
      BY <3>2, <3>3 DEF p
  <2>2. CASE p \notin clients
    <3>1. /\ BrokerFails("ExitOfUnknownClient")
          /\ UNCHANGED <<ui_vars, sockets, read_vars, write_vars, events>>
      BY <1>3, <2>2 DEF ClientExit
    <3> QED
      BY <3>1, BrokerFailsTypes DEF BrokerErrors, TypeOK
  <2>3. CASE p \in clients /\ (r = NoRoom \/ ~RoomIsListed(r))
    <3>1. /\ BrokerFails("Corrupt")
          /\ UNCHANGED <<ui_vars, sockets, read_vars, write_vars, events>>
      BY <1>3, <2>3 DEF ClientExit
    <3> QED
      BY <3>1, BrokerFailsTypes DEF BrokerErrors, TypeOK
  <2>4. CASE p \in clients /\ ~(r = NoRoom \/ ~RoomIsListed(r))
    <3>1. r \in Rooms /\ RoomIsListed(r) /\ LeaveRoom(r)
      BY <1>3, <2>1, <2>4 DEF ClientExit, RoomOrNone
    <3>2. /\ num_clients' \in [Rooms -> Nat]
          /\ chatroom_brokers' \in SUBSET Rooms
          /\ chatroom_name' \in [Rooms -> Maybe(Names)]
          /\ chatroom_name_to_id' \in [Names -> RoomOrNone]
      BY <3>1, LeaveRoomTypes
    <3>3. main_responses' \in [Peers -> Seq(Response)]
      <4>1. Plain("ExitChatroom") \in Response
        BY PlainType DEF PlainKinds
      <4>2. Respond(p, Plain("ExitChatroom"))
        BY <1>3, <2>4 DEF ClientExit
      <4> QED
        BY <2>1, <4>1, <4>2, RespondType
    <3>4. chatroom_broker_id' \in [Peers -> RoomOrNone]
      BY <1>3, <2>4 DEF ClientExit, RoomOrNone, TypeOK
    <3> HIDE DEF r
    <3> QED
      BY <1>3, <2>1, <2>4, <3>2, <3>3, <3>4 DEF ClientExit, r, TypeOK
  <2> QED
    BY <2>2, <2>3, <2>4
<1> QED
  BY <1>1, <1>2, <1>3

\* The handlers of the lobby's events keep the types.
LEMMA AnswerTypes ==
  ASSUME TypeOK, NamesAgree, NewClient \/ QuitEvent \/ Lobby \/ ReadSync \/ Username
  PROVE  TypeOK'
<1> USE DEF OnlyAnswers, ui_vars, sockets, read_vars, write_vars, client_vars,
            room_vars, harvest_channels
<1> DEFINE p == Head(events).peer_id
<1>1. events # <<>>
  BY DEF NewClient, QuitEvent, Lobby, ReadSync, Username, Takes
<1>2. /\ Head(events) \in Event /\ Tail(events) \in Seq(Event)
      /\ p \in Peers
  BY <1>1, EventParts DEF TypeOK
<1>3. LobbyState \in SUBSET Names
  BY LobbyType
<1> HIDE DEF p
<1>4. CASE NewClient
  <2>1. Plain("ConnectionOk") \in Response
    BY PlainType DEF PlainKinds
  <2>2. main_responses' \in [Peers -> Seq(Response)]
    BY <1>2, <1>4, <2>1, RespondType DEF NewClient, p
  <2> QED
    BY <1>2, <1>4, <2>2 DEF NewClient, Takes, p, TypeOK
<1>5. CASE QuitEvent
  BY <1>2, <1>5 DEF QuitEvent, Takes, TypeOK
<1>6. CASE Lobby
  <2>1. WithLobby("Lobby", LobbyState) \in Response
    BY <1>3, WithLobbyType DEF LobbyKinds
  <2>2. main_responses' \in [Peers -> Seq(Response)]
    BY <1>2, <1>6, <2>1, RespondType DEF Lobby, p
  <2> QED
    BY <1>2, <1>6, <2>2 DEF Lobby, Takes, TypeOK
<1>7. CASE ReadSync
  <2>1. Plain("ReadSync") \in Response
    BY PlainType DEF PlainKinds
  <2>2. main_responses' \in [Peers -> Seq(Response)]
    BY <1>2, <1>7, <2>1, RespondType DEF ReadSync, p
  <2> QED
    BY <1>2, <1>7, <2>2 DEF ReadSync, Takes, TypeOK
<1>8. CASE Username
  <2>1. /\ Plain("UsernameAlreadyExists") \in Response
        /\ WithLobby("UsernameOk", LobbyState) \in Response
    BY <1>3, PlainType, WithLobbyType DEF PlainKinds, LobbyKinds
  <2>2. main_responses' \in [Peers -> Seq(Response)]
    BY <1>2, <1>8, <2>1, RespondType DEF Username, p
  <2>3. Head(events).arg \in Usernames
    BY <1>2, <1>8, EventParts DEF Username, Takes
  <2>4. /\ username' \in [Peers -> Maybe(Usernames)]
        /\ client_usernames' \in SUBSET Usernames
    BY <1>8, <2>3 DEF Username, Maybe, TypeOK
  <2> QED
    BY <1>2, <1>8, <2>2, <2>4 DEF Username, Takes, TypeOK
<1> QED
  BY <1>4, <1>5, <1>6, <1>7, <1>8

\* A refusal changes no type.
LEMMA RefuseTypes ==
  ASSUME TypeOK, NamesAgree, NEW kind \in LobbyKinds, Head(events).peer_id \in Peers,
         events' \in Seq(Event), Refuse(kind)
  PROVE  TypeOK'
<1>1. WithLobby(kind, LobbyState) \in Response
  BY LobbyType, WithLobbyType
<1>2. main_responses' \in [Peers -> Seq(Response)]
  BY <1>1, RespondType DEF Refuse
<1> QED
  BY <1>2 DEF Refuse, OnlyAnswers, ui_vars, sockets, read_vars, write_vars,
     client_vars, room_vars, harvest_channels, TypeOK

\* Nor does the admission of a client to a chatroom, once the maps have theirs.
LEMMA AdmitTypes ==
  ASSUME TypeOK, NEW p \in Peers, NEW r \in Rooms, NEW kind \in PlainKinds,
         Admit(p, r, Plain(kind)),
         events' \in Seq(Event),
         num_clients' \in [Rooms -> Nat],
         chatroom_brokers' \in SUBSET Rooms,
         chatroom_name' \in [Rooms -> Maybe(Names)],
         chatroom_name_to_id' \in [Names -> RoomOrNone],
         room_pc' \in [Rooms -> {"unborn", "running", "ended", "harvested"}]
  PROVE  TypeOK'
<1>1. [receiver |-> Receiver(r), response |-> Plain(kind)] \in SubscriptionOf
  BY PlainType, ReceiverType DEF RoomOrNone, SubscriptionOf
<1>2. subscriptions' \in [Peers -> Seq(SubscriptionOf)]
  BY <1>1, PutType DEF Admit, TypeOK
<1>3. chatroom_connection' \in [Peers -> Seq(Rooms)]
  BY PutType DEF Admit, TypeOK
<1>4. chatroom_broker_id' \in [Peers -> RoomOrNone]
  BY DEF Admit, RoomOrNone, TypeOK
<1> QED
  BY <1>2, <1>3, <1>4 DEF Admit, ui_vars, sockets, read_vars, write_vars,
     client_vars, harvest_channels, TypeOK

\* Creating and joining a chatroom keep the types.
LEMMA ChatroomTypes ==
  ASSUME TypeOK, NamesAgree, Create \/ Join
  PROVE  TypeOK'
<1> DEFINE p == Head(events).peer_id
           name == Head(events).arg
<1>1. events # <<>> /\ events' = Tail(events)
  BY DEF Create, Join, Takes
<1>2. /\ events' \in Seq(Event)
      /\ p \in Peers /\ name \in Names
  BY <1>1, EventParts DEF Create, Join, Takes, TypeOK
<1>3. /\ "ReadTaskGone" \in BrokerErrors /\ "Corrupt" \in BrokerErrors
      /\ {"Subscribed", "ChatroomCreated"} \subseteq PlainKinds
      /\ {"ChatroomAlreadyExists", "ChatroomDoesNotExist", "ChatroomFull"}
           \subseteq LobbyKinds
  BY DEF BrokerErrors, PlainKinds, LobbyKinds
<1>4. ASSUME NEW reason \in BrokerErrors, BrokerFails(reason),
             UNCHANGED <<ui_vars, sockets, read_vars, write_vars>>
      PROVE  TypeOK'
  BY <1>2, <1>4, BrokerFailsTypes
<1>5. ASSUME NEW kind \in LobbyKinds, Refuse(kind)
      PROVE  TypeOK'
  BY <1>2, <1>5, RefuseTypes
<1>6. CASE Create
  <2>1. ASSUME NEW r \in Rooms,
               room_pc' = [room_pc EXCEPT ![r] = "running"],
               chatroom_brokers' = chatroom_brokers \cup {r},
               chatroom_name' = [chatroom_name EXCEPT ![r] = name],
               num_clients' = [num_clients EXCEPT ![r] = 1],
               chatroom_name_to_id' = [chatroom_name_to_id EXCEPT ![name] = r],
               Admit(p, r, Plain("ChatroomCreated"))
        PROVE  TypeOK'
    <3>1. /\ room_pc' \in [Rooms -> {"unborn", "running", "ended", "harvested"}]
          /\ chatroom_brokers' \in SUBSET Rooms
      BY <2>1 DEF TypeOK
    <3>2. /\ chatroom_name' \in [Rooms -> Maybe(Names)]
          /\ num_clients' \in [Rooms -> Nat]
          /\ chatroom_name_to_id' \in [Names -> RoomOrNone]
      BY <1>2, <2>1 DEF Maybe, RoomOrNone, TypeOK
    <3> QED
      BY <1>2, <1>3, <2>1, <3>1, <3>2, AdmitTypes
  <2> QED
    BY <1>3, <1>4, <1>5, <1>6, <2>1 DEF Create
<1>7. CASE Join
  <2> DEFINE r == chatroom_name_to_id[name]
  <2>1. ASSUME r # NoRoom,
               num_clients' = [num_clients EXCEPT ![r] = @ + 1],
               Admit(p, r, Plain("Subscribed")),
               UNCHANGED <<room_pc, chatroom_brokers, chatroom_name,
                           chatroom_name_to_id>>
        PROVE  TypeOK'
    <3>1. r \in Rooms
      BY <1>2, <2>1 DEF RoomOrNone, TypeOK
    <3>2. num_clients' \in [Rooms -> Nat]
      BY <2>1, <3>1 DEF TypeOK
    <3>3. /\ chatroom_brokers' \in SUBSET Rooms
          /\ chatroom_name' \in [Rooms -> Maybe(Names)]
          /\ chatroom_name_to_id' \in [Names -> RoomOrNone]
          /\ room_pc' \in [Rooms -> {"unborn", "running", "ended", "harvested"}]
      BY <2>1 DEF TypeOK
    <3> QED
      BY <1>2, <1>3, <2>1, <3>1, <3>2, <3>3, AdmitTypes
  <2> QED
    BY <1>3, <1>4, <1>5, <1>7, <2>1 DEF Join
<1> QED
  BY <1>6, <1>7

\* The main broker keeps the types.
LEMMA BrokerTypes ==
  ASSUME TypeOK, CountsAgree, NamesAgree, BrokerNext
  PROVE  TypeOK'
<1>1. CASE RejectEvent
  <2>1. events' \in Seq(Event)
    BY <1>1 DEF RejectEvent, TypeOK
  <2> QED
    BY <1>1, <2>1, BrokerFailsTypes DEF RejectEvent, BrokerErrors
<1> QED
  BY <1>1, HarvestTypes, AnswerTypes, ChatroomTypes DEF BrokerNext, EventNext

-----------------------------------------------------------------------------
(* The system                                                              *)

\* The initial states have the types.
LEMMA InitTypes == Init => TypeOK
<1>1. DummyReceiver \in BroadcastReceiver
  BY ReceiverType DEF DummyReceiver, RoomOrNone
<1> SUFFICES ASSUME Init PROVE TypeOK
  OBVIOUS
<1>2. /\ to_server \in [Peers -> Seq(Frame)]
      /\ to_client \in [Peers -> Seq(Response)]
      /\ outgoing \in [Peers -> Seq(SuspendedSend)]
      /\ main_responses \in [Peers -> Seq(Response)]
      /\ chatroom_connection \in [Peers -> Seq(Rooms)]
      /\ subscriptions \in [Peers -> Seq(SubscriptionOf)]
      /\ chat_events \in [Rooms -> Seq(Event)]
  BY DEF Init
<1> QED
  BY <1>1, <1>2 DEF Init, Pages, Steps, Maybe, RoomOrNone, TypeOK

\* Every step keeps the types, given the maps' agreement on counts and names.
LEMMA NextTypes ==
  ASSUME TypeOK, CountsAgree, NamesAgree, [Next]_vars
  PROVE  TypeOK'
<1>1. CASE BrokerNext
  BY <1>1, BrokerTypes
<1>2. ASSUME NEW p \in Peers, ReadNext(p) \/ WriteNext(p) \/ UserNext(p) \/ ProgramNext(p)
      PROVE  TypeOK'
  BY <1>2, ReadTypes, WriteTypes, RequestTypes, ResponseTypes DEF ProgramNext
<1>3. ASSUME NEW r \in Rooms, RoomNext(r)
      PROVE  TypeOK'
  BY <1>3, RoomTypes
<1>4. CASE UNCHANGED vars
  BY <1>4 DEF vars, ui_vars, sockets, read_vars, write_vars, registry, client_vars,
     room_vars, channels, peer_channels, harvest_channels, TypeOK
<1> QED
  BY <1>1, <1>2, <1>3, <1>4 DEF Next

=============================================================================

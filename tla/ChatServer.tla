----------------------------- MODULE ChatServer -----------------------------
(***************************************************************************)
(* The whole system: the client programs, each connection's read and write *)
(* task, the main broker and the chatrooms' sub-brokers, interleaved.      *)
(***************************************************************************)
EXTENDS MainBroker, ReadTask, WriteTask, ChatroomBroker, ClientUI

\* Every user may ask for MaxRequests chatrooms, so ids never run out.
ASSUME EnoughRooms == MaxRooms >= Cardinality(Peers) * MaxRequests

Init ==
  /\ page = [p \in Peers |-> "Unstarted"]
  /\ step = [p \in Peers |-> "response"]
  /\ lobby = [p \in Peers |-> {}]
  /\ sent = [p \in Peers |-> 0]
  /\ requests = [p \in Peers |-> 0]
  /\ to_server = [p \in Peers |-> <<>>]
  /\ to_client = [p \in Peers |-> <<>>]
  /\ read_pc = [p \in Peers |-> "idle"]
  /\ chatroom_sender = [p \in Peers |-> NoRoom]
  /\ outgoing = [p \in Peers |-> <<>>]
  /\ write_pc = [p \in Peers |-> "idle"]
  /\ chat_receiver = [p \in Peers |-> DummyReceiver]
  /\ broker_pc = "running"
  /\ clients = {}
  /\ username = [p \in Peers |-> None]
  /\ chatroom_broker_id = [p \in Peers |-> NoRoom]
  /\ client_usernames = {}
  /\ chatroom_brokers = {}
  /\ chatroom_name = [r \in Rooms |-> None]
  /\ num_clients = [r \in Rooms |-> 0]
  /\ chatroom_name_to_id = [n \in Names |-> NoRoom]
  /\ room_pc = [r \in Rooms |-> "unborn"]
  /\ events = <<>>
  /\ main_responses = [p \in Peers |-> <<>>]
  /\ chatroom_connection = [p \in Peers |-> <<>>]
  /\ subscriptions = [p \in Peers |-> <<>>]
  /\ chat_events = [r \in Rooms |-> <<>>]
  /\ client_exit = <<>>
  /\ client_disconnection = <<>>
  /\ disconnected_sub_broker = <<>>

\* The branch of the broker's select! that takes events.
EventNext ==
  \/ NewClient \/ QuitEvent \/ Lobby \/ ReadSync \/ Username \/ Create \/ Join
  \/ RejectEvent

BrokerNext == HarvestClient \/ HarvestRoom \/ ClientExit \/ EventNext

\* The two branches of the read task's select!.
FrameNext(p) == ReadFrame(p) \/ ReadFails(p)
ChannelNext(p) == NewChatroomChannel(p) \/ ChatroomChannelClosed(p)

ReadNext(p) ==
  AcceptConnection(p) \/ ResumeSend(p) \/ FrameNext(p) \/ ChannelNext(p)

\* The branch of the write task's select! that takes broadcasts.
BroadcastNext(p) == ChatMessage(p) \/ Lagged(p)

WriteNext(p) ==
  \/ Shutdown(p) \/ MainResponse(p) \/ Subscription(p) \/ BroadcastNext(p)
  \/ WriteFails(p)

\* The branch of a sub-broker's select! that takes events.
RoomEventNext(r) == RoomMessage(r) \/ RoomQuit(r)
RoomNext(r) == RoomEventNext(r) \/ RoomShutdown(r)

\* What a user decides.
UserNext(p) ==
  \/ \E u \in Choices[p] : RequestUsername(p, u)
  \/ \E n \in Names : RequestChatroom(p, "Create", n)
  \/ \E n \in Names : RequestChatroom(p, "Join", n)
  \/ RequestQuit(p) \/ SendMessage(p) \/ QuitChatroom(p) \/ Kill(p)

\* What a client program does by itself.
ProgramNext(p) ==
  \/ AskUsername(p) \/ ShowLobby(p) \/ AwaitConfirmation(p) \/ EnterChatroom(p)
  \/ ShowMessage(p) \/ LeaveChatroom(p) \/ SayGoodbye(p) \/ RefreshLobby(p)
  \/ UnexpectedResponse(p) \/ ConnectionFails(p)

Next ==
  \/ BrokerNext
  \/ \E p \in Peers :
       ReadNext(p) \/ WriteNext(p) \/ UserNext(p) \/ ProgramNext(p)
  \/ \E r \in Rooms : RoomNext(r)

Spec == Init /\ [][Next]_vars

\* Every task is scheduled, and select! picks among its ready branches at
\* random, so no ready branch is passed over for ever.  Nobody has to connect,
\* to answer a prompt or to leave: no fairness on the users' actions, nor on
\* a failing write, which happens only if the user answers a prompt.  A full
\* channel wakes its suspended senders in the order they came whenever a slot
\* falls free, so none of them misses every free slot: strong fairness.
Fairness ==
  /\ WF_vars(HarvestClient) /\ WF_vars(HarvestRoom) /\ WF_vars(ClientExit)
  /\ WF_vars(EventNext)
  /\ \A p \in Peers :
       /\ SF_vars(ResumeSend(p)) /\ WF_vars(FrameNext(p)) /\ WF_vars(ChannelNext(p))
       /\ WF_vars(Shutdown(p)) /\ WF_vars(MainResponse(p))
       /\ WF_vars(Subscription(p)) /\ WF_vars(BroadcastNext(p)) /\ WF_vars(WriteFails(p))
       /\ WF_vars(Reads(p) /\ ProgramNext(p)) /\ WF_vars(RefreshLobby(p))
  /\ \A r \in Rooms : WF_vars(RoomEventNext(r)) /\ WF_vars(RoomShutdown(r))

FairSpec == Spec /\ Fairness

=============================================================================

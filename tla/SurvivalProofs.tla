--------------------------- MODULE SurvivalProofs ---------------------------
(***************************************************************************)
(* What rests on taking turns (HandoverProofs): a client hears of its own  *)
(* chatroom only, and as long as every client program is up the main       *)
(* broker survives.                                                        *)
(***************************************************************************)
EXTENDS HandoverProofs

-----------------------------------------------------------------------------
(* The broadcast receiver                                                  *)

\* The write task is subscribed to nothing, and has nothing left to read.
Deaf(p) == chat_receiver[p].room = NoRoom /\ chat_receiver[p].queue = <<>>

Exits == {m \in Response : m.kind = "ExitChatroom"}

\* Its receiver is that of the client's chatroom until the answer that the
\* client has left it arrives; only a running task has one.
Tied(p) ==
  /\ write_pc[p] # "running" => Deaf(p)
  /\ write_pc[p] = "idle" => p \notin clients
  /\ p \in clients =>
       \/ chat_receiver[p].room \in {NoRoom, chatroom_broker_id[p]}
       \/ Holds(main_responses[p], Exits)

\* A chatroom opens between places i and j of a queue of responses.
OpensBetween(queue, i, j) == \E k \in i .. j : queue[k].kind \in JoinedKinds

\* Once it has written ExitChatroom the task is deaf, until another chatroom
\* opens.
Told(p) ==
  \A i \in DOMAIN to_client[p] : to_client[p][i].kind = "ExitChatroom" =>
    /\ Deaf(p) \/ OpensBetween(to_client[p], i, Len(to_client[p]))
    /\ \A j \in DOMAIN to_client[p] :
         i < j /\ to_client[p][j].kind = "Message" => OpensBetween(to_client[p], i, j)

ReceiverIInv == \A p \in Peers : Tied(p) /\ Told(p)

-----------------------------------------------------------------------------
(* Hearing                                                                 *)

\* Responses that the client reads leave the others in their order.
LEMMA ToldStays ==
  ASSUME TypeOK, NEW p \in Peers, Told(p), Deaf(p) => Deaf(p)',
         \/ to_client'[p] = to_client[p]
         \/ to_client[p] # <<>> /\ to_client'[p] = Tail(to_client[p])
  PROVE  Told(p)'
<1> DEFINE old == to_client[p]
           new == to_client'[p]
<1>1. CASE new = old
  BY <1>1 DEF Told, OpensBetween, JoinedKinds
<1>2. CASE old # <<>> /\ new = Tail(old)
  <2>1. old \in Seq(Response) /\ new \in Seq(Response)
    BY <1>2 DEF TypeOK
  <2>2. /\ Len(old) \in Nat /\ Len(new) \in Nat /\ Len(new) = Len(old) - 1
        /\ DOMAIN new = 1 .. Len(new) /\ DOMAIN old = 1 .. Len(old)
        /\ \A i \in 1 .. Len(new) : i + 1 \in DOMAIN old /\ new[i] = old[i + 1]
    BY <1>2, <2>1, LastTail
  <2>3. ASSUME NEW i \in 1 .. Len(new), NEW j \in 1 .. Len(new),
               OpensBetween(old, i + 1, j + 1)
        PROVE  OpensBetween(new, i, j)
    <3>1. PICK k \in i + 1 .. j + 1 : old[k].kind \in JoinedKinds
      BY <2>3 DEF OpensBetween
    <3>2. k - 1 \in i .. j /\ k - 1 \in 1 .. Len(new) /\ new[k - 1] = old[k]
      BY <2>2, <3>1
    <3> QED
      BY <3>1, <3>2 DEF OpensBetween, JoinedKinds
  <2>4. ASSUME NEW i \in DOMAIN new, new[i].kind = "ExitChatroom"
        PROVE  /\ Deaf(p)' \/ OpensBetween(new, i, Len(new))
               /\ \A j \in DOMAIN new :
                    i < j /\ new[j].kind = "Message" => OpensBetween(new, i, j)
    <3>1. i + 1 \in DOMAIN old /\ old[i + 1].kind = "ExitChatroom"
      BY <2>2, <2>4
    <3>2. Deaf(p)' \/ OpensBetween(new, i, Len(new))
      <4>1. Deaf(p) \/ OpensBetween(old, i + 1, Len(new) + 1)
        BY <2>2, <3>1 DEF Told
      <4>2. Len(new) \in 1 .. Len(new) /\ i \in 1 .. Len(new)
        BY <2>2, <2>4
      <4> QED
        BY <2>3, <4>1, <4>2
    <3>3. ASSUME NEW j \in DOMAIN new, i < j, new[j].kind = "Message"
          PROVE  OpensBetween(new, i, j)
      <4>1. /\ j + 1 \in DOMAIN old /\ old[j + 1].kind = "Message" /\ i + 1 < j + 1
            /\ i \in 1 .. Len(new) /\ j \in 1 .. Len(new)
        BY <2>2, <3>3
      <4>2. OpensBetween(old, i + 1, j + 1)
        BY <3>1, <4>1 DEF Told
      <4> QED
        BY <2>3, <4>1, <4>2
    <3> QED
      BY <3>2, <3>3 DEF OpensBetween
  <2> QED
    BY <2>4 DEF Told
<1> QED
  BY <1>1, <1>2

\* One more response: a message is from the receiver, ExitChatroom drops it, and
\* only a chatroom that opens brings another.
LEMMA ToldMore ==
  ASSUME TypeOK, NEW p \in Peers, Told(p), NEW m \in Response,
         to_client'[p] = Append(to_client[p], m),
         m.kind = "Message" => ~Deaf(p),
         m.kind = "ExitChatroom" => Deaf(p)',
         Deaf(p) => Deaf(p)' \/ m.kind \in JoinedKinds
  PROVE  Told(p)'
<1> DEFINE old == to_client[p]
           new == to_client'[p]
           n == Len(old)
<1>1. old \in Seq(Response) /\ new \in Seq(Response)
  BY DEF TypeOK
<1>2. /\ n \in Nat /\ Len(new) = n + 1
      /\ DOMAIN new = 1 .. n + 1 /\ DOMAIN old = 1 .. n
      /\ \A i \in 1 .. n : new[i] = old[i]
      /\ new[n + 1] = m
  BY <1>1
<1>3. ASSUME NEW i \in 1 .. n, NEW j \in i .. n + 1,
             \/ OpensBetween(old, i, n) /\ j > n
             \/ OpensBetween(old, i, j) /\ j <= n
      PROVE  OpensBetween(new, i, j)
  <2>1. PICK k \in i .. n : k <= j /\ old[k].kind \in JoinedKinds
    BY <1>2, <1>3 DEF OpensBetween
  <2>2. k \in i .. j /\ new[k] = old[k]
    BY <1>2, <2>1
  <2> QED
    BY <2>1, <2>2 DEF OpensBetween, JoinedKinds
<1>4. ASSUME NEW i \in DOMAIN new, new[i].kind = "ExitChatroom"
      PROVE  /\ Deaf(p)' \/ OpensBetween(new, i, Len(new))
             /\ \A j \in DOMAIN new :
                  i < j /\ new[j].kind = "Message" => OpensBetween(new, i, j)
  <2>1. CASE i = n + 1
    BY <1>2, <1>4, <2>1
  <2>2. CASE i \in 1 .. n
    <3>1. old[i].kind = "ExitChatroom" /\ i \in DOMAIN old
      BY <1>2, <1>4, <2>2
    <3>2. Deaf(p) \/ OpensBetween(old, i, n)
      BY <3>1 DEF Told
    <3>3. Deaf(p)' \/ OpensBetween(new, i, n + 1)
      <4>1. CASE OpensBetween(old, i, n)
        <5>1. n + 1 \in i .. n + 1 /\ n + 1 > n
          BY <1>2, <2>2
        <5> QED
          BY <1>3, <2>2, <4>1, <5>1
      <4>2. CASE Deaf(p) /\ m.kind \in JoinedKinds
        <5>1. n + 1 \in i .. n + 1 /\ new[n + 1].kind \in JoinedKinds
          BY <1>2, <2>2, <4>2
        <5> QED
          BY <5>1 DEF OpensBetween, JoinedKinds
      <4> QED
        BY <3>2, <4>1, <4>2
    <3>4. ASSUME NEW j \in DOMAIN new, i < j, new[j].kind = "Message"
          PROVE  OpensBetween(new, i, j)
      <4>1. j \in i .. n + 1
        BY <1>2, <2>2, <3>4
      <4>2. CASE j = n + 1
        <5>1. OpensBetween(old, i, n)
          BY <1>2, <3>2, <3>4, <4>2
        <5> QED
          BY <1>2, <1>3, <2>2, <4>1, <4>2, <5>1
      <4>3. CASE j # n + 1
        <5>1. j \in DOMAIN old /\ old[j].kind = "Message" /\ j <= n
          BY <1>2, <3>4, <4>1, <4>3
        <5>2. OpensBetween(old, i, j)
          BY <3>1, <3>4, <5>1 DEF Told
        <5> QED
          BY <1>3, <2>2, <4>1, <5>1, <5>2
      <4> QED
        BY <4>2, <4>3
    <3> QED
      BY <1>2, <3>3, <3>4 DEF OpensBetween
  <2> QED
    BY <1>2, <2>1, <2>2
<1> QED
  BY <1>4 DEF Told

\* What hearing depends on: a step of another task leaves the receiver as deaf as
\* it was, and the client may have read.
HearingStays(p) ==
  /\ Deaf(p) => Deaf(p)'
  /\ \/ to_client'[p] = to_client[p]
     \/ to_client[p] # <<>> /\ to_client'[p] = Tail(to_client[p])
\* The receiver stays tied to the chatroom it is tied to.
TieStays(p) ==
  /\ Deaf(p) => Deaf(p)'
  /\ write_pc'[p] = write_pc[p] /\ chat_receiver'[p].room = chat_receiver[p].room
  /\ p \in clients' =>
       /\ p \in clients /\ chatroom_broker_id'[p] = chatroom_broker_id[p]
       /\ Holds(main_responses[p], Exits) => Holds(main_responses'[p], Exits)

\* Such a receiver stays tied.
LEMMA TieKeeps ==
  ASSUME NEW p \in Peers, Tied(p), TieStays(p)
  PROVE  Tied(p)'
  BY DEF Tied, TieStays, Deaf, Exits

\* Who is not the write task of p, a sub-broker or the main broker has no hand
\* in either.
LEMMA BystandersHear ==
  ASSUME TypeOK, NEW p \in Peers,
         \/ \E q \in Peers : ReadNext(q) \/ UserNext(q) \/ ProgramNext(q)
         \/ \E q \in Peers \ {p} : WriteNext(q)
         \/ UNCHANGED vars
  PROVE  HearingStays(p) /\ TieStays(p)
<1> DEFINE Same ==
             UNCHANGED <<write_pc[p], chat_receiver[p], clients, chatroom_broker_id[p],
                         main_responses[p]>>
           Read ==
             \/ to_client'[p] = to_client[p]
             \/ to_client[p] # <<>> /\ to_client'[p] = Tail(to_client[p])
<1> USE DEF write_vars, registry, client_vars, channels, peer_channels
<1>1. ASSUME NEW q \in Peers, ReadNext(q)
      PROVE  Same /\ Read
  BY <1>1, ReaderTouches DEF besides_reader
<1>2. ASSUME NEW q \in Peers, UserNext(q)
      PROVE  Same /\ Read
  BY <1>2 DEF UserNext, RequestUsername, RequestChatroom, RequestQuit, SendMessage,
     QuitChatroom, Kill, Request, UIOnly, End, Show
<1>3. ASSUME NEW q \in Peers, ProgramNext(q)
      PROVE  Same /\ Read
  <2>1. Same
    BY <1>3 DEF ProgramNext, AskUsername, ShowLobby, AwaitConfirmation, EnterChatroom,
       ShowMessage, LeaveChatroom, SayGoodbye, RefreshLobby, UnexpectedResponse,
       ConnectionFails, Request, UIOnly, End, Show
  <2>2. \/ to_client' = to_client
        \/ to_client[q] # <<>> /\ to_client' = [to_client EXCEPT ![q] = Tail(@)]
    BY <1>3 DEF ProgramNext, AskUsername, ShowLobby, AwaitConfirmation, EnterChatroom,
       ShowMessage, LeaveChatroom, SayGoodbye, RefreshLobby, UnexpectedResponse,
       ConnectionFails, Request, Reading
  <2> QED
    BY <2>1, <2>2 DEF TypeOK
<1>4. ASSUME NEW q \in Peers \ {p}, WriteNext(q)
      PROVE  Same /\ Read
  <2>1. UNCHANGED <<registry>>
    BY <1>4 DEF WriteNext, Shutdown, MainResponse, Subscription, BroadcastNext,
       ChatMessage, Lagged, WriteFails, WriteTaskOnly
  <2>2. UNCHANGED <<to_client[p], write_pc[p], chat_receiver[p], main_responses[p]>>
    BY <1>4, WriterTouches
  <2> QED
    BY <2>1, <2>2
<1>5. ASSUME UNCHANGED vars
      PROVE  Same /\ Read
  BY <1>5 DEF vars, sockets
<1>6. Same /\ Read
  BY <1>1, <1>2, <1>3, <1>4, <1>5
<1> QED
  BY <1>6 DEF HearingStays, TieStays, Deaf

\* A sub-broker's broadcast reaches the receivers of its chatroom only.
LEMMA BroadcastsAreHeard ==
  ASSUME TypeOK, NEW p \in Peers, NEW r \in Rooms, RoomNext(r)
  PROVE  HearingStays(p) /\ TieStays(p)
<1>1. UNCHANGED besides_room
  BY DEF RoomNext, RoomEventNext, RoomMessage, RoomQuit, RoomShutdown, RoomOnly,
     besides_room, ui_vars, registry, client_vars
<1>2. /\ chat_receiver'[p].room = chat_receiver[p].room
      /\ Deaf(p) => Deaf(p)'
  <2>1. CASE chat_receiver' = chat_receiver
    BY <2>1 DEF Deaf
  <2>2. ASSUME NEW m, Broadcast(r, m)
        PROVE  /\ chat_receiver'[p].room = chat_receiver[p].room
               /\ Deaf(p) => Deaf(p)'
    <3>1. chat_receiver'[p].room = chat_receiver[p].room
      <4>1. chat_receiver[p] \in BroadcastReceiver
        BY DEF TypeOK
      <4>2. \A receiver \in BroadcastReceiver : Pushed(receiver, m).room = receiver.room
        BY DEF Pushed, BroadcastReceiver
      <4>3. \/ chat_receiver'[p] = chat_receiver[p]
            \/ chat_receiver'[p] = Pushed(chat_receiver[p], m)
        BY <2>2 DEF Broadcast
      <4> QED
        BY <4>1, <4>2, <4>3
    <3>2. Deaf(p) => chat_receiver'[p] = chat_receiver[p]
      BY <2>2 DEF Deaf, Broadcast, Rooms, NoRoom
    <3> QED
      BY <3>1, <3>2 DEF Deaf
  <2> QED
    BY <2>1, <2>2 DEF RoomNext, RoomEventNext, RoomMessage, RoomQuit, RoomShutdown
<1> QED
  BY <1>1, <1>2 DEF besides_room, sockets, HearingStays, TieStays

\* The main broker writes nothing to a socket itself.
LEMMA BrokerIsUnheard ==
  ASSUME TypeOK, NEW p \in Peers, BrokerNext
  PROVE  HearingStays(p) /\ UNCHANGED chat_receiver
<1>1. UNCHANGED <<chat_receiver, to_client>>
  BY DEF BrokerNext, HarvestClient, HarvestRoom, ClientExit, EventNext, NewClient,
     QuitEvent, Lobby, ReadSync, Username, Create, Join, RejectEvent, Refuse, Admit,
     OnlyAnswers, sockets, write_vars
<1> QED
  BY <1>1 DEF HearingStays, Deaf

\* The write task itself.
LEMMA WriterHears ==
  ASSUME TypeOK, NEW p \in Peers, HandInv(p), Tied(p), Told(p), WriteNext(p)
  PROVE  Tied(p)' /\ Told(p)'
<1> USE DEF registry, client_vars
<1>1. /\ write_pc[p] = "running" /\ UNCHANGED <<clients, chatroom_broker_id>>
  BY DEF WriteNext, Shutdown, MainResponse, Subscription, BroadcastNext, ChatMessage, Lagged,
     WriteFails, WriteTaskOnly, Writing
<1>2. CASE Shutdown(p) \/ WriteFails(p)
  <2>1. write_pc'[p] = "done" /\ Deaf(p)'
    BY <1>2 DEF Shutdown, WriteFails, EndWrite, Deaf, DummyReceiver, Receiver, TypeOK
  <2>2. \/ to_client'[p] = to_client[p]
        \/ to_client'[p] = Append(to_client[p], Plain("ExitLobby"))
    BY <1>2 DEF Shutdown, WriteFails, Write, Put, TypeOK
  <2>3. Plain("ExitLobby") \in Response /\ Plain("ExitLobby").kind = "ExitLobby"
    BY PlainType DEF Plain, PlainKinds
  <2>4. Tied(p)'
    BY <2>1 DEF Tied, Deaf
  <2> QED
    BY <2>1, <2>2, <2>3, <2>4, ToldStays, ToldMore
<1>3. CASE MainResponse(p)
  <2> DEFINE m == Head(main_responses[p])
  <2>1. /\ main_responses[p] # <<>> /\ to_client'[p] = Append(to_client[p], m)
        /\ main_responses'[p] = Tail(main_responses[p]) /\ UNCHANGED write_pc
        /\ m.kind = "ExitChatroom" => Deaf(p)'
        /\ m.kind # "ExitChatroom" => chat_receiver' = chat_receiver
    BY <1>3 DEF MainResponse, Write, Put, Deaf, DummyReceiver, Receiver, TypeOK
  <2>2. /\ m \in Response /\ 1 \in DOMAIN main_responses[p] /\ main_responses[p][1] = m
        /\ Tail(main_responses[p]) = <<>> /\ DOMAIN main_responses[p] = {1}
    <3>1. main_responses[p] \in Seq(Response) /\ Len(main_responses[p]) <= 1
      BY DEF TypeOK, HandInv, Once, AnswerOnce
    <3> QED
      BY <2>1, <3>1, LastOne
  <2>3. m.kind \in AnswerKinds /\ m.kind # "Message"
    BY <2>2 DEF HandInv, Shape, AnswerKinds, PlainKinds, LobbyKinds
  <2>4. Told(p)'
    BY <2>1, <2>2, <2>3, ToldMore DEF Deaf
  <2>5. Tied(p)'
    <3>1. Deaf(p)' \/ chat_receiver'[p].room = chat_receiver[p].room
      BY <2>1
    <3>2. m.kind # "ExitChatroom" => ~Holds(main_responses[p], Exits)
      BY <2>2 DEF Holds, Exits
    <3> QED
      BY <1>1, <2>1, <3>1, <3>2 DEF Tied, Deaf
  <2> QED
    BY <2>4, <2>5
<1>4. CASE Subscription(p)
  <2> DEFINE o == Head(subscriptions[p])
  <2>1. /\ subscriptions[p] # <<>> /\ to_client'[p] = Append(to_client[p], o.response)
        /\ UNCHANGED write_pc /\ chat_receiver'[p] = o.receiver
    BY <1>4 DEF Subscription, Write, Put, TypeOK
  <2>2. o \in SubscriptionOf /\ 1 \in DOMAIN subscriptions[p] /\ subscriptions[p][1] = o
    BY <2>1, ReceiveType DEF TypeOK
  <2>3. o.response \in Response /\ o.response.kind \in JoinedKinds
    BY <2>2 DEF SubscriptionOf, HandInv, Shape
  <2>4. p \in clients => o.receiver.room = chatroom_broker_id[p]
    BY <2>2 DEF HandInv, Wired
  <2>5. Told(p)'
    BY <2>1, <2>3, ToldMore DEF JoinedKinds
  <2>6. Tied(p)'
    BY <1>1, <2>1, <2>4 DEF Tied
  <2> QED
    BY <2>5, <2>6
<1>5. CASE ChatMessage(p)
  <2> DEFINE m == Head(chat_receiver[p].queue)
  <2>1. chat_receiver[p] \in BroadcastReceiver /\ chat_receiver[p].queue # <<>>
    BY <1>5 DEF ChatMessage, TypeOK
  <2>2. chat_receiver[p].queue \in Seq(MessageResponse)
    BY <2>1 DEF BroadcastReceiver
  <2>3. m \in MessageResponse
    BY <2>1, <2>2
  <2>4. m \in Response /\ m.kind = "Message"
    BY <2>3, MessageIsResponse DEF MessageResponse
  <2>5. to_client'[p] = to_client[p] \/ to_client'[p] = Append(to_client[p], m)
    BY <1>5 DEF ChatMessage, Write, Put, TypeOK
  <2>6. ~Deaf(p)
    BY <2>1 DEF Deaf
  <2>7. chat_receiver'[p].room = chat_receiver[p].room
    <3>1. chat_receiver'[p] = [chat_receiver[p] EXCEPT !.queue = Tail(@)]
      BY <1>5 DEF ChatMessage, TypeOK
    <3> QED
      BY <2>1, <3>1 DEF BroadcastReceiver
  <2>8. TieStays(p)
    BY <1>1, <1>5, <2>6, <2>7 DEF ChatMessage, TieStays, Exits
  <2> QED
    BY <2>4, <2>5, <2>6, <2>8, TieKeeps, ToldStays, ToldMore
<1>6. CASE Lagged(p)
  <2>1. /\ chat_receiver'[p] = [chat_receiver[p] EXCEPT !.lagged = FALSE]
        /\ UNCHANGED <<to_client, write_pc, main_responses>>
    BY <1>6 DEF Lagged, TypeOK
  <2>2. /\ chat_receiver'[p].room = chat_receiver[p].room
        /\ chat_receiver'[p].queue = chat_receiver[p].queue
    BY <2>1 DEF TypeOK, BroadcastReceiver
  <2>3. TieStays(p)
    BY <1>1, <2>1, <2>2 DEF TieStays, Deaf, Exits
  <2> QED
    BY <2>1, <2>3, TieKeeps, ToldStays DEF TieStays
<1> QED
  BY <1>2, <1>3, <1>4, <1>5, <1>6 DEF WriteNext, BroadcastNext

\* The main broker's answer to a client whose event or notice it takes is the
\* first.
LEMMA NoAnswerYet ==
  ASSUME TypeOK, NEW p \in Peers, HandInv(p), events # <<>>, Head(events).peer_id = p
  PROVE  main_responses[p] = <<>>
<1>1. PICK s \in Sorts : OnlyTurn(p, "event", s)
  BY HeadEvent
<1>2. \A u \in Sorts : ~AnswerTurn(p, u)
  BY <1>1 DEF OnlyTurn, Turn, Places
<1> QED
  BY <1>2, SortsOf DEF AnswerTurn, Sorts

\* One more response does not hide the others.
LEMMA RespondKeeps ==
  ASSUME TypeOK, NEW q \in Peers, NEW m, Respond(q, m), NEW p \in Peers,
         Holds(main_responses[p], Exits)
  PROVE  Holds(main_responses'[p], Exits)
<1> DEFINE old == main_responses[p]
           new == main_responses'[p]
<1>1. new = old \/ new = Append(old, m)
  BY DEF Respond, Put, TypeOK
<1>2. old \in Seq(Response)
  BY DEF TypeOK
<1>3. \A i \in DOMAIN old : i \in DOMAIN Append(old, m) /\ Append(old, m)[i] = old[i]
  BY <1>2
<1> QED
  BY <1>1, <1>3 DEF Holds

\* A client whose tie is not the main broker's to cut or make.
LEMMA BrokerTies ==
  ASSUME TypeOK, TasksIInv, NEW p \in Peers, HandInv(p), Tied(p), BrokerNext
  PROVE  Tied(p)'
<1> USE DEF client_vars
<1>1. UNCHANGED chat_receiver /\ BrokerRunning
  BY BrokerIsUnheard DEF BrokerNext, HarvestClient, HarvestRoom, ClientExit, EventNext,
     NewClient, QuitEvent, Lobby, ReadSync, Username, Create, Join, RejectEvent, Takes
<1>2. ASSUME UNCHANGED write_pc,
             p \in clients' =>
               /\ p \in clients /\ chatroom_broker_id'[p] = chatroom_broker_id[p]
               /\ Holds(main_responses[p], Exits) => Holds(main_responses'[p], Exits)
      PROVE  Tied(p)'
  BY <1>1, <1>2, TieKeeps DEF TieStays, Deaf
<1>3. ASSUME NEW reason, BrokerFails(reason), UNCHANGED write_vars
      PROVE  Tied(p)'
  BY <1>2, <1>3 DEF BrokerFails, write_vars
<1>4. CASE HarvestClient
  <2> DEFINE q == Head(client_disconnection)
  <2>1. CASE ~ClientIsListed(q)
    BY <1>3, <1>4, <2>1 DEF HarvestClient
  <2>2. CASE ClientIsListed(q)
    <3>1. /\ UNCHANGED write_pc /\ clients' = clients \ {q}
          /\ p # q => /\ chatroom_broker_id'[p] = chatroom_broker_id[p]
                      /\ main_responses'[p] = main_responses[p]
      BY <1>4, <2>2 DEF HarvestClient, Empty, write_vars, TypeOK
    <3> QED
      BY <1>2, <3>1
  <2> QED
    BY <2>1, <2>2
<1>5. CASE HarvestRoom
  BY <1>2, <1>3, <1>5 DEF HarvestRoom, registry, peer_channels, write_vars
<1>6. CASE ClientExit
  <2> DEFINE q == Head(client_exit)
             r == chatroom_broker_id[q]
  <2>1. CASE q \notin clients \/ r = NoRoom \/ ~RoomIsListed(r)
    BY <1>3, <1>6, <2>1 DEF ClientExit
  <2>2. CASE q \in clients /\ r # NoRoom /\ RoomIsListed(r)
    <3>1. /\ UNCHANGED <<write_pc, clients>>
          /\ main_responses' = Put(main_responses, q, Plain("ExitChatroom"))
          /\ chatroom_broker_id' = [chatroom_broker_id EXCEPT ![q] = NoRoom]
      BY <1>6, <2>2 DEF ClientExit, Respond, write_vars
    <3>2. CASE p # q
      BY <1>2, <3>1, <3>2 DEF Put, TypeOK
    <3>3. CASE p = q
      <4> DEFINE m == Plain("ExitChatroom")
                 old == main_responses[p]
      <4>1. m \in Exits /\ old \in Seq(Response)
        BY PlainType DEF Plain, PlainKinds, Exits, TypeOK
      <4>2. main_responses'[p] = Append(old, m)
        BY <3>1, <3>3 DEF Put, TypeOK
      <4>3. Len(old) + 1 \in DOMAIN Append(old, m) /\ Append(old, m)[Len(old) + 1] = m
        BY <4>1
      <4>4. Holds(main_responses'[p], Exits)
        BY <4>1, <4>2, <4>3 DEF Holds
      <4> QED
        BY <1>1, <3>1, <4>4 DEF Tied, Deaf, Exits
    <3> QED
      BY <3>2, <3>3
  <2> QED
    BY <2>1, <2>2
<1>7. CASE EventNext
  <2> DEFINE q == Head(events).peer_id
  <2>1. events # <<>>
    BY <1>7 DEF EventNext, NewClient, QuitEvent, Lobby, ReadSync, Username, Create, Join,
       RejectEvent, Takes
  <2>2. q \in Peers
    <3>1. Head(events) \in Event
      BY <2>1, ReceiveType DEF TypeOK
    <3> QED
      BY <3>1, EventParts
  <2>3. CASE NewClient
    <3>1. /\ clients' = clients \cup {q} /\ q \notin clients
          /\ write_pc' = [write_pc EXCEPT ![q] = "running"]
          /\ UNCHANGED chatroom_broker_id /\ Respond(q, Plain("ConnectionOk"))
      BY <2>3 DEF NewClient, Takes, Acceptable
    <3>2. CASE p = q
      <4>1. write_pc[p] # "running"
        BY <1>1, <3>1, <3>2 DEF TasksIInv, WritersListed
      <4>2. write_pc'[p] = "running"
        BY <3>1, <3>2 DEF TypeOK
      <4> QED
        BY <1>1, <4>1, <4>2 DEF Tied, Deaf
    <3>3. CASE p # q
      <4>1. write_pc'[p] = write_pc[p] /\ (p \in clients' => p \in clients)
        BY <3>1, <3>3
      <4>2. TieStays(p)
        BY <1>1, <2>2, <3>1, <4>1, RespondKeeps DEF TieStays, Deaf
      <4> QED
        BY <4>2, TieKeeps
    <3> QED
      BY <3>2, <3>3
  <2>4. CASE QuitEvent \/ Lobby \/ ReadSync \/ Username
    <3>1. /\ UNCHANGED <<write_pc, clients, chatroom_broker_id>>
          /\ UNCHANGED main_responses \/ \E m : Respond(q, m)
      BY <2>4 DEF QuitEvent, Lobby, ReadSync, Username, OnlyAnswers, write_vars
    <3> QED
      BY <1>2, <2>2, <3>1, RespondKeeps
  <2>5. CASE RejectEvent
    BY <1>3, <2>5 DEF RejectEvent
  <2>6. CASE Create \/ Join
    <3>1. \/ \E kind : Refuse(kind)
          \/ \E reason : BrokerFails(reason) /\ UNCHANGED write_vars
          \/ \E r \in Rooms : \E m : Admit(q, r, m)
      <4>1. CASE Create
        BY <4>1 DEF Create
      <4>2. CASE Join
        <5>1. chatroom_name_to_id[Head(events).arg] \in chatroom_brokers
                => chatroom_name_to_id[Head(events).arg] \in Rooms
          BY DEF TypeOK
        <5> QED
          BY <4>2, <5>1 DEF Join
      <4> QED
        BY <2>6, <4>1, <4>2
    <3>2. ASSUME NEW kind, Refuse(kind)
          PROVE  Tied(p)'
      BY <1>2, <2>2, <3>2, RespondKeeps DEF Refuse, OnlyAnswers, write_vars
    <3>3. ASSUME NEW r \in Rooms, NEW m, Admit(q, r, m)
          PROVE  Tied(p)'
      <4>1. /\ UNCHANGED <<write_pc, clients, main_responses>>
            /\ chatroom_broker_id' = [chatroom_broker_id EXCEPT ![q] = r]
        BY <3>3 DEF Admit, write_vars
      <4>2. CASE p # q
        BY <1>2, <4>1, <4>2 DEF TypeOK
      <4>3. CASE p = q
        <5>1. chatroom_broker_id[p] = NoRoom
          BY <2>6, <4>3 DEF Create, Join, Takes, Acceptable, MayEnter
        <5>2. main_responses[p] = <<>>
          BY <2>1, <4>3, NoAnswerYet
        <5>3. p \in clients => chat_receiver[p].room = NoRoom
          BY <5>1, <5>2, HoldsNothing DEF Tied
        <5> QED
          BY <1>1, <4>1, <5>3 DEF Tied, Deaf
      <4> QED
        BY <4>2, <4>3
    <3> QED
      BY <1>3, <3>1, <3>2, <3>3
  <2> QED
    BY <1>7, <2>3, <2>4, <2>5, <2>6 DEF EventNext
<1> QED
  BY <1>4, <1>5, <1>6, <1>7 DEF BrokerNext

\* At the start no task has one.
LEMMA InitReceivers == Init => ReceiverIInv
<1> SUFFICES ASSUME Init, NEW p \in Peers
             PROVE  Tied(p) /\ Told(p)
  BY DEF ReceiverIInv
<1>1. /\ chat_receiver[p] = DummyReceiver /\ to_client[p] = <<>> /\ p \notin clients
  BY DEF Init
<1> QED
  BY <1>1 DEF Tied, Told, Deaf, DummyReceiver, Receiver

\* Every step keeps the receivers tied.
LEMMA NextReceivers ==
  ASSUME TypeOK, TasksIInv, HandIInv, ReceiverIInv, [Next]_vars
  PROVE  ReceiverIInv'
<1> SUFFICES ASSUME NEW p \in Peers
             PROVE  Tied(p)' /\ Told(p)'
  BY DEF ReceiverIInv
<1>1. HandInv(p) /\ Tied(p) /\ Told(p)
  BY DEF HandIInv, ReceiverIInv
<1>2. CASE BrokerNext
  <2>1. HearingStays(p)
    BY <1>2, BrokerIsUnheard
  <2>2. Tied(p)'
    BY <1>1, <1>2, BrokerTies
  <2> QED
    BY <1>1, <2>1, <2>2, ToldStays DEF HearingStays
<1>3. CASE WriteNext(p)
  BY <1>1, <1>3, WriterHears
<1>4. CASE \E r \in Rooms : RoomNext(r)
  <2>1. HearingStays(p) /\ TieStays(p)
    BY <1>4, BroadcastsAreHeard
  <2> QED
    BY <1>1, <2>1, ToldStays, TieKeeps DEF HearingStays
<1>5. CASE \/ \E q \in Peers : ReadNext(q) \/ UserNext(q) \/ ProgramNext(q)
           \/ \E q \in Peers \ {p} : WriteNext(q)
           \/ UNCHANGED vars
  <2>1. HearingStays(p) /\ TieStays(p)
    BY <1>5, BystandersHear
  <2> QED
    BY <1>1, <2>1, ToldStays, TieKeeps DEF HearingStays
<1> QED
  BY <1>2, <1>3, <1>4, <1>5 DEF Next

\* Whatever the tasks do, a write task hears of its client's chatroom only.
THEOREM ReceiversAreTied == Spec => []ReceiverIInv
<1>1. TypeOK /\ TasksIInv /\ HandIInv /\ ReceiverIInv /\ [Next]_vars => ReceiverIInv'
  BY NextReceivers
<1> QED
  BY <1>1, InitReceivers, TypeCorrect, TasksInductive, TurnsAreTaken, PTL DEF Spec

\* What a client reads of a chatroom it has left ends with ExitChatroom: no
\* message follows until a chatroom opens again (client_write_loop replaces its
\* broadcast receiver when it forwards ExitChatroom), whatever the old chatroom
\* still broadcasts.
THEOREM OldRoomsAreSilent == Spec => []NoStrayMessage
<1>1. ReceiverIInv => NoStrayMessage
  BY DEF ReceiverIInv, Told, OpensBetween, NoStrayMessage
<1> QED
  BY <1>1, ReceiversAreTied, PTL

-----------------------------------------------------------------------------
(* As long as every client program is up                                   *)

AllUp == \A p \in Peers : page[p] \notin {"Crashed", "Gone"}

Goodbyes == {m \in Response : m.kind = "ExitLobby"}

\* The client quit the program, and the main broker has yet to take its event.
Departing(p) == Holds(events, QuitsOf(p))
\* The main broker knows the client, and both its tasks serve it.
Live(p) == p \in clients /\ read_pc[p] # "done" /\ write_pc[p] # "done"
\* The main broker has yet to learn of it.
Unknown(p) == p \notin clients /\ read_pc[p] # "done" /\ write_pc[p] = "idle"
\* Its write task may be gone (ExitAnswered in ChatProperties): only the answer
\* is lost, and the client will be harvested.
LosesAnswer(p, x, s) ==
  x = "answer" /\ s = "lobby" /\ p \in clients /\ read_pc[p] # "done"

\* Whatever carries the turn comes from a client that the server serves.
TurnServed(p) ==
  \A x \in Places : \A s \in Sorts : Turn(p, x, s) =>
    Departing(p) \/ Live(p) \/ (s = "new" /\ Unknown(p)) \/ LosesAnswer(p, x, s)

\* A client whose tasks have ended is in no chatroom, and one in a chatroom has
\* a receiver of its broadcasts.
Homed(p) == write_pc[p] = "done" \/ read_pc[p] = "done" => chatroom_broker_id[p] = NoRoom
Hears(p) == chatroom_broker_id[p] # NoRoom => HoldsReceiver(p, chatroom_broker_id[p])

\* ExitLobby is the last thing the server does for a client.
SaysGoodbye(p) ==
  page[p] = "QuitLobbyPage" \/ Holds(to_client[p], Goodbyes) =>
    read_pc[p] = "done" /\ write_pc[p] = "done"

ServedInv(p) == TurnServed(p) /\ Homed(p) /\ Hears(p) /\ SaysGoodbye(p)

Ended(r) == room_pc[r] \in {"ended", "harvested"}
\* A sub-broker ends when its chatroom is out of the map.
RoomsLast == \A r \in Rooms : Ended(r) => r \notin chatroom_brokers
RoomsReturned ==
  \A i \in DOMAIN disconnected_sub_broker : Ended(disconnected_sub_broker[i])

\* The inductive invariant.
ServerUp == BrokerRunning /\ RoomsLast /\ \A p \in Peers : ServedInv(p)
SurvivalIInv == (AllUp => ServerUp) /\ RoomsReturned

\* What is known of every state.
Known ==
  TypeOK /\ RegistryInv /\ TasksIInv /\ HandIInv /\ ReceiverIInv /\ NoCorruption

-----------------------------------------------------------------------------
(* The turn of a client that is served                                     *)

\* A client program that has failed has failed for good.
LEMMA FailuresLast ==
  ASSUME TypeOK, HandIInv, [Next]_vars, AllUp'
  PROVE  AllUp
<1> SUFFICES ASSUME NEW p \in Peers, page[p] \in {"Crashed", "Gone"}
             PROVE  page'[p] = page[p]
  BY DEF AllUp
<1>1. ~ClientOpen(p) /\ page[p] # "Unstarted"
  BY DEF ClientOpen, OpenPages
<1>2. CASE BrokerNext \/ (\E r \in Rooms : RoomNext(r)) \/ UNCHANGED vars
  <2>1. UNCHANGED page
    BY <1>2 DEF BrokerNext, HarvestClient, HarvestRoom, ClientExit, EventNext, NewClient,
       QuitEvent, Lobby, ReadSync, Username, Create, Join, RejectEvent, Refuse, Admit,
       OnlyAnswers, RoomNext, RoomEventNext, RoomMessage, RoomQuit, RoomShutdown, RoomOnly,
       vars, ui_vars
  <2> QED
    BY <2>1
<1>3. ASSUME NEW q \in Peers, ReadNext(q)
      PROVE  page'[p] = page[p]
  <2>1. CASE AcceptConnection(q)
    BY <1>1, <2>1 DEF AcceptConnection, TypeOK
  <2>2. CASE ~AcceptConnection(q)
    BY <1>3, <2>2 DEF ReadNext, ResumeSend, FrameNext, ChannelNext, ReadFrame, ReadFails,
       NewChatroomChannel, ChatroomChannelClosed, ui_vars
  <2> QED
    BY <2>1, <2>2
<1>4. ASSUME NEW q \in Peers, WriteNext(q)
      PROVE  page'[p] = page[p]
  BY <1>4 DEF WriteNext, Shutdown, MainResponse, Subscription, BroadcastNext, ChatMessage,
     Lagged, WriteFails, WriteTaskOnly, ui_vars
<1>5. ASSUME NEW q \in Peers, UserNext(q) \/ ProgramNext(q)
      PROVE  page'[p] = page[p]
  <2>1. CASE q # p
    BY <1>5, <2>1 DEF UserNext, RequestUsername, RequestChatroom, RequestQuit, SendMessage,
       QuitChatroom, Kill, Request, ProgramNext, AskUsername, ShowLobby, AwaitConfirmation,
       EnterChatroom, ShowMessage, LeaveChatroom, SayGoodbye, RefreshLobby,
       UnexpectedResponse, ConnectionFails, End, Show, ui_vars, TypeOK
  <2>2. CASE q = p
    <3>1. ~Reads(p) /\ step[p] = "response"
      BY <1>1 DEF Reads, HandIInv, HandInv, Shape, TypeOK, Steps
    <3> QED
      BY <1>1, <1>5, <2>2, <3>1 DEF UserNext, ProgramNext, RequestUsername, RequestChatroom,
         RequestQuit, SendMessage, QuitChatroom, Kill, Prompts, AskUsername, ShowLobby,
         AwaitConfirmation, EnterChatroom, ShowMessage, LeaveChatroom, SayGoodbye,
         RefreshLobby, UnexpectedResponse, ConnectionFails, Reading
  <2> QED
    BY <2>1, <2>2
<1> QED
  BY <1>2, <1>3, <1>4, <1>5 DEF Next

\* A Quit event among the client's events is its turn.
LEMMA DepartingTurn ==
  ASSUME NEW p \in Peers, Departing(p)
  PROVE  Turn(p, "event", "lobby")
<1>1. QuitsOf(p) \subseteq EventsAs(p, "lobby")
  BY DEF QuitsOf, EventsAs, EventsOf, EventSort
<1> QED
  BY <1>1, HoldsMore DEF Departing, Turn, EventTurn

\* A client's Quit stays among its events until they are taken.
LEMMA DepartingStays ==
  ASSUME TypeOK, NEW p \in Peers, HandInv(p), Departing(p), EventStays(p),
         Holds(events', EventsOf(p))
  PROVE  Departing(p)'
<1>1. PICK i \in DOMAIN events : events[i] \in QuitsOf(p)
  BY DEF Departing, Holds
<1>2. /\ events[i] \in EventsOf(p)
      /\ \A j \in DOMAIN events : events[j] \in EventsOf(p) => j = i
  BY <1>1 DEF QuitsOf, EventsOf, HandInv, Once, EventOnce, AtMostOne
<1>3. PICK k \in DOMAIN events' : events'[k] \in EventsOf(p)
  BY DEF Holds
<1>4. events \in Seq(Event)
  BY DEF TypeOK
<1>5. events'[k] = events[i]
  <2>1. CASE events' = events
    BY <1>2, <1>3, <2>1
  <2>2. CASE events' = <<>>
    BY <1>3, <2>2
  <2>3. CASE events # <<>> /\ events' = Tail(events)
    <3>1. k + 1 \in DOMAIN events /\ events'[k] = events[k + 1]
      BY <1>3, <1>4, <2>3, LastTail
    <3> QED
      BY <1>2, <1>3, <3>1
  <2>4. CASE \E m \in Event \ EventsOf(p) : events' = Append(events, m)
    <3>1. PICK m \in Event \ EventsOf(p) : events' = Append(events, m)
      BY <2>4
    <3>2. \/ k \in DOMAIN events /\ events'[k] = events[k]
          \/ events'[k] = m
      BY <1>3, <1>4, <3>1, LastAppend
    <3> QED
      BY <1>2, <1>3, <3>1, <3>2
  <2> QED
    BY <2>1, <2>2, <2>3, <2>4 DEF EventStays, Shrinks, Gains
<1> QED
  BY <1>1, <1>3, <1>5 DEF Departing, Holds, QuitsOf

\* A turn beyond the greeting, of a client that has not quit, is served.
LEMMA TurnIsLive ==
  ASSUME NEW p \in Peers, HandInv(p), TurnServed(p),
         NEW x \in Places \ {"event"}, NEW s \in Sorts \ {"new"}, Turn(p, x, s),
         x = "answer" => write_pc[p] # "done"
  PROVE  Live(p)
<1>1. ~Departing(p)
  BY DepartingTurn DEF HandInv, OneTurn, OnlyTurn, Places, Sorts
<1> QED
  BY <1>1 DEF TurnServed, LosesAnswer, Live

\* A greeting is of a client that the main broker does not know, unless it
\* knows it and both its tasks run.
LEMMA NewIsUnknown ==
  ASSUME NEW p \in Peers, HandInv(p), TurnServed(p),
         NEW x \in Places, Turn(p, x, "new")
  PROVE  Live(p) \/ Unknown(p)
<1>1. "new" \in Sorts /\ "lobby" \in Sorts /\ "event" \in Places
  BY DEF Sorts, Places
<1>2. ~Departing(p)
  BY <1>1, DepartingTurn DEF HandInv, OneTurn, OnlyTurn
<1> QED
  BY <1>1, <1>2 DEF TurnServed, LosesAnswer

\* The tasks of the client are the same, and so is what the map says of them.
SameStage(p) ==
  /\ p \in clients' <=> p \in clients
  /\ read_pc'[p] = "done" <=> read_pc[p] = "done"
  /\ write_pc'[p] = write_pc[p]

\* A turn that stays is served if it was.
LEMMA ServedStays ==
  ASSUME TypeOK, NEW p \in Peers, HandInv(p), TurnServed(p), EventStays(p),
         \A x \in Places : Stays(p, x),
         \A x \in Places : \A s \in Sorts : Turn(p, x, s) /\ ~Departing(p) =>
           \/ ~Turn(p, x, s)'
           \/ Live(p)' \/ (s = "new" /\ Unknown(p)') \/ LosesAnswer(p, x, s)'
  PROVE  TurnServed(p)'
<1> SUFFICES ASSUME NEW x \in Places, NEW s \in Sorts, Turn(p, x, s)'
             PROVE  \/ Departing(p)' \/ Live(p)' \/ (s = "new" /\ Unknown(p)')
                    \/ LosesAnswer(p, x, s)'
  BY DEF TurnServed
<1>1. Turn(p, x, s)
  BY DEF Stays
<1>2. CASE Departing(p)
  <2>1. x = "event"
    BY <1>1, <1>2, DepartingTurn DEF HandInv, OneTurn, OnlyTurn, Places, Sorts
  <2>2. EventTurn(p, s)'
    BY <2>1 DEF Turn
  <2>3. Holds(events', EventsOf(p))
    <3>1. \E i \in DOMAIN events' : events'[i] \in EventsOf(p)
      BY <2>2 DEF EventTurn, EventsAs, EventsOf, Holds
    <3> QED
      BY <3>1 DEF Holds
  <2> QED
    BY <1>2, <2>3, DepartingStays
<1>3. CASE ~Departing(p)
  BY <1>1, <1>3
<1> QED
  BY <1>2, <1>3

\* A step that leaves the client's tasks alone and does not move its turn, or
\* moves one that the server serves.
LEMMA StageServed ==
  ASSUME TypeOK, NEW p \in Peers, HandInv(p), TurnServed(p), SameStage(p),
         Live(p) \/ (EventStays(p) /\ \A x \in Places : Stays(p, x))
  PROVE  TurnServed(p)'
<1>1. CASE Live(p)
  BY <1>1 DEF SameStage, Live, TurnServed
<1>2. CASE EventStays(p) /\ \A x \in Places : Stays(p, x)
  <2>1. ASSUME NEW x \in Places, NEW s \in Sorts, Turn(p, x, s), ~Departing(p)
        PROVE  Live(p)' \/ (s = "new" /\ Unknown(p)') \/ LosesAnswer(p, x, s)'
    <3>1. Live(p) \/ (s = "new" /\ Unknown(p)) \/ LosesAnswer(p, x, s)
      BY <2>1 DEF TurnServed
    <3> QED
      BY <3>1 DEF SameStage, Live, Unknown, LosesAnswer
  <2> QED
    BY <1>2, <2>1, ServedStays
<1> QED
  BY <1>1, <1>2

-----------------------------------------------------------------------------
(* The read task                                                           *)

\* The chatroom of a client in the map goes on.
LEMMA RoomsGoOn ==
  ASSUME TypeOK, RegistryInv, RoomsLast, NEW p \in clients, chatroom_broker_id[p] # NoRoom
  PROVE  ~Ended(chatroom_broker_id[p])
<1> DEFINE r == chatroom_broker_id[p]
<1>1. r \in Rooms /\ p \in Members(r)
  BY DEF TypeOK, RoomOrNone, Members
<1>2. r \in chatroom_brokers
  BY <1>1, ListedHasMember DEF RegistryInv
<1> QED
  BY <1>1, <1>2 DEF RoomsLast

\* A program that has ended while all are up has read ExitLobby.
LEMMA ClosedIsGoodbye ==
  ASSUME AllUp, NEW p \in Peers, SaysGoodbye(p), ClientClosed(p)
  PROVE  read_pc[p] = "done" /\ write_pc[p] = "done"
  BY DEF AllUp, SaysGoodbye, ClientClosed

\* While every program is up a read task ends in two ways only: with a Quit to the main
\* broker, or because the main broker does not know its client.
LEMMA ReadEndsLawfully ==
  ASSUME Known, AllUp, ServerUp, NEW p \in Peers, ReadNext(p), read_pc'[p] = "done"
  PROVE  \/ Departing(p)'
         \/ /\ p \notin clients /\ \A x \in Places : ~Turn(p, x, "new")
            /\ read_pc[p] = "running" /\ EndRead(p) /\ UNCHANGED <<events, chat_events>>
<1> USE DEF Known
<1>1. HandInv(p) /\ ServedInv(p) /\ BrokerRunning /\ RoomsLast
  BY DEF HandIInv, ServerUp
<1>2. ASSUME NEW e \in Event, e.kind = "Quit", e.peer_id = p, events' = Append(events, e)
      PROVE  Departing(p)'
  <2>1. events \in Seq(Event)
    BY DEF TypeOK
  <2>2. Len(events) + 1 \in DOMAIN events' /\ events'[Len(events) + 1] = e
    BY <1>2, <2>1
  <2> QED
    BY <1>2, <2>2 DEF Departing, Holds, QuitsOf
<1>3. ASSUME AddressHeld(p) \/ ~Unknown(p), p \notin clients
      PROVE  \A x \in Places : ~Turn(p, x, "new")
  <2>1. SUFFICES ASSUME NEW x \in Places, Turn(p, x, "new")
                 PROVE  FALSE
    OBVIOUS
  <2>2. ~AddressHeld(p)
    BY <1>1, <2>1 DEF HandInv, TurnFits, Fits, Sorts
  <2>3. Live(p) \/ Unknown(p)
    BY <1>1, <2>1, NewIsUnknown DEF ServedInv
  <2> QED
    BY <1>3, <2>2, <2>3 DEF Live
<1>4. ASSUME NEW r \in Rooms, IsClosed(r)
      PROVE  Ended(r) /\ r # NoRoom
  BY <1>4 DEF IsClosed, Ended, Rooms, NoRoom
<1>5. CASE AcceptConnection(p)
  BY <1>1, <1>5 DEF AcceptConnection, Send, IsClosed, Signal, TypeOK
<1>6. CASE ResumeSend(p)
  <2> DEFINE o == Head(outgoing[p])
  <2>1. /\ Suspended(p) /\ Send(p, o.to, o.event, chatroom_sender[p])
        /\ IsClosed(o.to) \/ ~IsFull(o.to)
    BY <1>6 DEF ResumeSend
  <2>2. o \in SuspendedSend
    BY <2>1, ReceiveType DEF Suspended, TypeOK
  <2>3. /\ read_pc[p] = "running" /\ o.event \in Event /\ o.event.peer_id = p
        /\ o.to # NoRoom => o.event.kind \in {"Quit", "Message"} /\ o.to \in Rooms
        /\ o.to # NoRoom /\ o.event.kind = "Message" => o.to = chatroom_sender[p]
    BY <1>1, <2>1, <2>2 DEF HandInv, Shape, SendShape, SuspendedSend, RoomOrNone
  <2>4. CASE o.to = NoRoom
    <3>1. events' = Append(events, o.event) /\ o.event.kind = "Quit"
      BY <1>1, <2>1, <2>3, <2>4 DEF Send, IsClosed, Enqueue, TypeOK
    <3> QED
      BY <1>2, <2>3, <3>1
  <2>5. CASE o.to # NoRoom
    <3>1. IsClosed(o.to) /\ EndRead(p) /\ UNCHANGED <<events, chat_events>>
      BY <2>1, <2>3, <2>5 DEF Send, TypeOK
    <3>2. p \notin clients
      BY <1>1, <1>4, <2>1, <2>3, <2>5, <3>1, RoomsGoOn DEF HandInv, Wired
    <3>3. AddressHeld(p) \/ ~Unknown(p)
      <4>1. CASE o.event.kind = "Message"
        BY <2>3, <2>5, <4>1 DEF AddressHeld
      <4>2. CASE o.event.kind = "Quit"
        <5>1. Turn(p, "send", "leaving")
          BY <2>1, <2>5, <4>2 DEF Turn, SendTurn, SendSort
        <5> QED
          BY <1>1, <3>2, <5>1, TurnIsLive DEF ServedInv, Places, Sorts, Live
      <4> QED
        BY <2>3, <2>5, <4>1, <4>2
    <3> QED
      BY <1>3, <2>3, <3>1, <3>2, <3>3
  <2> QED
    BY <2>4, <2>5
<1>7. CASE ReadFrame(p)
  <2> DEFINE frame == Head(to_server[p])
             e == EventOf(p, frame)
             r == chatroom_sender[p]
  <2>1. /\ Selecting(p) /\ to_server[p] # <<>>
        /\ frame.kind \in LegalFrames(r)
    BY <1>7, HandFrames DEF ReadFrame, NoIllegalFrame
  <2>2. /\ Send(p, r, e, IF frame.kind = "Quit" THEN NoRoom ELSE r)
        /\ read_pc[p] = "running"
    BY <1>7, <2>1 DEF ReadFrame, Selecting
  <2>3. e \in Event /\ e.peer_id = p
    <3>1. frame \in Frame
      BY <2>1, ReceiveType DEF TypeOK
    <3> QED
      BY <3>1, EventOfType DEF EventOf
  <2>4. CASE r = NoRoom
    <3>1. events' = Append(events, e) /\ e.kind = "Quit"
      <4> HIDE DEF e
      <4> QED
        BY <1>1, <2>2, <2>4 DEF Send, IsClosed, Enqueue, TypeOK
    <3> QED
      BY <1>2, <2>3, <3>1
  <2>5. CASE r # NoRoom
    <3>1. r \in Rooms
      BY <2>5 DEF TypeOK, RoomOrNone
    <3>2. IsClosed(r) /\ EndRead(p) /\ UNCHANGED <<events, chat_events>>
      <4> HIDE DEF e
      <4> QED
        BY <2>2, <2>5 DEF Send, TypeOK
    <3>3. p \notin clients
      BY <1>1, <1>4, <2>5, <3>1, <3>2, RoomsGoOn DEF HandInv, Wired, AddressHeld
    <3> QED
      BY <1>3, <2>2, <2>5, <3>2, <3>3 DEF AddressHeld
  <2> QED
    BY <2>4, <2>5
<1>8. CASE ReadFails(p)
  BY <1>1, <1>8, ClosedIsGoodbye DEF ReadFails, Selecting, ServedInv
<1>9. CASE NewChatroomChannel(p)
  BY <1>1, <1>9 DEF NewChatroomChannel, IsClosed, Selecting
<1>10. CASE ChatroomChannelClosed(p)
  BY <1>3, <1>10 DEF ChatroomChannelClosed, Selecting, Unknown
<1> QED
  BY <1>5, <1>6, <1>7, <1>8, <1>9, <1>10 DEF ReadNext, FrameNext, ChannelNext

\* A read task that goes on handles a message, or the client's turn; a greeting
\* stays a greeting.
LEMMA ReaderGoesOn ==
  ASSUME Known, BrokerRunning, NEW p \in Peers, ReadNext(p), read_pc'[p] # "done"
  PROVE  \/ EventStays(p) /\ \A x \in Places : Stays(p, x)
         \/ \E x \in Places \ {"event", "answer"} : \E s \in Sorts \ {"new"} : Turn(p, x, s)
         \/ \E x \in Places : \E y \in Places : Turn(p, x, "new") /\ Turn(p, y, "new")'
<1> USE DEF Known
<1>1. HandInv(p)
  BY DEF HandIInv
<1>2. ASSUME NEW e \in Event, e.kind = "NewClient", e.peer_id = p,
             events' = Append(events, e)
      PROVE  Turn(p, "event", "new")'
  <2>1. events \in Seq(Event)
    BY DEF TypeOK
  <2>2. Len(events) + 1 \in DOMAIN events' /\ events'[Len(events) + 1] = e
    BY <1>2, <2>1
  <2>3. e \in EventsAs(p, "new")
    BY <1>2 DEF EventsAs, EventsOf, EventSort
  <2>4. \E i \in DOMAIN events' : events'[i] \in EventsAs(p, "new")
    BY <2>2, <2>3
  <2> QED
    BY <2>4 DEF Turn, EventTurn, Holds, EventsAs, EventsOf, EventSort
<1>3. CASE AcceptConnection(p)
  <2> DEFINE e == Signal("NewClient", p)
  <2>1. Turn(p, "start", "new")
    BY <1>3 DEF AcceptConnection, Turn, StartTurn
  <2>2. e \in Event /\ e.kind = "NewClient" /\ e.peer_id = p
    BY SignalType DEF Signal
  <2> HIDE DEF e
  <2>3. Send(p, NoRoom, e, NoRoom)
    BY <1>3 DEF AcceptConnection, e
  <2>4. CASE events' = Append(events, e)
    BY <1>2, <2>1, <2>2, <2>4 DEF Places
  <2>5. CASE outgoing' = [outgoing EXCEPT ![p] = Pending(NoRoom, e)]
    <3>1. outgoing'[p] = Pending(NoRoom, e)
      BY <2>5 DEF TypeOK
    <3>2. /\ Pending(NoRoom, e) # <<>>
          /\ Head(Pending(NoRoom, e)) = [to |-> NoRoom, event |-> e]
      BY DEF Pending
    <3>3. Turn(p, "send", "new")'
      BY <2>2, <3>1, <3>2 DEF Turn, SendTurn, Suspended, SendSort, EventSort
    <3> QED
      BY <2>1, <3>3 DEF Places
  <2> QED
    BY <2>3, <2>4, <2>5 DEF Send, IsClosed, Enqueue
<1>4. CASE ResumeSend(p)
  <2> DEFINE o == Head(outgoing[p])
  <2>1. /\ Suspended(p) /\ Send(p, o.to, o.event, chatroom_sender[p])
        /\ IsClosed(o.to) \/ ~IsFull(o.to)
        /\ UNCHANGED <<page, to_server>>
    BY <1>4 DEF ResumeSend, ui_vars, sockets
  <2>2. o \in SuspendedSend
    BY <2>1, ReceiveType DEF Suspended, TypeOK
  <2>3. /\ read_pc[p] = "running" /\ o.event \in Event /\ o.event.peer_id = p
        /\ o.to # NoRoom => o.event.kind \in {"Quit", "Message"} /\ o.to \in Rooms
    BY <1>1, <2>1, <2>2 DEF HandInv, Shape, SendShape, SuspendedSend, RoomOrNone
  <2>4. CASE o.event.kind = "Message"
    <3>1. o.to # NoRoom
      BY <1>1, <2>1, <2>4 DEF HandInv, Shape, SendShape
    <3>2. /\ chat_events' = Put(chat_events, o.to, o.event) /\ UNCHANGED <<events>>
          /\ outgoing'[p] = <<>> /\ chatroom_sender'[p] = chatroom_sender[p]
          /\ UNCHANGED chatroom_connection
      BY <2>1, <2>3, <3>1 DEF Send, Enqueue, Empty, EndRead, TypeOK
    <3>3. QuitStays(p)
      <4>1. /\ chat_events'[o.to] = Append(chat_events[o.to], o.event)
            /\ \A r \in Rooms : r # o.to => chat_events'[r] = chat_events[r]
            /\ o.event \in Event \ QuitsOf(p)
        BY <2>3, <2>4, <3>1, <3>2 DEF Put, TypeOK, QuitsOf
      <4> QED
        BY <2>3, <3>1, <4>1 DEF QuitStays, Gains, Shrinks
    <3>4. FrameStays(p)
      BY <1>4, <2>3, <3>2 DEF ResumeSend, sockets, FrameStays
    <3>5. UNCHANGED besides_reader /\ UNCHANGED <<page>>
      BY <1>4, ReaderTouches DEF ReadNext, ResumeSend, ui_vars
    <3> QED
      BY <3>2, <3>3, <3>4, <3>5, ReaderStays, PlacesStay DEF Places
  <2>5. CASE o.event.kind = "NewClient"
    <3>1. o.to = NoRoom
      BY <2>3, <2>5
    <3>2. Turn(p, "send", "new")
      BY <2>1, <2>5, <3>1 DEF Turn, SendTurn, SendSort, EventSort
    <3>3. events' = Append(events, o.event)
      BY <2>1, <2>5, <3>1 DEF Send, IsClosed, Enqueue
    <3> QED
      BY <1>2, <2>3, <2>5, <3>2, <3>3 DEF Places
  <2>6. CASE o.event.kind \notin {"Message", "NewClient"}
    <3>1. Turn(p, "send", SendSort(o))
      BY <2>1, <2>6 DEF Turn, SendTurn
    <3>2. SendSort(o) \in Sorts /\ SendSort(o) # "new"
      BY <2>6, SortsOf DEF SendSort, EventSort
    <3> QED
      BY <3>1, <3>2 DEF Places
  <2> QED
    BY <2>4, <2>5, <2>6
<1>5. CASE ReadFrame(p)
  <2> DEFINE frame == Head(to_server[p])
  <2>1. /\ Selecting(p) /\ to_server[p] # <<>> /\ to_server[p] \in Seq(Frame)
        /\ ~(EndRead(p) /\ UNCHANGED <<events, chat_events>>)
    BY <1>5 DEF ReadFrame, EndRead, TypeOK
  <2>2. CASE frame.kind = "Message"
    <3>1. UNCHANGED events /\ \A z \in Places : Stays(p, z)
      BY <1>1, <1>5, <2>1, <2>2, MessageTaken
    <3> QED
      BY <3>1, SameQuiet
  <2>3. CASE frame.kind # "Message"
    <3>1. 1 \in DOMAIN to_server[p] /\ to_server[p][1] = frame
      BY <2>1
    <3>2. Len(to_server[p]) = 1
      BY <1>1, <2>1, <2>3, <3>1 DEF HandInv, Once, FramesOnce, Selecting
    <3>3. Turn(p, "frame", FrameSort(p, frame.kind))
      BY <2>1, <2>3, <3>1, <3>2 DEF Turn, FrameTurn, LastOf, Selecting
    <3>4. FrameSort(p, frame.kind) \in Sorts \ {"new"}
      BY SortsOf DEF Sorts
    <3> QED
      BY <3>3, <3>4 DEF Places
  <2> QED
    BY <2>2, <2>3
<1>6. CASE ReadFails(p) \/ ChatroomChannelClosed(p)
  BY <1>6 DEF ReadFails, ChatroomChannelClosed, EndRead, TypeOK
<1>7. CASE NewChatroomChannel(p)
  <2>1. Turn(p, "address", "address")
    BY <1>7 DEF NewChatroomChannel, Turn, AddressTurn, AddressWaits
  <2> QED
    BY <2>1 DEF Places, Sorts
<1> QED
  BY <1>3, <1>4, <1>5, <1>6, <1>7 DEF ReadNext, FrameNext, ChannelNext

\* A read task that has ended does nothing more.
LEMMA ReaderRuns ==
  ASSUME TypeOK, NEW p \in Peers, HandInv(p), ReadNext(p)
  PROVE  read_pc[p] # "done"
<1>1. CASE AcceptConnection(p)
  BY <1>1 DEF AcceptConnection, HandInv, Shape
<1>2. CASE ResumeSend(p)
  BY <1>2 DEF ResumeSend, HandInv, Shape, SendShape
<1>3. CASE FrameNext(p) \/ ChannelNext(p)
  BY <1>3 DEF FrameNext, ChannelNext, ReadFrame, ReadFails, NewChatroomChannel,
     ChatroomChannelClosed, Selecting
<1> QED
  BY <1>1, <1>2, <1>3 DEF ReadNext

\* Whatever its read task does, the client's turn is served, and a client whose
\* read task ends is in no chatroom.
LEMMA ReaderServed ==
  ASSUME Known, Known', AllUp, ServerUp, NEW p \in Peers, ReadNext(p)
  PROVE  TurnServed(p)' /\ Homed(p)'
<1> USE DEF Known
<1>1. /\ HandInv(p) /\ HandInv(p)' /\ TurnServed(p) /\ Homed(p) /\ BrokerRunning
      /\ UNCHANGED besides_reader
  BY ReaderTouches DEF HandIInv, ServerUp, ServedInv
<1>2. read_pc[p] # "done"
  BY <1>1, ReaderRuns
<1>3. p \notin clients => chatroom_broker_id[p] = NoRoom
  BY DEF RegistryInv, UsernamesAgree
<1>4. CASE Departing(p)'
  <2>1. Turn(p, "event", "lobby")'
    <3>1. QuitsOf(p) \subseteq EventsAs(p, "lobby")
      BY DEF QuitsOf, EventsAs, EventsOf, EventSort
    <3>2. \E i \in DOMAIN events' : events'[i] \in QuitsOf(p)
      BY <1>4 DEF Departing, Holds, QuitsOf
    <3>3. \E i \in DOMAIN events' : events'[i] \in EventsAs(p, "lobby")
      BY <3>1, <3>2
    <3> QED
      BY <3>3 DEF Turn, EventTurn, Holds, EventsAs, EventsOf, EventSort
  <2>2. Fits(p, "lobby")'
    BY <1>1, <2>1 DEF HandInv, TurnFits, Places, Sorts
  <2>3. chatroom_broker_id'[p] = NoRoom
    BY <1>1, <1>3, <2>2 DEF Fits, Standing, besides_reader
  <2> QED
    BY <1>4, <2>3 DEF TurnServed, Homed
<1>5. CASE read_pc'[p] = "done" /\ ~Departing(p)'
  <2>1. /\ p \notin clients /\ \A x \in Places : ~Turn(p, x, "new")
        /\ read_pc[p] = "running" /\ EndRead(p) /\ UNCHANGED <<events, chat_events>>
    BY <1>5, ReadEndsLawfully
  <2>2. UNCHANGED page[p]
    BY <1>1, <2>1 DEF HandInv, Shape, ReadNext, AcceptConnection, ResumeSend, FrameNext,
       ChannelNext, ReadFrame, ReadFails, NewChatroomChannel, ChatroomChannelClosed, ui_vars
  <2>3. Quiet(p)
    BY <1>1, <2>1, <2>2, ReadEnds
  <2>4. EventStays(p) /\ \A x \in Places : Stays(p, x)
    BY <2>3, QuietStays
  <2>5. TurnServed(p)'
    BY <1>1, <2>1, <2>4, ServedStays DEF TurnServed, Live, LosesAnswer
  <2>6. Homed(p)'
    BY <1>1, <1>3, <2>1 DEF Homed, besides_reader
  <2> QED
    BY <2>5, <2>6
<1>6. CASE read_pc'[p] # "done"
  <2>1. SameStage(p)
    BY <1>1, <1>2, <1>6 DEF SameStage, besides_reader, write_vars
  <2>2. TurnServed(p)'
    <3>1. CASE EventStays(p) /\ \A x \in Places : Stays(p, x)
      BY <1>1, <2>1, <3>1, StageServed
    <3>2. CASE \E x \in Places \ {"event", "answer"} : \E s \in Sorts \ {"new"} :
                 Turn(p, x, s)
      <4>1. Live(p)
        BY <1>1, <3>2, TurnIsLive
      <4> QED
        BY <1>1, <2>1, <4>1, StageServed
    <3>3. CASE \E x \in Places : \E y \in Places : Turn(p, x, "new") /\ Turn(p, y, "new")'
      <4>1. Live(p) \/ Unknown(p)
        BY <1>1, <3>3, NewIsUnknown
      <4>2. CASE Live(p)
        BY <1>1, <2>1, <4>2, StageServed
      <4>3. CASE Unknown(p)
        <5>1. Unknown(p)'
          BY <2>1, <4>3 DEF SameStage, Unknown
        <5>2. PICK y \in Places : Turn(p, y, "new")'
          BY <3>3
        <5>3. OnlyTurn(p, y, "new")'
          BY <1>1, <5>2 DEF HandInv, OneTurn, Sorts
        <5>4. ASSUME NEW x \in Places, NEW s \in Sorts, Turn(p, x, s)'
              PROVE  s = "new"
          BY <5>3, <5>4 DEF OnlyTurn
        <5> QED
          BY <5>1, <5>4 DEF TurnServed
      <4> QED
        BY <4>1, <4>2, <4>3
    <3> QED
      BY <1>1, <1>6, <3>1, <3>2, <3>3, ReaderGoesOn
  <2>3. Homed(p)'
    BY <1>1, <1>2, <1>6 DEF Homed, besides_reader, write_vars
  <2> QED
    BY <2>2, <2>3
<1> QED
  BY <1>4, <1>5, <1>6

-----------------------------------------------------------------------------
(* What the server does for a client                                       *)

\* The client's tasks and chatroom are the same, it hears no less, and it has
\* not been sent away.
StaysIn(p) ==
  /\ SameStage(p) /\ chatroom_broker_id'[p] = chatroom_broker_id[p]
  /\ Hears(p) => Hears(p)'
  /\ SaysGoodbye(p) => SaysGoodbye(p)'

\* Such a step serves the client on.
LEMMA StaysServed ==
  ASSUME TypeOK, NEW p \in Peers, HandInv(p), ServedInv(p), StaysIn(p),
         Live(p) \/ (EventStays(p) /\ \A x \in Places : Stays(p, x))
  PROVE  ServedInv(p)'
<1>1. TurnServed(p)'
  BY StageServed DEF ServedInv, StaysIn
<1>2. Homed(p)'
  BY DEF ServedInv, StaysIn, Homed, SameStage
<1> QED
  BY <1>1, <1>2 DEF ServedInv, StaysIn

\* A receiver is the same if its chatroom is.
LEMMA HearsOn ==
  ASSUME NEW p \in Peers, Hears(p), chatroom_broker_id'[p] = chatroom_broker_id[p],
         chat_receiver'[p].room = chat_receiver[p].room,
         \A i \in DOMAIN subscriptions[p] :
           /\ i \in DOMAIN subscriptions'[p]
           /\ subscriptions'[p][i].receiver.room = subscriptions[p][i].receiver.room
  PROVE  Hears(p)'
  BY DEF Hears, HoldsReceiver

\* ExitLobby reaches a client from its write task only.
LEMMA NoGoodbye ==
  ASSUME TypeOK, NEW p \in Peers, SaysGoodbye(p),
         read_pc[p] = "done" => read_pc'[p] = "done",
         write_pc[p] = "done" => write_pc'[p] = "done",
         page'[p] = "QuitLobbyPage" =>
           page[p] = "QuitLobbyPage" \/ Holds(to_client[p], Goodbyes),
         \/ Shrinks(to_client[p], to_client'[p])
         \/ Gains(to_client[p], to_client'[p], Response \ Goodbyes)
  PROVE  SaysGoodbye(p)'
<1> DEFINE V == Goodbyes
<1>1. to_client[p] \in Seq(Response)
  BY DEF TypeOK
<1>2. Holds(to_client'[p], V) => Holds(to_client[p], V)
  <2>1. \/ Shrinks(to_client[p], to_client'[p])
        \/ Gains(to_client[p], to_client'[p], Response \ V)
    OBVIOUS
  <2> HIDE DEF V
  <2> QED
    BY <1>1, <2>1, QueueKeeps
<1>3. (page[p] = "QuitLobbyPage" \/ Holds(to_client[p], Goodbyes))' =>
        page[p] = "QuitLobbyPage" \/ Holds(to_client[p], Goodbyes)
  BY <1>2 DEF Holds, Goodbyes
<1> QED
  BY <1>3 DEF SaysGoodbye

-----------------------------------------------------------------------------
(* The write task                                                          *)

\* While every program is up a write task ends after the read task, or it loses an answer:
\* the chatroom that the client has left is closed, and it has yet to write
\* that it left.
LEMMA WriteEndsLawfully ==
  ASSUME Known, AllUp, ServerUp, NEW p \in Peers, Shutdown(p) \/ WriteFails(p)
  PROVE  read_pc[p] = "done" \/ Turn(p, "answer", "lobby")
<1> USE DEF Known
<1>1. HandInv(p) /\ ServedInv(p) /\ BrokerRunning /\ RoomsLast /\ Tied(p)
  BY DEF HandIInv, ReceiverIInv, ServerUp
<1>2. write_pc[p] = "running" /\ p \in clients
  BY <1>1 DEF Shutdown, WriteFails, Writing, TasksIInv, WritersListed
<1>3. CASE Shutdown(p)
  BY <1>3 DEF Shutdown
<1>4. CASE BroadcastClosed(chat_receiver[p].room)
  <2> DEFINE r == chat_receiver[p].room
  <2>1. r # NoRoom /\ room_pc[r] = "harvested"
    BY <1>4 DEF BroadcastClosed
  <2>2. r # chatroom_broker_id[p]
    BY <1>1, <1>2, <2>1, RoomsGoOn DEF Ended
  <2>3. Holds(main_responses[p], Exits)
    BY <1>1, <1>2, <2>1, <2>2 DEF Tied
  <2>4. /\ main_responses[p] \in Seq(Response) /\ Len(main_responses[p]) <= 1
    BY <1>1 DEF HandInv, Once, AnswerOnce, TypeOK
  <2>5. main_responses[p] # <<>>
    BY <2>3, HoldsNothing
  <2>6. Head(main_responses[p]).kind = "ExitChatroom"
    BY <2>3, <2>4, <2>5, LastOne DEF Holds, Exits
  <2> QED
    BY <2>5, <2>6 DEF Turn, AnswerTurn, AnswerSort
<1>5. CASE ClientClosed(p)
  BY <1>1, <1>2, <1>5, ClosedIsGoodbye DEF ServedInv
<1> QED
  BY <1>2, <1>3, <1>4, <1>5 DEF WriteFails, ResponsesClosed

\* The client's own write task.
LEMMA WriterServed ==
  ASSUME Known, AllUp, ServerUp, NEW p \in Peers, WriteNext(p)
  PROVE  ServedInv(p)'
<1> USE DEF Known, besides_writer, registry, client_vars, ui_vars, read_vars
<1>1. /\ HandInv(p) /\ ServedInv(p) /\ BrokerRunning
      /\ write_pc[p] = "running" /\ p \in clients
  <2>1. HandInv(p) /\ ServedInv(p) /\ BrokerRunning
    BY DEF HandIInv, ServerUp
  <2>2. write_pc[p] = "running"
    BY DEF WriteNext, Shutdown, MainResponse, Subscription, BroadcastNext, ChatMessage,
       Lagged, WriteFails, Writing
  <2> QED
    BY <2>1, <2>2 DEF TasksIInv, WritersListed
<1>2. UNCHANGED besides_writer
  BY DEF WriteNext, Shutdown, MainResponse, Subscription, BroadcastNext, ChatMessage,
     Lagged, WriteFails, WriteTaskOnly
<1>3. page[p] # "QuitLobbyPage" /\ ~Holds(to_client[p], Goodbyes)
  BY <1>1 DEF ServedInv, SaysGoodbye
<1>4. CASE Shutdown(p) \/ WriteFails(p)
  <2>1. write_pc'[p] = "done"
    BY <1>4 DEF Shutdown, WriteFails, EndWrite, TypeOK
  <2>2. EventStays(p) /\ \A x \in Places : Stays(p, x)
    BY <1>1, <1>4, WriterEnds, QuietStays
  <2>3. read_pc[p] = "done" \/ Turn(p, "answer", "lobby")
    BY <1>4, WriteEndsLawfully
  <2>4. TurnServed(p)'
    <3>1. ASSUME NEW x \in Places, NEW s \in Sorts, Turn(p, x, s), ~Departing(p)
          PROVE  LosesAnswer(p, x, s)'
      <4>1. Live(p) \/ LosesAnswer(p, x, s)
        BY <1>1, <3>1 DEF ServedInv, TurnServed, Unknown
      <4>2. CASE LosesAnswer(p, x, s)
        BY <1>2, <4>2 DEF LosesAnswer
      <4>3. CASE Live(p)
        <5>1. Turn(p, "answer", "lobby")
          BY <2>3, <4>3 DEF Live
        <5>2. x = "answer" /\ s = "lobby"
          BY <1>1, <3>1, <5>1 DEF HandInv, OneTurn, OnlyTurn, Places, Sorts
        <5> QED
          BY <1>2, <4>3, <5>2 DEF Live, LosesAnswer
      <4> QED
        BY <4>1, <4>2, <4>3
    <3> QED
      BY <1>1, <2>2, <3>1, ServedStays DEF ServedInv
  <2>5. chatroom_broker_id'[p] = NoRoom
    <3>1. CASE read_pc[p] = "done"
      BY <1>1, <1>2, <3>1 DEF ServedInv, Homed
    <3>2. CASE Turn(p, "answer", "lobby")
      <4>1. Fits(p, "lobby")
        BY <1>1, <3>2 DEF HandInv, TurnFits, Places, Sorts
      <4> QED
        BY <1>1, <1>2, <4>1 DEF Fits, Standing
    <3> QED
      BY <2>3, <3>1, <3>2
  <2>6. SaysGoodbye(p)'
    <3>1. CASE Shutdown(p)
      BY <1>2, <2>1, <3>1 DEF Shutdown, SaysGoodbye
    <3>2. CASE WriteFails(p)
      BY <1>2, <1>3, <3>2 DEF WriteFails, SaysGoodbye, Holds, Goodbyes
    <3> QED
      BY <1>4, <3>1, <3>2
  <2> QED
    BY <2>4, <2>5, <2>6 DEF ServedInv, Homed, Hears
<1>5. ASSUME UNCHANGED write_pc,
             \/ to_client'[p] = to_client[p]
             \/ \E m \in Response \ Goodbyes : to_client'[p] = Append(to_client[p], m),
             Hears(p)',
             Live(p) \/ (EventStays(p) /\ \A x \in Places : Stays(p, x))
      PROVE  ServedInv(p)'
  <2>1. SaysGoodbye(p)'
    BY <1>1, <1>2, <1>5, NoGoodbye DEF Shrinks, Gains, ServedInv
  <2>2. StaysIn(p)
    BY <1>2, <1>5, <2>1 DEF StaysIn, SameStage
  <2> QED
    BY <1>1, <1>5, <2>2, StaysServed
<1>6. CASE MainResponse(p)
  <2> DEFINE m == Head(main_responses[p])
  <2>1. /\ main_responses[p] # <<>> /\ to_client'[p] = Append(to_client[p], m)
        /\ UNCHANGED <<write_pc, subscriptions>>
        /\ m.kind # "ExitChatroom" => chat_receiver' = chat_receiver
    BY <1>6 DEF MainResponse, Write, Put, TypeOK
  <2>2. /\ m \in Response /\ m.kind \in AnswerKinds
    <3>1. main_responses[p] \in Seq(Response)
      BY DEF TypeOK
    <3>2. m \in Response /\ 1 \in DOMAIN main_responses[p] /\ main_responses[p][1] = m
      BY <2>1, <3>1
    <3> QED
      BY <1>1, <3>2 DEF HandInv, Shape
  <2>3. m \notin Goodbyes
    BY <2>2 DEF Goodbyes, AnswerKinds, PlainKinds, LobbyKinds
  <2>4. Turn(p, "answer", AnswerSort(m.kind))
    BY <2>1 DEF Turn, AnswerTurn
  <2>5. Live(p)
    <3>1. AnswerSort(m.kind) \in Sorts \ {"new"}
      BY SortsOf DEF Sorts
    <3> QED
      BY <1>1, <2>4, <3>1, TurnIsLive DEF ServedInv, Places
  <2>6. Hears(p)'
    <3>1. CASE m.kind = "ExitChatroom"
      <4>1. Fits(p, "lobby")
        BY <1>1, <2>4, <3>1 DEF HandInv, TurnFits, Places, Sorts, AnswerSort
      <4>2. chatroom_broker_id'[p] = NoRoom
        BY <1>1, <1>2, <4>1 DEF Fits, Standing
      <4> QED
        BY <4>2 DEF Hears
    <3>2. CASE m.kind # "ExitChatroom"
      BY <1>1, <1>2, <2>1, <3>2, HearsOn DEF ServedInv
    <3> QED
      BY <3>1, <3>2
  <2> QED
    BY <1>5, <2>1, <2>2, <2>3, <2>5, <2>6
<1>7. CASE Subscription(p)
  <2> DEFINE o == Head(subscriptions[p])
  <2>1. /\ subscriptions[p] # <<>> /\ to_client'[p] = Append(to_client[p], o.response)
        /\ UNCHANGED write_pc /\ chat_receiver'[p] = o.receiver
    BY <1>7 DEF Subscription, Write, Put, TypeOK
  <2>2. o \in SubscriptionOf /\ 1 \in DOMAIN subscriptions[p] /\ subscriptions[p][1] = o
    BY <2>1, ReceiveType DEF TypeOK
  <2>3. o.response \in Response \ Goodbyes
    BY <1>1, <2>2 DEF SubscriptionOf, HandInv, Shape, JoinedKinds, Goodbyes
  <2>4. chat_receiver'[p].room = chatroom_broker_id'[p]
    BY <1>1, <1>2, <2>1, <2>2 DEF HandInv, Wired
  <2>5. Hears(p)'
    BY <2>4 DEF Hears, HoldsReceiver
  <2>6. EventStays(p) /\ \A x \in Places : Stays(p, x)
    BY <1>1, <1>2, <1>7, SubscriptionKeeps, SameQuiet
  <2> QED
    BY <1>5, <2>1, <2>3, <2>5, <2>6
<1>8. CASE BroadcastNext(p)
  <2>1. EventStays(p) /\ \A x \in Places : Stays(p, x)
    BY <1>1, <1>8, WriterEnds, QuietStays DEF BroadcastNext
  <2>2. chat_receiver[p] \in BroadcastReceiver
    BY DEF TypeOK
  <2>3. UNCHANGED <<write_pc, subscriptions>>
    BY <1>8 DEF BroadcastNext, ChatMessage, Lagged
  <2>4. chat_receiver'[p].room = chat_receiver[p].room
    <3>1. \/ chat_receiver'[p] = [chat_receiver[p] EXCEPT !.queue = Tail(@)]
          \/ chat_receiver'[p] = [chat_receiver[p] EXCEPT !.lagged = FALSE]
      BY <1>8 DEF BroadcastNext, ChatMessage, Lagged, TypeOK
    <3> QED
      BY <2>2, <3>1 DEF BroadcastReceiver
  <2>5. \/ to_client'[p] = to_client[p]
        \/ \E m \in Response \ Goodbyes : to_client'[p] = Append(to_client[p], m)
    <3>1. CASE ChatMessage(p)
      <4> DEFINE m == Head(chat_receiver[p].queue)
      <4>1. m \in MessageResponse
        <5>1. chat_receiver[p].queue \in Seq(MessageResponse) /\ chat_receiver[p].queue # <<>>
          BY <2>2, <3>1 DEF BroadcastReceiver, ChatMessage
        <5> QED
          BY <5>1
      <4>2. m \in Response \ Goodbyes
        BY <4>1, MessageIsResponse DEF MessageResponse, Goodbyes
      <4>3. to_client'[p] = to_client[p] \/ to_client'[p] = Append(to_client[p], m)
        BY <3>1 DEF ChatMessage, Write, Put, TypeOK
      <4> QED
        BY <4>2, <4>3
    <3>2. CASE Lagged(p)
      BY <3>2 DEF Lagged
    <3> QED
      BY <1>8, <3>1, <3>2 DEF BroadcastNext
  <2>6. Hears(p)'
    BY <1>1, <1>2, <2>3, <2>4, HearsOn DEF ServedInv
  <2> QED
    BY <1>5, <2>1, <2>3, <2>5, <2>6
<1> QED
  BY <1>4, <1>6, <1>7, <1>8 DEF WriteNext

-----------------------------------------------------------------------------
(* The client program, other clients, sub-brokers                          *)

\* What the program does with the turn it does for a client that is served.
LEMMA ProgramTurns ==
  ASSUME TypeOK, NEW p \in Peers, HandInv(p), TurnServed(p), UserNext(p) \/ ProgramNext(p)
  PROVE  Live(p) \/ (EventStays(p) /\ \A x \in Places : Stays(p, x))
<1>1. ASSUME step[p] = "request" \/ (ClientOpen(p) /\ step[p] = "subscription")
      PROVE  Live(p)
  <2>1. Turn(p, "user", UserSort(p)) /\ UserSort(p) \in Sorts \ {"new"}
    BY <1>1 DEF Turn, UserTurn, UserSort, Sorts, HandInv, Shape
  <2> QED
    BY <2>1, TurnIsLive DEF Places
<1>2. ASSUME to_client[p] # <<>>, Head(to_client[p]).kind \in AnswerKinds
      PROVE  Live(p)
  <2> DEFINE m == Head(to_client[p])
  <2>1. m \in Response /\ 1 \in DOMAIN to_client[p] /\ to_client[p][1] = m
    BY <1>2, ReceiveType DEF TypeOK
  <2>2. Holds(to_client[p], Answers)
    BY <1>2, <2>1 DEF Holds, Answers
  <2>3. PICK s \in Sorts : ResponseTurn(p, s)
    BY <2>2, ResponseIsTurn
  <2>4. s # "new"
    BY <2>3, SortsOf DEF ResponseTurn, Holds, AnswersAs
  <2> QED
    BY <2>3, <2>4, TurnIsLive DEF Turn, Places
<1>3. CASE \/ ShowMessage(p) \/ SayGoodbye(p) \/ UnexpectedResponse(p)
           \/ ConnectionFails(p) \/ Kill(p)
  BY <1>3, ProgramEnds, QuietStays
<1>4. CASE \/ \E u \in Choices[p] : RequestUsername(p, u)
           \/ RequestQuit(p) \/ SendMessage(p) \/ QuitChatroom(p) \/ RefreshLobby(p)
  BY <1>1, <1>4 DEF RequestUsername, RequestQuit, SendMessage, QuitChatroom, RefreshLobby,
     Prompts
<1>5. CASE \/ \E n \in Names : RequestChatroom(p, "Create", n)
           \/ \E n \in Names : RequestChatroom(p, "Join", n)
  BY <1>1, <1>5 DEF RequestChatroom, Prompts
<1>6. CASE AskUsername(p) \/ ShowLobby(p) \/ LeaveChatroom(p)
  BY <1>2, <1>6 DEF AskUsername, ShowLobby, LeaveChatroom, Reading, AnswerKinds, PlainKinds,
     LobbyKinds, JoinedKinds
<1>7. CASE EnterChatroom(p)
  BY <1>1, <1>2, <1>7 DEF EnterChatroom, Reading, Reads, Accepts, AnswerKinds, PlainKinds,
     JoinedKinds
<1>8. CASE AwaitConfirmation(p)
  <2>1. CASE Head(to_client[p]).kind = "ReadSync"
    BY <1>2, <1>8, <2>1 DEF AwaitConfirmation, Reading, AnswerKinds, PlainKinds, JoinedKinds
  <2>2. CASE Head(to_client[p]).kind # "ReadSync"
    <3>1. /\ to_client[p] # <<>> /\ to_client' = [to_client EXCEPT ![p] = Tail(@)]
          /\ page'[p] = "LobbyPage" /\ step'[p] = "readsync"
      BY <1>8, <2>2 DEF AwaitConfirmation, Reading, Show, TypeOK
    <3>2. UNCHANGED besides_program
      BY <1>8 DEF AwaitConfirmation, UIOnly, besides_program
    <3>3. \A x \in Places \ {"user"} : Stays(p, x)
      BY <3>1, <3>2, ReadingStays
    <3>4. Stays(p, "user")
      BY <3>1 DEF Stays, Turn, UserTurn
    <3>5. UNCHANGED events
      BY <3>2 DEF besides_program, channels
    <3> QED
      BY <3>3, <3>4, <3>5, SameQuiet
  <2> QED
    BY <2>1, <2>2
<1> QED
  BY <1>3, <1>4, <1>5, <1>6, <1>7, <1>8 DEF UserNext, ProgramNext

\* The client's own program.
LEMMA ProgramServed ==
  ASSUME Known, ServerUp, NEW p \in Peers, UserNext(p) \/ ProgramNext(p)
  PROVE  ServedInv(p)'
<1> USE DEF Known
<1>1. HandInv(p) /\ ServedInv(p)
  BY DEF HandIInv, ServerUp
<1>2. UNCHANGED <<read_vars, write_vars, registry, room_pc, channels>>
  BY DEF UserNext, RequestUsername, RequestChatroom, RequestQuit, SendMessage, QuitChatroom,
     Kill, Request, ProgramNext, AskUsername, ShowLobby, AwaitConfirmation, EnterChatroom,
     ShowMessage, LeaveChatroom, SayGoodbye, RefreshLobby, UnexpectedResponse,
     ConnectionFails, UIOnly
<1> USE DEF read_vars, write_vars, registry, client_vars, channels, peer_channels
<1>3. Shrinks(to_client[p], to_client'[p])
  <2>1. CASE UserNext(p)
    BY <2>1 DEF UserNext, RequestUsername, RequestChatroom, RequestQuit, SendMessage,
       QuitChatroom, Kill, Request, Shrinks
  <2>2. CASE ProgramNext(p)
    <3>1. \/ to_client' = to_client
          \/ to_client[p] # <<>> /\ to_client' = [to_client EXCEPT ![p] = Tail(@)]
      BY <2>2 DEF ProgramNext, AskUsername, ShowLobby, AwaitConfirmation, EnterChatroom,
         ShowMessage, LeaveChatroom, SayGoodbye, RefreshLobby, UnexpectedResponse,
         ConnectionFails, Request, Reading
    <3> QED
      BY <3>1 DEF Shrinks, TypeOK
  <2> QED
    BY <2>1, <2>2
<1>4. page'[p] = "QuitLobbyPage" =>
        page[p] = "QuitLobbyPage" \/ Holds(to_client[p], Goodbyes)
  <2>1. CASE SayGoodbye(p)
    <3> DEFINE m == Head(to_client[p])
    <3>1. to_client[p] # <<>> /\ m.kind = "ExitLobby"
      BY <2>1 DEF SayGoodbye, Reading
    <3>2. m \in Response /\ 1 \in DOMAIN to_client[p] /\ to_client[p][1] = m
      BY <3>1, ReceiveType DEF TypeOK
    <3> QED
      BY <3>1, <3>2 DEF Holds, Goodbyes
  <2>2. CASE ~SayGoodbye(p)
    <3>1. CASE UserNext(p)
      BY <3>1 DEF UserNext, RequestUsername, RequestChatroom, RequestQuit, SendMessage,
         QuitChatroom, Kill, Request, End, Show, TypeOK
    <3>2. CASE ProgramNext(p)
      BY <2>2, <3>2 DEF ProgramNext, AskUsername, ShowLobby, AwaitConfirmation, EnterChatroom,
         ShowMessage, LeaveChatroom, RefreshLobby, UnexpectedResponse, ConnectionFails,
         Request, End, Show, ui_vars, TypeOK
    <3> QED
      BY <3>1, <3>2
  <2> QED
    BY <2>1, <2>2
<1>5. SaysGoodbye(p)'
  BY <1>1, <1>2, <1>3, <1>4, NoGoodbye DEF ServedInv
<1>6. Hears(p)'
  BY <1>1, <1>2, HearsOn DEF ServedInv
<1>7. StaysIn(p)
  BY <1>2, <1>5, <1>6 DEF StaysIn, SameStage
<1>8. Live(p) \/ (EventStays(p) /\ \A x \in Places : Stays(p, x))
  BY <1>1, ProgramTurns DEF ServedInv
<1> QED
  BY <1>1, <1>7, <1>8, StaysServed

\* The tasks and the programs of other clients.
LEMMA OthersServed ==
  ASSUME Known, ServerUp, NEW p \in Peers,
         \/ \E q \in Peers \ {p} : ReadNext(q) \/ WriteNext(q) \/ UserNext(q) \/ ProgramNext(q)
         \/ UNCHANGED vars
  PROVE  ServedInv(p)'
<1> USE DEF Known, read_vars, write_vars, registry, client_vars, channels, peer_channels,
        ui_vars, sockets
<1> DEFINE Same == UNCHANGED <<page[p], read_pc[p], write_pc[p], clients, chatroom_broker_id,
                               chat_receiver[p], subscriptions[p], to_client[p]>>
<1>1. HandInv(p) /\ ServedInv(p) /\ \A q \in Peers : HandInv(q)
  BY DEF HandIInv, ServerUp
<1>2. ASSUME NEW q \in Peers \ {p}, ReadNext(q)
      PROVE  Same
  BY <1>2, ReaderTouches DEF besides_reader
<1>3. ASSUME NEW q \in Peers \ {p}, WriteNext(q)
      PROVE  Same
  <2>1. UNCHANGED <<page, read_vars, registry>>
    BY <1>3 DEF WriteNext, Shutdown, MainResponse, Subscription, BroadcastNext,
       ChatMessage, Lagged, WriteFails, WriteTaskOnly
  <2>2. UNCHANGED <<to_client[p], write_pc[p], chat_receiver[p], subscriptions[p]>>
    BY <1>3, WriterTouches
  <2> QED
    BY <2>1, <2>2
<1>4. ASSUME NEW q \in Peers \ {p}, UserNext(q)
      PROVE  Same
  BY <1>4 DEF UserNext, RequestUsername, RequestChatroom, RequestQuit, SendMessage,
     QuitChatroom, Kill, Request, UIOnly, End, Show, TypeOK
<1>5. ASSUME NEW q \in Peers \ {p}, ProgramNext(q)
      PROVE  Same
  BY <1>5 DEF ProgramNext, AskUsername, ShowLobby, AwaitConfirmation, EnterChatroom,
     ShowMessage, LeaveChatroom, SayGoodbye, RefreshLobby, UnexpectedResponse,
     ConnectionFails, Request, Reading, UIOnly, End, Show, TypeOK
<1>6. CASE UNCHANGED vars
  <2>1. ServedInv(p)' = ServedInv(p)
    BY <1>6 DEF vars, ServedInv, TurnServed, Homed, Hears, SaysGoodbye, HoldsReceiver, Live,
       Unknown, LosesAnswer, Departing, Turn, StartTurn, UserTurn, UserSort, FrameTurn,
       FrameSort, SendTurn, SendSort, EventTurn, QuitTurn, QuitWaits, NoticeTurn, NoticeWaits,
       AnswerTurn, AddressTurn, AddressWaits, ResponseTurn, AddressHeld, Suspended,
       ClientOpen, LastOf, EventsAs, EventsOf, QuitsOf, AnswersAs, Answers, Goodbyes, Holds,
       EventSort, AnswerSort
  <2> QED
    BY <1>1, <2>1
<1>7. CASE \E q \in Peers \ {p} :
             ReadNext(q) \/ WriteNext(q) \/ UserNext(q) \/ ProgramNext(q)
  <2>1. Same
    BY <1>2, <1>3, <1>4, <1>5, <1>7
  <2>2. Quiet(p)
    BY <1>1, <1>7, OthersQuiet, OtherReaderQuiet
  <2>3. EventStays(p) /\ \A x \in Places : Stays(p, x)
    BY <2>2, QuietStays
  <2>4. StaysIn(p)
    BY <1>1, <2>1, HearsOn, NoGoodbye DEF StaysIn, SameStage, ServedInv, Shrinks
  <2> QED
    BY <1>1, <2>3, <2>4, StaysServed
<1> QED
  BY <1>6, <1>7

\* A sub-broker: whoever held a receiver of its broadcasts still does.
LEMMA RoomServed ==
  ASSUME Known, ServerUp, NEW p \in Peers, NEW r \in Rooms, RoomNext(r)
  PROVE  ServedInv(p)'
<1> USE DEF Known
<1>1. HandInv(p) /\ ServedInv(p)
  BY DEF HandIInv, ServerUp
<1>2. UNCHANGED <<page, to_client, read_pc, write_pc, clients, chatroom_broker_id>>
  BY DEF RoomNext, RoomEventNext, RoomMessage, RoomQuit, RoomShutdown, RoomOnly, ui_vars,
     sockets, read_vars, registry, client_vars
<1>3. Live(p) \/ (EventStays(p) /\ \A x \in Places : Stays(p, x))
  <2>1. CASE Quiet(p)
    BY <2>1, QuietStays
  <2>2. CASE QuitWaits(p, r)
    <3>1. Turn(p, "quit", "leaving")
      BY <2>2 DEF Turn, QuitTurn
    <3> QED
      BY <1>1, <3>1, TurnIsLive DEF ServedInv, Places, Sorts
  <2> QED
    BY <1>1, <2>1, <2>2, SubBrokerKeeps
<1>4. chat_receiver'[p].room = chat_receiver[p].room
  BY BroadcastsAreHeard DEF TieStays
<1> DEFINE old == subscriptions[p]
           new == subscriptions'[p]
<1>5. ASSUME NEW i \in DOMAIN old
      PROVE  i \in DOMAIN new /\ new[i].receiver.room = old[i].receiver.room
  <2>1. CASE UNCHANGED subscriptions
    BY <1>5, <2>1
  <2>2. ASSUME NEW m, Broadcast(r, m)
        PROVE  i \in DOMAIN new /\ new[i].receiver.room = old[i].receiver.room
    <3>0. old \in Seq(SubscriptionOf)
      <4>1. subscriptions \in [Peers -> Seq(SubscriptionOf)]
        BY DEF TypeOK
      <4> QED
        BY <4>1
    <3>1. old[i] \in SubscriptionOf
      <4> HIDE DEF old, new
      <4> QED
        BY <1>5, <3>0
    <3>4. old[i].receiver \in BroadcastReceiver
      <4> HIDE DEF old, new
      <4> QED
        BY <3>1 DEF SubscriptionOf
    <3>2. /\ i \in DOMAIN new
          /\ \/ new[i] = old[i]
             \/ new[i] = [old[i] EXCEPT !.receiver = Pushed(old[i].receiver, m)]
      BY <1>5, <2>2 DEF Broadcast
    <3>3. \A receiver \in BroadcastReceiver : Pushed(receiver, m).room = receiver.room
      BY DEF Pushed, BroadcastReceiver
    <3> HIDE DEF old, new
    <3> QED
      BY <3>1, <3>2, <3>3, <3>4 DEF SubscriptionOf
  <2> QED
    BY <2>1, <2>2 DEF RoomNext, RoomEventNext, RoomMessage, RoomQuit, RoomShutdown
<1>6. Hears(p)'
  BY <1>1, <1>2, <1>4, <1>5, HearsOn DEF ServedInv
<1>7. SaysGoodbye(p)'
  BY <1>1, <1>2, NoGoodbye DEF ServedInv, Shrinks
<1>8. StaysIn(p)
  BY <1>2, <1>6, <1>7 DEF StaysIn, SameStage
<1> QED
  BY <1>1, <1>3, <1>8, StaysServed

\* The client's own read task.
LEMMA OwnReaderServed ==
  ASSUME Known, Known', AllUp, ServerUp, NEW p \in Peers, ReadNext(p)
  PROVE  ServedInv(p)'
<1> USE DEF Known
<1>1. HandInv(p) /\ ServedInv(p) /\ UNCHANGED besides_reader
  BY ReaderTouches DEF HandIInv, ServerUp
<1>2. TurnServed(p)' /\ Homed(p)'
  BY ReaderServed
<1>3. Hears(p)'
  BY <1>1, HearsOn DEF ServedInv, besides_reader, write_vars
<1>4. SaysGoodbye(p)'
  <2>1. read_pc[p] # "done"
    BY <1>1, ReaderRuns
  <2>2. page[p] # "QuitLobbyPage" /\ ~Holds(to_client[p], Goodbyes)
    BY <1>1, <2>1 DEF ServedInv, SaysGoodbye
  <2>3. page'[p] = page[p] \/ page'[p] = "WelcomePage"
    BY DEF ReadNext, AcceptConnection, ResumeSend, FrameNext, ChannelNext, ReadFrame,
       ReadFails, NewChatroomChannel, ChatroomChannelClosed, ui_vars, TypeOK
  <2>4. page'[p] # "QuitLobbyPage" /\ ~Holds(to_client'[p], Goodbyes)
    BY <1>1, <2>2, <2>3 DEF besides_reader
  <2> QED
    BY <2>4 DEF SaysGoodbye, Holds, Goodbyes
<1> QED
  BY <1>2, <1>3, <1>4 DEF ServedInv

-----------------------------------------------------------------------------
(* The sub-brokers                                                         *)

\* A sub-broker that has ended has ended for good.
LEMMA RoomsEndForGood ==
  ASSUME TypeOK, [Next]_vars, NEW r \in Rooms, Ended(r)
  PROVE  Ended(r)'
<1>1. CASE BrokerNext
  <2>1. \/ UNCHANGED room_pc
        \/ \E reason : BrokerFails(reason)
        \/ \E q \in Rooms : room_pc' = [room_pc EXCEPT ![q] = "harvested"]
        \/ \E q \in Rooms : IsFresh(q) /\ room_pc' = [room_pc EXCEPT ![q] = "running"]
    <3>1. CASE HarvestClient \/ ClientExit \/ RejectEvent
      BY <3>1 DEF HarvestClient, ClientExit, RejectEvent
    <3>2. CASE HarvestRoom
      <4>1. disconnected_sub_broker # <<>> => Head(disconnected_sub_broker) \in Rooms
        BY DEF TypeOK
      <4> QED
        BY <3>2, <4>1 DEF HarvestRoom, registry
    <3>3. CASE NewClient \/ QuitEvent \/ Lobby \/ ReadSync \/ Username
      BY <3>3 DEF NewClient, QuitEvent, Lobby, ReadSync, Username, OnlyAnswers
    <3>4. CASE Create
      BY <3>4 DEF Create, Refuse, OnlyAnswers
    <3>5. CASE Join
      BY <3>5 DEF Join, Refuse, OnlyAnswers
    <3> QED
      BY <1>1, <3>1, <3>2, <3>3, <3>4, <3>5 DEF BrokerNext, EventNext
  <2> QED
    BY <2>1 DEF Ended, BrokerFails, IsFresh, TypeOK
<1>2. CASE ~BrokerNext
  <2>1. \/ UNCHANGED room_pc
        \/ \E q \in Rooms : \/ room_pc' = [room_pc EXCEPT ![q] = "ended"]
                            \/ room_pc' = [room_pc EXCEPT ![q] = "harvested"]
    <3>1. ASSUME NEW p \in Peers, ReadNext(p) \/ WriteNext(p)
          PROVE  UNCHANGED room_pc
      BY <3>1 DEF ReadNext, AcceptConnection, ResumeSend, FrameNext, ReadFrame, ReadFails,
         ChannelNext, NewChatroomChannel, ChatroomChannelClosed, ReadTaskOnly, WriteNext,
         Shutdown, MainResponse, Subscription, BroadcastNext, ChatMessage, Lagged, WriteFails,
         WriteTaskOnly
    <3>2. ASSUME NEW p \in Peers, UserNext(p) \/ ProgramNext(p)
          PROVE  UNCHANGED room_pc
      BY <3>2 DEF UserNext, RequestUsername, RequestChatroom, RequestQuit, SendMessage,
         QuitChatroom, Kill, Request, ProgramNext, AskUsername, ShowLobby, AwaitConfirmation,
         EnterChatroom, ShowMessage, LeaveChatroom, SayGoodbye, RefreshLobby,
         UnexpectedResponse, ConnectionFails, UIOnly
    <3>3. ASSUME NEW q \in Rooms, RoomNext(q)
          PROVE  \/ UNCHANGED room_pc
                 \/ room_pc' = [room_pc EXCEPT ![q] = "ended"]
                 \/ room_pc' = [room_pc EXCEPT ![q] = "harvested"]
      BY <3>3 DEF RoomNext, RoomEventNext, RoomMessage, RoomQuit, RoomShutdown, EndRoom
    <3>4. CASE UNCHANGED vars
      BY <3>4 DEF vars
    <3> QED
      BY <1>2, <3>1, <3>2, <3>3, <3>4 DEF Next
  <2> QED
    BY <2>1 DEF Ended, TypeOK
<1> QED
  BY <1>1, <1>2

\* The notices of ended sub-brokers are taken in order, dropped, or one more
\* sub-broker has ended.
LEMMA NoticesOfRooms ==
  ASSUME TypeOK, [Next]_vars
  PROVE  LET old == disconnected_sub_broker
             new == disconnected_sub_broker'
         IN \/ Shrinks(old, new)
            \/ \E r \in Rooms : new = Append(old, r) /\ Ended(r)'
<1> USE DEF harvest_channels
<1> DEFINE old == disconnected_sub_broker
           new == disconnected_sub_broker'
<1> SUFFICES ASSUME new # old
             PROVE  \/ new = <<>> \/ (old # <<>> /\ new = Tail(old))
                    \/ \E r \in Rooms : new = Append(old, r) /\ Ended(r)'
  BY DEF Shrinks
<1>1. CASE BrokerNext
  <2>1. CASE HarvestClient \/ ClientExit \/ RejectEvent
    BY <2>1 DEF HarvestClient, ClientExit, RejectEvent, BrokerFails
  <2>2. CASE HarvestRoom
    BY <2>2 DEF HarvestRoom, BrokerFails
  <2>3. CASE NewClient \/ QuitEvent \/ Lobby \/ ReadSync \/ Username
    BY <2>3 DEF NewClient, QuitEvent, Lobby, ReadSync, Username, OnlyAnswers
  <2>4. CASE Create
    BY <2>4 DEF Create, Refuse, OnlyAnswers, Admit, BrokerFails
  <2>5. CASE Join
    BY <2>5 DEF Join, Refuse, OnlyAnswers, Admit, BrokerFails
  <2> QED
    BY <1>1, <2>1, <2>2, <2>3, <2>4, <2>5 DEF BrokerNext, EventNext
<1>2. CASE ~BrokerNext
  <2>1. ASSUME NEW p \in Peers, ReadNext(p) \/ WriteNext(p)
        PROVE  FALSE
    BY <2>1 DEF ReadNext, AcceptConnection, ResumeSend, FrameNext, ReadFrame, ReadFails,
       ChannelNext, NewChatroomChannel, ChatroomChannelClosed, ReadTaskOnly, WriteNext,
       Shutdown, MainResponse, Subscription, BroadcastNext, ChatMessage, Lagged, WriteFails,
       WriteTaskOnly
  <2>2. ASSUME NEW p \in Peers, UserNext(p) \/ ProgramNext(p)
        PROVE  FALSE
    BY <2>2 DEF UserNext, RequestUsername, RequestChatroom, RequestQuit, SendMessage,
       QuitChatroom, Kill, Request, ProgramNext, AskUsername, ShowLobby, AwaitConfirmation,
       EnterChatroom, ShowMessage, LeaveChatroom, SayGoodbye, RefreshLobby,
       UnexpectedResponse, ConnectionFails, UIOnly, channels
  <2>3. ASSUME NEW r \in Rooms, RoomNext(r)
        PROVE  new = Append(old, r) /\ Ended(r)'
    <3>1. EndRoom(r) /\ BrokerRunning
      BY <2>3 DEF RoomNext, RoomEventNext, RoomMessage, RoomQuit, RoomShutdown, EndRoom
    <3>2. room_pc' = [room_pc EXCEPT ![r] = "ended"] /\ new = Append(old, r)
      BY <3>1 DEF EndRoom
    <3> QED
      BY <3>2 DEF Ended, TypeOK
  <2>4. CASE UNCHANGED vars
    BY <2>4 DEF vars, channels
  <2> QED
    BY <1>2, <2>1, <2>2, <2>3, <2>4 DEF Next
<1> QED
  BY <1>1, <1>2

\* So every notice in the queue is of a sub-broker that has ended.
LEMMA NextReturned ==
  ASSUME TypeOK, RoomsReturned, [Next]_vars
  PROVE  RoomsReturned'
<1> DEFINE old == disconnected_sub_broker
           new == disconnected_sub_broker'
           Over == {"ended", "harvested"}
<1>1. old \in Seq(Rooms)
  BY DEF TypeOK
<1>2. \/ Shrinks(old, new)
      \/ \E r \in Rooms : new = Append(old, r) /\ room_pc'[r] \in Over
  BY NoticesOfRooms DEF Ended
<1>3. \A i \in DOMAIN old : room_pc'[old[i]] \in Over
  <2>1. \A i \in DOMAIN old : old[i] \in Rooms /\ Ended(old[i])
    BY <1>1 DEF RoomsReturned
  <2>2. \A r \in Rooms : Ended(r) => Ended(r)'
    BY RoomsEndForGood
  <2>3. \A r \in Rooms : Ended(r) => room_pc'[r] \in Over
    BY <2>2 DEF Ended
  <2> QED
    BY <2>1, <2>3
<1>4. ASSUME NEW i \in DOMAIN new
      PROVE  room_pc'[new[i]] \in Over
  <2> HIDE DEF old, new
  <2>1. CASE new \in {old, <<>>}
    BY <1>3, <1>4, <2>1
  <2>2. CASE old # <<>> /\ new = Tail(old)
    <3>1. i + 1 \in DOMAIN old /\ new[i] = old[i + 1]
      BY <1>1, <1>4, <2>2, LastTail
    <3> QED
      BY <1>3, <3>1
  <2>3. CASE \E r \in Rooms : new = Append(old, r) /\ room_pc'[r] \in Over
    <3>1. PICK r \in Rooms : new = Append(old, r) /\ room_pc'[r] \in Over
      BY <2>3
    <3>2. (i \in DOMAIN old /\ new[i] = old[i]) \/ new[i] = r
      BY <1>1, <1>4, <3>1
    <3> QED
      BY <1>3, <3>1, <3>2
  <2> QED
    BY <1>2, <2>1, <2>2, <2>3 DEF Shrinks
<1> QED
  BY <1>4 DEF RoomsReturned, Ended

\* As long as the main broker runs and every member hears its chatroom, a
\* sub-broker ends only when its chatroom is out of the map.
LEMMA RoomEndsLast ==
  ASSUME Known, ServerUp, NEW r \in Rooms, RoomNext(r)
  PROVE  RoomsLast' /\ BrokerRunning'
<1> USE DEF Known
<1>1. BrokerRunning /\ RoomsLast /\ UNCHANGED <<broker_pc, chatroom_brokers>>
  BY DEF ServerUp, RoomNext, RoomEventNext, RoomMessage, RoomQuit, RoomShutdown, RoomOnly,
     registry, room_vars
<1>2. ASSUME EndRoom(r)
      PROVE  r \notin chatroom_brokers
  <2>1. CASE RoomShutdown(r)
    BY <2>1 DEF RoomShutdown
  <2>2. CASE RoomMessage(r) /\ \A p \in Peers : ~HoldsReceiver(p, r)
    <3>1. SUFFICES ASSUME r \in chatroom_brokers
                   PROVE  FALSE
      OBVIOUS
    <3>2. PICK p \in Members(r) : TRUE
      BY <3>1, ListedHasMember DEF RegistryInv
    <3>3. p \in Peers /\ chatroom_broker_id[p] = r /\ r # NoRoom
      BY <3>2 DEF Members, TypeOK, Rooms, NoRoom
    <3>4. HoldsReceiver(p, r)
      BY <3>3 DEF ServerUp, ServedInv, Hears
    <3> QED
      BY <2>2, <3>3, <3>4
  <2>3. CASE RoomQuit(r) \/ (RoomMessage(r) /\ \E p \in Peers : HoldsReceiver(p, r))
    <3>1. UNCHANGED room_pc /\ room_pc[r] = "running"
      BY <1>1, <2>3 DEF RoomQuit, RoomMessage, TakesEvent, Serving
    <3> QED
      BY <1>1, <1>2, <3>1 DEF EndRoom, TypeOK
  <2> QED
    BY <2>1, <2>2, <2>3 DEF RoomNext, RoomEventNext
<1>3. UNCHANGED room_pc \/ EndRoom(r)
  BY DEF RoomNext, RoomEventNext, RoomMessage, RoomQuit, RoomShutdown
<1>4. \A q \in Rooms : Ended(q)' => Ended(q) \/ q \notin chatroom_brokers
  BY <1>2, <1>3 DEF EndRoom, Ended, TypeOK
<1> QED
  BY <1>1, <1>4 DEF RoomsLast, BrokerRunning

-----------------------------------------------------------------------------
(* The main broker                                                         *)

\* The event that the main broker takes is a Quit, or of a client that the
\* server serves, or the greeting of one that it does not know.
LEMMA HeadServed ==
  ASSUME TypeOK, NEW p \in Peers, HandInv(p), TurnServed(p), events # <<>>,
         Head(events).peer_id = p
  PROVE  \/ Departing(p) /\ Head(events).kind = "Quit"
         \/ Live(p)
         \/ Head(events).kind = "NewClient" /\ Unknown(p)
<1> DEFINE e == Head(events)
<1>1. PICK s \in Sorts : s = EventSort(e.kind) /\ Turn(p, "event", s)
  BY HeadEvent
<1>2. e \in Event /\ 1 \in DOMAIN events /\ events[1] = e
  BY ReceiveType DEF TypeOK
<1>3. Departing(p) \/ Live(p) \/ (s = "new" /\ Unknown(p))
  BY <1>1 DEF TurnServed, LosesAnswer, Places
<1>4. CASE Departing(p)
  <2>1. PICK i \in DOMAIN events : events[i] \in QuitsOf(p)
    BY <1>4 DEF Departing, Holds
  <2>2. events[i] \in EventsOf(p) /\ e \in EventsOf(p)
    BY <1>2, <2>1 DEF QuitsOf, EventsOf
  <2>3. i = 1
    BY <1>2, <2>1, <2>2 DEF HandInv, Once, EventOnce, AtMostOne
  <2> QED
    BY <1>2, <1>4, <2>1, <2>3 DEF QuitsOf
<1>5. s = "new" => e.kind = "NewClient"
  BY <1>1 DEF EventSort
<1> QED
  BY <1>3, <1>4, <1>5

\* What ends the main broker does not happen while the server serves every
\* client: no sub-broker ends before its chatroom is out of the map, no client
\* is harvested that has something to say, no read task has ended of a client
\* that is admitted to a chatroom.
LEMMA BrokerSurvives ==
  ASSUME Known, NoCorruption', ServerUp, RoomsReturned, BrokerNext
  PROVE  BrokerRunning'
<1> USE DEF Known
<1>1. /\ BrokerRunning /\ RoomsLast
      /\ \A p \in Peers : HandInv(p) /\ TurnServed(p)
  BY DEF ServerUp, ServedInv, HandIInv
<1>2. ASSUME UNCHANGED broker_pc
      PROVE  BrokerRunning'
  BY <1>1, <1>2 DEF BrokerRunning
<1>3. ~BrokerFails("Corrupt")
  BY DEF BrokerFails, NoCorruption
<1>4. CASE HarvestClient
  BY <1>2, <1>3, <1>4 DEF HarvestClient
<1>5. CASE HarvestRoom
  <2> DEFINE r == Head(disconnected_sub_broker)
  <2>1. disconnected_sub_broker # <<>> /\ disconnected_sub_broker \in Seq(Rooms)
    BY <1>5 DEF HarvestRoom, TypeOK
  <2>2. 1 \in DOMAIN disconnected_sub_broker /\ disconnected_sub_broker[1] = r /\ r \in Rooms
    BY <2>1
  <2>3. r \notin chatroom_brokers
    BY <1>1, <2>2 DEF RoomsReturned, RoomsLast
  <2> QED
    BY <1>2, <1>5, <2>3 DEF HarvestRoom, registry
<1>6. CASE ClientExit
  <2> DEFINE p == Head(client_exit)
  <2>1. client_exit # <<>> /\ client_exit \in Seq(Peers)
    BY <1>6 DEF ClientExit, TypeOK
  <2>2. 1 \in DOMAIN client_exit /\ client_exit[1] = p /\ p \in Peers
    BY <2>1
  <2>3. Turn(p, "notice", "leaving")
    BY <2>2 DEF Turn, NoticeTurn, NoticeWaits, Holds
  <2>4. p \in clients
    BY <1>1, <2>2, <2>3, TurnIsLive DEF Places, Sorts, Live
  <2> QED
    BY <1>2, <1>3, <1>6, <2>4 DEF ClientExit
<1>7. CASE EventNext
  <2> DEFINE e == Head(events)
             p == e.peer_id
  <2>1. events # <<>>
    BY <1>7 DEF EventNext, NewClient, QuitEvent, Lobby, ReadSync, Username, Create, Join,
       RejectEvent, Takes
  <2>2. e \in Event /\ p \in Peers
    <3>1. e \in Event
      BY <2>1, ReceiveType DEF TypeOK
    <3> QED
      BY <3>1, EventParts
  <2>3. e.kind = "Quit" \/ Live(p) \/ (e.kind = "NewClient" /\ Unknown(p))
    BY <1>1, <2>1, <2>2, HeadServed
  <2>4. CASE NewClient \/ QuitEvent \/ Lobby \/ ReadSync \/ Username
    BY <1>2, <2>4 DEF NewClient, QuitEvent, Lobby, ReadSync, Username, OnlyAnswers
  <2>5. CASE Create
    <3>1. read_pc[p] # "done"
      BY <2>3, <2>5 DEF Create, Takes, Live
    <3> QED
      BY <1>2, <2>5, <3>1 DEF Create, Refuse, OnlyAnswers, Admit
  <2>6. CASE Join
    <3>1. read_pc[p] # "done"
      BY <2>3, <2>6 DEF Join, Takes, Live
    <3> QED
      BY <1>2, <1>3, <2>6, <3>1 DEF Join, Refuse, OnlyAnswers, Admit
  <2>7. CASE RejectEvent
    <3>1. ~Acceptable(e)
      BY <2>7 DEF RejectEvent
    <3>2. p \notin clients
      BY <2>1, <3>1, HeadIsLegal
    <3> QED
      BY <2>3, <3>1, <3>2 DEF Acceptable, Live
  <2> QED
    BY <1>7, <2>4, <2>5, <2>6, <2>7 DEF EventNext
<1> QED
  BY <1>4, <1>5, <1>6, <1>7 DEF BrokerNext

\* What the main broker lists, and which sub-brokers it starts.
LEMMA BrokerLists ==
  ASSUME Known, ServerUp, RoomsReturned, BrokerNext, BrokerRunning'
  PROVE  RoomsLast'
<1> USE DEF Known
<1>1. \A reason \in BrokerErrors : ~BrokerFails(reason)
  BY BrokerFailsEnds
<1>2. {"ExitOfUnknownClient", "RoomStillInMap", "NoSuchClient", "IllegalEvent", "Corrupt",
       "ReadTaskGone"} \subseteq BrokerErrors
  BY DEF BrokerErrors
<1>3. ASSUME UNCHANGED room_pc, chatroom_brokers' \subseteq chatroom_brokers
      PROVE  RoomsLast'
  BY <1>3 DEF RoomsLast, Ended, ServerUp
<1>4. \A r : LeaveRoom(r) => chatroom_brokers' \subseteq chatroom_brokers
  BY DEF LeaveRoom
<1>5. CASE HarvestClient
  BY <1>1, <1>2, <1>3, <1>4, <1>5 DEF HarvestClient, room_vars
<1>6. CASE ClientExit
  BY <1>1, <1>2, <1>3, <1>4, <1>6 DEF ClientExit
<1>7. CASE HarvestRoom
  <2> DEFINE r == Head(disconnected_sub_broker)
  <2>1. r \notin chatroom_brokers /\ room_pc' = [room_pc EXCEPT ![r] = "harvested"]
        /\ UNCHANGED chatroom_brokers
    BY <1>1, <1>2, <1>7 DEF HarvestRoom, registry, room_vars
  <2> QED
    BY <2>1 DEF RoomsLast, Ended, ServerUp, TypeOK
<1>8. CASE NewClient \/ QuitEvent \/ Lobby \/ ReadSync \/ Username
  BY <1>3, <1>8 DEF NewClient, QuitEvent, Lobby, ReadSync, Username, OnlyAnswers, room_vars
<1>9. CASE Create
  <2>1. ASSUME Refuse("ChatroomAlreadyExists")
        PROVE  RoomsLast'
    BY <1>3, <2>1 DEF Refuse, OnlyAnswers, room_vars
  <2>2. ASSUME NEW r \in Rooms, room_pc' = [room_pc EXCEPT ![r] = "running"],
               chatroom_brokers' = chatroom_brokers \cup {r}
        PROVE  RoomsLast'
    BY <2>2 DEF RoomsLast, Ended, ServerUp, TypeOK
  <2> QED
    BY <1>1, <1>2, <1>9, <2>1, <2>2 DEF Create
<1>10. CASE Join
  BY <1>1, <1>2, <1>3, <1>10 DEF Join, Refuse, OnlyAnswers, room_vars
<1>11. CASE RejectEvent
  BY <1>1, <1>2, <1>11 DEF RejectEvent
<1> QED
  BY <1>5, <1>6, <1>7, <1>8, <1>9, <1>10, <1>11 DEF BrokerNext, EventNext

\* What no step of the main broker takes from a client it does not forget.
LEMMA BrokerLeaves ==
  ASSUME Known, ServerUp, NEW p \in Peers, BrokerNext,
         UNCHANGED <<chatroom_broker_id[p], subscriptions[p], write_pc[p]>>,
         p \in clients' <=> p \in clients,
         Live(p) \/ (EventStays(p) /\ \A x \in Places : Stays(p, x))
  PROVE  ServedInv(p)'
<1> USE DEF Known
<1>1. HandInv(p) /\ ServedInv(p)
  BY DEF HandIInv, ServerUp
<1>2. UNCHANGED <<page, to_client, read_pc, chat_receiver>>
  BY DEF BrokerNext, HarvestClient, HarvestRoom, ClientExit, EventNext, NewClient, QuitEvent,
     Lobby, ReadSync, Username, Create, Join, RejectEvent, Refuse, Admit, OnlyAnswers,
     ui_vars, sockets, read_vars, write_vars
<1>3. Hears(p)'
  BY <1>1, <1>2, HearsOn DEF ServedInv
<1>4. SaysGoodbye(p)'
  BY <1>1, <1>2, NoGoodbye DEF ServedInv, Shrinks
<1>5. StaysIn(p)
  BY <1>2, <1>3, <1>4 DEF StaysIn, SameStage
<1> QED
  BY <1>1, <1>5, StaysServed

\* A client that is harvested, and one that has left its chatroom, is in none.
LEMMA LeaverServed ==
  ASSUME Known, ServerUp, NEW p \in Peers, TurnServed(p)', chatroom_broker_id'[p] = NoRoom,
         UNCHANGED <<page, to_client, read_pc, write_pc>>
  PROVE  ServedInv(p)'
<1>1. HandInv(p) /\ SaysGoodbye(p)
  BY DEF Known, HandIInv, ServerUp, ServedInv
<1>2. SaysGoodbye(p)'
  BY <1>1, NoGoodbye DEF Known, Shrinks
<1> QED
  BY <1>2 DEF ServedInv, Homed, Hears

\* The main broker harvests: the client that it forgets has no turn left.
LEMMA HarvestServed ==
  ASSUME Known, ServerUp, NEW p \in Peers, HarvestClient \/ HarvestRoom, BrokerRunning'
  PROVE  ServedInv(p)'
<1> USE DEF Known, ui_vars, sockets, read_vars, write_vars
<1>1. HandInv(p) /\ ServedInv(p)
  BY DEF HandIInv, ServerUp
<1>2. EventStays(p) /\ \A x \in Places : Stays(p, x)
  BY <1>1, HarvestQuiet, QuietStays
<1>3. ~BrokerFails("Corrupt") /\ ~BrokerFails("RoomStillInMap")
  BY BrokerFailsEnds DEF BrokerErrors
<1>4. CASE HarvestRoom
  <2>1. UNCHANGED <<clients, chatroom_broker_id, subscriptions, write_pc>>
    BY <1>3, <1>4 DEF HarvestRoom, registry, client_vars, peer_channels
  <2> QED
    BY <1>2, <1>4, <2>1, BrokerLeaves DEF BrokerNext
<1>5. CASE HarvestClient
  <2> DEFINE q == Head(client_disconnection)
  <2>1. /\ clients' = clients \ {q}
        /\ chatroom_broker_id' = [chatroom_broker_id EXCEPT ![q] = NoRoom]
        /\ main_responses' = Empty(main_responses, q)
        /\ subscriptions' = Empty(subscriptions, q)
        /\ UNCHANGED <<page, to_client, read_pc, write_pc>>
    BY <1>3, <1>5 DEF HarvestClient
  <2>2. CASE q # p
    <3>1. UNCHANGED <<chatroom_broker_id[p], subscriptions[p], write_pc[p]>>
          /\ (p \in clients' <=> p \in clients)
      BY <2>1, <2>2 DEF Empty, TypeOK
    <3> QED
      BY <1>2, <1>5, <3>1, BrokerLeaves DEF BrokerNext
  <2>3. CASE q = p
    <3>1. client_disconnection # <<>> /\ client_disconnection \in Seq(Peers)
      BY <1>5 DEF HarvestClient, TypeOK
    <3>2. 1 \in DOMAIN client_disconnection /\ client_disconnection[1] = p
      BY <2>3, <3>1
    <3>3. write_pc[p] = "done"
      BY <3>2 DEF TasksIInv, ClientsOutlived
    <3>4. chatroom_broker_id'[p] = NoRoom /\ main_responses'[p] = <<>>
      BY <2>1, <2>3 DEF Empty, TypeOK
    <3>5. ASSUME NEW x \in Places, NEW s \in Sorts, Turn(p, x, s), ~Departing(p)
          PROVE  ~Turn(p, x, s)'
      <4>1. x = "answer"
        BY <1>1, <3>3, <3>5 DEF ServedInv, TurnServed, Live, Unknown, LosesAnswer
      <4> QED
        BY <3>4, <4>1 DEF Turn, AnswerTurn
    <3>6. TurnServed(p)'
      BY <1>1, <1>2, <3>5, ServedStays DEF ServedInv
    <3> QED
      BY <2>1, <3>4, <3>6, LeaverServed
  <2> QED
    BY <2>2, <2>3
<1> QED
  BY <1>4, <1>5

\* It takes a notice: the client that leaves its chatroom is in none.
LEMMA ExitServed ==
  ASSUME Known, ServerUp, NEW p \in Peers, ClientExit, BrokerRunning'
  PROVE  ServedInv(p)'
<1> USE DEF Known, ui_vars, sockets, read_vars, write_vars
<1>1. HandInv(p) /\ ServedInv(p)
  BY DEF HandIInv, ServerUp
<1>2. Live(p) \/ (EventStays(p) /\ \A x \in Places : Stays(p, x))
  <2>1. CASE Quiet(p)
    BY <2>1, QuietStays
  <2>2. CASE NoticeWaits(p)
    <3>1. Turn(p, "notice", "leaving")
      BY <2>2 DEF Turn, NoticeTurn
    <3> QED
      BY <1>1, <3>1, TurnIsLive DEF ServedInv, Places, Sorts
  <2> QED
    BY <1>1, <2>1, <2>2, ExitAnswers
<1>3. ~BrokerFails("Corrupt") /\ ~BrokerFails("ExitOfUnknownClient")
  BY BrokerFailsEnds DEF BrokerErrors
<1> DEFINE q == Head(client_exit)
<1>4. /\ chatroom_broker_id' = [chatroom_broker_id EXCEPT ![q] = NoRoom]
      /\ UNCHANGED <<clients, subscriptions, page, to_client, read_pc, write_pc>>
  BY <1>3 DEF ClientExit, client_vars
<1>5. CASE q # p
  <2>1. UNCHANGED chatroom_broker_id[p]
    BY <1>4, <1>5
  <2> QED
    BY <1>2, <1>4, <2>1, BrokerLeaves DEF BrokerNext
<1>6. CASE q = p
  <2>1. chatroom_broker_id'[p] = NoRoom
    BY <1>4, <1>6 DEF TypeOK
  <2>2. TurnServed(p)'
    BY <1>1, <1>2, <1>4, StageServed DEF ServedInv, SameStage
  <2> QED
    BY <1>4, <2>1, <2>2, LeaverServed
<1> QED
  BY <1>5, <1>6

\* The main broker greets a client: its write task runs, and it is served.
LEMMA GreetingServed ==
  ASSUME Known, ServerUp, NEW p \in Peers, NewClient, Head(events).peer_id = p
  PROVE  ServedInv(p)'
<1> USE DEF Known, ui_vars, sockets, read_vars
<1>1. HandInv(p) /\ ServedInv(p) /\ events # <<>> /\ p \notin clients
  BY DEF HandIInv, ServerUp, NewClient, Takes, Acceptable
<1>2. Unknown(p)
  BY <1>1, HeadServed DEF NewClient, Takes, ServedInv, Live
<1>3. /\ clients' = clients \cup {p} /\ write_pc' = [write_pc EXCEPT ![p] = "running"]
      /\ UNCHANGED <<page, to_client, read_pc, chatroom_broker_id>>
  BY DEF NewClient
<1>4. Live(p)'
  BY <1>2, <1>3 DEF Live, Unknown, TypeOK
<1>5. chatroom_broker_id'[p] = NoRoom
  BY <1>1, <1>3 DEF RegistryInv, UsernamesAgree
<1>6. SaysGoodbye(p)'
  <2>1. page[p] # "QuitLobbyPage" /\ ~Holds(to_client[p], Goodbyes)
    BY <1>1, <1>2 DEF ServedInv, SaysGoodbye, Unknown
  <2> QED
    BY <1>3, <2>1 DEF SaysGoodbye, Holds, Goodbyes
<1> QED
  BY <1>4, <1>5, <1>6 DEF ServedInv, TurnServed, Homed, Hears

\* It admits a client to a chatroom: the receiver of its broadcasts is on its
\* way to the write task.
LEMMA AdmissionServed ==
  ASSUME Known, ServerUp, NEW p \in Peers, Live(p), NEW r, NEW m, Admit(p, r, m)
  PROVE  ServedInv(p)'
<1> USE DEF Known, ui_vars, sockets, read_vars, write_vars, client_vars
<1>1. HandInv(p) /\ ServedInv(p)
  BY DEF HandIInv, ServerUp
<1> DEFINE o == [receiver |-> Receiver(r), response |-> m]
           old == subscriptions[p]
<1>2. /\ chatroom_broker_id'[p] = r /\ subscriptions'[p] = Append(old, o)
      /\ UNCHANGED <<page, to_client, read_pc, write_pc, clients>>
  BY DEF Admit, Put, TypeOK
<1>3. Live(p)' /\ SameStage(p)
  BY <1>2 DEF Live, SameStage
<1>4. TurnServed(p)'
  BY <1>1, <1>3, StageServed DEF ServedInv
<1>5. Hears(p)'
  <2>1. old \in Seq(SubscriptionOf)
    <3>1. subscriptions \in [Peers -> Seq(SubscriptionOf)]
      BY DEF TypeOK
    <3> QED
      BY <3>1
  <2>2. Len(old) + 1 \in DOMAIN Append(old, o) /\ Append(old, o)[Len(old) + 1] = o
    <3> HIDE DEF old, o
    <3> QED
      BY <2>1
  <2>3. o.receiver.room = r
    BY DEF Receiver
  <2>4. \E i \in DOMAIN subscriptions'[p] : subscriptions'[p][i].receiver.room = r
    <3> HIDE DEF old, o
    <3> QED
      BY <1>2, <2>2, <2>3
  <2> QED
    BY <1>2, <2>4 DEF Hears, HoldsReceiver
<1>6. SaysGoodbye(p)'
  BY <1>1, <1>2, NoGoodbye DEF ServedInv, Shrinks
<1> QED
  BY <1>3, <1>4, <1>5, <1>6 DEF ServedInv, Homed, Live

\* The main broker takes an event of this client.
LEMMA OwnEventServed ==
  ASSUME Known, ServerUp, NEW p \in Peers, EventNext, Head(events).peer_id = p, BrokerRunning'
  PROVE  ServedInv(p)'
<1> USE DEF Known, ui_vars, sockets, read_vars, write_vars
<1>1. HandInv(p) /\ ServedInv(p) /\ events # <<>>
  BY DEF HandIInv, ServerUp, EventNext, NewClient, QuitEvent, Lobby, ReadSync, Username,
     Create, Join, RejectEvent, Takes
<1>2. \/ Departing(p) /\ Head(events).kind = "Quit"
      \/ Live(p)
      \/ Head(events).kind = "NewClient" /\ Unknown(p)
  BY <1>1, HeadServed DEF ServedInv
<1>3. \A reason \in {"IllegalEvent", "NoSuchClient", "Corrupt", "ReadTaskGone"} :
        ~BrokerFails(reason)
  BY BrokerFailsEnds DEF BrokerErrors
<1>4. ASSUME Live(p), UNCHANGED <<write_pc, clients, chatroom_broker_id, subscriptions>>
      PROVE  ServedInv(p)'
  BY <1>4, BrokerLeaves DEF BrokerNext
<1>5. ASSUME Live(p), NEW kind, Refuse(kind)
      PROVE  ServedInv(p)'
  BY <1>4, <1>5 DEF Refuse, OnlyAnswers, client_vars
<1>6. CASE NewClient
  BY <1>6, GreetingServed
<1>7. CASE QuitEvent
  <2>1. UNCHANGED <<page, step, sockets, read_vars, write_vars, clients, chatroom_broker_id,
                    main_responses, chatroom_connection, subscriptions, chat_events,
                    client_exit>>
        /\ events' = Tail(events)
    BY <1>7 DEF QuitEvent, Takes, OnlyAnswers, client_vars
  <2>2. Quiet(p)
    <3>1. EventStays(p)
      BY <1>1, <2>1 DEF EventStays, Shrinks
    <3>2. MapsQuiet(p)
      BY <1>7 DEF QuitEvent, MapsQuiet, client_vars
    <3> QED
      BY <2>1, <3>1, <3>2, SameQuiet DEF Quiet
  <2>3. EventStays(p) /\ \A x \in Places : Stays(p, x)
    BY <2>2, QuietStays
  <2> QED
    BY <2>1, <2>3, BrokerLeaves DEF BrokerNext
<1>8. CASE Lobby \/ ReadSync \/ Username
  <2>1. Live(p)
    BY <1>2, <1>8 DEF Lobby, ReadSync, Username, Takes
  <2>2. UNCHANGED <<write_pc, clients, chatroom_broker_id, subscriptions>>
    BY <1>8 DEF Lobby, ReadSync, Username, OnlyAnswers, client_vars
  <2> QED
    BY <1>4, <2>1, <2>2
<1>9. CASE Create \/ Join
  <2>1. Live(p)
    BY <1>2, <1>9 DEF Create, Join, Takes
  <2>2. \/ \E kind : Refuse(kind)
        \/ \E r, m : Admit(p, r, m)
    BY <1>3, <1>9 DEF Create, Join
  <2> QED
    BY <1>5, <2>1, <2>2, AdmissionServed
<1>10. CASE RejectEvent
  BY <1>3, <1>10 DEF RejectEvent
<1> QED
  BY <1>6, <1>7, <1>8, <1>9, <1>10 DEF EventNext

\* It takes one of another client.
LEMMA OtherEventServed ==
  ASSUME Known, ServerUp, NEW p \in Peers, EventNext, Head(events).peer_id # p, BrokerRunning'
  PROVE  ServedInv(p)'
<1> USE DEF Known, ui_vars, sockets, read_vars, write_vars
<1> DEFINE q == Head(events).peer_id
<1>1. HandInv(p) /\ events # <<>>
  BY DEF HandIInv, EventNext, NewClient, QuitEvent, Lobby, ReadSync, Username, Create, Join,
     RejectEvent, Takes
<1>2. EventStays(p) /\ \A x \in Places : Stays(p, x)
  BY <1>1, OtherEventQuiet, QuietStays
<1>3. \A reason \in {"IllegalEvent", "NoSuchClient", "Corrupt", "ReadTaskGone"} :
        ~BrokerFails(reason)
  BY BrokerFailsEnds DEF BrokerErrors
<1> DEFINE Same == /\ UNCHANGED <<chatroom_broker_id[p], subscriptions[p], write_pc[p]>>
                   /\ p \in clients' <=> p \in clients
<1>4. \A kind : Refuse(kind) => Same
  BY DEF Refuse, OnlyAnswers, client_vars
<1>5. \A r, m : Admit(q, r, m) => Same
  BY DEF Admit, Put, client_vars, TypeOK
<1>6. ASSUME NewClient
      PROVE  Same
  BY <1>6 DEF NewClient, TypeOK
<1>7. ASSUME QuitEvent \/ Lobby \/ ReadSync \/ Username
      PROVE  Same
  BY <1>7 DEF QuitEvent, Lobby, ReadSync, Username, OnlyAnswers, client_vars
<1>8. ASSUME Create \/ Join
      PROVE  Same
  BY <1>3, <1>4, <1>5, <1>8 DEF Create, Join
<1>9. ASSUME RejectEvent
      PROVE  Same
  BY <1>3, <1>9 DEF RejectEvent
<1>10. Same
  BY <1>6, <1>7, <1>8, <1>9 DEF EventNext
<1> QED
  BY <1>2, <1>10, BrokerLeaves DEF BrokerNext

-----------------------------------------------------------------------------
(* Every step                                                              *)

\* The main broker's step, taken together.
LEMMA BrokerServed ==
  ASSUME Known, NoCorruption', ServerUp, RoomsReturned, BrokerNext
  PROVE  ServerUp'
<1>1. BrokerRunning' /\ RoomsLast'
  BY BrokerSurvives, BrokerLists
<1>2. ASSUME NEW p \in Peers
      PROVE  ServedInv(p)'
  BY <1>1, HarvestServed, ExitServed, OwnEventServed, OtherEventServed DEF BrokerNext
<1> QED
  BY <1>1, <1>2 DEF ServerUp

\* The step of any other task or program.
LEMMA TasksServed ==
  ASSUME Known, Known', AllUp, ServerUp, [Next]_vars, ~BrokerNext
  PROVE  ServerUp'
<1> USE DEF Known
<1>1. ASSUME NEW p \in Peers
      PROVE  ServedInv(p)'
  <2>1. CASE ReadNext(p)
    BY <2>1, OwnReaderServed
  <2>2. CASE WriteNext(p)
    BY <2>2, WriterServed
  <2>3. CASE UserNext(p) \/ ProgramNext(p)
    BY <2>3, ProgramServed
  <2>4. CASE \E r \in Rooms : RoomNext(r)
    BY <2>4, RoomServed
  <2>5. CASE \/ \E q \in Peers \ {p} :
                  ReadNext(q) \/ WriteNext(q) \/ UserNext(q) \/ ProgramNext(q)
             \/ UNCHANGED vars
    BY <2>5, OthersServed
  <2> QED
    BY <2>1, <2>2, <2>3, <2>4, <2>5 DEF Next
<1>2. BrokerRunning' /\ RoomsLast'
  <2>1. CASE \E r \in Rooms : RoomNext(r)
    BY <2>1, RoomEndsLast
  <2>2. CASE ~\E r \in Rooms : RoomNext(r)
    <3>1. UNCHANGED registry
      BY OthersUntouched DEF Next
    <3>2. UNCHANGED room_pc
      <4>1. ASSUME NEW p \in Peers, ReadNext(p) \/ WriteNext(p)
            PROVE  UNCHANGED room_pc
        BY <4>1 DEF ReadNext, AcceptConnection, ResumeSend, FrameNext, ReadFrame, ReadFails,
           ChannelNext, NewChatroomChannel, ChatroomChannelClosed, ReadTaskOnly, WriteNext,
           Shutdown, MainResponse, Subscription, BroadcastNext, ChatMessage, Lagged,
           WriteFails, WriteTaskOnly
      <4>2. ASSUME NEW p \in Peers, UserNext(p) \/ ProgramNext(p)
            PROVE  UNCHANGED room_pc
        BY <4>2 DEF UserNext, RequestUsername, RequestChatroom, RequestQuit, SendMessage,
           QuitChatroom, Kill, Request, ProgramNext, AskUsername, ShowLobby,
           AwaitConfirmation, EnterChatroom, ShowMessage, LeaveChatroom, SayGoodbye,
           RefreshLobby, UnexpectedResponse, ConnectionFails, UIOnly
      <4>3. CASE UNCHANGED vars
        BY <4>3 DEF vars
      <4> QED
        BY <2>2, <4>1, <4>2, <4>3 DEF Next
    <3> QED
      BY <3>1, <3>2 DEF ServerUp, RoomsLast, Ended, BrokerRunning, registry, room_vars
  <2> QED
    BY <2>1, <2>2
<1> QED
  BY <1>1, <1>2 DEF ServerUp

\* At the start nobody has connected.
LEMMA InitSurvival == Init => SurvivalIInv
<1> SUFFICES ASSUME Init
             PROVE  SurvivalIInv
  OBVIOUS
<1>1. RoomsReturned /\ RoomsLast /\ BrokerRunning
  BY DEF Init, RoomsReturned, RoomsLast, BrokerRunning
<1>2. ASSUME NEW p \in Peers
      PROVE  ServedInv(p)
  <2>1. /\ page[p] = "Unstarted" /\ p \notin clients /\ chatroom_broker_id[p] = NoRoom
        /\ read_pc[p] = "idle" /\ write_pc[p] = "idle" /\ to_client[p] = <<>>
        /\ to_server[p] = <<>> /\ outgoing[p] = <<>> /\ events = <<>> /\ client_exit = <<>>
        /\ main_responses[p] = <<>> /\ chatroom_connection[p] = <<>>
        /\ \A r \in Rooms : chat_events[r] = <<>>
    BY <1>2 DEF Init
  <2>2. \A V : ~Holds(<<>>, V)
    BY HoldsNothing
  <2>3. ASSUME NEW x \in Places, NEW s \in Sorts, Turn(p, x, s)
        PROVE  s = "new"
    BY <2>1, <2>2, <2>3 DEF Turn, StartTurn, UserTurn, ClientOpen, OpenPages, FrameTurn,
       SendTurn, Suspended, EventTurn, QuitTurn, QuitWaits, NoticeTurn, NoticeWaits,
       AnswerTurn, AddressTurn, AddressWaits, ResponseTurn
  <2> QED
    BY <2>1, <2>2, <2>3 DEF ServedInv, TurnServed, Unknown, Homed, Hears, SaysGoodbye
<1> QED
  BY <1>1, <1>2 DEF SurvivalIInv, ServerUp

\* Every step keeps the server up as long as every client program is.
LEMMA NextSurvival ==
  ASSUME Known, Known', SurvivalIInv, [Next]_vars
  PROVE  SurvivalIInv'
<1> USE DEF Known
<1>1. RoomsReturned'
  BY NextReturned DEF SurvivalIInv
<1>2. ASSUME AllUp'
      PROVE  ServerUp'
  <2>1. AllUp /\ ServerUp /\ RoomsReturned
    BY <1>2, FailuresLast DEF SurvivalIInv
  <2>2. CASE BrokerNext
    BY <2>1, <2>2, BrokerServed
  <2>3. CASE ~BrokerNext
    BY <2>1, <2>3, TasksServed
  <2> QED
    BY <2>2, <2>3
<1> QED
  BY <1>1, <1>2 DEF SurvivalIInv

\* While every client program is up the main broker runs, no sub-broker has
\* ended before its chatroom is out of the map, and every client is served or
\* on its way out (broker, handle_connection, client_write_loop and
\* chatroom_broker, in whatever order they act).
THEOREM EveryClientIsServed == Spec => []SurvivalIInv
<1>1. /\ Known /\ Known' /\ SurvivalIInv /\ [Next]_vars => SurvivalIInv'
      /\ TypeOK /\ RegistryInv /\ TasksIInv /\ HandIInv /\ ReceiverIInv /\ NoCorruption
           <=> Known
  BY NextSurvival DEF Known
<1>2. Spec => []Known
  BY <1>1, TypeCorrect, RegistryAgrees, TasksInductive, TurnsAreTaken, ReceiversAreTied,
     NeverCorrupt, PTL
<1> QED
  BY <1>1, <1>2, InitSurvival, PTL DEF Spec

\* The main broker ends only after some client program has crashed or is gone:
\* an error that broker returns, for whatever reason, has its cause outside of
\* the server.
THEOREM BrokerSurvivesClients == Spec => []BrokerOutlivesClients
<1>1. SurvivalIInv => BrokerOutlivesClients
  BY DEF SurvivalIInv, ServerUp, AllUp, BrokerOutlivesClients
<1> QED
  BY <1>1, EveryClientIsServed, PTL

=============================================================================

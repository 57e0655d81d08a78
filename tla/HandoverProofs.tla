--------------------------- MODULE HandoverProofs ---------------------------
(***************************************************************************)
(* A client and the server take turns.  Between the lobby and a chatroom   *)
(* the main broker, the read task, the write task and the client program   *)
(* learn of the change one after the other; that they never act on         *)
(* different views rests on the turn, which is in one place at a time: the *)
(* user has it at a prompt, then the frame, the event and the answer take  *)
(* it to the main broker and back, or a chatroom's address, a Quit and an  *)
(* exit notice do.  What the turn carries says where the client stands.    *)
(***************************************************************************)
EXTENDS ExitProofs

-----------------------------------------------------------------------------
(* The turn                                                                *)

\* The places a client's turn goes through.
Places ==
  {"start", "user", "frame", "send", "event", "quit", "notice", "answer", "address",
   "response"}

\* What it carries: a connection the broker has yet to greet; something of a
\* client without a user name, of one in the lobby, or of one in a chatroom;
\* the address of a chatroom; the wish to leave one.
Sorts == {"new", "unnamed", "lobby", "address", "room", "leaving"}

\* What answers a request.  A chatroom is opened by the subscription as well,
\* which comes beside the turn.
AnswerKinds == (PlainKinds \cup LobbyKinds) \ (JoinedKinds \cup {"ExitLobby"})

UserSort(p) ==
  IF page[p] = "Chatroom" \/ step[p] = "subscription" THEN "room"
  ELSE IF page[p] = "UsernamePage" THEN "unnamed" ELSE "lobby"
FrameSort(p, kind) ==
  IF kind = "Username" THEN "unnamed"
  ELSE IF kind = "Quit" /\ AddressHeld(p) THEN "room" ELSE "lobby"
EventSort(kind) ==
  CASE kind = "NewClient" -> "new" [] kind = "Username" -> "unnamed"
    [] kind = "ReadSync" -> "room" [] OTHER -> "lobby"
SendSort(o) == IF o.to = NoRoom THEN EventSort(o.event.kind) ELSE "leaving"
AnswerSort(kind) ==
  CASE kind \in {"ConnectionOk", "UsernameAlreadyExists"} -> "unnamed"
    [] kind = "ReadSync" -> "room" [] OTHER -> "lobby"

EventsOf(p) == {e \in Event : e.peer_id = p}
EventsAs(p, s) == {e \in EventsOf(p) : EventSort(e.kind) = s}
Answers == {m \in Response : m.kind \in AnswerKinds}
AnswersAs(s) == {m \in Answers : AnswerSort(m.kind) = s}
Openings == {m \in Response : m.kind \in JoinedKinds}
LastOf(queue) == queue[Len(queue)]

\* The turn is in this place, as sort s.  Frames of a read task that is not
\* running count for nothing; messages take no turn.
StartTurn(p, s) == page[p] = "Unstarted" /\ s = "new"
UserTurn(p, s) ==
  ClientOpen(p) /\ step[p] \in {"request", "subscription"} /\ s = UserSort(p)
FrameTurn(p, s) ==
  /\ read_pc[p] = "running" /\ to_server[p] # <<>>
  /\ LastOf(to_server[p]).kind # "Message" /\ s = FrameSort(p, LastOf(to_server[p]).kind)
SendTurn(p, s) ==
  /\ Suspended(p)
  /\ Head(outgoing[p]).event.kind # "Message" /\ s = SendSort(Head(outgoing[p]))
EventTurn(p, s) == Holds(events, EventsAs(p, s))
QuitTurn(p, s) == s = "leaving" /\ \E r \in Rooms : QuitWaits(p, r)
NoticeTurn(p, s) == s = "leaving" /\ NoticeWaits(p)
AnswerTurn(p, s) ==
  main_responses[p] # <<>> /\ s = AnswerSort(Head(main_responses[p]).kind)
AddressTurn(p, s) == s = "address" /\ AddressWaits(p)
ResponseTurn(p, s) == Holds(to_client[p], AnswersAs(s))

Turn(p, place, s) ==
  \/ place = "start" /\ StartTurn(p, s)
  \/ place = "user" /\ UserTurn(p, s)
  \/ place = "frame" /\ FrameTurn(p, s)
  \/ place = "send" /\ SendTurn(p, s)
  \/ place = "event" /\ EventTurn(p, s)
  \/ place = "quit" /\ QuitTurn(p, s)
  \/ place = "notice" /\ NoticeTurn(p, s)
  \/ place = "answer" /\ AnswerTurn(p, s)
  \/ place = "address" /\ AddressTurn(p, s)
  \/ place = "response" /\ ResponseTurn(p, s)

\* There is no turn but this one.
OnlyTurn(p, x, s) == \A y \in Places : \A t \in Sorts : Turn(p, y, t) => y = x /\ t = s

\* The turn is in one place at a time.
OneTurn(p) == \A x \in Places : \A s \in Sorts : Turn(p, x, s) => OnlyTurn(p, x, s)

-----------------------------------------------------------------------------
(* The invariant                                                           *)

\* A chatroom is about to open: its subscription is on its way, or is here and
\* ReadSync is not.
OpeningWaits(p) == subscriptions[p] # <<>> \/ Holds(to_client[p], Openings)
Entering(p) == OpeningWaits(p) \/ step[p] = "readsync"

\* What the main broker's maps say of the client.
Standing(p, s) ==
  /\ s # "new"
  /\ s = "unnamed" <=> username[p] = None
  /\ s \in {"unnamed", "lobby"} <=> chatroom_broker_id[p] = NoRoom

\* The turn agrees with what the tasks know.
Fits(p, s) ==
  /\ AddressHeld(p) => s = "room"
  /\ s = "room" /\ read_pc[p] = "running" => AddressHeld(p)
  /\ p \in clients => Standing(p, s)
  /\ Entering(p) => s \in {"address", "room"}
TurnFits(p) == \A x \in Places : \A s \in Sorts : Turn(p, x, s) => Fits(p, s)

\* It is once in every queue, and a chatroom is opened once.
FramesOnce(p) ==
  read_pc[p] = "running" =>
    \A i \in DOMAIN to_server[p] :
      to_server[p][i].kind = "Message" \/ i = Len(to_server[p])
OpeningOnce(p) ==
  /\ Len(subscriptions[p]) <= 1
  /\ AtMostOne(to_client[p], Openings)
  /\ subscriptions[p] # <<>> => ~Holds(to_client[p], Openings)
  /\ step[p] = "readsync" => ~OpeningWaits(p)
EventOnce(p) == AtMostOne(events, EventsOf(p))
QuitOnce(p) ==
  /\ \A r \in Rooms : AtMostOne(chat_events[r], QuitsOf(p))
  /\ \A r, q \in Rooms : QuitWaits(p, r) /\ QuitWaits(p, q) => r = q
NoticeOnce(p) == AtMostOne(client_exit, {p})
AnswerOnce(p) == Len(main_responses[p]) <= 1
AddressOnce(p) == Len(chatroom_connection[p]) <= 1
ResponseOnce(p) == AtMostOne(to_client[p], Answers)
Once(p) ==
  /\ FramesOnce(p) /\ EventOnce(p) /\ QuitOnce(p) /\ NoticeOnce(p)
  /\ AnswerOnce(p) /\ AddressOnce(p) /\ ResponseOnce(p) /\ OpeningOnce(p)

\* What a suspended read task holds.
SendShape(p) ==
  Suspended(p) =>
    LET o == Head(outgoing[p])
    IN /\ read_pc[p] = "running"
       /\ o.event.peer_id = p
       /\ o.to = NoRoom => o.event.kind # "Message"
       /\ o.to # NoRoom => o.event.kind \in {"Quit", "Message"}
       /\ o.to # NoRoom /\ o.event.kind = "Message" => o.to = chatroom_sender[p]

\* Who is where: the program, its read task, its queues.
Shape(p) ==
  /\ (read_pc[p] = "idle") <=> (page[p] = "Unstarted")
  /\ page[p] = "Unstarted" => to_server[p] = <<>>
  /\ step[p] # "response" => ClientOpen(p)
  /\ Entering(p) => step[p] # "request"
  /\ Entering(p) /\ read_pc[p] = "running" => to_server[p] = <<>>
  /\ read_pc[p] = "running" /\ ~AddressHeld(p) =>
       \A i \in DOMAIN to_server[p] : to_server[p][i].kind # "Message"
  /\ SendShape(p)
  /\ \A i \in DOMAIN main_responses[p] : main_responses[p][i].kind \in AnswerKinds
  /\ \A i \in DOMAIN subscriptions[p] : subscriptions[p][i].response.kind \in JoinedKinds

\* The chatroom's broadcasts have reached the program, or are about to.
Subscribed(p) ==
  \/ Holds(to_client[p], Openings) \/ step[p] = "readsync"
  \/ page[p] = "Chatroom" /\ step[p] = "request"

\* Whatever is tied to a chatroom is tied to the one in the main broker's map.
Wired(p) ==
  p \in clients =>
    /\ AddressHeld(p) => chatroom_sender[p] = chatroom_broker_id[p]
    /\ \A i \in DOMAIN chatroom_connection[p] :
         chatroom_connection[p][i] = chatroom_broker_id[p]
    /\ \A i \in DOMAIN subscriptions[p] :
         subscriptions[p][i].receiver.room = chatroom_broker_id[p]
    /\ Suspended(p) /\ Head(outgoing[p]).to # NoRoom =>
         Head(outgoing[p]).to = chatroom_broker_id[p]
    /\ Subscribed(p) /\ write_pc[p] = "running" =>
         chat_receiver[p].room = chatroom_broker_id[p]

HandInv(p) == OneTurn(p) /\ TurnFits(p) /\ Once(p) /\ Shape(p) /\ Wired(p)

\* The inductive invariant; no message is sent to the main broker.
HandIInv ==
  /\ \A p \in Peers : HandInv(p)
  /\ \A i \in DOMAIN events : events[i].kind # "Message"

-----------------------------------------------------------------------------
(* What a step leaves alone                                                *)

\* A queue is the same, or has lost its first message or all of them.
Shrinks(before, after) ==
  after \in {before, <<>>} \/ (before # <<>> /\ after = Tail(before))
\* It has one more message, of set W.
Gains(before, after, W) == \E m \in W : after = Append(before, m)

\* The step brings no turn of p to this place.
StartStays(p) == page'[p] = "Unstarted" => page[p] = "Unstarted"
UserStays(p) ==
  \/ page'[p] = page[p] /\ step'[p] = step[p]
  \/ page'[p] \in {"QuitLobbyPage", "Crashed", "Gone"} /\ step'[p] = "response"
FrameStays(p) ==
  read_pc'[p] = "running" =>
    /\ read_pc[p] = "running"
    /\ to_server'[p] = to_server[p] /\ chatroom_sender'[p] = chatroom_sender[p]
SendStays(p) == outgoing'[p] \in {outgoing[p], <<>>}
EventStays(p) ==
  Shrinks(events, events') \/ Gains(events, events', Event \ EventsOf(p))
QuitStays(p) ==
  \A r \in Rooms :
    \/ Shrinks(chat_events[r], chat_events'[r])
    \/ Gains(chat_events[r], chat_events'[r], Event \ QuitsOf(p))
NoticeStays(p) ==
  Shrinks(client_exit, client_exit') \/ Gains(client_exit, client_exit', Peers \ {p})
AnswerStays(p) == main_responses'[p] \in {main_responses[p], <<>>}
AddressStays(p) == chatroom_connection'[p] \in {chatroom_connection[p], <<>>}
ResponseStays(p) ==
  \/ Shrinks(to_client[p], to_client'[p])
  \/ Gains(to_client[p], to_client'[p], Response \ Answers)

Stays(p, place) == \A s \in Sorts : Turn(p, place, s)' => Turn(p, place, s)

\* What the client program, its tasks and the main broker's maps keep of p
\* when a step is not about its turn.
ProgramQuiet(p) ==
  \/ page'[p] = page[p] /\ step'[p] = step[p]
  \/ /\ page'[p] \in {"QuitLobbyPage", "Crashed", "Gone"} /\ step'[p] = "response"
     /\ page[p] # "Unstarted"
ReaderQuiet(p) ==
  \/ /\ UNCHANGED <<read_pc[p], chatroom_sender[p], outgoing[p], chatroom_connection[p],
                    to_server[p]>>
  \/ /\ read_pc[p] = "running" /\ read_pc'[p] = "done" /\ chatroom_sender'[p] = NoRoom
     /\ outgoing'[p] = <<>> /\ chatroom_connection'[p] = <<>>
WriterQuiet(p) ==
  /\ \/ Shrinks(to_client[p], to_client'[p])
     \/ Gains(to_client[p], to_client'[p], Response \ (Answers \cup Openings))
  /\ write_pc'[p] = "running" =>
       write_pc[p] = "running" /\ chat_receiver'[p].room = chat_receiver[p].room
  /\ main_responses'[p] \in {main_responses[p], <<>>}
  /\ \/ subscriptions'[p] = <<>>
     \/ /\ subscriptions[p] # <<>> /\ Len(subscriptions'[p]) = Len(subscriptions[p])
        /\ \A i \in DOMAIN subscriptions'[p] :
             /\ i \in DOMAIN subscriptions[p]
             /\ subscriptions'[p][i].receiver.room = subscriptions[p][i].receiver.room
             /\ subscriptions'[p][i].response = subscriptions[p][i].response
MapsQuiet(p) ==
  p \in clients' =>
    /\ p \in clients
    /\ username'[p] = username[p] /\ chatroom_broker_id'[p] = chatroom_broker_id[p]
Quiet(p) ==
  /\ ProgramQuiet(p) /\ ReaderQuiet(p) /\ WriterQuiet(p) /\ MapsQuiet(p)
  /\ EventStays(p) /\ QuitStays(p) /\ NoticeStays(p)

-----------------------------------------------------------------------------
(* Queues                                                                  *)

\* A queue that shrinks, or gains a message that does not count, holds no more
\* than before.
LEMMA QueueKeeps ==
  ASSUME NEW S, NEW queue \in Seq(S), NEW V, NEW after,
         Shrinks(queue, after) \/ Gains(queue, after, S \ V)
  PROVE  /\ Holds(after, V) => Holds(queue, V)
         /\ AtMostOne(queue, V) => AtMostOne(after, V)
<1>1. CASE after = queue
  BY <1>1
<1>2. CASE after = <<>>
  BY <1>2, HoldsNothing
<1>3. CASE queue # <<>> /\ after = Tail(queue)
  BY <1>3, HoldsTail
<1>4. CASE \E m \in S \ V : after = Append(queue, m)
  BY <1>4, HoldsAppend
<1> QED
  BY <1>1, <1>2, <1>3, <1>4 DEF Shrinks, Gains

\* What holds a message of a set holds one of a larger set.
LEMMA HoldsMore ==
  ASSUME NEW queue, NEW V, NEW W, V \subseteq W
  PROVE  /\ Holds(queue, V) => Holds(queue, W)
         /\ AtMostOne(queue, W) => AtMostOne(queue, V)
  BY DEF Holds, AtMostOne

\* The last frame of a queue, after one more.
LEMMA LastAppend ==
  ASSUME NEW S, NEW queue \in Seq(S), NEW m \in S
  PROVE  /\ Append(queue, m) # <<>> /\ LastOf(Append(queue, m)) = m
         /\ Len(Append(queue, m)) = Len(queue) + 1
         /\ \A i \in DOMAIN Append(queue, m) :
              \/ i \in DOMAIN queue /\ Append(queue, m)[i] = queue[i]
              \/ i = Len(queue) + 1 /\ Append(queue, m)[i] = m
  BY DEF LastOf

\* And of what is left when the first is taken.
LEMMA LastTail ==
  ASSUME NEW S, NEW queue \in Seq(S), queue # <<>>
  PROVE  /\ Tail(queue) # <<>> => LastOf(Tail(queue)) = LastOf(queue)
         /\ Len(Tail(queue)) = Len(queue) - 1
         /\ \A i \in DOMAIN Tail(queue) :
              i + 1 \in DOMAIN queue /\ Tail(queue)[i] = queue[i + 1]
  BY DEF LastOf

\* A queue of at most one message that holds one is empty once it is taken.
LEMMA LastOne ==
  ASSUME NEW S, NEW queue \in Seq(S), queue # <<>>, Len(queue) <= 1
  PROVE  Tail(queue) = <<>> /\ Len(queue) = 1 /\ DOMAIN queue = {1} /\ queue[1] = Head(queue)
<1>1. Len(queue) \in Nat /\ Len(queue) # 0
  OBVIOUS
<1>2. Len(queue) = 1
  BY <1>1
<1>3. Tail(queue) = <<>>
  <2>1. Tail(queue) \in Seq(S) /\ Len(Tail(queue)) = 0
    BY <1>2
  <2> QED
    BY <2>1
<1>4. DOMAIN queue = 1 .. 1 /\ queue[1] = Head(queue)
  BY <1>2
<1> QED
  BY <1>2, <1>3, <1>4

-----------------------------------------------------------------------------
(* Places and sorts                                                        *)

\* Whatever the turn carries has one of the sorts.
LEMMA SortsOf ==
  ASSUME NEW p \in Peers
  PROVE  /\ UserSort(p) \in Sorts
         /\ \A kind : FrameSort(p, kind) \in {"unnamed", "lobby", "room"}
         /\ \A kind : EventSort(kind) \in {"new", "unnamed", "lobby", "room"}
         /\ \A kind : AnswerSort(kind) \in {"unnamed", "lobby", "room"}
         /\ \A o : SendSort(o) \in {"new", "unnamed", "lobby", "room", "leaving"}
         /\ {"new", "unnamed", "lobby", "room", "leaving", "address"} = Sorts
<1>1. \A kind : EventSort(kind) \in {"new", "unnamed", "lobby", "room"}
  BY DEF EventSort
<1>2. \A kind : AnswerSort(kind) \in {"unnamed", "lobby", "room"}
  BY DEF AnswerSort
<1>3. \A o : SendSort(o) \in {"new", "unnamed", "lobby", "room", "leaving"}
  BY <1>1 DEF SendSort
<1> QED
  BY <1>1, <1>2, <1>3 DEF Sorts, UserSort, FrameSort

\* An event of the client, wherever it waits, is the turn.
LEMMA EventIsTurn ==
  ASSUME NEW p \in Peers
  PROVE  /\ \A s : EventsAs(p, s) \subseteq EventsOf(p)
         /\ Holds(events, EventsOf(p)) <=> \E s \in Sorts : EventTurn(p, s)
<1>1. \A s : EventsAs(p, s) \subseteq EventsOf(p)
  BY DEF EventsAs
<1>2. ASSUME Holds(events, EventsOf(p))
      PROVE  \E s \in Sorts : EventTurn(p, s)
  <2>1. PICK i \in DOMAIN events : events[i] \in EventsOf(p)
    BY <1>2 DEF Holds
  <2>2. events[i] \in EventsAs(p, EventSort(events[i].kind))
    BY <2>1 DEF EventsAs
  <2>3. EventSort(events[i].kind) \in Sorts
    BY SortsOf
  <2> QED
    BY <2>2, <2>3 DEF EventTurn, Holds
<1> QED
  BY <1>1, <1>2 DEF EventTurn, Holds

\* An answer on the socket is the turn.
LEMMA ResponseIsTurn ==
  ASSUME NEW p \in Peers
  PROVE  /\ \A s : AnswersAs(s) \subseteq Answers
         /\ Holds(to_client[p], Answers) <=> \E s \in Sorts : ResponseTurn(p, s)
<1>1. \A s : AnswersAs(s) \subseteq Answers
  BY DEF AnswersAs
<1>2. ASSUME Holds(to_client[p], Answers)
      PROVE  \E s \in Sorts : ResponseTurn(p, s)
  <2>1. PICK i \in DOMAIN to_client[p] : to_client[p][i] \in Answers
    BY <1>2 DEF Holds
  <2>2. to_client[p][i] \in AnswersAs(AnswerSort(to_client[p][i].kind))
    BY <2>1 DEF AnswersAs
  <2>3. AnswerSort(to_client[p][i].kind) \in Sorts
    BY SortsOf
  <2> QED
    BY <2>2, <2>3 DEF ResponseTurn, Holds
<1> QED
  BY <1>1, <1>2 DEF ResponseTurn, Holds

\* What a step leaves alone gains no turn.
LEMMA PlacesStay ==
  ASSUME TypeOK, NEW p \in Peers
  PROVE  /\ StartStays(p) => Stays(p, "start")
         /\ UserStays(p) => Stays(p, "user")
         /\ FrameStays(p) => Stays(p, "frame")
         /\ SendStays(p) => Stays(p, "send")
         /\ EventStays(p) => Stays(p, "event")
         /\ QuitStays(p) => Stays(p, "quit")
         /\ NoticeStays(p) => Stays(p, "notice")
         /\ AnswerStays(p) => Stays(p, "answer")
         /\ AddressStays(p) => Stays(p, "address")
         /\ ResponseStays(p) => Stays(p, "response")
<1>1. StartStays(p) => Stays(p, "start")
  BY DEF StartStays, Stays, Turn, StartTurn
<1>2. UserStays(p) => Stays(p, "user")
  BY DEF UserStays, Stays, Turn, UserTurn, UserSort, ClientOpen, OpenPages
<1>3. FrameStays(p) => Stays(p, "frame")
  BY DEF FrameStays, Stays, Turn, FrameTurn, FrameSort, AddressHeld, LastOf
<1>4. SendStays(p) => Stays(p, "send")
  BY DEF SendStays, Stays, Turn, SendTurn, SendSort, Suspended, EventSort
<1>5. ASSUME EventStays(p)
      PROVE  Stays(p, "event")
  <2>1. ASSUME NEW s \in Sorts
        PROVE  Holds(events', EventsAs(p, s)) => Holds(events, EventsAs(p, s))
    <3>1. events \in Seq(Event) /\ EventsAs(p, s) \subseteq EventsOf(p)
      BY EventIsTurn DEF TypeOK
    <3>2. \/ Shrinks(events, events')
          \/ Gains(events, events', Event \ EventsAs(p, s))
      BY <1>5, <3>1 DEF EventStays, Gains
    <3> DEFINE V == EventsAs(p, s)
    <3> HIDE DEF V
    <3>3. Shrinks(events, events') \/ Gains(events, events', Event \ V)
      BY <3>2 DEF V
    <3>4. Holds(events', V) => Holds(events, V)
      BY <3>1, <3>3, QueueKeeps
    <3> QED
      BY <3>4 DEF V
  <2> QED
    BY <2>1 DEF Stays, Turn, EventTurn, EventsAs, EventsOf, EventSort
<1>6. ASSUME QuitStays(p)
      PROVE  Stays(p, "quit")
  <2> DEFINE V == QuitsOf(p)
  <2>1. ASSUME NEW r \in Rooms
        PROVE  Holds(chat_events'[r], V) => Holds(chat_events[r], V)
    <3>1. /\ chat_events[r] \in Seq(Event)
          /\ \/ Shrinks(chat_events[r], chat_events'[r])
             \/ Gains(chat_events[r], chat_events'[r], Event \ V)
      BY <1>6 DEF QuitStays, TypeOK
    <3> HIDE DEF V
    <3> QED
      BY <3>1, QueueKeeps
  <2> QED
    BY <2>1 DEF Stays, Turn, QuitTurn, QuitWaits, QuitsOf
<1>7. ASSUME NoticeStays(p)
      PROVE  Stays(p, "notice")
  <2>1. Holds(client_exit', {p}) => Holds(client_exit, {p})
    BY <1>7, QueueKeeps DEF NoticeStays, TypeOK
  <2> QED
    BY <2>1 DEF Stays, Turn, NoticeTurn, NoticeWaits
<1>8. AnswerStays(p) => Stays(p, "answer")
  BY DEF AnswerStays, Stays, Turn, AnswerTurn, AnswerSort
<1>9. AddressStays(p) => Stays(p, "address")
  BY DEF AddressStays, Stays, Turn, AddressTurn, AddressWaits
<1>10. ASSUME ResponseStays(p)
       PROVE  Stays(p, "response")
  <2>1. ASSUME NEW s \in Sorts
        PROVE  Holds(to_client'[p], AnswersAs(s)) => Holds(to_client[p], AnswersAs(s))
    <3>1. to_client[p] \in Seq(Response) /\ AnswersAs(s) \subseteq Answers
      BY ResponseIsTurn DEF TypeOK
    <3>2. \/ Shrinks(to_client[p], to_client'[p])
          \/ Gains(to_client[p], to_client'[p], Response \ AnswersAs(s))
      BY <1>10, <3>1 DEF ResponseStays, Gains
    <3> DEFINE V == AnswersAs(s)
    <3> HIDE DEF V
    <3>3. \/ Shrinks(to_client[p], to_client'[p])
          \/ Gains(to_client[p], to_client'[p], Response \ V)
      BY <3>2 DEF V
    <3>4. Holds(to_client'[p], V) => Holds(to_client[p], V)
      BY <3>1, <3>3, QueueKeeps
    <3> QED
      BY <3>4 DEF V
  <2> QED
    BY <2>1 DEF Stays, Turn, ResponseTurn, AnswersAs, Answers, AnswerSort
<1> QED
  BY <1>1, <1>2, <1>3, <1>4, <1>5, <1>6, <1>7, <1>8, <1>9, <1>10

\* And no second copy of it.
LEMMA OnceStays ==
  ASSUME TypeOK, NEW p \in Peers, Once(p)
  PROVE  /\ EventStays(p) => EventOnce(p)'
         /\ QuitStays(p) => QuitOnce(p)'
         /\ NoticeStays(p) => NoticeOnce(p)'
         /\ AnswerStays(p) => AnswerOnce(p)'
         /\ AddressStays(p) => AddressOnce(p)'
         /\ ResponseStays(p) => ResponseOnce(p)'
<1>1. ASSUME EventStays(p)
      PROVE  EventOnce(p)'
  <2> DEFINE V == EventsOf(p)
  <2>1. /\ events \in Seq(Event) /\ AtMostOne(events, V)
        /\ Shrinks(events, events') \/ Gains(events, events', Event \ V)
    BY <1>1 DEF EventStays, TypeOK, Once, EventOnce
  <2>2. AtMostOne(events', V)
    <3> HIDE DEF V
    <3> QED
      BY <2>1, QueueKeeps
  <2> QED
    BY <2>2 DEF EventOnce, EventsOf
<1>2. ASSUME QuitStays(p)
      PROVE  QuitOnce(p)'
  <2> DEFINE V == QuitsOf(p)
  <2>1. ASSUME NEW r \in Rooms
        PROVE  /\ Holds(chat_events'[r], V) => Holds(chat_events[r], V)
               /\ AtMostOne(chat_events'[r], V)
    <3>1. /\ chat_events[r] \in Seq(Event) /\ AtMostOne(chat_events[r], V)
          /\ \/ Shrinks(chat_events[r], chat_events'[r])
             \/ Gains(chat_events[r], chat_events'[r], Event \ V)
      BY <1>2 DEF QuitStays, TypeOK, Once, QuitOnce
    <3> HIDE DEF V
    <3> QED
      BY <3>1, QueueKeeps
  <2>2. \A r, q \in Rooms : Holds(chat_events[r], V) /\ Holds(chat_events[q], V) => r = q
    BY DEF Once, QuitOnce, QuitWaits
  <2>3. /\ \A r \in Rooms : AtMostOne(chat_events'[r], V)
        /\ \A r, q \in Rooms : Holds(chat_events'[r], V) /\ Holds(chat_events'[q], V) => r = q
    BY <2>1, <2>2
  <2> QED
    BY <2>3 DEF QuitOnce, QuitWaits, QuitsOf
<1>3. ASSUME NoticeStays(p)
      PROVE  NoticeOnce(p)'
  BY <1>3, QueueKeeps DEF NoticeStays, TypeOK, Once, NoticeOnce
<1>4. AnswerStays(p) => AnswerOnce(p)'
  <2>1. Len(<<>>) = 0
    OBVIOUS
  <2> QED
    BY <2>1 DEF AnswerStays, Once, AnswerOnce
<1>5. AddressStays(p) => AddressOnce(p)'
  <2>1. Len(<<>>) = 0
    OBVIOUS
  <2> QED
    BY <2>1 DEF AddressStays, Once, AddressOnce
<1>6. ASSUME ResponseStays(p)
      PROVE  ResponseOnce(p)'
  <2> DEFINE V == Answers
  <2>1. /\ to_client[p] \in Seq(Response) /\ AtMostOne(to_client[p], V)
        /\ \/ Shrinks(to_client[p], to_client'[p])
           \/ Gains(to_client[p], to_client'[p], Response \ V)
    BY <1>6 DEF ResponseStays, TypeOK, Once, ResponseOnce
  <2>2. AtMostOne(to_client'[p], V)
    <3> HIDE DEF V
    <3> QED
      BY <2>1, QueueKeeps
  <2> QED
    BY <2>2 DEF ResponseOnce, Answers
<1> QED
  BY <1>1, <1>2, <1>3, <1>4, <1>5, <1>6

\* No place gains a turn, and what the turn is tied to stays.
LEMMA TurnStays ==
  ASSUME NEW p \in Peers, OneTurn(p), TurnFits(p),
         \A x \in Places : Stays(p, x),
         \A x \in Places : \A s \in Sorts : Turn(p, x, s) /\ Fits(p, s) => Fits(p, s)'
  PROVE  OneTurn(p)' /\ TurnFits(p)'
<1>1. \A x \in Places : \A s \in Sorts : Turn(p, x, s)' => Turn(p, x, s)
  BY DEF Stays
<1>2. ASSUME NEW x \in Places, NEW s \in Sorts, Turn(p, x, s)'
      PROVE  OnlyTurn(p, x, s)' /\ Fits(p, s)'
  <2>1. OnlyTurn(p, x, s) /\ Fits(p, s)
    BY <1>1, <1>2 DEF OneTurn, TurnFits
  <2>2. Fits(p, s)'
    BY <1>1, <1>2, <2>1
  <2>3. \A y \in Places : \A t \in Sorts : Turn(p, y, t)' => y = x /\ t = s
    BY <1>1, <2>1 DEF OnlyTurn
  <2> QED
    BY <2>2, <2>3 DEF OnlyTurn, Places, Sorts
<1> QED
  BY <1>2 DEF OneTurn, TurnFits, Places, Sorts

\* The turn goes from place x to place y.
LEMMA TurnMoves ==
  ASSUME NEW p \in Peers, OneTurn(p),
         NEW x \in Places, NEW s \in Sorts, Turn(p, x, s),
         NEW y \in Places, NEW t \in Sorts,
         \A z \in Places \ {x, y} : Stays(p, z),
         \A u \in Sorts : Turn(p, x, u)' => x = y,
         \A u \in Sorts : Turn(p, y, u)' => u = t,
         Fits(p, t)'
  PROVE  OneTurn(p)' /\ TurnFits(p)'
<1>1. \A z \in Places : \A u \in Sorts : Turn(p, z, u) => z = x /\ u = s
  BY DEF OneTurn, OnlyTurn
<1>2. ASSUME NEW z \in Places, NEW u \in Sorts, Turn(p, z, u)'
      PROVE  z = y /\ u = t
  BY <1>1, <1>2 DEF Stays
<1>3. \A z \in Places : \A u \in Sorts : Turn(p, z, u)' => OnlyTurn(p, z, u)'
  <2>1. \A z \in Places : \A u \in Sorts : Turn(p, z, u)' => z = y /\ u = t
    BY <1>2
  <2> QED
    BY <2>1 DEF OnlyTurn, Places, Sorts
<1>4. \A z \in Places : \A u \in Sorts : Turn(p, z, u)' => Fits(p, u)'
  BY <1>2
<1> QED
  BY <1>3, <1>4 DEF OneTurn, TurnFits, Places, Sorts

\* Nor a second opening.
LEMMA OpeningsStay ==
  ASSUME TypeOK, NEW p \in Peers,
         \/ Shrinks(to_client[p], to_client'[p])
         \/ Gains(to_client[p], to_client'[p], Response \ Openings)
  PROVE  /\ Holds(to_client[p], Openings)' => Holds(to_client[p], Openings)
         /\ AtMostOne(to_client[p], Openings) => AtMostOne(to_client[p], Openings)'
<1> DEFINE V == Openings
<1>1. /\ to_client[p] \in Seq(Response)
      /\ \/ Shrinks(to_client[p], to_client'[p])
         \/ Gains(to_client[p], to_client'[p], Response \ V)
  BY DEF TypeOK
<1>2. /\ Holds(to_client'[p], V) => Holds(to_client[p], V)
      /\ AtMostOne(to_client[p], V) => AtMostOne(to_client'[p], V)
  <2> HIDE DEF V
  <2> QED
    BY <1>1, QueueKeeps
<1> QED
  BY <1>2 DEF Openings

\* Nothing that is quiet gains p a turn.
LEMMA QuietStays ==
  ASSUME TypeOK, NEW p \in Peers, Quiet(p)
  PROVE  /\ \A x \in Places : Stays(p, x)
         /\ StartStays(p) /\ UserStays(p) /\ FrameStays(p) /\ SendStays(p)
         /\ EventStays(p) /\ QuitStays(p) /\ NoticeStays(p) /\ AnswerStays(p)
         /\ AddressStays(p) /\ ResponseStays(p)
<1>1. /\ StartStays(p) /\ UserStays(p) /\ FrameStays(p) /\ SendStays(p) /\ EventStays(p)
      /\ QuitStays(p) /\ NoticeStays(p) /\ AnswerStays(p) /\ AddressStays(p)
  BY DEF Quiet, ProgramQuiet, ReaderQuiet, WriterQuiet, StartStays, UserStays, FrameStays,
     SendStays, AnswerStays, AddressStays
<1>2. ResponseStays(p)
  BY DEF Quiet, WriterQuiet, ResponseStays, Gains
<1> QED
  BY <1>1, <1>2, PlacesStay DEF Places

\* A step that is not about p's turn keeps the invariant for p.
LEMMA QuietKeeps ==
  ASSUME TypeOK, NEW p \in Peers, HandInv(p), Quiet(p)
  PROVE  HandInv(p)'
<1>1. /\ StartStays(p) /\ UserStays(p) /\ FrameStays(p) /\ SendStays(p) /\ EventStays(p)
      /\ QuitStays(p) /\ NoticeStays(p) /\ AnswerStays(p) /\ AddressStays(p)
  BY QuietStays
<1>2. /\ ResponseStays(p)
      /\ \/ Shrinks(to_client[p], to_client'[p])
         \/ Gains(to_client[p], to_client'[p], Response \ Openings)
  BY QuietStays DEF Quiet, WriterQuiet, Gains
<1>3. \A x \in Places : Stays(p, x)
  BY QuietStays
<1>4. /\ Holds(to_client[p], Openings)' => Holds(to_client[p], Openings)
      /\ AtMostOne(to_client[p], Openings)'
  BY <1>2, OpeningsStay DEF HandInv, Once, OpeningOnce
<1>5. /\ subscriptions'[p] # <<>> => subscriptions[p] # <<>>
      /\ Len(subscriptions'[p]) <= 1
      /\ \A i \in DOMAIN subscriptions'[p] :
           /\ i \in DOMAIN subscriptions[p]
           /\ subscriptions'[p][i].receiver.room = subscriptions[p][i].receiver.room
           /\ subscriptions'[p][i].response = subscriptions[p][i].response
  <2>1. Len(<<>>) = 0 /\ DOMAIN <<>> = {}
    OBVIOUS
  <2> QED
    BY <2>1 DEF Quiet, WriterQuiet, HandInv, Once, OpeningOnce
<1>6. /\ OpeningWaits(p)' => OpeningWaits(p)
      /\ step'[p] = "readsync" => step[p] = "readsync"
      /\ Entering(p)' => Entering(p)
  BY <1>4, <1>5 DEF Quiet, ProgramQuiet, OpeningWaits, Entering
<1>7. /\ AddressHeld(p)' => AddressHeld(p) /\ chatroom_sender'[p] = chatroom_sender[p]
      /\ read_pc'[p] = "running" =>
           /\ read_pc[p] = "running"
           /\ AddressHeld(p) => AddressHeld(p)'
  BY DEF Quiet, ReaderQuiet, AddressHeld
<1>8. OneTurn(p)' /\ TurnFits(p)'
  <2>1. \A s \in Sorts : Fits(p, s) => Fits(p, s)'
    BY <1>6, <1>7 DEF Quiet, MapsQuiet, Fits, Standing
  <2> QED
    BY <1>3, <2>1, TurnStays DEF HandInv
<1>9. Once(p)'
  <2>1. FramesOnce(p)'
    BY <1>1 DEF FrameStays, HandInv, Once, FramesOnce
  <2>2. OpeningOnce(p)'
    BY <1>4, <1>5, <1>6 DEF HandInv, Once, OpeningOnce
  <2> QED
    BY <1>1, <1>2, <2>1, <2>2, OnceStays DEF Once, HandInv
<1>10. Shape(p)'
  <2>1. (read_pc[p] = "idle")' <=> (page[p] = "Unstarted")'
    BY DEF Quiet, ProgramQuiet, ReaderQuiet, HandInv, Shape
  <2>2. (page[p] = "Unstarted" => to_server[p] = <<>>)'
    BY DEF Quiet, ProgramQuiet, ReaderQuiet, HandInv, Shape
  <2>3. (step[p] # "response" => ClientOpen(p))'
    BY DEF Quiet, ProgramQuiet, HandInv, Shape, ClientOpen
  <2>4. (Entering(p) => step[p] # "request")'
    BY <1>6 DEF Quiet, ProgramQuiet, HandInv, Shape
  <2>5. (Entering(p) /\ read_pc[p] = "running" => to_server[p] = <<>>)'
    BY <1>1, <1>6 DEF FrameStays, HandInv, Shape
  <2>6. (read_pc[p] = "running" /\ ~AddressHeld(p) =>
           \A i \in DOMAIN to_server[p] : to_server[p][i].kind # "Message")'
    BY <1>1, <1>7 DEF FrameStays, HandInv, Shape
  <2>7. SendShape(p)'
    BY DEF Quiet, ReaderQuiet, HandInv, Shape, SendShape, Suspended
  <2>8. (\A i \in DOMAIN main_responses[p] : main_responses[p][i].kind \in AnswerKinds)'
    <3>1. DOMAIN <<>> = {}
      OBVIOUS
    <3>2. \A i \in DOMAIN main_responses'[p] : main_responses'[p][i].kind \in AnswerKinds
      BY <3>1 DEF Quiet, WriterQuiet, HandInv, Shape
    <3> QED
      BY <3>2 DEF AnswerKinds
  <2>9. (\A i \in DOMAIN subscriptions[p] : subscriptions[p][i].response.kind \in JoinedKinds)'
    BY <1>5 DEF HandInv, Shape, JoinedKinds
  <2> QED
    BY <2>1, <2>2, <2>3, <2>4, <2>5, <2>6, <2>7, <2>8, <2>9 DEF Shape
<1>11. Wired(p)'
  <2> SUFFICES ASSUME p \in clients' PROVE Wired(p)'
    BY DEF Wired
  <2>1. p \in clients /\ chatroom_broker_id'[p] = chatroom_broker_id[p]
    BY DEF Quiet, MapsQuiet
  <2>2. (AddressHeld(p) => chatroom_sender[p] = chatroom_broker_id[p])'
    BY <1>7, <2>1 DEF HandInv, Wired
  <2>3. (\A i \in DOMAIN chatroom_connection[p] :
           chatroom_connection[p][i] = chatroom_broker_id[p])'
    <3>1. DOMAIN <<>> = {}
      OBVIOUS
    <3> QED
      BY <2>1, <3>1 DEF Quiet, ReaderQuiet, HandInv, Wired
  <2>4. (\A i \in DOMAIN subscriptions[p] :
           subscriptions[p][i].receiver.room = chatroom_broker_id[p])'
    BY <1>5, <2>1 DEF HandInv, Wired
  <2>5. (Suspended(p) /\ Head(outgoing[p]).to # NoRoom =>
           Head(outgoing[p]).to = chatroom_broker_id[p])'
    BY <2>1 DEF Quiet, ReaderQuiet, HandInv, Wired, Suspended
  <2>6. (Subscribed(p) /\ write_pc[p] = "running" =>
           chat_receiver[p].room = chatroom_broker_id[p])'
    <3>1. Subscribed(p)' => Subscribed(p)
      BY <1>4 DEF Quiet, ProgramQuiet, Subscribed
    <3> QED
      BY <2>1, <3>1 DEF Quiet, WriterQuiet, HandInv, Wired
  <2> QED
    BY <2>2, <2>3, <2>4, <2>5, <2>6 DEF Wired
<1> QED
  BY <1>8, <1>9, <1>10, <1>11 DEF HandInv

\* What is the same is quiet.
LEMMA SameQuiet ==
  ASSUME TypeOK, NEW p \in Peers
  PROVE  /\ UNCHANGED <<page[p], step[p]>> => ProgramQuiet(p)
         /\ UNCHANGED <<read_pc[p], chatroom_sender[p], outgoing[p], chatroom_connection[p],
                        to_server[p]>> => ReaderQuiet(p)
         /\ UNCHANGED <<to_client[p], write_pc[p], chat_receiver[p], main_responses[p],
                        subscriptions[p]>> => WriterQuiet(p)
         /\ UNCHANGED <<clients, username[p], chatroom_broker_id[p]>> => MapsQuiet(p)
         /\ UNCHANGED events => EventStays(p)
         /\ UNCHANGED chat_events => QuitStays(p)
         /\ UNCHANGED client_exit => NoticeStays(p)
  BY DEF ProgramQuiet, ReaderQuiet, WriterQuiet, MapsQuiet, EventStays, QuitStays,
     NoticeStays, Shrinks

-----------------------------------------------------------------------------
(* The client program                                                      *)

\* What a program that reads a response leaves alone.
besides_program ==
  <<to_server, read_vars, write_vars, registry, room_pc, channels>>

\* The places such a program has no hand in.
LEMMA ReadingStays ==
  ASSUME TypeOK, NEW p \in Peers, to_client[p] # <<>>,
         to_client' = [to_client EXCEPT ![p] = Tail(@)], UNCHANGED besides_program,
         page[p] # "Unstarted" => page'[p] # "Unstarted"
  PROVE  /\ to_client'[p] = Tail(to_client[p])
         /\ \A x \in Places \ {"user"} : Stays(p, x)
         /\ ResponseStays(p)
         /\ Once(p) /\ OpeningOnce(p)' => Once(p)'
<1> USE DEF besides_program, read_vars, write_vars, registry, client_vars, channels,
            peer_channels
<1>1. to_client'[p] = Tail(to_client[p])
  BY DEF TypeOK
<1>2. /\ StartStays(p) /\ FrameStays(p) /\ SendStays(p) /\ EventStays(p) /\ QuitStays(p)
      /\ NoticeStays(p) /\ AnswerStays(p) /\ AddressStays(p) /\ ResponseStays(p)
  BY <1>1 DEF StartStays, FrameStays, SendStays, EventStays, QuitStays, NoticeStays,
     AnswerStays, AddressStays, ResponseStays, Shrinks
<1>3. \A x \in Places \ {"user"} : Stays(p, x)
  BY <1>2, PlacesStay DEF Places
<1>4. FramesOnce(p) => FramesOnce(p)'
  BY DEF FramesOnce
<1>5. Once(p) /\ OpeningOnce(p)' => Once(p)'
  BY <1>2, <1>4, OnceStays DEF Once
<1> QED
  BY <1>1, <1>2, <1>3, <1>5

\* The program shows another page, or awaits something else.
LEMMA ProgramShows ==
  ASSUME TypeOK, NEW p \in Peers, HandInv(p), ClientOpen(p), ClientOpen(p)',
         to_client[p] # <<>>, to_client' = [to_client EXCEPT ![p] = Tail(@)],
         UNCHANGED besides_program, OneTurn(p)', TurnFits(p)',
         step'[p] \in {"request", "readsync"} => ~OpeningWaits(p)',
         step'[p] = "readsync" => Entering(p),
         Subscribed(p)' => Subscribed(p)
  PROVE  HandInv(p)'
<1> USE DEF besides_program, read_vars, write_vars, registry, client_vars, channels,
            peer_channels
<1>1. page[p] # "Unstarted" /\ page'[p] # "Unstarted"
  BY DEF ClientOpen, OpenPages
<1>2. /\ Holds(to_client[p], Openings)' => Holds(to_client[p], Openings)
      /\ AtMostOne(to_client[p], Openings)'
      /\ ResponseStays(p)
  BY <1>1, ReadingStays, OpeningsStay DEF HandInv, Once, OpeningOnce, ResponseStays, Shrinks, TypeOK
<1>3. OpeningWaits(p)' => OpeningWaits(p)
  BY <1>2 DEF OpeningWaits
<1>4. Entering(p)' => Entering(p)
  BY <1>3 DEF Entering
<1>5. OpeningOnce(p)'
  BY <1>2 DEF HandInv, Once, OpeningOnce
<1>6. Once(p)'
  BY <1>1, <1>5, ReadingStays DEF HandInv
<1>7. Shape(p)'
  <2>1. /\ (read_pc[p] = "idle")' <=> (page[p] = "Unstarted")'
        /\ (page[p] = "Unstarted" => to_server[p] = <<>>)'
        /\ (step[p] # "response" => ClientOpen(p))'
    BY <1>1 DEF HandInv, Shape
  <2>2. (Entering(p) => step[p] # "request")'
    BY DEF Entering
  <2>3. (Entering(p) /\ read_pc[p] = "running" => to_server[p] = <<>>)'
    BY <1>4 DEF HandInv, Shape
  <2>4. (read_pc[p] = "running" /\ ~AddressHeld(p) =>
           \A i \in DOMAIN to_server[p] : to_server[p][i].kind # "Message")'
    BY DEF HandInv, Shape, AddressHeld
  <2>5. SendShape(p)'
    BY DEF HandInv, Shape, SendShape, Suspended
  <2>6. (\A i \in DOMAIN main_responses[p] : main_responses[p][i].kind \in AnswerKinds)'
    BY DEF HandInv, Shape, AnswerKinds
  <2>7. (\A i \in DOMAIN subscriptions[p] : subscriptions[p][i].response.kind \in JoinedKinds)'
    BY DEF HandInv, Shape, JoinedKinds
  <2> QED
    BY <2>1, <2>2, <2>3, <2>4, <2>5, <2>6, <2>7 DEF Shape
<1>8. Wired(p)'
  BY DEF HandInv, Wired, AddressHeld, Suspended
<1> QED
  BY <1>6, <1>7, <1>8 DEF HandInv

\* The turn goes from an answer on the socket to the user, or to the program
\* that still awaits the chatroom's subscription.
LEMMA ResponseMoves ==
  ASSUME TypeOK, NEW p \in Peers, HandInv(p), ClientOpen(p), ClientOpen(p)',
         to_client[p] # <<>>, to_client' = [to_client EXCEPT ![p] = Tail(@)],
         UNCHANGED besides_program,
         NEW s \in Sorts, Head(to_client[p]) \in AnswersAs(s),
         step'[p] \in {"request", "subscription"}, UserSort(p)' = s,
         step'[p] = "request" => page'[p] # "Chatroom" \/ step[p] = "readsync"
  PROVE  HandInv(p)'
<1> USE DEF besides_program, read_vars, write_vars, registry, client_vars, channels,
            peer_channels
<1>1. page[p] # "Unstarted" /\ page'[p] # "Unstarted"
  BY DEF ClientOpen, OpenPages
<1>2. /\ to_client'[p] = Tail(to_client[p]) /\ to_client[p] \in Seq(Response)
      /\ \A x \in Places \ {"user"} : Stays(p, x)
  BY <1>1, ReadingStays DEF TypeOK
<1>3. Turn(p, "response", s)
  <2> DEFINE V == AnswersAs(s)
  <2>1. Holds(to_client[p], V)
    <3> HIDE DEF V
    <3> QED
      BY <1>2, HoldsTail DEF V
  <2> QED
    BY <2>1 DEF Turn, ResponseTurn
<1>4. \A u \in Sorts : ~Turn(p, "response", u)'
  <2> DEFINE V == Answers
  <2>1. Head(to_client[p]) \in V /\ AtMostOne(to_client[p], V)
    BY ResponseIsTurn DEF HandInv, Once, ResponseOnce
  <2>2. ~Holds(to_client'[p], V)
    <3> HIDE DEF V
    <3> QED
      BY <1>2, <2>1, HoldsTail
  <2>3. \A u \in Sorts : ~Holds(to_client'[p], AnswersAs(u))
    BY <2>2, ResponseIsTurn DEF Holds
  <2> QED
    BY <2>3 DEF Turn, ResponseTurn, AnswersAs, Answers, AnswerSort
<1>5. \A u \in Sorts : Turn(p, "user", u)' => u = s
  BY DEF Turn, UserTurn
<1>6. /\ Holds(to_client[p], Openings)' => Holds(to_client[p], Openings)
      /\ OpeningWaits(p)' => OpeningWaits(p)
      /\ Entering(p)' => Entering(p)
  <2>1. Holds(to_client[p], Openings)' => Holds(to_client[p], Openings)
    BY <1>2, OpeningsStay DEF Shrinks
  <2> QED
    BY <2>1 DEF OpeningWaits, Entering
<1>7. Fits(p, s)
  BY <1>3 DEF HandInv, TurnFits, Places
<1>8. Fits(p, s)'
  BY <1>6, <1>7 DEF Fits, AddressHeld, Standing
<1>9. OneTurn(p)' /\ TurnFits(p)'
  BY <1>2, <1>3, <1>4, <1>5, <1>8, TurnMoves DEF HandInv, Places
<1>10. step'[p] = "request" => ~OpeningWaits(p)'
  <2>1. CASE step[p] = "readsync"
    BY <1>6, <2>1 DEF HandInv, Once, OpeningOnce
  <2>2. CASE step'[p] = "request" /\ page'[p] # "Chatroom"
    <3>1. s \in {"unnamed", "lobby"}
      BY <2>2 DEF UserSort
    <3> QED
      BY <1>6, <1>7, <3>1 DEF Fits, Entering
  <2> QED
    BY <2>1, <2>2
<1>11. Subscribed(p)' => Subscribed(p)
  BY <1>6 DEF Subscribed
<1> QED
  BY <1>9, <1>10, <1>11, ProgramShows

\* A program reads a response and goes on.
LEMMA ResponseKeeps ==
  ASSUME TypeOK, NEW p \in Peers, HandInv(p),
         \/ AskUsername(p) \/ ShowLobby(p) \/ AwaitConfirmation(p)
         \/ EnterChatroom(p) \/ LeaveChatroom(p)
  PROVE  HandInv(p)'
<1> DEFINE m == Head(to_client[p])
<1>1. /\ ClientOpen(p) /\ to_client[p] # <<>>
      /\ to_client' = [to_client EXCEPT ![p] = Tail(@)] /\ UNCHANGED besides_program
      /\ m.kind \in Accepts(p)
  BY DEF AskUsername, ShowLobby, AwaitConfirmation, EnterChatroom, LeaveChatroom, Reading,
     Reads, UIOnly, besides_program
<1>2. m \in Response
  BY <1>1, ReceiveType DEF TypeOK
<1>3. ASSUME NEW new_page \in OpenPages, NEW new_step, Show(p, new_page, new_step)
      PROVE  page'[p] = new_page /\ step'[p] = new_step /\ ClientOpen(p)'
  BY <1>3 DEF Show, TypeOK, ClientOpen, OpenPages
<1>4. ASSUME NEW s \in Sorts, m.kind \in AnswerKinds, AnswerSort(m.kind) = s
      PROVE  m \in AnswersAs(s)
  BY <1>2, <1>4 DEF AnswersAs, Answers
<1>5. {"unnamed", "lobby", "room"} \subseteq Sorts
  BY DEF Sorts
<1>6. CASE AskUsername(p)
  <2>1. m.kind \in AnswerKinds /\ AnswerSort(m.kind) = "unnamed"
    BY <1>6 DEF AskUsername, Reading, AnswerKinds, PlainKinds, JoinedKinds, AnswerSort
  <2>2. page'[p] = "UsernamePage" /\ step'[p] = "request" /\ ClientOpen(p)'
    BY <1>3, <1>6 DEF AskUsername, OpenPages
  <2>3. UserSort(p)' = "unnamed"
    BY <2>2 DEF UserSort
  <2> QED
    BY <1>1, <1>4, <1>5, <2>1, <2>2, <2>3, ResponseMoves
<1>7. CASE ShowLobby(p)
  <2>1. m.kind \in AnswerKinds /\ AnswerSort(m.kind) = "lobby"
    BY <1>7 DEF ShowLobby, Reading, AnswerKinds, LobbyKinds, JoinedKinds, AnswerSort
  <2>2. page'[p] = "LobbyPage" /\ step'[p] = "request" /\ ClientOpen(p)'
    BY <1>3, <1>7 DEF ShowLobby, OpenPages
  <2>3. UserSort(p)' = "lobby"
    BY <2>2 DEF UserSort
  <2> QED
    BY <1>1, <1>4, <1>5, <2>1, <2>2, <2>3, ResponseMoves
<1>8. CASE LeaveChatroom(p)
  <2>1. m.kind \in AnswerKinds /\ AnswerSort(m.kind) = "lobby"
    BY <1>8 DEF LeaveChatroom, Reading, AnswerKinds, PlainKinds, JoinedKinds, AnswerSort
  <2>2. page'[p] = "QuitChatroom" /\ step'[p] = "request" /\ ClientOpen(p)'
    BY <1>3, <1>8 DEF LeaveChatroom, OpenPages
  <2>3. UserSort(p)' = "lobby"
    BY <2>2 DEF UserSort
  <2> QED
    BY <1>1, <1>4, <1>5, <2>1, <2>2, <2>3, ResponseMoves
<1>9. CASE m.kind = "ReadSync" /\ (AwaitConfirmation(p) \/ EnterChatroom(p))
  <2>1. m.kind \in AnswerKinds /\ AnswerSort(m.kind) = "room"
    BY <1>9 DEF AnswerKinds, PlainKinds, JoinedKinds, AnswerSort
  <2>2. /\ ClientOpen(p)'
        /\ \/ page'[p] = "LobbyPage" /\ step'[p] = "subscription"
           \/ /\ page'[p] = "Chatroom" /\ step'[p] = "request"
              /\ step[p] \in {"readsync", "subscription"}
    BY <1>3, <1>9 DEF AwaitConfirmation, EnterChatroom, OpenPages
  <2>3. UserSort(p)' = "room"
    BY <2>2 DEF UserSort
  <2>4. step[p] # "subscription"
    BY <1>1, <1>9 DEF Accepts, JoinedKinds
  <2> QED
    BY <1>1, <1>4, <1>5, <2>1, <2>2, <2>3, <2>4, ResponseMoves
<1>10. CASE m.kind # "ReadSync" /\ (AwaitConfirmation(p) \/ EnterChatroom(p))
  <2>1. m.kind \in JoinedKinds /\ m \in Openings /\ m \notin Answers
    BY <1>2, <1>10 DEF AwaitConfirmation, EnterChatroom, Reading, Openings, Answers,
       AnswerKinds, JoinedKinds, LobbyKinds
  <2>2. \/ /\ step[p] = "response" /\ page'[p] = "LobbyPage" /\ step'[p] = "readsync"
        \/ /\ step[p] = "subscription" /\ page'[p] = "Chatroom" /\ step'[p] = "request"
    <3>1. step[p] # "readsync"
      BY <1>1, <1>10 DEF Accepts
    <3> QED
      BY <1>3, <1>10, <3>1 DEF AwaitConfirmation, EnterChatroom, OpenPages
  <2>3. ClientOpen(p)'
    BY <2>2 DEF ClientOpen, OpenPages
  <2>4. page[p] # "Unstarted" /\ page'[p] # "Unstarted"
    BY <1>1, <2>2 DEF ClientOpen, OpenPages
  <2>5. /\ to_client'[p] = Tail(to_client[p]) /\ to_client[p] \in Seq(Response)
        /\ \A x \in Places \ {"user"} : Stays(p, x)
    BY <1>1, <2>4, ReadingStays DEF TypeOK
  <2>6. /\ Holds(to_client[p], Openings) /\ ~Holds(to_client[p], Openings)'
        /\ subscriptions[p] = <<>>
    <3> DEFINE V == Openings
    <3>1. AtMostOne(to_client[p], V)
      BY DEF HandInv, Once, OpeningOnce
    <3>2. Holds(to_client[p], V) /\ ~Holds(to_client'[p], V)
      <4> HIDE DEF V
      <4> QED
        BY <1>1, <2>1, <2>5, <3>1, HoldsTail DEF V
    <3> QED
      BY <3>2 DEF HandInv, Once, OpeningOnce, Openings
  <2>7. Entering(p) /\ Subscribed(p) /\ ~OpeningWaits(p)'
    BY <1>1, <2>6 DEF Entering, Subscribed, OpeningWaits, besides_program, channels, peer_channels
  <2>8. Stays(p, "user")
    BY <1>1, <2>2 DEF Stays, Turn, UserTurn, UserSort
  <2>9. \A s \in Sorts : Fits(p, s) => Fits(p, s)'
    BY <1>1, <2>7 DEF Fits, AddressHeld, Standing, besides_program, read_vars, registry, client_vars
  <2>10. OneTurn(p)' /\ TurnFits(p)'
    BY <2>5, <2>8, <2>9, TurnStays DEF HandInv
  <2> QED
    BY <1>1, <2>3, <2>7, <2>10, ProgramShows
<1> QED
  BY <1>6, <1>7, <1>8, <1>9, <1>10

\* A frame on its way is the turn.
LEMMA FrameIsTurn ==
  ASSUME NEW p \in Peers, read_pc[p] = "running", FramesOnce(p),
         \A s \in Sorts : ~FrameTurn(p, s),
         to_server[p] \in Seq(Frame)
  PROVE  \A i \in DOMAIN to_server[p] : to_server[p][i].kind = "Message"
<1>1. to_server[p] = <<>> \/ LastOf(to_server[p]).kind = "Message"
  BY SortsOf DEF FrameTurn, Sorts
<1>2. CASE to_server[p] = <<>>
  BY <1>2
<1>3. CASE LastOf(to_server[p]).kind = "Message"
  BY <1>3 DEF FramesOnce, LastOf
<1> QED
  BY <1>1, <1>2, <1>3

\* The user has the turn, so nobody else has it.
LEMMA UserAlone ==
  ASSUME TypeOK, NEW p \in Peers, HandInv(p), step[p] = "request"
  PROVE  /\ ClientOpen(p) /\ Turn(p, "user", UserSort(p)) /\ Fits(p, UserSort(p))
         /\ ~Entering(p)
         /\ \A x \in Places \ {"user"} : \A s \in Sorts : ~Turn(p, x, s)
         /\ read_pc[p] = "running" =>
              \A i \in DOMAIN to_server[p] : to_server[p][i].kind = "Message"
<1>1. ClientOpen(p) /\ ~Entering(p)
  BY DEF HandInv, Shape
<1>2. UserSort(p) \in Sorts /\ Turn(p, "user", UserSort(p))
  BY <1>1, SortsOf DEF Turn, UserTurn
<1>3. Fits(p, UserSort(p)) /\ OnlyTurn(p, "user", UserSort(p))
  BY <1>2 DEF HandInv, OneTurn, TurnFits, Places
<1>4. \A x \in Places \ {"user"} : \A s \in Sorts : ~Turn(p, x, s)
  BY <1>3 DEF OnlyTurn
<1>5. \A s \in Sorts : ~FrameTurn(p, s)
  BY <1>4 DEF Turn, Places
<1>6. read_pc[p] = "running" =>
        \A i \in DOMAIN to_server[p] : to_server[p][i].kind = "Message"
  BY <1>5, FrameIsTurn DEF HandInv, Once, TypeOK
<1> QED
  BY <1>1, <1>2, <1>3, <1>4, <1>6

\* What a program that writes a frame leaves alone.
besides_request ==
  <<to_client, read_vars, write_vars, registry, room_pc, channels>>

\* A program with a user writes a frame.
LEMMA FrameWritten ==
  ASSUME TypeOK, NEW p \in Peers, HandInv(p), step[p] = "request",
         NEW frame \in Frame, to_server' = Put(to_server, p, frame),
         UNCHANGED <<page, besides_request>>,
         step'[p] \in {"request", "response"},
         frame.kind = "Message" /\ read_pc[p] = "running" => AddressHeld(p),
         OneTurn(p)', TurnFits(p)'
  PROVE  HandInv(p)'
<1> USE DEF besides_request, read_vars, write_vars, registry, client_vars, channels,
            peer_channels
<1>1. to_server[p] \in Seq(Frame) /\ to_server'[p] = Append(to_server[p], frame)
  BY DEF TypeOK, Put
<1>2. /\ Len(to_server'[p]) = Len(to_server[p]) + 1
      /\ \A i \in DOMAIN to_server'[p] :
           \/ i \in DOMAIN to_server[p] /\ to_server'[p][i] = to_server[p][i]
           \/ i = Len(to_server[p]) + 1 /\ to_server'[p][i] = frame
  BY <1>1, LastAppend
<1>3. /\ ClientOpen(p) /\ ~Entering(p)
      /\ read_pc[p] = "running" =>
           \A i \in DOMAIN to_server[p] : to_server[p][i].kind = "Message"
  BY UserAlone
<1>4. page[p] # "Unstarted"
  BY <1>3 DEF ClientOpen, OpenPages
<1>5. ~Entering(p)' /\ ~OpeningWaits(p)'
  BY <1>3 DEF Entering, OpeningWaits, Openings, JoinedKinds
<1>6. Once(p)'
  <2>1. FramesOnce(p)'
    BY <1>2, <1>3 DEF FramesOnce
  <2>2. /\ EventStays(p) /\ QuitStays(p) /\ NoticeStays(p) /\ AnswerStays(p)
        /\ AddressStays(p) /\ ResponseStays(p)
    BY DEF EventStays, QuitStays, NoticeStays, AnswerStays, AddressStays, ResponseStays,
       Shrinks
  <2>3. OpeningOnce(p)'
    <3>1. AtMostOne(to_client[p], Openings)'
      BY DEF HandInv, Once, OpeningOnce, Openings
    <3> QED
      BY <1>5, <3>1 DEF HandInv, Once, OpeningOnce, OpeningWaits
  <2> QED
    BY <2>1, <2>2, <2>3, OnceStays DEF HandInv, Once
<1>7. Shape(p)'
  <2>1. /\ (read_pc[p] = "idle")' <=> (page[p] = "Unstarted")'
        /\ (page[p] = "Unstarted" => to_server[p] = <<>>)'
    BY <1>4 DEF HandInv, Shape
  <2>2. (step[p] # "response" => ClientOpen(p))'
    BY <1>3 DEF ClientOpen
  <2>3. (read_pc[p] = "running" /\ ~AddressHeld(p) =>
           \A i \in DOMAIN to_server[p] : to_server[p][i].kind # "Message")'
    BY <1>2 DEF HandInv, Shape, AddressHeld
  <2>4. SendShape(p)'
    BY DEF HandInv, Shape, SendShape, Suspended
  <2>5. (\A i \in DOMAIN main_responses[p] : main_responses[p][i].kind \in AnswerKinds)'
    BY DEF HandInv, Shape, AnswerKinds
  <2>6. (\A i \in DOMAIN subscriptions[p] : subscriptions[p][i].response.kind \in JoinedKinds)'
    BY DEF HandInv, Shape, JoinedKinds
  <2> QED
    BY <1>5, <2>1, <2>2, <2>3, <2>4, <2>5, <2>6 DEF Shape
<1>8. Wired(p)'
  <2>1. Subscribed(p)' => Subscribed(p)
    BY <1>5 DEF Subscribed, Entering, OpeningWaits
  <2> QED
    BY <2>1 DEF HandInv, Wired, AddressHeld, Suspended
<1> QED
  BY <1>6, <1>7, <1>8 DEF HandInv

\* The turn goes from the user to a frame.
LEMMA RequestMoves ==
  ASSUME TypeOK, NEW p \in Peers, HandInv(p), step[p] = "request",
         NEW frame \in Frame, frame.kind # "Message", Request(p, frame),
         read_pc[p] = "running" => FrameSort(p, frame.kind) = UserSort(p)
  PROVE  HandInv(p)'
<1> USE DEF besides_request, read_vars, write_vars, registry, client_vars, channels,
            peer_channels
<1>1. /\ to_server' = Put(to_server, p, frame)
      /\ UNCHANGED <<page, besides_request>> /\ step'[p] = "response"
  BY DEF Request, UIOnly, TypeOK
<1>2. /\ to_server[p] \in Seq(Frame) /\ to_server'[p] = Append(to_server[p], frame)
      /\ LastOf(to_server'[p]) = frame
  BY <1>1, LastAppend DEF TypeOK, Put
<1>3. /\ ClientOpen(p) /\ Turn(p, "user", UserSort(p)) /\ Fits(p, UserSort(p))
      /\ ~Entering(p)
  BY UserAlone
<1>4. \A u \in Sorts : ~Turn(p, "user", u)'
  BY <1>1 DEF Turn, UserTurn
<1>5. \A u \in Sorts : Turn(p, "frame", u)' => u = UserSort(p)
  BY <1>1, <1>2 DEF Turn, FrameTurn, FrameSort, AddressHeld
<1>6. \A x \in Places \ {"user", "frame"} : Stays(p, x)
  <2>1. /\ StartStays(p) /\ SendStays(p) /\ EventStays(p) /\ QuitStays(p) /\ NoticeStays(p)
        /\ AnswerStays(p) /\ AddressStays(p) /\ ResponseStays(p)
    BY <1>1 DEF StartStays, SendStays, EventStays, QuitStays, NoticeStays,
       AnswerStays, AddressStays, ResponseStays, Shrinks
  <2> QED
    BY <2>1, PlacesStay DEF Places
<1>7. \A s : Fits(p, s) => Fits(p, s)'
  <2>1. ~Entering(p)'
    BY <1>1, <1>3 DEF Entering, OpeningWaits, Openings, JoinedKinds
  <2> QED
    BY <1>1, <2>1 DEF Fits, AddressHeld, Standing
<1>8. OneTurn(p)' /\ TurnFits(p)'
  <2>1. PICK s \in Sorts : s = UserSort(p)
    BY SortsOf
  <2>2. Turn(p, "user", s) /\ Fits(p, s)' /\ \A u \in Sorts : Turn(p, "frame", u)' => u = s
    BY <1>3, <1>5, <1>7, <2>1
  <2> QED
    BY <1>4, <1>6, <2>2, TurnMoves DEF HandInv, Places
<1> QED
  BY <1>1, <1>8, FrameWritten

\* A program writes a frame.
LEMMA RequestKeeps ==
  ASSUME TypeOK, NEW p \in Peers, HandInv(p),
         \/ \E u \in Choices[p] : RequestUsername(p, u)
         \/ \E n \in Names : RequestChatroom(p, "Create", n) \/ RequestChatroom(p, "Join", n)
         \/ RequestQuit(p) \/ QuitChatroom(p) \/ RefreshLobby(p) \/ SendMessage(p)
  PROVE  HandInv(p)'
<1>1. step[p] = "request"
  BY DEF RequestUsername, RequestChatroom, RequestQuit, QuitChatroom, RefreshLobby,
     SendMessage, Prompts
<1>2. /\ Fits(p, UserSort(p)) /\ ~Entering(p)
      /\ \A x \in Places \ {"user"} : \A s \in Sorts : ~Turn(p, x, s)
  BY <1>1, UserAlone
<1>3. /\ AddressHeld(p) => UserSort(p) = "room"
      /\ UserSort(p) = "room" /\ read_pc[p] = "running" => AddressHeld(p)
  BY <1>2 DEF Fits
<1>4. ASSUME NEW u \in Choices[p], RequestUsername(p, u)
      PROVE  HandInv(p)'
  <2> DEFINE frame == [kind |-> "Username", arg |-> u]
  <2>1. frame \in Frame /\ frame.kind = "Username" /\ Request(p, frame)
    BY <1>4, ChoicesAssumption DEF Frame, RequestUsername
  <2>2. UserSort(p) = "unnamed" /\ FrameSort(p, "Username") = "unnamed"
    BY <1>4 DEF RequestUsername, Prompts, UserSort, FrameSort
  <2> HIDE DEF frame
  <2> QED
    BY <1>1, <2>1, <2>2, RequestMoves
<1>5. ASSUME NEW kind \in {"Create", "Join"}, NEW n \in Names, RequestChatroom(p, kind, n)
      PROVE  HandInv(p)'
  <2> DEFINE frame == [kind |-> kind, arg |-> n]
  <2>1. frame \in Frame /\ frame.kind = kind /\ Request(p, frame)
    BY <1>5 DEF Frame, RequestChatroom
  <2>2. UserSort(p) = "lobby" /\ FrameSort(p, kind) = "lobby"
    BY <1>5 DEF RequestChatroom, Prompts, UserSort, FrameSort
  <2> HIDE DEF frame
  <2> QED
    BY <1>1, <2>1, <2>2, RequestMoves
<1>6. CASE RequestQuit(p) \/ QuitChatroom(p)
  <2> DEFINE frame == [kind |-> "Quit", arg |-> None]
  <2>1. frame \in Frame /\ frame.kind = "Quit" /\ Request(p, frame)
    BY <1>6 DEF Frame, RequestQuit, QuitChatroom
  <2>2. UserSort(p) \in {"lobby", "room"}
    BY <1>6 DEF RequestQuit, QuitChatroom, Prompts, UserSort
  <2>3. read_pc[p] = "running" => FrameSort(p, "Quit") = UserSort(p)
    BY <1>3, <2>2 DEF FrameSort
  <2> HIDE DEF frame
  <2> QED
    BY <1>1, <2>1, <2>3, RequestMoves
<1>7. CASE RefreshLobby(p)
  <2> DEFINE frame == [kind |-> "Lobby", arg |-> None]
  <2>1. frame \in Frame /\ frame.kind = "Lobby" /\ Request(p, frame)
    BY <1>7 DEF Frame, RefreshLobby
  <2>2. UserSort(p) = "lobby" /\ FrameSort(p, "Lobby") = "lobby"
    BY <1>7 DEF RefreshLobby, Prompts, UserSort, FrameSort
  <2> HIDE DEF frame
  <2> QED
    BY <1>1, <2>1, <2>2, RequestMoves
<1>8. CASE SendMessage(p)
  <2> USE DEF besides_request, read_vars, write_vars, registry, client_vars, channels,
              peer_channels
  <2> DEFINE frame == [kind |-> "Message", arg |-> sent[p] + 1]
  <2>1. /\ frame \in Frame /\ frame.kind = "Message"
        /\ to_server' = Put(to_server, p, frame)
        /\ UNCHANGED <<page, step, besides_request>>
    BY <1>8 DEF Frame, SendMessage, UIOnly, TypeOK
  <2>2. read_pc[p] = "running" => AddressHeld(p)
    BY <1>3, <1>8 DEF SendMessage, Prompts, UserSort
  <2> HIDE DEF frame
  <2>3. LastOf(to_server'[p]).kind = "Message"
    BY <2>1, LastAppend DEF TypeOK, Put
  <2>4. Stays(p, "frame")
    BY <2>3 DEF Stays, Turn, FrameTurn
  <2>5. \A x \in Places \ {"frame"} : Stays(p, x)
    <3>1. /\ StartStays(p) /\ UserStays(p) /\ SendStays(p) /\ EventStays(p) /\ QuitStays(p)
          /\ NoticeStays(p) /\ AnswerStays(p) /\ AddressStays(p) /\ ResponseStays(p)
      BY <2>1 DEF StartStays, UserStays, SendStays, EventStays, QuitStays, NoticeStays,
         AnswerStays, AddressStays, ResponseStays, Shrinks
    <3> QED
      BY <3>1, PlacesStay DEF Places
  <2>6. \A s \in Sorts : Fits(p, s) => Fits(p, s)'
    BY <2>1 DEF Fits, AddressHeld, Standing, Entering, OpeningWaits, Openings, JoinedKinds
  <2>7. OneTurn(p)' /\ TurnFits(p)'
    BY <2>4, <2>5, <2>6, TurnStays DEF HandInv
  <2> QED
    BY <1>1, <2>1, <2>2, <2>7, FrameWritten
<1> QED
  BY <1>4, <1>5, <1>6, <1>7, <1>8

\* A program shows a message, or ends.
LEMMA ProgramEnds ==
  ASSUME TypeOK, NEW p \in Peers, HandInv(p),
         \/ ShowMessage(p) \/ SayGoodbye(p) \/ UnexpectedResponse(p)
         \/ ConnectionFails(p) \/ Kill(p)
  PROVE  Quiet(p)
<1> USE DEF UIOnly, read_vars, write_vars, registry, client_vars, channels, peer_channels
<1>1. /\ UNCHANGED <<to_server, read_vars, write_vars, registry, channels>>
      /\ ClientOpen(p)
  BY DEF ShowMessage, SayGoodbye, UnexpectedResponse, ConnectionFails, Kill, Reading, Reads, End
<1>2. Shrinks(to_client[p], to_client'[p])
  BY DEF ShowMessage, SayGoodbye, UnexpectedResponse, ConnectionFails, Kill, Reading,
     Shrinks, TypeOK
<1>3. \/ page'[p] = page[p] /\ step'[p] = step[p]
      \/ page'[p] \in {"QuitLobbyPage", "Crashed", "Gone"} /\ step'[p] = "response"
  BY DEF ShowMessage, SayGoodbye, UnexpectedResponse, ConnectionFails, Kill, End, Show,
     ui_vars, TypeOK
<1>4. ProgramQuiet(p)
  BY <1>1, <1>3 DEF ProgramQuiet, ClientOpen, OpenPages
<1>5. WriterQuiet(p)
  BY <1>1, <1>2 DEF WriterQuiet
<1> QED
  BY <1>1, <1>4, <1>5, SameQuiet DEF Quiet

-----------------------------------------------------------------------------
(* The write task                                                          *)

\* The write task of q has no hand in the socket and the channels of others.
LEMMA WriterTouches ==
  ASSUME TypeOK, NEW q \in Peers, WriteNext(q), NEW p \in Peers \ {q}
  PROVE  UNCHANGED <<to_client[p], write_pc[p], chat_receiver[p], main_responses[p],
                     subscriptions[p]>>
<1>1. ASSUME EndWrite(q)
      PROVE  UNCHANGED <<write_pc[p], chat_receiver[p], main_responses[p], subscriptions[p]>>
  BY <1>1 DEF EndWrite, Empty, TypeOK
<1>2. CASE Shutdown(q)
  <2>1. UNCHANGED to_client[p]
    BY <1>2 DEF Shutdown, Write, Put, TypeOK
  <2> QED
    BY <1>1, <1>2, <2>1 DEF Shutdown
<1>3. CASE WriteFails(q)
  BY <1>1, <1>3 DEF WriteFails
<1>4. CASE MainResponse(q)
  BY <1>4 DEF MainResponse, Write, Put, TypeOK
<1>5. CASE Subscription(q)
  BY <1>5 DEF Subscription, Write, Put, TypeOK
<1>6. CASE ChatMessage(q)
  BY <1>6 DEF ChatMessage, Write, Put, TypeOK
<1>7. CASE Lagged(q)
  BY <1>7 DEF Lagged, TypeOK
<1> QED
  BY <1>2, <1>3, <1>4, <1>5, <1>6, <1>7 DEF WriteNext, BroadcastNext

\* The programs and write tasks of other clients are of no account.
LEMMA OthersQuiet ==
  ASSUME TypeOK, NEW p \in Peers, HandInv(p), NEW q \in Peers \ {p},
         WriteNext(q) \/ UserNext(q) \/ ProgramNext(q)
  PROVE  Quiet(p)
<1> DEFINE Same ==
      /\ UNCHANGED <<page[p], step[p], read_pc[p], chatroom_sender[p], outgoing[p],
                     chatroom_connection[p], to_server[p]>>
      /\ UNCHANGED <<to_client[p], write_pc[p], chat_receiver[p], main_responses[p],
                     subscriptions[p]>>
      /\ UNCHANGED <<clients, username[p], chatroom_broker_id[p]>>
      /\ UNCHANGED <<events, chat_events, client_exit>>
<1> USE DEF ui_vars, read_vars, registry, client_vars, channels, peer_channels
<1>1. CASE WriteNext(q)
  <2>1. UNCHANGED <<page, step, read_vars, chatroom_connection, to_server, registry,
                    events, chat_events, client_exit>>
    BY <1>1 DEF WriteNext, Shutdown, MainResponse, Subscription, BroadcastNext,
       ChatMessage, Lagged, WriteFails, WriteTaskOnly
  <2>2. UNCHANGED <<to_client[p], write_pc[p], chat_receiver[p], main_responses[p],
                    subscriptions[p]>>
    BY <1>1, WriterTouches
  <2> QED
    BY <2>1, <2>2, SameQuiet DEF Quiet
<1>2. CASE UserNext(q) \/ ProgramNext(q)
  <2> USE DEF write_vars
  <2>1. CASE UserNext(q)
    BY <2>1, SameQuiet DEF Quiet, UserNext, RequestUsername, RequestChatroom, RequestQuit,
       SendMessage, QuitChatroom, Kill, Request, UIOnly, End, Show, Put, TypeOK
  <2>2. CASE ProgramNext(q)
    <3>1. Same
      BY <2>2 DEF ProgramNext, AskUsername, ShowLobby, AwaitConfirmation, EnterChatroom,
         ShowMessage, LeaveChatroom, SayGoodbye, RefreshLobby, UnexpectedResponse,
         ConnectionFails, Request, Reading, UIOnly, End, Show, Put, TypeOK
    <3> QED
      BY <3>1, SameQuiet DEF Quiet
  <2> QED
    BY <1>2, <2>1, <2>2
<1> QED
  BY <1>1, <1>2

\* What a step of the write task leaves alone.
besides_writer ==
  <<page, step, to_server, read_vars, clients, username, chatroom_broker_id,
    chatroom_connection, events, chat_events, client_exit>>

\* The write task ends, or handles a broadcast.
LEMMA WriterEnds ==
  ASSUME TypeOK, NEW p \in Peers, HandInv(p),
         Shutdown(p) \/ WriteFails(p) \/ ChatMessage(p) \/ Lagged(p)
  PROVE  Quiet(p)
<1> USE DEF ui_vars, read_vars, registry, client_vars
<1>1. UNCHANGED besides_writer
  BY DEF Shutdown, WriteFails, ChatMessage, Lagged, WriteTaskOnly, besides_writer
<1>2. ASSUME EndWrite(p)
      PROVE  /\ write_pc'[p] = "done"
             /\ main_responses'[p] \in {main_responses[p], <<>>}
             /\ subscriptions'[p] \in {subscriptions[p], <<>>}
  BY <1>2 DEF EndWrite, Empty, TypeOK
<1>3. WriterQuiet(p)
  <2>1. CASE Shutdown(p) \/ WriteFails(p)
    <3>1. \/ to_client'[p] = to_client[p]
          \/ to_client'[p] = Append(to_client[p], Plain("ExitLobby"))
      BY <2>1 DEF Shutdown, WriteFails, Write, Put, TypeOK
    <3>2. Plain("ExitLobby") \in Response \ (Answers \cup Openings)
      BY PlainType DEF Plain, PlainKinds, Answers, AnswerKinds, Openings, JoinedKinds, LobbyKinds
    <3>3. /\ write_pc'[p] = "done"
          /\ main_responses'[p] \in {main_responses[p], <<>>}
          /\ subscriptions'[p] \in {subscriptions[p], <<>>}
      BY <1>2, <2>1 DEF Shutdown, WriteFails
    <3> QED
      BY <3>1, <3>2, <3>3 DEF WriterQuiet, Shrinks, Gains
  <2>2. CASE ChatMessage(p)
    <3> DEFINE m == Head(chat_receiver[p].queue)
    <3>1. chat_receiver[p] \in BroadcastReceiver /\ chat_receiver[p].queue # <<>>
      BY <2>2 DEF ChatMessage, TypeOK
    <3>2. chat_receiver[p].queue \in Seq(MessageResponse)
      BY <3>1 DEF BroadcastReceiver
    <3>3. m \in MessageResponse
      BY <3>1, <3>2
    <3>4. m \in Response \ (Answers \cup Openings)
      BY <3>3, MessageIsResponse DEF MessageResponse, Answers, AnswerKinds, Openings,
         PlainKinds, JoinedKinds, LobbyKinds
    <3>5. to_client'[p] = to_client[p] \/ to_client'[p] = Append(to_client[p], m)
      BY <2>2 DEF ChatMessage, Write, Put, TypeOK
    <3>6. /\ chat_receiver'[p] = [chat_receiver[p] EXCEPT !.queue = Tail(@)]
          /\ UNCHANGED <<write_pc, main_responses, subscriptions>>
      BY <2>2 DEF ChatMessage, TypeOK
    <3>7. chat_receiver'[p].room = chat_receiver[p].room
      BY <3>1, <3>6 DEF BroadcastReceiver
    <3> QED
      BY <3>4, <3>5, <3>6, <3>7 DEF WriterQuiet, Shrinks, Gains
  <2>3. CASE Lagged(p)
    <3>1. /\ chat_receiver'[p] = [chat_receiver[p] EXCEPT !.lagged = FALSE]
          /\ UNCHANGED <<to_client, write_pc, main_responses, subscriptions>>
      BY <2>3 DEF Lagged, TypeOK
    <3>2. chat_receiver'[p].room = chat_receiver[p].room
      BY <3>1 DEF TypeOK, BroadcastReceiver
    <3> QED
      BY <3>1, <3>2 DEF WriterQuiet, Shrinks
  <2> QED
    BY <2>1, <2>2, <2>3
<1> QED
  BY <1>1, <1>3, SameQuiet DEF Quiet, besides_writer

\* The turn goes from the main broker's answer to the socket.
LEMMA AnswerMoves ==
  ASSUME TypeOK, NEW p \in Peers, HandInv(p), MainResponse(p)
  PROVE  HandInv(p)'
<1> USE DEF ui_vars, read_vars, registry, client_vars, besides_writer
<1> DEFINE m == Head(main_responses[p])
<1>1. /\ UNCHANGED besides_writer /\ UNCHANGED <<write_pc, subscriptions>>
      /\ main_responses[p] # <<>> /\ main_responses'[p] = Tail(main_responses[p])
      /\ to_client'[p] = Append(to_client[p], m)
      /\ chat_receiver'[p] = IF m.kind = "ExitChatroom" THEN DummyReceiver
                                                        ELSE chat_receiver[p]
  BY DEF MainResponse, WriteTaskOnly, Write, Put, TypeOK
<1>2. /\ main_responses[p] \in Seq(Response) /\ to_client[p] \in Seq(Response)
      /\ Len(main_responses[p]) <= 1
  BY DEF TypeOK, HandInv, Once, AnswerOnce
<1>3. main_responses'[p] = <<>> /\ m \in Response /\ m.kind \in AnswerKinds
  <2>1. Tail(main_responses[p]) = <<>> /\ 1 \in DOMAIN main_responses[p]
        /\ main_responses[p][1] = m
    BY <1>1, <1>2, LastOne
  <2> QED
    BY <1>1, <1>2, <2>1 DEF HandInv, Shape
<1>4. PICK s \in Sorts : s = AnswerSort(m.kind)
  BY SortsOf
<1>5. Turn(p, "answer", s) /\ OnlyTurn(p, "answer", s) /\ Fits(p, s)
  <2>1. Turn(p, "answer", s)
    BY <1>1, <1>4 DEF Turn, AnswerTurn
  <2> QED
    BY <2>1 DEF HandInv, OneTurn, TurnFits, Places
<1>6. m \in Answers /\ m \in AnswersAs(s) /\ m \notin Openings
  BY <1>3, <1>4 DEF Answers, AnswersAs, Openings, AnswerKinds, JoinedKinds, LobbyKinds
<1>7. ~Holds(to_client[p], Answers)
  <2>1. \A u \in Sorts : ~Turn(p, "response", u)
    BY <1>5 DEF OnlyTurn, Places
  <2> QED
    BY <2>1, ResponseIsTurn DEF Turn
<1>8. /\ ResponseOnce(p)'
      /\ \A u \in Sorts : Turn(p, "response", u)' => u = s
  <2> DEFINE V == Answers
  <2>1. ~Holds(to_client[p], V) /\ AtMostOne(to_client[p], V)
    BY <1>7 DEF HandInv, Once, ResponseOnce
  <2>2. AtMostOne(to_client'[p], V)
    <3> HIDE DEF V
    <3> QED
      BY <1>1, <1>2, <1>3, <2>1, HoldsAppend
  <2>3. ASSUME NEW u \in Sorts, Holds(to_client'[p], AnswersAs(u))
        PROVE  u = s
    <3> DEFINE W == AnswersAs(u)
    <3>1. ~Holds(to_client[p], W)
      BY <1>7, ResponseIsTurn, HoldsMore
    <3>2. m \in W
      <4>1. Holds(to_client'[p], W)
        BY <2>3
      <4> HIDE DEF W
      <4> QED
        BY <1>1, <1>2, <1>3, <3>1, <4>1, HoldsAppend
    <3> QED
      BY <1>4, <3>2 DEF AnswersAs
  <2> QED
    BY <2>2, <2>3 DEF ResponseOnce, Turn, ResponseTurn, AnswersAs, Answers, AnswerSort
<1>9. \A x \in Places \ {"answer", "response"} : Stays(p, x)
  <2>1. /\ StartStays(p) /\ UserStays(p) /\ FrameStays(p) /\ SendStays(p) /\ EventStays(p)
        /\ QuitStays(p) /\ NoticeStays(p) /\ AddressStays(p)
    BY <1>1 DEF StartStays, UserStays, FrameStays, SendStays, EventStays, QuitStays,
       NoticeStays, AddressStays, Shrinks
  <2> QED
    BY <2>1, PlacesStay DEF Places
<1>10. \A u \in Sorts : ~Turn(p, "answer", u)'
  BY <1>3 DEF Turn, AnswerTurn
<1>11. /\ Holds(to_client[p], Openings)' => Holds(to_client[p], Openings)
       /\ AtMostOne(to_client[p], Openings)'
  BY <1>1, <1>3, <1>6, OpeningsStay DEF Gains, HandInv, Once, OpeningOnce
<1>12. Entering(p)' => Entering(p)
  BY <1>1, <1>11 DEF Entering, OpeningWaits
<1>13. Fits(p, s)'
  BY <1>1, <1>5, <1>12 DEF Fits, AddressHeld, Standing
<1>14. OneTurn(p)' /\ TurnFits(p)'
  BY <1>5, <1>8, <1>9, <1>10, <1>13, TurnMoves DEF HandInv, Places
<1>15. Once(p)'
  <2>1. /\ EventStays(p) /\ QuitStays(p) /\ NoticeStays(p) /\ AddressStays(p)
    BY <1>1 DEF EventStays, QuitStays, NoticeStays, AddressStays, Shrinks
  <2>2. FramesOnce(p)' /\ AnswerOnce(p)'
    <3>1. Len(<<>>) = 0
      OBVIOUS
    <3> QED
      BY <1>1, <1>3, <3>1 DEF HandInv, Once, FramesOnce, AnswerOnce
  <2>3. OpeningOnce(p)'
    BY <1>1, <1>11 DEF HandInv, Once, OpeningOnce, OpeningWaits
  <2> QED
    BY <1>8, <2>1, <2>2, <2>3, OnceStays DEF HandInv, Once
<1>16. Shape(p)'
  <2>1. (\A i \in DOMAIN main_responses[p] : main_responses[p][i].kind \in AnswerKinds)'
    <3>1. DOMAIN <<>> = {}
      OBVIOUS
    <3> QED
      BY <1>3, <3>1
  <2>2. SendShape(p)'
    BY <1>1 DEF HandInv, Shape, SendShape, Suspended
  <2>3. (\A i \in DOMAIN subscriptions[p] : subscriptions[p][i].response.kind \in JoinedKinds)'
    BY <1>1 DEF HandInv, Shape, JoinedKinds
  <2> QED
    BY <1>1, <1>12, <2>1, <2>2, <2>3 DEF HandInv, Shape, ClientOpen, AddressHeld
<1>17. Wired(p)'
  <2>1. Subscribed(p)' => Subscribed(p)
    BY <1>1, <1>11 DEF Subscribed
  <2>2. Subscribed(p) => m.kind # "ExitChatroom"
    <3>1. ASSUME m.kind = "ExitChatroom"
          PROVE  ~Subscribed(p)
      <4>1. s = "lobby" /\ ~Entering(p)
        BY <1>4, <1>5, <3>1 DEF AnswerSort, Fits
      <4>2. \A u \in Sorts : ~Turn(p, "user", u)
        BY <1>5 DEF OnlyTurn, Places
      <4>3. ~(page[p] = "Chatroom" /\ step[p] = "request")
        BY <4>2, SortsOf DEF Turn, UserTurn, ClientOpen, OpenPages
      <4> QED
        BY <4>1, <4>3 DEF Subscribed, Entering, OpeningWaits
    <3> QED
      BY <3>1
  <2> QED
    BY <1>1, <2>1, <2>2 DEF HandInv, Wired, AddressHeld, Suspended
<1> QED
  BY <1>14, <1>15, <1>16, <1>17 DEF HandInv

\* A subscription is installed, and its response written.
LEMMA SubscriptionKeeps ==
  ASSUME TypeOK, NEW p \in Peers, HandInv(p), Subscription(p)
  PROVE  HandInv(p)' /\ \A x \in Places : Stays(p, x)
<1> USE DEF ui_vars, read_vars, registry, client_vars, besides_writer
<1> DEFINE o == Head(subscriptions[p])
           m == o.response
<1>1. /\ UNCHANGED besides_writer /\ UNCHANGED <<write_pc, main_responses>>
      /\ subscriptions[p] # <<>> /\ subscriptions'[p] = Tail(subscriptions[p])
      /\ to_client'[p] = Append(to_client[p], m)
      /\ chat_receiver'[p] = o.receiver
  BY DEF Subscription, WriteTaskOnly, Write, Put, TypeOK
<1>2. /\ subscriptions[p] \in Seq(SubscriptionOf) /\ to_client[p] \in Seq(Response)
      /\ Len(subscriptions[p]) <= 1
  BY DEF TypeOK, HandInv, Once, OpeningOnce
<1>3. /\ subscriptions'[p] = <<>> /\ 1 \in DOMAIN subscriptions[p]
      /\ subscriptions[p][1] = o /\ o \in SubscriptionOf
  BY <1>1, <1>2, LastOne
<1>4. m \in Response /\ m.kind \in JoinedKinds
  BY <1>3 DEF SubscriptionOf, HandInv, Shape
<1>5. m \in Openings /\ m \notin Answers
  BY <1>4 DEF Openings, Answers, AnswerKinds, JoinedKinds, LobbyKinds
<1>6. ResponseStays(p)
  BY <1>1, <1>4, <1>5 DEF ResponseStays, Gains
<1>7. /\ OpeningWaits(p) /\ step[p] # "readsync" /\ ~Holds(to_client[p], Openings)
      /\ AtMostOne(to_client[p], Openings)
  BY <1>1 DEF OpeningWaits, HandInv, Once, OpeningOnce
<1>8. AtMostOne(to_client[p], Openings)'
  <2> DEFINE V == Openings
  <2>1. ~Holds(to_client[p], V) /\ AtMostOne(to_client[p], V)
    BY <1>7
  <2>2. AtMostOne(to_client'[p], V)
    <3> HIDE DEF V
    <3> QED
      BY <1>1, <1>2, <1>4, <2>1, HoldsAppend
  <2> QED
    BY <2>2 DEF Openings, JoinedKinds
<1>9. \A x \in Places : Stays(p, x)
  <2>1. /\ StartStays(p) /\ UserStays(p) /\ FrameStays(p) /\ SendStays(p) /\ EventStays(p)
        /\ QuitStays(p) /\ NoticeStays(p) /\ AnswerStays(p) /\ AddressStays(p)
    BY <1>1 DEF StartStays, UserStays, FrameStays, SendStays, EventStays, QuitStays,
       NoticeStays, AnswerStays, AddressStays, Shrinks
  <2> QED
    BY <1>6, <2>1, PlacesStay DEF Places
<1>10. Entering(p)
  BY <1>7 DEF Entering
<1>11. OneTurn(p)' /\ TurnFits(p)'
  <2>1. \A s \in Sorts : Fits(p, s) => Fits(p, s)'
    BY <1>1, <1>10 DEF Fits, AddressHeld, Standing
  <2> QED
    BY <1>9, <2>1, TurnStays DEF HandInv
<1>12. Once(p)'
  <2>1. /\ EventStays(p) /\ QuitStays(p) /\ NoticeStays(p) /\ AnswerStays(p) /\ AddressStays(p)
    BY <1>1 DEF EventStays, QuitStays, NoticeStays, AnswerStays, AddressStays, Shrinks
  <2>2. FramesOnce(p)'
    BY <1>1 DEF HandInv, Once, FramesOnce
  <2>3. OpeningOnce(p)'
    <3>1. Len(<<>>) <= 1
      OBVIOUS
    <3>2. Len(subscriptions[p])' <= 1 /\ step'[p] # "readsync"
      BY <1>1, <1>3, <1>7, <3>1
    <3> QED
      BY <1>3, <1>8, <3>2 DEF OpeningOnce
  <2> QED
    BY <1>6, <2>1, <2>2, <2>3, OnceStays DEF HandInv, Once
<1>13. Shape(p)'
  <2>1. (\A i \in DOMAIN main_responses[p] : main_responses[p][i].kind \in AnswerKinds)'
    BY <1>1 DEF HandInv, Shape, AnswerKinds
  <2>2. SendShape(p)'
    BY <1>1 DEF HandInv, Shape, SendShape, Suspended
  <2>3. (\A i \in DOMAIN subscriptions[p] : subscriptions[p][i].response.kind \in JoinedKinds)'
    <3>1. DOMAIN <<>> = {}
      OBVIOUS
    <3> QED
      BY <1>3, <3>1
  <2> QED
    BY <1>1, <1>10, <2>1, <2>2, <2>3 DEF HandInv, Shape, ClientOpen, AddressHeld
<1>14. Wired(p)'
  <2>1. p \in clients => chat_receiver'[p].room = chatroom_broker_id[p]
    BY <1>1, <1>3 DEF HandInv, Wired
  <2>2. DOMAIN <<>> = {}
    OBVIOUS
  <2> QED
    BY <1>1, <1>3, <2>1, <2>2 DEF HandInv, Wired, AddressHeld, Suspended
<1> QED
  BY <1>9, <1>11, <1>12, <1>13, <1>14 DEF HandInv

-----------------------------------------------------------------------------
(* The sub-brokers                                                         *)

\* What a step of a sub-broker leaves alone.
besides_room ==
  <<page, step, sockets, read_vars, write_pc, clients, username, chatroom_broker_id,
    main_responses, chatroom_connection, events>>

\* A broadcast changes what the receivers hold, not whose they are.
LEMMA BroadcastQuiet ==
  ASSUME TypeOK, NEW p \in Peers, NEW r \in Rooms, NEW m, Broadcast(r, m),
         UNCHANGED besides_room
  PROVE  WriterQuiet(p)
<1>1. ASSUME NEW receiver \in BroadcastReceiver
      PROVE  Pushed(receiver, m).room = receiver.room
  BY DEF Pushed, BroadcastReceiver
<1>2. chat_receiver'[p].room = chat_receiver[p].room
  <2>1. chat_receiver[p] \in BroadcastReceiver
    BY DEF TypeOK
  <2>2. \/ chat_receiver'[p] = chat_receiver[p]
        \/ chat_receiver'[p] = Pushed(chat_receiver[p], m)
    BY DEF Broadcast
  <2> QED
    BY <1>1, <2>1, <2>2
<1> DEFINE old == subscriptions[p]
           new == subscriptions'[p]
<1>3. /\ new = [i \in DOMAIN old |->
                  IF old[i].receiver.room = r
                  THEN [old[i] EXCEPT !.receiver = Pushed(old[i].receiver, m)] ELSE old[i]]
      /\ old \in Seq(SubscriptionOf)
  BY DEF Broadcast, TypeOK
<1>4. \A i \in DOMAIN old : old[i] \in SubscriptionOf
  BY <1>3
<1>5. /\ DOMAIN new = DOMAIN old
      /\ \A i \in DOMAIN new :
           /\ new[i].receiver.room = old[i].receiver.room
           /\ new[i].response = old[i].response
  <2> HIDE DEF new, old
  <2>1. DOMAIN new = DOMAIN old
    BY <1>3
  <2>2. ASSUME NEW i \in DOMAIN new
        PROVE  /\ new[i].receiver.room = old[i].receiver.room
               /\ new[i].response = old[i].response
    <3>1. old[i] \in SubscriptionOf /\ old[i].receiver \in BroadcastReceiver
      BY <1>4, <2>1 DEF SubscriptionOf
    <3>2. \/ new[i] = old[i]
          \/ new[i] = [old[i] EXCEPT !.receiver = Pushed(old[i].receiver, m)]
      BY <1>3, <2>1
    <3>3. CASE new[i] = old[i]
      BY <3>3
    <3>4. CASE new[i] = [old[i] EXCEPT !.receiver = Pushed(old[i].receiver, m)]
      <4>1. /\ new[i].receiver = Pushed(old[i].receiver, m)
            /\ new[i].response = old[i].response
        BY <3>1, <3>4 DEF SubscriptionOf
      <4> QED
        BY <1>1, <3>1, <4>1
    <3> QED
      BY <3>2, <3>3, <3>4
  <2> QED
    BY <2>1, <2>2
<1>6. Len(new) = Len(old) /\ (old = <<>> => new = <<>>)
  <2>1. DOMAIN new = 1 .. Len(old) /\ Len(old) \in Nat
    BY <1>3, <1>5
  <2>2. new \in Seq({new[i] : i \in DOMAIN new})
    <3> HIDE DEF old
    <3> QED
      BY <1>3, <2>1
  <2> HIDE DEF new, old
  <2>3. Len(new) = Len(old)
    BY <2>1, <2>2
  <2> QED
    BY <2>2, <2>3
<1> QED
  BY <1>2, <1>5, <1>6 DEF WriterQuiet, besides_room, sockets, Shrinks

\* The turn goes from a Quit event to the sub-broker's notice.
LEMMA QuitMoves ==
  ASSUME TypeOK, NEW p \in Peers, HandInv(p), NEW r \in Rooms,
         chat_events[r] # <<>>, Head(chat_events[r]) \in QuitsOf(p),
         chat_events' = [chat_events EXCEPT ![r] = Tail(@)],
         client_exit' = Append(client_exit, p),
         UNCHANGED <<besides_room, chat_receiver, subscriptions>>
  PROVE  HandInv(p)'
<1> USE DEF besides_room, sockets, read_vars
<1>1. /\ chat_events[r] \in Seq(Event) /\ client_exit \in Seq(Peers)
      /\ AtMostOne(chat_events[r], QuitsOf(p))
      /\ chat_events'[r] = Tail(chat_events[r])
      /\ \A q \in Rooms : q # r => chat_events'[q] = chat_events[q]
  BY DEF TypeOK, HandInv, Once, QuitOnce
<1>2. Holds(chat_events[r], QuitsOf(p)) /\ ~Holds(chat_events'[r], QuitsOf(p))
  BY <1>1, HoldsTail
<1>3. Turn(p, "quit", "leaving") /\ OnlyTurn(p, "quit", "leaving") /\ Fits(p, "leaving")
  <2>1. Turn(p, "quit", "leaving")
    BY <1>2 DEF Turn, QuitTurn, QuitWaits
  <2> QED
    BY <2>1 DEF HandInv, OneTurn, TurnFits, Places, Sorts
<1>4. ~Holds(client_exit, {p})
  <2>1. ~Turn(p, "notice", "leaving")
    BY <1>3 DEF OnlyTurn, Places, Sorts
  <2> QED
    BY <2>1 DEF Turn, NoticeTurn, NoticeWaits
<1>5. NoticeOnce(p)'
  <2>1. AtMostOne(client_exit', {p})
    BY <1>1, <1>4, HoldsAppend DEF HandInv, Once, NoticeOnce
  <2> QED
    BY <2>1 DEF NoticeOnce
<1>6. \A q \in Rooms : ~Holds(chat_events'[q], QuitsOf(p))
  BY <1>1, <1>2 DEF HandInv, Once, QuitOnce, QuitWaits
<1>7. \A u \in Sorts : ~Turn(p, "quit", u)'
  BY <1>6 DEF Turn, QuitTurn, QuitWaits, QuitsOf
<1>8. \A u \in Sorts : Turn(p, "notice", u)' => u = "leaving"
  BY DEF Turn, NoticeTurn
<1>9. \A x \in Places \ {"quit", "notice"} : Stays(p, x)
  <2>1. /\ StartStays(p) /\ UserStays(p) /\ FrameStays(p) /\ SendStays(p) /\ EventStays(p)
        /\ AnswerStays(p) /\ AddressStays(p) /\ ResponseStays(p)
    BY DEF StartStays, UserStays, FrameStays, SendStays, EventStays, AnswerStays,
       AddressStays, ResponseStays, Shrinks
  <2> QED
    BY <2>1, PlacesStay DEF Places
<1>10. Fits(p, "leaving")'
  BY <1>3 DEF Fits, AddressHeld, Standing, Entering, OpeningWaits, Openings, JoinedKinds
<1>11. OneTurn(p)' /\ TurnFits(p)'
  <2>1. OneTurn(p) /\ "quit" \in Places /\ "notice" \in Places /\ "leaving" \in Sorts
    BY DEF HandInv, Places, Sorts
  <2>2. /\ Turn(p, "quit", "leaving") /\ Fits(p, "leaving")'
        /\ \A u \in Sorts : Turn(p, "quit", u)' => "quit" = "notice"
    BY <1>3, <1>7, <1>10
  <2> QED
    BY <1>8, <1>9, <2>1, <2>2, TurnMoves
<1>12. Once(p)'
  <2>1. EventStays(p) /\ AnswerStays(p) /\ AddressStays(p) /\ ResponseStays(p) /\ QuitStays(p)
    BY <1>1 DEF EventStays, AnswerStays, AddressStays, ResponseStays, QuitStays, Shrinks
  <2>2. FramesOnce(p)' /\ OpeningOnce(p)'
    BY DEF HandInv, Once, FramesOnce, OpeningOnce, OpeningWaits, Openings, JoinedKinds
  <2> QED
    BY <1>5, <2>1, <2>2, OnceStays DEF HandInv, Once
<1>13. Shape(p)'
  BY DEF HandInv, Shape, ClientOpen, Entering, OpeningWaits, Openings, AddressHeld,
     SendShape, Suspended, JoinedKinds, AnswerKinds
<1>14. Wired(p)'
  BY DEF HandInv, Wired, AddressHeld, Suspended, Subscribed, Openings, JoinedKinds
<1> QED
  BY <1>11, <1>12, <1>13, <1>14 DEF HandInv

\* A sub-broker broadcasts, tells the main broker of an exit, or ends.
LEMMA SubBrokerKeeps ==
  ASSUME TypeOK, NEW p \in Peers, HandInv(p), NEW r \in Rooms, RoomNext(r)
  PROVE  Quiet(p) \/ (QuitWaits(p, r) /\ HandInv(p)')
<1> USE DEF besides_room, sockets, read_vars
<1>1. UNCHANGED besides_room
  BY DEF RoomNext, RoomEventNext, RoomMessage, RoomQuit, RoomShutdown, RoomOnly, registry,
     client_vars, ui_vars
<1>2. ASSUME WriterQuiet(p), NoticeStays(p), QuitStays(p)
      PROVE  Quiet(p)
  BY <1>1, <1>2, SameQuiet DEF Quiet
<1>3. ASSUME chat_events[r] # <<>>, chat_events' = [chat_events EXCEPT ![r] = Tail(@)]
      PROVE  QuitStays(p)
  BY <1>3 DEF QuitStays, Shrinks, TypeOK
<1>4. UNCHANGED <<chat_receiver, subscriptions>> => WriterQuiet(p)
  BY <1>1, SameQuiet
<1>5. CASE RoomMessage(r)
  <2>1. QuitStays(p) /\ NoticeStays(p)
    BY <1>3, <1>5, SameQuiet DEF RoomMessage, TakesEvent
  <2>2. WriterQuiet(p)
    BY <1>1, <1>4, <1>5, BroadcastQuiet DEF RoomMessage
  <2> QED
    BY <1>2, <2>1, <2>2
<1>6. CASE RoomShutdown(r)
  BY <1>2, <1>4, <1>6, SameQuiet DEF RoomShutdown
<1>7. CASE RoomQuit(r)
  <2> DEFINE event == Head(chat_events[r])
  <2>1. /\ chat_events[r] # <<>> /\ event.kind = "Quit"
        /\ chat_events' = [chat_events EXCEPT ![r] = Tail(@)]
        /\ UNCHANGED <<chat_receiver, subscriptions>>
        /\ client_exit' \in {client_exit, Append(client_exit, event.peer_id)}
    BY <1>7 DEF RoomQuit, TakesEvent
  <2>2. event \in Event /\ event.peer_id \in Peers
    <3>1. event \in Event
      BY <2>1, ReceiveType DEF TypeOK
    <3> QED
      BY <3>1, EventParts
  <2>3. CASE UNCHANGED client_exit
    BY <1>2, <1>3, <1>4, <2>1, <2>3, SameQuiet
  <2>4. CASE event.peer_id = p /\ client_exit' = Append(client_exit, p)
    <3>1. event \in QuitsOf(p)
      BY <2>1, <2>2, <2>4 DEF QuitsOf
    <3>2. 1 \in DOMAIN chat_events[r] /\ chat_events[r][1] = event
      BY <2>1 DEF TypeOK
    <3>3. QuitWaits(p, r)
      BY <3>1, <3>2 DEF QuitWaits, Holds
    <3> QED
      BY <1>1, <2>1, <2>4, <3>1, <3>3, QuitMoves
  <2>5. CASE event.peer_id # p /\ client_exit' = Append(client_exit, event.peer_id)
    <3>1. NoticeStays(p)
      BY <2>2, <2>5 DEF NoticeStays, Gains
    <3> QED
      BY <1>2, <1>3, <1>4, <2>1, <3>1
  <2> QED
    BY <2>1, <2>3, <2>4, <2>5
<1> QED
  BY <1>5, <1>6, <1>7 DEF RoomNext, RoomEventNext

-----------------------------------------------------------------------------
(* The read task                                                           *)

\* What a step of the read task leaves alone.
besides_reader ==
  <<step, to_client, write_vars, clients, username, chatroom_broker_id, main_responses,
    subscriptions, client_exit>>

\* What the read task of q does to its variables and to the channels.
LEMMA ReaderTouches ==
  ASSUME TypeOK, NEW q \in Peers, ReadNext(q)
  PROVE  /\ UNCHANGED besides_reader
         /\ \A p \in Peers \ {q} :
              UNCHANGED <<page[p], read_pc[p], chatroom_sender[p], outgoing[p],
                          chatroom_connection[p], to_server[p]>>
<1> USE DEF besides_reader, ReadTaskOnly, ui_vars, sockets, registry, client_vars, TypeOK
<1>1. CASE AcceptConnection(q)
  BY <1>1 DEF AcceptConnection, Send, EndRead, Empty
<1>2. CASE ResumeSend(q)
  BY <1>2 DEF ResumeSend, Send, EndRead, Empty
<1>3. CASE ReadFrame(q)
  <2>1. UNCHANGED <<page, besides_reader>> /\ \A p \in Peers \ {q} : UNCHANGED to_server[p]
    BY <1>3 DEF ReadFrame
  <2>2. EndRead(q) \/ \E event, sender : Send(q, chatroom_sender[q], event, sender)
    BY <1>3, Zenon DEF ReadFrame
  <2>3. CASE EndRead(q)
    BY <2>1, <2>3 DEF EndRead, Empty
  <2>4. ASSUME NEW event, NEW sender, Send(q, chatroom_sender[q], event, sender)
        PROVE  \A p \in Peers \ {q} :
                 UNCHANGED <<read_pc[p], chatroom_sender[p], outgoing[p], chatroom_connection[p]>>
    BY <2>4 DEF Send, EndRead, Empty
  <2> QED
    BY <2>1, <2>2, <2>3, <2>4
<1>4. CASE ReadFails(q) \/ ChatroomChannelClosed(q)
  BY <1>4 DEF ReadFails, ChatroomChannelClosed, EndRead, Empty
<1>5. CASE NewChatroomChannel(q)
  <2>1. UNCHANGED <<page, to_server>> /\ UNCHANGED besides_reader
    BY <1>5 DEF NewChatroomChannel
  <2>2. CASE EndRead(q)
    BY <2>1, <2>2 DEF EndRead, Empty
  <2>3. CASE ~EndRead(q)
    BY <1>5, <2>1, <2>3 DEF NewChatroomChannel
  <2> QED
    BY <2>2, <2>3
<1> QED
  BY <1>1, <1>2, <1>3, <1>4, <1>5 DEF ReadNext, FrameNext, ChannelNext

\* A read task puts its own client's events in the channels.
LEMMA ReaderSends ==
  ASSUME TypeOK, NEW q \in Peers, SendShape(q), ReadNext(q)
  PROVE  \/ UNCHANGED <<events, chat_events>>
         \/ \E to \in RoomOrNone : \E event \in EventsOf(q) : Enqueue(to, event)
<1>1. NoRoom \in RoomOrNone /\ chatroom_sender[q] \in RoomOrNone
  BY DEF RoomOrNone, TypeOK
<1>2. \A k \in {"NewClient", "ReadSync"} : Signal(k, q) \in EventsOf(q)
  BY SignalType DEF Signal, EventsOf
<1>3. CASE AcceptConnection(q)
  BY <1>1, <1>2, <1>3 DEF AcceptConnection, Send
<1>4. CASE ResumeSend(q)
  <2>1. Head(outgoing[q]) \in SuspendedSend
    BY <1>4, ReceiveType DEF ResumeSend, Suspended, TypeOK
  <2>2. Head(outgoing[q]).to \in RoomOrNone /\ Head(outgoing[q]).event \in EventsOf(q)
    BY <1>4, <2>1 DEF SuspendedSend, ResumeSend, SendShape, EventsOf
  <2> QED
    BY <1>4, <2>2 DEF ResumeSend, Send
<1>5. CASE ReadFrame(q)
  <2>1. Head(to_server[q]) \in Frame
    BY <1>5, ReceiveType DEF ReadFrame, TypeOK
  <2>2. EventOf(q, Head(to_server[q])) \in EventsOf(q)
    BY <2>1, EventOfType DEF EventOf, EventsOf
  <2> QED
    BY <1>1, <1>5, <2>2 DEF ReadFrame, Send
<1>6. CASE ReadFails(q) \/ ChatroomChannelClosed(q)
  BY <1>6 DEF ReadFails, ChatroomChannelClosed
<1>7. CASE NewChatroomChannel(q)
  BY <1>1, <1>2, <1>7 DEF NewChatroomChannel
<1> QED
  BY <1>3, <1>4, <1>5, <1>6, <1>7 DEF ReadNext, FrameNext, ChannelNext

\* An event of one client is of no account to another.
LEMMA EnqueueQuiet ==
  ASSUME TypeOK, NEW p \in Peers, NEW q \in Peers \ {p},
         \/ UNCHANGED <<events, chat_events>>
         \/ \E to \in RoomOrNone : \E event \in EventsOf(q) : Enqueue(to, event)
  PROVE  EventStays(p) /\ QuitStays(p)
<1>1. CASE UNCHANGED <<events, chat_events>>
  BY <1>1, SameQuiet
<1>2. ASSUME NEW to \in RoomOrNone, NEW event \in EventsOf(q), Enqueue(to, event)
      PROVE  EventStays(p) /\ QuitStays(p)
  <2>1. event \in Event \ EventsOf(p) /\ event \in Event \ QuitsOf(p)
    BY DEF EventsOf, QuitsOf
  <2>2. CASE to = NoRoom
    <3>1. Gains(events, events', Event \ EventsOf(p)) /\ UNCHANGED chat_events
      BY <1>2, <2>1, <2>2 DEF Enqueue, Gains
    <3> QED
      BY <3>1, SameQuiet DEF EventStays
  <2>3. CASE to # NoRoom
    <3>1. /\ UNCHANGED events /\ to \in Rooms
          /\ chat_events'[to] = Append(chat_events[to], event)
          /\ \A r \in Rooms : r # to => chat_events'[r] = chat_events[r]
      BY <1>2, <2>3 DEF Enqueue, Put, RoomOrNone, TypeOK
    <3>2. ASSUME NEW r \in Rooms
          PROVE  \/ Shrinks(chat_events[r], chat_events'[r])
                 \/ Gains(chat_events[r], chat_events'[r], Event \ QuitsOf(p))
      BY <2>1, <3>1 DEF Shrinks, Gains
    <3> QED
      BY <3>1, <3>2, SameQuiet DEF QuitStays
  <2> QED
    BY <2>2, <2>3
<1> QED
  BY <1>1, <1>2

\* The read tasks of other clients are of no account.
LEMMA OtherReaderQuiet ==
  ASSUME TypeOK, NEW p \in Peers, HandInv(p), NEW q \in Peers \ {p}, HandInv(q), ReadNext(q)
  PROVE  Quiet(p)
<1>1. SendShape(q)
  BY DEF HandInv, Shape
<1>2. EventStays(p) /\ QuitStays(p)
  BY <1>1, ReaderSends, EnqueueQuiet
<1>3. ProgramQuiet(p) /\ ReaderQuiet(p) /\ WriterQuiet(p) /\ MapsQuiet(p) /\ NoticeStays(p)
  BY ReaderTouches, SameQuiet DEF besides_reader, write_vars
<1> QED
  BY <1>2, <1>3 DEF Quiet

\* What reading has no hand in.
LEMMA ReaderStays ==
  ASSUME TypeOK, NEW p \in Peers, UNCHANGED besides_reader
  PROVE  /\ \A x \in {"notice", "answer", "response"} : Stays(p, x)
         /\ UNCHANGED page[p] => Stays(p, "start") /\ Stays(p, "user")
         /\ UNCHANGED events => Stays(p, "event") /\ EventStays(p)
         /\ UNCHANGED chat_events => Stays(p, "quit") /\ QuitStays(p)
         /\ chatroom_connection'[p] \in {chatroom_connection[p], <<>>} => Stays(p, "address")
         /\ outgoing'[p] = <<>> => Stays(p, "send")
         /\ Once(p) => /\ (UNCHANGED events => EventOnce(p)')
                       /\ (UNCHANGED chat_events => QuitOnce(p)')
<1> USE DEF besides_reader
<1>1. NoticeStays(p) /\ AnswerStays(p) /\ ResponseStays(p)
  BY DEF NoticeStays, AnswerStays, ResponseStays, Shrinks
<1>2. UNCHANGED page[p] => StartStays(p) /\ UserStays(p)
  BY DEF StartStays, UserStays
<1>3. /\ UNCHANGED events => EventStays(p)
      /\ UNCHANGED chat_events => QuitStays(p)
  BY SameQuiet
<1>4. /\ chatroom_connection'[p] \in {chatroom_connection[p], <<>>} => AddressStays(p)
      /\ outgoing'[p] = <<>> => SendStays(p)
  BY DEF AddressStays, SendStays
<1> QED
  BY <1>1, <1>2, <1>3, <1>4, PlacesStay, OnceStays

\* The read task takes what it is due; the turn is seen to elsewhere.
LEMMA ReaderMoves ==
  ASSUME TypeOK, NEW p \in Peers, HandInv(p), UNCHANGED besides_reader,
         \/ page[p] # "Unstarted" /\ page'[p] = page[p]
         \/ page[p] = "Unstarted" /\ page'[p] = "WelcomePage",
         read_pc'[p] \in {"running", "done"},
         read_pc'[p] = "running" => read_pc[p] \in {"idle", "running"},
         \/ to_server'[p] = to_server[p]
         \/ /\ read_pc[p] = "running" /\ to_server[p] # <<>>
            /\ to_server'[p] = Tail(to_server[p]),
         chatroom_connection'[p] \in {chatroom_connection[p], <<>>},
         read_pc'[p] = "running" /\ ~AddressHeld(p)' =>
           \A i \in DOMAIN to_server'[p] : to_server'[p][i].kind # "Message",
         SendShape(p)',
         AddressHeld(p)' /\ p \in clients => chatroom_sender'[p] = chatroom_broker_id[p],
         Suspended(p)' /\ Head(outgoing'[p]).to # NoRoom /\ p \in clients =>
           Head(outgoing'[p]).to = chatroom_broker_id[p],
         OneTurn(p)', TurnFits(p)', EventOnce(p)', QuitOnce(p)'
  PROVE  HandInv(p)'
<1> USE DEF besides_reader, write_vars
<1>1. (read_pc[p] = "idle") <=> (page[p] = "Unstarted")
  BY DEF HandInv, Shape
<1>2. page[p] = "Unstarted" => to_server[p] = <<>> /\ to_server'[p] = <<>>
  BY <1>1 DEF HandInv, Shape
<1>3. Entering(p)' <=> Entering(p)
  BY DEF Entering, OpeningWaits, Openings, JoinedKinds
<1>4. Once(p)'
  <2>1. FramesOnce(p)'
    <3>1. CASE to_server'[p] = to_server[p]
      <4>1. DOMAIN <<>> = {}
        OBVIOUS
      <4> QED
        BY <1>1, <1>2, <3>1, <4>1 DEF FramesOnce, HandInv, Once
    <3>2. CASE /\ read_pc[p] = "running" /\ to_server[p] # <<>>
               /\ to_server'[p] = Tail(to_server[p])
      <4>1. /\ Len(to_server'[p]) = Len(to_server[p]) - 1
            /\ \A i \in DOMAIN to_server'[p] :
                 i + 1 \in DOMAIN to_server[p] /\ to_server'[p][i] = to_server[p][i + 1]
        BY <3>2, LastTail DEF TypeOK
      <4>2. to_server'[p] \in Seq(Frame) /\ Len(to_server[p]) \in Nat
        BY <3>2 DEF TypeOK
      <4>3. \A i \in DOMAIN to_server'[p] :
              to_server'[p][i].kind = "Message" \/ i + 1 = Len(to_server[p])
        BY <3>2, <4>1 DEF FramesOnce, HandInv, Once
      <4>4. \A i \in DOMAIN to_server'[p] : i \in Nat
        BY <4>2
      <4> QED
        BY <4>1, <4>2, <4>3, <4>4 DEF FramesOnce
    <3> QED
      BY <3>1, <3>2
  <2>2. NoticeStays(p) /\ AnswerStays(p) /\ ResponseStays(p) /\ AddressStays(p)
    BY DEF NoticeStays, AnswerStays, ResponseStays, AddressStays, Shrinks
  <2>3. OpeningOnce(p)'
    BY DEF HandInv, Once, OpeningOnce, OpeningWaits, Openings, JoinedKinds
  <2> QED
    BY <2>1, <2>2, <2>3, OnceStays DEF HandInv, Once
<1>5. Shape(p)'
  <2>1. (step[p] # "response" => ClientOpen(p))'
    BY DEF HandInv, Shape, ClientOpen, OpenPages
  <2>2. (Entering(p) /\ read_pc[p] = "running" => to_server[p] = <<>>)'
    BY <1>1, <1>2, <1>3 DEF HandInv, Shape
  <2>3. (\A i \in DOMAIN main_responses[p] : main_responses[p][i].kind \in AnswerKinds)'
    BY DEF HandInv, Shape, AnswerKinds
  <2>4. (\A i \in DOMAIN subscriptions[p] : subscriptions[p][i].response.kind \in JoinedKinds)'
    BY DEF HandInv, Shape, JoinedKinds
  <2>5. (Entering(p) => step[p] # "request")'
    BY <1>3 DEF HandInv, Shape
  <2> QED
    BY <2>1, <2>2, <2>3, <2>4, <2>5 DEF Shape
<1>6. Wired(p)'
  <2>1. Subscribed(p)' => Subscribed(p)
    BY DEF Subscribed, Openings, JoinedKinds
  <2>2. DOMAIN <<>> = {}
    OBVIOUS
  <2>3. p \in clients =>
          \A i \in DOMAIN chatroom_connection'[p] :
            chatroom_connection'[p][i] = chatroom_broker_id[p]
    BY <2>2 DEF HandInv, Wired
  <2> QED
    BY <2>1, <2>3 DEF HandInv, Wired
<1> QED
  BY <1>4, <1>5, <1>6 DEF HandInv

\* The turn goes to an event for the main broker, or to the task that is
\* suspended in sending it.
LEMMA EventSent ==
  ASSUME TypeOK, NEW p \in Peers, HandInv(p), UNCHANGED besides_reader,
         NEW x \in {"start", "frame", "send", "address"}, NEW s \in Sorts, Turn(p, x, s),
         NEW t \in Sorts, NEW e \in EventsAs(p, t), Fits(p, t)',
         \A z \in {"start", "user", "frame", "address"} \ {x} : Stays(p, z),
         x # "send" => \A u \in Sorts : ~Turn(p, x, u)',
         UNCHANGED chat_events,
         \/ events' = Append(events, e) /\ outgoing'[p] = <<>>
         \/ /\ x # "send" /\ e.kind # "Message"
            /\ events' = events /\ outgoing'[p] = Pending(NoRoom, e)
  PROVE  OneTurn(p)' /\ TurnFits(p)' /\ EventOnce(p)' /\ QuitOnce(p)'
<1>1. /\ QuitOnce(p)' /\ \A z \in {"notice", "answer", "response", "quit"} : Stays(p, z)
      /\ outgoing'[p] = <<>> => Stays(p, "send")
  BY ReaderStays DEF HandInv
<1>2. x \in Places /\ "event" \in Places /\ "send" \in Places /\ OneTurn(p)
  BY DEF Places, HandInv
<1>3. \A y \in Places : \A u \in Sorts : Turn(p, y, u) => y = x
  BY <1>2 DEF OneTurn, OnlyTurn
<1>4. e \in Event /\ e \in EventsOf(p) /\ EventSort(e.kind) = t
  BY DEF EventsAs, EventsOf
<1>5. ~Holds(events, EventsOf(p)) /\ AtMostOne(events, EventsOf(p)) /\ events \in Seq(Event)
  <2>1. \A u \in Sorts : ~EventTurn(p, u)
    BY <1>2, <1>3 DEF Turn
  <2> QED
    BY <2>1, EventIsTurn DEF HandInv, Once, EventOnce, TypeOK
<1>6. CASE events' = Append(events, e) /\ outgoing'[p] = <<>>
  <2>1. AtMostOne(events', EventsOf(p))
    <3> DEFINE V == EventsOf(p)
    <3>1. ~Holds(events, V) /\ AtMostOne(events, V)
      BY <1>5
    <3>2. AtMostOne(events', V)
      <4> HIDE DEF V
      <4> QED
        BY <1>4, <1>5, <1>6, <3>1, HoldsAppend
    <3> QED
      BY <3>2
  <2>2. ASSUME NEW u \in Sorts, Holds(events', EventsAs(p, u))
        PROVE  u = t
    <3> DEFINE W == EventsAs(p, u)
    <3>1. ~Holds(events, W)
      BY <1>5, EventIsTurn, HoldsMore
    <3>2. e \in W
      <4>1. Holds(events', W)
        BY <2>2
      <4> HIDE DEF W
      <4> QED
        BY <1>4, <1>5, <1>6, <3>1, <4>1, HoldsAppend
    <3> QED
      BY <1>4, <3>2 DEF EventsAs
  <2>3. \A u \in Sorts : Turn(p, "event", u)' => u = t
    BY <2>2 DEF Turn, EventTurn, EventsAs, EventsOf, EventSort
  <2>4. \A z \in Places \ {x, "event"} : Stays(p, z)
    BY <1>1, <1>6 DEF Places
  <2>5. \A u \in Sorts : ~Turn(p, x, u)'
    BY <1>6 DEF Turn, SendTurn, Suspended
  <2>6. \A u \in Sorts : Turn(p, x, u)' => x = "event"
    BY <2>5
  <2>7. OneTurn(p)' /\ TurnFits(p)'
    BY <1>2, <2>3, <2>4, <2>6, TurnMoves
  <2> QED
    BY <1>1, <2>1, <2>7 DEF EventOnce, EventsOf
<1>7. CASE /\ x # "send" /\ e.kind # "Message"
           /\ events' = events /\ outgoing'[p] = Pending(NoRoom, e)
  <2>1. EventOnce(p)' /\ Stays(p, "event")
    BY <1>7, ReaderStays DEF HandInv
  <2>2. Head(Pending(NoRoom, e)) = [to |-> NoRoom, event |-> e]
    BY DEF Pending
  <2>3. \A u \in Sorts : Turn(p, "send", u)' => u = t
    BY <1>4, <1>7, <2>2 DEF Turn, SendTurn, SendSort, EventSort
  <2>4. \A z \in Places \ {x, "send"} : Stays(p, z)
    BY <1>1, <2>1 DEF Places
  <2>5. \A u \in Sorts : Turn(p, x, u)' => x = "send"
    BY <1>7
  <2>6. OneTurn(p)' /\ TurnFits(p)'
    BY <1>2, <2>3, <2>4, <2>5, TurnMoves
  <2> QED
    BY <1>1, <2>1, <2>6
<1> QED
  BY <1>6, <1>7

\* It goes to a Quit for a sub-broker, or to the task suspended in sending it.
LEMMA QuitSent ==
  ASSUME TypeOK, NEW p \in Peers, HandInv(p), UNCHANGED besides_reader,
         NEW x \in {"frame", "send"}, NEW s \in Sorts, Turn(p, x, s),
         NEW r \in Rooms, NEW e \in QuitsOf(p), Fits(p, "leaving")',
         \A z \in {"start", "user", "frame", "address"} \ {x} : Stays(p, z),
         x # "send" => \A u \in Sorts : ~Turn(p, x, u)',
         UNCHANGED events,
         \/ chat_events' = Put(chat_events, r, e) /\ outgoing'[p] = <<>>
         \/ /\ x # "send"
            /\ chat_events' = chat_events /\ outgoing'[p] = Pending(r, e)
  PROVE  OneTurn(p)' /\ TurnFits(p)' /\ EventOnce(p)' /\ QuitOnce(p)'
<1>1. /\ EventOnce(p)' /\ \A z \in {"notice", "answer", "response", "event"} : Stays(p, z)
      /\ outgoing'[p] = <<>> => Stays(p, "send")
  BY ReaderStays DEF HandInv
<1>2. /\ x \in Places /\ "quit" \in Places /\ "send" \in Places /\ OneTurn(p)
      /\ "leaving" \in Sorts
  BY DEF Places, HandInv, Sorts
<1>3. \A y \in Places : \A u \in Sorts : Turn(p, y, u) => y = x
  BY <1>2 DEF OneTurn, OnlyTurn
<1>4. e \in Event /\ r # NoRoom
  BY DEF QuitsOf, Rooms, NoRoom
<1> DEFINE V == QuitsOf(p)
<1>5. \A q \in Rooms :
        ~Holds(chat_events[q], V) /\ AtMostOne(chat_events[q], V)
        /\ chat_events[q] \in Seq(Event)
  <2>1. ~Turn(p, "quit", "leaving")
    BY <1>2, <1>3
  <2> QED
    BY <2>1 DEF HandInv, Once, QuitOnce, TypeOK, Turn, QuitTurn, QuitWaits
<1>6. CASE chat_events' = Put(chat_events, r, e) /\ outgoing'[p] = <<>>
  <2>1. /\ chat_events'[r] = Append(chat_events[r], e)
        /\ \A q \in Rooms : q # r => chat_events'[q] = chat_events[q]
    BY <1>6 DEF Put, TypeOK
  <2>2. \A q \in Rooms : /\ AtMostOne(chat_events'[q], V)
                         /\ Holds(chat_events'[q], V) => q = r
    <3>1. AtMostOne(chat_events'[r], V)
      <4> HIDE DEF V
      <4> QED
        BY <1>4, <1>5, <2>1, HoldsAppend
    <3>2. \A q \in Rooms \ {r} : AtMostOne(chat_events'[q], V) /\ ~Holds(chat_events'[q], V)
      BY <1>5, <2>1
    <3> QED
      BY <3>1, <3>2
  <2>3. QuitOnce(p)'
    <3>1. \A q1, q2 \in Rooms : Holds(chat_events'[q1], V) /\ Holds(chat_events'[q2], V) => q1 = q2
      BY <2>2
    <3> QED
      BY <2>2, <3>1 DEF QuitOnce, QuitWaits, QuitsOf
  <2>4. \A u \in Sorts : Turn(p, "quit", u)' => u = "leaving"
    BY DEF Turn, QuitTurn
  <2>5. \A z \in Places \ {x, "quit"} : Stays(p, z)
    BY <1>1, <1>6 DEF Places
  <2>6. \A u \in Sorts : ~Turn(p, x, u)'
    BY <1>6 DEF Turn, SendTurn, Suspended
  <2>7. \A u \in Sorts : Turn(p, x, u)' => x = "quit"
    BY <2>6
  <2>8. OneTurn(p)' /\ TurnFits(p)'
    BY <1>2, <2>4, <2>5, <2>7, TurnMoves
  <2> QED
    BY <1>1, <2>3, <2>8
<1>7. CASE /\ x # "send"
           /\ chat_events' = chat_events /\ outgoing'[p] = Pending(r, e)
  <2>1. QuitOnce(p)' /\ Stays(p, "quit")
    BY <1>7, ReaderStays DEF HandInv
  <2>2. Head(Pending(r, e)) = [to |-> r, event |-> e]
    BY DEF Pending
  <2>3. \A u \in Sorts : Turn(p, "send", u)' => u = "leaving"
    BY <1>4, <1>7, <2>2 DEF Turn, SendTurn, SendSort
  <2>4. \A z \in Places \ {x, "send"} : Stays(p, z)
    BY <1>1, <2>1 DEF Places
  <2>5. \A u \in Sorts : Turn(p, x, u)' => x = "send"
    BY <1>7
  <2>6. OneTurn(p)' /\ TurnFits(p)'
    BY <1>2, <2>3, <2>4, <2>5, TurnMoves
  <2> QED
    BY <1>1, <2>1, <2>6
<1> QED
  BY <1>6, <1>7

\* A read task that ends takes the turn with it, if it had it.
LEMMA ReadEnds ==
  ASSUME TypeOK, NEW p \in Peers, HandInv(p), EndRead(p), read_pc[p] = "running",
         UNCHANGED <<page[p], events, chat_events>>, UNCHANGED besides_reader
  PROVE  Quiet(p)
<1>1. ReaderQuiet(p)
  BY DEF EndRead, Empty, ReaderQuiet, TypeOK
<1> QED
  BY <1>1, SameQuiet DEF Quiet, besides_reader, write_vars

\* A client connects.
LEMMA ConnectionKeeps ==
  ASSUME TypeOK, NEW p \in Peers, HandInv(p), AcceptConnection(p)
  PROVE  HandInv(p)'
<1> DEFINE e == Signal("NewClient", p)
<1>1. UNCHANGED besides_reader /\ page[p] = "Unstarted" /\ page'[p] = "WelcomePage"
      /\ to_server' = to_server /\ Send(p, NoRoom, e, NoRoom)
  BY ReaderTouches DEF ReadNext, AcceptConnection, sockets, TypeOK
<1>2. e \in EventsAs(p, "new") /\ e.kind = "NewClient" /\ e.peer_id = p
  BY SignalType DEF Signal, EventsAs, EventsOf, EventSort
<1>3. /\ chatroom_sender'[p] = NoRoom
      /\ chatroom_connection'[p] \in {chatroom_connection[p], <<>>}
      /\ chat_events' = chat_events
      /\ \/ /\ events' = events /\ outgoing'[p] = <<>> /\ read_pc'[p] = "done"
         \/ /\ events' = Append(events, e) /\ outgoing'[p] = <<>> /\ read_pc'[p] = "running"
         \/ /\ events' = events /\ outgoing'[p] = Pending(NoRoom, e)
            /\ read_pc'[p] = "running"
  BY <1>1, <1>2 DEF Send, EndRead, Enqueue, Empty, TypeOK
<1>4. /\ Turn(p, "start", "new") /\ Fits(p, "new") /\ OnlyTurn(p, "start", "new")
      /\ "new" \in Sorts
  <2>1. Turn(p, "start", "new") /\ "start" \in Places /\ "new" \in Sorts
    BY <1>1 DEF Turn, StartTurn, Places, Sorts
  <2> QED
    BY <2>1 DEF HandInv, OneTurn, TurnFits
<1>5. read_pc[p] = "idle" /\ to_server[p] = <<>> /\ step[p] = "response" /\ ~AddressHeld(p)
      /\ p \notin clients /\ ~Entering(p)
  <2>1. Sorts = {"new", "unnamed", "lobby", "address", "room", "leaving"}
    BY DEF Sorts
  <2> QED
    BY <1>1, <1>4 DEF HandInv, Shape, ClientOpen, OpenPages, Fits, Standing
<1>6. Fits(p, "new")'
  <2>1. ~AddressHeld(p)' /\ ~Entering(p)' /\ p \notin clients'
    BY <1>1, <1>3, <1>5 DEF besides_reader, AddressHeld, Entering, OpeningWaits, Openings,
       JoinedKinds
  <2> QED
    BY <2>1 DEF Fits
<1>7. /\ \A u \in Sorts : ~Turn(p, "start", u)'
      /\ \A z \in {"user", "frame", "address"} : Stays(p, z)
  <2>1. step'[p] = "response"
    BY <1>1, <1>5 DEF besides_reader
  <2>2. Stays(p, "user")
    BY <2>1 DEF Stays, Turn, UserTurn
  <2>3. Stays(p, "frame")
    BY <1>1, <1>5 DEF Stays, Turn, FrameTurn
  <2>4. Stays(p, "address")
    BY <1>1, <1>3, ReaderStays
  <2> QED
    BY <1>1, <2>2, <2>3, <2>4 DEF Turn, StartTurn
<1>8. OneTurn(p)' /\ TurnFits(p)' /\ EventOnce(p)' /\ QuitOnce(p)'
  <2>1. CASE \/ events' = Append(events, e) /\ outgoing'[p] = <<>>
             \/ events' = events /\ outgoing'[p] = Pending(NoRoom, e)
    BY <1>1, <1>2, <1>3, <1>4, <1>6, <1>7, <2>1, EventSent
  <2>2. CASE events' = events /\ outgoing'[p] = <<>>
    <3>1. /\ EventOnce(p)' /\ QuitOnce(p)'
          /\ \A z \in Places \ {"start"} : Stays(p, z)
      BY <1>1, <1>3, <1>7, <2>2, ReaderStays DEF Places, HandInv
    <3>2. \A z \in Places : \A u \in Sorts : ~Turn(p, z, u)'
      BY <1>4, <1>7, <3>1 DEF Stays, OnlyTurn
    <3> QED
      BY <3>1, <3>2 DEF OneTurn, TurnFits, Places, Sorts
  <2> QED
    BY <1>3, <2>1, <2>2
<1>9. SendShape(p)' /\ (Suspended(p)' => Head(outgoing'[p]).to = NoRoom)
  <2>1. Head(Pending(NoRoom, e)) = [to |-> NoRoom, event |-> e]
    BY DEF Pending
  <2> QED
    BY <1>2, <1>3, <2>1 DEF SendShape, Suspended
<1>10. \A i \in DOMAIN to_server'[p] : to_server'[p][i].kind # "Message"
  <2>1. DOMAIN <<>> = {}
    OBVIOUS
  <2> QED
    BY <1>1, <1>5, <2>1
<1>11. /\ read_pc'[p] \in {"running", "done"}
       /\ read_pc'[p] = "running" => read_pc[p] \in {"idle", "running"}
       /\ ~AddressHeld(p)'
  BY <1>3, <1>5 DEF AddressHeld
<1> QED
  BY <1>1, <1>3, <1>8, <1>9, <1>10, <1>11, ReaderMoves

\* A suspended send goes on.
LEMMA SendKeeps ==
  ASSUME TypeOK, NEW p \in Peers, HandInv(p), ResumeSend(p)
  PROVE  HandInv(p)'
<1> DEFINE o == Head(outgoing[p])
<1>1. /\ UNCHANGED besides_reader /\ UNCHANGED <<page, to_server>>
      /\ Suspended(p) /\ (IsClosed(o.to) \/ ~IsFull(o.to))
      /\ Send(p, o.to, o.event, chatroom_sender[p])
  BY ReaderTouches DEF ReadNext, ResumeSend, sockets, ui_vars
<1>2. /\ o \in SuspendedSend /\ o.to \in RoomOrNone /\ o.event \in EventsOf(p)
      /\ read_pc[p] = "running"
      /\ o.to = NoRoom => o.event.kind # "Message"
      /\ o.to # NoRoom => o.event.kind \in {"Quit", "Message"}
  <2>1. o \in SuspendedSend
    BY <1>1, ReceiveType DEF Suspended, TypeOK
  <2> QED
    BY <1>1, <2>1 DEF SuspendedSend, EventsOf, HandInv, Shape, SendShape
<1>3. page[p] # "Unstarted"
  BY <1>2 DEF HandInv, Shape
<1>4. CASE EndRead(p) /\ UNCHANGED <<events, chat_events>>
  BY <1>1, <1>2, <1>4, ReadEnds, QuietKeeps
<1>5. CASE ~(EndRead(p) /\ UNCHANGED <<events, chat_events>>)
  <2>1. /\ outgoing'[p] = <<>> /\ Enqueue(o.to, o.event)
        /\ chatroom_connection'[p] \in {chatroom_connection[p], <<>>}
        /\ \/ read_pc'[p] = "running" /\ chatroom_sender'[p] = chatroom_sender[p]
           \/ read_pc'[p] = "done" /\ chatroom_sender'[p] = NoRoom
    <3>1. CASE EndRead(p)
      BY <1>1, <1>5, <3>1 DEF Send, EndRead, Empty, TypeOK
    <3>2. CASE ~EndRead(p)
      BY <1>1, <3>2 DEF Send, Empty, TypeOK
    <3> QED
      BY <3>1, <3>2
  <2>2. \A z \in {"start", "user", "frame", "address"} : Stays(p, z)
    <3>1. FrameStays(p)
      BY <1>1, <1>2, <2>1 DEF FrameStays
    <3> QED
      BY <1>1, <2>1, <3>1, PlacesStay, ReaderStays
  <2>3. \A s \in Sorts : Fits(p, s) => Fits(p, s)'
    <3>1. Entering(p)' = Entering(p) /\ \A s : Standing(p, s)' = Standing(p, s)
      BY <1>1 DEF besides_reader, Standing, Entering, OpeningWaits, Openings, JoinedKinds
    <3>2. /\ AddressHeld(p)' => AddressHeld(p)
          /\ read_pc'[p] = "running" /\ AddressHeld(p) => AddressHeld(p)'
      BY <2>1 DEF AddressHeld
    <3>3. clients' = clients
      BY <1>1 DEF besides_reader
    <3> QED
      BY <1>2, <3>1, <3>2, <3>3 DEF Fits
  <2>4. OneTurn(p)' /\ TurnFits(p)' /\ EventOnce(p)' /\ QuitOnce(p)'
    <3>1. CASE o.event.kind = "Message"
      <4>1. o.to \in Rooms /\ o.to # NoRoom
        BY <1>2, <3>1 DEF RoomOrNone
      <4>2. /\ UNCHANGED events /\ chat_events'[o.to] = Append(chat_events[o.to], o.event)
            /\ \A r \in Rooms : r # o.to => chat_events'[r] = chat_events[r]
        BY <2>1, <4>1 DEF Enqueue, Put, TypeOK
      <4>3. o.event \in Event \ QuitsOf(p)
        BY <1>2, <3>1 DEF EventsOf, QuitsOf
      <4>4. QuitStays(p)
        BY <4>1, <4>2, <4>3 DEF QuitStays, Gains, Shrinks
      <4>5. /\ \A z \in Places : Stays(p, z)
            /\ EventOnce(p)' /\ QuitOnce(p)'
        BY <1>1, <2>1, <2>2, <4>2, <4>4, ReaderStays, PlacesStay, OnceStays DEF Places, HandInv
      <4> QED
        BY <2>3, <4>5, TurnStays DEF HandInv
    <3>2. CASE o.event.kind # "Message"
      <4>1. PICK s \in Sorts : s = SendSort(o)
        BY SortsOf
      <4>2. Turn(p, "send", s)
        BY <1>1, <3>2, <4>1 DEF Turn, SendTurn
      <4>3. Fits(p, s)'
        BY <2>3, <4>2 DEF HandInv, TurnFits, Places
      <4>4. CASE o.to = NoRoom
        <5>1. UNCHANGED chat_events /\ events' = Append(events, o.event)
          BY <2>1, <4>4 DEF Enqueue
        <5>2. o.event \in EventsAs(p, s)
          BY <1>2, <4>1, <4>4 DEF EventsAs, SendSort
        <5> QED
          BY <1>1, <2>1, <2>2, <4>2, <4>3, <5>1, <5>2, EventSent
      <4>5. CASE o.to # NoRoom
        <5>1. UNCHANGED events /\ chat_events' = Put(chat_events, o.to, o.event)
              /\ o.to \in Rooms
          BY <1>2, <2>1, <4>5 DEF Enqueue, RoomOrNone
        <5>2. o.event \in QuitsOf(p) /\ s = "leaving"
          BY <1>2, <3>2, <4>1, <4>5 DEF EventsOf, QuitsOf, SendSort
        <5> QED
          BY <1>1, <2>1, <2>2, <4>2, <4>3, <5>1, <5>2, QuitSent
      <4> QED
        BY <4>4, <4>5
    <3> QED
      BY <3>1, <3>2
  <2>5. ~Suspended(p)' /\ SendShape(p)'
    BY <2>1 DEF Suspended, SendShape
  <2>6. /\ read_pc'[p] = "running" /\ ~AddressHeld(p)' =>
             \A i \in DOMAIN to_server'[p] : to_server'[p][i].kind # "Message"
        /\ AddressHeld(p)' /\ p \in clients => chatroom_sender'[p] = chatroom_broker_id[p]
    BY <1>1, <1>2, <2>1 DEF AddressHeld, HandInv, Shape, Wired
  <2>7. /\ read_pc'[p] \in {"running", "done"}
        /\ read_pc'[p] = "running" => read_pc[p] \in {"idle", "running"}
        /\ page'[p] = page[p] /\ to_server'[p] = to_server[p]
    BY <1>1, <1>2, <2>1
  <2> QED
    BY <1>1, <1>3, <2>1, <2>4, <2>5, <2>6, <2>7, ReaderMoves
<1> QED
  BY <1>4, <1>5

\* The address a read task keeps after this frame.
Kept(p, frame) == IF frame.kind = "Quit" THEN NoRoom ELSE chatroom_sender[p]

\* A frame that is legal goes on as an event, or is held by the suspended task.
LEMMA FrameTaken ==
  ASSUME TypeOK, NEW p \in Peers, HandInv(p), ReadFrame(p),
         ~(EndRead(p) /\ UNCHANGED <<events, chat_events>>)
  PROVE  LET frame == Head(to_server[p])
             e == EventOf(p, frame)
         IN /\ UNCHANGED besides_reader /\ page'[p] = page[p] /\ page[p] # "Unstarted"
            /\ read_pc[p] = "running" /\ ~Entering(p)
            /\ frame \in Frame /\ frame.kind \in LegalFrames(chatroom_sender[p])
            /\ to_server[p] # <<>> /\ to_server'[p] = Tail(to_server[p])
            /\ e \in EventsOf(p) /\ e.kind = frame.kind
            /\ chatroom_connection'[p] \in {chatroom_connection[p], <<>>}
            /\ \/ read_pc'[p] = "running" /\ chatroom_sender'[p] = Kept(p, frame)
               \/ read_pc'[p] = "done" /\ chatroom_sender'[p] = NoRoom
            /\ \/ outgoing'[p] = <<>> /\ Enqueue(chatroom_sender[p], e)
               \/ /\ outgoing'[p] = Pending(chatroom_sender[p], e)
                  /\ read_pc'[p] = "running"
                  /\ UNCHANGED <<events, chat_events>>
<1> DEFINE frame == Head(to_server[p])
           e == EventOf(p, frame)
<1>1. /\ UNCHANGED besides_reader /\ page'[p] = page[p]
      /\ read_pc[p] = "running" /\ to_server[p] # <<>>
      /\ to_server'[p] = Tail(to_server[p])
  BY ReaderTouches DEF ReadNext, FrameNext, ReadFrame, Selecting, ui_vars, TypeOK
<1>2. page[p] # "Unstarted" /\ ~Entering(p)
  BY <1>1 DEF HandInv, Shape
<1>3. frame \in Frame /\ e \in EventsOf(p) /\ e.kind = frame.kind
  <2>1. frame \in Frame
    BY <1>1, ReceiveType DEF TypeOK
  <2> QED
    BY <2>1, EventOfType DEF EventOf, EventsOf
<1>4. /\ frame.kind \in LegalFrames(chatroom_sender[p])
      /\ Send(p, chatroom_sender[p], e, Kept(p, frame))
  BY DEF ReadFrame, Kept
<1>5. /\ chatroom_connection'[p] \in {chatroom_connection[p], <<>>}
      /\ \/ read_pc'[p] = "running" /\ chatroom_sender'[p] = Kept(p, frame)
         \/ read_pc'[p] = "done" /\ chatroom_sender'[p] = NoRoom
      /\ \/ outgoing'[p] = <<>> /\ Enqueue(chatroom_sender[p], e)
         \/ /\ outgoing'[p] = Pending(chatroom_sender[p], e) /\ read_pc'[p] = "running"
            /\ UNCHANGED <<events, chat_events>>
  <2> HIDE DEF e, frame
  <2>1. CASE EndRead(p)
    BY <1>4, <2>1 DEF Send, EndRead, Empty, TypeOK
  <2>2. CASE ~EndRead(p)
    BY <1>4, <2>2 DEF Send, Empty, TypeOK
  <2> QED
    BY <2>1, <2>2
<1> QED
  BY <1>1, <1>2, <1>3, <1>4, <1>5

\* The last frame is taken: the turn goes on with its event.
LEMMA RequestTaken ==
  ASSUME TypeOK, NEW p \in Peers, HandInv(p), ReadFrame(p),
         ~(EndRead(p) /\ UNCHANGED <<events, chat_events>>),
         Head(to_server[p]).kind # "Message"
  PROVE  /\ to_server'[p] = <<>> /\ chatroom_sender'[p] = NoRoom
         /\ OneTurn(p)' /\ TurnFits(p)' /\ EventOnce(p)' /\ QuitOnce(p)'
<1> DEFINE frame == Head(to_server[p])
           e == EventOf(p, frame)
<1>1. /\ UNCHANGED besides_reader /\ page'[p] = page[p]
      /\ read_pc[p] = "running" /\ ~Entering(p)
      /\ frame \in Frame /\ frame.kind \in LegalFrames(chatroom_sender[p])
      /\ to_server[p] # <<>> /\ to_server'[p] = Tail(to_server[p])
      /\ e \in EventsOf(p) /\ e.kind = frame.kind
      /\ chatroom_connection'[p] \in {chatroom_connection[p], <<>>}
      /\ \/ read_pc'[p] = "running" /\ chatroom_sender'[p] = Kept(p, frame)
         \/ read_pc'[p] = "done" /\ chatroom_sender'[p] = NoRoom
      /\ \/ outgoing'[p] = <<>> /\ Enqueue(chatroom_sender[p], e)
         \/ /\ outgoing'[p] = Pending(chatroom_sender[p], e)
            /\ UNCHANGED <<events, chat_events>>
  BY FrameTaken
<1>2. frame.kind # "Message"
  OBVIOUS
<1> HIDE DEF frame, e
<1>3. AddressHeld(p) => frame.kind = "Quit"
  BY <1>1, <1>2 DEF AddressHeld, LegalFrames
<1>4. chatroom_sender'[p] = NoRoom /\ ~AddressHeld(p)'
  BY <1>1, <1>3 DEF Kept, AddressHeld
<1>5. to_server'[p] = <<>> /\ LastOf(to_server[p]) = frame
  <2>1. to_server[p] \in Seq(Frame)
    BY DEF TypeOK
  <2>2. 1 \in DOMAIN to_server[p] /\ to_server[p][1] = frame
    BY <1>1, <2>1 DEF frame
  <2>3. 1 = Len(to_server[p])
    BY <1>1, <1>2, <2>2 DEF HandInv, Once, FramesOnce
  <2>4. Tail(to_server[p]) = <<>>
    <3> DEFINE n == Len(to_server[p])
    <3>1. n = 1
      BY <2>3
    <3>2. n <= 1
      <4> HIDE DEF n
      <4> QED
        BY <3>1
    <3>3. to_server[p] # <<>>
      BY <1>1
    <3> QED
      BY <2>1, <3>2, <3>3, LastOne
  <2> QED
    BY <1>1, <2>2, <2>3, <2>4 DEF LastOf
<1>6. PICK s \in Sorts : s = FrameSort(p, frame.kind)
  BY SortsOf
<1>7. Turn(p, "frame", s) /\ Fits(p, s)
  <2>1. Turn(p, "frame", s)
    BY <1>1, <1>2, <1>5, <1>6 DEF Turn, FrameTurn
  <2> QED
    BY <2>1 DEF HandInv, TurnFits, Places
<1>8. /\ \A u \in Sorts : ~Turn(p, "frame", u)'
      /\ \A z \in {"start", "user", "address"} : Stays(p, z)
  BY <1>1, <1>5, ReaderStays DEF Turn, FrameTurn
<1>9. clients' = clients /\ ~Entering(p)' /\ \A t : Standing(p, t)' = Standing(p, t)
  BY <1>1 DEF besides_reader, Standing, Entering, OpeningWaits, Openings, JoinedKinds
<1>10. CASE ~AddressHeld(p)
  <2>1. s = EventSort(frame.kind) /\ s # "room"
    BY <1>1, <1>2, <1>6, <1>10 DEF FrameSort, EventSort, LegalFrames, AddressHeld
  <2>2. Fits(p, s)'
    BY <1>4, <1>7, <1>9, <2>1 DEF Fits
  <2>3. e \in EventsAs(p, s) /\ chatroom_sender[p] = NoRoom
    BY <1>1, <1>10, <2>1 DEF EventsAs, AddressHeld
  <2>4. /\ UNCHANGED chat_events
        /\ \/ events' = Append(events, e) /\ outgoing'[p] = <<>>
           \/ events' = events /\ outgoing'[p] = Pending(NoRoom, e)
    BY <1>1, <2>3 DEF Enqueue
  <2> QED
    BY <1>1, <1>2, <1>4, <1>5, <1>7, <1>8, <2>2, <2>3, <2>4, EventSent
<1>11. CASE AddressHeld(p)
  <2>1. s = "room" /\ frame.kind = "Quit"
    BY <1>3, <1>6, <1>11 DEF FrameSort
  <2>2. Fits(p, "leaving")'
    <3>1. Standing(p, "room") => Standing(p, "leaving")
      BY DEF Standing
    <3> QED
      BY <1>4, <1>7, <1>9, <2>1, <3>1 DEF Fits
  <2>3. e \in QuitsOf(p) /\ chatroom_sender[p] \in Rooms /\ chatroom_sender[p] # NoRoom
    BY <1>1, <1>11, <2>1 DEF QuitsOf, EventsOf, AddressHeld, TypeOK, RoomOrNone
  <2>4. /\ UNCHANGED events
        /\ \/ chat_events' = Put(chat_events, chatroom_sender[p], e) /\ outgoing'[p] = <<>>
           \/ chat_events' = chat_events /\ outgoing'[p] = Pending(chatroom_sender[p], e)
    BY <1>1, <2>3 DEF Enqueue
  <2> QED
    BY <1>1, <1>4, <1>5, <1>7, <1>8, <2>2, <2>3, <2>4, QuitSent
<1> QED
  BY <1>4, <1>5, <1>10, <1>11

\* A message is taken: it takes no turn.
LEMMA MessageTaken ==
  ASSUME TypeOK, NEW p \in Peers, HandInv(p), ReadFrame(p),
         ~(EndRead(p) /\ UNCHANGED <<events, chat_events>>),
         Head(to_server[p]).kind = "Message"
  PROVE  /\ AddressHeld(p)
         /\ read_pc'[p] = "running" => chatroom_sender'[p] = chatroom_sender[p]
         /\ OneTurn(p)' /\ TurnFits(p)' /\ EventOnce(p)' /\ QuitOnce(p)'
         /\ UNCHANGED events /\ \A z \in Places : Stays(p, z)
<1> DEFINE frame == Head(to_server[p])
           e == EventOf(p, frame)
<1>1. /\ UNCHANGED besides_reader /\ page'[p] = page[p]
      /\ read_pc[p] = "running" /\ ~Entering(p)
      /\ frame \in Frame /\ frame.kind \in LegalFrames(chatroom_sender[p])
      /\ to_server[p] # <<>> /\ to_server'[p] = Tail(to_server[p])
      /\ e \in EventsOf(p) /\ e.kind = frame.kind
      /\ chatroom_connection'[p] \in {chatroom_connection[p], <<>>}
      /\ \/ read_pc'[p] = "running" /\ chatroom_sender'[p] = Kept(p, frame)
         \/ read_pc'[p] = "done" /\ chatroom_sender'[p] = NoRoom
      /\ \/ outgoing'[p] = <<>> /\ Enqueue(chatroom_sender[p], e)
         \/ /\ outgoing'[p] = Pending(chatroom_sender[p], e)
            /\ UNCHANGED <<events, chat_events>>
  BY FrameTaken
<1>2. frame.kind = "Message"
  OBVIOUS
<1> HIDE DEF frame, e
<1>3. /\ AddressHeld(p) /\ chatroom_sender[p] \in Rooms /\ chatroom_sender[p] # NoRoom
      /\ e \in Event \ QuitsOf(p)
  BY <1>1, <1>2 DEF LegalFrames, AddressHeld, TypeOK, RoomOrNone, EventsOf, QuitsOf
<1>4. /\ read_pc'[p] = "running" => chatroom_sender'[p] = chatroom_sender[p]
      /\ AddressHeld(p)' => AddressHeld(p)
      /\ read_pc'[p] = "running" => AddressHeld(p)'
  BY <1>1, <1>2, <1>3 DEF Kept, AddressHeld
<1>5. UNCHANGED events /\ QuitStays(p)
  <2>1. CASE UNCHANGED <<events, chat_events>>
    BY <2>1, SameQuiet
  <2>2. CASE Enqueue(chatroom_sender[p], e)
    <3>1. /\ UNCHANGED events
          /\ chat_events'[chatroom_sender[p]] = Append(chat_events[chatroom_sender[p]], e)
          /\ \A r \in Rooms : r # chatroom_sender[p] => chat_events'[r] = chat_events[r]
      BY <1>3, <2>2 DEF Enqueue, Put, TypeOK
    <3> QED
      BY <1>3, <3>1 DEF QuitStays, Gains, Shrinks
  <2> QED
    BY <1>1, <2>1, <2>2
<1>6. Stays(p, "send")
  <2>1. Pending(chatroom_sender[p], e) # <<>>
        /\ Head(Pending(chatroom_sender[p], e)) = [to |-> chatroom_sender[p], event |-> e]
    BY DEF Pending
  <2> QED
    BY <1>1, <1>2, <2>1 DEF Stays, Turn, SendTurn, Suspended
<1>7. Stays(p, "frame")
  <2>1. Tail(to_server[p]) # <<>> => LastOf(Tail(to_server[p])) = LastOf(to_server[p])
    BY <1>1, LastTail DEF TypeOK
  <2> QED
    BY <1>1, <1>3, <1>4, <2>1 DEF Stays, Turn, FrameTurn, FrameSort
<1>8. /\ \A z \in Places : Stays(p, z)
      /\ EventOnce(p)' /\ QuitOnce(p)'
  BY <1>1, <1>5, <1>6, <1>7, ReaderStays, PlacesStay, OnceStays DEF Places, HandInv
<1>9. \A s \in Sorts : Fits(p, s) => Fits(p, s)'
  <2>1. clients' = clients /\ ~Entering(p)' /\ \A t : Standing(p, t)' = Standing(p, t)
    BY <1>1 DEF besides_reader, Standing, Entering, OpeningWaits, Openings, JoinedKinds
  <2> QED
    BY <1>1, <1>4, <2>1 DEF Fits
<1>10. OneTurn(p)' /\ TurnFits(p)'
  BY <1>8, <1>9, TurnStays DEF HandInv
<1> QED
  BY <1>3, <1>4, <1>5, <1>8, <1>10

\* The next frame is taken.
LEMMA FrameKeeps ==
  ASSUME TypeOK, NEW p \in Peers, HandInv(p), ReadFrame(p)
  PROVE  HandInv(p)'
<1> DEFINE frame == Head(to_server[p])
           e == EventOf(p, frame)
<1>1. CASE EndRead(p) /\ UNCHANGED <<events, chat_events>>
  BY <1>1, ReadEnds, QuietKeeps, ReaderTouches DEF ReadFrame, ReadNext, FrameNext, Selecting, ui_vars
<1>2. CASE ~(EndRead(p) /\ UNCHANGED <<events, chat_events>>)
  <2>1. /\ UNCHANGED besides_reader /\ page'[p] = page[p] /\ page[p] # "Unstarted"
        /\ read_pc[p] = "running"
        /\ frame.kind \in LegalFrames(chatroom_sender[p])
        /\ to_server[p] # <<>> /\ to_server'[p] = Tail(to_server[p])
        /\ e \in EventsOf(p) /\ e.kind = frame.kind
        /\ chatroom_connection'[p] \in {chatroom_connection[p], <<>>}
        /\ \/ read_pc'[p] = "running" /\ chatroom_sender'[p] = Kept(p, frame)
           \/ read_pc'[p] = "done" /\ chatroom_sender'[p] = NoRoom
        /\ \/ outgoing'[p] = <<>>
           \/ /\ outgoing'[p] = Pending(chatroom_sender[p], e)
              /\ read_pc'[p] = "running"
    BY <1>2, FrameTaken
  <2>2. /\ frame.kind # "Message" =>
             /\ to_server'[p] = <<>> /\ chatroom_sender'[p] = NoRoom
        /\ frame.kind = "Message" =>
             /\ AddressHeld(p)
             /\ read_pc'[p] = "running" => chatroom_sender'[p] = chatroom_sender[p]
        /\ OneTurn(p)' /\ TurnFits(p)' /\ EventOnce(p)' /\ QuitOnce(p)'
    BY <1>2, RequestTaken, MessageTaken
  <2> HIDE DEF e, frame
  <2>3. /\ Pending(chatroom_sender[p], e) # <<>>
        /\ Head(Pending(chatroom_sender[p], e)) = [to |-> chatroom_sender[p], event |-> e]
    BY DEF Pending
  <2>4. SendShape(p)'
    <3>1. chatroom_sender[p] = NoRoom => e.kind # "Message"
      BY <2>1 DEF LegalFrames
    <3>2. chatroom_sender[p] # NoRoom => e.kind \in {"Quit", "Message"}
      BY <2>1 DEF LegalFrames
    <3> QED
      BY <2>1, <2>2, <2>3, <3>1, <3>2 DEF SendShape, Suspended, EventsOf
  <2>5. Suspended(p)' /\ Head(outgoing'[p]).to # NoRoom /\ p \in clients =>
          Head(outgoing'[p]).to = chatroom_broker_id[p]
    BY <2>1, <2>3 DEF Suspended, HandInv, Wired, AddressHeld
  <2>6. read_pc'[p] = "running" /\ ~AddressHeld(p)' =>
          \A i \in DOMAIN to_server'[p] : to_server'[p][i].kind # "Message"
    <3>1. DOMAIN <<>> = {}
      OBVIOUS
    <3> QED
      BY <2>2, <3>1 DEF AddressHeld
  <2>7. AddressHeld(p)' /\ p \in clients => chatroom_sender'[p] = chatroom_broker_id[p]
    BY <2>1, <2>2 DEF AddressHeld, HandInv, Wired
  <2>8. /\ read_pc'[p] \in {"running", "done"}
        /\ read_pc'[p] = "running" => read_pc[p] \in {"idle", "running"}
    BY <2>1
  <2> QED
    BY <2>1, <2>2, <2>4, <2>5, <2>6, <2>7, <2>8, ReaderMoves
<1> QED
  BY <1>1, <1>2

\* The read task takes the address of the chatroom, and tells the main broker.
LEMMA AddressTaken ==
  ASSUME TypeOK, NEW p \in Peers, HandInv(p), NewChatroomChannel(p)
  PROVE  HandInv(p)'
<1> DEFINE e == Signal("ReadSync", p)
           r == Head(chatroom_connection[p])
<1>1. /\ UNCHANGED besides_reader /\ page'[p] = page[p] /\ to_server' = to_server
      /\ read_pc[p] = "running" /\ ~Suspended(p) /\ AddressWaits(p)
  BY ReaderTouches DEF ReadNext, ChannelNext, NewChatroomChannel, Selecting, ui_vars,
     sockets, AddressWaits
<1>2. page[p] # "Unstarted"
  BY <1>1 DEF HandInv, Shape
<1>3. CASE EndRead(p) /\ UNCHANGED <<events, chat_events>>
  BY <1>1, <1>3, ReadEnds, QuietKeeps
<1>4. CASE ~(EndRead(p) /\ UNCHANGED <<events, chat_events>>)
  <2>1. /\ chatroom_connection'[p] = Tail(chatroom_connection[p])
        /\ chatroom_sender'[p] = r /\ read_pc'[p] = "running" /\ UNCHANGED chat_events
        /\ \/ events' = Append(events, e) /\ outgoing'[p] = <<>>
           \/ events' = events /\ outgoing'[p] = Pending(NoRoom, e)
    <3>1. /\ chatroom_connection'[p] = Tail(chatroom_connection[p])
          /\ chatroom_sender'[p] = r /\ read_pc'[p] = read_pc[p]
      BY <1>4 DEF NewChatroomChannel, TypeOK
    <3>2. /\ UNCHANGED chat_events
          /\ \/ events' = Append(events, e) /\ outgoing'[p] = <<>>
             \/ events' = events /\ outgoing'[p] = Pending(NoRoom, e)
      BY <1>1, <1>4 DEF NewChatroomChannel, Enqueue, Suspended, TypeOK
    <3> QED
      BY <1>1, <3>1, <3>2
  <2>2. e \in EventsAs(p, "room") /\ e.kind = "ReadSync" /\ e.peer_id = p
    BY SignalType DEF Signal, EventsAs, EventsOf, EventSort
  <2>3. /\ chatroom_connection'[p] = <<>> /\ r \in Rooms /\ r # NoRoom
        /\ p \in clients => r = chatroom_broker_id[p]
    <3>1. chatroom_connection[p] \in Seq(Rooms) /\ Len(chatroom_connection[p]) <= 1
      BY DEF TypeOK, HandInv, Once, AddressOnce
    <3>2. /\ Tail(chatroom_connection[p]) = <<>> /\ 1 \in DOMAIN chatroom_connection[p]
          /\ chatroom_connection[p][1] = r
      BY <1>1, <3>1, LastOne DEF AddressWaits
    <3>3. r \in Rooms
      BY <3>1, <3>2
    <3> QED
      BY <2>1, <3>2, <3>3 DEF HandInv, Wired, Rooms, NoRoom
  <2>4. /\ Turn(p, "address", "address") /\ Fits(p, "address")
        /\ OnlyTurn(p, "address", "address")
        /\ "address" \in Sorts /\ "room" \in Sorts
    <3>1. Turn(p, "address", "address") /\ "address" \in Places /\ "address" \in Sorts
          /\ "room" \in Sorts
      BY <1>1 DEF Turn, AddressTurn, Places, Sorts
    <3> QED
      BY <3>1 DEF HandInv, OneTurn, TurnFits
  <2>5. AddressHeld(p)'
    BY <2>1, <2>3 DEF AddressHeld
  <2>6. Fits(p, "room")'
    <3>1. clients' = clients /\ \A t : Standing(p, t)' = Standing(p, t)
      BY <1>1 DEF besides_reader, Standing
    <3>2. Standing(p, "address") => Standing(p, "room")
      BY DEF Standing
    <3> QED
      BY <2>4, <2>5, <3>1, <3>2 DEF Fits
  <2>7. \A i \in DOMAIN to_server[p] : to_server[p][i].kind # "Message"
    BY <1>1, <2>4 DEF Fits, HandInv, Shape
  <2>8. \A u \in Sorts : ~FrameTurn(p, u)
    BY <2>4 DEF OnlyTurn, Turn, Places
  <2>9. to_server[p] = <<>>
    <3>1. LastOf(to_server[p]).kind = "Message" \/ to_server[p] = <<>>
      BY <1>1, <2>8, SortsOf DEF FrameTurn, Sorts
    <3>2. to_server[p] # <<>> => Len(to_server[p]) \in DOMAIN to_server[p]
      BY DEF TypeOK
    <3> QED
      BY <2>7, <3>1, <3>2 DEF LastOf
  <2>10. /\ \A u \in Sorts : ~Turn(p, "address", u)'
         /\ \A z \in {"start", "user", "frame"} : Stays(p, z)
    <3>1. Stays(p, "frame")
      BY <1>1, <2>9 DEF Stays, Turn, FrameTurn
    <3> QED
      BY <1>1, <2>3, <3>1, ReaderStays DEF Turn, AddressTurn, AddressWaits
  <2>11. OneTurn(p)' /\ TurnFits(p)' /\ EventOnce(p)' /\ QuitOnce(p)'
    BY <1>1, <2>1, <2>2, <2>4, <2>6, <2>10, EventSent
  <2>12. SendShape(p)' /\ (Suspended(p)' => Head(outgoing'[p]).to = NoRoom)
    <3>1. Head(Pending(NoRoom, e)) = [to |-> NoRoom, event |-> e]
      BY DEF Pending
    <3> QED
      BY <2>1, <2>2, <3>1 DEF SendShape, Suspended
  <2> QED
    BY <1>1, <1>2, <2>1, <2>3, <2>5, <2>11, <2>12, ReaderMoves
<1> QED
  BY <1>3, <1>4

\* The client's own read task.
LEMMA OwnReaderKeeps ==
  ASSUME TypeOK, NEW p \in Peers, HandInv(p), ReadNext(p)
  PROVE  HandInv(p)'
<1>1. CASE ReadFails(p) \/ ChatroomChannelClosed(p)
  BY <1>1, ReadEnds, QuietKeeps, ReaderTouches DEF ReadFails, ChatroomChannelClosed, ReadNext,
     FrameNext, ChannelNext, Selecting, ui_vars
<1> QED
  BY <1>1, ConnectionKeeps, SendKeeps, FrameKeeps, AddressTaken
     DEF ReadNext, FrameNext, ChannelNext

-----------------------------------------------------------------------------
(* The main broker                                                         *)

\* What no step of the main broker touches.
besides_broker == <<page, step, sockets, read_vars, chat_receiver>>

\* A main broker that ends takes turns with it.
LEMMA BrokerFailsQuiet ==
  ASSUME TypeOK, NEW p \in Peers, HandInv(p), NEW reason, BrokerFails(reason),
         UNCHANGED <<besides_broker, write_pc>>,
         events' = events \/ (events # <<>> /\ events' = Tail(events))
  PROVE  Quiet(p)
<1> USE DEF besides_broker, sockets, read_vars
<1>1. WriterQuiet(p)
  BY DEF BrokerFails, WriterQuiet, Shrinks, TypeOK
<1>2. MapsQuiet(p) /\ NoticeStays(p) /\ EventStays(p)
  BY DEF BrokerFails, MapsQuiet, NoticeStays, EventStays, Shrinks
<1>3. QuitStays(p)
  BY DEF BrokerFails, QuitStays, Shrinks
<1>4. ProgramQuiet(p) /\ ReaderQuiet(p)
  BY SameQuiet DEF BrokerFails
<1> QED
  BY <1>1, <1>2, <1>3, <1>4 DEF Quiet

\* A finished task is harvested.
LEMMA HarvestQuiet ==
  ASSUME TypeOK, NEW p \in Peers, HandInv(p), HarvestClient \/ HarvestRoom
  PROVE  Quiet(p)
<1> USE DEF besides_broker, ui_vars, sockets, read_vars, write_vars
<1>1. CASE HarvestClient
  <2> DEFINE q == Head(client_disconnection)
  <2>1. UNCHANGED <<besides_broker, write_pc>> /\ events' = events
    BY <1>1 DEF HarvestClient
  <2>2. CASE ~ClientIsListed(q)
    <3>1. BrokerFails("Corrupt")
      BY <1>1, <2>2 DEF HarvestClient
    <3> QED
      BY <2>1, <3>1, BrokerFailsQuiet
  <2>3. CASE ClientIsListed(q)
    <3>1. /\ clients' = clients \ {q}
          /\ username' = [username EXCEPT ![q] = None]
          /\ chatroom_broker_id' = [chatroom_broker_id EXCEPT ![q] = NoRoom]
          /\ main_responses' = Empty(main_responses, q)
          /\ subscriptions' = Empty(subscriptions, q)
          /\ UNCHANGED <<chatroom_connection, chat_events, client_exit>>
      BY <1>1, <2>3 DEF HarvestClient
    <3>2. WriterQuiet(p)
      BY <2>1, <3>1 DEF WriterQuiet, Empty, Shrinks, TypeOK
    <3>3. MapsQuiet(p)
      BY <3>1 DEF MapsQuiet, TypeOK
    <3> QED
      BY <2>1, <3>1, <3>2, <3>3, SameQuiet DEF Quiet
  <2> QED
    BY <2>2, <2>3
<1>2. CASE HarvestRoom
  <2> DEFINE r == Head(disconnected_sub_broker)
  <2>1. UNCHANGED <<besides_broker, write_pc>> /\ events' = events
    BY <1>2 DEF HarvestRoom
  <2>2. CASE r \in chatroom_brokers
    <3>1. BrokerFails("RoomStillInMap")
      BY <1>2, <2>2 DEF HarvestRoom
    <3> QED
      BY <2>1, <3>1, BrokerFailsQuiet
  <2>3. CASE r \notin chatroom_brokers
    <3>1. /\ chat_events' = Empty(chat_events, r)
          /\ UNCHANGED <<registry, peer_channels, client_exit>>
      BY <1>2, <2>3 DEF HarvestRoom
    <3>2. QuitStays(p)
      BY <3>1 DEF QuitStays, Empty, Shrinks, TypeOK
    <3> QED
      BY <2>1, <3>1, <3>2, SameQuiet DEF Quiet, registry, client_vars, peer_channels
  <2> QED
    BY <2>2, <2>3
<1> QED
  BY <1>1, <1>2

\* The event the main broker takes is its client's turn, and there is no other.
LEMMA HeadEvent ==
  ASSUME TypeOK, NEW p \in Peers, HandInv(p), events # <<>>, Head(events).peer_id = p
  PROVE  \E s \in Sorts :
           /\ s = EventSort(Head(events).kind)
           /\ Turn(p, "event", s) /\ Fits(p, s) /\ OnlyTurn(p, "event", s)
           /\ ~Holds(Tail(events), EventsOf(p))
<1>1. PICK s \in Sorts : s = EventSort(Head(events).kind)
  BY SortsOf
<1>2. /\ Head(events) \in Event /\ Head(events) \in EventsOf(p)
      /\ Head(events) \in EventsAs(p, s)
  <2>1. Head(events) \in Event
    BY ReceiveType DEF TypeOK
  <2> QED
    BY <1>1, <2>1 DEF EventsAs, EventsOf
<1>3. 1 \in DOMAIN events /\ events[1] = Head(events) /\ events \in Seq(Event)
  BY DEF TypeOK
<1>4. Turn(p, "event", s)
  BY <1>2, <1>3 DEF Turn, EventTurn, Holds
<1>5. Fits(p, s) /\ OnlyTurn(p, "event", s)
  BY <1>4 DEF HandInv, OneTurn, TurnFits, Places
<1>6. ~Holds(Tail(events), EventsOf(p))
  <2> DEFINE V == EventsOf(p)
  <2>1. AtMostOne(events, V) /\ Head(events) \in V
    BY <1>2 DEF HandInv, Once, EventOnce
  <2> HIDE DEF V
  <2>2. ~Holds(Tail(events), V)
    BY <1>3, <2>1, HoldsTail
  <2> QED
    BY <2>2 DEF V
<1> QED
  BY <1>1, <1>4, <1>5, <1>6

\* A client whose turn is such an event or a notice is tied to no chatroom.
LEMMA OutsideRooms ==
  ASSUME TypeOK, NEW p \in Peers, HandInv(p), NEW x \in {"event", "notice"},
         NEW s \in Sorts \ {"address", "room"}, Turn(p, x, s)
  PROVE  /\ ~AddressHeld(p) /\ ~Entering(p) /\ ~Subscribed(p) /\ step[p] # "request"
         /\ chatroom_connection[p] = <<>> /\ subscriptions[p] = <<>>
         /\ Suspended(p) => Head(outgoing[p]).to = NoRoom
         /\ read_pc[p] = "running" => to_server[p] = <<>>
<1>1. Fits(p, s) /\ \A y \in Places \ {x} : \A t \in Sorts : ~Turn(p, y, t)
  BY DEF HandInv, OneTurn, TurnFits, OnlyTurn, Places
<1>2. ~AddressHeld(p) /\ ~Entering(p) /\ subscriptions[p] = <<>>
  BY <1>1 DEF Fits, Entering, OpeningWaits
<1>3. step[p] # "request"
  BY <1>1, SortsOf DEF Turn, UserTurn, HandInv, Shape, Places
<1>4. ~Subscribed(p)
  BY <1>2, <1>3 DEF Subscribed, Entering, OpeningWaits
<1>5. chatroom_connection[p] = <<>>
  BY <1>1 DEF Turn, AddressTurn, AddressWaits, Places, Sorts
<1>6. Suspended(p) => Head(outgoing[p]).to = NoRoom
  <2>1. Suspended(p) => Head(outgoing[p]).event.kind = "Message"
    BY <1>1, SortsOf DEF Turn, SendTurn, Places, Sorts
  <2> QED
    BY <1>2, <2>1 DEF HandInv, Shape, SendShape, AddressHeld
<1>7. read_pc[p] = "running" => to_server[p] = <<>>
  <2>1. \A t \in Sorts : ~FrameTurn(p, t)
    BY <1>1 DEF Turn, Places
  <2>2. read_pc[p] = "running" =>
          \A i \in DOMAIN to_server[p] : to_server[p][i].kind = "Message"
    BY <2>1, FrameIsTurn DEF HandInv, Once, TypeOK
  <2>3. read_pc[p] = "running" =>
          \A i \in DOMAIN to_server[p] : to_server[p][i].kind # "Message"
    BY <1>2 DEF HandInv, Shape
  <2>4. to_server[p] # <<>> => 1 \in DOMAIN to_server[p]
    BY DEF TypeOK
  <2> QED
    BY <2>2, <2>3, <2>4
<1> QED
  BY <1>2, <1>3, <1>4, <1>5, <1>6, <1>7

\* The maps may then change as they like.
LEMMA NothingWired ==
  ASSUME TypeOK, NEW p \in Peers, HandInv(p), NEW x \in {"event", "notice"},
         NEW s \in Sorts \ {"address", "room"}, Turn(p, x, s),
         UNCHANGED <<besides_broker, chatroom_connection, subscriptions>>
  PROVE  Wired(p)'
<1>1. /\ ~AddressHeld(p) /\ ~Subscribed(p)
      /\ chatroom_connection[p] = <<>> /\ subscriptions[p] = <<>>
      /\ Suspended(p) => Head(outgoing[p]).to = NoRoom
  BY OutsideRooms
<1>2. DOMAIN <<>> = {}
  OBVIOUS
<1> USE DEF besides_broker, sockets, read_vars
<1>3. ~AddressHeld(p)' /\ ~Subscribed(p)'
  BY <1>1 DEF AddressHeld, Subscribed, Openings, JoinedKinds
<1>4. Suspended(p)' => Head(outgoing'[p]).to = NoRoom
  BY <1>1 DEF Suspended
<1>5. chatroom_connection'[p] = <<>> /\ subscriptions'[p] = <<>>
  BY <1>1
<1> QED
  BY <1>2, <1>3, <1>4, <1>5 DEF Wired

\* The turn goes from an event or a notice to the main broker's answer.
LEMMA BrokerAnswers ==
  ASSUME TypeOK, NEW p \in Peers, HandInv(p), NEW x \in {"event", "notice"},
         NEW s \in Sorts, Turn(p, x, s), NEW m \in Answers,
         NEW t \in Sorts, t = AnswerSort(m.kind), Fits(p, t)', Wired(p)',
         main_responses' = Put(main_responses, p, m),
         UNCHANGED <<besides_broker, chatroom_connection, subscriptions, chat_events>>,
         x = "event" =>
           /\ events # <<>> /\ events' = Tail(events) /\ ~Holds(events', EventsOf(p))
           /\ UNCHANGED client_exit,
         x = "notice" =>
           /\ client_exit # <<>> /\ client_exit' = Tail(client_exit)
           /\ ~Holds(client_exit', {p}) /\ UNCHANGED events
  PROVE  HandInv(p)'
<1> USE DEF besides_broker, sockets, read_vars
<1>1. /\ x \in Places /\ "answer" \in Places /\ OneTurn(p)
      /\ \A y \in Places \ {x} : \A u \in Sorts : ~Turn(p, y, u)
  BY DEF HandInv, OneTurn, OnlyTurn, Places
<1>2. main_responses[p] = <<>>
  <2>1. \A u \in Sorts : ~AnswerTurn(p, u)
    BY <1>1 DEF Turn
  <2> QED
    BY <2>1, SortsOf DEF AnswerTurn, Sorts
<1>3. /\ m.kind \in AnswerKinds
      /\ main_responses'[p] = Append(main_responses[p], m)
  BY DEF Answers, Put, TypeOK
<1>4. /\ main_responses'[p] # <<>> /\ Head(main_responses'[p]) = m /\ Len(main_responses'[p]) <= 1
      /\ \A i \in DOMAIN main_responses'[p] : main_responses'[p][i] = m
  <2>1. main_responses'[p] = <<m>>
    BY <1>2, <1>3
  <2> QED
    BY <2>1
<1>5. \A u \in Sorts : Turn(p, "answer", u)' => u = t
  BY <1>4 DEF Turn, AnswerTurn, AnswerSort
<1>6. EventStays(p) /\ NoticeStays(p)
  BY DEF EventStays, NoticeStays, Shrinks
<1>7. \A z \in Places \ {x, "answer"} : Stays(p, z)
  <2>1. /\ StartStays(p) /\ UserStays(p) /\ FrameStays(p) /\ SendStays(p) /\ QuitStays(p)
        /\ AddressStays(p) /\ ResponseStays(p)
    BY DEF StartStays, UserStays, FrameStays, SendStays, QuitStays, AddressStays,
       ResponseStays, Shrinks
  <2> QED
    BY <1>6, <2>1, PlacesStay DEF Places
<1>8. \A u \in Sorts : ~Turn(p, x, u)'
  <2>1. CASE x = "event"
    <3>1. \A u \in Sorts : ~Holds(events', EventsAs(p, u))
      BY <2>1, EventIsTurn, HoldsMore
    <3> QED
      BY <2>1, <3>1 DEF Turn, EventTurn, EventsAs, EventsOf, EventSort
  <2>2. CASE x = "notice"
    BY <2>2 DEF Turn, NoticeTurn, NoticeWaits
  <2> QED
    BY <2>1, <2>2
<1>9. OneTurn(p)' /\ TurnFits(p)'
  <2>1. \A u \in Sorts : Turn(p, x, u)' => x = "answer"
    BY <1>8
  <2> QED
    BY <1>1, <1>5, <1>7, <2>1, TurnMoves
<1>10. Once(p)'
  <2>1. QuitStays(p) /\ AddressStays(p) /\ ResponseStays(p)
    BY DEF QuitStays, AddressStays, ResponseStays, Shrinks
  <2>2. FramesOnce(p)' /\ OpeningOnce(p)'
    BY DEF HandInv, Once, FramesOnce, OpeningOnce, OpeningWaits, Openings, JoinedKinds
  <2>3. AnswerOnce(p)'
    BY <1>4 DEF AnswerOnce
  <2> QED
    BY <1>6, <2>1, <2>2, <2>3, OnceStays DEF HandInv, Once
<1>11. Shape(p)'
  <2>1. (\A i \in DOMAIN main_responses[p] : main_responses[p][i].kind \in AnswerKinds)'
    BY <1>3, <1>4 DEF AnswerKinds
  <2> QED
    BY <2>1 DEF HandInv, Shape, ClientOpen, Entering, OpeningWaits, Openings, AddressHeld,
       SendShape, Suspended, JoinedKinds
<1> QED
  BY <1>9, <1>10, <1>11 DEF HandInv

\* The main broker takes an event of another client.
LEMMA OtherEventQuiet ==
  ASSUME TypeOK, NEW p \in Peers, HandInv(p), EventNext, Head(events).peer_id # p
  PROVE  Quiet(p)
<1> USE DEF besides_broker, ui_vars, sockets, read_vars, write_vars, OnlyAnswers
<1> DEFINE q == Head(events).peer_id
<1>1. q \in Peers /\ events # <<>> /\ events' = Tail(events) /\ UNCHANGED besides_broker
  <2>1. events # <<>> /\ events' = Tail(events)
    BY DEF EventNext, NewClient, QuitEvent, Lobby, ReadSync, Username, Create, Join,
       RejectEvent, Takes
  <2>2. Head(events) \in Event
    BY <2>1, ReceiveType DEF TypeOK
  <2>3. UNCHANGED besides_broker
    BY DEF EventNext, NewClient, QuitEvent, Lobby, ReadSync, Username, Create, Join,
       RejectEvent, Refuse, Admit
  <2> QED
    BY <2>1, <2>2, <2>3, EventParts
<1>2. EventStays(p)
  BY <1>1 DEF EventStays, Shrinks
<1>3. ASSUME UNCHANGED <<write_pc[p], chatroom_connection[p], main_responses[p],
                         subscriptions[p]>>,
             UNCHANGED <<chat_events, client_exit>>, MapsQuiet(p)
      PROVE  Quiet(p)
  BY <1>1, <1>2, <1>3, SameQuiet DEF Quiet
<1>4. ASSUME OnlyAnswers, UNCHANGED main_responses[p], MapsQuiet(p)
      PROVE  Quiet(p)
  BY <1>3, <1>4
<1>5. ASSUME NEW m, Respond(q, m)
      PROVE  main_responses'[p] = main_responses[p]
  BY <1>1, <1>5 DEF Respond, Put, TypeOK
<1>6. ASSUME NEW kind, Refuse(kind)
      PROVE  Quiet(p)
  BY <1>4, <1>5, <1>6, SameQuiet DEF Refuse, client_vars
<1>7. ASSUME NEW reason, BrokerFails(reason), UNCHANGED write_vars
      PROVE  Quiet(p)
  BY <1>1, <1>7, BrokerFailsQuiet
<1>8. ASSUME NEW r, NEW m, Admit(q, r, m)
      PROVE  Quiet(p)
  <2>1. /\ UNCHANGED <<write_pc, clients, username, main_responses, chat_events, client_exit>>
        /\ UNCHANGED <<chatroom_connection[p], subscriptions[p], chatroom_broker_id[p]>>
    BY <1>1, <1>8 DEF Admit, Put, client_vars, TypeOK
  <2> QED
    BY <1>3, <2>1, SameQuiet
<1>9. CASE NewClient
  <2>1. /\ UNCHANGED <<write_pc[p], main_responses[p]>> /\ clients' = clients \cup {q}
        /\ UNCHANGED <<username, chatroom_broker_id, chatroom_connection, subscriptions,
                       chat_events, client_exit>>
    BY <1>1, <1>5, <1>9 DEF NewClient, TypeOK
  <2>2. MapsQuiet(p)
    BY <1>1, <2>1 DEF MapsQuiet
  <2> QED
    BY <1>3, <2>1, <2>2
<1>10. CASE QuitEvent \/ Lobby \/ ReadSync
  BY <1>4, <1>5, <1>10, SameQuiet DEF QuitEvent, Lobby, ReadSync, client_vars
<1>11. CASE Username
  <2>1. OnlyAnswers /\ UNCHANGED <<main_responses[p], clients, username[p], chatroom_broker_id>>
    BY <1>1, <1>5, <1>11 DEF Username, TypeOK
  <2> QED
    BY <1>4, <2>1, SameQuiet
<1>12. CASE Create
  BY <1>6, <1>7, <1>8, <1>12 DEF Create
<1>13. CASE Join
  BY <1>6, <1>7, <1>8, <1>13 DEF Join
<1>14. CASE RejectEvent
  BY <1>7, <1>14 DEF RejectEvent
<1> QED
  BY <1>9, <1>10, <1>11, <1>12, <1>13, <1>14 DEF EventNext

\* The main broker answers an event of the lobby; the client stays where it is.
LEMMA LobbyAnswers ==
  ASSUME TypeOK, NEW p \in Peers, HandInv(p), events # <<>>, Head(events).peer_id = p,
         events' = Tail(events), NEW m \in Answers,
         AnswerSort(m.kind) = EventSort(Head(events).kind),
         main_responses' = Put(main_responses, p, m), OnlyAnswers,
         UNCHANGED <<clients, username, chatroom_broker_id>>
  PROVE  HandInv(p)'
<1> USE DEF besides_broker, ui_vars, sockets, read_vars, write_vars, OnlyAnswers
<1>1. PICK s \in Sorts :
        /\ s = EventSort(Head(events).kind)
        /\ Turn(p, "event", s) /\ Fits(p, s) /\ OnlyTurn(p, "event", s)
        /\ ~Holds(Tail(events), EventsOf(p))
  BY HeadEvent
<1>2. Fits(p, s)'
  BY <1>1 DEF Fits, AddressHeld, Standing, Entering, OpeningWaits, Openings, JoinedKinds
<1>3. Wired(p)'
  BY DEF HandInv, Wired, AddressHeld, Suspended, Subscribed, Openings, JoinedKinds
<1>4. ~Holds(events', EventsOf(p))
  BY <1>1
<1> QED
  BY <1>1, <1>2, <1>3, <1>4, BrokerAnswers

\* The main broker puts the client in a chatroom: its address takes the turn.
LEMMA AdmitMoves ==
  ASSUME TypeOK, NEW p \in Peers, HandInv(p), events # <<>>, Head(events).peer_id = p,
         events' = Tail(events), EventSort(Head(events).kind) = "lobby",
         MayEnter(p), NEW r \in Rooms, NEW m, m.kind \in JoinedKinds, Admit(p, r, m)
  PROVE  HandInv(p)'
<1> USE DEF besides_broker, ui_vars, sockets, read_vars, write_vars, client_vars
<1> DEFINE o == [receiver |-> Receiver(r), response |-> m]
<1>1. /\ UNCHANGED <<besides_broker, write_pc, clients, username, main_responses,
                     chat_events, client_exit>>
      /\ chatroom_broker_id'[p] = r
      /\ chatroom_connection'[p] = Append(chatroom_connection[p], r)
      /\ subscriptions'[p] = Append(subscriptions[p], o)
  BY DEF Admit, Put, TypeOK
<1>2. /\ Turn(p, "event", "lobby") /\ Fits(p, "lobby") /\ OnlyTurn(p, "event", "lobby")
      /\ ~Holds(Tail(events), EventsOf(p))
      /\ "lobby" \in Sorts \ {"address", "room"} /\ "address" \in Sorts
  BY HeadEvent DEF Sorts
<1>3. /\ ~AddressHeld(p) /\ ~Entering(p) /\ ~Subscribed(p) /\ step[p] # "request"
      /\ chatroom_connection[p] = <<>> /\ subscriptions[p] = <<>>
      /\ Suspended(p) => Head(outgoing[p]).to = NoRoom
      /\ read_pc[p] = "running" => to_server[p] = <<>>
  BY <1>2, OutsideRooms
<1>4. chatroom_connection'[p] = <<r>> /\ subscriptions'[p] = <<o>>
  BY <1>1, <1>3
<1>5. /\ Len(chatroom_connection'[p]) <= 1 /\ Len(subscriptions'[p]) <= 1
      /\ \A i \in DOMAIN chatroom_connection'[p] : chatroom_connection'[p][i] = r
      /\ \A i \in DOMAIN subscriptions'[p] :
           /\ subscriptions'[p][i].receiver.room = r
           /\ subscriptions'[p][i].response = m
  <2>1. \A i \in DOMAIN subscriptions'[p] : subscriptions'[p][i] = o
    BY <1>4
  <2>2. o.receiver.room = r /\ o.response = m
    BY DEF Receiver
  <2> QED
    BY <1>4, <2>1, <2>2
<1>6. step[p] # "readsync" /\ ~OpeningWaits(p) /\ ~Holds(to_client[p], Openings)
  BY <1>3 DEF Entering, OpeningWaits
<1>7. ~AddressHeld(p)' /\ ~Subscribed(p)' /\ (Suspended(p)' => Head(outgoing'[p]).to = NoRoom)
      /\ ~Holds(to_client[p], Openings)' /\ step'[p] \notin {"request", "readsync"}
  BY <1>1, <1>3, <1>6 DEF AddressHeld, Subscribed, Suspended, Openings, JoinedKinds
<1>8. Fits(p, "address")'
  <2>1. username[p] # None /\ r # NoRoom
    BY DEF MayEnter, Rooms, NoRoom
  <2> QED
    BY <1>1, <1>7, <2>1 DEF Fits, Standing
<1>9. EventStays(p)
  BY DEF EventStays, Shrinks
<1>10. \A z \in Places \ {"event", "address"} : Stays(p, z)
  <2>1. /\ StartStays(p) /\ UserStays(p) /\ FrameStays(p) /\ SendStays(p) /\ QuitStays(p)
        /\ NoticeStays(p) /\ AnswerStays(p) /\ ResponseStays(p)
    BY <1>1 DEF StartStays, UserStays, FrameStays, SendStays, QuitStays, NoticeStays,
       AnswerStays, ResponseStays, Shrinks
  <2> QED
    BY <2>1, PlacesStay DEF Places
<1>11. /\ \A u \in Sorts : ~Turn(p, "event", u)'
       /\ \A u \in Sorts : Turn(p, "address", u)' => u = "address"
  <2>1. \A u \in Sorts : ~Holds(events', EventsAs(p, u))
    BY <1>2, EventIsTurn, HoldsMore
  <2> QED
    BY <2>1 DEF Turn, AddressTurn, EventTurn, EventsAs, EventsOf, EventSort
<1>12. OneTurn(p)' /\ TurnFits(p)'
  <2>1. OneTurn(p) /\ "event" \in Places /\ "address" \in Places
    BY DEF HandInv, Places
  <2>2. \A u \in Sorts : Turn(p, "event", u)' => "event" = "address"
    BY <1>11
  <2> QED
    BY <1>2, <1>8, <1>10, <1>11, <2>1, <2>2, TurnMoves
<1>13. Once(p)'
  <2>1. QuitStays(p) /\ NoticeStays(p) /\ AnswerStays(p) /\ ResponseStays(p)
    BY <1>1 DEF QuitStays, NoticeStays, AnswerStays, ResponseStays, Shrinks
  <2>2. FramesOnce(p)'
    BY <1>1 DEF HandInv, Once, FramesOnce
  <2>3. OpeningOnce(p)'
    <3>1. AtMostOne(to_client[p], Openings)'
      BY <1>1 DEF HandInv, Once, OpeningOnce, Openings, JoinedKinds
    <3> QED
      BY <1>5, <1>7, <3>1 DEF OpeningOnce
  <2>4. AddressOnce(p)'
    BY <1>5 DEF AddressOnce
  <2> QED
    BY <1>9, <2>1, <2>2, <2>3, <2>4, OnceStays DEF HandInv, Once
<1>14. Shape(p)'
  <2>1. (\A i \in DOMAIN subscriptions[p] : subscriptions[p][i].response.kind \in JoinedKinds)'
    BY <1>5 DEF JoinedKinds
  <2>2. (\A i \in DOMAIN main_responses[p] : main_responses[p][i].kind \in AnswerKinds)'
    BY <1>1 DEF HandInv, Shape, AnswerKinds
  <2>3. SendShape(p)'
    BY <1>1 DEF HandInv, Shape, SendShape, Suspended
  <2>4. (read_pc[p] = "running" => to_server[p] = <<>>)'
    BY <1>1, <1>3
  <2>5. (read_pc[p] = "running" /\ ~AddressHeld(p) =>
           \A i \in DOMAIN to_server[p] : to_server[p][i].kind # "Message")'
    BY <1>1 DEF HandInv, Shape, AddressHeld
  <2>6. /\ ((read_pc[p] = "idle") <=> (page[p] = "Unstarted"))'
        /\ (page[p] = "Unstarted" => to_server[p] = <<>>)'
        /\ (step[p] # "response" => ClientOpen(p))'
    BY <1>1 DEF HandInv, Shape, ClientOpen
  <2> QED
    BY <1>7, <2>1, <2>2, <2>3, <2>4, <2>5, <2>6 DEF Shape
<1>15. Wired(p)'
  BY <1>1, <1>5, <1>7 DEF Wired
<1> QED
  BY <1>12, <1>13, <1>14, <1>15 DEF HandInv

\* The main broker takes an event of the client.
LEMMA OwnEventKeeps ==
  ASSUME TypeOK, RegistryInv, NEW p \in Peers, HandInv(p), EventNext,
         Head(events).peer_id = p
  PROVE  HandInv(p)'
<1> USE DEF besides_broker, ui_vars, sockets, read_vars, write_vars, client_vars
<1> DEFINE e == Head(events)
<1>1. events # <<>> /\ events' = Tail(events) /\ UNCHANGED besides_broker
  <2>1. events # <<>> /\ events' = Tail(events)
    BY DEF EventNext, NewClient, QuitEvent, Lobby, ReadSync, Username, Create, Join,
       RejectEvent, Takes
  <2>2. UNCHANGED besides_broker
    BY DEF EventNext, NewClient, QuitEvent, Lobby, ReadSync, Username, Create, Join,
       RejectEvent, Refuse, Admit, OnlyAnswers
  <2> QED
    BY <2>1, <2>2
<1>2. PICK s \in Sorts :
        /\ s = EventSort(e.kind)
        /\ Turn(p, "event", s) /\ Fits(p, s) /\ OnlyTurn(p, "event", s)
        /\ ~Holds(events', EventsOf(p))
  BY <1>1, HeadEvent
<1>3. e \in Event
  BY <1>1, ReceiveType DEF TypeOK
<1>4. /\ \A k \in LobbyKinds :
           WithLobby(k, LobbyState) \in Answers /\ AnswerSort(WithLobby(k, LobbyState).kind) = "lobby"
      /\ \A k \in {"ConnectionOk", "UsernameAlreadyExists", "ReadSync"} :
           Plain(k) \in Answers /\ AnswerSort(Plain(k).kind) = AnswerSort(k)
  <2>1. \A k \in LobbyKinds : WithLobby(k, LobbyState) \in Response
    BY LobbyType, WithLobbyType DEF RegistryInv
  <2>2. \A k \in LobbyKinds : WithLobby(k, LobbyState).kind = k
    BY DEF WithLobby
  <2>3. \A k \in LobbyKinds : k \in AnswerKinds /\ AnswerSort(k) = "lobby"
    BY DEF AnswerKinds, LobbyKinds, JoinedKinds, AnswerSort
  <2>4. \A k \in {"ConnectionOk", "UsernameAlreadyExists", "ReadSync"} : Plain(k) \in Answers
    BY PlainType DEF Plain, PlainKinds, Answers, AnswerKinds, JoinedKinds
  <2> QED
    BY <2>1, <2>2, <2>3, <2>4 DEF Answers, Plain
<1>5. ASSUME NEW reason, BrokerFails(reason), UNCHANGED write_vars
      PROVE  HandInv(p)'
  BY <1>1, <1>5, BrokerFailsQuiet, QuietKeeps
<1>6. ASSUME NEW kind \in LobbyKinds, Refuse(kind), s = "lobby"
      PROVE  HandInv(p)'
  <2>1. /\ main_responses' = Put(main_responses, p, WithLobby(kind, LobbyState))
        /\ OnlyAnswers /\ UNCHANGED <<clients, username, chatroom_broker_id>>
    BY <1>6 DEF Refuse, Respond
  <2>2. /\ WithLobby(kind, LobbyState) \in Answers
        /\ AnswerSort(WithLobby(kind, LobbyState).kind) = EventSort(e.kind)
    BY <1>2, <1>4, <1>6
  <2> QED
    BY <1>1, <2>1, <2>2, LobbyAnswers
<1>7. CASE NewClient
  <2> DEFINE m == Plain("ConnectionOk")
  <2>1. /\ e.kind = "NewClient" /\ p \notin clients /\ s = "new"
        /\ main_responses' = Put(main_responses, p, m)
        /\ UNCHANGED <<username, chatroom_broker_id, chatroom_connection, subscriptions,
                       chat_events, client_exit>>
    BY <1>2, <1>7 DEF NewClient, Takes, Acceptable, Respond, EventSort
  <2>2. m \in Answers /\ AnswerSort(m.kind) = "unnamed" /\ "unnamed" \in Sorts
    BY <1>4 DEF AnswerSort, Sorts
  <2>3. username[p] = None /\ chatroom_broker_id[p] = NoRoom
    BY <2>1 DEF RegistryInv, UsernamesAgree
  <2>4. Fits(p, "unnamed")'
    <3>1. ~AddressHeld(p) /\ ~Entering(p)
      BY <1>2, <2>1 DEF Fits
    <3> QED
      BY <1>1, <2>1, <2>3, <3>1 DEF Fits, Standing, AddressHeld, Entering, OpeningWaits,
         Openings, JoinedKinds
  <2>5. Wired(p)'
    BY <1>1, <1>2, <2>1, NothingWired
  <2> HIDE DEF m
  <2> QED
    BY <1>1, <1>2, <2>1, <2>2, <2>4, <2>5, BrokerAnswers
<1>8. CASE QuitEvent
  <2>1. EventStays(p)
    BY <1>1 DEF EventStays, Shrinks
  <2> QED
    BY <1>8, <2>1, SameQuiet, QuietKeeps DEF Quiet, QuitEvent, OnlyAnswers
<1>9. CASE Lobby
  <2>1. s = "lobby"
    BY <1>2, <1>9 DEF Lobby, Takes, EventSort
  <2>2. Refuse("Lobby") /\ "Lobby" \in LobbyKinds
    BY <1>9 DEF Lobby, Refuse, LobbyKinds
  <2> QED
    BY <1>6, <2>1, <2>2
<1>10. CASE ReadSync
  <2>1. /\ main_responses' = Put(main_responses, p, Plain("ReadSync"))
        /\ OnlyAnswers /\ UNCHANGED <<clients, username, chatroom_broker_id>>
        /\ e.kind = "ReadSync"
    BY <1>10 DEF ReadSync, Takes, Respond
  <2>2. Plain("ReadSync") \in Answers /\ AnswerSort(Plain("ReadSync").kind) = EventSort(e.kind)
    BY <1>4, <2>1 DEF AnswerSort, EventSort
  <2> QED
    BY <1>1, <2>1, <2>2, LobbyAnswers
<1>11. CASE Username
  <2>1. e.kind = "Username" /\ MayTakeUsername(p) /\ s = "unnamed" /\ OnlyAnswers
        /\ UNCHANGED <<clients, chatroom_broker_id>>
    BY <1>2, <1>11 DEF Username, Takes, Acceptable, EventSort
  <2>2. CASE e.arg \in client_usernames
    <3>1. /\ main_responses' = Put(main_responses, p, Plain("UsernameAlreadyExists"))
          /\ UNCHANGED username
      BY <1>11, <2>2 DEF Username, Respond
    <3>2. /\ Plain("UsernameAlreadyExists") \in Answers
          /\ AnswerSort(Plain("UsernameAlreadyExists").kind) = EventSort(e.kind)
      BY <1>4, <2>1 DEF AnswerSort, EventSort
    <3> QED
      BY <1>1, <2>1, <3>1, <3>2, LobbyAnswers
  <2>3. CASE e.arg \notin client_usernames
    <3> DEFINE m == WithLobby("UsernameOk", LobbyState)
    <3>1. /\ main_responses' = Put(main_responses, p, m)
          /\ username'[p] = e.arg
      BY <1>11, <2>3 DEF Username, Respond, TypeOK
    <3>2. username'[p] # None
      BY <1>3, <2>1, <3>1, EventParts, NoneAssumption
    <3>3. m \in Answers /\ AnswerSort(m.kind) = "lobby" /\ "lobby" \in Sorts
      BY <1>4 DEF LobbyKinds, Sorts
    <3>4. Fits(p, "lobby")'
      <4>1. ~AddressHeld(p) /\ ~Entering(p) /\ chatroom_broker_id[p] = NoRoom
        BY <1>2, <2>1 DEF Fits, MayTakeUsername
      <4> QED
        BY <1>1, <2>1, <3>2, <4>1 DEF Fits, Standing, AddressHeld, Entering, OpeningWaits,
           Openings, JoinedKinds, OnlyAnswers
    <3>5. Wired(p)'
      BY <1>1, <1>2, <2>1, NothingWired DEF OnlyAnswers
    <3> HIDE DEF m
    <3> QED
      BY <1>1, <1>2, <2>1, <3>1, <3>3, <3>4, <3>5, BrokerAnswers DEF OnlyAnswers
  <2> QED
    BY <2>2, <2>3
<1>12. ASSUME Takes("Create") \/ Takes("Join"), NEW r \in Rooms,
              NEW k \in JoinedKinds, Admit(p, r, Plain(k))
       PROVE  HandInv(p)'
  <2>1. MayEnter(p) /\ EventSort(e.kind) = "lobby"
    BY <1>12 DEF Takes, Acceptable, EventSort
  <2>2. Plain(k).kind \in JoinedKinds
    BY DEF Plain
  <2> QED
    BY <1>1, <1>12, <2>1, <2>2, AdmitMoves
<1>13. /\ "ChatroomAlreadyExists" \in LobbyKinds /\ "ChatroomDoesNotExist" \in LobbyKinds
       /\ "ChatroomFull" \in LobbyKinds
       /\ "ChatroomCreated" \in JoinedKinds /\ "Subscribed" \in JoinedKinds
  BY DEF LobbyKinds, JoinedKinds
<1>14. Create \/ Join => s = "lobby"
  BY <1>2 DEF Create, Join, Takes, EventSort
<1>15. CASE Create
  BY <1>5, <1>6, <1>12, <1>13, <1>14, <1>15 DEF Create
<1>16. CASE Join
  <2>1. e.arg \in Names
    BY <1>3, <1>16, EventParts DEF Join, Takes
  <2>2. chatroom_name_to_id[e.arg] # NoRoom => chatroom_name_to_id[e.arg] \in Rooms
    BY <2>1 DEF TypeOK, RoomOrNone
  <2> QED
    BY <1>5, <1>6, <1>12, <1>13, <1>14, <1>16, <2>2 DEF Join
<1>17. CASE RejectEvent
  BY <1>5, <1>17 DEF RejectEvent
<1> QED
  BY <1>7, <1>8, <1>9, <1>10, <1>11, <1>15, <1>16, <1>17 DEF EventNext

\* A sub-broker's notice: the client is back in the lobby, and told so.
LEMMA ExitAnswers ==
  ASSUME TypeOK, NEW p \in Peers, HandInv(p), ClientExit
  PROVE  Quiet(p) \/ (NoticeWaits(p) /\ HandInv(p)')
<1> USE DEF besides_broker, ui_vars, sockets, read_vars, write_vars, client_vars
<1> DEFINE q == Head(client_exit)
<1>1. /\ client_exit # <<>> /\ q \in Peers /\ client_exit \in Seq(Peers)
      /\ UNCHANGED <<besides_broker, write_pc, events>>
  BY ReceiveType DEF ClientExit, TypeOK
<1>2. ASSUME NEW reason, BrokerFails(reason)
      PROVE  Quiet(p)
  BY <1>1, <1>2, BrokerFailsQuiet
<1>3. CASE q \notin clients \/ chatroom_broker_id[q] = NoRoom
           \/ ~RoomIsListed(chatroom_broker_id[q])
  BY <1>2, <1>3 DEF ClientExit
<1>4. CASE ~(q \notin clients \/ chatroom_broker_id[q] = NoRoom
             \/ ~RoomIsListed(chatroom_broker_id[q]))
  <2> DEFINE m == Plain("ExitChatroom")
  <2>1. /\ client_exit' = Tail(client_exit)
        /\ chatroom_broker_id' = [chatroom_broker_id EXCEPT ![q] = NoRoom]
        /\ main_responses' = Put(main_responses, q, m)
        /\ UNCHANGED <<clients, username, chatroom_connection, subscriptions, chat_events>>
    BY <1>4 DEF ClientExit, Respond
  <2>2. CASE q # p
    <3>1. /\ UNCHANGED <<main_responses[p], chatroom_broker_id[p]>> /\ NoticeStays(p)
      BY <1>1, <2>1, <2>2 DEF Put, NoticeStays, Shrinks, TypeOK
    <3> QED
      BY <1>1, <2>1, <3>1, SameQuiet DEF Quiet
  <2>3. CASE q = p
    <3>1. Turn(p, "notice", "leaving") /\ Fits(p, "leaving")
          /\ "leaving" \in Sorts \ {"address", "room"} /\ "lobby" \in Sorts
          /\ NoticeWaits(p)
      <4>1. 1 \in DOMAIN client_exit /\ client_exit[1] = p
        BY <1>1, <2>3
      <4>2. Turn(p, "notice", "leaving") /\ NoticeWaits(p)
        BY <4>1 DEF Turn, NoticeTurn, NoticeWaits, Holds
      <4> QED
        BY <4>2 DEF HandInv, TurnFits, Places, Sorts
    <3>2. ~Holds(client_exit', {p})
      <4>1. AtMostOne(client_exit, {p}) /\ Head(client_exit) \in {p}
        BY <2>3 DEF HandInv, Once, NoticeOnce
      <4> QED
        BY <1>1, <2>1, <4>1, HoldsTail
    <3>3. m \in Answers /\ AnswerSort(m.kind) = "lobby"
      BY PlainType DEF Plain, PlainKinds, Answers, AnswerKinds, JoinedKinds, AnswerSort
    <3>4. Fits(p, "lobby")'
      <4>1. /\ ~AddressHeld(p) /\ ~Entering(p)
            /\ username[p] # None
        BY <1>4, <2>3, <3>1 DEF Fits, Standing
      <4>2. chatroom_broker_id'[p] = NoRoom
        BY <2>1, <2>3 DEF TypeOK
      <4> QED
        BY <1>1, <2>1, <4>1, <4>2 DEF Fits, Standing, AddressHeld, Entering, OpeningWaits,
           Openings, JoinedKinds
    <3>5. Wired(p)'
      BY <1>1, <2>1, <3>1, NothingWired
    <3> HIDE DEF m
    <3> QED
      BY <1>1, <2>1, <2>3, <3>1, <3>2, <3>3, <3>4, <3>5, BrokerAnswers
  <2> QED
    BY <2>2, <2>3
<1> QED
  BY <1>3, <1>4

-----------------------------------------------------------------------------
(* Every step                                                              *)

MessageEvents == {e \in Event : e.kind = "Message"}

\* A read task sends messages to its chatroom, not to the main broker.
LEMMA NoMessageSent ==
  ASSUME TypeOK, NEW q \in Peers, HandInv(q), ReadNext(q)
  PROVE  \/ UNCHANGED events
         \/ \E e \in Event \ MessageEvents : events' = Append(events, e)
<1>1. \A k \in {"NewClient", "ReadSync"} : Signal(k, q) \in Event \ MessageEvents
  BY SignalType DEF Signal, MessageEvents
<1>2. ASSUME NEW to, NEW e, e \in Event,
             to = NoRoom => e \in Event \ MessageEvents, Enqueue(to, e)
      PROVE  \/ UNCHANGED events
             \/ \E f \in Event \ MessageEvents : events' = Append(events, f)
  BY <1>2 DEF Enqueue
<1>3. CASE AcceptConnection(q)
  BY <1>1, <1>3 DEF AcceptConnection, Send, Enqueue
<1>4. CASE ResumeSend(q)
  <2>1. Head(outgoing[q]) \in SuspendedSend
    BY <1>4, ReceiveType DEF ResumeSend, Suspended, TypeOK
  <2>2. /\ Head(outgoing[q]).event \in Event
        /\ Head(outgoing[q]).to = NoRoom =>
             Head(outgoing[q]).event \in Event \ MessageEvents
    BY <1>4, <2>1 DEF SuspendedSend, ResumeSend, HandInv, Shape, SendShape, MessageEvents
  <2> QED
    BY <1>2, <1>4, <2>2 DEF ResumeSend, Send
<1>5. CASE ReadFrame(q)
  <2> DEFINE frame == Head(to_server[q])
             e == EventOf(q, frame)
  <2>1. frame \in Frame
    BY <1>5, ReceiveType DEF ReadFrame, TypeOK
  <2>2. e \in Event /\ e.kind = frame.kind
    BY <2>1, EventOfType DEF EventOf
  <2>3. CASE UNCHANGED events
    BY <2>3
  <2>4. CASE ~UNCHANGED events
    <3>1. frame.kind \in LegalFrames(chatroom_sender[q]) /\ Enqueue(chatroom_sender[q], e)
      BY <1>5, <2>4 DEF ReadFrame, Send
    <3>2. chatroom_sender[q] = NoRoom => e \in Event \ MessageEvents
      BY <2>2, <3>1 DEF LegalFrames, MessageEvents
    <3> QED
      BY <1>2, <2>2, <3>1, <3>2
  <2> QED
    BY <2>3, <2>4
<1>6. CASE ReadFails(q) \/ ChatroomChannelClosed(q)
  BY <1>6 DEF ReadFails, ChatroomChannelClosed
<1>7. CASE NewChatroomChannel(q)
  BY <1>1, <1>7 DEF NewChatroomChannel, Enqueue
<1> QED
  BY <1>3, <1>4, <1>5, <1>6, <1>7 DEF ReadNext, FrameNext, ChannelNext

\* Nobody else sends to the main broker's queue of events.
LEMMA EventsTouched ==
  ASSUME TypeOK, [Next]_vars, \A q \in Peers : ~ReadNext(q)
  PROVE  UNCHANGED events \/ (events # <<>> /\ events' = Tail(events))
<1>1. CASE BrokerNext
  <2>1. CASE HarvestClient \/ HarvestRoom \/ ClientExit
    BY <2>1 DEF HarvestClient, HarvestRoom, ClientExit
  <2>2. CASE EventNext
    BY <2>2 DEF EventNext, NewClient, QuitEvent, Lobby, ReadSync, Username, Create, Join,
       RejectEvent, Takes
  <2> QED
    BY <1>1, <2>1, <2>2 DEF BrokerNext
<1>2. ASSUME NEW q \in Peers, WriteNext(q)
      PROVE  UNCHANGED events
  BY <1>2 DEF WriteNext, BroadcastNext, Shutdown, MainResponse, Subscription, ChatMessage,
     Lagged, WriteFails, WriteTaskOnly
<1>3. ASSUME NEW q \in Peers, UserNext(q) \/ ProgramNext(q)
      PROVE  UNCHANGED events
  BY <1>3 DEF UserNext, RequestUsername, RequestChatroom, RequestQuit, SendMessage,
     QuitChatroom, Kill, ProgramNext, AskUsername, ShowLobby, AwaitConfirmation,
     EnterChatroom, ShowMessage, LeaveChatroom, SayGoodbye, RefreshLobby,
     UnexpectedResponse, ConnectionFails, Request, UIOnly, channels
<1>4. ASSUME NEW r \in Rooms, RoomNext(r)
      PROVE  UNCHANGED events
  BY <1>4 DEF RoomNext, RoomEventNext, RoomMessage, RoomQuit, RoomShutdown, RoomOnly
<1>5. CASE UNCHANGED vars
  BY <1>5 DEF vars, channels
<1> QED
  BY <1>1, <1>2, <1>3, <1>4, <1>5 DEF Next

\* So none is ever there.
LEMMA MessagesStayOut ==
  ASSUME TypeOK, HandIInv, [Next]_vars
  PROVE  \A i \in DOMAIN events' : events'[i].kind # "Message"
<1> DEFINE V == MessageEvents
<1>1. events \in Seq(Event) /\ ~Holds(events, V)
  BY DEF TypeOK, HandIInv, Holds, MessageEvents
<1>2. /\ events' \in Seq(Event)
      /\ ~Holds(events', V)
  <2> HIDE DEF V
  <2>1. CASE \A q \in Peers : ~ReadNext(q)
    <3>1. CASE UNCHANGED events
      BY <1>1, <3>1
    <3>2. CASE events # <<>> /\ events' = Tail(events)
      BY <1>1, <3>2, HoldsTail
    <3> QED
      BY <2>1, <3>1, <3>2, EventsTouched
  <2>2. ASSUME NEW q \in Peers, ReadNext(q)
        PROVE  events' \in Seq(Event) /\ ~Holds(events', V)
    <3>1. HandInv(q)
      BY DEF HandIInv
    <3>2. CASE UNCHANGED events
      BY <1>1, <3>2
    <3>3. ASSUME NEW e \in Event, e \notin V, events' = Append(events, e)
          PROVE  events' \in Seq(Event) /\ ~Holds(events', V)
      BY <1>1, <3>3, HoldsAppend
    <3> QED
      BY <2>2, <3>1, <3>2, <3>3, NoMessageSent DEF V
  <2> QED
    BY <2>1, <2>2
<1> QED
  BY <1>2 DEF Holds, MessageEvents

\* Every step keeps every client's part of the invariant.
LEMMA StepKeeps ==
  ASSUME TypeOK, RegistryInv, NEW p \in Peers, \A q \in Peers : HandInv(q), [Next]_vars
  PROVE  HandInv(p)'
<1>1. CASE BrokerNext
  <2>1. CASE EventNext
    <3>1. CASE Head(events).peer_id = p
      BY <2>1, <3>1, OwnEventKeeps
    <3>2. CASE Head(events).peer_id # p
      BY <2>1, <3>2, OtherEventQuiet, QuietKeeps
    <3> QED
      BY <3>1, <3>2
  <2> QED
    BY <1>1, <2>1, HarvestQuiet, ExitAnswers, QuietKeeps DEF BrokerNext
<1>2. ASSUME NEW q \in Peers, ReadNext(q)
      PROVE  HandInv(p)'
  <2>1. CASE q = p
    BY <1>2, <2>1, OwnReaderKeeps
  <2>2. CASE q # p
    BY <1>2, <2>2, OtherReaderQuiet, QuietKeeps
  <2> QED
    BY <2>1, <2>2
<1>3. ASSUME NEW q \in Peers, WriteNext(q) \/ UserNext(q) \/ ProgramNext(q), q # p
      PROVE  HandInv(p)'
  BY <1>3, OthersQuiet, QuietKeeps
<1>4. CASE WriteNext(p)
  BY <1>4, WriterEnds, QuietKeeps, AnswerMoves, SubscriptionKeeps DEF WriteNext, BroadcastNext
<1>5. CASE UserNext(p)
  <2>1. CASE Kill(p)
    BY <2>1, ProgramEnds, QuietKeeps
  <2>2. CASE \/ \E n \in Names : RequestChatroom(p, "Create", n)
             \/ \E n \in Names : RequestChatroom(p, "Join", n)
    BY <2>2, RequestKeeps
  <2>3. CASE \/ \E u \in Choices[p] : RequestUsername(p, u)
             \/ RequestQuit(p) \/ SendMessage(p) \/ QuitChatroom(p)
    BY <2>3, RequestKeeps
  <2> QED
    BY <1>5, <2>1, <2>2, <2>3 DEF UserNext
<1>6. CASE ProgramNext(p)
  <2>1. CASE \/ AskUsername(p) \/ ShowLobby(p) \/ AwaitConfirmation(p)
             \/ EnterChatroom(p) \/ LeaveChatroom(p)
    BY <2>1, ResponseKeeps
  <2>2. CASE RefreshLobby(p)
    BY <2>2, RequestKeeps
  <2>3. CASE ShowMessage(p) \/ SayGoodbye(p) \/ UnexpectedResponse(p) \/ ConnectionFails(p)
    BY <2>3, ProgramEnds, QuietKeeps
  <2> QED
    BY <1>6, <2>1, <2>2, <2>3 DEF ProgramNext
<1>7. ASSUME NEW r \in Rooms, RoomNext(r)
      PROVE  HandInv(p)'
  BY <1>7, SubBrokerKeeps, QuietKeeps
<1>8. CASE UNCHANGED vars
  <2>1. /\ ProgramQuiet(p) /\ ReaderQuiet(p) /\ WriterQuiet(p) /\ MapsQuiet(p)
        /\ EventStays(p) /\ QuitStays(p) /\ NoticeStays(p)
    BY <1>8, SameQuiet DEF vars, ui_vars, sockets, read_vars, write_vars, registry,
       client_vars, channels, peer_channels
  <2> QED
    BY <2>1, QuietKeeps DEF Quiet
<1> QED
  BY <1>1, <1>2, <1>3, <1>4, <1>5, <1>6, <1>7, <1>8 DEF Next

\* At first the turn is with the client that has yet to connect.
LEMMA InitHand == Init => HandIInv
<1> SUFFICES ASSUME Init PROVE HandIInv
  OBVIOUS
<1>1. Len(<<>>) = 0 /\ DOMAIN <<>> = {}
  OBVIOUS
<1> SUFFICES ASSUME NEW p \in Peers PROVE HandInv(p)
  BY <1>1 DEF HandIInv, Init
<1>2. /\ page[p] = "Unstarted" /\ step[p] = "response" /\ read_pc[p] = "idle"
      /\ write_pc[p] = "idle" /\ chatroom_sender[p] = NoRoom /\ outgoing[p] = <<>>
      /\ p \notin clients
  BY DEF Init
<1>3. /\ to_server[p] = <<>> /\ to_client[p] = <<>> /\ main_responses[p] = <<>>
      /\ chatroom_connection[p] = <<>> /\ subscriptions[p] = <<>>
      /\ events = <<>> /\ client_exit = <<>> /\ \A r \in Rooms : chat_events[r] = <<>>
  BY DEF Init
<1>4. ~ClientOpen(p)
  BY <1>2 DEF ClientOpen, OpenPages
<1>5. ~Entering(p) /\ ~Subscribed(p) /\ ~AddressHeld(p) /\ ~OpeningWaits(p)
  BY <1>2, <1>3, HoldsNothing DEF Entering, OpeningWaits, Subscribed, AddressHeld
<1>6. \A x \in Places : \A s \in Sorts : Turn(p, x, s) => x = "start" /\ s = "new"
  BY <1>2, <1>3, <1>4, HoldsNothing DEF Turn, StartTurn, UserTurn, FrameTurn, SendTurn,
     Suspended, EventTurn, QuitTurn, QuitWaits, NoticeTurn, NoticeWaits, AnswerTurn,
     AddressTurn, AddressWaits, ResponseTurn, Places
<1>7. OneTurn(p)
  BY <1>6 DEF OneTurn, OnlyTurn
<1>8. TurnFits(p)
  BY <1>2, <1>5 DEF TurnFits, Fits
<1>9. Once(p)
  <2>1. FramesOnce(p) /\ AnswerOnce(p) /\ AddressOnce(p)
    BY <1>1, <1>2, <1>3 DEF FramesOnce, AnswerOnce, AddressOnce
  <2>2. EventOnce(p) /\ QuitOnce(p) /\ NoticeOnce(p) /\ ResponseOnce(p)
    BY <1>3, HoldsNothing DEF EventOnce, QuitOnce, QuitWaits, NoticeOnce, ResponseOnce
  <2>3. OpeningOnce(p)
    BY <1>1, <1>2, <1>3, HoldsNothing DEF OpeningOnce
  <2> QED
    BY <2>1, <2>2, <2>3 DEF Once
<1>10. Shape(p)
  BY <1>1, <1>2, <1>3, <1>5 DEF Shape, SendShape, Suspended
<1>11. Wired(p)
  BY <1>2 DEF Wired
<1> QED
  BY <1>7, <1>8, <1>9, <1>10, <1>11 DEF HandInv

\* Every step keeps the invariant.
LEMMA NextHand ==
  ASSUME TypeOK, RegistryInv, HandIInv, [Next]_vars
  PROVE  HandIInv'
<1>1. ASSUME NEW p \in Peers
      PROVE  HandInv(p)'
  BY StepKeeps DEF HandIInv
<1> QED
  BY <1>1, MessagesStayOut DEF HandIInv

-----------------------------------------------------------------------------
(* What the invariant says                                                 *)

\* The read task's next frame is legal where the task sends its events.
LEMMA HandFrames ==
  ASSUME TypeOK, HandIInv
  PROVE  NoIllegalFrame
<1> SUFFICES ASSUME NEW p \in Peers, Selecting(p), to_server[p] # <<>>
             PROVE  Head(to_server[p]).kind \in LegalFrames(chatroom_sender[p])
  BY DEF NoIllegalFrame
<1> DEFINE frame == Head(to_server[p])
<1>1. HandInv(p) /\ read_pc[p] = "running"
  BY DEF HandIInv, Selecting
<1>2. frame \in Frame /\ 1 \in DOMAIN to_server[p] /\ to_server[p][1] = frame
  BY ReceiveType DEF TypeOK
<1>3. CASE frame.kind = "Message"
  <2>1. AddressHeld(p)
    BY <1>1, <1>2, <1>3 DEF HandInv, Shape
  <2> QED
    BY <1>3, <2>1 DEF AddressHeld, LegalFrames
<1>4. CASE frame.kind # "Message"
  <2>1. LastOf(to_server[p]) = frame
    BY <1>1, <1>2, <1>4 DEF HandInv, Once, FramesOnce, LastOf
  <2>2. FrameSort(p, frame.kind) \in Sorts
    BY SortsOf DEF Sorts
  <2>3. Turn(p, "frame", FrameSort(p, frame.kind))
    BY <1>1, <1>4, <2>1 DEF Turn, FrameTurn
  <2>4. Fits(p, FrameSort(p, frame.kind))
    BY <1>1, <2>2, <2>3 DEF HandInv, TurnFits, Places
  <2>5. AddressHeld(p) => frame.kind = "Quit"
    BY <2>4 DEF Fits, FrameSort
  <2> QED
    BY <1>2, <1>4, <2>5 DEF AddressHeld, LegalFrames, Frame
<1> QED
  BY <1>3, <1>4

\* No frame is on its way while an address waits.
LEMMA HandTorn ==
  ASSUME TypeOK, HandIInv
  PROVE  NoTornFrame
<1> SUFFICES ASSUME NEW p \in Peers, Selecting(p), chatroom_connection[p] # <<>>
             PROVE  to_server[p] = <<>>
  BY DEF NoTornFrame
<1>1. HandInv(p) /\ read_pc[p] = "running" /\ "address" \in Places /\ "address" \in Sorts
  BY DEF HandIInv, Selecting, Places, Sorts
<1>2. Turn(p, "address", "address")
  BY DEF Turn, AddressTurn, AddressWaits
<1>3. Fits(p, "address") /\ OnlyTurn(p, "address", "address")
  BY <1>1, <1>2 DEF HandInv, OneTurn, TurnFits
<1>4. \A i \in DOMAIN to_server[p] : to_server[p][i].kind # "Message"
  BY <1>1, <1>3 DEF Fits, HandInv, Shape
<1>5. \A s \in Sorts : ~FrameTurn(p, s)
  BY <1>3 DEF OnlyTurn, Turn, Places
<1>6. \A i \in DOMAIN to_server[p] : to_server[p][i].kind = "Message"
  BY <1>1, <1>5, FrameIsTurn DEF HandInv, Once, TypeOK
<1>7. to_server[p] # <<>> => 1 \in DOMAIN to_server[p]
  BY DEF TypeOK
<1> QED
  BY <1>4, <1>6, <1>7

\* In the chat window both halves of the connection are tied to the chatroom.
LEMMA HandWired ==
  ASSUME TypeOK, HandIInv
  PROVE  WiringAgrees
<1> SUFFICES ASSUME NEW p \in Peers, page[p] = "Chatroom", step[p] = "request"
             PROVE  /\ read_pc[p] = "running" =>
                         chatroom_sender[p] = chatroom_broker_id[p] \/ p \notin clients
                    /\ write_pc[p] = "running" /\ p \in clients =>
                         /\ chat_receiver[p].room = chatroom_broker_id[p]
                         /\ chatroom_broker_id[p] # NoRoom
  BY DEF WiringAgrees
<1>1. HandInv(p) /\ Subscribed(p)
  BY DEF HandIInv, Subscribed
<1>2. UserSort(p) = "room"
  BY DEF UserSort
<1>3. Fits(p, "room")
  BY <1>1, <1>2, UserAlone
<1>4. read_pc[p] = "running" => AddressHeld(p)
  BY <1>3 DEF Fits
<1>5. p \in clients => chatroom_broker_id[p] # NoRoom
  BY <1>3 DEF Fits, Standing
<1> QED
  BY <1>1, <1>4, <1>5 DEF HandInv, Wired

\* An event that its client must not send is not at the head of the queue.
LEMMA HeadIsLegal ==
  ASSUME TypeOK, HandIInv, events # <<>>, Head(events).peer_id \in clients
  PROVE  Acceptable(Head(events))
<1> DEFINE event == Head(events)
           p == event.peer_id
<1>1. event \in Event /\ 1 \in DOMAIN events /\ events[1] = event
  BY ReceiveType DEF TypeOK
<1>2. event.kind # "Message" /\ p \in Peers
  BY <1>1, EventParts DEF HandIInv
<1>3. PICK s \in Sorts : s = EventSort(event.kind) /\ Fits(p, s)
  BY <1>2, HeadEvent DEF HandIInv
<1>4. Standing(p, s)
  BY <1>3 DEF Fits
<1> QED
  BY <1>1, <1>2, <1>3, <1>4 DEF Standing, EventSort, Acceptable, MayReadSync, MayEnter,
     MayTakeUsername, Event

\* Nor is the greeting of a client that the main broker knows.
LEMMA NextLegal ==
  ASSUME TypeOK, HandIInv, NoIllegalEvent, [Next]_vars
  PROVE  NoIllegalEvent'
<1>1. ASSUME NEW reason \in BrokerErrors \ {"IllegalEvent"}, BrokerFails(reason)
      PROVE  NoIllegalEvent'
  BY <1>1 DEF BrokerFails, NoIllegalEvent
<1>2. {"ExitOfUnknownClient", "RoomStillInMap", "NoSuchClient", "Corrupt",
       "ReadTaskGone"} \subseteq BrokerErrors \ {"IllegalEvent"}
  BY DEF BrokerErrors
<1>3. ASSUME UNCHANGED broker_pc
      PROVE  NoIllegalEvent'
  BY <1>3 DEF NoIllegalEvent
<1>4. CASE RejectEvent
  <2> DEFINE event == Head(events)
  <2>1. events # <<>> /\ ~Acceptable(event)
    BY <1>4 DEF RejectEvent
  <2>2. event.peer_id \notin clients
    BY <2>1, HeadIsLegal
  <2>3. event.kind # "NewClient"
    BY <2>1, <2>2 DEF Acceptable
  <2>4. event.kind # "Message"
    BY <2>1 DEF HandIInv, TypeOK
  <2>5. BrokerFails("NoSuchClient")
    BY <1>4, <2>2, <2>3, <2>4 DEF RejectEvent
  <2> QED
    BY <1>1, <1>2, <2>5
<1>5. CASE Create \/ Join
  BY <1>1, <1>2, <1>3, <1>5 DEF Create, Join, Refuse, OnlyAnswers, Admit
<1>6. CASE NewClient \/ QuitEvent \/ Lobby \/ ReadSync \/ Username
  BY <1>3, <1>6 DEF NewClient, QuitEvent, Lobby, ReadSync, Username, OnlyAnswers
<1>7. CASE HarvestClient \/ HarvestRoom \/ ClientExit
  BY <1>1, <1>2, <1>3, <1>7 DEF HarvestClient, HarvestRoom, ClientExit, registry
<1>8. CASE ~BrokerNext
  <2>1. UNCHANGED registry
    BY <1>8, OthersUntouched DEF Next
  <2> QED
    BY <1>3, <2>1 DEF registry
<1> QED
  BY <1>4, <1>5, <1>6, <1>7, <1>8 DEF BrokerNext, EventNext

-----------------------------------------------------------------------------
(* The theorems                                                            *)

\* A client and the server take turns: whatever the order in which the user,
\* the client program, the read task, the write task, the sub-brokers and the
\* main broker act, the turn is in one place and agrees with what each knows
\* (Interface::run, handle_connection, client_write_loop and broker).
THEOREM TurnsAreTaken == Spec => []HandIInv
<1>1. Init => HandIInv
  BY InitHand
<1>2. TypeOK /\ RegistryInv /\ HandIInv /\ [Next]_vars => HandIInv'
  BY NextHand
<1> QED
  BY <1>1, <1>2, TypeCorrect, RegistryAgrees, PTL DEF Spec

\* No read task ever meets a frame that is illegal where it sends its events
\* (handle_connection): a client that speaks the protocol is never cut off by
\* the order in which the tasks learn that it entered or left a chatroom.
THEOREM FramesAreLegal == Spec => []NoIllegalFrame
<1>1. TypeOK /\ HandIInv => NoIllegalFrame
  BY HandFrames
<1> QED
  BY <1>1, TypeCorrect, TurnsAreTaken, PTL

\* No main broker ends on an event that a client in its map must not send in
\* its state (broker and its handlers).
THEOREM EventsAreLegal == Spec => []NoIllegalEvent
<1>1. Init => NoIllegalEvent
  BY DEF Init, NoIllegalEvent
<1>2. TypeOK /\ HandIInv /\ NoIllegalEvent /\ [Next]_vars => NoIllegalEvent'
  BY NextLegal
<1> QED
  BY <1>1, <1>2, TypeCorrect, TurnsAreTaken, PTL DEF Spec

\* The read task drops no half-read frame when it takes the address of a
\* chatroom instead (the select! of handle_connection).
THEOREM FramesAreWhole == Spec => []NoTornFrame
<1>1. TypeOK /\ HandIInv => NoTornFrame
  BY HandTorn
<1> QED
  BY <1>1, TypeCorrect, TurnsAreTaken, PTL

\* While the chat window is open, what the user types goes to the chatroom the
\* main broker counts the client in, and what it broadcasts comes back.
THEOREM WindowIsWired == Spec => []WiringAgrees
<1>1. TypeOK /\ HandIInv => WiringAgrees
  BY HandWired
<1> QED
  BY <1>1, TypeCorrect, TurnsAreTaken, PTL

=============================================================================

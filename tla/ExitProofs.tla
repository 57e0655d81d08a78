----------------------------- MODULE ExitProofs -----------------------------
(***************************************************************************)
(* The main broker never finds its maps in disagreement.  Its maps are the *)
(* subject of RegistryProofs; what is left is a client's exit from its     *)
(* chatroom, which the broker learns of from the sub-broker.  The right to *)
(* exit goes from hand to hand: as the chatroom's address it waits for the *)
(* read task, the read task holds it, gives it up with a Quit event that   *)
(* may be suspended, the event waits for the sub-broker, and the sub-      *)
(* broker's notice waits for the main broker.                              *)
(***************************************************************************)
EXTENDS RegistryProofs

-----------------------------------------------------------------------------
(* Queues                                                                  *)

\* Some message of the queue is in set V; no two of them are.
Holds(queue, V) == \E i \in DOMAIN queue : queue[i] \in V
AtMostOne(queue, V) ==
  \A i, j \in DOMAIN queue : queue[i] \in V /\ queue[j] \in V => i = j

-----------------------------------------------------------------------------
(* The invariant                                                           *)

QuitsOf(p) == {e \in Event : e.kind = "Quit" /\ e.peer_id = p}
NewClientsOf(p) == {e \in Event : e.kind = "NewClient" /\ e.peer_id = p}

\* The hands the right to exit goes through.
AddressWaits(p) == chatroom_connection[p] # <<>>
AddressHeld(p) == chatroom_sender[p] # NoRoom
QuitSuspended(p) ==
  /\ Suspended(p)
  /\ Head(outgoing[p]).to # NoRoom /\ Head(outgoing[p]).event.kind = "Quit"
QuitWaits(p, r) == Holds(chat_events[r], QuitsOf(p))
NoticeWaits(p) == Holds(client_exit, {p})

MayExit(p) ==
  \/ AddressWaits(p) \/ AddressHeld(p) \/ QuitSuspended(p)
  \/ (\E r \in Rooms : QuitWaits(p, r)) \/ NoticeWaits(p)

\* Client p has yet to be put in the broker's map.
GreetingSuspended(p) == Suspended(p) /\ Head(outgoing[p]).event.kind = "NewClient"
GreetingWaits(p) == Holds(events, NewClientsOf(p))
IsNew(p) == page[p] = "Unstarted" \/ GreetingSuspended(p) \/ GreetingWaits(p)

\* It is in one hand at a time.
OneHand(p) ==
  /\ AddressWaits(p) => ~AddressHeld(p) /\ ~QuitSuspended(p) /\ ~NoticeWaits(p)
  /\ AddressHeld(p) => ~QuitSuspended(p) /\ ~NoticeWaits(p)
  /\ QuitSuspended(p) => ~NoticeWaits(p)
  /\ \A r \in Rooms : QuitWaits(p, r) =>
       /\ ~AddressWaits(p) /\ ~AddressHeld(p) /\ ~QuitSuspended(p) /\ ~NoticeWaits(p)
       /\ \A s \in Rooms : QuitWaits(p, s) => r = s

\* And once in every queue.
OnceQueued(p) ==
  /\ Len(chatroom_connection[p]) <= 1
  /\ \A r \in Rooms : AtMostOne(chat_events[r], QuitsOf(p))
  /\ AtMostOne(client_exit, {p})

\* A client is put in the map once, before it may enter a chatroom.
GreetedOnce(p) ==
  /\ AtMostOne(events, NewClientsOf(p))
  /\ page[p] = "Unstarted" => ~GreetingSuspended(p) /\ ~GreetingWaits(p)
  /\ GreetingSuspended(p) => ~GreetingWaits(p)
  /\ IsNew(p) => p \notin clients /\ ~MayExit(p)

\* A listed client that may exit a chatroom is in one.
ExitsItsRoom(p) == MayExit(p) /\ p \in clients => chatroom_broker_id[p] # NoRoom

\* A suspended event is the client's own, and its greeting is for the main broker.
OwnEvent(p) ==
  Suspended(p) =>
    /\ Head(outgoing[p]).event.peer_id = p
    /\ Head(outgoing[p]).event.kind = "NewClient" => Head(outgoing[p]).to = NoRoom

ExitInv(p) ==
  OneHand(p) /\ OnceQueued(p) /\ GreetedOnce(p) /\ ExitsItsRoom(p) /\ OwnEvent(p)

\* The inductive invariant; a broker that has ended takes no notices.
ExitIInv == BrokerRunning => \A p \in Peers : ExitInv(p)

\* The broker goes on, and the step brings p nothing: no hand gets the right to
\* exit, no queue a message of p that counts, no map a new place for p.
Loses(p) ==
  /\ Len(chatroom_connection[p])' <= Len(chatroom_connection[p])
  /\ AddressWaits(p)' => AddressWaits(p)
  /\ AddressHeld(p)' => AddressHeld(p)
  /\ QuitSuspended(p)' => QuitSuspended(p)
  /\ \A r \in Rooms :
       /\ QuitWaits(p, r)' => QuitWaits(p, r)
       /\ AtMostOne(chat_events[r], QuitsOf(p))'
  /\ NoticeWaits(p)' => NoticeWaits(p)
  /\ AtMostOne(client_exit, {p})'
  /\ page[p]' = "Unstarted" => page[p] = "Unstarted"
  /\ GreetingSuspended(p)' => GreetingSuspended(p)
  /\ GreetingWaits(p)' => GreetingWaits(p)
  /\ AtMostOne(events, NewClientsOf(p))'
  /\ p \in clients' => p \in clients /\ chatroom_broker_id'[p] = chatroom_broker_id[p]
  /\ OwnEvent(p)'

\* The queues get nothing of p that counts.
EventsKept(p) ==
  \/ events' = events
  \/ events # <<>> /\ events' = Tail(events)
  \/ \E e \in Event \ NewClientsOf(p) : events' = Append(events, e)
ChatEventsKept(p, r) ==
  \/ chat_events'[r] \in {chat_events[r], <<>>}
  \/ chat_events[r] # <<>> /\ chat_events'[r] = Tail(chat_events[r])
  \/ \E e \in Event \ QuitsOf(p) : chat_events'[r] = Append(chat_events[r], e)
NoticesKept(p) ==
  \/ client_exit' = client_exit
  \/ client_exit # <<>> /\ client_exit' = Tail(client_exit)
  \/ \E q \in Peers \ {p} : client_exit' = Append(client_exit, q)
QueuesKept(p) ==
  EventsKept(p) /\ (\A r \in Rooms : ChatEventsKept(p, r)) /\ NoticesKept(p)

-----------------------------------------------------------------------------
(* Queues                                                                  *)

\* What a queue holds after one more message.
LEMMA HoldsAppend ==
  ASSUME NEW S, NEW queue \in Seq(S), NEW m \in S, NEW V
  PROVE  /\ Holds(Append(queue, m), V) <=> Holds(queue, V) \/ m \in V
         /\ AtMostOne(queue, V) /\ ~(Holds(queue, V) /\ m \in V)
              => AtMostOne(Append(queue, m), V)
<1> DEFINE n == Len(queue)
           longer == Append(queue, m)
<1>1. /\ n \in Nat /\ DOMAIN queue = 1 .. n /\ DOMAIN longer = 1 .. n + 1
      /\ longer[n + 1] = m
      /\ \A i \in 1 .. n : longer[i] = queue[i]
  OBVIOUS
<1> HIDE DEF n, longer
<1>2. \A i \in 1 .. n + 1 : i = n + 1 \/ i \in 1 .. n
  BY <1>1
<1>3. n + 1 \in 1 .. n + 1 /\ \A i \in 1 .. n : i \in 1 .. n + 1
  BY <1>1
<1>4. Holds(longer, V) <=> Holds(queue, V) \/ m \in V
  BY <1>1, <1>2, <1>3 DEF Holds
<1>5. AtMostOne(queue, V) /\ ~(Holds(queue, V) /\ m \in V) => AtMostOne(longer, V)
  BY <1>1, <1>2, <1>3 DEF Holds, AtMostOne
<1> QED
  BY <1>4, <1>5 DEF longer

\* What a queue holds after its first message is taken.
LEMMA HoldsTail ==
  ASSUME NEW S, NEW queue \in Seq(S), queue # <<>>, NEW V
  PROVE  /\ Head(queue) \in V => Holds(queue, V)
         /\ Holds(Tail(queue), V) => Holds(queue, V)
         /\ AtMostOne(queue, V) => AtMostOne(Tail(queue), V)
         /\ AtMostOne(queue, V) /\ Head(queue) \in V => ~Holds(Tail(queue), V)
<1> DEFINE n == Len(queue)
           rest == Tail(queue)
<1>1. /\ n \in Nat \ {0} /\ DOMAIN queue = 1 .. n /\ DOMAIN rest = 1 .. n - 1
      /\ Head(queue) = queue[1]
      /\ \A i \in 1 .. n - 1 : rest[i] = queue[i + 1]
  OBVIOUS
<1> HIDE DEF n, rest
<1>2. /\ 1 \in 1 .. n
      /\ \A i \in 1 .. n - 1 : i + 1 \in 1 .. n /\ i + 1 # 1 /\ i \in Nat
      /\ \A i, j \in 1 .. n - 1 : i + 1 = j + 1 => i = j
  BY <1>1
<1>3. Head(queue) \in V => Holds(queue, V)
  BY <1>1, <1>2 DEF Holds
<1>4. Holds(rest, V) => Holds(queue, V)
  BY <1>1, <1>2 DEF Holds
<1>5. AtMostOne(queue, V) => AtMostOne(rest, V)
  BY <1>1, <1>2 DEF AtMostOne
<1>6. AtMostOne(queue, V) /\ Head(queue) \in V => ~Holds(rest, V)
  BY <1>1, <1>2 DEF AtMostOne, Holds
<1> QED
  BY <1>3, <1>4, <1>5, <1>6 DEF rest

\* An empty queue holds nothing.
LEMMA HoldsNothing == \A V : ~Holds(<<>>, V) /\ AtMostOne(<<>>, V)
  BY DEF Holds, AtMostOne

-----------------------------------------------------------------------------

\* A step that brings p nothing keeps the invariant for p.
LEMMA LosesKeeps ==
  ASSUME TypeOK, NEW p \in Peers, ExitInv(p), Loses(p)
  PROVE  ExitInv(p)'
<1>1. MayExit(p)' => MayExit(p)
  BY DEF Loses, MayExit
<1>2. OneHand(p)'
  BY DEF Loses, ExitInv, OneHand
<1>3. OnceQueued(p)'
  <2>1. Len(chatroom_connection[p]) \in Nat
    BY DEF TypeOK
  <2>2. Len(chatroom_connection[p])' <= 1
    BY <2>1 DEF Loses, ExitInv, OnceQueued
  <2> QED
    BY <2>2 DEF Loses, OnceQueued
<1>4. GreetedOnce(p)'
  BY <1>1 DEF Loses, ExitInv, GreetedOnce, IsNew
<1>5. ExitsItsRoom(p)'
  BY <1>1 DEF Loses, ExitInv, ExitsItsRoom
<1> QED
  BY <1>2, <1>3, <1>4, <1>5 DEF Loses, ExitInv

\* Such queues hold no more of p than before.
LEMMA QueuesKeep ==
  ASSUME TypeOK, NEW p \in Peers, ExitInv(p), QueuesKept(p)
  PROVE  /\ GreetingWaits(p)' => GreetingWaits(p)
         /\ AtMostOne(events, NewClientsOf(p))'
         /\ \A r \in Rooms : /\ QuitWaits(p, r)' => QuitWaits(p, r)
                            /\ AtMostOne(chat_events[r], QuitsOf(p))'
         /\ NoticeWaits(p)' => NoticeWaits(p)
         /\ AtMostOne(client_exit, {p})'
<1>1. /\ GreetingWaits(p)' => GreetingWaits(p)
      /\ AtMostOne(events, NewClientsOf(p))'
  <2> DEFINE V == NewClientsOf(p)
  <2>1. events \in Seq(Event) /\ AtMostOne(events, V)
    BY DEF TypeOK, ExitInv, GreetedOnce
  <2>2. (Holds(events', V) => Holds(events, V)) /\ AtMostOne(events', V)
    <3> HIDE DEF V
    <3>1. CASE events' = events
      BY <2>1, <3>1
    <3>2. CASE events # <<>> /\ events' = Tail(events)
      BY <2>1, <3>2, HoldsTail
    <3>3. CASE \E e \in Event \ V : events' = Append(events, e)
      BY <2>1, <3>3, HoldsAppend
    <3> QED
      BY <3>1, <3>2, <3>3 DEF QueuesKept, EventsKept, V
  <2> QED
    BY <2>2 DEF GreetingWaits, NewClientsOf
<1>2. ASSUME NEW r \in Rooms
      PROVE  /\ QuitWaits(p, r)' => QuitWaits(p, r)
             /\ AtMostOne(chat_events[r], QuitsOf(p))'
  <2> DEFINE V == QuitsOf(p)
             c == chat_events[r]
             d == chat_events'[r]
  <2>1. c \in Seq(Event) /\ AtMostOne(c, V)
    BY DEF TypeOK, ExitInv, OnceQueued
  <2>2. (Holds(d, V) => Holds(c, V)) /\ AtMostOne(d, V)
    <3>0. \/ d = c
          \/ d = <<>>
          \/ (c # <<>> /\ d = Tail(c))
          \/ \E e \in Event \ V : d = Append(c, e)
      BY DEF QueuesKept, ChatEventsKept
    <3> HIDE DEF V, c, d
    <3>1. CASE d = c
      BY <2>1, <3>1
    <3>2. CASE d = <<>>
      BY <3>2, HoldsNothing
    <3>3. CASE c # <<>> /\ d = Tail(c)
      BY <2>1, <3>3, HoldsTail
    <3>4. CASE \E e \in Event \ V : d = Append(c, e)
      BY <2>1, <3>4, HoldsAppend
    <3> QED
      BY <3>0, <3>1, <3>2, <3>3, <3>4
  <2> QED
    BY <2>2 DEF QuitWaits, QuitsOf
<1>3. /\ NoticeWaits(p)' => NoticeWaits(p)
      /\ AtMostOne(client_exit, {p})'
  <2>1. client_exit \in Seq(Peers) /\ AtMostOne(client_exit, {p})
    BY DEF TypeOK, ExitInv, OnceQueued
  <2>2. CASE client_exit' = client_exit
    BY <2>1, <2>2 DEF NoticeWaits
  <2>3. CASE client_exit # <<>> /\ client_exit' = Tail(client_exit)
    BY <2>1, <2>3, HoldsTail DEF NoticeWaits
  <2>4. CASE \E q \in Peers \ {p} : client_exit' = Append(client_exit, q)
    BY <2>1, <2>4, HoldsAppend DEF NoticeWaits
  <2> QED
    BY <2>2, <2>3, <2>4 DEF QueuesKept, NoticesKept
<1> QED
  BY <1>1, <1>2, <1>3

\* Whoever keeps the read task's variables as they are loses at most.
LEMMA BystanderKeeps ==
  ASSUME TypeOK, NEW p \in Peers, ExitInv(p), QueuesKept(p),
         UNCHANGED <<chatroom_connection[p], chatroom_sender[p], outgoing[p]>>,
         page'[p] = "Unstarted" => page[p] = "Unstarted",
         p \in clients' => p \in clients /\ chatroom_broker_id'[p] = chatroom_broker_id[p]
  PROVE  ExitInv(p)'
<1>1. /\ AddressWaits(p)' <=> AddressWaits(p)
      /\ AddressHeld(p)' <=> AddressHeld(p)
      /\ QuitSuspended(p)' <=> QuitSuspended(p)
      /\ GreetingSuspended(p)' <=> GreetingSuspended(p)
      /\ OwnEvent(p)' <=> OwnEvent(p)
  BY DEF AddressWaits, AddressHeld, QuitSuspended, GreetingSuspended, OwnEvent, Suspended
<1>2. Len(chatroom_connection[p])' <= Len(chatroom_connection[p])
  BY DEF TypeOK
<1>3. Loses(p)
  BY <1>1, <1>2, QueuesKeep DEF Loses, ExitInv
<1> QED
  BY <1>3, LosesKeeps

\* The right to exit goes from one hand to another.
LEMMA MovesKeep ==
  ASSUME NEW p \in Peers, ExitInv(p), MayExit(p),
         OneHand(p)', OnceQueued(p)', OwnEvent(p)',
         page'[p] = "Unstarted" => page[p] = "Unstarted",
         ~GreetingSuspended(p)', GreetingWaits(p)' => GreetingWaits(p),
         AtMostOne(events, NewClientsOf(p))',
         UNCHANGED <<clients, chatroom_broker_id>>
  PROVE  ExitInv(p)'
<1>1. p \in clients => chatroom_broker_id[p] # NoRoom
  BY DEF ExitInv, ExitsItsRoom
<1>2. ~IsNew(p) /\ ~IsNew(p)'
  BY DEF ExitInv, GreetedOnce, IsNew
<1>3. GreetedOnce(p)'
  BY <1>2 DEF GreetedOnce, IsNew
<1>4. ExitsItsRoom(p)'
  BY <1>1 DEF ExitsItsRoom
<1> QED
  BY <1>3, <1>4 DEF ExitInv

\* Nobody has the right to exit.
LEMMA NoHandKeeps ==
  ASSUME NEW p \in Peers, ~MayExit(p)', OnceQueued(p)', GreetedOnce(p)', OwnEvent(p)'
  PROVE  ExitInv(p)'
<1>1. OneHand(p)' /\ ExitsItsRoom(p)'
  BY DEF OneHand, ExitsItsRoom, MayExit
<1> QED
  BY <1>1 DEF ExitInv

-----------------------------------------------------------------------------
(* The read task                                                           *)

\* What the invariant reads besides the read task's own variables.
elsewhere == <<page, client_exit, clients, chatroom_broker_id>>

\* A read task that ends gives up what it holds.
LEMMA EndReadKeeps ==
  ASSUME TypeOK, NEW p \in Peers, ExitInv(p), EndRead(p),
         QueuesKept(p), UNCHANGED elsewhere
  PROVE  ExitInv(p)'
<1>1. /\ chatroom_sender'[p] = NoRoom
      /\ outgoing'[p] = <<>>
      /\ chatroom_connection'[p] = <<>>
  BY DEF EndRead, Empty, TypeOK
<1>2. /\ Len(chatroom_connection[p])' <= Len(chatroom_connection[p])
      /\ ~AddressWaits(p)' /\ ~AddressHeld(p)'
      /\ ~QuitSuspended(p)' /\ ~GreetingSuspended(p)' /\ OwnEvent(p)'
  BY <1>1 DEF TypeOK, AddressWaits, AddressHeld, QuitSuspended, GreetingSuspended,
     OwnEvent, Suspended
<1>3. Loses(p)
  BY <1>2, QueuesKeep DEF Loses, elsewhere
<1> QED
  BY <1>3, LosesKeeps

\* What a read task puts in a queue is of no account to another client.
LEMMA EnqueueKept ==
  ASSUME TypeOK, NEW p \in Peers, NEW to \in RoomOrNone, NEW event \in Event,
         \/ UNCHANGED <<events, chat_events>>
         \/ Enqueue(to, event),
         to = NoRoom => event \notin NewClientsOf(p),
         to # NoRoom => event \notin QuitsOf(p),
         UNCHANGED client_exit
  PROVE  QueuesKept(p)
<1>1. EventsKept(p)
  BY DEF EventsKept, Enqueue
<1>2. ASSUME NEW r \in Rooms
      PROVE  ChatEventsKept(p, r)
  <2>1. \/ chat_events'[r] = chat_events[r]
        \/ to # NoRoom /\ chat_events'[r] = Append(chat_events[r], event)
    BY DEF Enqueue, Put, TypeOK, RoomOrNone
  <2> QED
    BY <2>1 DEF ChatEventsKept
<1> QED
  BY <1>1, <1>2 DEF QueuesKept, NoticesKept

\* The send of another client's task.
LEMMA SendElsewhere ==
  ASSUME TypeOK, NEW p \in Peers, ExitInv(p), NEW q \in Peers \ {p},
         NEW to \in RoomOrNone, NEW event \in Event, event.peer_id = q,
         NEW next \in RoomOrNone, Send(q, to, event, next),
         page'[p] = page[p], UNCHANGED <<client_exit, clients, chatroom_broker_id>>
  PROVE  ExitInv(p)'
<1>1. UNCHANGED <<chatroom_connection[p], chatroom_sender[p], outgoing[p]>>
  BY DEF Send, EndRead, Empty, TypeOK
<1>2. event \notin NewClientsOf(p) /\ event \notin QuitsOf(p)
  BY DEF NewClientsOf, QuitsOf
<1>3. UNCHANGED <<events, chat_events>> \/ Enqueue(to, event)
  BY DEF Send
<1>4. QueuesKept(p)
  BY <1>2, <1>3, EnqueueKept
<1> QED
  BY <1>1, <1>4, BystanderKeeps

\* A send that neither greets nor quits a chatroom.
LEMMA PlainSendKeeps ==
  ASSUME TypeOK, NEW p \in Peers, ExitInv(p),
         NEW to \in RoomOrNone, NEW event \in Event, event.peer_id = p,
         event.kind # "NewClient", to = NoRoom \/ event.kind # "Quit",
         NEW next \in RoomOrNone, next \in {chatroom_sender[p], NoRoom},
         Send(p, to, event, next), UNCHANGED elsewhere
  PROVE  ExitInv(p)'
<1>1. event \notin NewClientsOf(p) /\ (to # NoRoom => event \notin QuitsOf(p))
  BY DEF NewClientsOf, QuitsOf
<1>2. UNCHANGED <<events, chat_events>> \/ Enqueue(to, event)
  BY DEF Send
<1>3. QueuesKept(p)
  BY <1>1, <1>2, EnqueueKept DEF elsewhere
<1>4. CASE EndRead(p)
  BY <1>3, <1>4, EndReadKeeps
<1>5. CASE ~EndRead(p)
  <2>1. /\ chatroom_connection' = chatroom_connection
        /\ chatroom_sender'[p] = next
        /\ outgoing'[p] \in {<<>>, Pending(to, event)}
    BY <1>5 DEF Send, Empty, TypeOK
  <2>2. Pending(to, event) # <<>> /\ Head(Pending(to, event)) = [to |-> to, event |-> event]
    BY DEF Pending
  <2>3. ~QuitSuspended(p)' /\ ~GreetingSuspended(p)' /\ OwnEvent(p)'
    BY <2>1, <2>2 DEF QuitSuspended, GreetingSuspended, OwnEvent, Suspended
  <2>4. /\ AddressWaits(p)' => AddressWaits(p)
        /\ AddressHeld(p)' => AddressHeld(p)
        /\ Len(chatroom_connection[p])' <= Len(chatroom_connection[p])
    BY <2>1 DEF AddressWaits, AddressHeld, TypeOK
  <2>5. Loses(p)
    BY <1>3, <2>3, <2>4, QueuesKeep DEF Loses, elsewhere
  <2> QED
    BY <2>5, LosesKeeps
<1> QED
  BY <1>4, <1>5

\* The right to exit leaves the read task with a Quit event to the sub-broker.
LEMMA QuitSendKeeps ==
  ASSUME TypeOK, NEW p \in Peers, ExitInv(p), AddressHeld(p) \/ QuitSuspended(p),
         NEW r \in Rooms, NEW event \in QuitsOf(p), Send(p, r, event, NoRoom),
         UNCHANGED elsewhere
  PROVE  ExitInv(p)'
<1> DEFINE V == QuitsOf(p)
<1>1. /\ r \in RoomOrNone /\ r # NoRoom /\ event \in Event
      /\ event.peer_id = p /\ event.kind = "Quit"
  BY DEF RoomOrNone, QuitsOf, Rooms, NoRoom
<1>2. /\ MayExit(p) /\ ~AddressWaits(p) /\ ~NoticeWaits(p)
      /\ \A s \in Rooms : ~QuitWaits(p, s)
  BY DEF MayExit, ExitInv, OneHand
<1>3. CASE EndRead(p) /\ UNCHANGED <<events, chat_events>>
  <2>1. QueuesKept(p)
    BY <1>3 DEF QueuesKept, EventsKept, ChatEventsKept, NoticesKept, elsewhere
  <2> QED
    BY <1>3, <2>1, EndReadKeeps
<1>4. CASE ~EndRead(p)
  <2>1. /\ chatroom_connection' = chatroom_connection
        /\ chatroom_sender'[p] = NoRoom /\ events' = events
        /\ \/ outgoing'[p] = Pending(r, event) /\ chat_events' = chat_events
           \/ outgoing'[p] = <<>> /\ chat_events' = Put(chat_events, r, event)
    BY <1>1, <1>4 DEF Send, Enqueue, Empty, TypeOK
  <2>2. /\ ~AddressWaits(p)' /\ ~AddressHeld(p)' /\ ~NoticeWaits(p)'
        /\ AtMostOne(client_exit, {p})'
        /\ Len(chatroom_connection[p])' <= 1
        /\ AtMostOne(events, NewClientsOf(p))'
        /\ GreetingWaits(p)' => GreetingWaits(p)
    BY <1>2, <2>1 DEF AddressWaits, AddressHeld, NoticeWaits, ExitInv, OnceQueued,
       GreetedOnce, GreetingWaits, NewClientsOf, elsewhere
  <2>3. Pending(r, event) # <<>> /\ Head(Pending(r, event)) = [to |-> r, event |-> event]
    BY DEF Pending
  <2>4. ~GreetingSuspended(p)' /\ OwnEvent(p)'
    BY <1>1, <2>1, <2>3 DEF GreetingSuspended, OwnEvent, Suspended
  <2>5. OneHand(p)' /\ OnceQueued(p)'
    <3>1. CASE outgoing'[p] = Pending(r, event) /\ chat_events' = chat_events
      <4>1. \A s \in Rooms : ~QuitWaits(p, s)' /\ AtMostOne(chat_events[s], V)'
        BY <1>2, <3>1 DEF QuitWaits, ExitInv, OnceQueued, QuitsOf
      <4> QED
        BY <2>2, <4>1 DEF OneHand, OnceQueued
    <3>2. CASE outgoing'[p] = <<>> /\ chat_events' = Put(chat_events, r, event)
      <4>1. ~QuitSuspended(p)'
        BY <3>2 DEF QuitSuspended, Suspended
      <4>2. ASSUME NEW s \in Rooms
            PROVE  /\ QuitWaits(p, s)' => s = r
                   /\ AtMostOne(chat_events[s], V)'
        <5>1. /\ chat_events[s] \in Seq(Event) /\ AtMostOne(chat_events[s], V)
              /\ ~Holds(chat_events[s], V)
          BY <1>2 DEF TypeOK, QuitWaits, ExitInv, OnceQueued
        <5>2. chat_events'[s] = IF s = r THEN Append(chat_events[s], event) ELSE chat_events[s]
          BY <3>2 DEF Put, TypeOK
        <5>3. AtMostOne(chat_events'[s], V)
          <6> HIDE DEF V
          <6> QED
            BY <1>1, <5>1, <5>2, HoldsAppend
        <5>4. s # r => ~Holds(chat_events'[s], V)
          BY <5>1, <5>2
        <5> QED
          BY <5>3, <5>4 DEF QuitWaits, QuitsOf
      <4> QED
        BY <2>2, <4>1, <4>2 DEF OneHand, OnceQueued
    <3> QED
      BY <2>1, <3>1, <3>2
  <2> QED
    BY <1>2, <2>2, <2>4, <2>5, MovesKeep DEF elsewhere
<1>5. EndRead(p) => UNCHANGED <<events, chat_events>>
  BY <1>1 DEF Send, EndRead, TypeOK
<1> QED
  BY <1>3, <1>4, <1>5

\* A task that takes no part in a step of q's read task.
LEMMA OtherReadKeeps ==
  ASSUME TypeOK, NEW p \in Peers, ExitInv(p), OwnEvent(p),
         NEW q \in Peers \ {p}, OwnEvent(q), ReadNext(q)
  PROVE  ExitInv(p)'
<1>1. /\ page'[p] = page[p]
      /\ UNCHANGED <<client_exit, clients, chatroom_broker_id>>
  BY DEF ReadNext, AcceptConnection, ResumeSend, FrameNext, ReadFrame, ReadFails,
     ChannelNext, NewChatroomChannel, ChatroomChannelClosed, ReadTaskOnly, ui_vars,
     registry, client_vars, TypeOK
<1>2. NoRoom \in RoomOrNone /\ chatroom_sender[q] \in RoomOrNone
  BY DEF RoomOrNone, TypeOK
<1>3. ASSUME NEW to \in RoomOrNone, NEW event \in Event, event.peer_id = q,
             NEW next \in RoomOrNone, Send(q, to, event, next)
      PROVE  ExitInv(p)'
  BY <1>1, <1>3, SendElsewhere
<1>4. ASSUME UNCHANGED <<chatroom_connection[p], chatroom_sender[p], outgoing[p]>>,
             NEW event \in Event, event.peer_id = q,
             UNCHANGED <<events, chat_events>> \/ Enqueue(NoRoom, event)
      PROVE  ExitInv(p)'
  <2>1. event \notin NewClientsOf(p)
    BY <1>4 DEF NewClientsOf
  <2>2. QueuesKept(p)
    BY <1>1, <1>2, <1>4, <2>1, EnqueueKept
  <2> QED
    BY <1>1, <1>4, <2>2, BystanderKeeps
<1>5. \A k \in {"NewClient", "ReadSync"} :
        Signal(k, q) \in Event /\ Signal(k, q).peer_id = q
  BY SignalType DEF Signal
<1>6. CASE AcceptConnection(q)
  BY <1>2, <1>3, <1>5, <1>6 DEF AcceptConnection
<1>7. CASE ResumeSend(q)
  <2>1. Head(outgoing[q]) \in SuspendedSend
    BY <1>7, ReceiveType DEF ResumeSend, Suspended, TypeOK
  <2>2. Head(outgoing[q]).to \in RoomOrNone /\ Head(outgoing[q]).event \in Event
    BY <2>1 DEF SuspendedSend
  <2>3. Head(outgoing[q]).event.peer_id = q
    BY <1>7 DEF ResumeSend, OwnEvent
  <2> QED
    BY <1>2, <1>3, <1>7, <2>2, <2>3 DEF ResumeSend
<1>8. ASSUME EndRead(q), UNCHANGED <<events, chat_events>>
      PROVE  ExitInv(p)'
  <2>1. UNCHANGED <<chatroom_connection[p], chatroom_sender[p], outgoing[p]>>
    BY <1>8 DEF EndRead, Empty, TypeOK
  <2> QED
    BY <1>4, <1>5, <1>8, <2>1
<1>9. CASE ReadFrame(q)
  <2>1. Head(to_server[q]) \in Frame
    BY <1>9, ReceiveType DEF ReadFrame, TypeOK
  <2>2. EventOf(q, Head(to_server[q])) \in Event /\ EventOf(q, Head(to_server[q])).peer_id = q
    BY <2>1, EventOfType DEF EventOf
  <2> QED
    BY <1>2, <1>3, <1>8, <1>9, <2>2 DEF ReadFrame
<1>10. CASE ReadFails(q) \/ ChatroomChannelClosed(q)
  BY <1>8, <1>10 DEF ReadFails, ChatroomChannelClosed
<1>11. CASE NewChatroomChannel(q)
  <2>1. UNCHANGED <<chatroom_connection[p], chatroom_sender[p], outgoing[p]>>
    BY <1>11 DEF NewChatroomChannel, EndRead, Empty, TypeOK
  <2>2. \/ UNCHANGED <<events, chat_events>>
        \/ Enqueue(NoRoom, Signal("ReadSync", q))
    BY <1>11 DEF NewChatroomChannel
  <2> QED
    BY <1>4, <1>5, <2>1, <2>2
<1> QED
  BY <1>6, <1>7, <1>9, <1>10, <1>11 DEF ReadNext, FrameNext, ChannelNext

\* A client connects, or its greeting gets through.
LEMMA GreetingKeeps ==
  ASSUME TypeOK, NEW p \in Peers, ExitInv(p), BrokerRunning,
         NEW event \in NewClientsOf(p), Send(p, NoRoom, event, NoRoom),
         page[p] = "Unstarted" \/ GreetingSuspended(p),
         page'[p] # "Unstarted", UNCHANGED <<client_exit, clients, chatroom_broker_id>>
  PROVE  ExitInv(p)'
<1> DEFINE V == NewClientsOf(p)
<1>1. /\ event \in Event /\ event.peer_id = p /\ event.kind = "NewClient"
      /\ p \notin clients /\ ~MayExit(p) /\ ~GreetingWaits(p)
  BY DEF NewClientsOf, ExitInv, GreetedOnce, IsNew
<1>2. /\ chatroom_connection' = chatroom_connection
      /\ chatroom_sender'[p] = NoRoom /\ chat_events' = chat_events
      /\ \/ outgoing'[p] = Pending(NoRoom, event) /\ events' = events
         \/ outgoing'[p] = <<>> /\ events' = Append(events, event)
  BY <1>1 DEF Send, IsClosed, Enqueue, Empty, TypeOK
<1>3. Pending(NoRoom, event) # <<>>
      /\ Head(Pending(NoRoom, event)) = [to |-> NoRoom, event |-> event]
  BY DEF Pending
<1>4. ~QuitSuspended(p)' /\ OwnEvent(p)'
  BY <1>1, <1>2, <1>3 DEF QuitSuspended, OwnEvent, Suspended
<1>5. ~MayExit(p)' /\ OnceQueued(p)'
  BY <1>1, <1>2, <1>4 DEF MayExit, AddressWaits, AddressHeld, QuitWaits, QuitsOf,
     NoticeWaits, OnceQueued, ExitInv
<1>6. AtMostOne(events', V) /\ (GreetingSuspended(p)' => ~Holds(events', V))
  <2>1. events \in Seq(Event) /\ AtMostOne(events, V) /\ ~Holds(events, V)
    BY <1>1 DEF TypeOK, ExitInv, GreetedOnce, GreetingWaits
  <2>2. CASE outgoing'[p] = Pending(NoRoom, event) /\ events' = events
    BY <2>1, <2>2
  <2>3. CASE outgoing'[p] = <<>> /\ events' = Append(events, event)
    <3>1. ~GreetingSuspended(p)'
      BY <2>3 DEF GreetingSuspended, Suspended
    <3>2. AtMostOne(events', V)
      <4> HIDE DEF V
      <4> QED
        BY <1>1, <2>1, <2>3, HoldsAppend
    <3> QED
      BY <3>1, <3>2
  <2> QED
    BY <1>2, <2>2, <2>3
<1>7. GreetedOnce(p)'
  BY <1>1, <1>5, <1>6 DEF GreetedOnce, GreetingWaits, NewClientsOf
<1> QED
  BY <1>4, <1>5, <1>7, NoHandKeeps

\* The read task takes the address of its chatroom.
LEMMA AddressKeeps ==
  ASSUME TypeOK, NEW p \in Peers, ExitInv(p), BrokerRunning, NewChatroomChannel(p)
  PROVE  ExitInv(p)'
<1> DEFINE event == Signal("ReadSync", p)
<1>1. /\ event \in Event /\ event.peer_id = p /\ event.kind = "ReadSync"
      /\ NoRoom \in RoomOrNone
      /\ event \notin NewClientsOf(p)
  BY SignalType DEF Signal, RoomOrNone, NewClientsOf
<1>2. UNCHANGED elsewhere
  BY DEF NewChatroomChannel, ReadTaskOnly, ui_vars, registry, client_vars, elsewhere
<1>3. UNCHANGED <<events, chat_events>> \/ Enqueue(NoRoom, event)
  BY DEF NewChatroomChannel
<1>4. QueuesKept(p) /\ chat_events' = chat_events
  BY <1>1, <1>2, <1>3, EnqueueKept DEF elsewhere, Enqueue
<1>5. AddressWaits(p) /\ MayExit(p)
  BY DEF NewChatroomChannel, AddressWaits, MayExit
<1>6. /\ chatroom_connection'[p] = Tail(chatroom_connection[p])
      /\ outgoing'[p] \in {<<>>, Pending(NoRoom, event)}
  BY DEF NewChatroomChannel, Selecting, Suspended, IsClosed, TypeOK
<1>7. Pending(NoRoom, event) # <<>>
      /\ Head(Pending(NoRoom, event)) = [to |-> NoRoom, event |-> event]
  BY DEF Pending
<1>8. ~QuitSuspended(p)' /\ ~GreetingSuspended(p)' /\ OwnEvent(p)'
  BY <1>1, <1>6, <1>7 DEF QuitSuspended, GreetingSuspended, OwnEvent, Suspended
<1>9. ~AddressWaits(p)' /\ Len(chatroom_connection[p])' <= 1
  <2>1. chatroom_connection[p] \in Seq(Rooms) /\ Len(chatroom_connection[p]) <= 1
    BY DEF TypeOK, ExitInv, OnceQueued
  <2>2. Tail(chatroom_connection[p]) = <<>>
    BY <1>5, <2>1 DEF AddressWaits
  <2>3. chatroom_connection'[p] = <<>> /\ Len(<<>>) = 0
    BY <1>6, <2>2
  <2> QED
    BY <2>3 DEF AddressWaits
<1>10. OneHand(p)' /\ OnceQueued(p)'
  <2>1. ~NoticeWaits(p)' /\ \A r \in Rooms : ~QuitWaits(p, r)'
    BY <1>2, <1>4, <1>5 DEF ExitInv, OneHand, NoticeWaits, QuitWaits, QuitsOf, elsewhere
  <2>2. AtMostOne(client_exit, {p})' /\ \A r \in Rooms : AtMostOne(chat_events[r], QuitsOf(p))'
    BY <1>4, QueuesKeep
  <2> QED
    BY <1>8, <1>9, <2>1, <2>2 DEF OneHand, OnceQueued
<1> QED
  BY <1>2, <1>4, <1>5, <1>8, <1>10, QueuesKeep, MovesKeep DEF elsewhere

\* The steps of the client's own read task.
LEMMA OwnReadKeeps ==
  ASSUME TypeOK, NEW p \in Peers, ExitInv(p), BrokerRunning, ReadNext(p)
  PROVE  ExitInv(p)'
<1>1. /\ UNCHANGED <<client_exit, clients, chatroom_broker_id>>
      /\ ~AcceptConnection(p) => UNCHANGED elsewhere
  BY DEF ReadNext, AcceptConnection, ResumeSend, FrameNext, ReadFrame, ReadFails,
     ChannelNext, NewChatroomChannel, ChatroomChannelClosed, ReadTaskOnly, ui_vars,
     registry, client_vars, elsewhere
<1>2. NoRoom \in RoomOrNone /\ chatroom_sender[p] \in RoomOrNone
  BY DEF RoomOrNone, TypeOK
<1>3. ASSUME EndRead(p), UNCHANGED <<events, chat_events, elsewhere>>
      PROVE  ExitInv(p)'
  <2>1. QueuesKept(p)
    BY <1>3 DEF QueuesKept, EventsKept, ChatEventsKept, NoticesKept, elsewhere
  <2> QED
    BY <1>3, <2>1, EndReadKeeps
<1>4. CASE AcceptConnection(p)
  <2>1. Signal("NewClient", p) \in NewClientsOf(p)
    BY SignalType DEF NewClientsOf, Signal
  <2>2. page'[p] # "Unstarted"
    BY <1>4 DEF AcceptConnection, TypeOK
  <2> QED
    BY <1>1, <1>4, <2>1, <2>2, GreetingKeeps DEF AcceptConnection
<1>5. CASE ResumeSend(p)
  <2> DEFINE o == Head(outgoing[p])
  <2>1. o \in SuspendedSend
    BY <1>5, ReceiveType DEF ResumeSend, Suspended, TypeOK
  <2>2. /\ o.to \in RoomOrNone /\ o.event \in Event
        /\ o.event.peer_id = p /\ Suspended(p)
        /\ Send(p, o.to, o.event, chatroom_sender[p])
    BY <1>5, <2>1 DEF SuspendedSend, ResumeSend, ExitInv, OwnEvent
  <2>3. UNCHANGED elsewhere
    BY <1>1, <1>5 DEF ResumeSend, AcceptConnection, ReadTaskOnly, ui_vars, elsewhere
  <2>4. CASE o.to # NoRoom /\ o.event.kind = "Quit"
    <3>1. QuitSuspended(p) /\ o.event \in QuitsOf(p)
      BY <2>2, <2>4 DEF QuitSuspended, QuitsOf
    <3>2. chatroom_sender[p] = NoRoom
      BY <3>1 DEF ExitInv, OneHand, AddressHeld
    <3>3. o.to \in Rooms
      BY <2>2, <2>4 DEF RoomOrNone
    <3> QED
      BY <2>2, <2>3, <3>1, <3>2, <3>3, QuitSendKeeps
  <2>5. CASE o.to = NoRoom /\ o.event.kind = "NewClient"
    <3>1. GreetingSuspended(p) /\ o.event \in NewClientsOf(p)
      BY <2>2, <2>5 DEF GreetingSuspended, NewClientsOf
    <3>2. page'[p] # "Unstarted"
      BY <2>3, <3>1 DEF ExitInv, GreetedOnce, elsewhere
    <3>3. chatroom_sender[p] = NoRoom
      BY <3>1 DEF ExitInv, GreetedOnce, IsNew, MayExit, AddressHeld
    <3> QED
      BY <1>1, <2>2, <2>5, <3>1, <3>2, <3>3, GreetingKeeps
  <2>6. o.event.kind = "NewClient" => o.to = NoRoom
    BY <2>2 DEF ExitInv, OwnEvent
  <2>7. CASE o.event.kind # "NewClient" /\ (o.to = NoRoom \/ o.event.kind # "Quit")
    BY <1>2, <2>2, <2>3, <2>7, PlainSendKeeps
  <2> QED
    BY <2>4, <2>5, <2>6, <2>7
<1>6. CASE ReadFrame(p)
  <2> DEFINE event == EventOf(p, Head(to_server[p]))
  <2>1. Head(to_server[p]) \in Frame
    BY <1>6, ReceiveType DEF ReadFrame, TypeOK
  <2>2. event \in Event /\ event.peer_id = p /\ event.kind = Head(to_server[p]).kind
    BY <2>1, EventOfType DEF EventOf
  <2>3. event.kind # "NewClient"
    BY <2>1, <2>2 DEF Frame
  <2>4. UNCHANGED elsewhere
    BY <1>6 DEF ReadFrame, ReadTaskOnly, ui_vars, registry, client_vars, elsewhere
  <2>5. CASE EndRead(p) /\ UNCHANGED <<events, chat_events>>
    BY <1>3, <2>4, <2>5
  <2>6. CASE /\ event.kind = "Quit" /\ chatroom_sender[p] # NoRoom
             /\ Send(p, chatroom_sender[p], event, NoRoom)
    <3>1. AddressHeld(p) /\ event \in QuitsOf(p) /\ chatroom_sender[p] \in Rooms
      BY <1>2, <2>2, <2>6 DEF AddressHeld, QuitsOf, RoomOrNone
    <3> QED
      BY <2>4, <2>6, <3>1, QuitSendKeeps
  <2>7. ASSUME event.kind # "Quit" \/ chatroom_sender[p] = NoRoom,
               NEW next \in {chatroom_sender[p], NoRoom},
               Send(p, chatroom_sender[p], event, next)
        PROVE  ExitInv(p)'
    BY <1>2, <2>2, <2>3, <2>4, <2>7, PlainSendKeeps
  <2> QED
    BY <1>6, <2>2, <2>5, <2>6, <2>7 DEF ReadFrame
<1>7. CASE ReadFails(p) \/ ChatroomChannelClosed(p)
  <2>1. EndRead(p) /\ UNCHANGED <<events, chat_events, elsewhere>>
    BY <1>7 DEF ReadFails, ChatroomChannelClosed, ReadTaskOnly, ui_vars, registry,
       client_vars, elsewhere
  <2> QED
    BY <1>3, <2>1
<1> QED
  BY <1>4, <1>5, <1>6, <1>7, AddressKeeps DEF ReadNext, FrameNext, ChannelNext

-----------------------------------------------------------------------------
(* The main broker                                                         *)

\* A broker that ends no longer runs.
LEMMA BrokerFailsEnds ==
  ASSUME NEW reason \in BrokerErrors, BrokerFails(reason)
  PROVE  ~BrokerRunning'
  BY DEF BrokerFails, BrokerRunning, BrokerErrors

\* The first event is taken.
LEMMA TailKept ==
  ASSUME NEW p \in Peers, events # <<>>, events' = Tail(events),
         UNCHANGED <<chat_events, client_exit>>
  PROVE  QueuesKept(p)
  BY DEF QueuesKept, EventsKept, ChatEventsKept, NoticesKept

\* Harvesting takes away only.
LEMMA HarvestKeeps ==
  ASSUME TypeOK, NEW p \in Peers, ExitInv(p), HarvestClient \/ HarvestRoom,
         BrokerRunning'
  PROVE  ExitInv(p)'
<1>1. UNCHANGED <<page, chatroom_connection, chatroom_sender, outgoing, events, client_exit>>
      \/ \E reason \in BrokerErrors : BrokerFails(reason)
  BY DEF HarvestClient, HarvestRoom, ui_vars, read_vars, peer_channels, BrokerErrors
<1>2. UNCHANGED <<page, chatroom_connection, chatroom_sender, outgoing, events, client_exit>>
  BY <1>1, BrokerFailsEnds
<1>3. CASE HarvestClient
  <2>1. /\ chat_events' = chat_events
        /\ \E q \in Peers : /\ clients' = clients \ {q}
                            /\ chatroom_broker_id' = [chatroom_broker_id EXCEPT ![q] = NoRoom]
    <3>1. client_disconnection \in Seq(Peers) /\ client_disconnection # <<>>
      BY <1>3 DEF HarvestClient, TypeOK
    <3>2. Head(client_disconnection) \in Peers
      BY <3>1
    <3>3. ~BrokerFails("Corrupt")
      BY BrokerFailsEnds DEF BrokerErrors
    <3> QED
      BY <1>3, <3>2, <3>3 DEF HarvestClient
  <2>2. p \in clients' => p \in clients /\ chatroom_broker_id'[p] = chatroom_broker_id[p]
    BY <2>1 DEF TypeOK
  <2>3. QueuesKept(p)
    BY <1>2, <2>1 DEF QueuesKept, EventsKept, ChatEventsKept, NoticesKept
  <2> QED
    BY <1>2, <2>2, <2>3, BystanderKeeps
<1>4. CASE HarvestRoom
  <2>1. ~BrokerFails("RoomStillInMap")
    BY BrokerFailsEnds DEF BrokerErrors
  <2>2. /\ UNCHANGED <<clients, chatroom_broker_id>>
        /\ \A r \in Rooms : chat_events'[r] \in {chat_events[r], <<>>}
    BY <1>4, <2>1 DEF HarvestRoom, registry, client_vars, Empty, TypeOK
  <2>3. QueuesKept(p)
    BY <1>2, <2>2 DEF QueuesKept, EventsKept, ChatEventsKept, NoticesKept
  <2> QED
    BY <1>2, <2>2, <2>3, BystanderKeeps
<1> QED
  BY <1>3, <1>4

\* The notice of an exit is the last hand.
LEMMA ExitKeeps ==
  ASSUME TypeOK, NEW p \in Peers, ExitInv(p), ClientExit, BrokerRunning'
  PROVE  ExitInv(p)'
<1>1. /\ ~BrokerFails("ExitOfUnknownClient") /\ ~BrokerFails("Corrupt")
  BY BrokerFailsEnds DEF BrokerErrors
<1>2. /\ client_exit # <<>> /\ client_exit' = Tail(client_exit)
      /\ UNCHANGED <<page, chatroom_connection, chatroom_sender, outgoing, events,
                     chat_events, clients>>
      /\ chatroom_broker_id' = [chatroom_broker_id EXCEPT ![Head(client_exit)] = NoRoom]
      /\ Head(client_exit) \in clients
  BY <1>1 DEF ClientExit, ui_vars, read_vars, client_vars
<1>3. client_exit \in Seq(Peers) /\ AtMostOne(client_exit, {p})
  BY DEF TypeOK, ExitInv, OnceQueued
<1>4. CASE Head(client_exit) # p
  <2>1. chatroom_broker_id'[p] = chatroom_broker_id[p]
    BY <1>2, <1>4 DEF TypeOK
  <2>2. QueuesKept(p)
    BY <1>2 DEF QueuesKept, EventsKept, ChatEventsKept, NoticesKept
  <2> QED
    BY <1>2, <2>1, <2>2, BystanderKeeps
<1>5. CASE Head(client_exit) = p
  <2>1. /\ NoticeWaits(p) /\ ~Holds(client_exit', {p}) /\ AtMostOne(client_exit', {p})
    BY <1>2, <1>3, <1>5, HoldsTail DEF NoticeWaits
  <2>2. /\ ~AddressWaits(p) /\ ~AddressHeld(p) /\ ~QuitSuspended(p)
        /\ \A r \in Rooms : ~QuitWaits(p, r)
        /\ ~IsNew(p)
    BY <2>1 DEF ExitInv, OneHand, GreetedOnce, MayExit
  <2>3. /\ ~AddressWaits(p)' /\ ~AddressHeld(p)' /\ ~QuitSuspended(p)'
        /\ \A r \in Rooms : ~QuitWaits(p, r)'
        /\ ~IsNew(p)'
    BY <1>2, <2>2 DEF AddressWaits, AddressHeld, QuitSuspended, Suspended, QuitWaits,
       QuitsOf, IsNew, GreetingSuspended, GreetingWaits, NewClientsOf
  <2>4. ~MayExit(p)'
    BY <2>1, <2>3 DEF MayExit, NoticeWaits
  <2>5. OnceQueued(p)'
    BY <1>2, <2>1 DEF OnceQueued, ExitInv, QuitsOf
  <2>6. GreetedOnce(p)' /\ OwnEvent(p)'
    <3>1. AtMostOne(events, NewClientsOf(p))' /\ OwnEvent(p)'
      BY <1>2 DEF ExitInv, GreetedOnce, OwnEvent, Suspended, NewClientsOf
    <3> QED
      BY <2>3, <3>1 DEF GreetedOnce, IsNew
  <2> QED
    BY <2>4, <2>5, <2>6, NoHandKeeps
<1> QED
  BY <1>4, <1>5

\* A new client is put in the map.
LEMMA NewClientKeeps ==
  ASSUME TypeOK, NEW p \in Peers, ExitInv(p), NewClient
  PROVE  ExitInv(p)'
<1>1. /\ events \in Seq(Event) /\ events # <<>> /\ events' = Tail(events)
      /\ Head(events) \in Event /\ Head(events).kind = "NewClient"
      /\ clients' = clients \cup {Head(events).peer_id}
      /\ UNCHANGED <<page, chatroom_connection, chatroom_sender, outgoing, chat_events,
                     client_exit, chatroom_broker_id>>
  BY DEF NewClient, Takes, ui_vars, read_vars, TypeOK
<1>2. QueuesKept(p)
  BY <1>1, TailKept
<1>3. CASE Head(events).peer_id # p
  BY <1>1, <1>2, <1>3, BystanderKeeps
<1>4. CASE Head(events).peer_id = p
  <2>1. Head(events) \in NewClientsOf(p)
    BY <1>1, <1>4 DEF NewClientsOf
  <2>2. AtMostOne(events, NewClientsOf(p))
    BY DEF ExitInv, GreetedOnce
  <2>3. GreetingWaits(p) /\ ~Holds(events', NewClientsOf(p))
    BY <1>1, <2>1, <2>2, HoldsTail DEF GreetingWaits
  <2>4. ~MayExit(p) /\ page[p] # "Unstarted" /\ ~GreetingSuspended(p)
    BY <2>3 DEF ExitInv, GreetedOnce, IsNew
  <2>5. ~MayExit(p)' /\ OnceQueued(p)'
    BY <1>1, <2>4 DEF MayExit, AddressWaits, AddressHeld, QuitSuspended, Suspended,
       QuitWaits, QuitsOf, NoticeWaits, OnceQueued, ExitInv
  <2>6. ~IsNew(p)'
    BY <1>1, <2>3, <2>4 DEF IsNew, GreetingSuspended, Suspended, GreetingWaits, NewClientsOf
  <2>7. AtMostOne(events, NewClientsOf(p))' /\ OwnEvent(p)'
    BY <1>1, <1>2, QueuesKeep DEF ExitInv, OwnEvent, Suspended
  <2>8. GreetedOnce(p)'
    BY <2>6, <2>7 DEF GreetedOnce, IsNew
  <2> QED
    BY <2>5, <2>7, <2>8, NoHandKeeps
<1> QED
  BY <1>3, <1>4

\* A client that enters a chatroom is given the right to exit it.
LEMMA AdmitKeeps ==
  ASSUME TypeOK, NEW p \in Peers, ExitInv(p), NEW q \in Peers, MayEnter(q),
         NEW r \in Rooms, NEW response, Admit(q, r, response),
         events # <<>>, events' = Tail(events)
  PROVE  ExitInv(p)'
<1>1. /\ UNCHANGED <<page, chatroom_sender, outgoing, chat_events, client_exit, clients>>
      /\ chatroom_broker_id' = [chatroom_broker_id EXCEPT ![q] = r]
      /\ chatroom_connection' = Put(chatroom_connection, q, r)
      /\ r # NoRoom
  BY DEF Admit, ui_vars, read_vars, client_vars, Rooms, NoRoom
<1>2. QueuesKept(p)
  BY <1>1, TailKept
<1>3. CASE p # q
  <2>1. UNCHANGED <<chatroom_connection[p], chatroom_broker_id[p]>>
    BY <1>1, <1>3 DEF Put, TypeOK
  <2> QED
    BY <1>1, <1>2, <2>1, BystanderKeeps
<1>4. CASE p = q
  <2>1. ~MayExit(p) /\ ~IsNew(p)
    BY <1>4 DEF MayEnter, ExitInv, ExitsItsRoom, GreetedOnce
  <2>2. chatroom_connection[p] = <<>>
    BY <2>1 DEF MayExit, AddressWaits
  <2>3. Len(chatroom_connection[p])' <= 1
    <3>1. chatroom_connection'[p] = <<r>>
      BY <1>1, <1>4, <2>2 DEF Put, TypeOK
    <3> QED
      BY <3>1
  <2>4. /\ ~AddressHeld(p)' /\ ~QuitSuspended(p)' /\ ~NoticeWaits(p)'
        /\ \A s \in Rooms : ~QuitWaits(p, s)'
    BY <1>1, <2>1 DEF MayExit, AddressHeld, QuitSuspended, Suspended, QuitWaits, QuitsOf,
       NoticeWaits
  <2>5. OneHand(p)'
    BY <2>4 DEF OneHand
  <2>6. OnceQueued(p)'
    BY <1>2, <2>3, QueuesKeep DEF OnceQueued
  <2>7. ~IsNew(p)'
    BY <1>1, <1>2, <2>1, QueuesKeep DEF IsNew, GreetingSuspended, Suspended
  <2>8. GreetedOnce(p)'
    BY <1>2, <2>7, QueuesKeep DEF GreetedOnce, IsNew
  <2>9. ExitsItsRoom(p)' /\ OwnEvent(p)'
    <3>1. chatroom_broker_id'[p] # NoRoom
      BY <1>1, <1>4 DEF TypeOK
    <3>2. OwnEvent(p)'
      BY <1>1 DEF ExitInv, OwnEvent, Suspended
    <3> QED
      BY <3>1, <3>2 DEF ExitsItsRoom
  <2> QED
    BY <2>5, <2>6, <2>8, <2>9 DEF ExitInv
<1> QED
  BY <1>3, <1>4

\* The other events of the lobby.
LEMMA EventKeeps ==
  ASSUME TypeOK, NEW p \in Peers, ExitInv(p), EventNext, BrokerRunning'
  PROVE  ExitInv(p)'
<1>1. ~RejectEvent
  <2>1. \A reason \in {"NoSuchClient", "IllegalEvent"} : ~BrokerFails(reason)
    BY BrokerFailsEnds DEF BrokerErrors
  <2> QED
    BY <2>1 DEF RejectEvent
<1>2. ~BrokerFails("ReadTaskGone") /\ ~BrokerFails("Corrupt")
  BY BrokerFailsEnds DEF BrokerErrors
<1>3. events \in Seq(Event) /\ events # <<>>
  BY DEF EventNext, NewClient, QuitEvent, Lobby, ReadSync, Username, Create, Join,
     RejectEvent, Takes, TypeOK
<1>4. Head(events) \in Event
  BY <1>3
<1>5. Head(events).peer_id \in Peers
  BY <1>4, EventParts
<1>6. ASSUME UNCHANGED <<page, chatroom_connection, chatroom_sender, outgoing, chat_events,
                         client_exit, clients, chatroom_broker_id>>,
             events' = Tail(events)
      PROVE  ExitInv(p)'
  <2>1. QueuesKept(p)
    BY <1>3, <1>6, TailKept
  <2> QED
    BY <1>6, <2>1, BystanderKeeps
<1>7. CASE QuitEvent \/ Lobby \/ ReadSync \/ Username
  BY <1>6, <1>7 DEF QuitEvent, Lobby, ReadSync, Username, Takes, OnlyAnswers, ui_vars,
     read_vars, client_vars
<1>8. CASE Create
  <2>1. MayEnter(Head(events).peer_id) /\ events' = Tail(events)
    BY <1>8 DEF Create, Takes, Acceptable
  <2>2. CASE Refuse("ChatroomAlreadyExists")
    BY <1>6, <2>1, <2>2 DEF Refuse, OnlyAnswers, ui_vars, read_vars, client_vars
  <2>3. CASE \E r \in Rooms : Admit(Head(events).peer_id, r, Plain("ChatroomCreated"))
    BY <1>3, <1>5, <2>1, <2>3, AdmitKeeps
  <2> QED
    BY <1>2, <1>8, <2>2, <2>3 DEF Create
<1>9. CASE Join
  <2> DEFINE r == chatroom_name_to_id[Head(events).arg]
  <2>1. MayEnter(Head(events).peer_id) /\ events' = Tail(events)
    BY <1>9 DEF Join, Takes, Acceptable
  <2>2. r \in RoomOrNone
    BY <1>4, <1>9, EventParts DEF Join, Takes, TypeOK
  <2>3. CASE Refuse("ChatroomDoesNotExist") \/ Refuse("ChatroomFull")
    BY <1>6, <2>1, <2>3 DEF Refuse, OnlyAnswers, ui_vars, read_vars, client_vars
  <2>4. CASE r # NoRoom /\ Admit(Head(events).peer_id, r, Plain("Subscribed"))
    <3>1. r \in Rooms
      BY <2>2, <2>4 DEF RoomOrNone
    <3> QED
      BY <1>3, <1>5, <2>1, <2>4, <3>1, AdmitKeeps
  <2> QED
    BY <1>2, <1>9, <2>3, <2>4 DEF Join
<1> QED
  BY <1>1, <1>7, <1>8, <1>9, NewClientKeeps DEF EventNext

-----------------------------------------------------------------------------
(* The other tasks                                                         *)

\* The sub-broker's notice takes over the right to exit.
LEMMA NoticeKeeps ==
  ASSUME TypeOK, NEW p \in Peers, ExitInv(p), NEW r \in Rooms,
         chat_events[r] # <<>>, Head(chat_events[r]) \in QuitsOf(p),
         chat_events' = [chat_events EXCEPT ![r] = Tail(@)],
         client_exit' = Append(client_exit, p),
         UNCHANGED <<page, chatroom_connection, chatroom_sender, outgoing, events,
                     clients, chatroom_broker_id>>
  PROVE  ExitInv(p)'
<1>1. /\ chat_events[r] \in Seq(Event) /\ client_exit \in Seq(Peers)
      /\ AtMostOne(chat_events[r], QuitsOf(p)) /\ AtMostOne(client_exit, {p})
      /\ chat_events'[r] = Tail(chat_events[r])
      /\ \A s \in Rooms : s # r => chat_events'[s] = chat_events[s]
  BY DEF TypeOK, ExitInv, OnceQueued
<1>2. /\ QuitWaits(p, r) /\ ~Holds(chat_events'[r], QuitsOf(p))
      /\ AtMostOne(chat_events'[r], QuitsOf(p))
  BY <1>1, HoldsTail DEF QuitWaits
<1>3. /\ ~AddressWaits(p) /\ ~AddressHeld(p) /\ ~QuitSuspended(p) /\ ~NoticeWaits(p)
      /\ \A s \in Rooms : s # r => ~QuitWaits(p, s)
      /\ MayExit(p)
  BY <1>2 DEF ExitInv, OneHand, MayExit
<1>4. AtMostOne(client_exit', {p})
  BY <1>1, <1>3, HoldsAppend DEF NoticeWaits
<1>5. /\ ~AddressWaits(p)' /\ ~AddressHeld(p)' /\ ~QuitSuspended(p)'
      /\ \A s \in Rooms : ~QuitWaits(p, s)'
  <2>1. /\ ~AddressWaits(p)' /\ ~AddressHeld(p)' /\ ~QuitSuspended(p)'
    BY <1>3 DEF AddressWaits, AddressHeld, QuitSuspended, Suspended
  <2>2. \A s \in Rooms : ~Holds(chat_events'[s], QuitsOf(p))
    BY <1>1, <1>2, <1>3 DEF QuitWaits
  <2> QED
    BY <2>1, <2>2 DEF QuitWaits, QuitsOf
<1>6. OneHand(p)'
  BY <1>5 DEF OneHand
<1>7. OnceQueued(p)'
  <2>1. \A s \in Rooms : AtMostOne(chat_events'[s], QuitsOf(p))
    BY <1>1, <1>2 DEF ExitInv, OnceQueued
  <2> QED
    BY <1>4, <2>1 DEF OnceQueued, ExitInv, QuitsOf
<1>8. OwnEvent(p)' /\ ~GreetingSuspended(p)'
      /\ (GreetingWaits(p)' => GreetingWaits(p)) /\ AtMostOne(events, NewClientsOf(p))'
  <2>1. ~GreetingSuspended(p)
    BY <1>3 DEF ExitInv, GreetedOnce, IsNew
  <2> QED
    BY <2>1 DEF ExitInv, GreetedOnce, OwnEvent, GreetingSuspended, Suspended,
       GreetingWaits, NewClientsOf
<1> QED
  BY <1>3, <1>6, <1>7, <1>8, MovesKeep

\* A sub-broker takes events, and tells the main broker of exits.
LEMMA RoomKeeps ==
  ASSUME TypeOK, NEW p \in Peers, ExitInv(p), BrokerRunning, NEW r \in Rooms, RoomNext(r)
  PROVE  ExitInv(p)'
<1>1. UNCHANGED <<page, chatroom_connection, chatroom_sender, outgoing, events, clients,
                  chatroom_broker_id>>
  BY DEF RoomNext, RoomEventNext, RoomMessage, RoomQuit, RoomShutdown, RoomOnly, ui_vars,
     read_vars, registry, client_vars
<1>2. ASSUME \A s \in Rooms : ChatEventsKept(p, s), NoticesKept(p)
      PROVE  ExitInv(p)'
  <2>1. QueuesKept(p)
    BY <1>1, <1>2 DEF QueuesKept, EventsKept
  <2> QED
    BY <1>1, <2>1, BystanderKeeps
<1>3. ASSUME chat_events[r] # <<>>, chat_events' = [chat_events EXCEPT ![r] = Tail(@)]
      PROVE  \A s \in Rooms : ChatEventsKept(p, s)
  BY <1>3 DEF ChatEventsKept, TypeOK
<1>4. CASE RoomMessage(r)
  BY <1>2, <1>3, <1>4 DEF RoomMessage, TakesEvent, NoticesKept
<1>5. CASE RoomShutdown(r)
  <2>1. UNCHANGED <<chat_events, client_exit>>
    BY <1>5 DEF RoomShutdown
  <2> QED
    BY <1>2, <2>1 DEF ChatEventsKept, NoticesKept
<1>6. CASE RoomQuit(r)
  <2> DEFINE event == Head(chat_events[r])
  <2>1. /\ chat_events[r] # <<>> /\ event.kind = "Quit"
        /\ chat_events' = [chat_events EXCEPT ![r] = Tail(@)]
        /\ client_exit' = Append(client_exit, event.peer_id)
    BY <1>6 DEF RoomQuit, TakesEvent
  <2>2. event \in Event /\ event.peer_id \in Peers
    <3>1. event \in Event
      BY <2>1, ReceiveType DEF TypeOK
    <3> QED
      BY <3>1, EventParts
  <2>3. CASE event.peer_id = p
    <3>1. event \in QuitsOf(p)
      BY <2>1, <2>2, <2>3 DEF QuitsOf
    <3> QED
      BY <1>1, <2>1, <2>3, <3>1, NoticeKeeps
  <2>4. CASE event.peer_id # p
    <3>1. NoticesKept(p)
      BY <2>1, <2>2, <2>4 DEF NoticesKept
    <3> QED
      BY <1>2, <1>3, <2>1, <3>1
  <2> QED
    BY <2>3, <2>4
<1> QED
  BY <1>4, <1>5, <1>6 DEF RoomNext, RoomEventNext

\* The write tasks and the client programs touch nothing of it, and no program
\* is unstarted again.
LEMMA ProgramKeeps ==
  ASSUME TypeOK, NEW p \in Peers, ExitInv(p),
         \/ \E q \in Peers : WriteNext(q) \/ UserNext(q) \/ ProgramNext(q)
         \/ UNCHANGED vars
  PROVE  ExitInv(p)'
<1> DEFINE Kept == /\ UNCHANGED <<chatroom_connection, chatroom_sender, outgoing, events,
                                  chat_events, client_exit, clients, chatroom_broker_id>>
                   /\ page'[p] = "Unstarted" => page[p] = "Unstarted"
<1> USE DEF ui_vars, read_vars, registry, client_vars, channels, peer_channels
<1>1. ASSUME NEW q \in Peers, WriteNext(q)
      PROVE  Kept
  BY <1>1 DEF WriteNext, Shutdown, MainResponse, Subscription, BroadcastNext,
     ChatMessage, Lagged, WriteFails, WriteTaskOnly
<1>2. ASSUME NEW q \in Peers, UserNext(q)
      PROVE  Kept
  BY <1>2 DEF UserNext, RequestUsername, RequestChatroom, RequestQuit, SendMessage,
     QuitChatroom, Kill, Request, UIOnly, End, Show, TypeOK
<1>3. ASSUME NEW q \in Peers, ProgramNext(q)
      PROVE  Kept
  BY <1>3 DEF ProgramNext, AskUsername, ShowLobby, AwaitConfirmation, EnterChatroom,
     ShowMessage, LeaveChatroom, SayGoodbye, RefreshLobby, UnexpectedResponse,
     ConnectionFails, Request, UIOnly, End, Show, TypeOK
<1>4. ASSUME UNCHANGED vars
      PROVE  Kept
  BY <1>4 DEF vars
<1>5. Kept
  BY <1>1, <1>2, <1>3, <1>4
<1>6. QueuesKept(p)
  BY <1>5 DEF QueuesKept, EventsKept, ChatEventsKept, NoticesKept
<1> QED
  BY <1>5, <1>6, BystanderKeeps

-----------------------------------------------------------------------------
(* The theorems                                                            *)

\* At first nobody may exit.
LEMMA InitExit == Init => ExitIInv
<1> SUFFICES ASSUME Init, NEW p \in Peers PROVE ExitInv(p)
  BY DEF ExitIInv
<1>1. /\ ~AddressWaits(p) /\ ~AddressHeld(p) /\ ~QuitSuspended(p) /\ ~GreetingSuspended(p)
      /\ OwnEvent(p) /\ p \notin clients
  BY DEF Init, AddressWaits, AddressHeld, QuitSuspended, GreetingSuspended, OwnEvent,
     Suspended
<1>2. /\ events = <<>> /\ client_exit = <<>> /\ \A r \in Rooms : chat_events[r] = <<>>
      /\ Len(chatroom_connection[p]) <= 1
  BY DEF Init
<1>3. /\ ~NoticeWaits(p) /\ ~GreetingWaits(p) /\ \A r \in Rooms : ~QuitWaits(p, r)
      /\ OnceQueued(p) /\ AtMostOne(events, NewClientsOf(p))
  BY <1>2, HoldsNothing DEF NoticeWaits, GreetingWaits, QuitWaits, OnceQueued
<1>4. ~MayExit(p)
  BY <1>1, <1>3 DEF MayExit
<1> QED
  BY <1>1, <1>3, <1>4 DEF ExitInv, OneHand, GreetedOnce, ExitsItsRoom

\* Every step keeps the invariant.
LEMMA NextExit == TypeOK /\ ExitIInv /\ [Next]_vars => ExitIInv'
<1> SUFFICES ASSUME TypeOK, ExitIInv, [Next]_vars, BrokerRunning', NEW p \in Peers
             PROVE  ExitInv(p)'
  BY DEF ExitIInv
<1>1. BrokerRunning
  <2>1. \A reason \in BrokerErrors : ~BrokerFails(reason)
    BY BrokerFailsEnds
  <2>2. CASE BrokerNext
    BY <2>2 DEF BrokerNext, HarvestClient, HarvestRoom, ClientExit, EventNext, NewClient,
       QuitEvent, Lobby, ReadSync, Username, Create, Join, RejectEvent, Takes
  <2>3. CASE ~BrokerNext
    <3>1. UNCHANGED registry
      BY <2>3, OthersUntouched DEF Next
    <3> QED
      BY <3>1 DEF registry, BrokerRunning
  <2> QED
    BY <2>2, <2>3
<1>2. \A q \in Peers : ExitInv(q)
  BY <1>1 DEF ExitIInv
<1>3. \A q \in Peers : OwnEvent(q)
  BY <1>2 DEF ExitInv
<1>4. CASE BrokerNext
  BY <1>2, <1>4, HarvestKeeps, ExitKeeps, EventKeeps DEF BrokerNext
<1>5. ASSUME NEW q \in Peers, ReadNext(q)
      PROVE  ExitInv(p)'
  <2>1. CASE q = p
    BY <1>1, <1>2, <1>5, <2>1, OwnReadKeeps
  <2>2. CASE q # p
    BY <1>2, <1>3, <1>5, <2>2, OtherReadKeeps
  <2> QED
    BY <2>1, <2>2
<1>6. ASSUME NEW r \in Rooms, RoomNext(r)
      PROVE  ExitInv(p)'
  BY <1>1, <1>2, <1>6, RoomKeeps
<1> QED
  BY <1>2, <1>4, <1>5, <1>6, ProgramKeeps DEF Next

\* A client in a chatroom that is listed may leave it.
LEMMA MemberMayLeave ==
  ASSUME TypeOK, RegistryInv, NEW p \in clients, chatroom_broker_id[p] # NoRoom
  PROVE  RoomIsListed(chatroom_broker_id[p])
<1> DEFINE r == chatroom_broker_id[p]
<1>1. r \in Rooms /\ p \in Members(r)
  BY DEF TypeOK, RoomOrNone, Members
<1>2. r \in chatroom_brokers
  BY <1>1, ListedHasMember DEF RegistryInv
<1> QED
  BY <1>1, <1>2 DEF RoomIsListed, RegistryInv, NamesAgree, Rooms, NoRoom

\* No step finds the maps in disagreement.
LEMMA NextUncorrupted ==
  ASSUME TypeOK, RegistryInv, ClientsOutlived, ExitIInv, NoCorruption, [Next]_vars
  PROVE  NoCorruption'
<1>1. ASSUME NEW reason \in BrokerErrors \ {"Corrupt"}, BrokerFails(reason)
      PROVE  NoCorruption'
  BY <1>1 DEF BrokerFails, NoCorruption
<1>2. {"ExitOfUnknownClient", "RoomStillInMap", "NoSuchClient", "IllegalEvent",
       "ReadTaskGone"} \subseteq BrokerErrors \ {"Corrupt"}
  BY DEF BrokerErrors
<1>3. ASSUME UNCHANGED broker_pc
      PROVE  NoCorruption'
  BY <1>3 DEF NoCorruption
<1>4. CASE HarvestClient
  <2> DEFINE p == Head(client_disconnection)
  <2>1. p \in clients
    <3>1. /\ client_disconnection \in Seq(Peers) /\ client_disconnection # <<>>
      BY <1>4 DEF HarvestClient, TypeOK
    <3>2. 1 \in DOMAIN client_disconnection /\ p = client_disconnection[1]
      BY <3>1
    <3> QED
      BY <3>2 DEF ClientsOutlived
  <2>2. username[p] # None => username[p] \in client_usernames
    BY <2>1 DEF RegistryInv, UsernamesAgree
  <2>3. ClientIsListed(p)
    BY <2>1, <2>2, MemberMayLeave DEF ClientIsListed
  <2> QED
    BY <1>3, <1>4, <2>3 DEF HarvestClient
<1>5. CASE ClientExit
  <2> DEFINE p == Head(client_exit)
  <2>1. client_exit \in Seq(Peers) /\ client_exit # <<>> /\ BrokerRunning
    BY <1>5 DEF ClientExit, TypeOK
  <2>2. p \in Peers /\ NoticeWaits(p)
    BY <2>1, HoldsTail DEF NoticeWaits
  <2>3. p \in clients => chatroom_broker_id[p] # NoRoom
    BY <2>1, <2>2 DEF ExitIInv, ExitInv, ExitsItsRoom, MayExit
  <2>4. p \in clients => RoomIsListed(chatroom_broker_id[p])
    BY <2>3, MemberMayLeave
  <2> QED
    BY <1>1, <1>2, <1>3, <1>5, <2>3, <2>4 DEF ClientExit
<1>6. CASE Join
  <2> DEFINE r == chatroom_name_to_id[Head(events).arg]
  <2>1. Head(events).arg \in Names
    <3>1. events \in Seq(Event) /\ events # <<>> /\ Head(events).kind = "Join"
      BY <1>6 DEF Join, Takes, TypeOK
    <3>2. Head(events) \in Event
      BY <3>1
    <3> QED
      BY <3>1, <3>2, EventParts
  <2>2. r # NoRoom => r \in chatroom_brokers
    BY <2>1 DEF RegistryInv, NamesAgree
  <2> QED
    BY <1>1, <1>2, <1>3, <1>6, <2>2 DEF Join, Refuse, OnlyAnswers, Admit
<1>7. CASE Create
  BY <1>1, <1>2, <1>3, <1>7 DEF Create, Refuse, OnlyAnswers, Admit
<1>8. CASE HarvestRoom \/ RejectEvent
  BY <1>1, <1>2, <1>3, <1>8 DEF HarvestRoom, RejectEvent, registry
<1>9. CASE NewClient \/ QuitEvent \/ Lobby \/ ReadSync \/ Username
  BY <1>3, <1>9 DEF NewClient, QuitEvent, Lobby, ReadSync, Username, OnlyAnswers
<1>10. CASE ~BrokerNext
  <2>1. UNCHANGED registry
    BY <1>10, OthersUntouched DEF Next
  <2> QED
    BY <1>3, <2>1 DEF registry
<1> QED
  BY <1>4, <1>5, <1>6, <1>7, <1>8, <1>9, <1>10 DEF BrokerNext, EventNext

\* The main broker never ends because its maps disagree: whatever leaves the
\* chatroom, by quitting or by a dead connection, leaves it once (broker,
\* handle_connection and chatroom_broker in server.rs).
THEOREM NeverCorrupt == Spec => []NoCorruption
<1>1. Init => ExitIInv /\ NoCorruption
  BY InitExit DEF Init, NoCorruption
<1>2. TypeOK /\ ExitIInv /\ [Next]_vars => ExitIInv'
  BY NextExit
<1>3. TypeOK /\ RegistryInv /\ ClientsOutlived /\ ExitIInv /\ NoCorruption /\ [Next]_vars
        => NoCorruption'
  BY NextUncorrupted
<1> QED
  BY <1>1, <1>2, <1>3, TypeCorrect, RegistryAgrees, SendersNeverDangle, PTL DEF Spec

=============================================================================

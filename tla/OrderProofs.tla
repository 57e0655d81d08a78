---------------------------- MODULE OrderProofs -----------------------------
(***************************************************************************)
(* The messages of a sender stay in order on their way to a reader: typed, *)
(* framed, held by a suspended send, with the sub-broker, in the reader's  *)
(* share of the broadcasts, written.  Every message has the number under   *)
(* which its sender typed it, and what is further on its way has a smaller *)
(* number, although a sender and a reader change chatrooms and the way     *)
(* leads through whichever they share.                                     *)
(***************************************************************************)
EXTENDS SurvivalProofs

-----------------------------------------------------------------------------
(* The stages of the way                                                   *)

\* A message as a response, as an event and as a frame.
MessagesOf(p) == {m \in MessageResponse : m.peer_id = p}
TextsOf(p) == {e \in Event : e.kind = "Message" /\ e.peer_id = p}
TextFrames == {f \in Frame : f.kind = "Message"}

\* The number under which its sender typed it.
TypedAs(m) == IF m \in MessageResponse THEN m.msg ELSE m.arg

\* The numbers of the messages in V that a queue holds.
Numbers(queue, V) == {TypedAs(queue[i]) : i \in {k \in DOMAIN queue : queue[k] \in V}}

\* They are in the order they were typed.
Sorted(queue, V) ==
  \A i, j \in DOMAIN queue :
    i < j /\ queue[i] \in V /\ queue[j] \in V => TypedAs(queue[i]) < TypedAs(queue[j])

\* The numbers of p's messages on their way to q, stage by stage.
Written(p, q) == Numbers(to_client[q], MessagesOf(p))
Buffered(p, q) ==
  Numbers(chat_receiver[q].queue, MessagesOf(p))
    \cup UNION {Numbers(subscriptions[q][i].receiver.queue, MessagesOf(p)) :
                  i \in DOMAIN subscriptions[q]}
Queued(p) == UNION {Numbers(chat_events[r], TextsOf(p)) : r \in Rooms}
Sending(p) ==
  IF Suspended(p) /\ Head(outgoing[p]).event \in TextsOf(p)
  THEN {TypedAs(Head(outgoing[p]).event)} ELSE {}
Framed(p) == Numbers(to_server[p], TextFrames)
Untyped(p) == IF ClientClosed(p) THEN {} ELSE sent[p] + 1 .. MaxMessages

Stages == 1 .. 6
Stage(p, q, k) ==
  CASE k = 1 -> Written(p, q) [] k = 2 -> Buffered(p, q) [] k = 3 -> Queued(p)
    [] k = 4 -> Sending(p) [] k = 5 -> Framed(p) [] k = 6 -> Untyped(p)

-----------------------------------------------------------------------------
(* The invariant                                                           *)

\* What is further on its way was typed earlier.
Rising(p, q) ==
  \A k, l \in Stages : k < l =>
    \A m \in Stage(p, q, k), n \in Stage(p, q, l) : m < n

\* And so in every queue.
QueuesSorted(p, q) ==
  /\ Sorted(to_client[q], MessagesOf(p))
  /\ Sorted(chat_receiver[q].queue, MessagesOf(p))
  /\ \A i \in DOMAIN subscriptions[q] :
       Sorted(subscriptions[q][i].receiver.queue, MessagesOf(p))
  /\ \A r \in Rooms : Sorted(chat_events[r], TextsOf(p))
  /\ Sorted(to_server[p], TextFrames)

\* In this queue p's Quit follows its messages.
QuitFollows(queue, p) ==
  \E j \in DOMAIN queue :
    /\ queue[j] \in QuitsOf(p)
    /\ \A i \in DOMAIN queue : queue[i] \in TextsOf(p) => i < j

\* p's read task has ended, has the address of r, or is suspended in its Quit to r.
Faces(p, r) ==
  \/ read_pc[p] = "done" \/ chatroom_sender[p] = r
  \/ Suspended(p) /\ Head(outgoing[p]).to = r /\ Head(outgoing[p]).event \in QuitsOf(p)

\* The messages of p wait in one chatroom, which it has not left before them.
AtHome(p) ==
  \A r \in Rooms : Holds(chat_events[r], TextsOf(p)) =>
    /\ \A s \in Rooms : Holds(chat_events[s], TextsOf(p)) => s = r
    /\ Faces(p, r) \/ QuitFollows(chat_events[r], p)

\* A receiver waits for a task that hears nothing else; a dummy receives nothing.
OneReceiver(q) ==
  /\ subscriptions[q] # <<>> => Deaf(q)
  /\ chat_receiver[q].room = NoRoom => chat_receiver[q].queue = <<>>
  /\ \A i \in DOMAIN subscriptions[q] :
       subscriptions[q][i].receiver.room = NoRoom =>
         subscriptions[q][i].receiver.queue = <<>>

OrderIInv ==
  \A p \in Peers :
    /\ AtHome(p) /\ OneReceiver(p)
    /\ \A q \in Peers : Rising(p, q) /\ QueuesSorted(p, q)

-----------------------------------------------------------------------------
(* Queues in order                                                         *)

\* The number of a message, by its form.
LEMMA NumberOf ==
  ASSUME NEW p \in Peers
  PROVE  /\ \A m \in MessagesOf(p) : TypedAs(m) = m.msg /\ TypedAs(m) \in Nat
         /\ \A e \in TextsOf(p) : TypedAs(e) = e.arg /\ TypedAs(e) \in Nat
         /\ \A f \in TextFrames : TypedAs(f) = f.arg /\ TypedAs(f) \in Nat
<1>1. \A m \in MessagesOf(p) : TypedAs(m) = m.msg /\ TypedAs(m) \in Nat
  BY DEF MessagesOf, MessageResponse, TypedAs
<1>2. \A e \in TextsOf(p) : e.arg \in Nat /\ e \notin MessageResponse
  BY DEF TextsOf, Event, MessageResponse
<1>3. \A f \in TextFrames : f.arg \in Nat /\ f \notin MessageResponse
  BY DEF TextFrames, Frame, MessageResponse
<1> QED
  BY <1>1, <1>2, <1>3 DEF TypedAs

\* A queue that loses its first message, or all.
LEMMA SortedTail ==
  ASSUME NEW S, NEW queue \in Seq(S), queue # <<>>, NEW V, Sorted(queue, V)
  PROVE  /\ Sorted(Tail(queue), V)
         /\ Numbers(Tail(queue), V) \subseteq Numbers(queue, V)
         /\ Head(queue) \in V =>
              /\ TypedAs(Head(queue)) \in Numbers(queue, V)
              /\ \A n \in Numbers(Tail(queue), V) : TypedAs(Head(queue)) < n
<1> DEFINE rest == Tail(queue)
<1>1. /\ Len(queue) \in Nat /\ Len(queue) >= 1 /\ DOMAIN queue = 1 .. Len(queue)
      /\ rest \in Seq(S) /\ DOMAIN rest = 1 .. Len(queue) - 1
      /\ \A i \in DOMAIN rest : i + 1 \in DOMAIN queue /\ rest[i] = queue[i + 1] /\ 1 < i + 1
      /\ 1 \in DOMAIN queue /\ queue[1] = Head(queue)
  OBVIOUS
<1>2. Sorted(rest, V)
  <2> SUFFICES ASSUME NEW i \in DOMAIN rest, NEW j \in DOMAIN rest, i < j,
                      rest[i] \in V, rest[j] \in V
               PROVE  TypedAs(rest[i]) < TypedAs(rest[j])
    BY DEF Sorted
  <2>1. i + 1 < j + 1
    BY <1>1
  <2> QED
    BY <1>1, <2>1 DEF Sorted
<1>3. \A n \in Numbers(rest, V) :
        \E i \in DOMAIN rest : rest[i] \in V /\ n = TypedAs(rest[i])
  BY DEF Numbers
<1>4. Numbers(rest, V) \subseteq Numbers(queue, V)
  BY <1>1, <1>3 DEF Numbers
<1>5. Head(queue) \in V =>
        /\ TypedAs(Head(queue)) \in Numbers(queue, V)
        /\ \A n \in Numbers(rest, V) : TypedAs(Head(queue)) < n
  BY <1>1, <1>3 DEF Sorted, Numbers
<1> QED
  BY <1>2, <1>4, <1>5

\* A queue with one more message, which is later than the others if it counts.
LEMMA SortedAppend ==
  ASSUME NEW S, NEW queue \in Seq(S), NEW m \in S, NEW V, Sorted(queue, V),
         m \in V => \A n \in Numbers(queue, V) : n < TypedAs(m)
  PROVE  /\ Sorted(Append(queue, m), V)
         /\ m \in V => Numbers(Append(queue, m), V) \subseteq Numbers(queue, V) \cup {TypedAs(m)}
         /\ m \notin V => Numbers(Append(queue, m), V) \subseteq Numbers(queue, V)
<1> DEFINE more == Append(queue, m)
           n == Len(queue)
<1>1. /\ n \in Nat /\ DOMAIN queue = 1 .. n /\ DOMAIN more = 1 .. n + 1
      /\ \A i \in 1 .. n : more[i] = queue[i]
      /\ more[n + 1] = m
  OBVIOUS
<1>2. Sorted(more, V)
  <2> SUFFICES ASSUME NEW i \in DOMAIN more, NEW j \in DOMAIN more, i < j,
                      more[i] \in V, more[j] \in V
               PROVE  TypedAs(more[i]) < TypedAs(more[j])
    BY DEF Sorted
  <2>1. i \in 1 .. n /\ more[i] = queue[i]
    BY <1>1
  <2>2. CASE j \in 1 .. n
    BY <1>1, <2>1, <2>2 DEF Sorted
  <2>3. CASE j = n + 1
    <3>1. TypedAs(queue[i]) \in Numbers(queue, V)
      BY <1>1, <2>1 DEF Numbers
    <3> QED
      BY <1>1, <2>1, <2>3, <3>1
  <2> QED
    BY <1>1, <2>2, <2>3
<1>3. \A k \in Numbers(more, V) : k \in Numbers(queue, V) \/ (m \in V /\ k = TypedAs(m))
  <2> SUFFICES ASSUME NEW i \in DOMAIN more, more[i] \in V
               PROVE  TypedAs(more[i]) \in Numbers(queue, V) \/ (m \in V /\ TypedAs(more[i]) = TypedAs(m))
    BY DEF Numbers
  <2> QED
    BY <1>1 DEF Numbers
<1> QED
  BY <1>2, <1>3

\* A queue that is emptied.
LEMMA SortedNothing ==
  ASSUME NEW V
  PROVE  Sorted(<<>>, V) /\ Numbers(<<>>, V) = {}
  BY DEF Sorted, Numbers

\* A queue holds messages of V exactly if there are numbers of theirs.
LEMMA HeldNumbers ==
  ASSUME NEW queue, NEW V
  PROVE  Holds(queue, V) <=> Numbers(queue, V) # {}
  BY DEF Holds, Numbers

\* A queue that shrinks, or gains a message that does not count.
LEMMA SortedStays ==
  ASSUME NEW S, NEW queue \in Seq(S), NEW V, NEW after, Sorted(queue, V),
         Shrinks(queue, after) \/ Gains(queue, after, S \ V)
  PROVE  Sorted(after, V) /\ Numbers(after, V) \subseteq Numbers(queue, V)
<1>1. CASE after = queue
  BY <1>1
<1>2. CASE after = <<>>
  BY <1>2, SortedNothing
<1>3. CASE queue # <<>> /\ after = Tail(queue)
  BY <1>3, SortedTail
<1>4. CASE Gains(queue, after, S \ V)
  <2>1. PICK m \in S \ V : after = Append(queue, m)
    BY <1>4 DEF Gains
  <2> QED
    BY <2>1, SortedAppend
<1> QED
  BY <1>1, <1>2, <1>3, <1>4 DEF Shrinks

-----------------------------------------------------------------------------
(* Stages                                                                  *)

\* Where every stage only loses messages they stay in order.
LEMMA RisingStays ==
  ASSUME NEW p \in Peers, NEW q \in Peers, Rising(p, q),
         \A k \in Stages : Stage(p, q, k)' \subseteq Stage(p, q, k)
  PROVE  Rising(p, q)'
  BY DEF Rising

\* A message moves on from stage k to stage l, past those behind it.
LEMMA RisingMoves ==
  ASSUME NEW p \in Peers, NEW q \in Peers, Rising(p, q),
         NEW k \in Stages, NEW l \in Stages, l < k, NEW n \in Stage(p, q, k),
         \A i \in Stages \ {l} : Stage(p, q, i)' \subseteq Stage(p, q, i),
         Stage(p, q, l)' \subseteq Stage(p, q, l) \cup {n},
         \A i \in Stages : l < i /\ i <= k => \A m \in Stage(p, q, i)' : n < m
  PROVE  Rising(p, q)'
<1> SUFFICES ASSUME NEW i \in Stages, NEW j \in Stages, i < j,
                    NEW a \in Stage(p, q, i)', NEW b \in Stage(p, q, j)'
             PROVE  a < b
  BY DEF Rising
<1>1. CASE a \in Stage(p, q, i) /\ b \in Stage(p, q, j)
  BY <1>1 DEF Rising
<1>2. CASE i = l /\ a = n
  <2>1. CASE j <= k
    BY <1>2, <2>1
  <2>2. CASE ~(j <= k)
    <3>1. k < j /\ j # l
      BY <1>2, <2>2 DEF Stages
    <3> QED
      BY <1>2, <3>1 DEF Rising
  <2> QED
    BY <2>1, <2>2
<1>3. CASE j = l /\ b = n
  <2>1. i < k /\ i # l
    BY <1>3 DEF Stages
  <2> QED
    BY <1>3, <2>1 DEF Rising
<1>4. a \in Stage(p, q, i) \/ (i = l /\ a = n)
  OBVIOUS
<1>5. b \in Stage(p, q, j) \/ (j = l /\ b = n)
  OBVIOUS
<1>6. ~(i = l /\ j = l)
  BY DEF Stages
<1> QED
  BY <1>1, <1>2, <1>3, <1>4, <1>5, <1>6

\* The reader's half of the way: no message of p arrives, and none changes places.
HearsNothing(p, q) ==
  /\ \/ Shrinks(to_client[q], to_client'[q])
     \/ Gains(to_client[q], to_client'[q], Response \ MessagesOf(p))
  /\ Shrinks(chat_receiver[q].queue, chat_receiver'[q].queue)
  /\ \A i \in DOMAIN subscriptions'[q] :
       \/ subscriptions'[q][i].receiver.queue = <<>>
       \/ i \in DOMAIN subscriptions[q] /\ subscriptions'[q][i] = subscriptions[q][i]

\* The sender's half.
RoomsStay(p) ==
  \A r \in Rooms :
    \/ Shrinks(chat_events[r], chat_events'[r])
    \/ Gains(chat_events[r], chat_events'[r], Event \ TextsOf(p))
SendIsNoText(p) ==
  \/ outgoing'[p] \in {outgoing[p], <<>>}
  \/ Head(outgoing'[p]).event \notin TextsOf(p)
FramesStay(p) ==
  \/ Shrinks(to_server[p], to_server'[p])
  \/ Gains(to_server[p], to_server'[p], Frame \ TextFrames)
TypingStays(p) ==
  \/ ClientClosed(p)'
  \/ sent'[p] = sent[p] /\ ~ClientClosed(p)

WayStays(p, q) ==
  HearsNothing(p, q) /\ RoomsStay(p) /\ SendIsNoText(p) /\ FramesStay(p) /\ TypingStays(p)

\* The reader's half stays in order.
LEMMA HearingKeeps ==
  ASSUME TypeOK, NEW p \in Peers, NEW q \in Peers, QueuesSorted(p, q), HearsNothing(p, q)
  PROVE  /\ Sorted(to_client[q], MessagesOf(p))'
         /\ Sorted(chat_receiver[q].queue, MessagesOf(p))'
         /\ \A i \in DOMAIN subscriptions'[q] :
              Sorted(subscriptions'[q][i].receiver.queue, MessagesOf(p))
         /\ \A k \in {1, 2} : Stage(p, q, k)' \subseteq Stage(p, q, k)
<1> DEFINE V == MessagesOf(p)
           heard == chat_receiver[q].queue
           subs == subscriptions[q]
<1>1. /\ to_client[q] \in Seq(Response) /\ heard \in Seq(MessageResponse)
      /\ Sorted(to_client[q], V) /\ Sorted(heard, V)
      /\ \A i \in DOMAIN subs : Sorted(subs[i].receiver.queue, V)
  BY DEF TypeOK, BroadcastReceiver, QueuesSorted
<1>2. /\ \/ Shrinks(to_client[q], to_client'[q])
         \/ Gains(to_client[q], to_client'[q], Response \ V)
      /\ Shrinks(heard, heard')
      /\ \A i \in DOMAIN subs' :
           subs'[i].receiver.queue = <<>> \/ (i \in DOMAIN subs /\ subs'[i] = subs[i])
  BY DEF HearsNothing
<1>3. V' = V /\ \A queue : Numbers(queue, V') = Numbers(queue, V)
  BY DEF MessagesOf
<1> HIDE DEF V, heard, subs
<1>4. /\ Sorted(to_client'[q], V) /\ Numbers(to_client'[q], V) \subseteq Numbers(to_client[q], V)
      /\ Sorted(heard', V) /\ Numbers(heard', V) \subseteq Numbers(heard, V)
  BY <1>1, <1>2, SortedStays
<1>5. \A i \in DOMAIN subs' :
        /\ Sorted(subs'[i].receiver.queue, V)
        /\ \/ Numbers(subs'[i].receiver.queue, V) = {}
           \/ i \in DOMAIN subs /\ subs'[i] = subs[i]
  BY <1>1, <1>2, SortedNothing
<1>6. Written(p, q)' \subseteq Written(p, q)
  BY <1>3, <1>4 DEF Written, V
<1>7. Buffered(p, q)' \subseteq Buffered(p, q)
  BY <1>3, <1>4, <1>5 DEF Buffered, V, heard, subs
<1> QED
  BY <1>3, <1>4, <1>5, <1>6, <1>7 DEF Stage, V, heard, subs

\* So does the sender's.
LEMMA SendingKeeps ==
  ASSUME TypeOK, NEW p \in Peers, NEW q \in Peers, QueuesSorted(p, q)
  PROVE  /\ RoomsStay(p) =>
              /\ \A r \in Rooms :
                   /\ Sorted(chat_events'[r], TextsOf(p))
                   /\ Numbers(chat_events'[r], TextsOf(p)) \subseteq Numbers(chat_events[r], TextsOf(p))
              /\ Stage(p, q, 3)' \subseteq Stage(p, q, 3)
         /\ SendIsNoText(p) => Stage(p, q, 4)' \subseteq Stage(p, q, 4)
         /\ FramesStay(p) =>
              Sorted(to_server'[p], TextFrames) /\ Stage(p, q, 5)' \subseteq Stage(p, q, 5)
         /\ TypingStays(p) => Stage(p, q, 6)' \subseteq Stage(p, q, 6)
<1>1. ASSUME RoomsStay(p)
      PROVE  /\ \A r \in Rooms :
                  /\ Sorted(chat_events'[r], TextsOf(p))
                  /\ Numbers(chat_events'[r], TextsOf(p)) \subseteq Numbers(chat_events[r], TextsOf(p))
             /\ Queued(p)' \subseteq Queued(p)
  <2> DEFINE V == TextsOf(p)
  <2>1. \A r \in Rooms :
          /\ chat_events[r] \in Seq(Event) /\ Sorted(chat_events[r], V)
          /\ \/ Shrinks(chat_events[r], chat_events'[r])
             \/ Gains(chat_events[r], chat_events'[r], Event \ V)
    BY <1>1 DEF TypeOK, QueuesSorted, RoomsStay
  <2>2. V' = V
    BY DEF TextsOf
  <2> HIDE DEF V
  <2>3. \A r \in Rooms : /\ Sorted(chat_events'[r], V)
                         /\ Numbers(chat_events'[r], V) \subseteq Numbers(chat_events[r], V)
    BY <2>1, SortedStays
  <2>4. Queued(p)' \subseteq Queued(p)
    BY <2>2, <2>3 DEF Queued, V
  <2> QED
    BY <2>3, <2>4 DEF V
<1>2. ASSUME SendIsNoText(p)
      PROVE  Sending(p)' \subseteq Sending(p)
  BY <1>2 DEF SendIsNoText, Sending, Suspended, TextsOf
<1>3. ASSUME FramesStay(p)
      PROVE  Sorted(to_server'[p], TextFrames) /\ Framed(p)' \subseteq Framed(p)
  <2> DEFINE V == TextFrames
  <2>1. /\ to_server[p] \in Seq(Frame) /\ Sorted(to_server[p], V)
        /\ \/ Shrinks(to_server[p], to_server'[p])
           \/ Gains(to_server[p], to_server'[p], Frame \ V)
    BY <1>3 DEF TypeOK, QueuesSorted, FramesStay
  <2> HIDE DEF V
  <2>2. Sorted(to_server'[p], V) /\ Numbers(to_server'[p], V) \subseteq Numbers(to_server[p], V)
    BY <2>1, SortedStays
  <2> QED
    BY <2>2 DEF Framed, V, TextFrames
<1>4. ASSUME TypingStays(p)
      PROVE  Untyped(p)' \subseteq Untyped(p)
  BY <1>4 DEF TypingStays, Untyped
<1> QED
  BY <1>1, <1>2, <1>3, <1>4 DEF Stage

\* A step that moves no message of p keeps them in order.
LEMMA WayKeeps ==
  ASSUME TypeOK, NEW p \in Peers, NEW q \in Peers, Rising(p, q), QueuesSorted(p, q),
         WayStays(p, q)
  PROVE  Rising(p, q)' /\ QueuesSorted(p, q)'
<1>1. \A k \in Stages : Stage(p, q, k)' \subseteq Stage(p, q, k)
  BY HearingKeeps, SendingKeeps DEF WayStays, Stages
<1>2. QueuesSorted(p, q)'
  BY HearingKeeps, SendingKeeps DEF WayStays, QueuesSorted, TextsOf, MessagesOf, TextFrames
<1> QED
  BY <1>1, <1>2, RisingStays

-----------------------------------------------------------------------------
(* Home                                                                    *)

\* A Quit that follows the messages follows what is left of them.
LEMMA QuitFollowsOn ==
  ASSUME NEW p \in Peers, NEW queue \in Seq(Event), NEW after, QuitFollows(queue, p),
         Shrinks(queue, after) \/ Gains(queue, after, Event \ TextsOf(p)),
         Holds(after, TextsOf(p))
  PROVE  QuitFollows(after, p)
<1>1. PICK j \in DOMAIN queue :
        /\ queue[j] \in QuitsOf(p)
        /\ \A i \in DOMAIN queue : queue[i] \in TextsOf(p) => i < j
  BY DEF QuitFollows
<1>2. CASE after = queue
  BY <1>2
<1>3. CASE after = <<>>
  BY <1>3, HoldsNothing
<1>4. CASE queue # <<>> /\ after = Tail(queue)
  <2>1. /\ Len(queue) \in Nat /\ DOMAIN queue = 1 .. Len(queue)
        /\ DOMAIN after = 1 .. Len(queue) - 1
        /\ \A i \in DOMAIN after : i + 1 \in DOMAIN queue /\ after[i] = queue[i + 1]
    BY <1>4
  <2>2. PICK i \in DOMAIN after : after[i] \in TextsOf(p)
    BY DEF Holds
  <2>3. i + 1 < j
    BY <1>1, <2>1, <2>2
  <2>4. j - 1 \in DOMAIN after /\ after[j - 1] = queue[j]
    BY <1>1, <2>1, <2>3
  <2>5. \A k \in DOMAIN after : after[k] \in TextsOf(p) => k < j - 1
    BY <1>1, <2>1
  <2> QED
    BY <1>1, <2>4, <2>5 DEF QuitFollows
<1>5. CASE Gains(queue, after, Event \ TextsOf(p))
  <2>1. PICK e \in Event \ TextsOf(p) : after = Append(queue, e)
    BY <1>5 DEF Gains
  <2>2. /\ DOMAIN queue \subseteq DOMAIN after
        /\ \A i \in DOMAIN queue : after[i] = queue[i]
        /\ \A i \in DOMAIN after : i \in DOMAIN queue \/ after[i] = e
    BY <2>1
  <2> QED
    BY <1>1, <2>1, <2>2 DEF QuitFollows
<1> QED
  BY <1>2, <1>3, <1>4, <1>5 DEF Shrinks

\* A Quit that comes last follows all messages.
LEMMA QuitComesLast ==
  ASSUME NEW p \in Peers, NEW queue \in Seq(Event), NEW e \in QuitsOf(p)
  PROVE  QuitFollows(Append(queue, e), p)
<1>1. e \in Event /\ e \notin TextsOf(p)
  BY DEF QuitsOf, TextsOf
<1> DEFINE n == Len(queue) + 1
           after == Append(queue, e)
<1>2. /\ n \in DOMAIN after /\ after[n] = e
      /\ \A i \in DOMAIN after : i < n \/ after[i] = e
  BY <1>1
<1> QED
  BY <1>1, <1>2 DEF QuitFollows

\* Where no chatroom gains a message of p and the read task faces as it did, p's
\* messages stay at home.
LEMMA HomeStays ==
  ASSUME TypeOK, NEW p \in Peers, AtHome(p), RoomsStay(p),
         \A r \in Rooms : Holds(chat_events[r], TextsOf(p)) /\ Faces(p, r) =>
           Faces(p, r)' \/ QuitFollows(chat_events'[r], p)
  PROVE  AtHome(p)'
<1> SUFFICES ASSUME NEW r \in Rooms, Holds(chat_events'[r], TextsOf(p))
             PROVE  /\ \A s \in Rooms : Holds(chat_events'[s], TextsOf(p)) => s = r
                    /\ Faces(p, r)' \/ QuitFollows(chat_events'[r], p)
  BY DEF AtHome, TextsOf, QuitFollows, QuitsOf
<1>1. \A s \in Rooms :
        Holds(chat_events'[s], TextsOf(p)) => Holds(chat_events[s], TextsOf(p))
  <2> DEFINE V == TextsOf(p)
  <2>1. \A s \in Rooms :
          /\ chat_events[s] \in Seq(Event)
          /\ \/ Shrinks(chat_events[s], chat_events'[s])
             \/ Gains(chat_events[s], chat_events'[s], Event \ V)
    BY DEF TypeOK, RoomsStay
  <2> HIDE DEF V
  <2>2. \A s \in Rooms : Holds(chat_events'[s], V) => Holds(chat_events[s], V)
    BY <2>1, QueueKeeps
  <2> QED
    BY <2>2 DEF V
<1>2. Faces(p, r)' \/ QuitFollows(chat_events'[r], p)
  <2>1. Faces(p, r) \/ QuitFollows(chat_events[r], p)
    BY <1>1 DEF AtHome
  <2>2. QuitFollows(chat_events[r], p) => QuitFollows(chat_events'[r], p)
    BY QuitFollowsOn DEF TypeOK, RoomsStay
  <2> QED
    BY <1>1, <2>1, <2>2
<1> QED
  BY <1>1, <1>2 DEF AtHome

\* The sender p rests: what it sends stays where it is.
SenderRests(p) ==
  /\ RoomsStay(p) /\ SendIsNoText(p) /\ FramesStay(p) /\ TypingStays(p)
  /\ \/ read_pc'[p] = "done"
     \/ UNCHANGED <<read_pc[p], chatroom_sender[p], outgoing[p]>>

\* Then the messages stay in order if the reader hears none of them.
LEMMA RestKeeps ==
  ASSUME TypeOK, NEW p \in Peers, NEW q \in Peers,
         AtHome(p), Rising(p, q), QueuesSorted(p, q), SenderRests(p), HearsNothing(p, q)
  PROVE  AtHome(p)' /\ Rising(p, q)' /\ QueuesSorted(p, q)'
<1>1. Rising(p, q)' /\ QueuesSorted(p, q)'
  BY WayKeeps DEF WayStays, SenderRests
<1>2. AtHome(p)'
  BY HomeStays DEF SenderRests, Faces, Suspended, QuitsOf
<1> QED
  BY <1>1, <1>2

-----------------------------------------------------------------------------
(* Who does not send and who does not hear                                 *)

\* What is unchanged rests.
LEMMA SameRests ==
  ASSUME NEW p \in Peers, NEW q \in Peers
  PROVE  /\ UNCHANGED chat_events => RoomsStay(p)
         /\ UNCHANGED outgoing[p] => SendIsNoText(p)
         /\ UNCHANGED to_server[p] => FramesStay(p)
         /\ UNCHANGED <<page[p], sent[p]>> => TypingStays(p)
         /\ UNCHANGED <<to_client[q], chat_receiver[q], subscriptions[q]>> /\ OneReceiver(q) =>
              HearsNothing(p, q) /\ OneReceiver(q)'
<1>1. UNCHANGED chat_events => RoomsStay(p)
  BY DEF RoomsStay, Shrinks
<1>2. UNCHANGED to_server[p] => FramesStay(p)
  BY DEF FramesStay, Shrinks
<1>3. UNCHANGED outgoing[p] => SendIsNoText(p)
  BY DEF SendIsNoText
<1>4. UNCHANGED <<page[p], sent[p]>> => TypingStays(p)
  BY DEF TypingStays, ClientClosed
<1>5. ASSUME UNCHANGED <<to_client[q], chat_receiver[q], subscriptions[q]>>, OneReceiver(q)
      PROVE  HearsNothing(p, q) /\ OneReceiver(q)'
  BY <1>5 DEF HearsNothing, OneReceiver, Shrinks, Deaf
<1> QED
  BY <1>1, <1>2, <1>3, <1>4, <1>5

\* A client that reads hears nothing new.
LEMMA ReadingHears ==
  ASSUME NEW p \in Peers, NEW q \in Peers, OneReceiver(q),
         UNCHANGED <<chat_receiver[q], subscriptions[q]>>,
         \/ to_client'[q] = to_client[q]
         \/ to_client[q] # <<>> /\ to_client'[q] = Tail(to_client[q])
  PROVE  HearsNothing(p, q) /\ OneReceiver(q)'
<1>1. Shrinks(to_client[q], to_client'[q])
  BY DEF Shrinks
<1> QED
  BY <1>1 DEF HearsNothing, OneReceiver, Shrinks, Deaf

\* What the main broker does to the chatrooms and to the receivers on their way:
\* it drops them, or sends one more to a client that has just asked to enter.
LEMMA BrokerForwards ==
  ASSUME TypeOK, NEW q \in Peers, BrokerNext
  PROVE  /\ UNCHANGED <<chat_receiver, to_client, to_server, page, sent, read_vars>>
         /\ \A r \in Rooms : chat_events'[r] \in {chat_events[r], <<>>}
         /\ \/ subscriptions'[q] \in {subscriptions[q], <<>>}
            \/ /\ events # <<>> /\ Head(events).peer_id = q /\ MayEnter(q)
               /\ \E r \in Rooms : \E m :
                    subscriptions'[q] =
                      Append(subscriptions[q], [receiver |-> Receiver(r), response |-> m])
<1> USE DEF sockets, ui_vars, read_vars, write_vars, peer_channels
<1> DEFINE Rests ==
             /\ \A r \in Rooms : chat_events'[r] \in {chat_events[r], <<>>}
             /\ subscriptions'[q] \in {subscriptions[q], <<>>}
<1>1. UNCHANGED <<chat_receiver, to_client, to_server, page, sent, read_vars>>
  BY DEF BrokerNext, HarvestClient, HarvestRoom, ClientExit, EventNext, NewClient,
     QuitEvent, Lobby, ReadSync, Username, Create, Join, RejectEvent, Refuse, Admit,
     OnlyAnswers
<1>2. ASSUME NEW reason, BrokerFails(reason)
      PROVE  Rests
  BY <1>2 DEF BrokerFails
<1>3. CASE HarvestClient
  <2>1. CASE ~ClientIsListed(Head(client_disconnection))
    BY <1>2, <1>3, <2>1 DEF HarvestClient
  <2>2. CASE ClientIsListed(Head(client_disconnection))
    BY <1>3, <2>2 DEF HarvestClient, Empty, TypeOK
  <2> QED
    BY <1>1, <2>1, <2>2
<1>4. CASE HarvestRoom
  <2>1. CASE Head(disconnected_sub_broker) \in chatroom_brokers
    BY <1>2, <1>4, <2>1 DEF HarvestRoom
  <2>2. CASE Head(disconnected_sub_broker) \notin chatroom_brokers
    BY <1>4, <2>2 DEF HarvestRoom, Empty, TypeOK
  <2> QED
    BY <1>1, <2>1, <2>2
<1>5. CASE ClientExit
  <2>1. (\E reason : BrokerFails(reason)) \/ UNCHANGED <<chat_events, subscriptions>>
    BY <1>5 DEF ClientExit
  <2> QED
    BY <1>1, <1>2, <2>1
<1>6. CASE NewClient \/ QuitEvent \/ Lobby \/ ReadSync \/ Username
  BY <1>1, <1>6 DEF NewClient, QuitEvent, Lobby, ReadSync, Username, OnlyAnswers
<1>7. CASE RejectEvent
  BY <1>1, <1>2, <1>7 DEF RejectEvent
<1>8. CASE Create \/ Join
  <2> DEFINE p == Head(events).peer_id
  <2>1. events # <<>> /\ MayEnter(p)
    BY <1>8 DEF Create, Join, Takes, Acceptable
  <2>2. \/ \E kind : Refuse(kind)
        \/ \E reason : BrokerFails(reason)
        \/ \E r \in Rooms : \E m : Admit(p, r, m)
    <3>1. CASE Create
      BY <3>1 DEF Create
    <3>2. CASE Join
      <4>1. chatroom_name_to_id[Head(events).arg] \in chatroom_brokers
              => chatroom_name_to_id[Head(events).arg] \in Rooms
        BY DEF TypeOK
      <4> QED
        BY <3>2, <4>1 DEF Join
    <3> QED
      BY <1>8, <3>1, <3>2
  <2>3. ASSUME NEW kind, Refuse(kind)
        PROVE  Rests
    BY <2>3 DEF Refuse, OnlyAnswers
  <2>4. ASSUME NEW r \in Rooms, NEW m, Admit(p, r, m)
        PROVE  /\ UNCHANGED chat_events
               /\ p # q => UNCHANGED subscriptions[q]
               /\ p = q => subscriptions'[q] =
                    Append(subscriptions[q], [receiver |-> Receiver(r), response |-> m])
    BY <2>4 DEF Admit, Put, TypeOK
  <2> QED
    BY <1>1, <1>2, <2>1, <2>2, <2>3, <2>4
<1> QED
  BY <1>3, <1>4, <1>5, <1>6, <1>7, <1>8 DEF BrokerNext, EventNext

\* The main broker forwards no message; whom it puts in a chatroom heard nothing.
LEMMA BrokerRests ==
  ASSUME TypeOK, NEW p \in Peers, NEW q \in Peers, HandInv(q), Tied(q), OneReceiver(q),
         BrokerNext
  PROVE  SenderRests(p) /\ HearsNothing(p, q) /\ OneReceiver(q)'
<1>1. /\ UNCHANGED <<chat_receiver, to_client, to_server, page, sent, read_vars>>
      /\ \A r \in Rooms : chat_events'[r] \in {chat_events[r], <<>>}
  BY BrokerForwards
<1>2. SenderRests(p)
  <2>1. RoomsStay(p)
    BY <1>1 DEF RoomsStay, Shrinks
  <2> QED
    BY <1>1, <2>1, SameRests DEF SenderRests, read_vars
<1>3. ASSUME subscriptions'[q] \in {subscriptions[q], <<>>}
      PROVE  HearsNothing(p, q) /\ OneReceiver(q)'
  <2>1. DOMAIN <<>> = {}
    OBVIOUS
  <2> QED
    BY <1>1, <1>3, <2>1 DEF HearsNothing, OneReceiver, Shrinks, Deaf
<1>4. ASSUME NEW r \in Rooms, NEW m, events # <<>>, Head(events).peer_id = q, MayEnter(q),
             subscriptions'[q] =
               Append(subscriptions[q], [receiver |-> Receiver(r), response |-> m])
      PROVE  HearsNothing(p, q) /\ OneReceiver(q)'
  <2> DEFINE o == [receiver |-> Receiver(r), response |-> m]
             old == subscriptions[q]
  <2>1. o.receiver.queue = <<>>
    BY DEF Receiver
  <2>2. subscriptions'[q] = Append(old, o) /\ old \in Seq(SubscriptionOf)
    BY <1>4 DEF TypeOK
  <2> HIDE DEF o, old
  <2>3. \A i \in DOMAIN Append(old, o) :
          Append(old, o)[i] = o \/ (i \in DOMAIN old /\ Append(old, o)[i] = old[i])
    BY <2>2
  <2>4. Deaf(q)
    <3>1. main_responses[q] = <<>>
      BY <1>4, NoAnswerYet
    <3>2. chat_receiver[q].room = NoRoom
      BY <1>4, <3>1, HoldsNothing DEF Tied, MayEnter
    <3> QED
      BY <3>2 DEF Deaf, OneReceiver
  <2>5. HearsNothing(p, q)
    BY <1>1, <2>1, <2>2, <2>3 DEF HearsNothing, Shrinks, old
  <2> QED
    BY <1>1, <2>1, <2>2, <2>3, <2>4, <2>5 DEF OneReceiver, Deaf, old
<1> QED
  BY <1>2, <1>3, <1>4, BrokerForwards

-----------------------------------------------------------------------------
(* The client program                                                      *)

\* What a client program leaves alone.
LEMMA ClientTouches ==
  ASSUME TypeOK, NEW o \in Peers, UserNext(o) \/ ProgramNext(o), NEW q \in Peers
  PROVE  /\ UNCHANGED <<chat_receiver, subscriptions, chat_events, read_vars>>
         /\ \/ to_client'[q] = to_client[q]
            \/ to_client[q] # <<>> /\ to_client'[q] = Tail(to_client[q])
         /\ q # o => UNCHANGED <<to_server[q], page[q], sent[q]>>
<1> USE DEF channels, peer_channels, write_vars, ui_vars
<1>1. CASE UserNext(o)
  <2>1. /\ UNCHANGED <<chat_receiver, subscriptions, chat_events, read_vars, to_client>>
        /\ q # o => UNCHANGED <<to_server[q], page[q], sent[q]>>
    BY <1>1 DEF UserNext, RequestUsername, RequestChatroom, RequestQuit, SendMessage,
       QuitChatroom, Kill, Request, UIOnly, End, Show, Put, TypeOK
  <2> QED
    BY <2>1
<1>2. CASE ProgramNext(o)
  <2>1. UNCHANGED <<chat_receiver, subscriptions, chat_events, read_vars>>
    BY <1>2 DEF ProgramNext, AskUsername, ShowLobby, AwaitConfirmation, EnterChatroom,
       ShowMessage, LeaveChatroom, SayGoodbye, RefreshLobby, UnexpectedResponse,
       ConnectionFails, Request, UIOnly
  <2>2. \/ to_client' = to_client
        \/ to_client[o] # <<>> /\ to_client' = [to_client EXCEPT ![o] = Tail(@)]
    BY <1>2 DEF ProgramNext, AskUsername, ShowLobby, AwaitConfirmation, EnterChatroom,
       ShowMessage, LeaveChatroom, SayGoodbye, RefreshLobby, UnexpectedResponse,
       ConnectionFails, Request, Reading
  <2>3. q # o => UNCHANGED <<to_server[q], page[q], sent[q]>>
    BY <1>2 DEF ProgramNext, AskUsername, ShowLobby, AwaitConfirmation, EnterChatroom,
       ShowMessage, LeaveChatroom, SayGoodbye, RefreshLobby, UnexpectedResponse,
       ConnectionFails, Request, End, Show, Put, TypeOK
  <2>4. \/ to_client'[q] = to_client[q]
        \/ to_client[q] # <<>> /\ to_client'[q] = Tail(to_client[q])
    BY <2>2 DEF TypeOK
  <2> QED
    BY <2>1, <2>3, <2>4
<1> QED
  BY <1>1, <1>2

\* Unless it sends a message it writes at most another frame, and types nothing.
LEMMA ClientRests ==
  ASSUME TypeOK, NEW p \in Peers, UserNext(p) \/ ProgramNext(p), ~SendMessage(p)
  PROVE  FramesStay(p) /\ TypingStays(p)
<1> DEFINE Ends == page'[p] \in {"QuitLobbyPage", "Crashed", "Gone"} /\ UNCHANGED to_server
           Frames == Frame \ TextFrames
<1>1. ASSUME ClientOpen(p), page'[p] \in OpenPages \/ UNCHANGED page, UNCHANGED sent
      PROVE  TypingStays(p)
  BY <1>1 DEF TypingStays, ClientOpen, ClientClosed, OpenPages
<1>2. ASSUME UNCHANGED to_server
      PROVE  FramesStay(p)
  BY <1>2 DEF FramesStay, Shrinks
<1>3. ASSUME Ends
      PROVE  FramesStay(p) /\ TypingStays(p)
  BY <1>2, <1>3 DEF TypingStays, ClientClosed
<1>4. ASSUME NEW frame \in Frames, Request(p, frame), ClientOpen(p)
      PROVE  FramesStay(p) /\ TypingStays(p)
  <2>1. Gains(to_server[p], to_server'[p], Frames)
    BY <1>4 DEF Request, Put, Gains, TypeOK
  <2> QED
    BY <1>1, <1>4, <2>1 DEF Request, FramesStay
<1>5. CASE UserNext(p)
  <2>1. CASE \E u \in Choices[p] : RequestUsername(p, u)
    <3>1. PICK u \in Choices[p] : RequestUsername(p, u)
      BY <2>1
    <3>2. [kind |-> "Username", arg |-> u] \in Frames
      BY ChoicesAssumption DEF Frame, TextFrames
    <3> QED
      BY <1>4, <3>1, <3>2 DEF RequestUsername, Prompts, ClientOpen, OpenPages
  <2>2. CASE \E kind \in {"Create", "Join"} : \E n \in Names : RequestChatroom(p, kind, n)
    <3>1. PICK kind \in {"Create", "Join"}, n \in Names : RequestChatroom(p, kind, n)
      BY <2>2
    <3>2. [kind |-> kind, arg |-> n] \in Frames
      BY DEF Frame, TextFrames
    <3> QED
      BY <1>4, <3>1, <3>2 DEF RequestChatroom, Prompts, ClientOpen, OpenPages
  <2>3. CASE RequestQuit(p) \/ QuitChatroom(p)
    <3>1. [kind |-> "Quit", arg |-> None] \in Frames
      BY DEF Frame, TextFrames
    <3> QED
      BY <1>4, <2>3, <3>1 DEF RequestQuit, QuitChatroom, Prompts, ClientOpen, OpenPages
  <2>4. CASE Kill(p)
    BY <1>3, <2>4 DEF Kill, End, Show, TypeOK
  <2> QED
    BY <1>5, <2>1, <2>2, <2>3, <2>4 DEF UserNext
<1>6. CASE ProgramNext(p)
  <2>1. CASE AskUsername(p) \/ ShowLobby(p) \/ AwaitConfirmation(p) \/ EnterChatroom(p)
             \/ ShowMessage(p) \/ LeaveChatroom(p)
    <3>1. /\ UNCHANGED <<sent, to_server>> /\ ClientOpen(p)
          /\ page'[p] \in OpenPages \/ UNCHANGED page
      BY <2>1 DEF AskUsername, ShowLobby, AwaitConfirmation, EnterChatroom, ShowMessage,
         LeaveChatroom, Reading, Reads, Show, OpenPages, TypeOK, ui_vars
    <3> QED
      BY <1>1, <1>2, <3>1
  <2>2. CASE SayGoodbye(p) \/ UnexpectedResponse(p) \/ ConnectionFails(p)
    BY <1>3, <2>2 DEF SayGoodbye, UnexpectedResponse, ConnectionFails, End, Show, TypeOK
  <2>3. CASE RefreshLobby(p)
    <3>1. [kind |-> "Lobby", arg |-> None] \in Frames
      BY DEF Frame, TextFrames
    <3> QED
      BY <1>4, <2>3, <3>1 DEF RefreshLobby, Prompts, ClientOpen, OpenPages
  <2> QED
    BY <1>6, <2>1, <2>2, <2>3 DEF ProgramNext
<1> QED
  BY <1>5, <1>6

\* A message is typed: it is the last frame.
LEMMA MessageTyped ==
  ASSUME TypeOK, NEW p \in Peers, NEW q \in Peers, Rising(p, q), QueuesSorted(p, q),
         SendMessage(p), HearsNothing(p, q), RoomsStay(p), SendIsNoText(p)
  PROVE  Rising(p, q)' /\ QueuesSorted(p, q)'
<1> DEFINE n == sent[p] + 1
           frame == [kind |-> "Message", arg |-> n]
           V == TextFrames
<1>1. /\ to_server'[p] = Append(to_server[p], frame) /\ sent'[p] = n
      /\ ~ClientClosed(p) /\ UNCHANGED page
      /\ sent[p] \in Nat /\ n \in Nat /\ n <= MaxMessages
  <2>1. /\ to_server' = [to_server EXCEPT ![p] = Append(@, frame)]
        /\ sent' = [sent EXCEPT ![p] = n] /\ UNCHANGED page
        /\ page[p] = "Chatroom" /\ sent[p] < MaxMessages
    BY DEF SendMessage, Prompts, Put
  <2>2. /\ to_server \in [Peers -> Seq(Frame)] /\ sent \in [Peers -> Nat]
        /\ MaxMessages \in Nat
    BY BoundsAssumption DEF TypeOK
  <2>3. n \in Nat /\ n <= MaxMessages
    BY <2>1, <2>2
  <2>4. to_server'[p] = Append(to_server[p], frame) /\ sent'[p] = n /\ sent[p] \in Nat
    BY <2>1, <2>2
  <2> QED
    BY <2>1, <2>3, <2>4 DEF ClientClosed
<1>2. frame \in V /\ frame \in Frame /\ TypedAs(frame) = n
  <2>1. frame \in V
    BY <1>1 DEF TextFrames, Frame
  <2> QED
    BY <2>1, NumberOf DEF TextFrames
<1>3. n \in Stage(p, q, 6)
  BY <1>1, BoundsAssumption DEF Stage, Untyped
<1>4. to_server[p] \in Seq(Frame) /\ Sorted(to_server[p], V)
  BY DEF TypeOK, QueuesSorted
<1>5. \A m \in Numbers(to_server[p], V) : m < n
  BY <1>3 DEF Rising, Stages, Stage, Framed
<1> HIDE DEF V, frame
<1>6. /\ Sorted(to_server'[p], V)
      /\ Numbers(to_server'[p], V) \subseteq Numbers(to_server[p], V) \cup {n}
  BY <1>1, <1>2, <1>4, <1>5, SortedAppend
<1>7. Stage(p, q, 5)' \subseteq Stage(p, q, 5) \cup {n}
  BY <1>6 DEF Stage, Framed, V, TextFrames
<1>8. /\ Stage(p, q, 6)' \subseteq Stage(p, q, 6)
      /\ \A m \in Stage(p, q, 6)' : n < m
  <2>1. Untyped(p) = sent[p] + 1 .. MaxMessages /\ Untyped(p)' = n + 1 .. MaxMessages
    BY <1>1 DEF Untyped, ClientClosed
  <2>2. /\ n + 1 .. MaxMessages \subseteq sent[p] + 1 .. MaxMessages
        /\ \A m \in n + 1 .. MaxMessages : n < m
    BY <1>1, BoundsAssumption
  <2> QED
    BY <2>1, <2>2 DEF Stage
<1>9. \A i \in Stages \ {5} : Stage(p, q, i)' \subseteq Stage(p, q, i)
  BY <1>8, HearingKeeps, SendingKeeps DEF Stages
<1>10. Rising(p, q)'
  <2>1. 5 \in Stages /\ 6 \in Stages /\ 5 < 6
    BY DEF Stages
  <2>2. \A i \in Stages : 5 < i /\ i <= 6 => i = 6
    BY DEF Stages
  <2>3. \A i \in Stages : 5 < i /\ i <= 6 => \A m \in Stage(p, q, i)' : n < m
    BY <1>8, <2>2
  <2> QED
    BY <1>3, <1>7, <1>9, <2>1, <2>3, RisingMoves
<1>11. QueuesSorted(p, q)'
  BY <1>6, HearingKeeps, SendingKeeps DEF QueuesSorted, TextsOf, MessagesOf, TextFrames, V
<1> QED
  BY <1>10, <1>11

-----------------------------------------------------------------------------
(* The write task                                                          *)

\* The write tasks keep the senders waiting, and the other readers.
LEMMA WriterRests ==
  ASSUME TypeOK, NEW o \in Peers, WriteNext(o), NEW p \in Peers, NEW q \in Peers
  PROVE  /\ SenderRests(p)
         /\ q # o /\ OneReceiver(q) => HearsNothing(p, q) /\ OneReceiver(q)'
<1>1. UNCHANGED <<ui_vars, to_server, read_vars, chat_events>>
  BY DEF WriteNext, Shutdown, MainResponse, Subscription, BroadcastNext, ChatMessage, Lagged,
     WriteFails, WriteTaskOnly
<1>2. SenderRests(p)
  BY <1>1, SameRests DEF SenderRests, ui_vars, read_vars
<1>3. ASSUME q # o, OneReceiver(q)
      PROVE  HearsNothing(p, q) /\ OneReceiver(q)'
  BY <1>3, WriterTouches, SameRests
<1> QED
  BY <1>2, <1>3

\* A response that is no message.
LEMMA PlainHears ==
  ASSUME TypeOK, NEW p \in Peers, NEW q \in Peers, HandInv(q), OneReceiver(q),
         Shutdown(q) \/ WriteFails(q) \/ MainResponse(q) \/ Lagged(q)
  PROVE  HearsNothing(p, q) /\ OneReceiver(q)'
<1> DEFINE Quietly ==
             \/ Shrinks(to_client[q], to_client'[q])
             \/ Gains(to_client[q], to_client'[q], Response \ MessagesOf(p))
<1>1. ASSUME NEW m \in Response, m.kind # "Message", to_client'[q] = Append(to_client[q], m)
      PROVE  Quietly
  BY <1>1 DEF Gains, MessagesOf, MessageResponse
<1>2. to_client'[q] = to_client[q] => Quietly
  BY DEF Shrinks
<1>3. ASSUME Quietly,
             \/ chat_receiver'[q] = DummyReceiver
             \/ /\ chat_receiver'[q].room = chat_receiver[q].room
                /\ chat_receiver'[q].queue = chat_receiver[q].queue,
             subscriptions'[q] \in {subscriptions[q], <<>>}
      PROVE  HearsNothing(p, q) /\ OneReceiver(q)'
  <2>1. /\ DOMAIN <<>> = {}
        /\ DummyReceiver.room = NoRoom /\ DummyReceiver.queue = <<>>
    BY DEF DummyReceiver, Receiver
  <2>2. Shrinks(chat_receiver[q].queue, chat_receiver'[q].queue)
    BY <1>3, <2>1 DEF Shrinks
  <2>3. HearsNothing(p, q)
    BY <1>3, <2>1, <2>2 DEF HearsNothing
  <2> QED
    BY <1>3, <2>1, <2>3 DEF OneReceiver, Deaf
<1> HIDE DEF Quietly
<1>4. CASE Shutdown(q) \/ WriteFails(q)
  <2>1. \/ to_client'[q] = to_client[q]
        \/ to_client'[q] = Append(to_client[q], Plain("ExitLobby"))
    BY <1>4 DEF Shutdown, WriteFails, Write, Put, TypeOK
  <2>2. Plain("ExitLobby") \in Response /\ Plain("ExitLobby").kind # "Message"
    BY PlainType DEF Plain, PlainKinds
  <2>3. chat_receiver'[q] = DummyReceiver /\ subscriptions'[q] \in {subscriptions[q], <<>>}
    BY <1>4 DEF Shutdown, WriteFails, EndWrite, Empty, TypeOK
  <2> QED
    BY <1>1, <1>2, <1>3, <2>1, <2>2, <2>3
<1>5. CASE MainResponse(q)
  <2> DEFINE m == Head(main_responses[q])
  <2>1. /\ main_responses[q] # <<>> /\ to_client'[q] = Append(to_client[q], m)
        /\ chat_receiver'[q] \in {chat_receiver[q], DummyReceiver} /\ UNCHANGED subscriptions
    BY <1>5 DEF MainResponse, Write, Put, TypeOK
  <2>2. m \in Response /\ 1 \in DOMAIN main_responses[q] /\ main_responses[q][1] = m
    BY <2>1, ReceiveType DEF TypeOK
  <2>3. m.kind # "Message"
    BY <2>2 DEF HandInv, Shape, AnswerKinds, PlainKinds, LobbyKinds
  <2> QED
    BY <1>1, <1>3, <2>1, <2>2, <2>3
<1>6. CASE Lagged(q)
  <2>1. /\ chat_receiver'[q] = [chat_receiver[q] EXCEPT !.lagged = FALSE]
        /\ UNCHANGED <<to_client, subscriptions>> /\ chat_receiver[q] \in BroadcastReceiver
    BY <1>6 DEF Lagged, TypeOK
  <2>2. /\ chat_receiver'[q].room = chat_receiver[q].room
        /\ chat_receiver'[q].queue = chat_receiver[q].queue
    BY <2>1 DEF BroadcastReceiver
  <2> QED
    BY <1>2, <1>3, <2>1, <2>2
<1> QED
  BY <1>4, <1>5, <1>6

\* The receiver that waited is put in the place of the dummy.
LEMMA SubscriptionHears ==
  ASSUME TypeOK, NEW p \in Peers, NEW q \in Peers, HandInv(q), OneReceiver(q),
         AtHome(p), Rising(p, q), QueuesSorted(p, q), Subscription(q)
  PROVE  AtHome(p)' /\ OneReceiver(q)' /\ Rising(p, q)' /\ QueuesSorted(p, q)'
<1> DEFINE o == Head(subscriptions[q])
           V == MessagesOf(p)
<1>1. /\ subscriptions[q] # <<>> /\ to_client'[q] = Append(to_client[q], o.response)
      /\ subscriptions'[q] = Tail(subscriptions[q]) /\ chat_receiver'[q] = o.receiver
  BY DEF Subscription, Write, Put, TypeOK
<1>2. /\ o \in SubscriptionOf /\ subscriptions'[q] = <<>>
      /\ DOMAIN subscriptions[q] = {1} /\ subscriptions[q][1] = o
  <2>1. subscriptions[q] \in Seq(SubscriptionOf) /\ Len(subscriptions[q]) <= 1
    BY DEF TypeOK, HandInv, Once, OpeningOnce
  <2>2. Head(subscriptions[q]) \in SubscriptionOf
    BY <1>1, <2>1
  <2> QED
    BY <1>1, <2>1, <2>2, LastOne
<1>3. o.response \in Response \ V
  <2>1. o.response \in Response /\ o.response.kind \in JoinedKinds
    BY <1>2 DEF SubscriptionOf, HandInv, Shape
  <2> QED
    BY <2>1 DEF MessagesOf, MessageResponse, JoinedKinds
<1>4. SenderRests(p)
  BY WriterRests DEF WriteNext
<1>5. AtHome(p)' /\ \A k \in {3, 4, 5, 6} : Stage(p, q, k)' \subseteq Stage(p, q, k)
  BY <1>4, HomeStays, SendingKeeps DEF SenderRests, Faces, Suspended, QuitsOf
<1>6. /\ V' = V /\ DOMAIN <<>> = {}
      /\ Sorted(to_client[q], V) /\ to_client[q] \in Seq(Response)
      /\ Sorted(o.receiver.queue, V)
      /\ Numbers(o.receiver.queue, V) \subseteq Buffered(p, q)
  BY <1>2 DEF MessagesOf, QueuesSorted, TypeOK, Buffered
<1> HIDE DEF V, o
<1>7. /\ Sorted(to_client'[q], V)
      /\ Numbers(to_client'[q], V) \subseteq Numbers(to_client[q], V)
  BY <1>1, <1>3, <1>6, SortedAppend
<1>8. Written(p, q)' \subseteq Written(p, q)
  BY <1>6, <1>7 DEF Written, V
<1>9. Buffered(p, q)' \subseteq Buffered(p, q)
  BY <1>1, <1>2, <1>6 DEF Buffered, V
<1>10. Rising(p, q)'
  <2>1. \A k \in Stages : Stage(p, q, k)' \subseteq Stage(p, q, k)
    BY <1>5, <1>8, <1>9 DEF Stages, Stage
  <2> QED
    BY <2>1, RisingStays
<1>11. QueuesSorted(p, q)'
  <2>1. /\ Sorted(to_client'[q], V') /\ Sorted(chat_receiver'[q].queue, V')
        /\ \A i \in DOMAIN subscriptions'[q] :
             Sorted(subscriptions'[q][i].receiver.queue, V')
    BY <1>1, <1>2, <1>6, <1>7
  <2> QED
    BY <1>4, <2>1, SendingKeeps DEF QueuesSorted, SenderRests, TextsOf, TextFrames, V
<1>12. OneReceiver(q)'
  BY <1>1, <1>2, <1>6 DEF OneReceiver
<1> QED
  BY <1>5, <1>10, <1>11, <1>12

\* A broadcast message is written, unless it is the reader's own.
LEMMA MessageHears ==
  ASSUME TypeOK, NEW p \in Peers, NEW q \in Peers, OneReceiver(q),
         AtHome(p), Rising(p, q), QueuesSorted(p, q), ChatMessage(q)
  PROVE  AtHome(p)' /\ OneReceiver(q)' /\ Rising(p, q)' /\ QueuesSorted(p, q)'
<1> DEFINE heard == chat_receiver[q].queue
           m == Head(heard)
           V == MessagesOf(p)
<1>1. /\ heard # <<>> /\ heard \in Seq(MessageResponse) /\ m \in MessageResponse
      /\ chat_receiver'[q].queue = Tail(heard) /\ chat_receiver'[q].room = chat_receiver[q].room
      /\ to_client'[q] = to_client[q] \/ to_client'[q] = Append(to_client[q], m)
      /\ UNCHANGED subscriptions
  <2>1. /\ heard # <<>> /\ chat_receiver' = [chat_receiver EXCEPT ![q].queue = Tail(@)]
        /\ to_client' \in {to_client, Put(to_client, q, m)} /\ UNCHANGED subscriptions
    BY DEF ChatMessage, Write
  <2>2. chat_receiver[q] \in BroadcastReceiver
    BY DEF TypeOK
  <2>3. heard \in Seq(MessageResponse) /\ m \in MessageResponse
    <3>1. heard \in Seq(MessageResponse)
      BY <2>2 DEF BroadcastReceiver
    <3> QED
      BY <2>1, <3>1
  <2>4. /\ chat_receiver'[q].queue = Tail(heard)
        /\ chat_receiver'[q].room = chat_receiver[q].room
    BY <2>1, <2>2 DEF TypeOK, BroadcastReceiver
  <2> QED
    BY <2>1, <2>3, <2>4 DEF Put, TypeOK
<1>2. subscriptions[q] = <<>> /\ OneReceiver(q)'
  BY <1>1 DEF OneReceiver, Deaf
<1>3. SenderRests(p)
  BY WriterRests DEF WriteNext, BroadcastNext
<1>4. CASE to_client'[q] = to_client[q] \/ m \notin V
  <2>1. \/ Shrinks(to_client[q], to_client'[q])
        \/ Gains(to_client[q], to_client'[q], Response \ V)
    BY <1>1, <1>4, MessageIsResponse DEF Shrinks, Gains
  <2>2. HearsNothing(p, q)
    BY <1>1, <2>1 DEF HearsNothing, Shrinks
  <2> QED
    BY <1>2, <1>3, <2>2, RestKeeps
<1>5. CASE to_client'[q] = Append(to_client[q], m) /\ m \in V
  <2> DEFINE n == TypedAs(m)
  <2>1. AtHome(p)' /\ \A k \in {3, 4, 5, 6} : Stage(p, q, k)' \subseteq Stage(p, q, k)
    BY <1>3, HomeStays, SendingKeeps DEF SenderRests, Faces, Suspended, QuitsOf
  <2>2. V' = V /\ Sorted(heard, V) /\ Sorted(to_client[q], V) /\ to_client[q] \in Seq(Response)
    BY DEF MessagesOf, QueuesSorted, TypeOK
  <2>3. Buffered(p, q) = Numbers(heard, V) /\ Buffered(p, q)' = Numbers(Tail(heard), V)
    <3>1. DOMAIN <<>> = {}
      OBVIOUS
    <3> QED
      BY <1>1, <1>2, <2>2, <3>1 DEF Buffered
  <2>4. m \in Response
    BY <1>1, MessageIsResponse
  <2> HIDE DEF V, heard
  <2>5. /\ Sorted(Tail(heard), V) /\ Numbers(Tail(heard), V) \subseteq Numbers(heard, V)
        /\ n \in Numbers(heard, V) /\ \A k \in Numbers(Tail(heard), V) : n < k
    BY <1>1, <1>5, <2>2, SortedTail
  <2>6. \A k \in Numbers(to_client[q], V) : k < n
    BY <2>3, <2>5 DEF Rising, Stages, Stage, Written, V
  <2> HIDE DEF m
  <2>7. /\ Sorted(to_client'[q], V)
        /\ Numbers(to_client'[q], V) \subseteq Numbers(to_client[q], V) \cup {n}
    BY <1>5, <2>2, <2>4, <2>6, SortedAppend
  <2>8. Stage(p, q, 1)' \subseteq Stage(p, q, 1) \cup {n}
    BY <2>2, <2>7 DEF Stage, Written, V
  <2>9. /\ n \in Stage(p, q, 2) /\ Stage(p, q, 2)' \subseteq Stage(p, q, 2)
        /\ \A k \in Stage(p, q, 2)' : n < k
    BY <2>3, <2>5 DEF Stage
  <2>10. Rising(p, q)'
    <3>1. 1 \in Stages /\ 2 \in Stages /\ 1 < 2 /\ \A i \in Stages : 1 < i /\ i <= 2 => i = 2
      BY DEF Stages
    <3>2. \A i \in Stages \ {1} : Stage(p, q, i)' \subseteq Stage(p, q, i)
      BY <2>1, <2>9 DEF Stages
    <3>3. \A i \in Stages : 1 < i /\ i <= 2 => \A k \in Stage(p, q, i)' : n < k
      BY <2>9, <3>1
    <3> QED
      BY <2>8, <2>9, <3>1, <3>2, <3>3, RisingMoves
  <2>11. QueuesSorted(p, q)'
    <3>1. /\ Sorted(to_client'[q], V') /\ Sorted(chat_receiver'[q].queue, V')
          /\ \A i \in DOMAIN subscriptions'[q] :
               Sorted(subscriptions'[q][i].receiver.queue, V')
      BY <1>1, <1>2, <2>2, <2>5, <2>7
    <3> QED
      BY <1>3, <3>1, SendingKeeps DEF QueuesSorted, SenderRests, TextsOf, TextFrames, V
  <2> QED
    BY <1>2, <2>1, <2>10, <2>11
<1> QED
  BY <1>1, <1>4, <1>5

-----------------------------------------------------------------------------
(* The read task                                                           *)

\* What reading leaves to the others: the reader's half of every way, and typing.
LEMMA ReaderRests ==
  ASSUME TypeOK, NEW o \in Peers, HandInv(o), ReadNext(o), NEW p \in Peers, NEW q \in Peers,
         OneReceiver(q)
  PROVE  /\ HearsNothing(p, q) /\ OneReceiver(q)' /\ FramesStay(p) /\ TypingStays(p)
         /\ p # o => SenderRests(p)
<1>1. HearsNothing(p, q) /\ OneReceiver(q)'
  BY ReaderTouches, SameRests DEF besides_reader, write_vars
<1>2. UNCHANGED sent
  BY DEF ReadNext, AcceptConnection, ResumeSend, FrameNext, ReadFrame, ReadFails,
     ChannelNext, NewChatroomChannel, ChatroomChannelClosed, ui_vars
<1>3. TypingStays(p)
  <2>1. \/ page' = page
        \/ page' = [page EXCEPT ![o] = "WelcomePage"] /\ page[o] = "Unstarted"
    <3>1. CASE AcceptConnection(o)
      BY <3>1 DEF AcceptConnection
    <3>2. CASE ~AcceptConnection(o)
      BY <3>2 DEF ReadNext, ResumeSend, FrameNext, ReadFrame, ReadFails,
         ChannelNext, NewChatroomChannel, ChatroomChannelClosed, ui_vars
    <3> QED
      BY <3>1, <3>2
  <2>2. page'[p] = page[p] \/ (page'[p] = "WelcomePage" /\ page[p] = "Unstarted")
    BY <2>1 DEF TypeOK
  <2>3. ClientClosed(p)' <=> ClientClosed(p)
    BY <2>2 DEF ClientClosed
  <2> QED
    BY <1>2, <2>3 DEF TypingStays
<1>4. FramesStay(p)
  <2>1. \/ to_server' = to_server
        \/ to_server[o] # <<>> /\ to_server' = [to_server EXCEPT ![o] = Tail(@)]
    BY DEF ReadNext, AcceptConnection, ResumeSend, FrameNext, ReadFrame, ReadFails,
       ChannelNext, NewChatroomChannel, ChatroomChannelClosed, sockets
  <2> QED
    <3>1. \/ to_server'[p] = to_server[p]
          \/ to_server[p] # <<>> /\ to_server'[p] = Tail(to_server[p])
      BY <2>1 DEF TypeOK
    <3> QED
      BY <3>1 DEF FramesStay, Shrinks
<1>5. ASSUME p # o
      PROVE  SenderRests(p)
  <2>1. RoomsStay(p)
    <3>1. SendShape(o)
      BY DEF HandInv, Shape
    <3>2. CASE UNCHANGED chat_events
      BY <3>2, SameRests
    <3>3. ASSUME NEW to \in RoomOrNone, NEW e \in EventsOf(o), Enqueue(to, e)
          PROVE  RoomsStay(p)
      <4>1. e \in Event \ TextsOf(p)
        BY <1>5 DEF EventsOf, TextsOf
      <4>2. ASSUME NEW r \in Rooms
            PROVE  chat_events'[r] \in {chat_events[r], Append(chat_events[r], e)}
        BY <3>3 DEF Enqueue, Put, TypeOK
      <4> QED
        BY <4>1, <4>2 DEF RoomsStay, Shrinks, Gains
    <3> QED
      BY <3>1, <3>2, <3>3, ReaderSends
  <2>2. UNCHANGED <<read_pc[p], chatroom_sender[p], outgoing[p]>>
    BY <1>5, ReaderTouches
  <2> QED
    BY <1>3, <1>4, <2>1, <2>2 DEF SenderRests, SendIsNoText
<1> QED
  BY <1>1, <1>3, <1>4, <1>5

\* A task without an address and not suspended faces no chatroom.
LEMMA FacesNone ==
  ASSUME NEW p \in Peers, read_pc[p] # "done", ~Suspended(p), NEW r \in Rooms
  PROVE  Faces(p, r) <=> chatroom_sender[p] = r
  BY DEF Faces

\* While a task has an address its messages wait in that chatroom only.
LEMMA HomeIsHere ==
  ASSUME NEW p \in Peers, HandInv(p), AtHome(p), read_pc[p] = "running", AddressHeld(p),
         NEW r \in Rooms, Holds(chat_events[r], TextsOf(p))
  PROVE  r = chatroom_sender[p]
<1>1. Faces(p, r) \/ QuitFollows(chat_events[r], p)
  BY DEF AtHome
<1>2. ~Turn(p, "quit", "leaving") /\ ~Turn(p, "send", "leaving")
  <2>1. \A x \in Places : Turn(p, x, "leaving") => Fits(p, "leaving")
    BY DEF HandInv, TurnFits, Sorts
  <2> QED
    BY <2>1 DEF Fits, Places
<1>3. ~QuitFollows(chat_events[r], p)
  BY <1>2 DEF Turn, QuitTurn, QuitWaits, Holds, QuitFollows
<1>4. ~(Suspended(p) /\ Head(outgoing[p]).to = r /\ Head(outgoing[p]).event \in QuitsOf(p))
  BY <1>2 DEF Turn, SendTurn, SendSort, QuitsOf, Rooms, NoRoom
<1> QED
  BY <1>1, <1>3, <1>4 DEF Faces

\* A message goes to the chatroom, from the frames (5) or a suspended send (4).
LEMMA MessageQueued ==
  ASSUME TypeOK, NEW p \in Peers, NEW q \in Peers, HandInv(p), AtHome(p), Rising(p, q),
         QueuesSorted(p, q), HearsNothing(p, q), FramesStay(p), TypingStays(p),
         AddressHeld(p), read_pc[p] = "running",
         read_pc'[p] = "done" \/ chatroom_sender'[p] = chatroom_sender[p],
         NEW e \in TextsOf(p), chat_events' = Put(chat_events, chatroom_sender[p], e),
         outgoing'[p] = <<>>,
         NEW k \in {4, 5}, TypedAs(e) \in Stage(p, q, k),
         k = 5 => \A m \in Stage(p, q, 5)' : TypedAs(e) < m
  PROVE  AtHome(p)' /\ Rising(p, q)' /\ QueuesSorted(p, q)'
<1> DEFINE h == chatroom_sender[p]
           n == TypedAs(e)
           V == TextsOf(p)
<1>1. h \in Rooms
  BY DEF AddressHeld, TypeOK, RoomOrNone
<1>2. /\ chat_events[h] \in Seq(Event) /\ e \in Event /\ e \in V /\ V' = V
      /\ chat_events'[h] = Append(chat_events[h], e)
      /\ \A r \in Rooms : r # h => chat_events'[r] = chat_events[r]
  BY <1>1 DEF Put, TypeOK, TextsOf
<1>3. \A r \in Rooms : Holds(chat_events[r], V) => r = h
  BY HomeIsHere
<1>4. \A r \in Rooms : Sorted(chat_events[r], V)
  BY DEF QueuesSorted
<1>5. \A m \in Numbers(chat_events[h], V) : m < n
  <2>1. 3 \in Stages /\ k \in Stages /\ 3 < k
    BY DEF Stages
  <2>2. \A m \in Stage(p, q, 3) : m < n
    BY <2>1 DEF Rising
  <2> QED
    BY <1>1, <2>2 DEF Stage, Queued
<1> HIDE DEF V, n, h
<1>6. /\ Sorted(chat_events'[h], V)
      /\ Numbers(chat_events'[h], V) \subseteq Numbers(chat_events[h], V) \cup {n}
  <2>1. Sorted(chat_events[h], V)
    BY <1>1, <1>4
  <2> HIDE DEF h
  <2> DEFINE queue == chat_events[h]
  <2>2. /\ queue \in Seq(Event) /\ e \in Event /\ Sorted(queue, V) /\ e \in V
        /\ \A m \in Numbers(queue, V) : m < TypedAs(e)
    BY <1>2, <1>5, <2>1 DEF n
  <2> HIDE DEF queue
  <2>3. /\ Sorted(Append(queue, e), V)
        /\ Numbers(Append(queue, e), V) \subseteq Numbers(queue, V) \cup {TypedAs(e)}
    BY <2>2, SortedAppend
  <2> QED
    BY <1>2, <2>3 DEF n, queue
<1>7. \A r \in Rooms : Sorted(chat_events'[r], V)
  BY <1>2, <1>4, <1>6
<1>8. Stage(p, q, 3)' \subseteq Stage(p, q, 3) \cup {n}
  <2>1. \A r \in Rooms :
          Numbers(chat_events'[r], V) \subseteq Numbers(chat_events[r], V) \cup {n}
    BY <1>2, <1>6
  <2>2. Queued(p)' \subseteq Queued(p) \cup {n}
    BY <1>2, <2>1 DEF Queued, V
  <2> QED
    BY <2>2 DEF Stage
<1>9. /\ Stage(p, q, 4)' = {} /\ SendIsNoText(p)
  BY DEF Stage, Sending, Suspended, SendIsNoText
<1>10. \A i \in Stages \ {3} : Stage(p, q, i)' \subseteq Stage(p, q, i)
  BY <1>9, HearingKeeps, SendingKeeps DEF Stages
<1>11. Rising(p, q)'
  <2>1. 3 \in Stages /\ k \in Stages /\ 3 < k
    BY DEF Stages
  <2>2. \A i \in Stages : 3 < i /\ i <= k => i = 4 \/ (i = 5 /\ k = 5)
    BY DEF Stages
  <2>3. \A i \in Stages : 3 < i /\ i <= k => \A m \in Stage(p, q, i)' : n < m
    BY <1>9, <2>2 DEF n
  <2>4. n \in Stage(p, q, k)
    BY DEF n
  <2> QED
    BY <1>8, <1>10, <2>1, <2>3, <2>4, RisingMoves
<1>12. QueuesSorted(p, q)'
  BY <1>2, <1>7, HearingKeeps, SendingKeeps DEF QueuesSorted, TextFrames, MessagesOf, V
<1>13. AtHome(p)'
  <2>1. ASSUME NEW r \in Rooms, Holds(chat_events'[r], V)
        PROVE  r = h
    BY <1>2, <1>3, <2>1
  <2>2. \A r \in Rooms : r = h => Faces(p, r)'
    BY DEF Faces, h
  <2>3. \A r \in Rooms : Holds(chat_events'[r], V') =>
          /\ \A s \in Rooms : Holds(chat_events'[s], V') => s = r
          /\ Faces(p, r)'
    BY <1>2, <2>1, <2>2
  <2> QED
    BY <2>3 DEF AtHome, V
<1> QED
  BY <1>11, <1>12, <1>13

\* A suspended task is running, and its send is of its client.
LEMMA SuspendedSends ==
  ASSUME TypeOK, NEW p \in Peers, HandInv(p), Suspended(p)
  PROVE  LET o == Head(outgoing[p])
         IN /\ o.to \in RoomOrNone /\ o.event \in EventsOf(p) /\ read_pc[p] = "running"
            /\ o.to = NoRoom => o.event.kind # "Message"
            /\ o.to # NoRoom => o.event.kind \in {"Quit", "Message"}
            /\ o.to # NoRoom /\ o.event.kind = "Message" => o.to = chatroom_sender[p]
<1>1. Head(outgoing[p]) \in SuspendedSend
  BY ReceiveType DEF Suspended, TypeOK
<1> QED
  BY <1>1 DEF SuspendedSend, EventsOf, HandInv, Shape, SendShape

\* What a step of the client's own read task sends when it sends no message: an
\* event to the main broker, or a Quit to the chatroom it leaves.
SendsNoText(p) ==
  /\ \/ UNCHANGED chat_events
     \/ \E r \in Rooms : \E e \in QuitsOf(p) : chat_events' = Put(chat_events, r, e)
  /\ SendIsNoText(p)
  /\ \A r \in Rooms :
       Faces(p, r) => \/ Faces(p, r)'
                      \/ \E e \in QuitsOf(p) : chat_events' = Put(chat_events, r, e)

\* Then the messages stay in order.
LEMMA NoTextKeeps ==
  ASSUME TypeOK, NEW p \in Peers, NEW q \in Peers, AtHome(p), Rising(p, q),
         QueuesSorted(p, q), HearsNothing(p, q), FramesStay(p), TypingStays(p),
         SendsNoText(p)
  PROVE  AtHome(p)' /\ Rising(p, q)' /\ QueuesSorted(p, q)'
<1>1. RoomsStay(p)
  <2>1. CASE UNCHANGED chat_events
    BY <2>1, SameRests
  <2>2. ASSUME NEW r \in Rooms, NEW e \in QuitsOf(p), chat_events' = Put(chat_events, r, e)
        PROVE  RoomsStay(p)
    <3>1. e \in Event \ TextsOf(p)
      BY DEF QuitsOf, TextsOf
    <3>2. \A s \in Rooms : chat_events'[s] \in {chat_events[s], Append(chat_events[s], e)}
      BY <2>2 DEF Put, TypeOK
    <3> QED
      BY <3>1, <3>2 DEF RoomsStay, Shrinks, Gains
  <2> QED
    BY <2>1, <2>2 DEF SendsNoText
<1>2. Rising(p, q)' /\ QueuesSorted(p, q)'
  BY <1>1, WayKeeps DEF WayStays, SendsNoText
<1>3. ASSUME NEW r \in Rooms, NEW e \in QuitsOf(p), chat_events' = Put(chat_events, r, e)
      PROVE  QuitFollows(chat_events'[r], p)
  <2>1. chat_events'[r] = Append(chat_events[r], e) /\ chat_events[r] \in Seq(Event)
    BY <1>3 DEF Put, TypeOK
  <2> QED
    BY <2>1, QuitComesLast
<1>4. AtHome(p)'
  BY <1>1, <1>3, HomeStays DEF SendsNoText
<1> QED
  BY <1>2, <1>4

\* A read task that ends sends nothing.
LEMMA EndSendsNothing ==
  ASSUME TypeOK, NEW p \in Peers, EndRead(p), UNCHANGED chat_events
  PROVE  SendsNoText(p)
<1>1. read_pc'[p] = "done" /\ outgoing'[p] = <<>>
  BY DEF EndRead, Empty, TypeOK
<1> QED
  BY <1>1 DEF SendsNoText, SendIsNoText, Faces

\* An event goes to the main broker, or is held by the suspended task.
LEMMA PlainSends ==
  ASSUME TypeOK, NEW p \in Peers, read_pc[p] # "done", UNCHANGED chat_events,
         \/ outgoing'[p] = <<>>
         \/ \E to : \E e : e.kind # "Message" /\ outgoing'[p] = Pending(to, e),
         \A r \in Rooms : Faces(p, r) => Faces(p, r)'
  PROVE  SendsNoText(p)
<1>1. SendIsNoText(p)
  <2>1. ASSUME NEW to, NEW e, e.kind # "Message", outgoing'[p] = Pending(to, e)
        PROVE  SendIsNoText(p)
    <3>1. Head(Pending(to, e)) = [to |-> to, event |-> e]
      BY DEF Pending
    <3> QED
      BY <2>1, <3>1 DEF SendIsNoText, TextsOf
  <2> QED
    BY <2>1 DEF SendIsNoText
<1> QED
  BY <1>1 DEF SendsNoText

\* The connection is accepted, or the address of a chatroom is noted: till then
\* the task faces none.
LEMMA SignalSends ==
  ASSUME TypeOK, NEW p \in Peers, HandInv(p), AcceptConnection(p) \/ NewChatroomChannel(p)
  PROVE  SendsNoText(p)
<1>1. CASE EndRead(p) /\ UNCHANGED chat_events
  BY <1>1, EndSendsNothing
<1>2. CASE ~(EndRead(p) /\ UNCHANGED chat_events)
  <2>1. /\ UNCHANGED chat_events
        /\ \/ outgoing'[p] = outgoing[p] \/ outgoing'[p] = <<>>
           \/ \E k \in {"NewClient", "ReadSync"} : outgoing'[p] = Pending(NoRoom, Signal(k, p))
    <3>1. CASE AcceptConnection(p)
      BY <1>2, <3>1 DEF AcceptConnection, Send, Enqueue, Empty, EndRead, TypeOK
    <3>2. CASE NewChatroomChannel(p)
      BY <1>2, <3>2 DEF NewChatroomChannel, Enqueue, TypeOK
    <3> QED
      BY <3>1, <3>2
  <2>2. ~AddressHeld(p) /\ ~Suspended(p) /\ read_pc[p] # "done"
    <3>1. CASE AcceptConnection(p)
      <4>1. Turn(p, "start", "new") /\ read_pc[p] = "idle"
        BY <3>1 DEF AcceptConnection, Turn, StartTurn, HandInv, Shape
      <4>2. Fits(p, "new")
        BY <4>1 DEF HandInv, TurnFits, Places, Sorts
      <4> QED
        BY <4>1, <4>2 DEF Fits, HandInv, Shape, SendShape
    <3>2. CASE NewChatroomChannel(p)
      <4>1. Turn(p, "address", "address") /\ read_pc[p] = "running" /\ ~Suspended(p)
        BY <3>2 DEF NewChatroomChannel, Selecting, Turn, AddressTurn, AddressWaits
      <4>2. Fits(p, "address")
        BY <4>1 DEF HandInv, TurnFits, Places, Sorts
      <4> QED
        BY <4>1, <4>2 DEF Fits
    <3> QED
      BY <3>1, <3>2
  <2>3. \A r \in Rooms : ~Faces(p, r)
    BY <2>2, FacesNone DEF AddressHeld, Rooms, NoRoom
  <2>4. \A k \in {"NewClient", "ReadSync"} : Signal(k, p).kind # "Message"
    BY DEF Signal
  <2> QED
    BY <2>1, <2>2, <2>3, <2>4, PlainSends DEF Suspended
<1> QED
  BY <1>1, <1>2

\* A request goes on; a Quit gives up the chatroom's address.
LEMMA RequestSends ==
  ASSUME TypeOK, NEW p \in Peers, HandInv(p), ReadFrame(p),
         ~(EndRead(p) /\ UNCHANGED <<events, chat_events>>),
         Head(to_server[p]).kind # "Message"
  PROVE  SendsNoText(p)
<1> DEFINE frame == Head(to_server[p])
           e == EventOf(p, frame)
           h == chatroom_sender[p]
<1>1. /\ read_pc[p] = "running" /\ frame.kind \in LegalFrames(h)
      /\ e \in EventsOf(p) /\ e.kind = frame.kind /\ frame.kind # "Message"
      /\ \/ outgoing'[p] = <<>> /\ Enqueue(h, e)
         \/ /\ outgoing'[p] = Pending(h, e)
            /\ UNCHANGED <<events, chat_events>>
  BY FrameTaken
<1>2. h \in RoomOrNone /\ ~Suspended(p)
  BY DEF ReadFrame, Selecting, TypeOK
<1> HIDE DEF frame, e
<1>3. CASE h = NoRoom
  <2>1. UNCHANGED chat_events /\ \A r \in Rooms : ~Faces(p, r)
    BY <1>1, <1>2, <1>3, FacesNone DEF Enqueue, Rooms, NoRoom
  <2> QED
    BY <1>1, <2>1, PlainSends
<1>4. CASE h # NoRoom
  <2>1. e \in QuitsOf(p) /\ h \in Rooms
    BY <1>1, <1>2, <1>4 DEF LegalFrames, QuitsOf, EventsOf, RoomOrNone
  <2>2. \A r \in Rooms : Faces(p, r) => r = h
    BY <1>1, <1>2, FacesNone
  <2>3. CASE outgoing'[p] = <<>> /\ Enqueue(h, e)
    <3>1. chat_events' = Put(chat_events, h, e)
      BY <1>4, <2>3 DEF Enqueue
    <3> QED
      BY <2>1, <2>2, <2>3, <3>1 DEF SendsNoText, SendIsNoText
  <2>4. CASE outgoing'[p] = Pending(h, e) /\ UNCHANGED chat_events
    <3>1. Suspended(p)' /\ Head(outgoing'[p]) = [to |-> h, event |-> e]
      BY <2>4 DEF Suspended, Pending
    <3>2. \A r \in Rooms : Faces(p, r) => Faces(p, r)'
      BY <2>1, <2>2, <3>1 DEF Faces, QuitsOf
    <3> QED
      BY <1>1, <2>4, <3>2, PlainSends
  <2> QED
    BY <1>1, <2>3, <2>4
<1> QED
  BY <1>3, <1>4

\* A message goes on to the chatroom, or into a suspended send.
LEMMA MessageFrame ==
  ASSUME TypeOK, NEW p \in Peers, NEW q \in Peers, HandInv(p), AtHome(p), Rising(p, q),
         QueuesSorted(p, q), HearsNothing(p, q), FramesStay(p), TypingStays(p), ReadFrame(p),
         ~(EndRead(p) /\ UNCHANGED <<events, chat_events>>),
         Head(to_server[p]).kind = "Message"
  PROVE  AtHome(p)' /\ Rising(p, q)' /\ QueuesSorted(p, q)'
<1> DEFINE frame == Head(to_server[p])
           e == EventOf(p, frame)
           h == chatroom_sender[p]
           n == TypedAs(frame)
           V == TextFrames
<1>1. /\ read_pc[p] = "running" /\ frame \in Frame /\ frame.kind = "Message"
      /\ to_server[p] # <<>> /\ to_server'[p] = Tail(to_server[p])
      /\ e \in EventsOf(p) /\ e.kind = frame.kind
      /\ read_pc'[p] = "running" \/ read_pc'[p] = "done"
      /\ \/ outgoing'[p] = <<>> /\ Enqueue(h, e)
         \/ /\ outgoing'[p] = Pending(h, e)
            /\ UNCHANGED <<events, chat_events>>
  BY FrameTaken
<1>2. AddressHeld(p) /\ (read_pc'[p] = "running" => chatroom_sender'[p] = h)
  BY MessageTaken
<1>3. /\ h \in Rooms /\ h # NoRoom
  BY <1>2 DEF AddressHeld, TypeOK, RoomOrNone
<1>4. frame \in V /\ e \in TextsOf(p) /\ TypedAs(e) = n
  <2>1. frame \in V /\ e \in TextsOf(p) /\ e.arg = frame.arg
    BY <1>1 DEF TextFrames, TextsOf, EventsOf, EventOf
  <2> QED
    BY <2>1, NumberOf
<1>5. to_server[p] \in Seq(Frame) /\ Sorted(to_server[p], V) /\ V' = V
  BY DEF TypeOK, QueuesSorted, TextFrames
<1> HIDE DEF frame, e, h, V
<1>6. /\ n \in Numbers(to_server[p], V)
      /\ \A m \in Numbers(to_server'[p], V) : n < m
  BY <1>1, <1>4, <1>5, SortedTail DEF frame
<1>7. /\ n \in Stage(p, q, 5) /\ \A m \in Stage(p, q, 5)' : n < m
  BY <1>5, <1>6 DEF Stage, Framed, V
<1> HIDE DEF n
<1>8. CASE outgoing'[p] = <<>> /\ Enqueue(h, e)
  <2>1. chat_events' = Put(chat_events, h, e)
    BY <1>3, <1>8 DEF Enqueue
  <2> QED
    BY <1>1, <1>2, <1>4, <1>7, <1>8, <2>1, MessageQueued DEF h
<1>9. CASE outgoing'[p] = Pending(h, e) /\ UNCHANGED chat_events
  <2>1. Suspended(p)' /\ Head(outgoing'[p]) = [to |-> h, event |-> e]
    BY <1>9 DEF Suspended, Pending
  <2>2. Stage(p, q, 4)' = {n}
    <3>1. TypedAs(Head(outgoing'[p]).event) = n /\ Head(outgoing'[p]).event \in TextsOf(p)'
      BY <1>4, <2>1 DEF TextsOf
    <3> QED
      BY <2>1, <3>1 DEF Stage, Sending
  <2>3. RoomsStay(p)
    BY <1>9, SameRests
  <2>4. Rising(p, q)'
    <3>1. 4 \in Stages /\ 5 \in Stages /\ 4 < 5
      BY DEF Stages
    <3>2. \A i \in Stages : 4 < i /\ i <= 5 => i = 5
      BY DEF Stages
    <3>3. \A i \in Stages \ {4} : Stage(p, q, i)' \subseteq Stage(p, q, i)
      BY <2>3, HearingKeeps, SendingKeeps DEF Stages
    <3>4. \A i \in Stages : 4 < i /\ i <= 5 => \A m \in Stage(p, q, i)' : n < m
      BY <1>7, <3>2
    <3>5. Stage(p, q, 4)' \subseteq Stage(p, q, 4) \cup {n}
      BY <2>2
    <3> QED
      BY <1>7, <3>1, <3>3, <3>4, <3>5, RisingMoves
  <2>5. QueuesSorted(p, q)'
    BY <2>3, HearingKeeps, SendingKeeps DEF QueuesSorted, TextFrames, MessagesOf, TextsOf
  <2>6. AtHome(p)'
    <3>1. ~Suspended(p)
      BY DEF ReadFrame, Selecting
    <3>2. \A r \in Rooms : Faces(p, r) => Faces(p, r)'
      BY <1>1, <1>2, <3>1 DEF Faces, h
    <3> QED
      BY <2>3, <3>2, HomeStays
  <2> QED
    BY <2>4, <2>5, <2>6
<1> QED
  BY <1>1, <1>8, <1>9

\* The suspended send goes on.
LEMMA ResumedSend ==
  ASSUME TypeOK, NEW p \in Peers, NEW q \in Peers, HandInv(p), AtHome(p), Rising(p, q),
         QueuesSorted(p, q), HearsNothing(p, q), FramesStay(p), TypingStays(p), ResumeSend(p),
         ~(EndRead(p) /\ UNCHANGED chat_events)
  PROVE  AtHome(p)' /\ Rising(p, q)' /\ QueuesSorted(p, q)'
<1> DEFINE o == Head(outgoing[p])
           h == chatroom_sender[p]
<1>1. /\ o.to \in RoomOrNone /\ o.event \in EventsOf(p) /\ read_pc[p] = "running"
      /\ Suspended(p)
      /\ o.to = NoRoom => o.event.kind # "Message"
      /\ o.to # NoRoom => o.event.kind \in {"Quit", "Message"}
      /\ o.to # NoRoom /\ o.event.kind = "Message" => o.to = h
  BY SuspendedSends DEF ResumeSend
<1>2. /\ outgoing'[p] = <<>> /\ Enqueue(o.to, o.event)
      /\ read_pc'[p] = "done" \/ chatroom_sender'[p] = h
  <2>1. ~IsClosed(o.to) /\ ~IsFull(o.to) /\ Send(p, o.to, o.event, h)
    BY DEF ResumeSend, Send
  <2>2. Enqueue(o.to, o.event)
    BY <2>1 DEF Send
  <2>3. outgoing'[p] = <<>> /\ (read_pc'[p] = "done" \/ chatroom_sender'[p] = h)
    BY <2>1 DEF Send, EndRead, Empty, TypeOK
  <2> QED
    BY <2>2, <2>3
<1> HIDE DEF o
<1>3. CASE o.to = NoRoom
  <2>1. UNCHANGED chat_events
    BY <1>2, <1>3 DEF Enqueue
  <2>2. \A r \in Rooms : Faces(p, r) => Faces(p, r)'
    BY <1>1, <1>2, <1>3 DEF Faces, Rooms, NoRoom, o
  <2>3. SendsNoText(p)
    BY <1>1, <1>2, <2>1, <2>2, PlainSends
  <2> QED
    BY <2>3, NoTextKeeps
<1>4. CASE o.to # NoRoom /\ o.event.kind = "Quit"
  <2>1. o.event \in QuitsOf(p) /\ o.to \in Rooms /\ chat_events' = Put(chat_events, o.to, o.event)
    BY <1>1, <1>2, <1>4 DEF QuitsOf, EventsOf, RoomOrNone, Enqueue
  <2>2. \A r \in Rooms : Faces(p, r) => Faces(p, r)' \/ r = o.to
    BY <1>1, <1>2 DEF Faces, o
  <2>3. \A r \in Rooms : r = o.to => \E x \in QuitsOf(p) : chat_events' = Put(chat_events, r, x)
    BY <2>1
  <2>4. SendsNoText(p)
    BY <1>2, <2>1, <2>2, <2>3 DEF SendsNoText, SendIsNoText
  <2> QED
    BY <2>4, NoTextKeeps
<1>5. CASE o.to # NoRoom /\ o.event.kind = "Message"
  <2>1. /\ o.to = h /\ o.event \in TextsOf(p) /\ AddressHeld(p)
        /\ chat_events' = Put(chat_events, h, o.event)
    BY <1>1, <1>2, <1>5 DEF EventsOf, TextsOf, AddressHeld, Enqueue
  <2>2. TypedAs(o.event) \in Stage(p, q, 4)
    BY <1>1, <2>1 DEF Stage, Sending, o
  <2> QED
    BY <1>1, <1>2, <2>1, <2>2, MessageQueued
<1> QED
  BY <1>1, <1>3, <1>4, <1>5

\* The client's own read task keeps its messages in order.
LEMMA ReaderOrders ==
  ASSUME TypeOK, NEW p \in Peers, NEW q \in Peers, HandInv(p), AtHome(p), OneReceiver(q),
         Rising(p, q), QueuesSorted(p, q), ReadNext(p)
  PROVE  AtHome(p)' /\ Rising(p, q)' /\ QueuesSorted(p, q)'
<1>1. HearsNothing(p, q) /\ FramesStay(p) /\ TypingStays(p)
  BY ReaderRests
<1>2. CASE EndRead(p) /\ UNCHANGED chat_events
  BY <1>1, <1>2, EndSendsNothing, NoTextKeeps
<1>3. CASE ~(EndRead(p) /\ UNCHANGED chat_events)
  <2>1. CASE AcceptConnection(p) \/ NewChatroomChannel(p)
    BY <1>1, <2>1, SignalSends, NoTextKeeps
  <2>2. CASE ResumeSend(p)
    BY <1>1, <1>3, <2>2, ResumedSend
  <2>3. CASE ReadFrame(p)
    BY <1>1, <1>3, <2>3, RequestSends, NoTextKeeps, MessageFrame
  <2>4. CASE ReadFails(p) \/ ChatroomChannelClosed(p)
    BY <1>3, <2>4 DEF ReadFails, ChatroomChannelClosed
  <2> QED
    BY <2>1, <2>2, <2>3, <2>4 DEF ReadNext, FrameNext, ChannelNext
<1> QED
  BY <1>2, <1>3

-----------------------------------------------------------------------------
(* The sub-broker                                                          *)

\* A receiver's share of the broadcasts gains a message at its end.
LEMMA PushedSorted ==
  ASSUME NEW receiver \in BroadcastReceiver, NEW m \in MessageResponse, NEW V,
         Sorted(receiver.queue, V),
         m \in V => \A n \in Numbers(receiver.queue, V) : n < TypedAs(m)
  PROVE  LET new == Pushed(receiver, m)
         IN /\ new.room = receiver.room /\ Sorted(new.queue, V)
            /\ m \in V => Numbers(new.queue, V) \subseteq Numbers(receiver.queue, V) \cup {TypedAs(m)}
            /\ m \notin V => Numbers(new.queue, V) \subseteq Numbers(receiver.queue, V)
<1> DEFINE queue == receiver.queue
           all == Append(queue, m)
           new == Pushed(receiver, m)
<1>1. queue \in Seq(MessageResponse)
  BY DEF BroadcastReceiver
<1>2. new.room = receiver.room /\ (new.queue = all \/ new.queue = Tail(all))
  BY DEF Pushed, BroadcastReceiver
<1>3. all \in Seq(MessageResponse) /\ all # <<>>
  BY <1>1
<1> HIDE DEF queue, new
<1>4. /\ Sorted(all, V)
      /\ m \in V => Numbers(all, V) \subseteq Numbers(queue, V) \cup {TypedAs(m)}
      /\ m \notin V => Numbers(all, V) \subseteq Numbers(queue, V)
  BY <1>1, SortedAppend DEF queue
<1> HIDE DEF all
<1>5. Sorted(new.queue, V) /\ Numbers(new.queue, V) \subseteq Numbers(all, V)
  BY <1>2, <1>3, <1>4, SortedTail
<1> QED
  BY <1>2, <1>4, <1>5 DEF queue, new

\* A broadcast reaches the receivers of q after all that they hold.
LEMMA BroadcastHeard ==
  ASSUME TypeOK, NEW p \in Peers, NEW q \in Peers, OneReceiver(q), QueuesSorted(p, q),
         NEW r \in Rooms, NEW m \in MessageResponse, Broadcast(r, m), UNCHANGED besides_room,
         m \in MessagesOf(p) => \A n \in Buffered(p, q) : n < TypedAs(m)
  PROVE  /\ OneReceiver(q)'
         /\ Sorted(chat_receiver'[q].queue, MessagesOf(p))
         /\ \A i \in DOMAIN subscriptions'[q] :
              Sorted(subscriptions'[q][i].receiver.queue, MessagesOf(p))
         /\ m \in MessagesOf(p) => Buffered(p, q)' \subseteq Buffered(p, q) \cup {TypedAs(m)}
         /\ m \notin MessagesOf(p) => Buffered(p, q)' \subseteq Buffered(p, q)
<1> DEFINE V == MessagesOf(p)
           old == subscriptions[q]
           new == subscriptions'[q]
           More(queue, after) ==
             /\ Sorted(after, V)
             /\ m \in V => Numbers(after, V) \subseteq Numbers(queue, V) \cup {TypedAs(m)}
             /\ m \notin V => Numbers(after, V) \subseteq Numbers(queue, V)
<1>1. ASSUME NEW receiver \in BroadcastReceiver, Sorted(receiver.queue, V),
             Numbers(receiver.queue, V) \subseteq Buffered(p, q)
      PROVE  /\ Pushed(receiver, m).room = receiver.room
             /\ More(receiver.queue, Pushed(receiver, m).queue)
             /\ More(receiver.queue, receiver.queue)
  BY <1>1, PushedSorted
<1>2. /\ chat_receiver[q] \in BroadcastReceiver /\ Sorted(chat_receiver[q].queue, V)
      /\ Numbers(chat_receiver[q].queue, V) \subseteq Buffered(p, q)
  BY DEF TypeOK, QueuesSorted, Buffered
<1>3. /\ chat_receiver[q].room # r => chat_receiver'[q] = chat_receiver[q]
      /\ chat_receiver'[q].room = chat_receiver[q].room
      /\ More(chat_receiver[q].queue, chat_receiver'[q].queue)
  <2>1. chat_receiver'[q] = IF chat_receiver[q].room = r
                            THEN Pushed(chat_receiver[q], m) ELSE chat_receiver[q]
    BY DEF Broadcast
  <2> QED
    BY <1>1, <1>2, <2>1
<1>4. /\ new = [i \in DOMAIN old |->
                  IF old[i].receiver.room = r
                  THEN [old[i] EXCEPT !.receiver = Pushed(old[i].receiver, m)] ELSE old[i]]
      /\ old \in Seq(SubscriptionOf)
      /\ \A i \in DOMAIN old :
           /\ Sorted(old[i].receiver.queue, V)
           /\ Numbers(old[i].receiver.queue, V) \subseteq Buffered(p, q)
  BY DEF Broadcast, TypeOK, QueuesSorted, Buffered
<1>5. /\ DOMAIN new = DOMAIN old
      /\ \A i \in DOMAIN old :
           /\ old[i].receiver.room # r => new[i] = old[i]
           /\ new[i].receiver.room = old[i].receiver.room
           /\ More(old[i].receiver.queue, new[i].receiver.queue)
  <2> HIDE DEF new, old, More
  <2>1. DOMAIN new = DOMAIN old
    BY <1>4
  <2>2. ASSUME NEW i \in DOMAIN old
        PROVE  /\ old[i].receiver.room # r => new[i] = old[i]
               /\ new[i].receiver.room = old[i].receiver.room
               /\ More(old[i].receiver.queue, new[i].receiver.queue)
    <3>1. old[i] \in SubscriptionOf /\ old[i].receiver \in BroadcastReceiver
      <4>1. old[i] \in SubscriptionOf
        BY <1>4
      <4> QED
        BY <4>1 DEF SubscriptionOf
    <3>2. CASE old[i].receiver.room = r
      <4>1. new[i] = [old[i] EXCEPT !.receiver = Pushed(old[i].receiver, m)]
        BY <1>4, <3>2
      <4>2. new[i].receiver = Pushed(old[i].receiver, m)
        BY <3>1, <4>1 DEF SubscriptionOf
      <4> QED
        BY <1>1, <1>4, <3>1, <3>2, <4>2
    <3>3. CASE old[i].receiver.room # r
      <4>1. new[i] = old[i]
        BY <1>4, <3>3
      <4> QED
        BY <1>1, <1>4, <3>1, <4>1
    <3> QED
      BY <3>2, <3>3
  <2> QED
    BY <2>1, <2>2
<1>6. OneReceiver(q)'
  <2>1. new # <<>> => old # <<>>
    BY BroadcastQuiet DEF WriterQuiet
  <2>2. r # NoRoom
    BY DEF Rooms, NoRoom
  <2>3. (subscriptions[q] # <<>> => Deaf(q))'
    <3>1. Deaf(q) => Deaf(q)'
      BY <1>3, <2>2 DEF Deaf
    <3> QED
      BY <2>1, <3>1 DEF OneReceiver
  <2>4. (chat_receiver[q].room = NoRoom => chat_receiver[q].queue = <<>>)'
    BY <1>3, <2>2 DEF OneReceiver
  <2>5. \A i \in DOMAIN new : new[i].receiver.room = NoRoom => new[i].receiver.queue = <<>>
    <3> HIDE DEF new, More
    <3>1. \A i \in DOMAIN old : old[i].receiver.room = NoRoom => old[i].receiver.queue = <<>>
      BY DEF OneReceiver
    <3> QED
      BY <1>5, <2>2, <3>1
  <2> QED
    BY <2>3, <2>4, <2>5 DEF OneReceiver
<1>7. V' = V
  BY DEF MessagesOf
<1>8. ASSUME NEW W, Numbers(chat_receiver'[q].queue, V) \subseteq W,
             \A i \in DOMAIN new : Numbers(new[i].receiver.queue, V) \subseteq W
      PROVE  Buffered(p, q)' \subseteq W
  BY <1>7, <1>8 DEF Buffered
<1>9. \A i \in DOMAIN new : Sorted(new[i].receiver.queue, V)
  BY <1>5
<1>10. ASSUME NEW W, Buffered(p, q) \subseteq W, m \in V => TypedAs(m) \in W
       PROVE  Buffered(p, q)' \subseteq W
  <2>1. Numbers(chat_receiver'[q].queue, V) \subseteq W
    BY <1>2, <1>3, <1>10
  <2>2. \A i \in DOMAIN new : Numbers(new[i].receiver.queue, V) \subseteq W
    BY <1>4, <1>5, <1>10
  <2> QED
    BY <1>8, <2>1, <2>2
<1> QED
  BY <1>3, <1>6, <1>9, <1>10

\* The head of a chatroom's queue as it is broadcast.
LEMMA HeadBroadcast ==
  ASSUME TypeOK, NEW r \in Rooms, RoomMessage(r)
  PROVE  LET e == Head(chat_events[r])
             m == MessageOf(e, r)
         IN /\ chat_events[r] # <<>> /\ chat_events[r] \in Seq(Event)
            /\ chat_events' = [chat_events EXCEPT ![r] = Tail(@)]
            /\ m \in MessageResponse
            /\ \A p \in Peers :
                 /\ m \in MessagesOf(p) <=> e \in TextsOf(p)
                 /\ e \in TextsOf(p) => TypedAs(m) = TypedAs(e)
            /\ UNCHANGED besides_room
            /\ \/ Broadcast(r, m)
               \/ UNCHANGED <<chat_receiver, subscriptions>>
<1> DEFINE e == Head(chat_events[r])
           m == MessageOf(e, r)
<1>1. /\ chat_events[r] # <<>> /\ e.kind = "Message"
      /\ chat_events' = [chat_events EXCEPT ![r] = Tail(@)]
      /\ Broadcast(r, m) \/ UNCHANGED <<chat_receiver, subscriptions>>
  BY DEF RoomMessage, TakesEvent
<1>2. UNCHANGED besides_room
  BY DEF RoomMessage, RoomOnly, besides_room, ui_vars, registry, client_vars
<1>3. chat_events[r] \in Seq(Event) /\ e \in Event
  BY <1>1, ReceiveType DEF TypeOK
<1>4. m \in MessageResponse /\ m.peer_id = e.peer_id /\ m.msg = e.arg
  BY <1>1, <1>3 DEF MessageOf, MessageResponse, Event
<1> HIDE DEF e, m
<1>5. \A p \in Peers :
        /\ m \in MessagesOf(p) <=> e \in TextsOf(p)
        /\ e \in TextsOf(p) => TypedAs(m) = TypedAs(e)
  <2> TAKE p \in Peers
  <2>1. m \in MessagesOf(p) <=> e \in TextsOf(p)
    BY <1>1, <1>3, <1>4 DEF MessagesOf, TextsOf
  <2> QED
    BY <1>4, <2>1, NumberOf
<1> QED
  BY <1>1, <1>2, <1>3, <1>4, <1>5 DEF e, m

\* A message that is broadcast goes on to those who are subscribed.
LEMMA RoomHears ==
  ASSUME TypeOK, NEW p \in Peers, NEW q \in Peers, AtHome(p), OneReceiver(q), Rising(p, q),
         QueuesSorted(p, q), SenderRests(p), NEW r \in Rooms, RoomMessage(r),
         Broadcast(r, MessageOf(Head(chat_events[r]), r))
  PROVE  OneReceiver(q)' /\ Rising(p, q)' /\ QueuesSorted(p, q)'
<1> DEFINE e == Head(chat_events[r])
           m == MessageOf(e, r)
           n == TypedAs(e)
           V == TextsOf(p)
<1>1. /\ chat_events[r] # <<>> /\ chat_events[r] \in Seq(Event)
      /\ chat_events' = [chat_events EXCEPT ![r] = Tail(@)]
      /\ m \in MessageResponse /\ UNCHANGED besides_room /\ Broadcast(r, m)
      /\ m \in MessagesOf(p) <=> e \in V
      /\ e \in V => TypedAs(m) = n
  BY HeadBroadcast
<1>2. /\ chat_events'[r] = Tail(chat_events[r])
      /\ \A s \in Rooms : s # r => chat_events'[s] = chat_events[s]
  BY <1>1 DEF TypeOK
<1>3. e \in V =>
        /\ n \in Numbers(chat_events[r], V)
        /\ \A k \in Numbers(chat_events'[r], V) : n < k
  BY <1>1, <1>2, SortedTail DEF QueuesSorted
<1>4. e \in V => n \in Stage(p, q, 3) /\ \A k \in Stage(p, q, 3)' : n < k
  <2> SUFFICES ASSUME e \in V
               PROVE  n \in Stage(p, q, 3) /\ \A k \in Stage(p, q, 3)' : n < k
    OBVIOUS
  <2>1. \A s \in Rooms : s # r => Numbers(chat_events'[s], V) = {}
    <3>1. Holds(chat_events[r], V)
      BY <1>3, HeldNumbers
    <3>2. \A s \in Rooms : s # r => ~Holds(chat_events[s], V)
      BY <3>1 DEF AtHome
    <3> QED
      BY <1>2, <3>2, HeldNumbers
  <2>2. V' = V
    BY DEF TextsOf
  <2> HIDE DEF V, n
  <2>3. n \in Queued(p) /\ \A k \in Queued(p)' : n < k
    BY <1>3, <2>1, <2>2 DEF Queued, V
  <2> QED
    BY <2>3 DEF Stage
<1>5. e \in V => \A k \in Buffered(p, q) : k < n
  <2>1. 2 \in Stages /\ 3 \in Stages /\ 2 < 3
    BY DEF Stages
  <2> QED
    BY <1>4, <2>1 DEF Rising, Stage
<1> HIDE DEF m, n, V
<1>6. /\ OneReceiver(q)'
      /\ Sorted(chat_receiver'[q].queue, MessagesOf(p))
      /\ \A i \in DOMAIN subscriptions'[q] :
           Sorted(subscriptions'[q][i].receiver.queue, MessagesOf(p))
      /\ e \in V => Buffered(p, q)' \subseteq Buffered(p, q) \cup {n}
      /\ e \notin V => Buffered(p, q)' \subseteq Buffered(p, q)
  BY <1>1, <1>5, BroadcastHeard
<1>7. UNCHANGED to_client
  BY <1>1 DEF besides_room, sockets
<1>8. \A i \in Stages \ {2} : Stage(p, q, i)' \subseteq Stage(p, q, i)
  <2>1. Stage(p, q, 1)' \subseteq Stage(p, q, 1)
    BY <1>7 DEF Stage, Written, MessagesOf
  <2> QED
    BY <2>1, SendingKeeps DEF Stages, SenderRests
<1>9. Rising(p, q)'
  <2>1. CASE e \in V
    <3>1. 2 \in Stages /\ 3 \in Stages /\ 2 < 3
      BY DEF Stages
    <3>2. \A i \in Stages : 2 < i /\ i <= 3 => i = 3
      BY DEF Stages
    <3>3. Stage(p, q, 2)' \subseteq Stage(p, q, 2) \cup {n}
      BY <1>6, <2>1 DEF Stage
    <3>4. \A i \in Stages : 2 < i /\ i <= 3 => \A k \in Stage(p, q, i)' : n < k
      BY <1>4, <2>1, <3>2
    <3> QED
      BY <1>4, <1>8, <2>1, <3>1, <3>3, <3>4, RisingMoves
  <2>2. CASE e \notin V
    <3>1. Stage(p, q, 2)' \subseteq Stage(p, q, 2)
      BY <1>6, <2>2 DEF Stage
    <3>2. \A i \in Stages : Stage(p, q, i)' \subseteq Stage(p, q, i)
      BY <1>8, <3>1
    <3> QED
      BY <3>2, RisingStays
  <2> QED
    BY <2>1, <2>2
<1>10. QueuesSorted(p, q)'
  <2>1. MessagesOf(p)' = MessagesOf(p) /\ Sorted(to_client'[q], MessagesOf(p))
    BY <1>7 DEF MessagesOf, QueuesSorted
  <2> QED
    BY <1>6, <2>1, SendingKeeps DEF QueuesSorted, SenderRests, TextsOf, TextFrames
<1> QED
  BY <1>6, <1>9, <1>10

\* A sub-broker keeps the messages in order.
LEMMA RoomOrders ==
  ASSUME TypeOK, NEW p \in Peers, NEW q \in Peers, AtHome(p), OneReceiver(q), Rising(p, q),
         QueuesSorted(p, q), NEW r \in Rooms, RoomNext(r)
  PROVE  AtHome(p)' /\ OneReceiver(q)' /\ Rising(p, q)' /\ QueuesSorted(p, q)'
<1>1. SenderRests(p)
  <2>1. UNCHANGED <<ui_vars, sockets, read_vars>>
    BY DEF RoomNext, RoomEventNext, RoomMessage, RoomQuit, RoomShutdown, RoomOnly
  <2>2. RoomsStay(p)
    <3>1. \/ UNCHANGED chat_events
          \/ chat_events[r] # <<>> /\ chat_events' = [chat_events EXCEPT ![r] = Tail(@)]
      BY DEF RoomNext, RoomEventNext, RoomMessage, RoomQuit, RoomShutdown, TakesEvent
    <3> QED
      BY <3>1 DEF RoomsStay, Shrinks, TypeOK
  <2> QED
    BY <2>1, <2>2, SameRests DEF SenderRests, ui_vars, sockets, read_vars
<1>2. CASE UNCHANGED <<chat_receiver, subscriptions>>
  <2>1. UNCHANGED to_client
    BY DEF RoomNext, RoomEventNext, RoomMessage, RoomQuit, RoomShutdown, RoomOnly, sockets
  <2>2. HearsNothing(p, q) /\ OneReceiver(q)'
    BY <1>2, <2>1, SameRests
  <2> QED
    BY <1>1, <2>2, RestKeeps
<1>3. CASE ~UNCHANGED <<chat_receiver, subscriptions>>
  <2>1. RoomMessage(r) /\ Broadcast(r, MessageOf(Head(chat_events[r]), r))
    BY <1>3 DEF RoomNext, RoomEventNext, RoomMessage, RoomQuit, RoomShutdown
  <2>2. AtHome(p)'
    BY <1>1, HomeStays DEF SenderRests, Faces, Suspended, QuitsOf
  <2> QED
    BY <1>1, <2>1, <2>2, RoomHears
<1> QED
  BY <1>2, <1>3

-----------------------------------------------------------------------------
(* The invariant is inductive                                              *)

\* A client program keeps the messages in order.
LEMMA ClientOrders ==
  ASSUME TypeOK, NEW p \in Peers, NEW q \in Peers, AtHome(p), OneReceiver(q), Rising(p, q),
         QueuesSorted(p, q), NEW o \in Peers, UserNext(o) \/ ProgramNext(o)
  PROVE  AtHome(p)' /\ OneReceiver(q)' /\ Rising(p, q)' /\ QueuesSorted(p, q)'
<1>1. HearsNothing(p, q) /\ OneReceiver(q)'
  BY ClientTouches, ReadingHears
<1>2. RoomsStay(p) /\ SendIsNoText(p) /\ UNCHANGED read_vars
  BY ClientTouches, SameRests DEF read_vars
<1>3. CASE o = p /\ SendMessage(p)
  <2>1. AtHome(p)'
    BY <1>2, HomeStays DEF Faces, Suspended, QuitsOf, read_vars
  <2> QED
    BY <1>1, <1>2, <1>3, <2>1, MessageTyped
<1>4. CASE o # p \/ ~SendMessage(p)
  <2>1. FramesStay(p) /\ TypingStays(p)
    <3>1. CASE o # p
      BY <3>1, ClientTouches, SameRests
    <3>2. CASE o = p
      BY <1>4, <3>2, ClientRests
    <3> QED
      BY <3>1, <3>2
  <2>2. SenderRests(p)
    BY <1>2, <2>1 DEF SenderRests, read_vars
  <2> QED
    BY <1>1, <2>2, RestKeeps
<1> QED
  BY <1>3, <1>4

\* A write task keeps the messages in order.
LEMMA WriterOrders ==
  ASSUME TypeOK, NEW p \in Peers, NEW q \in Peers, HandInv(q), AtHome(p), OneReceiver(q),
         Rising(p, q), QueuesSorted(p, q), NEW o \in Peers, WriteNext(o)
  PROVE  AtHome(p)' /\ OneReceiver(q)' /\ Rising(p, q)' /\ QueuesSorted(p, q)'
<1>1. SenderRests(p)
  BY WriterRests
<1>2. CASE o # q \/ Shutdown(q) \/ WriteFails(q) \/ MainResponse(q) \/ Lagged(q)
  <2>1. HearsNothing(p, q) /\ OneReceiver(q)'
    BY <1>2, WriterRests, PlainHears
  <2> QED
    BY <1>1, <2>1, RestKeeps
<1>3. CASE o = q /\ Subscription(q)
  BY <1>3, SubscriptionHears
<1>4. CASE o = q /\ ChatMessage(q)
  BY <1>4, MessageHears
<1> QED
  BY <1>2, <1>3, <1>4 DEF WriteNext, BroadcastNext

\* At the start nothing is on its way.
LEMMA InitOrder == Init => OrderIInv
<1> SUFFICES ASSUME Init, NEW p \in Peers
             PROVE  /\ AtHome(p) /\ OneReceiver(p)
                    /\ \A q \in Peers : Rising(p, q) /\ QueuesSorted(p, q)
  BY DEF OrderIInv
<1>1. /\ outgoing[p] = <<>> /\ to_server[p] = <<>>
      /\ \A r \in Rooms : chat_events[r] = <<>>
      /\ \A q \in Peers :
           /\ to_client[q] = <<>> /\ subscriptions[q] = <<>>
           /\ chat_receiver[q] = DummyReceiver
  BY DEF Init
<1>2. DOMAIN <<>> = {} /\ DummyReceiver.queue = <<>>
  BY DEF DummyReceiver, Receiver
<1>3. AtHome(p) /\ OneReceiver(p)
  BY <1>1, <1>2 DEF AtHome, OneReceiver, Holds
<1>4. ASSUME NEW q \in Peers
      PROVE  Rising(p, q) /\ QueuesSorted(p, q)
  <2>1. QueuesSorted(p, q)
    BY <1>1, <1>2, SortedNothing DEF QueuesSorted
  <2>2. Written(p, q) = {} /\ Framed(p) = {} /\ Sending(p) = {}
    BY <1>1, SortedNothing DEF Written, Framed, Sending, Suspended
  <2>3. Buffered(p, q) = {} /\ Queued(p) = {}
    BY <1>1, <1>2, SortedNothing DEF Buffered, Queued
  <2>4. \A k \in Stages : k # 6 => Stage(p, q, k) = {}
    BY <2>2, <2>3 DEF Stages, Stage
  <2>5. \A k, l \in Stages : k < l => k # 6
    BY DEF Stages
  <2> QED
    BY <2>1, <2>4, <2>5 DEF Rising
<1> QED
  BY <1>3, <1>4

\* Every step keeps every way in order.
LEMMA NextOrder ==
  ASSUME TypeOK, HandIInv, ReceiverIInv, OrderIInv, [Next]_vars
  PROVE  OrderIInv'
<1>1. ASSUME NEW p \in Peers, NEW q \in Peers
      PROVE  AtHome(p)' /\ OneReceiver(q)' /\ Rising(p, q)' /\ QueuesSorted(p, q)'
  <2>1. /\ \A o \in Peers : HandInv(o)
        /\ Tied(q) /\ AtHome(p) /\ OneReceiver(q) /\ Rising(p, q) /\ QueuesSorted(p, q)
    BY DEF HandIInv, ReceiverIInv, OrderIInv
  <2>2. CASE BrokerNext
    BY <2>1, <2>2, BrokerRests, RestKeeps
  <2>3. ASSUME NEW o \in Peers, ReadNext(o)
        PROVE  AtHome(p)' /\ OneReceiver(q)' /\ Rising(p, q)' /\ QueuesSorted(p, q)'
    <3>1. CASE o = p
      BY <2>1, <2>3, <3>1, ReaderRests, ReaderOrders
    <3>2. CASE o # p
      BY <2>1, <2>3, <3>2, ReaderRests, RestKeeps
    <3> QED
      BY <3>1, <3>2
  <2>4. CASE \E o \in Peers : WriteNext(o)
    BY <2>1, <2>4, WriterOrders
  <2>5. CASE \E o \in Peers : UserNext(o) \/ ProgramNext(o)
    BY <2>1, <2>5, ClientOrders
  <2>6. CASE \E r \in Rooms : RoomNext(r)
    BY <2>1, <2>6, RoomOrders
  <2>7. CASE UNCHANGED vars
    <3>1. UNCHANGED <<chat_events, outgoing, to_server, page, sent, to_client, chat_receiver,
                      subscriptions, read_pc, chatroom_sender>>
      BY <2>7 DEF vars, ui_vars, sockets, read_vars, write_vars, channels, peer_channels
    <3>2. SenderRests(p) /\ HearsNothing(p, q) /\ OneReceiver(q)'
      <4>1. RoomsStay(p) /\ SendIsNoText(p) /\ FramesStay(p)
        BY <3>1, SameRests
      <4>2. TypingStays(p)
        BY <3>1, SameRests
      <4>3. HearsNothing(p, q) /\ OneReceiver(q)'
        BY <2>1, <3>1, SameRests
      <4> QED
        BY <3>1, <4>1, <4>2, <4>3 DEF SenderRests
    <3> QED
      BY <2>1, <3>2, RestKeeps
  <2> QED
    BY <2>2, <2>3, <2>4, <2>5, <2>6, <2>7 DEF Next
<1> QED
  BY <1>1 DEF OrderIInv

\* On every way from a sender to a reader, what is further on was typed earlier:
\* the frames, the suspended send, the sub-broker's queue, the broadcast buffer
\* and the socket hold a sender's messages in the order it typed them.
THEOREM MessagesOnTheWay == Spec => []OrderIInv
<1>1. TypeOK /\ HandIInv /\ ReceiverIInv /\ OrderIInv /\ [Next]_vars => OrderIInv'
  BY NextOrder
<1> QED
  BY <1>1, InitOrder, TypeCorrect, TurnsAreTaken, ReceiversAreTied, PTL DEF Spec

\* A reader gets a sender's messages in the order the sender typed them, whatever
\* was lost in between: to a broadcast buffer that ran over, to a chatroom that
\* closed, or to a receiver that was put in the place of another.
THEOREM MessagesStayInOrder == Spec => []MessagesInOrder
<1>1. TypeOK /\ OrderIInv => MessagesInOrder
  <2> SUFFICES ASSUME TypeOK, OrderIInv, NEW q \in Peers,
                      NEW i \in DOMAIN (to_client[q] \o chat_receiver[q].queue),
                      NEW j \in DOMAIN (to_client[q] \o chat_receiver[q].queue), i < j,
                      (to_client[q] \o chat_receiver[q].queue)[i].kind = "Message",
                      (to_client[q] \o chat_receiver[q].queue)[j].kind = "Message",
                      (to_client[q] \o chat_receiver[q].queue)[i].peer_id
                        = (to_client[q] \o chat_receiver[q].queue)[j].peer_id
               PROVE  (to_client[q] \o chat_receiver[q].queue)[i].msg
                        < (to_client[q] \o chat_receiver[q].queue)[j].msg
    BY DEF MessagesInOrder
  <2> DEFINE a == to_client[q]
             b == chat_receiver[q].queue
             inbox == a \o b
  <2>1. a \in Seq(Response) /\ b \in Seq(Response)
    <3>1. a \in Seq(Response) /\ b \in Seq(MessageResponse)
      BY DEF TypeOK, BroadcastReceiver
    <3>2. b \in Seq(Response)
      <4> HIDE DEF b
      <4>1. \A k \in 1 .. Len(b) : b[k] \in Response
        BY <3>1, MessageIsResponse
      <4> QED
        BY <3>1, <4>1
    <3> QED
      BY <3>1, <3>2
  <2>2. PICK p \in Peers : inbox[i] \in MessagesOf(p) /\ inbox[j] \in MessagesOf(p)
    <3>1. \A k \in DOMAIN inbox : inbox[k] \in Response
      <4> HIDE DEF a, b
      <4>1. inbox \in Seq(Response)
        BY <2>1
      <4> HIDE DEF inbox
      <4> QED
        BY <4>1
    <3>2. inbox[i] \in Response /\ inbox[j] \in Response
      BY <3>1
    <3>3. inbox[i] \in MessageResponse /\ inbox[j] \in MessageResponse
      BY <3>2 DEF Response, PlainResponse, LobbyResponse, PlainKinds, LobbyKinds
    <3> QED
      BY <3>3 DEF MessagesOf, MessageResponse
  <2>3. /\ Sorted(a, MessagesOf(p)) /\ Sorted(b, MessagesOf(p)) /\ Rising(p, q)
    BY DEF OrderIInv, QueuesSorted
  <2>4. \A m \in Numbers(a, MessagesOf(p)), n \in Numbers(b, MessagesOf(p)) : m < n
    <3>1. 1 \in Stages /\ 2 \in Stages /\ 1 < 2
      BY DEF Stages
    <3>2. Numbers(b, MessagesOf(p)) \subseteq Stage(p, q, 2)
      BY DEF Stage, Buffered
    <3> QED
      BY <2>3, <3>1, <3>2 DEF Rising, Stage, Written
  <2> DEFINE V == MessagesOf(p)
  <2>5. TypedAs(inbox[i]) = inbox[i].msg /\ TypedAs(inbox[j]) = inbox[j].msg
    BY <2>2, NumberOf
  <2>6. i \in DOMAIN inbox /\ j \in DOMAIN inbox /\ i < j /\ inbox[i] \in V /\ inbox[j] \in V
    BY <2>2
  <2>7. /\ Sorted(a, V) /\ Sorted(b, V)
        /\ \A m \in Numbers(a, V), n \in Numbers(b, V) : m < n
    BY <2>3, <2>4
  <2> HIDE DEF a, b, V
  <2>8. TypedAs(inbox[i]) < TypedAs(inbox[j])
    <3>1. /\ \A k \in DOMAIN inbox :
               \/ k \in DOMAIN a /\ inbox[k] = a[k]
               \/ k > Len(a) /\ k - Len(a) \in DOMAIN b /\ inbox[k] = b[k - Len(a)]
          /\ \A k \in DOMAIN a : k <= Len(a)
          /\ Len(a) \in Nat /\ DOMAIN inbox \subseteq Nat
      BY <2>1
    <3>2. CASE i \in DOMAIN a /\ j \in DOMAIN a
      BY <2>6, <2>7, <3>1, <3>2 DEF Sorted
    <3>3. CASE i \notin DOMAIN a /\ j \notin DOMAIN a
      <4>1. i - Len(a) < j - Len(a)
        BY <2>6, <3>1
      <4> QED
        BY <2>6, <2>7, <3>1, <3>3, <4>1 DEF Sorted
    <3>4. CASE i \in DOMAIN a /\ j \notin DOMAIN a
      <4>1. TypedAs(inbox[i]) \in Numbers(a, V) /\ TypedAs(inbox[j]) \in Numbers(b, V)
        BY <2>6, <3>1, <3>4 DEF Numbers
      <4> QED
        BY <2>7, <4>1
    <3>5. ~(i \notin DOMAIN a /\ j \in DOMAIN a)
      BY <2>1, <2>6
    <3> QED
      BY <3>2, <3>3, <3>4, <3>5
  <2> QED
    BY <2>5, <2>8 DEF a, b
<1> QED
  BY <1>1, MessagesOnTheWay, TypeCorrect, PTL

=============================================================================

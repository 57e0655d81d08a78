------------------------------ MODULE ReadTask ------------------------------
(***************************************************************************)
(* The read task of a connection: accept_loop spawns it, handle_connection *)
(* (src/bin/server.rs) is its body.  It turns frames into events and sends *)
(* them to the main broker, or to the sub-broker of the chatroom whose     *)
(* address it was given.  Both channels are bounded: a send that finds its *)
(* channel full suspends the task, which then reads nothing else.          *)
(***************************************************************************)
EXTENDS ChatState

Suspended(p) == outgoing[p] # <<>>

\* The task is in its select!.
Selecting(p) == read_pc[p] = "running" /\ ~Suspended(p)

\* The channel of chatroom `to`, or of the main broker.
IsClosed(to) ==
  IF to = NoRoom THEN ~BrokerRunning ELSE room_pc[to] = "harvested"
IsFull(to) ==
  IF to = NoRoom THEN Len(events) >= BufSize ELSE Len(chat_events[to]) >= BufSize

Enqueue(to, event) ==
  IF to = NoRoom
  THEN events' = Append(events, event) /\ UNCHANGED chat_events
  ELSE chat_events' = Put(chat_events, to, event) /\ UNCHANGED events

\* An event and the channel it is to go to, held by a suspended send.
Pending(to, event) == <<[to |-> to, event |-> event]>>

\* handle_connection returns: its receiver of chatroom addresses is dropped,
\* and its shutdown sender, which the write task notices.
EndRead(p) ==
  /\ read_pc' = [read_pc EXCEPT ![p] = "done"]
  /\ chatroom_sender' = [chatroom_sender EXCEPT ![p] = NoRoom]
  /\ outgoing' = Empty(outgoing, p)
  /\ chatroom_connection' = Empty(chatroom_connection, p)

\* `sender.send(event).await`, after which the task keeps the address `next`.
\* A Quit to the main broker is its last act.
Send(p, to, event, next) ==
  IF IsClosed(to)
  THEN EndRead(p) /\ UNCHANGED <<events, chat_events>>
  ELSE IF IsFull(to)
  THEN /\ read_pc' = [read_pc EXCEPT ![p] = "running"]
       /\ outgoing' = [outgoing EXCEPT ![p] = Pending(to, event)]
       /\ chatroom_sender' = [chatroom_sender EXCEPT ![p] = next]
       /\ UNCHANGED <<events, chat_events, chatroom_connection>>
  ELSE /\ Enqueue(to, event)
       /\ IF to = NoRoom /\ event.kind = "Quit"
          THEN EndRead(p)
          ELSE /\ read_pc' = [read_pc EXCEPT ![p] = "running"]
               /\ outgoing' = Empty(outgoing, p)
               /\ chatroom_sender' = [chatroom_sender EXCEPT ![p] = next]
               /\ UNCHANGED chatroom_connection

ReadTaskOnly ==
  UNCHANGED <<write_vars, registry, room_pc, main_responses, subscriptions,
              client_exit, harvest_channels>>

\* A client connects, the accept loop spawns its read task, and the task hands
\* the connection to the main broker.
AcceptConnection(p) ==
  /\ page[p] = "Unstarted"
  /\ page' = [page EXCEPT ![p] = "WelcomePage"]
  /\ Send(p, NoRoom, Signal("NewClient", p), NoRoom)
  /\ ReadTaskOnly
  /\ UNCHANGED <<step, lobby, sent, requests, sockets>>

\* The suspended send goes on: there is room again, or the receiver is gone.
ResumeSend(p) ==
  /\ Suspended(p)
  /\ LET o == Head(outgoing[p])
     IN /\ IsClosed(o.to) \/ ~IsFull(o.to)
        /\ Send(p, o.to, o.event, chatroom_sender[p])
  /\ ReadTaskOnly
  /\ UNCHANGED <<ui_vars, sockets>>

\* The frames a task with this chatroom address (or none) takes.
LegalFrames(sender) ==
  IF sender # NoRoom THEN {"Quit", "Message"}
  ELSE {"Quit", "Lobby", "Create", "Join", "Username"}

\* Mutant of ReadFrame: the address is kept after Quit.
ReadFrameKeepsSender(p) ==
  /\ Selecting(p)
  /\ to_server[p] # <<>>
  /\ to_server' = [to_server EXCEPT ![p] = Tail(@)]
  /\ LET frame == Head(to_server[p])
         sender == chatroom_sender[p]
     IN IF frame.kind \notin LegalFrames(sender)
        THEN EndRead(p) /\ UNCHANGED <<events, chat_events>>
        ELSE Send(p, sender, EventOf(p, frame), sender)
  /\ ReadTaskOnly
  /\ UNCHANGED <<ui_vars, to_client>>

\* The next frame becomes an event.  Quitting a chatroom gives up its address;
\* an illegal frame ends the task.
ReadFrame(p) ==
  /\ Selecting(p)
  /\ to_server[p] # <<>>
  /\ to_server' = [to_server EXCEPT ![p] = Tail(@)]
  /\ LET frame == Head(to_server[p])
         sender == chatroom_sender[p]
     IN IF frame.kind \notin LegalFrames(sender)
        THEN EndRead(p) /\ UNCHANGED <<events, chat_events>>
        ELSE Send(p, sender, EventOf(p, frame),
                  IF frame.kind = "Quit" THEN NoRoom ELSE sender)
  /\ ReadTaskOnly
  /\ UNCHANGED <<ui_vars, to_client>>

\* The stream ends or is reset.  A reset, which may overtake frames, follows
\* when the client closed its end with responses unread.
ReadFails(p) ==
  /\ Selecting(p)
  /\ ClientClosed(p)
  /\ to_server[p] = <<>> \/ to_client[p] # <<>>
  /\ EndRead(p)
  /\ ReadTaskOnly
  /\ UNCHANGED <<ui_vars, sockets, events, chat_events>>

\* The main broker put the client in a chatroom: note the address, say so.
NewChatroomChannel(p) ==
  /\ Selecting(p)
  /\ chatroom_connection[p] # <<>>
  /\ LET r == Head(chatroom_connection[p])
     IN IF IsClosed(NoRoom)
        THEN EndRead(p) /\ UNCHANGED <<events, chat_events>>
        ELSE /\ chatroom_connection' = [chatroom_connection EXCEPT ![p] = Tail(@)]
             /\ chatroom_sender' = [chatroom_sender EXCEPT ![p] = r]
             /\ UNCHANGED read_pc
             /\ IF IsFull(NoRoom)
                THEN /\ outgoing' =
                          [outgoing EXCEPT ![p] = Pending(NoRoom, Signal("ReadSync", p))]
                     /\ UNCHANGED <<events, chat_events>>
                ELSE Enqueue(NoRoom, Signal("ReadSync", p)) /\ UNCHANGED outgoing
  /\ ReadTaskOnly
  /\ UNCHANGED <<ui_vars, sockets>>

\* The main broker dropped the sender of chatroom addresses: it harvested the
\* client, or ended after it took the NewClient event.
ChatroomChannelClosed(p) ==
  /\ Selecting(p)
  /\ chatroom_connection[p] = <<>>
  /\ write_pc[p] # "idle" /\ p \notin clients
  /\ EndRead(p)
  /\ ReadTaskOnly
  /\ UNCHANGED <<ui_vars, sockets, events, chat_events>>

=============================================================================

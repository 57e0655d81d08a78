----------------------------- MODULE WriteTask ------------------------------
(***************************************************************************)
(* The write task of a connection (client_write_loop, src/bin/server.rs,   *)
(* and the task around it in handle_new_client_event).  Its select! has    *)
(* four branches; when several are ready it picks any of them.  Writing a  *)
(* response never waits; it may fail once the client has closed its end.   *)
(***************************************************************************)
EXTENDS ChatState

Writing(p) == write_pc[p] = "running"

\* Mutant of EndWrite: the receivers are dropped and nobody is told.
EndWriteSilently(p) ==
  /\ write_pc' = [write_pc EXCEPT ![p] = "done"]
  /\ chat_receiver' = [chat_receiver EXCEPT ![p] = DummyReceiver]
  /\ main_responses' = Empty(main_responses, p)
  /\ subscriptions' = Empty(subscriptions, p)
  /\ UNCHANGED client_disconnection

\* client_write_loop returns, its broadcast receiver is dropped, and the task
\* sends its other two receivers to the main broker for harvesting.  If the
\* broker has ended they are dropped as well.
EndWrite(p) ==
  /\ write_pc' = [write_pc EXCEPT ![p] = "done"]
  /\ chat_receiver' = [chat_receiver EXCEPT ![p] = DummyReceiver]
  /\ IF BrokerRunning
     THEN /\ client_disconnection' = Append(client_disconnection, p)
          /\ UNCHANGED <<main_responses, subscriptions>>
     ELSE /\ main_responses' = Empty(main_responses, p)
          /\ subscriptions' = Empty(subscriptions, p)
          /\ UNCHANGED client_disconnection

Write(p, response) == to_client' = Put(to_client, p, response)

WriteTaskOnly ==
  UNCHANGED <<ui_vars, to_server, read_vars, registry, room_pc, events,
              chatroom_connection, chat_events, client_exit,
              disconnected_sub_broker>>

\* The read task has ended: write ExitLobby, if the client can still be
\* written to, and end.
Shutdown(p) ==
  /\ Writing(p)
  /\ read_pc[p] = "done"
  /\ \/ Write(p, Plain("ExitLobby"))
     \/ ClientClosed(p) /\ UNCHANGED to_client
  /\ EndWrite(p)
  /\ WriteTaskOnly

\* Mutant of MainResponse: the broadcast receiver survives ExitChatroom.
MainResponseKeepsReceiver(p) ==
  /\ Writing(p)
  /\ main_responses[p] # <<>>
  /\ Write(p, Head(main_responses[p]))
  /\ main_responses' = [main_responses EXCEPT ![p] = Tail(@)]
  /\ UNCHANGED <<write_pc, chat_receiver, subscriptions, client_disconnection>>
  /\ WriteTaskOnly

\* A response of the main broker.  ExitChatroom also replaces the broadcast
\* receiver by a new dummy.
MainResponse(p) ==
  /\ Writing(p)
  /\ main_responses[p] # <<>>
  /\ LET response == Head(main_responses[p])
     IN /\ Write(p, response)
        /\ chat_receiver' = IF response.kind = "ExitChatroom"
                            THEN [chat_receiver EXCEPT ![p] = DummyReceiver]
                            ELSE chat_receiver
  /\ main_responses' = [main_responses EXCEPT ![p] = Tail(@)]
  /\ UNCHANGED <<write_pc, subscriptions, client_disconnection>>
  /\ WriteTaskOnly

\* Mutant of Subscription: the response is forwarded, the receiver dropped.
SubscriptionNotInstalled(p) ==
  /\ Writing(p)
  /\ subscriptions[p] # <<>>
  /\ Write(p, Head(subscriptions[p]).response)
  /\ subscriptions' = [subscriptions EXCEPT ![p] = Tail(@)]
  /\ UNCHANGED <<write_pc, chat_receiver, main_responses, client_disconnection>>
  /\ WriteTaskOnly

\* A new broadcast receiver, with the response that announces it.
Subscription(p) ==
  /\ Writing(p)
  /\ subscriptions[p] # <<>>
  /\ LET subscription == Head(subscriptions[p])
     IN /\ chat_receiver' = [chat_receiver EXCEPT ![p] = subscription.receiver]
        /\ Write(p, subscription.response)
  /\ subscriptions' = [subscriptions EXCEPT ![p] = Tail(@)]
  /\ UNCHANGED <<write_pc, main_responses, client_disconnection>>
  /\ WriteTaskOnly

\* A message of the chatroom: written unless the client sent it itself.
ChatMessage(p) ==
  /\ Writing(p)
  /\ chat_receiver[p].queue # <<>>
  /\ ~chat_receiver[p].lagged
  /\ LET message == Head(chat_receiver[p].queue)
     IN IF message.peer_id = p THEN UNCHANGED to_client ELSE Write(p, message)
  /\ chat_receiver' = [chat_receiver EXCEPT ![p].queue = Tail(@)]
  /\ UNCHANGED <<write_pc, main_responses, subscriptions, client_disconnection>>
  /\ WriteTaskOnly

\* The receiver reports that messages were overwritten; the task goes on with
\* the oldest that is left.
Lagged(p) ==
  /\ Writing(p)
  /\ chat_receiver[p].lagged
  /\ chat_receiver' = [chat_receiver EXCEPT ![p].lagged = FALSE]
  /\ UNCHANGED <<to_client, write_pc, main_responses, subscriptions,
                 client_disconnection>>
  /\ WriteTaskOnly

\* Every sender of the chatroom's broadcasts is dropped: the one in the map
\* and the sub-broker's own, which the main broker harvests.
BroadcastClosed(r) == r # NoRoom /\ room_pc[r] = "harvested"

\* The main broker dropped the client's senders.
ResponsesClosed(p) == p \notin clients

\* Some branch has a response to write.
HasResponse(p) ==
  \/ main_responses[p] # <<>> \/ subscriptions[p] # <<>>
  \/ /\ chat_receiver[p].queue # <<>> /\ ~chat_receiver[p].lagged
     /\ Head(chat_receiver[p].queue).peer_id # p

\* A branch yields None, or a write fails: the loop returns an error.
WriteFails(p) ==
  /\ Writing(p)
  /\ \/ /\ BroadcastClosed(chat_receiver[p].room)
        /\ chat_receiver[p].queue = <<>> /\ ~chat_receiver[p].lagged
     \/ ResponsesClosed(p) /\ (main_responses[p] = <<>> \/ subscriptions[p] = <<>>)
     \/ ClientClosed(p) /\ HasResponse(p)
  /\ EndWrite(p)
  /\ UNCHANGED to_client
  /\ WriteTaskOnly

=============================================================================

------------------------------ MODULE ClientUI ------------------------------
(***************************************************************************)
(* A client program: Interface::run (src/bin/interface/mod.rs) alternates  *)
(* between UIPage::state_from_response and UIPage::process_request         *)
(* (interface/ui_page/mod.rs); on the Chatroom page the latter runs        *)
(* chat_window_task (interface/ui_page/chat/mod.rs).  Input that the       *)
(* prompts refuse is left out: the user types again.                       *)
(***************************************************************************)
EXTENDS ChatState

-----------------------------------------------------------------------------
(* Responses                                                               *)

\* The program is reading from its socket.
Reads(p) == ClientOpen(p) /\ (step[p] # "request" \/ page[p] = "Chatroom")

JoinedKinds == {"Subscribed", "ChatroomCreated"}

\* The responses the program takes where it is; any other is an error.
Accepts(p) ==
  IF step[p] = "readsync" THEN {"ReadSync"}
  ELSE IF step[p] = "subscription" THEN JoinedKinds
  ELSE CASE page[p] = "WelcomePage" -> {"ConnectionOk"}
         [] page[p] = "UsernamePage" -> {"UsernameAlreadyExists", "UsernameOk"}
         [] page[p] = "LobbyPage" ->
              JoinedKinds \cup {"ExitLobby", "ReadSync", "ChatroomDoesNotExist",
                                "ChatroomAlreadyExists"}
         [] page[p] = "Chatroom" ->
              IF step[p] = "request" THEN {"Message"} ELSE {"ExitChatroom"}
         [] page[p] = "QuitChatroom" -> {"Lobby"}

\* The program at p reads a response of one of these kinds, and takes it.
Reading(p, kinds) ==
  /\ Reads(p)
  /\ to_client[p] # <<>>
  /\ Head(to_client[p]).kind \in kinds \cap Accepts(p)
  /\ to_client' = [to_client EXCEPT ![p] = Tail(@)]

Show(p, new_page, new_step) ==
  /\ page' = [page EXCEPT ![p] = new_page]
  /\ step' = [step EXCEPT ![p] = new_step]

UIOnly ==
  UNCHANGED <<read_vars, write_vars, registry, room_pc, channels>>

\* welcome_page_state_from_response_helper, and a refused user name
AskUsername(p) ==
  /\ Reading(p, {"ConnectionOk", "UsernameAlreadyExists"})
  /\ Show(p, "UsernamePage", "request")
  /\ UNCHANGED <<lobby, sent, requests, to_server>>
  /\ UIOnly

\* A response with a lobby_state leads to the lobby.
ShowLobby(p) ==
  /\ Reading(p, LobbyKinds)
  /\ Show(p, "LobbyPage", "request")
  /\ lobby' = [lobby EXCEPT ![p] = Head(to_client[p]).lobby_state]
  /\ UNCHANGED <<sent, requests, to_server>>
  /\ UIOnly

\* Mutant of AwaitConfirmation: the first response opens the chat window.
AwaitNothing(p) ==
  /\ step[p] = "response"
  /\ Reading(p, JoinedKinds \cup {"ReadSync"})
  /\ Show(p, "Chatroom", "request")
  /\ UNCHANGED <<lobby, sent, requests, to_server>>
  /\ UIOnly

\* In the lobby, the first of the two responses that together open a chatroom.
AwaitConfirmation(p) ==
  /\ step[p] = "response"
  /\ Reading(p, JoinedKinds \cup {"ReadSync"})
  /\ Show(p, "LobbyPage",
          IF Head(to_client[p]).kind = "ReadSync" THEN "subscription" ELSE "readsync")
  /\ UNCHANGED <<lobby, sent, requests, to_server>>
  /\ UIOnly

\* The second one.
EnterChatroom(p) ==
  /\ step[p] \in {"readsync", "subscription"}
  /\ Reading(p, JoinedKinds \cup {"ReadSync"})
  /\ Show(p, "Chatroom", "request")
  /\ lobby' = [lobby EXCEPT ![p] = {}]
  /\ UNCHANGED <<sent, requests, to_server>>
  /\ UIOnly

\* The chat window shows a message.
ShowMessage(p) ==
  /\ Reading(p, {"Message"})
  /\ UNCHANGED <<ui_vars, to_server>>
  /\ UIOnly

\* chatroom_state_from_response_helper
LeaveChatroom(p) ==
  /\ Reading(p, {"ExitChatroom"})
  /\ Show(p, "QuitChatroom", "request")
  /\ UNCHANGED <<lobby, sent, requests, to_server>>
  /\ UIOnly

\* The program returns; its end of the connection is closed.  What the model
\* counts for it is forgotten.
End(p, how) ==
  /\ Show(p, how, "response")
  /\ lobby' = [lobby EXCEPT ![p] = {}]
  /\ sent' = [sent EXCEPT ![p] = 0]
  /\ requests' = [requests EXCEPT ![p] = 0]
  /\ UNCHANGED to_server

\* ExitLobby in the lobby: the program returns Ok.
SayGoodbye(p) ==
  /\ Reading(p, {"ExitLobby"})
  /\ End(p, "QuitLobbyPage")
  /\ UIOnly

\* Any other response: the program returns an error.
UnexpectedResponse(p) ==
  /\ Reads(p)
  /\ to_client[p] # <<>>
  /\ Head(to_client[p]).kind \notin Accepts(p)
  /\ to_client' = [to_client EXCEPT ![p] = Tail(@)]
  /\ End(p, "Crashed")
  /\ UIOnly

-----------------------------------------------------------------------------
(* Requests                                                                *)

\* The program writes a frame and then waits for the response.
Request(p, frame) ==
  /\ to_server' = Put(to_server, p, frame)
  /\ step' = [step EXCEPT ![p] = "response"]
  /\ UNCHANGED <<page, sent, to_client>>
  /\ UIOnly

Prompts(p, at) == page[p] = at /\ step[p] = "request"

\* username_process_request_helper
RequestUsername(p, new_username) ==
  /\ Prompts(p, "UsernamePage")
  /\ Request(p, [kind |-> "Username", arg |-> new_username])
  /\ UNCHANGED <<lobby, requests>>

\* lobby_process_request_helper: c, and the name of a listed chatroom
RequestChatroom(p, kind, name) ==
  /\ Prompts(p, "LobbyPage")
  /\ kind = "Join" => name \in lobby[p]
  /\ requests[p] < MaxRequests
  /\ requests' = [requests EXCEPT ![p] = @ + 1]
  /\ Request(p, [kind |-> kind, arg |-> name])
  /\ lobby' = [lobby EXCEPT ![p] = {}]

\* q
RequestQuit(p) ==
  /\ Prompts(p, "LobbyPage")
  /\ Request(p, [kind |-> "Quit", arg |-> None])
  /\ lobby' = [lobby EXCEPT ![p] = {}]
  /\ UNCHANGED requests

\* quit_chatroom_process_request_helper: no user is asked.
RefreshLobby(p) ==
  /\ Prompts(p, "QuitChatroom")
  /\ Request(p, [kind |-> "Lobby", arg |-> None])
  /\ UNCHANGED <<lobby, requests>>

\* The chat window sends what the user typed and stays open.
SendMessage(p) ==
  /\ Prompts(p, "Chatroom")
  /\ sent[p] < MaxMessages
  /\ sent' = [sent EXCEPT ![p] = @ + 1]
  /\ to_server' = Put(to_server, p, [kind |-> "Message", arg |-> sent[p] + 1])
  /\ UNCHANGED <<page, step, lobby, requests, to_client>>
  /\ UIOnly

\* Ctrl-q: the window closes with a Quit frame.
QuitChatroom(p) ==
  /\ Prompts(p, "Chatroom")
  /\ Request(p, [kind |-> "Quit", arg |-> None])
  /\ UNCHANGED <<lobby, requests>>

-----------------------------------------------------------------------------
(* The connection ends                                                     *)

\* The server closed its end: a read finds the end of the stream, or a reset
\* because the server closed with frames unread; a write may fail.
ConnectionFails(p) ==
  /\ ClientOpen(p)
  /\ ServerClosed(p)
  /\ step[p] = "request" \/ to_client[p] = <<>> \/ to_server[p] # <<>>
  /\ End(p, "Gone")
  /\ UNCHANGED to_client
  /\ UIOnly

\* The user's terminal is closed.
Kill(p) ==
  /\ p \in Killable
  /\ ClientOpen(p)
  /\ End(p, "Gone")
  /\ UNCHANGED to_client
  /\ UIOnly

=============================================================================

------------------------------ MODULE Session -------------------------------
(***************************************************************************)
(* One client program and its connection at the level of bytes: the pages  *)
(* of interface/ui_page/mod.rs, the chat window and its keyboard thread    *)
(* (interface/ui_page/chat/mod.rs) on one side, on the other a server that *)
(* reads frames and writes responses.  Of the server, the read task and    *)
(* the write task of this connection are modelled with the two channels    *)
(* that answers come on; what the brokers decide, when other users write   *)
(* and when the server ends the connection is left open here, and modelled *)
(* in ChatServer.                                                          *)
(*                                                                         *)
(* Outside the chat window the program awaits one whole response.  The     *)
(* window's select! starts a new try_parse in every round: when another    *)
(* branch wins, the bytes the unfinished one has read are lost.            *)
(***************************************************************************)
EXTENDS Codec, SequencesExt

CONSTANTS
  Lines,        \* what a user may type at a prompt for a name
  Texts,        \* what a user may type in the chat window
  Prefix,       \* the user name and ": ", which the window puts before a text
  Lobbies,      \* pictures of the lobby: sequences of chatrooms
  Broadcasts,   \* messages of other users: [id, data]
  MaxRequests,  \* bound: names the user is asked for
  MaxTexts,     \* bound: texts the user types
  MaxBroadcasts \* bound: messages of other users

\* A line and a text are bytes.  A text is not so long that the four bytes of a
\* tag cannot hold its length, and neither is the picture of a lobby.
ASSUME LinesAssumption == Lines \subseteq Bytes
ASSUME TextsAssumption ==
  \A text \in Texts : Prefix \o text \in Bytes /\ Len(Prefix \o text) \in U32
ASSUME BroadcastsAssumption ==
  \A b \in Broadcasts : b.id \in Uuid /\ b.data \in Bytes /\ Len(b.data) \in U32

\* A chatroom has a name that a prompt lets through, and counts of four bytes.
ASSUME LobbiesAssumption ==
  \A pictured \in Lobbies :
    /\ pictured \in Seq([name : Bytes, capacity : U32, num_clients : U32])
    /\ \A i \in DOMAIN pictured : Len(pictured[i].name) \in 1 .. ByteSize - 1
    /\ Len(LobbyBytes(pictured)) \in U32

ASSUME BoundsAssumption == {MaxRequests, MaxTexts, MaxBroadcasts} \subseteq Nat

VARIABLES
  \* the client program
  page,           \* the UIPage, or how the program ended
  asking,         \* in process_request; else it awaits a response
  lobby,          \* the chatrooms that the lobby page lists
  half,           \* what the chat window's current try_parse has read
  \* the keyboard thread of the chat window
  typed,          \* texts on their way to the window
  keyboard_done,  \* the thread has dropped its shutdown sender
  \* the connection
  to_server, to_client,
  \* handle_connection, the read task
  read_pc,
  chatroom,       \* the name of the chatroom whose sender it holds, or empty
  \* client_write_loop, the write task
  write_pc,
  subscribed,     \* it has the broadcast receiver of a chatroom
  main_responses, subscriptions,  \* the main broker's channels to it
  \* for the properties only
  frames_out, responses_out, \* written, and not yet taken at the other end
  picture,        \* the lobby when the server last answered
  misread,        \* something was taken that was not what had been written
  torn,           \* a half-read response was lost
  ended_by,       \* where the program ended with an error, and why
  counts          \* of what the three bounds limit

client_vars == <<page, asking, lobby, half, ended_by>>
keyboard_vars == <<typed, keyboard_done>>
ghosts == <<misread, torn>>
read_vars == <<read_pc, chatroom>>
write_vars == <<write_pc, subscribed>>
channels == <<main_responses, subscriptions>>
server_vars == <<read_vars, write_vars, channels, picture>>
vars ==
  <<client_vars, keyboard_vars, server_vars, to_server, to_client, frames_out,
    responses_out, ghosts, counts>>

Ended == {"QuitLobbyPage", "Failed", "Panicked"}
Open == page \notin Ended

-----------------------------------------------------------------------------
(* The two ends of the connection                                          *)

NoText == <<>>
Frame(kind, text) == [kind |-> kind, text |-> text]
Response(kind, name, data) ==
  [kind |-> kind, name |-> name, data |-> data, id |-> <<>>]

\* to_server.write_all(frame.as_bytes())
SendFrame(f) ==
  /\ to_server' = to_server \o FrameBytes(f)
  /\ frames_out' = Append(frames_out, f)

\* client_stream.write_all(response.as_bytes())
Write(r) ==
  /\ to_client' = to_client \o ResponseBytes(r)
  /\ responses_out' = Append(responses_out, r)

\* A reader takes the value it parsed from the front of what was written.
Takes(out, value) ==
  /\ misread' = (misread \/ out = <<>> \/ Head(out) # value)
  /\ UNCHANGED torn

-----------------------------------------------------------------------------
(* The server                                                              *)

\* The main broker takes the NewClient event: it greets the client, and spawns
\* the write task.
Greet ==
  /\ write_pc = "idle"
  /\ write_pc' = "running"
  /\ main_responses' = Append(main_responses, Response("ConnectionOk", NoText, NoText))
  /\ UNCHANGED <<client_vars, keyboard_vars, read_vars, subscribed, subscriptions,
                 picture, to_server, to_client, frames_out, responses_out, ghosts, counts>>

\* The main broker has ended before the connection was accepted: the read task
\* cannot send the NewClient event, and both clones of the stream are dropped.
TurnedAway ==
  /\ write_pc = "idle" /\ read_pc = "running"
  /\ write_pc' = "done" /\ read_pc' = "done"
  /\ UNCHANGED <<client_vars, keyboard_vars, chatroom, subscribed, channels, picture,
                 to_server, to_client, frames_out, responses_out, ghosts, counts>>

\* The frames that the read task sends on as events: to the chatroom, if it has
\* a sender to one, else to the main broker.
LegalFrames ==
  IF chatroom # NoText THEN {"Message", "Quit"}
  ELSE {"Quit", "Lobby", "Create", "Join", "Username"}

\* What the main broker may answer to an event, other than to open a chatroom.
\* A Quit reaches it from the chatroom as the notice that the client has left.
Answers(f, pictured) ==
  LET told(kind) == Response(kind, f.text, LobbyBytes(pictured))
  IN CASE f.kind = "Username" ->
            {told("UsernameOk"), Response("UsernameAlreadyExists", f.text, NoText)}
       [] f.kind = "Create" -> {told("ChatroomAlreadyExists")}
       [] f.kind = "Join" -> {told("ChatroomDoesNotExist"), told("ChatroomFull")}
       [] f.kind = "Lobby" -> {Response("Lobby", NoText, LobbyBytes(pictured))}
       [] f.kind = "Quit" /\ chatroom # NoText -> {Response("ExitChatroom", chatroom, NoText)}
       [] OTHER -> {}

Answer(f) ==
  /\ \E r \in Answers(f, picture') : main_responses' = Append(main_responses, r)
  /\ chatroom' = IF f.kind = "Quit" THEN NoText ELSE chatroom
  /\ UNCHANGED <<read_pc, subscriptions>>

\* The main broker opens a chatroom to the client: its broadcast receiver goes
\* to the write task, its sender to the read task, which confirms it with a
\* ReadSync event.  Every chatroom has a name that is not empty.
OpenChatroom(f) ==
  /\ f.kind \in {"Create", "Join"} /\ f.text # NoText
  /\ LET opened == IF f.kind = "Create" THEN "ChatroomCreated" ELSE "Subscribed"
     IN subscriptions' = Append(subscriptions, Response(opened, f.text, NoText))
  /\ main_responses' = Append(main_responses, Response("ReadSync", NoText, NoText))
  /\ chatroom' = f.text
  /\ UNCHANGED read_pc

\* A text for the chatroom.
PassOn(f) == f.kind = "Message" /\ UNCHANGED <<read_vars, channels>>

\* The client quits the program, or sends a frame that is illegal here: the
\* read task returns.
Hangup(f) ==
  /\ (f.kind = "Quit" /\ chatroom = NoText) \/ f.kind \notin LegalFrames
  /\ read_pc' = "done"
  /\ UNCHANGED <<chatroom, channels>>

\* The read task takes a frame.  Its event is taken and answered in the same
\* step: the client awaits the answer, and cannot tell when it was decided.
ServerReads ==
  /\ read_pc = "running"
  /\ \E o \in FrameOutcomes(to_server) :
       \/ /\ o.outcome = "parsed"
          /\ to_server' = SubSeq(to_server, o.size + 1, Len(to_server))
          /\ frames_out' = Tail(frames_out)
          /\ Takes(frames_out, o.value)
          /\ picture' \in Lobbies
          /\ \/ /\ o.value.kind \in LegalFrames
                /\ Answer(o.value) \/ OpenChatroom(o.value) \/ PassOn(o.value)
             \/ Hangup(o.value)
       \/ /\ o.outcome = "failed"
          /\ read_pc' = "done"
          /\ UNCHANGED <<chatroom, channels, picture, to_server, frames_out, ghosts>>
  /\ UNCHANGED <<client_vars, keyboard_vars, write_vars, to_client, responses_out, counts>>

\* The read task ends otherwise: the main broker or the chatroom's sub-broker
\* has ended, or the main broker has dropped the sender of chatroom addresses.
ReadEnds ==
  /\ read_pc = "running"
  /\ read_pc' = "done"
  /\ UNCHANGED <<client_vars, keyboard_vars, chatroom, write_vars, channels, picture,
                 to_server, to_client, frames_out, responses_out, ghosts, counts>>

WriteTaskOnly ==
  UNCHANGED <<client_vars, keyboard_vars, read_vars, picture, to_server, frames_out,
              ghosts, counts>>

\* Mutant of WriteAnswer: it goes on listening to the chatroom it has left.
WriteAnswerKeepsReceiver ==
  /\ write_pc = "running"
  /\ main_responses # <<>>
  /\ Write(Head(main_responses))
  /\ main_responses' = Tail(main_responses)
  /\ UNCHANGED <<write_pc, subscribed, subscriptions>>
  /\ WriteTaskOnly

\* The write task writes a response of the main broker: with ExitChatroom it
\* leaves the chatroom's broadcasts.
WriteAnswer ==
  /\ write_pc = "running"
  /\ main_responses # <<>>
  /\ Write(Head(main_responses))
  /\ main_responses' = Tail(main_responses)
  /\ subscribed' = (subscribed /\ Head(main_responses).kind # "ExitChatroom")
  /\ UNCHANGED <<write_pc, subscriptions>>
  /\ WriteTaskOnly

\* It writes the response that came with a broadcast receiver.
WriteSubscription ==
  /\ write_pc = "running"
  /\ subscriptions # <<>>
  /\ Write(Head(subscriptions))
  /\ subscriptions' = Tail(subscriptions)
  /\ subscribed' = TRUE
  /\ UNCHANGED <<write_pc, main_responses>>
  /\ WriteTaskOnly

\* It writes a message of another user of the chatroom.
Broadcast ==
  /\ write_pc = "running" /\ subscribed
  /\ counts.broadcasts < MaxBroadcasts
  /\ counts' = [counts EXCEPT !.broadcasts = @ + 1]
  /\ \E b \in Broadcasts :
       Write([kind |-> "Message", name |-> NoText, data |-> b.data, id |-> b.id])
  /\ UNCHANGED <<client_vars, keyboard_vars, server_vars, to_server, frames_out, ghosts>>

\* The read task has ended: so does the write task, with a last response.
Shutdown ==
  /\ write_pc = "running" /\ read_pc = "done"
  /\ Write(Response("ExitLobby", NoText, NoText))
  /\ write_pc' = "done"
  /\ UNCHANGED <<subscribed, channels>>
  /\ WriteTaskOnly

\* It ends with an error: a channel of the brokers is closed, or a write fails.
WriteFails ==
  /\ write_pc = "running"
  /\ write_pc' = "done"
  /\ UNCHANGED <<subscribed, channels, to_client, responses_out>>
  /\ WriteTaskOnly

-----------------------------------------------------------------------------
(* The pages                                                               *)

LobbyKinds == NamedWithLobby \cup {"Lobby"}
JoinedKinds == {"Subscribed", "ChatroomCreated"}

\* The responses a page takes.  ConfirmPage: the second try_parse of the lobby
\* page, for ReadSync; SubscriptionPage: the one for Subscribed.
Accepts ==
  [WelcomePage |-> {"ConnectionOk"},
   UsernamePage |-> {"UsernameAlreadyExists", "UsernameOk"},
   LobbyPage |-> JoinedKinds \cup {"ReadSync", "ExitLobby", "ChatroomDoesNotExist",
                                   "ChatroomAlreadyExists"},
   ConfirmPage |-> {"ReadSync"},
   SubscriptionPage |-> JoinedKinds,
   Chatroom |-> {"ExitChatroom"},
   QuitChatroom |-> {"Lobby"}]

\* The page that a response leads to.
NextPage(kind) ==
  CASE kind \in {"ConnectionOk", "UsernameAlreadyExists"} -> "UsernamePage"
    [] kind \in LobbyKinds -> "LobbyPage"
    [] kind \in JoinedKinds \cup {"ReadSync"} ->
         IF page # "LobbyPage" THEN "Chatroom"
         ELSE IF kind = "ReadSync" THEN "SubscriptionPage" ELSE "ConfirmPage"
    [] kind = "ExitChatroom" -> "QuitChatroom"
    [] kind = "ExitLobby" -> "QuitLobbyPage"

\* The program ends with an error.
Window == page = "Chatroom" /\ asking
End(how, why) ==
  /\ page' = how /\ asking' = FALSE
  /\ ended_by' = [page |-> IF Window THEN "ChatWindow" ELSE page, why |-> why]
  /\ UNCHANGED lobby

\* state_from_response on a response that was parsed.
React(response) ==
  LET kind == response.kind
      parsed == LobbyPicture(response.data)
  IN IF kind \notin Accepts[page] THEN End("Failed", kind)
     ELSE IF kind \in LobbyKinds /\ ~parsed.ok THEN End("Failed", "unparsable")
     ELSE /\ page' = NextPage(kind)
          /\ asking' = (page' \notin {"ConfirmPage", "SubscriptionPage", "QuitLobbyPage"})
          /\ lobby' = IF kind \in LobbyKinds THEN parsed.chatrooms ELSE {}
          /\ UNCHANGED ended_by

\* The program awaits a response and reads it whole.
ReadResponse ==
  /\ Open /\ ~asking
  /\ \E o \in ResponseOutcomes(to_client) :
       \/ /\ o.outcome = "parsed"
          /\ to_client' = SubSeq(to_client, o.size + 1, Len(to_client))
          /\ responses_out' = IF responses_out = <<>> THEN <<>> ELSE Tail(responses_out)
          /\ Takes(responses_out, o.value)
          /\ React(o.value)
       \/ /\ o.outcome \in {"failed", "panicked"}
          /\ End(IF o.outcome = "failed" THEN "Failed" ELSE "Panicked", "unparsable")
          /\ UNCHANGED <<to_client, responses_out, ghosts>>
  /\ UNCHANGED <<half, keyboard_vars, server_vars, to_server, frames_out, counts>>

\* Mutant of AcceptsLine: names of one byte too many.
AcceptsLineLate(line) == Len(line) \in 1 .. ByteSize

\* Mutant of AcceptsLine: an empty name.
AcceptsLineEmpty(line) == Len(line) < ByteSize

\* The prompts refuse an empty line and one longer than 255 bytes.
AcceptsLine(line) == Len(line) \in 1 .. ByteSize - 1

\* A page sends its request and awaits the response.
Request(at, f) ==
  /\ page = at /\ asking
  /\ SendFrame(f)
  /\ asking' = FALSE
  /\ UNCHANGED <<page, lobby, half, ended_by, keyboard_vars, server_vars, to_client,
                 responses_out, ghosts>>

\* username_process_request_helper, lobby_process_request_helper with c
RequestName(at, kind) ==
  /\ counts.requests < MaxRequests
  /\ counts' = [counts EXCEPT !.requests = @ + 1]
  /\ \E line \in Lines : AcceptsLine(line) /\ Request(at, Frame(kind, line))

\* The name of a listed chatroom.
RequestJoin ==
  /\ counts.requests < MaxRequests
  /\ counts' = [counts EXCEPT !.requests = @ + 1]
  /\ \E c \in lobby : Request("LobbyPage", Frame("Join", c.name))

\* q in the lobby; and, after a chatroom, the lobby is asked for.
RequestQuit == Request("LobbyPage", Frame("Quit", NoText)) /\ UNCHANGED counts
RefreshLobby == Request("QuitChatroom", Frame("Lobby", NoText)) /\ UNCHANGED counts

-----------------------------------------------------------------------------
(* The chat window                                                         *)

\* keyboard_input_task: Enter sends what was typed.
TypeText ==
  /\ Window /\ ~keyboard_done
  /\ counts.texts < MaxTexts
  /\ counts' = [counts EXCEPT !.texts = @ + 1]
  /\ \E text \in Texts : typed' = Append(typed, text)
  /\ UNCHANGED <<client_vars, keyboard_done, server_vars, to_server, to_client,
                 frames_out, responses_out, ghosts>>

\* Ctrl-q, or the end of standard input: the thread ends.  Its shutdown sender
\* is dropped first, then the sender of texts.
PressQuit ==
  /\ Window /\ ~keyboard_done
  /\ keyboard_done' = TRUE
  /\ UNCHANGED <<client_vars, typed, server_vars, to_server, to_client,
                 frames_out, responses_out, ghosts, counts>>

\* Another branch of select! wins: the unfinished try_parse is dropped.
DropHalf ==
  /\ half' = <<>>
  /\ torn' = (torn \/ half # <<>>)
  /\ UNCHANGED misread

\* The keyboard branch: a text goes to the server.
SendText ==
  /\ Window /\ typed # <<>>
  /\ SendFrame(Frame("Message", Prefix \o Head(typed)))
  /\ typed' = Tail(typed)
  /\ DropHalf
  /\ UNCHANGED <<page, asking, lobby, ended_by, keyboard_done, server_vars, to_client,
                 responses_out, counts>>

\* The server branch reads one more byte; with the last one of a response the
\* branch wins.  A message is shown, anything else ends the program.
ReadByte ==
  /\ Window /\ to_client # <<>>
  /\ to_client' = Tail(to_client)
  /\ LET read == Append(half, Head(to_client))
     IN \E o \in ResponseOutcomes(read) :
          \/ /\ o.outcome = "unfinished"
             /\ half' = read
             /\ UNCHANGED <<page, asking, lobby, ended_by, responses_out, ghosts>>
          \/ /\ o.outcome = "parsed"
             /\ half' = <<>>
             /\ responses_out' = IF responses_out = <<>> THEN <<>> ELSE Tail(responses_out)
             /\ Takes(responses_out, o.value)
             /\ IF o.value.kind = "Message" THEN UNCHANGED <<page, asking, lobby, ended_by>>
                ELSE End("Failed", o.value.kind)
          \/ /\ o.outcome \in {"failed", "panicked"}
             /\ End(IF o.outcome = "failed" THEN "Failed" ELSE "Panicked", "unparsable")
             /\ half' = <<>>
             /\ UNCHANGED <<responses_out, ghosts>>
  /\ UNCHANGED <<keyboard_vars, server_vars, to_server, frames_out, counts>>

\* Mutant of CloseWindow: the loop goes on after the Quit frame.
CloseWindowNoBreak ==
  /\ Window /\ keyboard_done
  /\ SendFrame(Frame("Quit", NoText))
  /\ typed' = <<>> /\ keyboard_done' = FALSE
  /\ DropHalf
  /\ UNCHANGED <<page, asking, lobby, ended_by, server_vars, to_client, responses_out, counts>>

\* Mutant of CloseWindow: it closes without a Quit frame.
CloseWindowSilently ==
  /\ Window /\ keyboard_done
  /\ asking' = FALSE
  /\ typed' = <<>> /\ keyboard_done' = FALSE
  /\ DropHalf
  /\ UNCHANGED <<page, lobby, ended_by, server_vars, to_server, frames_out, to_client,
                 responses_out, counts>>

\* The shutdown branch, or the keyboard branch with no text and no sender left:
\* the window closes, whatever is still typed.
CloseWindow ==
  /\ Window /\ keyboard_done
  /\ SendFrame(Frame("Quit", NoText))
  /\ asking' = FALSE
  /\ typed' = <<>> /\ keyboard_done' = FALSE
  /\ DropHalf
  /\ UNCHANGED <<page, lobby, ended_by, server_vars, to_client, responses_out, counts>>

-----------------------------------------------------------------------------
(* The end of the connection                                               *)

\* Both tasks have ended: the server's end of the connection is closed.  A read
\* fails behind the last byte, or at once, since the server closed with frames
\* unread; a write fails.
ConnectionFails ==
  /\ Open
  /\ read_pc = "done" /\ write_pc = "done"
  /\ asking \/ to_server # <<>> \/ Unfinished \in ResponseOutcomes(to_client)
  /\ End("Failed", "closed")
  /\ half' = <<>>
  /\ UNCHANGED <<keyboard_vars, server_vars, to_server, to_client, frames_out,
                 responses_out, ghosts, counts>>

-----------------------------------------------------------------------------

Init ==
  /\ page = "WelcomePage" /\ asking = FALSE
  /\ lobby = {} /\ half = <<>> /\ ended_by = [page |-> "none", why |-> "none"]
  /\ typed = <<>> /\ keyboard_done = FALSE
  /\ to_server = <<>> /\ to_client = <<>>
  /\ read_pc = "running" /\ chatroom = NoText
  /\ write_pc = "idle" /\ subscribed = FALSE
  /\ main_responses = <<>> /\ subscriptions = <<>>
  /\ picture = <<>>
  /\ frames_out = <<>> /\ responses_out = <<>>
  /\ misread = FALSE /\ torn = FALSE
  /\ counts = [requests |-> 0, texts |-> 0, broadcasts |-> 0]

ReadNext == ServerReads \/ ReadEnds
WriteNext == WriteAnswer \/ WriteSubscription \/ Broadcast \/ Shutdown \/ WriteFails
ServerNext == Greet \/ TurnedAway \/ ReadNext \/ WriteNext

UserNext ==
  \/ RequestName("UsernamePage", "Username") \/ RequestName("LobbyPage", "Create")
  \/ RequestJoin \/ RequestQuit \/ TypeText \/ PressQuit

Next ==
  \/ ServerNext \/ UserNext
  \/ ReadResponse \/ RefreshLobby \/ SendText \/ ReadByte \/ CloseWindow
  \/ ConnectionFails

Spec == Init /\ [][Next]_vars

\* select! picks among its ready branches at random, so none that stays ready
\* is passed over for ever.  Nobody has to type or to write, to be greeted or to
\* be cut off; but once the write task has ended the main broker drops what it
\* keeps of the client, and the read task ends too.
Fairness ==
  /\ WF_vars(ServerReads) /\ WF_vars(WriteAnswer \/ WriteSubscription \/ Shutdown)
  /\ WF_vars(write_pc = "done" /\ ReadEnds)
  /\ WF_vars(ReadResponse) /\ WF_vars(RefreshLobby)
  /\ WF_vars(SendText) /\ WF_vars(ReadByte) /\ WF_vars(CloseWindow)
  /\ WF_vars((~asking \/ Window) /\ ConnectionFails)

FairSpec == Spec /\ Fairness

=============================================================================

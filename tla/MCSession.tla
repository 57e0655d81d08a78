----------------------------- MODULE MCSession ------------------------------
(***************************************************************************)
(* What one client's session must and must not do, and an instance of it   *)
(* for TLC: bytes of 16 values, names of one byte and of the greatest      *)
(* length, one byte more, and none.                                        *)
(***************************************************************************)
EXTENDS Session

Short == <<1>>
Longest == [i \in 1 .. ByteSize - 1 |-> 2]
TooLong == [i \in 1 .. ByteSize |-> 2]
ModelLines == {NoText, Short, Longest, TooLong}
ModelTexts == {<<3>>, <<ByteSize - 1>>}
ModelPrefix == Longest \o <<0, 0>>
Chatroom(name, num_clients) ==
  [name |-> name, capacity |-> ByteSize + 2, num_clients |-> num_clients]
ModelLobbies == {<<>>, <<Chatroom(Longest, 3), Chatroom(Short, 1)>>}
ModelBroadcasts == {[id |-> [i \in 1 .. 16 |-> i % ByteSize], data |-> <<4, 5>>]}

-----------------------------------------------------------------------------
(* Types                                                                   *)

FrameRecord == [kind : {FrameKinds[i] : i \in DOMAIN FrameKinds}, text : Bytes]
NewName(f) ==
  f.kind \in {"Username", "Create"} => Len(f.text) \in 1 .. ByteSize - 1
ResponseRecord ==
  [kind : {ResponseKinds[i] : i \in DOMAIN ResponseKinds}, name : Bytes,
   data : Bytes, id : Uuid \cup {<<>>}]
ChatroomRecord == [name : Bytes, capacity : Nat, num_clients : Nat]

ProgramPages == DOMAIN Accepts \cup {"ChatWindow"}
EndRecord ==
  [page : ProgramPages \cup {"none"},
   why : {ResponseKinds[i] : i \in DOMAIN ResponseKinds}
           \cup {"none", "unparsable", "closed"}]

\* Every variable has its type, and every new name on its way has a length that
\* the prompts let through: it is not empty, and one byte holds its length.
TypeOK ==
  /\ page \in DOMAIN Accepts \cup Ended
  /\ {asking, keyboard_done, subscribed, misread, torn} \subseteq BOOLEAN
  /\ \A c \in lobby : c \in ChatroomRecord
  /\ \A i \in DOMAIN picture : picture[i] \in ChatroomRecord
  /\ {half, to_server, to_client, chatroom} \subseteq Bytes
  /\ typed \in Seq(Texts)
  /\ read_pc \in {"running", "done"} /\ write_pc \in {"idle", "running", "done"}
  /\ frames_out \in Seq(FrameRecord)
  /\ \A i \in DOMAIN frames_out : NewName(frames_out[i])
  /\ {responses_out, main_responses, subscriptions} \subseteq Seq(ResponseRecord)
  /\ ended_by \in EndRecord
  /\ counts \in [requests : 0 .. MaxRequests, texts : 0 .. MaxTexts,
                 broadcasts : 0 .. MaxBroadcasts]

-----------------------------------------------------------------------------
(* The streams                                                             *)

BytesOf(values, Encoded(_)) ==
  FlattenSeq([i \in DOMAIN values |-> Encoded(values[i])])

\* The bytes on their way to the client are those of the responses it has not
\* taken, and it took what was written.
ResponsesFramed ==
  /\ ~misread
  /\ Open => half \o to_client = BytesOf(responses_out, ResponseBytes)

\* As long as no half-read response was lost, client and server agree on where
\* each response ends and on what it says: for names of every length that the
\* prompts let through.
ResponsesArrive == torn \/ ResponsesFramed

\* chat/mod.rs:88: the window "receives messages from both the server the
\* client is connected to as well as the client itself": whatever the client
\* types meanwhile, each response that is parsed is one the server wrote.
MessagesReceived == ~misread /\ page # "Panicked"

\* The server takes the frames that the client sent, one by one.
FramesArrive ==
  /\ torn \/ ~misread
  /\ to_server = BytesOf(frames_out, FrameBytes)

\* Nothing follows a Quit frame until the server has answered it, as long as
\* no half-read response was lost.
QuitIsLast ==
  torn \/ \A i \in DOMAIN frames_out :
            frames_out[i].kind = "Quit" => i = Len(frames_out) /\ ~asking

\* The lobby page lists the chatrooms that the server listed.
LobbyShown ==
  page = "LobbyPage" /\ asking /\ ~torn => lobby = {picture[i] : i \in DOMAIN picture}

\* A session ends with an error for a reason that is known.
ExplainedEnds ==
  \* the page has no case for the refusal of a full chatroom, which lib.rs:189
  \* calls "A response informing the client"
  {[page |-> "LobbyPage", why |-> "ChatroomFull"]}
  \* a message of the chatroom between Subscribed and ReadSync, and after Ctrl-q
    \cup [page : {"ConfirmPage", "Chatroom"}, why : {"Message"}]
  \* the server ends the connection
    \cup [page : ProgramPages \ {"LobbyPage"}, why : {"ExitLobby"}]
    \cup [page : ProgramPages, why : {"closed"}]

\* The program ends with an error only after it lost a half-read response, or
\* for one of the reasons above: no page meets another response that it does not
\* take, no picture of the lobby is misread, and with ExitLobby in the lobby it
\* ends as it should, whatever ends the server's two tasks and when.
EndsExplained == page \in {"Failed", "Panicked"} => torn \/ ended_by \in ExplainedEnds

\* After Ctrl-q the user is back in the lobby, or the program ends: whatever the
\* window is reading, whatever else arrives and whether or not the server goes
\* on, the program is not left waiting, unless a half-read response was lost.
QuitReturns ==
  (Window /\ keyboard_done) ~> (~Open \/ torn \/ (page = "LobbyPage" /\ asking))

=============================================================================

# A verification of rusty_chat

rusty_chat is a terminal chat: a server that runs every chatroom as a task of
its own, and a client program that turns the terminal into a small user
interface. This directory holds a TLA+ model of both, from the user's key press
to the broadcast, the TLC configurations that check it on small instances, and
theorems about it that TLAPS proves for every size.

Paths below are relative to the repository; `handlers` is
`src/bin/server_handlers/mod.rs`, `ui_page` is
`src/bin/interface/ui_page/mod.rs`.

## 1. Inventory

| Component | Code | State it keeps | Operations |
| --- | --- | --- | --- |
| accept loop | `server.rs:36` | the listener, a sender of the broker's events | spawn a read task per connection |
| read task | `server.rs:69` (`handle_connection`) | the current chatroom's address | frame to event; take a chatroom's address; end |
| write task | `server.rs:218` (`client_write_loop`) | a broadcast receiver | write a response, a broadcast, a subscription; end |
| main broker | `server.rs:387` (`broker`), `handlers` | clients, user names, chatrooms, chatroom names | new client, user name, lobby, create, join, read sync, quit; client exit; harvest a client, a chatroom |
| chatroom sub-broker | `server.rs:670` (`chatroom_broker`) | none | broadcast a message, report an exit, shut down |
| client user interface | `src/bin/interface/mod.rs`, `ui_page` | the page, the lobby it shows | react to a response, ask the user, send a frame |
| chat window | `ui_page/chat/mod.rs` | the last nine messages, a half-read response | send what is typed, show what arrives, leave on Ctrl-q |
| keyboard thread | `ui_page/chat/mod.rs:28` | the line being typed; a channel for lines, one that closes on Ctrl-q | type, enter, quit |
| wire protocol | `src/lib.rs` | none | frames, events and responses to and from bytes |
| graceful shutdown | `server.rs:636-657`, `:49-60` | none | drain the harvest channels |

**How they interact.** A connection has two tasks. The read task turns each frame
into an event and sends it on a bounded channel, to the main broker from the
lobby, to the chatroom's sub-broker from a chatroom. The main broker answers on
an unbounded channel to the write task. When it puts a client in a chatroom it
sends two messages: the sub-broker's address to the read task, a broadcast
receiver to the write task. The read task confirms with a `ReadSync` event that
the broker turns into a response; the client program enters the chatroom when it
has seen both `Subscribed` (or `ChatroomCreated`) and `ReadSync`. In the chatroom, a
blocking thread reads the keyboard and hands lines to the chat window, which
also reads the socket. To leave, the client's `Quit` goes to the sub-broker, which tells the main broker on a third
channel, which answers `ExitChatroom` and frees the place. A read task that ends
drops a channel its write task watches; a write task that ends sends its
receivers to the main broker, which harvests the client; a chatroom without
clients has its shutdown sender dropped, ends, and is harvested likewise.

**What is hard.** Five kinds of task run in parallel and share no memory, but
each learns of a change on a channel of its own, and `select!` picks among ready
channels at random. So one event is seen by different tasks in different orders;
a client may be gone while its events and its exit are still queued; a suspended
send stops a task from reading; a `select!` that picks another branch drops
what an unfinished read has taken from the socket; and any disagreement the main broker finds in its
maps ends the whole server (`?` on every handler, `server.rs:581-633`).

**What makes each part correct.**

- main broker: its maps agree; capacity is kept; it never reports a `StateError`
  or an `IllegalEvent`, whatever its clients do.
- read task: a client that speaks the protocol never meets an illegal frame; no
  frame is dropped half-read; a suspended send gets through.
- write task: its receivers outlive the broker's senders; messages keep their
  order and their chatroom; it ends after the read task.
- sub-broker: it ends when its chatroom is empty, not before.
- client program: every request is answered, by something the page accepts; the
  chat window closes on Ctrl-q, and nothing follows its `Quit`.
- wire protocol: both ends agree where each message ends and what it says, for
  every name the prompts let through.
- the whole: one directory of who is online, under which name and in which
  chatroom, that changes in one step.

The hazards, each with the line where it bites and the properties that watch it,
are listed in `PROJECT.json`.

## 2. The modules

Each module up to `MCChatServer` extends the ones before it where it needs to;
`Directory` stands alone, and `Session` extends `Codec`.

| Module | Models | How |
| --- | --- | --- |
| `Protocol` | `Frame`, `Event`, `Response` of `src/lib.rs` | records with a `kind`; names are model values; a lobby picture is a set of names |
| `ChatState` | all state: tasks, channels, sockets | one variable per local, map or channel, named after it |
| `MainBroker` | `broker` and the handlers | one action per `select!` branch and per event |
| `ReadTask` | `accept_loop`, `handle_connection` | one action per frame, address or end of the stream; `outgoing` holds a suspended send |
| `WriteTask` | `client_write_loop` and its task | one action per `select!` branch and for a failure |
| `ChatroomBroker` | `chatroom_broker` and its task | message, quit, shutdown |
| `ClientUI` | `Interface::run`, `UIPage`, the chat window | one action per response and per request; `page` and `step` say where the program is |
| `ChatServer` | the composition | `Init`, `Next`, `Spec`, the fairness, `FairSpec` |
| `ChatProperties` | what must hold | the type invariant, safety, action and liveness properties |
| `MCChatServer` | instances for TLC | small sets, symmetry |
| `Directory` | what the main broker promises | an abstract specification of four variables, implemented by `ChatServer` |
| `Codec` | tags, lengths and `try_parse` of `Frame`, `Response`, `Chatroom` | functions on sequences of bytes; a parse has every outcome the code can produce |
| `Session` | one client program, its keyboard thread, its connection, and the server's read and write task of it | the pages and both tasks again, on bytes; one action per branch of each `select!` |
| `MCSession` | what a session must not do, and its instance | bytes of 16 values, names of extreme lengths |
| `TypeProofs`, `RegistryProofs`, `ExitProofs`, `HandoverProofs`, `SurvivalProofs`, `OrderProofs`, `CodecProofs`, `SessionProofs` | theorems | see section 5 |

Some correspondences deserve a word.

- **The broker's maps.** `clients` is the key set of the map; `username` and
  `chatroom_broker_id` are the two fields of `Client` that change.
  `chatroom_brokers` is a key set too, `num_clients` and `chatroom_name` the
  fields of `Chatroom`. A chatroom's id is the next number: ids are never reused.
- **One event is one step of the broker.** The broker sends only on unbounded
  channels, which never wait, so no other task sees a handler half done in a way
  that matters: every message it sends is in a queue of its own.
- **Channels.** A sequence each. A channel is closed when the variable that says
  who holds its other end says so: `IsClosed` (a read task's sends),
  `ResponsesClosed`, `BroadcastClosed` (a write task's receivers),
  `ChatroomChannelClosed`. The NewClient event holds the stream, so a connection
  whose event is still queued is not closed (`ServerClosed`).
- **The broadcast channel.** Each receiver has its share of the ring buffer and a
  flag for the lag it will report; a receiver that waits in a queue, or in the
  hands of a write task that ended, still counts as one.
- **The socket.** A sequence per direction. A client that closes its end with
  responses unread may reset the connection, which may overtake its frames.
- **How the broker ends.** Every `return Err` is a value of `broker_pc`. The
  broker's locals are dropped in the same step (`BrokerFails`).
- **A dead client program.** `Crashed` is a program that met a response it does
  not expect, `Gone` one that lost its connection or was killed. The model then
  forgets the counters it keeps for it.
- **The directory.** `Dir` in `ChatProperties` maps `ChatServer` to `Directory`:
  a peer's `room` is the name of the chatroom its entry in the broker's map
  points to. Ids, counts and the maps from names to ids disappear, so that
  `Occupants(name) = {}` is what the look-up of a name must amount to.
- **Two levels of the client program.** `ChatServer` has whole messages, several
  clients and every task; `Session` has bytes, one client, and the two tasks of
  its connection. The write task has its two channels for answers
  (`main_responses`, `subscriptions`) and the broadcasts, and takes from any that
  is ready: the two responses that open a chatroom come in either order, with
  messages before, between and after them. Left open in `Session` is what the
  brokers decide (`Answers`, `OpenChatroom`: any answer that a frame may get in
  `ChatServer`), when other users write (`Broadcast`), and when either task ends
  by itself (`ReadEnds`, `WriteFails`). An event and its answer are one step with
  the frame they come from, for the client cannot tell when they happened.
- **Half-read responses.** `try_parse` reads from the socket as it goes. Outside
  the chat window it is awaited to its end, so `ReadResponse` takes a whole
  response; inside, `ReadByte` adds a byte to `half`, and a branch that wins
  drops it (`DropHalf`). Some variables serve the properties only: what was
  written and not yet taken at each end, whether something else was taken
  (`misread`), whether a half was dropped (`torn`), and on which page and for
  which response or other reason the program ended with an error (`ended_by`).
- **Bytes.** `ByteSize` is how many values a byte has. Nothing in `Codec` depends
  on 256 but the type flags, which need 14. A byte of the upper half may be part
  of a character or not, so a parse of a text with one may fail or succeed.

## 3. The runs

`tlc -config <run>.cfg MCChatServer`, and `MCSession` for `session` and
`torn_response`. Every run checks `Spec` or `FairSpec` of `ChatServer` or of
`Session`. No run checks for deadlock: users need not connect, answer a prompt or
leave, so the system may rest. What must not wait is stated as a liveness
property.

| Run | Instance | States | Shows |
| --- | --- | --- | --- |
| `core` | 2 clients, 2 chatroom names, buffers of 2, 2 messages and 1 request per user, either client may be killed at any time | 1.9 M | types; the maps agree; no corruption; senders do not outlive receivers; messages in order and in their chatroom; the server ends only after some client program did |
| `rejoin` | 2 clients, 1 name, 2 requests each, buffers of 1, 1 message, nobody is killed | 1.1 M | no illegal frame or event, no torn frame, both halves of a connection tied to the same chatroom |
| `capacity` | 3 clients with a user name each, 1 name, capacity 2, buffers of 1, no messages | 0.6 M | the capacity is kept when clients race for the last place; every step is one step of `Directory` or a stutter |
| `liveness` | 2 clients with a user name each, 1 message, 1 request, nobody is killed, `FairSpec` | 78 K | clients and chatrooms are cleaned up, waiting clients are answered |
| `suspension` | the same, and one client may be killed | 256 K | a suspended read task gets through, or finds the channel closed |
| `session` | `Session` with bytes of 16 values, names of 1, 15 and 16 bytes, a lobby of none or two chatrooms, 3 names asked for, 1 text typed, 2 messages of others, either task of the server may end at any time, `FairSpec` | 551 K | both ends agree on every frame and response; the lobby is shown as it was sent; nothing follows a `Quit`; the program ends with an error for known reasons only; after Ctrl-q the user is back in the lobby or the program ends |

**Bounds, and why they are enough.** Two clients give every order of two tasks'
messages, which is all that the properties of a connection or a chatroom relate;
a third is needed to find a chatroom full, so `capacity` has three. Two names
(`core`) let a client create one chatroom while another one closes. Buffers of 1
make every channel full in a few steps (suspended sends, a lagging receiver); 2
lets events queue behind one another. Two requests per user let a client leave a
chatroom and enter it, or another, while remains of the first visit are still
queued. Two messages suffice to be out of order. In `suspension` a killed client
can leave a send suspended on the full channel of a chatroom that everyone else
leaves: only the harvest of the sub-broker frees it. `MaxRooms` is large enough
for every request to create a chatroom, and a named assumption says so.
`MaxMessages` and `MaxRequests` are the only guards that the code does not have.
The runs in which nobody is killed still have programs that crash or lose their
connection. Symmetry is used in runs without liveness only.

In `session` a byte has 16 values so that the extremes are short: the longest
name a prompt lets through has 15 bytes, the next one (which a prompt must
refuse) no longer fits a length of one byte, and a message with a user name in
front needs two bytes for its length. Two chatrooms make the lobby's parser go
round, none makes it meet the end at once. Three names are a user name, a
chatroom and a second one; two messages of others are one to lose half of and
one to misread.

Each property has a mutant of the code under `mutants` in `PROJECT.json`: a
plausible slip in one action (a missing removal, a test one too late, a swapped
end of a queue) under which the same run finds the property violated.

### What the code does not keep

Six runs check a statement of the source's own comments, and TLC finds it
violated; each takes a few seconds.

| Run | Statement | What happens |
| --- | --- | --- |
| `early_message` | `ui_page:216`: ReadSync "should be the only response that the client receives during this state" | a message of the new chatroom may come first, and the client ends |
| `late_message` | `ui_page:308`: after Ctrl-q, "just ... ensure the client receives a ExitChatroom response" | a message may come first, and the client ends |
| `last_leaver` | `server.rs:405`: the broker sends "an ExitChatroom response to the client that has exited" | the write task of a chatroom's last client may see the closed broadcast first, and ends with the response unread |
| `torn_response` | `ui_page/chat/mod.rs:88`: the window "receives messages from both the server the client is connected to as well as the client itself" | a text or Ctrl-q while a response has arrived in part drops that part, and the rest is parsed as a new response |
| `event_after_harvest` | `handlers:69`: "ensure client is a valid connected client"; `server.rs:536`: "Ensure we have a client with peer_id" | a dead client's queued request, or the notice that it left its chatroom, ends the main broker |
| `deserted_room` | `server.rs:498`: the chatroom "should no longer exist in map" | a message after the last member's death ends the sub-broker too early, and with it the main broker |

The last two end the server for everybody. `BrokerOutlivesClients` of `core`
shows the other side: while every client program is up, the server is too. Note
that the first four end client programs, so an ordinary evening of chat is enough
to get there.

`EndsExplained` of `session` puts bounds on what the runs on client programs find.
Unless a half-read response was lost, a program ends with an error only for
`ChatroomFull` in the lobby, for a message between `Subscribed` (or
`ChatroomCreated`) and `ReadSync` or after Ctrl-q, or because the server ended the
connection: by `ExitLobby` on a page other than the lobby, or with no response.

Three weaknesses are in the models without a run of their own. `event_after_harvest`
stops at the shortest behaviour, a request; with `"NoSuchClient"` left out of
`EventsOfListedClients`, TLC shows a client that presses Ctrl-q, loses its
connection, and is harvested before the notice of its exit. The lobby page has no
case for `ChatroomFull` (`ui_page:301`), which `lib.rs:189` calls "A response
informing the client": who finds a chatroom full is not informed, the program ends.
And the server accepts `-c 0`, with which the test for equality at `handlers:200`
never holds, so that nothing limits a chatroom.

## 4. Fairness

`FairSpec` adds, for every task:

- weak fairness of each branch of its `select!`. The tasks are scheduled by
  async-std's executor, and `select!` of the futures crate picks among the ready
  branches at random, so a branch that stays ready is not passed over for ever;
- strong fairness of a suspended send. The channel's event listener wakes its
  waiters in the order they came, so a task does not miss every free slot;
- weak fairness of what a client program does by itself: read a response, ask for
  the lobby after it left a chatroom.

There is none on the users, who may never type, leave or connect, and none on a
write to a dead connection, which happens only if a user answers a prompt. The
liveness properties ask for nothing that depends on them. `Answered` excuses the
clients of a main broker that has ended: a NewClient event that is queued then
holds its connection open in a channel that nobody reads. A connection accepted
later fares better: the send at `server.rs:100-102` fails, and it is dropped.

`FairSpec` of `Session` is weak fairness of the read task's frames, of the write
task's answers and its shutdown, of whole reads, of each branch of the chat window,
of the request for the lobby after a chatroom, and of finding the connection closed
while the program awaits a response or is in the window. A read task also ends once
the write task has: the main broker harvests the client and drops the sender of
chatroom addresses. There is none on typing, on Ctrl-q, on the messages of others,
on the greeting, or on the server cutting a client off. `QuitReturns` needs most of
it: the window closes, the `Quit` is read, `ExitChatroom` is written behind whatever
else is, the lobby is asked for and shown; or some task ends on the way, and the
other one follows until the program finds the connection closed.

## 5. The proofs

`tlapm <module>.tla`. Nothing is assumed but the named assumptions on the
constants: sets of names without `None`, a buffer of at least one message, a
capacity that is any number, finitely many peers; for the session, texts of
bytes whose lengths the four bytes of a tag hold, chatrooms whose names a prompt
lets through (`LinesAssumption` to `BoundsAssumption`). They hold in the code, with
one exception: `-b 0` is accepted by the command line, and panics when a channel is
made.

- `TypeProofs`: every action keeps `TypeOK`, one lemma per task. What the maps,
  events and queues are made of (`EventParts` and others) is used everywhere else.
- `RegistryProofs`, about the main broker:
  - `TypeCorrect`: `Spec => []TypeOK`.
  - `RegistryAgrees`: `Spec => []RegistryInv`. The counts, the two chatroom maps,
    the clients' chatrooms and the set of user names agree. `RegistryInv` alone is
    not inductive: `Create` inserts an id that must not be in the map already. The
    inductive `RegistryIInv` adds `UnbornUnlisted`, an id not yet minted is not in
    the map, and the types. Most of the work is counting: a client that joins
    makes its chatroom's members one more, one that leaves one fewer, whichever of
    the paths it takes (`FiniteSetTheorems`).
  - `NeverOverCapacity`: `Spec => []CapacityRespected`, for every capacity but 0
    (with 0 nobody is ever refused). It follows from the test for equality
    only because a count goes up one at a time, and starts at 1.
  - `SendersNeverDangle`: `Spec => []ClientsOutlived`. This is the guarantee of
    the comments at `server.rs:394` and `:438`: as long as a client is in the map
    the broker's sends to its write task succeed. The strengthening is
    `WritersListed`: while the broker runs, a running write task's client is in
    the map, so that a task that ends hands in a notice for a listed client, once.
    Both together are `TasksIInv` (`TasksInductive`).
  - `DirectoryImplemented`: `Spec => ImplementsDirectory`. Every step of
    `ChatServer` is a step of `Directory` or a stutter. The work is in the two
    directions of `OccupantsAreMembers`: a name is in the map exactly if its
    chatroom has occupants, and their number is the count that `Join` tests. It
    rests on `RegistryIInv`, carried along as `DirectoryIInv` with the capacity.
- `ExitProofs`, about a client's way out of its chatroom:
  - `NeverCorrupt`: `Spec => []NoCorruption`. The broker's errors other than those
    of a late request or notice never happen. `NoCorruption` says what the broker
    did not do, so the strengthening `ExitIInv` says why. The right to exit a
    chatroom goes through five hands: as the chatroom's address it waits for the
    read task (`AddressWaits`), the read task holds it, a suspended `Quit` has it,
    the `Quit` waits for the sub-broker, and the sub-broker's notice waits for the
    main broker. It is in one hand at a time (`OneHand`) and once in every queue
    (`OnceQueued`); a client is greeted once, before it may enter a chatroom
    (`GreetedOnce`); and a listed client that may exit is in a chatroom
    (`ExitsItsRoom`). TLC checked `ExitIInv` on the instances of `core` and
    `rejoin` before it was proved. Most steps bring a client nothing, which
    `Loses` says once for all of them; the few that move the right from one hand
    to the next have a lemma each. `RegistryAgrees` and `SendersNeverDangle` give
    the errors about counts, chatrooms and harvested tasks.
- `HandoverProofs`, about a client between the lobby and a chatroom:
  - `TurnsAreTaken`: `Spec => []HandIInv`, and from it `FramesAreLegal`,
    `EventsAreLegal`, `FramesAreWhole` and `WindowIsWired`
    (`NoIllegalFrame`, `NoIllegalEvent`, `NoTornFrame`, `WiringAgrees`). None of
    the four is inductive: that the next frame is legal depends on what the user
    was shown, which depends on what the main broker answered, and so on back to
    the frame before. What carries them is that client and server take turns.
    The turn is in one of ten `Places`: with a connection not yet made, the user,
    a frame, a suspended send, an event, a `Quit` for a sub-broker, an exit
    notice, an answer of the broker, a chatroom's address or a response. It has
    one of six `Sorts`, which say what it carries. `OneTurn` says that there is
    one turn, `Once` that it is once in every queue, `TurnFits` that its sort
    agrees with the read task's address and with the broker's maps, `Shape` what
    else each place may hold, and `Wired` that whatever is tied to a chatroom is
    tied to the one in the map. Messages of the chat window take no turn, and the
    response that opens a chatroom travels beside it (`OpeningOnce`).
    TLC checked `HandIInv` on the instances of `core` and `rejoin` before it was
    proved. The steps that do not concern a client's turn are `Quiet`, and
    `QuietKeeps` treats them all, the end of a task and of the main broker among
    them; a step that moves the turn is an instance of `TurnMoves`. There is one
    lemma for each kind of task.
- `SurvivalProofs`, what follows from taking turns:
  - `ReceiversAreTied`: `Spec => []ReceiverIInv`, and from it `OldRoomsAreSilent`
    (`NoStrayMessage`). A client that leaves its chatroom has a write task that is
    still subscribed to it, and a sub-broker that may still send. `Tied` says that
    the task's receiver is that of the client's chatroom, or that the answer to
    its exit is on its way; `Told`, that a task which has written `ExitChatroom`
    is deaf, with no receiver and nothing buffered, until another chatroom opens.
  - `EveryClientIsServed`: `Spec => []SurvivalIInv`, and from it
    `BrokerSurvivesClients` (`BrokerOutlivesClients`): as long as every client
    program is up, no order of events makes the main broker fail. A failure is for
    good, so while all are up they always were. For each of the broker's errors
    something must be known of every client at every place where its turn may be:
    `TurnServed` says that the client is about to depart, or is listed with both
    tasks running, or is not known yet and sends its greeting, or is one whose
    write task may have ended while the answer that it left its chatroom is still
    to come (`LosesAnswer`). `Hears` says that a client in a chatroom has a
    receiver: a broadcast to nobody ends the sub-broker, and the main broker fails
    when it harvests a chatroom that is still in its map. `RoomsLast` says that a
    sub-broker ends only when its chatroom is out of the map, `Homed` that a client
    whose tasks have ended is in no chatroom, and `SaysGoodbye` that `ExitLobby` is
    the last answer. TLC checked both invariants on the instances of `core` and
    `rejoin`.
- `OrderProofs`, about a message on its way:
  - `MessagesOnTheWay`: `Spec => []OrderIInv`, and from it `MessagesStayInOrder`
    (`MessagesInOrder`). A message passes six `Stages` between a sender and a
    reader: not yet typed, a frame, a suspended send, an event for a sub-broker,
    the reader's share of the broadcasts, a response on the socket. `Rising` says
    that a message further along was typed before one behind it, `QueuesSorted`
    the same of two messages in one queue. Every step moves one message to the next
    stage or drops messages, and both keep that. The difficulty is that the third
    stage is many queues: a client that changes chatrooms faster than the
    sub-brokers work could have messages in two of them, and a reader that follows
    it would hear them in the order of the sub-brokers. `AtHome` says that this
    does not happen: a sender's messages wait in one chatroom, which it has not
    left, or which its `Quit` will leave after them; the sender learns the address
    of the next one from an answer to this `Quit`, so the old queue is empty by then
    (it rests on `HandIInv`: while the `Quit` is out the turn is there and nowhere
    else). `OneReceiver` says the same of the reader: a receiver that waits in
    `subscriptions` belongs to a task that hears nothing else, so its stage is one
    queue too. TLC checked `OrderIInv` on the instances of `core` and `rejoin`
    before it was proved.
- `CodecProofs`, about the bytes, for every `ByteSize` above 13:
  - `FrameWhole`, `ResponseWhole`, `ChatroomWhole`: `try_parse` makes the value
    again of what `as_bytes` wrote, whatever follows it (and, for a chatroom,
    whatever comes before it). For a response the theorem needs
    `Len(r.name) < ByteSize`, since `serialize` casts the length of a name to a
    byte: the prompts of the client refuse longer ones. It rests on
    `LittleEndianRead`: four digits hold every number of `U32`.
  - `FramePart`, `ResponsePart`: as long as bytes are missing, it waits.
- `SessionProofs`, about the client program on bytes, for lines, texts, lobbies
  and messages of every number and length that the assumptions allow:
  - `LobbyRead`: the picture of a lobby is read as the chatrooms it lists. The
    theorem makes a chain of the steps of `ChatroomWhole`, and the streams of both
    directions are made of `FrameWhole` and `ResponseWhole` in the same way. The
    library's induction theorems cannot be instantiated here; its theorem on the
    least element of a set of numbers can, and `NumbersReached` draws from it what
    is needed: a set with 0, and with the next of each of its numbers, has them all.
    `FlattenSeq`, `LobbyBytes` and `LobbyPicture` are recursive functions; the
    lemmas above `LobbyRead` show that each exists and obeys its equation.
  - `InvariantHolds`: `Spec => []SessionIInv`, and from it `TypeOK`,
    `ResponsesArrive`, `FramesArrive`, `QuitIsLast` and `LobbyShown`. None but the
    types is inductive: that the bytes at the client's end are those of the
    responses depends on the window having read just a part of the first of them,
    that nothing follows a `Quit` on nobody else having the turn. `Framed` relates
    both streams, the half-read response included, to what was written. `Turns`
    says whose turn it is, in eight phases (`Ungreeted`, `UsersTurn`, `Asked`,
    `Answered`, `Opening`, `Chatting`, `Leaving`, `Over`); each says what may be on
    its way: a frame, an answer in a channel of the write task, or a response on the
    socket. While a chatroom opens two answers are out, each in its channel or on
    the socket, with any number of messages among them. `Bye` is the last response
    of a write task that has ended; it may stand behind anything. `LobbyTold` says
    that every response with a lobby, and the half of one, tells what the server last
    said. Once a half-read response was lost only the types and the frames' stream
    remain (`SessionTypes`): the rest of its bytes is taken for anything. There is one
    lemma for each branch of the window, for the pages, and for the two tasks of the
    server. TLC checked `SessionIInv` on the instance of `session` before it was
    proved.
  - `EveryEndIsExplained`: `Spec => []EndsExplained`, whatever the server's tasks do
    and whenever they end, if the lines, the messages of other
    users and the lobby's names are ASCII (`PlainTexts`, which the instance of the
    run satisfies). For other texts the model leaves open whether `try_parse`
    takes them (section 6), so there the client may also end on a text.

Every safety property that a passing run checks is a theorem. Only model-checked is
what rests on fairness, which the prover does not reach: `ClientReaped`,
`RoomReaped`, `Answered`, `SuspensionEnds` and `QuitReturns`. The statements of
the six runs that expect a violation are false, so there is nothing to prove.

## 6. What is not modelled

- Partial reads in `ChatServer`: a message arrives whole there, and a frame that
  `select!` would drop half-read shows as `NoTornFrame` (a frame on its way while
  the other branch may win). Their bytes, and the client's half, are in `Session`.
- A full kernel buffer: a write to a client that does not read never blocks.
- The keyboard thread in `ChatServer`: a typed message is sent at once. Its two
  channels are in `Session`.
- Whether a byte sequence is UTF-8: see the two outcomes above. That a chatroom's
  name in the lobby is text is taken for granted.
- Graceful shutdown (`server.rs:636-657`), which the program never reaches: the
  listener's `incoming()` does not end, and the accept loop keeps a sender of the
  broker's events. Every action of it would be dead.
- The drop of a dead broker's locals is one step with its error.
- The sub-broker of a `Create` that fails because the read task has ended: it
  starts without members in a server that is ending, and nobody can observe it.
- Rendering, command lines, logging.

## 7. Plan

1. `Protocol` to `ChatServer`, safety and liveness, the registry's proofs: done.
2. The abstract directory, checked and proved: done.
3. `Codec` and `Session`, the client program on bytes: done.
4. `ExitProofs` and `CodecProofs`: done.
5. `HandoverProofs`, `SurvivalProofs`, `OrderProofs` and `SessionProofs`: done.
   Every invariant that a run checks is proved.
6. What is left: liveness of the whole system with partial reads, where the bytes of
   `Session` meet the tasks of `ChatServer`.

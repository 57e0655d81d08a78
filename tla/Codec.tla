------------------------------- MODULE Codec --------------------------------
(***************************************************************************)
(* The bytes of rusty_chat's protocol (src/lib.rs): a frame, a response or *)
(* a chatroom of the lobby is a tag of fixed size, which holds a type and  *)
(* the lengths of what follows, and then the texts themselves.             *)
(*                                                                         *)
(* A value is a record with all the fields its kind of tag has; a field    *)
(* that a variant does not carry is empty.                                 *)
(***************************************************************************)
EXTENDS Naturals, Sequences

CONSTANT ByteSize   \* how many values a byte has: 256

\* A byte holds every type flag.
ASSUME ByteSizeAssumption == ByteSize \in Nat /\ ByteSize > 13

Byte == 0 .. ByteSize - 1
Bytes == Seq(Byte)
Uuid == [1 .. 16 -> Byte]

Zeros(n) == [i \in 1 .. n |-> 0]

\* serialize_data_length, serialize_len: a u32, least byte first.
LittleEndian(n) ==
  LET n8 == n \div ByteSize
      n16 == n8 \div ByteSize
      n24 == n16 \div ByteSize
  IN <<n % ByteSize, n8 % ByteSize, n16 % ByteSize, n24 % ByteSize>>

\* deserialize_data_length, deserialize_len
Number(bytes) ==
  bytes[1] + ByteSize * (bytes[2] + ByteSize * (bytes[3] + ByteSize * bytes[4]))

\* The lengths that four bytes hold.
U32 == 0 .. ByteSize * (ByteSize * (ByteSize * ByteSize)) - 1

\* The index of a kind in its enum.
FlagOf(kinds, kind) == CHOOSE i \in DOMAIN kinds : kinds[i] = kind

\* A byte of the upper half is no character by itself.  Several may be one, or
\* may not: String::from_utf8 of such a text may succeed or fail.
Ascii(text) == \A i \in DOMAIN text : 2 * text[i] < ByteSize

\* What try_parse makes of the bytes it has read.
Parsed(value, size) == [outcome |-> "parsed", value |-> value, size |-> size]
Unfinished == [outcome |-> "unfinished"]
Failed == [outcome |-> "failed"]
Panicked == [outcome |-> "panicked"]

-----------------------------------------------------------------------------
(* Frames                                                                  *)

FrameKinds == <<"Quit", "Lobby", "Join", "Create", "Username", "Message">>
BareFrames == {"Quit", "Lobby"}

\* Mutant of FrameTag: the length is cast to a byte, as in a response.
FrameTagByte(f) ==
  <<FlagOf(FrameKinds, f.kind)>>
    \o (IF f.kind \in BareFrames THEN Zeros(4) ELSE <<Len(f.text) % ByteSize>> \o Zeros(3))

\* Frame::serialize
FrameTag(f) ==
  <<FlagOf(FrameKinds, f.kind)>>
    \o (IF f.kind \in BareFrames THEN Zeros(4) ELSE LittleEndian(Len(f.text)))

\* Frame::as_bytes
FrameBytes(f) == FrameTag(f) \o f.text

\* Frame::try_parse: the outcomes for the bytes read so far.
FrameOutcomes(bytes) ==
  IF Len(bytes) < 5 THEN {Unfinished}
  ELSE IF bytes[1] \notin DOMAIN FrameKinds THEN {Panicked}
  ELSE LET kind == FrameKinds[bytes[1]]
           size == 5 + (IF kind \in BareFrames THEN 0 ELSE Number(SubSeq(bytes, 2, 5)))
           text == SubSeq(bytes, 6, size)
       IN IF Len(bytes) < size THEN {Unfinished}
          ELSE {Parsed([kind |-> kind, text |-> text], size)}
                 \cup (IF Ascii(text) THEN {} ELSE {Failed})

-----------------------------------------------------------------------------
(* Responses                                                               *)

ResponseKinds ==
  <<"ConnectionOk", "Subscribed", "ChatroomCreated", "ChatroomAlreadyExists",
    "ChatroomDoesNotExist", "ChatroomFull", "Message", "UsernameOk",
    "UsernameAlreadyExists", "ExitChatroom", "Lobby", "ExitLobby", "ReadSync">>

\* The variants with a name of a user or a chatroom, and those of them that
\* carry a picture of the lobby too.
NamedWithLobby ==
  {"ChatroomAlreadyExists", "ChatroomDoesNotExist", "ChatroomFull", "UsernameOk"}
Named ==
  NamedWithLobby
    \cup {"Subscribed", "ChatroomCreated", "UsernameAlreadyExists", "ExitChatroom"}

\* Response::serialize: the length of a name is cast to a byte.
ResponseTag(r) ==
  LET name_len == <<Len(r.name) % ByteSize>>
      data_len == LittleEndian(Len(r.data))
  IN <<FlagOf(ResponseKinds, r.kind)>> \o
       CASE r.kind = "Message" -> r.id \o data_len \o Zeros(1)
         [] r.kind = "Lobby" -> data_len \o Zeros(17)
         [] r.kind \in NamedWithLobby -> name_len \o data_len \o Zeros(16)
         [] r.kind \in Named \ NamedWithLobby -> name_len \o Zeros(20)
         [] OTHER -> Zeros(21)

\* Response::as_bytes
ResponseBytes(r) == ResponseTag(r) \o r.name \o r.data

\* Response::deserialize
NameLength(tag) == IF ResponseKinds[tag[1]] \in Named THEN tag[2] ELSE 0
DataLength(tag) ==
  LET kind == ResponseKinds[tag[1]]
  IN CASE kind = "Message" -> Number(SubSeq(tag, 18, 21))
       [] kind = "Lobby" -> Number(SubSeq(tag, 2, 5))
       [] kind \in NamedWithLobby -> Number(SubSeq(tag, 3, 6))
       [] OTHER -> 0

\* Response::try_parse: the outcomes for the bytes read so far.  A name is
\* checked before the lobby is read, except the one of UsernameOk.
ResponseOutcomes(bytes) ==
  IF Len(bytes) < 22 THEN {Unfinished}
  ELSE IF bytes[1] \notin DOMAIN ResponseKinds THEN {Panicked}
  ELSE LET kind == ResponseKinds[bytes[1]]
           named == 22 + NameLength(bytes)
           size == named + DataLength(bytes)
           name == SubSeq(bytes, 23, named)
           data == SubSeq(bytes, named + 1, size)
           checked == IF kind = "UsernameOk" THEN size ELSE named
           response == [kind |-> kind, name |-> name, data |-> data,
                        id |-> IF kind = "Message" THEN SubSeq(bytes, 2, 17) ELSE <<>>]
       IN (IF Len(bytes) < size THEN {Unfinished} ELSE {Parsed(response, size)})
            \cup (IF \/ Len(bytes) >= checked /\ ~Ascii(name)
                     \/ Len(bytes) >= size /\ kind = "Message" /\ ~Ascii(data)
                  THEN {Failed} ELSE {})

-----------------------------------------------------------------------------
(* The picture of the lobby                                                *)

\* Mutant of ChatroomTag: the count is written where the capacity is read.
ChatroomTagSwapped(c) ==
  LittleEndian(Len(c.name)) \o LittleEndian(c.num_clients) \o LittleEndian(c.capacity)

\* Chatroom::serialize
ChatroomTag(c) ==
  LittleEndian(Len(c.name)) \o LittleEndian(c.capacity) \o LittleEndian(c.num_clients)

\* create_lobby_state: the chatrooms one after the other, each by as_bytes.
LobbyBytes(chatrooms) ==
  LET upto[i \in 0 .. Len(chatrooms)] ==
        IF i = 0 THEN <<>>
        ELSE upto[i - 1] \o ChatroomTag(chatrooms[i]) \o chatrooms[i].name
  IN upto[Len(chatrooms)]

\* ChatroomFrame::try_parse at position i: where the next chatroom starts, and
\* the chatroom, if it is there whole.  That its name is text is left out.
NextAt(bytes, i) == i + 12 + Number(SubSeq(bytes, i, i + 3))
WholeAt(bytes, i) == Len(bytes) >= i + 11 /\ Len(bytes) + 1 >= NextAt(bytes, i)
ChatroomAt(bytes, i) ==
  [name |-> SubSeq(bytes, i + 12, NextAt(bytes, i) - 1),
   capacity |-> Number(SubSeq(bytes, i + 4, i + 7)),
   num_clients |-> Number(SubSeq(bytes, i + 8, i + 11))]

\* Mutant of LobbyPicture: a chatroom is parsed before the end is tested for.
LobbyPictureLoop(bytes) ==
  LET from[i \in 1 .. Len(bytes) + 1] ==
        IF ~WholeAt(bytes, i) THEN [ok |-> FALSE, chatrooms |-> {}]
        ELSE LET next == NextAt(bytes, i)
                 rest == IF next = Len(bytes) + 1 THEN [ok |-> TRUE, chatrooms |-> {}]
                                                  ELSE from[next]
             IN [rest EXCEPT !.chatrooms = @ \cup {ChatroomAt(bytes, i)}]
  IN from[1]

\* ChatroomFrames::try_from, and the sort by name that follows everywhere.  The
\* names are unique, so the sorted list is the set of the chatrooms.
LobbyPicture(bytes) ==
  LET from[i \in 1 .. Len(bytes) + 1] ==
        IF i = Len(bytes) + 1 THEN [ok |-> TRUE, chatrooms |-> {}]
        ELSE IF ~WholeAt(bytes, i) THEN [ok |-> FALSE, chatrooms |-> {}]
        ELSE [from[NextAt(bytes, i)] EXCEPT !.chatrooms = @ \cup {ChatroomAt(bytes, i)}]
  IN from[1]

=============================================================================

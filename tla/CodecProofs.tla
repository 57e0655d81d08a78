---------------------------- MODULE CodecProofs -----------------------------
(***************************************************************************)
(* What is written can be read: try_parse makes the value again of the     *)
(* bytes of a frame, a response or a chatroom, whatever follows them, and  *)
(* waits for more as long as they are not all there.  How a stream of      *)
(* values or a lobby of several chatrooms is taken apart, SessionProofs    *)
(* derives from these steps.                                               *)
(***************************************************************************)
EXTENDS Codec, SequenceTheorems, TLAPS

FrameKind == {FrameKinds[i] : i \in DOMAIN FrameKinds}
ResponseKind == {ResponseKinds[i] : i \in DOMAIN ResponseKinds}

\* The texts whose length fits a tag.
Text == {text \in Bytes : Len(text) \in U32}

\* The frames of src/lib.rs: Quit and Lobby have no text.
FrameValue ==
  {f \in [kind : FrameKind, text : Text] : f.kind \in BareFrames => f.text = <<>>}

\* Its responses, with a name that the prompts let through.
WithData == NamedWithLobby \cup {"Message", "Lobby"}
ResponseValue ==
  {r \in [kind : ResponseKind, name : Text, data : Text, id : Uuid \cup {<<>>}] :
     /\ Len(r.name) < ByteSize /\ (r.kind \notin Named => r.name = <<>>)
     /\ r.kind \notin WithData => r.data = <<>>
     /\ IF r.kind = "Message" THEN r.id \in Uuid ELSE r.id = <<>>}

ChatroomValue == [name : Text, capacity : U32, num_clients : U32]

-----------------------------------------------------------------------------
(* Numbers                                                                 *)

\* Division with a remainder.
LEMMA Division ==
  ASSUME NEW n \in Nat, NEW b \in Nat \ {0}
  PROVE  /\ n \div b \in Nat /\ n % b \in 0 .. b - 1
         /\ n = b * (n \div b) + (n % b)
  BY SMT

\* A quotient is less than m if the number is less than m times the divisor.
LEMMA QuotientBound ==
  ASSUME NEW n \in Nat, NEW b \in Nat \ {0}, NEW m \in Nat, n < b * m
  PROVE  n \div b < m
<1> DEFINE q == n \div b
<1>1. q \in Nat /\ b * q <= n
  BY Division
<1> HIDE DEF q
<1>2. q >= m => b * q >= b * m
  BY <1>1
<1>3. b * m \in Nat /\ b * q \in Nat
  BY <1>1
<1> QED
  BY <1>1, <1>2, <1>3 DEF q

\* A number less than the divisor is its own remainder.
LEMMA SmallRemainder ==
  ASSUME NEW n \in Nat, NEW b \in Nat \ {0}, n < b
  PROVE  n % b = n
<1> DEFINE q == n \div b
           r == n % b
<1>1. q \in Nat /\ r \in Nat /\ n = b * q + r
  BY Division
<1>2. q < 1
  BY QuotientBound
<1> HIDE DEF q, r
<1>3. q = 0
  BY <1>1, <1>2
<1>4. n = b * 0 + r
  BY <1>1, <1>3
<1>5. n = r
  BY <1>1, <1>4
<1> QED
  BY <1>5 DEF r

\* serialize_data_length and deserialize_data_length are inverses of each other.
LEMMA LittleEndianRead ==
  ASSUME NEW n \in U32
  PROVE  /\ LittleEndian(n) \in Bytes /\ Len(LittleEndian(n)) = 4
         /\ Number(LittleEndian(n)) = n
<1> DEFINE b == ByteSize
           n8 == n \div b
           n16 == n8 \div b
           n24 == n16 \div b
<1>1. b \in Nat \ {0}
  BY ByteSizeAssumption
<1>2. b * b \in Nat /\ b * (b * b) \in Nat /\ b * (b * (b * b)) \in Nat
  BY <1>1
<1>3. n \in Nat /\ n < b * (b * (b * b))
  BY <1>2 DEF U32
<1>4. n8 \in Nat /\ n % b \in Byte /\ n = b * n8 + (n % b) /\ n8 < b * (b * b)
  BY <1>1, <1>2, <1>3, Division, QuotientBound DEF Byte
<1>5. n16 \in Nat /\ n8 % b \in Byte /\ n8 = b * n16 + (n8 % b) /\ n16 < b * b
  BY <1>1, <1>2, <1>4, Division, QuotientBound DEF Byte
<1>6. n24 \in Nat /\ n16 % b \in Byte /\ n16 = b * n24 + (n16 % b) /\ n24 < b
  BY <1>1, <1>2, <1>5, Division, QuotientBound DEF Byte
<1>7. n24 % b = n24 /\ n24 \in Byte
  <2> HIDE DEF b, n24
  <2>1. n24 % b = n24
    BY <1>1, <1>6, SmallRemainder
  <2> QED
    BY <1>1, <1>6, <2>1 DEF Byte, b
<1>8. LittleEndian(n) = <<n % b, n8 % b, n16 % b, n24>>
  BY <1>7 DEF LittleEndian
<1>9. n = (n % b) + b * ((n8 % b) + b * ((n16 % b) + b * n24))
  <2> DEFINE d0 == n % b
             d8 == n8 % b
             d16 == n16 % b
  <2>1. {d0, d8, d16, b, n8, n16, n24} \subseteq Nat
    BY <1>1, <1>4, <1>5, <1>6 DEF Byte
  <2>2. n = b * n8 + d0 /\ n8 = b * n16 + d8 /\ n16 = b * n24 + d16
    BY <1>4, <1>5, <1>6
  <2> HIDE DEF b, n8, n16, n24, d0, d8, d16
  <2>3. n16 = d16 + b * n24
    BY <2>1, <2>2
  <2>4. n8 = d8 + b * n16
    BY <2>1, <2>2
  <2>5. n = d0 + b * n8
    BY <2>1, <2>2, <1>3
  <2>6. n = d0 + b * (d8 + b * (d16 + b * n24))
    BY <2>3, <2>4, <2>5
  <2> QED
    BY <2>6 DEF d0, d8, d16
<1>10. LittleEndian(n) \in Seq(Byte) /\ Len(LittleEndian(n)) = 4
  BY <1>4, <1>5, <1>6, <1>7, <1>8
<1>11. Number(LittleEndian(n)) = n
  BY <1>8, <1>9 DEF Number
<1> QED
  BY <1>10, <1>11 DEF Bytes

\* Padding.
LEMMA ZerosType ==
  ASSUME NEW n \in Nat
  PROVE  Zeros(n) \in Bytes /\ Len(Zeros(n)) = n
<1>1. 0 \in Byte
  BY ByteSizeAssumption DEF Byte
<1> QED
  BY <1>1 DEF Zeros, Bytes

-----------------------------------------------------------------------------
(* Sequences                                                               *)

\* A text put together of two, of three and, behind a flag or a tag, of four.
Two(t, a, b) == t = a \o b
Three(t, a, b, c) == t = a \o b \o c
Four(t, a, b, c, d) == t = a \o (b \o c \o d)

\* Where the first of two is.
LEMMA TwoParts ==
  ASSUME NEW a \in Bytes, NEW b \in Bytes, NEW t, Two(t, a, b)
  PROVE  /\ t \in Bytes /\ Len(t) = Len(a) + Len(b)
         /\ \A i \in 1 .. Len(a) : t[i] = a[i]
  BY DEF Two, Bytes

\* Where the first and the second of three are.
LEMMA ThreeParts ==
  ASSUME NEW a \in Bytes, NEW b \in Bytes, NEW c \in Bytes, NEW t, Three(t, a, b, c)
  PROVE  /\ t \in Bytes
         /\ Len(t) = Len(a) + Len(b) + Len(c)
         /\ \A i \in 1 .. Len(a) : t[i] = a[i]
         /\ SubSeq(t, Len(a) + 1, Len(a) + Len(b)) = b
  BY DEF Three, Bytes

\* How they are put together does not matter.
LEMMA Associative ==
  ASSUME NEW a \in Bytes, NEW b \in Bytes, NEW c \in Bytes
  PROVE  a \o (b \o c) = a \o b \o c
  BY ConcatAssociative DEF Bytes

\* Where the first, the second and the third of four are.
LEMMA FourParts ==
  ASSUME NEW a \in Bytes, NEW b \in Bytes, NEW c \in Bytes, NEW d \in Bytes,
         NEW t, Four(t, a, b, c, d)
  PROVE  /\ t \in Bytes
         /\ Len(t) = Len(a) + Len(b) + Len(c) + Len(d)
         /\ \A i \in 1 .. Len(a) : t[i] = a[i]
         /\ SubSeq(t, Len(a) + 1, Len(a) + Len(b)) = b
         /\ SubSeq(t, Len(a) + Len(b) + 1, Len(a) + Len(b) + Len(c)) = c
<1> DEFINE first == a \o b
           tail == c \o d
<1>1. /\ first \in Bytes /\ Len(first) = Len(a) + Len(b)
      /\ tail \in Bytes /\ Len(tail) = Len(c) + Len(d)
      /\ Len(a) \in Nat /\ Len(b) \in Nat /\ Len(c) \in Nat /\ Len(d) \in Nat
  BY DEF Bytes
<1>2. Three(t, a, b, tail) /\ Three(t, first, c, d)
  <2>1. b \o c \o d = b \o tail
    BY Associative
  <2>2. a \o (b \o tail) = first \o tail
    BY <1>1, Associative
  <2>3. first \o tail = first \o c \o d
    <3> HIDE DEF first
    <3> QED
      BY <1>1, Associative
  <2> QED
    BY <2>1, <2>2, <2>3, Zenon DEF Three, Four
<1> HIDE DEF first, tail
<1>3. /\ t \in Bytes /\ Len(t) = Len(a) + Len(b) + Len(tail)
      /\ \A i \in 1 .. Len(a) : t[i] = a[i]
      /\ SubSeq(t, Len(a) + 1, Len(a) + Len(b)) = b
  BY <1>1, <1>2, ThreeParts
<1>4. SubSeq(t, Len(first) + 1, Len(first) + Len(c)) = c
  BY <1>1, <1>2, ThreeParts
<1>5. SubSeq(t, Len(a) + Len(b) + 1, Len(a) + Len(b) + Len(c)) = c
  BY <1>1, <1>4, Zenon
<1>6. Len(t) = Len(a) + Len(b) + Len(c) + Len(d)
  BY <1>1, <1>3
<1> QED
  BY <1>3, <1>5, <1>6, Zenon

\* What follows one byte.
LEMMA Tagged ==
  ASSUME NEW x \in Byte, NEW s \in Bytes
  PROVE  /\ <<x>> \o s \in Bytes /\ Len(<<x>> \o s) = 1 + Len(s)
         /\ (<<x>> \o s)[1] = x
         /\ SubSeq(<<x>> \o s, 2, 1 + Len(s)) = s
<1> DEFINE flag == <<x>>
           empty == SubSeq(s, 1, 0)
<1>1. flag \in Bytes /\ Len(flag) = 1 /\ flag[1] = x
  BY DEF Bytes
<1>2. empty \in Bytes /\ Len(empty) = 0 /\ Three(<<x>> \o s, flag, s, empty)
  BY DEF Three, Bytes
<1>3. Len(s) \in Nat
  BY DEF Bytes
<1> HIDE DEF flag, empty
<1> DEFINE t == <<x>> \o s
<1> HIDE DEF t
<1>4. /\ t \in Bytes /\ Len(t) = Len(flag) + Len(s) + Len(empty)
      /\ \A i \in 1 .. Len(flag) : t[i] = flag[i]
      /\ SubSeq(t, Len(flag) + 1, Len(flag) + Len(s)) = s
  BY <1>1, <1>2, ThreeParts DEF t
<1> QED
  BY <1>1, <1>2, <1>3, <1>4 DEF t

\* Sequences that agree from m to n have the same part from m to n.
LEMMA SamePart ==
  ASSUME NEW S, NEW s \in Seq(S), NEW t \in Seq(S), NEW m \in Nat \ {0}, NEW n \in Nat,
         n <= Len(s), n <= Len(t), \A i \in m .. n : s[i] = t[i]
  PROVE  SubSeq(s, m, n) = SubSeq(t, m, n)
  OBVIOUS

\* A part from the start.
LEMMA Start ==
  ASSUME NEW S, NEW s \in Seq(S), NEW k \in 0 .. Len(s)
  PROVE  /\ SubSeq(s, 1, k) \in Seq(S) /\ Len(SubSeq(s, 1, k)) = k
         /\ \A i \in 1 .. k : SubSeq(s, 1, k)[i] = s[i]
  OBVIOUS

-----------------------------------------------------------------------------
(* Frames                                                                  *)

\* The tag of a frame.
LEMMA FrameTagRead ==
  ASSUME NEW f \in FrameValue
  PROVE  /\ FrameTag(f) \in Bytes /\ Len(FrameTag(f)) = 5
         /\ FrameTag(f)[1] \in DOMAIN FrameKinds /\ FrameKinds[FrameTag(f)[1]] = f.kind
         /\ f.kind \notin BareFrames => SubSeq(FrameTag(f), 2, 5) = LittleEndian(Len(f.text))
<1> DEFINE flag == FlagOf(FrameKinds, f.kind)
           rest == IF f.kind \in BareFrames THEN Zeros(4) ELSE LittleEndian(Len(f.text))
<1>1. f.kind \in FrameKind /\ Len(f.text) \in U32
  BY DEF FrameValue, Text
<1>2. flag \in DOMAIN FrameKinds /\ FrameKinds[flag] = f.kind
  BY <1>1 DEF FlagOf, FrameKind
<1>3. flag \in Byte
  BY <1>2, ByteSizeAssumption DEF FrameKinds, Byte
<1>4. rest \in Bytes /\ Len(rest) = 4
  BY <1>1, LittleEndianRead, ZerosType DEF Bytes
<1>5. FrameTag(f) = <<flag>> \o rest
  BY DEF FrameTag
<1> HIDE DEF flag, rest
<1>6. /\ <<flag>> \o rest \in Bytes /\ Len(<<flag>> \o rest) = 5
      /\ (<<flag>> \o rest)[1] = flag
      /\ SubSeq(<<flag>> \o rest, 2, 5) = rest
  <2>1. /\ <<flag>> \o rest \in Bytes /\ Len(<<flag>> \o rest) = 1 + Len(rest)
        /\ (<<flag>> \o rest)[1] = flag
        /\ SubSeq(<<flag>> \o rest, 2, 1 + Len(rest)) = rest
    BY <1>3, <1>4, Tagged, Zenon
  <2>2. 1 + Len(rest) = 5
    BY <1>4
  <2> QED
    BY <2>1, <2>2, Zenon
<1>7. f.kind \notin BareFrames => rest = LittleEndian(Len(f.text))
  BY DEF rest
<1> QED
  BY <1>2, <1>5, <1>6, <1>7 DEF Bytes


\* What try_parse makes of bytes that begin with the tag of f: it waits for as
\* many as Frame::as_bytes wrote, and takes the text from its place.
LEMMA FrameTaken ==
  ASSUME NEW f \in FrameValue, NEW bytes \in Bytes, Len(bytes) >= 5,
         \A i \in 1 .. 5 : bytes[i] = FrameTag(f)[i]
  PROVE  /\ Len(bytes) < 5 + Len(f.text) => FrameOutcomes(bytes) = {Unfinished}
         /\ /\ ~(Len(bytes) < 5 + Len(f.text))
            /\ SubSeq(bytes, 6, 5 + Len(f.text)) = f.text
            => FrameOutcomes(bytes) =
                 {Parsed(f, 5 + Len(f.text))} \cup (IF Ascii(f.text) THEN {} ELSE {Failed})
<1>1. /\ FrameTag(f) \in Bytes /\ Len(FrameTag(f)) = 5
      /\ FrameTag(f)[1] \in DOMAIN FrameKinds /\ FrameKinds[FrameTag(f)[1]] = f.kind
      /\ f.kind \notin BareFrames => SubSeq(FrameTag(f), 2, 5) = LittleEndian(Len(f.text))
  BY FrameTagRead DEF Bytes
<1>2. Len(bytes) \in Nat
  OBVIOUS
<1>3. bytes[1] \in DOMAIN FrameKinds /\ FrameKinds[bytes[1]] = f.kind
  BY <1>1
<1>4. SubSeq(bytes, 2, 5) = SubSeq(FrameTag(f), 2, 5)
  BY <1>1, <1>2, SamePart
<1>5. /\ Len(f.text) \in U32 /\ (f.kind \in BareFrames => Len(f.text) = 0)
      /\ f = [kind |-> f.kind, text |-> f.text]
  BY DEF FrameValue, Text
<1>6. (IF f.kind \in BareFrames THEN 0 ELSE Number(SubSeq(bytes, 2, 5))) = Len(f.text)
  BY <1>1, <1>4, <1>5, LittleEndianRead
<1>7. ~(Len(bytes) < 5)
  BY <1>2
<1> DEFINE size == 5 + Len(f.text)
           text == SubSeq(bytes, 6, size)
<1>8. FrameOutcomes(bytes) =
        IF Len(bytes) < size THEN {Unfinished}
        ELSE {Parsed([kind |-> f.kind, text |-> text], size)}
               \cup (IF Ascii(text) THEN {} ELSE {Failed})
  BY <1>3, <1>6, <1>7, Zenon DEF FrameOutcomes
<1>9. Len(bytes) < size => FrameOutcomes(bytes) = {Unfinished}
  BY <1>8, Zenon
<1>10. ASSUME ~(Len(bytes) < size), text = f.text
       PROVE  FrameOutcomes(bytes) =
                {Parsed(f, size)} \cup (IF Ascii(f.text) THEN {} ELSE {Failed})
  <2>1. FrameOutcomes(bytes) = {Parsed([kind |-> f.kind, text |-> text], size)}
                                 \cup (IF Ascii(text) THEN {} ELSE {Failed})
    BY <1>8, <1>10, Zenon
  <2> HIDE DEF text, size
  <2> QED
    BY <2>1, <1>5, <1>10, Zenon
<1> QED
  BY <1>9, <1>10, Zenon

\* A frame that the client wrote is read by the server as what it was, whatever
\* follows it; only a text with bytes of the upper half may fail as no text
\* (Frame::as_bytes, Frame::try_parse).
THEOREM FrameWhole ==
  ASSUME NEW f \in FrameValue, NEW rest \in Bytes
  PROVE  FrameOutcomes(FrameBytes(f) \o rest) =
           {Parsed(f, Len(FrameBytes(f)))} \cup (IF Ascii(f.text) THEN {} ELSE {Failed})
<1>1. /\ FrameTag(f) \in Bytes /\ Len(FrameTag(f)) = 5
      /\ f.text \in Bytes /\ rest \in Bytes
  BY FrameTagRead DEF Bytes, FrameValue, Text
<1> DEFINE bytes == FrameTag(f) \o f.text \o rest
<1>2. /\ Len(FrameTag(f) \o f.text) = 5 + Len(f.text)
      /\ bytes \in Bytes /\ Len(bytes) = 5 + Len(f.text) + Len(rest)
      /\ \A i \in 1 .. 5 : bytes[i] = FrameTag(f)[i]
      /\ SubSeq(bytes, 6, 5 + Len(f.text)) = f.text
  <2> DEFINE tag == FrameTag(f)
             text == f.text
  <2>1. tag \in Bytes /\ text \in Bytes /\ rest \in Bytes
    BY <1>1
  <2>2. Len(tag) = 5 /\ Len(tag) + 1 = 6
    BY <1>1
  <2> HIDE DEF tag, text
  <2>3. /\ tag \o text \o rest \in Bytes
        /\ Len(tag \o text \o rest) = Len(tag) + Len(text) + Len(rest)
        /\ \A i \in 1 .. Len(tag) : (tag \o text \o rest)[i] = tag[i]
        /\ SubSeq(tag \o text \o rest, Len(tag) + 1, Len(tag) + Len(text)) = text
    BY <2>1, ThreeParts DEF Three
  <2>4. Len(tag \o text) = Len(tag) + Len(text)
    BY <2>1, TwoParts DEF Two
  <2> QED
    BY <2>2, <2>3, <2>4, Zenon DEF tag, text
<1>3. FrameBytes(f) \o rest = bytes /\ Len(FrameBytes(f)) = 5 + Len(f.text)
  BY <1>2 DEF FrameBytes
<1> HIDE DEF bytes
<1>4. Len(bytes) >= 5 /\ ~(Len(bytes) < 5 + Len(f.text))
  BY <1>1, <1>2
<1>5. FrameOutcomes(bytes) =
        {Parsed(f, 5 + Len(f.text))} \cup (IF Ascii(f.text) THEN {} ELSE {Failed})
  BY <1>2, <1>4, FrameTaken
<1> QED
  BY <1>3, <1>5

\* A frame of which only a part has arrived is waited for.
THEOREM FramePart ==
  ASSUME NEW f \in FrameValue, NEW k \in 0 .. Len(FrameBytes(f)) - 1
  PROVE  FrameOutcomes(SubSeq(FrameBytes(f), 1, k)) = {Unfinished}
<1>1. FrameTag(f) \in Bytes /\ Len(FrameTag(f)) = 5 /\ f.text \in Bytes
  BY FrameTagRead DEF Bytes, FrameValue, Text
<1>2. /\ FrameBytes(f) \in Bytes /\ Len(FrameBytes(f)) = 5 + Len(f.text)
      /\ \A i \in 1 .. 5 : FrameBytes(f)[i] = FrameTag(f)[i]
  <2> DEFINE tag == FrameTag(f)
             text == f.text
  <2>1. tag \in Bytes /\ text \in Bytes
    BY <1>1
  <2>2. Len(tag) = 5
    BY <1>1
  <2> HIDE DEF tag, text
  <2>3. /\ tag \o text \in Bytes /\ Len(tag \o text) = Len(tag) + Len(text)
        /\ \A i \in 1 .. Len(tag) : (tag \o text)[i] = tag[i]
    BY <2>1, TwoParts DEF Two
  <2> QED
    BY <2>2, <2>3, Zenon DEF tag, text, FrameBytes
<1> DEFINE bytes == SubSeq(FrameBytes(f), 1, k)
<1>3. /\ bytes \in Bytes /\ Len(bytes) = k
      /\ \A i \in 1 .. k : bytes[i] = FrameBytes(f)[i]
  BY <1>2, Start DEF Bytes
<1> HIDE DEF bytes
<1>4. CASE k < 5
  BY <1>3, <1>4 DEF FrameOutcomes, bytes
<1>5. CASE k >= 5
  <2>1. Len(bytes) >= 5 /\ Len(bytes) < 5 + Len(f.text)
    BY <1>1, <1>2, <1>3, <1>5
  <2>2. \A i \in 1 .. 5 : bytes[i] = FrameTag(f)[i]
    BY <1>2, <1>3, <1>5
  <2> QED
    BY <1>3, <2>1, <2>2, FrameTaken DEF bytes
<1> QED
  BY <1>4, <1>5

-----------------------------------------------------------------------------
(* Responses                                                               *)

\* A part of one byte.
LEMMA OnePart ==
  ASSUME NEW t \in Bytes, NEW n \in 1 .. Len(t)
  PROVE  SubSeq(t, n, n)[1] = t[n]
  BY DEF Bytes

\* An id is sixteen bytes.
LEMMA UuidType ==
  ASSUME NEW u \in Uuid
  PROVE  u \in Bytes /\ Len(u) = 16
<1> DEFINE n == 16
<1>1. n \in Nat /\ u \in [1 .. n -> Byte]
  BY DEF Uuid
<1> HIDE DEF n
<1>2. u = [i \in 1 .. n |-> u[i]] /\ \A i \in 1 .. n : u[i] \in Byte
  BY <1>1
<1> DEFINE s == [i \in 1 .. n |-> u[i]]
<1>3. s \in Seq(Byte) /\ Len(s) = n
  BY <1>1, <1>2
<1> QED
  BY <1>2, <1>3 DEF n, Bytes

\* The tag of a response: it is of 22 bytes, and deserialize reads from it the
\* kind, the id and the lengths that serialize wrote.
LEMMA ResponseTagRead ==
  ASSUME NEW r \in ResponseValue, NEW tag, tag = ResponseTag(r)
  PROVE  /\ tag \in Bytes /\ Len(tag) = 22
         /\ tag[1] \in DOMAIN ResponseKinds /\ ResponseKinds[tag[1]] = r.kind
         /\ NameLength(tag) = Len(r.name)
         /\ DataLength(tag) = Len(r.data)
         /\ r.kind = "Message" => SubSeq(tag, 2, 17) = r.id
<1> DEFINE flag == <<FlagOf(ResponseKinds, r.kind)>>
           name_len == <<Len(r.name) % ByteSize>>
           data_len == LittleEndian(Len(r.data))
<1>1. /\ r.kind \in ResponseKind
      /\ r.name \in Bytes /\ Len(r.name) \in Nat /\ Len(r.name) < ByteSize
      /\ Len(r.data) \in U32
      /\ r.kind \notin Named => Len(r.name) = 0
      /\ r.kind \notin WithData => Len(r.data) = 0
      /\ r.kind = "Message" => r.id \in Uuid
  BY DEF ResponseValue, Text, Bytes
<1>2. /\ flag \in Bytes /\ Len(flag) = 1
      /\ flag[1] \in DOMAIN ResponseKinds /\ ResponseKinds[flag[1]] = r.kind
  <2>1. /\ FlagOf(ResponseKinds, r.kind) \in DOMAIN ResponseKinds
        /\ ResponseKinds[FlagOf(ResponseKinds, r.kind)] = r.kind
    BY <1>1 DEF FlagOf, ResponseKind
  <2>2. FlagOf(ResponseKinds, r.kind) \in Byte
    BY <2>1, ByteSizeAssumption DEF ResponseKinds, Byte
  <2> QED
    BY <2>1, <2>2 DEF Bytes
<1>3. name_len \in Bytes /\ Len(name_len) = 1 /\ name_len[1] = Len(r.name)
  <2>1. Len(r.name) % ByteSize = Len(r.name)
    <3> DEFINE n == Len(r.name)
    <3>1. n \in Nat /\ n < ByteSize /\ ByteSize \in Nat \ {0}
      BY <1>1, ByteSizeAssumption
    <3> HIDE DEF n
    <3>2. n % ByteSize = n
      BY <3>1, SmallRemainder
    <3> QED
      BY <3>2 DEF n
  <2>2. Len(r.name) \in Byte
    BY <1>1, ByteSizeAssumption DEF Byte
  <2> QED
    BY <2>1, <2>2 DEF Bytes
<1>4. data_len \in Bytes /\ Len(data_len) = 4 /\ Number(data_len) = Len(r.data)
  BY <1>1, LittleEndianRead
<1>5. \A n \in Nat : Zeros(n) \in Bytes /\ Len(Zeros(n)) = n
  BY ZerosType
<1>6. /\ flag \in Bytes /\ name_len \in Bytes /\ data_len \in Bytes
      /\ {Zeros(1), Zeros(16), Zeros(17), Zeros(20), Zeros(21)} \subseteq Bytes
  BY <1>2, <1>3, <1>4, <1>5
<1> HIDE DEF flag, name_len, data_len
<1>7. ASSUME tag[1] = flag[1], Len(tag) = 22, tag \in Bytes,
             r.kind \in Named => tag[2] = name_len[1],
             r.kind = "Message" => SubSeq(tag, 18, 21) = data_len /\ SubSeq(tag, 2, 17) = r.id,
             r.kind = "Lobby" => SubSeq(tag, 2, 5) = data_len,
             r.kind \in NamedWithLobby => SubSeq(tag, 3, 6) = data_len
      PROVE  /\ tag[1] \in DOMAIN ResponseKinds /\ ResponseKinds[tag[1]] = r.kind
             /\ NameLength(tag) = Len(r.name)
             /\ DataLength(tag) = Len(r.data)
  <2>1. tag[1] \in DOMAIN ResponseKinds /\ ResponseKinds[tag[1]] = r.kind
    BY <1>2, <1>7
  <2>2. NameLength(tag) = Len(r.name)
    BY <1>1, <1>3, <1>7, <2>1, Zenon DEF NameLength
  <2>3. CASE r.kind = "Message"
    BY <1>4, <1>7, <2>1, <2>2, <2>3 DEF DataLength
  <2>4. CASE r.kind = "Lobby"
    BY <1>4, <1>7, <2>1, <2>2, <2>4 DEF DataLength
  <2>5. CASE r.kind \in NamedWithLobby
    BY <1>4, <1>7, <2>1, <2>2, <2>5 DEF DataLength, NamedWithLobby
  <2>6. CASE r.kind \notin WithData
    BY <1>1, <2>1, <2>2, <2>6 DEF DataLength, WithData
  <2> QED
    BY <2>3, <2>4, <2>5, <2>6 DEF WithData
<1>8. CASE r.kind = "Message"
  <2> DEFINE id == r.id
             padding == Zeros(1)
  <2>1. Four(tag, flag, id, data_len, padding)
    BY <1>8 DEF ResponseTag, Four, Named, NamedWithLobby, flag, data_len
  <2>2. flag \in Bytes /\ id \in Bytes /\ data_len \in Bytes /\ padding \in Bytes
    BY <1>1, <1>5, <1>6, <1>8, UuidType
  <2>3. Len(id) = 16 /\ Len(padding) = 1
    BY <1>1, <1>5, <1>8, UuidType
  <2> HIDE DEF id, padding
  <2>4. /\ tag \in Bytes
        /\ Len(tag) = Len(flag) + Len(id) + Len(data_len) + Len(padding)
        /\ \A i \in 1 .. Len(flag) : tag[i] = flag[i]
        /\ SubSeq(tag, Len(flag) + 1, Len(flag) + Len(id)) = id
        /\ SubSeq(tag, Len(flag) + Len(id) + 1, Len(flag) + Len(id) + Len(data_len)) = data_len
    BY <2>1, <2>2, FourParts
  <2>5. Len(tag) = 22 /\ tag[1] = flag[1]
    BY <1>2, <1>4, <2>3, <2>4
  <2>6. SubSeq(tag, 2, 17) = id
    BY <1>2, <2>3, <2>4
  <2>7. SubSeq(tag, 18, 21) = data_len
    BY <1>2, <1>4, <2>3, <2>4
  <2> QED
    BY <1>7, <1>8, <2>4, <2>5, <2>6, <2>7 DEF Named, NamedWithLobby, id
<1>9. CASE r.kind = "Lobby"
  <2>1. tag = flag \o (data_len \o Zeros(17))
    BY <1>9 DEF ResponseTag, Named, NamedWithLobby, flag, data_len
  <2>2. Three(tag, flag, data_len, Zeros(17))
    BY <1>6, <2>1, Associative DEF Three
  <2>3. /\ tag \in Bytes
        /\ Len(tag) = Len(flag) + Len(data_len) + Len(Zeros(17))
        /\ \A i \in 1 .. Len(flag) : tag[i] = flag[i]
        /\ SubSeq(tag, Len(flag) + 1, Len(flag) + Len(data_len)) = data_len
    BY <1>6, <2>2, ThreeParts
  <2>4. Len(tag) = 22 /\ tag[1] = flag[1] /\ SubSeq(tag, 2, 5) = data_len
    BY <1>2, <1>4, <1>5, <2>3
  <2> QED
    BY <1>7, <1>9, <2>3, <2>4 DEF Named, NamedWithLobby
<1>10. CASE r.kind \in NamedWithLobby
  <2>1. Four(tag, flag, name_len, data_len, Zeros(16))
    BY <1>10 DEF ResponseTag, Four, NamedWithLobby, flag, name_len, data_len
  <2>2. /\ tag \in Bytes
        /\ Len(tag) = Len(flag) + Len(name_len) + Len(data_len) + Len(Zeros(16))
        /\ \A i \in 1 .. Len(flag) : tag[i] = flag[i]
        /\ SubSeq(tag, Len(flag) + 1, Len(flag) + Len(name_len)) = name_len
        /\ SubSeq(tag, Len(flag) + Len(name_len) + 1,
                  Len(flag) + Len(name_len) + Len(data_len)) = data_len
    BY <1>6, <2>1, FourParts
  <2>3. /\ Len(tag) = 22 /\ tag[1] = flag[1]
        /\ SubSeq(tag, 2, 2) = name_len /\ SubSeq(tag, 3, 6) = data_len
    BY <1>2, <1>3, <1>4, <1>5, <2>2
  <2>4. tag[2] = name_len[1]
    BY <2>2, <2>3, OnePart
  <2> QED
    BY <1>7, <1>10, <2>2, <2>3, <2>4 DEF NamedWithLobby
<1>11. CASE r.kind \in Named \ NamedWithLobby
  <2>1. tag = flag \o (name_len \o Zeros(20))
    BY <1>11 DEF ResponseTag, Named, NamedWithLobby, flag, name_len
  <2>2. Three(tag, flag, name_len, Zeros(20))
    BY <1>6, <2>1, Associative DEF Three
  <2>3. /\ tag \in Bytes
        /\ Len(tag) = Len(flag) + Len(name_len) + Len(Zeros(20))
        /\ \A i \in 1 .. Len(flag) : tag[i] = flag[i]
        /\ SubSeq(tag, Len(flag) + 1, Len(flag) + Len(name_len)) = name_len
    BY <1>6, <2>2, ThreeParts
  <2>4. Len(tag) = 22 /\ tag[1] = flag[1] /\ SubSeq(tag, 2, 2) = name_len
    BY <1>2, <1>3, <1>5, <2>3
  <2>5. tag[2] = name_len[1]
    BY <2>3, <2>4, OnePart
  <2> QED
    BY <1>7, <1>11, <2>3, <2>4, <2>5 DEF Named, NamedWithLobby
<1>12. CASE r.kind \notin Named \cup WithData
  <2>1. Two(tag, flag, Zeros(21))
    BY <1>12 DEF ResponseTag, Two, Named, WithData, flag
  <2>2. /\ tag \in Bytes /\ Len(tag) = Len(flag) + Len(Zeros(21))
        /\ \A i \in 1 .. Len(flag) : tag[i] = flag[i]
    BY <1>6, <2>1, TwoParts
  <2>3. Len(tag) = 22 /\ tag[1] = flag[1]
    BY <1>2, <1>5, <2>2
  <2> QED
    BY <1>7, <1>12, <2>2, <2>3 DEF Named, WithData
<1> QED
  BY <1>8, <1>9, <1>10, <1>11, <1>12 DEF WithData, Named

\* Texts that agree up to k have the same parts up to k.
LEMMA SameStart ==
  ASSUME NEW s \in Bytes, NEW t \in Bytes, NEW k \in Nat, k <= Len(s), k <= Len(t),
         \A i \in 1 .. k : s[i] = t[i]
  PROVE  \A m \in 1 .. k, n \in 1 .. k : SubSeq(s, m, n) = SubSeq(t, m, n)
<1> SUFFICES ASSUME NEW m \in 1 .. k, NEW n \in 1 .. k
             PROVE  SubSeq(s, m, n) = SubSeq(t, m, n)
  OBVIOUS
<1>1. /\ s \in Seq(Byte) /\ t \in Seq(Byte) /\ m \in Nat \ {0} /\ n \in Nat
      /\ n <= Len(s) /\ n <= Len(t)
  BY DEF Bytes
<1>2. \A i \in m .. n : s[i] = t[i]
  OBVIOUS
<1> QED
  BY <1>1, <1>2, SamePart

\* The lengths depend on the tag only.
LEMMA SameTag ==
  ASSUME NEW bytes \in Bytes, NEW tag \in Bytes, NEW k \in Nat, k <= Len(bytes), k <= Len(tag),
         \A i \in 1 .. k : bytes[i] = tag[i], k = 22
  PROVE  /\ bytes[1] = tag[1]
         /\ NameLength(bytes) = NameLength(tag) /\ DataLength(bytes) = DataLength(tag)
         /\ SubSeq(bytes, 2, 17) = SubSeq(tag, 2, 17)
<1>1. \A m \in 1 .. k, n \in 1 .. k : SubSeq(bytes, m, n) = SubSeq(tag, m, n)
  BY SameStart
<1>2. {1, 2, 3, 5, 6, 17, 18, 21} \subseteq 1 .. k
  OBVIOUS
<1>3. bytes[1] = tag[1] /\ bytes[2] = tag[2]
  BY <1>2, Zenon
<1>4. /\ SubSeq(bytes, 2, 17) = SubSeq(tag, 2, 17) /\ SubSeq(bytes, 18, 21) = SubSeq(tag, 18, 21)
      /\ SubSeq(bytes, 2, 5) = SubSeq(tag, 2, 5) /\ SubSeq(bytes, 3, 6) = SubSeq(tag, 3, 6)
  BY <1>1, <1>2, Zenon
<1>5. NameLength(bytes) = NameLength(tag)
  BY <1>3, Zenon DEF NameLength
<1>6. DataLength(bytes) = DataLength(tag)
  BY <1>3, <1>4, Zenon DEF DataLength
<1> QED
  BY <1>3, <1>4, <1>5, <1>6, Zenon

\* Where the name of a response ends, and its data.
NameEnd(r) == 22 + Len(r.name)
ResponseSize(r) == NameEnd(r) + Len(r.data)

\* What try_parse makes of bytes that begin with the tag of r: it waits for as
\* many as as_bytes wrote, and takes the name and the data from their places.
LEMMA ResponseTaken ==
  ASSUME NEW r \in ResponseValue, NEW bytes \in Bytes, Len(bytes) >= 22,
         \A i \in 1 .. 22 : bytes[i] = ResponseTag(r)[i]
  PROVE  LET size == ResponseSize(r)
             name == SubSeq(bytes, 23, NameEnd(r))
             data == SubSeq(bytes, NameEnd(r) + 1, size)
         IN ResponseOutcomes(bytes) =
              (IF Len(bytes) < size THEN {Unfinished}
               ELSE {Parsed([kind |-> r.kind, name |-> name, data |-> data, id |-> r.id], size)})
                \cup (IF \/ /\ Len(bytes) >= (IF r.kind = "UsernameOk" THEN size ELSE NameEnd(r))
                            /\ ~Ascii(name)
                         \/ Len(bytes) >= size /\ r.kind = "Message" /\ ~Ascii(data)
                      THEN {Failed} ELSE {})
<1> DEFINE tag == ResponseTag(r)
<1>1. /\ tag \in Bytes /\ Len(tag) = 22
      /\ tag[1] \in DOMAIN ResponseKinds /\ ResponseKinds[tag[1]] = r.kind
      /\ NameLength(tag) = Len(r.name) /\ DataLength(tag) = Len(r.data)
      /\ r.kind = "Message" => SubSeq(tag, 2, 17) = r.id
  BY ResponseTagRead
<1>2. \A i \in 1 .. 22 : bytes[i] = tag[i]
  OBVIOUS
<1> HIDE DEF tag
<1>3. /\ bytes[1] = tag[1]
      /\ NameLength(bytes) = NameLength(tag) /\ DataLength(bytes) = DataLength(tag)
      /\ SubSeq(bytes, 2, 17) = SubSeq(tag, 2, 17)
  <2>1. 22 \in Nat /\ 22 <= Len(bytes) /\ 22 <= Len(tag)
    BY <1>1
  <2> QED
    BY <1>1, <1>2, <2>1, SameTag
<1>4. (IF r.kind = "Message" THEN SubSeq(bytes, 2, 17) ELSE <<>>) = r.id
  BY <1>1, <1>3 DEF ResponseValue
<1>5. ~(Len(bytes) < 22)
  BY DEF Bytes
<1>6. bytes[1] \in DOMAIN ResponseKinds /\ ResponseKinds[bytes[1]] = r.kind
  BY <1>1, <1>3
<1> QED
  BY <1>1, <1>3, <1>4, <1>5, <1>6, Zenon DEF ResponseOutcomes, NameEnd, ResponseSize

\* Where the parts of a response's bytes are.
LEMMA ResponseParts ==
  ASSUME NEW r \in ResponseValue, NEW rest \in Bytes
  PROVE  LET bytes == ResponseBytes(r) \o rest
             tag == ResponseTag(r)
         IN /\ bytes \in Bytes
            /\ Len(bytes) = Len(tag) + Len(r.name) + Len(r.data) + Len(rest)
            /\ \A i \in 1 .. Len(tag) : bytes[i] = tag[i]
            /\ SubSeq(bytes, Len(tag) + 1, Len(tag) + Len(r.name)) = r.name
            /\ SubSeq(bytes, Len(tag) + Len(r.name) + 1,
                      Len(tag) + Len(r.name) + Len(r.data)) = r.data
<1> DEFINE bytes == ResponseBytes(r) \o rest
           tag == ResponseTag(r)
           name == r.name
           data == r.data
           both == name \o data
<1>1. tag \in Bytes /\ name \in Bytes /\ data \in Bytes /\ both \in Bytes
  BY ResponseTagRead DEF ResponseValue, Text, Bytes
<1>2. bytes = tag \o name \o data \o rest
  BY DEF ResponseBytes
<1> HIDE DEF bytes, tag, name, data
<1>3. Four(bytes, tag, name, data, rest)
  <2>1. tag \o both = tag \o name \o data
    BY <1>1, Associative
  <2>2. tag \o (both \o rest) = tag \o both \o rest
    <3> HIDE DEF both
    <3> QED
      BY <1>1, Associative
  <2> QED
    BY <1>2, <2>1, <2>2, Zenon DEF Four
<1>4. /\ bytes \in Bytes
      /\ Len(bytes) = Len(tag) + Len(name) + Len(data) + Len(rest)
      /\ \A i \in 1 .. Len(tag) : bytes[i] = tag[i]
      /\ SubSeq(bytes, Len(tag) + 1, Len(tag) + Len(name)) = name
      /\ SubSeq(bytes, Len(tag) + Len(name) + 1, Len(tag) + Len(name) + Len(data)) = data
  <2>1. tag \in Bytes /\ name \in Bytes /\ data \in Bytes
    BY <1>1
  <2> QED
    BY <1>3, <2>1, FourParts
<1> QED
  BY <1>4, Zenon DEF bytes, tag, name, data

\* The same with the size of the tag.
LEMMA ResponseLaidOut ==
  ASSUME NEW r \in ResponseValue, NEW rest \in Bytes,
         NEW bytes, Two(bytes, ResponseBytes(r), rest)
  PROVE  /\ bytes \in Bytes /\ Len(bytes) = ResponseSize(r) + Len(rest)
         /\ \A i \in 1 .. 22 : bytes[i] = ResponseTag(r)[i]
         /\ SubSeq(bytes, 23, NameEnd(r)) = r.name
         /\ SubSeq(bytes, NameEnd(r) + 1, ResponseSize(r)) = r.data
<1> DEFINE tag == ResponseTag(r)
<1>1. /\ bytes \in Bytes
      /\ Len(bytes) = Len(tag) + Len(r.name) + Len(r.data) + Len(rest)
      /\ \A i \in 1 .. Len(tag) : bytes[i] = tag[i]
      /\ SubSeq(bytes, Len(tag) + 1, Len(tag) + Len(r.name)) = r.name
      /\ SubSeq(bytes, Len(tag) + Len(r.name) + 1, Len(tag) + Len(r.name) + Len(r.data)) = r.data
  BY ResponseParts, Zenon DEF Two
<1>2. Len(tag) = 22 /\ Len(tag) + 1 = 23
  <2>1. Len(tag) = 22
    BY ResponseTagRead, Zenon
  <2> HIDE DEF tag
  <2> QED
    BY <2>1
<1>3. Len(tag) + Len(r.name) = NameEnd(r)
  BY <1>2, Zenon DEF NameEnd
<1> HIDE DEF tag
<1> QED
  BY <1>1, <1>2, <1>3, Zenon DEF tag, ResponseSize

\* How long a response is.
LEMMA ResponseLength ==
  ASSUME NEW r \in ResponseValue
  PROVE  /\ Len(ResponseBytes(r)) = ResponseSize(r) /\ ResponseSize(r) \in Nat
         /\ ResponseBytes(r) \in Bytes
         /\ NameEnd(r) \in Nat /\ NameEnd(r) >= 22 /\ ResponseSize(r) >= NameEnd(r)
<1> DEFINE tag == ResponseTag(r)
           name == r.name
           data == r.data
           whole == ResponseBytes(r)
<1>1. Len(name) \in Nat /\ Len(data) \in Nat
  BY DEF ResponseValue, Text, Bytes
<1>2. tag \in Bytes /\ name \in Bytes /\ data \in Bytes
  BY ResponseTagRead DEF ResponseValue, Text
<1>3. Len(tag) = 22
  BY ResponseTagRead, Zenon
<1>4. Three(whole, tag, name, data)
  BY DEF ResponseBytes, Three
<1>5. NameEnd(r) = 22 + Len(name) /\ ResponseSize(r) = NameEnd(r) + Len(data)
  BY DEF NameEnd, ResponseSize
<1> HIDE DEF tag, name, data, whole
<1>6. whole \in Bytes /\ Len(whole) = Len(tag) + Len(name) + Len(data)
  BY <1>2, <1>4, ThreeParts
<1> QED
  BY <1>1, <1>3, <1>5, <1>6 DEF whole

\* A response that the server wrote is read by the client as what it was,
\* whatever follows it, if its name is shorter than a byte counts; only a name
\* or a message with bytes of the upper half may fail as no text
\* (Response::as_bytes, Response::try_parse).
THEOREM ResponseWhole ==
  ASSUME NEW r \in ResponseValue, NEW rest \in Bytes
  PROVE  ResponseOutcomes(ResponseBytes(r) \o rest) =
           {Parsed(r, Len(ResponseBytes(r)))}
             \cup (IF ~Ascii(r.name) \/ (r.kind = "Message" /\ ~Ascii(r.data))
                   THEN {Failed} ELSE {})
<1> DEFINE bytes == ResponseBytes(r) \o rest
           size == ResponseSize(r)
<1>1. /\ bytes \in Bytes /\ Len(bytes) = size + Len(rest)
      /\ \A i \in 1 .. 22 : bytes[i] = ResponseTag(r)[i]
      /\ SubSeq(bytes, 23, NameEnd(r)) = r.name
      /\ SubSeq(bytes, NameEnd(r) + 1, size) = r.data
  <2>1. Two(bytes, ResponseBytes(r), rest)
    BY DEF Two
  <2> HIDE DEF bytes
  <2> QED
    BY <2>1, ResponseLaidOut
<1>2. Len(rest) \in Nat
  BY DEF Bytes
<1>3. /\ Len(ResponseBytes(r)) = size /\ size \in Nat /\ NameEnd(r) \in Nat
      /\ NameEnd(r) >= 22 /\ size >= NameEnd(r)
  BY ResponseLength
<1>4. r = [kind |-> r.kind, name |-> r.name, data |-> r.data, id |-> r.id]
  BY DEF ResponseValue
<1> HIDE DEF bytes, size
<1>5. Len(bytes) >= 22 /\ Len(bytes) >= NameEnd(r) /\ Len(bytes) >= size /\ ~(Len(bytes) < size)
  <2>1. Len(bytes) = size + Len(rest)
    BY <1>1
  <2>2. size \in Nat /\ NameEnd(r) \in Nat /\ NameEnd(r) >= 22 /\ size >= NameEnd(r)
    BY <1>3
  <2> QED
    BY <1>2, <2>1, <2>2
<1>6. ResponseOutcomes(bytes) =
        (IF Len(bytes) < size THEN {Unfinished}
         ELSE {Parsed([kind |-> r.kind, name |-> r.name, data |-> r.data, id |-> r.id], size)})
          \cup (IF \/ /\ Len(bytes) >= (IF r.kind = "UsernameOk" THEN size ELSE NameEnd(r))
                      /\ ~Ascii(r.name)
                   \/ Len(bytes) >= size /\ r.kind = "Message" /\ ~Ascii(r.data)
                THEN {Failed} ELSE {})
  <2> DEFINE name == SubSeq(bytes, 23, NameEnd(r))
             data == SubSeq(bytes, NameEnd(r) + 1, size)
  <2>1. ResponseOutcomes(bytes) =
          (IF Len(bytes) < size THEN {Unfinished}
           ELSE {Parsed([kind |-> r.kind, name |-> name, data |-> data, id |-> r.id], size)})
            \cup (IF \/ /\ Len(bytes) >= (IF r.kind = "UsernameOk" THEN size ELSE NameEnd(r))
                        /\ ~Ascii(name)
                     \/ Len(bytes) >= size /\ r.kind = "Message" /\ ~Ascii(data)
                  THEN {Failed} ELSE {})
    <3>1. /\ bytes \in Bytes /\ Len(bytes) >= 22
          /\ \A i \in 1 .. 22 : bytes[i] = ResponseTag(r)[i]
      BY <1>1, <1>5, Zenon
    <3> QED
      BY <3>1, ResponseTaken, Zenon DEF size
  <2>2. name = r.name /\ data = r.data
    BY <1>1, Zenon
  <2> HIDE DEF name, data
  <2> QED
    BY <2>1, <2>2, Zenon
<1> QED
  BY <1>3, <1>4, <1>5, <1>6, Zenon DEF bytes

\* Of a part of a response no value is made: try_parse waits, or refuses the name.
LEMMA ResponsePartRead ==
  ASSUME NEW r \in ResponseValue, NEW k \in 0 .. Len(ResponseBytes(r)) - 1
  PROVE  /\ ResponseOutcomes(SubSeq(ResponseBytes(r), 1, k)) \subseteq {Unfinished, Failed}
         /\ Ascii(r.name) => ResponseOutcomes(SubSeq(ResponseBytes(r), 1, k)) = {Unfinished}
<1> DEFINE whole == ResponseBytes(r)
           Read(parsed) ==
             /\ parsed \subseteq {Unfinished, Failed}
             /\ Ascii(r.name) => parsed = {Unfinished}
           bytes == SubSeq(whole, 1, k)
           size == ResponseSize(r)
           named == NameEnd(r)
           tag == ResponseTag(r)
<1>1. /\ whole \in Bytes /\ Len(whole) = size /\ size \in Nat
      /\ named \in Nat /\ named >= 22 /\ size >= named
  BY ResponseLength
<1>2. /\ \A i \in 1 .. 22 : whole[i] = tag[i]
      /\ SubSeq(whole, 23, named) = r.name
  <2> DEFINE empty == SubSeq(whole, 1, 0)
  <2>1. empty \in Bytes /\ Two(whole, whole, empty)
    <3> HIDE DEF whole
    <3> QED
      BY <1>1 DEF Bytes, Two
  <2> HIDE DEF empty
  <2> QED
    BY <2>1, ResponseLaidOut
<1>3. k \in Nat /\ k < size
  BY <1>1
<1> HIDE DEF whole, size, named, tag
<1>4. /\ bytes \in Bytes /\ Len(bytes) = k
      /\ \A i \in 1 .. k : bytes[i] = whole[i]
  BY <1>1, <1>3, Start DEF Bytes
<1> HIDE DEF bytes
<1>5. ASSUME k < 22 PROVE Read(ResponseOutcomes(bytes))
  BY <1>4, <1>5 DEF ResponseOutcomes
<1>6. ASSUME k >= 22 PROVE Read(ResponseOutcomes(bytes))
  <2>1. \A i \in 1 .. 22 : bytes[i] = tag[i]
    <3> SUFFICES ASSUME NEW i \in 1 .. 22 PROVE bytes[i] = tag[i]
      OBVIOUS
    <3>1. i \in 1 .. k
      BY <1>3, <1>6
    <3> QED
      BY <1>2, <1>4, <3>1, Zenon
  <2>2. Len(bytes) < size /\ ~(Len(bytes) >= size) /\ Len(bytes) >= 22
    BY <1>1, <1>3, <1>4, <1>6
  <2>3. Len(bytes) >= named => SubSeq(bytes, 23, named) = r.name
    <3>1. ASSUME k >= named PROVE SubSeq(bytes, 23, named) = SubSeq(whole, 23, named)
      <4>1. /\ bytes \in Seq(Byte) /\ whole \in Seq(Byte)
            /\ named <= Len(bytes) /\ named <= Len(whole)
        BY <1>1, <1>3, <1>4, <3>1 DEF Bytes
      <4>2. \A i \in 23 .. named : bytes[i] = whole[i]
        BY <1>1, <1>3, <1>4, <3>1
      <4> QED
        BY <1>1, <4>1, <4>2, SamePart
    <3> QED
      BY <1>2, <1>4, <3>1
  <2> DEFINE refused == \/ /\ Len(bytes) >= (IF r.kind = "UsernameOk" THEN size ELSE named)
                           /\ ~Ascii(SubSeq(bytes, 23, named))
                        \/ /\ Len(bytes) >= size /\ r.kind = "Message"
                           /\ ~Ascii(SubSeq(bytes, named + 1, size))
  <2>4. Ascii(r.name) => ~refused
    BY <2>2, <2>3
  <2>5. ResponseOutcomes(bytes) = {Unfinished} \cup (IF refused THEN {Failed} ELSE {})
    BY <1>4, <2>1, <2>2, ResponseTaken, Zenon DEF size, named, tag
  <2> HIDE DEF refused
  <2> QED
    BY <2>4, <2>5
<1> QED
  BY <1>3, <1>5, <1>6 DEF bytes, whole

\* A response of which only a part has arrived is waited for, if its name is text.
THEOREM ResponsePart ==
  ASSUME NEW r \in ResponseValue, Ascii(r.name),
         NEW k \in 0 .. Len(ResponseBytes(r)) - 1
  PROVE  ResponseOutcomes(SubSeq(ResponseBytes(r), 1, k)) = {Unfinished}
BY ResponsePartRead

-----------------------------------------------------------------------------
(* The picture of the lobby                                                *)

\* The first of three is taken apart.
LEMMA TakeApart ==
  ASSUME NEW a \in Bytes, NEW b \in Bytes, NEW c \in Bytes, NEW d \in Bytes,
         NEW t, Three(t, a \o b, c, d)
  PROVE  Three(t, a, b, c \o d)
<1> DEFINE ab == a \o b
<1>1. ab \in Bytes
  BY DEF Bytes
<1> HIDE DEF ab
<1>2. ab \o (c \o d) = ab \o c \o d
  BY <1>1, Associative
<1> QED
  BY <1>2, Zenon DEF ab, Three

\* A chatroom between what comes before and after it in the bytes of a lobby.
Between(t, p, a, b, c, d, rest) == t = p \o (a \o b \o c \o d) \o rest

\* Where its lengths and its name are.
Laid(t, p, a, b, c, d, rest) ==
  /\ SubSeq(t, Len(p) + 1, Len(p) + Len(a)) = a
  /\ SubSeq(t, Len(p) + Len(a) + 1, Len(p) + Len(a) + Len(b)) = b
  /\ SubSeq(t, Len(p) + Len(a) + Len(b) + 1, Len(p) + Len(a) + Len(b) + Len(c)) = c
  /\ SubSeq(t, Len(p) + Len(a) + Len(b) + Len(c) + 1,
            Len(p) + Len(a) + Len(b) + Len(c) + Len(d)) = d
  /\ Len(t) = Len(p) + Len(a) + Len(b) + Len(c) + Len(d) + Len(rest)

\* The bytes of a chatroom, seen from the whole lobby.
LEMMA ChatroomParts ==
  ASSUME NEW p1 \in Bytes, NEW a \in Bytes, NEW b \in Bytes, NEW c \in Bytes, NEW d \in Bytes,
         NEW rest \in Bytes, NEW t, Between(t, p1, a, b, c, d, rest)
  PROVE  Laid(t, p1, a, b, c, d, rest)
<1> DEFINE p2 == p1 \o a
           p3 == p2 \o b
           p4 == p3 \o c
           t3 == d \o rest
           t2 == c \o t3
           t1 == b \o t2
           two == a \o b
           three == two \o c
<1>1. Two(p2, p1, a) /\ Two(p3, p2, b) /\ Two(p4, p3, c)
  BY DEF Two
<1>2. Two(t3, d, rest) /\ Two(t2, c, t3) /\ Two(t1, b, t2)
  BY DEF Two
<1>3. Two(two, a, b) /\ Two(three, two, c)
  BY DEF Two
<1>4. Three(t, p4, d, rest)
  <2>1. two \in Bytes /\ three \in Bytes
    BY DEF Bytes
  <2>2. p1 \o (three \o d) = p1 \o three \o d
    <3> HIDE DEF three
    <3> QED
      BY <2>1, Associative
  <2>3. p1 \o three = p1 \o two \o c
    <3> HIDE DEF two
    <3> QED
      BY <2>1, Associative
  <2>4. p1 \o two = p3
    BY Associative
  <2>5. p1 \o three = p4
    BY <2>3, <2>4, Zenon
  <2> HIDE DEF p4
  <2>6. t = p1 \o (three \o d) \o rest
    BY DEF Between
  <2> HIDE DEF three
  <2> QED
    BY <2>2, <2>5, <2>6, Zenon DEF Three
<1> HIDE DEF p2, p3, p4, t1, t2, t3, two, three
<1>5. p2 \in Bytes /\ p3 \in Bytes /\ p4 \in Bytes
  BY <1>1, TwoParts
<1>6. t3 \in Bytes /\ t2 \in Bytes /\ t1 \in Bytes
  BY <1>2, TwoParts
<1>7. Three(t, p3, c, t3)
  BY <1>4, <1>5, TakeApart DEF p4, t3
<1>8. Three(t, p2, b, t2)
  BY <1>5, <1>6, <1>7, TakeApart DEF p3, t2
<1>9. Three(t, p1, a, t1)
  BY <1>5, <1>6, <1>8, TakeApart DEF p2, t1
<1>10. SubSeq(t, Len(p1) + 1, Len(p1) + Len(a)) = a
  BY <1>6, <1>9, ThreeParts
<1>11. SubSeq(t, Len(p2) + 1, Len(p2) + Len(b)) = b
  BY <1>5, <1>6, <1>8, ThreeParts
<1>12. SubSeq(t, Len(p3) + 1, Len(p3) + Len(c)) = c
  BY <1>5, <1>6, <1>7, ThreeParts
<1>13. SubSeq(t, Len(p4) + 1, Len(p4) + Len(d)) = d /\ Len(t) = Len(p4) + Len(d) + Len(rest)
  BY <1>4, <1>5, ThreeParts
<1>14. /\ Len(p2) = Len(p1) + Len(a) /\ Len(p3) = Len(p2) + Len(b)
       /\ Len(p4) = Len(p3) + Len(c)
  BY <1>1, <1>5, TwoParts
<1> QED
  BY <1>10, <1>11, <1>12, <1>13, <1>14, Zenon DEF Laid

\* A chatroom of the lobby is read as what it was, at its place among those
\* before and after it, and the next one is looked for behind it
\* (Chatroom::as_bytes, ChatroomFrame::try_parse).
THEOREM ChatroomWhole ==
  ASSUME NEW c \in ChatroomValue, NEW before \in Bytes, NEW rest \in Bytes
  PROVE  LET bytes == before \o (ChatroomTag(c) \o c.name) \o rest
             i == Len(before) + 1
         IN /\ WholeAt(bytes, i) /\ ChatroomAt(bytes, i) = c
            /\ NextAt(bytes, i) = i + 12 + Len(c.name)
<1> DEFINE name_len == LittleEndian(Len(c.name))
           capacity == LittleEndian(c.capacity)
           num_clients == LittleEndian(c.num_clients)
           name == c.name
           bytes == before \o (ChatroomTag(c) \o name) \o rest
           i == Len(before) + 1
<1>1. /\ name \in Bytes /\ Len(name) \in U32 /\ c.capacity \in U32 /\ c.num_clients \in U32
      /\ c = [name |-> name, capacity |-> c.capacity, num_clients |-> c.num_clients]
  BY DEF ChatroomValue, Text
<1>2. /\ name_len \in Bytes /\ Len(name_len) = 4 /\ Number(name_len) = Len(name)
      /\ capacity \in Bytes /\ Len(capacity) = 4 /\ Number(capacity) = c.capacity
      /\ num_clients \in Bytes /\ Len(num_clients) = 4 /\ Number(num_clients) = c.num_clients
  BY <1>1, LittleEndianRead
<1>3. bytes = before \o (name_len \o capacity \o num_clients \o name) \o rest
  BY DEF ChatroomTag
<1>4. Len(before) \in Nat /\ Len(name) \in Nat /\ Len(rest) \in Nat /\ i \in Nat
  BY <1>1 DEF Bytes
<1> HIDE DEF name_len, capacity, num_clients, name, bytes, i
<1>5. /\ SubSeq(bytes, i, i + 3) = name_len
      /\ SubSeq(bytes, i + 4, i + 7) = capacity
      /\ SubSeq(bytes, i + 8, i + 11) = num_clients
      /\ SubSeq(bytes, i + 12, i + 12 + Len(name) - 1) = name
      /\ Len(bytes) = i + 11 + Len(name) + Len(rest)
  <2>1. Between(bytes, before, name_len, capacity, num_clients, name, rest)
    BY <1>3, Zenon DEF Between
  <2>2. name_len \in Bytes /\ capacity \in Bytes /\ num_clients \in Bytes /\ name \in Bytes
    BY <1>1, <1>2
  <2>3. Laid(bytes, before, name_len, capacity, num_clients, name, rest)
    BY <2>1, <2>2, ChatroomParts
  <2>4. Len(name_len) = 4 /\ Len(capacity) = 4 /\ Len(num_clients) = 4
    BY <1>2
  <2> DEFINE p == Len(before)
             l == Len(name)
             q == Len(rest)
  <2>5. p \in Nat /\ l \in Nat /\ q \in Nat /\ i = p + 1
    BY <1>4 DEF i
  <2>6. /\ SubSeq(bytes, p + 1, p + 4) = name_len
        /\ SubSeq(bytes, p + 4 + 1, p + 4 + 4) = capacity
        /\ SubSeq(bytes, p + 4 + 4 + 1, p + 4 + 4 + 4) = num_clients
        /\ SubSeq(bytes, p + 4 + 4 + 4 + 1, p + 4 + 4 + 4 + l) = name
        /\ Len(bytes) = p + 4 + 4 + 4 + l + q
    BY <2>3, <2>4, Zenon DEF Laid
  <2> HIDE DEF p, l, q
  <2>7. /\ p + 1 = i /\ p + 4 = i + 3 /\ p + 4 + 1 = i + 4 /\ p + 4 + 4 = i + 7
        /\ p + 4 + 4 + 1 = i + 8 /\ p + 4 + 4 + 4 = i + 11 /\ p + 4 + 4 + 4 + 1 = i + 12
        /\ p + 4 + 4 + 4 + l = i + 12 + l - 1 /\ p + 4 + 4 + 4 + l + q = i + 11 + l + q
    BY <2>5
  <2> QED
    BY <2>6, <2>7, Zenon DEF l, q
<1>6. NextAt(bytes, i) = i + 12 + Len(name)
  BY <1>2, <1>5, Zenon DEF NextAt
<1>7. WholeAt(bytes, i)
  BY <1>4, <1>5, <1>6 DEF WholeAt
<1>8. ChatroomAt(bytes, i) = c
  <2>1. SubSeq(bytes, i + 12, NextAt(bytes, i) - 1) = name
    <3> DEFINE last == NextAt(bytes, i) - 1
    <3>1. last = i + 12 + Len(name) - 1
      BY <1>4, <1>6
    <3> HIDE DEF last
    <3>2. SubSeq(bytes, i + 12, last) = name
      BY <1>5, <3>1, Zenon
    <3> QED
      BY <3>2 DEF last
  <2>2. /\ Number(SubSeq(bytes, i + 4, i + 7)) = c.capacity
        /\ Number(SubSeq(bytes, i + 8, i + 11)) = c.num_clients
    BY <1>2, <1>5, Zenon
  <2>3. ChatroomAt(bytes, i) =
          [name |-> name, capacity |-> c.capacity, num_clients |-> c.num_clients]
    BY <2>1, <2>2, Zenon DEF ChatroomAt
  <2> QED
    BY <1>1, <2>3
<1> QED
  BY <1>6, <1>7, <1>8, Zenon DEF bytes, i, name

=============================================================================

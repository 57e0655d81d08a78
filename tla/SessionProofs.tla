--------------------------- MODULE SessionProofs ----------------------------
(***************************************************************************)
(* One client's session on bytes.  The streams of both directions are the  *)
(* frames and the responses that were written, whatever their lengths; the *)
(* client and the server take turns; the window ends with the server's     *)
(* answer; and the lobby page shows what the server said last.             *)
(***************************************************************************)
EXTENDS MCSession, CodecProofs, WellFoundedInduction

-----------------------------------------------------------------------------
(* Induction                                                               *)

\* A set with 0 and with the next of each of its numbers has all of them: the
\* least number that it does not have has one before it.
LEMMA NumbersReached ==
  ASSUME NEW T, 0 \in T, \A n \in T \cap Nat : n + 1 \in T
  PROVE  Nat \subseteq T
<1> SUFFICES ASSUME Nat \ T # {} PROVE FALSE
  OBVIOUS
<1> DEFINE R == OpToRel(<, Nat)
           M == Nat \ T
<1>1. IsWellFoundedOn(R, Nat)
  BY NatLessThanWellFounded, Zenon
<1>2. \A x, y \in Nat : x < y => <<x, y>> \in R
  BY DEF OpToRel
<1>3. PICK x \in M : \A y \in M : <<y, x>> \notin R
  <2>1. M \subseteq Nat /\ M # {}
    OBVIOUS
  <2> HIDE DEF R, M
  <2> QED
    BY <1>1, <2>1, WFMin
<1> HIDE DEF R
<1>4. x - 1 \in T \cap Nat /\ x - 1 + 1 = x
  <2>1. x \in Nat /\ x # 0
    OBVIOUS
  <2>2. x - 1 \in Nat /\ x - 1 < x /\ x - 1 + 1 = x
    BY <2>1
  <2> QED
    BY <1>2, <1>3, <2>1, <2>2
<1> QED
  BY <1>3, <1>4

-----------------------------------------------------------------------------
(* Sequences of texts, joined                                              *)

\* The function that FlattenSeq defines: the i-th value joins the first i texts.
Joins(f, texts) ==
  f = [i \in 1 .. Len(texts) |-> IF i = 1 THEN texts[i] ELSE f[i - 1] \o texts[i]]

\* There is one, text by text.
LEMMA JoinsExists ==
  ASSUME NEW texts, Len(texts) \in Nat
  PROVE  \E f : Joins(f, texts)
<1> DEFINE Upto(f, n) ==
             /\ f = [i \in 1 .. n |-> f[i]]
             /\ \A i \in 1 .. n : f[i] = IF i = 1 THEN texts[i] ELSE f[i - 1] \o texts[i]
           T == {n \in Nat : \E f : Upto(f, n)}
<1>1. 0 \in T
  <2> DEFINE f == [i \in 1 .. 0 |-> texts[i]]
  <2>1. Upto(f, 0)
    OBVIOUS
  <2> QED
    BY <2>1
<1>2. ASSUME NEW n \in T \cap Nat PROVE n + 1 \in T
  <2>0. PICK f : Upto(f, n)
    OBVIOUS
  <2>1. \A i \in 1 .. n : f[i] = IF i = 1 THEN texts[i] ELSE f[i - 1] \o texts[i]
    BY <2>0, Zenon
  <2> DEFINE g == [i \in 1 .. n + 1 |->
                    IF i = 1 THEN texts[i] ELSE f[i - 1] \o texts[i]]
  <2>2. \A i \in 1 .. n : g[i] = f[i]
    BY <2>1
  <2>3. \A i \in 1 .. n + 1 : i # 1 => i - 1 \in 1 .. n
    OBVIOUS
  <2>4. g = [i \in 1 .. n + 1 |-> g[i]]
    OBVIOUS
  <2>5. \A i \in 1 .. n + 1 :
          g[i] = IF i = 1 THEN texts[i] ELSE g[i - 1] \o texts[i]
    <3>1. \A i \in 1 .. n + 1 :
            g[i] = IF i = 1 THEN texts[i] ELSE f[i - 1] \o texts[i]
      OBVIOUS
    <3> HIDE DEF g
    <3> QED
      BY <2>2, <2>3, <3>1
  <2> HIDE DEF g
  <2>6. Upto(g, n + 1)
    BY <2>4, <2>5
  <2> HIDE DEF Upto
  <2> QED
    BY <2>6
<1>3. Len(texts) \in T
  <2> HIDE DEF T
  <2> QED
    BY <1>1, <1>2, NumbersReached
<1>4. PICK f : Upto(f, Len(texts))
  BY <1>3
<1>5. [i \in 1 .. Len(texts) |-> f[i]] =
        [i \in 1 .. Len(texts) |-> IF i = 1 THEN texts[i] ELSE f[i - 1] \o texts[i]]
  BY <1>4, Zenon
<1>6. Joins(f, texts)
  BY <1>4, <1>5, Zenon DEF Joins
<1> QED
  BY <1>6

\* FlattenSeq is its last value.
LEMMA FlattenJoins ==
  ASSUME NEW texts \in Seq(Bytes), texts # <<>>
  PROVE  \E f : Joins(f, texts) /\ FlattenSeq(texts) = f[Len(texts)]
<1>1. Len(texts) \in Nat /\ Len(texts) # 0
  OBVIOUS
<1> DEFINE g == CHOOSE f : Joins(f, texts)
<1>2. Joins(g, texts)
  BY <1>1, JoinsExists, Zenon
<1>3. FlattenSeq(texts) = g[Len(texts)]
  BY <1>1, Zenon DEF FlattenSeq, Joins
<1> QED
  BY <1>2, <1>3

\* The first text.
LEMMA JoinsFirst ==
  ASSUME NEW texts, NEW f, Joins(f, texts), 1 \in 1 .. Len(texts)
  PROVE  f[1] = texts[1]
  BY Zenon DEF Joins
\* A text joined to those before it.
LEMMA JoinsNext ==
  ASSUME NEW texts, NEW f, Joins(f, texts), NEW i \in 1 .. Len(texts), i # 1
  PROVE  f[i] = f[i - 1] \o texts[i]
  BY Zenon DEF Joins

\* What it joins is a text, and depends on nothing but the texts joined.
LEMMA JoinsAgree ==
  ASSUME NEW s \in Seq(Bytes), NEW t \in Seq(Bytes), NEW f, NEW g, Joins(f, s), Joins(g, t),
         NEW k \in Nat, k <= Len(s), k <= Len(t), \A i \in 1 .. k : s[i] = t[i]
  PROVE  \A i \in 1 .. k : f[i] = g[i] /\ f[i] \in Bytes
<1> DEFINE T == {n \in Nat : n \in 1 .. k => f[n] = g[n] /\ f[n] \in Bytes}
<1>1. 0 \in T
  OBVIOUS
<1>2. ASSUME NEW n \in T \cap Nat PROVE n + 1 \in T
  <2> SUFFICES ASSUME n + 1 \in 1 .. k
               PROVE  f[n + 1] = g[n + 1] /\ f[n + 1] \in Bytes
    OBVIOUS
  <2>1. /\ n + 1 \in 1 .. Len(s) /\ n + 1 \in 1 .. Len(t) /\ s[n + 1] = t[n + 1]
        /\ s[n + 1] \in Bytes
    OBVIOUS
  <2>2. CASE n = 0
    <3>1. 1 \in 1 .. Len(s) /\ 1 \in 1 .. Len(t) /\ s[1] = t[1] /\ s[1] \in Bytes
      BY <2>1, <2>2
    <3>2. f[1] = s[1] /\ g[1] = t[1]
      BY <3>1, JoinsFirst
    <3> QED
      BY <2>2, <3>1, <3>2
  <2>3. CASE n # 0
    <3>1. f[n] = g[n] /\ f[n] \in Bytes
      BY <2>3
    <3>2. n + 1 # 1 /\ n = n + 1 - 1
      BY <2>3
    <3>3. f[n + 1] = f[n] \o s[n + 1] /\ g[n + 1] = g[n] \o t[n + 1]
      <4> DEFINE m == n + 1
      <4>1. m \in 1 .. Len(s) /\ m \in 1 .. Len(t) /\ m # 1 /\ m - 1 = n
        BY <2>1, <3>2
      <4> HIDE DEF m
      <4>2. f[m] = f[m - 1] \o s[m] /\ g[m] = g[m - 1] \o t[m]
        BY <4>1, JoinsNext, Zenon
      <4>3. f[m] = f[n] \o s[m] /\ g[m] = g[n] \o t[m]
        BY <4>1, <4>2
      <4> QED
        BY <4>3 DEF m
    <3>4. f[n] \o s[n + 1] \in Bytes
      BY <2>1, <3>1 DEF Bytes
    <3> QED
      BY <2>1, <3>1, <3>3, <3>4, Zenon
  <2> QED
    BY <2>2, <2>3
<1>3. Nat \subseteq T
  <2> HIDE DEF T
  <2> QED
    BY <1>1, <1>2, NumbersReached
<1> QED
  BY <1>3

\* No texts join to no text; one more text comes last.
LEMMA FlattenEmpty ==
  FlattenSeq(<<>>) = <<>>
  BY DEF FlattenSeq

\* One more text at the end.
LEMMA FlattenAppend ==
  ASSUME NEW texts \in Seq(Bytes), NEW e \in Bytes
  PROVE  /\ FlattenSeq(texts) \in Bytes
         /\ FlattenSeq(Append(texts, e)) = FlattenSeq(texts) \o e
<1> DEFINE n == Len(texts)
           more == Append(texts, e)
<1>1. /\ more \in Seq(Bytes) /\ more # <<>> /\ Len(more) = n + 1 /\ n \in Nat
      /\ \A i \in 1 .. n : more[i] = texts[i]
      /\ more[n + 1] = e
  OBVIOUS
<1>2. PICK g : Joins(g, more) /\ FlattenSeq(more) = g[n + 1]
  <2> HIDE DEF more
  <2> QED
    BY <1>1, FlattenJoins
<1> HIDE DEF n, more
<1>3. CASE n = 0
  <2>1. texts = <<>> /\ FlattenSeq(texts) = <<>> /\ <<>> \in Bytes
    BY <1>3, FlattenEmpty DEF n, Bytes
  <2>2. g[1] = more[1]
    BY <1>1, <1>2, <1>3, JoinsFirst
  <2>3. <<>> \o e = e
    BY ConcatEmptySeq DEF Bytes
  <2> QED
    <3>1. FlattenSeq(more) = e
      BY <1>1, <1>2, <1>3, <2>2
    <3>2. FlattenSeq(more) = FlattenSeq(texts) \o e
      BY <2>1, <2>3, <3>1, Zenon
    <3> QED
      BY <2>1, <3>2, Zenon DEF more
<1>4. CASE n # 0
  <2>1. PICK f : Joins(f, texts) /\ FlattenSeq(texts) = f[n]
    <3>1. texts # <<>>
      BY <1>4 DEF n
    <3> QED
      BY <3>1, FlattenJoins DEF n
  <2>2. f[n] = g[n] /\ f[n] \in Bytes
    <3>1. n <= Len(texts) /\ n <= Len(more) /\ n \in 1 .. n
      BY <1>1, <1>4 DEF n
    <3>2. \A i \in 1 .. n : f[i] = g[i] /\ f[i] \in Bytes
      BY <1>1, <1>2, <2>1, <3>1, JoinsAgree
    <3> QED
      BY <3>1, <3>2
  <2>3. g[n + 1] = g[n] \o e
    <3> DEFINE m == n + 1
    <3>1. m \in 1 .. Len(more) /\ m # 1 /\ m - 1 = n
      BY <1>1, <1>4
    <3> HIDE DEF m
    <3>2. g[m] = g[m - 1] \o more[m]
      BY <1>2, <3>1, JoinsNext, Zenon
    <3> QED
      BY <1>1, <3>1, <3>2 DEF m
  <2> QED
    BY <1>2, <2>1, <2>2, <2>3 DEF more
<1> QED
  BY <1>3, <1>4

\* The texts of two sequences, joined.
LEMMA FlattenConcat ==
  ASSUME NEW a \in Seq(Bytes), NEW b \in Seq(Bytes)
  PROVE  FlattenSeq(a \o b) = FlattenSeq(a) \o FlattenSeq(b)
<1> DEFINE Splits(s) == FlattenSeq(a \o s) = FlattenSeq(a) \o FlattenSeq(s)
           T == {n \in Nat : \A s \in Seq(Bytes) : Len(s) = n => Splits(s)}
<1>1. 0 \in T
  <2> SUFFICES ASSUME NEW s \in Seq(Bytes), Len(s) = 0 PROVE Splits(s)
    OBVIOUS
  <2>1. s = <<>> /\ a \o s = a /\ FlattenSeq(a) \in Bytes
    BY ConcatEmptySeq, FlattenAppend DEF Bytes
  <2>2. FlattenSeq(a) \o <<>> = FlattenSeq(a)
    BY <2>1, ConcatEmptySeq DEF Bytes
  <2> QED
    BY <2>1, <2>2, FlattenEmpty
<1>2. ASSUME NEW n \in T \cap Nat PROVE n + 1 \in T
  <2> SUFFICES ASSUME NEW s \in Seq(Bytes), Len(s) = n + 1 PROVE Splits(s)
    OBVIOUS
  <2>1. PICK t \in Seq(Bytes), e \in Bytes : s = Append(t, e)
    <3>1. s # <<>>
      OBVIOUS
    <3> QED
      BY <3>1, SequenceEmptyOrAppend
  <2>2. Len(t) = n
    BY <2>1
  <2>3. FlattenSeq(a \o t) = FlattenSeq(a) \o FlattenSeq(t)
    BY <2>1, <2>2
  <2>4. a \o s = Append(a \o t, e) /\ a \o t \in Seq(Bytes)
    BY <2>1
  <2>5. /\ FlattenSeq(a \o s) = FlattenSeq(a \o t) \o e
        /\ FlattenSeq(s) = FlattenSeq(t) \o e
        /\ FlattenSeq(a) \in Bytes /\ FlattenSeq(t) \in Bytes
    BY <2>1, <2>4, FlattenAppend
  <2>6. FlattenSeq(a) \o (FlattenSeq(t) \o e) = FlattenSeq(a) \o FlattenSeq(t) \o e
    BY <2>5, Associative
  <2> QED
    BY <2>3, <2>5, <2>6
<1>3. Nat \subseteq T
  <2> HIDE DEF T
  <2> QED
    BY <1>1, <1>2, NumbersReached
<1> QED
  BY <1>3

-----------------------------------------------------------------------------
(* Streams                                                                 *)

FrameStream(frames) == BytesOf(frames, FrameBytes)
ResponseStream(responses) == BytesOf(responses, ResponseBytes)

\* The bytes of each frame, and of each response.
FrameTexts(frames) == [i \in DOMAIN frames |-> FrameBytes(frames[i])]
ResponseTexts(responses) == [i \in DOMAIN responses |-> ResponseBytes(responses[i])]

\* The bytes of a frame.
LEMMA FrameBytesType ==
  ASSUME NEW f \in FrameValue
  PROVE  FrameBytes(f) \in Bytes
<1>1. FrameTag(f) \in Bytes /\ f.text \in Bytes
  BY FrameTagRead DEF FrameValue, Text
<1> QED
  BY <1>1 DEF FrameBytes, Bytes

\* A frame that is sent is the last of the stream.
LEMMA FrameSent ==
  ASSUME NEW frames \in Seq(FrameValue), NEW f \in FrameValue
  PROVE  /\ FrameStream(frames) \in Bytes
         /\ FrameStream(Append(frames, f)) = FrameStream(frames) \o FrameBytes(f)
<1> DEFINE texts == FrameTexts(frames)
<1>1. texts \in Seq(Bytes)
  <2>1. \A i \in 1 .. Len(frames) : FrameBytes(frames[i]) \in Bytes
    BY FrameBytesType
  <2> QED
    BY <2>1 DEF FrameTexts
<1>2. FrameTexts(Append(frames, f)) = Append(texts, FrameBytes(f))
  BY DEF FrameTexts
<1>3. FrameBytes(f) \in Bytes
  BY FrameBytesType
<1> HIDE DEF texts
<1>4. /\ FrameStream(frames) = FlattenSeq(texts)
      /\ FrameStream(Append(frames, f)) = FlattenSeq(FrameTexts(Append(frames, f)))
  BY DEF FrameStream, BytesOf, FrameTexts, texts
<1> QED
  BY <1>1, <1>2, <1>3, <1>4, FlattenAppend

\* The first frame is at the front of the stream.
LEMMA FrameFirst ==
  ASSUME NEW frames \in Seq(FrameValue), frames # <<>>
  PROVE  /\ Head(frames) \in FrameValue /\ Tail(frames) \in Seq(FrameValue)
         /\ FrameStream(Tail(frames)) \in Bytes
         /\ FrameStream(frames) = FrameBytes(Head(frames)) \o FrameStream(Tail(frames))
<1> DEFINE rest == Tail(frames)
           first == FrameBytes(Head(frames))
<1>1. Head(frames) \in FrameValue /\ rest \in Seq(FrameValue)
  OBVIOUS
<1>2. first \in Bytes /\ FrameTexts(rest) \in Seq(Bytes)
  <2>1. \A i \in 1 .. Len(rest) : FrameBytes(rest[i]) \in Bytes
    BY <1>1, FrameBytesType
  <2> HIDE DEF rest
  <2>2. FrameTexts(rest) \in Seq(Bytes)
    BY <1>1, <2>1 DEF FrameTexts
  <2> QED
    BY <1>1, <2>2, FrameBytesType
<1>3. FrameTexts(frames) = <<first>> \o FrameTexts(rest)
  BY DEF FrameTexts
<1>4. /\ FrameStream(frames) = FlattenSeq(FrameTexts(frames))
      /\ FrameStream(rest) = FlattenSeq(FrameTexts(rest))
  BY DEF FrameStream, BytesOf, FrameTexts
<1> HIDE DEF rest, first
<1>5. FlattenSeq(<<first>> \o FrameTexts(rest))
        = FlattenSeq(<<first>>) \o FlattenSeq(FrameTexts(rest))
  <2>1. <<first>> \in Seq(Bytes)
    BY <1>2
  <2> QED
    BY <1>2, <2>1, FlattenConcat, Zenon
<1>6. FlattenSeq(<<first>>) = first
  <2>1. <<first>> = Append(<<>>, first) /\ <<>> \in Seq(Bytes)
    OBVIOUS
  <2>2. FlattenSeq(<<first>>) = <<>> \o first
    BY <1>2, <2>1, FlattenAppend, FlattenEmpty
  <2> QED
    BY <1>2, <2>2, ConcatEmptySeq DEF Bytes
<1>7. FlattenSeq(FrameTexts(rest)) \in Bytes
  BY <1>2, FlattenAppend
<1> QED
  BY <1>1, <1>3, <1>4, <1>5, <1>6, <1>7 DEF rest, first

\* What a server may write, whatever it read: a name may be too long for its tag.
AnyResponse == {r \in ResponseRecord : r.kind = "Message" => r.id \in Uuid}

\* The responses of the program are such responses.
LEMMA ValuesAreResponses ==
  ResponseValue \subseteq AnyResponse
<1> SUFFICES ASSUME NEW r \in ResponseValue PROVE r \in AnyResponse
  OBVIOUS
<1>1. /\ r \in [kind : ResponseKind, name : Text, data : Text, id : Uuid \cup {<<>>}]
      /\ r.kind = "Message" => r.id \in Uuid
  BY DEF ResponseValue
<1> QED
  BY <1>1 DEF AnyResponse, ResponseRecord, ResponseKind, Text

\* Its bytes.
LEMMA ResponseBytesType ==
  ASSUME NEW r \in AnyResponse
  PROVE  ResponseBytes(r) \in Bytes
<1> DEFINE flag == <<FlagOf(ResponseKinds, r.kind)>>
           name_len == <<Len(r.name) % ByteSize>>
           data_len == LittleEndian(Len(r.data))
<1>1. /\ r.kind \in ResponseKind /\ r.name \in Bytes /\ r.data \in Bytes
      /\ r.kind = "Message" => r.id \in Bytes
  BY UuidType DEF AnyResponse, ResponseRecord, ResponseKind
<1>2. flag \in Bytes
  <2>1. FlagOf(ResponseKinds, r.kind) \in DOMAIN ResponseKinds
    BY <1>1 DEF FlagOf, ResponseKind
  <2>2. FlagOf(ResponseKinds, r.kind) \in Byte
    BY <2>1, ByteSizeAssumption DEF ResponseKinds, Byte
  <2> QED
    BY <2>2 DEF Bytes
<1>3. name_len \in Bytes /\ data_len \in Bytes
  <2>1. \A n \in Nat : n % ByteSize \in Byte /\ n \div ByteSize \in Nat
    <3> SUFFICES ASSUME NEW n \in Nat
                 PROVE  n % ByteSize \in Byte /\ n \div ByteSize \in Nat
      OBVIOUS
    <3>1. ByteSize \in Nat \ {0}
      BY ByteSizeAssumption
    <3> QED
      BY <3>1, Division DEF Byte
  <2>2. Len(r.name) \in Nat /\ Len(r.data) \in Nat
    BY <1>1 DEF Bytes
  <2> DEFINE n8 == Len(r.data) \div ByteSize
             n16 == n8 \div ByteSize
             n24 == n16 \div ByteSize
  <2>3. n8 \in Nat /\ n16 \in Nat /\ n24 \in Nat
    BY <2>1, <2>2
  <2>4. {Len(r.name) % ByteSize, Len(r.data) % ByteSize, n8 % ByteSize, n16 % ByteSize,
         n24 % ByteSize} \subseteq Byte
    BY <2>1, <2>2, <2>3
  <2> QED
    BY <2>4 DEF LittleEndian, Bytes
<1>4. {Zeros(1), Zeros(16), Zeros(17), Zeros(20), Zeros(21)} \subseteq Bytes
  BY ZerosType
<1>5. \A a, b \in Bytes : a \o b \in Bytes
  BY DEF Bytes
<1> HIDE DEF flag, name_len, data_len
<1>6. ResponseTag(r) \in Bytes
  <2>1. CASE r.kind = "Message"
    <3>1. ResponseTag(r) = flag \o (r.id \o data_len \o Zeros(1))
      BY <2>1 DEF ResponseTag, Named, NamedWithLobby, flag, data_len
    <3> QED
      BY <1>1, <1>2, <1>3, <1>4, <1>5, <2>1, <3>1, Zenon
  <2>2. CASE r.kind = "Lobby"
    <3>1. ResponseTag(r) = flag \o (data_len \o Zeros(17))
      BY <2>2 DEF ResponseTag, Named, NamedWithLobby, flag, data_len
    <3> QED
      BY <1>2, <1>3, <1>4, <1>5, <3>1
  <2>3. CASE r.kind \in NamedWithLobby
    <3>1. ResponseTag(r) = flag \o (name_len \o data_len \o Zeros(16))
      BY <2>3 DEF ResponseTag, NamedWithLobby, flag, name_len, data_len
    <3> QED
      BY <1>2, <1>3, <1>4, <1>5, <3>1
  <2>4. CASE r.kind \in Named \ NamedWithLobby
    <3>1. ResponseTag(r) = flag \o (name_len \o Zeros(20))
      BY <2>4 DEF ResponseTag, Named, NamedWithLobby, flag, name_len
    <3> QED
      BY <1>2, <1>3, <1>4, <1>5, <3>1
  <2>5. CASE r.kind \notin Named \cup WithData
    <3>1. ResponseTag(r) = flag \o Zeros(21)
      BY <2>5 DEF ResponseTag, Named, WithData, flag
    <3> QED
      BY <1>2, <1>4, <1>5, <3>1
  <2> QED
    BY <2>1, <2>2, <2>3, <2>4, <2>5 DEF WithData, Named
<1> QED
  BY <1>1, <1>5, <1>6 DEF ResponseBytes

\* Responses that are written come last in the stream.
LEMMA ResponsesWritten ==
  ASSUME NEW a \in Seq(AnyResponse), NEW b \in Seq(AnyResponse)
  PROVE  /\ ResponseStream(a) \in Bytes
         /\ ResponseStream(a \o b) = ResponseStream(a) \o ResponseStream(b)
<1>1. \A s \in Seq(AnyResponse) :
        /\ ResponseTexts(s) \in Seq(Bytes)
        /\ ResponseStream(s) = FlattenSeq(ResponseTexts(s))
  <2> SUFFICES ASSUME NEW s \in Seq(AnyResponse)
               PROVE  /\ ResponseTexts(s) \in Seq(Bytes)
                      /\ ResponseStream(s) = FlattenSeq(ResponseTexts(s))
    OBVIOUS
  <2>1. \A i \in 1 .. Len(s) : ResponseBytes(s[i]) \in Bytes
    BY ResponseBytesType
  <2> QED
    BY <2>1 DEF ResponseTexts, ResponseStream, BytesOf
<1>2. ResponseTexts(a \o b) = ResponseTexts(a) \o ResponseTexts(b)
  BY DEF ResponseTexts
<1>3. a \o b \in Seq(AnyResponse)
  OBVIOUS
<1> DEFINE s == ResponseTexts(a)
           t == ResponseTexts(b)
<1>4. /\ s \in Seq(Bytes) /\ t \in Seq(Bytes)
      /\ ResponseStream(a) = FlattenSeq(s) /\ ResponseStream(b) = FlattenSeq(t)
      /\ ResponseStream(a \o b) = FlattenSeq(s \o t)
  BY <1>1, <1>2, <1>3, Zenon
<1> HIDE DEF s, t
<1>5. FlattenSeq(s \o t) = FlattenSeq(s) \o FlattenSeq(t) /\ FlattenSeq(s) \in Bytes
  <2>1. <<>> \in Bytes
    BY DEF Bytes
  <2> QED
    BY <1>4, <2>1, FlattenConcat, FlattenAppend
<1> QED
  BY <1>4, <1>5, Zenon

\* One response is its bytes.
LEMMA OneResponse ==
  ASSUME NEW r \in AnyResponse
  PROVE  ResponseStream(<<r>>) = ResponseBytes(r)
<1>1. ResponseBytes(r) \in Bytes
  BY ResponseBytesType
<1>2. ResponseTexts(<<r>>) = <<ResponseBytes(r)>>
  BY DEF ResponseTexts
<1>3. <<ResponseBytes(r)>> = Append(<<>>, ResponseBytes(r)) /\ <<>> \in Seq(Bytes)
  OBVIOUS
<1>4. FlattenSeq(<<ResponseBytes(r)>>) = <<>> \o ResponseBytes(r)
  BY <1>1, <1>3, FlattenAppend, FlattenEmpty
<1>5. ResponseStream(<<r>>) = FlattenSeq(ResponseTexts(<<r>>))
  BY DEF ResponseStream, BytesOf, ResponseTexts
<1> QED
  BY <1>1, <1>2, <1>4, <1>5, ConcatEmptySeq DEF Bytes

\* The first response is at the front of the stream.
LEMMA ResponseFirst ==
  ASSUME NEW responses \in Seq(ResponseValue), responses # <<>>
  PROVE  /\ Head(responses) \in ResponseValue /\ Tail(responses) \in Seq(ResponseValue)
         /\ ResponseStream(Tail(responses)) \in Bytes
         /\ ResponseStream(responses)
              = ResponseBytes(Head(responses)) \o ResponseStream(Tail(responses))
<1> DEFINE r == Head(responses)
           rest == Tail(responses)
<1>1. r \in ResponseValue /\ rest \in Seq(ResponseValue) /\ responses = <<r>> \o rest
  OBVIOUS
<1> HIDE DEF r, rest
<1>2. <<r>> \in Seq(AnyResponse) /\ rest \in Seq(AnyResponse)
  BY <1>1, ValuesAreResponses, SeqMonotonic
<1>3. /\ ResponseStream(responses) = ResponseStream(<<r>>) \o ResponseStream(rest)
      /\ ResponseStream(rest) \in Bytes
  BY <1>1, <1>2, ResponsesWritten
<1>4. ResponseStream(<<r>>) = ResponseBytes(r)
  BY <1>1, ValuesAreResponses, OneResponse
<1> QED
  BY <1>1, <1>3, <1>4 DEF r, rest

-----------------------------------------------------------------------------
(* The lobby, written and read                                             *)

\* The function that LobbyBytes defines: the bytes of the first i chatrooms.
Lists(f, chatrooms) ==
  /\ f[0] = <<>>
  /\ \A i \in 1 .. Len(chatrooms) :
       f[i] = f[i - 1] \o ChatroomTag(chatrooms[i]) \o chatrooms[i].name

\* There is one, and LobbyBytes is its last value.
LEMMA LobbyLists ==
  ASSUME NEW chatrooms, Len(chatrooms) \in Nat
  PROVE  \E f : Lists(f, chatrooms) /\ LobbyBytes(chatrooms) = f[Len(chatrooms)]
<1> DEFINE len == Len(chatrooms)
           c(i) == ChatroomTag(chatrooms[i])
           name(i) == chatrooms[i].name
           Next1(f, i) == IF i = 0 THEN <<>> ELSE f[i - 1] \o c(i) \o name(i)
           Whole(f, n) == f = [i \in 0 .. n |-> Next1(f, i)]
           Upto(f, n) == /\ f = [i \in 0 .. n |-> f[i]]
                         /\ \A i \in 0 .. n : f[i] = Next1(f, i)
           T == {n \in Nat : \E f : Upto(f, n)}
<1>1. 0 \in T
  <2> DEFINE f == [i \in 0 .. 0 |-> <<>>]
  <2>1. f = [i \in 0 .. 0 |-> f[i]] /\ \A i \in 0 .. 0 : f[i] = <<>> /\ i = 0
    OBVIOUS
  <2> HIDE DEF f
  <2>2. Upto(f, 0)
    BY <2>1
  <2> HIDE DEF Upto
  <2> QED
    BY <2>2
<1>2. ASSUME NEW n \in T \cap Nat PROVE n + 1 \in T
  <2>0. PICK f : Upto(f, n)
    OBVIOUS
  <2>1. \A i \in 0 .. n : f[i] = Next1(f, i)
    BY <2>0, Zenon
  <2> DEFINE g == [i \in 0 .. n + 1 |-> Next1(f, i)]
  <2> HIDE DEF c, name
  <2>2. \A i \in 0 .. n : g[i] = f[i]
    BY <2>1
  <2>3. \A i \in 0 .. n + 1 : i # 0 => i - 1 \in 0 .. n
    OBVIOUS
  <2>4. g = [i \in 0 .. n + 1 |-> g[i]]
    OBVIOUS
  <2>5. \A i \in 0 .. n + 1 : g[i] = Next1(g, i)
    <3>1. \A i \in 0 .. n + 1 : g[i] = Next1(f, i)
      OBVIOUS
    <3> HIDE DEF g
    <3> QED
      BY <2>2, <2>3, <3>1
  <2> HIDE DEF g
  <2>6. Upto(g, n + 1)
    BY <2>4, <2>5
  <2> HIDE DEF Upto
  <2> QED
    BY <2>6
<1>3. len \in T
  <2> HIDE DEF T
  <2> QED
    BY <1>1, <1>2, NumbersReached
<1>4. PICK f : Upto(f, len)
  BY <1>3
<1>5. [i \in 0 .. len |-> f[i]] = [i \in 0 .. len |-> Next1(f, i)]
  BY <1>4, Zenon
<1>6. Whole(f, len)
  BY <1>4, <1>5, Zenon
<1> DEFINE h == CHOOSE g : Whole(g, len)
<1>7. Whole(h, len)
  BY <1>6, Zenon
<1>8. LobbyBytes(chatrooms) = h[len]
  BY Zenon DEF LobbyBytes
<1>9. h[0] = <<>>
  <2>1. 0 \in 0 .. len
    OBVIOUS
  <2> QED
    BY <1>7, <2>1, Zenon
<1>10. ASSUME NEW i \in 1 .. len
       PROVE  h[i] = h[i - 1] \o c(i) \o name(i)
  <2>1. i \in 0 .. len /\ i # 0
    OBVIOUS
  <2> QED
    BY <1>7, <2>1, Zenon
<1> HIDE DEF h
<1>11. Lists(h, chatrooms)
  BY <1>9, <1>10 DEF Lists
<1> QED
  BY <1>8, <1>11

\* The bytes of a chatroom.
LEMMA ChatroomBytes ==
  ASSUME NEW c \in ChatroomValue
  PROVE  /\ ChatroomTag(c) \in Bytes /\ Len(ChatroomTag(c)) = 12
         /\ c.name \in Bytes /\ Len(c.name) \in Nat
<1>1. c.name \in Bytes /\ Len(c.name) \in U32 /\ c.capacity \in U32 /\ c.num_clients \in U32
  BY DEF ChatroomValue, Text
<1> DEFINE x == LittleEndian(Len(c.name))
           y == LittleEndian(c.capacity)
           z == LittleEndian(c.num_clients)
<1>2. /\ x \in Bytes /\ Len(x) = 4
      /\ y \in Bytes /\ Len(y) = 4
      /\ z \in Bytes /\ Len(z) = 4
  BY <1>1, LittleEndianRead
<1> HIDE DEF x, y, z
<1>3. x \o y \o z \in Bytes /\ Len(x \o y \o z) = 12
  <2> DEFINE xy == x \o y
  <2>0. Two(xy, x, y)
    BY DEF Two
  <2>1. xy \in Bytes /\ Len(xy) = 8
    <3>1. xy \in Bytes /\ Len(xy) = Len(x) + Len(y)
      BY <1>2, <2>0, TwoParts, Zenon
    <3> QED
      BY <1>2, <3>1
  <2> HIDE DEF xy
  <2>2. Two(xy \o z, xy, z)
    BY DEF Two
  <2>3. xy \o z \in Bytes /\ Len(xy \o z) = Len(xy) + Len(z)
    BY <1>2, <2>1, <2>2, TwoParts
  <2>4. Len(xy \o z) = 12
    BY <1>2, <2>1, <2>3
  <2> QED
    BY <2>3, <2>4, Zenon DEF xy
<1>4. ChatroomTag(c) = x \o y \o z
  BY DEF ChatroomTag, x, y, z
<1> QED
  BY <1>1, <1>3, <1>4 DEF Bytes

\* The bytes up to the i-th chatroom are at the front of the lobby's.
LEMMA ListsInOrder ==
  ASSUME NEW chatrooms \in Seq(ChatroomValue), NEW f, Lists(f, chatrooms)
  PROVE  \A i \in 0 .. Len(chatrooms) :
           f[i] \in Bytes /\ \E rest \in Bytes : f[Len(chatrooms)] = f[i] \o rest
<1> DEFINE len == Len(chatrooms)
           entry(i) == ChatroomTag(chatrooms[i]) \o chatrooms[i].name
<1>1. len \in Nat
  OBVIOUS
<1>2. ASSUME NEW i \in 1 .. len, f[i - 1] \in Bytes
      PROVE  entry(i) \in Bytes /\ f[i] = f[i - 1] \o entry(i) /\ f[i] \in Bytes
  <2>1. ChatroomTag(chatrooms[i]) \in Bytes /\ chatrooms[i].name \in Bytes
    <3>1. chatrooms[i] \in ChatroomValue
      OBVIOUS
    <3> QED
      BY <3>1, ChatroomBytes
  <2>2. f[i] = f[i - 1] \o ChatroomTag(chatrooms[i]) \o chatrooms[i].name
    BY DEF Lists
  <2>3. f[i] = f[i - 1] \o entry(i)
    BY <1>2, <2>1, <2>2, Associative
  <2>4. entry(i) \in Bytes
    BY <2>1 DEF Bytes
  <2> HIDE DEF entry
  <2>5. f[i - 1] \o entry(i) \in Bytes
    BY <1>2, <2>4 DEF Bytes
  <2> QED
    BY <2>3, <2>4, <2>5
<1> HIDE DEF entry
<1> DEFINE T == {n \in Nat : n <= len => f[n] \in Bytes}
<1>3. 0 \in T
  <2>1. f[0] = <<>> /\ <<>> \in Bytes
    BY DEF Lists, Bytes
  <2> QED
    BY <2>1
<1>4. ASSUME NEW n \in T \cap Nat PROVE n + 1 \in T
  <2> SUFFICES ASSUME n + 1 <= len PROVE f[n + 1] \in Bytes
    OBVIOUS
  <2> DEFINE m == n + 1
  <2>1. m \in 1 .. len /\ m - 1 = n /\ f[n] \in Bytes
    BY <1>1
  <2> HIDE DEF m
  <2>2. f[m] \in Bytes
    BY <1>2, <2>1
  <2> QED
    BY <2>2 DEF m
<1>5. Nat \subseteq T
  <2> HIDE DEF T
  <2> QED
    BY <1>3, <1>4, NumbersReached
<1>6. \A i \in 0 .. len : f[i] \in Bytes
  BY <1>1, <1>5
<1> HIDE DEF T
<1> DEFINE U == {n \in Nat : n <= len => \E rest \in Bytes : f[len] = f[len - n] \o rest}
<1>7. 0 \in U
  <2>1. f[len] \in Bytes /\ len - 0 = len
    BY <1>1, <1>6
  <2>2. f[len] = f[len] \o <<>> /\ <<>> \in Bytes
    <3> HIDE DEF len
    <3> QED
      BY <2>1, ConcatEmptySeq DEF Bytes
  <2> QED
    BY <2>1, <2>2
<1>8. ASSUME NEW n \in U \cap Nat PROVE n + 1 \in U
  <2> DEFINE Ends(j) == \E rest \in Bytes : f[len] = f[j] \o rest
  <2>0. n + 1 \in Nat
    OBVIOUS
  <2> SUFFICES ASSUME n + 1 <= len PROVE Ends(len - (n + 1))
    BY <2>0, Zenon
  <2> DEFINE i == len - n
  <2>1. i \in 1 .. len /\ i - 1 \in 0 .. len /\ len - (n + 1) = i - 1
    BY <1>1
  <2>2. PICK rest \in Bytes : f[len] = f[i] \o rest
    BY <1>1
  <2> HIDE DEF i, len
  <2>3. f[i - 1] \in Bytes
    BY <1>6, <2>1
  <2>4. entry(i) \in Bytes /\ f[i] = f[i - 1] \o entry(i)
    BY <1>2, <2>1, <2>3
  <2>5. f[len] = f[i - 1] \o (entry(i) \o rest) /\ entry(i) \o rest \in Bytes
    <3>1. entry(i) \o rest \in Bytes
      BY <2>4 DEF Bytes
    <3>2. f[i - 1] \o (entry(i) \o rest) = f[i - 1] \o entry(i) \o rest
      BY <2>3, <2>4, Associative
    <3> QED
      BY <2>2, <2>4, <3>1, <3>2, Zenon
  <2>6. Ends(i - 1)
    BY <2>5
  <2> HIDE DEF Ends
  <2> QED
    BY <2>1, <2>6
<1>9. Nat \subseteq U
  <2> HIDE DEF U
  <2> QED
    BY <1>7, <1>8, NumbersReached
<1>10. ASSUME NEW i \in 0 .. len
       PROVE  \E rest \in Bytes : f[len] = f[i] \o rest
  <2>1. len - i \in Nat /\ len - i <= len /\ len - (len - i) = i
    BY <1>1
  <2>2. len - i \in U
    BY <1>9, <2>1
  <2> QED
    BY <2>1, <2>2
<1> QED
  BY <1>6, <1>10

\* One more byte in front of a number.
LEMMA OneMoreByte ==
  ASSUME NEW d \in Byte, NEW x \in Nat, NEW m \in Nat, x < m
  PROVE  d + ByteSize * x \in Nat /\ d + ByteSize * x < ByteSize * m
<1> DEFINE b == ByteSize
<1>1. b \in Nat /\ b > 0 /\ d \in Nat /\ d < b
  BY ByteSizeAssumption DEF Byte
<1> HIDE DEF b
<1>2. b * x \in Nat /\ b * (x + 1) = b * x + b /\ b * m \in Nat
  BY <1>1
<1>3. b * (x + 1) <= b * m
  <2>1. x + 1 \in Nat /\ x + 1 <= m
    OBVIOUS
  <2> QED
    BY <1>1, <2>1
<1>4. d + b * x \in Nat /\ d + b * x < b * m
  <2> DEFINE y == b * x
             z == b * m
             w == b * (x + 1)
  <2>1. y \in Nat /\ z \in Nat /\ w = y + b /\ w <= z
    BY <1>2, <1>3
  <2> HIDE DEF y, z, w
  <2>2. d + y \in Nat /\ d + y < z
    BY <1>1, <2>1
  <2> QED
    BY <2>2 DEF y, z
<1> QED
  BY <1>4 DEF b

\* Four bytes of a text hold a length.
LEMMA NumberBound ==
  ASSUME NEW bytes \in Bytes, NEW i \in Nat \ {0}, i + 3 <= Len(bytes)
  PROVE  Number(SubSeq(bytes, i, i + 3)) \in U32
<1> DEFINE s == SubSeq(bytes, i, i + 3)
<1>1. /\ s[1] \in Byte /\ s[2] \in Byte /\ s[3] \in Byte /\ s[4] \in Byte
  BY DEF Bytes
<1> HIDE DEF s
<1> DEFINE b == ByteSize
           x1 == s[4]
           x2 == s[3] + b * x1
           x3 == s[2] + b * x2
           x4 == s[1] + b * x3
<1>2. x1 \in Nat /\ x1 < b /\ b \in Nat
  BY <1>1, ByteSizeAssumption DEF Byte
<1> HIDE DEF x1
<1>3. x2 \in Nat /\ x2 < b * b
  BY <1>1, <1>2, OneMoreByte
<1> HIDE DEF x2
<1>4. b * b \in Nat /\ b * (b * b) \in Nat /\ b * (b * (b * b)) \in Nat
  BY <1>2
<1>5. x3 \in Nat /\ x3 < b * (b * b)
  BY <1>1, <1>3, <1>4, OneMoreByte
<1> HIDE DEF x3
<1>6. x4 \in Nat /\ x4 < b * (b * (b * b))
  BY <1>1, <1>4, <1>5, OneMoreByte
<1>7. Number(s) = x4
  BY DEF Number, x1, x2, x3
<1> HIDE DEF x4
<1>8. x4 \in U32
  BY <1>4, <1>6 DEF U32
<1> QED
  BY <1>7, <1>8 DEF s

\* A chatroom that is read whole is one, and ends within the text.
LEMMA ChatroomTyped ==
  ASSUME NEW bytes \in Bytes, NEW i \in Nat \ {0}, WholeAt(bytes, i)
  PROVE  /\ ChatroomAt(bytes, i) \in ChatroomValue
         /\ NextAt(bytes, i) \in i + 1 .. Len(bytes) + 1
<1> DEFINE len == Number(SubSeq(bytes, i, i + 3))
           name == SubSeq(bytes, i + 12, NextAt(bytes, i) - 1)
<1>1. Len(bytes) \in Nat /\ Len(bytes) >= i + 11
  BY DEF WholeAt, Bytes
<1>2. /\ len \in U32 /\ len \in Nat
      /\ Number(SubSeq(bytes, i + 4, i + 7)) \in U32
      /\ Number(SubSeq(bytes, i + 8, i + 11)) \in U32
  <2>1. /\ i + 4 \in Nat \ {0} /\ i + 4 + 3 = i + 7 /\ i + 7 <= Len(bytes)
        /\ i + 8 \in Nat \ {0} /\ i + 8 + 3 = i + 11 /\ i + 11 <= Len(bytes)
        /\ i + 3 <= Len(bytes)
    BY <1>1
  <2>2. len \in U32
    BY <2>1, NumberBound
  <2>3. Number(SubSeq(bytes, i + 4, i + 4 + 3)) \in U32
    BY <2>1, NumberBound
  <2>4. Number(SubSeq(bytes, i + 8, i + 8 + 3)) \in U32
    BY <2>1, NumberBound
  <2>5. \A n \in U32 : n \in Nat
    BY DEF U32
  <2> QED
    BY <2>1, <2>2, <2>3, <2>4, <2>5
<1>3. NextAt(bytes, i) = i + 12 + len
  BY DEF NextAt
<1>4. NextAt(bytes, i) \in i + 1 .. Len(bytes) + 1
  <2>1. Len(bytes) + 1 >= i + 12 + len
    BY <1>3 DEF WholeAt
  <2> HIDE DEF len
  <2> QED
    BY <1>1, <1>2, <1>3, <2>1
<1>5. name \in Text
  <2> DEFINE beyond == NextAt(bytes, i) - 1
  <2>1. beyond = i + 11 + len /\ beyond <= Len(bytes) /\ beyond \in Nat
    <3> HIDE DEF len
    <3> QED
      BY <1>1, <1>2, <1>3, <1>4
  <2> HIDE DEF beyond, len
  <2> DEFINE s == SubSeq(bytes, i + 12, beyond)
  <2>2. s \in Seq(Byte) /\ Len(s) = len
    <3>1. i + 12 \in Nat /\ beyond - (i + 12) + 1 = len /\ i + 12 >= 1
      BY <1>2, <2>1
    <3>2. \A j \in i + 12 .. beyond : bytes[j] \in Byte
      BY <1>1, <2>1, <3>1 DEF Bytes
    <3>3. /\ s \in Seq(Byte)
          /\ Len(s) = IF i + 12 <= beyond THEN beyond - (i + 12) + 1 ELSE 0
      <4>1. i + 12 \in Int /\ beyond \in Int
        BY <2>1
      <4> QED
        BY <3>2, <4>1, SubSeqProperties
    <3> QED
      BY <1>2, <2>1, <3>1, <3>3
  <2> QED
    BY <1>2, <2>2 DEF Text, Bytes, beyond
<1>6. ChatroomAt(bytes, i) =
        [name |-> name, capacity |-> Number(SubSeq(bytes, i + 4, i + 7)),
         num_clients |-> Number(SubSeq(bytes, i + 8, i + 11))]
  BY DEF ChatroomAt
<1> HIDE DEF name
<1>7. ChatroomAt(bytes, i) \in ChatroomValue
  BY <1>2, <1>5, <1>6 DEF ChatroomValue
<1> QED
  BY <1>4, <1>7

\* The function that LobbyPicture defines: what is read from position i on.
ReadFrom(f, bytes, i) ==
  IF i = Len(bytes) + 1 THEN [ok |-> TRUE, chatrooms |-> {}]
  ELSE IF ~WholeAt(bytes, i) THEN [ok |-> FALSE, chatrooms |-> {}]
  ELSE [f[NextAt(bytes, i)] EXCEPT !.chatrooms = @ \cup {ChatroomAt(bytes, i)}]

Reads(f, bytes) == \A i \in 1 .. Len(bytes) + 1 : f[i] = ReadFrom(f, bytes, i)

\* There is one, from the beyond position back, and LobbyPicture is its first value.
LEMMA PictureReads ==
  ASSUME NEW bytes \in Bytes
  PROVE  \E f : Reads(f, bytes) /\ LobbyPicture(bytes) = f[1]
<1> DEFINE beyond == Len(bytes) + 1
           Whole(f) == f = [i \in 1 .. beyond |-> ReadFrom(f, bytes, i)]
           From(f, n) == /\ f = [i \in 1 .. beyond |-> f[i]]
                         /\ \A i \in 1 .. beyond : i + n > beyond => f[i] = ReadFrom(f, bytes, i)
           T == {n \in Nat : \E f : From(f, n)}
<1>0. beyond \in Nat \ {0}
  BY DEF Bytes
<1>1. 0 \in T
  <2> DEFINE f == [i \in 1 .. beyond |-> 0]
  <2>1. f = [i \in 1 .. beyond |-> f[i]]
    OBVIOUS
  <2> HIDE DEF f, beyond
  <2>2. \A i \in 1 .. beyond : ~(i + 0 > beyond)
    BY <1>0
  <2>3. From(f, 0)
    BY <2>1, <2>2
  <2> HIDE DEF From
  <2> QED
    BY <2>3
<1>2. ASSUME NEW n \in T \cap Nat PROVE n + 1 \in T
  <2>0. PICK f : From(f, n)
    OBVIOUS
  <2>1. \A i \in 1 .. beyond : i + n > beyond => f[i] = ReadFrom(f, bytes, i)
    BY <2>0, Zenon
  <2> DEFINE g == [i \in 1 .. beyond |-> IF i + n > beyond THEN f[i] ELSE ReadFrom(f, bytes, i)]
  <2>2. g = [i \in 1 .. beyond |-> g[i]]
    OBVIOUS
  <2>3. \A i \in 1 .. beyond : i + (n + 1) > beyond => g[i] = ReadFrom(g, bytes, i)
    <3> SUFFICES ASSUME NEW i \in 1 .. beyond, i + (n + 1) > beyond
                 PROVE  g[i] = ReadFrom(g, bytes, i)
      OBVIOUS
    <3>1. g[i] = ReadFrom(f, bytes, i)
      BY <2>1
    <3>2. \A j \in 1 .. beyond : j > i => g[j] = f[j]
      <4> HIDE DEF beyond
      <4>1. \A j \in 1 .. beyond : j > i => j + n > beyond
        BY <1>0
      <4> QED
        BY <4>1
    <3>3. WholeAt(bytes, i) => g[NextAt(bytes, i)] = f[NextAt(bytes, i)]
      <4>1. i \in Nat \ {0}
        BY <1>0
      <4>2. WholeAt(bytes, i) => NextAt(bytes, i) \in i + 1 .. beyond
        BY <4>1, ChatroomTyped
      <4> HIDE DEF beyond, g
      <4>3. \A j \in i + 1 .. beyond : j \in 1 .. beyond /\ j > i
        BY <1>0, <4>1
      <4> QED
        BY <3>2, <4>2, <4>3
    <3> HIDE DEF g, beyond
    <3> QED
      BY <3>1, <3>3, Zenon DEF ReadFrom
  <2> HIDE DEF g
  <2>4. From(g, n + 1)
    BY <2>2, <2>3, Zenon
  <2> HIDE DEF From
  <2> QED
    BY <2>4
<1>3. beyond \in T
  <2> HIDE DEF T
  <2> QED
    BY <1>0, <1>1, <1>2, NumbersReached
<1>4. PICK f : From(f, beyond)
  BY <1>3
<1>5. \A i \in 1 .. beyond : i + beyond > beyond
  BY <1>0
<1>6. [i \in 1 .. beyond |-> f[i]] = [i \in 1 .. beyond |-> ReadFrom(f, bytes, i)]
  <2>1. \A i \in 1 .. beyond : f[i] = ReadFrom(f, bytes, i)
    BY <1>4, <1>5, Zenon
  <2> HIDE DEF beyond
  <2> QED
    BY <2>1, Zenon
<1>7. Whole(f)
  BY <1>4, <1>6, Zenon
<1> DEFINE h == CHOOSE g : Whole(g)
<1>8. Whole(h)
  BY <1>7, Zenon
<1>9. LobbyPicture(bytes) = h[1]
  BY Zenon DEF LobbyPicture, ReadFrom
<1>10. ASSUME NEW i \in 1 .. beyond PROVE h[i] = ReadFrom(h, bytes, i)
  BY <1>8, Zenon
<1> HIDE DEF h
<1> QED
  BY <1>9, <1>10 DEF Reads

\* Whatever the bytes are, what is read are chatrooms.
LEMMA PictureTyped ==
  ASSUME NEW bytes \in Bytes
  PROVE  LobbyPicture(bytes) \in [ok : BOOLEAN, chatrooms : SUBSET ChatroomValue]
<1> DEFINE beyond == Len(bytes) + 1
           Pictures == [ok : BOOLEAN, chatrooms : SUBSET ChatroomValue]
<1>0. beyond \in Nat \ {0}
  BY DEF Bytes
<1>1. PICK f : Reads(f, bytes) /\ LobbyPicture(bytes) = f[1]
  BY PictureReads
<1> DEFINE T == {n \in Nat : \A i \in 1 .. beyond : i + n > beyond => f[i] \in Pictures}
<1>2. 0 \in T
  <2> HIDE DEF beyond
  <2> QED
    BY <1>0
<1>3. ASSUME NEW n \in T \cap Nat PROVE n + 1 \in T
  <2> SUFFICES ASSUME NEW i \in 1 .. beyond, i + (n + 1) > beyond PROVE f[i] \in Pictures
    OBVIOUS
  <2>1. f[i] = ReadFrom(f, bytes, i)
    BY <1>1 DEF Reads
  <2>2. CASE i = beyond
    BY <2>1, <2>2 DEF ReadFrom
  <2>3. CASE i # beyond /\ ~WholeAt(bytes, i)
    BY <2>1, <2>3 DEF ReadFrom
  <2>4. CASE i # beyond /\ WholeAt(bytes, i)
    <3> DEFINE j == NextAt(bytes, i)
               c == ChatroomAt(bytes, i)
    <3>1. i \in Nat \ {0}
      BY <1>0
    <3>2. c \in ChatroomValue /\ j \in i + 1 .. beyond
      BY <2>4, <3>1, ChatroomTyped
    <3>3. f[i] = [f[j] EXCEPT !.chatrooms = @ \cup {c}]
      BY <2>1, <2>4 DEF ReadFrom
    <3> HIDE DEF j, c, beyond
    <3>4. j \in 1 .. beyond /\ j + n > beyond
      BY <1>0, <3>1, <3>2
    <3>5. f[j] \in Pictures
      BY <3>4
    <3> HIDE DEF T
    <3> QED
      BY <3>2, <3>3, <3>5
  <2> QED
    BY <2>2, <2>3, <2>4
<1>4. beyond \in T
  <2> HIDE DEF T
  <2> QED
    BY <1>0, <1>2, <1>3, NumbersReached
<1>5. 1 \in 1 .. beyond /\ 1 + beyond > beyond
  BY <1>0
<1> QED
  BY <1>1, <1>4, <1>5

\* A lobby that was written is read: the same chatrooms, as a set
\* (create_lobby_state, ChatroomFrames::try_from).
THEOREM LobbyRead ==
  ASSUME NEW chatrooms \in Seq(ChatroomValue)
  PROVE  /\ LobbyBytes(chatrooms) \in Bytes
         /\ LobbyPicture(LobbyBytes(chatrooms))
              = [ok |-> TRUE, chatrooms |-> {chatrooms[i] : i \in DOMAIN chatrooms}]
<1> DEFINE len == Len(chatrooms)
           bytes == LobbyBytes(chatrooms)
<1>1. /\ len \in Nat /\ DOMAIN chatrooms = 1 .. len
      /\ \A i \in 1 .. len : chatrooms[i] \in ChatroomValue
  OBVIOUS
<1>2. PICK f : Lists(f, chatrooms) /\ bytes = f[len]
  BY <1>1, LobbyLists
<1>3. \A i \in 0 .. len : f[i] \in Bytes /\ \E rest \in Bytes : bytes = f[i] \o rest
  BY <1>2, ListsInOrder
<1>4. bytes \in Bytes
  BY <1>1, <1>2, <1>3
<1> HIDE DEF bytes, len
<1>5. PICK g : Reads(g, bytes) /\ LobbyPicture(bytes) = g[1]
  BY <1>4, PictureReads
\* The position behind the first k chatrooms.
<1> DEFINE At(k) == Len(f[k]) + 1
<1>6. ASSUME NEW i \in 1 .. len
      PROVE  /\ At(i - 1) \in 1 .. Len(bytes) + 1 /\ At(i - 1) # Len(bytes) + 1
             /\ WholeAt(bytes, At(i - 1)) /\ ChatroomAt(bytes, At(i - 1)) = chatrooms[i]
             /\ NextAt(bytes, At(i - 1)) = At(i)
  <2> DEFINE c == chatrooms[i]
             before == f[i - 1]
             entry == ChatroomTag(c) \o c.name
  <2>1. c \in ChatroomValue /\ i \in 0 .. len /\ i - 1 \in 0 .. len
    BY <1>1
  <2>2. before \in Bytes /\ f[i] \in Bytes
    BY <1>3, <2>1
  <2>3. /\ ChatroomTag(c) \in Bytes /\ Len(ChatroomTag(c)) = 12
        /\ c.name \in Bytes /\ Len(c.name) \in Nat
    BY <2>1, ChatroomBytes
  <2>4. f[i] = before \o ChatroomTag(c) \o c.name
    BY <1>2 DEF Lists, len
  <2>5. PICK rest \in Bytes : bytes = f[i] \o rest
    BY <1>3, <2>1
  <2> HIDE DEF c, before
  <2>6. f[i] = before \o entry
    BY <2>2, <2>3, <2>4, Associative
  <2>7. /\ WholeAt(bytes, Len(before) + 1) /\ ChatroomAt(bytes, Len(before) + 1) = c
        /\ NextAt(bytes, Len(before) + 1) = Len(before) + 1 + 12 + Len(c.name)
    <3>1. bytes = before \o (ChatroomTag(c) \o c.name) \o rest
      BY <2>5, <2>6, Zenon
    <3> QED
      BY <2>1, <2>2, <3>1, ChatroomWhole, Zenon
  <2>8. Len(f[i]) = Len(before) + 12 + Len(c.name) /\ Len(bytes) = Len(f[i]) + Len(rest)
    <3>1. Three(f[i], before, ChatroomTag(c), c.name)
      BY <2>4 DEF Three
    <3>2. Len(f[i]) = Len(before) + Len(ChatroomTag(c)) + Len(c.name)
      <4> DEFINE tag == ChatroomTag(c)
                 name == c.name
                 t == f[i]
      <4>1. Three(t, before, tag, name) /\ tag \in Bytes /\ name \in Bytes
        BY <2>3, <3>1
      <4> HIDE DEF tag, name, t
      <4>2. Len(t) = Len(before) + Len(tag) + Len(name)
        BY <2>2, <4>1, ThreeParts
      <4> QED
        BY <4>2 DEF tag, name, t
    <3>3. Two(bytes, f[i], rest)
      BY <2>5 DEF Two
    <3>4. Len(bytes) = Len(f[i]) + Len(rest)
      BY <2>2, <3>3, TwoParts, Zenon
    <3> QED
      BY <2>3, <3>2, <3>4
  <2>9. Len(before) \in Nat /\ Len(rest) \in Nat
    BY <2>2 DEF Bytes
  <2>10. /\ Len(before) + 1 \in 1 .. Len(bytes) + 1 /\ Len(before) + 1 # Len(bytes) + 1
         /\ Len(before) + 1 + 12 + Len(c.name) = Len(f[i]) + 1
    <3> DEFINE x == Len(before)
               y == Len(c.name)
               z == Len(rest)
               w == Len(f[i])
               v == Len(bytes)
    <3>1. x \in Nat /\ y \in Nat /\ z \in Nat /\ w = x + 12 + y /\ v = w + z
      BY <2>3, <2>8, <2>9
    <3> HIDE DEF x, y, z, w, v
    <3>2. x + 1 \in 1 .. v + 1 /\ x + 1 # v + 1 /\ x + 1 + 12 + y = w + 1
      BY <3>1
    <3> QED
      BY <3>2 DEF x, y, z, w, v
  <2> QED
    BY <2>7, <2>10 DEF c, before
<1> DEFINE Right(k) == g[At(k)] = [ok |-> TRUE, chatrooms |-> {chatrooms[i] : i \in k + 1 .. len}]
           T == {n \in Nat : n <= len => Right(len - n)}
<1>7. 0 \in T
  <2>1. At(len) = Len(bytes) + 1 /\ Len(bytes) + 1 \in 1 .. Len(bytes) + 1
    BY <1>2, <1>4 DEF Bytes
  <2>2. g[At(len)] = [ok |-> TRUE, chatrooms |-> {}]
    BY <1>5, <2>1, Zenon DEF Reads, ReadFrom
  <2>3. {chatrooms[i] : i \in len + 1 .. len} = {} /\ len - 0 = len
    BY <1>1
  <2>4. Right(len - 0)
    BY <2>2, <2>3, Zenon
  <2> HIDE DEF Right
  <2> QED
    BY <2>4
<1>8. ASSUME NEW n \in T \cap Nat PROVE n + 1 \in T
  <2>0. n + 1 \in Nat
    OBVIOUS
  <2> SUFFICES ASSUME n + 1 <= len PROVE Right(len - (n + 1))
    BY <2>0, Zenon
  <2> DEFINE i == len - n
  <2>1. i \in 1 .. len /\ len - (n + 1) = i - 1 /\ i - 1 + 1 = i
    BY <1>1
  <2>2. g[At(i)] = [ok |-> TRUE, chatrooms |-> {chatrooms[j] : j \in i + 1 .. len}]
    BY <1>1
  <2> HIDE DEF i
  <2>3. g[At(i - 1)] = [g[At(i)] EXCEPT !.chatrooms = @ \cup {chatrooms[i]}]
    BY <1>5, <1>6, <2>1, Zenon DEF Reads, ReadFrom
  <2>4. {chatrooms[j] : j \in i + 1 .. len} \cup {chatrooms[i]}
          = {chatrooms[j] : j \in i .. len}
    <3>1. \A j : j \in i .. len <=> j \in i + 1 .. len \/ j = i
      BY <1>1, <2>1
    <3> QED
      BY <3>1, Zenon
  <2>5. g[At(i - 1)] = [ok |-> TRUE, chatrooms |-> {chatrooms[j] : j \in i .. len}]
    <3> DEFINE S == {chatrooms[j] : j \in i + 1 .. len}
               U == {chatrooms[j] : j \in i .. len}
               here == g[At(i - 1)]
               there == g[At(i)]
               c == chatrooms[i]
    <3>1. /\ there = [ok |-> TRUE, chatrooms |-> S] /\ S \cup {c} = U
          /\ here = [there EXCEPT !.chatrooms = @ \cup {c}]
      BY <2>2, <2>3, <2>4, Zenon
    <3> HIDE DEF S, U, here, there, c
    <3>2. here = [ok |-> TRUE, chatrooms |-> U]
      BY <3>1
    <3> QED
      BY <3>2 DEF U, here
  <2>6. Right(i - 1)
    BY <2>1, <2>5, Zenon
  <2> HIDE DEF Right
  <2> QED
    BY <2>1, <2>6
<1>9. len \in T
  <2> HIDE DEF T
  <2> QED
    BY <1>1, <1>7, <1>8, NumbersReached
<1>10. Right(0)
  <2>1. len <= len /\ len - len = 0
    BY <1>1
  <2> HIDE DEF Right
  <2> QED
    BY <1>9, <2>1
<1>11. At(0) = 1
  <2>1. f[0] = <<>>
    BY <1>2 DEF Lists
  <2> QED
    BY <2>1
<1>12. {chatrooms[i] : i \in 0 + 1 .. len} = {chatrooms[i] : i \in 1 .. len}
  <2>1. 0 + 1 = 1
    OBVIOUS
  <2> QED
    BY <2>1, Zenon
<1> QED
  BY <1>1, <1>4, <1>5, <1>10, <1>11, <1>12, Zenon DEF bytes

-----------------------------------------------------------------------------
(* What the two ends take from the streams                                 *)

\* What is behind the first of two texts.
LEMMA Behind ==
  ASSUME NEW a \in Bytes, NEW b \in Bytes
  PROVE  SubSeq(a \o b, Len(a) + 1, Len(a \o b)) = b
<1> DEFINE t == a \o b
           n == Len(a) + 1
<1>1. /\ t \in Bytes /\ Len(t) = Len(a) + Len(b) /\ Len(a) \in Nat /\ Len(b) \in Nat
      /\ \A i \in 1 .. Len(b) : t[Len(a) + i] = b[i]
  BY DEF Bytes
<1> HIDE DEF t
<1>2. /\ SubSeq(t, n, Len(t)) \in Bytes /\ Len(SubSeq(t, n, Len(t))) = Len(b)
      /\ \A i \in 1 .. Len(b) : SubSeq(t, n, Len(t))[i] = t[Len(a) + i]
  BY <1>1 DEF Bytes
<1>3. SubSeq(t, n, Len(t)) = b
  BY <1>1, <1>2 DEF Bytes
<1> QED
  BY <1>3 DEF t

\* A frame that the server makes of the stream is the first that was sent, and
\* the stream of the others is left.
LEMMA FramesTaken ==
  ASSUME NEW frames \in Seq(FrameValue), NEW stream, stream = FrameStream(frames),
         NEW o \in FrameOutcomes(stream), o.outcome = "parsed"
  PROVE  /\ frames # <<>> /\ o.value = Head(frames) /\ Head(frames) \in FrameValue
         /\ Tail(frames) \in Seq(FrameValue)
         /\ SubSeq(stream, o.size + 1, Len(stream)) = FrameStream(Tail(frames))
<1>1. frames # <<>>
  <2>1. ASSUME frames = <<>> PROVE FALSE
    <3>1. FrameStream(frames) = FlattenSeq(<<>>)
      <4>1. [i \in DOMAIN frames |-> FrameBytes(frames[i])] = <<>>
        BY <2>1
      <4> QED
        BY <4>1, Zenon DEF FrameStream, BytesOf
    <3>2. stream = <<>>
      BY <3>1, FlattenEmpty
    <3>3. FrameOutcomes(stream) = {Unfinished}
      BY <3>2 DEF FrameOutcomes
    <3> QED
      BY <3>3 DEF Unfinished
  <2> QED
    BY <2>1
<1> DEFINE f == Head(frames)
           rest == FrameStream(Tail(frames))
<1>2. /\ f \in FrameValue /\ Tail(frames) \in Seq(FrameValue) /\ rest \in Bytes
      /\ stream = FrameBytes(f) \o rest
  BY <1>1, FrameFirst
<1> HIDE DEF f, rest
<1>3. FrameOutcomes(stream) =
        {Parsed(f, Len(FrameBytes(f)))} \cup (IF Ascii(f.text) THEN {} ELSE {Failed})
  BY <1>2, FrameWhole, Zenon
<1>4. o = Parsed(f, Len(FrameBytes(f)))
  BY <1>3 DEF Failed
<1>5. o.value = f /\ o.size = Len(FrameBytes(f))
  BY <1>4 DEF Parsed
<1>6. SubSeq(stream, o.size + 1, Len(stream)) = rest
  BY <1>2, <1>5, FrameBytesType, Behind
<1> QED
  BY <1>1, <1>2, <1>5, <1>6 DEF f, rest

\* What the names and the texts of a response make of its reading.
Readable(r) == Ascii(r.name) /\ (r.kind = "Message" => Ascii(r.data))

\* No bytes are no response.
LEMMA NothingTaken ==
  /\ ResponseStream(<<>>) = <<>> /\ ResponseOutcomes(<<>>) = {Unfinished}
<1>1. [i \in DOMAIN <<>> |-> ResponseBytes(<<>>[i])] = <<>>
  OBVIOUS
<1>2. ResponseStream(<<>>) = <<>>
  BY <1>1, FlattenEmpty, Zenon DEF ResponseStream, BytesOf
<1> QED
  BY <1>2 DEF ResponseOutcomes

\* A response that the client reads whole is the first that was written, and
\* the stream of the others is left.  Only a text that is not ASCII is refused.
LEMMA ResponsesTaken ==
  ASSUME NEW responses \in Seq(ResponseValue), NEW stream, stream = ResponseStream(responses),
         NEW o \in ResponseOutcomes(stream), o.outcome # "unfinished"
  PROVE  /\ responses # <<>>
         /\ Head(responses) \in ResponseValue /\ Tail(responses) \in Seq(ResponseValue)
         /\ o.outcome # "panicked"
         /\ o.outcome = "failed" => ~Readable(Head(responses))
         /\ o.outcome = "parsed" =>
              /\ o.value = Head(responses)
              /\ SubSeq(stream, o.size + 1, Len(stream)) = ResponseStream(Tail(responses))
<1>1. responses # <<>>
  <2>1. ASSUME responses = <<>> PROVE FALSE
    BY <2>1, NothingTaken DEF Unfinished
  <2> QED
    BY <2>1
<1> DEFINE r == Head(responses)
           rest == ResponseStream(Tail(responses))
<1>2. /\ r \in ResponseValue /\ Tail(responses) \in Seq(ResponseValue) /\ rest \in Bytes
      /\ stream = ResponseBytes(r) \o rest
  BY <1>1, ResponseFirst
<1> HIDE DEF r, rest
<1>3. ResponseOutcomes(stream) =
        {Parsed(r, Len(ResponseBytes(r)))} \cup (IF ~Readable(r) THEN {Failed} ELSE {})
  <2>1. ResponseOutcomes(stream) =
          {Parsed(r, Len(ResponseBytes(r)))}
             \cup (IF ~Ascii(r.name) \/ (r.kind = "Message" /\ ~Ascii(r.data))
                   THEN {Failed} ELSE {})
    BY <1>2, ResponseWhole, Zenon
  <2> QED
    BY <2>1 DEF Readable
<1>4. \/ o = Parsed(r, Len(ResponseBytes(r)))
      \/ o = Failed /\ ~Readable(r)
  BY <1>3
<1>5. /\ o.outcome # "panicked" /\ (o.outcome = "failed" => ~Readable(r))
      /\ o.outcome = "parsed" => o.value = r /\ o.size = Len(ResponseBytes(r))
  BY <1>4 DEF Parsed, Failed
<1>6. o.outcome = "parsed" => SubSeq(stream, o.size + 1, Len(stream)) = rest
  BY <1>2, <1>5, ResponseLength, Behind
<1> QED
  BY <1>1, <1>2, <1>5, <1>6 DEF r, rest

\* Where the bytes of two texts are.
LEMMA Indexed ==
  ASSUME NEW a \in Bytes, NEW b \in Bytes
  PROVE  /\ a \o b \in Bytes /\ Len(a \o b) = Len(a) + Len(b)
         /\ \A i \in 1 .. Len(a \o b) :
              (a \o b)[i] = IF i <= Len(a) THEN a[i] ELSE b[i - Len(a)]
  BY DEF Bytes

\* A byte that moves from the front of one text to the end of the one before.
LEMMA HeadMoves ==
  ASSUME NEW a \in Bytes, NEW b \in Bytes, b # <<>>
  PROVE  /\ Append(a, Head(b)) \in Bytes /\ Tail(b) \in Bytes
         /\ Len(Append(a, Head(b))) = Len(a) + 1
         /\ Append(a, Head(b)) \o Tail(b) = a \o b
<1> DEFINE c == Append(a, Head(b))
           d == Tail(b)
           s == c \o d
           t == a \o b
<1>1. Len(a) \in Nat /\ Len(b) \in Nat /\ Len(b) >= 1
  BY DEF Bytes
<1>2. /\ c \in Bytes /\ Len(c) = Len(a) + 1
      /\ c[Len(a) + 1] = b[1] /\ \A i \in 1 .. Len(a) : c[i] = a[i]
  BY DEF Bytes
<1>3. /\ d \in Bytes /\ Len(d) = Len(b) - 1
      /\ \A i \in 1 .. Len(b) - 1 : d[i] = b[i + 1]
  BY DEF Bytes
<1>4. /\ t \in Bytes /\ Len(t) = Len(a) + Len(b)
      /\ \A i \in 1 .. Len(t) : t[i] = IF i <= Len(a) THEN a[i] ELSE b[i - Len(a)]
  BY DEF Bytes
<1> HIDE DEF c, d
<1>5. /\ s \in Bytes /\ Len(s) = Len(c) + Len(d)
      /\ \A i \in 1 .. Len(s) : s[i] = IF i <= Len(c) THEN c[i] ELSE d[i - Len(c)]
  BY <1>2, <1>3, Indexed
<1> HIDE DEF s, t
<1>6. Len(s) = Len(t)
  BY <1>1, <1>2, <1>3, <1>4, <1>5
<1>7. ASSUME NEW i \in 1 .. Len(s) PROVE s[i] = t[i]
  <2>1. CASE i <= Len(a)
    BY <1>1, <1>2, <1>4, <1>5, <1>6, <2>1
  <2>2. CASE i = Len(a) + 1
    <3>1. s[i] = c[i] /\ c[i] = b[1]
      BY <1>1, <1>2, <1>5, <2>2
    <3>2. t[i] = b[i - Len(a)] /\ i - Len(a) = 1
      BY <1>1, <1>4, <1>6, <2>2
    <3> QED
      BY <3>1, <3>2
  <2>3. CASE i > Len(a) + 1
    <3> DEFINE j == i - Len(c)
    <3>1. s[i] = d[j] /\ j \in 1 .. Len(b) - 1 /\ j + 1 = i - Len(a)
      BY <1>1, <1>2, <1>3, <1>5, <2>3
    <3>2. t[i] = b[i - Len(a)]
      BY <1>1, <1>4, <1>6, <2>3
    <3> QED
      BY <1>3, <3>1, <3>2
  <2> QED
    BY <1>1, <2>1, <2>2, <2>3
<1>8. s = t
  BY <1>4, <1>5, <1>6, <1>7 DEF Bytes
<1> QED
  BY <1>2, <1>3, <1>8 DEF c, d, s, t
\* A part of a text from its start.
LEMMA Begins ==
  ASSUME NEW a \in Bytes, NEW k \in 0 .. Len(a)
  PROVE  /\ SubSeq(a, 1, k) \in Bytes /\ Len(SubSeq(a, 1, k)) = k
         /\ \A i \in 1 .. k : SubSeq(a, 1, k)[i] = a[i]
  BY DEF Bytes

\* A reader has read a part of the first response, and more is to come; one
\* more byte gives the outcome o.
Reading(responses, read, ahead) ==
  /\ ahead # <<>> /\ read \o ahead = ResponseStream(responses)
  /\ read # <<>> => responses # <<>> /\ Len(read) < Len(ResponseBytes(Head(responses)))
ByteRead(responses, read, ahead, o) ==
  /\ responses # <<>>
  /\ Append(read, Head(ahead)) \o Tail(ahead) = read \o ahead
  /\ o.outcome # "panicked"
  /\ o.outcome = "failed" => ~Readable(Head(responses))
  /\ o.outcome = "unfinished" =>
       Len(Append(read, Head(ahead))) < Len(ResponseBytes(Head(responses)))
  /\ o.outcome = "parsed" =>
       /\ o.value = Head(responses)
       /\ Tail(ahead) = ResponseStream(Tail(responses))

\* One more byte of the stream is one more byte of its first response: it is
\* unfinished, or it is whole and the stream of the others is left.
LEMMA ByteTaken ==
  ASSUME NEW responses \in Seq(ResponseValue), NEW read \in Bytes, NEW ahead \in Bytes,
         Reading(responses, read, ahead),
         NEW o \in ResponseOutcomes(Append(read, Head(ahead)))
  PROVE  ByteRead(responses, read, ahead, o)
<1> USE DEF Reading
<1>1. responses # <<>>
  <2>1. ASSUME responses = <<>> PROVE FALSE
    <3>1. read \o ahead = <<>>
      BY <2>1, NothingTaken
    <3> QED
      BY <3>1 DEF Bytes
  <2> QED
    BY <2>1
<1> DEFINE r == Head(responses)
           rest == ResponseStream(Tail(responses))
           whole == ResponseBytes(r)
           more == Append(read, Head(ahead))
           left == Tail(ahead)
           k == Len(read) + 1
<1>2. /\ r \in ResponseValue /\ Tail(responses) \in Seq(ResponseValue) /\ rest \in Bytes
      /\ read \o ahead = whole \o rest
  BY <1>1, ResponseFirst
<1>3. whole \in Bytes /\ Len(whole) >= 22 /\ Len(whole) \in Nat
  BY <1>2, ResponseLength
<1>4. Len(read) < Len(whole) /\ k \in 1 .. Len(whole)
  <2>1. read = <<>> => Len(read) = 0
    OBVIOUS
  <2>2. Len(read) \in Nat
    BY DEF Bytes
  <2>3. read # <<>> => Len(read) < Len(whole)
    OBVIOUS
  <2> HIDE DEF whole
  <2>4. Len(read) < Len(whole)
    BY <1>3, <2>1, <2>2, <2>3
  <2> QED
    BY <1>3, <2>2, <2>4
<1>5. /\ more \in Bytes /\ left \in Bytes /\ Len(more) = k
      /\ more \o left = read \o ahead
  BY HeadMoves
<1> HIDE DEF r, rest, whole, more, left
<1>6. more = SubSeq(whole, 1, k) /\ (k = Len(whole) => more = whole)
  <2> DEFINE t == more \o left
  <2>1. \A i \in 1 .. k : t[i] = more[i]
    BY <1>5 DEF Bytes
  <2>2. t = whole \o rest
    BY <1>2, <1>5
  <2>3. \A i \in 1 .. Len(whole) : t[i] = whole[i]
    <3>1. \A i \in 1 .. Len(whole) : (whole \o rest)[i] = whole[i]
      BY <1>2, <1>3 DEF Bytes
    <3> QED
      BY <2>2, <3>1
  <2>4. \A i \in 1 .. k : more[i] = whole[i]
    <3> SUFFICES ASSUME NEW i \in 1 .. k PROVE more[i] = whole[i]
      OBVIOUS
    <3>1. i \in 1 .. Len(whole)
      BY <1>3, <1>4
    <3> QED
      BY <2>1, <2>3, <3>1, Zenon
  <2>5. /\ SubSeq(whole, 1, k) \in Bytes /\ Len(SubSeq(whole, 1, k)) = k
        /\ \A i \in 1 .. k : SubSeq(whole, 1, k)[i] = whole[i]
    <3>1. whole \in Seq(Byte) /\ k \in 0 .. Len(whole)
      BY <1>3, <1>4 DEF Bytes
    <3> HIDE DEF k
    <3> QED
      BY <1>3, <3>1, Begins
  <2>6. more = SubSeq(whole, 1, k)
    <3> DEFINE part == SubSeq(whole, 1, k)
    <3>1. /\ part \in Bytes /\ Len(part) = Len(more)
          /\ \A i \in 1 .. Len(more) : part[i] = more[i]
      BY <1>5, <2>4, <2>5
    <3> HIDE DEF part
    <3>2. more = part
      BY <1>5, <3>1 DEF Bytes
    <3> QED
      BY <3>2 DEF part
  <2>7. ASSUME k = Len(whole) PROVE more = whole
    BY <1>3, <1>5, <2>4, <2>7 DEF Bytes
  <2> QED
    BY <2>6, <2>7
<1>7. ASSUME k < Len(whole)
      PROVE  /\ o.outcome \in {"unfinished", "failed"}
             /\ o.outcome = "failed" => ~Readable(r)
  <2>1. k \in 0 .. Len(whole) - 1
    BY <1>3, <1>4, <1>7
  <2>2. /\ ResponseOutcomes(more) \subseteq {Unfinished, Failed}
        /\ Ascii(r.name) => ResponseOutcomes(more) = {Unfinished}
    BY <1>2, <1>6, <2>1, ResponsePartRead DEF whole
  <2>3. o \in {Unfinished, Failed} /\ (Ascii(r.name) => o = Unfinished)
    BY <2>2 DEF more
  <2> QED
    BY <2>3 DEF Unfinished, Failed, Readable
<1>8. ASSUME k = Len(whole)
      PROVE  /\ o.outcome \in {"parsed", "failed"}
             /\ o.outcome = "failed" => ~Readable(r)
             /\ o.outcome = "parsed" => o.value = r
             /\ left = rest
  <2> DEFINE empty == SubSeq(whole, 1, 0)
  <2>1. empty \in Bytes /\ whole = whole \o empty
    BY <1>3 DEF Bytes
  <2> HIDE DEF empty
  <2>2. ResponseOutcomes(whole \o empty) =
          {Parsed(r, Len(whole))}
             \cup (IF ~Ascii(r.name) \/ (r.kind = "Message" /\ ~Ascii(r.data))
                   THEN {Failed} ELSE {})
    BY <1>2, <2>1, ResponseWhole, Zenon DEF whole
  <2>3. o \in ResponseOutcomes(whole)
    BY <1>6, <1>8 DEF more
  <2>4. o = Parsed(r, Len(whole)) \/ (o = Failed /\ ~Readable(r))
    BY <2>1, <2>2, <2>3 DEF Readable
  <2>5. whole \o left = whole \o rest
    BY <1>2, <1>5, <1>6, <1>8
  <2>6. left = rest
    <3>1. /\ SubSeq(whole \o left, Len(whole) + 1, Len(whole \o left)) = left
          /\ SubSeq(whole \o rest, Len(whole) + 1, Len(whole \o rest)) = rest
      BY <1>2, <1>3, <1>5, Behind
    <3> QED
      BY <2>5, <3>1
  <2> QED
    BY <2>4, <2>6 DEF Parsed, Failed
<1>9. k < Len(whole) \/ k = Len(whole)
  BY <1>3, <1>4
<1> QED
  BY <1>1, <1>2, <1>5, <1>7, <1>8, <1>9 DEF r, rest, whole, more, left, ByteRead

-----------------------------------------------------------------------------
(* The inductive invariant                                                 *)

\* Every text that the user, another user or the lobby brings in is ASCII.
PlainTexts ==
  /\ \A line \in Lines : Ascii(line)
  /\ \A b \in Broadcasts : Ascii(b.data)
  /\ \A pictured \in Lobbies : \A i \in DOMAIN pictured : Ascii(pictured[i].name)

\* What a prompt lets through, and the frames and the responses that say no
\* other name.
Name == {text \in Bytes : AcceptsLine(text) /\ (PlainTexts => Ascii(text))}
NamedFrames == {"Username", "Create", "Join"}
AskedFrame == {f \in FrameValue : f.kind \in NamedFrames => f.text \in Name}
SaidResponse ==
  {r \in ResponseValue :
     PlainTexts => Ascii(r.name) /\ (r.kind = "Message" => Ascii(r.data))}

\* Types, the stream to the server, and where the lobbies come from.
SessionTypes ==
  /\ TypeOK
  /\ frames_out \in Seq(FrameValue) /\ to_server = FrameStream(frames_out)
  /\ main_responses \in Seq(AnyResponse) /\ subscriptions \in Seq(AnyResponse)
  /\ picture \in Lobbies \cup {<<>>} /\ lobby \subseteq ChatroomValue

\* The stream to the client, of which the window may have read a part, and what
\* is still to be written.
Framed ==
  /\ ~misread
  /\ half # <<>> => Window
  /\ Open =>
       /\ responses_out \in Seq(SaidResponse)
       /\ main_responses \in Seq(SaidResponse) /\ subscriptions \in Seq(SaidResponse)
       /\ half \o to_client = ResponseStream(responses_out)
       /\ half # <<>> =>
            /\ responses_out # <<>>
            /\ Len(half) < Len(ResponseBytes(Head(responses_out)))

\* A queue of messages; one with something else at its end.
Messages(queue) == \A i \in DOMAIN queue : queue[i].kind = "Message"
EndsWith(queue, kinds) ==
  /\ queue # <<>> /\ queue[Len(queue)].kind \in kinds
  /\ \A i \in DOMAIN queue : i # Len(queue) => queue[i].kind = "Message"

\* The last response of a write task that has ended.
Bye(i) ==
  /\ i = Len(responses_out) /\ responses_out[i].kind = "ExitLobby"
  /\ write_pc = "done"

\* Apart from that only responses of these kinds are on their way; at most one
\* is of these kinds.
Heard(kinds) == \A i \in DOMAIN responses_out : responses_out[i].kind \in kinds \/ Bye(i)
Once(kinds) ==
  \A i, j \in DOMAIN responses_out :
    responses_out[i].kind \in kinds /\ responses_out[j].kind \in kinds => i = j

\* Nothing waits in the channels of the write task; nor is anything else to come.
Unsaid == main_responses = <<>> /\ subscriptions = <<>>
Outside == chatroom = NoText /\ ~subscribed
Silent == Heard({}) /\ Unsaid /\ Outside

\* The client has not been greeted.
Ungreeted ==
  /\ write_pc = "idle"
  /\ page = "WelcomePage" /\ ~asking
  /\ frames_out = <<>> /\ responses_out = <<>> /\ Silent

\* The user is asked for a name, or the lobby is about to be asked for.
UsersTurn ==
  /\ asking /\ page \in {"UsernamePage", "LobbyPage", "QuitChatroom"}
  /\ frames_out = <<>> /\ Silent
  /\ page = "LobbyPage" => lobby = {picture[i] : i \in DOMAIN picture}

\* One request is on its way.
AskedFor(at, kinds) ==
  /\ page = at /\ Len(frames_out) = 1
  /\ Head(frames_out) \in AskedFrame /\ Head(frames_out).kind \in kinds
Asked ==
  /\ ~asking /\ Silent
  /\ \/ AskedFor("UsernamePage", {"Username"})
     \/ AskedFor("LobbyPage", {"Create", "Join", "Quit"})
     \/ AskedFor("QuitChatroom", {"Lobby"})

\* One answer, or the greeting, is in the channel or on its way, if the server
\* gives one.
OneAnswer(kinds) ==
  /\ frames_out = <<>> /\ subscriptions = <<>> /\ Outside
  /\ \/ /\ main_responses = <<>> /\ Heard(kinds)
        /\ \A i \in DOMAIN responses_out : i = 1 \/ Bye(i)
     \/ /\ Len(main_responses) = 1 /\ Head(main_responses).kind \in kinds
        /\ Heard({})
Answered ==
  /\ ~asking
  /\ \/ page = "WelcomePage" /\ OneAnswer({"ConnectionOk"})
     \/ page = "UsernamePage" /\ OneAnswer({"UsernameOk", "UsernameAlreadyExists"})
     \/ page = "LobbyPage" /\ OneAnswer({"ChatroomAlreadyExists", "ChatroomDoesNotExist",
                                         "ChatroomFull"})
     \/ page = "QuitChatroom" /\ OneAnswer({"Lobby"})

\* A chatroom is being opened: the client awaits the subscription and ReadSync,
\* or the second of them.  Each is in its channel or on its way, and messages
\* follow the subscription only.
Opening ==
  /\ ~asking /\ page \in {"LobbyPage", "ConfirmPage", "SubscriptionPage"}
  /\ chatroom \in Name /\ frames_out = <<>>
  /\ Heard(JoinedKinds \cup {"ReadSync", "Message"})
  /\ Once(JoinedKinds) /\ Once({"ReadSync"})
  /\ Len(subscriptions) <= 1 /\ Len(main_responses) <= 1
  /\ subscriptions # <<>> =>
       /\ Head(subscriptions).kind \in JoinedKinds /\ ~subscribed
       /\ page # "ConfirmPage" /\ Heard({"ReadSync"})
  /\ main_responses # <<>> =>
       /\ Head(main_responses).kind = "ReadSync"
       /\ page # "SubscriptionPage" /\ Heard(JoinedKinds \cup {"Message"})
  /\ page = "ConfirmPage" => Heard({"ReadSync", "Message"})
  /\ page = "SubscriptionPage" => Heard(JoinedKinds \cup {"Message"})
  /\ page # "ConfirmPage" =>
       /\ subscribed => \E i \in DOMAIN responses_out : responses_out[i].kind \in JoinedKinds
       /\ \A i \in DOMAIN responses_out : responses_out[i].kind = "Message" =>
            \E j \in 1 .. i - 1 : responses_out[j].kind \in JoinedKinds

\* The chat window is open.
Chatting ==
  /\ Window /\ chatroom \in Name
  /\ Messages(frames_out) /\ Heard({"Message"}) /\ Unsaid

\* It has closed: the Quit frame is on its way, or its answer, if there is one.
Leaving ==
  /\ page = "Chatroom" /\ ~asking /\ subscriptions = <<>>
  /\ \/ /\ chatroom \in Name
        /\ EndsWith(frames_out, {"Quit"}) /\ Heard({"Message"}) /\ main_responses = <<>>
     \/ /\ chatroom = NoText /\ frames_out = <<>>
        /\ \/ /\ Len(main_responses) = 1 /\ Head(main_responses).kind = "ExitChatroom"
              /\ Heard({"Message"})
           \/ /\ main_responses = <<>> /\ ~subscribed
              /\ Heard({"Message", "ExitChatroom"})
              /\ \A i, j \in DOMAIN responses_out :
                   i < j /\ responses_out[i].kind = "ExitChatroom" => Bye(j)

\* The program has ended.
Over ==
  /\ ~Open /\ ~asking
  /\ PlainTexts /\ page # "QuitLobbyPage" => ended_by \in ExplainedEnds
  /\ \A i \in DOMAIN frames_out : frames_out[i].kind = "Quit" => i = Len(frames_out)

InTurn == UsersTurn \/ Asked \/ Answered \/ Opening \/ Chatting \/ Leaving
Turns == Ungreeted \/ (write_pc # "idle" /\ InTurn) \/ Over

\* A picture of the lobby on its way is the one of the server's last answer.
TellsLobby(queue) ==
  \A i \in DOMAIN queue : queue[i].kind \in LobbyKinds => queue[i].data = LobbyBytes(picture)
LobbyTold == TellsLobby(responses_out) /\ TellsLobby(main_responses)

\* As long as no half-read response was lost, client and server are in step.
InStep == Framed /\ Turns /\ (Open => LobbyTold)
SessionIInv == SessionTypes /\ (torn \/ InStep)

(* What is sent and written                                                *)

\* A sequence over a set is one over a larger set.
LEMMA LargerSet ==
  ASSUME NEW S, NEW T, S \subseteq T, NEW s \in Seq(S)
  PROVE  s \in Seq(T)
  OBVIOUS

\* A frame and a response are of their types.
LEMMA ValuesAreFrames ==
  FrameValue \subseteq FrameRecord
  BY DEF FrameValue, FrameRecord, FrameKind, Text

\* A frame that is sent is the last of the stream and of the queue.
LEMMA FrameQueued ==
  ASSUME frames_out \in Seq(FrameValue), to_server = FrameStream(frames_out),
         NEW f \in FrameValue, SendFrame(f)
  PROVE  /\ frames_out' = Append(frames_out, f) /\ frames_out' \in Seq(FrameValue)
         /\ frames_out' \in Seq(FrameRecord)
         /\ to_server' = FrameStream(frames_out)' /\ to_server' \in Bytes
<1>1. frames_out' = Append(frames_out, f) /\ to_server' = to_server \o FrameBytes(f)
  BY DEF SendFrame
<1>2. frames_out' \in Seq(FrameValue)
  BY <1>1
<1>3. frames_out' \in Seq(FrameRecord)
  BY <1>2, ValuesAreFrames, LargerSet
<1>4. to_server' = FrameStream(frames_out')
  BY <1>1, FrameSent
<1>5. to_server' \in Bytes
  BY <1>2, <1>4, FrameSent
<1> QED
  BY <1>1, <1>2, <1>3, <1>4, <1>5

\* Each of the kinds.
LEMMA Kinds ==
  /\ FrameKind = {"Quit", "Lobby", "Join", "Create", "Username", "Message"}
  /\ ResponseKind =
       {"ConnectionOk", "Subscribed", "ChatroomCreated", "ChatroomAlreadyExists",
        "ChatroomDoesNotExist", "ChatroomFull", "Message", "UsernameOk",
        "UsernameAlreadyExists", "ExitChatroom", "Lobby", "ExitLobby", "ReadSync"}
<1>1. FrameKind = {FrameKinds[i] : i \in 1 .. 6}
  BY DEF FrameKind, FrameKinds
<1>2. ResponseKind = {ResponseKinds[i] : i \in 1 .. 13}
  BY DEF ResponseKind, ResponseKinds
<1> QED
  BY <1>1, <1>2 DEF FrameKinds, ResponseKinds

\* A response with a name and a picture that fit its tag.
LEMMA ResponseMade ==
  ASSUME NEW kind \in ResponseKind, kind # "Message", NEW name \in Bytes, NEW data \in Bytes,
         NEW r, r = Response(kind, name, data)
  PROVE  /\ r \in AnyResponse /\ r.kind = kind /\ r.name = name /\ r.data = data
         /\ /\ Len(data) \in U32 /\ (kind \notin WithData => data = <<>>)
            /\ IF kind \in Named THEN name \in Name ELSE name = <<>>
            => r \in SaidResponse
<1>1. /\ r = [kind |-> kind, name |-> name, data |-> data, id |-> <<>>]
      /\ r.kind = kind /\ r.name = name /\ r.data = data /\ r.id = <<>>
  BY DEF Response
<1>2. r \in AnyResponse
  BY <1>1 DEF AnyResponse, ResponseRecord, ResponseKind
<1>3. ASSUME Len(data) \in U32, kind \notin WithData => data = <<>>,
             IF kind \in Named THEN name \in Name ELSE name = <<>>
      PROVE  r \in SaidResponse
  <2>1. Len(name) < ByteSize /\ Len(name) \in Nat /\ (PlainTexts => Ascii(name))
    <3>1. CASE kind \in Named
      BY <1>3, <3>1, ByteSizeAssumption DEF Name, AcceptsLine, Bytes
    <3>2. CASE kind \notin Named
      BY <1>3, <3>2, ByteSizeAssumption DEF Ascii
    <3> QED
      BY <3>1, <3>2
  <2>2. Len(name) \in U32
    <3>1. ByteSize * (ByteSize * (ByteSize * ByteSize)) > ByteSize
      BY ByteSizeAssumption, SMTT(30)
    <3>2. ByteSize * (ByteSize * (ByteSize * ByteSize)) \in Nat
      BY ByteSizeAssumption
    <3> QED
      BY <2>1, <3>1, <3>2, ByteSizeAssumption DEF U32
  <2>3. r \in [kind : ResponseKind, name : Text, data : Text, id : Uuid \cup {<<>>}]
    BY <1>1, <1>3, <2>2 DEF Text
  <2>4. r \in ResponseValue
    BY <1>1, <1>3, <2>1, <2>3 DEF ResponseValue
  <2> QED
    BY <1>1, <2>1, <2>4 DEF SaidResponse
<1> QED
  BY <1>1, <1>2, <1>3

\* A response that is written is the last of the stream and of the queue.
LEMMA ResponseQueued ==
  ASSUME to_client \in Bytes, responses_out \in Seq(ResponseRecord),
         NEW r \in AnyResponse, Write(r)
  PROVE  /\ responses_out' = Append(responses_out, r)
         /\ to_client' \in Bytes /\ responses_out' \in Seq(ResponseRecord)
<1>1. responses_out' = Append(responses_out, r) /\ to_client' = to_client \o ResponseBytes(r)
  BY DEF Write
<1>2. ResponseBytes(r) \in Bytes
  BY ResponseBytesType
<1>3. to_client' \in Bytes
  BY <1>1, <1>2 DEF Bytes
<1>4. responses_out' \in Seq(ResponseRecord)
  BY <1>1 DEF AnyResponse
<1> QED
  BY <1>1, <1>3, <1>4

\* The bytes that a response adds belong to no response before it.
LEMMA StreamQueued ==
  ASSUME half \in Bytes, to_client \in Bytes, responses_out \in Seq(SaidResponse),
         half \o to_client = ResponseStream(responses_out),
         NEW r \in SaidResponse, half' = half, Write(r)
  PROVE  /\ responses_out' = Append(responses_out, r)
         /\ responses_out' \in Seq(SaidResponse)
         /\ half' \o to_client' = ResponseStream(responses_out)'
<1>1. SaidResponse \subseteq AnyResponse
  BY ValuesAreResponses DEF SaidResponse
<1>2. responses_out \in Seq(AnyResponse) /\ <<r>> \in Seq(AnyResponse) /\ r \in AnyResponse
  <2>1. r \in AnyResponse
    BY <1>1
  <2> QED
    BY <1>1, <2>1, LargerSet
<1>3. responses_out' = Append(responses_out, r) /\ to_client' = to_client \o ResponseBytes(r)
  BY DEF Write
<1>4. /\ ResponseStream(responses_out \o <<r>>)
           = ResponseStream(responses_out) \o ResponseStream(<<r>>)
      /\ ResponseStream(<<r>>) = ResponseBytes(r)
      /\ ResponseBytes(r) \in Bytes
  BY <1>2, ResponsesWritten, OneResponse, ResponseBytesType
<1>5. responses_out \o <<r>> = Append(responses_out, r)
  OBVIOUS
<1>6. half \o (to_client \o ResponseBytes(r)) = (half \o to_client) \o ResponseBytes(r)
  BY <1>4, Associative
<1>7. half' \o to_client' = ResponseStream(responses_out')
  BY <1>3, <1>4, <1>5, <1>6
<1> QED
  BY <1>3, <1>7

\* A picture of the lobby is of chatrooms, with names that a prompt lets
\* through, and its bytes fit a response.
LEMMA LobbiesTyped ==
  ASSUME NEW pictured \in Lobbies
  PROVE  /\ pictured \in Seq(ChatroomValue)
         /\ \A i \in DOMAIN pictured : pictured[i].name \in Name
         /\ LobbyBytes(pictured) \in Bytes /\ Len(LobbyBytes(pictured)) \in U32
<1>1. /\ pictured \in Seq([name : Bytes, capacity : U32, num_clients : U32])
      /\ \A i \in DOMAIN pictured : Len(pictured[i].name) \in 1 .. ByteSize - 1
      /\ Len(LobbyBytes(pictured)) \in U32
  BY LobbiesAssumption
<1>2. \A n \in 1 .. ByteSize - 1 : n \in U32
  <2> DEFINE m == ByteSize * (ByteSize * (ByteSize * ByteSize))
  <2>1. m > ByteSize
    BY ByteSizeAssumption, SMTT(30)
  <2>2. m \in Nat
    BY ByteSizeAssumption
  <2>3. U32 = 0 .. m - 1
    BY DEF U32
  <2> HIDE DEF m
  <2>4. \A n \in 1 .. ByteSize - 1 : n \in 0 .. m - 1
    BY <2>1, <2>2, ByteSizeAssumption
  <2> QED
    BY <2>3, <2>4, Zenon
<1>3. ASSUME NEW i \in DOMAIN pictured
      PROVE  pictured[i] \in ChatroomValue /\ pictured[i].name \in Name
  <2>1. /\ pictured[i] \in [name : Bytes, capacity : U32, num_clients : U32]
        /\ Len(pictured[i].name) \in 1 .. ByteSize - 1
    <3> DEFINE R == [name : Bytes, capacity : U32, num_clients : U32]
    <3> HIDE DEF R
    <3>1. pictured \in Seq(R)
      BY <1>1 DEF R
    <3>2. pictured[i] \in R
      BY <3>1
    <3>3. Len(pictured[i].name) \in 1 .. ByteSize - 1
      BY <1>1, Zenon
    <3> QED
      BY <3>2, <3>3 DEF R
  <2>2. pictured[i].name \in Text /\ pictured[i].name \in Bytes
    BY <1>2, <2>1 DEF Text
  <2>3. pictured[i] \in ChatroomValue
    BY <2>1, <2>2 DEF ChatroomValue
  <2>4. PlainTexts => Ascii(pictured[i].name)
    BY DEF PlainTexts
  <2> QED
    BY <2>1, <2>2, <2>3, <2>4 DEF Name, AcceptsLine
<1>4. pictured \in Seq(ChatroomValue)
  <2>1. Len(pictured) \in Nat /\ DOMAIN pictured = 1 .. Len(pictured)
        /\ pictured = [i \in 1 .. Len(pictured) |-> pictured[i]]
    BY <1>1
  <2> QED
    BY <1>3, <2>1
<1> QED
  BY <1>1, <1>3, <1>4, LobbyRead

\* No text is a text.
LEMMA NoTextFits ==
  NoText \in Text /\ NoText \in Bytes
<1> DEFINE m == ByteSize * (ByteSize * (ByteSize * ByteSize))
<1>1. m > ByteSize
  BY ByteSizeAssumption, SMTT(30)
<1>2. m \in Nat
  BY ByteSizeAssumption
<1>3. U32 = 0 .. m - 1
  BY DEF U32
<1>4. NoText \in Bytes /\ Len(NoText) = 0
  BY DEF NoText, Bytes
<1> HIDE DEF m
<1>5. Len(NoText) \in 0 .. m - 1
  BY <1>1, <1>2, <1>4, ByteSizeAssumption
<1> QED
  BY <1>3, <1>4, <1>5 DEF Text

\* An answer is a response of a kind that fits the frame, and its picture of the
\* lobby is the server's; to a frame with a name that the prompts let through it
\* says such a name.
LEMMA AnswerTyped ==
  ASSUME NEW f, f.kind \in FrameKind, f.text \in Bytes, chatroom \in Bytes,
         NEW pictured \in Lobbies, NEW r \in Answers(f, pictured)
  PROVE  /\ r \in AnyResponse
         /\ f \in AskedFrame /\ chatroom \in Name \cup {NoText} => r \in SaidResponse
         /\ r.kind \in LobbyKinds => r.data = LobbyBytes(pictured)
         /\ \/ f.kind = "Username" /\ r.kind \in {"UsernameOk", "UsernameAlreadyExists"}
            \/ /\ f.kind \in {"Create", "Join"}
               /\ r.kind \in {"ChatroomAlreadyExists", "ChatroomDoesNotExist", "ChatroomFull"}
            \/ f.kind = "Lobby" /\ r.kind = "Lobby"
            \/ f.kind = "Quit" /\ chatroom # NoText /\ r.kind = "ExitChatroom"
<1> DEFINE told == LobbyBytes(pictured)
           Fits(kind) ==
             /\ r \in AnyResponse /\ r.kind = kind
             /\ f \in AskedFrame /\ chatroom \in Name \cup {NoText} => r \in SaidResponse
             /\ kind \in LobbyKinds => r.data = told
<1>1. /\ told \in Bytes /\ Len(told) \in U32
      /\ NoText \in Bytes /\ Len(NoText) \in U32 /\ NoText = <<>>
  BY LobbiesTyped, NoTextFits DEF NoText, Text
<1> HIDE DEF told
<1>2. f \in AskedFrame /\ f.kind \in NamedFrames => f.text \in Name
  BY DEF AskedFrame
<1>3. ASSUME NEW kind \in LobbyKinds, NEW name \in Bytes, r = Response(kind, name, told),
             f \in AskedFrame => IF kind \in Named THEN name \in Name ELSE name = NoText
      PROVE  Fits(kind)
  <2>1. kind \in ResponseKind /\ kind # "Message" /\ kind \in WithData
    BY Kinds DEF LobbyKinds, NamedWithLobby, WithData
  <2>2. /\ r \in AnyResponse /\ r.kind = kind /\ r.data = told
        /\ (IF kind \in Named THEN name \in Name ELSE name = <<>>) => r \in SaidResponse
    BY <1>1, <1>3, <2>1, ResponseMade
  <2> QED
    BY <1>1, <1>3, <2>2
<1>4. ASSUME NEW kind \in {"UsernameAlreadyExists", "ExitChatroom"}, NEW name \in Bytes,
             r = Response(kind, name, NoText),
             f \in AskedFrame /\ chatroom \in Name \cup {NoText} => name \in Name
      PROVE  Fits(kind)
  <2>1. /\ kind \in ResponseKind /\ kind # "Message" /\ kind \in Named
        /\ kind \notin LobbyKinds
    BY Kinds DEF LobbyKinds, NamedWithLobby, Named
  <2>2. /\ r \in AnyResponse /\ r.kind = kind
        /\ (IF kind \in Named THEN name \in Name ELSE name = <<>>) => r \in SaidResponse
    BY <1>1, <1>4, <2>1, ResponseMade
  <2> QED
    BY <1>4, <2>1, <2>2
<1>5. /\ {"UsernameOk", "ChatroomAlreadyExists", "ChatroomDoesNotExist", "ChatroomFull", "Lobby"}
           \subseteq LobbyKinds
      /\ {"UsernameOk", "ChatroomAlreadyExists", "ChatroomDoesNotExist", "ChatroomFull"}
           \subseteq Named
      /\ "Lobby" \notin Named
  BY DEF LobbyKinds, NamedWithLobby, Named
<1> HIDE DEF Fits
<1>6. CASE f.kind = "Username"
  <2>1. \/ r = Response("UsernameOk", f.text, told)
        \/ r = Response("UsernameAlreadyExists", f.text, NoText)
    BY <1>6 DEF Answers, told
  <2>2. Fits("UsernameOk") \/ Fits("UsernameAlreadyExists")
    BY <1>2, <1>3, <1>4, <1>5, <1>6, <2>1 DEF NamedFrames
  <2> QED
    BY <1>6, <2>2 DEF Fits, told
<1>7. CASE f.kind \in {"Create", "Join"}
  <2>1. PICK kind \in {"ChatroomAlreadyExists", "ChatroomDoesNotExist", "ChatroomFull"} :
          r = Response(kind, f.text, told)
    BY <1>7 DEF Answers, told
  <2>2. Fits(kind)
    BY <1>2, <1>3, <1>5, <1>7, <2>1 DEF NamedFrames
  <2> QED
    BY <1>7, <2>2 DEF Fits, told
<1>8. CASE f.kind = "Lobby"
  <2>1. r = Response("Lobby", NoText, told)
    BY <1>8 DEF Answers, told
  <2>2. Fits("Lobby")
    BY <1>1, <1>3, <1>5, <2>1
  <2> QED
    BY <1>8, <2>2 DEF Fits, told
<1>9. CASE f.kind = "Quit"
  <2>1. chatroom # NoText /\ r = Response("ExitChatroom", chatroom, NoText)
    BY <1>9 DEF Answers
  <2>2. Fits("ExitChatroom")
    BY <1>4, <2>1
  <2> QED
    BY <1>9, <2>1, <2>2 DEF Fits, told
<1>10. CASE f.kind = "Message"
  BY <1>10 DEF Answers
<1> QED
  BY <1>6, <1>7, <1>8, <1>9, <1>10, Kinds

\* The responses without a picture: the greeting, the two that open a chatroom,
\* and the last one.
LEMMA OpeningTyped ==
  ASSUME NEW name \in Bytes
  PROVE  /\ \A kind \in JoinedKinds :
              LET r == Response(kind, name, NoText)
              IN /\ r \in AnyResponse /\ r.kind = kind
                 /\ name \in Name => r \in SaidResponse
         /\ \A kind \in {"ConnectionOk", "ReadSync", "ExitLobby"} :
              LET r == Response(kind, NoText, NoText)
              IN r \in AnyResponse /\ r.kind = kind /\ r \in SaidResponse
<1>1. NoText \in Bytes /\ Len(NoText) \in U32 /\ NoText = <<>>
  BY NoTextFits DEF NoText, Text
<1>2. ASSUME NEW kind \in JoinedKinds
      PROVE  LET r == Response(kind, name, NoText)
             IN /\ r \in AnyResponse /\ r.kind = kind
                /\ name \in Name => r \in SaidResponse
  <2>1. kind \in ResponseKind /\ kind # "Message" /\ kind \in Named
    BY Kinds DEF JoinedKinds, Named
  <2> QED
    BY <1>1, <2>1, ResponseMade
<1>3. ASSUME NEW kind \in {"ConnectionOk", "ReadSync", "ExitLobby"}
      PROVE  LET r == Response(kind, NoText, NoText)
             IN r \in AnyResponse /\ r.kind = kind /\ r \in SaidResponse
  <2>1. kind \in ResponseKind /\ kind # "Message" /\ kind \notin Named
    BY Kinds DEF Named, NamedWithLobby
  <2> QED
    BY <1>1, <2>1, ResponseMade
<1> QED
  BY <1>2, <1>3

\* A message of another user.
Told(b) == [kind |-> "Message", name |-> NoText, data |-> b.data, id |-> b.id]

\* It is a response with the type of a message.
LEMMA ToldTyped ==
  ASSUME NEW b \in Broadcasts
  PROVE  Told(b) \in SaidResponse /\ Told(b) \in AnyResponse /\ Told(b).kind = "Message"
<1>1. b.id \in Uuid /\ b.data \in Text /\ (PlainTexts => Ascii(b.data))
  BY BroadcastsAssumption DEF Text, PlainTexts
<1>2. NoText \in Text /\ Len(NoText) = 0 /\ NoText = <<>> /\ Ascii(NoText)
  BY NoTextFits DEF NoText, Ascii
<1>3. /\ Told(b).kind = "Message" /\ Told(b).name = NoText
      /\ Told(b).data = b.data /\ Told(b).id = b.id
  BY DEF Told
<1>4. Told(b) \in [kind : ResponseKind, name : Text, data : Text, id : Uuid \cup {<<>>}]
  BY <1>1, <1>2, Kinds DEF Told
<1>5. Told(b) \in ResponseValue
  BY <1>1, <1>2, <1>3, <1>4, ByteSizeAssumption DEF ResponseValue, WithData
<1>6. Told(b) \in SaidResponse
  BY <1>1, <1>2, <1>3, <1>5 DEF SaidResponse
<1> QED
  BY <1>3, <1>5, <1>6, ValuesAreResponses

\* Whatever bytes try_parse has read, it makes a response of them, waits or
\* fails.
LEMMA AnyOutcome ==
  ASSUME NEW bytes \in Bytes, NEW o \in ResponseOutcomes(bytes)
  PROVE  o.outcome = "parsed" =>
           /\ o.value.kind \in ResponseKind /\ o.value.data \in Bytes
           /\ o.size \in Nat /\ o.size <= Len(bytes)
<1> DEFINE kind == ResponseKinds[bytes[1]]
           named == 22 + NameLength(bytes)
           size == named + DataLength(bytes)
           name == SubSeq(bytes, 23, named)
           data == SubSeq(bytes, named + 1, size)
           id == IF kind = "Message" THEN SubSeq(bytes, 2, 17) ELSE <<>>
           response == [kind |-> kind, name |-> name, data |-> data, id |-> id]
<1>1. SUFFICES ASSUME o.outcome = "parsed"
               PROVE  /\ o.value.kind \in ResponseKind /\ o.value.data \in Bytes
                      /\ o.size \in Nat /\ o.size <= Len(bytes)
  OBVIOUS
<1>2. Len(bytes) >= 22 /\ bytes[1] \in DOMAIN ResponseKinds
  BY <1>1 DEF ResponseOutcomes, Unfinished, Panicked, Bytes
<1>3. Len(bytes) \in Nat /\ bytes \in Seq(Byte)
  BY DEF Bytes
<1>4. o = Parsed(response, size) /\ ~(Len(bytes) < size)
  <2> DEFINE checked == IF kind = "UsernameOk" THEN size ELSE named
             refused == \/ Len(bytes) >= checked /\ ~Ascii(name)
                        \/ Len(bytes) >= size /\ kind = "Message" /\ ~Ascii(data)
  <2>1. ~(Len(bytes) < 22)
    BY <1>2, <1>3
  <2>2. ResponseOutcomes(bytes) =
          (IF Len(bytes) < size THEN {Unfinished} ELSE {Parsed(response, size)})
             \cup (IF refused THEN {Failed} ELSE {})
    BY <1>2, <2>1, Zenon DEF ResponseOutcomes
  <2> HIDE DEF response, size, refused
  <2>3. o # Unfinished /\ o # Failed
    BY <1>1 DEF Unfinished, Failed
  <2> QED
    BY <2>2, <2>3
<1>5. NameLength(bytes) \in Nat
  <2>1. bytes[2] \in Byte
    BY <1>2, <1>3
  <2> QED
    BY <2>1, ByteSizeAssumption DEF NameLength, Byte
<1>6. DataLength(bytes) \in Nat
  <2>1. /\ Number(SubSeq(bytes, 18, 21)) \in U32
        /\ Number(SubSeq(bytes, 2, 5)) \in U32
        /\ Number(SubSeq(bytes, 3, 6)) \in U32
    <3>1. \A i \in Nat \ {0} : i + 3 <= Len(bytes) => Number(SubSeq(bytes, i, i + 3)) \in U32
      BY NumberBound
    <3>2. /\ 18 \in Nat \ {0} /\ 18 + 3 = 21 /\ 21 <= Len(bytes)
          /\ 2 \in Nat \ {0} /\ 2 + 3 = 5 /\ 5 <= Len(bytes)
          /\ 3 \in Nat \ {0} /\ 3 + 3 = 6 /\ 6 <= Len(bytes)
      BY <1>2, <1>3
    <3> QED
      BY <3>1, <3>2
  <2>2. \A n \in U32 : n \in Nat
    BY DEF U32
  <2> QED
    BY <2>1, <2>2 DEF DataLength
<1>7. named \in Nat /\ size \in Nat /\ named >= 22 /\ size <= Len(bytes)
  <2>1. named \in Nat /\ named >= 22
    BY <1>5
  <2> HIDE DEF named, response
  <2>2. size \in Nat
    BY <1>6, <2>1
  <2> HIDE DEF size
  <2> QED
    BY <1>3, <1>4, <2>1, <2>2
<1> HIDE DEF named, size
<1>8. data \in Bytes
  BY <1>3, <1>7 DEF Bytes
<1>9. kind \in ResponseKind
  BY <1>2 DEF ResponseKind
<1>10. o.value = response /\ o.size = size
  BY <1>4 DEF Parsed
<1>11. response.kind = kind /\ response.data = data
  OBVIOUS
<1> HIDE DEF response, kind, data
<1> QED
  BY <1>7, <1>8, <1>9, <1>10, <1>11

\* The page a response leads to, if its page takes it.
LEMMA NextPages ==
  ASSUME page \in DOMAIN Accepts, NEW kind \in Accepts[page]
  PROVE  NextPage(kind) \in DOMAIN Accepts \cup {"QuitLobbyPage"}
  BY DEF Accepts, NextPage, LobbyKinds, JoinedKinds, NamedWithLobby

\* The fields of a type.
LEMMA PageNames ==
  DOMAIN Accepts = {"WelcomePage", "UsernamePage", "LobbyPage", "ConfirmPage",
                    "SubscriptionPage", "Chatroom", "QuitChatroom"}
  BY DEF Accepts

\* A step that ends the program.
LEMMA EndTyped ==
  ASSUME page \in DOMAIN Accepts, NEW how \in {"Failed", "Panicked"},
         NEW why \in ResponseKind \cup {"unparsable", "closed"}, End(how, why)
  PROVE  /\ page' \in Ended /\ asking' = FALSE /\ lobby' = lobby
         /\ ended_by' \in EndRecord
<1>1. ended_by' = [page |-> IF Window THEN "ChatWindow" ELSE page, why |-> why]
  BY DEF End
<1>2. (IF Window THEN "ChatWindow" ELSE page) \in ProgramPages
  BY DEF ProgramPages
<1> QED
  BY <1>1, <1>2 DEF End, Ended, EndRecord, ResponseKind

\* A step on a response leaves the program at a page or ended.
LEMMA ReactTyped ==
  ASSUME page \in DOMAIN Accepts, lobby \subseteq ChatroomValue, ended_by \in EndRecord,
         NEW r, r.data \in Bytes, r.kind \in ResponseKind, React(r)
  PROVE  /\ page' \in DOMAIN Accepts \cup Ended /\ asking' \in BOOLEAN
         /\ lobby' \subseteq ChatroomValue /\ ended_by' \in EndRecord
<1> DEFINE parsed == LobbyPicture(r.data)
           fails == r.kind \notin Accepts[page] \/ (r.kind \in LobbyKinds /\ ~parsed.ok)
<1>1. parsed.chatrooms \subseteq ChatroomValue
  <2>1. parsed \in [ok : BOOLEAN, chatrooms : SUBSET ChatroomValue]
    BY PictureTyped
  <2> QED
    BY <2>1
<1>2. CASE fails
  <2>1. End("Failed", r.kind) \/ End("Failed", "unparsable")
    BY <1>2, Zenon DEF React
  <2> QED
    BY <2>1, EndTyped
<1>3. CASE ~fails
  <2>1. /\ page' = NextPage(r.kind)
        /\ asking' = (page' \notin {"ConfirmPage", "SubscriptionPage", "QuitLobbyPage"})
        /\ lobby' = IF r.kind \in LobbyKinds THEN parsed.chatrooms ELSE {}
        /\ ended_by' = ended_by
    BY <1>3, Zenon DEF React
  <2>2. page' \in DOMAIN Accepts \cup {"QuitLobbyPage"}
    BY <1>3, <2>1, NextPages
  <2> HIDE DEF parsed
  <2> QED
    BY <1>1, <2>1, <2>2 DEF Ended
<1> QED
  BY <1>2, <1>3

-----------------------------------------------------------------------------
(* Types are kept                                                          *)

\* The names that a prompt lets through fit a tag.
LEMMA NamesFit ==
  ASSUME NEW text \in Bytes, AcceptsLine(text)
  PROVE  text \in Text
<1> DEFINE m == ByteSize * (ByteSize * (ByteSize * ByteSize))
<1>1. m > ByteSize
  BY ByteSizeAssumption, SMTT(30)
<1>2. m \in Nat
  BY ByteSizeAssumption
<1>3. U32 = 0 .. m - 1
  BY DEF U32
<1> HIDE DEF m
<1>4. Len(text) \in 0 .. m - 1
  BY <1>1, <1>2, ByteSizeAssumption DEF AcceptsLine
<1> QED
  BY <1>3, <1>4 DEF Text

\* A frame of each kind.
LEMMA FrameMade ==
  ASSUME NEW kind \in FrameKind, NEW text \in Text, kind \in BareFrames => text = <<>>
  PROVE  /\ Frame(kind, text) \in FrameValue
         /\ Frame(kind, text).kind = kind /\ Frame(kind, text).text = text
         /\ (kind \in NamedFrames => text \in Name) => Frame(kind, text) \in AskedFrame
  BY DEF Frame, FrameValue, AskedFrame

\* Nothing has been sent at the start.
LEMMA TypesInit ==
  ASSUME Init
  PROVE  SessionTypes
<1>1. to_server = FrameStream(frames_out)
  <2>1. [i \in DOMAIN <<>> |-> FrameBytes(<<>>[i])] = <<>>
    OBVIOUS
  <2>2. FrameStream(<<>>) = <<>>
    BY <2>1, FlattenEmpty, Zenon DEF FrameStream, BytesOf
  <2> QED
    BY <2>2 DEF Init
<1>2. counts \in [requests : 0 .. MaxRequests, texts : 0 .. MaxTexts,
                  broadcasts : 0 .. MaxBroadcasts]
  BY BoundsAssumption DEF Init
<1>3. page \in DOMAIN Accepts \cup Ended
  BY PageNames DEF Init
<1>4. \A i \in DOMAIN picture : picture[i] \in ChatroomRecord
  BY DEF Init
<1>5. {half, to_server, to_client, chatroom} \subseteq Bytes
  BY NoTextFits DEF Init, NoText
<1>6. /\ typed \in Seq(Texts) /\ frames_out \in Seq(FrameRecord)
      /\ {responses_out, main_responses, subscriptions} \subseteq Seq(ResponseRecord)
      /\ {main_responses, subscriptions} \subseteq Seq(AnyResponse)
      /\ frames_out \in Seq(FrameValue) /\ frames_out = <<>>
  BY DEF Init
<1>7. ended_by \in EndRecord
  BY DEF Init, EndRecord
<1>8. \A i \in DOMAIN frames_out : NewName(frames_out[i])
  BY <1>6
<1>9. /\ {asking, keyboard_done, subscribed, misread, torn} \subseteq BOOLEAN
      /\ read_pc \in {"running", "done"} /\ write_pc \in {"idle", "running", "done"}
      /\ lobby = {} /\ picture = <<>>
  BY DEF Init
<1> QED
  BY <1>1, <1>2, <1>3, <1>4, <1>5, <1>6, <1>7, <1>8, <1>9 DEF SessionTypes, TypeOK

\* The chatrooms of a lobby.
LEMMA ChatroomsAreRecords ==
  ChatroomValue \subseteq ChatroomRecord
<1>1. U32 \subseteq Nat
  BY DEF U32
<1> QED
  BY <1>1 DEF ChatroomValue, ChatroomRecord, Text

\* A count below its bound.
LEMMA CountsTyped ==
  ASSUME counts \in [requests : 0 .. MaxRequests, texts : 0 .. MaxTexts,
                     broadcasts : 0 .. MaxBroadcasts],
         \/ counts.requests < MaxRequests /\ counts' = [counts EXCEPT !.requests = @ + 1]
         \/ counts.texts < MaxTexts /\ counts' = [counts EXCEPT !.texts = @ + 1]
         \/ counts.broadcasts < MaxBroadcasts /\ counts' = [counts EXCEPT !.broadcasts = @ + 1]
         \/ UNCHANGED counts
  PROVE  counts' \in [requests : 0 .. MaxRequests, texts : 0 .. MaxTexts,
                      broadcasts : 0 .. MaxBroadcasts]
  BY BoundsAssumption

\* A frame more.
LEMMA FrameTyped ==
  ASSUME SessionTypes, NEW f \in FrameValue, NewName(f), SendFrame(f)
  PROVE  /\ frames_out' = Append(frames_out, f) /\ frames_out' \in Seq(FrameValue)
         /\ frames_out' \in Seq(FrameRecord)
         /\ \A i \in DOMAIN frames_out' : NewName(frames_out'[i])
         /\ to_server' = FrameStream(frames_out)' /\ to_server' \in Bytes
<1>1. /\ frames_out \in Seq(FrameValue) /\ to_server = FrameStream(frames_out)
      /\ \A i \in DOMAIN frames_out : NewName(frames_out[i])
  BY DEF SessionTypes, TypeOK
<1>2. /\ frames_out' = Append(frames_out, f) /\ frames_out' \in Seq(FrameValue)
      /\ frames_out' \in Seq(FrameRecord)
      /\ to_server' = FrameStream(frames_out)' /\ to_server' \in Bytes
  BY <1>1, FrameQueued
<1>3. ASSUME NEW i \in DOMAIN frames_out' PROVE NewName(frames_out'[i])
  <2>1. frames_out'[i] = f \/ (i \in DOMAIN frames_out /\ frames_out'[i] = frames_out[i])
    BY <1>1, <1>2, <1>3
  <2> QED
    BY <1>1, <2>1, Zenon
<1> QED
  BY <1>2, <1>3

\* A request is a frame with the name that the user chose.
LEMMA RequestTyped ==
  ASSUME SessionTypes, NEW at, NEW f \in FrameValue, NewName(f), Request(at, f),
         \/ counts.requests < MaxRequests /\ counts' = [counts EXCEPT !.requests = @ + 1]
         \/ UNCHANGED counts
  PROVE  SessionTypes'
<1>1. SendFrame(f)
  BY DEF Request
<1>2. /\ frames_out' \in Seq(FrameValue) /\ frames_out' \in Seq(FrameRecord)
      /\ \A i \in DOMAIN frames_out' : NewName(frames_out'[i])
      /\ to_server' = FrameStream(frames_out)' /\ to_server' \in Bytes
  BY <1>1, FrameTyped
<1>3. counts' \in [requests : 0 .. MaxRequests, texts : 0 .. MaxTexts,
                   broadcasts : 0 .. MaxBroadcasts]
  BY CountsTyped DEF SessionTypes, TypeOK
<1>4. /\ asking' = FALSE
      /\ UNCHANGED <<page, lobby, half, ended_by, keyboard_vars, server_vars, to_client,
                     responses_out, ghosts>>
  BY DEF Request
<1> QED
  BY <1>2, <1>3, <1>4
  DEF SessionTypes, TypeOK, keyboard_vars, server_vars, read_vars, write_vars, channels, ghosts

\* The four requests.
LEMMA UserTyped ==
  ASSUME SessionTypes,
         \/ \E at, kind : kind \in {"Username", "Create"} /\ RequestName(at, kind)
         \/ RequestJoin \/ RequestQuit \/ RefreshLobby
  PROVE  SessionTypes'
<1>1. ASSUME NEW at, NEW kind \in {"Username", "Create"}, RequestName(at, kind)
      PROVE  SessionTypes'
  <2>1. PICK line \in Lines : AcceptsLine(line) /\ Request(at, Frame(kind, line))
    BY <1>1 DEF RequestName
  <2>2. line \in Text
    BY <2>1, LinesAssumption, NamesFit
  <2>3. kind \in FrameKind /\ kind \notin BareFrames
    BY Kinds DEF BareFrames
  <2>4. Frame(kind, line) \in FrameValue /\ NewName(Frame(kind, line))
    BY <2>1, <2>2, <2>3, FrameMade DEF NewName, AcceptsLine
  <2>5. counts.requests < MaxRequests /\ counts' = [counts EXCEPT !.requests = @ + 1]
    BY <1>1 DEF RequestName
  <2> QED
    BY <2>1, <2>4, <2>5, RequestTyped
<1>2. ASSUME RequestJoin PROVE SessionTypes'
  <2>1. PICK c \in lobby : Request("LobbyPage", Frame("Join", c.name))
    BY <1>2 DEF RequestJoin
  <2>2. c.name \in Text
    BY DEF SessionTypes, ChatroomValue
  <2>3. Frame("Join", c.name) \in FrameValue /\ NewName(Frame("Join", c.name))
    BY <2>2, Kinds, FrameMade DEF BareFrames, NewName
  <2>4. counts.requests < MaxRequests /\ counts' = [counts EXCEPT !.requests = @ + 1]
    BY <1>2 DEF RequestJoin
  <2> QED
    BY <2>1, <2>3, <2>4, RequestTyped
<1>3. \A kind \in {"Quit", "Lobby"} :
        Frame(kind, NoText) \in FrameValue /\ NewName(Frame(kind, NoText))
  BY NoTextFits, Kinds, FrameMade DEF NoText, NewName
<1>4. ASSUME RequestQuit PROVE SessionTypes'
  BY <1>3, <1>4, RequestTyped DEF RequestQuit
<1>5. ASSUME RefreshLobby PROVE SessionTypes'
  BY <1>3, <1>5, RequestTyped DEF RefreshLobby
<1> QED
  BY <1>1, <1>2, <1>4, <1>5

\* The three steps of the chat window that send a frame or drop a half.
LEMMA WindowTyped ==
  ASSUME SessionTypes, TypeText \/ PressQuit \/ SendText \/ CloseWindow
  PROVE  SessionTypes'
<1>1. ASSUME TypeText PROVE SessionTypes'
  <2>1. PICK text \in Texts : typed' = Append(typed, text)
    BY <1>1 DEF TypeText
  <2>2. typed' \in Seq(Texts)
    BY <2>1 DEF SessionTypes, TypeOK
  <2>3. counts' \in [requests : 0 .. MaxRequests, texts : 0 .. MaxTexts,
                     broadcasts : 0 .. MaxBroadcasts]
    BY <1>1, CountsTyped DEF SessionTypes, TypeOK, TypeText
  <2> QED
    BY <1>1, <2>2, <2>3
    DEF SessionTypes, TypeOK, TypeText, client_vars, server_vars, read_vars, write_vars,
        channels, ghosts
<1>2. ASSUME PressQuit PROVE SessionTypes'
  BY <1>2
  DEF SessionTypes, TypeOK, PressQuit, client_vars, server_vars, read_vars, write_vars,
      channels, ghosts
<1>4. <<>> \in Bytes
  BY NoTextFits DEF NoText
<1>5. ASSUME NEW f \in FrameValue, NewName(f), SendFrame(f)
      PROVE  /\ frames_out' \in Seq(FrameValue) /\ frames_out' \in Seq(FrameRecord)
             /\ \A i \in DOMAIN frames_out' : NewName(frames_out'[i])
             /\ to_server' = FrameStream(frames_out)' /\ to_server' \in Bytes
  BY <1>5, FrameTyped
<1>6. ASSUME SendText PROVE SessionTypes'
  <2>1. Head(typed) \in Texts /\ typed' \in Seq(Texts)
    BY <1>6 DEF SendText, SessionTypes, TypeOK
  <2>2. Prefix \o Head(typed) \in Text
    BY <2>1, TextsAssumption DEF Text
  <2>3. /\ Frame("Message", Prefix \o Head(typed)) \in FrameValue
        /\ NewName(Frame("Message", Prefix \o Head(typed)))
    BY <2>2, Kinds, FrameMade DEF BareFrames, NewName
  <2>4. SendFrame(Frame("Message", Prefix \o Head(typed)))
    BY <1>6 DEF SendText
  <2>5. /\ frames_out' \in Seq(FrameValue) /\ frames_out' \in Seq(FrameRecord)
        /\ \A i \in DOMAIN frames_out' : NewName(frames_out'[i])
        /\ to_server' = FrameStream(frames_out)' /\ to_server' \in Bytes
    BY <1>5, <2>3, <2>4
  <2>6. /\ half' = <<>> /\ torn' \in BOOLEAN /\ UNCHANGED misread
        /\ UNCHANGED <<page, asking, lobby, ended_by, keyboard_done, server_vars, to_client,
                       responses_out, counts>>
    BY <1>6 DEF SendText, DropHalf, SessionTypes, TypeOK
  <2> QED
    BY <1>4, <2>1, <2>5, <2>6
    DEF SessionTypes, TypeOK, server_vars, read_vars, write_vars, channels
<1>7. ASSUME CloseWindow PROVE SessionTypes'
  <2>1. Frame("Quit", NoText) \in FrameValue /\ NewName(Frame("Quit", NoText))
    BY NoTextFits, Kinds, FrameMade DEF NoText, NewName
  <2>2. SendFrame(Frame("Quit", NoText))
    BY <1>7 DEF CloseWindow
  <2>3. /\ frames_out' \in Seq(FrameValue) /\ frames_out' \in Seq(FrameRecord)
        /\ \A i \in DOMAIN frames_out' : NewName(frames_out'[i])
        /\ to_server' = FrameStream(frames_out)' /\ to_server' \in Bytes
    BY <1>5, <2>1, <2>2
  <2>4. /\ half' = <<>> /\ torn' \in BOOLEAN /\ UNCHANGED misread
        /\ asking' = FALSE /\ typed' = <<>> /\ keyboard_done' = FALSE
        /\ UNCHANGED <<page, lobby, ended_by, server_vars, to_client, responses_out, counts>>
    BY <1>7 DEF CloseWindow, DropHalf, SessionTypes, TypeOK
  <2>5. typed' \in Seq(Texts)
    BY <2>4
  <2> QED
    BY <1>4, <2>3, <2>4, <2>5
    DEF SessionTypes, TypeOK, server_vars, read_vars, write_vars, channels
<1> QED
  BY <1>1, <1>2, <1>6, <1>7

\* The two ways in which the client reads.
LEMMA ReadTyped ==
  ASSUME SessionTypes, ReadResponse \/ ReadByte
  PROVE  SessionTypes'
<1>1. /\ half \in Bytes /\ to_client \in Bytes /\ responses_out \in Seq(ResponseRecord)
      /\ asking \in BOOLEAN /\ misread \in BOOLEAN /\ torn \in BOOLEAN
      /\ page \in DOMAIN Accepts \cup Ended /\ lobby \subseteq ChatroomValue
      /\ ended_by \in EndRecord
  BY DEF SessionTypes, TypeOK
<1>2. (IF responses_out = <<>> THEN <<>> ELSE Tail(responses_out)) \in Seq(ResponseRecord)
  BY <1>1
<1>3. ASSUME lobby' \subseteq ChatroomValue PROVE \A c \in lobby' : c \in ChatroomRecord
  BY <1>3, ChatroomsAreRecords
<1>4. Open => page \in DOMAIN Accepts
  BY <1>1 DEF Open
<1>5. ASSUME NEW how \in {"Failed", "Panicked"}, page \in DOMAIN Accepts,
             NEW why \in ResponseKind \cup {"unparsable", "closed"}, End(how, why)
      PROVE  /\ page' \in DOMAIN Accepts \cup Ended /\ asking' \in BOOLEAN
             /\ lobby' \subseteq ChatroomValue /\ ended_by' \in EndRecord
  BY <1>1, <1>5, EndTyped
<1>6. ASSUME ReadResponse PROVE SessionTypes'
  <2>1. PICK o \in ResponseOutcomes(to_client) :
          \/ /\ o.outcome = "parsed"
             /\ to_client' = SubSeq(to_client, o.size + 1, Len(to_client))
             /\ responses_out' = IF responses_out = <<>> THEN <<>> ELSE Tail(responses_out)
             /\ Takes(responses_out, o.value)
             /\ React(o.value)
          \/ /\ o.outcome \in {"failed", "panicked"}
             /\ End(IF o.outcome = "failed" THEN "Failed" ELSE "Panicked", "unparsable")
             /\ UNCHANGED <<to_client, responses_out, ghosts>>
    BY <1>6 DEF ReadResponse
  <2>2. UNCHANGED <<half, typed, keyboard_done, server_vars, to_server, frames_out, counts>>
    BY <1>6 DEF ReadResponse, keyboard_vars
  <2>3. CASE o.outcome = "parsed"
    <3>1. /\ o.value.kind \in ResponseKind /\ o.value.data \in Bytes
          /\ o.size \in Nat /\ o.size <= Len(to_client)
      BY <1>1, <2>3, AnyOutcome
    <3>2. to_client' \in Bytes
      <4>1. to_client' = SubSeq(to_client, o.size + 1, Len(to_client))
        BY <2>1, <2>3
      <4> QED
        BY <1>1, <3>1, <4>1 DEF Bytes
    <3>3. React(o.value)
      BY <2>1, <2>3
    <3>4. /\ page' \in DOMAIN Accepts \cup Ended /\ asking' \in BOOLEAN
          /\ lobby' \subseteq ChatroomValue /\ ended_by' \in EndRecord
      BY <1>1, <1>4, <1>6, <3>1, <3>3, ReactTyped DEF ReadResponse
    <3>5. misread' \in BOOLEAN /\ torn' \in BOOLEAN
      BY <1>1, <2>1, <2>3 DEF Takes
    <3>6. responses_out' \in Seq(ResponseRecord)
      BY <1>2, <2>1, <2>3
    <3> QED
      BY <1>3, <2>2, <3>2, <3>4, <3>5, <3>6
      DEF SessionTypes, TypeOK, server_vars, read_vars, write_vars, channels
  <2>4. CASE o.outcome # "parsed"
    <3>1. /\ page' \in DOMAIN Accepts \cup Ended /\ asking' \in BOOLEAN
          /\ lobby' \subseteq ChatroomValue /\ ended_by' \in EndRecord
      BY <1>4, <1>5, <1>6, <2>1, <2>4 DEF ReadResponse
    <3>2. UNCHANGED <<to_client, responses_out, misread, torn>>
      BY <2>1, <2>4 DEF ghosts
    <3> QED
      BY <1>3, <2>2, <3>1, <3>2
      DEF SessionTypes, TypeOK, server_vars, read_vars, write_vars, channels
  <2> QED
    BY <2>3, <2>4
<1>7. ASSUME ReadByte PROVE SessionTypes'
  <2> DEFINE read == Append(half, Head(to_client))
  <2>1. PICK o \in ResponseOutcomes(read) :
          \/ /\ o.outcome = "unfinished"
             /\ half' = read
             /\ UNCHANGED <<page, asking, lobby, ended_by, responses_out, ghosts>>
          \/ /\ o.outcome = "parsed"
             /\ half' = <<>>
             /\ responses_out' = IF responses_out = <<>> THEN <<>> ELSE Tail(responses_out)
             /\ Takes(responses_out, o.value)
             /\ IF o.value.kind = "Message" THEN UNCHANGED <<page, asking, lobby, ended_by>>
                ELSE End("Failed", o.value.kind)
          \/ /\ o.outcome \in {"failed", "panicked"}
             /\ End(IF o.outcome = "failed" THEN "Failed" ELSE "Panicked", "unparsable")
             /\ half' = <<>>
             /\ UNCHANGED <<responses_out, ghosts>>
    BY <1>7 DEF ReadByte
  <2>2. /\ to_client # <<>> /\ to_client' = Tail(to_client)
        /\ UNCHANGED <<typed, keyboard_done, server_vars, to_server, frames_out, counts>>
        /\ page \in DOMAIN Accepts
    BY <1>1, <1>7, PageNames DEF ReadByte, keyboard_vars, Window
  <2>3. read \in Bytes /\ to_client' \in Bytes /\ <<>> \in Bytes
    BY <1>1, <2>2, HeadMoves, NoTextFits DEF NoText
  <2>4. o.outcome = "parsed" => o.value.kind \in ResponseKind
    BY <2>3, AnyOutcome
  <2> HIDE DEF read
  <2>5. CASE o.outcome = "unfinished"
    <3>1. /\ half' = read
          /\ UNCHANGED <<page, asking, lobby, ended_by, responses_out, misread, torn>>
      BY <2>1, <2>5 DEF ghosts
    <3> QED
      BY <2>2, <2>3, <3>1
      DEF SessionTypes, TypeOK, server_vars, read_vars, write_vars, channels
  <2>6. CASE o.outcome = "parsed"
    <3>1. /\ page' \in DOMAIN Accepts \cup Ended /\ asking' \in BOOLEAN
          /\ lobby' \subseteq ChatroomValue /\ ended_by' \in EndRecord
      BY <1>1, <1>5, <2>1, <2>2, <2>4, <2>6 DEF SessionTypes, TypeOK
    <3>2. misread' \in BOOLEAN /\ torn' \in BOOLEAN
      BY <1>1, <2>1, <2>6 DEF Takes
    <3>3. responses_out' \in Seq(ResponseRecord) /\ half' = <<>>
      BY <1>2, <2>1, <2>6
    <3> QED
      BY <1>3, <2>2, <2>3, <3>1, <3>2, <3>3
      DEF SessionTypes, TypeOK, server_vars, read_vars, write_vars, channels
  <2>7. CASE o.outcome \notin {"unfinished", "parsed"}
    <3>1. /\ page' \in DOMAIN Accepts \cup Ended /\ asking' \in BOOLEAN
          /\ lobby' \subseteq ChatroomValue /\ ended_by' \in EndRecord
      BY <1>5, <2>1, <2>2, <2>7
    <3>2. UNCHANGED <<responses_out, misread, torn>> /\ half' = <<>>
      BY <2>1, <2>7 DEF ghosts
    <3> QED
      BY <1>3, <2>2, <2>3, <3>1, <3>2
      DEF SessionTypes, TypeOK, server_vars, read_vars, write_vars, channels
  <2> QED
    BY <2>5, <2>6, <2>7
<1> QED
  BY <1>6, <1>7

\* The frame that the read task takes is the first one that it has not taken;
\* or it takes none and ends.
LEMMA FrameRead ==
  ASSUME SessionTypes, ServerReads
  PROVE  \/ /\ frames_out # <<>> /\ Head(frames_out) \in FrameValue
            /\ frames_out' = Tail(frames_out) /\ frames_out' \in Seq(FrameValue)
            /\ to_server' = FrameStream(frames_out)'
            /\ picture' \in Lobbies /\ UNCHANGED ghosts
            /\ \/ /\ Head(frames_out).kind \in LegalFrames
                  /\ \/ Answer(Head(frames_out)) \/ OpenChatroom(Head(frames_out))
                     \/ PassOn(Head(frames_out))
               \/ Hangup(Head(frames_out))
         \/ /\ read_pc' = "done"
            /\ UNCHANGED <<chatroom, channels, picture, to_server, frames_out, ghosts>>
<1>1. PICK o \in FrameOutcomes(to_server) :
        \/ /\ o.outcome = "parsed"
           /\ to_server' = SubSeq(to_server, o.size + 1, Len(to_server))
           /\ frames_out' = Tail(frames_out)
           /\ Takes(frames_out, o.value)
           /\ picture' \in Lobbies
           /\ \/ /\ o.value.kind \in LegalFrames
                 /\ Answer(o.value) \/ OpenChatroom(o.value) \/ PassOn(o.value)
              \/ Hangup(o.value)
        \/ /\ o.outcome = "failed"
           /\ read_pc' = "done"
           /\ UNCHANGED <<chatroom, channels, picture, to_server, frames_out, ghosts>>
  BY DEF ServerReads
<1>2. CASE o.outcome = "parsed"
  <2>1. /\ frames_out # <<>> /\ o.value = Head(frames_out) /\ Head(frames_out) \in FrameValue
        /\ Tail(frames_out) \in Seq(FrameValue)
        /\ SubSeq(to_server, o.size + 1, Len(to_server)) = FrameStream(Tail(frames_out))
    BY <1>2, FramesTaken DEF SessionTypes
  <2>2. frames_out' = Tail(frames_out) /\ to_server' = FrameStream(frames_out')
    BY <1>1, <1>2, <2>1
  <2>3. UNCHANGED ghosts
    BY <1>1, <1>2, <2>1 DEF Takes, ghosts, SessionTypes, TypeOK
  <2>4. /\ picture' \in Lobbies
        /\ \/ /\ Head(frames_out).kind \in LegalFrames
              /\ \/ Answer(Head(frames_out)) \/ OpenChatroom(Head(frames_out))
                 \/ PassOn(Head(frames_out))
           \/ Hangup(Head(frames_out))
    BY <1>1, <1>2, <2>1
  <2> QED
    BY <2>1, <2>2, <2>3, <2>4
<1>3. CASE o.outcome # "parsed"
  BY <1>1, <1>3
<1> QED
  BY <1>2, <1>3

\* What the write task writes was in a channel.
LEMMA ChannelTyped ==
  ASSUME NEW queue \in Seq(AnyResponse)
  PROVE  /\ queue \in Seq(ResponseRecord)
         /\ queue # <<>> => Head(queue) \in AnyResponse /\ Tail(queue) \in Seq(AnyResponse)
         /\ \A r \in AnyResponse : Append(queue, r) \in Seq(AnyResponse)
<1>1. AnyResponse \subseteq ResponseRecord
  BY DEF AnyResponse
<1> QED
  BY <1>1, LargerSet

\* What the read task does with a frame.
LEMMA ReadTaskTyped ==
  ASSUME SessionTypes, ServerReads
  PROVE  SessionTypes'
<1>1. /\ chatroom \in Bytes /\ read_pc \in {"running", "done"}
      /\ main_responses \in Seq(AnyResponse) /\ subscriptions \in Seq(AnyResponse)
  BY DEF SessionTypes, TypeOK
<1>2. UNCHANGED <<page, asking, lobby, half, ended_by, typed, keyboard_done, write_pc,
                  subscribed, to_client, responses_out, counts>>
  BY DEF ServerReads, client_vars, keyboard_vars, write_vars
<1> DEFINE f == Head(frames_out)
<1>3. CASE /\ frames_out # <<>> /\ f \in FrameValue
           /\ frames_out' = Tail(frames_out) /\ frames_out' \in Seq(FrameValue)
           /\ to_server' = FrameStream(frames_out)'
           /\ picture' \in Lobbies /\ UNCHANGED ghosts
           /\ \/ f.kind \in LegalFrames /\ (Answer(f) \/ OpenChatroom(f) \/ PassOn(f))
              \/ Hangup(f)
  <2>1. f.kind \in FrameKind /\ f.text \in Bytes
    BY <1>3 DEF FrameValue, Text
  <2>2. picture' \in Lobbies
    BY <1>3
  <2>3. \A i \in DOMAIN picture' : picture'[i] \in ChatroomRecord
    <3>1. picture' \in Seq(ChatroomValue)
      BY <2>2, LobbiesTyped
    <3> QED
      BY <3>1, ChatroomsAreRecords
  <2>4. /\ frames_out' \in Seq(FrameRecord) /\ to_server' \in Bytes
        /\ \A i \in DOMAIN frames_out' : NewName(frames_out'[i])
    <3>1. frames_out' \in Seq(FrameRecord)
      BY <1>3, ValuesAreFrames, LargerSet
    <3>2. to_server' \in Bytes
      <4>1. FrameStream(Tail(frames_out)) \in Bytes
        BY <1>3, FrameSent
      <4> QED
        BY <1>3, <4>1
    <3>3. ASSUME NEW i \in DOMAIN frames_out' PROVE NewName(frames_out'[i])
      <4>1. frames_out \in Seq(FrameValue) /\ \A j \in DOMAIN frames_out : NewName(frames_out[j])
        BY DEF SessionTypes, TypeOK
      <4>2. i + 1 \in DOMAIN frames_out /\ frames_out'[i] = frames_out[i + 1]
        BY <1>3, <4>1
      <4> QED
        BY <4>1, <4>2, Zenon
    <3> QED
      BY <3>1, <3>2, <3>3
  <2>5. UNCHANGED <<misread, torn>>
    BY <1>3 DEF ghosts
  <2>6. /\ chatroom' \in Bytes /\ read_pc' \in {"running", "done"}
        /\ main_responses' \in Seq(AnyResponse) /\ subscriptions' \in Seq(AnyResponse)
    <3>1. CASE Answer(f)
      <4>1. PICK r \in Answers(f, picture') : main_responses' = Append(main_responses, r)
        BY <3>1 DEF Answer
      <4>2. r \in AnyResponse
        BY <1>1, <2>1, <2>2, <4>1, AnswerTyped
      <4> QED
        BY <1>1, <3>1, <4>1, <4>2, NoTextFits DEF Answer
    <3>2. CASE OpenChatroom(f)
      <4>1. \E r \in AnyResponse : subscriptions' = Append(subscriptions, r)
        BY <2>1, <3>2, OpeningTyped DEF OpenChatroom, JoinedKinds
      <4>2. \E r \in AnyResponse : main_responses' = Append(main_responses, r)
        BY <2>1, <3>2, OpeningTyped DEF OpenChatroom
      <4> QED
        BY <1>1, <2>1, <3>2, <4>1, <4>2, ChannelTyped DEF OpenChatroom
    <3>3. CASE PassOn(f)
      BY <1>1, <3>3 DEF PassOn, read_vars, channels
    <3>4. CASE Hangup(f)
      BY <1>1, <3>4 DEF Hangup, channels
    <3> QED
      BY <1>3, <3>1, <3>2, <3>3, <3>4
  <2>7. main_responses' \in Seq(ResponseRecord) /\ subscriptions' \in Seq(ResponseRecord)
    BY <2>6, ChannelTyped
  <2> HIDE DEF f
  <2> QED
    BY <1>2, <1>3, <2>2, <2>3, <2>4, <2>5, <2>6, <2>7 DEF SessionTypes, TypeOK
<1>4. CASE /\ read_pc' = "done"
           /\ UNCHANGED <<chatroom, channels, picture, to_server, frames_out, ghosts>>
  BY <1>2, <1>4 DEF SessionTypes, TypeOK, channels, ghosts
<1> QED
  BY <1>3, <1>4, FrameRead

\* What the write task writes, and what the tasks do at their start and end.
LEMMA WriteTaskTyped ==
  ASSUME SessionTypes, Greet \/ TurnedAway \/ ReadEnds \/ WriteNext
  PROVE  SessionTypes'
<1>1. /\ to_client \in Bytes /\ responses_out \in Seq(ResponseRecord)
      /\ main_responses \in Seq(AnyResponse) /\ subscriptions \in Seq(AnyResponse)
      /\ subscribed \in BOOLEAN
  BY DEF SessionTypes, TypeOK
<1>2. ASSUME NEW r \in AnyResponse, Write(r)
      PROVE  to_client' \in Bytes /\ responses_out' \in Seq(ResponseRecord)
  BY <1>1, <1>2, ResponseQueued
<1>3. ASSUME Greet PROVE SessionTypes'
  <2>1. \E r \in AnyResponse : main_responses' = Append(main_responses, r)
    BY <1>3, NoTextFits, OpeningTyped DEF Greet
  <2>2. main_responses' \in Seq(AnyResponse) /\ main_responses' \in Seq(ResponseRecord)
    BY <1>1, <2>1, ChannelTyped
  <2> QED
    BY <1>3, <2>2
    DEF Greet, SessionTypes, TypeOK, client_vars, keyboard_vars, read_vars, ghosts
<1>4. ASSUME TurnedAway \/ ReadEnds \/ WriteFails PROVE SessionTypes'
  BY <1>4
  DEF TurnedAway, ReadEnds, WriteFails, WriteTaskOnly, SessionTypes, TypeOK, client_vars,
      keyboard_vars, read_vars, write_vars, channels, ghosts
<1>5. ASSUME WriteAnswer PROVE SessionTypes'
  <2>1. /\ Head(main_responses) \in AnyResponse /\ main_responses' \in Seq(AnyResponse)
        /\ Write(Head(main_responses)) /\ subscribed' \in BOOLEAN
    BY <1>1, <1>5, ChannelTyped DEF WriteAnswer
  <2>2. to_client' \in Bytes /\ responses_out' \in Seq(ResponseRecord)
    BY <1>2, <2>1
  <2>3. main_responses' \in Seq(ResponseRecord)
    BY <2>1, ChannelTyped
  <2> QED
    BY <1>5, <2>1, <2>2, <2>3
    DEF WriteAnswer, WriteTaskOnly, SessionTypes, TypeOK, client_vars, keyboard_vars,
        read_vars, ghosts
<1>6. ASSUME WriteSubscription PROVE SessionTypes'
  <2>1. /\ Head(subscriptions) \in AnyResponse /\ subscriptions' \in Seq(AnyResponse)
        /\ Write(Head(subscriptions)) /\ subscribed' \in BOOLEAN
    BY <1>1, <1>6, ChannelTyped DEF WriteSubscription
  <2>2. to_client' \in Bytes /\ responses_out' \in Seq(ResponseRecord)
    BY <1>2, <2>1
  <2>3. subscriptions' \in Seq(ResponseRecord)
    BY <2>1, ChannelTyped
  <2> QED
    BY <1>6, <2>1, <2>2, <2>3
    DEF WriteSubscription, WriteTaskOnly, SessionTypes, TypeOK, client_vars, keyboard_vars,
        read_vars, ghosts
<1>7. ASSUME Broadcast PROVE SessionTypes'
  <2>1. PICK b \in Broadcasts : Write(Told(b))
    BY <1>7 DEF Broadcast, Told
  <2>2. to_client' \in Bytes /\ responses_out' \in Seq(ResponseRecord)
    BY <1>2, <2>1, ToldTyped
  <2>3. counts' \in [requests : 0 .. MaxRequests, texts : 0 .. MaxTexts,
                     broadcasts : 0 .. MaxBroadcasts]
    BY <1>7, CountsTyped DEF SessionTypes, TypeOK, Broadcast
  <2> QED
    BY <1>7, <2>2, <2>3
    DEF Broadcast, SessionTypes, TypeOK, client_vars, keyboard_vars, server_vars, read_vars,
        write_vars, channels, ghosts
<1>8. ASSUME Shutdown PROVE SessionTypes'
  <2>1. to_client' \in Bytes /\ responses_out' \in Seq(ResponseRecord)
    BY <1>2, <1>8, NoTextFits, OpeningTyped DEF Shutdown
  <2> QED
    BY <1>8, <2>1
    DEF Shutdown, WriteTaskOnly, SessionTypes, TypeOK, client_vars, keyboard_vars,
        read_vars, channels, ghosts
<1> QED
  BY <1>3, <1>4, <1>5, <1>6, <1>7, <1>8 DEF WriteNext

\* The connection ends.
LEMMA EndOfConnectionTyped ==
  ASSUME SessionTypes, ConnectionFails
  PROVE  SessionTypes'
<1>1. page \in DOMAIN Accepts
  BY DEF ConnectionFails, Open, SessionTypes, TypeOK
<1>2. /\ page' \in DOMAIN Accepts \cup Ended /\ asking' \in BOOLEAN /\ lobby' = lobby
      /\ ended_by' \in EndRecord
  BY <1>1, EndTyped DEF ConnectionFails
<1>3. half' \in Bytes
  BY NoTextFits DEF ConnectionFails, NoText
<1>4. UNCHANGED <<typed, keyboard_done, server_vars, to_server, to_client, frames_out,
                  responses_out, misread, torn, counts>>
  BY DEF ConnectionFails, keyboard_vars, ghosts
<1> QED
  BY <1>2, <1>3, <1>4
  DEF SessionTypes, TypeOK, server_vars, read_vars, write_vars, channels

\* Types are kept by every step.
LEMMA TypesKept ==
  ASSUME SessionTypes, [Next]_vars
  PROVE  SessionTypes'
<1>1. ASSUME UNCHANGED vars PROVE SessionTypes'
  BY <1>1
  DEF vars, client_vars, keyboard_vars, server_vars, read_vars, write_vars, channels, ghosts,
      SessionTypes, TypeOK
<1>2. \A at : \A kind \in {"Username", "Create"} : RequestName(at, kind) => SessionTypes'
  BY UserTyped
<1> QED
  BY <1>1, <1>2, UserTyped, WindowTyped, ReadTyped, ReadTaskTyped, WriteTaskTyped,
     EndOfConnectionTyped
  DEF Next, ServerNext, ReadNext, UserNext

\* Whatever was torn: every variable has its type, and what is on its way to the
\* server is the stream of the frames that it has not taken.
THEOREM Types ==
  Spec => []SessionTypes
<1>1. Init => SessionTypes
  BY TypesInit
<1>2. SessionTypes /\ [Next]_vars => SessionTypes'
  BY TypesKept
<1> QED
  BY <1>1, <1>2, PTL DEF Spec

\* Every variable has its type.
THEOREM TypesHold ==
  Spec => []TypeOK
<1>1. SessionTypes => TypeOK
  BY DEF SessionTypes
<1> QED
  BY <1>1, Types, PTL

-----------------------------------------------------------------------------
(* Queues                                                                  *)

\* One more value at the end of a queue.
LEMMA QueueGrows ==
  ASSUME NEW S, NEW q \in Seq(S), NEW e \in S
  PROVE  /\ Append(q, e) # <<>> /\ Append(q, e) \in Seq(S)
         /\ Messages(q) /\ e.kind = "Message" => Messages(Append(q, e))
         /\ \A kinds : Messages(q) /\ e.kind \in kinds => EndsWith(Append(q, e), kinds)
<1> DEFINE more == Append(q, e)
           n == Len(q)
<1>1. /\ n \in Nat /\ more \in Seq(S) /\ Len(more) = n + 1 /\ more # <<>>
      /\ more[n + 1] = e /\ \A i \in 1 .. n : more[i] = q[i]
      /\ DOMAIN more = 1 .. n + 1 /\ DOMAIN q = 1 .. n
  OBVIOUS
<1> HIDE DEF more, n
<1>2. Messages(q) /\ e.kind = "Message" => Messages(more)
  BY <1>1 DEF Messages
<1>3. ASSUME NEW kinds, Messages(q), e.kind \in kinds PROVE EndsWith(more, kinds)
  BY <1>1, <1>3 DEF Messages, EndsWith
<1> QED
  BY <1>1, <1>2, <1>3 DEF more

\* The first value of a queue, and the rest.
LEMMA QueueShrinks ==
  ASSUME NEW S, NEW q \in Seq(S), q # <<>>
  PROVE  /\ Tail(q) \in Seq(S) /\ Head(q) \in S /\ Head(q) = q[1] /\ 1 \in DOMAIN q
         /\ \A i \in DOMAIN Tail(q) : i + 1 \in DOMAIN q /\ Tail(q)[i] = q[i + 1]
         /\ Len(q) = 1 => Tail(q) = <<>>
         /\ Messages(q) => Head(q).kind = "Message" /\ Messages(Tail(q))
         /\ \A kinds : EndsWith(q, kinds) =>
              \/ Head(q).kind \in kinds /\ Tail(q) = <<>>
              \/ Head(q).kind = "Message" /\ EndsWith(Tail(q), kinds)
<1> DEFINE t == Tail(q)
           n == Len(q)
<1>1. /\ n \in Nat /\ n >= 1 /\ t \in Seq(S) /\ Len(t) = n - 1 /\ Head(q) \in S /\ Head(q) = q[1]
      /\ DOMAIN t = 1 .. n - 1 /\ DOMAIN q = 1 .. n
      /\ \A i \in 1 .. n - 1 : t[i] = q[i + 1]
      /\ (n = 1 => t = <<>>) /\ (n # 1 => t # <<>>)
  <2>1. /\ n \in Nat /\ n >= 1 /\ Head(q) \in S /\ Head(q) = q[1] /\ DOMAIN q = 1 .. n
    OBVIOUS
  <2>2. t \in Seq(S) /\ Len(t) = n - 1
    OBVIOUS
  <2>3. \A i \in 1 .. n - 1 : t[i] = q[i + 1]
    OBVIOUS
  <2> HIDE DEF t, n
  <2>4. DOMAIN t = 1 .. n - 1 /\ (n = 1 => t = <<>>) /\ (n # 1 => t # <<>>)
    BY <2>1, <2>2
  <2> QED
    BY <2>1, <2>2, <2>3, <2>4
<1> HIDE DEF t, n
<1>2. \A i \in DOMAIN t : i + 1 \in DOMAIN q /\ t[i] = q[i + 1]
  BY <1>1
<1>3. Messages(q) => Head(q).kind = "Message" /\ Messages(t)
  BY <1>1, <1>2 DEF Messages
<1>4. ASSUME NEW kinds, EndsWith(q, kinds)
      PROVE  \/ Head(q).kind \in kinds /\ t = <<>>
             \/ Head(q).kind = "Message" /\ EndsWith(t, kinds)
  <2>1. q[n].kind \in kinds /\ \A i \in DOMAIN q : i # n => q[i].kind = "Message"
    BY <1>4 DEF EndsWith, n
  <2>2. CASE n = 1
    BY <1>1, <2>1, <2>2
  <2>3. CASE n # 1
    <3>1. Head(q).kind = "Message"
      BY <1>1, <2>1, <2>3
    <3>2. t[n - 1] = q[n] /\ n - 1 \in 1 .. n - 1
      BY <1>1, <2>3
    <3>3. ASSUME NEW i \in DOMAIN t, i # Len(t) PROVE t[i].kind = "Message"
      BY <1>1, <2>1, <3>3
    <3> QED
      BY <1>1, <2>1, <2>3, <3>1, <3>2, <3>3 DEF EndsWith
  <2> QED
    BY <2>2, <2>3
<1> QED
  BY <1>1, <1>2, <1>3, <1>4 DEF t, n

\* A response that a write task that goes on has written.
LEMMA Written ==
  ASSUME NEW S, responses_out \in Seq(S), NEW r \in S, responses_out' = Append(responses_out, r),
         write_pc = "running", write_pc' = write_pc
  PROVE  /\ DOMAIN responses_out = 1 .. Len(responses_out) /\ Len(responses_out) \in Nat
         /\ DOMAIN responses_out' = 1 .. Len(responses_out) + 1
         /\ responses_out'[Len(responses_out) + 1] = r
         /\ \A i \in DOMAIN responses_out : responses_out'[i] = responses_out[i]
         /\ \A i \in DOMAIN responses_out : ~Bye(i)
         /\ \A kinds, more :
              Heard(kinds) /\ kinds \subseteq more /\ r.kind \in more => Heard(more)'
         /\ \A kinds : Once(kinds) /\ r.kind \notin kinds => Once(kinds)'
         /\ \A kinds, others : Heard(others) /\ kinds \cap others = {} => Once(kinds)'
<1> DEFINE n == Len(responses_out)
<1>1. /\ n \in Nat /\ DOMAIN responses_out = 1 .. n /\ DOMAIN responses_out' = 1 .. n + 1
      /\ responses_out'[n + 1] = r
      /\ \A i \in DOMAIN responses_out : responses_out'[i] = responses_out[i]
  OBVIOUS
<1> HIDE DEF n
<1>2. \A i : ~Bye(i)
  BY DEF Bye
<1>3. ASSUME NEW kinds, NEW more, Heard(kinds), kinds \subseteq more, r.kind \in more
      PROVE  Heard(more)'
  BY <1>1, <1>2, <1>3 DEF Heard
<1>4. ASSUME NEW kinds, Once(kinds), r.kind \notin kinds PROVE Once(kinds)'
  BY <1>1, <1>4 DEF Once
<1>5. ASSUME NEW kinds, NEW others, Heard(others), kinds \cap others = {} PROVE Once(kinds)'
  <2>1. \A i \in DOMAIN responses_out : responses_out[i].kind \notin kinds
    BY <1>2, <1>5 DEF Heard
  <2>2. \A i \in DOMAIN responses_out' : responses_out'[i].kind \in kinds => i = n + 1
    BY <1>1, <2>1
  <2> QED
    BY <2>2 DEF Once
<1> QED
  BY <1>1, <1>2, <1>3, <1>4, <1>5 DEF n

\* A response that has been taken.
LEMMA Taken ==
  ASSUME NEW S, responses_out \in Seq(S), responses_out # <<>>,
         responses_out' = Tail(responses_out), write_pc' = write_pc
  PROVE  /\ 1 \in DOMAIN responses_out /\ Head(responses_out) = responses_out[1]
         /\ \A i \in DOMAIN responses_out' :
              /\ i \in Nat /\ i >= 1 /\ i + 1 \in DOMAIN responses_out
              /\ responses_out'[i] = responses_out[i + 1]
              /\ Bye(i + 1) => Bye(i)'
         /\ \A i \in DOMAIN responses_out : i # 1 =>
              /\ i \in Nat /\ i > 1 /\ i - 1 \in DOMAIN responses_out'
              /\ responses_out'[i - 1] = responses_out[i]
         /\ \A kinds : Heard(kinds) => Heard(kinds)'
         /\ \A kinds : Once(kinds) => Once(kinds)'
         /\ \A kinds, once : Heard(kinds) /\ Once(once) /\ Head(responses_out).kind \in once
              => Heard(kinds \ once)'
<1> DEFINE n == Len(responses_out)
<1>1. /\ n \in Nat /\ n >= 1 /\ DOMAIN responses_out = 1 .. n /\ DOMAIN responses_out' = 1 .. n - 1
      /\ Len(responses_out') = n - 1 /\ Head(responses_out) = responses_out[1]
      /\ \A i \in 1 .. n - 1 : responses_out'[i] = responses_out[i + 1]
  <2>1. n \in Nat /\ n >= 1 /\ DOMAIN responses_out = 1 .. n
    OBVIOUS
  <2>2. Len(responses_out') = n - 1 /\ DOMAIN responses_out' = 1 .. n - 1
    OBVIOUS
  <2>3. \A i \in 1 .. n - 1 : responses_out'[i] = responses_out[i + 1]
    OBVIOUS
  <2>4. Head(responses_out) = responses_out[1]
    OBVIOUS
  <2> QED
    BY <2>1, <2>2, <2>3, <2>4
<1> HIDE DEF n
<1>2. \A i \in DOMAIN responses_out' :
        /\ i \in Nat /\ i >= 1 /\ i + 1 \in DOMAIN responses_out
        /\ responses_out'[i] = responses_out[i + 1]
  BY <1>1
<1>3. ASSUME NEW i \in DOMAIN responses_out', Bye(i + 1) PROVE Bye(i)'
  BY <1>1, <1>2, <1>3 DEF Bye, n
<1>4. ASSUME NEW i \in DOMAIN responses_out, i # 1
      PROVE  /\ i \in Nat /\ i > 1 /\ i - 1 \in DOMAIN responses_out'
             /\ responses_out'[i - 1] = responses_out[i]
  <2>1. i \in Nat /\ i > 1 /\ i - 1 \in 1 .. n - 1
    BY <1>1, <1>4
  <2>2. responses_out'[i - 1] = responses_out[(i - 1) + 1]
    BY <1>1, <2>1
  <2> QED
    BY <1>1, <2>1, <2>2
<1>5. ASSUME NEW kinds, Heard(kinds) PROVE Heard(kinds)'
  BY <1>2, <1>3, <1>5 DEF Heard
<1>6. ASSUME NEW kinds, Once(kinds) PROVE Once(kinds)'
  <2> SUFFICES ASSUME NEW i \in DOMAIN responses_out', NEW j \in DOMAIN responses_out',
                      responses_out'[i].kind \in kinds, responses_out'[j].kind \in kinds
               PROVE  i = j
    BY DEF Once
  <2>1. i + 1 = j + 1
    BY <1>2, <1>6 DEF Once
  <2> QED
    BY <1>2, <2>1
<1>7. ASSUME NEW kinds, NEW once, Heard(kinds), Once(once), Head(responses_out).kind \in once
      PROVE  Heard(kinds \ once)'
  <2> SUFFICES ASSUME NEW i \in DOMAIN responses_out'
               PROVE  responses_out'[i].kind \in kinds \ once \/ Bye(i)'
    BY DEF Heard
  <2>1. responses_out[i + 1].kind \notin once
    <3>1. i + 1 # 1 /\ 1 \in DOMAIN responses_out /\ i + 1 \in DOMAIN responses_out
      BY <1>1, <1>2
    <3>2. responses_out[1].kind \in once
      BY <1>1, <1>7
    <3> QED
      BY <1>7, <3>1, <3>2 DEF Once
  <2>2. responses_out[i + 1].kind \in kinds \/ Bye(i + 1)
    BY <1>2, <1>7 DEF Heard
  <2> QED
    BY <1>2, <1>3, <2>1, <2>2
<1> QED
  BY <1>1, <1>2, <1>3, <1>4, <1>5, <1>6, <1>7

-----------------------------------------------------------------------------
(* Client and server stay in step                                          *)

\* A name is not empty.
LEMMA NamesAreSome ==
  ASSUME NEW text \in Name
  PROVE  text # NoText
  BY DEF Name, AcceptsLine, NoText

\* In the window the client chats; a page that asks is the user's turn; a client
\* whose write task has not been spawned has not been greeted.
LEMMA WhoseTurn ==
  ASSUME Turns
  PROVE  /\ Window => Chatting
         /\ asking /\ page # "Chatroom" => UsersTurn
         /\ asking => write_pc # "idle"
         /\ Open /\ write_pc = "idle" => Ungreeted
         /\ Open /\ write_pc # "idle" => InTurn
         /\ ~Open => Over
<1>1. Window => Chatting
  BY DEF Turns, InTurn, Window, Ungreeted, UsersTurn, Asked, Answered, Opening, Leaving, Over
<1>2. asking /\ page # "Chatroom" => UsersTurn
  BY DEF Turns, InTurn, Window, Ungreeted, Chatting, Asked, Answered, Opening, Leaving, Over
<1>3. asking => write_pc # "idle"
  BY DEF Turns, Ungreeted, Over
<1>4. (Open /\ write_pc = "idle" => Ungreeted) /\ (Open /\ write_pc # "idle" => InTurn)
  BY DEF Turns, Ungreeted, Over
<1>5. ASSUME ~Open PROVE Over
  <2>1. page \in Ended
    BY <1>5 DEF Open
  <2>2. ~Ungreeted /\ ~UsersTurn /\ ~Asked /\ ~Answered /\ ~Opening /\ ~Chatting /\ ~Leaving
    BY <2>1 DEF Ended, Ungreeted, UsersTurn, Asked, AskedFor, Answered, Opening,
                Chatting, Window, Leaving
  <2> QED
    BY <2>2 DEF Turns, InTurn
<1> QED
  BY <1>1, <1>2, <1>3, <1>4, <1>5

\* A Quit frame is the last one.
LEMMA QuitEnds ==
  ASSUME SessionTypes, Turns
  PROVE  \A i \in DOMAIN frames_out : frames_out[i].kind = "Quit" => i = Len(frames_out)
<1>1. CASE Asked
  <2>1. Len(frames_out) = 1
    BY <1>1 DEF Asked, AskedFor
  <2>2. DOMAIN frames_out = 1 .. 1
    BY <2>1 DEF SessionTypes
  <2> QED
    BY <2>1, <2>2
<1>2. CASE frames_out = <<>>
  BY <1>2
<1>3. CASE Chatting
  BY <1>3 DEF Chatting, Messages
<1>4. CASE Leaving
  BY <1>4 DEF Leaving, EndsWith
<1>5. CASE Over
  BY <1>5 DEF Over
<1> QED
  BY <1>1, <1>2, <1>3, <1>4, <1>5
  DEF Turns, InTurn, Ungreeted, UsersTurn, Answered, OneAnswer, Opening

\* A step that leaves to the session what it depends on.
LEMMA Unaffected ==
  ASSUME InStep,
         UNCHANGED <<client_vars, write_vars, channels, chatroom, picture, to_client,
                     frames_out, responses_out, misread>>
  PROVE  InStep'
<1>1. UNCHANGED <<page, asking, lobby, half, ended_by, write_pc, subscribed, main_responses,
                  subscriptions, chatroom, picture, to_client, frames_out, responses_out,
                  misread>>
  BY DEF client_vars, write_vars, channels
<1>2. (\A i : Bye(i) <=> Bye(i)') /\ (Open <=> Open') /\ (Window <=> Window')
  BY <1>1 DEF Bye, Open, Window
<1>3. (\A kinds : Heard(kinds) <=> Heard(kinds)') /\ (\A kinds : Once(kinds) <=> Once(kinds)')
  BY <1>1, <1>2 DEF Heard, Once
<1>4. Framed'
  BY <1>1, <1>2 DEF InStep, Framed
<1>5. LobbyTold => LobbyTold'
  BY <1>1 DEF LobbyTold, TellsLobby
<1>6. (Silent <=> Silent') /\ (Unsaid <=> Unsaid') /\ (Outside <=> Outside')
  BY <1>1, <1>3 DEF Silent, Unsaid, Outside
<1>7. \A kinds : OneAnswer(kinds) => OneAnswer(kinds)'
  BY <1>1, <1>2, <1>3, <1>6 DEF OneAnswer
<1>8. /\ Ungreeted => Ungreeted'
      /\ UsersTurn => UsersTurn'
      /\ Asked => Asked'
      /\ Over => Over'
  BY <1>1, <1>2, <1>6 DEF Ungreeted, UsersTurn, Asked, AskedFor, Over
<1>9. Answered => Answered'
  BY <1>1, <1>7 DEF Answered
<1>10. Opening => Opening'
  BY <1>1, <1>3 DEF Opening
<1>11. Chatting => Chatting'
  BY <1>1, <1>2, <1>3, <1>6 DEF Chatting, Messages
<1>12. Leaving => Leaving'
  BY <1>1, <1>2, <1>3 DEF Leaving, EndsWith
<1>13. Turns'
  BY <1>1, <1>8, <1>9, <1>10, <1>11, <1>12 DEF InStep, Turns, InTurn
<1> QED
  BY <1>2, <1>4, <1>5, <1>13 DEF InStep

\* When the program has ended, the server can do no harm.
LEMMA OverStays ==
  ASSUME SessionTypes, InStep, ~Open, UNCHANGED <<page, asking, half, ended_by, misread>>,
         frames_out' = frames_out \/ frames_out' = Tail(frames_out)
  PROVE  InStep'
<1>1. Over
  BY WhoseTurn DEF InStep
<1>2. \A i \in DOMAIN frames_out' : frames_out'[i].kind = "Quit" => i = Len(frames_out')
  <2>1. frames_out \in Seq(FrameValue)
    BY DEF SessionTypes
  <2>2. CASE frames_out' = frames_out
    BY <1>1, <2>2 DEF Over
  <2>3. CASE frames_out' = Tail(frames_out) /\ frames_out # <<>>
    <3> SUFFICES ASSUME NEW i \in DOMAIN frames_out', frames_out'[i].kind = "Quit"
                 PROVE  i = Len(frames_out')
      OBVIOUS
    <3>1. i + 1 \in DOMAIN frames_out /\ frames_out'[i] = frames_out[i + 1] /\ i \in Nat
      BY <2>1, <2>3
    <3>2. i + 1 = Len(frames_out)
      BY <1>1, <3>1 DEF Over
    <3> QED
      BY <2>1, <2>3, <3>1, <3>2
  <2>4. CASE frames_out' = Tail(frames_out) /\ frames_out = <<>>
    <3>1. DOMAIN frames_out' = {}
      BY <2>1, <2>4
    <3> QED
      BY <3>1
  <2> QED
    BY <2>2, <2>3, <2>4
<1>3. Over' /\ ~Open'
  BY <1>1, <1>2 DEF Over, Open
<1>4. Framed'
  BY <1>3 DEF InStep, Framed, Window
<1> QED
  BY <1>3, <1>4 DEF InStep, Turns

\* What the write task writes follows what it wrote.
LEMMA FramedWritten ==
  ASSUME SessionTypes, Framed, Open, NEW r \in SaidResponse, Write(r),
         UNCHANGED <<page, asking, half, misread>>,
         main_responses' \in Seq(SaidResponse), subscriptions' \in Seq(SaidResponse)
  PROVE  /\ Framed' /\ responses_out \in Seq(SaidResponse)
         /\ responses_out' = Append(responses_out, r)
<1>1. half \in Bytes /\ to_client \in Bytes
  BY DEF SessionTypes, TypeOK
<1>2. responses_out' = Append(responses_out, r)
  BY DEF Write
<1>3. half' # <<>> => Window'
  BY DEF Framed, Window
<1>4. /\ responses_out \in Seq(SaidResponse)
      /\ half \o to_client = ResponseStream(responses_out)
      /\ half # <<>> =>
           responses_out # <<>> /\ Len(half) < Len(ResponseBytes(Head(responses_out)))
  BY DEF Framed
<1>5. /\ responses_out' \in Seq(SaidResponse)
      /\ half' \o to_client' = ResponseStream(responses_out)'
  BY <1>1, <1>4, StreamQueued
<1>6. ASSUME half' # <<>>
      PROVE  /\ responses_out' # <<>>
             /\ Len(half') < Len(ResponseBytes(Head(responses_out')))
  <2>1. responses_out # <<>> /\ Len(half) < Len(ResponseBytes(Head(responses_out)))
    BY <1>4, <1>6
  <2>2. responses_out' # <<>> /\ Head(responses_out') = Head(responses_out)
    BY <1>2, <1>4, <2>1
  <2> QED
    BY <2>1, <2>2
<1> QED
  BY <1>2, <1>3, <1>4, <1>5, <1>6 DEF Framed

\* A picture that is written was told before.
LEMMA ToldWritten ==
  ASSUME LobbyTold, NEW S, responses_out \in Seq(S), NEW r \in S,
         responses_out' = Append(responses_out, r), picture' = picture,
         r.kind \in LobbyKinds => r.data = LobbyBytes(picture),
         TellsLobby(main_responses')
  PROVE  LobbyTold'
<1>1. \A i \in DOMAIN responses_out' :
        responses_out'[i] = r \/ (i \in DOMAIN responses_out /\ responses_out'[i] = responses_out[i])
  OBVIOUS
<1>2. TellsLobby(responses_out)'
  BY <1>1 DEF LobbyTold, TellsLobby
<1> QED
  BY <1>2 DEF LobbyTold, TellsLobby

\* The client is greeted, or turned away.
LEMMA GreetKept ==
  ASSUME SessionTypes, InStep, Greet \/ TurnedAway
  PROVE  InStep'
<1>1. /\ write_pc = "idle" /\ write_pc' # "idle"
      /\ UNCHANGED <<page, asking, lobby, half, ended_by, chatroom, subscribed, subscriptions,
                     picture, to_client, frames_out, responses_out, misread>>
  BY DEF Greet, TurnedAway, client_vars, read_vars, channels, ghosts
<1>2. CASE ~Open
  BY <1>1, <1>2, OverStays
<1>3. CASE Open
  <2>1. Ungreeted
    BY <1>1, <1>3, WhoseTurn DEF InStep
  <2>2. /\ page = "WelcomePage" /\ ~asking /\ frames_out = <<>> /\ responses_out = <<>>
        /\ main_responses = <<>> /\ subscriptions = <<>> /\ Outside
    BY <2>1 DEF Ungreeted, Silent, Unsaid
  <2>3. Outside' /\ (\A kinds : Heard(kinds)')
    BY <1>1, <2>2 DEF Outside, Heard
  <2>4. \/ main_responses' = <<>>
        \/ \E r \in SaidResponse : main_responses' = <<r>> /\ r.kind = "ConnectionOk"
    <3>1. CASE Greet
      <4> DEFINE r == Response("ConnectionOk", NoText, NoText)
      <4>1. r \in SaidResponse /\ r.kind = "ConnectionOk"
        BY NoTextFits, OpeningTyped
      <4>2. main_responses' = Append(main_responses, r)
        BY <3>1 DEF Greet
      <4> HIDE DEF r
      <4> QED
        BY <2>2, <4>1, <4>2
    <3>2. CASE TurnedAway
      BY <2>2, <3>2 DEF TurnedAway, channels
    <3> QED
      BY <3>1, <3>2
  <2>5. OneAnswer({"ConnectionOk"})'
    BY <1>1, <2>2, <2>3, <2>4 DEF OneAnswer
  <2>6. Turns'
    BY <1>1, <2>2, <2>5 DEF Answered, Turns, InTurn
  <2>7. main_responses' \in Seq(SaidResponse)
    <3>1. \A r \in SaidResponse : <<r>> \in Seq(SaidResponse)
      OBVIOUS
    <3>2. main_responses \in Seq(SaidResponse)
      BY <1>3 DEF InStep, Framed
    <3> QED
      BY <2>2, <2>4, <3>1, <3>2
  <2>8. Framed'
    BY <1>1, <1>3, <2>7 DEF InStep, Framed, Open, Window
  <2>9. LobbyTold'
    BY <1>1, <2>2, <2>4 DEF LobbyTold, TellsLobby, LobbyKinds, NamedWithLobby
  <2> QED
    BY <2>6, <2>8, <2>9 DEF InStep
<1> QED
  BY <1>2, <1>3

\* A message of another user comes behind what the client is still to read.
LEMMA BroadcastKept ==
  ASSUME SessionTypes, InStep, Open, Broadcast
  PROVE  InStep'
<1>1. PICK b \in Broadcasts : Write(Told(b))
  BY DEF Broadcast, Told
<1> DEFINE e == Told(b)
           n == Len(responses_out)
<1>2. e \in SaidResponse /\ e.kind = "Message"
  BY ToldTyped
<1>3. /\ write_pc = "running" /\ subscribed
      /\ UNCHANGED <<page, asking, lobby, half, ended_by, chatroom, write_pc, subscribed,
                     main_responses, subscriptions, picture, frames_out, misread>>
  BY DEF Broadcast, client_vars, server_vars, read_vars, write_vars, channels, ghosts
<1> HIDE DEF e
<1>4. /\ Framed' /\ responses_out \in Seq(SaidResponse)
      /\ responses_out' = Append(responses_out, e)
  <2>1. main_responses' \in Seq(SaidResponse) /\ subscriptions' \in Seq(SaidResponse)
    BY <1>3 DEF InStep, Framed
  <2> QED
    BY <1>1, <1>2, <1>3, <2>1, FramedWritten DEF InStep, e
<1>5. LobbyTold'
  <2>1. e.kind \notin LobbyKinds
    BY <1>2 DEF LobbyKinds, NamedWithLobby
  <2> QED
    BY <1>2, <1>3, <1>4, <2>1, ToldWritten DEF InStep, LobbyTold
<1>6. /\ DOMAIN responses_out = 1 .. n /\ n \in Nat /\ DOMAIN responses_out' = 1 .. n + 1
      /\ responses_out'[n + 1] = e
      /\ \A i \in DOMAIN responses_out : responses_out'[i] = responses_out[i]
      /\ \A kinds, more : Heard(kinds) /\ kinds \subseteq more /\ e.kind \in more => Heard(more)'
      /\ \A kinds : Once(kinds) /\ e.kind \notin kinds => Once(kinds)'
      /\ \A i \in DOMAIN responses_out : ~Bye(i)
  BY <1>2, <1>3, <1>4, Written
<1> HIDE DEF n
<1>7. InTurn
  BY <1>3, WhoseTurn DEF InStep
<1>8. Opening \/ Chatting \/ Leaving
  BY <1>3, <1>7 DEF InTurn, UsersTurn, Asked, Answered, OneAnswer, Silent, Outside
<1>9. \A kinds : Heard(kinds) /\ "Message" \in kinds => Heard(kinds)'
  BY <1>2, <1>6
<1>10. CASE Opening
  <2>1. subscriptions = <<>>
    BY <1>3, <1>10 DEF Opening
  <2>2. /\ Heard(JoinedKinds \cup {"ReadSync", "Message"})'
        /\ Heard(JoinedKinds \cup {"Message"}) => Heard(JoinedKinds \cup {"Message"})'
        /\ Heard({"ReadSync", "Message"}) => Heard({"ReadSync", "Message"})'
    BY <1>9, <1>10 DEF Opening
  <2>3. Once(JoinedKinds)' /\ Once({"ReadSync"})'
    BY <1>2, <1>6, <1>10 DEF Opening, JoinedKinds
  <2>4. ASSUME page # "ConfirmPage"
        PROVE  /\ \E i \in DOMAIN responses_out' : responses_out'[i].kind \in JoinedKinds
               /\ \A i \in DOMAIN responses_out' : responses_out'[i].kind = "Message" =>
                    \E j \in 1 .. i - 1 : responses_out'[j].kind \in JoinedKinds
    <3>1. PICK i \in DOMAIN responses_out : responses_out[i].kind \in JoinedKinds
      BY <1>3, <1>10, <2>4 DEF Opening
    <3>2. ASSUME NEW k \in DOMAIN responses_out', responses_out'[k].kind = "Message"
          PROVE  \E j \in 1 .. k - 1 : responses_out'[j].kind \in JoinedKinds
      <4>1. CASE k = n + 1
        <5>1. i \in 1 .. k - 1
          BY <1>6, <4>1
        <5> QED
          BY <1>6, <3>1, <5>1
      <4>2. CASE k # n + 1
        <5>1. k \in DOMAIN responses_out /\ responses_out[k].kind = "Message"
          BY <1>6, <3>2, <4>2
        <5>2. PICK j \in 1 .. k - 1 : responses_out[j].kind \in JoinedKinds
          BY <1>10, <2>4, <5>1 DEF Opening
        <5>3. j \in DOMAIN responses_out
          BY <1>6, <5>1
        <5> QED
          BY <1>6, <5>2, <5>3
      <4> QED
        BY <4>1, <4>2
    <3> QED
      BY <1>6, <3>1, <3>2
  <2>5. Opening'
    BY <1>3, <1>10, <2>1, <2>2, <2>3, <2>4 DEF Opening
  <2> QED
    BY <1>3, <1>4, <1>5, <2>5 DEF InStep, Turns, InTurn
<1>11. CASE Chatting
  <2>1. Chatting'
    BY <1>3, <1>9, <1>11 DEF Chatting, Window, Unsaid, Messages
  <2> QED
    BY <1>3, <1>4, <1>5, <2>1 DEF InStep, Turns, InTurn
<1>12. CASE Leaving
  <2>1. Leaving'
    BY <1>3, <1>9, <1>12 DEF Leaving, EndsWith
  <2> QED
    BY <1>3, <1>4, <1>5, <2>1 DEF InStep, Turns, InTurn
<1> QED
  BY <1>8, <1>10, <1>11, <1>12

\* The write task writes the response of the main broker: the one answer, or
\* ReadSync.
LEMMA AnswerWritten ==
  ASSUME SessionTypes, InStep, Open, WriteAnswer
  PROVE  InStep'
<1> DEFINE r == Head(main_responses)
           n == Len(responses_out)
<1>1. /\ write_pc = "running" /\ main_responses # <<>> /\ Write(r)
      /\ main_responses' = Tail(main_responses)
      /\ subscribed' = (subscribed /\ r.kind # "ExitChatroom")
      /\ UNCHANGED <<page, asking, lobby, half, ended_by, chatroom, write_pc, subscriptions,
                     picture, frames_out, misread>>
  BY DEF WriteAnswer, WriteTaskOnly, client_vars, read_vars, ghosts
<1>2. /\ main_responses \in Seq(SaidResponse) /\ subscriptions \in Seq(SaidResponse)
      /\ responses_out \in Seq(SaidResponse)
  BY DEF InStep, Framed
<1>3. /\ r \in SaidResponse /\ main_responses' \in Seq(SaidResponse)
      /\ Len(main_responses) <= 1 => main_responses' = <<>>
  BY <1>1, <1>2
<1>4. InTurn
  BY <1>1, WhoseTurn DEF InStep
<1>5. Answered \/ Opening \/ Leaving
  BY <1>1, <1>4 DEF InTurn, UsersTurn, Asked, Chatting, Silent, Unsaid
<1>6. r.kind \in LobbyKinds => r.data = LobbyBytes(picture)
  <2>1. 1 \in DOMAIN main_responses /\ r = main_responses[1]
    BY <1>1, <1>2
  <2> QED
    BY <2>1 DEF InStep, LobbyTold, TellsLobby
<1> HIDE DEF r
<1>7. Framed' /\ responses_out' = Append(responses_out, r)
  BY <1>1, <1>2, <1>3, FramedWritten DEF InStep
<1>8. main_responses' = <<>>
  BY <1>1, <1>3, <1>5 DEF Answered, OneAnswer, Opening, Leaving
<1>9. LobbyTold'
  <2>1. TellsLobby(main_responses')
    BY <1>8 DEF TellsLobby
  <2> QED
    BY <1>1, <1>2, <1>3, <1>6, <1>7, <2>1, ToldWritten DEF InStep
<1>10. /\ DOMAIN responses_out = 1 .. n /\ n \in Nat /\ DOMAIN responses_out' = 1 .. n + 1
       /\ responses_out'[n + 1] = r
       /\ \A i \in DOMAIN responses_out : responses_out'[i] = responses_out[i]
       /\ \A kinds, more : Heard(kinds) /\ kinds \subseteq more /\ r.kind \in more => Heard(more)'
       /\ \A kinds : Once(kinds) /\ r.kind \notin kinds => Once(kinds)'
       /\ \A kinds, others : Heard(others) /\ kinds \cap others = {} => Once(kinds)'
       /\ \A i \in DOMAIN responses_out : ~Bye(i)
  BY <1>1, <1>2, <1>3, <1>7, Written
<1>11. \A kinds : Heard(kinds) => \A i \in DOMAIN responses_out : responses_out[i].kind \in kinds
  BY <1>10 DEF Heard
<1> HIDE DEF n
<1>12. CASE Answered
  <2>1. ASSUME NEW kinds, OneAnswer(kinds) PROVE OneAnswer(kinds)'
    <3>1. r.kind \in kinds /\ Heard({})
      BY <1>1, <2>1 DEF OneAnswer, r
    <3>2. n = 0
      BY <1>10, <1>11, <3>1
    <3>3. Heard(kinds)'
      BY <1>10, <3>1
    <3>4. \A i \in DOMAIN responses_out' : i = 1
      BY <1>10, <3>2
    <3> QED
      BY <1>1, <1>8, <2>1, <3>3, <3>4 DEF OneAnswer, Outside
  <2>2. Answered'
    BY <1>1, <1>12, <2>1 DEF Answered
  <2> QED
    BY <1>1, <1>7, <1>9, <2>2 DEF InStep, Turns, InTurn
<1>13. CASE Opening
  <2>1. /\ r.kind = "ReadSync" /\ page # "SubscriptionPage"
        /\ Heard(JoinedKinds \cup {"Message"})
    BY <1>1, <1>13 DEF Opening, r
  <2>9. subscribed' => subscribed
    BY <1>1
  <2>2. Heard(JoinedKinds \cup {"ReadSync", "Message"})'
    BY <1>10, <2>1
  <2>3. Once(JoinedKinds)' /\ Once({"ReadSync"})'
    <3>1. {"ReadSync"} \cap (JoinedKinds \cup {"Message"}) = {} /\ r.kind \notin JoinedKinds
      BY <2>1 DEF JoinedKinds
    <3> QED
      BY <1>10, <1>13, <2>1, <3>1 DEF Opening
  <2>4. subscriptions # <<>> => Heard({"ReadSync"})'
    BY <1>10, <1>13, <2>1 DEF Opening
  <2>5. page = "ConfirmPage" => Heard({"ReadSync", "Message"})'
    BY <1>10, <1>13, <2>1 DEF Opening
  <2>6. ASSUME page # "ConfirmPage"
        PROVE  /\ subscribed =>
                    \E i \in DOMAIN responses_out' : responses_out'[i].kind \in JoinedKinds
               /\ \A i \in DOMAIN responses_out' : responses_out'[i].kind = "Message" =>
                    \E j \in 1 .. i - 1 : responses_out'[j].kind \in JoinedKinds
    <3>1. ASSUME NEW k \in DOMAIN responses_out', responses_out'[k].kind = "Message"
          PROVE  \E j \in 1 .. k - 1 : responses_out'[j].kind \in JoinedKinds
      <4>1. k \in DOMAIN responses_out /\ responses_out[k].kind = "Message"
        BY <1>10, <2>1, <3>1
      <4>2. PICK j \in 1 .. k - 1 : responses_out[j].kind \in JoinedKinds
        BY <1>13, <2>6, <4>1 DEF Opening
      <4>3. j \in DOMAIN responses_out
        BY <1>10, <4>1
      <4> QED
        BY <1>10, <4>2, <4>3
    <3> QED
      BY <1>10, <1>13, <2>6, <3>1 DEF Opening
  <2>7. Opening'
    BY <1>1, <1>8, <1>13, <2>1, <2>2, <2>3, <2>4, <2>5, <2>6, <2>9 DEF Opening
  <2> QED
    BY <1>1, <1>7, <1>9, <2>7 DEF InStep, Turns, InTurn
<1>14. CASE Leaving
  <2>1. /\ page = "Chatroom" /\ ~asking /\ subscriptions = <<>> /\ chatroom = NoText
        /\ frames_out = <<>> /\ r.kind = "ExitChatroom" /\ Heard({"Message"})
    BY <1>1, <1>14 DEF Leaving, r
  <2>2. Heard({"Message", "ExitChatroom"})' /\ ~subscribed'
    BY <1>1, <1>10, <2>1
  <2>3. \A i, j \in DOMAIN responses_out' :
          ~(i < j /\ responses_out'[i].kind = "ExitChatroom")
    <3>1. \A i \in DOMAIN responses_out : responses_out[i].kind = "Message"
      BY <1>11, <2>1
    <3> QED
      BY <1>10, <3>1
  <2>4. Leaving'
    BY <1>1, <1>8, <2>1, <2>2, <2>3 DEF Leaving
  <2> QED
    BY <1>1, <1>7, <1>9, <2>4 DEF InStep, Turns, InTurn
<1> QED
  BY <1>5, <1>12, <1>13, <1>14

\* The write task writes the response that opens a chatroom.
LEMMA SubscriptionWritten ==
  ASSUME SessionTypes, InStep, Open, WriteSubscription
  PROVE  InStep'
<1> DEFINE r == Head(subscriptions)
           n == Len(responses_out)
<1>1. /\ write_pc = "running" /\ subscriptions # <<>> /\ Write(r)
      /\ subscriptions' = Tail(subscriptions) /\ subscribed'
      /\ UNCHANGED <<page, asking, lobby, half, ended_by, chatroom, write_pc, main_responses,
                     picture, frames_out, misread>>
  BY DEF WriteSubscription, WriteTaskOnly, client_vars, read_vars, ghosts
<1>2. /\ main_responses \in Seq(SaidResponse) /\ subscriptions \in Seq(SaidResponse)
      /\ responses_out \in Seq(SaidResponse)
  BY DEF InStep, Framed
<1>3. /\ r \in SaidResponse /\ subscriptions' \in Seq(SaidResponse)
      /\ Len(subscriptions) <= 1 => subscriptions' = <<>>
  BY <1>1, <1>2
<1>4. Opening
  BY <1>1, WhoseTurn
  DEF InStep, InTurn, UsersTurn, Asked, Answered, OneAnswer, Chatting, Leaving, Silent, Unsaid
<1>5. /\ r.kind \in JoinedKinds /\ page # "ConfirmPage" /\ Heard({"ReadSync"})
      /\ subscriptions' = <<>>
  BY <1>1, <1>3, <1>4 DEF Opening
<1> HIDE DEF r
<1>6. Framed' /\ responses_out' = Append(responses_out, r)
  <2>1. main_responses' \in Seq(SaidResponse)
    BY <1>1, <1>2
  <2> QED
    BY <1>1, <1>2, <1>3, <2>1, FramedWritten DEF InStep
<1>7. LobbyTold'
  <2>1. r.kind \notin LobbyKinds
    BY <1>5 DEF LobbyKinds, NamedWithLobby, JoinedKinds
  <2>2. TellsLobby(main_responses')
    BY <1>1 DEF InStep, LobbyTold
  <2> QED
    BY <1>1, <1>2, <1>3, <1>6, <2>1, <2>2, ToldWritten DEF InStep
<1>8. /\ DOMAIN responses_out = 1 .. n /\ n \in Nat /\ DOMAIN responses_out' = 1 .. n + 1
      /\ responses_out'[n + 1] = r
      /\ \A i \in DOMAIN responses_out : responses_out'[i] = responses_out[i]
      /\ \A kinds, more : Heard(kinds) /\ kinds \subseteq more /\ r.kind \in more => Heard(more)'
      /\ \A kinds : Once(kinds) /\ r.kind \notin kinds => Once(kinds)'
      /\ \A kinds, others : Heard(others) /\ kinds \cap others = {} => Once(kinds)'
      /\ \A i \in DOMAIN responses_out : ~Bye(i)
  BY <1>1, <1>2, <1>3, <1>6, Written
<1> HIDE DEF n
<1>9. Heard(JoinedKinds \cup {"ReadSync", "Message"})'
  BY <1>5, <1>8
<1>10. Once(JoinedKinds)' /\ Once({"ReadSync"})'
  <2>1. JoinedKinds \cap {"ReadSync"} = {} /\ r.kind # "ReadSync"
    BY <1>5 DEF JoinedKinds
  <2> QED
    BY <1>4, <1>5, <1>8, <2>1 DEF Opening
<1>11. Heard(JoinedKinds \cup {"Message"}) => Heard(JoinedKinds \cup {"Message"})'
  BY <1>5, <1>8
<1>12. /\ \E i \in DOMAIN responses_out' : responses_out'[i].kind \in JoinedKinds
       /\ \A i \in DOMAIN responses_out' : responses_out'[i].kind # "Message"
  <2>1. \A i \in DOMAIN responses_out : responses_out[i].kind = "ReadSync"
    BY <1>5, <1>8 DEF Heard
  <2>2. r.kind # "Message"
    BY <1>5 DEF JoinedKinds
  <2> QED
    BY <1>5, <1>8, <2>1, <2>2
<1>13. Opening'
  BY <1>1, <1>4, <1>5, <1>9, <1>10, <1>11, <1>12 DEF Opening
<1> QED
  BY <1>1, <1>6, <1>7, <1>13 DEF InStep, Turns, InTurn

\* The write task ends, with a last response or without one.
LEMMA WriteTaskEnds ==
  ASSUME SessionTypes, InStep, Open, Shutdown \/ WriteFails
  PROVE  InStep'
<1> DEFINE n == Len(responses_out)
<1>1. /\ write_pc = "running" /\ write_pc' = "done"
      /\ UNCHANGED <<page, asking, lobby, half, ended_by, chatroom, subscribed, main_responses,
                     subscriptions, picture, frames_out, misread>>
  BY DEF Shutdown, WriteFails, WriteTaskOnly, client_vars, read_vars, channels, ghosts
<1>2. /\ main_responses \in Seq(SaidResponse) /\ subscriptions \in Seq(SaidResponse)
      /\ responses_out \in Seq(SaidResponse) /\ n \in Nat /\ DOMAIN responses_out = 1 .. n
  BY DEF InStep, Framed
<1>3. /\ Framed' /\ LobbyTold'
      /\ \/ responses_out' = responses_out
         \/ \E r \in SaidResponse :
              r.kind = "ExitLobby" /\ responses_out' = Append(responses_out, r)
  <2>1. CASE Shutdown
    <3> DEFINE r == Response("ExitLobby", NoText, NoText)
    <3>1. r \in SaidResponse /\ r.kind = "ExitLobby"
      BY NoTextFits, OpeningTyped
    <3>2. Write(r)
      BY <2>1 DEF Shutdown
    <3> HIDE DEF r
    <3>3. main_responses' \in Seq(SaidResponse) /\ subscriptions' \in Seq(SaidResponse)
      BY <1>1, <1>2
    <3>4. Framed' /\ responses_out' = Append(responses_out, r)
      BY <1>1, <3>1, <3>2, <3>3, FramedWritten DEF InStep
    <3>5. r.kind \notin LobbyKinds /\ TellsLobby(main_responses')
      BY <1>1, <3>1 DEF InStep, LobbyTold, LobbyKinds, NamedWithLobby
    <3>6. LobbyTold'
      BY <1>1, <1>2, <3>1, <3>4, <3>5, ToldWritten DEF InStep
    <3> QED
      BY <3>1, <3>4, <3>6
  <2>2. CASE WriteFails
    <3>1. UNCHANGED <<to_client, responses_out>>
      BY <2>2 DEF WriteFails
    <3>2. Framed'
      BY <1>1, <3>1 DEF InStep, Framed, Open, Window
    <3>3. LobbyTold'
      BY <1>1, <3>1 DEF InStep, LobbyTold, TellsLobby
    <3> QED
      BY <3>1, <3>2, <3>3
  <2> QED
    BY <2>1, <2>2
<1>4. /\ \A i \in DOMAIN responses_out :
           i \in DOMAIN responses_out' /\ responses_out'[i] = responses_out[i]
      /\ \A i \in DOMAIN responses_out' :
           i \in DOMAIN responses_out \/ (i = n + 1 /\ Bye(i)')
  <2>1. CASE responses_out' = responses_out
    BY <2>1
  <2>2. CASE \E r \in SaidResponse :
               r.kind = "ExitLobby" /\ responses_out' = Append(responses_out, r)
    <3>1. PICK r \in SaidResponse :
            r.kind = "ExitLobby" /\ responses_out' = Append(responses_out, r)
      BY <2>2
    <3> DEFINE q == responses_out
               more == Append(q, r)
    <3>2. /\ DOMAIN more = 1 .. n + 1 /\ Len(more) = n + 1 /\ more[n + 1] = r
          /\ \A i \in 1 .. n : more[i] = q[i]
      BY <1>2
    <3> HIDE DEF more
    <3>3. responses_out' = more
      BY <3>1 DEF more
    <3>4. ASSUME NEW i, i = n + 1 PROVE Bye(i)'
      BY <1>1, <3>1, <3>2, <3>3, <3>4 DEF Bye
    <3>5. \A i \in 1 .. n + 1 : i \in 1 .. n \/ i = n + 1
      BY <1>2
    <3> QED
      BY <1>2, <3>2, <3>3, <3>4, <3>5
  <2> QED
    BY <1>3, <2>1, <2>2
<1> HIDE DEF n
<1>5. \A i : ~Bye(i)
  BY <1>1 DEF Bye
<1>6. \A kinds : Heard(kinds) => Heard(kinds)'
  BY <1>4, <1>5 DEF Heard
<1>7. \A i : Bye(i)' => responses_out'[i].kind = "ExitLobby"
  BY DEF Bye
<1>8. Once(JoinedKinds) => Once(JoinedKinds)'
  <2>1. \A i \in DOMAIN responses_out' : responses_out'[i].kind \in JoinedKinds =>
          i \in DOMAIN responses_out /\ responses_out[i].kind \in JoinedKinds
    BY <1>4, <1>7 DEF JoinedKinds
  <2> QED
    BY <2>1 DEF Once
<1>9. Once({"ReadSync"}) => Once({"ReadSync"})'
  <2>1. \A i \in DOMAIN responses_out' : responses_out'[i].kind \in {"ReadSync"} =>
          i \in DOMAIN responses_out /\ responses_out[i].kind \in {"ReadSync"}
    BY <1>4, <1>7
  <2> QED
    BY <2>1 DEF Once
<1>10. InTurn
  BY <1>1, WhoseTurn DEF InStep
<1>11. UsersTurn \/ Asked => UsersTurn' \/ Asked'
  BY <1>1, <1>6 DEF UsersTurn, Asked, AskedFor, Silent, Unsaid, Outside
<1>12. Answered => Answered'
  <2>1. ASSUME NEW kinds, OneAnswer(kinds) PROVE OneAnswer(kinds)'
    <3>1. \A i \in DOMAIN responses_out' : i \in DOMAIN responses_out \/ Bye(i)'
      BY <1>4
    <3> QED
      BY <1>1, <1>5, <1>6, <2>1, <3>1 DEF OneAnswer, Outside
  <2> QED
    BY <1>1, <2>1 DEF Answered
<1>13. Opening => Opening'
  <2>1. ASSUME Opening, page # "ConfirmPage", NEW k \in DOMAIN responses_out',
               responses_out'[k].kind = "Message"
        PROVE  \E j \in 1 .. k - 1 : responses_out'[j].kind \in JoinedKinds
    <3>1. k \in DOMAIN responses_out /\ responses_out[k].kind = "Message"
      BY <1>4, <1>7, <2>1
    <3>2. PICK j \in 1 .. k - 1 : responses_out[j].kind \in JoinedKinds
      BY <2>1, <3>1 DEF Opening
    <3>3. j \in DOMAIN responses_out
      BY <1>2, <3>1
    <3> QED
      BY <1>4, <3>2, <3>3
  <2>2. ASSUME NEW i \in DOMAIN responses_out, responses_out[i].kind \in JoinedKinds
        PROVE  \E j \in DOMAIN responses_out' : responses_out'[j].kind \in JoinedKinds
    BY <1>4, <2>2
  <2> QED
    BY <1>1, <1>6, <1>8, <1>9, <2>1, <2>2 DEF Opening
<1>14. Chatting => Chatting'
  BY <1>1, <1>6 DEF Chatting, Window, Unsaid, Messages
<1>15. Leaving => Leaving'
  <2>1. ASSUME \A i, j \in DOMAIN responses_out :
                 i < j /\ responses_out[i].kind = "ExitChatroom" => Bye(j),
               NEW i \in DOMAIN responses_out', NEW j \in DOMAIN responses_out',
               i < j, responses_out'[i].kind = "ExitChatroom"
        PROVE  Bye(j)'
    <3>1. i \in DOMAIN responses_out /\ responses_out[i].kind = "ExitChatroom"
      BY <1>4, <1>7, <2>1
    <3>2. j \notin DOMAIN responses_out
      BY <1>5, <2>1, <3>1
    <3> QED
      BY <1>4, <3>2
  <2> QED
    BY <1>1, <1>6, <2>1 DEF Leaving, EndsWith
<1>16. InTurn'
  BY <1>10, <1>11, <1>12, <1>13, <1>14, <1>15 DEF InTurn
<1> QED
  BY <1>1, <1>3, <1>16 DEF InStep, Turns

\* What the write task does.
LEMMA WriteTaskKept ==
  ASSUME SessionTypes, InStep, WriteNext
  PROVE  InStep'
<1>1. ASSUME ~Open PROVE InStep'
  <2>1. UNCHANGED <<page, asking, half, ended_by, misread, frames_out>>
    BY DEF WriteNext, WriteAnswer, WriteSubscription, Broadcast, Shutdown, WriteFails,
           WriteTaskOnly, client_vars, ghosts
  <2> QED
    BY <1>1, <2>1, OverStays
<1> QED
  BY <1>1, BroadcastKept, AnswerWritten, SubscriptionWritten, WriteTaskEnds DEF WriteNext

\* The server takes a frame: the request that the client waits on, or what it
\* sent from the chat window.
LEMMA FrameAnswered ==
  ASSUME SessionTypes, InStep, Open, ServerReads, frames_out # <<>>,
         NEW f \in FrameValue, f = Head(frames_out),
         frames_out' = Tail(frames_out), picture' \in Lobbies, UNCHANGED ghosts,
         \/ f.kind \in LegalFrames /\ (Answer(f) \/ OpenChatroom(f) \/ PassOn(f))
         \/ Hangup(f)
  PROVE  InStep'
<1>1. UNCHANGED <<page, asking, lobby, half, ended_by, write_pc, subscribed, to_client,
                  responses_out, misread>>
  BY DEF ServerReads, client_vars, write_vars, ghosts
<1>2. /\ main_responses \in Seq(SaidResponse) /\ subscriptions \in Seq(SaidResponse)
      /\ frames_out \in Seq(FrameValue) /\ chatroom \in Bytes
      /\ f.kind \in FrameKind /\ f.text \in Bytes
  BY DEF InStep, Framed, SessionTypes, TypeOK, FrameValue, Text
<1>3. write_pc # "idle" /\ (Asked \/ Chatting \/ Leaving) /\ main_responses = <<>>
      /\ subscriptions = <<>>
  BY WhoseTurn
  DEF InStep, Ungreeted, InTurn, UsersTurn, Asked, Answered, OneAnswer, Opening, Chatting, Leaving,
      Silent, Unsaid
<1>4. /\ \A i : Bye(i) <=> Bye(i)'
      /\ \A kinds : Heard(kinds) <=> Heard(kinds)'
      /\ Window <=> Window'
  BY <1>1 DEF Bye, Heard, Window
<1>5. TellsLobby(responses_out)'
  <2>1. Heard({}) \/ Heard({"Message"})
    BY <1>3 DEF Asked, Chatting, Leaving, Silent
  <2>2. \A i \in DOMAIN responses_out : responses_out[i].kind \in {"Message", "ExitLobby"}
    BY <2>1 DEF Heard, Bye
  <2>3. "Message" \notin LobbyKinds /\ "ExitLobby" \notin LobbyKinds
    BY DEF LobbyKinds, NamedWithLobby
  <2> QED
    BY <1>1, <2>2, <2>3 DEF TellsLobby
<1>6. ASSUME main_responses' \in Seq(SaidResponse), subscriptions' \in Seq(SaidResponse),
             TellsLobby(main_responses)', InTurn'
      PROVE  InStep'
  <2>1. Framed'
    BY <1>1, <1>4, <1>6 DEF InStep, Framed, Open
  <2> QED
    BY <1>1, <1>3, <1>5, <1>6, <2>1 DEF InStep, LobbyTold, Turns
<1>7. \A r \in SaidResponse : \A s : s = <<>> =>
        /\ Append(s, r) \in Seq(SaidResponse) /\ Len(Append(s, r)) = 1
        /\ Head(Append(s, r)) = r
        /\ (r.kind \in LobbyKinds => r.data = LobbyBytes(picture')) =>
             \A i \in DOMAIN Append(s, r) : Append(s, r)[i].kind \in LobbyKinds =>
               Append(s, r)[i].data = LobbyBytes(picture')
  OBVIOUS
<1>8. ASSUME main_responses' = <<>> PROVE TellsLobby(main_responses)'
  BY <1>8 DEF TellsLobby
<1>9. CASE Asked
  <2>1. /\ ~asking /\ Heard({}) /\ chatroom = NoText /\ ~subscribed /\ f \in AskedFrame
        /\ \/ page = "UsernamePage" /\ f.kind = "Username"
           \/ page = "LobbyPage" /\ f.kind \in {"Create", "Join", "Quit"}
           \/ page = "QuitChatroom" /\ f.kind = "Lobby"
    BY <1>9 DEF Asked, AskedFor, Silent, Outside
  <2>2. frames_out' = <<>>
    BY <1>2, <1>9 DEF Asked, AskedFor
  <2>3. CASE Answer(f)
    <3>1. PICK r \in Answers(f, picture') : main_responses' = Append(main_responses, r)
      BY <2>3 DEF Answer
    <3>2. /\ r \in SaidResponse
          /\ r.kind \in LobbyKinds => r.data = LobbyBytes(picture')
          /\ \/ f.kind = "Username" /\ r.kind \in {"UsernameOk", "UsernameAlreadyExists"}
             \/ /\ f.kind \in {"Create", "Join"}
                /\ r.kind \in {"ChatroomAlreadyExists", "ChatroomDoesNotExist", "ChatroomFull"}
             \/ f.kind = "Lobby" /\ r.kind = "Lobby"
      BY <1>2, <2>1, <3>1, AnswerTyped
    <3>3. /\ main_responses' \in Seq(SaidResponse) /\ Len(main_responses') = 1
          /\ Head(main_responses') = r /\ TellsLobby(main_responses)'
      BY <1>3, <1>7, <3>1, <3>2 DEF TellsLobby
    <3>4. chatroom' = NoText /\ subscriptions' = <<>>
      BY <1>3, <2>1, <2>3 DEF Answer
    <3>5. \A kinds : r.kind \in kinds => OneAnswer(kinds)'
      BY <1>1, <1>4, <2>1, <2>2, <3>3, <3>4 DEF OneAnswer, Outside
    <3>6. Answered'
      BY <1>1, <2>1, <3>2, <3>5 DEF Answered
    <3> QED
      BY <1>2, <1>3, <1>6, <3>3, <3>4, <3>6 DEF InTurn
  <2>4. CASE OpenChatroom(f)
    <3> DEFINE opened == Response(IF f.kind = "Create" THEN "ChatroomCreated" ELSE "Subscribed",
                                  f.text, NoText)
               sync == Response("ReadSync", NoText, NoText)
    <3>1. /\ subscriptions' = Append(subscriptions, opened)
          /\ main_responses' = Append(main_responses, sync)
          /\ chatroom' = f.text /\ f.kind \in {"Create", "Join"}
      BY <2>4, Zenon DEF OpenChatroom
    <3>2. f.text \in Name
      BY <2>1, <3>1 DEF AskedFrame, NamedFrames
    <3>3. opened \in SaidResponse /\ opened.kind \in JoinedKinds
      <4>1. (IF f.kind = "Create" THEN "ChatroomCreated" ELSE "Subscribed") \in JoinedKinds
        BY DEF JoinedKinds
      <4> QED
        BY <1>2, <3>2, <4>1, OpeningTyped
    <3>4. sync \in SaidResponse /\ sync.kind = "ReadSync"
      BY NoTextFits, OpeningTyped
    <3> HIDE DEF opened, sync
    <3>5. "ReadSync" \notin LobbyKinds
      BY DEF LobbyKinds, NamedWithLobby
    <3>6. /\ main_responses' \in Seq(SaidResponse) /\ Len(main_responses') = 1
          /\ Head(main_responses') = sync /\ TellsLobby(main_responses)'
      BY <1>3, <1>7, <3>1, <3>4, <3>5 DEF TellsLobby
    <3>7. /\ subscriptions' \in Seq(SaidResponse) /\ Len(subscriptions') = 1
          /\ Head(subscriptions') = opened
      BY <1>3, <1>7, <3>1, <3>3
    <3>8. page = "LobbyPage"
      BY <2>1, <3>1
    <3>9. \A kinds : Heard(kinds)'
      BY <1>4, <2>1 DEF Heard
    <3>10. \A i \in DOMAIN responses_out' : responses_out'[i].kind = "ExitLobby"
      BY <1>1, <2>1 DEF Heard, Bye
    <3>11. Once(JoinedKinds)' /\ Once({"ReadSync"})'
      BY <3>10 DEF Once, JoinedKinds
    <3>12. Opening'
      BY <1>1, <2>1, <2>2, <3>1, <3>2, <3>3, <3>4, <3>6, <3>7, <3>8, <3>9, <3>10, <3>11
      DEF Opening
    <3> QED
      BY <1>6, <3>6, <3>7, <3>12 DEF InTurn
  <2>5. CASE Hangup(f)
    <3>1. UNCHANGED <<chatroom, main_responses, subscriptions>>
      BY <2>5 DEF Hangup, channels
    <3>2. \A kinds : OneAnswer(kinds)'
      BY <1>1, <1>3, <1>4, <2>1, <2>2, <3>1 DEF OneAnswer, Outside, Heard
    <3>3. Answered'
      BY <1>1, <2>1, <3>2 DEF Answered
    <3> QED
      BY <1>2, <1>3, <1>6, <1>8, <3>1, <3>3 DEF InTurn
  <2>6. ~PassOn(f)
    BY <2>1 DEF PassOn
  <2> QED
    BY <2>3, <2>4, <2>5, <2>6
<1>10. ASSUME chatroom \in Name, f.kind \in {"Message", "Quit"}
       PROVE  /\ f.kind = "Message" => PassOn(f)
              /\ f.kind = "Quit" => Answer(f)
  <2>1. chatroom # NoText
    BY <1>10, NamesAreSome
  <2>2. ~Hangup(f)
    BY <1>10, <2>1 DEF Hangup, LegalFrames
  <2>3. ~OpenChatroom(f)
    BY <1>10 DEF OpenChatroom
  <2>4. f.kind = "Message" => ~Answer(f)
    BY DEF Answer, Answers
  <2>5. f.kind = "Quit" => ~PassOn(f)
    BY DEF PassOn
  <2> QED
    BY <2>2, <2>3, <2>4, <2>5
<1>11. PassOn(f) => UNCHANGED <<chatroom, main_responses, subscriptions>>
  BY DEF PassOn, read_vars, channels
<1>12. CASE Chatting
  <2>1. Messages(frames_out) /\ chatroom \in Name
    BY <1>12 DEF Chatting
  <2>2. f.kind = "Message" /\ Messages(Tail(frames_out))
    BY <1>2, <2>1, QueueShrinks
  <2>3. UNCHANGED <<chatroom, main_responses, subscriptions>>
    BY <1>10, <1>11, <2>1, <2>2
  <2>4. Chatting'
    BY <1>4, <1>12, <2>2, <2>3 DEF Chatting, Unsaid, Messages
  <2> QED
    BY <1>2, <1>3, <1>6, <1>8, <2>3, <2>4 DEF InTurn
<1>13. CASE Leaving
  <2>1. /\ page = "Chatroom" /\ ~asking /\ chatroom \in Name
        /\ EndsWith(frames_out, {"Quit"}) /\ Heard({"Message"})
    BY <1>3, <1>13 DEF Leaving
  <2>2. \/ f.kind = "Quit" /\ Tail(frames_out) = <<>>
        \/ f.kind = "Message" /\ EndsWith(Tail(frames_out), {"Quit"})
    BY <1>2, <2>1, QueueShrinks
  <2>3. CASE f.kind = "Message"
    <3>1. UNCHANGED <<chatroom, main_responses, subscriptions>>
      BY <1>10, <1>11, <2>1, <2>3
    <3>2. EndsWith(frames_out, {"Quit"})'
      BY <2>2, <2>3 DEF EndsWith
    <3>3. Leaving'
      BY <1>1, <1>3, <1>4, <2>1, <3>1, <3>2 DEF Leaving
    <3> QED
      BY <1>2, <1>3, <1>6, <1>8, <3>1, <3>3 DEF InTurn
  <2>4. CASE f.kind = "Quit"
    <3>1. Answer(f)
      BY <1>10, <2>1, <2>4
    <3>2. PICK r \in Answers(f, picture') : main_responses' = Append(main_responses, r)
      BY <3>1 DEF Answer
    <3>3. f \in AskedFrame
      BY <2>4 DEF AskedFrame, NamedFrames
    <3>4. /\ r \in SaidResponse
          /\ r.kind \in LobbyKinds => r.data = LobbyBytes(picture')
          /\ r.kind = "ExitChatroom"
      BY <1>2, <2>1, <2>4, <3>2, <3>3, AnswerTyped
    <3>5. /\ main_responses' \in Seq(SaidResponse) /\ Len(main_responses') = 1
          /\ Head(main_responses') = r /\ TellsLobby(main_responses)'
      BY <1>3, <1>7, <3>2, <3>4 DEF TellsLobby
    <3>6. chatroom' = NoText /\ subscriptions' = <<>>
      BY <1>3, <2>4, <3>1 DEF Answer
    <3>7. frames_out' = <<>>
      BY <2>2, <2>4
    <3>8. Leaving'
      BY <1>1, <1>4, <2>1, <3>4, <3>5, <3>6, <3>7 DEF Leaving
    <3> QED
      BY <1>2, <1>3, <1>6, <3>5, <3>6, <3>8 DEF InTurn
  <2> QED
    BY <2>2, <2>3, <2>4
<1> QED
  BY <1>3, <1>9, <1>12, <1>13

\* What the server does.
LEMMA ServerKept ==
  ASSUME SessionTypes, InStep, ServerNext
  PROVE  InStep'
<1>1. ASSUME ReadEnds PROVE InStep'
  BY <1>1, Unaffected DEF ReadEnds, ghosts
<1>2. ASSUME ServerReads PROVE InStep'
  <2>1. UNCHANGED <<client_vars, write_vars, to_client, responses_out>>
    BY <1>2 DEF ServerReads
  <2>2. CASE /\ frames_out # <<>> /\ Head(frames_out) \in FrameValue
             /\ frames_out' = Tail(frames_out)
             /\ picture' \in Lobbies /\ UNCHANGED ghosts
             /\ \/ /\ Head(frames_out).kind \in LegalFrames
                   /\ \/ Answer(Head(frames_out)) \/ OpenChatroom(Head(frames_out))
                      \/ PassOn(Head(frames_out))
                \/ Hangup(Head(frames_out))
    <3>1. CASE Open
      BY <1>2, <2>2, <3>1, FrameAnswered
    <3>2. CASE ~Open
      BY <2>1, <2>2, <3>2, OverStays DEF client_vars, ghosts
    <3> QED
      BY <3>1, <3>2
  <2>3. CASE UNCHANGED <<chatroom, channels, picture, to_server, frames_out, ghosts>>
    BY <2>1, <2>3, Unaffected DEF ghosts
  <2> QED
    BY <1>2, <2>2, <2>3, FrameRead
<1> QED
  BY <1>1, <1>2, GreetKept, WriteTaskKept DEF ServerNext, ReadNext


\* A step of the client alone leaves the stream to it framed.
LEMMA FramedLeft ==
  ASSUME Framed, half' = half, half # <<>> => Window',
         UNCHANGED <<page, to_client, responses_out, channels, misread>>
  PROVE  Framed'
  BY DEF Framed, Open, channels

\* Nor does it change what the server has said and has still to say.
LEMMA ServerWaits ==
  ASSUME UNCHANGED <<server_vars, responses_out>>
  PROVE  /\ UNCHANGED <<chatroom, picture, write_pc, subscribed, main_responses, subscriptions>>
         /\ \A kinds : Heard(kinds) => Heard(kinds)'
         /\ Silent => Silent'
         /\ LobbyTold => LobbyTold'
<1>1. UNCHANGED <<chatroom, picture, write_pc, subscribed, main_responses, subscriptions>>
  BY DEF server_vars, read_vars, write_vars, channels
<1>2. \A kinds : Heard(kinds) => Heard(kinds)'
  BY <1>1 DEF Heard, Bye
<1>3. Silent => Silent'
  BY <1>1, <1>2 DEF Silent, Unsaid, Outside
<1>4. LobbyTold => LobbyTold'
  BY <1>1 DEF LobbyTold, TellsLobby
<1> QED
  BY <1>1, <1>2, <1>3, <1>4

\* The user's request is the one frame on its way.
LEMMA RequestKept ==
  ASSUME SessionTypes, InStep, NEW at, NEW f \in AskedFrame, Request(at, f),
         \/ at = "UsernamePage" /\ f.kind = "Username"
         \/ at = "LobbyPage" /\ f.kind \in {"Create", "Join", "Quit"}
         \/ at = "QuitChatroom" /\ f.kind = "Lobby"
  PROVE  InStep'
<1>1. /\ page = at /\ asking /\ asking' = FALSE /\ SendFrame(f)
      /\ UNCHANGED <<page, half, server_vars, to_client, responses_out, misread>>
  BY DEF Request, ghosts
<1>2. UsersTurn /\ write_pc # "idle"
  BY <1>1, WhoseTurn DEF InStep
<1>3. half = <<>>
  BY <1>2 DEF InStep, Framed, UsersTurn, Window
<1>4. Framed'
  BY <1>1, <1>3, FramedLeft DEF InStep, server_vars
<1>5. frames_out' = <<f>>
  BY <1>1, <1>2 DEF SendFrame, UsersTurn
<1>6. Len(frames_out') = 1 /\ Head(frames_out') = f
  BY <1>5
<1>7. Silent' /\ write_pc' = write_pc /\ (LobbyTold => LobbyTold')
  BY <1>1, <1>2, ServerWaits DEF UsersTurn
<1>8. Asked'
  BY <1>1, <1>6, <1>7 DEF Asked, AskedFor
<1>9. LobbyTold'
  BY <1>2, <1>7 DEF InStep, UsersTurn, Open, Ended
<1> QED
  BY <1>2, <1>4, <1>7, <1>8, <1>9 DEF InStep, InTurn, Turns

\* The four requests.
LEMMA UserKept ==
  ASSUME SessionTypes, InStep,
         \/ RequestName("UsernamePage", "Username") \/ RequestName("LobbyPage", "Create")
         \/ RequestJoin \/ RequestQuit \/ RefreshLobby
  PROVE  InStep'
<1>1. ASSUME NEW at, NEW kind \in {"Username", "Create"}, RequestName(at, kind),
             at = IF kind = "Username" THEN "UsernamePage" ELSE "LobbyPage"
      PROVE  InStep'
  <2>1. PICK line \in Lines : AcceptsLine(line) /\ Request(at, Frame(kind, line))
    BY <1>1 DEF RequestName
  <2>2. line \in Text /\ line \in Name
    BY <2>1, LinesAssumption, NamesFit DEF Name, PlainTexts
  <2>3. kind \in FrameKind /\ kind \notin BareFrames
    BY Kinds DEF BareFrames
  <2>4. Frame(kind, line) \in AskedFrame /\ Frame(kind, line).kind = kind
    BY <2>2, <2>3, FrameMade
  <2> QED
    BY <1>1, <2>1, <2>4, RequestKept
<1>2. ASSUME RequestJoin PROVE InStep'
  <2>1. PICK c \in lobby : Request("LobbyPage", Frame("Join", c.name))
    BY <1>2 DEF RequestJoin
  <2>2. lobby = {picture[i] : i \in DOMAIN picture}
    <3>1. page = "LobbyPage" /\ asking
      BY <2>1 DEF Request
    <3> QED
      BY <3>1, WhoseTurn DEF InStep, UsersTurn
  <2>3. c.name \in Name
    <3>1. PICK i \in DOMAIN picture : c = picture[i]
      BY <2>2
    <3>2. picture # <<>>
      BY <3>1
    <3>3. picture \in Lobbies
      BY <3>2 DEF SessionTypes
    <3> QED
      BY <3>1, <3>3, LobbiesTyped
  <2>4. c.name \in Text
    BY <2>3, NamesFit DEF Name
  <2>5. Frame("Join", c.name) \in AskedFrame /\ Frame("Join", c.name).kind = "Join"
    BY <2>3, <2>4, Kinds, FrameMade DEF BareFrames
  <2> QED
    BY <2>1, <2>5, RequestKept
<1>3. \A kind \in {"Quit", "Lobby"} :
        Frame(kind, NoText) \in AskedFrame /\ Frame(kind, NoText).kind = kind
  BY NoTextFits, Kinds, FrameMade DEF NoText, NamedFrames
<1>4. ASSUME RequestQuit PROVE InStep'
  BY <1>3, <1>4, RequestKept DEF RequestQuit
<1>5. ASSUME RefreshLobby PROVE InStep'
  BY <1>3, <1>5, RequestKept DEF RefreshLobby
<1>6. ASSUME RequestName("UsernamePage", "Username") PROVE InStep'
  BY <1>1, <1>6
<1>7. ASSUME RequestName("LobbyPage", "Create") PROVE InStep'
  BY <1>1, <1>7
<1> QED
  BY <1>2, <1>4, <1>5, <1>6, <1>7

\* What the user types in the window, and the frames it sends.  A half-read
\* response that is dropped is lost.
LEMMA WindowKept ==
  ASSUME SessionTypes, InStep, ~torn', TypeText \/ PressQuit \/ SendText \/ CloseWindow
  PROVE  InStep'
<1>1. ASSUME TypeText \/ PressQuit PROVE InStep'
  BY <1>1, Unaffected DEF TypeText, PressQuit, server_vars, read_vars, ghosts
<1>2. ASSUME NEW f \in FrameValue, Window, SendFrame(f), DropHalf, LobbyTold,
             UNCHANGED <<page, server_vars, to_client, responses_out>>
      PROVE  /\ Framed' /\ LobbyTold' /\ Chatting /\ write_pc # "idle"
             /\ UNCHANGED <<chatroom, write_pc, main_responses, subscriptions>>
             /\ Heard({"Message"})' /\ Unsaid'
             /\ frames_out' = Append(frames_out, f)
             /\ f.kind = "Message" => Messages(frames_out')
             /\ f.kind = "Quit" => EndsWith(frames_out', {"Quit"})
  <2>1. half = <<>> /\ half' = <<>> /\ misread' = misread
    BY <1>2 DEF DropHalf
  <2>2. Chatting /\ write_pc # "idle"
    BY <1>2, WhoseTurn DEF InStep, Window
  <2>3. Framed'
    BY <1>2, <2>1, FramedLeft DEF InStep, server_vars
  <2>4. frames_out \in Seq(FrameValue) /\ frames_out' = Append(frames_out, f)
    BY <1>2 DEF SessionTypes, SendFrame
  <2>5. /\ f.kind = "Message" => Messages(Append(frames_out, f))
        /\ f.kind \in {"Quit"} => EndsWith(Append(frames_out, f), {"Quit"})
    BY <2>2, <2>4, QueueGrows DEF Chatting
  <2>6. /\ UNCHANGED <<chatroom, write_pc, main_responses, subscriptions>>
        /\ LobbyTold' /\ Heard({"Message"})'
    BY <1>2, <2>2, ServerWaits DEF Chatting
  <2>7. Unsaid'
    BY <2>2, <2>6 DEF Chatting, Unsaid
  <2> QED
    BY <2>2, <2>3, <2>4, <2>5, <2>6, <2>7
<1>3. Window => LobbyTold
  BY DEF InStep, Window, Open, Ended
<1>4. ASSUME SendText PROVE InStep'
  <2> DEFINE f == Frame("Message", Prefix \o Head(typed))
  <2>1. /\ Window /\ typed # <<>> /\ SendFrame(f) /\ DropHalf
        /\ UNCHANGED <<page, asking, server_vars, to_client, responses_out>>
    BY <1>4 DEF SendText
  <2>2. f \in FrameValue /\ f.kind = "Message"
    <3>1. Head(typed) \in Texts
      BY <2>1 DEF SessionTypes, TypeOK
    <3>2. Prefix \o Head(typed) \in Text
      BY <3>1, TextsAssumption DEF Text
    <3> QED
      BY <3>2, Kinds, FrameMade DEF BareFrames
  <2> HIDE DEF f
  <2>3. /\ Framed' /\ LobbyTold' /\ Chatting /\ write_pc # "idle"
        /\ UNCHANGED <<chatroom, write_pc>> /\ Heard({"Message"})' /\ Unsaid'
        /\ Messages(frames_out')
    BY <1>2, <1>3, <2>1, <2>2
  <2>4. Chatting'
    BY <2>1, <2>3 DEF Chatting, Window, Messages
  <2> QED
    BY <2>3, <2>4 DEF InStep, InTurn, Turns
<1>5. ASSUME CloseWindow PROVE InStep'
  <2> DEFINE f == Frame("Quit", NoText)
  <2>1. /\ Window /\ SendFrame(f) /\ DropHalf /\ asking' = FALSE
        /\ UNCHANGED <<page, server_vars, to_client, responses_out>>
    BY <1>5 DEF CloseWindow
  <2>2. f \in FrameValue /\ f.kind = "Quit"
    BY NoTextFits, Kinds, FrameMade DEF NoText
  <2> HIDE DEF f
  <2>3. /\ Framed' /\ LobbyTold' /\ Chatting /\ write_pc # "idle"
        /\ UNCHANGED <<chatroom, write_pc>> /\ Heard({"Message"})' /\ Unsaid'
        /\ EndsWith(frames_out', {"Quit"})
    BY <1>2, <1>3, <2>1, <2>2
  <2>4. Leaving'
    BY <2>1, <2>3 DEF Chatting, Window, Leaving, Unsaid, EndsWith
  <2> QED
    BY <2>3, <2>4 DEF InStep, InTurn, Turns
<1> QED
  BY <1>1, <1>4, <1>5

\* A response that is said is readable, if every text is ASCII.
LEMMA SaidIsReadable ==
  ASSUME NEW r \in SaidResponse, PlainTexts
  PROVE  Readable(r)
  BY DEF SaidResponse, Readable

\* The program ends with an error that no lost half explains: for a text that
\* is not ASCII, or for a reason that is known.
LEMMA Ends ==
  ASSUME SessionTypes, Turns, page' \in {"Failed", "Panicked"}, asking' = FALSE,
         ~misread', half' = <<>>, PlainTexts => ended_by' \in ExplainedEnds,
         frames_out' = frames_out
  PROVE  InStep'
<1>1. ~Open'
  BY DEF Open, Ended
<1>2. \A i \in DOMAIN frames_out : frames_out[i].kind = "Quit" => i = Len(frames_out)
  BY QuitEnds
<1>3. Over'
  BY <1>1, <1>2 DEF Over
<1> QED
  BY <1>1, <1>3 DEF InStep, Framed, Turns

\* The ends that are known: the server's, a message in between, a full chatroom.
LEMMA KnownEnd ==
  ASSUME page \in DOMAIN Accepts, NEW how, NEW why, End(how, why),
         \/ why = "closed"
         \/ why = "ExitLobby" /\ page # "LobbyPage"
         \/ why = "Message" /\ page \in {"ConfirmPage", "Chatroom"} /\ ~asking
         \/ why = "ChatroomFull" /\ page = "LobbyPage"
  PROVE  ended_by' \in ExplainedEnds
<1> DEFINE at == IF Window THEN "ChatWindow" ELSE page
<1>1. ended_by' = [page |-> at, why |-> why]
  BY DEF End
<1>2. at \in ProgramPages /\ (at = "LobbyPage" => page = "LobbyPage")
  BY DEF ProgramPages, Window
<1>3. ~asking \/ page = "LobbyPage" => at = page
  BY DEF Window
<1> HIDE DEF at
<1> QED
  BY <1>1, <1>2, <1>3 DEF ExplainedEnds

\* With the first response taken, what is left is told as before.
LEMMA TakenTold ==
  ASSUME LobbyTold, NEW S, responses_out \in Seq(S), responses_out # <<>>,
         responses_out' = Tail(responses_out), UNCHANGED <<picture, main_responses, write_pc>>
  PROVE  LobbyTold'
<1>1. \A i \in DOMAIN responses_out' :
        i + 1 \in DOMAIN responses_out /\ responses_out'[i] = responses_out[i + 1]
  BY Taken
<1> QED
  BY <1>1 DEF LobbyTold, TellsLobby

\* The window reads a byte of the first response.
LEMMA ReadByteKept ==
  ASSUME SessionTypes, InStep, ReadByte
  PROVE  InStep'
<1> DEFINE read == Append(half, Head(to_client))
           q == responses_out
<1>1. PICK o \in ResponseOutcomes(read) :
        \/ /\ o.outcome = "unfinished"
           /\ half' = read
           /\ UNCHANGED <<page, asking, lobby, ended_by, responses_out, ghosts>>
        \/ /\ o.outcome = "parsed"
           /\ half' = <<>>
           /\ responses_out' = IF responses_out = <<>> THEN <<>> ELSE Tail(responses_out)
           /\ Takes(responses_out, o.value)
           /\ IF o.value.kind = "Message" THEN UNCHANGED <<page, asking, lobby, ended_by>>
              ELSE End("Failed", o.value.kind)
        \/ /\ o.outcome \in {"failed", "panicked"}
           /\ End(IF o.outcome = "failed" THEN "Failed" ELSE "Panicked", "unparsable")
           /\ half' = <<>>
           /\ UNCHANGED <<responses_out, ghosts>>
  BY DEF ReadByte
<1>2. /\ Window /\ to_client # <<>> /\ to_client' = Tail(to_client)
      /\ UNCHANGED <<chatroom, picture, write_pc, main_responses, subscriptions, frames_out>>
  BY DEF ReadByte, server_vars, read_vars, write_vars, channels
<1>3. Chatting /\ Open /\ write_pc # "idle" /\ LobbyTold /\ Turns /\ page \in DOMAIN Accepts
  BY <1>2, WhoseTurn DEF InStep, Window, Open, Ended, Accepts
<1>4. /\ q \in Seq(SaidResponse) /\ half \o to_client = ResponseStream(q) /\ ~misread
      /\ main_responses \in Seq(SaidResponse) /\ subscriptions \in Seq(SaidResponse)
      /\ half # <<>> => q # <<>> /\ Len(half) < Len(ResponseBytes(Head(q)))
  BY <1>3 DEF InStep, Framed
<1>5. half \in Bytes /\ to_client \in Bytes
  BY DEF SessionTypes, TypeOK
<1>6. q \in Seq(ResponseValue)
  <2>1. SaidResponse \subseteq ResponseValue
    BY DEF SaidResponse
  <2> QED
    BY <1>4, <2>1, LargerSet
<1>7. /\ q # <<>> /\ read \o to_client' = half \o to_client
      /\ o.outcome # "panicked"
      /\ o.outcome = "failed" => ~Readable(Head(q))
      /\ o.outcome = "unfinished" => Len(read) < Len(ResponseBytes(Head(q)))
      /\ o.outcome = "parsed" => o.value = Head(q) /\ to_client' = ResponseStream(Tail(q))
  <2> DEFINE left == Tail(to_client)
             first == Head(q)
             others == Tail(q)
  <2>1. /\ q # <<>> /\ read \o left = half \o to_client
        /\ o.outcome # "panicked"
        /\ o.outcome = "failed" => ~Readable(first)
        /\ o.outcome = "unfinished" => Len(read) < Len(ResponseBytes(first))
        /\ o.outcome = "parsed" => o.value = first /\ left = ResponseStream(others)
    <3>1. Reading(q, half, to_client)
      BY <1>2, <1>4 DEF Reading
    <3>2. ByteRead(q, half, to_client, o)
      BY <1>5, <1>6, <3>1, ByteTaken, Zenon
    <3> QED
      BY <3>2 DEF ByteRead
  <2> HIDE DEF left, first, others
  <2>2. to_client' = left
    BY <1>2 DEF left
  <2> QED
    BY <2>1, <2>2 DEF first, others
<1>8. Head(q) \in SaidResponse /\ Tail(q) \in Seq(SaidResponse) /\ Head(q).kind \in {"Message", "ExitLobby"}
  <2>1. Head(q) \in SaidResponse /\ Tail(q) \in Seq(SaidResponse) /\ Head(q) = q[1] /\ 1 \in DOMAIN q
    BY <1>4, <1>7, QueueShrinks
  <2> QED
    BY <1>3, <2>1 DEF Chatting, Heard, Bye
<1> HIDE DEF read
<1>9. CASE o.outcome = "unfinished"
  <2>1. /\ half' = read
        /\ UNCHANGED <<page, asking, responses_out, misread>>
    BY <1>1, <1>9 DEF ghosts
  <2>2. half' \o to_client' = ResponseStream(responses_out)'
    BY <1>4, <1>7, <2>1
  <2>3. Len(half') < Len(ResponseBytes(Head(responses_out')))
    BY <1>7, <1>9, <2>1
  <2>4. Framed'
    BY <1>2, <1>4, <1>7, <2>1, <2>2, <2>3 DEF Framed, Window
  <2>5. Chatting'
    BY <1>2, <1>3, <2>1 DEF Chatting, Window, Messages, Heard, Bye, Unsaid
  <2>6. LobbyTold'
    BY <1>2, <1>3, <2>1 DEF LobbyTold, TellsLobby
  <2> QED
    BY <1>2, <1>3, <2>4, <2>5, <2>6 DEF InStep, InTurn, Turns
<1>10. CASE o.outcome = "parsed"
  <2>1. o.value = Head(q) /\ responses_out' = Tail(q) /\ half' = <<>>
    BY <1>1, <1>7, <1>10
  <2>2. ~misread'
    <3>1. Takes(q, o.value)
      BY <1>1, <1>10
    <3> QED
      BY <1>4, <1>7, <2>1, <3>1 DEF Takes
  <2>3. CASE Head(q).kind = "Message"
    <3>1. UNCHANGED <<page, asking>>
      BY <1>1, <1>10, <2>1, <2>3
    <3>2. half' \o to_client' = ResponseStream(responses_out)'
      <4>1. to_client' = ResponseStream(Tail(q)) /\ to_client' \in Bytes
        BY <1>2, <1>5, <1>7, <1>10, HeadMoves
      <4>2. <<>> \o to_client' = to_client'
        BY <4>1 DEF Bytes
      <4> QED
        BY <2>1, <4>1, <4>2
    <3>3. Framed'
      BY <1>2, <1>4, <1>8, <2>1, <2>2, <3>2 DEF Framed
    <3>4. Heard({"Message"})' /\ LobbyTold'
      BY <1>2, <1>3, <1>4, <1>7, <2>1, Taken, TakenTold DEF Chatting
    <3>5. Chatting'
      BY <1>2, <1>3, <3>1, <3>4 DEF Chatting, Window, Messages, Unsaid
    <3> QED
      BY <1>2, <1>3, <3>3, <3>4, <3>5 DEF InStep, InTurn, Turns
  <2>4. CASE Head(q).kind = "ExitLobby"
    <3>1. End("Failed", "ExitLobby")
      BY <1>1, <1>10, <2>1, <2>4
    <3>2. ended_by' \in ExplainedEnds
      BY <1>2, <1>3, <3>1, KnownEnd DEF Window
    <3> QED
      BY <1>2, <1>3, <2>1, <2>2, <3>1, <3>2, Ends DEF End
  <2> QED
    BY <1>8, <2>3, <2>4
<1>11. CASE o.outcome \notin {"unfinished", "parsed"}
  <2>1. /\ o.outcome = "failed" /\ End("Failed", "unparsable") /\ half' = <<>>
        /\ misread' = misread
    BY <1>1, <1>7, <1>11 DEF ghosts
  <2>2. ~PlainTexts
    BY <1>7, <1>8, <2>1, SaidIsReadable
  <2> QED
    BY <1>2, <1>3, <1>4, <2>1, <2>2, Ends DEF End
<1> QED
  BY <1>9, <1>10, <1>11

\* The client finds the connection closed.
LEMMA ConnectionKept ==
  ASSUME SessionTypes, InStep, ConnectionFails
  PROVE  InStep'
<1>1. /\ Open /\ End("Failed", "closed") /\ half' = <<>>
      /\ UNCHANGED <<frames_out, misread>>
  BY DEF ConnectionFails, ghosts
<1>2. page \in DOMAIN Accepts /\ ~misread /\ Turns
  BY <1>1 DEF Open, SessionTypes, TypeOK, InStep, Framed
<1>3. ended_by' \in ExplainedEnds
  BY <1>1, <1>2, KnownEnd
<1> QED
  BY <1>1, <1>2, <1>3, Ends DEF End

\* The page that a response leads to, and the lobby that it lists: what
\* ChatroomFrames::try_from makes of the server's picture is the picture.
LEMMA ReactGoes ==
  ASSUME SessionTypes, NEW r, React(r),
         r.kind \in LobbyKinds => r.data = LobbyBytes(picture)
  PROVE  /\ r.kind \notin Accepts[page] => End("Failed", r.kind)
         /\ r.kind \in Accepts[page] =>
              /\ page' = NextPage(r.kind)
              /\ asking' = (page' \notin {"ConfirmPage", "SubscriptionPage", "QuitLobbyPage"})
              /\ r.kind \in LobbyKinds => lobby' = {picture[i] : i \in DOMAIN picture}
<1> DEFINE parsed == LobbyPicture(r.data)
           fails == r.kind \notin Accepts[page] \/ (r.kind \in LobbyKinds /\ ~parsed.ok)
<1>1. picture \in Seq(ChatroomValue)
  <2>1. CASE picture = <<>>
    BY <2>1
  <2>2. CASE picture # <<>>
    BY <2>2, LobbiesTyped DEF SessionTypes
  <2> QED
    BY <2>1, <2>2
<1>2. ASSUME r.kind \in LobbyKinds
      PROVE  parsed = [ok |-> TRUE, chatrooms |-> {picture[i] : i \in DOMAIN picture}]
  BY <1>1, <1>2, LobbyRead
<1>3. ASSUME r.kind \in LobbyKinds
      PROVE  parsed.ok /\ parsed.chatrooms = {picture[i] : i \in DOMAIN picture}
  BY <1>2, <1>3
<1> HIDE DEF parsed
<1>4. ASSUME r.kind \notin Accepts[page] PROVE End("Failed", r.kind)
  BY <1>4, Zenon DEF React
<1>5. ASSUME r.kind \in Accepts[page]
      PROVE  /\ page' = NextPage(r.kind)
             /\ asking' = (page' \notin {"ConfirmPage", "SubscriptionPage", "QuitLobbyPage"})
             /\ lobby' = IF r.kind \in LobbyKinds THEN parsed.chatrooms ELSE {}
  <2>1. ~fails
    BY <1>3, <1>5
  <2> QED
    BY <2>1, Zenon DEF React, parsed
<1> QED
  BY <1>3, <1>4, <1>5

\* Where the responses of each page lead.
LEMMA PagesOfKinds ==
  /\ page = "WelcomePage" =>
       "ConnectionOk" \in Accepts[page] /\ NextPage("ConnectionOk") = "UsernamePage"
  /\ page = "UsernamePage" =>
       /\ "UsernameOk" \in Accepts[page] /\ NextPage("UsernameOk") = "LobbyPage"
       /\ "UsernameAlreadyExists" \in Accepts[page]
       /\ NextPage("UsernameAlreadyExists") = "UsernamePage"
  /\ page = "LobbyPage" =>
       /\ \A kind \in {"ChatroomAlreadyExists", "ChatroomDoesNotExist"} :
            kind \in Accepts[page] /\ NextPage(kind) = "LobbyPage"
       /\ "ChatroomFull" \notin Accepts[page]
       /\ "ExitLobby" \in Accepts[page] /\ NextPage("ExitLobby") = "QuitLobbyPage"
       /\ \A kind \in JoinedKinds : kind \in Accepts[page] /\ NextPage(kind) = "ConfirmPage"
       /\ "ReadSync" \in Accepts[page] /\ NextPage("ReadSync") = "SubscriptionPage"
  /\ page = "ConfirmPage" => "ReadSync" \in Accepts[page] /\ NextPage("ReadSync") = "Chatroom"
  /\ page = "SubscriptionPage" =>
       \A kind \in JoinedKinds : kind \in Accepts[page] /\ NextPage(kind) = "Chatroom"
  /\ page = "Chatroom" =>
       /\ "Message" \notin Accepts[page]
       /\ "ExitChatroom" \in Accepts[page] /\ NextPage("ExitChatroom") = "QuitChatroom"
  /\ page = "QuitChatroom" => "Lobby" \in Accepts[page] /\ NextPage("Lobby") = "LobbyPage"
<1>1. NextPage("ConnectionOk") = "UsernamePage"
  BY DEF NextPage, LobbyKinds, NamedWithLobby, JoinedKinds
<1>2. NextPage("UsernameAlreadyExists") = "UsernamePage"
  BY DEF NextPage, LobbyKinds, NamedWithLobby, JoinedKinds
<1>3. \A kind \in LobbyKinds : NextPage(kind) = "LobbyPage"
  BY DEF NextPage, LobbyKinds, NamedWithLobby, JoinedKinds
<1>4. NextPage("ExitLobby") = "QuitLobbyPage"
  BY DEF NextPage, LobbyKinds, NamedWithLobby, JoinedKinds
<1>5. NextPage("ExitChatroom") = "QuitChatroom"
  BY DEF NextPage, LobbyKinds, NamedWithLobby, JoinedKinds
<1>6. \A kind \in JoinedKinds :
        NextPage(kind) = IF page = "LobbyPage" THEN "ConfirmPage" ELSE "Chatroom"
  BY DEF NextPage, LobbyKinds, NamedWithLobby, JoinedKinds
<1>7. NextPage("ReadSync") = IF page = "LobbyPage" THEN "SubscriptionPage" ELSE "Chatroom"
  BY DEF NextPage, LobbyKinds, NamedWithLobby, JoinedKinds
<1>8. /\ Accepts["WelcomePage"] = {"ConnectionOk"}
      /\ Accepts["UsernamePage"] = {"UsernameAlreadyExists", "UsernameOk"}
      /\ Accepts["LobbyPage"] = JoinedKinds \cup {"ReadSync", "ExitLobby", "ChatroomDoesNotExist",
                                                  "ChatroomAlreadyExists"}
      /\ Accepts["ConfirmPage"] = {"ReadSync"} /\ Accepts["SubscriptionPage"] = JoinedKinds
      /\ Accepts["Chatroom"] = {"ExitChatroom"} /\ Accepts["QuitChatroom"] = {"Lobby"}
  BY DEF Accepts
<1>9. /\ {"UsernameOk", "ChatroomAlreadyExists", "ChatroomDoesNotExist", "Lobby"}
           \subseteq LobbyKinds
      /\ "ChatroomFull" \notin JoinedKinds
  BY DEF LobbyKinds, NamedWithLobby, JoinedKinds
<1> QED
  BY <1>1, <1>2, <1>3, <1>4, <1>5, <1>6, <1>7, <1>8, <1>9

\* No page but the lobby takes ExitLobby, and none takes a message.
LEMMA NotAccepted ==
  ASSUME page \in DOMAIN Accepts
  PROVE  "Message" \notin Accepts[page] /\ (page # "LobbyPage" => "ExitLobby" \notin Accepts[page])
  BY DEF Accepts, JoinedKinds

\* The program has parsed the first response, r.
TakesWhole(r) ==
  /\ SessionTypes /\ InStep /\ Open /\ ~asking /\ write_pc # "idle"
  /\ responses_out \in Seq(SaidResponse) /\ responses_out # <<>>
  /\ r = Head(responses_out) /\ r = responses_out[1]
  /\ 1 \in DOMAIN responses_out /\ responses_out' = Tail(responses_out)
  /\ React(r) /\ (r.kind \in LobbyKinds => r.data = LobbyBytes(picture))
  /\ UNCHANGED <<chatroom, picture, subscribed, write_pc, main_responses, subscriptions,
                 frames_out>>
  /\ half' = <<>> /\ ~misread' /\ Framed' /\ LobbyTold'

\* It meets a response that the page does not take, for a reason that is known.
LEMMA EndsWithCause ==
  ASSUME NEW r, TakesWhole(r),
         \/ r.kind = "ExitLobby" /\ page # "LobbyPage"
         \/ r.kind = "Message" /\ page \in {"ConfirmPage", "Chatroom"}
         \/ r.kind = "ChatroomFull" /\ page = "LobbyPage"
  PROVE  InStep'
<1>1. SessionTypes /\ Turns /\ page \in DOMAIN Accepts /\ ~asking
  BY DEF TakesWhole, InStep, SessionTypes, TypeOK, Open
<1>2. r.kind \notin Accepts[page]
  BY <1>1, NotAccepted, PagesOfKinds
<1>3. End("Failed", r.kind)
  BY <1>1, <1>2, ReactGoes DEF TakesWhole
<1>4. ended_by' \in ExplainedEnds
  BY <1>1, <1>3, KnownEnd
<1> QED
  BY <1>1, <1>3, <1>4, Ends DEF End, TakesWhole

\* The server's last response.
LEMMA ExitLobbyTaken ==
  ASSUME NEW r, TakesWhole(r), r.kind = "ExitLobby"
  PROVE  InStep'
<1>1. CASE page # "LobbyPage"
  BY <1>1, EndsWithCause
<1>2. CASE page = "LobbyPage"
  <2>1. page' = "QuitLobbyPage" /\ ~asking'
    BY <1>2, PagesOfKinds, ReactGoes DEF TakesWhole
  <2>2. ~Open'
    BY <2>1 DEF Open, Ended
  <2>3. Over'
    BY <2>1, <2>2, QuitEnds DEF Over, TakesWhole, InStep
  <2> QED
    BY <2>2, <2>3 DEF InStep, Turns, TakesWhole
<1> QED
  BY <1>1, <1>2

\* It is not the last one: then it is of a kind that is heard.
LEMMA NotYetBye ==
  ASSUME NEW r, TakesWhole(r), r.kind # "ExitLobby"
  PROVE  /\ \A kinds : Heard(kinds) => r.kind \in kinds
         /\ \A kinds : Heard(kinds) => Heard(kinds)'
         /\ Answered \/ Opening \/ Leaving
<1>1. \A kinds : Heard(kinds) => r.kind \in kinds
  BY DEF TakesWhole, Heard, Bye
<1>2. \A kinds : Heard(kinds) => Heard(kinds)'
  BY Taken DEF TakesWhole
<1>3. InTurn
  BY WhoseTurn DEF TakesWhole, InStep
<1>4. ~UsersTurn /\ ~Asked /\ ~Chatting
  BY <1>1 DEF UsersTurn, Asked, Silent, Chatting, Window, TakesWhole
<1> QED
  BY <1>1, <1>2, <1>3, <1>4 DEF InTurn

\* It is the answer to a request, or the greeting.
LEMMA AnswerTaken ==
  ASSUME NEW r, TakesWhole(r), r.kind # "ExitLobby", Answered
  PROVE  InStep'
<1>1. ASSUME NEW kinds, OneAnswer(kinds)
      PROVE  r.kind \in kinds /\ Silent' /\ frames_out' = <<>>
  <2>1. /\ frames_out = <<>> /\ subscriptions = <<>> /\ Outside /\ ~Heard({})
        /\ r.kind \in kinds
        /\ main_responses = <<>>
        /\ \A i \in DOMAIN responses_out : i = 1 \/ Bye(i)
    BY <1>1, NotYetBye DEF OneAnswer
  <2>2. Heard({})'
    <3>1. \A i \in DOMAIN responses_out' :
            i \in Nat /\ i >= 1 /\ i + 1 \in DOMAIN responses_out /\ (Bye(i + 1) => Bye(i)')
      BY Taken DEF TakesWhole
    <3>2. \A i \in DOMAIN responses_out' : Bye(i)'
      BY <2>1, <3>1
    <3> QED
      BY <3>2 DEF Heard
  <2> QED
    BY <2>1, <2>2 DEF TakesWhole, Silent, Unsaid, Outside
<1>2. Answered /\ write_pc' # "idle"
  BY DEF TakesWhole
<1>3. Silent' /\ frames_out' = <<>>
  BY <1>1, <1>2 DEF Answered
<1>4. ASSUME asking', page' \in {"UsernamePage", "LobbyPage", "QuitChatroom"},
             page' = "LobbyPage" => lobby' = {picture[i] : i \in DOMAIN picture}
      PROVE  InStep'
  <2>1. UsersTurn'
    BY <1>3, <1>4 DEF UsersTurn, TakesWhole
  <2> QED
    BY <1>2, <2>1 DEF InStep, InTurn, Turns, TakesWhole
<1>5. ASSUME r.kind \in Accepts[page],
             NextPage(r.kind) \in {"UsernamePage", "LobbyPage", "QuitChatroom"},
             NextPage(r.kind) = "LobbyPage" => r.kind \in LobbyKinds
      PROVE  InStep'
  BY <1>4, <1>5, ReactGoes DEF TakesWhole
<1>6. CASE page = "WelcomePage" /\ r.kind = "ConnectionOk"
  BY <1>5, <1>6, PagesOfKinds
<1>7. CASE page = "UsernamePage" /\ r.kind \in {"UsernameOk", "UsernameAlreadyExists"}
  <2>1. "UsernameOk" \in LobbyKinds
    BY DEF LobbyKinds, NamedWithLobby
  <2> QED
    BY <1>5, <1>7, <2>1, PagesOfKinds
<1>8. CASE page = "LobbyPage" /\ r.kind \in {"ChatroomAlreadyExists", "ChatroomDoesNotExist"}
  <2>1. r.kind \in LobbyKinds
    BY <1>8 DEF LobbyKinds, NamedWithLobby
  <2>2. r.kind \in Accepts[page] /\ NextPage(r.kind) = "LobbyPage"
    BY <1>8, PagesOfKinds
  <2> QED
    BY <1>5, <2>1, <2>2
<1>9. CASE page = "LobbyPage" /\ r.kind = "ChatroomFull"
  BY <1>9, EndsWithCause
<1>10. CASE page = "QuitChatroom" /\ r.kind = "Lobby"
  <2>1. "Lobby" \in LobbyKinds
    BY DEF LobbyKinds
  <2> QED
    BY <1>5, <1>10, <2>1, PagesOfKinds
<1> QED
  BY <1>1, <1>2, <1>6, <1>7, <1>8, <1>9, <1>10 DEF Answered

\* The window opens when the client has both responses: nothing but messages
\* is left.
LEMMA WindowOpens ==
  ASSUME NEW r, TakesWhole(r), Opening, page' = "Chatroom", asking', Heard({"Message"})', Unsaid
  PROVE  InStep'
<1>1. Chatting'
  BY DEF TakesWhole, Opening, Chatting, Window, Unsaid, Messages
<1> QED
  BY <1>1 DEF InStep, InTurn, Turns, TakesWhole

\* The client is in the lobby, and takes the first of the two.
LEMMA OpeningBegins ==
  ASSUME NEW r, TakesWhole(r), r.kind # "ExitLobby", Opening, page = "LobbyPage"
  PROVE  InStep'
<1>1. r.kind \in JoinedKinds \cup {"ReadSync", "Message"}
  BY NotYetBye DEF Opening
<1>2. r.kind # "Message"
  BY DEF Opening, TakesWhole
<1>3. /\ frames_out' = <<>> /\ chatroom' \in Name
      /\ Once(JoinedKinds)' /\ Once({"ReadSync"})'
      /\ Heard(JoinedKinds \cup {"ReadSync", "Message"})'
      /\ Len(subscriptions') <= 1 /\ Len(main_responses') <= 1
  <2>1. Once(JoinedKinds)' /\ Once({"ReadSync"})'
    BY Taken DEF Opening, TakesWhole
  <2> QED
    BY <2>1, NotYetBye DEF Opening, TakesWhole
<1>4. ASSUME Opening' PROVE InStep'
  BY <1>4 DEF InStep, InTurn, Turns, TakesWhole
<1>5. "ReadSync" \notin JoinedKinds
  BY DEF JoinedKinds
<1>6. CASE r.kind \in JoinedKinds
  <2>1. page' = "ConfirmPage" /\ ~asking'
    <3>1. r.kind \in Accepts[page] /\ NextPage(r.kind) = "ConfirmPage"
      BY <1>6, PagesOfKinds
    <3> QED
      BY <3>1, ReactGoes DEF TakesWhole
  <2>2. subscriptions' = <<>>
    <3>1. ~Heard({"ReadSync"})
      BY <1>5, <1>6, NotYetBye
    <3> QED
      BY <3>1 DEF Opening, TakesWhole
  <2>3. main_responses' # <<>> =>
          Head(main_responses').kind = "ReadSync" /\ Heard(JoinedKinds \cup {"Message"})'
    BY NotYetBye DEF Opening, TakesWhole
  <2>4. Heard({"ReadSync", "Message"})'
    <3>1. Heard((JoinedKinds \cup {"ReadSync", "Message"}) \ JoinedKinds)'
      BY <1>6, Taken DEF Opening, TakesWhole
    <3>2. (JoinedKinds \cup {"ReadSync", "Message"}) \ JoinedKinds = {"ReadSync", "Message"}
      BY DEF JoinedKinds
    <3> QED
      BY <3>1, <3>2
  <2>5. Opening'
    BY <1>3, <2>1, <2>2, <2>3, <2>4 DEF Opening
  <2> QED
    BY <1>4, <2>5
<1>7. CASE r.kind = "ReadSync"
  <2>1. page' = "SubscriptionPage" /\ ~asking'
    BY <1>7, PagesOfKinds, ReactGoes DEF TakesWhole
  <2>2. main_responses' = <<>>
    <3>1. ~Heard(JoinedKinds \cup {"Message"})
      BY <1>5, <1>7, NotYetBye
    <3> QED
      BY <3>1 DEF Opening, TakesWhole
  <2>3. subscriptions' # <<>> =>
          /\ Head(subscriptions').kind \in JoinedKinds /\ ~subscribed' /\ Heard({"ReadSync"})'
    BY NotYetBye DEF Opening, TakesWhole
  <2>4. Heard(JoinedKinds \cup {"Message"})'
    <3>1. Heard((JoinedKinds \cup {"ReadSync", "Message"}) \ {"ReadSync"})'
      BY <1>7, Taken DEF Opening, TakesWhole
    <3>2. (JoinedKinds \cup {"ReadSync", "Message"}) \ {"ReadSync"} = JoinedKinds \cup {"Message"}
      BY DEF JoinedKinds
    <3> QED
      BY <3>1, <3>2
  <2>5. /\ \A i \in DOMAIN responses_out' :
             /\ i \in Nat /\ i >= 1 /\ i + 1 \in DOMAIN responses_out
             /\ responses_out'[i] = responses_out[i + 1]
        /\ \A i \in DOMAIN responses_out : i # 1 =>
             /\ i \in Nat /\ i > 1 /\ i - 1 \in DOMAIN responses_out'
             /\ responses_out'[i - 1] = responses_out[i]
    BY Taken DEF TakesWhole
  <2>6. responses_out[1].kind \notin JoinedKinds
    BY <1>5, <1>7 DEF TakesWhole
  <2>7. subscribed' => \E i \in DOMAIN responses_out' : responses_out'[i].kind \in JoinedKinds
    <3>1. SUFFICES ASSUME subscribed'
                   PROVE  \E i \in DOMAIN responses_out' : responses_out'[i].kind \in JoinedKinds
      OBVIOUS
    <3>2. PICK i \in DOMAIN responses_out : responses_out[i].kind \in JoinedKinds
      BY <3>1 DEF Opening, TakesWhole
    <3> QED
      BY <2>5, <2>6, <3>2
  <2>8. ASSUME NEW i \in DOMAIN responses_out', responses_out'[i].kind = "Message"
        PROVE  \E j \in 1 .. i - 1 : responses_out'[j].kind \in JoinedKinds
    <3>1. i \in Nat /\ i + 1 \in DOMAIN responses_out /\ responses_out[i + 1].kind = "Message"
      BY <2>5, <2>8
    <3>2. PICK j \in 1 .. (i + 1) - 1 : responses_out[j].kind \in JoinedKinds
      BY <3>1 DEF Opening
    <3>3. j # 1 /\ j \in DOMAIN responses_out
      BY <2>6, <3>1, <3>2 DEF TakesWhole
    <3>4. j - 1 \in 1 .. i - 1 /\ responses_out'[j - 1].kind \in JoinedKinds
      BY <2>5, <3>1, <3>2, <3>3
    <3> QED
      BY <3>4
  <2>9. Opening'
    BY <1>3, <2>1, <2>2, <2>3, <2>4, <2>7, <2>8 DEF Opening
  <2> QED
    BY <1>4, <2>9
<1> QED
  BY <1>1, <1>2, <1>6, <1>7

\* It takes the second; or a message before ReadSync, which ends the program.
LEMMA OpeningCompletes ==
  ASSUME NEW r, TakesWhole(r), r.kind # "ExitLobby", Opening, page # "LobbyPage"
  PROVE  InStep'
<1>1. CASE page = "ConfirmPage"
  <2>1. r.kind \in {"ReadSync", "Message"}
    BY <1>1, NotYetBye DEF Opening
  <2>2. CASE r.kind = "Message"
    BY <1>1, <2>2, EndsWithCause
  <2>3. CASE r.kind = "ReadSync"
    <3>1. page' = "Chatroom" /\ asking'
      BY <1>1, <2>3, PagesOfKinds, ReactGoes DEF TakesWhole
    <3>2. Heard({"Message"})'
      <4>1. Heard({"ReadSync", "Message"} \ {"ReadSync"})'
        BY <1>1, <2>3, Taken DEF Opening, TakesWhole
      <4>2. {"ReadSync", "Message"} \ {"ReadSync"} = {"Message"}
        OBVIOUS
      <4> QED
        BY <4>1, <4>2
    <3>3. Unsaid
      <4>1. ~Heard(JoinedKinds \cup {"Message"})
        BY <2>3, NotYetBye DEF JoinedKinds
      <4> QED
        BY <1>1, <4>1 DEF Opening, Unsaid
    <3> QED
      BY <3>1, <3>2, <3>3, WindowOpens
  <2> QED
    BY <2>1, <2>2, <2>3
<1>2. CASE page = "SubscriptionPage"
  <2>1. r.kind \in JoinedKinds \cup {"Message"}
    BY <1>2, NotYetBye DEF Opening
  <2>2. r.kind # "Message"
    BY <1>2 DEF Opening, TakesWhole
  <2>3. page' = "Chatroom" /\ asking'
    <3>1. r.kind \in Accepts[page] /\ NextPage(r.kind) = "Chatroom"
      BY <1>2, <2>1, <2>2, PagesOfKinds
    <3> QED
      BY <3>1, ReactGoes DEF TakesWhole
  <2>4. Heard({"Message"})'
    <3>1. Heard((JoinedKinds \cup {"Message"}) \ JoinedKinds)'
      BY <1>2, <2>1, <2>2, Taken DEF Opening, TakesWhole
    <3>2. (JoinedKinds \cup {"Message"}) \ JoinedKinds = {"Message"}
      BY DEF JoinedKinds
    <3> QED
      BY <3>1, <3>2
  <2>5. Unsaid
    <3>1. ~Heard({"ReadSync"})
      BY <2>1, <2>2, NotYetBye DEF JoinedKinds
    <3> QED
      BY <1>2, <3>1 DEF Opening, Unsaid
  <2> QED
    BY <2>3, <2>4, <2>5, WindowOpens
<1> QED
  BY <1>1, <1>2 DEF Opening

\* The client leaves the chatroom: what is read is the answer to its Quit, or a
\* message, which ends the program.
LEMMA LeavingTaken ==
  ASSUME NEW r, TakesWhole(r), r.kind # "ExitLobby", Leaving
  PROVE  InStep'
<1>1. CASE r.kind = "Message"
  BY <1>1, EndsWithCause DEF Leaving
<1>2. CASE r.kind # "Message"
  <2>1. ~Heard({"Message"})
    BY <1>2, NotYetBye
  <2>2. /\ page = "Chatroom" /\ subscriptions = <<>>
        /\ chatroom = NoText /\ frames_out = <<>>
        /\ main_responses = <<>> /\ ~subscribed
        /\ Heard({"Message", "ExitChatroom"})
        /\ \A i, j \in DOMAIN responses_out :
             i < j /\ responses_out[i].kind = "ExitChatroom" => Bye(j)
    BY <2>1 DEF Leaving
  <2>3. r.kind = "ExitChatroom"
    BY <1>2, <2>2, NotYetBye
  <2>4. page' = "QuitChatroom" /\ asking'
    BY <2>2, <2>3, PagesOfKinds, ReactGoes DEF TakesWhole
  <2>5. Heard({})'
    <3>1. \A i \in DOMAIN responses_out' :
            i \in Nat /\ i >= 1 /\ i + 1 \in DOMAIN responses_out /\ (Bye(i + 1) => Bye(i)')
      BY Taken DEF TakesWhole
    <3>2. \A i \in DOMAIN responses_out' : Bye(i)'
      BY <2>2, <2>3, <3>1 DEF TakesWhole
    <3> QED
      BY <3>2 DEF Heard
  <2>6. UsersTurn'
    BY <2>2, <2>4, <2>5 DEF UsersTurn, Silent, Unsaid, Outside, TakesWhole
  <2> QED
    BY <2>6 DEF InStep, InTurn, Turns, TakesWhole
<1> QED
  BY <1>1, <1>2

\* The program takes the first response.
LEMMA ReadResponseKept ==
  ASSUME SessionTypes, InStep, ReadResponse
  PROVE  InStep'
<1> DEFINE q == responses_out
           r == Head(q)
<1>1. PICK o \in ResponseOutcomes(to_client) :
        \/ /\ o.outcome = "parsed"
           /\ to_client' = SubSeq(to_client, o.size + 1, Len(to_client))
           /\ responses_out' = IF responses_out = <<>> THEN <<>> ELSE Tail(responses_out)
           /\ Takes(responses_out, o.value)
           /\ React(o.value)
        \/ /\ o.outcome \in {"failed", "panicked"}
           /\ End(IF o.outcome = "failed" THEN "Failed" ELSE "Panicked", "unparsable")
           /\ UNCHANGED <<to_client, responses_out, ghosts>>
  BY DEF ReadResponse
<1>2. /\ Open /\ ~asking
      /\ UNCHANGED <<half, chatroom, picture, subscribed, write_pc, main_responses,
                     subscriptions, frames_out>>
  BY DEF ReadResponse, server_vars, read_vars, write_vars, channels
<1>3. /\ q \in Seq(SaidResponse) /\ half \o to_client = ResponseStream(q) /\ ~misread
      /\ main_responses \in Seq(SaidResponse) /\ subscriptions \in Seq(SaidResponse)
      /\ half = <<>> /\ half' = <<>> /\ LobbyTold /\ Turns
  BY <1>2 DEF InStep, Framed, Window
<1>4. to_client \in Bytes /\ to_client = ResponseStream(q)
  <2>1. to_client \in Bytes
    BY DEF SessionTypes, TypeOK
  <2>2. <<>> \o to_client = to_client
    BY <2>1 DEF Bytes
  <2> QED
    BY <1>3, <2>1, <2>2
<1>5. q \in Seq(ResponseValue)
  <2>1. SaidResponse \subseteq ResponseValue
    BY DEF SaidResponse
  <2> QED
    BY <1>3, <2>1, LargerSet
<1>6. o.outcome # "unfinished"
  BY <1>1
<1>7. /\ q # <<>>
      /\ o.outcome # "panicked"
      /\ o.outcome = "failed" => ~Readable(r)
      /\ o.outcome = "parsed" =>
           /\ o.value = r
           /\ SubSeq(to_client, o.size + 1, Len(to_client)) = ResponseStream(Tail(q))
  BY <1>4, <1>5, <1>6, ResponsesTaken
<1>8. r \in SaidResponse /\ Tail(q) \in Seq(SaidResponse) /\ r = q[1] /\ 1 \in DOMAIN q
  BY <1>3, <1>7, QueueShrinks
<1>9. write_pc # "idle"
  BY <1>2, <1>3, <1>7, WhoseTurn DEF Ungreeted
<1>10. CASE o.outcome = "failed"
  <2>1. End("Failed", "unparsable") /\ misread' = misread
    BY <1>1, <1>10 DEF ghosts
  <2>2. ~PlainTexts
    BY <1>7, <1>8, <1>10, SaidIsReadable
  <2> QED
    BY <1>2, <1>3, <2>1, <2>2, Ends DEF End
<1>11. CASE o.outcome = "parsed"
  <2>1. /\ responses_out' = Tail(q) /\ to_client' = ResponseStream(Tail(q))
        /\ React(r) /\ Takes(q, r)
    BY <1>1, <1>7, <1>11
  <2>2. ~misread'
    BY <1>3, <1>7, <2>1 DEF Takes
  <2>3. Framed'
    <3>1. half' \o to_client' = ResponseStream(responses_out)'
      <4>1. to_client' \in Bytes
        <5>1. SessionTypes'
          BY ReadTyped
        <5> QED
          BY <5>1 DEF SessionTypes, TypeOK
      <4>2. <<>> \o to_client' = to_client'
        BY <4>1 DEF Bytes
      <4> QED
        BY <1>3, <2>1, <4>2
    <3> QED
      BY <1>2, <1>3, <1>8, <2>1, <2>2, <3>1 DEF Framed
  <2>4. LobbyTold'
    BY <1>2, <1>3, <1>7, <2>1, TakenTold
  <2>5. r.kind \in LobbyKinds => r.data = LobbyBytes(picture)
    BY <1>3, <1>8 DEF LobbyTold, TellsLobby
  <2>6. TakesWhole(r)
    BY <1>2, <1>3, <1>7, <1>8, <1>9, <2>1, <2>2, <2>3, <2>4, <2>5 DEF TakesWhole
  <2> HIDE DEF r
  <2>7. CASE r.kind = "ExitLobby"
    BY <2>6, <2>7, ExitLobbyTaken
  <2>8. CASE r.kind # "ExitLobby"
    BY <2>6, <2>8, NotYetBye, AnswerTaken, OpeningBegins, OpeningCompletes, LeavingTaken
  <2> QED
    BY <2>7, <2>8
<1> QED
  BY <1>1, <1>7, <1>10, <1>11

-----------------------------------------------------------------------------
(* The theorems                                                            *)

\* A half-read response that was lost stays lost.
LEMMA TornStays ==
  ASSUME [Next]_vars, torn
  PROVE  torn'
<1>1. ASSUME NEW at, NEW f, Request(at, f) PROVE torn'
  BY <1>1 DEF Request, ghosts
<1>2. ASSUME UserNext PROVE torn'
  BY <1>1, <1>2 DEF UserNext, RequestName, RequestJoin, RequestQuit, TypeText, PressQuit, ghosts
<1>3. ASSUME WriteNext PROVE torn'
  BY <1>3 DEF WriteNext, WriteAnswer, WriteSubscription, Broadcast, Shutdown, WriteFails,
              WriteTaskOnly, ghosts
<1>4. ASSUME ServerNext PROVE torn'
  BY <1>3, <1>4 DEF ServerNext, Greet, TurnedAway, ReadNext, ServerReads, ReadEnds, Takes, ghosts
<1>5. ASSUME ReadResponse PROVE torn'
  BY <1>5 DEF ReadResponse, Takes, ghosts
<1>6. ASSUME ReadByte PROVE torn'
  BY <1>6 DEF ReadByte, Takes, ghosts
<1>7. ASSUME RefreshLobby PROVE torn'
  BY <1>1, <1>7 DEF RefreshLobby
<1>8. ASSUME SendText \/ CloseWindow PROVE torn'
  BY <1>8 DEF SendText, CloseWindow, DropHalf
<1>9. ASSUME ConnectionFails PROVE torn'
  BY <1>9 DEF ConnectionFails, ghosts
<1>10. ASSUME UNCHANGED vars PROVE torn'
  BY <1>10 DEF vars, ghosts
<1> QED
  BY <1>2, <1>4, <1>5, <1>6, <1>7, <1>8, <1>9, <1>10 DEF Next

\* The inductive invariant holds at the start.
LEMMA SessionInit ==
  ASSUME Init
  PROVE  SessionIInv
<1>1. SessionTypes
  BY TypesInit
<1>2. Framed
  <2>1. half \o to_client = ResponseStream(responses_out)
    <3>1. ResponseStream(<<>>) = <<>> /\ <<>> \o <<>> = <<>>
      BY NothingTaken
    <3> QED
      BY <3>1 DEF Init
  <2> QED
    BY <2>1 DEF Framed, Init
<1>3. Turns
  BY DEF Turns, Ungreeted, Silent, Heard, Unsaid, Outside, Init
<1>4. LobbyTold
  BY DEF LobbyTold, TellsLobby, Init
<1> QED
  BY <1>1, <1>2, <1>3, <1>4 DEF SessionIInv, InStep

\* Every step keeps it.
LEMMA SessionKept ==
  ASSUME SessionIInv, [Next]_vars
  PROVE  SessionIInv'
<1>1. SessionTypes /\ SessionTypes'
  BY TypesKept DEF SessionIInv
<1>2. SUFFICES ASSUME ~torn' PROVE InStep'
  BY <1>1 DEF SessionIInv
<1>3. InStep
  BY <1>2, TornStays DEF SessionIInv
<1>4. ASSUME UserNext \/ RefreshLobby \/ SendText \/ CloseWindow PROVE InStep'
  BY <1>1, <1>2, <1>3, <1>4, UserKept, WindowKept DEF UserNext
<1>5. ASSUME ServerNext PROVE InStep'
  BY <1>1, <1>3, <1>5, ServerKept
<1>6. ASSUME ReadResponse \/ ReadByte \/ ConnectionFails PROVE InStep'
  BY <1>1, <1>3, <1>6, ReadResponseKept, ReadByteKept, ConnectionKept
<1>7. ASSUME UNCHANGED vars PROVE InStep'
  BY <1>3, <1>7, Unaffected DEF vars, server_vars, read_vars, ghosts
<1> QED
  BY <1>4, <1>5, <1>6, <1>7 DEF Next

\* The inductive invariant of the session: whose turn it is, and what the
\* server's two tasks have said and have still to say.
THEOREM InvariantHolds ==
  Spec => []SessionIInv
<1>1. Init => SessionIInv
  BY SessionInit
<1>2. SessionIInv /\ [Next]_vars => SessionIInv'
  BY SessionKept
<1> QED
  BY <1>1, <1>2, PTL DEF Spec

\* As long as no half-read response was lost, client and server agree on where
\* each response ends and on what it says: for names of every length that the
\* prompts let through.
THEOREM EveryResponseArrives ==
  Spec => []ResponsesArrive
<1>1. SessionIInv => ResponsesArrive
  BY DEF SessionIInv, InStep, Framed, ResponsesArrive, ResponsesFramed, ResponseStream
<1> QED
  BY <1>1, InvariantHolds, PTL

\* The server takes the frames that the client sent, one by one.
THEOREM EveryFrameArrives ==
  Spec => []FramesArrive
<1>1. SessionIInv => FramesArrive
  BY DEF SessionIInv, SessionTypes, InStep, Framed, FramesArrive, FrameStream
<1> QED
  BY <1>1, InvariantHolds, PTL

\* Nothing follows a Quit frame until the server has answered it, as long as
\* no half-read response was lost.
THEOREM NothingFollowsQuit ==
  Spec => []QuitIsLast
<1>1. SessionIInv => QuitIsLast
  <2>1. SUFFICES ASSUME SessionIInv, ~torn, NEW i \in DOMAIN frames_out,
                        frames_out[i].kind = "Quit"
                 PROVE  i = Len(frames_out) /\ ~asking
    BY DEF QuitIsLast
  <2>2. SessionTypes /\ Turns
    BY <2>1 DEF SessionIInv, InStep
  <2>3. i = Len(frames_out)
    BY <2>1, <2>2, QuitEnds
  <2>4. ~UsersTurn /\ ~Chatting
    BY <2>1 DEF UsersTurn, Chatting, Messages
  <2> QED
    BY <2>2, <2>3, <2>4 DEF Turns, InTurn, Ungreeted, Asked, Answered, Opening, Leaving, Over
<1> QED
  BY <1>1, InvariantHolds, PTL

\* The lobby page lists the chatrooms that the server listed.
THEOREM LobbyIsShown ==
  Spec => []LobbyShown
<1>1. SessionIInv => LobbyShown
  <2>1. SUFFICES ASSUME SessionIInv, page = "LobbyPage", asking, ~torn
                 PROVE  lobby = {picture[i] : i \in DOMAIN picture}
    BY DEF LobbyShown
  <2> QED
    BY <2>1, WhoseTurn DEF SessionIInv, InStep, UsersTurn
<1> QED
  BY <1>1, InvariantHolds, PTL

\* The program ends with an error only after it lost a half-read response, or
\* for a reason that is known: if the texts that come in are ASCII.
THEOREM EveryEndIsExplained ==
  ASSUME PlainTexts
  PROVE  Spec => []EndsExplained
<1>1. SessionIInv => EndsExplained
  <2>1. SUFFICES ASSUME SessionIInv, page \in {"Failed", "Panicked"}, ~torn
                 PROVE  ended_by \in ExplainedEnds
    BY DEF EndsExplained
  <2>2. ~Open /\ page # "QuitLobbyPage"
    BY <2>1 DEF Open, Ended
  <2> QED
    BY <2>1, <2>2, WhoseTurn DEF SessionIInv, InStep, Over
<1> QED
  BY <1>1, InvariantHolds, PTL

=============================================================================

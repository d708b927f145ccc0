------------------------ MODULE MessageSlicerProofs -------------------------
(***************************************************************************)
(* Proofs about MessageSlicer, for every size of header and buffer, every  *)
(* set of payloads and any number of frames.                               *)
(*                                                                         *)
(* The bytes of the peer are a sequence of sequences put together, and so  *)
(* is what the slicer passes on in Stream mode: the proofs begin with laws *)
(* of FlattenSeq, by the least-number principle.  The rest is about the    *)
(* cursor, the byte that the slicer takes next: in Datagram mode it stands *)
(* in the frame of the message in progress, right behind the bytes of it   *)
(* that were read (SliceInv), and all frames before it that carry a        *)
(* payload have become messages (DeliverInv).                              *)
(***************************************************************************)
EXTENDS MessageSlicer, SequenceTheorems, WellFoundedInduction, TLAPS

----------------------------------------------------------------------------
(* The inductive invariants.                                                *)

\* Concatenation, under a name the provers do not look behind.
Cat(a, b) == a \o b

\* The byte behind byte b, and the one behind the first p bytes of the peer.
Successor(b) == IF b[2] < sent[b[1]] THEN << b[1], b[2] + 1 >> ELSE << b[1] + 1, 1 >>
Cursor(p) == IF p = 0 THEN << 1, 1 >> ELSE Successor(ByteSeq[p])

\* The bytes of the peer: each belongs to a frame and is the one behind its
\* predecessor, and the last frame is complete.
BytesInv ==
    /\ \A p \in 1 .. Len(ByteSeq) :
          /\ ByteSeq[p] = Cursor(p - 1)
          /\ ByteSeq[p][1] \in 1 .. Len(sent)
          /\ ByteSeq[p][2] \in 1 .. sent[ByteSeq[p][1]]
    /\ Cursor(Len(ByteSeq)) = << Len(sent) + 1, 1 >>

\* The i-th byte that was received.
Got(i) == IF i <= taken THEN ByteSeq[i] ELSE Junk

\* What recv() has returned and is not in the buffer yet: the next bytes of the
\* peer, or bytes of another file, which come after all of the peer's.
PendingInv ==
    rpc = "fill" =>
        /\ Len(m_data) >= 1 /\ Len(m_data) <= MAX_SIZE
        /\ \/ /\ foreign = 0
              /\ taken + Len(m_data) <= Len(ByteSeq)
              /\ \A p \in 1 .. Len(m_data) : m_data[p] = ByteSeq[taken + p]
           \/ /\ cpc # "none"
              /\ \A p \in 1 .. Len(m_data) : m_data[p] = Junk

\* The buffer holds the last bytes that were received; recv() is called when it
\* is empty, and reads another file only when a sender has closed this one.
BufferInv ==
    /\ m_position <= m_size
    /\ m_size > 0 =>
          /\ m_position >= 0
          /\ Len(m_data) = m_size
          /\ m_size <= taken + foreign
          /\ \A p \in 1 .. m_size : m_data[p] = Got(taken + foreign - m_size + p)
    /\ rpc \in {"load", "recv", "fill"} => m_size = 0
    /\ PendingInv
    /\ foreign > 0 => cpc # "none"
    /\ cpc # "none" => mode \in SenderCloses
    /\ cpc \in {"reset", "done"} => m_fd = "none"

\* The message in progress is not complete; there is none in Stream mode.
LengthInv ==
    /\ mode = "Stream" =>
          /\ m_current_message = NoMessage
          /\ rpc # "body"
          /\ m_size > 0 => m_position = 0
    /\ Len(m_current_message.bytes) >= HEADER_SIZE =>
          /\ HEADER_SIZE < m_current_message.length
          /\ Len(m_current_message.bytes) < m_current_message.length

\* A handler that ends has passed everything on, unless recv() failed, which
\* it does only on a connection that is broken or closed by a sender.
EndInv ==
    /\ rpc \in {"end", "disconnected"} /\ peer # "error" /\ cpc = "none"
          => m_messages = << >>
    /\ rpc \in {"load", "recv"} /\ cpc = "none" => m_fd = "valid"

\* What was passed on, or is about to be, in Stream mode: the first bytes that
\* were received.  With the buffer they are all of them until a sender resets
\* the buffer, and afterwards whenever the reader still adds to it.
Sliced == Cat(FlattenSeq(delivered), FlattenSeq(m_messages))

StreamInv ==
    mode = "Stream" =>
        /\ Len(Sliced) <= taken + foreign
        /\ \A i \in 1 .. Len(Sliced) : Sliced[i] = Got(i)
        /\ cpc # "done" \/ m_size > 0 \/ rpc \in {"recv", "fill"}
              => Len(Sliced) + m_size = taken + foreign

\* The number of bytes the slicer has processed.
Processed == IF m_size = 0 THEN taken ELSE taken - m_size + m_position

\* The message in progress is what was read of frame f, and the cursor stands
\* behind it.
InFrame(f) ==
    LET msg == m_current_message
    IN /\ Cursor(Processed) = << f, Len(msg.bytes) + 1 >>
       /\ \A i \in 1 .. Len(msg.bytes) : msg.bytes[i] = << f, i >>
       /\ Len(msg.bytes) >= HEADER_SIZE => msg.length = sent[f]

SliceInv ==
    mode = "Datagram" =>
        /\ rpc \in {"header", "body"} => m_size > 0
        /\ \E f \in 1 .. Len(sent) + 1 : InFrame(f)

\* The messages, and the frame of the i-th one: the one behind the last is the
\* frame that is being read.
Messages == Cat(delivered, m_messages)
Frame(i) ==
    IF i = 0 THEN 0
    ELSE IF i <= Len(Messages) THEN Messages[i][1][1] ELSE Cursor(Processed)[1]

PayloadOf(f) == SubSeq(FrameBytes(f), HEADER_SIZE + 1, sent[f])

\* Every message is the payload of its frame, and no frame with a payload is
\* left out.
DeliverInv ==
    mode = "Datagram" =>
        /\ \A i \in 1 .. Len(Messages) :
              /\ Messages[i] # << >>
              /\ Frame(i) \in 1 .. Len(sent)
              /\ Messages[i] = PayloadOf(Frame(i))
        /\ \A i \in 0 .. Len(Messages) :
              /\ Frame(i) < Frame(i + 1)
              /\ \A g \in Frame(i) + 1 .. Frame(i + 1) - 1 : sent[g] <= HEADER_SIZE

----------------------------------------------------------------------------
(* Sequences.                                                               *)

\* A set of numbers has a least one.
LEMMA LeastNumber ==
    ASSUME NEW T \in SUBSET Nat, T # {}
    PROVE  \E m \in T : \A k \in T : m <= k
<1> DEFINE R == {ss \in Nat \X Nat : ss[1] < ss[2]}
<1>1. IsWellFoundedOn(R, Nat)
  BY NatLessThanWellFounded, Zenon DEF OpToRel
<1>2. PICK m \in T : \A k \in T : ~ (<< k, m >> \in R)
  <2> HIDE DEF R
  <2> QED
    BY <1>1, WFMin
<1>3. \A k \in T : ~ (k < m)
  BY <1>2
<1> QED
  BY <1>3

\* g[i] is the concatenation of the first i sequences of ss.
Accumulates(g, ss, n) ==
    \A i \in 1 .. n : g[i] = IF i = 1 THEN ss[i] ELSE g[i - 1] \o ss[i]

\* There are such prefixes: a least n without would have some for n - 1, to
\* which one can be added.
LEMMA AccumulatesExist ==
    ASSUME NEW S, NEW ss \in Seq(Seq(S)), NEW n \in 1 .. Len(ss)
    PROVE  \E g \in [1 .. n -> Seq(S)] : Accumulates(g, ss, n)
<1> DEFINE T == {k \in 1 .. Len(ss) : ~ \E g \in [1 .. k -> Seq(S)] : Accumulates(g, ss, k)}
<1>1. ASSUME T # {} PROVE FALSE
  <2>1. PICK m \in T : \A k \in T : m <= k
    <3>1. T \in SUBSET Nat
      OBVIOUS
    <3> HIDE DEF T
    <3> QED
      BY <1>1, <3>1, LeastNumber
  <2>2. m \in 1 .. Len(ss) /\ Len(ss) \in Nat /\ ss[m] \in Seq(S)
    OBVIOUS
  <2>3. CASE m = 1
    <3> DEFINE g == [i \in 1 .. 1 |-> ss[1]]
    <3>1. g \in [1 .. 1 -> Seq(S)] /\ Accumulates(g, ss, 1)
      BY <2>2, <2>3 DEF Accumulates
    <3> QED
      BY <2>1, <2>3, <3>1
  <2>4. CASE m # 1
    <3>1. m - 1 \in 1 .. Len(ss) /\ m - 1 \notin T
      <4>1. m - 1 \in 1 .. Len(ss) /\ ~ (m <= m - 1)
        BY <2>2, <2>4
      <4> HIDE DEF T
      <4> QED
        BY <2>1, <4>1
    <3>2. PICK g \in [1 .. m - 1 -> Seq(S)] : Accumulates(g, ss, m - 1)
      BY <3>1
    <3> DEFINE h == [i \in 1 .. m |-> IF i = m THEN g[m - 1] \o ss[m] ELSE g[i]]
    <3>3. g[m - 1] \o ss[m] \in Seq(S)
      BY <2>2, <3>1, <3>2, ConcatProperties
    <3>4. h \in [1 .. m -> Seq(S)]
      BY <2>2, <3>2, <3>3
    <3>5. Accumulates(h, ss, m)
      <4> SUFFICES ASSUME NEW i \in 1 .. m
                   PROVE  h[i] = IF i = 1 THEN ss[i] ELSE h[i - 1] \o ss[i]
        BY DEF Accumulates
      <4> HIDE DEF T
      <4>1. CASE i = m
        <5>1. m \in 1 .. m /\ m - 1 \in 1 .. m /\ m - 1 # m
          BY <2>2, <2>4
        <5>2. h[m] = g[m - 1] \o ss[m] /\ h[m - 1] = g[m - 1]
          BY <5>1
        <5> QED
          BY <2>4, <4>1, <5>2
      <4>2. CASE i # m
        <5>1. i \in 1 .. m - 1 /\ (i = 1 \/ (i - 1 \in 1 .. m /\ i - 1 # m))
          BY <2>2, <4>2
        <5>2. h[i] = g[i] /\ (i = 1 \/ h[i - 1] = g[i - 1])
          BY <4>2, <5>1
        <5>3. g[i] = IF i = 1 THEN ss[i] ELSE g[i - 1] \o ss[i]
          BY <3>2, <5>1 DEF Accumulates
        <5> QED
          BY <5>2, <5>3
      <4> QED
        BY <4>1, <4>2
    <3> HIDE DEF h
    <3> QED
      BY <2>1, <3>4, <3>5
  <2> QED
    BY <2>3, <2>4
<1> QED
  BY <1>1

\* Two lists of prefixes do not differ: they would differ first somewhere.
LEMMA AccumulatesUnique ==
    ASSUME NEW ss, NEW n \in Nat, NEW g, NEW h,
           Accumulates(g, ss, n), Accumulates(h, ss, n)
    PROVE  \A i \in 1 .. n : g[i] = h[i]
<1> DEFINE T == {k \in 1 .. n : g[k] # h[k]}
<1>1. ASSUME T # {} PROVE FALSE
  <2>1. PICK m \in T : \A k \in T : m <= k
    <3>1. T \in SUBSET Nat
      OBVIOUS
    <3> HIDE DEF T
    <3> QED
      BY <1>1, <3>1, LeastNumber
  <2>2. m \in 1 .. n /\ (m = 1 \/ (m - 1 \in 1 .. n /\ m - 1 \notin T))
    <3>1. m \in 1 .. n /\ ~ (m <= m - 1) /\ (m = 1 \/ m - 1 \in 1 .. n)
      OBVIOUS
    <3> HIDE DEF T
    <3> QED
      BY <2>1, <3>1
  <2>3. m = 1 \/ g[m - 1] = h[m - 1]
    BY <2>2
  <2>4. g[m] = h[m]
    BY <2>2, <2>3 DEF Accumulates
  <2> QED
    BY <2>1, <2>4
<1> QED
  BY <1>1

\* FlattenSeq computes the last prefix.
LEMMA FlattenAccumulates ==
    ASSUME NEW S, NEW ss \in Seq(Seq(S)), ss # << >>,
           NEW g \in [1 .. Len(ss) -> Seq(S)], Accumulates(g, ss, Len(ss))
    PROVE  FlattenSeq(ss) = g[Len(ss)]
<1> DEFINE F(f) == f = [i \in 1 .. Len(ss) |-> IF i = 1 THEN ss[i] ELSE f[i - 1] \o ss[i]]
           c == CHOOSE f : F(f)
<1>1. F(g)
  BY DEF Accumulates
<1>2. F(c)
  <2> HIDE DEF F
  <2> QED
    BY <1>1
<1>3. Len(ss) \in Nat /\ Len(ss) # 0
  BY EmptySeq, LenProperties
<1>4. FlattenSeq(ss) = c[Len(ss)]
  BY <1>3, Zenon DEF FlattenSeq
<1>5. \A i \in 1 .. Len(ss) : c[i] = IF i = 1 THEN ss[i] ELSE c[i - 1] \o ss[i]
  <2> HIDE DEF c
  <2> QED
    BY <1>2
<1>6. Accumulates(c, ss, Len(ss))
  <2> HIDE DEF c
  <2> QED
    BY <1>5 DEF Accumulates
<1>7. \A i \in 1 .. Len(ss) : c[i] = g[i]
  <2> HIDE DEF c, F
  <2> QED
    BY <1>3, <1>6, AccumulatesUnique
<1> HIDE DEF c, F
<1> QED
  BY <1>3, <1>4, <1>7
\* Sequences of elements of S are put together to a sequence of these.
LEMMA FlattenType ==
    ASSUME NEW S, NEW ss \in Seq(Seq(S))
    PROVE  FlattenSeq(ss) \in Seq(S)
<1>1. CASE ss = << >>
  BY <1>1 DEF FlattenSeq
<1>2. CASE ss # << >>
  <2>1. Len(ss) \in 1 .. Len(ss)
    BY <1>2
  <2>2. PICK g \in [1 .. Len(ss) -> Seq(S)] : Accumulates(g, ss, Len(ss))
    BY <2>1, AccumulatesExist
  <2>3. FlattenSeq(ss) = g[Len(ss)]
    BY <1>2, <2>2, FlattenAccumulates
  <2> QED
    BY <2>1, <2>2, <2>3
<1> QED
  BY <1>1, <1>2

\* A sequence more at the end is a concatenation more.
LEMMA FlattenAppend ==
    ASSUME NEW S, NEW ss \in Seq(Seq(S)), NEW x \in Seq(S)
    PROVE  FlattenSeq(Append(ss, x)) = FlattenSeq(ss) \o x
<1> DEFINE tt == Append(ss, x)
           n == Len(ss)
<1>1. /\ tt \in Seq(Seq(S)) /\ tt # << >> /\ Len(tt) = n + 1 /\ n \in Nat
      /\ tt[n + 1] = x /\ \A i \in 1 .. n : tt[i] = ss[i]
  BY AppendProperties, LenProperties
<1> HIDE DEF tt
<1>2. PICK g \in [1 .. n + 1 -> Seq(S)] : Accumulates(g, tt, n + 1)
  <2>1. n + 1 \in 1 .. Len(tt)
    BY <1>1
  <2> QED
    BY <1>1, <2>1, AccumulatesExist
<1>3. FlattenSeq(tt) = g[n + 1]
  <2> HIDE DEF n
  <2> QED
    BY <1>1, <1>2, FlattenAccumulates
<1>4. CASE ss = << >>
  <2>1. n = 0 /\ FlattenSeq(ss) = << >>
    BY <1>4 DEF FlattenSeq
  <2>2. g[1] = x
    BY <1>1, <1>2, <2>1 DEF Accumulates
  <2> QED
    BY <1>3, <2>1, <2>2 DEF tt
<1>5. CASE ss # << >>
  <2>1. n >= 1
    BY <1>5
  <2> DEFINE h == [i \in 1 .. n |-> g[i]]
  <2>2. h \in [1 .. n -> Seq(S)]
    BY <1>1, <1>2
  <2>3. Accumulates(h, ss, n)
    <3> HIDE DEF n
    <3> SUFFICES ASSUME NEW i \in 1 .. n
                 PROVE  h[i] = IF i = 1 THEN ss[i] ELSE h[i - 1] \o ss[i]
      BY DEF Accumulates
    <3>1. i \in 1 .. n + 1 /\ (i = 1 \/ i - 1 \in 1 .. n)
      BY <1>1
    <3>2. g[i] = IF i = 1 THEN tt[i] ELSE g[i - 1] \o tt[i]
      BY <1>2, <3>1 DEF Accumulates
    <3>3. h[i] = g[i] /\ (i = 1 \/ h[i - 1] = g[i - 1]) /\ tt[i] = ss[i]
      BY <1>1, <3>1
    <3> QED
      BY <3>2, <3>3
  <2>4. h[n] = g[n]
    BY <1>1, <2>1
  <2>5. FlattenSeq(ss) = h[n]
    <3> HIDE DEF h
    <3> QED
      BY <1>5, <2>2, <2>3, FlattenAccumulates
  <2>6. g[n + 1] = g[n] \o x
    <3> HIDE DEF n
    <3>1. n + 1 \in 1 .. n + 1 /\ n + 1 # 1 /\ (n + 1) - 1 = n
      BY <1>1, <2>1
    <3>2. g[n + 1] = IF n + 1 = 1 THEN tt[n + 1] ELSE g[(n + 1) - 1] \o tt[n + 1]
      BY <1>2, <3>1 DEF Accumulates
    <3> QED
      BY <1>1, <3>1, <3>2
  <2> QED
    BY <1>3, <2>4, <2>5, <2>6 DEF tt
<1> QED
  BY <1>4, <1>5

\* Head and Tail of a sequence that got one more element.
LEMMA HeadTailAppended ==
    ASSUME NEW S, NEW u \in Seq(S), NEW x \in S
    PROVE  /\ u = << >> => Head(Append(u, x)) = x /\ Tail(Append(u, x)) = << >>
           /\ u # << >> => /\ Head(Append(u, x)) = Head(u) /\ Head(u) \in S
                          /\ Tail(Append(u, x)) = Append(Tail(u), x) /\ Tail(u) \in Seq(S)
<1>1. u # << >> => Head(u) \in S /\ Tail(u) \in Seq(S)
  BY HeadTailProperties
<1> QED
  BY <1>1, HeadTailAppend

\* Concatenation is associative.
LEMMA CatAssociative ==
    ASSUME NEW S, NEW a \in Seq(S), NEW b \in Seq(S), NEW c \in Seq(S)
    PROVE  Cat(Cat(a, b), c) = Cat(a, Cat(b, c))
  BY ConcatAssociative DEF Cat

\* The first sequence can be taken out: of the shortest counterexample the last
\* sequence can be taken off.
LEMMA FlattenTail ==
    ASSUME NEW S, NEW ss \in Seq(Seq(S)), ss # << >>
    PROVE  FlattenSeq(ss) = Head(ss) \o FlattenSeq(Tail(ss))
<1> DEFINE Bad(t) == FlattenSeq(t) # Head(t) \o FlattenSeq(Tail(t))
           T == {k \in Nat : \E t \in Seq(Seq(S)) : t # << >> /\ Len(t) = k /\ Bad(t)}
<1>1. ASSUME T # {} PROVE FALSE
  <2>1. PICK m \in T : \A k \in T : m <= k
    <3>1. T \in SUBSET Nat
      OBVIOUS
    <3> HIDE DEF T
    <3> QED
      BY <1>1, <3>1, LeastNumber
  <2>2. PICK t \in Seq(Seq(S)) : t # << >> /\ Len(t) = m /\ Bad(t)
    BY <2>1
  <2>3. PICK u \in Seq(Seq(S)), x \in Seq(S) : t = Append(u, x)
    <3> HIDE DEF Bad
    <3> QED
      BY <2>2, SequenceEmptyOrAppend
  <2>4. Len(u) \in Nat /\ Len(u) < m /\ Len(u) \notin T
    <3>1. Len(u) \in Nat /\ m = Len(u) + 1
      <4> HIDE DEF T
      <4> QED
        BY <2>2, <2>3, AppendProperties, LenProperties
    <3> HIDE DEF T
    <3> QED
      BY <2>1, <3>1
  <2>5. u = << >> \/ ~ Bad(u)
    <3> HIDE DEF Bad
    <3> QED
      BY <2>4
  <2> HIDE DEF T
  <2>6. FlattenSeq(t) = FlattenSeq(u) \o x
    BY <2>3, FlattenAppend
  <2>7. FlattenSeq(<< >>) = << >> /\ << >> \o x = x /\ x \o << >> = x
    BY ConcatEmptySeq DEF FlattenSeq
  <2>8. CASE u = << >>
    <3>1. Head(t) = x /\ Tail(t) = << >>
      BY <2>3, <2>8, HeadTailAppended
    <3> QED
      BY <2>2, <2>6, <2>7, <2>8, <3>1
  <2>9. CASE u # << >>
    <3>1. /\ Head(t) = Head(u) /\ Head(u) \in Seq(S)
          /\ Tail(t) = Append(Tail(u), x) /\ Tail(u) \in Seq(Seq(S))
      <4> HIDE DEF Bad
      <4> QED
        BY <2>3, <2>9, HeadTailAppended, SMTT(30)
    <3> DEFINE v == FlattenSeq(Tail(u))
    <3>2. FlattenSeq(Tail(t)) = v \o x /\ v \in Seq(S)
      BY <3>1, FlattenAppend, FlattenType
    <3> HIDE DEF v
    <3>3. (Head(u) \o v) \o x = Head(u) \o (v \o x)
      <4>1. Cat(Cat(Head(u), v), x) = Cat(Head(u), Cat(v, x))
        BY <3>1, <3>2, CatAssociative
      <4> QED
        BY <4>1 DEF Cat
    <3> QED
      BY <2>2, <2>5, <2>6, <2>9, <3>1, <3>2, <3>3 DEF v
  <2> QED
    BY <2>8, <2>9
<1>2. T = {} => ~ Bad(ss)
  <2> HIDE DEF Bad
  <2> QED
    BY LenProperties
<1> QED
  BY <1>1, <1>2
\* Where the elements of a concatenation come from.
LEMMA GrowsBy ==
    ASSUME NEW S, NEW a \in Seq(S), NEW b \in Seq(S), NEW c, c = Cat(a, b)
    PROVE  /\ Len(a) \in Nat /\ Len(b) \in Nat /\ Len(c) \in Nat /\ Len(a) <= Len(c)
           /\ Len(c) = Len(a) + Len(b)
           /\ \A i \in 1 .. Len(a) : c[i] = a[i]
           /\ \A i \in 1 .. Len(b) : c[Len(a) + i] = b[i]
  BY DEF Cat

LEMMA CatType ==
    ASSUME NEW S, NEW a \in Seq(S), NEW b \in Seq(S)
    PROVE  Cat(a, b) \in Seq(S)
  BY DEF Cat

\* A concatenation with one more element at the end, and with the first of the
\* second sequence moved to the first one.
LEMMA CatAppend ==
    ASSUME NEW S, NEW a \in Seq(S), NEW b \in Seq(S), NEW x \in S
    PROVE  Cat(a, Append(b, x)) = Append(Cat(a, b), x)
  BY DEF Cat

LEMMA CatMove ==
    ASSUME NEW S, NEW a \in Seq(S), NEW b \in Seq(S), b # << >>
    PROVE  Cat(Append(a, Head(b)), Tail(b)) = Cat(a, b)
  BY DEF Cat

----------------------------------------------------------------------------
(* The bytes of the peer.                                                   *)

Byte == Nat \X Nat

\* The sizes are numbers, and every frame has a header.
LEMMA SentSizes ==
    ASSUME TypeOK
    PROVE  /\ HEADER_SIZE \in Nat /\ HEADER_SIZE >= 1 /\ MAX_SIZE \in Nat /\ MAX_SIZE >= 1
           /\ Len(sent) \in Nat
           /\ \A f \in 1 .. Len(sent) : sent[f] \in Nat /\ sent[f] >= HEADER_SIZE
<1>1. \A p \in Payloads : FrameLength(p) \in Nat /\ FrameLength(p) >= HEADER_SIZE
  BY SizesAssumption DEF FrameLength
<1>2. sent \in Seq({FrameLength(p) : p \in Payloads})
  BY DEF TypeOK
<1>3. \A f \in 1 .. Len(sent) : sent[f] \in {FrameLength(p) : p \in Payloads}
  BY <1>2
<1> QED
  BY <1>1, <1>2, <1>3, SizesAssumption

\* The frames are sequences of bytes.
LEMMA FramesType ==
    ASSUME TypeOK
    PROVE  [f \in 1 .. Len(sent) |-> FrameBytes(f)] \in Seq(Seq(Byte))
<1>1. \A f \in 1 .. Len(sent) : FrameBytes(f) \in Seq(Byte)
  <2> SUFFICES ASSUME NEW f \in 1 .. Len(sent) PROVE FrameBytes(f) \in Seq(Byte)
    OBVIOUS
  <2>1. f \in Nat /\ sent[f] \in Nat
    BY SentSizes
  <2>2. \A i \in 1 .. sent[f] : << f, i >> \in Byte
    BY <2>1 DEF Byte
  <2> QED
    BY <2>1, <2>2 DEF FrameBytes
<1> QED
  BY <1>1, SentSizes

\* What the peer has sent is a sequence of bytes.
LEMMA ByteSeqType ==
    ASSUME TypeOK
    PROVE  ByteSeq \in Seq(Byte)
  BY FramesType, FlattenType DEF ByteSeq

\* The frame of n bytes that the peer sends next.
NewFrame(n) == [i \in 1 .. n |-> << Len(sent) + 1, i >>]

\* A new frame is added to the bytes of the peer.
LEMMA ByteSeqGrows ==
    ASSUME TypeOK, NEW payload \in Payloads, PeerSends(payload)
    PROVE  /\ FrameLength(payload) \in Nat /\ FrameLength(payload) >= HEADER_SIZE
           /\ NewFrame(FrameLength(payload)) \in Seq(Byte)
           /\ ByteSeq' = Cat(ByteSeq, NewFrame(FrameLength(payload)))
<1> DEFINE len == FrameLength(payload)
           frames == [f \in 1 .. Len(sent) |-> FrameBytes(f)]
           new == NewFrame(len)
<1>1. len \in Nat /\ len >= HEADER_SIZE
  BY SizesAssumption DEF FrameLength
<1>2. sent' = Append(sent, len) /\ sent \in Seq({FrameLength(p) : p \in Payloads})
  BY DEF PeerSends, TypeOK
<1>3. /\ Len(sent') = Len(sent) + 1 /\ sent'[Len(sent) + 1] = len
      /\ \A f \in 1 .. Len(sent) : sent'[f] = sent[f]
  <2> HIDE DEF len
  <2> QED
    BY <1>1, <1>2
<1>4. new \in Seq(Byte)
  BY <1>1, SentSizes DEF NewFrame, Byte
<1> HIDE DEF len, new
<1>5. /\ \A f \in 1 .. Len(sent) : FrameBytes(f)' = FrameBytes(f)
      /\ \A f : f = Len(sent) + 1 => FrameBytes(f)' = new
  <2>1. \A f \in 1 .. Len(sent) : FrameBytes(f)' = FrameBytes(f)
    BY <1>3 DEF FrameBytes
  <2>2. ASSUME NEW f, f = Len(sent) + 1 PROVE FrameBytes(f)' = new
    BY <1>3, <2>2 DEF FrameBytes, new, NewFrame
  <2> QED
    BY <2>1, <2>2
<1>6. [f \in 1 .. Len(sent') |-> FrameBytes(f)'] = Append(frames, new)
  <2>1. frames \in Seq(Seq(Byte)) /\ Len(frames) = Len(sent)
    BY FramesType, SentSizes
  <2>2. \A f \in 1 .. Len(sent) : frames[f] = FrameBytes(f)
    OBVIOUS
  <2> HIDE DEF frames
  <2>3. /\ Append(frames, new) \in Seq(Seq(Byte)) /\ Len(Append(frames, new)) = Len(sent) + 1
        /\ \A f \in 1 .. Len(sent) : Append(frames, new)[f] = FrameBytes(f)
        /\ Append(frames, new)[Len(sent) + 1] = new
    BY <1>4, <2>1, <2>2, AppendProperties
  <2>4. Append(frames, new) = [f \in 1 .. Len(sent) + 1 |-> Append(frames, new)[f]]
    BY <2>3, LenProperties
  <2>5. \A f \in 1 .. Len(sent) + 1 : Append(frames, new)[f] = FrameBytes(f)'
    <3> SUFFICES ASSUME NEW f \in 1 .. Len(sent) + 1
                 PROVE  Append(frames, new)[f] = FrameBytes(f)'
      OBVIOUS
    <3>1. f \in 1 .. Len(sent) \/ f = Len(sent) + 1
      BY SentSizes
    <3> QED
      BY <1>5, <2>3, <3>1
  <2> QED
    BY <1>3, <2>4, <2>5
<1>7. ByteSeq' = FlattenSeq(Append(frames, new))
  BY <1>6 DEF ByteSeq
<1>8. FlattenSeq(Append(frames, new)) = FlattenSeq(frames) \o new
  BY <1>4, FramesType, FlattenAppend
<1> QED
  BY <1>1, <1>4, <1>7, <1>8 DEF ByteSeq, Cat, len, new

\* Only the peer adds to its bytes.
LEMMA ByteSeqSame == ASSUME UNCHANGED sent PROVE ByteSeq' = ByteSeq
  BY DEF ByteSeq, FrameBytes

\* The cursor stands on the next byte, or in the frame that comes next.
LEMMA CursorType ==
    ASSUME TypeOK, BytesInv, NEW p \in 0 .. Len(ByteSeq)
    PROVE  \E f \in 1 .. Len(sent) + 1, k \in Nat :
              /\ Cursor(p) = << f, k + 1 >>
              /\ p < Len(ByteSeq) => f \in 1 .. Len(sent) /\ k < sent[f] /\ ByteSeq[p + 1] = << f, k + 1 >>
              /\ p = Len(ByteSeq) => f = Len(sent) + 1 /\ k = 0
<1>0. Len(ByteSeq) \in Nat /\ ByteSeq \in Seq(Byte)
  BY ByteSeqType
<1>1. CASE p < Len(ByteSeq)
  <2>1. p + 1 \in 1 .. Len(ByteSeq) /\ (p + 1) - 1 = p
    BY <1>0, <1>1
  <2>2. PICK f \in Nat, i \in Nat : ByteSeq[p + 1] = << f, i >>
    <3>1. ByteSeq[p + 1] \in Byte
      BY <1>0, <2>1
    <3> QED
      BY <3>1 DEF Byte
  <2>3. /\ ByteSeq[p + 1] = Cursor((p + 1) - 1)
        /\ f \in 1 .. Len(sent) /\ i \in 1 .. sent[f]
    <3>1. \A q \in 1 .. Len(ByteSeq) : /\ ByteSeq[q] = Cursor(q - 1)
                                       /\ ByteSeq[q][1] \in 1 .. Len(sent)
                                       /\ ByteSeq[q][2] \in 1 .. sent[ByteSeq[q][1]]
      BY Zenon DEF BytesInv
    <3>2. /\ ByteSeq[p + 1] = Cursor((p + 1) - 1)
          /\ ByteSeq[p + 1][1] \in 1 .. Len(sent)
          /\ ByteSeq[p + 1][2] \in 1 .. sent[ByteSeq[p + 1][1]]
      BY <2>1, <3>1, Zenon
    <3>3. ByteSeq[p + 1][1] = f /\ ByteSeq[p + 1][2] = i
      BY <2>2
    <3> QED
      BY <3>2, <3>3, Zenon
  <2> DEFINE k == i - 1
  <2>4. k \in Nat /\ i = k + 1 /\ k < sent[f] /\ f \in 1 .. Len(sent) + 1
    BY <2>3, SentSizes
  <2>5. Cursor(p) = << f, i >>
    BY <2>1, <2>2, <2>3
  <2>6. p # Len(ByteSeq)
    BY <1>0, <1>1
  <2> HIDE DEF k
  <2> QED
    BY <2>2, <2>3, <2>4, <2>5, <2>6
<1>2. CASE p = Len(ByteSeq)
  <2>1. Cursor(p) = << Len(sent) + 1, 0 + 1 >> /\ Len(sent) + 1 \in 1 .. Len(sent) + 1
    BY <1>2, SentSizes DEF BytesInv
  <2> QED
    BY <1>2, <2>1
<1> QED
  BY <1>0, <1>1, <1>2

\* The n bytes from p on are those of frame f from k on.
InOneFrame(p, n, f, k) == \A i \in 1 .. n : ByteSeq[p + i] = << f, k + i >>

\* The next n bytes, if they are in one frame.
LEMMA NextBytes ==
    ASSUME TypeOK, BytesInv, NEW p \in Nat, NEW n \in Nat, p + n <= Len(ByteSeq),
           NEW f \in Nat, NEW k \in Nat, Cursor(p) = << f, k + 1 >>,
           n > 0 => k + n <= sent[f]
    PROVE  /\ InOneFrame(p, n, f, k)
           /\ n > 0 => f \in 1 .. Len(sent)
           /\ Cursor(p + n) = IF n = 0 \/ k + n < sent[f] THEN << f, k + n + 1 >>
                                                         ELSE << f + 1, 1 >>
<1>0. Len(ByteSeq) \in Nat
  BY ByteSeqType
<1>1. n > 0 => f \in 1 .. Len(sent) /\ sent[f] \in Nat
  <2> SUFFICES ASSUME n > 0 PROVE f \in 1 .. Len(sent) /\ sent[f] \in Nat
    OBVIOUS
  <2>1. p + 1 \in 1 .. Len(ByteSeq) /\ (p + 1) - 1 = p
    BY <1>0
  <2>2. ByteSeq[p + 1] = << f, k + 1 >> /\ ByteSeq[p + 1][1] \in 1 .. Len(sent)
    BY <2>1 DEF BytesInv
  <2> QED
    BY <2>2, SentSizes
<1> DEFINE T == {i \in 1 .. n : ByteSeq[p + i] # << f, k + i >>}
<1>2. ASSUME T # {} PROVE FALSE
  <2>1. PICK i \in T : \A j \in T : i <= j
    <3>1. T \in SUBSET Nat
      OBVIOUS
    <3> HIDE DEF T
    <3> QED
      BY <1>2, <3>1, LeastNumber
  <2>2. i \in 1 .. n /\ ByteSeq[p + i] # << f, k + i >>
    BY <2>1
  <2>3. i = 1 \/ (i - 1 \in 1 .. n /\ i - 1 \notin T)
    <3>1. ~ (i <= i - 1) /\ (i = 1 \/ i - 1 \in 1 .. n)
      BY <2>2
    <3> HIDE DEF T
    <3> QED
      BY <2>1, <3>1
  <2>4. i = 1 \/ ByteSeq[p + (i - 1)] = << f, k + (i - 1) >>
    BY <2>3
  <2> HIDE DEF T
  <2>5. p + i \in 1 .. Len(ByteSeq) /\ (p + i) - 1 = p + (i - 1) /\ k + (i - 1) + 1 = k + i
    BY <1>0, <2>2
  <2>6. ByteSeq[p + i] = Cursor(p + (i - 1))
    BY <2>5 DEF BytesInv
  <2>7. CASE i = 1
    BY <2>2, <2>6, <2>7
  <2>8. CASE i # 1
    <3>1. p + (i - 1) # 0 /\ k + (i - 1) < sent[f]
      BY <1>1, <2>2, <2>8, SMTT(30)
    <3>2. Cursor(p + (i - 1)) = << f, k + (i - 1) + 1 >>
      BY <2>4, <2>8, <3>1 DEF Cursor, Successor
    <3> QED
      BY <2>2, <2>5, <2>6, <3>2
  <2> QED
    BY <2>7, <2>8
<1>3. InOneFrame(p, n, f, k)
  BY <1>2 DEF InOneFrame
<1> HIDE DEF T
<1>4. CASE n = 0
  <2>1. p + n = p /\ k + n = k
    BY <1>4
  <2> QED
    BY <1>1, <1>3, <1>4, <2>1
<1>5. CASE n > 0
  <2>1. ByteSeq[p + n] = << f, k + n >> /\ p + n # 0
    BY <1>3, <1>5 DEF InOneFrame
  <2>2. Cursor(p + n) = IF k + n < sent[f] THEN << f, k + n + 1 >> ELSE << f + 1, 1 >>
    BY <2>1 DEF Cursor, Successor
  <2>3. n # 0
    BY <1>5
  <2> QED
    BY <1>1, <1>3, <1>5, <2>2, <2>3
<1>6. n = 0 \/ n > 0
  OBVIOUS
<1> QED
  BY <1>4, <1>5, <1>6, Zenon

\* As long as the peer sends nothing, the cursor of a position stays.
LEMMA CursorSame == ASSUME UNCHANGED sent PROVE \A p : Cursor(p)' = Cursor(p)
  BY ByteSeqSame DEF Cursor, Successor

\* It stays as well when the peer sends, since frames are not changed.
LEMMA CursorGrows ==
    ASSUME TypeOK, BytesInv, NEW payload \in Payloads, PeerSends(payload)
    PROVE  /\ Len(ByteSeq) \in Nat /\ Len(ByteSeq)' \in Nat /\ Len(ByteSeq) <= Len(ByteSeq)'
           /\ \A p \in 1 .. Len(ByteSeq) : ByteSeq'[p] = ByteSeq[p]
           /\ Len(sent)' = Len(sent) + 1
           /\ \A f \in 1 .. Len(sent) : sent'[f] = sent[f]
           /\ \A p \in 0 .. Len(ByteSeq) : Cursor(p)' = Cursor(p)
<1>1. /\ Len(ByteSeq) \in Nat /\ Len(ByteSeq)' \in Nat /\ Len(ByteSeq) <= Len(ByteSeq)'
      /\ \A p \in 1 .. Len(ByteSeq) : ByteSeq'[p] = ByteSeq[p]
  <2>1. /\ ByteSeq \in Seq(Byte) /\ NewFrame(FrameLength(payload)) \in Seq(Byte)
        /\ ByteSeq' = Cat(ByteSeq, NewFrame(FrameLength(payload)))
    BY ByteSeqType, ByteSeqGrows
  <2> QED
    BY <2>1, GrowsBy
<1>2. /\ Len(sent)' = Len(sent) + 1
      /\ \A f \in 1 .. Len(sent) : sent'[f] = sent[f]
  BY DEF PeerSends, TypeOK
<1>3. ASSUME NEW p \in 0 .. Len(ByteSeq) PROVE Cursor(p)' = Cursor(p)
  <2>1. CASE p = 0
    BY <2>1 DEF Cursor
  <2>2. CASE p # 0
    <3>1. p \in 1 .. Len(ByteSeq)
      BY <1>1, <2>2
    <3>2. ByteSeq[p][1] \in 1 .. Len(sent)
      BY <3>1 DEF BytesInv
    <3> QED
      BY <1>1, <1>2, <2>2, <3>1, <3>2 DEF Cursor, Successor
  <2> QED
    BY <2>1, <2>2
<1> QED
  BY <1>1, <1>2, <1>3

\* A new frame continues the bytes of the peer.
LEMMA BytesGrow ==
    ASSUME TypeOK, BytesInv, NEW payload \in Payloads, PeerSends(payload)
    PROVE  BytesInv'
<1> DEFINE len == FrameLength(payload)
           L == Len(ByteSeq)
           g == Len(sent) + 1
<1>1. /\ len \in Nat /\ len >= 1 /\ L \in Nat /\ g \in 1 .. g
      /\ Len(ByteSeq)' = L + len
      /\ \A p \in 1 .. L : ByteSeq'[p] = ByteSeq[p]
      /\ \A i \in 1 .. len : ByteSeq'[L + i] = << g, i >>
  <2>1. /\ NewFrame(len) \in Seq(Byte) /\ Len(NewFrame(len)) = len
        /\ \A i \in 1 .. len : NewFrame(len)[i] = << g, i >>
    BY ByteSeqGrows DEF NewFrame
  <2>2. ByteSeq' = Cat(ByteSeq, NewFrame(len)) /\ ByteSeq \in Seq(Byte)
    BY ByteSeqType, ByteSeqGrows
  <2>3. len \in Nat /\ len >= 1 /\ g \in 1 .. g
    BY SentSizes, ByteSeqGrows
  <2> HIDE DEF len, g
  <2>4. /\ Len(ByteSeq)' = L + Len(NewFrame(len)) /\ L \in Nat
        /\ \A p \in 1 .. L : ByteSeq'[p] = ByteSeq[p]
        /\ \A i \in 1 .. Len(NewFrame(len)) : ByteSeq'[L + i] = NewFrame(len)[i]
    BY <2>1, <2>2, GrowsBy, SMTT(30)
  <2> QED
    BY <2>1, <2>2, <2>3, <2>4
<1>2. /\ Len(sent)' = g /\ sent'[g] = len
      /\ \A f \in 1 .. Len(sent) : sent'[f] = sent[f]
  BY CursorGrows DEF PeerSends, TypeOK
<1> HIDE DEF len
<1>3. \A p \in 0 .. L : Cursor(p)' = Cursor(p)
  BY CursorGrows
<1>4. \A p : Cursor(p)' = IF p = 0 THEN << 1, 1 >>
                          ELSE IF ByteSeq'[p][2] < sent'[ByteSeq'[p][1]]
                               THEN << ByteSeq'[p][1], ByteSeq'[p][2] + 1 >>
                               ELSE << ByteSeq'[p][1] + 1, 1 >>
  BY DEF Cursor, Successor
<1>5. \A i \in 1 .. len : \A p : p = L + i =>
         Cursor(p)' = IF i < len THEN << g, i + 1 >> ELSE << g + 1, 1 >>
  <2> SUFFICES ASSUME NEW i \in 1 .. len, NEW p, p = L + i
               PROVE  Cursor(p)' = IF i < len THEN << g, i + 1 >> ELSE << g + 1, 1 >>
    OBVIOUS
  <2>1. p # 0 /\ ByteSeq'[p] = << g, i >> /\ sent'[g] = len
    BY <1>1, <1>2
  <2> QED
    BY <1>4, <2>1
<1>6. \A p : p = L => Cursor(p)' = << g, 1 >>
  BY <1>1, <1>3 DEF BytesInv
<1>7. ASSUME NEW p \in 1 .. L + len
      PROVE  /\ ByteSeq'[p] = Cursor(p - 1)'
             /\ ByteSeq'[p][1] \in 1 .. g
             /\ ByteSeq'[p][2] \in 1 .. sent'[ByteSeq'[p][1]]
  <2>1. CASE p <= L
    <3>1. p \in 1 .. L /\ p - 1 \in 0 .. L
      BY <1>1, <2>1
    <3>2. /\ ByteSeq[p] = Cursor(p - 1) /\ ByteSeq[p][1] \in 1 .. Len(sent)
          /\ ByteSeq[p][2] \in 1 .. sent[ByteSeq[p][1]]
      BY <3>1 DEF BytesInv
    <3>3. ByteSeq'[p] = ByteSeq[p] /\ Cursor(p - 1)' = Cursor(p - 1)
      BY <1>1, <1>3, <3>1
    <3>4. ByteSeq[p][1] \in 1 .. g /\ sent'[ByteSeq[p][1]] = sent[ByteSeq[p][1]]
      BY <1>2, <3>2, SentSizes
    <3> QED
      BY <3>2, <3>3, <3>4
  <2>2. CASE ~ (p <= L)
    <3> DEFINE i == p - L
    <3>1. i \in 1 .. len /\ p = L + i
      BY <1>1, <2>2
    <3> HIDE DEF i
    <3>2. ByteSeq'[p] = << g, i >> /\ g \in 1 .. g
      <4> HIDE DEF L, g
      <4> QED
        BY <1>1, <3>1
    <3>3. CASE i = 1
      <4>1. p - 1 = L
        BY <1>1, <3>1, <3>3
      <4>2. Cursor(p - 1)' = << g, 1 >>
        BY <1>6, <4>1
      <4> QED
        BY <1>2, <3>1, <3>2, <3>3, <4>2
    <3>4. CASE i # 1
      <4>1. i - 1 \in 1 .. len /\ i - 1 < len /\ p - 1 = L + (i - 1) /\ (i - 1) + 1 = i
        BY <1>1, <3>1, <3>4
      <4>2. Cursor(p - 1)' = << g, i >>
        BY <1>5, <4>1
      <4> QED
        BY <1>2, <3>1, <3>2, <4>2
    <3> QED
      BY <3>3, <3>4
  <2> QED
    BY <2>1, <2>2
<1>8. \A p : p = L + len => Cursor(p)' = << g + 1, 1 >>
  <2> HIDE DEF L, g
  <2>1. len \in 1 .. len /\ ~ (len < len)
    BY <1>1
  <2> QED
    BY <1>5, <2>1
<1> QED
  BY <1>1, <1>2, <1>7, <1>8 DEF BytesInv

----------------------------------------------------------------------------
(* What the steps do.                                                       *)

\* n bytes of the buffer are a sequence of n bytes, junk or not.
LEMMA BytesAtType ==
    ASSUME TypeOK, NEW p \in Int, NEW n \in Nat
    PROVE  /\ BytesAt(p, n) \in Seq(Byte)
           /\ Len(BytesAt(p, n)) = n
           /\ \A i \in 1 .. n : BytesAt(p, n)[i] = ByteAt(p + i - 1)
<1>1. m_data \in Seq(Byte) /\ Junk \in Byte
  BY DEF TypeOK, Byte, Junk
<1>2. \A q \in Int : ByteAt(q) \in Byte
  <2> SUFFICES ASSUME NEW q \in Int PROVE ByteAt(q) \in Byte
    OBVIOUS
  <2>1. CASE q \in 0 .. Len(m_data) - 1
    <3>1. q + 1 \in 1 .. Len(m_data)
      BY <1>1, <2>1
    <3> QED
      BY <1>1, <2>1, <3>1 DEF ByteAt
  <2>2. CASE q \notin 0 .. Len(m_data) - 1
    BY <1>1, <2>2 DEF ByteAt
  <2> QED
    BY <2>1, <2>2
<1>3. \A i \in 1 .. n : ByteAt(p + i - 1) \in Byte
  BY <1>2
<1> QED
  BY <1>3 DEF BytesAt

\* The smaller of two numbers.
LEMMA LesserIs ==
    ASSUME NEW a \in Int, NEW b \in Int
    PROVE  Lesser(a, b) \in {a, b} /\ Lesser(a, b) <= a /\ Lesser(a, b) <= b
  BY DEF Lesser

\* The message in progress with bytes read.
Read(n) == Cat(m_current_message.bytes, BytesAt(m_position, n))

\* What is read is added to the message in progress.
LEMMA ReadBytes ==
    ASSUME TypeOK, NEW n \in Nat
    PROVE  /\ Read(n) \in Seq(Byte)
           /\ Len(m_current_message.bytes) \in Nat
           /\ Len(Read(n)) = Len(m_current_message.bytes) + n
           /\ \A i \in 1 .. Len(m_current_message.bytes) : Read(n)[i] = m_current_message.bytes[i]
           /\ \A i \in 1 .. n : Read(n)[Len(m_current_message.bytes) + i] = ByteAt(m_position + i - 1)
<1> DEFINE a == m_current_message.bytes
           b == BytesAt(m_position, n)
<1>1. a \in Seq(Byte) /\ m_position \in Int
  BY SizesAssumption DEF TypeOK, Byte
<1>2. b \in Seq(Byte)
  BY <1>1, BytesAtType
<1>3. Len(b) = n /\ \A i \in 1 .. n : b[i] = ByteAt(m_position + i - 1)
  BY <1>1, BytesAtType
<1> HIDE DEF a, b
<1>4. Read(n) = Cat(a, b)
  BY DEF Read, a, b
<1>5. Read(n) \in Seq(Byte)
  BY <1>1, <1>2, <1>4, CatType
<1>6. /\ Len(a) \in Nat /\ Len(Read(n)) = Len(a) + Len(b)
      /\ \A i \in 1 .. Len(a) : Read(n)[i] = a[i]
      /\ \A i \in 1 .. Len(b) : Read(n)[Len(a) + i] = b[i]
  BY <1>1, <1>2, <1>4, GrowsBy
<1> QED
  BY <1>5, <1>6, <1>3 DEF a

\* Changing the bytes of the message in progress.
LEMMA WithBytes ==
    ASSUME TypeOK, NEW b
    PROVE  [m_current_message EXCEPT !.bytes = b]
              = [length |-> m_current_message.length, bytes |-> b]
<1>1. m_current_message \in [length : Nat, bytes : Seq(Nat \X Nat)]
  BY DEF TypeOK
<1> QED
  BY <1>1

\* The header: the bytes that are missing, or what the buffer has of them.
LEMMA HeaderDoes ==
    ASSUME TypeOK, BufferInv, ReadHeader
    PROVE  /\ rpc = "header" /\ mode = "Datagram"
           /\ UNCHANGED << peerVars, m_fd, m_data, m_size, m_messages, historyVars, cpc >>
           /\ \/ /\ Len(m_current_message.bytes) >= HEADER_SIZE
                 /\ rpc' = "body"
                 /\ UNCHANGED << m_current_message, m_position >>
              \/ \E n \in Nat :
                    /\ Len(m_current_message.bytes) < HEADER_SIZE
                    /\ n <= m_size - m_position
                    /\ m_position' = m_position + n
                    /\ \/ /\ Len(Read(n)) < HEADER_SIZE
                          /\ n = m_size - m_position
                          /\ m_current_message' =
                                [length |-> m_current_message.length, bytes |-> Read(n)]
                          /\ rpc' = "body"
                       \/ /\ Len(Read(n)) = HEADER_SIZE
                          /\ \E length \in Decode(Read(n)) :
                                \/ /\ length <= HEADER_SIZE
                                   /\ m_current_message' = NoMessage
                                   /\ rpc' = "pull"
                                \/ /\ length > HEADER_SIZE
                                   /\ m_current_message' = [length |-> length, bytes |-> Read(n)]
                                   /\ rpc' = "body"
<1> DEFINE n == Lesser(HEADER_SIZE - Len(m_current_message.bytes), m_size - m_position)
           read == m_current_message.bytes \o BytesAt(m_position, n)
<1>0. /\ HEADER_SIZE \in Nat /\ m_size \in Nat /\ m_position \in Int
      /\ m_position <= m_size /\ Len(m_current_message.bytes) \in Nat
  BY SizesAssumption DEF TypeOK, BufferInv
<1>1. /\ rpc = "header" /\ mode = "Datagram"
      /\ UNCHANGED << peerVars, m_fd, m_data, m_size, m_messages, historyVars, cpc >>
  BY DEF ReadHeader
<1>2. CASE Len(m_current_message.bytes) >= HEADER_SIZE
  <2>1. rpc' = "body" /\ UNCHANGED << m_current_message, m_position >>
    <3>1. ~ (Len(m_current_message.bytes) < HEADER_SIZE)
      BY <1>0, <1>2
    <3> QED
      BY <3>1, Zenon DEF ReadHeader, Goto
  <2> QED
    BY <1>1, <1>2, <2>1
<1>3. CASE Len(m_current_message.bytes) < HEADER_SIZE
  <2>0. ~ (Len(m_current_message.bytes) >= HEADER_SIZE)
    BY <1>0, <1>3
  <2>1. n \in Nat /\ n <= m_size - m_position
        /\ (n = m_size - m_position \/ n = HEADER_SIZE - Len(m_current_message.bytes))
    BY <1>0, <1>3, LesserIs
  <2>2. read = Read(n)
    BY DEF Read, Cat
  <2>3. m_position' = m_position + n
    BY <2>0, Zenon DEF ReadHeader, HeaderPosition
  <2>4. \/ /\ Len(read) < HEADER_SIZE
           /\ m_current_message' = [m_current_message EXCEPT !.bytes = read]
           /\ rpc' = "body"
        \/ /\ Len(read) = HEADER_SIZE
           /\ \E length \in Decode(read) :
                 IF length <= HEADER_SIZE
                 THEN m_current_message' = NoMessage /\ rpc' = "pull"
                 ELSE /\ m_current_message' = [length |-> length, bytes |-> read]
                      /\ rpc' = "body"
    BY <2>0, Zenon DEF ReadHeader, Goto, InvalidLength
  <2> HIDE DEF n, read
  <2>5. CASE Len(read) < HEADER_SIZE
    <3>1. n = m_size - m_position
      BY <1>0, <2>1, <2>2, <2>5, ReadBytes
    <3>2. Len(read) # HEADER_SIZE
      BY <1>0, <2>5
    <3>3. /\ m_current_message' = [length |-> m_current_message.length, bytes |-> Read(n)]
          /\ rpc' = "body"
      BY <2>2, <2>4, <3>2, WithBytes, Zenon
    <3> QED
      BY <1>1, <1>3, <2>1, <2>2, <2>3, <2>5, <3>1, <3>3
  <2>6. CASE Len(read) = HEADER_SIZE
    <3>1. PICK length \in Decode(Read(n)) :
             IF length <= HEADER_SIZE
             THEN m_current_message' = NoMessage /\ rpc' = "pull"
             ELSE /\ m_current_message' = [length |-> length, bytes |-> Read(n)]
                  /\ rpc' = "body"
      BY <1>0, <2>2, <2>4, <2>6
    <3>2. length \in Nat
      BY SentSizes, SizesAssumption DEF Decode, FrameLength
    <3> QED
      BY <1>0, <1>1, <1>3, <2>1, <2>2, <2>3, <2>6, <3>1, <3>2
  <2> QED
    BY <2>4, <2>5, <2>6
<1> QED
  BY <1>0, <1>2, <1>3

\* The payload: the bytes that are missing, or what the buffer has of them.
LEMMA BodyDoes ==
    ASSUME TypeOK, BufferInv, LengthInv, ReadBody
    PROVE  /\ rpc = "body" /\ rpc' = "pull" /\ mode = "Datagram"
           /\ UNCHANGED << peerVars, m_fd, m_data, historyVars, cpc >>
           /\ \E n \in Nat :
                 /\ n <= m_size - m_position
                 /\ \/ m_size' = 0 /\ m_position' = -1 /\ m_position + n = m_size
                    \/ m_size' = m_size /\ m_position' = m_position + n
                 /\ Len(m_current_message.bytes) < HEADER_SIZE => n = 0
                 /\ \/ /\ Len(Read(n)) < HEADER_SIZE \/ Len(Read(n)) < m_current_message.length
                       /\ m_messages' = m_messages
                       /\ m_current_message' =
                             [length |-> m_current_message.length, bytes |-> Read(n)]
                    \/ /\ Len(Read(n)) > HEADER_SIZE /\ Len(Read(n)) = m_current_message.length
                       /\ m_messages' = Append(m_messages,
                                               SubSeq(Read(n), HEADER_SIZE + 1, Len(Read(n))))
                       /\ m_current_message' = NoMessage
<1> DEFINE len == Len(m_current_message.bytes)
           n == IF len < HEADER_SIZE THEN 0
                ELSE Lesser(m_current_message.length - len, m_size - m_position)
           read == m_current_message.bytes \o BytesAt(m_position, n)
           full == Len(read) >= HEADER_SIZE /\ Len(read) = m_current_message.length
<1>0. /\ HEADER_SIZE \in Nat /\ m_size \in Nat /\ m_position \in Int
      /\ m_position <= m_size /\ len \in Nat /\ m_current_message.length \in Nat
  BY SizesAssumption DEF TypeOK, BufferInv
<1>1. /\ rpc = "body" /\ rpc' = "pull"
      /\ UNCHANGED << peerVars, m_fd, m_data, historyVars, cpc >>
  BY DEF ReadBody, Goto, ResetBuffer
<1>2. mode = "Datagram"
  BY <1>1, ModeAssumption DEF LengthInv, TypeOK
<1>3. /\ n \in Nat /\ n <= m_size - m_position /\ (len < HEADER_SIZE => n = 0)
      /\ len >= HEADER_SIZE =>
            /\ HEADER_SIZE < m_current_message.length
            /\ len + n <= m_current_message.length
  BY <1>0, LesserIs DEF LengthInv
<1>4. read = Read(n)
  BY DEF Read, Cat
<1>5. /\ m_messages' = IF full THEN Append(m_messages, SubSeq(read, HEADER_SIZE + 1, Len(read)))
                               ELSE m_messages
      /\ m_current_message' = IF full THEN NoMessage
                              ELSE [m_current_message EXCEPT !.bytes = read]
      /\ IF m_position + n >= m_size
         THEN m_size' = 0 /\ m_position' = -1
         ELSE m_position' = m_position + n /\ m_size' = m_size
  BY DEF ReadBody, ResetBuffer
<1> HIDE DEF n
<1>6. Len(read) = len + n
  BY <1>3, <1>4, ReadBytes
<1> HIDE DEF read, len
<1>7. \/ m_size' = 0 /\ m_position' = -1 /\ m_position + n = m_size
      \/ m_size' = m_size /\ m_position' = m_position + n
  BY <1>0, <1>3, <1>5, SMTT(30)
<1>8. CASE full
  <2>1. len >= HEADER_SIZE
    BY <1>0, <1>3, <1>6, <1>8
  <2>2. Len(Read(n)) > HEADER_SIZE /\ Len(Read(n)) = m_current_message.length
    BY <1>0, <1>3, <1>4, <1>8, <2>1
  <2>3. /\ m_messages' = Append(m_messages, SubSeq(Read(n), HEADER_SIZE + 1, Len(Read(n))))
        /\ m_current_message' = NoMessage
    BY <1>4, <1>5, <1>8
  <2> QED
    BY <1>1, <1>2, <1>3, <1>7, <2>2, <2>3 DEF len
<1>9. CASE ~ full
  <2>1. Len(Read(n)) < HEADER_SIZE \/ Len(Read(n)) < m_current_message.length
    BY <1>0, <1>3, <1>4, <1>6, <1>9
  <2>2. /\ m_messages' = m_messages
        /\ m_current_message' = [length |-> m_current_message.length, bytes |-> Read(n)]
    BY <1>4, <1>5, <1>9, WithBytes
  <2> QED
    BY <1>1, <1>2, <1>3, <1>7, <2>1, <2>2 DEF len
<1> QED
  BY <1>8, <1>9

----------------------------------------------------------------------------
(* Types, buffer and message in progress.                                   *)

\* The numbers of the state.
LEMMA Numbers ==
    ASSUME TypeOK
    PROVE  /\ HEADER_SIZE \in Nat /\ MAX_SIZE \in Nat
           /\ m_size \in Nat /\ m_size <= MAX_SIZE
           /\ m_position \in Int /\ m_position >= -1 /\ m_position <= MAX_SIZE
           /\ taken \in Nat /\ Len(ByteSeq) \in Nat /\ taken <= Len(ByteSeq)
           /\ foreign \in Nat
<1>1. Len(ByteSeq) \in Nat
  BY ByteSeqType
<1>2. /\ taken \in 0 .. Len(ByteSeq) /\ m_size \in 0 .. MAX_SIZE
      /\ m_position \in -1 .. MAX_SIZE /\ foreign \in Nat
  BY DEF TypeOK
<1> QED
  BY <1>1, <1>2, SizesAssumption

\* recv() takes bytes that the peer has sent.
LEMMA RecvBound ==
    ASSUME TypeOK, NEW n \in 1 .. MAX_SIZE, RecvData(n)
    PROVE  n \in Nat /\ n >= 1 /\ n <= MAX_SIZE /\ taken + n <= Len(ByteSeq)
<1>1. n \in 1 .. Lesser(Available, MAX_SIZE)
  BY DEF RecvData
<1>2. Available \in Int /\ Available = Len(ByteSeq) - taken
  BY Numbers DEF Available
<1>3. Lesser(Available, MAX_SIZE) \in Int /\ Lesser(Available, MAX_SIZE) <= Available
  BY <1>2, Numbers, LesserIs
<1> QED
  BY <1>1, <1>2, <1>3, Numbers

\* What recv() returned is added to the bytes of the peer that were received,
\* or to the foreign ones.
LEMMA FillDoes ==
    ASSUME TypeOK, BytesInv, BufferInv, FillBuffer
    PROVE  /\ m_size = 0 /\ m_size' = Len(m_data) /\ m_position' = 0 /\ rpc' = "header"
           /\ Len(m_data) \in Nat /\ Len(m_data) >= 1 /\ Len(m_data) <= MAX_SIZE
           /\ UNCHANGED << mode, sent, peer, m_fd, m_data, sliceVars, delivered, cpc >>
           /\ \/ /\ foreign = 0 /\ UNCHANGED foreign
                 /\ taken' = taken + Len(m_data) /\ taken + Len(m_data) <= Len(ByteSeq)
                 /\ \A p \in 1 .. Len(m_data) : m_data[p] = ByteSeq[taken + p]
              \/ /\ cpc # "none" /\ UNCHANGED taken
                 /\ foreign' = foreign + Len(m_data)
                 /\ \A p \in 1 .. Len(m_data) : m_data[p] = Junk
<1>0. /\ taken \in Nat /\ Len(ByteSeq) \in Nat /\ m_data \in Seq(Byte)
      /\ Len(m_data) \in Nat
  BY Numbers DEF TypeOK, Byte
<1>1. /\ m_size = 0 /\ m_size' = Len(m_data) /\ m_position' = 0 /\ rpc' = "header"
      /\ Len(m_data) >= 1 /\ Len(m_data) <= MAX_SIZE
      /\ UNCHANGED << mode, sent, peer, m_fd, m_data, sliceVars, delivered, cpc >>
  BY DEF FillBuffer, BufferInv, PendingInv, Goto
<1>2. \/ Head(m_data) # Junk /\ taken' = taken + Len(m_data) /\ UNCHANGED foreign
      \/ Head(m_data) = Junk /\ foreign' = foreign + Len(m_data) /\ UNCHANGED taken
  BY DEF FillBuffer
<1>3. 1 \in 1 .. Len(m_data) /\ Head(m_data) = m_data[1]
  BY <1>0, <1>1
<1>4. \/ /\ foreign = 0
         /\ taken + Len(m_data) <= Len(ByteSeq)
         /\ \A p \in 1 .. Len(m_data) : m_data[p] = ByteSeq[taken + p]
      \/ /\ cpc # "none"
         /\ \A p \in 1 .. Len(m_data) : m_data[p] = Junk
  BY DEF FillBuffer, BufferInv, PendingInv
<1>5. CASE /\ foreign = 0
           /\ taken + Len(m_data) <= Len(ByteSeq)
           /\ \A p \in 1 .. Len(m_data) : m_data[p] = ByteSeq[taken + p]
  <2>1. taken + 1 \in 1 .. Len(ByteSeq)
    BY <1>0, <1>1, <1>5
  <2>2. ByteSeq[taken + 1][1] # 0
    BY <2>1, SentSizes DEF BytesInv
  <2>3. m_data[1] = ByteSeq[taken + 1]
    BY <1>3, <1>5
  <2>4. Head(m_data) # Junk
    BY <1>3, <2>2, <2>3 DEF Junk
  <2> QED
    BY <1>0, <1>1, <1>2, <1>5, <2>4
<1>6. CASE /\ cpc # "none"
           /\ \A p \in 1 .. Len(m_data) : m_data[p] = Junk
  BY <1>0, <1>1, <1>2, <1>3, <1>6
<1> QED
  BY <1>4, <1>5, <1>6

\* Every step keeps every variable in its type.
LEMMA TypeStep ==
    ASSUME TypeOK, BytesInv, BufferInv, LengthInv, Next
    PROVE  TypeOK'
<1> USE DEF peerVars, bufferVars, sliceVars, historyVars, Goto
<1>0. /\ HEADER_SIZE \in Nat /\ MAX_SIZE \in Nat
      /\ m_size \in Nat /\ m_size <= MAX_SIZE
      /\ m_position \in Int /\ m_position >= -1 /\ m_position <= MAX_SIZE
  BY Numbers
<1> DEFINE Message == [length : Nat, bytes : Seq(Nat \X Nat)]
<1>11. /\ m_current_message \in Message /\ NoMessage \in Message
      /\ \A n \in Nat : Read(n) \in Seq(Nat \X Nat)
  BY ReadBytes DEF Byte, TypeOK, NoMessage
<1>12. /\ m_messages \in Seq(Seq(Nat \X Nat)) /\ delivered \in Seq(Seq(Nat \X Nat))
      /\ \A d \in Seq(Nat \X Nat) : Append(m_messages, d) \in Seq(Seq(Nat \X Nat))
  BY AppendProperties DEF TypeOK
<1>1. CASE \/ OnReadReady \/ PullMessages \/ LoadFd \/ RecvAgain \/ ReceiveNothing \/ HandlerReturn
           \/ SenderClosesFd \/ SenderForgetsFd
  <2>1. UNCHANGED << peerVars, bufferVars, sliceVars, historyVars >>
    BY <1>1 DEF OnReadReady, PullMessages, LoadFd, RecvAgain, ReceiveNothing, HandlerReturn,
         SenderClosesFd, SenderForgetsFd
  <2>2. /\ rpc' \in {"idle", "pull", "load", "recv", "fill", "header", "body", "got", "end",
                     "disconnected"}
        /\ cpc' \in {"none", "closed", "reset", "done"} /\ m_fd' \in {"valid", "none"}
    BY <1>1 DEF OnReadReady, PullMessages, LoadFd, RecvAgain, ReceiveNothing, HandlerReturn,
         SenderClosesFd, SenderForgetsFd, TypeOK
  <2> QED
    BY <2>1, <2>2, ByteSeqSame DEF TypeOK
<1>2. ASSUME NEW n \in 1 .. MAX_SIZE, RecvData(n) \/ RecvForeign(n) PROVE TypeOK'
  <2>1. Len(ByteSeq) \in Nat /\ taken \in Nat /\ ByteSeq \in Seq(Byte) /\ n \in Nat
    BY <1>0, <1>2, ByteSeqType, Numbers
  <2>2. CASE RecvData(n)
    <3>1. taken + n <= Len(ByteSeq)
      BY <2>2, RecvBound
    <3>2. SubSeq(ByteSeq, taken + 1, taken + n) \in Seq(Byte)
      BY <2>1, <3>1
    <3> QED
      BY <2>2, <3>2, ByteSeqSame DEF RecvData, Byte, TypeOK
  <2>3. CASE RecvForeign(n)
    <3>1. [i \in 1 .. n |-> Junk] \in Seq(Byte)
      BY <2>1 DEF Junk, Byte
    <3> QED
      BY <2>3, <3>1, ByteSeqSame DEF RecvForeign, Byte, TypeOK
  <2> QED
    BY <1>2, <2>2, <2>3
<1>13. CASE FillBuffer
  <2>1. /\ m_size' \in 0 .. MAX_SIZE /\ m_position' \in -1 .. MAX_SIZE /\ rpc' = "header"
    BY <1>0, <1>13, FillDoes
  <2>2. taken' \in 0 .. Len(ByteSeq)' /\ foreign' \in Nat
    BY <1>13, FillDoes, Numbers, ByteSeqSame
  <2> QED
    BY <1>13, <2>1, <2>2, FillDoes DEF TypeOK
<1>3. CASE RecvEnds \/ RecvFails
  <2>1. /\ UNCHANGED << peerVars, m_data, sliceVars, historyVars, cpc >>
        /\ m_size' \in 0 .. MAX_SIZE /\ m_position' \in -1 .. MAX_SIZE
        /\ m_fd' = "none" /\ rpc' \in {"got", "end"}
    BY <1>0, <1>3 DEF RecvEnds, RecvFails, CloseFast, ResetBuffer, EndReturns
  <2> QED
    BY <2>1, ByteSeqSame DEF TypeOK
<1>4. CASE ReadHeader
  <2>1. m_current_message' \in Message
    <3>1. \A n \in Nat : \A length \in Decode(Read(n)) : length \in Nat
      BY SentSizes, SizesAssumption DEF Decode, FrameLength
    <3>2. \A n \in Nat : /\ [length |-> m_current_message.length, bytes |-> Read(n)] \in Message
                         /\ \A length \in Decode(Read(n)) :
                               [length |-> length, bytes |-> Read(n)] \in Message
      BY <1>11, <3>1
    <3> HIDE DEF Message
    <3> QED
      BY <1>4, <1>11, <3>2, HeaderDoes
  <2>2. m_position' \in -1 .. MAX_SIZE
    <3>1. m_position' \in Int /\ m_position <= m_position' /\ m_position' <= m_size
      BY <1>0, <1>4, HeaderDoes DEF BufferInv
    <3> QED
      BY <1>0, <3>1
  <2>3. /\ UNCHANGED << peerVars, m_fd, m_data, m_size, m_messages, historyVars, cpc >>
        /\ rpc' \in {"body", "pull"}
    BY <1>4, HeaderDoes
  <2> QED
    BY <2>1, <2>2, <2>3, ByteSeqSame DEF TypeOK
<1>5. CASE ReadBody
  <2>0. PICK n \in Nat :
           /\ n <= m_size - m_position
           /\ \/ m_size' = 0 /\ m_position' = -1
              \/ m_size' = m_size /\ m_position' = m_position + n
           /\ \/ /\ m_messages' = m_messages
                 /\ m_current_message' =
                       [length |-> m_current_message.length, bytes |-> Read(n)]
              \/ /\ Len(Read(n)) > HEADER_SIZE
                 /\ m_messages' = Append(m_messages,
                                         SubSeq(Read(n), HEADER_SIZE + 1, Len(Read(n))))
                 /\ m_current_message' = NoMessage
    BY <1>5, BodyDoes
  <2>1. Read(n) \in Seq(Nat \X Nat)
    BY <1>11
  <2>2. m_current_message' \in Message
    <3>1. [length |-> m_current_message.length, bytes |-> Read(n)] \in Message
      BY <1>11
    <3> HIDE DEF Message
    <3> QED
      BY <1>11, <2>0, <3>1
  <2>3. m_messages' \in Seq(Seq(Nat \X Nat))
    <3>1. CASE m_messages' = m_messages
      BY <1>12, <3>1
    <3>2. CASE /\ Len(Read(n)) > HEADER_SIZE
               /\ m_messages' = Append(m_messages, SubSeq(Read(n), HEADER_SIZE + 1, Len(Read(n))))
      <4>1. SubSeq(Read(n), HEADER_SIZE + 1, Len(Read(n))) \in Seq(Nat \X Nat)
        BY <1>0, <2>1, <3>2, SMTT(30)
      <4> QED
        BY <1>12, <3>2, <4>1, Zenon
    <3> QED
      BY <2>0, <3>1, <3>2, Zenon
  <2>4. m_size' \in 0 .. MAX_SIZE /\ m_position' \in -1 .. MAX_SIZE
    BY <1>0, <2>0
  <2>5. UNCHANGED << peerVars, m_fd, m_data, historyVars, cpc >> /\ rpc' = "pull"
    BY <1>5, BodyDoes
  <2> QED
    BY <2>2, <2>3, <2>4, <2>5, ByteSeqSame DEF TypeOK
<1>6. CASE SliceStream
  <2>1. BytesAt(0, m_size) \in Seq(Nat \X Nat)
    BY <1>0, BytesAtType DEF Byte
  <2>2. m_messages' \in Seq(Seq(Nat \X Nat))
    <3>1. m_messages' = m_messages \/ m_messages' = Append(m_messages, BytesAt(0, m_size))
      BY <1>6 DEF SliceStream
    <3> QED
      BY <1>12, <2>1, <3>1, Zenon
  <2>3. /\ UNCHANGED << peerVars, m_fd, m_data, m_current_message, historyVars, cpc >>
        /\ rpc' = "pull" /\ m_size' \in 0 .. MAX_SIZE /\ m_position' \in -1 .. MAX_SIZE
    BY <1>0, <1>6 DEF SliceStream, BufferConsumed, ResetBuffer
  <2> QED
    BY <2>2, <2>3, ByteSeqSame DEF TypeOK
<1>7. CASE OnNetworkMessage
  <2>2. m_messages' \in Seq(Seq(Nat \X Nat)) /\ delivered' \in Seq(Seq(Nat \X Nat))
    BY <1>7, <1>12 DEF OnNetworkMessage
  <2>3. /\ UNCHANGED << peerVars, m_fd, bufferVars, m_current_message, foreign, cpc >>
        /\ rpc' = "pull"
    BY <1>7 DEF OnNetworkMessage, ReceiveAgain
  <2> QED
    BY <2>2, <2>3, ByteSeqSame DEF TypeOK
<1>8. CASE SenderResetsBuffer
  <2>1. /\ UNCHANGED << peerVars, m_fd, m_data, sliceVars, historyVars, rpc >>
        /\ m_size' \in 0 .. MAX_SIZE /\ m_position' \in -1 .. MAX_SIZE /\ cpc' = "done"
    BY <1>0, <1>8 DEF SenderResetsBuffer, ResetBuffer
  <2> QED
    BY <2>1, ByteSeqSame DEF TypeOK
<1>9. ASSUME NEW payload \in Payloads, PeerSends(payload) PROVE TypeOK'
  <2>1. sent' \in Seq({FrameLength(p) : p \in Payloads})
    BY <1>9 DEF PeerSends, TypeOK
  <2>2. taken' \in 0 .. Len(ByteSeq)'
    <3>1. ByteSeq \in Seq(Byte) /\ NewFrame(FrameLength(payload)) \in Seq(Byte)
          /\ ByteSeq' = Cat(ByteSeq, NewFrame(FrameLength(payload)))
      BY <1>9, ByteSeqType, ByteSeqGrows
    <3>2. Len(ByteSeq) \in Nat /\ Len(ByteSeq)' \in Nat /\ Len(ByteSeq) <= Len(ByteSeq)'
      BY <3>1, GrowsBy
    <3> QED
      BY <1>9, <3>2 DEF PeerSends, TypeOK
  <2> QED
    BY <1>9, <2>1, <2>2 DEF PeerSends, TypeOK
<1>10. ASSUME NEW how \in Endings, PeerEnds(how) PROVE TypeOK'
  BY <1>10, ByteSeqSame DEF PeerEnds, TypeOK
<1> QED
  BY <1>1, <1>2, <1>3, <1>4, <1>5, <1>6, <1>7, <1>8, <1>9, <1>10, <1>13
     DEF Next, Reader

\* Every step keeps the buffer a part of the bytes of the peer.
LEMMA BufferStep ==
    ASSUME TypeOK, BytesInv, BufferInv, LengthInv, Next
    PROVE  BufferInv'
<1> USE DEF peerVars, bufferVars, sliceVars, historyVars, Goto
<1>0. /\ m_size \in Nat /\ m_position \in Int /\ taken \in Nat /\ foreign \in Nat
      /\ Len(ByteSeq) \in Nat /\ taken <= Len(ByteSeq)
  BY Numbers
<1>1. ASSUME UNCHANGED << mode, taken, foreign, m_data, m_size >>,
             \A i : Got(i)' = Got(i),
             m_position' <= m_size, m_size > 0 => m_position' >= 0,
             rpc' \in {"load", "recv", "fill"} => m_size = 0,
             PendingInv',
             cpc # "none" => cpc' # "none",
             cpc' # "none" => cpc # "none" \/ mode \in SenderCloses,
             cpc' \in {"reset", "done"} => m_fd' = "none"
      PROVE  BufferInv'
  BY <1>1 DEF BufferInv
<1>2. ASSUME m_size' = 0, m_position' <= 0, UNCHANGED << mode, foreign >>,
             PendingInv',
             cpc # "none" => cpc' # "none",
             cpc' # "none" => cpc # "none" \/ mode \in SenderCloses,
             cpc' \in {"reset", "done"} => m_fd' = "none"
      PROVE  BufferInv'
  BY <1>2 DEF BufferInv
<1>3. UNCHANGED << sent, taken >> => \A i : Got(i)' = Got(i)
  BY ByteSeqSame DEF Got
<1>4. CASE \/ OnReadReady \/ PullMessages \/ LoadFd \/ RecvAgain \/ ReceiveNothing \/ HandlerReturn
           \/ OnNetworkMessage \/ SenderClosesFd \/ SenderForgetsFd
  <2>1. /\ UNCHANGED << mode, sent, taken, foreign, bufferVars >>
        /\ rpc' \in {"load", "recv", "fill"} => m_size = 0
    BY <1>0, <1>4 DEF OnReadReady, PullMessages, LoadFd, RecvAgain, ReceiveNothing, HandlerReturn,
         OnNetworkMessage, ReceiveAgain, SenderClosesFd, SenderForgetsFd, BufferInv
  <2>2. /\ cpc # "none" => cpc' # "none"
        /\ cpc' # "none" => cpc # "none" \/ mode \in SenderCloses
        /\ cpc' \in {"reset", "done"} => m_fd' = "none"
    BY <1>4 DEF OnReadReady, PullMessages, LoadFd, RecvAgain, ReceiveNothing, HandlerReturn,
         OnNetworkMessage, SenderClosesFd, SenderForgetsFd, BufferInv
  <2>3. rpc' = "fill" => rpc = "fill"
    BY <1>4 DEF OnReadReady, PullMessages, LoadFd, RecvAgain, ReceiveNothing, HandlerReturn,
         OnNetworkMessage, ReceiveAgain, SenderClosesFd, SenderForgetsFd
  <2>4. PendingInv'
    BY <2>1, <2>2, <2>3, ByteSeqSame DEF PendingInv, BufferInv
  <2>5. m_position' <= m_size /\ (m_size > 0 => m_position' >= 0)
    BY <2>1 DEF BufferInv
  <2> QED
    BY <1>1, <1>3, <2>1, <2>2, <2>4, <2>5
<1>5. ASSUME NEW n \in 1 .. MAX_SIZE, RecvData(n) PROVE BufferInv'
  <2>1. ByteSeq \in Seq(Byte) /\ MAX_SIZE \in Nat
    BY ByteSeqType, SizesAssumption
  <2>2. n \in Nat /\ taken + n <= Len(ByteSeq) /\ n >= 1 /\ n <= MAX_SIZE
    BY <1>5, RecvBound
  <2>3. /\ Len(SubSeq(ByteSeq, taken + 1, taken + n)) = n
        /\ \A p \in 1 .. n : SubSeq(ByteSeq, taken + 1, taken + n)[p] = ByteSeq[taken + p]
    BY <1>0, <2>1, <2>2
  <2>4. /\ m_data' = SubSeq(ByteSeq, taken + 1, taken + n) /\ rpc' = "fill"
        /\ UNCHANGED << mode, sent, taken, foreign, m_size, m_position, m_fd, cpc >>
        /\ rpc = "recv" /\ cpc = "none"
    BY <1>5 DEF RecvData, NumberFreed
  <2>5. m_size' = 0 /\ m_position' <= 0 /\ foreign = 0
    BY <1>0, <2>4 DEF BufferInv
  <2>6. PendingInv'
    <3>1. Len(m_data') = n /\ ByteSeq' = ByteSeq
      BY <2>3, <2>4, ByteSeqSame
    <3>2. \A p \in 1 .. n : m_data'[p] = ByteSeq[taken + p]
      BY <2>3, <2>4
    <3> QED
      BY <2>2, <2>4, <2>5, <3>1, <3>2 DEF PendingInv
  <2> QED
    BY <1>2, <2>4, <2>5, <2>6
<1>6. ASSUME NEW n \in 1 .. MAX_SIZE, RecvForeign(n) PROVE BufferInv'
  <2>1. n \in Nat /\ n >= 1 /\ n <= MAX_SIZE
    BY <1>6, SizesAssumption
  <2>2. /\ m_data' = [i \in 1 .. n |-> Junk] /\ rpc' = "fill"
        /\ UNCHANGED << mode, sent, taken, foreign, m_size, m_position, m_fd, cpc >>
        /\ rpc = "recv" /\ cpc # "none"
    BY <1>6 DEF RecvForeign, NumberFreed
  <2>3. m_size' = 0 /\ m_position' <= 0
    BY <1>0, <2>2 DEF BufferInv
  <2>4. Len(m_data') = n /\ \A p \in 1 .. n : m_data'[p] = Junk
    BY <2>1, <2>2
  <2>5. PendingInv'
    BY <2>1, <2>2, <2>4 DEF PendingInv
  <2>6. cpc' \in {"reset", "done"} => m_fd' = "none"
    BY <2>2 DEF BufferInv
  <2> QED
    BY <1>2, <2>2, <2>3, <2>5, <2>6
<1>7. CASE FillBuffer
  <2> DEFINE n == Len(m_data)
  <2>1. /\ m_size' = n /\ m_position' = 0 /\ rpc' = "header" /\ n \in Nat /\ n >= 1
        /\ UNCHANGED << mode, sent, m_fd, m_data, cpc >>
    BY <1>7, FillDoes
  <2>2. ByteSeq' = ByteSeq
    BY <2>1, ByteSeqSame
  <2> HIDE DEF n
  <2>5. ASSUME m_size' <= taken' + foreign', foreign' > 0 => cpc # "none",
               \A p \in 1 .. n : m_data'[p] = Got(taken + foreign - m_size + p)'
        PROVE  BufferInv'
    <3>1. m_position' <= m_size' /\ m_position' >= 0 /\ Len(m_data') = m_size' /\ PendingInv'
      BY <2>1 DEF PendingInv, n
    <3>2. /\ cpc' # "none" => mode' \in SenderCloses
          /\ cpc' \in {"reset", "done"} => m_fd' = "none"
      BY <2>1 DEF BufferInv
    <3> QED
      BY <2>1, <2>5, <3>1, <3>2 DEF BufferInv
  <2>3. CASE /\ foreign = 0 /\ foreign' = foreign /\ taken' = taken + n
             /\ \A p \in 1 .. n : m_data[p] = ByteSeq[taken + p]
    <3>1. ASSUME NEW p \in 1 .. n PROVE m_data'[p] = Got(taken + foreign - m_size + p)'
      <4>1. taken' + foreign' - m_size' + p = taken + p /\ taken + p <= taken'
        BY <1>0, <2>1, <2>3
      <4>2. m_data'[p] = ByteSeq'[taken + p]
        BY <2>1, <2>2, <2>3
      <4> QED
        BY <4>1, <4>2 DEF Got
    <3>2. m_size' <= taken' + foreign'
      BY <1>0, <2>1, <2>3
    <3> QED
      BY <2>1, <2>3, <3>1, <3>2, <2>5
  <2>4. CASE /\ cpc # "none" /\ UNCHANGED taken /\ foreign' = foreign + n
             /\ \A p \in 1 .. n : m_data[p] = Junk
    <3>1. ASSUME NEW p \in 1 .. n PROVE m_data'[p] = Got(taken + foreign - m_size + p)'
      <4>1. ~ (taken' + foreign' - m_size' + p <= taken')
        BY <1>0, <2>1, <2>4
      <4>2. m_data'[p] = Junk
        BY <2>1, <2>4
      <4> QED
        BY <4>1, <4>2 DEF Got
    <3>2. m_size' <= taken' + foreign'
      BY <1>0, <2>1, <2>4
    <3> QED
      BY <2>1, <2>4, <3>1, <3>2, <2>5
  <2> QED
    BY <1>7, <2>3, <2>4, FillDoes DEF n
<1>8. CASE RecvEnds \/ RecvFails
  <2>1. /\ m_size' = 0 /\ m_position' <= 0 /\ UNCHANGED << mode, foreign, cpc >>
        /\ rpc' # "fill" /\ m_fd' = "none"
    BY <1>0, <1>8 DEF RecvEnds, RecvFails, CloseFast, ResetBuffer, BufferInv, EndReturns
  <2>2. PendingInv'
    BY <2>1 DEF PendingInv
  <2> QED
    BY <1>2, <2>1, <2>2
<1>9. CASE SenderResetsBuffer
  <2>1. /\ m_size' = 0 /\ m_position' = -1 /\ cpc = "reset" /\ cpc' = "done"
        /\ UNCHANGED << mode, sent, taken, foreign, m_data, m_fd, rpc >>
    BY <1>9 DEF SenderResetsBuffer, ResetBuffer
  <2>2. PendingInv'
    BY <2>1, ByteSeqSame DEF PendingInv, BufferInv
  <2>3. m_fd' = "none" /\ m_position' <= 0
    BY <2>1 DEF BufferInv
  <2> QED
    BY <1>2, <2>1, <2>2, <2>3
<1>10. CASE ReadHeader
  <2>1. /\ UNCHANGED << mode, sent, taken, foreign, m_fd, m_data, m_size, cpc >>
        /\ rpc' \in {"body", "pull"}
        /\ m_position' \in Int /\ m_position <= m_position' /\ m_position' <= m_size
    <3>1. m_position <= m_size
      BY DEF BufferInv
    <3> QED
      BY <1>0, <1>10, <3>1, HeaderDoes
  <2>2. PendingInv'
    BY <2>1 DEF PendingInv
  <2>3. m_size > 0 => m_position' >= 0
    BY <1>0, <2>1 DEF BufferInv
  <2>4. cpc' \in {"reset", "done"} => m_fd' = "none"
    BY <2>1 DEF BufferInv
  <2> QED
    BY <1>1, <1>3, <2>1, <2>2, <2>3, <2>4
<1>11. CASE ReadBody
  <2>1. /\ UNCHANGED << mode, sent, taken, foreign, m_fd, m_data, cpc >> /\ rpc' = "pull"
        /\ \/ m_size' = 0 /\ m_position' = -1
           \/ /\ m_size' = m_size
              /\ m_position' \in Int /\ m_position <= m_position' /\ m_position' <= m_size
    BY <1>0, <1>11, BodyDoes
  <2>2. PendingInv'
    BY <2>1 DEF PendingInv
  <2>3. cpc' \in {"reset", "done"} => m_fd' = "none"
    BY <2>1 DEF BufferInv
  <2>4. CASE m_size' = 0 /\ m_position' = -1
    BY <1>2, <2>1, <2>2, <2>3, <2>4
  <2>5. CASE /\ m_size' = m_size
             /\ m_position' \in Int /\ m_position <= m_position' /\ m_position' <= m_size
    <3>1. m_size > 0 => m_position' >= 0
      BY <1>0, <2>5 DEF BufferInv
    <3> QED
      BY <1>1, <1>3, <2>1, <2>2, <2>3, <2>5, <3>1
  <2> QED
    BY <2>1, <2>4, <2>5
<1>12. CASE SliceStream
  <2>1. /\ UNCHANGED << mode, sent, taken, foreign, m_fd, m_data, cpc >> /\ rpc' = "pull"
        /\ m_size' = 0 /\ m_position' <= 0
    BY <1>0, <1>12 DEF SliceStream, BufferConsumed, ResetBuffer, BufferInv
  <2>2. PendingInv' /\ (cpc' \in {"reset", "done"} => m_fd' = "none")
    BY <2>1 DEF PendingInv, BufferInv
  <2> QED
    BY <1>2, <2>1, <2>2
<1>13. ASSUME NEW payload \in Payloads, PeerSends(payload) PROVE BufferInv'
  <2>1. UNCHANGED << mode, taken, foreign, m_fd, bufferVars, rpc, cpc >>
    BY <1>13 DEF PeerSends
  <2>2. ASSUME m_size > 0, NEW p \in 1 .. m_size
        PROVE  m_data[p] = Got(taken + foreign - m_size + p)'
    <3>1. m_data[p] = Got(taken + foreign - m_size + p)
      BY <2>2 DEF BufferInv
    <3>2. taken + foreign - m_size + p \in Int /\ taken + foreign - m_size + p >= 1
      BY <1>0, <2>2 DEF BufferInv
    <3>3. CASE taken + foreign - m_size + p <= taken
      <4>1. taken + foreign - m_size + p \in 1 .. Len(ByteSeq)
        BY <1>0, <3>2, <3>3
      <4> QED
        BY <1>13, <2>1, <3>1, <3>3, <4>1, CursorGrows DEF Got
    <3>4. CASE ~ (taken + foreign - m_size + p <= taken)
      BY <2>1, <3>1, <3>4 DEF Got
    <3> QED
      BY <3>3, <3>4
  <2>3. PendingInv'
    <3>1. ASSUME rpc = "fill", foreign = 0, taken + Len(m_data) <= Len(ByteSeq),
                 \A p \in 1 .. Len(m_data) : m_data[p] = ByteSeq[taken + p]
          PROVE  /\ taken + Len(m_data) <= Len(ByteSeq')
                 /\ \A p \in 1 .. Len(m_data) : m_data[p] = ByteSeq'[taken + p]
      <4>0. Len(m_data) \in Nat
        BY DEF TypeOK
      <4>1. Len(ByteSeq') \in Nat /\ Len(ByteSeq) <= Len(ByteSeq')
        <5>1. ByteSeq \in Seq(Byte) /\ NewFrame(FrameLength(payload)) \in Seq(Byte)
              /\ ByteSeq' = Cat(ByteSeq, NewFrame(FrameLength(payload)))
          BY <1>13, ByteSeqType, ByteSeqGrows
        <5> QED
          BY <5>1, GrowsBy
      <4>2. \A p \in 1 .. Len(m_data) : taken + p \in 1 .. Len(ByteSeq)
        BY <1>0, <3>1, <4>0
      <4>3. \A q \in 1 .. Len(ByteSeq) : ByteSeq'[q] = ByteSeq[q]
        BY <1>13, CursorGrows
      <4>4. taken + Len(m_data) <= Len(ByteSeq')
        BY <1>0, <3>1, <4>0, <4>1
      <4> QED
        BY <3>1, <4>2, <4>3, <4>4
    <3> QED
      BY <2>1, <3>1 DEF PendingInv, BufferInv
  <2> QED
    BY <2>1, <2>2, <2>3 DEF BufferInv
<1>14. ASSUME NEW how \in Endings, PeerEnds(how) PROVE BufferInv'
  <2>1. UNCHANGED << mode, sent, taken, foreign, m_fd, bufferVars, rpc, cpc >>
    BY <1>14 DEF PeerEnds
  <2>2. PendingInv'
    BY <2>1, ByteSeqSame DEF PendingInv, BufferInv
  <2> QED
    BY <1>3, <2>1, <2>2 DEF BufferInv
<1> QED
  BY <1>4, <1>5, <1>6, <1>7, <1>8, <1>9, <1>10, <1>11, <1>12, <1>13, <1>14 DEF Next, Reader

\* Every step leaves the message in progress incomplete.
LEMMA LengthStep ==
    ASSUME TypeOK, BytesInv, BufferInv, LengthInv, Next
    PROVE  LengthInv'
<1> USE DEF peerVars, bufferVars, sliceVars, historyVars, Goto, LengthInv
<1>0. /\ HEADER_SIZE \in Nat /\ HEADER_SIZE >= 1 /\ m_size \in Nat /\ m_position \in Int
      /\ NoMessage.bytes = << >> /\ Len(NoMessage.bytes) = 0
  BY Numbers, SentSizes DEF NoMessage
<1>1. CASE \/ OnReadReady \/ PullMessages \/ LoadFd \/ RecvAgain \/ OnNetworkMessage
           \/ ReceiveNothing \/ HandlerReturn
           \/ SenderClosesFd \/ SenderForgetsFd
           \/ \E payload \in Payloads : PeerSends(payload)
           \/ \E how \in Endings : PeerEnds(how)
  <2>1. UNCHANGED << mode, bufferVars, m_current_message >> /\ (rpc' = rpc \/ rpc' # "body")
    BY <1>1 DEF OnReadReady, PullMessages, LoadFd, RecvAgain, OnNetworkMessage, ReceiveAgain,
         ReceiveNothing, HandlerReturn, SenderClosesFd, SenderForgetsFd, PeerSends, PeerEnds
  <2> QED
    BY <2>1
<1>2. ASSUME NEW n \in 1 .. MAX_SIZE, RecvData(n) \/ RecvForeign(n) PROVE LengthInv'
  <2>1. m_size' = 0 /\ rpc' = "fill" /\ UNCHANGED << mode, m_current_message >>
    BY <1>2 DEF RecvData, RecvForeign, BufferInv
  <2>2. ~ (m_size' > 0)
    BY <2>1
  <2> QED
    BY <2>1, <2>2
<1>6. CASE FillBuffer
  <2>1. m_position' = 0 /\ rpc' = "header" /\ UNCHANGED << mode, m_current_message >>
    BY <1>6 DEF FillBuffer
  <2> QED
    BY <2>1
<1>3. CASE RecvEnds \/ RecvFails \/ SenderResetsBuffer \/ SliceStream
  <2>1. /\ m_size' = 0 /\ UNCHANGED << mode, m_current_message >>
        /\ rpc' = rpc \/ rpc' # "body"
    BY <1>0, <1>3 DEF RecvEnds, RecvFails, SenderResetsBuffer, SliceStream, BufferConsumed,
         CloseFast, ResetBuffer, EndReturns, BufferInv
  <2>2. ~ (m_size' > 0)
    BY <2>1
  <2> QED
    BY <2>1, <2>2
<1>4. CASE ReadHeader
  <2>1. mode = "Datagram" /\ mode' = mode
    BY <1>4, HeaderDoes
  <2>2. \/ m_current_message' = m_current_message
        \/ m_current_message' = NoMessage
        \/ \E n \in Nat :
              /\ Len(Read(n)) < HEADER_SIZE
              /\ m_current_message' = [length |-> m_current_message.length, bytes |-> Read(n)]
        \/ \E n \in Nat :
              /\ Len(Read(n)) = HEADER_SIZE
              /\ \E length \in Decode(Read(n)) :
                    /\ length > HEADER_SIZE
                    /\ m_current_message' = [length |-> length, bytes |-> Read(n)]
    BY <1>4, HeaderDoes
  <2>3. Len(m_current_message'.bytes) >= HEADER_SIZE =>
          /\ HEADER_SIZE < m_current_message'.length
          /\ Len(m_current_message'.bytes) < m_current_message'.length
    <3>1. CASE m_current_message' = m_current_message
      BY <3>1
    <3>2. CASE m_current_message' = NoMessage
      BY <1>0, <3>2
    <3>3. ASSUME NEW n \in Nat, Len(Read(n)) < HEADER_SIZE,
                 m_current_message' = [length |-> m_current_message.length, bytes |-> Read(n)]
          PROVE  ~ (Len(m_current_message'.bytes) >= HEADER_SIZE)
      BY <1>0, <3>3, ReadBytes
    <3>4. ASSUME NEW n \in Nat, Len(Read(n)) = HEADER_SIZE, NEW length \in Decode(Read(n)),
                 length > HEADER_SIZE,
                 m_current_message' = [length |-> length, bytes |-> Read(n)]
          PROVE  /\ HEADER_SIZE < m_current_message'.length
                 /\ Len(m_current_message'.bytes) < m_current_message'.length
      <4>1. length \in Nat
        BY SentSizes, SizesAssumption DEF Decode, FrameLength
      <4> QED
        BY <1>0, <3>4, <4>1
    <3> QED
      BY <2>2, <3>1, <3>2, <3>3, <3>4
  <2> QED
    BY <2>1, <2>3
<1>5. CASE ReadBody
  <2>1. mode = "Datagram" /\ mode' = mode
    BY <1>5, BodyDoes
  <2>2. PICK n \in Nat :
           /\ Len(m_current_message.bytes) < HEADER_SIZE => n = 0
           /\ \/ /\ Len(Read(n)) < HEADER_SIZE \/ Len(Read(n)) < m_current_message.length
                 /\ m_current_message' = [length |-> m_current_message.length, bytes |-> Read(n)]
              \/ m_current_message' = NoMessage
    BY <1>5, BodyDoes
  <2>3. Len(m_current_message'.bytes) >= HEADER_SIZE =>
          /\ HEADER_SIZE < m_current_message'.length
          /\ Len(m_current_message'.bytes) < m_current_message'.length
    <3>1. CASE m_current_message' = NoMessage
      BY <1>0, <3>1
    <3>2. CASE /\ Len(Read(n)) < HEADER_SIZE \/ Len(Read(n)) < m_current_message.length
               /\ m_current_message' = [length |-> m_current_message.length, bytes |-> Read(n)]
      <4>1. /\ Len(m_current_message.bytes) \in Nat
            /\ Len(Read(n)) = Len(m_current_message.bytes) + n
        BY ReadBytes
      <4>2. /\ m_current_message'.length = m_current_message.length
            /\ m_current_message'.bytes = Read(n)
        BY <3>2
      <4>3. ~ (Len(Read(n)) < HEADER_SIZE) => ~ (Len(m_current_message.bytes) < HEADER_SIZE)
        BY <1>0, <2>2, <4>1
      <4> QED
        BY <1>0, <3>2, <4>1, <4>2, <4>3
    <3> QED
      BY <2>2, <3>1, <3>2
  <2> QED
    BY <2>1, <2>3
<1> QED
  BY <1>1, <1>2, <1>3, <1>4, <1>5, <1>6 DEF Next, Reader

\* Every step of a handler that ends has passed everything on.
LEMMA EndStep ==
    ASSUME TypeOK, BufferInv, EndInv, Next
    PROVE  EndInv'
<1> USE DEF peerVars, bufferVars, sliceVars, historyVars, Goto, EndInv
<1>1. CASE OnReadReady
  BY <1>1 DEF OnReadReady
<1>2. CASE PullMessages
  BY <1>2 DEF PullMessages
<1>3. ASSUME NEW n \in 1 .. MAX_SIZE, RecvData(n) \/ RecvForeign(n) PROVE EndInv'
  BY <1>3 DEF RecvData, RecvForeign
<1>17. CASE LoadFd \/ FillBuffer
  BY <1>17 DEF LoadFd, FillBuffer
<1>4. CASE RecvAgain
  BY <1>4 DEF RecvAgain
<1>5. CASE RecvEnds
  BY <1>5 DEF RecvEnds, EndReturns
<1>6. CASE RecvFails
  BY <1>6 DEF RecvFails, NumberFreed
<1>7. CASE ReadHeader
  BY <1>7, HeaderDoes
<1>8. CASE ReadBody
  BY <1>8 DEF ReadBody
<1>9. CASE SliceStream
  BY <1>9 DEF SliceStream
<1>10. CASE OnNetworkMessage
  BY <1>10 DEF OnNetworkMessage, ReceiveAgain
<1>11. CASE ReceiveNothing
  BY <1>11 DEF ReceiveNothing
<1>12. CASE HandlerReturn
  BY <1>12 DEF HandlerReturn
<1>13. CASE SenderClosesFd
  BY <1>13 DEF SenderClosesFd
<1>18. CASE SenderForgetsFd
  BY <1>18 DEF SenderForgetsFd
<1>14. CASE SenderResetsBuffer
  BY <1>14 DEF SenderResetsBuffer, BufferInv
<1>15. ASSUME NEW payload \in Payloads, PeerSends(payload) PROVE EndInv'
  BY <1>15 DEF PeerSends
<1>16. ASSUME NEW how \in Endings, PeerEnds(how) PROVE EndInv'
  BY <1>16 DEF PeerEnds
<1> QED
  BY <1>1, <1>2, <1>3, <1>4, <1>5, <1>6, <1>7, <1>8, <1>9, <1>10, <1>11, <1>12, <1>13,
     <1>14, <1>15, <1>16, <1>17, <1>18 DEF Next, Reader

\* Only the peer adds to its bytes, and what it adds continues them.
LEMMA BytesStep ==
    ASSUME TypeOK, BufferInv, BytesInv, Next
    PROVE  BytesInv'
<1>1. CASE UNCHANGED sent
  BY <1>1, ByteSeqSame, CursorSame DEF BytesInv
<1>2. ASSUME NEW payload \in Payloads, PeerSends(payload) PROVE BytesInv'
  BY <1>2, BytesGrow
<1>3. UNCHANGED sent \/ \E payload \in Payloads : PeerSends(payload)
  BY Zenon DEF Next, Reader, OnReadReady, PullMessages, LoadFd, RecvData, RecvForeign, FillBuffer, RecvAgain,
     RecvEnds, RecvFails,
     ReadHeader, ReadBody, SliceStream, OnNetworkMessage, ReceiveNothing, HandlerReturn,
     SenderClosesFd, SenderForgetsFd, SenderResetsBuffer, PeerEnds, peerVars, historyVars
<1> QED
  BY <1>1, <1>2, <1>3

----------------------------------------------------------------------------
(* Stream mode.                                                             *)

\* What was passed on, and what is about to be, are sequences of bytes.
LEMMA SlicedType ==
    ASSUME TypeOK
    PROVE  /\ FlattenSeq(delivered) \in Seq(Byte)
           /\ FlattenSeq(m_messages) \in Seq(Byte)
           /\ Sliced \in Seq(Byte)
<1>1. delivered \in Seq(Seq(Byte)) /\ m_messages \in Seq(Seq(Byte))
  BY DEF TypeOK, Byte
<1>2. FlattenSeq(delivered) \in Seq(Byte) /\ FlattenSeq(m_messages) \in Seq(Byte)
  BY <1>1, FlattenType
<1> QED
  BY <1>2, CatType DEF Sliced

\* A message that becomes complete is added.
LEMMA SlicedGrows ==
    ASSUME TypeOK, NEW b \in Seq(Byte), delivered' = delivered,
           m_messages' = Append(m_messages, b)
    PROVE  Sliced' = Cat(Sliced, b)
<1>1. m_messages \in Seq(Seq(Byte))
  BY DEF TypeOK, Byte
<1>2. FlattenSeq(Append(m_messages, b)) = Cat(FlattenSeq(m_messages), b)
  BY <1>1, FlattenAppend DEF Cat
<1>3. Sliced' = Cat(FlattenSeq(delivered), Cat(FlattenSeq(m_messages), b))
  BY <1>2 DEF Sliced
<1> QED
  BY <1>3, SlicedType, CatAssociative DEF Sliced

\* Passing a message on changes nothing.
LEMMA SlicedMoves ==
    ASSUME TypeOK, OnNetworkMessage
    PROVE  Sliced' = Sliced
<1> DEFINE h == Head(m_messages)
           t == Tail(m_messages)
<1>1. /\ delivered \in Seq(Seq(Byte)) /\ m_messages \in Seq(Seq(Byte))
      /\ m_messages # << >>
      /\ delivered' = Append(delivered, h) /\ m_messages' = t
  BY DEF TypeOK, Byte, OnNetworkMessage
<1>2. h \in Seq(Byte) /\ t \in Seq(Seq(Byte))
  BY <1>1, HeadTailProperties
<1>3. FlattenSeq(m_messages) = Cat(h, FlattenSeq(t))
  BY <1>1, FlattenTail DEF Cat
<1> HIDE DEF h, t
<1>4. FlattenSeq(Append(delivered, h)) = Cat(FlattenSeq(delivered), h)
  BY <1>1, <1>2, FlattenAppend DEF Cat
<1>5. FlattenSeq(t) \in Seq(Byte) /\ FlattenSeq(delivered) \in Seq(Byte)
  BY <1>2, FlattenType, SlicedType
<1>6. Sliced' = Cat(Cat(FlattenSeq(delivered), h), FlattenSeq(t))
  BY <1>1, <1>4 DEF Sliced
<1>7. Cat(Cat(FlattenSeq(delivered), h), FlattenSeq(t))
         = Cat(FlattenSeq(delivered), Cat(h, FlattenSeq(t)))
  BY <1>2, <1>5, CatAssociative
<1> QED
  BY <1>3, <1>6, <1>7 DEF Sliced

\* Every step keeps what was passed on a prefix of what was sent.
LEMMA StreamStep ==
    ASSUME TypeOK, BytesInv, BufferInv, LengthInv, StreamInv, Next
    PROVE  StreamInv'
<1> USE DEF peerVars, bufferVars, sliceVars, historyVars, Goto
<1> SUFFICES ASSUME mode = "Stream", mode' = mode PROVE StreamInv'
  <2>1. mode' = mode
    BY Zenon DEF Next, Reader, OnReadReady, PullMessages, LoadFd, RecvData, RecvForeign, FillBuffer,
       RecvAgain, RecvEnds, RecvFails, ReadHeader, ReadBody, SliceStream, OnNetworkMessage,
       ReceiveNothing, HandlerReturn, SenderClosesFd, SenderForgetsFd, SenderResetsBuffer,
       PeerSends, PeerEnds
  <2> QED
    BY <2>1 DEF StreamInv
<1>0. /\ m_size \in Nat /\ taken \in Nat /\ Len(ByteSeq) \in Nat /\ taken <= Len(ByteSeq)
      /\ foreign \in Nat /\ Sliced \in Seq(Byte) /\ Len(Sliced) \in Nat
  BY Numbers, SlicedType
<1> DEFINE AddsUp == cpc # "done" \/ m_size > 0 \/ rpc \in {"recv", "fill"}
<1>1. /\ Len(Sliced) <= taken + foreign
      /\ \A i \in 1 .. Len(Sliced) : Sliced[i] = Got(i)
      /\ AddsUp => Len(Sliced) + m_size = taken + foreign
  BY DEF StreamInv
<1>9. ASSUME UNCHANGED << taken, foreign >>, \A i \in 1 .. Len(Sliced) : Got(i)' = Got(i),
             Sliced' = Sliced, AddsUp' => AddsUp /\ m_size' = m_size
      PROVE  StreamInv'
  BY <1>1, <1>9 DEF StreamInv
<1>10. UNCHANGED << sent, taken >> => \A i : Got(i)' = Got(i)
  BY ByteSeqSame DEF Got
<1>2. CASE \/ OnReadReady \/ PullMessages \/ LoadFd \/ RecvAgain \/ ReceiveNothing \/ HandlerReturn
           \/ SenderClosesFd \/ SenderForgetsFd
           \/ \E n \in 1 .. MAX_SIZE : RecvData(n) \/ RecvForeign(n)
           \/ \E how \in Endings : PeerEnds(how)
  <2>1. UNCHANGED << sent, taken, foreign, m_size, m_messages, delivered >>
    BY <1>2 DEF OnReadReady, PullMessages, LoadFd, RecvAgain, ReceiveNothing, HandlerReturn,
       SenderClosesFd, SenderForgetsFd, RecvData, RecvForeign, PeerEnds
  <2>2. Sliced' = Sliced
    BY <2>1 DEF Sliced
  <2>3. AddsUp' => AddsUp
    <3>1. CASE LoadFd
      BY <3>1 DEF LoadFd, BufferInv
    <3>2. CASE \E n \in 1 .. MAX_SIZE : RecvData(n) \/ RecvForeign(n)
      BY <3>2 DEF RecvData, RecvForeign
    <3>3. CASE \/ OnReadReady \/ PullMessages \/ RecvAgain \/ ReceiveNothing \/ HandlerReturn
               \/ SenderClosesFd \/ SenderForgetsFd
               \/ \E how \in Endings : PeerEnds(how)
      BY <3>3 DEF OnReadReady, PullMessages, RecvAgain, ReceiveNothing, HandlerReturn,
         SenderClosesFd, SenderForgetsFd, PeerEnds
    <3> QED
      BY <1>2, <3>1, <3>2, <3>3
  <2> QED
    BY <1>9, <1>10, <2>1, <2>2, <2>3
<1>3. CASE FillBuffer
  <2> DEFINE n == Len(m_data)
  <2>1. /\ UNCHANGED << sent, m_messages, delivered, cpc >>
        /\ m_size = 0 /\ m_size' = n /\ n \in Nat
        /\ \/ taken' = taken + n /\ foreign = 0 /\ UNCHANGED foreign
           \/ UNCHANGED taken /\ foreign' = foreign + n
    BY <1>3, FillDoes
  <2>2. Sliced' = Sliced /\ ByteSeq' = ByteSeq
    BY <2>1, ByteSeqSame DEF Sliced
  <2>3. Len(Sliced) = taken + foreign
    BY <1>0, <1>1, <1>3, <2>1 DEF FillBuffer
  <2> HIDE DEF n
  <2>4. Len(Sliced) <= taken' + foreign' /\ Len(Sliced) + m_size' = taken' + foreign'
    BY <1>0, <2>1, <2>3
  <2>5. \A i \in 1 .. Len(Sliced) : Got(i)' = Got(i)
    <3>1. CASE UNCHANGED taken
      BY <1>10, <2>1, <3>1
    <3>2. CASE taken' = taken + n /\ foreign = 0
      <4>1. \A i \in 1 .. Len(Sliced) : i <= taken /\ i <= taken'
        BY <1>0, <2>1, <2>3, <3>2
      <4> QED
        BY <2>2, <4>1 DEF Got
    <3> QED
      BY <2>1, <3>1, <3>2
  <2> QED
    BY <1>1, <2>2, <2>4, <2>5 DEF StreamInv
<1>4. CASE RecvEnds \/ RecvFails \/ SenderResetsBuffer
  <2>1. UNCHANGED << sent, taken, foreign, m_messages, delivered >>
    BY <1>4 DEF RecvEnds, RecvFails, SenderResetsBuffer
  <2>2. Sliced' = Sliced
    BY <2>1 DEF Sliced
  <2>3. AddsUp' => AddsUp /\ m_size' = m_size
    <3>1. CASE RecvEnds \/ RecvFails
      <4>1. m_size = 0 /\ m_size' = 0 /\ UNCHANGED cpc /\ rpc' \notin {"recv", "fill"}
        BY <3>1 DEF RecvEnds, RecvFails, CloseFast, ResetBuffer, BufferInv, EndReturns
      <4> QED
        BY <4>1
    <3>2. CASE SenderResetsBuffer
      <4>1. m_size' = 0 /\ cpc = "reset" /\ cpc' = "done" /\ UNCHANGED rpc
        BY <3>2 DEF SenderResetsBuffer, ResetBuffer
      <4>2. rpc \in {"recv", "fill"} => m_size = 0
        BY DEF BufferInv
      <4> QED
        BY <4>1, <4>2
    <3> QED
      BY <1>4, <3>1, <3>2
  <2> QED
    BY <1>9, <1>10, <2>1, <2>2, <2>3
<1>5. CASE ReadHeader \/ ReadBody
  BY <1>5, HeaderDoes, BodyDoes
<1>6. CASE SliceStream
  <2>1. /\ UNCHANGED << sent, taken, foreign, delivered, cpc >>
        /\ m_size' = 0 /\ rpc' = "pull"
        /\ \/ /\ m_size > 0 \/ cpc = "done"
              /\ m_messages' = Append(m_messages, BytesAt(0, m_size))
           \/ m_size = 0 /\ m_messages' = m_messages
    BY <1>6 DEF SliceStream, BufferConsumed, ResetBuffer
  <2>2. \A i : Got(i)' = Got(i)
    BY <1>10, <2>1
  <2>3. CASE m_size = 0 /\ m_messages' = m_messages
    <3>1. Sliced' = Sliced
      BY <2>1, <2>3 DEF Sliced
    <3> QED
      BY <1>9, <2>1, <2>2, <2>3, <3>1
  <2>4. CASE m_messages' = Append(m_messages, BytesAt(0, m_size))
    <3> DEFINE b == BytesAt(0, m_size)
    <3>1. /\ b \in Seq(Byte) /\ Len(b) = m_size
          /\ \A i \in 1 .. m_size : b[i] = ByteAt(0 + i - 1)
      <4>1. 0 \in Int
        OBVIOUS
      <4> QED
        BY <1>0, <4>1, BytesAtType, Zenon
    <3>2. \A i \in 1 .. m_size : b[i] = Got(Len(Sliced) + i)
      <4> SUFFICES ASSUME NEW i \in 1 .. m_size PROVE b[i] = Got(Len(Sliced) + i)
        OBVIOUS
      <4>0. m_size > 0
        BY <1>0
      <4>1. Len(m_data) = m_size /\ m_data[i] = Got(taken + foreign - m_size + i)
        BY <4>0 DEF BufferInv
      <4>2. 0 + i - 1 \in 0 .. Len(m_data) - 1 /\ (0 + i - 1) + 1 = i
        BY <1>0, <4>1
      <4>3. b[i] = m_data[i]
        <5>1. b[i] = ByteAt(0 + i - 1)
          BY <3>1, Zenon
        <5> QED
          BY <4>2, <5>1 DEF ByteAt
      <4>4. taken + foreign - m_size + i = Len(Sliced) + i
        BY <1>0, <1>1, <4>0
      <4> QED
        BY <4>1, <4>3, <4>4
    <3> HIDE DEF b
    <3>3. Sliced' = Cat(Sliced, b)
      BY <2>1, <2>4, <3>1, SlicedGrows DEF b
    <3>4. /\ Len(Sliced') = Len(Sliced) + m_size
          /\ \A i \in 1 .. Len(Sliced) : Sliced'[i] = Sliced[i]
          /\ \A i \in 1 .. m_size : Sliced'[Len(Sliced) + i] = b[i]
      <4>0. Sliced \in Seq(Byte) /\ b \in Seq(Byte)
        BY <3>1, SlicedType
      <4>1. /\ Len(Sliced') = Len(Sliced) + Len(b)
            /\ \A i \in 1 .. Len(Sliced) : Sliced'[i] = Sliced[i]
            /\ \A i \in 1 .. Len(b) : Sliced'[Len(Sliced) + i] = b[i]
        BY <3>3, <4>0, GrowsBy
      <4> QED
        BY <3>1, <4>1
    <3>5. Len(Sliced') <= taken + foreign /\ (cpc # "done" => Len(Sliced') = taken + foreign)
      <4>1. CASE m_size > 0
        BY <1>0, <1>1, <3>4, <4>1
      <4>2. CASE m_size = 0
        <5>1. Len(Sliced') = Len(Sliced)
          BY <1>0, <3>4, <4>2
        <5> QED
          BY <1>0, <1>1, <4>2, <5>1
      <4> QED
        BY <1>0, <4>1, <4>2
    <3>6. ASSUME NEW i \in 1 .. Len(Sliced') PROVE Sliced'[i] = Got(i)
      <4>1. CASE i <= Len(Sliced)
        <5>1. i \in 1 .. Len(Sliced)
          BY <1>0, <3>4, <4>1
        <5> QED
          BY <1>1, <3>4, <5>1
      <4>2. CASE ~ (i <= Len(Sliced))
        <5> DEFINE j == i - Len(Sliced)
        <5>1. j \in 1 .. m_size /\ i = Len(Sliced) + j
          BY <1>0, <3>4, <4>2
        <5> HIDE DEF j
        <5> QED
          BY <3>2, <3>4, <5>1
      <4> QED
        BY <4>1, <4>2
    <3>7. /\ Len(Sliced') <= taken' + foreign'
          /\ AddsUp' => Len(Sliced') + m_size' = taken' + foreign'
      <4>1. AddsUp' => cpc # "done"
        BY <2>1
      <4>2. Len(Sliced') \in Nat
        BY <1>0, <3>4
      <4> QED
        BY <1>0, <2>1, <3>5, <4>1, <4>2
    <3> QED
      BY <2>2, <3>6, <3>7 DEF StreamInv
  <2> QED
    BY <2>1, <2>3, <2>4
<1>7. CASE OnNetworkMessage
  <2>1. UNCHANGED << sent, taken, foreign, m_size, cpc >> /\ rpc' = "pull"
    BY <1>7 DEF OnNetworkMessage, ReceiveAgain
  <2>2. AddsUp' => AddsUp /\ m_size' = m_size
    BY <2>1
  <2> QED
    BY <1>7, <1>9, <1>10, <2>1, <2>2, SlicedMoves
<1>8. ASSUME NEW payload \in Payloads, PeerSends(payload) PROVE StreamInv'
  <2>1. UNCHANGED << taken, foreign, m_size, m_messages, delivered, rpc, cpc >>
    BY <1>8 DEF PeerSends
  <2>2. Sliced' = Sliced
    BY <2>1 DEF Sliced
  <2>3. \A i \in 1 .. Len(Sliced) : Got(i)' = Got(i)
    <3>1. \A i \in 1 .. Len(Sliced) : i <= taken => i \in 1 .. Len(ByteSeq)
      BY <1>0, <1>1
    <3>2. \A q \in 1 .. Len(ByteSeq) : ByteSeq'[q] = ByteSeq[q]
      BY <1>8, CursorGrows
    <3> QED
      BY <2>1, <3>1, <3>2 DEF Got
  <2> QED
    BY <1>9, <2>1, <2>2, <2>3
<1> QED
  BY <1>2, <1>3, <1>4, <1>5, <1>6, <1>7, <1>8 DEF Next, Reader

\* A sequence that agrees with the beginning of another one is its prefix.
LEMMA PrefixByElements ==
    ASSUME NEW S, NEW a \in Seq(S), NEW b \in Seq(S), Len(a) <= Len(b),
           \A i \in 1 .. Len(a) : a[i] = b[i]
    PROVE  a = SubSeq(b, 1, Len(a)) /\ IsPrefix(a, b)
<1>1. Len(a) \in Nat /\ Len(b) \in Nat
  OBVIOUS
<1>2. /\ SubSeq(b, 1, Len(a)) \in Seq(S)
      /\ Len(SubSeq(b, 1, Len(a))) = Len(a)
      /\ \A i \in 1 .. Len(a) : SubSeq(b, 1, Len(a))[i] = b[i]
  BY <1>1
<1>3. a = SubSeq(b, 1, Len(a))
  <2> DEFINE c == SubSeq(b, 1, Len(a))
  <2> HIDE DEF c
  <2>1. c \in Seq(S) /\ Len(c) = Len(a) /\ \A i \in 1 .. Len(a) : a[i] = c[i]
    BY <1>2 DEF c
  <2>2. a = c
    BY <2>1, SeqEqual
  <2> QED
    BY <2>2 DEF c
<1>4. SubSeq(a, 1, Len(a)) = a
  BY SubSeqFull
<1> QED
  BY <1>3, <1>4 DEF IsPrefix

\* What was received, byte by byte.
LEMMA ReceivedBytes ==
    ASSUME TypeOK
    PROVE  /\ Received \in Seq(Byte) /\ Len(Received) = taken + foreign
           /\ \A i \in 1 .. taken + foreign : Received[i] = Got(i)
<1> DEFINE a == SubSeq(ByteSeq, 1, taken)
           b == [i \in 1 .. foreign |-> Junk]
<1>0. taken \in Nat /\ Len(ByteSeq) \in Nat /\ taken <= Len(ByteSeq) /\ foreign \in Nat
  BY Numbers
<1>1. a \in Seq(Byte) /\ Len(a) = taken /\ \A i \in 1 .. taken : a[i] = ByteSeq[i]
  BY <1>0, ByteSeqType
<1>2. b \in Seq(Byte) /\ Len(b) = foreign /\ \A i \in 1 .. foreign : b[i] = Junk
  BY <1>0 DEF Junk, Byte
<1>3. Received = Cat(a, b)
  BY DEF Received, Cat
<1> HIDE DEF a, b
<1>4. /\ Len(Received) = taken + foreign /\ Received \in Seq(Byte)
      /\ \A i \in 1 .. taken : Received[i] = a[i]
      /\ \A i \in 1 .. foreign : Received[taken + i] = b[i]
  <2>0. a \in Seq(Byte) /\ b \in Seq(Byte)
    BY <1>1, <1>2
  <2>1. /\ Len(Received) = Len(a) + Len(b)
        /\ \A i \in 1 .. Len(a) : Received[i] = a[i]
        /\ \A i \in 1 .. Len(b) : Received[Len(a) + i] = b[i]
    BY <1>3, <2>0, GrowsBy
  <2>2. Received \in Seq(Byte)
    BY <1>3, <2>0, CatType
  <2> QED
    BY <1>1, <1>2, <2>1, <2>2
<1>5. ASSUME NEW i \in 1 .. taken + foreign PROVE Received[i] = Got(i)
  <2>1. CASE i <= taken
    <3>1. i \in 1 .. taken
      BY <1>0, <2>1
    <3> QED
      BY <1>1, <1>4, <2>1, <3>1 DEF Got
  <2>2. CASE ~ (i <= taken)
    <3> DEFINE j == i - taken
    <3>1. j \in 1 .. foreign /\ i = taken + j
      BY <1>0, <2>2
    <3> HIDE DEF j
    <3> QED
      BY <1>2, <1>4, <2>2, <3>1 DEF Got
  <2> QED
    BY <2>1, <2>2
<1> QED
  BY <1>4, <1>5

\* The invariant says that the stream is intact.
LEMMA StreamIsIntact ==
    ASSUME TypeOK, BufferInv, LengthInv, StreamInv
    PROVE  StreamIntact
<1>00. foreign > 0 => NumberFreed
  BY DEF BufferInv, NumberFreed
<1> SUFFICES ASSUME mode = "Stream"
             PROVE  /\ IsPrefix(Sliced, Received)
                    /\ cpc # "done" => Sliced \o Unprocessed = Received
  BY <1>00 DEF StreamIntact, Sliced, Cat
<1>0. /\ m_size \in Nat /\ taken \in Nat /\ foreign \in Nat
      /\ Sliced \in Seq(Byte) /\ Len(Sliced) \in Nat /\ Received \in Seq(Byte)
      /\ m_data \in Seq(Byte)
  BY Numbers, SlicedType, ReceivedBytes DEF TypeOK, Byte
<1>1. /\ Len(Sliced) <= taken + foreign
      /\ \A i \in 1 .. Len(Sliced) : Sliced[i] = Got(i)
      /\ cpc # "done" => Len(Sliced) + m_size = taken + foreign
  BY DEF StreamInv
<1>2. /\ Len(Received) = taken + foreign
      /\ \A i \in 1 .. taken + foreign : Received[i] = Got(i)
  BY ReceivedBytes
<1>3. IsPrefix(Sliced, Received)
  <2>1. \A i \in 1 .. Len(Sliced) : i \in 1 .. taken + foreign
    BY <1>0, <1>1
  <2>2. \A i \in 1 .. Len(Sliced) : Sliced[i] = Received[i]
    BY <1>1, <1>2, <2>1
  <2> QED
    BY <1>0, <1>1, <1>2, <2>2, PrefixByElements
<1>4. ASSUME cpc # "done" PROVE Cat(Sliced, Unprocessed) = Received
  <2>1. /\ Unprocessed \in Seq(Byte) /\ Len(Unprocessed) = m_size
        /\ \A i \in 1 .. m_size : Unprocessed[i] = Got(taken + foreign - m_size + i)
    <3>1. CASE m_size = 0
      BY <3>1 DEF Unprocessed
    <3>2. CASE m_size # 0
      <4>1. /\ m_position = 0 /\ Len(m_data) = m_size
            /\ \A p \in 1 .. m_size : m_data[p] = Got(taken + foreign - m_size + p)
        BY <1>0, <3>2 DEF BufferInv, LengthInv
      <4>2. Unprocessed = SubSeq(m_data, 1, Len(m_data))
        BY <3>2, <4>1 DEF Unprocessed
      <4>3. Unprocessed = m_data
        BY <1>0, <4>2, SubSeqFull
      <4> QED
        BY <1>0, <4>1, <4>3
    <3> QED
      BY <3>1, <3>2
  <2> DEFINE all == Cat(Sliced, Unprocessed)
  <2> HIDE DEF all
  <2>2. /\ Len(all) = Len(Sliced) + m_size
        /\ \A i \in 1 .. Len(Sliced) : all[i] = Sliced[i]
        /\ \A i \in 1 .. m_size : all[Len(Sliced) + i] = Unprocessed[i]
    <3>0. Sliced \in Seq(Byte) /\ Unprocessed \in Seq(Byte)
      BY <2>1, SlicedType
    <3>1. /\ Len(all) = Len(Sliced) + Len(Unprocessed)
          /\ \A i \in 1 .. Len(Sliced) : all[i] = Sliced[i]
          /\ \A i \in 1 .. Len(Unprocessed) : all[Len(Sliced) + i] = Unprocessed[i]
      BY <3>0, GrowsBy DEF all
    <3> QED
      BY <2>1, <3>1
  <2>3. Len(all) = taken + foreign /\ all \in Seq(Byte)
    BY <1>0, <1>1, <1>4, <2>1, <2>2, CatType DEF all
  <2>4. ASSUME NEW i \in 1 .. taken + foreign PROVE all[i] = Got(i)
    <3>1. CASE i <= Len(Sliced)
      <4>1. i \in 1 .. Len(Sliced)
        BY <1>0, <3>1
      <4> QED
        BY <1>1, <2>2, <4>1
    <3>2. CASE ~ (i <= Len(Sliced))
      <4> DEFINE j == i - Len(Sliced)
      <4>1. /\ j \in 1 .. m_size /\ i = Len(Sliced) + j /\ taken + foreign - m_size + j = i
        <5>1. Len(Sliced) + m_size = taken + foreign
          BY <1>1, <1>4
        <5> QED
          BY <1>0, <3>2, <5>1
      <4> HIDE DEF j
      <4>2. all[i] = Unprocessed[j] /\ Unprocessed[j] = Got(taken + foreign - m_size + j)
        BY <2>1, <2>2, <4>1
      <4> QED
        BY <4>1, <4>2
    <3> QED
      BY <3>1, <3>2
  <2>5. \A i \in 1 .. Len(all) : all[i] = Received[i]
    BY <1>2, <2>3, <2>4
  <2>6. all = Received
    BY <1>0, <1>2, <2>3, <2>5, SeqEqual
  <2> QED
    BY <2>6 DEF all
<1> QED
  BY <1>3, <1>4 DEF Cat

----------------------------------------------------------------------------
(* Datagram mode.                                                           *)

\* As long as no sender closes the socket, recv() reads no other file.
LEMMA NothingForeign ==
    ASSUME "Datagram" \notin SenderCloses, mode = "Datagram", TypeOK, BufferInv
    PROVE  cpc = "none" /\ foreign = 0
  BY DEF TypeOK, BufferInv

\* The bytes processed are bytes of the peer.
LEMMA ProcessedIn ==
    ASSUME TypeOK, BufferInv, foreign = 0
    PROVE  /\ Processed \in Nat /\ Processed <= taken /\ Processed <= Len(ByteSeq)
           /\ m_size > 0 => Processed = taken - m_size + m_position
           /\ m_size = 0 => Processed = taken
  BY Numbers DEF Processed, BufferInv

\* The frame that is read, which is one of the peer or the next one.
LEMMA FrameInProgress ==
    ASSUME TypeOK, BytesInv, BufferInv, foreign = 0, NEW f, InFrame(f)
    PROVE  /\ f \in Nat /\ f \in 1 .. Len(sent) + 1
           /\ Processed < Len(ByteSeq) => f \in 1 .. Len(sent)
           /\ f \notin 1 .. Len(sent) => Len(m_current_message.bytes) = 0
<1> DEFINE len == Len(m_current_message.bytes)
<1>1. len \in Nat
  BY ReadBytes DEF TypeOK
<1>2. Processed \in 0 .. Len(ByteSeq)
  BY ProcessedIn, Numbers
<1>3. PICK g \in 1 .. Len(sent) + 1, k \in Nat :
         /\ Cursor(Processed) = << g, k + 1 >>
         /\ Processed < Len(ByteSeq) => g \in 1 .. Len(sent)
         /\ Processed = Len(ByteSeq) => g = Len(sent) + 1 /\ k = 0
  BY <1>2, CursorType
<1>4. Cursor(Processed) = << f, len + 1 >>
  BY DEF InFrame
<1>5. f = g /\ len + 1 = k + 1
  BY <1>3, <1>4
<1>6. len = k
  <2> HIDE DEF len
  <2> QED
    BY <1>1, <1>3, <1>5
<1> QED
  BY <1>2, <1>3, <1>5, <1>6, Numbers, SentSizes

\* Reading n bytes that are in the frame.
LEMMA ReadMoves ==
    ASSUME TypeOK, BytesInv, BufferInv, foreign = 0, m_size > 0, NEW f, InFrame(f),
           NEW n \in Nat, n <= m_size - m_position,
           n > 0 /\ f \in 1 .. Len(sent) => Len(m_current_message.bytes) + n <= sent[f]
    PROVE  /\ Len(Read(n)) = Len(m_current_message.bytes) + n
           /\ \A i \in 1 .. Len(Read(n)) : Read(n)[i] = << f, i >>
           /\ n > 0 => f \in 1 .. Len(sent)
           /\ Cursor(Processed + n) = IF n = 0 \/ Len(Read(n)) < sent[f]
                                      THEN << f, Len(Read(n)) + 1 >> ELSE << f + 1, 1 >>
<1> DEFINE k == Len(m_current_message.bytes)
           p == Processed
<1>0. /\ k \in Nat /\ m_size \in Nat /\ m_position \in Int /\ taken \in Nat
      /\ Len(ByteSeq) \in Nat /\ taken <= Len(ByteSeq) /\ m_position >= 0
      /\ p \in Nat /\ p = taken - m_size + m_position
  BY Numbers, ReadBytes, ProcessedIn DEF BufferInv
<1>1. Cursor(p) = << f, k + 1 >> /\ \A i \in 1 .. k : m_current_message.bytes[i] = << f, i >>
  BY DEF InFrame
<1>2. f \in Nat /\ (p < Len(ByteSeq) => f \in 1 .. Len(sent))
  BY FrameInProgress
<1>3. Len(Read(n)) = k + n
  BY ReadBytes
<1> HIDE DEF k, p
<1>4. p + n <= Len(ByteSeq) /\ (n > 0 => p < Len(ByteSeq))
  BY <1>0
<1>5. n > 0 => f \in 1 .. Len(sent) /\ k + n <= sent[f]
  BY <1>2, <1>4 DEF k
<1>6. /\ \A i \in 1 .. n : ByteSeq[p + i] = << f, k + i >>
      /\ Cursor(p + n) = IF n = 0 \/ k + n < sent[f] THEN << f, k + n + 1 >> ELSE << f + 1, 1 >>
  <2>1. /\ p \in Nat /\ f \in Nat /\ k \in Nat /\ p + n <= Len(ByteSeq)
        /\ Cursor(p) = << f, k + 1 >> /\ (n > 0 => k + n <= sent[f])
    BY <1>0, <1>1, <1>2, <1>4, <1>5
  <2>2. PICK q \in Nat, j \in Nat : q = p /\ j = k
    BY <2>1
  <2>3. q + n <= Len(ByteSeq) /\ Cursor(q) = << f, j + 1 >> /\ (n > 0 => j + n <= sent[f])
    BY <2>1, <2>2
  <2>4. InOneFrame(q, n, f, j)
    BY <2>1, <2>3, NextBytes
  <2>5. Cursor(q + n) = IF n = 0 \/ j + n < sent[f] THEN << f, j + n + 1 >> ELSE << f + 1, 1 >>
    BY <2>1, <2>3, NextBytes
  <2> QED
    BY <2>2, <2>4, <2>5 DEF InOneFrame
<1>7. ASSUME NEW i \in 1 .. n PROVE Read(n)[k + i] = << f, k + i >>
  <2>1. Read(n)[k + i] = ByteAt(m_position + i - 1)
    BY <1>7, ReadBytes DEF k
  <2>2. /\ Len(m_data) = m_size
        /\ \A q \in 1 .. m_size : m_data[q] = ByteSeq[taken - m_size + q]
    <3>1. /\ Len(m_data) = m_size
          /\ \A q \in 1 .. m_size : m_data[q] = Got(taken + foreign - m_size + q)
      BY DEF BufferInv
    <3>2. \A q \in 1 .. m_size : /\ taken + foreign - m_size + q = taken - m_size + q
                                 /\ taken - m_size + q <= taken
      BY <1>0
    <3> QED
      BY <3>1, <3>2 DEF Got
  <2>3. /\ m_position + i - 1 \in 0 .. Len(m_data) - 1
        /\ (m_position + i - 1) + 1 = m_position + i
        /\ m_position + i \in 1 .. m_size
        /\ taken - m_size + (m_position + i) = p + i
    BY <1>0, <2>2
  <2>4. ByteAt(m_position + i - 1) = m_data[m_position + i]
    BY <2>3 DEF ByteAt
  <2> QED
    BY <1>6, <2>1, <2>2, <2>3, <2>4
<1>8. ASSUME NEW i \in 1 .. k + n PROVE Read(n)[i] = << f, i >>
  <2>1. CASE i <= k
    <3>1. i \in 1 .. k
      BY <1>0, <2>1
    <3>2. Read(n)[i] = m_current_message.bytes[i]
      BY <3>1, ReadBytes DEF k
    <3> QED
      BY <1>1, <3>1, <3>2
  <2>2. CASE ~ (i <= k)
    <3> DEFINE j == i - k
    <3>1. j \in 1 .. n /\ k + j = i
      BY <1>0, <2>2
    <3> HIDE DEF j
    <3> QED
      BY <1>7, <3>1
  <2> QED
    BY <2>1, <2>2
<1> QED
  BY <1>3, <1>5, <1>6, <1>8 DEF k, p

\* The cursor of the next state.
LEMMA NextCursor == ASSUME NEW p, p = Processed' PROVE Cursor(Processed)' = Cursor(p)'
  BY DEF Cursor, Successor

\* The header in the bytes of frame f holds the length of frame f.
LEMMA DecodeFrame ==
    ASSUME TypeOK, NEW f \in 1 .. Len(sent), NEW h \in Seq(Byte), Len(h) = HEADER_SIZE,
           \A i \in 1 .. HEADER_SIZE : h[i] = << f, i >>
    PROVE  Decode(h) = {sent[f]}
<1>0. HEADER_SIZE \in Nat /\ HEADER_SIZE >= 1
  BY SentSizes
<1>1. h = [i \in 1 .. HEADER_SIZE |-> << f, i >>]
  <2>1. h = [i \in 1 .. HEADER_SIZE |-> h[i]]
    BY LenProperties
  <2> QED
    BY <2>1
<1>2. \A g \in 1 .. Len(sent) : h = [i \in 1 .. HEADER_SIZE |-> << g, i >>] => g = f
  <2> SUFFICES ASSUME NEW g \in 1 .. Len(sent), h = [i \in 1 .. HEADER_SIZE |-> << g, i >>]
               PROVE  g = f
    OBVIOUS
  <2>1. 1 \in 1 .. HEADER_SIZE
    BY <1>0
  <2>2. h[1] = << g, 1 >> /\ h[1] = << f, 1 >>
    BY <2>1
  <2> QED
    BY <2>2
<1> DEFINE ours == {g \in 1 .. Len(sent) : h = [i \in 1 .. HEADER_SIZE |-> << g, i >>]}
<1>3. ours = {f}
  BY <1>1, <1>2
<1>4. Decode(h) = IF ours = {} THEN {FrameLength(p) : p \in Payloads} ELSE {sent[g] : g \in ours}
  BY DEF Decode
<1> HIDE DEF ours
<1> QED
  BY <1>3, <1>4

\* What the message in progress has to be after a step.
LEMMA InFrameNext ==
    ASSUME NEW g, NEW p, p = Processed', UNCHANGED sent,
           Cursor(p) = << g, Len(m_current_message'.bytes) + 1 >>,
           \A i \in 1 .. Len(m_current_message'.bytes) : m_current_message'.bytes[i] = << g, i >>,
           Len(m_current_message'.bytes) >= HEADER_SIZE => m_current_message'.length = sent[g]
    PROVE  InFrame(g)'
<1>1. Cursor(Processed)' = Cursor(p)
  BY NextCursor, CursorSame
<1> QED
  BY <1>1 DEF InFrame

\* The header of frame f: it is read further, or the frame turns out to have
\* no payload and is skipped.
LEMMA HeaderMoves ==
    ASSUME TypeOK, BytesInv, BufferInv, foreign = 0, SliceInv, ReadHeader, NEW f, InFrame(f)
    PROVE  \/ InFrame(f)'
           \/ f \in 1 .. Len(sent) /\ sent[f] <= HEADER_SIZE /\ InFrame(f + 1)'
<1> DEFINE k == Len(m_current_message.bytes)
<1>0. /\ HEADER_SIZE \in Nat /\ HEADER_SIZE >= 1 /\ m_size \in Nat /\ m_position \in Int
      /\ taken \in Nat /\ k \in Nat
      /\ \A g \in 1 .. Len(sent) : sent[g] \in Nat /\ sent[g] >= HEADER_SIZE
  BY Numbers, SentSizes, ReadBytes
<1>1. /\ UNCHANGED << sent, taken, m_size >> /\ m_size > 0 /\ m_position >= 0
      /\ Processed = taken - m_size + m_position
  BY HeaderDoes, ProcessedIn DEF SliceInv, BufferInv, peerVars
<1>2. CASE UNCHANGED << m_current_message, m_position >>
  <2>1. Cursor(Processed)' = Cursor(Processed)
    BY <1>1, <1>2, NextCursor, CursorSame DEF Processed
  <2> QED
    BY <1>1, <1>2, <2>1 DEF InFrame
<1>3. ASSUME NEW n \in Nat, k < HEADER_SIZE, n <= m_size - m_position,
             m_position' = m_position + n, Len(Read(n)) <= HEADER_SIZE
      PROVE  /\ Len(Read(n)) = k + n
             /\ \A i \in 1 .. Len(Read(n)) : Read(n)[i] = << f, i >>
             /\ n > 0 => f \in 1 .. Len(sent)
             /\ Cursor(Processed + n) = IF n = 0 \/ Len(Read(n)) < sent[f]
                                        THEN << f, Len(Read(n)) + 1 >> ELSE << f + 1, 1 >>
             /\ Processed' = Processed + n
  <2>1. Len(Read(n)) = k + n
    BY ReadBytes
  <2>2. n > 0 /\ f \in 1 .. Len(sent) => k + n <= sent[f]
    <3> HIDE DEF k
    <3> QED
      BY <1>0, <1>3, <2>1
  <2>3. Processed' = Processed + n
    <3>1. m_size' > 0 /\ m_size' # 0
      BY <1>0, <1>1
    <3> QED
      BY <1>0, <1>1, <1>3, <3>1 DEF Processed
  <2> QED
    BY <1>1, <1>3, <2>1, <2>2, <2>3, ReadMoves
<1>4. ASSUME NEW n \in Nat, k < HEADER_SIZE, n <= m_size - m_position,
             m_position' = m_position + n, Len(Read(n)) < HEADER_SIZE,
             m_current_message' = [length |-> m_current_message.length, bytes |-> Read(n)]
      PROVE  InFrame(f)'
  <2>1. Len(Read(n)) <= HEADER_SIZE /\ Len(Read(n)) \in Nat
    BY <1>0, <1>4, ReadBytes
  <2>2. /\ \A i \in 1 .. Len(Read(n)) : Read(n)[i] = << f, i >>
        /\ n > 0 => f \in 1 .. Len(sent)
        /\ Cursor(Processed + n) = IF n = 0 \/ Len(Read(n)) < sent[f]
                                   THEN << f, Len(Read(n)) + 1 >> ELSE << f + 1, 1 >>
        /\ Processed' = Processed + n
    BY <1>3, <1>4, <2>1
  <2>3. n = 0 \/ Len(Read(n)) < sent[f]
    BY <1>0, <1>4, <2>1, <2>2
  <2>4. m_current_message'.bytes = Read(n) /\ ~ (Len(Read(n)) >= HEADER_SIZE)
    BY <1>0, <1>4, <2>1
  <2>5. Cursor(Processed + n) = << f, Len(Read(n)) + 1 >>
    BY <2>2, <2>3, Zenon
  <2> QED
    BY <1>1, <2>2, <2>4, <2>5, InFrameNext
<1>5. ASSUME NEW n \in Nat, k < HEADER_SIZE, n <= m_size - m_position,
             m_position' = m_position + n, Len(Read(n)) = HEADER_SIZE,
             NEW length \in Decode(Read(n))
      PROVE  /\ length > HEADER_SIZE /\ m_current_message' = [length |-> length, bytes |-> Read(n)]
                   => InFrame(f)'
             /\ length <= HEADER_SIZE /\ m_current_message' = NoMessage
                   => f \in 1 .. Len(sent) /\ sent[f] <= HEADER_SIZE /\ InFrame(f + 1)'
  <2>1. Len(Read(n)) <= HEADER_SIZE /\ Read(n) \in Seq(Byte)
    BY <1>0, <1>5, ReadBytes
  <2>2. /\ Len(Read(n)) = k + n
        /\ \A i \in 1 .. Len(Read(n)) : Read(n)[i] = << f, i >>
        /\ n > 0 => f \in 1 .. Len(sent)
        /\ Cursor(Processed + n) = IF n = 0 \/ Len(Read(n)) < sent[f]
                                   THEN << f, Len(Read(n)) + 1 >> ELSE << f + 1, 1 >>
        /\ Processed' = Processed + n
    BY <1>3, <1>5, <2>1
  <2>3. n # 0 /\ f \in 1 .. Len(sent) /\ sent[f] \in Nat /\ sent[f] >= HEADER_SIZE
    BY <1>0, <1>5, <2>2
  <2>4. length = sent[f]
    BY <1>5, <2>1, <2>2, <2>3, DecodeFrame
  <2>5. ASSUME length > HEADER_SIZE, m_current_message' = [length |-> length, bytes |-> Read(n)]
        PROVE  InFrame(f)'
    <3>1. Len(Read(n)) < sent[f]
      BY <1>0, <1>5, <2>3, <2>4, <2>5
    <3>2. Cursor(Processed + n) = << f, Len(Read(n)) + 1 >>
      BY <2>2, <3>1, Zenon
    <3>3. m_current_message'.bytes = Read(n) /\ m_current_message'.length = sent[f]
      BY <2>4, <2>5
    <3> QED
      BY <1>1, <2>2, <3>2, <3>3, InFrameNext
  <2>6. ASSUME length <= HEADER_SIZE, m_current_message' = NoMessage
        PROVE  sent[f] <= HEADER_SIZE /\ InFrame(f + 1)'
    <3>1. ~ (n = 0 \/ Len(Read(n)) < sent[f]) /\ sent[f] <= HEADER_SIZE
      BY <1>0, <1>5, <2>3, <2>4, <2>6
    <3>2. Cursor(Processed + n) = << f + 1, 1 >>
      BY <2>2, <3>1, Zenon
    <3>3. Len(m_current_message'.bytes) = 0 /\ ~ (0 >= HEADER_SIZE) /\ 0 + 1 = 1
      BY <1>0, <2>6 DEF NoMessage
    <3> QED
      BY <1>1, <2>2, <3>1, <3>2, <3>3, InFrameNext
  <2> QED
    BY <2>3, <2>5, <2>6
<1> QED
  BY <1>2, <1>4, <1>5, HeaderDoes

\* A frame that was read as a whole.
LEMMA WholeFrame ==
    ASSUME TypeOK, NEW f \in 1 .. Len(sent), NEW b \in Seq(Byte), Len(b) = sent[f],
           \A i \in 1 .. Len(b) : b[i] = << f, i >>
    PROVE  SubSeq(b, HEADER_SIZE + 1, Len(b)) = PayloadOf(f)
<1>1. b = [i \in 1 .. Len(b) |-> b[i]]
  BY LenProperties
<1>2. b = FrameBytes(f)
  BY <1>1 DEF FrameBytes
<1> QED
  BY <1>2 DEF PayloadOf

\* The payload of frame f: it is read further, or becomes a message.
LEMMA BodyMoves ==
    ASSUME TypeOK, BytesInv, BufferInv, foreign = 0, LengthInv, SliceInv, ReadBody, NEW f, InFrame(f)
    PROVE  \/ InFrame(f)' /\ m_messages' = m_messages
           \/ /\ f \in 1 .. Len(sent) /\ sent[f] > HEADER_SIZE /\ InFrame(f + 1)'
              /\ m_messages' = Append(m_messages, PayloadOf(f))
<1> DEFINE k == Len(m_current_message.bytes)
<1>0. /\ HEADER_SIZE \in Nat /\ HEADER_SIZE >= 1 /\ m_size \in Nat /\ m_position \in Int
      /\ taken \in Nat /\ k \in Nat /\ m_current_message.length \in Nat
      /\ \A g \in 1 .. Len(sent) : sent[g] \in Nat /\ sent[g] >= HEADER_SIZE
  BY Numbers, SentSizes, ReadBytes DEF TypeOK
<1>1. /\ UNCHANGED << sent, taken >> /\ m_size > 0 /\ m_position >= 0
      /\ Processed = taken - m_size + m_position
  BY BodyDoes, ProcessedIn DEF SliceInv, BufferInv, peerVars
<1>2. /\ k >= HEADER_SIZE => /\ m_current_message.length = sent[f]
                             /\ k < m_current_message.length
      /\ f \notin 1 .. Len(sent) => k = 0
  BY FrameInProgress DEF InFrame, LengthInv
<1>3. PICK n \in Nat :
         /\ n <= m_size - m_position
         /\ \/ m_size' = 0 /\ m_position' = -1 /\ m_position + n = m_size
            \/ m_size' = m_size /\ m_position' = m_position + n
         /\ k < HEADER_SIZE => n = 0
         /\ \/ /\ Len(Read(n)) < HEADER_SIZE \/ Len(Read(n)) < m_current_message.length
               /\ m_messages' = m_messages
               /\ m_current_message' =
                     [length |-> m_current_message.length, bytes |-> Read(n)]
            \/ /\ Len(Read(n)) > HEADER_SIZE /\ Len(Read(n)) = m_current_message.length
               /\ m_messages' = Append(m_messages, SubSeq(Read(n), HEADER_SIZE + 1, Len(Read(n))))
               /\ m_current_message' = NoMessage
  BY BodyDoes
<1>4. Len(Read(n)) = k + n /\ Read(n) \in Seq(Byte)
  BY ReadBytes
<1> HIDE DEF k
<1>5. k >= HEADER_SIZE => k + n <= m_current_message.length
  BY <1>0, <1>2, <1>3, <1>4
<1>6. n > 0 /\ f \in 1 .. Len(sent) => k + n <= sent[f]
  BY <1>0, <1>2, <1>3, <1>5
<1>7. /\ \A i \in 1 .. Len(Read(n)) : Read(n)[i] = << f, i >>
      /\ n > 0 => f \in 1 .. Len(sent)
      /\ Cursor(Processed + n) = IF n = 0 \/ Len(Read(n)) < sent[f]
                                 THEN << f, Len(Read(n)) + 1 >> ELSE << f + 1, 1 >>
  BY <1>1, <1>3, <1>6, ReadMoves DEF k
<1>8. Processed' = Processed + n
  <2>1. CASE m_size' = 0 /\ m_position' = -1 /\ m_position + n = m_size
    BY <1>0, <1>1, <2>1 DEF Processed
  <2>2. CASE m_size' = m_size /\ m_position' = m_position + n
    <3>1. m_size # 0
      BY <1>0, <1>1
    <3> QED
      BY <1>0, <1>1, <2>2, <3>1 DEF Processed
  <2> QED
    BY <1>3, <2>1, <2>2
<1>9. CASE /\ Len(Read(n)) < HEADER_SIZE \/ Len(Read(n)) < m_current_message.length
           /\ m_messages' = m_messages
           /\ m_current_message' = [length |-> m_current_message.length, bytes |-> Read(n)]
  <2>1. n = 0 \/ Len(Read(n)) < sent[f]
    BY <1>0, <1>2, <1>3, <1>4, <1>9
  <2>2. Cursor(Processed + n) = << f, Len(Read(n)) + 1 >>
    BY <1>7, <2>1, Zenon
  <2>3. /\ m_current_message'.bytes = Read(n)
        /\ m_current_message'.length = m_current_message.length
    BY <1>9
  <2>4. Len(Read(n)) >= HEADER_SIZE => m_current_message.length = sent[f]
    BY <1>0, <1>2, <1>3, <1>4
  <2>5. InFrame(f)'
    BY <1>1, <1>7, <1>8, <2>2, <2>3, <2>4, InFrameNext
  <2> QED
    BY <1>9, <2>5
<1>10. CASE /\ Len(Read(n)) > HEADER_SIZE /\ Len(Read(n)) = m_current_message.length
            /\ m_messages' = Append(m_messages, SubSeq(Read(n), HEADER_SIZE + 1, Len(Read(n))))
            /\ m_current_message' = NoMessage
  <2>1. k >= HEADER_SIZE /\ n > 0 /\ n # 0
    BY <1>0, <1>2, <1>3, <1>4, <1>10
  <2>2. /\ f \in 1 .. Len(sent) /\ Len(Read(n)) = sent[f] /\ sent[f] > HEADER_SIZE
        /\ ~ (n = 0 \/ Len(Read(n)) < sent[f])
    BY <1>0, <1>2, <1>7, <1>10, <2>1
  <2>3. Cursor(Processed + n) = << f + 1, 1 >>
    BY <1>7, <2>2, Zenon
  <2>4. Len(m_current_message'.bytes) = 0 /\ ~ (0 >= HEADER_SIZE) /\ 0 + 1 = 1
    BY <1>0, <1>10 DEF NoMessage
  <2>5. InFrame(f + 1)'
    BY <1>1, <1>8, <2>3, <2>4, InFrameNext
  <2>6. SubSeq(Read(n), HEADER_SIZE + 1, Len(Read(n))) = PayloadOf(f)
    BY <1>4, <1>7, <2>2, WholeFrame
  <2> QED
    BY <1>10, <2>2, <2>5, <2>6
<1> QED
  BY <1>3, <1>9, <1>10

\* A step that processes no byte leaves the message in progress as it is.
LEMMA InFrameSame ==
    ASSUME UNCHANGED << sent, m_current_message >>, Processed' = Processed, NEW f, InFrame(f)
    PROVE  InFrame(f)'
<1>1. Cursor(Processed)' = Cursor(Processed)
  BY NextCursor, CursorSame
<1> QED
  BY <1>1 DEF InFrame

\* So does one of the peer.
LEMMA InFrameGrows ==
    ASSUME TypeOK, BytesInv, BufferInv, foreign = 0, NEW payload \in Payloads, PeerSends(payload),
           NEW f, InFrame(f)
    PROVE  InFrame(f)'
<1>1. UNCHANGED << taken, bufferVars, m_current_message >>
  BY DEF PeerSends, sliceVars
<1>2. Processed' = Processed /\ Processed \in 0 .. Len(ByteSeq)
  BY <1>1, ProcessedIn, Numbers DEF Processed, bufferVars
<1>3. Cursor(Processed)' = Cursor(Processed)
  BY <1>2, NextCursor, CursorGrows
<1>4. Len(m_current_message.bytes) >= HEADER_SIZE => sent'[f] = sent[f]
  <2>1. Len(m_current_message.bytes) >= HEADER_SIZE => f \in 1 .. Len(sent)
    <3>1. ~ (0 >= HEADER_SIZE)
      BY SentSizes
    <3> QED
      BY <3>1, FrameInProgress
  <2> QED
    BY <2>1, CursorGrows
<1> QED
  BY <1>1, <1>3, <1>4 DEF InFrame

\* A frame with a payload: the frame can be told from it.
LEMMA PayloadType ==
    ASSUME TypeOK, NEW f \in 1 .. Len(sent)
    PROVE  /\ PayloadOf(f) \in Seq(Byte)
           /\ sent[f] > HEADER_SIZE =>
                 PayloadOf(f) # << >> /\ PayloadOf(f)[1] = << f, HEADER_SIZE + 1 >>
           /\ PayloadOf(f) # << >> => sent[f] > HEADER_SIZE
<1> DEFINE b == FrameBytes(f)
<1>1. HEADER_SIZE \in Nat /\ sent[f] \in Nat /\ f \in Nat
  BY SentSizes
<1>2. b \in Seq(Byte) /\ Len(b) = sent[f] /\ \A i \in 1 .. sent[f] : b[i] = << f, i >>
  BY <1>1 DEF FrameBytes, Byte
<1> HIDE DEF b
<1>3. PayloadOf(f) = SubSeq(b, HEADER_SIZE + 1, sent[f])
  BY DEF PayloadOf, b
<1>4. CASE sent[f] > HEADER_SIZE
  <2>1. HEADER_SIZE + 1 \in 1 .. sent[f]
    BY <1>1, <1>4
  <2>2. /\ SubSeq(b, HEADER_SIZE + 1, sent[f]) \in Seq(Byte)
        /\ Len(SubSeq(b, HEADER_SIZE + 1, sent[f])) = sent[f] - HEADER_SIZE
        /\ SubSeq(b, HEADER_SIZE + 1, sent[f])[1] = b[HEADER_SIZE + 1]
    BY <1>1, <1>2, <2>1
  <2>3. Len(PayloadOf(f)) # 0
    BY <1>1, <1>3, <1>4, <2>2
  <2>4. PayloadOf(f) # << >>
    BY <2>3
  <2>5. PayloadOf(f) \in Seq(Byte) /\ PayloadOf(f)[1] = << f, HEADER_SIZE + 1 >>
    BY <1>2, <1>3, <2>1, <2>2
  <2> QED
    BY <1>4, <2>4, <2>5
<1>5. CASE ~ (sent[f] > HEADER_SIZE)
  <2>1. SubSeq(b, HEADER_SIZE + 1, sent[f]) = << >>
    BY <1>1, <1>2, <1>5
  <2>2. PayloadOf(f) = << >>
    BY <1>3, <2>1
  <2>3. << >> \in Seq(Byte)
    OBVIOUS
  <2> QED
    BY <1>5, <2>2, <2>3, Zenon
<1> QED
  BY <1>4, <1>5

\* The messages, in Datagram mode.
LEMMA MessagesGrow ==
    ASSUME TypeOK
    PROVE  /\ Len(delivered) \in Nat /\ Len(m_messages) \in Nat
           /\ Len(Messages) = Len(delivered) + Len(m_messages)
           /\ \A i \in 1 .. Len(delivered) : Messages[i] = delivered[i]
           /\ \A i \in 1 .. Len(m_messages) : Messages[Len(delivered) + i] = m_messages[i]
<1> DEFINE S == Seq(Byte)
<1>1. delivered \in Seq(S) /\ m_messages \in Seq(S)
  BY DEF TypeOK, Byte
<1>2. Messages = Cat(delivered, m_messages)
  BY Zenon DEF Messages
<1> HIDE DEF S
<1> QED
  BY <1>1, <1>2, GrowsBy

LEMMA MessagesType ==
    ASSUME TypeOK
    PROVE  /\ delivered \in Seq(Seq(Byte)) /\ m_messages \in Seq(Seq(Byte))
           /\ Messages \in Seq(Seq(Byte))
<1>1. delivered \in Seq(Seq(Byte)) /\ m_messages \in Seq(Seq(Byte))
  BY DEF TypeOK, Byte
<1> QED
  BY <1>1, CatType DEF Messages

\* What a step does to the frame f that is being read and to the messages.
LEMMA SliceMoves ==
    ASSUME "Datagram" \notin SenderCloses, mode = "Datagram",
           TypeOK, BytesInv, BufferInv, LengthInv, SliceInv, Next, NEW f, InFrame(f)
    PROVE  /\ rpc' \in {"header", "body"} => m_size' > 0
           /\ \/ /\ InFrame(f)' /\ Messages' = Messages
                 /\ UNCHANGED sent \/ \E payload \in Payloads : PeerSends(payload)
              \/ /\ f \in 1 .. Len(sent) /\ sent[f] <= HEADER_SIZE
                 /\ InFrame(f + 1)' /\ Messages' = Messages /\ UNCHANGED sent
              \/ /\ f \in 1 .. Len(sent) /\ sent[f] > HEADER_SIZE
                 /\ InFrame(f + 1)' /\ Messages' = Append(Messages, PayloadOf(f)) /\ UNCHANGED sent
<1> USE DEF peerVars, bufferVars, sliceVars, historyVars, Goto
<1>0. m_size \in Nat /\ taken \in Nat
  BY Numbers
<1> foreign = 0 /\ cpc = "none"
  BY NothingForeign
<1>1. CASE \/ OnReadReady \/ PullMessages \/ LoadFd \/ RecvAgain \/ ReceiveNothing \/ HandlerReturn
           \/ \E n \in 1 .. MAX_SIZE : RecvData(n) \/ RecvForeign(n)
           \/ \E how \in Endings : PeerEnds(how)
  <2>1. /\ UNCHANGED << sent, taken, m_size, m_position, m_current_message, m_messages, delivered >>
        /\ rpc' \in {"header", "body"} => m_size > 0
    BY <1>1 DEF OnReadReady, PullMessages, LoadFd, RecvData, RecvForeign, RecvAgain,
       ReceiveNothing, HandlerReturn, PeerEnds, SliceInv
  <2>2. Processed' = Processed /\ Messages' = Messages
    BY <2>1 DEF Processed, Messages
  <2> QED
    BY <2>1, <2>2, InFrameSame
<1>2. CASE FillBuffer
  <2> DEFINE n == Len(m_data)
  <2>1. /\ UNCHANGED << sent, m_current_message, m_messages, delivered >>
        /\ m_size = 0 /\ m_size' = n /\ m_position' = 0 /\ taken' = taken + n
    BY <1>2, FillDoes
  <2>2. n \in Nat /\ n > 0 /\ n # 0
    BY <1>2, FillDoes
  <2> HIDE DEF n
  <2>3. Processed' = Processed
    BY <1>0, <2>1, <2>2 DEF Processed
  <2>4. Messages' = Messages /\ m_size' > 0
    BY <2>1, <2>2 DEF Messages
  <2> QED
    BY <2>1, <2>3, <2>4, InFrameSame
<1>3. CASE RecvEnds \/ RecvFails
  <2>1. /\ UNCHANGED << sent, taken, m_current_message, m_messages, delivered >>
        /\ m_size = 0 /\ m_size' = 0 /\ rpc' \notin {"header", "body"}
    BY <1>3 DEF RecvEnds, RecvFails, CloseFast, ResetBuffer, BufferInv, EndReturns
  <2>2. Processed' = Processed /\ Messages' = Messages
    BY <2>1 DEF Processed, Messages
  <2> QED
    BY <2>1, <2>2, InFrameSame
<1>4. CASE ReadHeader
  <2>1. /\ UNCHANGED << sent, m_size, m_messages, delivered >> /\ m_size > 0
    BY <1>4, HeaderDoes DEF SliceInv
  <2>2. Messages' = Messages
    BY <2>1 DEF Messages
  <2> QED
    BY <1>4, <2>1, <2>2, HeaderMoves
<1>5. CASE ReadBody
  <2>1. UNCHANGED << sent, delivered >> /\ rpc' = "pull"
    BY <1>5, BodyDoes
  <2>2. \/ InFrame(f)' /\ m_messages' = m_messages
        \/ /\ f \in 1 .. Len(sent) /\ sent[f] > HEADER_SIZE /\ InFrame(f + 1)'
           /\ m_messages' = Append(m_messages, PayloadOf(f))
    BY <1>5, BodyMoves
  <2>3. m_messages' = m_messages => Messages' = Messages
    BY <2>1 DEF Messages
  <2>4. ASSUME f \in 1 .. Len(sent), m_messages' = Append(m_messages, PayloadOf(f))
        PROVE  Messages' = Append(Messages, PayloadOf(f))
    <3>1. PayloadOf(f) \in Seq(Byte)
      BY <2>4, PayloadType
    <3>2. Cat(delivered, Append(m_messages, PayloadOf(f)))
             = Append(Cat(delivered, m_messages), PayloadOf(f))
      BY <3>1, MessagesType, CatAppend
    <3> QED
      BY <2>1, <2>4, <3>2 DEF Messages
  <2> QED
    BY <2>1, <2>2, <2>3, <2>4
<1>6. CASE SliceStream
  BY <1>6 DEF SliceStream
<1>7. CASE OnNetworkMessage
  <2>1. /\ UNCHANGED << sent, taken, m_size, m_position, m_current_message >>
        /\ delivered' = Append(delivered, Head(m_messages)) /\ m_messages' = Tail(m_messages)
        /\ m_messages # << >> /\ rpc' = "pull"
    BY <1>7 DEF OnNetworkMessage, ReceiveAgain
  <2>2. Processed' = Processed
    BY <2>1 DEF Processed
  <2>3. Messages' = Messages
    BY <2>1, MessagesType, CatMove DEF Messages
  <2> QED
    BY <2>1, <2>2, <2>3, InFrameSame
<1>8. CASE SenderClosesFd \/ SenderForgetsFd \/ SenderResetsBuffer
  BY <1>8 DEF SenderClosesFd, SenderForgetsFd, SenderResetsBuffer
<1>9. ASSUME NEW payload \in Payloads, PeerSends(payload)
      PROVE  InFrame(f)' /\ Messages' = Messages /\ UNCHANGED << rpc, m_size >>
  BY <1>9, InFrameGrows DEF PeerSends, Messages
<1> QED
  BY <1>1, <1>2, <1>3, <1>4, <1>5, <1>6, <1>7, <1>8, <1>9 DEF Next, Reader, SliceInv

\* Every step leaves the message in progress what was read of its frame.
LEMMA SliceStep ==
    ASSUME "Datagram" \notin SenderCloses,
           TypeOK, BytesInv, BufferInv, LengthInv, SliceInv, Next
    PROVE  SliceInv'
<1>1. mode' = mode
  BY Zenon DEF Next, Reader, OnReadReady, PullMessages, LoadFd, RecvData, RecvForeign, FillBuffer, RecvAgain,
     RecvEnds, RecvFails,
     ReadHeader, ReadBody, SliceStream, OnNetworkMessage, ReceiveNothing, HandlerReturn,
     SenderClosesFd, SenderForgetsFd, SenderResetsBuffer, PeerSends, PeerEnds, peerVars, historyVars
<1> SUFFICES ASSUME mode = "Datagram"
             PROVE  /\ rpc' \in {"header", "body"} => m_size' > 0
                    /\ \E f \in 1 .. Len(sent') + 1 : InFrame(f)'
  BY <1>1 DEF SliceInv
<1>2. PICK f \in 1 .. Len(sent) + 1 : InFrame(f)
  BY DEF SliceInv
<1>3. /\ rpc' \in {"header", "body"} => m_size' > 0
      /\ \/ /\ InFrame(f)'
            /\ UNCHANGED sent \/ \E payload \in Payloads : PeerSends(payload)
         \/ f \in 1 .. Len(sent) /\ InFrame(f + 1)' /\ UNCHANGED sent
  BY <1>2, SliceMoves
<1>4. \A payload \in Payloads : PeerSends(payload) => f \in 1 .. Len(sent') + 1
  <2>1. \A payload \in Payloads : PeerSends(payload) => Len(sent') = Len(sent) + 1
    BY CursorGrows
  <2> QED
    BY <2>1, SentSizes
<1>5. f \in 1 .. Len(sent) => f + 1 \in 1 .. Len(sent) + 1
  BY SentSizes
<1> QED
  BY <1>2, <1>3, <1>4, <1>5

\* The frames of the messages, and of the one in progress.
LEMMA FrameIs ==
    ASSUME TypeOK, NEW f, InFrame(f)
    PROVE  /\ Frame(0) = 0
           /\ \A i \in 1 .. Len(Messages) : Frame(i) = Messages[i][1][1]
           /\ Frame(Len(Messages) + 1) = f
<1>1. Len(Messages) \in Nat
  BY MessagesType
<1>2. Cursor(Processed)[1] = f
  BY DEF InFrame
<1> QED
  BY <1>1, <1>2 DEF Frame

\* The same in the next state.
LEMMA FrameIsNext ==
    ASSUME NEW f, InFrame(f)', NEW M, M = Messages', Len(M) \in Nat
    PROVE  /\ Frame(0)' = 0
           /\ \A i \in 1 .. Len(M) : Frame(i)' = M[i][1][1]
           /\ \A i : i = Len(M) + 1 => Frame(i)' = f
<1>1. Cursor(Processed)'[1] = f
  BY DEF InFrame
<1> QED
  BY <1>1 DEF Frame

\* Frames have numbers.
LEMMA FrameBound ==
    ASSUME TypeOK, BytesInv, BufferInv, foreign = 0, DeliverInv, mode = "Datagram", NEW f, InFrame(f),
           NEW i \in 0 .. Len(Messages) + 1
    PROVE  /\ Frame(i) \in Nat /\ Frame(i) <= Len(sent) + 1
           /\ i \in 1 .. Len(Messages) => Frame(i) \in 1 .. Len(sent)
<1>1. Len(Messages) \in Nat /\ Len(sent) \in Nat
  BY MessagesType, SentSizes
<1>2. i = 0 \/ i \in 1 .. Len(Messages) \/ i = Len(Messages) + 1
  BY <1>1
<1>3. CASE i = 0
  BY <1>1, <1>3, FrameIs
<1>4. CASE i \in 1 .. Len(Messages)
  <2>1. Frame(i) \in 1 .. Len(sent)
    BY <1>4 DEF DeliverInv
  <2> QED
    BY <1>1, <2>1
<1>5. CASE i = Len(Messages) + 1
  <2>1. Frame(i) = f /\ f \in 1 .. Len(sent) + 1
    BY <1>5, FrameIs, FrameInProgress
  <2>2. i \notin 1 .. Len(Messages)
    BY <1>1, <1>5
  <2> QED
    BY <1>1, <2>1, <2>2
<1> QED
  BY <1>2, <1>3, <1>4, <1>5

\* Every step keeps the messages the payloads of their frames, without gap.
LEMMA DeliverStep ==
    ASSUME "Datagram" \notin SenderCloses,
           TypeOK, BytesInv, BufferInv, LengthInv, SliceInv, DeliverInv, Next
    PROVE  DeliverInv'
<1>1. mode' = mode
  BY Zenon DEF Next, Reader, OnReadReady, PullMessages, LoadFd, RecvData, RecvForeign, FillBuffer, RecvAgain,
     RecvEnds, RecvFails,
     ReadHeader, ReadBody, SliceStream, OnNetworkMessage, ReceiveNothing, HandlerReturn,
     SenderClosesFd, SenderForgetsFd, SenderResetsBuffer, PeerSends, PeerEnds, peerVars, historyVars
<1> DEFINE L == Len(Messages)
<1> SUFFICES ASSUME mode = "Datagram" PROVE DeliverInv'
  BY <1>1 DEF DeliverInv
<1> foreign = 0
  BY NothingForeign
<1>2. PICK f \in 1 .. Len(sent) + 1 : InFrame(f)
  BY DEF SliceInv
<1>3. /\ L \in Nat /\ Len(sent) \in Nat /\ f \in Nat
      /\ Frame(0) = 0 /\ Frame(L + 1) = f
      /\ \A i \in 1 .. L : Frame(i) = Messages[i][1][1]
  BY <1>2, MessagesType, SentSizes, FrameIs
<1>4. \A i \in 0 .. L + 1 : Frame(i) \in Nat /\ Frame(i) <= Len(sent) + 1
  BY <1>2, FrameBound
<1>5. /\ \A i \in 1 .. L : /\ Messages[i] # << >> /\ Frame(i) \in 1 .. Len(sent)
                           /\ Messages[i] = PayloadOf(Frame(i))
      /\ \A i \in 0 .. L : /\ Frame(i) < Frame(i + 1)
                           /\ \A g \in Frame(i) + 1 .. Frame(i + 1) - 1 : sent[g] <= HEADER_SIZE
  BY DEF DeliverInv
<1>6. ASSUME InFrame(f)', Messages' = Messages,
             UNCHANGED sent \/ \E payload \in Payloads : PeerSends(payload)
      PROVE  DeliverInv'
  <2>1. \A i \in 0 .. L + 1 : Frame(i)' = Frame(i)
    <3>1. /\ Frame(0)' = 0 /\ \A i \in 1 .. L : Frame(i)' = Messages[i][1][1]
          /\ \A i : i = L + 1 => Frame(i)' = f
      BY <1>3, <1>6, FrameIsNext
    <3>2. \A i \in 0 .. L + 1 : i = 0 \/ i \in 1 .. L \/ i = L + 1
      BY <1>3
    <3> HIDE DEF L
    <3> QED
      BY <1>3, <3>1, <3>2
  <2>2. /\ Len(sent') \in Nat /\ Len(sent) <= Len(sent')
        /\ \A g \in 1 .. Len(sent) : sent'[g] = sent[g]
    <3>1. CASE UNCHANGED sent
      BY <1>3, <3>1
    <3>2. ASSUME NEW payload \in Payloads, PeerSends(payload)
          PROVE  Len(sent') = Len(sent) + 1 /\ \A g \in 1 .. Len(sent) : sent'[g] = sent[g]
      BY <3>2, CursorGrows
    <3> QED
      BY <1>3, <1>6, <3>1, <3>2
  <2>3. \A g \in 1 .. Len(sent) : PayloadOf(g)' = PayloadOf(g) /\ g \in 1 .. Len(sent')
    <3>1. \A g \in 1 .. Len(sent) : FrameBytes(g)' = FrameBytes(g) /\ g \in 1 .. Len(sent')
      BY <1>3, <2>2 DEF FrameBytes
    <3> QED
      BY <2>2, <3>1 DEF PayloadOf
  <2>4. ASSUME NEW i \in 1 .. L
        PROVE  /\ Messages'[i] # << >> /\ Frame(i)' \in 1 .. Len(sent')
               /\ Messages'[i] = PayloadOf(Frame(i))'
    <3>1. Frame(i)' = Frame(i) /\ Frame(i) \in 1 .. Len(sent)
      BY <1>3, <1>5, <2>1
    <3>2. PayloadOf(Frame(i))' = PayloadOf(Frame(i))
      <4>1. PICK g \in 1 .. Len(sent) : g = Frame(i)
        BY <3>1
      <4>2. PayloadOf(Frame(i))' = PayloadOf(g)'
        BY <3>1, <4>1 DEF PayloadOf, FrameBytes
      <4> QED
        BY <2>3, <4>1, <4>2
    <3> QED
      BY <1>5, <1>6, <2>3, <3>1, <3>2
  <2>5. ASSUME NEW i \in 0 .. L
        PROVE  /\ Frame(i)' < Frame(i + 1)'
               /\ \A g \in Frame(i)' + 1 .. Frame(i + 1)' - 1 : sent'[g] <= HEADER_SIZE
    <3>1. i \in 0 .. L + 1 /\ i + 1 \in 0 .. L + 1
      BY <1>3
    <3>2. Frame(i)' = Frame(i) /\ Frame(i + 1)' = Frame(i + 1)
      BY <2>1, <3>1
    <3>3. \A g \in Frame(i) + 1 .. Frame(i + 1) - 1 : g \in 1 .. Len(sent)
      BY <1>3, <1>4, <3>1
    <3> QED
      BY <1>5, <2>2, <3>2, <3>3
  <2> QED
    BY <1>6, <2>4, <2>5 DEF DeliverInv
<1>7. ASSUME f \in 1 .. Len(sent), sent[f] <= HEADER_SIZE, InFrame(f + 1)', Messages' = Messages,
             UNCHANGED sent
      PROVE  DeliverInv'
  <2>1. /\ \A i \in 0 .. L : Frame(i)' = Frame(i)
        /\ \A i : i = L + 1 => Frame(i)' = f + 1
    <3>1. /\ Frame(0)' = 0 /\ \A i \in 1 .. L : Frame(i)' = Messages[i][1][1]
          /\ \A i : i = L + 1 => Frame(i)' = f + 1
      BY <1>3, <1>7, FrameIsNext
    <3>2. \A i \in 0 .. L : i = 0 \/ i \in 1 .. L
      BY <1>3
    <3> HIDE DEF L
    <3> QED
      BY <1>3, <3>1, <3>2
  <2>2. ASSUME NEW i \in 1 .. L
        PROVE  /\ Messages'[i] # << >> /\ Frame(i)' \in 1 .. Len(sent')
               /\ Messages'[i] = PayloadOf(Frame(i))'
    <3>1. Frame(i)' = Frame(i)
      BY <1>3, <2>1
    <3>2. PayloadOf(Frame(i))' = PayloadOf(Frame(i))
      BY <1>7, <3>1 DEF PayloadOf, FrameBytes
    <3> QED
      BY <1>5, <1>7, <3>1, <3>2
  <2>3. ASSUME NEW i \in 0 .. L
        PROVE  /\ Frame(i)' < Frame(i + 1)'
               /\ \A g \in Frame(i)' + 1 .. Frame(i + 1)' - 1 : sent'[g] <= HEADER_SIZE
    <3>1. i \in 0 .. L + 1 /\ i + 1 \in 0 .. L + 1 /\ (i # L => i + 1 \in 0 .. L)
      BY <1>3
    <3>2. CASE i # L
      <4>1. Frame(i)' = Frame(i) /\ Frame(i + 1)' = Frame(i + 1)
        BY <2>1, <3>1, <3>2
      <4> QED
        BY <1>5, <1>7, <4>1
    <3>3. CASE i = L
      <4>1. Frame(i)' = Frame(i) /\ Frame(i + 1)' = f + 1 /\ Frame(i + 1) = f
        BY <1>3, <2>1, <3>3
      <4>2. Frame(i) \in Nat /\ Frame(i) < f
        BY <1>4, <1>5, <3>1, <4>1
      <4>3. \A g \in Frame(i) + 1 .. (f + 1) - 1 : g \in Frame(i) + 1 .. f - 1 \/ g = f
        BY <1>3, <4>2
      <4>4. \A g \in Frame(i) + 1 .. f - 1 : sent[g] <= HEADER_SIZE
        BY <1>5, <4>1
      <4> QED
        BY <1>3, <1>7, <4>1, <4>2, <4>3, <4>4
    <3> QED
      BY <3>2, <3>3
  <2> QED
    BY <1>7, <2>2, <2>3 DEF DeliverInv
<1>8. ASSUME f \in 1 .. Len(sent), sent[f] > HEADER_SIZE, InFrame(f + 1)',
             Messages' = Append(Messages, PayloadOf(f)), UNCHANGED sent
      PROVE  DeliverInv'
  <2>1. /\ PayloadOf(f) \in Seq(Byte) /\ PayloadOf(f) # << >> /\ PayloadOf(f)[1][1] = f
        /\ \A g : PayloadOf(g)' = PayloadOf(g)
    <3>1. /\ PayloadOf(f) \in Seq(Byte) /\ PayloadOf(f) # << >>
          /\ PayloadOf(f)[1] = << f, HEADER_SIZE + 1 >>
      BY <1>8, PayloadType
    <3>2. \A g : PayloadOf(g)' = PayloadOf(g)
      BY <1>8 DEF PayloadOf, FrameBytes
    <3> QED
      BY <3>1, <3>2
  <2> DEFINE M == Append(Messages, PayloadOf(f))
  <2>2. /\ Len(M) = L + 1 /\ M[L + 1] = PayloadOf(f)
        /\ \A i \in 1 .. L : M[i] = Messages[i]
    BY <2>1, MessagesType, AppendProperties
  <2> HIDE DEF M
  <2>3. /\ Frame(0)' = 0 /\ \A i \in 1 .. L + 1 : Frame(i)' = M[i][1][1]
        /\ \A i : i = (L + 1) + 1 => Frame(i)' = f + 1
    <3>1. M = Messages' /\ Len(M) \in Nat
      BY <1>3, <1>8, <2>2 DEF M
    <3> HIDE DEF L
    <3> QED
      BY <1>8, <2>2, <3>1, FrameIsNext, SMTT(90)
  <2>4. /\ \A i \in 0 .. L : Frame(i)' = Frame(i)
        /\ \A i : i = L + 1 => Frame(i)' = f
    <3>1. /\ \A i \in 0 .. L : i = 0 \/ (i \in 1 .. L /\ i \in 1 .. L + 1)
          /\ L + 1 \in 1 .. L + 1
      BY <1>3
    <3> HIDE DEF L
    <3>2. \A i \in 0 .. L : Frame(i)' = Frame(i)
      BY <1>3, <2>2, <2>3, <3>1
    <3> QED
      BY <2>1, <2>2, <2>3, <3>1, <3>2
  <2>5. ASSUME NEW i \in 1 .. L + 1
        PROVE  /\ M[i] # << >> /\ Frame(i)' \in 1 .. Len(sent')
               /\ M[i] = PayloadOf(Frame(i))'
    <3>1. PayloadOf(Frame(i))' = PayloadOf(Frame(i)')
      BY <1>8 DEF PayloadOf, FrameBytes
    <3>2. CASE i = L + 1
      BY <1>8, <2>1, <2>2, <2>4, <3>1, <3>2
    <3>3. CASE i # L + 1
      <4>1. i \in 1 .. L /\ i \in 0 .. L
        BY <1>3, <3>3
      <4> QED
        BY <1>5, <1>8, <2>2, <2>4, <3>1, <4>1
    <3> QED
      BY <3>2, <3>3
  <2>6. ASSUME NEW i \in 0 .. L + 1
        PROVE  /\ Frame(i)' < Frame(i + 1)'
               /\ \A g \in Frame(i)' + 1 .. Frame(i + 1)' - 1 : sent'[g] <= HEADER_SIZE
    <3>1. CASE i = L + 1
      <4>1. Frame(i)' = f /\ Frame(i + 1)' = f + 1
        BY <2>3, <2>4, <3>1
      <4>2. f < f + 1 /\ \A g \in f + 1 .. (f + 1) - 1 : FALSE
        BY <1>3
      <4> QED
        BY <4>1, <4>2
    <3>2. CASE i # L + 1
      <4>1. i \in 0 .. L /\ i + 1 \in 0 .. L + 1 /\ (i # L => i + 1 \in 0 .. L)
        BY <1>3, <3>2
      <4>2. Frame(i)' = Frame(i) /\ Frame(i + 1)' = Frame(i + 1)
        BY <1>3, <2>4, <4>1
      <4> QED
        BY <1>5, <1>8, <4>1, <4>2
    <3> QED
      BY <3>1, <3>2
  <2>7. Messages' = M /\ Len(M) = L + 1
    BY <1>8, <2>2 DEF M
  <2> HIDE DEF L
  <2> QED
    BY <2>5, <2>6, <2>7 DEF DeliverInv
<1> QED
  BY <1>2, <1>6, <1>7, <1>8, SliceMoves

----------------------------------------------------------------------------
(* The theorems.                                                            *)

\* The part of the invariant that holds in both modes.
SlicerInv == TypeOK /\ BytesInv /\ BufferInv /\ LengthInv

\* Before the first frame.
LEMMA InitBytes ==
    ASSUME Init
    PROVE  TypeOK /\ ByteSeq = << >> /\ BytesInv
<1> USE DEF Init
<1>1. sent \in Seq({FrameLength(p) : p \in Payloads}) /\ Len(sent) = 0
  OBVIOUS
<1>2. [f \in 1 .. Len(sent) |-> FrameBytes(f)] = << >>
  BY <1>1
<1>3. ByteSeq = << >>
  BY <1>2 DEF ByteSeq, FlattenSeq
<1>4. BytesInv
  BY <1>1, <1>3 DEF BytesInv, Cursor
<1>5. TypeOK
  BY <1>1, <1>3, SizesAssumption DEF TypeOK, NoMessage
<1> QED
  BY <1>3, <1>4, <1>5

LEMMA InitSlicer == Init => SlicerInv
<1> SUFFICES ASSUME Init PROVE SlicerInv
  OBVIOUS
<1>1. TypeOK /\ BytesInv
  BY InitBytes
<1>2. BufferInv
  BY DEF Init, BufferInv, PendingInv
<1>3. LengthInv
  BY SentSizes, <1>1 DEF Init, LengthInv, NoMessage
<1> QED
  BY <1>1, <1>2, <1>3 DEF SlicerInv

LEMMA SlicerStep == SlicerInv /\ [Next]_vars => SlicerInv'
<1> SUFFICES ASSUME SlicerInv, [Next]_vars PROVE SlicerInv'
  OBVIOUS
<1>1. CASE Next
  BY <1>1, TypeStep, BytesStep, BufferStep, LengthStep DEF SlicerInv
<1>2. CASE UNCHANGED vars
  <2>1. ByteSeq' = ByteSeq /\ \A p : Cursor(p)' = Cursor(p)
    BY <1>2, ByteSeqSame, CursorSame DEF vars
  <2> QED
    BY <1>2, <2>1 DEF vars, SlicerInv, TypeOK, BytesInv, BufferInv, PendingInv, Got, LengthInv
<1> QED
  BY <1>1, <1>2

\* The slicer's variables keep their types: the buffer's size and position
\* stay within the buffer, and no more bytes are taken than the peer has sent.
THEOREM TypeCorrect == Spec => []TypeOK
<1>1. SlicerInv => TypeOK
  BY DEF SlicerInv
<1> QED
  BY <1>1, InitSlicer, SlicerStep, PTL DEF Spec

\* receive() hands all complete messages over before on_disconnect() tells the
\* user that the connection is gone, unless recv() failed: whatever the sizes
\* of frames and buffer, and wherever the connection ends.
THEOREM DisconnectIsLast == Spec => []DisconnectAfterLastMessage
<1>1. Init => EndInv
  BY DEF Init, EndInv
<1>2. SlicerInv /\ EndInv /\ [Next]_vars => EndInv'
  <2> SUFFICES ASSUME SlicerInv, EndInv, [Next]_vars PROVE EndInv'
    OBVIOUS
  <2>1. CASE Next
    BY <2>1, EndStep DEF SlicerInv
  <2>2. CASE UNCHANGED vars
    BY <2>2 DEF vars, EndInv
  <2> QED
    BY <2>1, <2>2
<1>3. EndInv => DisconnectAfterLastMessage
  BY DEF EndInv, DisconnectAfterLastMessage
<1> QED
  BY <1>1, <1>2, <1>3, InitSlicer, SlicerStep, PTL DEF Spec

\* StreamMessageSlicer passes on what recv() returned, in its order and each
\* byte once, and with the rest of the buffer that is all of it as long as no
\* sender has emptied the buffer.  These are bytes of the peer until a sender
\* has closed the descriptor under the reader; bytes of a file that took its
\* number then come after all of the peer's.
THEOREM StreamStaysIntact == Spec => []StreamIntact
<1>1. Init => StreamInv
  <2> SUFFICES ASSUME Init PROVE StreamInv
    OBVIOUS
  <2>1. FlattenSeq(<< >>) = << >>
    BY DEF FlattenSeq
  <2>2. Sliced = << >>
    BY <2>1 DEF Init, Sliced, Cat
  <2> QED
    BY <2>2 DEF Init, StreamInv
<1>2. SlicerInv /\ StreamInv /\ [Next]_vars => StreamInv'
  <2> SUFFICES ASSUME SlicerInv, StreamInv, [Next]_vars PROVE StreamInv'
    OBVIOUS
  <2>1. CASE Next
    BY <2>1, StreamStep DEF SlicerInv
  <2>2. CASE UNCHANGED vars
    BY <2>2, ByteSeqSame DEF vars, StreamInv, Sliced, Got
  <2> QED
    BY <2>1, <2>2
<1>3. SlicerInv /\ StreamInv => StreamIntact
  BY StreamIsIntact DEF SlicerInv
<1> QED
  BY <1>1, <1>2, <1>3, InitSlicer, SlicerStep, PTL DEF Spec

\* The number of the frame of every message that was handed over can be read
\* off its first byte.
ReceivedInv ==
    mode = "Datagram" =>
        \A i \in 1 .. Len(delivered) : FrameOf(delivered[i]) = delivered[i][1][1]

\* The messages that were handed over, and the next one.
LEMMA MessageFrames ==
    ASSUME TypeOK, DeliverInv, mode = "Datagram"
    PROVE  /\ Len(delivered) \in Nat /\ Len(delivered) <= Len(Messages)
           /\ \A i \in 1 .. Len(delivered) : Frame(i) = delivered[i][1][1]
           /\ m_messages # << >> =>
                 /\ Len(delivered) + 1 \in 1 .. Len(Messages)
                 /\ Frame(Len(delivered) + 1) = Head(m_messages)[1][1]
<1> DEFINE L == Len(delivered)
<1>1. delivered \in Seq(Seq(Byte)) /\ m_messages \in Seq(Seq(Byte))
  BY MessagesType
<1>2. /\ L \in Nat /\ Len(m_messages) \in Nat /\ Len(Messages) = L + Len(m_messages)
      /\ \A i \in 1 .. L : Messages[i] = delivered[i]
      /\ \A i \in 1 .. Len(m_messages) : Messages[L + i] = m_messages[i]
  BY MessagesGrow, Zenon
<1>3. L <= Len(Messages)
  BY <1>2
<1>4. \A i \in 1 .. L : Frame(i) = delivered[i][1][1]
  BY <1>2 DEF Frame
<1>5. ASSUME m_messages # << >>
      PROVE  L + 1 \in 1 .. Len(Messages) /\ Frame(L + 1) = Head(m_messages)[1][1]
  <2>1. 1 \in 1 .. Len(m_messages) /\ Head(m_messages) = m_messages[1]
    BY <1>1, <1>5
  <2>2. L + 1 \in 1 .. Len(Messages) /\ L + 1 # 0 /\ L + 1 <= Len(Messages)
    BY <1>2, <2>1
  <2>3. Messages[L + 1] = Head(m_messages)
    BY <1>2, <2>1
  <2> QED
    BY <2>2, <2>3 DEF Frame
<1> QED
  BY <1>2, <1>3, <1>4, <1>5

LEMMA FrameOfMessage ==
    ASSUME TypeOK, DeliverInv
    PROVE  ReceivedInv
<1> SUFFICES ASSUME mode = "Datagram", NEW i \in 1 .. Len(delivered)
             PROVE  FrameOf(delivered[i]) = delivered[i][1][1]
  BY DEF ReceivedInv
<1> DEFINE d == delivered[i]
           f == Frame(i)
<1>1. /\ i \in 1 .. Len(Messages) /\ f = d[1][1]
      /\ Messages[i] = d
  <2>1. /\ Len(delivered) \in Nat /\ Len(delivered) <= Len(Messages) /\ Len(Messages) \in Nat
        /\ f = d[1][1]
    BY MessageFrames, MessagesType
  <2>2. \A j \in 1 .. Len(delivered) : Messages[j] = delivered[j]
    BY MessagesGrow, Zenon
  <2> QED
    BY <2>1, <2>2
<1>2. d # << >> /\ f \in 1 .. Len(sent) /\ d = PayloadOf(f)
  BY <1>1 DEF DeliverInv
<1>3. ASSUME NEW g \in 1 .. Len(sent), d = PayloadOf(g) PROVE g = d[1][1]
  BY <1>2, <1>3, PayloadType
<1>4. FrameOf(d) = IF \E g \in 1 .. Len(sent) : d # << >> /\ d = PayloadOf(g)
                   THEN CHOOSE g \in 1 .. Len(sent) : d = PayloadOf(g) ELSE 0
  BY DEF FrameOf, PayloadOf
<1> HIDE DEF d, f
<1>5. \E g \in 1 .. Len(sent) : d # << >> /\ d = PayloadOf(g)
  BY <1>2
<1>6. FrameOf(d) = CHOOSE g \in 1 .. Len(sent) : d = PayloadOf(g)
  BY <1>4, <1>5
<1>7. FrameOf(d) \in 1 .. Len(sent) /\ d = PayloadOf(FrameOf(d))
  BY <1>2, <1>6
<1>8. FrameOf(d) = d[1][1]
  BY <1>3, <1>7
<1> QED
  BY <1>8 DEF d

\* Handing a message over is a step of the service.
LEMMA HandOver ==
    ASSUME TypeOK, DeliverInv, ReceivedInv, ReceivedInv', mode = "Datagram", mode' = mode,
           OnNetworkMessage
    PROVE  Service!Receive
<1> DEFINE R == IF mode = "Datagram"
                THEN [i \in 1 .. Len(delivered) |-> FrameOf(delivered[i])] ELSE << >>
           L == Len(delivered)
           f == Frame(L + 1)
           h == Head(m_messages)
<1>1. /\ m_messages # << >> /\ delivered' = Append(delivered, h) /\ UNCHANGED sent
      /\ delivered \in Seq(Seq(Byte)) /\ h \in Seq(Byte)
  BY MessagesType, HeadTailProperties DEF OnNetworkMessage, peerVars
<1>2. /\ L \in Nat /\ L <= Len(Messages) /\ Len(Messages) \in Nat /\ Len(sent) \in Nat
      /\ \A i \in 1 .. L : Frame(i) = delivered[i][1][1]
      /\ L + 1 \in 1 .. Len(Messages) /\ f = h[1][1]
  BY <1>1, MessageFrames, MessagesType, SentSizes
<1>3. R = [i \in 1 .. L |-> delivered[i][1][1]]
  BY DEF ReceivedInv
<1>4. R' = [i \in 1 .. L + 1 |-> IF i = L + 1 THEN f ELSE delivered[i][1][1]]
  <2>1. R' = [i \in 1 .. Len(delivered') |-> delivered'[i][1][1]]
    BY DEF ReceivedInv
  <2>2. /\ Len(delivered') = L + 1 /\ delivered'[L + 1] = h
        /\ \A i \in 1 .. L : delivered'[i] = delivered[i]
    <3> HIDE DEF h
    <3> QED
      BY <1>1, AppendProperties
  <2>3. \A i \in 1 .. L + 1 :
           delivered'[i][1][1] = IF i = L + 1 THEN f ELSE delivered[i][1][1]
    <3>1. \A i \in 1 .. L + 1 : i = L + 1 \/ i \in 1 .. L
      BY <1>2
    <3> HIDE DEF h, f, L
    <3> QED
      BY <1>2, <2>2, <3>1
  <2> HIDE DEF f, L
  <2> QED
    BY <2>1, <2>2, <2>3
<1>5. Service!Last = Frame(L)
  <2>1. Service!Last = IF R = << >> THEN 0 ELSE R[Len(R)]
    BY DEF Service!Last
  <2> HIDE DEF R
  <2>2. CASE L = 0
    BY <1>3, <2>1, <2>2 DEF Frame
  <2>3. CASE L # 0
    <3>1. L \in 1 .. L /\ Len(R) = L /\ R # << >>
      BY <1>2, <1>3, <2>3
    <3>2. R[L] = delivered[L][1][1]
      BY <1>3, <3>1
    <3> QED
      BY <1>2, <2>1, <3>1, <3>2
  <2> QED
    BY <2>2, <2>3
<1>6. /\ f \in 1 .. Len(sent) /\ sent[f] > HEADER_SIZE /\ Frame(L) \in Nat /\ Frame(L) < f
      /\ \A g \in Frame(L) + 1 .. f - 1 : sent[g] <= HEADER_SIZE
  <2>1. L \in 0 .. Len(Messages) /\ (L = 0 \/ L \in 1 .. Len(Messages))
    BY <1>2
  <2>2. f \in 1 .. Len(sent) /\ PayloadOf(f) # << >>
    BY <1>2 DEF DeliverInv
  <2>3. sent[f] > HEADER_SIZE
    BY <2>2, PayloadType
  <2>4. Frame(L) \in Nat
    <3>1. Frame(0) = 0
      BY DEF Frame
    <3>2. \A i \in 1 .. Len(Messages) : Frame(i) \in 1 .. Len(sent)
      BY DEF DeliverInv
    <3> QED
      BY <1>2, <2>1, <3>1, <3>2
  <2> QED
    BY <2>1, <2>2, <2>3, <2>4 DEF DeliverInv
<1> HIDE DEF f, L
<1>7. R' = Append(R, f)
  <2>1. R \in Seq({delivered[i][1][1] : i \in 1 .. L}) /\ Len(R) = L
    BY <1>2, <1>3
  <2> QED
    BY <1>2, <1>3, <1>4
<1>8. f \in Frame(L) + 1 .. Len(sent)
  BY <1>2, <1>6
<1>9. \E g \in Service!Last + 1 .. Len(sent) :
         /\ sent[g] > HEADER_SIZE
         /\ \A e \in Service!Last + 1 .. g - 1 : sent[e] <= HEADER_SIZE
         /\ R' = Append(R, g)
  <2> HIDE DEF R
  <2> QED
    BY <1>5, <1>6, <1>7, <1>8
<1> QED
  BY <1>1, <1>9 DEF Service!Receive

\* DatagramMessageSlicer implements the message service, if no sender closes
\* the socket meanwhile: whatever pieces recv() returns, every payload of the
\* peer is handed over as a whole, in order and without gap.
THEOREM ImplementsService ==
    ASSUME "Datagram" \notin SenderCloses
    PROVE  Spec => ServiceSpec
<1> DEFINE Inv == SlicerInv /\ SliceInv /\ DeliverInv
           R == IF mode = "Datagram"
                THEN [i \in 1 .. Len(delivered) |-> FrameOf(delivered[i])] ELSE << >>
<1>1. Init => Inv
  <2> SUFFICES ASSUME Init PROVE Inv
    OBVIOUS
  <2>1. SlicerInv /\ TypeOK
    BY InitSlicer DEF SlicerInv
  <2>2. InFrame(1)
    <3>1. Cursor(Processed) = << 1, 1 >> /\ HEADER_SIZE \in Nat /\ HEADER_SIZE >= 1
      BY <2>1, SentSizes DEF Init, Processed, Cursor
    <3> QED
      BY <3>1 DEF Init, InFrame, NoMessage
  <2>3. SliceInv
    BY <2>2 DEF Init, SliceInv
  <2>4. DeliverInv
    <3>1. Messages = << >> /\ Len(Messages) = 0
      BY DEF Init, Messages, Cat
    <3>2. Frame(0) = 0 /\ Frame(0 + 1) = 1
      BY <2>1, <2>2, <3>1, FrameIs
    <3> QED
      BY <3>1, <3>2 DEF DeliverInv
  <2> QED
    BY <2>1, <2>3, <2>4
<1>2. Inv /\ [Next]_vars => Inv'
  <2> SUFFICES ASSUME Inv, [Next]_vars PROVE Inv'
    OBVIOUS
  <2>1. CASE Next
    BY <2>1, SlicerStep, SliceStep, DeliverStep DEF SlicerInv
  <2>2. CASE UNCHANGED vars
    <3>1. SlicerInv'
      BY <2>2, SlicerStep
    <3>2. Processed' = Processed /\ Messages' = Messages
      BY <2>2 DEF vars, Processed, Messages
    <3>3. Cursor(Processed)' = Cursor(Processed)
      BY <2>2, <3>2, NextCursor, CursorSame DEF vars
    <3>4. SliceInv'
      BY <2>2, <3>3 DEF vars, SliceInv, InFrame
    <3>5. DeliverInv'
      BY <2>2, <3>2, <3>3 DEF vars, DeliverInv, Frame, PayloadOf, FrameBytes
    <3> QED
      BY <3>1, <3>4, <3>5
  <2> QED
    BY <2>1, <2>2
<1>3. Inv => ReceivedInv
  BY FrameOfMessage DEF SlicerInv
<1>4. Init => Service!Init
  BY DEF Init, Service!Init
<1>5. Inv /\ ReceivedInv /\ ReceivedInv' /\ [Next]_vars
         => [Service!Send \/ Service!Receive]_<< sent, R >>
  <2> SUFFICES ASSUME Inv, ReceivedInv, ReceivedInv', [Next]_vars
               PROVE  [Service!Send \/ Service!Receive]_<< sent, R >>
    OBVIOUS
  <2>1. UNCHANGED << mode, delivered >> => R' = R
    BY DEF ReceivedInv
  <2>2. ASSUME NEW payload \in Payloads, PeerSends(payload) PROVE Service!Send
    <3>1. /\ sent' = Append(sent, HEADER_SIZE + payload) /\ UNCHANGED << mode, delivered >>
      BY <2>2, SizesAssumption DEF PeerSends, FrameLength, historyVars
    <3> QED
      BY <2>1, <3>1 DEF Service!Send
  <2>3. CASE OnNetworkMessage
    <3>1. UNCHANGED << mode, sent >>
      BY <2>3 DEF OnNetworkMessage, peerVars
    <3>2. CASE mode = "Datagram"
      BY <2>3, <3>1, <3>2, HandOver DEF SlicerInv
    <3>3. CASE mode # "Datagram"
      BY <3>1, <3>3
    <3> QED
      BY <3>2, <3>3
  <2>4. \/ \E payload \in Payloads : PeerSends(payload)
        \/ OnNetworkMessage
        \/ UNCHANGED << mode, sent, delivered >>
    BY Zenon DEF Next, Reader, OnReadReady, PullMessages, LoadFd, RecvData, RecvForeign, FillBuffer, RecvAgain,
     RecvEnds, RecvFails,
       ReadHeader, ReadBody, SliceStream, ReceiveNothing, HandlerReturn,
       SenderClosesFd, SenderForgetsFd, SenderResetsBuffer, PeerEnds, peerVars, historyVars, vars
  <2> HIDE DEF R
  <2> QED
    BY <2>1, <2>2, <2>3, <2>4
<1> QED
  BY <1>1, <1>2, <1>3, <1>4, <1>5, PTL DEF Spec, ServiceSpec, Service!Spec
=============================================================================

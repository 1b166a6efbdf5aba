-------------------------- MODULE ByteBufferProofs ---------------------------
(***************************************************************************)
(* Proofs about ByteBuffer, for any number of buffers, values, relays and  *)
(* calls: the header in m_storage announces the bytes behind it, the       *)
(* values read in order are those that were written, and a Stack no buffer *)
(* of which has grown fits in the memory its Send allocates.               *)
(***************************************************************************)
EXTENDS ByteBuffer, SequenceTheorems, WellFoundedInduction, TLAPS

\* What is assumed of the values.
LEMMA ItemTyped ==
  ASSUME NEW it \in Items
  PROVE  /\ it.bytes \in Seq(Bytes) /\ it.width \in Nat /\ it.width \in {0, Len(it.bytes)}
         /\ Encoded(it) \in Seq(Cell) /\ Len(Encoded(it)) \in Nat
         /\ Len(Encoded(it)) = Len(it.bytes) + (IF it.width = 0 THEN 1 ELSE 0)
<1>1. it \in [width : {0, Len(it.bytes)}, bytes : Seq(Bytes)]
  BY ItemsAssumption
<1>2. it.bytes \in Seq(Bytes) /\ it.width \in {0, Len(it.bytes)}
  BY <1>1
<1>3. Len(it.bytes) \in Nat
  BY <1>2, LenProperties
<1>4. it.bytes \in Seq(Cell) /\ Append(it.bytes, 0) \in Seq(Cell)
      /\ Len(Append(it.bytes, 0)) = Len(it.bytes) + 1
  <2>1. it.bytes \in Seq(Cell) /\ 0 \in Cell
    BY <1>2, SeqMonotonic, BytesAssumption DEF Cell
  <2> QED
    BY <2>1
<1>5. CASE it.width = 0
  BY <1>2, <1>3, <1>4, <1>5 DEF Encoded
<1>6. CASE it.width # 0
  <2>1. Encoded(it) = it.bytes
    BY <1>6 DEF Encoded
  <2> QED
    BY <1>2, <1>3, <1>4, <1>6, <2>1
<1> QED
  BY <1>5, <1>6

\* A sequence with one more element.
LEMMA AppendGrows ==
  ASSUME NEW S, NEW q \in Seq(S), NEW e \in S
  PROVE  /\ Append(q, e) \in Seq(S) /\ Append(q, e) # <<>>
         /\ Len(Append(q, e)) = Len(q) + 1 /\ Append(q, e)[Len(q) + 1] = e
         /\ \A i \in 1 .. Len(q) : Append(q, e)[i] = q[i]
<1>1. Len(q) \in Nat
  OBVIOUS
<1>2. Append(q, e) \in Seq(S) /\ Len(Append(q, e)) = Len(q) + 1
  OBVIOUS
<1> QED
  BY <1>1, <1>2

\* A header, field by field.
LEMMA HeaderTyped ==
  ASSUME NEW h \in Header
  PROVE  /\ h.payloadSize \in Nat /\ h.realPayloadSize \in Nat /\ h.isCompressed \in BOOLEAN
         /\ \A tag \in Tags : [h EXCEPT !.tag = tag] \in Header
         /\ \A n \in Nat : [h EXCEPT !.payloadSize = n] \in Header
         /\ \A n \in Nat : Released(h, n) \in Header /\ Decompressed(h, n) \in Header
  BY DEF Header, Released, Decompressed

LEMMA ZeroTyped == ZeroHeader \in Header
  BY DEF Header, ZeroHeader

\* The types of what a buffer is made of.
LEMMA BufferTyped ==
  ASSUME TypeOK, NEW b \in Buffers
  PROVE  /\ header[b] \in Header /\ stored[b] \in Header
         /\ payload[b] \in Seq(Cell) /\ Len(payload[b]) \in Nat
         /\ inside[b] \in Seq(Seq(Cell)) /\ Len(inside[b]) \in Nat
         /\ pos[b] \in Nat /\ written[b] \in Seq(Value) /\ Len(written[b]) \in Nat
         /\ got[b] \in Seq(Seq(Cell)) /\ Len(got[b]) \in Nat
         /\ current[b] \in BOOLEAN /\ inOrder[b] \in BOOLEAN
         /\ GetSize(b) \in Nat
<1>1. header[b] \in Header /\ header[b].payloadSize \in Nat
  BY DEF TypeOK, Header
<1>2. GetSize(b) \in Nat
  BY <1>1, SizesAssumption DEF GetSize
<1>3. /\ stored[b] \in Header /\ payload[b] \in Seq(Cell) /\ inside[b] \in Seq(Seq(Cell))
      /\ pos[b] \in Nat /\ written[b] \in Seq(Value) /\ got[b] \in Seq(Seq(Cell))
      /\ current[b] \in BOOLEAN /\ inOrder[b] \in BOOLEAN
  BY DEF TypeOK
<1> QED
  BY <1>1, <1>2, <1>3, LenProperties

\* A packet on the wire.
LEMMA ImageTyped ==
  ASSUME TypeOK, NEW b \in Buffers
  PROVE  Image(b) \in Packet
  BY BufferTyped DEF Image, Packet

LEMMA InitTyped == Init => TypeOK
  BY ZeroTyped, EmptySeq DEF Init, TypeOK

\* The steps of the sender preserve the types.
LEMMA SenderTyped ==
  ASSUME TypeOK, NEW b \in Buffers, UNCHANGED wire,
         \/ \E tag \in Tags : New(b, tag) \/ Assign(b, tag)
         \/ \E it \in Items : Write(b, it)
         \/ \E k \in DOMAIN written[b] : \E bytes \in [1 .. written[b][k].width -> Bytes] :
              WriteAtPosition(b, k, bytes)
         \/ Release(b)
  PROVE  TypeOK'
<1> USE DEF history, storage
<1>0. calls \in Nat
  BY DEF TypeOK
<1>1. ASSUME NEW tag \in Tags, New(b, tag) PROVE TypeOK'
  <2>1. [header[b] EXCEPT !.tag = tag] \in Header
    BY BufferTyped, HeaderTyped
  <2>2. header' \in [Buffers -> Header]
    BY <1>1, <2>1 DEF New, TypeOK
  <2> QED
    BY <1>0, <1>1, <2>2 DEF New, TypeOK, Counted
<1>2. ASSUME NEW tag \in Tags, Assign(b, tag) PROVE TypeOK'
  <2>1. [header[b] EXCEPT !.tag = tag] \in Header
    BY BufferTyped, HeaderTyped
  <2>2. header' \in [Buffers -> Header] /\ stored' \in [Buffers -> Header]
        /\ current' \in [Buffers -> BOOLEAN]
    BY <1>2, <2>1 DEF Assign, WriteHeader, TypeOK
  <2> QED
    BY <1>0, <1>2, <2>2 DEF Assign, TypeOK, Counted
<1>3. ASSUME NEW it \in Items, Write(b, it) PROVE TypeOK'
  <2>1. payload[b] \o Encoded(it) \in Seq(Cell)
        /\ Len(payload[b] \o Encoded(it)) = Len(payload[b]) + Len(Encoded(it))
    BY BufferTyped, ItemTyped, ConcatProperties
  <2>2. [header[b] EXCEPT !.payloadSize = header[b].payloadSize + Len(Encoded(it))] \in Header
    <3>2. header[b] \in Header /\ header[b].payloadSize \in Nat
      BY BufferTyped, HeaderTyped
    <3>3. Len(Encoded(it)) \in Nat
      BY ItemTyped
    <3>1. header[b] \in Header /\ header[b].payloadSize + Len(Encoded(it)) \in Nat
      BY <3>2, <3>3
    <3> QED
      BY <3>1, HeaderTyped
  <2>3. payload' \in [Buffers -> Seq(Cell)]
    BY <1>3, <2>1 DEF Write, TypeOK
  <2>4. header' \in [Buffers -> Header]
    BY <1>3, <2>2 DEF Write, TypeOK
  <2>5. written' \in [Buffers -> Seq(Value)]
    <3>1. [at |-> Len(payload[b]), width |-> it.width, bytes |-> it.bytes] \in Value
      BY BufferTyped, ItemTyped DEF Value
    <3>2. Append(written[b], [at |-> Len(payload[b]), width |-> it.width, bytes |-> it.bytes])
            \in Seq(Value)
      BY <3>1, BufferTyped
    <3> QED
      BY <1>3, <3>2 DEF Write, TypeOK
  <2>6. \A c \in Buffers : pos'[c] <= Len(payload'[c]) \/ inside'[c] # <<>>
    BY <1>3, <2>1, BufferTyped, ItemTyped DEF Write, TypeOK
  <2>7. current' \in [Buffers -> BOOLEAN] /\ calls' \in Nat
    <3>1. current' = [current EXCEPT ![b] = FALSE] /\ Counted
      BY <1>3 DEF Write
    <3> QED
      BY <1>0, <3>1 DEF TypeOK, Counted
  <2> QED
    BY <1>3, <2>3, <2>4, <2>5, <2>6, <2>7 DEF Write, TypeOK
<1>4. ASSUME NEW k \in DOMAIN written[b], NEW bytes \in [1 .. written[b][k].width -> Bytes],
             WriteAtPosition(b, k, bytes)
      PROVE  TypeOK'
  <2> DEFINE at == written[b][k].at
             p == [i \in DOMAIN payload[b] |->
                     IF i - at \in DOMAIN bytes THEN bytes[i - at] ELSE payload[b][i]]
  <2>1. k \in 1 .. Len(written[b]) /\ written[b][k] \in Value
    BY BufferTyped, LenProperties, ElementOfSeq
  <2>2. at \in Nat /\ written[b][k].width \in Nat
    BY <2>1 DEF Value
  <2>3. bytes \in Seq(Bytes)
    BY <2>2
  <2>4. p \in Seq(Cell) /\ Len(p) = Len(payload[b])
    <3>1. DOMAIN payload[b] = 1 .. Len(payload[b]) /\ Len(payload[b]) \in Nat
          /\ \A i \in 1 .. Len(payload[b]) : payload[b][i] \in Cell
      BY BufferTyped, LenProperties, ElementOfSeq
    <3>2. \A i \in 1 .. Len(payload[b]) : p[i] \in Cell
      BY <3>1 DEF Cell
    <3>3. p \in [1 .. Len(payload[b]) -> Cell]
      BY <3>1, <3>2
    <3> HIDE DEF p
    <3> QED
      BY <3>1, <3>3
  <2>5. [written[b] EXCEPT ![k].bytes = bytes] \in Seq(Value)
    <3>1. [written[b][k] EXCEPT !.bytes = bytes] \in Value
      BY <2>1, <2>3 DEF Value
    <3> QED
      BY <2>1, <3>1, BufferTyped, ExceptSeq
  <2>6. payload' = [payload EXCEPT ![b] = p]
    BY <1>4 DEF WriteAtPosition
  <2>7. payload' \in [Buffers -> Seq(Cell)] /\ \A c \in Buffers : Len(payload'[c]) = Len(payload[c])
    BY <2>4, <2>6 DEF TypeOK
  <2>8. written' \in [Buffers -> Seq(Value)]
    BY <1>4, <2>5 DEF WriteAtPosition, TypeOK
  <2> QED
    <3>1. Counted /\ UNCHANGED <<live, header, stored, inside, pos, stack, stackSize, wire, current,
                                 inOrder, got>>
      BY <1>4 DEF WriteAtPosition
    <3>2. \A c \in Buffers : pos'[c] <= Len(payload'[c]) \/ inside'[c] # <<>>
      BY <2>7, <3>1 DEF TypeOK
    <3> QED
      BY <1>0, <2>7, <2>8, <3>1, <3>2 DEF TypeOK, Counted
<1>5. ASSUME Release(b) PROVE TypeOK'
  <2>1. PICK n \in ZipSizes :
          /\ payload' = [payload EXCEPT ![b] = [i \in 1 .. n |-> Opaque]]
          /\ WriteHeader(b, Released(header[b], n))
    BY <1>5 DEF Release
  <2>2. n \in Nat
    BY SizesAssumption
  <2>3. [i \in 1 .. n |-> Opaque] \in Seq(Cell)
    BY <2>2 DEF Cell
  <2>4. Released(header[b], n) \in Header
    BY <2>2, BufferTyped, HeaderTyped
  <2>5. payload' \in [Buffers -> Seq(Cell)]
    BY <2>1, <2>3 DEF TypeOK
  <2>6. header' \in [Buffers -> Header] /\ stored' \in [Buffers -> Header]
        /\ current' \in [Buffers -> BOOLEAN]
    BY <2>1, <2>4 DEF TypeOK, WriteHeader
  <2>7. Append(inside[b], payload[b]) \in Seq(Seq(Cell)) /\ Append(inside[b], payload[b]) # <<>>
    <3> DEFINE S == Seq(Cell)
               q == inside[b]
               e == payload[b]
    <3>1. q \in Seq(S) /\ e \in S
      BY BufferTyped
    <3> HIDE DEF S, q, e
    <3>2. Append(q, e) \in Seq(S) /\ Append(q, e) # <<>>
      BY <3>1, AppendGrows
    <3> QED
      BY <3>2 DEF S, q, e
  <2>8. inside' \in [Buffers -> Seq(Seq(Cell))]
    BY <1>5, <2>7 DEF TypeOK, Release
  <2>9. \A c \in Buffers : pos'[c] <= Len(payload'[c]) \/ inside'[c] # <<>>
    BY <1>5, <2>1, <2>7 DEF TypeOK, Release
  <2> QED
    <3>1. Counted /\ UNCHANGED <<live, pos, stack, stackSize, wire, written, inOrder, got>>
      BY <1>5 DEF Release
    <3> QED
      BY <1>0, <2>5, <2>6, <2>8, <2>9, <3>1 DEF TypeOK, Counted
<1> QED
  BY <1>1, <1>2, <1>3, <1>4, <1>5

\* The steps that send, and those of a Stack.
LEMMA SendTyped ==
  ASSUME TypeOK,
         \/ \E b \in Buffers : Send(b) \/ Push(b) \/ Delete(b)
         \/ SendStack \/ Clear
  PROVE  TypeOK'
<1> USE DEF history, storage
<1>1. ASSUME NEW b \in Buffers, Send(b) PROVE TypeOK'
  <2>1. <<Image(b)>> \in Seq(Packet)
    BY ImageTyped
  <2> QED
    BY <1>1, <2>1 DEF Send, TypeOK
<1>2. ASSUME NEW b \in Buffers, Push(b) PROVE TypeOK'
  <2> DEFINE E == [buffer : Buffers, size : Nat]
             e == [buffer |-> b, size |-> GetSize(b)]
  <2>1. e \in E /\ stack \in Seq(E) /\ GetSize(b) \in Nat
    BY BufferTyped DEF TypeOK
  <2>2. stack' \in {Append(stack, e), <<e>> \o stack}
    BY <1>2 DEF Push
  <2> HIDE DEF E, e
  <2>3. Append(stack, e) \in Seq(E) /\ <<e>> \o stack \in Seq(E)
    BY <2>1, ConcatProperties
  <2>4. stack' \in Seq(E)
    BY <2>2, <2>3
  <2>5. stackSize' \in Nat
    BY <1>2, <2>1 DEF Push, TypeOK
  <2> QED
    BY <1>2, <2>4, <2>5 DEF Push, TypeOK, E
<1>3. ASSUME SendStack PROVE TypeOK'
  <2> DEFINE E == [buffer : Buffers, size : Nat]
  <2>1. stack \in Seq(E)
    BY DEF TypeOK
  <2>2. \A e \in E : e.buffer \in Buffers
    OBVIOUS
  <2> HIDE DEF E
  <2>3. DOMAIN stack = 1 .. Len(stack) /\ Len(stack) \in Nat /\ \A i \in 1 .. Len(stack) : stack[i] \in E
    BY <2>1, LenProperties, ElementOfSeq
  <2>4. \A i \in 1 .. Len(stack) : Image(stack[i].buffer) \in Packet
    BY <2>2, <2>3, ImageTyped
  <2>5. wire' = [i \in 1 .. Len(stack) |-> Image(stack[i].buffer)]
    BY <1>3, <2>3 DEF SendStack
  <2>6. wire' \in Seq(Packet)
    BY <2>3, <2>4, <2>5
  <2> QED
    BY <1>3, <2>6 DEF SendStack, TypeOK
<1>4. ASSUME NEW D, Destroy(D), UNCHANGED <<wire, calls>>,
             stack' \in {stack, <<>>}, stackSize' \in {stackSize, 0}
      PROVE  TypeOK'
  <2>1. <<>> \in Seq(Cell) /\ <<>> \in Seq(Seq(Cell)) /\ <<>> \in Seq(Value)
        /\ <<>> \in Seq([buffer : Buffers, size : Nat]) /\ Len(<<>>) = 0
    BY EmptySeq
  <2>2. header' \in [Buffers -> Header] /\ stored' \in [Buffers -> Header]
    BY <1>4, ZeroTyped DEF Destroy, TypeOK
  <2>3. payload' \in [Buffers -> Seq(Cell)]
    BY <1>4, <2>1 DEF Destroy, TypeOK
  <2>4. inside' \in [Buffers -> Seq(Seq(Cell))]
    <3> DEFINE S == Seq(Seq(Cell))
    <3>1. inside \in [Buffers -> S] /\ <<>> \in S
      BY <2>1 DEF TypeOK
    <3>2. inside' = [c \in Buffers |-> IF c \in D THEN <<>> ELSE inside[c]]
      BY <1>4 DEF Destroy
    <3> HIDE DEF S
    <3>3. inside' \in [Buffers -> S]
      BY <3>1, <3>2
    <3> QED
      BY <3>3 DEF S
  <2>5. written' \in [Buffers -> Seq(Value)]
    BY <1>4, <2>1 DEF Destroy, TypeOK
  <2>6. got' \in [Buffers -> Seq(Seq(Cell))]
    <3> DEFINE S == Seq(Seq(Cell))
    <3>1. got \in [Buffers -> S] /\ <<>> \in S
      BY <2>1 DEF TypeOK
    <3>2. got' = [c \in Buffers |-> IF c \in D THEN <<>> ELSE got[c]]
      BY <1>4 DEF Destroy
    <3> HIDE DEF S
    <3>3. got' \in [Buffers -> S]
      BY <3>1, <3>2
    <3> QED
      BY <3>3 DEF S
  <2>7. /\ pos' \in [Buffers -> Nat] /\ current' \in [Buffers -> BOOLEAN]
        /\ inOrder' \in [Buffers -> BOOLEAN] /\ live' \subseteq Buffers
    BY <1>4 DEF Destroy, TypeOK
  <2>8. \A c \in Buffers : pos'[c] <= Len(payload'[c]) \/ inside'[c] # <<>>
    BY <1>4, <2>1 DEF Destroy, TypeOK
  <2>9. stack' \in Seq([buffer : Buffers, size : Nat]) /\ stackSize' \in Nat
    <3> DEFINE E == [buffer : Buffers, size : Nat]
    <3>1. stack \in Seq(E) /\ <<>> \in Seq(E) /\ stackSize \in Nat
      BY <2>1 DEF TypeOK
    <3> HIDE DEF E
    <3>3. stackSize' \in Nat
      BY <1>4, <3>1
    <3>2. stack' \in Seq(E)
      <4>1. stack' = stack \/ stack' = <<>>
        BY <1>4, Zenon
      <4> QED
        BY <3>1, <4>1, Zenon
    <3> QED
      BY <3>2, <3>3 DEF E
  <2> QED
    BY <1>4, <2>2, <2>3, <2>4, <2>5, <2>6, <2>7, <2>8, <2>9 DEF TypeOK
<1>5. ASSUME NEW b \in Buffers, Delete(b) PROVE TypeOK'
  BY <1>4, <1>5 DEF Delete
<1>6. ASSUME Clear PROVE TypeOK'
  BY <1>4, <1>6 DEF Clear
<1> QED
  BY <1>1, <1>2, <1>3, <1>5, <1>6

\* A part of a sequence.
LEMMA SubSeqTyped ==
  ASSUME NEW S, NEW q \in Seq(S), NEW m \in Nat, NEW n \in Nat, n <= Len(q)
  PROVE  /\ SubSeq(q, m + 1, n) \in Seq(S)
         /\ Len(SubSeq(q, m + 1, n)) = IF m < n THEN n - m ELSE 0
         /\ \A i \in 1 .. n - m : SubSeq(q, m + 1, n)[i] = q[m + i]
<1>1. Len(q) \in Nat /\ \A i \in m + 1 .. n : i \in 1 .. Len(q) /\ q[i] \in S
  BY LenProperties, ElementOfSeq
<1>2. SubSeq(q, m + 1, n) \in Seq(S)
  BY <1>1, SubSeqProperties
<1>3. Len(SubSeq(q, m + 1, n)) = IF m < n THEN n - m ELSE 0
  BY <1>1, SubSeqProperties
<1>4. \A i \in 1 .. n - m : SubSeq(q, m + 1, n)[i] = q[m + i]
  <2>1. SUFFICES ASSUME NEW i \in 1 .. n - m PROVE SubSeq(q, m + 1, n)[i] = q[m + i]
    OBVIOUS
  <2>2. i \in 1 .. n - (m + 1) + 1 /\ (m + 1) + i - 1 = m + i
    OBVIOUS
  <2> QED
    BY <1>1, <2>2, SubSeqProperties
<1> QED
  BY <1>2, <1>3, <1>4

\* What uncompress makes of a packet.
LEMMA UncompressedTyped ==
  ASSUME NEW p \in Packet
  PROVE  p.inside # <<>> =>
           /\ Uncompressed(p) \in Seq(Cell) /\ Len(Uncompressed(p)) \in Nat
           /\ SubSeq(p.inside, 1, Len(p.inside) - 1) \in Seq(Seq(Cell))
<1> SUFFICES ASSUME p.inside # <<>>
             PROVE  /\ Uncompressed(p) \in Seq(Cell) /\ Len(Uncompressed(p)) \in Nat
                    /\ SubSeq(p.inside, 1, Len(p.inside) - 1) \in Seq(Seq(Cell))
  OBVIOUS
<1> DEFINE S == Seq(Cell)
           q == p.inside
           all == q[Len(q)]
           r == p.header.realPayloadSize
<1>1. q \in Seq(S) /\ q # <<>> /\ p.header \in Header
  BY DEF Packet
<1>2. r \in Nat
  BY <1>1, HeaderTyped DEF Header
<1>3. Len(q) \in Nat /\ Len(q) # 0 /\ all \in S /\ SubSeq(q, 1, Len(q) - 1) \in Seq(S)
  <2> HIDE DEF S, q
  <2>1. Len(q) \in Nat /\ Len(q) # 0
    BY <1>1, EmptySeq, LenProperties
  <2>2. all \in S
    BY <1>1, <2>1, ElementOfSeq
  <2>3. SubSeq(q, 0 + 1, Len(q) - 1) \in Seq(S)
    BY <1>1, <2>1, SubSeqTyped
  <2> QED
    BY <2>1, <2>2, <2>3
<1> DEFINE L == Len(all)
           n == IF r < L THEN r ELSE L
<1>4. DOMAIN all = 1 .. L /\ L \in Nat /\ \A i \in 1 .. L : all[i] \in Cell
  BY <1>3, LenProperties, ElementOfSeq
<1>5. Uncompressed(p) = [i \in 1 .. n |-> all[i]]
  <2>1. Uncompressed(p) = [i \in {j \in DOMAIN all : j <= r} |-> all[i]]
    BY DEF Uncompressed
  <2> HIDE DEF all, r, L
  <2>2. {j \in DOMAIN all : j <= r} = 1 .. n
    BY <1>2, <1>4
  <2> QED
    BY <2>1, <2>2
<1>6. n \in Nat /\ \A i \in 1 .. n : all[i] \in Cell
  BY <1>2, <1>4
<1> HIDE DEF n, all
<1>7. Uncompressed(p) \in Seq(Cell)
  BY <1>5, <1>6
<1> QED
  BY <1>3, <1>7, LenProperties DEF S, q
-----------------------------------------------------------------------------
(* The inductive invariant.                                                *)

\* The bytes the values are in, behind any number of Release.
Base(bytes, levels) == IF levels = <<>> THEN bytes ELSE levels[1]

\* The bytes of a value, the zero of a std::string included.
Span(v) == Len(v.bytes) + (IF v.width = 0 THEN 1 ELSE 0)

\* The place after the first k values of w.
EndOf(w, k) == IF k = 0 THEN 0 ELSE w[k].at + Span(w[k])

\* The value v is where it says in base.
Placed(v, base) ==
  /\ v.width \in {0, Len(v.bytes)}
  /\ v.at + Span(v) <= Len(base)
  /\ \A i \in 1 .. Len(v.bytes) : base[v.at + i] = v.bytes[i]
  /\ v.width = 0 => base[v.at + Len(v.bytes) + 1] = 0

\* The values of w lie in base one after the other, and fill it.
Laid(w, base) ==
  /\ \A k \in 1 .. Len(w) : Placed(w[k], base) /\ w[k].at = EndOf(w, k - 1)
  /\ \A k \in 1 .. Len(w) : \A j \in 1 .. k - 1 : w[j].at + Span(w[j]) <= w[k].at
  /\ Len(base) = EndOf(w, Len(w))

\* What a compressed packet says of the memory it needs is true.
Restores(h, levels) ==
  h.isCompressed => levels # <<>> /\ h.realPayloadSize = Len(levels[Len(levels)])

DeadInv(b) ==
  b \notin live =>
    /\ payload[b] = <<>> /\ inside[b] = <<>> /\ pos[b] = 0
    /\ written[b] = <<>> /\ got[b] = <<>> /\ ~current[b]

SizeInv(b) ==
  /\ header[b].payloadSize = Len(payload[b])
  /\ Restores(header[b], inside[b]) /\ Restores(stored[b], inside[b])
  /\ current[b] => stored[b] = header[b]

LaidInv(b) == Laid(written[b], Base(payload[b], inside[b]))

ReadInv(b) ==
  inside[b] = <<>> =>
    /\ Len(got[b]) <= Len(written[b])
    /\ \A k \in 1 .. Len(got[b]) : got[b][k] = written[b][k].bytes
    /\ inOrder[b] => pos[b] = EndOf(written[b], Len(got[b]))

BufferInv(b) == DeadInv(b) /\ SizeInv(b) /\ LaidInv(b) /\ ReadInv(b)

PacketInv(p) == Restores(p.header, p.inside) /\ Laid(p.written, Base(p.payload, p.inside))

\* The inductive invariant.
IInv ==
  /\ TypeOK
  /\ \A b \in Buffers : BufferInv(b)
  /\ \A i \in 1 .. Len(wire) : PacketInv(wire[i])

\* The packet at the head of the wire.
LEMMA HeadTyped ==
  ASSUME IInv, wire # <<>>
  PROVE  /\ Head(wire) \in Packet /\ PacketInv(Head(wire))
         /\ Tail(wire) \in Seq(Packet) /\ Len(Tail(wire)) = Len(wire) - 1 /\ Len(wire) \in Nat
         /\ \A i \in 1 .. Len(Tail(wire)) : Tail(wire)[i] = wire[i + 1]
<1>1. wire \in Seq(Packet) /\ \A i \in 1 .. Len(wire) : PacketInv(wire[i])
  BY DEF IInv, TypeOK
<1>2. Len(wire) \in Nat /\ Len(wire) # 0
  BY <1>1, EmptySeq, LenProperties
<1>3. Head(wire) = wire[1] /\ Head(wire) \in Packet /\ PacketInv(Head(wire))
  <2>1. Head(wire) = wire[1] /\ wire[1] \in Packet
    BY <1>1, <1>2, ElementOfSeq
  <2> QED
    BY <1>1, <1>2, <2>1
<1>4. Tail(wire) \in Seq(Packet) /\ Len(Tail(wire)) = Len(wire) - 1
      /\ \A i \in 1 .. Len(Tail(wire)) : Tail(wire)[i] = wire[i + 1]
  BY <1>1, <1>2, HeadTailProperties
<1> QED
  BY <1>2, <1>3, <1>4

\* A reading step preserves the types.
LEMMA GotTyped ==
  ASSUME TypeOK, NEW b \in Buffers, NEW w, NEW bytes \in Seq(Cell), NEW n \in Nat,
         pos[b] + n <= Len(payload[b]) \/ n = 0, Got(b, w, bytes, n)
  PROVE  TypeOK'
<1> USE DEF history, storage
<1> DEFINE S == Seq(Cell)
           q == got[b]
<1>1. pos' = [pos EXCEPT ![b] = pos[b] + n] /\ inOrder' = [inOrder EXCEPT ![b] = Expected(b, w)]
      /\ got' = [got EXCEPT ![b] = IF Expected(b, w) THEN Append(q, bytes) ELSE <<>>]
      /\ UNCHANGED <<live, storage, stack, stackSize, wire, current, written, calls>>
  BY DEF Got
<1>2. got \in [Buffers -> Seq(S)] /\ q \in Seq(S) /\ bytes \in S /\ <<>> \in Seq(S)
  BY DEF TypeOK
<1>3. got' \in [Buffers -> Seq(S)]
  <2> HIDE DEF S, q
  <2>1. Append(q, bytes) \in Seq(S)
    BY <1>2, AppendGrows
  <2> QED
    BY <1>1, <1>2, <2>1
<1>4. Expected(b, w) \in BOOLEAN
  BY DEF Expected
<1>5. inOrder' \in [Buffers -> BOOLEAN]
  BY <1>1, <1>4 DEF TypeOK
<1>6. pos' \in [Buffers -> Nat] /\ \A c \in Buffers : pos'[c] <= Len(payload'[c]) \/ inside'[c] # <<>>
  BY <1>1 DEF TypeOK
<1> QED
  BY <1>1, <1>3, <1>5, <1>6 DEF TypeOK

\* What a read returns.
LEMMA FollowingTyped ==
  ASSUME TypeOK, NEW b \in Buffers, NEW n \in Nat, pos[b] + n <= Len(payload[b])
  PROVE  /\ Following(b, n) \in Seq(Cell) /\ Len(Following(b, n)) = n
         /\ \A i \in 1 .. n : Following(b, n)[i] = payload[b][pos[b] + i]
<1>1. payload[b] \in Seq(Cell) /\ pos[b] \in Nat /\ pos[b] + n \in Nat
  BY BufferTyped
<1> DEFINE m == pos[b]
           r == pos[b] + n
<1>2. SubSeq(payload[b], m + 1, r) \in Seq(Cell)
      /\ Len(SubSeq(payload[b], m + 1, r)) = (IF m < r THEN r - m ELSE 0)
      /\ \A i \in 1 .. r - m : SubSeq(payload[b], m + 1, r)[i] = payload[b][m + i]
  <2>1. m \in Nat /\ r \in Nat /\ r <= Len(payload[b])
    BY <1>1
  <2> HIDE DEF m, r
  <2> QED
    BY <1>1, <2>1, SubSeqTyped
<1>3. Following(b, n) = SubSeq(payload[b], m + 1, r)
  BY DEF Following
<1>4. r - m = n /\ (m < r <=> 0 < n)
  BY <1>1
<1>5. \A i \in 1 .. n : Following(b, n)[i] = payload[b][m + i]
  <2> HIDE DEF m, r
  <2> QED
    BY <1>2, <1>3, <1>4
<1>6. Following(b, n) \in Seq(Cell) /\ Len(Following(b, n)) = n
  <2> HIDE DEF m, r
  <2> QED
    BY <1>2, <1>3, <1>4
<1> QED
  BY <1>5, <1>6

\* A string that ends in the payload, or is empty, is all there.
LEMMA StringEnds ==
  ASSUME TypeOK, NEW b \in Buffers, NEW n \in StringLengths(b)
  PROVE  n \in Nat /\ (pos[b] + n <= Len(payload[b]) \/ n = 0)
<1>1. n \in Nat /\ \A i \in 1 .. n : pos[b] + i <= Len(payload[b])
  BY BufferTyped DEF StringLengths
<1> QED
  BY <1>1, BufferTyped

\* The bytes of a string.
LEMMA StringRead ==
  ASSUME TypeOK, NEW b \in Buffers, NEW n \in StringLengths(b)
  PROVE  Following(b, n) \in Seq(Cell)
<1>0. n \in Nat /\ (pos[b] + n <= Len(payload[b]) \/ n = 0)
  BY StringEnds
<1>1. CASE pos[b] + n <= Len(payload[b])
  BY <1>0, <1>1, FollowingTyped
<1>2. CASE n = 0
  <2>1. payload[b] \in Seq(Cell) /\ pos[b] \in Nat
    BY BufferTyped
  <2>2. pos[b] + 1 \in Int /\ pos[b] + 0 \in Int
        /\ \A i \in pos[b] + 1 .. pos[b] + 0 : payload[b][i] \in Cell
    BY <2>1
  <2>3. SubSeq(payload[b], pos[b] + 1, pos[b] + 0) \in Seq(Cell)
    BY <2>1, <2>2, SubSeqProperties
  <2> QED
    BY <1>2, <2>3 DEF Following
<1> QED
  BY <1>0, <1>1, <1>2

\* The steps of the receiver preserve the types.
LEMMA ReceiverTyped ==
  ASSUME IInv, NEW b \in Buffers,
         \/ Receive(b)
         \/ \E it \in Items : Read(b, it.width)
         \/ ReadString(b) \/ ResetPos(b)
  PROVE  TypeOK'
<1> USE DEF history, storage
<1>0. TypeOK /\ BufferInv(b)
  BY DEF IInv
<1>1. ASSUME Receive(b) PROVE TypeOK'
  <2> DEFINE p == Head(wire)
             S == Seq(Cell)
             u == Uncompressed(p)
             front == SubSeq(p.inside, 1, Len(p.inside) - 1)
  <2>1. b \notin live /\ wire # <<>> /\ Framed(p)
    BY <1>1 DEF Receive
  <2>2. p \in Packet /\ PacketInv(p) /\ Tail(wire) \in Seq(Packet)
    BY <2>1, HeadTyped
  <2>3. p.header \in Header /\ p.payload \in Seq(Cell) /\ p.inside \in Seq(S)
        /\ p.written \in Seq(Value)
    BY <2>2 DEF Packet
  <2>4. pos[b] = 0
    BY <1>0, <2>1 DEF BufferInv, DeadInv
  <2>5. p.header.isCompressed => u \in Seq(Cell) /\ Len(u) \in Nat /\ front \in Seq(S)
    BY <2>2, UncompressedTyped DEF PacketInv, Restores
  <2>6. p.header.isCompressed => Decompressed(p.header, Len(u)) \in Header
    BY <2>3, <2>5, HeaderTyped
  <2>7. /\ live' = live \cup {b} /\ written' = [written EXCEPT ![b] = p.written]
        /\ \/ /\ ~p.header.isCompressed
              /\ payload' = [payload EXCEPT ![b] = p.payload]
              /\ inside' = [inside EXCEPT ![b] = p.inside]
              /\ WriteHeader(b, p.header)
           \/ /\ p.header.isCompressed
              /\ payload' = [payload EXCEPT ![b] = u]
              /\ inside' = [inside EXCEPT ![b] = front]
              /\ WriteHeader(b, Decompressed(p.header, Len(u)))
        /\ wire' = Tail(wire)
        /\ UNCHANGED <<pos, inOrder, got, stack, stackSize, calls>>
    BY <1>1 DEF Receive
  <2>8. PICK by \in Seq(Cell), lv \in Seq(S), h \in Header :
          /\ payload' = [payload EXCEPT ![b] = by]
          /\ inside' = [inside EXCEPT ![b] = lv]
          /\ WriteHeader(b, h)
    <3> HIDE DEF p, S, u, front
    <3> QED
      BY <2>3, <2>5, <2>6, <2>7
  <2>9. inside \in [Buffers -> Seq(S)]
    BY <1>0 DEF TypeOK
  <2>10. inside' \in [Buffers -> Seq(S)]
    <3> HIDE DEF S
    <3> QED
      BY <2>8, <2>9
  <2>11. payload' \in [Buffers -> Seq(Cell)]
    BY <1>0, <2>8 DEF TypeOK
  <2>12. header' \in [Buffers -> Header] /\ stored' \in [Buffers -> Header]
         /\ current' \in [Buffers -> BOOLEAN]
    BY <1>0, <2>8 DEF TypeOK, WriteHeader
  <2>13. written' \in [Buffers -> Seq(Value)]
    BY <1>0, <2>3, <2>7 DEF TypeOK
  <2>14. \A c \in Buffers : pos'[c] <= Len(payload'[c]) \/ inside'[c] # <<>>
    <3>1. Len(by) \in Nat
      BY LenProperties
    <3> QED
      BY <1>0, <2>4, <2>7, <2>8, <3>1 DEF TypeOK
  <2>15. live' \subseteq Buffers
    BY <1>0, <2>7 DEF TypeOK
  <2>16. wire' \in Seq(Packet) /\ UNCHANGED <<pos, inOrder, got, stack, stackSize, calls>>
    BY <2>2, <2>7
  <2> HIDE DEF p, u, front
  <2> QED
    BY <1>0, <2>10, <2>11, <2>12, <2>13, <2>14, <2>15, <2>16 DEF TypeOK
<1>2. ASSUME NEW it \in Items, Read(b, it.width) PROVE TypeOK'
  <2>1. it.width \in Nat
    BY ItemTyped
  <2>2. [i \in 1 .. it.width |-> 0] \in Seq(Cell)
    <3>1. 0 \in Cell
      BY BytesAssumption DEF Cell
    <3> QED
      BY <2>1, <3>1
  <2>3. CASE pos[b] + it.width > Len(payload[b])
    <3>1. Got(b, it.width, [i \in 1 .. it.width |-> 0], 0)
      BY <1>0, <1>2, <2>1, <2>3, BufferTyped DEF Read
    <3> QED
      BY <1>0, <2>2, <3>1, GotTyped
  <2>4. CASE pos[b] + it.width <= Len(payload[b])
    <3>1. Got(b, it.width, Following(b, it.width), it.width)
      BY <1>0, <1>2, <2>1, <2>4, BufferTyped DEF Read
    <3> QED
      BY <1>0, <2>1, <2>4, <3>1, GotTyped, FollowingTyped
  <2> QED
    BY <1>0, <2>1, <2>3, <2>4, BufferTyped
<1>3. ASSUME ReadString(b) PROVE TypeOK'
  <2>1. PICK n \in StringLengths(b) :
          Got(b, 0, Following(b, n), IF pos[b] + n < Len(payload[b]) THEN n + 1 ELSE n)
    BY <1>3 DEF ReadString
  <2>2. n \in Nat /\ (pos[b] + n <= Len(payload[b]) \/ n = 0)
    BY <1>0, StringEnds
  <2>3. Following(b, n) \in Seq(Cell)
    BY <1>0, <2>1, StringRead
  <2> DEFINE m == IF pos[b] + n < Len(payload[b]) THEN n + 1 ELSE n
  <2>4. m \in Nat /\ (pos[b] + m <= Len(payload[b]) \/ m = 0)
    BY <1>0, <2>2, BufferTyped
  <2>5. Got(b, 0, Following(b, n), m)
    BY <2>1
  <2> HIDE DEF m
  <2> QED
    BY <1>0, <2>3, <2>4, <2>5, GotTyped
<1>4. ASSUME ResetPos(b) PROVE TypeOK'
  <2> DEFINE S == Seq(Cell)
  <2>1. pos' = [pos EXCEPT ![b] = 0] /\ inOrder' = [inOrder EXCEPT ![b] = TRUE]
        /\ got' = [got EXCEPT ![b] = <<>>]
        /\ UNCHANGED <<live, storage, stack, stackSize, wire, current, written, calls>>
    BY <1>4 DEF ResetPos
  <2>2. got \in [Buffers -> Seq(S)] /\ <<>> \in Seq(S)
    BY <1>0 DEF TypeOK
  <2>3. got' \in [Buffers -> Seq(S)]
    <3> HIDE DEF S
    <3> QED
      BY <2>1, <2>2
  <2>4. pos' \in [Buffers -> Nat] /\ inOrder' \in [Buffers -> BOOLEAN]
        /\ \A c \in Buffers : pos'[c] <= Len(payload'[c]) \/ inside'[c] # <<>>
    BY <1>0, <2>1, BufferTyped DEF TypeOK
  <2> QED
    BY <1>0, <2>1, <2>3, <2>4 DEF TypeOK
<1> QED
  BY <1>1, <1>2, <1>3, <1>4

\* Every step preserves the types.
LEMMA NextTyped ==
  ASSUME IInv, [Next]_vars
  PROVE  TypeOK'
<1>0. TypeOK
  BY DEF IInv
<1>1. ASSUME UNCHANGED vars PROVE TypeOK'
  BY <1>0, <1>1 DEF vars, storage, history, TypeOK
<1>2. ASSUME NEW b \in Buffers,
             \/ \E tag \in Tags : New(b, tag) \/ Assign(b, tag)
             \/ \E it \in Items : Write(b, it)
             \/ \E k \in DOMAIN written[b] : \E bytes \in [1 .. written[b][k].width -> Bytes] :
                  WriteAtPosition(b, k, bytes)
             \/ Release(b)
      PROVE  TypeOK'
  <2>1. UNCHANGED wire
    BY <1>2 DEF New, Assign, Write, WriteAtPosition, Release
  <2> QED
    BY <1>0, <1>2, <2>1, SenderTyped
<1>3. ASSUME NEW b \in Buffers, Send(b) \/ Push(b) \/ Delete(b) PROVE TypeOK'
  BY <1>0, <1>3, SendTyped
<1>4. ASSUME NEW b \in Buffers,
             \/ \E it \in Items : it.width # 0 /\ Read(b, it.width)
             \/ Receive(b) \/ ReadString(b) \/ ResetPos(b)
      PROVE  TypeOK'
  BY <1>4, ReceiverTyped
<1>5. ASSUME SendStack \/ Clear PROVE TypeOK'
  BY <1>0, <1>5, SendTyped
<1> QED
  BY <1>1, <1>2, <1>3, <1>4, <1>5 DEF Next
-----------------------------------------------------------------------------
(* Lemmas about what lies where.                                           *)

LEMMA LaidEmpty == Laid(<<>>, <<>>)
  BY EmptySeq DEF Laid, EndOf

\* The numbers a value is made of.
LEMMA ValueTyped ==
  ASSUME NEW v \in Value
  PROVE  /\ v.at \in Nat /\ v.width \in Nat /\ v.bytes \in Seq(Bytes) /\ Len(v.bytes) \in Nat
         /\ Span(v) \in Nat /\ Len(v.bytes) <= Span(v)
         /\ v.width = 0 => Span(v) = Len(v.bytes) + 1
         /\ v.width # 0 => Span(v) = Len(v.bytes)
<1>1. v.at \in Nat /\ v.width \in Nat /\ v.bytes \in Seq(Bytes)
  BY DEF Value
<1>2. Len(v.bytes) \in Nat
  BY <1>1, LenProperties
<1>3. v.width = 0 => Span(v) = Len(v.bytes) + 1
  BY DEF Span
<1>4. v.width # 0 => Span(v) = Len(v.bytes)
  <2>1. v.width # 0 => Span(v) = Len(v.bytes) + 0
    BY DEF Span
  <2> QED
    BY <1>2, <2>1
<1> QED
  BY <1>1, <1>2, <1>3, <1>4

\* operator<< appends a value where the last one ends.
LEMMA LaidAppend ==
  ASSUME NEW w \in Seq(Value), NEW base \in Seq(Cell), Laid(w, base), NEW it \in Items,
         NEW v, v = [at |-> Len(base), width |-> it.width, bytes |-> it.bytes]
  PROVE  Laid(Append(w, v), base \o Encoded(it))
<1> DEFINE n == Len(w)
           w1 == Append(w, v)
           e == Encoded(it)
           base1 == base \o e
<1>1. /\ v.at = Len(base) /\ v.width = it.width /\ v.bytes = it.bytes
      /\ Len(base) \in Nat /\ n \in Nat
  BY LenProperties
<1>2. v \in Value
  BY <1>1, ItemTyped DEF Value
<1>3. w1 \in Seq(Value) /\ Len(w1) = n + 1 /\ w1[n + 1] = v /\ \A k \in 1 .. n : w1[k] = w[k]
  BY <1>2, AppendGrows
<1>4. e \in Seq(Cell) /\ Len(e) \in Nat /\ Len(e) = Span(v)
  BY <1>1, ItemTyped DEF Span
<1>5. /\ Len(base1) = Len(base) + Len(e)
      /\ \A i \in 1 .. Len(base) : base1[i] = base[i]
      /\ \A i \in 1 .. Len(e) : base1[Len(base) + i] = e[i]
  <2>1. \A i \in 1 .. Len(base) + Len(e) :
          base1[i] = IF i <= Len(base) THEN base[i] ELSE e[i - Len(base)]
    BY <1>4, ConcatProperties
  <2>2. Len(base1) = Len(base) + Len(e)
    BY <1>4, ConcatProperties
  <2> HIDE DEF base1, e
  <2> QED
    BY <1>1, <1>4, <2>1, <2>2
<1>6. \A k \in 1 .. n :
        /\ w[k] \in Value /\ w[k].at \in Nat /\ Span(w[k]) \in Nat /\ Len(w[k].bytes) \in Nat
        /\ Len(w[k].bytes) <= Span(w[k])
        /\ w[k].width = 0 => Span(w[k]) = Len(w[k].bytes) + 1
        /\ w[k].at + Span(w[k]) <= Len(base)
  BY ElementOfSeq, ValueTyped DEF Laid, Placed
<1>7. Placed(v, base1)
  <2>1. it.width \in {0, Len(it.bytes)} /\ Len(it.bytes) \in Nat /\ it.bytes \in Seq(Bytes)
    BY ItemTyped, LenProperties
  <2>2. v.at + Span(v) <= Len(base1)
    BY <1>1, <1>4, <1>5
  <2>3. ASSUME NEW i \in 1 .. Len(v.bytes) PROVE base1[v.at + i] = v.bytes[i]
    <3>1. e[i] = it.bytes[i] /\ i \in 1 .. Len(e)
      <4>1. Len(it.bytes) <= Len(e)
        BY <1>1, <1>2, <1>4, ValueTyped
      <4>2. e[i] = it.bytes[i]
        <5>1. i \in 1 .. Len(it.bytes)
          BY <1>1, <2>3
        <5>2. Append(it.bytes, 0)[i] = it.bytes[i]
          BY <2>1, <5>1, AppendGrows, BytesAssumption
        <5> QED
          BY <5>2 DEF Encoded
      <4> HIDE DEF e
      <4> QED
        BY <1>1, <1>4, <2>1, <4>1, <4>2
    <3> HIDE DEF e, base1
    <3> QED
      BY <1>1, <1>5, <3>1
  <2>4. v.width = 0 => base1[v.at + Len(v.bytes) + 1] = 0
    <3>1. SUFFICES ASSUME v.width = 0 PROVE base1[v.at + Len(v.bytes) + 1] = 0
      OBVIOUS
    <3>2. e = Append(it.bytes, 0) /\ Len(e) = Len(it.bytes) + 1 /\ e[Len(it.bytes) + 1] = 0
      BY <1>1, <2>1, <3>1, AppendGrows, BytesAssumption DEF Encoded
    <3>3. v.at + Len(v.bytes) + 1 = Len(base) + (Len(it.bytes) + 1)
      BY <1>1, <2>1
    <3>4. Len(it.bytes) + 1 \in 1 .. Len(e)
      BY <2>1, <3>2
    <3> HIDE DEF e, base1
    <3> QED
      BY <1>5, <3>2, <3>3, <3>4
  <2> HIDE DEF base1
  <2> QED
    BY <1>1, <2>1, <2>2, <2>3, <2>4 DEF Placed
<1>8. ASSUME NEW k \in 1 .. n PROVE Placed(w[k], base1)
  <2>1. Placed(w[k], base)
    BY DEF Laid
  <2>2. \A i \in 1 .. Len(w[k].bytes) : w[k].at + i \in 1 .. Len(base)
    <3>1. w[k].at \in Nat /\ Len(w[k].bytes) \in Nat /\ w[k].at + Len(w[k].bytes) <= Len(base)
      BY <1>1, <1>6
    <3> QED
      BY <1>1, <3>1
  <2>3. w[k].width = 0 => w[k].at + Len(w[k].bytes) + 1 \in 1 .. Len(base)
    BY <1>1, <1>6
  <2>4. w[k].at + Span(w[k]) <= Len(base1)
    <3> HIDE DEF base1, e
    <3> QED
      BY <1>1, <1>4, <1>5, <1>6
  <2> HIDE DEF base1
  <2> QED
    BY <1>5, <2>1, <2>2, <2>3, <2>4 DEF Placed
<1>9. ASSUME NEW k \in 1 .. n + 1 PROVE Placed(w1[k], base1) /\ w1[k].at = EndOf(w1, k - 1)
  <2> HIDE DEF base1, w1
  <2>1. CASE k = n + 1
    <3>1. EndOf(w1, n) = EndOf(w, n)
      BY <1>1, <1>3 DEF EndOf
    <3>2. v.at = EndOf(w, n)
      BY <1>1 DEF Laid
    <3> QED
      BY <1>1, <1>3, <1>7, <2>1, <3>1, <3>2
  <2>2. CASE k \in 1 .. n
    <3>1. EndOf(w1, k - 1) = EndOf(w, k - 1)
      BY <1>1, <1>3, <2>2 DEF EndOf
    <3>2. w[k].at = EndOf(w, k - 1)
      BY <2>2 DEF Laid
    <3> QED
      BY <1>3, <1>8, <2>2, <3>1, <3>2
  <2> QED
    BY <1>1, <2>1, <2>2
<1>10. ASSUME NEW k \in 1 .. n + 1, NEW j \in 1 .. k - 1 PROVE w1[j].at + Span(w1[j]) <= w1[k].at
  <2> HIDE DEF w1
  <2>1. j \in 1 .. n
    BY <1>1
  <2>2. CASE k = n + 1
    BY <1>1, <1>3, <1>6, <2>1, <2>2
  <2>3. CASE k \in 1 .. n
    BY <1>3, <2>1, <2>3 DEF Laid
  <2> QED
    BY <1>1, <2>2, <2>3
<1>11. Len(base1) = EndOf(w1, Len(w1))
  <2> HIDE DEF base1, w1, e
  <2> QED
    BY <1>1, <1>3, <1>4, <1>5 DEF EndOf
<1> HIDE DEF w1, base1
<1> QED
  BY <1>3, <1>9, <1>10, <1>11 DEF Laid, w1, base1

\* WriteAtPosition replaces a value where it is, and no other one.
LEMMA LaidReplace ==
  ASSUME NEW w \in Seq(Value), NEW base \in Seq(Cell), Laid(w, base), NEW k \in 1 .. Len(w),
         w[k].width # 0, NEW bytes \in [1 .. w[k].width -> Bytes],
         NEW base1,
         base1 = [i \in DOMAIN base |->
                    IF i - w[k].at \in DOMAIN bytes THEN bytes[i - w[k].at] ELSE base[i]]
  PROVE  Laid([w EXCEPT ![k].bytes = bytes], base1)
<1> DEFINE v == w[k]
           w1 == [w EXCEPT ![k].bytes = bytes]
           n == Len(w)
<1>1. v \in Value /\ v.at \in Nat /\ v.width \in Nat /\ Len(v.bytes) \in Nat /\ Span(v) \in Nat
  BY ElementOfSeq, ValueTyped
<1>2. v.width = Len(v.bytes) /\ Span(v) = v.width /\ v.at + v.width <= Len(base)
  <2>1. Placed(v, base)
    BY DEF Laid
  <2>2. v.width = Len(v.bytes) /\ v.at + Span(v) <= Len(base)
    BY <2>1 DEF Placed
  <2>3. Span(v) = Len(v.bytes)
    BY <1>1, ValueTyped
  <2> QED
    BY <2>2, <2>3
<1>3. bytes \in Seq(Bytes) /\ Len(bytes) = v.width
  <2> DEFINE m == v.width
  <2>1. m \in Nat /\ bytes \in [1 .. m -> Bytes]
    BY <1>1
  <2>2. bytes \in Seq(Bytes) /\ Len(bytes) = m
    <3> HIDE DEF m
    <3> QED
      BY <2>1
  <2> QED
    BY <2>2
<1>4. /\ Len(w1) = n /\ n \in Nat /\ DOMAIN w = 1 .. n
      /\ w1[k] = [v EXCEPT !.bytes = bytes]
      /\ \A j \in 1 .. n : j # k => w1[j] = w[j]
  BY LenProperties
<1>5. /\ w1[k].at = v.at /\ w1[k].width = v.width /\ w1[k].bytes = bytes /\ Span(w1[k]) = Span(v)
  <2>1. w1[k].at = v.at /\ w1[k].width = v.width /\ w1[k].bytes = bytes
    BY <1>1, <1>4 DEF Value
  <2> QED
    BY <1>2, <1>3, <2>1 DEF Span
<1>6. \A j \in 1 .. n : w1[j].at = w[j].at /\ Span(w1[j]) = Span(w[j])
  <2> HIDE DEF w1
  <2> QED
    BY <1>4, <1>5
<1>7. DOMAIN base = 1 .. Len(base) /\ Len(base) \in Nat
  BY LenProperties
<1>8. /\ Len(base1) = Len(base)
      /\ \A i \in 1 .. Len(base) : i - v.at \in 1 .. v.width => base1[i] = bytes[i - v.at]
      /\ \A i \in 1 .. Len(base) : i - v.at \notin 1 .. v.width => base1[i] = base[i]
  <2>1. DOMAIN bytes = 1 .. v.width
    OBVIOUS
  <2>2. base1 \in Seq(Bytes \cup Cell \cup {base1[i] : i \in 1 .. Len(base)})
    BY <1>7
  <2>3. Len(base1) = Len(base)
    BY <1>7, <2>2, LenProperties
  <2> HIDE DEF v
  <2> QED
    BY <1>7, <2>1, <2>3 DEF v
<1>9. ASSUME NEW j \in 1 .. n PROVE Placed(w1[j], base1)
  <2> HIDE DEF w1
  <2>1. CASE j = k
    <3>1. \A i \in 1 .. Len(bytes) : base1[v.at + i] = bytes[i]
      <4>1. ASSUME NEW i \in 1 .. Len(bytes) PROVE base1[v.at + i] = bytes[i]
        <5>1. v.at + i \in 1 .. Len(base) /\ (v.at + i) - v.at = i /\ i \in 1 .. v.width
          BY <1>1, <1>2, <1>3, <1>7
        <5> QED
          BY <1>8, <5>1
      <4> QED
        BY <4>1
    <3> QED
      BY <1>1, <1>2, <1>3, <1>5, <1>8, <2>1, <3>1 DEF Placed
  <2>2. CASE j # k
    <3>1. w[j] \in Value /\ w[j].at \in Nat /\ Len(w[j].bytes) \in Nat /\ Span(w[j]) \in Nat
      BY ElementOfSeq, ValueTyped
    <3>2. Placed(w[j], base) /\ w1[j] = w[j]
      BY <1>4, <2>2 DEF Laid
    <3>3. w[j].at + Span(w[j]) <= v.at \/ v.at + Span(v) <= w[j].at
      <4>1. CASE j < k
        <5>1. j \in 1 .. k - 1
          BY <1>4, <4>1
        <5> QED
          BY <5>1 DEF Laid
      <4>2. CASE k < j
        <5>1. k \in 1 .. j - 1
          BY <1>4, <4>2
        <5> QED
          BY <5>1 DEF Laid
      <4> QED
        BY <1>4, <2>2, <4>1, <4>2
    <3>4. \A i \in 1 .. Span(w[j]) : base1[w[j].at + i] = base[w[j].at + i]
      <4>1. ASSUME NEW i \in 1 .. Span(w[j]) PROVE base1[w[j].at + i] = base[w[j].at + i]
        <5>1. w[j].at + i \in 1 .. Len(base)
          BY <1>7, <3>1, <3>2 DEF Placed
        <5>2. (w[j].at + i) - v.at \notin 1 .. v.width
          <6>1. v.at \in Nat /\ v.width \in Nat /\ v.width = Span(v) /\ i \in Nat /\ 1 <= i
                /\ i <= Span(w[j]) /\ w[j].at \in Nat /\ Span(w[j]) \in Nat
            BY <1>1, <1>2, <3>1
          <6> HIDE DEF v
          <6>2. CASE w[j].at + Span(w[j]) <= v.at
            BY <6>1, <6>2
          <6>3. CASE v.at + Span(v) <= w[j].at
            BY <6>1, <6>3
          <6> QED
            BY <3>3, <6>2, <6>3 DEF v
        <5> QED
          BY <1>8, <5>1, <5>2
      <4> QED
        BY <4>1
    <3>5. \A i \in 1 .. Len(w[j].bytes) : base1[w[j].at + i] = w[j].bytes[i]
      <4>1. \A i \in 1 .. Len(w[j].bytes) : i \in 1 .. Span(w[j])
        <5>1. Len(w[j].bytes) <= Span(w[j])
          BY <3>1, ValueTyped
        <5> QED
          BY <3>1, <5>1
      <4> QED
        BY <3>2, <3>4, <4>1 DEF Placed
    <3>6. w[j].width = 0 => base1[w[j].at + Len(w[j].bytes) + 1] = 0
      <4>1. w[j].width = 0 => Len(w[j].bytes) + 1 \in 1 .. Span(w[j])
        BY <3>1, ValueTyped
      <4>2. w[j].width = 0 => base1[w[j].at + (Len(w[j].bytes) + 1)] = base[w[j].at + (Len(w[j].bytes) + 1)]
        BY <3>4, <4>1
      <4>3. w[j].at + (Len(w[j].bytes) + 1) = w[j].at + Len(w[j].bytes) + 1
        BY <3>1
      <4> QED
        BY <3>2, <4>2, <4>3 DEF Placed
    <3> QED
      BY <1>8, <3>2, <3>5, <3>6 DEF Placed
  <2> QED
    BY <2>1, <2>2
<1>10. ASSUME NEW j \in 1 .. n PROVE w1[j].at = EndOf(w1, j - 1)
  <2> HIDE DEF w1
  <2>1. w[j].at = EndOf(w, j - 1)
    BY DEF Laid
  <2>2. EndOf(w1, j - 1) = EndOf(w, j - 1)
    BY <1>4, <1>6 DEF EndOf
  <2> QED
    BY <1>6, <2>1, <2>2
<1>11. ASSUME NEW j \in 1 .. n, NEW i \in 1 .. j - 1 PROVE w1[i].at + Span(w1[i]) <= w1[j].at
  <2> HIDE DEF w1
  <2>1. i \in 1 .. n
    BY <1>4
  <2> QED
    BY <1>6, <2>1 DEF Laid
<1>12. Len(base1) = EndOf(w1, Len(w1))
  <2> HIDE DEF w1
  <2>1. Len(base) = EndOf(w, n)
    BY DEF Laid
  <2>2. EndOf(w1, n) = EndOf(w, n)
    BY <1>4, <1>6 DEF EndOf
  <2> QED
    BY <1>4, <1>8, <2>1, <2>2
<1> HIDE DEF w1
<1> QED
  BY <1>4, <1>9, <1>10, <1>11, <1>12 DEF Laid, w1
-----------------------------------------------------------------------------
(* The steps preserve the invariant of every buffer.                       *)

\* A buffer that a step leaves alone.
LEMMA FrameInv ==
  ASSUME NEW b \in Buffers, BufferInv(b), b \in live' <=> b \in live,
         header'[b] = header[b], stored'[b] = stored[b], payload'[b] = payload[b],
         inside'[b] = inside[b], pos'[b] = pos[b], current'[b] = current[b],
         written'[b] = written[b], inOrder'[b] = inOrder[b], got'[b] = got[b]
  PROVE  BufferInv(b)'
<1>1. DeadInv(b)'
  BY DEF BufferInv, DeadInv
<1>2. SizeInv(b)'
  BY DEF BufferInv, SizeInv
<1>3. LaidInv(b)'
  BY DEF BufferInv, LaidInv
<1>4. ReadInv(b)'
  BY DEF BufferInv, ReadInv
<1> QED
  BY <1>1, <1>2, <1>3, <1>4 DEF BufferInv

\* The constructor.
LEMMA NewKept ==
  ASSUME IInv, NEW b \in Buffers, NEW tag \in Tags, New(b, tag), NEW c \in Buffers
  PROVE  BufferInv(c)'
<1> USE DEF history
<1>0. TypeOK /\ BufferInv(b) /\ BufferInv(c)
  BY DEF IInv
<1>1. /\ b \notin live /\ live' = live \cup {b} /\ header' = [header EXCEPT ![b].tag = tag]
      /\ UNCHANGED <<stored, payload, inside, pos, history>>
  BY DEF New
<1>2. CASE c # b
  <2>1. header'[c] = header[c] /\ (c \in live' <=> c \in live)
    BY <1>0, <1>1, <1>2 DEF TypeOK
  <2> QED
    BY <1>0, <1>1, <2>1, FrameInv
<1>3. CASE c = b
  <2>1. header'[b] = [header[b] EXCEPT !.tag = tag] /\ header[b] \in Header
    BY <1>0, <1>1 DEF TypeOK
  <2>2. /\ header'[b].payloadSize = header[b].payloadSize
        /\ header'[b].realPayloadSize = header[b].realPayloadSize
        /\ header'[b].isCompressed = header[b].isCompressed
    BY <2>1 DEF Header
  <2>3. b \in live' /\ ~current[b]
    BY <1>0, <1>1 DEF BufferInv, DeadInv
  <2>4. SizeInv(b)'
    BY <1>0, <1>1, <2>2, <2>3 DEF BufferInv, SizeInv, Restores
  <2>5. DeadInv(b)'
    BY <2>3 DEF DeadInv
  <2>6. LaidInv(b)'
    BY <1>0, <1>1 DEF BufferInv, LaidInv
  <2>7. ReadInv(b)'
    BY <1>0, <1>1 DEF BufferInv, ReadInv
  <2> QED
    BY <1>3, <2>4, <2>5, <2>6, <2>7 DEF BufferInv
<1> QED
  BY <1>2, <1>3

\* ReplaceOpcode and AssignSpecialId.
LEMMA AssignKept ==
  ASSUME IInv, NEW b \in Buffers, NEW tag \in Tags, Assign(b, tag), NEW c \in Buffers
  PROVE  BufferInv(c)'
<1>0. TypeOK /\ BufferInv(b) /\ BufferInv(c)
  BY DEF IInv
<1> DEFINE h == [header[b] EXCEPT !.tag = tag]
<1>1. /\ b \in live /\ header' = [header EXCEPT ![b] = h] /\ stored' = [stored EXCEPT ![b] = h]
      /\ current' = [current EXCEPT ![b] = TRUE]
      /\ UNCHANGED <<live, payload, inside, pos, written, inOrder, got>>
  BY DEF Assign, WriteHeader
<1>2. CASE c # b
  <2>1. header'[c] = header[c] /\ stored'[c] = stored[c] /\ current'[c] = current[c]
    BY <1>0, <1>1, <1>2 DEF TypeOK
  <2> QED
    BY <1>0, <1>1, <2>1, FrameInv
<1>3. CASE c = b
  <2>1. header'[b] = h /\ stored'[b] = h /\ header[b] \in Header
    BY <1>0, <1>1 DEF TypeOK
  <2>2. /\ h.payloadSize = header[b].payloadSize
        /\ h.realPayloadSize = header[b].realPayloadSize
        /\ h.isCompressed = header[b].isCompressed
    BY <2>1 DEF Header
  <2> HIDE DEF h
  <2>4. SizeInv(b)'
    BY <1>0, <1>1, <2>1, <2>2 DEF BufferInv, SizeInv, Restores
  <2>5. DeadInv(b)'
    BY <1>1 DEF DeadInv
  <2>6. LaidInv(b)'
    BY <1>0, <1>1 DEF BufferInv, LaidInv
  <2>7. ReadInv(b)'
    BY <1>0, <1>1 DEF BufferInv, ReadInv
  <2> QED
    BY <1>3, <2>4, <2>5, <2>6, <2>7 DEF BufferInv
<1> QED
  BY <1>2, <1>3

\* operator<<.
LEMMA WriteKept ==
  ASSUME IInv, NEW b \in Buffers, NEW it \in Items, Write(b, it), NEW c \in Buffers
  PROVE  BufferInv(c)'
<1>0. TypeOK /\ BufferInv(b) /\ BufferInv(c)
  BY DEF IInv
<1> DEFINE e == Encoded(it)
           v == [at |-> Len(payload[b]), width |-> it.width, bytes |-> it.bytes]
<1>1. /\ b \in live
      /\ payload' = [payload EXCEPT ![b] = payload[b] \o e]
      /\ header' = [header EXCEPT ![b].payloadSize = header[b].payloadSize + Len(e)]
      /\ current' = [current EXCEPT ![b] = FALSE]
      /\ written' = [written EXCEPT ![b] = IF inside[b] # <<>> THEN written[b] ELSE Append(written[b], v)]
      /\ UNCHANGED <<live, stored, inside, pos, inOrder, got>>
  BY DEF Write
<1>2. CASE c # b
  <2>1. /\ header'[c] = header[c] /\ payload'[c] = payload[c] /\ current'[c] = current[c]
        /\ written'[c] = written[c]
    BY <1>0, <1>1, <1>2 DEF TypeOK
  <2> QED
    BY <1>0, <1>1, <2>1, FrameInv
<1>3. CASE c = b
  <2>1. header[b] \in Header /\ payload[b] \in Seq(Cell) /\ written[b] \in Seq(Value)
    BY <1>0, BufferTyped
  <2>2. e \in Seq(Cell) /\ Len(e) \in Nat
    BY ItemTyped
  <2>3. Len(payload[b] \o e) = Len(payload[b]) + Len(e)
    BY <2>1, <2>2, ConcatProperties
  <2>4. payload'[b] = payload[b] \o e /\ ~current'[b]
        /\ header'[b] = [header[b] EXCEPT !.payloadSize = header[b].payloadSize + Len(e)]
    BY <1>0, <1>1 DEF TypeOK
  <2>5. /\ header'[b].payloadSize = header[b].payloadSize + Len(e)
        /\ header'[b].realPayloadSize = header[b].realPayloadSize
        /\ header'[b].isCompressed = header[b].isCompressed
    BY <2>1, <2>4 DEF Header
  <2>6. SizeInv(b)'
    <3> HIDE DEF e
    <3> QED
      BY <1>0, <1>1, <2>3, <2>4, <2>5 DEF BufferInv, SizeInv, Restores
  <2>7. DeadInv(b)'
    BY <1>1 DEF DeadInv
  <2>8. CASE inside[b] # <<>>
    <3>1. written'[b] = written[b] /\ inside'[b] = inside[b]
      BY <1>0, <1>1, <2>8 DEF TypeOK
    <3>2. LaidInv(b)'
      BY <1>0, <2>8, <3>1 DEF BufferInv, LaidInv, Base
    <3>3. ReadInv(b)'
      BY <2>8, <3>1 DEF ReadInv
    <3> QED
      BY <1>3, <2>6, <2>7, <3>2, <3>3 DEF BufferInv
  <2>9. CASE inside[b] = <<>>
    <3>1. written'[b] = Append(written[b], v) /\ inside'[b] = <<>>
      BY <1>0, <1>1, <2>9 DEF TypeOK
    <3>2. Laid(written[b], payload[b])
      BY <1>0, <2>9 DEF BufferInv, LaidInv, Base
    <3>3. Laid(Append(written[b], v), payload[b] \o e)
      BY <2>1, <3>2, LaidAppend
    <3>4. LaidInv(b)'
      <4> HIDE DEF v, e
      <4> QED
        BY <2>4, <3>1, <3>3 DEF LaidInv, Base
    <3>5. v \in Value
      BY <2>1, ItemTyped, LenProperties DEF Value
    <3>6. Len(Append(written[b], v)) = Len(written[b]) + 1 /\ Len(written[b]) \in Nat
          /\ \A k \in 1 .. Len(written[b]) : Append(written[b], v)[k] = written[b][k]
      BY <2>1, <3>5, AppendGrows, LenProperties
    <3>7. Len(got[b]) \in Nat /\ got'[b] = got[b] /\ pos'[b] = pos[b] /\ inOrder'[b] = inOrder[b]
      BY <1>0, <1>1, BufferTyped
    <3>8. Len(got[b]) <= Len(written[b]) /\ (\A k \in 1 .. Len(got[b]) : got[b][k] = written[b][k].bytes)
          /\ (inOrder[b] => pos[b] = EndOf(written[b], Len(got[b])))
      BY <1>0, <2>9 DEF BufferInv, ReadInv
    <3>9. EndOf(written'[b], Len(got[b])) = EndOf(written[b], Len(got[b]))
      <4> HIDE DEF v
      <4> QED
        BY <3>1, <3>6, <3>7, <3>8 DEF EndOf
    <3>10. ReadInv(b)'
      <4> HIDE DEF v
      <4> QED
        BY <3>1, <3>6, <3>7, <3>8, <3>9 DEF ReadInv
    <3> QED
      BY <1>3, <2>6, <2>7, <3>4, <3>10 DEF BufferInv
  <2> QED
    BY <2>8, <2>9
<1> QED
  BY <1>2, <1>3

\* WriteAtPosition.
LEMMA WriteAtPositionKept ==
  ASSUME IInv, NEW b \in Buffers, NEW k \in DOMAIN written[b],
         NEW bytes \in [1 .. written[b][k].width -> Bytes], WriteAtPosition(b, k, bytes),
         NEW c \in Buffers
  PROVE  BufferInv(c)'
<1>0. TypeOK /\ BufferInv(b) /\ BufferInv(c)
  BY DEF IInv
<1> DEFINE w == written[b]
           p == [i \in DOMAIN payload[b] |->
                   IF i - w[k].at \in DOMAIN bytes THEN bytes[i - w[k].at] ELSE payload[b][i]]
           w1 == [w EXCEPT ![k].bytes = bytes]
<1>1. /\ b \in live /\ w[k].width # 0 /\ inside[b] = <<>> /\ Len(got[b]) < k
      /\ payload' = [payload EXCEPT ![b] = p]
      /\ written' = [written EXCEPT ![b] = w1]
      /\ UNCHANGED <<live, header, stored, inside, pos, current, inOrder, got>>
  BY DEF WriteAtPosition
<1>2. CASE c # b
  <2>1. payload'[c] = payload[c] /\ written'[c] = written[c]
    BY <1>0, <1>1, <1>2 DEF TypeOK
  <2> QED
    BY <1>0, <1>1, <2>1, FrameInv
<1>3. CASE c = b
  <2>1. w \in Seq(Value) /\ payload[b] \in Seq(Cell) /\ k \in 1 .. Len(w) /\ Len(w) \in Nat
        /\ DOMAIN w = 1 .. Len(w)
    BY <1>0, BufferTyped, LenProperties
  <2>2. payload'[b] = p /\ written'[b] = w1
    BY <1>0, <1>1 DEF TypeOK
  <2>3. Laid(w, payload[b])
    BY <1>0, <1>1 DEF BufferInv, LaidInv, Base
  <2>4. Laid(w1, p)
    BY <1>1, <2>1, <2>3, LaidReplace
  <2>5. LaidInv(b)'
    <3> HIDE DEF p, w1
    <3> QED
      BY <1>1, <2>2, <2>4 DEF LaidInv, Base
  <2>6. Len(p) = Len(payload[b])
    <3>1. DOMAIN payload[b] = 1 .. Len(payload[b]) /\ Len(payload[b]) \in Nat
      BY <2>1, LenProperties
    <3>2. DOMAIN p = 1 .. Len(payload[b]) /\ p \in Seq({p[i] : i \in 1 .. Len(payload[b])})
      BY <3>1
    <3> HIDE DEF p
    <3> QED
      BY <3>1, <3>2, LenProperties
  <2>7. SizeInv(b)'
    <3> HIDE DEF p
    <3> QED
      BY <1>0, <1>1, <2>2, <2>6 DEF BufferInv, SizeInv
  <2>8. DeadInv(b)'
    BY <1>1 DEF DeadInv
  <2>9. Len(w1) = Len(w) /\ \A j \in 1 .. Len(w) : j # k => w1[j] = w[j]
    BY <2>1, LenProperties
  <2>10. Len(got[b]) \in Nat /\ Len(got[b]) <= Len(w)
         /\ (\A j \in 1 .. Len(got[b]) : got[b][j] = w[j].bytes)
         /\ (inOrder[b] => pos[b] = EndOf(w, Len(got[b])))
    BY <1>0, <1>1, BufferTyped DEF BufferInv, ReadInv
  <2>11. \A j \in 1 .. Len(got[b]) : j \in 1 .. Len(w) /\ j # k
    BY <1>1, <2>1, <2>10
  <2>12. EndOf(w1, Len(got[b])) = EndOf(w, Len(got[b]))
    <3> HIDE DEF w1, w
    <3>1. Len(got[b]) = 0 \/ Len(got[b]) \in 1 .. Len(got[b])
      BY <2>10
    <3> QED
      BY <2>9, <2>11, <3>1 DEF EndOf
  <2>13. ReadInv(b)'
    <3> HIDE DEF w1
    <3> QED
      BY <1>1, <2>2, <2>9, <2>10, <2>11, <2>12 DEF ReadInv
  <2> QED
    BY <1>3, <2>5, <2>7, <2>8, <2>13 DEF BufferInv
<1> QED
  BY <1>2, <1>3

\* Release.
LEMMA ReleaseKept ==
  ASSUME IInv, NEW b \in Buffers, Release(b), NEW c \in Buffers
  PROVE  BufferInv(c)'
<1>0. TypeOK /\ BufferInv(b) /\ BufferInv(c)
  BY DEF IInv
<1>1. PICK n \in ZipSizes :
        /\ payload' = [payload EXCEPT ![b] = [i \in 1 .. n |-> Opaque]]
        /\ WriteHeader(b, Released(header[b], n))
  BY DEF Release
<1> DEFINE h == Released(header[b], n)
           z == [i \in 1 .. n |-> Opaque]
           lv == Append(inside[b], payload[b])
<1>2. /\ b \in live /\ inside' = [inside EXCEPT ![b] = lv]
      /\ payload' = [payload EXCEPT ![b] = z]
      /\ header' = [header EXCEPT ![b] = h] /\ stored' = [stored EXCEPT ![b] = h]
      /\ current' = [current EXCEPT ![b] = TRUE]
      /\ UNCHANGED <<live, pos, written, inOrder, got>>
  BY <1>1 DEF Release, WriteHeader
<1>3. CASE c # b
  <2>1. /\ header'[c] = header[c] /\ stored'[c] = stored[c] /\ current'[c] = current[c]
        /\ payload'[c] = payload[c] /\ inside'[c] = inside[c]
    BY <1>0, <1>2, <1>3 DEF TypeOK
  <2> QED
    BY <1>0, <1>2, <2>1, FrameInv
<1>4. CASE c = b
  <2>1. /\ header'[b] = h /\ stored'[b] = h /\ payload'[b] = z /\ inside'[b] = lv
    BY <1>0, <1>2 DEF TypeOK
  <2>2. n \in Nat /\ Len(z) = n
    <3>1. n \in Nat
      BY SizesAssumption
    <3> QED
      BY <3>1
  <2>3. header[b] \in Header /\ header[b].payloadSize = Len(payload[b])
    BY <1>0, BufferTyped DEF BufferInv, SizeInv
  <2>4. h.payloadSize = n /\ h.realPayloadSize = Len(payload[b]) /\ h.isCompressed
    BY <2>3 DEF Header, Released
  <2>5. lv # <<>> /\ Len(lv) = Len(inside[b]) + 1 /\ lv[Len(lv)] = payload[b]
        /\ Len(inside[b]) \in Nat /\ (inside[b] # <<>> => lv[1] = inside[b][1])
        /\ (inside[b] = <<>> => lv[1] = payload[b])
    <3> DEFINE S == Seq(Cell)
               q == inside[b]
               e == payload[b]
    <3>1. q \in Seq(S) /\ e \in S /\ Len(q) \in Nat
      BY <1>0, BufferTyped
    <3> HIDE DEF S, q, e
    <3>2. Append(q, e) # <<>> /\ Len(Append(q, e)) = Len(q) + 1 /\ Append(q, e)[Len(q) + 1] = e
          /\ \A i \in 1 .. Len(q) : Append(q, e)[i] = q[i]
      BY <3>1, AppendGrows
    <3>3. q # <<>> => 1 \in 1 .. Len(q)
      BY <3>1, EmptySeq
    <3>4. q = <<>> => Len(q) + 1 = 1
      BY <3>1, EmptySeq
    <3> QED
      BY <3>1, <3>2, <3>3, <3>4 DEF q, e
  <2> HIDE DEF h, z, lv
  <2>6. SizeInv(b)'
    BY <2>1, <2>2, <2>4, <2>5 DEF SizeInv, Restores
  <2>7. DeadInv(b)'
    BY <1>2 DEF DeadInv
  <2>8. Base(z, lv) = Base(payload[b], inside[b])
    BY <2>5 DEF Base
  <2>9. LaidInv(b)'
    BY <1>0, <1>2, <2>1, <2>8 DEF BufferInv, LaidInv
  <2>10. ReadInv(b)'
    BY <2>1, <2>5 DEF ReadInv
  <2> QED
    BY <1>4, <2>6, <2>7, <2>9, <2>10 DEF BufferInv
<1> QED
  BY <1>3, <1>4

\* The destructor.
LEMMA DestroyKept ==
  ASSUME IInv, NEW D, Destroy(D), NEW c \in Buffers
  PROVE  BufferInv(c)'
<1>0. BufferInv(c)
  BY DEF IInv
<1>1. CASE c \notin D
  <2>1. /\ header'[c] = header[c] /\ stored'[c] = stored[c] /\ current'[c] = current[c]
        /\ payload'[c] = payload[c] /\ inside'[c] = inside[c] /\ pos'[c] = pos[c]
        /\ written'[c] = written[c] /\ inOrder'[c] = inOrder[c] /\ got'[c] = got[c]
        /\ (c \in live' <=> c \in live)
    BY <1>1 DEF Destroy
  <2> QED
    BY <1>0, <2>1, FrameInv
<1>2. CASE c \in D
  <2>1. /\ header'[c] = ZeroHeader /\ stored'[c] = ZeroHeader /\ ~current'[c]
        /\ payload'[c] = <<>> /\ inside'[c] = <<>> /\ pos'[c] = 0
        /\ written'[c] = <<>> /\ got'[c] = <<>>
    BY <1>2 DEF Destroy
  <2>2. Len(<<>>) = 0
    BY EmptySeq
  <2>3. DeadInv(c)'
    BY <2>1 DEF DeadInv
  <2>4. SizeInv(c)'
    BY <2>1, <2>2 DEF SizeInv, Restores, ZeroHeader
  <2>5. LaidInv(c)'
    BY <2>1, LaidEmpty DEF LaidInv, Base
  <2>6. ReadInv(c)'
    BY <2>1, <2>2 DEF ReadInv, EndOf
  <2> QED
    BY <2>3, <2>4, <2>5, <2>6 DEF BufferInv
<1> QED
  BY <1>1, <1>2
\* A decompressed packet is the one that was compressed.
LEMMA UncompressedWhole ==
  ASSUME NEW p \in Packet, PacketInv(p), p.header.isCompressed,
         NEW front, front = SubSeq(p.inside, 1, Len(p.inside) - 1)
  PROVE  Base(Uncompressed(p), front) = Base(p.payload, p.inside)
<1> DEFINE S == Seq(Cell)
           q == p.inside
           m == Len(q) - 1
           all == q[Len(q)]
           r == p.header.realPayloadSize
<1>1. q \in Seq(S) /\ q # <<>> /\ r = Len(all)
  BY DEF Packet, PacketInv, Restores
<1>2. /\ Len(q) \in Nat /\ Len(q) # 0 /\ m \in Nat /\ m <= Len(q) /\ all \in S
      /\ SubSeq(q, 0 + 1, m) \in Seq(S) /\ Len(SubSeq(q, 0 + 1, m)) = (IF 0 < m THEN m - 0 ELSE 0)
      /\ \A i \in 1 .. m - 0 : SubSeq(q, 0 + 1, m)[i] = q[0 + i]
  <2> HIDE DEF S, q
  <2>1. Len(q) \in Nat /\ Len(q) # 0
    BY <1>1, EmptySeq, LenProperties
  <2>2. m \in Nat /\ m <= Len(q) /\ all \in S
    BY <1>1, <2>1, ElementOfSeq
  <2> HIDE DEF m
  <2> QED
    BY <1>1, <2>1, <2>2, SubSeqTyped
<1>3. Uncompressed(p) = all
  <2>1. DOMAIN all = 1 .. Len(all) /\ Len(all) \in Nat /\ all = [i \in DOMAIN all |-> all[i]]
    BY <1>2, LenProperties
  <2>2. Uncompressed(p) = [i \in {j \in DOMAIN all : j <= r} |-> all[i]]
    BY DEF Uncompressed
  <2> HIDE DEF all, r
  <2>3. {j \in DOMAIN all : j <= r} = DOMAIN all
    BY <1>1, <2>1
  <2> QED
    BY <2>1, <2>2, <2>3
<1>4. front = SubSeq(q, 0 + 1, m)
  OBVIOUS
<1>5. CASE m = 0
  <2>1. front = <<>>
    <3>1. front \in Seq(S) /\ Len(front) = 0
      BY <1>2, <1>4, <1>5
    <3> HIDE DEF S
    <3> QED
      BY <3>1, EmptySeq
  <2>2. all = q[1]
    BY <1>2, <1>5
  <2> QED
    BY <1>1, <1>3, <2>1, <2>2 DEF Base
<1>6. CASE m # 0
  <2>1. front # <<>> /\ front[1] = q[1]
    <3>1. m \in Nat
      BY <1>2
    <3>2. 1 \in 1 .. m - 0 /\ 0 < m /\ m - 0 = m
      <4> HIDE DEF m
      <4> QED
        BY <1>6, <3>1
    <3>3. front[1] = q[0 + 1] /\ Len(front) = m /\ 0 + 1 = 1
      <4> HIDE DEF m, q
      <4> QED
        BY <1>2, <1>4, <3>2
    <3>4. front # <<>>
      <4>1. Len(<<>>) = 0
        BY EmptySeq
      <4> HIDE DEF m
      <4> QED
        BY <1>6, <3>3, <4>1
    <3> HIDE DEF q
    <3> QED
      BY <3>3, <3>4
  <2> QED
    BY <1>1, <2>1 DEF Base
<1> QED
  BY <1>5, <1>6

\* ByteBuffer(p_data, p_header).
LEMMA ReceiveKept ==
  ASSUME IInv, NEW b \in Buffers, Receive(b), NEW c \in Buffers
  PROVE  BufferInv(c)'
<1>0. TypeOK /\ BufferInv(b) /\ BufferInv(c)
  BY DEF IInv
<1> DEFINE p == Head(wire)
           u == Uncompressed(p)
           front == SubSeq(p.inside, 1, Len(p.inside) - 1)
<1>1. /\ b \notin live /\ wire # <<>> /\ Framed(p)
      /\ live' = live \cup {b} /\ written' = [written EXCEPT ![b] = p.written]
      /\ \/ /\ ~p.header.isCompressed
            /\ payload' = [payload EXCEPT ![b] = p.payload]
            /\ inside' = [inside EXCEPT ![b] = p.inside]
            /\ WriteHeader(b, p.header)
         \/ /\ p.header.isCompressed
            /\ payload' = [payload EXCEPT ![b] = u]
            /\ inside' = [inside EXCEPT ![b] = front]
            /\ WriteHeader(b, Decompressed(p.header, Len(u)))
      /\ UNCHANGED <<pos, inOrder, got>>
  BY DEF Receive
<1>2. p \in Packet /\ PacketInv(p)
  BY <1>1, HeadTyped
<1>3. p.header \in Header
  BY <1>2 DEF Packet
<1>4. p.header.isCompressed =>
        LET h == Decompressed(p.header, Len(u)) IN h.payloadSize = Len(u) /\ ~h.isCompressed
  BY <1>3 DEF Header, Decompressed
<1>5. p.header.isCompressed => Base(u, front) = Base(p.payload, p.inside)
  BY <1>2, UncompressedWhole
<1>6. Laid(p.written, Base(p.payload, p.inside)) /\ Restores(p.header, p.inside)
  BY <1>2 DEF PacketInv
<1>7. PICK by, lv, h :
        /\ payload' = [payload EXCEPT ![b] = by] /\ inside' = [inside EXCEPT ![b] = lv]
        /\ WriteHeader(b, h)
        /\ h.payloadSize = Len(by) /\ Restores(h, lv) /\ Laid(p.written, Base(by, lv))
  <2>1. CASE ~p.header.isCompressed
    <3>1. p.header.payloadSize = Len(p.payload)
      BY <1>1 DEF Framed
    <3> HIDE DEF p, u, front
    <3> QED
      BY <1>1, <1>6, <2>1, <3>1
  <2>2. CASE p.header.isCompressed
    <3> DEFINE h == Decompressed(p.header, Len(u))
    <3>1. h.payloadSize = Len(u) /\ ~h.isCompressed
      BY <1>4, <2>2
    <3>2. payload' = [payload EXCEPT ![b] = u] /\ inside' = [inside EXCEPT ![b] = front]
          /\ WriteHeader(b, h)
      BY <1>1, <2>2
    <3>3. Laid(p.written, Base(u, front))
      BY <1>5, <1>6, <2>2
    <3> HIDE DEF p, u, front, h
    <3>4. Restores(h, front)
      BY <3>1 DEF Restores
    <3> QED
      BY <3>1, <3>2, <3>3, <3>4
  <2> QED
    BY <2>1, <2>2
<1> HIDE DEF p, u, front
<1>8. /\ header' = [header EXCEPT ![b] = h] /\ stored' = [stored EXCEPT ![b] = h]
      /\ current' = [current EXCEPT ![b] = TRUE]
  BY <1>7 DEF WriteHeader
<1>9. CASE c # b
  <2>1. /\ header'[c] = header[c] /\ stored'[c] = stored[c] /\ current'[c] = current[c]
        /\ payload'[c] = payload[c] /\ inside'[c] = inside[c] /\ written'[c] = written[c]
    BY <1>0, <1>1, <1>7, <1>8, <1>9 DEF TypeOK
  <2>2. c \in live' <=> c \in live
    BY <1>1, <1>9
  <2> QED
    BY <1>0, <1>1, <2>1, <2>2, FrameInv
<1>10. CASE c = b
  <2>1. /\ header'[b] = h /\ stored'[b] = h /\ payload'[b] = by /\ inside'[b] = lv
        /\ written'[b] = p.written
    BY <1>0, <1>1, <1>7, <1>8 DEF TypeOK
  <2>2. got'[b] = <<>> /\ pos'[b] = 0 /\ b \in live'
    BY <1>0, <1>1 DEF BufferInv, DeadInv
  <2>3. DeadInv(b)'
    BY <2>2 DEF DeadInv
  <2>4. SizeInv(b)'
    BY <1>7, <2>1 DEF SizeInv
  <2>5. LaidInv(b)'
    BY <1>7, <2>1 DEF LaidInv
  <2>6. ReadInv(b)'
    <3>1. Len(<<>>) = 0 /\ Len(p.written) \in Nat
      BY <1>2, EmptySeq, LenProperties DEF Packet
    <3> QED
      BY <2>1, <2>2, <3>1 DEF ReadInv, EndOf
  <2> QED
    BY <1>10, <2>3, <2>4, <2>5, <2>6 DEF BufferInv
<1> QED
  BY <1>9, <1>10

\* A read that returns what is expected, if something is.
LEMMA GotKept ==
  ASSUME IInv, NEW b \in Buffers, NEW w, NEW bytes \in Seq(Cell), NEW n, Got(b, w, bytes, n), b \in live,
         inside[b] = <<>> /\ Expected(b, w) =>
           LET k == Len(got[b]) + 1
           IN bytes = written[b][k].bytes /\ pos[b] + n = EndOf(written[b], k),
         NEW c \in Buffers
  PROVE  BufferInv(c)'
<1> USE DEF storage
<1>0. TypeOK /\ BufferInv(b) /\ BufferInv(c) /\ (b \in live' <=> b \in live)
  BY DEF IInv, Got
<1> DEFINE q == got[b]
           g == IF Expected(b, w) THEN Append(q, bytes) ELSE <<>>
<1>1. /\ pos' = [pos EXCEPT ![b] = pos[b] + n]
      /\ inOrder' = [inOrder EXCEPT ![b] = Expected(b, w)]
      /\ got' = [got EXCEPT ![b] = g]
      /\ UNCHANGED <<live, header, stored, payload, inside, current, written>>
  BY DEF Got
<1>2. CASE c # b
  <2>1. pos'[c] = pos[c] /\ inOrder'[c] = inOrder[c] /\ got'[c] = got[c]
    BY <1>0, <1>1, <1>2 DEF TypeOK
  <2> QED
    BY <1>0, <1>1, <2>1, FrameInv
<1>3. CASE c = b
  <2>1. pos'[b] = pos[b] + n /\ inOrder'[b] = Expected(b, w) /\ got'[b] = g
    BY <1>0, <1>1 DEF TypeOK
  <2>2. DeadInv(b)'
    BY <1>1 DEF DeadInv
  <2>3. SizeInv(b)'
    BY <1>0, <1>1 DEF BufferInv, SizeInv
  <2>4. LaidInv(b)'
    BY <1>0, <1>1 DEF BufferInv, LaidInv
  <2>5. ASSUME inside[b] = <<>> PROVE ReadInv(b)'
    <3>1. CASE ~Expected(b, w)
      <4>1. Len(<<>>) = 0 /\ Len(written[b]) \in Nat
        BY <1>0, EmptySeq, BufferTyped
      <4> QED
        BY <1>1, <2>1, <3>1, <4>1 DEF ReadInv
    <3>2. CASE Expected(b, w)
      <4> DEFINE S == Seq(Cell)
                 m == Len(q)
      <4>1. q \in Seq(S) /\ bytes \in S /\ m \in Nat
        BY <1>0, BufferTyped
      <4>2. m + 1 <= Len(written[b]) /\ bytes = written[b][m + 1].bytes
            /\ pos[b] + n = EndOf(written[b], m + 1)
        BY <2>5, <3>2 DEF Expected
      <4>3. Len(Append(q, bytes)) = m + 1 /\ Append(q, bytes)[m + 1] = bytes
            /\ \A i \in 1 .. m : Append(q, bytes)[i] = q[i]
        <5> HIDE DEF S, q
        <5> QED
          BY <4>1, AppendGrows
      <4>4. got'[b] = Append(q, bytes)
        BY <2>1, <3>2
      <4>5. \A i \in 1 .. m : q[i] = written[b][i].bytes
        BY <1>0, <2>5 DEF BufferInv, ReadInv
      <4>6. \A i \in 1 .. m + 1 : got'[b][i] = written[b][i].bytes
        <5> HIDE DEF q, m
        <5>1. SUFFICES ASSUME NEW i \in 1 .. m + 1 PROVE got'[b][i] = written[b][i].bytes
          OBVIOUS
        <5>2. i \in 1 .. m \/ i = m + 1
          BY <4>1
        <5> QED
          BY <4>2, <4>3, <4>4, <4>5, <5>2
      <4>7. Len(got'[b]) = m + 1 /\ pos'[b] = EndOf(written[b], m + 1)
        BY <2>1, <4>2, <4>3, <4>4
      <4> HIDE DEF m
      <4> QED
        BY <1>1, <4>2, <4>6, <4>7 DEF ReadInv
    <3> QED
      BY <3>1, <3>2
  <2>6. ReadInv(b)'
    BY <1>1, <2>5 DEF ReadInv
  <2> QED
    BY <1>3, <2>2, <2>3, <2>4, <2>6 DEF BufferInv
<1> QED
  BY <1>2, <1>3

\* Where the next value to read is.
LEMMA NextValue ==
  ASSUME IInv, NEW b \in Buffers, NEW w, inside[b] = <<>>, Expected(b, w),
         NEW k, k = Len(got[b]) + 1
  PROVE  LET v == written[b][k] IN
         /\ k \in 1 .. Len(written[b]) /\ v \in Value /\ v.width = w /\ v.at = pos[b]
         /\ pos[b] + Span(v) <= Len(payload[b]) /\ pos[b] + Span(v) = EndOf(written[b], k)
         /\ \A i \in 1 .. Len(v.bytes) : payload[b][pos[b] + i] = v.bytes[i]
         /\ w = 0 =>
              /\ payload[b][pos[b] + Len(v.bytes) + 1] = 0
              /\ \A i \in 1 .. Len(v.bytes) : v.bytes[i] # 0
         /\ w # 0 => w = Len(v.bytes)
<1> DEFINE v == written[b][k]
<1>0. TypeOK /\ BufferInv(b)
  BY DEF IInv
<1>1. k \in 1 .. Len(written[b]) /\ v.width = w /\ inOrder[b] /\ Len(got[b]) \in Nat
  BY <1>0, BufferTyped DEF Expected
<1>2. written[b] \in Seq(Value) /\ pos[b] \in Nat /\ v \in Value
  <2>1. written[b] \in Seq(Value) /\ pos[b] \in Nat
    BY <1>0, BufferTyped
  <2> QED
    BY <1>1, <2>1, ElementOfSeq
<1>3. Laid(written[b], payload[b])
  BY <1>0 DEF BufferInv, LaidInv, Base
<1>4. pos[b] = EndOf(written[b], k - 1)
  <2>1. k - 1 = Len(got[b])
    BY <1>1
  <2> QED
    BY <1>0, <1>1, <2>1 DEF BufferInv, ReadInv
<1>5. Placed(v, payload[b]) /\ v.at = pos[b]
  BY <1>1, <1>3, <1>4 DEF Laid
<1>6. EndOf(written[b], k) = pos[b] + Span(v)
  BY <1>1, <1>5 DEF EndOf
<1>7. w = 0 => \A i \in DOMAIN v.bytes : v.bytes[i] # 0
  BY <1>1 DEF Expected
<1>8. DOMAIN v.bytes = 1 .. Len(v.bytes)
  BY <1>2, ValueTyped, LenProperties
<1> HIDE DEF v
<1> QED
  BY <1>1, <1>2, <1>5, <1>6, <1>7, <1>8 DEF Placed, v

\* Read<T>.
LEMMA ReadKept ==
  ASSUME IInv, NEW b \in Buffers, NEW it \in Items, it.width # 0, Read(b, it.width),
         NEW c \in Buffers
  PROVE  BufferInv(c)'
<1> DEFINE w == it.width
           k == Len(got[b]) + 1
           v == written[b][k]
<1>0. TypeOK /\ w \in Nat /\ b \in live
  BY ItemTyped DEF IInv, Read
<1>1. pos[b] \in Nat /\ Len(payload[b]) \in Nat
  BY <1>0, BufferTyped
<1>2. CASE pos[b] + w > Len(payload[b])
  <2>1. Got(b, w, [i \in 1 .. w |-> 0], 0)
    BY <1>0, <1>1, <1>2 DEF Read
  <2>2. [i \in 1 .. w |-> 0] \in Seq(Cell)
    BY <1>0, BytesAssumption DEF Cell
  <2>3. ~(inside[b] = <<>> /\ Expected(b, w))
    <3>1. SUFFICES ASSUME inside[b] = <<>>, Expected(b, w) PROVE FALSE
      OBVIOUS
    <3>2. v \in Value /\ v.width = w /\ pos[b] + Span(v) <= Len(payload[b]) /\ w = Len(v.bytes)
      BY <3>1, NextValue
    <3>3. Span(v) = w
      BY <3>2, ValueTyped
    <3>4. w \in Nat /\ pos[b] + w <= Len(payload[b])
      BY <1>0, <3>2, <3>3
    <3> HIDE DEF w
    <3> QED
      BY <1>1, <1>2, <3>4
  <2> HIDE DEF w
  <2> QED
    BY <1>0, <2>1, <2>2, <2>3, GotKept
<1>3. CASE pos[b] + w <= Len(payload[b])
  <2>1. Got(b, w, Following(b, w), w)
    BY <1>0, <1>1, <1>3 DEF Read
  <2>2. /\ Following(b, w) \in Seq(Cell) /\ Len(Following(b, w)) = w
        /\ \A i \in 1 .. w : Following(b, w)[i] = payload[b][pos[b] + i]
    BY <1>0, <1>3, FollowingTyped
  <2>3. ASSUME inside[b] = <<>>, Expected(b, w)
        PROVE  Following(b, w) = v.bytes /\ pos[b] + w = EndOf(written[b], k)
    <3>1. /\ v \in Value /\ v.width = w /\ w = Len(v.bytes)
          /\ pos[b] + Span(v) = EndOf(written[b], k)
          /\ \A i \in 1 .. Len(v.bytes) : payload[b][pos[b] + i] = v.bytes[i]
      BY <2>3, NextValue
    <3>2. Span(v) = w /\ v.bytes \in Seq(Bytes)
      BY <3>1, ValueTyped
    <3>3. v.bytes \in Seq(Cell)
      BY <3>2, SeqMonotonic DEF Cell
    <3> DEFINE f == Following(b, w)
               g == v.bytes
    <3>4. Len(f) = Len(g) /\ f \in Seq(Cell) /\ g \in Seq(Cell) /\ \A i \in 1 .. Len(f) : f[i] = g[i]
      BY <2>2, <3>1, <3>3
    <3>5. f = g
      <4> HIDE DEF f, g
      <4> QED
        BY <3>4, SeqEqual
    <3> QED
      BY <3>1, <3>2, <3>5
  <2> HIDE DEF w
  <2> QED
    BY <1>0, <2>1, <2>2, <2>3, GotKept
<1> QED
  BY <1>0, <1>1, <1>2, <1>3

\* operator>>(std::string &).
LEMMA ReadStringKept ==
  ASSUME IInv, NEW b \in Buffers, ReadString(b), NEW c \in Buffers
  PROVE  BufferInv(c)'
<1> DEFINE k == Len(got[b]) + 1
           v == written[b][k]
<1>0. TypeOK /\ b \in live /\ pos[b] \in Nat /\ Len(payload[b]) \in Nat
  BY BufferTyped DEF IInv, ReadString
<1>1. PICK n \in StringLengths(b) :
        Got(b, 0, Following(b, n), IF pos[b] + n < Len(payload[b]) THEN n + 1 ELSE n)
  BY DEF ReadString
<1> DEFINE m == IF pos[b] + n < Len(payload[b]) THEN n + 1 ELSE n
<1>2. /\ n \in Nat
      /\ \A i \in 1 .. n : pos[b] + i <= Len(payload[b]) /\ payload[b][pos[b] + i] # 0
      /\ pos[b] + n < Len(payload[b]) => payload[b][pos[b] + n + 1] \in {0, Opaque}
  BY <1>0 DEF StringLengths
<1>3. Following(b, n) \in Seq(Cell)
  BY <1>0, <1>1, StringRead
<1>4. ASSUME inside[b] = <<>>, Expected(b, 0)
      PROVE  Following(b, n) = v.bytes /\ pos[b] + m = EndOf(written[b], k)
  <2>1. /\ v \in Value /\ v.width = 0
        /\ pos[b] + Span(v) <= Len(payload[b]) /\ pos[b] + Span(v) = EndOf(written[b], k)
        /\ \A i \in 1 .. Len(v.bytes) : payload[b][pos[b] + i] = v.bytes[i]
        /\ payload[b][pos[b] + Len(v.bytes) + 1] = 0
        /\ \A i \in 1 .. Len(v.bytes) : v.bytes[i] # 0
    BY <1>4, NextValue
  <2>2. v.bytes \in Seq(Bytes) /\ Len(v.bytes) \in Nat /\ Span(v) = Len(v.bytes) + 1
    BY <2>1, ValueTyped
  <2> DEFINE g == v.bytes
  <2> HIDE DEF v, k
  <2>3. ~(Len(g) < n)
    <3>1. SUFFICES ASSUME Len(g) < n PROVE FALSE
      OBVIOUS
    <3>2. Len(g) + 1 \in 1 .. n /\ pos[b] + (Len(g) + 1) = pos[b] + Len(g) + 1
      <4>1. n \in Nat /\ Len(g) \in Nat /\ pos[b] \in Nat
        BY <1>0, <1>2, <2>2
      <4> QED
        BY <3>1, <4>1
    <3> QED
      BY <1>2, <2>1, <3>2
  <2>4. ~(n < Len(g))
    <3>1. SUFFICES ASSUME n < Len(g) PROVE FALSE
      OBVIOUS
    <3>2. pos[b] + n < Len(payload[b]) /\ n + 1 \in 1 .. Len(g) /\ pos[b] + (n + 1) = pos[b] + n + 1
      BY <1>0, <1>2, <2>1, <2>2, <3>1
    <3>3. g[n + 1] \in {0, Opaque} /\ g[n + 1] # 0
      BY <1>2, <2>1, <3>2
    <3>4. g[n + 1] \in Bytes
      BY <2>2, <3>2, ElementOfSeq
    <3> QED
      BY <3>3, <3>4, BytesAssumption
  <2>5. n = Len(g)
    BY <1>2, <2>2, <2>3, <2>4
  <2>6. m = Span(v) /\ pos[b] + n <= Len(payload[b])
    BY <1>0, <1>2, <2>1, <2>2, <2>5
  <2>7. /\ Following(b, n) \in Seq(Cell) /\ Len(Following(b, n)) = n
        /\ \A i \in 1 .. n : Following(b, n)[i] = payload[b][pos[b] + i]
    BY <1>0, <1>2, <2>6, FollowingTyped
  <2>8. g \in Seq(Cell)
    BY <2>2, SeqMonotonic DEF Cell
  <2>9. Following(b, n) = g
    <3> DEFINE f == Following(b, n)
    <3>1. Len(f) = Len(g) /\ f \in Seq(Cell) /\ \A i \in 1 .. Len(f) : f[i] = g[i]
      BY <2>1, <2>5, <2>7
    <3> HIDE DEF f, g
    <3>2. f = g
      BY <2>8, <3>1, SeqEqual
    <3> QED
      BY <3>2 DEF f
  <2> QED
    BY <2>1, <2>6, <2>9
<1>5. Got(b, 0, Following(b, n), m)
  BY <1>1
<1> HIDE DEF m
<1> QED
  BY <1>0, <1>3, <1>4, <1>5, GotKept

\* ResetPos.
LEMMA ResetPosKept ==
  ASSUME IInv, NEW b \in Buffers, ResetPos(b), NEW c \in Buffers
  PROVE  BufferInv(c)'
<1> USE DEF storage
<1>0. TypeOK /\ BufferInv(b) /\ BufferInv(c)
  BY DEF IInv
<1>1. /\ b \in live
      /\ pos' = [pos EXCEPT ![b] = 0] /\ inOrder' = [inOrder EXCEPT ![b] = TRUE]
      /\ got' = [got EXCEPT ![b] = <<>>]
      /\ UNCHANGED <<live, header, stored, payload, inside, current, written>>
  BY DEF ResetPos
<1>2. CASE c # b
  <2>1. pos'[c] = pos[c] /\ inOrder'[c] = inOrder[c] /\ got'[c] = got[c]
    BY <1>0, <1>1, <1>2 DEF TypeOK
  <2> QED
    BY <1>0, <1>1, <2>1, FrameInv
<1>3. CASE c = b
  <2>1. pos'[b] = 0 /\ got'[b] = <<>> /\ Len(<<>>) = 0 /\ Len(written[b]) \in Nat
    BY <1>0, <1>1, EmptySeq, BufferTyped DEF TypeOK
  <2>2. DeadInv(b)' /\ LaidInv(b)'
    BY <1>0, <1>1 DEF BufferInv, DeadInv, LaidInv
  <2>3. SizeInv(b)'
    BY <1>0, <1>1 DEF BufferInv, SizeInv
  <2>4. ReadInv(b)'
    BY <1>1, <2>1 DEF ReadInv, EndOf
  <2> QED
    BY <1>3, <2>2, <2>3, <2>4 DEF BufferInv
<1> QED
  BY <1>2, <1>3

-----------------------------------------------------------------------------
(* Sums of the sizes of a Stack.  The library's induction theorems take an  *)
(* operator; that every non-empty set of numbers has a least element says  *)
(* the same of sets.                                                       *)

\* Induction over the natural numbers.
LEMMA SetInduction ==
  ASSUME NEW P, 0 \in P, \A n \in Nat : n \in P => n + 1 \in P
  PROVE  Nat \subseteq P
<1> DEFINE T == Nat \ P
<1> DEFINE R == OpToRel(<, Nat)
<1> SUFFICES ASSUME T # {} PROVE FALSE
  OBVIOUS
<1>1. IsWellFoundedOn(R, Nat)
  BY NatLessThanWellFounded
<1>2. \A x, y \in Nat : y < x => <<y, x>> \in R
  BY DEF OpToRel
<1>3. T \subseteq Nat
  OBVIOUS
<1> HIDE DEF T, R
<1>4. PICK x \in T : \A y \in T : <<y, x>> \notin R
  BY <1>1, <1>3, WFMin
<1> USE DEF T
<1>5. x \in Nat /\ x # 0 /\ x \notin P
  OBVIOUS
<1>6. x - 1 \in Nat /\ x - 1 < x /\ (x - 1) + 1 = x
  BY <1>5
<1>7. x - 1 \in P
  BY <1>2, <1>4, <1>5, <1>6
<1> QED
  BY <1>5, <1>6, <1>7

\* g[n] is the sum of the first n numbers of h.
Sums(g, h) == g = [n \in Nat |-> IF n = 0 THEN 0 ELSE g[n - 1] + h[n]]

LEMMA SumsStep ==
  ASSUME NEW g, NEW h, Sums(g, h)
  PROVE  g[0] = 0 /\ \A n \in Nat : g[n + 1] = g[n] + h[n + 1]
<1>1. \A n \in Nat : g[n] = IF n = 0 THEN 0 ELSE g[n - 1] + h[n]
  BY DEF Sums
<1>2. ASSUME NEW n \in Nat PROVE g[n + 1] = g[n] + h[n + 1]
  <2>1. n + 1 \in Nat /\ n + 1 # 0 /\ (n + 1) - 1 = n
    OBVIOUS
  <2> QED
    BY <1>1, <2>1
<1> QED
  BY <1>1, <1>2

\* There is such a g: one for the first n numbers, for every n, and they agree.
LEMMA SumsExist ==
  ASSUME NEW h
  PROVE  \E g : Sums(g, h)
<1> DEFINE Upto(g, n) == g = [k \in 0 .. n |-> IF k = 0 THEN 0 ELSE g[k - 1] + h[k]]
           P == {n \in Nat : \E g : Upto(g, n)}
           G(n) == CHOOSE g : Upto(g, n)
<1>1. 0 \in P
  <2>1. Upto([k \in 0 .. 0 |-> 0], 0)
    OBVIOUS
  <2> QED
    BY <2>1
<1>2. ASSUME NEW n \in Nat, n \in P PROVE n + 1 \in P
  <2>1. PICK g : Upto(g, n)
    BY <1>2
  <2> DEFINE f == [k \in 0 .. n + 1 |-> IF k = 0 THEN 0 ELSE g[k - 1] + h[k]]
  <2>2. \A k \in 0 .. n : k \in 0 .. n + 1 /\ f[k] = g[k]
    BY <2>1
  <2>3. \A k \in 0 .. n + 1 : k # 0 => k - 1 \in 0 .. n
    OBVIOUS
  <2>4. Upto(f, n + 1)
    BY <2>2, <2>3
  <2> HIDE DEF Upto, f
  <2> QED
    BY <2>4
<1> HIDE DEF P
<1>3. Nat \subseteq P
  BY <1>1, <1>2, SetInduction
<1> USE DEF P
<1>4. ASSUME NEW n \in Nat PROVE Upto(G(n), n)
  <2>1. \E g : Upto(g, n)
    BY <1>3
  <2> HIDE DEF Upto
  <2> QED
    BY <2>1
<1>5. ASSUME NEW n \in Nat, NEW k \in 0 .. n
      PROVE  G(n)[k] = IF k = 0 THEN 0 ELSE G(n)[k - 1] + h[k]
  <2> DEFINE g == G(n)
  <2>1. g = [i \in 0 .. n |-> IF i = 0 THEN 0 ELSE g[i - 1] + h[i]]
    BY <1>4
  <2> HIDE DEF g
  <2>2. g[k] = IF k = 0 THEN 0 ELSE g[k - 1] + h[k]
    BY <2>1
  <2> QED
    BY <2>2 DEF g
<1> HIDE DEF G
<1>6. ASSUME NEW n \in Nat PROVE \A k \in 0 .. n : G(n + 1)[k] = G(n)[k]
  <2> DEFINE Q == {k \in Nat : k <= n => G(n + 1)[k] = G(n)[k]}
  <2>1. 0 \in Q
    BY <1>5
  <2>2. ASSUME NEW k \in Nat, k \in Q PROVE k + 1 \in Q
    <3>1. SUFFICES ASSUME k + 1 <= n PROVE G(n + 1)[k + 1] = G(n)[k + 1]
      OBVIOUS
    <3>2. k + 1 \in 0 .. n /\ k + 1 \in 0 .. n + 1 /\ k + 1 # 0 /\ (k + 1) - 1 = k /\ n + 1 \in Nat
      BY <3>1
    <3>3. G(n + 1)[k + 1] = G(n + 1)[k] + h[k + 1] /\ G(n)[k + 1] = G(n)[k] + h[k + 1]
      BY <1>5, <3>2
    <3> QED
      BY <2>2, <3>1, <3>3
  <2> HIDE DEF Q
  <2>3. Nat \subseteq Q
    BY <2>1, <2>2, SetInduction
  <2> QED
    BY <2>3 DEF Q
<1> DEFINE g == [n \in Nat |-> G(n)[n]]
<1>7. ASSUME NEW n \in Nat PROVE g[n] = IF n = 0 THEN 0 ELSE g[n - 1] + h[n]
  <2>1. CASE n = 0
    BY <1>5, <2>1
  <2>2. CASE n # 0
    <3>1. PICK m \in Nat : n = m + 1
      BY <2>2
    <3>2. G(m + 1)[m + 1] = G(m + 1)[m] + h[m + 1]
      <4>1. m + 1 \in Nat /\ m + 1 \in 0 .. m + 1 /\ m + 1 # 0 /\ (m + 1) - 1 = m
        OBVIOUS
      <4> QED
        BY <1>5, <4>1
    <3>3. G(m + 1)[m] = G(m)[m]
      BY <1>6
    <3>4. g[n] = g[m] + h[n] /\ n - 1 = m
      BY <3>1, <3>2, <3>3
    <3> QED
      BY <2>2, <3>4
  <2> QED
    BY <2>1, <2>2
<1>8. Sums(g, h)
  BY <1>7 DEF Sums
<1> HIDE DEF g
<1> QED
  BY <1>8

\* The sums of natural numbers are natural numbers and grow.
LEMMA SumsGrow ==
  ASSUME NEW g, NEW h, Sums(g, h), NEW m \in Nat, \A i \in 1 .. m : h[i] \in Nat
  PROVE  \A k \in 0 .. m : g[k] \in Nat /\ g[k] <= g[m]
<1> DEFINE P == {k \in Nat : k <= m => \A i \in 0 .. k : g[i] \in Nat /\ g[i] <= g[k]}
<1>1. 0 \in P
  BY SumsStep
<1>2. ASSUME NEW k \in Nat, k \in P PROVE k + 1 \in P
  <2>1. SUFFICES ASSUME k + 1 <= m, NEW i \in 0 .. k + 1 PROVE g[i] \in Nat /\ g[i] <= g[k + 1]
    OBVIOUS
  <2>2. (\A n \in 0 .. k : g[n] \in Nat /\ g[n] <= g[k]) /\ h[k + 1] \in Nat
    BY <1>2, <2>1
  <2>3. g[k + 1] = g[k] + h[k + 1] /\ k \in 0 .. k
    BY SumsStep
  <2>4. g[k + 1] \in Nat /\ g[k] \in Nat /\ g[k] <= g[k + 1]
    BY <2>2, <2>3
  <2>5. CASE i = k + 1
    BY <2>4, <2>5
  <2>6. CASE i # k + 1
    <3>1. g[i] \in Nat /\ g[i] <= g[k]
      BY <2>2, <2>6
    <3> QED
      BY <2>4, <3>1
  <2> QED
    BY <2>5, <2>6
<1> HIDE DEF P
<1>3. Nat \subseteq P
  BY <1>1, <1>2, SetInduction
<1> QED
  BY <1>3 DEF P

\* Sums of smaller numbers are smaller.
LEMMA SumsBelow ==
  ASSUME NEW g, NEW h, NEW f, NEW e, Sums(g, h), Sums(f, e), NEW m \in Nat,
         \A i \in 1 .. m : h[i] \in Nat /\ e[i] \in Nat /\ h[i] <= e[i]
  PROVE  \A k \in 0 .. m : g[k] <= f[k]
<1> DEFINE P == {k \in Nat : k <= m => g[k] <= f[k]}
<1>1. 0 \in P
  BY SumsStep
<1>2. ASSUME NEW k \in Nat, k \in P PROVE k + 1 \in P
  <2>1. SUFFICES ASSUME k + 1 <= m PROVE g[k + 1] <= f[k + 1]
    OBVIOUS
  <2>2. g[k] <= f[k] /\ h[k + 1] \in Nat /\ e[k + 1] \in Nat /\ h[k + 1] <= e[k + 1]
    BY <1>2, <2>1
  <2>3. g[k + 1] = g[k] + h[k + 1] /\ f[k + 1] = f[k] + e[k + 1]
    BY SumsStep
  <2>4. g[k] \in Nat /\ f[k] \in Nat
    BY <2>1, SumsGrow
  <2> QED
    BY <2>2, <2>3, <2>4
<1> HIDE DEF P
<1>3. Nat \subseteq P
  BY <1>1, <1>2, SetInduction
<1> QED
  BY <1>3 DEF P

\* The first m numbers of h are in e, d places later.
Shifted(h, e, m, d) == \A i \in 1 .. m : h[i] \in Nat /\ e[i + d] = h[i]

\* The same numbers d places later sum to as much more.
LEMMA SumsShift ==
  ASSUME NEW g, NEW h, NEW f, NEW e, Sums(g, h), Sums(f, e), NEW m \in Nat, NEW d \in Nat,
         Shifted(h, e, m, d), f[d] \in Nat
  PROVE  f[m + d] = f[d] + g[m]
<1> DEFINE P == {k \in Nat : k <= m => f[k + d] = f[d] + g[k]}
<1>1. 0 \in P
  BY SumsStep
<1>2. ASSUME NEW k \in Nat, k \in P PROVE k + 1 \in P
  <2>1. SUFFICES ASSUME k + 1 <= m PROVE f[(k + 1) + d] = f[d] + g[k + 1]
    OBVIOUS
  <2>2. f[k + d] = f[d] + g[k] /\ h[k + 1] \in Nat /\ e[(k + 1) + d] = h[k + 1]
    BY <1>2, <2>1 DEF Shifted
  <2>3. (k + 1) + d = (k + d) + 1 /\ k + d \in Nat
    OBVIOUS
  <2>4. g[k + 1] = g[k] + h[k + 1] /\ f[(k + d) + 1] = f[k + d] + e[(k + d) + 1]
    BY <2>3, SumsStep
  <2>5. g[k] \in Nat
    BY <2>1, SumsGrow DEF Shifted
  <2> QED
    BY <2>2, <2>3, <2>4, <2>5
<1> HIDE DEF P
<1>3. Nat \subseteq P
  BY <1>1, <1>2, SetInduction
<1> QED
  BY <1>3 DEF P

-----------------------------------------------------------------------------
(* m_size of a Stack.                                                      *)

\* The bytes of the first n buffers of a Stack, as large as they were when pushed.
SizesOf(s) == [n \in Nat |-> s[n].size]
PushedBytes(s) == CHOOSE g : Sums(g, SizesOf(s))

LEMMA PushedBytesSums == ASSUME NEW s PROVE Sums(PushedBytes(s), SizesOf(s))
  BY SumsExist DEF PushedBytes

Entry == [buffer : Buffers, size : Nat]

\* m_size is what the buffers measured when they were pushed.
StackInv == stackSize = PushedBytes(stack)[Len(stack)]

\* A Stack with one more buffer, at its end or at its start.
LEMMA PushedSums ==
  ASSUME NEW s \in Seq(Entry), NEW e \in Entry, NEW q \in {Append(s, e), <<e>> \o s}
  PROVE  PushedBytes(q)[Len(q)] = PushedBytes(s)[Len(s)] + e.size
<1> DEFINE n == Len(s)
<1>1. n \in Nat /\ e.size \in Nat /\ \A i \in 1 .. n : s[i] \in Entry /\ s[i].size \in Nat
  <2>1. \A f \in Entry : f.size \in Nat
    BY DEF Entry
  <2>2. n \in Nat /\ \A i \in 1 .. n : s[i] \in Entry
    OBVIOUS
  <2> QED
    BY <2>1, <2>2
<1>2. Sums(PushedBytes(s), SizesOf(s)) /\ Sums(PushedBytes(q), SizesOf(q))
  BY PushedBytesSums
<1>3. \A i \in 1 .. n : SizesOf(s)[i] \in Nat
  BY <1>1 DEF SizesOf
<1>4. PushedBytes(q)[0] = 0 /\ PushedBytes(s)[n] \in Nat
  <2>1. n \in 0 .. n
    BY <1>1
  <2> HIDE DEF n
  <2> QED
    BY <1>1, <1>2, <1>3, <2>1, SumsStep, SumsGrow
<1>5. CASE q = Append(s, e)
  <2>1. Len(q) = n + 1 /\ q[n + 1] = e /\ \A i \in 1 .. n : q[i] = s[i]
    BY <1>1, <1>5
  <2>2. Shifted(SizesOf(s), SizesOf(q), n, 0)
    BY <1>1, <2>1 DEF SizesOf, Shifted
  <2>3. PushedBytes(q)[n + 0] = PushedBytes(q)[0] + PushedBytes(s)[n]
    <3> HIDE DEF n
    <3> QED
      BY <1>1, <1>2, <1>4, <2>2, SumsShift
  <2>4. PushedBytes(q)[n + 1] = PushedBytes(q)[n] + SizesOf(q)[n + 1]
    BY <1>1, <1>2, SumsStep
  <2>5. SizesOf(q)[n + 1] = e.size
    BY <1>1, <2>1 DEF SizesOf
  <2> HIDE DEF n
  <2> QED
    BY <1>1, <1>4, <2>1, <2>3, <2>4, <2>5
<1>6. CASE q = <<e>> \o s
  <2>1. Len(q) = n + 1 /\ q[1] = e /\ \A i \in 1 .. n : q[i + 1] = s[i]
    BY <1>1, <1>6
  <2>2. Shifted(SizesOf(s), SizesOf(q), n, 1)
    BY <1>1, <2>1 DEF SizesOf, Shifted
  <2>3. PushedBytes(q)[0 + 1] = PushedBytes(q)[0] + SizesOf(q)[0 + 1]
    BY <1>2, SumsStep
  <2>4. SizesOf(q)[1] = e.size
    BY <2>1 DEF SizesOf
  <2>5. PushedBytes(q)[1] = e.size
    BY <1>1, <1>4, <2>3, <2>4
  <2>6. PushedBytes(q)[n + 1] = PushedBytes(q)[1] + PushedBytes(s)[n]
    <3>1. n \in Nat /\ PushedBytes(q)[1] \in Nat
      BY <1>1, <2>5
    <3> HIDE DEF n
    <3> QED
      BY <1>2, <2>2, <3>1, SumsShift
  <2> HIDE DEF n
  <2> QED
    BY <1>1, <1>4, <2>1, <2>5, <2>6
<1> QED
  BY <1>5, <1>6

\* Only Push and Clear change the Stack.
LEMMA StackKept ==
  ASSUME TypeOK, StackInv, [Next]_vars
  PROVE  StackInv'
<1>1. ASSUME UNCHANGED <<stack, stackSize>> PROVE StackInv'
  BY <1>1 DEF StackInv
<1>2. ASSUME NEW b \in Buffers, Push(b) PROVE StackInv'
  <2> DEFINE e == [buffer |-> b, size |-> GetSize(b)]
  <2>1. GetSize(b) \in Nat
    BY BufferTyped
  <2>2. e \in Entry /\ e.size = GetSize(b) /\ stack \in Seq(Entry)
    BY <2>1 DEF Entry, TypeOK
  <2>3. stack' \in {Append(stack, e), <<e>> \o stack} /\ stackSize' = stackSize + GetSize(b)
    BY <1>2 DEF Push
  <2> HIDE DEF e
  <2> QED
    BY <2>2, <2>3, PushedSums DEF StackInv
<1>3. ASSUME Clear PROVE StackInv'
  <2>1. PushedBytes(<<>>)[0] = 0 /\ Len(<<>>) = 0
    BY PushedBytesSums, SumsStep
  <2> QED
    BY <1>3, <2>1 DEF StackInv, Clear
<1>4. ASSUME NEW b \in Buffers,
             \/ \E tag \in Tags : New(b, tag) \/ Assign(b, tag)
             \/ \E it \in Items : Write(b, it)
             \/ \E k \in DOMAIN written[b] : \E bytes \in [1 .. written[b][k].width -> Bytes] :
                  WriteAtPosition(b, k, bytes)
             \/ \E it \in Items : it.width # 0 /\ Read(b, it.width)
             \/ Release(b) \/ Send(b) \/ Delete(b) \/ Receive(b) \/ ReadString(b) \/ ResetPos(b)
      PROVE  UNCHANGED <<stack, stackSize>>
  BY <1>4 DEF New, Assign, Write, WriteAtPosition, Read, Release, Send, Delete, Receive, ReadString,
     ResetPos, Got
<1>5. ASSUME SendStack \/ UNCHANGED vars PROVE UNCHANGED <<stack, stackSize>>
  BY <1>5 DEF SendStack, vars
<1> QED
  BY <1>1, <1>2, <1>3, <1>4, <1>5 DEF Next

\* The sizes of the buffers now, where they are pushed.
LEMMA StackBytesSums == Sums(StackBytes, [n \in Nat |-> GetSize(stack[n].buffer)])
<1> DEFINE h == [n \in Nat |-> GetSize(stack[n].buffer)]
<1>1. ASSUME NEW g, Sums(g, h)
      PROVE  g = [n \in Nat |-> IF n = 0 THEN 0 ELSE g[n - 1] + GetSize(stack[n].buffer)]
  BY <1>1 DEF Sums
<1>2. \E g : g = [n \in Nat |-> IF n = 0 THEN 0 ELSE g[n - 1] + GetSize(stack[n].buffer)]
  <2>1. PICK g : Sums(g, h)
    BY SumsExist
  <2> QED
    BY <1>1, <2>1
<1>3. StackBytes = [n \in Nat |-> IF n = 0 THEN 0 ELSE StackBytes[n - 1] + GetSize(stack[n].buffer)]
  BY <1>2 DEF StackBytes
<1> QED
  BY <1>3 DEF Sums

LEMMA StackFitsNow == ASSUME TypeOK, StackInv PROVE StackFits
<1> DEFINE h == [n \in Nat |-> GetSize(stack[n].buffer)]
           N == Len(stack)
<1>1. SUFFICES ASSUME \A i \in DOMAIN stack : GetSize(stack[i].buffer) <= stack[i].size,
                      NEW n \in DOMAIN stack
               PROVE  StackBytes[n] <= stackSize
  BY DEF StackFits, Fits
<1>2. /\ N \in Nat /\ DOMAIN stack = 1 .. N
      /\ \A i \in 1 .. N : stack[i].buffer \in Buffers /\ stack[i].size \in Nat
  <2>1. stack \in Seq(Entry) /\ \A e \in Entry : e.buffer \in Buffers /\ e.size \in Nat
    BY DEF TypeOK, Entry
  <2>2. N \in Nat /\ DOMAIN stack = 1 .. N /\ \A i \in 1 .. N : stack[i] \in Entry
    BY <2>1, LenProperties, ElementOfSeq
  <2> QED
    BY <2>1, <2>2
<1>3. \A i \in 1 .. N : h[i] \in Nat /\ SizesOf(stack)[i] \in Nat /\ h[i] <= SizesOf(stack)[i]
  BY <1>1, <1>2, BufferTyped DEF SizesOf
<1>4. Sums(StackBytes, h) /\ Sums(PushedBytes(stack), SizesOf(stack))
  BY StackBytesSums, PushedBytesSums
<1> HIDE DEF h, N
<1>5. n \in 0 .. N
  BY <1>2
<1>6. StackBytes[n] <= PushedBytes(stack)[n]
  BY <1>2, <1>3, <1>4, <1>5, SumsBelow
<1>7. PushedBytes(stack)[n] \in Nat /\ PushedBytes(stack)[N] \in Nat
      /\ PushedBytes(stack)[n] <= PushedBytes(stack)[N]
  <2>1. N \in 0 .. N
    BY <1>2
  <2> QED
    BY <1>2, <1>3, <1>4, <1>5, <2>1, SumsGrow
<1>8. StackBytes[n] \in Nat
  <2>1. \A i \in 1 .. N : h[i] \in Nat
    BY <1>3
  <2> QED
    BY <1>2, <1>4, <1>5, <2>1, SumsGrow
<1> QED
  BY <1>6, <1>7, <1>8 DEF StackInv, N

-----------------------------------------------------------------------------
(* The theorems.                                                           *)

\* The steps preserve the invariant of every buffer.
LEMMA BuffersKept ==
  ASSUME IInv, [Next]_vars, NEW c \in Buffers
  PROVE  BufferInv(c)'
<1> USE DEF storage, history
<1>0. BufferInv(c)
  BY DEF IInv
<1>1. ASSUME UNCHANGED <<live, storage, pos, history>> PROVE BufferInv(c)'
  BY <1>0, <1>1, FrameInv
<1>2. ASSUME NEW b \in Buffers,
             \/ \E tag \in Tags : New(b, tag) \/ Assign(b, tag)
             \/ \E it \in Items : Write(b, it)
             \/ \E k \in DOMAIN written[b] : \E bytes \in [1 .. written[b][k].width -> Bytes] :
                  WriteAtPosition(b, k, bytes)
             \/ \E it \in Items : it.width # 0 /\ Read(b, it.width)
      PROVE  BufferInv(c)'
  BY <1>2, NewKept, AssignKept, WriteKept, WriteAtPositionKept, ReadKept
<1>3. ASSUME NEW b \in Buffers, Release(b) \/ Receive(b) \/ ReadString(b) \/ ResetPos(b)
      PROVE  BufferInv(c)'
  BY <1>3, ReleaseKept, ReceiveKept, ReadStringKept, ResetPosKept
<1>4. ASSUME NEW b \in Buffers, Send(b) \/ Push(b) PROVE BufferInv(c)'
  BY <1>1, <1>4 DEF Send, Push
<1>5. ASSUME NEW b \in Buffers, Delete(b) PROVE BufferInv(c)'
  BY <1>5, DestroyKept DEF Delete
<1>6. ASSUME Clear PROVE BufferInv(c)'
  BY <1>6, DestroyKept DEF Clear
<1>7. ASSUME SendStack \/ UNCHANGED vars PROVE BufferInv(c)'
  BY <1>1, <1>7 DEF SendStack, vars
<1> QED
  BY <1>2, <1>3, <1>4, <1>5, <1>6, <1>7 DEF Next

\* What is sent is what a buffer holds.
LEMMA WireKept ==
  ASSUME IInv, [Next]_vars, NEW i \in 1 .. Len(wire')
  PROVE  PacketInv(wire'[i])
<1>0. TypeOK /\ (\A b \in Buffers : BufferInv(b)) /\ \A j \in 1 .. Len(wire) : PacketInv(wire[j])
  BY DEF IInv
<1>1. ASSUME NEW b \in Buffers PROVE PacketInv(Image(b))
  BY <1>0 DEF BufferInv, SizeInv, LaidInv, PacketInv, Image
<1>2. ASSUME UNCHANGED wire PROVE PacketInv(wire'[i])
  BY <1>0, <1>2
<1>3. ASSUME NEW b \in Buffers, Send(b) PROVE PacketInv(wire'[i])
  <2>1. wire' = <<Image(b)>>
    BY <1>3 DEF Send
  <2>2. wire'[i] = Image(b)
    BY <2>1
  <2> QED
    BY <1>1, <2>2
<1>4. ASSUME SendStack PROVE PacketInv(wire'[i])
  <2> DEFINE E == [buffer : Buffers, size : Nat]
  <2>1. stack \in Seq(E) /\ \A e \in E : e.buffer \in Buffers
    BY <1>0 DEF TypeOK
  <2> HIDE DEF E
  <2>2. DOMAIN stack = 1 .. Len(stack) /\ Len(stack) \in Nat
        /\ \A j \in 1 .. Len(stack) : stack[j].buffer \in Buffers
    BY <2>1, LenProperties, ElementOfSeq
  <2>3. wire' = [j \in 1 .. Len(stack) |-> Image(stack[j].buffer)]
    BY <1>4, <2>2 DEF SendStack
  <2>4. Len(wire') = Len(stack)
    <3>1. wire' \in Seq({Image(b) : b \in Buffers})
      BY <2>2, <2>3
    <3> QED
      BY <2>2, <2>3, <3>1, LenProperties
  <2> QED
    BY <1>1, <2>2, <2>3, <2>4
<1>5. ASSUME NEW b \in Buffers, Receive(b) PROVE PacketInv(wire'[i])
  <2>1. wire # <<>> /\ wire' = Tail(wire)
    BY <1>5 DEF Receive
  <2>2. Len(wire') = Len(wire) - 1 /\ Len(wire) \in Nat /\ wire'[i] = wire[i + 1]
    BY <2>1, HeadTyped
  <2>3. i + 1 \in 1 .. Len(wire)
    BY <2>2
  <2> QED
    BY <1>0, <2>2, <2>3
<1>6. ASSUME NEW b \in Buffers,
             \/ \E tag \in Tags : New(b, tag) \/ Assign(b, tag)
             \/ \E it \in Items : Write(b, it)
             \/ \E k \in DOMAIN written[b] : \E bytes \in [1 .. written[b][k].width -> Bytes] :
                  WriteAtPosition(b, k, bytes)
             \/ \E it \in Items : it.width # 0 /\ Read(b, it.width)
             \/ Release(b) \/ Push(b) \/ Delete(b) \/ ReadString(b) \/ ResetPos(b)
      PROVE  UNCHANGED wire
  BY <1>6 DEF New, Assign, Write, WriteAtPosition, Read, Release, Push, Delete, ReadString, ResetPos, Got
<1>7. ASSUME Clear \/ UNCHANGED vars PROVE UNCHANGED wire
  BY <1>7 DEF Clear, vars
<1> QED
  BY <1>2, <1>3, <1>4, <1>5, <1>6, <1>7 DEF Next

\* The inductive invariant holds of every behaviour.
LEMMA Inductive == Spec => []IInv
<1>1. Init => IInv
  <2>1. SUFFICES ASSUME Init PROVE IInv
    OBVIOUS
  <2>2. ASSUME NEW b \in Buffers PROVE BufferInv(b)
    <3>1. Len(<<>>) = 0
      BY EmptySeq
    <3>2. /\ header[b] = ZeroHeader /\ stored[b] = ZeroHeader /\ ~current[b]
          /\ payload[b] = <<>> /\ inside[b] = <<>> /\ pos[b] = 0
          /\ written[b] = <<>> /\ got[b] = <<>>
      BY <2>1 DEF Init
    <3>3. LaidInv(b)
      BY <3>2, LaidEmpty DEF LaidInv, Base
    <3> QED
      BY <3>1, <3>2, <3>3 DEF BufferInv, DeadInv, SizeInv, ReadInv, Restores, ZeroHeader, EndOf
  <2>3. \A i \in 1 .. Len(wire) : PacketInv(wire[i])
    BY <2>1, EmptySeq DEF Init
  <2> QED
    BY <2>1, <2>2, <2>3, InitTyped DEF IInv
<1>2. IInv /\ [Next]_vars => IInv'
  <2>1. SUFFICES ASSUME IInv, [Next]_vars PROVE IInv'
    OBVIOUS
  <2> QED
    BY <2>1, NextTyped, BuffersKept, WireKept DEF IInv
<1> QED
  BY <1>1, <1>2, PTL DEF Spec

\* Every variable has a value of its type, and a position that Release did not
\* leave behind is inside the payload: no read of ByteBuffer.h:Read goes past it.
THEOREM TypeCorrect == Spec => []TypeOK
<1>1. IInv => TypeOK
  BY DEF IInv
<1> QED
  BY <1>1, Inductive, PTL

\* For any values and any number of buffers, m_storage announces exactly the bytes
\* behind its header since the last Release, ReplaceOpcode or AssignSpecialId, and
\* says truly what memory its decompression needs.
THEOREM HeadersTrue == Spec => []Announced
<1>1. IInv => Announced
  <2>1. SUFFICES ASSUME IInv, NEW b \in live, current[b]
        PROVE  /\ stored[b] = header[b]
               /\ Framed(Image(b))
               /\ stored[b].isCompressed =>
                    inside[b] # <<>> /\ stored[b].realPayloadSize = Len(inside[b][Len(inside[b])])
    BY DEF Announced
  <2>2. SizeInv(b)
    BY <2>1 DEF IInv, TypeOK, BufferInv
  <2> QED
    BY <2>1, <2>2 DEF SizeInv, Restores, Framed, Image
<1> QED
  BY <1>1, Inductive, PTL

\* For any values, any number of Release on the way and any number of relays, the
\* values operator>> returns in order are those operator<< was given.
THEOREM ValuesSurvive == Spec => []RoundTrip
<1>1. IInv => RoundTrip
  <2>1. SUFFICES ASSUME IInv, NEW b \in live, inside[b] = <<>>, NEW k \in DOMAIN got[b]
        PROVE  k <= Len(written[b]) /\ got[b][k] = written[b][k].bytes
    BY DEF RoundTrip
  <2>2. ReadInv(b) /\ TypeOK /\ b \in Buffers
    BY <2>1 DEF IInv, TypeOK, BufferInv
  <2>3. DOMAIN got[b] = 1 .. Len(got[b]) /\ Len(got[b]) \in Nat /\ Len(written[b]) \in Nat
    BY <2>2, BufferTyped, LenProperties
  <2> QED
    BY <2>1, <2>2, <2>3 DEF ReadInv
<1> QED
  BY <1>1, Inductive, PTL

\* For any number of buffers and of Push, PushReverse and Clear, m_size covers every
\* buffer of the Stack unless one of them has grown since it was pushed: Send(Stack)
\* does not refuse it half way.
THEOREM StackSafe == Spec => []StackFits
<1>1. Init => StackInv
  <2>1. PushedBytes(<<>>)[0] = 0 /\ Len(<<>>) = 0
    BY PushedBytesSums, SumsStep
  <2> QED
    BY <2>1 DEF Init, StackInv
<1>2. IInv /\ StackInv /\ [Next]_vars => StackInv'
  BY StackKept DEF IInv
<1>3. IInv /\ StackInv => StackFits
  BY StackFitsNow DEF IInv
<1> QED
  BY <1>1, <1>2, <1>3, Inductive, PTL DEF Spec
=============================================================================

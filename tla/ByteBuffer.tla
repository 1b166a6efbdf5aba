----------------------------- MODULE ByteBuffer ------------------------------
(***************************************************************************)
(* Yo::Network::ByteBuffer and its Stack: values are appended to a packet, *)
(* Release compresses it and writes its header, TCPClient::Send puts one   *)
(* or a whole Stack on the wire, and the receiver makes a ByteBuffer of    *)
(* each packet, decompresses it and reads the values back.                 *)
(*                                                                         *)
(* m_storage is two variables, the bytes of the header as they were last   *)
(* written and those of the payload.  The bytes zlib makes are Opaque, and *)
(* what they encode is kept beside them (inside).                          *)
(***************************************************************************)
EXTENDS Integers, Sequences

CONSTANTS
  Buffers,     \* the ByteBuffer objects
  HeaderSize,  \* sizeof(Header)
  Bytes,       \* the values of a byte
  Opaque,      \* a byte of compressed data
  Items,       \* the values the program appends: their bytes, and sizeof their
               \* type, 0 for a std::string
  Tags,        \* what a header holds beside the sizes: error, opcode, specialId
  NoTag,       \* those fields of a header that was never written
  ZipSizes,    \* the sizes zlib may compress to
  MaxZips,     \* bound on the calls of Release on a buffer
  MaxCalls     \* bound on the calls that make or change a buffer

ASSUME BytesAssumption == 0 \in Bytes /\ Opaque \notin Bytes /\ NoTag \notin Tags
ASSUME SizesAssumption ==
  HeaderSize \in Nat \ {0} /\ ZipSizes \subseteq Nat \ {0} /\ {MaxZips, MaxCalls} \subseteq Nat
ASSUME ItemsAssumption ==
  \A it \in Items : it \in [width : {0, Len(it.bytes)}, bytes : Seq(Bytes)]

VARIABLES
  live,       \* the objects that exist
  header,     \* m_header
  stored,     \* the header in m_storage
  payload,    \* m_storage after the header
  inside,     \* what the Opaque bytes of the payload encode, one level per Release
  pos,        \* m_pos, from the end of the header
  stack,      \* Stack::m_buffers, with the size each had when it was pushed
  stackSize,  \* Stack::m_size
  wire,       \* the packets that were sent and not yet received
  current,    \* history: nothing was appended since the header was written
  written,    \* history: the values in the packet, with the places of their bytes
  inOrder,    \* history: the reads since the start asked for the types that were written
  got,        \* history: the values they returned
  calls       \* the number of calls that made or changed a buffer

storage == <<header, stored, payload, inside>>
history == <<current, written, inOrder, got>>
vars == <<live, storage, pos, stack, stackSize, wire, history, calls>>

Header == [payloadSize : Nat, realPayloadSize : Nat, isCompressed : BOOLEAN, tag : Tags \cup {NoTag}]

\* The bytes of a header that nobody wrote.
ZeroHeader == [payloadSize |-> 0, realPayloadSize |-> 0, isCompressed |-> FALSE, tag |-> NoTag]

GetSize(b) == HeaderSize + header[b].payloadSize

Init ==
  /\ live = {}
  /\ header = [b \in Buffers |-> ZeroHeader] /\ stored = [b \in Buffers |-> ZeroHeader]
  /\ payload = [b \in Buffers |-> <<>>] /\ inside = [b \in Buffers |-> <<>>]
  /\ pos = [b \in Buffers |-> 0]
  /\ stack = <<>> /\ stackSize = 0
  /\ wire = <<>>
  /\ current = [b \in Buffers |-> FALSE] /\ written = [b \in Buffers |-> <<>>]
  /\ inOrder = [b \in Buffers |-> TRUE] /\ got = [b \in Buffers |-> <<>>]
  /\ calls = 0

-----------------------------------------------------------------------------
(* The sender.                                                             *)

Counted == calls < MaxCalls /\ calls' = calls + 1

\* WriteHeader, after the assignment of h to m_header.
WriteHeader(b, h) ==
  /\ header' = [header EXCEPT ![b] = h]
  /\ stored' = [stored EXCEPT ![b] = h]
  /\ current' = [current EXCEPT ![b] = TRUE]

\* ByteBuffer(p_opcode, p_errorCode): the header is not written to m_storage.
New(b, tag) ==
  /\ b \notin live /\ Counted
  /\ live' = live \cup {b}
  /\ header' = [header EXCEPT ![b].tag = tag]
  /\ UNCHANGED <<stored, payload, inside, pos, stack, stackSize, wire, history>>

Unterminated(it) == it.bytes  \* mutant: no zero after a std::string

\* The bytes operator<< appends: a std::string is followed by a zero.
Encoded(it) == IF it.width = 0 THEN Append(it.bytes, 0) ELSE it.bytes

\* operator<<, that is Append<T> once, or once per character.  What is appended
\* to compressed bytes is not part of what the packet is to deliver.
Write(b, it) ==
  /\ b \in live /\ Counted
  /\ payload' = [payload EXCEPT ![b] = @ \o Encoded(it)]
  /\ header' = [header EXCEPT ![b].payloadSize = @ + Len(Encoded(it))]
  /\ current' = [current EXCEPT ![b] = FALSE]
  /\ written' = [written EXCEPT ![b] =
       IF inside[b] # <<>> THEN @
       ELSE Append(@, [at |-> Len(payload[b]), width |-> it.width, bytes |-> it.bytes])]
  /\ UNCHANGED <<live, stored, inside, pos, stack, stackSize, wire, inOrder, got>>

\* WriteAtPosition: the program replaces the k-th value by one of the same type,
\* before it has read it.
WriteAtPosition(b, k, bytes) ==
  LET old == written[b][k] IN
  /\ b \in live /\ Counted
  /\ old.width # 0 /\ inside[b] = <<>> /\ Len(got[b]) < k
  /\ payload' = [payload EXCEPT ![b] =
       [i \in DOMAIN @ |-> IF i - old.at \in DOMAIN bytes THEN bytes[i - old.at] ELSE @[i]]]
  /\ written' = [written EXCEPT ![b][k].bytes = bytes]
  /\ UNCHANGED <<live, header, stored, inside, pos, stack, stackSize, wire, current, inOrder, got>>

\* ReplaceOpcode and AssignSpecialId.
Assign(b, tag) ==
  /\ b \in live /\ Counted
  /\ WriteHeader(b, [header[b] EXCEPT !.tag = tag])
  /\ UNCHANGED <<live, payload, inside, pos, stack, stackSize, wire, written, inOrder, got>>

\* mutant: the real size is taken after Compress
ReleasedLate(h, n) ==
  [h EXCEPT !.realPayloadSize = n, !.payloadSize = n, !.isCompressed = TRUE]

\* The header after Release, if zlib made n bytes.
Released(h, n) ==
  [h EXCEPT !.realPayloadSize = h.payloadSize, !.payloadSize = n, !.isCompressed = TRUE]

\* Release and Compress: zlib makes n bytes of the payload, whatever it is.
Release(b) ==
  /\ b \in live /\ Counted /\ Len(inside[b]) < MaxZips
  /\ \E n \in ZipSizes :
       /\ payload' = [payload EXCEPT ![b] = [i \in 1 .. n |-> Opaque]]
       /\ WriteHeader(b, Released(header[b], n))
  /\ inside' = [inside EXCEPT ![b] = Append(@, payload[b])]
  /\ UNCHANGED <<live, pos, stack, stackSize, wire, written, inOrder, got>>

\* The packet as it is in m_storage.
Image(b) ==
  [header |-> stored[b], payload |-> payload[b], inside |-> inside[b], written |-> written[b]]

\* TCPClient::Send(ByteBuffer &).  The next Send comes when the packets of the
\* last one were received: what is on the wire does not change any more.
Send(b) ==
  /\ b \in live /\ wire = <<>>
  /\ wire' = <<Image(b)>>
  /\ UNCHANGED <<live, storage, pos, stack, stackSize, history, calls>>

Pushed(b) == \E i \in DOMAIN stack : stack[i].buffer = b

\* mutant: PushReverse does not add to m_size
PushUncounted(b) ==
  /\ b \in live /\ ~Pushed(b)
  /\ LET e == [buffer |-> b, size |-> GetSize(b)] IN
       \/ stack' = Append(stack, e) /\ stackSize' = stackSize + GetSize(b)
       \/ stack' = <<e>> \o stack /\ UNCHANGED stackSize
  /\ UNCHANGED <<live, storage, pos, wire, history, calls>>

\* Stack::Push and PushReverse, of a buffer the Stack does not own yet.
Push(b) ==
  /\ b \in live /\ ~Pushed(b)
  /\ LET e == [buffer |-> b, size |-> GetSize(b)]
     IN stack' \in {Append(stack, e), <<e>> \o stack}
  /\ stackSize' = stackSize + GetSize(b)
  /\ UNCHANGED <<live, storage, pos, wire, history, calls>>

\* The size of the first n buffers of the Stack.
StackBytes[n \in Nat] == IF n = 0 THEN 0 ELSE StackBytes[n - 1] + GetSize(stack[n].buffer)

\* No buffer goes past the end of the memory TCPClient::Send(Stack) allocated.
Fits == \A n \in DOMAIN stack : StackBytes[n] <= stackSize

\* TCPClient::Send(Stack), when it does not return false.
SendStack ==
  /\ stack # <<>> /\ Fits /\ wire = <<>>
  /\ wire' = [i \in DOMAIN stack |-> Image(stack[i].buffer)]
  /\ UNCHANGED <<live, storage, pos, stack, stackSize, history, calls>>

\* The destructors of the buffers in S.
Destroy(S) ==
  LET clear(f, v) == [b \in Buffers |-> IF b \in S THEN v ELSE f[b]] IN
  /\ live' = live \ S
  /\ header' = clear(header, ZeroHeader) /\ stored' = clear(stored, ZeroHeader)
  /\ payload' = clear(payload, <<>>) /\ inside' = clear(inside, <<>>)
  /\ pos' = clear(pos, 0)
  /\ current' = clear(current, FALSE) /\ written' = clear(written, <<>>)
  /\ inOrder' = clear(inOrder, TRUE) /\ got' = clear(got, <<>>)

\* Stack::Clear.
Clear ==
  /\ stack # <<>>
  /\ Destroy({b \in live : Pushed(b)})
  /\ stack' = <<>> /\ stackSize' = 0
  /\ UNCHANGED <<wire, calls>>

\* The program deletes a buffer no Stack owns.
Delete(b) ==
  /\ b \in live /\ ~Pushed(b)
  /\ Destroy({b})
  /\ UNCHANGED <<stack, stackSize, wire, calls>>

-----------------------------------------------------------------------------
(* The receiver.                                                           *)

\* The header of a packet announces its bytes: what a receiver cuts out of
\* the stream is this packet.
Framed(p) == p.header.payloadSize = Len(p.payload)

\* What uncompress makes of p's payload, in a memory of realPayloadSize bytes.
Uncompressed(p) ==
  LET all == p.inside[Len(p.inside)]
  IN [i \in {j \in DOMAIN all : j <= p.header.realPayloadSize} |-> all[i]]

\* The header after Decompress.
Decompressed(h, n) == [h EXCEPT !.payloadSize = n, !.realPayloadSize = n, !.isCompressed = FALSE]

\* ByteBuffer(p_data, p_header), of the next packet of the stream.  A packet
\* that is not framed puts the receiver out of step for good.
Receive(b) ==
  /\ b \notin live /\ wire # <<>> /\ Framed(Head(wire))
  /\ live' = live \cup {b}
  /\ LET p == Head(wire) IN
       /\ written' = [written EXCEPT ![b] = p.written]
       /\ \/ /\ ~p.header.isCompressed
             /\ payload' = [payload EXCEPT ![b] = p.payload]
             /\ inside' = [inside EXCEPT ![b] = p.inside]
             /\ WriteHeader(b, p.header)
          \/ /\ p.header.isCompressed
             /\ payload' = [payload EXCEPT ![b] = Uncompressed(p)]
             /\ inside' = [inside EXCEPT ![b] = SubSeq(p.inside, 1, Len(p.inside) - 1)]
             /\ WriteHeader(b, Decompressed(p.header, Len(Uncompressed(p))))
  /\ wire' = Tail(wire)
  /\ UNCHANGED <<pos, inOrder, got, stack, stackSize, calls>>

\* The next value to read is one of this width, that can be told from its bytes.
Expected(b, width) ==
  LET k == Len(got[b]) + 1 IN
  /\ inOrder[b] /\ k <= Len(written[b])
  /\ written[b][k].width = width
  /\ width = 0 => \A i \in DOMAIN written[b][k].bytes : written[b][k].bytes[i] # 0

\* What a read of n bytes leaves, that returned a value of this width.
Got(b, width, bytes, n) ==
  /\ pos' = [pos EXCEPT ![b] = @ + n]
  /\ inOrder' = [inOrder EXCEPT ![b] = Expected(b, width)]
  /\ got' = [got EXCEPT ![b] = IF Expected(b, width) THEN Append(@, bytes) ELSE <<>>]
  /\ UNCHANGED <<live, storage, stack, stackSize, wire, current, written, calls>>

\* n bytes of the payload from the position on.
Following(b, n) == SubSeq(payload[b], pos[b] + 1, pos[b] + n)

\* mutant: the position moves also past the end
ReadMoves(b, w) ==
  /\ b \in live
  /\ \/ pos[b] + w > Len(payload[b]) /\ Got(b, w, [i \in 1 .. w |-> 0], w)
     \/ pos[b] + w <= Len(payload[b]) /\ Got(b, w, Following(b, w), w)

\* Read<T>, with sizeof(T) = w: past the end it returns 0 and moves nothing.
Read(b, w) ==
  /\ b \in live
  /\ \/ pos[b] + w > Len(payload[b]) /\ Got(b, w, [i \in 1 .. w |-> 0], 0)
     \/ pos[b] + w <= Len(payload[b]) /\ Got(b, w, Following(b, w), w)

\* The lengths the string at the position may have: to a zero, one that may be
\* among compressed bytes, or to the end.
StringLengths(b) ==
  {n \in 0 .. Len(payload[b]) :
     /\ \A i \in 1 .. n : pos[b] + i <= Len(payload[b]) /\ payload[b][pos[b] + i] # 0
     /\ pos[b] + n < Len(payload[b]) => payload[b][pos[b] + n + 1] \in {0, Opaque}}

\* operator>>(std::string &), into an empty string.
ReadString(b) ==
  /\ b \in live
  /\ \E n \in StringLengths(b) :
       Got(b, 0, Following(b, n), IF pos[b] + n < Len(payload[b]) THEN n + 1 ELSE n)

ResetPos(b) ==
  /\ b \in live
  /\ pos' = [pos EXCEPT ![b] = 0]
  /\ inOrder' = [inOrder EXCEPT ![b] = TRUE] /\ got' = [got EXCEPT ![b] = <<>>]
  /\ UNCHANGED <<live, storage, stack, stackSize, wire, current, written, calls>>

-----------------------------------------------------------------------------
(* The specification.                                                      *)

Next ==
  \/ \E b \in Buffers :
       \/ \E tag \in Tags : New(b, tag) \/ Assign(b, tag)
       \/ \E it \in Items : Write(b, it)
       \/ \E k \in DOMAIN written[b] : \E bytes \in [1 .. written[b][k].width -> Bytes] :
            WriteAtPosition(b, k, bytes)
       \/ \E it \in Items : it.width # 0 /\ Read(b, it.width)
       \/ Release(b) \/ Send(b) \/ Push(b) \/ Delete(b)
       \/ Receive(b) \/ ReadString(b) \/ ResetPos(b)
  \/ SendStack
  \/ Clear

Spec == Init /\ [][Next]_vars

-----------------------------------------------------------------------------
(* Properties.                                                             *)

Cell == Bytes \cup {Opaque}
Value == [at : Nat, width : Nat, bytes : Seq(Bytes)]
Packet == [header : Header, payload : Seq(Cell), inside : Seq(Seq(Cell)), written : Seq(Value)]

\* Every variable has a value of its type; a position is past the end only of what
\* Release made shorter.
TypeOK ==
  /\ live \subseteq Buffers
  /\ header \in [Buffers -> Header] /\ stored \in [Buffers -> Header]
  /\ payload \in [Buffers -> Seq(Cell)] /\ inside \in [Buffers -> Seq(Seq(Cell))]
  /\ pos \in [Buffers -> Nat]
  /\ \A b \in Buffers : pos[b] <= Len(payload[b]) \/ inside[b] # <<>>
  /\ stack \in Seq([buffer : Buffers, size : Nat]) /\ stackSize \in Nat
  /\ wire \in Seq(Packet)
  /\ current \in [Buffers -> BOOLEAN] /\ written \in [Buffers -> Seq(Value)]
  /\ inOrder \in [Buffers -> BOOLEAN] /\ got \in [Buffers -> Seq(Seq(Cell))]
  /\ calls \in Nat

\* m_storage with nothing appended since Release, ReplaceOpcode, AssignSpecialId
\* or its arrival, and so what Send sends, announces exactly the bytes that follow
\* its header and carries the fields last assigned, and a receiver can decompress
\* it: the relays that only change the id included.
Announced ==
  \A b \in live : current[b] =>
    /\ stored[b] = header[b]
    /\ Framed(Image(b))
    /\ stored[b].isCompressed =>
         inside[b] # <<>> /\ stored[b].realPayloadSize = Len(inside[b][Len(inside[b])])

\* Values read from a packet in the order and with the types they were written
\* in are the values that were written, also behind a Release, the wire, the
\* decompression at the other end, and any number of relays.
RoundTrip ==
  \A b \in live : inside[b] = <<>> =>
    \A k \in DOMAIN got[b] : k <= Len(written[b]) /\ got[b][k] = written[b][k].bytes

\* TCPClient::Send(Stack) sends a Stack whole unless one of its buffers has
\* grown since it was pushed: m_size is true through Push, PushReverse and Clear.
StackFits == (\A i \in DOMAIN stack : GetSize(stack[i].buffer) <= stack[i].size) => Fits
=============================================================================

------------------------- MODULE PacketStreamProofs --------------------------
(***************************************************************************)
(* Packets stay aligned on the stream, and the two ends implement          *)
(* PacketChannel, for any lengths, payload sizes and number of packets.    *)
(***************************************************************************)
EXTENDS PacketStream, TLAPS

\* The packets of an end lie one after another behind its greeting.
Layout(e) ==
  LET out == sent[e] IN
  /\ out # <<>> => greeted[e] /\ out[1].start = Greeting(e)
  /\ \A i \in 1 .. Len(out) : i < Len(out) => out[i + 1].start = out[i].start + out[i].kept
  /\ \A i, j \in 1 .. Len(out) : i < j => out[i].start + out[i].kept <= out[j].start

\* An end has taken what was written, and its buffer holds the last of it.
Within(e) == Read[e] <= received[e] /\ received[e] <= Written(Peer(e))

\* An end that is past the handshake has been greeted; a refused header stays.
Settled(e) ==
  /\ PState[e] # "Handshake" => greeted[Peer(e)]
  /\ PState[e] = "Handshake" => delivered[e] = <<>>
  /\ Refused(e) => PState[e] = "Header" /\ Read[e] = HeaderSize

\* What an end past the handshake has in its buffer came behind the greeting, and
\* a payload behind a header too.
Behind(e) ==
  /\ PState[e] = "Header" => Greeting(Peer(e)) <= Base(e)
  /\ PState[e] = "Payload" => Greeting(Peer(e)) < Base(e)

\* Before Connect has returned, the client does nothing else; a foreign peer reads
\* without a TCPClient.
Fresh ==
  foreign \/ connecting # "done" =>
    /\ ~open[Client] /\ PState[Client] = "Handshake" /\ Read[Client] = 0
    /\ foreign \/ received[Client] = 0

EndInv(e) == Layout(e) /\ Within(e) /\ Settled(e) /\ Bounded(e) /\ Aligned(e) /\ Behind(e)

IInv == TypeOK /\ Fresh /\ \A e \in Ends : EndInv(e)

-----------------------------------------------------------------------------
LEMMA Peers ==
  ASSUME NEW e \in Ends
  PROVE  Peer(e) \in Ends /\ Peer(e) # e /\ Peer(Peer(e)) = e
BY EndsAssumption DEF Ends, Peer

LEMMA WrittenNat ==
  ASSUME TypeOK, NEW e \in Ends
  PROVE  Written(e) \in Nat
<1>1. CASE Len(sent[e]) = 0
  BY <1>1, LengthsAssumption DEF Written, Greeting
<1>2. CASE Len(sent[e]) # 0
  <2>1. sent[e] \in Seq(Packet)
    BY DEF TypeOK
  <2>2. sent[e][Len(sent[e])] \in Packet
    BY <1>2, <2>1
  <2> QED
    BY <1>2, <2>2 DEF Written, Packet
<1> QED
  BY <1>1, <1>2

\* What an end has written depends on its own packets and greeting.
LEMMA WrittenSame ==
  ASSUME NEW e, sent'[e] = sent[e], greeted' = greeted
  PROVE  Written(e)' = Written(e) /\ Greeting(e)' = Greeting(e)
BY DEF Written, Greeting

LEMMA WrittenNatAll == TypeOK => \A e \in Ends : Written(e) \in Nat
BY WrittenNat

LEMMA WrittenNatNext == (TypeOK => \A e \in Ends : Written(e) \in Nat)'
BY WrittenNatAll, PTL

LEMMA InitIInv == Init => IInv
<1> SUFFICES ASSUME Init PROVE IInv
  OBVIOUS
<1>1. TypeOK
  BY DEF Init, TypeOK, NoHeader, Header
<1>2. Fresh
  BY EndsAssumption DEF Init, Fresh, Ends
<1>3. ASSUME NEW e \in Ends PROVE EndInv(e)
  <2>1. Written(Peer(e)) = 0 /\ Peer(e) \in Ends
    BY Peers DEF Init, Written, Greeting
  <2> QED
    BY <2>1, LengthsAssumption
    DEF Init, EndInv, Layout, Within, Settled, Bounded, Aligned, Behind, Refused, NoHeader
<1> QED
  BY <1>1, <1>2, <1>3 DEF IInv

-----------------------------------------------------------------------------
(* Types.                                                                  *)

LEMMA ContentNat ==
  ASSUME TypeOK, NEW e \in Ends
  PROVE  Content(e) \in Nat
<1>1. PacketHeader[e].pkt \in Nat
  BY DEF TypeOK, Header
<1> QED
  BY <1>1 DEF Content

LEMMA HeadersType ==
  ASSUME TypeOK, NEW e \in Ends, NEW h \in Headers(e)
  PROVE  h \in Header
<1>1. Peer(e) \in Ends
  BY Peers
<1>2. sent[Peer(e)] \in Seq(Packet)
  BY <1>1 DEF TypeOK
<1>3. \A p \in 1 .. Len(sent[Peer(e)]) : sent[Peer(e)][p].size \in Nat
  <2> TAKE p \in 1 .. Len(sent[Peer(e)])
  <2>1. sent[Peer(e)][p] \in Packet
    BY <1>2
  <2> QED
    BY <2>1 DEF Packet
<1> QED
  BY <1>3, LengthsAssumption DEF Headers, Header

LEMMA ChunksType ==
  ASSUME TypeOK, NEW e \in Ends, NEW want \in Int, NEW n \in Chunks(e, want)
  PROVE  n \in Nat /\ 1 <= n /\ n <= want /\ n <= Available(e)
BY DEF Chunks

LEMMA TypeStep == TypeOK /\ [Next]_vars => TypeOK'
<1> SUFFICES ASSUME TypeOK, [Next]_vars PROVE TypeOK'
  OBVIOUS
<1> USE LengthsAssumption
<1>0. NoHeader \in Header
  BY DEF NoHeader, Header
<1>1. CASE Connect
  BY <1>1 DEF Connect, TypeOK, progress
<1>2. CASE InitHandshake
  <2>1. received' \in [Ends -> Nat] /\ open' \in [Ends -> BOOLEAN]
    <3>1. CASE UNCHANGED <<open, received>>
      BY <3>1 DEF TypeOK
    <3>2. ASSUME NEW n \in Chunks(Client, ReadyLen), Take(Client, n),
                 open' = [open EXCEPT ![Client] = Answer(n)]
          PROVE  received' \in [Ends -> Nat] /\ open' \in [Ends -> BOOLEAN]
      <4>1. n \in Nat
        BY DEF Chunks
      <4>2. received' \in [Ends -> Nat]
        BY <3>2, <4>1 DEF TypeOK, Take, Ends
      <4>3. Answer(n) \in BOOLEAN
        BY DEF Answer
      <4>4. open' \in [Ends -> BOOLEAN]
        BY <3>2, <4>3 DEF TypeOK
      <4> QED
        BY <4>2, <4>4
    <3> QED
      BY <1>2, <3>1, <3>2 DEF InitHandshake
  <2>2. /\ PState' \in [Ends -> {"Handshake", "Header", "Payload"}]
        /\ Read' \in [Ends -> Nat] /\ Size' \in [Ends -> Nat]
        /\ PacketHeader' \in [Ends -> Header]
    <3>1. Reset(Client) \/ UNCHANGED progress
      BY <1>2 DEF InitHandshake
    <3> QED
      BY <1>0, <3>1 DEF Reset, progress, TypeOK, Ends
  <2> QED
    BY <1>2, <2>1, <2>2 DEF InitHandshake, TypeOK
<1>3. CASE Handshake
  BY <1>3 DEF Handshake, TypeOK, progress
<1>4. ASSUME NEW e \in Ends, Send(e) PROVE TypeOK'
  <2>1. PICK s \in Sizes : \E k \in Accepted(HeaderSize + s) :
          sent' = [sent EXCEPT ![e] = Append(@, [start |-> Written(e), size |-> s, kept |-> k])]
    BY <1>4 DEF Send
  <2>0. PICK k \in Accepted(HeaderSize + s) :
          sent' = [sent EXCEPT ![e] = Append(@, [start |-> Written(e), size |-> s, kept |-> k])]
    BY <2>1
  <2>2. s \in Nat /\ k \in Nat \ {0} /\ Written(e) \in Nat
    BY <2>0, WrittenNat DEF Accepted
  <2>3. [start |-> Written(e), size |-> s, kept |-> k] \in Packet
    BY <2>2, LengthsAssumption DEF Packet
  <2>4. sent' \in [Ends -> Seq(Packet)]
    BY <2>0, <2>3 DEF TypeOK
  <2> QED
    BY <1>4, <2>4 DEF Send, TypeOK, progress
<1>5. ASSUME NEW e \in Ends, WaitHandshake(e) PROVE TypeOK'
  <2>1. PICK n \in Chunks(e, RawLen - Read[e]) :
          /\ Take(e, n)
          /\ \/ Fill(e, n, RawLen + 1) /\ UNCHANGED protocol
             \/ protocol' = [protocol EXCEPT ![e] = "Raw"] /\ Reset(e)
             \/ /\ Read' = [Read EXCEPT ![e] = 0]
                /\ Size' = [Size EXCEPT ![e] = 0]
                /\ UNCHANGED <<PState, PacketHeader, protocol>>
    BY <1>5 DEF WaitHandshake
  <2>2. n \in Nat
    BY DEF Chunks
  <2>3. received' \in [Ends -> Nat]
    BY <2>1, <2>2 DEF Take, TypeOK
  <2>4. /\ PState' \in [Ends -> {"Handshake", "Header", "Payload"}]
        /\ Read' \in [Ends -> Nat] /\ Size' \in [Ends -> Nat]
        /\ PacketHeader' \in [Ends -> Header]
        /\ protocol' \in [Ends -> {"None", "Raw"}]
    <3>1. CASE Fill(e, n, RawLen + 1) /\ UNCHANGED protocol
      BY <2>2, <3>1 DEF Fill, SetSize, TypeOK
    <3>2. CASE protocol' = [protocol EXCEPT ![e] = "Raw"] /\ Reset(e)
      BY <1>0, <3>2 DEF Reset, TypeOK
    <3>3. CASE /\ Read' = [Read EXCEPT ![e] = 0]
               /\ Size' = [Size EXCEPT ![e] = 0]
               /\ UNCHANGED <<PState, PacketHeader, protocol>>
      BY <3>3 DEF TypeOK
    <3> QED
      BY <2>1, <3>1, <3>2, <3>3
  <2> QED
    BY <1>5, <2>3, <2>4 DEF WaitHandshake, TypeOK
<1>6. ASSUME NEW e \in Ends, HandshakeFails(e) PROVE TypeOK'
  BY <1>6 DEF HandshakeFails, TypeOK
<1>7. ASSUME NEW e \in Ends, ReceiveHeader(e) PROVE TypeOK'
  <2>1. PICK n \in Chunks(e, HeaderSize - Read[e]) :
          /\ Take(e, n)
          /\ \/ Fill(e, n, HeaderSize)
             \/ \E h \in Headers(e) :
                  /\ PacketHeader' = [PacketHeader EXCEPT ![e] = h]
                  /\ ToPayload(e) \/ Refuse(e)
    BY <1>7 DEF ReceiveHeader
  <2>2. n \in Nat
    BY DEF Chunks
  <2>3. received' \in [Ends -> Nat]
    BY <2>1, <2>2 DEF Take, TypeOK
  <2>4. /\ PState' \in [Ends -> {"Handshake", "Header", "Payload"}]
        /\ Read' \in [Ends -> Nat] /\ Size' \in [Ends -> Nat]
        /\ PacketHeader' \in [Ends -> Header]
    <3>1. CASE Fill(e, n, HeaderSize)
      BY <2>2, <3>1 DEF Fill, SetSize, TypeOK
    <3>2. ASSUME NEW h \in Headers(e), PacketHeader' = [PacketHeader EXCEPT ![e] = h],
                 ToPayload(e) \/ Refuse(e)
          PROVE  <2>4
      <4>1. h \in Header
        BY HeadersType
      <4>2. PacketHeader' \in [Ends -> Header]
        BY <3>2, <4>1 DEF TypeOK
      <4>3. CASE ToPayload(e)
        BY <4>2, <4>3 DEF ToPayload, TypeOK
      <4>4. CASE Refuse(e)
        BY <4>2, <4>4 DEF Refuse, SetSize, TypeOK
      <4> QED
        BY <3>2, <4>3, <4>4
    <3> QED
      BY <2>1, <3>1, <3>2
  <2> QED
    BY <1>7, <2>3, <2>4 DEF ReceiveHeader, TypeOK
<1>8. ASSUME NEW e \in Ends, ReceivePayload(e) PROVE TypeOK'
  <2> DEFINE size == PacketHeader[e].size
  <2>1. PICK n \in IF size = 0 THEN {0} ELSE Chunks(e, size - Read[e]) :
          /\ Take(e, n)
          /\ \/ Read[e] + n < size /\ Fill(e, n, size) /\ UNCHANGED delivered
             \/ delivered' = [delivered EXCEPT ![e] = Append(@, Content(e))] /\ Reset(e)
    BY <1>8 DEF ReceivePayload
  <2>2. n \in Nat /\ size \in Int /\ Read[e] \in Nat
    BY DEF Chunks, TypeOK, Header
  <2>3. received' \in [Ends -> Nat]
    BY <2>1, <2>2 DEF Take, TypeOK
  <2>4. /\ PState' \in [Ends -> {"Handshake", "Header", "Payload"}]
        /\ Read' \in [Ends -> Nat] /\ Size' \in [Ends -> Nat]
        /\ PacketHeader' \in [Ends -> Header]
    <3>1. CASE Read[e] + n < size /\ Fill(e, n, size)
      <4>1. size \in Nat
        BY <2>2, <3>1
      <4> QED
        BY <2>2, <3>1, <4>1 DEF Fill, SetSize, TypeOK
    <3>2. CASE Reset(e)
      BY <1>0, <3>2 DEF Reset, TypeOK
    <3> QED
      BY <2>1, <3>1, <3>2
  <2>5. delivered' \in [Ends -> Seq(Nat)]
    <3>1. Content(e) \in Nat /\ delivered[e] \in Seq(Nat)
      BY ContentNat DEF TypeOK
    <3>2. Append(delivered[e], Content(e)) \in Seq(Nat)
      BY <3>1
    <3> QED
      BY <2>1, <3>2 DEF TypeOK
  <2> QED
    BY <1>8, <2>3, <2>4, <2>5 DEF ReceivePayload, TypeOK
<1>9. ASSUME NEW e \in Ends, ReceiveFails(e) PROVE TypeOK'
  <2>1. PacketHeader[e].size \in Int /\ Size \in [Ends -> Nat]
    BY DEF TypeOK, Header
  <2>2. Size' \in [Ends -> Nat]
    BY <1>9, <2>1 DEF ReceiveFails, SetSize
  <2> QED
    BY <1>9, <2>2 DEF ReceiveFails, TypeOK
<1>10. ASSUME NEW e \in Ends, Close(e) PROVE TypeOK'
  BY <1>10 DEF Close, TypeOK, progress
<1>11. CASE UNCHANGED vars
  BY <1>11 DEF vars, progress, TypeOK
<1>12. CASE ForeignWrites
  <2>1. PICK s \in Sizes :
          sent' = [sent EXCEPT ![Client] =
                    Append(@, [start |-> Written(Client), size |-> s, kept |-> HeaderSize + s])]
    BY <1>12 DEF ForeignWrites
  <2>2. Client \in Ends /\ s \in Nat /\ HeaderSize + s \in Nat \ {0} /\ Written(Client) \in Nat
    BY WrittenNat DEF Ends
  <2>3. [start |-> Written(Client), size |-> s, kept |-> HeaderSize + s] \in Packet
    BY <2>2 DEF Packet
  <2>4. sent' \in [Ends -> Seq(Packet)]
    BY <2>1, <2>2, <2>3 DEF TypeOK
  <2> QED
    BY <1>12, <2>4 DEF ForeignWrites, TypeOK, progress
<1>13. CASE ForeignReads
  <2>1. Peer(Client) \in Ends /\ Client \in Ends
    BY Peers DEF Ends
  <2>2. Written(Peer(Client)) \in Nat /\ received[Client] \in Nat
    BY <2>1, WrittenNat DEF TypeOK
  <2>3. received[Client] + Available(Client) \in Nat
    BY <2>2 DEF Available
  <2>4. received' \in [Ends -> Nat]
    BY <1>13, <2>3 DEF ForeignReads, Take, TypeOK
  <2> QED
    BY <1>13, <2>4 DEF ForeignReads, TypeOK, progress
<1>14. CASE ForeignCloses
  BY <1>14 DEF ForeignCloses, TypeOK, progress
<1> QED
  BY <1>1, <1>2, <1>3, <1>4, <1>5, <1>6, <1>7, <1>8, <1>9, <1>10, <1>11, <1>12, <1>13, <1>14
  DEF Next, Receive

-----------------------------------------------------------------------------
(* Steps of the writer.                                                    *)

LEMMA PacketType ==
  ASSUME TypeOK, NEW e \in Ends, NEW i \in 1 .. Len(sent[e])
  PROVE  /\ sent[e][i].start \in Nat /\ sent[e][i].size \in Nat
         /\ sent[e][i].kept \in Nat \ {0}
<1>1. sent[e] \in Seq(Packet)
  BY DEF TypeOK
<1>2. sent[e][i] \in Packet
  BY <1>1
<1> QED
  BY <1>2 DEF Packet

\* A greeting is written by an end that nobody waits for packets of.
LEMMA GreetStep ==
  ASSUME IInv, TypeOK', NEW g \in Ends, greeted' = [greeted EXCEPT ![g] = TRUE],
         UNCHANGED <<foreign, progress, sent, received, delivered>>
  PROVE  \A e \in Ends : EndInv(e)'
<1> SUFFICES ASSUME NEW e \in Ends PROVE EndInv(e)'
  OBVIOUS
<1>1. EndInv(e) /\ EndInv(Peer(e)) /\ TypeOK /\ Peer(e) \in Ends
  BY Peers DEF IInv
<1>2. Layout(e)'
  <2>1. sent[e] # <<>> => greeted[e] /\ Greeting(e)' = Greeting(e)
    BY <1>1 DEF EndInv, Layout, Greeting, TypeOK
  <2> QED
    BY <1>1, <2>1 DEF EndInv, Layout, TypeOK
<1>3. greeted[Peer(e)] => Written(Peer(e))' = Written(Peer(e)) /\ greeted'[Peer(e)]
  BY <1>1 DEF Written, Greeting, TypeOK
<1>4. Written(Peer(e)) <= Written(Peer(e))'
  <2>1. CASE greeted[Peer(e)]
    BY <1>1, <1>3, <2>1, WrittenNat
  <2>2. CASE ~greeted[Peer(e)]
    <3>1. sent[Peer(e)] = <<>>
      BY <1>1, <2>2 DEF EndInv, Layout
    <3> QED
      BY <2>2, <3>1, LengthsAssumption DEF Written, Greeting
  <2> QED
    BY <2>1, <2>2
<1>5. Within(e)'
  <2>1. Written(Peer(e)) \in Nat /\ Written(Peer(e))' \in Nat
    BY <1>1, WrittenNat, WrittenNatNext
  <2> QED
    BY <1>1, <1>4, <2>1 DEF EndInv, Within, TypeOK, progress
<1>6. Settled(e)' /\ Bounded(e)'
  BY <1>1, <1>3 DEF EndInv, Settled, Bounded, Refused, progress
<1>7. Aligned(e)'
  BY <1>1, <1>3
  DEF EndInv, Settled, Aligned, AtHeader, AtPayload, WholeUpTo, Foreign, Start, Base, progress
<1>8. Behind(e)'
  <2>1. PState[e] # "Handshake" => greeted[Peer(e)] /\ greeted'[Peer(e)]
    BY <1>1, <1>3 DEF EndInv, Settled
  <2>2. Base(e)' = Base(e) /\ PState'[e] = PState[e]
    BY DEF Base, progress
  <2>3. PState[e] # "Handshake" => Greeting(Peer(e))' = Greeting(Peer(e))
    BY <2>1 DEF Greeting
  <2> QED
    BY <1>1, <2>2, <2>3 DEF EndInv, Behind
<1> QED
  BY <1>2, <1>5, <1>6, <1>7, <1>8 DEF EndInv

LEMMA SendLayout ==
  ASSUME IInv, TypeOK', NEW e \in Ends, NEW s \in Nat, NEW k \in Nat \ {0}, greeted[e],
         sent' = [sent EXCEPT ![e] = Append(@, [start |-> Written(e), size |-> s, kept |-> k])],
         UNCHANGED greeted
  PROVE  Layout(e)' /\ Written(e)' = Written(e) + k /\ Written(e) \in Nat
<1> DEFINE out == sent[e]
           p == [start |-> Written(e), size |-> s, kept |-> k]
           n == Len(out)
<1>0. TypeOK /\ Layout(e)
  BY DEF IInv, EndInv
<1>1. TypeOK /\ Layout(e) /\ out \in Seq(Packet) /\ n \in Nat /\ Written(e) \in Nat
  <2>1. out \in Seq(Packet)
    BY <1>0 DEF TypeOK
  <2> QED
    BY <1>0, <2>1, WrittenNat
<1>2. /\ sent'[e] = Append(out, p)
      /\ Len(sent'[e]) = n + 1
      /\ sent'[e][n + 1] = p
      /\ \A i \in 1 .. n : sent'[e][i] = out[i]
  BY <1>1 DEF TypeOK
<1>3. Written(e)' = Written(e) + k
  BY <1>1, <1>2 DEF Written
<1>4. \A i \in 1 .. n : out[i].start \in Nat /\ out[i].kept \in Nat
  BY <1>1, PacketType
<1>5. \A i \in 1 .. n : out[i].start + out[i].kept <= Written(e)
  <2> TAKE i \in 1 .. n
  <2>1. out[n].start + out[n].kept = Written(e)
    BY <1>1 DEF Written
  <2>2. CASE i = n
    BY <1>4, <2>1, <2>2
  <2>3. CASE i < n
    <3>1. n \in 1 .. n
      BY <1>1
    <3>2. out[i].start + out[i].kept <= out[n].start
      BY <1>1, <2>3, <3>1 DEF Layout
    <3>3. /\ out[i].start \in Nat /\ out[i].kept \in Nat
          /\ out[n].start \in Nat /\ out[n].kept \in Nat
      BY <1>4, <3>1
    <3> QED
      BY <2>1, <3>2, <3>3
  <2> QED
    BY <1>1, <2>2, <2>3
<1>6. sent'[e][1].start = Greeting(e)
  <2>1. CASE n = 0
    BY <1>1, <1>2, <2>1 DEF Written
  <2>2. CASE n # 0
    BY <1>1, <1>2, <2>2 DEF Layout
  <2> QED
    BY <2>1, <2>2
<1>7. \A i \in 1 .. n : sent'[e][i + 1].start = sent'[e][i].start + sent'[e][i].kept
  <2> TAKE i \in 1 .. n
  <2>1. CASE i = n
    BY <1>1, <1>2, <2>1 DEF Written
  <2>2. CASE i < n
    <3>1. i + 1 \in 1 .. n
      BY <1>1, <2>2
    <3> QED
      BY <1>1, <1>2, <2>2, <3>1 DEF Layout
  <2> QED
    BY <1>1, <2>1, <2>2
<1>8. \A i, j \in 1 .. n + 1 : i < j => sent'[e][i].start + sent'[e][i].kept <= sent'[e][j].start
  <2> SUFFICES ASSUME NEW i \in 1 .. n + 1, NEW j \in 1 .. n + 1, i < j
               PROVE  sent'[e][i].start + sent'[e][i].kept <= sent'[e][j].start
    OBVIOUS
  <2>1. i \in 1 .. n
    BY <1>1
  <2>2. CASE j = n + 1
    BY <1>2, <1>5, <2>1, <2>2
  <2>3. CASE j # n + 1
    <3>1. j \in 1 .. n
      BY <1>1, <2>3
    <3> QED
      BY <1>1, <1>2, <2>1, <3>1 DEF Layout
  <2> QED
    BY <2>2, <2>3
<1>9. Greeting(e)' = Greeting(e) /\ greeted'[e]
  BY DEF Greeting
<1> QED
  BY <1>1, <1>2, <1>3, <1>6, <1>7, <1>8, <1>9 DEF Layout

\* Whatever an end writes is behind what the other end may be waiting for.
LEMMA WriteStep ==
  ASSUME IInv, TypeOK', NEW o \in Ends, NEW s \in Nat, NEW k \in Nat \ {0}, greeted[o],
         sent' = [sent EXCEPT ![o] = Append(@, [start |-> Written(o), size |-> s, kept |-> k])],
         UNCHANGED <<foreign, progress, greeted, received, delivered>>
  PROVE  \A e \in Ends : EndInv(e)'
<1>2. sent' = [sent EXCEPT ![o] = Append(@, [start |-> Written(o), size |-> s, kept |-> k])]
  OBVIOUS
<1>3. s \in Nat /\ k \in Nat \ {0}
  OBVIOUS
<1>4. Layout(o)' /\ Written(o)' = Written(o) + k /\ Written(o) \in Nat
  BY SendLayout
<1>5. TypeOK /\ UNCHANGED <<foreign, progress, greeted, received, delivered>>
  BY DEF IInv
<1> SUFFICES ASSUME NEW e \in Ends PROVE EndInv(e)'
  OBVIOUS
<1>6. EndInv(e) /\ Peer(e) \in Ends
  BY Peers DEF IInv
<1>9. Behind(e)'
  BY <1>5, <1>6 DEF EndInv, Behind, Base, Greeting, progress
<1>7. CASE e = o
  <2>1. sent'[Peer(e)] = sent[Peer(e)] /\ Peer(e) # e
    BY <1>2, <1>5, <1>6, <1>7, Peers DEF TypeOK
  <2>2. Written(Peer(e))' = Written(Peer(e))
    <3>1. greeted' = greeted
      BY <1>5
    <3> QED
      BY <2>1, <3>1, WrittenSame
  <2>3. Within(e)' /\ Settled(e)' /\ Bounded(e)'
    BY <1>5, <1>6, <2>2 DEF EndInv, Within, Settled, Bounded, Refused, progress
  <2>4. Aligned(e)'
    BY <1>5, <1>6, <2>1, <2>2
    DEF EndInv, Aligned, AtHeader, AtPayload, WholeUpTo, Foreign, Start, Base, progress
  <2> QED
    BY <1>4, <1>7, <1>9, <2>3, <2>4 DEF EndInv
<1>8. CASE e # o
  <2>1. Peer(e) = o /\ sent'[e] = sent[e]
    BY <1>2, <1>5, <1>8 DEF Ends, Peer, TypeOK
  <2>2. Layout(e)'
    BY <1>5, <1>6, <2>1 DEF EndInv, Layout, Greeting
  <2>3. Within(e)'
    BY <1>3, <1>4, <1>5, <1>6, <2>1 DEF EndInv, Within, TypeOK, progress
  <2>4. Settled(e)' /\ Bounded(e)'
    BY <1>5, <1>6 DEF EndInv, Settled, Bounded, Refused, progress
  <2> DEFINE n == Len(sent[o])
             m == Len(delivered[e]) + 1
  <2>5. /\ n \in Nat /\ m \in Nat
        /\ Len(sent'[o]) = n + 1
        /\ sent'[o][n + 1] = [start |-> Written(o), size |-> s, kept |-> k]
        /\ \A i \in 1 .. n : sent'[o][i] = sent[o][i]
    BY <1>2, <1>5 DEF TypeOK
  <2>6. \A i \in Nat : WholeUpTo(o, i)' => WholeUpTo(o, i)
    BY <1>5, <2>5 DEF WholeUpTo, Foreign
  <2>7. \A i \in 1 .. n + 1 : Start(o, i)' = Start(o, i)
    BY <2>5 DEF Start
  <2>8. Base(e)' = Base(e)
    BY <1>5 DEF Base, progress
  <2>9. AtHeader(e, m) => AtHeader(e, m)'
    BY <1>5, <2>1, <2>5, <2>7, <2>8 DEF AtHeader
  <2>10. AtPayload(e, m) => AtPayload(e, m)'
    BY <1>5, <2>1, <2>5, <2>8 DEF AtPayload, progress
  <2> QED
    BY <1>5, <1>6, <1>9, <2>1, <2>2, <2>3, <2>4, <2>5, <2>6, <2>9, <2>10 DEF EndInv, Aligned, progress
<1> QED
  BY <1>7, <1>8

\* What Send and a foreign peer append.
LEMMA Appended ==
  ASSUME NEW o \in Ends, Send(o) \/ (o = Client /\ ForeignWrites)
  PROVE  /\ greeted[o] /\ UNCHANGED <<foreign, progress, greeted, received, delivered>>
         /\ \E s \in Sizes, k \in Nat \ {0} : sent' =
              [sent EXCEPT ![o] = Append(@, [start |-> Written(o), size |-> s, kept |-> k])]
<1>1. CASE Send(o)
  <2>1. PICK s \in Sizes : \E k \in Accepted(HeaderSize + s) :
          sent' = [sent EXCEPT ![o] = Append(@, [start |-> Written(o), size |-> s, kept |-> k])]
    BY <1>1 DEF Send
  <2>2. Accepted(HeaderSize + s) \subseteq Nat \ {0}
    BY LengthsAssumption DEF Accepted
  <2> QED
    BY <1>1, <2>1, <2>2 DEF Send
<1>2. CASE o = Client /\ ForeignWrites
  <2>1. PICK s \in Sizes :
          sent' = [sent EXCEPT ![o] =
                    Append(@, [start |-> Written(o), size |-> s, kept |-> HeaderSize + s])]
    BY <1>2 DEF ForeignWrites
  <2>2. HeaderSize + s \in Nat \ {0}
    BY LengthsAssumption
  <2> QED
    BY <1>2, <2>1, <2>2 DEF ForeignWrites, ForeignUp
<1> QED
  BY <1>1, <1>2

LEMMA SendStep ==
  ASSUME IInv, TypeOK', NEW o \in Ends, Send(o) \/ (o = Client /\ ForeignWrites)
  PROVE  \A e \in Ends : EndInv(e)'
<1>1. PICK s \in Sizes, k \in Nat \ {0} :
        sent' = [sent EXCEPT ![o] = Append(@, [start |-> Written(o), size |-> s, kept |-> k])]
  BY Appended
<1>2. s \in Nat
  BY LengthsAssumption
<1>3. greeted[o] /\ UNCHANGED <<foreign, progress, greeted, received, delivered>>
  BY Appended
<1> QED
  BY <1>1, <1>2, <1>3, WriteStep

-----------------------------------------------------------------------------
(* Steps of the reader.                                                    *)

\* Nothing of an end but r's own reading changes.
Others(r) ==
  /\ UNCHANGED <<foreign, sent, greeted>>
  /\ \A e \in Ends : e # r =>
       /\ PState'[e] = PState[e] /\ Read'[e] = Read[e] /\ Size'[e] = Size[e]
       /\ PacketHeader'[e] = PacketHeader[e]
       /\ received'[e] = received[e] /\ delivered'[e] = delivered[e]

\* Every way to go on with a packet changes what only e reads with.
LEMMA OthersKept ==
  ASSUME TypeOK, NEW e \in Ends, NEW n \in Nat, UNCHANGED <<foreign, sent, greeted>>,
         received' = [received EXCEPT ![e] = @ + n],
         UNCHANGED delivered \/ \E c : delivered' = [delivered EXCEPT ![e] = c],
         UNCHANGED PState \/ \E s : PState' = [PState EXCEPT ![e] = s],
         UNCHANGED Read \/ \E r : Read' = [Read EXCEPT ![e] = r],
         UNCHANGED Size \/ \E s : Size' = [Size EXCEPT ![e] = s],
         UNCHANGED PacketHeader \/ \E h : PacketHeader' = [PacketHeader EXCEPT ![e] = h]
  PROVE  Others(e)
<1> SUFFICES ASSUME NEW x \in Ends, x # e
             PROVE  /\ PState'[x] = PState[x] /\ Read'[x] = Read[x] /\ Size'[x] = Size[x]
                    /\ PacketHeader'[x] = PacketHeader[x]
                    /\ received'[x] = received[x] /\ delivered'[x] = delivered[x]
  BY DEF Others
<1>1. PState'[x] = PState[x] /\ Read'[x] = Read[x]
  BY DEF TypeOK
<1>2. Size'[x] = Size[x] /\ PacketHeader'[x] = PacketHeader[x]
  BY DEF TypeOK
<1>3. received'[x] = received[x] /\ delivered'[x] = delivered[x]
  BY DEF TypeOK
<1> QED
  BY <1>1, <1>2, <1>3

LEMMA SameStream ==
  ASSUME UNCHANGED <<foreign, sent, greeted>>
  PROVE  \A e : /\ Written(e)' = Written(e)
                /\ Greeting(e)' = Greeting(e)
                /\ \A k : Start(e, k)' = Start(e, k) /\ (WholeUpTo(e, k)' <=> WholeUpTo(e, k))
BY DEF Written, Greeting, Start, WholeUpTo, Foreign

LEMMA ReadStep ==
  ASSUME IInv, NEW r \in Ends, Others(r), Within(r)', Settled(r)', Bounded(r)', Aligned(r)',
         Behind(r)'
  PROVE  \A e \in Ends : EndInv(e)'
<1> SUFFICES ASSUME NEW e \in Ends PROVE EndInv(e)'
  OBVIOUS
<1>1. EndInv(e) /\ UNCHANGED <<foreign, sent, greeted>>
  BY DEF IInv, Others
<1>2. Layout(e)'
  BY <1>1 DEF EndInv, Layout, Greeting
<1>3. CASE e = r
  BY <1>2, <1>3 DEF EndInv
<1>4. CASE e # r
  <2>1. /\ PState'[e] = PState[e] /\ Read'[e] = Read[e] /\ Size'[e] = Size[e]
        /\ PacketHeader'[e] = PacketHeader[e]
        /\ received'[e] = received[e] /\ delivered'[e] = delivered[e]
    BY <1>4 DEF Others
  <2>2. Within(e)' /\ Settled(e)' /\ Bounded(e)'
    BY <1>1, <2>1, SameStream DEF EndInv, Within, Settled, Bounded, Refused
  <2>3. Aligned(e)'
    BY <1>1, <2>1
    DEF EndInv, Aligned, AtHeader, AtPayload, WholeUpTo, Foreign, Start, Written, Greeting, Base
  <2>4. Behind(e)'
    BY <1>1, <2>1 DEF EndInv, Behind, Base, Greeting
  <2> QED
    BY <1>2, <2>2, <2>3, <2>4 DEF EndInv
<1> QED
  BY <1>3, <1>4

\* Nothing is written or read.
LEMMA Unread ==
  ASSUME IInv, UNCHANGED <<foreign, progress, greeted, sent, received, delivered>>
  PROVE  \A e \in Ends : EndInv(e)'
<1> SUFFICES ASSUME NEW e \in Ends PROVE EndInv(e)'
  OBVIOUS
<1>1. EndInv(e)
  BY DEF IInv
<1>2. Layout(e)' /\ Within(e)' /\ Settled(e)' /\ Bounded(e)'
  BY <1>1, SameStream DEF EndInv, Layout, Within, Settled, Bounded, Refused, progress
<1>3. Aligned(e)'
  BY <1>1
  DEF EndInv, Aligned, AtHeader, AtPayload, WholeUpTo, Foreign, Start, Written, Greeting, Base, progress
<1>4. Behind(e)'
  BY <1>1 DEF EndInv, Behind, Base, Greeting, progress
<1> QED
  BY <1>2, <1>3, <1>4 DEF EndInv

\* A complete header is the k-th packet's, if that was written whole.
LEMMA HeaderOf ==
  ASSUME IInv, NEW e \in Ends, PState[e] = "Header",
         NEW k \in Nat \ {0}, k = Len(delivered[e]) + 1, WholeUpTo(Peer(e), k),
         Base(e) + HeaderSize <= Written(Peer(e)), NEW h \in Headers(e)
  PROVE  /\ k <= Len(sent[Peer(e)])
         /\ h = [pkt |-> k, size |-> sent[Peer(e)][k].size]
         /\ Base(e) = sent[Peer(e)][k].start
<1> DEFINE o == Peer(e)
           out == sent[o]
           at == {p \in 1 .. Len(out) :
                    ~Foreign(o) /\ out[p].start = Base(e) /\ out[p].kept >= HeaderSize}
<1>1. o \in Ends /\ TypeOK /\ Aligned(e) /\ Layout(o) /\ out \in Seq(Packet)
  BY Peers DEF IInv, EndInv, TypeOK
<1>2. WholeUpTo(o, k - 1)
  BY DEF WholeUpTo
<1>3. AtHeader(e, k)
  BY <1>1, <1>2 DEF Aligned
<1>4. k <= Len(out)
  <2>1. k # Len(out) + 1
    <3>1. SUFFICES ASSUME k = Len(out) + 1 PROVE FALSE
      OBVIOUS
    <3>2. Base(e) = Written(o)
      BY <1>1, <1>3, <3>1 DEF AtHeader, Start
    <3>3. Written(o) \in Nat
      BY <1>1, WrittenNat
    <3> QED
      BY <3>2, <3>3, LengthsAssumption
  <2> QED
    BY <1>1, <1>3, <2>1 DEF AtHeader
<1>5. \A p \in 1 .. Len(out) : out[p].start \in Nat /\ out[p].size \in Nat /\ out[p].kept \in Nat \ {0}
  BY <1>1, PacketType
<1>6. k \in 1 .. Len(out) /\ Base(e) = out[k].start /\ out[k].kept = HeaderSize + out[k].size
  BY <1>1, <1>3, <1>4 DEF AtHeader, Start, WholeUpTo
<1>7. k \in at
  <2>1. ~Foreign(o)
    BY DEF WholeUpTo
  <2> QED
    BY <1>5, <1>6, <2>1, LengthsAssumption
<1>8. \A p \in at : p = k
  <2> TAKE p \in at
  <2>1. CASE p < k
    <3>1. out[p].start + out[p].kept <= out[k].start
      BY <1>1, <1>6, <2>1 DEF Layout
    <3> QED
      BY <1>5, <1>6, <3>1
  <2>2. CASE k < p
    <3>1. out[k].start + out[k].kept <= out[p].start
      BY <1>1, <1>6, <2>2 DEF Layout
    <3> QED
      BY <1>5, <1>6, <3>1
  <2> QED
    BY <1>6, <2>1, <2>2
<1>9. h \in {[pkt |-> p, size |-> out[p].size] : p \in at}
  BY <1>7 DEF Headers
<1> QED
  BY <1>4, <1>6, <1>8, <1>9

\* The types of what an end reads with.
LEMMA Reader ==
  ASSUME IInv, NEW e \in Ends
  PROVE  /\ TypeOK /\ EndInv(e) /\ Peer(e) \in Ends
         /\ Len(delivered[e]) + 1 \in Nat \ {0}
         /\ Read[e] \in Nat /\ Size[e] \in Nat /\ received[e] \in Nat
         /\ Written(Peer(e)) \in Nat
<1>1. TypeOK /\ EndInv(e) /\ Peer(e) \in Ends
  BY Peers DEF IInv
<1>2. Written(Peer(e)) \in Nat
  BY <1>1, WrittenNat
<1>3. delivered[e] \in Seq(Nat)
  BY <1>1 DEF TypeOK
<1>4. Len(delivered[e]) + 1 \in Nat \ {0}
  BY <1>3
<1>5. Read[e] \in Nat /\ Size[e] \in Nat /\ received[e] \in Nat
  BY <1>1 DEF TypeOK
<1> QED
  BY <1>1, <1>2, <1>4, <1>5

LEMMA HeaderStep ==
  ASSUME IInv, TypeOK', NEW e \in Ends, ReceiveHeader(e)
  PROVE  \A x \in Ends : EndInv(x)'
<1> DEFINE o == Peer(e)
           k == Len(delivered[e]) + 1
<1>1. PICK n \in Chunks(e, HeaderSize - Read[e]) :
        /\ Take(e, n)
        /\ \/ /\ Read[e] + n < HeaderSize
              /\ Fill(e, n, HeaderSize)
           \/ /\ Read[e] + n = HeaderSize
              /\ \E h \in Headers(e) :
                   /\ PacketHeader' = [PacketHeader EXCEPT ![e] = h]
                   /\ \/ SizeAllowed(h) /\ ToPayload(e)
                      \/ ~SizeAllowed(h) /\ Refuse(e)
  BY DEF ReceiveHeader
<1>2. /\ TypeOK /\ EndInv(e) /\ o \in Ends /\ k \in Nat \ {0}
      /\ Read[e] \in Nat /\ Size[e] \in Nat /\ received[e] \in Nat /\ Written(o) \in Nat
      /\ HeaderSize \in Nat \ {0}
  BY Reader, LengthsAssumption
<1>3. n \in Nat /\ 1 <= n /\ n <= HeaderSize - Read[e] /\ received[e] + n <= Written(o)
  BY <1>2 DEF Chunks, Available
<1>4. /\ UNCHANGED <<foreign, sent, greeted, delivered>> /\ PState[e] = "Header"
      /\ received' = [received EXCEPT ![e] = received[e] + n]
  BY <1>1 DEF ReceiveHeader, Take
<1>5. Others(e)
  <2>1. CASE Fill(e, n, HeaderSize) /\ UNCHANGED delivered
    BY <1>2, <1>3, <1>4, <2>1, OthersKept DEF Fill
  <2>2. ASSUME NEW h \in Headers(e), PacketHeader' = [PacketHeader EXCEPT ![e] = h],
               ToPayload(e)
        PROVE  Others(e)
    BY <1>2, <1>3, <1>4, <2>2, OthersKept DEF ToPayload
  <2>3. ASSUME NEW h \in Headers(e), PacketHeader' = [PacketHeader EXCEPT ![e] = h],
               Refuse(e)
        PROVE  Others(e)
    BY <1>2, <1>3, <1>4, <2>3, OthersKept DEF Refuse
  <2> QED
    BY <1>1, <1>4, <2>1, <2>2, <2>3
<1>6. received'[e] = received[e] + n /\ Written(o)' = Written(o)
  BY <1>2, <1>4, SameStream DEF TypeOK
<1>7. ~Refused(e) /\ greeted'[o] /\ Read[e] <= received[e]
  BY <1>2, <1>3, <1>4 DEF EndInv, Settled, Within
<1>10. /\ Greeting(o) \in Nat /\ Greeting(o)' = Greeting(o)
       /\ Base(e) \in Int /\ Greeting(o) <= Base(e)
  BY <1>2, <1>4, SameStream, LengthsAssumption DEF Greeting, Base, EndInv, Behind
<1>8. CASE Read[e] + n < HeaderSize /\ Fill(e, n, HeaderSize)
  <2>1. /\ Read'[e] = Read[e] + n /\ Size'[e] >= HeaderSize
        /\ PState'[e] = "Header" /\ PacketHeader'[e] = PacketHeader[e]
    BY <1>2, <1>4, <1>8 DEF Fill, SetSize, TypeOK
  <2>2. Within(e)' /\ Settled(e)' /\ Bounded(e)'
    <3>1. Within(e)'
      BY <1>2, <1>3, <1>6, <1>7, <2>1 DEF Within
    <3>2. Size'[e] \in Nat
      BY DEF TypeOK
    <3>3. Bounded(e)'
      BY <1>2, <1>3, <2>1, <3>2 DEF Bounded
    <3>4. Settled(e)'
      BY <1>7, <2>1 DEF Settled, Refused
    <3> QED
      BY <3>1, <3>3, <3>4
  <2>3. Base(e)' = Base(e)
    BY <1>2, <1>3, <1>6, <2>1 DEF Base
  <2>4. Aligned(e)'
    BY <1>2, <1>4, <2>1, <2>3, SameStream DEF EndInv, Aligned, AtHeader
  <2>5. Behind(e)'
    BY <1>10, <2>1, <2>3 DEF Behind
  <2> QED
    BY <1>5, <2>2, <2>4, <2>5, ReadStep
<1>9. ASSUME NEW h \in Headers(e), Read[e] + n = HeaderSize,
             PacketHeader' = [PacketHeader EXCEPT ![e] = h]
      PROVE  /\ SizeAllowed(h) /\ ToPayload(e) => \A x \in Ends : EndInv(x)'
             /\ ~SizeAllowed(h) /\ Refuse(e) => \A x \in Ends : EndInv(x)'
  <2>1. PacketHeader'[e] = h
    BY <1>2, <1>9 DEF TypeOK
  <2>2. ASSUME SizeAllowed(h), ToPayload(e) PROVE \A x \in Ends : EndInv(x)'
    <3>1. PState'[e] = "Payload" /\ Read'[e] = 0 /\ Size'[e] = 0
      BY <1>2, <2>2 DEF ToPayload, TypeOK
    <3>2. Within(e)' /\ Settled(e)' /\ Bounded(e)'
      BY <1>2, <1>3, <1>6, <1>7, <2>1, <2>2, <3>1
      DEF Within, Settled, Bounded, Refused, SizeAllowed
    <3>3. Base(e)' = Base(e) + HeaderSize /\ Base(e) + HeaderSize <= Written(o)
      BY <1>2, <1>3, <1>6, <1>9, <3>1 DEF Base
    <3>4. WholeUpTo(o, k) =>
            k <= Len(sent[o]) /\ h = [pkt |-> k, size |-> sent[o][k].size] /\ Base(e) = sent[o][k].start
      BY <1>2, <1>4, <3>3, HeaderOf
    <3>5. Aligned(e)'
      BY <1>4, <2>1, <3>1, <3>3, <3>4, SameStream DEF Aligned, AtPayload
    <3>6. Behind(e)'
      BY <1>2, <1>10, <3>1, <3>3 DEF Behind
    <3> QED
      BY <1>5, <3>2, <3>5, <3>6, ReadStep
  <2>3. ASSUME ~SizeAllowed(h), Refuse(e) PROVE \A x \in Ends : EndInv(x)'
    <3>1. PState'[e] = "Header" /\ Read'[e] = HeaderSize /\ Size'[e] >= HeaderSize
      BY <1>2, <1>4, <2>3 DEF Refuse, SetSize, TypeOK
    <3>2. Within(e)' /\ Settled(e)' /\ Bounded(e)'
      BY <1>2, <1>3, <1>4, <1>6, <1>7, <1>9, <2>1, <2>3, <3>1
      DEF Within, Settled, Bounded, Refused, SizeAllowed, TypeOK
    <3>3. Base(e)' = Base(e)
      BY <1>2, <1>3, <1>6, <1>9, <3>1 DEF Base
    <3>4. Aligned(e)'
      BY <1>2, <1>4, <3>1, <3>3, SameStream DEF EndInv, Aligned, AtHeader
    <3>5. Behind(e)'
      BY <1>10, <3>1, <3>3 DEF Behind
    <3> QED
      BY <1>5, <3>2, <3>4, <3>5, ReadStep
  <2> QED
    BY <2>2, <2>3
<1> QED
  BY <1>1, <1>8, <1>9

\* A payload that is complete is the k-th packet, if that was written whole.
LEMMA ContentOf ==
  ASSUME IInv, NEW e \in Ends, PState[e] = "Payload",
         WholeUpTo(Peer(e), Len(delivered[e]) + 1)
  PROVE  /\ Content(e) = Len(delivered[e]) + 1
         /\ Content(e) <= Len(sent[Peer(e)])
         /\ PacketHeader[e].size = sent[Peer(e)][Content(e)].size
<1> DEFINE k == Len(delivered[e]) + 1
<1>1. AtPayload(e, k) /\ k \in Nat \ {0}
  BY Reader DEF EndInv, Aligned
<1>2. k \in 1 .. Len(sent[Peer(e)]) /\ Base(e) = sent[Peer(e)][k].start + HeaderSize
  BY <1>1, Reader DEF AtPayload, TypeOK
<1>3. PacketHeader[e].pkt = k /\ PacketHeader[e].size = sent[Peer(e)][k].size
  BY <1>1 DEF AtPayload
<1>4. sent[Peer(e)][k].kept = HeaderSize + sent[Peer(e)][k].size
  BY <1>2 DEF WholeUpTo
<1> QED
  BY <1>1, <1>2, <1>3, <1>4 DEF Content

LEMMA PayloadStep ==
  ASSUME IInv, TypeOK', NEW e \in Ends, ReceivePayload(e)
  PROVE  \A x \in Ends : EndInv(x)'
<1> DEFINE o == Peer(e)
           size == PacketHeader[e].size
<1>0. PICK k \in Nat \ {0} : k = Len(delivered[e]) + 1
  BY Reader
<1>1. PICK n \in IF size = 0 THEN {0} ELSE Chunks(e, size - Read[e]) :
        /\ Take(e, n)
        /\ \/ /\ Read[e] + n < size
              /\ Fill(e, n, size)
              /\ UNCHANGED delivered
           \/ /\ Read[e] + n = size
              /\ delivered' = [delivered EXCEPT ![e] = Append(@, Content(e))]
              /\ Reset(e)
  BY DEF ReceivePayload
<1>2. /\ TypeOK /\ EndInv(e) /\ o \in Ends /\ k \in Nat \ {0}
      /\ Read[e] \in Nat /\ Size[e] \in Nat /\ received[e] \in Nat /\ Written(o) \in Nat
  BY Reader
<1>3. /\ UNCHANGED <<foreign, sent, greeted>> /\ PState[e] = "Payload"
      /\ received' = [received EXCEPT ![e] = received[e] + n]
  BY <1>1 DEF ReceivePayload, Take
<1>4. size \in Nat /\ size <= Limit /\ greeted[o] /\ ~Refused(e) /\ Limit \in Nat
      /\ Read[e] <= received[e] /\ received[e] <= Written(o) /\ Read[e] <= size
  BY <1>2, <1>3, LengthsAssumption DEF EndInv, Settled, Within, Bounded, Refused
<1>5. n \in Nat /\ n <= size - Read[e] /\ received[e] + n <= Written(o)
  BY <1>1, <1>2, <1>4 DEF Chunks, Available
<1>6. Others(e)
  <2>1. CASE Fill(e, n, size) /\ UNCHANGED delivered
    BY <1>2, <1>3, <1>5, <2>1, OthersKept DEF Fill
  <2>2. CASE Reset(e) /\ delivered' = [delivered EXCEPT ![e] = Append(@, Content(e))]
    BY <1>2, <1>3, <1>5, <2>2, OthersKept DEF Reset
  <2> QED
    BY <1>1, <2>1, <2>2
<1>7. received'[e] = received[e] + n /\ Written(o)' = Written(o) /\ greeted'[o]
  BY <1>2, <1>3, <1>4, SameStream DEF TypeOK
<1>10. /\ Greeting(o) \in Nat /\ Greeting(o)' = Greeting(o)
       /\ Base(e) \in Int /\ Greeting(o) < Base(e)
  BY <1>2, <1>3, SameStream, LengthsAssumption DEF Greeting, Base, EndInv, Behind
<1>8. CASE Read[e] + n < size /\ Fill(e, n, size) /\ UNCHANGED delivered
  <2>1. /\ Read'[e] = Read[e] + n /\ Size'[e] >= size
        /\ PState'[e] = "Payload" /\ PacketHeader'[e] = PacketHeader[e]
    <3>1. Read'[e] = Read[e] + n /\ Size'[e] = SetSize(e, size)
      BY <1>2, <1>8 DEF Fill, TypeOK
    <3>2. PState'[e] = "Payload" /\ PacketHeader'[e] = PacketHeader[e]
      BY <1>3, <1>8 DEF Fill
    <3> QED
      BY <1>2, <1>4, <3>1, <3>2 DEF SetSize
  <2>2. Within(e)' /\ Settled(e)' /\ Bounded(e)'
    <3>1. Within(e)'
      BY <1>2, <1>4, <1>5, <1>7, <1>8, <2>1 DEF Within
    <3>2. Size'[e] \in Nat /\ PacketHeader'[e].size = size
      BY <2>1 DEF TypeOK
    <3>3. Bounded(e)'
      BY <1>2, <1>4, <1>5, <1>8, <2>1, <3>2 DEF Bounded
    <3>4. Settled(e)'
      BY <1>4, <1>7, <2>1, <3>2 DEF Settled, Refused
    <3> QED
      BY <3>1, <3>3, <3>4
  <2>3. Base(e)' = Base(e)
    BY <1>2, <1>5, <1>7, <2>1 DEF Base
  <2>4. Aligned(e)'
    BY <1>2, <1>3, <1>8, <2>1, <2>3, SameStream DEF EndInv, Aligned, AtPayload
  <2>5. Behind(e)'
    BY <1>10, <2>1, <2>3 DEF Behind
  <2> QED
    BY <1>6, <2>2, <2>4, <2>5, ReadStep
<1>9. CASE /\ Read[e] + n = size
           /\ delivered' = [delivered EXCEPT ![e] = Append(@, Content(e))]
           /\ Reset(e)
  <2>1. /\ Read'[e] = 0 /\ Size'[e] = 0 /\ PState'[e] = "Header" /\ PacketHeader'[e] = NoHeader
    BY <1>2, <1>9 DEF Reset, TypeOK
  <2>2. Len(delivered'[e]) = k
    <3>1. delivered[e] \in Seq(Nat) /\ Content(e) \in Nat
      BY <1>2, ContentNat DEF TypeOK
    <3>2. delivered'[e] = Append(delivered[e], Content(e))
      BY <1>2, <1>9 DEF TypeOK
    <3> QED
      BY <1>0, <3>1, <3>2
  <2>3. Within(e)' /\ Settled(e)' /\ Bounded(e)'
    BY <1>2, <1>4, <1>5, <1>7, <2>1 DEF Within, Settled, Bounded, Refused, NoHeader
  <2>4. Base(e)' = Base(e) + size
    BY <1>2, <1>4, <1>5, <1>7, <1>9, <2>1 DEF Base
  <2>5. ASSUME WholeUpTo(o, k) PROVE AtHeader(e, k + 1)'
    <3>1. k <= Len(sent[o]) /\ size = sent[o][k].size
      BY <1>0, <1>3, <2>5, ContentOf
    <3>2. AtPayload(e, k)
      BY <1>0, <1>2, <1>3, <2>5 DEF EndInv, Aligned
    <3>3. Base(e)' = sent[o][k].start + sent[o][k].kept
      <4>1. k \in 1 .. Len(sent[o]) /\ sent[o] \in Seq(Packet)
        BY <1>2, <3>1 DEF TypeOK
      <4>2. sent[o][k].kept = HeaderSize + sent[o][k].size
        BY <2>5, <4>1 DEF WholeUpTo
      <4>3. sent[o][k].start \in Nat /\ sent[o][k].size \in Nat
        BY <1>2, <4>1, PacketType
      <4> QED
        BY <2>4, <3>1, <3>2, <4>2, <4>3, LengthsAssumption DEF AtPayload
    <3>4. Start(o, k + 1) = sent[o][k].start + sent[o][k].kept
      <4>1. Layout(o) /\ sent[o] \in Seq(Packet)
        BY <1>2 DEF IInv, EndInv, TypeOK
      <4>2. CASE k = Len(sent[o])
        BY <1>2, <4>1, <4>2 DEF Start, Written
      <4>3. CASE k < Len(sent[o])
        BY <1>2, <4>1, <4>3 DEF Start, Layout
      <4> QED
        BY <1>2, <3>1, <4>1, <4>2, <4>3
    <3> QED
      BY <1>2, <1>3, <3>1, <3>3, <3>4, SameStream DEF AtHeader, TypeOK
  <2>6. Aligned(e)'
    BY <1>0, <1>2, <1>3, <2>1, <2>2, <2>5, SameStream DEF Aligned
  <2>7. Behind(e)'
    BY <1>4, <1>10, <2>1, <2>4 DEF Behind
  <2> QED
    BY <1>6, <2>3, <2>6, <2>7, ReadStep
<1> QED
  BY <1>1, <1>8, <1>9

-----------------------------------------------------------------------------
(* The handshake.                                                          *)

\* An end that was greeted and starts over its buffer after the greeting, or after
\* any bytes of a foreign peer's.
LEMMA FirstHeader ==
  ASSUME IInv, TypeOK', NEW e \in Ends, Others(e), Reset(e), UNCHANGED delivered,
         PState[e] = "Handshake", greeted[Peer(e)],
         Greeting(Peer(e)) <= received'[e], received'[e] <= Written(Peer(e)),
         Foreign(Peer(e)) \/ received'[e] = Greeting(Peer(e))
  PROVE  \A x \in Ends : EndInv(x)'
<1> DEFINE o == Peer(e)
<1>1. TypeOK /\ EndInv(e) /\ o \in Ends /\ Layout(o) /\ sent[o] \in Seq(Packet)
  BY Reader DEF IInv, EndInv, TypeOK
<1>2. /\ Read'[e] = 0 /\ Size'[e] = 0 /\ PState'[e] = "Header" /\ PacketHeader'[e] = NoHeader
      /\ UNCHANGED <<foreign, sent, greeted>> /\ received'[e] \in Nat
  BY <1>1 DEF Reset, Others, TypeOK
<1>3. Within(e)' /\ Bounded(e)' /\ Settled(e)'
  BY <1>2, SameStream, LengthsAssumption DEF Within, Bounded, Settled, Refused, NoHeader
<1>4. delivered'[e] = <<>>
  BY <1>1 DEF EndInv, Settled
<1>5. Foreign(o) \/ AtHeader(e, 1)'
  <2> SUFFICES ASSUME ~Foreign(o) PROVE AtHeader(e, 1)'
    OBVIOUS
  <2>1. Base(e)' = Greeting(o)
    BY <1>2 DEF Base
  <2>2. Start(o, 1) = Greeting(o)
    BY <1>1 DEF Start, Layout, Written
  <2> QED
    BY <1>1, <1>2, <2>1, <2>2, SameStream DEF AtHeader
<1>6. Aligned(e)'
  <2>1. Len(delivered'[e]) + 1 = 1
    BY <1>4
  <2>2. Foreign(o) => ~WholeUpTo(o, 0)'
    BY <1>2 DEF WholeUpTo, Foreign
  <2> QED
    BY <1>2, <1>5, <2>1, <2>2 DEF Aligned
<1>7. Behind(e)'
  <2>1. Base(e)' = received'[e] /\ Greeting(o)' = Greeting(o)
    BY <1>2, SameStream DEF Base
  <2> QED
    BY <1>2, <2>1 DEF Behind
<1> QED
  BY <1>3, <1>6, <1>7, ReadStep

LEMMA AnswerStep ==
  ASSUME IInv, TypeOK', InitHandshake
  PROVE  Fresh' /\ \A e \in Ends : EndInv(e)'
<1>1. /\ Client \in Ends /\ Peer(Client) = Host /\ Host \in Ends
      /\ ~open[Client] /\ PState[Client] = "Handshake" /\ received[Client] = 0 /\ Read[Client] = 0
  BY EndsAssumption DEF IInv, Fresh, InitHandshake, Ends, Peer
<1>2. Fresh'
  BY DEF InitHandshake, Fresh
<1>3. TypeOK /\ EndInv(Client) /\ Layout(Host) /\ Written(Host) \in Nat
  BY <1>1, WrittenNat DEF IInv, EndInv
<1>4. ASSUME NEW n \in Chunks(Client, ReadyLen), Take(Client, n),
             IF Answer(n) THEN Reset(Client) ELSE UNCHANGED progress
      PROVE  \A e \in Ends : EndInv(e)'
  <2>1. n \in Nat /\ 1 <= n /\ n <= Written(Host) /\ n <= ReadyLen
    BY <1>1, <1>3, LengthsAssumption DEF Chunks, Available
  <2>2. greeted[Host] /\ Greeting(Host) = ReadyLen
    <3>1. greeted[Host]
      BY <1>3, <2>1 DEF Written, Greeting, Layout
    <3> QED
      BY <3>1 DEF Greeting
  <2>3. received'[Client] = n /\ UNCHANGED <<foreign, sent, greeted, delivered>>
    BY <1>1, <1>3, <1>4, <2>1 DEF Take, InitHandshake, TypeOK
  <2>4. Others(Client)
    <3>1. received' = [received EXCEPT ![Client] = @ + n]
      BY <1>4 DEF Take
    <3>2. CASE Reset(Client)
      BY <1>1, <1>3, <2>1, <2>3, <3>1, <3>2, OthersKept DEF Reset
    <3>3. CASE UNCHANGED progress
      BY <1>1, <1>3, <2>1, <2>3, <3>1, <3>3, OthersKept DEF progress
    <3> QED
      BY <1>4, <3>2, <3>3
  <2>5. CASE Answer(n)
    BY <1>1, <1>4, <2>1, <2>2, <2>3, <2>4, <2>5, FirstHeader, LengthsAssumption DEF Answer
  <2>6. CASE ~Answer(n)
    <3>1. UNCHANGED progress
      BY <1>4, <2>6
    <3>2. Within(Client)'
      BY <1>1, <2>1, <2>3, <3>1, SameStream DEF Within, progress
    <3>3. Settled(Client)' /\ Bounded(Client)' /\ Aligned(Client)'
      BY <1>1, <1>3, <2>3, <3>1 DEF EndInv, Settled, Bounded, Aligned, Refused, progress
    <3>4. Behind(Client)'
      BY <1>1, <3>1 DEF Behind, progress
    <3> QED
      BY <1>1, <2>4, <3>2, <3>3, <3>4, ReadStep
  <2> QED
    BY <2>5, <2>6
<1>5. ASSUME UNCHANGED <<open, received, progress>> PROVE \A e \in Ends : EndInv(e)'
  <2>1. UNCHANGED <<foreign, progress, greeted, sent, received, delivered>>
    BY <1>5 DEF InitHandshake
  <2> QED
    BY <2>1, Unread
<1> QED
  BY <1>2, <1>4, <1>5 DEF InitHandshake

LEMMA GreetingStep ==
  ASSUME IInv, TypeOK', NEW e \in Ends, WaitHandshake(e)
  PROVE  \A x \in Ends : EndInv(x)'
<1>1. PICK n \in Chunks(e, RawLen - Read[e]) :
        /\ Take(e, n)
        /\ \/ /\ Read[e] + n < RawLen
              /\ Fill(e, n, RawLen + 1)
           \/ /\ Read[e] + n = RawLen /\ (foreign \/ Base(e) = 0)
              /\ Reset(e)
           \/ /\ Read' = [Read EXCEPT ![e] = 0]
              /\ Size' = [Size EXCEPT ![e] = 0]
              /\ UNCHANGED <<PState, PacketHeader>>
  BY DEF WaitHandshake
<1>2. /\ TypeOK /\ EndInv(e) /\ Peer(e) \in Ends /\ Layout(Peer(e))
      /\ Read[e] \in Nat /\ Size[e] \in Nat /\ received[e] \in Nat /\ Written(Peer(e)) \in Nat
  BY Reader DEF IInv, EndInv
<1>3. /\ e = Host /\ PState[e] = "Handshake" /\ UNCHANGED <<foreign, sent, greeted, delivered>>
      /\ received' = [received EXCEPT ![e] = received[e] + n]
  BY <1>1 DEF WaitHandshake, Take
<1>4. n \in Nat /\ 1 <= n /\ received[e] + n <= Written(Peer(e)) /\ Read[e] <= received[e]
  BY <1>2, LengthsAssumption DEF Chunks, Available, EndInv, Within
<1>5. received'[e] = received[e] + n
  BY <1>2, <1>3 DEF TypeOK
<1>6. Others(e)
  <2>1. CASE Fill(e, n, RawLen + 1)
    BY <1>2, <1>3, <1>4, <2>1, OthersKept DEF Fill
  <2>2. CASE Reset(e)
    BY <1>2, <1>3, <1>4, <2>2, OthersKept DEF Reset
  <2>3. CASE /\ Read' = [Read EXCEPT ![e] = 0]
             /\ Size' = [Size EXCEPT ![e] = 0]
             /\ UNCHANGED <<PState, PacketHeader>>
    BY <1>2, <1>3, <1>4, <2>3, OthersKept
  <2> QED
    BY <1>1, <2>1, <2>2, <2>3
<1>7. CASE Read[e] + n < RawLen /\ Fill(e, n, RawLen + 1)
  <2>1. /\ Read'[e] = Read[e] + n /\ Size'[e] >= RawLen + 1
        /\ PState'[e] = "Handshake" /\ PacketHeader'[e] = PacketHeader[e]
    <3>1. Read'[e] = Read[e] + n /\ Size'[e] = SetSize(e, RawLen + 1)
      BY <1>2, <1>7 DEF Fill, TypeOK
    <3>2. PState'[e] = "Handshake" /\ PacketHeader'[e] = PacketHeader[e]
      BY <1>3, <1>7 DEF Fill
    <3> QED
      BY <1>2, <3>1, <3>2, LengthsAssumption DEF SetSize
  <2>2. Within(e)'
    BY <1>2, <1>3, <1>4, <1>5, <2>1, SameStream DEF Within
  <2>3. Bounded(e)'
    <3>1. Size'[e] \in Nat
      BY DEF TypeOK
    <3> QED
      BY <1>2, <1>4, <1>7, <2>1, <3>1, LengthsAssumption DEF Bounded
  <2>4. Settled(e)' /\ Aligned(e)' /\ Behind(e)'
    BY <1>2, <1>3, <2>1 DEF EndInv, Settled, Refused, Aligned, Behind
  <2> QED
    BY <1>6, <2>2, <2>3, <2>4, ReadStep
<1>8. CASE Read[e] + n = RawLen /\ (foreign \/ Base(e) = 0) /\ Reset(e)
  <2>1. greeted[Peer(e)]
    BY <1>2, <1>4 DEF Written, Greeting, Layout
  <2>2. Greeting(Peer(e)) = RawLen
    BY <1>3, <2>1, EndsAssumption DEF Greeting, Peer
  <2>3. RawLen <= received'[e] /\ received'[e] <= Written(Peer(e))
    BY <1>2, <1>4, <1>5, <1>8
  <2>4. Foreign(Peer(e)) \/ received'[e] = RawLen
    <3>1. CASE foreign
      BY <1>3, <3>1 DEF Foreign, Peer
    <3>2. CASE Base(e) = 0
      BY <1>2, <1>4, <1>5, <1>8, <3>2 DEF Base
    <3> QED
      BY <1>8, <3>1, <3>2
  <2> QED
    BY <1>3, <1>6, <1>8, <2>1, <2>2, <2>3, <2>4, FirstHeader
<1>9. CASE /\ Read' = [Read EXCEPT ![e] = 0]
           /\ Size' = [Size EXCEPT ![e] = 0]
           /\ UNCHANGED <<PState, PacketHeader>>
  <2>1. Read'[e] = 0 /\ Size'[e] = 0
    BY <1>2, <1>9 DEF TypeOK
  <2>2. Within(e)'
    BY <1>2, <1>3, <1>4, <1>5, <2>1, SameStream DEF Within
  <2>3. Bounded(e)' /\ Settled(e)' /\ Aligned(e)' /\ Behind(e)'
    BY <1>2, <1>3, <1>9, <2>1 DEF EndInv, Bounded, Settled, Refused, Aligned, Behind
  <2> QED
    BY <1>6, <2>2, <2>3, ReadStep
<1> QED
  BY <1>1, <1>7, <1>8, <1>9

\* recv() failed.
LEMMA FailStep ==
  ASSUME IInv, TypeOK', NEW e \in Ends, HandshakeFails(e) \/ ReceiveFails(e)
  PROVE  \A x \in Ends : EndInv(x)'
<1>1. /\ TypeOK /\ EndInv(e)
      /\ Read[e] \in Nat /\ Size[e] \in Nat /\ received[e] \in Nat /\ Written(Peer(e)) \in Nat
  BY Reader
<1>2. CASE HandshakeFails(e)
  <2>1. /\ PState[e] = "Handshake"
        /\ UNCHANGED <<foreign, PState, PacketHeader, sent, greeted, received, delivered>>
        /\ Read' = [Read EXCEPT ![e] = 0] /\ Size' = [Size EXCEPT ![e] = 0]
    BY <1>2 DEF HandshakeFails
  <2>2. Others(e) /\ Read'[e] = 0 /\ Size'[e] = 0
    BY <1>1, <2>1 DEF Others, TypeOK
  <2>3. Within(e)' /\ Bounded(e)' /\ Settled(e)' /\ Aligned(e)' /\ Behind(e)'
    BY <1>1, <2>1, <2>2, SameStream
    DEF EndInv, Within, Bounded, Settled, Refused, Aligned, Behind
  <2> QED
    BY <2>2, <2>3, ReadStep
<1>3. CASE ReceiveFails(e)
  <2>1. UNCHANGED <<foreign, PState, Read, PacketHeader, sent, greeted, received, delivered>>
    BY <1>3 DEF ReceiveFails
  <2>2. PacketHeader[e].size \in Int
    BY <1>1 DEF TypeOK, Header
  <2>3. Others(e) /\ Size'[e] >= Size[e]
    BY <1>1, <1>3, <2>1, <2>2, LengthsAssumption DEF ReceiveFails, Others, SetSize, TypeOK
  <2>4. Size'[e] \in Nat
    BY DEF TypeOK
  <2>5. Within(e)' /\ Settled(e)'
    BY <1>1, <2>1, SameStream DEF EndInv, Within, Settled, Refused
  <2>6. Bounded(e)'
    BY <1>1, <2>1, <2>3, <2>4 DEF EndInv, Bounded
  <2>7. Aligned(e)'
    BY <1>1, <2>1
    DEF EndInv, Aligned, AtHeader, AtPayload, WholeUpTo, Foreign, Start, Written, Greeting, Base
  <2>8. Behind(e)'
    BY <1>1, <2>1 DEF EndInv, Behind, Base, Greeting
  <2> QED
    BY <2>3, <2>5, <2>6, <2>7, <2>8, ReadStep
<1> QED
  BY <1>2, <1>3

-----------------------------------------------------------------------------
LEMMA FreshStep ==
  ASSUME IInv, Next, ~InitHandshake
  PROVE  Fresh'
<1> SUFFICES ASSUME foreign' \/ connecting' # "done" PROVE Fresh'
  BY DEF Fresh
<1>1. /\ Fresh /\ TypeOK /\ Client \in Ends /\ Client # Host
      /\ foreign' = foreign /\ (foreign \/ connecting # "done")
  BY EndsAssumption DEF IInv, Ends, Next, Connect, Handshake, ForeignWrites, ForeignReads,
     ForeignCloses, Send, Receive, WaitHandshake, HandshakeFails, ReceiveHeader, ReceivePayload,
     ReceiveFails, Close
<1>2. /\ ~open[Client] /\ PState[Client] = "Handshake" /\ Read[Client] = 0
      /\ foreign \/ received[Client] = 0
  BY <1>1 DEF Fresh
<1>3. CASE Connect \/ Handshake
  BY <1>1, <1>2, <1>3 DEF Connect, Handshake, Fresh, progress
<1>5. CASE ForeignWrites \/ ForeignReads \/ ForeignCloses
  BY <1>1, <1>2, <1>5 DEF ForeignWrites, ForeignReads, ForeignCloses, ForeignUp, Fresh, progress
<1>4. ASSUME NEW e \in Ends, Send(e) \/ Close(e) \/ Receive(e) PROVE Fresh'
  <2>1. e # Client
    BY <1>2, <1>4, EndsAssumption DEF Send, Close, Receive, WaitHandshake, HandshakeFails,
       ReceiveHeader, ReceivePayload, ReceiveFails
  <2>2. CASE Send(e) \/ Close(e)
    BY <1>1, <1>2, <2>1, <2>2 DEF Send, Close, Fresh, progress, TypeOK
  <2>3. CASE WaitHandshake(e)
    BY <1>1, <1>2, <2>1, <2>3 DEF WaitHandshake, Take, Fill, Reset, Fresh, TypeOK
  <2>4. CASE HandshakeFails(e) \/ ReceiveFails(e)
    BY <1>1, <1>2, <2>1, <2>4 DEF HandshakeFails, ReceiveFails, Fresh, TypeOK
  <2>5. CASE ReceiveHeader(e)
    BY <1>1, <1>2, <2>1, <2>5 DEF ReceiveHeader, Take, Fill, ToPayload, Refuse, Fresh, TypeOK
  <2>6. CASE ReceivePayload(e)
    BY <1>1, <1>2, <2>1, <2>6 DEF ReceivePayload, Take, Fill, Reset, Fresh, TypeOK
  <2> QED
    BY <1>4, <2>2, <2>3, <2>4, <2>5, <2>6 DEF Receive
<1> QED
  BY <1>3, <1>4, <1>5 DEF Next

LEMMA ForeignStep ==
  ASSUME IInv, TypeOK', ForeignReads \/ ForeignCloses
  PROVE  \A e \in Ends : EndInv(e)'
<1>1. CASE ForeignReads
  <2>1. /\ Client \in Ends /\ foreign /\ UNCHANGED <<foreign, progress, greeted, sent, delivered>>
        /\ received' = [received EXCEPT ![Client] = @ + Available(Client)]
    BY <1>1 DEF Ends, ForeignReads, ForeignUp, Take
  <2>2. /\ TypeOK /\ EndInv(Client) /\ received[Client] \in Nat
        /\ Written(Peer(Client)) \in Nat
    BY <2>1, Reader
  <2>3. PState[Client] = "Handshake" /\ Read[Client] = 0
    BY <2>1 DEF IInv, Fresh
  <2>4. Available(Client) \in Nat
    BY <1>1, <2>2 DEF ForeignReads, Available
  <2>5. Others(Client)
    BY <2>1, <2>2, <2>4, OthersKept DEF progress
  <2>6. received'[Client] = Written(Peer(Client))
    BY <2>1, <2>2 DEF Available, TypeOK
  <2>7. Within(Client)'
    BY <2>1, <2>2, <2>3, <2>6, SameStream DEF Within, progress
  <2>8. Settled(Client)' /\ Bounded(Client)' /\ Aligned(Client)' /\ Behind(Client)'
    BY <2>1, <2>2, <2>3 DEF EndInv, Settled, Bounded, Aligned, Behind, Refused, progress
  <2> QED
    BY <2>1, <2>5, <2>7, <2>8, ReadStep
<1>2. CASE ForeignCloses
  BY <1>2, Unread DEF ForeignCloses
<1> QED
  BY <1>1, <1>2

LEMMA InvStep == IInv /\ [Next]_vars => IInv'
<1> SUFFICES ASSUME IInv, [Next]_vars PROVE IInv'
  OBVIOUS
<1>1. TypeOK'
  BY TypeStep DEF IInv
<1>2. CASE UNCHANGED vars
  <2>1. \A e \in Ends : EndInv(e)'
    BY <1>1, <1>2, Unread DEF vars
  <2>2. Fresh'
    BY <1>2 DEF IInv, Fresh, vars, progress
  <2> QED
    BY <1>1, <2>1, <2>2 DEF IInv
<1>3. CASE InitHandshake
  BY <1>1, <1>3, AnswerStep DEF IInv
<1>4. CASE Next /\ ~InitHandshake
  <2>1. Fresh'
    BY <1>4, FreshStep
  <2>2. CASE Connect \/ Handshake
    <3>1. \E g \in Ends : greeted' = [greeted EXCEPT ![g] = TRUE]
      BY <2>2 DEF Connect, Handshake, Ends
    <3>2. UNCHANGED <<foreign, progress, sent, received, delivered>>
      BY <2>2 DEF Connect, Handshake
    <3> QED
      BY <1>1, <2>1, <3>1, <3>2, GreetStep DEF IInv
  <2>3. ASSUME NEW e \in Ends, Send(e) \/ Receive(e) \/ Close(e)
        PROVE  \A x \in Ends : EndInv(x)'
    <3>1. CASE Close(e)
      BY <1>1, <3>1, Unread DEF Close
    <3> QED
      BY <1>1, <2>3, <3>1, SendStep, GreetingStep, HeaderStep, PayloadStep, FailStep DEF Receive
  <2>4. CASE ForeignWrites \/ ForeignReads \/ ForeignCloses
    BY <1>1, <2>1, <2>4, SendStep, ForeignStep DEF IInv, Ends
  <2> QED
    BY <1>1, <1>4, <2>1, <2>2, <2>3, <2>4 DEF Next, IInv
<1> QED
  BY <1>2, <1>3, <1>4

LEMMA InductiveInvariant == Safe => []IInv
<1> QED
  BY InitIInv, InvStep, PTL DEF Safe

-----------------------------------------------------------------------------
(* What the connection guarantees.                                         *)

\* Every variable of the two ends always has a value of its type.
THEOREM TypeCorrect == Safe => []TypeOK
<1>1. IInv => TypeOK
  BY DEF IInv
<1> QED
  BY <1>1, InductiveInvariant, PTL

\* No recv() of Receive writes past the ProgressBuffer, whatever the chunks,
\* the failures and the headers that garbage makes.
THEOREM BufferSafe == Safe => []InBounds
<1>1. IInv => InBounds
  BY DEF IInv, EndInv, InBounds
<1> QED
  BY <1>1, InductiveInvariant, PTL

\* Receive stays aligned on the packets of the stream for any chunks,
\* timeouts and sizes, up to the first packet that was written short.
THEOREM FramingSafe == Safe => []FramesAligned
<1>1. IInv => FramesAligned
  BY DEF IInv, EndInv, FramesAligned
<1> QED
  BY <1>1, InductiveInvariant, PTL

\* A connection on which a header was refused never delivers again.
THEOREM RefusalFinal == Safe => RefusedForGood
<1> DEFINE Stays == \A e \in Ends : Refused(e) =>
                      received'[e] = received[e] /\ delivered'[e] = delivered[e]
<1>1. IInv /\ [Next]_vars => Stays
  <2> SUFFICES ASSUME IInv, [Next]_vars, NEW e \in Ends, Refused(e)
               PROVE  received'[e] = received[e] /\ delivered'[e] = delivered[e]
    OBVIOUS
  <2>1. /\ TypeOK /\ PState[e] = "Header" /\ Read[e] = HeaderSize
        /\ HeaderSize \in Nat
    BY LengthsAssumption DEF IInv, EndInv, Settled
  <2>2. CASE InitHandshake
    <3>1. e # Client
      BY <2>1, <2>2 DEF IInv, Fresh, InitHandshake
    <3> QED
      BY <2>1, <2>2, <3>1 DEF InitHandshake, Take, TypeOK
  <2>3. ASSUME NEW x \in Ends, Receive(x)
        PROVE  received'[e] = received[e] /\ delivered'[e] = delivered[e]
    <3>1. CASE x = e
      <4>1. Chunks(e, HeaderSize - Read[e]) = {}
        BY <2>1 DEF Chunks
      <4>2. ReceiveFails(e)
        BY <2>1, <2>3, <3>1, <4>1 DEF Receive, WaitHandshake, HandshakeFails, ReceiveHeader, ReceivePayload
      <4> QED
        BY <4>2 DEF ReceiveFails
    <3>2. CASE x # e
      BY <2>1, <2>3, <3>2 DEF Receive, WaitHandshake, HandshakeFails, ReceiveHeader,
         ReceivePayload, ReceiveFails, Take, TypeOK
    <3> QED
      BY <3>1, <3>2
  <2>4. CASE ForeignReads
    <3>1. e # Client
      BY <2>1, <2>4 DEF IInv, Fresh, ForeignReads, ForeignUp
    <3> QED
      BY <2>1, <2>4, <3>1 DEF ForeignReads, Take, TypeOK
  <2> QED
    BY <2>2, <2>3, <2>4
    DEF Next, Connect, Handshake, ForeignWrites, ForeignCloses, Send, Close, vars
<1>2. IInv /\ [Next]_vars => [Stays]_vars
  BY <1>1
<1> QED
  BY <1>2, InductiveInvariant, PTL DEF Safe, RefusedForGood

-----------------------------------------------------------------------------
(* The two ends implement the channel.                                     *)

LEMMA PacketsSeq ==
  ASSUME TypeOK, NEW e \in Ends
  PROVE  /\ Packets(e) \in Seq([size : Nat, whole : BOOLEAN])
         /\ Len(Packets(e)) = Len(sent[e])
<1>1. Len(sent[e]) \in Nat
  BY DEF TypeOK
<1>2. \A i \in 1 .. Len(sent[e]) : Packets(e)[i] \in [size : Nat, whole : BOOLEAN]
  BY PacketType DEF Packets
<1>3. Packets(e) \in [1 .. Len(sent[e]) -> [size : Nat, whole : BOOLEAN]]
  BY <1>2 DEF Packets
<1> DEFINE P == Packets(e)
           n == Len(sent[e])
           S == [size : Nat, whole : BOOLEAN]
<1>4. P \in Seq(S) /\ Len(P) = n
  <2>1. n \in Nat /\ P \in [1 .. n -> S]
    BY <1>1, <1>3
  <2> HIDE DEF P, n, S
  <2> QED
    BY <2>1
<1> QED
  BY <1>4

LEMMA SendMaps ==
  ASSUME IInv, NEW o \in Ends, Send(o) \/ (o = Client /\ ForeignWrites)
  PROVE  Channel!Send(o)
<1>2. PICK s \in Sizes, k \in Nat \ {0} :
        sent' = [sent EXCEPT ![o] = Append(@, [start |-> Written(o), size |-> s, kept |-> k])]
  BY Appended
<1>3. TypeOK /\ sent[o] \in Seq(Packet) /\ UNCHANGED <<foreign, delivered>>
  BY Appended DEF IInv, TypeOK
<1> DEFINE w == ~Foreign(o) /\ k = HeaderSize + s
           x == [size |-> s, whole |-> w]
           n == Len(sent[o])
<1>4. /\ n \in Nat /\ Len(sent'[o]) = n + 1
      /\ sent'[o][n + 1] = [start |-> Written(o), size |-> s, kept |-> k]
      /\ \A i \in 1 .. n : sent'[o][i] = sent[o][i]
  BY <1>2, <1>3 DEF TypeOK
<1>5. Packets(o)' = Append(Packets(o), x)
  <2>1. Packets(o)' = [i \in 1 .. n + 1 |-> IF i = n + 1 THEN x ELSE Packets(o)[i]]
    BY <1>3, <1>4 DEF Packets, Foreign
  <2>2. Packets(o) \in Seq([size : Nat, whole : BOOLEAN]) /\ Len(Packets(o)) = n
    BY <1>3, PacketsSeq
  <2> QED
    BY <2>1, <2>2
<1>6. \A e \in Ends : e # o => Packets(e)' = Packets(e)
  BY <1>2, <1>3 DEF Packets, Foreign, TypeOK
<1>7. [e \in Ends |-> Packets(e)]' = [[e \in Ends |-> Packets(e)] EXCEPT ![o] = Append(@, x)]
  BY <1>5, <1>6
<1>8. w \in BOOLEAN
  OBVIOUS
<1> QED
  BY <1>3, <1>7, <1>8 DEF Channel!Send

\* Who waits for a payload has got more than a greeting.
LEMMA PayloadWritten ==
  ASSUME IInv, NEW e \in Ends, PState[e] = "Payload"
  PROVE  Len(sent[Peer(e)]) # 0
<1>1. /\ Read[e] \in Nat /\ received[e] \in Nat /\ Written(Peer(e)) \in Nat
      /\ received[e] <= Written(Peer(e)) /\ Greeting(Peer(e)) < received[e] - Read[e]
  BY Reader DEF EndInv, Within, Behind, Base
<1>2. Greeting(Peer(e)) \in Nat
  BY LengthsAssumption DEF Greeting
<1>3. Greeting(Peer(e)) < Written(Peer(e))
  BY <1>1, <1>2
<1> QED
  BY <1>2, <1>3 DEF Written

LEMMA DeliverMaps ==
  ASSUME IInv, NEW e \in Ends, ReceivePayload(e), ~UNCHANGED delivered
  PROVE  Channel!DeliverNext(e) \/ Channel!DeliverAny(e)
<1> DEFINE o == Peer(e)
           k == Len(delivered[e]) + 1
<1>1. /\ PState[e] = "Payload" /\ UNCHANGED <<foreign, sent>>
      /\ delivered' = [delivered EXCEPT ![e] = Append(@, Content(e))]
  BY DEF ReceivePayload
<1>2. TypeOK /\ o \in Ends /\ k \in Nat \ {0} /\ Bounded(e)
  BY Reader DEF EndInv
<1>3. UNCHANGED [x \in Ends |-> Packets(x)]
  BY <1>1 DEF Packets, Foreign
<1>4. Len(Packets(o)) = Len(sent[o]) /\ Len(sent[o]) \in Nat
  BY <1>2, PacketsSeq DEF TypeOK
<1>5. CASE WholeUpTo(o, k)
  <2>1. /\ Content(e) = k /\ k <= Len(sent[o])
        /\ PacketHeader[e].size = sent[o][k].size
    BY <1>1, <1>5, ContentOf
  <2>2. Packets(o)[k].size = sent[o][k].size
    BY <1>2, <1>4, <2>1 DEF Packets
  <2>3. Packets(o)[k].size <= Limit
    BY <1>1, <1>2, <2>1, <2>2, LengthsAssumption DEF Bounded
  <2> QED
    BY <1>1, <1>2, <1>3, <1>4, <2>1, <2>3 DEF Channel!DeliverNext
<1>6. CASE ~WholeUpTo(o, k)
  <2>1. \E i \in 1 .. Len(Packets(o)) : i <= k /\ ~Packets(o)[i].whole
    <3>1. CASE Foreign(o)
      <4>1. Len(sent[o]) # 0
        BY <1>1, <1>2, PayloadWritten
      <4>2. 1 \in 1 .. Len(sent[o]) /\ 1 <= k
        BY <1>2, <1>4, <4>1
      <4>3. ~Packets(o)[1].whole
        BY <3>1, <4>2 DEF Packets
      <4> QED
        BY <1>4, <4>2, <4>3
    <3>2. CASE ~Foreign(o)
      BY <1>4, <1>6, <3>2 DEF WholeUpTo, Packets
    <3> QED
      BY <3>1, <3>2
  <2>2. Content(e) \in 0 .. Len(Packets(o))
    BY <1>4 DEF Content
  <2> QED
    BY <1>1, <1>2, <1>3, <2>1, <2>2 DEF Channel!DeliverAny, Channel!Short
<1> QED
  BY <1>5, <1>6

LEMMA StepMaps == IInv /\ [Next]_vars => [Channel!Next]_(Channel!vars)
<1> SUFFICES ASSUME IInv, [Next]_vars PROVE [Channel!Next]_(Channel!vars)
  OBVIOUS
<1>1. CASE UNCHANGED <<foreign, sent, delivered>>
  BY <1>1 DEF Channel!vars, Packets, Foreign
<1>2. ASSUME NEW e \in Ends, Send(e) \/ (e = Client /\ ForeignWrites)
      PROVE  [Channel!Next]_(Channel!vars)
  BY <1>2, SendMaps DEF Channel!Next
<1>3. ASSUME NEW e \in Ends, ReceivePayload(e), ~UNCHANGED delivered
      PROVE  [Channel!Next]_(Channel!vars)
  BY <1>3, DeliverMaps DEF Channel!Next
<1>4. \/ UNCHANGED <<foreign, sent, delivered>>
      \/ \E e \in Ends : Send(e) \/ (e = Client /\ ForeignWrites)
      \/ \E e \in Ends : ReceivePayload(e) /\ ~UNCHANGED delivered
  BY DEF Next, Connect, InitHandshake, Handshake, ForeignReads, ForeignCloses, Receive,
     WaitHandshake, HandshakeFails, ReceiveHeader, ReceivePayload, ReceiveFails, Close, vars, Ends
<1> QED
  BY <1>1, <1>2, <1>3, <1>4

\* The packets one end delivers are those the other end sent, whole and in
\* order, each once and within the limit, up to the first short send: every
\* step of the connection is a step of PacketChannel or none.
THEOREM Implementation == Safe => ImplementsChannel
<1>1. Init => Channel!Init
  BY DEF Init, Channel!Init, Packets
<1> QED
  BY <1>1, StepMaps, InductiveInvariant, PTL DEF Safe, ImplementsChannel, Channel!Spec
=============================================================================

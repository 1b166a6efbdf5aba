---------------------------- MODULE PacketStream -----------------------------
(***************************************************************************)
(* Yo::Network::TCPClient over TCP with the RAW protocol: the handshake    *)
(* (Connect, InitHandshake, WaitHandshake, RawSocket::Handshake), packets  *)
(* cut out of a stream of bytes by Receive and its ProgressBuffer, Send    *)
(* and Close, at both ends of one connection.                              *)
(*                                                                         *)
(* The bytes an end has written are numbered from 0: its greeting, then    *)
(* its packets, each with the place where it starts and the number of its  *)
(* bytes that send() accepted.  What is in a buffer follows from the place *)
(* in the stream where the buffer began to fill.  The network delivers any *)
(* part of what was written, so a recv() returns any number of bytes from  *)
(* 1 to what it asks for and there is.                                     *)
(*                                                                         *)
(* The peer of the host may be any program: what it writes are blocks of   *)
(* any bytes, that stand in the place of packets and are none.             *)
(***************************************************************************)
EXTENDS Integers, Sequences

CONSTANTS
  Host,        \* the end whose TCPClient was made by TCPListener (m_isHost)
  Client,      \* the end that calls Connect
  RawLen,      \* the length of "RAW"
  ReadyLen,    \* the length of "READY"
  HeaderSize,  \* sizeof(ByteBuffer::Header)
  Limit,       \* MB_TO_BYTES(PACKET_SIZE_LIMIT)
  Sizes,       \* the payload sizes the program sends
  MaxPackets,  \* the bound on the packets each end sends
  ShortSends,  \* TRUE: send() may accept a part of a packet
  Timeouts     \* TRUE: the program called SetTimeout

Ends == {Host, Client}
Peer(e) == IF e = Host THEN Client ELSE Host

ASSUME EndsAssumption == Host # Client
ASSUME LengthsAssumption ==
  /\ RawLen \in Nat \ {0} /\ ReadyLen \in Nat \ {0} /\ HeaderSize \in Nat \ {0}
  /\ Limit \in Nat /\ Sizes \subseteq Nat /\ MaxPackets \in [Ends -> Nat]
ASSUME ConfigAssumption == ShortSends \in BOOLEAN /\ Timeouts \in BOOLEAN

VARIABLES
  foreign,       \* the peer of Host is another program, that writes what it likes
  connecting,    \* where Client's Connect is: "new", "waiting" for the answer, "done"
  open,          \* ASocket::m_open
  closed,        \* the end called Close on its open socket
  protocol,      \* m_protocol, "None" for a null one
  PState,        \* ProgressBuffer::PState
  Read,          \* ProgressBuffer::Read
  Size,          \* ProgressBuffer::Size, the bytes allocated, 0 for a null Buffer
  PacketHeader,  \* ProgressBuffer::PacketHeader: the packet it is of, 0 for none,
                 \* and its payloadSize
  greeted,       \* the end has written its greeting
  sent,          \* the packets the end has written
  received,      \* the number of bytes the end has taken off the stream
  delivered      \* history: the packets Receive returned, 0 for one never sent

progress == <<PState, Read, Size, PacketHeader>>
vars == <<foreign, connecting, open, closed, protocol, progress, greeted, sent, received, delivered>>

\* e is not a TCPClient of this library.
Foreign(e) == foreign /\ e = Client

\* A packet in the stream: its place, its payloadSize, the bytes accepted of it.
Packet == [start : Nat, size : Nat, kept : Nat \ {0}]

Header == [pkt : Nat, size : Int]
NoHeader == [pkt |-> 0, size |-> 0]

Init ==
  /\ foreign \in BOOLEAN
  /\ connecting = "new"
  /\ open = [e \in Ends |-> e = Host]
  /\ closed = [e \in Ends |-> FALSE]
  /\ protocol = [e \in Ends |-> IF e = Host THEN "None" ELSE "Raw"]
  /\ PState = [e \in Ends |-> "Handshake"]
  /\ Read = [e \in Ends |-> 0]
  /\ Size = [e \in Ends |-> 0]
  /\ PacketHeader = [e \in Ends |-> NoHeader]
  /\ greeted = [e \in Ends |-> FALSE]
  /\ sent = [e \in Ends |-> <<>>]
  /\ received = [e \in Ends |-> 0]
  /\ delivered = [e \in Ends |-> <<>>]

-----------------------------------------------------------------------------
(* The stream of bytes written by an end.                                  *)

Greeting(e) == IF ~greeted[e] THEN 0 ELSE IF e = Host THEN ReadyLen ELSE RawLen

Written(e) ==
  LET n == Len(sent[e]) IN
  IF n = 0 THEN Greeting(e) ELSE sent[e][n].start + sent[e][n].kept

Available(e) == Written(Peer(e)) - received[e]

ChunksLessOne(e, want) == {n \in 1 .. want - 1 : n <= Available(e)}  \* mutant: asks for a byte less

\* What recv() may return when it is asked for want bytes and there are some.
Chunks(e, want) == {n \in 1 .. want : n <= Available(e)}

\* The peer closed its socket with bytes unread: the connection is reset.
Broken(e) == closed[Peer(e)] /\ received[Peer(e)] < Written(e)

\* recv() returns 0 or less: the end of the stream, a reset or a timeout.
RecvFails(e) ==
  \/ Available(e) = 0 /\ (closed[Peer(e)] \/ Timeouts)
  \/ Broken(e)

\* The place in the stream of the first byte in the buffer.
Base(e) == received[e] - Read[e]

\* The packet whose header is the HeaderSize bytes that e's buffer holds once
\* it holds that many; bytes that are no packet's header, as those of a foreign
\* peer, can make any header, one with a negative payloadSize too.
Headers(e) ==
  LET out == sent[Peer(e)]
      at == {p \in 1 .. Len(out) :
               ~Foreign(Peer(e)) /\ out[p].start = Base(e) /\ out[p].kept >= HeaderSize}
  IN IF at # {} THEN {[pkt |-> p, size |-> out[p].size] : p \in at}
     ELSE {[pkt |-> 0, size |-> s] : s \in -1 .. Limit + 1}

\* The packet that e's header and the full buffer make: one that was sent, if
\* the buffer holds that packet's payload, or else 0.
Content(e) ==
  LET p == PacketHeader[e].pkt
      out == sent[Peer(e)]
  IN IF /\ p \in 1 .. Len(out)
        /\ Base(e) = out[p].start + HeaderSize
        /\ out[p].kept = HeaderSize + out[p].size
     THEN p ELSE 0

-----------------------------------------------------------------------------
(* ProgressBuffer.                                                         *)

\* Size after SetSize(n).
SetSize(e, n) == IF Size[e] < n THEN n ELSE Size[e]

\* Reset.
Reset(e) ==
  /\ PState' = [PState EXCEPT ![e] = "Header"]
  /\ Read' = [Read EXCEPT ![e] = 0]
  /\ Size' = [Size EXCEPT ![e] = 0]
  /\ PacketHeader' = [PacketHeader EXCEPT ![e] = NoHeader]

\* Bytes were added, and more are needed: Receive returns RECV_PROGRESS.
Fill(e, n, size) ==
  /\ Read' = [Read EXCEPT ![e] = @ + n]
  /\ Size' = [Size EXCEPT ![e] = SetSize(e, size)]
  /\ UNCHANGED <<PState, PacketHeader>>

Take(e, n) == received' = [received EXCEPT ![e] = @ + n]

-----------------------------------------------------------------------------
(* The handshake.                                                          *)

\* Connect, up to the wait for the answer: the other end has accepted the
\* connection, and the greeting is written.
Connect ==
  /\ connecting = "new"
  /\ connecting' = "waiting"
  /\ greeted' = [greeted EXCEPT ![Client] = TRUE]
  /\ UNCHANGED <<foreign, open, closed, protocol, progress, sent, received, delivered>>

AnswerPrefix(n) == TRUE  \* mutant: a part of "READY" is taken for all of it

\* The n bytes of the one recv() are "READY".
Answer(n) == n = ReadyLen

\* InitHandshake after its recv() returned n bytes, or failed, and the end of
\* Connect.  A failed Connect leaves the socket open.
InitHandshake ==
  /\ connecting = "waiting" /\ ~foreign
  /\ connecting' = "done"
  /\ \/ \E n \in Chunks(Client, ReadyLen) :
          /\ Take(Client, n)
          /\ open' = [open EXCEPT ![Client] = Answer(n)]
          /\ IF Answer(n) THEN Reset(Client) ELSE UNCHANGED progress
     \/ /\ Available(Client) = 0 /\ closed[Host]
        /\ UNCHANGED <<open, received, progress>>
  /\ UNCHANGED <<foreign, closed, protocol, greeted, sent, delivered>>

\* WaitHandshake, called by Receive of the end with m_isHost, when bytes arrive: all of the greeting is
\* tested at once, and thrown away if it is of no known protocol.  A foreign peer's
\* may be "RAW" at first, or after others were thrown away; "GET" makes the
\* connection the matter of the module WebSocket.
WaitHandshake(e) ==
  /\ e = Host /\ open[e] /\ PState[e] = "Handshake"
  /\ \E n \in Chunks(e, RawLen - Read[e]) :
       /\ Take(e, n)
       /\ \/ /\ Read[e] + n < RawLen
             /\ Fill(e, n, RawLen + 1)
             /\ UNCHANGED protocol
          \/ /\ Read[e] + n = RawLen /\ (foreign \/ Base(e) = 0)
             /\ protocol' = [protocol EXCEPT ![e] = "Raw"]
             /\ Reset(e)
          \/ /\ Read[e] + n = RawLen /\ (foreign \/ Base(e) # 0)
             /\ Read' = [Read EXCEPT ![e] = 0]
             /\ Size' = [Size EXCEPT ![e] = 0]
             /\ UNCHANGED <<PState, PacketHeader, protocol>>
  /\ UNCHANGED <<foreign, connecting, open, closed, greeted, sent, delivered>>

\* WaitHandshake when recv() fails: Receive throws away what had arrived.
HandshakeFails(e) ==
  /\ e = Host /\ open[e] /\ PState[e] = "Handshake" /\ RecvFails(e)
  /\ Read' = [Read EXCEPT ![e] = 0]
  /\ Size' = [Size EXCEPT ![e] = 0]
  /\ UNCHANGED <<foreign, connecting, open, closed, protocol, PState, PacketHeader,
                 greeted, sent, received, delivered>>

\* Protocol::Handshake, that the program calls once Receive returned RECV_HANDSHAKE.
Handshake ==
  /\ open[Host] /\ protocol[Host] = "Raw" /\ ~greeted[Host]
  /\ greeted' = [greeted EXCEPT ![Host] = TRUE]
  /\ UNCHANGED <<foreign, connecting, open, closed, protocol, progress, sent, received, delivered>>

-----------------------------------------------------------------------------
(* Packets.                                                                *)

AcceptedOrNone(n) == 0 .. n  \* mutant: Send tests < 0, not <= 0

\* What send() may accept of n bytes for Send to return true.
Accepted(n) == IF ShortSends THEN 1 .. n ELSE {n}

\* Send, that returns true even if a part of the packet was accepted.  The
\* program sends after the handshake.
Send(e) ==
  /\ open[e] /\ greeted[e]
  /\ Len(sent[e]) < MaxPackets[e]
  /\ \E s \in Sizes : \E k \in Accepted(HeaderSize + s) :
       sent' = [sent EXCEPT ![e] = Append(@, [start |-> Written(e), size |-> s, kept |-> k])]
  /\ UNCHANGED <<foreign, connecting, open, closed, protocol, progress, greeted, received, delivered>>

HeaderStays(e) ==  \* mutant: the state becomes Payload with the header in the buffer
  /\ PState' = [PState EXCEPT ![e] = "Payload"]
  /\ UNCHANGED <<Read, Size>>

\* SetState(Payload).
ToPayload(e) ==
  /\ PState' = [PState EXCEPT ![e] = "Payload"]
  /\ Read' = [Read EXCEPT ![e] = 0]
  /\ Size' = [Size EXCEPT ![e] = 0]

SignedSize(h) == h.size <= Limit     \* mutant: payloadSize is not cast to uint32_t
SizeBelow(h) == h.size \in 0 .. Limit - 1  \* mutant: the limit itself is refused

\* The test of payloadSize, taken as unsigned, against the limit.
SizeAllowed(h) == h.size \in 0 .. Limit

RefuseAndReset(e) ==  \* mutant: the next bytes are taken for a header
  /\ Read' = [Read EXCEPT ![e] = 0]
  /\ Size' = [Size EXCEPT ![e] = 0]
  /\ UNCHANGED PState

\* A header that is refused is left in the buffer.
Refuse(e) ==
  /\ Read' = [Read EXCEPT ![e] = HeaderSize]
  /\ Size' = [Size EXCEPT ![e] = SetSize(e, HeaderSize)]
  /\ UNCHANGED PState

\* Receive in the state Header.  Once a header is refused, every later call
\* asks recv() for 0 bytes and fails.
ReceiveHeader(e) ==
  /\ open[e] /\ PState[e] = "Header"
  /\ \E n \in Chunks(e, HeaderSize - Read[e]) :
       /\ Take(e, n)
       /\ \/ /\ Read[e] + n < HeaderSize
             /\ Fill(e, n, HeaderSize)
          \/ /\ Read[e] + n = HeaderSize
             /\ \E h \in Headers(e) :
                  /\ PacketHeader' = [PacketHeader EXCEPT ![e] = h]
                  /\ \/ SizeAllowed(h) /\ ToPayload(e)
                     \/ ~SizeAllowed(h) /\ Refuse(e)
  /\ UNCHANGED <<foreign, connecting, open, closed, protocol, greeted, sent, delivered>>

\* Receive in the state Payload.  An empty payload is complete without recv().
ReceivePayload(e) ==
  LET size == PacketHeader[e].size IN
  /\ open[e] /\ PState[e] = "Payload"
  /\ \E n \in IF size = 0 THEN {0} ELSE Chunks(e, size - Read[e]) :
       /\ Take(e, n)
       /\ \/ /\ Read[e] + n < size
             /\ Fill(e, n, size)
             /\ UNCHANGED delivered
          \/ /\ Read[e] + n = size
             /\ delivered' = [delivered EXCEPT ![e] = Append(@, Content(e))]
             /\ Reset(e)
  /\ UNCHANGED <<foreign, connecting, open, closed, protocol, greeted, sent>>

\* Receive in the states Header and Payload when recv() fails: what had
\* arrived is kept for the next call.
ReceiveFails(e) ==
  /\ open[e] /\ RecvFails(e)
  /\ \/ /\ PState[e] = "Header"
        /\ Size' = [Size EXCEPT ![e] = SetSize(e, HeaderSize)]
     \/ /\ PState[e] = "Payload" /\ PacketHeader[e].size > 0
        /\ Size' = [Size EXCEPT ![e] = SetSize(e, PacketHeader[e].size)]
  /\ UNCHANGED <<foreign, connecting, open, closed, protocol, PState, Read, PacketHeader,
                 greeted, sent, received, delivered>>

\* Close.
Close(e) ==
  /\ open[e]
  /\ open' = [open EXCEPT ![e] = FALSE]
  /\ closed' = [closed EXCEPT ![e] = TRUE]
  /\ UNCHANGED <<foreign, connecting, protocol, progress, greeted, sent, received, delivered>>

-----------------------------------------------------------------------------
(* A foreign peer of the host.                                             *)

ForeignUp == foreign /\ greeted[Client] /\ ~closed[Client]

\* It writes a block of bytes.
ForeignWrites ==
  /\ ForeignUp /\ Len(sent[Client]) < MaxPackets[Client]
  /\ \E s \in Sizes :
       sent' = [sent EXCEPT ![Client] =
                 Append(@, [start |-> Written(Client), size |-> s, kept |-> HeaderSize + s])]
  /\ UNCHANGED <<foreign, connecting, open, closed, protocol, progress, greeted, received, delivered>>

\* It reads what came, all of it: whether it has left some matters when it closes.
ForeignReads ==
  /\ ForeignUp /\ Available(Client) > 0
  /\ Take(Client, Available(Client))
  /\ UNCHANGED <<foreign, connecting, open, closed, protocol, progress, greeted, sent, delivered>>

ForeignCloses ==
  /\ ForeignUp
  /\ closed' = [closed EXCEPT ![Client] = TRUE]
  /\ UNCHANGED <<foreign, connecting, open, protocol, progress, greeted, sent, received, delivered>>

-----------------------------------------------------------------------------
(* The specification.                                                      *)

Receive(e) ==
  \/ WaitHandshake(e)
  \/ HandshakeFails(e)
  \/ ReceiveHeader(e)
  \/ ReceivePayload(e)
  \/ ReceiveFails(e)

Next ==
  \/ Connect
  \/ InitHandshake
  \/ Handshake
  \/ ForeignWrites \/ ForeignReads \/ ForeignCloses
  \/ \E e \in Ends : Send(e) \/ Receive(e) \/ Close(e)

Safe == Init /\ [][Next]_vars

\* select() reports the socket.
Readable(e) == Available(e) > 0 \/ closed[Peer(e)]

\* The program answers a handshake, and calls Receive when select() reports
\* its socket; a blocked recv() returns once there is something to return.
Fairness ==
  /\ WF_vars(InitHandshake)
  /\ WF_vars(Handshake)
  /\ \A e \in Ends : WF_vars(Readable(e) /\ Receive(e))

Spec == Safe /\ Fairness

-----------------------------------------------------------------------------
(* Properties.                                                             *)

\* Every variable has a value of its type.
TypeOK ==
  /\ foreign \in BOOLEAN
  /\ connecting \in {"new", "waiting", "done"}
  /\ open \in [Ends -> BOOLEAN]
  /\ closed \in [Ends -> BOOLEAN]
  /\ protocol \in [Ends -> {"None", "Raw"}]
  /\ PState \in [Ends -> {"Handshake", "Header", "Payload"}]
  /\ Read \in [Ends -> Nat]
  /\ Size \in [Ends -> Nat]
  /\ PacketHeader \in [Ends -> Header]
  /\ greeted \in [Ends -> BOOLEAN]
  /\ sent \in [Ends -> Seq(Packet)]
  /\ received \in [Ends -> Nat]
  /\ delivered \in [Ends -> Seq(Nat)]

\* What is in e's buffer fits in it, and in the payload that is waited for.
Bounded(e) ==
  /\ Read[e] <= Size[e]
  /\ PState[e] = "Payload" =>
       PacketHeader[e].size \in 0 .. Limit /\ Read[e] <= PacketHeader[e].size

\* What is read into the ProgressBuffer fits in it, whatever the sequence of
\* SetSize, SetState and Reset calls, and a payload is read only with a size
\* from 0 to the limit: recv() never writes past Buffer.
InBounds == \A e \in Ends : Bounded(e)

\* The packets up to the k-th were written whole by e; a foreign e writes none.
WholeUpTo(e, k) ==
  /\ ~Foreign(e)
  /\ \A i \in 1 .. Len(sent[e]) : i <= k => sent[e][i].kept = HeaderSize + sent[e][i].size

\* The place in e's stream where its k-th packet is or will be.
Start(e, k) == IF k <= Len(sent[e]) THEN sent[e][k].start ELSE Written(e)

\* e waits for the header of the k-th packet, its buffer filled from its start.
AtHeader(e, k) == k <= Len(sent[Peer(e)]) + 1 /\ Base(e) = Start(Peer(e), k)

\* e waits for the payload of the k-th packet, with that packet's header.
AtPayload(e, k) ==
  /\ k <= Len(sent[Peer(e)])
  /\ PacketHeader[e] = [pkt |-> k, size |-> sent[Peer(e)][k].size]
  /\ Base(e) = sent[Peer(e)][k].start + HeaderSize

Aligned(e) ==
  LET k == Len(delivered[e]) + 1 IN
  /\ PState[e] = "Header" /\ WholeUpTo(Peer(e), k - 1) => AtHeader(e, k)
  /\ PState[e] = "Payload" /\ WholeUpTo(Peer(e), k) => AtPayload(e, k)

\* An end that waits for the header of its k-th packet has filled its buffer
\* from the first byte of the k-th packet its peer sent, and one that waits
\* for the payload from that packet's payload and with that packet's header:
\* the handshake takes exactly the greeting, and nothing is skipped or read
\* twice whatever the chunks, the timeouts and the empty payloads.
FramesAligned == \A e \in Ends : Aligned(e)

\* The packets e sent, as the channel knows them.
Packets(e) ==
  [i \in 1 .. Len(sent[e]) |->
     [size |-> sent[e][i].size,
      whole |-> ~Foreign(e) /\ sent[e][i].kept = HeaderSize + sent[e][i].size]]

Channel == INSTANCE PacketChannel WITH sent <- [e \in Ends |-> Packets(e)]

\* The two ends implement the channel of packets: whole, in order, each once,
\* none over the limit and none that was not sent, up to the first short send; of
\* a foreign peer's bytes nothing is promised.
ImplementsChannel == Channel!Spec

\* A header was refused for its size, or one that is negative.
Refused(e) == PacketHeader[e].size \notin 0 .. Limit

\* After a header was refused for its size the connection never again takes a
\* byte or delivers a packet, though Receive goes on being called and the
\* bytes that follow could look like a header.
RefusedForGood ==
  [][\A e \in Ends : Refused(e) =>
       received'[e] = received[e] /\ delivered'[e] = delivered[e]]_vars

\* A timeout in the middle of the greeting has thrown away the bytes that had come.
GreetingLost == PState[Host] = "Handshake" /\ Base(Host) > 0

\* The wait for the answer in Connect ends, if the peer speaks RAW and the host
\* did not lose a part of the greeting.
ConnectReturns ==
  connecting = "waiting" /\ ~foreign ~> connecting = "done" \/ GreetingLost

\* The i-th packet e sent can reach the other end: it and all before it are
\* whole and within the limit, and it has bytes after its header or something
\* follows it.
Deliverable(e, i) ==
  /\ i <= Len(sent[e])
  /\ WholeUpTo(e, i)
  /\ \A j \in 1 .. i : sent[e][j].size <= Limit
  /\ sent[e][i].size > 0 \/ i < Len(sent[e]) \/ closed[e]

\* A deliverable packet is delivered, unless its receiver closes, or the peer
\* closes with bytes unread, which resets the connection, or the host lost a part
\* of the greeting.
EveryPacketDelivered ==
  \A e \in Ends : \A i \in 1 .. MaxPackets[Peer(e)] :
    open[e] /\ Deliverable(Peer(e), i) ~>
      Len(delivered[e]) >= i \/ ~open[e] \/ Broken(e) \/ GreetingLost
=============================================================================

------------------------------ MODULE WebSocket ------------------------------
(***************************************************************************)
(* Yo::Network::WebSocket, the protocol of an accepted TCPClient whose     *)
(* peer, a browser, began with GET: Handshake, which the program calls     *)
(* with a ProgressBuffer of its own until it succeeds, then Receive, which *)
(* takes frames off the stream, and Send, which makes one of a buffer.     *)
(*                                                                         *)
(* A request is a sequence of pieces, each one place of the stream; an     *)
(* answer is the key its Sec-WebSocket-Accept is computed from.  The frames *)
(* follow the request in the stream, and of them only the places matter: a *)
(* byte is right if it is a byte of a frame's data and is decoded with the *)
(* byte of that frame's mask it was encoded with.                          *)
(***************************************************************************)
EXTENDS Integers, Sequences

CONSTANTS
  Requests,   \* what may follow GET: sequences of Pieces
  MaxAnswers, \* bound: no Handshake is called once this many answers were sent
  Lengths,    \* how much data a frame of the browser has
  MaxFrames,  \* bound on the frames sent, in both directions
  Asks,       \* how many bytes the program asks Receive for
  Garbage,    \* the lengths a header may announce that is not one
  Sizes       \* what the program sends: int32_t

KeyName == "Sec-WebSocket-Key:"
HostName == "Host:"
Eol == "\n"
Words == {"k1", "k2", "h1", "x"}  \* pieces of values and of other lines
Pieces == {KeyName, HostName, Eol} \cup Words

ASSUME RequestsAssumption == Requests \subseteq Seq(Pieces)
ASSUME LengthsAssumption == \A n \in Lengths : n \in Nat /\ n < 65536
ASSUME AsksAssumption ==
  Asks \subseteq Nat \ {0} /\ Garbage \subseteq Nat /\ {MaxFrames, MaxAnswers} \subseteq Nat
ASSUME SizesAssumption == \A n \in Sizes : n \in Nat /\ n <= 2147483647

VARIABLES
  request,  \* the request of the browser
  buffer,   \* what of it is in the ProgressBuffer
  key,      \* m_key
  host,     \* m_host
  answers,  \* the keys of the answers that were sent
  result,   \* of the last Handshake
  down,     \* the connection is broken
  frames,   \* the frames the browser sent: their data, and their places in the stream
  taken,    \* how many bytes of the stream, the request and the frames, were read
  packet,   \* m_packet: length, pos, and which frame's mask it has, 0 for none
  smooth,   \* history: see Smooth
  intact,   \* history: every byte the program got is right
  out       \* the headers of the frames sent, and the sizes they are for

handshake == <<request, buffer, key, host, answers, result>>
stream == <<taken, packet, smooth, intact>>
vars == <<handshake, down, frames, stream, out>>

Init ==
  /\ request \in Requests
  /\ buffer = <<>> /\ key = <<>> /\ host = <<>>
  /\ answers = <<>> /\ result = "none" /\ down = FALSE
  /\ frames = <<>> /\ taken = 0
  /\ packet = [length |-> 0, pos |-> 0, frame |-> 0]
  /\ smooth = TRUE /\ intact = TRUE
  /\ out = <<>>

\* The connection breaks.
Break == ~down /\ down' = TRUE /\ UNCHANGED <<handshake, frames, stream, out>>

-----------------------------------------------------------------------------
(* The handshake.                                                          *)

\* GetWord(GetFirstLine(text, name), 2), each piece after the name being a part
\* of its value.
Value(text, name) ==
  LET lines == {i \in DOMAIN text : text[i] = name}
      from == CHOOSE i \in lines : \A j \in lines : i <= j
      to == CHOOSE n \in from .. Len(text) :
              /\ \A j \in from + 1 .. n : text[j] # Eol
              /\ n = Len(text) \/ text[n + 1] = Eol
  IN IF lines = {} THEN <<>> ELSE SubSeq(text, from + 1, to)

ParsedKey(text) == Value(text, KeyName) # <<>>  \* mutant: the host is not looked for

\* Handshake finds a key and a host.
Parsed(text) == Value(text, KeyName) # <<>> /\ Value(text, HostName) # <<>>

\* What the ProgressBuffer holds after recv() returned r bytes.
Text(r) == buffer \o SubSeq(request, Len(buffer) + 1, Len(buffer) + r)

\* The end of Handshake with this text: IsEndOfFrame has sent an answer with the
\* key as it was, and a second one follows if the text is parsed.  The connection
\* may break after the first.
Answer(text, n) ==
  LET all == IF Parsed(text) THEN <<key, Value(text, KeyName)>> ELSE <<key>> IN
  /\ n <= Len(all)
  /\ answers' = answers \o SubSeq(all, 1, n)
  /\ down' = (n < Len(all))
  /\ key' = Value(text, KeyName)
  /\ host' = IF key' = <<>> THEN host ELSE Value(text, HostName)
  /\ result' = IF n = 2 THEN "success" ELSE "error"

\* Handshake when IsEndOfFrame sends an answer: 4 bytes are there, without recv() if
\* they were there before.  What of the request is not read stays in the stream.
Handshake ==
  /\ result # "success" /\ ~down /\ Len(answers) < MaxAnswers
  /\ \E r \in 0 .. Len(request) - Len(buffer) :
       /\ (r = 0) <=> (Len(buffer) >= 4)
       /\ Len(Text(r)) >= 4
       /\ buffer' = Text(r) /\ taken' = Len(Text(r))
       /\ \E n \in 1 .. 2 : Answer(Text(r), n)
  /\ UNCHANGED <<request, frames, packet, smooth, intact, out>>

\* Handshake when it sends none: there are fewer than 4 bytes, or the connection is
\* down or breaks.  It receives once, and fails if nothing comes.
HandshakeNoAnswer ==
  /\ result # "success"
  /\ \E r \in 0 .. Len(request) - Len(buffer) :
       /\ buffer' = Text(r) /\ taken' = Len(Text(r))
       /\ result' = IF r = 0 THEN "error" ELSE "progress"
       /\ down' = (down \/ Len(Text(r)) >= 4)
  /\ UNCHANGED <<request, key, host, answers, frames, packet, smooth, intact, out>>

-----------------------------------------------------------------------------
(* The frames of the browser.                                              *)

\* The length's code in the second byte, and the bytes of its extended form.
Code(length) == IF length < 126 THEN length ELSE IF length < 65536 THEN 126 ELSE 127
Extension(code) == IF code = 126 THEN 2 ELSE IF code = 127 THEN 8 ELSE 0

\* Where the data of a frame, whose header ends with its mask, begins and ends.
DataAt(f) == f.at + 2 + Extension(Code(f.length)) + 4
EndOf(f) == DataAt(f) + f.length

\* What the browser has written: the request, and the frames after it.
Written == IF frames = <<>> THEN Len(request) ELSE EndOf(frames[Len(frames)])

BrowserSends ==
  /\ result = "success" /\ ~down /\ Len(frames) + Len(out) < MaxFrames
  /\ \E n \in Lengths : frames' = Append(frames, [length |-> n, at |-> Written])
  /\ UNCHANGED <<handshake, down, stream, out>>

\* What recv() for n bytes at this place may return, 0 for nothing: bytes may still
\* be on their way, or the connection may be down.
Recv(n, at) == {0} \cup {r \in 1 .. n : at + r <= Written}

\* The frame that begins at this place, 0 if none does.
FrameAt(at) ==
  IF \E i \in DOMAIN frames : frames[i].at = at
  THEN CHOOSE i \in DOMAIN frames : frames[i].at = at ELSE 0

\* What memcpy makes of an extended length, that comes in network byte order.
HostOrder(length) ==
  IF Code(length) = 126 THEN (length % 256) * 256 + length \div 256 ELSE length

\* The headers ReadHeader can make of the bytes at this place: of a header that comes
\* whole; of one cut short or of other bytes, any; and what is there when it gets
\* none, at first or after two bytes.
ReadHeader(at) ==
  LET i == FrameAt(at)
      size == 2 + Extension(Code(frames[i].length)) + 4
      Packet(n, f) == [length |-> n, pos |-> 0, frame |-> f]
  IN {[packet |-> packet, read |-> 0, whole |-> FALSE]}
     \cup {[packet |-> Packet(HostOrder(frames[f].length), f), read |-> size, whole |-> TRUE] :
             f \in {j \in {i} \ {0} : size \in Recv(size, at)}}
     \cup {[packet |-> Packet(Code(frames[f].length), 0), read |-> 2, whole |-> FALSE] :
             f \in {j \in {i} \ {0} : 2 \in Recv(2, at)}}
     \cup {[packet |-> Packet(n, 0), read |-> r, whole |-> i = 0] :
             n \in Garbage, r \in Recv(14, at) \ {0}}

\* These r bytes are data of the frame whose mask m_packet has, decoded from the
\* mask's first byte on.
Right(p, at, r) ==
  /\ p.frame # 0
  /\ at >= DataAt(frames[p.frame]) /\ at + r <= EndOf(frames[p.frame])
  /\ (at - DataAt(frames[p.frame])) % 4 = 0

KeepPos(p, r) == p  \* mutant: the position is not moved

\* m_packet after a recv of r bytes.
Moved(p, r) == [p EXCEPT !.pos = @ + r]

\* What Receive relies on: what is read begins in a frame, so that Handshake has left
\* nothing of the request, and the frame is shorter than 126 bytes; ReadHeader gets all
\* it asks for; recv() is not asked for more than the rest of the frame, and what it
\* returns goes to the end of it or is a multiple of 4 bytes.  Or nothing comes at all.
Smooth(h, n, r) ==
  LET at == taken + h.read IN
  \/ h.read = 0 /\ r = 0
  \/ /\ h.whole
     /\ \E i \in DOMAIN frames :
          /\ frames[i].length < 126
          /\ frames[i].at <= taken /\ at + n <= EndOf(frames[i])
          /\ r % 4 = 0 \/ at + r = EndOf(frames[i])

\* Receive, with DecodeData: whatever ReadHeader returned.
Receive(n) ==
  /\ result = "success"
  /\ \E h \in IF packet.pos >= packet.length THEN ReadHeader(taken)
              ELSE {[packet |-> packet, read |-> 0, whole |-> TRUE]} :
     \E r \in Recv(n, taken + h.read) :
       /\ taken' = taken + h.read + r
       /\ packet' = Moved(h.packet, r)
       /\ smooth' = (smooth /\ Smooth(h, n, r))
       /\ intact' = (intact /\ (r = 0 \/ Right(h.packet, taken + h.read, r)))
  /\ UNCHANGED <<handshake, down, frames, out>>

-----------------------------------------------------------------------------
(* The frames of the library.                                              *)

\* The w bytes memcpy takes of an int32_t.
Place == <<1, 256, 65536, 16777216>>
LittleEndian(n, w) == [i \in 1 .. w |-> IF i > 4 THEN 0 ELSE (n \div Place[i]) % 256]
BigEndian(n, w) == [i \in 1 .. w |-> LittleEndian(n, w)[w + 1 - i]]

\* CreateHeader's p_headerSize, without the first two bytes.
Extended(n) == IF n > 126 THEN IF n < 65535 THEN 2 ELSE 8 ELSE 0

\* mutant: the size is in the second byte also when it is extended
SizeInByte(n) == [code |-> n % 256, extended |-> LittleEndian(n, Extended(n)), size |-> n]

CreateHeader(n) ==
  [code |-> CASE Extended(n) = 0 -> n [] Extended(n) = 2 -> 126 [] OTHER -> 127,
   extended |-> LittleEndian(n, Extended(n)),
   size |-> n]

Send(n) ==
  /\ result = "success" /\ Len(frames) + Len(out) < MaxFrames
  /\ out' = Append(out, CreateHeader(n))
  /\ UNCHANGED <<handshake, down, frames, stream>>

-----------------------------------------------------------------------------
(* The specification.                                                      *)

Next ==
  \/ Handshake \/ HandshakeNoAnswer
  \/ BrowserSends \/ Break
  \/ \E n \in Asks : Receive(n)
  \/ \E n \in Sizes : Send(n)

Spec == Init /\ [][Next]_vars

-----------------------------------------------------------------------------
(* Properties.                                                             *)

\* Every variable has a value of its type; no more is read than was written, and the
\* second byte of a header sent never has the mask bit.
TypeOK ==
  /\ request \in Requests /\ buffer \in Seq(Pieces)
  /\ key \in Seq(Pieces) /\ host \in Seq(Pieces) /\ answers \in Seq(Seq(Pieces))
  /\ result \in {"none", "progress", "error", "success"} /\ down \in BOOLEAN
  /\ frames \in Seq([length : Lengths, at : Nat])
  /\ taken \in 0 .. Written
  /\ packet \in [length : Nat, pos : Nat, frame : 0 .. Len(frames)]
  /\ smooth \in BOOLEAN /\ intact \in BOOLEAN
  /\ \A i \in DOMAIN out :
       /\ out[i].code \in 0 .. 127 /\ out[i].size \in Sizes
       /\ out[i].extended \in Seq(0 .. 255)

\* The line of the key ends before the first Host line of the request.
KeyFirst ==
  \E i, e \in DOMAIN request :
    /\ i < e /\ request[i] = KeyName /\ request[e] = Eol
    /\ \A j \in DOMAIN request : request[j] = HostName => e < j

\* A handshake that succeeds has answered last with the browser's key, cut short or
\* whole, and with the whole key if no Host line comes before it, however the request
\* was cut: until the host is there no answer with a part of the key is taken for a
\* success.
AnswersKey ==
  result = "success" =>
    LET k == Value(request, KeyName) last == answers[Len(answers)] IN
    /\ key = last /\ last # <<>> /\ last = SubSeq(k, 1, Len(last))
    /\ KeyFirst => last = k

\* As long as what Receive relies on holds, every byte the program gets is data of
\* the browser's, decoded with the right byte of its mask: the first header is found
\* where Handshake stopped, and the position in m_packet stays in step with the
\* stream from frame to frame.
DataIntact == smooth => intact

\* The size a browser finds in a header, that of the extended form in network byte
\* order, is the size of the frame.
ReadRight(h) ==
  /\ h.code = Code(h.size)
  /\ h.extended = BigEndian(h.size, Extension(h.code))

\* A browser reads the size of a frame right exactly when it is below 126, or in the
\* two-byte form and the same in either byte order.
SizesRead ==
  \A i \in DOMAIN out :
    LET n == out[i].size IN
    ReadRight(out[i]) <=>
      n <= 125 \/ (126 < n /\ n < 65535 /\ n % 256 = n \div 256)
=============================================================================

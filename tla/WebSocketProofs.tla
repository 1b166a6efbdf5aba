--------------------------- MODULE WebSocketProofs ---------------------------
(***************************************************************************)
(* Proofs about WebSocket, for any requests however they are cut, and any  *)
(* lengths, asks and sizes: which key a successful Handshake has answered, *)
(* that Receive finds the frames where Handshake stopped and the position  *)
(* in m_packet stays in step with the stream while it gets what it relies  *)
(* on, and which sizes a browser reads right.                              *)
(***************************************************************************)
EXTENDS WebSocket, SequenceTheorems, WellFoundedInduction, TLAPS

\* What is assumed of the constants, one by one.
LEMMA Numbers ==
  /\ \A n \in Asks : n \in Nat /\ n # 0
  /\ \A n \in Garbage : n \in Nat
  /\ \A n \in Lengths : n \in Nat
  BY LengthsAssumption, AsksAssumption

-----------------------------------------------------------------------------
(* The key a text has.  What CHOOSE takes in Value is there because a set of *)
(* numbers that is not empty has a least element.                          *)

\* A set of numbers has a least one.
LEMMA Least ==
  ASSUME NEW T, T \subseteq Nat, T # {}
  PROVE  \E x \in T : \A y \in T : x <= y
<1> DEFINE R == OpToRel(<, Nat)
<1>1. IsWellFoundedOn(R, Nat)
  BY NatLessThanWellFounded
<1>2. \A x, y \in Nat : y < x => <<y, x>> \in R
  BY DEF OpToRel
<1> HIDE DEF R
<1>3. PICK x \in T : \A y \in T : <<y, x>> \notin R
  BY <1>1, WFMin
<1>4. ASSUME NEW y \in T PROVE x <= y
  <2>1. x \in Nat /\ y \in Nat /\ ~(y < x)
    BY <1>2, <1>3
  <2> QED
    BY <2>1
<1> QED
  BY <1>4

\* The value of a name in a text goes from f to t.
Span(text, name, f, t) ==
  /\ f \in 1 .. Len(text) /\ text[f] = name
  /\ \A i \in 1 .. Len(text) : text[i] = name => f <= i
  /\ t \in f .. Len(text)
  /\ \A i \in f + 1 .. t : text[i] # Eol
  /\ t = Len(text) \/ text[t + 1] = Eol

\* A name that is in a text has a value, that may be nothing.
LEMMA ValueSpan ==
  ASSUME NEW text \in Seq(Pieces), NEW name, NEW k \in 1 .. Len(text), text[k] = name
  PROVE  \E f, t : Span(text, name, f, t) /\ Value(text, name) = SubSeq(text, f + 1, t)
<1> DEFINE lines == {i \in DOMAIN text : text[i] = name}
           first == CHOOSE i \in lines : \A j \in lines : i <= j
<1>0. DOMAIN text = 1 .. Len(text) /\ Len(text) \in Nat
  BY LenProperties
<1>1. lines \subseteq Nat /\ lines # {}
  BY <1>0
<1>2. first \in lines /\ \A j \in lines : first <= j
  <2>1. \E i \in lines : \A j \in lines : i <= j
    BY <1>1, Least
  <2> HIDE DEF lines
  <2> QED
    BY <2>1
<1>3. PICK f \in 1 .. Len(text) :
        f = first /\ text[f] = name /\ \A i \in 1 .. Len(text) : text[i] = name => f <= i
  BY <1>0, <1>2
<1> DEFINE To(n) == (\A j \in f + 1 .. n : text[j] # Eol) /\ (n = Len(text) \/ text[n + 1] = Eol)
           t == CHOOSE n \in f .. Len(text) : To(n)
<1>4. Value(text, name) = SubSeq(text, f + 1, t)
  BY <1>1, <1>3 DEF Value
<1> HIDE DEF first, lines
<1>5. \E n \in f .. Len(text) : To(n)
  <2> DEFINE ends == {n \in f .. Len(text) : n = Len(text) \/ text[n + 1] = Eol}
  <2>1. ends \subseteq Nat /\ Len(text) \in ends
    BY <1>0, <1>3
  <2>2. PICK n : n \in ends /\ \A m \in ends : n <= m
    BY <2>1, Least
  <2>3. n \in f .. Len(text) /\ (n = Len(text) \/ text[n + 1] = Eol)
    BY <2>2
  <2>6. n \in f .. Len(text) /\ Len(text) \in Nat
    BY <1>0, <2>3
  <2> HIDE DEF ends
  <2>4. ASSUME NEW j \in f + 1 .. n PROVE text[j] # Eol
    <3>1. SUFFICES ASSUME text[j] = Eol PROVE FALSE
      OBVIOUS
    <3>2. j - 1 \in f .. Len(text) /\ (j - 1) + 1 = j /\ j - 1 < n
      BY <2>6
    <3>3. j - 1 \in ends
      BY <3>1, <3>2 DEF ends
    <3>4. n <= j - 1
      BY <2>2, <3>3
    <3> QED
      BY <2>6, <3>2, <3>4
  <2>5. To(n)
    BY <2>3, <2>4
  <2> HIDE DEF To
  <2> QED
    BY <2>3, <2>5
<1>6. t \in f .. Len(text) /\ To(t)
  <2> HIDE DEF To
  <2> QED
    BY <1>5
<1>7. Span(text, name, f, t)
  <2> HIDE DEF t
  <2> QED
    BY <1>3, <1>6 DEF Span
<1> HIDE DEF t
<1> QED
  BY <1>4, <1>7

\* A name that is not there has none.
LEMMA NoValue ==
  ASSUME NEW text \in Seq(Pieces), NEW name, Value(text, name) # <<>>
  PROVE  \E k \in 1 .. Len(text) : text[k] = name
<1>1. DOMAIN text = 1 .. Len(text)
  BY LenProperties
<1> QED
  BY <1>1 DEF Value

\* A value is made of pieces of the text.
LEMMA ValueTyped ==
  ASSUME NEW text \in Seq(Pieces), NEW name
  PROVE  Value(text, name) \in Seq(Pieces)
<1>1. CASE Value(text, name) = <<>>
  BY <1>1, EmptySeq
<1>2. CASE Value(text, name) # <<>>
  <2>1. PICK k \in 1 .. Len(text) : text[k] = name
    BY <1>2, NoValue
  <2>2. PICK f, t : Span(text, name, f, t) /\ Value(text, name) = SubSeq(text, f + 1, t)
    BY <2>1, ValueSpan
  <2>3. Len(text) \in Nat /\ \A i \in 1 .. Len(text) : text[i] \in Pieces
    BY LenProperties, ElementOfSeq
  <2>4. f + 1 \in Int /\ t \in Int /\ \A i \in f + 1 .. t : text[i] \in Pieces
    BY <2>2, <2>3 DEF Span
  <2> QED
    BY <2>2, <2>4, SubSeqProperties
<1> QED
  BY <1>1, <1>2

\* The value in the first pieces of a text is the value in the text, or the first part
\* of it, and then it goes to the last of these pieces.
LEMMA ValueOfPrefix ==
  ASSUME NEW all \in Seq(Pieces), NEW text \in Seq(Pieces), Len(text) <= Len(all),
         \A i \in 1 .. Len(text) : text[i] = all[i],
         NEW name, Value(text, name) # <<>>
  PROVE  /\ LET v == Value(text, name) IN v = SubSeq(Value(all, name), 1, Len(v))
         /\ \A i, e \in 1 .. Len(text) : i < e /\ all[i] = name /\ all[e] = Eol =>
              Value(text, name) = Value(all, name)
<1>0. Len(text) \in Nat /\ Len(all) \in Nat /\ \A i \in 1 .. Len(all) : all[i] \in Pieces
  BY LenProperties, ElementOfSeq
<1>1. PICK k \in 1 .. Len(text) : text[k] = name
  BY NoValue
<1>2. PICK f, t : Span(text, name, f, t) /\ Value(text, name) = SubSeq(text, f + 1, t)
  BY <1>1, ValueSpan
<1>3. PICK g, u : Span(all, name, g, u) /\ Value(all, name) = SubSeq(all, g + 1, u)
  <2>1. k \in 1 .. Len(all) /\ all[k] = name
    BY <1>0, <1>1
  <2> QED
    BY <2>1, ValueSpan
<1>4. g = f
  <2>1. f <= g
    <3>1. g <= k /\ g \in 1 .. Len(text) /\ text[g] = name
      BY <1>0, <1>1, <1>3 DEF Span
    <3> QED
      BY <1>2, <3>1 DEF Span
  <2>2. g <= f
    <3>1. f \in 1 .. Len(text) /\ text[f] = name
      BY <1>2 DEF Span
    <3>2. f \in 1 .. Len(all) /\ all[f] = name
      BY <1>0, <3>1
    <3> QED
      BY <1>3, <3>2 DEF Span
  <2> QED
    BY <1>2, <1>3, <2>1, <2>2 DEF Span
<1>5. f \in 1 .. Len(text) /\ t \in f .. Len(text) /\ u \in f .. Len(all)
  BY <1>2, <1>3, <1>4 DEF Span
<1>6. t <= u
  <2>1. SUFFICES ASSUME u < t PROVE FALSE
    BY <1>0, <1>5
  <2>2. u + 1 \in f + 1 .. t /\ u + 1 \in 1 .. Len(text) /\ u # Len(all)
    BY <1>0, <1>5, <2>1
  <2>3. all[u + 1] = Eol
    BY <1>3, <2>2 DEF Span
  <2> QED
    BY <1>2, <2>2, <2>3 DEF Span
<1>7. t < u => t = Len(text)
  <2>1. SUFFICES ASSUME t < u, t # Len(text) PROVE FALSE
    OBVIOUS
  <2>2. t + 1 \in f + 1 .. u /\ t + 1 \in 1 .. Len(text)
    BY <1>0, <1>5, <2>1
  <2>3. text[t + 1] = Eol
    BY <1>2, <2>1 DEF Span
  <2> QED
    BY <1>3, <1>4, <2>2, <2>3 DEF Span
<1> DEFINE v == Value(text, name)
           w == Value(all, name)
<1>8. /\ v \in Seq(Pieces) /\ Len(v) = t - f /\ \A i \in 1 .. t - f : v[i] = all[f + i]
  <2>1. f + 1 \in Int /\ t \in Int /\ \A i \in f + 1 .. t : text[i] \in Pieces
    BY <1>0, <1>5
  <2>2. /\ Len(v) = IF f + 1 <= t THEN t - (f + 1) + 1 ELSE 0
        /\ \A i \in 1 .. t - (f + 1) + 1 : v[i] = text[f + 1 + i - 1]
    BY <1>2, <2>1, SubSeqProperties
  <2>3. t - (f + 1) + 1 = t - f
    BY <1>0, <1>5
  <2>4. ASSUME NEW i \in 1 .. t - f PROVE v[i] = all[f + i]
    <3>1. f + 1 + i - 1 = f + i /\ f + i \in 1 .. Len(text)
      BY <1>0, <1>5
    <3> QED
      BY <2>2, <2>3, <3>1
  <2>5. Len(v) = t - f
    BY <1>0, <1>5, <2>2
  <2> QED
    BY <2>4, <2>5, ValueTyped
<1>9. /\ w \in Seq(Pieces) /\ Len(w) = u - f /\ \A i \in 1 .. u - f : w[i] = all[f + i]
  <2>1. f + 1 \in Int /\ u \in Int /\ \A i \in f + 1 .. u : all[i] \in Pieces
    BY <1>0, <1>5
  <2>2. /\ Len(w) = IF f + 1 <= u THEN u - (f + 1) + 1 ELSE 0
        /\ \A i \in 1 .. u - (f + 1) + 1 : w[i] = all[f + 1 + i - 1]
    BY <1>3, <1>4, <2>1, SubSeqProperties
  <2>3. u - (f + 1) + 1 = u - f
    BY <1>0, <1>5
  <2>4. ASSUME NEW i \in 1 .. u - f PROVE w[i] = all[f + i]
    <3>1. f + 1 + i - 1 = f + i
      BY <1>0, <1>5
    <3> QED
      BY <2>2, <2>3, <3>1
  <2>5. Len(w) = u - f
    BY <1>0, <1>5, <2>2
  <2> QED
    BY <2>4, <2>5, ValueTyped
<1> HIDE DEF v, w
<1>10. v = SubSeq(w, 1, Len(v))
  <2>1. 1 \in Int /\ Len(v) \in Int /\ \A i \in 1 .. Len(v) : w[i] \in Pieces
    BY <1>0, <1>5, <1>6, <1>8, <1>9
  <2> DEFINE s == SubSeq(w, 1, Len(v))
  <2>2. /\ s \in Seq(Pieces)
        /\ Len(s) = IF 1 <= Len(v) THEN Len(v) - 1 + 1 ELSE 0
        /\ \A i \in 1 .. Len(v) - 1 + 1 : s[i] = w[1 + i - 1]
    BY <2>1, SubSeqProperties
  <2> HIDE DEF s
  <2>3. Len(v) \in Nat
    BY <1>8, LenProperties
  <2>4. Len(s) = Len(v) /\ \A i \in 1 .. Len(v) : s[i] = w[i]
    BY <2>2, <2>3
  <2>5. ASSUME NEW i \in 1 .. Len(v) PROVE v[i] = s[i]
    <3>1. i \in 1 .. t - f /\ i \in 1 .. u - f
      BY <1>0, <1>5, <1>6, <1>8
    <3> QED
      BY <1>8, <1>9, <2>4, <3>1
  <2>6. v = s
    BY <1>8, <2>2, <2>4, <2>5, SeqEqual
  <2> QED
    BY <2>6 DEF s
<1>11. ASSUME NEW i \in 1 .. Len(text), NEW e \in 1 .. Len(text), i < e, all[i] = name, all[e] = Eol
       PROVE  v = w
  <2>1. f <= i
    BY <1>0, <1>3, <1>4, <1>11 DEF Span
  <2>2. ~(e <= u)
    <3>1. SUFFICES ASSUME e <= u PROVE FALSE
      OBVIOUS
    <3>2. e \in f + 1 .. u
      BY <1>0, <1>5, <1>11, <2>1, <3>1
    <3> QED
      BY <1>3, <1>4, <1>11, <3>2 DEF Span
  <2>3. t = u
    BY <1>0, <1>5, <1>6, <1>7, <2>2
  <2> QED
    BY <1>8, <1>9, <2>3, SeqEqual
<1> QED
  BY <1>10, <1>11 DEF v, w

-----------------------------------------------------------------------------
(* The handshake.                                                          *)

\* What Handshake keeps: the ProgressBuffer holds the first pieces of the request.
HandshakeTypes ==
  /\ request \in Requests /\ buffer \in Seq(Pieces)
  /\ key \in Seq(Pieces) /\ host \in Seq(Pieces) /\ answers \in Seq(Seq(Pieces))
  /\ result \in {"none", "progress", "error", "success"} /\ down \in BOOLEAN

Begun(text) ==
  /\ text \in Seq(Pieces) /\ Len(text) <= Len(request)
  /\ \A i \in 1 .. Len(text) : text[i] = request[i]

HandshakeInv == HandshakeTypes /\ Begun(buffer) /\ AnswersKey

LEMMA RequestTyped == ASSUME request \in Requests PROVE request \in Seq(Pieces)
  BY RequestsAssumption

\* What recv() appends is the next of the request.
LEMMA TextBegun ==
  ASSUME request \in Seq(Pieces), Begun(buffer), NEW r \in 0 .. Len(request) - Len(buffer)
  PROVE  Begun(buffer \o SubSeq(request, Len(buffer) + 1, Len(buffer) + r))
<1> DEFINE m == Len(buffer)
           s == SubSeq(request, m + 1, m + r)
           text == buffer \o s
<1>0. m \in Nat /\ Len(request) \in Nat /\ r \in Nat /\ m + r <= Len(request)
      /\ \A i \in 1 .. Len(request) : request[i] \in Pieces
  <2>1. m \in Nat /\ Len(request) \in Nat /\ \A i \in 1 .. Len(request) : request[i] \in Pieces
    BY LenProperties, ElementOfSeq DEF Begun
  <2> HIDE DEF m
  <2> QED
    BY <2>1 DEF m
<1>1. s \in Seq(Pieces) /\ Len(s) = r /\ \A i \in 1 .. r : s[i] = request[m + i]
  <2>1. m + 1 \in Int /\ m + r \in Int /\ \A i \in m + 1 .. m + r : request[i] \in Pieces
    BY <1>0
  <2>2. /\ s \in Seq(Pieces)
        /\ Len(s) = IF m + 1 <= m + r THEN m + r - (m + 1) + 1 ELSE 0
        /\ \A i \in 1 .. m + r - (m + 1) + 1 : s[i] = request[m + 1 + i - 1]
    BY <2>1, SubSeqProperties
  <2> HIDE DEF m, s
  <2>3. Len(s) = r /\ m + r - (m + 1) + 1 = r
    BY <1>0, <2>2
  <2>4. ASSUME NEW i \in 1 .. r PROVE s[i] = request[m + i]
    <3>1. m + 1 + i - 1 = m + i
      BY <1>0
    <3> QED
      BY <2>2, <2>3, <3>1
  <2> QED
    BY <2>2, <2>3, <2>4
<1>2. /\ text \in Seq(Pieces) /\ Len(text) = m + r
      /\ \A i \in 1 .. m + r : text[i] = IF i <= m THEN buffer[i] ELSE s[i - m]
  <2>1. buffer \in Seq(Pieces)
    BY DEF Begun
  <2> HIDE DEF s
  <2> QED
    BY <1>1, <2>1, ConcatProperties
<1> HIDE DEF s, text
<1>3. ASSUME NEW i \in 1 .. m + r PROVE text[i] = request[i]
  <2> HIDE DEF m
  <2>1. CASE i <= m
    <3>1. i \in 1 .. m
      BY <1>0, <2>1
    <3> QED
      BY <1>2, <2>1, <3>1 DEF Begun, m
  <2>2. CASE ~(i <= m)
    <3>1. i - m \in 1 .. r /\ m + (i - m) = i
      BY <1>0, <2>2
    <3> QED
      BY <1>1, <1>2, <2>2, <3>1
  <2> QED
    BY <2>1, <2>2
<1>4. Begun(text)
  BY <1>0, <1>2, <1>3 DEF Begun
<1> QED
  BY <1>4 DEF text, s

\* The key a parsed text has is the request's, the whole of it if no Host line comes
\* before the end of the line of the key.
LEMMA KeyOfText ==
  ASSUME request \in Seq(Pieces), NEW text, Begun(text), Parsed(text)
  PROVE  LET k == Value(request, KeyName) v == Value(text, KeyName) IN
         /\ v # <<>> /\ v = SubSeq(k, 1, Len(v))
         /\ KeyFirst => v = k
<1>0. text \in Seq(Pieces) /\ Len(text) <= Len(request) /\ DOMAIN request = 1 .. Len(request)
      /\ Len(text) \in Nat /\ Len(request) \in Nat
      /\ \A i \in 1 .. Len(text) : text[i] = request[i]
  BY LenProperties DEF Begun
<1>1. Value(text, KeyName) # <<>> /\ Value(text, HostName) # <<>>
  BY DEF Parsed
<1>2. /\ LET v == Value(text, KeyName) IN v = SubSeq(Value(request, KeyName), 1, Len(v))
      /\ \A i, e \in 1 .. Len(text) : i < e /\ request[i] = KeyName /\ request[e] = Eol =>
           Value(text, KeyName) = Value(request, KeyName)
  BY <1>0, <1>1, ValueOfPrefix
<1>3. ASSUME KeyFirst PROVE Value(text, KeyName) = Value(request, KeyName)
  <2>1. PICK j \in 1 .. Len(text) : text[j] = HostName
    BY <1>0, <1>1, NoValue
  <2>2. PICK i \in 1 .. Len(request), e \in 1 .. Len(request) :
          /\ i < e /\ request[i] = KeyName /\ request[e] = Eol
          /\ \A h \in 1 .. Len(request) : request[h] = HostName => e < h
    BY <1>0, <1>3 DEF KeyFirst
  <2>3. j \in 1 .. Len(request) /\ request[j] = HostName
    BY <1>0, <2>1
  <2>4. e < j
    BY <2>2, <2>3
  <2>5. i \in 1 .. Len(text) /\ e \in 1 .. Len(text)
    BY <1>0, <2>2, <2>4
  <2> QED
    BY <1>2, <2>2, <2>5
<1> QED
  BY <1>1, <1>2, <1>3

\* What Handshake does with a text of 4 bytes or more.
LEMMA AnswerKept ==
  ASSUME HandshakeTypes, UNCHANGED request, NEW text, Begun(text), NEW n \in 1 .. 2,
         Answer(text, n)
  PROVE  /\ key' \in Seq(Pieces) /\ host' \in Seq(Pieces) /\ answers' \in Seq(Seq(Pieces))
         /\ result' \in {"none", "progress", "error", "success"} /\ down' \in BOOLEAN
         /\ AnswersKey'
<1> DEFINE k == Value(text, KeyName)
           all == IF Parsed(text) THEN <<key, k>> ELSE <<key>>
<1>1. k \in Seq(Pieces) /\ Value(text, HostName) \in Seq(Pieces)
  BY ValueTyped DEF Begun
<1>2. /\ n <= Len(all)
      /\ answers' = answers \o SubSeq(all, 1, n)
      /\ down' = (n < Len(all))
      /\ key' = k
      /\ host' = IF k = <<>> THEN host ELSE Value(text, HostName)
      /\ result' = IF n = 2 THEN "success" ELSE "error"
  BY DEF Answer
<1> HIDE DEF k
<1>3. key \in Seq(Pieces) /\ host \in Seq(Pieces) /\ answers \in Seq(Seq(Pieces))
  BY DEF HandshakeTypes
<1> DEFINE K == Seq(Pieces)
<1>4. all \in Seq(K) /\ Len(all) \in {1, 2} /\ (Len(all) = 2 => Parsed(text))
  <2>1. key \in K /\ k \in K
    BY <1>1, <1>3
  <2> HIDE DEF K
  <2> QED
    BY <2>1
<1>5. SubSeq(all, 1, n) \in Seq(K) /\ answers' \in Seq(K)
  <2>1. answers \in Seq(K)
    BY <1>3
  <2> HIDE DEF K, all
  <2>2. \A i \in 1 .. n : all[i] \in K
    BY <1>2, <1>4, ElementOfSeq
  <2>3. SubSeq(all, 1, n) \in Seq(K)
    BY <2>2, SubSeqProperties
  <2> QED
    BY <1>2, <2>1, <2>3, ConcatProperties
<1>6. /\ key' \in Seq(Pieces) /\ host' \in Seq(Pieces)
      /\ result' \in {"none", "progress", "error", "success"} /\ down' \in BOOLEAN
  BY <1>1, <1>2, <1>3
<1>7. ASSUME result' = "success"
      PROVE  key' = answers'[Len(answers')] /\ key' = k /\ Parsed(text)
  <2>1. n = 2
    BY <1>2, <1>7
  <2>2. Parsed(text) /\ key' = k
    BY <1>2, <1>4, <2>1
  <2>3. all = <<key, k>>
    BY <2>2
  <2>4. Len(SubSeq(all, 1, 2)) = 2 /\ SubSeq(all, 1, 2)[2] = k
    BY <2>3
  <2>5. answers \in Seq(K) /\ Len(answers) \in Nat
    BY <1>3, LenProperties
  <2> DEFINE s == SubSeq(all, 1, 2)
  <2>6. s \in Seq(K) /\ Len(s) = 2 /\ s[2] = k /\ answers' = answers \o s
    BY <1>2, <1>5, <2>1, <2>4
  <2> HIDE DEF s, K, all
  <2>7. Len(answers') = Len(answers) + 2 /\ answers'[Len(answers) + 2] = k
    <3>1. /\ Len(answers \o s) = Len(answers) + Len(s)
          /\ \A i \in 1 .. Len(answers) + Len(s) :
               (answers \o s)[i] = IF i <= Len(answers) THEN answers[i] ELSE s[i - Len(answers)]
      BY <2>5, <2>6, ConcatProperties
    <3>2. Len(answers) + 2 \in 1 .. Len(answers) + 2 /\ ~(Len(answers) + 2 <= Len(answers))
          /\ Len(answers) + 2 - Len(answers) = 2
      BY <2>5
    <3> QED
      BY <2>6, <3>1, <3>2
  <2> QED
    BY <2>2, <2>7
<1>8. AnswersKey'
  <2>1. SUFFICES ASSUME result' = "success"
        PROVE  LET w == Value(request', KeyName) last == answers'[Len(answers')] IN
               /\ key' = last /\ last # <<>> /\ last = SubSeq(w, 1, Len(last))
               /\ KeyFirst' => last = w
    BY DEF AnswersKey, Value
  <2>2. request \in Seq(Pieces) /\ request' = request /\ (KeyFirst' <=> KeyFirst)
    BY RequestTyped DEF HandshakeTypes, KeyFirst
  <2>3. key' = answers'[Len(answers')] /\ key' = k /\ Parsed(text)
    BY <1>7, <2>1
  <2>4. /\ k # <<>> /\ k = SubSeq(Value(request, KeyName), 1, Len(k))
        /\ KeyFirst => k = Value(request, KeyName)
    BY <2>2, <2>3, KeyOfText DEF k
  <2> QED
    BY <2>2, <2>3, <2>4
<1> QED
  BY <1>5, <1>6, <1>8 DEF K

LEMMA HandshakeNext == HandshakeInv /\ [Next]_vars => HandshakeInv'
<1> SUFFICES ASSUME HandshakeInv, [Next]_vars PROVE HandshakeInv'
  OBVIOUS
<1>0. HandshakeTypes /\ Begun(buffer) /\ AnswersKey /\ request \in Seq(Pieces)
  BY RequestTyped DEF HandshakeInv, HandshakeTypes
<1>1. ASSUME UNCHANGED handshake, down' \in BOOLEAN PROVE HandshakeInv'
  <2>1. UNCHANGED <<request, buffer, key, host, answers, result>>
    BY <1>1 DEF handshake
  <2>2. HandshakeTypes' /\ Begun(buffer)'
    BY <1>0, <1>1, <2>1 DEF HandshakeTypes, Begun
  <2>3. KeyFirst' <=> KeyFirst
    BY <2>1 DEF KeyFirst
  <2>4. AnswersKey'
    BY <1>0, <2>1, <2>3 DEF AnswersKey
  <2> QED
    BY <2>2, <2>4 DEF HandshakeInv
<1>2. CASE Handshake
  <2>1. PICK r \in 0 .. Len(request) - Len(buffer) :
          buffer' = Text(r) /\ \E n \in 1 .. 2 : Answer(Text(r), n)
    BY <1>2 DEF Handshake
  <2>2. PICK n \in 1 .. 2 : Answer(Text(r), n)
    BY <2>1
  <2>3. Begun(Text(r)) /\ UNCHANGED request
    BY <1>0, <1>2, TextBegun DEF Text, Handshake
  <2>4. Begun(buffer)' /\ request' \in Requests /\ buffer' \in Seq(Pieces)
    BY <1>0, <2>1, <2>3 DEF Begun, HandshakeTypes
  <2>5. /\ key' \in Seq(Pieces) /\ host' \in Seq(Pieces) /\ answers' \in Seq(Seq(Pieces))
        /\ result' \in {"none", "progress", "error", "success"} /\ down' \in BOOLEAN
        /\ AnswersKey'
    BY <1>0, <2>2, <2>3, AnswerKept
  <2> QED
    BY <2>4, <2>5 DEF HandshakeInv, HandshakeTypes
<1>3. CASE HandshakeNoAnswer
  <2>1. PICK r \in 0 .. Len(request) - Len(buffer) :
          /\ buffer' = Text(r)
          /\ result' = IF r = 0 THEN "error" ELSE "progress"
          /\ down' = (down \/ Len(Text(r)) >= 4)
    BY <1>3 DEF HandshakeNoAnswer
  <2>2. UNCHANGED <<request, key, host, answers>>
    BY <1>3 DEF HandshakeNoAnswer
  <2>3. Begun(buffer)' /\ buffer' \in Seq(Pieces)
    BY <1>0, <2>1, <2>2, TextBegun DEF Begun, Text
  <2>4. down' \in BOOLEAN
    BY <2>1, Zenon
  <2>5. result' \in {"progress", "error"}
    BY <2>1
  <2>6. AnswersKey'
    BY <2>5 DEF AnswersKey
  <2> QED
    BY <1>0, <2>2, <2>3, <2>4, <2>5, <2>6 DEF HandshakeInv, HandshakeTypes
<1>4. CASE BrowserSends \/ Break
  BY <1>0, <1>1, <1>4 DEF BrowserSends, Break, HandshakeTypes
<1>5. ASSUME NEW n \in Asks, Receive(n) PROVE HandshakeInv'
  BY <1>0, <1>1, <1>5 DEF Receive, HandshakeTypes
<1>6. ASSUME NEW n \in Sizes, Send(n) PROVE HandshakeInv'
  BY <1>0, <1>1, <1>6 DEF Send, HandshakeTypes
<1>7. CASE UNCHANGED vars
  BY <1>0, <1>1, <1>7 DEF vars, HandshakeTypes
<1> QED
  BY <1>2, <1>3, <1>4, <1>5, <1>6, <1>7 DEF Next

LEMMA HandshakeInit == Init => HandshakeInv
<1> SUFFICES ASSUME Init PROVE HandshakeInv
  OBVIOUS
<1>1. Len(<<>>) = 0 /\ request \in Seq(Pieces) /\ Len(request) \in Nat
  BY EmptySeq, RequestTyped, LenProperties DEF Init
<1>2. Begun(buffer)
  BY <1>1, EmptySeq DEF Init, Begun
<1>3. HandshakeTypes
  <2>1. <<>> \in Seq(Pieces) /\ <<>> \in Seq(Seq(Pieces))
    BY EmptySeq
  <2> QED
    BY <2>1 DEF Init, HandshakeTypes
<1>4. AnswersKey
  BY DEF Init, AnswersKey
<1> QED
  BY <1>2, <1>3, <1>4 DEF HandshakeInv

\* For any request, however it is cut: a handshake that succeeds has answered with the
\* browser's key, whole unless a Host line comes before it.
THEOREM KeySafe == Spec => []AnswersKey
<1>1. HandshakeInv => AnswersKey
  BY DEF HandshakeInv
<1> QED
  BY <1>1, HandshakeInit, HandshakeNext, PTL DEF Spec

-----------------------------------------------------------------------------
(* The frames of the browser.                                              *)

\* The types of what decides which bytes are right.
Types ==
  /\ frames \in Seq([length : Lengths, at : Nat])
  /\ taken \in Nat
  /\ packet \in [length : Nat, pos : Nat, frame : 0 .. Len(frames)]
  /\ smooth \in BOOLEAN /\ intact \in BOOLEAN

\* The frames come after the request, one after the other.
Ordered ==
  /\ \A i \in DOMAIN frames : Len(request) <= frames[i].at
  /\ \A i, j \in DOMAIN frames : i < j => EndOf(frames[i]) <= frames[j].at

\* Until Handshake succeeds only it has read, and there are no frames.
Waiting == result # "success" => frames = <<>> /\ taken = Len(buffer)

\* m_packet is of a frame, and its position is that of the stream in the frame's data,
\* at the mask's first byte unless the data is over; or nothing was read yet but what
\* Handshake took of the request.
InStep ==
  \/ packet.frame = 0 /\ packet.length = 0 /\ packet.pos = 0 /\ taken = Len(buffer)
  \/ /\ packet.frame # 0
     /\ packet.length = frames[packet.frame].length
     /\ taken = DataAt(frames[packet.frame]) + packet.pos
     /\ packet.pos <= packet.length
     /\ packet.pos = packet.length \/ packet.pos % 4 = 0

FramesInv == Types /\ Ordered /\ Waiting /\ (smooth => intact /\ InStep)

\* Where a frame's data begins, and where it ends.
LEMMA FramePlaces ==
  ASSUME NEW f, f \in [length : Nat, at : Nat]
  PROVE  /\ DataAt(f) \in Nat /\ EndOf(f) = DataAt(f) + f.length
         /\ EndOf(f) \in Nat /\ f.at < DataAt(f) /\ DataAt(f) <= EndOf(f)
         /\ f.length < 126 =>
              /\ DataAt(f) = f.at + 6 /\ HostOrder(f.length) = f.length
              /\ Extension(Code(f.length)) = 0
<1>1. \A n \in Nat : Extension(Code(n)) \in Nat /\ (n < 126 => Extension(Code(n)) = 0 /\ HostOrder(n) = n)
  BY DEF Extension, Code, HostOrder
<1>2. f.length \in Nat /\ f.at \in Nat
  OBVIOUS
<1>3. Extension(Code(f.length)) \in Nat
      /\ (f.length < 126 => Extension(Code(f.length)) = 0 /\ HostOrder(f.length) = f.length)
  BY <1>1, <1>2
<1>4. DataAt(f) = f.at + 2 + Extension(Code(f.length)) + 4 /\ EndOf(f) = DataAt(f) + f.length
  BY DEF DataAt, EndOf
<1> QED
  BY <1>2, <1>3, <1>4

\* The stream has not begun.
LEMMA FramesInit == Init => FramesInv
<1> SUFFICES ASSUME Init PROVE FramesInv
  OBVIOUS
<1>1. Len(<<>>) = 0 /\ frames = <<>> /\ buffer = <<>> /\ taken = 0
  BY EmptySeq DEF Init
<1>2. Types
  BY <1>1 DEF Init, Types
<1>3. Ordered
  BY <1>1 DEF Ordered
<1>4. Waiting /\ InStep
  BY <1>1 DEF Init, Waiting, InStep
<1> QED
  BY <1>2, <1>3, <1>4 DEF Init, FramesInv

\* The frames' lengths, as numbers.
LEMMA FrameTyped ==
  ASSUME Types, NEW i \in DOMAIN frames
  PROVE  i \in 1 .. Len(frames) /\ frames[i] \in [length : Nat, at : Nat]
<1>1. frames \in Seq([length : Lengths, at : Nat])
  BY DEF Types
<1>2. DOMAIN frames = 1 .. Len(frames)
  BY <1>1
<1>3. i \in 1 .. Len(frames)
  BY <1>2
<1>4. frames[i] \in [length : Lengths, at : Nat]
  <2> DEFINE F == [length : Lengths, at : Nat]
  <2>1. frames \in Seq(F)
    BY <1>1
  <2> HIDE DEF F
  <2>2. frames[i] \in F
    BY <1>3, <2>1
  <2> QED
    BY <2>2 DEF F
<1> QED
  BY <1>3, <1>4, Numbers

\* What the browser has written is no less than the request, and than any frame.
LEMMA WrittenAll ==
  ASSUME Types, Ordered, Len(request) \in Nat
  PROVE  /\ Written \in Nat /\ Len(request) <= Written
         /\ \A i \in DOMAIN frames : EndOf(frames[i]) <= Written
<1>1. CASE frames = <<>>
  BY <1>1 DEF Written
<1>2. CASE frames # <<>>
  <2> DEFINE m == Len(frames)
  <2>1. m \in DOMAIN frames /\ m \in Nat /\ \A i \in DOMAIN frames : i = m \/ i < m
    <3>1. frames \in Seq([length : Lengths, at : Nat])
      BY DEF Types
    <3> QED
      BY <1>2, <3>1
  <2>2. Written = EndOf(frames[m])
    BY <1>2 DEF Written
  <2> HIDE DEF m
  <2>3. frames[m] \in [length : Nat, at : Nat] /\ Len(request) <= frames[m].at
    BY <2>1, FrameTyped DEF Ordered
  <2>4. EndOf(frames[m]) \in Nat /\ frames[m].at < EndOf(frames[m]) /\ frames[m].at \in Nat
    <3>1. frames[m].at \in Nat
      BY <2>3
    <3> QED
      BY <2>3, <3>1, FramePlaces
  <2>5. ASSUME NEW i \in DOMAIN frames PROVE EndOf(frames[i]) <= Written
    <3>1. CASE i = m
      BY <2>2, <2>4, <3>1
    <3>2. CASE i < m
      <4>1. EndOf(frames[i]) <= frames[m].at
        BY <2>1, <3>2 DEF Ordered
      <4>2. EndOf(frames[i]) \in Nat
        BY FrameTyped, FramePlaces
      <4> QED
        BY <2>2, <2>4, <4>1, <4>2
    <3> QED
      BY <2>1, <3>1, <3>2
  <2> QED
    BY <2>2, <2>3, <2>4, <2>5
<1> QED
  BY <1>1, <1>2

\* A frame that is added at the end of the stream changes none of those before it.
LEMMA FramesGrow ==
  ASSUME FramesInv, Len(request) \in Nat, NEW n \in Lengths, result = "success",
         frames' = Append(frames, [length |-> n, at |-> Written]),
         UNCHANGED <<stream, request, buffer, result>>
  PROVE  FramesInv'
<1>0. Types /\ Ordered /\ Written \in Nat /\ Len(request) <= Written
      /\ \A i \in DOMAIN frames : EndOf(frames[i]) <= Written
  BY WrittenAll DEF FramesInv
<1> DEFINE F == [length : Lengths, at : Nat]
           f == [length |-> n, at |-> Written]
<1>1. frames \in Seq(F) /\ f \in F /\ f.at = Written
  BY <1>0 DEF Types
<1>2. /\ frames' \in Seq(F) /\ Len(frames') = Len(frames) + 1 /\ frames'[Len(frames) + 1] = f
      /\ DOMAIN frames = 1 .. Len(frames) /\ DOMAIN frames' = 1 .. Len(frames) + 1
      /\ \A i \in 1 .. Len(frames) : frames'[i] = frames[i]
      /\ Len(frames) \in Nat
  <2> HIDE DEF F, f
  <2>1. frames' = Append(frames, f)
    BY DEF f
  <2> QED
    BY <1>1, <2>1
<1> HIDE DEF f
<1>3. Types'
  BY <1>0, <1>2 DEF Types, stream
<1>4. Ordered'
  <2>1. ASSUME NEW i \in DOMAIN frames' PROVE Len(request) <= frames'[i].at
    BY <1>0, <1>1, <1>2 DEF Ordered
  <2>2. ASSUME NEW i \in DOMAIN frames', NEW j \in DOMAIN frames', i < j
        PROVE  EndOf(frames'[i]) <= frames'[j].at
    <3>1. i \in DOMAIN frames /\ frames'[i] = frames[i]
      BY <1>2, <2>2
    <3>2. CASE j \in DOMAIN frames
      BY <1>0, <1>2, <2>2, <3>1, <3>2 DEF Ordered
    <3>3. CASE j = Len(frames) + 1
      BY <1>0, <1>1, <1>2, <3>1, <3>3
    <3> QED
      BY <1>2, <3>2, <3>3
  <2> QED
    BY <2>1, <2>2 DEF Ordered, EndOf, DataAt
<1>5. InStep => InStep'
  BY <1>2 DEF FramesInv, Types, InStep, stream, DataAt
<1> QED
  BY <1>3, <1>4, <1>5 DEF FramesInv, Waiting, stream

\* What recv() returns is a number of bytes, no more than it was asked for.
LEMMA RecvBound ==
  ASSUME NEW n \in Nat, NEW at, NEW r \in Recv(n, at)
  PROVE  r \in Nat /\ r <= n
  BY DEF Recv

\* The frame at a place begins there.
LEMMA FrameFound ==
  ASSUME NEW at, FrameAt(at) # 0
  PROVE  FrameAt(at) \in DOMAIN frames /\ frames[FrameAt(at)].at = at
<1>1. PICK i \in DOMAIN frames : frames[i].at = at
  BY DEF FrameAt
<1> QED
  BY <1>1 DEF FrameAt

\* What ReadHeader may leave: m_packet as it was, the header of the frame that is
\* there, or a header without the mask of a frame, that is not whole if a frame begins
\* there.
LEMMA Headers ==
  ASSUME Types, NEW h \in ReadHeader(taken)
  PROVE  /\ h.read \in Nat /\ h.packet \in [length : Nat, pos : Nat, frame : 0 .. Len(frames)]
         /\ \/ h.packet = packet /\ h.read = 0 /\ ~h.whole
            \/ LET f == h.packet.frame IN
               /\ f \in DOMAIN frames /\ frames[f].at = taken
               /\ h.packet.pos = 0 /\ h.packet.length = HostOrder(frames[f].length)
               /\ h.read = 2 + Extension(Code(frames[f].length)) + 4
            \/ h.read # 0 /\ (h.whole => FrameAt(taken) = 0)
<1> DEFINE i == FrameAt(taken)
           size == 2 + Extension(Code(frames[i].length)) + 4
           Pk(n, f) == [length |-> n, pos |-> 0, frame |-> f]
<1>0. i # 0 => i \in DOMAIN frames /\ i \in 1 .. Len(frames) /\ frames[i].at = taken /\ frames[i] \in [length : Nat, at : Nat]
  BY FrameFound, FrameTyped
<1>1. \A n \in Nat : HostOrder(n) \in Nat /\ Code(n) \in Nat /\ Extension(Code(n)) \in Nat
  BY DEF HostOrder, Code, Extension
<1> HIDE DEF i
<1>2. CASE h = [packet |-> packet, read |-> 0, whole |-> FALSE]
  BY <1>2 DEF Types
<1>3. CASE i # 0 /\ h = [packet |-> Pk(HostOrder(frames[i].length), i), read |-> size, whole |-> TRUE]
  <2>1. HostOrder(frames[i].length) \in Nat /\ Extension(Code(frames[i].length)) \in Nat
    BY <1>0, <1>1, <1>3
  <2>2. h.packet = Pk(HostOrder(frames[i].length), i) /\ h.read = size
    BY <1>3
  <2>3. h.packet.frame = i /\ h.packet.pos = 0 /\ h.packet.length = HostOrder(frames[i].length)
    BY <2>2
  <2>4. h.packet \in [length : Nat, pos : Nat, frame : 0 .. Len(frames)] /\ h.read \in Nat
    BY <1>0, <1>3, <2>1, <2>2 DEF Types
  <2> QED
    BY <1>0, <1>3, <2>2, <2>3, <2>4
<1>4. CASE i # 0 /\ h = [packet |-> Pk(Code(frames[i].length), 0), read |-> 2, whole |-> FALSE]
  <2>1. Code(frames[i].length) \in Nat
    BY <1>0, <1>1, <1>4
  <2>2. h.packet = Pk(Code(frames[i].length), 0) /\ h.read = 2 /\ ~h.whole
    BY <1>4
  <2>3. h.packet \in [length : Nat, pos : Nat, frame : 0 .. Len(frames)] 
    BY <2>1, <2>2 DEF Types
  <2> QED
    BY <2>2, <2>3
<1>5. ASSUME NEW n \in Garbage, NEW r \in Recv(14, taken) \ {0},
             h = [packet |-> Pk(n, 0), read |-> r, whole |-> i = 0]
      PROVE  h.read \in Nat /\ h.packet \in [length : Nat, pos : Nat, frame : 0 .. Len(frames)]
             /\ h.read # 0 /\ (h.whole => i = 0)
  <2>1. r \in Nat /\ r # 0 /\ n \in Nat
    BY RecvBound, Numbers
  <2>2. h.packet = Pk(n, 0) /\ h.read = r
    BY <1>5
  <2>3. h.whole => i = 0
    <3>1. h.whole = (i = 0)
      BY <1>5
    <3> QED
      BY <3>1, Zenon
  <2> QED
    BY <2>1, <2>2, <2>3 DEF Types
<1>6. \/ h = [packet |-> packet, read |-> 0, whole |-> FALSE]
      \/ i # 0 /\ h = [packet |-> Pk(HostOrder(frames[i].length), i), read |-> size, whole |-> TRUE]
      \/ i # 0 /\ h = [packet |-> Pk(Code(frames[i].length), 0), read |-> 2, whole |-> FALSE]
      \/ \E n \in Garbage : \E r \in Recv(14, taken) \ {0} :
           h = [packet |-> Pk(n, 0), read |-> r, whole |-> i = 0]
  BY DEF ReadHeader, i
<1> QED
  BY <1>2, <1>3, <1>4, <1>5, <1>6 DEF i

\* The frame that a place is in is the only one it is in.
LEMMA OneFrame ==
  ASSUME Types, Ordered, NEW i \in DOMAIN frames, NEW j \in DOMAIN frames, NEW at \in Nat,
         frames[i].at <= at, at < EndOf(frames[i]), frames[j].at <= at, at < EndOf(frames[j])
  PROVE  i = j
<1>1. frames[i].at \in Nat /\ EndOf(frames[i]) \in Nat /\ frames[j].at \in Nat /\ EndOf(frames[j]) \in Nat
      /\ i \in Nat /\ j \in Nat
  <2>1. frames[i] \in [length : Nat, at : Nat] /\ frames[j] \in [length : Nat, at : Nat]
        /\ i \in 1 .. Len(frames) /\ j \in 1 .. Len(frames)
    BY FrameTyped
  <2> QED
    BY <2>1, FramePlaces
<1>2. ~(i < j) /\ ~(j < i)
  BY <1>1 DEF Ordered
<1> QED
  BY <1>1, <1>2

\* What Receive reads of a frame, if it relies on it, it reads with that frame's mask,
\* and with m_packet at its place in the stream.
LEMMA ReadInStep ==
  ASSUME Types, Ordered, InStep, Len(buffer) <= Len(request), {Len(buffer), Len(request)} \subseteq Nat,
         NEW n \in Nat, n # 0,
         NEW h \in IF packet.pos >= packet.length THEN ReadHeader(taken)
                   ELSE {[packet |-> packet, read |-> 0, whole |-> TRUE]},
         h.whole,
         NEW k \in DOMAIN frames, frames[k].length < 126,
         frames[k].at <= taken, taken + h.read + n <= EndOf(frames[k])
  PROVE  /\ h.read \in Nat /\ h.packet \in [length : Nat, pos : Nat, frame : 0 .. Len(frames)]
         /\ h.packet.frame = k
         /\ h.packet.length = frames[k].length
         /\ taken + h.read = DataAt(frames[k]) + h.packet.pos
         /\ h.packet.pos % 4 = 0
<1>1. frames[k] \in [length : Nat, at : Nat] /\ frames[k].at \in Nat /\ frames[k].length \in Nat
      /\ k \in 1 .. Len(frames)
  BY FrameTyped
<1>2. /\ DataAt(frames[k]) \in Nat /\ EndOf(frames[k]) = DataAt(frames[k]) + frames[k].length
      /\ EndOf(frames[k]) \in Nat /\ frames[k].at < DataAt(frames[k])
      /\ DataAt(frames[k]) = frames[k].at + 6 /\ HostOrder(frames[k].length) = frames[k].length
      /\ Extension(Code(frames[k].length)) = 0
  BY <1>1, FramePlaces
<1>3. taken \in Nat /\ packet.pos \in Nat /\ packet.length \in Nat /\ packet.frame \in 0 .. Len(frames)
      /\ packet \in [length : Nat, pos : Nat, frame : 0 .. Len(frames)]
  BY DEF Types
<1> DEFINE p == packet.frame
<1>4. ASSUME p # 0
      PROVE  /\ p \in DOMAIN frames /\ packet.length = frames[p].length
             /\ taken = DataAt(frames[p]) + packet.pos
             /\ packet.pos <= packet.length /\ (packet.pos = packet.length \/ packet.pos % 4 = 0)
             /\ frames[p].at \in Nat /\ DataAt(frames[p]) \in Nat /\ frames[p].at < DataAt(frames[p])
             /\ EndOf(frames[p]) = DataAt(frames[p]) + frames[p].length
  <2>1. p \in DOMAIN frames
    <3>1. frames \in Seq([length : Lengths, at : Nat])
      BY DEF Types
    <3> QED
      BY <1>3, <1>4, <3>1
  <2>2. frames[p] \in [length : Nat, at : Nat] /\ frames[p].at \in Nat
    BY <2>1, FrameTyped
  <2> QED
    BY <1>4, <2>1, <2>2, FramePlaces DEF InStep
<1> HIDE DEF p
<1>5. CASE packet.pos < packet.length
  <2>1. h.packet = packet /\ h.read = 0
    BY <1>3, <1>5
  <2>2. p # 0
    BY <1>3, <1>5 DEF InStep, p
  <2>3. frames[p].at <= taken /\ taken < EndOf(frames[p])
    BY <1>3, <1>4, <1>5, <2>2
  <2>4. taken < EndOf(frames[k])
    BY <1>2, <1>3, <2>1
  <2>5. p = k
    BY <1>3, <1>4, <2>2, <2>3, <2>4, OneFrame
  <2>6. packet.pos % 4 = 0 /\ packet.length = frames[p].length /\ taken = DataAt(frames[p]) + packet.pos
    BY <1>3, <1>4, <1>5, <2>2
  <2> QED
    BY <1>3, <2>1, <2>5, <2>6 DEF p
<1>6. CASE packet.pos >= packet.length
  <2>1. h \in ReadHeader(taken)
    BY <1>6
  <2>2. /\ h.read \in Nat /\ h.packet \in [length : Nat, pos : Nat, frame : 0 .. Len(frames)]
        /\ \/ LET f == h.packet.frame IN
              /\ f \in DOMAIN frames /\ frames[f].at = taken
              /\ h.packet.pos = 0 /\ h.packet.length = HostOrder(frames[f].length)
              /\ h.read = 2 + Extension(Code(frames[f].length)) + 4
           \/ FrameAt(taken) = 0
    BY <2>1, Headers
  <2>3. taken < EndOf(frames[k])
    BY <1>2, <1>3, <2>2
  <2>4. frames[k].at = taken
    <3>1. CASE p = 0
      <4>1. taken = Len(buffer) /\ Len(request) <= frames[k].at
        BY <3>1 DEF InStep, Ordered, p
      <4> QED
        BY <1>1, <1>3, <4>1
    <3>2. CASE p # 0
      <4>1. taken = EndOf(frames[p]) /\ frames[p].at < taken
        BY <1>3, <1>4, <1>6, <3>2
      <4>2. p # k
        BY <1>3, <2>3, <4>1
      <4>3. ~(k < p)
        <5>1. SUFFICES ASSUME k < p PROVE FALSE
          OBVIOUS
        <5>2. EndOf(frames[k]) <= frames[p].at
          BY <1>4, <3>2, <5>1 DEF Ordered
        <5>3. frames[p].at \in Nat
          BY <1>4, <3>2
        <5> QED
          BY <1>2, <1>3, <2>3, <4>1, <5>2, <5>3
      <4>4. p < k
        BY <1>1, <1>3, <4>2, <4>3 DEF p
      <4>5. EndOf(frames[p]) <= frames[k].at
        BY <1>4, <3>2, <4>4 DEF Ordered
      <4> QED
        BY <1>1, <1>3, <4>1, <4>5
    <3> QED
      BY <3>1, <3>2
  <2>5. FrameAt(taken) # 0
    <3>1. FrameAt(taken) = CHOOSE i \in DOMAIN frames : frames[i].at = taken
      BY <2>4 DEF FrameAt
    <3>2. FrameAt(taken) \in DOMAIN frames
      BY <2>4, <3>1
    <3>3. FrameAt(taken) \in 1 .. Len(frames)
      BY <3>2, FrameTyped
    <3> QED
      BY <3>3
  <2> DEFINE f == h.packet.frame
  <2>6. /\ f \in DOMAIN frames /\ frames[f].at = taken
        /\ h.packet.pos = 0 /\ h.packet.length = HostOrder(frames[f].length)
        /\ h.read = 2 + Extension(Code(frames[f].length)) + 4
    BY <2>2, <2>5
  <2> HIDE DEF f
  <2>7. frames[f].at < EndOf(frames[f])
    <3>1. frames[f] \in [length : Nat, at : Nat] /\ frames[f].at \in Nat
      BY <2>6, FrameTyped
    <3>2. frames[f].at < DataAt(frames[f]) /\ DataAt(frames[f]) <= EndOf(frames[f])
          /\ DataAt(frames[f]) \in Nat /\ EndOf(frames[f]) \in Nat
      BY <3>1, FramePlaces
    <3> QED
      BY <3>1, <3>2
  <2>8. f = k
    <3>1. frames[f].at <= taken /\ taken < EndOf(frames[f])
      BY <1>3, <2>6, <2>7
    <3> QED
      BY <1>3, <2>3, <2>6, <3>1, OneFrame
  <2>9. h.packet.pos % 4 = 0 /\ h.packet.length = frames[k].length
        /\ taken + h.read = DataAt(frames[k]) + h.packet.pos
    BY <1>1, <1>2, <1>3, <2>4, <2>6, <2>8
  <2> QED
    BY <2>2, <2>8, <2>9 DEF f
<1> QED
  BY <1>3, <1>5, <1>6

\* One Receive.
LEMMA ReceiveInStep ==
  ASSUME FramesInv, Len(buffer) <= Len(request), {Len(buffer), Len(request)} \subseteq Nat,
         NEW n \in Asks, Receive(n)
  PROVE  FramesInv'
<1>0. n \in Nat /\ n # 0 /\ Types /\ Ordered
  BY Numbers DEF FramesInv
<1>1. PICK h \in IF packet.pos >= packet.length THEN ReadHeader(taken)
                 ELSE {[packet |-> packet, read |-> 0, whole |-> TRUE]} :
        \E r \in Recv(n, taken + h.read) :
          /\ taken' = taken + h.read + r
          /\ packet' = Moved(h.packet, r)
          /\ smooth' = (smooth /\ Smooth(h, n, r))
          /\ intact' = (intact /\ (r = 0 \/ Right(h.packet, taken + h.read, r)))
  BY DEF Receive
<1>2. PICK r \in Recv(n, taken + h.read) :
        /\ taken' = taken + h.read + r
        /\ packet' = Moved(h.packet, r)
        /\ smooth' = (smooth /\ Smooth(h, n, r))
        /\ intact' = (intact /\ (r = 0 \/ Right(h.packet, taken + h.read, r)))
  BY <1>1
<1>3. r \in Nat /\ r <= n
  BY <1>0, RecvBound
<1>4. UNCHANGED <<frames, request, buffer, result>> /\ result = "success"
  BY DEF Receive, handshake
<1>5. /\ h.read \in Nat /\ h.packet \in [length : Nat, pos : Nat, frame : 0 .. Len(frames)]
      /\ (h.read = 0 => h.packet = packet)
  <2>1. CASE packet.pos >= packet.length
    <3>1. h \in ReadHeader(taken)
      BY <2>1
    <3>2. \A m \in Nat : Extension(Code(m)) \in Nat
      BY DEF Extension, Code
    <3>3. \A f \in DOMAIN frames : 2 + Extension(Code(frames[f].length)) + 4 # 0
      <4>1. \A f \in DOMAIN frames : frames[f].length \in Nat
        BY <1>0, FrameTyped
      <4>2. \A f \in DOMAIN frames : Extension(Code(frames[f].length)) \in Nat
        BY <3>2, <4>1
      <4> QED
        BY <4>2
    <3> QED
      BY <1>0, <3>1, <3>3, Headers
  <2>2. CASE ~(packet.pos >= packet.length)
    BY <1>0, <2>2 DEF Types
  <2> QED
    BY <2>1, <2>2
<1>6. smooth' \in BOOLEAN /\ intact' \in BOOLEAN
  BY <1>2, Zenon
<1>7. Types'
  <2>1. packet' \in [length : Nat, pos : Nat, frame : 0 .. Len(frames)]
    BY <1>2, <1>3, <1>5 DEF Moved
  <2>2. taken' \in Nat
    BY <1>0, <1>2, <1>3, <1>5 DEF Types
  <2> QED
    BY <1>0, <1>4, <1>6, <2>1, <2>2 DEF Types
<1>8. Ordered' /\ Waiting'
  BY <1>0, <1>4 DEF Ordered, Waiting, EndOf, DataAt
<1>9. ASSUME smooth' PROVE intact' /\ InStep'
  <2>1. smooth /\ Smooth(h, n, r)
    BY <1>2, <1>9, Zenon
  <2>2. intact /\ InStep
    BY <2>1 DEF FramesInv
  <2>3. CASE h.read = 0 /\ r = 0
    <3>1. packet' = packet /\ taken' = taken
      BY <1>0, <1>2, <1>5, <2>3 DEF Moved, Types
    <3>2. InStep'
      BY <1>4, <2>2, <3>1 DEF InStep, DataAt
    <3> QED
      BY <1>2, <2>2, <2>3, <3>2, Zenon
  <2>4. CASE ~(h.read = 0 /\ r = 0)
    <3> DEFINE at == taken + h.read
    <3>1. PICK k \in DOMAIN frames :
            /\ h.whole /\ frames[k].length < 126
            /\ frames[k].at <= taken /\ at + n <= EndOf(frames[k])
            /\ r % 4 = 0 \/ at + r = EndOf(frames[k])
      BY <2>1, <2>4 DEF Smooth
    <3>2. /\ h.packet.frame = k
          /\ h.packet.length = frames[k].length
          /\ at = DataAt(frames[k]) + h.packet.pos
          /\ h.packet.pos % 4 = 0
      BY <1>0, <2>2, <3>1, ReadInStep
    <3>3. k \in 1 .. Len(frames) /\ frames[k].length \in Nat /\ DataAt(frames[k]) \in Nat
          /\ EndOf(frames[k]) = DataAt(frames[k]) + frames[k].length
      <4>1. k \in 1 .. Len(frames) /\ frames[k] \in [length : Nat, at : Nat] /\ frames[k].length \in Nat
        BY <1>0, FrameTyped
      <4> QED
        BY <4>1, FramePlaces
    <3>4. taken \in Nat /\ at \in Nat /\ h.packet.pos \in Nat
      BY <1>0, <1>5 DEF Types
    <3>5. taken' = at + r
      BY <1>2
    <3> HIDE DEF at
    <3>6. /\ at >= DataAt(frames[k]) /\ at - DataAt(frames[k]) = h.packet.pos
          /\ at + r <= EndOf(frames[k]) /\ h.packet.pos + r <= frames[k].length
          /\ (at + r = EndOf(frames[k]) => h.packet.pos + r = frames[k].length)
      <4> DEFINE d == DataAt(frames[k])
                 l == frames[k].length
                 e == EndOf(frames[k])
                 q == h.packet.pos
      <4>1. d \in Nat /\ l \in Nat /\ e = d + l /\ q \in Nat /\ at = d + q /\ at + n <= e
        BY <3>1, <3>2, <3>3, <3>4
      <4> HIDE DEF d, l, e, q
      <4>2. /\ at >= d /\ at - d = q /\ at + r <= e /\ q + r <= l
            /\ (at + r = e => q + r = l)
        BY <1>0, <1>3, <4>1
      <4> QED
        BY <4>2 DEF d, l, e, q
    <3>7. Right(h.packet, at, r)
      BY <3>2, <3>3, <3>6 DEF Right
    <3>8. intact'
      BY <1>2, <2>2, <3>7, Zenon DEF at
    <3>9. packet'.frame = k /\ packet'.length = frames[k].length /\ packet'.pos = h.packet.pos + r
      <4>1. packet' = [h.packet EXCEPT !.pos = h.packet.pos + r]
        BY <1>2 DEF Moved
      <4> QED
        BY <1>5, <3>2, <4>1
    <3>10. packet'.pos % 4 = 0 \/ packet'.pos = packet'.length
      <4>1. \A q, t \in Nat : q % 4 = 0 /\ t % 4 = 0 => (q + t) % 4 = 0
        OBVIOUS
      <4> QED
        BY <1>3, <3>1, <3>2, <3>4, <3>6, <3>9, <4>1
    <3>11. taken' = DataAt(frames[k]) + packet'.pos /\ packet'.pos <= packet'.length
      BY <1>3, <3>2, <3>3, <3>4, <3>5, <3>6, <3>9
    <3>12. InStep'
      BY <1>4, <3>3, <3>9, <3>10, <3>11 DEF InStep, DataAt
    <3> QED
      BY <3>8, <3>12
  <2> QED
    BY <2>3, <2>4
<1> QED
  BY <1>7, <1>8, <1>9 DEF FramesInv

\* One Handshake: what it took is at the begin of the stream.
LEMMA HandshakeTakes ==
  ASSUME FramesInv, Len(buffer') \in Nat, Handshake \/ HandshakeNoAnswer
  PROVE  FramesInv' /\ frames = <<>> /\ taken' = Len(buffer')
<1>1. result # "success" /\ UNCHANGED <<request, frames, packet, smooth, intact>> /\ taken' = Len(buffer')
  BY DEF Handshake, HandshakeNoAnswer
<1>2. frames = <<>> /\ Types /\ Ordered
  BY <1>1 DEF FramesInv, Waiting
<1>3. Types'
  BY <1>1, <1>2 DEF Types
<1>4. Ordered'
  BY <1>1, <1>2 DEF Ordered
<1>5. InStep => InStep'
  <2>1. packet.frame = 0
    <3>1. packet.frame \in 0 .. Len(frames) /\ Len(frames) = 0
      BY <1>2, EmptySeq DEF Types
    <3> QED
      BY <3>1
  <2> QED
    BY <1>1, <2>1 DEF InStep
<1> QED
  BY <1>1, <1>2, <1>3, <1>4, <1>5 DEF FramesInv, Waiting

LEMMA FramesNext == FramesInv /\ HandshakeInv /\ HandshakeInv' /\ [Next]_vars => FramesInv'
<1> SUFFICES ASSUME FramesInv, HandshakeInv, HandshakeInv', [Next]_vars PROVE FramesInv'
  OBVIOUS
<1>0. /\ Len(buffer) <= Len(request) /\ {Len(buffer), Len(request)} \subseteq Nat
      /\ Len(buffer') \in Nat
  <2>1. buffer \in Seq(Pieces) /\ buffer' \in Seq(Pieces) /\ request \in Seq(Pieces)
        /\ Len(buffer) <= Len(request)
    BY RequestTyped DEF HandshakeInv, HandshakeTypes, Begun
  <2> QED
    BY <2>1, LenProperties
<1>1. ASSUME UNCHANGED <<request, buffer, result, frames, stream>> PROVE FramesInv'
  BY <1>1 DEF FramesInv, Types, Ordered, Waiting, InStep, DataAt, EndOf, stream
<1>2. CASE BrowserSends
  <2>1. PICK n \in Lengths : frames' = Append(frames, [length |-> n, at |-> Written])
    BY <1>2 DEF BrowserSends
  <2>2. UNCHANGED <<stream, request, buffer, result>> /\ result = "success"
    BY <1>2 DEF BrowserSends, handshake
  <2> QED
    BY <1>0, <2>1, <2>2, FramesGrow
<1>3. ASSUME NEW n \in Asks, Receive(n) PROVE FramesInv'
  BY <1>0, <1>3, ReceiveInStep
<1>4. CASE Handshake \/ HandshakeNoAnswer
  BY <1>0, <1>4, HandshakeTakes
<1>5. CASE Break \/ UNCHANGED vars
  BY <1>1, <1>5 DEF Break, vars, handshake
<1>6. ASSUME NEW n \in Sizes, Send(n) PROVE FramesInv'
  BY <1>1, <1>6 DEF Send, handshake
<1> QED
  BY <1>2, <1>3, <1>4, <1>5, <1>6 DEF Next

\* For any requests and however they are cut, any lengths of frames and any asks of the
\* program, what it gets is intact as long as Receive gets what it relies on.
THEOREM DataSafe == Spec => []DataIntact
<1>1. FramesInv => DataIntact
  BY DEF FramesInv, DataIntact
<1> QED
  BY <1>1, HandshakeInit, HandshakeNext, FramesInit, FramesNext, PTL DEF Spec

-----------------------------------------------------------------------------
(* The frames of the library.                                              *)

\* The headers CreateHeader made.
Headed == out \in Seq({CreateHeader(n) : n \in Sizes})

\* The bytes of a size, in either width.
LEMMA LittleByte ==
  ASSUME NEW n \in Nat, NEW w \in {2, 8}
  PROVE  /\ DOMAIN LittleEndian(n, w) = 1 .. w
         /\ \A i \in 1 .. w :
              LittleEndian(n, w)[i] = IF i > 4 THEN 0 ELSE (n \div Place[i]) % 256
  BY SMT DEF LittleEndian

LEMMA Places == Place[1] = 1 /\ Place[2] = 256 /\ Place[3] = 65536 /\ Place[4] = 16777216
  BY SMT DEF Place

\* The same bytes in network order.
LEMMA BigBytes ==
  ASSUME NEW n \in Nat, NEW w \in {0, 2, 8}
  PROVE  LET e == BigEndian(n, w) IN
         /\ DOMAIN e = 1 .. w
         /\ \A i \in 1 .. w : e[i] = LittleEndian(n, w)[w + 1 - i]
  BY DEF BigEndian

LEMMA SizeRead ==
  ASSUME NEW n \in Nat, n <= 2147483647
  PROVE  ReadRight(CreateHeader(n)) <=> n <= 125 \/ (126 < n /\ n < 65535 /\ n % 256 = n \div 256)
<1> DEFINE h == CreateHeader(n)
<1>1. h.size = n /\ h.extended = LittleEndian(n, Extended(n))
      /\ h.code = IF Extended(n) = 0 THEN n ELSE IF Extended(n) = 2 THEN 126 ELSE 127
  BY DEF CreateHeader
<1>2. CASE n <= 125
  <2>1. Extended(n) = 0 /\ Code(n) = n /\ Extension(n) = 0
    BY <1>2 DEF Extended, Code, Extension
  <2>2. LittleEndian(n, 0) = BigEndian(n, 0)
    BY DEF LittleEndian, BigEndian
  <2> QED
    BY <1>1, <1>2, <2>1, <2>2 DEF ReadRight
<1>3. CASE n = 126
  <2>1. Extended(n) = 0 /\ Code(n) = 126 /\ Extension(126) = 2
    BY <1>3 DEF Extended, Code, Extension
  <2>2. DOMAIN LittleEndian(n, 0) = 1 .. 0 /\ DOMAIN BigEndian(n, 2) = 1 .. 2
    BY SMT DEF LittleEndian, BigEndian
  <2>3. LittleEndian(n, 0) # BigEndian(n, 2)
    BY <2>2
  <2> QED
    BY <1>1, <1>3, <2>1, <2>3 DEF ReadRight
<1>4. CASE 126 < n /\ n < 65535
  <2>1. Extended(n) = 2 /\ Code(n) = 126 /\ Extension(126) = 2
    BY <1>4, SMT DEF Extended, Code, Extension
  <2>2. h.code = 126 /\ h.extended = LittleEndian(n, 2)
    BY <1>1, <2>1
  <2>3. ReadRight(h) <=> LittleEndian(n, 2) = BigEndian(n, 2)
    BY <1>1, <2>1, <2>2, SMT DEF ReadRight
  <2> DEFINE l == LittleEndian(n, 2)
             b == BigEndian(n, 2)
  <2>4. /\ DOMAIN l = 1 .. 2 /\ l[1] = n % 256 /\ l[2] = (n \div 256) % 256
        /\ DOMAIN b = 1 .. 2 /\ b[1] = l[2] /\ b[2] = l[1]
    <3>1. DOMAIN l = 1 .. 2
          /\ \A i \in 1 .. 2 : l[i] = IF i > 4 THEN 0 ELSE (n \div Place[i]) % 256
      BY LittleByte, SMT
    <3>2. DOMAIN b = 1 .. 2 /\ \A i \in 1 .. 2 : b[i] = l[2 + 1 - i]
      BY BigBytes, SMT
    <3> HIDE DEF l, b
    <3>3. n \div 1 = n
      BY SMT
    <3> QED
      BY <3>1, <3>2, <3>3, Places, SMT
  <2>5. l = b <=> l[1] = l[2]
    <3>1. l = [i \in 1 .. 2 |-> l[i]] /\ b = [i \in 1 .. 2 |-> b[i]]
      BY DEF LittleEndian, BigEndian
    <3> HIDE DEF l, b
    <3>2. l[1] = l[2] => \A i \in 1 .. 2 : l[i] = b[i]
      BY <2>4
    <3> QED
      BY <2>4, <3>1, <3>2
  <2>6. (n \div 256) % 256 = n \div 256
    BY <1>4, SMT
  <2> QED
    BY <1>4, <2>3, <2>4, <2>5, <2>6, SMT
<1>5. CASE n = 65535
  <2>1. Extended(n) = 8 /\ Code(n) = 126
    BY <1>5, SMT DEF Extended, Code
  <2> QED
    BY <1>1, <1>5, <2>1, SMT DEF ReadRight
<1>6. CASE n > 65535
  <2>1. Extended(n) = 8 /\ Code(n) = 127 /\ Extension(127) = 8
    BY <1>6, SMT DEF Extended, Code, Extension
  <2> DEFINE l == LittleEndian(n, 8)
             b == BigEndian(n, 8)
  <2>2. ReadRight(h) => l = b
    BY <1>1, <2>1 DEF ReadRight
  <2>3. /\ l[3] = (n \div 65536) % 256 /\ l[4] = (n \div 16777216) % 256
        /\ l[5] = 0 /\ l[6] = 0
        /\ b[3] = l[6] /\ b[4] = l[5]
    <3>1. \A i \in 1 .. 8 : l[i] = IF i > 4 THEN 0 ELSE (n \div Place[i]) % 256
      BY LittleByte, SMT
    <3>2. \A i \in 1 .. 8 : b[i] = l[8 + 1 - i]
      BY BigBytes, SMT
    <3> HIDE DEF l, b
    <3> QED
      BY <3>1, <3>2, Places, SMT
  <2>4. (n \div 65536) % 256 # 0 \/ (n \div 16777216) % 256 # 0
    BY <1>6, SMT
  <2>5. l # b
    BY <2>3, <2>4, SMT
  <2> QED
    BY <1>6, <2>2, <2>5, SMT
<1> QED
  BY <1>2, <1>3, <1>4, <1>5, <1>6, SMT

LEMMA HeadedInit == Init => Headed
  BY DEF Init, Headed

LEMMA HeadedNext == Headed /\ [Next]_vars => Headed'
<1> SUFFICES ASSUME Headed, [Next]_vars PROVE Headed'
  OBVIOUS
<1>1. CASE UNCHANGED out
  BY <1>1 DEF Headed
<1>2. ASSUME NEW n \in Sizes, Send(n) PROVE Headed'
  BY <1>2 DEF Send, Headed
<1>3. ASSUME NEW n \in Asks, Receive(n) PROVE UNCHANGED out
  BY <1>3 DEF Receive
<1>4. Handshake \/ HandshakeNoAnswer \/ BrowserSends \/ Break \/ UNCHANGED vars => UNCHANGED out
  BY DEF Handshake, HandshakeNoAnswer, BrowserSends, Break, vars
<1> QED
  BY <1>1, <1>2, <1>3, <1>4 DEF Next

\* Whatever int32_t the program sends, a browser reads its size right exactly below
\* 126, and for the two-byte sizes that are the same in either byte order.
THEOREM SizesSafe == Spec => []SizesRead
<1>1. Headed => SizesRead
  <2> SUFFICES ASSUME Headed, NEW i \in DOMAIN out
               PROVE  LET n == out[i].size IN
                      ReadRight(out[i]) <=> n <= 125 \/ (126 < n /\ n < 65535 /\ n % 256 = n \div 256)
    BY DEF SizesRead
  <2>1. PICK n \in Sizes : out[i] = CreateHeader(n)
    BY DEF Headed
  <2>2. out[i].size = n
    BY <2>1 DEF CreateHeader
  <2> QED
    BY <2>1, <2>2, SizeRead, SizesAssumption, SMT
<1> QED
  BY <1>1, HeadedInit, HeadedNext, PTL DEF Spec

-----------------------------------------------------------------------------
(* The types.                                                              *)

\* What recv() returns has been written.
LEMMA RecvWritten ==
  ASSUME NEW n \in Nat, NEW at, NEW r \in Recv(n, at)
  PROVE  r \in Nat /\ (r # 0 => at + r <= Written)
  BY DEF Recv

\* What ReadHeader takes has been written.
LEMMA HeaderWritten ==
  ASSUME Types, Written \in Nat, taken <= Written, NEW h \in ReadHeader(taken)
  PROVE  h.read \in Nat /\ taken + h.read <= Written
<1> DEFINE i == FrameAt(taken)
           size == 2 + Extension(Code(frames[i].length)) + 4
           Pk(n, f) == [length |-> n, pos |-> 0, frame |-> f]
<1>1. taken \in Nat /\ Written \in Nat /\ h.read \in Nat
  BY Headers DEF Types
<1> HIDE DEF i
<1>2. \/ h.read = 0
      \/ h.read = 2 /\ 2 \in Recv(2, taken)
      \/ h.read = size /\ size \in Recv(size, taken)
      \/ h.read \in Recv(14, taken)
  <2>1. \/ h = [packet |-> packet, read |-> 0, whole |-> FALSE]
        \/ /\ h = [packet |-> Pk(HostOrder(frames[i].length), i), read |-> size, whole |-> TRUE]
           /\ size \in Recv(size, taken)
        \/ /\ h = [packet |-> Pk(Code(frames[i].length), 0), read |-> 2, whole |-> FALSE]
           /\ 2 \in Recv(2, taken)
        \/ \E n \in Garbage : \E r \in Recv(14, taken) \ {0} :
             h = [packet |-> Pk(n, 0), read |-> r, whole |-> i = 0]
    BY DEF ReadHeader, i
  <2> HIDE DEF size, Pk
  <2> QED
    BY <2>1
<1> HIDE DEF size
<1>3. CASE h.read = 0
  BY <1>1, <1>3
<1>4. CASE h.read = 2 /\ 2 \in Recv(2, taken)
  BY <1>1, <1>4, RecvWritten
<1>5. CASE h.read = size /\ size \in Recv(size, taken)
  BY <1>1, <1>3, <1>5, RecvWritten
<1>6. CASE h.read \in Recv(14, taken)
  BY <1>1, <1>3, <1>6, RecvWritten
<1> QED
  BY <1>2, <1>3, <1>4, <1>5, <1>6

\* No step reads what was not written.
LEMMA TakenNext ==
  ASSUME FramesInv, HandshakeInv, HandshakeInv', taken <= Written, [Next]_vars
  PROVE  (taken <= Written)'
<1>0. Types /\ taken \in Nat /\ Written \in Nat
  <2>1. Len(request) \in Nat
    BY RequestTyped, LenProperties DEF HandshakeInv, HandshakeTypes
  <2> QED
    BY <2>1, WrittenAll DEF FramesInv, Types
<1>1. ASSUME UNCHANGED <<frames, taken, request>> PROVE (taken <= Written)'
  BY <1>1 DEF Written, EndOf, DataAt
<1>2. CASE BrowserSends
  <2>1. PICK n \in Lengths : frames' = Append(frames, [length |-> n, at |-> Written])
    BY <1>2 DEF BrowserSends
  <2> DEFINE f == [length |-> n, at |-> Written]
             F == [length : Lengths, at : Nat]
  <2>2. frames \in Seq(F) /\ f \in F /\ f \in [length : Nat, at : Nat]
    BY <1>0, Numbers DEF Types
  <2>3. frames' # <<>> /\ frames'[Len(frames')] = f
    <3> HIDE DEF F, f
    <3>1. frames' = Append(frames, f)
      BY <2>1 DEF f
    <3> QED
      BY <2>2, <3>1
  <2>4. Written' = EndOf(f)
    BY <2>3 DEF Written, EndOf, DataAt
  <2>5. f.at = Written /\ f.length = n /\ n \in Nat /\ Extension(Code(n)) \in Nat
    BY Numbers DEF Extension, Code
  <2>6. Written <= EndOf(f)
    <3> HIDE DEF f
    <3> QED
      BY <1>0, <2>5 DEF EndOf, DataAt
  <2>7. EndOf(f) \in Nat /\ taken' = taken
    <3>1. taken' = taken
      BY <1>2 DEF BrowserSends, stream
    <3> HIDE DEF f
    <3> QED
      BY <1>0, <2>5, <3>1 DEF EndOf, DataAt
  <2> QED
    BY <1>0, <2>4, <2>6, <2>7
<1>3. ASSUME NEW n \in Asks, Receive(n) PROVE (taken <= Written)'
  <2>1. PICK h \in IF packet.pos >= packet.length THEN ReadHeader(taken)
                   ELSE {[packet |-> packet, read |-> 0, whole |-> TRUE]} :
          \E r \in Recv(n, taken + h.read) : taken' = taken + h.read + r
    BY <1>3 DEF Receive
  <2>2. h.read \in Nat /\ taken + h.read <= Written
    BY <1>0, <2>1, HeaderWritten
  <2>3. PICK r \in Recv(n, taken + h.read) : taken' = taken + h.read + r
    BY <2>1
  <2>4. r \in Nat /\ (r # 0 => taken + h.read + r <= Written)
    BY <2>3, Numbers, RecvWritten
  <2>5. Written' = Written
    BY <1>3 DEF Receive, handshake, Written, EndOf, DataAt
  <2> QED
    BY <1>0, <2>2, <2>3, <2>4, <2>5
<1>4. CASE Handshake \/ HandshakeNoAnswer
  <2>1. buffer' \in Seq(Pieces) /\ Len(buffer') <= Len(request')
    BY DEF HandshakeInv, HandshakeTypes, Begun
  <2>2. Len(buffer') \in Nat
    BY <2>1, LenProperties
  <2>3. frames = <<>> /\ taken' = Len(buffer')
    BY <1>4, <2>2, HandshakeTakes
  <2>4. frames' = <<>>
    BY <1>4, <2>3 DEF Handshake, HandshakeNoAnswer
  <2> QED
    BY <2>1, <2>3, <2>4 DEF Written
<1>5. CASE Break \/ UNCHANGED vars
  BY <1>1, <1>5 DEF Break, vars, handshake, stream
<1>6. ASSUME NEW n \in Sizes, Send(n) PROVE (taken <= Written)'
  BY <1>1, <1>6 DEF Send, handshake, stream
<1> QED
  BY <1>2, <1>3, <1>4, <1>5, <1>6 DEF Next

\* The bytes of the headers sent.
LEMMA OutTyped ==
  ASSUME Headed, NEW i \in DOMAIN out
  PROVE  /\ out[i].code \in 0 .. 127 /\ out[i].size \in Sizes
         /\ out[i].extended \in Seq(0 .. 255)
<1>1. PICK n \in Sizes : out[i] = CreateHeader(n)
  BY DEF Headed
<1>2. n \in Nat
  BY SizesAssumption
<1>3. out[i].size = n /\ out[i].extended = LittleEndian(n, Extended(n))
      /\ out[i].code = IF Extended(n) = 0 THEN n ELSE IF Extended(n) = 2 THEN 126 ELSE 127
  BY <1>1 DEF CreateHeader
<1>4. Extended(n) \in {0, 2, 8} /\ (Extended(n) = 0 => n <= 126)
  BY <1>2 DEF Extended
<1>5. LittleEndian(n, Extended(n)) \in Seq(0 .. 255)
  <2> DEFINE w == Extended(n)
             l == LittleEndian(n, w)
  <2>1. l = [j \in 1 .. w |-> IF j > 4 THEN 0 ELSE (n \div Place[j]) % 256] /\ w \in Nat
    BY <1>4 DEF LittleEndian
  <2> HIDE DEF w, l
  <2>2. ASSUME NEW j \in 1 .. w PROVE (IF j > 4 THEN 0 ELSE (n \div Place[j]) % 256) \in 0 .. 255
    <3>1. CASE j > 4
      BY <3>1
    <3>2. CASE ~(j > 4)
      <4>1. j \in 1 .. 4
        BY <2>1, <3>2
      <4>2. Place[j] \in Nat \ {0}
        BY <4>1, Places
      <4>3. \A p \in Nat \ {0} : (n \div p) % 256 \in 0 .. 255
        BY <1>2
      <4> QED
        BY <3>2, <4>2, <4>3
    <3> QED
      BY <3>1, <3>2
  <2>3. l \in [1 .. w -> 0 .. 255]
    BY <2>1, <2>2
  <2>4. l \in Seq(0 .. 255)
    BY <2>1, <2>3
  <2> QED
    BY <2>4 DEF l, w
<1> QED
  BY <1>2, <1>3, <1>4, <1>5

\* Every variable has a value of its type for any requests, lengths, asks and sizes:
\* no more of the stream is read than the browser wrote, and no header CreateHeader
\* makes has the mask bit.
THEOREM TypeCorrect == Spec => []TypeOK
<1>1. Init => taken <= Written
  <2> SUFFICES ASSUME Init PROVE taken <= Written
    OBVIOUS
  <2>1. taken = 0 /\ frames = <<>> /\ request \in Requests
    BY DEF Init
  <2>2. Len(request) \in Nat
    BY <2>1, RequestTyped, LenProperties
  <2> QED
    BY <2>1, <2>2 DEF Written
<1>2. HandshakeInv /\ FramesInv /\ Headed /\ taken <= Written => TypeOK
  <2> SUFFICES ASSUME HandshakeInv, FramesInv, Headed, taken <= Written PROVE TypeOK
    OBVIOUS
  <2>1. taken \in 0 .. Written
    <3>1. Len(request) \in Nat
      BY RequestTyped, LenProperties DEF HandshakeInv, HandshakeTypes
    <3> QED
      BY <3>1, WrittenAll DEF FramesInv, Types
  <2>2. HandshakeTypes /\ Types
    BY DEF HandshakeInv, FramesInv
  <2> QED
    BY <2>1, <2>2, OutTyped DEF HandshakeTypes, Types, TypeOK
<1>3. FramesInv /\ HandshakeInv /\ HandshakeInv' /\ taken <= Written /\ [Next]_vars
        => (taken <= Written)'
  BY TakenNext
<1> QED
  BY <1>1, <1>2, <1>3, HandshakeInit, HandshakeNext, FramesInit, FramesNext, HeadedInit, HeadedNext,
     PTL DEF Spec
=============================================================================

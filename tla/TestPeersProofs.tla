--------------------------- MODULE TestPeersProofs ---------------------------
(***************************************************************************)
(* Proofs about a test peer: its connection (P2PPeer) and the messages     *)
(* that travel over it (MessageCodec).                                     *)
(*                                                                         *)
(* The first part is about one connection at a time, with any number of    *)
(* connections, waits and time-outs: ExactInv follows the messages from    *)
(* send_message to the node and the node's bytes, however they are cut,    *)
(* to on_message.  The second part is about an object used as              *)
(* add_p2p_connection uses it (OnePeer): OnceInv adds why the version      *)
(* message leads, what an answered ping says about the node, and what the  *)
(* second ping of sync_with_ping is for.                                   *)
(*                                                                         *)
(* The third part is about the codecs, for bytes of any size, values of    *)
(* any size and lists of any length: what each class writes, put before    *)
(* any bytes, is read as a value that is written the same (Rereads), and   *)
(* for most classes as the value itself (Exact).  It goes from integers    *)
(* and compact sizes over strings, fields, lists, transactions, addresses  *)
(* and bits to the messages, and from those to the codec's steps.          *)
(***************************************************************************)
EXTENDS P2PPeer, MessageCodec, SequenceTheorems, WellFoundedInduction, TLAPS

\* A nonempty set of numbers has a least element, the form in which the proofs
\* below use induction.
LEMMA NatMin ==
  ASSUME NEW T \in SUBSET Nat, T # {}
  PROVE  \E x \in T : \A y \in T : x <= y
<1> DEFINE R == OpToRel(<, Nat)
<1>1. IsWellFoundedOn(R, Nat)
  BY NatLessThanWellFounded
<1>2. \E x \in T : \A y \in T : ~ (<<y, x>> \in R)
  <2> HIDE DEF R
  <2> QED BY <1>1, WFMin
<1>3. \A x, y \in Nat : y < x => <<y, x>> \in R
  BY DEF OpToRel
<1>4. PICK x \in T : \A y \in T : ~ (<<y, x>> \in R)
  BY <1>2
<1>5. \A y \in T : x <= y
  <2> TAKE y \in T
  <2>1. x \in Nat /\ y \in Nat
    OBVIOUS
  <2>2. ~(y < x)
    BY <2>1, <1>3, <1>4
  <2> QED BY <2>1, <2>2
<1> QED BY <1>5

\* FlattenSeq as a function of how many sequences are joined.
FlatBody(s, f, n) == [i \in 1 .. n |-> IF i = 1 THEN s[i] ELSE f[i - 1] \o s[i]]

\* That function is defined.
LEMMA FlatExists ==
  ASSUME NEW s, NEW n \in Nat
  PROVE  \E f : f = FlatBody(s, f, n)
<1> DEFINE T == {i \in Nat : ~ \E f : f = FlatBody(s, f, i)}
<1> SUFFICES ASSUME T # {} PROVE FALSE
  OBVIOUS
<1>1. PICK m \in T : \A i \in T : m <= i
  BY NatMin
<1>2. CASE m = 0
  <2> DEFINE f == [i \in {} |-> s[i]]
  <2>1. 1 .. 0 = {}
    OBVIOUS
  <2>2. f = FlatBody(s, f, 0)
    BY <2>1 DEF FlatBody
  <2> QED BY <1>1, <1>2, <2>2
<1>3. CASE m # 0
  <2>1. m \in Nat /\ m - 1 \in Nat /\ ~(m <= m - 1)
    BY <1>3
  <2>2. PICK f : f = FlatBody(s, f, m - 1)
    BY <1>1, <2>1
  <2> DEFINE g == [i \in 1 .. m |-> IF i < m THEN f[i] ELSE IF m = 1 THEN s[1] ELSE f[m - 1] \o s[m]]
  <2>3. ASSUME NEW i \in 1 .. m PROVE g[i] = IF i = 1 THEN s[i] ELSE g[i - 1] \o s[i]
    <3>1. CASE i = m
      <4>1. i # 1 => g[i - 1] = f[m - 1]
        BY <2>1, <3>1
      <4>2. g[i] = IF m = 1 THEN s[1] ELSE f[m - 1] \o s[m]
        BY <2>1, <3>1
      <4> HIDE DEF g
      <4> QED BY <3>1, <4>1, <4>2
    <3>2. CASE i # m
      <4>1. i \in 1 .. m - 1 /\ g[i] = f[i]
        BY <2>1, <3>2
      <4>2. f[i] = IF i = 1 THEN s[i] ELSE f[i - 1] \o s[i]
        BY <2>2, <4>1, Zenon DEF FlatBody
      <4>3. i # 1 => g[i - 1] = f[i - 1]
        BY <2>1, <4>1
      <4> HIDE DEF g
      <4> QED BY <4>1, <4>2, <4>3
    <3> QED BY <3>1, <3>2
  <2>4. g = [i \in 1 .. m |-> g[i]]
    OBVIOUS
  <2>5. g = FlatBody(s, g, m)
    <3> HIDE DEF g
    <3> QED BY <2>3, <2>4, Zenon DEF FlatBody
  <2> QED BY <1>1, <2>5
<1> QED BY <1>2, <1>3

\* What FlattenSeq joins, step by step.
LEMMA FlatSteps ==
  ASSUME NEW s, Len(s) \in Nat \ {0}
  PROVE  \E f : /\ FlattenSeq(s) = f[Len(s)]
                /\ f[1] = s[1]
                /\ \A i \in 2 .. Len(s) : f[i] = f[i - 1] \o s[i]
<1> DEFINE n == Len(s)
           f == CHOOSE g : g = FlatBody(s, g, n)
<1>1. FlattenSeq(s) = f[n]
  BY DEF FlattenSeq, FlatBody
<1>2. f = FlatBody(s, f, n)
  BY FlatExists
<1> HIDE DEF f
<1>3. \A i \in 1 .. n : f[i] = IF i = 1 THEN s[i] ELSE f[i - 1] \o s[i]
  <2> HIDE DEF n
  <2> QED BY <1>2, Zenon DEF FlatBody
<1>4. f[1] = s[1] /\ \A i \in 2 .. n : f[i] = f[i - 1] \o s[i]
  <2>1. 1 \in 1 .. n /\ \A i \in 2 .. n : i \in 1 .. n /\ i # 1
    OBVIOUS
  <2> HIDE DEF n
  <2> QED BY <1>3, <2>1, Zenon
<1> QED BY <1>1, <1>4

\* One more sequence is joined at the end.
LEMMA FlatAppend ==
  ASSUME NEW S, NEW s \in Seq(Seq(S)), NEW x \in Seq(S)
  PROVE  /\ FlattenSeq(<<>>) = <<>>
         /\ FlattenSeq(s) \in Seq(S)
         /\ FlattenSeq(Append(s, x)) = FlattenSeq(s) \o x
<1> DEFINE t == Append(s, x)
<1>1. /\ Len(s) \in Nat /\ Len(t) = Len(s) + 1 /\ t[Len(s) + 1] = x
      /\ \A i \in 1 .. Len(s) : t[i] = s[i] /\ s[i] \in Seq(S)
  OBVIOUS
<1>2. FlattenSeq(<<>>) = <<>>
  BY DEF FlattenSeq
<1>3. PICK g : /\ FlattenSeq(t) = g[Len(t)]
               /\ g[1] = t[1]
               /\ \A i \in 2 .. Len(t) : g[i] = g[i - 1] \o t[i]
  <2>1. Len(t) \in Nat \ {0}
    BY <1>1
  <2> HIDE DEF t
  <2> QED BY <2>1, FlatSteps
<1> HIDE DEF t
<1>4. CASE s = <<>>
  <2>1. FlattenSeq(t) = x
    BY <1>1, <1>3, <1>4
  <2>2. FlattenSeq(s) = <<>> /\ <<>> \o x = x
    BY <1>2, <1>4, ConcatEmptySeq
  <2> QED BY <1>2, <2>1, <2>2, EmptySeq DEF t
<1>5. CASE s # <<>>
  <2>1. Len(s) \in Nat \ {0}
    BY <1>1, <1>5, EmptySeq
  <2>2. PICK f : /\ FlattenSeq(s) = f[Len(s)]
                 /\ f[1] = s[1]
                 /\ \A i \in 2 .. Len(s) : f[i] = f[i - 1] \o s[i]
    BY <2>1, FlatSteps
  <2> DEFINE T == {i \in 1 .. Len(s) : ~ (f[i] = g[i] /\ f[i] \in Seq(S))}
  <2>3. T = {}
    <3> SUFFICES ASSUME T # {} PROVE FALSE
      OBVIOUS
    <3>1. T \in SUBSET Nat
      OBVIOUS
    <3>2. PICK i \in T : \A j \in T : i <= j
      BY <3>1, NatMin
    <3>3. i \in 1 .. Len(s) /\ ~ (f[i] = g[i] /\ f[i] \in Seq(S))
      BY <3>2
    <3>4. i # 1
      BY <1>1, <1>3, <2>1, <2>2, <3>3
    <3>5. i - 1 \in 1 .. Len(s) /\ ~(i <= i - 1) /\ i \in 2 .. Len(s) /\ i \in 2 .. Len(t)
      BY <1>1, <3>3, <3>4
    <3>6. f[i - 1] = g[i - 1] /\ f[i - 1] \in Seq(S)
      BY <3>2, <3>5
    <3>7. f[i] = f[i - 1] \o s[i] /\ g[i] = g[i - 1] \o s[i] /\ s[i] \in Seq(S)
      BY <1>1, <1>3, <2>2, <3>3, <3>5
    <3> QED BY <3>3, <3>6, <3>7, ConcatProperties
  <2>4. f[Len(s)] = g[Len(s)] /\ f[Len(s)] \in Seq(S)
    BY <2>1, <2>3, SMTT(30)
  <2>5. g[Len(s) + 1] = g[Len(s)] \o x
    <3>1. Len(s) + 1 \in 2 .. Len(t) /\ (Len(s) + 1) - 1 = Len(s)
      BY <1>1, <2>1
    <3> QED BY <1>1, <1>3, <3>1
  <2> QED BY <1>1, <1>2, <1>3, <2>2, <2>4, <2>5 DEF t
<1> QED BY <1>4, <1>5

-----------------------------------------------------------------------------
(* The invariant of a connection.                                          *)

(* Types of the state.                                                     *)
Types == {"version", "verack", "wtxidrelay", "getaddr", "getdata", "inv", "ping", "pong", "tx", "unknown"}
Messages == Types \X Nat
Callbacks == ({"connect", "abort"} \X {<<>>}) \cup ({"write"} \X Messages)

PeerTypes ==
  /\ pc \in {"out", "connecting", "verack", "ping0", "ping1", "pong", "idle", "leaving", "failed"}
  /\ ping_counter \in Nat \ {0}
  /\ last_message \in [verack : BOOLEAN, pong : Seq(Nat)]
  /\ transport \in {"none", "open", "closing"}
  /\ netpc \in {"idle", "made", "reading"}
  /\ loop \in Seq(Callbacks)
  /\ recvbuf \in Seq(Messages \X Nat) /\ toPeer \in Seq(Messages \X Nat)
  /\ toNode \in Seq(Messages) /\ accepted \in Seq(Messages) /\ got \in Seq(Messages)
  /\ sent \in Seq(Messages) /\ delivered \in Seq(Messages)
  /\ node \in [phase : {"off", "new", "version", "up"}, turn : {"process", "send"}, flushed : Nat]
  /\ budget \in [sends : Nat, connects : Nat, talk : Nat, timeouts : Nat]
  /\ mark \in Nat

\* The network thread is busy only with a connection that is open; nothing is
\* left of one that is gone; and a connection is asked for only when there is none.
OneAtATime ==
  /\ netpc # "idle" => transport = "open"
  /\ transport = "none" => recvbuf = <<>> /\ node.phase = "off"
  /\ \A i \in DOMAIN loop : loop[i][1] = "connect" =>
       i = Len(loop) /\ transport = "none" /\ pc \in {"connecting", "failed"}

\* What the node has read and what is on its way to it are what was accepted first.
ReadInOrder ==
  /\ Len(got) + Len(toNode) <= Len(accepted)
  /\ \A i \in 1 .. Len(got) : got[i] = accepted[i]
  /\ \A i \in 1 .. Len(toNode) : toNode[i] = accepted[Len(got) + i]

\* The writes scheduled before an abort are what was accepted after that.
WritesFrom(i) == \A j \in 1 .. i : loop[j][1] = "write"
WritesInOrder ==
  transport = "open" =>
    /\ \A i \in 1 .. Len(loop) : WritesFrom(i) =>
         /\ Len(got) + Len(toNode) + i <= Len(accepted)
         /\ loop[i][2] = accepted[Len(got) + Len(toNode) + i]
    /\ WritesFrom(Len(loop)) => Len(accepted) = Len(got) + Len(toNode) + Len(loop)

\* on_message has got the node's messages in order, and the pieces of the others
\* are in the buffer and in the socket.
Stream(ms) == FlattenSeq([i \in DOMAIN ms |-> Pieces(ms[i])])
DeliveredInOrder ==
  /\ Len(delivered) <= Len(sent)
  /\ \A i \in 1 .. Len(delivered) : delivered[i] = sent[i]
Undelivered == SubSeq(sent, Len(delivered) + 1, Len(sent))
PieceSeqs == Seq(Messages \X Nat)

\* What the pieces of a message are.
LEMMA PiecesOf ==
  ASSUME NEW m \in Messages
  PROVE  /\ Pieces(m) \in PieceSeqs /\ Len(Pieces(m)) = Units
         /\ \A i \in 1 .. Units : Pieces(m)[i] = <<m, i>>
BY BoundsAssumption DEF Pieces, PieceSeqs

\* Concatenation of pieces is associative.
LEMMA PiecesAssoc ==
  ASSUME NEW a \in PieceSeqs, NEW b \in PieceSeqs, NEW c \in PieceSeqs
  PROVE  (a \o b) \o c = a \o (b \o c) /\ a \o b \in PieceSeqs
BY ConcatAssociative, ConcatProperties, SMTT(30) DEF PieceSeqs

\* One more message adds its pieces.
LEMMA BytesAppend ==
  ASSUME NEW ms \in Seq(Messages), NEW m \in Messages
  PROVE  /\ Stream(<<>>) = <<>>
         /\ Stream(ms) \in PieceSeqs
         /\ Stream(Append(ms, m)) = Stream(ms) \o Pieces(m)
<1> DEFINE P(s) == [i \in DOMAIN s |-> Pieces(s[i])]
<1>1. P(ms) \in Seq(PieceSeqs) /\ Pieces(m) \in PieceSeqs
  <2>1. \A i \in 1 .. Len(ms) : Pieces(ms[i]) \in PieceSeqs
    BY PiecesOf, ElementOfSeq
  <2> QED BY <2>1, PiecesOf
<1>2. P(Append(ms, m)) = Append(P(ms), Pieces(m))
  OBVIOUS
<1>3. P(<<>>) = <<>>
  OBVIOUS
<1> HIDE DEF P
<1>4. /\ FlattenSeq(<<>>) = <<>> /\ FlattenSeq(P(ms)) \in PieceSeqs
      /\ FlattenSeq(Append(P(ms), Pieces(m))) = FlattenSeq(P(ms)) \o Pieces(m)
  BY <1>1, FlatAppend DEF PieceSeqs
<1>5. /\ Stream(<<>>) = FlattenSeq(P(<<>>)) /\ Stream(ms) = FlattenSeq(P(ms))
      /\ Stream(Append(ms, m)) = FlattenSeq(P(Append(ms, m)))
  BY DEF Stream, P
<1> QED BY <1>2, <1>3, <1>4, <1>5

\* The empty sequence of messages and its pieces.
LEMMA BytesType ==
  Stream(<<>>) = <<>> /\ \A ms \in Seq(Messages) : Stream(ms) \in PieceSeqs
<1>1. Msg("tx", 0) \in Messages
  BY DEF Msg, Messages, Types
<1> QED BY <1>1, BytesAppend, EmptySeq

\* A nonempty sequence of messages, by its last one.
LEMMA LastOf ==
  ASSUME NEW S, NEW s \in Seq(S), s # <<>>
  PROVE  \E t \in Seq(S), x \in S : s = Append(t, x) /\ Len(s) = Len(t) + 1
<1> DEFINE t == SubSeq(s, 1, Len(s) - 1)
<1>1. Len(s) \in Nat \ {0} /\ s[Len(s)] \in S
  BY EmptySeq, ElementOfSeq
<1>2. t \in Seq(S) /\ Len(t) = Len(s) - 1 /\ \A i \in 1 .. Len(s) - 1 : t[i] = s[i]
  <2>1. \A i \in 1 .. Len(s) - 1 : s[i] \in S
    BY <1>1, ElementOfSeq
  <2>2. /\ t \in Seq(S)
        /\ Len(t) = IF 1 <= Len(s) - 1 THEN (Len(s) - 1) - 1 + 1 ELSE 0
        /\ \A i \in 1 .. (Len(s) - 1) - 1 + 1 : t[i] = s[1 + i - 1]
    BY <1>1, <2>1, SubSeqProperties
  <2> HIDE DEF t
  <2>3. \A i \in 1 .. Len(s) - 1 : 1 + i - 1 = i /\ i \in 1 .. (Len(s) - 1) - 1 + 1
    BY <1>1
  <2>4. \A i \in 1 .. Len(s) - 1 : t[i] = s[i]
    BY <2>2, <2>3
  <2>5. Len(t) = Len(s) - 1
    <3>1. ASSUME NEW n \in Nat \ {0}
          PROVE  (IF 1 <= n - 1 THEN (n - 1) - 1 + 1 ELSE 0) = n - 1
      BY SMT
    <3>2. Len(t) = IF 1 <= Len(s) - 1 THEN (Len(s) - 1) - 1 + 1 ELSE 0
      BY <2>2
    <3> QED BY <1>1, <3>1, <3>2
  <2> QED BY <2>2, <2>4, <2>5
<1> HIDE DEF t
<1>3. s = Append(t, s[Len(s)])
  <2>1. /\ Append(t, s[Len(s)]) \in Seq(S) /\ Len(Append(t, s[Len(s)])) = Len(s)
        /\ \A i \in 1 .. Len(s) : Append(t, s[Len(s)])[i] = s[i]
    BY <1>1, <1>2, AppendProperties
  <2> QED BY <2>1, SeqEqual
<1> QED BY <1>1, <1>2, <1>3

\* A message after two sequences of messages.
LEMMA CatAppend ==
  ASSUME NEW S, NEW a \in Seq(S), NEW b \in Seq(S), NEW x \in S
  PROVE  a \o Append(b, x) = Append(a \o b, x) /\ a \o b \in Seq(S)
<1>1. a \o Append(b, x) = Append(a \o b, x)
  BY SMTT(60)
<1>2. a \o b \in Seq(S)
  BY ConcatProperties
<1> QED BY <1>1, <1>2

\* The pieces of messages behind each other are those of the ones and the others.
LEMMA BytesCat ==
  ASSUME NEW s \in Seq(Messages), NEW t \in Seq(Messages)
  PROVE  Stream(s \o t) = Stream(s) \o Stream(t)
<1> DEFINE Holds(u) == Stream(s \o u) = Stream(s) \o Stream(u)
           T == {n \in Nat : \E u \in Seq(Messages) : Len(u) = n /\ ~Holds(u)}
<1>1. T = {}
  <2> SUFFICES ASSUME T # {} PROVE FALSE
    OBVIOUS
  <2>1. PICK n \in T : \A m \in T : n <= m
    BY NatMin
  <2>2. PICK u \in Seq(Messages) : Len(u) = n /\ ~Holds(u)
    BY <2>1
  <2>3. CASE u = <<>>
    <3>1. Stream(u) = <<>> /\ Stream(s) \in PieceSeqs
      BY <2>3, BytesType
    <3>2. s \o u = s /\ Stream(s) \o <<>> = Stream(s)
      BY <2>3, <3>1, ConcatEmptySeq DEF PieceSeqs
    <3> QED BY <2>2, <3>1, <3>2
  <2>4. CASE u # <<>>
    <3>1. PICK v \in Seq(Messages), m \in Messages : u = Append(v, m) /\ Len(u) = Len(v) + 1
      BY <2>4, LastOf
    <3>2. Len(v) \in Nat /\ ~(n <= Len(v))
      BY <2>2, <3>1
    <3>3. Holds(v)
      BY <2>1, <3>2
    <3>4. s \o u = Append(s \o v, m) /\ s \o v \in Seq(Messages)
      BY <3>1, CatAppend, SMTT(30)
    <3>5. Stream(s \o u) = Stream(s \o v) \o Pieces(m) /\ Stream(u) = Stream(v) \o Pieces(m)
      BY <3>1, <3>4, BytesAppend
    <3>6. Stream(s) \in PieceSeqs /\ Stream(v) \in PieceSeqs /\ Pieces(m) \in PieceSeqs
      BY BytesType, PiecesOf
    <3>7. (Stream(s) \o Stream(v)) \o Pieces(m) = Stream(s) \o (Stream(v) \o Pieces(m))
      BY <3>6, PiecesAssoc
    <3> QED BY <2>2, <3>3, <3>5, <3>7
  <2> QED BY <2>3, <2>4
<1>2. Len(t) \in Nat
  OBVIOUS
<1> QED BY <1>1, <1>2

\* One message is its pieces.
LEMMA BytesOfOne == ASSUME NEW m \in Messages PROVE Stream(<<m>>) = Pieces(m)
<1>1. <<m>> = Append(<<>>, m) /\ <<>> \in Seq(Messages)
  OBVIOUS
<1>2. <<>> \o Pieces(m) = Pieces(m)
  BY PiecesOf, ConcatEmptySeq DEF PieceSeqs
<1> QED BY <1>1, <1>2, BytesAppend

\* The pieces of messages begin with those of the first.
LEMMA BytesHead ==
  ASSUME NEW s \in Seq(Messages), s # <<>>
  PROVE  Stream(s) = Pieces(s[1]) \o Stream(Tail(s))
<1>1. s[1] \in Messages /\ Tail(s) \in Seq(Messages)
  BY ElementOfSeq, EmptySeq, HeadTailProperties
<1>2. s = <<s[1]>> \o Tail(s)
  <2>1. /\ <<s[1]>> \o Tail(s) \in Seq(Messages) /\ Len(<<s[1]>> \o Tail(s)) = Len(s)
        /\ \A i \in 1 .. Len(s) : (<<s[1]>> \o Tail(s))[i] = s[i]
    BY <1>1
  <2> QED BY <2>1, SeqEqual
<1>3. <<s[1]>> \in Seq(Messages)
  BY <1>1
<1> QED BY <1>1, <1>2, <1>3, BytesCat, BytesOfOne

\* What is left of a buffer, and of what is behind it, without its first part.
LEMMA DropFirst ==
  ASSUME NEW S, NEW a \in Seq(S), NEW b \in Seq(S), NEW p \in Seq(S), NEW q \in Seq(S),
         a \o b = p \o q, p # <<>>, Len(p) <= Len(a)
  PROVE  a[1] = p[1] /\ SubSeq(a, Len(p) + 1, Len(a)) \o b = q
<1> DEFINE k == Len(p)
           c == SubSeq(a, k + 1, Len(a))
<1>1. k \in Nat \ {0} /\ Len(a) \in Nat /\ Len(b) \in Nat /\ Len(q) \in Nat
  BY EmptySeq
<1>2. Len(a) + Len(b) = k + Len(q)
  BY ConcatProperties
<1>3. \A i \in 1 .. Len(a) + Len(b) :
        (IF i <= Len(a) THEN a[i] ELSE b[i - Len(a)]) = (IF i <= k THEN p[i] ELSE q[i - k])
  BY <1>2, ConcatProperties
<1>4. c \in Seq(S) /\ Len(c) = Len(a) - k /\ \A i \in 1 .. Len(a) - k : c[i] = a[i + k]
  BY <1>1
<1> HIDE DEF c, k
<1>5. k <= Len(a)
  BY DEF k
<1>6. a[1] = p[1]
  BY <1>1, <1>3, <1>5
<1>7. c \o b \in Seq(S) /\ Len(c \o b) = Len(q)
  BY <1>1, <1>2, <1>4, ConcatProperties
<1>8. ASSUME NEW i \in 1 .. Len(q) PROVE (c \o b)[i] = q[i]
  <2>1. i + k \in 1 .. Len(a) + Len(b) /\ (i + k) - k = i /\ ~(i + k <= k)
    BY <1>1, <1>2
  <2>2. q[i] = IF i + k <= Len(a) THEN a[i + k] ELSE b[(i + k) - Len(a)]
    <3> SUFFICES ASSUME NEW j, j = i + k
                 PROVE  q[i] = IF j <= Len(a) THEN a[j] ELSE b[j - Len(a)]
      OBVIOUS
    <3>1. j \in 1 .. Len(a) + Len(b) /\ j - k = i /\ ~(j <= k)
      BY <2>1
    <3>2. (IF j <= Len(a) THEN a[j] ELSE b[j - Len(a)]) = (IF j <= k THEN p[j] ELSE q[j - k])
      BY <1>3, <3>1
    <3>3. q[i] = IF j <= Len(a) THEN a[j] ELSE b[j - Len(a)]
      BY <3>1, <3>2
    <3> QED BY <3>3
  <2>3. (c \o b)[i] = IF i <= Len(c) THEN c[i] ELSE b[i - Len(c)]
    BY <1>1, <1>2, <1>4, ConcatProperties
  <2> QED BY <1>1, <1>4, <2>2, <2>3
<1>9. c \o b = q
  BY <1>7, <1>8, SeqEqual
<1> QED BY <1>6, <1>9 DEF c, k

(* The pieces of what on_message has not got are in the buffer and behind. *)
BytesInOrder == transport = "open" => recvbuf \o toPeer = Stream(Undelivered)

(* The invariant of a connection.                                          *)
ExactInv ==
  PeerTypes /\ OneAtATime /\ ReadInOrder /\ WritesInOrder /\ DeliveredInOrder /\ BytesInOrder

\* What the steps about the connection have in common.
LEMMA MsgType ==
  ASSUME NEW t \in Types, NEW n \in Nat
  PROVE  Msg(t, n) \in Messages /\ Msg(t, n)[1] = t /\ Msg(t, n)[2] = n
BY DEF Msg, Messages

\* send_raw_message: the messages go behind what is scheduled and accepted.
LEMMA ScheduleTypes ==
  ASSUME PeerTypes, NEW ms \in Seq(Messages), Schedule(ms)
  PROVE  /\ loop' \in Seq(Callbacks) /\ accepted' \in Seq(Messages)
         /\ Len(loop') = Len(loop) + Len(ms) /\ Len(accepted') = Len(accepted) + Len(ms)
         /\ \A i \in 1 .. Len(loop) : loop'[i] = loop[i]
         /\ \A i \in 1 .. Len(ms) : loop'[Len(loop) + i] = <<"write", ms[i]>>
         /\ \A i \in 1 .. Len(accepted) : accepted'[i] = accepted[i]
         /\ \A i \in 1 .. Len(ms) : accepted'[Len(accepted) + i] = ms[i]
<1> DEFINE ws == [i \in DOMAIN ms |-> <<"write", ms[i]>>]
<1>1. loop \in Seq(Callbacks) /\ accepted \in Seq(Messages)
  BY DEF PeerTypes
<1>2. \A m \in Messages : <<"write", m>> \in Callbacks
  BY DEF Callbacks
<1>3. ws \in Seq(Callbacks) /\ Len(ws) = Len(ms) /\ \A i \in 1 .. Len(ms) : ws[i] = <<"write", ms[i]>>
  <2>1. \A i \in 1 .. Len(ms) : ms[i] \in Messages /\ <<"write", ms[i]>> \in Callbacks
    BY <1>2, ElementOfSeq
  <2>2. DOMAIN ms = 1 .. Len(ms) /\ Len(ms) \in Nat
    BY LenProperties
  <2> QED BY <2>1, <2>2
<1>4. loop' = loop \o ws /\ accepted' = accepted \o ms
  BY DEF Schedule
<1> HIDE DEF ws
<1>5. /\ loop' \in Seq(Callbacks) /\ Len(loop') = Len(loop) + Len(ms)
      /\ \A i \in 1 .. Len(loop) + Len(ms) :
           loop'[i] = IF i <= Len(loop) THEN loop[i] ELSE ws[i - Len(loop)]
  <2>1. /\ loop \o ws \in Seq(Callbacks) /\ Len(loop \o ws) = Len(loop) + Len(ws)
        /\ \A i \in 1 .. Len(loop) + Len(ws) :
             (loop \o ws)[i] = IF i <= Len(loop) THEN loop[i] ELSE ws[i - Len(loop)]
    BY <1>1, <1>3, ConcatProperties
  <2> QED BY <1>3, <1>4, <2>1
<1>6. /\ accepted' \in Seq(Messages) /\ Len(accepted') = Len(accepted) + Len(ms)
      /\ \A i \in 1 .. Len(accepted) + Len(ms) :
           accepted'[i] = IF i <= Len(accepted) THEN accepted[i] ELSE ms[i - Len(accepted)]
  BY <1>1, <1>4, ConcatProperties
<1>7. Len(loop) \in Nat /\ Len(ms) \in Nat /\ Len(accepted) \in Nat
  BY <1>1, LenProperties
<1>8. \A i \in 1 .. Len(ms) : loop'[Len(loop) + i] = <<"write", ms[i]>>
  <2> TAKE i \in 1 .. Len(ms)
  <2>1. Len(loop) + i \in 1 .. Len(loop) + Len(ms) /\ ~(Len(loop) + i <= Len(loop))
        /\ (Len(loop) + i) - Len(loop) = i
    BY <1>7
  <2>2. loop'[Len(loop) + i] = ws[i]
    BY <1>5, <2>1
  <2> QED BY <1>3, <2>2
<1>9. \A i \in 1 .. Len(ms) : accepted'[Len(accepted) + i] = ms[i]
  <2> TAKE i \in 1 .. Len(ms)
  <2>1. Len(accepted) + i \in 1 .. Len(accepted) + Len(ms)
        /\ ~(Len(accepted) + i <= Len(accepted)) /\ (Len(accepted) + i) - Len(accepted) = i
    BY <1>7
  <2> QED BY <1>6, <2>1
<1>10. /\ \A i \in 1 .. Len(loop) : loop'[i] = loop[i]
       /\ \A i \in 1 .. Len(accepted) : accepted'[i] = accepted[i]
  BY <1>5, <1>6, <1>7
<1> QED BY <1>5, <1>6, <1>8, <1>9, <1>10

\* What is sent on an open connection is accepted and scheduled in one order.
LEMMA ScheduleKeepsOrder ==
  ASSUME PeerTypes, ReadInOrder, WritesInOrder, NEW ms \in Seq(Messages), Schedule(ms),
         UNCHANGED <<got, toNode, transport>>
  PROVE  ReadInOrder' /\ WritesInOrder'
<1>1. /\ Len(loop') = Len(loop) + Len(ms) /\ Len(accepted') = Len(accepted) + Len(ms)
      /\ \A i \in 1 .. Len(loop) : loop'[i] = loop[i]
      /\ \A i \in 1 .. Len(ms) : loop'[Len(loop) + i] = <<"write", ms[i]>>
      /\ \A i \in 1 .. Len(accepted) : accepted'[i] = accepted[i]
      /\ \A i \in 1 .. Len(ms) : accepted'[Len(accepted) + i] = ms[i]
  BY ScheduleTypes
<1>2. /\ Len(loop) \in Nat /\ Len(ms) \in Nat /\ Len(accepted) \in Nat
      /\ Len(got) \in Nat /\ Len(toNode) \in Nat
  BY LenProperties DEF PeerTypes
<1>3. ReadInOrder'
  BY <1>1, <1>2, SMTT(30) DEF ReadInOrder
<1> DEFINE n == Len(got) + Len(toNode)
<1>4. WritesFrom(Len(loop))' => WritesFrom(Len(loop))
  BY <1>1, <1>2 DEF WritesFrom
<1>5. ASSUME transport = "open", NEW i \in 1 .. Len(loop'), WritesFrom(i)'
      PROVE  n + i <= Len(accepted') /\ loop'[i][2] = accepted'[n + i]
  <2>1. CASE i <= Len(loop)
    <3>1. i \in 1 .. Len(loop) /\ WritesFrom(i)
      BY <1>1, <1>2, <1>5, <2>1 DEF WritesFrom
    <3>2. n + i <= Len(accepted) /\ loop[i][2] = accepted[n + i]
      BY <1>5, <3>1 DEF WritesInOrder
    <3>3. n + i \in 1 .. Len(accepted)
      BY <1>2, <3>1, <3>2
    <3> QED BY <1>1, <1>2, <3>1, <3>2, <3>3
  <2>2. CASE ~(i <= Len(loop))
    <3>1. WritesFrom(Len(loop))
      BY <1>1, <1>2, <1>5, <2>2 DEF WritesFrom
    <3>2. Len(accepted) = n + Len(loop)
      BY <1>5, <3>1 DEF WritesInOrder
    <3>3. PICK k \in 1 .. Len(ms) : i = Len(loop) + k
      <4>1. i - Len(loop) \in 1 .. Len(ms) /\ i = Len(loop) + (i - Len(loop))
        BY <1>1, <1>2, <2>2
      <4> QED BY <4>1
    <3>4. n + i = Len(accepted) + k
      BY <1>2, <3>2, <3>3
    <3>5. loop'[i][2] = ms[k]
      BY <1>1, <3>3
    <3>6. accepted'[n + i] = ms[k]
      BY <1>1, <3>4
    <3> QED BY <1>1, <1>2, <3>3, <3>4, <3>5, <3>6
  <2> QED BY <2>1, <2>2
<1>6. ASSUME transport = "open", \A j \in 1 .. Len(loop') : loop'[j][1] = "write"
      PROVE  Len(accepted') = n + Len(loop')
  <2>1. WritesFrom(Len(loop))
    BY <1>1, <1>2, <1>6 DEF WritesFrom
  <2>2. Len(accepted) = n + Len(loop)
    BY <1>6, <2>1 DEF WritesInOrder
  <2> QED BY <1>1, <1>2, <2>2
<1> QED BY <1>3, <1>5, <1>6 DEF WritesInOrder, WritesFrom

-----------------------------------------------------------------------------
(* The node's bytes.                                                       *)
\* What the node sends is behind what it has sent before, message by message and
\* piece by piece.
LEMMA NodeSendsInOrder ==
  ASSUME PeerTypes, DeliveredInOrder, BytesInOrder, NEW ms \in Seq(Messages),
         NodeSends(ms), UNCHANGED <<delivered, recvbuf, transport>>
  PROVE  /\ sent' \in Seq(Messages) /\ toPeer' \in PieceSeqs
         /\ Len(sent') = Len(sent) + Len(ms)
         /\ \A i \in 1 .. Len(sent) : sent'[i] = sent[i]
         /\ \A i \in 1 .. Len(ms) : sent'[Len(sent) + i] = ms[i]
         /\ DeliveredInOrder' /\ BytesInOrder'
<1>1. /\ sent \in Seq(Messages) /\ toPeer \in PieceSeqs /\ recvbuf \in PieceSeqs
      /\ Len(sent) \in Nat /\ Len(ms) \in Nat /\ Len(delivered) \in Nat
      /\ Stream(ms) \in PieceSeqs
  BY BytesType, LenProperties DEF PeerTypes, PieceSeqs
<1>2. sent' = sent \o ms /\ toPeer' = toPeer \o Stream(ms)
  BY DEF NodeSends, Stream
<1>3. toPeer' \in PieceSeqs
  BY <1>1, <1>2, PiecesAssoc
<1>4. /\ sent' \in Seq(Messages) /\ Len(sent') = Len(sent) + Len(ms)
      /\ \A i \in 1 .. Len(sent) + Len(ms) :
           sent'[i] = IF i <= Len(sent) THEN sent[i] ELSE ms[i - Len(sent)]
  BY <1>1, <1>2, ConcatProperties
<1>5. \A i \in 1 .. Len(sent) : sent'[i] = sent[i]
  BY <1>1, <1>4
<1>6. \A i \in 1 .. Len(ms) : sent'[Len(sent) + i] = ms[i]
  <2> TAKE i \in 1 .. Len(ms)
  <2>1. Len(sent) + i \in 1 .. Len(sent) + Len(ms) /\ ~(Len(sent) + i <= Len(sent))
        /\ (Len(sent) + i) - Len(sent) = i
    BY <1>1
  <2> QED BY <1>4, <2>1
<1>7. DeliveredInOrder'
  BY <1>1, <1>4, <1>5 DEF DeliveredInOrder
<1>8. ASSUME transport = "open" PROVE recvbuf \o toPeer' = Stream(Undelivered')
  <2> DEFINE U == Undelivered
             d == Len(delivered)
  <2>1. d <= Len(sent)
    BY DEF DeliveredInOrder
  <2>2. /\ U \in Seq(Messages) /\ Len(U) = Len(sent) - d
        /\ \A i \in 1 .. Len(sent) - d : U[i] = sent[d + i]
    <3>1. /\ Len(SubSeq(sent, d + 1, Len(sent))) = Len(sent) - d
          /\ \A i \in 1 .. Len(sent) - d : SubSeq(sent, d + 1, Len(sent))[i] = sent[d + i]
          /\ SubSeq(sent, d + 1, Len(sent)) \in Seq(Messages)
      BY <1>1, <2>1
    <3> QED BY <3>1 DEF Undelivered
  <2>3. /\ Undelivered' \in Seq(Messages) /\ Len(Undelivered') = Len(sent') - d
        /\ \A i \in 1 .. Len(sent') - d : Undelivered'[i] = sent'[d + i]
    <3>1. Len(sent') \in Nat /\ d <= Len(sent')
      BY <1>1, <1>4, <2>1
    <3>2. /\ Len(SubSeq(sent', d + 1, Len(sent'))) = Len(sent') - d
          /\ \A i \in 1 .. Len(sent') - d : SubSeq(sent', d + 1, Len(sent'))[i] = sent'[d + i]
          /\ SubSeq(sent', d + 1, Len(sent')) \in Seq(Messages)
      BY <1>1, <1>4, <3>1
    <3> QED BY <3>2 DEF Undelivered
  <2> HIDE DEF U
  <2>4. Undelivered' = U \o ms
    <3>1. /\ U \o ms \in Seq(Messages) /\ Len(U \o ms) = Len(U) + Len(ms)
          /\ \A i \in 1 .. Len(U) + Len(ms) :
               (U \o ms)[i] = IF i <= Len(U) THEN U[i] ELSE ms[i - Len(U)]
      BY <2>2, ConcatProperties
    <3>2. Len(Undelivered') = Len(U \o ms)
      BY <1>1, <1>4, <2>1, <2>2, <2>3, <3>1
    <3>3. ASSUME NEW i \in 1 .. Len(Undelivered') PROVE Undelivered'[i] = (U \o ms)[i]
      <4>1. i \in 1 .. Len(U) + Len(ms) /\ i \in 1 .. Len(sent') - d
        BY <2>3, <3>1, <3>2
      <4>2. Undelivered'[i] = sent'[d + i]
        BY <2>3, <4>1
      <4>3. CASE i <= Len(U)
        <5>1. d + i \in 1 .. Len(sent) /\ i \in 1 .. Len(sent) - d
          BY <1>1, <2>1, <2>2, <4>1, <4>3
        <5> QED BY <1>5, <2>2, <3>1, <4>1, <4>2, <4>3, <5>1
      <4>4. CASE ~(i <= Len(U))
        <5>1. PICK k \in 1 .. Len(ms) : i = Len(U) + k
          <6>1. i - Len(U) \in 1 .. Len(ms) /\ i = Len(U) + (i - Len(U))
            BY <1>1, <2>1, <2>2, <4>1, <4>4
          <6> QED BY <6>1
        <5>2. d + i = Len(sent) + k /\ i - Len(U) = k
          BY <1>1, <2>1, <2>2, <5>1
        <5> QED BY <1>6, <3>1, <4>1, <4>2, <4>4, <5>1, <5>2
      <4> QED BY <4>3, <4>4
    <3> QED BY <2>3, <3>1, <3>2, <3>3, SeqEqual
  <2>5. Stream(Undelivered') = Stream(U) \o Stream(ms)
    BY <2>2, <2>4, BytesCat
  <2>6. recvbuf \o toPeer = Stream(U)
    BY <1>8 DEF BytesInOrder, U
  <2>7. recvbuf \o (toPeer \o Stream(ms)) = (recvbuf \o toPeer) \o Stream(ms)
    BY <1>1, PiecesAssoc
  <2> QED BY <1>2, <2>5, <2>6, <2>7
<1>9. BytesInOrder'
  <2>1. Stream(Undelivered)' = Stream(Undelivered')
    BY DEF Stream, Pieces
  <2> QED BY <1>8, <2>1 DEF BytesInOrder
<1> QED BY <1>3, <1>4, <1>5, <1>6, <1>7, <1>9

\* The first message in the buffer is the one the node sent after those that were
\* delivered.
LEMMA NextInBuffer ==
  ASSUME PeerTypes, DeliveredInOrder, BytesInOrder, transport = "open",
         Len(recvbuf) >= Units
  PROVE  /\ Len(delivered) + 1 \in 1 .. Len(sent)
         /\ recvbuf[1][1] = sent[Len(delivered) + 1] /\ recvbuf[1][1] \in Messages
         /\ SubSeq(recvbuf, Units + 1, Len(recvbuf)) \in PieceSeqs
         /\ SubSeq(recvbuf, Units + 1, Len(recvbuf)) \o toPeer
              = Stream(SubSeq(sent, Len(delivered) + 2, Len(sent)))
<1> DEFINE d == Len(delivered)
           U == Undelivered
<1>1. /\ sent \in Seq(Messages) /\ toPeer \in PieceSeqs /\ recvbuf \in PieceSeqs
      /\ Len(sent) \in Nat /\ d \in Nat /\ Len(recvbuf) \in Nat /\ Len(toPeer) \in Nat
      /\ d <= Len(sent)
  BY LenProperties DEF PeerTypes, PieceSeqs, DeliveredInOrder
<1>2. U \in Seq(Messages) /\ Len(U) = Len(sent) - d
      /\ \A i \in 1 .. Len(sent) - d : U[i] = sent[d + i]
  <2>1. /\ Len(SubSeq(sent, d + 1, Len(sent))) = Len(sent) - d
        /\ \A i \in 1 .. Len(sent) - d : SubSeq(sent, d + 1, Len(sent))[i] = sent[d + i]
        /\ SubSeq(sent, d + 1, Len(sent)) \in Seq(Messages)
    BY <1>1
  <2> QED BY <2>1 DEF Undelivered
<1>3. recvbuf \o toPeer = Stream(U)
  BY DEF BytesInOrder
<1> HIDE DEF U
<1>4. Units \in Nat \ {0}
  BY BoundsAssumption
<1>5. U # <<>>
  <2> SUFFICES ASSUME U = <<>> PROVE FALSE
    OBVIOUS
  <2>1. recvbuf \o toPeer = <<>>
    BY <1>3, BytesType
  <2>2. Len(recvbuf \o toPeer) = Len(recvbuf) + Len(toPeer)
    BY <1>1, ConcatProperties DEF PieceSeqs
  <2>3. Len(<<>>) = 0
    OBVIOUS
  <2> QED BY <1>1, <1>4, <2>1, <2>2, <2>3
<1>6. /\ U[1] \in Messages /\ Tail(U) \in Seq(Messages)
      /\ Len(U) \in Nat \ {0} /\ U[1] = sent[d + 1] /\ d + 1 \in 1 .. Len(sent)
  <2>1. Len(U) \in Nat \ {0}
    BY <1>2, <1>5, EmptySeq
  <2> QED BY <1>1, <1>2, <1>5, <2>1, ElementOfSeq, HeadTailProperties
<1>7. recvbuf \o toPeer = Pieces(U[1]) \o Stream(Tail(U))
  BY <1>2, <1>3, <1>5, BytesHead
<1>8. /\ Pieces(U[1]) \in PieceSeqs /\ Len(Pieces(U[1])) = Units
      /\ Pieces(U[1])[1] = <<U[1], 1>> /\ Pieces(U[1]) # <<>>
  <2>1. /\ Pieces(U[1]) \in PieceSeqs /\ Len(Pieces(U[1])) = Units
        /\ \A i \in 1 .. Units : Pieces(U[1])[i] = <<U[1], i>>
    BY <1>6, PiecesOf
  <2>2. 1 \in 1 .. Units /\ Len(<<>>) = 0
    BY <1>4
  <2> QED BY <1>4, <2>1, <2>2
<1>9. Stream(Tail(U)) \in PieceSeqs
  BY <1>6, BytesType
<1>10. /\ recvbuf[1] = <<U[1], 1>>
       /\ SubSeq(recvbuf, Units + 1, Len(recvbuf)) \o toPeer = Stream(Tail(U))
  <2> DEFINE p == Pieces(U[1])
             q == Stream(Tail(U))
  <2>1. /\ recvbuf \in Seq(Messages \X Nat) /\ toPeer \in Seq(Messages \X Nat)
        /\ p \in Seq(Messages \X Nat) /\ q \in Seq(Messages \X Nat)
        /\ recvbuf \o toPeer = p \o q /\ p # <<>> /\ Len(p) = Units /\ p[1] = <<U[1], 1>>
    BY <1>1, <1>7, <1>8, <1>9 DEF PieceSeqs
  <2> HIDE DEF p, q
  <2>2. Len(p) <= Len(recvbuf)
    BY <1>1, <1>4, <2>1
  <2>3. recvbuf[1] = p[1] /\ SubSeq(recvbuf, Len(p) + 1, Len(recvbuf)) \o toPeer = q
    <3> DEFINE S == Messages \X Nat
    <3>1. /\ recvbuf \in Seq(S) /\ toPeer \in Seq(S) /\ p \in Seq(S) /\ q \in Seq(S)
          /\ recvbuf \o toPeer = p \o q /\ p # <<>> /\ Len(p) <= Len(recvbuf)
      BY <2>1, <2>2
    <3> HIDE DEF S
    <3> QED BY <3>1, DropFirst, ZenonT(30)
  <2> QED BY <2>1, <2>3 DEF q
<1>11. Tail(U) = SubSeq(sent, d + 2, Len(sent))
  <2> DEFINE V == SubSeq(sent, d + 2, Len(sent))
  <2>1. /\ V \in Seq(Messages) /\ Len(V) = Len(sent) - (d + 1)
        /\ \A i \in 1 .. Len(sent) - (d + 1) : V[i] = sent[(d + 1) + i]
    BY <1>1, <1>6
  <2>2. /\ Len(Tail(U)) = Len(U) - 1 /\ \A i \in 1 .. Len(U) - 1 : Tail(U)[i] = U[i + 1]
    BY <1>2, <1>5, HeadTailProperties
  <2> HIDE DEF V
  <2>3. Len(V) = Len(Tail(U))
    BY <1>1, <1>2, <2>1, <2>2
  <2>4. ASSUME NEW i \in 1 .. Len(V) PROVE V[i] = Tail(U)[i]
    <3>1. i \in 1 .. Len(sent) - (d + 1) /\ i \in 1 .. Len(U) - 1 /\ i + 1 \in 1 .. Len(sent) - d
          /\ d + (i + 1) = (d + 1) + i
      BY <1>1, <1>2, <2>1, <2>2, <2>3
    <3>2. V[i] = sent[(d + 1) + i] /\ Tail(U)[i] = U[i + 1] /\ U[i + 1] = sent[d + (i + 1)]
      BY <1>2, <2>1, <2>2, <3>1
    <3> QED BY <3>1, <3>2
  <2> QED BY <1>6, <2>1, <2>3, <2>4, SeqEqual DEF V
<1>12. SubSeq(recvbuf, Units + 1, Len(recvbuf)) \in PieceSeqs
  BY <1>1, <1>4 DEF PieceSeqs
<1>13. recvbuf[1][1] = U[1]
  BY <1>10
<1> QED BY <1>6, <1>10, <1>11, <1>12, <1>13

-----------------------------------------------------------------------------
(* ExactInv holds at the start and every step keeps it: the test thread,   *)
(* the network thread, the node.                                           *)
\* No connection is made.
LEMMA ExactInit == Init => ExactInv
<1> SUFFICES ASSUME Init PROVE ExactInv
  OBVIOUS
<1>1. PeerTypes
  BY BoundsAssumption DEF Init, PeerTypes, NodeOff
<1>2. OneAtATime /\ ReadInOrder /\ WritesInOrder /\ DeliveredInOrder /\ BytesInOrder
  BY DEF Init, OneAtATime, ReadInOrder, WritesInOrder, DeliveredInOrder, BytesInOrder, NodeOff
<1> QED BY <1>1, <1>2 DEF ExactInv

\* What does not touch one direction leaves it in order.
LEMMA SameWires ==
  ASSUME ReadInOrder, WritesInOrder, UNCHANGED <<loop, got, toNode, accepted, transport>>
  PROVE  ReadInOrder' /\ WritesInOrder'
BY DEF ReadInOrder, WritesInOrder, WritesFrom

\* Neither wire is touched by a step that leaves its ends alone.
LEMMA SameBytes ==
  ASSUME DeliveredInOrder, BytesInOrder, UNCHANGED <<sent, delivered, recvbuf, toPeer, transport>>
  PROVE  DeliveredInOrder' /\ BytesInOrder'
BY DEF DeliveredInOrder, BytesInOrder, Stream, Pieces, Undelivered

\* send_message, called by the test: nothing changes when there is no connection.
LEMMA SendKeeps ==
  ASSUME ExactInv, NEW m \in Messages, NEW next \in {"ping1", "pong", "idle"}, Send(m, next),
         pc \in {"ping0", "ping1", "idle"}, mark' \in Nat,
         budget' \in [sends : Nat, connects : Nat, talk : Nat, timeouts : Nat],
         UNCHANGED <<got, sent, delivered>>
  PROVE  ExactInv'
<1> USE DEF ExactInv
<1>1. UNCHANGED <<ping_counter, last_message, transport, netpc, recvbuf, toNode, toPeer, node>>
  BY DEF Send
<1>2. DeliveredInOrder' /\ BytesInOrder'
  BY <1>1, SameBytes
<1>3. CASE transport # "none" /\ Schedule(<<m>>) /\ pc' = next
  <2>1. <<m>> \in Seq(Messages)
    OBVIOUS
  <2>2. ReadInOrder' /\ WritesInOrder'
    BY <1>1, <1>3, <2>1, ScheduleKeepsOrder
  <2>3. /\ loop' \in Seq(Callbacks) /\ accepted' \in Seq(Messages)
        /\ Len(loop') = Len(loop) + 1
        /\ \A i \in 1 .. Len(loop) : loop'[i] = loop[i]
        /\ loop'[Len(loop) + 1] = <<"write", m>>
    <3>1. /\ loop' \in Seq(Callbacks) /\ accepted' \in Seq(Messages)
          /\ Len(loop') = Len(loop) + Len(<<m>>)
          /\ \A i \in 1 .. Len(loop) : loop'[i] = loop[i]
          /\ \A i \in 1 .. Len(<<m>>) : loop'[Len(loop) + i] = <<"write", <<m>>[i]>>
      BY <1>3, <2>1, ScheduleTypes
    <3>2. Len(<<m>>) = 1 /\ <<m>>[1] = m /\ 1 \in 1 .. 1
      OBVIOUS
    <3> QED BY <3>1, <3>2
  <2>4. PeerTypes'
    BY <1>1, <1>3, <2>3 DEF PeerTypes
  <2>5. OneAtATime'
    <3>1. \A i \in DOMAIN loop' : loop'[i][1] # "connect"
      <4>1. DOMAIN loop' = 1 .. Len(loop') /\ DOMAIN loop = 1 .. Len(loop) /\ Len(loop) \in Nat
        BY <2>3, LenProperties DEF PeerTypes
      <4>2. \A i \in 1 .. Len(loop) : loop[i][1] # "connect"
        BY <1>3, <4>1 DEF OneAtATime
      <4> QED BY <2>3, <4>1, <4>2
    <3> QED BY <1>1, <1>3, <3>1 DEF OneAtATime
  <2> QED BY <1>2, <2>2, <2>4, <2>5
<1>4. CASE transport = "none" /\ pc' = "failed" /\ UNCHANGED <<loop, accepted>>
  <2>1. PeerTypes' /\ OneAtATime'
    BY <1>1, <1>4 DEF PeerTypes, OneAtATime
  <2> QED BY <1>1, <1>2, <1>4, <2>1, SameWires
<1> QED BY <1>3, <1>4 DEF Send

\* A step of the test thread that changes only where it is.
LEMMA LocalKeeps ==
  ASSUME ExactInv, NEW next \in {"idle", "verack", "ping0", "failed", "out"}, Local(next),
         mark' \in Nat,
         budget' \in [sends : Nat, connects : Nat, talk : Nat, timeouts : Nat],
         next # "failed" => pc \notin {"connecting", "failed"} \/ transport # "none"
  PROVE  ExactInv'
<1> USE DEF ExactInv
<1>1. /\ pc' = next
      /\ UNCHANGED <<ping_counter, last_message, transport, netpc, loop, recvbuf, toNode, toPeer,
                     node, accepted, got, sent, delivered>>
  BY DEF Local, peer
<1>2. PeerTypes' /\ OneAtATime'
  BY <1>1 DEF PeerTypes, OneAtATime
<1> QED BY <1>1, <1>2, SameWires, SameBytes

\* The helpers of the test: connects, waits, sends, disconnects.
LEMMA TestThreadKeeps == ASSUME ExactInv, TestThread PROVE ExactInv'
<1> DEFINE B == [sends : Nat, connects : Nat, talk : Nat, timeouts : Nat]
<1>1. budget \in B /\ mark \in Nat /\ Len(accepted) \in Nat /\ loop \in Seq(Callbacks)
  BY LenProperties DEF ExactInv, PeerTypes
<1>2. CASE PeerConnect
  <2>1. /\ pc = "out" /\ transport = "none" /\ pc' = "connecting" /\ recvbuf' = <<>>
        /\ loop' = Append(loop, <<"connect", <<>> >>) /\ budget' \in B
        /\ UNCHANGED <<ping_counter, last_message, transport, netpc, toNode, toPeer, node,
                       accepted, got, sent, delivered, mark>>
    BY <1>1, <1>2 DEF PeerConnect
  <2>2. <<"connect", <<>> >> \in Callbacks
    BY DEF Callbacks
  <2>3. loop' \in Seq(Callbacks)
    BY <1>1, <2>1, <2>2, AppendProperties
  <2>4. PeerTypes'
    BY <2>1, <2>3 DEF ExactInv, PeerTypes
  <2>5. OneAtATime'
    <3>1. /\ DOMAIN loop' = 1 .. Len(loop) + 1 /\ Len(loop') = Len(loop) + 1 /\ Len(loop) \in Nat
          /\ DOMAIN loop = 1 .. Len(loop)
          /\ \A i \in 1 .. Len(loop) : loop'[i] = loop[i]
      BY <1>1, <2>1, <2>2, AppendProperties, LenProperties
    <3>2. \A i \in 1 .. Len(loop) : loop[i][1] # "connect"
      BY <2>1, <3>1 DEF ExactInv, OneAtATime
    <3>3. \A i \in DOMAIN loop' : loop'[i][1] = "connect" => i = Len(loop')
      BY <3>1, <3>2
    <3> QED BY <2>1, <3>3 DEF ExactInv, OneAtATime
  <2>6. ReadInOrder' /\ WritesInOrder' /\ DeliveredInOrder' /\ BytesInOrder'
    BY <2>1 DEF ExactInv, ReadInOrder, WritesInOrder, DeliveredInOrder, BytesInOrder
  <2> QED BY <2>4, <2>5, <2>6 DEF ExactInv
<1>3. CASE WaitIsConnected
  BY <1>1, <1>3, LocalKeeps DEF WaitIsConnected
<1>4. CASE WaitForVerack
  BY <1>1, <1>4, LocalKeeps DEF WaitForVerack
<1>5. CASE BeginSync
  <2>1. budget' \in B
    BY <1>1, <1>5 DEF BeginSync
  <2> QED BY <1>1, <1>5, <2>1, LocalKeeps DEF BeginSync
<1>6. CASE Ping0
  <2>1. Msg("ping", 0) \in Messages
    BY MsgType DEF Types
  <2> QED BY <1>1, <1>6, <2>1, SendKeeps DEF Ping0
<1>7. CASE Ping1
  <2>1. Msg("ping", ping_counter) \in Messages
    BY MsgType DEF Types, ExactInv, PeerTypes
  <2> QED BY <1>1, <1>7, <2>1, SendKeeps DEF Ping1
<1>8. CASE SyncReturns
  <2>1. /\ pc' = "idle" /\ ping_counter' = ping_counter + 1 /\ transport # "none"
        /\ UNCHANGED <<last_message, transport, netpc, loop, recvbuf, toNode, toPeer, node, budget,
                       accepted, got, sent, delivered, mark>>
    BY <1>8 DEF SyncReturns
  <2>2. PeerTypes' /\ OneAtATime'
    BY <2>1 DEF ExactInv, PeerTypes, OneAtATime
  <2> QED BY <2>1, <2>2, SameWires, SameBytes DEF ExactInv
<1>9. CASE WaitFails
  BY <1>1, <1>9, LocalKeeps DEF WaitFails
<1>10. CASE WaitTimesOut
  <2>1. budget' \in B
    BY <1>1, <1>10 DEF WaitTimesOut
  <2> QED BY <1>1, <1>10, <2>1, LocalKeeps DEF WaitTimesOut
<1>11. CASE SendMessage
  <2>1. budget' \in B
    BY <1>1, <1>11 DEF SendMessage
  <2>2. Msg("tx", 0) \in Messages
    BY MsgType DEF Types
  <2> QED BY <1>1, <1>11, <2>1, <2>2, SendKeeps DEF SendMessage
<1>12. CASE PeerDisconnect
  <2>1. /\ pc = "idle" /\ pc' = "leaving" /\ loop' = Append(loop, <<"abort", <<>> >>)
        /\ UNCHANGED <<ping_counter, last_message, transport, netpc, recvbuf, toNode, toPeer, node,
                       budget, accepted, got, sent, delivered, mark>>
    BY <1>12 DEF PeerDisconnect
  <2>2. <<"abort", <<>> >> \in Callbacks
    BY DEF Callbacks
  <2>3. /\ loop' \in Seq(Callbacks)
        /\ DOMAIN loop' = 1 .. Len(loop) + 1 /\ Len(loop') = Len(loop) + 1 /\ Len(loop) \in Nat
        /\ DOMAIN loop = 1 .. Len(loop)
        /\ loop'[Len(loop) + 1] = <<"abort", <<>> >>
        /\ \A i \in 1 .. Len(loop) : loop'[i] = loop[i]
    BY <1>1, <2>1, <2>2, AppendProperties, LenProperties
  <2>4. PeerTypes'
    BY <2>1, <2>3 DEF ExactInv, PeerTypes
  <2>5. \A i \in 1 .. Len(loop) : loop[i][1] # "connect"
    BY <2>1, <2>3 DEF ExactInv, OneAtATime
  <2>6. OneAtATime'
    <3>1. \A i \in DOMAIN loop' : loop'[i][1] # "connect"
      BY <2>3, <2>5
    <3> QED BY <2>1, <3>1 DEF ExactInv, OneAtATime
  <2>7. ReadInOrder' /\ DeliveredInOrder' /\ BytesInOrder'
    BY <2>1, SameBytes DEF ExactInv, ReadInOrder
  <2>8. WritesInOrder'
    <3>1. ~ WritesFrom(Len(loop))'
      <4>1. Len(loop) + 1 \in 1 .. Len(loop') /\ loop'[Len(loop) + 1][1] # "write"
        BY <2>3
      <4> QED BY <4>1 DEF WritesFrom
    <3>2. \A i \in 1 .. Len(loop') : WritesFrom(i)' => i \in 1 .. Len(loop) /\ WritesFrom(i)
      <4> SUFFICES ASSUME NEW i \in 1 .. Len(loop'), WritesFrom(i)'
                   PROVE  i \in 1 .. Len(loop) /\ WritesFrom(i)
        OBVIOUS
      <4>1. \A j \in 1 .. i : loop'[j][1] = "write"
        BY DEF WritesFrom
      <4>2. i # Len(loop) + 1
        <5> SUFFICES ASSUME i = Len(loop) + 1 PROVE FALSE
          OBVIOUS
        <5>1. loop'[i][1] = "write"
          BY <2>3, <4>1
        <5> QED BY <2>3, <5>1
      <4>3. i \in 1 .. Len(loop)
        BY <2>3, <4>2
      <4>4. \A j \in 1 .. i : loop[j][1] = "write"
        BY <2>3, <4>1, <4>3
      <4> QED BY <4>3, <4>4 DEF WritesFrom
    <3> QED BY <2>1, <2>3, <3>1, <3>2 DEF ExactInv, WritesInOrder
  <2> QED BY <2>4, <2>6, <2>7, <2>8 DEF ExactInv
<1>13. CASE WaitForDisconnect
  BY <1>1, <1>13, LocalKeeps DEF WaitForDisconnect
<1> QED BY <1>2, <1>3, <1>4, <1>5, <1>6, <1>7, <1>8, <1>9, <1>10, <1>11, <1>12, <1>13 DEF TestThread

\* on_message remembers the message and sends what answers it, never a ping.
LEMMA OnMessageSends ==
  ASSUME PeerTypes, NEW m \in Messages, OnMessage(m)
  PROVE  /\ last_message' \in [verack : BOOLEAN, pong : Seq(Nat)]
         /\ \E ms \in Seq(Messages) : Schedule(ms) /\ \A i \in 1 .. Len(ms) : ms[i][1] # "ping"
<1>1. m[1] \in Types /\ m[2] \in Nat /\ <<m[2]>> \in Seq(Nat)
  BY DEF Messages
<1>2. last_message' \in [verack : BOOLEAN, pong : Seq(Nat)]
  BY <1>1 DEF OnMessage, PeerTypes
<1>3. /\ Msg("wtxidrelay", 0) \in Messages /\ Msg("verack", 0) \in Messages
      /\ Msg("getaddr", 0) \in Messages /\ Msg("getdata", 0) \in Messages
      /\ Msg("pong", m[2]) \in Messages
      /\ Msg("wtxidrelay", 0)[1] # "ping" /\ Msg("verack", 0)[1] # "ping"
      /\ Msg("getaddr", 0)[1] # "ping" /\ Msg("getdata", 0)[1] # "ping"
      /\ Msg("pong", m[2])[1] # "ping"
  BY <1>1, MsgType DEF Types
<1>4. UNCHANGED <<loop, accepted>> => Schedule(<<>>)
  <2>1. [i \in DOMAIN <<>> |-> <<"write", <<>>[i]>>] = <<>>
    OBVIOUS
  <2>2. loop \o <<>> = loop /\ accepted \o <<>> = accepted
    BY ConcatEmptySeq DEF PeerTypes
  <2> QED BY <2>1, <2>2 DEF Schedule
<1> DEFINE Answers(ms) == ms \in Seq(Messages) /\ Schedule(ms)
                          /\ \A i \in 1 .. Len(ms) : ms[i][1] # "ping"
<1>5. \/ Schedule(<<Msg("wtxidrelay", 0), Msg("verack", 0), Msg("getaddr", 0)>>)
      \/ Schedule(<<Msg("getdata", 0)>>) \/ Schedule(<<Msg("pong", m[2])>>)
      \/ UNCHANGED <<loop, accepted>>
  BY DEF OnMessage
<1>6. \E ms : Answers(ms)
  <2>1. CASE Schedule(<<Msg("wtxidrelay", 0), Msg("verack", 0), Msg("getaddr", 0)>>)
    <3>1. ASSUME NEW a \in Messages, NEW b \in Messages, NEW c \in Messages,
                 a[1] # "ping", b[1] # "ping", c[1] # "ping"
          PROVE  <<a, b, c>> \in Seq(Messages) /\ \A i \in 1 .. Len(<<a, b, c>>) : <<a, b, c>>[i][1] # "ping"
      BY <3>1
    <3> QED BY <1>3, <2>1, <3>1
  <2>2. ASSUME NEW a \in Messages, a[1] # "ping", Schedule(<<a>>) PROVE Answers(<<a>>)
    BY <2>2
  <2>3. UNCHANGED <<loop, accepted>> => Answers(<<>>)
    BY <1>4
  <2> HIDE DEF Answers
  <2>4. Schedule(<<Msg("getdata", 0)>>) => \E ms : Answers(ms)
    BY <1>3, <2>2
  <2>5. Schedule(<<Msg("pong", m[2])>>) => \E ms : Answers(ms)
    BY <1>3, <2>2
  <2> QED BY <1>5, <2>1, <2>3, <2>4, <2>5
<1> QED BY <1>2, <1>6

\* connection_made: the connection starts with nothing on it.
LEMMA ConnectionMadeKeeps == ASSUME ExactInv, ConnectionMade PROVE ExactInv'
<1> USE DEF ExactInv
<1>1. /\ loop # <<>> /\ loop[1][1] = "connect" /\ loop' = Tail(loop)
      /\ transport' = "open" /\ netpc' = "made" /\ node' = [NodeOff EXCEPT !.phase = "new"]
      /\ toNode' = <<>> /\ toPeer' = <<>> /\ mark' = 0
      /\ accepted' = <<>> /\ got' = <<>> /\ sent' = <<>> /\ delivered' = <<>>
      /\ UNCHANGED <<pc, ping_counter, last_message, recvbuf, budget>>
  BY DEF ConnectionMade
<1>2. loop \in Seq(Callbacks) /\ Len(loop) \in Nat \ {0} /\ DOMAIN loop = 1 .. Len(loop)
  BY <1>1, EmptySeq, LenProperties DEF PeerTypes
<1>3. Len(loop) = 1 /\ transport = "none" /\ recvbuf = <<>>
  BY <1>1, <1>2 DEF OneAtATime
<1>4. loop' = <<>>
  <2>1. Len(loop') = 0 /\ loop' \in Seq(Callbacks)
    BY <1>1, <1>2, <1>3, HeadTailProperties
  <2> QED BY <2>1, EmptySeq
<1>5. PeerTypes'
  <2>1. node' \in [phase : {"off", "new", "version", "up"}, turn : {"process", "send"}, flushed : Nat]
    BY <1>1 DEF NodeOff
  <2> QED BY <1>1, <1>4, <2>1 DEF PeerTypes
<1>6. OneAtATime' /\ ReadInOrder' /\ WritesInOrder' /\ DeliveredInOrder'
  <2>1. Len(<<>>) = 0 /\ DOMAIN <<>> = {} /\ 1 .. 0 = {}
    OBVIOUS
  <2>2. OneAtATime'
    BY <1>1, <1>4, <2>1 DEF OneAtATime
  <2>3. ReadInOrder' /\ DeliveredInOrder'
    BY <1>1, <2>1 DEF ReadInOrder, DeliveredInOrder
  <2>4. WritesInOrder'
    <3>1. Len(accepted') = 0 /\ Len(got') = 0 /\ Len(toNode') = 0 /\ Len(loop') = 0
      BY <1>1, <1>4, <2>1
    <3>2. Len(accepted') = Len(got') + Len(toNode') + Len(loop')
      BY <3>1
    <3>3. 1 .. Len(loop') = {}
      BY <2>1, <3>1
    <3> QED BY <3>2, <3>3 DEF WritesInOrder
  <2> QED BY <2>2, <2>3, <2>4
<1>7. BytesInOrder'
  <2>1. Undelivered' = <<>>
    BY <1>1 DEF Undelivered
  <2>2. Stream(Undelivered)' = Stream(Undelivered')
    BY DEF Stream, Pieces
  <2>3. recvbuf' \o toPeer' = <<>>
    BY <1>1, <1>3
  <2> QED BY <2>1, <2>2, <2>3, BytesType DEF BytesInOrder
<1> QED BY <1>5, <1>6, <1>7

\* maybe_write and abort, in the order in which they were scheduled.
LEMMA RunCallbackKeeps == ASSUME ExactInv, RunCallback PROVE ExactInv'
<1> USE DEF ExactInv
<1>1. /\ netpc = "idle" /\ loop # <<>> /\ Head(loop)[1] # "connect" /\ loop' = Tail(loop)
      /\ toNode' = IF Head(loop)[1] = "write" /\ transport = "open"
                   THEN Append(toNode, Head(loop)[2]) ELSE toNode
      /\ transport' = IF Head(loop)[1] = "abort" /\ transport = "open" THEN "closing" ELSE transport
      /\ UNCHANGED <<pc, ping_counter, last_message, netpc, recvbuf, toPeer, node, budget,
                     accepted, got, sent, delivered, mark>>
  BY DEF RunCallback
<1>2. /\ loop \in Seq(Callbacks) /\ Len(loop) \in Nat \ {0} /\ DOMAIN loop = 1 .. Len(loop)
      /\ toNode \in Seq(Messages) /\ Len(toNode) \in Nat /\ Len(got) \in Nat /\ Len(accepted) \in Nat
  BY <1>1, EmptySeq, LenProperties DEF PeerTypes
<1>3. /\ Head(loop) = loop[1] /\ loop[1] \in Callbacks
      /\ loop' \in Seq(Callbacks) /\ Len(loop') = Len(loop) - 1
      /\ DOMAIN loop' = 1 .. Len(loop')
      /\ \A i \in 1 .. Len(loop') : loop'[i] = loop[i + 1]
  BY <1>1, <1>2, HeadTailProperties, ElementOfSeq, LenProperties
<1>4. loop[1][1] = "write" => loop[1][2] \in Messages
  BY <1>3 DEF Callbacks
<1>5. toNode' \in Seq(Messages)
  BY <1>1, <1>2, <1>3, <1>4, AppendProperties
<1>6. PeerTypes'
  BY <1>1, <1>3, <1>5 DEF PeerTypes
<1>7. OneAtATime'
  <2>1. \A i \in DOMAIN loop' : loop'[i][1] = "connect" =>
          i = Len(loop') /\ transport' = "none" /\ pc' \in {"connecting", "failed"}
    <3> SUFFICES ASSUME NEW i \in DOMAIN loop', loop'[i][1] = "connect"
                 PROVE  i = Len(loop') /\ transport' = "none" /\ pc' \in {"connecting", "failed"}
      OBVIOUS
    <3>1. i + 1 \in DOMAIN loop /\ loop[i + 1][1] = "connect"
      BY <1>2, <1>3, SMTT(30)
    <3>2. i + 1 = Len(loop) /\ transport = "none" /\ pc \in {"connecting", "failed"}
      BY <3>1 DEF OneAtATime
    <3> QED BY <1>1, <1>2, <1>3, <3>2
  <2> QED BY <1>1, <2>1 DEF OneAtATime
<1>8. DeliveredInOrder' /\ BytesInOrder'
  BY <1>1 DEF DeliveredInOrder, BytesInOrder, Undelivered, Stream, Pieces
<1>9. CASE loop[1][1] = "write" /\ transport = "open"
  <2> DEFINE n == Len(got) + Len(toNode)
  <2>1. /\ toNode' = Append(toNode, loop[1][2]) /\ transport' = "open"
        /\ Len(toNode') = Len(toNode) + 1
        /\ toNode'[Len(toNode) + 1] = loop[1][2]
        /\ \A i \in 1 .. Len(toNode) : toNode'[i] = toNode[i]
    BY <1>1, <1>2, <1>3, <1>4, <1>9, AppendProperties
  <2>2. WritesFrom(1) /\ 1 \in 1 .. Len(loop)
    BY <1>2, <1>9 DEF WritesFrom
  <2>3. n + 1 <= Len(accepted) /\ loop[1][2] = accepted[n + 1]
    BY <1>9, <2>2 DEF WritesInOrder
  <2>4. ReadInOrder'
    <3>1. ASSUME NEW i \in 1 .. Len(toNode') PROVE toNode'[i] = accepted[Len(got) + i]
      <4>1. CASE i \in 1 .. Len(toNode)
        BY <2>1, <4>1 DEF ReadInOrder
      <4>2. CASE i \notin 1 .. Len(toNode)
        <5>1. i = Len(toNode) + 1 /\ Len(got) + i = n + 1
          <6>1. i \in 1 .. Len(toNode) + 1
            BY <2>1
          <6> QED BY <1>2, <4>2, <6>1
        <5> QED BY <2>1, <2>3, <5>1
      <4> QED BY <4>1, <4>2
    <3>2. Len(got) + Len(toNode') <= Len(accepted)
      BY <1>2, <2>1, <2>3
    <3>3. \A i \in 1 .. Len(got) : got[i] = accepted[i]
      BY DEF ReadInOrder
    <3> QED BY <1>1, <3>1, <3>2, <3>3 DEF ReadInOrder
  <2>5. \A i \in Nat : WritesFrom(i)' /\ i <= Len(loop') => WritesFrom(i + 1)
    <3> SUFFICES ASSUME NEW i \in Nat, WritesFrom(i)', i <= Len(loop'), NEW j \in 1 .. i + 1
                 PROVE  loop[j][1] = "write"
      BY DEF WritesFrom
    <3>1. CASE j = 1
      BY <1>9, <3>1
    <3>2. CASE j # 1
      <4>1. j - 1 \in 1 .. i /\ j - 1 \in 1 .. Len(loop') /\ (j - 1) + 1 = j
        BY <1>2, <1>3, <3>2
      <4>2. loop'[j - 1][1] = "write"
        BY <4>1 DEF WritesFrom
      <4> QED BY <1>3, <4>1, <4>2
    <3> QED BY <3>1, <3>2
  <2>6. ASSUME NEW i \in 1 .. Len(loop'), WritesFrom(i)'
        PROVE  /\ Len(got) + Len(toNode') + i <= Len(accepted)
               /\ loop'[i][2] = accepted[Len(got) + Len(toNode') + i]
    <3>1. i \in Nat /\ i + 1 \in 1 .. Len(loop) /\ i <= Len(loop')
      BY <1>2, <1>3
    <3>2. WritesFrom(i + 1)
      BY <2>5, <2>6, <3>1
    <3>3. n + (i + 1) <= Len(accepted) /\ loop[i + 1][2] = accepted[n + (i + 1)]
      BY <1>9, <3>1, <3>2 DEF WritesInOrder
    <3>4. n + (i + 1) = Len(got) + Len(toNode') + i
      <4>1. n + (i + 1) = Len(got) + (Len(toNode) + 1) + i
        BY <1>2, <3>1
      <4> QED BY <2>1, <4>1
    <3> QED BY <1>3, <3>3, <3>4
  <2>7. WritesFrom(Len(loop))' => Len(accepted) = Len(got) + Len(toNode') + Len(loop')
    <3>1. Len(loop') \in Nat /\ Len(loop') <= Len(loop') /\ Len(loop') + 1 = Len(loop)
      BY <1>2, <1>3
    <3>2. WritesFrom(Len(loop))' => WritesFrom(Len(loop))
      <4> SUFFICES ASSUME WritesFrom(Len(loop))', NEW j \in 1 .. Len(loop)
                   PROVE  loop[j][1] = "write"
        BY DEF WritesFrom
      <4>1. CASE j = 1
        BY <1>9, <4>1
      <4>2. CASE j # 1
        <5>1. j - 1 \in 1 .. Len(loop') /\ (j - 1) + 1 = j
          BY <1>2, <1>3, <4>2
        <5>2. loop'[j - 1][1] = "write"
          BY <5>1 DEF WritesFrom
        <5> QED BY <1>3, <5>1, <5>2
      <4> QED BY <4>1, <4>2
    <3>3. WritesFrom(Len(loop)) => Len(accepted) = n + Len(loop)
      BY <1>9 DEF WritesInOrder
    <3>4. n + Len(loop) = Len(got) + Len(toNode') + Len(loop')
      <4>1. n + Len(loop) = Len(got) + (Len(toNode) + 1) + Len(loop')
        BY <1>2, <3>1
      <4> QED BY <2>1, <4>1
    <3> QED BY <3>2, <3>3, <3>4
  <2>8. WritesInOrder'
    BY <1>1, <2>6, <2>7 DEF WritesInOrder
  <2> QED BY <1>6, <1>7, <1>8, <2>4, <2>8
<1>10. CASE ~(loop[1][1] = "write" /\ transport = "open")
  <2>1. loop[1][1] \in {"connect", "abort", "write"}
    BY <1>3 DEF Callbacks
  <2>2. transport' # "open" /\ UNCHANGED toNode
    BY <1>1, <1>3, <1>10, <2>1
  <2>3. ReadInOrder' /\ WritesInOrder'
    BY <1>1, <2>2 DEF ReadInOrder, WritesInOrder
  <2> QED BY <1>6, <1>7, <1>8, <2>3
<1> QED BY <1>9, <1>10

\* _on_data: a message is delivered in its turn, or is none and ends the connection.
LEMMA ReadMessageKeeps == ASSUME ExactInv, ReadMessage PROVE ExactInv'
<1> USE DEF ExactInv
<1> DEFINE m == recvbuf[1][1]
<1>1. /\ netpc = "reading" /\ Len(recvbuf) >= Units
      /\ recvbuf' = SubSeq(recvbuf, Units + 1, Len(recvbuf))
      /\ UNCHANGED <<pc, ping_counter, toNode, toPeer, node, budget, got, sent, mark>>
  BY DEF ReadMessage
<1>2. transport = "open"
  BY <1>1 DEF OneAtATime
<1>3. /\ Len(delivered) + 1 \in 1 .. Len(sent) /\ m = sent[Len(delivered) + 1] /\ m \in Messages
      /\ recvbuf' \in PieceSeqs
      /\ recvbuf' \o toPeer' = Stream(SubSeq(sent, Len(delivered) + 2, Len(sent)))
  BY <1>1, <1>2, NextInBuffer
<1>4. delivered \in Seq(Messages) /\ Len(delivered) \in Nat /\ Len(sent) \in Nat
      /\ loop \in Seq(Callbacks) /\ Len(loop) \in Nat /\ DOMAIN loop = 1 .. Len(loop)
  BY LenProperties DEF PeerTypes
<1>5. CASE m[1] = "unknown"
  <2>1. transport' = "closing" /\ netpc' = "idle" /\ UNCHANGED <<last_message, loop, accepted, delivered>>
    BY <1>5 DEF ReadMessage
  <2>2. PeerTypes'
    BY <1>1, <1>3, <2>1 DEF PeerTypes, PieceSeqs
  <2>3. OneAtATime' /\ ReadInOrder' /\ WritesInOrder' /\ DeliveredInOrder' /\ BytesInOrder'
    BY <1>1, <1>2, <2>1 DEF OneAtATime, ReadInOrder, WritesInOrder, DeliveredInOrder, BytesInOrder
  <2> QED BY <2>2, <2>3
<1>6. CASE m[1] # "unknown"
  <2>1. /\ OnMessage(m) /\ delivered' = Append(delivered, m) /\ UNCHANGED <<transport, netpc>>
    BY <1>6 DEF ReadMessage
  <2>2. PICK ms \in Seq(Messages) : Schedule(ms)
    BY <1>3, <2>1, OnMessageSends
  <2>3. ReadInOrder' /\ WritesInOrder'
    BY <1>1, <2>1, <2>2, ScheduleKeepsOrder
  <2>4. /\ loop' \in Seq(Callbacks) /\ accepted' \in Seq(Messages)
        /\ Len(loop') = Len(loop) + Len(ms) /\ Len(ms) \in Nat /\ DOMAIN loop' = 1 .. Len(loop')
        /\ \A i \in 1 .. Len(loop) : loop'[i] = loop[i]
        /\ \A i \in 1 .. Len(ms) : loop'[Len(loop) + i] = <<"write", ms[i]>>
    BY <2>2, ScheduleTypes, LenProperties
  <2>5. /\ delivered' \in Seq(Messages) /\ Len(delivered') = Len(delivered) + 1
        /\ delivered'[Len(delivered) + 1] = m
        /\ \A i \in 1 .. Len(delivered) : delivered'[i] = delivered[i]
    BY <1>3, <1>4, <2>1, AppendProperties
  <2>6. PeerTypes'
    <3>1. last_message' \in [verack : BOOLEAN, pong : Seq(Nat)]
      BY <1>3, <2>1, OnMessageSends
    <3> QED BY <1>1, <1>3, <2>1, <2>4, <2>5, <3>1 DEF PeerTypes, PieceSeqs
  <2>7. OneAtATime'
    <3>1. \A i \in 1 .. Len(loop) : loop[i][1] # "connect"
      BY <1>2, <1>4 DEF OneAtATime
    <3>2. ASSUME NEW i \in 1 .. Len(loop') PROVE loop'[i][1] # "connect"
      <4>1. CASE i <= Len(loop)
        BY <1>4, <2>4, <3>1, <4>1
      <4>2. CASE ~(i <= Len(loop))
        <5>1. i - Len(loop) \in 1 .. Len(ms) /\ Len(loop) + (i - Len(loop)) = i
          BY <1>4, <2>4, <4>2
        <5>2. loop'[Len(loop) + (i - Len(loop))] = <<"write", ms[i - Len(loop)]>>
          BY <2>4, <5>1
        <5> QED BY <5>1, <5>2
      <4> QED BY <4>1, <4>2
    <3> QED BY <1>1, <1>2, <2>1, <2>4, <3>2 DEF OneAtATime
  <2>8. DeliveredInOrder'
    <3>1. ASSUME NEW i \in 1 .. Len(delivered') PROVE delivered'[i] = sent[i]
      <4>1. CASE i \in 1 .. Len(delivered)
        BY <2>5, <4>1 DEF DeliveredInOrder
      <4>2. CASE i \notin 1 .. Len(delivered)
        <5>1. i \in 1 .. Len(delivered) + 1
          BY <2>5
        <5>2. i = Len(delivered) + 1
          BY <1>4, <4>2, <5>1
        <5> QED BY <1>3, <2>5, <5>2
      <4> QED BY <4>1, <4>2
    <3> QED BY <1>1, <1>3, <1>4, <2>5, <3>1 DEF DeliveredInOrder
  <2>9. BytesInOrder'
    <3>1. Undelivered' = SubSeq(sent, Len(delivered) + 2, Len(sent))
      <4>1. (Len(delivered) + 1) + 1 = Len(delivered) + 2
        BY <1>4
      <4> QED BY <1>1, <2>5, <4>1 DEF Undelivered
    <3>2. Stream(Undelivered)' = Stream(Undelivered')
      BY DEF Stream, Pieces
    <3> QED BY <1>3, <3>1, <3>2 DEF BytesInOrder
  <2> QED BY <2>3, <2>6, <2>7, <2>8, <2>9
<1> QED BY <1>5, <1>6

\* data_received: the pieces move from the socket to the buffer.
LEMMA DataReceivedKeeps ==
  ASSUME ExactInv, NEW n \in 1 .. Len(toPeer), DataReceived(n)
  PROVE  ExactInv'
<1> USE DEF ExactInv
<1>1. /\ netpc = "idle" /\ transport = "open" /\ netpc' = "reading"
      /\ recvbuf' = recvbuf \o SubSeq(toPeer, 1, n)
      /\ toPeer' = SubSeq(toPeer, n + 1, Len(toPeer))
      /\ UNCHANGED <<pc, ping_counter, last_message, transport, loop, toNode, node, budget,
                     accepted, got, sent, delivered, mark>>
  BY DEF DataReceived
<1> DEFINE a == SubSeq(toPeer, 1, n)
           b == SubSeq(toPeer, n + 1, Len(toPeer))
<1>2. /\ toPeer \in PieceSeqs /\ Len(toPeer) \in Nat /\ recvbuf \in PieceSeqs
      /\ n \in Nat /\ n <= Len(toPeer) /\ n >= 1
  BY LenProperties DEF PeerTypes, PieceSeqs
<1>3. a \in PieceSeqs /\ b \in PieceSeqs
  BY <1>2 DEF PieceSeqs
<1>4. a \o b = toPeer
  <2>1. SubSeq(toPeer, 1, n) \o SubSeq(toPeer, n + 1, Len(toPeer)) = SubSeq(toPeer, 1, Len(toPeer))
    <3> DEFINE S == Messages \X Nat
    <3>1. /\ toPeer \in Seq(S) /\ 1 \in 1 .. Len(toPeer) + 1 /\ n \in 1 - 1 .. Len(toPeer)
          /\ Len(toPeer) \in n .. Len(toPeer)
      BY <1>2 DEF PieceSeqs
    <3> HIDE DEF S
    <3> QED BY <3>1, ConcatAdjacentSubSeq
  <2>2. SubSeq(toPeer, 1, Len(toPeer)) = toPeer
    BY <1>2, SubSeqFull DEF PieceSeqs
  <2> QED BY <2>1, <2>2
<1> HIDE DEF a, b
<1>5. recvbuf' \o toPeer' = recvbuf \o toPeer /\ recvbuf' \in PieceSeqs /\ toPeer' \in PieceSeqs
  <2>1. recvbuf' = recvbuf \o a /\ toPeer' = b
    BY <1>1 DEF a, b
  <2> QED BY <1>2, <1>3, <1>4, <2>1, PiecesAssoc
<1>6. PeerTypes' /\ OneAtATime'
  BY <1>1, <1>5 DEF PeerTypes, PieceSeqs, OneAtATime
<1>7. ReadInOrder' /\ WritesInOrder'
  BY <1>1, SameWires
<1>8. DeliveredInOrder'
  BY <1>1 DEF DeliveredInOrder
<1>9. BytesInOrder'
  BY <1>1, <1>5 DEF BytesInOrder, Stream, Pieces, Undelivered
<1> QED BY <1>6, <1>7, <1>8, <1>9

\* connection_made, its second half: the version message is the first to be sent.
LEMMA SendVersionKeeps == ASSUME ExactInv, SendVersion PROVE ExactInv'
<1> USE DEF ExactInv
<1> DEFINE v == Msg("version", 0)
<1>1. /\ netpc = "made" /\ Schedule(<<v>>) /\ netpc' = "idle"
      /\ UNCHANGED <<pc, ping_counter, last_message, transport, recvbuf, toNode, toPeer, node, budget,
                     got, sent, delivered, mark>>
  BY DEF SendVersion
<1>2. v \in Messages
  BY MsgType DEF Types
<1> HIDE DEF v
<1>3. <<v>> \in Seq(Messages) /\ Len(<<v>>) = 1 /\ <<v>>[1] = v /\ 1 \in 1 .. 1
  BY <1>2
<1>4. /\ loop' \in Seq(Callbacks) /\ accepted' \in Seq(Messages)
      /\ Len(loop') = Len(loop) + Len(<<v>>)
      /\ \A i \in 1 .. Len(loop) : loop'[i] = loop[i]
      /\ \A i \in 1 .. Len(<<v>>) : loop'[Len(loop) + i] = <<"write", <<v>>[i]>>
  BY <1>1, <1>3, ScheduleTypes
<1>5. Len(loop') = Len(loop) + 1 /\ loop'[Len(loop) + 1] = <<"write", v>>
  BY <1>3, <1>4
<1>6. PeerTypes'
  BY <1>1, <1>4 DEF PeerTypes
<1>7. ReadInOrder' /\ WritesInOrder'
  BY <1>1, <1>3, ScheduleKeepsOrder
<1>8. DeliveredInOrder' /\ BytesInOrder'
  BY <1>1, SameBytes
<1>9. OneAtATime'
  <2>1. DOMAIN loop' = 1 .. Len(loop') /\ DOMAIN loop = 1 .. Len(loop) /\ Len(loop) \in Nat
    BY <1>4, LenProperties DEF PeerTypes
  <2>2. transport = "open"
    BY <1>1 DEF OneAtATime
  <2>3. \A i \in 1 .. Len(loop) : loop[i][1] # "connect"
    BY <2>1, <2>2 DEF OneAtATime
  <2>4. \A i \in 1 .. Len(loop') : loop'[i][1] # "connect"
    BY <1>4, <1>5, <2>1, <2>3
  <2> QED BY <1>1, <2>1, <2>2, <2>4 DEF OneAtATime
<1> QED BY <1>6, <1>7, <1>8, <1>9

\* Everything the event loop does.
LEMMA NetworkThreadKeeps == ASSUME ExactInv, NetworkThread PROVE ExactInv'
<1> USE DEF ExactInv
<1>1. CASE ReadLess
  <2>1. /\ netpc' = "idle"
        /\ UNCHANGED <<pc, ping_counter, last_message, transport, loop, recvbuf, toNode, toPeer, node,
                       budget, accepted, got, sent, delivered, mark>>
    BY <1>1 DEF ReadLess
  <2>2. PeerTypes' /\ OneAtATime'
    BY <2>1 DEF PeerTypes, OneAtATime
  <2> QED BY <2>1, <2>2, SameWires, SameBytes
<1>2. CASE ConnectionLost
  <2>1. /\ netpc = "idle" /\ transport' = "none" /\ recvbuf' = <<>> /\ toNode' = <<>> /\ toPeer' = <<>>
        /\ node' = NodeOff /\ transport # "none"
        /\ UNCHANGED <<pc, ping_counter, last_message, netpc, loop, budget,
                       accepted, got, sent, delivered, mark>>
    BY <1>2 DEF ConnectionLost
  <2>2. PeerTypes'
    BY <2>1 DEF PeerTypes, NodeOff
  <2>3. OneAtATime'
    BY <2>1 DEF OneAtATime, NodeOff
  <2>4. DeliveredInOrder' /\ WritesInOrder' /\ BytesInOrder'
    BY <2>1 DEF DeliveredInOrder, WritesInOrder, BytesInOrder
  <2>5. ReadInOrder'
    <3>1. Len(got) \in Nat /\ Len(accepted) \in Nat /\ Len(toNode) \in Nat
      BY LenProperties DEF PeerTypes
    <3>2. Len(toNode') = 0 /\ 1 .. 0 = {}
      BY <2>1
    <3> QED BY <2>1, <3>1, <3>2 DEF ReadInOrder
  <2> QED BY <2>2, <2>3, <2>4, <2>5
<1> QED BY <1>1, <1>2, ConnectionMadeKeeps, SendVersionKeeps, RunCallbackKeeps, ReadMessageKeeps,
          DataReceivedKeeps DEF NetworkThread

\* The node reads what is next.
LEMMA NodeReadsNext ==
  ASSUME PeerTypes, ReadInOrder, WritesInOrder, toNode # <<>>,
         toNode' = Tail(toNode), got' = Append(got, Head(toNode)),
         UNCHANGED <<loop, accepted, transport>>
  PROVE  /\ toNode' \in Seq(Messages) /\ got' \in Seq(Messages) /\ Head(toNode) \in Messages
         /\ Len(got') = Len(got) + 1 /\ got'[Len(got) + 1] = Head(toNode)
         /\ \A i \in 1 .. Len(got) : got'[i] = got[i]
         /\ ReadInOrder' /\ WritesInOrder'
<1>1. /\ toNode \in Seq(Messages) /\ got \in Seq(Messages)
      /\ Len(toNode) \in Nat \ {0} /\ Len(got) \in Nat /\ Len(accepted) \in Nat
  BY EmptySeq, LenProperties DEF PeerTypes
<1>2. /\ Head(toNode) = toNode[1] /\ toNode[1] \in Messages
      /\ toNode' \in Seq(Messages) /\ Len(toNode') = Len(toNode) - 1
      /\ \A i \in 1 .. Len(toNode') : toNode'[i] = toNode[i + 1]
  BY <1>1, HeadTailProperties, ElementOfSeq
<1>3. /\ got' \in Seq(Messages) /\ Len(got') = Len(got) + 1 /\ got'[Len(got) + 1] = toNode[1]
      /\ \A i \in 1 .. Len(got) : got'[i] = got[i]
  BY <1>1, <1>2, AppendProperties
<1>4. Len(got') + Len(toNode') = Len(got) + Len(toNode)
  <2>1. (Len(got) + 1) + (Len(toNode) - 1) = Len(got) + Len(toNode)
    BY <1>1
  <2> QED BY <1>2, <1>3, <2>1
<1>5. ReadInOrder'
  <2>1. ASSUME NEW i \in 1 .. Len(got') PROVE got'[i] = accepted[i]
    <3>1. i \in 1 .. Len(got) + 1
      BY <1>3
    <3>2. CASE i \in 1 .. Len(got)
      BY <1>3, <3>2 DEF ReadInOrder
    <3>3. CASE i = Len(got) + 1
      <4>1. 1 \in 1 .. Len(toNode)
        BY <1>1
      <4>2. toNode[1] = accepted[Len(got) + 1]
        BY <4>1 DEF ReadInOrder
      <4> QED BY <1>3, <3>3, <4>2
    <3> QED BY <1>1, <3>1, <3>2, <3>3
  <2>2. ASSUME NEW i \in 1 .. Len(toNode') PROVE toNode'[i] = accepted[Len(got') + i]
    <3>1. i + 1 \in 1 .. Len(toNode) /\ Len(got) + (i + 1) = (Len(got) + 1) + i
      BY <1>1, <1>2
    <3>2. toNode'[i] = toNode[i + 1] /\ toNode[i + 1] = accepted[Len(got) + (i + 1)]
      BY <1>2, <3>1 DEF ReadInOrder
    <3> QED BY <1>3, <3>1, <3>2
  <2>3. Len(got') + Len(toNode') <= Len(accepted)
    BY <1>4 DEF ReadInOrder
  <2> QED BY <2>1, <2>2, <2>3 DEF ReadInOrder
<1>6. WritesInOrder'
  BY <1>4 DEF WritesInOrder, WritesFrom
<1> QED BY <1>2, <1>3, <1>5, <1>6

\* The node: it reads a message and may answer, it talks, it drops the connection.
LEMMA NodeKeeps ==
  ASSUME ExactInv, NodeProcess \/ NodeSendMessages \/ NodeTalks \/ NodeDrops
  PROVE  ExactInv'
<1> USE DEF ExactInv
<1> DEFINE N == [phase : {"off", "new", "version", "up"}, turn : {"process", "send"}, flushed : Nat]
<1>1. CASE NodeProcess
  <2>1. /\ toNode # <<>> /\ toNode' = Tail(toNode) /\ got' = Append(got, Head(toNode))
        /\ UNCHANGED <<pc, ping_counter, last_message, transport, netpc, loop, recvbuf,
                       budget, accepted, delivered, mark>>
        /\ node' \in N /\ node.phase # "off"
    BY <1>1 DEF NodeProcess, peer, PeerTypes
  <2>2. /\ toNode' \in Seq(Messages) /\ got' \in Seq(Messages) /\ Head(toNode) \in Messages
        /\ ReadInOrder' /\ WritesInOrder'
    BY <2>1, NodeReadsNext
  <2>3. (\E ms \in Seq(Messages) : NodeSends(ms)) \/ UNCHANGED <<sent, toPeer>>
    <3>1. /\ Head(toNode)[2] \in Nat /\ Msg("version", 0) \in Messages /\ Msg("verack", 0) \in Messages
      BY <2>2, MsgType DEF Types, Messages
    <3>2. Msg("pong", Head(toNode)[2]) \in Messages
      BY <3>1, MsgType DEF Types
    <3>3. /\ <<Msg("version", 0), Msg("verack", 0)>> \in Seq(Messages)
          /\ <<Msg("pong", Head(toNode)[2])>> \in Seq(Messages)
      BY <3>1, <3>2
    <3>4. \/ NodeSends(<<Msg("version", 0), Msg("verack", 0)>>)
          \/ NodeSends(<<Msg("pong", Head(toNode)[2])>>)
          \/ UNCHANGED <<sent, toPeer>>
      BY <1>1 DEF NodeProcess
    <3> QED BY <3>3, <3>4
  <2>4. sent' \in Seq(Messages) /\ toPeer' \in PieceSeqs /\ DeliveredInOrder' /\ BytesInOrder'
    <3>1. CASE \E ms \in Seq(Messages) : NodeSends(ms)
      BY <2>1, <3>1, NodeSendsInOrder
    <3>2. CASE UNCHANGED <<sent, toPeer>>
      BY <2>1, <3>2, SameBytes DEF PeerTypes, PieceSeqs
    <3> QED BY <2>3, <3>1, <3>2
  <2>5. PeerTypes'
    BY <2>1, <2>2, <2>4 DEF PeerTypes, PieceSeqs
  <2>6. OneAtATime'
    BY <2>1 DEF OneAtATime
  <2> QED BY <2>2, <2>4, <2>5, <2>6
<1>2. CASE NodeSendMessages
  <2>1. /\ node.phase # "off" /\ node' = [node EXCEPT !.turn = "process", !.flushed = Len(got)]
        /\ UNCHANGED <<pc, ping_counter, last_message, transport, netpc, loop, recvbuf, toNode, toPeer,
                       budget, accepted, got, sent, delivered, mark>>
    BY <1>2 DEF NodeSendMessages, peer
  <2>2. node' \in N
    BY <2>1, LenProperties DEF PeerTypes
  <2>3. PeerTypes' /\ OneAtATime'
    BY <2>1, <2>2 DEF PeerTypes, OneAtATime
  <2> QED BY <2>1, <2>3, SameWires, SameBytes
<1>3. CASE NodeTalks
  <2>1. PICK t \in {"inv", "ping", "unknown"} : NodeSends(<<Msg(t, 7)>>)
    BY <1>3 DEF NodeTalks
  <2>2. /\ node.phase = "up" /\ budget' \in [sends : Nat, connects : Nat, talk : Nat, timeouts : Nat]
        /\ UNCHANGED <<pc, ping_counter, last_message, transport, netpc, loop, recvbuf, toNode, node,
                       accepted, got, delivered, mark>>
    <3>1. budget \in [sends : Nat, connects : Nat, talk : Nat, timeouts : Nat]
      BY DEF PeerTypes
    <3>2. budget.talk > 0 /\ budget' = [budget EXCEPT !.talk = @ - 1]
      BY <1>3 DEF NodeTalks
    <3>3. budget' \in [sends : Nat, connects : Nat, talk : Nat, timeouts : Nat]
      BY <3>1, <3>2
    <3> QED BY <1>3, <3>3 DEF NodeTalks, peer
  <2>3. Msg(t, 7) \in Messages
    BY MsgType DEF Types
  <2>4. <<Msg(t, 7)>> \in Seq(Messages)
    BY <2>3
  <2>5. sent' \in Seq(Messages) /\ toPeer' \in PieceSeqs /\ DeliveredInOrder' /\ BytesInOrder'
    BY <2>1, <2>2, <2>4, NodeSendsInOrder
  <2>6. PeerTypes' /\ OneAtATime'
    BY <2>2, <2>5 DEF PeerTypes, OneAtATime, PieceSeqs
  <2> QED BY <2>2, <2>5, <2>6, SameWires
<1>4. CASE NodeDrops
  <2>1. /\ node' = NodeOff
        /\ UNCHANGED <<pc, ping_counter, last_message, transport, netpc, loop, recvbuf, toNode, toPeer,
                       budget, accepted, got, sent, delivered, mark>>
    BY <1>4 DEF NodeDrops, peer
  <2>2. PeerTypes' /\ OneAtATime'
    BY <2>1 DEF PeerTypes, OneAtATime, NodeOff
  <2> QED BY <2>1, <2>2, SameWires, SameBytes
<1> QED BY <1>1, <1>2, <1>3, <1>4

\* Every step keeps the messages exact, both ways.
LEMMA ExactNext == ASSUME ExactInv, [Next]_vars PROVE ExactInv'
<1>1. CASE UNCHANGED vars
  <2>1. UNCHANGED <<pc, ping_counter, last_message, transport, netpc, loop, recvbuf, toNode, toPeer,
                    node, budget, accepted, got, sent, delivered, mark>>
    BY <1>1 DEF vars, peer
  <2>2. PeerTypes' /\ OneAtATime'
    BY <2>1 DEF ExactInv, PeerTypes, OneAtATime
  <2> QED BY <2>1, <2>2, SameWires, SameBytes DEF ExactInv
<1> QED BY <1>1, TestThreadKeeps, NetworkThreadKeeps, NodeKeeps DEF Next

\* The order message by message is the order of the sequences.
LEMMA ExactMeansExact == ASSUME ExactInv PROVE BothWaysExact
<1> USE DEF ExactInv
<1>1. /\ got \in Seq(Messages) /\ toNode \in Seq(Messages) /\ accepted \in Seq(Messages)
      /\ sent \in Seq(Messages) /\ delivered \in Seq(Messages)
      /\ recvbuf \in PieceSeqs /\ toPeer \in PieceSeqs
      /\ Len(got) \in Nat /\ Len(toNode) \in Nat /\ Len(accepted) \in Nat
      /\ Len(sent) \in Nat /\ Len(delivered) \in Nat
  BY LenProperties DEF PeerTypes, PieceSeqs
<1>2. ASSUME NEW a \in Seq(Messages), NEW b \in Seq(Messages), Len(a) <= Len(b),
             \A i \in 1 .. Len(a) : a[i] = b[i]
      PROVE  IsPrefix(a, b)
  <2>1. Len(a) \in Nat /\ Len(b) \in Nat
    BY LenProperties
  <2>2. /\ SubSeq(b, 1, Len(a)) \in Seq(Messages) /\ Len(SubSeq(b, 1, Len(a))) = Len(a)
        /\ \A i \in 1 .. Len(a) : SubSeq(b, 1, Len(a))[i] = b[i]
    BY <1>2, <2>1
  <2>3. SubSeq(b, 1, Len(a)) = a
    BY <1>2, <2>2, SeqEqual
  <2>4. SubSeq(a, 1, Len(a)) = a
    BY SubSeqFull
  <2> QED BY <1>2, <2>3, <2>4 DEF IsPrefix
<1>3. IsPrefix(got \o toNode, accepted)
  <2>1. /\ got \o toNode \in Seq(Messages) /\ Len(got \o toNode) = Len(got) + Len(toNode)
        /\ \A i \in 1 .. Len(got) + Len(toNode) :
             (got \o toNode)[i] = IF i <= Len(got) THEN got[i] ELSE toNode[i - Len(got)]
    BY <1>1, ConcatProperties
  <2>2. ASSUME NEW i \in 1 .. Len(got) + Len(toNode) PROVE (got \o toNode)[i] = accepted[i]
    <3>1. CASE i <= Len(got)
      <4>1. i \in 1 .. Len(got)
        BY <1>1, <3>1
      <4> QED BY <2>1, <3>1, <4>1 DEF ReadInOrder
    <3>2. CASE ~(i <= Len(got))
      <4>1. i - Len(got) \in 1 .. Len(toNode) /\ Len(got) + (i - Len(got)) = i
        BY <1>1, <3>2
      <4>2. toNode[i - Len(got)] = accepted[Len(got) + (i - Len(got))]
        BY <4>1 DEF ReadInOrder
      <4> QED BY <2>1, <3>2, <4>1, <4>2
    <3> QED BY <3>1, <3>2
  <2>3. Len(got \o toNode) <= Len(accepted)
    BY <2>1 DEF ReadInOrder
  <2> QED BY <1>1, <1>2, <2>1, <2>2, <2>3
<1>4. IsPrefix(delivered, sent)
  BY <1>1, <1>2 DEF DeliveredInOrder
<1>5. ASSUME transport = "open" PROVE Stream(sent) = Stream(delivered) \o recvbuf \o toPeer
  <2> DEFINE d == Len(delivered)
  <2>1. d <= Len(sent)
    BY DEF DeliveredInOrder
  <2>2. Undelivered \in Seq(Messages)
    BY <1>1, <2>1 DEF Undelivered
  <2>3. sent = delivered \o Undelivered
    <3>1. SubSeq(sent, 1, d) \in Seq(Messages) /\ Len(SubSeq(sent, 1, d)) = d
          /\ \A i \in 1 .. d : SubSeq(sent, 1, d)[i] = sent[i]
      BY <1>1, <2>1
    <3>2. SubSeq(sent, 1, d) = delivered
      BY <1>1, <3>1, SeqEqual DEF DeliveredInOrder
    <3>3. SubSeq(sent, 1, d) \o SubSeq(sent, d + 1, Len(sent)) = SubSeq(sent, 1, Len(sent))
      <4>1. 1 \in 1 .. Len(sent) + 1 /\ d \in 1 - 1 .. Len(sent) /\ Len(sent) \in d .. Len(sent)
        BY <1>1, <2>1
      <4> QED BY <1>1, <4>1, ConcatAdjacentSubSeq
    <3>4. SubSeq(sent, 1, Len(sent)) = sent
      BY <1>1, SubSeqFull
    <3> QED BY <3>2, <3>3, <3>4 DEF Undelivered
  <2>4. Stream(sent) = Stream(delivered) \o Stream(Undelivered)
    BY <1>1, <2>2, <2>3, BytesCat
  <2>5. recvbuf \o toPeer = Stream(Undelivered) /\ Stream(delivered) \in PieceSeqs
    BY <1>1, <1>5, BytesType DEF BytesInOrder
  <2>6. (Stream(delivered) \o recvbuf) \o toPeer = Stream(delivered) \o (recvbuf \o toPeer)
    BY <1>1, <2>5, PiecesAssoc
  <2> QED BY <2>4, <2>5, <2>6
<1> QED BY <1>3, <1>4, <1>5 DEF BothWaysExact, Stream

-----------------------------------------------------------------------------
(* An object that connects once, for a test that waits for the verack and  *)
(* stops when a wait has timed out.                                        *)
(* Nothing of an earlier connection is remembered; one is asked for.       *)
Fresh == ~last_message.verack /\ last_message.pong = <<>>
Connects == \E i \in DOMAIN loop : loop[i][1] = "connect"
(* The one connection is asked for while nothing has been heard, and a test *)
(* past the handshake has heard the verack.                                *)
OnlyOnce ==
  /\ pc # "out" => budget.connects = 0
  /\ budget.connects > 0 => Fresh /\ transport = "none" /\ accepted = <<>>
  /\ budget.connects <= 1
  /\ Connects \/ netpc = "made" => Fresh /\ pc \in {"connecting", "verack", "failed"}
  /\ pc \in {"ping0", "ping1", "pong", "idle", "leaving"} => last_message.verack
  /\ Connects => accepted = <<>>

(* What is accepted on a connection begins with the version message.       *)
VersionLeads ==
  /\ netpc = "made" => accepted = <<>>
  /\ transport # "none" /\ netpc # "made" => accepted # <<>>
  /\ accepted # <<>> => accepted[1] = Msg("version", 0)

Ping(n) == Msg("ping", n)
(* A ping bears an earlier number, but for the second ping of the sync     *)
(* that runs, which has its first ping and the mark before it.             *)
PingsNumbered ==
  /\ \A k \in 1 .. Len(accepted) : accepted[k][1] = "ping" =>
       \/ accepted[k][2] < ping_counter
       \/ /\ accepted[k][2] = ping_counter /\ pc \in {"pong", "failed"}
          /\ pc = "pong" => k >= mark + 2
  /\ pc \in {"ping0", "pong"} => Len(accepted) >= mark
  /\ pc = "ping1" => Len(accepted) > mark
(* A pong says that the node was up and had read that ping; what the peer  *)
(* remembers as a pong is one the node sent.                               *)
PongsAnswer ==
  /\ \A i \in 1 .. Len(sent) : sent[i][1] = "pong" =>
       /\ node.phase \in {"up", "off"}
       /\ \E k \in 1 .. Len(got) : got[k] = Ping(sent[i][2])
  /\ last_message.pong # <<>> =>
       \E i \in 1 .. Len(sent) : sent[i][1] = "pong" /\ last_message.pong = <<sent[i][2]>>
  /\ pc \in {"idle", "leaving"} => last_message.pong # <<>>
(* The node owes SendMessages for the message it read last, if for any.    *)
Flushes == node.phase # "off" =>
  Len(got) = node.flushed + (IF node.turn = "send" THEN 1 ELSE 0)

(* The invariant of an object that connects once.                          *)
OnceInv == OnlyOnce /\ VersionLeads /\ PingsNumbered /\ PongsAnswer /\ Flushes

(* How add_p2p_connection uses a peer: a fresh object, connected once and  *)
(* waited for, in a test that does not go on after a time-out.             *)
OnePeer == WaitVerack = TRUE /\ RetryTimeouts = FALSE /\ MaxConnects <= 1

\* A fresh object remembers nothing and waits for nothing.
LEMMA OnceInit == OnePeer /\ Init => OnceInv
<1> SUFFICES ASSUME OnePeer, Init PROVE OnceInv
  OBVIOUS
<1>1. DOMAIN <<>> = {} /\ Len(<<>>) = 0 /\ 1 .. 0 = {}
  OBVIOUS
<1>2. OnlyOnce
  BY <1>1, BoundsAssumption DEF Init, OnePeer, OnlyOnce, Fresh, Connects
<1>3. VersionLeads /\ PingsNumbered /\ PongsAnswer /\ Flushes
  BY <1>1 DEF Init, VersionLeads, PingsNumbered, PongsAnswer, Flushes, NodeOff
<1> QED BY <1>2, <1>3 DEF OnceInv

\* A step of the test thread that sends nothing.
LEMMA TestStepKeeps ==
  ASSUME OnceInv,
         UNCHANGED <<last_message, transport, netpc, loop, node, accepted, got, sent>>,
         budget'.connects = budget.connects,
         pc' # "out" => budget.connects = 0,
         Connects \/ netpc = "made" => pc' \in {"connecting", "verack", "failed"},
         pc' \in {"ping0", "ping1", "pong", "idle", "leaving"} => last_message.verack,
         pc' \in {"idle", "leaving"} => last_message.pong # <<>>,
         PingsNumbered'
  PROVE  OnceInv'
<1>1. OnlyOnce' /\ VersionLeads'
  BY DEF OnceInv, OnlyOnce, VersionLeads, Fresh, Connects
<1>2. PongsAnswer' /\ Flushes'
  BY DEF OnceInv, PongsAnswer, Flushes, Ping, Msg
<1> QED BY <1>1, <1>2 DEF OnceInv

\* A test that is past the handshake has no connection to wait for.
LEMMA PastHandshake ==
  ASSUME OnceInv, pc \in {"ping0", "ping1", "pong", "idle", "leaving"}
  PROVE  /\ ~Connects /\ netpc # "made" /\ last_message.verack /\ budget.connects = 0
         /\ transport # "none" => accepted # <<>>
BY DEF OnceInv, OnlyOnce, Fresh, VersionLeads

\* A message that is sent leaves what was accepted before it where it was, and
\* asks for no connection.
LEMMA SentBehind ==
  ASSUME ExactInv, OnceInv, NEW ms \in Seq(Messages), Schedule(ms)
  PROVE  /\ Connects' => Connects
         /\ accepted # <<>> /\ accepted[1] = Msg("version", 0) =>
              accepted' # <<>> /\ accepted'[1] = Msg("version", 0)
         /\ Len(accepted) \in Nat /\ Len(accepted') = Len(accepted) + Len(ms)
         /\ \A k \in 1 .. Len(accepted) : accepted'[k] = accepted[k]
         /\ \A i \in 1 .. Len(ms) : accepted'[Len(accepted) + i] = ms[i]
<1>1. /\ loop' \in Seq(Callbacks) /\ accepted' \in Seq(Messages)
      /\ Len(loop') = Len(loop) + Len(ms) /\ Len(accepted') = Len(accepted) + Len(ms)
      /\ \A i \in 1 .. Len(loop) : loop'[i] = loop[i]
      /\ \A i \in 1 .. Len(ms) : loop'[Len(loop) + i] = <<"write", ms[i]>>
      /\ \A i \in 1 .. Len(accepted) : accepted'[i] = accepted[i]
      /\ \A i \in 1 .. Len(ms) : accepted'[Len(accepted) + i] = ms[i]
  BY ScheduleTypes DEF ExactInv
<1>2. /\ Len(loop) \in Nat /\ Len(ms) \in Nat /\ Len(accepted) \in Nat /\ accepted \in Seq(Messages)
      /\ DOMAIN loop = 1 .. Len(loop) /\ DOMAIN loop' = 1 .. Len(loop')
  BY <1>1, LenProperties DEF ExactInv, PeerTypes
<1>3. ASSUME NEW i \in DOMAIN loop', loop'[i][1] = "connect" PROVE Connects
  <2>1. CASE i <= Len(loop)
    BY <1>1, <1>2, <1>3, <2>1 DEF Connects
  <2>2. CASE ~(i <= Len(loop))
    <3>1. i - Len(loop) \in 1 .. Len(ms) /\ Len(loop) + (i - Len(loop)) = i
      BY <1>1, <1>2, <2>2
    <3>2. loop'[Len(loop) + (i - Len(loop))] = <<"write", ms[i - Len(loop)]>>
      BY <1>1, <3>1
    <3> QED BY <1>3, <3>1, <3>2
  <2> QED BY <2>1, <2>2
<1>4. Connects' => Connects
  BY <1>3 DEF Connects
<1>5. accepted # <<>> => 1 \in 1 .. Len(accepted) /\ accepted' # <<>>
  <2> SUFFICES ASSUME accepted # <<>> PROVE 1 \in 1 .. Len(accepted) /\ accepted' # <<>>
    OBVIOUS
  <2>1. Len(accepted) \in Nat \ {0}
    BY <1>2, EmptySeq
  <2>2. Len(accepted') # 0 /\ Len(<<>>) = 0
    BY <1>1, <1>2, <2>1
  <2> QED BY <2>1, <2>2
<1> QED BY <1>1, <1>2, <1>4, <1>5

\* send_message, called by the test after the handshake.
LEMMA TestSendKeeps ==
  ASSUME ExactInv, OnceInv, NEW m \in Messages, NEW next \in {"ping1", "pong", "idle"}, Send(m, next),
         pc \in {"ping0", "ping1", "idle"}, budget'.connects = budget.connects,
         UNCHANGED <<got, sent, delivered, mark>>,
         m[1] = "ping" => \/ m[2] < ping_counter
                          \/ m[2] = ping_counter /\ pc = "ping1" /\ next = "pong",
         next = "pong" => pc = "ping1", next = "ping1" => pc = "ping0", next = "idle" => pc = "idle"
  PROVE  OnceInv'
<1>1. UNCHANGED <<ping_counter, last_message, transport, netpc, recvbuf, toNode, toPeer, node>>
  BY DEF Send
<1>2. /\ ~Connects /\ netpc # "made" /\ last_message.verack /\ budget.connects = 0
      /\ transport # "none" => accepted # <<>>
  BY PastHandshake
<1>3. CASE transport # "none" /\ Schedule(<<m>>) /\ pc' = next
  <2>1. <<m>> \in Seq(Messages) /\ Len(<<m>>) = 1 /\ <<m>>[1] = m /\ 1 \in 1 .. 1
    OBVIOUS
  <2>2. /\ Connects' => Connects
        /\ accepted # <<>> /\ accepted[1] = Msg("version", 0) =>
             accepted' # <<>> /\ accepted'[1] = Msg("version", 0)
        /\ Len(accepted) \in Nat /\ Len(accepted') = Len(accepted) + Len(<<m>>)
        /\ \A k \in 1 .. Len(accepted) : accepted'[k] = accepted[k]
        /\ \A i \in 1 .. Len(<<m>>) : accepted'[Len(accepted) + i] = <<m>>[i]
    BY <1>3, <2>1, SentBehind
  <2>3. Len(accepted') = Len(accepted) + 1 /\ accepted'[Len(accepted) + 1] = m
    BY <2>1, <2>2
  <2>4. OnlyOnce'
    BY <1>1, <1>2, <1>3, <2>2 DEF OnceInv, OnlyOnce, Fresh
  <2>5. VersionLeads'
    BY <1>1, <1>2, <1>3, <2>2 DEF OnceInv, VersionLeads
  <2>6. PongsAnswer' /\ Flushes'
    BY <1>1, <1>3 DEF OnceInv, PongsAnswer, Flushes, Ping, Msg
  <2>7. PingsNumbered'
    <3>1. ASSUME NEW k \in 1 .. Len(accepted'), accepted'[k][1] = "ping"
          PROVE  \/ accepted'[k][2] < ping_counter
                 \/ /\ accepted'[k][2] = ping_counter /\ pc' \in {"pong", "failed"}
                    /\ pc' = "pong" => k >= mark + 2
      <4>1. k \in 1 .. Len(accepted) \/ k = Len(accepted) + 1
        BY <2>2, <2>3
      <4>2. CASE k \in 1 .. Len(accepted)
        BY <2>2, <3>1, <4>2 DEF OnceInv, PingsNumbered
      <4>3. CASE k = Len(accepted) + 1
        <5>1. accepted'[k] = m
          BY <2>3, <4>3
        <5>2. pc = "ping1" => Len(accepted) > mark
          BY DEF OnceInv, PingsNumbered
        <5>3. mark \in Nat
          BY DEF ExactInv, PeerTypes
        <5> QED BY <1>3, <2>2, <3>1, <4>3, <5>1, <5>2, <5>3
      <4> QED BY <4>1, <4>2, <4>3
    <3>2. mark \in Nat /\ (pc \in {"ping0", "pong"} => Len(accepted) >= mark)
          /\ (pc = "ping1" => Len(accepted) > mark)
      BY DEF OnceInv, PingsNumbered, ExactInv, PeerTypes
    <3>3. /\ pc' \in {"ping0", "pong"} => Len(accepted') >= mark
          /\ pc' = "ping1" => Len(accepted') > mark
      BY <1>3, <2>2, <2>3, <3>2
    <3> QED BY <1>1, <3>1, <3>3 DEF PingsNumbered
  <2> QED BY <2>4, <2>5, <2>6, <2>7 DEF OnceInv
<1>4. CASE transport = "none" /\ pc' = "failed" /\ UNCHANGED <<loop, accepted>>
  <2>1. PingsNumbered'
    BY <1>1, <1>4 DEF OnceInv, PingsNumbered
  <2> QED BY <1>1, <1>2, <1>4, <2>1, TestStepKeeps
<1> QED BY <1>3, <1>4 DEF Send

\* A callback scheduled for the event loop goes behind the others.
LEMMA LoopAppend ==
  ASSUME ExactInv, NEW c \in Callbacks, loop' = Append(loop, c), c[1] # "connect"
  PROVE  Connects' => Connects
<1>1. loop \in Seq(Callbacks) /\ Len(loop) \in Nat /\ DOMAIN loop = 1 .. Len(loop)
  BY LenProperties DEF ExactInv, PeerTypes
<1>2. /\ loop' \in Seq(Callbacks) /\ Len(loop') = Len(loop) + 1
      /\ \A i \in 1 .. Len(loop) : loop'[i] = loop[i]
      /\ loop'[Len(loop) + 1] = c
  BY <1>1, AppendProperties
<1>3. DOMAIN loop' = 1 .. Len(loop')
  BY <1>2, LenProperties
<1> QED BY <1>1, <1>2, <1>3 DEF Connects

\* The test thread: it connects once, and a sync numbers its pings behind the mark.
LEMMA OnceTestThread == ASSUME OnePeer, ExactInv, OnceInv, TestThread PROVE OnceInv'
<1>1. /\ Len(accepted) \in Nat /\ mark \in Nat /\ ping_counter \in Nat
      /\ budget \in [sends : Nat, connects : Nat, talk : Nat, timeouts : Nat]
      /\ \A k \in 1 .. Len(accepted) : accepted[k] \in Messages /\ accepted[k][2] \in Nat
  <2>1. accepted \in Seq(Messages)
    BY DEF ExactInv, PeerTypes
  <2>2. \A k \in 1 .. Len(accepted) : accepted[k] \in Messages
    BY <2>1, ElementOfSeq
  <2> QED BY <2>1, <2>2, LenProperties DEF ExactInv, PeerTypes, Messages
<1>2. /\ PingsNumbered /\ PongsAnswer /\ Flushes /\ VersionLeads
      /\ pc # "out" => budget.connects = 0
      /\ budget.connects > 0 => Fresh /\ transport = "none" /\ accepted = <<>>
      /\ budget.connects <= 1
      /\ Connects \/ netpc = "made" => Fresh /\ pc \in {"connecting", "verack", "failed"}
      /\ pc \in {"ping0", "ping1", "pong", "idle", "leaving"} => last_message.verack
  BY DEF OnceInv, OnlyOnce
<1>3. CASE PeerConnect
  <2>1. /\ pc = "out" /\ budget.connects > 0 /\ transport = "none" /\ pc' = "connecting"
        /\ budget' = [budget EXCEPT !.connects = @ - 1]
        /\ UNCHANGED <<ping_counter, last_message, transport, netpc, node, accepted, got, sent, mark>>
    BY <1>3 DEF PeerConnect
  <2>2. budget'.connects = 0
    BY <1>1, <1>2, <2>1
  <2>3. Fresh /\ accepted = <<>> /\ Len(accepted) = 0
    BY <1>2, <2>1
  <2>4. OnlyOnce'
    BY <2>1, <2>2, <2>3 DEF OnlyOnce, Fresh
  <2>5. PingsNumbered'
    BY <2>1, <2>3 DEF PingsNumbered
  <2>6. VersionLeads' /\ PongsAnswer' /\ Flushes'
    BY <1>2, <2>1 DEF VersionLeads, PongsAnswer, Flushes, Ping, Msg
  <2> QED BY <2>4, <2>5, <2>6 DEF OnceInv
<1>4. CASE \E next \in {"idle", "verack", "ping0", "failed", "out"} : Local(next) /\
             (WaitIsConnected \/ WaitForVerack \/ BeginSync \/ WaitFails \/ WaitTimesOut \/ WaitForDisconnect)
  <2>1. UNCHANGED <<ping_counter, last_message, transport, netpc, loop, node, accepted, got, sent>>
    BY <1>4 DEF Local, peer
  <2>2. budget'.connects = budget.connects
    BY <1>1, <1>4 DEF WaitIsConnected, WaitForVerack, BeginSync, WaitFails, WaitTimesOut, WaitForDisconnect
  <2>3. CASE WaitIsConnected
    <3>1. pc = "connecting" /\ pc' = "verack" /\ mark' = mark
      BY <2>3 DEF WaitIsConnected, Local, OnePeer
    <3>2. PingsNumbered'
      BY <1>2, <2>1, <3>1 DEF PingsNumbered
    <3> QED BY <1>2, <2>1, <2>2, <3>1, <3>2, TestStepKeeps
  <2>4. CASE WaitForVerack
    <3>1. pc = "verack" /\ last_message.verack /\ pc' = "ping0" /\ mark' = Len(accepted)
      BY <2>4 DEF WaitForVerack, Local
    <3>2. PingsNumbered'
      BY <1>1, <1>2, <2>1, <3>1 DEF PingsNumbered
    <3>3. ~Connects /\ netpc # "made"
      BY <1>2, <3>1 DEF Fresh
    <3> QED BY <1>2, <2>1, <2>2, <3>1, <3>2, <3>3, TestStepKeeps
  <2>5. CASE BeginSync
    <3>1. pc = "idle" /\ pc' = "ping0" /\ mark' = Len(accepted)
      BY <2>5 DEF BeginSync, Local
    <3>2. PingsNumbered'
      BY <1>1, <1>2, <2>1, <3>1 DEF PingsNumbered
    <3>3. ~Connects /\ netpc # "made" /\ last_message.verack
      BY <1>2, <3>1
    <3> QED BY <1>2, <2>1, <2>2, <3>1, <3>2, <3>3, TestStepKeeps
  <2>6. CASE WaitFails \/ WaitTimesOut
    <3>1. pc \in {"connecting", "verack", "pong"} /\ pc' = "failed" /\ mark' = mark
      BY <2>6 DEF WaitFails, WaitTimesOut, Local, OnePeer
    <3>2. PingsNumbered'
      BY <1>2, <2>1, <3>1 DEF PingsNumbered
    <3> QED BY <1>2, <2>1, <2>2, <3>1, <3>2, TestStepKeeps
  <2>7. CASE WaitForDisconnect
    <3>1. pc = "leaving" /\ pc' = "out" /\ mark' = mark
      BY <2>7 DEF WaitForDisconnect, Local
    <3>2. PingsNumbered'
      BY <1>2, <2>1, <3>1 DEF PingsNumbered
    <3> QED BY <1>2, <2>1, <2>2, <3>1, <3>2, TestStepKeeps
  <2> QED BY <1>4, <2>3, <2>4, <2>5, <2>6, <2>7
<1>5. CASE SyncReturns
  <2>1. /\ pc = "pong" /\ pc' = "idle" /\ ping_counter' = ping_counter + 1
        /\ last_message.pong = <<ping_counter>>
        /\ UNCHANGED <<last_message, transport, netpc, loop, node, budget, accepted, got, sent, mark>>
    BY <1>5 DEF SyncReturns
  <2>2. PingsNumbered'
    <3>1. ASSUME NEW k \in 1 .. Len(accepted), accepted[k][1] = "ping"
          PROVE  accepted[k][2] < ping_counter + 1
      <4>1. accepted[k][2] < ping_counter \/ accepted[k][2] = ping_counter
        BY <1>2, <3>1 DEF PingsNumbered
      <4> QED BY <1>1, <4>1
    <3> QED BY <2>1, <3>1 DEF PingsNumbered
  <2>3. last_message.pong # <<>>
    BY <2>1
  <2>4. ~Connects /\ netpc # "made" /\ last_message.verack
    BY <1>2, <2>1
  <2> QED BY <1>2, <2>1, <2>2, <2>3, <2>4, TestStepKeeps
<1>6. CASE PeerDisconnect
  <2>1. /\ pc = "idle" /\ pc' = "leaving" /\ loop' = Append(loop, <<"abort", <<>> >>)
        /\ UNCHANGED <<ping_counter, last_message, transport, netpc, node, budget,
                       accepted, got, sent, mark>>
    BY <1>6 DEF PeerDisconnect
  <2>2. Connects' => Connects
    <3>1. <<"abort", <<>> >> \in Callbacks /\ <<"abort", <<>> >>[1] # "connect"
      BY DEF Callbacks
    <3> QED BY <2>1, <3>1, LoopAppend
  <2>3. PingsNumbered'
    BY <1>2, <2>1 DEF PingsNumbered
  <2>4. OnlyOnce'
    BY <1>2, <2>1, <2>2 DEF OnlyOnce, Fresh
  <2>5. VersionLeads' /\ PongsAnswer' /\ Flushes'
    BY <1>2, <2>1 DEF VersionLeads, PongsAnswer, Flushes, Ping, Msg
  <2> QED BY <2>3, <2>4, <2>5 DEF OnceInv
<1>7. CASE Ping0
  <2>1. /\ pc = "ping0" /\ Send(Msg("ping", 0), "ping1") /\ UNCHANGED <<got, sent, delivered, budget, mark>>
    BY <1>7 DEF Ping0
  <2>2. Msg("ping", 0) \in Messages /\ Msg("ping", 0)[1] = "ping" /\ Msg("ping", 0)[2] = 0
    BY MsgType DEF Types
  <2>3. 0 < ping_counter
    BY DEF ExactInv, PeerTypes
  <2> QED BY <2>1, <2>2, <2>3, TestSendKeeps
<1>8. CASE Ping1
  <2>1. /\ pc = "ping1" /\ Send(Msg("ping", ping_counter), "pong")
        /\ UNCHANGED <<got, sent, delivered, budget, mark>>
    BY <1>8 DEF Ping1
  <2>2. /\ Msg("ping", ping_counter) \in Messages /\ Msg("ping", ping_counter)[1] = "ping"
        /\ Msg("ping", ping_counter)[2] = ping_counter
    BY <1>1, MsgType DEF Types
  <2> QED BY <2>1, <2>2, TestSendKeeps
<1>9. CASE SendMessage
  <2>1. /\ pc = "idle" /\ Send(Msg("tx", 0), "idle") /\ budget' = [budget EXCEPT !.sends = @ - 1]
        /\ UNCHANGED <<got, sent, delivered, mark>>
    BY <1>9 DEF SendMessage
  <2>2. Msg("tx", 0) \in Messages /\ Msg("tx", 0)[1] = "tx"
    BY MsgType DEF Types
  <2>3. budget'.connects = budget.connects
    BY <1>1, <2>1
  <2> QED BY <2>1, <2>2, <2>3, TestSendKeeps
<1>10. ASSUME WaitIsConnected \/ WaitForVerack \/ BeginSync \/ WaitFails \/ WaitTimesOut \/ WaitForDisconnect
       PROVE  \E next \in {"idle", "verack", "ping0", "failed", "out"} : Local(next)
  BY <1>10 DEF WaitIsConnected, WaitForVerack, BeginSync, WaitFails, WaitTimesOut, WaitForDisconnect
<1> QED
  BY <1>3, <1>4, <1>5, <1>6, <1>7, <1>8, <1>9, <1>10 DEF TestThread

\* While there is a connection no other is asked for, or can be.
LEMMA ConnectedOnce ==
  ASSUME ExactInv, OnceInv, transport # "none"
  PROVE  ~Connects /\ budget.connects = 0
<1>1. ~Connects
  BY DEF ExactInv, OneAtATime, Connects
<1>2. budget.connects \in Nat
  BY DEF ExactInv, PeerTypes
<1> QED BY <1>1, <1>2 DEF OnceInv, OnlyOnce

\* A step of the network thread that delivers and sends nothing.
LEMMA NetworkStepKeeps ==
  ASSUME OnceInv, Connects' => Connects, (~Connects /\ budget.connects = 0) \/ UNCHANGED transport,
         transport' # "none" => transport # "none",
         transport' # "none" /\ netpc' # "made" => netpc # "made",
         netpc' = "made" => netpc = "made",
         node' = node \/ node' = NodeOff,
         UNCHANGED <<pc, ping_counter, last_message, budget, accepted, got, sent, mark>>
  PROVE  OnceInv'
<1>1. OnlyOnce'
  BY DEF OnceInv, OnlyOnce, Fresh
<1>2. VersionLeads' /\ PingsNumbered'
  BY DEF OnceInv, VersionLeads, PingsNumbered
<1>3. NodeOff.phase = "off"
  BY DEF NodeOff
<1>4. PongsAnswer' /\ Flushes'
  BY <1>3 DEF OnceInv, PongsAnswer, Flushes, Ping, Msg
<1> QED BY <1>1, <1>2, <1>4 DEF OnceInv

\* connection_made opens a connection on which nothing has been said.
LEMMA OnceConnectionMade == ASSUME ExactInv, OnceInv, ConnectionMade PROVE OnceInv'
<1>1. /\ loop # <<>> /\ Head(loop)[1] = "connect" /\ loop' = Tail(loop)
      /\ transport' = "open" /\ netpc' = "made" /\ node' = [NodeOff EXCEPT !.phase = "new"]
      /\ mark' = 0 /\ accepted' = <<>> /\ got' = <<>> /\ sent' = <<>>
      /\ UNCHANGED <<pc, ping_counter, last_message, budget>>
  BY DEF ConnectionMade
<1>2. loop \in Seq(Callbacks) /\ Len(loop) \in Nat \ {0} /\ DOMAIN loop = 1 .. Len(loop)
  BY <1>1, EmptySeq, LenProperties DEF ExactInv, PeerTypes
<1>3. Head(loop) = loop[1] /\ Tail(loop) \in Seq(Callbacks) /\ Len(Tail(loop)) = Len(loop) - 1
  BY <1>1, <1>2, HeadTailProperties
<1>4. Connects /\ Len(loop) = 1
  BY <1>1, <1>2, <1>3 DEF Connects, ExactInv, OneAtATime
<1>5. DOMAIN loop' = {}
  BY <1>1, <1>3, <1>4, LenProperties
<1>6. Fresh /\ pc \in {"connecting", "verack", "failed"} /\ budget.connects = 0
  BY <1>4 DEF OnceInv, OnlyOnce
<1>7. ~Connects'
  BY <1>5 DEF Connects
<1>8. OnlyOnce'
  BY <1>1, <1>6, <1>7 DEF OnlyOnce, Fresh
<1>9. Len(<<>>) = 0 /\ 1 .. 0 = {} /\ NodeOff.flushed = 0 /\ NodeOff.turn = "process"
  BY DEF NodeOff
<1>10. VersionLeads' /\ PingsNumbered'
  BY <1>1, <1>6, <1>9 DEF VersionLeads, PingsNumbered
<1>11. PongsAnswer'
  BY <1>1, <1>6, <1>9 DEF PongsAnswer, Fresh
<1>12. Flushes'
  <2>1. node'.flushed = 0 /\ node'.turn = "process"
    BY <1>1 DEF NodeOff
  <2> QED BY <1>1, <1>9, <2>1 DEF Flushes
<1> QED BY <1>8, <1>10, <1>11, <1>12 DEF OnceInv

\* The version message is the first that is accepted.
LEMMA OnceSendVersion == ASSUME ExactInv, OnceInv, SendVersion PROVE OnceInv'
<1> DEFINE v == Msg("version", 0)
<1>1. /\ netpc = "made" /\ Schedule(<<v>>) /\ netpc' = "idle"
      /\ UNCHANGED <<pc, ping_counter, last_message, transport, node, budget, got, sent, mark>>
  BY DEF SendVersion
<1>2. v \in Messages /\ v[1] = "version"
  BY MsgType DEF Types
<1> HIDE DEF v
<1>3. <<v>> \in Seq(Messages) /\ Len(<<v>>) = 1 /\ <<v>>[1] = v /\ 1 \in 1 .. 1
  BY <1>2
<1>4. /\ Connects' => Connects
      /\ Len(accepted') = Len(accepted) + Len(<<v>>)
      /\ \A i \in 1 .. Len(<<v>>) : accepted'[Len(accepted) + i] = <<v>>[i]
  BY <1>1, <1>3, SentBehind
<1>5. accepted = <<>> /\ Len(accepted) = 0
  BY <1>1 DEF OnceInv, VersionLeads
<1>6. Len(accepted') = 1 /\ accepted'[1] = v
  <2>1. 0 + 1 = 1
    OBVIOUS
  <2> QED BY <1>3, <1>4, <1>5, <2>1
<1>7. transport # "none"
  BY <1>1 DEF ExactInv, OneAtATime
<1>8. ~Connects /\ budget.connects = 0 /\ pc \in {"connecting", "verack", "failed"}
  BY <1>1, <1>7, ConnectedOnce DEF OnceInv, OnlyOnce
<1>9. OnlyOnce'
  BY <1>1, <1>4, <1>7, <1>8 DEF OnceInv, OnlyOnce, Fresh
<1>10. VersionLeads'
  <2>1. accepted' # <<>>
    BY <1>6
  <2> QED BY <1>1, <1>6, <2>1 DEF VersionLeads, v
<1>11. PingsNumbered'
  <2>1. 1 .. 1 = {1}
    OBVIOUS
  <2> QED BY <1>1, <1>2, <1>6, <1>8, <2>1 DEF PingsNumbered
<1>12. PongsAnswer' /\ Flushes'
  BY <1>1 DEF OnceInv, PongsAnswer, Flushes, Ping, Msg
<1> QED BY <1>9, <1>10, <1>11, <1>12 DEF OnceInv

\* on_message: what it sends is no ping, and a pong it remembers is one the node sent.
LEMMA OnceReadMessage == ASSUME OnePeer, ExactInv, OnceInv, ReadMessage PROVE OnceInv'
<1> DEFINE m == recvbuf[1][1]
<1>1. /\ netpc = "reading" /\ Len(recvbuf) >= Units
      /\ UNCHANGED <<pc, ping_counter, toNode, toPeer, node, budget, got, sent, mark>>
  BY DEF ReadMessage
<1>2. transport = "open"
  BY <1>1 DEF ExactInv, OneAtATime
<1>3. ~Connects /\ budget.connects = 0
  BY <1>2, ConnectedOnce
<1>4. CASE m[1] = "unknown"
  <2>1. transport' = "closing" /\ netpc' = "idle" /\ UNCHANGED <<last_message, loop, accepted, delivered>>
    BY <1>4 DEF ReadMessage
  <2>2. Connects' => Connects
    BY <2>1 DEF Connects
  <2> QED BY <1>1, <1>2, <1>3, <2>1, <2>2, NetworkStepKeeps
<1>5. CASE m[1] # "unknown"
  <2>1. OnMessage(m) /\ UNCHANGED <<transport, netpc>>
    BY <1>5 DEF ReadMessage
  <2>2. Len(delivered) + 1 \in 1 .. Len(sent) /\ m = sent[Len(delivered) + 1] /\ m \in Messages
    BY <1>1, <1>2, NextInBuffer DEF ExactInv
  <2>3. PICK ms \in Seq(Messages) : Schedule(ms) /\ \A i \in 1 .. Len(ms) : ms[i][1] # "ping"
    BY <2>1, <2>2, OnMessageSends DEF ExactInv
  <2>4. /\ Connects' => Connects
        /\ accepted # <<>> /\ accepted[1] = Msg("version", 0) =>
             accepted' # <<>> /\ accepted'[1] = Msg("version", 0)
        /\ Len(accepted) \in Nat /\ Len(accepted') = Len(accepted) + Len(ms)
        /\ \A k \in 1 .. Len(accepted) : accepted'[k] = accepted[k]
        /\ \A i \in 1 .. Len(ms) : accepted'[Len(accepted) + i] = ms[i]
    BY <2>3, SentBehind
  <2>5. Len(ms) \in Nat /\ mark \in Nat
    BY LenProperties DEF ExactInv, PeerTypes
  <2>6. /\ last_message.verack => last_message'.verack
        /\ \/ last_message'.pong = last_message.pong
           \/ m[1] = "pong" /\ last_message'.pong = <<m[2]>>
    <3>1. last_message \in [verack : BOOLEAN, pong : Seq(Nat)]
      BY DEF ExactInv, PeerTypes
    <3>2. last_message' = CASE m[1] = "verack" -> [last_message EXCEPT !.verack = TRUE]
                            [] m[1] = "pong"   -> [last_message EXCEPT !.pong = <<m[2]>>]
                            [] OTHER           -> last_message
      BY <2>1 DEF OnMessage
    <3> HIDE DEF m
    <3>3. CASE m[1] = "verack"
      <4>1. last_message' = [last_message EXCEPT !.verack = TRUE]
        BY <3>2, <3>3
      <4> QED BY <3>1, <4>1
    <3>4. CASE m[1] = "pong"
      <4>1. last_message' = [last_message EXCEPT !.pong = <<m[2]>>]
        BY <3>2, <3>4
      <4> QED BY <3>1, <3>4, <4>1
    <3>5. CASE m[1] # "verack" /\ m[1] # "pong"
      <4>1. last_message' = last_message
        BY <3>2, <3>5
      <4> QED BY <4>1
    <3> QED BY <3>3, <3>4, <3>5
  <2> HIDE DEF m
  <2>7. OnlyOnce'
    BY <1>1, <1>3, <2>1, <2>4, <2>6 DEF OnceInv, OnlyOnce
  <2>8. VersionLeads'
    BY <1>1, <1>2, <2>1, <2>4 DEF OnceInv, VersionLeads
  <2>9. PingsNumbered'
    <3>1. ASSUME NEW k \in 1 .. Len(accepted'), accepted'[k][1] = "ping"
          PROVE  k \in 1 .. Len(accepted) /\ accepted'[k] = accepted[k]
      <4>1. CASE k \in 1 .. Len(accepted)
        BY <2>4, <4>1
      <4>2. CASE k \notin 1 .. Len(accepted)
        <5>1. k - Len(accepted) \in 1 .. Len(ms) /\ Len(accepted) + (k - Len(accepted)) = k
          BY <2>4, <2>5, <4>2
        <5>2. accepted'[Len(accepted) + (k - Len(accepted))] = ms[k - Len(accepted)]
          BY <2>4, <5>1
        <5>3. accepted'[k] = ms[k - Len(accepted)]
          BY <5>1, <5>2
        <5>4. ms[k - Len(accepted)][1] # "ping"
          BY <2>3, <5>1
        <5> QED BY <3>1, <5>3, <5>4
      <4> QED BY <4>1, <4>2
    <3>2. \A k \in 1 .. Len(accepted') : accepted'[k][1] = "ping" =>
             \/ accepted'[k][2] < ping_counter
             \/ /\ accepted'[k][2] = ping_counter /\ pc \in {"pong", "failed"}
                /\ pc = "pong" => k >= mark + 2
      BY <3>1 DEF OnceInv, PingsNumbered
    <3>3. /\ pc \in {"ping0", "pong"} => Len(accepted') >= mark
          /\ pc = "ping1" => Len(accepted') > mark
      <4>1. /\ pc \in {"ping0", "pong"} => Len(accepted) >= mark
            /\ pc = "ping1" => Len(accepted) > mark
        BY DEF OnceInv, PingsNumbered
      <4> QED BY <2>4, <2>5, <4>1
    <3> QED BY <1>1, <3>2, <3>3 DEF PingsNumbered
  <2>10. PongsAnswer'
    <3>1. /\ \A i \in 1 .. Len(sent) : sent[i][1] = "pong" =>
               /\ node.phase \in {"up", "off"}
               /\ \E k \in 1 .. Len(got) : got[k] = Ping(sent[i][2])
          /\ last_message.pong # <<>> =>
               \E i \in 1 .. Len(sent) : sent[i][1] = "pong" /\ last_message.pong = <<sent[i][2]>>
          /\ pc \in {"idle", "leaving"} => last_message.pong # <<>>
      BY DEF OnceInv, PongsAnswer
    <3>2. last_message'.pong # <<>> =>
            \E i \in 1 .. Len(sent) : sent[i][1] = "pong" /\ last_message'.pong = <<sent[i][2]>>
      BY <2>2, <2>6, <3>1
    <3>3. pc \in {"idle", "leaving"} => last_message'.pong # <<>>
      BY <2>6, <3>1
    <3> QED BY <1>1, <3>1, <3>2, <3>3 DEF PongsAnswer, Ping, Msg
  <2>11. Flushes'
    BY <1>1 DEF OnceInv, Flushes
  <2> QED BY <2>7, <2>8, <2>9, <2>10, <2>11 DEF OnceInv
<1> QED BY <1>4, <1>5

\* The network thread.
LEMMA OnceNetworkThread == ASSUME OnePeer, ExactInv, OnceInv, NetworkThread PROVE OnceInv'
<1>1. CASE RunCallback
  <2>1. /\ netpc = "idle" /\ loop # <<>> /\ loop' = Tail(loop)
        /\ transport' = IF Head(loop)[1] = "abort" /\ transport = "open" THEN "closing" ELSE transport
        /\ UNCHANGED <<pc, ping_counter, last_message, netpc, node, budget, accepted, got, sent, mark>>
    BY <1>1 DEF RunCallback
  <2>2. loop \in Seq(Callbacks) /\ Len(loop) \in Nat \ {0} /\ DOMAIN loop = 1 .. Len(loop)
    BY <2>1, EmptySeq, LenProperties DEF ExactInv, PeerTypes
  <2>3. /\ loop' \in Seq(Callbacks) /\ Len(loop') = Len(loop) - 1
        /\ \A i \in 1 .. Len(loop') : loop'[i] = loop[i + 1]
    BY <2>1, <2>2, HeadTailProperties
  <2>4. Connects' => Connects
    <3>1. ASSUME NEW i \in DOMAIN loop', loop'[i][1] = "connect" PROVE Connects
      <4>1. i \in 1 .. Len(loop')
        BY <2>3, LenProperties
      <4>2. i + 1 \in DOMAIN loop /\ loop'[i] = loop[i + 1]
        BY <2>2, <2>3, <4>1
      <4> QED BY <3>1, <4>2 DEF Connects
    <3> QED BY <3>1 DEF Connects
  <2>5. UNCHANGED transport \/ transport = "open"
    BY <2>1
  <2>6. transport # "none" => ~Connects /\ budget.connects = 0
    BY ConnectedOnce
  <2>7. transport' # "none" => transport # "none"
    BY <2>1
  <2> QED BY <2>1, <2>4, <2>5, <2>6, <2>7, NetworkStepKeeps
<1>2. CASE ReadLess
  <2>1. /\ netpc = "reading" /\ netpc' = "idle"
        /\ UNCHANGED <<pc, ping_counter, last_message, transport, loop, node, budget,
                       accepted, got, sent, mark>>
    BY <1>2 DEF ReadLess
  <2>2. Connects' => Connects
    BY <2>1 DEF Connects
  <2> QED BY <2>1, <2>2, NetworkStepKeeps
<1>3. CASE ConnectionLost
  <2>1. /\ netpc = "idle" /\ transport # "none" /\ transport' = "none" /\ node' = NodeOff
        /\ UNCHANGED <<pc, ping_counter, last_message, netpc, loop, budget, accepted, got, sent, mark>>
    BY <1>3 DEF ConnectionLost
  <2>2. (Connects' => Connects) /\ ~Connects /\ budget.connects = 0
    BY <2>1, ConnectedOnce DEF Connects
  <2> QED BY <2>1, <2>2, NetworkStepKeeps
<1>4. ASSUME NEW n \in 1 .. Len(toPeer), DataReceived(n) PROVE OnceInv'
  <2>1. /\ netpc = "idle" /\ netpc' = "reading"
        /\ UNCHANGED <<pc, ping_counter, last_message, transport, loop, node, budget,
                       accepted, got, sent, mark>>
    BY <1>4 DEF DataReceived
  <2>2. Connects' => Connects
    BY <2>1 DEF Connects
  <2> QED BY <2>1, <2>2, NetworkStepKeeps
<1> QED
  BY <1>1, <1>2, <1>3, <1>4, OnceConnectionMade, OnceSendVersion, OnceReadMessage DEF NetworkThread

\* The node's messages go behind those it sent; only a node that is up answers a ping.
LEMMA NodeSendsPongs ==
  ASSUME ExactInv, PongsAnswer, NEW ms \in Seq(Messages), NodeSends(ms),
         UNCHANGED <<pc, last_message, delivered, recvbuf, transport>>,
         node.phase \in {"up", "off"} => node'.phase \in {"up", "off"},
         \A k \in 1 .. Len(got) : k \in 1 .. Len(got') /\ got'[k] = got[k],
         \A i \in 1 .. Len(ms) : ms[i][1] = "pong" =>
           node'.phase = "up" /\ \E k \in 1 .. Len(got') : got'[k] = Ping(ms[i][2])
  PROVE  PongsAnswer'
<1>1. /\ Len(sent') = Len(sent) + Len(ms)
      /\ \A i \in 1 .. Len(sent) : sent'[i] = sent[i]
      /\ \A i \in 1 .. Len(ms) : sent'[Len(sent) + i] = ms[i]
  BY NodeSendsInOrder DEF ExactInv
<1>2. Len(sent) \in Nat /\ Len(ms) \in Nat
  BY LenProperties DEF ExactInv, PeerTypes
<1>3. ASSUME NEW i \in 1 .. Len(sent'), sent'[i][1] = "pong"
      PROVE  /\ node'.phase \in {"up", "off"}
             /\ \E k \in 1 .. Len(got') : got'[k] = Ping(sent'[i][2])
  <2>1. CASE i \in 1 .. Len(sent)
    <3>1. sent[i] = sent'[i] /\ sent[i][1] = "pong"
      BY <1>1, <1>3, <2>1
    <3>2. PICK k \in 1 .. Len(got) : got[k] = Ping(sent[i][2])
      BY <2>1, <3>1 DEF PongsAnswer
    <3>3. k \in 1 .. Len(got') /\ got'[k] = Ping(sent'[i][2])
      BY <3>1, <3>2
    <3>4. node.phase \in {"up", "off"}
      BY <2>1, <3>1 DEF PongsAnswer
    <3> QED BY <3>3, <3>4
  <2>2. CASE i \notin 1 .. Len(sent)
    <3>1. i - Len(sent) \in 1 .. Len(ms) /\ Len(sent) + (i - Len(sent)) = i
      BY <1>1, <1>2, <2>2
    <3>2. sent'[Len(sent) + (i - Len(sent))] = ms[i - Len(sent)]
      BY <1>1, <3>1
    <3>3. sent'[i] = ms[i - Len(sent)]
      BY <3>1, <3>2
    <3> QED BY <1>3, <3>1, <3>3
  <2> QED BY <2>1, <2>2
<1>4. last_message'.pong # <<>> =>
        \E i \in 1 .. Len(sent') : sent'[i][1] = "pong" /\ last_message'.pong = <<sent'[i][2]>>
  <2>1. \A i \in 1 .. Len(sent) : i \in 1 .. Len(sent') /\ sent'[i] = sent[i]
    BY <1>1, <1>2
  <2> QED BY <2>1 DEF PongsAnswer
<1>5. pc' \in {"idle", "leaving"} => last_message'.pong # <<>>
  BY DEF PongsAnswer
<1> QED BY <1>3, <1>4, <1>5 DEF PongsAnswer, Ping, Msg

\* The node reads a message: a pong it sends is for the ping it has just read.
LEMMA OnceNodeProcess == ASSUME OnePeer, ExactInv, OnceInv, NodeProcess PROVE OnceInv'
<1> DEFINE m == Head(toNode)
<1>1. /\ node.phase # "off" /\ node.turn = "process" /\ toNode # <<>>
      /\ toNode' = Tail(toNode) /\ got' = Append(got, m)
      /\ node' = [node EXCEPT !.turn = "send",
                              !.phase = CASE @ = "new" /\ m[1] = "version" -> "version"
                                          [] @ = "version" /\ m[1] = "verack" -> "up"
                                          [] OTHER -> @]
      /\ CASE node.phase = "new" /\ m[1] = "version" -> NodeSends(<<Msg("version", 0), Msg("verack", 0)>>)
           [] node.phase = "up" /\ m[1] = "ping"     -> NodeSends(<<Msg("pong", m[2])>>)
           [] OTHER                                  -> UNCHANGED <<sent, toPeer>>
      /\ UNCHANGED <<pc, ping_counter, last_message, transport, netpc, loop, recvbuf, budget,
                     accepted, delivered, mark>>
  BY DEF NodeProcess, peer
<1>2. m \in Messages /\ Len(got') = Len(got) + 1 /\ got'[Len(got) + 1] = m
      /\ \A i \in 1 .. Len(got) : got'[i] = got[i]
  BY <1>1, NodeReadsNext DEF ExactInv
<1>3. m = Msg(m[1], m[2]) /\ m[1] \in Types /\ m[2] \in Nat
  BY <1>2 DEF Messages, Msg
<1> HIDE DEF m
<1>4. node \in [phase : {"off", "new", "version", "up"}, turn : {"process", "send"}, flushed : Nat]
      /\ Len(got) \in Nat
  BY LenProperties DEF ExactInv, PeerTypes
<1>5. /\ node'.turn = "send" /\ node'.flushed = node.flushed
      /\ node.phase = "up" => node'.phase = "up"
  BY <1>1, <1>4
<1>6. OnlyOnce' /\ VersionLeads' /\ PingsNumbered'
  BY <1>1 DEF OnceInv, OnlyOnce, VersionLeads, PingsNumbered, Fresh, Connects
<1>7. Flushes'
  <2>1. Len(got) = node.flushed
    <3>1. Len(got) = node.flushed + 0
      BY <1>1 DEF OnceInv, Flushes
    <3> QED BY <1>4, <3>1
  <2> QED BY <1>2, <1>5, <2>1 DEF Flushes
<1>8. \A k \in 1 .. Len(got) : k \in 1 .. Len(got') /\ got'[k] = got[k]
  BY <1>2, <1>4
<1>9. PongsAnswer
  BY DEF OnceInv
<1>10. node.phase \in {"up", "off"} => node'.phase \in {"up", "off"}
  BY <1>1, <1>5
<1>11. CASE NodeSends(<<Msg("version", 0), Msg("verack", 0)>>)
  <2> DEFINE ms == <<Msg("version", 0), Msg("verack", 0)>>
  <2>1. /\ Msg("version", 0) \in Messages /\ Msg("verack", 0) \in Messages
        /\ Msg("version", 0)[1] # "pong" /\ Msg("verack", 0)[1] # "pong"
    BY MsgType DEF Types
  <2>2. ms \in Seq(Messages) /\ \A i \in 1 .. Len(ms) : ms[i][1] # "pong"
    <3>1. ASSUME NEW a \in Messages, NEW b \in Messages, a[1] # "pong", b[1] # "pong"
          PROVE  <<a, b>> \in Seq(Messages) /\ \A i \in 1 .. Len(<<a, b>>) : <<a, b>>[i][1] # "pong"
      BY <3>1
    <3> QED BY <2>1, <3>1
  <2>3. NodeSends(ms)
    BY <1>11
  <2> HIDE DEF ms
  <2>4. PongsAnswer'
    BY <1>1, <1>8, <1>9, <1>10, <2>2, <2>3, NodeSendsPongs
  <2> QED BY <1>6, <1>7, <2>4 DEF OnceInv
<1>12. CASE node.phase = "up" /\ m[1] = "ping" /\ NodeSends(<<Msg("pong", m[2])>>)
  <2> DEFINE p == Msg("pong", m[2])
  <2>1. p \in Messages /\ p[2] = m[2]
    BY <1>3, MsgType DEF Types
  <2>2. NodeSends(<<p>>)
    BY <1>12
  <2> HIDE DEF p
  <2>3. <<p>> \in Seq(Messages) /\ Len(<<p>>) = 1 /\ <<p>>[1] = p
    BY <2>1
  <2>4. got'[Len(got) + 1] = Ping(p[2]) /\ Len(got) + 1 \in 1 .. Len(got')
    BY <1>2, <1>3, <1>4, <1>12, <2>1 DEF Ping
  <2>5. \A i \in 1 .. Len(<<p>>) : \E k \in 1 .. Len(got') : got'[k] = Ping(<<p>>[i][2])
    <3>1. 1 .. 1 = {1}
      OBVIOUS
    <3> QED BY <2>3, <2>4, <3>1
  <2>6. PongsAnswer'
    BY <1>1, <1>5, <1>8, <1>9, <1>10, <1>12, <2>2, <2>3, <2>5, NodeSendsPongs
  <2> QED BY <1>6, <1>7, <2>6 DEF OnceInv
<1>13. CASE UNCHANGED <<sent, toPeer>>
  <2>1. ASSUME NEW i \in 1 .. Len(sent), sent[i][1] = "pong"
        PROVE  node'.phase \in {"up", "off"} /\ \E k \in 1 .. Len(got') : got'[k] = Ping(sent[i][2])
    <3>1. node.phase \in {"up", "off"} /\ \E k \in 1 .. Len(got) : got[k] = Ping(sent[i][2])
      BY <1>9, <2>1 DEF PongsAnswer
    <3> QED BY <1>8, <1>10, <3>1
  <2>2. PongsAnswer'
    BY <1>1, <1>9, <1>13, <2>1 DEF PongsAnswer, Ping, Msg
  <2> QED BY <1>6, <1>7, <2>2 DEF OnceInv
<1> QED BY <1>1, <1>11, <1>12, <1>13

\* The node.
LEMMA OnceNode ==
  ASSUME OnePeer, ExactInv, OnceInv, NodeProcess \/ NodeSendMessages \/ NodeTalks \/ NodeDrops
  PROVE  OnceInv'
<1>1. node \in [phase : {"off", "new", "version", "up"}, turn : {"process", "send"}, flushed : Nat]
      /\ Len(got) \in Nat
      /\ budget \in [sends : Nat, connects : Nat, talk : Nat, timeouts : Nat]
  BY LenProperties DEF ExactInv, PeerTypes
<1>2. CASE NodeSendMessages
  <2>1. /\ node.phase # "off" /\ node' = [node EXCEPT !.turn = "process", !.flushed = Len(got)]
        /\ UNCHANGED <<pc, ping_counter, last_message, transport, netpc, loop, budget,
                       accepted, got, sent, mark>>
    BY <1>2 DEF NodeSendMessages, peer
  <2>2. node'.phase = node.phase /\ node'.turn = "process" /\ node'.flushed = Len(got)
    BY <1>1, <2>1
  <2>3. OnlyOnce' /\ VersionLeads' /\ PingsNumbered'
    BY <2>1 DEF OnceInv, OnlyOnce, VersionLeads, PingsNumbered, Fresh, Connects
  <2>4. PongsAnswer'
    BY <2>1, <2>2 DEF OnceInv, PongsAnswer, Ping, Msg
  <2>5. Flushes'
    BY <1>1, <2>1, <2>2 DEF Flushes
  <2> QED BY <2>3, <2>4, <2>5 DEF OnceInv
<1>3. CASE NodeTalks
  <2>1. PICK t \in {"inv", "ping", "unknown"} : NodeSends(<<Msg(t, 7)>>)
    BY <1>3 DEF NodeTalks
  <2>2. /\ node.phase = "up" /\ budget' = [budget EXCEPT !.talk = @ - 1]
        /\ UNCHANGED <<pc, ping_counter, last_message, transport, netpc, loop, recvbuf, node,
                       accepted, got, delivered, mark>>
    BY <1>3 DEF NodeTalks, peer
  <2>3. budget'.connects = budget.connects
    BY <1>1, <2>2
  <2>4. Msg(t, 7) \in Messages /\ Msg(t, 7)[1] # "pong"
    BY MsgType DEF Types
  <2> DEFINE a == Msg(t, 7)
  <2>5. NodeSends(<<a>>) /\ a \in Messages /\ a[1] # "pong"
    BY <2>1, <2>4
  <2> HIDE DEF a
  <2>6. <<a>> \in Seq(Messages) /\ \A i \in 1 .. Len(<<a>>) : <<a>>[i][1] # "pong"
    BY <2>5
  <2>7. PongsAnswer'
    BY <1>1, <2>2, <2>5, <2>6, NodeSendsPongs DEF OnceInv
  <2>8. OnlyOnce' /\ VersionLeads' /\ PingsNumbered' /\ Flushes'
    BY <2>2, <2>3 DEF OnceInv, OnlyOnce, VersionLeads, PingsNumbered, Flushes, Fresh, Connects
  <2> QED BY <2>7, <2>8 DEF OnceInv
<1>4. CASE NodeDrops
  <2>1. /\ node' = NodeOff
        /\ UNCHANGED <<pc, ping_counter, last_message, transport, netpc, loop, budget,
                       accepted, got, sent, mark>>
    BY <1>4 DEF NodeDrops, peer
  <2>2. Connects' => Connects
    BY <2>1 DEF Connects
  <2> QED BY <2>1, <2>2, NetworkStepKeeps
<1> QED BY <1>2, <1>3, <1>4, OnceNodeProcess

\* Every step keeps it, on the connection that ExactInv describes.
LEMMA OnceNext == ASSUME OnePeer, ExactInv, OnceInv, [Next]_vars PROVE OnceInv'
<1>1. CASE UNCHANGED vars
  <2>1. UNCHANGED <<pc, ping_counter, last_message, transport, netpc, loop, node, budget,
                    accepted, got, sent, mark>>
    BY <1>1 DEF vars, peer
  <2>2. Connects' => Connects
    BY <2>1 DEF Connects
  <2> QED BY <2>1, <2>2, NetworkStepKeeps
<1> QED BY <1>1, OnceTestThread, OnceNetworkThread, OnceNode DEF Next

-----------------------------------------------------------------------------
\* ExactInv holds in every state, for all bounds, connections and time-outs.
THEOREM ExactInvariant == Spec => []ExactInv
<1>1. Init => ExactInv
  BY ExactInit
<1>2. ExactInv /\ [Next]_vars => ExactInv'
  BY ExactNext
<1> QED BY <1>1, <1>2, PTL DEF Spec

\* Every variable of the peer, of the sockets and of the node keeps its type.
THEOREM TypeCorrect == Spec => []PeerTypes
<1>1. ExactInv => PeerTypes
  BY DEF ExactInv
<1> QED BY <1>1, ExactInvariant, PTL

\* Nothing is lost, doubled or reordered either way: the node reads what
\* send_message accepted, in that order, and on_message gets the node's messages
\* however data_received cuts the bytes.  It holds over reconnections too.
THEOREM ExactDelivery == Spec => []BothWaysExact
<1>1. ExactInv => BothWaysExact
  BY ExactMeansExact
<1> QED BY <1>1, ExactInvariant, PTL

\* OnceInv holds together with ExactInv for an object that connects once.
THEOREM OnceInvariant == ASSUME OnePeer PROVE Spec => [](ExactInv /\ OnceInv)
<1>1. Init => ExactInv /\ OnceInv
  BY ExactInit, OnceInit
<1>2. ExactInv /\ OnceInv /\ [Next]_vars => (ExactInv /\ OnceInv)'
  BY ExactNext, OnceNext
<1> QED BY <1>1, <1>2, PTL DEF Spec

\* Nothing the test sends overtakes the version message: the waits of
\* add_p2p_connection keep it behind connection_made.
THEOREM VersionLeadsAll == ASSUME OnePeer PROVE Spec => []VersionFirst
<1>1. ExactInv /\ OnceInv => VersionFirst
  <2> SUFFICES ASSUME ExactInv, OnceInv, got # <<>> PROVE got[1][1] = "version"
    BY DEF VersionFirst
  <2>1. /\ Len(got) \in Nat \ {0} /\ Len(accepted) \in Nat /\ Len(toNode) \in Nat
    BY EmptySeq, LenProperties DEF ExactInv, PeerTypes
  <2>2. got[1] = accepted[1] /\ Len(accepted) # 0
    BY <2>1 DEF ExactInv, ReadInOrder
  <2>3. accepted # <<>>
    BY <2>2
  <2> QED BY <2>2, <2>3 DEF OnceInv, VersionLeads, Msg
<1> QED BY <1>1, OnceInvariant, PTL

\* add_p2p_connection returns a connection that the node has established: the
\* pong of its sync can come only from a node that has read the verack.
THEOREM Established == ASSUME OnePeer PROVE Spec => []FullyConnectedOnReturn
<1>1. OnceInv => FullyConnectedOnReturn
  BY DEF OnceInv, PongsAnswer, FullyConnectedOnReturn
<1> QED BY <1>1, OnceInvariant, PTL

\* When sync_with_ping returns, the node has read all that was accepted before it
\* and has called SendMessages after a message of the sync: the first ping is
\* there for that, as the node may not have called it after the second.
THEOREM Flushed == ASSUME OnePeer PROVE Spec => SyncFlushes
<1>1. ASSUME ExactInv, OnceInv, SyncReturns, node.phase # "off"
      PROVE  Len(got) >= mark /\ node.flushed > mark
  <2>1. pc = "pong" /\ last_message.pong = <<ping_counter>>
    BY <1>1 DEF SyncReturns
  <2>2. PICK i \in 1 .. Len(sent) : sent[i][1] = "pong" /\ <<ping_counter>> = <<sent[i][2]>>
    BY <1>1, <2>1 DEF OnceInv, PongsAnswer
  <2>3. PICK k \in 1 .. Len(got) : got[k] = Ping(ping_counter)
    BY <1>1, <2>2 DEF OnceInv, PongsAnswer
  <2>4. /\ Len(got) \in Nat /\ Len(accepted) \in Nat /\ Len(toNode) \in Nat
        /\ mark \in Nat /\ ping_counter \in Nat /\ node.flushed \in Nat
    BY <1>1, LenProperties DEF ExactInv, PeerTypes
  <2>5. k \in 1 .. Len(accepted) /\ accepted[k] = Ping(ping_counter)
    BY <1>1, <2>3, <2>4 DEF ExactInv, ReadInOrder
  <2>6. k >= mark + 2
    BY <1>1, <2>1, <2>4, <2>5 DEF OnceInv, PingsNumbered, Ping, Msg
  <2>7. Len(got) <= node.flushed + 1
    BY <1>1, <2>4 DEF OnceInv, Flushes
  <2> QED BY <2>3, <2>4, <2>6, <2>7
<1>2. ExactInv /\ OnceInv /\ [Next]_vars =>
        [SyncReturns /\ node.phase # "off" => Len(got) >= mark /\ node.flushed > mark]_vars
  BY <1>1
<1> QED BY <1>2, OnceInvariant, PTL DEF Spec, SyncFlushes

-----------------------------------------------------------------------------
(* The codecs, from the smallest: integers.                               *)

\* A byte has between 8 and 256 values.
LEMMA BaseFacts ==
  /\ ByteBits \in {3, 4, 5, 6, 7, 8}
  /\ Base \in {8, 16, 32, 64, 128, 256}
<1>1. ByteBits \in {3, 4, 5, 6, 7, 8}
  BY ByteBitsAssumption
<1>2. CASE ByteBits = 3
  BY <1>2 DEF Base
<1>3. CASE ByteBits = 4
  BY <1>3 DEF Base
<1>4. CASE ByteBits = 5
  BY <1>4 DEF Base
<1>5. CASE ByteBits = 6
  BY <1>5 DEF Base
<1>6. CASE ByteBits = 7
  BY <1>6 DEF Base
<1>7. CASE ByteBits = 8
  BY <1>7 DEF Base
<1> QED BY <1>1, <1>2, <1>3, <1>4, <1>5, <1>6, <1>7

\* f begins with c and goes on as step says, up to n.
Runs(f, n, X, c, step) ==
  f \in [0 .. n -> X] /\ f[0] = c /\ \A i \in 1 .. n : f[i] = step[i][f[i - 1]]

\* A function may be defined by what it is at 0 and how it goes on.
LEMMA Recursion ==
  ASSUME NEW n \in Nat, NEW X, NEW c \in X, NEW step \in [1 .. n -> [X -> X]]
  PROVE  \E f : Runs(f, n, X, c, step)
<1> DEFINE Defined(m) == \E f \in [0 .. m -> X] :
                           f[0] = c /\ \A i \in 1 .. m : f[i] = step[i][f[i - 1]]
           T == {m \in Nat : m <= n /\ ~Defined(m)}
<1>1. Defined(0)
  <2> DEFINE f == [i \in 0 .. 0 |-> c]
  <2>1. f \in [0 .. 0 -> X] /\ f[0] = c
    OBVIOUS
  <2>2. \A i \in 1 .. 0 : f[i] = step[i][f[i - 1]]
    OBVIOUS
  <2> HIDE DEF f
  <2> QED BY <2>1, <2>2
<1>2. ASSUME NEW m \in Nat, m + 1 <= n, Defined(m) PROVE Defined(m + 1)
  <2>1. PICK f \in [0 .. m -> X] : f[0] = c /\ \A i \in 1 .. m : f[i] = step[i][f[i - 1]]
    BY <1>2
  <2> DEFINE g == [i \in 0 .. m + 1 |-> IF i = m + 1 THEN step[i][f[i - 1]] ELSE f[i]]
  <2>2. m + 1 \in 1 .. n /\ (m + 1) - 1 = m /\ f[m] \in X
    BY <1>2, <2>1
  <2>3. step[m + 1][f[m]] \in X
    BY <2>2
  <2>4. g \in [0 .. m + 1 -> X]
    <3> SUFFICES ASSUME NEW i \in 0 .. m + 1 PROVE (IF i = m + 1 THEN step[i][f[i - 1]] ELSE f[i]) \in X
      OBVIOUS
    <3>1. CASE i = m + 1
      BY <2>2, <2>3, <3>1
    <3>2. CASE i # m + 1
      BY <2>1, <3>2
    <3> QED BY <3>1, <3>2
  <2>5. g[0] = c
    BY <2>1
  <2>6. ASSUME NEW i \in 1 .. m + 1 PROVE g[i] = step[i][g[i - 1]]
    <3>1. g[i - 1] = f[i - 1]
      OBVIOUS
    <3>2. CASE i = m + 1
      BY <3>1, <3>2
    <3>3. CASE i # m + 1
      BY <2>1, <3>1, <3>3
    <3> QED BY <3>2, <3>3
  <2> HIDE DEF g
  <2> QED BY <2>4, <2>5, <2>6
<1> HIDE DEF Defined
<1>3. T = {}
  <2> SUFFICES ASSUME T # {} PROVE FALSE
    OBVIOUS
  <2>1. T \in SUBSET Nat
    OBVIOUS
  <2>2. PICK m \in T : \A i \in T : m <= i
    BY <2>1, NatMin
  <2>3. m \in Nat /\ m <= n /\ ~Defined(m) /\ m # 0
    BY <1>1, <2>2
  <2>4. m - 1 \in Nat /\ (m - 1) + 1 = m /\ m - 1 <= n /\ ~(m <= m - 1)
    BY <2>3
  <2>5. Defined(m - 1)
    BY <2>2, <2>4
  <2> QED BY <1>2, <2>3, <2>4, <2>5
<1>4. Defined(n)
  BY <1>3
<1> QED BY <1>4 DEF Defined, Runs

\* The bases of the numbers: bits and bytes.
Radix == {2, 8, 16, 32, 64, 128, 256}

\* Division by a base leaves a digit.
LEMMA DivMod ==
  ASSUME NEW b \in Radix, NEW v \in Int
  PROVE  /\ v \div b \in Int /\ v % b \in 0 .. b - 1
         /\ v = (v % b) + b * (v \div b)
         /\ v >= 0 => v \div b >= 0 /\ v \div b <= v
BY DEF Radix

\* What Shifts computes.
LEMMA ShiftsSteps ==
  ASSUME NEW b \in Radix, NEW v \in Int, NEW n \in Nat
  PROVE  /\ Shifts(b, v, n) \in [0 .. n -> Int]
         /\ Shifts(b, v, n)[0] = v
         /\ \A i \in 1 .. n : Shifts(b, v, n)[i] = Shifts(b, v, n)[i - 1] \div b
<1> DEFINE Body(f) == [i \in 0 .. n |-> IF i = 0 THEN v ELSE f[i - 1] \div b]
           step == [i \in 1 .. n |-> [x \in Int |-> x \div b]]
<1>1. step \in [1 .. n -> [Int -> Int]]
  BY DivMod
<1>2. PICK f \in [0 .. n -> Int] : f[0] = v /\ \A i \in 1 .. n : f[i] = step[i][f[i - 1]]
  <2>1. \E f : Runs(f, n, Int, v, step)
    <3> HIDE DEF step
    <3> QED BY <1>1, Recursion
  <2> HIDE DEF step
  <2> QED BY <2>1 DEF Runs
<1>3. \A i \in 1 .. n : f[i] = f[i - 1] \div b
  <2> TAKE i \in 1 .. n
  <2>1. i - 1 \in 0 .. n /\ f[i - 1] \in Int
    BY <1>2
  <2>2. step[i][f[i - 1]] = f[i - 1] \div b
    BY <2>1
  <2> QED BY <1>2, <2>2
<1>4. f = Body(f)
  BY <1>2, <1>3
<1> DEFINE g == CHOOSE h : h = Body(h)
<1>5. g = Body(g)
  BY <1>4
<1>6. Shifts(b, v, n) = g
  BY DEF Shifts
<1> HIDE DEF g
<1>7. g[0] = v /\ \A i \in 1 .. n : g[i] = g[i - 1] \div b
  BY <1>5
<1>8. g \in [0 .. n -> Int]
  <2> DEFINE T == {i \in 0 .. n : g[i] \notin Int}
  <2>1. T = {}
    <3> SUFFICES ASSUME T # {} PROVE FALSE
      OBVIOUS
    <3>1. T \in SUBSET Nat
      OBVIOUS
    <3>2. PICK i \in T : \A j \in T : i <= j
      BY <3>1, NatMin
    <3>3. i \in 0 .. n /\ g[i] \notin Int /\ i # 0
      BY <1>7, <3>2
    <3>4. i - 1 \in 0 .. n /\ i \in 1 .. n /\ ~(i <= i - 1)
      BY <3>3
    <3>5. g[i - 1] \in Int
      BY <3>2, <3>4
    <3> QED BY <1>7, <3>3, <3>4, <3>5, DivMod
  <2>2. \A i \in 0 .. n : g[i] \in Int
    BY <2>1
  <2> QED BY <1>5, <2>2
<1> QED BY <1>6, <1>7, <1>8

\* What Number computes, for a function high of how many digits are taken.
LEMMA NumberSteps ==
  ASSUME NEW b \in Radix, NEW n \in Nat, NEW ds \in [1 .. n -> Int], NEW signed \in BOOLEAN
  PROVE  \E high \in [0 .. n -> Int] :
            /\ Number(b, ds, signed) = high[n]
            /\ high[0] = IF signed /\ 2 * ds[n] >= b THEN -1 ELSE 0
            /\ \A i \in 1 .. n : high[i] = ds[n + 1 - i] + b * high[i - 1]
<1> DEFINE c == IF signed /\ 2 * ds[n] >= b THEN -1 ELSE 0
           Body(f) == [i \in 0 .. n |-> IF i = 0 THEN c ELSE ds[n + 1 - i] + b * f[i - 1]]
           step == [i \in 1 .. n |-> [x \in Int |-> ds[n + 1 - i] + b * x]]
<1>1. Len(ds) = n /\ b \in Int /\ c \in Int
  BY DEF Radix
<1>2. step \in [1 .. n -> [Int -> Int]]
  <2> SUFFICES ASSUME NEW i \in 1 .. n, NEW x \in Int PROVE ds[n + 1 - i] + b * x \in Int
    OBVIOUS
  <2>1. n + 1 - i \in 1 .. n
    OBVIOUS
  <2>2. ds[n + 1 - i] \in Int
    BY <2>1
  <2> QED BY <1>1, <2>1, <2>2
<1>3. PICK f \in [0 .. n -> Int] : f[0] = c /\ \A i \in 1 .. n : f[i] = step[i][f[i - 1]]
  <2>1. \E f : Runs(f, n, Int, c, step)
    <3> HIDE DEF step, c
    <3> QED BY <1>1, <1>2, Recursion
  <2> HIDE DEF step
  <2> QED BY <2>1 DEF Runs
<1>4. \A i \in 1 .. n : f[i] = ds[n + 1 - i] + b * f[i - 1]
  <2> TAKE i \in 1 .. n
  <2>1. i - 1 \in 0 .. n /\ f[i - 1] \in Int
    BY <1>3
  <2>2. step[i][f[i - 1]] = ds[n + 1 - i] + b * f[i - 1]
    BY <2>1
  <2> QED BY <1>3, <2>2
<1>5. f = Body(f)
  BY <1>3, <1>4
<1> DEFINE g == CHOOSE h : h = Body(h)
<1>6. g = Body(g)
  BY <1>5
<1>7. Number(b, ds, signed) = g[n]
  BY <1>1 DEF Number
<1> HIDE DEF g
<1>8. g[0] = c /\ \A i \in 1 .. n : g[i] = ds[n + 1 - i] + b * g[i - 1]
  BY <1>6
<1>9. g \in [0 .. n -> Int]
  <2> DEFINE T == {i \in 0 .. n : g[i] \notin Int}
  <2>1. T = {}
    <3> SUFFICES ASSUME T # {} PROVE FALSE
      OBVIOUS
    <3>1. T \in SUBSET Nat
      OBVIOUS
    <3>2. PICK i \in T : \A j \in T : i <= j
      BY <3>1, NatMin
    <3>3. i \in 0 .. n /\ g[i] \notin Int /\ i # 0
      BY <1>1, <1>8, <3>2
    <3>4. i - 1 \in 0 .. n /\ i \in 1 .. n /\ ~(i <= i - 1) /\ n + 1 - i \in 1 .. n
      BY <3>3
    <3>5. g[i - 1] \in Int /\ ds[n + 1 - i] \in Int
      BY <3>2, <3>4
    <3>6. g[i] = ds[n + 1 - i] + b * g[i - 1]
      BY <1>8, <3>4
    <3>7. \A x, y \in Int : x + b * y \in Int
      BY DEF Radix
    <3>8. ds[n + 1 - i] + b * g[i - 1] \in Int
      BY <3>5, <3>7
    <3> QED BY <3>3, <3>6, <3>8
  <2>2. \A i \in 0 .. n : g[i] \in Int
    BY <2>1
  <2> QED BY <1>6, <2>2
<1> QED BY <1>7, <1>8, <1>9

\* The digits are digits.
LEMMA DigitsType ==
  ASSUME NEW b \in Radix, NEW v \in Int, NEW n \in Nat
  PROVE  /\ Digits(b, v, n) \in [1 .. n -> 0 .. b - 1]
         /\ \A i \in 1 .. n : Digits(b, v, n)[i] = Shifts(b, v, n)[i - 1] % b
<1> DEFINE s == Shifts(b, v, n)
<1>1. s \in [0 .. n -> Int]
  BY ShiftsSteps
<1>2. Digits(b, v, n) = [i \in 1 .. n |-> s[i - 1] % b]
  BY DEF Digits
<1> HIDE DEF s
<1>3. ASSUME NEW i \in 1 .. n PROVE s[i - 1] % b \in 0 .. b - 1
  <2>1. s[i - 1] \in Int
    BY <1>1
  <2> QED BY <2>1, DivMod
<1>4. Digits(b, v, n) \in [1 .. n -> 0 .. b - 1]
  BY <1>2, <1>3
<1>5. \A i \in 1 .. n : Digits(b, v, n)[i] = s[i - 1] % b
  BY <1>2
<1> QED BY <1>4, <1>5 DEF s

\* The highest digit of a signed number tells its sign.
LEMMA HighDigit ==
  ASSUME NEW b \in Radix, NEW x \in -(b \div 2) .. (b \div 2) - 1
  PROVE  IF 2 * (x % b) >= b THEN x \div b = -1 ELSE x \div b = 0
BY DEF Radix

\* A number that fits its digits is read from them: without a sign when nothing
\* is left above the digits, with a sign when the highest digit can hold it.
LEMMA NumberDigits ==
  ASSUME NEW b \in Radix, NEW v \in Int, NEW n \in Nat, NEW signed \in BOOLEAN,
         signed => n # 0 /\ Shifts(b, v, n)[n - 1] \in -(b \div 2) .. (b \div 2) - 1,
         ~signed => Shifts(b, v, n)[n] = 0
  PROVE  Number(b, Digits(b, v, n), signed) = v
<1> DEFINE s == Shifts(b, v, n)
           d == Digits(b, v, n)
<1>1. /\ s \in [0 .. n -> Int] /\ s[0] = v
      /\ \A i \in 1 .. n : s[i] = s[i - 1] \div b
  BY ShiftsSteps
<1>2. d \in [1 .. n -> 0 .. b - 1] /\ \A i \in 1 .. n : d[i] = s[i - 1] % b
  BY DigitsType
<1>3. /\ signed => n # 0 /\ s[n - 1] \in -(b \div 2) .. (b \div 2) - 1
      /\ ~signed => s[n] = 0
  OBVIOUS
<1> HIDE DEF s, d
<1>4. d \in [1 .. n -> Int] /\ b \in Int
  BY <1>2 DEF Radix
<1>5. PICK high \in [0 .. n -> Int] :
            /\ Number(b, d, signed) = high[n]
            /\ high[0] = IF signed /\ 2 * d[n] >= b THEN -1 ELSE 0
            /\ \A i \in 1 .. n : high[i] = d[n + 1 - i] + b * high[i - 1]
  BY <1>4, NumberSteps
<1>6. \A i \in 1 .. n : s[i - 1] = d[i] + b * s[i]
  <2> TAKE i \in 1 .. n
  <2>1. s[i - 1] \in Int
    BY <1>1
  <2>2. s[i - 1] = (s[i - 1] % b) + b * (s[i - 1] \div b)
    BY <2>1, DivMod
  <2> QED BY <1>1, <1>2, <2>2
<1>7. high[0] = s[n]
  <2>1. CASE ~signed
    BY <1>3, <1>5, <2>1
  <2>2. CASE signed
    <3>1. n \in 1 .. n /\ s[n - 1] \in Int
      BY <1>1, <1>3, <2>2
    <3>2. d[n] = s[n - 1] % b /\ s[n] = s[n - 1] \div b
      BY <1>1, <1>2, <3>1
    <3>3. s[n - 1] \in -(b \div 2) .. (b \div 2) - 1
      BY <1>3, <2>2
    <3>4. 2 * d[n] >= b => s[n] = -1
      BY <3>1, <3>2, <3>3, HighDigit
    <3>5. ~(2 * d[n] >= b) => s[n] = 0
      BY <3>1, <3>2, <3>3, HighDigit
    <3> QED BY <1>5, <2>2, <3>4, <3>5
  <2> QED BY <2>1, <2>2
<1>8. \A i \in 0 .. n : high[i] = s[n - i]
  <2> DEFINE T == {i \in 0 .. n : high[i] # s[n - i]}
  <2> SUFFICES ASSUME T # {} PROVE FALSE
    OBVIOUS
  <2>1. T \in SUBSET Nat
    OBVIOUS
  <2>2. PICK i \in T : \A j \in T : i <= j
    BY <2>1, NatMin
  <2>3. i \in 0 .. n /\ high[i] # s[n - i] /\ i # 0
    BY <1>7, <2>2
  <2>4. /\ i - 1 \in 0 .. n /\ i \in 1 .. n /\ ~(i <= i - 1)
        /\ n + 1 - i \in 1 .. n /\ (n + 1 - i) - 1 = n - i /\ n - (i - 1) = n + 1 - i
    BY <2>3
  <2>5. high[i - 1] = s[n + 1 - i]
    BY <2>2, <2>4
  <2>6. high[i] = d[n + 1 - i] + b * s[n + 1 - i]
    BY <1>5, <2>4, <2>5
  <2>7. s[n - i] = d[n + 1 - i] + b * s[n + 1 - i]
    BY <1>6, <2>4
  <2> QED BY <2>3, <2>6, <2>7
<1>9. high[n] = s[0]
  BY <1>8
<1> QED BY <1>1, <1>5, <1>9 DEF d

\* Digits are got back from their number, which is no number below 0.
LEMMA DigitsNumber ==
  ASSUME NEW b \in Radix, NEW n \in Nat, NEW ds \in [1 .. n -> 0 .. b - 1]
  PROVE  /\ Number(b, ds, FALSE) \in Nat
         /\ Shifts(b, Number(b, ds, FALSE), n)[n] = 0
         /\ Digits(b, Number(b, ds, FALSE), n) = ds
<1>1. b \in Nat /\ ds \in [1 .. n -> Int]
  BY DEF Radix
<1>2. PICK high \in [0 .. n -> Int] :
            /\ Number(b, ds, FALSE) = high[n]
            /\ high[0] = 0
            /\ \A i \in 1 .. n : high[i] = ds[n + 1 - i] + b * high[i - 1]
  BY <1>1, NumberSteps
<1>3. \A i \in 0 .. n : high[i] >= 0
  <2> DEFINE T == {i \in 0 .. n : ~(high[i] >= 0)}
  <2> SUFFICES ASSUME T # {} PROVE FALSE
    OBVIOUS
  <2>1. T \in SUBSET Nat
    OBVIOUS
  <2>2. PICK i \in T : \A j \in T : i <= j
    BY <2>1, NatMin
  <2>3. i \in 0 .. n /\ ~(high[i] >= 0) /\ i # 0
    BY <1>2, <2>2
  <2>4. i - 1 \in 0 .. n /\ i \in 1 .. n /\ ~(i <= i - 1) /\ n + 1 - i \in 1 .. n
    BY <2>3
  <2>5. high[i - 1] >= 0 /\ high[i - 1] \in Int /\ ds[n + 1 - i] \in Int /\ ds[n + 1 - i] >= 0
    BY <1>2, <2>2, <2>4
  <2>6. high[i] = ds[n + 1 - i] + b * high[i - 1]
    BY <1>2, <2>4
  <2>7. \A d, x \in Int : d >= 0 /\ x >= 0 => d + b * x >= 0
    BY DEF Radix
  <2> QED BY <2>3, <2>5, <2>6, <2>7
<1> DEFINE v == high[n]
           s == Shifts(b, v, n)
<1>15. v \in Int /\ v >= 0
  <2>1. n \in 0 .. n
    OBVIOUS
  <2> QED BY <1>2, <1>3, <2>1
<1>4. v \in Int /\ v = Number(b, ds, FALSE)
  BY <1>2, <1>15
<1>5. /\ s \in [0 .. n -> Int] /\ s[0] = v
      /\ \A i \in 1 .. n : s[i] = s[i - 1] \div b
  BY <1>4, ShiftsSteps
<1>6. /\ Digits(b, v, n) \in [1 .. n -> 0 .. b - 1]
      /\ \A i \in 1 .. n : Digits(b, v, n)[i] = s[i - 1] % b
  BY <1>4, DigitsType
<1>7. \A d \in 0 .. b - 1 : \A x \in Int : (d + b * x) \div b = x /\ (d + b * x) % b = d
  BY SMTT(30) DEF Radix
<1>8. ASSUME NEW i \in 1 .. n
      PROVE  high[n + 1 - i] \div b = high[n - i] /\ high[n + 1 - i] % b = ds[i]
  <2>1. n + 1 - i \in 1 .. n /\ n + 1 - (n + 1 - i) = i /\ (n + 1 - i) - 1 = n - i /\ n - i \in 0 .. n
    OBVIOUS
  <2>2. high[n + 1 - i] = ds[i] + b * high[n - i]
    BY <1>2, <2>1
  <2>3. ds[i] \in 0 .. b - 1 /\ high[n - i] \in Int
    BY <1>2, <2>1
  <2> QED BY <1>7, <2>2, <2>3
<1> HIDE DEF s, v
<1>9. \A i \in 0 .. n : s[i] = high[n - i]
  <2> DEFINE T == {i \in 0 .. n : s[i] # high[n - i]}
  <2> SUFFICES ASSUME T # {} PROVE FALSE
    OBVIOUS
  <2>1. T \in SUBSET Nat
    OBVIOUS
  <2>2. PICK i \in T : \A j \in T : i <= j
    BY <2>1, NatMin
  <2>3. i \in 0 .. n /\ s[i] # high[n - i] /\ i # 0
    BY <1>5, <2>2 DEF v
  <2>4. i - 1 \in 0 .. n /\ i \in 1 .. n /\ ~(i <= i - 1) /\ n - (i - 1) = n + 1 - i
    BY <2>3
  <2>5. s[i - 1] = high[n + 1 - i]
    BY <2>2, <2>4
  <2> QED BY <1>5, <1>8, <2>3, <2>4, <2>5
<1>10. s[n] = 0
  BY <1>2, <1>9
<1>11. \A i \in 1 .. n : Digits(b, v, n)[i] = ds[i]
  <2> TAKE i \in 1 .. n
  <2>1. i - 1 \in 0 .. n /\ n - (i - 1) = n + 1 - i
    OBVIOUS
  <2>2. s[i - 1] = high[n + 1 - i]
    BY <1>9, <2>1
  <2> QED BY <1>6, <1>8, <2>2
<1>12. Digits(b, v, n) = ds
  BY <1>6, <1>11
<1>13. Shifts(b, v, n)[n] = 0
  BY <1>10, Zenon DEF s
<1>14. v \in Nat
  BY <1>15
<1> QED BY <1>4, <1>12, <1>13, <1>14, Zenon

-----------------------------------------------------------------------------
(* Bytes.                                                                  *)

\* A sequence is cut where two were joined.
LEMMA Cut ==
  ASSUME NEW S, NEW s \in Seq(S), NEW t \in Seq(S)
  PROVE  /\ Prefix(s \o t, Len(s)) = s
         /\ Suffix(s \o t, Len(s)) = t
         /\ Len(s \o t) >= Len(s)
<1>1. /\ s \o t \in Seq(S) /\ Len(s \o t) = Len(s) + Len(t)
      /\ Len(s) \in Nat /\ Len(t) \in Nat
      /\ \A i \in 1 .. Len(s) + Len(t) : (s \o t)[i] = IF i <= Len(s) THEN s[i] ELSE t[i - Len(s)]
  BY ConcatProperties
<1>2. Prefix(s \o t, Len(s)) = SubSeq(s \o t, 1, Len(s))
  BY <1>1 DEF Prefix
<1>3. SubSeq(s \o t, 1, Len(s)) = s
  <2>1. \A i \in 1 .. Len(s) : (s \o t)[i] = s[i] /\ s[i] \in S
    BY <1>1
  <2>2. /\ SubSeq(s \o t, 1, Len(s)) \in Seq(S)
        /\ Len(SubSeq(s \o t, 1, Len(s))) = Len(s)
        /\ \A i \in 1 .. Len(s) : SubSeq(s \o t, 1, Len(s))[i] = s[i]
    BY <1>1, <2>1, SubSeqProperties
  <2> QED BY <2>2, SeqEqual
<1>4. Suffix(s \o t, Len(s)) = t
  <2> DEFINE u == SubSeq(s \o t, Len(s) + 1, Len(s) + Len(t))
  <2>1. \A i \in Len(s) + 1 .. Len(s) + Len(t) : (s \o t)[i] \in S
    <3> TAKE i \in Len(s) + 1 .. Len(s) + Len(t)
    <3>1. i - Len(s) \in 1 .. Len(t) /\ i \in 1 .. Len(s) + Len(t) /\ ~(i <= Len(s))
      BY <1>1
    <3> QED BY <1>1, <3>1
  <2>2. /\ u \in Seq(S) /\ Len(u) = Len(t)
        /\ \A i \in 1 .. (Len(s) + Len(t)) - (Len(s) + 1) + 1 : u[i] = (s \o t)[(Len(s) + 1) + i - 1]
    <3>1. Len(s) + 1 \in Int /\ Len(s) + Len(t) \in Int
      BY <1>1
    <3>2. /\ u \in Seq(S)
          /\ Len(u) = IF Len(s) + 1 <= Len(s) + Len(t) THEN (Len(s) + Len(t)) - (Len(s) + 1) + 1 ELSE 0
          /\ \A i \in 1 .. (Len(s) + Len(t)) - (Len(s) + 1) + 1 : u[i] = (s \o t)[(Len(s) + 1) + i - 1]
      BY <2>1, <3>1, SubSeqProperties
    <3> HIDE DEF u
    <3> QED BY <1>1, <3>2
  <2> HIDE DEF u
  <2>3. \A i \in 1 .. Len(t) : u[i] = t[i]
    <3> TAKE i \in 1 .. Len(t)
    <3>1. /\ i \in 1 .. (Len(s) + Len(t)) - (Len(s) + 1) + 1 /\ (Len(s) + 1) + i - 1 = Len(s) + i
          /\ Len(s) + i \in 1 .. Len(s) + Len(t) /\ ~(Len(s) + i <= Len(s)) /\ (Len(s) + i) - Len(s) = i
      BY <1>1
    <3> QED BY <1>1, <2>2, <3>1
  <2>4. u = t
    BY <2>2, <2>3, SeqEqual
  <2> QED BY <1>1, <2>4 DEF Suffix, u
<1> QED BY <1>1, <1>2, <1>3, <1>4

\* A byte in front of others is their head.
LEMMA HeadTail ==
  ASSUME NEW S, NEW x \in S, NEW t \in Seq(S)
  PROVE  /\ <<x>> \in Seq(S)
         /\ <<x>> \o t # <<>> /\ Head(<<x>> \o t) = x /\ Tail(<<x>> \o t) = t
<1>1. <<x>> \in Seq(S) /\ Len(<<x>>) = 1 /\ <<x>>[1] = x
  OBVIOUS
<1> DEFINE u == <<x>> \o t
<1>2. /\ u \in Seq(S) /\ Len(u) = 1 + Len(t) /\ Len(t) \in Nat
      /\ \A i \in 1 .. 1 + Len(t) : u[i] = IF i <= 1 THEN <<x>>[i] ELSE t[i - 1]
  BY <1>1, ConcatProperties
<1> HIDE DEF u
<1>3. u # <<>> /\ Len(u) # 0
  BY <1>2
<1>4. Head(u) = x
  BY <1>1, <1>2
<1>5. /\ Tail(u) \in Seq(S) /\ Len(Tail(u)) = Len(u) - 1
      /\ \A i \in 1 .. Len(Tail(u)) : Tail(u)[i] = u[i + 1]
  BY <1>2, <1>3, HeadTailProperties
<1>6. \A i \in 1 .. Len(t) : Tail(u)[i] = t[i]
  <2> TAKE i \in 1 .. Len(t)
  <2>1. i \in 1 .. Len(Tail(u)) /\ i + 1 \in 1 .. 1 + Len(t) /\ ~(i + 1 <= 1) /\ (i + 1) - 1 = i
    BY <1>2, <1>5
  <2> QED BY <1>2, <1>5, <2>1
<1>7. Tail(u) = t
  BY <1>2, <1>5, <1>6, SeqEqual
<1> QED BY <1>1, <1>3, <1>4, <1>7 DEF u

\* The bytes of an integer.
LEMMA LEType ==
  ASSUME NEW v \in Int, NEW n \in Nat
  PROVE  LE(v, n) \in Bytes /\ Len(LE(v, n)) = n
<1>1. Base \in Radix
  BY BaseFacts DEF Radix
<1>2. Digits(Base, v, n) \in [1 .. n -> 0 .. Base - 1]
  BY <1>1, DigitsType
<1> DEFINE d == Digits(Base, v, n)
<1> HIDE DEF d
<1>3. \A S : d \in [1 .. n -> S] => d \in Seq(S) /\ Len(d) = n
  OBVIOUS
<1> QED BY <1>2, <1>3 DEF LE, Bytes, Byte, d

\* Reading an integer of n bytes, whatever follows it.
LEMMA ReadsUnsigned ==
  ASSUME NEW n \in Nat, NEW v \in Unsigned(n), NEW rest \in Bytes
  PROVE  ReadInt(LE(v, n) \o rest, n, FALSE) = Got(v, rest)
<1>1. Base \in Radix
  BY BaseFacts DEF Radix
<1>2. v \in Int /\ Shifts(Base, v, n)[n] = 0
  BY DEF Unsigned
<1>3. LE(v, n) \in Bytes /\ Len(LE(v, n)) = n
  BY <1>2, LEType
<1>4. Number(Base, LE(v, n), FALSE) = v
  BY <1>1, <1>2, NumberDigits DEF LE
<1>5. /\ Prefix(LE(v, n) \o rest, n) = LE(v, n) /\ Suffix(LE(v, n) \o rest, n) = rest
      /\ Len(LE(v, n) \o rest) >= n
  BY <1>3, Cut DEF Bytes
<1>6. ~(Len(LE(v, n) \o rest) < n)
  <2>1. Len(LE(v, n) \o rest) \in Nat
    BY <1>3 DEF Bytes
  <2> QED BY <1>5, <2>1
<1> QED BY <1>4, <1>5, <1>6 DEF ReadInt

\* The same for an integer with a sign.
LEMMA ReadsSigned ==
  ASSUME NEW n \in Nat \ {0}, NEW v \in Signed(n), NEW rest \in Bytes
  PROVE  ReadInt(LE(v, n) \o rest, n, TRUE) = Got(v, rest)
<1>1. Base \in Radix
  BY BaseFacts DEF Radix
<1>2. v \in Int /\ Shifts(Base, v, n)[n - 1] \in -(Base \div 2) .. (Base \div 2) - 1
  BY DEF Signed
<1>3. LE(v, n) \in Bytes /\ Len(LE(v, n)) = n
  BY <1>2, LEType
<1>4. Number(Base, LE(v, n), TRUE) = v
  BY <1>1, <1>2, NumberDigits DEF LE
<1>5. /\ Prefix(LE(v, n) \o rest, n) = LE(v, n) /\ Suffix(LE(v, n) \o rest, n) = rest
      /\ Len(LE(v, n) \o rest) >= n
  BY <1>3, Cut DEF Bytes
<1>6. ~(Len(LE(v, n) \o rest) < n)
  <2>1. Len(LE(v, n) \o rest) \in Nat
    BY <1>3 DEF Bytes
  <2> QED BY <1>5, <2>1
<1> QED BY <1>4, <1>5, <1>6 DEF ReadInt

-----------------------------------------------------------------------------
(* Codecs.                                                                 *)

\* Reading what c wrote of v gives w, whatever follows it, and w is written as v is.
Rereads(c, v, w) ==
  /\ v \in DOMAIN c.ser /\ w \in DOMAIN c.ser
  /\ c.ser[v] \in Bytes /\ c.ser[v] # <<>>
  /\ c.ser[w] = c.ser[v]
  /\ \A rest \in Bytes : c.deser[c.ser[v] \o rest] = Got(w, rest)

\* A codec that reads what it wrote.
Exact(c) == \A v \in DOMAIN c.ser : Rereads(c, v, v)

\* What is not empty has a length.
LEMMA NotEmpty == ASSUME NEW S, NEW s \in Seq(S), Len(s) # 0 PROVE s # <<>>
BY EmptySeq

\* Unsigned integers.
LEMMA UIntExact == ASSUME NEW n \in Nat \ {0}
                   PROVE  DOMAIN UInt(n).ser = Unsigned(n) /\ Exact(UInt(n))
<1>1. /\ DOMAIN UInt(n).ser = Unsigned(n)
      /\ \A v \in Unsigned(n) : UInt(n).ser[v] = LE(v, n)
      /\ \A b \in Bytes : UInt(n).deser[b] = ReadInt(b, n, FALSE)
  BY DEF UInt, Class
<1>2. ASSUME NEW v \in Unsigned(n) PROVE Rereads(UInt(n), v, v)
  <2>1. v \in Int
    BY DEF Unsigned
  <2>2. LE(v, n) \in Bytes /\ LE(v, n) # <<>>
    BY <2>1, LEType, NotEmpty DEF Bytes
  <2>3. ASSUME NEW rest \in Bytes PROVE UInt(n).deser[LE(v, n) \o rest] = Got(v, rest)
    <3>1. LE(v, n) \o rest \in Bytes
      BY <2>2 DEF Bytes
    <3> QED BY <1>1, <3>1, ReadsUnsigned
  <2> QED BY <1>1, <2>2, <2>3 DEF Rereads
<1> QED BY <1>1, <1>2 DEF Exact

\* Signed integers.
LEMMA SIntExact == ASSUME NEW n \in Nat \ {0}
                   PROVE  DOMAIN SInt(n).ser = Signed(n) /\ Exact(SInt(n))
<1>1. /\ DOMAIN SInt(n).ser = Signed(n)
      /\ \A v \in Signed(n) : SInt(n).ser[v] = LE(v, n)
      /\ \A b \in Bytes : SInt(n).deser[b] = ReadInt(b, n, TRUE)
  BY DEF SInt, Class
<1>2. ASSUME NEW v \in Signed(n) PROVE Rereads(SInt(n), v, v)
  <2>1. v \in Int
    BY DEF Signed
  <2>2. LE(v, n) \in Bytes /\ LE(v, n) # <<>>
    BY <2>1, LEType, NotEmpty DEF Bytes
  <2>3. ASSUME NEW rest \in Bytes PROVE SInt(n).deser[LE(v, n) \o rest] = Got(v, rest)
    <3>1. LE(v, n) \o rest \in Bytes
      BY <2>2 DEF Bytes
    <3> QED BY <1>1, <3>1, ReadsSigned
  <2> QED BY <1>1, <2>2, <2>3 DEF Rereads
<1> QED BY <1>1, <1>2 DEF Exact

\* uint256.
LEMMA UInt256Exact == Exact(UInt256)
<1>1. PICK n \in Nat \ {0} : n = 32
  OBVIOUS
<1>2. /\ DOMAIN UInt256.ser = Unsigned(n)
      /\ \A v \in Unsigned(n) : UInt256.ser[v] = LE(v, n)
      /\ \A b \in Bytes : UInt256.deser[b] = Got(FromLE(Prefix(b, n)), Suffix(b, n))
  BY <1>1 DEF UInt256, Class
<1>3. ASSUME NEW v \in Unsigned(n) PROVE Rereads(UInt256, v, v)
  <2>1. v \in Int /\ Shifts(Base, v, n)[n] = 0
    BY DEF Unsigned
  <2>2. LE(v, n) \in Bytes /\ Len(LE(v, n)) = n
    BY <2>1, LEType
  <2>3. LE(v, n) # <<>>
    BY <2>2, NotEmpty DEF Bytes
  <2>4. FromLE(LE(v, n)) = v
    <3>1. Base \in Radix
      BY BaseFacts DEF Radix
    <3> QED BY <2>1, <3>1, NumberDigits DEF LE, FromLE
  <2>5. ASSUME NEW rest \in Bytes PROVE UInt256.deser[LE(v, n) \o rest] = Got(v, rest)
    <3>1. LE(v, n) \o rest \in Bytes
      BY <2>2 DEF Bytes
    <3>2. Prefix(LE(v, n) \o rest, n) = LE(v, n) /\ Suffix(LE(v, n) \o rest, n) = rest
      BY <2>2, Cut DEF Bytes
    <3> QED BY <1>2, <2>4, <3>1, <3>2
  <2> QED BY <1>2, <2>2, <2>3, <2>5 DEF Rereads
<1> QED BY <1>2, <1>3 DEF Exact

\* A number that n bytes hold fits.
LEMMA FitsOne == ASSUME NEW l \in Nat, l < Base PROVE l \in Unsigned(1) /\ LE(l, 1) = <<l>>
<1>1. Base \in Radix /\ l \div Base = 0 /\ l % Base = l
  BY BaseFacts DEF Radix
<1>2. PICK n \in Nat : n = 1
  OBVIOUS
<1>3. /\ Shifts(Base, l, n)[0] = l
      /\ \A i \in 1 .. n : Shifts(Base, l, n)[i] = Shifts(Base, l, n)[i - 1] \div Base
  BY <1>1, ShiftsSteps
<1>4. Shifts(Base, l, n)[n] = 0
  BY <1>1, <1>2, <1>3
<1>5. /\ Digits(Base, l, n) \in [1 .. n -> 0 .. Base - 1]
      /\ \A i \in 1 .. n : Digits(Base, l, n)[i] = Shifts(Base, l, n)[i - 1] % Base
  BY <1>1, DigitsType
<1> DEFINE d == Digits(Base, l, n)
<1>6. d[1] = l
  BY <1>1, <1>2, <1>3, <1>5
<1> HIDE DEF d
<1>7. \A S : d \in [1 .. 1 -> S] => d = <<d[1]>>
  OBVIOUS
<1>8. d = <<l>>
  BY <1>2, <1>5, <1>6, <1>7 DEF d
<1> QED BY <1>2, <1>4, <1>8 DEF Unsigned, LE, d

\* Dividing two times leaves nothing.
LEMMA BelowTwo == ASSUME NEW l \in Nat, l < Base ^ 2 PROVE (l \div Base) \div Base = 0
<1>1. CASE Base = 8
  BY <1>1
<1>2. CASE Base = 16
  BY <1>2
<1>3. CASE Base = 32
  BY <1>3
<1>4. CASE Base = 64
  BY <1>4
<1>5. CASE Base = 128
  BY <1>5
<1>6. CASE Base = 256
  BY <1>6
<1> QED BY <1>1, <1>2, <1>3, <1>4, <1>5, <1>6, BaseFacts

\* Dividing four times leaves nothing.
LEMMA BelowFour ==
  ASSUME NEW l \in Nat, l < Base ^ 4
  PROVE  (((l \div Base) \div Base) \div Base) \div Base = 0
<1>1. CASE Base = 8
  BY <1>1
<1>2. CASE Base = 16
  BY <1>2
<1>3. CASE Base = 32
  BY <1>3
<1>4. CASE Base = 64
  BY <1>4
<1>5. CASE Base = 128
  BY <1>5
<1>6. CASE Base = 256
  BY <1>6
<1> QED BY <1>1, <1>2, <1>3, <1>4, <1>5, <1>6, BaseFacts

\* What is left of a number after two and after four digits.
LEMMA FitsTwo == ASSUME NEW l \in Nat, (l \div Base) \div Base = 0 PROVE l \in Unsigned(2)
<1>1. Base \in Radix
  BY BaseFacts DEF Radix
<1>2. PICK n \in Nat : n = 2
  OBVIOUS
<1>3. /\ Shifts(Base, l, n)[0] = l
      /\ \A i \in 1 .. n : Shifts(Base, l, n)[i] = Shifts(Base, l, n)[i - 1] \div Base
  BY <1>1, ShiftsSteps
<1>4. Shifts(Base, l, n)[n] = (l \div Base) \div Base
  BY <1>2, <1>3
<1> QED BY <1>2, <1>4 DEF Unsigned

\* The same for four.
LEMMA FitsFour ==
  ASSUME NEW l \in Nat, (((l \div Base) \div Base) \div Base) \div Base = 0
  PROVE  l \in Unsigned(4)
<1>1. Base \in Radix
  BY BaseFacts DEF Radix
<1>2. PICK n \in Nat : n = 4
  OBVIOUS
<1>3. /\ Shifts(Base, l, n)[0] = l
      /\ \A i \in 1 .. n : Shifts(Base, l, n)[i] = Shifts(Base, l, n)[i - 1] \div Base
  BY <1>1, ShiftsSteps
<1>4. Shifts(Base, l, n)[n] = (((l \div Base) \div Base) \div Base) \div Base
  BY <1>2, <1>3
<1> QED BY <1>2, <1>4 DEF Unsigned

\* The bounds of the forms of a compact size.
LEMMA Powers == /\ Base \in Nat /\ Base ^ 2 \in Nat /\ Base ^ 4 \in Nat
                /\ Base <= Base ^ 2 /\ Base ^ 2 <= Base ^ 4
<1>1. CASE Base = 8
  BY <1>1
<1>2. CASE Base = 16
  BY <1>2
<1>3. CASE Base = 32
  BY <1>3
<1>4. CASE Base = 64
  BY <1>4
<1>5. CASE Base = 128
  BY <1>5
<1>6. CASE Base = 256
  BY <1>6
<1> QED BY <1>1, <1>2, <1>3, <1>4, <1>5, <1>6, BaseFacts

\* The form of a compact size.
LEMMA CompactForms ==
  ASSUME NEW l \in Unsigned(8)
  PROVE  \/ l < Base - 3 /\ ser_compact_size(l) = <<l>>
         \/ l \in Unsigned(2) /\ ser_compact_size(l) = <<Base - 3>> \o LE(l, 2)
         \/ l \in Unsigned(4) /\ ser_compact_size(l) = <<Base - 2>> \o LE(l, 4)
         \/ ser_compact_size(l) = <<Base - 1>> \o LE(l, 8)
<1> DEFINE two == Base ^ 2
           four == Base ^ 4
<1>1. l \in Nat
  BY DEF Unsigned
<1>2. Base \in Nat /\ two \in Nat /\ four \in Nat /\ Base <= two /\ two <= four
  BY Powers
<1>3. l < two => l \in Unsigned(2)
  BY <1>1, BelowTwo, FitsTwo
<1>4. l < four => l \in Unsigned(4)
  BY <1>1, BelowFour, FitsFour
<1>5. ser_compact_size(l) =
        CASE l < Base - 3  -> LE(l, 1)
          [] l >= Base - 3 /\ l < two -> <<Base - 3>> \o LE(l, 2)
          [] l >= two /\ l < four -> <<Base - 2>> \o LE(l, 4)
          [] OTHER -> <<Base - 1>> \o LE(l, 8)
  BY DEF ser_compact_size
<1> HIDE DEF two, four
<1>6. CASE l < Base - 3
  <2>1. ser_compact_size(l) = LE(l, 1)
    BY <1>1, <1>2, <1>5, <1>6
  <2>2. l < Base
    BY <1>1, <1>2, <1>6
  <2> QED BY <1>1, <1>6, <2>1, <2>2, FitsOne
<1>7. CASE ~(l < Base - 3) /\ l < two
  <2>1. ser_compact_size(l) = <<Base - 3>> \o LE(l, 2)
    BY <1>1, <1>2, <1>5, <1>7
  <2> QED BY <1>3, <1>7, <2>1
<1>8. CASE ~(l < Base - 3) /\ ~(l < two) /\ l < four
  <2>1. ser_compact_size(l) = <<Base - 2>> \o LE(l, 4)
    BY <1>1, <1>2, <1>5, <1>8
  <2> QED BY <1>4, <1>8, <2>1
<1>9. CASE ~(l < Base - 3) /\ ~(l < two) /\ ~(l < four)
  <2>1. ser_compact_size(l) = <<Base - 1>> \o LE(l, 8)
    BY <1>1, <1>2, <1>5, <1>9
  <2> QED BY <2>1
<1> QED BY <1>6, <1>7, <1>8, <1>9

\* A marker and the integer behind it.
LEMMA MarkedSize ==
  ASSUME NEW x \in Byte, NEW n \in Nat, NEW l \in Unsigned(n), NEW rest \in Bytes
  PROVE  /\ <<x>> \o LE(l, n) \in Bytes /\ <<x>> \o LE(l, n) # <<>>
         /\ (<<x>> \o LE(l, n)) \o rest # <<>>
         /\ Head((<<x>> \o LE(l, n)) \o rest) = x
         /\ ReadInt(Tail((<<x>> \o LE(l, n)) \o rest), n, FALSE) = Got(l, rest)
<1>1. l \in Int
  BY DEF Unsigned
<1>2. LE(l, n) \in Seq(Byte) /\ rest \in Seq(Byte)
  BY <1>1, LEType DEF Bytes
<1>3. <<x>> \in Seq(Byte)
  OBVIOUS
<1>4. (<<x>> \o LE(l, n)) \o rest = <<x>> \o (LE(l, n) \o rest)
  BY <1>2, <1>3, ConcatAssociative
<1>5. <<x>> \o LE(l, n) \in Seq(Byte) /\ LE(l, n) \o rest \in Seq(Byte)
  BY <1>2, <1>3, ConcatProperties
<1>6. /\ (<<x>> \o LE(l, n)) \o rest # <<>> /\ <<x>> \o LE(l, n) # <<>>
      /\ Head((<<x>> \o LE(l, n)) \o rest) = x
      /\ Tail((<<x>> \o LE(l, n)) \o rest) = LE(l, n) \o rest
  BY <1>2, <1>4, <1>5, HeadTail
<1> QED BY <1>5, <1>6, ReadsUnsigned DEF Bytes

\* x is the marker of an integer of n bytes.
ReadsBehind(x, n) == \/ x = Base - 3 /\ n = 2
                     \/ x = Base - 2 /\ n = 4
                     \/ x = Base - 1 /\ n = 8

\* The reader finds the integer behind its marker.
LEMMA MarkedReads ==
  ASSUME NEW x \in Byte, NEW n \in Nat, NEW l \in Unsigned(n), ReadsBehind(x, n),
         NEW s, s = <<x>> \o LE(l, n)
  PROVE  /\ s \in Bytes /\ s # <<>>
         /\ \A rest \in Bytes : deser_compact_size(s \o rest) = Got(l, rest)
<1>1. Base - 3 # Base - 2 /\ Base - 3 # Base - 1 /\ Base - 2 # Base - 1
  BY BaseFacts
<1>2. ASSUME NEW rest \in Bytes
      PROVE  s \in Bytes /\ s # <<>> /\ deser_compact_size(s \o rest) = Got(l, rest)
  <2>1. /\ s \in Bytes /\ s # <<>> /\ s \o rest # <<>> /\ Head(s \o rest) = x
        /\ ReadInt(Tail(s \o rest), n, FALSE) = Got(l, rest)
    BY MarkedSize
  <2>2. CASE x = Base - 3 /\ n = 2
    BY <1>1, <2>1, <2>2 DEF deser_compact_size
  <2>3. CASE x = Base - 2 /\ n = 4
    BY <1>1, <2>1, <2>3 DEF deser_compact_size
  <2>4. CASE x = Base - 1 /\ n = 8
    BY <1>1, <2>1, <2>4 DEF deser_compact_size
  <2> QED BY <2>1, <2>2, <2>3, <2>4 DEF ReadsBehind
<1> QED BY <1>2, EmptySeq DEF Bytes

\* Reading a compact size gives the number, whatever follows.
LEMMA CompactReads ==
  ASSUME NEW l \in Unsigned(8)
  PROVE  /\ ser_compact_size(l) \in Bytes /\ ser_compact_size(l) # <<>>
         /\ \A rest \in Bytes : deser_compact_size(ser_compact_size(l) \o rest) = Got(l, rest)
<1> DEFINE s == ser_compact_size(l)
<1>1. l \in Nat
  BY DEF Unsigned
<1>2. /\ Base - 3 \in Byte /\ Base - 2 \in Byte /\ Base - 1 \in Byte
      /\ Base - 3 # Base - 2 /\ Base - 3 # Base - 1 /\ Base - 2 # Base - 1
  BY BaseFacts DEF Byte
<1>3. CASE l < Base - 3 /\ s = <<l>>
  <2>1. l \in Byte /\ l # Base - 3 /\ l # Base - 2 /\ l # Base - 1
    BY <1>1, <1>3, BaseFacts DEF Byte
  <2>2. ASSUME NEW rest \in Bytes PROVE deser_compact_size(s \o rest) = Got(l, rest)
    <3>1. s \o rest # <<>> /\ Head(s \o rest) = l /\ Tail(s \o rest) = rest
      BY <1>3, <2>1, HeadTail DEF Bytes
    <3> HIDE DEF s
    <3> QED BY <2>1, <3>1 DEF deser_compact_size
  <2>3. <<l>> \in Seq(Byte) /\ <<l>> # <<>>
    BY <2>1
  <2> QED BY <1>3, <2>2, <2>3 DEF Bytes
<1>4. CASE l \in Unsigned(2) /\ s = <<Base - 3>> \o LE(l, 2)
  <2>1. PICK x \in Byte, n \in Nat : x = Base - 3 /\ n = 2
    BY <1>2
  <2>2. l \in Unsigned(n) /\ s = <<x>> \o LE(l, n) /\ ReadsBehind(x, n)
    BY <1>4, <1>2, <2>1 DEF ReadsBehind
  <2> QED BY <2>2, MarkedReads
<1>5. CASE l \in Unsigned(4) /\ s = <<Base - 2>> \o LE(l, 4)
  <2>1. PICK x \in Byte, n \in Nat : x = Base - 2 /\ n = 4
    BY <1>2
  <2>2. l \in Unsigned(n) /\ s = <<x>> \o LE(l, n) /\ ReadsBehind(x, n)
    BY <1>5, <1>2, <2>1 DEF ReadsBehind
  <2> QED BY <2>2, MarkedReads
<1>6. CASE s = <<Base - 1>> \o LE(l, 8)
  <2>1. PICK x \in Byte, n \in Nat : x = Base - 1 /\ n = 8
    BY <1>2
  <2>2. l \in Unsigned(n) /\ s = <<x>> \o LE(l, n) /\ ReadsBehind(x, n)
    BY <1>6, <1>2, <2>1 DEF ReadsBehind
  <2> QED BY <2>2, MarkedReads
<1> QED BY <1>3, <1>4, <1>5, <1>6, CompactForms

\* Compact sizes.
LEMMA CompactExact == DOMAIN Compact.ser = Unsigned(8) /\ Exact(Compact)
<1>1. /\ DOMAIN Compact.ser = Unsigned(8)
      /\ \A v \in Unsigned(8) : Compact.ser[v] = ser_compact_size(v)
      /\ \A b \in Bytes : Compact.deser[b] = deser_compact_size(b)
  BY DEF Compact, Class
<1>2. ASSUME NEW v \in Unsigned(8) PROVE Rereads(Compact, v, v)
  <2>1. /\ ser_compact_size(v) \in Bytes /\ ser_compact_size(v) # <<>>
        /\ \A rest \in Bytes : deser_compact_size(ser_compact_size(v) \o rest) = Got(v, rest)
    BY CompactReads
  <2>2. \A rest \in Bytes : ser_compact_size(v) \o rest \in Bytes
    BY <2>1, ConcatProperties DEF Bytes
  <2> QED BY <1>1, <2>1, <2>2 DEF Rereads
<1> QED BY <1>1, <1>2 DEF Exact

\* Reading a string gives it back, whatever follows.
LEMMA StringReads ==
  ASSUME NEW s \in Bytes, Len(s) \in Unsigned(8)
  PROVE  /\ ser_string(s) \in Bytes /\ ser_string(s) # <<>>
         /\ \A rest \in Bytes : deser_string(ser_string(s) \o rest) = Got(s, rest)
<1> DEFINE n == ser_compact_size(Len(s))
<1>1. /\ n \in Bytes /\ n # <<>>
      /\ \A rest \in Bytes : deser_compact_size(n \o rest) = Got(Len(s), rest)
  BY CompactReads
<1>2. ser_string(s) = n \o s
  BY DEF ser_string
<1> HIDE DEF n
<1>3. n \o s \in Bytes /\ n \o s # <<>>
  BY <1>1, ConcatProperties, ConcatEqualIffEmpty DEF Bytes
<1>4. ASSUME NEW rest \in Bytes PROVE deser_string((n \o s) \o rest) = Got(s, rest)
  <2>1. (n \o s) \o rest = n \o (s \o rest) /\ s \o rest \in Bytes
    <3>1. (n \o s) \o rest = n \o (s \o rest)
      BY <1>1, ConcatAssociative DEF Bytes
    <3>2. s \o rest \in Bytes
      BY ConcatProperties DEF Bytes
    <3> QED BY <3>1, <3>2
  <2>2. deser_compact_size((n \o s) \o rest) = <<Len(s), s \o rest>>
    BY <1>1, <2>1 DEF Got
  <2>3. Prefix(s \o rest, Len(s)) = s /\ Suffix(s \o rest, Len(s)) = rest
    BY Cut DEF Bytes
  <2>4. <<Len(s), s \o rest>> # Failed
    BY DEF Failed
  <2> QED BY <2>2, <2>3, <2>4 DEF deser_string, ReadBytes
<1> QED BY <1>2, <1>3, <1>4

\* Strings.
LEMMA StringExact ==
  DOMAIN String.ser = {s \in Bytes : Len(s) \in Unsigned(8)} /\ Exact(String)
<1>1. /\ DOMAIN String.ser = {s \in Bytes : Len(s) \in Unsigned(8)}
      /\ \A v \in {s \in Bytes : Len(s) \in Unsigned(8)} : String.ser[v] = ser_string(v)
      /\ \A b \in Bytes : String.deser[b] = deser_string(b)
  BY DEF String, Class
<1>2. ASSUME NEW v \in {s \in Bytes : Len(s) \in Unsigned(8)} PROVE Rereads(String, v, v)
  <2>1. /\ ser_string(v) \in Bytes /\ ser_string(v) # <<>>
        /\ \A rest \in Bytes : deser_string(ser_string(v) \o rest) = Got(v, rest)
    BY StringReads
  <2>2. \A rest \in Bytes : ser_string(v) \o rest \in Bytes
    BY <2>1, ConcatProperties DEF Bytes
  <2> QED BY <1>1, <2>1, <2>2 DEF Rereads
<1> QED BY <1>1, <1>2 DEF Exact

-----------------------------------------------------------------------------
(* One codec after the other.                                              *)

\* The reader of one more codec.
ReadNext(t, before) ==
  LET here == t.deser[before[2]]
  IN  IF before = Failed THEN Failed
      ELSE IF here = Failed THEN Failed
      ELSE Got(Append(before[1], here[1]), here[2])

\* What the first i codecs of ts return together.
Reading(read, ts, n, b) ==
  /\ read = [i \in 0 .. n |-> read[i]]
  /\ read[0] = Got(<<>>, b)
  /\ \A i \in 1 .. n : read[i] = ReadNext(ts[i], read[i - 1])

\* DecodeEach goes through read, when read is what its codecs return one by one.
LEMMA DecodeSteps ==
  ASSUME NEW ts, NEW n \in Nat, Len(ts) = n, NEW b, NEW read, Reading(read, ts, n, b)
  PROVE  DecodeEach(ts, b) = read[n]
<1> DEFINE Body(f) == [i \in 0 .. n |-> IF i = 0 THEN Got(<<>>, b) ELSE ReadNext(ts[i], f[i - 1])]
<1>1. read = Body(read)
  <2>1. \A i \in 0 .. n : read[i] = IF i = 0 THEN Got(<<>>, b) ELSE ReadNext(ts[i], read[i - 1])
    <3> TAKE i \in 0 .. n
    <3>1. i # 0 => i \in 1 .. n
      OBVIOUS
    <3> QED BY <3>1 DEF Reading
  <2>2. read = [i \in 0 .. n |-> read[i]]
    BY DEF Reading
  <2> QED BY <2>1, <2>2, Zenon
<1> DEFINE f == CHOOSE g : g = Body(g)
<1>2. f = Body(f)
  BY <1>1, Zenon
<1>3. DecodeEach(ts, b) = f[n]
  BY DEF DecodeEach, ReadNext
<1> HIDE DEF f
<1>4. \A i \in 0 .. n : f[i] = IF i = 0 THEN Got(<<>>, b) ELSE ReadNext(ts[i], f[i - 1])
  BY <1>2, Zenon
<1>5. \A i \in 0 .. n : f[i] = read[i]
  <2> DEFINE T == {i \in 0 .. n : f[i] # read[i]}
  <2> SUFFICES ASSUME T # {} PROVE FALSE
    OBVIOUS
  <2>1. T \in SUBSET Nat
    OBVIOUS
  <2>2. PICK i \in T : \A j \in T : i <= j
    BY <2>1, NatMin
  <2>3. 0 \in 0 .. n
    OBVIOUS
  <2>4. i \in 0 .. n /\ f[i] # read[i] /\ i # 0
    BY <1>4, <2>2, <2>3 DEF Reading
  <2>5. i - 1 \in 0 .. n /\ i \in 1 .. n /\ ~(i <= i - 1)
    BY <2>4
  <2>6. f[i - 1] = read[i - 1]
    BY <2>2, <2>5
  <2>7. read[i] = ReadNext(ts[i], read[i - 1])
    BY <2>5 DEF Reading
  <2> QED BY <1>4, <2>4, <2>6, <2>7, Zenon
<1> QED BY <1>3, <1>5

\* The first values of w and one more.
LEMMA OneMore ==
  ASSUME NEW w, NEW i \in Nat \ {0}
  PROVE  Append([j \in 1 .. i - 1 |-> w[j]], w[i]) = [j \in 1 .. i |-> w[j]]
<1> DEFINE S == {w[j] : j \in 1 .. i}
           s == [j \in 1 .. i - 1 |-> w[j]]
           t == [j \in 1 .. i |-> w[j]]
<1>1. s \in Seq(S) /\ Len(s) = i - 1 /\ \A j \in 1 .. i - 1 : s[j] = w[j]
  <2>1. i - 1 \in Nat /\ \A j \in 1 .. i - 1 : w[j] \in S
    OBVIOUS
  <2> QED BY <2>1
<1>2. t \in Seq(S) /\ Len(t) = i /\ \A j \in 1 .. i : t[j] = w[j]
  OBVIOUS
<1>3. w[i] \in S
  OBVIOUS
<1> HIDE DEF S, s, t
<1>4. /\ Append(s, w[i]) \in Seq(S) /\ Len(Append(s, w[i])) = i
      /\ \A j \in 1 .. i : Append(s, w[i])[j] = w[j]
  BY <1>1, <1>3
<1>5. Append(s, w[i]) = t
  BY <1>2, <1>4, SeqEqual
<1> QED BY <1>5 DEF s, t

\* No values are the empty sequence.
LEMMA NoValues == ASSUME NEW w, NEW m \in Nat, m = 0 PROVE [j \in 1 .. m |-> w[j]] = <<>>
<1> DEFINE S == {w[j] : j \in 1 .. m}
           s == [j \in 1 .. m |-> w[j]]
<1>1. s \in Seq(S) /\ Len(s) = m
  OBVIOUS
<1> HIDE DEF S, s
<1>2. s = <<>>
  BY <1>1, EmptySeq
<1> QED BY <1>2 DEF s

\* The bytes of the first i sequences.
LEMMA JoinedSoFar ==
  ASSUME NEW n \in Nat, NEW enc \in Seq(Bytes), Len(enc) = n
  PROVE  \E p : /\ p \in [0 .. n -> Bytes] /\ p[0] = <<>> /\ p[n] = FlattenSeq(enc)
               /\ \A i \in 1 .. n : p[i] = p[i - 1] \o enc[i]
<1> DEFINE step == [i \in 1 .. n |-> [x \in Bytes |-> x \o enc[i]]]
<1>1. \A i \in 1 .. n : enc[i] \in Bytes
  OBVIOUS
<1>2. step \in [1 .. n -> [Bytes -> Bytes]]
  BY <1>1, ConcatProperties DEF Bytes
<1>3. <<>> \in Bytes
  BY EmptySeq DEF Bytes
<1>4. PICK p : Runs(p, n, Bytes, <<>>, step)
  <2> HIDE DEF step
  <2> QED BY <1>2, <1>3, Recursion
<1>5. p \in [0 .. n -> Bytes] /\ p[0] = <<>> /\ \A i \in 1 .. n : p[i] = p[i - 1] \o enc[i]
  <2>1. p \in [0 .. n -> Bytes] /\ p[0] = <<>> /\ \A i \in 1 .. n : p[i] = step[i][p[i - 1]]
    <3> HIDE DEF step
    <3> QED BY <1>4 DEF Runs
  <2>2. \A i \in 1 .. n : p[i - 1] \in Bytes
    BY <2>1
  <2> QED BY <2>1, <2>2
<1> HIDE DEF step
<1>6. CASE n = 0
  <2>1. enc = <<>>
    BY <1>6, EmptySeq
  <2>2. FlattenSeq(<<>>) = <<>>
    BY <1>3, EmptySeq, FlatAppend DEF Bytes
  <2> QED BY <1>5, <1>6, <2>1, <2>2
<1>7. CASE n # 0
  <2>1. PICK f : /\ FlattenSeq(enc) = f[n]
                 /\ f[1] = enc[1]
                 /\ \A i \in 2 .. n : f[i] = f[i - 1] \o enc[i]
    BY <1>7, FlatSteps
  <2>2. p[1] = enc[1]
    <3>1. 1 \in 1 .. n
      BY <1>7
    <3>2. <<>> \o enc[1] = enc[1]
      BY <1>1, <3>1, ConcatEmptySeq DEF Bytes
    <3>3. p[1] = p[1 - 1] \o enc[1] /\ 1 - 1 = 0
      BY <1>5, <3>1
    <3> QED BY <1>5, <3>2, <3>3
  <2> DEFINE T == {i \in 1 .. n : p[i] # f[i]}
  <2>3. T = {}
    <3> SUFFICES ASSUME T # {} PROVE FALSE
      OBVIOUS
    <3>1. T \in SUBSET Nat
      OBVIOUS
    <3>2. PICK i \in T : \A j \in T : i <= j
      BY <3>1, NatMin
    <3>3. i \in 1 .. n /\ p[i] # f[i] /\ i # 1
      BY <2>1, <2>2, <3>2
    <3>4. i - 1 \in 1 .. n /\ i \in 2 .. n /\ ~(i <= i - 1)
      BY <3>3
    <3>5. p[i - 1] = f[i - 1]
      BY <3>2, <3>4
    <3> QED BY <1>5, <2>1, <3>3, <3>4, <3>5
  <2>4. n \in 1 .. n
    BY <1>7
  <2>5. p[n] = f[n]
    BY <2>3, <2>4
  <2> QED BY <1>5, <2>1, <2>5
<1> QED BY <1>6, <1>7

\* r[i] is the bytes of the sequences of enc from i + 1 on, and rest behind them.
LeftFrom(r, n, enc, rest) == /\ r \in [0 .. n -> Bytes] /\ r[n] = rest
                             /\ \A i \in 1 .. n : r[i - 1] = enc[i] \o r[i]

\* There is such a function.
LEMMA LeftBehind ==
  ASSUME NEW n \in Nat, NEW enc \in Seq(Bytes), Len(enc) = n, NEW rest \in Bytes
  PROVE  \E r : LeftFrom(r, n, enc, rest)
<1> DEFINE step == [i \in 1 .. n |-> [x \in Bytes |-> enc[n + 1 - i] \o x]]
<1>1. \A i \in 1 .. n : enc[i] \in Bytes
  OBVIOUS
<1>2. step \in [1 .. n -> [Bytes -> Bytes]]
  <2>1. \A i \in 1 .. n : enc[n + 1 - i] \in Bytes
    <3> TAKE i \in 1 .. n
    <3>1. n + 1 - i \in 1 .. n
      OBVIOUS
    <3> QED BY <1>1, <3>1
  <2> QED BY <2>1, ConcatProperties DEF Bytes
<1>3. PICK f : Runs(f, n, Bytes, rest, step)
  <2> HIDE DEF step
  <2> QED BY <1>2, Recursion
<1>4. f \in [0 .. n -> Bytes] /\ f[0] = rest /\ \A i \in 1 .. n : f[i] = enc[n + 1 - i] \o f[i - 1]
  <2>1. f \in [0 .. n -> Bytes] /\ f[0] = rest /\ \A i \in 1 .. n : f[i] = step[i][f[i - 1]]
    <3> HIDE DEF step
    <3> QED BY <1>3 DEF Runs
  <2>2. \A i \in 1 .. n : f[i - 1] \in Bytes
    BY <2>1
  <2> QED BY <2>1, <2>2
<1> HIDE DEF step
<1> DEFINE r == [i \in 0 .. n |-> f[n - i]]
<1>5. r \in [0 .. n -> Bytes] /\ r[n] = rest
  <2>1. n - n = 0 /\ \A i \in 0 .. n : n - i \in 0 .. n
    OBVIOUS
  <2> QED BY <1>4, <2>1
<1>6. ASSUME NEW i \in 1 .. n PROVE r[i - 1] = enc[i] \o r[i]
  <2>1. n + 1 - i \in 1 .. n /\ n + 1 - (n + 1 - i) = i /\ (n + 1 - i) - 1 = n - i /\ n - (i - 1) = n + 1 - i
    OBVIOUS
  <2>2. r[i - 1] = f[n + 1 - i] /\ r[i] = f[n - i]
    BY <2>1
  <2> HIDE DEF r
  <2> QED BY <1>4, <2>1, <2>2
<1> HIDE DEF r
<1>7. LeftFrom(r, n, enc, rest)
  BY <1>5, <1>6 DEF LeftFrom
<1> QED BY <1>7

\* w is a tuple of n values.
HasFields(w, n) == w = [i \in 1 .. n |-> w[i]]

\* What the first n codecs of ts write of the values in v.
Joined(ts, n, v) == FlattenSeq([i \in 1 .. n |-> ts[i].ser[v[i]]])

\* What is written one after the other is read one after the other.
LEMMA EachRereads ==
  ASSUME NEW ts, NEW n \in Nat, Len(ts) = n, NEW v, NEW w, HasFields(w, n),
         \A i \in 1 .. n : Rereads(ts[i], v[i], w[i])
  PROVE  /\ Joined(ts, n, v) \in Bytes /\ Len(Joined(ts, n, v)) >= n
         /\ \A rest \in Bytes : DecodeEach(ts, Joined(ts, n, v) \o rest) = Got(w, rest)
<1> DEFINE enc == [i \in 1 .. n |-> ts[i].ser[v[i]]]
           bytes == FlattenSeq(enc)
<1>1. \A i \in 1 .. n : /\ ts[i].ser[v[i]] \in Bytes /\ ts[i].ser[v[i]] # <<>>
                        /\ \A rest \in Bytes : ts[i].deser[ts[i].ser[v[i]] \o rest] = <<w[i], rest>>
  BY DEF Rereads, Got
<1>2. /\ enc \in Seq(Bytes) /\ Len(enc) = n
      /\ \A i \in 1 .. n : enc[i] = ts[i].ser[v[i]]
  BY <1>1
<1>3. \A i \in 1 .. n : /\ enc[i] \in Bytes /\ enc[i] # <<>>
                        /\ \A rest \in Bytes : ts[i].deser[enc[i] \o rest] = <<w[i], rest>>
  BY <1>1, <1>2
<1> HIDE DEF enc
<1>4. PICK p : /\ p \in [0 .. n -> Bytes] /\ p[0] = <<>> /\ p[n] = bytes
               /\ \A i \in 1 .. n : p[i] = p[i - 1] \o enc[i]
  BY <1>2, JoinedSoFar
<1>5. ASSUME NEW rest \in Bytes PROVE DecodeEach(ts, bytes \o rest) = Got(w, rest)
  <2>0. PICK r : LeftFrom(r, n, enc, rest)
    BY <1>2, LeftBehind
  <2>1. /\ r \in [0 .. n -> Bytes] /\ r[n] = rest
        /\ \A i \in 1 .. n : r[i - 1] = enc[i] \o r[i]
    BY <2>0 DEF LeftFrom
  <2>2. \A i \in 0 .. n : p[i] \o r[i] = bytes \o rest
    <3> DEFINE Same(i) == p[i] \o r[i] = bytes \o rest
               T == {i \in 0 .. n : ~Same(n - i)}
    <3>0. Same(n)
      BY <1>4, <2>1
    <3>1. ASSUME NEW k \in 1 .. n, Same(k) PROVE Same(k - 1)
      <4>1. p[k] = p[k - 1] \o enc[k] /\ r[k - 1] = enc[k] \o r[k]
        BY <1>4, <2>1
      <4>2. k - 1 \in 0 .. n /\ k \in 0 .. n
        OBVIOUS
      <4>3. p[k - 1] \in Seq(Byte) /\ enc[k] \in Seq(Byte) /\ r[k] \in Seq(Byte)
        BY <1>3, <1>4, <2>1, <4>2 DEF Bytes
      <4>4. (p[k - 1] \o enc[k]) \o r[k] = p[k - 1] \o (enc[k] \o r[k])
        <5>1. \A x, y, z \in Seq(Byte) : (x \o y) \o z = x \o (y \o z)
          BY ConcatAssociative
        <5> QED BY <4>3, <5>1, Zenon
      <4>5. p[k - 1] \o r[k - 1] = p[k] \o r[k]
        BY <4>1, <4>4, Zenon
      <4> QED BY <3>1, <4>5, Zenon
    <3> HIDE DEF Same
    <3>2. T = {}
      <4> SUFFICES ASSUME T # {} PROVE FALSE
        OBVIOUS
      <4>1. T \in SUBSET Nat
        OBVIOUS
      <4>2. PICK i \in T : \A j \in T : i <= j
        BY <4>1, NatMin
      <4>3. i \in 0 .. n /\ ~Same(n - i) /\ i # 0
        BY <3>0, <4>2
      <4>4. i - 1 \in 0 .. n /\ ~(i <= i - 1) /\ n - (i - 1) \in 1 .. n /\ (n - (i - 1)) - 1 = n - i
        BY <4>3
      <4>5. Same(n - (i - 1))
        BY <4>2, <4>4
      <4>6. Same((n - (i - 1)) - 1)
        BY <3>1, <4>4, <4>5
      <4> QED BY <4>3, <4>4, <4>6
    <3>3. ASSUME NEW i \in 0 .. n PROVE Same(i)
      <4>1. n - i \in 0 .. n /\ n - (n - i) = i
        OBVIOUS
      <4> QED BY <3>2, <4>1
    <3> QED BY <3>3 DEF Same
  <2>3. r[0] = bytes \o rest
    <3>1. 0 \in 0 .. n
      OBVIOUS
    <3>2. <<>> \o r[0] = r[0]
      BY <2>1, <3>1, ConcatEmptySeq DEF Bytes
    <3>3. p[0] \o r[0] = bytes \o rest
      BY <2>2, <3>1
    <3> QED BY <1>4, <3>2, <3>3
  <2>10. 0 \in 0 .. n
    OBVIOUS
  <2> DEFINE read == [i \in 0 .. n |-> <<[j \in 1 .. i |-> w[j]], r[i]>>]
  <2>4. read[0] = Got(<<>>, bytes \o rest)
    <3> DEFINE none == [j \in 1 .. 0 |-> w[j]]
    <3>1. none = <<>>
      <4>1. PICK m \in Nat : m = 0
        OBVIOUS
      <4>2. [j \in 1 .. m |-> w[j]] = <<>>
        BY <4>1, NoValues
      <4> QED BY <4>1, <4>2
    <3> HIDE DEF none
    <3>2. read[0] = <<none, r[0]>>
      BY <2>10, Zenon DEF none
    <3> HIDE DEF none, read
    <3> QED BY <2>3, <3>1, <3>2 DEF Got
  <2>5. ASSUME NEW i \in 1 .. n PROVE read[i] = ReadNext(ts[i], read[i - 1])
    <3> DEFINE before == [j \in 1 .. i - 1 |-> w[j]]
    <3>1. read[i] = <<[j \in 1 .. i |-> w[j]], r[i]>> /\ read[i - 1] = <<before, r[i - 1]>>
      <4>1. i \in 0 .. n /\ i - 1 \in 0 .. n
        OBVIOUS
      <4> QED BY <4>1, Zenon
    <3>2. Append(before, w[i]) = [j \in 1 .. i |-> w[j]]
      BY OneMore
    <3>3. r[i - 1] = enc[i] \o r[i] /\ r[i] \in Bytes
      BY <2>1
    <3>4. ts[i].deser[r[i - 1]] = <<w[i], r[i]>>
      BY <1>3, <3>3
    <3> HIDE DEF before, read
    <3>5. ReadNext(ts[i], <<before, r[i - 1]>>) = <<Append(before, w[i]), r[i]>>
      BY <3>4 DEF ReadNext, Failed, Got
    <3> QED BY <3>1, <3>2, <3>5
  <2>6. read[n] = <<w, rest>>
    <3>1. n \in 0 .. n
      OBVIOUS
    <3> QED BY <2>1, <3>1, Zenon DEF HasFields
  <2>7. read = [i \in 0 .. n |-> read[i]]
    OBVIOUS
  <2> HIDE DEF read
  <2>8. DecodeEach(ts, bytes \o rest) = read[n]
    <3> DEFINE b == bytes \o rest
    <3>1. read[0] = Got(<<>>, b)
      BY <2>4
    <3> HIDE DEF b
    <3>2. Reading(read, ts, n, b)
      BY <2>5, <2>7, <3>1 DEF Reading
    <3>3. DecodeEach(ts, b) = read[n]
      BY <3>2, DecodeSteps
    <3> QED BY <3>3 DEF b
  <2> QED BY <2>6, <2>8 DEF Got
<1>6. \A i \in 0 .. n : Len(p[i]) >= i
  <2> DEFINE T == {i \in 0 .. n : ~(Len(p[i]) >= i)}
  <2> SUFFICES ASSUME T # {} PROVE FALSE
    OBVIOUS
  <2>1. T \in SUBSET Nat
    OBVIOUS
  <2>2. PICK i \in T : \A j \in T : i <= j
    BY <2>1, NatMin
  <2>3. i \in 0 .. n /\ ~(Len(p[i]) >= i) /\ i # 0
    BY <1>4, <2>2, EmptySeq
  <2>4. i - 1 \in 0 .. n /\ i \in 1 .. n /\ ~(i <= i - 1)
    BY <2>3
  <2>5. Len(p[i - 1]) >= i - 1
    BY <2>2, <2>4
  <2>6. p[i - 1] \in Seq(Byte) /\ enc[i] \in Seq(Byte) /\ enc[i] # <<>> /\ p[i] = p[i - 1] \o enc[i]
    BY <1>3, <1>4, <2>4 DEF Bytes
  <2>7. Len(enc[i]) \in Nat \ {0} /\ Len(p[i - 1]) \in Nat /\ Len(p[i]) = Len(p[i - 1]) + Len(enc[i])
    BY <2>6, EmptySeq, ConcatProperties
  <2>8. \A x, y \in Nat : x >= i - 1 /\ y # 0 => x + y >= i
    BY <2>3
  <2>9. Len(p[i - 1]) + Len(enc[i]) >= i
    BY <2>5, <2>7, <2>8
  <2> QED BY <2>3, <2>7, <2>9
<1>7. bytes \in Bytes /\ Len(bytes) >= n
  BY <1>4, <1>6
<1> QED BY <1>5, <1>7 DEF enc, Joined

\* A list of fields.
LEMMA FieldsRereads ==
  ASSUME NEW ts, NEW n \in Nat \ {0}, Len(ts) = n, DOMAIN ts = 1 .. n,
         NEW v \in Tuples(ts), NEW w \in Tuples(ts), HasFields(w, n),
         \A i \in 1 .. n : Rereads(ts[i], v[i], w[i])
  PROVE  Rereads(Fields(ts), v, w)
<1>1. /\ DOMAIN Fields(ts).ser = Tuples(ts)
      /\ \A x \in Tuples(ts) : Fields(ts).ser[x] = FlattenSeq([i \in 1 .. n |-> ts[i].ser[x[i]]])
      /\ \A b \in Bytes : Fields(ts).deser[b] = DecodeEach(ts, b)
  BY DEF Fields, Class
<1> DEFINE bytes == Joined(ts, n, v)
<1>2. /\ bytes \in Bytes /\ Len(bytes) >= n
      /\ \A rest \in Bytes : DecodeEach(ts, bytes \o rest) = Got(w, rest)
  <2>1. n \in Nat
    OBVIOUS
  <2> QED BY <2>1, EachRereads
<1>3. Fields(ts).ser[v] = bytes
  BY <1>1 DEF Joined
<1>4. Fields(ts).ser[w] = bytes
  <2>1. [i \in 1 .. n |-> ts[i].ser[w[i]]] = [i \in 1 .. n |-> ts[i].ser[v[i]]]
    BY DEF Rereads
  <2> QED BY <1>1, <2>1 DEF Joined
<1> HIDE DEF bytes
<1>5. bytes # <<>>
  <2>1. Len(bytes) \in Nat
    BY <1>2 DEF Bytes
  <2>2. Len(bytes) # 0
    BY <1>2, <2>1
  <2> QED BY <1>2, <2>2, NotEmpty DEF Bytes
<1>6. \A rest \in Bytes : Fields(ts).deser[bytes \o rest] = Got(w, rest)
  <2> TAKE rest \in Bytes
  <2>1. bytes \o rest \in Bytes
    BY <1>2, ConcatProperties DEF Bytes
  <2> QED BY <1>1, <1>2, <2>1
<1> QED BY <1>1, <1>2, <1>3, <1>4, <1>5, <1>6 DEF Rereads

\* 2 fields.
LEMMA Fields2 ==
  ASSUME NEW a1, NEW v1, NEW w1, NEW a2, NEW v2, NEW w2,
         Rereads(a1, v1, w1), Rereads(a2, v2, w2)
  PROVE  Rereads(Fields(<<a1, a2>>), <<v1, v2>>, <<w1, w2>>)
<1> DEFINE ts == <<a1, a2>>
           v  == <<v1, v2>>
           w  == <<w1, w2>>
<1>1. PICK n \in Nat \ {0} : n = 2
  OBVIOUS
<1>2. Len(ts) = n /\ DOMAIN ts = 1 .. n /\ HasFields(w, n)
  BY <1>1 DEF HasFields
<1>3. Tuples(ts) = (DOMAIN a1.ser) \X (DOMAIN a2.ser)
  BY DEF Tuples
<1>4. v \in Tuples(ts) /\ w \in Tuples(ts)
  BY <1>3 DEF Rereads
<1>5. \A i \in 1 .. n : Rereads(ts[i], v[i], w[i])
  BY <1>1
<1> HIDE DEF ts, v, w
<1>6. Rereads(Fields(ts), v, w)
  BY <1>2, <1>4, <1>5, FieldsRereads
<1> QED BY <1>6 DEF ts, v, w

\* 3 fields.
LEMMA Fields3 ==
  ASSUME NEW a1, NEW v1, NEW w1, NEW a2, NEW v2, NEW w2, NEW a3, NEW v3, NEW w3,
         Rereads(a1, v1, w1), Rereads(a2, v2, w2), Rereads(a3, v3, w3)
  PROVE  Rereads(Fields(<<a1, a2, a3>>), <<v1, v2, v3>>, <<w1, w2, w3>>)
<1> DEFINE ts == <<a1, a2, a3>>
           v  == <<v1, v2, v3>>
           w  == <<w1, w2, w3>>
<1>1. PICK n \in Nat \ {0} : n = 3
  OBVIOUS
<1>2. Len(ts) = n /\ DOMAIN ts = 1 .. n /\ HasFields(w, n)
  BY <1>1 DEF HasFields
<1>3. Tuples(ts) = (DOMAIN a1.ser) \X (DOMAIN a2.ser) \X (DOMAIN a3.ser)
  BY DEF Tuples
<1>4. v \in Tuples(ts) /\ w \in Tuples(ts)
  BY <1>3 DEF Rereads
<1>5. \A i \in 1 .. n : Rereads(ts[i], v[i], w[i])
  BY <1>1
<1> HIDE DEF ts, v, w
<1>6. Rereads(Fields(ts), v, w)
  BY <1>2, <1>4, <1>5, FieldsRereads
<1> QED BY <1>6 DEF ts, v, w

\* 4 fields.
LEMMA Fields4 ==
  ASSUME NEW a1, NEW v1, NEW w1, NEW a2, NEW v2, NEW w2, NEW a3, NEW v3, NEW w3,
         NEW a4, NEW v4, NEW w4,
         Rereads(a1, v1, w1), Rereads(a2, v2, w2), Rereads(a3, v3, w3),
         Rereads(a4, v4, w4)
  PROVE  Rereads(Fields(<<a1, a2, a3, a4>>), <<v1, v2, v3, v4>>, <<w1, w2, w3, w4>>)
<1> DEFINE ts == <<a1, a2, a3, a4>>
           v  == <<v1, v2, v3, v4>>
           w  == <<w1, w2, w3, w4>>
<1>1. PICK n \in Nat \ {0} : n = 4
  OBVIOUS
<1>2. Len(ts) = n /\ DOMAIN ts = 1 .. n /\ HasFields(w, n)
  BY <1>1 DEF HasFields
<1>3. Tuples(ts) = (DOMAIN a1.ser) \X (DOMAIN a2.ser) \X (DOMAIN a3.ser) \X (DOMAIN a4.ser)
  BY DEF Tuples
<1>4. v \in Tuples(ts) /\ w \in Tuples(ts)
  BY <1>3 DEF Rereads
<1>5. \A i \in 1 .. n : Rereads(ts[i], v[i], w[i])
  BY <1>1
<1> HIDE DEF ts, v, w
<1>6. Rereads(Fields(ts), v, w)
  BY <1>2, <1>4, <1>5, FieldsRereads
<1> QED BY <1>6 DEF ts, v, w

\* 6 fields.
LEMMA Fields6 ==
  ASSUME NEW a1, NEW v1, NEW w1, NEW a2, NEW v2, NEW w2, NEW a3, NEW v3, NEW w3,
         NEW a4, NEW v4, NEW w4, NEW a5, NEW v5, NEW w5, NEW a6, NEW v6, NEW w6,
         Rereads(a1, v1, w1), Rereads(a2, v2, w2), Rereads(a3, v3, w3),
         Rereads(a4, v4, w4), Rereads(a5, v5, w5), Rereads(a6, v6, w6)
  PROVE  Rereads(Fields(<<a1, a2, a3, a4, a5, a6>>), <<v1, v2, v3, v4, v5, v6>>, <<w1, w2, w3, w4, w5, w6>>)
<1> DEFINE ts == <<a1, a2, a3, a4, a5, a6>>
           v  == <<v1, v2, v3, v4, v5, v6>>
           w  == <<w1, w2, w3, w4, w5, w6>>
<1>1. PICK n \in Nat \ {0} : n = 6
  OBVIOUS
<1>2. Len(ts) = n /\ DOMAIN ts = 1 .. n /\ HasFields(w, n)
  BY <1>1 DEF HasFields
<1>3. Tuples(ts) = (DOMAIN a1.ser) \X (DOMAIN a2.ser) \X (DOMAIN a3.ser)
                   \X (DOMAIN a4.ser) \X (DOMAIN a5.ser) \X (DOMAIN a6.ser)
  BY DEF Tuples
<1>4. v \in Tuples(ts) /\ w \in Tuples(ts)
  BY <1>3 DEF Rereads
<1>5. \A i \in 1 .. n : Rereads(ts[i], v[i], w[i])
  BY <1>1
<1> HIDE DEF ts, v, w
<1>6. Rereads(Fields(ts), v, w)
  BY <1>2, <1>4, <1>5, FieldsRereads
<1> QED BY <1>6 DEF ts, v, w

\* 9 fields.
LEMMA Fields9 ==
  ASSUME NEW a1, NEW v1, NEW w1, NEW a2, NEW v2, NEW w2, NEW a3, NEW v3, NEW w3,
         NEW a4, NEW v4, NEW w4, NEW a5, NEW v5, NEW w5, NEW a6, NEW v6, NEW w6,
         NEW a7, NEW v7, NEW w7, NEW a8, NEW v8, NEW w8, NEW a9, NEW v9, NEW w9,
         Rereads(a1, v1, w1), Rereads(a2, v2, w2), Rereads(a3, v3, w3),
         Rereads(a4, v4, w4), Rereads(a5, v5, w5), Rereads(a6, v6, w6),
         Rereads(a7, v7, w7), Rereads(a8, v8, w8), Rereads(a9, v9, w9)
  PROVE  Rereads(Fields(<<a1, a2, a3, a4, a5, a6, a7, a8, a9>>),
                 <<v1, v2, v3, v4, v5, v6, v7, v8, v9>>,
                 <<w1, w2, w3, w4, w5, w6, w7, w8, w9>>)
<1> DEFINE ts == <<a1, a2, a3, a4, a5, a6, a7, a8, a9>>
           v  == <<v1, v2, v3, v4, v5, v6, v7, v8, v9>>
           w  == <<w1, w2, w3, w4, w5, w6, w7, w8, w9>>
<1>1. PICK n \in Nat \ {0} : n = 9
  OBVIOUS
<1>2. Len(ts) = n /\ DOMAIN ts = 1 .. n /\ HasFields(w, n)
  BY <1>1 DEF HasFields
<1>3. Tuples(ts) = (DOMAIN a1.ser) \X (DOMAIN a2.ser) \X (DOMAIN a3.ser)
                   \X (DOMAIN a4.ser) \X (DOMAIN a5.ser) \X (DOMAIN a6.ser)
                   \X (DOMAIN a7.ser) \X (DOMAIN a8.ser) \X (DOMAIN a9.ser)
  BY DEF Tuples
<1>4. v \in Tuples(ts) /\ w \in Tuples(ts)
  BY <1>3 DEF Rereads
<1>5. \A i \in 1 .. n : Rereads(ts[i], v[i], w[i])
  BY <1>1
<1> HIDE DEF ts, v, w
<1>6. Rereads(Fields(ts), v, w)
  BY <1>2, <1>4, <1>5, FieldsRereads
<1> QED BY <1>6 DEF ts, v, w


\* A vector.
LEMMA VectorRereads ==
  ASSUME NEW t, NEW v \in DOMAIN Vector(t).ser, NEW w \in Seq(DOMAIN t.ser), Len(w) = Len(v),
         \A i \in 1 .. Len(v) : Rereads(t, v[i], w[i])
  PROVE  Rereads(Vector(t), v, w)
<1> DEFINE S == {x \in Seq(DOMAIN t.ser) : Len(x) \in Unsigned(8)}
           Elements(x) == FlattenSeq([i \in DOMAIN x |-> t.ser[x[i]]])
<1>1. /\ DOMAIN Vector(t).ser = S
      /\ \A x \in S : Vector(t).ser[x] = ser_compact_size(Len(x)) \o Elements(x)
      /\ \A b \in Bytes : Vector(t).deser[b] = DecodeItems(t, deser_compact_size(b))
  BY DEF Vector, Class
<1>2. v \in S /\ w \in S
  BY <1>1
<1> DEFINE n == Len(v)
           s == ser_compact_size(n)
           ts == [i \in 1 .. n |-> t]
           bytes == Joined(ts, n, v)
<1>3. n \in Nat /\ Len(w) = n /\ DOMAIN v = 1 .. n /\ DOMAIN w = 1 .. n
  BY <1>2
<1>4. /\ s \in Bytes /\ s # <<>>
      /\ \A rest \in Bytes : deser_compact_size(s \o rest) = Got(n, rest)
  BY <1>2, CompactReads
<1>5. Len(ts) = n /\ \A i \in 1 .. n : ts[i] = t
  BY <1>3
<1>6. Elements(v) = bytes /\ Elements(w) = bytes
  <2>1. [i \in DOMAIN v |-> t.ser[v[i]]] = [i \in 1 .. n |-> ts[i].ser[v[i]]]
    BY <1>3
  <2>2. [i \in DOMAIN w |-> t.ser[w[i]]] = [i \in 1 .. n |-> ts[i].ser[v[i]]]
    BY <1>3 DEF Rereads
  <2> QED BY <2>1, <2>2, Zenon DEF Joined
<1>7. \A i \in 1 .. n : Rereads(ts[i], v[i], w[i])
  BY <1>5
<1>8. HasFields(w, n)
  BY <1>3 DEF HasFields
<1>9. [i \in 1 .. n |-> t] = ts
  OBVIOUS
<1> HIDE DEF S, Elements, n, s, ts
<1>10. /\ bytes \in Bytes /\ Len(bytes) >= n
       /\ \A rest \in Bytes : DecodeEach(ts, bytes \o rest) = Got(w, rest)
  BY <1>3, <1>5, <1>7, <1>8, EachRereads
<1> HIDE DEF bytes
<1>11. Vector(t).ser[v] = s \o bytes /\ Vector(t).ser[w] = s \o bytes
  BY <1>1, <1>2, <1>3, <1>6 DEF s, n
<1>12. s \o bytes \in Bytes /\ s \o bytes # <<>>
  BY <1>4, <1>10, ConcatProperties, ConcatEqualIffEmpty DEF Bytes
<1>13. ASSUME NEW rest \in Bytes PROVE Vector(t).deser[(s \o bytes) \o rest] = Got(w, rest)
  <2>1. /\ (s \o bytes) \o rest = s \o (bytes \o rest)
        /\ bytes \o rest \in Bytes
        /\ (s \o bytes) \o rest \in Bytes
    BY <1>4, <1>10, <1>12, ConcatAssociative, ConcatProperties DEF Bytes
  <2>2. deser_compact_size((s \o bytes) \o rest) = <<n, bytes \o rest>>
    BY <1>4, <2>1 DEF Got
  <2>3. ~(n > Len(bytes \o rest))
    <3>1. Len(bytes \o rest) = Len(bytes) + Len(rest) /\ Len(bytes) \in Nat /\ Len(rest) \in Nat
      BY <1>10, ConcatProperties DEF Bytes
    <3> QED BY <1>3, <1>10, <3>1
  <2>4. <<n, bytes \o rest>> # Failed
    BY DEF Failed
  <2>5. DecodeItems(t, <<n, bytes \o rest>>) = DecodeEach([i \in 1 .. n |-> t], bytes \o rest)
    BY <2>3, <2>4 DEF DecodeItems
  <2> QED BY <1>1, <1>9, <1>10, <2>1, <2>2, <2>5
<1> QED BY <1>1, <1>2, <1>11, <1>12, <1>13 DEF Rereads

\* A vector whose elements are read as they were written.
LEMMA VectorExact ==
  ASSUME NEW t, Exact(t)
  PROVE  Exact(Vector(t)) /\ DOMAIN Vector(t).ser = {x \in Seq(DOMAIN t.ser) : Len(x) \in Unsigned(8)}
<1>1. DOMAIN Vector(t).ser = {x \in Seq(DOMAIN t.ser) : Len(x) \in Unsigned(8)}
  BY DEF Vector, Class
<1>2. ASSUME NEW v \in DOMAIN Vector(t).ser PROVE Rereads(Vector(t), v, v)
  <2>1. v \in Seq(DOMAIN t.ser)
    BY <1>1
  <2>2. \A i \in 1 .. Len(v) : Rereads(t, v[i], v[i])
    BY <2>1 DEF Exact
  <2> QED BY <2>1, <2>2, VectorRereads
<1> QED BY <1>1, <1>2 DEF Exact

\* The values of 2 fields, read as they were written.
LEMMA FieldsExact2 ==
  ASSUME NEW a1, NEW a2
  PROVE  /\ DOMAIN Fields(<<a1, a2>>).ser =
              (DOMAIN a1.ser) \X (DOMAIN a2.ser)
         /\ (Exact(a1) /\ Exact(a2)) => Exact(Fields(<<a1, a2>>))
<1> DEFINE D == (DOMAIN a1.ser) \X (DOMAIN a2.ser)
<1>1. DOMAIN Fields(<<a1, a2>>).ser = D
  BY DEF Fields, Class, Tuples
<1>2. ASSUME Exact(a1), Exact(a2), NEW v \in D
      PROVE  Rereads(Fields(<<a1, a2>>), v, v)
  <2>1. v = <<v[1], v[2]>>
    OBVIOUS
  <2>2. /\ Rereads(a1, v[1], v[1]) /\ Rereads(a2, v[2], v[2])
    BY <1>2 DEF Exact
  <2>3. Rereads(Fields(<<a1, a2>>), <<v[1], v[2]>>, <<v[1], v[2]>>)
    BY <2>2, Fields2
  <2> QED BY <2>1, <2>3, Zenon
<1> HIDE DEF D
<1>3. (Exact(a1) /\ Exact(a2)) => Exact(Fields(<<a1, a2>>))
  BY <1>1, <1>2, Zenon DEF Exact
<1> QED BY <1>1, <1>3 DEF D

\* The values of 3 fields, read as they were written.
LEMMA FieldsExact3 ==
  ASSUME NEW a1, NEW a2, NEW a3
  PROVE  /\ DOMAIN Fields(<<a1, a2, a3>>).ser =
              (DOMAIN a1.ser) \X (DOMAIN a2.ser) \X (DOMAIN a3.ser)
         /\ (Exact(a1) /\ Exact(a2) /\ Exact(a3)) => Exact(Fields(<<a1, a2, a3>>))
<1> DEFINE D == (DOMAIN a1.ser) \X (DOMAIN a2.ser) \X (DOMAIN a3.ser)
<1>1. DOMAIN Fields(<<a1, a2, a3>>).ser = D
  BY DEF Fields, Class, Tuples
<1>2. ASSUME Exact(a1), Exact(a2), Exact(a3), NEW v \in D
      PROVE  Rereads(Fields(<<a1, a2, a3>>), v, v)
  <2>1. v = <<v[1], v[2], v[3]>>
    OBVIOUS
  <2>2. /\ Rereads(a1, v[1], v[1]) /\ Rereads(a2, v[2], v[2]) /\ Rereads(a3, v[3], v[3])
    BY <1>2 DEF Exact
  <2>3. Rereads(Fields(<<a1, a2, a3>>), <<v[1], v[2], v[3]>>, <<v[1], v[2], v[3]>>)
    BY <2>2, Fields3
  <2> QED BY <2>1, <2>3, Zenon
<1> HIDE DEF D
<1>3. (Exact(a1) /\ Exact(a2) /\ Exact(a3)) => Exact(Fields(<<a1, a2, a3>>))
  BY <1>1, <1>2, Zenon DEF Exact
<1> QED BY <1>1, <1>3 DEF D

\* The values of 4 fields, read as they were written.
LEMMA FieldsExact4 ==
  ASSUME NEW a1, NEW a2, NEW a3, NEW a4
  PROVE  /\ DOMAIN Fields(<<a1, a2, a3, a4>>).ser =
              (DOMAIN a1.ser) \X (DOMAIN a2.ser) \X (DOMAIN a3.ser) \X (DOMAIN a4.ser)
         /\ (Exact(a1) /\ Exact(a2) /\ Exact(a3) /\ Exact(a4)) => Exact(Fields(<<a1, a2, a3, a4>>))
<1> DEFINE D == (DOMAIN a1.ser) \X (DOMAIN a2.ser) \X (DOMAIN a3.ser) \X (DOMAIN a4.ser)
<1>1. DOMAIN Fields(<<a1, a2, a3, a4>>).ser = D
  BY DEF Fields, Class, Tuples
<1>2. ASSUME Exact(a1), Exact(a2), Exact(a3), Exact(a4), NEW v \in D
      PROVE  Rereads(Fields(<<a1, a2, a3, a4>>), v, v)
  <2>1. v = <<v[1], v[2], v[3], v[4]>>
    OBVIOUS
  <2>2. /\ Rereads(a1, v[1], v[1]) /\ Rereads(a2, v[2], v[2]) /\ Rereads(a3, v[3], v[3])
        /\ Rereads(a4, v[4], v[4])
    BY <1>2 DEF Exact
  <2>3. Rereads(Fields(<<a1, a2, a3, a4>>), <<v[1], v[2], v[3], v[4]>>, <<v[1], v[2], v[3], v[4]>>)
    BY <2>2, Fields4
  <2> QED BY <2>1, <2>3, Zenon
<1> HIDE DEF D
<1>3. (Exact(a1) /\ Exact(a2) /\ Exact(a3) /\ Exact(a4)) => Exact(Fields(<<a1, a2, a3, a4>>))
  BY <1>1, <1>2, Zenon DEF Exact
<1> QED BY <1>1, <1>3 DEF D

\* The values of 6 fields, read as they were written.
LEMMA FieldsExact6 ==
  ASSUME NEW a1, NEW a2, NEW a3, NEW a4, NEW a5, NEW a6
  PROVE  /\ DOMAIN Fields(<<a1, a2, a3, a4, a5, a6>>).ser =
              (DOMAIN a1.ser) \X (DOMAIN a2.ser) \X (DOMAIN a3.ser)
              \X (DOMAIN a4.ser) \X (DOMAIN a5.ser) \X (DOMAIN a6.ser)
         /\ (Exact(a1) /\ Exact(a2) /\ Exact(a3) /\ Exact(a4) /\ Exact(a5) /\ Exact(a6))
               => Exact(Fields(<<a1, a2, a3, a4, a5, a6>>))
<1> DEFINE D == (DOMAIN a1.ser) \X (DOMAIN a2.ser) \X (DOMAIN a3.ser)
                \X (DOMAIN a4.ser) \X (DOMAIN a5.ser) \X (DOMAIN a6.ser)
<1>1. DOMAIN Fields(<<a1, a2, a3, a4, a5, a6>>).ser = D
  BY DEF Fields, Class, Tuples
<1>2. ASSUME Exact(a1), Exact(a2), Exact(a3), Exact(a4), Exact(a5), Exact(a6), NEW v \in D
      PROVE  Rereads(Fields(<<a1, a2, a3, a4, a5, a6>>), v, v)
  <2>1. v = <<v[1], v[2], v[3], v[4], v[5], v[6]>>
    OBVIOUS
  <2>2. /\ Rereads(a1, v[1], v[1]) /\ Rereads(a2, v[2], v[2]) /\ Rereads(a3, v[3], v[3])
        /\ Rereads(a4, v[4], v[4]) /\ Rereads(a5, v[5], v[5]) /\ Rereads(a6, v[6], v[6])
    BY <1>2 DEF Exact
  <2>3. Rereads(Fields(<<a1, a2, a3, a4, a5, a6>>),
                <<v[1], v[2], v[3], v[4], v[5], v[6]>>,
                <<v[1], v[2], v[3], v[4], v[5], v[6]>>)
    BY <2>2, Fields6
  <2> QED BY <2>1, <2>3, Zenon
<1> HIDE DEF D
<1>3. (Exact(a1) /\ Exact(a2) /\ Exact(a3) /\ Exact(a4) /\ Exact(a5) /\ Exact(a6))
      => Exact(Fields(<<a1, a2, a3, a4, a5, a6>>))
  BY <1>1, <1>2, Zenon DEF Exact
<1> QED BY <1>1, <1>3 DEF D

\* The values of 9 fields, read as they were written.
LEMMA FieldsExact9 ==
  ASSUME NEW a1, NEW a2, NEW a3, NEW a4, NEW a5, NEW a6, NEW a7, NEW a8, NEW a9
  PROVE  /\ DOMAIN Fields(<<a1, a2, a3, a4, a5, a6, a7, a8, a9>>).ser =
              (DOMAIN a1.ser) \X (DOMAIN a2.ser) \X (DOMAIN a3.ser)
              \X (DOMAIN a4.ser) \X (DOMAIN a5.ser) \X (DOMAIN a6.ser)
              \X (DOMAIN a7.ser) \X (DOMAIN a8.ser) \X (DOMAIN a9.ser)
         /\ (Exact(a1) /\ Exact(a2) /\ Exact(a3) /\ Exact(a4) /\ Exact(a5)
             /\ Exact(a6) /\ Exact(a7) /\ Exact(a8) /\ Exact(a9))
               => Exact(Fields(<<a1, a2, a3, a4, a5, a6, a7, a8, a9>>))
<1> DEFINE D == (DOMAIN a1.ser) \X (DOMAIN a2.ser) \X (DOMAIN a3.ser)
                \X (DOMAIN a4.ser) \X (DOMAIN a5.ser) \X (DOMAIN a6.ser)
                \X (DOMAIN a7.ser) \X (DOMAIN a8.ser) \X (DOMAIN a9.ser)
<1>1. DOMAIN Fields(<<a1, a2, a3, a4, a5, a6, a7, a8, a9>>).ser = D
  BY DEF Fields, Class, Tuples
<1>2. ASSUME Exact(a1), Exact(a2), Exact(a3), Exact(a4), Exact(a5), Exact(a6),
             Exact(a7), Exact(a8), Exact(a9), NEW v \in D
      PROVE  Rereads(Fields(<<a1, a2, a3, a4, a5, a6, a7, a8, a9>>), v, v)
  <2>1. v = <<v[1], v[2], v[3], v[4], v[5], v[6], v[7], v[8], v[9]>>
    OBVIOUS
  <2>2. /\ Rereads(a1, v[1], v[1]) /\ Rereads(a2, v[2], v[2]) /\ Rereads(a3, v[3], v[3])
        /\ Rereads(a4, v[4], v[4]) /\ Rereads(a5, v[5], v[5]) /\ Rereads(a6, v[6], v[6])
        /\ Rereads(a7, v[7], v[7]) /\ Rereads(a8, v[8], v[8]) /\ Rereads(a9, v[9], v[9])
    BY <1>2 DEF Exact
  <2>3. Rereads(Fields(<<a1, a2, a3, a4, a5, a6, a7, a8, a9>>),
                <<v[1], v[2], v[3], v[4], v[5], v[6], v[7], v[8], v[9]>>,
                <<v[1], v[2], v[3], v[4], v[5], v[6], v[7], v[8], v[9]>>)
    BY <2>2, Fields9
  <2> QED BY <2>1, <2>3, Zenon
<1> HIDE DEF D
<1>3. (Exact(a1) /\ Exact(a2) /\ Exact(a3) /\ Exact(a4) /\ Exact(a5)
       /\ Exact(a6) /\ Exact(a7) /\ Exact(a8) /\ Exact(a9))
      => Exact(Fields(<<a1, a2, a3, a4, a5, a6, a7, a8, a9>>))
  BY <1>1, <1>2, Zenon DEF Exact
<1> QED BY <1>1, <1>3 DEF D


-----------------------------------------------------------------------------
(* The classes.                                                            *)

\* The integers of the classes.
LEMMA IntsExact == /\ Exact(UInt(1)) /\ Exact(UInt(4)) /\ Exact(UInt(6)) /\ Exact(UInt(8))
                   /\ Exact(SInt(4)) /\ Exact(SInt(8))
<1> PICK a \in Nat \ {0} : a = 1
  OBVIOUS
<1> PICK b \in Nat \ {0} : b = 4
  OBVIOUS
<1> PICK c \in Nat \ {0} : c = 6
  OBVIOUS
<1> PICK d \in Nat \ {0} : d = 8
  OBVIOUS
<1>1. /\ Exact(UInt(a)) /\ Exact(UInt(b)) /\ Exact(UInt(c)) /\ Exact(UInt(d))
      /\ Exact(SInt(b)) /\ Exact(SInt(d))
  BY UIntExact, SIntExact
<1> QED BY <1>1

\* The version of a locator.
LEMMA LocatorVersionExact == Exact(LocatorVersion)
<1>1. PICK n \in Nat \ {0} : n = 4
  OBVIOUS
<1>2. /\ DOMAIN LocatorVersion.ser = {0} /\ LocatorVersion.ser[0] = LE(0, n)
      /\ \A b \in Bytes : LocatorVersion.deser[b] = IF Len(b) < n THEN Failed ELSE Got(0, Suffix(b, n))
  BY <1>1 DEF LocatorVersion, Class
<1>3. LE(0, n) \in Bytes /\ Len(LE(0, n)) = n
  BY LEType
<1>4. LE(0, n) # <<>>
  BY <1>3, NotEmpty DEF Bytes
<1>5. ASSUME NEW rest \in Bytes PROVE LocatorVersion.deser[LE(0, n) \o rest] = Got(0, rest)
  <2>1. /\ LE(0, n) \o rest \in Bytes /\ Suffix(LE(0, n) \o rest, n) = rest
        /\ Len(LE(0, n) \o rest) >= n /\ Len(LE(0, n) \o rest) \in Nat
    BY <1>3, Cut, ConcatProperties DEF Bytes
  <2>2. ~(Len(LE(0, n) \o rest) < n)
    BY <2>1
  <2> QED BY <1>2, <2>1, <2>2
<1> QED BY <1>2, <1>3, <1>4, <1>5 DEF Exact, Rereads

\* The last field of version.
LEMMA RelayExact == Exact(Relay)
<1>1. PICK n \in Nat \ {0} : n = 1
  OBVIOUS
<1>2. /\ DOMAIN Relay.ser = Signed(n) /\ \A v \in Signed(n) : Relay.ser[v] = LE(v, n)
      /\ \A b \in Bytes : b # <<>> => Relay.deser[b] = ReadInt(b, n, TRUE)
  BY <1>1 DEF Relay, Class
<1>3. ASSUME NEW v \in Signed(n) PROVE Rereads(Relay, v, v)
  <2>1. v \in Int
    BY DEF Signed
  <2>2. LE(v, n) \in Bytes /\ LE(v, n) # <<>>
    BY <2>1, LEType, NotEmpty DEF Bytes
  <2>3. ASSUME NEW rest \in Bytes PROVE Relay.deser[LE(v, n) \o rest] = Got(v, rest)
    <3>1. LE(v, n) \o rest \in Bytes /\ LE(v, n) \o rest # <<>>
      BY <2>2, ConcatProperties, ConcatEqualIffEmpty DEF Bytes
    <3> QED BY <1>2, <3>1, ReadsSigned
  <2> QED BY <1>2, <2>2, <2>3 DEF Rereads
<1> QED BY <1>2, <1>3 DEF Exact

\* The classes that are a list of such fields.
LEMMA SimpleClassesExact ==
  /\ Exact(CInv) /\ Exact(CBlockLocator) /\ Exact(COutPoint) /\ Exact(CTxIn) /\ Exact(CTxOut)
  /\ Exact(CTxInWitness) /\ Exact(TxIns) /\ Exact(TxOuts) /\ Exact(CBlockHeader)
  /\ Exact(BlockTransactionsRequest)
<1>1. Exact(CInv) /\ Exact(COutPoint)
  BY IntsExact, UInt256Exact, FieldsExact2 DEF CInv, COutPoint
<1>2. Exact(CBlockLocator)
  <2>1. Exact(Vector(UInt256))
    BY UInt256Exact, VectorExact
  <2> QED BY <2>1, LocatorVersionExact, FieldsExact2 DEF CBlockLocator
<1>3. Exact(CTxIn)
  BY <1>1, StringExact, IntsExact, FieldsExact3 DEF CTxIn
<1>4. Exact(CTxOut)
  BY StringExact, IntsExact, FieldsExact2 DEF CTxOut
<1>5. Exact(CTxInWitness)
  BY StringExact, VectorExact DEF CTxInWitness
<1>6. Exact(TxIns)
  BY <1>3, VectorExact DEF TxIns
<1>7. Exact(TxOuts)
  BY <1>4, VectorExact DEF TxOuts
<1>8. Exact(CBlockHeader)
  BY IntsExact, UInt256Exact, FieldsExact6 DEF CBlockHeader
<1>9. Exact(BlockTransactionsRequest)
  <2>1. Exact(Vector(Compact))
    BY CompactExact, VectorExact
  <2> QED BY <2>1, UInt256Exact, FieldsExact2 DEF BlockTransactionsRequest
<1> QED BY <1>1, <1>2, <1>3, <1>4, <1>5, <1>6, <1>7, <1>8, <1>9

-----------------------------------------------------------------------------
(* Transactions.                                                           *)

\* The values of a transaction.
TxValues == [nVersion : Signed(4), vin : DOMAIN TxIns.ser, vout : DOMAIN TxOuts.ser,
             wit : Seq(DOMAIN CTxInWitness.ser), nLockTime : Unsigned(4)]

\* The codec of transactions takes them, and is EncodeTx and DecodeTx.
LEMMA TxCodec ==
  ASSUME NEW ww
  PROVE  /\ DOMAIN CTransaction(ww).ser = TxValues
         /\ \A tx \in TxValues : CTransaction(ww).ser[tx] = EncodeTx(tx, ww)
         /\ \A b \in Bytes : CTransaction(ww).deser[b] = DecodeTx(b)
BY DEF CTransaction, Class, TxValues

\* Nothing is a vector of any class, and one byte when it is written.
LEMMA EmptyVector ==
  ASSUME NEW t
  PROVE  /\ <<>> \in DOMAIN Vector(t).ser
         /\ Vector(t).ser[<<>>] = <<0>>
<1>1. 0 \in Nat /\ 0 < Base /\ 0 < Base - 3 /\ Base \in Nat
  BY BaseFacts
<1>2. LE(0, 1) = <<0>>
  BY <1>1, FitsOne
<1>3. 0 \in Unsigned(8)
  <2>1. PICK n \in Nat : n = 8
    OBVIOUS
  <2>2. Base \in Radix
    BY BaseFacts DEF Radix
  <2>3. PICK z \in Nat : z = 0
    OBVIOUS
  <2> DEFINE s == Shifts(Base, z, n)
  <2>4. s \in [0 .. n -> Int] /\ s[0] = z /\ \A i \in 1 .. n : s[i] = s[i - 1] \div Base
    BY <2>2, ShiftsSteps
  <2> HIDE DEF s
  <2>5. 0 \div Base = 0
    BY BaseFacts
  <2>6. s[1] = 0 /\ s[2] = 0 /\ s[3] = 0 /\ s[4] = 0 /\ s[5] = 0 /\ s[6] = 0 /\ s[7] = 0 /\ s[8] = 0
    BY <2>1, <2>3, <2>4, <2>5
  <2> QED BY <2>1, <2>3, <2>6 DEF Unsigned, s
<1>4. ser_compact_size(0) = <<0>>
  BY <1>1, <1>2, Powers DEF ser_compact_size
<1> DEFINE S == {x \in Seq(DOMAIN t.ser) : Len(x) \in Unsigned(8)}
<1>5. <<>> \in S
  BY <1>3, EmptySeq
<1>6. Vector(t).ser[<<>>] = ser_compact_size(Len(<<>>)) \o FlattenSeq([i \in DOMAIN <<>> |-> t.ser[<<>>[i]]])
  BY <1>5 DEF Vector, Class
<1>7. [i \in DOMAIN <<>> |-> t.ser[<<>>[i]]] = <<>>
  OBVIOUS
<1>8. FlattenSeq(<<>>) = <<>>
  BY EmptySeq, FlatAppend
<1>9. <<0>> \o <<>> = <<0>>
  OBVIOUS
<1>10. Vector(t).ser[<<>>] = <<0>>
  BY <1>4, <1>6, <1>7, <1>8, <1>9, EmptySeq
<1> QED BY <1>5, <1>10 DEF Vector, Class

\* Joined bytes are bytes, and may be joined in any order.
LEMMA Join == \A a, b \in Bytes : a \o b \in Bytes
BY ConcatProperties DEF Bytes

\* Joining, as an operator the provers do not look into.
Cat(a, b) == a \o b

\* Two are joined with a third.
LEMMA CatFacts == \A a, b, c \in Bytes : Cat(a, b) \in Bytes /\ Cat(Cat(a, b), c) = Cat(a, Cat(b, c))
BY ConcatProperties, ConcatAssociative DEF Bytes, Cat

\* Three of them,
LEMMA Assoc2 == \A a, b, c \in Bytes : (a \o b) \o c = a \o (b \o c)
BY CatFacts, Zenon DEF Cat

\* four
LEMMA Assoc3 == \A a, b, c, d \in Bytes : ((a \o b) \o c) \o d = a \o (b \o (c \o d))
<1>1. \A a, b, c, d \in Bytes : Cat(Cat(Cat(a, b), c), d) = Cat(a, Cat(b, Cat(c, d)))
  BY CatFacts
<1> QED BY <1>1, Zenon DEF Cat

\* and five.
LEMMA Assoc4 == \A a, b, c, d, e \in Bytes :
                  (((a \o b) \o c) \o d) \o e = a \o (b \o (c \o (d \o e)))
<1>1. \A a, b, c, d, e \in Bytes :
        Cat(Cat(Cat(Cat(a, b), c), d), e) = Cat(a, Cat(b, Cat(c, Cat(d, e))))
  BY CatFacts, SMTT(30)
<1> QED BY <1>1, Zenon DEF Cat

\* What follows four sequences follows the last of them.
SameBehind(a, b, c, d, r) == (a \o (b \o (c \o d))) \o r = a \o (b \o (c \o (d \o r)))

\* They may be joined in any order.
LEMMA Behind == \A a, b, c, d, r \in Bytes : SameBehind(a, b, c, d, r)
<1>1. \A a, b, c, d, r \in Bytes :
        Cat(Cat(a, Cat(b, Cat(c, d))), r) = Cat(a, Cat(b, Cat(c, Cat(d, r))))
  BY CatFacts
<1> QED BY <1>1, Zenon DEF Cat, SameBehind

\* What is made of the fields that were read.
Assembles(ver, vin, vout, b1, wit, b2, lock, rest) ==
  DecodeLock(ver, << <<vin, vout>>, b1 >>, <<wit, b2>>)
    = Got([nVersion |-> ver, vin |-> vin, vout |-> vout, wit |-> wit, nLockTime |-> lock], rest)

\* The last field is read after all the others.
LEMMA LockRead ==
  ASSUME NEW ver, NEW vin, NEW vout, NEW b1, NEW wit, NEW b2, NEW lock, NEW rest,
         ReadInt(b2, 4, FALSE) = <<lock, rest>>
  PROVE  Assembles(ver, vin, vout, b1, wit, b2, lock, rest)
<1> DEFINE body == << <<vin, vout>>, b1 >>
           w == <<wit, b2>>
           read == ReadInt(w[2], 4, FALSE)
<1>1. w # Failed /\ w[1] = wit /\ w[2] = b2 /\ body[1][1] = vin /\ body[1][2] = vout
  BY DEF Failed
<1> HIDE DEF w, body
<1>2. read = <<lock, rest>>
  BY <1>1
<1> HIDE DEF read
<1>3. read # Failed /\ read[1] = lock /\ read[2] = rest
  BY <1>2 DEF Failed
<1>4. DecodeLock(ver, body, w)
        = IF w = Failed THEN Failed
          ELSE IF read = Failed THEN Failed
          ELSE Got([nVersion |-> ver, vin |-> body[1][1], vout |-> body[1][2], wit |-> w[1],
                    nLockTime |-> read[1]], read[2])
  BY Zenon DEF DecodeLock, read
<1>5. DecodeLock(ver, body, w)
        = Got([nVersion |-> ver, vin |-> vin, vout |-> vout, wit |-> wit, nLockTime |-> lock], rest)
  BY <1>1, <1>3, <1>4
<1> QED BY <1>5, Zenon DEF Assembles, body, w

\* A transaction is read without an error: with inputs,
LEMMA DecodeWithInputs ==
  ASSUME NEW b, ~(Len(b) < 4), NEW vin, NEW b1, NEW vout, NEW b2, NEW lock, NEW rest, vin # <<>>,
         TxIns.deser[Suffix(b, 4)] = <<vin, b1>>, TxOuts.deser[b1] = <<vout, b2>>,
         ReadInt(b2, 4, FALSE) = <<lock, rest>>
  PROVE  DecodeTx(b) = Got([nVersion |-> ReadInt(b, 4, TRUE)[1], vin |-> vin, vout |-> vout,
                            wit |-> <<>>, nLockTime |-> lock], rest)
<1> DEFINE ver  == ReadInt(b, 4, TRUE)[1]
           body == << <<vin, vout>>, b2 >>
<1>1. DecodeTx(b) = DecodeInputs(ver, <<vin, b1>>)
  BY DEF DecodeTx
<1>2. DecodeOutputs(<<vin, b1>>, 0) = body
  BY DEF DecodeOutputs, Paired, Failed, Got
<1> HIDE DEF ver
<1>3. DecodeInputs(ver, <<vin, b1>>) = DecodeWitness(ver, 0, body)
  BY <1>2 DEF DecodeInputs, Failed
<1>4. DecodeWitness(ver, 0, body) = DecodeLock(ver, body, << <<>>, b2 >>)
  BY DEF DecodeWitness, Failed, Got
<1>5. DecodeLock(ver, body, << <<>>, b2 >>)
        = Got([nVersion |-> ver, vin |-> vin, vout |-> vout, wit |-> <<>>, nLockTime |-> lock], rest)
  <2>1. Assembles(ver, vin, vout, b2, <<>>, b2, lock, rest)
    BY LockRead
  <2> QED BY <2>1, Zenon DEF Assembles
<1> QED BY <1>1, <1>3, <1>4, <1>5, Zenon DEF ver

\* with neither inputs nor outputs,
LEMMA DecodeEmpty ==
  ASSUME NEW b, ~(Len(b) < 4), NEW b1, NEW lock, NEW rest, b1 # <<>>, b1[1] = 0,
         TxIns.deser[Suffix(b, 4)] = << <<>>, b1 >>,
         ReadInt(Tail(b1), 4, FALSE) = <<lock, rest>>
  PROVE  DecodeTx(b) = Got([nVersion |-> ReadInt(b, 4, TRUE)[1], vin |-> <<>>, vout |-> <<>>,
                            wit |-> <<>>, nLockTime |-> lock], rest)
<1> DEFINE ver  == ReadInt(b, 4, TRUE)[1]
           t    == Tail(b1)
           body == << << <<>>, <<>> >>, t >>
<1>1. DecodeTx(b) = DecodeInputs(ver, << <<>>, b1 >>)
  BY DEF DecodeTx
<1>2. DecodeOutputs(<< <<>>, b1 >>, 0) = body
  BY DEF DecodeOutputs, Got
<1> HIDE DEF ver
<1>3. DecodeInputs(ver, << <<>>, b1 >>) = DecodeWitness(ver, 0, body)
  BY <1>2 DEF DecodeInputs, Failed
<1>4. ReadInt(t, 4, FALSE) = <<lock, rest>>
  OBVIOUS
<1> HIDE DEF t
<1>5. DecodeWitness(ver, 0, body) = DecodeLock(ver, body, << <<>>, t >>)
  BY DEF DecodeWitness, Failed, Got
<1>6. DecodeLock(ver, body, << <<>>, t >>)
        = Got([nVersion |-> ver, vin |-> <<>>, vout |-> <<>>, wit |-> <<>>, nLockTime |-> lock], rest)
  <2>1. Assembles(ver, <<>>, <<>>, t, <<>>, t, lock, rest)
    BY <1>4, LockRead
  <2> QED BY <2>1, Zenon DEF Assembles
<1> QED BY <1>1, <1>3, <1>5, <1>6, Zenon DEF ver

\* and with witnesses.
LEMMA DecodeExtended ==
  ASSUME NEW b, ~(Len(b) < 4), NEW b1, NEW vin, NEW vout, NEW b2, NEW wit, NEW b3, NEW lock, NEW rest,
         b1 # <<>>, b1[1] = 1,
         TxIns.deser[Suffix(b, 4)] = << <<>>, b1 >>,
         DecodeEach(<<TxIns, TxOuts>>, Tail(b1)) = << <<vin, vout>>, b2 >>,
         DecodeEach([i \in DOMAIN vin |-> CTxInWitness], b2) = <<wit, b3>>,
         ReadInt(b3, 4, FALSE) = <<lock, rest>>
  PROVE  DecodeTx(b) = Got([nVersion |-> ReadInt(b, 4, TRUE)[1], vin |-> vin, vout |-> vout,
                            wit |-> wit, nLockTime |-> lock], rest)
<1> DEFINE ver  == ReadInt(b, 4, TRUE)[1]
           body == << <<vin, vout>>, b2 >>
<1>1. DecodeTx(b) = DecodeInputs(ver, << <<>>, b1 >>)
  BY DEF DecodeTx
<1>2. DecodeOutputs(<< <<>>, b1 >>, 1) = body
  BY DEF DecodeOutputs
<1> HIDE DEF ver
<1>3. DecodeInputs(ver, << <<>>, b1 >>) = DecodeWitness(ver, 1, body)
  BY <1>2 DEF DecodeInputs, Failed
<1>4. DecodeWitness(ver, 1, body) = DecodeLock(ver, body, <<wit, b3>>)
  BY DEF DecodeWitness, Failed
<1>5. DecodeLock(ver, body, <<wit, b3>>)
        = Got([nVersion |-> ver, vin |-> vin, vout |-> vout, wit |-> wit, nLockTime |-> lock], rest)
  <2>1. Assembles(ver, vin, vout, b2, wit, b3, lock, rest)
    BY LockRead
  <2> QED BY <2>1, Zenon DEF Assembles
<1> QED BY <1>1, <1>3, <1>4, <1>5, Zenon DEF ver

\* What is left after the bytes of a part.
LEMMA CutBytes == \A a, b \in Bytes : Prefix(a \o b, Len(a)) = a /\ Suffix(a \o b, Len(a)) = b
BY Cut DEF Bytes

\* What the readers see of a transaction that begins with these bytes.
LEMMA ReadVersion ==
  ASSUME NEW v \in Signed(4), NEW rest \in Bytes
  PROVE  LET b == LE(v, 4) \o rest
         IN  /\ b \in Bytes /\ ~(Len(b) < 4)
             /\ Suffix(b, 4) = rest /\ ReadInt(b, 4, TRUE)[1] = v
<1>1. PICK n \in Nat \ {0} : n = 4
  OBVIOUS
<1>2. v \in Signed(n) /\ v \in Int
  BY <1>1 DEF Signed
<1>3. LE(v, n) \in Bytes /\ Len(LE(v, n)) = n
  BY <1>2, LEType
<1> DEFINE b == LE(v, n) \o rest
<1>4. ReadInt(b, n, TRUE) = <<v, rest>>
  BY <1>2, ReadsSigned DEF Got
<1>5. Suffix(b, n) = rest
  BY <1>3, CutBytes
<1>6. b \in Bytes
  BY <1>3, Join
<1> HIDE DEF b
<1>7. ~(Len(b) < n)
  BY <1>4 DEF ReadInt, Failed
<1>8. ReadInt(b, n, TRUE)[1] = v
  <2>1. \A r : r = <<v, rest>> => r[1] = v
    OBVIOUS
  <2> QED BY <1>4, <2>1, Zenon
<1> QED BY <1>1, <1>5, <1>6, <1>7, <1>8 DEF b

\* A byte in front of others.
LEMMA ByteInFront ==
  ASSUME NEW x \in Byte, NEW rest \in Bytes
  PROVE  /\ <<x>> \o rest # <<>> /\ (<<x>> \o rest)[1] = x
         /\ Tail(<<x>> \o rest) = rest
<1>1. <<x>> \o rest # <<>> /\ Head(<<x>> \o rest) = x /\ Tail(<<x>> \o rest) = rest
  BY HeadTail DEF Bytes
<1>2. \A u : Head(u) = u[1]
  OBVIOUS
<1> QED BY <1>1, <1>2, Zenon

\* The integers of a transaction.
LEMMA TxInts ==
  ASSUME NEW v \in Signed(4), NEW l \in Unsigned(4)
  PROVE  /\ LE(v, 4) \in Bytes /\ LE(v, 4) # <<>> /\ LE(l, 4) \in Bytes
         /\ \A rest \in Bytes : ReadInt(LE(l, 4) \o rest, 4, FALSE) = <<l, rest>>
<1>1. PICK n \in Nat \ {0} : n = 4
  OBVIOUS
<1>2. v \in Int /\ l \in Int /\ l \in Unsigned(n)
  BY <1>1 DEF Signed, Unsigned
<1>3. LE(v, n) \in Bytes /\ LE(v, n) # <<>> /\ LE(l, n) \in Bytes
  BY <1>2, LEType, NotEmpty DEF Bytes
<1>4. \A rest \in Bytes : ReadInt(LE(l, n) \o rest, n, FALSE) = <<l, rest>>
  BY <1>2, ReadsUnsigned DEF Got
<1> QED BY <1>1, <1>3, <1>4

\* The transaction that is read: the witnesses cut or filled to one per input.
RereadTx(tx, ww) ==
  [tx EXCEPT !.wit = IF ww /\ ~IsNull(tx.wit) THEN FitWitness(tx) ELSE <<>>]

\* A transaction without its witnesses.
LEMMA PlainTx ==
  ASSUME NEW ww, NEW tx \in TxValues, ~(ww /\ ~IsNull(tx.wit)), ~(tx.vin = <<>> /\ tx.vout # <<>>)
  PROVE  /\ EncodeTx(tx, ww) \in Bytes /\ EncodeTx(tx, ww) # <<>>
         /\ \A rest \in Bytes : DecodeTx(EncodeTx(tx, ww) \o rest) = Got(RereadTx(tx, ww), rest)
<1> DEFINE V == LE(tx.nVersion, 4)
           I == TxIns.ser[tx.vin]
           O == TxOuts.ser[tx.vout]
           L == LE(tx.nLockTime, 4)
<1>1. /\ tx.nVersion \in Signed(4) /\ tx.vin \in DOMAIN TxIns.ser /\ tx.vout \in DOMAIN TxOuts.ser
      /\ tx.nLockTime \in Unsigned(4)
      /\ tx = [nVersion |-> tx.nVersion, vin |-> tx.vin, vout |-> tx.vout, wit |-> tx.wit,
               nLockTime |-> tx.nLockTime]
  BY DEF TxValues
<1>2. V \in Bytes /\ V # <<>> /\ L \in Bytes
  BY <1>1, TxInts
<1>3. I \in Bytes /\ \A rest \in Bytes : TxIns.deser[I \o rest] = <<tx.vin, rest>>
  BY <1>1, SimpleClassesExact DEF Exact, Rereads, Got
<1>4. O \in Bytes /\ \A rest \in Bytes : TxOuts.deser[O \o rest] = <<tx.vout, rest>>
  BY <1>1, SimpleClassesExact DEF Exact, Rereads, Got
<1>5. EncodeTx(tx, ww) = V \o (I \o (O \o L))
  <2>1. EncodeTx(tx, ww) = ((((V \o <<>>) \o I) \o O) \o <<>>) \o L
    BY DEF EncodeTx
  <2>2. V \o <<>> = V /\ ((V \o I) \o O) \o <<>> = (V \o I) \o O
    <3>1. \A x \in Bytes : x \o <<>> = x
      BY ConcatEmptySeq DEF Bytes
    <3> HIDE DEF V, I, O
    <3> QED BY <1>2, <1>3, <1>4, <3>1, Join
  <2> HIDE DEF V, I, O, L
  <2>3. ((V \o I) \o O) \o L = V \o (I \o (O \o L))
    <3>1. V \in Bytes /\ I \in Bytes /\ O \in Bytes /\ L \in Bytes
      BY <1>2, <1>3, <1>4
    <3>2. Cat(Cat(Cat(V, I), O), L) = Cat(V, Cat(I, Cat(O, L)))
      BY <3>1, CatFacts
    <3> QED BY <3>2, Zenon DEF Cat
  <2> QED BY <2>1, <2>2, <2>3
<1>6. RereadTx(tx, ww) = [nVersion |-> tx.nVersion, vin |-> tx.vin, vout |-> tx.vout, wit |-> <<>>,
                          nLockTime |-> tx.nLockTime]
  BY <1>1 DEF RereadTx
<1> HIDE DEF V, I, O, L
<1>7. ASSUME NEW rest \in Bytes
      PROVE  DecodeTx((V \o (I \o (O \o L))) \o rest) = Got(RereadTx(tx, ww), rest)
  <2> DEFINE b == V \o (I \o (O \o (L \o rest)))
  <2>1. L \o rest \in Bytes /\ O \o (L \o rest) \in Bytes /\ I \o (O \o (L \o rest)) \in Bytes
    BY <1>2, <1>3, <1>4, Join
  <2>2. (V \o (I \o (O \o L))) \o rest = b
    <3>1. V \in Bytes /\ I \in Bytes /\ O \in Bytes /\ L \in Bytes
      BY <1>2, <1>3, <1>4
    <3>2. SameBehind(V, I, O, L, rest)
      BY <3>1, Behind, Zenon
    <3> QED BY <3>2 DEF SameBehind
  <2>3. ~(Len(b) < 4) /\ Suffix(b, 4) = I \o (O \o (L \o rest)) /\ ReadInt(b, 4, TRUE)[1] = tx.nVersion
    BY <1>1, <2>1, ReadVersion DEF V
  <2>4. TxIns.deser[Suffix(b, 4)] = <<tx.vin, O \o (L \o rest)>>
    BY <1>3, <2>1, <2>3
  <2>5. TxOuts.deser[O \o (L \o rest)] = <<tx.vout, L \o rest>>
    BY <1>4, <2>1
  <2>6. ReadInt(L \o rest, 4, FALSE) = <<tx.nLockTime, rest>>
    BY <1>1, TxInts DEF L
  <2> HIDE DEF b
  <2>7. CASE tx.vin # <<>>
    BY <1>6, <2>2, <2>3, <2>4, <2>5, <2>6, <2>7, DecodeWithInputs, Zenon
  <2>8. CASE tx.vin = <<>>
    <3>1. tx.vout = <<>>
      BY <2>8
    <3>2. O = <<0>>
      BY <3>1, EmptyVector DEF O, TxOuts
    <3>3. /\ O \o (L \o rest) # <<>> /\ (O \o (L \o rest))[1] = 0
          /\ Tail(O \o (L \o rest)) = L \o rest
      <4>1. 0 \in Byte
        BY BaseFacts DEF Byte
      <4> QED BY <2>1, <3>2, <4>1, ByteInFront
    <3> QED BY <1>6, <2>2, <2>3, <2>4, <2>6, <2>8, <3>1, <3>3, DecodeEmpty, Zenon
  <2> QED BY <2>7, <2>8
<1>8. V \o (I \o (O \o L)) \in Bytes /\ V \o (I \o (O \o L)) # <<>>
  <2>1. I \o (O \o L) \in Bytes
    BY <1>2, <1>3, <1>4, Join
  <2>2. \A x, y \in Bytes : x # <<>> => x \o y # <<>>
    BY ConcatEqualIffEmpty DEF Bytes
  <2> QED BY <1>2, <2>1, <2>2, Join
<1> QED BY <1>5, <1>7, <1>8

\* Two sequences joined.
LEMMA FlattenTwo == \A a, b \in Bytes : FlattenSeq(<<a, b>>) = a \o b
<1> TAKE a, b \in Bytes
<1>1. <<>> \in Bytes /\ \A x \in Bytes : <<>> \o x = x
  BY EmptySeq, ConcatEmptySeq DEF Bytes
<1>2. /\ <<>> \in Seq(Seq(Byte)) /\ <<a>> \in Seq(Seq(Byte))
      /\ <<a>> = Append(<<>>, a) /\ <<a, b>> = Append(<<a>>, b)
  BY DEF Bytes
<1>3. FlattenSeq(<<a>>) = FlattenSeq(<<>>) \o a
  BY <1>2, FlatAppend DEF Bytes
<1>4. FlattenSeq(<<a, b>>) = FlattenSeq(<<a>>) \o b
  BY <1>2, FlatAppend DEF Bytes
<1>5. FlattenSeq(<<>>) = <<>>
  BY <1>2, FlatAppend DEF Bytes
<1> QED BY <1>1, <1>3, <1>4, <1>5

\* The bytes of a transaction with witnesses, and what follows them.
SameExtended(V, Z, F, I, O, W, L, r) ==
  (((((V \o (Z \o F)) \o I) \o O) \o W) \o L) \o r
    = V \o (Z \o (F \o (I \o (O \o (W \o (L \o r))))))

\* They may be joined in any order.
LEMMA BehindExtended ==
  \A V, Z, F, I, O, W, L, r \in Bytes : SameExtended(V, Z, F, I, O, W, L, r)
<1> SUFFICES ASSUME NEW V \in Bytes, NEW Z \in Bytes, NEW F \in Bytes, NEW I \in Bytes, NEW O \in Bytes,
                    NEW W \in Bytes, NEW L \in Bytes, NEW r \in Bytes
             PROVE  SameExtended(V, Z, F, I, O, W, L, r)
  OBVIOUS
<1> DEFINE x1 == Cat(L, r)
           x2 == Cat(W, x1)
           x3 == Cat(O, x2)
           x4 == Cat(I, x3)
           z  == Cat(Z, F)
           y1 == Cat(V, z)
           y2 == Cat(y1, I)
           y3 == Cat(y2, O)
           y4 == Cat(y3, W)
<1>1. x1 \in Bytes /\ x2 \in Bytes /\ x3 \in Bytes /\ x4 \in Bytes
  BY CatFacts
<1>2. z \in Bytes /\ y1 \in Bytes /\ y2 \in Bytes /\ y3 \in Bytes /\ y4 \in Bytes
  BY CatFacts
<1>3. Cat(Cat(y4, L), r) = Cat(y4, x1)
  BY <1>2, CatFacts
<1>4. Cat(y4, x1) = Cat(y3, x2)
  BY <1>1, <1>2, CatFacts
<1>5. Cat(y3, x2) = Cat(y2, x3)
  BY <1>1, <1>2, CatFacts
<1>6. Cat(y2, x3) = Cat(y1, x4)
  BY <1>1, <1>2, CatFacts
<1>7. Cat(y1, x4) = Cat(V, Cat(z, x4))
  BY <1>1, <1>2, CatFacts
<1>8. Cat(z, x4) = Cat(Z, Cat(F, x4))
  BY <1>1, CatFacts
<1>9. Cat(Cat(y4, L), r) = Cat(V, Cat(Z, Cat(F, x4)))
  BY <1>3, <1>4, <1>5, <1>6, <1>7, <1>8
<1> QED BY <1>9, Zenon DEF Cat, SameExtended

\* A witness for every input.
LEMMA Fitted ==
  ASSUME NEW tx \in TxValues
  PROVE  /\ FitWitness(tx) \in Seq(DOMAIN CTxInWitness.ser)
         /\ Len(FitWitness(tx)) = Len(tx.vin) /\ DOMAIN FitWitness(tx) = DOMAIN tx.vin
         /\ \A u \in TxValues : u.vin = tx.vin /\ u.wit = FitWitness(tx) => FitWitness(u) = FitWitness(tx)
<1>1. /\ tx.vin \in Seq(DOMAIN CTxIn.ser)
      /\ tx.wit \in Seq(DOMAIN CTxInWitness.ser)
  BY DEF TxValues, TxIns, Vector, Class
<1>2. <<>> \in DOMAIN CTxInWitness.ser
  BY EmptyVector DEF CTxInWitness
<1> DEFINE n == Len(tx.vin)
<1>3. n \in Nat /\ DOMAIN tx.vin = 1 .. n
  BY <1>1
<1>4. FitWitness(tx) = [i \in 1 .. n |-> IF i <= Len(tx.wit) THEN tx.wit[i] ELSE <<>>]
  BY <1>3 DEF FitWitness
<1>5. \A i \in 1 .. n : (IF i <= Len(tx.wit) THEN tx.wit[i] ELSE <<>>) \in DOMAIN CTxInWitness.ser
  BY <1>1, <1>2
<1> HIDE DEF n
<1>6. /\ FitWitness(tx) \in Seq(DOMAIN CTxInWitness.ser) /\ Len(FitWitness(tx)) = n
      /\ DOMAIN FitWitness(tx) = 1 .. n
  BY <1>3, <1>4, <1>5
<1>7. ASSUME NEW u \in TxValues, u.vin = tx.vin, u.wit = FitWitness(tx)
      PROVE  FitWitness(u) = FitWitness(tx)
  <2>1. FitWitness(u) = [i \in 1 .. n |-> IF i <= n THEN FitWitness(tx)[i] ELSE <<>>]
    BY <1>3, <1>6, <1>7 DEF FitWitness
  <2>2. FitWitness(u) = [i \in 1 .. n |-> FitWitness(tx)[i]]
    BY <1>3, <2>1
  <2> QED BY <1>6, <2>2
<1> QED BY <1>3, <1>6, <1>7 DEF n

\* A transaction with its witnesses.
LEMMA ExtendedTx ==
  ASSUME NEW ww, NEW tx \in TxValues, ww /\ ~IsNull(tx.wit)
  PROVE  /\ EncodeTx(tx, ww) \in Bytes /\ EncodeTx(tx, ww) # <<>>
         /\ \A rest \in Bytes : DecodeTx(EncodeTx(tx, ww) \o rest) = Got(RereadTx(tx, ww), rest)
<1> DEFINE wit == FitWitness(tx)
           V == LE(tx.nVersion, 4)
           Z == ser_compact_size(0)
           F == LE(1, 1)
           I == TxIns.ser[tx.vin]
           O == TxOuts.ser[tx.vout]
           W == FlattenSeq([i \in DOMAIN wit |-> CTxInWitness.ser[wit[i]]])
           L == LE(tx.nLockTime, 4)
<1>1. /\ tx.nVersion \in Signed(4) /\ tx.vin \in DOMAIN TxIns.ser /\ tx.vout \in DOMAIN TxOuts.ser
      /\ tx.nLockTime \in Unsigned(4)
      /\ tx = [nVersion |-> tx.nVersion, vin |-> tx.vin, vout |-> tx.vout, wit |-> tx.wit,
               nLockTime |-> tx.nLockTime]
  BY DEF TxValues
<1>2. V \in Bytes /\ V # <<>> /\ L \in Bytes
  BY <1>1, TxInts
<1>3. I \in Bytes /\ \A rest \in Bytes : TxIns.deser[I \o rest] = <<tx.vin, rest>>
  BY <1>1, SimpleClassesExact DEF Exact, Rereads, Got
<1>4. O \in Bytes /\ \A rest \in Bytes : TxOuts.deser[O \o rest] = <<tx.vout, rest>>
  BY <1>1, SimpleClassesExact DEF Exact, Rereads, Got
<1>5. Z = <<0>> /\ Z \in Bytes /\ \A rest \in Bytes : TxIns.deser[Z \o rest] = << <<>>, rest >>
  <2>1. Z = <<0>>
    <3>1. 0 \in Nat /\ 0 < Base /\ 0 < Base - 3 /\ Base \in Nat
      BY BaseFacts
    <3>2. LE(0, 1) = <<0>>
      BY <3>1, FitsOne
    <3> QED BY <3>1, <3>2, Powers DEF ser_compact_size
  <2>2. Rereads(TxIns, <<>>, <<>>) /\ TxIns.ser[<<>>] = <<0>>
    BY EmptyVector, SimpleClassesExact DEF Exact, TxIns
  <2> HIDE DEF Z
  <2> QED BY <2>1, <2>2 DEF Rereads, Got
<1>6. F = <<1>> /\ F \in Bytes /\ 1 \in Byte
  <2>1. 1 \in Nat /\ 1 < Base /\ 1 \in Byte
    BY BaseFacts DEF Byte
  <2>2. F = <<1>>
    BY <2>1, FitsOne
  <2> HIDE DEF F
  <2> QED BY <2>1, <2>2 DEF Bytes
<1>7. /\ W \in Bytes
      /\ \A rest \in Bytes : DecodeEach([i \in DOMAIN tx.vin |-> CTxInWitness], W \o rest) = <<wit, rest>>
  <2> DEFINE n == Len(wit)
             ts == [i \in 1 .. n |-> CTxInWitness]
  <2>1. wit \in Seq(DOMAIN CTxInWitness.ser) /\ DOMAIN tx.vin = DOMAIN wit
    BY Fitted
  <2> HIDE DEF wit
  <2>2. /\ n \in Nat
        /\ DOMAIN wit = 1 .. n
        /\ HasFields(wit, n)
        /\ \A i \in 1 .. n : wit[i] \in DOMAIN CTxInWitness.ser
    BY <2>1 DEF HasFields
  <2>3. Len(ts) = n /\ \A i \in 1 .. n : ts[i] = CTxInWitness
    BY <2>2
  <2>4. \A i \in 1 .. n : Rereads(CTxInWitness, wit[i], wit[i])
    BY <2>2, SimpleClassesExact DEF Exact
  <2>5. [i \in DOMAIN tx.vin |-> CTxInWitness] = ts
    BY <2>1, <2>2
  <2>6. [i \in DOMAIN wit |-> CTxInWitness.ser[wit[i]]] = [i \in 1 .. n |-> ts[i].ser[wit[i]]]
    BY <2>2, <2>3
  <2>7. W = Joined(ts, n, wit)
    BY <2>6, Zenon DEF Joined
  <2> HIDE DEF ts, n, W
  <2>8. \A i \in 1 .. n : Rereads(ts[i], wit[i], wit[i])
    BY <2>3, <2>4
  <2>9. /\ Joined(ts, n, wit) \in Bytes
        /\ \A rest \in Bytes : DecodeEach(ts, Joined(ts, n, wit) \o rest) = Got(wit, rest)
    BY <2>2, <2>3, <2>8, EachRereads
  <2> QED BY <2>5, <2>7, <2>9 DEF Got
<1>8. EncodeTx(tx, ww) = ((((V \o (Z \o F)) \o I) \o O) \o W) \o L
  BY DEF EncodeTx
<1>9. RereadTx(tx, ww) = [nVersion |-> tx.nVersion, vin |-> tx.vin, vout |-> tx.vout, wit |-> wit,
                          nLockTime |-> tx.nLockTime]
  BY <1>1 DEF RereadTx
<1>10. \A rest \in Bytes : ReadInt(L \o rest, 4, FALSE) = <<tx.nLockTime, rest>>
  BY <1>1, TxInts
<1>11. \A rest \in Bytes : DecodeEach(<<TxIns, TxOuts>>, (I \o O) \o rest) = << <<tx.vin, tx.vout>>, rest >>
  <2> DEFINE ts == <<TxIns, TxOuts>>
             x  == <<tx.vin, tx.vout>>
  <2>1. Rereads(TxIns, tx.vin, tx.vin) /\ Rereads(TxOuts, tx.vout, tx.vout)
    BY <1>1, SimpleClassesExact DEF Exact
  <2>2. Rereads(Fields(ts), x, x)
    BY <2>1, Fields2
  <2>3. /\ x \in DOMAIN Fields(ts).ser
        /\ \A rest \in Bytes : Fields(ts).deser[Fields(ts).ser[x] \o rest] = <<x, rest>>
        /\ Fields(ts).ser[x] \in Bytes
    BY <2>2 DEF Rereads, Got
  <2>4. Fields(ts).ser[x] = I \o O
    <3>1. [i \in DOMAIN ts |-> ts[i].ser[x[i]]] = <<I, O>>
      OBVIOUS
    <3>2. Fields(ts).ser[x] = FlattenSeq([i \in DOMAIN ts |-> ts[i].ser[x[i]]])
      <4>1. x \in Tuples(ts)
        BY <2>3 DEF Fields, Class
      <4> HIDE DEF ts, x
      <4> QED BY <4>1 DEF Fields, Class
    <3> HIDE DEF I, O, ts, x
    <3> QED BY <1>3, <1>4, <3>1, <3>2, FlattenTwo
  <2>5. \A b \in Bytes : Fields(ts).deser[b] = DecodeEach(ts, b)
    <3> HIDE DEF ts
    <3> QED BY DEF Fields, Class
  <2> HIDE DEF ts, x, I, O
  <2> QED BY <2>3, <2>4, <2>5, Join DEF ts, x
<1> HIDE DEF wit, V, Z, F, I, O, W, L
<1>12. ASSUME NEW rest \in Bytes
       PROVE  DecodeTx((((((V \o (Z \o F)) \o I) \o O) \o W) \o L) \o rest) = Got(RereadTx(tx, ww), rest)
  <2> DEFINE b3 == L \o rest
             b2 == W \o b3
             b0 == I \o (O \o b2)
             b1 == F \o b0
             b  == V \o (Z \o b1)
  <2>1. b3 \in Bytes /\ b2 \in Bytes /\ b0 \in Bytes /\ b1 \in Bytes /\ Z \o b1 \in Bytes
    BY <1>2, <1>3, <1>4, <1>5, <1>6, <1>7, Join
  <2>2. (((((V \o (Z \o F)) \o I) \o O) \o W) \o L) \o rest = b
    <3>1. SameExtended(V, Z, F, I, O, W, L, rest)
      BY <1>2, <1>3, <1>4, <1>5, <1>6, <1>7, BehindExtended, Zenon
    <3> QED BY <3>1 DEF SameExtended
  <2>3. ~(Len(b) < 4) /\ Suffix(b, 4) = Z \o b1 /\ ReadInt(b, 4, TRUE)[1] = tx.nVersion
    <3> HIDE DEF b1
    <3> QED BY <1>1, <2>1, ReadVersion DEF V
  <2>4. b0 = (I \o O) \o b2
    <3> HIDE DEF b2
    <3>1. I \in Bytes /\ O \in Bytes /\ b2 \in Bytes
      BY <1>3, <1>4, <2>1
    <3> QED BY <3>1, Assoc2, Zenon
  <2> HIDE DEF b3, b2, b0, b
  <2>5. b1 # <<>> /\ b1[1] = 1 /\ Tail(b1) = b0
    BY <1>6, <2>1, ByteInFront
  <2> HIDE DEF b1
  <2>6. TxIns.deser[Suffix(b, 4)] = << <<>>, b1 >>
    BY <1>5, <2>1, <2>3
  <2>7. DecodeEach(<<TxIns, TxOuts>>, Tail(b1)) = << <<tx.vin, tx.vout>>, b2 >>
    BY <1>11, <2>1, <2>4, <2>5
  <2>8. DecodeEach([i \in DOMAIN tx.vin |-> CTxInWitness], b2) = <<wit, b3>>
    BY <1>7, <2>1 DEF b2
  <2>9. ReadInt(b3, 4, FALSE) = <<tx.nLockTime, rest>>
    BY <1>10 DEF b3
  <2>10. DecodeTx(b) = Got([nVersion |-> ReadInt(b, 4, TRUE)[1], vin |-> tx.vin, vout |-> tx.vout,
                            wit |-> wit, nLockTime |-> tx.nLockTime], rest)
    BY <2>3, <2>5, <2>6, <2>7, <2>8, <2>9, DecodeExtended
  <2> QED BY <1>9, <2>2, <2>3, <2>10, Zenon
<1>13. /\ ((((V \o (Z \o F)) \o I) \o O) \o W) \o L \in Bytes
       /\ ((((V \o (Z \o F)) \o I) \o O) \o W) \o L # <<>>
  <2>1. \A x, y \in Bytes : x # <<>> => x \o y # <<>>
    BY ConcatEqualIffEmpty DEF Bytes
  <2>2. Z \o F \in Bytes
    BY <1>5, <1>6, Join
  <2>3. V \o (Z \o F) \in Bytes /\ V \o (Z \o F) # <<>>
    BY <1>2, <2>1, <2>2, Join, Zenon
  <2>4. (V \o (Z \o F)) \o I \in Bytes /\ (V \o (Z \o F)) \o I # <<>>
    BY <1>3, <2>1, <2>3, Join, Zenon
  <2>5. ((V \o (Z \o F)) \o I) \o O \in Bytes /\ ((V \o (Z \o F)) \o I) \o O # <<>>
    BY <1>4, <2>1, <2>4, Join, Zenon
  <2>6. (((V \o (Z \o F)) \o I) \o O) \o W \in Bytes /\ (((V \o (Z \o F)) \o I) \o O) \o W # <<>>
    BY <1>7, <2>1, <2>5, Join, Zenon
  <2> QED BY <1>2, <2>1, <2>6, Join, Zenon
<1> QED BY <1>8, <1>12, <1>13

\* What is read of a transaction is written as the transaction is.
LEMMA RereadTxSame ==
  ASSUME NEW ww, NEW tx \in TxValues, KeepsWitness(tx)
  PROVE  RereadTx(tx, ww) \in TxValues /\ EncodeTx(RereadTx(tx, ww), ww) = EncodeTx(tx, ww)
<1> DEFINE u == RereadTx(tx, ww)
           W(w) == FlattenSeq([i \in DOMAIN w |-> CTxInWitness.ser[w[i]]])
           E(x, b) == LE(x.nVersion, 4) \o (IF b THEN ser_compact_size(0) \o LE(1, 1) ELSE <<>>)
                         \o TxIns.ser[x.vin] \o TxOuts.ser[x.vout]
                         \o (IF b THEN W(FitWitness(x)) ELSE <<>>) \o LE(x.nLockTime, 4)
<1>1. \A x : EncodeTx(x, ww) = E(x, ww /\ ~IsNull(x.wit))
  BY Zenon DEF EncodeTx
<1>2. /\ u.nVersion = tx.nVersion /\ u.vin = tx.vin /\ u.vout = tx.vout /\ u.nLockTime = tx.nLockTime
      /\ u.wit = IF ww /\ ~IsNull(tx.wit) THEN FitWitness(tx) ELSE <<>>
  BY DEF RereadTx, TxValues
<1>3. u \in TxValues
  <2>1. FitWitness(tx) \in Seq(DOMAIN CTxInWitness.ser) /\ <<>> \in Seq(DOMAIN CTxInWitness.ser)
    BY Fitted, EmptySeq
  <2> QED BY <2>1 DEF RereadTx, TxValues
<1> HIDE DEF u, W
<1>4. CASE ww /\ ~IsNull(tx.wit)
  <2>1. u.wit = FitWitness(tx)
    BY <1>2, <1>4
  <2>2. ~IsNull(u.wit)
    BY <1>4, <2>1 DEF KeepsWitness
  <2>3. FitWitness(u) = FitWitness(tx)
    BY <1>2, <1>3, <2>1, Fitted
  <2>4. E(u, TRUE) = E(tx, TRUE)
    BY <1>2, <2>3, Zenon
  <2> HIDE DEF E
  <2> QED BY <1>1, <1>3, <1>4, <2>2, <2>4 DEF u
<1>5. CASE ~(ww /\ ~IsNull(tx.wit))
  <2>1. u.wit = <<>>
    BY <1>2, <1>5
  <2>2. IsNull(u.wit)
    BY <2>1 DEF IsNull
  <2>4. E(u, FALSE) = E(tx, FALSE)
    BY <1>2, Zenon
  <2> HIDE DEF E
  <2> QED BY <1>1, <1>3, <1>5, <2>2, <2>4 DEF u
<1> QED BY <1>4, <1>5

\* Transactions are read, whatever they look like inside, unless they look extended.
LEMMA TxRereads ==
  ASSUME NEW ww, NEW tx \in TxValues, KeepsWitness(tx), ~(tx.vin = <<>> /\ tx.vout # <<>>)
  PROVE  Rereads(CTransaction(ww), tx, RereadTx(tx, ww))
<1>1. /\ EncodeTx(tx, ww) \in Bytes /\ EncodeTx(tx, ww) # <<>>
      /\ \A rest \in Bytes : DecodeTx(EncodeTx(tx, ww) \o rest) = Got(RereadTx(tx, ww), rest)
  <2>1. CASE ww /\ ~IsNull(tx.wit)
    BY <2>1, ExtendedTx
  <2>2. CASE ~(ww /\ ~IsNull(tx.wit))
    BY <2>2, PlainTx
  <2> QED BY <2>1, <2>2
<1>2. RereadTx(tx, ww) \in TxValues /\ EncodeTx(RereadTx(tx, ww), ww) = EncodeTx(tx, ww)
  BY RereadTxSame
<1>3. \A rest \in Bytes : EncodeTx(tx, ww) \o rest \in Bytes
  BY <1>1, Join
<1> QED BY <1>1, <1>2, <1>3, TxCodec DEF Rereads

-----------------------------------------------------------------------------
(* Addresses.                                                              *)

\* Bytes i to j of three sequences joined are the second one.
IsMiddle(a, m, c, i, j) ==
  i = Len(a) + 1 /\ j = Len(a) + Len(m) => SubSeq(Cat(a, Cat(m, c)), i, j) = m

\* Bytes in the middle.
LEMMA Middle == \A a, m, c \in Bytes : \A i, j \in Nat : IsMiddle(a, m, c, i, j)
<1> SUFFICES ASSUME NEW a \in Bytes, NEW m \in Bytes, NEW c \in Bytes, NEW i \in Nat, NEW j \in Nat,
                    i = Len(a) + 1, j = Len(a) + Len(m)
             PROVE  SubSeq(Cat(a, Cat(m, c)), i, j) = m
  BY DEF IsMiddle
<1> DEFINE t == m \o c
           s == a \o t
           u == SubSeq(s, i, j)
<1>1. /\ t \in Seq(Byte) /\ Len(t) = Len(m) + Len(c)
      /\ \A k \in 1 .. Len(m) + Len(c) : t[k] = IF k <= Len(m) THEN m[k] ELSE c[k - Len(m)]
  BY ConcatProperties DEF Bytes
<1>2. /\ Len(a) \in Nat /\ Len(m) \in Nat /\ Len(c) \in Nat /\ m \in Seq(Byte) /\ a \in Seq(Byte)
      /\ \A k \in 1 .. Len(m) : m[k] \in Byte
  BY DEF Bytes
<1> HIDE DEF t
<1>3. /\ s \in Seq(Byte) /\ Len(s) = Len(a) + Len(t)
      /\ \A k \in 1 .. Len(a) + Len(t) : s[k] = IF k <= Len(a) THEN a[k] ELSE t[k - Len(a)]
  <2>1. a \in Seq(Byte) /\ t \in Seq(Byte)
    BY <1>1, <1>2
  <2> QED BY <2>1, ConcatProperties
<1> HIDE DEF s
<1>4. \A k \in i .. j : s[k] = m[k - Len(a)] /\ s[k] \in Byte
  <2> TAKE k \in i .. j
  <2>1. /\ k - Len(a) \in 1 .. Len(m) /\ k \in 1 .. Len(a) + Len(t) /\ ~(k <= Len(a))
        /\ k - Len(a) \in 1 .. Len(m) + Len(c) /\ k - Len(a) <= Len(m)
    BY <1>1, <1>2
  <2>2. s[k] = t[k - Len(a)]
    BY <1>3, <2>1
  <2>3. t[k - Len(a)] = m[k - Len(a)]
    BY <1>1, <2>1
  <2> QED BY <1>2, <2>1, <2>2, <2>3
<1>5. /\ u \in Seq(Byte) /\ Len(u) = Len(m)
      /\ \A k \in 1 .. Len(m) : u[k] = m[k]
  <2>1. /\ u \in Seq(Byte) /\ Len(u) = IF i <= j THEN j - i + 1 ELSE 0
        /\ \A k \in 1 .. j - i + 1 : u[k] = s[i + k - 1]
    BY <1>4, SubSeqProperties
  <2> HIDE DEF u
  <2>2. Len(u) = Len(m)
    BY <1>2, <2>1
  <2>3. ASSUME NEW k \in 1 .. Len(m) PROVE u[k] = m[k]
    <3>1. k \in 1 .. j - i + 1 /\ i + k - 1 \in i .. j /\ (i + k - 1) - Len(a) = k
      BY <1>2
    <3> QED BY <1>4, <2>1, <3>1
  <2> QED BY <2>1, <2>2, <2>3
<1> HIDE DEF u
<1>6. u = m
  BY <1>2, <1>5, SeqEqual
<1> QED BY <1>6 DEF u, s, t, Cat

\* The length of joined bytes.
LEMMA CatLen == \A a, b \in Bytes : Len(Cat(a, b)) = Len(a) + Len(b) /\ Len(a) \in Nat /\ Len(b) \in Nat
BY ConcatProperties DEF Bytes, Cat

\* Reversing twice changes nothing.
LEMMA ReverseTwice ==
  ASSUME NEW s \in Bytes
  PROVE  Reverse(s) \in Bytes /\ Len(Reverse(s)) = Len(s) /\ Reverse(Reverse(s)) = s
<1> DEFINE n == Len(s)
           r == [i \in 1 .. n |-> s[(n - i) + 1]]
           q == [i \in 1 .. n |-> r[(n - i) + 1]]
<1>1. n \in Nat /\ s \in Seq(Byte) /\ s = [i \in 1 .. n |-> s[i]] /\ \A i \in 1 .. n : s[i] \in Byte
  BY DEF Bytes
<1>2. \A i \in 1 .. n : (n - i) + 1 \in 1 .. n /\ (n - ((n - i) + 1)) + 1 = i
  BY <1>1
<1>3. r \in Seq(Byte) /\ Len(r) = n
  BY <1>1, <1>2
<1>4. q = s
  BY <1>1, <1>2
<1>5. Reverse(s) = r
  BY DEF Reverse
<1> HIDE DEF r
<1>6. Reverse(r) = q
  BY <1>3 DEF Reverse
<1> HIDE DEF q
<1> QED BY <1>3, <1>4, <1>5, <1>6 DEF Bytes

\* The parts of an address on the wire, of which the first takes t bytes.
Parts(b, t, T, S, A, P, rest) ==
  /\ b \in Bytes /\ ~(Len(b) < t + 26)
  /\ Prefix(b, t) = T /\ SubSeq(b, t + 1, t + 8) = S /\ SubSeq(b, t + 21, t + 24) = A
  /\ SubSeq(b, t + 25, t + 26) = P /\ Suffix(b, t + 26) = rest

\* An address on the wire has these parts.
LEMMA AddressParts ==
  ASSUME NEW T \in Bytes, NEW S \in Bytes, NEW M \in Bytes, NEW A \in Bytes, NEW P \in Bytes,
         NEW rest \in Bytes, NEW t \in Nat, Len(T) = t, Len(S) = 8, Len(M) = 12, Len(A) = 4, Len(P) = 2
  PROVE  Parts(Cat(T, Cat(S, Cat(M, Cat(A, Cat(P, rest))))), t, T, S, A, P, rest)
<1> DEFINE x4 == Cat(P, rest)
           x3 == Cat(A, x4)
           x2 == Cat(M, x3)
           x1 == Cat(S, x2)
           b  == Cat(T, x1)
           y2 == Cat(T, S)
           y3 == Cat(y2, M)
           y4 == Cat(y3, A)
           y5 == Cat(y4, P)
<1>1. /\ x4 \in Bytes /\ x3 \in Bytes /\ x2 \in Bytes /\ x1 \in Bytes /\ b \in Bytes
      /\ y2 \in Bytes /\ y3 \in Bytes /\ y4 \in Bytes /\ y5 \in Bytes
  BY CatFacts
<1>2. b = Cat(y2, x2)
  BY <1>1, CatFacts
<1>3. b = Cat(y3, x3)
  BY <1>1, <1>2, CatFacts
<1>4. b = Cat(y4, x4)
  BY <1>1, <1>3, CatFacts
<1>5. b = Cat(y5, rest)
  BY <1>1, <1>4, CatFacts
<1>6. Len(y2) = t + 8
  <2>1. Len(y2) = Len(T) + Len(S)
    BY CatLen
  <2> QED BY <2>1
<1> HIDE DEF y2
<1>7. Len(y3) = t + 20
  <2>1. Len(y3) = Len(y2) + Len(M)
    BY <1>1, CatLen
  <2> QED BY <1>6, <2>1
<1> HIDE DEF y3
<1>8. Len(y4) = t + 24
  <2>1. Len(y4) = Len(y3) + Len(A)
    BY <1>1, CatLen
  <2> QED BY <1>7, <2>1
<1> HIDE DEF y4
<1>9. Len(y5) = t + 26
  <2>1. Len(y5) = Len(y4) + Len(P)
    BY <1>1, CatLen
  <2> QED BY <1>8, <2>1
<1> HIDE DEF y5
<1>10. Len(b) = t + 26 + Len(rest) /\ Len(rest) \in Nat
  <2> HIDE DEF b
  <2>1. Len(Cat(y5, rest)) = Len(y5) + Len(rest) /\ Len(rest) \in Nat
    BY <1>1, CatLen
  <2> QED BY <1>5, <1>9, <2>1
<1>11. ~(Len(b) < t + 26)
  BY <1>10
<1>12. Prefix(b, t) = T
  <2> HIDE DEF x1
  <2> QED BY <1>1, CutBytes DEF Cat
<1>13. Suffix(b, t + 26) = rest
  <2> HIDE DEF b, y5
  <2> QED BY <1>1, <1>5, <1>9, CutBytes DEF Cat
<1>14. SubSeq(b, t + 1, t + 8) = S
  <2>1. PICK i \in Nat : i = t + 1
    OBVIOUS
  <2>2. PICK j \in Nat : j = t + 8
    OBVIOUS
  <2> HIDE DEF x2
  <2>4. i = Len(T) + 1 /\ j = Len(T) + Len(S)
    BY <2>1, <2>2
  <2>3. IsMiddle(T, S, x2, i, j)
    BY <1>1, Middle
  <2> QED BY <2>1, <2>2, <2>3, <2>4 DEF IsMiddle
<1>15. SubSeq(b, t + 21, t + 24) = A
  <2>1. PICK i \in Nat : i = t + 21
    OBVIOUS
  <2>2. PICK j \in Nat : j = t + 24
    OBVIOUS
  <2> HIDE DEF b, x4, y3
  <2>4. i = Len(y3) + 1 /\ j = Len(y3) + Len(A)
    BY <1>7, <2>1, <2>2
  <2>3. IsMiddle(y3, A, x4, i, j)
    BY <1>1, Middle
  <2> QED BY <1>3, <2>1, <2>2, <2>3, <2>4 DEF IsMiddle
<1>16. SubSeq(b, t + 25, t + 26) = P
  <2>1. PICK i \in Nat : i = t + 25
    OBVIOUS
  <2>2. PICK j \in Nat : j = t + 26
    OBVIOUS
  <2> HIDE DEF b, y4
  <2>4. i = Len(y4) + 1 /\ j = Len(y4) + Len(P)
    BY <1>8, <2>1, <2>2
  <2>3. IsMiddle(y4, P, rest, i, j)
    BY <1>1, Middle
  <2> QED BY <1>4, <2>1, <2>2, <2>3, <2>4 DEF IsMiddle
<1> HIDE DEF b
<1>17. Parts(b, t, T, S, A, P, rest)
  BY <1>1, <1>11, <1>12, <1>13, <1>14, <1>15, <1>16 DEF Parts
<1> QED BY <1>17 DEF b

\* An integer is read from its bytes.
LEMMA FromLEOfLE ==
  ASSUME NEW n \in Nat, NEW v \in Unsigned(n)
  PROVE  FromLE(LE(v, n)) = v /\ LE(v, n) \in Bytes /\ Len(LE(v, n)) = n
<1>1. v \in Int /\ Shifts(Base, v, n)[n] = 0
  BY DEF Unsigned
<1>2. Base \in Radix
  BY BaseFacts DEF Radix
<1>3. FromLE(LE(v, n)) = v
  BY <1>1, <1>2, NumberDigits DEF LE, FromLE
<1> QED BY <1>1, <1>3, LEType

\* A function on 1 .. n is n bytes.
LEMMA FixedBytes == ASSUME NEW n \in Nat, NEW f \in [1 .. n -> Byte] PROVE f \in Bytes /\ Len(f) = n
BY DEF Bytes

\* Five sequences and what follows them.
SameFive(T, S, M, A, P, r) ==
  ((((T \o S) \o M) \o A) \o P) \o r = Cat(T, Cat(S, Cat(M, Cat(A, Cat(P, r)))))

\* They may be joined in any order.
LEMMA BehindFive == \A T, S, M, A, P, r \in Bytes : SameFive(T, S, M, A, P, r)
<1> SUFFICES ASSUME NEW T \in Bytes, NEW S \in Bytes, NEW M \in Bytes, NEW A \in Bytes, NEW P \in Bytes,
                    NEW r \in Bytes
             PROVE  SameFive(T, S, M, A, P, r)
  OBVIOUS
<1> DEFINE x4 == Cat(P, r)
           x3 == Cat(A, x4)
           x2 == Cat(M, x3)
           y2 == Cat(T, S)
           y3 == Cat(y2, M)
           y4 == Cat(y3, A)
<1>1. /\ x4 \in Bytes /\ x3 \in Bytes /\ x2 \in Bytes
      /\ y2 \in Bytes /\ y3 \in Bytes /\ y4 \in Bytes
  BY CatFacts
<1>2. Cat(Cat(y4, P), r) = Cat(y4, x4)
  BY <1>1, CatFacts
<1>3. Cat(y4, x4) = Cat(y3, x3)
  BY <1>1, CatFacts
<1>4. Cat(y3, x3) = Cat(y2, x2)
  BY <1>1, CatFacts
<1>5. Cat(y2, x2) = Cat(T, Cat(S, x2))
  BY <1>1, CatFacts
<1>6. Cat(Cat(y4, P), r) = Cat(T, Cat(S, x2))
  BY <1>2, <1>3, <1>4, <1>5
<1> QED BY <1>6, Zenon DEF Cat, SameFive

\* Five sequences joined are not empty when the first two are not.
LEMMA FiveBytes ==
  ASSUME NEW T \in Bytes, NEW S \in Bytes, NEW M \in Bytes, NEW A \in Bytes, NEW P \in Bytes, S # <<>>
  PROVE  (((T \o S) \o M) \o A) \o P \in Bytes /\ (((T \o S) \o M) \o A) \o P # <<>>
<1>1. \A x, y \in Bytes : x # <<>> \/ y # <<>> => x \o y # <<>>
  BY ConcatEqualIffEmpty DEF Bytes
<1>2. T \o S \in Bytes /\ T \o S # <<>>
  BY <1>1, Join, Zenon
<1>3. (T \o S) \o M \in Bytes /\ (T \o S) \o M # <<>>
  BY <1>1, <1>2, Join, Zenon
<1>4. ((T \o S) \o M) \o A \in Bytes /\ ((T \o S) \o M) \o A # <<>>
  BY <1>1, <1>3, Join, Zenon
<1> QED BY <1>1, <1>4, Join, Zenon

\* An address of the first kind.
LEMMA AddrV1Exact ==
  ASSUME NEW ww \in BOOLEAN
  PROVE  /\ DOMAIN AddrV1(ww).ser =
              {a \in Addresses([1 .. 4 -> Byte]) : a.net = NET_IPV4 /\ (ww \/ a.time = 0)}
         /\ Exact(AddrV1(ww))
<1> DEFINE S0 == {a \in Addresses([1 .. 4 -> Byte]) : a.net = NET_IPV4 /\ (ww \/ a.time = 0)}
<1>1. /\ DOMAIN AddrV1(ww).ser = S0
      /\ \A a \in S0 : AddrV1(ww).ser[a] = AddrSerialize(a, ww)
      /\ \A b \in Bytes : AddrV1(ww).deser[b] = AddrDeserialize(b, ww)
  BY DEF AddrV1, Class
<1>2. ASSUME NEW a \in S0
      PROVE  /\ AddrSerialize(a, ww) \in Bytes /\ AddrSerialize(a, ww) # <<>>
             /\ \A rest \in Bytes : AddrDeserialize(AddrSerialize(a, ww) \o rest, ww) = Got(a, rest)
  <2>1. /\ a.time \in Unsigned(4) /\ a.services \in Unsigned(8) /\ a.net = NET_IPV4
        /\ a.ip \in [1 .. 4 -> Byte] /\ a.port \in Unsigned(2) /\ (ww \/ a.time = 0)
        /\ a = [time |-> a.time, services |-> a.services, net |-> a.net, ip |-> a.ip, port |-> a.port]
    BY DEF Addresses
  <2> HIDE DEF S0
  <2> DEFINE t == IF ww THEN 4 ELSE 0
             T == IF ww THEN LE(a.time, 4) ELSE <<>>
             S == LE(a.services, 8)
             M == [i \in 1 .. 12 |-> IF i <= 10 THEN 0 ELSE Base - 1]
             A == a.ip
             Q == LE(a.port, 2)
             P == Reverse(Q)
  <2>2. T \in Bytes /\ Len(T) = t /\ t \in Nat /\ (ww => FromLE(T) = a.time)
    <3>1. PICK n \in Nat : n = 4
      OBVIOUS
    <3>2. FromLE(LE(a.time, n)) = a.time /\ LE(a.time, n) \in Bytes /\ Len(LE(a.time, n)) = n
      BY <2>1, <3>1, FromLEOfLE
    <3>3. <<>> \in Bytes /\ Len(<<>>) = 0
      BY EmptySeq DEF Bytes
    <3>4. CASE ww
      BY <3>1, <3>2, <3>4
    <3>5. CASE ~ww
      BY <3>3, <3>5
    <3> QED BY <3>4, <3>5
  <2>3. S \in Bytes /\ Len(S) = 8 /\ FromLE(S) = a.services
    <3>1. PICK n \in Nat : n = 8
      OBVIOUS
    <3> QED BY <2>1, <3>1, FromLEOfLE
  <2>4. M \in Bytes /\ Len(M) = 12
    <3>1. \A i \in 1 .. 12 : (IF i <= 10 THEN 0 ELSE Base - 1) \in Byte
      BY BaseFacts DEF Byte
    <3>2. M \in [1 .. 12 -> Byte]
      BY <3>1
    <3> HIDE DEF M
    <3>3. PICK n \in Nat : n = 12
      OBVIOUS
    <3> QED BY <3>2, <3>3, FixedBytes
  <2>5. A \in Bytes /\ Len(A) = 4
    <3>1. PICK n \in Nat : n = 4
      OBVIOUS
    <3> QED BY <2>1, <3>1, FixedBytes
  <2>6. P \in Bytes /\ Len(P) = 2 /\ FromLE(Reverse(P)) = a.port
    <3>1. PICK n \in Nat : n = 2
      OBVIOUS
    <3>2. Q \in Bytes /\ Len(Q) = n /\ FromLE(Q) = a.port
      BY <2>1, <3>1, FromLEOfLE
    <3> HIDE DEF Q
    <3> QED BY <3>1, <3>2, ReverseTwice
  <2>7. AddrSerialize(a, ww) = (((T \o S) \o M) \o A) \o P
    BY DEF AddrSerialize
  <2>8. S # <<>>
    <3> HIDE DEF S
    <3> QED BY <2>3, NotEmpty DEF Bytes
  <2>9. ASSUME NEW rest \in Bytes
        PROVE  AddrDeserialize(((((T \o S) \o M) \o A) \o P) \o rest, ww) = Got(a, rest)
    <3> DEFINE b == Cat(T, Cat(S, Cat(M, Cat(A, Cat(P, rest)))))
    <3> HIDE DEF T, S, M, A, P, Q
    <3>1. ((((T \o S) \o M) \o A) \o P) \o rest = b
      <4>1. SameFive(T, S, M, A, P, rest)
        BY <2>2, <2>3, <2>4, <2>5, <2>6, BehindFive
      <4> QED BY <4>1 DEF SameFive
    <3> DEFINE u == t
    <3>2. u \in Nat /\ Len(T) = u /\ u = t
      BY <2>2
    <3> HIDE DEF u
    <3>3. Parts(b, u, T, S, A, P, rest)
      BY <2>2, <2>3, <2>4, <2>5, <2>6, <3>2, AddressParts
    <3> HIDE DEF b
    <3>4. AddrDeserialize(b, ww) =
            IF Len(b) < u + 26 THEN Failed
            ELSE Got([time     |-> IF ww THEN FromLE(Prefix(b, 4)) ELSE 0,
                      services |-> FromLE(SubSeq(b, u + 1, u + 8)),
                      net      |-> NET_IPV4,
                      ip       |-> SubSeq(b, u + 21, u + 24),
                      port     |-> FromLE(Reverse(SubSeq(b, u + 25, u + 26)))],
                     Suffix(b, u + 26))
      BY <3>2, Zenon DEF AddrDeserialize
    <3>5. AddrDeserialize(b, ww) =
            Got([time |-> IF ww THEN FromLE(Prefix(b, 4)) ELSE 0, services |-> FromLE(S), net |-> NET_IPV4,
                 ip |-> A, port |-> FromLE(Reverse(P))], rest)
      BY <3>3, <3>4, Zenon DEF Parts
    <3>6. (IF ww THEN FromLE(Prefix(b, 4)) ELSE 0) = a.time
      <4>1. CASE ww
        <5>1. Prefix(b, 4) = T
          BY <3>2, <3>3, <4>1 DEF Parts
        <5> QED BY <2>2, <4>1, <5>1
      <4>2. CASE ~ww
        BY <2>1, <4>2
      <4> QED BY <4>1, <4>2
    <3>7. A = a.ip
      BY DEF A
    <3> QED BY <2>1, <2>3, <2>6, <3>1, <3>5, <3>6, <3>7, Zenon
  <2>10. (((T \o S) \o M) \o A) \o P \in Bytes /\ (((T \o S) \o M) \o A) \o P # <<>>
    <3> HIDE DEF T, S, M, A, P, Q
    <3> QED BY <2>2, <2>3, <2>4, <2>5, <2>6, <2>8, FiveBytes
  <2> QED BY <2>7, <2>9, <2>10
<1> HIDE DEF S0
<1>3. ASSUME NEW a \in S0 PROVE Rereads(AddrV1(ww), a, a)
  <2>1. \A rest \in Bytes : AddrSerialize(a, ww) \o rest \in Bytes
    BY <1>2, Join
  <2> QED BY <1>1, <1>2, <2>1 DEF Rereads
<1> QED BY <1>1, <1>3 DEF Exact, S0

\* The checksum of a TorV3 address is a byte.
LEMMA ChecksumByte == ASSUME NEW s \in Bytes PROVE OnionChecksum(s) \in Byte
<1> DEFINE n == Len(s)
           Body(f) == [i \in 0 .. n |-> IF i = 0 THEN 0 ELSE (f[i - 1] + s[i]) % Base]
           step == [i \in 1 .. n |-> [x \in Byte |-> (x + s[i]) % Base]]
<1>1. n \in Nat /\ \A i \in 1 .. n : s[i] \in Byte
  BY DEF Bytes
<1>2. 0 \in Byte /\ Byte \in SUBSET Int
  BY BaseFacts DEF Byte
<1>3. \A x, y \in Byte : (x + y) % Base \in Byte
  <2> TAKE x, y \in Byte
  <2>1. x + y \in Int /\ Base \in Radix
    BY <1>2, BaseFacts DEF Radix
  <2> QED BY <2>1, DivMod DEF Byte
<1>4. step \in [1 .. n -> [Byte -> Byte]]
  BY <1>1, <1>3
<1>5. PICK f \in [0 .. n -> Byte] : f[0] = 0 /\ \A i \in 1 .. n : f[i] = step[i][f[i - 1]]
  <2>1. PICK z \in Byte : z = 0
    BY <1>2
  <2>2. \E f : Runs(f, n, Byte, z, step)
    <3> HIDE DEF step, n
    <3> QED BY <1>1, <1>4, Recursion
  <2> HIDE DEF step
  <2> QED BY <2>1, <2>2 DEF Runs
<1>6. \A i \in 1 .. n : f[i] = (f[i - 1] + s[i]) % Base
  <2> TAKE i \in 1 .. n
  <2>1. i - 1 \in 0 .. n /\ f[i - 1] \in Byte
    BY <1>1, <1>5
  <2>2. step[i][f[i - 1]] = (f[i - 1] + s[i]) % Base
    BY <2>1
  <2> QED BY <1>5, <2>2
<1> HIDE DEF step
<1>7. f = Body(f)
  <2>1. f = [i \in 0 .. n |-> f[i]]
    BY <1>5
  <2>2. \A i \in 0 .. n : f[i] = IF i = 0 THEN 0 ELSE (f[i - 1] + s[i]) % Base
    <3> TAKE i \in 0 .. n
    <3>1. i = 0 \/ i \in 1 .. n
      BY <1>1
    <3> QED BY <1>5, <1>6, <3>1
  <2> QED BY <2>1, <2>2, Zenon
<1> DEFINE g == CHOOSE h : h = Body(h)
<1>8. g = Body(g)
  BY <1>7, Zenon
<1>9. OnionChecksum(s) = g[n]
  BY DEF OnionChecksum
<1> HIDE DEF g
<1>10. \A i \in 0 .. n : g[i] = IF i = 0 THEN 0 ELSE (g[i - 1] + s[i]) % Base
  BY <1>8, Zenon
<1> HIDE DEF n
<1>11. {i \in 0 .. n : g[i] \notin Byte} = {}
  <2> DEFINE T == {i \in 0 .. n : g[i] \notin Byte}
  <2> SUFFICES ASSUME T # {} PROVE FALSE
    OBVIOUS
  <2>1. T \in SUBSET Nat
    OBVIOUS
  <2>2. PICK i \in T : \A j \in T : i <= j
    BY <2>1, NatMin
  <2>3. i \in 0 .. n /\ g[i] \notin Byte /\ i # 0
    BY <1>2, <1>10, <2>2
  <2>4. i - 1 \in 0 .. n /\ i \in 1 .. n /\ ~(i <= i - 1)
    BY <1>1, <2>3
  <2>5. g[i - 1] \in Byte
    BY <2>2, <2>4
  <2>6. g[i] = (g[i - 1] + s[i]) % Base
    BY <1>10, <2>3
  <2> QED BY <1>1, <1>3, <2>3, <2>4, <2>5, <2>6
<1>12. n \in 0 .. n
  BY <1>1
<1> QED BY <1>9, <1>11, <1>12

\* The networks and the lengths of their addresses.
LEMMA Networks ==
  /\ DOMAIN ADDRV2_ADDRESS_LENGTH = {1, 2, 4, 5, 6}
  /\ \A net \in {1, 2, 4, 5, 6} : ADDRV2_ADDRESS_LENGTH[net]
            = IF net = 1 THEN 4 ELSE IF net \in {2, 6} THEN 16 ELSE 32
BY DEF ADDRV2_ADDRESS_LENGTH

\* The length of an address fits in a compact size.
LEMMA SmallSize == ASSUME NEW l \in Nat, l <= 32 PROVE l \in Unsigned(8)
<1>1. Base \in Radix
  BY BaseFacts DEF Radix
<1>2. PICK n \in Nat : n = 8
  OBVIOUS
<1> DEFINE s == Shifts(Base, l, n)
<1>3. s[0] = l /\ \A i \in 1 .. n : s[i] = s[i - 1] \div Base
  BY <1>1, ShiftsSteps
<1> HIDE DEF s
<1>4. (l \div Base) \div Base = 0 /\ 0 \div Base = 0
  BY BaseFacts
<1>5. /\ s[1] = l \div Base /\ s[2] = s[1] \div Base
      /\ \A i \in 2 .. 7 : s[i + 1] = s[i] \div Base
  BY <1>2, <1>3
<1>6. s[2] = 0
  BY <1>4, <1>5
<1>7. \A i \in 2 .. 7 : s[i] = 0 => s[i + 1] = 0
  BY <1>4, <1>5
<1>8. s[3] = 0 /\ s[4] = 0 /\ s[5] = 0
  BY <1>6, <1>7
<1>9. s[8] = 0
  BY <1>7, <1>8
<1> QED BY <1>2, <1>9 DEF Unsigned, s

\* The first bytes of a sequence.
LEMMA FirstBytes ==
  ASSUME NEW s \in Bytes, NEW n \in Nat, n <= Len(s)
  PROVE  Prefix(s, n) \in Bytes /\ Len(Prefix(s, n)) = n /\ (n = Len(s) => Prefix(s, n) = s)
<1>1. Len(s) \in Nat /\ s \in Seq(Byte) /\ \A i \in 1 .. Len(s) : s[i] \in Byte
  BY DEF Bytes
<1>2. Prefix(s, n) = SubSeq(s, 1, n)
  <2>1. (IF n < Len(s) THEN n ELSE Len(s)) = n
    BY <1>1
  <2> QED BY <2>1 DEF Prefix
<1> DEFINE u == SubSeq(s, 1, n)
<1>3. u \in Seq(Byte) /\ Len(u) = n /\ \A i \in 1 .. n : u[i] = s[i]
  <2>1. \A i \in 1 .. n : s[i] \in Byte
    BY <1>1
  <2>2. /\ u \in Seq(Byte) /\ Len(u) = IF 1 <= n THEN n - 1 + 1 ELSE 0
        /\ \A i \in 1 .. n - 1 + 1 : u[i] = s[1 + i - 1]
    BY <2>1, SubSeqProperties
  <2> HIDE DEF u
  <2>3. \A i \in 1 .. n : i \in 1 .. n - 1 + 1 /\ 1 + i - 1 = i
    OBVIOUS
  <2> QED BY <2>2, <2>3
<1> HIDE DEF u
<1>4. n = Len(s) => u = s
  BY <1>1, <1>3, SeqEqual
<1> QED BY <1>2, <1>3, <1>4 DEF u, Bytes

\* The bytes in front of one more.
LEMMA BeforeLast ==
  ASSUME NEW s \in Bytes, NEW x \in Byte
  PROVE  /\ Append(s, x) \in Bytes /\ Len(Append(s, x)) = Len(s) + 1
         /\ Prefix(Append(s, x), Len(s)) = s
<1>1. Append(s, x) = s \o <<x>> /\ <<x>> \in Bytes
  BY AppendIsConcat DEF Bytes
<1>2. Prefix(s \o <<x>>, Len(s)) = s
  BY <1>1, CutBytes
<1>3. Append(s, x) \in Bytes /\ Len(Append(s, x)) = Len(s) + 1
  BY AppendProperties DEF Bytes
<1> QED BY <1>1, <1>2, <1>3

\* An address of the second kind is read from the bytes of its parts.
LEMMA DecodeAddrV2 ==
  ASSUME NEW b, ~(Len(b) < 4), NEW services, NEW b1, NEW b2, NEW net, NEW X, NEW b3, NEW l \in Nat,
         deser_compact_size(Suffix(b, 4)) = <<services, b1>>, b1 # <<>>, b1[1] = net, Tail(b1) = b2,
         net \in DOMAIN ADDRV2_ADDRESS_LENGTH, deser_string(b2) = <<X, b3>>,
         Len(X) = l, ADDRV2_ADDRESS_LENGTH[net] = l, ~(Len(b3) < 2)
  PROVE  AddrDeserializeV2(b) =
           Got([time |-> FromLE(Prefix(b, 4)), services |-> services, net |-> net,
                ip |-> IF net = NET_TORV3 THEN Append(X, OnionChecksum(X)) ELSE X,
                port |-> FromLE(Reverse(Prefix(b3, 2)))], Suffix(b3, 2))
<1> DEFINE Services == deser_compact_size(Suffix(b, 4))
           Net      == Services[2][1]
           Text     == deser_string(Tail(Services[2]))
<1>1. AddrDeserializeV2(b) =
        IF Len(b) < 4 \/ Services = Failed THEN Failed
        ELSE IF Services[2] = <<>> THEN Failed
        ELSE IF Net \notin DOMAIN ADDRV2_ADDRESS_LENGTH \/ Text = Failed THEN Failed
        ELSE IF Len(Text[1]) # ADDRV2_ADDRESS_LENGTH[Net] \/ Len(Text[2]) < 2 THEN Failed
        ELSE Got([time     |-> FromLE(Prefix(b, 4)),
                  services |-> Services[1],
                  net      |-> Net,
                  ip       |-> IF Net = NET_TORV3 THEN Append(Text[1], OnionChecksum(Text[1]))
                               ELSE Text[1],
                  port     |-> FromLE(Reverse(Prefix(Text[2], 2)))],
                 Suffix(Text[2], 2))
  BY Zenon DEF AddrDeserializeV2
<1>2. Services = <<services, b1>>
  OBVIOUS
<1> HIDE DEF Services
<1>3. Services[1] = services /\ Services[2] = b1 /\ Services # Failed
  BY <1>2 DEF Failed
<1>4. Net = net
  BY <1>3
<1>5. Text = <<X, b3>>
  BY <1>3
<1> HIDE DEF Text, Net
<1>6. Text[1] = X /\ Text[2] = b3 /\ Text # Failed
  BY <1>5 DEF Failed
<1>7. Len(Text[1]) = ADDRV2_ADDRESS_LENGTH[Net]
  BY <1>4, <1>6
<1> QED BY <1>1, <1>3, <1>4, <1>6, <1>7, Zenon

\* The address with its own checksum.
OwnChecksum(a) ==
  [a EXCEPT !.ip = IF a.net = NET_TORV3 THEN Append(Prefix(a.ip, 32), OnionChecksum(Prefix(a.ip, 32)))
                   ELSE a.ip]

\* The addresses of the second kind.
AddrV2Values ==
  {a \in Addresses(Bytes) : Len(a.ip) = ADDRV2_ADDRESS_LENGTH[a.net] + (IF a.net = NET_TORV3 THEN 1 ELSE 0)}

\* The bytes of an address of the second kind.
LEMMA AddrV2Parts ==
  ASSUME NEW a \in AddrV2Values
  PROVE  \E X \in Bytes : \E l \in Nat :
           /\ l = ADDRV2_ADDRESS_LENGTH[a.net] /\ l <= 32 /\ Len(X) = l
           /\ Prefix(a.ip, ADDRV2_ADDRESS_LENGTH[a.net]) = X
           /\ OwnChecksum(a) \in AddrV2Values
           /\ OwnChecksum(a).ip = IF a.net = NET_TORV3 THEN Append(X, OnionChecksum(X)) ELSE X
           /\ Prefix(OwnChecksum(a).ip, ADDRV2_ADDRESS_LENGTH[a.net]) = X
<1>1. /\ a.time \in Unsigned(4) /\ a.services \in Unsigned(8) /\ a.net \in DOMAIN ADDRV2_ADDRESS_LENGTH
      /\ a.ip \in Bytes /\ a.port \in Unsigned(2)
      /\ Len(a.ip) = ADDRV2_ADDRESS_LENGTH[a.net] + (IF a.net = NET_TORV3 THEN 1 ELSE 0)
      /\ a = [time |-> a.time, services |-> a.services, net |-> a.net, ip |-> a.ip, port |-> a.port]
  BY DEF AddrV2Values, Addresses
<1>2. PICK l \in Nat : l = ADDRV2_ADDRESS_LENGTH[a.net] /\ l <= 32 /\ (a.net = NET_TORV3 => l = 32)
  BY <1>1, Networks DEF NET_TORV3
<1> DEFINE X == Prefix(a.ip, l)
<1>3. Len(a.ip) \in Nat /\ l <= Len(a.ip) /\ (a.net # NET_TORV3 => l = Len(a.ip))
  BY <1>1, <1>2
<1>4. X \in Bytes /\ Len(X) = l /\ (a.net # NET_TORV3 => X = a.ip)
  BY <1>1, <1>3, FirstBytes
<1> DEFINE w == OwnChecksum(a)
           ip == IF a.net = NET_TORV3 THEN Append(X, OnionChecksum(X)) ELSE X
<1>5. ip = IF a.net = NET_TORV3 THEN Append(Prefix(a.ip, 32), OnionChecksum(Prefix(a.ip, 32))) ELSE a.ip
  <2>1. CASE a.net = NET_TORV3
    BY <1>2, <2>1
  <2>2. CASE a.net # NET_TORV3
    BY <1>4, <2>2
  <2> QED BY <2>1, <2>2
<1> HIDE DEF X, ip
<1>6. w = [a EXCEPT !.ip = ip]
  BY <1>5, Zenon DEF OwnChecksum
<1>7. w = [time |-> a.time, services |-> a.services, net |-> a.net, ip |-> ip, port |-> a.port]
  BY <1>1, <1>6
<1>8. ip \in Bytes /\ Len(ip) = l + (IF a.net = NET_TORV3 THEN 1 ELSE 0) /\ Prefix(ip, l) = X
  <2>1. CASE a.net = NET_TORV3
    <3>1. OnionChecksum(X) \in Byte
      BY <1>4, ChecksumByte
    <3>2. /\ Append(X, OnionChecksum(X)) \in Bytes /\ Len(Append(X, OnionChecksum(X))) = l + 1
          /\ Prefix(Append(X, OnionChecksum(X)), l) = X
      BY <1>4, <3>1, BeforeLast
    <3> QED BY <2>1, <3>2 DEF ip
  <2>2. CASE a.net # NET_TORV3
    <3>1. l <= Len(X)
      BY <1>4
    <3>2. Prefix(X, l) = X
      BY <1>4, <3>1, FirstBytes
    <3> QED BY <1>4, <2>2, <3>2 DEF ip
  <2> QED BY <2>1, <2>2
<1> HIDE DEF w
<1>9. w \in AddrV2Values
  BY <1>1, <1>2, <1>7, <1>8 DEF AddrV2Values, Addresses
<1>10. w.ip = ip
  BY <1>7
<1>11. Prefix(a.ip, ADDRV2_ADDRESS_LENGTH[a.net]) = X
  BY <1>2 DEF X
<1>12. Prefix(w.ip, ADDRV2_ADDRESS_LENGTH[a.net]) = X
  BY <1>2, <1>8, <1>10
<1> QED BY <1>2, <1>4, <1>9, <1>10, <1>11, <1>12 DEF ip, w

\* Addresses of the second kind are read with their own checksum.
LEMMA AddrV2Rereads ==
  /\ DOMAIN AddrV2.ser = AddrV2Values
  /\ \A a \in AddrV2Values : Rereads(AddrV2, a, OwnChecksum(a))
<1>1. /\ DOMAIN AddrV2.ser = AddrV2Values
      /\ \A a \in AddrV2Values : AddrV2.ser[a] = AddrSerializeV2(a)
      /\ \A b \in Bytes : AddrV2.deser[b] = AddrDeserializeV2(b)
  BY DEF AddrV2, Class, AddrV2Values
<1>2. ASSUME NEW a \in AddrV2Values PROVE Rereads(AddrV2, a, OwnChecksum(a))
  <2>1. /\ a.time \in Unsigned(4) /\ a.services \in Unsigned(8) /\ a.net \in DOMAIN ADDRV2_ADDRESS_LENGTH
        /\ a.port \in Unsigned(2)
        /\ a = [time |-> a.time, services |-> a.services, net |-> a.net, ip |-> a.ip, port |-> a.port]
    BY DEF AddrV2Values, Addresses
  <2> DEFINE w == OwnChecksum(a)
  <2>2. PICK X \in Bytes : \E l \in Nat :
           /\ l = ADDRV2_ADDRESS_LENGTH[a.net] /\ l <= 32 /\ Len(X) = l
           /\ Prefix(a.ip, ADDRV2_ADDRESS_LENGTH[a.net]) = X
           /\ w \in AddrV2Values
           /\ w.ip = IF a.net = NET_TORV3 THEN Append(X, OnionChecksum(X)) ELSE X
           /\ Prefix(w.ip, ADDRV2_ADDRESS_LENGTH[a.net]) = X
    BY AddrV2Parts
  <2>3. PICK l \in Nat :
           /\ l = ADDRV2_ADDRESS_LENGTH[a.net] /\ l <= 32 /\ Len(X) = l
           /\ Prefix(a.ip, ADDRV2_ADDRESS_LENGTH[a.net]) = X
           /\ w \in AddrV2Values
           /\ w.ip = IF a.net = NET_TORV3 THEN Append(X, OnionChecksum(X)) ELSE X
           /\ Prefix(w.ip, ADDRV2_ADDRESS_LENGTH[a.net]) = X
    BY <2>2
  <2>4. w.time = a.time /\ w.services = a.services /\ w.net = a.net /\ w.port = a.port
    BY <2>1 DEF OwnChecksum
  <2>5. w = [time |-> a.time, services |-> a.services, net |-> a.net,
             ip |-> IF a.net = NET_TORV3 THEN Append(X, OnionChecksum(X)) ELSE X, port |-> a.port]
    <3>1. w = [time |-> w.time, services |-> w.services, net |-> w.net, ip |-> w.ip, port |-> w.port]
      BY <2>3 DEF AddrV2Values, Addresses
    <3> HIDE DEF w
    <3> QED BY <2>3, <2>4, <3>1, Zenon
  <2> HIDE DEF w
  <2> DEFINE T == LE(a.time, 4)
             C == ser_compact_size(a.services)
             N == LE(a.net, 1)
             Y == ser_string(X)
             Q == LE(a.port, 2)
             P == Reverse(Q)
  <2>6. T \in Bytes /\ Len(T) = 4 /\ FromLE(T) = a.time
    <3>1. PICK n \in Nat : n = 4
      OBVIOUS
    <3> QED BY <2>1, <3>1, FromLEOfLE
  <2>7. C \in Bytes /\ C # <<>> /\ \A rest \in Bytes : deser_compact_size(C \o rest) = <<a.services, rest>>
    BY <2>1, CompactReads DEF Got
  <2>8. N = <<a.net>> /\ N \in Bytes /\ a.net \in Byte
    <3>1. a.net \in Nat /\ a.net < Base
      BY <2>1, Networks, BaseFacts
    <3>2. N = <<a.net>>
      BY <3>1, FitsOne
    <3>3. a.net \in Byte
      BY <3>1, BaseFacts DEF Byte
    <3> HIDE DEF N
    <3> QED BY <3>2, <3>3 DEF Bytes
  <2>9. Y \in Bytes /\ Y # <<>> /\ \A rest \in Bytes : deser_string(Y \o rest) = <<X, rest>>
    BY <2>3, SmallSize, StringReads DEF Got
  <2>10. P \in Bytes /\ Len(P) = 2 /\ FromLE(Reverse(P)) = a.port
    <3>1. PICK n \in Nat : n = 2
      OBVIOUS
    <3>2. Q \in Bytes /\ Len(Q) = n /\ FromLE(Q) = a.port
      BY <2>1, <3>1, FromLEOfLE
    <3> HIDE DEF Q
    <3> QED BY <3>1, <3>2, ReverseTwice
  <2>11. AddrSerializeV2(a) = (((T \o C) \o N) \o Y) \o P
    BY <2>3 DEF AddrSerializeV2
  <2>12. AddrSerializeV2(w) = (((T \o C) \o N) \o Y) \o P
    BY <2>3, <2>4 DEF AddrSerializeV2
  <2> HIDE DEF T, C, N, Y, Q, P
  <2>13. (((T \o C) \o N) \o Y) \o P \in Bytes /\ (((T \o C) \o N) \o Y) \o P # <<>>
    BY <2>6, <2>7, <2>8, <2>9, <2>10, FiveBytes
  <2>14. ASSUME NEW rest \in Bytes
         PROVE  AddrDeserializeV2(((((T \o C) \o N) \o Y) \o P) \o rest) = Got(w, rest)
    <3> DEFINE b3 == P \o rest
               b2 == Y \o b3
               b1 == N \o b2
               b  == T \o (C \o b1)
    <3>1. ((((T \o C) \o N) \o Y) \o P) \o rest = b
      <4>1. SameFive(T, C, N, Y, P, rest)
        BY <2>6, <2>7, <2>8, <2>9, <2>10, BehindFive
      <4> QED BY <4>1, Zenon DEF SameFive, Cat
    <3>2. b3 \in Bytes /\ b2 \in Bytes /\ b1 \in Bytes /\ C \o b1 \in Bytes
      BY <2>6, <2>7, <2>8, <2>9, <2>10, Join
    <3>3. Prefix(b, 4) = T /\ Suffix(b, 4) = C \o b1
      <4> DEFINE c == C \o b1
      <4> HIDE DEF c
      <4>1. c \in Bytes
        BY <3>2 DEF c
      <4>2. Prefix(T \o c, Len(T)) = T /\ Suffix(T \o c, Len(T)) = c
        BY <2>6, <4>1, CutBytes
      <4> QED BY <2>6, <4>2 DEF c
    <3>4. ~(Len(b) < 4)
      <4> DEFINE c == C \o b1
      <4> HIDE DEF c
      <4>1. c \in Bytes
        BY <3>2 DEF c
      <4>2. Len(Cat(T, c)) = Len(T) + Len(c) /\ Len(c) \in Nat
        BY <2>6, <4>1, CatLen
      <4>3. ~(Len(Cat(T, c)) < 4)
        BY <2>6, <4>2
      <4> QED BY <4>3 DEF Cat, c
    <3>5. deser_compact_size(Suffix(b, 4)) = <<a.services, b1>>
      BY <2>7, <3>2, <3>3
    <3> HIDE DEF b, b2
    <3>6. b1 # <<>> /\ b1[1] = a.net /\ Tail(b1) = b2
      BY <2>8, <3>2, ByteInFront
    <3>7. deser_string(b2) = <<X, b3>>
      BY <2>9, <3>2 DEF b2
    <3>8. Prefix(b3, 2) = P /\ Suffix(b3, 2) = rest
      BY <2>10, CutBytes
    <3>9. ~(Len(b3) < 2)
      <4>1. Len(Cat(P, rest)) = Len(P) + Len(rest) /\ Len(rest) \in Nat
        BY <2>10, CatLen
      <4>2. ~(Len(Cat(P, rest)) < 2)
        BY <2>10, <4>1
      <4> QED BY <4>2 DEF Cat
    <3> HIDE DEF b1, b3
    <3>10. AddrDeserializeV2(b) =
             Got([time |-> FromLE(Prefix(b, 4)), services |-> a.services, net |-> a.net,
                  ip |-> IF a.net = NET_TORV3 THEN Append(X, OnionChecksum(X)) ELSE X,
                  port |-> FromLE(Reverse(Prefix(b3, 2)))], Suffix(b3, 2))
      BY <2>1, <2>3, <3>4, <3>5, <3>6, <3>7, <3>9, DecodeAddrV2
    <3> QED BY <2>5, <2>6, <2>10, <3>1, <3>3, <3>8, <3>10, Zenon
  <2>15. \A rest \in Bytes : AddrSerializeV2(a) \o rest \in Bytes
    BY <2>11, <2>13, Join
  <2>16. w \in AddrV2Values
    BY <2>3
  <2>17. Rereads(AddrV2, a, w)
    BY <1>1, <2>11, <2>12, <2>13, <2>14, <2>15, <2>16 DEF Rereads
  <2> QED BY <2>17 DEF w
<1> QED BY <1>1, <1>2

-----------------------------------------------------------------------------
(* Bit vectors.                                                            *)

\* The bytes that n bits take.
Packed(n) == (n + ByteBits - 1) \div ByteBits

\* Where a bit is: its byte and its place in the byte.
ByteOf(j)  == ((j - 1) \div ByteBits) + 1
PlaceOf(j) == ((j - 1) % ByteBits) + 1
BitAt(i, k) == (i - 1) * ByteBits + k

\* Bytes and places are those of the bits, one by one.
LEMMA Positions ==
  ASSUME NEW n \in Nat
  PROVE  /\ Packed(n) \in Nat /\ Packed(n) * ByteBits \in Nat /\ n <= Packed(n) * ByteBits
         /\ Packed(Packed(n) * ByteBits) = Packed(n)
         /\ n % ByteBits = 0 => Packed(n) * ByteBits = n
         /\ \A j \in 1 .. Packed(n) * ByteBits :
              ByteOf(j) \in 1 .. Packed(n) /\ PlaceOf(j) \in 1 .. ByteBits /\ BitAt(ByteOf(j), PlaceOf(j)) = j
         /\ \A i \in 1 .. Packed(n) : \A k \in 1 .. ByteBits : BitAt(i, k) \in 1 .. Packed(n) * ByteBits
<1>1. CASE ByteBits = 3
  BY <1>1 DEF Packed, ByteOf, PlaceOf, BitAt
<1>2. CASE ByteBits = 4
  BY <1>2 DEF Packed, ByteOf, PlaceOf, BitAt
<1>3. CASE ByteBits = 5
  BY <1>3 DEF Packed, ByteOf, PlaceOf, BitAt
<1>4. CASE ByteBits = 6
  BY <1>4 DEF Packed, ByteOf, PlaceOf, BitAt
<1>5. CASE ByteBits = 7
  BY <1>5 DEF Packed, ByteOf, PlaceOf, BitAt
<1>6. CASE ByteBits = 8
  BY <1>6 DEF Packed, ByteOf, PlaceOf, BitAt
<1> QED BY <1>1, <1>2, <1>3, <1>4, <1>5, <1>6, BaseFacts

\* The bits of byte i, filled up with zeros.
BitsOf(v, i) == [k \in 1 .. ByteBits |->
                   LET j == (i - 1) * ByteBits + k IN IF j <= Len(v) /\ v[j] THEN 1 ELSE 0]

\* As many bits as a byte has are a byte.
LEMMA BitsAreByte ==
  ASSUME NEW v, NEW i
  PROVE  /\ Number(2, BitsOf(v, i), FALSE) \in Byte
         /\ Digits(2, Number(2, BitsOf(v, i), FALSE), ByteBits) = BitsOf(v, i)
<1> DEFINE ds == BitsOf(v, i)
           x == Number(2, ds, FALSE)
<1>1. ds \in [1 .. ByteBits -> 0 .. 2 - 1]
  BY DEF BitsOf
<1>2. PICK n \in Nat \ {0} : n = ByteBits
  BY BaseFacts
<1>3. PICK b \in Radix : b = 2
  BY DEF Radix
<1> HIDE DEF ds
<1>4. ds \in [1 .. n -> 0 .. b - 1]
  BY <1>1, <1>2, <1>3
<1>5. /\ Number(b, ds, FALSE) \in Nat /\ Shifts(b, Number(b, ds, FALSE), n)[n] = 0
      /\ Digits(b, Number(b, ds, FALSE), n) = ds
  BY <1>4, DigitsNumber
<1>6. x \in Nat /\ Shifts(b, x, n)[n] = 0 /\ Digits(b, x, n) = ds
  BY <1>3, <1>5
<1> HIDE DEF x
<1> DEFINE s == Shifts(b, x, n)
<1>7. /\ s[0] = x /\ \A k \in 1 .. n : s[k] = s[k - 1] \div 2
      /\ \A k \in 0 .. n : s[k] \in Int
  <2>1. x \in Int /\ n \in Nat
    BY <1>6
  <2>2. s \in [0 .. n -> Int] /\ s[0] = x /\ \A k \in 1 .. n : s[k] = s[k - 1] \div b
    BY <2>1, ShiftsSteps
  <2> HIDE DEF s
  <2> QED BY <1>3, <2>2
<1>8. s[n] = 0
  BY <1>6
<1> HIDE DEF s
<1>9. x < Base
  <2>1. CASE ByteBits = 3
    <3>1. s[1] = x \div 2 /\ s[2] = s[1] \div 2 /\ s[3] = s[2] \div 2 /\ s[3] = 0
      BY <1>2, <1>7, <1>8, <2>1
    <3> QED BY <1>6, <2>1, <3>1 DEF Base
  <2>2. CASE ByteBits = 4
    <3>1. s[1] = x \div 2 /\ s[2] = s[1] \div 2 /\ s[3] = s[2] \div 2 /\ s[4] = s[3] \div 2 /\ s[4] = 0
      BY <1>2, <1>7, <1>8, <2>2
    <3> QED BY <1>6, <2>2, <3>1 DEF Base
  <2>3. CASE ByteBits = 5
    <3>1. s[1] = x \div 2 /\ s[2] = s[1] \div 2 /\ s[3] = s[2] \div 2 /\ s[4] = s[3] \div 2
          /\ s[5] = s[4] \div 2 /\ s[5] = 0
      BY <1>2, <1>7, <1>8, <2>3
    <3> QED BY <1>6, <2>3, <3>1 DEF Base
  <2>4. CASE ByteBits = 6
    <3>1. s[1] = x \div 2 /\ s[2] = s[1] \div 2 /\ s[3] = s[2] \div 2 /\ s[4] = s[3] \div 2
          /\ s[5] = s[4] \div 2 /\ s[6] = s[5] \div 2 /\ s[6] = 0
      BY <1>2, <1>7, <1>8, <2>4
    <3> QED BY <1>6, <2>4, <3>1 DEF Base
  <2>5. CASE ByteBits = 7
    <3>1. s[7] = 0
      BY <1>2, <1>8, <2>5
    <3>2. s[6] < 2
      <4>1. s[7] = s[6] \div 2 /\ s[6] \in Int
        BY <1>2, <1>6, <1>7, <2>5
      <4> QED BY <3>1, <4>1
    <3>3. s[5] < 4
      <4>1. s[6] = s[5] \div 2 /\ s[5] \in Int
        BY <1>2, <1>6, <1>7, <2>5
      <4> QED BY <3>2, <4>1
    <3>4. s[4] < 8
      <4>1. s[5] = s[4] \div 2 /\ s[4] \in Int
        BY <1>2, <1>6, <1>7, <2>5
      <4> QED BY <3>3, <4>1
    <3>5. s[3] < 16
      <4>1. s[4] = s[3] \div 2 /\ s[3] \in Int
        BY <1>2, <1>6, <1>7, <2>5
      <4> QED BY <3>4, <4>1
    <3>6. s[2] < 32
      <4>1. s[3] = s[2] \div 2 /\ s[2] \in Int
        BY <1>2, <1>6, <1>7, <2>5
      <4> QED BY <3>5, <4>1
    <3>7. s[1] < 64
      <4>1. s[2] = s[1] \div 2 /\ s[1] \in Int
        BY <1>2, <1>6, <1>7, <2>5
      <4> QED BY <3>6, <4>1
    <3>8. x < 128
      <4>1. s[1] = x \div 2 /\ x \in Int
        BY <1>2, <1>6, <1>7, <2>5
      <4> QED BY <3>7, <4>1
    <3>9. Base = 128
      BY <2>5 DEF Base
    <3> QED BY <3>8, <3>9
  <2>6. CASE ByteBits = 8
    <3>1. s[8] = 0
      BY <1>2, <1>8, <2>6
    <3>2. s[7] < 2
      <4>1. s[8] = s[7] \div 2 /\ s[7] \in Int
        BY <1>2, <1>6, <1>7, <2>6
      <4> QED BY <3>1, <4>1
    <3>3. s[6] < 4
      <4>1. s[7] = s[6] \div 2 /\ s[6] \in Int
        BY <1>2, <1>6, <1>7, <2>6
      <4> QED BY <3>2, <4>1
    <3>4. s[5] < 8
      <4>1. s[6] = s[5] \div 2 /\ s[5] \in Int
        BY <1>2, <1>6, <1>7, <2>6
      <4> QED BY <3>3, <4>1
    <3>5. s[4] < 16
      <4>1. s[5] = s[4] \div 2 /\ s[4] \in Int
        BY <1>2, <1>6, <1>7, <2>6
      <4> QED BY <3>4, <4>1
    <3>6. s[3] < 32
      <4>1. s[4] = s[3] \div 2 /\ s[3] \in Int
        BY <1>2, <1>6, <1>7, <2>6
      <4> QED BY <3>5, <4>1
    <3>7. s[2] < 64
      <4>1. s[3] = s[2] \div 2 /\ s[2] \in Int
        BY <1>2, <1>6, <1>7, <2>6
      <4> QED BY <3>6, <4>1
    <3>8. s[1] < 128
      <4>1. s[2] = s[1] \div 2 /\ s[1] \in Int
        BY <1>2, <1>6, <1>7, <2>6
      <4> QED BY <3>7, <4>1
    <3>9. x < 256
      <4>1. s[1] = x \div 2 /\ x \in Int
        BY <1>2, <1>6, <1>7, <2>6
      <4> QED BY <3>8, <4>1
    <3>10. Base = 256
      BY <2>6 DEF Base
    <3> QED BY <3>9, <3>10
  <2> QED BY <2>1, <2>2, <2>3, <2>4, <2>5, <2>6, BaseFacts
<1>10. x \in Byte
  BY <1>6, <1>9, BaseFacts DEF Byte
<1>11. Digits(2, x, ByteBits) = ds
  BY <1>2, <1>3, <1>6
<1> QED BY <1>10, <1>11 DEF x, ds

\* The bits that are read: those that were written, filled up to whole bytes.
Padded(v) == UnpackBits(PackBits(v))

\* What is packed and unpacked.
LEMMA PackedBits ==
  ASSUME NEW v \in Seq(BOOLEAN)
  PROVE  /\ PackBits(v) \in Bytes /\ Len(PackBits(v)) = Packed(Len(v))
         /\ \A i \in 1 .. Packed(Len(v)) : PackBits(v)[i] = Number(2, BitsOf(v, i), FALSE)
<1>1. Packed(Len(v)) \in Nat
  BY Positions
<1> DEFINE m == Packed(Len(v))
           p == [i \in 1 .. m |-> Number(2, BitsOf(v, i), FALSE)]
<1>2. PackBits(v) = p
  BY Zenon DEF PackBits, Packed, BitsOf
<1>3. \A i \in 1 .. m : Number(2, BitsOf(v, i), FALSE) \in Byte
  BY BitsAreByte
<1> HIDE DEF m
<1>4. p \in [1 .. m -> Byte]
  BY <1>3
<1>5. \A i \in 1 .. m : p[i] = Number(2, BitsOf(v, i), FALSE)
  OBVIOUS
<1> HIDE DEF p
<1>6. p \in Bytes /\ Len(p) = m
  BY <1>1, <1>4, FixedBytes DEF m
<1> QED BY <1>2, <1>5, <1>6 DEF m

\* Bit j of what is read.
LEMMA PaddedBits ==
  ASSUME NEW v \in Seq(BOOLEAN)
  PROVE  /\ Padded(v) \in Seq(BOOLEAN) /\ Len(Padded(v)) = Packed(Len(v)) * ByteBits
         /\ \A j \in 1 .. Packed(Len(v)) * ByteBits : Padded(v)[j] <=> j <= Len(v) /\ v[j]
<1> DEFINE m == Packed(Len(v))
           b == PackBits(v)
           Bit(j) == Digits(2, b[ByteOf(j)], ByteBits)[PlaceOf(j)] = 1
           u == [j \in 1 .. m * ByteBits |-> Bit(j)]
<1>1. /\ m \in Nat /\ m * ByteBits \in Nat
      /\ \A j \in 1 .. m * ByteBits :
           ByteOf(j) \in 1 .. m /\ PlaceOf(j) \in 1 .. ByteBits /\ BitAt(ByteOf(j), PlaceOf(j)) = j
  BY Positions
<1>2. Len(b) = m /\ \A i \in 1 .. m : b[i] = Number(2, BitsOf(v, i), FALSE)
  BY PackedBits
<1>3. Padded(v) = u
  <2>1. Padded(v) = [j \in 1 .. Len(b) * ByteBits |-> Bit(j)]
    BY Zenon DEF Padded, UnpackBits, ByteOf, PlaceOf
  <2> QED BY <1>2, <2>1, Zenon
<1>4. ASSUME NEW j \in 1 .. m * ByteBits PROVE Bit(j) <=> j <= Len(v) /\ v[j]
  <2> DEFINE i == ByteOf(j)
             k == PlaceOf(j)
  <2>1. i \in 1 .. m /\ k \in 1 .. ByteBits /\ (i - 1) * ByteBits + k = j
    BY <1>1 DEF BitAt
  <2>2. Digits(2, b[i], ByteBits) = BitsOf(v, i)
    BY <1>2, <2>1, BitsAreByte
  <2>3. BitsOf(v, i)[k] = IF j <= Len(v) /\ v[j] THEN 1 ELSE 0
    <3>1. BitsOf(v, i)[k] = IF (i - 1) * ByteBits + k <= Len(v) /\ v[(i - 1) * ByteBits + k] THEN 1 ELSE 0
      <4> HIDE DEF i, k
      <4> QED BY <2>1, Zenon DEF BitsOf
    <3> QED BY <2>1, <3>1, Zenon
  <2> HIDE DEF b, i, k, m
  <2>4. (IF j <= Len(v) /\ v[j] THEN 1 ELSE 0) = 1 <=> j <= Len(v) /\ v[j]
    OBVIOUS
  <2>5. Bit(j) <=> BitsOf(v, i)[k] = 1
    BY <2>2, Zenon DEF i, k
  <2> QED BY <2>3, <2>4, <2>5, Zenon
<1> HIDE DEF m, b
<1>5. \A j \in 1 .. m * ByteBits : u[j] = Bit(j)
  BY Zenon
<1>6. u \in [1 .. m * ByteBits -> BOOLEAN]
  BY Zenon
<1> HIDE DEF Bit, u
<1>7. u \in Seq(BOOLEAN) /\ Len(u) = m * ByteBits
  <2>1. PICK n \in Nat : n = m * ByteBits
    BY <1>1
  <2>2. u \in [1 .. n -> BOOLEAN]
    BY <1>6, <2>1
  <2>3. u \in Seq(BOOLEAN) /\ Len(u) = n
    BY <2>2
  <2> QED BY <2>1, <2>3
<1>8. \A j \in 1 .. m * ByteBits : u[j] <=> j <= Len(v) /\ v[j]
  BY <1>4, <1>5, Zenon
<1> QED BY <1>3, <1>7, <1>8, Zenon DEF m

\* The bits that are read are packed into the bytes they were read from.
LEMMA PaddedSame ==
  ASSUME NEW v \in Seq(BOOLEAN)
  PROVE  PackBits(Padded(v)) = PackBits(v)
<1> DEFINE m == Packed(Len(v))
           w == Padded(v)
<1>1. /\ m \in Nat /\ m * ByteBits \in Nat /\ Len(v) <= m * ByteBits /\ Packed(m * ByteBits) = m
      /\ \A i \in 1 .. m : \A k \in 1 .. ByteBits : BitAt(i, k) \in 1 .. m * ByteBits
  BY Positions
<1>2. /\ w \in Seq(BOOLEAN) /\ Len(w) = m * ByteBits
      /\ \A j \in 1 .. m * ByteBits : w[j] <=> j <= Len(v) /\ v[j]
  BY PaddedBits, Zenon
<1> HIDE DEF w, m
<1>3. ASSUME NEW i \in 1 .. m PROVE BitsOf(w, i) = BitsOf(v, i)
  <2>1. ASSUME NEW k \in 1 .. ByteBits
        PROVE  (IF (i - 1) * ByteBits + k <= Len(w) /\ w[(i - 1) * ByteBits + k] THEN 1 ELSE 0)
                 = (IF (i - 1) * ByteBits + k <= Len(v) /\ v[(i - 1) * ByteBits + k] THEN 1 ELSE 0)
    <3> DEFINE j == (i - 1) * ByteBits + k
    <3>1. j \in 1 .. m * ByteBits
      BY <1>1 DEF BitAt
    <3> HIDE DEF j
    <3>2. j <= Len(w)
      BY <1>1, <1>2, <3>1
    <3>3. w[j] <=> j <= Len(v) /\ v[j]
      BY <1>2, <3>1, Zenon
    <3>4. (j <= Len(w) /\ w[j]) <=> (j <= Len(v) /\ v[j])
      BY <3>2, <3>3, Zenon
    <3>5. (IF j <= Len(w) /\ w[j] THEN 1 ELSE 0) = (IF j <= Len(v) /\ v[j] THEN 1 ELSE 0)
      BY <3>4, Zenon
    <3> QED BY <3>5 DEF j
  <2> QED BY <2>1, Zenon DEF BitsOf
<1>4. /\ PackBits(w) \in Bytes /\ Len(PackBits(w)) = m
      /\ \A i \in 1 .. m : PackBits(w)[i] = Number(2, BitsOf(w, i), FALSE)
  <2>1. Packed(Len(w)) = m
    BY <1>1, <1>2
  <2> QED BY <1>2, <2>1, PackedBits
<1>5. /\ PackBits(v) \in Bytes /\ Len(PackBits(v)) = m
      /\ \A i \in 1 .. m : PackBits(v)[i] = Number(2, BitsOf(v, i), FALSE)
  BY PackedBits DEF m
<1>6. \A i \in 1 .. m : PackBits(w)[i] = PackBits(v)[i]
  BY <1>3, <1>4, <1>5, Zenon
<1> DEFINE p == PackBits(w)
           q == PackBits(v)
<1>7. p \in Seq(Byte) /\ q \in Seq(Byte) /\ Len(p) = Len(q) /\ \A i \in 1 .. Len(p) : p[i] = q[i]
  BY <1>4, <1>5, <1>6 DEF Bytes
<1> HIDE DEF p, q
<1>8. p = q
  BY <1>7, SeqEqual
<1> QED BY <1>8 DEF p, q, w

\* Whole bytes of bits are read as they were.
LEMMA WholeBytes ==
  ASSUME NEW v \in Seq(BOOLEAN), Len(v) % ByteBits = 0
  PROVE  Padded(v) = v
<1>1. Len(v) \in Nat /\ Packed(Len(v)) * ByteBits = Len(v)
  BY Positions
<1>2. /\ Padded(v) \in Seq(BOOLEAN) /\ Len(Padded(v)) = Len(v)
      /\ \A j \in 1 .. Len(v) : Padded(v)[j] <=> j <= Len(v) /\ v[j]
  BY <1>1, PaddedBits, Zenon
<1>3. \A j \in 1 .. Len(v) : j <= Len(v)
  BY <1>1
<1>4. \A j \in 1 .. Len(v) : v[j] \in BOOLEAN /\ Padded(v)[j] \in BOOLEAN
  BY <1>2, ElementOfSeq
<1>5. \A j \in 1 .. Len(v) : Padded(v)[j] = v[j]
  BY <1>2, <1>3, <1>4, Zenon
<1> DEFINE w == Padded(v)
<1>6. w \in Seq(BOOLEAN) /\ Len(w) = Len(v) /\ \A j \in 1 .. Len(v) : w[j] = v[j]
  BY <1>2, <1>5
<1> HIDE DEF w
<1>7. w = v
  BY <1>6, SeqEqual
<1> QED BY <1>7 DEF w

\* Bit vectors.
LEMMA BitsRereads ==
  /\ DOMAIN Bits.ser = {v \in Seq(BOOLEAN) : Len(PackBits(v)) \in Unsigned(8)}
  /\ \A v \in DOMAIN Bits.ser : Rereads(Bits, v, Padded(v))
<1> DEFINE S0 == {v \in Seq(BOOLEAN) : Len(PackBits(v)) \in Unsigned(8)}
           Read(b) == Unpacked(deser_string(b))
<1>1. /\ DOMAIN Bits.ser = S0
      /\ \A v \in S0 : Bits.ser[v] = ser_string(PackBits(v))
      /\ \A b \in Bytes : Bits.deser[b] = Read(b)
  BY Zenon DEF Bits, Class
<1>2. ASSUME NEW v \in S0 PROVE Rereads(Bits, v, Padded(v))
  <2>1. v \in Seq(BOOLEAN) /\ Len(PackBits(v)) \in Unsigned(8)
    OBVIOUS
  <2>2. PackBits(v) \in Bytes
    BY <2>1, PackedBits
  <2>3. Padded(v) \in S0 /\ PackBits(Padded(v)) = PackBits(v)
    BY <2>1, PaddedBits, PaddedSame
  <2> DEFINE p == PackBits(v)
  <2>4. /\ ser_string(p) \in Bytes /\ ser_string(p) # <<>>
        /\ \A rest \in Bytes : deser_string(ser_string(p) \o rest) = Got(p, rest)
    BY <2>1, <2>2, StringReads
  <2>5. Padded(v) = UnpackBits(p)
    BY DEF Padded
  <2> HIDE DEF p
  <2>6. ASSUME NEW rest \in Bytes PROVE Read(ser_string(p) \o rest) = Got(Padded(v), rest)
    <3>1. deser_string(ser_string(p) \o rest) = <<p, rest>>
      BY <2>4 DEF Got
    <3>2. <<p, rest>> # Failed
      BY DEF Failed
    <3> QED BY <2>5, <3>1, <3>2 DEF Unpacked
  <2>7. \A rest \in Bytes : ser_string(p) \o rest \in Bytes
    BY <2>4, Join
  <2>8. Bits.ser[v] = ser_string(p) /\ Bits.ser[Padded(v)] = ser_string(p)
    BY <1>1, <2>3 DEF p
  <2> HIDE DEF S0, Read
  <2> QED BY <1>1, <2>3, <2>4, <2>6, <2>7, <2>8 DEF Rereads
<1> QED BY <1>1, <1>2

-----------------------------------------------------------------------------
(* Lists of transactions.                                                  *)

\* The transactions that are read.
RereadAll(l, ww) == [i \in 1 .. Len(l) |-> RereadTx(l[i], ww)]

\* A transaction that can be read, and one that is read as it is.
CanBeRead(tx)     == KeepsWitness(tx) /\ ~LooksExtended(tx)
ReadAsItIs(tx, ww) == IF ~ww \/ IsNull(tx.wit) THEN tx.wit = <<>> ELSE Len(tx.wit) = Len(tx.vin)

\* Witnesses for every input, or none, are read as they are.
LEMMA TxSame ==
  ASSUME NEW ww, NEW tx \in TxValues, ReadAsItIs(tx, ww)
  PROVE  RereadTx(tx, ww) = tx
<1>1. /\ tx.vin \in Seq(DOMAIN CTxIn.ser) /\ tx.wit \in Seq(DOMAIN CTxInWitness.ser)
      /\ tx = [nVersion |-> tx.nVersion, vin |-> tx.vin, vout |-> tx.vout, wit |-> tx.wit,
               nLockTime |-> tx.nLockTime]
  BY DEF TxValues, TxIns, Vector, Class
<1>2. (IF ww /\ ~IsNull(tx.wit) THEN FitWitness(tx) ELSE <<>>) = tx.wit
  <2>1. CASE ww /\ ~IsNull(tx.wit)
    <3>1. Len(tx.wit) = Len(tx.vin)
      BY <2>1 DEF ReadAsItIs
    <3> DEFINE n == Len(tx.vin)
    <3>2. n \in Nat /\ DOMAIN tx.vin = 1 .. n /\ tx.wit = [i \in 1 .. n |-> tx.wit[i]]
      BY <1>1, <3>1
    <3> HIDE DEF n
    <3>3. FitWitness(tx) = [i \in 1 .. n |-> tx.wit[i]]
      <4>1. FitWitness(tx) = [i \in 1 .. n |-> IF i <= n THEN tx.wit[i] ELSE <<>>]
        BY <3>1, <3>2 DEF FitWitness, n
      <4> QED BY <3>2, <4>1
    <3> QED BY <2>1, <3>2, <3>3
  <2>2. CASE ~(ww /\ ~IsNull(tx.wit))
    BY <2>2 DEF ReadAsItIs
  <2> QED BY <2>1, <2>2
<1>3. RereadTx(tx, ww) = [tx EXCEPT !.wit = tx.wit]
  BY <1>2, Zenon DEF RereadTx
<1> QED BY <1>1, <1>3

\* One transaction.
LEMMA TxRead ==
  ASSUME NEW ww, NEW tx \in DOMAIN CTransaction(ww).ser, CanBeRead(tx)
  PROVE  /\ Rereads(CTransaction(ww), tx, RereadTx(tx, ww))
         /\ ReadAsItIs(tx, ww) => RereadTx(tx, ww) = tx
<1>1. tx \in TxValues
  BY TxCodec
<1>2. ~(tx.vin = <<>> /\ tx.vout # <<>>) /\ KeepsWitness(tx)
  BY DEF CanBeRead, LooksExtended
<1> QED BY <1>1, <1>2, TxRereads, TxSame

\* A list of them.
LEMMA TxListRead ==
  ASSUME NEW ww, NEW l \in DOMAIN Vector(CTransaction(ww)).ser, \A i \in DOMAIN l : CanBeRead(l[i])
  PROVE  /\ Rereads(Vector(CTransaction(ww)), l, RereadAll(l, ww))
         /\ (\A i \in DOMAIN l : ReadAsItIs(l[i], ww)) => RereadAll(l, ww) = l
<1> DEFINE c == CTransaction(ww)
           w == RereadAll(l, ww)
           n == Len(l)
<1>1. l \in Seq(DOMAIN c.ser)
  BY DEF Vector, Class
<1> HIDE DEF c
<1>2. n \in Nat /\ DOMAIN l = 1 .. n /\ l = [i \in 1 .. n |-> l[i]] /\ \A i \in 1 .. n : l[i] \in DOMAIN c.ser
  BY <1>1
<1>3. \A i \in 1 .. n : /\ Rereads(c, l[i], RereadTx(l[i], ww))
                        /\ ReadAsItIs(l[i], ww) => RereadTx(l[i], ww) = l[i]
  BY <1>2, TxRead DEF c
<1>4. w = [i \in 1 .. n |-> RereadTx(l[i], ww)]
  BY DEF RereadAll
<1>5. \A i \in 1 .. n : RereadTx(l[i], ww) \in DOMAIN c.ser
  BY <1>3 DEF Rereads
<1> HIDE DEF w, n
<1>6. w \in Seq(DOMAIN c.ser) /\ Len(w) = n /\ \A i \in 1 .. n : w[i] = RereadTx(l[i], ww)
  BY <1>2, <1>4, <1>5
<1>7. Rereads(Vector(c), l, w)
  <2>1. \A i \in 1 .. Len(l) : Rereads(c, l[i], w[i])
    BY <1>3, <1>6 DEF n
  <2>2. l \in DOMAIN Vector(c).ser /\ Len(w) = Len(l)
    BY <1>6 DEF c, n
  <2> QED BY <1>6, <2>1, <2>2, VectorRereads
<1>8. ASSUME \A i \in DOMAIN l : ReadAsItIs(l[i], ww) PROVE w = l
  <2>1. \A i \in 1 .. n : RereadTx(l[i], ww) = l[i]
    BY <1>2, <1>3, <1>8
  <2> QED BY <1>2, <1>4, <2>1
<1> QED BY <1>7, <1>8 DEF c, w

\* A header in a headers message is read from the block it is written as.
LEMMA HeaderAsBlockExact == Exact(HeaderAsBlock)
<1> DEFINE l == << >>
           D == DOMAIN CBlockHeader.ser
           Read(b) == HeaderOf(CBlock(TRUE).deser[b])
<1>1. /\ DOMAIN HeaderAsBlock.ser = D
      /\ \A h \in D : HeaderAsBlock.ser[h] = CBlock(TRUE).ser[<<h, <<>> >>]
      /\ \A b \in Bytes : HeaderAsBlock.deser[b] = Read(b)
  BY Zenon DEF HeaderAsBlock, HeaderBy, Class
<1>2. Rereads(Vector(CTransaction(TRUE)), <<>>, <<>>)
  <2> DEFINE c == CTransaction(TRUE)
  <2> HIDE DEF c
  <2>1. <<>> \in DOMAIN Vector(c).ser /\ <<>> \in Seq(DOMAIN c.ser)
    BY EmptyVector, EmptySeq
  <2>2. \A i \in 1 .. Len(<<>>) : Rereads(c, <<>>[i], <<>>[i])
    OBVIOUS
  <2>3. Rereads(Vector(c), <<>>, <<>>)
    BY <2>1, <2>2, VectorRereads
  <2> QED BY <2>3 DEF c
<1>3. ASSUME NEW h \in D PROVE Rereads(HeaderAsBlock, h, h)
  <2> DEFINE v == <<h, <<>> >>
  <2>1. Rereads(CBlockHeader, h, h)
    BY SimpleClassesExact DEF Exact
  <2>2. Rereads(CBlock(TRUE), v, v)
    BY <1>2, <2>1, Fields2 DEF CBlock
  <2>3. v[1] = h
    OBVIOUS
  <2> HIDE DEF v
  <2>4. /\ CBlock(TRUE).ser[v] \in Bytes /\ CBlock(TRUE).ser[v] # <<>>
        /\ \A rest \in Bytes : CBlock(TRUE).deser[CBlock(TRUE).ser[v] \o rest] = Got(v, rest)
    BY <2>2, Zenon DEF Rereads
  <2> DEFINE s == CBlock(TRUE).ser[v]
  <2>5. HeaderAsBlock.ser[h] = s
    BY <1>1 DEF v
  <2> HIDE DEF s
  <2>6. s \in Bytes /\ s # <<>> /\ \A rest \in Bytes : s \o rest \in Bytes
    BY <2>4, Join DEF s
  <2>7. ASSUME NEW rest \in Bytes PROVE Read(s \o rest) = Got(h, rest)
    <3>1. CBlock(TRUE).deser[s \o rest] = <<v, rest>>
      BY <2>4, Zenon DEF s, Got
    <3>2. <<v, rest>> # Failed
      BY DEF Failed
    <3>3. Read(s \o rest) = Got(<<v, rest>>[1][1], <<v, rest>>[2])
      BY <3>1, <3>2, Zenon DEF HeaderOf
    <3> QED BY <2>3, <3>3
  <2> HIDE DEF Read
  <2> QED BY <1>1, <2>5, <2>6, <2>7 DEF Rereads
<1> HIDE DEF D, Read
<1> QED BY <1>1, <1>3 DEF Exact

-----------------------------------------------------------------------------
(* Messages.                                                               *)

\* The message types.
LEMMA MessageTypes ==
  /\ DOMAIN HandshakeMessages = {"version", "verack"}
  /\ DOMAIN GossipMessages =
          {"addr", "addrv2", "sendaddrv2", "inv", "getdata", "getblocks", "tx", "wtxidrelay"}
  /\ DOMAIN BlockMessages =
          {"no_witness_tx", "block", "no_witness_block", "getaddr", "ping", "pong", "mempool", "notfound"}
  /\ DOMAIN HeaderMessages = {"sendheaders", "getheaders", "headers", "merkleblock", "filterload"}
  /\ DOMAIN FilterAndCompactMessages = {"filteradd", "filterclear", "feefilter", "sendcmpct", "cmpctblock",
                                        "cmpctblock2", "getblocktxn", "blocktxn", "no_witness_blocktxn"}
  /\ DOMAIN FilterHeaderMessages = {"getcfilters", "cfilter", "getcfheaders", "cfheaders"}
  /\ DOMAIN CheckpointMessages = {"getcfcheckpt", "cfcheckpt", "sendtxrcncl"}
<1>1. DOMAIN HandshakeMessages = {"version", "verack"}
  BY DEF HandshakeMessages
<1>2. DOMAIN GossipMessages =
        {"addr", "addrv2", "sendaddrv2", "inv", "getdata", "getblocks", "tx", "wtxidrelay"}
  BY DEF GossipMessages
<1>3. DOMAIN BlockMessages =
        {"no_witness_tx", "block", "no_witness_block", "getaddr", "ping", "pong", "mempool", "notfound"}
  BY DEF BlockMessages
<1>4. DOMAIN HeaderMessages = {"sendheaders", "getheaders", "headers", "merkleblock", "filterload"}
  BY DEF HeaderMessages
<1>5. DOMAIN FilterAndCompactMessages = {"filteradd", "filterclear", "feefilter", "sendcmpct", "cmpctblock",
                                         "cmpctblock2", "getblocktxn", "blocktxn", "no_witness_blocktxn"}
  BY DEF FilterAndCompactMessages
<1>6. DOMAIN FilterHeaderMessages = {"getcfilters", "cfilter", "getcfheaders", "cfheaders"}
  BY DEF FilterHeaderMessages
<1>7. DOMAIN CheckpointMessages = {"getcfcheckpt", "cfcheckpt", "sendtxrcncl"}
  BY DEF CheckpointMessages
<1> QED BY <1>1, <1>2, <1>3, <1>4, <1>5, <1>6, <1>7

\* The layout of a message is that of its group.
LEMMA LayoutOfGroup ==
  /\ DOMAIN Layouts = UNION {DOMAIN HandshakeMessages, DOMAIN GossipMessages, DOMAIN BlockMessages,
                             DOMAIN HeaderMessages, DOMAIN FilterAndCompactMessages,
                             DOMAIN FilterHeaderMessages, DOMAIN CheckpointMessages}
  /\ \A type \in DOMAIN HandshakeMessages : Layouts[type] = HandshakeMessages[type]
  /\ \A type \in DOMAIN GossipMessages : Layouts[type] = GossipMessages[type]
  /\ \A type \in DOMAIN BlockMessages : Layouts[type] = BlockMessages[type]
  /\ \A type \in DOMAIN HeaderMessages : Layouts[type] = HeaderMessages[type]
  /\ \A type \in DOMAIN FilterAndCompactMessages : Layouts[type] = FilterAndCompactMessages[type]
  /\ \A type \in DOMAIN FilterHeaderMessages : Layouts[type] = FilterHeaderMessages[type]
  /\ \A type \in DOMAIN CheckpointMessages : Layouts[type] = CheckpointMessages[type]
<1> DEFINE maps == <<HandshakeMessages, GossipMessages, BlockMessages, HeaderMessages,
                     FilterAndCompactMessages, FilterHeaderMessages, CheckpointMessages>>
<1>1. /\ DOMAIN maps = 1 .. 7
      /\ maps[1] = HandshakeMessages /\ maps[2] = GossipMessages /\ maps[3] = BlockMessages
      /\ maps[4] = HeaderMessages /\ maps[5] = FilterAndCompactMessages
      /\ maps[6] = FilterHeaderMessages /\ maps[7] = CheckpointMessages
  OBVIOUS
<1>2. Layouts = Entries(maps)
  BY DEF Layouts
<1> HIDE DEF maps
<1>3. ASSUME NEW i \in 1 .. 7, NEW j \in 1 .. 7, NEW key \in DOMAIN maps[i], key \in DOMAIN maps[j] PROVE i = j
  BY <1>1, <1>3, MessageTypes, SMTT(60)
<1>4. DOMAIN Layouts = UNION {DOMAIN maps[i] : i \in 1 .. 7}
  BY <1>1, <1>2 DEF Entries
<1>5. ASSUME NEW i \in 1 .. 7, NEW key \in DOMAIN maps[i] PROVE Layouts[key] = maps[i][key]
  <2>1. Layouts[key] = maps[CHOOSE j \in DOMAIN maps : key \in DOMAIN maps[j]][key]
    <3>1. key \in DOMAIN Layouts
      BY <1>4
    <3> QED BY <1>1, <1>2, <1>4, <3>1 DEF Entries
  <2> DEFINE c == CHOOSE j \in DOMAIN maps : key \in DOMAIN maps[j]
  <2>2. c \in 1 .. 7 /\ key \in DOMAIN maps[c]
    BY <1>1
  <2> HIDE DEF c
  <2>3. c = i
    BY <1>3, <2>2
  <2> QED BY <2>1, <2>3 DEF c
<1>6. UNION {DOMAIN maps[i] : i \in 1 .. 7}
        = UNION {DOMAIN HandshakeMessages, DOMAIN GossipMessages, DOMAIN BlockMessages,
                 DOMAIN HeaderMessages, DOMAIN FilterAndCompactMessages,
                 DOMAIN FilterHeaderMessages, DOMAIN CheckpointMessages}
  <2>1. {DOMAIN maps[i] : i \in 1 .. 7}
          = {DOMAIN maps[1], DOMAIN maps[2], DOMAIN maps[3], DOMAIN maps[4], DOMAIN maps[5],
             DOMAIN maps[6], DOMAIN maps[7]}
    OBVIOUS
  <2> QED BY <1>1, <2>1, Zenon
<1>7. /\ \A key \in DOMAIN maps[1] : Layouts[key] = maps[1][key]
      /\ \A key \in DOMAIN maps[2] : Layouts[key] = maps[2][key]
      /\ \A key \in DOMAIN maps[3] : Layouts[key] = maps[3][key]
      /\ \A key \in DOMAIN maps[4] : Layouts[key] = maps[4][key]
      /\ \A key \in DOMAIN maps[5] : Layouts[key] = maps[5][key]
      /\ \A key \in DOMAIN maps[6] : Layouts[key] = maps[6][key]
      /\ \A key \in DOMAIN maps[7] : Layouts[key] = maps[7][key]
  BY <1>5
<1> QED BY <1>1, <1>4, <1>6, <1>7, Zenon

\* What the reader of message makes of v is w, to the last byte, and w is written as v is.
Carries(c, v, w) ==
  /\ v \in DOMAIN c.ser /\ w \in DOMAIN c.ser
  /\ c.ser[w] = c.ser[v] /\ c.deser[c.ser[v]] = Got(w, <<>>)

\* A message is carried when it is read as something written the same, and as itself when it is faithful.
Carried(type, v) ==
  \E w : Carries(Layouts[type], v, w) /\ (Faithful(type, v) => w = v)

\* Nothing behind the bytes of a message.
LEMMA RereadsCarries == ASSUME NEW c, NEW v, NEW w, Rereads(c, v, w) PROVE Carries(c, v, w)
<1> DEFINE s == c.ser[v]
<1>1. s \in Bytes /\ \A rest \in Bytes : c.deser[s \o rest] = Got(w, rest)
  BY DEF Rereads
<1> HIDE DEF s
<1>2. <<>> \in Bytes /\ s \o <<>> = s
  BY <1>1, EmptySeq, ConcatEmptySeq DEF Bytes
<1>3. c.deser[s \o <<>>] = Got(w, <<>>)
  BY <1>1, <1>2
<1>4. c.deser[s] = Got(w, <<>>)
  BY <1>2, <1>3
<1> QED BY <1>4 DEF s, Rereads, Carries

\* A message that is read as it was written.
LEMMA ExactCarried ==
  ASSUME NEW type, NEW v \in DOMAIN Layouts[type].ser, Exact(Layouts[type])
  PROVE  Carried(type, v)
<1>1. Rereads(Layouts[type], v, v)
  BY DEF Exact
<1>2. Carries(Layouts[type], v, v)
  BY <1>1, RereadsCarries
<1> QED BY <1>2 DEF Carried

\* A message without fields.
LEMMA EmptyCarried ==
  ASSUME NEW type, Layouts[type] = Empty, NEW v \in DOMAIN Layouts[type].ser
  PROVE  Carried(type, v)
<1>1. /\ DOMAIN Empty.ser = {<<>>} /\ Empty.ser[<<>>] = <<>>
      /\ \A b \in Bytes : Empty.deser[b] = Got(<<>>, b)
  BY DEF Empty, Class
<1>2. <<>> \in Bytes
  BY EmptySeq DEF Bytes
<1>3. Empty.deser[<<>>] = Got(<<>>, <<>>)
  BY <1>1, <1>2
<1>4. v = <<>>
  BY <1>1
<1>5. Carries(Layouts[type], v, v)
  BY <1>1, <1>3, <1>4 DEF Carries
<1> QED BY <1>5 DEF Carried

\* The messages that have no fields.
EmptyTypes == {"verack", "sendaddrv2", "wtxidrelay", "getaddr", "mempool", "sendheaders", "filterclear"}

\* The messages that are read as they were written, whatever they carry.
ExactTypes == {"version", "addr", "inv", "getdata", "getblocks", "ping", "pong", "notfound", "getheaders",
               "headers", "filterload", "filteradd", "feefilter", "sendcmpct", "getblocktxn", "getcfilters",
               "cfilter", "getcfheaders", "cfheaders", "getcfcheckpt", "cfcheckpt", "sendtxrcncl"}

\* Every other message.
OtherTypes == {"addrv2", "tx", "no_witness_tx", "block", "no_witness_block", "merkleblock", "cmpctblock",
               "cmpctblock2", "blocktxn", "no_witness_blocktxn"}

\* These are all.
LEMMA AllTypes == DOMAIN Layouts \subseteq EmptyTypes \cup ExactTypes \cup OtherTypes
BY LayoutOfGroup, MessageTypes DEF EmptyTypes, ExactTypes, OtherTypes

\* The layout of a message without fields.
LEMMA EmptyLayouts == \A type \in EmptyTypes : Layouts[type] = Empty
<1>1. Layouts["verack"] = Empty
  BY LayoutOfGroup, MessageTypes DEF HandshakeMessages
<1>2. Layouts["sendaddrv2"] = Empty /\ Layouts["wtxidrelay"] = Empty
  BY LayoutOfGroup, MessageTypes DEF GossipMessages
<1>3. Layouts["getaddr"] = Empty /\ Layouts["mempool"] = Empty
  BY LayoutOfGroup, MessageTypes DEF BlockMessages
<1>4. Layouts["sendheaders"] = Empty
  BY LayoutOfGroup, MessageTypes DEF HeaderMessages
<1>5. Layouts["filterclear"] = Empty
  BY LayoutOfGroup, MessageTypes DEF FilterAndCompactMessages
<1> QED BY <1>1, <1>2, <1>3, <1>4, <1>5 DEF EmptyTypes

\* The layouts that read what they wrote.
LEMMA ExactLayouts == \A type \in ExactTypes : Exact(Layouts[type])
<1>1. Exact(Layouts["version"])
  <2>1. Layouts["version"] = Fields(<<SInt(4), UInt(8), SInt(8), AddrV1(FALSE), AddrV1(FALSE), UInt(8),
                                      String, SInt(4), Relay>>)
    BY LayoutOfGroup, MessageTypes DEF HandshakeMessages
  <2>2. Exact(AddrV1(FALSE))
    <3>1. PICK ww \in BOOLEAN : ww = FALSE
      OBVIOUS
    <3> QED BY <3>1, AddrV1Exact
  <2>3. PICK t : t = AddrV1(FALSE)
    OBVIOUS
  <2>4. Exact(t) /\ Exact(SInt(4)) /\ Exact(UInt(8)) /\ Exact(SInt(8)) /\ Exact(String) /\ Exact(Relay)
    BY <2>2, <2>3, IntsExact, StringExact, RelayExact
  <2>5. Exact(Fields(<<SInt(4), UInt(8), SInt(8), t, t, UInt(8), String, SInt(4), Relay>>))
    BY <2>4, FieldsExact9, Zenon
  <2> QED BY <2>1, <2>3, <2>5
<1>2. Exact(Layouts["addr"])
  <2>1. Layouts["addr"] = Vector(AddrV1(TRUE))
    BY LayoutOfGroup, MessageTypes DEF GossipMessages
  <2>2. Exact(AddrV1(TRUE))
    <3>1. PICK ww \in BOOLEAN : ww = TRUE
      OBVIOUS
    <3> QED BY <3>1, AddrV1Exact
  <2> QED BY <2>1, <2>2, VectorExact
<1>3. Exact(Layouts["inv"]) /\ Exact(Layouts["getdata"]) /\ Exact(Layouts["notfound"])
  <2>1. Layouts["inv"] = Vector(CInv) /\ Layouts["getdata"] = Vector(CInv)
    BY LayoutOfGroup, MessageTypes DEF GossipMessages
  <2>2. Layouts["notfound"] = Vector(CInv)
    BY LayoutOfGroup, MessageTypes DEF BlockMessages
  <2> QED BY <2>1, <2>2, SimpleClassesExact, VectorExact
<1>4. Exact(Layouts["getblocks"]) /\ Exact(Layouts["getheaders"])
  <2>1. Layouts["getblocks"] = Fields(<<CBlockLocator, UInt256>>)
    BY LayoutOfGroup, MessageTypes DEF GossipMessages
  <2>2. Layouts["getheaders"] = Fields(<<CBlockLocator, UInt256>>)
    BY LayoutOfGroup, MessageTypes DEF HeaderMessages
  <2> QED BY <2>1, <2>2, SimpleClassesExact, UInt256Exact, FieldsExact2
<1>5. Exact(Layouts["ping"]) /\ Exact(Layouts["pong"])
  <2>1. Layouts["ping"] = UInt(8) /\ Layouts["pong"] = UInt(8)
    BY LayoutOfGroup, MessageTypes DEF BlockMessages
  <2> QED BY <2>1, IntsExact
<1>6. Exact(Layouts["headers"])
  <2>1. Layouts["headers"] = Vector(HeaderAsBlock)
    BY LayoutOfGroup, MessageTypes DEF HeaderMessages
  <2> QED BY <2>1, HeaderAsBlockExact, VectorExact
<1>7. Exact(Layouts["filterload"])
  <2>1. Layouts["filterload"] = Fields(<<String, UInt(4), UInt(4), UInt(1)>>)
    BY LayoutOfGroup, MessageTypes DEF HeaderMessages
  <2> QED BY <2>1, StringExact, IntsExact, FieldsExact4
<1>8. Exact(Layouts["filteradd"]) /\ Exact(Layouts["feefilter"])
  <2>1. Layouts["filteradd"] = String /\ Layouts["feefilter"] = UInt(8)
    BY LayoutOfGroup, MessageTypes DEF FilterAndCompactMessages
  <2> QED BY <2>1, StringExact, IntsExact
<1>9. Exact(Layouts["sendcmpct"]) /\ Exact(Layouts["getblocktxn"])
  <2>1. Layouts["sendcmpct"] = Fields(<<UInt(1), UInt(8)>>)
    BY LayoutOfGroup, MessageTypes DEF FilterAndCompactMessages
  <2>2. Layouts["getblocktxn"] = BlockTransactionsRequest
    BY LayoutOfGroup, MessageTypes DEF FilterAndCompactMessages
  <2> QED BY <2>1, <2>2, SimpleClassesExact, IntsExact, FieldsExact2
<1>10. Exact(Layouts["getcfilters"]) /\ Exact(Layouts["getcfheaders"])
  <2>1. Layouts["getcfilters"] = Fields(<<UInt(1), UInt(4), UInt256>>)
    BY LayoutOfGroup, MessageTypes DEF FilterHeaderMessages
  <2>2. Layouts["getcfheaders"] = Fields(<<UInt(1), UInt(4), UInt256>>)
    BY LayoutOfGroup, MessageTypes DEF FilterHeaderMessages
  <2> QED BY <2>1, <2>2, IntsExact, UInt256Exact, FieldsExact3
<1>11. Exact(Layouts["cfilter"])
  <2>1. Layouts["cfilter"] = Fields(<<UInt(1), UInt256, String>>)
    BY LayoutOfGroup, MessageTypes DEF FilterHeaderMessages
  <2> QED BY <2>1, IntsExact, UInt256Exact, StringExact, FieldsExact3
<1>12. Exact(Vector(UInt256))
  BY UInt256Exact, VectorExact
<1>13. Exact(Layouts["cfheaders"])
  <2>1. Layouts["cfheaders"] = Fields(<<UInt(1), UInt256, UInt256, Vector(UInt256)>>)
    BY LayoutOfGroup, MessageTypes DEF FilterHeaderMessages
  <2> QED BY <1>12, <2>1, IntsExact, UInt256Exact, FieldsExact4
<1>14. Exact(Layouts["getcfcheckpt"])
  <2>1. Layouts["getcfcheckpt"] = Fields(<<UInt(1), UInt256>>)
    BY LayoutOfGroup, MessageTypes DEF CheckpointMessages
  <2> QED BY <2>1, IntsExact, UInt256Exact, FieldsExact2
<1>15. Exact(Layouts["cfcheckpt"])
  <2>1. Layouts["cfcheckpt"] = Fields(<<UInt(1), UInt256, Vector(UInt256)>>)
    BY LayoutOfGroup, MessageTypes DEF CheckpointMessages
  <2> QED BY <1>12, <2>1, IntsExact, UInt256Exact, FieldsExact3
<1>16. Exact(Layouts["sendtxrcncl"])
  <2>1. Layouts["sendtxrcncl"] = Fields(<<UInt(4), UInt(8)>>)
    BY LayoutOfGroup, MessageTypes DEF CheckpointMessages
  <2> QED BY <2>1, IntsExact, FieldsExact2
<1> QED BY <1>1, <1>2, <1>3, <1>4, <1>5, <1>6, <1>7, <1>8, <1>9, <1>10, <1>11, <1>13, <1>14, <1>15, <1>16
        DEF ExactTypes

\* A message that is read as something written the same.
LEMMA RereadsCarried ==
  ASSUME NEW type, NEW v, NEW w, Rereads(Layouts[type], v, w), Faithful(type, v) => w = v
  PROVE  Carried(type, v)
BY RereadsCarries DEF Carried

\* The transactions of a message can be read.
CanBeReadAll(type, v) ==
  /\ Readable(type, v)
  /\ \A i \in DOMAIN Transactions(type, v) : KeepsWitness(Transactions(type, v)[i])

\* Each of them can, and is read as it is when the message is faithful.
LEMMA EachTransaction ==
  ASSUME NEW type, NEW v, CanBeReadAll(type, v), NEW l, Transactions(type, v) = l,
         NEW ww, DropsWitness(type) <=> ~ww
  PROVE  /\ \A i \in DOMAIN l : CanBeRead(l[i])
         /\ Faithful(type, v) => \A i \in DOMAIN l : ReadAsItIs(l[i], ww)
<1>1. \A i \in DOMAIN l : CanBeRead(l[i])
  BY DEF CanBeReadAll, Readable, CanBeRead
<1>2. ASSUME Faithful(type, v), NEW i \in DOMAIN l PROVE ReadAsItIs(l[i], ww)
  <2>1. IF DropsWitness(type) \/ IsNull(l[i].wit) THEN l[i].wit = <<>> ELSE Len(l[i].wit) = Len(l[i].vin)
    BY <1>2, Zenon DEF Faithful
  <2> QED BY <2>1, Zenon DEF ReadAsItIs
<1> QED BY <1>1, <1>2, Zenon

\* A transaction is carried.
LEMMA TxCarried ==
  ASSUME NEW type, NEW ww, Layouts[type] = CTransaction(ww), DropsWitness(type) <=> ~ww,
         NEW v \in DOMAIN Layouts[type].ser, Transactions(type, v) = <<v>>, CanBeReadAll(type, v)
  PROVE  Carried(type, v)
<1>1. PICK l : l = <<v>>
  OBVIOUS
<1>2. DOMAIN l = {1} /\ l[1] = v
  BY <1>1
<1>3. /\ \A i \in DOMAIN l : CanBeRead(l[i])
      /\ Faithful(type, v) => \A i \in DOMAIN l : ReadAsItIs(l[i], ww)
  BY <1>1, EachTransaction, Zenon
<1>4. CanBeRead(v) /\ (Faithful(type, v) => ReadAsItIs(v, ww))
  BY <1>2, <1>3
<1>5. /\ Rereads(CTransaction(ww), v, RereadTx(v, ww))
      /\ ReadAsItIs(v, ww) => RereadTx(v, ww) = v
  BY <1>4, TxRead
<1> QED BY <1>4, <1>5, RereadsCarried

\* A message that ends in a list of transactions is carried.
LEMMA TxListCarried ==
  ASSUME NEW type, NEW ww, NEW c, Layouts[type] = Fields(<<c, Vector(CTransaction(ww))>>), Exact(c),
         DropsWitness(type) <=> ~ww,
         NEW v \in DOMAIN Layouts[type].ser, Transactions(type, v) = v[2], CanBeReadAll(type, v)
  PROVE  Carried(type, v)
<1>1. PICK t : t = Vector(CTransaction(ww))
  OBVIOUS
<1>2. v \in (DOMAIN c.ser) \X (DOMAIN t.ser)
  BY <1>1, FieldsExact2
<1>3. PICK x \in DOMAIN c.ser, l \in DOMAIN t.ser : v = <<x, l>>
  BY <1>2
<1>4. v[2] = l
  BY <1>3
<1>5. /\ \A i \in DOMAIN l : CanBeRead(l[i])
      /\ Faithful(type, v) => \A i \in DOMAIN l : ReadAsItIs(l[i], ww)
  BY <1>4, EachTransaction, Zenon
<1>6. /\ Rereads(t, l, RereadAll(l, ww))
      /\ Faithful(type, v) => RereadAll(l, ww) = l
  BY <1>1, <1>5, TxListRead
<1>7. Rereads(c, x, x)
  BY DEF Exact
<1> DEFINE w == RereadAll(l, ww)
<1>8. Rereads(t, l, w) /\ (Faithful(type, v) => w = l)
  BY <1>6
<1> HIDE DEF w
<1>9. Rereads(Layouts[type], v, <<x, w>>)
  BY <1>1, <1>3, <1>7, <1>8, Fields2
<1>10. Faithful(type, v) => <<x, w>> = v
  BY <1>3, <1>8
<1> QED BY <1>9, <1>10, RereadsCarried

\* An address with its own checksum is read as it is.
LEMMA OwnChecksumSame ==
  ASSUME NEW a \in AddrV2Values, a.net = NET_TORV3 => a.ip[33] = OnionChecksum(Prefix(a.ip, 32))
  PROVE  OwnChecksum(a) = a
<1>1. CASE a.net = NET_TORV3
  <2>1. a.ip \in Bytes /\ Len(a.ip) = 33
    <3>1. a.ip \in Bytes /\ a.net = 4 /\ Len(a.ip) = ADDRV2_ADDRESS_LENGTH[a.net] + 1
      BY <1>1 DEF AddrV2Values, Addresses, NET_TORV3
    <3>2. ADDRV2_ADDRESS_LENGTH[4] = 32
      BY Networks
    <3> QED BY <3>1, <3>2
  <2> DEFINE s == a.ip
             x == Prefix(s, 32)
  <2>2. x = SubSeq(s, 1, 32)
    BY <2>1 DEF Prefix
  <2>3. s = Append(SubSeq(s, 1, 32), s[33])
    <3>1. Len(s) = 33 /\ s \in Seq(Byte)
      BY <2>1 DEF Bytes
    <3> HIDE DEF s
    <3>2. PICK n \in Nat : n = 33
      OBVIOUS
    <3>3. PICK k \in Nat : k = 32
      OBVIOUS
    <3>4. PICK u : u = SubSeq(s, 1, k)
      OBVIOUS
    <3>5. u \in Seq(Byte) /\ s[n] \in Byte
      <4>1. \A i \in 1 .. n : s[i] \in Byte
        BY <3>1, <3>2, ElementOfSeq
      <4>2. n \in 1 .. n /\ \A i \in 1 .. k : i \in 1 .. n
        BY <3>2, <3>3
      <4>3. \A i \in 1 .. k : s[i] \in Byte
        BY <4>1, <4>2
      <4>4. 1 \in Int /\ k \in Int
        OBVIOUS
      <4>5. u \in Seq(Byte)
        BY <3>4, <4>3, <4>4, SubSeqProperties
      <4> QED BY <4>1, <4>2, <4>5
    <3>6. s = SubSeq(s, 1, n) /\ 1 \in 1 .. Len(s) /\ n \in 1 .. Len(s) /\ n - 1 = k
      BY <3>1, <3>2, <3>3, SubSeqFull
    <3>7. SubSeq(s, 1, n) = SubSeq(s, 1, n - 1) \o <<s[n]>>
      BY <3>1, <3>6, SubSeqRecursiveSecond
    <3>8. Append(u, s[n]) = u \o <<s[n]>>
      BY <3>5, AppendIsConcat
    <3>9. s = Append(u, s[n])
      BY <3>4, <3>6, <3>7, <3>8
    <3> QED BY <3>2, <3>3, <3>4, <3>9
  <2>4. a.ip = Append(x, OnionChecksum(x))
    BY <1>1, <2>2, <2>3
  <2>5. OwnChecksum(a) = [a EXCEPT !.ip = a.ip]
    BY <1>1, <2>4 DEF OwnChecksum
  <2>6. a = [time |-> a.time, services |-> a.services, net |-> a.net, ip |-> a.ip, port |-> a.port]
    BY DEF AddrV2Values, Addresses
  <2> QED BY <2>5, <2>6
<1>2. CASE a.net # NET_TORV3
  <2>1. a = [time |-> a.time, services |-> a.services, net |-> a.net, ip |-> a.ip, port |-> a.port]
    BY DEF AddrV2Values, Addresses
  <2>2. OwnChecksum(a) = [a EXCEPT !.ip = a.ip]
    BY <1>2 DEF OwnChecksum
  <2> QED BY <2>1, <2>2
<1> QED BY <1>1, <1>2

\* addrv2 is carried.
LEMMA AddrV2Carried == ASSUME NEW v \in DOMAIN Layouts["addrv2"].ser PROVE Carried("addrv2", v)
<1>1. Layouts["addrv2"] = Vector(AddrV2)
  BY LayoutOfGroup, MessageTypes DEF GossipMessages
<1> DEFINE n == Len(v)
           w == [i \in 1 .. n |-> OwnChecksum(v[i])]
<1>2. v \in DOMAIN Vector(AddrV2).ser
  BY <1>1
<1>3. v \in Seq(AddrV2Values)
  BY <1>2, AddrV2Rereads DEF Vector, Class
<1>4. n \in Nat /\ DOMAIN v = 1 .. n /\ v = [i \in 1 .. n |-> v[i]] /\ \A i \in 1 .. n : v[i] \in AddrV2Values
  BY <1>3
<1>5. \A i \in 1 .. n : Rereads(AddrV2, v[i], OwnChecksum(v[i]))
  BY <1>4, AddrV2Rereads
<1>6. \A i \in 1 .. n : OwnChecksum(v[i]) \in DOMAIN AddrV2.ser
  BY <1>5 DEF Rereads
<1>7. w \in Seq(DOMAIN AddrV2.ser) /\ Len(w) = n /\ \A i \in 1 .. n : w[i] = OwnChecksum(v[i])
  BY <1>4, <1>6
<1>8. Faithful("addrv2", v) => w = v
  <2> SUFFICES ASSUME Faithful("addrv2", v) PROVE w = v
    OBVIOUS
  <2>1. \A i \in 1 .. n : v[i].net = NET_TORV3 => v[i].ip[33] = OnionChecksum(Prefix(v[i].ip, 32))
    BY <1>4, Zenon DEF Faithful
  <2>2. \A i \in 1 .. n : OwnChecksum(v[i]) = v[i]
    BY <1>4, <2>1, OwnChecksumSame
  <2> QED BY <1>4, <2>2
<1> HIDE DEF w
<1>9. Rereads(Vector(AddrV2), v, w)
  <2>1. \A i \in 1 .. Len(v) : Rereads(AddrV2, v[i], w[i])
    BY <1>5, <1>7
  <2> QED BY <1>2, <1>7, <2>1, VectorRereads
<1> QED BY <1>1, <1>8, <1>9, RereadsCarried

\* merkleblock is carried.
LEMMA MerkleCarried == ASSUME NEW v \in DOMAIN Layouts["merkleblock"].ser PROVE Carried("merkleblock", v)
<1>1. Layouts["merkleblock"] = Fields(<<CBlockHeader, CPartialMerkleTree>>)
  BY LayoutOfGroup, MessageTypes DEF HeaderMessages, CMerkleBlock
<1>2. Exact(Vector(UInt256)) /\ Exact(SInt(4)) /\ Exact(CBlockHeader)
  BY UInt256Exact, VectorExact, IntsExact, SimpleClassesExact
<1>3. v \in (DOMAIN CBlockHeader.ser) \X (DOMAIN CPartialMerkleTree.ser)
  BY <1>1, FieldsExact2
<1>4. PICK h \in DOMAIN CBlockHeader.ser, m \in DOMAIN CPartialMerkleTree.ser : v = <<h, m>>
  BY <1>3
<1>5. m \in (DOMAIN SInt(4).ser) \X (DOMAIN Vector(UInt256).ser) \X (DOMAIN Bits.ser)
  BY FieldsExact3 DEF CPartialMerkleTree
<1>6. PICK x \in DOMAIN SInt(4).ser, l \in DOMAIN Vector(UInt256).ser, b \in DOMAIN Bits.ser : m = <<x, l, b>>
  BY <1>5
<1>7. Rereads(CBlockHeader, h, h) /\ Rereads(SInt(4), x, x) /\ Rereads(Vector(UInt256), l, l)
  BY <1>2 DEF Exact
<1>8. Rereads(Bits, b, Padded(b)) /\ b \in Seq(BOOLEAN)
  BY BitsRereads
<1>9. Faithful("merkleblock", v) => Padded(b) = b
  <2>1. v[2][3] = b
    BY <1>4, <1>6
  <2>2. Faithful("merkleblock", v) => Len(b) % ByteBits = 0
    BY <2>1, Zenon DEF Faithful
  <2> QED BY <1>8, <2>2, WholeBytes
<1>10. PICK p : p = Padded(b)
  OBVIOUS
<1>11. Rereads(CPartialMerkleTree, m, <<x, l, p>>)
  BY <1>6, <1>7, <1>8, <1>10, Fields3 DEF CPartialMerkleTree
<1>12. PICK u : u = <<x, l, p>>
  OBVIOUS
<1>13. Rereads(Layouts["merkleblock"], v, <<h, u>>)
  BY <1>1, <1>4, <1>7, <1>11, <1>12, Fields2
<1>14. Faithful("merkleblock", v) => <<h, u>> = v
  BY <1>4, <1>6, <1>9, <1>10, <1>12
<1> QED BY <1>13, <1>14, RereadsCarried

\* The transactions of a compact block that are sent along, read.
RereadPrefilled(l, ww) == [i \in 1 .. Len(l) |-> <<l[i][1], RereadTx(l[i][2], ww)>>]

\* They are read as their indices and transactions are.
LEMMA PrefilledRead ==
  ASSUME NEW ww, NEW l \in DOMAIN Vector(PrefilledTransaction(ww)).ser,
         \A i \in DOMAIN l : CanBeRead(l[i][2])
  PROVE  /\ Rereads(Vector(PrefilledTransaction(ww)), l, RereadPrefilled(l, ww))
         /\ (\A i \in DOMAIN l : ReadAsItIs(l[i][2], ww)) => RereadPrefilled(l, ww) = l
<1> DEFINE c == PrefilledTransaction(ww)
           w == RereadPrefilled(l, ww)
           n == Len(l)
           R(p) == <<p[1], RereadTx(p[2], ww)>>
<1>1. l \in Seq(DOMAIN c.ser)
  BY DEF Vector, Class
<1> HIDE DEF c
<1>2. n \in Nat /\ DOMAIN l = 1 .. n /\ l = [i \in 1 .. n |-> l[i]] /\ \A i \in 1 .. n : l[i] \in DOMAIN c.ser
  BY <1>1
<1>3. ASSUME NEW i \in 1 .. n
      PROVE  Rereads(c, l[i], R(l[i])) /\ (ReadAsItIs(l[i][2], ww) => R(l[i]) = l[i])
  <2>1. l[i] \in (DOMAIN Compact.ser) \X (DOMAIN CTransaction(ww).ser)
    BY <1>2, FieldsExact2 DEF c, PrefilledTransaction
  <2>2. PICK x \in DOMAIN Compact.ser, tx \in DOMAIN CTransaction(ww).ser : l[i] = <<x, tx>>
    BY <2>1
  <2>3. l[i][1] = x /\ l[i][2] = tx
    BY <2>2
  <2>4. CanBeRead(tx)
    BY <1>2, <2>3
  <2>5. /\ Rereads(CTransaction(ww), tx, RereadTx(tx, ww))
        /\ ReadAsItIs(tx, ww) => RereadTx(tx, ww) = tx
    BY <2>4, TxRead
  <2>6. Rereads(Compact, x, x)
    BY CompactExact DEF Exact
  <2>7. PICK u : u = RereadTx(tx, ww)
    OBVIOUS
  <2>8. Rereads(c, <<x, tx>>, <<x, u>>)
    BY <2>5, <2>6, <2>7, Fields2 DEF c, PrefilledTransaction
  <2>9. R(l[i]) = <<x, u>>
    BY <2>3, <2>7
  <2> QED BY <2>2, <2>3, <2>5, <2>7, <2>8, <2>9
<1>4. w = [i \in 1 .. n |-> R(l[i])]
  BY DEF RereadPrefilled
<1> HIDE DEF R, n, w
<1>5. \A i \in 1 .. n : R(l[i]) \in DOMAIN c.ser
  BY <1>3 DEF Rereads
<1>6. w \in Seq(DOMAIN c.ser) /\ Len(w) = n /\ \A i \in 1 .. n : w[i] = R(l[i])
  BY <1>2, <1>4, <1>5
<1>7. Rereads(Vector(c), l, w)
  <2>1. \A i \in 1 .. Len(l) : Rereads(c, l[i], w[i])
    BY <1>3, <1>6 DEF n
  <2>2. l \in DOMAIN Vector(c).ser /\ Len(w) = Len(l)
    BY <1>6 DEF c, n
  <2> QED BY <1>6, <2>1, <2>2, VectorRereads
<1>8. ASSUME \A i \in DOMAIN l : ReadAsItIs(l[i][2], ww) PROVE w = l
  <2>1. \A i \in 1 .. n : R(l[i]) = l[i]
    BY <1>2, <1>3, <1>8
  <2> QED BY <1>2, <1>4, <2>1
<1> QED BY <1>7, <1>8 DEF c, w

\* A compact block is carried.
LEMMA CompactBlockCarried ==
  ASSUME NEW type, NEW ww, Layouts[type] = P2PHeaderAndShortIDs(ww), DropsWitness(type) <=> ~ww,
         NEW v \in DOMAIN Layouts[type].ser, CanBeReadAll(type, v),
         Transactions(type, v) = [i \in DOMAIN v[4] |-> v[4][i][2]]
  PROVE  Carried(type, v)
<1>1. PICK t : t = Vector(PrefilledTransaction(ww))
  OBVIOUS
<1>2. PICK ids : ids = Vector(UInt(6))
  OBVIOUS
<1>3. Layouts[type] = Fields(<<CBlockHeader, UInt(8), ids, t>>)
  BY <1>1, <1>2 DEF P2PHeaderAndShortIDs
<1>4. v \in (DOMAIN CBlockHeader.ser) \X (DOMAIN UInt(8).ser) \X (DOMAIN ids.ser) \X (DOMAIN t.ser)
  BY <1>3, FieldsExact4
<1>5. PICK h \in DOMAIN CBlockHeader.ser, n \in DOMAIN UInt(8).ser, s \in DOMAIN ids.ser, l \in DOMAIN t.ser :
         v = <<h, n, s, l>>
  BY <1>4
<1>6. v[4] = l
  BY <1>5
<1>7. PICK txs : txs = [i \in DOMAIN l |-> l[i][2]]
  OBVIOUS
<1>8. Transactions(type, v) = txs
  BY <1>6, <1>7
<1>9. /\ \A i \in DOMAIN txs : CanBeRead(txs[i])
      /\ Faithful(type, v) => \A i \in DOMAIN txs : ReadAsItIs(txs[i], ww)
  BY <1>8, EachTransaction, Zenon
<1>10. /\ \A i \in DOMAIN l : CanBeRead(l[i][2])
       /\ Faithful(type, v) => \A i \in DOMAIN l : ReadAsItIs(l[i][2], ww)
  BY <1>7, <1>9
<1>11. PICK w : w = RereadPrefilled(l, ww)
  OBVIOUS
<1>12. Rereads(t, l, w) /\ (Faithful(type, v) => w = l)
  BY <1>1, <1>10, <1>11, PrefilledRead
<1>13. Rereads(CBlockHeader, h, h) /\ Rereads(UInt(8), n, n) /\ Rereads(ids, s, s)
  <2>1. Exact(ids) /\ Exact(UInt(8)) /\ Exact(CBlockHeader)
    BY <1>2, IntsExact, VectorExact, SimpleClassesExact
  <2> QED BY <2>1 DEF Exact
<1>14. Rereads(Layouts[type], v, <<h, n, s, w>>)
  BY <1>3, <1>5, <1>12, <1>13, Fields4
<1>15. Faithful(type, v) => <<h, n, s, w>> = v
  BY <1>5, <1>12
<1> QED BY <1>14, <1>15, RereadsCarried

\* The transactions of the messages that have some.
LEMMA WhichTransactions ==
  ASSUME NEW v
  PROVE  /\ \A type \in {"tx", "no_witness_tx"} : Transactions(type, v) = <<v>>
         /\ \A type \in {"block", "no_witness_block", "blocktxn", "no_witness_blocktxn"} :
               Transactions(type, v) = v[2]
         /\ \A type \in {"cmpctblock", "cmpctblock2"} :
               Transactions(type, v) = [i \in DOMAIN v[4] |-> v[4][i][2]]
<1>1. \A type \in {"tx", "no_witness_tx"} : Transactions(type, v) = <<v>>
  BY DEF Transactions
<1>2. \A type \in {"block", "no_witness_block", "blocktxn", "no_witness_blocktxn"} :
         Transactions(type, v) = v[2]
  BY DEF Transactions
<1>3. \A type \in {"cmpctblock", "cmpctblock2"} :
         Transactions(type, v) = [i \in DOMAIN v[4] |-> v[4][i][2]]
  BY DEF Transactions
<1> QED BY <1>1, <1>2, <1>3

\* Every other message is carried as well.
LEMMA OthersCarried ==
  ASSUME NEW type \in OtherTypes, NEW v \in DOMAIN Layouts[type].ser, CanBeReadAll(type, v)
  PROVE  Carried(type, v)
<1>1. PICK yes \in BOOLEAN : yes = TRUE
  OBVIOUS
<1>2. PICK no \in BOOLEAN : no = FALSE
  OBVIOUS
<1>3. /\ DropsWitness("tx") <=> ~yes
      /\ DropsWitness("block") <=> ~yes
      /\ DropsWitness("blocktxn") <=> ~yes
      /\ DropsWitness("cmpctblock2") <=> ~yes
  BY <1>1 DEF DropsWitness
<1>4. /\ DropsWitness("no_witness_tx") <=> ~no
      /\ DropsWitness("no_witness_block") <=> ~no
      /\ DropsWitness("no_witness_blocktxn") <=> ~no
      /\ DropsWitness("cmpctblock") <=> ~no
  BY <1>2 DEF DropsWitness
<1>5. Layouts["tx"] = CTransaction(yes)
  BY <1>1, LayoutOfGroup, MessageTypes DEF GossipMessages
<1>6. Layouts["no_witness_tx"] = CTransaction(no)
  BY <1>2, LayoutOfGroup, MessageTypes DEF BlockMessages
<1>7. Layouts["block"] = Fields(<<CBlockHeader, Vector(CTransaction(yes))>>)
  BY <1>1, LayoutOfGroup, MessageTypes DEF BlockMessages, CBlock
<1>8. Layouts["no_witness_block"] = Fields(<<CBlockHeader, Vector(CTransaction(no))>>)
  BY <1>2, LayoutOfGroup, MessageTypes DEF BlockMessages, CBlock
<1>9. Layouts["blocktxn"] = Fields(<<UInt256, Vector(CTransaction(yes))>>)
  BY <1>1, LayoutOfGroup, MessageTypes DEF FilterAndCompactMessages, BlockTransactions
<1>10. Layouts["no_witness_blocktxn"] = Fields(<<UInt256, Vector(CTransaction(no))>>)
  BY <1>2, LayoutOfGroup, MessageTypes DEF FilterAndCompactMessages, BlockTransactions
<1>11. Layouts["cmpctblock"] = P2PHeaderAndShortIDs(no)
  BY <1>2, LayoutOfGroup, MessageTypes DEF FilterAndCompactMessages
<1>12. Layouts["cmpctblock2"] = P2PHeaderAndShortIDs(yes)
  BY <1>1, LayoutOfGroup, MessageTypes DEF FilterAndCompactMessages
<1>13. Exact(CBlockHeader) /\ Exact(UInt256)
  BY SimpleClassesExact, UInt256Exact
<1>14. CASE type = "addrv2"
  BY <1>14, AddrV2Carried
<1>15. CASE type = "merkleblock"
  BY <1>15, MerkleCarried
<1>16. CASE type = "tx"
  <2>1. Layouts[type] = CTransaction(yes) /\ (DropsWitness(type) <=> ~yes) /\ Transactions(type, v) = <<v>>
    BY <1>3, <1>5, <1>16, WhichTransactions
  <2> QED BY <2>1, TxCarried
<1>17. CASE type = "no_witness_tx"
  <2>1. Layouts[type] = CTransaction(no) /\ (DropsWitness(type) <=> ~no) /\ Transactions(type, v) = <<v>>
    BY <1>4, <1>6, <1>17, WhichTransactions
  <2> QED BY <2>1, TxCarried
<1>18. CASE type = "block"
  <2>1. /\ Layouts[type] = Fields(<<CBlockHeader, Vector(CTransaction(yes))>>)
        /\ DropsWitness(type) <=> ~yes
        /\ Transactions(type, v) = v[2]
    BY <1>3, <1>7, <1>18, WhichTransactions
  <2> QED BY <1>13, <2>1, TxListCarried
<1>19. CASE type = "no_witness_block"
  <2>1. /\ Layouts[type] = Fields(<<CBlockHeader, Vector(CTransaction(no))>>)
        /\ DropsWitness(type) <=> ~no
        /\ Transactions(type, v) = v[2]
    BY <1>4, <1>8, <1>19, WhichTransactions
  <2> QED BY <1>13, <2>1, TxListCarried
<1>20. CASE type = "blocktxn"
  <2>1. /\ Layouts[type] = Fields(<<UInt256, Vector(CTransaction(yes))>>)
        /\ DropsWitness(type) <=> ~yes
        /\ Transactions(type, v) = v[2]
    BY <1>3, <1>9, <1>20, WhichTransactions
  <2> QED BY <1>13, <2>1, TxListCarried
<1>21. CASE type = "no_witness_blocktxn"
  <2>1. /\ Layouts[type] = Fields(<<UInt256, Vector(CTransaction(no))>>)
        /\ DropsWitness(type) <=> ~no
        /\ Transactions(type, v) = v[2]
    BY <1>4, <1>10, <1>21, WhichTransactions
  <2> QED BY <1>13, <2>1, TxListCarried
<1>22. CASE type = "cmpctblock"
  <2>1. /\ Layouts[type] = P2PHeaderAndShortIDs(no)
        /\ DropsWitness(type) <=> ~no
        /\ Transactions(type, v) = [i \in DOMAIN v[4] |-> v[4][i][2]]
    BY <1>4, <1>11, <1>22, WhichTransactions
  <2> QED BY <2>1, CompactBlockCarried
<1>23. CASE type = "cmpctblock2"
  <2>1. /\ Layouts[type] = P2PHeaderAndShortIDs(yes)
        /\ DropsWitness(type) <=> ~yes
        /\ Transactions(type, v) = [i \in DOMAIN v[4] |-> v[4][i][2]]
    BY <1>3, <1>12, <1>23, WhichTransactions
  <2> QED BY <2>1, CompactBlockCarried
<1> QED BY <1>14, <1>15, <1>16, <1>17, <1>18, <1>19, <1>20, <1>21, <1>22, <1>23 DEF OtherTypes

\* A message of any type, whatever it carries, is read as something that is written the same, to the
\* last byte, unless one of its transactions looks extended: and as it was when the format can carry
\* it.
THEOREM EveryMessageIsCarried ==
  ASSUME NEW type \in DOMAIN Layouts, NEW v \in DOMAIN Layouts[type].ser, Readable(type, v),
         \A i \in DOMAIN Transactions(type, v) : KeepsWitness(Transactions(type, v)[i])
  PROVE  \E w \in DOMAIN Layouts[type].ser :
           /\ Layouts[type].deser[Layouts[type].ser[v]] = Got(w, <<>>)
           /\ Layouts[type].ser[w] = Layouts[type].ser[v]
           /\ Faithful(type, v) => w = v
<1>1. CanBeReadAll(type, v)
  BY DEF CanBeReadAll
<1>2. CASE type \in EmptyTypes
  <2>1. Layouts[type] = Empty
    BY <1>2, EmptyLayouts
  <2>2. Carried(type, v)
    BY <2>1, EmptyCarried
  <2> QED BY <2>2, Zenon DEF Carried, Carries
<1>3. CASE type \in ExactTypes
  <2>1. Exact(Layouts[type])
    BY <1>3, ExactLayouts
  <2>2. Carried(type, v)
    BY <2>1, ExactCarried
  <2> QED BY <2>2, Zenon DEF Carried, Carries
<1>4. CASE type \in OtherTypes
  <2>1. Carried(type, v)
    BY <1>1, <1>4, OthersCarried
  <2> QED BY <2>1, Zenon DEF Carried, Carries
<1> QED BY <1>2, <1>3, <1>4, AllTypes

-----------------------------------------------------------------------------
(* The codec.                                                              *)

\* What holds of the object, of the payload and of the copy in every phase.
CodecInv ==
  /\ phase \in {"object", "sent", "read", "forwarded"}
  /\ msgtype \in DOMAIN Layouts /\ object \in DOMAIN Layout.ser
  /\ \A i \in DOMAIN Transactions(msgtype, object) : KeepsWitness(Transactions(msgtype, object)[i])
  /\ phase \in {"sent", "read"} => payload = Layout.ser[object]
  /\ phase \in {"read", "forwarded"} => copy = Layout.deser[Layout.ser[object]]
  /\ phase = "forwarded" => payload = Layout.ser[copy[1]]

\* serialize leaves a transaction whose bytes are those that were written.
LEMMA WrittenSame ==
  ASSUME NEW tx \in DOMAIN Layouts["tx"].ser, KeepsWitness(tx)
  PROVE  /\ Written(tx) \in DOMAIN Layouts["tx"].ser /\ KeepsWitness(Written(tx))
         /\ Layouts["tx"].ser[Written(tx)] = Layouts["tx"].ser[tx]
<1>1. PICK ww \in BOOLEAN : ww = TRUE
  OBVIOUS
<1>2. Layouts["tx"] = CTransaction(ww)
  BY <1>1, LayoutOfGroup, MessageTypes DEF GossipMessages
<1>3. tx \in TxValues
  BY <1>2, TxCodec
<1>4. CASE IsNull(tx.wit)
  <2>1. Written(tx) = tx
    BY <1>4 DEF Written
  <2> QED BY <2>1
<1>5. CASE ~IsNull(tx.wit)
  <2>1. Written(tx) = RereadTx(tx, ww)
    BY <1>1, <1>5 DEF Written, RereadTx
  <2> DEFINE u == Written(tx)
  <2>2. u \in TxValues /\ EncodeTx(u, ww) = EncodeTx(tx, ww)
    BY <1>3, <2>1, RereadTxSame
  <2>3. u.vin = tx.vin /\ u.wit = FitWitness(tx)
    BY <1>3, <1>5 DEF Written, TxValues
  <2>4. FitWitness(u) = FitWitness(tx)
    BY <1>3, <2>2, <2>3, Fitted
  <2>5. KeepsWitness(u)
    BY <2>3, <2>4 DEF KeepsWitness
  <2> QED BY <1>2, <1>3, <2>2, <2>5, TxCodec
<1> QED BY <1>4, <1>5

\* serialize, whatever it is called on.
LEMMA SerializeSame ==
  ASSUME CodecInv, Serialize
  PROVE  /\ object' \in DOMAIN Layout.ser /\ Layout.ser[object'] = Layout.ser[object]
         /\ \A i \in DOMAIN Transactions(msgtype, object') : KeepsWitness(Transactions(msgtype, object')[i])
<1>1. CASE msgtype = "tx"
  <2>1. object' = Written(object) /\ Layout = Layouts["tx"]
    BY <1>1 DEF Serialize, Layout
  <2>2. PICK l : l = <<object>>
    OBVIOUS
  <2>3. Transactions(msgtype, object) = l /\ DOMAIN l = {1} /\ l[1] = object
    <3>1. Transactions("tx", object) = <<object>>
      BY WhichTransactions
    <3>2. DOMAIN l = {1} /\ l[1] = object
      BY <2>2
    <3> QED BY <1>1, <2>2, <3>1, <3>2
  <2>4. KeepsWitness(object) /\ object \in DOMAIN Layouts["tx"].ser
    BY <2>1, <2>3 DEF CodecInv
  <2>5. PICK u : u = object'
    OBVIOUS
  <2>6. u \in DOMAIN Layouts["tx"].ser /\ KeepsWitness(u) /\ Layouts["tx"].ser[u] = Layouts["tx"].ser[object]
    BY <2>1, <2>4, <2>5, WrittenSame
  <2>7. PICK k : k = <<u>>
    OBVIOUS
  <2>8. Transactions(msgtype, u) = k /\ DOMAIN k = {1} /\ k[1] = u
    <3>1. Transactions("tx", u) = <<u>>
      BY WhichTransactions
    <3>2. DOMAIN k = {1} /\ k[1] = u
      BY <2>7
    <3> QED BY <1>1, <2>7, <3>1, <3>2
  <2>9. \A i \in DOMAIN Transactions(msgtype, u) : KeepsWitness(Transactions(msgtype, u)[i])
    BY <2>6, <2>8
  <2> QED BY <2>1, <2>5, <2>6, <2>9
<1>2. CASE msgtype # "tx"
  <2>1. object' = object
    BY <1>2 DEF Serialize
  <2> QED BY <2>1 DEF CodecInv
<1> QED BY <1>1, <1>2

\* The invariant of the codec.
LEMMA CodecInvariant == CodecSpec => []CodecInv
<1>1. CodecInit => CodecInv
  <2> SUFFICES ASSUME CodecInit PROVE CodecInv
    OBVIOUS
  <2>1. PICK m \in Objects : msgtype = m[1] /\ object = m[2]
    BY DEF CodecInit
  <2>2. /\ m[1] \in DOMAIN Layouts /\ m[2] \in DOMAIN Layouts[m[1]].ser
        /\ \A i \in DOMAIN Transactions(m[1], m[2]) : KeepsWitness(Transactions(m[1], m[2])[i])
    BY ObjectsAssumption
  <2> QED BY <2>1, <2>2 DEF CodecInit, CodecInv, Layout
<1>2. CodecInv /\ [CodecNext]_codecVars => CodecInv'
  <2> SUFFICES ASSUME CodecInv, [CodecNext]_codecVars PROVE CodecInv'
    OBVIOUS
  <2>1. CASE Serialize
    <3>1. /\ object' \in DOMAIN Layout.ser /\ Layout.ser[object'] = Layout.ser[object]
          /\ \A i \in DOMAIN Transactions(msgtype, object') : KeepsWitness(Transactions(msgtype, object')[i])
      BY <2>1, SerializeSame
    <3>2. msgtype' = msgtype /\ Layout' = Layout /\ phase' = "sent" /\ payload' = Layout.ser[object]
      BY <2>1 DEF Serialize, Layout
    <3> QED BY <3>1, <3>2 DEF CodecInv
  <2>2. CASE Deserialize
    <3>1. /\ msgtype' = msgtype /\ Layout' = Layout /\ object' = object /\ payload' = payload
          /\ phase = "sent" /\ phase' = "read" /\ copy' = Layout.deser[payload]
      BY <2>2 DEF Deserialize, Layout
    <3> QED BY <3>1 DEF CodecInv
  <2>3. CASE Forward
    <3>1. /\ msgtype' = msgtype /\ Layout' = Layout /\ object' = object /\ copy' = copy
          /\ phase = "read" /\ phase' = "forwarded" /\ payload' = Layout.ser[copy[1]]
      BY <2>3 DEF Forward, Layout
    <3> QED BY <3>1 DEF CodecInv
  <2>4. CASE UNCHANGED codecVars
    BY <2>4 DEF codecVars, CodecInv, Layout
  <2> QED BY <2>1, <2>2, <2>3, <2>4 DEF CodecNext
<1> QED BY <1>1, <1>2, PTL DEF CodecSpec

\* A message that can be carried as it is, is read as it was written, whatever its type, its values
\* and the length of its lists.
THEOREM RoundTripHolds == CodecSpec => []RoundTrip
<1>1. CodecInv => RoundTrip
  <2> SUFFICES ASSUME CodecInv, phase \in {"read", "forwarded"},
                      Readable(msgtype, object), Faithful(msgtype, object)
               PROVE  copy = Got(object, <<>>)
    BY DEF RoundTrip
  <2>1. PICK w \in DOMAIN Layouts[msgtype].ser :
           /\ Layouts[msgtype].deser[Layouts[msgtype].ser[object]] = Got(w, <<>>)
           /\ Faithful(msgtype, object) => w = object
    BY EveryMessageIsCarried, Zenon DEF CodecInv, Layout
  <2> QED BY <2>1 DEF CodecInv, Layout
<1> QED BY <1>1, CodecInvariant, PTL

\* What is read of a message is complete and is written again byte by byte.
THEOREM ForwardsTheSameBytesHolds == CodecSpec => []ForwardsTheSameBytes
<1>1. CodecInv => ForwardsTheSameBytes
  <2> SUFFICES ASSUME CodecInv PROVE ForwardsTheSameBytes
    OBVIOUS
  <2>1. ASSUME phase \in {"read", "forwarded"}, Readable(msgtype, object)
        PROVE  /\ copy # Failed /\ copy[2] = <<>>
               /\ Layout.ser[copy[1]] = Layout.ser[object]
    <3>1. PICK w \in DOMAIN Layouts[msgtype].ser :
             /\ Layouts[msgtype].deser[Layouts[msgtype].ser[object]] = Got(w, <<>>)
             /\ Layouts[msgtype].ser[w] = Layouts[msgtype].ser[object]
      BY <2>1, EveryMessageIsCarried, Zenon DEF CodecInv, Layout
    <3>2. copy = <<w, <<>> >>
      BY <2>1, <3>1 DEF CodecInv, Layout, Got
    <3>3. copy[1] = w /\ copy[2] = <<>> /\ copy # Failed
      BY <3>2 DEF Failed
    <3> QED BY <3>1, <3>3 DEF Layout
  <2>2. /\ phase = "read" => payload = Layout.ser[object]
        /\ phase = "forwarded" => payload = Layout.ser[copy[1]]
    BY DEF CodecInv
  <2> QED BY <2>1, <2>2 DEF ForwardsTheSameBytes
<1> QED BY <1>1, CodecInvariant, PTL

\* serialize writes the same bytes when it is called again on the object it was called on.
THEOREM SerializeIsIdempotentHolds == CodecSpec => SerializeIsIdempotent
<1>1. CodecInv /\ [CodecNext]_codecVars => [Serialize => Layout.ser[object'] = payload']_codecVars
  <2> SUFFICES ASSUME CodecInv, Serialize PROVE Layout.ser[object'] = payload'
    OBVIOUS
  <2>1. Layout.ser[object'] = Layout.ser[object]
    BY SerializeSame
  <2>2. payload' = Layout.ser[object]
    BY DEF Serialize
  <2> QED BY <2>1, <2>2
<1> QED BY <1>1, CodecInvariant, PTL DEF CodecSpec, SerializeIsIdempotent
=============================================================================

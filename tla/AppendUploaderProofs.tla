------------------------- MODULE AppendUploaderProofs -------------------------
(***************************************************************************)
(* Theorems about AppendUploader, for any sizes, any chunk limit and any   *)
(* client calls, with and without failures.                                *)
(***************************************************************************)
EXTENDS AppendUploader, SequenceTheorems, TLAPS

------------------------------------------------------------------------------
(* Types *)

\* Bytes(from, to) is the sequence of the bytes from + 1 to `to'.
LEMMA BytesType ==
    ASSUME NEW from \in Nat, NEW to \in Nat, from <= to
    PROVE  /\ Bytes(from, to) \in Seq(Nat)
           /\ Len(Bytes(from, to)) = to - from
           /\ \A i \in 1 .. to - from : Bytes(from, to)[i] = from + i
<1>1. \A i \in 1 .. to - from : from + i \in Nat
  OBVIOUS
<1>2. to - from \in Nat
  OBVIOUS
<1> QED
  BY <1>1, <1>2 DEF Bytes

\* A step of the uploader, whichever calls its client makes: the element, which
\* has an AppendUploader too, makes both.
AnyStep == [Next]_vars \/ BeginFlush("flush") \/ BeginFlush("destroy")

\* Every byte held anywhere was appended, and the worker takes no empty stream.
Held(s) == s \in Seq(1 .. written)
TypeInv ==
    /\ TypeOK
    /\ Held(stream) /\ Held(chunk) /\ Held(blob)
    /\ wpc = "take" => stream # <<>>
    /\ ChunkWithinLimit

\* Initially nothing is held.
LEMMA TypeInit == Init => TypeInv
<1>1. \A S : <<>> \in Seq(S)
  BY EmptySeq
<1>2. 0 \in 0 .. MaxBytes
  BY AppendAssumption
<1> QED
  BY <1>1, <1>2 DEF Init, TypeInv, TypeOK, Held, ChunkWithinLimit

\* Appending makes the stream longer by new bytes.
LEMMA AppendGrows ==
    ASSUME TypeInv, NEW n \in Sizes, AppendBytes(n)
    PROVE  /\ written' = written + n /\ written' \in 0 .. MaxBytes
           /\ n \in Nat \ {0} /\ written \in Nat
           /\ Bytes(written, written + n) \in Seq(written + 1 .. written')
           /\ stream' # <<>>
<1> USE AppendAssumption
<1>1. /\ written' = written + n /\ written' \in 0 .. MaxBytes
      /\ n \in Nat \ {0} /\ written \in Nat
  BY DEF AppendBytes, TypeInv, TypeOK
<1>2. Bytes(written, written + n) \in Seq(written + 1 .. written')
  <2>1. \A i \in 1 .. n : written + i \in written + 1 .. written'
    BY <1>1
  <2>2. (written + n) - written = n
    BY <1>1
  <2> QED
    BY <1>1, <2>1, <2>2 DEF Bytes
<1>3. Len(Bytes(written, written + n)) = n
  BY <1>1, BytesType
<1>4. Len(stream') = Len(stream) + n
  <2>1. Len(stream \o Bytes(written, written + n)) = Len(stream) + Len(Bytes(written, written + n))
    <3>1. stream \in Seq(Nat) /\ Bytes(written, written + n) \in Seq(Nat)
      <4>1. 1 .. written \subseteq Nat
        BY <1>1
      <4>2. stream \in Seq(Nat)
        BY <4>1, SeqMonotonic DEF TypeInv, Held
      <4>3. Bytes(written, written + n) \in Seq(Nat)
        BY <1>1, BytesType
      <4> QED
        BY <4>2, <4>3
    <3> QED
      BY <3>1, ConcatProperties
  <2> QED
    BY <1>3, <2>1 DEF AppendBytes
<1>5. Len(stream) \in Nat /\ Len(<<>>) = 0
  BY EmptySeq, LenProperties DEF TypeInv, Held
<1> QED
  BY <1>1, <1>2, <1>4, <1>5

\* Appending leaves the rest.
LEMMA TypeAppend ==
    ASSUME TypeInv, NEW n \in Sizes, AppendBytes(n)
    PROVE  TypeInv'
<1> USE AppendAssumption
<1>1. /\ written' = written + n /\ written' \in 0 .. MaxBytes
      /\ n \in Nat \ {0} /\ written \in Nat
      /\ Bytes(written, written + n) \in Seq(written + 1 .. written')
      /\ stream' # <<>>
  BY AppendGrows
<1>2. \A s : Held(s) => s \in Seq(1 .. written')
  BY <1>1 DEF Held
<1>3. Bytes(written, written + n) \in Seq(1 .. written')
  <2>1. written + 1 .. written' \subseteq 1 .. written'
    BY <1>1
  <2> QED
    BY <1>1, <2>1, SeqMonotonic
<1>4. stream' \in Seq(1 .. written')
  BY <1>2, <1>3 DEF AppendBytes, TypeInv
<1>5. chunk' \in Seq(1 .. written') /\ blob' \in Seq(1 .. written')
  BY <1>2 DEF AppendBytes, TypeInv
<1>6. /\ stream' \in Seq(1 .. MaxBytes) /\ chunk' \in Seq(1 .. MaxBytes)
      /\ blob' \in Seq(1 .. MaxBytes)
  BY <1>1, <1>4, <1>5
<1>7. wpc' = wpc \/ (wpc = "parked" /\ wpc' = "wait")
  BY DEF AppendBytes, WakeWorker
<1> QED
  BY <1>1, <1>4, <1>5, <1>6, <1>7
     DEF AppendBytes, TypeInv, TypeOK, Held, ChunkWithinLimit

\* Taking a chunk splits the stream into parts that are sequences of the same
\* bytes; the chunk is not empty and not over the limit.
LEMMA TakeParts ==
    ASSUME TypeInv, Take, NEW S, stream \in Seq(S)
    PROVE  chunk' \in Seq(S) /\ stream' \in Seq(S) /\ Len(chunk') \in 1 .. ChunkMax
<1> USE AppendAssumption
<1>1. Len(stream) \in Nat /\ Len(stream) # 0
  <2>1. stream \in Seq(1 .. written)
    BY DEF TypeInv, Held
  <2> QED
    BY <2>1, EmptySeq DEF TypeInv, Take
<1>2. CASE Len(stream) <= ChunkMax
  <2>1. chunk' = stream /\ stream' = <<>>
    BY <1>1, <1>2 DEF Take
  <2> QED
    BY <1>1, <1>2, <2>1, EmptySeq
<1>3. CASE Len(stream) > ChunkMax
  <2>1. chunk' = SubSeq(stream, 1, ChunkMax) /\ stream' = SubSeq(stream, ChunkMax, Len(stream))
    BY <1>1, <1>3 DEF Take
  <2>2. \A i \in 1 .. Len(stream) : stream[i] \in S
    BY <1>1, ElementOfSeq
  <2>3. chunk' \in Seq(S) /\ Len(chunk') = ChunkMax
    <3>1. \A i \in 1 .. ChunkMax : stream[i] \in S
      BY <1>1, <1>3, <2>2
    <3>2. ChunkMax \in Int /\ 1 \in Int /\ 1 <= ChunkMax /\ ChunkMax - 1 + 1 = ChunkMax
      OBVIOUS
    <3> HIDE AppendAssumption
    <3>3. SubSeq(stream, 1, ChunkMax) \in Seq(S) /\ Len(SubSeq(stream, 1, ChunkMax)) = ChunkMax
      BY <3>1, <3>2, SubSeqProperties
    <3> QED
      BY <2>1, <3>3
  <2>4. stream' \in Seq(S)
    <3>1. \A i \in ChunkMax .. Len(stream) : stream[i] \in S
      BY <1>1, <1>3, <2>2
    <3>2. ChunkMax \in Int /\ Len(stream) \in Int
      BY <1>1
    <3> HIDE AppendAssumption
    <3>3. SubSeq(stream, ChunkMax, Len(stream)) \in Seq(S)
      BY <3>1, <3>2, SubSeqProperties
    <3> QED
      BY <2>1, <3>3
  <2> QED
    BY <2>3, <2>4
<1> QED
  BY <1>1, <1>2, <1>3

\* Taking a chunk keeps the types.
LEMMA TypeTake ==
    ASSUME TypeInv, Take
    PROVE  TypeInv'
<1>1. /\ chunk' \in Seq(1 .. written) /\ stream' \in Seq(1 .. written)
      /\ Len(chunk') \in 1 .. ChunkMax
  BY TakeParts DEF TypeInv, Held
<1>2. 1 .. written \subseteq 1 .. MaxBytes
  BY AppendAssumption DEF TypeInv, TypeOK
<1>3. chunk' \in Seq(1 .. MaxBytes) /\ stream' \in Seq(1 .. MaxBytes)
  BY <1>1, <1>2, SeqMonotonic
<1> QED
  BY <1>1, <1>3 DEF Take, TypeInv, TypeOK, Held, ChunkWithinLimit

\* Every step keeps the types.
LEMMA TypeStep == TypeInv /\ AnyStep => TypeInv'
<1> SUFFICES ASSUME TypeInv, AnyStep PROVE TypeInv'
  OBVIOUS
<1> USE AppendAssumption DEF TypeInv, TypeOK, Held, ChunkWithinLimit
<1>1. ASSUME NEW call \in {"flush", "destroy"}, BeginFlush(call) PROVE TypeInv'
  BY <1>1 DEF BeginFlush
<1>2. ASSUME NEW n \in Sizes, AppendBytes(n) PROVE TypeInv'
  BY <1>2, TypeAppend
<1>3. CASE EndFlush
  BY <1>3 DEF EndFlush
<1>4. CASE SetStopped
  BY <1>4 DEF SetStopped
<1>5. CASE NotifyStop
  BY <1>5 DEF NotifyStop, WakeWorker
<1>6. CASE Join
  BY <1>6 DEF Join
<1>7. CASE Create
  BY <1>7, EmptySeq DEF Create
<1>8. CASE Test
  BY <1>8 DEF Test
<1>9. CASE Finish
  BY <1>9 DEF Finish
<1>10. CASE Wait
  BY <1>10 DEF Wait
<1>11. CASE Park
  BY <1>11 DEF Park
<1>12. CASE Take
  BY <1>12, TypeTake
<1>13. CASE Send
  <2>1. blob \o chunk \in Seq(1 .. written) /\ blob \o chunk \in Seq(1 .. MaxBytes)
    OBVIOUS
  <2>2. blob' \in Seq(1 .. written) /\ blob' \in Seq(1 .. MaxBytes)
    BY <1>13, <2>1 DEF Send
  <2> QED
    BY <1>13, <2>2 DEF Send
<1>14. CASE UNCHANGED vars
  BY <1>14 DEF vars
<1> QED
  BY <1>1, <1>2, <1>3, <1>4, <1>5, <1>6, <1>7, <1>8, <1>9, <1>10, <1>11, <1>12,
     <1>13, <1>14 DEF AnyStep, Next, ClientStep, WorkerStep

\* The variables have their types, and a worker that is not sending holds no chunk:
\* its copy of the stream (lines 71-81) lives in one turn of its loop.
THEOREM TypeCorrect == Spec => []TypeOK
<1>1. TypeInv /\ [Next]_vars => TypeInv'
  BY TypeStep DEF AnyStep
<1> QED
  BY TypeInit, <1>1, PTL DEF Spec, TypeInv

\* The types hold, and with them: no Append Block is over the limit of the
\* service, and none is empty, although the worker tests the stream unlocked.
THEOREM ChunkWithinLimitHolds == Spec => [](TypeOK /\ ChunkWithinLimit)
<1>1. TypeInv => TypeOK /\ ChunkWithinLimit
  BY DEF TypeInv
<1>2. TypeInv /\ [Next]_vars => TypeInv'
  BY TypeStep DEF AnyStep
<1> QED
  BY TypeInit, <1>1, <1>2, PTL DEF Spec

------------------------------------------------------------------------------
(* Order *)

Ordered(s) == \A i, j \in DOMAIN s : i < j => s[i] <= s[j]
Before(s, t) == \A i \in DOMAIN s, j \in DOMAIN t : s[i] <= t[j]

OrderInv ==
    /\ TypeInv
    /\ Ordered(blob) /\ Ordered(chunk) /\ Ordered(stream)
    /\ Before(blob, chunk) /\ Before(blob, stream) /\ Before(chunk, stream)

\* Nothing is out of order in an empty sequence.
LEMMA EmptyOrder == Ordered(<<>>) /\ \A s : Before(s, <<>>) /\ Before(<<>>, s)
BY DEF Ordered, Before

\* An ordered sequence followed by one that does not come before it is ordered.
LEMMA ConcatOrder ==
    ASSUME NEW S, S \subseteq Nat, NEW s \in Seq(S), NEW t \in Seq(S),
           Ordered(s), Ordered(t), Before(s, t)
    PROVE  Ordered(s \o t)
<1> DEFINE st == s \o t
<1>1. /\ st \in Seq(S) /\ Len(st) = Len(s) + Len(t)
      /\ \A i \in 1 .. Len(s) + Len(t) : st[i] = IF i <= Len(s) THEN s[i] ELSE t[i - Len(s)]
  BY ConcatProperties
<1>2. /\ DOMAIN s = 1 .. Len(s) /\ DOMAIN t = 1 .. Len(t) /\ DOMAIN st = 1 .. Len(s) + Len(t)
      /\ Len(s) \in Nat /\ Len(t) \in Nat
  BY <1>1, LenProperties
<1>3. SUFFICES ASSUME NEW i \in DOMAIN st, NEW j \in DOMAIN st, i < j
               PROVE  st[i] <= st[j]
  BY DEF Ordered
<1>4. i \in 1 .. Len(s) + Len(t) /\ j \in 1 .. Len(s) + Len(t)
  BY <1>2, <1>3
<1> HIDE DEF st
<1>5. CASE j <= Len(s)
  <2>1. st[i] = s[i] /\ st[j] = s[j] /\ i \in DOMAIN s /\ j \in DOMAIN s
    BY <1>1, <1>2, <1>3, <1>4, <1>5
  <2> QED
    BY <2>1, <1>3 DEF Ordered
<1>6. CASE i <= Len(s) /\ j > Len(s)
  <2>1. st[i] = s[i] /\ st[j] = t[j - Len(s)] /\ i \in DOMAIN s /\ j - Len(s) \in DOMAIN t
    BY <1>1, <1>2, <1>4, <1>6
  <2> QED
    BY <2>1 DEF Before
<1>7. CASE i > Len(s)
  <2>1. /\ st[i] = t[i - Len(s)] /\ st[j] = t[j - Len(s)]
        /\ i - Len(s) \in DOMAIN t /\ j - Len(s) \in DOMAIN t /\ i - Len(s) < j - Len(s)
    BY <1>1, <1>2, <1>3, <1>4, <1>7
  <2> QED
    BY <2>1 DEF Ordered
<1> QED
  BY <1>2, <1>4, <1>5, <1>6, <1>7

\* What comes before both parts comes before the whole, and the other way round.
LEMMA ConcatBefore ==
    ASSUME NEW S, NEW s \in Seq(S), NEW t \in Seq(S), NEW u
    PROVE  /\ Before(u, s) /\ Before(u, t) => Before(u, s \o t)
           /\ Before(s, u) /\ Before(t, u) => Before(s \o t, u)
<1>1. /\ s \o t \in Seq(S) /\ Len(s \o t) = Len(s) + Len(t)
      /\ \A i \in 1 .. Len(s) + Len(t) : (s \o t)[i] = IF i <= Len(s) THEN s[i] ELSE t[i - Len(s)]
  BY ConcatProperties
<1>2. /\ DOMAIN s = 1 .. Len(s) /\ DOMAIN t = 1 .. Len(t) /\ DOMAIN (s \o t) = 1 .. Len(s) + Len(t)
      /\ Len(s) \in Nat /\ Len(t) \in Nat
  BY <1>1, LenProperties
<1>3. \A i \in DOMAIN (s \o t) : \/ i \in DOMAIN s /\ (s \o t)[i] = s[i]
                                 \/ i - Len(s) \in DOMAIN t /\ (s \o t)[i] = t[i - Len(s)]
  BY <1>1, <1>2
<1> QED
  BY <1>3 DEF Before

\* Part of an ordered sequence is ordered, each of its elements is one of the
\* sequence, and a part that ends where another starts comes before it.
LEMMA PartOrder ==
    ASSUME NEW S, S \subseteq Nat, NEW s \in Seq(S), Ordered(s),
           NEW m \in 1 .. Len(s), NEW n \in m .. Len(s)
    PROVE  /\ Ordered(SubSeq(s, m, n))
           /\ \A i \in DOMAIN SubSeq(s, m, n) :
                 m + i - 1 \in m .. n /\ SubSeq(s, m, n)[i] = s[m + i - 1]
<1>1. DOMAIN s = 1 .. Len(s) /\ Len(s) \in Nat /\ m \in Int /\ n \in Int
  BY LenProperties
<1>2. \A i \in m .. n : s[i] \in S
  BY <1>1, ElementOfSeq
<1>3. /\ SubSeq(s, m, n) \in Seq(S) /\ Len(SubSeq(s, m, n)) = n - m + 1
      /\ \A i \in 1 .. n - m + 1 : SubSeq(s, m, n)[i] = s[m + i - 1]
  BY <1>1, <1>2, SubSeqProperties
<1>4. DOMAIN SubSeq(s, m, n) = 1 .. n - m + 1
  BY <1>3, LenProperties
<1>5. \A i \in 1 .. n - m + 1 : m + i - 1 \in m .. n /\ m + i - 1 \in DOMAIN s
  BY <1>1
<1>6. \A i, j \in 1 .. n - m + 1 : i < j => m + i - 1 < m + j - 1
  BY <1>1
<1>7. Ordered(SubSeq(s, m, n))
  BY <1>3, <1>4, <1>5, <1>6 DEF Ordered
<1> QED
  BY <1>3, <1>4, <1>5, <1>7

\* Appending: what is appended is ordered and comes after everything held.
LEMMA OrderAppend ==
    ASSUME OrderInv, TypeInv', NEW n \in Sizes, AppendBytes(n)
    PROVE  OrderInv'
<1> DEFINE new == Bytes(written, written + n)
<1>1. written \in Nat /\ n \in Nat /\ written + n \in Nat /\ (written + n) - written = n
  BY AppendAssumption DEF OrderInv, TypeInv, TypeOK
<1>2. new \in Seq(Nat) /\ Len(new) = n /\ \A i \in 1 .. n : new[i] = written + i
  <2>1. /\ new \in Seq(Nat) /\ Len(new) = (written + n) - written
        /\ \A i \in 1 .. (written + n) - written : new[i] = written + i
    <3>1. written <= written + n
      BY <1>1
    <3> QED
      BY <1>1, <3>1, BytesType
  <2> QED
    BY <1>1, <2>1
<1>3. DOMAIN new = 1 .. n
  BY <1>2, LenProperties
<1>4. Ordered(new)
  BY <1>1, <1>2, <1>3 DEF Ordered
<1>5. \A s \in Seq(1 .. written) : Before(s, new)
  <2> SUFFICES ASSUME NEW s \in Seq(1 .. written), NEW i \in DOMAIN s, NEW j \in 1 .. n
               PROVE  s[i] <= new[j]
    BY <1>3 DEF Before
  <2>1. s[i] \in 1 .. written
    BY LenProperties, ElementOfSeq
  <2>2. new[j] = written + j
    BY <1>2
  <2> QED
    BY <2>1, <2>2, <1>1
<1>6. /\ stream \in Seq(1 .. written) /\ chunk \in Seq(1 .. written) /\ blob \in Seq(1 .. written)
      /\ stream \in Seq(Nat)
  <2>1. 1 .. written \subseteq Nat
    BY <1>1
  <2> QED
    BY <2>1, SeqMonotonic DEF OrderInv, TypeInv, Held
<1>7. stream' = stream \o new /\ chunk' = chunk /\ blob' = blob
  BY DEF AppendBytes
<1>8. Before(stream, new) /\ Before(chunk, new) /\ Before(blob, new)
  BY <1>5, <1>6
<1> HIDE DEF new
<1>9. Ordered(stream \o new)
  BY <1>2, <1>4, <1>6, <1>8, ConcatOrder DEF OrderInv
<1>10. Before(chunk, stream \o new) /\ Before(blob, stream \o new)
  BY <1>2, <1>6, <1>8, ConcatBefore DEF OrderInv
<1> QED
  BY <1>7, <1>9, <1>10 DEF OrderInv

\* Taking: the chunk is the beginning of the stream.
LEMMA OrderTake ==
    ASSUME OrderInv, TypeInv', Take
    PROVE  OrderInv'
<1>1. /\ stream \in Seq(1 .. written) /\ 1 .. written \subseteq Nat /\ Len(stream) \in Nat
      /\ DOMAIN stream = 1 .. Len(stream)
  BY LenProperties DEF OrderInv, TypeInv, TypeOK, Held
<1>2. blob' = blob
  BY DEF Take
<1>3. CASE Len(stream) <= ChunkMax
  <2>1. chunk' = stream /\ stream' = <<>>
    BY <1>1, <1>3, AppendAssumption DEF Take
  <2> QED
    BY <1>2, <2>1, EmptyOrder DEF OrderInv
<1>4. CASE Len(stream) > ChunkMax
  <2>1. chunk' = SubSeq(stream, 1, ChunkMax) /\ stream' = SubSeq(stream, ChunkMax, Len(stream))
    BY <1>1, <1>4, AppendAssumption DEF Take
  <2>2. ChunkMax \in 1 .. Len(stream) /\ 1 \in 1 .. Len(stream) /\ Len(stream) \in ChunkMax .. Len(stream)
    BY <1>1, <1>4, AppendAssumption
  <2>3. Ordered(stream)
    BY DEF OrderInv
  <2>4. /\ Ordered(chunk')
        /\ \A i \in DOMAIN chunk' : \E k \in 1 .. ChunkMax : chunk'[i] = stream[k]
    BY <1>1, <2>1, <2>2, <2>3, PartOrder
  <2>5. /\ Ordered(stream')
        /\ \A i \in DOMAIN stream' : \E k \in ChunkMax .. Len(stream) : stream'[i] = stream[k]
    BY <1>1, <2>1, <2>2, <2>3, PartOrder
  <2>6. Before(chunk', stream')
    <3>1. \A k \in 1 .. ChunkMax, l \in ChunkMax .. Len(stream) : stream[k] <= stream[l]
      <4> SUFFICES ASSUME NEW k \in 1 .. ChunkMax, NEW l \in ChunkMax .. Len(stream)
                   PROVE  stream[k] <= stream[l]
        OBVIOUS
      <4>1. k \in DOMAIN stream /\ l \in DOMAIN stream /\ (k < l \/ k = l)
        BY <1>1, <2>2
      <4>2. stream[k] \in Nat
        BY <1>1, <4>1, ElementOfSeq
      <4> QED
        BY <2>3, <4>1, <4>2 DEF Ordered
    <3> QED
      BY <2>4, <2>5, <3>1 DEF Before
  <2>7. Before(blob, chunk') /\ Before(blob, stream')
    <3>1. \A i \in DOMAIN blob, k \in 1 .. Len(stream) : blob[i] <= stream[k]
      BY <1>1 DEF OrderInv, Before
    <3>2. 1 .. ChunkMax \subseteq 1 .. Len(stream) /\ ChunkMax .. Len(stream) \subseteq 1 .. Len(stream)
      BY <1>1, <2>2
    <3> QED
      BY <2>4, <2>5, <3>1, <3>2 DEF Before
  <2> QED
    BY <1>2, <2>4, <2>5, <2>6, <2>7 DEF OrderInv
<1> QED
  BY <1>1, <1>3, <1>4, AppendAssumption

\* Sending: the chunk becomes the end of the blob, or is dropped.
LEMMA OrderSend ==
    ASSUME OrderInv, TypeInv', Send
    PROVE  OrderInv'
<1>1. blob \in Seq(1 .. written) /\ chunk \in Seq(1 .. written) /\ 1 .. written \subseteq Nat
  <2>1. blob \in Seq(1 .. written) /\ chunk \in Seq(1 .. written)
    BY DEF OrderInv, TypeInv, Held
  <2>2. 1 .. written \subseteq Nat
    BY AppendAssumption DEF OrderInv, TypeInv, TypeOK
  <2> QED
    BY <2>1, <2>2
<1>2. chunk' = <<>> /\ stream' = stream /\ (blob' = blob \/ blob' = blob \o chunk)
  BY DEF Send
<1>3. Ordered(blob \o chunk)
  BY <1>1, ConcatOrder DEF OrderInv
<1>4. Before(blob \o chunk, stream)
  BY <1>1, ConcatBefore DEF OrderInv
<1> QED
  BY <1>2, <1>3, <1>4, EmptyOrder DEF OrderInv

\* Every step keeps what is held in order; creating the blob only empties it.
LEMMA OrderStep == OrderInv /\ AnyStep => OrderInv'
<1> SUFFICES ASSUME OrderInv, AnyStep PROVE OrderInv'
  OBVIOUS
<1>1. TypeInv'
  BY TypeStep DEF OrderInv
<1>2. ASSUME NEW n \in Sizes, AppendBytes(n) PROVE OrderInv'
  BY <1>1, <1>2, OrderAppend
<1>3. CASE Take
  BY <1>1, <1>3, OrderTake
<1>4. CASE Send
  BY <1>1, <1>4, OrderSend
<1>5. ASSUME UNCHANGED <<stream, chunk>>, blob' = blob \/ blob' = <<>> PROVE OrderInv'
  <2>1. CASE blob' = blob
    BY <1>1, <1>5, <2>1 DEF OrderInv, Ordered, Before
  <2>2. CASE blob' = <<>>
    BY <1>1, <1>5, <2>2, EmptyOrder DEF OrderInv
  <2> QED
    BY <1>5, <2>1, <2>2
<1>6. CASE Create
  BY <1>5, <1>6 DEF Create
<1>7. CASE UNCHANGED <<stream, chunk, blob>>
  BY <1>5, <1>7
<1> QED
  BY <1>2, <1>3, <1>4, <1>6, <1>7
     DEF AnyStep, Next, ClientStep, WorkerStep, BeginFlush, EndFlush, SetStopped, NotifyStop,
         Join, Test, Finish, Wait, Park, vars

\* Initially nothing is held.
LEMMA OrderInit == Init => OrderInv
BY TypeInit, EmptyOrder DEF Init, OrderInv

\* Nothing is out of order in the blob.
LEMMA OrderUse == OrderInv => OrderKept
BY DEF OrderInv, Ordered, OrderKept

\* Whatever fails and wherever the stream is cut, bytes reach the blob in the
\* order in which they were appended.
THEOREM OrderKeptHolds == Spec => []OrderKept
<1>1. OrderInv /\ [Next]_vars => OrderInv'
  BY OrderStep DEF AnyStep
<1> QED
  BY OrderInit, OrderUse, <1>1, PTL DEF Spec

------------------------------------------------------------------------------
(* When nothing fails and no stream is longer than a chunk *)

\* Sequences of numbers concatenate to a sequence of numbers.
LEMMA NatConcat ==
    ASSUME NEW s \in Seq(Nat), NEW t \in Seq(Nat)
    PROVE  s \o t \in Seq(Nat)
  BY ConcatProperties

\* Concatenation of sequences of numbers is associative.
LEMMA NatAssociative ==
    ASSUME NEW s \in Seq(Nat), NEW t \in Seq(Nat), NEW u \in Seq(Nat)
    PROVE  (s \o t) \o u = s \o (t \o u)
  BY ConcatAssociative, SMTT(30)

\* Bytes are numbered on: what follows the first n bytes begins with n + 1.
LEMMA BytesConcat ==
    ASSUME NEW m \in Nat, NEW n \in Nat
    PROVE  Bytes(0, m) \o Bytes(m, m + n) = Bytes(0, m + n)
<1> DEFINE left == Bytes(0, m)  right == Bytes(m, m + n)  all == Bytes(0, m + n)
<1>1. left \in Seq(Nat) /\ Len(left) = m /\ \A i \in 1 .. m : left[i] = i
  <2>1. 0 <= m /\ m - 0 = m /\ \A i \in 1 .. m : 0 + i = i
    OBVIOUS
  <2> QED
    BY <2>1, BytesType
<1>2. all \in Seq(Nat) /\ Len(all) = m + n /\ \A i \in 1 .. m + n : all[i] = i
  <2>1. 0 <= m + n /\ m + n \in Nat /\ (m + n) - 0 = m + n /\ \A i \in 1 .. m + n : 0 + i = i
    OBVIOUS
  <2> QED
    BY <2>1, BytesType
<1>3. right \in Seq(Nat) /\ Len(right) = n /\ \A i \in 1 .. n : right[i] = m + i
  <2>1. m <= m + n /\ m + n \in Nat /\ (m + n) - m = n
    OBVIOUS
  <2>2. right \in Seq(Nat) /\ Len(right) = (m + n) - m
    BY <2>1, BytesType
  <2>3. right = [i \in 1 .. n |-> m + i]
    BY <2>1 DEF Bytes
  <2> HIDE DEF right
  <2>4. \A i \in 1 .. n : right[i] = m + i
    BY <2>3
  <2> QED
    BY <2>1, <2>2, <2>4
<1> HIDE DEF left, right, all
<1>4. /\ left \o right \in Seq(Nat) /\ Len(left \o right) = m + n
      /\ \A i \in 1 .. m + n : (left \o right)[i] = IF i <= m THEN left[i] ELSE right[i - m]
  BY <1>1, <1>3, ConcatProperties
<1>5. \A i \in 1 .. m + n : (left \o right)[i] = all[i]
  <2> SUFFICES ASSUME NEW i \in 1 .. m + n PROVE (left \o right)[i] = i
    BY <1>2
  <2>1. CASE i <= m
    BY <1>1, <1>4, <2>1
  <2>2. CASE i > m
    BY <1>3, <1>4, <2>2
  <2>3. i <= m \/ i > m
    OBVIOUS
  <2> QED
    BY <2>1, <2>2, <2>3
<1>6. left \o right = all
  BY <1>2, <1>4, <1>5, SeqEqual
<1> QED
  BY <1>6 DEF left, right, all

\* The first part of the bytes from 1 to n is the bytes up to its length.
LEMMA PrefixOfBytes ==
    ASSUME NEW n \in Nat, NEW s \in Seq(Nat), NEW t \in Seq(Nat), s \o t = Bytes(0, n)
    PROVE  s = [i \in 1 .. Len(s) |-> i] /\ Len(s) \in Nat /\ Len(s) <= n
<1>1. Len(Bytes(0, n)) = n /\ \A i \in 1 .. n : Bytes(0, n)[i] = i
  <2>1. 0 <= n /\ n - 0 = n /\ \A i \in 1 .. n : 0 + i = i
    OBVIOUS
  <2> QED
    BY <2>1, BytesType
<1>2. /\ Len(s \o t) = Len(s) + Len(t)
      /\ \A i \in 1 .. Len(s) + Len(t) : (s \o t)[i] = IF i <= Len(s) THEN s[i] ELSE t[i - Len(s)]
      /\ Len(s) \in Nat /\ Len(t) \in Nat
      /\ s \in [1 .. Len(s) -> Nat]
  <2>1. Len(s) \in Nat /\ Len(t) \in Nat /\ s \in [1 .. Len(s) -> Nat]
    BY LenProperties
  <2> QED
    BY <2>1, ConcatProperties
<1>3. Len(s) + Len(t) = n
  BY <1>1, <1>2
<1>4. ASSUME NEW i \in 1 .. Len(s) PROVE s[i] = i
  <2>1. i \in 1 .. n /\ i \in 1 .. Len(s) + Len(t) /\ i <= Len(s)
    BY <1>2, <1>3
  <2> QED
    BY <1>1, <1>2, <2>1
<1>5. s = [i \in 1 .. Len(s) |-> i]
  BY <1>2, <1>4
<1> QED
  BY <1>2, <1>3, <1>5

\* Nothing was refused, everything is in its place, and nothing is in the blob
\* before it is created.
WholeInv ==
    /\ TypeInv
    /\ AllAccountedFor
    /\ wpc = "create" \/ created
    /\ wpc = "create" => blob = <<>>

\* The blob is still empty when it is created.
LEMMA CreateKeepsBlob ==
    ASSUME WholeInv, Create
    PROVE  blob' = blob
  BY DEF WholeInv, Create

\* The parts are sequences of numbers, which the facts about sequences need.
LEMMA HeldSeq ==
    ASSUME TypeInv
    PROVE  /\ blob \in Seq(Nat) /\ chunk \in Seq(Nat) /\ stream \in Seq(Nat)
           /\ written \in Nat /\ <<>> \in Seq(Nat)
<1>1. 1 .. written \subseteq Nat /\ written \in Nat
  BY AppendAssumption DEF TypeInv, TypeOK
<1> QED
  BY <1>1, SeqMonotonic, EmptySeq DEF TypeInv, Held

\* Every step keeps the bytes together when no chunk is cut or refused.
LEMMA WholeStep ==
    ASSUME ~Failures, MaxBytes <= ChunkMax, WholeInv, [Next]_vars
    PROVE  WholeInv'
<1>0. TypeInv /\ TypeInv' /\ AllAccountedFor
  BY TypeStep DEF WholeInv, AnyStep
<1>1. /\ blob \in Seq(Nat) /\ chunk \in Seq(Nat) /\ stream \in Seq(Nat)
      /\ written \in Nat /\ <<>> \in Seq(Nat)
  BY <1>0, HeldSeq
<1>2. ASSUME NEW n \in Sizes, AppendBytes(n) PROVE WholeInv'
  <2> DEFINE new == Bytes(written, written + n)
  <2>1. n \in Nat
    BY AppendAssumption
  <2>2. new \in Seq(Nat)
    BY <1>1, <2>1, BytesType
  <2>3. Bytes(0, written) \o new = Bytes(0, written + n)
    BY <1>1, <2>1, BytesConcat
  <2> HIDE DEF new
  <2>4. (blob \o chunk) \in Seq(Nat)
    BY <1>1, ConcatProperties
  <2>5. ((blob \o chunk) \o stream) \o new = (blob \o chunk) \o (stream \o new)
    BY <1>1, <2>2, <2>4, NatAssociative
  <2>6. AllAccountedFor'
    BY <1>0, <1>2, <2>3, <2>5 DEF AppendBytes, AllAccountedFor, new, Bytes
  <2>7. (wpc = "create" \/ created)' /\ (wpc = "create" => blob = <<>>)'
    BY <1>2 DEF WholeInv, AppendBytes, WakeWorker
  <2> QED
    BY <1>0, <2>6, <2>7 DEF WholeInv
<1>3. CASE Take
  <2>1. stream \in Seq(1 .. written) /\ Len(stream) \in Nat /\ chunk = <<>>
    BY <1>3, LenProperties DEF WholeInv, TypeInv, TypeOK, Held, Take
  <2>2. Len(stream) <= written
    <3>1. /\ Len((blob \o chunk) \o stream) = Len(blob \o chunk) + Len(stream)
          /\ Len(blob \o chunk) \in Nat
      BY <1>1, ConcatProperties, LenProperties
    <3>2. Len(Bytes(0, written)) = written
      BY <1>1, BytesType
    <3> QED
      BY <1>0, <1>1, <2>1, <3>1, <3>2 DEF AllAccountedFor
  <2>3. Len(stream) <= ChunkMax
    BY <1>1, <2>1, <2>2, AppendAssumption DEF WholeInv, TypeInv, TypeOK
  <2>4. chunk' = stream /\ stream' = <<>> /\ UNCHANGED <<blob, written, created>> /\ wpc' = "send"
    BY <1>3, <2>1, <2>3, AppendAssumption DEF Take
  <2>5. blob \o chunk = blob /\ blob \o stream \in Seq(Nat)
    BY <1>1, <2>1, ConcatEmptySeq, ConcatProperties
  <2>6. (blob \o stream) \o <<>> = blob \o stream
    BY <2>5, ConcatEmptySeq
  <2>7. AllAccountedFor'
    BY <1>0, <2>4, <2>5, <2>6 DEF AllAccountedFor, Bytes
  <2>8. created
    BY <1>3 DEF WholeInv, Take
  <2> QED
    BY <1>0, <2>4, <2>7, <2>8 DEF WholeInv
<1>4. CASE Send
  <2>1. created
    BY <1>4 DEF WholeInv, Send
  <2>2. /\ blob' = blob \o chunk /\ chunk' = <<>>
        /\ UNCHANGED <<stream, written, created>>
    BY <1>4, <2>1 DEF Send
  <2>3. (blob \o chunk) \o <<>> = blob \o chunk
    BY <1>1, ConcatProperties, ConcatEmptySeq
  <2>4. AllAccountedFor'
    BY <1>0, <2>2, <2>3 DEF AllAccountedFor, Bytes
  <2> QED
    BY <1>0, <1>4, <2>1, <2>2, <2>4 DEF WholeInv, Send
<1>5. CASE Create
  <2>1. created'
    BY <1>5 DEF Create
  <2>2. AllAccountedFor'
    BY <1>0, <1>5, CreateKeepsBlob DEF Create, AllAccountedFor, Bytes
  <2> QED
    BY <1>0, <1>5, <2>1, <2>2 DEF WholeInv, Create
<1>6. ASSUME UNCHANGED <<stream, chunk, blob, written, created>>,
             wpc' = "create" <=> wpc = "create"
      PROVE  WholeInv'
  BY <1>0, <1>6 DEF WholeInv, AllAccountedFor, Bytes
<1>7. CASE \/ \E call \in ClientCalls : BeginFlush(call)
           \/ EndFlush \/ SetStopped \/ NotifyStop \/ Join
           \/ Test \/ Finish \/ Wait \/ Park \/ UNCHANGED vars
  BY <1>6, <1>7 DEF BeginFlush, EndFlush, SetStopped, NotifyStop, WakeWorker, Join,
                    Test, Finish, Wait, Park, vars
<1> QED
  BY <1>2, <1>3, <1>4, <1>5, <1>7 DEF Next, ClientStep, WorkerStep

\* Initially nothing has been appended.
LEMMA WholeInit == Init => WholeInv
<1> SUFFICES ASSUME Init PROVE WholeInv
  OBVIOUS
<1>1. TypeInv
  BY TypeInit
<1>2. Bytes(0, 0) \in Seq(Nat) /\ Len(Bytes(0, 0)) = 0
  BY BytesType
<1>3. Bytes(0, 0) = <<>>
  BY <1>2, EmptySeq
<1>4. <<>> \o <<>> \o <<>> = <<>>
  BY EmptySeq, ConcatEmptySeq
<1> QED
  BY <1>1, <1>3, <1>4 DEF Init, WholeInv, AllAccountedFor

\* If no request fails and no more is appended than fits in one Append Block,
\* every byte is in the blob, on its way or in the stream, once and in order.
THEOREM AccountedForHolds ==
    ASSUME ~Failures, MaxBytes <= ChunkMax
    PROVE  Spec => []AllAccountedFor
<1>1. WholeInv /\ [Next]_vars => WholeInv'
  BY WholeStep
<1>2. WholeInv => AllAccountedFor
  BY DEF WholeInv
<1> QED
  BY WholeInit, <1>1, <1>2, PTL DEF Spec

\* What the invariant says of the blob.
LEMMA BlobShape ==
    ASSUME WholeInv
    PROVE  blob = Log!Prefix(Len(blob)) /\ Len(blob) \in Nat /\ Len(blob) <= written
<1>1. /\ blob \in Seq(Nat) /\ chunk \in Seq(Nat) /\ stream \in Seq(Nat) /\ written \in Nat
  BY HeldSeq DEF WholeInv
<1>2. chunk \o stream \in Seq(Nat) /\ blob \o (chunk \o stream) = Bytes(0, written)
  <2>1. (blob \o chunk) \o stream = blob \o (chunk \o stream)
    BY <1>1, NatAssociative
  <2>2. (blob \o chunk) \o stream = Bytes(0, written)
    BY DEF WholeInv, AllAccountedFor
  <2>3. chunk \o stream \in Seq(Nat)
    BY <1>1, NatConcat
  <2> QED
    BY <2>1, <2>2, <2>3
<1> QED
  BY <1>1, <1>2, PrefixOfBytes DEF Log!Prefix

\* Under the same condition the append uploader implements the abstract blob: an
\* append accepts, a send extends, and every other step stutters.
THEOREM ImplementsBlobLogHolds ==
    ASSUME ~Failures, MaxBytes <= ChunkMax
    PROVE  Spec => ImplementsBlobLog
<1>1. Init => Log!Init
  <2>1. Log!Prefix(0) = <<>>
    BY DEF Log!Prefix
  <2> QED
    BY <2>1 DEF Init, Log!Init
<1>2. WholeInv /\ [Next]_vars => WholeInv'
  BY WholeStep
<1>3. WholeInv /\ WholeInv' /\ [Next]_vars => [Log!Next]_Log!vars
  <2> SUFFICES ASSUME WholeInv, WholeInv', [Next]_vars PROVE [Log!Next]_Log!vars
    OBVIOUS
  <2>1. ASSUME NEW n \in Sizes, AppendBytes(n) PROVE Log!Accept
    <3>1. written \in Nat /\ n \in Nat \ {0}
      BY HeldSeq, AppendAssumption DEF WholeInv
    <3> QED
      BY <2>1, <3>1 DEF AppendBytes, Log!Accept
  <2>2. CASE Send
    <3>1. CASE blob' = blob
      BY <2>2, <3>1 DEF Send, Log!vars
    <3>2. CASE blob' = blob \o chunk
      <4>1. Len(blob') = Len(blob) + Len(chunk) /\ Len(chunk) \in Nat
        BY <3>2, HeldSeq, ConcatProperties, LenProperties DEF WholeInv
      <4>2. written' = written
        BY <2>2 DEF Send
      <4>3. blob' = Log!Prefix(Len(blob')) /\ Len(blob') \in Nat /\ Len(blob') <= written
        <5>1. (blob = Log!Prefix(Len(blob)) /\ Len(blob) \in Nat /\ Len(blob) <= written)'
          BY BlobShape, PTL
        <5> QED
          BY <4>2, <5>1 DEF Log!Prefix
      <4>4. Len(blob) \in Nat /\ written \in Nat
        BY BlobShape, HeldSeq DEF WholeInv
      <4>5. Len(blob') \in Len(blob) .. written
        BY <4>1, <4>3, <4>4
      <4>6. Log!Extend
        BY <4>2, <4>3, <4>5 DEF Log!Extend
      <4> QED
        BY <4>6 DEF Log!Next
    <3> QED
      BY <2>2, <3>1, <3>2 DEF Send
  <2>3. ASSUME UNCHANGED <<written, blob>> PROVE UNCHANGED Log!vars
    BY <2>3 DEF Log!vars
  <2>4. CASE Create
    BY <2>3, <2>4, CreateKeepsBlob DEF WholeInv, Create
  <2> QED
    BY <2>1, <2>2, <2>3, <2>4
       DEF Next, ClientStep, WorkerStep, BeginFlush, EndFlush, SetStopped, NotifyStop, Join,
           Test, Finish, Wait, Park, Take, vars, Log!Next
<1> QED
  BY WholeInit, <1>1, <1>2, <1>3, PTL DEF Spec, ImplementsBlobLog, Log!Spec
==============================================================================

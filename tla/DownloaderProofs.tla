-------------------------- MODULE DownloaderProofs ---------------------------
(***************************************************************************)
(* Proofs about Downloader, for any workers, any blob, block size and      *)
(* prefetch, and any sequence of seeks and of reads inside the blob.       *)
(***************************************************************************)
EXTENDS Downloader, FiniteSetTheorems, WellFoundedInduction, TLAPS

------------------------------------------------------------------------------
(* Facts about numbers *)

Less == {p \in Nat \X Nat : p[1] < p[2]}

\* Every set of naturals but the empty one has a least element.
LEMMA LeastElement ==
    ASSUME NEW S, S \subseteq Nat, S # {}
    PROVE  \E x \in S : \A y \in S : x <= y
<1>1. IsWellFoundedOn(Less, Nat)
  BY NatLessThanWellFounded, Zenon DEF OpToRel, Less
<1>2. PICK x \in S : \A y \in S : <<y, x>> \notin Less
  BY <1>1, WFMin, Zenon
<1>3. x \in Nat /\ \A y \in S : y \in Nat /\ ~(y < x)
  BY <1>2 DEF Less
<1> QED
  BY <1>3

\* The quotient of a division, and the next multiple.
LEMMA Quotient ==
    ASSUME NEW d \in Nat, NEW k \in Nat \ {0}
    PROVE  /\ d \div k \in Nat
           /\ (d \div k) * k <= d
           /\ d < (d \div k) * k + k
OBVIOUS

\* Multiples are ordered as their factors.
LEMMA Multiples ==
    ASSUME NEW i \in Nat, NEW j \in Nat, i <= j, NEW k \in Nat
    PROVE  i * k \in Nat /\ i * k <= j * k
OBVIOUS

\* The distance of two multiples.
LEMMA NextMultiple ==
    ASSUME NEW i \in Nat, NEW k \in Nat
    PROVE  (i + 1) * k = i * k + k
OBVIOUS

\* The multiples of k below d are those of the factors below the quotient of d by
\* k, rounded up (lines 68-73); each number up to the last is in one of the intervals.
LEMMA Grid ==
    ASSUME NEW d \in Nat \ {0}, NEW k \in Nat \ {0}, NEW n, n = (d + k - 1) \div k
    PROVE  /\ n \in Nat \ {0}
           /\ \A i \in 0 .. n - 1 : i * k \in Nat /\ i * k < d
           /\ \A c \in Nat : c < n * k => \E i \in 0 .. n - 1 : i * k <= c /\ c < i * k + k
<1>1. d + k - 1 \in Nat
  OBVIOUS
<1>2. n \in Nat /\ n * k <= d + k - 1 /\ d + k - 1 < n * k + k
  BY <1>1, Quotient
<1>3. n # 0
  <2>1. 0 * k = 0
    OBVIOUS
  <2> QED
    BY <1>2, <2>1
<1>4. ASSUME NEW i \in 0 .. n - 1 PROVE i * k \in Nat /\ i * k < d
  <2>1. i \in Nat /\ i + 1 \in Nat /\ i + 1 <= n
    BY <1>2
  <2>2. i * k \in Nat /\ i * k + k <= n * k
    <3>1. (i + 1) * k <= n * k
      BY <1>2, <2>1, Multiples
    <3>2. (i + 1) * k = i * k + k
      BY <2>1, NextMultiple
    <3> QED
      BY <2>1, <3>1, <3>2
  <2> QED
    BY <1>2, <2>2
<1>5. ASSUME NEW c \in Nat, c < n * k
      PROVE  \E i \in 0 .. n - 1 : i * k <= c /\ c < i * k + k
  <2> DEFINE q == c \div k
  <2>1. q \in Nat /\ q * k <= c /\ c < q * k + k
    BY Quotient
  <2>2. ASSUME n <= q PROVE FALSE
    <3>1. n * k <= q * k
      BY <1>2, <2>1, <2>2, Multiples
    <3> QED
      BY <1>2, <1>5, <2>1, <3>1
  <2>3. q \in 0 .. n - 1
    BY <1>2, <2>1, <2>2
  <2> QED
    BY <2>1, <2>3
<1> QED
  BY <1>2, <1>3, <1>4, <1>5

------------------------------------------------------------------------------
(* Facts about blocks and windows *)

Begins == 0 .. BlobSize - 1  \* where a block may begin

\* A block that begins inside the blob ends behind its beginning.
LEMMA EndShape ==
    ASSUME NEW o \in Begins
    PROVE  /\ End(o) \in Nat /\ o < End(o) /\ End(o) <= BlobSize
           /\ End(o) <= o + BlockSize
BY DownloaderAssumption DEF Begins, End, Lower

\* The front of a window that has one is its block of the lowest offset.
LEMMA FrontShape ==
    ASSUME Offsets \subseteq Nat, Offsets # {}
    PROVE  Front \in Offsets /\ \A p \in Offsets : Front <= p
<1>1. \E o \in Offsets : \A p \in Offsets : o <= p
  BY LeastElement, Zenon
<1> QED
  BY <1>1, Zenon DEF Front

\* Putting a block into a window.
LEMMA Deliverable ==
    ASSUME NEW W, IsABag(W), NEW o
    PROVE  LET X == W (+) SetToBag({o}) IN
           /\ IsABag(X) /\ DOMAIN X = DOMAIN W \cup {o}
<1> DEFINE X == W (+) SetToBag({o})
<1>1. /\ DOMAIN X = DOMAIN W \cup {o}
      /\ X = [e \in DOMAIN X |-> X[e]]
  BY DEF SetToBag, (+)
<1>2. ASSUME NEW e \in DOMAIN X PROVE X[e] \in {n \in Nat : n > 0}
  <2>1. X[e] = (IF e \in DOMAIN W THEN W[e] ELSE 0) + (IF e \in {o} THEN 1 ELSE 0)
    BY <1>1 DEF SetToBag, (+)
  <2> QED
    BY <1>1, <2>1 DEF IsABag
<1> QED
  BY <1>1, <1>2 DEF IsABag

\* Removing a block leaves the others.
LEMMA Removable ==
    ASSUME IsABag(window), NEW o \in Offsets
    PROVE  /\ IsABag(Remove(o)) /\ DOMAIN Remove(o) \subseteq Offsets
           /\ \A e \in Offsets \ {o} : e \in DOMAIN Remove(o)
<1> DEFINE less == [e \in DOMAIN window |-> IF e \in {o} THEN window[e] - 1 ELSE window[e]]
<1> DEFINE left == {e \in DOMAIN less : less[e] > 0}
<1>1. Remove(o) = [e \in left |-> less[e]]
  BY DEF Remove, (-), SetToBag
<1>2. \A e \in DOMAIN window : window[e] \in Nat /\ window[e] > 0
  BY DEF IsABag
<1>3. \A e \in left : less[e] \in {n \in Nat : n > 0}
  BY <1>2
<1>4. \A e \in DOMAIN window \ {o} : e \in left
  BY <1>2
<1> HIDE DEF less
<1>5. left \subseteq DOMAIN window
  BY DEF less
<1> QED
  BY <1>1, <1>3, <1>4, <1>5 DEF IsABag, Offsets, BagToSet

\* A run of n offsets from k on.
LEMMA Run ==
    ASSUME NEW n \in Nat, NEW k \in Nat
    PROVE  LET run == [i \in 1 .. n |-> k + i - 1] IN
           /\ run \in Seq(Nat) /\ Len(run) = n
           /\ \A i \in 1 .. n : run[i] = k + i - 1
<1> DEFINE run == [i \in 1 .. n |-> k + i - 1]
<1>1. \A i \in 1 .. n : k + i - 1 \in Nat
  OBVIOUS
<1>2. run \in [1 .. n -> Nat]
  BY <1>1
<1> QED
  BY <1>2

\* The two parts of a concatenation.
LEMMA Concatenation ==
    ASSUME NEW s \in Seq(Nat), NEW t \in Seq(Nat)
    PROVE  /\ s \o t \in Seq(Nat) /\ Len(s \o t) = Len(s) + Len(t)
           /\ \A i \in 1 .. Len(s) : (s \o t)[i] = s[i]
           /\ \A i \in 1 .. Len(t) : (s \o t)[Len(s) + i] = t[i]
OBVIOUS

\* The bytes of a block between two offsets (line 89).
LEMMA CopiedShape ==
    ASSUME NEW o \in Begins, NEW first \in Nat, NEW next \in Nat,
           o <= first, first <= next, next <= End(o)
    PROVE  LET copied == SubSeq(BytesOf(o), first - o + 1, next - o) IN
           /\ copied \in Seq(Nat) /\ Len(copied) = next - first
           /\ \A i \in 1 .. next - first : copied[i] = first + i - 1
<1>1. o \in Nat /\ End(o) \in Nat /\ o < End(o)
  BY EndShape, DownloaderAssumption DEF Begins
<1>2. /\ BytesOf(o) \in Seq(Nat) /\ Len(BytesOf(o)) = End(o) - o
      /\ \A i \in 1 .. End(o) - o : BytesOf(o)[i] = o + i - 1
  BY <1>1, Run DEF BytesOf
<1> DEFINE a == first - o + 1
<1> DEFINE b == next - o
<1>3. a \in Nat \ {0} /\ b \in Nat /\ b <= Len(BytesOf(o)) /\ b - a + 1 = next - first
  BY <1>1, <1>2
<1> HIDE DEF a, b
<1>4. SubSeq(BytesOf(o), a, b) = [i \in 1 .. b - a + 1 |-> BytesOf(o)[a + i - 1]]
  BY <1>2, <1>3
<1>5. \A i \in 1 .. next - first : BytesOf(o)[a + i - 1] = first + i - 1
  BY <1>1, <1>2 DEF a
<1>6. SubSeq(BytesOf(o), a, b) = [i \in 1 .. next - first |-> first + i - 1]
  BY <1>3, <1>4, <1>5
<1>7. next - first \in Nat
  OBVIOUS
<1> QED
  BY <1>6, <1>7, Run DEF a, b

\* The requests of a read (lines 68-73): they begin inside the blob, and they
\* cover the bytes from write_cursor to the end of the last one.
LEMMA RequestedShape ==
    ASSUME write_cursor \in Nat, NEW limit \in 0 .. BlobSize
    PROVE  /\ Requested(limit) \in Seq(Begins)
           /\ Requested(limit) # <<>> =>
                LET end == End(Requested(limit)[Len(Requested(limit))]) IN
                /\ end \in Nat
                /\ \A b \in Nat : write_cursor <= b /\ b < end =>
                     \E i \in DOMAIN Requested(limit) : Covers(Requested(limit)[i], b)
<1> DEFINE n == (limit - write_cursor + BlockSize - 1) \div BlockSize
<1> DEFINE new == [i \in 1 .. n |-> write_cursor + (i - 1) * BlockSize]
<1>0. BlockSize \in Nat \ {0} /\ BlobSize \in Nat
  BY DownloaderAssumption
<1>1. CASE write_cursor >= limit
  BY <1>1 DEF Requested
<1>2. CASE write_cursor < limit
  <2>1. Requested(limit) = new
    BY <1>0, <1>2 DEF Requested
  <2>2. limit - write_cursor \in Nat \ {0}
    BY <1>0, <1>2
  <2>3. /\ n \in Nat \ {0}
        /\ \A i \in 0 .. n - 1 : i * BlockSize \in Nat /\ i * BlockSize < limit - write_cursor
        /\ \A c \in Nat : c < n * BlockSize =>
             \E i \in 0 .. n - 1 : i * BlockSize <= c /\ c < i * BlockSize + BlockSize
    BY <1>0, <2>2, Grid
  <2> HIDE DEF n
  <2>4. ASSUME NEW i \in 0 .. n - 1
        PROVE  /\ i + 1 \in 1 .. n /\ new[i + 1] = write_cursor + i * BlockSize
               /\ new[i + 1] \in Begins
    <3>1. i + 1 \in 1 .. n /\ (i + 1) - 1 = i
      BY <2>3
    <3>2. i * BlockSize \in Nat /\ i * BlockSize < limit - write_cursor
      BY <2>3
    <3> QED
      BY <1>0, <3>1, <3>2 DEF Begins
  <2>5. \A j \in 1 .. n : j - 1 \in 0 .. n - 1 /\ (j - 1) + 1 = j
    BY <2>3
  <2>6. \A j \in 1 .. n : new[j] \in Begins
    BY <2>4, <2>5
  <2> HIDE DEF new
  <2>7. new \in Seq(Begins) /\ Len(new) = n /\ DOMAIN new = 1 .. n
    <3>1. new = [j \in 1 .. n |-> new[j]]
      BY DEF new
    <3>2. new \in [1 .. n -> Begins]
      BY <2>6, <3>1
    <3> QED
      BY <2>3, <3>2
  <2>8. End(new[n]) \in Nat /\ End(new[n]) <= new[n] + BlockSize /\ End(new[n]) <= BlobSize
    BY <2>3, <2>6, EndShape
  <2>9. End(new[n]) <= write_cursor + n * BlockSize
    <3>1. n - 1 \in 0 .. n - 1 /\ (n - 1) + 1 = n
      BY <2>3
    <3>2. new[n] = write_cursor + (n - 1) * BlockSize
      BY <2>4, <3>1
    <3>3. n * BlockSize = (n - 1) * BlockSize + BlockSize
      BY <1>0, <3>1, NextMultiple
    <3>4. (n - 1) * BlockSize \in Nat
      BY <2>3, <3>1
    <3> QED
      BY <1>0, <2>8, <3>2, <3>3, <3>4
  <2>10. ASSUME NEW b \in Nat, write_cursor <= b, b < End(new[n])
         PROVE  \E j \in 1 .. n : Covers(new[j], b)
    <3>1. b - write_cursor \in Nat
      BY <2>10
    <3>2. b - write_cursor < n * BlockSize
      <4>1. n * BlockSize \in Nat
        BY <1>0, <2>3
      <4> QED
        BY <2>8, <2>9, <2>10, <4>1
    <3>3. PICK i \in 0 .. n - 1 : /\ i * BlockSize <= b - write_cursor
                                  /\ b - write_cursor < i * BlockSize + BlockSize
      BY <2>3, <3>1, <3>2
    <3>4. i * BlockSize \in Nat /\ i + 1 \in 1 .. n /\ new[i + 1] = write_cursor + i * BlockSize
      BY <2>3, <2>4
    <3>5. Covers(new[i + 1], b)
      BY <1>0, <2>8, <2>10, <3>3, <3>4 DEF Covers, End, Lower
    <3> QED
      BY <3>4, <3>5
  <2> QED
    BY <2>1, <2>3, <2>7, <2>8, <2>10
<1> QED
  BY <1>0, <1>1, <1>2

------------------------------------------------------------------------------
(* Types *)

\* A step of the downloader, whatever its caller asks for: the element, which has
\* a Downloader too, reads as much as is left and seeks wherever it is told.
AnyStep ==
    \/ \E size \in Nat \ {0} : BeginRead(size)
    \/ \E offset \in Nat : Seek(offset)
    \/ InRead \/ CloseReqs \/ Join
    \/ \E w \in Workers : Worker(w)
    \/ UNCHANGED vars

\* The steps of this module are such steps.
LEMMA NextIsAny == [Next]_vars => AnyStep
BY DownloaderAssumption DEF Next, Reader, AnyStep

\* Whatever is requested, downloaded or stored begins inside the blob: None,
\* which is no offset, is not among the requests.
InBlob ==
    /\ reqs \in Seq(Begins)
    /\ job \in [Workers -> Begins \cup {None}]
    /\ Offsets \subseteq Begins

TypeInv == TypeOK /\ InBlob

\* Offsets are naturals.
LEMMA SeqOfBegins ==
    ASSUME NEW s \in Seq(Begins)
    PROVE  s \in Seq(Nat)
<1>1. \A i \in 1 .. Len(s) : s[i] \in Nat
  BY DownloaderAssumption DEF Begins
<1>2. s \in [1 .. Len(s) -> Nat] /\ Len(s) \in Nat
  BY <1>1
<1> QED
  BY <1>2

\* The types hold when init() has started the threads.
LEMMA TypeInit == Init => TypeInv
<1> SUFFICES ASSUME Init PROVE TypeInv
  OBVIOUS
<1>1. IsABag(window) /\ Offsets = {}
  BY DEF Init, Constructed, EmptyBag, SetToBag, IsABag, Offsets, BagToSet
<1>2. reqs \in Seq(Begins) /\ reqs \in Seq(Nat)
  BY DEF Init, Constructed, Reqs!Init
<1>3. TypeOK
  <2>1. /\ read_cursor \in Nat /\ write_cursor \in Nat
        /\ from \in Nat /\ target \in Nat /\ buffer \in Seq(Nat)
        /\ cpc \in {"idle", "reading", "waiting", "join", "destroyed"}
    BY DEF Init, Constructed
  <2>2. /\ job \in [Workers -> Nat \cup {None}]
        /\ wpc \in [Workers -> {"pop", "download", "exited", "stranded"}]
        /\ \A w \in Workers : job[w] # None <=> wpc[w] = "download"
    BY DEF Init, Constructed
  <2>3. reqsClosed \in BOOLEAN /\ sought \in BOOLEAN
    BY Zenon DEF Init, Constructed, Reqs!Init
  <2> QED
    BY <1>1, <1>2, <2>1, <2>2, <2>3, Zenon DEF TypeOK
<1>4. InBlob
  BY <1>1, <1>2 DEF Init, Constructed, InBlob
<1> QED
  BY <1>3, <1>4 DEF TypeInv

\* Every step keeps them.
LEMMA TypeStep ==
    ASSUME TypeInv, AnyStep
    PROVE  TypeInv'
<1> USE DEF TypeInv, cursors, channel, call
<1>0. /\ BlobSize \in Nat /\ BlockSize \in Nat \ {0} /\ Prefetch \in Nat
      /\ ReadSizes \subseteq Nat \ {0} /\ SeekOffsets \subseteq Nat
      /\ None = BlobSize /\ Begins \subseteq Nat /\ None \notin Begins
  BY DownloaderAssumption DEF None, Begins
<1>1. ASSUME NEW size \in Nat \ {0}, BeginRead(size)
      PROVE  TypeInv'
  <2> DEFINE limit == Lower(BlobSize, read_cursor + size + Prefetch * BlockSize)
  <2>1. limit \in 0 .. BlobSize /\ size \in Nat
    <3>1. Prefetch * BlockSize \in Nat
      BY <1>0
    <3>2. read_cursor + size + Prefetch * BlockSize \in Nat
      BY <3>1 DEF TypeOK
    <3> QED
      BY <1>0, <3>2 DEF Lower
  <2>2. /\ reqs' = reqs \o Requested(limit)
        /\ write_cursor' = IF Requested(limit) = <<>> THEN write_cursor
                           ELSE End(Requested(limit)[Len(Requested(limit))])
        /\ from' = read_cursor /\ target' = read_cursor + size /\ buffer' = <<>>
        /\ cpc' = "reading"
        /\ UNCHANGED <<read_cursor, window, reqsClosed, job, wpc, sought>>
    BY <1>1 DEF BeginRead, Needed
  <2> HIDE DEF limit
  <2>3. Requested(limit) \in Seq(Begins) /\ write_cursor' \in Nat
    BY <2>1, <2>2, RequestedShape DEF TypeOK
  <2>4. reqs' \in Seq(Begins) /\ reqs' \in Seq(Nat)
    <3>1. reqs' \in Seq(Begins)
      BY <2>2, <2>3 DEF InBlob
    <3> QED
      BY <3>1, SeqOfBegins
  <2> QED
    BY <2>1, <2>2, <2>3, <2>4 DEF TypeOK, InBlob, Offsets, BagToSet
<1>2. ASSUME NEW offset \in Nat, Seek(offset) PROVE TypeInv'
  <2>1. window' = <<>> /\ IsABag(window') /\ Offsets' = {}
    BY <1>2 DEF Seek, EmptyBag, SetToBag, IsABag, Offsets, BagToSet
  <2> QED
    BY <1>0, <1>2, <2>1 DEF Seek, TypeOK, InBlob
<1>3. ASSUME WaitBlock \/ Wake \/ EndRead PROVE TypeInv'
  BY <1>3 DEF WaitBlock, Wake, EndRead, TypeOK, InBlob, Offsets, BagToSet
<1>4. ASSUME DropStale \/ CopyBlock PROVE TypeInv'
  <2>1. Front \in Offsets /\ Front \in Begins
    BY <1>0, <1>4, FrontShape DEF DropStale, CopyBlock, FrontUsable, TypeOK, InBlob
  <2>2. window' \in {window, Remove(Front)}
    BY <1>4 DEF DropStale, CopyBlock
  <2>3. IsABag(window') /\ Offsets' \subseteq Offsets
    BY <2>1, <2>2, Removable DEF TypeOK, Offsets, BagToSet
  <2>4. CASE DropStale
    BY <1>4, <2>3, <2>4 DEF DropStale, TypeOK, InBlob
  <2>5. CASE CopyBlock
    <3> DEFINE new == Lower(target, End(Front))
    <3>1. End(Front) \in Nat /\ new \in Nat
      BY <2>1, EndShape DEF TypeOK, Lower
    <3>2. SubSeq(BytesOf(Front), read_cursor - Front + 1, new - Front) \in Seq(Nat)
      <4>1. Front <= read_cursor /\ read_cursor <= new /\ new <= End(Front)
        BY <2>5, <3>1 DEF CopyBlock, FrontUsable, TypeOK, Lower
      <4> QED
        BY <2>1, <3>1, <4>1, CopiedShape DEF TypeOK
    <3>3. buffer' \in Seq(Nat)
      BY <2>5, <3>2 DEF CopyBlock, TypeOK
    <3>4. read_cursor' \in Nat
      BY <2>5, <3>1 DEF CopyBlock
    <3> QED
      BY <2>3, <2>5, <3>3, <3>4 DEF CopyBlock, TypeOK, InBlob
  <2> QED
    BY <1>4, <2>4, <2>5
<1>5. ASSUME CloseReqs PROVE TypeInv'
  BY <1>5 DEF CloseReqs, Reqs!Close, TypeOK, InBlob, Offsets, BagToSet
<1>6. ASSUME Join PROVE TypeInv'
  BY <1>6 DEF Join, TypeOK, InBlob, Offsets, BagToSet
<1>7. ASSUME NEW w \in Workers, TakeRequest(w) PROVE TypeInv'
  <2>1. /\ reqs # <<>> /\ reqs' = Tail(reqs) /\ job' = [job EXCEPT ![w] = Head(reqs)]
        /\ wpc' = [wpc EXCEPT ![w] = "download"]
        /\ UNCHANGED <<cursors, window, reqsClosed, cpc, call, sought>>
    BY <1>7 DEF TakeRequest, Reqs!Pop
  <2>2. Head(reqs) \in Begins /\ reqs' \in Seq(Begins) /\ reqs' \in Seq(Nat)
    <3>1. Head(reqs) \in Begins /\ reqs' \in Seq(Begins)
      BY <2>1 DEF InBlob
    <3> QED
      BY <3>1, SeqOfBegins
  <2> QED
    BY <1>0, <2>1, <2>2 DEF TypeOK, InBlob, Offsets, BagToSet
<1>8. ASSUME NEW w \in Workers, Exit(w) PROVE TypeInv'
  BY <1>8 DEF Exit, TypeOK, InBlob, Offsets, BagToSet
<1>9. ASSUME NEW w \in Workers, Deliver(w) PROVE TypeInv'
  <2>1. job[w] \in Begins
    BY <1>9 DEF Deliver, TypeOK, InBlob
  <2>2. IsABag(window') /\ Offsets' = Offsets \cup {job[w]}
    BY <1>9, Deliverable DEF Deliver, TypeOK, Offsets, BagToSet
  <2> QED
    BY <1>0, <1>9, <2>1, <2>2 DEF Deliver, TypeOK, InBlob
<1>10. CASE UNCHANGED vars
  BY <1>10 DEF vars, TypeOK, InBlob, Offsets, BagToSet
<1> QED
  BY <1>1, <1>2, <1>3, <1>4, <1>5, <1>6, <1>7, <1>8, <1>9, <1>10 DEF AnyStep, InRead, Worker

\* The variables have their types, and a worker holds a request exactly while it
\* downloads (lines 133-160).
THEOREM TypeCorrect == Spec => []TypeOK
BY TypeInit, TypeStep, NextIsAny, PTL DEF Spec, TypeInv

------------------------------------------------------------------------------
(* read() copies the blob *)

\* While read() runs, and until the first seek after it too, read_cursor is as far
\* from its beginning as it has copied.
CopyInv ==
    /\ cpc \in {"reading", "waiting"} \/ ~sought => read_cursor = from + Len(buffer)
    /\ CopiesTheBlob

\* Nothing is copied initially.
LEMMA CopyInit == Init => CopyInv
BY DEF Init, Constructed, CopyInv, CopiesTheBlob

\* Every step keeps it: a call begins with an empty buffer at read_cursor, and
\* CopyBlock appends the bytes from read_cursor on.
LEMMA CopyStep ==
    ASSUME TypeInv, CopyInv, AnyStep
    PROVE  CopyInv'
<1> USE DEF cursors, channel, call
<1>1. ASSUME NEW size \in Nat \ {0}, BeginRead(size) PROVE CopyInv'
  <2>1. from' = read_cursor /\ read_cursor' = read_cursor /\ buffer' = <<>>
    BY <1>1 DEF BeginRead
  <2> QED
    BY <2>1 DEF CopyInv, CopiesTheBlob, TypeInv, TypeOK
<1>2. ASSUME NEW offset \in Nat, Seek(offset) PROVE CopyInv'
  BY <1>2 DEF Seek, CopyInv, CopiesTheBlob
<1>3. CASE CopyBlock
  <2> DEFINE new == Lower(target, End(Front))
  <2> DEFINE copied == SubSeq(BytesOf(Front), read_cursor - Front + 1, new - Front)
  <2>1. Front \in Begins
    BY <1>3, FrontShape, DownloaderAssumption
       DEF CopyBlock, FrontUsable, TypeInv, TypeOK, InBlob
  <2>2. /\ new \in Nat /\ Front <= read_cursor /\ read_cursor <= new /\ new <= End(Front)
    BY <1>3, <2>1, EndShape DEF CopyBlock, FrontUsable, TypeInv, TypeOK, Lower
  <2>3. /\ copied \in Seq(Nat) /\ Len(copied) = new - read_cursor
        /\ \A i \in 1 .. new - read_cursor : copied[i] = read_cursor + i - 1
    BY <2>1, <2>2, CopiedShape DEF TypeInv, TypeOK
  <2>4. /\ buffer' = buffer \o copied /\ read_cursor' = new /\ from' = from
        /\ cpc' = cpc /\ cpc = "reading"
    BY <1>3 DEF CopyBlock
  <2> HIDE DEF new, copied
  <2>5. read_cursor = from + Len(buffer)
    BY <2>4 DEF CopyInv
  <2>6. Len(buffer') = Len(buffer) + (new - read_cursor)
    <3>1. buffer \in Seq(Nat)
      BY DEF TypeInv, TypeOK
    <3>2. Len(buffer \o copied) = Len(buffer) + Len(copied)
      BY <2>3, <3>1, Concatenation
    <3> QED
      BY <2>3, <2>4, <3>2
  <2>7. ASSUME NEW i \in DOMAIN buffer' PROVE buffer'[i] = from + i - 1
    <3>1. buffer \in Seq(Nat) /\ from \in Nat /\ read_cursor \in Nat
      BY DEF TypeInv, TypeOK
    <3>2. CASE i <= Len(buffer)
      <4>1. buffer'[i] = buffer[i] /\ i \in DOMAIN buffer
        BY <2>3, <2>4, <2>7, <3>1, <3>2
      <4> QED
        BY <4>1 DEF CopyInv, CopiesTheBlob
    <3>3. CASE i > Len(buffer)
      <4> DEFINE j == i - Len(buffer)
      <4>0. j \in 1 .. Len(copied) /\ Len(buffer) + j = i
        BY <2>2, <2>3, <2>4, <2>6, <2>7, <3>1, <3>3
      <4>1. buffer'[i] = copied[i - Len(buffer)] /\ i - Len(buffer) \in 1 .. new - read_cursor
        BY <2>3, <2>4, <3>1, <4>0, Concatenation
      <4>2. copied[i - Len(buffer)] = read_cursor + (i - Len(buffer)) - 1
        BY <2>3, <4>1
      <4>3. i \in Nat /\ Len(buffer) \in Nat
        BY <2>3, <2>4, <2>7, <3>1
      <4> QED
        BY <2>5, <3>1, <4>1, <4>2, <4>3
    <3> QED
      BY <2>3, <2>4, <2>7, <3>1, <3>2, <3>3
  <2>8. read_cursor' = from' + Len(buffer')
    BY <2>2, <2>4, <2>5, <2>6 DEF TypeInv, TypeOK
  <2> QED
    BY <2>4, <2>7, <2>8 DEF CopyInv, CopiesTheBlob
<1>4. CASE \/ WaitBlock \/ Wake \/ DropStale \/ EndRead \/ CloseReqs \/ Join \/ UNCHANGED vars
           \/ \E w \in Workers : Worker(w)
  BY <1>4 DEF WaitBlock, Wake, DropStale, EndRead, CloseReqs, Join, vars, Worker, TakeRequest,
       Exit, Deliver, CopyInv, CopiesTheBlob
<1> QED
  BY <1>1, <1>2, <1>3, <1>4 DEF AnyStep, InRead

\* What read() copies is the blob from where the call began (lines 75-97),
\* although blocks arrive in any order and stale ones come first.
THEOREM CopiesTheBlobHolds == Spec => []CopiesTheBlob
<1>1. CopyInv => CopiesTheBlob
  BY DEF CopyInv
<1> QED
  BY TypeInit, TypeStep, CopyInit, CopyStep, <1>1, NextIsAny, PTL DEF Spec

------------------------------------------------------------------------------
(* Nothing that read() needs is missing *)

\* A block that is requested, downloaded or stored, however often.
Held(o) == \/ \E i \in DOMAIN reqs : reqs[i] = o
           \/ \E w \in Workers : job[w] = o
           \/ o \in Offsets

\* NothingMissing, for these blocks.
Supplied ==
    \A b \in Nat : read_cursor <= b /\ b < write_cursor =>
        \E o \in Begins : Held(o) /\ Covers(o, b)

\* They are the pending ones.
LEMMA HeldIsPending ==
    ASSUME TypeInv, NEW o \in Begins, Held(o)
    PROVE  o \in Pending
<1>1. Copies(o) # {}
  <2>1. CASE \E i \in DOMAIN reqs : reqs[i] = o
    BY <2>1 DEF Copies
  <2>2. CASE \E w \in Workers : job[w] = o
    BY <2>2 DEF Copies
  <2>3. CASE o \in Offsets
    <3>1. BagIn(o, window) /\ 1 \in 1 .. window[o]
      BY <2>3 DEF TypeInv, TypeOK, IsABag, Offsets, BagToSet, BagIn
    <3> QED
      BY <3>1 DEF Copies
  <2> QED
    BY <2>1, <2>2, <2>3 DEF Held
<1> QED
  BY <1>1 DEF Pending, Begins

\* A step that keeps every block that covers a byte between the new cursors.
LEMMA SuppliedFrame ==
    ASSUME Supplied, read_cursor \in Nat, read_cursor' \in Nat,
           read_cursor <= read_cursor', write_cursor' = write_cursor,
           \A o \in Begins : Held(o) /\ End(o) > read_cursor' => Held(o)'
    PROVE  Supplied'
<1> SUFFICES ASSUME NEW b \in Nat, read_cursor' <= b, b < write_cursor'
             PROVE  \E o \in Begins : Held(o)' /\ Covers(o, b)
  BY DEF Supplied, Covers, End, Lower
<1>1. PICK o \in Begins : Held(o) /\ Covers(o, b)
  BY DEF Supplied
<1>2. End(o) > read_cursor'
  BY <1>1, EndShape DEF Covers
<1> QED
  BY <1>1, <1>2

\* Nothing is requested initially.
LEMMA SuppliedInit == Init => Supplied
BY DEF Init, Constructed, Supplied

\* A block leaves the window when read_cursor has passed its end (lines 79-86
\* and 91-96), a request becomes a download and a download a stored block; read() asks
\* for what lies behind write_cursor, and seek() leaves nothing between the two.
LEMMA SuppliedStep ==
    ASSUME TypeInv, Supplied, AnyStep
    PROVE  Supplied'
<1> USE DEF cursors, channel, call
<1>0. /\ read_cursor \in Nat /\ write_cursor \in Nat /\ reqs \in Seq(Begins)
      /\ job \in [Workers -> Begins \cup {None}]
      /\ Offsets \subseteq Begins /\ Begins \subseteq Nat
  BY DownloaderAssumption DEF TypeInv, TypeOK, InBlob, Begins
<1>1. ASSUME NEW size \in Nat \ {0}, BeginRead(size)
      PROVE  Supplied'
  <2> DEFINE limit == Lower(BlobSize, read_cursor + size + Prefetch * BlockSize)
  <2>1. limit \in 0 .. BlobSize
    <3>1. Prefetch * BlockSize \in Nat /\ BlobSize \in Nat /\ size \in Nat
      BY DownloaderAssumption
    <3> QED
      BY <1>0, <3>1 DEF Lower
  <2>2. /\ reqs' = reqs \o Requested(limit)
        /\ write_cursor' = IF Requested(limit) = <<>> THEN write_cursor
                           ELSE End(Requested(limit)[Len(Requested(limit))])
        /\ UNCHANGED <<read_cursor, window, job>>
    BY <1>1 DEF BeginRead, Needed
  <2> HIDE DEF limit
  <2>3. Requested(limit) \in Seq(Begins)
    BY <1>0, <2>1, RequestedShape
  <2>4. /\ \A i \in DOMAIN reqs : i \in DOMAIN reqs' /\ reqs'[i] = reqs[i]
        /\ \A i \in DOMAIN Requested(limit) :
             /\ Len(reqs) + i \in DOMAIN reqs'
             /\ reqs'[Len(reqs) + i] = Requested(limit)[i]
    BY <1>0, <2>2, <2>3
  <2>5. \A o \in Begins : Held(o) => Held(o)'
    BY <2>2, <2>4 DEF Held, Offsets, BagToSet
  <2>6. ASSUME NEW i \in DOMAIN Requested(limit)
        PROVE  \E o \in Begins : o = Requested(limit)[i] /\ Held(o)'
    <3>1. PICK o \in Begins : o = Requested(limit)[i]
      BY <2>3
    <3>2. Held(o)'
      BY <2>4, <3>1 DEF Held
    <3> QED
      BY <3>1, <3>2
  <2>7. ASSUME NEW b \in Nat, read_cursor' <= b, b < write_cursor'
        PROVE  \E o \in Begins : Held(o)' /\ Covers(o, b)
    <3>1. CASE b < write_cursor
      BY <2>2, <2>5, <2>7, <3>1 DEF Supplied
    <3>2. CASE write_cursor <= b
      <4>1. Requested(limit) # <<>> /\ b < End(Requested(limit)[Len(Requested(limit))])
        BY <1>0, <2>2, <2>7, <3>2
      <4>2. \E i \in DOMAIN Requested(limit) : Covers(Requested(limit)[i], b)
        BY <1>0, <2>1, <3>2, <4>1, RequestedShape
      <4> QED
        BY <2>6, <4>2
    <3> QED
      BY <1>0, <3>1, <3>2
  <2> QED
    BY <2>7 DEF Supplied, Covers, End, Lower
<1>2. ASSUME NEW offset \in Nat, Seek(offset) PROVE Supplied'
  <2>1. read_cursor' = offset /\ write_cursor' = offset /\ offset \in Nat
    BY <1>2, DownloaderAssumption DEF Seek
  <2> QED
    BY <2>1 DEF Supplied
<1>3. CASE WaitBlock \/ Wake \/ EndRead \/ CloseReqs \/ Join \/ UNCHANGED vars
  <2>1. UNCHANGED <<read_cursor, write_cursor, reqs, job, window>>
    BY <1>3 DEF WaitBlock, Wake, EndRead, CloseReqs, Reqs!Close, Join, vars
  <2> QED
    BY <1>0, <2>1, SuppliedFrame DEF Held, Offsets, BagToSet
<1>4. CASE DropStale \/ CopyBlock
  <2>1. Front \in Offsets /\ Front \in Begins
    BY <1>0, <1>4, FrontShape DEF DropStale, CopyBlock, FrontUsable
  <2>2. End(Front) \in Nat
    BY <2>1, EndShape
  <2>3. /\ UNCHANGED <<write_cursor, reqs, job>>
        /\ read_cursor' \in Nat /\ read_cursor <= read_cursor'
        /\ window' = window \/ (window' = Remove(Front) /\ End(Front) <= read_cursor')
    BY <1>0, <1>4, <2>2 DEF DropStale, CopyBlock, Lower, TypeInv, TypeOK
  <2>4. ASSUME NEW o \in Begins, Held(o), End(o) > read_cursor'
        PROVE  Held(o)'
    <3>1. o \in Offsets => o \in Offsets'
      <4>1. CASE window' = window
        BY <4>1 DEF Offsets, BagToSet
      <4>2. CASE window' = Remove(Front) /\ End(Front) <= read_cursor'
        <5>1. o # Front
          BY <2>2, <2>3, <2>4, <4>2
        <5> QED
          BY <2>1, <4>2, <5>1, Removable DEF TypeInv, TypeOK, Offsets, BagToSet
      <4> QED
        BY <2>3, <4>1, <4>2
    <3> QED
      BY <2>3, <2>4, <3>1 DEF Held
  <2> QED
    BY <1>0, <2>3, <2>4, SuppliedFrame
<1>5. ASSUME NEW w \in Workers, TakeRequest(w) PROVE Supplied'
  <2>1. /\ reqs # <<>> /\ reqs' = Tail(reqs) /\ job' = [job EXCEPT ![w] = Head(reqs)]
        /\ UNCHANGED <<read_cursor, write_cursor, window>>
        /\ job[w] = None
    BY <1>5 DEF TakeRequest, Reqs!Pop, TypeInv, TypeOK
  <2>2. ASSUME NEW o \in Begins, Held(o) PROVE Held(o)'
    <3>1. CASE \E i \in DOMAIN reqs : reqs[i] = o
      <4>1. PICK i \in DOMAIN reqs : reqs[i] = o
        BY <3>1
      <4>2. CASE i = 1
        BY <1>0, <2>1, <4>1, <4>2 DEF Held
      <4>3. CASE i # 1
        <5>1. i - 1 \in DOMAIN reqs' /\ reqs'[i - 1] = o
          BY <1>0, <2>1, <4>1, <4>3
        <5> QED
          BY <5>1 DEF Held
      <4> QED
        BY <4>2, <4>3
    <3>2. CASE \E v \in Workers : job[v] = o
      <4>1. PICK v \in Workers : job[v] = o
        BY <3>2
      <4>2. v # w
        BY <2>1, <4>1, DownloaderAssumption DEF Begins, None
      <4> QED
        BY <1>0, <2>1, <4>1, <4>2 DEF Held
    <3>3. CASE o \in Offsets
      BY <2>1, <3>3 DEF Held, Offsets, BagToSet
    <3> QED
      BY <2>2, <3>1, <3>2, <3>3 DEF Held
  <2> QED
    BY <1>0, <2>1, <2>2, SuppliedFrame
<1>6. ASSUME NEW w \in Workers, Exit(w) PROVE Supplied'
  <2>1. UNCHANGED <<read_cursor, write_cursor, reqs, job, window>>
    BY <1>6 DEF Exit
  <2> QED
    BY <1>0, <2>1, SuppliedFrame DEF Held, Offsets, BagToSet
<1>7. ASSUME NEW w \in Workers, Deliver(w) PROVE Supplied'
  <2>1. /\ job' = [job EXCEPT ![w] = None]
        /\ UNCHANGED <<read_cursor, write_cursor, reqs>>
    BY <1>7 DEF Deliver
  <2>2. Offsets' = Offsets \cup {job[w]}
    BY <1>7, Deliverable DEF Deliver, TypeInv, TypeOK, Offsets, BagToSet
  <2>3. ASSUME NEW o \in Begins, Held(o) PROVE Held(o)'
    <3>1. CASE \E v \in Workers : job[v] = o
      <4>1. PICK v \in Workers : job[v] = o
        BY <3>1
      <4>2. CASE v = w
        BY <2>2, <4>1, <4>2 DEF Held
      <4>3. CASE v # w
        BY <1>0, <2>1, <4>1, <4>3 DEF Held
      <4> QED
        BY <4>2, <4>3
    <3> QED
      BY <2>1, <2>2, <2>3, <3>1 DEF Held
  <2> QED
    BY <1>0, <2>1, <2>3, SuppliedFrame
<1> QED
  BY <1>1, <1>2, <1>3, <1>4, <1>5, <1>6, <1>7 DEF AnyStep, InRead, Worker

\* The blocks that supply the bytes are pending.
LEMMA SuppliedUse ==
    ASSUME TypeInv, Supplied
    PROVE  NothingMissing
<1>1. 0 .. BlobSize \subseteq Nat
  BY DownloaderAssumption
<1> QED
  BY <1>1, HeldIsPending DEF Supplied, NothingMissing

\* Every byte between the cursors is on its way (lines 67-73 and 103-111), after
\* any reads, seeks and dropped blocks: read() waits for nothing that nobody will
\* deliver.
THEOREM NothingMissingHolds == Spec => []NothingMissing
BY TypeInit, TypeStep, SuppliedInit, SuppliedStep, SuppliedUse, NextIsAny, PTL DEF Spec

------------------------------------------------------------------------------
(* Nothing is downloaded twice *)

Before(o, p) == End(o) <= p
Disjoint(o, p) == Before(o, p) \/ Before(p, o)
Ahead(o) == read_cursor < End(o) /\ End(o) <= write_cursor

\* Without seeks the requests queue up in the order of the blob, behind what has been
\* taken; no two copies overlap; and what is held ends between the cursors.
Increasing ==
    /\ \A i, j \in DOMAIN reqs : i < j => Before(reqs[i], reqs[j])
    /\ \A i \in DOMAIN reqs : \A w \in Workers : job[w] # None => Before(job[w], reqs[i])
    /\ \A i \in DOMAIN reqs : \A o \in Offsets : Before(o, reqs[i])
Apart ==
    /\ \A v, w \in Workers : v # w /\ job[v] # None /\ job[w] # None => Disjoint(job[v], job[w])
    /\ \A w \in Workers : \A o \in Offsets : job[w] # None => Disjoint(job[w], o)
    /\ \A o, p \in Offsets : o # p => Disjoint(o, p)
    /\ \A o \in Offsets : window[o] = 1
AllAhead ==
    /\ read_cursor <= write_cursor
    /\ \A o \in Begins : Held(o) => Ahead(o)

OnceInv == ~sought => Increasing /\ Apart /\ AllAhead

\* A block does not precede itself.
LEMMA DisjointDiffer ==
    ASSUME NEW o \in Begins, NEW p \in Begins, Disjoint(o, p)
    PROVE  o # p
<1>1. o < End(o) /\ o \in Nat /\ End(o) \in Nat
  BY EndShape, DownloaderAssumption DEF Begins
<1> QED
  BY <1>1 DEF Disjoint, Before

\* The requests of a read (lines 68-73) lie behind write_cursor, one behind the other.
LEMMA RequestedOrder ==
    ASSUME write_cursor \in Nat, NEW limit \in 0 .. BlobSize
    PROVE  /\ \A i \in DOMAIN Requested(limit) : write_cursor <= Requested(limit)[i]
           /\ \A i, j \in DOMAIN Requested(limit) :
                i < j => Before(Requested(limit)[i], Requested(limit)[j])
<1> DEFINE n == (limit - write_cursor + BlockSize - 1) \div BlockSize
<1> DEFINE new == [i \in 1 .. n |-> write_cursor + (i - 1) * BlockSize]
<1>0. BlockSize \in Nat \ {0} /\ BlobSize \in Nat
  BY DownloaderAssumption
<1>1. CASE write_cursor >= limit
  BY <1>1 DEF Requested
<1>2. CASE write_cursor < limit
  <2>1. Requested(limit) = new
    BY <1>0, <1>2 DEF Requested
  <2>2. n \in Nat
    BY <1>0, <1>2, Quotient
  <2> HIDE DEF n
  <2>3. ASSUME NEW i \in 1 .. n
        PROVE  new[i] = write_cursor + (i - 1) * BlockSize /\ (i - 1) * BlockSize \in Nat
    <3>1. i - 1 \in Nat
      BY <2>2
    <3> QED
      BY <1>0, <3>1, Multiples
  <2>4. ASSUME NEW i \in 1 .. n, NEW j \in 1 .. n, i < j
        PROVE  Before(new[i], new[j])
    <3>1. i - 1 \in Nat /\ i \in Nat /\ j - 1 \in Nat /\ i <= j - 1 /\ (i - 1) + 1 = i
      BY <2>2, <2>4
    <3>2. i * BlockSize = (i - 1) * BlockSize + BlockSize
      BY <1>0, <3>1, NextMultiple
    <3>3. i * BlockSize <= (j - 1) * BlockSize
      BY <1>0, <3>1, Multiples
    <3>4. i * BlockSize \in Nat
      BY <1>0, <3>1, Multiples
    <3>5. /\ new[i] = write_cursor + (i - 1) * BlockSize /\ (i - 1) * BlockSize \in Nat
          /\ new[j] = write_cursor + (j - 1) * BlockSize /\ (j - 1) * BlockSize \in Nat
      BY <2>3
    <3> HIDE DEF new
    <3>6. new[i] + BlockSize <= new[j]
      BY <1>0, <3>2, <3>3, <3>4, <3>5
    <3>7. new[i] \in Nat /\ new[j] \in Nat
      BY <3>5
    <3> QED
      BY <1>0, <3>6, <3>7 DEF Before, End, Lower
  <2>5. DOMAIN new = 1 .. n
    OBVIOUS
  <2> HIDE DEF new
  <2>6. \A i \in 1 .. n : write_cursor <= new[i]
    BY <2>3
  <2> QED
    BY <2>1, <2>4, <2>5, <2>6
<1> QED
  BY <1>0, <1>1, <1>2

\* Nothing is held initially.
LEMMA OnceInit == Init => OnceInv
<1> SUFFICES ASSUME Init PROVE Increasing /\ Apart /\ AllAhead
  BY DEF OnceInv
<1>1. reqs = <<>> /\ Offsets = {} /\ read_cursor = 0 /\ write_cursor = 0
  BY DEF Init, Constructed, Reqs!Init, EmptyBag, SetToBag, Offsets, BagToSet
<1>2. \A w \in Workers : job[w] = None
  BY DEF Init, Constructed
<1>3. None \notin Begins
  BY DownloaderAssumption DEF None, Begins
<1> QED
  BY <1>1, <1>2, <1>3 DEF Increasing, Apart, AllAhead, Held

\* What the invariant says of the types it needs.
LEMMA HeldTypes ==
    ASSUME TypeInv
    PROVE  /\ read_cursor \in Nat /\ write_cursor \in Nat /\ reqs \in Seq(Begins)
           /\ job \in [Workers -> Begins \cup {None}] /\ None \notin Begins
           /\ Offsets \subseteq Begins /\ Begins \subseteq Nat
BY DownloaderAssumption DEF TypeInv, TypeOK, InBlob, Begins, None

\* New requests begin where everything held ends (lines 67-73).
LEMMA OnceBegin ==
    ASSUME TypeInv, Increasing, Apart, AllAhead,
           NEW size \in Nat \ {0}, BeginRead(size)
    PROVE  (Increasing /\ Apart /\ AllAhead)'
<1> DEFINE limit == Lower(BlobSize, read_cursor + size + Prefetch * BlockSize)
<1> DEFINE new == Requested(limit)
<1>1. limit \in 0 .. BlobSize
  <2>1. Prefetch * BlockSize \in Nat /\ BlobSize \in Nat /\ size \in Nat
    BY DownloaderAssumption
  <2> QED
    BY HeldTypes, <2>1 DEF Lower
<1>2. /\ reqs' = reqs \o new
      /\ write_cursor' = IF new = <<>> THEN write_cursor ELSE End(new[Len(new)])
      /\ UNCHANGED <<read_cursor, window, job>>
  BY DEF BeginRead, Needed
<1> HIDE DEF limit
<1>3. new \in Seq(Begins)
  BY <1>1, HeldTypes, RequestedShape
<1>4. /\ \A i \in DOMAIN new : write_cursor <= new[i]
      /\ \A i, j \in DOMAIN new : i < j => Before(new[i], new[j])
  BY <1>1, HeldTypes, RequestedOrder, Zenon
<1> HIDE DEF new
<1>5. ASSUME NEW o \in Begins, Held(o), NEW i \in DOMAIN new PROVE Before(o, new[i])
  <2>1. End(o) \in Nat /\ new[i] \in Nat /\ new[i] \in Begins
    BY <1>3, EndShape, HeldTypes
  <2>2. End(o) <= write_cursor /\ write_cursor <= new[i]
    BY <1>4, <1>5 DEF AllAhead, Ahead
  <2> QED
    BY <2>1, <2>2, HeldTypes DEF Before
<1>6. \A i \in DOMAIN reqs' :
        \/ i \in DOMAIN reqs /\ reqs'[i] = reqs[i]
        \/ \E k \in DOMAIN new : i = Len(reqs) + k /\ reqs'[i] = new[k]
  <2>1. SUFFICES ASSUME NEW i \in DOMAIN reqs', i \notin DOMAIN reqs
                 PROVE  \E k \in DOMAIN new : i = Len(reqs) + k /\ reqs'[i] = new[k]
    BY <1>2, <1>3, HeldTypes
  <2>2. i - Len(reqs) \in DOMAIN new /\ i = Len(reqs) + (i - Len(reqs))
        /\ reqs'[i] = new[i - Len(reqs)]
    <3>1. reqs \in Seq(Begins) /\ reqs' = reqs \o new
      BY <1>2, HeldTypes
    <3> QED
      BY <1>3, <2>1, <3>1
  <2> QED
    BY <2>2
<1>7. Offsets' = Offsets /\ \A i \in DOMAIN reqs : reqs[i] \in Begins /\ i \in 1 .. Len(reqs)
  BY <1>2, HeldTypes DEF Offsets, BagToSet
<1>8. Increasing'
  <2>1. ASSUME NEW i \in DOMAIN reqs', NEW j \in DOMAIN reqs', i < j
        PROVE  Before(reqs'[i], reqs'[j])
    <3>1. CASE i \in DOMAIN reqs /\ reqs'[i] = reqs[i] /\ j \in DOMAIN reqs /\ reqs'[j] = reqs[j]
      BY <2>1, <3>1 DEF Increasing
    <3>2. ASSUME i \in DOMAIN reqs, reqs'[i] = reqs[i], NEW k \in DOMAIN new, reqs'[j] = new[k]
          PROVE  Before(reqs'[i], reqs'[j])
      <4>1. Held(reqs[i])
        BY <3>2 DEF Held
      <4> QED
        BY <1>5, <1>7, <3>2, <4>1
    <3>3. ASSUME NEW k \in DOMAIN new, i = Len(reqs) + k, j \in DOMAIN reqs PROVE FALSE
      BY <1>3, <1>7, <2>1, <3>3, HeldTypes
    <3>4. ASSUME NEW k \in DOMAIN new, i = Len(reqs) + k, reqs'[i] = new[k],
                 NEW l \in DOMAIN new, j = Len(reqs) + l, reqs'[j] = new[l]
          PROVE  Before(reqs'[i], reqs'[j])
      <4>1. k < l
        BY <1>3, <2>1, <3>4, HeldTypes
      <4> QED
        BY <1>4, <3>4, <4>1
    <3> QED
      BY <1>6, <3>1, <3>2, <3>3, <3>4
  <2>2. ASSUME NEW i \in DOMAIN reqs', NEW o \in Begins,
               Held(o), \A k \in DOMAIN reqs : Before(o, reqs[k])
        PROVE  Before(o, reqs'[i])
    BY <1>5, <1>6, <2>2
  <2>3. ASSUME NEW i \in DOMAIN reqs', NEW w \in Workers, job[w] # None
        PROVE  Before(job[w], reqs'[i])
    <3>1. job[w] \in Begins /\ Held(job[w])
      BY <2>3, HeldTypes DEF Held
    <3> QED
      BY <2>2, <2>3, <3>1 DEF Increasing
  <2>4. ASSUME NEW i \in DOMAIN reqs', NEW o \in Offsets PROVE Before(o, reqs'[i])
    <3>1. o \in Begins /\ Held(o)
      BY HeldTypes DEF Held
    <3> QED
      BY <2>2, <3>1 DEF Increasing
  <2>5. job' = job
    BY <1>2
  <2> QED
    BY <1>7, <2>1, <2>3, <2>4, <2>5 DEF Increasing, Before, End, Lower, None
<1>9. Apart'
  BY <1>2, <1>7 DEF Apart, Disjoint, Before, End, Lower, None
<1>10. AllAhead'
  <2>1. write_cursor' \in Nat /\ write_cursor <= write_cursor'
        /\ \A k \in DOMAIN new : End(new[k]) <= write_cursor'
    <3>1. CASE new = <<>>
      BY <1>2, <3>1, HeldTypes
    <3>2. CASE new # <<>>
      <4>1. Len(new) \in DOMAIN new /\ \A k \in DOMAIN new : k \in Nat /\ k <= Len(new)
        BY <1>3, <3>2
      <4>2. \A k \in DOMAIN new : new[k] \in Begins /\ new[k] \in Nat
        BY <1>3, HeldTypes
      <4>3. write_cursor' = End(new[Len(new)])
        BY <1>2, <3>2
      <4>4. \A k \in DOMAIN new : End(new[k]) \in Nat /\ new[k] < End(new[k])
        BY <4>2, EndShape
      <4>5. ASSUME NEW k \in DOMAIN new PROVE End(new[k]) <= write_cursor'
        <5>1. CASE k = Len(new)
          BY <4>1, <4>3, <4>4, <5>1
        <5>2. CASE k < Len(new)
          BY <1>4, <4>1, <4>2, <4>3, <4>4, <5>2 DEF Before
        <5> QED
          BY <1>3, <4>1, <5>1, <5>2
      <4> QED
        BY <1>4, <4>1, <4>2, <4>3, <4>4, <4>5, HeldTypes
    <3> QED
      BY <3>1, <3>2
  <2>2. read_cursor' = read_cursor /\ read_cursor \in Nat /\ read_cursor <= write_cursor
    BY <1>2, HeldTypes DEF AllAhead
  <2>3. ASSUME NEW o \in Begins, Held(o)' PROVE Ahead(o)'
    <3>1. o \in Nat /\ End(o) \in Nat /\ o < End(o) /\ End(o)' = End(o)
      BY EndShape, HeldTypes DEF End, Lower
    <3>2. CASE Held(o)
      BY <2>1, <2>2, <3>1, <3>2, HeldTypes DEF AllAhead, Ahead
    <3>3. CASE ~Held(o)
      <4>1. PICK k \in DOMAIN new : o = new[k]
        BY <1>2, <1>6, <1>7, <2>3, <3>3 DEF Held
      <4> QED
        BY <1>4, <2>1, <2>2, <3>1, <4>1, HeldTypes DEF Ahead
    <3> QED
      BY <3>2, <3>3
  <2> QED
    BY <2>1, <2>2, <2>3, HeldTypes DEF AllAhead
<1> QED
  BY <1>8, <1>9, <1>10

\* Removing the only copy of a block.
LEMMA RemovesOnly ==
    ASSUME IsABag(window), NEW o \in Offsets, window[o] = 1
    PROVE  /\ o \notin DOMAIN Remove(o)
           /\ \A e \in DOMAIN Remove(o) : Remove(o)[e] = window[e]
<1> DEFINE less == [e \in DOMAIN window |-> IF e \in {o} THEN window[e] - 1 ELSE window[e]]
<1> DEFINE left == {e \in DOMAIN less : less[e] > 0}
<1>1. Remove(o) = [e \in left |-> less[e]]
  BY DEF Remove, (-), SetToBag
<1>2. o \notin left /\ \A e \in left : less[e] = window[e]
  BY DEF Offsets, BagToSet
<1> HIDE DEF less, left
<1> QED
  BY <1>1, <1>2

\* Putting the only copy of a block into a window.
LEMMA DeliversOnly ==
    ASSUME NEW W, IsABag(W), NEW o, o \notin DOMAIN W
    PROVE  LET X == W (+) SetToBag({o}) IN
           X[o] = 1 /\ \A e \in DOMAIN W : X[e] = W[e]
<1> DEFINE X == W (+) SetToBag({o})
<1>1. \A e \in DOMAIN W \cup {o} :
        X[e] = (IF e \in DOMAIN W THEN W[e] ELSE 0) + (IF e \in {o} THEN 1 ELSE 0)
  BY DEF SetToBag, (+)
<1>2. \A e \in DOMAIN W : W[e] \in Nat
  BY DEF IsABag
<1> HIDE DEF X
<1>3. X[o] = 1
  BY <1>1
<1>4. \A e \in DOMAIN W : X[e] = W[e]
  BY <1>1, <1>2
<1> QED
  BY <1>3, <1>4 DEF X

\* The block in front is the only one that the cursor passes, and it leaves the window
\* when that happens (lines 87-97); nothing is stale (lines 79-86).
LEMMA OnceCopy ==
    ASSUME TypeInv, Increasing, Apart, AllAhead, DropStale \/ CopyBlock
    PROVE  (Increasing /\ Apart /\ AllAhead)'
<1>0. read_cursor \in Nat /\ target \in Nat /\ Offsets \subseteq Begins /\ Begins \subseteq Nat
  BY HeldTypes DEF TypeInv, TypeOK
<1>1. Front \in Offsets /\ Front \in Begins /\ Front <= read_cursor
      /\ UNCHANGED <<write_cursor, reqs, job>>
  BY <1>0, FrontShape DEF DropStale, CopyBlock, FrontUsable, channel, cursors
<1>2. End(Front) \in Nat /\ read_cursor < End(Front) /\ End(Front) <= write_cursor
  BY <1>1, EndShape DEF AllAhead, Ahead, Held
<1>3. CopyBlock
  BY <1>0, <1>1, <1>2 DEF DropStale
<1>4. /\ read_cursor' = Lower(target, End(Front))
      /\ window' = IF Lower(target, End(Front)) = End(Front) THEN Remove(Front) ELSE window
  BY <1>3 DEF CopyBlock
<1>5. read_cursor' \in Nat /\ read_cursor' <= End(Front)
  BY <1>0, <1>2, <1>4 DEF Lower
<1>6. /\ Offsets' \subseteq Offsets
      /\ \A o \in Offsets' : window'[o] = window[o]
      /\ read_cursor' = End(Front) => Front \notin Offsets'
  <2>1. CASE read_cursor' = End(Front)
    <3>1. window' = Remove(Front) /\ IsABag(window) /\ window[Front] = 1
      BY <1>1, <1>4, <2>1 DEF Apart, TypeInv, TypeOK
    <3> QED
      BY <1>1, <3>1, Removable, RemovesOnly DEF Offsets, BagToSet
  <2>2. CASE read_cursor' # End(Front)
    BY <1>4, <2>2 DEF Offsets, BagToSet
  <2> QED
    BY <2>1, <2>2
<1>7. ASSUME NEW o \in Begins, Held(o)' PROVE Ahead(o)'
  <2>1. Held(o) /\ (o = Front => \/ o \in Offsets'
                                 \/ \E i \in DOMAIN reqs : reqs[i] = o
                                 \/ \E w \in Workers : job[w] = o)
    BY <1>1, <1>6, <1>7 DEF Held
  <2>2. o \in Nat /\ End(o) \in Nat /\ o < End(o) /\ read_cursor < End(o) /\ End(o) <= write_cursor
    BY <1>0, <2>1, EndShape DEF AllAhead, Ahead
  <2>3. o = Front \/ Disjoint(o, Front)
    BY <1>1, <2>1, HeldTypes DEF Held, Increasing, Apart, Disjoint
  <2>4. read_cursor' < End(o)
    <3>1. CASE o = Front
      <4>1. \A i \in DOMAIN reqs : reqs[i] # Front
        BY <1>1, HeldTypes, DisjointDiffer DEF Increasing, Disjoint
      <4>2. \A w \in Workers : job[w] # Front
        BY <1>1, HeldTypes, DisjointDiffer DEF Apart
      <4>3. read_cursor' # End(Front)
        BY <1>6, <2>1, <3>1, <4>1, <4>2
      <4> QED
        BY <1>2, <1>5, <3>1, <4>3
    <3>2. CASE Disjoint(o, Front)
      BY <1>0, <1>1, <1>2, <1>5, <2>2, <3>2 DEF Disjoint, Before
    <3> QED
      BY <2>3, <3>1, <3>2
  <2> QED
    BY <1>1, <2>2, <2>4 DEF Ahead, End, Lower
<1>8. AllAhead'
  BY <1>1, <1>2, <1>5, <1>7, HeldTypes DEF AllAhead
<1>9. Increasing'
  BY <1>1, <1>6 DEF Increasing, Before, End, Lower, None
<1>10. Apart'
  BY <1>1, <1>6 DEF Apart, Disjoint, Before, End, Lower, None
<1> QED
  BY <1>8, <1>9, <1>10

\* The request in front becomes a download (line 137).
LEMMA OnceTake ==
    ASSUME TypeInv, Increasing, Apart, AllAhead, NEW w \in Workers, TakeRequest(w)
    PROVE  (Increasing /\ Apart /\ AllAhead)'
<1>1. /\ reqs # <<>> /\ reqs' = Tail(reqs) /\ job' = [job EXCEPT ![w] = Head(reqs)]
      /\ UNCHANGED <<read_cursor, write_cursor, window>>
  BY DEF TakeRequest, Reqs!Pop, cursors
<1>2. /\ 1 \in DOMAIN reqs /\ reqs[1] = Head(reqs)
      /\ \A i \in DOMAIN reqs' : i + 1 \in DOMAIN reqs /\ 1 < i + 1 /\ reqs'[i] = reqs[i + 1]
      /\ \A i, j \in DOMAIN reqs' : i < j => i + 1 < j + 1
  BY <1>1, HeldTypes
<1>3. /\ job'[w] = reqs[1]
      /\ \A v \in Workers : v # w => job'[v] = job[v]
  BY <1>1, <1>2, HeldTypes
<1>4. Offsets' = Offsets /\ None' = None /\ \A o, p : Before(o, p)' <=> Before(o, p)
  BY <1>1 DEF Offsets, BagToSet, None, Before, End, Lower
<1>5. Increasing'
  BY <1>2, <1>3, <1>4 DEF Increasing
<1>6. Apart'
  <2>1. ASSUME NEW u \in Workers, NEW v \in Workers, u # v, job'[u] # None, job'[v] # None
        PROVE  Disjoint(job'[u], job'[v])
    BY <1>2, <1>3, <2>1 DEF Increasing, Apart, Disjoint
  <2>2. ASSUME NEW v \in Workers, NEW o \in Offsets, job'[v] # None
        PROVE  Disjoint(job'[v], o)
    BY <1>2, <1>3, <2>2 DEF Increasing, Apart, Disjoint
  <2> QED
    BY <1>1, <1>4, <2>1, <2>2 DEF Apart, Disjoint
<1>7. AllAhead'
  <2>1. \A o \in Begins : Held(o)' => Held(o)
    BY <1>2, <1>3, <1>4 DEF Held
  <2> QED
    BY <1>1, <2>1 DEF AllAhead, Ahead, End, Lower
<1> QED
  BY <1>5, <1>6, <1>7

\* A download becomes a stored block (lines 150-158).
LEMMA OnceDeliver ==
    ASSUME TypeInv, Increasing, Apart, AllAhead, NEW w \in Workers, Deliver(w)
    PROVE  (Increasing /\ Apart /\ AllAhead)'
<1>1. /\ job' = [job EXCEPT ![w] = None] /\ job[w] # None
      /\ window' = window (+) SetToBag({job[w]})
      /\ UNCHANGED <<read_cursor, write_cursor, reqs>>
  BY DEF Deliver, TypeInv, TypeOK, cursors, channel
<1>2. job[w] \in Begins /\ \A o \in Offsets : o # job[w]
  BY <1>1, HeldTypes, DisjointDiffer DEF Apart
<1>3. Offsets' = Offsets \cup {job[w]}
  BY <1>1, Deliverable DEF TypeInv, TypeOK, Offsets, BagToSet
<1>4. window'[job[w]] = 1 /\ \A o \in Offsets : window'[o] = window[o]
  <2>1. IsABag(window) /\ job[w] \notin DOMAIN window /\ DOMAIN window = Offsets
    BY <1>2 DEF TypeInv, TypeOK, Offsets, BagToSet
  <2> QED
    BY <1>1, <2>1, DeliversOnly
<1>5. job'[w] = None /\ \A v \in Workers : v # w => job'[v] = job[v]
  BY <1>1, HeldTypes
<1>6. None' = None /\ \A o, p : Before(o, p)' <=> Before(o, p)
  BY DEF None, Before, End, Lower
<1>7. Increasing'
  BY <1>1, <1>3, <1>5, <1>6 DEF Increasing
<1>8. Apart'
  <2>1. ASSUME NEW v \in Workers, NEW o \in Offsets', job'[v] # None
        PROVE  Disjoint(job'[v], o)
    BY <1>1, <1>3, <1>5, <2>1 DEF Apart
  <2>2. ASSUME NEW o \in Offsets', NEW p \in Offsets', o # p
        PROVE  Disjoint(o, p)
    BY <1>1, <1>3, <2>2 DEF Apart, Disjoint
  <2>3. \A o \in Offsets' : window'[o] = 1
    BY <1>3, <1>4 DEF Apart
  <2>4. \A u, v \in Workers : u # v /\ job'[u] # None /\ job'[v] # None
                                => Disjoint(job'[u], job'[v])
    BY <1>5 DEF Apart
  <2> QED
    BY <1>6, <2>1, <2>2, <2>3, <2>4 DEF Apart, Disjoint
<1>9. AllAhead'
  <2>1. \A o \in Begins : Held(o)' => Held(o)
    BY <1>1, <1>3, <1>5, HeldTypes DEF Held
  <2> QED
    BY <1>1, <2>1 DEF AllAhead, Ahead, End, Lower
<1> QED
  BY <1>7, <1>8, <1>9

\* Every step keeps the invariant, and seek() ends what it says.
LEMMA OnceStep ==
    ASSUME TypeInv, OnceInv, AnyStep
    PROVE  OnceInv'
<1>1. CASE \E offset \in Nat : Seek(offset)
  BY <1>1 DEF Seek, OnceInv
<1>2. CASE sought
  <2>1. sought' = sought \/ sought' = TRUE
    BY DEF AnyStep, InRead, Worker, BeginRead, Seek, WaitBlock, Wake, DropStale, CopyBlock,
           EndRead, CloseReqs, Join, TakeRequest, Exit, Deliver, vars
  <2> QED
    BY <1>2, <2>1 DEF OnceInv
<1>3. ASSUME ~sought, UNCHANGED <<read_cursor, write_cursor, reqs, job, window>>
      PROVE  OnceInv'
  BY <1>3 DEF OnceInv, Increasing, Apart, AllAhead, Ahead, Held, Disjoint, Before, End, Lower,
              None, Offsets, BagToSet
<1>4. ASSUME ~sought,
             WaitBlock \/ Wake \/ EndRead \/ CloseReqs \/ Join \/ (\E w \in Workers : Exit(w))
             \/ UNCHANGED vars
      PROVE  OnceInv'
  <2>1. UNCHANGED <<read_cursor, write_cursor, reqs, job, window>>
    BY <1>4 DEF WaitBlock, Wake, EndRead, CloseReqs, Reqs!Close, Join, Exit, vars, cursors, channel
  <2> QED
    BY <1>3, <1>4, <2>1
<1>5. CASE ~sought /\ \E size \in Nat \ {0} : BeginRead(size)
  BY <1>5, OnceBegin DEF OnceInv
<1>6. CASE ~sought /\ (DropStale \/ CopyBlock)
  BY <1>6, OnceCopy DEF OnceInv
<1>7. CASE ~sought /\ \E w \in Workers : TakeRequest(w)
  BY <1>7, OnceTake DEF OnceInv
<1>8. CASE ~sought /\ \E w \in Workers : Deliver(w)
  BY <1>8, OnceDeliver DEF OnceInv
<1> QED
  BY <1>1, <1>2, <1>4, <1>5, <1>6, <1>7, <1>8 DEF AnyStep, InRead, Worker

\* What is pending is held, and exists once.
LEMMA PendingOnce ==
    ASSUME TypeInv, Increasing, Apart, NEW o \in Pending
    PROVE  o \in Begins /\ Held(o) /\ \E h : Copies(o) = {h}
<1>1. o \in Begins /\ Copies(o) # {}
  BY DEF Pending, Begins
<1>2. BagIn(o, window) <=> o \in Offsets
  BY DEF BagIn, Offsets, BagToSet
<1>3. Held(o)
  BY <1>1, <1>2 DEF Copies, Held
<1>4. SUFFICES \E h : Copies(o) = {h}
  BY <1>1, <1>3
<1>5. CASE \E i \in DOMAIN reqs : reqs[i] = o
  <2>1. PICK i \in DOMAIN reqs : reqs[i] = o
    BY <1>5
  <2>2. \A j \in DOMAIN reqs : reqs[j] = o <=> j = i
    <3>1. ASSUME NEW j \in DOMAIN reqs, j # i PROVE reqs[j] # o
      <4>1. Disjoint(reqs[j], reqs[i]) /\ reqs[j] \in Begins
        BY <3>1, HeldTypes DEF Increasing, Disjoint
      <4> QED
        BY <1>1, <2>1, <4>1, DisjointDiffer
    <3> QED
      BY <2>1, <3>1
  <2>3. \A w \in Workers : job[w] # o
    BY <1>1, <2>1, HeldTypes, DisjointDiffer DEF Increasing, Disjoint
  <2>4. o \notin Offsets
    BY <1>1, <2>1, DisjointDiffer DEF Increasing, Disjoint
  <2>5. Copies(o) = {<<"reqs", i>>}
    BY <1>2, <2>1, <2>2, <2>3, <2>4 DEF Copies
  <2> QED
    BY <2>5
<1>6. CASE (\A i \in DOMAIN reqs : reqs[i] # o) /\ \E w \in Workers : job[w] = o
  <2>1. PICK w \in Workers : job[w] = o
    BY <1>6
  <2>2. \A v \in Workers : job[v] = o <=> v = w
    BY <1>1, <2>1, HeldTypes, DisjointDiffer DEF Apart
  <2>3. o \notin Offsets
    BY <1>1, <2>1, HeldTypes, DisjointDiffer DEF Apart
  <2>4. Copies(o) = {<<"job", w>>}
    BY <1>2, <1>6, <2>1, <2>2, <2>3 DEF Copies
  <2> QED
    BY <2>4
<1>7. CASE (\A i \in DOMAIN reqs : reqs[i] # o) /\ (\A w \in Workers : job[w] # o)
  <2>1. BagIn(o, window) /\ window[o] = 1
    BY <1>2, <1>3, <1>7 DEF Held, Apart
  <2>2. 1 .. window[o] = {1}
    BY <2>1
  <2>3. Copies(o) = {<<"window", 1>>}
    BY <1>7, <2>1, <2>2 DEF Copies
  <2> QED
    BY <2>3
<1> QED
  BY <1>5, <1>6, <1>7

\* Two blocks held are the same or have no byte in common.
LEMMA HeldApart ==
    ASSUME TypeInv, Increasing, Apart, NEW o \in Begins, NEW p \in Begins, Held(o), Held(p)
    PROVE  o = p \/ Disjoint(o, p)
<1>1. ASSUME NEW i \in DOMAIN reqs, NEW j \in DOMAIN reqs
      PROVE  reqs[i] = reqs[j] \/ Disjoint(reqs[i], reqs[j])
  <2>1. i < j \/ j < i \/ i = j
    BY HeldTypes
  <2> QED
    BY <2>1 DEF Increasing, Disjoint
<1>2. \A i \in DOMAIN reqs : \A w \in Workers : job[w] # None => Disjoint(job[w], reqs[i])
  BY DEF Increasing, Disjoint
<1>3. \A i \in DOMAIN reqs : \A e \in Offsets : Disjoint(e, reqs[i])
  BY DEF Increasing, Disjoint
<1>4. o # None /\ p # None
  BY HeldTypes
<1>5. \A x, y : Disjoint(x, y) <=> Disjoint(y, x)
  BY DEF Disjoint
<1> QED
  BY <1>1, <1>2, <1>3, <1>4, <1>5, Zenon DEF Held, Apart

\* What is pending is held once, and ends behind the cursor.
LEMMA OnceUse ==
    ASSUME TypeInv, OnceInv
    PROVE  NothingTwice
<1> SUFFICES ASSUME ~sought
             PROVE  /\ \A o \in Pending : Cardinality(Copies(o)) = 1 /\ End(o) > read_cursor
                    /\ \A o, p \in Pending : \A b \in 0 .. BlobSize :
                         Covers(o, b) /\ Covers(p, b) => o = p
  BY DEF NothingTwice
<1>1. Increasing /\ Apart /\ AllAhead
  BY DEF OnceInv
<1>2. ASSUME NEW o \in Pending
      PROVE  /\ o \in Begins /\ Held(o) /\ o \in Nat /\ End(o) \in Nat
             /\ Cardinality(Copies(o)) = 1 /\ read_cursor < End(o)
  BY <1>1, PendingOnce, FS_Singleton, EndShape, HeldTypes DEF AllAhead, Ahead
<1>3. ASSUME NEW o \in Pending, NEW p \in Pending, NEW b \in 0 .. BlobSize,
             Covers(o, b), Covers(p, b)
      PROVE  o = p
  <2>1. b \in Nat
    BY <1>3, DownloaderAssumption
  <2>2. o = p \/ Disjoint(o, p)
    BY <1>1, <1>2, HeldApart
  <2> QED
    BY <1>2, <1>3, <2>1, <2>2 DEF Disjoint, Before, Covers
<1>4. read_cursor \in Nat
  BY HeldTypes
<1> QED
  BY <1>2, <1>3, <1>4

\* Without seeks nothing is downloaded twice (lines 67-73), and nothing is kept that
\* read() has passed (lines 91-96).
THEOREM NothingTwiceHolds == Spec => []NothingTwice
BY TypeInit, TypeStep, OnceInit, OnceStep, OnceUse, NextIsAny, PTL DEF Spec

------------------------------------------------------------------------------
(* Memory is bounded *)

\* Numbers k apart have different quotients.
LEMMA QuotientApart ==
    ASSUME NEW a \in Nat, NEW b \in Nat, NEW k \in Nat \ {0}, a + k <= b
    PROVE  a \div k # b \div k
<1>1. a \div k \in Nat /\ (a \div k) * k <= a
  BY Quotient
<1>2. b < (b \div k) * k + k
  BY Quotient
<1>3. (a \div k) * k \in Nat
  BY <1>1, Multiples
<1> DEFINE q == a \div k
<1> DEFINE r == b \div k
<1> HIDE DEF q, r
<1>4. SUFFICES ASSUME q = r PROVE FALSE
  BY DEF q, r
<1>5. b < q * k + k /\ q * k <= a /\ q * k \in Nat
  BY <1>1, <1>2, <1>3, <1>4 DEF q, r
<1> QED
  BY <1>5

\* n multiples of k more make the quotient at most n more.
LEMMA QuotientBound ==
    ASSUME NEW a \in Nat, NEW m \in Nat, NEW n \in Nat, NEW k \in Nat \ {0}, a < m + n * k
    PROVE  a \div k <= m \div k + n
<1> DEFINE q == a \div k
<1> DEFINE r == m \div k
<1>1. q \in Nat /\ q * k <= a /\ r \in Nat /\ m < r * k + k
  BY Quotient
<1> HIDE DEF q, r
<1>2. SUFFICES ASSUME r + n + 1 <= q PROVE FALSE
  BY <1>1 DEF q, r
<1>3. (r + n + 1) * k <= q * k /\ q * k \in Nat
  BY <1>1, <1>2, Multiples
<1>4. (r + n + 1) * k = r * k + n * k + k
  BY <1>1
<1>5. r * k \in Nat /\ n * k \in Nat
  BY <1>1, Multiples
<1> QED
  BY <1>1, <1>3, <1>4, <1>5

\* The requests of a read begin below its limit (line 68).
LEMMA RequestedBelow ==
    ASSUME write_cursor \in Nat, NEW limit \in 0 .. BlobSize
    PROVE  \A i \in DOMAIN Requested(limit) : Requested(limit)[i] < limit
<1> DEFINE n == (limit - write_cursor + BlockSize - 1) \div BlockSize
<1> DEFINE new == [i \in 1 .. n |-> write_cursor + (i - 1) * BlockSize]
<1>0. BlockSize \in Nat \ {0} /\ BlobSize \in Nat
  BY DownloaderAssumption
<1>1. CASE write_cursor >= limit
  BY <1>1 DEF Requested
<1>2. CASE write_cursor < limit
  <2>1. Requested(limit) = new
    BY <1>0, <1>2 DEF Requested
  <2>2. limit - write_cursor \in Nat \ {0}
    BY <1>0, <1>2
  <2>3. /\ n \in Nat \ {0}
        /\ \A i \in 0 .. n - 1 : i * BlockSize \in Nat /\ i * BlockSize < limit - write_cursor
    BY <1>0, <2>2, Grid
  <2> HIDE DEF n
  <2>4. ASSUME NEW i \in 1 .. n PROVE new[i] < limit
    <3>1. i - 1 \in 0 .. n - 1
      BY <2>3
    <3>2. (i - 1) * BlockSize \in Nat /\ (i - 1) * BlockSize < limit - write_cursor
      BY <2>3, <3>1
    <3>3. new[i] = write_cursor + (i - 1) * BlockSize
      OBVIOUS
    <3> QED
      BY <3>2, <3>3
  <2> QED
    BY <2>1, <2>4
<1> QED
  BY <1>0, <1>1, <1>2

\* Without seeks the reader is past its target unless it is in read(), and what it has asked
\* for begins at most Prefetch blocks behind the last target.
Reach == target + Prefetch * BlockSize
ReachInv ==
    ~sought =>
        /\ from <= read_cursor /\ from <= target
        /\ cpc \notin {"reading", "waiting"} => target <= read_cursor
        /\ \A o \in Begins : Held(o) => o < Reach

\* Nothing has been asked for initially.
LEMMA ReachInit == Init => ReachInv
<1> SUFFICES ASSUME Init PROVE ReachInv
  OBVIOUS
<1>1. /\ reqs = <<>> /\ Offsets = {} /\ from = 0 /\ target = 0 /\ read_cursor = 0
      /\ \A w \in Workers : job[w] = None
  BY DEF Init, Constructed, Reqs!Init, EmptyBag, SetToBag, Offsets, BagToSet
<1>2. None \notin Begins
  BY DownloaderAssumption DEF None, Begins
<1> QED
  BY <1>1, <1>2 DEF ReachInv, Held

\* A step other than the requests of read() brings nothing new.
LEMMA HeldBefore ==
    ASSUME TypeInv, NEW o \in Begins, Held(o)',
           \/ WaitBlock \/ Wake \/ EndRead \/ DropStale \/ CopyBlock \/ CloseReqs \/ Join
           \/ \E w \in Workers : Worker(w)
           \/ UNCHANGED vars
    PROVE  Held(o)
<1> USE DEF cursors, channel
<1>1. CASE WaitBlock \/ Wake \/ EndRead \/ CloseReqs \/ Join \/ (\E w \in Workers : Exit(w))
           \/ UNCHANGED vars
  BY <1>1 DEF WaitBlock, Wake, EndRead, CloseReqs, Reqs!Close, Join, Exit, vars, Held, Offsets,
              BagToSet
<1>2. CASE DropStale \/ CopyBlock
  <2>1. Front \in Offsets /\ IsABag(window) /\ UNCHANGED <<reqs, job>>
        /\ window' \in {window, Remove(Front)}
    BY <1>2, HeldTypes, FrontShape DEF DropStale, CopyBlock, FrontUsable, TypeInv, TypeOK
  <2>2. Offsets' \subseteq Offsets
    BY <2>1, Removable DEF Offsets, BagToSet
  <2> QED
    BY <2>1, <2>2 DEF Held
<1>3. ASSUME NEW w \in Workers, TakeRequest(w) PROVE Held(o)
  <2>1. /\ reqs # <<>> /\ reqs' = Tail(reqs) /\ job' = [job EXCEPT ![w] = Head(reqs)]
        /\ Offsets' = Offsets
    BY <1>3 DEF TakeRequest, Reqs!Pop, Offsets, BagToSet
  <2>2. /\ \A i \in DOMAIN reqs' : i + 1 \in DOMAIN reqs /\ reqs'[i] = reqs[i + 1]
        /\ 1 \in DOMAIN reqs /\ job'[w] = reqs[1]
        /\ \A v \in Workers : v # w => job'[v] = job[v]
    BY <2>1, HeldTypes
  <2> QED
    BY <2>1, <2>2 DEF Held
<1>4. ASSUME NEW w \in Workers, Deliver(w) PROVE Held(o)
  <2>1. /\ job' = [job EXCEPT ![w] = None] /\ reqs' = reqs
        /\ Offsets' = Offsets \cup {job[w]}
    BY <1>4, Deliverable DEF Deliver, TypeInv, TypeOK, Offsets, BagToSet
  <2>2. job'[w] = None /\ \A v \in Workers : v # w => job'[v] = job[v]
    BY <2>1, HeldTypes
  <2> QED
    BY <2>1, <2>2, HeldTypes DEF Held
<1> QED
  BY <1>1, <1>2, <1>3, <1>4 DEF Worker

\* A read asks for nothing behind its reach, and targets do not fall back.
LEMMA ReachStep ==
    ASSUME TypeInv, OnceInv, ReachInv, AnyStep
    PROVE  ReachInv'
<1> USE DEF call
<1>0. /\ read_cursor \in Nat /\ write_cursor \in Nat /\ from \in Nat /\ target \in Nat
      /\ Offsets \subseteq Begins /\ Begins \subseteq Nat /\ reqs \in Seq(Begins)
      /\ BlobSize \in Nat /\ BlockSize \in Nat \ {0} /\ Prefetch * BlockSize \in Nat
  BY HeldTypes, DownloaderAssumption DEF TypeInv, TypeOK
<1>1. CASE \E offset \in Nat : Seek(offset)
  BY <1>1 DEF Seek, ReachInv
<1>2. CASE sought
  <2>1. sought' = sought \/ sought' = TRUE
    BY DEF AnyStep, InRead, Worker, BeginRead, Seek, WaitBlock, Wake, DropStale, CopyBlock,
           EndRead, CloseReqs, Join, TakeRequest, Exit, Deliver, vars
  <2> QED
    BY <1>2, <2>1 DEF ReachInv
<1>3. ASSUME ~sought, NEW size \in Nat \ {0}, BeginRead(size)
      PROVE  ReachInv'
  <2> DEFINE limit == Lower(BlobSize, read_cursor + size + Prefetch * BlockSize)
  <2> DEFINE new == Requested(limit)
  <2>1. size \in Nat \ {0} /\ limit \in 0 .. BlobSize /\ limit <= Reach'
    BY <1>0, <1>3, DownloaderAssumption DEF BeginRead, Reach, Lower
  <2>2. /\ reqs' = reqs \o new /\ UNCHANGED <<read_cursor, window, job>>
        /\ from' = read_cursor /\ target' = read_cursor + size /\ cpc' = "reading"
        /\ cpc = "idle"
    BY <1>3 DEF BeginRead, Needed
  <2> HIDE DEF limit
  <2>3. new \in Seq(Begins) /\ \A i \in DOMAIN new : new[i] < limit
    BY <1>0, <2>1, RequestedShape, RequestedBelow
  <2> HIDE DEF new
  <2>4. Reach \in Nat /\ Reach' \in Nat /\ Reach <= Reach'
    BY <1>0, <1>3, <2>1, <2>2 DEF ReachInv, Reach
  <2>5. ASSUME NEW o \in Begins, Held(o)' PROVE o < Reach'
    <3>1. CASE Held(o)
      BY <1>0, <1>3, <2>4, <3>1 DEF ReachInv
    <3>2. CASE ~Held(o)
      <4>1. PICK i \in DOMAIN reqs' : reqs'[i] = o
        BY <2>2, <2>5, <3>2 DEF Held, Offsets, BagToSet
      <4>2. i \notin DOMAIN reqs
        <5>1. i \in DOMAIN reqs => reqs'[i] = reqs[i]
          BY <1>0, <2>2, <2>3
        <5> QED
          BY <3>2, <4>1, <5>1 DEF Held
      <4>3. i - Len(reqs) \in DOMAIN new /\ o = new[i - Len(reqs)]
        BY <1>0, <2>2, <2>3, <4>1, <4>2
      <4> QED
        BY <1>0, <2>1, <2>3, <2>4, <4>3
    <3> QED
      BY <3>1, <3>2
  <2> QED
    BY <1>0, <2>1, <2>2, <2>5 DEF ReachInv
<1>4. ASSUME ~sought,
             \/ WaitBlock \/ Wake \/ EndRead \/ DropStale \/ CopyBlock \/ CloseReqs \/ Join
             \/ \E w \in Workers : Worker(w)
             \/ UNCHANGED vars
      PROVE  ReachInv'
  <2>1. \A o \in Begins : Held(o)' => Held(o)
    BY <1>4, HeldBefore
  <2>2. UNCHANGED <<from, target>>
    BY <1>4 DEF WaitBlock, Wake, EndRead, DropStale, CopyBlock, CloseReqs, Join, Worker,
                TakeRequest, Exit, Deliver, vars
  <2>3. read_cursor' \in Nat /\ read_cursor <= read_cursor'
    <3>1. CASE CopyBlock
      <4>1. End(Front) \in Nat
        BY <1>0, <3>1, FrontShape, EndShape DEF CopyBlock, FrontUsable
      <4> QED
        BY <1>0, <3>1, <4>1 DEF CopyBlock, Lower
    <3>2. CASE ~CopyBlock
      <4>1. read_cursor' = read_cursor
        BY <1>4, <3>2 DEF WaitBlock, Wake, EndRead, DropStale, CloseReqs, Join, Worker,
                          TakeRequest, Exit, Deliver, vars, cursors
      <4> QED
        BY <1>0, <4>1
    <3> QED
      BY <3>1, <3>2
  <2>4. cpc' \notin {"reading", "waiting"} => target <= read_cursor
    <3>1. ~DropStale
      <4>1. ASSUME DropStale PROVE FALSE
        <5>1. Front \in Begins /\ Held(Front) /\ End(Front) \in Nat /\ End(Front) < read_cursor
          BY <1>0, <4>1, FrontShape, EndShape DEF DropStale, FrontUsable, Held
        <5> QED
          BY <1>0, <1>4, <5>1 DEF OnceInv, AllAhead, Ahead
      <4> QED
        BY <4>1
    <3>2. CASE EndRead
      BY <1>0, <3>2 DEF EndRead
    <3>3. CASE ~EndRead
      <4>1. cpc' \notin {"reading", "waiting"} => cpc \notin {"reading", "waiting"}
        BY <1>4, <3>1, <3>3 DEF WaitBlock, Wake, CopyBlock, CloseReqs, Join, Worker,
                                TakeRequest, Exit, Deliver, vars
      <4> QED
        BY <1>4, <4>1 DEF ReachInv
    <3> QED
      BY <3>2, <3>3
  <2> QED
    BY <1>0, <1>4, <2>1, <2>2, <2>3, <2>4 DEF ReachInv, Reach
<1> QED
  BY <1>1, <1>2, <1>3, <1>4 DEF AnyStep, InRead

\* Pending blocks begin at least a block apart, so each has a quotient of its own.
LEMMA ReachUse ==
    ASSUME TypeInv, OnceInv, ReachInv
    PROVE  MemoryBounded
<1> DEFINE all == UNION {Copies(o) : o \in Pending}
<1> DEFINE room == (target - from) + BlockSize - 1
<1> DEFINE place(o) == (o + BlockSize - 1 - from) \div BlockSize
<1> SUFFICES ASSUME ~sought
             PROVE  Cardinality(all) <= room \div BlockSize + Prefetch + 1
  BY DEF MemoryBounded
<1>0. /\ BlobSize \in Nat /\ BlockSize \in Nat \ {0} /\ Prefetch \in Nat
      /\ read_cursor \in Nat /\ from \in Nat /\ target \in Nat
      /\ from <= read_cursor /\ from <= target
  BY DownloaderAssumption DEF TypeInv, TypeOK, ReachInv
<1>1. Increasing /\ Apart /\ AllAhead
  BY DEF OnceInv
<1>2. ASSUME NEW o \in Pending
      PROVE  /\ o \in Nat /\ o < BlobSize /\ o + BlockSize - 1 - from \in Nat
             /\ o < target + Prefetch * BlockSize
             /\ o \in Begins /\ Held(o) /\ \E h : Copies(o) = {h}
  <2>1. o \in Begins /\ Held(o) /\ \E h : Copies(o) = {h}
    BY <1>1, PendingOnce
  <2>2. /\ o \in Nat /\ o < BlobSize /\ read_cursor < End(o)
        /\ End(o) <= o + BlockSize /\ End(o) \in Nat
    BY <1>0, <1>1, <2>1, EndShape DEF AllAhead, Ahead, Begins
  <2>3. o < target + Prefetch * BlockSize
    BY <2>1 DEF ReachInv, Reach
  <2>4. o + BlockSize - 1 - from \in Nat
    BY <1>0, <2>2
  <2> QED
    BY <2>1, <2>2, <2>3, <2>4, Zenon
<1>3. room \in Nat /\ room \div BlockSize \in Nat
  <2>1. room \in Nat
    BY <1>0
  <2> QED
    BY <1>0, <2>1, Quotient
<1>4. ASSUME NEW o \in Pending PROVE place(o) \in 0 .. room \div BlockSize + Prefetch
  <2>1. o + BlockSize - 1 - from \in Nat
    BY <1>2
  <2>2. o + BlockSize - 1 - from < room + Prefetch * BlockSize
    <3>1. Prefetch * BlockSize \in Nat
      BY <1>0
    <3> QED
      BY <1>0, <1>2, <3>1
  <2>3. place(o) \in Nat /\ place(o) <= room \div BlockSize + Prefetch
    BY <1>0, <1>3, <2>1, <2>2, Quotient, QuotientBound
  <2> QED
    BY <1>0, <1>3, <2>3
<1>5. ASSUME NEW o \in Pending, NEW p \in Pending, Before(o, p)
      PROVE  place(o) # place(p)
  <2>1. o + BlockSize <= p
    BY <1>0, <1>2, <1>5 DEF Before, End, Lower
  <2>2. (o + BlockSize - 1 - from) + BlockSize <= p + BlockSize - 1 - from
    BY <1>0, <1>2, <2>1
  <2> QED
    BY <1>0, <1>2, <2>2, QuotientApart
<1>6. \A o, p \in Pending : place(o) = place(p) => o = p
  <2>1. ASSUME NEW o \in Pending, NEW p \in Pending PROVE o = p \/ Before(o, p) \/ Before(p, o)
    BY <1>1, <1>2, HeldApart DEF Disjoint
  <2> QED
    BY <1>5, <2>1
<1> DEFINE Owner(h) == CHOOSE o \in Pending : h \in Copies(o)
<1> DEFINE f == [h \in all |-> place(Owner(h))]
<1> DEFINE places == 0 .. room \div BlockSize + Prefetch
<1>7. ASSUME NEW h \in all PROVE Owner(h) \in Pending /\ Copies(Owner(h)) = {h}
  <2>1. \E o \in Pending : h \in Copies(o)
    OBVIOUS
  <2>2. Owner(h) \in Pending /\ h \in Copies(Owner(h))
    BY <2>1, Zenon
  <2> QED
    BY <1>2, <2>2
<1> HIDE DEF all, place, Owner
<1>8. f \in Injection(all, places)
  <2>1. f \in [all -> places]
    BY <1>4, <1>7
  <2>2. ASSUME NEW h \in all, NEW k \in all, f[h] = f[k] PROVE h = k
    <3>1. Owner(h) = Owner(k)
      BY <1>6, <1>7, <2>2
    <3> QED
      BY <1>7, <3>1
  <2> QED
    BY <2>1, <2>2 DEF Injection, IsInjective
<1>9. IsFiniteSet(places) /\ Cardinality(places) = room \div BlockSize + Prefetch + 1
  BY <1>0, <1>3, FS_Interval
<1> HIDE DEF f, places
<1>10. Cardinality(all) <= Cardinality(places)
  BY <1>8, <1>9, FS_Injection
<1> QED
  BY <1>9, <1>10

\* Without seeks the blocks that exist at once, each with its buffer, are at most those
\* of one read, the prefetch and one begun before (lines 67-73 and 91-96).  They begin at
\* least a block apart, so each has a quotient of its own in that many.
THEOREM MemoryBoundedHolds == Spec => []MemoryBounded
BY TypeInit, TypeStep, OnceInit, OnceStep, ReachInit, ReachStep, ReachUse, NextIsAny, PTL DEF Spec
==============================================================================

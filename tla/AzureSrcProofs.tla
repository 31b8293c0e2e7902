---------------------------- MODULE AzureSrcProofs ----------------------------
(***************************************************************************)
(* Theorems about AzureSrc, the element over its AzureDownloader, for any  *)
(* workers, any blob, block size and prefetch, any fills and seeks, and any*)
(* number of starts.  A step of the element is a step of its downloader    *)
(* (AnyStep), leaves the downloader alone, or is an init() of start().     *)
(***************************************************************************)
EXTENDS AzureSrc, DownloaderProofs

------------------------------------------------------------------------------
(* Types, and how the element and its downloader agree *)

\* The variables of the element have their types, and it is in stop() exactly while
\* its downloader joins the workers.
ElementInv ==
    /\ state \in {"ready", "started", "fill", "read", "stopping", "stopped", "aborted"}
    /\ exists \in BOOLEAN
    /\ {read_position, position, length} \subseteq Nat
    /\ lives \in 0 .. MaxLives
    /\ state = "stopping" <=> cpc = "join"
    /\ cpc \in {"reading", "waiting"} => state = "read"

\* The call the element is in says where the reader of the downloader is; a
\* stopped downloader has no worker left; a fill() asks for some bytes.
CallInv ==
    /\ ElementInv
    /\ state \in {"ready", "started", "fill", "aborted"} => cpc = "idle"
    /\ state = "read" => cpc \in {"idle", "reading", "waiting"}
    /\ state = "stopped" => cpc = "destroyed"
    /\ state \in {"ready", "stopped"} => \A w \in Workers : wpc[w] = "exited"
    /\ state = "fill" => length # 0

SrcInv == TypeInv /\ CallInv

\* What a fill() asks for is there.
LEMMA FillShape ==
    ASSUME SrcInv, NEW n \in ReadSizes, Fill(n)
    PROVE  length' \in Nat \ {0} /\ position \in Nat
<1>1. /\ n \in Nat \ {0} /\ Size \in Nat /\ position \in Nat /\ position < Size
      /\ length' = Lower(n, Size - position)
  BY DownloaderAssumption DEF Fill, Size, SrcInv, CallInv, ElementInv
<1> QED
  BY <1>1 DEF Lower

\* Whatever the element does, its downloader makes a step of its own, except in an
\* init().
LEMMA DownloaderStep ==
    ASSUME SrcInv, [SrcNext]_srcVars
    PROVE  AnyStep \/ \E found \in BOOLEAN : Start(found)
<1>1. ASSUME NEW n \in ReadSizes, Fill(n) PROVE AnyStep
  BY <1>1, FillShape DEF Fill, AnyStep
<1>2. CASE Read
  <2>1. length \in Nat \ {0}
    BY <1>2 DEF Read, SrcInv, CallInv, ElementInv
  <2> QED
    BY <1>2, <2>1 DEF Read, AnyStep
<1> QED
  BY <1>1, <1>2 DEF SrcNext, AskFor, Streaming, Abort, Return, Downloading, Within, Stop,
                    Stopped, srcVars, AnyStep

\* What init() starts, it starts with nothing to download.
LEMMA StartShape ==
    ASSUME SrcInv, NEW found \in BOOLEAN, Start(found)
    PROVE  /\ \A w \in Workers : job[w] = None /\ wpc[w] = "exited"
           /\ UNCHANGED <<read_cursor, write_cursor, window, reqs, reqsClosed, job, from,
                          target, buffer, sought>>
           /\ cpc' = "idle" /\ cpc \notin {"reading", "waiting"}
           /\ wpc' \in [Workers -> {"pop", "exited"}]
<1>1. \A w \in Workers : job[w] = None /\ wpc[w] = "exited"
  BY DEF Start, SrcInv, CallInv, TypeInv, TypeOK
<1>2. wpc \in [Workers -> {"pop", "exited"}]
  <2>1. wpc = [w \in Workers |-> wpc[w]]
    BY DEF SrcInv, TypeInv, TypeOK
  <2> QED
    BY <1>1, <2>1
<1> QED
  BY <1>1, <1>2 DEF Start, SrcInv, CallInv, cursors, channel, call

\* init() keeps the types of the downloader.
LEMMA StartTypes ==
    ASSUME SrcInv, NEW found \in BOOLEAN, Start(found)
    PROVE  TypeInv'
<1>1. /\ \A w \in Workers : job[w] = None
      /\ UNCHANGED <<read_cursor, write_cursor, window, reqs, reqsClosed, job, from,
                     target, buffer, sought>>
      /\ cpc' = "idle"
      /\ wpc' \in [Workers -> {"pop", "exited"}]
  BY StartShape
<1>2. wpc' \in [Workers -> {"pop", "download", "exited", "stranded"}]
  BY <1>1
<1>3. \A w \in Workers : job'[w] # None <=> wpc'[w] = "download"
  BY <1>1
<1>4. Offsets' = Offsets /\ None' = None
  BY <1>1 DEF Offsets, BagToSet, None
<1> QED
  BY <1>1, <1>2, <1>3, <1>4 DEF SrcInv, TypeInv, TypeOK, InBlob

\* The types of the downloader are kept by every step of the element.
LEMMA SrcTypes ==
    ASSUME SrcInv, [SrcNext]_srcVars
    PROVE  TypeInv'
BY DownloaderStep, StartTypes, TypeStep DEF SrcInv

\* Every step of the element keeps the agreement.
LEMMA CallStep ==
    ASSUME SrcInv, [SrcNext]_srcVars
    PROVE  CallInv'
<1> USE SrcAssumption, DownloaderAssumption DEF CallInv, ElementInv
<1>0. /\ CallInv /\ {read_position, position, length} \subseteq Nat
      /\ wpc \in [Workers -> {"pop", "download", "exited", "stranded"}]
  BY DEF SrcInv, TypeInv, TypeOK
<1>1. ASSUME NEW found \in BOOLEAN, Start(found) PROVE CallInv'
  <2>1. lives' \in 0 .. MaxLives
    BY <1>0, <1>1 DEF Start
  <2>2. exists' \in BOOLEAN
    BY <1>0, <1>1 DEF Start
  <2>3. /\ state' = "started" /\ cpc' = "idle"
        /\ {read_position', position', length'} \subseteq Nat
    BY <1>0, <1>1 DEF Start
  <2> HIDE DEF ElementInv
  <2>4. ElementInv'
    BY <2>1, <2>2, <2>3 DEF ElementInv
  <2> QED
    BY <2>3, <2>4
<1>2. ASSUME NEW o \in SeekOffsets, AskFor(o) PROVE CallInv'
  BY <1>0, <1>2 DEF AskFor, vars
<1>3. ASSUME NEW n \in ReadSizes, Fill(n) PROVE CallInv'
  <2>1. length' \in Nat /\ length' # 0
    BY <1>3, FillShape
  <2>2. cpc' = "idle" /\ state' = "fill" /\ UNCHANGED <<exists, read_position, position, lives>>
    BY <1>0, <1>3 DEF Fill, Seek, vars
  <2> QED
    BY <1>0, <2>1, <2>2
<1>4. CASE Read
  BY <1>0, <1>4 DEF Read, BeginRead
<1>5. CASE Abort
  BY <1>0, <1>5 DEF Abort, vars
<1>6. CASE Return
  <2>1. read_position' \in Nat /\ position' \in Nat /\ length' \in Nat
    BY <1>0, <1>6 DEF Return
  <2>2. state' = "started" /\ cpc' = "idle" /\ UNCHANGED <<exists, lives>>
    BY <1>0, <1>6 DEF Return, vars
  <2> QED
    BY <1>0, <2>1, <2>2
<1>7. CASE Within(InRead)
  <2>1. /\ cpc \in {"reading", "waiting"} /\ cpc' \in {"reading", "waiting", "idle"}
        /\ UNCHANGED element /\ wpc' = wpc
    BY <1>7 DEF Within, InRead, WaitBlock, Wake, DropStale, CopyBlock, EndRead
  <2>2. state = "read"
    BY <1>0, <2>1
  <2> QED
    BY <1>0, <2>1, <2>2 DEF element
<1>8. ASSUME NEW w \in Workers, Within(Worker(w)) PROVE CallInv'
  <2>1. wpc[w] # "exited" /\ cpc' = cpc /\ UNCHANGED element
    BY <1>8 DEF Within, Worker, TakeRequest, Exit, Deliver
  <2>2. state \notin {"ready", "stopped"}
    BY <1>0, <2>1
  <2> QED
    BY <1>0, <2>1, <2>2 DEF element
<1>9. CASE Stop
  BY <1>0, <1>9 DEF Stop, CloseReqs
<1>10. CASE Stopped
  BY <1>0, <1>10 DEF Stopped, Join
<1>11. CASE UNCHANGED srcVars
  BY <1>0, <1>11 DEF srcVars, vars, element
<1> QED
  BY <1>1, <1>2, <1>3, <1>4, <1>5, <1>6, <1>7, <1>8, <1>9, <1>10, <1>11
     DEF SrcNext, Streaming, Downloading

\* Before the first start() there is nothing to download and no worker.
LEMMA SrcInvInit == SrcInit => SrcInv
<1> SUFFICES ASSUME SrcInit PROVE SrcInv
  OBVIOUS
<1>1. IsABag(window) /\ Offsets = {}
  BY DEF SrcInit, Constructed, EmptyBag, SetToBag, IsABag, Offsets, BagToSet
<1>2. reqs \in Seq(Begins) /\ reqs \in Seq(Nat)
  BY DEF SrcInit, Constructed, Reqs!Init
<1>3. /\ read_cursor \in Nat /\ write_cursor \in Nat
      /\ from \in Nat /\ target \in Nat /\ buffer \in Seq(Nat)
      /\ cpc \in {"idle", "reading", "waiting", "join", "destroyed"}
  BY DEF SrcInit, Constructed
<1>4. /\ job \in [Workers -> Nat \cup {None}] /\ job \in [Workers -> Begins \cup {None}]
      /\ wpc \in [Workers -> {"pop", "download", "exited", "stranded"}]
      /\ \A w \in Workers : job[w] # None <=> wpc[w] = "download"
  BY DEF SrcInit, Constructed
<1>5. reqsClosed \in BOOLEAN /\ sought \in BOOLEAN
  BY Zenon DEF SrcInit, Constructed, Reqs!Init
<1>6. TypeInv
  BY <1>1, <1>2, <1>3, <1>4, <1>5, Zenon DEF TypeInv, TypeOK, InBlob
<1>7. exists \in BOOLEAN
  BY DEF SrcInit
<1>8. /\ state = "ready" /\ cpc = "idle" /\ {read_position, position, length} \subseteq Nat
      /\ lives \in 0 .. MaxLives
  BY SrcAssumption DEF SrcInit, Constructed
<1>9. \A w \in Workers : wpc[w] = "exited"
  BY DEF SrcInit
<1> QED
  BY <1>6, <1>7, <1>8, <1>9 DEF SrcInv, CallInv, ElementInv

\* Every step of the element keeps the types and the agreement.
LEMMA SrcInvStep ==
    ASSUME SrcInv, [SrcNext]_srcVars
    PROVE  SrcInv'
BY SrcTypes, CallStep DEF SrcInv

\* They hold in every state of the element.
LEMMA SrcAlways == SrcSpec => []SrcInv
BY SrcInvInit, SrcInvStep, PTL DEF SrcSpec

------------------------------------------------------------------------------
(* The promises of the downloader, in every life of the element *)

\* init() leaves what was copied, requested and stored as it finds it.
LEMMA StartKeeps ==
    ASSUME SrcInv, NEW found \in BOOLEAN, Start(found)
    PROVE  /\ CopyInv => CopyInv'
           /\ Supplied => Supplied'
           /\ OnceInv => OnceInv'
           /\ ReachInv => ReachInv'
<1>1. /\ UNCHANGED <<read_cursor, write_cursor, window, reqs, job, from, target, buffer, sought>>
      /\ cpc' = "idle" /\ cpc \notin {"reading", "waiting"}
  BY StartShape
<1>2. /\ Offsets' = Offsets /\ None' = None
      /\ \A o, p : Before(o, p)' <=> Before(o, p)
      /\ \A o : Held(o)' <=> Held(o)
      /\ \A o : Ahead(o)' <=> Ahead(o)
      /\ \A o, b : Covers(o, b)' <=> Covers(o, b)
  BY <1>1 DEF Offsets, BagToSet, None, Before, Held, Ahead, Covers, End, Lower
<1>3. CopyInv => CopyInv'
  BY <1>1 DEF CopyInv, CopiesTheBlob
<1>4. Supplied => Supplied'
  BY <1>1, <1>2 DEF Supplied
<1>5. OnceInv => OnceInv'
  <2>1. \A o, p : Disjoint(o, p)' <=> Disjoint(o, p)
    BY <1>2 DEF Disjoint
  <2> QED
    BY <1>1, <1>2, <2>1 DEF OnceInv, Increasing, Apart, AllAhead
<1>6. ReachInv => ReachInv'
  BY <1>1, <1>2 DEF ReachInv, Reach
<1> QED
  BY <1>3, <1>4, <1>5, <1>6

\* Before the first start() nothing is copied, requested or stored.
LEMMA PromisesInit == SrcInit => CopyInv /\ Supplied /\ OnceInv /\ ReachInv
<1> SUFFICES ASSUME SrcInit PROVE CopyInv /\ Supplied /\ OnceInv /\ ReachInv
  OBVIOUS
<1>1. /\ reqs = <<>> /\ Offsets = {} /\ read_cursor = 0 /\ write_cursor = 0
      /\ from = 0 /\ target = 0 /\ buffer = <<>>
  BY DEF SrcInit, Constructed, Reqs!Init, EmptyBag, SetToBag, Offsets, BagToSet
<1>2. \A w \in Workers : job[w] = None
  BY DEF SrcInit, Constructed
<1>3. None \notin Begins
  BY DownloaderAssumption DEF None, Begins
<1>4. CopyInv /\ Supplied
  BY <1>1 DEF CopyInv, CopiesTheBlob, Supplied
<1>5. \A o \in Begins : ~Held(o)
  BY <1>1, <1>2, <1>3 DEF Held
<1>6. OnceInv
  BY <1>1, <1>2, <1>5 DEF OnceInv, Increasing, Apart, AllAhead
<1>7. ReachInv
  BY <1>1, <1>5 DEF ReachInv
<1> QED
  BY <1>4, <1>6, <1>7

\* Every step of the element keeps the promises.
LEMMA PromisesStep ==
    ASSUME SrcInv, CopyInv, Supplied, OnceInv, ReachInv, [SrcNext]_srcVars
    PROVE  CopyInv' /\ Supplied' /\ OnceInv' /\ ReachInv'
<1>1. TypeInv
  BY DEF SrcInv
<1>2. CASE AnyStep
  BY <1>1, <1>2, CopyStep, SuppliedStep, OnceStep, ReachStep
<1>3. CASE \E found \in BOOLEAN : Start(found)
  BY <1>3, StartKeeps
<1> QED
  BY <1>2, <1>3, DownloaderStep

\* They hold in every state of the element.
LEMMA PromisesAlways == SrcSpec => [](SrcInv /\ CopyInv /\ Supplied /\ OnceInv /\ ReachInv)
BY SrcInvInit, SrcInvStep, PromisesInit, PromisesStep, PTL DEF SrcSpec

\* What the downloader promises of reads inside the blob holds for the element too,
\* whose fills may ask for what is left after a seek that the downloader has not
\* made: what is copied is the blob, and nothing that read() needs is missing,
\* although requests and blocks of one life of the element are still there in the
\* next one.
THEOREM NothingMissingInEveryLife == SrcSpec => [](TypeOK /\ CopiesTheBlob /\ NothingMissing)
<1>1. SrcInv /\ CopyInv /\ Supplied => TypeOK /\ CopiesTheBlob /\ NothingMissing
  BY SuppliedUse DEF SrcInv, TypeInv, CopyInv
<1> QED
  BY PromisesAlways, <1>1, PTL

\* Until fill() first seeks, nothing is downloaded twice in the lives of the element,
\* and what is downloaded at once is bounded by the reads and the prefetch.
THEOREM MemoryBoundedInEveryLife == SrcSpec => [](NothingTwice /\ MemoryBounded)
<1>1. SrcInv /\ OnceInv /\ ReachInv => NothingTwice /\ MemoryBounded
  BY OnceUse, ReachUse DEF SrcInv
<1> QED
  BY PromisesAlways, <1>1, PTL

------------------------------------------------------------------------------
(* Streams in order *)

\* Until fill() first seeks, the offset that GstBaseSrc asks for, the counter of the
\* element and the cursor of the downloader agree wherever one of them is used.
StreamInv ==
    ~sought =>
        /\ state \in {"ready", "started", "stopping", "stopped"} => read_position = read_cursor
        /\ state = "fill" => position = read_position /\ read_position = read_cursor
        /\ state = "read" =>
             /\ from = position /\ position = read_position
             /\ target = from + length /\ read_cursor <= target

\* The steps inside read() do not go beyond what it was asked for.
LEMMA WithinTarget ==
    ASSUME TypeInv, InRead, read_cursor <= target
    PROVE  read_cursor' <= target' /\ from' = from /\ target' = target /\ sought' = sought
<1>1. CASE CopyBlock
  <2>1. End(Front) \in Nat /\ target \in Nat
    BY <1>1, FrontShape, EndShape, HeldTypes DEF CopyBlock, FrontUsable, TypeInv, TypeOK
  <2> QED
    BY <1>1, <2>1 DEF CopyBlock, Lower
<1>2. CASE WaitBlock \/ Wake \/ DropStale \/ EndRead
  BY <1>2 DEF WaitBlock, Wake, DropStale, EndRead, cursors, call
<1> QED
  BY <1>1, <1>2 DEF InRead

\* Every step of the element keeps the cursors together.
LEMMA StreamStep ==
    ASSUME SrcInv, ReachInv, StreamInv, [SrcNext]_srcVars
    PROVE  StreamInv'
<1> USE DEF StreamInv, call, cursors
<1>0. /\ TypeInv /\ CallInv /\ ElementInv
      /\ read_cursor \in Nat /\ read_position \in Nat /\ position \in Nat /\ length \in Nat
      /\ from \in Nat /\ target \in Nat
  BY DEF SrcInv, CallInv, ElementInv, TypeInv, TypeOK
<1>1. ASSUME NEW found \in BOOLEAN, Start(found) PROVE StreamInv'
  BY <1>1 DEF Start
<1>2. ASSUME NEW o \in SeekOffsets, AskFor(o) PROVE StreamInv'
  BY <1>2 DEF AskFor, vars
<1>3. ASSUME NEW n \in ReadSizes, Fill(n) PROVE StreamInv'
  BY <1>3 DEF Fill, Seek, vars
<1>4. CASE Read
  BY <1>0, <1>4 DEF Read, BeginRead
<1>5. CASE Abort
  BY <1>5 DEF Abort, vars
<1>6. CASE Return
  <2>1. ~sought => target <= read_cursor
    BY <1>6 DEF Return, ReachInv
  <2> QED
    BY <1>0, <1>6, <2>1 DEF Return, vars
<1>7. CASE Within(InRead)
  <2>1. state = "read" /\ UNCHANGED element
    BY <1>0, <1>7 DEF Within, InRead, WaitBlock, Wake, DropStale, CopyBlock, EndRead, CallInv,
                      ElementInv
  <2>2. ~sought => read_cursor' <= target' /\ from' = from /\ target' = target /\ sought' = sought
    BY <1>0, <1>7, <2>1, WithinTarget DEF Within
  <2>3. sought' = sought
    BY <1>7 DEF Within, InRead, WaitBlock, Wake, DropStale, CopyBlock, EndRead
  <2> QED
    BY <2>1, <2>2, <2>3 DEF element
<1>8. ASSUME NEW w \in Workers, Within(Worker(w)) PROVE StreamInv'
  BY <1>8 DEF Within, Worker, TakeRequest, Exit, Deliver, element
<1>9. CASE Stop
  BY <1>9 DEF Stop, CloseReqs
<1>10. CASE Stopped
  <2>1. state = "stopping"
    BY <1>0, <1>10 DEF Stopped, Join, ElementInv
  <2> QED
    BY <1>10, <2>1 DEF Stopped, Join
<1>11. CASE UNCHANGED srcVars
  BY <1>11 DEF srcVars, vars, element
<1> QED
  BY <1>1, <1>2, <1>3, <1>4, <1>5, <1>6, <1>7, <1>8, <1>9, <1>10, <1>11
     DEF SrcNext, Streaming, Downloading

\* Until then the buffer holds the bytes from where the read began to the cursor.
LEMMA BufferShape ==
    ASSUME SrcInv, CopyInv, ~sought
    PROVE  buffer = BlobBytes(from, read_cursor - from)
<1>1. /\ buffer \in Seq(Nat) /\ from \in Nat /\ read_cursor = from + Len(buffer)
      /\ \A i \in DOMAIN buffer : buffer[i] = from + i - 1
  BY DEF SrcInv, TypeInv, TypeOK, CopyInv, CopiesTheBlob
<1>2. read_cursor - from = Len(buffer) /\ DOMAIN buffer = 1 .. Len(buffer)
  BY <1>1
<1>3. buffer = [i \in 1 .. Len(buffer) |-> from + i - 1]
  BY <1>1, <1>2
<1> QED
  BY <1>2, <1>3 DEF BlobBytes

\* The cursors are together in every state of the element.
LEMMA StreamAlways == SrcSpec => []StreamInv
<1>1. SrcInit => StreamInv
  BY DEF SrcInit, Constructed, StreamInv
<1> QED
  BY <1>1, PromisesAlways, StreamStep, PTL DEF SrcSpec

\* Until fill() first seeks, a read begins at the offset that GstBaseSrc asks for and
\* fills the buffer with the blob's bytes from there, and read_position is where the
\* downloader stands: across fills that end anywhere in a block, and across stop()
\* and start().
THEOREM StreamsInOrderHolds == SrcSpec => []StreamsInOrder
<1>1. SrcInv /\ CopyInv /\ StreamInv => StreamsInOrder
  BY BufferShape DEF StreamInv, StreamsInOrder
<1> QED
  BY <1>1, PromisesAlways, StreamAlways, PTL

\* Until fill() first seeks, what it returns is what it was asked for, all of it and
\* from the right offset (lines 375-398): the promise that FillDelivers makes of
\* every fill(), and that the code keeps only so far.
THEOREM FillDeliversUntilSeek ==
    SrcSpec => [][~sought /\ state = "read" /\ state' = "started"
                    => buffer = BlobBytes(position, length)]_srcVars
<1>1. ASSUME SrcInv, CopyInv, ReachInv, StreamInv, [SrcNext]_srcVars,
             ~sought, state = "read", state' = "started"
      PROVE  buffer = BlobBytes(position, length)
  <2>1. cpc = "idle"
    BY <1>1 DEF SrcNext, Start, AskFor, Fill, Streaming, Read, Abort, Return, Downloading, Within,
                Stop, Stopped, element, srcVars
  <2>2. target <= read_cursor
    BY <1>1, <2>1 DEF ReachInv
  <2>3. from = position /\ target = from + length /\ read_cursor <= target
    BY <1>1 DEF StreamInv
  <2>4. {read_cursor, from, length} \subseteq Nat
    BY <1>1 DEF SrcInv, CallInv, ElementInv, TypeInv, TypeOK
  <2>5. read_cursor - from = length
    BY <2>2, <2>3, <2>4
  <2> QED
    BY <1>1, <2>3, <2>5, BufferShape
<1>2. SrcInv /\ CopyInv /\ ReachInv /\ StreamInv /\ [SrcNext]_srcVars
        => [~sought /\ state = "read" /\ state' = "started"
              => buffer = BlobBytes(position, length)]_srcVars
  BY <1>1
<1> QED
  BY <1>2, PromisesAlways, StreamAlways, PTL DEF SrcSpec

------------------------------------------------------------------------------
(* Exceptions *)

\* The queue is closed by a stop(), and the element is only asked for more after the
\* start() that follows it.
ClosedInv ==
    /\ state = "ready" => ~reqsClosed
    /\ state # "ready" => lives >= 1
    /\ reqsClosed /\ state \notin {"stopping", "stopped"} => lives >= 2
    /\ state = "aborted" => reqsClosed

\* No exception leaves the element before it is started a second time.
THEOREM AbortsHolds == SrcSpec => []AbortsOnlyInSecondLife
<1>1. SrcInit => ClosedInv
  BY DEF SrcInit, Constructed, Reqs!Init, ClosedInv
<1>2. ASSUME SrcInv, ClosedInv, [SrcNext]_srcVars PROVE ClosedInv'
  <2>0. lives \in Nat
    BY <1>2, SrcAssumption DEF SrcInv, CallInv, ElementInv
  <2>1. ASSUME NEW found \in BOOLEAN, Start(found) PROVE ClosedInv'
    <3>1. /\ state \in {"ready", "stopped"} /\ state' = "started" /\ lives' = lives + 1
          /\ reqsClosed' = reqsClosed
      BY <2>1 DEF Start, channel
    <3>2. state = "ready" => ~reqsClosed
      BY <1>2 DEF ClosedInv
    <3>3. lives' >= 1 /\ (state = "stopped" => lives' >= 2)
      BY <1>2, <2>0, <3>1 DEF ClosedInv
    <3> QED
      BY <3>1, <3>2, <3>3 DEF ClosedInv
  <2>2. CASE Stop
    <3>1. state' = "stopping" /\ state = "started" /\ lives' = lives
      BY <2>2 DEF Stop
    <3> QED
      BY <1>2, <3>1 DEF ClosedInv
  <2>3. CASE Stopped
    <3>1. state' = "stopped" /\ lives' = lives /\ reqsClosed' = reqsClosed /\ state = "stopping"
      BY <1>2, <2>3 DEF Stopped, Join, channel, SrcInv, CallInv, ElementInv
    <3> QED
      BY <1>2, <3>1 DEF ClosedInv
  <2>4. ASSUME reqsClosed' = reqsClosed, lives' = lives,
               \/ state' = state
               \/ /\ state \in {"started", "fill", "read"}
                  /\ state' \in {"started", "fill", "read", "aborted"}
                  /\ state' = "aborted" => reqsClosed
        PROVE  ClosedInv'
    BY <1>2, <2>4 DEF ClosedInv
  <2>5. CASE \/ \E o \in SeekOffsets : AskFor(o)
             \/ Streaming \/ Downloading \/ UNCHANGED srcVars
    BY <2>4, <2>5 DEF AskFor, Streaming, Read, BeginRead, Abort, Return, Downloading, Within,
                      InRead, WaitBlock, Wake, DropStale, CopyBlock, EndRead, Worker,
                      TakeRequest, Reqs!Pop, Exit, Deliver, vars, element, srcVars, channel
  <2>6. ASSUME NEW n \in ReadSizes, Fill(n) PROVE ClosedInv'
    <3>1. reqsClosed' = reqsClosed
      BY <2>6 DEF Fill, Seek, channel, vars
    <3>2. state = "started" /\ state' = "fill" /\ lives' = lives
      BY <2>6 DEF Fill
    <3> QED
      BY <2>4, <3>1, <3>2
  <2> QED
    BY <1>2, <2>1, <2>2, <2>3, <2>5, <2>6 DEF SrcNext
<1>3. SrcInv /\ ClosedInv => AbortsOnlyInSecondLife
  <2>1. SrcInv => lives \in Nat
    BY SrcAssumption DEF SrcInv, CallInv, ElementInv
  <2> QED
    BY <2>1 DEF ClosedInv, AbortsOnlyInSecondLife
<1> QED
  BY SrcAlways, <1>1, <1>2, <1>3, PTL DEF SrcSpec
==============================================================================

------------------------------ MODULE Downloader ------------------------------
(***************************************************************************)
(* AzureDownloader (src/azuredownloader.cpp): one reader, the download     *)
(* workers, and the window in which blocks wait to be read.                *)
(*                                                                         *)
(*   reader  read(size) requests the blocks it needs and some ahead        *)
(*           (write_cursor), then copies from the front of the window, the *)
(*           block of the lowest offset, as it arrives; seek() moves both  *)
(*           cursors and clears the window, but not what is requested      *)
(*   worker  takes a request, downloads the block (retried until it        *)
(*           succeeds) and puts it into the window                         *)
(*                                                                         *)
(* The reader owns comp_lock from the start of read() to its end, except   *)
(* while it waits on comp_cond.  The byte at an offset of the blob is that *)
(* offset; a request is its offset, which determines its size.             *)
(***************************************************************************)
EXTENDS Naturals, FiniteSets, Sequences, Bags

CONSTANTS
    Workers,      \* worker_count threads
    BlobSize,     \* blob_size, from the properties of the blob
    BlockSize,    \* block_size
    Prefetch,     \* prefetch_block_count
    ReadSizes,    \* sizes the reader asks for
    SeekOffsets,  \* offsets the reader seeks to
    MayDestroy,   \* TRUE: the reader may call destroy()
    MaxPending    \* bound: requests queued when a read() starts

ASSUME DownloaderAssumption ==
    /\ Workers # {}
    /\ BlobSize \in Nat /\ BlockSize \in Nat \ {0} /\ Prefetch \in Nat
    /\ ReadSizes \subseteq Nat \ {0}
    /\ SeekOffsets \subseteq Nat
    /\ MayDestroy \in BOOLEAN
    /\ MaxPending \in Nat

VARIABLES
    read_cursor, write_cursor,
    window,      \* the bag of the offsets of the blocks downloaded
    reqs, reqsClosed,
    job,         \* the offset each worker downloads, None for none
    wpc,         \* where each worker is
    cpc,         \* where the reader is
    from,        \* read_cursor when read() was called
    target,      \* the local of that name
    buffer,      \* what read() has copied to its caller
    sought       \* history: the reader has called seek()

vars == <<read_cursor, write_cursor, window, reqs, reqsClosed, job, wpc, cpc,
          from, target, buffer, sought>>
cursors == <<read_cursor, write_cursor>>
channel == <<reqs, reqsClosed>>
call == <<from, target, buffer>>

Reqs == INSTANCE AtomicQueue WITH Value <- Nat, q <- reqs, closed <- reqsClosed

None == BlobSize  \* no block begins there
Lower(a, b) == IF a < b THEN a ELSE b

\* the end of the block at an offset, lines 70-71
End(offset) == Lower(offset + BlockSize, BlobSize)
BytesOf(offset) == [i \in 1 .. End(offset) - offset |-> offset + i - 1]

Offsets == BagToSet(window)
Front == CHOOSE o \in Offsets : \A p \in Offsets : o <= p
Remove(o) == window (-) SetToBag({o})

TypeOK ==
    /\ read_cursor \in Nat /\ write_cursor \in Nat
    /\ IsABag(window) /\ Offsets \subseteq Nat
    /\ reqs \in Seq(Nat) /\ reqsClosed \in BOOLEAN
    /\ job \in [Workers -> Nat \cup {None}]
    /\ wpc \in [Workers -> {"pop", "download", "exited", "stranded"}]
    /\ cpc \in {"idle", "reading", "waiting", "join", "destroyed"}
    /\ from \in Nat /\ target \in Nat /\ buffer \in Seq(Nat)
    /\ sought \in BOOLEAN
    /\ \A w \in Workers : job[w] # None <=> wpc[w] = "download"

\* the constructor, lines 20-31
Constructed ==
    /\ read_cursor = 0 /\ write_cursor = 0
    /\ window = EmptyBag
    /\ Reqs!Init
    /\ job = [w \in Workers |-> None]
    /\ cpc = "idle"
    /\ from = 0 /\ target = 0 /\ buffer = <<>>
    /\ sought = FALSE

\* and init(), lines 34-54, of a blob that exists
Init == Constructed /\ wpc = [w \in Workers |-> "pop"]

------------------------------------------------------------------------------
(* The reader: read(), lines 57-100 *)

\* fault: what was requested before is not remembered
RequestAgain(limit) ==
    [i \in 1 .. (limit - read_cursor + BlockSize - 1) \div BlockSize |->
        read_cursor + (i - 1) * BlockSize]

\* the offsets requested by the loop of lines 68-73
Requested(limit) ==
    IF write_cursor >= limit THEN <<>>
    ELSE [i \in 1 .. (limit - write_cursor + BlockSize - 1) \div BlockSize |->
             write_cursor + (i - 1) * BlockSize]

Needed(size) == Requested(Lower(BlobSize, read_cursor + size + Prefetch * BlockSize))

BeginRead(size) ==
    /\ cpc = "idle"
    /\ Len(reqs) <= MaxPending
    /\ LET new == Needed(size) IN
           /\ new # <<>> => ~reqsClosed
           /\ reqs' = reqs \o new
           /\ write_cursor' = IF new = <<>> THEN write_cursor ELSE End(new[Len(new)])
    /\ from' = read_cursor
    /\ target' = read_cursor + size
    /\ buffer' = <<>>
    /\ cpc' = "reading"
    /\ UNCHANGED <<read_cursor, window, reqsClosed, job, wpc, sought>>

\* the predicate of comp_cond, line 77
FrontUsable == Offsets # {} /\ Front <= read_cursor

\* comp_cond releases comp_lock
WaitBlock ==
    /\ cpc = "reading"
    /\ read_cursor < target
    /\ ~FrontUsable
    /\ cpc' = "waiting"
    /\ UNCHANGED <<cursors, window, channel, job, wpc, call, sought>>

Wake ==
    /\ cpc = "waiting"
    /\ FrontUsable
    /\ cpc' = "reading"
    /\ UNCHANGED <<cursors, window, channel, job, wpc, call, sought>>

\* lines 79-86: a block left over from before a seek; the loop ends
DropStale ==
    /\ cpc = "reading"
    /\ read_cursor < target
    /\ FrontUsable
    /\ End(Front) < read_cursor
    /\ window' = Remove(Front)
    /\ cpc' = "idle"
    /\ UNCHANGED <<cursors, channel, job, wpc, call, sought>>

\* fault: copies from the beginning of the block, whatever the cursor
CopyFromStart ==
    /\ cpc = "reading"
    /\ read_cursor < target
    /\ FrontUsable
    /\ End(Front) >= read_cursor
    /\ LET new == Lower(target, End(Front)) IN
       /\ buffer' = buffer \o SubSeq(BytesOf(Front), 1, new - read_cursor)
       /\ window' = IF new = End(Front) THEN Remove(Front) ELSE window
       /\ read_cursor' = new
    /\ UNCHANGED <<write_cursor, channel, job, wpc, cpc, from, target, sought>>

\* lines 87-97
CopyBlock ==
    /\ cpc = "reading"
    /\ read_cursor < target
    /\ FrontUsable
    /\ End(Front) >= read_cursor
    /\ LET new == Lower(target, End(Front)) IN
       /\ buffer' = buffer \o SubSeq(BytesOf(Front), read_cursor - Front + 1, new - Front)
       /\ window' = IF new = End(Front) THEN Remove(Front) ELSE window
       /\ read_cursor' = new
    /\ UNCHANGED <<write_cursor, channel, job, wpc, cpc, from, target, sought>>

\* line 99: it returns `size', always
EndRead ==
    /\ cpc = "reading"
    /\ read_cursor >= target
    /\ cpc' = "idle"
    /\ UNCHANGED <<cursors, window, channel, job, wpc, call, sought>>

\* fault: write_cursor is forgotten
SeekReader(offset) ==
    /\ cpc = "idle"
    /\ read_cursor' = offset
    /\ window' = EmptyBag
    /\ sought' = TRUE
    /\ UNCHANGED <<write_cursor, channel, job, wpc, cpc, call>>

\* seek(), lines 103-111
Seek(offset) ==
    /\ cpc = "idle"
    /\ read_cursor' = offset /\ write_cursor' = offset
    /\ window' = EmptyBag
    /\ sought' = TRUE
    /\ UNCHANGED <<channel, job, wpc, cpc, call>>

\* destroy(), line 123: close() takes no lock, and the worker that is about to
\* park at that moment sleeps on
CloseReqs ==
    /\ MayDestroy
    /\ cpc = "idle"
    /\ Reqs!Close
    /\ \/ UNCHANGED wpc
       \/ /\ reqs = <<>>
          /\ \E w \in Workers :
               wpc[w] = "pop" /\ wpc' = [wpc EXCEPT ![w] = "stranded"]
    /\ cpc' = "join"
    /\ UNCHANGED <<cursors, window, job, call, sought>>

\* lines 124-126
Join ==
    /\ cpc = "join"
    /\ \A w \in Workers : wpc[w] = "exited"
    /\ cpc' = "destroyed"
    /\ UNCHANGED <<cursors, window, channel, job, wpc, call, sought>>

------------------------------------------------------------------------------
(* A worker: run(), lines 129-163 *)

TakeRequest(w) ==
    /\ wpc[w] = "pop"
    /\ \E o \in {reqs[i] : i \in DOMAIN reqs} :
         Reqs!Pop(o) /\ job' = [job EXCEPT ![w] = o]
    /\ wpc' = [wpc EXCEPT ![w] = "download"]
    /\ UNCHANGED <<cursors, window, cpc, call, sought>>

Exit(w) ==
    /\ wpc[w] = "pop"
    /\ reqsClosed
    /\ wpc' = [wpc EXCEPT ![w] = "exited"]
    /\ UNCHANGED <<cursors, window, channel, job, cpc, call, sought>>

\* fault: waits for the next request as if it still had this one
DeliverOn(w) ==
    /\ wpc[w] = "download"
    /\ cpc # "reading"
    /\ window' = window (+) SetToBag({job[w]})
    /\ wpc' = [wpc EXCEPT ![w] = "pop"]
    /\ UNCHANGED <<cursors, channel, job, cpc, call, sought>>

\* fault: gives up after a failure
DeliverOrDrop(w) ==
    /\ wpc[w] = "download"
    /\ cpc # "reading"
    /\ window' \in {window, window (+) SetToBag({job[w]})}
    /\ job' = [job EXCEPT ![w] = None]
    /\ wpc' = [wpc EXCEPT ![w] = "pop"]
    /\ UNCHANGED <<cursors, channel, cpc, call, sought>>

\* lines 142-160, the attempt that succeeds; comp_lock is free
Deliver(w) ==
    /\ wpc[w] = "download"
    /\ cpc # "reading"
    /\ window' = window (+) SetToBag({job[w]})
    /\ job' = [job EXCEPT ![w] = None]
    /\ wpc' = [wpc EXCEPT ![w] = "pop"]
    /\ UNCHANGED <<cursors, channel, cpc, call, sought>>

------------------------------------------------------------------------------
InRead == WaitBlock \/ Wake \/ DropStale \/ CopyBlock \/ EndRead

\* A caller that clips its reads to get_size(), as GstBaseSrc does.
Reader ==
    \/ \E size \in ReadSizes : read_cursor + size <= BlobSize /\ BeginRead(size)
    \/ \E offset \in SeekOffsets : Seek(offset)
    \/ InRead \/ CloseReqs \/ Join

Worker(w) == TakeRequest(w) \/ Exit(w) \/ Deliver(w)

Next == Reader \/ \E w \in Workers : Worker(w)

Spec == Init /\ [][Next]_vars

\* Threads run, and the service answers a repeated download in the end; a worker
\* gets comp_lock when the reader sleeps or is between two calls.
Fairness ==
    /\ WF_vars(InRead)
    /\ WF_vars(Join)
    /\ \A w \in Workers : WF_vars(Worker(w))

FairSpec == Spec /\ Fairness

------------------------------------------------------------------------------
(* Properties *)

\* What a call has copied is the blob from where the call began, although blocks
\* arrive in any order, stale ones among them.
CopiesTheBlob == \A i \in DOMAIN buffer : buffer[i] = from + i - 1

\* the blocks that are requested and not yet consumed
Copies(o) ==
      {<<"reqs", i>> : i \in {j \in DOMAIN reqs : reqs[j] = o}}
    \cup {<<"job", w>> : w \in {v \in Workers : job[v] = o}}
    \cup (IF BagIn(o, window) THEN {<<"window", i>> : i \in 1 .. window[o]} ELSE {})
Pending == {o \in 0 .. BlobSize - 1 : Copies(o) # {}}
Covers(o, b) == o <= b /\ b < End(o)

\* Every byte between the cursors is requested, in download or stored: no drop of a
\* stale block and no seek forgets one.  In a second life a request that the closed
\* queue holds counts, although no worker will serve it.
NothingMissing ==
    \A b \in 0 .. BlobSize :
        read_cursor <= b /\ b < write_cursor => \E o \in Pending : Covers(o, b)

\* Without seeks each of these bytes is on its way once, and nothing else is:
\* no block is downloaded twice.
NothingTwice ==
    ~sought =>
        /\ \A o \in Pending : Cardinality(Copies(o)) = 1 /\ End(o) > read_cursor
        /\ \A o, p \in Pending : \A b \in 0 .. BlobSize :
             Covers(o, b) /\ Covers(p, b) => o = p

\* Without seeks the blocks requested and not consumed, each with its buffer, are
\* those of one read, the blocks to prefetch, and one that begins before the read.
MemoryBounded ==
    ~sought =>
        Cardinality(UNION {Copies(o) : o \in Pending})
            <= ((target - from) + BlockSize - 1) \div BlockSize + Prefetch + 1

\* read() inside the blob returns, whatever was sought before: the blocks it
\* waits for arrive, and a stale block in front of them does not block the window.
\* Nothing is said of a second life (reqsClosed), where a request left in the queue
\* that stop() has closed is never served.
ReadReturns ==
    cpc = "reading" /\ target <= BlobSize /\ ~reqsClosed ~> cpc = "idle"

------------------------------------------------------------------------------
(* What the repository says and the code does not do *)

\* read() fills the buffer whose size it returns, as the downloader of
\* tests/azuresrc.c:39-44 does.  After a seek, a block requested before it may
\* arrive in front; line 85 then ends the loop instead of going on.
ReadFills ==
    [][cpc = "reading" /\ cpc' = "idle" => Len(buffer) = target - from]_vars
==============================================================================

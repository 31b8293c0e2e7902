------------------------------- MODULE AzureSrc -------------------------------
(***************************************************************************)
(* The azuresrc element (src/gstazuresrc.c) over its AzureDownloader, which *)
(* it creates in its first start() and keeps for the rest of its life.     *)
(*                                                                         *)
(*   start()  init() of the downloader; the C wrapper reports success      *)
(*            whether the blob exists or not (azuredownloader.cpp:214-218) *)
(*   fill()   seek() if the offset asked for is not read_position, then    *)
(*            read(), which always says that it has read everything        *)
(*   stop()   destroy() of the downloader                                  *)
(*                                                                         *)
(* GstBaseSrc (external) asks for `position', which is the end of the last *)
(* buffer or where the application has sought, clips to get_size(), ends   *)
(* the stream there itself, and calls start() and stop() only while the    *)
(* streaming thread is at rest.  A start() without credentials or location *)
(* is refused before it changes anything: a stuttering step.               *)
(***************************************************************************)
EXTENDS Downloader

CONSTANTS
    MaxLives,   \* bound: calls of start() that succeed
    MaxFilled   \* bound: bytes asked of fill() in a behaviour

ASSUME SrcAssumption == MaxLives \in Nat /\ MaxFilled \in Nat

VARIABLES
    state,           \* where the element is
    exists,          \* loc # nullptr: an init() has found the blob
    read_position,
    position,        \* GstBaseSrc: the offset it asks for, that of the next buffer
    length,          \* what is asked of fill(), 0 outside it
    lives            \* history: calls of start() that succeeded

element == <<state, exists, read_position, position, length, lives>>
srcVars == <<vars, element>>

\* gst_azure_src_init(), lines 162-169: no downloader yet, so none of its threads
SrcInit ==
    /\ Constructed /\ wpc = [w \in Workers |-> "exited"]
    /\ state = "ready" /\ exists = FALSE
    /\ read_position = 0
    /\ position = 0 /\ length = 0 /\ lives = 0

\* gst_azure_src_start(), lines 288-324, and init() of the downloader, which
\* starts workers over the queue as it finds it.  A blob that is not found
\* leaves `loc' and the workers alone; no caller is told.
Start(found) ==
    /\ state \in {"ready", "stopped"}
    /\ lives < MaxLives
    /\ lives' = lives + 1
    /\ state' = "started"
    /\ cpc' = "idle"
    /\ position' = 0
    /\ exists' = (exists \/ found)
    /\ wpc' = IF found THEN [w \in Workers |-> "pop"] ELSE wpc
    /\ UNCHANGED <<cursors, window, channel, job, call, sought, read_position, length>>

\* gst_azure_src_get_size(), lines 341-349
Size == IF exists THEN BlobSize ELSE 0

\* the application seeks (external)
AskFor(o) ==
    /\ state = "started"
    /\ o < Size
    /\ position' = o
    /\ UNCHANGED <<vars, state, exists, read_position, length, lives>>

\* gst_azure_src_fill(), lines 352-366: the seek does not move read_position
Fill(n) ==
    /\ state = "started"
    /\ position < Size /\ read_position + n <= MaxFilled
    /\ length' = Lower(n, Size - position)
    /\ IF position # read_position THEN Seek(position) ELSE UNCHANGED vars
    /\ state' = "fill"
    /\ UNCHANGED <<exists, read_position, position, lives>>

\* line 377: the call of read()
Read ==
    /\ state = "fill"
    /\ BeginRead(length)
    /\ state' = "read"
    /\ UNCHANGED <<exists, read_position, position, length, lives>>

\* push() on the queue that stop() has closed throws through fill(): nothing
\* above it catches C++ exceptions
Abort ==
    /\ state = "fill"
    /\ Needed(length) # <<>> /\ reqsClosed
    /\ state' = "aborted"
    /\ UNCHANGED <<vars, exists, read_position, position, length, lives>>

\* steps inside the downloader, as long as there is a process
Within(step) ==
    /\ state # "aborted"
    /\ step
    /\ UNCHANGED element

Downloading == Within(InRead) \/ \E w \in Workers : Within(Worker(w))

\* fault: what was read is not counted
ReturnUncounted ==
    /\ state = "read"
    /\ cpc = "idle"
    /\ position' = position + length
    /\ length' = 0
    /\ state' = "started"
    /\ UNCHANGED <<vars, read_position, exists, lives>>

\* lines 378-379 and 394-398.  read() has returned all of `length', so the loop
\* of line 375 ends.
Return ==
    /\ state = "read"
    /\ cpc = "idle"
    /\ read_position' = read_position + length
    /\ position' = position + length
    /\ length' = 0
    /\ state' = "started"
    /\ UNCHANGED <<vars, exists, lives>>

\* fault: the element goes on streaming while the downloader is destroyed
StopStreaming ==
    /\ state = "started"
    /\ CloseReqs
    /\ UNCHANGED element

\* gst_azure_src_stop(), lines 327-331
Stop ==
    /\ state = "started"
    /\ CloseReqs
    /\ state' = "stopping"
    /\ UNCHANGED <<exists, read_position, position, length, lives>>

Stopped ==
    /\ Join
    /\ state' = "stopped"
    /\ UNCHANGED <<exists, read_position, position, length, lives>>

------------------------------------------------------------------------------
Streaming == Read \/ Abort \/ Return

SrcNext ==
    \/ \E found \in BOOLEAN : Start(found)
    \/ \E o \in SeekOffsets : AskFor(o)
    \/ \E n \in ReadSizes : Fill(n)
    \/ Streaming \/ Downloading \/ Stop \/ Stopped

SrcSpec == SrcInit /\ [][SrcNext]_srcVars

\* The streaming thread finishes the fill() it is in, and workers run.
SrcFairness ==
    /\ WF_srcVars(Streaming)
    /\ WF_srcVars(Within(InRead))
    /\ \A w \in Workers : WF_srcVars(Within(Worker(w)))

SrcFairSpec == SrcSpec /\ SrcFairness

------------------------------------------------------------------------------
(* Properties *)

BlobBytes(o, n) == [i \in 1 .. n |-> o + i - 1]

\* Until fill() first seeks, a read begins at the offset that GstBaseSrc asks for
\* and fills the buffer with the blob's bytes from there, and read_position is
\* where the downloader stands: across fills that end anywhere in a block, and
\* across stop() and start().
StreamsInOrder ==
    ~sought =>
        /\ state = "read" => from = position
        /\ state = "started" =>
             /\ read_position = read_cursor
             /\ buffer = BlobBytes(from, read_cursor - from)

\* No exception leaves the element before it is started a second time: until
\* then no request meets a closed queue.
AbortsOnlyInSecondLife == state = "aborted" => lives > 1

------------------------------------------------------------------------------
(* What the repository says and the code does not do *)

\* "azure src is always seekable" (gstazuresrc.c:336): wherever the application
\* seeks inside the blob, a fill() delivers the bytes at the offset that it
\* writes on its buffer (line 396).
FillDelivers ==
    [][state = "read" /\ state' = "started" => buffer = BlobBytes(position, length)]_srcVars
==============================================================================

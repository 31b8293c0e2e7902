---------------------------- MODULE AppendUploader ----------------------------
(***************************************************************************)
(* SimpleAzureUploader and its UploadWorker (src/simpleazureuploader.cpp): *)
(* the client of one append blob, the background worker, and the service.  *)
(*                                                                         *)
(*   client  appends to `stream' under stream_lock; flush() waits for      *)
(*           `finished'; destroy() is flush() and stop()                   *)
(*   worker  sets `finished' when it finds the stream empty, waits for     *)
(*           content, takes it out, sends it as one Append Block, and does *)
(*           not look at the result                                        *)
(*                                                                         *)
(* The worker's test for an empty stream (line 41), `stopped' and the      *)
(* `finished' of line 45 are outside stream_lock.  A byte is its number.   *)
(* append() is one step: it holds stream_lock throughout, and a worker     *)
(* that gets to line 45 in between might as well get there before.         *)
(***************************************************************************)
EXTENDS Naturals, Sequences

CONSTANTS
    ChunkMax,    \* APPEND_BLOCK_MAX_BLOCK_SIZE
    Sizes,       \* sizes of the buffers the client appends
    Failures,    \* TRUE: the service may refuse a request
    ClientCalls, \* which of "flush", "destroy" the client may call
    MaxBytes     \* bound: bytes appended in a behaviour

ASSUME AppendAssumption ==
    /\ ChunkMax \in Nat \ {0}
    /\ Sizes \subseteq Nat \ {0}
    /\ Failures \in BOOLEAN
    /\ ClientCalls \subseteq {"flush", "destroy"}
    /\ MaxBytes \in Nat

VARIABLES
    stream,    \* bytes appended and not taken by the worker
    finished, stopped,
    cpc,       \* where the client is
    wpc,       \* where the worker is
    chunk,     \* saved_stream: what the worker is sending
    created,   \* service: the append blob exists
    blob,      \* service: its contents
    written    \* history: bytes appended

vars == <<stream, finished, stopped, cpc, wpc, chunk, created, blob, written>>

Bytes(from, to) == [i \in 1 .. to - from |-> from + i]

TypeOK ==
    /\ stream \in Seq(1 .. MaxBytes) /\ chunk \in Seq(1 .. MaxBytes)
    /\ blob \in Seq(1 .. MaxBytes)
    /\ finished \in BOOLEAN /\ stopped \in BOOLEAN /\ created \in BOOLEAN
    /\ cpc \in {"idle", "flush", "destroy", "stop", "notify", "join", "destroyed"}
    /\ wpc \in {"create", "test", "finish", "wait", "deciding", "parked", "take",
                "send", "exited"}
    /\ written \in 0 .. MaxBytes
    /\ wpc # "send" => chunk = <<>>

\* init(), lines 118-125, and the constructor of UploadWorker, hpp lines 37-39
Init ==
    /\ stream = <<>> /\ chunk = <<>> /\ blob = <<>>
    /\ finished = TRUE /\ stopped = FALSE /\ created = FALSE
    /\ cpc = "idle" /\ wpc = "create"
    /\ written = 0

\* a thread that has found its predicate false still owns stream_lock
StreamLockFree == wpc # "deciding"

------------------------------------------------------------------------------
(* The client *)

\* fault: append() does not notify
WakeNobody == UNCHANGED wpc

\* new_cond.notify_*(): only the worker waits on it
WakeWorker == wpc' = IF wpc = "parked" THEN "wait" ELSE wpc

\* append(), lines 19-29
AppendBytes(n) ==
    /\ cpc = "idle"
    /\ written + n <= MaxBytes
    /\ StreamLockFree
    /\ stream' = stream \o Bytes(written, written + n)
    /\ written' = written + n
    /\ finished' = FALSE
    /\ WakeWorker
    /\ UNCHANGED <<stopped, cpc, chunk, created, blob>>

\* flush(), lines 141-152, and destroy(), lines 154-165
BeginFlush(call) ==
    /\ cpc = "idle"
    /\ cpc' = call
    /\ UNCHANGED <<stream, finished, stopped, wpc, chunk, created, blob, written>>

\* UploadWorker::flush(), lines 96-97
EndFlush ==
    /\ cpc \in {"flush", "destroy"}
    /\ finished
    /\ cpc' = IF cpc = "flush" THEN "idle" ELSE "stop"
    /\ UNCHANGED <<stream, finished, stopped, wpc, chunk, created, blob, written>>

\* UploadWorker::stop(), line 103: no lock
SetStopped ==
    /\ cpc = "stop"
    /\ stopped' = TRUE
    /\ cpc' = "notify"
    /\ UNCHANGED <<stream, finished, wpc, chunk, created, blob, written>>

\* line 104
NotifyStop ==
    /\ cpc = "notify"
    /\ WakeWorker
    /\ cpc' = "join"
    /\ UNCHANGED <<stream, finished, stopped, chunk, created, blob, written>>

\* line 105, and lines 167-169: the worker object is gone
Join ==
    /\ cpc = "join"
    /\ wpc = "exited"
    /\ cpc' = "destroyed"
    /\ UNCHANGED <<stream, finished, stopped, wpc, chunk, created, blob, written>>

------------------------------------------------------------------------------
(* The worker: run(), lines 31-90 *)

\* lines 35-37; a blob that exists is emptied; the result is only logged
Create ==
    /\ wpc = "create"
    /\ wpc' = "test"
    /\ \/ created' = TRUE /\ blob' = <<>>
       \/ Failures /\ UNCHANGED <<created, blob>>
    /\ UNCHANGED <<stream, finished, stopped, cpc, chunk, written>>

\* lines 39-41, the stream unlocked
Test ==
    /\ wpc = "test"
    /\ wpc' = IF stopped THEN "exited" ELSE IF stream = <<>> THEN "finish" ELSE "take"
    /\ UNCHANGED <<stream, finished, stopped, cpc, chunk, created, blob, written>>

\* fault: an empty stream is not reported as finished
FinishSilently ==
    /\ wpc = "finish"
    /\ wpc' = "wait"
    /\ UNCHANGED <<stream, finished, stopped, cpc, chunk, created, blob, written>>

\* lines 44-47; the client waits for `finished' on finish_cond
Finish ==
    /\ wpc = "finish"
    /\ finished' = TRUE
    /\ wpc' = "wait"
    /\ UNCHANGED <<stream, stopped, cpc, chunk, created, blob, written>>

\* lines 49-54: the predicate, with stream_lock
Wait ==
    /\ wpc = "wait"
    /\ wpc' = IF stopped THEN "exited" ELSE IF stream # <<>> THEN "take" ELSE "deciding"
    /\ UNCHANGED <<stream, finished, stopped, cpc, chunk, created, blob, written>>

\* new_cond releases stream_lock and blocks
Park ==
    /\ wpc = "deciding"
    /\ wpc' = "parked"
    /\ UNCHANGED <<stream, finished, stopped, cpc, chunk, created, blob, written>>

\* fault: the stream is sent whole, however long
TakeAll ==
    /\ wpc = "take"
    /\ chunk' = stream
    /\ stream' = <<>>
    /\ wpc' = "send"
    /\ UNCHANGED <<finished, stopped, cpc, created, blob, written>>

\* fault: the stream is copied and not replaced
TakeCopy ==
    /\ wpc = "take"
    /\ chunk' = stream
    /\ wpc' = "send"
    /\ UNCHANGED <<stream, finished, stopped, cpc, created, blob, written>>

\* fault: what a long stream has left is not put back
TakeForgetRest ==
    /\ wpc = "take"
    /\ chunk' = IF Len(stream) <= ChunkMax THEN stream ELSE SubSeq(stream, 1, ChunkMax)
    /\ stream' = <<>>
    /\ wpc' = "send"
    /\ UNCHANGED <<finished, stopped, cpc, created, blob, written>>

\* fault: a long stream is cut from its end
TakeLast ==
    /\ wpc = "take"
    /\ \/ /\ Len(stream) <= ChunkMax
          /\ chunk' = stream
          /\ stream' = <<>>
       \/ /\ Len(stream) > ChunkMax
          /\ chunk' = SubSeq(stream, Len(stream) - ChunkMax + 1, Len(stream))
          /\ stream' = SubSeq(stream, 1, Len(stream) - ChunkMax)
    /\ wpc' = "send"
    /\ UNCHANGED <<finished, stopped, cpc, created, blob, written>>

\* lines 56-72.  A stream within the limit is taken whole.  From a longer one
\* copy_n() reads ChunkMax bytes through an istreambuf_iterator, which it does
\* not advance past the last one: that byte stays in the stream.
Take ==
    /\ wpc = "take"
    /\ \/ /\ Len(stream) <= ChunkMax
          /\ chunk' = stream
          /\ stream' = <<>>
       \/ /\ Len(stream) > ChunkMax
          /\ chunk' = SubSeq(stream, 1, ChunkMax)
          /\ stream' = SubSeq(stream, ChunkMax, Len(stream))
    /\ wpc' = "send"
    /\ UNCHANGED <<finished, stopped, cpc, created, blob, written>>

\* fault: a chunk that fails stays in saved_stream
SendOrKeep ==
    /\ wpc = "send"
    /\ \/ created /\ blob' = blob \o chunk /\ chunk' = <<>>
       \/ (Failures \/ ~created) /\ UNCHANGED <<blob, chunk>>
    /\ wpc' = "test"
    /\ UNCHANGED <<stream, finished, stopped, cpc, created, written>>

\* fault: every request writes the blob from its start
SendOver ==
    /\ wpc = "send"
    /\ blob' = chunk
    /\ chunk' = <<>>
    /\ wpc' = "test"
    /\ UNCHANGED <<stream, finished, stopped, cpc, created, written>>

\* lines 82-86: whatever the result, the chunk is gone
Send ==
    /\ wpc = "send"
    /\ \/ created /\ blob' = blob \o chunk
       \/ (Failures \/ ~created) /\ UNCHANGED blob
    /\ chunk' = <<>>
    /\ wpc' = "test"
    /\ UNCHANGED <<stream, finished, stopped, cpc, created, written>>

------------------------------------------------------------------------------
ClientStep ==
    \/ \E call \in ClientCalls : BeginFlush(call)
    \/ \E n \in Sizes : AppendBytes(n)
    \/ EndFlush \/ SetStopped \/ NotifyStop \/ Join

WorkerStep == Create \/ Test \/ Finish \/ Wait \/ Park \/ Take \/ Send

Next == ClientStep \/ WorkerStep

Spec == Init /\ [][Next]_vars

\* The worker runs; the client finishes the call it is in.
Fairness ==
    /\ WF_vars(WorkerStep)
    /\ WF_vars(EndFlush \/ SetStopped \/ NotifyStop \/ Join)

FairSpec == Spec /\ Fairness

------------------------------------------------------------------------------
(* Properties *)

\* Whatever fails and wherever the stream is cut, bytes reach the blob in the
\* order in which they were appended (the byte at a cut comes twice).
OrderKept == \A i, j \in DOMAIN blob : i < j => blob[i] <= blob[j]

\* No Append Block is over the limit of the service, and none is empty.
ChunkWithinLimit == wpc = "send" => Len(chunk) \in 1 .. ChunkMax

\* When nothing fails and no chunk is cut, every byte is in the blob, on its way
\* or in the stream, once: nothing falls between append() and the worker.
AllAccountedFor == blob \o chunk \o stream = Bytes(0, written)

\* The same case implements the abstract blob.
Log == INSTANCE BlobLog WITH accepted <- written, blob <- blob
ImplementsBlobLog == Log!Spec

\* Unless destroy() stops the worker, every byte reaches the blob: no notification
\* of append() is lost between the unlocked test and the wait.
EverythingSent ==
    \A b \in 1 .. MaxBytes :
        written >= b ~> (stopped \/ \E i \in DOMAIN blob : blob[i] = b)

==============================================================================

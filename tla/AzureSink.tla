------------------------------- MODULE AzureSink -------------------------------
(***************************************************************************)
(* The azuresink element (src/gstazuresink.c) without its uploader: what   *)
(* GstBaseSink (external) asks of it, one call at a time, and the counter  *)
(* that answers the position query, from another thread and at any time.   *)
(* AzureBlockSink and AzureAppendSink join the begin of each call to the   *)
(* uploader's operation and its end to that operation's return.            *)
(*                                                                         *)
(* The element creates its uploader in its first start(), where a behaviour*)
(* begins, and keeps it: a blob-type set later has no effect.  A start()   *)
(* without credentials or location is refused before it changes anything:  *)
(* a stuttering step.  Buffers may follow EOS, after a flushing seek       *)
(* upstream.                                                               *)
(***************************************************************************)
EXTENDS Naturals

CONSTANT MaxLives   \* bound: calls of start()

ASSUME SinkAssumption == MaxLives \in Nat \ {0}

VARIABLES
    state,                 \* which call the element is in
    size,                  \* map_info.size of the buffer being rendered, else 0
    total_bytes_written,
    lives                  \* history: calls of start()

element == <<state, size, total_bytes_written, lives>>

ElementTypeOK ==
    /\ state \in {"running", "rendering", "eos", "stopping", "stopped", "starting", "aborted"}
    /\ size \in Nat /\ (state # "rendering" => size = 0)
    /\ total_bytes_written \in Nat
    /\ lives \in 0 .. MaxLives

\* start(), lines 365-410, the first time
ElementInit ==
    /\ state = "running"
    /\ size = 0 /\ total_bytes_written = 0
    /\ lives = 1

Call(from, to) ==
    /\ state = from
    /\ state' = to
    /\ UNCHANGED <<size, total_bytes_written, lives>>

\* render(), lines 529-541, and read_buffer(), lines 505-516: the upload() of n
\* bytes that the uploader accepts
BeginRender(n) ==
    /\ state = "running"
    /\ state' = "rendering"
    /\ size' = n
    /\ UNCHANGED <<total_bytes_written, lives>>

\* line 523, when upload() is back: until then the bytes are not counted
EndRender ==
    /\ state = "rendering"
    /\ state' = "running"
    /\ total_bytes_written' = total_bytes_written + size
    /\ size' = 0
    /\ UNCHANGED lives

\* event(), lines 487-495: the flush
BeginEos == Call("running", "eos")
EndEos == Call("eos", "running")

\* stop(), lines 413-427; the uploader stays
BeginStop == Call("running", "stopping")
EndStop == Call("stopping", "stopped")

\* start() of an element that has its uploader, lines 389-399
BeginStart ==
    /\ lives < MaxLives
    /\ state = "stopped"
    /\ state' = "starting"
    /\ lives' = lives + 1
    /\ UNCHANGED <<size, total_bytes_written>>

\* fault: the counter goes on from the last stream
EndStartCounting == Call("starting", "running")

\* lines 397-405, when init() is back
EndStart ==
    /\ state = "starting"
    /\ state' = "running"
    /\ total_bytes_written' = 0
    /\ UNCHANGED <<size, lives>>

\* a C++ exception goes through the C functions of element and GStreamer: the
\* process ends
Throw ==
    /\ state # "aborted"
    /\ state' = "aborted"
    /\ UNCHANGED <<size, total_bytes_written, lives>>

Alive == state # "aborted"

\* query(), lines 430-474: the answer to a position query, which takes no lock
Position == total_bytes_written
==============================================================================

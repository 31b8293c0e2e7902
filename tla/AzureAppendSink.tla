---------------------------- MODULE AzureAppendSink ----------------------------
(***************************************************************************)
(* azuresink with blob-type "append": the element over SimpleAzureUploader,*)
(* stopped and started again.  Each init() makes a new UploadWorker, which *)
(* creates the blob once more; the service and the C location survive.     *)
(***************************************************************************)
EXTENDS AppendUploader, AzureSink

VARIABLES
    base,   \* history: bytes appended before this start()
    kept,   \* history: the create of this start() has left old contents
    refused \* history: bytes of this start() in refused requests

history == <<base, kept, refused>>
sinkVars == <<vars, element, history>>

SinkInit ==
    /\ Init /\ ElementInit
    /\ base = 0 /\ kept = FALSE /\ refused = {}

Elements(s) == {s[i] : i \in DOMAIN s}

------------------------------------------------------------------------------
(* Calls of the element *)

Render(n) ==
    /\ BeginRender(n)
    /\ AppendBytes(n)
    /\ UNCHANGED history

RenderDone ==
    /\ EndRender
    /\ UNCHANGED <<vars, history>>

Eos ==
    /\ BeginEos
    /\ BeginFlush("flush")
    /\ UNCHANGED history

EosDone ==
    /\ EndEos
    /\ cpc = "idle"
    /\ UNCHANGED <<vars, history>>

\* gst_azure_sink_stop()
Stop ==
    /\ BeginStop
    /\ BeginFlush("destroy")
    /\ UNCHANGED history

StopDone ==
    /\ EndStop
    /\ cpc = "destroyed"
    /\ UNCHANGED <<vars, history>>

StartAgain ==
    /\ BeginStart
    /\ UNCHANGED <<vars, history>>

\* the constructor of UploadWorker, hpp lines 37-39, over a stream
NewWorker(s) ==
    /\ state = "starting"
    /\ cpc = "destroyed"
    /\ stream' = s /\ chunk' = <<>>
    /\ finished' = TRUE /\ stopped' = FALSE
    /\ cpc' = "idle" /\ wpc' = "create"
    /\ base' = written /\ kept' = FALSE /\ refused' = {}
    /\ UNCHANGED <<element, created, blob, written>>

\* fault: the new worker goes on with the stream of the old one
ReinitOldStream == NewWorker(stream)

\* init(), lines 118-125
Reinit == NewWorker(<<>>)

StartDone ==
    /\ EndStart
    /\ cpc = "idle"
    /\ UNCHANGED <<vars, history>>

------------------------------------------------------------------------------
\* inside a call of the element
InCall ==
    /\ EndFlush \/ SetStopped \/ NotifyStop \/ Join
    /\ UNCHANGED <<element, history>>

Background ==
    /\ WorkerStep
    /\ kept' = IF wpc = "create" THEN blob' # <<>> ELSE kept
    /\ refused' = IF wpc = "send" /\ blob' = blob THEN refused \cup Elements(chunk)
                  ELSE refused
    /\ UNCHANGED <<element, base>>

\* a call of the element returns
CallDone == RenderDone \/ EosDone \/ StopDone \/ StartDone

SinkNext ==
    \/ \E n \in Sizes : Render(n)
    \/ Eos \/ Stop \/ StartAgain \/ Reinit
    \/ CallDone \/ InCall \/ Background

SinkSpec == SinkInit /\ [][SinkNext]_sinkVars

\* The worker runs; the client finishes the call it is in.
SinkFairness == WF_sinkVars(Background) /\ WF_sinkVars(InCall \/ Reinit \/ CallDone)

SinkFairSpec == SinkSpec /\ SinkFairness

------------------------------------------------------------------------------
(* Properties *)

\* The bytes of this start(): those that the position query counts and those of
\* the buffer that render() has handed over and not counted yet.
Own == base + 1 .. base + Position + size

\* Uploader and blob hold bytes of one stream only, and none that is not counted
\* but those of the buffer being rendered: what stop() has left unsent never comes
\* back, and the blob of the last start() is gone once the worker has created it
\* anew.  Where that create was refused (kept), this is claimed of the uploader
\* alone: old contents stay in front.
OneStream ==
    /\ Elements(stream) \cup Elements(chunk) \subseteq Own
    /\ wpc # "create" /\ ~kept => Elements(blob) \subseteq Own

\* A byte of this start() that is neither in the blob nor on its way was in a
\* request that the service has refused: no byte falls between append() and the
\* worker's unlocked test, nor where a long stream is cut.  What a flush() that
\* returns early has left is in the stream, until the next start() drops it.
OnlyRefusedLost ==
    base + 1 .. written \subseteq
        Elements(stream) \cup Elements(chunk) \cup Elements(blob) \cup refused

\* The worker does not fall asleep over content, nor before it has let flush()
\* go, although the test for content, `finished' and append() race: flush() may
\* return early (line 45), but what it has left is still sent.
SleepsOnlyWhenFlushed ==
    wpc = "parked" /\ ~stopped => stream = <<>> /\ chunk = <<>> /\ finished

\* EOS ends, whatever the service refuses and in every stream.
EosReturns == state = "eos" ~> state = "running"
==============================================================================

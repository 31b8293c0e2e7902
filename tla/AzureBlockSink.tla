---------------------------- MODULE AzureBlockSink ----------------------------
(***************************************************************************)
(* azuresink with blob-type "block": the element over BlockAzureUploader,  *)
(* stopped and started again.  A second init() (blockazureuploader.cpp,    *)
(* lines 45-66) first destroys, and then starts its threads over the same  *)
(* queues, which nothing reopens, the same window and the same block list. *)
(***************************************************************************)
EXTENDS BlockUploader, AzureSink

sinkVars == <<vars, element>>

SinkInit == Init /\ ElementInit

------------------------------------------------------------------------------
(* Calls of the element *)

Render(n) ==
    /\ BeginRender(n)
    /\ Buffer(n) \/ UploadBlock(n)

RenderDone == EndRender /\ UNCHANGED vars

Eos == BeginEos /\ BeginFlush("flush")

EosDone ==
    /\ EndEos
    /\ pc["client"] = "idle"
    /\ UNCHANGED vars

\* gst_azure_sink_stop()
Stop == BeginStop /\ BeginFlush("destroy")

StopDone ==
    /\ EndStop
    /\ pc["client"] = "destroyed"
    /\ Goto("client", "idle")
    /\ UNCHANGED <<stream, commit, channels, gate, worker, after, resp, service>>

\* init() of a used uploader, lines 47-48
StartAgain == BeginStart /\ BeginFlush("destroy")

\* lines 49-65: the numbers begin again, and so do the threads
Respawn(list, committed) ==
    /\ state = "starting"
    /\ pc["client"] = "destroyed"
    /\ pc' = [t \in Committing |-> IF t = "client" THEN "idle" ELSE "popFor"]
    /\ after' = [t \in Committing |-> "none"]
    /\ wpc' = [w \in Workers |-> "pop"]
    /\ buffered' = 0
    /\ nextId' = 1 /\ nextCommitId' = 1
    /\ committedId' = committed /\ blockList' = list
    /\ sem' = Cardinality(Workers)
    /\ UNCHANGED <<window, raced, channels, flushing, job, resp, service, element>>

\* fault: init() empties the block list and keeps committedId
ReinitForget == Respawn(<<>>, committedId)

Reinit == Respawn(blockList, 0)

StartDone ==
    /\ EndStart
    /\ pc["client"] = "idle"
    /\ UNCHANGED vars

\* push() on the closed requests, in upload() or in flush(), or pop() of the
\* closed responses in the doCommit() of flush()
Abort ==
    /\ Throw
    /\ \/ /\ state = "running" /\ reqsClosed
          /\ buffered > 0 \/ \E n \in FrameSizes : buffered + n >= BlockSize
       \/ pc["client"] = "exited"
    /\ UNCHANGED vars

------------------------------------------------------------------------------
\* inside a call of the element
InCall == WaitEmpty \/ CloseReqs \/ CloseResps \/ Destroyed \/ DoCommit("client")

Background == Committer \/ \E w \in Workers : Worker(w)

SinkNext ==
    \/ \E n \in FrameSizes : Render(n)
    \/ Eos \/ Stop \/ StartAgain \/ Reinit \/ Abort
    \/ RenderDone \/ EosDone \/ StopDone \/ StartDone
    \/ Alive /\ (InCall \/ Background) /\ UNCHANGED element

SinkSpec == SinkInit /\ [][SinkNext]_sinkVars

------------------------------------------------------------------------------
(* Properties *)

Greatest(s) == CHOOSE n \in s : \A m \in s : m <= n

\* The position query answers for the stream of this start(), and for nothing of
\* the stream before: together with the buffer that render() has handed over and
\* not counted yet, it is what the uploader has been given, that is what is still
\* buffered and the blocks cut, which are short only where EOS or stop() has cut.
PositionAccounts ==
    state \in {"running", "rendering", "eos", "stopping"} =>
        /\ Position + size >= buffered + (nextId - 1)
        /\ Position + size <=
             buffered + (nextId - 1) * (BlockSize - 1 + Greatest(FrameSizes))

\* No exception leaves the element in its first stream, however EOS, stop() and
\* the threads interleave.
AbortsOnlyRestarted == state = "aborted" => lives > 1

\* In the first stream the blob is a prefix of it, also after stop(), unless client
\* and committer have raced on the commit state.
FirstStreamIsPrefix == lives = 1 => BlobIsPrefix

\* t is between raising the gate and lowering it.
HoldsGate(t) ==
    \/ pc[t] \in {"asleep", "woken", "drain", "pop", "put", "ack", "lower"}
    \/ pc[t] \in {"insert", "loop", "remove"} /\ after[t] # "none"

\* In the first stream no worker is shut out for good: a raised gate has a thread
\* that is going to lower it, although two threads raise and lower the same flag
\* and an exception leaves doCommit() with the gate raised (it can do so only
\* when every worker has ended).
GateHasHolder ==
    lives = 1 /\ flushing =>
        (\E t \in Committing : HoldsGate(t)) \/ \A w \in Workers : wpc[w] = "exited"

\* From the second start() on, destroy() of the used uploader, EOS and stop()
\* included, the element sends nothing: what is there is committed already or
\* never will be, and the blob it wrote stays as it is.
RestartSendsNothing == [][lives > 1 => UNCHANGED service]_sinkVars
==============================================================================

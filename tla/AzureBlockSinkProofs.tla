------------------------- MODULE AzureBlockSinkProofs --------------------------
(***************************************************************************)
(* Theorems about AzureBlockSink, the element over BlockAzureUploader, for *)
(* any number of starts, workers and blocks and any sizes.  A step of the  *)
(* element is a step of its uploader (AnyStep), the end of a stop(), which *)
(* only lets the client go, or the Reinit of a new start().                *)
(***************************************************************************)
EXTENDS AzureBlockSink, BlockUploaderProofs

\* Whatever the element does, its uploader makes a step of its own, except where
\* stop() is back and in a new start().
LEMMA UploaderStep == [SinkNext]_sinkVars => AnyStep \/ StopDone \/ Reinit
BY DEF SinkNext, Render, RenderDone, Eos, EosDone, Stop, StartAgain, StartDone, Abort, InCall,
       Background, sinkVars, AnyStep, Next, Client, Upload

------------------------------------------------------------------------------
(* Types *)

\* A new start() has all its workers outside the gate again.
LEMMA ReinitTypes ==
    ASSUME TypeInv, Reinit
    PROVE  TypeInv'
<1>1. Outside' = Workers /\ sem' = Cardinality(Workers)
  BY DEF Reinit, Respawn, Outside
<1>2. Cardinality(Workers) \in Nat
  BY FS_CardinalityType, UploaderAssumption
<1>3. sem' \in 0 .. Cardinality(Workers)
  BY <1>1, <1>2
<1>4. /\ pc' \in [Committing -> ThreadAt] /\ wpc' \in [Workers -> WorkerAt]
      /\ after' \in [Committing -> {"none", "flush", "destroy", "count", "timeout", "exit"}]
  BY DEF Reinit, Respawn, ThreadAt, WorkerAt
<1>5. /\ buffered' \in Nat /\ nextId' \in Nat \ {0} /\ nextCommitId' \in Nat \ {0}
      /\ committedId' \in Nat
  BY DEF Reinit, Respawn
<1>6. UNCHANGED <<window, blockList, raced, channels, flushing, job, resp, staged, blob>>
  BY DEF Reinit, Respawn, service
<1>7. TypeOK'
  BY <1>3, <1>4, <1>5, <1>6 DEF TypeInv, TypeOK, channels
<1> QED
  BY <1>1, <1>7 DEF TypeInv, SemCount

\* When stop() is back nothing of the uploader has changed but where its client is.
LEMMA StopDoneTypes ==
    ASSUME TypeInv, StopDone
    PROVE  TypeInv'
<1> USE DEF StopDone, stream, order, commit, channels, gate, worker, service
<1>1. pc' \in [Committing -> ThreadAt]
  BY DEF Goto, TypeInv, TypeOK, ThreadAt
<1>2. TypeOK'
  BY <1>1 DEF TypeInv, TypeOK
<1>3. Outside' = Outside
  BY DEF Outside
<1> QED
  BY <1>2, <1>3 DEF TypeInv, SemCount

\* The types of the uploader are kept by every step of the element.
LEMMA SinkTypes == TypeInv /\ [SinkNext]_sinkVars => TypeInv'
BY UploaderStep, TypeStep, StopDoneTypes, ReinitTypes

\* Starting the element again breaks no type of the uploader: in particular sem
\* counts the workers of every start.
THEOREM UploaderTypesHold == SinkSpec => []TypeOK
<1>1. SinkInit => TypeInv
  BY TypeInit DEF SinkInit
<1>2. TypeInv => TypeOK
  BY DEF TypeInv
<1> QED
  BY <1>1, <1>2, SinkTypes, PTL DEF SinkSpec

------------------------------------------------------------------------------
(* The element and its uploader agree, and what tells the first stream from    *)
(* the later ones: a first init() finds the queues open, every other one       *)
(* closed, and then nothing moves but the threads that end.                    *)

States == {"running", "rendering", "eos", "stopping", "stopped", "starting", "aborted"}

\* The call the element is in says where the client of the uploader is.
ClientAt ==
    /\ state \in {"running", "rendering", "stopped"} =>
         pc["client"] = "idle" /\ after["client"] = "none"
    /\ state = "eos" =>
         \/ pc["client"] = "idle" /\ after["client"] = "none"
         \/ pc["client"] \in CommitAt \cup {"waitEmpty"} /\ after["client"] = "flush"
    /\ state \in {"stopping", "starting"} =>
         \/ /\ pc["client"] \in CommitAt \cup {"waitEmpty", "exited"}
            /\ after["client"] = "destroy"
         \/ /\ pc["client"] \in {"closing", "joinWorkers", "joinCommitter", "destroyed"}
            /\ after["client"] = "none"
         \/ state = "starting" /\ pc["client"] = "idle" /\ after["client"] = "none"
    /\ state = "aborted" => after["client"] # "flush"

\* destroy() closes one queue after the other (lines 115 and 121), and has joined
\* the committer when it is back (line 122).
CloseOrder ==
    /\ Closing => reqsClosed
    /\ Joined => respsClosed
    /\ pc["client"] = "destroyed" => pc["committer"] = "exited"

\* Until the first stop() is past its joins no queue is closed.
OpenInv ==
    lives = 1 =>
        /\ reqsClosed => Closing \/ state = "stopped"
        /\ respsClosed => Joined \/ state = "stopped"
        /\ pc["client"] # "exited" /\ state # "aborted"

\* A start() whose init() is back has new threads and has yet to reset the counter.
Renewed == state = "starting" /\ pc["client"] = "idle"

\* The first stream, up to the destroy() in the second init() (line 48).
FirstStream == lives = 1 \/ (lives = 2 /\ state = "starting" /\ ~Renewed)
FirstInv == FirstStream => ListInv /\ DestroyInv /\ PlacesInv

\* From then on no block is cut, none is anywhere in the uploader but in queues
\* that deliver nothing, and the threads go straight to their end.
Reborn == ~FirstStream /\ state # "aborted"
Idle ==
    /\ nextId = 1 /\ nextCommitId = 1 /\ committedId = 0
    /\ reqsClosed /\ respsClosed
    /\ \A w \in Workers : wpc[w] \in {"pop", "exited", "stranded"}
    /\ pc["client"] \in {"idle", "waitEmpty", "check", "closing", "joinWorkers",
                          "joinCommitter", "destroyed"}
    /\ pc["committer"] \in {"popFor", "check", "exited"}
    /\ after["committer"] \in {"none", "exit"}

SinkInv ==
    /\ TypeInv
    /\ ElementTypeOK
    /\ lives >= 1 /\ (state = "starting" => lives > 1)
    /\ ClientAt /\ CloseOrder /\ OpenInv
    /\ FirstInv
    /\ Reborn => Idle
    /\ state = "aborted" => EveryBlockInOnePlace /\ DestroyedAfterUploads

\* The first start() finds everything open and empty.
LEMMA SinkInitial == SinkInit => SinkInv
<1> SUFFICES ASSUME SinkInit PROVE SinkInv
  OBVIOUS
<1>1. TypeInv /\ ListInv /\ DestroyInv /\ PlacesInv
  BY TypeInit, ListInit, DestroyInit, PlacesInit DEF SinkInit
<1>2. /\ pc["client"] = "idle" /\ after["client"] = "none" /\ state = "running"
      /\ ~reqsClosed /\ ~respsClosed
  BY DEF SinkInit, Init, ElementInit, Committing, Reqs!Init, Resps!Init
<1>3. ElementTypeOK /\ lives = 1 /\ state = "running"
  BY SinkAssumption DEF SinkInit, ElementInit, ElementTypeOK
<1>4. ClientAt /\ CloseOrder /\ OpenInv
  BY <1>2 DEF ClientAt, CloseOrder, OpenInv, Closing, Joined
<1>5. FirstInv /\ ~Reborn
  <2>1. FirstStream
    BY <1>3 DEF FirstStream
  <2> QED
    BY <1>1, <2>1 DEF FirstInv, Reborn
<1>6. state # "starting" /\ state # "aborted"
  BY <1>3
<1>7. lives >= 1
  BY <1>3
<1> QED
  BY <1>1, <1>3, <1>4, <1>5, <1>6, <1>7 DEF SinkInv

\* What an uploader's step in the element can be: one of the client in its call,
\* one of another thread, or the beginning of a call.
LEMMA ClientMove ==
    ASSUME TypeOK, pc["client"] # "popFor", InCall
    PROVE  LET at == pc["client"]  then == after["client"] IN
           \/ /\ UNCHANGED after
              /\ \/ at = "waitEmpty" /\ pc'["client"] = "check"
                 \/ at = "closing" /\ pc'["client"] = "joinWorkers" /\ reqsClosed'
                 \/ at = "joinWorkers" /\ pc'["client"] = "joinCommitter" /\ respsClosed'
                 \/ at = "joinCommitter" /\ pc'["client"] = "destroyed"
                      /\ pc["committer"] = "exited"
                 \/ at \in CommitAt /\ pc'["client"] \in CommitAt
                 \/ at \in CommitAt /\ pc'["client"] = "more" /\ then = "none"
                 \/ at = "pop" /\ pc'["client"] = "exited" /\ respsClosed
           \/ at \in CommitAt /\ after'["client"] = "none" /\ then = "flush" /\ pc'["client"] = "idle"
           \/ at \in CommitAt /\ after'["client"] = "none" /\ then = "destroy" /\ pc'["client"] = "closing"
           \/ at \in CommitAt /\ then \notin {"flush", "destroy"}
<1> USE DEF Goto, Committing, CommitAt
<1>0. /\ pc \in [Committing -> ThreadAt]
      /\ after \in [Committing -> {"none", "flush", "destroy", "count", "timeout", "exit"}]
  BY DEF TypeOK
<1>1. CASE WaitEmpty \/ CloseReqs \/ CloseResps \/ Destroyed
  BY <1>0, <1>1 DEF WaitEmpty, CloseReqs, CloseResps, Destroyed, Reqs!Close, Resps!Close
<1>2. CASE SkipCommit("client") \/ LowerGate("client")
  BY <1>0, <1>2 DEF SkipCommit, LowerGate, Return
<1>3. CASE \/ NeedCommit("client") \/ RaiseGate("client") \/ Recheck("client")
           \/ TestResps("client") \/ PopResponse("client") \/ Insert("client")
           \/ AppendItem("client") \/ RemoveFront("client") \/ PutBlockList("client")
           \/ Acknowledge("client")
  <2>1. UNCHANGED after /\ pc'["client"] \in CommitAt
    BY <1>0, <1>3 DEF NeedCommit, RaiseGate, Recheck, AwaitQuiet, TestResps, PopResponse,
       Insert, AppendItem, RemoveFront, PutBlockList, Acknowledge
  <2>2. pc["client"] \in CommitAt
    BY <1>3 DEF NeedCommit, RaiseGate, Recheck, TestResps, PopResponse,
       Insert, AppendItem, RemoveFront, PutBlockList, Acknowledge
  <2> QED
    BY <2>1, <2>2
<1>4. CASE EndBlock("client")
  BY <1>0, <1>4 DEF EndBlock
<1>5. CASE ThrowInCommit("client")
  BY <1>0, <1>5 DEF ThrowInCommit
<1> QED
  BY <1>1, <1>2, <1>3, <1>4, <1>5 DEF InCall, DoCommit, CommitRound

\* The threads behind a call move the client at most from its sleep, and close
\* nothing.
LEMMA BackgroundMove ==
    ASSUME TypeOK, Background
    PROVE  /\ after'["client"] = after["client"]
           /\ UNCHANGED <<reqsClosed, respsClosed, nextId>>
           /\ \/ pc'["client"] = pc["client"]
              \/ pc["client"] = "asleep" /\ pc'["client"] = "woken"
           /\ pc["committer"] = "exited" => pc'["committer"] = "exited"
<1> USE DEF Goto, Committing, CommitAt, stream, channels, control, Advance
<1>0. /\ pc \in [Committing -> ThreadAt]
      /\ after \in [Committing -> {"none", "flush", "destroy", "count", "timeout", "exit"}]
  BY DEF TypeOK
<1>1. ASSUME NEW w \in Workers, Worker(w)
      PROVE  /\ UNCHANGED <<after, reqsClosed, respsClosed, nextId>>
             /\ pc' = pc \/ \E t \in Committing : pc[t] = "asleep" /\ pc' = [pc EXCEPT ![t] = "woken"]
  BY <1>1 DEF Worker, Round, TakeJob, ExitWorker, EnterJob, StageBlock, Respond, LeaveJob,
     Reqs!Pop, Resps!Push
<1>2. ASSUME Committer
      PROVE  /\ pc["committer"] # "exited"
             /\ after'["client"] = after["client"] /\ pc'["client"] = pc["client"]
             /\ UNCHANGED <<reqsClosed, respsClosed, nextId>>
  BY <1>0, <1>2 DEF Committer, DoCommit, CommitRound, SkipCommit, NeedCommit, RaiseGate, Recheck,
     AwaitQuiet, TestResps, PopResponse, Insert, AppendItem, RemoveFront, EndBlock,
     PutBlockList, Acknowledge, LowerGate, ThrowInCommit, Return, CloseCommitter, Interval,
     MoreResponses, BeginCommit, Resps!Pop
<1> QED
  BY <1>0, <1>1, <1>2 DEF Background

\* The calls of the element, as far as they move the client.
LEMMA CallMove ==
    ASSUME TypeOK, NEW call, BeginFlush(call)
    PROVE  /\ pc["client"] = "idle" /\ pc'["client"] = "waitEmpty"
           /\ after'["client"] = call /\ pc'["committer"] = pc["committer"]
           /\ UNCHANGED <<reqsClosed, respsClosed>>
BY DEF BeginFlush, Goto, Cut, Reqs!Push, TypeOK, Committing

\* While the element waits for EOS its uploader is not between the two queues: no
\* pop() of its flush() can find the responses closed.
LEMMA EosIsOpen ==
    ASSUME SinkInv, state = "eos"
    PROVE  ~(pc["client"] = "pop" /\ respsClosed)
<1>1. CASE lives = 1
  <2>1. respsClosed => Joined
    BY <1>1 DEF SinkInv, OpenInv
  <2> QED
    BY <2>1 DEF Joined
<1>2. CASE lives # 1
  <2>1. Reborn
    BY <1>2 DEF Reborn, FirstStream
  <2> QED
    BY <2>1 DEF SinkInv, Idle
<1> QED
  BY <1>1, <1>2

\* Every step of the element leaves its uploader where the call it is in says.
LEMMA ClientAtStep ==
    ASSUME SinkInv, [SinkNext]_sinkVars
    PROVE  ClientAt'
<1>0. TypeOK /\ ClientAt
  BY DEF SinkInv, TypeInv
<1> USE DEF ClientAt, CommitAt, States
<1>1. CASE \E n \in FrameSizes : Render(n)
  BY <1>0, <1>1 DEF Render, BeginRender, Buffer, UploadBlock, control
<1>2. CASE Eos \/ Stop \/ StartAgain
  <2>1. CASE Eos
    BY <2>1, <1>0, CallMove DEF Eos, BeginEos, Call
  <2>2. CASE Stop
    BY <2>2, <1>0, CallMove DEF Stop, BeginStop, Call
  <2>3. CASE StartAgain
    BY <2>3, <1>0, CallMove DEF StartAgain, BeginStart
  <2> QED
    BY <1>2, <2>1, <2>2, <2>3
<1>3. CASE RenderDone \/ EosDone \/ StartDone
  BY <1>0, <1>3 DEF RenderDone, EosDone, StartDone, EndRender, EndEos, EndStart, Call, vars, control
<1>4. CASE StopDone
  <2>1. /\ state = "stopping" /\ state' = "stopped" /\ after' = after
        /\ pc["client"] = "destroyed" /\ pc' = [pc EXCEPT !["client"] = "idle"]
    BY <1>4 DEF StopDone, EndStop, Call, Goto
  <2>2. pc'["client"] = "idle"
    BY <1>0, <2>1 DEF TypeOK, Committing
  <2> QED
    BY <1>0, <2>1, <2>2
<1>5. CASE Reinit
  <2>1. state' = "starting" /\ pc'["client"] = "idle" /\ after'["client"] = "none"
    BY <1>5 DEF Reinit, Respawn, element, Committing
  <2> QED
    BY <2>1
<1>6. CASE Abort
  <2>1. state' = "aborted" /\ UNCHANGED <<pc, after>>
    BY <1>6 DEF Abort, Throw, vars, control
  <2>2. state = "running" \/ pc["client"] = "exited"
    BY <1>6 DEF Abort
  <2>3. state # "aborted" /\ state \in States
    BY <1>6 DEF Abort, Throw, SinkInv, ElementTypeOK
  <2> QED
    BY <1>0, <2>1, <2>2, <2>3
<1>7. CASE Alive /\ InCall /\ UNCHANGED element
  <2>1. state' = state /\ state # "aborted"
        /\ state \in States
    BY <1>7 DEF Alive, element, SinkInv, ElementTypeOK
  <2>2. pc["client"] # "popFor"
    BY <1>0, <2>1
  <2>3. state = "eos" => ~(pc["client"] = "pop" /\ respsClosed)
    BY EosIsOpen
  <2>4. pc["client"] # "idle"
    BY <1>7 DEF InCall, WaitEmpty, CloseReqs, CloseResps, Destroyed, DoCommit, CommitRound,
       SkipCommit, NeedCommit, RaiseGate, Recheck, TestResps, PopResponse, Insert, AppendItem,
       RemoveFront, EndBlock, PutBlockList, Acknowledge, LowerGate, ThrowInCommit
  <2> DEFINE at == pc["client"]
  <2>5. CASE state = "eos"
    <3>1. at \in CommitAt \cup {"waitEmpty"} /\ after["client"] = "flush"
      BY <1>0, <2>4, <2>5
    <3>2. \/ pc'["client"] = "idle" /\ after'["client"] = "none"
          \/ pc'["client"] \in CommitAt /\ after' = after
      BY <1>0, <1>7, <2>2, <2>3, <2>5, <3>1, ClientMove
    <3> QED
      BY <2>1, <2>5, <3>1, <3>2
  <2>6. CASE state \in {"stopping", "starting"}
    <3>1. \/ at \in CommitAt \cup {"waitEmpty", "exited"} /\ after["client"] = "destroy"
          \/ /\ at \in {"closing", "joinWorkers", "joinCommitter", "destroyed"}
             /\ after["client"] = "none"
      BY <1>0, <2>4, <2>6
    <3>2. \/ pc'["client"] = "closing" /\ after'["client"] = "none"
          \/ pc'["client"] \in CommitAt \cup {"exited"} /\ after["client"] = "destroy" /\ after' = after
          \/ /\ pc'["client"] \in {"joinWorkers", "joinCommitter", "destroyed"}
             /\ after["client"] = "none" /\ after' = after
      BY <1>0, <1>7, <2>2, <3>1, ClientMove
    <3> QED
      BY <2>1, <2>6, <3>2
  <2> QED
    BY <1>0, <2>1, <2>4, <2>5, <2>6
<1>8. CASE Alive /\ Background /\ UNCHANGED element
  <2>1. state' = state
    BY <1>8 DEF element
  <2>2. /\ after'["client"] = after["client"]
        /\ \/ pc'["client"] = pc["client"]
           \/ pc["client"] = "asleep" /\ pc'["client"] = "woken"
    BY <1>0, <1>8, BackgroundMove
  <2> QED
    BY <1>0, <2>1, <2>2
<1>9. CASE UNCHANGED sinkVars
  BY <1>0, <1>9 DEF sinkVars, vars, control, element
<1> QED
  BY <1>1, <1>2, <1>3, <1>4, <1>5, <1>6, <1>7, <1>8, <1>9 DEF SinkNext

\* Every step of the element keeps the types of the element.
LEMMA ElementStep ==
    ASSUME SinkInv, [SinkNext]_sinkVars
    PROVE  ElementTypeOK' /\ lives' >= 1 /\ (state' = "starting" => lives' > 1)
<1>0. ElementTypeOK /\ lives >= 1 /\ (state = "starting" => lives > 1)
  BY DEF SinkInv
<1> USE DEF ElementTypeOK
<1>1. ASSUME NEW n \in FrameSizes, Render(n)
      PROVE  ElementTypeOK' /\ lives' = lives /\ state' # "starting"
  BY <1>0, <1>1, UploaderAssumption DEF Render, BeginRender
<1>2. CASE RenderDone
  BY <1>0, <1>2 DEF RenderDone, EndRender
<1>3. CASE Eos \/ EosDone \/ Stop \/ StopDone \/ StartDone
  BY <1>0, <1>3 DEF Eos, EosDone, Stop, StopDone, StartDone, BeginEos, EndEos,
     BeginStop, EndStop, EndStart, Call
<1>4. CASE StartAgain
  BY <1>0, <1>4, SinkAssumption DEF StartAgain, BeginStart
<1>6. CASE Abort
  <2>1. state # "rendering"
    BY <1>6 DEF Abort, SinkInv, ClientAt
  <2> QED
    BY <1>0, <1>6, <2>1 DEF Abort, Throw
<1>5. CASE UNCHANGED element
  BY <1>0, <1>5 DEF element
<1> QED
  BY <1>0, <1>1, <1>2, <1>3, <1>4, <1>5, <1>6 DEF SinkNext, Reinit, Respawn, sinkVars

\* The queues are closed and the threads joined in their order.
LEMMA CloseStep ==
    ASSUME SinkInv, [SinkNext]_sinkVars
    PROVE  CloseOrder'
<1>0. TypeOK /\ ClientAt /\ CloseOrder
  BY DEF SinkInv, TypeInv
<1> USE DEF CloseOrder, Closing, Joined
<1>1. CASE \E n \in FrameSizes : Render(n)
  <2>1. UNCHANGED <<pc, reqsClosed, respsClosed>>
    BY <1>1 DEF Render, Buffer, UploadBlock, Cut, Reqs!Push, control, channels
  <2> QED
    BY <1>0, <2>1
<1>2. CASE Eos \/ Stop \/ StartAgain
  <2>1. pc'["client"] = "waitEmpty"
    BY <1>0, <1>2, CallMove DEF Eos, Stop, StartAgain
  <2> QED
    BY <2>1
<1>3. CASE StopDone \/ Reinit
  <2>1. pc'["client"] = "idle"
    BY <1>0, <1>3 DEF StopDone, Reinit, Respawn, Goto, TypeOK, Committing
  <2> QED
    BY <2>1
<1>4. CASE RenderDone \/ EosDone \/ StartDone \/ Abort \/ UNCHANGED sinkVars
  <2>1. UNCHANGED <<pc, reqsClosed, respsClosed>>
    BY <1>4 DEF RenderDone, EosDone, StartDone, Abort, sinkVars, vars, control, channels
  <2> QED
    BY <1>0, <2>1
<1>5. CASE Alive /\ InCall /\ UNCHANGED element
  <2>1. (reqsClosed => reqsClosed') /\ (respsClosed => respsClosed')
    BY <1>5 DEF InCall, WaitEmpty, CloseReqs, CloseResps, Destroyed, Reqs!Close, Resps!Close,
       DoCommit, CommitRound, SkipCommit, NeedCommit, RaiseGate, Recheck, TestResps,
       PopResponse, Resps!Pop, Insert, AppendItem, RemoveFront, EndBlock, PutBlockList,
       Acknowledge, LowerGate, ThrowInCommit, channels
  <2>2. ASSUME NEW t \in Committing, t = "client", DoCommit(t)
        PROVE  pc'["client"] \notin {"joinWorkers", "joinCommitter", "destroyed"}
    BY <1>0, <2>2 DEF DoCommit, CommitRound, SkipCommit, NeedCommit, RaiseGate, Recheck,
       AwaitQuiet, TestResps, PopResponse, Insert, AppendItem, RemoveFront, EndBlock,
       PutBlockList, Acknowledge, LowerGate, ThrowInCommit, Return, Goto, TypeOK
  <2>3. CASE WaitEmpty \/ CloseReqs \/ CloseResps
    BY <1>0, <2>1, <2>3 DEF WaitEmpty, CloseReqs, CloseResps, Reqs!Close, Resps!Close, Goto,
       TypeOK, Committing
  <2>4. CASE Destroyed
    BY <1>0, <2>1, <2>4 DEF Destroyed, Goto, TypeOK, Committing
  <2> QED
    BY <1>5, <2>2, <2>3, <2>4 DEF InCall, Committing
<1>6. CASE Alive /\ Background /\ UNCHANGED element
  <2>1. /\ UNCHANGED <<reqsClosed, respsClosed>>
        /\ \/ pc'["client"] = pc["client"]
           \/ pc["client"] = "asleep" /\ pc'["client"] = "woken"
        /\ pc["committer"] = "exited" => pc'["committer"] = "exited"
    BY <1>0, <1>6, BackgroundMove
  <2> QED
    BY <1>0, <2>1
<1> QED
  BY <1>1, <1>2, <1>3, <1>4, <1>5, <1>6 DEF SinkNext

\* No step of the first stream before its last joins closes a queue, and none ends
\* the process.
LEMMA OpenStep ==
    ASSUME SinkInv, [SinkNext]_sinkVars
    PROVE  OpenInv'
<1>0. TypeOK /\ ClientAt /\ OpenInv
  BY DEF SinkInv, TypeInv
<1>1. CASE StartAgain \/ Reinit
  <2>1. lives' # 1
    BY <1>1 DEF StartAgain, BeginStart, Reinit, Respawn, element, SinkInv, ElementTypeOK
  <2> QED
    BY <2>1 DEF OpenInv
<1>2. lives' = lives \/ StartAgain
  BY DEF SinkNext, Render, BeginRender, RenderDone, EndRender, Eos, EosDone, Stop, StopDone,
     StartDone, Reinit, Respawn, Abort, BeginEos, EndEos, BeginStop, EndStop, EndStart, Call,
     Throw, element, sinkVars
<1>3. SUFFICES ASSUME lives = 1, lives' = 1, ~StartAgain, ~Reinit
      PROVE  /\ reqsClosed' => Closing' \/ state' = "stopped"
             /\ respsClosed' => Joined' \/ state' = "stopped"
             /\ pc'["client"] # "exited" /\ state' # "aborted"
  BY <1>1, <1>2 DEF OpenInv
<1>4. /\ reqsClosed => Closing \/ state = "stopped"
      /\ respsClosed => Joined \/ state = "stopped"
      /\ pc["client"] # "exited" /\ state # "aborted"
  BY <1>0, <1>3 DEF OpenInv
<1> USE DEF Closing, Joined
<1>5. CASE \E n \in FrameSizes : Render(n)
  <2>1. UNCHANGED <<pc, reqsClosed, respsClosed>> /\ state = "running" /\ state' = "rendering"
    BY <1>5 DEF Render, BeginRender, Buffer, UploadBlock, Cut, Reqs!Push, control, channels
  <2> QED
    BY <1>4, <2>1
<1>6. CASE Eos \/ Stop
  <2>1. /\ state = "running" /\ state' \in {"eos", "stopping"}
        /\ pc["client"] = "idle" /\ pc'["client"] = "waitEmpty"
        /\ UNCHANGED <<reqsClosed, respsClosed>>
    BY <1>0, <1>6, CallMove DEF Eos, Stop, BeginEos, BeginStop, Call
  <2> QED
    BY <1>4, <2>1
<1>7. CASE StopDone
  <2>1. state' = "stopped" /\ pc'["client"] = "idle"
    BY <1>0, <1>7 DEF StopDone, EndStop, Call, Goto, TypeOK, Committing
  <2> QED
    BY <2>1
<1>8. CASE RenderDone \/ EosDone \/ StartDone
  <2>1. /\ state # "stopped" /\ state' = "running"
        /\ UNCHANGED <<pc, reqsClosed, respsClosed>>
    BY <1>8 DEF RenderDone, EosDone, StartDone, EndRender, EndEos, EndStart, Call, vars,
       control, channels
  <2> QED
    BY <1>4, <2>1
<1>9. CASE Abort
  <2>1. state = "running" /\ reqsClosed
    BY <1>4, <1>9 DEF Abort
  <2>2. pc["client"] = "idle"
    BY <1>0, <2>1 DEF ClientAt
  <2> QED
    BY <1>4, <2>1, <2>2
<1>10. CASE UNCHANGED sinkVars
  <2>1. UNCHANGED <<pc, reqsClosed, respsClosed, state>>
    BY <1>10 DEF sinkVars, vars, control, channels, element
  <2> QED
    BY <1>4, <2>1
<1>11. CASE Alive /\ Background /\ UNCHANGED element
  <2>1. /\ UNCHANGED <<reqsClosed, respsClosed, state>>
        /\ \/ pc'["client"] = pc["client"]
           \/ pc["client"] = "asleep" /\ pc'["client"] = "woken"
    BY <1>0, <1>11, BackgroundMove DEF element
  <2> QED
    BY <1>4, <2>1
<1>12. CASE Alive /\ InCall /\ UNCHANGED element
  <2>1. /\ state' = state
        /\ state \in States \ {"aborted"}
    BY <1>12 DEF Alive, element, SinkInv, ElementTypeOK, States
  <2>2. CASE CloseReqs
    BY <1>0, <1>4, <2>1, <2>2 DEF CloseReqs, Goto, TypeOK, Committing
  <2>3. CASE CloseResps
    BY <1>0, <1>4, <2>1, <2>3 DEF CloseResps, Goto, TypeOK, Committing
  <2>4. CASE WaitEmpty \/ Destroyed
    BY <1>0, <1>4, <2>1, <2>4 DEF WaitEmpty, Destroyed, Goto, TypeOK, Committing, channels
  <2>5. CASE DoCommit("client")
    <3>1. /\ pc["client"] \in CommitAt \cup {"popFor"}
          /\ UNCHANGED <<reqsClosed, respsClosed>>
      BY <2>5 DEF DoCommit, CommitRound, SkipCommit, NeedCommit, RaiseGate, Recheck,
         TestResps, PopResponse, Resps!Pop, Insert, AppendItem, RemoveFront, EndBlock,
         PutBlockList, Acknowledge, LowerGate, ThrowInCommit, channels, CommitAt
    <3>2. pc["client"] \in CommitAt /\ after["client"] \in {"flush", "destroy"}
      BY <1>0, <2>1, <3>1 DEF ClientAt, CommitAt, States
    <3>3. state # "stopped" /\ ~Closing /\ ~Joined
      BY <1>0, <3>2 DEF ClientAt, CommitAt
    <3>4. ~reqsClosed /\ ~respsClosed
      BY <1>4, <3>3
    <3>5. pc'["client"] # "exited"
      BY <1>0, <2>5, <3>2, <3>4, ClientMove DEF InCall, CommitAt
    <3>6. ~reqsClosed' /\ ~respsClosed'
      BY <3>1, <3>4
    <3> QED
      BY <1>4, <2>1, <3>5, <3>6
  <2> QED
    BY <1>12, <2>2, <2>3, <2>4, <2>5 DEF InCall
<1> QED
  BY <1>3, <1>5, <1>6, <1>7, <1>8, <1>9, <1>10, <1>11, <1>12 DEF SinkNext

\* A client that is in no call stays so until the next one.
LEMMA IdleClient ==
    ASSUME TypeOK, InCall \/ Background, pc["client"] = "idle"
    PROVE  pc'["client"] = "idle" /\ ~InCall
<1>1. ~InCall
  BY DEF InCall, WaitEmpty, CloseReqs, CloseResps, Destroyed, DoCommit, CommitRound,
     SkipCommit, NeedCommit, RaiseGate, Recheck, TestResps, PopResponse, Insert, AppendItem,
     RemoveFront, EndBlock, PutBlockList, Acknowledge, LowerGate, ThrowInCommit
<1> QED
  BY <1>1, BackgroundMove

\* The destroy() of a start() does not end where a new one would stand.
LEMMA StartingStays ==
    ASSUME TypeOK, ClientAt, state = "starting", InCall \/ Background,
           pc["client"] # "idle"
    PROVE  pc'["client"] # "idle"
<1> USE DEF CommitAt
<1>1. \/ /\ pc["client"] \in CommitAt \cup {"waitEmpty", "exited"}
         /\ after["client"] = "destroy"
      \/ /\ pc["client"] \in {"closing", "joinWorkers", "joinCommitter", "destroyed"}
         /\ after["client"] = "none"
  BY DEF ClientAt
<1>2. CASE InCall
  BY <1>1, <1>2, ClientMove
<1>3. CASE Background
  BY <1>3, BackgroundMove
<1> QED
  BY <1>2, <1>3

\* The first stream ends with the Reinit of the second start().
LEMMA FirstEnds ==
    ASSUME SinkInv, [SinkNext]_sinkVars, FirstStream'
    PROVE  FirstStream /\ ~Reinit
<1>1. lives \in Nat /\ lives >= 1 /\ (state = "starting" => lives > 1)
  BY SinkAssumption DEF SinkInv, ElementTypeOK
<1>2. CASE StartAgain
  <2>1. lives' = lives + 1 /\ state = "stopped"
    BY <1>2 DEF StartAgain, BeginStart
  <2> QED
    BY <1>1, <2>1 DEF FirstStream, Reinit, Respawn
<1>3. CASE Reinit
  <2>1. UNCHANGED <<lives, state>> /\ state = "starting" /\ pc'["client"] = "idle"
    BY <1>3 DEF Reinit, Respawn, element, Committing
  <2> QED
    BY <1>1, <2>1 DEF FirstStream, Renewed
<1>4. CASE \/ \E n \in FrameSizes : Render(n)
           \/ RenderDone \/ Eos \/ EosDone \/ Stop \/ StopDone \/ StartDone \/ Abort
  <2>1. lives' = lives /\ state' # "starting"
    BY <1>4 DEF Render, BeginRender, RenderDone, EndRender, Eos, EosDone, Stop, StopDone,
       StartDone, Abort, BeginEos, EndEos, BeginStop, EndStop, EndStart, Call, Throw
  <2>2. ~Reinit
    BY <2>1 DEF Reinit, Respawn, element
  <2>3. lives = 1
    BY <2>1 DEF FirstStream
  <2> QED
    BY <2>2, <2>3 DEF FirstStream
<1>5. CASE Alive /\ (InCall \/ Background) /\ UNCHANGED element
  <2>1. UNCHANGED <<state, lives>>
    BY <1>5 DEF element
  <2>2. pc["client"] = "idle" => pc'["client"] = "idle"
    BY <1>5, IdleClient DEF SinkInv, TypeInv
  <2>3. FirstStream
    BY <2>1, <2>2 DEF FirstStream, Renewed
  <2> QED
    BY <1>3, <2>3
<1>6. CASE UNCHANGED sinkVars
  <2>1. UNCHANGED <<state, lives, pc>>
    BY <1>6 DEF element, sinkVars, vars, control
  <2>2. FirstStream
    BY <2>1 DEF FirstStream, Renewed
  <2> QED
    BY <1>3, <2>2
<1> QED
  BY <1>2, <1>3, <1>4, <1>5, <1>6 DEF SinkNext

\* Whatever the uploader keeps in every step it keeps in the first stream: when
\* stop() is back, only the client has moved.
LEMMA FirstStep ==
    ASSUME SinkInv, [SinkNext]_sinkVars
    PROVE  FirstInv'
<1> SUFFICES ASSUME FirstStream' PROVE (ListInv /\ DestroyInv /\ PlacesInv)'
  BY DEF FirstInv
<1>1. FirstStream /\ ~Reinit
  BY FirstEnds
<1>2. TypeInv /\ TypeOK /\ ListInv /\ DestroyInv /\ PlacesInv
  BY <1>1 DEF SinkInv, TypeInv, FirstInv
<1>3. CASE AnyStep
  BY <1>2, <1>3, ListStep, DestroyStep, PlacesStep
<1>4. CASE StopDone
  <2>1. /\ pc' = [pc EXCEPT !["client"] = "idle"] /\ pc["client"] = "destroyed"
        /\ pc \in [Committing -> ThreadAt] /\ "client" \in Committing
    BY <1>2, <1>4 DEF StopDone, Goto, TypeOK, Committing
  <2>2. UNCHANGED <<order, raced, blob, reqs, job, wpc, nextId, resps, resp, window, nextCommitId>>
    BY <1>4 DEF StopDone, stream, order, commit, channels, worker, service
  <2>3. ListInv'
    <3>1. \A t \in Committing : pc'[t] = pc[t] \/ (pc[t] # "remove" /\ ~Unlocked(t)')
      BY <2>1 DEF Unlocked
    <3> QED
      BY <1>2, <2>2, <3>1, ListFrame
  <2>4. DestroyInv'
    <3>1. ~Closing' /\ ~Joined'
      BY <2>1 DEF Closing, Joined
    <3> QED
      BY <1>2, <2>2, <3>1, DestroyFrame
  <2>5. PlacesInv'
    <3>1. \A t \in Committing : pc'[t] = pc[t] \/ (pc[t] # "insert" /\ pc'[t] # "remove")
      BY <2>1
    <3> QED
      BY <1>2, <2>2, <3>1, PlacesFrame
  <2> QED
    BY <2>3, <2>4, <2>5
<1> QED
  BY <1>1, <1>3, <1>4, UploaderStep

\* Only a Reinit leads out of the first stream, but for an abort.
LEMMA RebornBegins ==
    ASSUME SinkInv, [SinkNext]_sinkVars, Reborn'
    PROVE  Reborn \/ Reinit
<1> SUFFICES ASSUME ~Reborn, ~Reinit PROVE FALSE
  OBVIOUS
<1>1. lives \in Nat /\ lives >= 1 /\ (state = "starting" => lives > 1)
  BY SinkAssumption DEF SinkInv, ElementTypeOK
<1>2. state # "aborted"
  <2>1. state' # "aborted"
    BY DEF Reborn
  <2> QED
    BY <2>1 DEF SinkNext, Render, BeginRender, RenderDone, EndRender, Eos, EosDone, Stop,
       StopDone, StartAgain, StartDone, Reinit, Respawn, Abort, BeginEos, EndEos, BeginStop,
       EndStop, BeginStart, EndStart, Call, Throw, Alive, element, sinkVars
<1>3. FirstStream /\ ~FirstStream' /\ state' # "aborted"
  BY <1>2 DEF Reborn
<1>4. CASE StartAgain
  <2>1. lives' = lives + 1 /\ state = "stopped" /\ state' = "starting"
    BY <1>4 DEF StartAgain, BeginStart
  <2>2. pc'["client"] # "idle"
    BY <1>4, CallMove DEF StartAgain, SinkInv, TypeInv
  <2> QED
    BY <1>1, <1>3, <2>1, <2>2 DEF FirstStream, Renewed
<1>5. CASE \/ \E n \in FrameSizes : Render(n)
           \/ RenderDone \/ Eos \/ EosDone \/ Stop \/ StopDone
  <2>1. lives' = lives /\ state # "starting"
    BY <1>5 DEF Render, BeginRender, RenderDone, EndRender, Eos, EosDone, Stop, StopDone,
       BeginEos, EndEos, BeginStop, EndStop, Call
  <2> QED
    BY <1>3, <2>1 DEF FirstStream
<1>6. CASE StartDone
  <2>1. lives' = lives /\ state = "starting" /\ pc["client"] = "idle"
    BY <1>6 DEF StartDone, EndStart
  <2> QED
    BY <1>1, <1>3, <2>1 DEF FirstStream, Renewed
<1>7. CASE Abort
  BY <1>3, <1>7 DEF Abort, Throw
<1>8. CASE Alive /\ (InCall \/ Background) /\ UNCHANGED element
  <2>1. UNCHANGED <<state, lives>>
    BY <1>8 DEF element
  <2>2. state = "starting" /\ pc["client"] # "idle" => pc'["client"] # "idle"
    BY <1>8, StartingStays DEF SinkInv, TypeInv
  <2> QED
    BY <1>3, <2>1, <2>2 DEF FirstStream, Renewed
<1>9. CASE UNCHANGED sinkVars
  BY <1>3, <1>9 DEF element, sinkVars, vars, control, FirstStream, Renewed
<1> QED
  BY <1>4, <1>5, <1>6, <1>7, <1>8, <1>9 DEF SinkNext

\* What an idle uploader can still do.
LEMMA IdleMove ==
    ASSUME TypeOK, Idle, InCall \/ Background,
           pc["client"] = "check" => after["client"] \in {"flush", "destroy"}
    PROVE  Idle' /\ UNCHANGED <<service, raced, blockList>>
<1> USE DEF Idle, Goto, Advance, Committing, stream, order, commit, channels, gate, worker,
            control, service
<1>0. /\ pc \in [Committing -> ThreadAt] /\ wpc \in [Workers -> WorkerAt]
  BY DEF TypeOK
<1>1. CASE WaitEmpty \/ Destroyed
  BY <1>0, <1>1 DEF WaitEmpty, Destroyed
<1>2. CASE CloseReqs
  <2>1. \A w \in Workers : wpc'[w] \in {"pop", "exited", "stranded"}
    BY <1>0, <1>2 DEF CloseReqs
  <2> QED
    BY <1>0, <1>2, <2>1 DEF CloseReqs, Reqs!Close
<1>3. CASE CloseResps
  BY <1>0, <1>3 DEF CloseResps, Resps!Close
<1>4. ASSUME NEW t \in Committing, DoCommit(t) PROVE SkipCommit(t)
  <2>1. pc[t] \notin CommitAt \ {"check"}
    BY <1>4 DEF CommitAt
  <2>2. ~NeedCommit(t)
    BY DEF NeedCommit
  <2>3. ~PopResponse(t)
    BY DEF PopResponse, Resps!Pop
  <2> QED
    BY <1>4, <2>1, <2>2, <2>3 DEF DoCommit, CommitRound, RaiseGate, Recheck, TestResps,
       Insert, AppendItem, RemoveFront, EndBlock, PutBlockList, Acknowledge, LowerGate,
       ThrowInCommit, CommitAt
<1>5. ASSUME NEW t \in Committing, SkipCommit(t)
      PROVE  Idle' /\ UNCHANGED <<service, raced, blockList>>
  <2>1. after \in [Committing -> {"none", "flush", "destroy", "count", "timeout", "exit"}]
    BY DEF TypeOK
  <2>2. CASE t = "client"
    BY <1>0, <1>5, <2>1, <2>2 DEF SkipCommit, Return
  <2>3. CASE t = "committer"
    BY <1>0, <1>5, <2>1, <2>3 DEF SkipCommit, Return
  <2> QED
    BY <2>2, <2>3
<1>6. CASE CloseCommitter \/ Interval \/ MoreResponses
  <2>1. CloseCommitter
    BY <1>6 DEF Interval, MoreResponses
  <2>2. after \in [Committing -> {"none", "flush", "destroy", "count", "timeout", "exit"}]
    BY DEF TypeOK
  <2> QED
    BY <1>0, <2>1, <2>2 DEF CloseCommitter, BeginCommit
<1>7. ASSUME NEW w \in Workers, Worker(w)
      PROVE  Idle' /\ UNCHANGED <<service, raced, blockList>>
  <2>1. ExitWorker(w)
    BY <1>7 DEF Worker, Round, TakeJob, Reqs!Pop, EnterJob, StageBlock, Respond, LeaveJob
  <2>2. \A v \in Workers : wpc'[v] \in {"pop", "exited", "stranded"}
    BY <1>0, <2>1 DEF ExitWorker
  <2> QED
    BY <2>1, <2>2 DEF ExitWorker
<1> QED
  BY <1>1, <1>2, <1>3, <1>4, <1>5, <1>6, <1>7 DEF InCall, Background, Committer

\* A start() after the first leaves the uploader idle until it is stopped, and
\* after that.
LEMMA RebornStep ==
    ASSUME SinkInv, [SinkNext]_sinkVars, Reborn'
    PROVE  Idle'
<1>0. TypeOK /\ ClientAt /\ CloseOrder
  BY DEF SinkInv, TypeInv
<1>1. CASE Reinit
  <2>1. /\ reqsClosed /\ respsClosed
    BY <1>0, <1>1 DEF CloseOrder, Closing, Joined, Reinit, Respawn
  <2>2. /\ UNCHANGED <<reqsClosed, respsClosed>>
        /\ nextId' = 1 /\ nextCommitId' = 1 /\ committedId' = 0
    BY <1>1 DEF Reinit, Respawn, channels
  <2>3. /\ \A w \in Workers : wpc'[w] = "pop"
        /\ pc'["client"] = "idle" /\ pc'["committer"] = "popFor"
        /\ after'["committer"] = "none"
    BY <1>1 DEF Reinit, Respawn, Committing
  <2> QED
    BY <2>1, <2>2, <2>3 DEF Idle
<1>2. SUFFICES ASSUME Reborn PROVE Idle'
  BY <1>1, RebornBegins
<1>3. Idle
  BY <1>2 DEF SinkInv
<1>4. CASE Alive /\ (InCall \/ Background) /\ UNCHANGED element
  <2>1. pc["client"] = "check" => after["client"] \in {"flush", "destroy"}
    <3>1. state \in States \ {"aborted"}
      BY <1>4 DEF Alive, SinkInv, ElementTypeOK, States
    <3> QED
      BY <1>0, <3>1 DEF ClientAt, States
  <2> QED
    BY <1>0, <1>3, <1>4, <2>1, IdleMove
<1>5. CASE \E n \in FrameSizes : Render(n)
  <2>1. UNCHANGED <<nextId, commit, channels, worker, control>>
    BY <1>3, <1>5 DEF Render, Buffer, UploadBlock, Cut, Reqs!Push, Idle
  <2> QED
    BY <1>3, <2>1 DEF Idle, commit, order, channels, worker, control
<1>6. ASSUME NEW call, BeginFlush(call) PROVE Idle'
  <2>1. /\ UNCHANGED <<nextId, nextCommitId, committedId, reqsClosed, respsClosed, wpc>>
        /\ pc' = [pc EXCEPT !["client"] = "waitEmpty"]
        /\ after' = [after EXCEPT !["client"] = call]
    BY <1>3, <1>6 DEF BeginFlush, Cut, Reqs!Push, Idle, Goto, stream, commit, order, worker
  <2>2. pc'["client"] = "waitEmpty" /\ UNCHANGED <<pc["committer"], after["committer"]>>
    BY <1>0, <2>1 DEF TypeOK, Committing
  <2> QED
    BY <1>3, <2>1, <2>2 DEF Idle
<1>7. CASE StopDone
  <2>1. /\ UNCHANGED <<nextId, nextCommitId, committedId, reqsClosed, respsClosed, wpc, after>>
        /\ pc' = [pc EXCEPT !["client"] = "idle"]
    BY <1>7 DEF StopDone, Goto, stream, commit, order, channels, worker
  <2>2. pc'["client"] = "idle" /\ UNCHANGED <<pc["committer"]>>
    BY <1>0, <2>1 DEF TypeOK, Committing
  <2> QED
    BY <1>3, <2>1, <2>2 DEF Idle
<1>8. CASE RenderDone \/ EosDone \/ StartDone \/ Abort \/ UNCHANGED sinkVars
  <2>1. UNCHANGED vars
    BY <1>8 DEF RenderDone, EosDone, StartDone, Abort, sinkVars
  <2> QED
    BY <1>3, <2>1 DEF Idle, vars, stream, commit, order, channels, worker, control
<1> QED
  BY <1>1, <1>4, <1>5, <1>6, <1>7, <1>8 DEF SinkNext, Eos, Stop, StartAgain

------------------------------------------------------------------------------
(* The theorems *)

\* Every block is in one place and destroy() leaves none behind: in the first
\* stream because the uploader sees to it, later because there is no block.
LEMMA SinkSafe == SinkInv => EveryBlockInOnePlace /\ DestroyedAfterUploads
<1> SUFFICES ASSUME SinkInv PROVE EveryBlockInOnePlace /\ DestroyedAfterUploads
  OBVIOUS
<1>1. CASE FirstStream
  BY <1>1, PlacesUse, DestroyedUse DEF SinkInv, FirstInv, TypeInv
<1>2. CASE Reborn
  <2>1. Block = {}
    BY <1>2 DEF SinkInv, Idle, Block
  <2> QED
    BY <2>1 DEF EveryBlockInOnePlace, DestroyedAfterUploads, Uploaded
<1>3. CASE state = "aborted"
  BY <1>3 DEF SinkInv
<1> QED
  BY <1>1, <1>2, <1>3 DEF Reborn

\* Every step of the element keeps all of it; an abort changes no block.
LEMMA SinkStep == SinkInv /\ [SinkNext]_sinkVars => SinkInv'
<1> SUFFICES ASSUME SinkInv, [SinkNext]_sinkVars PROVE SinkInv'
  OBVIOUS
<1>1. TypeInv' /\ ClientAt' /\ CloseOrder' /\ OpenInv' /\ FirstInv'
  BY SinkTypes, ClientAtStep, CloseStep, OpenStep, FirstStep DEF SinkInv
<1>2. ElementTypeOK' /\ lives' >= 1 /\ (state' = "starting" => lives' > 1)
  BY ElementStep
<1>3. Reborn' => Idle'
  BY RebornStep
<1>4. ASSUME state' = "aborted" PROVE EveryBlockInOnePlace' /\ DestroyedAfterUploads'
  <2>1. UNCHANGED vars
    BY <1>4 DEF SinkNext, Render, BeginRender, RenderDone, EndRender, Eos, EosDone, Stop,
       StopDone, StartAgain, StartDone, Reinit, Respawn, Abort, BeginEos, EndEos, BeginStop,
       EndStop, BeginStart, EndStart, Call, Throw, Alive, element, sinkVars
  <2>2. UNCHANGED <<nextId, nextCommitId, reqs, resps, job, resp, window, raced, pc>>
    BY <2>1 DEF vars, stream, commit, order, channels, worker, control
  <2> QED
    BY <2>2, SinkSafe DEF EveryBlockInOnePlace, Holders, DestroyedAfterUploads, Uploaded,
       Block, Elements
<1> QED
  BY <1>1, <1>2, <1>3, <1>4 DEF SinkInv

LEMMA SinkAlways == SinkSpec => []SinkInv
BY SinkInitial, SinkStep, PTL DEF SinkSpec

\* No exception leaves the element in its first stream: no push() or pop() of it
\* finds its queue closed, however EOS, stop() and the threads interleave.
THEOREM AbortsOnlyRestartedHolds == SinkSpec => []AbortsOnlyRestarted
<1>1. ASSUME SinkInv PROVE AbortsOnlyRestarted
  <2>1. lives \in Nat /\ lives >= 1
    BY <1>1, SinkAssumption DEF SinkInv, ElementTypeOK
  <2>2. state = "aborted" => lives # 1
    BY <1>1 DEF SinkInv, OpenInv
  <2> QED
    BY <2>1, <2>2 DEF AbortsOnlyRestarted
<1> QED
  BY SinkAlways, <1>1, PTL

\* In the first stream the blob is a prefix of it, through EOS and stop() and the
\* commits they make beside the committer's, as long as these do not race.
THEOREM FirstStreamIsPrefixHolds == SinkSpec => []FirstStreamIsPrefix
<1>1. SinkInv => FirstStreamIsPrefix
  BY PrefixUse DEF SinkInv, FirstInv, FirstStream, FirstStreamIsPrefix
<1> QED
  BY SinkAlways, <1>1, PTL

\* EOS, stop() and a new start() lose and duplicate no block on its way.
THEOREM OnePlaceInEveryStart == SinkSpec => []EveryBlockInOnePlace
BY SinkAlways, SinkSafe, PTL

\* No stop() leaves a block in a queue or in a worker's hands.
THEOREM StopLeavesNothing == SinkSpec => []DestroyedAfterUploads
BY SinkAlways, SinkSafe, PTL

\* From the second start() on the service is not written.
LEMMA RebornSendsNothing ==
    ASSUME SinkInv, Reborn, [SinkNext]_sinkVars
    PROVE  UNCHANGED service
<1>1. CASE Alive /\ (InCall \/ Background) /\ UNCHANGED element
  <2>1. pc["client"] = "check" => after["client"] \in {"flush", "destroy"}
    <3>1. state \in States \ {"aborted"} /\ ClientAt
      BY <1>1 DEF Alive, SinkInv, ElementTypeOK, States
    <3> QED
      BY <3>1 DEF ClientAt, States
  <2> QED
    BY <1>1, <2>1, IdleMove DEF SinkInv, TypeInv
<1>2. CASE \/ \E n \in FrameSizes : Render(n)
           \/ RenderDone \/ Eos \/ EosDone \/ Stop \/ StopDone \/ StartAgain \/ StartDone
           \/ Reinit \/ Abort \/ UNCHANGED sinkVars
  BY <1>2 DEF Render, RenderDone, Buffer, UploadBlock, Eos, EosDone, Stop, StopDone,
     StartAgain, StartDone, Reinit, Respawn, Abort, BeginFlush, vars, sinkVars
<1> QED
  BY <1>1, <1>2 DEF SinkNext

\* A process that has ended does nothing more.
LEMMA AbortedStays ==
    ASSUME state = "aborted", [SinkNext]_sinkVars
    PROVE  UNCHANGED vars
BY DEF SinkNext, Render, BeginRender, RenderDone, EndRender, Eos, EosDone, Stop, StopDone,
   StartAgain, StartDone, Reinit, Respawn, Abort, BeginEos, EndEos, BeginStop, EndStop,
   BeginStart, EndStart, Call, Throw, Alive, element, sinkVars

\* What a reader has seen of a blob is never taken away, in the first stream nor by
\* the element that is started again over the same blob.
THEOREM GrowsInEveryStart == SinkSpec => BlobOnlyGrows
<1>1. ASSUME SinkInv, [SinkNext]_sinkVars
      PROVE  [~raced' => /\ Len(blob) <= Len(blob')
                         /\ \A i \in DOMAIN blob : blob'[i] = blob[i]]_vars
  <2>1. TypeOK
    BY <1>1 DEF SinkInv, TypeInv
  <2>2. CASE UNCHANGED service
    BY <2>1, <2>2 DEF service, TypeOK
  <2>3. CASE FirstStream /\ AnyStep
    BY <1>1, <2>1, <2>3, GrowsStep DEF SinkInv, FirstInv
  <2>4. CASE StopDone \/ Reinit
    BY <2>2, <2>4 DEF StopDone, Reinit, Respawn
  <2>5. CASE Reborn
    BY <1>1, <2>2, <2>5, RebornSendsNothing
  <2>6. CASE state = "aborted"
    BY <1>1, <2>2, <2>6, AbortedStays DEF vars
  <2> QED
    BY <1>1, <2>3, <2>4, <2>5, <2>6, UploaderStep DEF Reborn
<1> QED
  BY SinkAlways, <1>1, PTL DEF SinkSpec, BlobOnlyGrows
------------------------------------------------------------------------------
(* Who has raised the gate, and what stop() leaves to be committed *)

Settled == nextCommitId = committedId + 1
Gone == \A w \in Workers : wpc[w] = "exited"

\* What a step of doCommit() by t is, as far as the gate and the commit go.
Kept == UNCHANGED <<flushing, resps, nextCommitId, committedId>>
Back == {"idle", "closing", "exited", "popFor"}
Move(t) ==
    \/ pc[t] = "check" /\ Settled /\ pc'[t] \in Back /\ after'[t] = "none" /\ Kept
    \/ /\ UNCHANGED <<flushing, nextCommitId, committedId>> /\ after'[t] = after[t]
       /\ pc[t] \in {"pop", "popFor"} /\ pc'[t] = "insert" /\ resps # <<>> /\ ~respsClosed
    \/ /\ UNCHANGED <<resps, nextCommitId, committedId>> /\ after'[t] = after[t]
       /\ pc[t] = "raise" /\ pc'[t] \in {"drain", "asleep"} /\ flushing'
    \/ /\ UNCHANGED <<resps, nextCommitId, committedId>> /\ after'[t] = "none"
       /\ pc[t] = "lower" /\ pc'[t] \in Back /\ ~flushing'
    \/ /\ UNCHANGED <<flushing, resps>> /\ after'[t] = after[t]
       /\ \/ pc[t] = "remove" /\ pc'[t] = "loop"
          \/ pc[t] = "ack" /\ pc'[t] = "lower" /\ Settled'
    \/ /\ Kept /\ after'[t] = after[t]
       /\ \/ pc[t] = "check" /\ pc'[t] = "raise" /\ ~Settled
          \/ pc[t] = "woken" /\ pc'[t] \in {"drain", "asleep"}
          \/ pc[t] = "drain" /\ pc'[t] = "put" /\ resps = <<>>
          \/ pc[t] = "drain" /\ pc'[t] = "pop" /\ resps # <<>>
          \/ pc[t] = "insert" /\ pc'[t] = "loop"
          \/ pc[t] = "loop" /\ pc'[t] = "remove"
          \/ pc[t] = "loop" /\ pc'[t] = "more" /\ after[t] = "none"
          \/ pc[t] = "loop" /\ pc'[t] = "drain" /\ after[t] # "none"
          \/ pc[t] = "put" /\ pc'[t] \in {"put", "ack"}
          \/ pc[t] = "pop" /\ pc'[t] = "exited" /\ respsClosed
    \/ pc[t] = "pop" /\ pc'[t] = "check" /\ after'[t] = "exit" /\ respsClosed /\ Kept

\* Every step of doCommit() is one of these, and moves no other thread.
LEMMA CommitMove ==
    ASSUME TypeOK, NEW t \in Committing, DoCommit(t)
    PROVE  /\ Move(t)
           /\ \A u \in Committing \ {t} : pc'[u] = pc[u] /\ after'[u] = after[u]
           /\ UNCHANGED <<wpc, reqs, reqsClosed, respsClosed>>
<1>0. /\ pc \in [Committing -> ThreadAt]
      /\ after \in [Committing -> {"none", "flush", "destroy", "count", "timeout", "exit"}]
      /\ nextCommitId \in Nat /\ resps \in Seq(Nat)
  BY DEF TypeOK
<1> DEFINE Same == /\ \A u \in Committing \ {t} : pc'[u] = pc[u] /\ after'[u] = after[u]
                   /\ UNCHANGED <<wpc, reqs, reqsClosed, respsClosed>>
<1> USE DEF Goto, order, commit, channels, gate, worker, control
<1>1. CASE SkipCommit(t)
  BY <1>0, <1>1 DEF SkipCommit, Return, Move, Kept, Back, Settled
<1>2. CASE NeedCommit(t)
  BY <1>0, <1>2 DEF NeedCommit, Move, Kept, Settled
<1>3. CASE RaiseGate(t)
  BY <1>0, <1>3 DEF RaiseGate, AwaitQuiet, Move
<1>4. CASE Recheck(t)
  BY <1>0, <1>4 DEF Recheck, AwaitQuiet, Move, Kept
<1>5. CASE TestResps(t)
  BY <1>0, <1>5 DEF TestResps, Move, Kept
<1>6. CASE PopResponse(t)
  BY <1>0, <1>6 DEF PopResponse, Resps!Pop, Move
<1>7. CASE Insert(t)
  BY <1>0, <1>7 DEF Insert, Move, Kept
<1>8. CASE AppendItem(t)
  BY <1>0, <1>8 DEF AppendItem, Move, Kept
<1>9. CASE RemoveFront(t)
  BY <1>0, <1>9 DEF RemoveFront, Move
<1>10. CASE EndBlock(t)
  BY <1>0, <1>10 DEF EndBlock, Move, Kept
<1>11. CASE PutBlockList(t)
  BY <1>0, <1>11 DEF PutBlockList, Move, Kept
<1>12. CASE Acknowledge(t)
  <2>1. nextCommitId' = nextCommitId /\ committedId' = nextCommitId - 1
    BY <1>12 DEF Acknowledge
  <2>2. Settled'
    BY <1>0, <2>1 DEF Settled
  <2> QED
    BY <1>0, <1>12, <2>2 DEF Acknowledge, Move
<1>13. CASE LowerGate(t)
  BY <1>0, <1>13 DEF LowerGate, Return, Move, Back
<1>14. CASE ThrowInCommit(t)
  BY <1>0, <1>14 DEF ThrowInCommit, Move, Kept
<1> QED
  BY <1>1, <1>2, <1>3, <1>4, <1>5, <1>6, <1>7, <1>8, <1>9, <1>10, <1>11, <1>12, <1>13, <1>14
     DEF DoCommit, CommitRound

\* A worker only wakes, and only adds to the responses.
LEMMA WorkerMove ==
    ASSUME TypeOK, NEW w \in Workers, Worker(w)
    PROVE  /\ wpc[w] # "exited"
           /\ UNCHANGED <<after, flushing, nextCommitId, committedId, respsClosed>>
           /\ resps' = <<>> => resps = <<>>
           /\ \A u \in Committing :
                pc'[u] = pc[u] \/ (pc[u] = "asleep" /\ pc'[u] = "woken")
<1>0. pc \in [Committing -> ThreadAt] /\ resps \in Seq(Nat)
  BY DEF TypeOK
<1> USE DEF Goto, order, commit, channels, gate, control, Advance
<1>1. CASE TakeJob(w) \/ ExitWorker(w) \/ EnterJob(w) \/ StageBlock(w)
  BY <1>0, <1>1 DEF TakeJob, ExitWorker, EnterJob, StageBlock
<1>2. CASE Respond(w)
  <2>1. resps' = Append(resps, job[w]) /\ job[w] \in Nat
    BY <1>0, <1>2 DEF Respond, Resps!Push, TypeOK
  <2>2. resps' # <<>>
    BY <1>0, <2>1
  <2> QED
    BY <1>0, <1>2, <2>2 DEF Respond, Resps!Push
<1>3. CASE LeaveJob(w)
  BY <1>0, <1>3 DEF LeaveJob
<1> QED
  BY <1>1, <1>2, <1>3 DEF Worker, Round

\* The rest of what the committer does.
LEMMA CommitterMove ==
    ASSUME TypeOK, CloseCommitter \/ Interval \/ MoreResponses
    PROVE  /\ pc["committer"] \in {"popFor", "more"}
           /\ \/ pc'["committer"] = "check" /\ after'["committer"] # "none"
              \/ pc'["committer"] = "popFor"
           /\ pc'["client"] = pc["client"] /\ after'["client"] = after["client"]
           /\ UNCHANGED <<flushing, resps, nextCommitId, committedId, wpc, respsClosed>>
BY DEF CloseCommitter, Interval, MoreResponses, BeginCommit, Goto, TypeOK, Committing,
   order, commit, channels, gate, worker

\* The rest of what the client does in a call.
LEMMA WaitMove ==
    ASSUME TypeOK, WaitEmpty \/ CloseReqs \/ CloseResps \/ Destroyed
    PROVE  /\ pc["client"] \in {"waitEmpty", "closing", "joinWorkers", "joinCommitter"}
           /\ pc'["client"] \in {"check", "joinWorkers", "joinCommitter", "destroyed"}
           /\ \/ pc'["committer"] = pc["committer"]
              \/ pc["committer"] = "pop" /\ pc'["committer"] = "stranded" /\ Gone
           /\ UNCHANGED <<after, flushing, resps, nextCommitId, committedId>>
           /\ Gone => Gone'
           /\ UNCHANGED service
BY DEF WaitEmpty, CloseReqs, CloseResps, Destroyed, Reqs!Close, Resps!Close, Goto, TypeOK,
   Committing, order, commit, channels, gate, worker, Gone

\* A call changes nothing of this but where the client is.
LEMMA BeginMove ==
    ASSUME TypeOK, NEW call, BeginFlush(call)
    PROVE  /\ pc["client"] = "idle" /\ pc'["client"] = "waitEmpty"
           /\ pc'["committer"] = pc["committer"] /\ after'["committer"] = after["committer"]
           /\ UNCHANGED <<flushing, resps, nextCommitId, committedId, wpc, service>>
BY DEF BeginFlush, Goto, Cut, Reqs!Push, TypeOK, Committing, stream, order, commit, gate, worker

\* The committer is in doCommit() because of a count, a timeout or its exit.
CalledInv ==
    pc["committer"] \in CommitAt \ {"insert", "loop", "remove"} => after["committer"] # "none"

\* Who holds a raised gate, in the first stream.
GateInv == lives = 1 /\ flushing => HoldsGate("client") \/ HoldsGate("committer") \/ Gone

\* In the first stream a committer that is about to end, or has ended, leaves an
\* answer in the queue, or everything is committed, or the client sees to it.
Counting == {"pop", "insert", "loop", "remove", "drain", "put", "ack"}
Finishing ==
    \/ pc["committer"] = "lower"
    \/ pc["committer"] \in {"pop", "exited"} /\ resps = <<>>
SettledInv == lives = 1 /\ Finishing => Settled \/ pc["client"] \in Counting

\* When the first stop() is back every thread has ended, and doCommit() finds
\* nothing to commit or an answer that nobody can take from the closed queue.
Late == FirstStream /\ (state = "stopped" \/ lives = 2)
Ended ==
    /\ reqsClosed /\ respsClosed
    /\ pc["committer"] = "exited" /\ Gone
    /\ resps # <<>> \/ Settled
    /\ pc["client"] \notin {"insert", "loop", "remove", "put", "ack", "lower"}
    /\ pc["client"] \in {"raise", "asleep", "woken", "drain", "pop"} => resps # <<>>

HolderInv == SinkInv /\ CalledInv /\ GateInv /\ SettledInv /\ (Late => Ended)

\* While a client commits, it does so in a flush() or destroy() that has found the
\* responses open: only the committer can be thrown out of doCommit().
LEMMA ClientCommits ==
    ASSUME SinkInv, lives = 1, Alive, DoCommit("client")
    PROVE  after["client"] # "none" /\ ~respsClosed
<1>1. state \in States \ {"aborted"}
  BY DEF Alive, SinkInv, ElementTypeOK, States
<1>2. pc["client"] \in CommitAt \cup {"popFor"}
  BY DEF DoCommit, CommitRound, SkipCommit, NeedCommit, RaiseGate, Recheck, TestResps,
     PopResponse, Insert, AppendItem, RemoveFront, EndBlock, PutBlockList, Acknowledge,
     LowerGate, ThrowInCommit, CommitAt
<1>3. after["client"] # "none" /\ ~Joined /\ state # "stopped"
  BY <1>1, <1>2 DEF SinkInv, ClientAt, States, CommitAt, Joined
<1> QED
  BY <1>3 DEF SinkInv, OpenInv

\* Whoever can be thrown out of doCommit() in the first stream leaves no worker
\* behind.
LEMMA ClosedIsGone ==
    ASSUME HolderInv, lives = 1, respsClosed
    PROVE  Gone
<1>1. Joined \/ state = "stopped"
  BY DEF HolderInv, SinkInv, OpenInv
<1>2. FirstStream
  BY DEF FirstStream
<1> QED
  BY <1>1, <1>2 DEF HolderInv, SinkInv, FirstInv, DestroyInv, WorkersEnded, Gone, Late, Ended

\* A step of the element, by who makes it.
LEMMA WhoMoves ==
    ASSUME [SinkNext]_sinkVars
    PROVE  \/ /\ UNCHANGED element /\ Alive
              /\ \/ DoCommit("client") \/ DoCommit("committer")
                 \/ \E w \in Workers : Worker(w)
                 \/ CloseCommitter \/ Interval \/ MoreResponses
                 \/ WaitEmpty \/ CloseReqs \/ CloseResps \/ Destroyed
           \/ Eos \/ Stop \/ StartAgain \/ StopDone \/ Reinit
           \/ \E n \in FrameSizes : Render(n)
           \/ UNCHANGED vars
BY DEF SinkNext, InCall, Background, Committer, RenderDone, EosDone, StartDone, Abort, sinkVars

\* A render() moves no thread.
LEMMA RenderMove ==
    ASSUME NEW n \in FrameSizes, Render(n)
    PROVE  UNCHANGED <<control, gate, worker, resps, nextCommitId, committedId, service>>
BY DEF Render, Buffer, UploadBlock, commit, order, channels

\* The committer enters doCommit() for a reason and leaves it without one.
LEMMA CalledStep ==
    ASSUME TypeOK, CalledInv, [SinkNext]_sinkVars
    PROVE  CalledInv'
<1> USE DEF CalledInv, CommitAt
<1>1. CASE DoCommit("client")
  BY <1>1, CommitMove DEF Committing
<1>2. CASE DoCommit("committer")
  <2>1. Move("committer")
    BY <1>2, CommitMove DEF Committing
  <2> QED
    BY <2>1 DEF Move, Back
<1>3. ASSUME NEW w \in Workers, Worker(w) PROVE CalledInv'
  BY <1>3, WorkerMove DEF Committing
<1>4. CASE CloseCommitter \/ Interval \/ MoreResponses
  BY <1>4, CommitterMove
<1>5. CASE WaitEmpty \/ CloseReqs \/ CloseResps \/ Destroyed
  BY <1>5, WaitMove
<1>6. CASE Eos \/ Stop \/ StartAgain
  <2>1. pc'["committer"] = pc["committer"] /\ after'["committer"] = after["committer"]
    BY <1>6, BeginMove DEF Eos, Stop, StartAgain
  <2> QED
    BY <2>1
<1>7. CASE StopDone
  BY <1>7 DEF StopDone, Goto, TypeOK, Committing
<1>8. CASE Reinit
  BY <1>8 DEF Reinit, Respawn, Committing
<1>9. CASE (\E n \in FrameSizes : Render(n)) \/ UNCHANGED vars
  <2>1. UNCHANGED <<pc, after>>
    BY <1>9, RenderMove DEF vars, control
  <2> QED
    BY <2>1
<1> QED
  BY <1>1, <1>2, <1>3, <1>4, <1>5, <1>6, <1>7, <1>8, <1>9, WhoMoves

\* In the first stream no thread is made anew, and none that has ended comes back.
LEMMA FirstLife ==
    ASSUME SinkInv, [SinkNext]_sinkVars, lives' = 1
    PROVE  lives = 1 /\ ~Reinit /\ ~StartAgain
<1>1. FirstStream /\ ~Reinit
  BY FirstEnds DEF FirstStream
<1>2. lives \in Nat /\ lives >= 1 /\ (state = "starting" => lives > 1)
  BY SinkAssumption DEF SinkInv, ElementTypeOK
<1>3. ~StartAgain
  BY <1>2 DEF StartAgain, BeginStart
<1>4. lives' = lives
  BY <1>1, <1>3 DEF SinkNext, Render, BeginRender, RenderDone, EndRender, Eos, EosDone, Stop,
     StopDone, StartDone, Abort, BeginEos, EndEos, BeginStop, EndStop, EndStart, Call, Throw,
     element, sinkVars
<1> QED
  BY <1>1, <1>3, <1>4

\* A raised gate keeps its holder until it is lowered, or until nobody is left
\* whom it could shut out.
LEMMA GateStep ==
    ASSUME HolderInv, [SinkNext]_sinkVars
    PROVE  GateInv'
<1> SUFFICES ASSUME lives' = 1
             PROVE  flushing' => (HoldsGate("client") \/ HoldsGate("committer") \/ Gone)'
  BY DEF GateInv
<1>0. /\ SinkInv /\ TypeOK /\ CalledInv /\ lives = 1
      /\ ~Reinit /\ ~StartAgain
      /\ flushing => HoldsGate("client") \/ HoldsGate("committer") \/ Gone
  BY FirstLife DEF HolderInv, SinkInv, TypeInv, GateInv
<1>1. ASSUME NEW t \in Committing, NEW u \in Committing, Committing = {t, u},
             DoCommit(t), Alive,
             pc[t] \in CommitAt \ {"insert", "loop", "remove"} => after[t] # "none"
      PROVE  flushing' => HoldsGate(t)' \/ HoldsGate(u)' \/ Gone'
  <2>1. Move(t) /\ wpc' = wpc /\ UNCHANGED respsClosed
    BY <1>0, <1>1, CommitMove
  <2>2. CASE Gone
    BY <2>1, <2>2 DEF Gone
  <2>3. CASE ~Gone
    <3>1. ~respsClosed
      BY <1>0, <2>3, ClosedIsGone
    <3>2. HoldsGate(t) => HoldsGate(t)' \/ ~flushing'
      BY <1>1, <2>1, <3>1 DEF Move, Kept, HoldsGate, CommitAt
    <3>3. flushing' => flushing \/ HoldsGate(t)'
      BY <2>1 DEF Move, Kept, HoldsGate
    <3>4. u # t => (HoldsGate(u) => HoldsGate(u)')
      BY <1>0, <1>1, CommitMove DEF HoldsGate
    <3>5. flushing => HoldsGate(t) \/ HoldsGate(u)
      BY <1>0, <1>1, <2>3 DEF Committing
    <3> QED
      BY <3>2, <3>3, <3>4, <3>5
  <2> QED
    BY <2>2, <2>3
<1>2. CASE DoCommit("client") /\ Alive
  <2>1. after["client"] # "none"
    BY <1>0, <1>2, ClientCommits
  <2> QED
    BY <1>1, <1>2, <2>1 DEF Committing
<1>3. CASE DoCommit("committer") /\ Alive
  BY <1>0, <1>1, <1>3 DEF Committing, CalledInv
<1>4. ASSUME flushing' = flushing, Gone => Gone',
             \A t \in Committing : HoldsGate(t) => HoldsGate(t)' \/ Gone'
      PROVE  flushing' => (HoldsGate("client") \/ HoldsGate("committer") \/ Gone)'
  BY <1>0, <1>4 DEF Committing
<1>5. ASSUME NEW w \in Workers, Worker(w)
      PROVE  flushing' => (HoldsGate("client") \/ HoldsGate("committer") \/ Gone)'
  <2>1. flushing' = flushing /\ ~Gone /\ \A t \in Committing : HoldsGate(t) => HoldsGate(t)'
    BY <1>0, <1>5, WorkerMove DEF HoldsGate, Gone
  <2> QED
    BY <1>4, <2>1
<1>6. CASE CloseCommitter \/ Interval \/ MoreResponses
  BY <1>0, <1>4, <1>6, CommitterMove DEF HoldsGate, Gone, Committing
<1>7. CASE WaitEmpty \/ CloseReqs \/ CloseResps \/ Destroyed
  BY <1>0, <1>4, <1>7, WaitMove DEF HoldsGate, Committing
<1>8. CASE Eos \/ Stop
  <2>1. PICK call : BeginFlush(call)
    BY <1>8 DEF Eos, Stop
  <2> QED
    BY <1>0, <1>4, <2>1, BeginMove DEF HoldsGate, Gone, Committing
<1>9. CASE StopDone
  <2>1. /\ pc["client"] = "destroyed" /\ pc' = [pc EXCEPT !["client"] = "idle"]
        /\ UNCHANGED <<after, flushing, wpc>>
    BY <1>9 DEF StopDone, Goto, gate, worker
  <2>2. pc'["client"] = "idle" /\ pc'["committer"] = pc["committer"]
    BY <1>0, <2>1 DEF TypeOK, Committing
  <2> QED
    BY <1>4, <2>1, <2>2 DEF HoldsGate, Gone, Committing
<1>10. CASE (\E n \in FrameSizes : Render(n)) \/ UNCHANGED vars
  <2>1. UNCHANGED <<pc, after, flushing, wpc>>
    BY <1>10, RenderMove DEF vars, control, gate, worker
  <2> QED
    BY <1>4, <2>1 DEF HoldsGate, Gone
<1> QED
  BY <1>0, <1>2, <1>3, <1>5, <1>6, <1>7, <1>8, <1>9, <1>10, WhoMoves

\* Until the first stream ends, a committer that has nothing more to do leaves
\* nothing uncommitted but what an answer in the queue, or the client, stands for.
LEMMA SettledStep ==
    ASSUME HolderInv, [SinkNext]_sinkVars
    PROVE  SettledInv'
<1> SUFFICES ASSUME lives' = 1, Finishing' PROVE (Settled \/ pc["client"] \in Counting)'
  BY DEF SettledInv
<1>0. /\ SinkInv /\ TypeOK /\ lives = 1 /\ ~Reinit /\ ~StartAgain
      /\ Finishing => Settled \/ pc["client"] \in Counting
  BY FirstLife DEF HolderInv, SinkInv, TypeInv, SettledInv
<1> USE DEF Finishing, Counting
<1>1. CASE DoCommit("client") /\ Alive
  <2>1. after["client"] # "none" /\ ~respsClosed
    BY <1>0, <1>1, ClientCommits
  <2>2. Move("client") /\ pc'["committer"] = pc["committer"]
    BY <1>0, <1>1, CommitMove DEF Committing
  <2>3. Kept => Settled' = Settled
    BY DEF Kept, Settled
  <2> QED
    BY <1>0, <2>1, <2>2, <2>3 DEF Move, Kept, Settled
<1>2. CASE DoCommit("committer")
  <2>1. Move("committer") /\ pc'["client"] = pc["client"]
    BY <1>0, <1>2, CommitMove DEF Committing
  <2> QED
    BY <1>0, <2>1 DEF Move, Kept, Settled, Back
<1>3. ASSUME UNCHANGED <<nextCommitId, committedId>>, Finishing' => Finishing,
             pc["client"] \in Counting => pc'["client"] \in Counting
      PROVE  (Settled \/ pc["client"] \in Counting)'
  BY <1>0, <1>3 DEF Settled
<1>4. ASSUME NEW w \in Workers, Worker(w) PROVE (Settled \/ pc["client"] \in Counting)'
  BY <1>0, <1>3, <1>4, WorkerMove DEF Committing
<1>5. CASE CloseCommitter \/ Interval \/ MoreResponses
  BY <1>0, <1>3, <1>5, CommitterMove
<1>6. CASE WaitEmpty \/ CloseReqs \/ CloseResps \/ Destroyed
  BY <1>0, <1>3, <1>6, WaitMove
<1>7. CASE Eos \/ Stop
  <2>1. PICK call : BeginFlush(call)
    BY <1>7 DEF Eos, Stop
  <2> QED
    BY <1>0, <1>3, <2>1, BeginMove
<1>8. CASE StopDone
  <2>1. /\ pc["client"] = "destroyed" /\ pc' = [pc EXCEPT !["client"] = "idle"]
        /\ UNCHANGED <<resps, nextCommitId, committedId>>
    BY <1>8 DEF StopDone, Goto, commit, order, channels
  <2>2. pc'["client"] = "idle" /\ pc'["committer"] = pc["committer"]
    BY <1>0, <2>1 DEF TypeOK, Committing
  <2> QED
    BY <1>3, <2>1, <2>2
<1>9. CASE (\E n \in FrameSizes : Render(n)) \/ UNCHANGED vars
  <2>1. UNCHANGED <<pc, resps, nextCommitId, committedId>>
    BY <1>9, RenderMove DEF vars, control, commit, order, channels
  <2> QED
    BY <1>3, <2>1
<1> QED
  BY <1>0, <1>1, <1>2, <1>4, <1>5, <1>6, <1>7, <1>8, <1>9, WhoMoves

\* What is left after the first stop() stays as it is, up to the next init().
LEMMA EndedMove ==
    ASSUME SinkInv, Late, Ended, [SinkNext]_sinkVars
    PROVE  UNCHANGED service /\ (Late' => Ended')
<1>0. TypeOK /\ FirstStream /\ (state = "stopped" \/ state = "starting") /\ ClientAt
      /\ (state = "starting" => pc["client"] # "idle")
  <2>1. lives \in Nat /\ lives >= 1 /\ (state = "starting" => lives > 1)
    BY SinkAssumption DEF SinkInv, ElementTypeOK
  <2> QED
    BY <2>1 DEF SinkInv, TypeInv, Late, FirstStream, Renewed
<1> USE DEF Ended
<1>1. CASE DoCommit("client") /\ UNCHANGED element /\ Alive
  <2>1. Move("client") /\ pc'["committer"] = pc["committer"]
        /\ UNCHANGED <<wpc, reqsClosed, respsClosed>>
    BY <1>0, <1>1, CommitMove DEF Committing
  <2>2. UNCHANGED service
    BY <1>1 DEF DoCommit, CommitRound, SkipCommit, NeedCommit, RaiseGate, Recheck, TestResps,
       PopResponse, Insert, AppendItem, RemoveFront, EndBlock, PutBlockList, Acknowledge,
       LowerGate, ThrowInCommit
  <2>3. UNCHANGED <<resps, nextCommitId, committedId>>
    BY <2>1 DEF Move, Kept
  <2>4. pc["client"] # "popFor"
    BY <1>0 DEF ClientAt, CommitAt
  <2>5. /\ pc'["client"] \notin {"insert", "loop", "remove", "put", "ack", "lower"}
        /\ pc'["client"] \in {"raise", "asleep", "woken", "drain", "pop"} => resps # <<>>
    BY <2>1, <2>4 DEF Move, Back
  <2> QED
    BY <2>1, <2>2, <2>3, <2>5 DEF Gone, Settled
<1>2. ~DoCommit("committer") /\ ~CloseCommitter /\ ~Interval /\ ~MoreResponses
  BY DEF DoCommit, CommitRound, SkipCommit, NeedCommit, RaiseGate, Recheck, TestResps,
     PopResponse, Insert, AppendItem, RemoveFront, EndBlock, PutBlockList, Acknowledge,
     LowerGate, ThrowInCommit, CloseCommitter, Interval, MoreResponses
<1>3. \A w \in Workers : ~Worker(w)
  BY <1>0, WorkerMove DEF Gone
<1>4. CASE WaitEmpty \/ CloseReqs \/ CloseResps \/ Destroyed
  <2>1. reqsClosed' /\ respsClosed'
    BY <1>4 DEF WaitEmpty, CloseReqs, CloseResps, Destroyed, Reqs!Close, Resps!Close, channels
  <2>2. pc'["committer"] = "exited" /\ Gone' /\ UNCHANGED service
    BY <1>0, <1>4, WaitMove
  <2>3. UNCHANGED <<resps, nextCommitId, committedId>>
        /\ pc'["client"] \in {"check", "joinWorkers", "joinCommitter", "destroyed"}
    BY <1>0, <1>4, WaitMove
  <2> QED
    BY <2>1, <2>2, <2>3 DEF Settled
<1>5. CASE StartAgain
  <2>1. /\ BeginFlush("destroy")
    BY <1>5 DEF StartAgain
  <2>2. UNCHANGED <<reqsClosed, respsClosed>>
    BY <1>0, <2>1, CallMove
  <2> QED
    BY <1>0, <2>1, <2>2, BeginMove DEF Gone, Settled
<1>6. ~Eos /\ ~Stop /\ ~StopDone /\ \A n \in FrameSizes : ~Render(n)
  BY <1>0 DEF Eos, Stop, StopDone, Render, BeginEos, BeginStop, EndStop, BeginRender, Call
<1>7. CASE Reinit
  <2>1. ~Late'
    BY <1>7, FirstEnds DEF Late
  <2> QED
    BY <1>7, <2>1 DEF Reinit, Respawn
<1>8. CASE UNCHANGED vars
  BY <1>8 DEF vars, control, channels, commit, order, worker, Gone, Settled
<1> QED
  BY <1>1, <1>2, <1>3, <1>4, <1>5, <1>6, <1>7, <1>8, WhoMoves

\* The first stop() that is back has left it so.
LEMMA EndedBegins ==
    ASSUME HolderInv, ~Late, [SinkNext]_sinkVars, Late'
    PROVE  Ended'
<1>0. SinkInv /\ TypeOK /\ FirstStream /\ ~Reinit
  BY FirstEnds DEF HolderInv, SinkInv, TypeInv, Late
<1>1. lives \in Nat /\ lives = 1 /\ state # "starting" /\ state # "stopped"
  <2>1. lives \in Nat /\ lives >= 1 /\ (state = "starting" => lives > 1)
    BY <1>0, SinkAssumption DEF SinkInv, ElementTypeOK
  <2> QED
    BY <1>0, <2>1 DEF Late, FirstStream
<1>2. StopDone
  <2>1. ~StartAgain
    BY <1>1 DEF StartAgain, BeginStart
  <2>2. state' = "stopped" \/ lives' = 2
    BY DEF Late
  <2> QED
    BY <1>0, <1>1, <2>1, <2>2 DEF SinkNext, Render, BeginRender, RenderDone, EndRender, Eos,
       EosDone, Stop, StartDone, Abort, BeginEos, EndEos, BeginStop, EndStart, Call, Throw,
       element, sinkVars
<1>3. /\ pc["client"] = "destroyed" /\ pc["committer"] = "exited"
      /\ reqsClosed /\ respsClosed
  BY <1>0, <1>2 DEF StopDone, SinkInv, CloseOrder, Closing, Joined
<1>4. Gone
  BY <1>0, <1>3 DEF SinkInv, FirstInv, DestroyInv, WorkersEnded, Joined, Gone
<1>5. resps # <<>> \/ Settled
  BY <1>1, <1>3 DEF HolderInv, SettledInv, Finishing, Counting
<1>6. /\ pc' = [pc EXCEPT !["client"] = "idle"]
      /\ UNCHANGED <<reqsClosed, respsClosed, resps, nextCommitId, committedId, wpc>>
  BY <1>2 DEF StopDone, Goto, channels, commit, order, worker
<1>7. pc'["client"] = "idle" /\ pc'["committer"] = "exited"
  BY <1>0, <1>3, <1>6 DEF TypeOK, Committing
<1> QED
  BY <1>3, <1>4, <1>5, <1>6, <1>7 DEF Ended, Gone, Settled

\* Every step of the element keeps all of it.
LEMMA HolderStep == HolderInv /\ [SinkNext]_sinkVars => HolderInv'
<1> SUFFICES ASSUME HolderInv, [SinkNext]_sinkVars PROVE HolderInv'
  OBVIOUS
<1>1. SinkInv' /\ TypeOK
  BY SinkStep DEF HolderInv, SinkInv, TypeInv
<1>2. CalledInv' /\ GateInv' /\ SettledInv'
  BY <1>1, CalledStep, GateStep, SettledStep DEF HolderInv
<1>3. Late' => Ended'
  BY EndedBegins, EndedMove DEF HolderInv
<1> QED
  BY <1>1, <1>2, <1>3 DEF HolderInv

\* Nobody commits when the element starts for the first time.
LEMMA HolderAlways == SinkSpec => []HolderInv
<1>1. SinkInit => HolderInv
  <2> SUFFICES ASSUME SinkInit PROVE HolderInv
    OBVIOUS
  <2>1. SinkInv
    BY SinkInitial
  <2>2. pc["committer"] = "popFor" /\ ~flushing /\ state = "running" /\ lives = 1
    BY DEF SinkInit, Init, ElementInit, Committing
  <2>3. ~Late
    BY <2>2 DEF Late
  <2> QED
    BY <2>1, <2>2, <2>3 DEF HolderInv, CalledInv, CommitAt, GateInv, SettledInv, Finishing
<1> QED
  BY <1>1, HolderStep, PTL DEF SinkSpec

\* In the first stream no worker is shut out for good: a raised gate has a thread
\* that is going to lower it (waitFlush(), disableFlush()), although client and
\* committer raise and lower the same flag; where an exception leaves doCommit()
\* with the gate raised, every worker has ended.
THEOREM GateHasHolderHolds == SinkSpec => []GateHasHolder
<1>1. HolderInv => GateHasHolder
  BY DEF HolderInv, GateInv, GateHasHolder, Gone, Committing
<1> QED
  BY HolderAlways, <1>1, PTL

\* From the second start() on, the destroy() of the used uploader, EOS and stop()
\* included, the element sends nothing: stop() has left nothing to commit, or a
\* closed queue that keeps doCommit() from it, and no new stream cuts a block.
THEOREM RestartSendsNothingHolds == SinkSpec => RestartSendsNothing
<1>1. ASSUME HolderInv, [SinkNext]_sinkVars
      PROVE  [lives > 1 => UNCHANGED service]_sinkVars
  <2> SUFFICES ASSUME lives > 1 PROVE UNCHANGED service
    OBVIOUS
  <2>1. SinkInv /\ lives \in Nat
    BY <1>1, SinkAssumption DEF HolderInv, SinkInv, ElementTypeOK
  <2>2. CASE Late
    BY <1>1, <2>1, <2>2, EndedMove DEF HolderInv
  <2>3. CASE Reborn
    BY <1>1, <2>1, <2>3, RebornSendsNothing
  <2>4. CASE state = "aborted"
    BY <1>1, <2>4, AbortedStays DEF vars
  <2> QED
    BY <2>1, <2>2, <2>3, <2>4 DEF Reborn, FirstStream, Late
<1> QED
  BY HolderAlways, <1>1, PTL DEF SinkSpec, RestartSendsNothing

------------------------------------------------------------------------------
(* The answer to the position query *)

\* A block cut full has at most this many bytes: the frame that fills it is not
\* split (upload(), lines 74-81).
Longest(frame) == BlockSize - 1 + frame

\* The calls in which the counter, with the buffer in render(), answers for the
\* stream of this start().
Streaming == state \in {"running", "rendering", "eos", "stopping"}
Given == total_bytes_written + size

\* What is buffered is short of a block, and what the uploader has been given is
\* what the blocks of this start hold and what is buffered.
AccountInv(frame) ==
    /\ SinkInv
    /\ buffered < BlockSize
    /\ Renewed => buffered = 0 /\ nextId = 1
    /\ Streaming => /\ Given >= buffered + (nextId - 1)
                    /\ Given <= buffered + (nextId - 1) * Longest(frame)

\* One more block.
LEMMA OneMoreBlock ==
    ASSUME NEW n \in Nat \ {0}, NEW k \in Nat
    PROVE  (n + 1 - 1) * k = (n - 1) * k + k /\ (n - 1) * k \in Nat
OBVIOUS

\* Every step of the element keeps the account.
LEMMA AccountStep ==
    ASSUME NEW frame \in FrameSizes, \A n \in FrameSizes : n <= frame,
           AccountInv(frame), [SinkNext]_sinkVars
    PROVE  AccountInv(frame)'
<1> DEFINE k == Longest(frame)
<1>0. SinkInv' /\ SinkInv /\ TypeOK /\ ElementTypeOK
  BY SinkStep DEF AccountInv, SinkInv, TypeInv
<1>1. /\ buffered \in Nat /\ nextId \in Nat \ {0} /\ BlockSize \in Nat \ {0}
      /\ frame \in Nat \ {0} /\ k \in Nat /\ k >= BlockSize
      /\ total_bytes_written \in Nat /\ size \in Nat
      /\ (state # "rendering" => size = 0)
  BY <1>0, UploaderAssumption DEF TypeOK, ElementTypeOK, Longest
<1>2. (nextId + 1 - 1) * k = (nextId - 1) * k + k /\ (nextId - 1) * k \in Nat
  BY <1>1, OneMoreBlock
<1> DEFINE full == (nextId - 1) * k
<1>3. /\ buffered < BlockSize /\ full \in Nat
      /\ Streaming => Given >= buffered + (nextId - 1) /\ Given <= buffered + full
      /\ Renewed => buffered = 0 /\ nextId = 1
  BY <1>2 DEF AccountInv
<1>4. ASSUME buffered' < BlockSize, ~Renewed',
             Streaming' => Given' >= buffered' + (nextId' - 1),
             Streaming' => \/ nextId' = nextId /\ Given' <= buffered' + full
                           \/ nextId' = nextId + 1 /\ Given' <= buffered' + (full + k)
      PROVE  AccountInv(frame)'
  <2>1. ASSUME Streaming' PROVE Given' <= buffered' + (nextId' - 1) * k
    <3>1. CASE nextId' = nextId
      <4>1. (nextId' - 1) * k = full /\ nextId' # nextId + 1
        BY <1>1, <3>1
      <4> HIDE DEF k, full
      <4> QED
        BY <1>4, <2>1, <4>1
    <3>2. CASE nextId' = nextId + 1
      <4>1. (nextId' - 1) * k = full + k /\ nextId' # nextId
        BY <1>1, <1>2, <3>2
      <4> HIDE DEF k, full
      <4> QED
        BY <1>4, <2>1, <4>1
    <3> QED
      BY <1>4, <2>1, <3>1, <3>2
  <2> QED
    BY <1>0, <1>4, <2>1 DEF AccountInv
<1> HIDE DEF k, full
<1>5. ASSUME NEW n \in FrameSizes, Render(n) PROVE AccountInv(frame)'
  <2>1. /\ n \in Nat \ {0} /\ n <= frame /\ Given' = Given + n
        /\ Given >= buffered + (nextId - 1) /\ Given <= buffered + full
        /\ Given \in Nat
    <3>1. /\ n \in Nat \ {0} /\ n <= frame /\ state = "running"
          /\ total_bytes_written' = total_bytes_written /\ size' = n
      BY <1>5, UploaderAssumption DEF Render, BeginRender
    <3> QED
      BY <1>1, <1>3, <3>1 DEF Given, Streaming
  <2>2. ~Renewed'
    BY <1>5 DEF Render, BeginRender, Renewed
  <2>3. CASE Buffer(n)
    <3>1. buffered' = buffered + n /\ buffered + n < BlockSize /\ nextId' = nextId
      BY <2>3 DEF Buffer
    <3> QED
      BY <1>1, <1>3, <1>4, <2>1, <2>2, <3>1
  <2>4. CASE UploadBlock(n)
    <3>1. buffered' = 0 /\ nextId' = nextId + 1
      BY <2>4 DEF UploadBlock, Cut
    <3>2. Given' <= full + k
      <4>1. k = BlockSize - 1 + frame
        BY DEF k, Longest
      <4> QED
        BY <1>1, <1>3, <2>1, <4>1
    <3> QED
      BY <1>1, <1>3, <1>4, <2>1, <2>2, <3>1, <3>2
  <2> QED
    BY <1>5, <2>3, <2>4 DEF Render
<1>6. ASSUME NEW call, BeginFlush(call), Given' = Given, Streaming' => Streaming
      PROVE  AccountInv(frame)'
  <2>1. ~Renewed'
    BY <1>0, <1>6, CallMove DEF Renewed
  <2>2. Given \in Nat
    BY <1>1 DEF Given
  <2>3. CASE buffered > 0 /\ Cut
    <3>1. buffered' = 0 /\ nextId' = nextId + 1
      BY <2>3 DEF Cut
    <3> QED
      BY <1>1, <1>3, <1>4, <1>6, <2>1, <2>2, <2>3, <3>1
  <2>4. CASE UNCHANGED stream
    BY <1>1, <1>3, <1>4, <1>6, <2>1, <2>2, <2>4 DEF stream
  <2> QED
    BY <1>6, <2>3, <2>4 DEF BeginFlush
<1>7. CASE Reinit
  <2>1. buffered' = 0 /\ nextId' = 1 /\ state' = "starting"
    BY <1>7 DEF Reinit, Respawn, element
  <2> QED
    BY <1>0, <1>1, <2>1 DEF AccountInv, Streaming
<1>8. CASE StartDone
  <2>1. /\ UNCHANGED <<buffered, nextId>> /\ total_bytes_written' = 0 /\ size' = size
        /\ Renewed /\ state' = "running"
    BY <1>8 DEF StartDone, EndStart, Renewed, vars, stream
  <2>2. buffered' = 0 /\ nextId' = nextId /\ nextId = 1 /\ Given' = 0
    BY <1>1, <1>3, <2>1 DEF Given, Renewed
  <2> QED
    BY <1>1, <1>3, <1>4, <2>1, <2>2 DEF Renewed
<1>9. ASSUME UNCHANGED <<buffered, nextId>>, Given' = Given, Streaming' => Streaming,
             Renewed' => Renewed
      PROVE  AccountInv(frame)'
  <2>1. Given \in Nat
    BY <1>1 DEF Given
  <2>2. CASE Renewed
    <3>1. buffered' = 0 /\ nextId' = 1 /\ ~Streaming'
      BY <1>3, <1>9, <2>2 DEF Renewed, Streaming
    <3> QED
      BY <1>0, <1>1, <3>1 DEF AccountInv
  <2>3. CASE ~Renewed
    BY <1>1, <1>3, <1>4, <1>9, <2>1, <2>3
  <2> QED
    BY <2>2, <2>3
<1>10. CASE RenderDone
  <2>1. /\ UNCHANGED <<buffered, nextId>> /\ state = "rendering" /\ state' = "running"
        /\ total_bytes_written' = total_bytes_written + size /\ size' = 0
    BY <1>10 DEF RenderDone, EndRender, vars, stream
  <2>2. Given' = Given
    BY <1>1, <2>1 DEF Given
  <2> QED
    BY <1>9, <2>1, <2>2 DEF Streaming, Renewed
<1>11. CASE EosDone \/ StopDone \/ Abort
  <2>1. UNCHANGED <<buffered, nextId, total_bytes_written, size>>
    BY <1>11 DEF EosDone, StopDone, Abort, EndEos, EndStop, Call, Throw, vars, stream
  <2>2. (Streaming' => Streaming) /\ ~Renewed'
    BY <1>11 DEF EosDone, StopDone, Abort, EndEos, EndStop, Call, Throw, Streaming, Renewed
  <2> QED
    BY <1>9, <2>1, <2>2 DEF Given
<1>12. CASE UNCHANGED sinkVars
  BY <1>9, <1>12 DEF sinkVars, vars, stream, control, element, Given, Streaming, Renewed
<1>13. CASE Alive /\ (InCall \/ Background) /\ UNCHANGED element
  <2>1. UNCHANGED stream
    BY <1>13 DEF InCall, Background, Worker, Round, Committer, DoCommit, CommitRound,
       WaitEmpty, CloseReqs, CloseResps, Destroyed, TakeJob, ExitWorker, EnterJob, StageBlock,
       Respond, LeaveJob, SkipCommit, NeedCommit, RaiseGate, Recheck, TestResps, PopResponse,
       Insert, AppendItem, RemoveFront, EndBlock, PutBlockList, Acknowledge, LowerGate,
       ThrowInCommit, CloseCommitter, Interval, MoreResponses
  <2>2. Renewed' => Renewed
    <3>1. state' = state
      BY <1>13 DEF element
    <3>2. state = "starting" /\ pc["client"] # "idle" => pc'["client"] # "idle"
      BY <1>0, <1>13, StartingStays DEF SinkInv
    <3> QED
      BY <3>1, <3>2 DEF Renewed
  <2> QED
    BY <1>9, <1>13, <2>1, <2>2 DEF stream, element, Given, Streaming
<1>14. CASE Eos \/ Stop \/ StartAgain
  <2>1. Given' = Given /\ (Streaming' => Streaming)
    BY <1>14 DEF Eos, Stop, StartAgain, BeginEos, BeginStop, BeginStart, Call, Given, Streaming
  <2> QED
    BY <1>6, <1>14, <2>1 DEF Eos, Stop, StartAgain
<1> QED
  BY <1>5, <1>7, <1>8, <1>10, <1>11, <1>12, <1>13, <1>14 DEF SinkNext

\* The position query answers for the stream of this start(), however its blocks
\* are cut (render(), lines 541-547; upload(), lines 69-83; flush(), lines 92-96):
\* where the frames have a greatest size, the answer and the buffer that render()
\* has not counted yet (line 523) are between the fewest and the most bytes that
\* the blocks cut so far and the buffered bytes can hold.
THEOREM PositionAccountsHolds ==
    ASSUME \E n \in FrameSizes : \A m \in FrameSizes : m <= n
    PROVE  SinkSpec => []PositionAccounts
<1> DEFINE frame == Greatest(FrameSizes)
<1>1. frame \in FrameSizes /\ \A m \in FrameSizes : m <= frame
  BY DEF Greatest
<1>2. SinkInit => AccountInv(frame)
  <2> SUFFICES ASSUME SinkInit PROVE AccountInv(frame)
    OBVIOUS
  <2>1. /\ buffered = 0 /\ nextId = 1 /\ total_bytes_written = 0 /\ size = 0
        /\ state = "running"
    BY DEF SinkInit, Init, ElementInit
  <2>2. BlockSize \in Nat \ {0} /\ Longest(frame) \in Nat
    <3>1. frame \in Nat \ {0} /\ BlockSize \in Nat \ {0}
      BY <1>1, UploaderAssumption
    <3> HIDE DEF frame
    <3> QED
      BY <3>1 DEF Longest
  <2>3. (nextId - 1) * Longest(frame) = 0
    BY <2>1, <2>2
  <2>4. Given = 0
    BY <2>1 DEF Given
  <2> HIDE DEF frame
  <2> QED
    BY <2>1, <2>2, <2>3, <2>4, SinkInitial DEF AccountInv, Renewed
<1>3. AccountInv(frame) /\ [SinkNext]_sinkVars => AccountInv(frame)'
  BY <1>1, AccountStep
<1>4. AccountInv(frame) => PositionAccounts
  BY DEF AccountInv, PositionAccounts, Position, Longest, Streaming, Given
<1> QED
  BY <1>2, <1>3, <1>4, PTL DEF SinkSpec
==============================================================================

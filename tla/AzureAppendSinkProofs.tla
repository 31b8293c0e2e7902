------------------------- MODULE AzureAppendSinkProofs -------------------------
(***************************************************************************)
(* Theorems about AzureAppendSink, the element over SimpleAzureUploader,   *)
(* for any number of starts, any sizes and any limit of a chunk, with and  *)
(* without failures.  A step of the element is a step of its uploader      *)
(* (AnyStep), leaves the uploader alone, or is the Reinit of a new start().*)
(***************************************************************************)
EXTENDS AzureAppendSink, AppendUploaderProofs

\* Whatever the element does, its uploader makes a step of its own, except in a
\* new start().
LEMMA UploaderStep == [SinkNext]_sinkVars => AnyStep \/ Reinit
BY DEF SinkNext, Render, Eos, Stop, StartAgain, InCall, Background, CallDone, RenderDone,
       EosDone, StopDone, StartDone, sinkVars, AnyStep, Next, ClientStep

------------------------------------------------------------------------------
(* Types, and what is kept from the uploader in every start *)

\* A new start() drops what the last one has not sent.
LEMMA ReinitTypes ==
    ASSUME TypeInv, Reinit
    PROVE  TypeInv'
<1>1. <<>> \in Seq(1 .. MaxBytes) /\ <<>> \in Seq(1 .. written)
  BY EmptySeq
<1> QED
  BY <1>1 DEF Reinit, NewWorker, TypeInv, TypeOK, Held, ChunkWithinLimit

\* The types of the uploader hold in every start.
LEMMA UploaderTypes == SinkSpec => []TypeInv
<1>1. SinkInit => TypeInv
  BY TypeInit DEF SinkInit
<1>2. TypeInv /\ [SinkNext]_sinkVars => TypeInv'
  BY UploaderStep, TypeStep, ReinitTypes
<1> QED
  BY <1>1, <1>2, PTL DEF SinkSpec

\* Starting the element again changes neither the types of the uploader nor the
\* limit of an Append Block.
THEOREM UploaderLimits == SinkSpec => [](TypeOK /\ ChunkWithinLimit)
<1>1. TypeInv => TypeOK /\ ChunkWithinLimit
  BY DEF TypeInv
<1> QED
  BY UploaderTypes, <1>1, PTL

\* Bytes of all streams reach the blob in the order in which they were appended,
\* also when a start() finds the blob of the last one and its create is refused.
THEOREM OrderKeptInEveryStream == SinkSpec => []OrderKept
<1>1. SinkInit => OrderInv
  BY OrderInit DEF SinkInit
<1>2. OrderInv /\ [SinkNext]_sinkVars => OrderInv'
  <2>1. ASSUME OrderInv, Reinit PROVE OrderInv'
    <3>1. TypeInv'
      BY <2>1, ReinitTypes DEF OrderInv
    <3>2. stream' = <<>> /\ chunk' = <<>> /\ blob' = blob
      BY <2>1 DEF Reinit, NewWorker
    <3> QED
      BY <2>1, <3>1, <3>2, EmptyOrder DEF OrderInv
  <2> QED
    BY <2>1, UploaderStep, OrderStep
<1> QED
  BY <1>1, <1>2, OrderUse, PTL DEF SinkSpec

------------------------------------------------------------------------------
(* The element and its uploader agree *)

\* A start() whose init() is back has a new worker and has yet to reset the counter.
Renewed == state = "starting" /\ cpc = "idle"

\* The call the element is in says where the client of the uploader is.
ClientInv ==
    /\ state # "aborted"
    /\ state \in {"running", "rendering"} => cpc = "idle"
    /\ state = "eos" => cpc \in {"idle", "flush"}
    /\ state = "stopping" => cpc \in {"destroy", "stop", "notify", "join", "destroyed"}
    /\ state = "stopped" => cpc = "destroyed"
    /\ state = "starting" => cpc \in {"destroyed", "idle"}

\* The position query and the buffer in render() make up the bytes of this start.
CountInv ==
    /\ base \in 0 .. written
    /\ Renewed => base = written
    /\ ~Renewed => total_bytes_written + size = written - base

\* The element agrees with its uploader.
CallInv == TypeInv /\ ElementTypeOK /\ ClientInv /\ CountInv

\* Every step keeps the place of the client.
LEMMA ClientStays == CallInv /\ [SinkNext]_sinkVars => ClientInv'
<1> SUFFICES ASSUME CallInv, [SinkNext]_sinkVars PROVE ClientInv'
  OBVIOUS
<1> USE DEF CallInv, ClientInv
<1>1. ASSUME NEW n \in Sizes, Render(n) PROVE ClientInv'
  BY <1>1 DEF Render, BeginRender, AppendBytes
<1>2. CASE Eos \/ Stop
  BY <1>2 DEF Eos, Stop, BeginEos, BeginStop, Call, BeginFlush
<1>3. CASE CallDone
  BY <1>3 DEF CallDone, RenderDone, EosDone, StopDone, StartDone, EndRender, EndEos, EndStop,
              EndStart, Call, vars
<1>4. CASE StartAgain
  BY <1>4 DEF StartAgain, BeginStart, vars
<1>5. CASE Reinit
  BY <1>5 DEF Reinit, NewWorker, element
<1>6. CASE InCall
  BY <1>6 DEF InCall, EndFlush, SetStopped, NotifyStop, Join, element
<1>7. CASE Background
  BY <1>7 DEF Background, WorkerStep, Create, Test, Finish, Wait, Park, Take, Send, element
<1>8. CASE UNCHANGED sinkVars
  BY <1>8 DEF sinkVars, vars, element
<1> QED
  BY <1>1, <1>2, <1>3, <1>4, <1>5, <1>6, <1>7, <1>8 DEF SinkNext

\* Every step keeps the counter: the end of render() moves the buffer into it, and
\* the end of start() resets it when nothing has been appended yet.
LEMMA CountStays ==
    CallInv /\ [SinkNext]_sinkVars => ElementTypeOK' /\ CountInv'
<1> SUFFICES ASSUME CallInv, [SinkNext]_sinkVars PROVE ElementTypeOK' /\ CountInv'
  OBVIOUS
<1>1. /\ written \in Nat /\ base \in 0 .. written
      /\ total_bytes_written \in Nat /\ size \in Nat
      /\ lives \in 0 .. MaxLives /\ MaxLives \in Nat
  BY AppendAssumption, SinkAssumption DEF CallInv, TypeInv, TypeOK, ElementTypeOK, CountInv
<1> USE DEF CallInv, ElementTypeOK, CountInv, Renewed
<1>2. ASSUME NEW n \in Sizes, Render(n) PROVE ElementTypeOK' /\ CountInv'
  <2>1. /\ n \in Nat /\ written' = written + n /\ base' = base /\ size' = n
        /\ total_bytes_written' = total_bytes_written /\ lives' = lives
        /\ state = "running" /\ state' = "rendering"
    BY <1>2, AppendAssumption DEF Render, BeginRender, AppendBytes, history
  <2>2. size = 0 /\ total_bytes_written + size = written - base
    BY <2>1
  <2> QED
    BY <1>1, <2>1, <2>2
<1>3. CASE RenderDone
  <2>1. /\ written' = written /\ base' = base /\ size' = 0 /\ lives' = lives
        /\ total_bytes_written' = total_bytes_written + size
        /\ state = "rendering" /\ state' = "running"
    BY <1>3 DEF RenderDone, EndRender, vars, history
  <2> QED
    BY <1>1, <2>1
<1>4. CASE StartDone
  <2>1. /\ written' = written /\ base' = base /\ UNCHANGED <<size, lives>>
        /\ total_bytes_written' = 0 /\ base = written
        /\ state = "starting" /\ state' = "running"
    BY <1>4 DEF StartDone, EndStart, vars, history
  <2> QED
    BY <1>1, <2>1
<1>5. CASE StartAgain
  <2>1. /\ written' = written /\ base' = base /\ UNCHANGED <<size, total_bytes_written>>
        /\ cpc' = cpc /\ state = "stopped" /\ state' = "starting" /\ lives' \in 0 .. MaxLives
    BY <1>1, <1>5 DEF StartAgain, BeginStart, vars, history
  <2>2. cpc # "idle"
    BY <2>1 DEF ClientInv
  <2> QED
    BY <1>1, <2>1, <2>2
<1>6. CASE Reinit
  BY <1>1, <1>6 DEF Reinit, NewWorker, element
<1>7. ASSUME UNCHANGED <<size, total_bytes_written, lives, written, base>>,
             state # "starting", state' # "starting",
             state' \in {"running", "eos", "stopping", "stopped"}, state # "rendering"
      PROVE  ElementTypeOK' /\ CountInv'
  BY <1>1, <1>7
<1>8. CASE Eos \/ Stop
  BY <1>7, <1>8 DEF Eos, Stop, BeginEos, BeginStop, Call, BeginFlush, history
<1>9. CASE EosDone \/ StopDone
  BY <1>7, <1>9 DEF EosDone, StopDone, EndEos, EndStop, Call, vars, history
<1>10. ASSUME UNCHANGED <<written, base>>, UNCHANGED element,
              state = "starting" => cpc' = cpc
       PROVE  ElementTypeOK' /\ CountInv'
  <2>1. UNCHANGED <<state, size, total_bytes_written, lives>>
    BY <1>10 DEF element
  <2> QED
    BY <1>1, <1>10, <2>1
<1>11. CASE InCall
  <2>1. state # "starting"
    BY <1>11 DEF InCall, EndFlush, SetStopped, NotifyStop, Join, ClientInv
  <2>2. UNCHANGED <<written, base>> /\ UNCHANGED element
    BY <1>11 DEF InCall, EndFlush, SetStopped, NotifyStop, Join, history
  <2> QED
    BY <1>10, <2>1, <2>2
<1>12. CASE Background
  BY <1>10, <1>12
     DEF Background, WorkerStep, Create, Test, Finish, Wait, Park, Take, Send
<1>13. CASE UNCHANGED sinkVars
  BY <1>10, <1>13 DEF sinkVars, vars, history
<1> QED
  BY <1>2, <1>3, <1>4, <1>5, <1>6, <1>8, <1>9, <1>11, <1>12, <1>13 DEF SinkNext, CallDone

\* Every step of the element keeps the agreement.
LEMMA CallStep == CallInv /\ [SinkNext]_sinkVars => CallInv'
<1>1. CallInv /\ [SinkNext]_sinkVars => TypeInv'
  BY UploaderStep, TypeStep, ReinitTypes DEF CallInv
<1> QED
  BY <1>1, ClientStays, CountStays DEF CallInv

\* The first start() has its uploader ready.
LEMMA CallInit == SinkInit => CallInv
<1> SUFFICES ASSUME SinkInit PROVE CallInv
  OBVIOUS
<1>1. TypeInv
  BY TypeInit DEF SinkInit
<1>2. state = "running" /\ cpc = "idle" /\ size = 0
  BY DEF SinkInit, Init, ElementInit
<1>3. /\ total_bytes_written = 0 /\ lives = 1 /\ base = 0 /\ written = 0
  BY DEF SinkInit, Init, ElementInit
<1>4. ElementTypeOK
  BY <1>2, <1>3, SinkAssumption DEF ElementTypeOK
<1>5. CountInv
  BY <1>2, <1>3 DEF CountInv, Renewed
<1>6. ClientInv
  BY <1>2 DEF ClientInv
<1> QED
  BY <1>1, <1>4, <1>5, <1>6 DEF CallInv

------------------------------------------------------------------------------
(* One stream in uploader and blob *)

\* s holds bytes of this start only.
Fresh(s) == s \in Seq(base + 1 .. written)

\* Nothing of an earlier start is in the uploader, and none is in the blob either
\* once this start has emptied it.
FreshInv ==
    /\ CallInv
    /\ Fresh(stream) /\ Fresh(chunk)
    /\ wpc # "create" /\ ~kept => Fresh(blob)

\* Every step of the element keeps the streams apart.
LEMMA FreshStep == FreshInv /\ [SinkNext]_sinkVars => FreshInv'
<1> SUFFICES ASSUME FreshInv, [SinkNext]_sinkVars PROVE FreshInv'
  OBVIOUS
<1>0. CallInv' /\ TypeInv
  BY CallStep DEF FreshInv, CallInv
<1>1. written \in Nat /\ base \in Nat /\ base <= written
  BY AppendAssumption DEF FreshInv, CallInv, TypeInv, TypeOK, CountInv
<1>2. \A S : <<>> \in Seq(S)
  BY EmptySeq
<1>3. ASSUME NEW n \in Sizes, Render(n) PROVE FreshInv'
  <2>1. /\ written' = written + n /\ n \in Nat
        /\ Bytes(written, written + n) \in Seq(written + 1 .. written')
    BY <1>0, <1>3, AppendGrows DEF Render
  <2>2. /\ base + 1 .. written \subseteq base + 1 .. written'
        /\ written + 1 .. written' \subseteq base + 1 .. written'
    BY <1>1, <2>1
  <2>3. \A s : Fresh(s) => s \in Seq(base + 1 .. written')
    BY <2>2, SeqMonotonic DEF Fresh
  <2>4. Bytes(written, written + n) \in Seq(base + 1 .. written')
    <3>1. Seq(written + 1 .. written') \subseteq Seq(base + 1 .. written')
      BY ONLY <2>2, SeqMonotonic, Zenon
    <3> QED
      BY <2>1, <3>1, Zenon
  <2>5. stream' \in Seq(base + 1 .. written')
    BY <1>3, <2>3, <2>4 DEF FreshInv, Render, AppendBytes
  <2>6. UNCHANGED <<base, kept, chunk, blob>> /\ (wpc' = "create" <=> wpc = "create")
    BY <1>3 DEF Render, AppendBytes, WakeWorker, history
  <2> QED
    BY <1>0, <2>3, <2>5, <2>6 DEF FreshInv, Fresh
<1>4. CASE Reinit
  BY <1>0, <1>2, <1>4 DEF Reinit, NewWorker, FreshInv, Fresh
<1>5. CASE Background
  <2>1. UNCHANGED <<base, written>>
    BY <1>5 DEF Background, WorkerStep, Create, Test, Finish, Wait, Park, Take, Send
  <2>2. CASE Create
    <3>1. UNCHANGED <<stream, chunk>> /\ kept' = (blob' # <<>>)
      BY <1>5, <2>2 DEF Background, Create
    <3> QED
      BY <1>0, <1>2, <2>1, <3>1 DEF FreshInv, Fresh
  <2>3. CASE Take
    <3>1. /\ chunk' \in Seq(base + 1 .. written) /\ stream' \in Seq(base + 1 .. written)
      BY <1>0, <2>3, TakeParts DEF FreshInv, Fresh
    <3>2. UNCHANGED <<kept, blob>> /\ wpc # "create"
      BY <1>5, <2>3 DEF Background, Take
    <3> QED
      BY <1>0, <2>1, <3>1, <3>2 DEF FreshInv, Fresh
  <2>4. CASE Send
    <3>1. /\ kept' = kept /\ wpc # "create" /\ stream' = stream /\ chunk' = <<>>
          /\ (blob' = blob \/ blob' = blob \o chunk)
      BY <1>5, <2>4 DEF Background, Send
    <3>2. ASSUME ~kept PROVE blob' \in Seq(base + 1 .. written)
      <4>1. blob \in Seq(base + 1 .. written) /\ chunk \in Seq(base + 1 .. written)
        BY <3>1, <3>2 DEF FreshInv, Fresh
      <4> QED
        BY <3>1, <4>1, ConcatProperties
    <3> QED
      BY <1>0, <1>2, <2>1, <3>1, <3>2 DEF FreshInv, Fresh
  <2>5. CASE Test \/ Finish \/ Wait \/ Park
    <3>1. UNCHANGED <<kept, stream, chunk, blob>> /\ wpc # "create"
      BY <1>5, <2>5 DEF Background, Test, Finish, Wait, Park
    <3> QED
      BY <1>0, <2>1, <3>1 DEF FreshInv, Fresh
  <2> QED
    BY <1>5, <2>2, <2>3, <2>4, <2>5 DEF Background, WorkerStep
<1>6. ASSUME UNCHANGED <<base, kept, stream, chunk, blob, written>>,
             wpc' = "create" <=> wpc = "create"
      PROVE  FreshInv'
  BY <1>0, <1>6 DEF FreshInv, Fresh
<1>7. CASE Eos \/ Stop \/ StartAgain \/ CallDone \/ InCall \/ UNCHANGED sinkVars
  BY <1>6, <1>7 DEF Eos, Stop, StartAgain, CallDone, RenderDone, EosDone, StopDone, StartDone,
                    InCall, BeginFlush, EndFlush, SetStopped, NotifyStop, Join, WakeWorker,
                    vars, history, sinkVars
<1> QED
  BY <1>3, <1>4, <1>5, <1>7 DEF SinkNext

\* Uploader and blob hold bytes of one stream only, and none that is neither counted
\* nor in the buffer being rendered: what stop() has left unsent never comes back.
\* The blob of a start() whose create was refused is left out.
THEOREM OneStreamHolds == SinkSpec => []OneStream
<1>1. SinkInit => FreshInv
  <2>1. \A S : <<>> \in Seq(S)
    BY EmptySeq
  <2> QED
    BY <2>1, CallInit DEF SinkInit, Init, FreshInv, Fresh
<1>2. FreshInv => OneStream
  <2> SUFFICES ASSUME FreshInv PROVE OneStream
    OBVIOUS
  <2>1. /\ written \in Nat /\ base \in 0 .. written /\ size \in Nat
        /\ total_bytes_written \in Nat
        /\ base = written \/ total_bytes_written + size = written - base
    BY AppendAssumption
       DEF FreshInv, CallInv, TypeInv, TypeOK, ElementTypeOK, CountInv
  <2>2. base + 1 .. written \subseteq Own
    BY <2>1 DEF Own, Position
  <2>3. ASSUME NEW s, Fresh(s) PROVE Elements(s) \subseteq Own
    <3>1. \A i \in DOMAIN s : s[i] \in base + 1 .. written
      BY <2>3, LenProperties, ElementOfSeq DEF Fresh
    <3> QED
      BY <2>2, <3>1 DEF Elements
  <2> QED
    BY <2>3 DEF FreshInv, OneStream
<1> QED
  BY <1>1, <1>2, FreshStep, PTL DEF SinkSpec

------------------------------------------------------------------------------
(* What is lost *)

\* Until the worker of a start() has created the blob, nothing of that start is in
\* it, so that creating it takes nothing of this start away.
LostInv ==
    /\ CallInv
    /\ OnlyRefusedLost
    /\ wpc = "create" => \A i \in DOMAIN blob : blob[i] <= base

\* The elements of two sequences, joined.
LEMMA ConcatElements ==
    ASSUME NEW S, NEW s \in Seq(S), NEW t \in Seq(S)
    PROVE  Elements(s \o t) = Elements(s) \cup Elements(t)
<1>1. /\ Len(s) \in Nat /\ Len(t) \in Nat
      /\ DOMAIN s = 1 .. Len(s) /\ DOMAIN t = 1 .. Len(t)
      /\ DOMAIN (s \o t) = 1 .. Len(s) + Len(t)
      /\ \A i \in 1 .. Len(s) + Len(t) :
            (s \o t)[i] = IF i <= Len(s) THEN s[i] ELSE t[i - Len(s)]
  BY ConcatProperties, LenProperties
<1>2. \A i \in DOMAIN (s \o t) : (s \o t)[i] \in Elements(s) \cup Elements(t)
  <2> SUFFICES ASSUME NEW i \in DOMAIN (s \o t)
               PROVE  (s \o t)[i] \in Elements(s) \cup Elements(t)
    OBVIOUS
  <2>1. CASE i <= Len(s)
    BY <1>1, <2>1 DEF Elements
  <2>2. CASE ~(i <= Len(s))
    <3>1. i - Len(s) \in DOMAIN t /\ (s \o t)[i] = t[i - Len(s)]
      BY <1>1, <2>2
    <3> QED
      BY <3>1 DEF Elements
  <2> QED
    BY <2>1, <2>2
<1>3. \A i \in DOMAIN s : s[i] \in Elements(s \o t)
  <2> SUFFICES ASSUME NEW i \in DOMAIN s PROVE s[i] \in Elements(s \o t)
    OBVIOUS
  <2>1. i \in DOMAIN (s \o t) /\ (s \o t)[i] = s[i]
    BY <1>1
  <2> QED
    BY <2>1 DEF Elements
<1>4. \A i \in DOMAIN t : t[i] \in Elements(s \o t)
  <2> SUFFICES ASSUME NEW i \in DOMAIN t PROVE t[i] \in Elements(s \o t)
    OBVIOUS
  <2>1. i + Len(s) \in DOMAIN (s \o t) /\ (s \o t)[i + Len(s)] = t[i]
    BY <1>1
  <2> QED
    BY <2>1 DEF Elements
<1> QED
  BY <1>2, <1>3, <1>4 DEF Elements

\* What the worker takes out of the stream is in the chunk, and the rest is left.
LEMMA TakeElements ==
    ASSUME TypeInv, Take
    PROVE  Elements(stream) \subseteq Elements(stream') \cup Elements(chunk')
<1>1. stream \in Seq(1 .. written) /\ Len(stream) \in Nat
      /\ DOMAIN stream = 1 .. Len(stream)
  BY LenProperties DEF TypeInv, Held
<1>2. CASE Len(stream) <= ChunkMax
  BY <1>1, <1>2, AppendAssumption DEF Take, Elements
<1>3. CASE Len(stream) > ChunkMax
  <2>1. ChunkMax \in Nat \ {0}
    BY AppendAssumption
  <2>2. chunk' = SubSeq(stream, 1, ChunkMax) /\ stream' = SubSeq(stream, ChunkMax, Len(stream))
    BY <1>1, <1>3, <2>1 DEF Take
  <2> SUFFICES ASSUME NEW i \in 1 .. Len(stream)
               PROVE  stream[i] \in Elements(stream') \cup Elements(chunk')
    BY <1>1 DEF Elements
  <2>3. CASE i <= ChunkMax
    <3>1. i \in DOMAIN chunk' /\ chunk'[i] = stream[i]
      BY <1>1, <1>3, <2>1, <2>2, <2>3
    <3> QED
      BY <3>1 DEF Elements
  <2>4. CASE i > ChunkMax
    <3>1. i - ChunkMax + 1 \in DOMAIN stream' /\ stream'[i - ChunkMax + 1] = stream[i]
      BY <1>1, <1>3, <2>1, <2>2, <2>4
    <3> QED
      BY <3>1 DEF Elements
  <2> QED
    BY <2>1, <2>3, <2>4
<1> QED
  BY <1>1, <1>2, <1>3, AppendAssumption

\* Appended bytes are in the stream.
LEMMA AppendElements ==
    ASSUME TypeInv, NEW n \in Sizes, AppendBytes(n)
    PROVE  Elements(stream') = Elements(stream) \cup (written + 1 .. written')
<1>1. /\ written' = written + n /\ n \in Nat /\ written \in Nat
  BY AppendGrows
<1>2. Elements(Bytes(written, written + n)) = written + 1 .. written'
  <2>1. /\ DOMAIN Bytes(written, written + n) = 1 .. n
        /\ \A i \in 1 .. n : Bytes(written, written + n)[i] = written + i
    <3>1. (written + n) - written = n
      BY <1>1
    <3> QED
      BY <3>1 DEF Bytes
  <2>2. \A i \in 1 .. n : written + i \in written + 1 .. written'
    BY <1>1
  <2>3. \A b \in written + 1 .. written' : \E i \in 1 .. n : written + i = b
    <3> SUFFICES ASSUME NEW b \in written + 1 .. written' PROVE \E i \in 1 .. n : written + i = b
      OBVIOUS
    <3>1. b - written \in 1 .. n /\ written + (b - written) = b
      BY <1>1
    <3> QED
      BY <3>1
  <2>4. Elements(Bytes(written, written + n)) \subseteq written + 1 .. written'
    BY <2>1, <2>2 DEF Elements
  <2>5. written + 1 .. written' \subseteq Elements(Bytes(written, written + n))
    BY <2>1, <2>3, Zenon DEF Elements
  <2> QED
    BY <2>4, <2>5
<1>3. stream \in Seq(Nat) /\ Bytes(written, written + n) \in Seq(Nat)
  <2>1. 1 .. written \subseteq Nat
    BY <1>1
  <2>2. stream \in Seq(Nat)
    BY <2>1, SeqMonotonic DEF TypeInv, Held
  <2>3. Bytes(written, written + n) \in Seq(Nat)
    BY <1>1, BytesType
  <2> QED
    BY <2>2, <2>3
<1>4. stream' = stream \o Bytes(written, written + n)
  BY DEF AppendBytes
<1>5. Elements(stream') = Elements(stream) \cup Elements(Bytes(written, written + n))
  BY <1>3, <1>4, ConcatElements
<1> QED
  BY <1>2, <1>5

\* Every step of the worker leaves the bytes of this start where they are, moves
\* them on, or has them refused.
LEMMA LostBackground == LostInv /\ Background => OnlyRefusedLost' /\ (wpc' # "create")
<1> SUFFICES ASSUME LostInv, Background PROVE OnlyRefusedLost' /\ wpc' # "create"
  OBVIOUS
<1>1. UNCHANGED <<base, written>> /\ wpc' # "create"
  BY DEF Background, WorkerStep, Create, Test, Finish, Wait, Park, Take, Send
<1>2. TypeInv
  BY DEF LostInv, CallInv
<1>3. CASE Create
  <2>1. /\ UNCHANGED <<stream, chunk, refused>> /\ (blob' = <<>> \/ blob' = blob)
        /\ wpc = "create"
    BY <1>3 DEF Background, Create
  <2>2. Elements(blob) \cap (base + 1 .. written) = {}
    <3> SUFFICES ASSUME NEW i \in DOMAIN blob, blob[i] \in base + 1 .. written
                 PROVE  FALSE
      BY DEF Elements
    <3>1. blob[i] <= base
      BY <2>1 DEF LostInv
    <3>2. base \in Nat
      BY <1>2, AppendAssumption DEF LostInv, CallInv, CountInv, TypeInv, TypeOK
    <3> QED
      BY <3>1, <3>2
  <2> QED
    BY <1>1, <2>1, <2>2 DEF LostInv, OnlyRefusedLost
<1>4. CASE Take
  <2>1. UNCHANGED <<blob, refused>> /\ chunk = <<>>
    BY <1>2, <1>4 DEF Background, Take, TypeInv, TypeOK
  <2>2. Elements(chunk) = {}
    BY <2>1 DEF Elements
  <2> QED
    BY <1>1, <1>2, <1>4, <2>1, <2>2, TakeElements DEF LostInv, OnlyRefusedLost
<1>5. CASE Send
  <2>1. stream' = stream
    BY <1>5 DEF Send
  <2>2. CASE blob' = blob
    <3>1. refused' = refused \cup Elements(chunk)
      BY <1>5, <2>2 DEF Background, Send
    <3> QED
      BY <1>1, <2>1, <2>2, <3>1 DEF LostInv, OnlyRefusedLost
  <2>3. CASE blob' # blob
    <3>1. refused' = refused /\ blob' = blob \o chunk
      BY <1>5, <2>3 DEF Background, Send
    <3>2. Elements(blob') = Elements(blob) \cup Elements(chunk)
      BY <1>2, <3>1, ConcatElements DEF TypeInv, Held
    <3> QED
      BY <1>1, <2>1, <3>1, <3>2 DEF LostInv, OnlyRefusedLost
  <2> QED
    BY <2>2, <2>3
<1>6. CASE Test \/ Finish \/ Wait \/ Park
  <2>1. UNCHANGED <<stream, chunk, blob, refused>>
    BY <1>6 DEF Background, Test, Finish, Wait, Park
  <2> QED
    BY <1>1, <2>1 DEF LostInv, OnlyRefusedLost
<1> QED
  BY <1>1, <1>3, <1>4, <1>5, <1>6 DEF Background, WorkerStep

\* Every step of the element loses only what is refused.
LEMMA LostStep == LostInv /\ [SinkNext]_sinkVars => LostInv'
<1> SUFFICES ASSUME LostInv, [SinkNext]_sinkVars PROVE LostInv'
  OBVIOUS
<1>0. CallInv' /\ TypeInv
  BY CallStep DEF LostInv, CallInv
<1>1. ASSUME NEW n \in Sizes, Render(n) PROVE LostInv'
  <2>1. Elements(stream') = Elements(stream) \cup (written + 1 .. written')
    BY <1>0, <1>1, AppendElements DEF Render
  <2>2. written' = written + n /\ n \in Nat /\ written \in Nat
    BY <1>0, <1>1, AppendGrows DEF Render
  <2>3. UNCHANGED <<base, refused, chunk, blob>> /\ (wpc' = "create" <=> wpc = "create")
    BY <1>1 DEF Render, AppendBytes, WakeWorker, history
  <2>4. base + 1 .. written' \subseteq (base + 1 .. written) \cup (written + 1 .. written')
    <3>1. base \in Nat
      BY <2>2 DEF LostInv, CallInv, CountInv
    <3> QED
      BY <2>2, <3>1
  <2>5. OnlyRefusedLost'
    BY <2>1, <2>3, <2>4 DEF LostInv, OnlyRefusedLost
  <2> QED
    BY <1>0, <2>3, <2>5 DEF LostInv
<1>2. CASE Reinit
  <2>1. base' = written /\ written' = written /\ blob' = blob
    BY <1>2 DEF Reinit, NewWorker
  <2>2. written \in Nat
    BY <1>0, AppendAssumption DEF TypeInv, TypeOK
  <2>3. base' + 1 .. written' = {}
    BY <2>1, <2>2
  <2>4. \A i \in DOMAIN blob : blob[i] \in 1 .. written
    BY <1>0, LenProperties, ElementOfSeq DEF TypeInv, Held
  <2>5. \A i \in DOMAIN blob' : blob'[i] <= base'
    BY <2>1, <2>2, <2>4
  <2> QED
    BY <1>0, <2>3, <2>5 DEF LostInv, OnlyRefusedLost
<1>3. CASE Background
  BY <1>0, <1>3, LostBackground DEF LostInv
<1>4. ASSUME UNCHANGED <<base, refused, stream, chunk, blob, written>>,
             wpc' = "create" <=> wpc = "create"
      PROVE  LostInv'
  BY <1>0, <1>4 DEF LostInv, OnlyRefusedLost
<1>5. CASE Eos \/ Stop \/ StartAgain \/ CallDone \/ InCall \/ UNCHANGED sinkVars
  BY <1>4, <1>5 DEF Eos, Stop, StartAgain, CallDone, RenderDone, EosDone, StopDone, StartDone,
                    InCall, BeginFlush, EndFlush, SetStopped, NotifyStop, Join, WakeWorker,
                    vars, history, sinkVars
<1> QED
  BY <1>1, <1>2, <1>3, <1>5 DEF SinkNext

\* A byte that is neither in the blob nor on its way was in a refused request.
THEOREM OnlyRefusedLostHolds == SinkSpec => []OnlyRefusedLost
<1>1. SinkInit => LostInv
  <2> SUFFICES ASSUME SinkInit PROVE LostInv
    OBVIOUS
  <2>1. base = 0 /\ written = 0 /\ blob = <<>>
    BY DEF SinkInit, Init
  <2>2. base + 1 .. written = {}
    BY <2>1
  <2> QED
    BY <2>1, <2>2, CallInit DEF LostInv, OnlyRefusedLost
<1>2. LostInv => OnlyRefusedLost
  BY DEF LostInv
<1> QED
  BY <1>1, <1>2, LostStep, PTL DEF SinkSpec

------------------------------------------------------------------------------
(* Falling asleep *)

\* A worker that has found the stream empty and has gone past line 45 has set
\* `finished', and only an append(), which ends the wait, takes it back.
SleepInv ==
    /\ TypeInv
    /\ wpc \in {"deciding", "parked"} => stream = <<>>
    /\ wpc \in {"wait", "deciding", "parked"} /\ stream = <<>> => finished

\* The worker does not fall asleep over content, nor before it has let flush() go.
THEOREM SleepsHolds == SinkSpec => []SleepsOnlyWhenFlushed
<1>1. SinkInit => SleepInv
  BY TypeInit DEF SinkInit, Init, SleepInv
<1>2. SleepInv /\ [SinkNext]_sinkVars => SleepInv'
  <2> SUFFICES ASSUME SleepInv, [SinkNext]_sinkVars PROVE SleepInv'
    OBVIOUS
  <2>0. TypeInv'
    BY UploaderStep, TypeStep, ReinitTypes DEF SleepInv
  <2>1. ASSUME NEW n \in Sizes, Render(n) PROVE SleepInv'
    <3>1. stream' # <<>>
      BY <2>1, AppendGrows DEF SleepInv, Render
    <3>2. wpc' \notin {"deciding", "parked"}
      BY <2>1 DEF Render, AppendBytes, StreamLockFree, WakeWorker
    <3> QED
      BY <2>0, <3>1, <3>2 DEF SleepInv
  <2>2. CASE Reinit
    BY <2>0, <2>2 DEF Reinit, NewWorker, SleepInv
  <2>3. CASE Background
    BY <2>0, <2>3 DEF Background, WorkerStep, Create, Test, Finish, Wait, Park, Take, Send, SleepInv
  <2>4. CASE InCall
    BY <2>0, <2>4 DEF InCall, EndFlush, SetStopped, NotifyStop, Join, WakeWorker, SleepInv
  <2>5. CASE Eos \/ Stop \/ StartAgain \/ CallDone \/ UNCHANGED sinkVars
    BY <2>0, <2>5 DEF Eos, Stop, StartAgain, CallDone, RenderDone, EosDone, StopDone, StartDone,
                      BeginFlush, vars, sinkVars, SleepInv
  <2> QED
    BY <2>1, <2>2, <2>3, <2>4, <2>5 DEF SinkNext
<1>3. SleepInv => SleepsOnlyWhenFlushed
  BY DEF SleepInv, SleepsOnlyWhenFlushed, TypeInv, TypeOK
<1> QED
  BY <1>1, <1>2, <1>3, PTL DEF SinkSpec
==============================================================================

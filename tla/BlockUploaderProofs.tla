------------------------- MODULE BlockUploaderProofs -------------------------
(***************************************************************************)
(* Proofs about BlockUploader, for any number of workers and blocks: its   *)
(* types; the order of the block list and of the blob; what destroy()      *)
(* leaves behind; where a block is on its way to the list; and, while the  *)
(* client only streams, the gate and the abstract blob.                    *)
(***************************************************************************)
EXTENDS BlockUploader, Base64Proofs, FiniteSetTheorems, TLAPS

\* A function on 1 .. n is a sequence of length n.
LEMMA FunctionIsSeq ==
    ASSUME NEW T, NEW n \in Nat, NEW f \in [1 .. n -> T]
    PROVE  f \in Seq(T) /\ Len(f) = n /\ DOMAIN f = 1 .. n
OBVIOUS

\* What Put Block List sends, and the list after its acknowledgement.
LEMMA BlockListShape ==
    ASSUME NEW list \in Seq(Item)
    PROVE  LET acked == [i \in DOMAIN list |-> [list[i] EXCEPT !.type = "committed"]] IN
           /\ Ids(list) \in Seq(Nat) /\ Len(Ids(list)) = Len(list)
           /\ \A i \in 1 .. Len(list) : Ids(list)[i] = list[i].id
           /\ acked \in Seq(Item) /\ Ids(acked) = Ids(list)
<1> DEFINE acked == [i \in DOMAIN list |-> [list[i] EXCEPT !.type = "committed"]]
<1>1. DOMAIN list = 1 .. Len(list) /\ Len(list) \in Nat
  OBVIOUS
<1>2. \A i \in 1 .. Len(list) : list[i] \in Item
  OBVIOUS
<1>3. \A i \in 1 .. Len(list) : list[i].id \in Nat /\ acked[i] \in Item /\ acked[i].id = list[i].id
  BY <1>1, <1>2 DEF Item
<1>4. Ids(list) \in [1 .. Len(list) -> Nat] /\ acked \in [1 .. Len(list) -> Item]
  BY <1>1, <1>3 DEF Ids
<1>5. /\ Ids(list) \in Seq(Nat) /\ Len(Ids(list)) = Len(list)
      /\ acked \in Seq(Item) /\ DOMAIN acked = 1 .. Len(list)
  BY <1>1, <1>4, FunctionIsSeq
<1>6. Ids(acked) = Ids(list)
  BY <1>1, <1>3, <1>5 DEF Ids
<1> QED
  BY <1>1, <1>5, <1>6 DEF Ids

\* The workers outside the gate; sem counts them.
Outside == {w \in Workers : wpc[w] \notin {"upload", "respond", "leave"}}
SemCount == sem = Cardinality(Outside)

TypeInv == TypeOK /\ SemCount

\* The steps of an uploader whatever calls its client makes: the element calls
\* flush() and destroy() where ClientCalls may name neither.
AnyStep == [Next]_vars \/ BeginFlush("flush") \/ BeginFlush("destroy")

\* A step of the specification is one of them.
LEMMA NextIsAny == [Next]_vars => AnyStep
BY DEF AnyStep

\* The workers outside the gate can be counted.
LEMMA OutsideFinite ==
    /\ IsFiniteSet(Outside)
    /\ Cardinality(Outside) \in 0 .. Cardinality(Workers)
<1>1. Outside \in SUBSET Workers
  BY DEF Outside
<1>2. /\ IsFiniteSet(Outside)
      /\ Cardinality(Outside) <= Cardinality(Workers)
  BY <1>1, FS_Subset, UploaderAssumption
<1>3. Cardinality(Outside) \in Nat
  BY <1>2, FS_CardinalityType
<1>4. Cardinality(Workers) \in Nat
  BY FS_CardinalityType, UploaderAssumption
<1> QED
  BY <1>2, <1>3, <1>4

\* The types hold initially, and sem is the number of workers.
LEMMA TypeInit == Init => TypeInv
<1> SUFFICES ASSUME Init PROVE TypeInv
  OBVIOUS
<1>1. Cardinality(Workers) \in Nat
  BY FS_CardinalityType, UploaderAssumption
<1>2. TypeOK
  <2>1. sem \in 0 .. Cardinality(Workers)
    BY <1>1 DEF Init
  <2>2. /\ pc \in [Committing -> ThreadAt]
        /\ after \in [Committing -> {"none", "flush", "destroy", "count", "timeout", "exit"}]
        /\ resp \in [Committing -> Nat]
    BY DEF Init, ThreadAt
  <2>3. job \in [Workers -> Nat] /\ wpc \in [Workers -> WorkerAt]
    BY DEF Init, WorkerAt
  <2>4. blockList \in Seq(Item) /\ reqs \in Seq(Nat) /\ resps \in Seq(Nat) /\ blob \in Seq(Nat)
    BY DEF Init, Reqs!Init, Resps!Init
  <2>5. /\ buffered \in Nat /\ nextId \in Nat \ {0} /\ nextCommitId \in Nat \ {0}
        /\ committedId \in Nat /\ window \subseteq Nat /\ staged \subseteq Nat
    BY DEF Init
  <2>6. reqsClosed \in BOOLEAN /\ respsClosed \in BOOLEAN
    BY DEF Init, Reqs!Init, Resps!Init
  <2>7. flushing \in BOOLEAN /\ raced \in BOOLEAN
    BY DEF Init
  <2> QED
    BY <2>1, <2>2, <2>3, <2>4, <2>5, <2>6, <2>7 DEF TypeOK
<1>3. Outside = Workers
  BY DEF Init, Outside
<1> QED
  BY <1>2, <1>3 DEF Init, TypeInv, SemCount

\* Every step keeps the types, and sem is decremented and incremented where a
\* worker enters and leaves the gate.
LEMMA TypeStep ==
    ASSUME TypeInv, AnyStep
    PROVE  TypeInv'
<1> USE DEF TypeInv, vars, stream, order, commit, channels, gate, worker, control, service, Goto, Advance, Committing
<1>0. Cardinality(Workers) \in Nat
  BY FS_CardinalityType, UploaderAssumption
<1>1. ASSUME NEW n \in FrameSizes, Buffer(n) PROVE TypeInv'
  <2>1. TypeOK'
    BY <1>0, <1>1, UploaderAssumption DEF Buffer, TypeOK, ThreadAt, CommitAt, WorkerAt, Item
  <2>2. Outside' = Outside
    BY <1>1 DEF Buffer, TypeOK, Outside
  <2> QED
    BY <1>1, <2>1, <2>2 DEF Buffer, SemCount
<1>2. ASSUME NEW n \in FrameSizes, UploadBlock(n) PROVE TypeInv'
  <2>1. TypeOK'
    BY <1>0, <1>2 DEF UploadBlock, Cut, Reqs!Push, TypeOK, ThreadAt, CommitAt, WorkerAt, Item
  <2>2. Outside' = Outside
    BY <1>2 DEF UploadBlock, Cut, Reqs!Push, TypeOK, Outside
  <2> QED
    BY <1>2, <2>1, <2>2 DEF UploadBlock, Cut, Reqs!Push, SemCount
<1>3. ASSUME NEW call \in {"flush", "destroy"}, BeginFlush(call) PROVE TypeInv'
  <2>1. TypeOK'
    <3>2. pc' \in [Committing -> ThreadAt]
      BY <1>3 DEF BeginFlush, TypeOK, ThreadAt
    <3>3. after' \in [Committing -> {"none", "flush", "destroy", "count", "timeout", "exit"}]
      BY <1>3 DEF BeginFlush, TypeOK
    <3>4. /\ buffered' \in Nat /\ nextId' \in Nat \ {0}
          /\ reqs' \in Seq(Nat) /\ reqsClosed' = reqsClosed
      <4>1. CASE buffered > 0 /\ Cut
        BY <4>1 DEF Cut, Reqs!Push, TypeOK
      <4>2. CASE UNCHANGED <<stream, reqs, reqsClosed>>
        BY <4>2 DEF TypeOK
      <4> QED
        BY <1>3, <4>1, <4>2 DEF BeginFlush
    <3> QED
      BY <1>3, <3>2, <3>3, <3>4 DEF BeginFlush, TypeOK
  <2>2. Outside' = Outside
    BY <1>3 DEF BeginFlush, Cut, Reqs!Push, TypeOK, Outside
  <2> QED
    BY <1>3, <2>1, <2>2 DEF BeginFlush, Cut, Reqs!Push, SemCount
<1>4. ASSUME WaitEmpty PROVE TypeInv'
  <2>1. TypeOK'
    BY <1>0, <1>4 DEF WaitEmpty, TypeOK, ThreadAt, CommitAt, WorkerAt, Item
  <2>2. Outside' = Outside
    BY <1>4 DEF WaitEmpty, TypeOK, Outside
  <2> QED
    BY <1>4, <2>1, <2>2 DEF WaitEmpty, SemCount
<1>5. ASSUME CloseReqs PROVE TypeInv'
  <2>1. TypeOK'
    BY <1>0, <1>5 DEF CloseReqs, Reqs!Close, TypeOK, ThreadAt, CommitAt, WorkerAt, Item
  <2>2. Outside' = Outside
    BY <1>5 DEF CloseReqs, Reqs!Close, TypeOK, Outside
  <2> QED
    BY <1>5, <2>1, <2>2 DEF CloseReqs, Reqs!Close, SemCount
<1>6. ASSUME CloseResps PROVE TypeInv'
  <2>1. TypeOK'
    BY <1>0, <1>6 DEF CloseResps, Resps!Close, TypeOK, ThreadAt, CommitAt, WorkerAt, Item
  <2>2. Outside' = Outside
    BY <1>6 DEF CloseResps, Resps!Close, TypeOK, Outside
  <2> QED
    BY <1>6, <2>1, <2>2 DEF CloseResps, Resps!Close, SemCount
<1>7. ASSUME Destroyed PROVE TypeInv'
  <2>1. TypeOK'
    BY <1>0, <1>7 DEF Destroyed, TypeOK, ThreadAt, CommitAt, WorkerAt, Item
  <2>2. Outside' = Outside
    BY <1>7 DEF Destroyed, TypeOK, Outside
  <2> QED
    BY <1>7, <2>1, <2>2 DEF Destroyed, SemCount
<1>8. ASSUME NEW w \in Workers, TakeJob(w) PROVE TypeInv'
  <2>1. TypeOK'
    <3>1. PICK id \in {reqs[i] : i \in DOMAIN reqs} :
            Reqs!Pop(id) /\ job' = [job EXCEPT ![w] = id]
      BY <1>8 DEF TakeJob
    <3>2. id \in Nat /\ reqs' \in Seq(Nat) /\ reqsClosed' = reqsClosed
      BY <3>1 DEF TypeOK, Reqs!Pop
    <3> QED
      BY <1>0, <1>8, <3>1, <3>2 DEF TakeJob, TypeOK, WorkerAt
  <2>2. Outside' = Outside
    BY <1>8 DEF TakeJob, Reqs!Pop, TypeOK, Outside
  <2> QED
    BY <1>8, <2>1, <2>2 DEF TakeJob, Reqs!Pop, SemCount
<1>9. ASSUME NEW w \in Workers, ExitWorker(w) PROVE TypeInv'
  <2>1. TypeOK'
    BY <1>0, <1>9 DEF ExitWorker, TypeOK, ThreadAt, CommitAt, WorkerAt, Item
  <2>2. Outside' = Outside
    BY <1>9 DEF ExitWorker, TypeOK, Outside
  <2> QED
    BY <1>9, <2>1, <2>2 DEF ExitWorker, SemCount
<1>10. ASSUME NEW w \in Workers, StageBlock(w) PROVE TypeInv'
  <2>1. TypeOK'
    BY <1>0, <1>10 DEF StageBlock, TypeOK, ThreadAt, CommitAt, WorkerAt, Item
  <2>2. Outside' = Outside
    BY <1>10 DEF StageBlock, TypeOK, Outside
  <2> QED
    BY <1>10, <2>1, <2>2 DEF StageBlock, SemCount
<1>11. ASSUME NEW w \in Workers, Respond(w) PROVE TypeInv'
  <2>1. TypeOK'
    BY <1>0, <1>11 DEF Respond, Resps!Push, TypeOK, ThreadAt, CommitAt, WorkerAt, Item
  <2>2. Outside' = Outside
    BY <1>11 DEF Respond, Resps!Push, TypeOK, Outside
  <2> QED
    BY <1>11, <2>1, <2>2 DEF Respond, Resps!Push, SemCount
<1>12. ASSUME NEW t \in Committing, SkipCommit(t) PROVE TypeInv'
  <2>1. TypeOK'
    BY <1>0, <1>12 DEF SkipCommit, Return, TypeOK, ThreadAt, CommitAt, WorkerAt, Item
  <2>2. Outside' = Outside
    BY <1>12 DEF SkipCommit, Return, TypeOK, Outside
  <2> QED
    BY <1>12, <2>1, <2>2 DEF SkipCommit, Return, SemCount
<1>13. ASSUME NEW t \in Committing, NeedCommit(t) PROVE TypeInv'
  <2>1. TypeOK'
    BY <1>0, <1>13 DEF NeedCommit, TypeOK, ThreadAt, CommitAt, WorkerAt, Item
  <2>2. Outside' = Outside
    BY <1>13 DEF NeedCommit, TypeOK, Outside
  <2> QED
    BY <1>13, <2>1, <2>2 DEF NeedCommit, SemCount
<1>14. ASSUME NEW t \in Committing, RaiseGate(t) PROVE TypeInv'
  <2>1. TypeOK'
    BY <1>0, <1>14 DEF RaiseGate, AwaitQuiet, TypeOK, ThreadAt, CommitAt, WorkerAt, Item
  <2>2. Outside' = Outside
    BY <1>14 DEF RaiseGate, AwaitQuiet, TypeOK, Outside
  <2> QED
    BY <1>14, <2>1, <2>2 DEF RaiseGate, AwaitQuiet, SemCount
<1>15. ASSUME NEW t \in Committing, Recheck(t) PROVE TypeInv'
  <2>1. TypeOK'
    BY <1>0, <1>15 DEF Recheck, AwaitQuiet, TypeOK, ThreadAt, CommitAt, WorkerAt, Item
  <2>2. Outside' = Outside
    BY <1>15 DEF Recheck, AwaitQuiet, TypeOK, Outside
  <2> QED
    BY <1>15, <2>1, <2>2 DEF Recheck, AwaitQuiet, SemCount
<1>16. ASSUME NEW t \in Committing, TestResps(t) PROVE TypeInv'
  <2>1. TypeOK'
    <3>1. raced' \in BOOLEAN
      BY <1>16, Zenon DEF TestResps, TouchOrder, TypeOK
    <3> QED
      BY <1>0, <1>16, <3>1 DEF TestResps, TypeOK, ThreadAt, CommitAt
  <2>2. Outside' = Outside
    BY <1>16 DEF TestResps, TouchOrder, TypeOK, Outside
  <2> QED
    BY <1>16, <2>1, <2>2 DEF TestResps, TouchOrder, SemCount
<1>17. ASSUME NEW t \in Committing, PopResponse(t) PROVE TypeInv'
  <2>1. TypeOK'
    <3>1. raced' \in BOOLEAN
      BY <1>17, Zenon DEF PopResponse, TouchOrder, TypeOK
    <3>2. PICK id \in {resps[i] : i \in DOMAIN resps} :
            Resps!Pop(id) /\ resp' = [resp EXCEPT ![t] = id]
      BY <1>17 DEF PopResponse
    <3>3. id \in Nat /\ resps' \in Seq(Nat) /\ respsClosed' = respsClosed
      BY <3>2 DEF TypeOK, Resps!Pop
    <3> QED
      BY <1>0, <1>17, <3>1, <3>2, <3>3 DEF PopResponse, TypeOK, ThreadAt, CommitAt
  <2>2. Outside' = Outside
    BY <1>17 DEF PopResponse, TouchOrder, Resps!Pop, TypeOK, Outside
  <2> QED
    BY <1>17, <2>1, <2>2 DEF PopResponse, TouchOrder, Resps!Pop, SemCount
<1>18. ASSUME NEW t \in Committing, Insert(t) PROVE TypeInv'
  <2>1. TypeOK'
    BY <1>0, <1>18 DEF Insert, TypeOK, ThreadAt, CommitAt, WorkerAt, Item
  <2>2. Outside' = Outside
    BY <1>18 DEF Insert, TypeOK, Outside
  <2> QED
    BY <1>18, <2>1, <2>2 DEF Insert, SemCount
<1>19. ASSUME NEW t \in Committing, AppendItem(t) PROVE TypeInv'
  <2>1. TypeOK'
    BY <1>0, <1>19 DEF AppendItem, TypeOK, ThreadAt, CommitAt, WorkerAt, Item
  <2>2. Outside' = Outside
    BY <1>19 DEF AppendItem, TypeOK, Outside
  <2> QED
    BY <1>19, <2>1, <2>2 DEF AppendItem, SemCount
<1>20. ASSUME NEW t \in Committing, RemoveFront(t) PROVE TypeInv'
  <2>1. TypeOK'
    <3>1. window' \in SUBSET Nat
      <4>1. window' \subseteq window
        BY <1>20, Zenon DEF RemoveFront
      <4> QED
        BY <4>1 DEF TypeOK
    <3>2. nextCommitId' \in Nat \ {0}
      BY <1>20 DEF RemoveFront, TypeOK
    <3>3. pc' \in [Committing -> ThreadAt]
      BY <1>20 DEF RemoveFront, TypeOK, ThreadAt, CommitAt
    <3> QED
      BY <1>20, <3>1, <3>2, <3>3, Zenon DEF RemoveFront, TypeOK
  <2>2. Outside' = Outside
    BY <1>20 DEF RemoveFront, TypeOK, Outside
  <2> QED
    BY <1>20, <2>1, <2>2 DEF RemoveFront, SemCount
<1>21. ASSUME NEW t \in Committing, EndBlock(t) PROVE TypeInv'
  <2>1. TypeOK'
    BY <1>0, <1>21 DEF EndBlock, TypeOK, ThreadAt, CommitAt, WorkerAt, Item
  <2>2. Outside' = Outside
    BY <1>21 DEF EndBlock, TypeOK, Outside
  <2> QED
    BY <1>21, <2>1, <2>2 DEF EndBlock, SemCount
<1>22. ASSUME NEW t \in Committing, PutBlockList(t) PROVE TypeInv'
  <2>1. TypeOK'
    <3>1. Ids(blockList) \in Seq(Nat)
      BY BlockListShape DEF TypeOK
    <3> QED
      BY <1>22, <3>1 DEF PutBlockList, TypeOK, ThreadAt, CommitAt
  <2>2. Outside' = Outside
    BY <1>22 DEF PutBlockList, Ids, TypeOK, Outside
  <2> QED
    BY <1>22, <2>1, <2>2 DEF PutBlockList, Ids, SemCount
<1>23. ASSUME NEW t \in Committing, Acknowledge(t) PROVE TypeInv'
  <2>1. TypeOK'
    <3>2. blockList' \in Seq(Item)
      BY <1>23, BlockListShape DEF Acknowledge, TypeOK
    <3>3. committedId' \in Nat
      BY <1>23 DEF Acknowledge, TypeOK
    <3> QED
      BY <1>23, <3>2, <3>3 DEF Acknowledge, TypeOK, ThreadAt, CommitAt
  <2>2. Outside' = Outside
    BY <1>23 DEF Acknowledge, TypeOK, Outside
  <2> QED
    BY <1>23, <2>1, <2>2 DEF Acknowledge, SemCount
<1>24. ASSUME NEW t \in Committing, LowerGate(t) PROVE TypeInv'
  <2>1. TypeOK'
    BY <1>0, <1>24 DEF LowerGate, Return, TypeOK, ThreadAt, CommitAt, WorkerAt, Item
  <2>2. Outside' = Outside
    BY <1>24 DEF LowerGate, Return, TypeOK, Outside
  <2> QED
    BY <1>24, <2>1, <2>2 DEF LowerGate, Return, SemCount
<1>25. ASSUME NEW t \in Committing, ThrowInCommit(t) PROVE TypeInv'
  <2>1. TypeOK'
    BY <1>0, <1>25 DEF ThrowInCommit, TypeOK, ThreadAt, CommitAt, WorkerAt, Item
  <2>2. Outside' = Outside
    BY <1>25 DEF ThrowInCommit, TypeOK, Outside
  <2> QED
    BY <1>25, <2>1, <2>2 DEF ThrowInCommit, SemCount
<1>26. ASSUME CloseCommitter PROVE TypeInv'
  <2>1. TypeOK'
    BY <1>0, <1>26 DEF CloseCommitter, BeginCommit, TypeOK, ThreadAt, CommitAt, WorkerAt, Item
  <2>2. Outside' = Outside
    BY <1>26 DEF CloseCommitter, BeginCommit, TypeOK, Outside
  <2> QED
    BY <1>26, <2>1, <2>2 DEF CloseCommitter, BeginCommit, SemCount
<1>27. ASSUME Interval PROVE TypeInv'
  <2>1. TypeOK'
    BY <1>0, <1>27 DEF Interval, BeginCommit, TypeOK, ThreadAt, CommitAt, WorkerAt, Item
  <2>2. Outside' = Outside
    BY <1>27 DEF Interval, BeginCommit, TypeOK, Outside
  <2> QED
    BY <1>27, <2>1, <2>2 DEF Interval, BeginCommit, SemCount
<1>28. ASSUME MoreResponses PROVE TypeInv'
  <2>1. TypeOK'
    BY <1>0, <1>28 DEF MoreResponses, BeginCommit, TypeOK, ThreadAt, CommitAt, WorkerAt, Item
  <2>2. Outside' = Outside
    BY <1>28 DEF MoreResponses, BeginCommit, TypeOK, Outside
  <2> QED
    BY <1>28, <2>1, <2>2 DEF MoreResponses, BeginCommit, SemCount
<1>29. ASSUME NEW w \in Workers, EnterJob(w) PROVE TypeInv'
  <2>1. w \in Outside /\ Outside' = Outside \ {w}
    BY <1>29 DEF EnterJob, TypeOK, Outside
  <2>2. Cardinality(Outside') = Cardinality(Outside) - 1
    BY <2>1, OutsideFinite, FS_RemoveElement
  <2>3. SemCount'
    BY <1>29, <2>2 DEF EnterJob, SemCount
  <2>4. sem' \in 0 .. Cardinality(Workers)
    <3>1. Cardinality(Outside') \in Nat
      BY <2>1, OutsideFinite, FS_RemoveElement, FS_CardinalityType
    <3> QED
      BY <1>0, <2>2, <2>3, <3>1, OutsideFinite DEF SemCount
  <2>5. TypeOK'
    BY <1>29, <2>4 DEF EnterJob, TypeOK, WorkerAt
  <2> QED
    BY <2>3, <2>5
<1>30. ASSUME NEW w \in Workers, LeaveJob(w) PROVE TypeInv'
  <2>1. w \notin Outside /\ Outside' = Outside \cup {w}
    BY <1>30 DEF LeaveJob, TypeOK, Outside
  <2>2. Cardinality(Outside') = Cardinality(Outside) + 1
    BY <2>1, OutsideFinite, FS_AddElement
  <2>3. SemCount'
    BY <1>30, <2>2 DEF LeaveJob, SemCount
  <2>4. sem' \in 0 .. Cardinality(Workers)
    <3>1. Outside' \in SUBSET Workers
      BY <2>1 DEF Outside
    <3>2. Cardinality(Outside') <= Cardinality(Workers)
      BY <3>1, FS_Subset, UploaderAssumption
    <3> QED
      BY <1>0, <2>2, <2>3, <3>2, OutsideFinite DEF SemCount
  <2>5. TypeOK'
    BY <1>30, <2>4 DEF LeaveJob, TypeOK, WorkerAt, ThreadAt, CommitAt
  <2> QED
    BY <2>3, <2>5
<1>31. CASE UNCHANGED vars
  BY <1>31 DEF TypeOK, SemCount, Outside
<1> HIDE DEF TypeInv, vars, stream, order, commit, channels, gate, worker, control, service, Goto, Advance
<1>32. ASSUME NEW t \in Committing, DoCommit(t) PROVE TypeInv'
  BY <1>32, <1>12, <1>13, <1>14, <1>15, <1>16, <1>17, <1>18, <1>19, <1>20,
     <1>21, <1>22, <1>23, <1>24, <1>25 DEF DoCommit, CommitRound
<1>33. ASSUME NEW call \in ClientCalls, BeginFlush(call) PROVE TypeInv'
  BY <1>3, <1>33, UploaderAssumption
<1> QED
  BY <1>1, <1>2, <1>3, <1>4, <1>5, <1>6, <1>7, <1>8, <1>9, <1>10, <1>11,
     <1>26, <1>27, <1>28, <1>29, <1>30, <1>31, <1>32, <1>33
     DEF AnyStep, Next, Client, Upload, Worker, Round, Committer

\* The types of all variables; sem in particular counts the workers outside the
\* gate and stays between 0 and worker_count (enterJob(), leaveJob()).
THEOREM TypeCorrect == Spec => []TypeOK
<1>1. TypeInv /\ [Next]_vars => TypeInv'
  BY TypeStep, NextIsAny
<1>2. TypeInv => TypeOK
  BY DEF TypeInv
<1> QED
  BY TypeInit, <1>1, <1>2, PTL DEF Spec

------------------------------------------------------------------------------
(* The blob is a prefix of the stream while commit state is not raced over.  *)
(* At most one thread is then in unlocked commit state; the list holds the   *)
(* blocks below nextCommitId, and that block too between the append and the  *)
(* increment (lines 174-178); and an acknowledged list is the blob.          *)

Prefix(n) == [i \in 1 .. n |-> i]
Unlocked(t) == pc[t] \in {"insert", "loop", "remove", "put", "ack"}

OneInside == \A t, u \in Committing : Unlocked(t) /\ Unlocked(u) => t = u
ListInOrder ==
    /\ (\A t \in Committing : pc[t] # "remove") => Ids(blockList) = Prefix(nextCommitId - 1)
    /\ (\E t \in Committing : pc[t] = "remove") => Ids(blockList) = Prefix(nextCommitId)
BlobInList ==
    /\ blob = Prefix(Len(blob))
    /\ committedId <= Len(blob)
    /\ Len(blob) < nextCommitId
    /\ \A t \in Committing : pc[t] = "ack" => Len(blob) = nextCommitId - 1

ListInv == ~raced => OneInside /\ ListInOrder /\ BlobInList

\* The first n numbers, and the next one.
LEMMA PrefixShape ==
    ASSUME NEW n \in Nat
    PROVE  /\ Prefix(n) \in Seq(Nat) /\ Len(Prefix(n)) = n
           /\ Append(Prefix(n), n + 1) = Prefix(n + 1)
BY DEF Prefix

\* Appending an item appends its id.
LEMMA IdsAppend ==
    ASSUME NEW list \in Seq(Item), NEW item \in Item
    PROVE  Ids(Append(list, item)) = Append(Ids(list), item.id)
<1>1. Len(list) \in Nat /\ Ids(list) \in Seq(Nat) /\ Len(Ids(list)) = Len(list)
  <2>1. Ids(list) \in Seq(Nat) /\ Len(Ids(list)) = Len(list)
    BY BlockListShape, Zenon
  <2> QED
    BY <2>1
<1>2. DOMAIN Ids(Append(list, item)) = 1 .. Len(list) + 1
  BY DEF Ids
<1>3. DOMAIN Append(Ids(list), item.id) = 1 .. Len(list) + 1
  BY <1>1
<1>4. ASSUME NEW i \in 1 .. Len(list) + 1
      PROVE  Ids(Append(list, item))[i] = Append(Ids(list), item.id)[i]
  <2>1. Ids(Append(list, item))[i] = Append(list, item)[i].id
    BY DEF Ids
  <2>2. CASE i = Len(list) + 1
    BY <1>1, <2>1, <2>2
  <2>3. CASE i \in 1 .. Len(list)
    BY <1>1, <2>1, <2>3 DEF Ids
  <2> QED
    BY <1>1, <2>2, <2>3
<1>5. Append(Ids(list), item.id) \in Seq(Nat)
  BY <1>1 DEF Item
<1>6. Ids(Append(list, item)) = [i \in 1 .. Len(list) + 1 |-> Ids(Append(list, item))[i]]
  BY <1>2 DEF Ids
<1>7. Append(Ids(list), item.id) = [i \in 1 .. Len(list) + 1 |-> Append(Ids(list), item.id)[i]]
  BY <1>3, <1>5
<1> QED
  BY <1>4, <1>6, <1>7

\* Initially the list and the blob are empty.
LEMMA ListInit == Init => ListInv
<1> SUFFICES ASSUME Init PROVE OneInside /\ ListInOrder /\ BlobInList
  BY DEF ListInv
<1>1. \A t \in Committing : ~Unlocked(t)
  BY DEF Init, Unlocked
<1>2. Ids(blockList) = Prefix(nextCommitId - 1)
  BY DEF Init, Ids, Prefix
<1>3. blob = Prefix(Len(blob)) /\ committedId <= Len(blob) /\ Len(blob) < nextCommitId
  BY DEF Init, Prefix
<1> QED
  BY <1>1, <1>2, <1>3 DEF OneInside, ListInOrder, BlobInList, Unlocked

\* A step that leaves commit state and the blob alone and in which a thread, if
\* it moves at all, moves out of the unlocked section (never from "remove").
LEMMA ListFrame ==
    ASSUME ListInv, UNCHANGED <<order, raced, blob>>,
           \A t \in Committing :
             pc'[t] = pc[t] \/ (pc[t] # "remove" /\ ~Unlocked(t)')
    PROVE  ListInv'
<1>1. UNCHANGED <<nextCommitId, committedId, blockList, raced, blob>>
  BY DEF order
<1>2. OneInside => OneInside'
  BY DEF OneInside, Unlocked
<1>3. ListInOrder => ListInOrder'
  BY <1>1 DEF ListInOrder, Unlocked, Ids
<1>4. BlobInList => BlobInList'
  BY <1>1 DEF BlobInList, Unlocked
<1> QED
  BY <1>1, <1>2, <1>3, <1>4 DEF ListInv

\* Every step keeps the list in order and the blob in it.
LEMMA ListStep ==
    ASSUME TypeOK, ListInv, AnyStep
    PROVE  ListInv'
<1> USE DEF stream, order, commit, channels, gate, worker, control, service, Goto
<1>0. pc \in [Committing -> ThreadAt]
  BY DEF TypeOK
<1>1. ASSUME Client \/ BeginFlush("flush") \/ BeginFlush("destroy") PROVE ListInv'
  <2>1. UNCHANGED <<order, raced, blob>>
    BY <1>1 DEF Client, Upload, Buffer, UploadBlock, Cut, BeginFlush, WaitEmpty, CloseReqs,
                CloseResps, Destroyed
  <2>2. \A t \in Committing :
          pc'[t] = pc[t] \/ (pc[t] # "remove" /\ ~Unlocked(t)')
    BY <1>0, <1>1 DEF Client, Upload, Buffer, UploadBlock, Cut, BeginFlush, WaitEmpty, CloseReqs,
                CloseResps, Destroyed, Committing, Unlocked
  <2> QED
    BY <2>1, <2>2, ListFrame
<1>2. ASSUME NEW w \in Workers, Worker(w) PROVE ListInv'
  <2>1. UNCHANGED <<order, raced, blob>>
    BY <1>2 DEF Worker, Round, TakeJob, ExitWorker, EnterJob, StageBlock, Respond, LeaveJob
  <2>2. \A t \in Committing :
          pc'[t] = pc[t] \/ (pc[t] # "remove" /\ ~Unlocked(t)')
    BY <1>0, <1>2 DEF Worker, Round, TakeJob, ExitWorker, EnterJob, StageBlock, Respond,
                LeaveJob, Unlocked
  <2> QED
    BY <2>1, <2>2, ListFrame
<1>3. ASSUME CloseCommitter \/ Interval \/ MoreResponses PROVE ListInv'
  <2>1. UNCHANGED <<order, raced, blob>>
    BY <1>3 DEF CloseCommitter, Interval, MoreResponses
  <2>2. \A t \in Committing :
          pc'[t] = pc[t] \/ (pc[t] # "remove" /\ ~Unlocked(t)')
    BY <1>0, <1>3 DEF CloseCommitter, Interval, MoreResponses, BeginCommit, Committing, Unlocked
  <2> QED
    BY <2>1, <2>2, ListFrame
<1>4. ASSUME NEW t \in Committing,
             SkipCommit(t) \/ NeedCommit(t) \/ RaiseGate(t) \/ Recheck(t)
               \/ EndBlock(t) \/ LowerGate(t) \/ ThrowInCommit(t)
      PROVE  ListInv'
  <2>1. UNCHANGED <<order, raced, blob>>
    BY <1>4 DEF SkipCommit, NeedCommit, RaiseGate, Recheck, EndBlock, LowerGate, ThrowInCommit
  <2>2. \A u \in Committing :
          pc'[u] = pc[u] \/ (pc[u] # "remove" /\ ~Unlocked(u)')
    BY <1>0, <1>4 DEF SkipCommit, NeedCommit, RaiseGate, Recheck, EndBlock, LowerGate,
                ThrowInCommit, Return, AwaitQuiet, Unlocked
  <2> QED
    BY <2>1, <2>2, ListFrame
\* entering the unlocked section
<1>5. ASSUME NEW t \in Committing, TestResps(t) \/ PopResponse(t) PROVE ListInv'
  <2>1. CASE resps # <<>> /\ TestResps(t)
    <3>1. UNCHANGED <<order, raced, blob>>
      BY <2>1 DEF TestResps
    <3>2. \A u \in Committing :
            pc'[u] = pc[u] \/ (pc[u] # "remove" /\ ~Unlocked(u)')
      BY <1>0, <2>1 DEF TestResps, Unlocked
    <3> QED
      BY <3>1, <3>2, ListFrame
  <2>2. CASE (resps = <<>> /\ TestResps(t)) \/ PopResponse(t)
    <3>1. /\ TouchOrder(t) /\ pc[t] \in {"drain", "pop", "popFor"}
          /\ pc' = [pc EXCEPT ![t] = "put"] \/ pc' = [pc EXCEPT ![t] = "insert"]
          /\ UNCHANGED <<nextCommitId, committedId, blockList, blob>>
      BY <2>2 DEF TestResps, PopResponse
    <3>2. SUFFICES ASSUME ~raced' PROVE (OneInside /\ ListInOrder /\ BlobInList)'
      BY DEF ListInv
    <3>3. ~raced /\ \A u \in Committing \ {t} : ~Unlocked(u)
      BY <3>1, <3>2, Zenon DEF TouchOrder, Unlocked
    <3>4. OneInside /\ ListInOrder /\ BlobInList
      BY <3>3 DEF ListInv
    <3>5. \A u \in Committing : pc[u] # "remove" /\ pc'[u] # "remove" /\ pc'[u] # "ack"
      BY <1>0, <3>1, <3>3 DEF Unlocked
    <3>6. OneInside'
      BY <1>0, <3>1, <3>3 DEF OneInside, Unlocked
    <3>7. ListInOrder'
      BY <3>1, <3>4, <3>5 DEF ListInOrder, Ids
    <3>8. BlobInList'
      BY <3>1, <3>4, <3>5 DEF BlobInList
    <3> QED
      BY <3>6, <3>7, <3>8
  <2> QED
    BY <1>5, <2>1, <2>2
\* inside it
<1>6. ASSUME NEW t \in Committing, Insert(t) PROVE ListInv'
  <2>1. /\ pc[t] = "insert" /\ pc' = [pc EXCEPT ![t] = "loop"]
        /\ UNCHANGED <<nextCommitId, committedId, blockList, raced, blob>>
    BY <1>6 DEF Insert
  <2>2. OneInside => OneInside'
    BY <1>0, <2>1 DEF OneInside, Unlocked
  <2>3. ListInOrder => ListInOrder'
    BY <1>0, <2>1 DEF ListInOrder, Ids
  <2>4. BlobInList => BlobInList'
    BY <1>0, <2>1 DEF BlobInList
  <2> QED
    BY <2>1, <2>2, <2>3, <2>4 DEF ListInv
<1>7. ASSUME NEW t \in Committing, AppendItem(t) PROVE ListInv'
  <2>1. /\ pc[t] = "loop" /\ pc' = [pc EXCEPT ![t] = "remove"]
        /\ blockList' = Append(blockList, [id |-> nextCommitId, type |-> "latest"])
        /\ UNCHANGED <<nextCommitId, committedId, raced, blob>>
    BY <1>7 DEF AppendItem
  <2>2. SUFFICES ASSUME ~raced PROVE (OneInside /\ ListInOrder /\ BlobInList)'
    BY <2>1 DEF ListInv
  <2>3. OneInside /\ ListInOrder /\ BlobInList
    BY <2>2 DEF ListInv
  <2>4. \A u \in Committing : pc[u] # "remove"
    BY <1>0, <2>1, <2>3 DEF OneInside, Unlocked
  <2>5. Ids(blockList') = Append(Ids(blockList), nextCommitId)
    <3>1. [id |-> nextCommitId, type |-> "latest"] \in Item
      BY DEF TypeOK, Item
    <3> QED
      BY <2>1, <3>1, IdsAppend DEF TypeOK
  <2>6. nextCommitId - 1 \in Nat
    BY DEF TypeOK
  <2>7. Append(Prefix(nextCommitId - 1), nextCommitId) = Prefix(nextCommitId)
    <3>1. (nextCommitId - 1) + 1 = nextCommitId
      BY DEF TypeOK
    <3> QED
      BY <2>6, <3>1, PrefixShape
  <2>8. Ids(blockList') = Prefix(nextCommitId)
    BY <2>3, <2>4, <2>5, <2>7 DEF ListInOrder
  <2>9. ListInOrder'
    BY <1>0, <2>1, <2>8 DEF ListInOrder, Ids, Prefix
  <2>10. OneInside' /\ BlobInList'
    BY <1>0, <2>1, <2>3 DEF OneInside, BlobInList, Unlocked
  <2> QED
    BY <2>9, <2>10
<1>8. ASSUME NEW t \in Committing, RemoveFront(t) PROVE ListInv'
  <2>1. /\ pc[t] = "remove" /\ pc' = [pc EXCEPT ![t] = "loop"]
        /\ nextCommitId' = nextCommitId + 1
        /\ UNCHANGED <<committedId, blockList, raced, blob>>
    BY <1>8 DEF RemoveFront
  <2>2. SUFFICES ASSUME ~raced PROVE (OneInside /\ ListInOrder /\ BlobInList)'
    BY <2>1 DEF ListInv
  <2>3. OneInside /\ ListInOrder /\ BlobInList
    BY <2>2 DEF ListInv
  <2>4. \A u \in Committing : pc'[u] # "remove" /\ pc'[u] # "ack"
    BY <1>0, <2>1, <2>3 DEF OneInside, Unlocked
  <2>5. ListInOrder'
    <3>1. Ids(blockList) = Prefix(nextCommitId)
      BY <2>1, <2>3 DEF ListInOrder
    <3>2. nextCommitId' - 1 = nextCommitId
      BY <2>1 DEF TypeOK
    <3> QED
      BY <2>1, <2>4, <3>1, <3>2 DEF ListInOrder, Ids, Prefix
  <2>6. OneInside'
    BY <1>0, <2>1, <2>3 DEF OneInside, Unlocked
  <2>7. BlobInList'
    BY <2>1, <2>3, <2>4 DEF BlobInList, TypeOK
  <2> QED
    BY <2>5, <2>6, <2>7
<1>9. ASSUME NEW t \in Committing, PutBlockList(t) PROVE ListInv'
  <2>1. /\ pc[t] = "put" /\ blob' = Ids(blockList)
        /\ pc' = pc \/ pc' = [pc EXCEPT ![t] = "ack"]
        /\ UNCHANGED <<nextCommitId, committedId, blockList, raced>>
    BY <1>9 DEF PutBlockList
  <2>2. SUFFICES ASSUME ~raced PROVE (OneInside /\ ListInOrder /\ BlobInList)'
    BY <2>1 DEF ListInv
  <2>3. OneInside /\ ListInOrder /\ BlobInList
    BY <2>2 DEF ListInv
  <2>4. \A u \in Committing : pc[u] # "remove" /\ pc'[u] # "remove"
    BY <1>0, <2>1, <2>3 DEF OneInside, Unlocked
  <2>5. blob' = Prefix(nextCommitId - 1)
    BY <2>1, <2>3, <2>4 DEF ListInOrder
  <2>6. blob' = Prefix(Len(blob')) /\ Len(blob') = nextCommitId - 1
    <3>1. nextCommitId - 1 \in Nat
      BY DEF TypeOK
    <3> QED
      BY <2>5, <3>1, PrefixShape
  <2>7. BlobInList'
    BY <2>1, <2>3, <2>6 DEF BlobInList, TypeOK, Prefix
  <2>8. ListInOrder'
    BY <2>1, <2>3, <2>4 DEF ListInOrder, Ids, Prefix
  <2>9. OneInside'
    BY <1>0, <2>1, <2>3 DEF OneInside, Unlocked
  <2> QED
    BY <2>7, <2>8, <2>9
<1>10. ASSUME NEW t \in Committing, Acknowledge(t) PROVE ListInv'
  <2>1. /\ pc[t] = "ack" /\ pc' = [pc EXCEPT ![t] = "lower"]
        /\ committedId' = nextCommitId - 1
        /\ UNCHANGED <<nextCommitId, raced, blob>>
    BY <1>10 DEF Acknowledge
  <2>2. Ids(blockList') = Ids(blockList)
    BY <1>10, BlockListShape DEF Acknowledge, TypeOK
  <2>3. SUFFICES ASSUME ~raced PROVE (OneInside /\ ListInOrder /\ BlobInList)'
    BY <2>1 DEF ListInv
  <2>4. OneInside /\ ListInOrder /\ BlobInList
    BY <2>3 DEF ListInv
  <2>5. \A u \in Committing : pc[u] # "remove" /\ pc'[u] # "remove"
    BY <1>0, <2>1, <2>4 DEF OneInside, Unlocked
  <2>6. \A u \in Committing : pc'[u] # "ack"
    BY <1>0, <2>1, <2>4 DEF OneInside, Unlocked
  <2>7. ListInOrder'
    BY <2>1, <2>2, <2>4, <2>5 DEF ListInOrder, Prefix
  <2>8. BlobInList'
    BY <2>1, <2>4, <2>6 DEF BlobInList, TypeOK, Prefix
  <2>9. OneInside'
    BY <1>0, <2>1, <2>4 DEF OneInside, Unlocked
  <2> QED
    BY <2>7, <2>8, <2>9
<1>11. CASE UNCHANGED vars
  BY <1>11, ListFrame DEF vars
<1>12. ASSUME NEW t \in Committing, DoCommit(t) PROVE ListInv'
  BY <1>12, <1>4, <1>5, <1>6, <1>7, <1>8, <1>9, <1>10 DEF DoCommit, CommitRound
<1> QED
  BY <1>1, <1>2, <1>3, <1>11, <1>12 DEF AnyStep, Next, Committer, Committing

\* A blob in the list is a prefix of the stream.
LEMMA PrefixUse == ListInv => BlobIsPrefix
BY DEF ListInv, BlobInList, BlobIsPrefix, Prefix

\* The blob a reader sees is a prefix of the stream (line 172 and the list of
\* line 201), as long as flush() does not race with the committer.
THEOREM BlobIsPrefixHolds == Spec => []BlobIsPrefix
BY TypeCorrect, ListInit, ListStep, NextIsAny, PrefixUse, PTL DEF Spec

\* A step of the uploader adds to the blob, as long as commit state is not raced
\* over: the list of a commit goes on where the last one ended.
LEMMA GrowsStep ==
    ASSUME TypeOK, ListInv, AnyStep
    PROVE  ~raced' => /\ Len(blob) <= Len(blob')
                      /\ \A i \in DOMAIN blob : blob'[i] = blob[i]
<1>1. CASE blob' = blob
  BY <1>1 DEF TypeOK
<1>2. CASE \E t \in Committing : PutBlockList(t)
  <2>1. PICK t \in Committing : PutBlockList(t)
    BY <1>2
  <2>2. /\ pc[t] = "put" /\ blob' = Ids(blockList)
        /\ UNCHANGED <<nextCommitId, raced>>
    BY <2>1 DEF PutBlockList, commit, order
  <2>3. SUFFICES ASSUME ~raced PROVE /\ Len(blob) <= Len(blob')
                                     /\ \A i \in DOMAIN blob : blob'[i] = blob[i]
    BY <2>2
  <2>4. OneInside /\ ListInOrder /\ BlobInList
    BY <2>3 DEF ListInv
  <2>5. \A u \in Committing : pc[u] # "remove"
    BY <2>2, <2>4 DEF OneInside, Unlocked
  <2>6. blob' = Prefix(nextCommitId - 1) /\ blob = Prefix(Len(blob))
    BY <2>2, <2>4, <2>5 DEF ListInOrder, BlobInList
  <2>7. Len(blob') = nextCommitId - 1 /\ Len(blob) <= nextCommitId - 1
    <3>1. nextCommitId - 1 \in Nat
      BY DEF TypeOK
    <3>2. Len(blob') = nextCommitId - 1
      BY <2>6, <3>1, PrefixShape
    <3> QED
      BY <2>4, <3>2 DEF BlobInList, TypeOK
  <2>8. \A i \in 1 .. Len(blob) : Prefix(nextCommitId - 1)[i] = i /\ Prefix(Len(blob))[i] = i
    BY <2>7 DEF Prefix, TypeOK
  <2>9. DOMAIN blob = 1 .. Len(blob)
    BY DEF TypeOK
  <2> QED
    BY <2>6, <2>7, <2>8, <2>9
<1>3. blob' = blob \/ \E t \in Committing : PutBlockList(t)
  BY DEF AnyStep, Next, Client, Upload, Worker, Round, Committer, DoCommit, CommitRound, Committing, vars, service,
       Buffer, UploadBlock, Cut, BeginFlush, WaitEmpty, CloseReqs, CloseResps, Destroyed,
       TakeJob, ExitWorker, EnterJob, StageBlock, Respond, LeaveJob, SkipCommit,
       NeedCommit, RaiseGate, Recheck, TestResps, PopResponse, Insert, AppendItem,
       RemoveFront, EndBlock, Acknowledge, LowerGate, ThrowInCommit, CloseCommitter,
       Interval, MoreResponses
<1> QED
  BY <1>1, <1>2, <1>3

\* A commit never takes away what a reader has already seen (lines 209-213: the
\* committed blocks stay in the list).
THEOREM BlobOnlyGrowsHolds == Spec => BlobOnlyGrows
<1>1. ASSUME TypeOK, ListInv, [Next]_vars
      PROVE  [~raced' => /\ Len(blob) <= Len(blob')
                         /\ \A i \in DOMAIN blob : blob'[i] = blob[i]]_vars
  BY <1>1, GrowsStep, NextIsAny
<1> QED
  BY TypeCorrect, ListInit, ListStep, NextIsAny, <1>1, PTL DEF Spec, BlobOnlyGrows

------------------------------------------------------------------------------
(* destroy() ends with no block in a queue or in a worker's hands.             *)
(* The strengthening: a worker between two jobs holds none; wait_empty() (line *)
(* 114) leaves the queue of blocks empty and nobody pushes again; and the      *)
(* client passes the join (lines 117-120) only when every worker has ended.    *)

Pausing(w) == wpc[w] \in {"pop", "leave", "exited", "stranded"}
Closing == pc["client"] \in {"joinWorkers", "joinCommitter", "destroyed"}
Joined == pc["client"] \in {"joinCommitter", "destroyed"}

HandsEmpty == \A w \in Workers : Pausing(w) => job[w] = 0
QueueDrained == Closing => reqs = <<>>
WorkersEnded == Joined => \A w \in Workers : wpc[w] = "exited"

DestroyInv == HandsEmpty /\ QueueDrained /\ WorkersEnded

\* All three hold when init() has started the threads.
LEMMA DestroyInit == Init => DestroyInv
BY DEF Init, DestroyInv, HandsEmpty, QueueDrained, WorkersEnded, Closing, Joined,
       Committing, Reqs!Init

\* A step that moves no worker and no block, and does not take the client past
\* wait_empty() or the join.
LEMMA DestroyFrame ==
    ASSUME DestroyInv, UNCHANGED <<reqs, job, wpc>>,
           Closing' => Closing, Joined' => Joined
    PROVE  DestroyInv'
BY DEF DestroyInv, HandsEmpty, QueueDrained, WorkersEnded, Pausing

\* What a thread does in doCommit() moves no worker and no block, and leaves the
\* client where it was with respect to its joins.
LEMMA DestroyCommit ==
    ASSUME TypeOK, DestroyInv, NEW t \in Committing, DoCommit(t)
    PROVE  DestroyInv'
<1> USE DEF channels, worker, Goto
<1>0. pc \in [Committing -> ThreadAt] /\ "client" \in Committing
  BY DEF TypeOK, Committing
<1>1. CASE PutBlockList(t)
  <2>1. pc[t] = "put" /\ (pc' = [pc EXCEPT ![t] = "ack"] \/ pc' = pc)
        /\ UNCHANGED <<reqs, job, wpc>>
    BY <1>1 DEF PutBlockList
  <2> QED
    BY <1>0, <2>1, DestroyFrame DEF Closing, Joined
<1>2. CASE SkipCommit(t) \/ LowerGate(t)
  <2>1. /\ pc' = [pc EXCEPT ![t] = pc'[t]]
        /\ pc'[t] \in {"idle", "closing", "exited", "popFor"}
        /\ UNCHANGED <<reqs, job, wpc>>
    BY <1>0, <1>2 DEF SkipCommit, LowerGate, Return
  <2> QED
    BY <1>0, <2>1, DestroyFrame DEF Closing, Joined
<1>3. CASE \/ NeedCommit(t) \/ RaiseGate(t) \/ Recheck(t) \/ TestResps(t) \/ PopResponse(t)
           \/ Insert(t) \/ AppendItem(t) \/ RemoveFront(t) \/ EndBlock(t)
           \/ Acknowledge(t) \/ ThrowInCommit(t)
  <2>1. /\ pc' = [pc EXCEPT ![t] = pc'[t]]
        /\ pc'[t] \in CommitAt \cup {"more", "exited"}
        /\ UNCHANGED <<reqs, job, wpc>>
    BY <1>0, <1>3 DEF NeedCommit, RaiseGate, Recheck, AwaitQuiet, TestResps, PopResponse,
         Insert, AppendItem, RemoveFront, EndBlock, Acknowledge, ThrowInCommit, CommitAt
  <2> QED
    BY <1>0, <2>1, DestroyFrame DEF Closing, Joined, CommitAt
<1> QED
  BY <1>1, <1>2, <1>3 DEF DoCommit, CommitRound

\* A worker in its loop takes from a queue that is not empty, and an exited one
\* has no step.
LEMMA DestroyWorker ==
    ASSUME TypeOK, DestroyInv, NEW w \in Workers, Worker(w)
    PROVE  DestroyInv'
<1> USE DEF channels, worker, control, Goto, Advance
<1>0. /\ pc \in [Committing -> ThreadAt] /\ "client" \in Committing
      /\ job \in [Workers -> Nat] /\ wpc \in [Workers -> WorkerAt]
  BY DEF TypeOK, Committing
<1>1. Closing' = Closing /\ Joined' = Joined
  BY <1>0 DEF Worker, Round, TakeJob, ExitWorker, EnterJob, StageBlock, Respond, LeaveJob,
       Closing, Joined
<1>2. wpc[w] # "exited" /\ \A v \in Workers \ {w} : wpc'[v] = wpc[v] /\ job'[v] = job[v]
  BY <1>0 DEF Worker, Round, TakeJob, ExitWorker, EnterJob, StageBlock, Respond, LeaveJob
<1>3. Pausing(w)' => job'[w] = 0
  BY <1>0 DEF Worker, Round, TakeJob, ExitWorker, EnterJob, StageBlock, Respond, LeaveJob,
       Pausing, DestroyInv, HandsEmpty
<1>4. reqs' = reqs \/ reqs # <<>>
  BY DEF Worker, Round, TakeJob, ExitWorker, EnterJob, StageBlock, Respond, LeaveJob, Reqs!Pop
<1>5. HandsEmpty'
  BY <1>2, <1>3 DEF DestroyInv, HandsEmpty, Pausing
<1>6. QueueDrained'
  BY <1>1, <1>4 DEF DestroyInv, QueueDrained
<1>7. WorkersEnded'
  BY <1>1, <1>2 DEF DestroyInv, WorkersEnded
<1> QED
  BY <1>5, <1>6, <1>7 DEF DestroyInv

\* The client: upload() and flush() push only before the close, CloseReqs finds
\* the queue empty, CloseResps the workers ended.
LEMMA DestroyClient ==
    ASSUME TypeOK, DestroyInv, Client \/ BeginFlush("flush") \/ BeginFlush("destroy")
    PROVE  DestroyInv'
<1> USE DEF channels, worker, control, Goto
<1>0. /\ pc \in [Committing -> ThreadAt] /\ "client" \in Committing
      /\ job \in [Workers -> Nat] /\ wpc \in [Workers -> WorkerAt]
  BY DEF TypeOK, Committing
<1>1. CASE Upload \/ \E call : BeginFlush(call)
  <2>1. ~Closing' /\ ~Joined' /\ UNCHANGED worker
    BY <1>0, <1>1 DEF Upload, Buffer, UploadBlock, BeginFlush, Closing, Joined
  <2> QED
    BY <2>1 DEF DestroyInv, HandsEmpty, QueueDrained, WorkersEnded, Pausing
<1>2. CASE WaitEmpty
  BY <1>0, <1>2, DestroyFrame DEF WaitEmpty, Closing, Joined
<1>3. CASE CloseReqs
  <2>1. reqs' = <<>> /\ UNCHANGED job /\ ~Joined'
    BY <1>0, <1>3 DEF CloseReqs, Reqs!Close, Joined
  <2>2. \A w \in Workers : Pausing(w)' => Pausing(w)
    BY <1>0, <1>3 DEF CloseReqs, Pausing
  <2> QED
    BY <2>1, <2>2 DEF DestroyInv, HandsEmpty, QueueDrained, WorkersEnded
<1>4. CASE CloseResps
  <2>1. UNCHANGED <<reqs, job, wpc>> /\ Closing /\ \A w \in Workers : wpc[w] = "exited"
    BY <1>4 DEF CloseResps, Closing
  <2> QED
    BY <2>1 DEF DestroyInv, HandsEmpty, QueueDrained, WorkersEnded, Pausing
<1>5. CASE Destroyed
  BY <1>0, <1>5, DestroyFrame DEF Destroyed, Closing, Joined
<1> QED
  BY <1>1, <1>2, <1>3, <1>4, <1>5 DEF Client

\* Every step keeps all three.
LEMMA DestroyStep ==
    ASSUME TypeOK, DestroyInv, AnyStep
    PROVE  DestroyInv'
<1>1. CASE CloseCommitter \/ Interval \/ MoreResponses
  <2>1. UNCHANGED <<reqs, job, wpc>> /\ pc'["client"] = pc["client"]
    BY <1>1 DEF CloseCommitter, Interval, MoreResponses, BeginCommit, Goto, channels, worker,
         TypeOK, Committing
  <2> QED
    BY <2>1, DestroyFrame DEF Closing, Joined
<1>2. CASE UNCHANGED vars
  BY <1>2, DestroyFrame DEF vars, channels, worker, control, Closing, Joined
<1>3. "client" \in Committing /\ "committer" \in Committing
  BY DEF Committing
<1> QED
  BY <1>1, <1>2, <1>3, DestroyCommit, DestroyWorker, DestroyClient
     DEF AnyStep, Next, Committer

\* When destroy() has returned, nothing is in a queue or in a worker's hands.
LEMMA DestroyedUse ==
    ASSUME TypeOK, DestroyInv
    PROVE  DestroyedAfterUploads
<1>1. SUFFICES ASSUME pc["client"] = "destroyed" PROVE Uploaded = Block
  BY DEF DestroyedAfterUploads
<1>2. reqs = <<>> /\ \A w \in Workers : job[w] = 0
  BY <1>1 DEF DestroyInv, HandsEmpty, QueueDrained, WorkersEnded, Closing, Joined, Pausing
<1>3. Elements(reqs) = {} /\ 0 \notin Block
  BY <1>2 DEF Elements, Block, TypeOK
<1> QED
  BY <1>2, <1>3 DEF Uploaded

\* destroy() leaves no block behind (lines 110-124): when it has returned, every
\* block cut from the stream has been uploaded and reported by its worker.
THEOREM DestroyedAfterUploadsHolds == Spec => []DestroyedAfterUploads
BY TypeCorrect, DestroyInit, DestroyStep, NextIsAny, DestroyedUse, PTL DEF Spec

------------------------------------------------------------------------------
(* No block is lost or duplicated on its way to the block list.               *)

(* Where a block may be *)

NotInReqs(id) == \A i \in DOMAIN reqs : reqs[i] # id
NotHeld(id) == \A w \in Workers : job[w] # id
NotInResps(id) == \A i \in DOMAIN resps : resps[i] # id
NotPopped(id) == \A t \in Committing : resp[t] # id

OnceInReqs(id) == \E i \in DOMAIN reqs : \A j \in DOMAIN reqs : reqs[j] = id <=> j = i
HeldOnce(id) == \E w \in Workers : \A v \in Workers : job[v] = id <=> v = w
OnceInResps(id) == \E i \in DOMAIN resps : \A j \in DOMAIN resps : resps[j] = id <=> j = i
PoppedOnce(id) == \E t \in Committing : \A u \in Committing : resp[u] = id <=> u = t

Waiting(id) ==
    /\ OnceInReqs(id) /\ NotHeld(id) /\ NotInResps(id) /\ NotPopped(id)
    /\ id \notin window /\ nextCommitId <= id
InHand(id) ==
    /\ NotInReqs(id) /\ HeldOnce(id) /\ NotInResps(id) /\ NotPopped(id)
    /\ id \notin window /\ nextCommitId <= id
Reported(id) ==
    /\ NotInReqs(id) /\ NotHeld(id) /\ OnceInResps(id) /\ NotPopped(id)
    /\ id \notin window /\ nextCommitId <= id
Popped(id) ==
    /\ NotInReqs(id) /\ NotHeld(id) /\ NotInResps(id) /\ PoppedOnce(id)
    /\ id \notin window /\ nextCommitId <= id
Reordered(id) ==
    /\ NotInReqs(id) /\ NotHeld(id) /\ NotInResps(id) /\ NotPopped(id)
    /\ id \in window /\ nextCommitId <= id
Listed(id) ==
    /\ NotInReqs(id) /\ NotHeld(id) /\ NotInResps(id) /\ NotPopped(id)
    /\ id \notin window /\ id < nextCommitId

InOnePlace(id) ==
    \/ Waiting(id) \/ InHand(id) \/ Reported(id)
    \/ Popped(id) \/ Reordered(id) \/ Listed(id)

\* Such a block has one holder.
LEMMA OnePlaceOneHolder ==
    ASSUME TypeOK, NEW id \in Block, InOnePlace(id)
    PROVE  Cardinality(Holders(id)) = 1
<1> USE DEF NotInReqs, NotHeld, NotInResps, NotPopped
<1>0. id \in Nat /\ nextCommitId \in Nat
  BY DEF TypeOK, Block
<1>1. SUFFICES \E h : Holders(id) = {h}
  BY FS_Singleton
<1>2. CASE Waiting(id)
  <2>1. PICK i \in DOMAIN reqs : \A j \in DOMAIN reqs : reqs[j] = id <=> j = i
    BY <1>2 DEF Waiting, OnceInReqs
  <2>2. Holders(id) = {<<"reqs", i>>}
    BY <1>0, <1>2, <2>1 DEF Waiting, Holders
  <2> QED
    BY <2>2
<1>3. CASE InHand(id)
  <2>1. PICK w \in Workers : \A v \in Workers : job[v] = id <=> v = w
    BY <1>3 DEF InHand, HeldOnce
  <2>2. Holders(id) = {<<"job", w>>}
    BY <1>0, <1>3, <2>1 DEF InHand, Holders
  <2> QED
    BY <2>2
<1>4. CASE Reported(id)
  <2>1. PICK i \in DOMAIN resps : \A j \in DOMAIN resps : resps[j] = id <=> j = i
    BY <1>4 DEF Reported, OnceInResps
  <2>2. Holders(id) = {<<"resps", i>>}
    BY <1>0, <1>4, <2>1 DEF Reported, Holders
  <2> QED
    BY <2>2
<1>5. CASE Popped(id)
  <2>1. PICK t \in Committing : \A u \in Committing : resp[u] = id <=> u = t
    BY <1>5 DEF Popped, PoppedOnce
  <2>2. Holders(id) = {<<"resp", t>>}
    BY <1>0, <1>5, <2>1 DEF Popped, Holders
  <2> QED
    BY <2>2
<1>6. CASE Reordered(id)
  <2>1. Holders(id) = {<<"window", 0>>}
    BY <1>0, <1>6 DEF Reordered, Holders
  <2> QED
    BY <2>1
<1>7. CASE Listed(id)
  BY <1>0, <1>7 DEF Listed, Holders
<1> QED
  BY <1>2, <1>3, <1>4, <1>5, <1>6, <1>7 DEF InOnePlace

------------------------------------------------------------------------------
(* The strengthening: what has not been cut from the stream is nowhere; a      *)
(* thread holds a response only before line 171; and, as long as commit state  *)
(* is not raced over, line 176 finds the block of line 172 still in front.     *)

Cutoff ==
    /\ \A i \in DOMAIN reqs : reqs[i] < nextId
    /\ \A w \in Workers : job[w] < nextId
    /\ \A i \in DOMAIN resps : resps[i] < nextId
    /\ \A t \in Committing : resp[t] < nextId
    /\ \A id \in window : id < nextId
PopsIntoEmpty == \A t \in Committing : pc[t] # "insert" => resp[t] = 0
FrontReady ==
    (\E t \in Committing : pc[t] = "remove") =>
        nextCommitId \in window /\ \A id \in window : nextCommitId <= id
Placed ==
    /\ nextCommitId <= nextId
    /\ \A id \in Block : InOnePlace(id)

PlacesInv ==
    /\ Cutoff /\ PopsIntoEmpty
    /\ ~raced => FrontReady /\ Placed

\* There is no block initially.
LEMMA PlacesInit == Init => PlacesInv
<1> SUFFICES ASSUME Init PROVE PlacesInv
  OBVIOUS
<1>1. reqs = <<>> /\ resps = <<>> /\ window = {} /\ nextId = 1 /\ nextCommitId = 1
  BY DEF Init, Reqs!Init, Resps!Init
<1>2. /\ \A w \in Workers : job[w] = 0
      /\ \A t \in Committing : resp[t] = 0 /\ pc[t] # "remove"
  BY DEF Init
<1>3. Block = {}
  BY <1>1 DEF Block
<1> QED
  BY <1>1, <1>2, <1>3 DEF PlacesInv, Cutoff, PopsIntoEmpty, FrontReady, Placed

\* A step that moves no block.
LEMMA PlacesFrame ==
    ASSUME PlacesInv,
           UNCHANGED <<nextId, reqs, job, resps, resp, window, nextCommitId>>,
           ~raced' => ~raced,
           \A t \in Committing :
             pc'[t] = pc[t] \/ (pc[t] # "insert" /\ pc'[t] # "remove")
    PROVE  PlacesInv'
<1>1. Cutoff' /\ PopsIntoEmpty'
  BY DEF PlacesInv, Cutoff, PopsIntoEmpty
<1>2. FrontReady => FrontReady'
  BY DEF FrontReady
<1>3. \A id : InOnePlace(id) => InOnePlace(id)'
  BY DEF InOnePlace, Waiting, InHand, Reported, Popped, Reordered, Listed, NotInReqs,
         NotHeld, NotInResps, NotPopped, OnceInReqs, HeldOnce, OnceInResps, PoppedOnce
<1>4. Placed => Placed'
  BY <1>3 DEF Placed, Block
<1> QED
  BY <1>1, <1>2, <1>4 DEF PlacesInv

\* push() of upload() or flush() (lines 78 and 94): the new block waits.
LEMMA PlacesCut ==
    ASSUME TypeOK, PlacesInv, Cut,
           UNCHANGED <<job, resps, resp, window, nextCommitId, raced>>,
           \A t \in Committing :
             pc'[t] = pc[t] \/ (pc[t] # "insert" /\ pc'[t] # "remove")
    PROVE  PlacesInv'
<1>1. /\ reqs \in Seq(Nat) /\ nextId \in Nat \ {0} /\ nextCommitId \in Nat
      /\ job \in [Workers -> Nat] /\ resps \in Seq(Nat) /\ resp \in [Committing -> Nat]
      /\ window \subseteq Nat
  BY DEF TypeOK
<1>2. reqs' = Append(reqs, nextId) /\ nextId' = nextId + 1
  BY DEF Cut, Reqs!Push
<1>3. /\ DOMAIN reqs' = 1 .. Len(reqs) + 1 /\ DOMAIN reqs = 1 .. Len(reqs) /\ Len(reqs) \in Nat
      /\ \A i \in DOMAIN reqs : reqs'[i] = reqs[i]
      /\ reqs'[Len(reqs) + 1] = nextId
  BY <1>1, <1>2
<1>4. Cutoff'
  BY <1>1, <1>2, <1>3 DEF PlacesInv, Cutoff
<1>5. PopsIntoEmpty'
  BY DEF PlacesInv, PopsIntoEmpty
<1>6. FrontReady => FrontReady'
  BY DEF FrontReady
<1>7. ASSUME Placed, NEW id \in Block PROVE InOnePlace(id)'
  <2>1. id # nextId /\ InOnePlace(id)
    BY <1>1, <1>7 DEF Placed, Block
  <2>2. NotInReqs(id) => NotInReqs(id)'
    BY <1>3, <2>1 DEF NotInReqs
  <2>3. OnceInReqs(id) => OnceInReqs(id)'
    BY <1>3, <2>1 DEF OnceInReqs
  <2> QED
    BY <2>1, <2>2, <2>3 DEF InOnePlace, Waiting, InHand, Reported, Popped, Reordered, Listed,
         NotHeld, NotInResps, NotPopped, HeldOnce, OnceInResps, PoppedOnce
<1>8. ASSUME Placed, NEW id, id = nextId PROVE InOnePlace(id)'
  <2>1. OnceInReqs(id)'
    <3>1. Len(reqs) + 1 \in DOMAIN reqs' /\ reqs'[Len(reqs) + 1] = id
      BY <1>3, <1>8
    <3>2. ASSUME NEW j \in DOMAIN reqs', reqs'[j] = id PROVE j = Len(reqs) + 1
      <4>1. SUFFICES ASSUME j \in DOMAIN reqs PROVE FALSE
        BY <1>3
      <4> QED
        BY <1>1, <1>3, <1>8, <3>2, <4>1 DEF PlacesInv, Cutoff
    <3> QED
      BY <3>1, <3>2 DEF OnceInReqs
  <2>2. NotHeld(id)' /\ NotInResps(id)' /\ NotPopped(id)' /\ id \notin window'
    BY <1>1, <1>8 DEF PlacesInv, Cutoff, NotHeld, NotInResps, NotPopped
  <2>3. nextCommitId' <= id
    BY <1>8 DEF Placed
  <2> QED
    BY <2>1, <2>2, <2>3 DEF InOnePlace, Waiting
<1>9. ASSUME Placed PROVE Placed'
  <2>1. \A id \in Block' : id \in Block \/ id = nextId
    BY <1>1, <1>2 DEF Block
  <2>2. nextCommitId' <= nextId'
    BY <1>1, <1>2, <1>9 DEF Placed
  <2> QED
    BY <1>7, <1>8, <1>9, <2>1, <2>2 DEF Placed
<1> QED
  BY <1>4, <1>5, <1>6, <1>9 DEF PlacesInv

\* The head of a queue leaves it, the others stay.
LEMMA QueuePop ==
    ASSUME NEW s \in Seq(Nat), s # <<>>
    PROVE  /\ 1 \in DOMAIN s /\ Head(s) = s[1]
           /\ \A i \in DOMAIN Tail(s) : i + 1 \in DOMAIN s /\ Tail(s)[i] = s[i + 1]
           /\ \A j \in DOMAIN s : j # 1 => j - 1 \in DOMAIN Tail(s) /\ Tail(s)[j - 1] = s[j]
           /\ DOMAIN s \subseteq Nat /\ DOMAIN Tail(s) \subseteq Nat
OBVIOUS

\* pop() of a worker (line 137): the oldest block goes from the queue into its
\* hands, which are empty.
LEMMA PlacesTake ==
    ASSUME TypeOK, PlacesInv, HandsEmpty, NEW w \in Workers, TakeJob(w)
    PROVE  PlacesInv'
<1> USE DEF NotInReqs, NotHeld, OnceInReqs, HeldOnce, NotInResps, NotPopped, OnceInResps,
            PoppedOnce
<1>1. /\ reqs \in Seq(Nat) /\ job \in [Workers -> Nat] /\ nextId \in Nat \ {0}
  BY DEF TypeOK
<1>2. /\ reqs # <<>> /\ reqs' = Tail(reqs) /\ job' = [job EXCEPT ![w] = Head(reqs)]
      /\ job[w] = 0
      /\ UNCHANGED <<nextId, resps, resp, window, nextCommitId, raced, pc>>
  BY DEF TakeJob, Advance, Reqs!Pop, stream, commit, order, control, HandsEmpty, Pausing
<1>3. /\ 1 \in DOMAIN reqs /\ Head(reqs) = reqs[1]
      /\ \A i \in DOMAIN reqs' : i + 1 \in DOMAIN reqs /\ reqs'[i] = reqs[i + 1]
      /\ \A j \in DOMAIN reqs : j # 1 => j - 1 \in DOMAIN reqs' /\ reqs'[j - 1] = reqs[j]
      /\ DOMAIN reqs \subseteq Nat /\ DOMAIN reqs' \subseteq Nat
  BY <1>1, <1>2, QueuePop
<1>4. Cutoff'
  BY <1>1, <1>2, <1>3 DEF PlacesInv, Cutoff
<1>5. PopsIntoEmpty' /\ (FrontReady => FrontReady')
  BY <1>2 DEF PlacesInv, PopsIntoEmpty, FrontReady
<1>6. ASSUME NEW id \in Block, InOnePlace(id) PROVE InOnePlace(id)'
  <2>1. id # 0
    BY DEF Block
  <2>2. CASE Waiting(id)
    <3>1. PICK i \in DOMAIN reqs : \A j \in DOMAIN reqs : reqs[j] = id <=> j = i
      BY <2>2 DEF Waiting
    <3>2. CASE i = 1
      <4>1. NotInReqs(id)'
        <5>1. SUFFICES ASSUME NEW j \in DOMAIN reqs', reqs'[j] = id PROVE FALSE
          OBVIOUS
        <5>2. j + 1 \in DOMAIN reqs /\ reqs[j + 1] = id /\ j \in Nat
          BY <1>3, <5>1
        <5>3. j + 1 = 1 /\ j # 0
          <6>1. DOMAIN reqs' = 1 .. Len(reqs')
            BY <1>1, <1>2
          <6> QED
            BY <3>1, <3>2, <5>2, <6>1
        <5> QED
          BY <5>2, <5>3
      <4>2. HeldOnce(id)'
        BY <1>1, <1>2, <1>3, <2>2, <3>1, <3>2 DEF Waiting
      <4> QED
        BY <1>2, <2>2, <4>1, <4>2 DEF Waiting, InHand, InOnePlace
    <3>3. CASE i # 1
      <4>1. OnceInReqs(id)'
        <5>1. i - 1 \in DOMAIN reqs' /\ reqs'[i - 1] = id
          BY <1>3, <3>1, <3>3
        <5>2. ASSUME NEW j \in DOMAIN reqs', reqs'[j] = id PROVE j = i - 1
          <6>1. j + 1 \in DOMAIN reqs /\ reqs[j + 1] = id /\ j \in Nat
            BY <1>3, <5>2
          <6> QED
            BY <1>3, <3>1, <6>1
        <5> QED
          BY <5>1, <5>2
      <4>2. NotHeld(id)'
        BY <1>1, <1>2, <1>3, <2>2, <3>1, <3>3 DEF Waiting
      <4> QED
        BY <1>2, <2>2, <4>1, <4>2 DEF Waiting, InOnePlace
    <3> QED
      BY <3>2, <3>3
  <2>3. ASSUME NotInReqs(id) PROVE NotInReqs(id)' /\ Head(reqs) # id
    BY <1>3, <2>3
  <2>4. CASE InHand(id)
    <3>1. HeldOnce(id)'
      BY <1>1, <1>2, <2>1, <2>3, <2>4 DEF InHand
    <3> QED
      BY <1>2, <2>3, <2>4, <3>1 DEF InHand, InOnePlace
  <2>5. CASE Reported(id) \/ Popped(id) \/ Reordered(id) \/ Listed(id)
    <3>1. NotInReqs(id)' /\ NotHeld(id)'
      BY <1>1, <1>2, <2>3, <2>5 DEF Reported, Popped, Reordered, Listed
    <3> QED
      BY <1>2, <2>5, <3>1 DEF Reported, Popped, Reordered, Listed, InOnePlace
  <2> QED
    BY <1>6, <2>2, <2>4, <2>5 DEF InOnePlace
<1>7. Placed => Placed'
  BY <1>2, <1>6 DEF Placed, Block
<1> QED
  BY <1>2, <1>4, <1>5, <1>7 DEF PlacesInv

\* resps.push() (line 161): the block goes from the worker's hands into the queue
\* of responses.
LEMMA PlacesRespond ==
    ASSUME TypeOK, PlacesInv, NEW w \in Workers, Respond(w)
    PROVE  PlacesInv'
<1> USE DEF NotInReqs, NotHeld, OnceInReqs, HeldOnce, NotInResps, NotPopped, OnceInResps,
            PoppedOnce
<1>1. /\ resps \in Seq(Nat) /\ job \in [Workers -> Nat] /\ nextId \in Nat \ {0}
  BY DEF TypeOK
<1>2. /\ resps' = Append(resps, job[w]) /\ job' = [job EXCEPT ![w] = 0]
      /\ UNCHANGED <<nextId, reqs, resp, window, nextCommitId, raced, pc>>
  BY DEF Respond, Resps!Push, stream, commit, order, control
<1>3. /\ DOMAIN resps' = 1 .. Len(resps) + 1 /\ DOMAIN resps = 1 .. Len(resps)
      /\ Len(resps) \in Nat
      /\ \A i \in DOMAIN resps : resps'[i] = resps[i]
      /\ resps'[Len(resps) + 1] = job[w]
  BY <1>1, <1>2
<1>4. Cutoff'
  BY <1>1, <1>2, <1>3 DEF PlacesInv, Cutoff
<1>5. PopsIntoEmpty' /\ (FrontReady => FrontReady')
  BY <1>2 DEF PlacesInv, PopsIntoEmpty, FrontReady
<1>6. ASSUME NEW id \in Block, InOnePlace(id) PROVE InOnePlace(id)'
  <2>1. id # 0
    BY DEF Block
  <2>2. CASE InHand(id)
    <3>1. PICK v \in Workers : \A u \in Workers : job[u] = id <=> u = v
      BY <2>2 DEF InHand
    <3>2. CASE v = w
      <4>1. OnceInResps(id)'
        <5>1. Len(resps) + 1 \in DOMAIN resps' /\ resps'[Len(resps) + 1] = id
          BY <1>3, <3>1, <3>2
        <5>2. ASSUME NEW j \in DOMAIN resps', resps'[j] = id PROVE j = Len(resps) + 1
          <6>1. j \in DOMAIN resps \/ j = Len(resps) + 1
            BY <1>3
          <6> QED
            BY <1>3, <2>2, <5>2, <6>1 DEF InHand
        <5> QED
          BY <5>1, <5>2
      <4>2. NotHeld(id)'
        BY <1>1, <1>2, <2>1, <3>1, <3>2
      <4> QED
        BY <1>2, <2>2, <4>1, <4>2 DEF InHand, Reported, InOnePlace
    <3>3. CASE v # w
      <4>1. \A u \in Workers : job'[u] = id <=> u = v
        BY <1>1, <1>2, <2>1, <3>1, <3>3
      <4>2. job[w] # id
        BY <3>1, <3>3
      <4>3. NotInResps(id)'
        <5>1. \A j \in DOMAIN resps' : j \in DOMAIN resps \/ j = Len(resps) + 1
          BY <1>3
        <5> QED
          BY <1>3, <2>2, <4>2, <5>1 DEF InHand
      <4> QED
        BY <1>2, <2>2, <4>1, <4>3 DEF InHand, InOnePlace
    <3> QED
      BY <3>2, <3>3
  <2>3. ASSUME NotHeld(id) PROVE NotHeld(id)' /\ job[w] # id
    BY <1>1, <1>2, <2>1, <2>3
  <2>4. CASE Reported(id)
    <3>1. OnceInResps(id)'
      BY <1>3, <2>3, <2>4 DEF Reported
    <3> QED
      BY <1>2, <2>3, <2>4, <3>1 DEF Reported, InOnePlace
  <2>5. CASE Waiting(id) \/ Popped(id) \/ Reordered(id) \/ Listed(id)
    <3>1. NotInResps(id)' /\ NotHeld(id)'
      BY <1>3, <2>3, <2>5 DEF Waiting, Popped, Reordered, Listed
    <3> QED
      BY <1>2, <2>5, <3>1 DEF Waiting, Popped, Reordered, Listed, InOnePlace
  <2> QED
    BY <1>6, <2>2, <2>4, <2>5 DEF InOnePlace
<1>7. Placed => Placed'
  BY <1>2, <1>6 DEF Placed, Block
<1> QED
  BY <1>2, <1>4, <1>5, <1>7 DEF PlacesInv

\* pop() and pop_for() of a committing thread (lines 192 and 235): the oldest
\* response goes to the thread, which holds none.
LEMMA PlacesPop ==
    ASSUME TypeOK, PlacesInv, NEW t \in Committing, PopResponse(t)
    PROVE  PlacesInv'
<1> USE DEF NotInReqs, NotHeld, OnceInReqs, HeldOnce, NotInResps, NotPopped, OnceInResps,
            PoppedOnce
<1>1. /\ resps \in Seq(Nat) /\ resp \in [Committing -> Nat] /\ nextId \in Nat \ {0}
      /\ pc \in [Committing -> ThreadAt]
  BY DEF TypeOK
<1>2. /\ resps # <<>> /\ resps' = Tail(resps) /\ resp' = [resp EXCEPT ![t] = Head(resps)]
      /\ resp[t] = 0 /\ pc[t] \in {"pop", "popFor"} /\ pc' = [pc EXCEPT ![t] = "insert"]
      /\ UNCHANGED <<nextId, reqs, job, window, nextCommitId>>
      /\ ~raced' => ~raced
  BY Zenon DEF PopResponse, TouchOrder, Goto, Resps!Pop, stream, order, worker, PlacesInv, PopsIntoEmpty
<1>3. /\ 1 \in DOMAIN resps /\ Head(resps) = resps[1]
      /\ \A i \in DOMAIN resps' : i + 1 \in DOMAIN resps /\ resps'[i] = resps[i + 1]
      /\ \A j \in DOMAIN resps : j # 1 => j - 1 \in DOMAIN resps' /\ resps'[j - 1] = resps[j]
      /\ DOMAIN resps \subseteq Nat /\ DOMAIN resps' \subseteq Nat
  BY <1>1, <1>2, QueuePop
<1>4. Cutoff'
  BY <1>1, <1>2, <1>3 DEF PlacesInv, Cutoff
<1>5. PopsIntoEmpty'
  BY <1>1, <1>2 DEF PlacesInv, PopsIntoEmpty
<1>6. FrontReady => FrontReady'
  BY <1>1, <1>2 DEF FrontReady
<1>7. ASSUME NEW id \in Block, InOnePlace(id) PROVE InOnePlace(id)'
  <2>1. id # 0
    BY DEF Block
  <2>2. CASE Reported(id)
    <3>1. PICK i \in DOMAIN resps : \A j \in DOMAIN resps : resps[j] = id <=> j = i
      BY <2>2 DEF Reported
    <3>2. CASE i = 1
      <4>1. NotInResps(id)'
        <5>1. SUFFICES ASSUME NEW j \in DOMAIN resps', resps'[j] = id PROVE FALSE
          OBVIOUS
        <5>2. j + 1 \in DOMAIN resps /\ resps[j + 1] = id /\ j \in Nat
          BY <1>3, <5>1
        <5>3. j + 1 = 1 /\ j # 0
          <6>1. DOMAIN resps' = 1 .. Len(resps')
            BY <1>1, <1>2
          <6> QED
            BY <3>1, <3>2, <5>2, <6>1
        <5> QED
          BY <5>2, <5>3
      <4>2. PoppedOnce(id)'
        BY <1>1, <1>2, <1>3, <2>2, <3>1, <3>2 DEF Reported
      <4> QED
        BY <1>2, <2>2, <4>1, <4>2 DEF Reported, Popped, InOnePlace
    <3>3. CASE i # 1
      <4>1. OnceInResps(id)'
        <5>1. i - 1 \in DOMAIN resps' /\ resps'[i - 1] = id
          BY <1>3, <3>1, <3>3
        <5>2. ASSUME NEW j \in DOMAIN resps', resps'[j] = id PROVE j = i - 1
          <6>1. j + 1 \in DOMAIN resps /\ resps[j + 1] = id /\ j \in Nat
            BY <1>3, <5>2
          <6> QED
            BY <1>3, <3>1, <6>1
        <5> QED
          BY <5>1, <5>2
      <4>2. NotPopped(id)'
        BY <1>1, <1>2, <1>3, <2>2, <3>1, <3>3 DEF Reported
      <4> QED
        BY <1>2, <2>2, <4>1, <4>2 DEF Reported, InOnePlace
    <3> QED
      BY <3>2, <3>3
  <2>3. ASSUME NotInResps(id) PROVE NotInResps(id)' /\ Head(resps) # id
    BY <1>3, <2>3
  <2>4. CASE Popped(id)
    <3>1. PoppedOnce(id)'
      BY <1>1, <1>2, <2>1, <2>3, <2>4 DEF Popped
    <3> QED
      BY <1>2, <2>3, <2>4, <3>1 DEF Popped, InOnePlace
  <2>5. CASE Waiting(id) \/ InHand(id) \/ Reordered(id) \/ Listed(id)
    <3>1. NotInResps(id)' /\ NotPopped(id)'
      BY <1>1, <1>2, <2>3, <2>5 DEF Waiting, InHand, Reordered, Listed
    <3> QED
      BY <1>2, <2>5, <3>1 DEF Waiting, InHand, Reordered, Listed, InOnePlace
  <2> QED
    BY <1>7, <2>2, <2>4, <2>5 DEF InOnePlace
<1>8. Placed => Placed'
  BY <1>2, <1>7 DEF Placed, Block
<1> QED
  BY <1>2, <1>4, <1>5, <1>6, <1>8 DEF PlacesInv

\* commitBlock() puts the response into the window (lines 170-171).
LEMMA PlacesInsert ==
    ASSUME TypeOK, ListInv, PlacesInv, NEW t \in Committing, Insert(t)
    PROVE  PlacesInv'
<1>1. /\ resp \in [Committing -> Nat] /\ nextId \in Nat \ {0}
      /\ pc \in [Committing -> ThreadAt]
  BY DEF TypeOK
<1>2. /\ pc[t] = "insert" /\ pc' = [pc EXCEPT ![t] = "loop"]
      /\ window' = window \cup {resp[t]} /\ resp' = [resp EXCEPT ![t] = 0]
      /\ UNCHANGED <<nextId, reqs, job, resps, nextCommitId, raced>>
  BY DEF Insert, Goto, stream, channels, worker
<1>3. Cutoff'
  BY <1>1, <1>2 DEF PlacesInv, Cutoff
<1>4. PopsIntoEmpty'
  BY <1>1, <1>2 DEF PlacesInv, PopsIntoEmpty
<1>5. ~raced => FrontReady'
  BY <1>1, <1>2 DEF ListInv, OneInside, Unlocked, FrontReady
<1>6. ASSUME NEW id \in Block, InOnePlace(id) PROVE InOnePlace(id)'
  <2>1. id # 0
    BY DEF Block
  <2>2. \A u \in Committing : resp'[u] = id <=> u # t /\ resp[u] = id
    BY <1>1, <1>2, <2>1
  <2>3. CASE Popped(id)
    <3>1. PICK v \in Committing : \A u \in Committing : resp[u] = id <=> u = v
      BY <2>3 DEF Popped, PoppedOnce
    <3>2. CASE v = t
      BY <1>2, <2>2, <2>3, <3>1, <3>2
         DEF Popped, Reordered, InOnePlace, NotInReqs, NotHeld, NotInResps, NotPopped
    <3>3. CASE v # t
      <4>1. PoppedOnce(id)' /\ id \notin window'
        BY <1>2, <2>2, <2>3, <3>1, <3>3 DEF Popped, PoppedOnce
      <4> QED
        BY <1>2, <2>3, <4>1 DEF Popped, InOnePlace, NotInReqs, NotHeld, NotInResps
    <3> QED
      BY <3>2, <3>3
  <2>4. CASE Waiting(id) \/ InHand(id) \/ Reported(id) \/ Reordered(id) \/ Listed(id)
    <3>1. NotPopped(id)' /\ (id \in window' <=> id \in window)
      BY <1>2, <2>2, <2>4 DEF Waiting, InHand, Reported, Reordered, Listed, NotPopped
    <3> QED
      BY <1>2, <2>4, <3>1 DEF Waiting, InHand, Reported, Reordered, Listed, InOnePlace,
         NotInReqs, NotHeld, NotInResps, OnceInReqs, HeldOnce, OnceInResps
  <2> QED
    BY <1>6, <2>3, <2>4 DEF InOnePlace
<1>7. Placed => Placed'
  BY <1>2, <1>6 DEF Placed, Block
<1> QED
  BY <1>2, <1>3, <1>4, <1>5, <1>7 DEF PlacesInv

\* The append of lines 174-175 moves no block yet.
LEMMA PlacesAppend ==
    ASSUME TypeOK, PlacesInv, NEW t \in Committing, AppendItem(t)
    PROVE  PlacesInv'
<1>1. pc \in [Committing -> ThreadAt]
  BY DEF TypeOK
<1>2. /\ NextIsReady /\ pc[t] = "loop" /\ pc' = [pc EXCEPT ![t] = "remove"]
      /\ UNCHANGED <<nextId, reqs, job, resps, resp, window, nextCommitId, raced>>
  BY DEF AppendItem, Goto, stream, channels, worker
<1>3. Cutoff' /\ PopsIntoEmpty'
  BY <1>1, <1>2 DEF PlacesInv, Cutoff, PopsIntoEmpty
<1>4. FrontReady'
  BY <1>2 DEF FrontReady, NextIsReady
<1>5. \A id : InOnePlace(id) => InOnePlace(id)'
  BY <1>2 DEF InOnePlace, Waiting, InHand, Reported, Popped, Reordered, Listed, NotInReqs,
         NotHeld, NotInResps, NotPopped, OnceInReqs, HeldOnce, OnceInResps, PoppedOnce
<1>6. Placed => Placed'
  BY <1>2, <1>5 DEF Placed, Block
<1> QED
  BY <1>2, <1>3, <1>4, <1>6 DEF PlacesInv

\* The front leaves the window as nextCommitId passes it (lines 176-178).
LEMMA PlacesRemove ==
    ASSUME TypeOK, ListInv, PlacesInv, NEW t \in Committing, RemoveFront(t)
    PROVE  PlacesInv'
<1>1. /\ pc \in [Committing -> ThreadAt] /\ window \subseteq Nat
      /\ nextCommitId \in Nat /\ nextId \in Nat
  BY DEF TypeOK
<1>2. /\ pc[t] = "remove" /\ pc' = [pc EXCEPT ![t] = "loop"]
      /\ window' = {id \in window : \E lower \in window : lower < id}
      /\ nextCommitId' = nextCommitId + 1
      /\ UNCHANGED <<nextId, reqs, job, resps, resp, raced>>
  BY DEF RemoveFront, Goto, stream, channels, worker
<1>3. Cutoff' /\ PopsIntoEmpty'
  <2>1. window' \subseteq window
    BY <1>2
  <2>2. Cutoff'
    BY <1>2, <2>1 DEF PlacesInv, Cutoff
  <2> QED
    BY <1>1, <1>2, <2>2 DEF PlacesInv, PopsIntoEmpty
<1>4. SUFFICES ASSUME ~raced PROVE FrontReady' /\ Placed'
  BY <1>2, <1>3 DEF PlacesInv
<1>5. /\ nextCommitId \in window /\ \A id \in window : nextCommitId <= id
      /\ Placed
  BY <1>2, <1>4 DEF PlacesInv, FrontReady
<1>6. window' = window \ {nextCommitId}
  <2>1. ASSUME NEW id \in window
        PROVE  (\E lower \in window : lower < id) <=> id # nextCommitId
    <3>1. id \in Nat /\ nextCommitId <= id /\ nextCommitId \in window
      BY <1>1, <1>5
    <3>2. ASSUME NEW lower \in window, lower < id PROVE id # nextCommitId
      BY <1>1, <1>5, <3>2
    <3>3. id # nextCommitId => nextCommitId < id
      BY <1>1, <3>1
    <3> QED
      BY <3>1, <3>2, <3>3
  <2> HIDE <1>5
  <2> QED
    BY <1>2, <2>1
<1>7. FrontReady'
  BY <1>1, <1>2, <1>4 DEF ListInv, OneInside, Unlocked, FrontReady
<1>8. nextCommitId' <= nextId'
  BY <1>1, <1>2, <1>5 DEF PlacesInv, Cutoff
<1>9. ASSUME NEW id \in Block PROVE InOnePlace(id)'
  <2>1. InOnePlace(id) /\ id \in Nat
    BY <1>5 DEF Placed, Block
  <2>2. CASE id = nextCommitId
    <3>1. Reordered(id)
      BY <1>5, <2>1, <2>2
         DEF InOnePlace, Waiting, InHand, Reported, Popped, Listed
    <3> QED
      BY <1>1, <1>2, <1>6, <2>2, <3>1
         DEF Reordered, Listed, InOnePlace, NotInReqs, NotHeld, NotInResps, NotPopped
  <2>3. CASE id # nextCommitId
    <3>1. /\ id \in window' <=> id \in window
          /\ nextCommitId' <= id <=> nextCommitId <= id
          /\ id < nextCommitId' <=> id < nextCommitId
      BY <1>1, <1>2, <1>6, <2>1, <2>3
    <3> QED
      BY <1>2, <2>1, <3>1
         DEF InOnePlace, Waiting, InHand, Reported, Popped, Reordered, Listed, NotInReqs,
         NotHeld, NotInResps, NotPopped, OnceInReqs, HeldOnce, OnceInResps, PoppedOnce
  <2> QED
    BY <2>2, <2>3
<1>10. Placed'
  BY <1>2, <1>8, <1>9 DEF Placed, Block
<1> QED
  BY <1>7, <1>10

------------------------------------------------------------------------------
\* Every step keeps each block in one place.
LEMMA PlacesStep ==
    ASSUME TypeOK, ListInv, DestroyInv, PlacesInv, AnyStep
    PROVE  PlacesInv'
<1> USE DEF stream, order, commit, channels, gate, worker, control, service, Goto
<1>0. pc \in [Committing -> ThreadAt]
  BY DEF TypeOK
<1>1. ASSUME NEW n \in FrameSizes, UploadBlock(n) PROVE PlacesInv'
  BY <1>1, PlacesCut DEF UploadBlock
<1>2. ASSUME NEW call, BeginFlush(call) PROVE PlacesInv'
  <2>1. /\ UNCHANGED <<job, resps, resp, window, nextCommitId, raced>>
        /\ \A t \in Committing : pc'[t] = pc[t] \/ (pc[t] # "insert" /\ pc'[t] # "remove")
    BY <1>0, <1>2 DEF BeginFlush
  <2>2. CASE Cut
    BY <2>1, <2>2, PlacesCut
  <2>3. CASE UNCHANGED <<stream, reqs, reqsClosed>>
    BY <2>1, <2>3, PlacesFrame
  <2> QED
    BY <1>2, <2>2, <2>3 DEF BeginFlush
<1>3. CASE \/ \E n \in FrameSizes : Buffer(n)
           \/ WaitEmpty \/ CloseReqs \/ CloseResps \/ Destroyed
  <2>1. /\ UNCHANGED <<nextId, reqs, job, resps, resp, window, nextCommitId, raced>>
        /\ \A t \in Committing : pc'[t] = pc[t] \/ (pc[t] # "insert" /\ pc'[t] # "remove")
    BY <1>0, <1>3 DEF Buffer, WaitEmpty, CloseReqs, Reqs!Close, CloseResps, Resps!Close,
         Destroyed
  <2> QED
    BY <2>1, PlacesFrame
<1>4. ASSUME NEW w \in Workers, Worker(w) PROVE PlacesInv'
  <2>1. CASE ExitWorker(w) \/ EnterJob(w) \/ StageBlock(w) \/ LeaveJob(w)
    <3>1. /\ UNCHANGED <<nextId, reqs, job, resps, resp, window, nextCommitId, raced>>
          /\ \A t \in Committing : pc'[t] = pc[t] \/ (pc[t] # "insert" /\ pc'[t] # "remove")
      BY <1>0, <2>1 DEF ExitWorker, EnterJob, StageBlock, LeaveJob
    <3> QED
      BY <3>1, PlacesFrame
  <2> QED
    BY <1>4, <2>1, PlacesTake, PlacesRespond DEF Worker, Round, DestroyInv
<1>5. ASSUME NEW t \in Committing, DoCommit(t) PROVE PlacesInv'
  <2>1. CASE \/ SkipCommit(t) \/ NeedCommit(t) \/ RaiseGate(t) \/ Recheck(t) \/ EndBlock(t)
             \/ PutBlockList(t) \/ Acknowledge(t) \/ LowerGate(t) \/ ThrowInCommit(t)
    <3>1. /\ UNCHANGED <<nextId, reqs, job, resps, resp, window, nextCommitId, raced>>
          /\ \A u \in Committing : pc'[u] = pc[u] \/ (pc[u] # "insert" /\ pc'[u] # "remove")
      BY <1>0, <2>1 DEF SkipCommit, NeedCommit, RaiseGate, Recheck, AwaitQuiet, EndBlock,
           PutBlockList, Acknowledge, LowerGate, ThrowInCommit, Return
    <3> QED
      BY <3>1, PlacesFrame
  <2>2. CASE TestResps(t)
    <3>1. ~raced' => ~raced
      BY <2>2, Zenon DEF TestResps, TouchOrder
    <3>2. /\ UNCHANGED <<nextId, reqs, job, resps, resp, window, nextCommitId>>
          /\ \A u \in Committing : pc'[u] = pc[u] \/ (pc[u] # "insert" /\ pc'[u] # "remove")
      BY <1>0, <2>2 DEF TestResps
    <3> QED
      BY <3>1, <3>2, PlacesFrame
  <2> QED
    BY <1>5, <2>1, <2>2, PlacesPop, PlacesInsert, PlacesAppend, PlacesRemove
       DEF DoCommit, CommitRound
<1>6. CASE CloseCommitter \/ Interval \/ MoreResponses \/ UNCHANGED vars
  <2>1. /\ UNCHANGED <<nextId, reqs, job, resps, resp, window, nextCommitId, raced>>
        /\ \A t \in Committing : pc'[t] = pc[t] \/ (pc[t] # "insert" /\ pc'[t] # "remove")
    BY <1>0, <1>6 DEF CloseCommitter, Interval, MoreResponses, BeginCommit, Committing, vars
  <2> QED
    BY <2>1, PlacesFrame
<1>7. "client" \in Committing /\ "committer" \in Committing
  BY DEF Committing
<1> QED
  BY <1>1, <1>2, <1>3, <1>4, <1>5, <1>6, <1>7 DEF AnyStep, Next, Client, Upload, Committer

\* Where every block is in one place it has one holder.
LEMMA PlacesUse ==
    ASSUME TypeOK, PlacesInv
    PROVE  EveryBlockInOnePlace
BY OnePlaceOneHolder DEF PlacesInv, Placed, EveryBlockInOnePlace

\* No block is lost between the stream and the block list, and none gets there
\* twice (lines 69-83, 128-165 and 168-180), as long as flush() does not race with
\* the committer.
THEOREM EveryBlockInOnePlaceHolds == Spec => []EveryBlockInOnePlace
BY TypeCorrect, ListInit, ListStep, DestroyInit, DestroyStep, PlacesInit, PlacesStep,
   NextIsAny, PlacesUse, PTL DEF Spec

------------------------------------------------------------------------------
(* While the client only streams.                                             *)

\* The client is in no call that commits, so commit state is not raced over.
Alone == pc["client"] = "idle" /\ ~raced

\* A step of streaming is a step of the uploader, so its invariants hold here.
LEMMA StreamIsNext ==
    ASSUME [StreamNext]_vars
    PROVE  [Next]_vars
BY DEF StreamNext, CommitterRound, Next, Client, Worker, Committer, DoCommit

\* Who takes a step then.
LEMMA AloneNext ==
    ASSUME Alone, [StreamNext]_vars
    PROVE  \/ \E n \in FrameSizes : Buffer(n) \/ UploadBlock(n)
           \/ \E w \in Workers : Worker(w)
           \/ DoCommit("committer")
           \/ CloseCommitter \/ Interval \/ MoreResponses
           \/ UNCHANGED vars
BY DEF StreamNext, CommitterRound, Upload, Worker, DoCommit

\* The client stays out of commit state.
LEMMA AloneStep ==
    ASSUME TypeOK, Alone, [StreamNext]_vars
    PROVE  Alone'
<1>0. pc \in [Committing -> ThreadAt]
  BY DEF TypeOK
<1>1. ASSUME NEW n \in FrameSizes, Buffer(n) \/ UploadBlock(n) PROVE Alone'
  BY <1>1 DEF Buffer, UploadBlock, Alone, control, commit
<1>2. ASSUME NEW w \in Workers, Worker(w) PROVE Alone'
  <2>1. raced' = raced
    BY <1>2 DEF Worker, Round, TakeJob, ExitWorker, EnterJob, StageBlock, Respond, LeaveJob, commit
  <2>2. CASE pc' = pc
    BY <2>1, <2>2 DEF Alone
  <2>3. CASE \E t \in Committing : pc[t] = "asleep" /\ Goto(t, "woken")
    BY <1>0, <2>1, <2>3 DEF Alone, Goto, Committing
  <2> QED
    BY <1>2, <2>2, <2>3
       DEF Worker, Round, TakeJob, ExitWorker, EnterJob, StageBlock, Respond, LeaveJob, control
<1>3. CASE DoCommit("committer") \/ CloseCommitter \/ Interval \/ MoreResponses
  <2>1. pc'["client"] = pc["client"]
    <3>1. \A where : Goto("committer", where) => pc'["client"] = pc["client"]
      BY <1>0 DEF Goto, Committing
    <3>2. Return("committer") => pc'["client"] = pc["client"]
      <4>1. Return("committer") => \E where : Goto("committer", where)
        BY Zenon DEF Return
      <4> QED
        BY <3>1, <4>1
    <3>3. AwaitQuiet("committer") => pc'["client"] = pc["client"]
      BY <3>1 DEF AwaitQuiet
    <3>4. DoCommit("committer") => pc'["client"] = pc["client"]
      BY <3>1, <3>2, <3>3
         DEF DoCommit, CommitRound, SkipCommit, NeedCommit, RaiseGate, Recheck, TestResps, PopResponse,
             Insert, AppendItem, RemoveFront, EndBlock, PutBlockList, Acknowledge, LowerGate,
             ThrowInCommit
    <3> QED
      BY <1>3, <3>1, <3>4 DEF CloseCommitter, Interval, MoreResponses, BeginCommit
  <2>2. ASSUME TouchOrder("committer") PROVE ~raced'
    <3>1. \A u \in Committing \ {"committer"} :
             pc[u] \notin {"insert", "loop", "remove", "put", "ack"}
      BY DEF Alone, Committing
    <3> QED
      BY <2>2, <3>1, Zenon DEF TouchOrder, Alone
  <2>3. ~raced'
    BY <1>3, <2>2
       DEF Alone, DoCommit, CommitRound, SkipCommit, NeedCommit, RaiseGate, Recheck, TestResps, PopResponse,
           Insert, AppendItem, RemoveFront, EndBlock, PutBlockList, Acknowledge, LowerGate,
           ThrowInCommit, CloseCommitter, Interval, MoreResponses, commit
  <2> QED
    BY <2>1, <2>3 DEF Alone
<1>4. CASE UNCHANGED vars
  BY <1>4 DEF vars, commit, control, Alone
<1> QED
  BY <1>1, <1>2, <1>3, <1>4, AloneNext

------------------------------------------------------------------------------
(* The gate *)

\* While the committer waits for the gate or commits, the gate is up; once it
\* has been let through, every worker is outside.
QuietInv ==
    /\ pc["committer"] \in {"popFor", "more"} => after["committer"] = "none"
    /\ pc["committer"] \in {"asleep", "woken"} => flushing
    /\ QuietWhileCommitting

\* When sem has its initial value nobody is inside.
LEMMA NobodyInside ==
    ASSUME TypeInv, sem = Cardinality(Workers)
    PROVE  Working = {}
<1>1. IsFiniteSet(Workers) /\ Outside \subseteq Workers
  BY UploaderAssumption DEF Outside
<1>2. Outside = Workers
  BY <1>1, FS_Subset DEF TypeInv, SemCount
<1> QED
  BY <1>2 DEF Outside, Working

\* What does not touch the gate keeps it, if nobody enters and the committer does
\* not begin to collect.
LEMMA QuietFrame ==
    ASSUME QuietInv, flushing' = flushing, Working' \subseteq Working,
           Collecting("committer")' => Collecting("committer"),
           pc'["committer"] \in {"popFor", "more"} => after'["committer"] = "none",
           pc'["committer"] \in {"asleep", "woken"} => pc["committer"] \in {"asleep", "woken"}
    PROVE  QuietInv'
  BY DEF QuietInv, QuietWhileCommitting

\* Every step keeps the gate.  A worker passes it only while `flushing' is
\* false; the committer only while nobody is inside.
LEMMA QuietStep ==
    ASSUME TypeInv, Alone, QuietInv, [StreamNext]_vars
    PROVE  QuietInv'
<1> DEFINE here == pc["committer"]
<1>0. /\ pc \in [Committing -> ThreadAt] /\ "committer" \in Committing
      /\ wpc \in [Workers -> WorkerAt]
      /\ after \in [Committing -> {"none", "flush", "destroy", "count", "timeout", "exit"}]
  BY DEF TypeInv, TypeOK, Committing
<1>1. CASE UNCHANGED <<flushing, pc, after, wpc>>
  BY <1>1, QuietFrame DEF QuietInv, Working, Collecting
<1>2. ASSUME NEW w \in Workers, TakeJob(w) \/ ExitWorker(w) \/ StageBlock(w) \/ Respond(w)
      PROVE  QuietInv'
  <2>1. UNCHANGED <<flushing, pc, after>>
    BY <1>2 DEF TakeJob, ExitWorker, StageBlock, Respond, gate, control
  <2>2. Working' \subseteq Working
    BY <1>0, <1>2 DEF TakeJob, ExitWorker, StageBlock, Respond, Advance, Working
  <2> QED
    BY <2>1, <2>2, QuietFrame DEF QuietInv, Collecting
<1>3. ASSUME NEW w \in Workers, EnterJob(w) PROVE QuietInv'
  <2>1. ~flushing /\ UNCHANGED <<flushing, pc, after>>
    BY <1>3 DEF EnterJob, control
  <2>2. ~Collecting("committer")
    BY <2>1 DEF QuietInv, QuietWhileCommitting
  <2> QED
    BY <2>1, <2>2 DEF QuietInv, QuietWhileCommitting, Collecting
<1>4. ASSUME NEW w \in Workers, LeaveJob(w) PROVE QuietInv'
  <2>1. UNCHANGED <<flushing, after>>
    BY <1>4 DEF LeaveJob
  <2>2. Working' \subseteq Working
    BY <1>0, <1>4 DEF LeaveJob, Advance, Working
  <2>3. \/ pc'["committer"] = pc["committer"]
        \/ pc["committer"] = "asleep" /\ pc'["committer"] = "woken"
    <3>1. CASE pc' = pc
      BY <3>1
    <3>2. CASE \E t \in Committing : pc[t] = "asleep" /\ Goto(t, "woken")
      BY <1>0, <3>2 DEF Goto
    <3> QED
      BY <1>4, <3>1, <3>2 DEF LeaveJob
  <2> QED
    BY <2>1, <2>2, <2>3, QuietFrame DEF QuietInv, Collecting
<1>5. CASE SkipCommit("committer") \/ LowerGate("committer")
  <2>1. after'["committer"] = "none" /\ wpc' = wpc
    BY <1>0, <1>5 DEF SkipCommit, LowerGate, Return, worker
  <2>2. pc'["committer"] \in {"idle", "closing", "exited", "popFor"}
    BY <1>0, <1>5 DEF SkipCommit, LowerGate, Return, Goto
  <2> QED
    BY <2>1, <2>2 DEF QuietInv, QuietWhileCommitting, Collecting
<1>6. CASE NeedCommit("committer") \/ CloseCommitter \/ Interval
           \/ ThrowInCommit("committer")
  <2>1. pc'["committer"] \in {"check", "raise", "exited"}
    BY <1>0, <1>6 DEF NeedCommit, CloseCommitter, Interval, ThrowInCommit, BeginCommit, Goto
  <2> QED
    BY <2>1 DEF QuietInv, QuietWhileCommitting, Collecting
<1>7. CASE RaiseGate("committer") \/ Recheck("committer")
  <2>1. flushing'
    BY <1>7 DEF RaiseGate, Recheck, QuietInv, gate
  <2>2. Working' = Working
    BY <1>7 DEF RaiseGate, Recheck, worker, Working
  <2>3. CASE sem = Cardinality(Workers)
    <3>1. pc'["committer"] = "drain" /\ Working = {}
      BY <1>0, <1>7, <2>3, NobodyInside DEF RaiseGate, Recheck, AwaitQuiet, Goto
    <3> QED
      BY <2>1, <2>2, <3>1 DEF QuietInv, QuietWhileCommitting
  <2>4. CASE sem # Cardinality(Workers)
    <3>1. pc'["committer"] = "asleep"
      BY <1>0, <1>7, <2>4 DEF RaiseGate, Recheck, AwaitQuiet, Goto
    <3> QED
      BY <2>1, <3>1 DEF QuietInv, QuietWhileCommitting, Collecting
  <2> QED
    BY <2>3, <2>4
<1>8. CASE TestResps("committer") \/ PopResponse("committer") \/ Insert("committer")
           \/ AppendItem("committer") \/ RemoveFront("committer")
           \/ PutBlockList("committer") \/ Acknowledge("committer")
  <2>1. UNCHANGED <<flushing, after, wpc>>
    BY <1>8 DEF TestResps, PopResponse, Insert, AppendItem, RemoveFront, PutBlockList,
                Acknowledge, gate, worker
  <2>2. /\ here \in {"drain", "pop", "popFor", "insert", "loop", "remove", "put", "ack"}
        /\ pc'["committer"] \in {"pop", "insert", "loop", "remove", "put", "ack", "lower"}
    BY <1>0, <1>8 DEF TestResps, PopResponse, Insert, AppendItem, RemoveFront, PutBlockList,
                      Acknowledge, Goto
  <2>3. Working' \subseteq Working
    BY <2>1 DEF Working
  <2> QED
    BY <2>1, <2>2, <2>3, QuietFrame DEF QuietInv, Collecting
<1>9. CASE EndBlock("committer")
  <2>1. UNCHANGED <<flushing, after, wpc>> /\ here = "loop"
    BY <1>9 DEF EndBlock, gate, worker
  <2>2. pc'["committer"] = IF after["committer"] = "none" THEN "more" ELSE "drain"
    BY <1>0, <1>9 DEF EndBlock, Goto
  <2>3. Working' \subseteq Working
    BY <2>1 DEF Working
  <2> QED
    BY <2>1, <2>2, <2>3, QuietFrame DEF Collecting
<1>10. CASE MoreResponses
  <2>1. UNCHANGED <<flushing, wpc>> /\ here = "more" /\ after["committer"] = "none"
    BY <1>10 DEF MoreResponses, gate, worker, QuietInv
  <2>2. \/ pc'["committer"] = "popFor" /\ after' = after
        \/ pc'["committer"] = "check"
    BY <1>0, <1>10 DEF MoreResponses, BeginCommit, Goto
  <2> QED
    BY <2>1, <2>2 DEF QuietInv, QuietWhileCommitting, Collecting
<1>11. ASSUME NEW n \in FrameSizes, Buffer(n) \/ UploadBlock(n) PROVE QuietInv'
  BY <1>1, <1>11 DEF Buffer, UploadBlock, gate, worker, control
<1>12. CASE DoCommit("committer")
  BY <1>5, <1>6, <1>7, <1>8, <1>9, <1>12 DEF DoCommit, CommitRound
<1>13. ASSUME NEW w \in Workers, Worker(w) PROVE QuietInv'
  BY <1>2, <1>3, <1>4, <1>13 DEF Worker, Round
<1>14. CASE UNCHANGED vars
  BY <1>1, <1>14 DEF vars, gate, worker, control
<1> QED
  BY <1>6, <1>10, <1>11, <1>12, <1>13, <1>14, AloneNext

------------------------------------------------------------------------------
(* The blob has no more blocks than the stream *)

Below(seq) == \A i \in DOMAIN seq : seq[i] < nextId

\* Every block on its way was cut from the stream, and so was every block that
\* the list has, or is about to have.
CutInv ==
    /\ Below(reqs) /\ Below(resps)
    /\ \A w \in Workers : job[w] < nextId
    /\ \A id \in window : id < nextId
    /\ resp["committer"] < nextId
    /\ nextCommitId <= nextId
    /\ pc["committer"] = "remove" => nextCommitId < nextId

\* What a queue delivers and keeps is bounded by what bounds its content.
LEMMA BelowPop ==
    ASSUME NEW seq \in Seq(Nat), seq # <<>>, Below(seq)
    PROVE  Head(seq) \in Nat /\ Head(seq) < nextId /\ Below(Tail(seq))
  BY DEF Below

\* A queue of such blocks takes another.
LEMMA BelowPush ==
    ASSUME NEW seq \in Seq(Nat), Below(seq), NEW id \in Nat, id < nextId
    PROVE  Below(Append(seq, id))
  BY DEF Below

\* Every step keeps what is on its way within the stream.
LEMMA CutStep ==
    ASSUME TypeOK, Alone, CutInv, [StreamNext]_vars
    PROVE  CutInv'
<1>0. /\ pc \in [Committing -> ThreadAt] /\ "committer" \in Committing
      /\ job \in [Workers -> Nat] /\ resp \in [Committing -> Nat]
      /\ reqs \in Seq(Nat) /\ resps \in Seq(Nat) /\ window \subseteq Nat
      /\ nextId \in Nat \ {0} /\ nextCommitId \in Nat
  BY DEF TypeOK, Committing
<1>1. ASSUME UNCHANGED <<nextId, nextCommitId, reqs, resps, job, window, resp>>,
             pc'["committer"] = "remove" => pc["committer"] = "remove"
      PROVE  CutInv'
  BY <1>1 DEF CutInv, Below
<1>2. ASSUME NEW n \in FrameSizes, UploadBlock(n) PROVE CutInv'
  <2>1. /\ nextId' = nextId + 1 /\ reqs' = Append(reqs, nextId)
        /\ UNCHANGED <<nextCommitId, resps, job, window, resp, pc>>
    BY <1>2 DEF UploadBlock, Cut, Reqs!Push, commit, order, worker, control
  <2>2. \A k \in Nat : k < nextId => k < nextId'
    BY <1>0, <2>1
  <2>3. Below(reqs)'
    BY <1>0, <2>1 DEF CutInv, Below
  <2>4. Below(resps)'
    BY <1>0, <2>1 DEF CutInv, Below
  <2>5. \A w \in Workers : job'[w] < nextId'
    BY <1>0, <2>1, <2>2 DEF CutInv
  <2>6. \A id \in window' : id < nextId'
    BY <1>0, <2>1, <2>2 DEF CutInv
  <2>7. resp'["committer"] < nextId' /\ nextCommitId' < nextId'
    BY <1>0, <2>1 DEF CutInv
  <2> QED
    BY <1>0, <2>1, <2>3, <2>4, <2>5, <2>6, <2>7 DEF CutInv
<1>3. ASSUME NEW w \in Workers, TakeJob(w) PROVE CutInv'
  <2>1. /\ reqs # <<>> /\ reqs' = Tail(reqs) /\ job' = [job EXCEPT ![w] = Head(reqs)]
        /\ UNCHANGED <<nextId, nextCommitId, resps, window, resp, pc>>
    BY <1>3 DEF TakeJob, Reqs!Pop, stream, commit, order, control
  <2>2. Head(reqs) \in Nat /\ Head(reqs) < nextId /\ Below(Tail(reqs))
    BY <1>0, <2>1, BelowPop DEF CutInv
  <2>3. Below(reqs)' /\ Below(resps)'
    BY <2>1, <2>2 DEF CutInv, Below
  <2>4. \A v \in Workers : job'[v] < nextId'
    BY <1>0, <2>1, <2>2 DEF CutInv
  <2> QED
    BY <2>1, <2>3, <2>4 DEF CutInv
<1>4. ASSUME NEW w \in Workers, ExitWorker(w) \/ EnterJob(w) \/ StageBlock(w) PROVE CutInv'
  BY <1>1, <1>4 DEF ExitWorker, EnterJob, StageBlock, stream, commit, order, channels, control
<1>5. ASSUME NEW w \in Workers, LeaveJob(w) PROVE CutInv'
  <2>1. CASE pc' = pc
    BY <1>1, <1>5, <2>1 DEF LeaveJob, stream, commit, order, channels
  <2>2. CASE \E t \in Committing : Goto(t, "woken")
    BY <1>0, <1>1, <1>5, <2>2 DEF LeaveJob, Goto, stream, commit, order, channels
  <2> QED
    BY <1>5, <2>1, <2>2 DEF LeaveJob
<1>6. ASSUME NEW w \in Workers, Respond(w) PROVE CutInv'
  <2>1. /\ resps' = Append(resps, job[w]) /\ job' = [job EXCEPT ![w] = 0]
        /\ UNCHANGED <<nextId, nextCommitId, reqs, window, resp, pc>>
    BY <1>6 DEF Respond, Resps!Push, stream, commit, order, control
  <2>2. Below(Append(resps, job[w]))
    BY <1>0, BelowPush DEF CutInv
  <2>3. Below(reqs)' /\ Below(resps)'
    BY <2>1, <2>2 DEF CutInv, Below
  <2>4. \A v \in Workers : job'[v] < nextId'
    BY <1>0, <2>1 DEF CutInv
  <2> QED
    BY <2>1, <2>3, <2>4 DEF CutInv
<1>7. CASE PopResponse("committer")
  <2>1. /\ resps # <<>> /\ resps' = Tail(resps)
        /\ resp' = [resp EXCEPT !["committer"] = Head(resps)]
        /\ UNCHANGED <<nextId, nextCommitId, reqs, job, window>>
    BY <1>7 DEF PopResponse, Resps!Pop, stream, order, worker
  <2>2. Head(resps) \in Nat /\ Head(resps) < nextId /\ Below(Tail(resps))
    BY <1>0, <2>1, BelowPop DEF CutInv
  <2>3. Below(reqs)' /\ Below(resps)'
    BY <2>1, <2>2 DEF CutInv, Below
  <2>4. resp'["committer"] < nextId' /\ pc'["committer"] # "remove"
    BY <1>0, <1>7, <2>1, <2>2 DEF PopResponse, Goto
  <2> QED
    BY <2>1, <2>3, <2>4 DEF CutInv
<1>8. CASE Insert("committer")
  <2>1. /\ window' = window \cup {resp["committer"]}
        /\ resp' = [resp EXCEPT !["committer"] = 0] /\ pc'["committer"] = "loop"
        /\ UNCHANGED <<nextId, nextCommitId, reqs, resps, job>>
    BY <1>0, <1>8 DEF Insert, Goto, stream, channels, worker
  <2> QED
    BY <1>0, <2>1 DEF CutInv, Below
<1>9. CASE AppendItem("committer")
  <2>1. UNCHANGED <<nextId, nextCommitId, reqs, resps, job, window, resp>>
    BY <1>9 DEF AppendItem, stream, channels, worker
  <2>2. nextCommitId < nextId
    BY <1>9 DEF AppendItem, NextIsReady, CutInv
  <2> QED
    BY <2>1, <2>2 DEF CutInv, Below
<1>10. CASE RemoveFront("committer")
  <2>1. /\ window' \subseteq window /\ nextCommitId' = nextCommitId + 1
        /\ pc["committer"] = "remove" /\ pc'["committer"] = "loop"
        /\ UNCHANGED <<nextId, reqs, resps, job, resp>>
    BY <1>0, <1>10 DEF RemoveFront, Goto, stream, channels, worker
  <2>2. nextCommitId' <= nextId'
    BY <1>0, <2>1 DEF CutInv
  <2> QED
    BY <2>1, <2>2 DEF CutInv, Below
<1>11. CASE SkipCommit("committer") \/ NeedCommit("committer") \/ RaiseGate("committer")
            \/ Recheck("committer") \/ TestResps("committer") \/ EndBlock("committer")
            \/ PutBlockList("committer") \/ Acknowledge("committer")
            \/ LowerGate("committer") \/ ThrowInCommit("committer")
            \/ CloseCommitter \/ Interval \/ MoreResponses
  <2>1. UNCHANGED <<nextId, nextCommitId, reqs, resps, job, window, resp>>
    BY <1>11 DEF SkipCommit, NeedCommit, RaiseGate, Recheck, TestResps, EndBlock, PutBlockList,
                 Acknowledge, LowerGate, ThrowInCommit, CloseCommitter, Interval,
                 MoreResponses, stream, commit, order, channels, worker
  <2>2. \A where : Goto("committer", where) => pc'["committer"] = where
    BY <1>0 DEF Goto
  <2>3. Return("committer") => pc'["committer"] \in {"idle", "closing", "exited", "popFor"}
    BY <1>0 DEF Return, Goto
  <2>4. pc'["committer"] = "remove" => pc["committer"] = "remove"
    BY <1>11, <2>2, <2>3
       DEF SkipCommit, NeedCommit, RaiseGate, Recheck, TestResps, EndBlock, PutBlockList,
           Acknowledge, LowerGate, ThrowInCommit, CloseCommitter, Interval, MoreResponses,
           BeginCommit, AwaitQuiet
  <2> QED
    BY <1>1, <2>1, <2>4
<1>12. ASSUME NEW n \in FrameSizes, Buffer(n) PROVE CutInv'
  BY <1>1, <1>12 DEF Buffer, commit, order, channels, worker, control
<1>13. CASE UNCHANGED vars
  BY <1>1, <1>13 DEF vars, stream, commit, order, channels, worker, control
<1>14. CASE DoCommit("committer")
  BY <1>7, <1>8, <1>9, <1>10, <1>11, <1>14 DEF DoCommit, CommitRound
<1>15. ASSUME NEW w \in Workers, Worker(w) PROVE CutInv'
  BY <1>3, <1>4, <1>5, <1>6, <1>15 DEF Worker, Round
<1> QED
  BY <1>2, <1>11, <1>12, <1>13, <1>14, <1>15, AloneNext

------------------------------------------------------------------------------
(* The theorems *)

StreamInv == TypeInv /\ ListInv /\ Alone /\ QuietInv /\ CutInv

\* Initially nothing is on its way and nobody commits.
LEMMA StreamInit == Init => StreamInv
<1> SUFFICES ASSUME Init PROVE StreamInv
  OBVIOUS
<1>1. pc["client"] = "idle" /\ pc["committer"] = "popFor" /\ after["committer"] = "none"
  BY DEF Init, Committing
<1>2. Alone
  BY <1>1 DEF Init, Alone
<1>3. QuietInv
  BY <1>1 DEF QuietInv, QuietWhileCommitting, Collecting
<1>4. CutInv
  BY <1>1 DEF Init, Reqs!Init, Resps!Init, CutInv, Below, Committing
<1> QED
  BY <1>2, <1>3, <1>4, TypeInit, ListInit DEF StreamInv

\* Every step keeps all of it while the client only streams.
LEMMA StreamStep ==
    ASSUME StreamInv, [StreamNext]_vars
    PROVE  StreamInv'
<1>1. TypeOK
  BY DEF StreamInv, TypeInv
<1> QED
  BY <1>1, StreamIsNext, NextIsAny, TypeStep, ListStep, AloneStep, QuietStep, CutStep DEF StreamInv

\* While the client only streams, no worker is between enterJob() and leaveJob()
\* when the committer collects responses and commits (waitFlush(), hpp lines
\* 94-99): no block is staged behind its back.
THEOREM QuietWhileCommittingHolds ==
    StreamSpec => []QuietWhileCommitting
<1>1. StreamInv /\ [StreamNext]_vars => StreamInv'
  BY StreamStep
<1>2. StreamInv => QuietWhileCommitting
  BY DEF StreamInv, QuietInv
<1> QED
  BY StreamInit, <1>1, <1>2, PTL DEF StreamSpec

\* What a commit makes of the blob.
LEMMA CommitExtends ==
    ASSUME StreamInv, PutBlockList("committer")
    PROVE  Log!Extend
<1>1. /\ pc["committer"] = "put" /\ "committer" \in Committing
      /\ blob' = Ids(blockList) /\ nextId' = nextId
  BY DEF PutBlockList, Committing, stream
<1>2. OneInside /\ ListInOrder /\ BlobInList
  BY DEF StreamInv, ListInv, Alone
<1>3. \A u \in Committing : pc[u] # "remove"
  BY <1>1, <1>2 DEF OneInside, Unlocked
<1>4. blob' = Prefix(nextCommitId - 1)
  BY <1>1, <1>2, <1>3 DEF ListInOrder
<1>5. /\ nextCommitId \in Nat \ {0} /\ nextId \in Nat \ {0} /\ Len(blob) \in Nat
      /\ nextCommitId <= nextId /\ Len(blob) < nextCommitId
  BY <1>2 DEF StreamInv, TypeInv, TypeOK, CutInv, BlobInList
<1>6. nextCommitId - 1 \in Len(blob) .. nextId - 1
  BY <1>5
<1> QED
  BY <1>1, <1>4, <1>6 DEF Log!Extend, Log!Prefix, Prefix

\* While the client only streams, the block uploader implements the abstract
\* blob: a cut accepts a block, a commit extends the blob by blocks of the stream
\* in order, and every other step stutters.
THEOREM ImplementsBlobLogHolds ==
    StreamSpec => ImplementsBlobLog
<1>1. Init => Log!Init
  BY DEF Init, Log!Init, Log!Prefix
<1>2. StreamInv /\ [StreamNext]_vars => StreamInv'
  BY StreamStep
<1>3. StreamInv /\ [StreamNext]_vars => [Log!Next]_Log!vars
  <2> SUFFICES ASSUME StreamInv, [StreamNext]_vars PROVE [Log!Next]_Log!vars
    OBVIOUS
  <2>1. ASSUME NEW n \in FrameSizes, UploadBlock(n) PROVE Log!Accept
    <3>1. nextId' = nextId + 1 /\ blob' = blob
      BY <2>1 DEF UploadBlock, Cut, service
    <3>2. nextId \in Nat \ {0}
      BY DEF StreamInv, TypeInv, TypeOK
    <3> QED
      BY <3>1, <3>2 DEF Log!Accept
  <2>2. CASE PutBlockList("committer")
    BY <2>2, CommitExtends DEF Log!Next
  <2>3. CASE UNCHANGED <<nextId, blob>>
    BY <2>3 DEF Log!vars
  <2>4. ASSUME NEW n \in FrameSizes, Buffer(n) PROVE UNCHANGED <<nextId, blob>>
    BY <2>4 DEF Buffer, service
  <2>5. ASSUME NEW w \in Workers, Worker(w) PROVE UNCHANGED <<nextId, blob>>
    BY <2>5 DEF Worker, Round, TakeJob, ExitWorker, EnterJob, StageBlock, Respond, LeaveJob,
                stream, service
  <2>6. ASSUME DoCommit("committer") PROVE PutBlockList("committer") \/ UNCHANGED <<nextId, blob>>
    BY <2>6 DEF DoCommit, CommitRound, SkipCommit, NeedCommit, RaiseGate, Recheck, TestResps, PopResponse,
                Insert, AppendItem, RemoveFront, EndBlock, Acknowledge, LowerGate,
                ThrowInCommit, stream, service
  <2>7. ASSUME CloseCommitter \/ Interval \/ MoreResponses PROVE UNCHANGED <<nextId, blob>>
    BY <2>7 DEF CloseCommitter, Interval, MoreResponses, stream, service
  <2>8. UNCHANGED vars => UNCHANGED <<nextId, blob>>
    BY DEF vars, stream, service
  <2>9. StreamInv => Alone
    BY DEF StreamInv
  <2> QED
    BY <2>1, <2>2, <2>3, <2>4, <2>5, <2>6, <2>7, <2>8, <2>9, AloneNext DEF Log!Next
<1> QED
  BY StreamInit, <1>2, <1>1, <1>3, PTL DEF StreamSpec, ImplementsBlobLog, Log!Spec

------------------------------------------------------------------------------
(* The names of the blocks *)

\* The ids that have been given out; MaxBlocks bounds them in a behaviour.
IdsBounded == nextId \in Nat \ {0} /\ nextId - 1 <= MaxBlocks

LEMMA BoundedInit == Init => IdsBounded
  BY UploaderAssumption DEF Init, IdsBounded

\* Only Cut gives out an id, and the next one.
LEMMA BoundedStep == ASSUME IdsBounded, AnyStep PROVE IdsBounded'
<1>1. nextId' = nextId \/ Cut
  BY DEF AnyStep, Next, Client, Upload, Worker, Round, Committer, DoCommit, CommitRound, vars, stream,
       Buffer, UploadBlock, BeginFlush, WaitEmpty, CloseReqs, CloseResps, Destroyed,
       TakeJob, ExitWorker, EnterJob, StageBlock, Respond, LeaveJob, SkipCommit,
       NeedCommit, RaiseGate, Recheck, TestResps, PopResponse, Insert, AppendItem,
       RemoveFront, EndBlock, PutBlockList, Acknowledge, LowerGate, ThrowInCommit, CloseCommitter,
       Interval, MoreResponses
<1>2. CASE nextId' = nextId
  BY <1>2 DEF IdsBounded
<1>3. CASE Cut
  <2>1. nextId <= MaxBlocks /\ nextId' = nextId + 1
    BY <1>3 DEF Cut
  <2> QED
    BY <2>1, UploaderAssumption DEF IdsBounded
<1> QED
  BY <1>1, <1>2, <1>3

\* The ids to come, and those given out, are numbers of a long long.
LEMMA FarIdsFit == FarIds \subseteq LongLong
<1>1. LongLongEnd \in Nat /\ 2147483647 < LongLongEnd
  <2> DEFINE b == 256 * (256 * (256 * 128))
  <2>1. b \in Nat /\ 2147483647 < b
    BY SMT
  <2>2. LongLongEnd = 256 * (256 * (256 * (256 * b)))
    BY DEF LongLongEnd
  <2> HIDE DEF b
  <2> QED
    BY <2>1, <2>2, SMT
<1>2. \A id \in FarIds : id \in Nat /\ id <= 2147483647
  BY SMT DEF FarIds
<1>3. \A id \in FarIds : id \in Nat /\ id < LongLongEnd
  BY <1>1, <1>2, SMT
<1> QED
  BY <1>3, SMT DEF LongLong

LEMMA IdsFit ==
    ASSUME MaxBlocks \in LongLong, IdsBounded
    PROVE  1 .. nextId - 1 \subseteq LongLong
<1>1. LongLongEnd \in Nat
  BY SMT DEF LongLongEnd
<1>2. MaxBlocks \in Nat /\ MaxBlocks < LongLongEnd
  BY SMT DEF LongLong
<1>3. \A id \in 1 .. nextId - 1 : id \in Nat /\ id < LongLongEnd
  BY <1>1, <1>2, SMT DEF IdsBounded
<1> QED
  BY <1>3, SMT DEF LongLong

\* The newest block has a name of its own, as long as all the others
\* (blockazureuploader.cpp:139, base64.cpp:56-58), as long as a long long counts
\* the blocks and whatever stands behind the buffer that base64_encode() prints.
THEOREM NamesIdentifyBlocksHolds ==
    ASSUME MaxBlocks \in LongLong
    PROVE  Spec => []NamesIdentifyBlocks
<1>1. ASSUME IdsBounded, nextId > 1, NEW behind \in Seq(Nat),
             NEW id \in ((1 .. nextId - 2) \cup FarIds) \ {nextId - 1}
      PROVE  LET newest == Name(nextId - 1, behind)  other == Name(id, behind)
             IN /\ newest # other
                /\ [g \in DOMAIN newest |-> Len(newest[g])] = [g \in DOMAIN other |-> Len(other[g])]
  <2>1. nextId - 1 # id /\ (id \in FarIds \/ id \in 1 .. nextId - 2)
    OBVIOUS
  <2>2. nextId - 1 \in 1 .. nextId - 1 /\ 1 .. nextId - 2 \subseteq 1 .. nextId - 1
    BY <1>1 DEF IdsBounded
  <2>3. nextId - 1 \in LongLong /\ id \in LongLong
    BY <1>1, <2>1, <2>2, FarIdsFit, IdsFit, Zenon
  <2> QED
    BY ONLY <2>1, <2>3, behind \in Seq(Nat), NameIdentifiesId, Zenon
<1>2. <<>> \in Seq(Nat) /\ <<7, 7>> \in Seq(Nat)
  OBVIOUS
<1>3. IdsBounded => NamesIdentifyBlocks
  BY <1>1, <1>2, Zenon DEF NamesIdentifyBlocks
<1> QED
  BY BoundedInit, BoundedStep, NextIsAny, <1>3, PTL DEF Spec

\* The name of every block, and of far ids, is the base64 of its id, where nothing
\* stands behind the buffer.
THEOREM NamesAreBase64Holds == Spec => []NamesAreBase64
<1>1. IdsBounded => NamesAreBase64
  <2> SUFFICES ASSUME IdsBounded, NEW id \in {nextId - 1} \cup FarIds
               PROVE  IsBase64(Name(id, <<>>), BytesOfId(id))
    BY DEF NamesAreBase64
  <2>1. id \in Nat
    BY DEF IdsBounded, FarIds
  <2> QED
    BY <2>1, NameIsBase64
<1> QED
  BY BoundedInit, BoundedStep, NextIsAny, <1>1, PTL DEF Spec
==============================================================================

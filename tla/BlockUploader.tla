---------------------------- MODULE BlockUploader ----------------------------
(***************************************************************************)
(* BlockAzureUploader (src/blockazureuploader.cpp and its header): the     *)
(* client of one block blob, its upload workers, its committer, and the    *)
(* storage service they write to.                                          *)
(*                                                                         *)
(*   client     cuts the stream into numbered blocks and pushes them to    *)
(*              `reqs'; flush() and destroy() also commit                  *)
(*   worker     takes a block, enters the flush gate, stages the block     *)
(*              (Put Block, retried until it succeeds), pushes its id to   *)
(*              `resps', leaves the gate                                   *)
(*   committer  reassembles the ids in order and commits the block list    *)
(*              (Put Block List), when enough blocks are ready, after an   *)
(*              interval, and on exit                                      *)
(*                                                                         *)
(* The gate: before a commit, waitFlush() raises `flushing', which keeps   *)
(* workers out, and sleeps until no worker is inside (sem = worker_count). *)
(* doCommit() is called by the committer AND by the client, so every step  *)
(* of it is modelled per thread.  The two channels are atomic queues;      *)
(* BlockingQueue shows what is behind them.  A block is its number, from   *)
(* which Base64 makes the name that the service knows it by.               *)
(***************************************************************************)
EXTENDS Naturals, Sequences, FiniteSets, Base64

CONSTANTS
    Workers,           \* the upload threads (worker_count of them)
    BlockSize,         \* block_size
    FrameSizes,        \* sizes of the frames the client uploads
    CommitBlockCount,  \* commit_block_count
    ClientCalls,       \* which of "flush", "destroy" the client may call
    MaxBlocks          \* bound: blocks cut from the stream in a behaviour

ASSUME UploaderAssumption ==
    /\ IsFiniteSet(Workers) /\ Workers # {}
    /\ BlockSize \in Nat \ {0}
    /\ FrameSizes \subseteq Nat \ {0}
    /\ CommitBlockCount \in Nat
    /\ ClientCalls \subseteq {"flush", "destroy"}
    /\ MaxBlocks \in Nat

VARIABLES
    buffered,    \* bytes in `stream'
    nextId, nextCommitId, committedId, window,
    blockList,   \* block_list; an item is an id and a block_type
    reqs, reqsClosed, resps, respsClosed,
    flushing, sem,
    job,         \* the block each worker holds, 0 for none
    wpc,         \* where each worker is
    pc,          \* where the client and the committer are
    after,       \* what each does when doCommit() returns
    resp,        \* the response each has popped
    staged,      \* service: the uncommitted blocks
    blob,        \* service: the committed blocks, what a reader sees
    raced        \* history: both threads were in unlocked commit state at once

stream == <<buffered, nextId>>
order == <<nextCommitId, committedId, window, blockList>>
commit == <<order, raced>>
channels == <<reqs, reqsClosed, resps, respsClosed>>
gate == <<flushing, sem>>
worker == <<job, wpc>>
control == <<pc, after, resp>>
service == <<staged, blob>>
vars == <<stream, commit, channels, gate, worker, control, service>>

Reqs == INSTANCE AtomicQueue WITH Value <- Nat, q <- reqs, closed <- reqsClosed
Resps == INSTANCE AtomicQueue WITH Value <- Nat, q <- resps, closed <- respsClosed

Committing == {"client", "committer"}
WorkerAt == {"pop", "gate", "upload", "respond", "leave", "exited", "stranded"}
CommitAt == {"check", "raise", "asleep", "woken", "drain", "pop", "insert",
             "loop", "remove", "put", "ack", "lower"}
ThreadAt == CommitAt \cup {"idle", "waitEmpty", "closing", "joinWorkers",
                "joinCommitter", "destroyed", "popFor", "more", "exited", "stranded"}

Item == [id : Nat, type : {"latest", "committed"}]

TypeOK ==
    /\ buffered \in Nat
    /\ nextId \in Nat \ {0} /\ nextCommitId \in Nat \ {0} /\ committedId \in Nat
    /\ window \subseteq Nat
    /\ blockList \in Seq(Item)
    /\ reqs \in Seq(Nat) /\ reqsClosed \in BOOLEAN
    /\ resps \in Seq(Nat) /\ respsClosed \in BOOLEAN
    /\ flushing \in BOOLEAN /\ sem \in 0 .. Cardinality(Workers)
    /\ job \in [Workers -> Nat] /\ wpc \in [Workers -> WorkerAt]
    /\ pc \in [Committing -> ThreadAt]
    /\ after \in [Committing -> {"none", "flush", "destroy", "count", "timeout", "exit"}]
    /\ resp \in [Committing -> Nat]
    /\ staged \subseteq Nat /\ blob \in Seq(Nat)
    /\ raced \in BOOLEAN

\* init(), lines 45-66
Init ==
    /\ buffered = 0
    /\ nextId = 1 /\ nextCommitId = 1 /\ committedId = 0
    /\ window = {} /\ blockList = <<>>
    /\ Reqs!Init /\ Resps!Init
    /\ flushing = FALSE /\ sem = Cardinality(Workers)
    /\ job = [w \in Workers |-> 0] /\ wpc = [w \in Workers |-> "pop"]
    /\ pc = [t \in Committing |-> IF t = "client" THEN "idle" ELSE "popFor"]
    /\ after = [t \in Committing |-> "none"]
    /\ resp = [t \in Committing |-> 0]
    /\ staged = {} /\ blob = <<>>
    /\ raced = FALSE

Goto(t, where) == pc' = [pc EXCEPT ![t] = where]

------------------------------------------------------------------------------
(* The client: upload(), flush(), destroy() *)

\* upload(), lines 69-83, of a frame that leaves the block short
Buffer(n) ==
    /\ pc["client"] = "idle"
    /\ buffered + n < BlockSize
    /\ buffered' = buffered + n
    /\ UNCHANGED <<nextId, commit, channels, gate, worker, control, service>>

\* a block is cut; a frame is never split
Cut ==
    /\ nextId <= MaxBlocks
    /\ Reqs!Push(nextId)
    /\ nextId' = nextId + 1
    /\ buffered' = 0

UploadBlock(n) ==
    /\ pc["client"] = "idle"
    /\ buffered + n >= BlockSize
    /\ Cut
    /\ UNCHANGED <<commit, resps, respsClosed, gate, worker, control, service>>

\* flush() and, through it, destroy(): push the remainder, lines 92-96
BeginFlush(call) ==
    /\ pc["client"] = "idle"
    /\ \/ buffered > 0 /\ Cut
       \/ buffered = 0 /\ UNCHANGED <<stream, reqs, reqsClosed>>
    /\ Goto("client", "waitEmpty")
    /\ after' = [after EXCEPT !["client"] = call]
    /\ UNCHANGED <<commit, resps, respsClosed, gate, worker, resp, service>>

\* fault: flush() closes the queue as destroy() does
WaitEmptyAndClose ==
    /\ pc["client"] = "waitEmpty"
    /\ reqs = <<>>
    /\ Reqs!Close
    /\ Goto("client", "check")
    /\ UNCHANGED <<stream, commit, resps, respsClosed, gate, worker, after, resp, service>>

\* reqs.wait_empty(), line 99
WaitEmpty ==
    /\ pc["client"] = "waitEmpty"
    /\ reqs = <<>>
    /\ Goto("client", "check")
    /\ UNCHANGED <<stream, commit, channels, gate, worker, after, resp, service>>

\* reqs.wait_empty() and reqs.close(), lines 114-115.  close() takes no lock:
\* the worker that is about to park at that moment sleeps on.
CloseReqs ==
    /\ pc["client"] = "closing"
    /\ reqs = <<>>
    /\ Reqs!Close
    /\ \/ UNCHANGED wpc
       \/ \E w \in Workers :
            wpc[w] = "pop" /\ wpc' = [wpc EXCEPT ![w] = "stranded"]
    /\ Goto("client", "joinWorkers")
    /\ UNCHANGED <<stream, commit, resps, respsClosed, gate, job, after, resp, service>>

\* fault: the response queue is closed before the workers are joined
CloseRespsEarly ==
    /\ pc["client"] = "joinWorkers"
    /\ Resps!Close
    /\ Goto("client", "joinCommitter")
    /\ UNCHANGED <<stream, commit, reqs, reqsClosed, gate, worker, after, resp, service>>

\* join the workers and resps.close(), lines 117-121; a pop() of doCommit()
\* that is about to park sleeps on, pop_for() times out
CloseResps ==
    /\ pc["client"] = "joinWorkers"
    /\ \A w \in Workers : wpc[w] = "exited"
    /\ Resps!Close
    /\ \E where \in {pc["committer"]} \cup
                    (IF pc["committer"] = "pop" /\ resps = <<>> THEN {"stranded"} ELSE {}) :
         pc' = [pc EXCEPT !["client"] = "joinCommitter", !["committer"] = where]
    /\ UNCHANGED <<stream, commit, reqs, reqsClosed, gate, worker, after, resp, service>>

\* lines 122-124
Destroyed ==
    /\ pc["client"] = "joinCommitter"
    /\ pc["committer"] = "exited"
    /\ Goto("client", "destroyed")
    /\ UNCHANGED <<stream, commit, channels, gate, worker, after, resp, service>>

------------------------------------------------------------------------------
(* A worker: run(), lines 128-165 *)

Advance(w, from, to) ==
    /\ wpc[w] = from
    /\ wpc' = [wpc EXCEPT ![w] = to]

TakeJob(w) ==
    /\ Advance(w, "pop", "gate")
    /\ \E id \in {reqs[i] : i \in DOMAIN reqs} :
         Reqs!Pop(id) /\ job' = [job EXCEPT ![w] = id]
    /\ UNCHANGED <<stream, commit, resps, respsClosed, gate, control, service>>

\* ClosedException from reqs.pop()
ExitWorker(w) ==
    /\ Advance(w, "pop", "exited")
    /\ reqsClosed
    /\ UNCHANGED <<stream, commit, channels, gate, job, control, service>>

\* fault: a worker enters without looking at `flushing'
EnterUnchecked(w) ==
    /\ Advance(w, "gate", "upload")
    /\ sem' = sem - 1
    /\ UNCHANGED <<stream, commit, channels, flushing, job, control, service>>

\* enterJob(), hpp lines 80-85
EnterJob(w) ==
    /\ Advance(w, "gate", "upload")
    /\ ~flushing
    /\ sem' = sem - 1
    /\ UNCHANGED <<stream, commit, channels, flushing, job, control, service>>

\* Put Block.  An attempt that fails changes nothing and is repeated; one whose
\* answer is lost was applied and is repeated all the same.
StageBlock(w) ==
    /\ \/ Advance(w, "upload", "respond")
       \/ wpc[w] = "upload" /\ UNCHANGED wpc
    /\ staged' = staged \cup {job[w]}
    /\ UNCHANGED <<stream, commit, channels, gate, job, control, blob>>

\* resps.push(), line 161
Respond(w) ==
    /\ Advance(w, "respond", "leave")
    /\ Resps!Push(job[w])
    /\ job' = [job EXCEPT ![w] = 0]
    /\ UNCHANGED <<stream, commit, reqs, reqsClosed, gate, control, service>>

\* fault: sem++ is forgotten
LeaveUncounted(w) ==
    /\ Advance(w, "leave", "pop")
    /\ LET asleep == {t \in Committing : pc[t] = "asleep"} IN
       IF asleep = {} THEN UNCHANGED pc ELSE \E t \in asleep : Goto(t, "woken")
    /\ UNCHANGED <<stream, commit, channels, gate, job, after, resp, service>>

\* leaveJob(), hpp lines 86-92: complete_cond.notify_one() wakes one sleeper
LeaveJob(w) ==
    /\ Advance(w, "leave", "pop")
    /\ sem' = sem + 1
    /\ LET asleep == {t \in Committing : pc[t] = "asleep"} IN
       IF asleep = {} THEN UNCHANGED pc ELSE \E t \in asleep : Goto(t, "woken")
    /\ UNCHANGED <<stream, commit, channels, flushing, job, after, resp, service>>

------------------------------------------------------------------------------
(* doCommit(), lines 183-218, and commitBlock(), lines 168-180, by thread t *)

\* back in the caller of doCommit()
Return(t) ==
    /\ Goto(t, CASE after[t] = "flush" -> "idle"
                 [] after[t] = "destroy" -> "closing"
                 [] after[t] = "exit" -> "exited"
                 [] OTHER -> "popFor")
    /\ after' = [after EXCEPT ![t] = "none"]

\* line 185: nothing new to commit
SkipCommit(t) ==
    /\ pc[t] = "check"
    /\ nextCommitId = committedId + 1
    /\ Return(t)
    /\ UNCHANGED <<stream, commit, channels, gate, worker, resp, service>>

NeedCommit(t) ==
    /\ pc[t] = "check"
    /\ nextCommitId # committedId + 1
    /\ Goto(t, "raise")
    /\ UNCHANGED <<stream, commit, channels, gate, worker, after, resp, service>>

\* the predicate of complete_cond, hpp line 98
AwaitQuiet(t) == Goto(t, IF sem = Cardinality(Workers) THEN "drain" ELSE "asleep")

\* waitFlush(), hpp lines 94-99, until it sleeps or passes
RaiseGate(t) ==
    /\ pc[t] = "raise"
    /\ flushing' = TRUE
    /\ AwaitQuiet(t)
    /\ UNCHANGED <<stream, commit, channels, sem, worker, after, resp, service>>

\* waitFlush(), after a wake-up
Recheck(t) ==
    /\ pc[t] = "woken"
    /\ AwaitQuiet(t)
    /\ UNCHANGED <<stream, commit, channels, gate, worker, after, resp, service>>

\* t goes on to read and write window, nextCommitId, block_list, committedId:
\* none of them has a lock
TouchOrder(t) ==
    raced' = (raced \/ \E u \in Committing \ {t} :
                 pc[u] \in {"insert", "loop", "remove", "put", "ack"})

\* resps.empty(), line 190
TestResps(t) ==
    /\ pc[t] = "drain"
    /\ \/ resps = <<>> /\ Goto(t, "put") /\ TouchOrder(t)
       \/ resps # <<>> /\ Goto(t, "pop") /\ UNCHANGED raced
    /\ UNCHANGED <<stream, order, channels, gate, worker, after, resp, service>>

\* resps.pop(), line 192 (it waits when the other thread was faster), and
\* resps.pop_for(), line 235
PopResponse(t) ==
    /\ pc[t] \in {"pop", "popFor"}
    /\ \E id \in {resps[i] : i \in DOMAIN resps} :
         Resps!Pop(id) /\ resp' = [resp EXCEPT ![t] = id]
    /\ Goto(t, "insert")
    /\ TouchOrder(t)
    /\ UNCHANGED <<stream, order, reqs, reqsClosed, gate, worker, after, service>>

\* commitBlock(), lines 170-171
Insert(t) ==
    /\ pc[t] = "insert"
    /\ window' = window \cup {resp[t]}
    /\ resp' = [resp EXCEPT ![t] = 0]
    /\ Goto(t, "loop")
    /\ UNCHANGED <<stream, nextCommitId, committedId, blockList, raced, channels, gate,
                   worker, after, service>>

\* window.front() = nextCommitId, line 172.  On an empty window front() reads
\* the id popped last, which is below nextCommitId.
NextIsReady ==
    /\ nextCommitId \in window
    /\ \A id \in window : nextCommitId <= id

\* fault: the item is inserted before the others
PrependItem(t) ==
    /\ pc[t] = "loop"
    /\ NextIsReady
    /\ blockList' = <<[id |-> nextCommitId, type |-> "latest"]>> \o blockList
    /\ Goto(t, "remove")
    /\ UNCHANGED <<stream, nextCommitId, committedId, window, raced, channels, gate,
                   worker, after, resp, service>>

\* lines 174-175
AppendItem(t) ==
    /\ pc[t] = "loop"
    /\ NextIsReady
    /\ blockList' = Append(blockList, [id |-> nextCommitId, type |-> "latest"])
    /\ Goto(t, "remove")
    /\ UNCHANGED <<stream, nextCommitId, committedId, window, raced, channels, gate,
                   worker, after, resp, service>>

\* fault: the front stays in the window
KeepFront(t) ==
    /\ pc[t] = "remove"
    /\ nextCommitId' = nextCommitId + 1
    /\ Goto(t, "loop")
    /\ UNCHANGED <<stream, committedId, window, blockList, raced, channels, gate,
                   worker, after, resp, service>>

\* lines 176-178
RemoveFront(t) ==
    /\ pc[t] = "remove"
    /\ window' = {id \in window : \E lower \in window : lower < id}
    /\ nextCommitId' = nextCommitId + 1
    /\ Goto(t, "loop")
    /\ UNCHANGED <<stream, committedId, blockList, raced, channels, gate, worker,
                   after, resp, service>>

\* the end of commitBlock(): back to the drain loop or to runCommit()
EndBlock(t) ==
    /\ pc[t] = "loop"
    /\ ~NextIsReady
    /\ Goto(t, IF after[t] = "none" THEN "more" ELSE "drain")
    /\ UNCHANGED <<stream, commit, channels, gate, worker, after, resp, service>>

Ids(list) == [i \in DOMAIN list |-> list[i].id]

\* what the service finds each item in: "latest" the uncommitted blocks first
Known(item) ==
    \/ item.type = "latest" /\ item.id \in staged
    \/ \E i \in DOMAIN blob : blob[i] = item.id

\* Put Block List, line 201.  On success the list is the blob and every
\* uncommitted block it does not name is discarded ("otherwise data might be
\* lost", line 189).  A failure, also for an unknown block, is repeated; so is
\* a success whose answer is lost.
PutBlockList(t) ==
    /\ pc[t] = "put"
    /\ \A i \in DOMAIN blockList : Known(blockList[i])
    /\ blob' = Ids(blockList)
    /\ staged' = {}
    /\ Goto(t, "ack") \/ UNCHANGED pc
    /\ UNCHANGED <<stream, commit, channels, gate, worker, after, resp>>

\* fault: committed blocks leave the list
ForgetCommitted(t) ==
    /\ pc[t] = "ack"
    /\ committedId' = nextCommitId - 1
    /\ blockList' = <<>>
    /\ Goto(t, "lower")
    /\ UNCHANGED <<stream, nextCommitId, window, raced, channels, gate, worker,
                   after, resp, service>>

\* fault: the id of the next block is taken for the last committed one
AcknowledgeNext(t) ==
    /\ pc[t] = "ack"
    /\ committedId' = nextCommitId
    /\ blockList' = [i \in DOMAIN blockList |-> [blockList[i] EXCEPT !.type = "committed"]]
    /\ Goto(t, "lower")
    /\ UNCHANGED <<stream, nextCommitId, window, raced, channels, gate, worker,
                   after, resp, service>>

\* lines 206-213
Acknowledge(t) ==
    /\ pc[t] = "ack"
    /\ committedId' = nextCommitId - 1
    /\ blockList' = [i \in DOMAIN blockList |-> [blockList[i] EXCEPT !.type = "committed"]]
    /\ Goto(t, "lower")
    /\ UNCHANGED <<stream, nextCommitId, window, raced, channels, gate, worker,
                   after, resp, service>>

\* fault: `flushing' is not reset
LowerNothing(t) ==
    /\ pc[t] = "lower"
    /\ Return(t)
    /\ UNCHANGED <<stream, commit, channels, gate, worker, resp, service>>

\* disableFlush(), hpp lines 101-106
LowerGate(t) ==
    /\ pc[t] = "lower"
    /\ flushing' = FALSE
    /\ Return(t)
    /\ UNCHANGED <<stream, commit, channels, sem, worker, resp, service>>

\* ClosedException from the pop() of doCommit(): runCommit() catches it only
\* where line 240 made the call; elsewhere it ends the thread, gate raised
ThrowInCommit(t) ==
    /\ pc[t] = "pop"
    /\ respsClosed
    /\ IF after[t] = "count"
       THEN Goto(t, "check") /\ after' = [after EXCEPT ![t] = "exit"]
       ELSE Goto(t, "exited") /\ UNCHANGED after
    /\ UNCHANGED <<stream, commit, channels, gate, worker, resp, service>>

------------------------------------------------------------------------------
(* The committer: runCommit(), lines 221-255 *)

BeginCommit(why) ==
    /\ Goto("committer", "check")
    /\ after' = [after EXCEPT !["committer"] = why]

\* ClosedException from pop_for(): the commit on exit, line 253
CloseCommitter ==
    /\ pc["committer"] = "popFor"
    /\ respsClosed
    /\ BeginCommit("exit")
    /\ UNCHANGED <<stream, commit, channels, gate, worker, resp, service>>

\* TimeoutException, line 249
Interval ==
    /\ pc["committer"] = "popFor"
    /\ ~respsClosed
    /\ resps = <<>>
    /\ BeginCommit("timeout")
    /\ UNCHANGED <<stream, commit, channels, gate, worker, resp, service>>

\* lines 238-240
MoreResponses ==
    /\ pc["committer"] = "more"
    /\ \/ /\ resps # <<>> \/ nextCommitId - committedId <= CommitBlockCount
          /\ Goto("committer", "popFor")
          /\ UNCHANGED after
       \/ /\ resps = <<>>
          /\ nextCommitId - committedId > CommitBlockCount
          /\ BeginCommit("count")
    /\ UNCHANGED <<stream, commit, channels, gate, worker, resp, service>>

------------------------------------------------------------------------------
Upload == \E n \in FrameSizes : Buffer(n) \/ UploadBlock(n)

Client ==
    \/ Upload
    \/ \E call \in ClientCalls : BeginFlush(call)
    \/ WaitEmpty \/ CloseReqs \/ CloseResps \/ Destroyed

\* one round of a worker's loop
Round(w) ==
    \/ TakeJob(w) \/ EnterJob(w)
    \/ StageBlock(w) \/ Respond(w) \/ LeaveJob(w)

Worker(w) == Round(w) \/ ExitWorker(w)

\* doCommit() as long as the response queue stays open
CommitRound(t) ==
    \/ SkipCommit(t) \/ NeedCommit(t) \/ RaiseGate(t) \/ Recheck(t)
    \/ TestResps(t) \/ PopResponse(t) \/ Insert(t) \/ AppendItem(t)
    \/ RemoveFront(t) \/ EndBlock(t) \/ PutBlockList(t) \/ Acknowledge(t)
    \/ LowerGate(t)

DoCommit(t) == CommitRound(t) \/ ThrowInCommit(t)

Committer == DoCommit("committer") \/ CloseCommitter \/ Interval \/ MoreResponses

Next ==
    \/ Client
    \/ DoCommit("client")
    \/ \E w \in Workers : Worker(w)
    \/ Committer

Spec == Init /\ [][Next]_vars

\* Threads run, timeouts elapse, and the service answers a repeated request in
\* the end.  The client owes no call but finishes the one it is in.
Fairness ==
    /\ WF_vars(WaitEmpty \/ CloseReqs \/ CloseResps \/ Destroyed)
    /\ WF_vars(DoCommit("client"))
    /\ \A w \in Workers : WF_vars(Worker(w))
    /\ WF_vars(Committer)

FairSpec == Spec /\ Fairness

\* While the client only streams, the queues stay open and the committer alone
\* commits.
CommitterRound == CommitRound("committer") \/ Interval \/ MoreResponses

StreamNext == Upload \/ CommitterRound \/ \E w \in Workers : Round(w)

StreamSpec == Init /\ [][StreamNext]_vars

StreamFairSpec ==
    /\ StreamSpec
    /\ WF_vars(CommitterRound)
    /\ \A w \in Workers : WF_vars(Round(w))

------------------------------------------------------------------------------
(* Properties *)

Block == 1 .. nextId - 1
Elements(s) == {s[i] : i \in DOMAIN s}

\* acknowledged by the service to its worker
Uploaded == {id \in Block :
    /\ id \notin Elements(reqs)
    /\ \A w \in Workers : job[w] # id}

\* popped, and not yet staged
Working == {w \in Workers : wpc[w] \in {"upload", "respond", "leave"}}

\* t has been let through by waitFlush() and has not called disableFlush()
Collecting(t) ==
    /\ after[t] # "none"
    /\ pc[t] \in {"drain", "pop", "insert", "loop", "remove", "put", "ack", "lower"}

\* Every block cut from the stream is in exactly one place on its way to the
\* block list: waiting, held by one worker, reported, held by a committing
\* thread, in the reassembly window, or in the list (as long as commit state
\* is not raced over).
Holders(id) ==
      {<<"reqs", i>> : i \in {j \in DOMAIN reqs : reqs[j] = id}}
    \cup {<<"job", w>> : w \in {v \in Workers : job[v] = id}}
    \cup {<<"resps", i>> : i \in {j \in DOMAIN resps : resps[j] = id}}
    \cup {<<"resp", t>> : t \in {u \in Committing : resp[u] = id}}
    \cup (IF id \in window THEN {<<"window", 0>>} ELSE {})
    \cup (IF id < nextCommitId THEN {<<"list", 0>>} ELSE {})
EveryBlockInOnePlace == ~raced => \A id \in Block : Cardinality(Holders(id)) = 1

\* The blob a reader sees is a prefix of the stream, at least what the uploader
\* believes committed and never more than it has put in order, although blocks
\* are uploaded and reported in any order and answers get lost.
BlobIsPrefix ==
    ~raced =>
        /\ blob = [i \in 1 .. Len(blob) |-> i]
        /\ committedId <= Len(blob)
        /\ Len(blob) < nextCommitId

\* A commit never takes away what a reader has already seen.
BlobOnlyGrows ==
    [][~raced' => /\ Len(blob) <= Len(blob')
                  /\ \A i \in DOMAIN blob : blob'[i] = blob[i]]_vars

\* The gate holds: with the committer the only one to commit (the client only
\* uploads), no worker is between enterJob() and leaveJob() while the committer
\* collects responses and commits, so no block is staged behind its back.
QuietWhileCommitting == Collecting("committer") => flushing /\ Working = {}

\* destroy() leaves no block in a queue or in a worker's hands: whatever the
\* interleaving, all of it was uploaded and reported before the threads ended.
DestroyedAfterUploads == pc["client"] = "destroyed" => Uploaded = Block

FarIds == {255, 256, 65536, 16777216, 2147483647}

\* The newest block has a name of its own, as long as the others', also among the
\* ids to come, whatever stands behind the buffer that base64_encode() prints.
NamesIdentifyBlocks ==
    \A behind \in {<<>>, <<7, 7>>} : \A id \in ((1 .. nextId - 2) \cup FarIds) \ {nextId - 1} :
        nextId > 1 =>
            LET newest == Name(nextId - 1, behind)  other == Name(id, behind)
            IN /\ newest # other
               /\ [g \in DOMAIN newest |-> Len(newest[g])] = [g \in DOMAIN other |-> Len(other[g])]

\* Where nothing stands behind the buffer, a name is the base64 text of its id.
NamesAreBase64 ==
    \A id \in {nextId - 1} \cup FarIds : IsBase64(Name(id, <<>>), BytesOfId(id))

\* Streaming implements the abstract blob.
Log == INSTANCE BlobLog WITH accepted <- nextId - 1, blob <- blob
ImplementsBlobLog == Log!Spec

------------------------------------------------------------------------------
(* What the repository says and the code does not do *)

\* "collect all responses again, otherwise data might be lost"
\* (blockazureuploader.cpp:189): a commit discards no block that its worker
\* has reported and that the list does not name.
NoUploadedBlockLost == Uploaded \subseteq staged \cup Elements(blob)

\* That is all that can go wrong while the client only uploads: every block cut
\* from the stream is committed in the end, without any help from flush(), unless
\* a commit discards one.
EverythingCommitted ==
    \A id \in 1 .. MaxBlocks : nextId > id ~> Len(blob) >= id \/ ~NoUploadedBlockLost

\* "Flush remaining data, blocks until all requests are processed"
\* (blockazureuploader.cpp:85), and until then only: flush() returns.
FlushReturns == after["client"] = "flush" ~> pc["client"] = "idle"

\* "Upload the media content to azure blob storage" (gstazuresink.c:22): the
\* blob is the stream as far as it is committed, in order.
BlobInOrder == \A i \in DOMAIN blob : blob[i] = i
==============================================================================

----------------------------- MODULE AtomicQueue -----------------------------
(***************************************************************************)
(* What include/utils/blockingqueue.hpp promises its callers: a FIFO queue *)
(* of which every operation takes effect in one step.  A closed queue      *)
(* accepts nothing and delivers nothing: push and pop throw instead        *)
(* (blockingqueue.hpp:59), also when elements are left in it.              *)
(*                                                                         *)
(* BlockingQueue implements this specification with a mutex, two condition *)
(* variables and an unprotected flag.  The uploader and the downloader     *)
(* are composed with instances of this module.                             *)
(***************************************************************************)
EXTENDS Sequences

CONSTANT Value  \* what is queued

VARIABLES
    q,      \* the elements waiting, oldest first
    closed  \* close() has been called

vars == <<q, closed>>

TypeOK == q \in Seq(Value) /\ closed \in BOOLEAN

Init == q = <<>> /\ closed = FALSE

\* push() that returns
Push(v) ==
    /\ ~closed
    /\ q' = Append(q, v)
    /\ UNCHANGED closed

\* pop() or pop_for() that returns v
Pop(v) ==
    /\ ~closed
    /\ q # <<>>
    /\ v = Head(q)
    /\ q' = Tail(q)
    /\ UNCHANGED closed

\* close()
Close ==
    /\ closed' = TRUE
    /\ UNCHANGED q

Next ==
    \/ \E v \in Value : Push(v) \/ Pop(v)
    \/ Close

Spec == Init /\ [][Next]_vars
==============================================================================

------------------------------- MODULE BlobLog -------------------------------
(***************************************************************************)
(* What a sink promises of the blob it writes: at any time the blob is a   *)
(* prefix of the stream, and a commit or an append only makes it longer.   *)
(* The units of the stream (blocks of a block blob, bytes of an append     *)
(* blob) are numbered in the order in which the element received them.     *)
(*                                                                         *)
(* BlockUploader implements this specification while the client only       *)
(* uploads, AppendUploader while no request fails and no chunk is cut.     *)
(***************************************************************************)
EXTENDS Naturals, Sequences

VARIABLES
    accepted,  \* units of the stream handed to the uploader
    blob       \* the units a reader of the blob sees

vars == <<accepted, blob>>

Prefix(n) == [i \in 1 .. n |-> i]

Init == accepted = 0 /\ blob = Prefix(0)

Accept ==
    /\ accepted' \in Nat
    /\ accepted' > accepted
    /\ UNCHANGED blob

Extend ==
    /\ \E n \in Len(blob) .. accepted : blob' = Prefix(n)
    /\ UNCHANGED accepted

Next == Accept \/ Extend

Spec == Init /\ [][Next]_vars
==============================================================================

----------------------------- MODULE BlobFetch -----------------------------
(***************************************************************************)
(* What one call of Resolver::resolve promises, however it gets the blob:  *)
(* it answers once, with the blob that was asked for or with an error, and *)
(* whatever it leaves in the local store under the blob's id is the blob.  *)
(***************************************************************************)
EXTENDS Sequences

CONSTANT Blobs   \* the blobs a request may be for, as sequences of units

VARIABLES
    blob,        \* the blob of the request
    stored,      \* what the local store has under its id: <<>> or <<data>>
    answer       \* what the request has been answered

vars == <<blob, stored, answer>>

Pending == [state |-> "pending", data |-> <<>>]
Failed  == [state |-> "error", data |-> <<>>]
Success == [state |-> "blob", data |-> blob]

Init ==
    /\ blob \in Blobs
    /\ stored \in {<<>>, <<blob>>}
    /\ answer = Pending

\* The answer and what is stored are independent: a blob in hand may fail to be
\* written or be evicted at once, and one just written be answered by the error
\* of the eviction that follows.
Answer ==
    /\ answer = Pending
    /\ answer' \in {Failed, Success}
    /\ stored' \in {<<>>, <<blob>>}
    /\ UNCHANGED blob

Spec == Init /\ [][Answer]_vars /\ WF_vars(Answer)
=============================================================================

----------------------------- MODULE BlobCache -----------------------------
(***************************************************************************)
(* The L0 cache of a node: the RocksDB store, the pins and the eviction    *)
(* run, under the tasks that use them concurrently: resolve requests,      *)
(* which fetch, put and then evict, and the desktop app's pin, unpin and   *)
(* delete commands.                                                        *)
(*                                                                         *)
(* A single RocksDB call is atomic.  EvictionManager::run is many calls:   *)
(* it works on its own clone of the store and takes neither the store's    *)
(* RwLock nor a write lock on the pins, so every other task interleaves    *)
(* with it.  Only the eviction lock (a FIFO tokio RwLock, always taken for *)
(* writing) keeps two runs apart.                                          *)
(*                                                                         *)
(* A blob id is the hash of its data, so an id determines a size.  Blob    *)
(* ids are numbers in RocksDB's key order.                                 *)
(***************************************************************************)
EXTENDS Integers, Sequences, FiniteSets, SequencesExt

CONSTANTS
    Blob,     \* blob ids, a finite set of naturals
    Size,     \* the size of each blob
    Budget,   \* EvictionManager.budget_bytes
    U64_MOD,  \* 2^64
    Requests, \* resolve requests that may run at the same time
    Pinnable, \* a bound: the blobs the user pins and deletes
    NoBlob    \* no blob id

ASSUME CacheAssumption ==
    /\ Blob \subseteq Nat /\ IsFiniteSet(Blob) /\ NoBlob \notin Blob
    /\ Pinnable \subseteq Blob
    /\ U64_MOD \in Nat \ {0}
    /\ Size \in [Blob -> 0 .. U64_MOD - 1]
    /\ Budget \in 0 .. U64_MOD - 1

VARIABLES
    store,     \* the ids in the blobs column family
    pins,      \* the ids in the pins column family
    req,       \* per task: its program counter and blob
    queue,     \* the tasks at the eviction lock; its head holds the lock
    run,       \* the locals of the run of the head of the queue
    held,      \* history: the blobs pinned when the run began and ever since
    lapsed     \* history: an eviction that was due was cut short or never
               \* made, or a blob was unpinned, since the last run began

vars == <<store, pins, req, queue, run, held, lapsed>>

Idle == [pc |-> "idle", blob |-> NoBlob]
NoRun == [pc |-> "off", total |-> 0, todo |-> <<>>, cands |-> <<>>]

TypeOK ==
    /\ store \subseteq Blob
    /\ pins \subseteq Blob
    /\ req \in [Requests -> [pc : {"idle", "fetching", "stored", "evicting"},
                         blob : Blob \cup {NoBlob}]]
    /\ queue \in Seq(Requests)
    /\ run \in [pc : {"off", "sum", "scan", "delete"},
                total : 0 .. U64_MOD - 1,
                todo : Seq(Blob), cands : Seq(Blob)]
    /\ held \subseteq pins
    /\ lapsed \in BOOLEAN

\* The bytes a set of blobs takes.
Bytes(S) == FoldFunctionOnSet(+, 0, Size, S)

\* No disk holds 2^64 bytes.
ASSUME DiskAssumption == Bytes(Blob) < U64_MOD

\* BlobStore::list_blob_ids: an iterator over one snapshot, in key order.
list_blob_ids ==
    CHOOSE ids \in [1 .. Cardinality(store) -> store] :
        \A i, j \in DOMAIN ids : i < j => ids[i] < ids[j]

-----------------------------------------------------------------------------
(* Resolve requests (Resolver::resolve and its two ways to a blob).        *)

\* Layer 0: the blob is in the store and is returned.
L0Hit(t, b) ==
    /\ req[t].pc = "idle"
    /\ b \in store
    /\ UNCHANGED <<store, pins, req, queue, run, held, lapsed>>

\* It is not: the request goes on to a peer or to Walrus.
L0Miss(t, b) ==
    /\ req[t].pc = "idle"
    /\ b \notin store
    /\ req' = [req EXCEPT ![t] = [pc |-> "fetching", blob |-> b]]
    /\ UNCHANGED <<store, pins, queue, run, held, lapsed>>

\* Neither a peer nor Walrus has it: resolve returns an error.
FetchFails(t) ==
    /\ req[t].pc = "fetching"
    /\ req' = [req EXCEPT ![t] = Idle]
    /\ UNCHANGED <<store, pins, queue, run, held, lapsed>>

\* Mutant: the request returns as soon as the blob is stored.
PutNoEviction(t) ==
    /\ req[t].pc = "fetching"
    /\ store' = store \cup {req[t].blob}
    /\ req' = [req EXCEPT ![t] = Idle]
    /\ UNCHANGED <<pins, queue, run, held, lapsed>>

\* finalize_l1_fetch and resolve_from_walrus put the verified blob.
Put(t) ==
    /\ req[t].pc = "fetching"
    /\ store' = store \cup {req[t].blob}
    /\ req' = [req EXCEPT ![t].pc = "stored"]
    /\ UNCHANGED <<pins, queue, run, held, lapsed>>

\* The write fails (a full disk).  Layer 1 logs it and goes on to evict;
\* layer 3 returns the error.
PutFails(t) ==
    /\ req[t].pc = "fetching"
    /\ \/ req' = [req EXCEPT ![t].pc = "stored"]
       \/ req' = [req EXCEPT ![t] = Idle]
    /\ UNCHANGED <<store, pins, queue, run, held, lapsed>>

\* The request asks for the eviction lock and joins its queue.
LockEviction(t) ==
    /\ req[t].pc = "stored"
    /\ req' = [req EXCEPT ![t].pc = "evicting"]
    /\ queue' = Append(queue, t)
    /\ UNCHANGED <<store, pins, run, held, lapsed>>

\* The client goes away and axum drops the request where it waits, for a
\* peer or for a lock.  An eviction that was due is not made up for.
Cancel(t) ==
    /\ req[t].pc \in {"fetching", "stored"}
    /\ req' = [req EXCEPT ![t] = Idle]
    /\ lapsed' = (lapsed \/ req[t].pc = "stored")
    /\ UNCHANGED <<store, pins, queue, run, held>>

\* The same for the i-th request at the eviction lock.  A run does not wait
\* for anything, so the request that runs cannot be dropped.
CancelQueued(i) ==
    /\ i \in 1 .. Len(queue)
    /\ i = 1 => run.pc = "off"
    /\ req' = [req EXCEPT ![queue[i]] = Idle]
    /\ queue' = RemoveAt(queue, i)
    /\ lapsed' = TRUE
    /\ UNCHANGED <<store, pins, run, held>>

-----------------------------------------------------------------------------
(* EvictionManager::run, one action per store access.                      *)

\* The run returns and drops the lock; the request returns with it.
Leave ==
    /\ run' = NoRun
    /\ queue' = Tail(queue)
    /\ req' = [req EXCEPT ![Head(queue)] = Idle]

\* The lock is granted; total_size lists the ids.
RunBegins ==
    /\ queue # <<>>
    /\ run.pc = "off"
    /\ run' = [pc |-> "sum", total |-> 0, todo |-> list_blob_ids,
               cands |-> <<>>]
    /\ held' = pins
    /\ lapsed' = FALSE
    /\ UNCHANGED <<store, pins, req, queue>>

\* total_size adds one blob, unless it vanished since it was listed.
SumOne ==
    /\ run.pc = "sum"
    /\ run.todo # <<>>
    /\ LET b == Head(run.todo)
       IN  run' = [run EXCEPT !.todo = Tail(@),
                              !.total = IF b \in store
                                        THEN (@ + Size[b]) % U64_MOD ELSE @]
    /\ UNCHANGED <<store, pins, req, queue, held, lapsed>>

\* Within the budget the run is over; above it the ids are listed again.
WithinBudget ==
    /\ run.pc = "sum"
    /\ run.todo = <<>>
    /\ run.total <= Budget
    /\ Leave
    /\ UNCHANGED <<store, pins, held, lapsed>>

ListCandidates ==
    /\ run.pc = "sum"
    /\ run.todo = <<>>
    /\ run.total > Budget
    /\ run' = [run EXCEPT !.pc = "scan", !.todo = list_blob_ids]
    /\ UNCHANGED <<store, pins, req, queue, held, lapsed>>

\* A blob that vanished since it was listed has no size: the run ends with
\* an error, before it has evicted anything.
ScanError ==
    /\ run.pc = "scan"
    /\ run.todo # <<>>
    /\ Head(run.todo) \notin pins
    /\ Head(run.todo) \notin store
    /\ Leave
    /\ lapsed' = TRUE
    /\ UNCHANGED <<store, pins, held>>

\* Any of the RocksDB calls fails and the run returns its error: listing the
\* ids for the total and for the candidates, reading a size or a pin, and
\* deleting a candidate.
StoreError ==
    /\ queue # <<>>
    /\ \/ run.pc = "off"
       \/ run.pc = "sum" /\ (run.todo # <<>> \/ run.total > Budget)
       \/ run.pc = "scan" /\ run.todo # <<>>
       \/ run.pc = "delete" /\ run.total > Budget /\ run.cands # <<>>
    /\ Leave
    /\ lapsed' = TRUE
    /\ UNCHANGED <<store, pins, held>>

\* Mutant: the pin test is dropped.
ScanOneIgnoringPins ==
    /\ run.pc = "scan"
    /\ run.todo # <<>>
    /\ Head(run.todo) \in store
    /\ run' = [run EXCEPT !.todo = Tail(@), !.cands = Append(@, Head(run.todo))]
    /\ UNCHANGED <<store, pins, req, queue, held, lapsed>>

\* The pin test and the size of one id.  (A pin, unpin or delete between the
\* two reads has the effect of one just after or just before both.)
ScanOne ==
    /\ run.pc = "scan"
    /\ run.todo # <<>>
    /\ LET b == Head(run.todo)
       IN  /\ b \in pins \cup store
           /\ run' = [run EXCEPT !.todo = Tail(@),
                                 !.cands = IF b \in pins THEN @
                                           ELSE Append(@, b)]
    /\ UNCHANGED <<store, pins, req, queue, held, lapsed>>

DeleteBegins ==
    /\ run.pc = "scan"
    /\ run.todo = <<>>
    /\ run' = [run EXCEPT !.pc = "delete"]
    /\ UNCHANGED <<store, pins, req, queue, held, lapsed>>

\* Mutant: the total is a signed number.
DeleteOneSigned ==
    /\ run.pc = "delete"
    /\ run.total > Budget
    /\ run.cands # <<>>
    /\ store' = store \ {Head(run.cands)}
    /\ run' = [run EXCEPT !.cands = Tail(@), !.total = @ - Size[Head(run.cands)]]
    /\ UNCHANGED <<pins, req, queue, held, lapsed>>

\* Mutant: the pending candidates are rotated instead of consumed.
DeleteOneForever ==
    /\ run.pc = "delete"
    /\ run.total > Budget
    /\ run.cands # <<>>
    /\ store' = store \ {Head(run.cands)}
    /\ run' = [run EXCEPT !.cands = Append(Tail(@), Head(@))]
    /\ UNCHANGED <<pins, req, queue, held, lapsed>>

\* One candidate is deleted and its size subtracted: a release build wraps
\* around.
DeleteOne ==
    /\ run.pc = "delete"
    /\ run.total > Budget
    /\ run.cands # <<>>
    /\ store' = store \ {Head(run.cands)}
    /\ run' = [run EXCEPT !.cands = Tail(@),
                          !.total = (@ - Size[Head(run.cands)]) % U64_MOD]
    /\ UNCHANGED <<pins, req, queue, held, lapsed>>

\* A debug build panics instead, after the deletion; the task dies and its
\* lock is released.
DeletePanics ==
    /\ run.pc = "delete"
    /\ run.total > Budget
    /\ run.cands # <<>>
    /\ Size[Head(run.cands)] > run.total
    /\ store' = store \ {Head(run.cands)}
    /\ Leave
    /\ UNCHANGED <<pins, held, lapsed>>

RunEnds ==
    /\ run.pc = "delete"
    /\ run.total <= Budget \/ run.cands = <<>>
    /\ Leave
    /\ UNCHANGED <<store, pins, held, lapsed>>

EvictionStep ==
    \/ RunBegins \/ SumOne \/ WithinBudget \/ ListCandidates \/ ScanError
    \/ StoreError \/ ScanOne \/ DeleteBegins \/ DeleteOne \/ DeletePanics \/ RunEnds

-----------------------------------------------------------------------------
(* The desktop app's commands, and the process.                            *)

\* pin_blob does not ask whether the blob is cached.
pin_blob(b) ==
    /\ b \notin pins
    /\ pins' = pins \cup {b}
    /\ UNCHANGED <<store, req, queue, run, held, lapsed>>

unpin_blob(b) ==
    /\ b \in pins
    /\ pins' = pins \ {b}
    /\ held' = held \ {b}
    /\ lapsed' = TRUE
    /\ UNCHANGED <<store, req, queue, run>>

\* delete_blob deletes a pinned blob too, and leaves its pin.
delete_blob(b) ==
    /\ b \in store
    /\ store' = store \ {b}
    /\ UNCHANGED <<pins, req, queue, run, held, lapsed>>

\* The process stops at any point; RocksDB keeps the store and the pins.
Restart ==
    /\ \E t \in Requests : req[t] # Idle
    /\ req' = [t \in Requests |-> Idle]
    /\ queue' = <<>>
    /\ run' = NoRun
    /\ held' = {}
    /\ lapsed' = TRUE
    /\ UNCHANGED <<store, pins>>

-----------------------------------------------------------------------------

Init ==
    /\ store = {}
    /\ pins = {}
    /\ req = [t \in Requests |-> Idle]
    /\ queue = <<>>
    /\ run = NoRun
    /\ held = {}
    /\ lapsed = FALSE

TaskStep(t) ==
    FetchFails(t) \/ Put(t) \/ PutFails(t) \/ LockEviction(t)

Next ==
    \/ \E t \in Requests, b \in Blob : L0Hit(t, b) \/ L0Miss(t, b)
    \/ \E t \in Requests : TaskStep(t) \/ Cancel(t)
    \/ \E i \in 1 .. Len(queue) : CancelQueued(i)
    \/ EvictionStep
    \/ \E b \in Pinnable : pin_blob(b) \/ unpin_blob(b) \/ delete_blob(b)
    \/ Restart

\* tokio keeps polling a task that is ready, and hands the eviction lock on
\* in FIFO order; fetches time out.
Fairness ==
    /\ \A t \in Requests : WF_vars(TaskStep(t))
    /\ WF_vars(EvictionStep)

Spec == Init /\ [][Next]_vars /\ Fairness

-----------------------------------------------------------------------------
(* Properties.                                                             *)

\* When every request has returned, the cache is within its budget or holds
\* pinned blobs only, whatever puts, pins and deletes interleaved with the
\* runs and although a run may wrap, panic or find nothing left to delete:
\* the run of the request that put last repairs it, also what a request that
\* was dropped before that run began left behind.  Excepted are the cases
\* `lapsed` records, until the next run begins: an unpin, a run that ended
\* with an error, a request dropped between its put and its run, a restart.
QuiescentWithinBudget ==
    ((\A t \in Requests : req[t].pc = "idle") /\ ~lapsed)
    => (Bytes(store) <= Budget \/ store \subseteq pins)

\* What the pin test of a run guarantees: a blob that is pinned when the run
\* begins and stays pinned is not evicted by it, whatever is put, pinned and
\* deleted meanwhile.
HeldPinsSurvive ==
    [][EvictionStep => store \cap held \subseteq store']_vars

\* Every request returns, also when its run meets an error, a panic or a
\* wrapped total.
RequestsReturn ==
    \A t \in Requests : req[t].pc # "idle" ~> req[t].pc = "idle"

\* Design: "LRU eviction for unpinned blobs within budget".  A run deletes a
\* blob only while the cache exceeds its budget.
EvictsOnlyOverBudget ==
    [][(EvictionStep /\ store' # store) => Bytes(store) > Budget]_vars

=============================================================================

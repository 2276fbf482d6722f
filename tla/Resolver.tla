------------------------------ MODULE Resolver ------------------------------
(***************************************************************************)
(* One call of Resolver::resolve (mesh/resolver.rs): the local cache, then *)
(* the peers in four ways - ranges from several peers at once, ranges from *)
(* one peer, the whole blob from one peer, the whole blob from a provider  *)
(* found in the DHT - then Walrus.  What a peer sent is verified, stored   *)
(* and put on the peer's reputation.  A payment precedes every request.    *)
(*                                                                         *)
(* A blob is a sequence of distinct units, and Corrupt stands for whatever *)
(* a peer sends that is not the blob's at the place it was asked for, so   *)
(* that the hash of some data is the blob's id exactly when the data is    *)
(* the blob.  A lost request, an elapsed timeout, a refusal and a channel  *)
(* whose event loop is gone all end as NoReply.  The resolver's cache of   *)
(* vault ids is written and never read; it is left out.                    *)
(***************************************************************************)
EXTENDS Wire, SequencesExt, FiniteSets

CONSTANTS
    Peer,            \* remote peers
    Local,           \* the node's own peer id, which the DHT returns too
    Faulty,          \* peers that may send something else than the blob
    BlobLengths,     \* lengths of the blobs requests are for
    PROBE_LENGTH,    \* the range that probes a peer
    CHUNK_SIZE,      \* a range of the parallel fetch
    MAX_PARALLEL,    \* peers probed by the parallel fetch
    MAX_TOTAL_SIZE,  \* where the parallel fetch gives up
    RANGE_CHUNK,     \* a range of the serial fetch
    MAX_CHUNKS,      \* where the serial fetch gives up
    MAX_RETRIES,     \* retries of run_find_providers
    MAX_POLL         \* polls for a dialled provider to be connected

ASSUME ResolverAssumption ==
    /\ IsFiniteSet(Peer) /\ Local \notin Peer
    /\ Faulty \subseteq Peer
    /\ BlobLengths \subseteq Nat
    /\ PROBE_LENGTH \in Nat \ {0} /\ CHUNK_SIZE \in Nat \ {0}
    /\ RANGE_CHUNK \in Nat \ {0}
    /\ CHUNK_SIZE < MAX_MESSAGE_SIZE /\ RANGE_CHUNK < MAX_MESSAGE_SIZE
    /\ MAX_PARALLEL \in Nat \ {0} /\ MAX_TOTAL_SIZE \in Nat
    /\ MAX_CHUNKS \in Nat /\ MAX_RETRIES \in Nat /\ MAX_POLL \in Nat \ {0}

VARIABLES
    blob,         \* the blob the request is for
    wallet,       \* whether the resolver has a wallet
    pc,           \* where resolve is
    todo,         \* peers still to be tried; `working` in the parallel fetch
    data,         \* what the current attempt has put together
    offset,       \* base_offset of the window, or the offset of the range
    tries,        \* `attempt` of the retries, then `iteration` of the polls
    addr_cache,   \* sui_addr_cache
    payment_err,  \* whether the current attempt has a payment error
    score,        \* the reputation table
    stored,       \* the local store's entry for the blob
    result,       \* what resolve returns
    clean,        \* history: replies of this attempt were those of a holder
    unlocated     \* history: this attempt looked up an address in vain

request == <<blob, wallet>>
locals  == <<todo, data, offset, tries>>
history == <<clean, unlocated>>
vars == <<request, pc, locals, addr_cache, payment_err, score, stored, result,
          history>>

Corrupt == 0
Bytes(n) == [i \in 1 .. n |-> i]
Zeros(n) == [i \in 1 .. n |-> Corrupt]

NoData  == <<>>
Pending == [source |-> "pending", data |-> <<>>, payment_error |-> FALSE]
Error   == [source |-> "error", data |-> <<>>, payment_error |-> FALSE]

Stage == {"resolve", "parallel", "window", "range_peers", "range", "ranges",
          "whole_peers", "whole", "find", "poll", "fetch", "walrus", "done"}

\* Any number of peers in any order: a list of connected peers or providers.
ListOf(S) == UNION {SetToSeqs(T) : T \in SUBSET S}

\* The entries that are in S, in their order.
Those(entries, S) ==
    FoldLeft(LAMBDA kept, e : IF e \in S THEN Append(kept, e) ELSE kept,
             <<>>, entries)

TypeOK ==
    /\ blob \in {Bytes(n) : n \in BlobLengths}
    /\ wallet \in BOOLEAN
    /\ pc \in Stage
    /\ todo \in Seq(Peer)
    /\ data \in Seq(Nat)
    /\ offset \in Nat
    /\ tries \in 0 .. (IF pc = "find" THEN MAX_RETRIES ELSE MAX_POLL - 1)
    /\ addr_cache \in [Peer -> {"unknown", "none", "known"}]
    /\ payment_err \in BOOLEAN
    /\ score \in [Peer -> Int]
    /\ stored = NoData \/ (Len(stored) = 1 /\ stored[1] \in Seq(Nat))
    /\ result \in [source : {"pending", "error", "L0", "L1", "L3"},
                   data : Seq(Nat), payment_error : BOOLEAN]
    /\ clean \in BOOLEAN /\ unlocated \in BOOLEAN

-----------------------------------------------------------------------------
(* The peers.                                                              *)

\* The units of the blob from `start` on, at most n of them.
PartOf(start, n) ==
    SubSeq(blob, start + 1,
           IF start + n < Len(blob) THEN start + n ELSE Len(blob))

\* What a peer that holds the blob answers to a range request: the part of the
\* range the blob has, not_found past its end.
handle_inbound_range_request(start, length) ==
    IF start >= Len(blob) THEN NoReply ELSE Have(PartOf(start, length))

handle_inbound_request == Have(blob)

\* Fewer and more units than were asked for, as far as a message with so many
\* bytes of header is read.
Lengths(asked, header) ==
    {n \in {0, 1, asked, asked + 1} : header + n <= MAX_MESSAGE_SIZE}

\* A peer may also lack the blob, refuse an unpaid request or answer too late.
\* A faulty one may send other units, or the blob's own from where it was asked,
\* any of `lengths` of them.
Replies(peer, truth, start, lengths) ==
    {NoReply, truth} \cup
    {Have(d) : d \in UNION {{Zeros(n), PartOf(start, n)} :
                              n \in IF peer \in Faulty THEN lengths ELSE {}}}

\* One reply of each of the peers asked; truth[p] is what a holder answers to
\* the request that p was sent, for units from start[p] on.
AllReplies(truth, start, lengths) ==
    LET Of(p) == Replies(p, truth[p], start[p], lengths)
    IN  {f \in [DOMAIN truth -> UNION {Of(p) : p \in DOMAIN truth}] :
            \A p \in DOMAIN truth : f[p] \in Of(p)}

-----------------------------------------------------------------------------
(* resolve_payment, for the peers an attempt pays at once.  `found` are the *)
(* peers whose address the DHT returns.  Only the lookup can fail: pay_wal  *)
(* turns a payment that fails on chain, for want of a balance too, into a   *)
(* synthetic proof (Wallet).  A lookup that failed is remembered, and from  *)
(* then on the peer is unpaid without an error.                            *)

Lookups(peers) ==
    {p \in peers : wallet /\ addr_cache[p] = "unknown"}

PaymentError(peers, found) == Lookups(peers) \ found # {}

resolve_payment(peers, found) ==
    addr_cache' = [p \in Peer |->
        IF p \in Lookups(peers)
        THEN IF p \in found THEN "known" ELSE "none"
        ELSE addr_cache[p]]

\* The first payments of an attempt.
FirstPayment(peers, found) ==
    /\ resolve_payment(peers, found)
    /\ payment_err' = PaymentError(peers, found)
    /\ unlocated' = PaymentError(peers, found)

\* Mutant: a later payment's outcome replaces an earlier error.
NextPaymentOverwrites(peers, found) ==
    /\ resolve_payment(peers, found)
    /\ payment_err' = PaymentError(peers, found)
    /\ unlocated' = (unlocated \/ PaymentError(peers, found))
\* A later payment's error is kept unless there is one already.
NextPayment(peers, found) ==
    /\ resolve_payment(peers, found)
    /\ payment_err' = IF payment_err THEN payment_err
                                     ELSE PaymentError(peers, found)
    /\ unlocated' = (unlocated \/ PaymentError(peers, found))

-----------------------------------------------------------------------------
(* The end of an attempt.                                                  *)

record_success(peer)    == score' = [score EXCEPT ![peer] = @ + 1]
record_corruption(peer) == score' = [score EXCEPT ![peer] = @ - 3]

\* Mutant: a blob is not verified.
verify_nothing(d) == TRUE
verify_blob_by_id(d) == d = blob

\* put may fail, which is only logged; eviction may take the blob at once.
finalize_l1_fetch(peer, d, next) ==
    /\ \/ /\ verify_blob_by_id(d)
          /\ stored' \in {NoData, <<d>>}
          /\ record_success(peer)
          /\ result' = [source |-> "L1", data |-> d,
                        payment_error |-> payment_err']
          /\ pc' = "done"
       \/ /\ ~verify_blob_by_id(d)
          /\ record_corruption(peer)
          /\ pc' = next
          /\ UNCHANGED <<stored, result>>
    /\ todo' = <<>> /\ data' = <<>> /\ offset' = 0 /\ tries' = 0

\* The attempt ends without data to verify.
GiveUp(next) ==
    /\ pc' = next
    /\ todo' = <<>> /\ data' = <<>> /\ offset' = 0 /\ tries' = 0
    /\ UNCHANGED <<score, stored, result>>

\* The attempt goes on.
GoOn(stage, peers, d, off) ==
    /\ pc' = stage
    /\ todo' = peers /\ data' = d /\ offset' = off /\ tries' = 0
    /\ UNCHANGED <<score, stored, result>>

-----------------------------------------------------------------------------
(* Layer 0.                                                                *)

Return(answer) ==
    /\ pc' = "done"
    /\ result' = answer

L0Hit ==
    /\ pc = "resolve"
    /\ stored = <<blob>>
    /\ Return([source |-> "L0", data |-> blob, payment_error |-> FALSE])
    /\ UNCHANGED <<request, locals, addr_cache, payment_err, score, stored,
                   history>>

\* The store cannot be read.
L0Error ==
    /\ pc = "resolve"
    /\ Return(Error)
    /\ UNCHANGED <<request, locals, addr_cache, payment_err, score, stored,
                   history>>

\* Without a channel to the event loop the peers are left out.
L0Miss ==
    /\ pc = "resolve"
    /\ stored = NoData
    /\ pc' \in {"parallel", "walrus"}
    /\ UNCHANGED <<request, locals, addr_cache, payment_err, score, stored,
                   result, history>>

-----------------------------------------------------------------------------
(* try_direct_peers_range_parallel.                                        *)

\* Pay and probe the first connected peers for the head of the blob.
Probe ==
    /\ pc = "parallel"
    /\ \E connected \in ListOf(Peer) :
          LET probers == SubSeq(connected, 1,
                                IF Len(connected) < MAX_PARALLEL
                                THEN Len(connected) ELSE MAX_PARALLEL)
              truth == [p \in ToSet(probers) |->
                           SentRange(handle_inbound_range_request(
                                         0, PROBE_LENGTH))]
              start == [p \in ToSet(probers) |-> 0]
          IN  \E found \in SUBSET Lookups(DOMAIN truth) :
              \E reply \in AllReplies(truth, start, Lengths(PROBE_LENGTH, 1)) :
                  LET working == Those(probers, {p \in DOMAIN truth :
                                                     reply[p].data # <<>>})
                  IN  /\ FirstPayment(DOMAIN truth, found)
                      /\ clean' = \A p \in DOMAIN truth :
                                     reply[p].ok => reply[p] = truth[p]
                      /\ IF working = <<>>
                         THEN GiveUp("range_peers")
                         ELSE GoOn("window", working, <<>>, 0)
    /\ UNCHANGED request

\* Mutant: chunks are joined whatever their offsets.
TakeAny(acc, chunk) ==
    IF chunk.data = <<>> THEN acc
    ELSE [data     |-> acc.data \o chunk.data,
          expected |-> chunk.offset + Len(chunk.data),
          has_gap  |-> FALSE,
          eof      |-> acc.eof \/ Len(chunk.data) < CHUNK_SIZE]
\* Mutant: a full chunk passes for the last one.
TakeFullAsLast(acc, chunk) ==
    IF chunk.data = <<>> \/ acc.has_gap THEN acc
    ELSE IF chunk.offset # acc.expected THEN [acc EXCEPT !.has_gap = TRUE]
    ELSE [data     |-> acc.data \o chunk.data,
          expected |-> chunk.offset + Len(chunk.data),
          has_gap  |-> FALSE,
          eof      |-> acc.eof \/ Len(chunk.data) <= CHUNK_SIZE]
\* The loop over the chunks of a window, sorted by offset: it stops at the
\* first that does not begin where the data ends.  An answer without data is
\* no chunk.
Take(acc, chunk) ==
    IF chunk.data = <<>> \/ acc.has_gap THEN acc
    ELSE IF chunk.offset # acc.expected THEN [acc EXCEPT !.has_gap = TRUE]
    ELSE [data     |-> acc.data \o chunk.data,
          expected |-> chunk.offset + Len(chunk.data),
          has_gap  |-> FALSE,
          eof      |-> acc.eof \/ Len(chunk.data) < CHUNK_SIZE]
Assemble(chunks) ==
    FoldLeft(Take, [data |-> data, expected |-> Len(data),
                    has_gap |-> FALSE, eof |-> FALSE], chunks)

\* A window ends the attempt when it brought nothing or a gap (`last`), too
\* much, or a short chunk.  The first working peer stands for all of them.
EndOfWindow(last, acc, next_offset) ==
    IF last
    THEN IF acc.data = <<>>
         THEN GiveUp("range_peers")
         ELSE finalize_l1_fetch(Head(todo), acc.data, "range_peers")
    ELSE IF Len(acc.data) > MAX_TOTAL_SIZE
    THEN GiveUp("range_peers")
    ELSE IF acc.eof
    THEN finalize_l1_fetch(Head(todo), acc.data, "range_peers")
    ELSE GoOn("window", todo, acc.data, next_offset)

\* One window: every working peer is paid and asked for a chunk of its own.
Window ==
    /\ pc = "window"
    /\ LET n == Len(todo)
           At(i) == offset + (i - 1) * CHUNK_SIZE
           start == [p \in ToSet(todo) |->
                        At(CHOOSE i \in 1 .. n : todo[i] = p)]
           truth == [p \in ToSet(todo) |->
                        SentRange(handle_inbound_range_request(
                                      start[p], CHUNK_SIZE))]
       IN  \E found \in SUBSET Lookups(DOMAIN truth) :
           \E reply \in AllReplies(truth, start, Lengths(CHUNK_SIZE, 1)) :
               LET chunks == [i \in 1 .. n |-> [offset |-> At(i),
                                                data |-> reply[todo[i]].data]]
                   none == \A i \in 1 .. n : chunks[i].data = <<>>
                   acc == Assemble(chunks)
               IN  /\ NextPayment(DOMAIN truth, found)
                   /\ clean' = (clean /\ reply = truth)
                   /\ EndOfWindow(none \/ acc.has_gap, acc,
                                  offset + n * CHUNK_SIZE)
    /\ UNCHANGED request

-----------------------------------------------------------------------------
(* try_direct_peers_range.                                                 *)

\* GetConnectedPeers at the head of the two serial attempts.
GetConnectedPeers(stage, next) ==
    /\ \E connected \in ListOf(Peer) :
          IF connected = <<>> THEN GiveUp(next)
                              ELSE GoOn(stage, connected, <<>>, 0)
    /\ UNCHANGED <<request, addr_cache, payment_err, history>>

RangePeers ==
    /\ pc = "range_peers"
    /\ GetConnectedPeers("range", "whole_peers")

\* The next peer of `todo` is paid and asked; without an answer it is skipped.
Skip(next) ==
    IF Len(todo) = 1 THEN GiveUp(next) ELSE GoOn(pc, Tail(todo), <<>>, 0)

FirstRange ==
    /\ pc = "range"
    /\ LET peer == Head(todo)
           start == [p \in {peer} |-> 0]
           truth == [p \in {peer} |->
                        SentRange(handle_inbound_range_request(
                                      0, RANGE_CHUNK))]
       IN  \E found \in SUBSET Lookups({peer}) :
           \E reply \in AllReplies(truth, start, Lengths(RANGE_CHUNK, 1)) :
               LET chunk == reply[peer].data
               IN  /\ FirstPayment({peer}, found)
                   /\ clean' = (reply = truth)
                   /\ IF ~reply[peer].ok THEN Skip("whole_peers")
                      ELSE IF Len(chunk) < RANGE_CHUNK
                      THEN finalize_l1_fetch(peer, chunk, "whole_peers")
                      ELSE GoOn("ranges", <<peer>>, chunk, RANGE_CHUNK)
    /\ UNCHANGED request

TooManyChunks ==
    /\ pc = "ranges"
    /\ offset \div RANGE_CHUNK >= MAX_CHUNKS
    /\ GiveUp("whole_peers")
    /\ UNCHANGED <<request, addr_cache, payment_err, history>>

NextRange ==
    /\ pc = "ranges"
    /\ offset \div RANGE_CHUNK < MAX_CHUNKS
    /\ LET peer == Head(todo)
           start == [p \in {peer} |-> offset]
           truth == [p \in {peer} |->
                        SentRange(handle_inbound_range_request(
                                      offset, RANGE_CHUNK))]
       IN  \E found \in SUBSET Lookups({peer}) :
           \E reply \in AllReplies(truth, start, Lengths(RANGE_CHUNK, 1)) :
               LET chunk == reply[peer].data
               IN  /\ NextPayment({peer}, found)
                   /\ clean' = (clean /\ reply = truth)
                   /\ IF Len(chunk) < RANGE_CHUNK
                      THEN finalize_l1_fetch(peer, data \o chunk, "whole_peers")
                      ELSE GoOn("ranges", todo, data \o chunk,
                                offset + RANGE_CHUNK)
    /\ UNCHANGED request

-----------------------------------------------------------------------------
(* try_direct_peers, and the fetch from a provider found in the DHT.       *)

WholePeers ==
    /\ pc = "whole_peers"
    /\ GetConnectedPeers("whole", "find")

\* `peer` is paid and asked for the whole blob; what it sends is final.
FetchBlob(peer, next, Otherwise) ==
    LET start == [p \in {peer} |-> 0]
        truth == [p \in {peer} |-> Sent(handle_inbound_request)]
    IN  \E found \in SUBSET Lookups({peer}) :
        \E reply \in AllReplies(truth, start, Lengths(Len(blob), 5)) :
            /\ FirstPayment({peer}, found)
            /\ clean' = (reply = truth)
            /\ IF reply[peer].ok
               THEN finalize_l1_fetch(peer, reply[peer].data, next)
               ELSE Otherwise

FetchDirect ==
    /\ pc = "whole"
    /\ FetchBlob(Head(todo), "find", Skip("find"))
    /\ UNCHANGED request

\* Mutant: one try too many.
TriesLeftOrOneMore(limit) == tries <= limit
\* The bound of the retries and of the polls.
TriesLeft(limit) == tries < limit

\* run_find_providers and its retries; the node itself is no provider.
FindProviders ==
    /\ pc = "find"
    /\ \E providers \in ListOf(Peer \cup {Local}) :
          LET dht_peers == Those(providers, Peer)
          IN  \/ /\ dht_peers # <<>>
                 /\ GoOn("poll", dht_peers, <<>>, 0)
              \/ /\ dht_peers = <<>>
                 /\ TriesLeft(MAX_RETRIES)
                 /\ tries' = tries + 1
                 /\ UNCHANGED <<pc, todo, data, offset, score, stored, result>>
              \/ /\ dht_peers = <<>>
                 /\ ~TriesLeft(MAX_RETRIES)
                 /\ GiveUp("walrus")
    /\ UNCHANGED <<request, addr_cache, payment_err, history>>

\* The providers have been dialled, by the addresses that are known and by
\* those that connected peers know; any of them may be connected by now.  The
\* first in the order of the providers is taken.
Poll ==
    /\ pc = "poll"
    /\ \E connected \in SUBSET Peer :
          LET up == {i \in DOMAIN todo : todo[i] \in connected}
          IN  \/ /\ up # {}
                 /\ GoOn("fetch", <<todo[Min(up)]>>, <<>>, 0)
              \/ /\ up = {}
                 /\ TriesLeft(MAX_POLL - 1)
                 /\ tries' = tries + 1
                 /\ UNCHANGED <<pc, todo, data, offset, score, stored, result>>
              \/ /\ up = {}
                 /\ ~TriesLeft(MAX_POLL - 1)
                 /\ GiveUp("walrus")
    /\ UNCHANGED <<request, addr_cache, payment_err, history>>

FetchFromProvider ==
    /\ pc = "fetch"
    /\ FetchBlob(Head(todo), "walrus", GiveUp("walrus"))
    /\ UNCHANGED request

-----------------------------------------------------------------------------
(* Layer 3.  Walrus checks what it returns.  Here a failed put and a failed *)
(* eviction are errors of the request; the blob stays stored in the latter. *)

WalrusBlob ==
    /\ pc = "walrus"
    /\ stored' \in {NoData, <<blob>>}
    /\ Return([source |-> "L3", data |-> blob, payment_error |-> FALSE])
    /\ UNCHANGED <<request, locals, addr_cache, payment_err, score, history>>

WalrusError ==
    /\ pc = "walrus"
    /\ stored' \in {NoData, <<blob>>}
    /\ Return(Error)
    /\ UNCHANGED <<request, locals, addr_cache, payment_err, score, history>>

-----------------------------------------------------------------------------

\* A resolver is made for each request, with empty address caches.
Init ==
    /\ blob \in {Bytes(n) : n \in BlobLengths}
    /\ wallet \in BOOLEAN
    /\ pc = "resolve"
    /\ todo = <<>> /\ data = <<>> /\ offset = 0 /\ tries = 0
    /\ addr_cache = [p \in Peer |-> "unknown"]
    /\ payment_err = FALSE
    /\ score = [p \in Peer |-> 0]
    /\ stored \in {NoData, <<blob>>}
    /\ result = Pending
    /\ clean = TRUE /\ unlocated = FALSE

Next ==
    \/ L0Hit \/ L0Error \/ L0Miss
    \/ Probe \/ Window
    \/ RangePeers \/ FirstRange \/ TooManyChunks \/ NextRange
    \/ WholePeers \/ FetchDirect
    \/ FindProviders \/ Poll \/ FetchFromProvider
    \/ WalrusBlob \/ WalrusError

Spec == Init /\ [][Next]_vars /\ WF_vars(Next)

-----------------------------------------------------------------------------
(* Properties.                                                             *)

\* However ranges fail, are cut short, run over, or end with the blob, and
\* whichever peer serves which: what has been put together from units of the
\* blob is a beginning of the blob (try_direct_peers_range_parallel's test for
\* gaps).  The serial fetch has no such test: its offset moves on by RANGE_CHUNK
\* whatever has arrived, so it holds there as long as offset and data agree; a
\* range that runs over is joined to one that overlaps it, and only the hash of
\* the whole turns the data down.
AssemblyIsPrefix ==
    /\ Corrupt \notin ToSet(data)
    /\ pc = "ranges" => Len(data) = offset
    => IsPrefix(data, blob)

\* An attempt in which every peer with the blob sent exactly the part it was
\* asked for delivers it: the attempt is not abandoned, and no peer is put down
\* for corruption, unless the blob is larger than the attempt accepts or, asked
\* for as a whole, than a message may be.
CleanAttemptsDeliver ==
    [][/\ \A p \in Peer : score'[p] < score[p] => ~clean'
       /\ (pc = "window" /\ pc' \notin {"window", "done"} /\ clean') =>
             Len(blob) > MAX_TOTAL_SIZE
       /\ (pc = "ranges" /\ pc' \notin {"ranges", "done"} /\ clean') =>
             Len(blob) >= MAX_CHUNKS * RANGE_CHUNK
       /\ (pc \in {"whole", "fetch"} /\ pc' # "done" /\ clean') =>
             5 + Len(blob) > MAX_MESSAGE_SIZE]_vars

\* The result of a fetch from peers carries a payment error exactly when the
\* attempt that brought it looked up a peer's address in vain, at whichever of
\* its ranges: the error outlives the later payments of the attempt, in which
\* the same peer, remembered as having no address, costs none
\* (payment_err in try_direct_peers_range and its parallel form).  A payment
\* that failed on chain is not among the errors.
LookupErrorsReported ==
    result.source = "L1" => result.payment_error = unlocated

\* resolve implements a fetch: it returns, once, the blob or an error, and stores
\* nothing else than the blob, whatever the peers send.
Fetch == INSTANCE BlobFetch WITH
    Blobs  <- {Bytes(n) : n \in BlobLengths},
    answer <- [state |-> IF result.source \in {"pending", "error"}
                         THEN result.source ELSE "blob",
               data  |-> result.data]
FetchImplemented == Fetch!Spec

=============================================================================

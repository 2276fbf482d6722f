--------------------------- MODULE ResolverProofs ---------------------------
(***************************************************************************)
(* The resolver, for any peers, any number of them faulty, any blobs and   *)
(* any limits: what arrives of a response, that resolve implements a fetch *)
(* (BlobFetch; safety only, its liveness is checked by TLC), that payment  *)
(* errors are reported, that what is put together from ranges is a         *)
(* beginning of the blob, and that an attempt whose peers all sent what    *)
(* they were asked for delivers the blob.                                  *)
(***************************************************************************)
EXTENDS Resolver, DataFacts

-----------------------------------------------------------------------------
(* The wire: of a response all arrives up to the limit of the reader,       *)
(* nothing beyond.  Data whose length does not fit into a u32 is outside    *)
(* these facts.                                                            *)

\* All of a sequence.
LEMMA WholeSubSeq ==
    ASSUME NEW S, NEW d \in Seq(S)
    PROVE  SubSeq(d, 1, Len(d)) = d
    OBVIOUS

\* A length below 2^32 survives the cast to u32.
LEMMA FitsU32 ==
    ASSUME NEW n \in Nat, n < U32
    PROVE  n % U32 = n
    BY WireAssumption

\* A response of the data protocol arrives as it was sent if it is not longer
\* than MAX_MESSAGE_SIZE, its head of five bytes included.
THEOREM ResponseArrives ==
    ASSUME NEW S, NEW d \in Seq(S), 5 + Len(d) <= MAX_MESSAGE_SIZE
    PROVE  Sent(Have(d)) = Have(d)
<1>1. Len(d) \in Nat /\ Len(d) < U32 /\ 5 + Len(d) < U32
    BY WireAssumption
<1>2. Len(d) % U32 = Len(d) /\ (5 + Len(d)) % U32 = 5 + Len(d)
    BY <1>1, FitsU32
<1>3. write_response(Have(d)) =
        [len |-> 5 + Len(d), status |-> 1, data_len |-> Len(d), body |-> d]
    BY <1>2 DEF write_response, Have
<1>4. 5 + Len(d) \in 1 .. MAX_MESSAGE_SIZE
    BY <1>1, WireAssumption
<1>5. ASSUME NEW f, f.len = 5 + Len(d), f.status = 1, f.body = d,
             f.data_len = Len(d)
      PROVE  read_response(f) = Have(d)
    <2>1. f.len - 5 = Len(d)
        BY <1>1, <1>5
    <2>2. SubSeq(f.body, 1, f.len - 5) = d
        BY <1>5, <2>1, WholeSubSeq
    <2>3. /\ f.len \in 1 .. MAX_MESSAGE_SIZE /\ f.status = 1
          /\ f.len >= 5 /\ f.len = 5 + f.data_len /\ f.len <= 5 + Len(f.body)
        BY <1>1, <1>4, <1>5
    <2> QED
        BY <2>2, <2>3 DEF read_response
<1> QED
    BY <1>3, <1>5 DEF Sent

\* A longer one is written all the same, and the reader refuses it.
THEOREM LongResponseIsLost ==
    ASSUME NEW S, NEW d \in Seq(S),
           MAX_MESSAGE_SIZE < 5 + Len(d), 5 + Len(d) < U32
    PROVE  Sent(Have(d)) = NoReply
<1>1. Len(d) \in Nat /\ Len(d) < U32
    BY WireAssumption
<1>2. Len(d) % U32 = Len(d) /\ (5 + Len(d)) % U32 = 5 + Len(d)
    BY <1>1, FitsU32
<1>3. write_response(Have(d)).len = 5 + Len(d)
    BY <1>2 DEF write_response, Have
<1> QED
    BY <1>1, <1>3, WireAssumption DEF Sent, read_response

\* The same for a range, whose head is one byte.
THEOREM RangeArrives ==
    ASSUME NEW S, NEW d \in Seq(S), 1 + Len(d) <= MAX_MESSAGE_SIZE
    PROVE  SentRange(Have(d)) = Have(d)
<1>1. Len(d) \in Nat /\ Len(d) < U32 /\ 1 + Len(d) < U32
    BY WireAssumption
<1>2. Len(d) % U32 = Len(d) /\ (1 + Len(d)) % U32 = 1 + Len(d)
    BY <1>1, FitsU32
<1>3. write_range_response(Have(d)) =
        [len |-> 1 + Len(d), status |-> 1, data_len |-> 0, body |-> d]
    BY <1>2 DEF write_range_response, Have
<1>4. 1 + Len(d) \in 1 .. MAX_MESSAGE_SIZE
    BY <1>1, WireAssumption
<1>5. ASSUME NEW f, f.len = 1 + Len(d), f.status = 1, f.body = d
      PROVE  read_range_response(f) = Have(d)
    <2>1. f.len - 1 = Len(d)
        BY <1>1, <1>5
    <2>2. SubSeq(f.body, 1, f.len - 1) = d
        BY <1>5, <2>1, WholeSubSeq
    <2>3. /\ f.len \in 1 .. MAX_MESSAGE_SIZE /\ f.status = 1
          /\ f.len <= 1 + Len(f.body)
        BY <1>1, <1>4, <1>5
    <2> QED
        BY <2>2, <2>3 DEF read_range_response
<1> QED
    BY <1>3, <1>5 DEF SentRange

-----------------------------------------------------------------------------
(* resolve implements a fetch.  Until it returns resolve has no result, and *)
(* a step that changes the result or the store is one that returns, with    *)
(* the blob or with an error.  The data of peers comes into either only     *)
(* through finalize_l1_fetch, which verifies it.                            *)


\* The inductive invariant.  There is no result before the end, and what is
\* stored is the blob.
NoResultBeforeEnd == pc # "done" => result = Pending
StoredIsBlob == stored \in {NoData, <<blob>>}
IInv == NoResultBeforeEnd /\ StoredIsBlob

\* What a step does to the result and the store.
Continues == UNCHANGED <<stored, result>>
Returns ==
    /\ pc' = "done"
    /\ stored' \in {NoData, <<blob>>}
    /\ \/ result' = Error
       \/ result' = [source |-> "L1", data |-> blob,
                     payment_error |-> payment_err']
       \/ \E source \in {"L0", "L3"} :
             result' = [source |-> source, data |-> blob,
                        payment_error |-> FALSE]

-----------------------------------------------------------------------------

\* An attempt ends in finalize_l1_fetch by returning the blob or by going on.
LEMMA FinalizeShape ==
    ASSUME NEW peer, NEW d, NEW next, finalize_l1_fetch(peer, d, next)
    PROVE  Continues \/ Returns
<1>1. CASE verify_blob_by_id(d) /\ stored' \in {NoData, <<d>>}
           /\ result' = [source |-> "L1", data |-> d,
                         payment_error |-> payment_err']
           /\ pc' = "done"
    <2>1. d = blob
        BY <1>1 DEF verify_blob_by_id
    <2> QED
        BY <1>1, <2>1 DEF Returns
<1>2. CASE UNCHANGED <<stored, result>>
    BY <1>2 DEF Continues
<1> QED
    BY <1>1, <1>2 DEF finalize_l1_fetch

\* An attempt that gives up or goes on leaves result and store alone.
LEMMA GoOnShape ==
    /\ \A next : GiveUp(next) => Continues
    /\ \A stage, peers, d, off : GoOn(stage, peers, d, off) => Continues
    /\ \A next : Skip(next) => Continues
    BY DEF GiveUp, GoOn, Skip, Continues

\* A window ends the attempt with its data, without, or asks for the next one.
LEMMA WindowShape ==
    ASSUME NEW last, NEW acc, NEW off, EndOfWindow(last, acc, off)
    PROVE  Continues \/ Returns
    BY FinalizeShape, GoOnShape DEF EndOfWindow

\* A fetch of the whole blob ends in finalize_l1_fetch or is given up.
LEMMA FetchBlobShape ==
    ASSUME NEW peer, NEW next, NEW other,
           FetchBlob(peer, next, other), other => Continues
    PROVE  Continues \/ Returns
    BY FinalizeShape DEF FetchBlob

\* Every step comes before the end, keeps the blob asked for, and continues or
\* returns.
LEMMA StepShape ==
    ASSUME IInv, Next
    PROVE  pc # "done" /\ blob' = blob /\ (Continues \/ Returns)
<1>1. CASE L0Hit
    BY <1>1 DEF L0Hit, Return, Returns, IInv, StoredIsBlob, request
<1>2. CASE L0Error
    BY <1>2 DEF L0Error, Return, Returns, IInv, StoredIsBlob, request
<1>3. CASE L0Miss
    BY <1>3 DEF L0Miss, Continues, request
<1>4. CASE Probe
    <2>1. Continues
        BY <1>4, GoOnShape DEF Probe
    <2> QED
        BY <1>4, <2>1 DEF Probe, request
<1>5. CASE Window
    <2>1. Continues \/ Returns
        BY <1>5, WindowShape DEF Window
    <2> QED
        BY <1>5, <2>1 DEF Window, request
<1>6. CASE RangePeers
    BY <1>6, GoOnShape DEF RangePeers, GetConnectedPeers, request
<1>7. CASE FirstRange
    <2>1. Continues \/ Returns
        BY <1>7, FinalizeShape, GoOnShape DEF FirstRange
    <2> QED
        BY <1>7, <2>1 DEF FirstRange, request
<1>8. CASE TooManyChunks
    BY <1>8, GoOnShape DEF TooManyChunks, request
<1>9. CASE NextRange
    <2>1. Continues \/ Returns
        BY <1>9, FinalizeShape, GoOnShape DEF NextRange
    <2> QED
        BY <1>9, <2>1 DEF NextRange, request
<1>10. CASE WholePeers
    BY <1>10, GoOnShape DEF WholePeers, GetConnectedPeers, request
<1>11. CASE FetchDirect
    <2>1. Continues \/ Returns
        BY <1>11, FetchBlobShape, GoOnShape DEF FetchDirect
    <2> QED
        BY <1>11, <2>1 DEF FetchDirect, request
<1>12. CASE FindProviders
    <2>1. Continues
        BY <1>12, GoOnShape DEF FindProviders, Continues
    <2> QED
        BY <1>12, <2>1 DEF FindProviders, request
<1>13. CASE Poll
    <2>1. Continues
        BY <1>13, GoOnShape DEF Poll, Continues
    <2> QED
        BY <1>13, <2>1 DEF Poll, request
<1>14. CASE FetchFromProvider
    <2>1. Continues \/ Returns
        BY <1>14, FetchBlobShape, GoOnShape DEF FetchFromProvider
    <2> QED
        BY <1>14, <2>1 DEF FetchFromProvider, request
<1>15. CASE WalrusBlob
    BY <1>15 DEF WalrusBlob, Return, Returns, request
<1>16. CASE WalrusError
    BY <1>16 DEF WalrusError, Return, Returns, request
<1> QED
    BY <1>1, <1>2, <1>3, <1>4, <1>5, <1>6, <1>7, <1>8, <1>9, <1>10, <1>11,
       <1>12, <1>13, <1>14, <1>15, <1>16 DEF Next

-----------------------------------------------------------------------------

\* Until it returns, resolve has no result; what is stored is the blob.
THEOREM OnlyTheBlobIsStored == Spec => []IInv
<1>1. Init => IInv
    BY DEF Init, IInv, NoResultBeforeEnd, StoredIsBlob
<1>2. IInv /\ [Next]_vars => IInv'
    <2> SUFFICES ASSUME IInv, [Next]_vars PROVE IInv'
        OBVIOUS
    <2>1. CASE Next
        <3>1. pc # "done" /\ blob' = blob /\ (Continues \/ Returns)
            BY <2>1, StepShape
        <3>2. CASE Continues
            BY <3>1, <3>2
               DEF Continues, IInv, NoResultBeforeEnd, StoredIsBlob, Pending,
                   NoData
        <3>3. CASE Returns
            BY <3>1, <3>3
               DEF Returns, IInv, NoResultBeforeEnd, StoredIsBlob, NoData
        <3> QED
            BY <3>1, <3>2, <3>3
    <2>2. CASE UNCHANGED vars
        BY <2>2 DEF vars, request, IInv, NoResultBeforeEnd, StoredIsBlob,
                    NoData, Pending
    <2> QED
        BY <2>1, <2>2
<1> QED
    BY <1>1, <1>2, PTL DEF Spec

\* resolve implements a fetch: its initial states are those of a fetch, and each
\* of its steps is the fetch's one answer or invisible to it.
THEOREM ResolveImplementsFetch ==
    Spec => Fetch!Init /\ [][Fetch!Answer]_(Fetch!vars)
<1>1. Init => Fetch!Init
    BY DEF Init, Fetch!Init, Fetch!Pending, Pending, NoData
<1>2. IInv /\ [Next]_vars => [Fetch!Answer]_(Fetch!vars)
    <2> SUFFICES ASSUME IInv, [Next]_vars PROVE [Fetch!Answer]_(Fetch!vars)
        OBVIOUS
    <2>1. CASE Next
        <3>1. pc # "done" /\ blob' = blob /\ (Continues \/ Returns)
            BY <2>1, StepShape
        <3>2. CASE Continues
            BY <3>1, <3>2 DEF Continues, Fetch!vars
        <3>3. CASE Returns
            <4>1. result = Pending
                BY <3>1 DEF IInv, NoResultBeforeEnd
            <4> QED
                BY <3>1, <3>3, <4>1
                   DEF Returns, Fetch!Answer, Fetch!Pending, Fetch!Failed,
                       Fetch!Success, Pending, Error, NoData
        <3> QED
            BY <3>1, <3>2, <3>3
    <2>2. CASE UNCHANGED vars
        BY <2>2 DEF vars, request, Fetch!vars
    <2> QED
        BY <2>1, <2>2
<1> QED
    BY <1>1, <1>2, OnlyTheBlobIsStored, PTL DEF Spec

-----------------------------------------------------------------------------
(* Payment errors.  The error an attempt carries and the history of its     *)
(* payments agree at every step, and stay as they are once resolve returns. *)

ErrorIsKept == payment_err \in BOOLEAN /\ unlocated = payment_err

\* A payment keeps them in agreement.
LEMMA PaymentShape ==
    ASSUME ErrorIsKept
    PROVE  \A peers, found :
               FirstPayment(peers, found) \/ NextPayment(peers, found)
                   => ErrorIsKept'
    BY DEF ErrorIsKept, FirstPayment, NextPayment, PaymentError

\* Every step either pays or leaves both alone.
LEMMA ErrorKept ==
    ASSUME ErrorIsKept, Next
    PROVE  ErrorIsKept'
<1>1. CASE L0Hit \/ L0Error \/ L0Miss \/ WalrusBlob \/ WalrusError
    BY <1>1 DEF L0Hit, L0Error, L0Miss, WalrusBlob, WalrusError, history,
                ErrorIsKept
<1>2. CASE RangePeers \/ WholePeers \/ TooManyChunks \/ FindProviders \/ Poll
    BY <1>2 DEF RangePeers, WholePeers, GetConnectedPeers, TooManyChunks,
                FindProviders, Poll, history, ErrorIsKept
<1>3. CASE Probe
    BY <1>3, PaymentShape DEF Probe
<1>4. CASE Window
    BY <1>4, PaymentShape DEF Window
<1>5. CASE FirstRange
    BY <1>5, PaymentShape DEF FirstRange
<1>6. CASE NextRange
    BY <1>6, PaymentShape DEF NextRange
<1>7. CASE FetchDirect
    BY <1>7, PaymentShape DEF FetchDirect, FetchBlob
<1>8. CASE FetchFromProvider
    BY <1>8, PaymentShape DEF FetchFromProvider, FetchBlob
<1> QED
    BY <1>1, <1>2, <1>3, <1>4, <1>5, <1>6, <1>7, <1>8 DEF Next

\* A result from peers carries a payment error exactly when the attempt that
\* brought it looked up an address in vain (finalize_l1_fetch's payment_error).
THEOREM LookupErrorsAreReported == Spec => []LookupErrorsReported
<1>1. Init => ErrorIsKept /\ LookupErrorsReported
    <2> SUFFICES ASSUME Init PROVE ErrorIsKept /\ LookupErrorsReported
        OBVIOUS
    <2>1. ErrorIsKept
        BY DEF Init, ErrorIsKept
    <2>2. result.source = "pending"
        BY DEF Init, Pending
    <2> QED
        BY <2>1, <2>2 DEF LookupErrorsReported
<1>2. IInv /\ ErrorIsKept /\ LookupErrorsReported /\ [Next]_vars
         => (ErrorIsKept /\ LookupErrorsReported)'
    <2> SUFFICES ASSUME IInv, ErrorIsKept, LookupErrorsReported, [Next]_vars
                 PROVE  (ErrorIsKept /\ LookupErrorsReported)'
        OBVIOUS
    <2>1. CASE Next
        <3>1. ErrorIsKept'
            BY <2>1, ErrorKept
        <3>2. pc # "done" /\ (Continues \/ Returns)
            BY <2>1, StepShape
        <3>3. result = Pending
            BY <3>2 DEF IInv, NoResultBeforeEnd
        <3>4. CASE Continues
            BY <3>1, <3>3, <3>4 DEF Continues, LookupErrorsReported, Pending
        <3>5. CASE Returns
            BY <3>1, <3>5 DEF Returns, ErrorIsKept, LookupErrorsReported, Error
        <3> QED
            BY <3>1, <3>2, <3>4, <3>5
    <2>2. CASE UNCHANGED vars
        BY <2>2 DEF vars, history, ErrorIsKept, LookupErrorsReported
    <2> QED
        BY <2>1, <2>2
<1> QED
    BY <1>1, <1>2, OnlyTheBlobIsStored, PTL DEF Spec

-----------------------------------------------------------------------------
(* The last clause of CleanAttemptsDeliver: a peer that holds the blob and  *)
(* sends it as a whole delivers it, if it fits into a message.              *)

BlobIsBytes == blob \in Seq(Nat)
FitsMessage == 5 + Len(blob) <= MAX_MESSAGE_SIZE
WholeDelivers == pc \in {"whole", "fetch"} /\ clean' /\ FitsMessage => pc' = "done"

\* What the holder sends is what write_response and read_response make of it,
\* which is the blob: it is verified, and resolve returns.
LEMMA CleanFetchReturns ==
    ASSUME NEW peer, NEW next, NEW other, FetchBlob(peer, next, other), clean',
           BlobIsBytes, FitsMessage
    PROVE  pc' = "done"
<1> DEFINE truth == [p \in {peer} |-> Sent(handle_inbound_request)]
<1>1. truth[peer] = Have(blob)
    BY ResponseArrives DEF BlobIsBytes, FitsMessage, handle_inbound_request
<1>2. PICK reply : /\ clean' = (reply = truth)
                   /\ IF reply[peer].ok
                      THEN finalize_l1_fetch(peer, reply[peer].data, next)
                      ELSE other
    BY DEF FetchBlob
<1>3. reply[peer] = Have(blob)
    BY <1>1, <1>2
<1>4. finalize_l1_fetch(peer, blob, next)
    BY <1>2, <1>3 DEF Have
<1> QED
    BY <1>4 DEF finalize_l1_fetch, verify_blob_by_id

\* try_direct_peers and the fetch from a provider: a peer that has the blob and
\* sends it delivers it, whichever peer it is and whatever was tried before.
THEOREM WholeFetchDelivers == Spec => [][WholeDelivers]_vars
<1>1. Init => BlobIsBytes
    BY ResolverAssumption DEF Init, BlobIsBytes, Bytes
<1>2. BlobIsBytes /\ [Next]_vars => BlobIsBytes'
    <2> SUFFICES ASSUME BlobIsBytes, [Next]_vars PROVE blob' = blob
        BY DEF BlobIsBytes
    <2>1. CASE UNCHANGED vars
        BY <2>1 DEF vars, request
    <2>2. CASE Next
        BY <2>2 DEF Next, L0Hit, L0Error, L0Miss, Probe, Window, RangePeers,
            GetConnectedPeers, FirstRange, TooManyChunks, NextRange, WholePeers,
            FetchDirect, FindProviders, Poll, FetchFromProvider, WalrusBlob,
            WalrusError, request
    <2> QED
        BY <2>1, <2>2
<1>3. BlobIsBytes /\ [Next]_vars => [WholeDelivers]_vars
    <2> SUFFICES ASSUME BlobIsBytes, Next, pc \in {"whole", "fetch"}, clean',
                        FitsMessage
                 PROVE  pc' = "done"
        BY DEF WholeDelivers
    <2>1. FetchDirect \/ FetchFromProvider
        BY DEF Next, L0Hit, L0Error, L0Miss, Probe, Window, RangePeers,
            FirstRange, TooManyChunks, NextRange, WholePeers, FindProviders,
            Poll, WalrusBlob, WalrusError
    <2>2. CASE FetchDirect
        BY <2>2, CleanFetchReturns DEF FetchDirect
    <2>3. CASE FetchFromProvider
        BY <2>3, CleanFetchReturns DEF FetchFromProvider
    <2> QED
        BY <2>1, <2>2, <2>3
<1> QED
    BY <1>1, <1>2, <1>3, PTL DEF Spec

-----------------------------------------------------------------------------
(* Folds.  A fold is defined with a function on the sets of positions; the  *)
(* lemmas say that there is one, and turn it into a value for each number   *)
(* of entries looked at.  `Those` and `Assemble` need one each.             *)

Keep(kept, e, S) == IF e \in S THEN Append(kept, e) ELSE kept

FoldedThose(entries, S, iter) ==
    iter = [s \in SUBSET (DOMAIN entries) |->
              IF s = {} THEN <<>>
              ELSE Keep(iter[s \ {Max(s)}], entries[Max(s)], S)]

FoldedTake(entries, base, iter) ==
    iter = [s \in SUBSET (DOMAIN entries) |->
              IF s = {} THEN base
              ELSE Take(iter[s \ {Max(s)}], entries[Max(s)])]

\* The fold behind filter, unfolded.
LEMMA ThoseUnfolds ==
    ASSUME NEW entries, NEW S
    PROVE  Those(entries, S)
           = (CHOOSE iter : FoldedThose(entries, S, iter))[DOMAIN entries]
    BY Zenon DEF Those, FoldLeft, MapThenFoldSet, FoldedThose, Keep

\* The loop over the chunks, unfolded.
LEMMA TakeUnfolds ==
    ASSUME NEW entries, NEW base
    PROVE  FoldLeft(Take, base, entries)
           = (CHOOSE iter : FoldedTake(entries, base, iter))[DOMAIN entries]
    BY Zenon DEF FoldLeft, MapThenFoldSet, FoldedTake

\* The largest of a set that contains n + 1 and nothing larger.
LEMMA MaxIsLast ==
    ASSUME NEW n \in Nat, NEW s \in SUBSET (1 .. n + 1), n + 1 \in s
    PROVE  Max(s) = n + 1
<1>1. \A y \in s : n + 1 >= y
    OBVIOUS
<1>2. \A x \in s : x >= n + 1 => x = n + 1
    OBVIOUS
<1> QED
    BY <1>1, <1>2 DEF Max

\* There is such a function for the filter,
LEMMA ThoseExists ==
    ASSUME NEW entries, NEW S, NEW len \in Nat, DOMAIN entries = 1 .. len
    PROVE  \E iter : FoldedThose(entries, S, iter)
<1> DEFINE Eq(g, n) ==
              g = [s \in SUBSET (1 .. n) |->
                     IF s = {} THEN <<>>
                     ELSE Keep(g[s \ {Max(s)}], entries[Max(s)], S)]
           T == {n \in Nat : \E g : Eq(g, n)}
<1>1. 0 \in T
    <2> DEFINE g == [s \in SUBSET (1 .. 0) |-> <<>>]
    <2>1. \A s \in SUBSET (1 .. 0) : s = {}
        OBVIOUS
    <2>2. Eq(g, 0)
        BY <2>1
    <2> QED
        BY <2>2
<1>2. ASSUME NEW n \in T PROVE n + 1 \in T
    <2>1. PICK g : Eq(g, n)
        OBVIOUS
    <2> DEFINE h == [s \in SUBSET (1 .. n + 1) |->
                       IF n + 1 \in s THEN Keep(g[s \ {n + 1}], entries[n + 1], S)
                       ELSE g[s]]
    <2>2. ASSUME NEW s \in SUBSET (1 .. n + 1)
          PROVE  h[s] = IF s = {} THEN <<>>
                        ELSE Keep(h[s \ {Max(s)}], entries[Max(s)], S)
        <3>1. CASE n + 1 \in s
            <4>1. Max(s) = n + 1
                BY <3>1, MaxIsLast
            <4>2. s \ {n + 1} \in SUBSET (1 .. n) /\ s \ {n + 1} \in SUBSET (1 .. n + 1)
                OBVIOUS
            <4>3. h[s \ {n + 1}] = g[s \ {n + 1}]
                BY <4>2
            <4> QED
                BY <3>1, <4>1, <4>3
        <3>2. CASE n + 1 \notin s
            <4>1. s \in SUBSET (1 .. n)
                BY <3>2
            <4>2. g[s] = IF s = {} THEN <<>>
                         ELSE Keep(g[s \ {Max(s)}], entries[Max(s)], S)
                BY <2>1, <4>1
            <4>3. h[s] = g[s] /\ h[s \ {Max(s)}] = g[s \ {Max(s)}]
                BY <3>2
            <4> QED
                BY <4>2, <4>3
        <3> QED
            BY <3>1, <3>2
    <2>3. Eq(h, n + 1)
        BY <2>2
    <2>4. n + 1 \in Nat
        OBVIOUS
    <2> HIDE DEF h, Eq
    <2> QED
        BY <2>3, <2>4
<1>3. len \in T
    <2> HIDE DEF T
    <2>1. T \in SUBSET Nat
        BY DEF T
    <2> QED
        BY <1>1, <1>2, <2>1, SetInduction
<1>4. PICK g : Eq(g, len)
    BY <1>3
<1> QED
    BY <1>4 DEF FoldedThose

\* and for the loop.
LEMMA TakeExists ==
    ASSUME NEW entries, NEW base, NEW len \in Nat, DOMAIN entries = 1 .. len
    PROVE  \E iter : FoldedTake(entries, base, iter)
<1> DEFINE Eq(g, n) ==
              g = [s \in SUBSET (1 .. n) |->
                     IF s = {} THEN base
                     ELSE Take(g[s \ {Max(s)}], entries[Max(s)])]
           T == {n \in Nat : \E g : Eq(g, n)}
<1>1. 0 \in T
    <2> DEFINE g == [s \in SUBSET (1 .. 0) |-> base]
    <2>1. \A s \in SUBSET (1 .. 0) : s = {}
        OBVIOUS
    <2>2. Eq(g, 0)
        BY <2>1
    <2> QED
        BY <2>2
<1>2. ASSUME NEW n \in T PROVE n + 1 \in T
    <2>1. PICK g : Eq(g, n)
        OBVIOUS
    <2> DEFINE h == [s \in SUBSET (1 .. n + 1) |->
                       IF n + 1 \in s THEN Take(g[s \ {n + 1}], entries[n + 1])
                       ELSE g[s]]
    <2>2. ASSUME NEW s \in SUBSET (1 .. n + 1)
          PROVE  h[s] = IF s = {} THEN base
                        ELSE Take(h[s \ {Max(s)}], entries[Max(s)])
        <3>1. CASE n + 1 \in s
            <4>1. Max(s) = n + 1
                BY <3>1, MaxIsLast
            <4>2. s \ {n + 1} \in SUBSET (1 .. n) /\ s \ {n + 1} \in SUBSET (1 .. n + 1)
                OBVIOUS
            <4>3. h[s \ {n + 1}] = g[s \ {n + 1}]
                BY <4>2
            <4> QED
                BY <3>1, <4>1, <4>3
        <3>2. CASE n + 1 \notin s
            <4>1. s \in SUBSET (1 .. n)
                BY <3>2
            <4>2. g[s] = IF s = {} THEN base
                         ELSE Take(g[s \ {Max(s)}], entries[Max(s)])
                BY <2>1, <4>1
            <4>3. h[s] = g[s] /\ h[s \ {Max(s)}] = g[s \ {Max(s)}]
                BY <3>2
            <4> QED
                BY <4>2, <4>3
        <3> QED
            BY <3>1, <3>2
    <2>3. Eq(h, n + 1)
        BY <2>2
    <2>4. n + 1 \in Nat
        OBVIOUS
    <2> HIDE DEF h, Eq
    <2> QED
        BY <2>3, <2>4
<1>3. len \in T
    <2> HIDE DEF T
    <2>1. T \in SUBSET Nat
        BY DEF T
    <2> QED
        BY <1>1, <1>2, <2>1, SetInduction
<1>4. PICK g : Eq(g, len)
    BY <1>3
<1> QED
    BY <1>4 DEF FoldedTake

\* The value after the first n entries, for each n.
Kept(entries, S, len, f) ==
    /\ f[0] = <<>>
    /\ \A n \in 1 .. len : f[n] = Keep(f[n - 1], entries[n], S)
    /\ Those(entries, S) = f[len]

\* The filter looks at one entry after the other,
LEMMA ThoseSteps ==
    ASSUME NEW entries, NEW S, NEW len \in Nat, DOMAIN entries = 1 .. len
    PROVE  \E f : Kept(entries, S, len, f)
<1> DEFINE iter == CHOOSE g : FoldedThose(entries, S, g)
           f == [n \in 0 .. len |-> iter[1 .. n]]
<1>1. FoldedThose(entries, S, iter)
    BY ThoseExists
<1> HIDE DEF iter
<1>2. f[0] = <<>>
    <2>1. 1 .. 0 = {} /\ {} \in SUBSET (DOMAIN entries)
        OBVIOUS
    <2>2. iter[{}] = <<>>
        BY <1>1, <2>1 DEF FoldedThose
    <2> QED
        BY <2>1, <2>2
<1>3. ASSUME NEW n \in 1 .. len
      PROVE  f[n] = Keep(f[n - 1], entries[n], S)
    <2>1. Max(1 .. n) = n
        <3>1. n - 1 \in Nat /\ (n - 1) + 1 = n /\ n \in 1 .. n
            OBVIOUS
        <3> QED
            BY <3>1, MaxIsLast
    <2>2. /\ 1 .. n # {} /\ (1 .. n) \ {n} = 1 .. n - 1
          /\ 1 .. n \in SUBSET (DOMAIN entries)
        <3>1. n \in 1 .. n /\ 1 .. n \subseteq 1 .. len
            OBVIOUS
        <3>2. (1 .. n) \ {n} = 1 .. n - 1
            OBVIOUS
        <3> QED
            BY <3>1, <3>2
    <2>3. iter[1 .. n] = Keep(iter[(1 .. n) \ {Max(1 .. n)}], entries[Max(1 .. n)], S)
        BY <1>1, <2>2 DEF FoldedThose
    <2>4. f[n] = iter[1 .. n] /\ f[n - 1] = iter[1 .. n - 1]
        OBVIOUS
    <2> QED
        BY <2>1, <2>2, <2>3, <2>4
<1>4. Those(entries, S) = f[len]
    BY ThoseUnfolds DEF iter
<1>5. Kept(entries, S, len, f)
    BY <1>2, <1>3, <1>4 DEF Kept
<1> QED
    BY <1>5

\* The value after the first n entries, for each n.
Taken(entries, base, len, f) ==
    /\ f[0] = base
    /\ \A n \in 1 .. len : f[n] = Take(f[n - 1], entries[n])
    /\ FoldLeft(Take, base, entries) = f[len]

\* and so does the loop.
LEMMA TakeSteps ==
    ASSUME NEW entries, NEW base, NEW len \in Nat, DOMAIN entries = 1 .. len
    PROVE  \E f : Taken(entries, base, len, f)
<1> DEFINE iter == CHOOSE g : FoldedTake(entries, base, g)
           f == [n \in 0 .. len |-> iter[1 .. n]]
<1>1. FoldedTake(entries, base, iter)
    BY TakeExists
<1> HIDE DEF iter
<1>2. f[0] = base
    <2>1. 1 .. 0 = {} /\ {} \in SUBSET (DOMAIN entries)
        OBVIOUS
    <2>2. iter[{}] = base
        BY <1>1, <2>1 DEF FoldedTake
    <2> QED
        BY <2>1, <2>2
<1>3. ASSUME NEW n \in 1 .. len
      PROVE  f[n] = Take(f[n - 1], entries[n])
    <2>1. Max(1 .. n) = n
        <3>1. n - 1 \in Nat /\ (n - 1) + 1 = n /\ n \in 1 .. n
            OBVIOUS
        <3> QED
            BY <3>1, MaxIsLast
    <2>2. /\ 1 .. n # {} /\ (1 .. n) \ {n} = 1 .. n - 1
          /\ 1 .. n \in SUBSET (DOMAIN entries)
        <3>1. n \in 1 .. n /\ 1 .. n \subseteq 1 .. len
            OBVIOUS
        <3>2. (1 .. n) \ {n} = 1 .. n - 1
            OBVIOUS
        <3> QED
            BY <3>1, <3>2
    <2>3. iter[1 .. n] = Take(iter[(1 .. n) \ {Max(1 .. n)}], entries[Max(1 .. n)])
        BY <1>1, <2>2 DEF FoldedTake
    <2>4. f[n] = iter[1 .. n] /\ f[n - 1] = iter[1 .. n - 1]
        OBVIOUS
    <2> QED
        BY <2>1, <2>2, <2>3, <2>4
<1>4. FoldLeft(Take, base, entries) = f[len]
    BY TakeUnfolds DEF iter
<1>5. Taken(entries, base, len, f)
    BY <1>2, <1>3, <1>4 DEF Taken
<1> QED
    BY <1>5

-----------------------------------------------------------------------------
(* Lists of peers.                                                         *)

Once(l) == \A i, j \in DOMAIN l : l[i] = l[j] => i = j

\* Entries of a list that are in S make a list, without an entry twice if
\* there was none.
LEMMA ThoseFacts ==
    ASSUME NEW U, NEW l \in Seq(U), Once(l), NEW S
    PROVE  Those(l, S) \in Seq(U \cap S) /\ Once(Those(l, S))
           /\ ToSet(Those(l, S)) \subseteq ToSet(l) \cap S
<1>1. /\ Len(l) \in Nat /\ DOMAIN l = 1 .. Len(l)
      /\ \A i, j \in 1 .. Len(l) : l[i] = l[j] => i = j
      /\ \A i \in 1 .. Len(l) : l[i] \in U
    BY DEF Once
<1>2. PICK f : Kept(l, S, Len(l), f)
    BY <1>1, ThoseSteps
<1> DEFINE P(n) == /\ f[n] \in Seq(U \cap S) /\ Once(f[n])
                   /\ \A e \in ToSet(f[n]) : e \in S /\ \E i \in 1 .. n : l[i] = e
           T == {n \in Nat : n <= Len(l) => P(n)}
<1>3. 0 \in T
    <2>1. f[0] = <<>>
        BY <1>2 DEF Kept
    <2>2. ToSet(<<>>) = {} /\ Once(<<>>) /\ <<>> \in Seq(U \cap S)
        BY DEF ToSet, Once
    <2>3. P(0)
        BY <2>1, <2>2
    <2> HIDE DEF P
    <2> QED
        BY <2>3
<1>4. ASSUME NEW n \in T PROVE n + 1 \in T
    <2>1. n \in Nat /\ n + 1 \in Nat
        OBVIOUS
    <2>2. SUFFICES ASSUME n + 1 <= Len(l) PROVE P(n + 1)
        BY <2>1
    <2>3. n <= Len(l) /\ n + 1 \in 1 .. Len(l) /\ (n + 1) - 1 = n
        BY <1>1, <2>1, <2>2
    <2>4. P(n)
        BY <2>3
    <2>5. f[n + 1] = Keep(f[n], l[n + 1], S)
        BY <1>2, <2>3 DEF Kept
    <2>6. 1 .. n \subseteq 1 .. n + 1 /\ n + 1 \in 1 .. n + 1
          /\ 1 .. n \subseteq 1 .. Len(l) /\ n + 1 \notin 1 .. n
        BY <2>1, <2>3, <1>1
    <2>7. CASE l[n + 1] \notin S
        <3>1. f[n + 1] = f[n]
            BY <2>5, <2>7 DEF Keep
        <3> QED
            BY <3>1, <2>4, <2>6
    <2>8. CASE l[n + 1] \in S
        <3> DEFINE e == l[n + 1]
                   k == f[n]
        <3>1. f[n + 1] = Append(k, e) /\ e \in U \cap S /\ k \in Seq(U \cap S)
            BY <2>3, <2>4, <2>5, <2>8, <1>1 DEF Keep
        <3>2. e \notin ToSet(k)
            BY <2>3, <2>4, <2>6, <1>1
        <3>3. /\ \A x \in ToSet(k) : x \in S /\ \E i \in 1 .. n : l[i] = x
              /\ Once(k)
            BY <2>4
        <3> HIDE DEF k
        <3>4. /\ Append(k, e) \in Seq(U \cap S)
              /\ DOMAIN k = 1 .. Len(k) /\ Len(k) \in Nat
              /\ DOMAIN Append(k, e) = 1 .. Len(k) + 1
              /\ \A i \in 1 .. Len(k) : Append(k, e)[i] = k[i]
              /\ Append(k, e)[Len(k) + 1] = e
            BY <3>1
        <3>5. \A i \in 1 .. Len(k) + 1 : i \in 1 .. Len(k) \/ i = Len(k) + 1
            BY <3>4
        <3>6. \A i \in 1 .. Len(k) : k[i] # e
            BY <3>2, <3>4 DEF ToSet
        <3>7. Once(Append(k, e))
            BY <3>3, <3>4, <3>5, <3>6 DEF Once
        <3>8. \A x \in ToSet(Append(k, e)) : x \in ToSet(k) \/ x = e
            BY <3>4, <3>5 DEF ToSet
        <3>9. \A x \in ToSet(Append(k, e)) : x \in S /\ \E i \in 1 .. n + 1 : l[i] = x
            BY <3>3, <3>8, <2>6, <2>8
        <3> QED
            BY <3>1, <3>4, <3>7, <3>9
    <2> QED
        BY <2>7, <2>8
<1>5. Len(l) \in T
    <2> HIDE DEF T
    <2>1. T \in SUBSET Nat
        BY DEF T
    <2> QED
        BY <1>1, <1>3, <1>4, <2>1, SetInduction
<1>6. P(Len(l)) /\ Those(l, S) = f[Len(l)]
    BY <1>1, <1>2, <1>5 DEF Kept
<1>7. ToSet(Those(l, S)) \subseteq ToSet(l) \cap S
    BY <1>1, <1>6 DEF ToSet
<1> QED
    BY <1>6, <1>7

\* A list of connected peers, or of providers, has no peer twice.
LEMMA ListFacts ==
    ASSUME NEW U, IsFiniteSet(U), NEW l \in ListOf(U)
    PROVE  l \in Seq(U) /\ Once(l)
<1>1. PICK V \in SUBSET U : l \in SetToSeqs(V)
    BY DEF ListOf
<1>2. Cardinality(V) \in Nat
    BY <1>1, FS_Subset, FS_CardinalityType
<1>3. l \in [1 .. Cardinality(V) -> V]
      /\ \A i, j \in 1 .. Cardinality(V) : i # j => l[i] # l[j]
    BY <1>1 DEF SetToSeqs
<1>4. l \in Seq(U)
    BY <1>2, <1>3
<1> QED
    BY <1>3, <1>4 DEF Once

-----------------------------------------------------------------------------
(* Parts of the blob.                                                      *)

\* The data is a beginning of the blob; it contains a unit of no blob.
Begins(d) == Len(d) <= Len(blob) /\ \A i \in 1 .. Len(d) : d[i] = blob[i]
Marked(d) == Corrupt \in ToSet(d)

\* The part of the blob after the first `start` units, as far as it goes.
PartAt(c, start) ==
    /\ start + Len(c) <= Len(blob)
    /\ \A i \in 1 .. Len(c) : c[i] = blob[start + i]

\* What may come back when a part is asked for.
ChunkAt(c, start) == c = <<>> \/ Marked(c) \/ PartAt(c, start)

\* The part that a holder sends.
Rest(start, length) ==
    IF start + length < Len(blob) THEN length ELSE Len(blob) - start

LEMMA SubSeqFacts ==
    ASSUME NEW S, NEW s \in Seq(S), NEW m \in Nat, NEW n \in Nat, n <= Len(s), m <= n
    PROVE  /\ SubSeq(s, m + 1, n) \in Seq(S)
           /\ Len(SubSeq(s, m + 1, n)) = n - m
           /\ \A i \in 1 .. n - m : SubSeq(s, m + 1, n)[i] = s[m + i]
    OBVIOUS

\* Data put together.
LEMMA ConcatFacts ==
    ASSUME NEW S, NEW s \in Seq(S), NEW c \in Seq(S)
    PROVE  /\ s \o c \in Seq(S) /\ Len(s \o c) = Len(s) + Len(c)
           /\ \A i \in 1 .. Len(s) : (s \o c)[i] = s[i]
           /\ \A i \in 1 .. Len(c) : (s \o c)[Len(s) + i] = c[i]
           /\ ToSet(s \o c) = ToSet(s) \cup ToSet(c)
<1>1. /\ s \o c \in Seq(S) /\ Len(s \o c) = Len(s) + Len(c)
      /\ Len(s) \in Nat /\ Len(c) \in Nat
      /\ DOMAIN (s \o c) = 1 .. Len(s) + Len(c)
      /\ DOMAIN s = 1 .. Len(s) /\ DOMAIN c = 1 .. Len(c)
      /\ \A i \in 1 .. Len(s) : (s \o c)[i] = s[i]
    OBVIOUS
<1>2. \A i \in 1 .. Len(c) : (s \o c)[Len(s) + i] = c[i]
    OBVIOUS
<1>3. \A i \in 1 .. Len(s) + Len(c) :
          i \in 1 .. Len(s) \/ \E j \in 1 .. Len(c) : i = Len(s) + j
    <2> TAKE i \in 1 .. Len(s) + Len(c)
    <2>1. i > Len(s) => i - Len(s) \in 1 .. Len(c) /\ i = Len(s) + (i - Len(s))
        BY <1>1
    <2>2. ~(i > Len(s)) => i \in 1 .. Len(s)
        BY <1>1
    <2> QED
        BY <2>1, <2>2
<1>4. \A i \in 1 .. Len(s) : i \in 1 .. Len(s) + Len(c)
    BY <1>1
<1>5. \A j \in 1 .. Len(c) : Len(s) + j \in 1 .. Len(s) + Len(c)
    BY <1>1
<1>6. ToSet(s \o c) = ToSet(s) \cup ToSet(c)
    <2> DEFINE v == s \o c
               n == Len(s)
               m == Len(c)
    <2>1. /\ DOMAIN v = 1 .. n + m /\ DOMAIN s = 1 .. n /\ DOMAIN c = 1 .. m
          /\ \A i \in 1 .. n : v[i] = s[i]
          /\ \A i \in 1 .. m : v[n + i] = c[i]
          /\ \A i \in 1 .. n + m : i \in 1 .. n \/ \E j \in 1 .. m : i = n + j
          /\ \A i \in 1 .. n : i \in 1 .. n + m
          /\ \A j \in 1 .. m : n + j \in 1 .. n + m
        BY <1>1, <1>2, <1>3, <1>4, <1>5
    <2> HIDE DEF v, n, m
    <2>2. \A x \in ToSet(v) : x \in ToSet(s) \/ x \in ToSet(c)
        BY <2>1 DEF ToSet
    <2>3. \A x \in ToSet(s) : x \in ToSet(v)
        BY <2>1 DEF ToSet
    <2>4. \A x \in ToSet(c) : x \in ToSet(v)
        BY <2>1 DEF ToSet
    <2>5. ToSet(v) = ToSet(s) \cup ToSet(c)
        BY <2>2, <2>3, <2>4
    <2> QED
        BY <2>5 DEF v
<1> QED
    BY <1>1, <1>2, <1>6

\* A beginning and the part that follows it are a beginning.
LEMMA BeginsConcat ==
    ASSUME blob \in Seq(Nat), NEW d \in Seq(Nat), NEW c \in Seq(Nat)
    PROVE  /\ Begins(d) /\ PartAt(c, Len(d)) => Begins(d \o c)
           /\ Marked(d) \/ Marked(c) => Marked(d \o c)
<1>1. /\ Len(d \o c) = Len(d) + Len(c) /\ Len(d) \in Nat /\ Len(c) \in Nat
      /\ \A i \in 1 .. Len(d) : (d \o c)[i] = d[i]
      /\ \A i \in 1 .. Len(c) : (d \o c)[Len(d) + i] = c[i]
      /\ ToSet(d \o c) = ToSet(d) \cup ToSet(c)
    BY ConcatFacts
<1>2. ASSUME Begins(d), PartAt(c, Len(d)), NEW i \in 1 .. Len(d) + Len(c)
      PROVE  (d \o c)[i] = blob[i]
    <2>1. CASE i <= Len(d)
        <3>1. i \in 1 .. Len(d)
            BY <1>1, <2>1
        <3> QED
            BY <1>1, <1>2, <3>1 DEF Begins
    <2>2. CASE ~(i <= Len(d))
        <3>1. i - Len(d) \in 1 .. Len(c) /\ Len(d) + (i - Len(d)) = i
            BY <1>1, <2>2
        <3> QED
            BY <1>1, <1>2, <3>1 DEF PartAt
    <2> QED
        BY <2>1, <2>2
<1>3. Begins(d) /\ PartAt(c, Len(d)) => Begins(d \o c)
    BY <1>1, <1>2 DEF Begins, PartAt
<1> QED
    BY <1>1, <1>3 DEF Marked

\* A beginning that is as long as the blob is the blob.
LEMMA WholeBegins ==
    ASSUME blob \in Seq(Nat), NEW d \in Seq(Nat), Begins(d), Len(d) = Len(blob)
    PROVE  d = blob
<1>1. /\ d = [i \in 1 .. Len(d) |-> d[i]]
      /\ blob = [i \in 1 .. Len(blob) |-> blob[i]]
    OBVIOUS
<1>2. \A i \in 1 .. Len(blob) : d[i] = blob[i]
    BY DEF Begins
<1> QED
    BY <1>1, <1>2

-----------------------------------------------------------------------------
(* Replies.                                                                *)

\* Of the data of a range response a beginning arrives, or nothing.
LEMMA RangeSent ==
    ASSUME NEW d \in Seq(Nat)
    PROVE  SentRange(Have(d)) = NoReply
           \/ \E k \in 0 .. Len(d) : SentRange(Have(d)) = Have(SubSeq(d, 1, k))
<1> DEFINE f == write_range_response(Have(d))
<1>1. f.body = d
    BY DEF write_range_response, Have
<1> HIDE DEF f
<1>2. ASSUME f.len \in 1 .. MAX_MESSAGE_SIZE, f.len <= 1 + Len(f.body)
      PROVE  f.len - 1 \in 0 .. Len(d)
    BY <1>1, <1>2, WireAssumption
<1>3. SentRange(Have(d)) = read_range_response(f)
    BY DEF SentRange, f
<1> QED
    BY <1>1, <1>2, <1>3 DEF read_range_response

\* What arrives of a holder's answer to a range request is a part of the blob
\* from where it was asked for, not longer than asked for, and all of the
\* range that the blob has if the range fits into a message.
LEMMA RangeTruth ==
    ASSUME blob \in Seq(Nat), NEW start \in Nat, NEW length \in Nat,
           NEW t, t = SentRange(handle_inbound_range_request(start, length))
    PROVE  /\ t = NoReply \/ t = Have(t.data)
           /\ t.data \in Seq(Nat) /\ Len(t.data) <= length
           /\ t.data = <<>> \/ PartAt(t.data, start)
           /\ length < MAX_MESSAGE_SIZE =>
                IF start < Len(blob)
                THEN /\ t = Have(t.data) /\ PartAt(t.data, start)
                     /\ Len(t.data) = Rest(start, length)
                ELSE t = NoReply
<1>1. NoReply.data = <<>> /\ <<>> \in Seq(Nat) /\ Len(<<>>) = 0 /\ Len(blob) \in Nat
    BY DEF NoReply
<1>2. CASE start >= Len(blob)
    <2>1. handle_inbound_range_request(start, length) = NoReply
        BY <1>2 DEF handle_inbound_range_request
    <2>2. SentRange(NoReply) = NoReply
        BY DEF SentRange, write_range_response, NoReply, NotFoundFrame,
               read_range_response
    <2>3. t = NoReply
        BY <2>1, <2>2
    <2>4. t.data = <<>>
        BY <1>1, <2>3
    <2>5. t.data \in Seq(Nat) /\ Len(t.data) <= length
        BY <1>1, <2>4
    <2> QED
        BY <1>1, <1>2, <2>3, <2>4, <2>5
<1>3. CASE start < Len(blob)
    <2> DEFINE end == IF start + length < Len(blob) THEN start + length ELSE Len(blob)
               d == SubSeq(blob, start + 1, end)
    <2>1. handle_inbound_range_request(start, length) = Have(d)
        BY <1>1, <1>3 DEF handle_inbound_range_request, PartOf
    <2>2. end \in Nat /\ end <= Len(blob) /\ start <= end
          /\ end - start = Rest(start, length) /\ end - start <= length
        BY <1>1, <1>3 DEF Rest
    <2> HIDE DEF end
    <2>3. d \in Seq(Nat) /\ Len(d) = end - start
          /\ \A i \in 1 .. end - start : d[i] = blob[start + i]
        BY <2>2, SubSeqFacts
    <2> HIDE DEF d
    <2>4. ASSUME NEW k \in 0 .. Len(d)
          PROVE  /\ SubSeq(d, 1, k) \in Seq(Nat) /\ Len(SubSeq(d, 1, k)) = k
                 /\ PartAt(SubSeq(d, 1, k), start) /\ k <= length
        <3>1. SubSeq(d, 1, k) \in Seq(Nat) /\ Len(SubSeq(d, 1, k)) = k
              /\ \A i \in 1 .. k : SubSeq(d, 1, k)[i] = d[i]
            BY <2>3
        <3>2. k \in Nat /\ k <= end - start /\ start + k <= Len(blob) /\ k <= length
            BY <2>2, <2>3
        <3>3. \A i \in 1 .. k : i \in 1 .. end - start
            BY <2>2, <3>2
        <3> QED
            BY <2>3, <3>1, <3>2, <3>3 DEF PartAt
    <2>5. t = SentRange(Have(d))
        BY <2>1
    <2>6. t = NoReply \/ \E k \in 0 .. Len(d) : t = Have(SubSeq(d, 1, k))
        BY <2>3, <2>5, RangeSent
    <2>7. ASSUME NEW k \in 0 .. Len(d), t = Have(SubSeq(d, 1, k))
          PROVE  /\ t.data = SubSeq(d, 1, k) /\ t = Have(t.data)
        BY <2>7 DEF Have
    <2>8. /\ t = NoReply \/ t = Have(t.data)
          /\ t.data \in Seq(Nat) /\ Len(t.data) <= length
          /\ t.data = <<>> \/ PartAt(t.data, start)
        <3>1. CASE t = NoReply
            <4>1. t.data = <<>>
                BY <1>1, <3>1
            <4>2. t.data \in Seq(Nat) /\ Len(t.data) <= length
                BY <1>1, <4>1
            <4> QED
                BY <3>1, <4>1, <4>2
        <3>2. ASSUME NEW k \in 0 .. Len(d), t = Have(SubSeq(d, 1, k))
              PROVE  /\ t = Have(t.data) /\ PartAt(t.data, start)
                     /\ t.data \in Seq(Nat) /\ Len(t.data) <= length
            <4>1. t.data = SubSeq(d, 1, k) /\ t = Have(t.data)
                BY <3>2, <2>7
            <4>2. /\ SubSeq(d, 1, k) \in Seq(Nat) /\ Len(SubSeq(d, 1, k)) <= length
                  /\ PartAt(SubSeq(d, 1, k), start)
                BY <2>4
            <4> QED
                BY <4>1, <4>2
        <3> QED
            BY <2>6, <3>1, <3>2
    <2>9. ASSUME length < MAX_MESSAGE_SIZE
          PROVE  /\ t = Have(t.data) /\ PartAt(t.data, start)
                 /\ Len(t.data) = Rest(start, length)
        <3>1. 1 + Len(d) <= MAX_MESSAGE_SIZE
            BY <2>2, <2>3, <2>9, WireAssumption
        <3>2. t = Have(d)
            BY <2>3, <2>5, <3>1, RangeArrives
        <3>3. t.data = d
            BY <3>2 DEF Have
        <3>4. PartAt(d, start)
            <4>1. start + Len(d) <= Len(blob)
                BY <1>1, <2>2, <2>3
            <4>2. 1 .. Len(d) = 1 .. end - start
                BY <2>3
            <4> QED
                BY <2>3, <4>1, <4>2 DEF PartAt
        <3> QED
            BY <2>2, <2>3, <3>2, <3>3, <3>4
    <2> QED
        BY <1>3, <2>8, <2>9
<1> QED
    BY <1>1, <1>2, <1>3

\* A part of the blob, of whatever length, is one from where it begins.
LEMMA PartFacts ==
    ASSUME blob \in Seq(Nat), NEW start \in Nat, NEW n \in Nat
    PROVE  PartOf(start, n) \in Seq(Nat) /\ ChunkAt(PartOf(start, n), start)
<1> DEFINE end == IF start + n < Len(blob) THEN start + n ELSE Len(blob)
           d == SubSeq(blob, start + 1, end)
<1>1. PartOf(start, n) = d
    BY DEF PartOf
<1>2. Len(blob) \in Nat /\ end \in Nat /\ end <= Len(blob)
    OBVIOUS
<1> HIDE DEF end
<1>3. CASE start <= end
    <2>1. d \in Seq(Nat) /\ Len(d) = end - start
          /\ \A i \in 1 .. end - start : d[i] = blob[start + i]
        BY <1>2, <1>3, SubSeqFacts
    <2> HIDE DEF d
    <2>2. PartAt(d, start)
        BY <1>2, <1>3, <2>1 DEF PartAt
    <2> QED
        BY <1>1, <2>1, <2>2 DEF ChunkAt
<1>4. CASE ~(start <= end)
    <2>1. d = <<>>
        BY <1>2, <1>4
    <2> HIDE DEF d
    <2>2. <<>> \in Seq(Nat)
        OBVIOUS
    <2> QED
        BY <1>1, <2>1, <2>2 DEF ChunkAt
<1> QED
    BY <1>3, <1>4

\* A reply is a holder's, or has no data, or data that is marked, or is a part
\* of the blob from where it was asked for, which may be too short or too long.
LEMMA ReplyFacts ==
    ASSUME blob \in Seq(Nat), NEW truth, NEW start, NEW lengths \in SUBSET Nat,
           NEW reply \in AllReplies(truth, start, lengths),
           NEW p \in DOMAIN truth, truth[p].data \in Seq(Nat), start[p] \in Nat
    PROVE  /\ reply[p].data \in Seq(Nat)
           /\ reply[p] = truth[p] \/ ChunkAt(reply[p].data, start[p])
<1>1. reply[p] \in Replies(p, truth[p], start[p], lengths)
    BY DEF AllReplies
<1>2. NoReply.data = <<>> /\ <<>> \in Seq(Nat)
    BY DEF NoReply
<1>3. ASSUME NEW n \in Nat
      PROVE  /\ Have(Zeros(n)).data \in Seq(Nat)
             /\ Have(Zeros(n)).data = <<>> \/ Marked(Have(Zeros(n)).data)
    <2>1. Have(Zeros(n)).data = Zeros(n)
        BY DEF Have
    <2>2. Zeros(n) \in Seq(Nat) /\ DOMAIN Zeros(n) = 1 .. n /\ Len(Zeros(n)) = n
        BY DEF Zeros, Corrupt
    <2>3. CASE n = 0
        <3>1. Zeros(n) = <<>>
            BY <2>2, <2>3
        <3> QED
            BY <2>1, <2>2, <3>1
    <2>4. CASE n # 0
        <3>1. 1 \in 1 .. n
            BY <2>4
        <3>2. Zeros(n)[1] = Corrupt
            BY <3>1 DEF Zeros
        <3>3. Marked(Zeros(n))
            BY <2>2, <3>1, <3>2 DEF Marked, ToSet
        <3> QED
            BY <2>1, <2>2, <3>3
    <2> QED
        BY <2>3, <2>4
<1>4. ASSUME NEW n \in Nat
      PROVE  /\ Have(PartOf(start[p], n)).data \in Seq(Nat)
             /\ ChunkAt(Have(PartOf(start[p], n)).data, start[p])
    BY PartFacts DEF Have
<1>5. \/ reply[p] = NoReply \/ reply[p] = truth[p]
      \/ \E n \in Nat : \/ reply[p] = Have(Zeros(n))
                        \/ reply[p] = Have(PartOf(start[p], n))
    BY <1>1 DEF Replies
<1>6. CASE reply[p] = NoReply
    BY <1>2, <1>6 DEF ChunkAt
<1>7. ASSUME NEW n \in Nat, reply[p] = Have(Zeros(n))
      PROVE  reply[p].data \in Seq(Nat) /\ ChunkAt(reply[p].data, start[p])
    BY <1>3, <1>7 DEF ChunkAt
<1>8. ASSUME NEW n \in Nat, reply[p] = Have(PartOf(start[p], n))
      PROVE  reply[p].data \in Seq(Nat) /\ ChunkAt(reply[p].data, start[p])
    BY <1>4, <1>8
<1> QED
    BY <1>5, <1>6, <1>7, <1>8

\* The lengths of what a faulty peer sends.
LEMMA LengthsTyped ==
    ASSUME NEW asked \in Nat, NEW header
    PROVE  Lengths(asked, header) \in SUBSET Nat
    BY DEF Lengths

-----------------------------------------------------------------------------
(* A window of the parallel fetch.                                         *)

Sound(d) == d \in Seq(Nat) /\ (Marked(d) \/ Begins(d))

Accs == [data : Seq(Nat), expected : Nat, has_gap : BOOLEAN, eof : BOOLEAN]
SoundAcc(acc) == acc \in Accs /\ acc.expected = Len(acc.data) /\ Sound(acc.data)

\* A chunk from where the data ends is put at its end, no other is.
LEMMA TakeFacts ==
    ASSUME blob \in Seq(Nat), NEW acc, SoundAcc(acc), NEW c,
           c.offset \in Nat, c.data \in Seq(Nat), ChunkAt(c.data, c.offset)
    PROVE  SoundAcc(Take(acc, c))
<1>1. /\ acc \in Accs /\ acc.data \in Seq(Nat) /\ acc.expected = Len(acc.data)
      /\ Marked(acc.data) \/ Begins(acc.data)
      /\ acc.has_gap \in BOOLEAN /\ acc.eof \in BOOLEAN
    BY DEF SoundAcc, Sound, Accs
<1>2. CASE c.data = <<>> \/ acc.has_gap
    BY <1>2 DEF Take
<1>3. CASE ~(c.data = <<>> \/ acc.has_gap) /\ c.offset # acc.expected
    <2>1. Take(acc, c) = [acc EXCEPT !.has_gap = TRUE]
        BY <1>3 DEF Take
    <2> DEFINE x == [acc EXCEPT !.has_gap = TRUE]
    <2>2. x \in Accs /\ x.data = acc.data /\ x.expected = acc.expected
        BY <1>1 DEF Accs
    <2> HIDE DEF x
    <2>3. SoundAcc(x)
        BY <1>1, <2>2 DEF SoundAcc, Sound
    <2> QED
        BY <2>1, <2>3 DEF x
<1>4. CASE ~(c.data = <<>> \/ acc.has_gap) /\ c.offset = acc.expected
    <2> DEFINE e == acc.eof \/ Len(c.data) < CHUNK_SIZE
               d == acc.data \o c.data
               x == [data |-> d, expected |-> c.offset + Len(c.data),
                     has_gap |-> FALSE, eof |-> e]
    <2>1. Take(acc, c) = x
        BY <1>4 DEF Take
    <2>2. e \in BOOLEAN
        OBVIOUS
    <2>3. d \in Seq(Nat) /\ Len(d) = Len(acc.data) + Len(c.data)
          /\ c.offset + Len(c.data) \in Nat
        BY <1>1, ConcatFacts
    <2>4. Marked(d) \/ Begins(d)
        BY <1>1, <1>4, BeginsConcat DEF ChunkAt
    <2> HIDE DEF e, d
    <2>5. x \in Accs /\ x.data = d /\ x.expected = Len(d)
        BY <1>1, <1>4, <2>2, <2>3 DEF Accs
    <2> HIDE DEF x
    <2>6. SoundAcc(x)
        BY <2>3, <2>4, <2>5 DEF SoundAcc, Sound
    <2> QED
        BY <2>1, <2>6
<1> QED
    BY <1>2, <1>3, <1>4

\* What a window puts together is marked or a beginning of the blob.
LEMMA AssembleFacts ==
    ASSUME blob \in Seq(Nat), Sound(data), NEW n \in Nat, NEW chunks,
           DOMAIN chunks = 1 .. n,
           \A i \in 1 .. n : /\ chunks[i].offset \in Nat /\ chunks[i].data \in Seq(Nat)
                             /\ ChunkAt(chunks[i].data, chunks[i].offset)
    PROVE  SoundAcc(Assemble(chunks))
<1> DEFINE base == [data |-> data, expected |-> Len(data),
                    has_gap |-> FALSE, eof |-> FALSE]
<1>1. SoundAcc(base)
    <2>1. data \in Seq(Nat) /\ Len(data) \in Nat
        BY DEF Sound
    <2>2. base \in Accs /\ base.data = data /\ base.expected = Len(data)
        BY <2>1 DEF Accs
    <2> QED
        BY <2>2 DEF SoundAcc
<1>2. Assemble(chunks) = FoldLeft(Take, base, chunks)
    BY Zenon DEF Assemble
<1> HIDE DEF base
<1>3. PICK f : Taken(chunks, base, n, f)
    BY TakeSteps
<1> DEFINE T == {k \in Nat : k <= n => SoundAcc(f[k])}
<1>4. 0 \in T
    <2>1. f[0] = base
        BY <1>3 DEF Taken
    <2> QED
        BY <1>1, <2>1
<1>5. ASSUME NEW k \in T PROVE k + 1 \in T
    <2>1. k \in Nat /\ k + 1 \in Nat
        OBVIOUS
    <2>2. SUFFICES ASSUME k + 1 <= n PROVE SoundAcc(f[k + 1])
        BY <2>1
    <2>3. k <= n /\ k + 1 \in 1 .. n /\ (k + 1) - 1 = k
        BY <2>1, <2>2
    <2>4. SoundAcc(f[k])
        BY <2>3
    <2>5. f[k + 1] = Take(f[k], chunks[k + 1])
        BY <1>3, <2>3 DEF Taken
    <2>6. /\ chunks[k + 1].offset \in Nat /\ chunks[k + 1].data \in Seq(Nat)
          /\ ChunkAt(chunks[k + 1].data, chunks[k + 1].offset)
        BY <2>3
    <2>7. SoundAcc(Take(f[k], chunks[k + 1]))
        BY <2>4, <2>6, TakeFacts
    <2> QED
        BY <2>5, <2>7
<1>6. n \in T
    <2> HIDE DEF T
    <2>1. T \in SUBSET Nat
        BY DEF T
    <2> QED
        BY <1>4, <1>5, <2>1, SetInduction
<1>7. SoundAcc(f[n]) /\ FoldLeft(Take, base, chunks) = f[n]
    BY <1>3, <1>6 DEF Taken
<1> QED
    BY <1>2, <1>7

-----------------------------------------------------------------------------
(* What has been put together.  The inductive invariant says of an attempt  *)
(* that there is a peer to ask, that in a window each peer has one chunk to *)
(* send, that the serial fetch has at least what it has asked for, and that  *)
(* the data is sound as long as the serial fetch has exactly that.  A range  *)
(* that runs over is never made up for: each later one is full at least.     *)

Asks == {"window", "range", "ranges", "whole", "poll", "fetch"}
AsksSomeone  == pc \in Asks => todo # <<>>
OneChunkEach == pc = "window" => Once(todo)
RangeInStep  == pc = "ranges" => Len(data) >= offset
SoundInStep  == (pc = "ranges" => Len(data) = offset) => Sound(data)
AInv == TypeOK /\ AsksSomeone /\ OneChunkEach /\ RangeInStep /\ SoundInStep

\* What a step does beside the attempt.
Beside ==
    /\ blob' = blob /\ wallet' = wallet
    /\ addr_cache' \in [Peer -> {"unknown", "none", "known"}]
    /\ payment_err' \in BOOLEAN /\ clean' \in BOOLEAN /\ unlocated' \in BOOLEAN

\* The blob is a sequence of units, none of which is Corrupt.
LEMMA BlobFacts ==
    ASSUME TypeOK
    PROVE  blob \in Seq(Nat) /\ ~Marked(blob)
<1>1. PICK n \in BlobLengths : blob = Bytes(n)
    BY DEF TypeOK
<1>2. n \in Nat
    BY ResolverAssumption
<1>3. blob \in Seq(Nat) /\ DOMAIN blob = 1 .. n
    BY <1>1, <1>2 DEF Bytes
<1>4. \A i \in 1 .. n : blob[i] # Corrupt
    BY <1>1, <1>2 DEF Bytes, Corrupt
<1> QED
    BY <1>3, <1>4 DEF Marked, ToSet

\* Nothing is a beginning.
LEMMA NothingBegins ==
    ASSUME TypeOK
    PROVE  <<>> \in Seq(Nat) /\ <<>> \in Seq(Peer) /\ Begins(<<>>) /\ Sound(<<>>)
<1>1. Len(blob) \in Nat /\ Len(<<>>) = 0 /\ 1 .. 0 = {}
    BY BlobFacts
<1> QED
    BY <1>1 DEF Begins, Sound

\* A payment is put down with its error.
LEMMA PaymentTyped ==
    ASSUME TypeOK, NEW peers, NEW found,
           FirstPayment(peers, found) \/ NextPayment(peers, found)
    PROVE  /\ addr_cache' \in [Peer -> {"unknown", "none", "known"}]
           /\ payment_err' \in BOOLEAN /\ unlocated' \in BOOLEAN
<1>1. addr_cache \in [Peer -> {"unknown", "none", "known"}]
      /\ payment_err \in BOOLEAN /\ unlocated \in BOOLEAN
    BY DEF TypeOK
<1>2. PaymentError(peers, found) \in BOOLEAN
    BY DEF PaymentError
<1>3. addr_cache' \in [Peer -> {"unknown", "none", "known"}]
    BY <1>1 DEF FirstPayment, NextPayment, resolve_payment
<1>4. payment_err' \in BOOLEAN
    BY <1>1, <1>2 DEF FirstPayment, NextPayment
<1>5. unlocated' \in BOOLEAN
    BY <1>1, <1>2 DEF FirstPayment, NextPayment
<1> QED
    BY <1>3, <1>4, <1>5

\* The parts of TypeOK that no attempt changes, and the bound of the tries.
LEMMA TypeKept ==
    ASSUME TypeOK, Beside, pc' \in Stage, todo' \in Seq(Peer), data' \in Seq(Nat),
           offset' \in Nat, tries' = 0, score' \in [Peer -> Int],
           stored' = NoData \/ (Len(stored') = 1 /\ stored'[1] \in Seq(Nat)),
           result' \in [source : {"pending", "error", "L0", "L1", "L3"},
                        data : Seq(Nat), payment_error : BOOLEAN]
    PROVE  TypeOK'
<1>1. 0 \in 0 .. MAX_RETRIES /\ 0 \in 0 .. MAX_POLL - 1
    BY ResolverAssumption
<1>2. (tries \in 0 .. (IF pc = "find" THEN MAX_RETRIES ELSE MAX_POLL - 1))'
    BY <1>1
<1>3. /\ (blob \in {Bytes(n) : n \in BlobLengths})'
      /\ (wallet \in BOOLEAN)'
      /\ (addr_cache \in [Peer -> {"unknown", "none", "known"}])'
      /\ (payment_err \in BOOLEAN)'
      /\ (clean \in BOOLEAN /\ unlocated \in BOOLEAN)'
    BY DEF TypeOK, Beside
<1> QED
    BY <1>2, <1>3 DEF TypeOK, NoData

\* An attempt that gives up leaves nothing behind.
LEMMA GiveUpKeeps ==
    ASSUME TypeOK, Beside, NEW next \in Stage \ Asks, GiveUp(next)
    PROVE  AInv'
<1>1. /\ pc' = next /\ todo' = <<>> /\ data' = <<>> /\ offset' = 0 /\ tries' = 0
      /\ score' = score /\ stored' = stored /\ result' = result
    BY DEF GiveUp
<1>2. /\ <<>> \in Seq(Nat) /\ <<>> \in Seq(Peer) /\ Begins(<<>>)
    BY NothingBegins
<1>3. TypeOK'
    <2>1. /\ score \in [Peer -> Int]
          /\ stored = NoData \/ (Len(stored) = 1 /\ stored[1] \in Seq(Nat))
          /\ result \in [source : {"pending", "error", "L0", "L1", "L3"},
                         data : Seq(Nat), payment_error : BOOLEAN]
        BY DEF TypeOK
    <2>2. todo' \in Seq(Peer) /\ data' \in Seq(Nat) /\ offset' \in Nat /\ pc' \in Stage
        BY <1>1, <1>2
    <2> QED
        BY <1>1, <2>1, <2>2, TypeKept
<1>4. Sound(data)'
    BY <1>1, <1>2 DEF Sound, Begins, Beside
<1>5. (AsksSomeone /\ OneChunkEach /\ RangeInStep /\ SoundInStep)'
    BY <1>1, <1>4 DEF AsksSomeone, OneChunkEach, RangeInStep, SoundInStep, Asks
<1> QED
    BY <1>3, <1>4, <1>5 DEF AInv

\* An attempt that goes on has a peer to ask, and data that is sound in step.
LEMMA GoOnInStep ==
    ASSUME TypeOK, Beside, NEW stage \in Asks, NEW peers \in Seq(Peer), peers # <<>>,
           NEW d \in Seq(Nat), NEW off \in Nat, GoOn(stage, peers, d, off),
           stage = "window" => Once(peers),
           stage = "ranges" => Len(d) >= off,
           (stage = "ranges" => Len(d) = off) => Sound(d)
    PROVE  AInv'
<1>1. /\ pc' = stage /\ todo' = peers /\ data' = d /\ offset' = off /\ tries' = 0
      /\ score' = score /\ stored' = stored /\ result' = result
    BY DEF GoOn
<1>2. TypeOK'
    <2>1. /\ score \in [Peer -> Int]
          /\ stored = NoData \/ (Len(stored) = 1 /\ stored[1] \in Seq(Nat))
          /\ result \in [source : {"pending", "error", "L0", "L1", "L3"},
                         data : Seq(Nat), payment_error : BOOLEAN]
        BY DEF TypeOK
    <2>2. todo' \in Seq(Peer) /\ data' \in Seq(Nat) /\ offset' \in Nat /\ pc' \in Stage
        BY <1>1 DEF Asks, Stage
    <2> QED
        BY <1>1, <2>1, <2>2, TypeKept
<1>3. Sound(d) => Sound(data)'
    BY <1>1 DEF Sound, Begins, Marked, Beside
<1>4. SoundInStep'
    BY <1>1, <1>3 DEF SoundInStep
<1>5. (AsksSomeone /\ OneChunkEach /\ RangeInStep)'
    BY <1>1 DEF AsksSomeone, OneChunkEach, RangeInStep, Once
<1> QED
    BY <1>2, <1>4, <1>5 DEF AInv

\* Other than between the ranges of the serial fetch the data is sound.
LEMMA GoOnKeeps ==
    ASSUME TypeOK, Beside, NEW stage \in Asks, stage # "ranges",
           NEW peers \in Seq(Peer), peers # <<>>,
           NEW d, Sound(d), NEW off \in Nat, GoOn(stage, peers, d, off),
           stage = "window" => Once(peers)
    PROVE  AInv'
<1>1. d \in Seq(Nat)
    BY DEF Sound
<1> QED
    BY <1>1, GoOnInStep

\* An attempt that ends with data returns it or leaves nothing behind.
LEMMA FinalizeKeeps ==
    ASSUME TypeOK, Beside, NEW next \in Stage \ Asks, NEW peer, NEW d \in Seq(Nat),
           finalize_l1_fetch(peer, d, next)
    PROVE  AInv'
<1>1. /\ todo' = <<>> /\ data' = <<>> /\ offset' = 0 /\ tries' = 0
      /\ pc' \in {next, "done"}
    BY DEF finalize_l1_fetch
<1>2. /\ <<>> \in Seq(Nat) /\ <<>> \in Seq(Peer) /\ Begins(<<>>)
    BY NothingBegins
<1>3. /\ score \in [Peer -> Int]
      /\ stored = NoData \/ (Len(stored) = 1 /\ stored[1] \in Seq(Nat))
      /\ result \in [source : {"pending", "error", "L0", "L1", "L3"},
                     data : Seq(Nat), payment_error : BOOLEAN]
    BY DEF TypeOK
<1>4. score' \in [Peer -> Int]
    BY <1>3 DEF finalize_l1_fetch, record_success, record_corruption
<1>5. stored' = NoData \/ (Len(stored') = 1 /\ stored'[1] \in Seq(Nat))
    <2>1. stored' = stored \/ stored' \in {NoData, <<d>>}
        BY DEF finalize_l1_fetch
    <2>2. Len(<<d>>) = 1 /\ <<d>>[1] = d
        OBVIOUS
    <2> QED
        BY <1>3, <2>1, <2>2
<1>6. result' \in [source : {"pending", "error", "L0", "L1", "L3"},
                   data : Seq(Nat), payment_error : BOOLEAN]
    <2>1. result' = result
          \/ result' = [source |-> "L1", data |-> d, payment_error |-> payment_err']
        BY DEF finalize_l1_fetch
    <2>2. payment_err' \in BOOLEAN
        BY DEF Beside
    <2> QED
        BY <1>3, <2>1, <2>2
<1>7. TypeOK'
    <2>1. todo' \in Seq(Peer) /\ data' \in Seq(Nat) /\ offset' \in Nat /\ pc' \in Stage
        BY <1>1, <1>2 DEF Stage
    <2> QED
        BY <1>1, <1>4, <1>5, <1>6, <2>1, TypeKept
<1>8. Sound(data)'
    BY <1>1, <1>2 DEF Sound, Begins, Beside
<1>9. (AsksSomeone /\ OneChunkEach /\ RangeInStep /\ SoundInStep)'
    BY <1>1, <1>8 DEF AsksSomeone, OneChunkEach, RangeInStep, SoundInStep, Asks
<1> QED
    BY <1>7, <1>8, <1>9 DEF AInv

\* The replies to the probes, and what follows from them.
ProbeFirst(l) ==
    SubSeq(l, 1, IF Len(l) < MAX_PARALLEL THEN Len(l) ELSE MAX_PARALLEL)
ProbeTruth(l) ==
    [p \in ToSet(ProbeFirst(l)) |->
        SentRange(handle_inbound_range_request(0, PROBE_LENGTH))]
ProbeAnswers(l) ==
    AllReplies(ProbeTruth(l), [p \in ToSet(ProbeFirst(l)) |-> 0],
               Lengths(PROBE_LENGTH, 1))
ProbeWorking(l, reply) ==
    Those(ProbeFirst(l), {p \in DOMAIN ProbeTruth(l) : reply[p].data # <<>>})
Probes(l, found, reply) ==
    /\ FirstPayment(DOMAIN ProbeTruth(l), found)
    /\ clean' = \A p \in DOMAIN ProbeTruth(l) :
                   reply[p].ok => reply[p] = ProbeTruth(l)[p]
    /\ IF ProbeWorking(l, reply) = <<>>
       THEN GiveUp("range_peers")
       ELSE GoOn("window", ProbeWorking(l, reply), <<>>, 0)

\* A probe in these terms.
LEMMA ProbeReplies ==
    ASSUME Probe
    PROVE  \E l \in ListOf(Peer) : \E found :
               \E reply \in ProbeAnswers(l) :
                   Probes(l, found, reply)
    BY Zenon DEF Probe, Probes, ProbeFirst, ProbeTruth, ProbeAnswers, ProbeWorking

\* Probing: those that answered are peers, each once.
LEMMA WorkingFacts ==
    ASSUME NEW l \in ListOf(Peer), NEW reply
    PROVE  /\ ProbeWorking(l, reply) \in Seq(Peer) /\ Once(ProbeWorking(l, reply))
           /\ ToSet(ProbeWorking(l, reply)) \subseteq
                  {p \in DOMAIN ProbeTruth(l) : reply[p].data # <<>>}
<1>1. l \in Seq(Peer) /\ Once(l)
    BY ListFacts, ResolverAssumption
<1>2. ProbeFirst(l) \in Seq(Peer) /\ Once(ProbeFirst(l))
    <2> DEFINE k == IF Len(l) < MAX_PARALLEL THEN Len(l) ELSE MAX_PARALLEL
    <2>1. k \in Nat /\ k <= Len(l) /\ Len(l) \in Nat
        BY <1>1, ResolverAssumption
    <2> HIDE DEF k
    <2>2. /\ SubSeq(l, 1, k) \in Seq(Peer) /\ DOMAIN SubSeq(l, 1, k) = 1 .. k
          /\ DOMAIN l = 1 .. Len(l) /\ \A i \in 1 .. k : SubSeq(l, 1, k)[i] = l[i]
        BY <1>1, <2>1
    <2>3. 1 .. k \subseteq 1 .. Len(l)
        BY <2>1
    <2>4. Once(SubSeq(l, 1, k))
        BY <1>1, <2>2, <2>3 DEF Once
    <2> QED
        BY <2>2, <2>4 DEF k, ProbeFirst
<1> DEFINE S == {p \in DOMAIN ProbeTruth(l) : reply[p].data # <<>>}
<1> HIDE DEF S
<1>3. /\ Those(ProbeFirst(l), S) \in Seq(Peer \cap S) /\ Once(Those(ProbeFirst(l), S))
      /\ ToSet(Those(ProbeFirst(l), S)) \subseteq S
    BY <1>2, ThoseFacts
<1>4. \A s \in Seq(Peer \cap S) : s \in Seq(Peer)
    OBVIOUS
<1> QED
    BY <1>3, <1>4 DEF S, ProbeWorking

LEMMA ProbeKeeps ==
    ASSUME AInv, Probe
    PROVE  AInv'
<1>1. TypeOK
    BY DEF AInv
<1>2. PICK l \in ListOf(Peer) : \E found :
          \E reply \in ProbeAnswers(l) : Probes(l, found, reply)
    BY ProbeReplies
<1>3. PICK found, reply : Probes(l, found, reply)
    BY <1>2
<1>4. ProbeWorking(l, reply) \in Seq(Peer) /\ Once(ProbeWorking(l, reply))
    BY WorkingFacts
<1>5. Beside
    <2>1. blob' = blob /\ wallet' = wallet
        BY DEF Probe, request
    <2>2. clean' \in BOOLEAN
        BY <1>3 DEF Probes
    <2>3. FirstPayment(DOMAIN ProbeTruth(l), found)
        BY <1>3 DEF Probes
    <2> QED
        BY <1>1, <2>1, <2>2, <2>3, PaymentTyped DEF Beside
<1>6. CASE ProbeWorking(l, reply) = <<>>
    <2>1. GiveUp("range_peers")
        BY <1>3, <1>6 DEF Probes
    <2> QED
        BY <1>1, <1>5, <2>1, GiveUpKeeps DEF Stage, Asks
<1>7. CASE ProbeWorking(l, reply) # <<>>
    <2>1. GoOn("window", ProbeWorking(l, reply), <<>>, 0)
        BY <1>3, <1>7 DEF Probes
    <2>2. "window" \in Asks /\ 0 \in Nat /\ Sound(<<>>)
        BY <1>1, NothingBegins DEF Asks
    <2> QED
        BY <1>1, <1>4, <1>5, <1>7, <2>1, <2>2, GoOnKeeps
<1> QED
    BY <1>6, <1>7

\* The replies of a window, and what follows from them.
WindowAt(i) == offset + (i - 1) * CHUNK_SIZE
WindowStart ==
    [p \in ToSet(todo) |-> WindowAt(CHOOSE i \in 1 .. Len(todo) : todo[i] = p)]
WindowTruth ==
    [p \in ToSet(todo) |->
        SentRange(handle_inbound_range_request(WindowStart[p], CHUNK_SIZE))]
WindowAnswers == AllReplies(WindowTruth, WindowStart, Lengths(CHUNK_SIZE, 1))
WindowChunks(reply) ==
    [i \in 1 .. Len(todo) |-> [offset |-> WindowAt(i), data |-> reply[todo[i]].data]]
WindowNone(reply) == \A i \in 1 .. Len(todo) : WindowChunks(reply)[i].data = <<>>
Windows(found, reply) ==
    /\ NextPayment(DOMAIN WindowTruth, found)
    /\ clean' = (clean /\ reply = WindowTruth)
    /\ EndOfWindow(WindowNone(reply) \/ Assemble(WindowChunks(reply)).has_gap,
                   Assemble(WindowChunks(reply)), offset + Len(todo) * CHUNK_SIZE)

LEMMA WindowReplies ==
    ASSUME AInv, Window
    PROVE  \E found : \E reply \in WindowAnswers :
               Windows(found, reply)
    BY DEF Window, Windows, WindowTruth, WindowStart, WindowAnswers, WindowChunks,
           WindowNone, WindowAt

\* A peer is asked for the chunk at its own place in the list.
LEMMA WindowTruthFacts ==
    ASSUME AInv, pc = "window", NEW i \in 1 .. Len(todo)
    PROVE  /\ WindowAt(i) \in Nat /\ todo[i] \in DOMAIN WindowTruth
           /\ WindowStart[todo[i]] = WindowAt(i)
           /\ WindowTruth[todo[i]] =
                  SentRange(handle_inbound_range_request(WindowAt(i), CHUNK_SIZE))
<1>1. TypeOK /\ Once(todo)
    BY DEF AInv, OneChunkEach
<1>2. /\ todo \in Seq(Peer) /\ offset \in Nat /\ DOMAIN todo = 1 .. Len(todo)
      /\ CHUNK_SIZE \in Nat
    BY <1>1, ResolverAssumption DEF TypeOK
<1>3. WindowAt(i) \in Nat
    <2>1. i - 1 \in Nat
        BY <1>2
    <2>2. (i - 1) * CHUNK_SIZE \in Nat
        BY <1>2, <2>1
    <2> QED
        BY <1>2, <2>2 DEF WindowAt
<1>4. (CHOOSE j \in 1 .. Len(todo) : todo[j] = todo[i]) = i
    BY <1>1, <1>2 DEF Once
<1>5. todo[i] \in ToSet(todo)
    BY <1>2 DEF ToSet
<1>6. WindowStart[todo[i]] = WindowAt(i)
    BY <1>4, <1>5 DEF WindowStart
<1> QED
    BY <1>3, <1>5, <1>6 DEF WindowTruth

LEMMA WindowSound ==
    ASSUME AInv, pc = "window", NEW reply \in WindowAnswers
    PROVE  SoundAcc(Assemble(WindowChunks(reply)))
<1>1. TypeOK /\ Sound(data)
    BY DEF AInv, SoundInStep
<1>2. blob \in Seq(Nat)
    BY <1>1, BlobFacts
<1>3. Len(todo) \in Nat
    BY <1>1 DEF TypeOK
<1> DEFINE ch == WindowChunks(reply)
<1>4. ASSUME NEW i \in 1 .. Len(todo)
      PROVE  /\ ch[i].offset \in Nat /\ ch[i].data \in Seq(Nat)
             /\ ChunkAt(ch[i].data, ch[i].offset)
    <2> DEFINE p == todo[i]
               a == WindowAt(i)
    <2>1. ch[i].offset = a /\ ch[i].data = reply[p].data
        BY DEF WindowChunks
    <2>2. /\ a \in Nat /\ p \in DOMAIN WindowTruth
          /\ WindowStart[p] = a
          /\ WindowTruth[p] = SentRange(handle_inbound_range_request(a, CHUNK_SIZE))
        BY WindowTruthFacts
    <2> HIDE DEF p, a, ch
    <2>3. CHUNK_SIZE \in Nat
        BY ResolverAssumption
    <2>4. /\ WindowTruth[p].data \in Seq(Nat)
          /\ WindowTruth[p].data = <<>> \/ PartAt(WindowTruth[p].data, a)
        BY <1>2, <2>2, <2>3, RangeTruth
    <2>5. /\ reply[p].data \in Seq(Nat)
          /\ reply[p] = WindowTruth[p] \/ ChunkAt(reply[p].data, a)
        BY <1>2, <2>2, <2>3, <2>4, ReplyFacts, LengthsTyped DEF WindowAnswers
    <2>6. ChunkAt(reply[p].data, a)
        BY <2>4, <2>5 DEF ChunkAt
    <2> QED
        BY <2>1, <2>2, <2>5, <2>6
<1>5. DOMAIN ch = 1 .. Len(todo)
    BY DEF WindowChunks
<1> HIDE DEF ch
<1>6. SoundAcc(Assemble(ch))
    BY <1>1, <1>2, <1>3, <1>4, <1>5, AssembleFacts
<1> QED
    BY <1>6 DEF ch

LEMMA WindowKeeps ==
    ASSUME AInv, Window
    PROVE  AInv'
<1>1. TypeOK /\ pc = "window" /\ Once(todo) /\ todo # <<>>
    BY DEF AInv, Window, OneChunkEach, AsksSomeone, Asks
<1>2. PICK found : \E reply \in WindowAnswers : Windows(found, reply)
    BY WindowReplies
<1>3. PICK reply \in WindowAnswers : Windows(found, reply)
    BY <1>2
<1> DEFINE acc == Assemble(WindowChunks(reply))
           last == WindowNone(reply) \/ acc.has_gap
           next == offset + Len(todo) * CHUNK_SIZE
<1>4. SoundAcc(acc)
    BY <1>1, WindowSound
<1>5. acc.data \in Seq(Nat) /\ Sound(acc.data)
    BY <1>4 DEF SoundAcc, Sound
<1>6. EndOfWindow(last, acc, next)
    BY <1>3 DEF Windows
<1>7. next \in Nat
    <2>1. offset \in Nat /\ Len(todo) \in Nat /\ CHUNK_SIZE \in Nat
        BY <1>1, ResolverAssumption DEF TypeOK
    <2>2. Len(todo) * CHUNK_SIZE \in Nat
        BY <2>1
    <2> QED
        BY <2>1, <2>2
<1>8. Beside
    <2>1. blob' = blob /\ wallet' = wallet
        BY DEF Window, request
    <2>2. clean' \in BOOLEAN
        <3>1. clean' = (clean /\ reply = WindowTruth)
            BY <1>3 DEF Windows
        <3> QED
            BY <3>1
    <2>3. NextPayment(DOMAIN WindowTruth, found)
        BY <1>3 DEF Windows
    <2> QED
        BY <1>1, <2>1, <2>2, <2>3, PaymentTyped DEF Beside
<1> HIDE DEF acc, last, next
<1>9. CASE GiveUp("range_peers")
    BY <1>1, <1>8, <1>9, GiveUpKeeps DEF Stage, Asks
<1>10. CASE finalize_l1_fetch(Head(todo), acc.data, "range_peers")
    BY <1>1, <1>5, <1>8, <1>10, FinalizeKeeps DEF Stage, Asks
<1>11. CASE GoOn("window", todo, acc.data, next)
    <2>1. todo \in Seq(Peer) /\ "window" \in Asks
        BY <1>1 DEF TypeOK, Asks
    <2> QED
        BY <1>1, <1>5, <1>7, <1>8, <1>11, <2>1, GoOnKeeps
<1> QED
    BY <1>6, <1>9, <1>10, <1>11 DEF EndOfWindow

\* The reply to a range of the serial fetch, and what follows from it.
RangeAt(peer, start) ==
    [p \in {peer} |-> SentRange(handle_inbound_range_request(start, RANGE_CHUNK))]
RangeAnswers(peer, start) ==
    AllReplies(RangeAt(peer, start), [p \in {peer} |-> start], Lengths(RANGE_CHUNK, 1))
FirstRanges(peer, found, reply) ==
    /\ FirstPayment({peer}, found)
    /\ clean' = (reply = RangeAt(peer, 0))
    /\ IF ~reply[peer].ok THEN Skip("whole_peers")
       ELSE IF Len(reply[peer].data) < RANGE_CHUNK
       THEN finalize_l1_fetch(peer, reply[peer].data, "whole_peers")
       ELSE GoOn("ranges", <<peer>>, reply[peer].data, RANGE_CHUNK)
NextRanges(peer, found, reply) ==
    /\ NextPayment({peer}, found)
    /\ clean' = (clean /\ reply = RangeAt(peer, offset))
    /\ IF Len(reply[peer].data) < RANGE_CHUNK
       THEN finalize_l1_fetch(peer, data \o reply[peer].data, "whole_peers")
       ELSE GoOn("ranges", todo, data \o reply[peer].data, offset + RANGE_CHUNK)

\* The two steps in these terms.
LEMMA RangeReplies ==
    /\ FirstRange => \E found : \E reply \in RangeAnswers(Head(todo), 0) :
                        FirstRanges(Head(todo), found, reply)
    /\ NextRange => \E found : \E reply \in RangeAnswers(Head(todo), offset) :
                        NextRanges(Head(todo), found, reply)
<1>1. ASSUME FirstRange
      PROVE  \E found : \E reply \in RangeAnswers(Head(todo), 0) :
                 FirstRanges(Head(todo), found, reply)
    BY <1>1, Zenon DEF FirstRange, FirstRanges, RangeAt, RangeAnswers
<1>2. ASSUME NextRange
      PROVE  \E found : \E reply \in RangeAnswers(Head(todo), offset) :
                 NextRanges(Head(todo), found, reply)
    BY <1>2, Zenon DEF NextRange, NextRanges, RangeAt, RangeAnswers
<1> QED
    BY <1>1, <1>2

\* What comes back for a range at `start`.
LEMMA RangeReplyFacts ==
    ASSUME TypeOK, NEW peer, NEW start \in Nat, NEW reply \in RangeAnswers(peer, start)
    PROVE  reply[peer].data \in Seq(Nat) /\ ChunkAt(reply[peer].data, start)
<1> DEFINE r == RangeAt(peer, start)
           at == [p \in {peer} |-> start]
<1>1. RANGE_CHUNK \in Nat /\ blob \in Seq(Nat)
    BY BlobFacts, ResolverAssumption
<1>2. peer \in DOMAIN r /\ at[peer] = start
      /\ r[peer] = SentRange(handle_inbound_range_request(start, RANGE_CHUNK))
    BY DEF RangeAt
<1>3. reply \in AllReplies(r, at, Lengths(RANGE_CHUNK, 1))
    BY DEF RangeAnswers
<1> HIDE DEF r, at
<1>4. /\ r[peer].data \in Seq(Nat)
      /\ r[peer].data = <<>> \/ PartAt(r[peer].data, start)
    BY <1>1, <1>2, RangeTruth
<1>5. /\ reply[peer].data \in Seq(Nat)
      /\ reply[peer] = r[peer] \/ ChunkAt(reply[peer].data, start)
    BY <1>1, <1>2, <1>3, <1>4, ReplyFacts, LengthsTyped
<1> QED
    BY <1>4, <1>5 DEF ChunkAt

\* The next peer of a list that is not empty.
LEMMA SkipKeeps ==
    ASSUME TypeOK, Beside, pc \in {"range", "whole"}, todo # <<>>,
           NEW next \in Stage \ Asks, Skip(next)
    PROVE  AInv'
<1>1. CASE Len(todo) = 1
    BY <1>1, GiveUpKeeps DEF Skip
<1>2. CASE Len(todo) # 1
    <2>1. GoOn(pc, Tail(todo), <<>>, 0)
        BY <1>2 DEF Skip
    <2>2. todo \in Seq(Peer)
        BY DEF TypeOK
    <2>3. Tail(todo) \in Seq(Peer) /\ Tail(todo) # <<>>
        <3>1. Len(todo) \in Nat /\ Len(todo) # 0
            BY <2>2
        <3>2. Tail(todo) \in Seq(Peer) /\ Len(Tail(todo)) = Len(todo) - 1
            BY <2>2
        <3>3. Len(Tail(todo)) # 0
            BY <1>2, <3>1, <3>2
        <3>4. Len(<<>>) = 0
            OBVIOUS
        <3> QED
            BY <3>2, <3>3, <3>4
    <2>4. pc \in Asks /\ pc # "window" /\ pc # "ranges" /\ 0 \in Nat /\ Sound(<<>>)
        BY NothingBegins DEF Asks
    <2> QED
        BY <2>1, <2>3, <2>4, GoOnKeeps
<1> QED
    BY <1>1, <1>2

\* The first range: less than asked for is all there is.
LEMMA FirstRangeKeeps ==
    ASSUME AInv, FirstRange
    PROVE  AInv'
<1>1. TypeOK /\ pc = "range" /\ todo # <<>> /\ todo \in Seq(Peer)
    BY DEF AInv, FirstRange, AsksSomeone, Asks, TypeOK
<1> DEFINE peer == Head(todo)
<1>2. peer \in Peer
    BY <1>1
<1> HIDE DEF peer
<1>3. \E found : \E reply \in RangeAnswers(peer, 0) :
          FirstRanges(peer, found, reply)
    BY RangeReplies DEF peer
<1>4. PICK found : \E reply \in RangeAnswers(peer, 0) :
          FirstRanges(peer, found, reply)
    BY <1>3
<1>5. PICK reply \in RangeAnswers(peer, 0) :
          FirstRanges(peer, found, reply)
    BY <1>4
<1> DEFINE c == reply[peer].data
<1>6. c \in Seq(Nat) /\ ChunkAt(c, 0)
    BY <1>1, <1>5, RangeReplyFacts
<1>7. Beside
    <2>1. blob' = blob /\ wallet' = wallet
        BY DEF FirstRange, request
    <2>2. clean' \in BOOLEAN
        <3>1. clean' = (reply = RangeAt(peer, 0))
            BY <1>5 DEF FirstRanges
        <3> QED
            BY <3>1
    <2>3. FirstPayment({peer}, found)
        BY <1>5 DEF FirstRanges
    <2> QED
        BY <1>1, <2>1, <2>2, <2>3, PaymentTyped DEF Beside
<1>8. \/ Skip("whole_peers") \/ finalize_l1_fetch(peer, c, "whole_peers")
      \/ ~(Len(c) < RANGE_CHUNK) /\ GoOn("ranges", <<peer>>, c, RANGE_CHUNK)
    BY <1>5 DEF FirstRanges
<1> HIDE DEF c
<1>9. CASE Skip("whole_peers")
    BY <1>1, <1>7, <1>9, SkipKeeps DEF Stage, Asks
<1>10. CASE finalize_l1_fetch(peer, c, "whole_peers")
    BY <1>1, <1>6, <1>7, <1>10, FinalizeKeeps DEF Stage, Asks
<1>11. CASE ~(Len(c) < RANGE_CHUNK) /\ GoOn("ranges", <<peer>>, c, RANGE_CHUNK)
    <2>1. RANGE_CHUNK \in Nat /\ RANGE_CHUNK # 0 /\ Len(c) \in Nat /\ Len(blob) \in Nat
        BY <1>1, <1>6, BlobFacts, ResolverAssumption
    <2>2. c # <<>>
        <3>1. Len(<<>>) = 0
            OBVIOUS
        <3>2. Len(c) # 0
            BY <1>11, <2>1
        <3> QED
            BY <3>1, <3>2
    <2>3. Marked(c) \/ PartAt(c, 0)
        BY <1>6, <2>2 DEF ChunkAt
    <2>4. PartAt(c, 0) => Begins(c)
        BY <2>1 DEF PartAt, Begins
    <2>5. Sound(c) /\ Len(c) >= RANGE_CHUNK
        BY <1>6, <1>11, <2>1, <2>3, <2>4 DEF Sound
    <2>6. <<peer>> \in Seq(Peer) /\ <<peer>> # <<>> /\ "ranges" \in Asks
        BY <1>2 DEF Asks
    <2> QED
        BY <1>1, <1>6, <1>7, <1>11, <2>1, <2>5, <2>6, GoOnInStep
<1> QED
    BY <1>8, <1>9, <1>10, <1>11

\* The next range is put after what is there.  If that makes no more than has
\* been asked for, neither did what was there, and the range was full and no more.
LEMMA NextRangeKeeps ==
    ASSUME AInv, NextRange
    PROVE  AInv'
<1>1. /\ TypeOK /\ pc = "ranges" /\ todo # <<>> /\ todo \in Seq(Peer)
      /\ offset \in Nat /\ data \in Seq(Nat) /\ Len(data) >= offset
      /\ Len(data) = offset => Sound(data)
    BY DEF AInv, NextRange, AsksSomeone, Asks, TypeOK, RangeInStep, SoundInStep
<1> DEFINE peer == Head(todo)
<1> HIDE DEF peer
<1>2. \E found : \E reply \in RangeAnswers(peer, offset) :
          NextRanges(peer, found, reply)
    BY RangeReplies DEF peer
<1>3. PICK found : \E reply \in RangeAnswers(peer, offset) :
          NextRanges(peer, found, reply)
    BY <1>2
<1>4. PICK reply \in RangeAnswers(peer, offset) :
          NextRanges(peer, found, reply)
    BY <1>3
<1> DEFINE c == reply[peer].data
           d == data \o c
<1>5. c \in Seq(Nat) /\ ChunkAt(c, offset)
    BY <1>1, <1>4, RangeReplyFacts
<1>6. Beside
    <2>1. blob' = blob /\ wallet' = wallet
        BY DEF NextRange, request
    <2>2. clean' \in BOOLEAN
        <3>1. clean' = (clean /\ reply = RangeAt(peer, offset))
            BY <1>4 DEF NextRanges
        <3> QED
            BY <3>1
    <2>3. NextPayment({peer}, found)
        BY <1>4 DEF NextRanges
    <2> QED
        BY <1>1, <2>1, <2>2, <2>3, PaymentTyped DEF Beside
<1>7. \/ finalize_l1_fetch(peer, d, "whole_peers")
      \/ ~(Len(c) < RANGE_CHUNK) /\ GoOn("ranges", todo, d, offset + RANGE_CHUNK)
    BY <1>4 DEF NextRanges
<1> HIDE DEF c
<1>8. /\ d \in Seq(Nat) /\ Len(d) = Len(data) + Len(c)
      /\ Marked(data) \/ Marked(c) => Marked(d)
      /\ Begins(data) /\ PartAt(c, Len(data)) => Begins(d)
    BY <1>1, <1>5, BlobFacts, ConcatFacts, BeginsConcat
<1> HIDE DEF d
<1>9. CASE finalize_l1_fetch(peer, d, "whole_peers")
    BY <1>1, <1>6, <1>8, <1>9, FinalizeKeeps DEF Stage, Asks
<1>10. CASE ~(Len(c) < RANGE_CHUNK) /\ GoOn("ranges", todo, d, offset + RANGE_CHUNK)
    <2>1. /\ RANGE_CHUNK \in Nat /\ RANGE_CHUNK # 0
          /\ Len(c) \in Nat /\ Len(data) \in Nat
        BY <1>1, <1>5, ResolverAssumption
    <2>2. c # <<>>
        <3>1. Len(<<>>) = 0
            OBVIOUS
        <3>2. Len(c) # 0
            BY <1>10, <2>1
        <3> QED
            BY <3>1, <3>2
    <2>3. Marked(c) \/ PartAt(c, offset)
        BY <1>5, <2>2 DEF ChunkAt
    <2>4. Len(d) >= offset + RANGE_CHUNK
        BY <1>1, <1>8, <1>10, <2>1
    <2>5. ASSUME Len(d) = offset + RANGE_CHUNK PROVE Sound(d)
        <3>1. Len(data) = offset
            BY <1>1, <1>8, <1>10, <2>1, <2>5
        <3>2. Marked(data) \/ Begins(data)
            BY <1>1, <3>1 DEF Sound
        <3> QED
            BY <1>8, <2>3, <3>1, <3>2 DEF Sound
    <2>6. "ranges" \in Asks /\ offset + RANGE_CHUNK \in Nat
        BY <1>1, <2>1 DEF Asks
    <2> QED
        BY <1>1, <1>6, <1>8, <1>10, <2>4, <2>5, <2>6, GoOnInStep
<1> QED
    BY <1>7, <1>9, <1>10

\* The list of connected peers at the head of a serial attempt.
LEMMA ConnectedKeeps ==
    ASSUME TypeOK, NEW stage \in {"range", "whole"}, NEW next \in Stage \ Asks,
           GetConnectedPeers(stage, next)
    PROVE  AInv'
<1>1. Beside
    BY DEF GetConnectedPeers, Beside, request, history, TypeOK
<1>2. PICK l \in ListOf(Peer) :
          IF l = <<>> THEN GiveUp(next) ELSE GoOn(stage, l, <<>>, 0)
    BY DEF GetConnectedPeers
<1>3. CASE l = <<>>
    BY <1>1, <1>2, <1>3, GiveUpKeeps
<1>4. CASE l # <<>>
    <2>1. l \in Seq(Peer)
        BY ListFacts, ResolverAssumption
    <2>2. /\ stage \in Asks /\ stage # "window" /\ stage # "ranges"
          /\ 0 \in Nat /\ Sound(<<>>)
        BY NothingBegins DEF Asks
    <2> QED
        BY <1>1, <1>2, <1>4, <2>1, <2>2, GoOnKeeps
<1> QED
    BY <1>3, <1>4

\* The reply to a request for the whole blob, and what follows from it.
WholeTruth(peer) == [p \in {peer} |-> Sent(handle_inbound_request)]
WholeAnswers(peer) ==
    AllReplies(WholeTruth(peer), [p \in {peer} |-> 0], Lengths(Len(blob), 5))

\* Whatever comes back is a sequence of units.
LEMMA WholeReplyTyped ==
    ASSUME TypeOK, NEW peer, NEW reply \in WholeAnswers(peer)
    PROVE  reply[peer].data \in Seq(Nat)
<1> DEFINE w == WholeTruth(peer)
           at == [p \in {peer} |-> 0]
           f == write_response(Have(blob))
<1>1. blob \in Seq(Nat) /\ Len(blob) \in Nat
    BY BlobFacts
<1>2. peer \in DOMAIN w /\ w[peer] = read_response(f) /\ at[peer] \in Nat
    BY DEF WholeTruth, Sent, handle_inbound_request
<1>3. f.body = blob
    BY DEF write_response, Have
<1> HIDE DEF f
<1>4. NoReply.data \in Seq(Nat)
    BY DEF NoReply
<1>5. ASSUME f.len \in 1 .. MAX_MESSAGE_SIZE, f.len >= 5, f.len <= 5 + Len(f.body)
      PROVE  Have(SubSeq(f.body, 1, f.len - 5)).data \in Seq(Nat)
    <2>1. f.len - 5 \in 0 .. Len(blob)
        BY <1>1, <1>3, <1>5, WireAssumption
    <2>2. SubSeq(blob, 1, f.len - 5) \in Seq(Nat)
        BY <1>1, <2>1
    <2> QED
        BY <1>3, <2>2 DEF Have
<1>6. w[peer].data \in Seq(Nat)
    BY <1>2, <1>4, <1>5 DEF read_response
<1>7. reply \in AllReplies(w, at, Lengths(Len(blob), 5))
    BY DEF WholeAnswers
<1> HIDE DEF w, at
<1> QED
    BY <1>1, <1>2, <1>6, <1>7, ReplyFacts, LengthsTyped

LEMMA FetchBlobKeeps ==
    ASSUME TypeOK, blob' = blob, wallet' = wallet, NEW peer, NEW next \in Stage \ Asks,
           NEW other, FetchBlob(peer, next, other), other /\ Beside => AInv'
    PROVE  AInv'
<1>1. PICK found, reply :
          /\ reply \in WholeAnswers(peer)
          /\ FirstPayment({peer}, found)
          /\ clean' = (reply = WholeTruth(peer))
          /\ IF reply[peer].ok
             THEN finalize_l1_fetch(peer, reply[peer].data, next)
             ELSE other
    BY Zenon DEF FetchBlob, WholeTruth, WholeAnswers
<1>2. Beside
    <2>1. clean' \in BOOLEAN
        BY <1>1
    <2> QED
        BY <1>1, <2>1, PaymentTyped DEF Beside
<1>3. reply[peer].data \in Seq(Nat)
    BY <1>1, WholeReplyTyped
<1>4. CASE finalize_l1_fetch(peer, reply[peer].data, next)
    BY <1>2, <1>3, <1>4, FinalizeKeeps
<1>5. CASE other
    BY <1>2, <1>5
<1> QED
    BY <1>1, <1>4, <1>5

\* A step that only moves on, to a stage that asks nobody, and may return.
LEMMA MoveKeeps ==
    ASSUME AInv, UNCHANGED <<request, locals, addr_cache, payment_err, score, history>>,
           pc \notin {"find", "ranges"}, pc' \in Stage \ Asks, pc' # "find",
           stored' = stored \/ stored' \in {NoData, <<blob>>},
           \/ result' = result \/ result' = Error
           \/ \E source \in {"L0", "L3"} :
                 result' = [source |-> source, data |-> blob, payment_error |-> FALSE]
    PROVE  AInv'
<1>1. TypeOK /\ Sound(data)
    BY DEF AInv, SoundInStep
<1>2. blob \in Seq(Nat)
    BY <1>1, BlobFacts
<1>3. (stored = NoData \/ (Len(stored) = 1 /\ stored[1] \in Seq(Nat)))'
    <2>1. Len(<<blob>>) = 1 /\ <<blob>>[1] = blob
        OBVIOUS
    <2>2. stored = NoData \/ (Len(stored) = 1 /\ stored[1] \in Seq(Nat))
        BY <1>1 DEF TypeOK
    <2> QED
        BY <1>2, <2>1, <2>2 DEF NoData
<1>4. (result \in [source : {"pending", "error", "L0", "L1", "L3"},
                   data : Seq(Nat), payment_error : BOOLEAN])'
    <2>1. result \in [source : {"pending", "error", "L0", "L1", "L3"},
                      data : Seq(Nat), payment_error : BOOLEAN]
        BY <1>1 DEF TypeOK
    <2>2. <<>> \in Seq(Nat)
        OBVIOUS
    <2>3. CASE result' = result
        BY <2>1, <2>3
    <2>4. CASE result' = Error
        BY <2>2, <2>4 DEF Error
    <2>5. ASSUME NEW source \in {"L0", "L3"},
                 result' = [source |-> source, data |-> blob, payment_error |-> FALSE]
          PROVE  result' \in [source : {"pending", "error", "L0", "L1", "L3"},
                              data : Seq(Nat), payment_error : BOOLEAN]
        BY <1>2, <2>5
    <2> QED
        BY <2>3, <2>4, <2>5
<1>5. (tries \in 0 .. (IF pc = "find" THEN MAX_RETRIES ELSE MAX_POLL - 1))'
    BY <1>1 DEF TypeOK, locals
<1>6. /\ (blob \in {Bytes(n) : n \in BlobLengths} /\ wallet \in BOOLEAN)'
      /\ (pc \in Stage /\ todo \in Seq(Peer) /\ data \in Seq(Nat) /\ offset \in Nat)'
      /\ (addr_cache \in [Peer -> {"unknown", "none", "known"}])'
      /\ (payment_err \in BOOLEAN)'
      /\ (score \in [Peer -> Int])'
      /\ (clean \in BOOLEAN /\ unlocated \in BOOLEAN)'
    BY <1>1 DEF TypeOK, request, locals, history
<1>7. TypeOK'
    BY <1>3, <1>4, <1>5, <1>6 DEF TypeOK
<1>8. Sound(data)'
    BY <1>1 DEF Sound, Marked, Begins, locals, request
<1>9. (AsksSomeone /\ OneChunkEach /\ RangeInStep /\ SoundInStep)'
    BY <1>8 DEF AsksSomeone, OneChunkEach, RangeInStep, SoundInStep, Asks
<1> QED
    BY <1>7, <1>8, <1>9 DEF AInv

\* One more try.
LEMMA TryKeeps ==
    ASSUME AInv, UNCHANGED <<request, addr_cache, payment_err, history>>,
           UNCHANGED <<pc, todo, data, offset, score, stored, result>>,
           tries' = tries + 1,
           tries < (IF pc = "find" THEN MAX_RETRIES ELSE MAX_POLL - 1)
    PROVE  AInv'
<1>1. TypeOK
    BY DEF AInv
<1>2. (tries \in 0 .. (IF pc = "find" THEN MAX_RETRIES ELSE MAX_POLL - 1))'
    <2>1. tries \in 0 .. (IF pc = "find" THEN MAX_RETRIES ELSE MAX_POLL - 1)
        BY <1>1 DEF TypeOK
    <2>2. MAX_RETRIES \in Nat /\ MAX_POLL - 1 \in Nat
        BY ResolverAssumption
    <2>3. pc' = pc
        OBVIOUS
    <2>4. CASE pc = "find"
        BY <2>1, <2>2, <2>3, <2>4
    <2>5. CASE pc # "find"
        BY <2>1, <2>2, <2>3, <2>5
    <2> QED
        BY <2>4, <2>5
<1>3. TypeOK'
    BY <1>1, <1>2 DEF TypeOK, request, history, NoData
<1> QED
    BY <1>3 DEF AInv, AsksSomeone, OneChunkEach, RangeInStep, SoundInStep, Sound,
                Marked, Begins, Once, request

\* The providers found are peers.
LEMMA FindKeeps ==
    ASSUME AInv, FindProviders
    PROVE  AInv'
<1>1. TypeOK /\ pc = "find"
    BY DEF AInv, FindProviders
<1>2. Beside
    BY <1>1 DEF FindProviders, Beside, request, history, TypeOK
<1>3. PICK providers \in ListOf(Peer \cup {Local}) :
          LET dht_peers == Those(providers, Peer)
          IN  \/ /\ dht_peers # <<>>
                 /\ GoOn("poll", dht_peers, <<>>, 0)
              \/ /\ dht_peers = <<>>
                 /\ TriesLeft(MAX_RETRIES)
                 /\ tries' = tries + 1
                 /\ UNCHANGED <<pc, todo, data, offset, score, stored, result>>
              \/ /\ dht_peers = <<>>
                 /\ ~TriesLeft(MAX_RETRIES)
                 /\ GiveUp("walrus")
    BY DEF FindProviders
<1> DEFINE l == Those(providers, Peer)
<1>4. l \in Seq(Peer)
    <2>1. IsFiniteSet(Peer \cup {Local})
        BY ResolverAssumption, FS_AddElement
    <2>2. providers \in Seq(Peer \cup {Local}) /\ Once(providers)
        BY <2>1, ListFacts
    <2>3. l \in Seq((Peer \cup {Local}) \cap Peer)
        BY <2>2, ThoseFacts
    <2>4. (Peer \cup {Local}) \cap Peer = Peer
        OBVIOUS
    <2> QED
        BY <2>3, <2>4
<1>5. \/ l # <<>> /\ GoOn("poll", l, <<>>, 0)
      \/ /\ tries < MAX_RETRIES /\ tries' = tries + 1
         /\ UNCHANGED <<pc, todo, data, offset, score, stored, result>>
      \/ GiveUp("walrus")
    BY <1>3 DEF TriesLeft
<1> HIDE DEF l
<1>6. CASE l # <<>> /\ GoOn("poll", l, <<>>, 0)
    <2>1. "poll" \in Asks /\ 0 \in Nat /\ Sound(<<>>)
        BY <1>1, NothingBegins DEF Asks
    <2> QED
        BY <1>1, <1>2, <1>4, <1>6, <2>1, GoOnKeeps
<1>7. CASE /\ tries < MAX_RETRIES /\ tries' = tries + 1
           /\ UNCHANGED <<pc, todo, data, offset, score, stored, result>>
    BY <1>1, <1>7, TryKeeps DEF FindProviders
<1>8. CASE GiveUp("walrus")
    BY <1>1, <1>2, <1>8, GiveUpKeeps DEF Stage, Asks
<1> QED
    BY <1>5, <1>6, <1>7, <1>8

\* The provider that is asked is one of those found.
LEMMA PollKeeps ==
    ASSUME AInv, Poll
    PROVE  AInv'
<1>1. TypeOK /\ pc = "poll" /\ todo \in Seq(Peer)
    BY DEF AInv, Poll, TypeOK
<1>2. Beside
    BY <1>1 DEF Poll, Beside, request, history, TypeOK
<1>3. PICK up \in SUBSET DOMAIN todo :
          \/ up # {} /\ GoOn("fetch", <<todo[Min(up)]>>, <<>>, 0)
          \/ /\ tries < MAX_POLL - 1 /\ tries' = tries + 1
             /\ UNCHANGED <<pc, todo, data, offset, score, stored, result>>
          \/ GiveUp("walrus")
    BY DEF Poll, TriesLeft
<1>4. CASE up # {} /\ GoOn("fetch", <<todo[Min(up)]>>, <<>>, 0)
    <2>1. up \in SUBSET Nat
        BY <1>1
    <2>2. \E x \in up : \A y \in up : x <= y
        BY <1>4, <2>1, Smallest
    <2>3. Min(up) \in up
        BY <2>2 DEF Min
    <2> DEFINE p == todo[Min(up)]
    <2>4. p \in Peer
        BY <1>1, <2>3
    <2> HIDE DEF p
    <2>5. <<p>> \in Seq(Peer) /\ <<p>> # <<>>
        BY <2>4
    <2>6. "fetch" \in Asks /\ 0 \in Nat /\ Sound(<<>>)
        BY <1>1, NothingBegins DEF Asks
    <2>7. GoOn("fetch", <<p>>, <<>>, 0)
        BY <1>4 DEF p
    <2> QED
        BY <1>1, <1>2, <2>5, <2>6, <2>7, GoOnKeeps
<1>5. CASE /\ tries < MAX_POLL - 1 /\ tries' = tries + 1
           /\ UNCHANGED <<pc, todo, data, offset, score, stored, result>>
    BY <1>1, <1>5, TryKeeps DEF Poll
<1>6. CASE GiveUp("walrus")
    BY <1>1, <1>2, <1>6, GiveUpKeeps DEF Stage, Asks
<1> QED
    BY <1>3, <1>4, <1>5, <1>6

\* Every step keeps the invariant.
LEMMA StepKeeps ==
    ASSUME AInv, Next
    PROVE  AInv'
<1>1. TypeOK /\ (pc \in Asks => todo # <<>>)
    BY DEF AInv, AsksSomeone
<1>2. {"range_peers", "whole_peers", "find", "walrus", "parallel", "done"}
          \subseteq Stage \ Asks
    BY DEF Stage, Asks
<1>3. CASE L0Hit \/ L0Error
    BY <1>2, <1>3, MoveKeeps DEF L0Hit, L0Error, Return
<1>4. CASE L0Miss
    BY <1>2, <1>4, MoveKeeps DEF L0Miss
<1>5. CASE WalrusBlob \/ WalrusError
    BY <1>2, <1>5, MoveKeeps DEF WalrusBlob, WalrusError, Return
<1>6. CASE RangePeers
    BY <1>1, <1>2, <1>6, ConnectedKeeps DEF RangePeers
<1>7. CASE WholePeers
    BY <1>1, <1>2, <1>7, ConnectedKeeps DEF WholePeers
<1>8. CASE TooManyChunks
    <2>1. Beside
        BY <1>1, <1>8 DEF TooManyChunks, Beside, request, history, TypeOK
    <2> QED
        BY <1>1, <1>2, <1>8, <2>1, GiveUpKeeps DEF TooManyChunks
<1>9. CASE FetchDirect
    <2>1. /\ pc = "whole" /\ todo # <<>> /\ blob' = blob /\ wallet' = wallet
          /\ FetchBlob(Head(todo), "find", Skip("find"))
        BY <1>1, <1>9 DEF FetchDirect, request, Asks
    <2>2. Skip("find") /\ Beside => AInv'
        BY <1>1, <1>2, <2>1, SkipKeeps
    <2> QED
        BY <1>1, <1>2, <2>1, <2>2, FetchBlobKeeps
<1>10. CASE FetchFromProvider
    <2>1. /\ blob' = blob /\ wallet' = wallet
          /\ FetchBlob(Head(todo), "walrus", GiveUp("walrus"))
        BY <1>10 DEF FetchFromProvider, request
    <2>2. GiveUp("walrus") /\ Beside => AInv'
        BY <1>1, <1>2, GiveUpKeeps
    <2> QED
        BY <1>1, <1>2, <2>1, <2>2, FetchBlobKeeps
<1> QED
    BY <1>3, <1>4, <1>5, <1>6, <1>7, <1>8, <1>9, <1>10, ProbeKeeps, WindowKeeps,
       FirstRangeKeeps, NextRangeKeeps, FindKeeps, PollKeeps DEF Next

\* The inductive invariant of the attempts: what is put together from ranges is
\* marked by a faulty peer or a beginning of the blob, whatever is lost, cut
\* short or refused, and however many peers serve a window; in the serial fetch
\* this holds until a range runs over, from where on the data is longer than what
\* has been asked for.
THEOREM AttemptsInductive == Spec => []AInv
<1>1. Init => AInv
    <2> SUFFICES ASSUME Init PROVE AInv
        OBVIOUS
    <2>1. PICK n \in BlobLengths : blob = Bytes(n)
        BY DEF Init
    <2>2. blob \in Seq(Nat)
        BY <2>1, ResolverAssumption DEF Bytes
    <2>3. <<>> \in Seq(Nat) /\ <<>> \in Seq(Peer)
        OBVIOUS
    <2>4. stored = NoData \/ (Len(stored) = 1 /\ stored[1] \in Seq(Nat))
        <3>1. Len(<<blob>>) = 1 /\ <<blob>>[1] = blob
            OBVIOUS
        <3> QED
            BY <2>2, <3>1 DEF Init
    <2>5. result \in [source : {"pending", "error", "L0", "L1", "L3"},
                      data : Seq(Nat), payment_error : BOOLEAN]
        BY <2>3 DEF Init, Pending
    <2>6. tries \in 0 .. (IF pc = "find" THEN MAX_RETRIES ELSE MAX_POLL - 1)
        BY ResolverAssumption DEF Init
    <2>7. TypeOK
        <3>1. todo \in Seq(Peer) /\ data \in Seq(Nat) /\ offset \in Nat /\ pc \in Stage
            BY <2>3 DEF Init, Stage
        <3>2. score \in [Peer -> Int]
              /\ addr_cache \in [Peer -> {"unknown", "none", "known"}]
            BY DEF Init
        <3>3. /\ blob \in {Bytes(k) : k \in BlobLengths} /\ wallet \in BOOLEAN
              /\ payment_err \in BOOLEAN /\ clean \in BOOLEAN /\ unlocated \in BOOLEAN
            BY DEF Init
        <3> QED
            BY <2>4, <2>5, <2>6, <3>1, <3>2, <3>3 DEF TypeOK
    <2>8. Sound(data)
        BY <2>7, NothingBegins DEF Init
    <2> QED
        BY <2>7, <2>8 DEF Init, AInv, AsksSomeone, OneChunkEach, RangeInStep,
                          SoundInStep, Asks
<1>2. AInv /\ [Next]_vars => AInv'
    <2> SUFFICES ASSUME AInv, [Next]_vars PROVE AInv'
        OBVIOUS
    <2>1. CASE UNCHANGED vars
        <3>1. TypeOK'
            BY <2>1 DEF AInv, TypeOK, vars, request, locals, history, NoData
        <3> QED
            BY <2>1, <3>1 DEF AInv, AsksSomeone, OneChunkEach, RangeInStep,
                              SoundInStep, Sound, Marked, Begins, Once, vars,
                              request, locals
    <2> QED
        BY <2>1, StepKeeps
<1> QED
    BY <1>1, <1>2, PTL DEF Spec

\* Type correctness; the retries and polls of the DHT attempt stay within bounds.
THEOREM ResolverTypeCorrect == Spec => []TypeOK
<1>1. AInv => TypeOK
    BY DEF AInv
<1> QED
    BY <1>1, AttemptsInductive, PTL

\* However ranges fail, are cut short, run over, or end with the blob, and
\* whichever peer serves which: what has been put together from units of the
\* blob is a beginning of the blob (try_direct_peers_range_parallel's test for
\* gaps), in the serial fetch as long as it has no more than it asked for.
THEOREM RangesMakePrefix == Spec => []AssemblyIsPrefix
<1>1. AInv => AssemblyIsPrefix
    <2> SUFFICES ASSUME AInv, ~Marked(data), pc = "ranges" => Len(data) = offset
                 PROVE  IsPrefix(data, blob)
        BY DEF AssemblyIsPrefix, Marked
    <2>1. data \in Seq(Nat) /\ Begins(data) /\ blob \in Seq(Nat)
        BY BlobFacts DEF AInv, SoundInStep, Sound
    <2>2. Len(data) \in Nat /\ Len(data) <= Len(blob) /\ Len(blob) \in Nat
        BY <2>1 DEF Begins
    <2>3. SubSeq(data, 1, Len(data)) = SubSeq(blob, 1, Len(data))
        <3>1. SubSeq(data, 1, Len(data)) = [i \in 1 .. Len(data) |-> data[i]]
            BY <2>1, <2>2
        <3>2. SubSeq(blob, 1, Len(data)) = [i \in 1 .. Len(data) |-> blob[i]]
            BY <2>1, <2>2
        <3> QED
            BY <2>1, <3>1, <3>2 DEF Begins
    <2> QED
        BY <2>2, <2>3 DEF IsPrefix
<1> QED
    BY <1>1, AttemptsInductive, PTL

-----------------------------------------------------------------------------
(* Clean attempts deliver: the whole of CleanAttemptsDeliver.  While all     *)
(* replies are a holder's, what is put together is exactly the blob up to    *)
(* the offset, so a chunk that falls short has reached the end of the blob.  *)

\* Where a fetch that has asked for the first `a` units has got to.
Upto(a) == IF a < Len(blob) THEN a ELSE Len(blob)

ExactWindow ==
    pc = "window" => blob # <<>> /\ Begins(data) /\ Len(data) = Upto(offset)
ExactRanges == pc = "ranges" => Begins(data) /\ Len(data) = offset
Exact == clean => ExactWindow /\ ExactRanges

\* A length that does not fit into a u32 is written as another one, and a
\* holder's answer is then cut: such blobs are left out.
ShortBlobs == \A n \in BlobLengths : 5 + n < U32

\* CleanAttemptsDeliver, of one step.
Unharmed == \A p \in Peer : ~(score'[p] < score[p])
Delivers ==
    clean' =>
        /\ Unharmed
        /\ pc = "window" /\ pc' \notin {"window", "done"} => Len(blob) > MAX_TOTAL_SIZE
        /\ pc = "ranges" /\ pc' \notin {"ranges", "done"} =>
               Len(blob) >= MAX_CHUNKS * RANGE_CHUNK
        /\ pc \in {"whole", "fetch"} /\ pc' # "done" => 5 + Len(blob) > MAX_MESSAGE_SIZE

\* The blob passes the verification.
LEMMA BlobReturned ==
    ASSUME TypeOK, NEW peer, NEW d, d = blob, NEW next, finalize_l1_fetch(peer, d, next)
    PROVE  pc' = "done" /\ Unharmed
<1>1. score \in [Peer -> Int]
    BY DEF TypeOK
<1>2. pc' = "done" /\ score' = [score EXCEPT ![peer] = @ + 1]
    BY DEF finalize_l1_fetch, verify_blob_by_id, record_success
<1>3. ASSUME NEW p \in Peer PROVE ~(score'[p] < score[p])
    <2>1. score[p] \in Int /\ score'[p] \in {score[p], score[p] + 1}
        BY <1>1, <1>2
    <2> QED
        BY <2>1
<1> QED
    BY <1>2, <1>3 DEF Unharmed

LEMMA NobodyScored ==
    ASSUME TypeOK, score' = score
    PROVE  Unharmed
<1>1. \A p \in Peer : score[p] \in Int
    BY DEF TypeOK
<1> QED
    BY <1>1 DEF Unharmed

\* The loop over the chunks of a window, all of them a holder's.
ExactAcc(acc, a) ==
    /\ acc \in Accs /\ ~acc.has_gap /\ acc.expected = Len(acc.data)
    /\ Begins(acc.data) /\ Len(acc.data) = Upto(a)
    /\ acc.eof => Len(acc.data) = Len(blob)
ExactChunk(c, a) ==
    /\ c.offset = a /\ c.data \in Seq(Nat)
    /\ IF a < Len(blob) THEN PartAt(c.data, a) /\ Len(c.data) = Rest(a, CHUNK_SIZE)
                        ELSE c.data = <<>>

LEMMA ExactTake ==
    ASSUME blob \in Seq(Nat), NEW a \in Nat, NEW acc, ExactAcc(acc, a),
           NEW c, ExactChunk(c, a)
    PROVE  ExactAcc(Take(acc, c), a + CHUNK_SIZE)
<1>1. /\ acc \in Accs /\ acc.data \in Seq(Nat) /\ ~acc.has_gap
      /\ acc.expected = Len(acc.data) /\ acc.eof \in BOOLEAN
      /\ Begins(acc.data) /\ Len(acc.data) = Upto(a)
      /\ acc.eof => Len(acc.data) = Len(blob)
    BY DEF ExactAcc, Accs
<1>2. CHUNK_SIZE \in Nat /\ CHUNK_SIZE # 0 /\ Len(blob) \in Nat /\ Len(acc.data) \in Nat
    BY <1>1, ResolverAssumption
<1>3. CASE ~(a < Len(blob))
    <2>1. Take(acc, c) = acc
        BY <1>3 DEF ExactChunk, Take
    <2>2. Upto(a + CHUNK_SIZE) = Upto(a)
        BY <1>2, <1>3 DEF Upto
    <2> QED
        BY <2>1, <2>2 DEF ExactAcc
<1>4. CASE a < Len(blob)
    <2> DEFINE e == acc.eof \/ Len(c.data) < CHUNK_SIZE
               d == acc.data \o c.data
               x == [data |-> d, expected |-> c.offset + Len(c.data),
                     has_gap |-> FALSE, eof |-> e]
    <2>1. /\ c.offset = a /\ c.data \in Seq(Nat) /\ PartAt(c.data, a)
          /\ Len(c.data) = Rest(a, CHUNK_SIZE)
        BY <1>4 DEF ExactChunk
    <2>2. Len(acc.data) = a /\ ~acc.eof
        BY <1>1, <1>2, <1>4 DEF Upto
    <2>3. Rest(a, CHUNK_SIZE) > 0 /\ a + Rest(a, CHUNK_SIZE) = Upto(a + CHUNK_SIZE)
        BY <1>2, <1>4 DEF Rest, Upto
    <2>4. c.data # <<>>
        <3>1. Len(<<>>) = 0
            OBVIOUS
        <3>2. Len(c.data) # 0
            BY <2>1, <2>3
        <3> QED
            BY <3>1, <3>2
    <2>5. Take(acc, c) = x
        BY <1>1, <2>1, <2>2, <2>4 DEF Take
    <2>6. d \in Seq(Nat) /\ Len(d) = a + Len(c.data) /\ Begins(d)
        <3> acc.data \in Seq(Nat) /\ c.data \in Seq(Nat)
            BY <1>1, <2>1
        <3>1. d \in Seq(Nat) /\ Len(d) = Len(acc.data) + Len(c.data)
            BY ConcatFacts
        <3>2. PartAt(c.data, Len(acc.data))
            BY <2>1, <2>2
        <3>3. Begins(d)
            BY <1>1, <2>1, <3>2, BeginsConcat
        <3> QED
            BY <2>2, <3>1, <3>3
    <2>7. e \in BOOLEAN
        OBVIOUS
    <2>8. e => Len(d) = Len(blob)
        <3>1. e => Len(c.data) < CHUNK_SIZE
            BY <2>2
        <3>2. Len(c.data) < CHUNK_SIZE => Rest(a, CHUNK_SIZE) = Len(blob) - a
            BY <1>2, <2>1 DEF Rest
        <3> QED
            BY <1>2, <2>1, <2>6, <3>1, <3>2
    <2>9. Len(d) = Upto(a + CHUNK_SIZE) /\ c.offset + Len(c.data) = Len(d) /\ Len(d) \in Nat
        BY <2>1, <2>3, <2>6
    <2> HIDE DEF d, e
    <2>10. /\ x \in Accs /\ x.data = d /\ x.expected = Len(d) /\ x.has_gap = FALSE
           /\ x.eof = e
        BY <2>6, <2>7, <2>9 DEF Accs
    <2> HIDE DEF x
    <2>11. ExactAcc(x, a + CHUNK_SIZE)
        BY <2>6, <2>8, <2>9, <2>10 DEF ExactAcc
    <2> QED
        BY <2>5, <2>11
<1> QED
    BY <1>3, <1>4

\* What a window of holders puts together.
LEMMA ExactAssemble ==
    ASSUME blob \in Seq(Nat), data \in Seq(Nat), offset \in Nat, Begins(data),
           Len(data) = Upto(offset), NEW n \in Nat, NEW chunks, DOMAIN chunks = 1 .. n,
           \A i \in 1 .. n : ExactChunk(chunks[i], WindowAt(i))
    PROVE  ExactAcc(Assemble(chunks), offset + n * CHUNK_SIZE)
<1> DEFINE base == [data |-> data, expected |-> Len(data),
                    has_gap |-> FALSE, eof |-> FALSE]
           o == [k \in Nat |-> offset + k * CHUNK_SIZE]
<1>1. CHUNK_SIZE \in Nat
    BY ResolverAssumption
<1>2. /\ o[0] = offset
      /\ \A k \in Nat : /\ o[k] \in Nat /\ o[k + 1] = o[k] + CHUNK_SIZE
                        /\ WindowAt(k + 1) = o[k]
    <2>1. ASSUME NEW k \in Nat
          PROVE  /\ o[k] \in Nat /\ o[k + 1] = o[k] + CHUNK_SIZE /\ WindowAt(k + 1) = o[k]
        <3>1. k * CHUNK_SIZE \in Nat /\ (k + 1) * CHUNK_SIZE = k * CHUNK_SIZE + CHUNK_SIZE
            BY <1>1
        <3>2. (k + 1) - 1 = k /\ k + 1 \in Nat
            OBVIOUS
        <3>3. o[k] = offset + k * CHUNK_SIZE /\ o[k + 1] = offset + (k + 1) * CHUNK_SIZE
            BY <3>2
        <3>4. WindowAt(k + 1) = offset + k * CHUNK_SIZE
            BY <3>2 DEF WindowAt
        <3> DEFINE m == k * CHUNK_SIZE
        <3>5. /\ m \in Nat /\ o[k] = offset + m /\ WindowAt(k + 1) = offset + m
              /\ o[k + 1] = offset + (m + CHUNK_SIZE)
            BY <3>1, <3>3, <3>4
        <3> HIDE DEF o, m
        <3> QED
            BY <1>1, <3>5
    <2>2. o[0] = offset
        BY <1>1
    <2> QED
        BY <2>1, <2>2
<1>3. ExactAcc(base, offset)
    <2>1. Len(data) \in Nat
        OBVIOUS
    <2>2. base \in Accs /\ base.data = data /\ base.expected = Len(data)
          /\ ~base.has_gap /\ ~base.eof
        BY <2>1 DEF Accs
    <2> QED
        BY <2>2 DEF ExactAcc
<1>4. Assemble(chunks) = FoldLeft(Take, base, chunks)
    BY Zenon DEF Assemble
<1>5. o[n] = offset + n * CHUNK_SIZE
    OBVIOUS
<1> HIDE DEF base, o
<1>6. PICK f : Taken(chunks, base, n, f)
    BY TakeSteps
<1> DEFINE T == {k \in Nat : k <= n => ExactAcc(f[k], o[k])}
<1>7. 0 \in T
    <2>1. f[0] = base
        BY <1>6 DEF Taken
    <2> QED
        BY <1>2, <1>3, <2>1
<1>8. ASSUME NEW k \in T PROVE k + 1 \in T
    <2>1. k \in Nat /\ k + 1 \in Nat
        OBVIOUS
    <2>2. SUFFICES ASSUME k + 1 <= n PROVE ExactAcc(f[k + 1], o[k + 1])
        BY <2>1
    <2>3. k <= n /\ k + 1 \in 1 .. n /\ (k + 1) - 1 = k
        BY <2>1, <2>2
    <2>4. ExactAcc(f[k], o[k])
        BY <2>3
    <2>5. f[k + 1] = Take(f[k], chunks[k + 1])
        BY <1>6, <2>3 DEF Taken
    <2>6. ExactChunk(chunks[k + 1], o[k]) /\ o[k] \in Nat
        BY <1>2, <2>1, <2>3
    <2>7. ExactAcc(Take(f[k], chunks[k + 1]), o[k] + CHUNK_SIZE)
        BY <2>4, <2>6, ExactTake
    <2> QED
        BY <1>2, <2>1, <2>5, <2>7
<1>9. n \in T
    <2> HIDE DEF T
    <2>1. T \in SUBSET Nat
        BY DEF T
    <2> QED
        BY <1>7, <1>8, <2>1, SetInduction
<1>10. ExactAcc(f[n], o[n]) /\ FoldLeft(Take, base, chunks) = f[n]
    BY <1>6, <1>9 DEF Taken
<1> QED
    BY <1>4, <1>5, <1>10

\* A step of a fetch that is not in the middle of an attempt, and stays out.
LEMMA QuietDelivers ==
    ASSUME TypeOK, score' = score, pc \notin {"window", "ranges", "whole", "fetch"},
           pc' \notin {"window", "ranges"}
    PROVE  Exact' /\ Delivers
<1>1. Unharmed
    BY NobodyScored
<1> QED
    BY <1>1 DEF Exact, ExactWindow, ExactRanges, Delivers

\* A window is opened only on a blob that has something to send.
LEMMA ProbeDelivers ==
    ASSUME AInv, Probe
    PROVE  Exact' /\ Delivers
<1>1. TypeOK /\ pc = "parallel" /\ blob' = blob
    BY DEF AInv, Probe, request
<1>2. blob \in Seq(Nat) /\ Len(blob) \in Nat
    BY <1>1, BlobFacts
<1>3. PICK l \in ListOf(Peer) : \E found :
          \E reply \in ProbeAnswers(l) : Probes(l, found, reply)
    BY ProbeReplies
<1>4. PICK found : \E reply \in ProbeAnswers(l) :
          Probes(l, found, reply)
    BY <1>3
<1>5. PICK reply \in ProbeAnswers(l) : Probes(l, found, reply)
    BY <1>4
<1> DEFINE w == ProbeWorking(l, reply)
<1>6. /\ w \in Seq(Peer)
      /\ ToSet(w) \subseteq {p \in DOMAIN ProbeTruth(l) : reply[p].data # <<>>}
    BY WorkingFacts
<1>7. \/ GiveUp("range_peers")
      \/ w # <<>> /\ GoOn("window", w, <<>>, 0)
    BY <1>5 DEF Probes
<1>8. clean' => \A p \in DOMAIN ProbeTruth(l) : reply[p].ok => reply[p] = ProbeTruth(l)[p]
    BY <1>5 DEF Probes
<1> HIDE DEF w
<1>9. CASE GiveUp("range_peers")
    BY <1>1, <1>9, QuietDelivers DEF GiveUp
<1>10. CASE w # <<>> /\ GoOn("window", w, <<>>, 0)
    <2>1. score' = score /\ pc' = "window" /\ data' = <<>> /\ offset' = 0
        BY <1>10 DEF GoOn
    <2>2. PICK p \in DOMAIN ProbeTruth(l) : reply[p].data # <<>>
        <3>1. Len(w) \in Nat /\ Len(w) # 0
            BY <1>6, <1>10
        <3>2. 1 \in DOMAIN w
            BY <1>6, <3>1
        <3>3. w[1] \in ToSet(w)
            BY <3>2 DEF ToSet
        <3> QED
            BY <1>6, <3>3
    <2> DEFINE t == ProbeTruth(l)[p]
    <2>3. /\ t = SentRange(handle_inbound_range_request(0, PROBE_LENGTH))
          /\ PROBE_LENGTH \in Nat /\ 0 \in Nat
        BY ResolverAssumption DEF ProbeTruth
    <2>4. /\ t = NoReply \/ t = Have(t.data)
          /\ t.data \in Seq(Nat)
          /\ t.data = <<>> \/ PartAt(t.data, 0)
        BY <1>2, <2>3, RangeTruth
    <2>5. clean' => reply[p] = t
        <3>1. \E start : reply[p] \in Replies(p, t, start, Lengths(PROBE_LENGTH, 1))
            BY DEF ProbeAnswers, AllReplies
        <3>2. reply[p] # NoReply
            BY <2>2 DEF NoReply
        <3>3. reply[p] = t \/ reply[p].ok
            BY <3>1, <3>2 DEF Replies, Have
        <3> QED
            BY <1>8, <2>2, <3>3
    <2> HIDE DEF t
    <2>6. clean' => blob # <<>>
        <3> SUFFICES ASSUME clean', blob = <<>> PROVE FALSE
            OBVIOUS
        <3>1. t.data # <<>> /\ t.data \in Seq(Nat) /\ PartAt(t.data, 0)
            BY <2>2, <2>4, <2>5
        <3>2. Len(t.data) \in Nat /\ Len(t.data) # 0
            BY <3>1
        <3>3. Len(blob) = 0
            OBVIOUS
        <3>4. Len(t.data) <= 0
            BY <3>1, <3>2, <3>3 DEF PartAt
        <3> QED
            BY <3>2, <3>4
    <2>7. (blob # <<>> => ExactWindow')
        <3>1. Begins(<<>>) /\ Len(<<>>) = 0
            BY <1>1, NothingBegins
        <3>2. Begins(data)'
            BY <1>1, <2>1, <3>1 DEF Begins
        <3>3. (Len(data) = Upto(offset))'
            BY <1>1, <1>2, <2>1, <3>1 DEF Upto
        <3> QED
            BY <1>1, <3>2, <3>3 DEF ExactWindow
    <2>8. Exact'
        BY <2>1, <2>6, <2>7 DEF Exact, ExactRanges
    <2>9. Unharmed
        BY <1>1, <2>1, NobodyScored
    <2> QED
        BY <1>1, <2>8, <2>9 DEF Delivers
<1> QED
    BY <1>7, <1>9, <1>10

\* A window of holders brings the next part of the blob, or its end.
LEMMA WindowDelivers ==
    ASSUME AInv, Exact, Window
    PROVE  Exact' /\ Delivers
<1>1. TypeOK /\ pc = "window" /\ Once(todo) /\ todo # <<>> /\ todo \in Seq(Peer)
      /\ blob' = blob
    BY DEF AInv, Window, OneChunkEach, AsksSomeone, Asks, TypeOK, request
<1>2. /\ blob \in Seq(Nat) /\ data \in Seq(Nat) /\ offset \in Nat /\ Len(todo) \in Nat
      /\ Len(blob) \in Nat /\ CHUNK_SIZE \in Nat /\ CHUNK_SIZE # 0 /\ Len(todo) # 0
      /\ CHUNK_SIZE < MAX_MESSAGE_SIZE
    BY <1>1, BlobFacts, ResolverAssumption DEF TypeOK
<1>3. PICK found : \E reply \in WindowAnswers : Windows(found, reply)
    BY WindowReplies
<1>4. PICK reply \in WindowAnswers : Windows(found, reply)
    BY <1>3
<1> DEFINE ch == WindowChunks(reply)
           acc == Assemble(ch)
           last == WindowNone(reply) \/ acc.has_gap
           next == offset + Len(todo) * CHUNK_SIZE
<1>5. clean' = (clean /\ reply = WindowTruth) /\ EndOfWindow(last, acc, next)
    BY <1>4 DEF Windows
<1>6. CASE ~clean'
    BY <1>6 DEF Exact, Delivers
<1>7. CASE clean'
    <2>1. clean /\ reply = WindowTruth
        BY <1>5, <1>7
    <2>2. blob # <<>> /\ Begins(data) /\ Len(data) = Upto(offset)
        BY <1>1, <2>1 DEF Exact, ExactWindow
    <2>3. ASSUME NEW i \in 1 .. Len(todo)
          PROVE  ExactChunk(ch[i], WindowAt(i))
        <3> DEFINE a == WindowAt(i)
                   t == WindowTruth[todo[i]]
        <3>1. /\ a \in Nat
              /\ t = SentRange(handle_inbound_range_request(a, CHUNK_SIZE))
            BY <1>1, WindowTruthFacts
        <3>2. ch[i].offset = a /\ ch[i].data = t.data
            BY <2>1 DEF WindowChunks
        <3> HIDE DEF a, t, ch
        <3>3. /\ t.data \in Seq(Nat)
              /\ IF a < Len(blob)
                 THEN PartAt(t.data, a) /\ Len(t.data) = Rest(a, CHUNK_SIZE)
                 ELSE t = NoReply
            <4>1. /\ t.data \in Seq(Nat)
                  /\ CHUNK_SIZE < MAX_MESSAGE_SIZE =>
                        IF a < Len(blob)
                        THEN /\ t = Have(t.data) /\ PartAt(t.data, a)
                             /\ Len(t.data) = Rest(a, CHUNK_SIZE)
                        ELSE t = NoReply
                BY <1>2, <3>1, RangeTruth
            <4> QED
                BY <1>2, <4>1
        <3>4. NoReply.data = <<>>
            BY DEF NoReply
        <3>5. ExactChunk(ch[i], a)
            BY <3>2, <3>3, <3>4 DEF ExactChunk
        <3> QED
            BY <3>5 DEF a
    <2>4. DOMAIN ch = 1 .. Len(todo)
        BY DEF WindowChunks
    <2>5. WindowNone(reply) => ch[1].data = <<>> /\ WindowAt(1) = offset
        <3>1. 1 \in 1 .. Len(todo)
            BY <1>2
        <3>2. WindowAt(1) = offset
            BY <1>2 DEF WindowAt
        <3> QED
            BY <3>1, <3>2 DEF WindowNone
    <2> HIDE DEF ch
    <2>6. ExactAcc(acc, next)
        BY <1>2, <2>2, <2>3, <2>4, ExactAssemble
    <2> HIDE DEF acc, last, next
    <2>7. /\ acc.data \in Seq(Nat) /\ ~acc.has_gap /\ Begins(acc.data)
          /\ Len(acc.data) = Upto(next) /\ (acc.eof => Len(acc.data) = Len(blob))
          /\ Len(acc.data) \in Nat /\ Len(acc.data) <= Len(blob)
        BY <2>6 DEF ExactAcc, Accs, Begins
    <2>8. Len(acc.data) = Len(blob) => acc.data = blob
        BY <1>2, <2>7, WholeBegins
    <2>9. next \in Nat /\ offset <= next
        <3> DEFINE m == Len(todo) * CHUNK_SIZE
        <3>1. m \in Nat /\ next = offset + m
            BY <1>2 DEF next
        <3> HIDE DEF m
        <3> QED
            BY <1>2, <3>1
    <2>10. WindowNone(reply) => acc.data = blob
        <3> SUFFICES ASSUME WindowNone(reply) PROVE acc.data = blob
            OBVIOUS
        <3>1. ExactChunk(ch[1], offset) /\ ch[1].data = <<>>
            <4>1. 1 \in 1 .. Len(todo)
                BY <1>2
            <4> QED
                BY <2>3, <2>5, <4>1
        <3>2. ~(offset < Len(blob))
            <4> SUFFICES ASSUME offset < Len(blob) PROVE FALSE
                OBVIOUS
            <4>1. Len(<<>>) = Rest(offset, CHUNK_SIZE)
                BY <3>1 DEF ExactChunk
            <4>2. Len(<<>>) = 0
                OBVIOUS
            <4>3. Rest(offset, CHUNK_SIZE) > 0
                BY <1>2 DEF Rest
            <4> QED
                BY <4>1, <4>2, <4>3
        <3>3. Upto(next) = Len(blob)
            BY <1>2, <2>9, <3>2 DEF Upto
        <3> QED
            BY <2>7, <2>8, <3>3
    <2>11. last => WindowNone(reply)
        BY <2>7 DEF last
    <2>12. \/ acc.data = blob /\ finalize_l1_fetch(Head(todo), acc.data, "range_peers")
           \/ Len(acc.data) > MAX_TOTAL_SIZE /\ GiveUp("range_peers")
           \/ GoOn("window", todo, acc.data, next)
        BY <1>5, <2>2, <2>7, <2>8, <2>10, <2>11 DEF EndOfWindow
    <2>13. CASE acc.data = blob /\ finalize_l1_fetch(Head(todo), acc.data, "range_peers")
        <3>1. pc' = "done" /\ Unharmed
            BY <1>1, <2>13, BlobReturned
        <3> QED
            BY <1>1, <3>1 DEF Exact, ExactWindow, ExactRanges, Delivers
    <2>14. CASE Len(acc.data) > MAX_TOTAL_SIZE /\ GiveUp("range_peers")
        <3>1. pc' = "range_peers" /\ score' = score
            BY <2>14 DEF GiveUp
        <3>2. Unharmed
            BY <1>1, <3>1, NobodyScored
        <3>3. Len(blob) > MAX_TOTAL_SIZE
            BY <1>2, <2>7, <2>14, ResolverAssumption
        <3> QED
            BY <1>1, <3>1, <3>2, <3>3 DEF Exact, ExactWindow, ExactRanges, Delivers
    <2>15. CASE GoOn("window", todo, acc.data, next)
        <3>1. /\ pc' = "window" /\ score' = score /\ data' = acc.data /\ offset' = next
            BY <2>15 DEF GoOn
        <3>2. Unharmed
            BY <1>1, <3>1, NobodyScored
        <3>3. Begins(data)' /\ (Len(data) = Upto(offset))'
            BY <1>1, <2>7, <3>1 DEF Begins, Upto
        <3>4. (blob # <<>>)'
            BY <1>1, <2>2
        <3>5. Exact'
            BY <3>1, <3>3, <3>4 DEF Exact, ExactWindow, ExactRanges
        <3> QED
            BY <1>1, <3>1, <3>2, <3>5 DEF Delivers
    <2> QED
        BY <2>12, <2>13, <2>14, <2>15
<1> QED
    BY <1>6, <1>7

\* What a holder answers to a range of the serial fetch.
LEMMA HolderRange ==
    ASSUME TypeOK, NEW peer, NEW start \in Nat, NEW t, t = RangeAt(peer, start)[peer]
    PROVE  /\ t.data \in Seq(Nat) /\ Len(t.data) \in Nat /\ Len(blob) \in Nat
           /\ IF start < Len(blob)
              THEN PartAt(t.data, start) /\ Len(t.data) = Rest(start, RANGE_CHUNK)
              ELSE ~t.ok /\ t.data = <<>>
<1>1. /\ blob \in Seq(Nat) /\ Len(blob) \in Nat /\ RANGE_CHUNK \in Nat
      /\ RANGE_CHUNK < MAX_MESSAGE_SIZE
    BY BlobFacts, ResolverAssumption
<1>2. t = SentRange(handle_inbound_range_request(start, RANGE_CHUNK))
    BY DEF RangeAt
<1>3. /\ t.data \in Seq(Nat)
      /\ RANGE_CHUNK < MAX_MESSAGE_SIZE =>
            IF start < Len(blob)
            THEN /\ t = Have(t.data) /\ PartAt(t.data, start)
                 /\ Len(t.data) = Rest(start, RANGE_CHUNK)
            ELSE t = NoReply
    BY <1>1, <1>2, RangeTruth
<1>4. NoReply.data = <<>> /\ NoReply.ok = FALSE
    BY DEF NoReply
<1>5. Len(t.data) \in Nat
    BY <1>3
<1> QED
    BY <1>1, <1>3, <1>4, <1>5

\* A chunk that falls short ends the blob, a full one is followed by the next.
LEMMA ExactRange ==
    ASSUME TypeOK, NEW d \in Seq(Nat), Begins(d), NEW c \in Seq(Nat),
           IF Len(d) < Len(blob)
           THEN PartAt(c, Len(d)) /\ Len(c) = Rest(Len(d), RANGE_CHUNK)
           ELSE c = <<>>
    PROVE  /\ d \o c \in Seq(Nat) /\ Begins(d \o c)
           /\ Len(c) < RANGE_CHUNK => d \o c = blob
           /\ ~(Len(c) < RANGE_CHUNK) => Len(d \o c) = Len(d) + RANGE_CHUNK
<1>1. /\ blob \in Seq(Nat) /\ Len(blob) \in Nat /\ Len(d) \in Nat /\ Len(c) \in Nat
      /\ RANGE_CHUNK \in Nat /\ RANGE_CHUNK # 0 /\ Len(d) <= Len(blob)
    BY BlobFacts, ResolverAssumption DEF Begins
<1> DEFINE e == d \o c
<1>2. e \in Seq(Nat) /\ Len(e) = Len(d) + Len(c)
    BY ConcatFacts
<1>3. PartAt(c, Len(d))
    <2>1. CASE Len(d) < Len(blob)
        BY <2>1
    <2>2. CASE ~(Len(d) < Len(blob))
        <3>1. c = <<>> /\ Len(<<>>) = 0 /\ 1 .. 0 = {}
            BY <2>2
        <3> QED
            BY <1>1, <3>1 DEF PartAt
    <2> QED
        BY <2>1, <2>2
<1>4. Begins(e)
    BY <1>1, <1>3, BeginsConcat
<1> HIDE DEF e
<1>5. Len(c) < RANGE_CHUNK => Len(e) = Len(blob)
    <2>1. CASE Len(d) < Len(blob)
        BY <1>1, <1>2, <2>1 DEF Rest
    <2>2. CASE ~(Len(d) < Len(blob))
        <3>1. c = <<>> /\ Len(<<>>) = 0
            BY <2>2
        <3>2. Len(c) = 0
            BY <3>1
        <3> QED
            BY <1>1, <1>2, <2>2, <3>2
    <2> QED
        BY <2>1, <2>2
<1>6. ~(Len(c) < RANGE_CHUNK) => Len(c) = RANGE_CHUNK
    <2>1. CASE Len(d) < Len(blob)
        BY <1>1, <2>1 DEF Rest
    <2>2. CASE ~(Len(d) < Len(blob))
        <3>1. c = <<>> /\ Len(<<>>) = 0
            BY <2>2
        <3>2. Len(c) = 0
            BY <3>1
        <3> QED
            BY <1>1, <3>2
    <2> QED
        BY <2>1, <2>2
<1>7. Len(e) = Len(blob) => e = blob
    BY <1>1, <1>2, <1>4, WholeBegins
<1>8. /\ e \in Seq(Nat) /\ Begins(e)
      /\ Len(c) < RANGE_CHUNK => e = blob
      /\ ~(Len(c) < RANGE_CHUNK) => Len(e) = Len(d) + RANGE_CHUNK
    BY <1>2, <1>4, <1>5, <1>6, <1>7
<1> QED
    BY <1>8 DEF e

LEMMA FirstRangeDelivers ==
    ASSUME AInv, FirstRange
    PROVE  Exact' /\ Delivers
<1>1. TypeOK /\ pc = "range" /\ blob' = blob
    BY DEF AInv, FirstRange, request
<1> DEFINE peer == Head(todo)
<1> HIDE DEF peer
<1>2. \E found : \E reply \in RangeAnswers(peer, 0) :
          FirstRanges(peer, found, reply)
    BY RangeReplies DEF peer
<1>3. PICK found, reply : FirstRanges(peer, found, reply)
    BY <1>2
<1> DEFINE t == reply[peer]
           c == t.data
<1>4. /\ clean' = (reply = RangeAt(peer, 0))
      /\ \/ Skip("whole_peers")
         \/ t.ok /\ Len(c) < RANGE_CHUNK /\ finalize_l1_fetch(peer, c, "whole_peers")
         \/ t.ok /\ ~(Len(c) < RANGE_CHUNK) /\ GoOn("ranges", <<peer>>, c, RANGE_CHUNK)
    BY <1>3 DEF FirstRanges
<1>5. CASE ~clean'
    BY <1>5 DEF Exact, Delivers
<1>6. CASE clean'
    <2>1. t = RangeAt(peer, 0)[peer] /\ 0 \in Nat
        BY <1>4, <1>6
    <2> HIDE DEF t
    <2>2. /\ c \in Seq(Nat) /\ Len(c) \in Nat /\ Len(blob) \in Nat
          /\ IF 0 < Len(blob) THEN PartAt(c, 0) /\ Len(c) = Rest(0, RANGE_CHUNK)
                              ELSE ~t.ok /\ c = <<>>
        BY <1>1, <2>1, HolderRange
    <2>3. /\ Len(<<>>) = 0 /\ <<>> \in Seq(Nat) /\ Begins(<<>>)
        BY <1>1, NothingBegins
    <2> HIDE DEF c
    <2>4. /\ <<>> \o c \in Seq(Nat) /\ Begins(<<>> \o c)
          /\ Len(c) < RANGE_CHUNK => <<>> \o c = blob
          /\ ~(Len(c) < RANGE_CHUNK) => Len(<<>> \o c) = Len(<<>>) + RANGE_CHUNK
        <3>1. IF Len(<<>>) < Len(blob)
              THEN PartAt(c, Len(<<>>)) /\ Len(c) = Rest(Len(<<>>), RANGE_CHUNK)
              ELSE c = <<>>
            BY <2>2, <2>3
        <3> QED
            BY <1>1, <2>2, <2>3, <3>1, ExactRange
    <2>5. <<>> \o c = c
        BY <2>2
    <2>6. CASE Skip("whole_peers")
        <3>1. score' = score /\ pc' \in {"range", "whole_peers"}
            BY <1>1, <2>6 DEF Skip, GiveUp, GoOn
        <3> QED
            BY <1>1, <3>1, QuietDelivers
    <2>7. CASE Len(c) < RANGE_CHUNK /\ finalize_l1_fetch(peer, c, "whole_peers")
        <3>1. c = blob
            BY <2>4, <2>5, <2>7
        <3>2. pc' = "done" /\ Unharmed
            BY <1>1, <2>7, <3>1, BlobReturned
        <3> QED
            BY <1>1, <3>2 DEF Exact, ExactWindow, ExactRanges, Delivers
    <2>8. CASE ~(Len(c) < RANGE_CHUNK) /\ GoOn("ranges", <<peer>>, c, RANGE_CHUNK)
        <3>1. pc' = "ranges" /\ data' = c /\ offset' = RANGE_CHUNK /\ score' = score
            BY <2>8 DEF GoOn
        <3>2. Begins(c) /\ Len(c) = RANGE_CHUNK
            BY <2>3, <2>4, <2>5, <2>8, ResolverAssumption
        <3>3. Unharmed
            BY <1>1, <3>1, NobodyScored
        <3>4. Begins(data)' /\ (Len(data) = offset)'
            BY <1>1, <3>1, <3>2 DEF Begins
        <3> QED
            BY <1>1, <3>1, <3>3, <3>4 DEF Exact, ExactWindow, ExactRanges, Delivers
    <2> QED
        BY <1>4, <2>6, <2>7, <2>8 DEF c
<1> QED
    BY <1>5, <1>6

LEMMA NextRangeDelivers ==
    ASSUME AInv, Exact, NextRange
    PROVE  Exact' /\ Delivers
<1>1. TypeOK /\ pc = "ranges" /\ blob' = blob /\ offset \in Nat /\ data \in Seq(Nat)
    BY DEF AInv, NextRange, request, TypeOK
<1> DEFINE peer == Head(todo)
<1> HIDE DEF peer
<1>2. \E found : \E reply \in RangeAnswers(peer, offset) :
          NextRanges(peer, found, reply)
    BY RangeReplies DEF peer
<1>3. PICK found, reply : NextRanges(peer, found, reply)
    BY <1>2
<1> DEFINE t == reply[peer]
           c == t.data
           d == data \o c
<1>4. /\ clean' = (clean /\ reply = RangeAt(peer, offset))
      /\ \/ Len(c) < RANGE_CHUNK /\ finalize_l1_fetch(peer, d, "whole_peers")
         \/ ~(Len(c) < RANGE_CHUNK) /\ GoOn("ranges", todo, d, offset + RANGE_CHUNK)
    BY <1>3 DEF NextRanges
<1>5. CASE ~clean'
    BY <1>5 DEF Exact, Delivers
<1>6. CASE clean'
    <2>1. t = RangeAt(peer, offset)[peer] /\ clean
        BY <1>4, <1>6
    <2>2. Begins(data) /\ Len(data) = offset
        BY <1>1, <2>1 DEF Exact, ExactRanges
    <2> HIDE DEF t
    <2>3. /\ c \in Seq(Nat) /\ Len(c) \in Nat /\ Len(blob) \in Nat
          /\ IF offset < Len(blob)
             THEN PartAt(c, offset) /\ Len(c) = Rest(offset, RANGE_CHUNK)
             ELSE ~t.ok /\ c = <<>>
        BY <1>1, <2>1, HolderRange
    <2> HIDE DEF c
    <2>4. /\ d \in Seq(Nat) /\ Begins(d)
          /\ Len(c) < RANGE_CHUNK => d = blob
          /\ ~(Len(c) < RANGE_CHUNK) => Len(d) = offset + RANGE_CHUNK
        <3>1. IF Len(data) < Len(blob)
              THEN PartAt(c, Len(data)) /\ Len(c) = Rest(Len(data), RANGE_CHUNK)
              ELSE c = <<>>
            BY <2>2, <2>3
        <3>2. /\ d \in Seq(Nat) /\ Begins(d)
              /\ Len(c) < RANGE_CHUNK => d = blob
              /\ ~(Len(c) < RANGE_CHUNK) => Len(d) = Len(data) + RANGE_CHUNK
            BY <1>1, <2>2, <2>3, <3>1, ExactRange
        <3> QED
            BY <2>2, <3>2
    <2> HIDE DEF d
    <2>5. CASE Len(c) < RANGE_CHUNK /\ finalize_l1_fetch(peer, d, "whole_peers")
        <3>1. pc' = "done" /\ Unharmed
            BY <1>1, <2>4, <2>5, BlobReturned
        <3> QED
            BY <1>1, <3>1 DEF Exact, ExactWindow, ExactRanges, Delivers
    <2>6. CASE ~(Len(c) < RANGE_CHUNK) /\ GoOn("ranges", todo, d, offset + RANGE_CHUNK)
        <3>1. pc' = "ranges" /\ data' = d /\ offset' = offset + RANGE_CHUNK /\ score' = score
            BY <2>6 DEF GoOn
        <3>2. Unharmed
            BY <1>1, <3>1, NobodyScored
        <3>3. Begins(data)' /\ (Len(data) = offset)'
            BY <1>1, <2>4, <2>6, <3>1 DEF Begins
        <3> QED
            BY <1>1, <3>1, <3>2, <3>3 DEF Exact, ExactWindow, ExactRanges, Delivers
    <2> QED
        BY <1>4, <2>5, <2>6 DEF c, d
<1> QED
    BY <1>5, <1>6

\* A clean fetch of ranges that runs into the limit is of a blob that is too long.
LEMMA TooManyDelivers ==
    ASSUME AInv, Exact, TooManyChunks
    PROVE  Exact' /\ Delivers
<1>1. /\ TypeOK /\ pc = "ranges" /\ pc' = "whole_peers" /\ score' = score
      /\ clean' = clean /\ offset \in Nat /\ offset \div RANGE_CHUNK >= MAX_CHUNKS
    BY DEF AInv, TooManyChunks, GiveUp, history, TypeOK
<1>2. Unharmed
    BY <1>1, NobodyScored
<1>3. ASSUME clean PROVE Len(blob) >= MAX_CHUNKS * RANGE_CHUNK
    <2>1. offset <= Len(blob) /\ Len(blob) \in Nat
        BY <1>1, <1>3, BlobFacts DEF Exact, ExactRanges, Begins
    <2> DEFINE q == offset \div RANGE_CHUNK
    <2>2. RANGE_CHUNK \in Nat /\ RANGE_CHUNK > 0 /\ MAX_CHUNKS \in Nat
        BY ResolverAssumption
    <2>3. q \in Nat /\ q * RANGE_CHUNK <= offset
        BY <1>1, <2>2
    <2>4. q >= MAX_CHUNKS
        BY <1>1
    <2> HIDE DEF q
    <2>5. MAX_CHUNKS * RANGE_CHUNK <= q * RANGE_CHUNK
        BY <2>2, <2>3, <2>4
    <2>6. MAX_CHUNKS * RANGE_CHUNK \in Nat /\ q * RANGE_CHUNK \in Nat
        BY <2>2, <2>3
    <2> QED
        BY <1>1, <2>1, <2>3, <2>5, <2>6
<1> QED
    BY <1>1, <1>2, <1>3 DEF Exact, ExactWindow, ExactRanges, Delivers

\* A holder sends the whole blob, or nothing arrives because it is too long.
LEMMA HolderBlob ==
    ASSUME TypeOK, ShortBlobs
    PROVE  Sent(handle_inbound_request) =
               IF 5 + Len(blob) <= MAX_MESSAGE_SIZE THEN Have(blob) ELSE NoReply
<1>1. PICK n \in BlobLengths : blob = Bytes(n)
    BY DEF TypeOK
<1>2. n \in Nat
    BY ResolverAssumption
<1>3. blob \in Seq(Nat) /\ Len(blob) = n
    BY <1>1, <1>2 DEF Bytes
<1>4. 5 + Len(blob) < U32 /\ Len(blob) \in Nat
    BY <1>2, <1>3 DEF ShortBlobs
<1>5. CASE 5 + Len(blob) <= MAX_MESSAGE_SIZE
    BY <1>3, <1>5, ResponseArrives DEF handle_inbound_request
<1>6. CASE ~(5 + Len(blob) <= MAX_MESSAGE_SIZE)
    <2>1. MAX_MESSAGE_SIZE < 5 + Len(blob)
        BY <1>4, <1>6, WireAssumption
    <2>2. Sent(Have(blob)) = NoReply
        BY <1>3, <1>4, <2>1, LongResponseIsLost
    <2> QED
        BY <1>6, <2>2 DEF handle_inbound_request
<1> QED
    BY <1>5, <1>6

LEMMA FetchBlobDelivers ==
    ASSUME TypeOK, ShortBlobs, NEW peer, NEW next, next \notin {"window", "ranges"},
           pc \in {"whole", "fetch"}, NEW other, FetchBlob(peer, next, other),
           other => score' = score /\ pc' \notin {"window", "ranges"}
    PROVE  Exact' /\ Delivers
<1>1. PICK reply :
          /\ clean' = (reply = WholeTruth(peer))
          /\ IF reply[peer].ok
             THEN finalize_l1_fetch(peer, reply[peer].data, next)
             ELSE other
    BY Zenon DEF FetchBlob, WholeTruth
<1>2. WholeTruth(peer)[peer] =
          IF 5 + Len(blob) <= MAX_MESSAGE_SIZE THEN Have(blob) ELSE NoReply
    BY HolderBlob DEF WholeTruth
<1>3. /\ Have(blob).ok = TRUE /\ Have(blob).data = blob /\ NoReply.ok = FALSE
    BY DEF Have, NoReply
<1>4. pc' \notin {"window", "ranges"}
    BY <1>1 DEF finalize_l1_fetch
<1>5. Exact'
    BY <1>4 DEF Exact, ExactWindow, ExactRanges
<1>6. CASE ~clean'
    BY <1>5, <1>6 DEF Delivers
<1>7. CASE clean' /\ 5 + Len(blob) <= MAX_MESSAGE_SIZE
    <2>1. finalize_l1_fetch(peer, reply[peer].data, next) /\ reply[peer].data = blob
        BY <1>1, <1>2, <1>3, <1>7
    <2>2. pc' = "done" /\ Unharmed
        BY <2>1, BlobReturned
    <2> QED
        BY <1>5, <2>2 DEF Delivers
<1>8. CASE clean' /\ ~(5 + Len(blob) <= MAX_MESSAGE_SIZE)
    <2>1. other
        BY <1>1, <1>2, <1>3, <1>8
    <2>2. Unharmed
        BY <2>1, NobodyScored
    <2>3. 5 + Len(blob) > MAX_MESSAGE_SIZE
        BY <1>8, BlobFacts, WireAssumption
    <2> QED
        BY <1>5, <2>2, <2>3 DEF Delivers
<1> QED
    BY <1>6, <1>7, <1>8

\* Every step of a clean attempt.
LEMMA StepDelivers ==
    ASSUME AInv, Exact, ShortBlobs, Next
    PROVE  Exact' /\ Delivers
<1>1. TypeOK
    BY DEF AInv
<1>2. CASE L0Hit \/ L0Error \/ L0Miss
    <2>1. score' = score /\ pc = "resolve" /\ pc' \in {"done", "parallel", "walrus"}
        BY <1>2 DEF L0Hit, L0Error, L0Miss, Return
    <2> QED
        BY <1>1, <2>1, QuietDelivers
<1>3. CASE WalrusBlob \/ WalrusError
    <2>1. score' = score /\ pc = "walrus" /\ pc' = "done"
        BY <1>3 DEF WalrusBlob, WalrusError, Return
    <2> QED
        BY <1>1, <2>1, QuietDelivers
<1>4. CASE RangePeers \/ WholePeers
    <2>1. /\ score' = score /\ pc \in {"range_peers", "whole_peers"}
          /\ pc' \in {"range", "whole_peers", "whole", "find"}
        BY <1>4 DEF RangePeers, WholePeers, GetConnectedPeers, GiveUp, GoOn
    <2> QED
        BY <1>1, <2>1, QuietDelivers
<1>5. CASE FindProviders
    <2>1. score' = score /\ pc = "find" /\ pc' \in {"poll", "find", "walrus"}
        BY <1>5 DEF FindProviders, GiveUp, GoOn
    <2> QED
        BY <1>1, <2>1, QuietDelivers
<1>6. CASE Poll
    <2>1. score' = score /\ pc = "poll" /\ pc' \in {"fetch", "poll", "walrus"}
        BY <1>6 DEF Poll, GiveUp, GoOn
    <2> QED
        BY <1>1, <2>1, QuietDelivers
<1>7. CASE FetchDirect
    <2>1. pc = "whole" /\ FetchBlob(Head(todo), "find", Skip("find"))
        BY <1>7 DEF FetchDirect
    <2>2. Skip("find") => score' = score /\ pc' \notin {"window", "ranges"}
        BY <2>1 DEF Skip, GiveUp, GoOn
    <2> QED
        BY <1>1, <2>1, <2>2, FetchBlobDelivers
<1>8. CASE FetchFromProvider
    <2>1. pc = "fetch" /\ FetchBlob(Head(todo), "walrus", GiveUp("walrus"))
        BY <1>8 DEF FetchFromProvider
    <2>2. GiveUp("walrus") => score' = score /\ pc' \notin {"window", "ranges"}
        BY DEF GiveUp
    <2> QED
        BY <1>1, <2>1, <2>2, FetchBlobDelivers
<1> QED
    BY <1>2, <1>3, <1>4, <1>5, <1>6, <1>7, <1>8, ProbeDelivers, WindowDelivers,
       FirstRangeDelivers, NextRangeDelivers, TooManyDelivers DEF Next

\* An attempt in which every peer with the blob sent exactly the part it was
\* asked for delivers it, and puts nobody down for corruption: the attempt is
\* abandoned only for a blob that is larger than it accepts.
THEOREM CleanAttemptsAlwaysDeliver == ShortBlobs => (Spec => CleanAttemptsDeliver)
<1> SUFFICES ASSUME ShortBlobs PROVE Spec => CleanAttemptsDeliver
    OBVIOUS
<1>1. Init => Exact
    BY DEF Init, Exact, ExactWindow, ExactRanges
<1>2. AInv /\ Exact /\ [Next]_vars => Exact'
    <2> SUFFICES ASSUME AInv, Exact, [Next]_vars PROVE Exact'
        OBVIOUS
    <2>1. CASE UNCHANGED vars
        BY <2>1 DEF Exact, ExactWindow, ExactRanges, Begins, Upto, vars, request,
                    locals, history
    <2> QED
        BY <2>1, StepDelivers
<1>3. AInv /\ Exact /\ [Next]_vars =>
        [/\ \A p \in Peer : score'[p] < score[p] => ~clean'
         /\ (pc = "window" /\ pc' \notin {"window", "done"} /\ clean') =>
               Len(blob) > MAX_TOTAL_SIZE
         /\ (pc = "ranges" /\ pc' \notin {"ranges", "done"} /\ clean') =>
               Len(blob) >= MAX_CHUNKS * RANGE_CHUNK
         /\ (pc \in {"whole", "fetch"} /\ pc' # "done" /\ clean') =>
               5 + Len(blob) > MAX_MESSAGE_SIZE]_vars
    <2> SUFFICES ASSUME AInv, Exact, Next, clean'
                 PROVE  /\ Unharmed
                        /\ pc = "window" /\ pc' \notin {"window", "done"} =>
                               Len(blob) > MAX_TOTAL_SIZE
                        /\ pc = "ranges" /\ pc' \notin {"ranges", "done"} =>
                               Len(blob) >= MAX_CHUNKS * RANGE_CHUNK
                        /\ pc \in {"whole", "fetch"} /\ pc' # "done" =>
                               5 + Len(blob) > MAX_MESSAGE_SIZE
        BY Zenon DEF Unharmed
    <2> QED
        BY StepDelivers DEF Delivers
<1> QED
    BY <1>1, <1>2, <1>3, AttemptsInductive, PTL DEF Spec, CleanAttemptsDeliver

=============================================================================

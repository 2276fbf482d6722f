---------------------------- MODULE P2pAnnounce ----------------------------
(***************************************************************************)
(* How a node makes itself known through its event loop (p2p/node.rs): the *)
(* provider records of the blobs it caches, and the records with its Sui   *)
(* address and vault.                                                      *)
(*                                                                         *)
(* Kademlia is external: start_providing and put_record store a record     *)
(* locally and start a query, which ends with a result; an ADD_PROVIDER is *)
(* fire-and-forget.  The node is a server of the DHT itself: its local     *)
(* MemoryStore also holds the provider records of other peers, which come, *)
(* expire and share its limit, so it may be full at any time.  The rest of *)
(* the DHT is represented by the bootstrap peer, whose MemoryStore is lost *)
(* when it restarts.  The node sees its connections close only some time   *)
(* after that.                                                             *)
(***************************************************************************)
EXTENDS Integers, Sequences, FiniteSets, SequencesExt

CONSTANTS
    Blob,         \* blob ids, numbers in key order
    Boot, Other,  \* the bootstrap peer, and another peer
    Record,       \* the records to publish: the Sui address, the vault
    MaxProvided,  \* max_provided_keys of the local MemoryStore (1024)
    MaxConns,     \* a bound: connections to each of them at a time
    MaxQueue      \* a bound: announcements queued while offline

ASSUME AnnounceAssumption ==
    /\ Blob \subseteq Nat /\ IsFiniteSet(Blob)
    /\ Boot # Other
    /\ {MaxProvided, MaxQueue} \subseteq Nat \ {0}
    /\ MaxConns \in [{Boot, Other} -> Nat \ {0}]

VARIABLES
    store,              \* the blobs in the cache (kept by RocksDB)
    untold,             \* history: blobs of the cache that were put but not
                        \* announced since: their request is still evicting,
                        \* has failed or was dropped
    channel,            \* the blobs with an AnnounceBlob under way
    conns,              \* open connections to each peer, as the swarm sees it
    bootstrap_done,     \* kad.bootstrap() has been started
    published,          \* sui_addr_published, vault_published
    pending_announces,  \* announcements made while offline
    announce_retried,   \* blobs whose announcement was repeated
    provided,           \* libp2p: local provider records of this node
    adding,             \* libp2p: blobs with a start_providing query
    putting,            \* libp2p: records with a put_record query
    remote,             \* the records the bootstrap peer's MemoryStore holds
    alive,              \* connections the bootstrap peer knows of too
    tried,              \* history: blobs whose query was started while online
    offered,            \* history: the same, with the bootstrap peer since it
                        \* last restarted
    announced,          \* history: blobs announced since the process started
    refused,            \* history: blobs the full local store turned away when
                        \* they were last announced
    lost                \* history: the bootstrap peer has restarted since this
                        \* process bootstrapped from it

node == <<bootstrap_done, published, pending_announces, announce_retried,
          provided, adding, putting, tried, offered, announced,
          refused, lost>>
vars == <<store, untold, channel, conns, remote, alive, node>>

TypeOK ==
    /\ store \subseteq Blob /\ untold \subseteq store /\ channel \subseteq Blob
    /\ conns \in [{Boot, Other} -> Nat]
    /\ \A p \in {Boot, Other} : conns[p] <= MaxConns[p]
    /\ bootstrap_done \in BOOLEAN /\ lost \in BOOLEAN
    /\ published \subseteq Record /\ putting \subseteq Record
    /\ pending_announces \in Seq(Blob) /\ Len(pending_announces) <= MaxQueue
    /\ provided \subseteq Blob /\ Cardinality(provided) <= MaxProvided
    /\ announce_retried \subseteq provided /\ adding \subseteq provided
    /\ remote \subseteq Record
    /\ alive \in 0 .. conns[Boot]
    /\ tried \subseteq provided /\ offered \subseteq tried /\ announced \subseteq Blob
    /\ refused \subseteq Blob \ provided

Online == \E p \in {Boot, Other} : conns[p] > 0

\* BlobStore::list_blob_ids: the blobs of the cache in key order.
list_blob_ids ==
    CHOOSE ids \in [1 .. Cardinality(store) -> store] :
        \A i, j \in DOMAIN ids : i < j => ids[i] < ids[j]

-----------------------------------------------------------------------------
(* Kademlia.                                                               *)

\* What the local MemoryStore may hold after it was offered provider records
\* for some blobs: the ones it had, and those of the new ones that found it
\* with room.
AddProviders(blobs) ==
    {records \in SUBSET (provided \cup blobs) :
        provided \subseteq records /\ Cardinality(records) <= MaxProvided}

\* kad.start_providing for each of a sequence of blobs; `online` and `boot`
\* say whether the query finds a peer, and the bootstrap peer.  An error is
\* logged.
start_providing(blobs, online, boot) ==
    \E records \in AddProviders(ToSet(blobs)) :
        LET begun == ToSet(blobs) \cap records
        IN  /\ provided' = records
            /\ adding' = adding \cup begun
            /\ tried' = IF online THEN tried \cup begun ELSE tried
            /\ offered' = IF boot THEN offered \cup begun ELSE offered
            /\ refused' = (refused \cup ToSet(blobs)) \ records

\* StartProviding(Ok): the announcement is repeated once per blob.  (Its
\* ADD_PROVIDERs have reached the bootstrap peer or not; nobody is told.)
StartProvidingOk(b) ==
    /\ b \in adding
    /\ IF b \notin announce_retried
       THEN /\ announce_retried' = announce_retried \cup {b}
            /\ start_providing(<<b>>, Online, alive > 0)
       ELSE /\ adding' = adding \ {b}
            /\ UNCHANGED <<announce_retried, provided, tried, offered, refused>>
    /\ UNCHANGED <<store, untold, channel, conns, remote, alive, bootstrap_done,
                   published, pending_announces, putting, announced, lost>>

\* StartProviding(Err): logged.
StartProvidingErr(b) ==
    /\ b \in adding
    /\ adding' = adding \ {b}
    /\ UNCHANGED <<store, untold, channel, conns, remote, alive, bootstrap_done,
                   published, pending_announces, announce_retried, provided,
                   putting, tried, offered, announced, refused, lost>>

\* Kademlia repeats its local provider records from time to time.
RepublishProviders ==
    /\ ~(provided \subseteq adding)
    /\ adding' = provided
    /\ tried' = IF Online THEN provided ELSE tried
    /\ offered' = IF alive > 0 THEN provided ELSE offered
    /\ UNCHANGED <<store, untold, channel, conns, remote, alive, bootstrap_done,
                   published, pending_announces, announce_retried, provided,
                   putting, announced, refused, lost>>

\* publish_sui_addr_record, publish_vault_record: kad.put_record.
publish(records) == putting' = putting \cup records

\* PutRecord(Ok), PutRecord(Err): the record has reached the bootstrap peer or
\* not.
PutRecordEnds(r, sent) ==
    /\ r \in putting
    /\ putting' = putting \ {r}
    /\ sent => alive > 0
    /\ remote' = IF sent THEN remote \cup {r} ELSE remote
    /\ UNCHANGED <<store, untold, channel, conns, alive, bootstrap_done,
                   published, pending_announces, announce_retried, provided,
                   adding, tried, offered, announced, refused, lost>>

-----------------------------------------------------------------------------
(* The event loop.                                                         *)

\* Mutant: the queue is not used.
AnnounceBlobUnqueued(b) ==
    /\ b \in channel
    /\ channel' = channel \ {b}
    /\ start_providing(<<b>>, Online, alive > 0)
    /\ announced' = announced \cup {b}
    /\ UNCHANGED <<store, untold, conns, remote, alive, bootstrap_done,
                   published, announce_retried, putting, lost,
                   pending_announces>>

\* Command AnnounceBlob: with nobody connected the query finds no peer, so
\* the blob is queued for the next connection.
AnnounceBlob(b) ==
    /\ b \in channel
    /\ Len(pending_announces) < MaxQueue
    /\ channel' = channel \ {b}
    /\ start_providing(<<b>>, Online, alive > 0)
    /\ pending_announces' = IF Online THEN pending_announces
                            ELSE Append(pending_announces, b)
    /\ announced' = announced \cup {b}
    /\ UNCHANGED <<store, untold, conns, remote, alive, bootstrap_done,
                   published, announce_retried, putting, lost>>

\* Mutant: nothing is announced again when the bootstrap peer is back.
ReannouncedNever(p, listed) == <<>>

\* The bootstrap peer is connected again.
Reconnected(p) == p = Boot /\ bootstrap_done

\* What a connection to p announces: the whole cache when the bootstrap peer
\* is connected again (it may have lost its provider records), if the store
\* can be listed.
Reannounced(p, listed) ==
    IF Reconnected(p) /\ listed THEN list_blob_ids ELSE <<>>

\* SwarmEvent::ConnectionEstablished.  The first one publishes the records,
\* the first one of the bootstrap peer bootstraps (its address has just been
\* added to the routing table, so kad.bootstrap() succeeds), and every one
\* flushes the queue.
ConnectionEstablished(p, listed) ==
    /\ conns[p] < MaxConns[p]
    /\ conns' = [conns EXCEPT ![p] = @ + 1]
    /\ alive' = IF p = Boot THEN alive + 1 ELSE alive
    /\ publish(Record \ published)
    /\ published' = Record
    /\ bootstrap_done' = (bootstrap_done \/ p = Boot)
    /\ start_providing(Reannounced(p, listed) \o pending_announces, TRUE, alive' > 0)
    /\ pending_announces' = <<>>
    /\ untold' = IF Reconnected(p) THEN (IF listed THEN {} ELSE store) ELSE untold
    /\ UNCHANGED <<store, channel, remote, announce_retried, announced,
                   lost>>

\* SwarmEvent::ConnectionClosed: logged.  Of several connections to the
\* bootstrap peer a dead one or a live one may close.
ConnectionClosed(p) ==
    /\ conns[p] > 0
    /\ conns' = [conns EXCEPT ![p] = @ - 1]
    /\ IF p = Boot
       THEN \/ alive > 0 /\ alive' = alive - 1
            \/ alive < conns[Boot] /\ UNCHANGED alive
       ELSE UNCHANGED alive
    /\ UNCHANGED <<store, untold, channel, remote, node>>

\* Mutant: a record that was published is not published again.
RepublishTickOnce ==
    /\ ~(Record \subseteq putting \cup published)
    /\ publish(Record \ published)
    /\ UNCHANGED <<store, untold, channel, conns, remote, alive, bootstrap_done,
                   published, pending_announces, announce_retried, provided,
                   adding, tried, offered, announced, refused, lost>>

\* The hourly republish_sui_interval.
RepublishTick ==
    /\ ~(Record \subseteq putting)
    /\ publish(Record)
    /\ UNCHANGED <<store, untold, channel, conns, remote, alive, bootstrap_done,
                   published, pending_announces, announce_retried, provided,
                   adding, tried, offered, announced, refused, lost>>

-----------------------------------------------------------------------------
(* The rest of the node, and the bootstrap peer.                           *)

\* A request puts the blob; the eviction is still to come, and may fail.
Put(b) ==
    /\ b \notin store
    /\ store' = store \cup {b}
    /\ untold' = untold \cup {b}
    /\ UNCHANGED <<channel, conns, remote, alive, node>>

\* A request returns with the blob, which it found or has stored (unless the
\* write failed or the blob is gone again), and sends AnnounceBlob.  One that
\* fails after its put or is dropped sends nothing.
SendAnnounce(b) ==
    /\ b \notin channel
    /\ channel' = channel \cup {b}
    /\ untold' = untold \ {b}
    /\ UNCHANGED <<store, conns, remote, alive, node>>

\* The blob is evicted or deleted; its provider record stays.
Evict(b) ==
    /\ b \in store
    /\ store' = store \ {b}
    /\ untold' = untold \ {b}
    /\ UNCHANGED <<channel, conns, remote, alive, node>>

\* Mutant: the blobs already repeated are remembered across a restart.
NodeRestartsRemembering ==
    /\ conns' = [p \in {Boot, Other} |-> 0]
    /\ alive' = 0
    /\ channel' = {}
    /\ bootstrap_done' = FALSE
    /\ published' = {}
    /\ pending_announces' = <<>>
    /\ UNCHANGED announce_retried
    /\ provided' = {}
    /\ adding' = {}
    /\ putting' = {}
    /\ tried' = {}
    /\ offered' = {}
    /\ announced' = {}
    /\ refused' = {}
    /\ lost' = FALSE
    /\ UNCHANGED <<store, untold, remote>>

\* The node's process stops and starts again, with the cache it had.
NodeRestarts ==
    /\ conns' = [p \in {Boot, Other} |-> 0]
    /\ alive' = 0
    /\ channel' = {}
    /\ bootstrap_done' = FALSE
    /\ published' = {}
    /\ pending_announces' = <<>>
    /\ announce_retried' = {}
    /\ provided' = {}
    /\ adding' = {}
    /\ putting' = {}
    /\ tried' = {}
    /\ offered' = {}
    /\ announced' = {}
    /\ refused' = {}
    /\ lost' = FALSE
    /\ UNCHANGED <<store, untold, remote>>

BootRestarts ==
    /\ remote' = {}
    /\ alive' = 0
    /\ offered' = {}
    /\ lost' = bootstrap_done
    /\ UNCHANGED <<store, untold, channel, conns, bootstrap_done, published,
                   pending_announces, announce_retried, provided,
                   adding, putting, tried, announced, refused>>

-----------------------------------------------------------------------------

Init ==
    /\ store = {}
    /\ untold = {}
    /\ remote = {}
    /\ conns = [p \in {Boot, Other} |-> 0]
    /\ alive = 0
    /\ channel = {}
    /\ bootstrap_done = FALSE
    /\ published = {}
    /\ pending_announces = <<>>
    /\ announce_retried = {}
    /\ provided = {}
    /\ adding = {}
    /\ putting = {}
    /\ tried = {}
    /\ offered = {}
    /\ announced = {}
    /\ refused = {}
    /\ lost = FALSE

Next ==
    \/ \E b \in Blob :
        \/ Put(b) \/ SendAnnounce(b) \/ Evict(b) \/ AnnounceBlob(b)
        \/ StartProvidingErr(b) \/ StartProvidingOk(b)
    \/ \E r \in Record, sent \in BOOLEAN : PutRecordEnds(r, sent)
    \/ \E p \in {Boot, Other} :
        \/ ConnectionClosed(p)
        \/ \E listed \in BOOLEAN : ConnectionEstablished(p, listed)
    \/ RepublishTick \/ RepublishProviders
    \/ NodeRestarts \/ BootRestarts

\* The timers of the event loop and of Kademlia fire, commands are taken,
\* queries end, and a query that is repeated for ever while the bootstrap
\* peer is there reaches it.
Fairness ==
    /\ WF_vars(RepublishTick)
    /\ WF_vars(RepublishProviders)
    /\ \A b \in Blob : WF_vars(AnnounceBlob(b))
    /\ \A r \in Record : SF_vars(PutRecordEnds(r, TRUE))

Spec == Init /\ [][Next]_vars /\ Fairness

-----------------------------------------------------------------------------
(* Properties.                                                             *)

\* An announcement is never lost on the way to the network, however
\* connections come and go around it: its query has been started while
\* somebody was connected, or it is queued, or the local store was full.
AnnouncementsKept ==
    \A b \in announced :
        b \in tried \/ b \in ToSet(pending_announces) \/ b \in refused

\* Once this process is connected again to a bootstrap peer that has lost
\* its records, every blob that was in the cache then or was announced since
\* has been announced to it anew, also the ones that an earlier process
\* cached and the ones announced into a connection that was already dead.
\* Excepted are the blobs of `untold`, which a request has put since and not
\* announced, and those that the full local store turned away.
ReannouncedAfterLoss ==
    (lost /\ alive > 0)
    => \A b \in store \ untold : b \in offered \/ b \in channel \/ b \in refused

\* While the bootstrap peer stays connected, it gets the node's Sui address
\* and vault id, however many publications were lost.
RecordsPublished ==
    <>[](alive > 0) => \A r \in Record : <>[](r \in remote)

=============================================================================

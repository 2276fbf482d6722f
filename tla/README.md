# A verification project for zing-cdn

zing-cdn is a peer-to-peer edge cache for Walrus blobs: nodes cache blobs in
RocksDB, find and fetch them from each other over libp2p, and pay for them in
WAL through Sui Move contracts, where delegators back a peer's vault and share
its earnings. This directory holds TLA+ models of the core of that system, the
TLC configurations that check them and TLAPS proofs of the main results.
Paths below are relative to the repository; `core/` stands for
`zing-cdn/zing-cdn-core/src/`.

## 1. Inventory

| Component | Source | State | Operations |
|---|---|---|---|
| Peer vault | `contracts/zing_cdn/sources/peer_vault.move`, `utils.move` | reserves, shares, earnings, certificates, registry | create_vault, new_vault, add_vault, delegate, undelegate, collect_rewards, claim_earnings |
| Settlement | `contracts/zing_cdn/sources/settlement.move` | read price | pay, compute_fee, set_read_price |
| Staking | `contracts/zing_cdn/sources/staking.move` | registry, peers, bonds | register, update_peer_id, add_stake, unstake, slash, deactivate |
| Blob store | `core/cache/store.rs` | RocksDB column families `blobs`, `metadata`, `pins` | put, get, delete, list_blob_ids (key order), blob_size, total_size |
| Pinning | `core/cache/pinning.rs` | the `pins` column family | pin, unpin, is_pinned, list_pinned |
| Eviction | `core/cache/eviction.rs` | budget | run: total, list, per-id pin test and size, deletes in key order until under budget |
| Resolver | `core/mesh/resolver.rs` | per request; address caches | resolve: L0 cache, L1 (parallel ranges, serial ranges, whole blob, DHT + dial + whole blob), L3 Walrus; a payment before every fetch; verify, put, evict |
| Reputation | `core/mesh/reputation.rs` | score per peer | record_success/corruption/dropped/false_claim, decay, blacklist test |
| P2P event loop | `core/p2p/node.rs`, `behaviour.rs` | pending tables, announce queue, bootstrap and publish flags, peer addresses | 14 commands, swarm events, hourly republish |
| Inbound handler | `core/p2p/handler.rs` | unpaid request counter | blob, range, sliver requests; spot check of unpaid requests |
| Codecs | `core/p2p/protocol.rs` | none | length-prefixed framing with a limit for the reader |
| Wallet | `core/sui/wallet.rs`, `settlement.rs` | keypair, payment counter | pay_wal with synthetic fallback, register/ensure, update of the peer id, create vault, delegate, undelegate, claim, listings |
| Desktop app | `zing-cdn/zing-cdn-gui` | list of bootstrap peers and `peers.json`; the panel of the blob browser | add and remove a peer, fetch a blob over an event stream, the calls of the staking panel |
| HTTP API, CLI | `zing-cdn/zing-cdn/src` | the list of peers | drive the parts above |

**Interaction.** HTTP handlers, CLI commands and desktop commands run as tokio
tasks. They share the store, the pins and the eviction manager, each behind a
tokio `RwLock`, and talk to the one event-loop task through a bounded channel of
`P2pCommand`s; commands that want an answer carry a oneshot sender, which the
loop keeps in a pending table until libp2p reports the query. The event loop
reads the store itself, to serve peers and to announce the cache. A resolver is
built per request and calls the event loop, the store, the eviction manager and
the wallet; the wallet submits transactions to the Move contracts, whose shared
objects Sui serialises. The desktop app is a web view that talks to its own
HTTP server, with an `EventSource` for the progress of a fetch.

**Where it is hard.** (a) Eviction is many RocksDB calls with no lock that keeps
out puts, pins and deletes. (b) The store lock is fair and is held in places
across calls to the event loop, which takes the same lock. A client that
disconnects drops its handler at whatever it waits for. (c) Ids repeat across
protocols, queries report more than once, callers time out. (d) Announcements
are fire-and-forget, connections die before the swarm notices, both ends restart
and keep different things. (e) Vault arithmetic rounds, and its sequence of
transactions is anybody's. (f) Ranges from several peers fail one by one, and
each was paid for. (g) A wallet call reads, simulates, sends and waits, and the
chain moves in between; it never reads the status of the execution. (h) Handlers
change a list under a lock and write it to a file without one, by a write that
truncates first. (i) An `EventSource` connects again by itself, and each
connection resolves the blob again. The hazards are listed line by line in `PROJECT.json`.

**What correct means.** Vault: shares are backed, vaults solvent, certificates
redeemable and never diluted. Cache: within budget when quiet, pins respected,
requests return. Lock and channel: no wait cycle. Calls: every call gets its own
answer, once. Announcements: none lost, and the DHT learns of the cache again
after a loss. Resolver: it answers with the blob or an error, stores nothing
else, joins ranges without gaps and reports the payees it could not look up.
Staking: one object per address, bonds leave for their owner or the admin only.
Wallet: success means done, WAL is conserved. Desktop app: answered changes
survive a restart, the panel tells the truth, a blob is not resolved again
without need.

## 2. Modules

Every definition carries, through the `map` of `PROJECT.json`, the source lines
it stands for. Each `MC*` module instantiates one specification for TLC. The
operators whose comment begins with "Mutant" are deliberately wrong variants,
kept beside the definition they vary: each shows that a property notices the bug.

### PeerVault

State: the `PeerVault` objects, the `ShareCertificate` objects, the registry
table and the WAL of each address. A Move transaction runs to its end or
changes nothing, so there is one action per entry function, and every assertion,
overflow and overdraft is a guard. `SharesFor`, `RedeemValue` and `Commission`
are the three uses of `mul_div`, which is translated with its split division.
`settlement::pay` is the action that calls `collect_rewards`; certificates have
`store`, so their owners transfer them.

### BlobCache

State: the ids in `blobs` and in `pins`, a program counter per request, the
queue at the eviction lock and the locals of the run that holds it. Blob ids are
numbers in RocksDB's key order; the id fixes the size, since it is a hash of the
data. `EvictionManager::run` is split at every RocksDB access (`SumOne`,
`ListCandidates`, `ScanOne`, `DeleteOne`, ...) with its error exits
(`ScanError`, and `StoreError` for a RocksDB call that fails), the wrapping
subtraction of a release build (`DeleteOne`) and the panic of a debug build
(`DeletePanics`). Both fetch paths, layers 1 and 3, put and then evict; axum
drops a request whose client is gone at any of its awaits, after the put and in
the queue of the eviction lock too (`Cancel`, `CancelQueued`), but not in a run,
which awaits nothing. `pin_blob`, `unpin_blob` and `delete_blob` come in at any
step; `Restart` drops everything but RocksDB. `held` and `lapsed` are history:
the second records an eviction that was due and was dropped, failed or cut off,
until the next run begins.

### StoreLock

State: a program counter per task, the FIFO queue and the holders of the store's
`RwLock`, and the command channel. It keeps only who waits for whom: the event
loop waits for the lock in a handler (`LoopEvent`, `LoopServes`), `get_dashboard`
sends and awaits with the read guard in scope, the streaming handler announces
with it, writers put or delete in a block of their own and announce after it.
Tasks that read the store and await nothing with the guard (layer 0, the
listings) are left out: they get their turn and give it back, which delays the
others and blocks nobody.

### P2pCalls

State: the pending tables of the event loop, libp2p's running queries with their
ids (one numbering per behaviour; Kademlia's for all its queries), and per call
whether it waits, was answered and by which query, or has given up. One action
per command that carries a reply and one per event arm; the reports of a
Kademlia query that come before its last are separate from it. What an answer
contains is left out, whose it is, is kept.

### P2pAnnounce

State: the cache, announcements under way, connections as the swarm sees them
and as the bootstrap peer does, the loop's flags and queue, libp2p's local
provider records and running queries, and what the bootstrap peer's MemoryStore
holds. A request's put (`Put`) and its announcement (`SendAnnounce`) are two
steps, with the eviction in between: the second need not come. `untold` is the
history of the blobs put and not announced since. `ConnectionEstablished` is the
whole handler: publish, bootstrap or announce the cache again, if it can be
listed, flush the queue. Either process restarts at any time. The DHT is
represented by the bootstrap peer. The node is a server of the DHT as well: other
peers' provider records come and expire in its own store and share the limit, so
that an announcement may find it full at any time (`AddProviders`); `refused` is
the history of that.

### Resolver and BlobFetch

State: the request's blob, where `resolve` is, the peers still to be tried, what
the attempt has put together, the address cache, the reputation table, the
store's entry and the result. One action per round of requests: `Probe` and
`Window` (parallel ranges), `FirstRange` and `NextRange` (serial ranges),
`FetchDirect`, `FindProviders`, `Poll` and `FetchFromProvider` (whole blob), and
the layers 0 and 3. The rounds of the parallel fetch await all their replies
together, so a round is one step; `Take` is the loop over its chunks. A blob is
a sequence of distinct units, so that verification is equality. A peer's honest
answer is the inbound handler's (`handle_inbound_range_request`); any reply may
be missing, and a faulty peer also sends other bytes, or the blob's own from the
place asked for, fewer or more than asked (`Lengths`). The list of connected
peers and a DHT answer may be any list. `clean` and `unlocated` are history. Of
a payment only the lookup of the payee's address can fail: `pay_wal` answers
with a synthetic proof whatever happens on chain. A reply goes through the codec
of its protocol (module Wire: `Sent`, `SentRange`), so that a blob above the
message limit does not arrive as a whole. `BlobFetch` is the abstract
specification: one answer, the blob or an error, and only the blob in the store;
`FetchImplemented` is its `Spec` under the mapping in `Resolver`.

### Wire

No state. A response is written as a frame (the declared length in a u32, a
status byte, the data) and read with the checks of the reader: length within
`MAX_MESSAGE_SIZE`, the two lengths of the data protocol equal, as many bytes as
declared.

### Staking

State: `Registry.peers`, the shared `Peer` objects, the owner of the `AdminCap`
and the WAL of each address. One action per entry function, as in PeerVault.

### Wallet

It composes Staking and PeerVault (by INSTANCE, on one ledger) with the calls of
`ZingWallet`. A call goes through the steps of its code: look up over RPC
(`ensure_peer_registered`, `update_peer_id_call`, `claim_earnings_call`,
`pay_lookup`), build, which simulates, and send (`SendOrFail`), and wait
(`Answered`). The transaction is on its own: it executes or aborts (`Execute`) or is
lost (`DropTx`), before or after its call has given up. `World` are the
transactions of the other addresses and of the admin; a fault is a failed RPC, a
listing that misses an entry, a timeout or a lost transaction. `SharedVersionRight`
is Sui's rule for shared objects with the one version of `SettlementConfig`, `NewCert`
its rule that the id of a burned certificate does not come back. `met` is history.

### PeerList

State: the list in memory, the bytes of `peers.json`, the requests with the copy
each is to save, the command channel, the event loop's routing table and
connections. `SendCommand` and `PollAnswered` are `peers_add` up to the change;
`Copy`, `OpenFile` and `WriteFile` are the handler's saving, of which `fs::write` is
two steps, since it truncates first. The app and the event loop stop at any
point, a client goes (`Cancel`, which cannot be between `OpenFile` and `WriteFile`:
there is no await in it), a write fails. `newest`, `written` and `spoilt` are
history.

### BlobBrowser

State: the signals of the panel, the `EventSource` of each fetch, the server's task
for each connection with its undelivered events, and the cache. The task is
`resolve_blob_with_progress`, split where it awaits; one that fails may have
stored the blob before; `OnMessage` is the handler of
the web view. Connecting again is the browser's. `extra`, `served` and `overlap`
are history.

### The proof modules

`PeerVaultProofs`, `WalletProofs` (with the proofs of Staking, which Wallet
extends), `ResolverProofs` (with the facts about `Wire` it rests on),
`PeerListProofs` and `BlobBrowserProofs` extend one specification each with its
TLAPS proofs; `P2pProofs` has those of the two sides of the event loop, P2pCalls and
P2pAnnounce, and `StoreProofs` those of the store's lock and of what is in it,
StoreLock and BlobCache (section 4). `DataFacts` are the facts about numbers,
sequences and sums they share. So that two specifications can be extended at once,
the definitions of P2pCalls and StoreLock that every specification has bear its
name (`CallsSpec`, `LockSpec`, ...).

## 3. Runs

| Run | Expect | Shows |
|---|---|---|
| `vault_safety` | pass | `SharesBacked`, `Solvent`, `AlwaysRedeemable`, `NoRoundTripProfit`, `NeverDiluted` |
| `wallet_safety` | pass | `SuccessMeansDone`, `RegistryExact`, `EstimatesExact`, `BondsLeaveRightly`, `WalConserved` |
| `wallet_claim` | violation | the earnings of a vault made by `create_vault` cannot be claimed |
| `cache_safety` | pass | `QuiescentWithinBudget`, `HeldPinsSurvive`, `RequestsReturn` |
| `cache_wrap` | violation | a put between `total_size` and the list makes the total wrap, and the run empties a cache within its budget |
| `lock_progress` | pass | `OnlyStall`, `WritersProgress` |
| `lock_dashboard` | violation | `get_dashboard`, a writer and the event loop wait for each other |
| `p2p_calls` | pass | `AnswersMatch`, `NoOrphans`, `CallsReturn` |
| `p2p_announce` | pass | `AnnouncementsKept`, `ReannouncedAfterLoss`, `RecordsPublished` |
| `resolver_safety` | pass | `AssemblyIsPrefix`, `LookupErrorsReported`, `CleanAttemptsDeliver`, `FetchImplemented` |
| `peers` | pass | `ListDialable`, `AnsweredSurvives`, `RequestsAnswered` |
| `browser` | pass | `ResolvedAgainOnlyAfterLoss`, `PanelHonest`, `FetchesEnd` |

Each passing run also checks its module's `TypeOK` (`CallsTypeOK`,
`LockTypeOK`). `lock_progress` and `lock_dashboard` turn the deadlock check off:
the wait cycle that `lock_dashboard` exhibits is a deadlock of the model as it
is of the program, and `OnlyStall` says there is no other. `resolver_safety`,
`wallet_safety`, `wallet_claim`, `peers` and `browser` turn it off because the
bounded number of requests, calls or clicks is used up, or the process has
stopped; that none of them is left waiting, save the fetch of a blob that makes
`detect_mime` panic, is what `RequestsAnswered` and `FetchesEnd` say in `peers`
and `browser`. In the other runs deadlock is checked.

### Bounds

* `vault_*`: two vaults and two certificates (one to be hurt, one to hurt it),
  6 WAL of which the largest u64 holds 5, so that overflow is reached; a whole is
  4 basis points, so that commissions round, and 5 is an invalid commission.
  Vault and certificate ids are symmetric. The theorems have no bounds.
* `cache_*`: three blobs of sizes 4, 2, 1 under a budget of 2; two requests, so
  that one puts while the other's run is on; one blob the user pins and
  deletes (the others stay unpinned); 16 for 2^64, so that subtraction wraps.
* `lock_*`: one task of each kind and a second writer; the channel holds one
  command (`lock_progress`), or more than there are senders (`lock_dashboard`:
  the cycle does not need a full channel).
* `p2p_calls`: three calls, so that two share a table and one a numbering.
* `resolver_*`: chunks of 2, ranges of 4 and limits of 8 units, with blobs of
  0, 3 (a short second chunk), 4 (a multiple of both), 8 (both limits) and 9
  units; three peers, one faulty, of which two are probed. The code's constants
  have the same ratios at the limits (512 MiB is 2048 ranges of 256 KiB).
  One retry and two polls stand for 3 and 30. A message holds 9 units, so that
  blobs of 3 and 4 fit into one with their head and those of 8 and 9 do not; the
  u32 is larger than any blob.
* `p2p_announce`: two blobs and room for one provider record; two connections
  to the bootstrap peer, so that a dead one is open beside a live one, and one to
  the other peer; one record and a queue of one.
* `wallet_*`: this wallet and one other address, two calls (a retry, or two of
  different kinds), one transaction of the rest of the world and one fault, on a
  chain with a vault, earnings, a certificate and, or not, registered peers. One
  fault and one foreign transaction suffice for each of the cases the hazards
  name; the proofs of Staking and PeerVault have no bounds.
* `peers`: two requests, two addresses of peers and one text that is none, two
  polls for 15, a channel of one, one fault.
* `browser`: two fetches, one lost connection, three blobs: a text, a RIFF of 11
  bytes, and an id that does not parse.

### Fairness

* BlobCache: tokio polls ready tasks and hands the lock on in order; every
  fetch has a timeout. Weak fairness on each request and on the run. None on
  dropped requests and failing calls.
* StoreLock: weak fairness on whoever holds or heads the lock. Strong fairness
  on taking commands, since `select!` chooses at random among ready branches, and
  on sending, since tokio's channel serves waiting senders in order.
* P2pCalls: weak fairness on the last event of every query: requests time out
  after 30 or 10 seconds (`behaviour.rs`), Kademlia queries too. None on reports
  that may not come, nor on the callers' timeouts.
* Resolver: weak fairness on the request's next step: every await in it has a
  timeout, or is answered by the event loop (P2pCalls).
* PeerList: weak fairness on every handler and on the event loop, which the
  runtime polls when they are ready. None on requests, faults and restarts.
* BlobBrowser: weak fairness on the browser's connecting and delivering and on
  each task: `Resolver::resolve` returns (`FetchImplemented`) and the channel of
  the events is unbounded. None on clicks and lost connections.
* Wallet: none, it has no liveness property.
* P2pAnnounce: weak fairness on the timers of the loop and of Kademlia and on
  taking commands; strong fairness on the delivery of the node's own records: what
  is repeated for ever while the bootstrap peer is connected arrives at last. None
  on connections, announcements of requests and restarts.

## 4. Proofs

`PeerVaultProofs` proves, for any set of addresses, vaults and certificates,
any width of the integers and any whole (`ConstantsAssumption`):

* `MulDivIsFloor`: the split division of `utils.move` is the floor of `a*b/c`.
* `TypeCorrect`, `SharesAreBacked`, `VaultsAreSolvent`, `Redeemability`,
  `PaymentsAlwaysSplit`: `Spec => []` of the five state invariants.
* `NoRoundTripGain` and `CertificatesNeverDiluted`: the two properties that make
  the vault fair.

The argument. None of the invariants is inductive alone. That a redemption does
not overdraw the reserves needs `shares <= total_shares` for each certificate,
which is `SharesBacked` (a certificate's shares are among the vault's) together
with finiteness of the set of shares (`FiniteUnits`; without it cardinalities
say nothing). That `delegate` does not divide by zero needs `Solvent`; that
`Solvent` survives a redemption needs the floor, and that certificates are
positive (`Positive`). That payments split needs the bound on the commission
(`BoundedCommission`). `IInv` is the conjunction, and `Inductive` proves it with
one lemma per action. Shares are counted as a set of (certificate, index) pairs,
`ShareUnits`, so that minting and burning are disjoint unions and no sum over a
function is needed. `NeverDiluted` rests on `RateMono`: if the rate
reserves/total_shares does not fall, neither does the floor of a certificate's
value; each action keeps the rate (`KeepsRate`), by cross-multiplication and the
bounds `MulDivBound` gives on the floor.

`WalletProofs` proves, first, `RegistryStaysExact` and `BondsAreSafe` of Staking
alone, for any addresses, objects, amounts and `MIN_STAKE`. `RegistryExact` is
inductive with the types (`SInv`): only `register` writes the table, for an
address that is not in it and with a new object (`RegisterKeeps`); the other
functions change an object and keep its owner (`UpdateFacts`). The types are
needed because the bonds are subtracted from.

Then it proves `SuccessIsDone`, `EstimatesAreExact`, the types, and the two
properties of Staking again for the wallet on its chain, for any addresses, objects,
calls, faults and transactions of others (`WalletAssumption`). The invariant `WInv`
has three parts. `ChainInv` is the invariants of both contracts: the lemmas of
`PeerVaultProofs` are used through an instance, one per entry function, and the
assumptions of PeerVault are shown to hold. It is needed because success means done
only as a redemption and a payment cannot abort once their inputs are there
(`AlwaysRuns`, from `Redeems` and `Splits`). `TxFits` ties a call to the transaction
it sent. `TxTells` is the heart: what the simulation and the execution of a
transaction tell of the chain. A registration that was simulated found the address
unregistered, so if it aborts, another call of this wallet registered it, with the
current peer id; a claim that was simulated found earnings, which nobody else can
take, so if it aborts while its call waits, they were paid since. These facts must
survive every step of the chain (`ChainKept`: a registration stays, a vault's
earnings go to its owner only, the id of a certificate does not come back), which
is one lemma per transaction. Without `NewCert` the invariant fails: a certificate
minted under the id of a burned one would make a late redemption abort.
`EstimatesExact` follows from `MulDivIsFloor` and the uniqueness of the floor.

`WalIsConserved` proves `WalConserved`. `TotalWal` is three sums over finite sets
(addresses and object ids are 32 bytes). Each transaction moves WAL between one
address and one vault (`WithVault`), or one address and one bond (`WithPeer`), and
a sum changes by what its one summand does (`SumChange`). `WInv` is needed for the
amounts: the coins are there when a transaction executes, however late
(`InputsLive`), and what a redemption pays and a payment splits off are naturals
within the reserves and the coin.

`ResolverProofs` proves, for any finite set of peers, faulty or not, any blobs and
any limits with chunks shorter than a message (`ResolverAssumption`; the code has
64 KiB and 256 KiB against 64 MiB):

* `ResponseArrives`, `RangeArrives`, `LongResponseIsLost`: what the codecs deliver
  and what they lose, for every length that fits into the u32.
* `OnlyTheBlobIsStored`: the invariant that there is no result before the end and
  nothing but the blob in the store. It is inductive as it stands.
* `ResolveImplementsFetch`: the safety part of `FetchImplemented`. The lemma
  `StepShape` shows that a step leaves result and store alone or returns; a peer's
  data gets into either only through `finalize_l1_fetch` (`FinalizeShape`). The
  invariant is needed to see that a step that returns is the first to do so.
* `LookupErrorsAreReported`, from the agreement of the carried error with the
  history of lookups (`ErrorKept`), one case per action.
* `ResolverTypeCorrect` and `RangesMakePrefix`, from the invariant `AInv`. That the
  data of an attempt is a beginning of the blob does not follow from the types:
  a window must ask each peer for one chunk (`OneChunkEach`), or two answers would
  be joined in one place, and there must be somebody to ask (`AsksSomeone`), or the
  chunks' length would be a division by zero. `Sound` says of any data, a fold over
  chunks included, that a foreign unit is in it or it is a beginning of the blob.
  The windows test for gaps, so their data is always sound. The serial fetch does
  not: its data is never behind the offset (`RangeInStep`), and is sound while it
  is not ahead of it (`SoundInStep`); a range that is too long puts it ahead for
  the rest of the attempt (`GoOnInStep`).
* `CleanAttemptsAlwaysDeliver`: all clauses of `CleanAttemptsDeliver`. A beginning is
  not enough here: while nobody in the attempt misbehaved, the data is the *whole*
  blob up to the offset (`Exact`). It is proved for `ShortBlobs`, blobs whose length
  with the head of a message fits into the u32. That is the limit of the code, not
  of the proof: the length field of a longer one wraps and a holder's honest
  answer is cut. The instance of the run satisfies it.

`P2pProofs` proves `AnswersGoHome`, `NoReplyLeftBehind` and the types for any
finite set of callers. `AnswersMatch` needs to know of what is not answered yet:
the ids of a behaviour are fresh and unique (`IdsFresh`, `IdsUnique`), each pending
entry has the running query it awaits, of its behaviour and with its kind of
record (`EntriesLive`), and each waiting caller has one entry
(`EntryUnique`, `EntryThere`). The three tables of Kademlia share their ids:
`IdsUnique` over the behaviour, not the table, is what keeps them apart.

It proves `NoAnnouncementLost` and `CacheReannounced` for any finite
cache and any positive limits. The invariants hold together with `LossKnown`: only
a process past its bootstrap can have seen a loss, which is when a new connection
announces the cache again. The rest is by set reasoning: each blob offered to the
local store is among its records or refused, and an announcement takes a blob out
of `untold`.

`StoreProofs` proves `LockExclusive` and `OneStall` for any number of dashboards,
streams and writers and any channel size. The invariant ties lock and channel to
the positions of the tasks: the queue holds exactly the tasks that wait, once each
(`QueueExact`), the guards are those of the tasks inside (`ReadGuards`,
`WriteGuards`), and a reply is owed exactly where a task waits for one
(`RepliesDue`). Without the last, a stalled loop could be waited for by nobody.

It proves `PinsSurvive` and `BudgetKept` of BlobCache for any finite set of
blobs, any sizes and budget and any number of requests. `HeldPinsSurvive` needs
that no candidate of a run has been pinned throughout it (`NoHeldCandidate`).
`QuiescentWithinBudget` is about what a run may be mistaken in. While another
request is due to run (`Pending`: it has put its blob, or waits for the lock)
nothing is claimed, since that run will repair whatever this one leaves; nor is
anything after a request that was due was dropped (`lapsed`), until the next run
begins. While none is and none was, nothing has been put since the run began,
and its total is the sum of the sizes of a set of blobs that contains the store
(`Accounted`); what it has passed over is pinned, unless an unpin is on record.
So the total does not wrap (`SumOneKeeps`), the subtraction neither wraps nor
panics (`DeleteOneKeeps`, `PanicKeeps`), and at its end the cache is in order
(`Settled`). The wrap that `cache_wrap` exhibits happens only in runs with
somebody behind them, who may have been dropped since. The proof assumes that
the blobs have fewer than 2^64 bytes together (`DiskAssumption`).

`PeerListProofs` proves `EntriesDialable` and `AnsweredPeersSurvive` for any addresses,
requests and faults. `Good` (an address once, each of a peer) must hold of the
list, the file and every copy a request took, as each can become the list. That
answered changes survive is a statement about who may still be missing: a list
copied as number n misses only the changes of requests that have not copied the
list yet, or copied it later and have not written it (`Fresh`), for every copy and,
while no save failed or overlapped, for the file (`CopiesFresh`, `FileFresh`,
`SoleWriter`).

`BlobBrowserProofs` proves `PaidAgainOnlyAfterLoss` and `PanelTellsTruth` for any blobs,
fetches and losses. A fetch counts one connection while it is open
(`ConnectionsCounted`) and is closed exactly when its end was delivered
(`ServedClosed`); `InOrder` and `OneAtATime` say that, without an overlap on record,
an earlier fetch is closed before a later one starts, so the panel can show the
data of none but the last. `OutFits` bounds the events under way by where the task
is, for the types.

Assumptions. Each specification names those of its constants in one `ASSUME`; all
are facts about the build (sizes are positive, kinds of tasks are disjoint, sets
are finite), and TLC evaluates them on every run.

Induction over data. The library's induction theorems take an operator as a
parameter and cannot be used. `DataFacts` proves induction for *sets* of
naturals instead (`Smallest`, `SetInduction`, from the well-foundedness of `<`).
Where a fold over a sequence matters (chunks that are joined, the list without
an address), it is shown that the fold's recursive function exists and satisfies
its equations (`FoldExists`, `ThoseExists`, `TakeExists`), and `SetInduction` is
applied to the set of the lengths for which the claim holds. A sum over a finite
set is the number of its units, n for a summand of n (`SumIsUnits`): the fold's
function exists, since counting satisfies its equation, and there is no other,
by induction on the cardinality.

Only model-checked: the liveness of `FetchImplemented` and the liveness properties
(`RequestsReturn`, `WritersProgress`, `CallsReturn`, `RecordsPublished`,
`RequestsAnswered`, `FetchesEnd`), which are out of the prover's reach. Every other
property of a passing run is a theorem.

## 5. Known disagreements without a run

The models contain these behaviours, but no run is spent on them:

* `eviction.rs:39`: a blob pinned between the pin test of a run and its delete is
  evicted, against "pinned blobs are skipped by LRU eviction"
  (`zing-cdn/README.md:88`).
* `eviction.rs:35`: eviction goes in key order; nothing records use, against
  "500 MB LRU budget" (`zing-cdn/README.md:146`).
* `node.rs:479`: after a restart of the process the first connection to the
  bootstrap peer announces nothing of the cache, against the mesh design's
  "Permanent L1 seeder".
* `resolver.rs:591`: when a range is missing or corrupted, the first working peer
  is put down for corruption, whoever failed; the mesh design gives -3 for
  corrupted data and -1 for a dropped connection.
* `api_http.rs:117`, `http.rs:404`: `detect_mime` panics on a RIFF of 9 to 11 bytes,
  and the stream ends with neither of the `result` and `error` events that
  `docs/api.md` lists; the browser then connects again for ever.
* `wallet.rs:120`: a payment that fails on chain is replaced by a synthetic proof,
  so `payment_error` stays empty, against "If payment failed during fetch (e.g.
  insufficient WAL balance)" (`docs/api.md:50`). The only failure it can report is
  the lookup of the payee's address (`LookupErrorsReported`), and that only of the
  attempt that made the lookup.
* `resolver.rs:642`, `669`: a request that is dropped between its put and its
  eviction, or whose eviction fails, can leave the cache idle above its budget
  (`zing-cdn/README.md:146`) until the next blob is fetched. `QuiescentWithinBudget`
  excepts it.
* `resolver.rs:669`: a request that fails or is dropped after its put stores a blob
  that is announced only when it is requested again or the bootstrap peer
  reconnects. `ReannouncedAfterLoss` excepts it.
* `resolver.rs:384`, `425`: the serial fetch accepts a range that is longer than
  asked for and still advances by `RANGE_CHUNK`, so it joins overlapping ranges. The
  hash of the whole turns the data down (`FetchImplemented`), after all of it was
  fetched and paid for. `AssemblyIsPrefix` excepts it.
* `wallet.rs:494`: a payee whose vault is not listed is paid into the vault of
  the payer's own configuration.

## 6. Not modelled

The Walrus client and verifier (erasure coding and hashing), Sui queries that are
only shown, keys, argument parsing and views. Of the codecs, requests (fixed
size), the sliver protocol (no caller) and the address protocol. The metadata
column family and `discovery.rs` are not used by the program. In P2pCalls the
addresses known of peers, and in P2pAnnounce several bootstrap peers, are
abstracted; so is in Wire a length beyond a u32. `compute_fee` and the views of the
contracts have no state; the price is not used by `pay`. `list_all_peers` and the
balance are read by nothing that decides.

## 7. Plan

1. *Done*: PeerVault, Resolver, Staking, Wire, Wallet, StoreLock, P2pCalls,
   P2pAnnounce, PeerList, BlobBrowser and BlobCache with their proofs.
2. **Inbound handler**: range bounds with the width of `usize`, the spot check
   of unpaid requests.
3. **Payments**: what is paid in all over the attempts of a request.
4. Composition: resolver, handler and event loop of two nodes; BlobCache shown
   to implement an abstract cache.

------------------------------ MODULE Wallet -------------------------------
(***************************************************************************)
(* The wallet of zing-cdn-core/src/sui/wallet.rs with the transaction      *)
(* builders of settlement.rs, on the chain of staking.move (Staking) and   *)
(* peer_vault.move (PeerVault).                                            *)
(*                                                                         *)
(* A call reads the chain over RPC, builds a transaction (the builder      *)
(* simulates it and fails if it would abort), sends it, and waits 60       *)
(* seconds for the checkpoint.  Between these steps the chain moves: by    *)
(* other calls of this wallet (a second click, a retry, the server's       *)
(* start-up) and by other addresses.  A transaction that was simulated may *)
(* abort when it executes, and the code reads the digest of the answer and *)
(* never the execution status; a call that was answered with an error may  *)
(* have left a transaction that still executes.                            *)
(***************************************************************************)
EXTENDS Staking, FiniteSetsExt

CONSTANTS
    VaultId, CertId, U64_MAX, BPS, DEFAULT_COMMISSION, Commissions,
                  \* the constants of PeerVault
    Me,           \* the address of this wallet
    MyPeerId,     \* the peer id derived from the wallet's seed
    ConfigVault,  \* SettlementConfig.vault_object_id
    Amount,       \* the WAL of a delegation or payment
    MaxCalls, MaxWorld, MaxFaults  \* bounds

VARIABLES
    vaults, certs, registry,  \* the chain state of PeerVault
    configured,  \* ZingWallet.settlement is Some
    call,        \* the wallet calls, in the order they are made
    tx,          \* the transaction each call sent
    met,         \* history: what the call is for has been done on chain
    world,       \* transactions of other addresses so far
    faults       \* RPC faults so far

V == INSTANCE PeerVault

ASSUME WalletAssumption ==
    /\ U64_MAX \in Nat /\ BPS \in V!U64 \ {0} /\ DEFAULT_COMMISSION \in 0 .. BPS
    /\ Commissions \subseteq V!U64
    /\ InitialWal \in [Addr -> V!U64]
    /\ Me \in Addr /\ MyPeerId \in PeerId /\ ConfigVault \in VaultId
    /\ Amount \in V!U64 \ {0}
    \* addresses and object ids are 32 bytes
    /\ IsFiniteSet(Addr) /\ IsFiniteSet(PeerObj) /\ IsFiniteSet(VaultId)
    /\ MaxCalls \in Nat /\ MaxWorld \in Nat /\ MaxFaults \in Nat

vaultVars == <<vaults, certs, registry>>
peerVars  == <<peers, objects, cap>>
chainVars == <<vaultVars, peerVars, wallet>>
boundVars == <<configured, world, faults>>
vars      == <<chainVars, call, tx, met, boundVars>>

CallId == 1 .. MaxCalls
Others == Addr \ {Me}
None   == "none"

Ops == {"register", "update", "ensure", "create_vault", "claim",
        "delegate", "undelegate", "pay"}

\* A call: what is asked, on which vault, certificate or payee, and how far
\* it is: ensure_peer_registered looks first ("check"), then it goes on as
\* an update ("lookup") or a registration ("build").
Calls == [op: Ops \cup {None}, arg: VaultId \cup CertId \cup Addr \cup {None},
          pc: {"idle", "check", "lookup", "build", "wait",
               "ok", "err", "synthetic"}]

\* A transaction: the Move function, its object arguments, the WAL it takes.
Txs == [fn: {None, "register", "update_peer_id", "new_vault",
             "claim_earnings", "delegate", "undelegate", "pay"},
        obj: VaultId \cup PeerObj \cup {None}, cert: CertId \cup {None},
        wal: Nat,
        status: {None, "sent", "applied", "aborted", "dropped"}]

TypeOK ==
    /\ StakingTypeOK
    /\ V!TypeOK
    /\ configured \in BOOLEAN
    /\ call \in [CallId -> Calls]
    /\ tx \in [CallId -> Txs]
    /\ met \in [CallId -> BOOLEAN]
    /\ world \in 0 .. MaxWorld
    /\ faults \in 0 .. MaxFaults

-----------------------------------------------------------------------------
(* The transaction builders of settlement.rs: one Move call each.  All     *)
(* vault arguments are given with the one configured                       *)
(* vault_initial_shared_version.                                           *)

Tx(fn, obj, cert, wal) ==
    [fn |-> fn, obj |-> obj, cert |-> cert, wal |-> wal, status |-> "sent"]

build_register_transaction(bond)      == Tx("register", None, None, bond)
build_update_peer_id_transaction(o)   == Tx("update_peer_id", o, None, 0)
build_create_vault_transaction        == Tx("new_vault", None, None, 0)
build_claim_earnings_transaction(v)   == Tx("claim_earnings", v, None, 0)
build_delegate_transaction(v, amount) == Tx("delegate", v, None, amount)
build_undelegate_transaction(v, c)    == Tx("undelegate", v, c, 0)
build_pay_transaction(v, amount)      == Tx("pay", v, None, amount)

\* Sui accepts a shared object only with the version it was shared at.  The
\* configured version is that of ConfigVault.  A vault made by new_vault is
\* shared later than the PeerVaultRegistry itself, which the configuration
\* puts after ConfigVault.
SharedVersionRight(x) ==
    x.obj \in VaultId => x.obj = ConfigVault

\* Mutant: the coins are not looked at.
InputsLive_uncovered(x) ==
    /\ SharedVersionRight(x)
    /\ x.fn = "undelegate" => /\ x.cert \in DOMAIN certs
                              /\ certs[x.cert].owner = Me

\* The objects a transaction takes exist and belong to the sender.
InputsLive(x) ==
    /\ wallet[Me] >= x.wal
    /\ SharedVersionRight(x)
    /\ x.fn = "undelegate" => /\ x.cert \in DOMAIN certs
                              /\ certs[x.cert].owner = Me

\* The Move call runs to its end in the present state of the chain.
Runs(x) ==
    CASE x.fn = "register"       -> register_ok(Me, x.wal)
      [] x.fn = "update_peer_id" -> objects[x.obj].sui_address = Me
      [] x.fn = "new_vault"      -> Me \notin DOMAIN registry
      [] x.fn = "claim_earnings" ->
            /\ vaults[x.obj].peer_address = Me
            /\ vaults[x.obj].peer_earnings > 0
      [] x.fn = "delegate"       ->
            /\ V!SharesFor_ok(vaults[x.obj], x.wal)
            /\ V!SharesFor(vaults[x.obj], x.wal) > 0
      [] x.fn = "undelegate"     ->
            V!Redeemable(x.obj, vaults[x.obj], certs[x.cert])
      [] x.fn = "pay"            -> V!collect_rewards_ok(vaults[x.obj], x.wal)

\* Sui never gives an id twice: a new certificate is none that a transaction
\* was built for.
NewCert == {c \in CertId : \A k \in CallId : tx[k].cert # c}

\* What the Move call does.
Move(x) ==
    \/ /\ x.fn = "register"
       /\ \E o \in PeerObj : register(Me, MyPeerId, x.wal, o)
       /\ UNCHANGED vaultVars
    \/ /\ x.fn = "update_peer_id"
       /\ update_peer_id(Me, x.obj, MyPeerId)
       /\ UNCHANGED vaultVars
    \/ /\ x.fn = "new_vault"
       /\ \E v \in VaultId : V!new_vault(v, Me)
       /\ UNCHANGED peerVars
    \/ /\ x.fn = "claim_earnings"
       /\ V!claim_earnings(Me, x.obj)
       /\ UNCHANGED peerVars
    \/ /\ x.fn = "delegate"
       /\ \E c \in NewCert : V!delegate(Me, x.obj, x.wal, c)
       /\ UNCHANGED peerVars
    \/ /\ x.fn = "undelegate"
       /\ V!undelegate(Me, x.obj, x.cert)
       /\ UNCHANGED peerVars
    \/ /\ x.fn = "pay"
       /\ V!pay(Me, x.obj, x.wal)
       /\ UNCHANGED peerVars

-----------------------------------------------------------------------------
(* Steps of a call.                                                        *)

\* pay_wal never fails: without an on-chain payment it hashes a synthetic
\* proof.  Every other call returns the error.
Failure(c) == IF call[c].op = "pay" THEN "synthetic" ELSE "err"

Goto(c, pc) == call' = [call EXCEPT ![c].pc = pc]

\* The RPC of this step fails.
Fault == faults < MaxFaults /\ faults' = faults + 1
NoFault == UNCHANGED faults

\* One of the calls is made.  Without a settlement configuration nothing is
\* sent: registration and update report success, a payment is synthetic, the
\* other calls fail.
FirstStep(op) ==
    CASE op \in {"register", "create_vault", "delegate"} -> "build"
      [] op = "ensure"                                   -> "check"
      [] OTHER                                           -> "lookup"

WithoutSettlement(op) ==
    CASE op \in {"register", "update", "ensure"} -> "ok"
      [] op = "pay"                              -> "synthetic"
      [] OTHER                                   -> "err"

Start(c, op, arg) ==
    /\ call[c].pc = "idle"
    /\ c > 1 => call[c - 1].pc # "idle"
    /\ call' = [call EXCEPT ![c] =
                   [op |-> op, arg |-> arg,
                    pc |-> IF configured THEN FirstStep(op)
                                         ELSE WithoutSettlement(op)]]
    /\ UNCHANGED <<chainVars, tx, met, boundVars>>

\* The requests of the HTTP API and of the desktop app.
handle_register(c)      == Start(c, "register", None)
handle_update_peer_id(c) == Start(c, "update", None)
handle_create_vault(c)  == Start(c, "create_vault", None)
handle_claim_earnings(c) == Start(c, "claim", None)
handle_delegate(c)      == \E v \in DOMAIN vaults : Start(c, "delegate", v)
handle_undelegate(c)    == \E k \in CertId : Start(c, "undelegate", k)

\* The server registers its peer when it starts.
AutoRegister(c) == configured /\ Start(c, "ensure", None)

\* The resolver pays the address a peer published.
PayPeer(c) == \E payee \in Others : Start(c, "pay", payee)

\* A listing of a registry skips the entries whose page failed: the entry of
\* an address is found, or it is missed by a fault.
Listed(table, a, found) ==
    \/ found = (a \in DOMAIN table) /\ NoFault
    \/ ~found /\ a \in DOMAIN table /\ Fault

get_registered_peer_info(found) == Listed(peers, Me, found)
list_peer_vaults(a, found)      == Listed(registry, a, found)
get_my_vault_info(found)        == list_peer_vaults(Me, found)

\* The build fails, or the transaction is simulated, signed and sent.
SendOrFail(c, x) ==
    /\ \/ /\ InputsLive(x) /\ Runs(x)
          /\ Goto(c, "wait")
          /\ tx' = [tx EXCEPT ![c] = x]
          /\ NoFault
       \/ /\ ~(InputsLive(x) /\ Runs(x))
          /\ Goto(c, Failure(c))
          /\ NoFault /\ UNCHANGED tx
       \/ /\ Goto(c, Failure(c))
          /\ Fault /\ UNCHANGED tx
    /\ UNCHANGED <<chainVars, met, configured, world>>

\* A deactivated peer counts as unregistered.
check_peer_active(o) == objects[o].is_active

is_peer_registered(registered) ==
    \E found \in BOOLEAN :
        /\ Listed(peers, Me, found)
        /\ registered = (found /\ check_peer_active(peers[Me]))

\* Mutant: after a failed lookup nothing is done and success is reported.
ensure_peer_registered_lenient(c) ==
    /\ call[c].pc = "check"
    /\ \/ \E registered \in BOOLEAN :
            /\ is_peer_registered(registered)
            /\ Goto(c, IF registered THEN "lookup" ELSE "build")
       \/ Fault /\ Goto(c, "ok")
    /\ UNCHANGED <<chainVars, tx, met, configured, world>>

\* ensure_peer_registered: registered goes on as an update, and everything
\* else, an error of the lookup included, as a registration.
ensure_peer_registered(c) ==
    /\ call[c].pc = "check"
    /\ \/ \E registered \in BOOLEAN :
            /\ is_peer_registered(registered)
            /\ Goto(c, IF registered THEN "lookup" ELSE "build")
       \/ Fault /\ Goto(c, "build")
    /\ UNCHANGED <<chainVars, tx, met, configured, world>>

\* The wallet bonds exactly the minimum.
register_peer(c) ==
    /\ call[c].op \in {"register", "ensure"} /\ call[c].pc = "build"
    /\ SendOrFail(c, build_register_transaction(MIN_STAKE))

\* update_peer_id: nothing is sent when the registered id is the current
\* one.  (The object it found is kept until the transaction is built: an
\* address never gets another one, RegistryExact.)
update_peer_id_call(c) ==
    /\ call[c].op \in {"update", "ensure"} /\ call[c].pc = "lookup"
    /\ \/ \E found \in BOOLEAN :
            /\ get_registered_peer_info(found)
            /\ \/ ~found /\ Goto(c, "err") /\ UNCHANGED tx
               \/ /\ found /\ objects[peers[Me]].peer_id = MyPeerId
                  /\ Goto(c, "ok") /\ UNCHANGED tx
               \/ /\ found /\ objects[peers[Me]].peer_id # MyPeerId
                  /\ Goto(c, "wait")
                  /\ tx' = [tx EXCEPT ![c] =
                              build_update_peer_id_transaction(peers[Me])]
       \/ Fault /\ Goto(c, "err") /\ UNCHANGED tx
    /\ UNCHANGED <<chainVars, met, configured, world>>

create_vault_call(c) ==
    /\ call[c].op = "create_vault" /\ call[c].pc = "build"
    /\ SendOrFail(c, build_create_vault_transaction)

\* get_my_vault_info, then the transaction.
claim_earnings_call(c) ==
    /\ call[c].op = "claim" /\ call[c].pc = "lookup"
    /\ \E found \in BOOLEAN :
        /\ get_my_vault_info(found)
        /\ IF found THEN call' = [call EXCEPT ![c].pc = "build",
                                              ![c].arg = registry[Me]]
                    ELSE Goto(c, "err")
    /\ UNCHANGED <<chainVars, tx, met, configured, world>>

claim_earnings_send(c) ==
    /\ call[c].op = "claim" /\ call[c].pc = "build"
    /\ SendOrFail(c, build_claim_earnings_transaction(call[c].arg))

delegate_call(c) ==
    /\ call[c].op = "delegate" /\ call[c].pc = "build"
    /\ SendOrFail(c, build_delegate_transaction(call[c].arg, Amount))

\* The certificate is read for its vault, version and digest: once burned
\* or transferred it cannot be an input any more.
undelegate_call(c) ==
    /\ call[c].op = "undelegate" /\ call[c].pc = "lookup"
    /\ IF call[c].arg \in DOMAIN certs
       THEN SendOrFail(c, build_undelegate_transaction(
                              certs[call[c].arg].vault_id, call[c].arg))
       ELSE /\ Goto(c, "err")
            /\ UNCHANGED <<chainVars, tx, met, boundVars>>

\* The vault of the payee, or the configured one if the payee's is not in
\* the listing.
get_vault_for_recipient(payee, found) ==
    IF found THEN registry[payee] ELSE ConfigVault

\* pay_wal and try_onchain_pay: a failure of any step is a synthetic proof.
pay_lookup(c) ==
    /\ call[c].op = "pay" /\ call[c].pc = "lookup"
    /\ \/ \E found \in BOOLEAN :
            /\ list_peer_vaults(call[c].arg, found)
            /\ call' = [call EXCEPT
                          ![c].pc = "build",
                          ![c].arg = get_vault_for_recipient(@, found)]
       \/ Fault /\ Goto(c, "synthetic")
    /\ UNCHANGED <<chainVars, tx, met, configured, world>>

try_onchain_pay(c) ==
    /\ call[c].op = "pay" /\ call[c].pc = "build"
    /\ SendOrFail(c, build_pay_transaction(call[c].arg, Amount))

Step(c) ==
    \/ handle_register(c) \/ handle_update_peer_id(c) \/ handle_create_vault(c)
    \/ handle_claim_earnings(c) \/ handle_delegate(c) \/ handle_undelegate(c)
    \/ AutoRegister(c) \/ PayPeer(c)
    \/ ensure_peer_registered(c) \/ register_peer(c) \/ update_peer_id_call(c)
    \/ create_vault_call(c) \/ claim_earnings_call(c) \/ claim_earnings_send(c)
    \/ delegate_call(c) \/ undelegate_call(c)
    \/ pay_lookup(c) \/ try_onchain_pay(c)

-----------------------------------------------------------------------------
(* The certificates the app shows, with the value each is estimated at.    *)

\* Mutant: the estimate is rounded up.
estimated_value_up(vault, shares) ==
    IF vault.total_shares > 0
    THEN (shares * vault.reserves + vault.total_shares - 1)
            \div vault.total_shares
    ELSE 0

estimated_value(vault, shares) ==
    IF vault.total_shares > 0
    THEN (shares * vault.reserves) \div vault.total_shares
    ELSE 0

\* The vaults list_peer_vaults returns: a vault nobody registered is not
\* among them, and its certificates are shown as worth nothing.
ListedVaults == {registry[a] : a \in DOMAIN registry}

list_my_share_certificates ==
    {[cert |-> c,
      value |-> LET v == certs[c].vault_id
                IN  IF v \in ListedVaults
                    THEN estimated_value(vaults[v], certs[c].shares) ELSE 0] :
        c \in {x \in DOMAIN certs : certs[x].owner = Me}}

-----------------------------------------------------------------------------
(* Sui (external).                                                         *)

\* A sent transaction executes; it may abort, and its call may have been
\* answered long before.
Execute(c) ==
    /\ tx[c].status = "sent" /\ InputsLive(tx[c])
    /\ \/ /\ Runs(tx[c]) /\ Move(tx[c])
          /\ tx' = [tx EXCEPT ![c].status = "applied"]
          /\ met' = [k \in CallId |->
                        \/ met[k] \/ k = c
                        \/ /\ tx[c].fn = "claim_earnings"
                           /\ call[k].op = "claim" /\ call[k].pc = "wait"]
       \/ /\ ~Runs(tx[c])
          /\ tx' = [tx EXCEPT ![c].status = "aborted"]
          /\ UNCHANGED <<chainVars, met>>
    /\ UNCHANGED <<call, boundVars>>

\* It is lost, or refused because a coin or certificate it takes is gone.
DropTx(c) ==
    /\ tx[c].status = "sent"
    /\ \/ ~InputsLive(tx[c]) /\ NoFault
       \/ InputsLive(tx[c]) /\ Fault
    /\ tx' = [tx EXCEPT ![c].status = "dropped"]
    /\ UNCHANGED <<chainVars, call, met, configured, world>>

\* execute_transaction_and_wait_for_checkpoint returns: the digest of a
\* transaction that executed, whatever its status, or an error, which also
\* the time limit of 60 seconds is.
Answered(c) ==
    /\ call[c].pc = "wait"
    /\ \/ tx[c].status \in {"applied", "aborted"} /\ Goto(c, "ok") /\ NoFault
       \/ tx[c].status = "dropped" /\ Goto(c, Failure(c)) /\ NoFault
       \/ Fault /\ Goto(c, Failure(c))
    /\ UNCHANGED <<chainVars, tx, met, configured, world>>

\* Transactions of other addresses, and the admin's.
WorldStaking ==
    /\ \/ \E a \in Others, id \in PeerId, o \in PeerObj :
                wallet[a] >= MIN_STAKE /\ register(a, id, MIN_STAKE, o)
       \/ \E a \in Others, o \in DOMAIN objects :
                wallet[a] >= Amount /\ add_stake(a, o, Amount)
       \/ \E a \in Others, o \in DOMAIN objects : unstake(a, o, Amount)
       \/ \E o \in DOMAIN objects : slash(o, Amount)
       \/ \E o \in DOMAIN objects : deactivate(o)
       \/ \E a \in Addr : a # cap /\ transfer_cap(a)
    /\ UNCHANGED vaultVars

WorldVaults ==
    /\ \/ \E v \in VaultId, a \in Others : V!new_vault(v, a)
       \/ \E a \in Addr, v \in DOMAIN vaults : V!add_vault(a, v)
       \/ \E a \in Others, v \in DOMAIN vaults, c \in NewCert :
                wallet[a] >= Amount /\ V!delegate(a, v, Amount, c)
       \/ \E a \in Others, v \in DOMAIN vaults, c \in DOMAIN certs :
                V!undelegate(a, v, c)
       \/ \E a, b \in Addr, c \in DOMAIN certs : V!transfer_cert(a, c, b)
       \/ \E a \in Others, v \in DOMAIN vaults :
                wallet[a] >= Amount /\ V!pay(a, v, Amount)
       \/ \E a \in Others, v \in DOMAIN vaults : V!claim_earnings(a, v)
    /\ UNCHANGED peerVars

World ==
    /\ world < MaxWorld
    /\ world' = world + 1
    /\ WorldStaking \/ WorldVaults
    /\ UNCHANGED <<call, tx, met, configured, faults>>

-----------------------------------------------------------------------------

\* The wallet starts on a chain in use.  ConfigVault, of this wallet or of
\* another address, has earnings and holds a delegation, and it may be
\* listed; either nobody is registered or everybody is, this wallet with
\* an old peer id.
Init ==
    /\ \E owner, holder \in Addr, bps \in Commissions \cap 0 .. BPS, c \in CertId :
        /\ vaults = Put(V!EmptyTable, ConfigVault,
                        [V!EmptyVault(owner, bps) EXCEPT
                            !.reserves = Amount, !.total_shares = Amount,
                            !.peer_earnings = Amount])
        /\ certs = Put(V!EmptyTable, c, [vault_id |-> ConfigVault,
                                         shares |-> Amount, owner |-> holder])
        /\ registry \in {V!EmptyTable, Put(V!EmptyTable, owner, ConfigVault)}
    /\ \/ peers = V!EmptyTable /\ objects = V!EmptyTable
       \/ \E id \in PeerId \ {MyPeerId}, p \in [Addr -> PeerObj] :
            /\ \A a, b \in Addr : p[a] = p[b] => a = b
            /\ peers = p
            /\ objects = [o \in {p[a] : a \in Addr} |->
                            [peer_id |-> id, bond |-> MIN_STAKE + Amount,
                             sui_address |-> CHOOSE a \in Addr : p[a] = o,
                             is_active |-> TRUE]]
    /\ cap = Deployer
    /\ wallet = InitialWal
    /\ configured \in BOOLEAN
    /\ call = [c \in CallId |-> [op |-> None, arg |-> None, pc |-> "idle"]]
    /\ tx = [c \in CallId |-> [Tx(None, None, None, 0) EXCEPT !.status = None]]
    /\ met = [c \in CallId |-> FALSE]
    /\ world = 0 /\ faults = 0

Next ==
    \/ \E c \in CallId : Step(c) \/ Execute(c) \/ DropTx(c) \/ Answered(c)
    \/ World

Spec == Init /\ [][Next]_vars

-----------------------------------------------------------------------------
(* Properties.                                                             *)

\* A call that reports success has got what it is for, although the status
\* of the execution is never read: whatever made the transaction abort after
\* its simulation had done the same thing.  After register_peer,
\* update_peer_id and ensure_peer_registered the address is registered with
\* the current peer id, after create_vault it has a vault, a claim was paid
\* since it was sent, a burned certificate is this call's, and a payment
\* with a digest is on chain.  (Not so for delegate, whose transaction may
\* abort because of a payment that came in between.)
SuccessMeansDone ==
    \A c \in CallId : configured /\ call[c].pc = "ok" =>
        CASE call[c].op \in {"register", "update", "ensure"} ->
                Me \in DOMAIN peers /\ objects[peers[Me]].peer_id = MyPeerId
          [] call[c].op = "create_vault" -> Me \in DOMAIN registry
          [] call[c].op \in {"claim", "undelegate", "pay"} -> met[c]
          [] OTHER -> TRUE

\* The value the app shows for a certificate of a listed vault, computed in
\* one u128 product, is what undelegate would pay for it now, computed by
\* mul_div in two parts.
EstimatesExact ==
    \A e \in list_my_share_certificates :
        LET cert == certs[e.cert]
        IN  cert.vault_id \in ListedVaults =>
                e.value = V!RedeemValue(vaults[cert.vault_id], cert.shares)

\* What build_claim_earnings_transaction says of its argument, "the current
\* version of the vault object": a claim of the wallet's own vault, with
\* earnings in it, is built unless an RPC fails.
ClaimBuilds ==
    [][\A c \in CallId :
            /\ call[c].op = "claim" /\ call[c].pc = "build"
            /\ call'[c].pc = "err" /\ faults' = faults
            => ~(/\ vaults[call[c].arg].peer_address = Me
                 /\ vaults[call[c].arg].peer_earnings > 0)]_vars

\* The WAL bonded in each Peer object, held by each vault, and altogether.
BondOf == [o \in PeerObj |-> IF o \in DOMAIN objects THEN objects[o].bond ELSE 0]

HeldBy ==
    [v \in VaultId |-> IF v \in DOMAIN vaults
                      THEN vaults[v].reserves + vaults[v].peer_earnings ELSE 0]

TotalWal == SumFunction(wallet) + SumFunction(BondOf) + SumFunction(HeldBy)

\* No call, retry, late execution or transaction of anyone else makes or
\* loses WAL: the coins, the bonds, the reserves and the earnings together
\* stay the same.
WalConserved == [][TotalWal' = TotalWal]_vars

=============================================================================

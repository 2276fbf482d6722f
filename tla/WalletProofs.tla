---------------------------- MODULE WalletProofs ----------------------------
(***************************************************************************)
(* The chain and the wallet's calls on it, for any addresses, objects,     *)
(* amounts, calls and faults.  First the contract Staking by itself: its   *)
(* registry stays exact, and bonds leave it only for their owner or for    *)
(* the admin.  Then Wallet: what a call reports is what has been done, and *)
(* what the app shows for a certificate is what it redeems, and no step    *)
(* makes or loses WAL.                                                     *)
(*                                                                         *)
(* RegistryExact is inductive by itself, since only register writes the    *)
(* table, for an address that is not in it and an object that is new.  The *)
(* types are needed for the arithmetic of the bonds.                       *)
(***************************************************************************)
EXTENDS Wallet, DataFacts, TLAPS

VP == INSTANCE PeerVaultProofs

\* The invariant of the registry.
SInv == StakingTypeOK /\ RegistryExact

\* A table of values in T remains one.
LEMMA PutType ==
    ASSUME NEW f, NEW T, NEW k, NEW e \in T, f \in [DOMAIN f -> T]
    PROVE  Put(f, k, e) \in [DOMAIN f \cup {k} -> T]
    BY DEF Put

\* An update of one existing object that keeps its owner.
LEMMA UpdateFacts ==
    ASSUME SInv,
           NEW o \in DOMAIN objects, NEW e \in PeerObject,
           e.sui_address = objects[o].sui_address,
           objects' = [objects EXCEPT ![o] = e],
           peers' = peers
    PROVE  /\ DOMAIN objects' \subseteq PeerObj
           /\ objects' \in [DOMAIN objects' -> PeerObject]
           /\ RegistryExact'
<1>1. /\ DOMAIN objects' = DOMAIN objects
      /\ \A x \in DOMAIN objects :
            /\ objects'[x] \in PeerObject
            /\ objects'[x].sui_address = objects[x].sui_address
    BY DEF SInv, StakingTypeOK
<1>2. objects' \in [DOMAIN objects' -> PeerObject]
    BY <1>1
<1>3. RegistryExact'
    BY <1>1 DEF SInv, RegistryExact
<1> QED
    BY <1>1, <1>2, <1>3 DEF SInv, StakingTypeOK

-----------------------------------------------------------------------------

\* It holds at the start, when nobody is registered.
LEMMA SInvInit == StakingInit => SInv
    BY StakingAssumption DEF StakingInit, SInv, StakingTypeOK, RegistryExact

\* A registration adds an address and its object together.
LEMMA RegisterKeeps ==
    ASSUME SInv, NEW sender \in Addr, NEW id \in PeerId, NEW o \in PeerObj,
           NEW bond \in 0 .. wallet[sender], register(sender, id, bond, o)
    PROVE  SInv'
<1> DEFINE e == [peer_id |-> id, sui_address |-> sender, bond |-> bond,
                 is_active |-> TRUE]
<1>0. /\ sender \notin DOMAIN peers
      /\ o \notin DOMAIN objects
      /\ objects' = Put(objects, o, e)
      /\ peers' = Put(peers, sender, o)
      /\ wallet' = [wallet EXCEPT ![sender] = @ - bond]
      /\ cap' = cap
    BY DEF register, register_ok
<1>1. e \in PeerObject /\ e.sui_address = sender
    BY DEF PeerObject, SInv, StakingTypeOK
<1> HIDE DEF e
<1>2. /\ DOMAIN objects' = DOMAIN objects \cup {o}
      /\ objects'[o] = e
      /\ \A x \in DOMAIN objects : objects'[x] = objects[x]
    BY <1>0 DEF Put
<1>3. /\ DOMAIN peers' = DOMAIN peers \cup {sender}
      /\ peers'[sender] = o
      /\ \A x \in DOMAIN peers : peers'[x] = peers[x]
    BY <1>0 DEF Put
<1>4. objects' \in [DOMAIN objects' -> PeerObject]
    BY <1>0, <1>1, <1>2, PutType DEF SInv, StakingTypeOK
<1>5. peers' \in [DOMAIN peers' -> PeerObj]
    BY <1>0, <1>3, PutType DEF SInv, StakingTypeOK
<1>6. wallet' \in [Addr -> Nat]
    BY <1>0 DEF SInv, StakingTypeOK
<1>7. StakingTypeOK'
    BY <1>0, <1>2, <1>3, <1>4, <1>5, <1>6 DEF SInv, StakingTypeOK
<1>8. RegistryExact'
    <2>1. ASSUME NEW a \in DOMAIN peers'
          PROVE  /\ peers'[a] \in DOMAIN objects'
                 /\ objects'[peers'[a]].sui_address = a
        <3>1. CASE a = sender
            BY <3>1, <1>1, <1>2, <1>3
        <3>2. CASE a # sender
            BY <3>2, <1>2, <1>3 DEF SInv, RegistryExact
        <3> QED
            BY <3>1, <3>2
    <2>2. ASSUME NEW x \in DOMAIN objects'
          PROVE  /\ objects'[x].sui_address \in DOMAIN peers'
                 /\ peers'[objects'[x].sui_address] = x
        <3>1. CASE x = o
            BY <3>1, <1>1, <1>2, <1>3
        <3>2. CASE x # o
            BY <3>2, <1>0, <1>2, <1>3 DEF SInv, RegistryExact
        <3> QED
            BY <3>1, <3>2
    <2> QED
        BY <2>1, <2>2 DEF RegistryExact
<1> QED
    BY <1>7, <1>8 DEF SInv

\* A change of a bond by which somebody's coins change.
LEMMA BondKeeps ==
    ASSUME SInv, NEW o \in DOMAIN objects, NEW a \in Addr,
           NEW b \in Nat, NEW w \in Nat,
           objects' = [objects EXCEPT ![o] = [@ EXCEPT !.bond = b]],
           wallet' = [wallet EXCEPT ![a] = w],
           peers' = peers, cap' = cap
    PROVE  SInv'
<1> DEFINE e == [objects[o] EXCEPT !.bond = b]
<1>1. objects[o] \in PeerObject
    BY DEF SInv, StakingTypeOK
<1>2. e \in PeerObject /\ e.sui_address = objects[o].sui_address
    BY <1>1 DEF PeerObject
<1>3. objects' = [objects EXCEPT ![o] = e]
    OBVIOUS
<1> HIDE DEF e
<1>4. /\ DOMAIN objects' \subseteq PeerObj
      /\ objects' \in [DOMAIN objects' -> PeerObject]
      /\ RegistryExact'
    BY <1>2, <1>3, UpdateFacts
<1>5. wallet' \in [Addr -> Nat]
    BY DEF SInv, StakingTypeOK
<1> QED
    BY <1>4, <1>5 DEF SInv, StakingTypeOK

\* Every transaction keeps the invariant.
LEMMA SInvNext == SInv /\ [StakingNext]_stakingVars => SInv'
<1> SUFFICES ASSUME SInv, [StakingNext]_stakingVars PROVE SInv'
    OBVIOUS
<1>0. /\ wallet \in [Addr -> Nat] /\ cap \in Addr
      /\ \A o \in DOMAIN objects : objects[o] \in PeerObject
    BY DEF SInv, StakingTypeOK
<1>1. ASSUME NEW sender \in Addr, NEW id \in PeerId, NEW o \in PeerObj,
             NEW bond \in 0 .. wallet[sender], register(sender, id, bond, o)
      PROVE  SInv'
    BY <1>1, RegisterKeeps
<1>2. ASSUME NEW sender \in Addr, NEW o \in DOMAIN objects, NEW id \in PeerId,
             update_peer_id(sender, o, id)
      PROVE  SInv'
    <2>1. /\ [objects[o] EXCEPT !.peer_id = id] \in PeerObject
          /\ [objects[o] EXCEPT !.peer_id = id].sui_address
               = objects[o].sui_address
        BY <1>0 DEF PeerObject
    <2>2. /\ DOMAIN objects' \subseteq PeerObj
          /\ objects' \in [DOMAIN objects' -> PeerObject]
          /\ RegistryExact'
        BY <1>2, <2>1, UpdateFacts DEF update_peer_id
    <2> QED
        BY <1>2, <2>2 DEF update_peer_id, SInv, StakingTypeOK
<1>3. ASSUME NEW sender \in Addr, NEW o \in DOMAIN objects,
             NEW amount \in 0 .. wallet[sender], add_stake(sender, o, amount)
      PROVE  SInv'
    <2>1. objects[o].bond + amount \in Nat /\ wallet[sender] - amount \in Nat
        BY <1>0 DEF PeerObject
    <2> QED
        BY <1>3, <2>1, BondKeeps DEF add_stake
<1>4. ASSUME NEW sender \in Addr, NEW o \in DOMAIN objects,
             NEW amount \in 0 .. objects[o].bond, unstake(sender, o, amount)
      PROVE  SInv'
    <2>1. objects[o].bond - amount \in Nat /\ wallet[sender] + amount \in Nat
        BY <1>0 DEF PeerObject
    <2> QED
        BY <1>4, <2>1, BondKeeps DEF unstake
<1>5. ASSUME NEW o \in DOMAIN objects, NEW amount \in 0 .. objects[o].bond,
             slash(o, amount)
      PROVE  SInv'
    <2>1. objects[o].bond - amount \in Nat /\ wallet[cap] + amount \in Nat
        BY <1>0 DEF PeerObject
    <2> QED
        BY <1>0, <1>5, <2>1, BondKeeps DEF slash
<1>6. ASSUME NEW o \in DOMAIN objects, deactivate(o) PROVE SInv'
    <2>1. /\ [objects[o] EXCEPT !.is_active = FALSE] \in PeerObject
          /\ [objects[o] EXCEPT !.is_active = FALSE].sui_address
               = objects[o].sui_address
        BY <1>0 DEF PeerObject
    <2>2. /\ DOMAIN objects' \subseteq PeerObj
          /\ objects' \in [DOMAIN objects' -> PeerObject]
          /\ RegistryExact'
        BY <1>6, <2>1, UpdateFacts DEF deactivate
    <2> QED
        BY <1>6, <2>2 DEF deactivate, SInv, StakingTypeOK
<1>7. ASSUME NEW to \in Addr, transfer_cap(to) PROVE SInv'
    BY <1>7 DEF transfer_cap, SInv, StakingTypeOK, RegistryExact
<1>8. CASE UNCHANGED stakingVars
    BY <1>8 DEF stakingVars, SInv, StakingTypeOK, RegistryExact
<1> QED
    BY <1>1, <1>2, <1>3, <1>4, <1>5, <1>6, <1>7, <1>8 DEF StakingNext

-----------------------------------------------------------------------------

\* The invariant holds in every reachable state of the contract.
THEOREM StakingInductive == StakingSpec => []SInv
    BY SInvInit, SInvNext, PTL DEF StakingSpec

\* Bonds and coins never become negative; what the tables hold has its type.
THEOREM StakingTypeCorrect == StakingSpec => []StakingTypeOK
<1>1. SInv => StakingTypeOK
    BY DEF SInv
<1> QED
    BY <1>1, StakingInductive, PTL

\* register keeps the registry exact: each address has the object it was
\* registered with, each object the address that finds it.
THEOREM RegistryStaysExact == StakingSpec => []RegistryExact
<1>1. SInv => RegistryExact
    BY DEF SInv
<1> QED
    BY <1>1, StakingInductive, PTL

\* What BondsLeaveRightly says of one object and one step.
LeavesRightly(o) ==
    objects'[o].bond < objects[o].bond =>
        LET owner == objects[o].sui_address
            lost  == objects[o].bond - objects'[o].bond
            Gets(a) == wallet' = [wallet EXCEPT ![a] = @ + lost]
        IN  \/ Gets(owner) /\ objects'[o].bond >= MIN_STAKE
            \/ Gets(cap)

LEMMA BondStep ==
    ASSUME SInv, [StakingNext]_stakingVars, NEW x \in DOMAIN objects
    PROVE  LeavesRightly(x)
<1> USE DEF LeavesRightly
<1>0. /\ wallet \in [Addr -> Nat] /\ cap \in Addr
      /\ \A o \in DOMAIN objects : objects[o].bond \in Nat
      /\ \A o \in DOMAIN objects : objects[o] \in PeerObject
    BY DEF SInv, StakingTypeOK, PeerObject
<1>1. ASSUME NEW sender \in Addr, NEW id \in PeerId, NEW o \in PeerObj,
             NEW bond \in 0 .. wallet[sender], register(sender, id, bond, o)
      PROVE  LeavesRightly(x)
    <2>1. objects'[x] = objects[x]
        BY <1>1 DEF register, Put
    <2> QED
        BY <1>0, <2>1
<1>2. ASSUME NEW sender \in Addr, NEW o \in DOMAIN objects,
             NEW id \in PeerId, update_peer_id(sender, o, id)
      PROVE  LeavesRightly(x)
    <2>1. objects'[x].bond = objects[x].bond
        BY <1>0, <1>2 DEF update_peer_id, PeerObject
    <2> QED
        BY <1>0, <2>1
<1>3. ASSUME NEW sender \in Addr, NEW o \in DOMAIN objects,
             NEW amount \in 0 .. wallet[sender],
             add_stake(sender, o, amount)
      PROVE  LeavesRightly(x)
    <2>1. objects'[x].bond \in {objects[x].bond, objects[x].bond + amount}
        BY <1>0, <1>3 DEF add_stake, PeerObject
    <2> QED
        BY <1>0, <2>1
<1>4. ASSUME NEW sender \in Addr, NEW o \in DOMAIN objects,
             NEW amount \in 0 .. objects[o].bond, unstake(sender, o, amount)
      PROVE  LeavesRightly(x)
    <2>1. CASE x = o
        <3>1. /\ objects'[x].bond = objects[x].bond - amount
              /\ objects[x].sui_address = sender
              /\ objects[x].bond - amount >= MIN_STAKE
              /\ wallet' = [wallet EXCEPT ![sender] = @ + amount]
            BY <1>0, <1>4, <2>1 DEF unstake, unstake_ok, PeerObject
        <3>2. objects[x].bond - objects'[x].bond = amount
            BY <1>0, <3>1
        <3> QED
            BY <3>1, <3>2
    <2>2. CASE x # o
        BY <1>0, <1>4, <2>2 DEF unstake
    <2> QED
        BY <2>1, <2>2
<1>5. ASSUME NEW o \in DOMAIN objects, NEW amount \in 0 .. objects[o].bond,
             slash(o, amount)
      PROVE  LeavesRightly(x)
    <2>1. CASE x = o
        <3>1. /\ objects'[x].bond = objects[x].bond - amount
              /\ wallet' = [wallet EXCEPT ![cap] = @ + amount]
            BY <1>0, <1>5, <2>1 DEF slash, PeerObject
        <3>2. objects[x].bond - objects'[x].bond = amount
            BY <1>0, <3>1
        <3> QED
            BY <3>1, <3>2
    <2>2. CASE x # o
        BY <1>0, <1>5, <2>2 DEF slash
    <2> QED
        BY <2>1, <2>2
<1>6. ASSUME NEW o \in DOMAIN objects, deactivate(o) PROVE LeavesRightly(x)
    <2>1. objects'[x].bond = objects[x].bond
        BY <1>0, <1>6 DEF deactivate, PeerObject
    <2> QED
        BY <1>0, <2>1
<1>7. ASSUME NEW to \in Addr, transfer_cap(to) PROVE LeavesRightly(x)
    BY <1>0, <1>7 DEF transfer_cap
<1>8. CASE UNCHANGED stakingVars
    BY <1>0, <1>8 DEF stakingVars
<1> HIDE DEF LeavesRightly
<1> QED
    BY <1>1, <1>2, <1>3, <1>4, <1>5, <1>6, <1>7, <1>8 DEF StakingNext

\* The step by which a bond shrinks pays it out, in full, to the owner, down
\* to MIN_STAKE at most, or to the holder of the AdminCap.
THEOREM BondsAreSafe == StakingSpec => BondsLeaveRightly
<1>1. SInv /\ [StakingNext]_stakingVars =>
        [\A o \in DOMAIN objects : LeavesRightly(o)]_stakingVars
    BY BondStep
<1> QED
    BY <1>1, StakingInductive, PTL
    DEF StakingSpec, BondsLeaveRightly, LeavesRightly

-----------------------------------------------------------------------------
(* The invariant of Wallet.                                                *)

\* The contracts: those of Staking and PeerVault (whose argument is in
\* PeerVaultProofs), and the vault of the configuration exists.
ChainInv == SInv /\ VP!IInv /\ ConfigVault \in DOMAIN vaults

LocalTypes ==
    /\ configured \in BOOLEAN
    /\ call \in [CallId -> Calls]
    /\ tx \in [CallId -> Txs]
    /\ met \in [CallId -> BOOLEAN]
    /\ world \in 0 .. MaxWorld
    /\ faults \in 0 .. MaxFaults

\* The address is registered with the current peer id.
Current == Me \in DOMAIN peers /\ objects[peers[Me]].peer_id = MyPeerId

\* claim_earnings of the vault of the configuration would run.
Claimable ==
    /\ vaults[ConfigVault].peer_address = Me
    /\ vaults[ConfigVault].peer_earnings > 0

\* Which transactions a call sends.
Sends ==
    {<<"register", "register">>, <<"ensure", "register">>,
     <<"update", "update_peer_id">>, <<"ensure", "update_peer_id">>,
     <<"create_vault", "new_vault">>, <<"claim", "claim_earnings">>,
     <<"delegate", "delegate">>, <<"undelegate", "undelegate">>,
     <<"pay", "pay">>}

\* What a call k carries from one step to the next.
ArgFits(k) ==
    /\ call[k].pc = "check" => call[k].op = "ensure"
    /\ call[k].op = "pay" /\ call[k].pc = "lookup" => call[k].arg \in Addr
    /\ call[k].op \in {"claim", "delegate", "pay"} /\ call[k].pc = "build" =>
            call[k].arg \in VaultId
    /\ call[k].op = "undelegate" /\ call[k].pc = "lookup" =>
            call[k].arg \in CertId

\* The transaction of a call is one of its own.
TxFits(k) ==
    /\ call[k].pc \in {"idle", "check", "lookup", "build"} =>
            tx[k].status = None
    /\ call[k].pc = "wait" => tx[k].status # None
    /\ tx[k].status # None => <<call[k].op, tx[k].fn>> \in Sends
    /\ tx[k].fn = "register" => tx[k].wal = MIN_STAKE
    /\ tx[k].fn = "update_peer_id" =>
            Me \in DOMAIN peers /\ tx[k].obj = peers[Me]
    /\ tx[k].fn \in {"claim_earnings", "delegate", "undelegate", "pay"} =>
            tx[k].obj \in VaultId
    /\ tx[k].fn = "undelegate" =>
            /\ tx[k].cert \in CertId
            /\ tx[k].cert \in DOMAIN certs =>
                    certs[tx[k].cert].vault_id = tx[k].obj
    /\ tx[k].fn = "pay" => tx[k].wal = Amount

Executed(k) == tx[k].status \in {"applied", "aborted"}

\* What follows from the simulation and the execution of a transaction.
\* Only a registration, a vault, a claim or a delegation can abort after it
\* was simulated, and then by another one of this wallet.
TxTells(k) ==
    /\ tx[k].fn = "register" =>
            (Me \in DOMAIN peers \/ Executed(k) => Current)
    /\ tx[k].fn = "update_peer_id" =>
            tx[k].status # "aborted" /\ (Executed(k) => Current)
    /\ tx[k].fn = "new_vault" => (Executed(k) => Me \in DOMAIN registry)
    /\ tx[k].fn = "claim_earnings" =>
            /\ tx[k].obj = ConfigVault
            /\ tx[k].status = "applied" => met[k]
            /\ call[k].pc = "wait" =>
                    \/ met[k] \/ tx[k].status = "dropped"
                    \/ tx[k].status = "sent" /\ Claimable
    /\ tx[k].fn \in {"undelegate", "pay"} =>
            tx[k].status # "aborted" /\ (Executed(k) => met[k])

\* SuccessMeansDone of one call.
Done(k) ==
    configured /\ call[k].pc = "ok" =>
        /\ call[k].op \in {"register", "update", "ensure"} => Current
        /\ call[k].op = "create_vault" => Me \in DOMAIN registry
        /\ call[k].op \in {"claim", "undelegate", "pay"} => met[k]

CallInv(k) == ArgFits(k) /\ TxFits(k) /\ TxTells(k) /\ Done(k)

WInv == ChainInv /\ LocalTypes /\ \A k \in CallId : CallInv(k)

-----------------------------------------------------------------------------
(* Vault transactions.                                                     *)

\* What a step on the vaults leaves for the wallet's calls: no id of a
\* certificate comes back, no entry of the registry goes, and earnings go to
\* their owner only.
CertsKept ==
    \A k \in CallId : tx[k].cert \in DOMAIN certs' =>
        /\ tx[k].cert \in DOMAIN certs
        /\ certs'[tx[k].cert].vault_id = certs[tx[k].cert].vault_id

VaultsKept ==
    /\ VP!IInv'
    /\ ConfigVault \in DOMAIN vaults'
    /\ DOMAIN registry \subseteq DOMAIN registry'
    /\ CertsKept

\* The assumptions of PeerVault.
LEMMA VaultAssumption ==
    /\ U64_MAX \in Nat
    /\ BPS \in VP!U64 \ {0}
    /\ DEFAULT_COMMISSION \in 0 .. BPS
    /\ Commissions \subseteq VP!U64
    /\ InitialWal \in [Addr -> VP!U64]
    BY WalletAssumption DEF V!U64, VP!U64

\* The invariant of PeerVault contains the types Wallet states.
LEMMA VaultTypes ==
    ASSUME VP!IInv
    PROVE  /\ V!TypeOK
           /\ vaults \in [DOMAIN vaults -> VP!PeerVaultObject]
           /\ certs \in [DOMAIN certs -> VP!ShareCertificate]
    BY DEF VP!IInv, VP!TypeOK, V!TypeOK, VP!PeerVaultObject, V!PeerVaultObject,
           VP!ShareCertificate, V!ShareCertificate, VP!U64, V!U64

LEMMA NewVaultKeeps ==
    ASSUME ChainInv, NEW a \in Addr, NEW v \in VaultId, V!new_vault(v, a)
    PROVE  VaultsKept /\ (Claimable => Claimable') /\ a \in DOMAIN registry'
<1>1. VP!new_vault(v, a)
    BY DEF V!new_vault, VP!new_vault, V!Put, VP!Put, V!EmptyVault, VP!EmptyVault
<1>2. VP!IInv'
    BY <1>1, VaultAssumption, VP!NewVaultIInv DEF ChainInv
<1>3. /\ v \notin DOMAIN vaults
      /\ vaults' = V!Put(vaults, v, V!EmptyVault(a, DEFAULT_COMMISSION))
      /\ registry' = V!Put(registry, a, v)
      /\ certs' = certs
    BY DEF V!new_vault
<1>4. /\ ConfigVault \in DOMAIN vaults'
      /\ vaults'[ConfigVault] = vaults[ConfigVault]
    BY <1>3 DEF V!Put, ChainInv
<1>5. DOMAIN registry' = DOMAIN registry \cup {a}
    BY <1>3 DEF V!Put
<1> QED
    BY <1>2, <1>3, <1>4, <1>5 DEF VaultsKept, CertsKept, Claimable

LEMMA AddVaultKeeps ==
    ASSUME ChainInv, NEW a \in Addr, NEW v \in DOMAIN vaults, V!add_vault(a, v)
    PROVE  VaultsKept /\ (Claimable => Claimable')
<1>1. VP!add_vault(a, v)
    BY DEF V!add_vault, VP!add_vault, V!Put, VP!Put
<1>2. v \in VaultId
    BY DEF ChainInv, VP!IInv, VP!TypeOK
<1>3. VP!IInv'
    BY <1>1, <1>2, VaultAssumption, VP!AddVaultIInv DEF ChainInv
<1>4. /\ vaults' = vaults /\ certs' = certs
      /\ registry' = V!Put(registry, a, v)
    BY DEF V!add_vault
<1>5. DOMAIN registry \subseteq DOMAIN registry'
    BY <1>4 DEF V!Put
<1> QED
    BY <1>3, <1>4, <1>5 DEF VaultsKept, CertsKept, Claimable, ChainInv

\* A change of one vault that keeps its owner and does not take earnings.
LEMMA ClaimableKept ==
    ASSUME ChainInv, NEW v \in DOMAIN vaults, NEW f,
           vaults' = [vaults EXCEPT ![v] = f],
           f.peer_address = vaults[v].peer_address,
           vaults[v].peer_earnings > 0 => f.peer_earnings > 0
    PROVE  /\ ConfigVault \in DOMAIN vaults'
           /\ Claimable => Claimable'
<1>1. /\ DOMAIN vaults' = DOMAIN vaults
      /\ vaults'[ConfigVault]
            = IF ConfigVault = v THEN f ELSE vaults[ConfigVault]
    BY DEF ChainInv
<1> QED
    BY <1>1 DEF Claimable, ChainInv

LEMMA DelegateKeeps ==
    ASSUME ChainInv, NEW a \in Addr, NEW v \in DOMAIN vaults,
           NEW n \in 0 .. wallet[a], NEW c \in NewCert, V!delegate(a, v, n, c)
    PROVE  VaultsKept /\ (Claimable => Claimable')
<1>1. VP!delegate(a, v, n, c)
    BY Zenon DEF V!delegate, VP!delegate, V!Put, VP!Put, V!Joined, VP!Joined,
           V!SharesFor, VP!SharesFor, V!SharesFor_ok, VP!SharesFor_ok,
           V!mul_div, VP!mul_div, V!mul_div_ok, VP!mul_div_ok,
           V!u128_mul_div, VP!u128_mul_div
<1>2. c \in CertId /\ \A k \in CallId : tx[k].cert # c
    BY DEF NewCert
<1>3. VP!IInv'
    BY <1>1, <1>2, VaultAssumption, VP!DelegateIInv DEF ChainInv
<1> DEFINE f == V!Joined(vaults[v], n)
           e == [vault_id |-> v, shares |-> V!SharesFor(vaults[v], n),
                 owner |-> a]
<1>4. /\ vaults' = [vaults EXCEPT ![v] = f]
      /\ certs' = V!Put(certs, c, e)
      /\ registry' = registry
    BY Zenon DEF V!delegate
<1>5. vaults[v] \in VP!PeerVaultObject
    BY VaultTypes DEF ChainInv
<1>6. /\ f.peer_address = vaults[v].peer_address
      /\ f.peer_earnings = vaults[v].peer_earnings
    BY <1>5 DEF V!Joined, VP!PeerVaultObject
<1> HIDE DEF f, e
<1>7. CertsKept
    BY <1>2, <1>4 DEF CertsKept, V!Put
<1>8. ConfigVault \in DOMAIN vaults' /\ (Claimable => Claimable')
    BY <1>4, <1>6, ClaimableKept
<1> QED
    BY <1>3, <1>4, <1>7, <1>8 DEF VaultsKept

LEMMA UndelegateKeeps ==
    ASSUME ChainInv, NEW a \in Addr, NEW v \in DOMAIN vaults,
           NEW c \in DOMAIN certs, V!undelegate(a, v, c)
    PROVE  VaultsKept /\ (Claimable => Claimable')
<1>1. VP!undelegate(a, v, c)
    BY Zenon DEF V!undelegate, VP!undelegate, V!Drop, VP!Drop,
           V!RedeemValue, VP!RedeemValue, V!Redeemable, VP!Redeemable,
           V!mul_div, VP!mul_div, V!mul_div_ok, VP!mul_div_ok,
           V!u128_mul_div, VP!u128_mul_div
<1>2. VP!IInv'
    BY <1>1, VaultAssumption, VP!UndelegateIInv DEF ChainInv
<1> DEFINE w == V!RedeemValue(vaults[v], certs[c].shares)
           f == [vaults[v] EXCEPT !.total_shares = @ - certs[c].shares,
                                  !.reserves = @ - w]
<1>3. /\ vaults' = [vaults EXCEPT ![v].total_shares = @ - certs[c].shares,
                                  ![v].reserves = @ - w]
      /\ certs' = V!Drop(certs, c)
      /\ registry' = registry
    BY Zenon DEF V!undelegate
<1>4. vaults[v] \in VP!PeerVaultObject
    BY VaultTypes DEF ChainInv
<1> HIDE DEF w
<1>5. vaults' = [vaults EXCEPT ![v] = f]
    BY <1>3, <1>4, VaultTypes DEF ChainInv
<1>6. /\ f.peer_address = vaults[v].peer_address
      /\ f.peer_earnings = vaults[v].peer_earnings
    BY <1>4 DEF VP!PeerVaultObject
<1> HIDE DEF f
<1>7. CertsKept
    BY <1>3 DEF CertsKept, V!Drop
<1>8. ConfigVault \in DOMAIN vaults' /\ (Claimable => Claimable')
    BY <1>5, <1>6, ClaimableKept
<1> QED
    BY <1>2, <1>3, <1>7, <1>8 DEF VaultsKept

LEMMA TransferCertKeeps ==
    ASSUME ChainInv, NEW a \in Addr, NEW b \in Addr, NEW c \in DOMAIN certs,
           V!transfer_cert(a, c, b)
    PROVE  VaultsKept /\ (Claimable => Claimable')
<1>1. VP!transfer_cert(a, c, b)
    BY DEF V!transfer_cert, VP!transfer_cert
<1>2. VP!IInv'
    BY <1>1, VaultAssumption, VP!TransferCertIInv DEF ChainInv
<1>3. /\ certs' = [certs EXCEPT ![c].owner = b]
      /\ vaults' = vaults /\ registry' = registry
    BY DEF V!transfer_cert
<1>4. certs \in [DOMAIN certs -> VP!ShareCertificate]
    BY VaultTypes DEF ChainInv
<1>5. CertsKept
    BY <1>3, <1>4 DEF CertsKept, VP!ShareCertificate
<1> QED
    BY <1>2, <1>3, <1>5 DEF VaultsKept, Claimable, ChainInv

LEMMA PayKeeps ==
    ASSUME ChainInv, NEW a \in Addr, NEW v \in DOMAIN vaults,
           NEW n \in 0 .. wallet[a], V!pay(a, v, n)
    PROVE  VaultsKept /\ (Claimable => Claimable')
<1>1. VP!pay(a, v, n)
    BY Zenon DEF V!pay, VP!pay, V!collect_rewards, VP!collect_rewards,
           V!collect_rewards_ok, VP!collect_rewards_ok,
           V!Commission, VP!Commission,
           V!mul_div, VP!mul_div, V!mul_div_ok, VP!mul_div_ok,
           V!u128_mul_div, VP!u128_mul_div
<1>2. VP!IInv'
    BY <1>1, VaultAssumption, VP!PayIInv DEF ChainInv
<1> DEFINE m == VP!Commission(vaults[v], n)
           f == VP!collect_rewards(vaults[v], n)
<1>3. vaults' = [vaults EXCEPT ![v] = f] /\ certs' = certs /\ registry' = registry
    BY <1>1, Zenon DEF VP!pay
<1>4. /\ vaults[v] \in VP!PeerVaultObject
      /\ vaults[v].peer_earnings \in Nat /\ vaults[v].commission_bps \in Nat
    BY VaultTypes, VaultAssumption DEF ChainInv, VP!PeerVaultObject, VP!U64
<1>5. wallet[a] \in Nat /\ n \in Nat
    BY DEF ChainInv, SInv, StakingTypeOK
<1>6. m \in Nat
    <2>1. BPS \in Nat /\ BPS > 0
        BY VaultAssumption DEF VP!U64
    <2> QED
        BY <1>4, <1>5, <2>1, VaultAssumption, VP!MulDivIsFloor DEF VP!Commission
<1>7. /\ f.peer_address = vaults[v].peer_address
      /\ f.peer_earnings = vaults[v].peer_earnings + m
    BY <1>4 DEF VP!collect_rewards, VP!PeerVaultObject
<1> HIDE DEF f, m
<1>8. vaults[v].peer_earnings > 0 => f.peer_earnings > 0
    BY <1>4, <1>6, <1>7
<1>9. ConfigVault \in DOMAIN vaults' /\ (Claimable => Claimable')
    BY <1>3, <1>7, <1>8, ClaimableKept
<1> QED
    BY <1>2, <1>3, <1>9 DEF VaultsKept, CertsKept

\* The one step that takes earnings: of the sender's own vault.
LEMMA ClaimKeeps ==
    ASSUME ChainInv, NEW a \in Addr, NEW v \in DOMAIN vaults,
           V!claim_earnings(a, v)
    PROVE  VaultsKept /\ (a # Me => (Claimable => Claimable'))
<1>1. VP!claim_earnings(a, v)
    BY DEF V!claim_earnings, VP!claim_earnings
<1>2. VP!IInv'
    BY <1>1, VaultAssumption, VP!ClaimEarningsIInv DEF ChainInv
<1>3. /\ a = vaults[v].peer_address
      /\ vaults' = [vaults EXCEPT ![v].peer_earnings = 0]
      /\ certs' = certs /\ registry' = registry
    BY DEF V!claim_earnings
<1>4. DOMAIN vaults' = DOMAIN vaults
    BY <1>3
<1>5. a # Me => (Claimable => Claimable')
    BY <1>3 DEF Claimable, ChainInv
<1> QED
    BY <1>2, <1>3, <1>4, <1>5 DEF VaultsKept, CertsKept, ChainInv

-----------------------------------------------------------------------------
(* Registry transactions.                                                  *)

\* What a step leaves of the registration of this wallet: once it is there
\* it stays, and it is made with the current peer id.
PeersKept ==
    /\ SInv'
    /\ Current => Current'
    /\ Me \in DOMAIN peers =>
            Me \in DOMAIN peers' /\ peers'[Me] = peers[Me]
    /\ Me \notin DOMAIN peers /\ Me \in DOMAIN peers' => Current'

\* A registration of this wallet is with its own id.
LEMMA RegisterPeersKept ==
    ASSUME SInv, NEW a \in Addr, NEW id \in PeerId, NEW o \in PeerObj,
           NEW bond \in 0 .. wallet[a], register(a, id, bond, o),
           a = Me => id = MyPeerId
    PROVE  PeersKept /\ (a = Me => Current')
<1>1. SInv'
    BY RegisterKeeps
<1> DEFINE e == [peer_id |-> id, sui_address |-> a, bond |-> bond,
                 is_active |-> TRUE]
<1>2. /\ a \notin DOMAIN peers
      /\ o \notin DOMAIN objects
      /\ objects' = Put(objects, o, e)
      /\ peers' = Put(peers, a, o)
    BY DEF register, register_ok
<1>3. e.peer_id = id
    OBVIOUS
<1> HIDE DEF e
<1>4. /\ DOMAIN peers' = DOMAIN peers \cup {a} /\ peers'[a] = o
      /\ \A x \in DOMAIN peers : peers'[x] = peers[x]
      /\ objects'[o] = e
      /\ \A x \in DOMAIN objects : objects'[x] = objects[x]
    BY <1>2 DEF Put
<1>5. Me \in DOMAIN peers => peers[Me] \in DOMAIN objects
    BY DEF SInv, RegistryExact
<1> QED
    BY <1>1, <1>2, <1>3, <1>4, <1>5 DEF PeersKept, Current

\* A change of one object that keeps its id, or sets the id of this wallet.
LEMMA ObjectPeersKept ==
    ASSUME SInv', NEW o \in DOMAIN objects, NEW e,
           objects' = [objects EXCEPT ![o] = e], peers' = peers,
           e.peer_id \in {objects[o].peer_id, MyPeerId}
    PROVE  PeersKept
<1>1. ASSUME Current PROVE Current'
    BY <1>1 DEF Current
<1> QED
    BY <1>1 DEF PeersKept

\* The transactions of other addresses and of the admin.
LEMMA WorldStakingKeeps ==
    ASSUME SInv, WorldStaking
    PROVE  PeersKept /\ wallet' \in [Addr -> Nat] /\ StakingNext
<1>0. /\ wallet \in [Addr -> Nat] /\ cap \in Addr
      /\ \A o \in DOMAIN objects : objects[o] \in PeerObject
      /\ objects \in [DOMAIN objects -> PeerObject]
      /\ Amount \in Nat /\ MIN_STAKE \in Nat
    BY WalletAssumption, StakingAssumption DEF SInv, StakingTypeOK, V!U64
<1>1. ASSUME StakingNext PROVE SInv' /\ wallet' \in [Addr -> Nat]
    BY <1>1, SInvNext DEF SInv, StakingTypeOK
<1>2. ASSUME NEW a \in Others, NEW id \in PeerId, NEW o \in PeerObj,
             wallet[a] >= MIN_STAKE, register(a, id, MIN_STAKE, o)
      PROVE  PeersKept /\ StakingNext
    <2>1. a \in Addr /\ a # Me /\ MIN_STAKE \in 0 .. wallet[a]
        BY <1>0, <1>2 DEF Others
    <2>2. StakingNext
        BY <1>2, <2>1 DEF StakingNext
    <2> QED
        BY <1>2, <2>1, <2>2, RegisterPeersKept
<1>3. ASSUME NEW a \in Others, NEW o \in DOMAIN objects,
             wallet[a] >= Amount, add_stake(a, o, Amount)
      PROVE  PeersKept /\ StakingNext
    <2>1. a \in Addr /\ Amount \in 0 .. wallet[a]
        BY <1>0, <1>3 DEF Others
    <2>2. StakingNext
        BY <1>3, <2>1 DEF StakingNext
    <2> DEFINE e == [objects[o] EXCEPT !.bond = @ + Amount]
    <2>3. /\ objects' = [objects EXCEPT ![o] = e] /\ peers' = peers
          /\ e.peer_id = objects[o].peer_id
        BY <1>0, <1>3 DEF add_stake, PeerObject
    <2> HIDE DEF e
    <2> QED
        BY <1>1, <2>2, <2>3, ObjectPeersKept
<1>4. ASSUME NEW a \in Others, NEW o \in DOMAIN objects, unstake(a, o, Amount)
      PROVE  PeersKept /\ StakingNext
    <2>1. a \in Addr /\ Amount \in 0 .. objects[o].bond
        BY <1>0, <1>4 DEF Others, unstake, unstake_ok, PeerObject
    <2>2. StakingNext
        BY <1>4, <2>1 DEF StakingNext
    <2> DEFINE e == [objects[o] EXCEPT !.bond = @ - Amount]
    <2>3. /\ objects' = [objects EXCEPT ![o] = e] /\ peers' = peers
          /\ e.peer_id = objects[o].peer_id
        BY <1>0, <1>4 DEF unstake, PeerObject
    <2> HIDE DEF e
    <2> QED
        BY <1>1, <2>2, <2>3, ObjectPeersKept
<1>5. ASSUME NEW o \in DOMAIN objects, slash(o, Amount)
      PROVE  PeersKept /\ StakingNext
    <2>1. Amount \in 0 .. objects[o].bond
        BY <1>0, <1>5 DEF slash, PeerObject
    <2>2. StakingNext
        BY <1>5, <2>1 DEF StakingNext
    <2> DEFINE e == [objects[o] EXCEPT !.bond = @ - Amount]
    <2>3. /\ objects' = [objects EXCEPT ![o] = e] /\ peers' = peers
          /\ e.peer_id = objects[o].peer_id
        BY <1>0, <1>5 DEF slash, PeerObject
    <2> HIDE DEF e
    <2> QED
        BY <1>1, <2>2, <2>3, ObjectPeersKept
<1>6. ASSUME NEW o \in DOMAIN objects, deactivate(o)
      PROVE  PeersKept /\ StakingNext
    <2>1. StakingNext
        BY <1>6 DEF StakingNext
    <2> DEFINE e == [objects[o] EXCEPT !.is_active = FALSE]
    <2>2. /\ objects' = [objects EXCEPT ![o] = e] /\ peers' = peers
          /\ e.peer_id = objects[o].peer_id
        BY <1>0, <1>6 DEF deactivate, PeerObject
    <2> HIDE DEF e
    <2> QED
        BY <1>1, <2>1, <2>2, ObjectPeersKept
<1>7. ASSUME NEW a \in Addr, transfer_cap(a) PROVE PeersKept /\ StakingNext
    <2>1. StakingNext
        BY <1>7 DEF StakingNext
    <2> QED
        BY <1>1, <1>7, <2>1 DEF transfer_cap, PeersKept, Current
<1>8. PeersKept /\ StakingNext
    BY <1>2, <1>3, <1>4, <1>5, <1>6, <1>7 DEF WorldStaking
<1> QED
    BY <1>1, <1>8

\* This wallet's registration and its change of the peer id.
LEMMA OwnRegisterKeeps ==
    ASSUME SInv, NEW o \in PeerObj, wallet[Me] >= MIN_STAKE,
           register(Me, MyPeerId, MIN_STAKE, o)
    PROVE  PeersKept /\ Current' /\ wallet' \in [Addr -> Nat] /\ StakingNext
<1>1. Me \in Addr /\ MyPeerId \in PeerId /\ MIN_STAKE \in 0 .. wallet[Me]
    BY WalletAssumption, StakingAssumption DEF SInv, StakingTypeOK
<1>2. PeersKept /\ Current'
    BY <1>1, RegisterPeersKept
<1>3. StakingNext
    BY <1>1 DEF StakingNext
<1> QED
    BY <1>2, <1>3 DEF PeersKept, SInv, StakingTypeOK

LEMMA OwnUpdateKeeps ==
    ASSUME SInv, Me \in DOMAIN peers, update_peer_id(Me, peers[Me], MyPeerId)
    PROVE  PeersKept /\ Current' /\ wallet' \in [Addr -> Nat] /\ StakingNext
<1> DEFINE o == peers[Me]
           e == [objects[o] EXCEPT !.peer_id = MyPeerId]
<1>1. Me \in Addr /\ MyPeerId \in PeerId
    BY WalletAssumption
<1>2. o \in DOMAIN objects /\ objects[o] \in PeerObject
    BY DEF SInv, RegistryExact, StakingTypeOK
<1>3. StakingNext
    BY <1>1, <1>2 DEF StakingNext
<1>4. SInv'
    BY <1>3, SInvNext
<1>5. /\ objects' = [objects EXCEPT ![o] = e] /\ peers' = peers
      /\ e.peer_id = MyPeerId
    BY <1>2 DEF update_peer_id, PeerObject
<1>6. Current'
    BY <1>2, <1>5 DEF Current
<1> HIDE DEF e, o
<1>7. PeersKept
    BY <1>2, <1>4, <1>5, ObjectPeersKept
<1> QED
    BY <1>3, <1>4, <1>6, <1>7 DEF SInv, StakingTypeOK

-----------------------------------------------------------------------------
(* The chain as a whole.                                                   *)

ChainKept == ChainInv' /\ PeersKept /\ VaultsKept

\* A step of the registry beside the vaults, and one of the vaults beside
\* the registry.
LEMMA RegistryStep ==
    ASSUME ChainInv, PeersKept, wallet' \in [Addr -> Nat], UNCHANGED vaultVars
    PROVE  ChainKept /\ (Claimable => Claimable')
<1>1. vaults' = vaults /\ certs' = certs /\ registry' = registry
    BY DEF vaultVars
<1>2. VP!IInv'
    BY <1>1 DEF ChainInv, VP!IInv, VP!TypeOK, VP!SharesBacked, VP!FiniteUnits,
                VP!Solvent, VP!Positive, VP!BoundedCommission
<1> QED
    BY <1>1, <1>2 DEF ChainKept, ChainInv, PeersKept, VaultsKept, CertsKept,
                      Claimable

LEMMA VaultStep ==
    ASSUME ChainInv, VaultsKept, UNCHANGED peerVars
    PROVE  ChainKept
<1>1. peers' = peers /\ objects' = objects /\ cap' = cap
    BY DEF peerVars
<1>2. wallet' \in [Addr -> Nat]
    BY DEF VaultsKept, VP!IInv, VP!TypeOK
<1>3. SInv'
    BY <1>1, <1>2 DEF ChainInv, SInv, StakingTypeOK, RegistryExact
<1>4. PeersKept
    BY <1>1, <1>3 DEF PeersKept, Current
<1> QED
    BY <1>3, <1>4 DEF ChainKept, ChainInv, VaultsKept

LEMMA WorldVaultsKeeps ==
    ASSUME ChainInv, WorldVaults
    PROVE  ChainKept /\ (Claimable => Claimable')
<1>0. Amount \in Nat /\ wallet \in [Addr -> Nat] /\ Others \subseteq Addr
    BY WalletAssumption DEF V!U64, Others, ChainInv, SInv, StakingTypeOK
<1>1. ASSUME NEW a \in Others, wallet[a] >= Amount
      PROVE  a \in Addr /\ Amount \in 0 .. wallet[a]
    BY <1>0, <1>1
<1>2. VaultsKept /\ (Claimable => Claimable')
    <2>1. CASE \E v \in VaultId, a \in Others : V!new_vault(v, a)
        BY <1>0, <2>1, NewVaultKeeps
    <2>2. CASE \E a \in Addr, v \in DOMAIN vaults : V!add_vault(a, v)
        BY <2>2, AddVaultKeeps
    <2>3. CASE \E a \in Others, v \in DOMAIN vaults, c \in NewCert :
                    wallet[a] >= Amount /\ V!delegate(a, v, Amount, c)
        BY <1>1, <2>3, DelegateKeeps
    <2>4. CASE \E a \in Others, v \in DOMAIN vaults, c \in DOMAIN certs :
                    V!undelegate(a, v, c)
        BY <1>0, <2>4, UndelegateKeeps
    <2>5. CASE \E a, b \in Addr, c \in DOMAIN certs : V!transfer_cert(a, c, b)
        BY <2>5, TransferCertKeeps
    <2>6. CASE \E a \in Others, v \in DOMAIN vaults :
                    wallet[a] >= Amount /\ V!pay(a, v, Amount)
        BY <1>1, <2>6, PayKeeps
    <2>7. CASE \E a \in Others, v \in DOMAIN vaults : V!claim_earnings(a, v)
        <3>1. PICK a \in Others, v \in DOMAIN vaults : V!claim_earnings(a, v)
            BY <2>7
        <3>2. a \in Addr /\ a # Me
            BY DEF Others
        <3> QED
            BY <3>1, <3>2, ClaimKeeps
    <2> QED
        BY <2>1, <2>2, <2>3, <2>4, <2>5, <2>6, <2>7 DEF WorldVaults
<1> QED
    BY <1>2, VaultStep DEF WorldVaults

-----------------------------------------------------------------------------
(* The transactions of this wallet.                                        *)

\* A sent transaction names what it needs.
LEMMA TxTyped ==
    ASSUME LocalTypes, NEW c \in CallId
    PROVE  /\ tx[c] \in Txs /\ call[c] \in Calls
           /\ tx[c].wal \in Nat
    BY DEF LocalTypes, Txs

\* Its vault is the one of the configuration, and the coins are there.
LEMMA InputsThere ==
    ASSUME WInv, NEW x, InputsLive(x), x.wal \in Nat
    PROVE  /\ x.wal \in 0 .. wallet[Me]
           /\ x.obj \in VaultId =>
                    x.obj = ConfigVault /\ x.obj \in DOMAIN vaults
           /\ x.fn = "undelegate" => x.cert \in DOMAIN certs
<1>1. wallet[Me] \in Nat
    BY WalletAssumption DEF WInv, ChainInv, SInv, StakingTypeOK
<1> QED
    BY <1>1 DEF InputsLive, SharedVersionRight, WInv, ChainInv

\* What the execution of one of them does.
OwnMoved(x) ==
    /\ ChainKept
    /\ x.fn # "claim_earnings" => (Claimable => Claimable')
    /\ x.fn \in {"register", "update_peer_id"} => Current'
    /\ x.fn = "new_vault" => Me \in DOMAIN registry'
    /\ StakingNext \/ UNCHANGED <<peers, objects>>

LEMMA MoveKeeps ==
    ASSUME WInv, NEW c \in CallId, InputsLive(tx[c]), Move(tx[c])
    PROVE  OwnMoved(tx[c])
<1> DEFINE x == tx[c]
<1>0. /\ CallInv(c) /\ LocalTypes /\ ChainInv /\ SInv /\ x.wal \in Nat
      /\ Me \in Addr
    BY TxTyped, WalletAssumption DEF WInv, ChainInv
<1>1. /\ x.wal \in 0 .. wallet[Me]
      /\ x.obj \in VaultId => x.obj = ConfigVault /\ x.obj \in DOMAIN vaults
      /\ x.fn = "undelegate" => x.cert \in DOMAIN certs
    BY <1>0, InputsThere
<1>2. TxFits(c)
    BY <1>0 DEF CallInv
<1>3. ASSUME x.fn = "register", UNCHANGED vaultVars,
             \E o \in PeerObj : register(Me, MyPeerId, x.wal, o)
      PROVE  OwnMoved(x)
    <2>1. PICK o \in PeerObj : register(Me, MyPeerId, x.wal, o)
        BY <1>3
    <2>2. x.wal = MIN_STAKE
        BY <1>2, <1>3 DEF TxFits
    <2>3. wallet[Me] >= MIN_STAKE
        BY <2>2 DEF InputsLive
    <2>4. PeersKept /\ Current' /\ wallet' \in [Addr -> Nat] /\ StakingNext
        BY <1>0, <2>1, <2>2, <2>3, OwnRegisterKeeps
    <2> QED
        BY <1>0, <1>3, <2>4, RegistryStep DEF OwnMoved
<1>4. ASSUME x.fn = "update_peer_id", UNCHANGED vaultVars,
             update_peer_id(Me, x.obj, MyPeerId)
      PROVE  OwnMoved(x)
    <2>1. Me \in DOMAIN peers /\ x.obj = peers[Me]
        BY <1>2, <1>4 DEF TxFits
    <2>2. PeersKept /\ Current' /\ wallet' \in [Addr -> Nat] /\ StakingNext
        BY <1>0, <1>4, <2>1, OwnUpdateKeeps
    <2> QED
        BY <1>0, <1>4, <2>2, RegistryStep DEF OwnMoved
<1>5. ASSUME x.fn = "new_vault", UNCHANGED peerVars,
             \E v \in VaultId : V!new_vault(v, Me)
      PROVE  OwnMoved(x)
    <2>1. /\ VaultsKept /\ (Claimable => Claimable')
          /\ Me \in DOMAIN registry'
        BY <1>0, <1>5, NewVaultKeeps
    <2> QED
        BY <1>0, <1>5, <2>1, VaultStep DEF OwnMoved, peerVars
<1>6. ASSUME x.fn = "claim_earnings", UNCHANGED peerVars,
             V!claim_earnings(Me, x.obj)
      PROVE  OwnMoved(x)
    <2>1. x.obj \in DOMAIN vaults
        BY <1>1, <1>2, <1>6 DEF TxFits
    <2>2. VaultsKept
        BY <1>0, <1>6, <2>1, ClaimKeeps
    <2> QED
        BY <1>0, <1>6, <2>2, VaultStep DEF OwnMoved, peerVars
<1>7. ASSUME x.fn = "delegate", UNCHANGED peerVars,
             \E d \in NewCert : V!delegate(Me, x.obj, x.wal, d)
      PROVE  OwnMoved(x)
    <2>1. x.obj \in DOMAIN vaults
        BY <1>1, <1>2, <1>7 DEF TxFits
    <2>2. VaultsKept /\ (Claimable => Claimable')
        BY <1>0, <1>1, <1>7, <2>1, DelegateKeeps
    <2> QED
        BY <1>0, <1>7, <2>2, VaultStep DEF OwnMoved, peerVars
<1>8. ASSUME x.fn = "undelegate", UNCHANGED peerVars,
             V!undelegate(Me, x.obj, x.cert)
      PROVE  OwnMoved(x)
    <2>1. x.obj \in DOMAIN vaults
        BY <1>1, <1>2, <1>8 DEF TxFits
    <2>2. VaultsKept /\ (Claimable => Claimable')
        BY <1>0, <1>1, <1>8, <2>1, UndelegateKeeps
    <2> QED
        BY <1>0, <1>8, <2>2, VaultStep DEF OwnMoved, peerVars
<1>9. ASSUME x.fn = "pay", UNCHANGED peerVars, V!pay(Me, x.obj, x.wal)
      PROVE  OwnMoved(x)
    <2>1. x.obj \in DOMAIN vaults
        BY <1>1, <1>2, <1>9 DEF TxFits
    <2>2. VaultsKept /\ (Claimable => Claimable')
        BY <1>0, <1>1, <1>9, <2>1, PayKeeps
    <2> QED
        BY <1>0, <1>9, <2>2, VaultStep DEF OwnMoved, peerVars
<1> QED
    BY <1>3, <1>4, <1>5, <1>6, <1>7, <1>8, <1>9 DEF Move

\* Which transactions cannot abort when their inputs are there: a change of
\* the peer id, a redemption and a payment.
LEMMA AlwaysRuns ==
    ASSUME WInv, NEW c \in CallId, InputsLive(tx[c]),
           tx[c].fn \in {"update_peer_id", "undelegate", "pay"}
    PROVE  Runs(tx[c])
<1> DEFINE x == tx[c]
<1>0. /\ TxFits(c) /\ LocalTypes /\ ChainInv /\ SInv /\ VP!IInv
      /\ x.wal \in Nat
    BY TxTyped DEF WInv, ChainInv, CallInv
<1>1. /\ x.obj \in VaultId => x.obj \in DOMAIN vaults
      /\ x.fn = "undelegate" => x.cert \in DOMAIN certs
    BY <1>0, InputsThere
<1>2. ASSUME x.fn = "update_peer_id" PROVE Runs(x)
    <2>1. Me \in DOMAIN peers /\ x.obj = peers[Me]
        BY <1>0, <1>2 DEF TxFits
    <2>2. objects[x.obj].sui_address = Me
        BY <1>0, <2>1 DEF SInv, RegistryExact
    <2> QED
        BY <1>2, <2>2 DEF Runs
<1>3. ASSUME x.fn = "undelegate" PROVE Runs(x)
    <2>1. x.cert \in DOMAIN certs /\ x.obj = certs[x.cert].vault_id
        BY <1>0, <1>1, <1>3 DEF TxFits
    <2>2. VP!Redeemable(x.obj, vaults[x.obj], certs[x.cert])
        BY <1>0, <2>1, VaultAssumption, VP!Redeems
    <2>3. V!Redeemable(x.obj, vaults[x.obj], certs[x.cert])
        BY <2>2, Zenon DEF V!Redeemable, VP!Redeemable, V!RedeemValue,
            VP!RedeemValue, V!mul_div, VP!mul_div, V!mul_div_ok,
            VP!mul_div_ok, V!u128_mul_div, VP!u128_mul_div
    <2> QED
        BY <1>3, <2>3 DEF Runs
<1>4. ASSUME x.fn = "pay" PROVE Runs(x)
    <2>1. x.obj \in DOMAIN vaults /\ x.wal = Amount
        BY <1>0, <1>1, <1>4 DEF TxFits
    <2>2. Amount \in VP!U64 \ {0}
        BY WalletAssumption DEF V!U64, VP!U64
    <2>3. VP!collect_rewards_ok(vaults[x.obj], x.wal)
        BY <1>0, <2>1, <2>2, VaultAssumption, VP!Splits
    <2>4. V!collect_rewards_ok(vaults[x.obj], x.wal)
        BY <2>3, Zenon DEF V!collect_rewards_ok, VP!collect_rewards_ok,
            V!Commission, VP!Commission, V!mul_div, VP!mul_div, V!mul_div_ok,
            VP!mul_div_ok, V!u128_mul_div, VP!u128_mul_div
    <2> QED
        BY <1>4, <2>4 DEF Runs
<1> QED
    BY <1>2, <1>3, <1>4

-----------------------------------------------------------------------------
(* A step of the chain, seen by a call.                                    *)

\* A call that does not move keeps its invariant: what its transaction told
\* of the chain stays true.
LEMMA CallStays ==
    ASSUME ChainKept, NEW k \in CallId, CallInv(k),
           call'[k] = call[k], tx'[k] = tx[k], configured' = configured,
           met[k] => met'[k],
           \/ Claimable => Claimable'
           \/ tx[k].fn = "claim_earnings" /\ call[k].pc = "wait" => met'[k]
    PROVE  CallInv(k)'
<1>1. ArgFits(k)'
    BY DEF CallInv, ArgFits
<1>2. TxFits(k)'
    BY DEF CallInv, TxFits, ChainKept, PeersKept, VaultsKept, CertsKept
<1>3. TxTells(k)'
    BY DEF CallInv, TxTells, Executed, ChainKept, PeersKept, VaultsKept
<1>4. Done(k)'
    BY DEF CallInv, Done, ChainKept, PeersKept, VaultsKept
<1> QED
    BY <1>1, <1>2, <1>3, <1>4 DEF CallInv

LEMMA WorldKeeps == ASSUME WInv, World PROVE WInv'
<1>1. /\ world' \in 0 .. MaxWorld
      /\ call' = call /\ tx' = tx /\ met' = met /\ configured' = configured
      /\ faults' = faults
    BY WalletAssumption DEF World, WInv, LocalTypes
<1>2. ChainKept /\ (Claimable => Claimable')
    <2>1. ASSUME WorldStaking PROVE ChainKept /\ (Claimable => Claimable')
        <3>1. PeersKept /\ wallet' \in [Addr -> Nat]
            BY <2>1, WorldStakingKeeps DEF WInv, ChainInv
        <3> QED
            BY <2>1, <3>1, RegistryStep DEF WInv, WorldStaking
    <2> QED
        BY <2>1, WorldVaultsKeeps DEF WInv, World
<1>3. LocalTypes'
    BY <1>1 DEF WInv, LocalTypes
<1>4. \A k \in CallId : CallInv(k)'
    BY <1>1, <1>2, CallStays DEF WInv
<1> QED
    BY <1>2, <1>3, <1>4 DEF WInv, ChainKept

\* The state of the chain does not change.
LEMMA ChainStays == ASSUME ChainInv, UNCHANGED chainVars PROVE ChainKept
<1>1. /\ vaults' = vaults /\ certs' = certs /\ registry' = registry
      /\ peers' = peers /\ objects' = objects /\ cap' = cap
      /\ wallet' = wallet
    BY DEF chainVars, vaultVars, peerVars
<1>2. PeersKept
    BY <1>1 DEF ChainInv, SInv, StakingTypeOK, RegistryExact, PeersKept, Current
<1>3. wallet' \in [Addr -> Nat] /\ UNCHANGED vaultVars
    BY <1>1 DEF ChainInv, SInv, StakingTypeOK, vaultVars
<1> QED
    BY <1>2, <1>3, RegistryStep

\* A transaction is executed.
LEMMA ExecuteKeeps ==
    ASSUME WInv, NEW c \in CallId, Execute(c)
    PROVE  WInv' /\ (StakingNext \/ UNCHANGED <<peers, objects>>)
<1>0. /\ ChainInv /\ LocalTypes /\ CallInv(c)
      /\ tx[c].status = "sent" /\ InputsLive(tx[c])
      /\ call' = call /\ configured' = configured
      /\ world' = world /\ faults' = faults
      /\ tx \in [CallId -> Txs] /\ tx[c] \in Txs
    BY DEF WInv, Execute, boundVars, LocalTypes
<1>1. ASSUME NEW s \in {"applied", "aborted"},
             tx' = [tx EXCEPT ![c].status = s]
      PROVE  /\ tx' \in [CallId -> Txs]
             /\ \A k \in CallId \ {c} : tx'[k] = tx[k]
             /\ tx'[c].fn = tx[c].fn /\ tx'[c].obj = tx[c].obj
             /\ tx'[c].cert = tx[c].cert /\ tx'[c].wal = tx[c].wal
             /\ tx'[c].status = s
    <2>1. [tx[c] EXCEPT !.status = s] \in Txs
        BY <1>0, <1>1 DEF Txs
    <2> QED
        BY <1>0, <1>1, <2>1 DEF Txs
<1>2. CASE /\ Runs(tx[c]) /\ Move(tx[c])
           /\ tx' = [tx EXCEPT ![c].status = "applied"]
           /\ met' = [k \in CallId |->
                        \/ met[k] \/ k = c
                        \/ /\ tx[c].fn = "claim_earnings"
                           /\ call[k].op = "claim" /\ call[k].pc = "wait"]
    <2>1. OwnMoved(tx[c])
        BY <1>0, <1>2, MoveKeeps
    <2>2. ChainKept /\ ChainInv'
        BY <2>1 DEF OwnMoved, ChainKept
    <2>3. /\ met' \in [CallId -> BOOLEAN] /\ met'[c]
          /\ \A k \in CallId : met[k] => met'[k]
          /\ \A k \in CallId : /\ tx[c].fn = "claim_earnings"
                               /\ call[k].op = "claim" /\ call[k].pc = "wait"
                               => met'[k]
        <3>1. met \in [CallId -> BOOLEAN]
            BY <1>0 DEF LocalTypes
        <3> QED
            BY <1>2, <3>1, Zenon
    <2>4. LocalTypes'
        BY <1>0, <1>1, <1>2, <2>3 DEF LocalTypes
    <2>5. ASSUME NEW k \in CallId \ {c} PROVE CallInv(k)'
        <3>1. CallInv(k) /\ tx'[k] = tx[k] /\ (met[k] => met'[k])
            BY <1>1, <1>2, <2>3 DEF WInv
        <3>2. \/ Claimable => Claimable'
              \/ tx[k].fn = "claim_earnings" /\ call[k].pc = "wait" => met'[k]
            <4>1. CASE tx[c].fn # "claim_earnings"
                BY <2>1, <4>1 DEF OwnMoved
            <4>2. CASE tx[c].fn = "claim_earnings"
                <5>1. ASSUME tx[k].fn = "claim_earnings", call[k].pc = "wait"
                      PROVE  call[k].op = "claim"
                    BY <3>1, <5>1 DEF CallInv, TxFits, Sends
                <5> QED
                    BY <2>3, <4>2, <5>1
            <4> QED
                BY <4>1, <4>2
        <3> QED
            BY <1>0, <2>2, <3>1, <3>2, CallStays
    <2>6. CallInv(c)'
        <3>1. /\ tx'[c].fn = tx[c].fn /\ tx'[c].obj = tx[c].obj
              /\ tx'[c].cert = tx[c].cert /\ tx'[c].wal = tx[c].wal
              /\ tx'[c].status = "applied"
            BY <1>1, <1>2
        <3>2. ArgFits(c)'
            BY <1>0 DEF CallInv, ArgFits
        <3>3. TxFits(c)'
            BY <1>0, <2>2, <3>1
            DEF CallInv, TxFits, ChainKept, PeersKept, VaultsKept, CertsKept, None
        <3>4. TxTells(c)'
            <4>1. tx[c].fn = "claim_earnings" => tx[c].obj = ConfigVault
                BY <1>0 DEF CallInv, TxTells
            <4> QED
                BY <2>1, <2>3, <3>1, <4>1 DEF TxTells, OwnMoved, Executed
        <3>5. Done(c)'
            BY <1>0, <2>2, <2>3 DEF CallInv, Done, ChainKept, PeersKept, VaultsKept
        <3> QED
            BY <3>2, <3>3, <3>4, <3>5 DEF CallInv
    <2> QED
        BY <2>1, <2>2, <2>4, <2>5, <2>6 DEF WInv, OwnMoved
<1>3. CASE /\ ~Runs(tx[c])
           /\ tx' = [tx EXCEPT ![c].status = "aborted"]
           /\ UNCHANGED <<chainVars, met>>
    <2>1. ChainKept /\ ChainInv' /\ (Claimable => Claimable') /\ met' = met
        BY <1>0, <1>3, ChainStays
        DEF ChainKept, Claimable, chainVars, vaultVars
    <2>2. LocalTypes'
        BY <1>0, <1>1, <1>3 DEF LocalTypes
    <2>3. ASSUME NEW k \in CallId \ {c} PROVE CallInv(k)'
        <3>1. CallInv(k) /\ tx'[k] = tx[k]
            BY <1>1, <1>3 DEF WInv
        <3> QED
            BY <1>0, <2>1, <3>1, CallStays
    <2>4. CallInv(c)'
        <3>1. /\ tx'[c].fn = tx[c].fn /\ tx'[c].obj = tx[c].obj
              /\ tx'[c].cert = tx[c].cert /\ tx'[c].wal = tx[c].wal
              /\ tx'[c].status = "aborted"
            BY <1>1, <1>3
        <3>2. ArgFits(c)'
            BY <1>0 DEF CallInv, ArgFits
        <3>3. TxFits(c)'
            BY <1>0, <2>1, <3>1
            DEF CallInv, TxFits, ChainKept, PeersKept, VaultsKept, CertsKept, None
        <3>4. TxTells(c)'
            <4>1. tx[c].fn \notin {"update_peer_id", "undelegate", "pay"}
                BY <1>0, <1>3, AlwaysRuns
            <4>2. ASSUME tx[c].fn = "register" PROVE Current'
                <5>1. tx[c].wal = MIN_STAKE /\ ~register_ok(Me, tx[c].wal)
                    BY <1>0, <1>3, <4>2 DEF CallInv, TxFits, Runs
                <5>2. Me \in DOMAIN peers
                    BY <5>1, StakingAssumption DEF register_ok
                <5> QED
                    BY <1>0, <2>1, <4>2, <5>2
                    DEF CallInv, TxTells, ChainKept, PeersKept
            <4>3. ASSUME tx[c].fn = "new_vault" PROVE Me \in DOMAIN registry'
                <5>1. Me \in DOMAIN registry
                    BY <1>3, <4>3 DEF Runs
                <5> QED
                    BY <2>1, <5>1 DEF ChainKept, VaultsKept
            <4>4. ASSUME tx[c].fn = "claim_earnings"
                  PROVE  /\ tx[c].obj = ConfigVault
                         /\ call[c].pc = "wait" => met[c]
                <5>1. tx[c].obj = ConfigVault
                    BY <1>0, <4>4 DEF CallInv, TxTells
                <5>2. ~Claimable
                    BY <1>3, <4>4, <5>1 DEF Runs, Claimable
                <5> QED
                    BY <1>0, <4>4, <5>1, <5>2 DEF CallInv, TxTells
            <4> QED
                BY <1>0, <2>1, <3>1, <4>1, <4>2, <4>3, <4>4 DEF TxTells, Executed
        <3>5. Done(c)'
            BY <1>0, <2>1 DEF CallInv, Done, ChainKept, PeersKept, VaultsKept
        <3> QED
            BY <3>2, <3>3, <3>4, <3>5 DEF CallInv
    <2> QED
        BY <1>3, <2>1, <2>2, <2>3, <2>4 DEF WInv, chainVars, peerVars
<1> QED
    BY <1>2, <1>3 DEF Execute

-----------------------------------------------------------------------------
(* The steps of a call.                                                    *)

\* A step of call c alone.
LEMMA LocalStep ==
    ASSUME WInv, NEW c \in CallId,
           UNCHANGED <<chainVars, met, configured, world>>,
           faults' \in 0 .. MaxFaults,
           NEW d \in Calls, call' = [call EXCEPT ![c] = d],
           NEW x \in Txs, tx' = [tx EXCEPT ![c] = x],
           CallInv(c)'
    PROVE  WInv'
<1>1. ChainKept /\ ChainInv' /\ (Claimable => Claimable')
    BY ChainStays DEF WInv, ChainKept, Claimable, chainVars, vaultVars
<1>2. LocalTypes'
    BY DEF WInv, LocalTypes
<1>3. ASSUME NEW k \in CallId \ {c} PROVE CallInv(k)'
    <2>1. CallInv(k) /\ call'[k] = call[k] /\ tx'[k] = tx[k] /\ met' = met
          /\ configured' = configured
        BY DEF WInv, LocalTypes
    <2> QED
        BY <1>1, <2>1, CallStays
<1> QED
    BY <1>1, <1>2, <1>3 DEF WInv

\* A call moves on without a transaction.
LEMMA PcMoves ==
    ASSUME WInv, NEW c \in CallId,
           UNCHANGED <<chainVars, tx, met, configured, world>>,
           faults' \in 0 .. MaxFaults,
           NEW d \in Calls, call' = [call EXCEPT ![c] = d],
           d.op = call[c].op,
           d.pc \in {"check", "lookup", "build"} => tx[c].status = None,
           d.pc # "wait" /\ d.pc # "idle",
           ArgFits(c)', Done(c)'
    PROVE  WInv'
<1>1. /\ CallInv(c) /\ tx[c] \in Txs /\ tx' = [tx EXCEPT ![c] = tx[c]]
      /\ call'[c] = d /\ tx'[c] = tx[c] /\ met' = met
    BY DEF WInv, LocalTypes
<1>2. ChainKept
    BY ChainStays DEF WInv
<1>3. TxFits(c)'
    BY <1>1, <1>2
    DEF CallInv, TxFits, ChainKept, PeersKept, VaultsKept, CertsKept
<1>4. TxTells(c)'
    BY <1>1, <1>2 DEF CallInv, TxTells, Executed, ChainKept, PeersKept, VaultsKept
<1>5. CallInv(c)'
    BY <1>3, <1>4 DEF CallInv
<1> QED
    BY <1>1, <1>5, LocalStep

LEMMA GotoFacts ==
    ASSUME LocalTypes, NEW c \in CallId,
           NEW p \in {"check", "lookup", "build", "wait", "ok", "err",
                      "synthetic"},
           Goto(c, p)
    PROVE  \E d \in Calls :
                /\ call' = [call EXCEPT ![c] = d] /\ call'[c] = d
                /\ d.op = call[c].op /\ d.arg = call[c].arg /\ d.pc = p
<1> DEFINE d == [call[c] EXCEPT !.pc = p]
<1>1. call \in [CallId -> Calls] /\ call[c] \in Calls
    BY DEF LocalTypes
<1>2. d \in Calls /\ d.op = call[c].op /\ d.arg = call[c].arg /\ d.pc = p
    BY <1>1 DEF Calls
<1>3. call' = [call EXCEPT ![c] = d] /\ call'[c] = d
    BY <1>1 DEF Goto
<1> QED
    BY <1>2, <1>3

LEMMA FaultCounted ==
    ASSUME LocalTypes, Fault \/ NoFault PROVE faults' \in 0 .. MaxFaults
    BY WalletAssumption DEF LocalTypes, Fault, NoFault

\* A call gives up: nothing is reported, whatever its transaction still does.
LEMMA FailKeeps ==
    ASSUME WInv, NEW c \in CallId, NEW p \in {"err", "synthetic"},
           Goto(c, p), Fault \/ NoFault,
           UNCHANGED <<chainVars, tx, met, configured, world>>
    PROVE  WInv'
<1>1. LocalTypes
    BY DEF WInv
<1>2. PICK d \in Calls :
                /\ call' = [call EXCEPT ![c] = d] /\ call'[c] = d
                /\ d.op = call[c].op /\ d.arg = call[c].arg /\ d.pc = p
    BY <1>1, GotoFacts
<1>3. ArgFits(c)' /\ Done(c)'
    BY <1>2 DEF ArgFits, Done
<1>4. d.pc \notin {"check", "lookup", "build", "wait", "idle"}
    BY <1>2
<1> QED
    BY <1>1, <1>2, <1>3, <1>4, FaultCounted, PcMoves

LEMMA FailureIs == ASSUME NEW c \in CallId PROVE Failure(c) \in {"err", "synthetic"}
    BY DEF Failure

\* A call is made.
LEMMA StartKeeps ==
    ASSUME WInv, NEW c \in CallId, NEW op \in Ops,
           NEW arg \in VaultId \cup CertId \cup Addr \cup {None},
           Start(c, op, arg),
           op = "pay" => arg \in Addr, op = "delegate" => arg \in VaultId,
           op = "undelegate" => arg \in CertId
    PROVE  WInv'
<1> DEFINE p == IF configured THEN FirstStep(op) ELSE WithoutSettlement(op)
           d == [op |-> op, arg |-> arg, pc |-> p]
<1>0. /\ LocalTypes /\ CallInv(c) /\ call[c].pc = "idle"
      /\ call \in [CallId -> Calls] /\ tx \in [CallId -> Txs] /\ tx[c] \in Txs
      /\ call' = [call EXCEPT ![c] = d] /\ tx' = tx /\ met' = met
      /\ configured' = configured /\ world' = world /\ faults' = faults
      /\ UNCHANGED chainVars
    BY DEF WInv, LocalTypes, Start, boundVars
<1>1. /\ p \in {"build", "check", "lookup", "ok", "synthetic", "err"}
      /\ configured => p \in {"build", "check", "lookup"}
      /\ configured /\ op \in {"claim", "pay"} => p = "lookup"
      /\ p = "check" => op = "ensure"
      /\ ~configured => p \in {"ok", "synthetic", "err"}
    BY DEF FirstStep, WithoutSettlement
<1> HIDE DEF p
<1>2. d \in Calls
    BY <1>1 DEF Calls
<1>3. call'[c] = d
    BY <1>0
<1>4. tx'[c] = tx[c] /\ tx[c].status = None /\ tx' = [tx EXCEPT ![c] = tx[c]]
    BY <1>0 DEF CallInv, TxFits
<1>5. ChainKept
    BY <1>0, ChainStays DEF WInv
<1>6. ArgFits(c)'
    BY <1>0, <1>1, <1>3 DEF ArgFits
<1>7. TxFits(c)'
    BY <1>0, <1>1, <1>3, <1>4, <1>5
    DEF CallInv, TxFits, ChainKept, PeersKept, VaultsKept, CertsKept
<1>8. TxTells(c)'
    BY <1>0, <1>1, <1>3, <1>4, <1>5
    DEF CallInv, TxTells, Executed, ChainKept, PeersKept, VaultsKept
<1>9. Done(c)'
    BY <1>0, <1>1, <1>3 DEF Done
<1>10. faults' \in 0 .. MaxFaults /\ CallInv(c)'
    BY <1>0, <1>6, <1>7, <1>8, <1>9 DEF LocalTypes, CallInv
<1> HIDE DEF d
<1> QED
    BY <1>0, <1>2, <1>4, <1>10, LocalStep

\* A call sends a transaction it has simulated.
LEMMA SendKeeps ==
    ASSUME WInv, NEW c \in CallId, NEW x \in Txs,
           x.status = "sent", <<call[c].op, x.fn>> \in Sends,
           x.fn = "register" => x.wal = MIN_STAKE /\ Me \notin DOMAIN peers,
           x.fn = "update_peer_id" => Me \in DOMAIN peers /\ x.obj = peers[Me],
           x.fn \in {"claim_earnings", "delegate", "undelegate", "pay"} =>
                x.obj \in VaultId,
           x.fn = "undelegate" => /\ x.cert \in CertId
                                  /\ x.cert \in DOMAIN certs =>
                                        certs[x.cert].vault_id = x.obj,
           x.fn = "pay" => x.wal = Amount,
           x.fn = "claim_earnings" => x.obj = ConfigVault /\ Claimable,
           Goto(c, "wait"), tx' = [tx EXCEPT ![c] = x], Fault \/ NoFault,
           UNCHANGED <<chainVars, met, configured, world>>
    PROVE  WInv'
<1>1. LocalTypes /\ tx'[c] = x
    BY DEF WInv, LocalTypes
<1>2. PICK d \in Calls :
                /\ call' = [call EXCEPT ![c] = d] /\ call'[c] = d
                /\ d.op = call[c].op /\ d.arg = call[c].arg /\ d.pc = "wait"
    BY <1>1, GotoFacts
<1>3. /\ vaults' = vaults /\ certs' = certs /\ registry' = registry
      /\ peers' = peers /\ objects' = objects
    BY DEF chainVars, vaultVars, peerVars
<1>4. ArgFits(c)' /\ Done(c)'
    BY <1>2 DEF ArgFits, Done
<1>5. TxFits(c)'
    BY <1>1, <1>2, <1>3 DEF TxFits, None
<1>6. TxTells(c)'
    BY <1>1, <1>2, <1>3 DEF TxTells, Executed, Claimable
<1>7. CallInv(c)'
    BY <1>4, <1>5, <1>6 DEF CallInv
<1> QED
    BY <1>1, <1>2, <1>7, FaultCounted, LocalStep

\* A transaction that was built runs, or the call fails.
LEMMA SendOrFailKeeps ==
    ASSUME WInv, NEW c \in CallId, NEW x \in Txs, SendOrFail(c, x),
           x.status = "sent", <<call[c].op, x.fn>> \in Sends,
           x.fn # "update_peer_id",
           x.fn = "register" => x.wal = MIN_STAKE,
           x.fn \in {"claim_earnings", "delegate", "undelegate", "pay"} =>
                x.obj \in VaultId,
           x.fn = "undelegate" => /\ x.cert \in CertId
                                  /\ x.cert \in DOMAIN certs =>
                                        certs[x.cert].vault_id = x.obj,
           x.fn = "pay" => x.wal = Amount
    PROVE  WInv'
<1>0. UNCHANGED <<chainVars, met, configured, world>>
    BY DEF SendOrFail
<1>1. CASE /\ InputsLive(x) /\ Runs(x) /\ Goto(c, "wait")
           /\ tx' = [tx EXCEPT ![c] = x] /\ NoFault
    <2>1. x.fn = "register" => Me \notin DOMAIN peers
        BY <1>1 DEF Runs, register_ok
    <2>2. x.fn = "claim_earnings" => x.obj = ConfigVault /\ Claimable
        <3>1. x.wal \in Nat
            BY DEF Txs
        <3>2. x.fn = "claim_earnings" => x.obj = ConfigVault
            BY <1>1, <3>1, InputsThere
        <3> QED
            BY <1>1, <3>2 DEF Runs, Claimable
    <2> QED
        BY <1>0, <1>1, <2>1, <2>2, SendKeeps
<1>2. CASE Goto(c, Failure(c)) /\ (Fault \/ NoFault) /\ UNCHANGED tx
    BY <1>0, <1>2, FailureIs, FailKeeps
<1> QED
    BY <1>1, <1>2 DEF SendOrFail

\* The calls the requests make.
LEMMA StartsKeep ==
    ASSUME WInv, NEW c \in CallId,
           \/ handle_register(c) \/ handle_update_peer_id(c)
           \/ handle_create_vault(c) \/ handle_claim_earnings(c)
           \/ handle_delegate(c) \/ handle_undelegate(c)
           \/ AutoRegister(c) \/ PayPeer(c)
    PROVE  WInv'
<1>1. ASSUME NEW op \in {"register", "update", "create_vault", "claim", "ensure"},
             Start(c, op, None)
      PROVE  WInv'
    <2>1. op \in Ops /\ op \notin {"pay", "delegate", "undelegate"}
        BY <1>1 DEF Ops
    <2> QED
        BY <1>1, <2>1, StartKeeps
<1>2. ASSUME NEW v \in DOMAIN vaults, Start(c, "delegate", v) PROVE WInv'
    <2>1. v \in VaultId /\ "delegate" \in Ops
        BY DEF WInv, ChainInv, VP!IInv, VP!TypeOK, Ops
    <2> QED
        BY <1>2, <2>1, StartKeeps
<1>3. ASSUME NEW k \in CertId, Start(c, "undelegate", k) PROVE WInv'
    <2>1. "undelegate" \in Ops
        BY DEF Ops
    <2> QED
        BY <1>3, <2>1, StartKeeps
<1>4. ASSUME NEW a \in Others, Start(c, "pay", a) PROVE WInv'
    <2>1. a \in Addr /\ "pay" \in Ops
        BY DEF Others, Ops
    <2> QED
        BY <1>4, <2>1, StartKeeps
<1> QED
    BY <1>1, <1>2, <1>3, <1>4
    DEF handle_register, handle_update_peer_id, handle_create_vault,
        handle_claim_earnings, handle_delegate, handle_undelegate,
        AutoRegister, PayPeer

\* The amounts of the builders are amounts.
LEMMA Amounts == Amount \in Nat /\ MIN_STAKE \in Nat
    BY WalletAssumption, StakingAssumption DEF V!U64

\* ensure_peer_registered looks the registration up.
LEMMA EnsureKeeps ==
    ASSUME WInv, NEW c \in CallId, ensure_peer_registered(c) PROVE WInv'
<1>0. /\ LocalTypes /\ CallInv(c) /\ tx[c].status = None
      /\ call[c].op = "ensure"
      /\ UNCHANGED <<chainVars, tx, met, configured, world>>
    BY DEF WInv, ensure_peer_registered, CallInv, ArgFits, TxFits
<1>1. PICK p \in {"lookup", "build"} : Goto(c, p) /\ (Fault \/ NoFault)
    BY Zenon DEF ensure_peer_registered, is_peer_registered, Listed
<1>2. PICK d \in Calls :
                /\ call' = [call EXCEPT ![c] = d] /\ call'[c] = d
                /\ d.op = call[c].op /\ d.arg = call[c].arg /\ d.pc = p
    BY <1>0, <1>1, GotoFacts
<1>3. ArgFits(c)' /\ Done(c)'
    BY <1>0, <1>2 DEF ArgFits, Done
<1>4. faults' \in 0 .. MaxFaults
    BY <1>0, <1>1, FaultCounted
<1> QED
    BY <1>0, <1>2, <1>3, <1>4, PcMoves

\* The calls that build one transaction.
LEMMA BuildersKeep ==
    ASSUME WInv, NEW c \in CallId,
           \/ register_peer(c) \/ create_vault_call(c)
           \/ claim_earnings_send(c) \/ delegate_call(c) \/ try_onchain_pay(c)
    PROVE  WInv'
<1>0. ArgFits(c)
    BY DEF WInv, CallInv
<1>1. CASE register_peer(c)
    <2> DEFINE x == Tx("register", None, None, MIN_STAKE)
    <2>1. /\ x \in Txs /\ x.fn = "register" /\ x.wal = MIN_STAKE
          /\ x.status = "sent"
        BY Amounts DEF Tx, Txs
    <2>2. <<call[c].op, "register">> \in Sends
        BY <1>1 DEF register_peer, Sends
    <2>3. SendOrFail(c, x)
        BY <1>1 DEF register_peer, build_register_transaction
    <2> HIDE DEF x
    <2> QED
        BY <2>1, <2>2, <2>3, SendOrFailKeeps
<1>2. CASE create_vault_call(c)
    <2> DEFINE x == Tx("new_vault", None, None, 0)
    <2>1. x \in Txs /\ x.fn = "new_vault" /\ x.status = "sent"
        BY DEF Tx, Txs
    <2>2. <<call[c].op, "new_vault">> \in Sends
        BY <1>2 DEF create_vault_call, Sends
    <2>3. SendOrFail(c, x)
        BY <1>2 DEF create_vault_call, build_create_vault_transaction
    <2> HIDE DEF x
    <2> QED
        BY <2>1, <2>2, <2>3, SendOrFailKeeps
<1>3. CASE claim_earnings_send(c)
    <2> DEFINE x == Tx("claim_earnings", call[c].arg, None, 0)
    <2>0. call[c].arg \in VaultId
        BY <1>0, <1>3 DEF claim_earnings_send, ArgFits
    <2>1. /\ x \in Txs /\ x.fn = "claim_earnings" /\ x.obj \in VaultId
          /\ x.status = "sent"
        BY <2>0 DEF Tx, Txs
    <2>2. <<call[c].op, "claim_earnings">> \in Sends
        BY <1>3 DEF claim_earnings_send, Sends
    <2>3. SendOrFail(c, x)
        BY <1>3 DEF claim_earnings_send, build_claim_earnings_transaction
    <2> HIDE DEF x
    <2> QED
        BY <2>1, <2>2, <2>3, SendOrFailKeeps
<1>4. CASE delegate_call(c)
    <2> DEFINE x == Tx("delegate", call[c].arg, None, Amount)
    <2>0. call[c].arg \in VaultId
        BY <1>0, <1>4 DEF delegate_call, ArgFits
    <2>1. /\ x \in Txs /\ x.fn = "delegate" /\ x.obj \in VaultId
          /\ x.status = "sent"
        BY <2>0, Amounts DEF Tx, Txs
    <2>2. <<call[c].op, "delegate">> \in Sends
        BY <1>4 DEF delegate_call, Sends
    <2>3. SendOrFail(c, x)
        BY <1>4 DEF delegate_call, build_delegate_transaction
    <2> HIDE DEF x
    <2> QED
        BY <2>1, <2>2, <2>3, SendOrFailKeeps
<1>5. CASE try_onchain_pay(c)
    <2> DEFINE x == Tx("pay", call[c].arg, None, Amount)
    <2>0. call[c].arg \in VaultId
        BY <1>0, <1>5 DEF try_onchain_pay, ArgFits
    <2>1. /\ x \in Txs /\ x.fn = "pay" /\ x.obj \in VaultId /\ x.wal = Amount
          /\ x.status = "sent"
        BY <2>0, Amounts DEF Tx, Txs
    <2>2. <<call[c].op, "pay">> \in Sends
        BY <1>5 DEF try_onchain_pay, Sends
    <2>3. SendOrFail(c, x)
        BY <1>5 DEF try_onchain_pay, build_pay_transaction
    <2> HIDE DEF x
    <2> QED
        BY <2>1, <2>2, <2>3, SendOrFailKeeps
<1> QED
    BY <1>1, <1>2, <1>3, <1>4, <1>5

\* undelegate looks its certificate up and sends the transaction at once.
LEMMA UndelegateCallKeeps ==
    ASSUME WInv, NEW c \in CallId, undelegate_call(c) PROVE WInv'
<1> DEFINE k == call[c].arg
<1>0. k \in CertId
    BY DEF WInv, CallInv, ArgFits, undelegate_call
<1>1. CASE k \in DOMAIN certs
    <2> DEFINE x == Tx("undelegate", certs[k].vault_id, k, 0)
    <2>1. certs[k].vault_id \in VaultId
        BY <1>1, VaultTypes DEF WInv, ChainInv, VP!ShareCertificate
    <2>2. /\ x \in Txs /\ x.fn = "undelegate" /\ x.obj = certs[k].vault_id
          /\ x.cert = k /\ x.status = "sent"
        BY <1>0, <2>1 DEF Tx, Txs
    <2>3. <<call[c].op, "undelegate">> \in Sends
        BY DEF undelegate_call, Sends
    <2>4. SendOrFail(c, x)
        BY <1>1 DEF undelegate_call, build_undelegate_transaction
    <2> HIDE DEF x
    <2> QED
        BY <1>0, <2>1, <2>2, <2>3, <2>4, SendOrFailKeeps
<1>2. CASE k \notin DOMAIN certs
    <2>1. Goto(c, "err") /\ UNCHANGED <<chainVars, tx, met, boundVars>>
        BY <1>2 DEF undelegate_call
    <2> QED
        BY <2>1, FailKeeps DEF boundVars, NoFault
<1> QED
    BY <1>1, <1>2

\* update_peer_id: not registered, up to date, or a transaction.
LEMMA UpdateCallKeeps ==
    ASSUME WInv, NEW c \in CallId, update_peer_id_call(c) PROVE WInv'
<1>0. /\ LocalTypes /\ CallInv(c) /\ SInv
      /\ call[c].op \in {"update", "ensure"} /\ call[c].pc = "lookup"
      /\ UNCHANGED <<chainVars, met, configured, world>>
    BY DEF WInv, ChainInv, update_peer_id_call
<1>1. CASE Goto(c, "err") /\ UNCHANGED tx /\ (Fault \/ NoFault)
    BY <1>0, <1>1, FailKeeps
<1>2. CASE /\ Current /\ Goto(c, "ok") /\ UNCHANGED tx /\ (Fault \/ NoFault)
    <2>1. PICK d \in Calls :
                /\ call' = [call EXCEPT ![c] = d] /\ call'[c] = d
                /\ d.op = call[c].op /\ d.arg = call[c].arg /\ d.pc = "ok"
        BY <1>0, <1>2, GotoFacts
    <2>2. Current'
        BY <1>0, <1>2, ChainStays DEF WInv, ChainKept, PeersKept
    <2>3. ArgFits(c)' /\ Done(c)'
        BY <1>0, <2>1, <2>2 DEF ArgFits, Done
    <2>4. faults' \in 0 .. MaxFaults
        BY <1>0, <1>2, FaultCounted
    <2> QED
        BY <1>0, <1>2, <2>1, <2>3, <2>4, PcMoves
<1>3. CASE /\ Me \in DOMAIN peers /\ Goto(c, "wait") /\ (Fault \/ NoFault)
           /\ tx' = [tx EXCEPT ![c] =
                        build_update_peer_id_transaction(peers[Me])]
    <2> DEFINE x == Tx("update_peer_id", peers[Me], None, 0)
    <2>1. peers[Me] \in PeerObj
        BY <1>0, <1>3 DEF SInv, StakingTypeOK
    <2>2. /\ x \in Txs /\ x.fn = "update_peer_id" /\ x.obj = peers[Me]
          /\ x.status = "sent"
        BY <2>1 DEF Tx, Txs
    <2>3. <<call[c].op, "update_peer_id">> \in Sends
        BY <1>0 DEF Sends
    <2>4. tx' = [tx EXCEPT ![c] = x]
        BY <1>3 DEF build_update_peer_id_transaction
    <2> HIDE DEF x
    <2> QED
        BY <1>0, <1>3, <2>2, <2>3, <2>4, SendKeeps
<1>4. ASSUME NEW found \in BOOLEAN, get_registered_peer_info(found)
      PROVE  (Fault \/ NoFault) /\ (found => Me \in DOMAIN peers)
    BY <1>4, Zenon DEF get_registered_peer_info, Listed
<1> QED
    BY <1>1, <1>2, <1>3, <1>4, Zenon DEF update_peer_id_call, Current

\* claim_earnings and pay_wal look a vault up.
LEMMA LookupsKeep ==
    ASSUME WInv, NEW c \in CallId, claim_earnings_call(c) \/ pay_lookup(c)
    PROVE  WInv'
<1>0. /\ LocalTypes /\ CallInv(c) /\ call \in [CallId -> Calls]
      /\ call[c] \in Calls
      /\ call[c].op \in {"claim", "pay"} /\ call[c].pc = "lookup"
      /\ UNCHANGED <<chainVars, tx, met, configured, world>>
      /\ tx[c].status = None
    BY DEF WInv, LocalTypes, claim_earnings_call, pay_lookup, CallInv, TxFits
<1>1. ASSUME NEW v \in VaultId, Fault \/ NoFault,
             call' = [call EXCEPT ![c] = [@ EXCEPT !.pc = "build", !.arg = v]]
      PROVE  WInv'
    <2> DEFINE d == [call[c] EXCEPT !.pc = "build", !.arg = v]
    <2>1. d \in Calls /\ d.op = call[c].op /\ d.arg = v /\ d.pc = "build"
        BY <1>0 DEF Calls
    <2>2. call' = [call EXCEPT ![c] = d] /\ call'[c] = d
        BY <1>0, <1>1
    <2> HIDE DEF d
    <2>3. ArgFits(c)' /\ Done(c)'
        BY <1>0, <1>1, <2>1, <2>2 DEF ArgFits, Done
    <2>4. faults' \in 0 .. MaxFaults
        BY <1>0, <1>1, FaultCounted
    <2> QED
        BY <1>0, <2>1, <2>2, <2>3, <2>4, PcMoves
<1>2. ASSUME NEW a, NEW found \in BOOLEAN, list_peer_vaults(a, found)
      PROVE  (Fault \/ NoFault) /\ (found => registry[a] \in VaultId)
    <2>1. registry \in [DOMAIN registry -> VaultId]
        BY DEF WInv, ChainInv, VP!IInv, VP!TypeOK
    <2>2. (Fault \/ NoFault) /\ (found => a \in DOMAIN registry)
        BY <1>2, Zenon DEF list_peer_vaults, Listed
    <2> QED
        BY <2>1, <2>2
<1>3. CASE claim_earnings_call(c)
    <2>1. PICK found \in BOOLEAN :
                /\ list_peer_vaults(Me, found)
                /\ IF found THEN call' = [call EXCEPT ![c].pc = "build",
                                                      ![c].arg = registry[Me]]
                            ELSE Goto(c, "err")
        BY <1>3 DEF claim_earnings_call, get_my_vault_info
    <2>2. CASE found
        <3>1. call' = [call EXCEPT ![c] =
                            [@ EXCEPT !.pc = "build", !.arg = registry[Me]]]
            BY <1>0, <2>1, <2>2
        <3> QED
            BY <1>1, <1>2, <2>1, <2>2, <3>1
    <2>3. CASE ~found
        BY <1>0, <1>2, <2>1, <2>3, FailKeeps
    <2> QED
        BY <2>2, <2>3
<1>4. CASE pay_lookup(c)
    <2>1. CASE Fault /\ Goto(c, "synthetic")
        BY <1>0, <2>1, FailKeeps
    <2>2. CASE \E found \in BOOLEAN :
                /\ list_peer_vaults(call[c].arg, found)
                /\ call' = [call EXCEPT
                              ![c].pc = "build",
                              ![c].arg = get_vault_for_recipient(@, found)]
        <3>1. PICK found \in BOOLEAN :
                /\ list_peer_vaults(call[c].arg, found)
                /\ call' = [call EXCEPT
                              ![c].pc = "build",
                              ![c].arg = get_vault_for_recipient(@, found)]
            BY <2>2
        <3> DEFINE v == get_vault_for_recipient(call[c].arg, found)
        <3>2. v \in VaultId /\ (Fault \/ NoFault)
            BY <1>2, <3>1, WalletAssumption DEF get_vault_for_recipient
        <3>3. call' = [call EXCEPT ![c] = [@ EXCEPT !.pc = "build", !.arg = v]]
            BY <1>0, <3>1
        <3> HIDE DEF v
        <3> QED
            BY <1>1, <3>2, <3>3
    <2> QED
        BY <1>4, <2>1, <2>2 DEF pay_lookup
<1> QED
    BY <1>3, <1>4

\* execute_transaction_and_wait_for_checkpoint returns.
LEMMA AnsweredKeeps ==
    ASSUME WInv, NEW c \in CallId, Answered(c) PROVE WInv'
<1>0. /\ LocalTypes /\ CallInv(c) /\ call[c].pc = "wait"
      /\ UNCHANGED <<chainVars, tx, met, configured, world>>
    BY DEF WInv, Answered
<1>1. CASE Executed(c) /\ Goto(c, "ok") /\ NoFault
    <2>1. PICK d \in Calls :
                /\ call' = [call EXCEPT ![c] = d] /\ call'[c] = d
                /\ d.op = call[c].op /\ d.arg = call[c].arg /\ d.pc = "ok"
        BY <1>0, <1>1, GotoFacts
    <2>2. <<call[c].op, tx[c].fn>> \in Sends
        BY <1>0 DEF CallInv, TxFits
    <2>3. /\ call[c].op \in {"register", "update", "ensure"} => Current
          /\ call[c].op = "create_vault" => Me \in DOMAIN registry
          /\ call[c].op \in {"claim", "undelegate", "pay"} => met[c]
        BY <1>0, <1>1, <2>2 DEF CallInv, TxTells, Executed, Sends
    <2>4. ChainKept /\ met' = met
        BY <1>0, ChainStays DEF WInv
    <2>5. ArgFits(c)' /\ Done(c)'
        BY <2>1, <2>3, <2>4
        DEF ArgFits, Done, ChainKept, PeersKept, VaultsKept
    <2>6. faults' \in 0 .. MaxFaults
        BY <1>0, <1>1, FaultCounted
    <2> QED
        BY <1>0, <2>1, <2>5, <2>6, PcMoves
<1>2. CASE Goto(c, Failure(c)) /\ (Fault \/ NoFault)
    BY <1>0, <1>2, FailureIs, FailKeeps
<1> QED
    BY <1>1, <1>2 DEF Answered, Executed

\* A transaction is lost or refused.
LEMMA DropTxKeeps ==
    ASSUME WInv, NEW c \in CallId, DropTx(c) PROVE WInv'
<1> DEFINE x == [tx[c] EXCEPT !.status = "dropped"]
<1>0. /\ LocalTypes /\ CallInv(c) /\ tx[c].status = "sent"
      /\ tx \in [CallId -> Txs] /\ tx[c] \in Txs /\ call[c] \in Calls
      /\ call' = call /\ call' = [call EXCEPT ![c] = call[c]]
      /\ UNCHANGED <<chainVars, met, configured, world>>
      /\ Fault \/ NoFault
    BY DEF WInv, DropTx, LocalTypes
<1>1. /\ x \in Txs /\ x.fn = tx[c].fn /\ x.obj = tx[c].obj
      /\ x.cert = tx[c].cert /\ x.wal = tx[c].wal /\ x.status = "dropped"
    BY <1>0 DEF Txs
<1>2. tx' = [tx EXCEPT ![c] = x] /\ tx'[c] = x
    BY <1>0 DEF DropTx
<1> HIDE DEF x
<1>3. ChainKept
    BY <1>0, ChainStays DEF WInv
<1>4. ArgFits(c)' /\ Done(c)'
    BY <1>0, <1>3
    DEF CallInv, ArgFits, Done, ChainKept, PeersKept, VaultsKept
<1>5. TxFits(c)'
    BY <1>0, <1>1, <1>2, <1>3
    DEF CallInv, TxFits, ChainKept, PeersKept, VaultsKept, CertsKept, None
<1>6. TxTells(c)'
    BY <1>0, <1>1, <1>2, <1>3
    DEF CallInv, TxTells, Executed, ChainKept, PeersKept, VaultsKept
<1>7. CallInv(c)'
    BY <1>4, <1>5, <1>6 DEF CallInv
<1> QED
    BY <1>0, <1>1, <1>2, <1>7, FaultCounted, LocalStep

-----------------------------------------------------------------------------
(* The start, and all steps together.                                      *)

\* The chain in use at the start: one vault with one certificate.
LEMMA VaultsAtStart ==
    ASSUME NEW owner \in Addr, NEW holder \in Addr,
           NEW bps \in Commissions \cap 0 .. BPS, NEW c \in CertId,
           vaults = Put(V!EmptyTable, ConfigVault,
                        [V!EmptyVault(owner, bps) EXCEPT
                            !.reserves = Amount, !.total_shares = Amount,
                            !.peer_earnings = Amount]),
           certs = Put(V!EmptyTable, c, [vault_id |-> ConfigVault,
                                         shares |-> Amount, owner |-> holder]),
           registry \in {V!EmptyTable, Put(V!EmptyTable, owner, ConfigVault)},
           wallet = InitialWal
    PROVE  VP!IInv /\ ConfigVault \in DOMAIN vaults
<1> DEFINE f == [V!EmptyVault(owner, bps) EXCEPT
                    !.reserves = Amount, !.total_shares = Amount,
                    !.peer_earnings = Amount]
           e == [vault_id |-> ConfigVault, shares |-> Amount, owner |-> holder]
<1>0. /\ Amount \in VP!U64 /\ Amount \in Nat /\ Amount > 0
      /\ bps \in VP!U64 /\ bps <= BPS /\ ConfigVault \in VaultId
      /\ \A n \in VP!U64 : n \in Nat
    BY WalletAssumption DEF V!U64, VP!U64
<1>1. /\ f \in VP!PeerVaultObject /\ f.reserves = Amount
      /\ f.total_shares = Amount /\ f.commission_bps = bps
    BY <1>0 DEF V!EmptyVault, VP!PeerVaultObject
<1>2. /\ e \in VP!ShareCertificate /\ e.vault_id = ConfigVault
      /\ e.shares = Amount
    BY <1>0 DEF VP!ShareCertificate
<1>3. vaults = Put(V!EmptyTable, ConfigVault, f) /\ certs = Put(V!EmptyTable, c, e)
    OBVIOUS
<1> HIDE DEF f, e
<1>4. DOMAIN V!EmptyTable = {}
    BY DEF V!EmptyTable
<1>5. DOMAIN vaults = {ConfigVault} /\ vaults[ConfigVault] = f
    BY <1>3, <1>4 DEF Put
<1>6. DOMAIN certs = {c} /\ certs[c] = e
    BY <1>3, <1>4 DEF Put
<1>7. DOMAIN registry \subseteq Addr /\ registry \in [DOMAIN registry -> VaultId]
    <2>1. CASE registry = V!EmptyTable
        BY <2>1 DEF V!EmptyTable
    <2>2. CASE registry = Put(V!EmptyTable, owner, ConfigVault)
        BY <1>0, <1>4, <2>2 DEF Put
    <2> QED
        BY <2>1, <2>2
<1>8. VP!TypeOK
    <2>1. vaults \in [DOMAIN vaults -> VP!PeerVaultObject]
        BY <1>1, <1>3, <1>5 DEF Put
    <2>2. certs \in [DOMAIN certs -> VP!ShareCertificate]
        BY <1>2, <1>3, <1>6 DEF Put
    <2>3. wallet \in [Addr -> Nat]
        BY <1>0, VaultAssumption
    <2> QED
        BY <1>0, <1>5, <1>6, <1>7, <2>1, <2>2, <2>3 DEF VP!TypeOK
<1>9. /\ VP!ShareUnits(certs, ConfigVault) = {c} \X (1 .. Amount)
      /\ \A v : v # ConfigVault => VP!ShareUnits(certs, v) = {}
    BY <1>2, <1>6 DEF VP!ShareUnits
<1>10. VP!SharesBacked
    <2>1. VP!Cardinality({c} \X (1 .. Amount)) = Amount
        BY <1>0, VaultAssumption, VP!UnitsOf
    <2> QED
        BY <1>1, <1>2, <1>5, <1>6, <1>9, <2>1 DEF VP!SharesBacked
<1>11. VP!FiniteUnits
    <2>1. VP!IsFiniteSet({c} \X (1 .. Amount))
        BY <1>0, VaultAssumption, VP!UnitsOf
    <2>2. VP!IsFiniteSet({})
        BY VaultAssumption, VP!FS_EmptySet
    <2> QED
        BY <1>9, <2>1, <2>2 DEF VP!FiniteUnits
<1>12. VP!Solvent /\ VP!Positive /\ VP!BoundedCommission
    BY <1>0, <1>1, <1>2, <1>5, <1>6
    DEF VP!Solvent, VP!Positive, VP!BoundedCommission
<1> QED
    BY <1>5, <1>8, <1>10, <1>11, <1>12 DEF VP!IInv

\* Nobody is registered, or everybody with an object of their own.
LEMMA PeersAtStart ==
    ASSUME \/ peers = V!EmptyTable /\ objects = V!EmptyTable
           \/ \E id \in PeerId \ {MyPeerId}, p \in [Addr -> PeerObj] :
                /\ \A a, b \in Addr : p[a] = p[b] => a = b
                /\ peers = p
                /\ objects = [o \in {p[a] : a \in Addr} |->
                                [peer_id |-> id, bond |-> MIN_STAKE + Amount,
                                 sui_address |-> CHOOSE a \in Addr : p[a] = o,
                                 is_active |-> TRUE]],
           cap = Deployer, wallet = InitialWal
    PROVE  SInv
<1>0. cap \in Addr /\ wallet \in [Addr -> Nat] /\ MIN_STAKE + Amount \in Nat
    BY StakingAssumption, Amounts
<1>1. CASE peers = V!EmptyTable /\ objects = V!EmptyTable
    <2>1. DOMAIN peers = {} /\ DOMAIN objects = {}
        BY <1>1 DEF V!EmptyTable
    <2>2. peers \in [{} -> PeerObj] /\ objects \in [{} -> PeerObject]
        BY <1>1 DEF V!EmptyTable
    <2> QED
        BY <1>0, <2>1, <2>2 DEF SInv, StakingTypeOK, RegistryExact
<1>2. ASSUME NEW id \in PeerId \ {MyPeerId}, NEW p \in [Addr -> PeerObj],
             \A a, b \in Addr : p[a] = p[b] => a = b,
             peers = p,
             objects = [o \in {p[a] : a \in Addr} |->
                            [peer_id |-> id, bond |-> MIN_STAKE + Amount,
                             sui_address |-> CHOOSE a \in Addr : p[a] = o,
                             is_active |-> TRUE]]
      PROVE  SInv
    <2>1. DOMAIN peers = Addr /\ DOMAIN objects = {p[a] : a \in Addr}
        BY <1>2
    <2>2. ASSUME NEW a \in Addr
          PROVE  /\ objects[p[a]] \in PeerObject
                 /\ objects[p[a]].sui_address = a
        <3> DEFINE b == CHOOSE x \in Addr : p[x] = p[a]
        <3>1. b \in Addr /\ p[b] = p[a]
            OBVIOUS
        <3>2. b = a
            BY <1>2, <3>1
        <3>3. objects[p[a]] = [peer_id |-> id, bond |-> MIN_STAKE + Amount,
                               sui_address |-> b, is_active |-> TRUE]
            BY <1>2
        <3> HIDE DEF b
        <3> QED
            BY <1>0, <3>2, <3>3 DEF PeerObject
    <2>3. objects \in [DOMAIN objects -> PeerObject]
        <3>1. \A o \in DOMAIN objects : objects[o] \in PeerObject
            BY <2>1, <2>2
        <3>2. objects = [o \in DOMAIN objects |-> objects[o]]
            BY <1>2
        <3> QED
            BY <3>1, <3>2
    <2>4. StakingTypeOK
        <3>1. peers \in [DOMAIN peers -> PeerObj]
            BY <1>2, <2>1
        <3>2. DOMAIN objects \subseteq PeerObj
            BY <2>1
        <3> QED
            BY <1>0, <2>1, <2>3, <3>1, <3>2 DEF StakingTypeOK
    <2>5. RegistryExact
        BY <1>2, <2>1, <2>2 DEF RegistryExact
    <2> QED
        BY <2>4, <2>5 DEF SInv
<1> QED
    BY <1>1, <1>2

LEMMA WInvInit == Init => WInv
<1> SUFFICES ASSUME Init PROVE WInv
    OBVIOUS
<1>1. SInv
    BY PeersAtStart DEF Init
<1>2. VP!IInv /\ ConfigVault \in DOMAIN vaults
    BY VaultsAtStart DEF Init
<1>3. /\ call = [c \in CallId |-> [op |-> None, arg |-> None, pc |-> "idle"]]
      /\ tx = [c \in CallId |->
                    [Tx(None, None, None, 0) EXCEPT !.status = None]]
      /\ met = [c \in CallId |-> FALSE] /\ configured \in BOOLEAN
      /\ world = 0 /\ faults = 0
    BY DEF Init
<1> DEFINE x == [Tx(None, None, None, 0) EXCEPT !.status = None]
           d == [op |-> None, arg |-> None, pc |-> "idle"]
<1>4. x \in Txs /\ x.fn = None /\ x.status = None
    BY DEF Tx, Txs
<1>5. d \in Calls /\ d.op = None /\ d.pc = "idle"
    BY DEF Calls
<1> HIDE DEF x, d
<1>6. LocalTypes
    BY <1>3, <1>4, <1>5, WalletAssumption DEF LocalTypes, x, d
<1>7. ASSUME NEW k \in CallId PROVE CallInv(k)
    <2>1. call[k] = d /\ tx[k] = x
        BY <1>3 DEF x, d
    <2> QED
        BY <1>4, <1>5, <2>1
        DEF CallInv, ArgFits, TxFits, TxTells, Done, Executed, None
<1> QED
    BY <1>1, <1>2, <1>6, <1>7 DEF WInv, ChainInv

\* A step of a call does not touch the chain.
LEMMA StepKeeps ==
    ASSUME WInv, NEW c \in CallId, Step(c)
    PROVE  WInv' /\ UNCHANGED chainVars
<1>1. WInv'
    BY StartsKeep, EnsureKeeps, BuildersKeep, UpdateCallKeeps, LookupsKeep,
       UndelegateCallKeeps DEF Step
<1>2. UNCHANGED chainVars
    BY Zenon DEF Step, handle_register, handle_update_peer_id,
       handle_create_vault, handle_claim_earnings, handle_delegate,
       handle_undelegate, AutoRegister, PayPeer, Start,
       ensure_peer_registered, register_peer, update_peer_id_call,
       create_vault_call, claim_earnings_call, claim_earnings_send,
       delegate_call, undelegate_call, pay_lookup, try_onchain_pay, SendOrFail
<1> QED
    BY <1>1, <1>2

\* Every step keeps the invariant and is, for the registry, one of Staking.
LEMMA WInvNext ==
    ASSUME WInv, [Next]_vars
    PROVE  WInv' /\ (StakingNext \/ UNCHANGED <<peers, objects>>)
<1>1. ASSUME NEW c \in CallId, Step(c)
      PROVE  WInv' /\ UNCHANGED <<peers, objects>>
    BY <1>1, StepKeeps DEF chainVars, peerVars
<1>2. ASSUME NEW c \in CallId, Execute(c)
      PROVE  WInv' /\ (StakingNext \/ UNCHANGED <<peers, objects>>)
    BY <1>2, ExecuteKeeps
<1>3. ASSUME NEW c \in CallId, DropTx(c) \/ Answered(c)
      PROVE  WInv' /\ UNCHANGED <<peers, objects>>
    BY <1>3, DropTxKeeps, AnsweredKeeps
    DEF DropTx, Answered, chainVars, peerVars
<1>4. ASSUME World
      PROVE  WInv' /\ (StakingNext \/ UNCHANGED <<peers, objects>>)
    <2>1. CASE WorldStaking
        BY <1>4, <2>1, WorldKeeps, WorldStakingKeeps DEF WInv, ChainInv
    <2>2. CASE WorldVaults
        BY <1>4, <2>2, WorldKeeps DEF WorldVaults, peerVars
    <2> QED
        BY <1>4, <2>1, <2>2 DEF World
<1>5. ASSUME UNCHANGED vars
      PROVE  WInv' /\ UNCHANGED <<peers, objects>>
    <2>1. /\ UNCHANGED chainVars /\ UNCHANGED <<call, tx, met>>
          /\ UNCHANGED <<configured, world, faults>>
        BY <1>5 DEF vars, boundVars
    <2>2. ChainKept /\ (Claimable => Claimable')
        BY <2>1, ChainStays DEF WInv, Claimable, chainVars, vaultVars
    <2>3. LocalTypes'
        BY <2>1 DEF WInv, LocalTypes
    <2>4. \A k \in CallId : CallInv(k)'
        BY <2>1, <2>2, CallStays DEF WInv
    <2> QED
        BY <2>1, <2>2, <2>3, <2>4
        DEF WInv, ChainKept, chainVars, peerVars
<1> QED
    BY <1>1, <1>2, <1>3, <1>4, <1>5 DEF Next

-----------------------------------------------------------------------------
(* The theorems about Wallet.                                              *)

\* The invariant holds however calls, transactions, faults and the steps of
\* others interleave.
THEOREM WalletInductive == Spec => []WInv
    BY WInvInit, WInvNext, PTL DEF Spec

\* Chain, calls and transactions keep their types.
THEOREM WalletTypeCorrect == Spec => []TypeOK
<1>1. WInv => TypeOK
    BY VaultTypes DEF WInv, ChainInv, SInv, LocalTypes, TypeOK
<1> QED
    BY <1>1, WalletInductive, PTL

\* A call of the wallet that reports success has got what it is for, although
\* the execution status is never read.
THEOREM SuccessIsDone == Spec => []SuccessMeansDone
<1>1. ASSUME WInv PROVE SuccessMeansDone
    <2>1. ASSUME NEW c \in CallId, configured, call[c].pc = "ok"
          PROVE  CASE call[c].op \in {"register", "update", "ensure"} ->
                        Me \in DOMAIN peers
                        /\ objects[peers[Me]].peer_id = MyPeerId
                   [] call[c].op = "create_vault" -> Me \in DOMAIN registry
                   [] call[c].op \in {"claim", "undelegate", "pay"} -> met[c]
                   [] OTHER -> TRUE
        <3>1. /\ call[c].op \in {"register", "update", "ensure"} => Current
              /\ call[c].op = "create_vault" => Me \in DOMAIN registry
              /\ call[c].op \in {"claim", "undelegate", "pay"} => met[c]
            BY <1>1, <2>1 DEF WInv, CallInv, Done
        <3>2. met[c] \in BOOLEAN
            BY <1>1 DEF WInv, LocalTypes
        <3> QED
            BY <3>1, <3>2 DEF Current
    <2> QED
        BY <2>1 DEF SuccessMeansDone
<1> QED
    BY <1>1, WalletInductive, PTL

\* The floor is unique.
LEMMA FloorUnique ==
    ASSUME NEW x \in Nat, NEW c \in Nat, c > 0, NEW m \in Nat,
           m * c <= x, x < (m + 1) * c
    PROVE  x \div c = m
<1> DEFINE q == x \div c
           r == x % c
<1>1. q \in Nat /\ r \in Nat /\ r < c /\ x = q * c + r
    BY VaultAssumption, VP!DivMod
<1> HIDE DEF q, r
<1>2. CASE q < m
    <2>1. PICK d \in Nat : m = q + 1 + d
        <3>1. m - q - 1 \in Nat /\ m = q + 1 + (m - q - 1)
            BY <1>1, <1>2
        <3> QED
            BY <3>1
    <2>2. m * c = q * c + c + d * c
        BY <1>1, <2>1
    <2>3. d * c \in Nat /\ q * c \in Nat
        BY <1>1, <2>1, VaultAssumption, VP!MulNat
    <2> QED
        BY <1>1, <2>2, <2>3
<1>3. CASE q > m
    <2>1. PICK d \in Nat : q = m + 1 + d
        <3>1. q - m - 1 \in Nat /\ q = m + 1 + (q - m - 1)
            BY <1>1, <1>3
        <3> QED
            BY <3>1
    <2>2. q * c = (m + 1) * c + d * c
        BY <1>1, <2>1
    <2>3. d * c \in Nat /\ (m + 1) * c \in Nat
        BY <1>1, <2>1, VaultAssumption, VP!MulNat
    <2> QED
        BY <1>1, <2>2, <2>3
<1> QED
    BY <1>1, <1>2, <1>3 DEF q

\* The value the app shows for a certificate is to the unit what the contract
\* would pay for it, although the two compute it differently.
THEOREM EstimatesAreExact == Spec => []EstimatesExact
<1>1. ASSUME WInv, NEW c \in DOMAIN certs
      PROVE  LET v == certs[c].vault_id
             IN  estimated_value(vaults[v], certs[c].shares)
                   = V!RedeemValue(vaults[v], certs[c].shares)
    <2> DEFINE v == certs[c].vault_id
               s == certs[c].shares
               r == vaults[v].reserves
               t == vaults[v].total_shares
               m == VP!mul_div(s, r, t)
    <2>1. /\ v \in DOMAIN vaults /\ s \in Nat /\ s > 0 /\ t \in Nat
          /\ r \in Nat /\ s <= t
        BY <1>1, VaultAssumption, VP!CertInVault DEF WInv, ChainInv
    <2>2. t > 0
        BY <2>1
    <2>3. estimated_value(vaults[v], s) = (s * r) \div t
        BY <2>2 DEF estimated_value
    <2>4. V!RedeemValue(vaults[v], s) = m
        BY Zenon DEF V!RedeemValue, V!mul_div, VP!mul_div, V!u128_mul_div,
                     VP!u128_mul_div
    <2> HIDE DEF v, s, r, t
    <2>5. m \in Nat /\ m * t <= s * r /\ s * r < (m + 1) * t
        BY <2>1, <2>2, VaultAssumption, VP!MulDivIsFloor
    <2>6. s * r \in Nat
        BY <2>1, VaultAssumption, VP!MulNat
    <2> HIDE DEF m
    <2>7. (s * r) \div t = m
        BY <2>1, <2>2, <2>5, <2>6, FloorUnique
    <2> QED
        BY <2>3, <2>4, <2>7 DEF v, s
<1>2. ASSUME WInv PROVE EstimatesExact
    <2> SUFFICES ASSUME NEW c \in DOMAIN certs, certs[c].owner = Me,
                        certs[c].vault_id \in ListedVaults
                 PROVE  estimated_value(vaults[certs[c].vault_id],
                                        certs[c].shares)
                          = V!RedeemValue(vaults[certs[c].vault_id],
                                          certs[c].shares)
        BY DEF EstimatesExact, list_my_share_certificates
    <2> QED
        BY <1>1, <1>2
<1> QED
    BY <1>2, WalletInductive, PTL

\* The registry stays exact under the wallets' calls too.
THEOREM WalletRegistryExact == Spec => []RegistryExact
<1>1. WInv => RegistryExact
    BY DEF WInv, ChainInv, SInv
<1> QED
    BY <1>1, WalletInductive, PTL

\* So do the bonds leave the registry as they do in the contract alone,
\* whatever the wallet and the vaults do beside it.
THEOREM WalletBondsAreSafe == Spec => BondsLeaveRightly
<1>1. ASSUME WInv, [Next]_vars, NEW x \in DOMAIN objects
      PROVE  LeavesRightly(x)
    <2>1. SInv /\ objects[x].bond \in Nat
        BY <1>1 DEF WInv, ChainInv, SInv, StakingTypeOK, PeerObject
    <2>2. CASE StakingNext
        BY <2>1, <2>2, BondStep
    <2>3. CASE UNCHANGED <<peers, objects>>
        BY <2>1, <2>3 DEF LeavesRightly
    <2> QED
        BY <1>1, <2>2, <2>3, WInvNext
<1>2. WInv /\ [Next]_vars =>
        [\A o \in DOMAIN objects : LeavesRightly(o)]_stakingVars
    BY <1>1
<1> QED
    BY <1>2, WalletInductive, PTL DEF Spec, BondsLeaveRightly, LeavesRightly

-----------------------------------------------------------------------------
(* WAL is conserved.                                                       *)

\* WAL moves between an address and a vault, and between an address and the
\* bond of a peer.
WithVault(a, v) ==
    /\ \A x \in Addr \ {a} : wallet'[x] = wallet[x]
    /\ \A x \in VaultId \ {v} : HeldBy'[x] = HeldBy[x]
    /\ wallet'[a] + HeldBy'[v] = wallet[a] + HeldBy[v]

WithPeer(a, o) ==
    /\ \A x \in Addr \ {a} : wallet'[x] = wallet[x]
    /\ \A x \in PeerObj \ {o} : BondOf'[x] = BondOf[x]
    /\ wallet'[a] + BondOf'[o] = wallet[a] + BondOf[o]

\* What the sums are taken of.
WalTyped ==
    /\ wallet \in [Addr -> Nat]
    /\ BondOf \in [PeerObj -> Nat]
    /\ HeldBy \in [VaultId -> Nat]

LEMMA WalTypes == ChainInv => WalTyped
<1> SUFFICES ASSUME ChainInv PROVE WalTyped
    OBVIOUS
<1>1. wallet \in [Addr -> Nat] /\ \A o \in DOMAIN objects : objects[o].bond \in Nat
    BY DEF ChainInv, SInv, StakingTypeOK, PeerObject
<1>2. ASSUME NEW v \in DOMAIN vaults
      PROVE  vaults[v].reserves + vaults[v].peer_earnings \in Nat
    <2>1. vaults[v].reserves \in Nat /\ vaults[v].peer_earnings \in Nat
        BY VaultTypes, VaultAssumption DEF ChainInv, VP!PeerVaultObject, VP!U64
    <2> QED
        BY <2>1
<1>3. BondOf \in [PeerObj -> Nat]
    BY <1>1 DEF BondOf
<1>4. HeldBy \in [VaultId -> Nat]
    BY <1>2 DEF HeldBy
<1> QED
    BY <1>1, <1>3, <1>4 DEF WalTyped

\* Such a move leaves the total as it is.
LEMMA WithVaultConserves ==
    ASSUME ChainInv, ChainInv', NEW a \in Addr, NEW v \in VaultId,
           WithVault(a, v), objects' = objects
    PROVE  TotalWal' = TotalWal
<1>1. WalTyped /\ WalTyped'
    BY WalTypes, PTL
<1>2. /\ wallet \in [Addr -> Nat] /\ wallet' \in [Addr -> Nat]
      /\ HeldBy \in [VaultId -> Nat] /\ HeldBy' \in [VaultId -> Nat]
      /\ BondOf' = BondOf
    BY <1>1 DEF WalTyped, BondOf
<1>3. /\ SumFunction(wallet) \in Nat /\ SumFunction(wallet') \in Nat
      /\ SumFunction(wallet') + wallet[a] = SumFunction(wallet) + wallet'[a]
    BY <1>2, WalletAssumption, SumChange DEF WithVault
<1>4. /\ SumFunction(HeldBy) \in Nat /\ SumFunction(HeldBy') \in Nat
      /\ SumFunction(HeldBy') + HeldBy[v] = SumFunction(HeldBy) + HeldBy'[v]
    BY <1>2, WalletAssumption, SumChange DEF WithVault
<1>5. SumFunction(BondOf) \in Nat /\ SumFunction(BondOf') = SumFunction(BondOf)
    BY <1>1, <1>2, WalletAssumption, SumNat DEF WalTyped
<1>6. /\ wallet[a] \in Nat /\ wallet'[a] \in Nat
      /\ HeldBy[v] \in Nat /\ HeldBy'[v] \in Nat
      /\ wallet'[a] + HeldBy'[v] = wallet[a] + HeldBy[v]
    BY <1>2 DEF WithVault
<1> QED
    BY <1>3, <1>4, <1>5, <1>6 DEF TotalWal

LEMMA WithPeerConserves ==
    ASSUME ChainInv, ChainInv', NEW a \in Addr, NEW o \in PeerObj,
           WithPeer(a, o), vaults' = vaults
    PROVE  TotalWal' = TotalWal
<1>1. WalTyped /\ WalTyped'
    BY WalTypes, PTL
<1>2. /\ wallet \in [Addr -> Nat] /\ wallet' \in [Addr -> Nat]
      /\ BondOf \in [PeerObj -> Nat] /\ BondOf' \in [PeerObj -> Nat]
      /\ HeldBy' = HeldBy
    BY <1>1 DEF WalTyped, HeldBy
<1>3. /\ SumFunction(wallet) \in Nat /\ SumFunction(wallet') \in Nat
      /\ SumFunction(wallet') + wallet[a] = SumFunction(wallet) + wallet'[a]
    BY <1>2, WalletAssumption, SumChange DEF WithPeer
<1>4. /\ SumFunction(BondOf) \in Nat /\ SumFunction(BondOf') \in Nat
      /\ SumFunction(BondOf') + BondOf[o] = SumFunction(BondOf) + BondOf'[o]
    BY <1>2, WalletAssumption, SumChange DEF WithPeer
<1>5. SumFunction(HeldBy) \in Nat /\ SumFunction(HeldBy') = SumFunction(HeldBy)
    BY <1>1, <1>2, WalletAssumption, SumNat DEF WalTyped
<1>6. /\ wallet[a] \in Nat /\ wallet'[a] \in Nat
      /\ BondOf[o] \in Nat /\ BondOf'[o] \in Nat
      /\ wallet'[a] + BondOf'[o] = wallet[a] + BondOf[o]
    BY <1>2 DEF WithPeer
<1> QED
    BY <1>3, <1>4, <1>5, <1>6 DEF TotalWal

\* One vault changes, and one address.
LEMMA VaultPaid ==
    ASSUME ChainInv, NEW a \in Addr, NEW v \in DOMAIN vaults,
           NEW w \in Nat, NEW f,
           vaults' = [vaults EXCEPT ![v] = f],
           wallet' = [wallet EXCEPT ![a] = w],
           w + (f.reserves + f.peer_earnings)
             = wallet[a] + (vaults[v].reserves + vaults[v].peer_earnings)
    PROVE  v \in VaultId /\ WithVault(a, v)
<1>1. v \in VaultId /\ wallet \in [Addr -> Nat]
    BY DEF ChainInv, SInv, StakingTypeOK, VP!IInv, VP!TypeOK
<1>2. /\ DOMAIN vaults' = DOMAIN vaults /\ vaults'[v] = f
      /\ \A x \in DOMAIN vaults \ {v} : vaults'[x] = vaults[x]
      /\ wallet'[a] = w /\ \A x \in Addr \ {a} : wallet'[x] = wallet[x]
    BY <1>1
<1>3. /\ HeldBy[v] = vaults[v].reserves + vaults[v].peer_earnings
      /\ HeldBy'[v] = f.reserves + f.peer_earnings
      /\ \A x \in VaultId \ {v} : HeldBy'[x] = HeldBy[x]
    BY <1>1, <1>2 DEF HeldBy
<1> QED
    BY <1>1, <1>2, <1>3 DEF WithVault

\* What the vault transactions move.
LEMMA DelegateWal ==
    ASSUME ChainInv, NEW a \in Addr, NEW v \in DOMAIN vaults,
           NEW n \in 0 .. wallet[a], NEW c, V!delegate(a, v, n, c)
    PROVE  v \in VaultId /\ WithVault(a, v)
<1> DEFINE f == V!Joined(vaults[v], n)
<1>1. /\ vaults' = [vaults EXCEPT ![v] = f]
      /\ wallet' = [wallet EXCEPT ![a] = @ - n]
    BY Zenon DEF V!delegate
<1>2. /\ vaults[v] \in VP!PeerVaultObject
      /\ vaults[v].reserves \in Nat /\ vaults[v].peer_earnings \in Nat
    BY VaultTypes, VaultAssumption DEF ChainInv, VP!PeerVaultObject, VP!U64
<1>3. f.reserves = vaults[v].reserves + n /\ f.peer_earnings = vaults[v].peer_earnings
    BY <1>2 DEF V!Joined, VP!PeerVaultObject
<1>4. wallet[a] \in Nat /\ n \in Nat /\ wallet[a] - n \in Nat
    BY DEF ChainInv, SInv, StakingTypeOK
<1> HIDE DEF f
<1>5. (wallet[a] - n) + (f.reserves + f.peer_earnings)
        = wallet[a] + (vaults[v].reserves + vaults[v].peer_earnings)
    BY <1>2, <1>3, <1>4
<1> QED
    BY <1>1, <1>4, <1>5, VaultPaid

LEMMA UndelegateWal ==
    ASSUME ChainInv, NEW a \in Addr, NEW v \in DOMAIN vaults,
           NEW c \in DOMAIN certs, V!undelegate(a, v, c)
    PROVE  v \in VaultId /\ WithVault(a, v)
<1> DEFINE s == certs[c].shares
           w == VP!RedeemValue(vaults[v], s)
           f == [vaults[v] EXCEPT !.total_shares = @ - s, !.reserves = @ - w]
<1>0. VP!undelegate(a, v, c)
    BY Zenon DEF V!undelegate, VP!undelegate, V!Drop, VP!Drop,
           V!RedeemValue, VP!RedeemValue, V!Redeemable, VP!Redeemable,
           V!mul_div, VP!mul_div, V!mul_div_ok, VP!mul_div_ok,
           V!u128_mul_div, VP!u128_mul_div
<1>1. /\ vaults' = [vaults EXCEPT ![v].total_shares = @ - s, ![v].reserves = @ - w]
      /\ wallet' = [wallet EXCEPT ![a] = @ + w]
      /\ s > 0 /\ s <= vaults[v].total_shares
    BY <1>0, Zenon DEF VP!undelegate, VP!Redeemable
<1>2. /\ vaults[v] \in VP!PeerVaultObject
      /\ vaults[v].reserves \in Nat /\ vaults[v].peer_earnings \in Nat
      /\ vaults[v].total_shares \in Nat
      /\ vaults[v].total_shares <= vaults[v].reserves
      /\ s \in Nat
    BY VaultTypes, VaultAssumption
    DEF ChainInv, VP!IInv, VP!Solvent, VP!PeerVaultObject, VP!ShareCertificate, VP!U64
<1>3. w \in Nat /\ w <= vaults[v].reserves
    BY <1>1, <1>2, VaultAssumption, VP!RedeemBound DEF VP!RedeemValue
<1> HIDE DEF w, s
<1>4. /\ vaults' = [vaults EXCEPT ![v] = f]
      /\ f.reserves = vaults[v].reserves - w
      /\ f.peer_earnings = vaults[v].peer_earnings
    BY <1>1, <1>2, VaultTypes DEF ChainInv, VP!PeerVaultObject
<1> HIDE DEF f
<1>5. wallet[a] \in Nat /\ wallet[a] + w \in Nat
    BY <1>3 DEF ChainInv, SInv, StakingTypeOK
<1>6. (wallet[a] + w) + (f.reserves + f.peer_earnings)
        = wallet[a] + (vaults[v].reserves + vaults[v].peer_earnings)
    BY <1>2, <1>3, <1>4, <1>5
<1> QED
    BY <1>1, <1>4, <1>5, <1>6, VaultPaid

LEMMA PayWal ==
    ASSUME ChainInv, NEW a \in Addr, NEW v \in DOMAIN vaults,
           NEW n \in 0 .. wallet[a], V!pay(a, v, n)
    PROVE  v \in VaultId /\ WithVault(a, v)
<1> DEFINE m == VP!Commission(vaults[v], n)
           f == VP!collect_rewards(vaults[v], n)
<1>0. VP!pay(a, v, n)
    BY Zenon DEF V!pay, VP!pay, V!collect_rewards, VP!collect_rewards,
           V!collect_rewards_ok, VP!collect_rewards_ok,
           V!Commission, VP!Commission,
           V!mul_div, VP!mul_div, V!mul_div_ok, VP!mul_div_ok,
           V!u128_mul_div, VP!u128_mul_div
<1>1. vaults' = [vaults EXCEPT ![v] = f] /\ wallet' = [wallet EXCEPT ![a] = @ - n]
    BY <1>0, Zenon DEF VP!pay
<1>2. /\ vaults[v] \in VP!PeerVaultObject /\ vaults[v].commission_bps \in Nat
      /\ vaults[v].reserves \in Nat /\ vaults[v].peer_earnings \in Nat
    BY VaultTypes, VaultAssumption DEF ChainInv, VP!PeerVaultObject, VP!U64
<1>3. wallet[a] \in Nat /\ n \in Nat /\ wallet[a] - n \in Nat
    BY DEF ChainInv, SInv, StakingTypeOK
<1>4. m \in Nat
    <2>1. BPS \in Nat /\ BPS > 0
        BY VaultAssumption DEF VP!U64
    <2> QED
        BY <1>2, <1>3, <2>1, VaultAssumption, VP!MulDivIsFloor DEF VP!Commission
<1>5. /\ f.reserves = vaults[v].reserves + (n - m)
      /\ f.peer_earnings = vaults[v].peer_earnings + m
    BY <1>2 DEF VP!collect_rewards, VP!PeerVaultObject
<1> HIDE DEF f, m
<1>6. (wallet[a] - n) + (f.reserves + f.peer_earnings)
        = wallet[a] + (vaults[v].reserves + vaults[v].peer_earnings)
    BY <1>2, <1>3, <1>4, <1>5
<1> QED
    BY <1>1, <1>3, <1>6, VaultPaid

LEMMA ClaimWal ==
    ASSUME ChainInv, NEW a \in Addr, NEW v \in DOMAIN vaults,
           V!claim_earnings(a, v)
    PROVE  v \in VaultId /\ WithVault(a, v)
<1> DEFINE f == [vaults[v] EXCEPT !.peer_earnings = 0]
           w == vaults[v].peer_earnings
<1>1. /\ vaults' = [vaults EXCEPT ![v] = f]
      /\ wallet' = [wallet EXCEPT ![a] = @ + w]
    BY DEF V!claim_earnings
<1>2. /\ vaults[v] \in VP!PeerVaultObject
      /\ vaults[v].reserves \in Nat /\ w \in Nat
    BY VaultTypes, VaultAssumption DEF ChainInv, VP!PeerVaultObject, VP!U64
<1>3. f.reserves = vaults[v].reserves /\ f.peer_earnings = 0
    BY <1>2 DEF VP!PeerVaultObject
<1>4. wallet[a] \in Nat /\ wallet[a] + w \in Nat
    BY <1>2 DEF ChainInv, SInv, StakingTypeOK
<1> HIDE DEF f
<1>5. (wallet[a] + w) + (f.reserves + f.peer_earnings)
        = wallet[a] + (vaults[v].reserves + vaults[v].peer_earnings)
    BY <1>2, <1>3, <1>4
<1> QED
    BY <1>1, <1>4, <1>5, VaultPaid

\* A new vault is empty.
LEMMA NewVaultWal ==
    ASSUME ChainInv, NEW a \in Addr, NEW v \in VaultId, V!new_vault(v, a)
    PROVE  WithVault(a, v)
<1> DEFINE f == V!EmptyVault(a, DEFAULT_COMMISSION)
<1>1. /\ v \notin DOMAIN vaults /\ wallet' = wallet
      /\ vaults' = V!Put(vaults, v, f)
      /\ f.reserves = 0 /\ f.peer_earnings = 0
    BY DEF V!new_vault, V!EmptyVault
<1> HIDE DEF f
<1>2. /\ DOMAIN vaults' = DOMAIN vaults \cup {v} /\ vaults'[v] = f
      /\ \A x \in DOMAIN vaults : vaults'[x] = vaults[x]
    BY <1>1 DEF V!Put
<1>3. HeldBy[v] = 0 /\ HeldBy'[v] = 0 + 0
    BY <1>1, <1>2 DEF HeldBy
<1>4. \A x \in VaultId \ {v} : HeldBy'[x] = HeldBy[x]
    BY <1>1, <1>2 DEF HeldBy
<1> QED
    BY <1>1, <1>3, <1>4 DEF WithVault

\* One bond changes, and one address.
LEMMA BondPaid ==
    ASSUME SInv, NEW a \in Addr, NEW o \in DOMAIN objects,
           NEW w \in Nat, NEW b \in Nat,
           objects' = [objects EXCEPT ![o].bond = b],
           wallet' = [wallet EXCEPT ![a] = w],
           w + b = wallet[a] + objects[o].bond
    PROVE  WithPeer(a, o)
<1>1. /\ o \in PeerObj /\ wallet \in [Addr -> Nat]
      /\ objects \in [DOMAIN objects -> PeerObject]
    BY DEF SInv, StakingTypeOK
<1>2. /\ DOMAIN objects' = DOMAIN objects /\ objects'[o].bond = b
      /\ \A x \in DOMAIN objects \ {o} : objects'[x] = objects[x]
      /\ wallet'[a] = w /\ \A x \in Addr \ {a} : wallet'[x] = wallet[x]
    BY <1>1 DEF PeerObject
<1>3. /\ BondOf[o] = objects[o].bond /\ BondOf'[o] = b
      /\ \A x \in PeerObj \ {o} : BondOf'[x] = BondOf[x]
    BY <1>1, <1>2 DEF BondOf
<1> QED
    BY <1>2, <1>3 DEF WithPeer

\* What the registry transactions move.
LEMMA RegisterWal ==
    ASSUME SInv, NEW a \in Addr, NEW id \in PeerId, NEW o \in PeerObj,
           NEW bond \in 0 .. wallet[a], register(a, id, bond, o)
    PROVE  WithPeer(a, o)
<1> DEFINE e == [peer_id |-> id, sui_address |-> a, bond |-> bond,
                 is_active |-> TRUE]
<1>1. /\ o \notin DOMAIN objects /\ objects' = Put(objects, o, e)
      /\ wallet' = [wallet EXCEPT ![a] = @ - bond]
      /\ e.bond = bond
    BY DEF register
<1> HIDE DEF e
<1>2. /\ DOMAIN objects' = DOMAIN objects \cup {o} /\ objects'[o] = e
      /\ \A x \in DOMAIN objects : objects'[x] = objects[x]
    BY <1>1 DEF Put
<1>3. /\ wallet \in [Addr -> Nat] /\ wallet[a] \in Nat /\ bond \in Nat
    BY DEF SInv, StakingTypeOK
<1>4. /\ BondOf[o] = 0 /\ BondOf'[o] = bond
      /\ \A x \in PeerObj \ {o} : BondOf'[x] = BondOf[x]
    BY <1>1, <1>2 DEF BondOf
<1>5. /\ wallet'[a] = wallet[a] - bond
      /\ \A x \in Addr \ {a} : wallet'[x] = wallet[x]
    BY <1>1, <1>3
<1> QED
    BY <1>3, <1>4, <1>5 DEF WithPeer

\* Nothing of the bonds and the coins changes.
BondsStay == wallet' = wallet /\ BondOf' = BondOf

LEMMA BondsOfObjects ==
    ASSUME SInv, NEW o \in DOMAIN objects, NEW e, e.bond = objects[o].bond,
           objects' = [objects EXCEPT ![o] = e]
    PROVE  BondOf' = BondOf
<1>1. /\ DOMAIN objects' = DOMAIN objects
      /\ \A x \in DOMAIN objects : objects'[x].bond = objects[x].bond
    OBVIOUS
<1> QED
    BY <1>1 DEF BondOf

LEMMA StakingWal ==
    ASSUME SInv, StakingNext
    PROVE  BondsStay \/ \E a \in Addr, o \in PeerObj : WithPeer(a, o)
<1>0. /\ wallet \in [Addr -> Nat] /\ cap \in Addr
      /\ DOMAIN objects \subseteq PeerObj
      /\ objects \in [DOMAIN objects -> PeerObject]
      /\ \A o \in DOMAIN objects : objects[o].bond \in Nat
    BY DEF SInv, StakingTypeOK, PeerObject
<1> DEFINE Q == \E a \in Addr, o \in PeerObj : WithPeer(a, o)
<1>1. ASSUME NEW a \in Addr, NEW id \in PeerId, NEW o \in PeerObj,
             NEW bond \in 0 .. wallet[a], register(a, id, bond, o)
      PROVE  Q
    BY <1>1, RegisterWal
<1>2. ASSUME NEW a \in Addr, NEW o \in DOMAIN objects, NEW id \in PeerId,
             update_peer_id(a, o, id)
      PROVE  BondsStay
    <2> DEFINE e == [objects[o] EXCEPT !.peer_id = id]
    <2>1. objects' = [objects EXCEPT ![o] = e] /\ wallet' = wallet
        BY <1>2 DEF update_peer_id
    <2>2. e.bond = objects[o].bond
        BY <1>0 DEF PeerObject
    <2> HIDE DEF e
    <2> QED
        BY <2>1, <2>2, BondsOfObjects DEF BondsStay
<1>3. ASSUME NEW a \in Addr, NEW o \in DOMAIN objects,
             NEW n \in 0 .. wallet[a], add_stake(a, o, n)
      PROVE  Q
    <2>1. /\ wallet[a] - n \in Nat /\ objects[o].bond + n \in Nat
          /\ (wallet[a] - n) + (objects[o].bond + n) = wallet[a] + objects[o].bond
        BY <1>0
    <2>2. /\ objects' = [objects EXCEPT ![o].bond = objects[o].bond + n]
          /\ wallet' = [wallet EXCEPT ![a] = wallet[a] - n]
        BY <1>3 DEF add_stake
    <2> QED
        BY <1>0, <2>1, <2>2, BondPaid
<1>4. ASSUME NEW a \in Addr, NEW o \in DOMAIN objects,
             NEW n \in 0 .. objects[o].bond,
             objects' = [objects EXCEPT ![o].bond = @ - n],
             wallet' = [wallet EXCEPT ![a] = @ + n]
      PROVE  Q
    <2>1. /\ wallet[a] + n \in Nat /\ objects[o].bond - n \in Nat
          /\ (wallet[a] + n) + (objects[o].bond - n) = wallet[a] + objects[o].bond
        BY <1>0
    <2>2. /\ objects' = [objects EXCEPT ![o].bond = objects[o].bond - n]
          /\ wallet' = [wallet EXCEPT ![a] = wallet[a] + n]
        BY <1>4
    <2> QED
        BY <1>0, <2>1, <2>2, BondPaid
<1>5. ASSUME NEW a \in Addr, NEW o \in DOMAIN objects,
             NEW n \in 0 .. objects[o].bond, unstake(a, o, n)
      PROVE  Q
    BY <1>4, <1>5 DEF unstake
<1>6. ASSUME NEW o \in DOMAIN objects, NEW n \in 0 .. objects[o].bond, slash(o, n)
      PROVE  Q
    BY <1>0, <1>4, <1>6 DEF slash
<1>7. ASSUME NEW o \in DOMAIN objects, deactivate(o) PROVE BondsStay
    <2> DEFINE e == [objects[o] EXCEPT !.is_active = FALSE]
    <2>1. objects' = [objects EXCEPT ![o] = e] /\ wallet' = wallet
        BY <1>7 DEF deactivate
    <2>2. e.bond = objects[o].bond
        BY <1>0 DEF PeerObject
    <2> HIDE DEF e
    <2> QED
        BY <2>1, <2>2, BondsOfObjects DEF BondsStay
<1>8. ASSUME NEW to \in Addr, transfer_cap(to) PROVE BondsStay
    BY <1>8 DEF transfer_cap, BondsStay, BondOf
<1> HIDE DEF Q
<1>9. BondsStay \/ Q
    BY <1>1, <1>2, <1>3, <1>5, <1>6, <1>7, <1>8, Zenon DEF StakingNext
<1> QED
    BY <1>9 DEF Q

\* The total after a step of the registry, of the vaults, or of neither.
LEMMA NothingMoves ==
    ASSUME BondsStay, vaults' = vaults
    PROVE  TotalWal' = TotalWal
<1>1. HeldBy' = HeldBy
    BY DEF HeldBy
<1> QED
    BY <1>1 DEF BondsStay, TotalWal

LEMMA RegistryConserves ==
    ASSUME ChainInv, ChainInv', StakingNext, UNCHANGED vaultVars
    PROVE  TotalWal' = TotalWal
<1>1. vaults' = vaults /\ SInv
    BY DEF vaultVars, ChainInv
<1>2. ASSUME NEW a \in Addr, NEW o \in PeerObj, WithPeer(a, o)
      PROVE  TotalWal' = TotalWal
    BY <1>1, <1>2, WithPeerConserves
<1> QED
    BY <1>1, <1>2, StakingWal, NothingMoves

LEMMA ChainStaysConserves ==
    ASSUME UNCHANGED <<wallet, vaults, objects>> PROVE TotalWal' = TotalWal
<1>1. BondsStay /\ vaults' = vaults
    BY DEF BondsStay, BondOf
<1> QED
    BY <1>1, NothingMoves

LEMMA WorldVaultsConserve ==
    ASSUME ChainInv, ChainInv', WorldVaults
    PROVE  TotalWal' = TotalWal
<1>0. /\ Amount \in Nat /\ wallet \in [Addr -> Nat] /\ Others \subseteq Addr
      /\ objects' = objects
    BY WalletAssumption
    DEF V!U64, Others, ChainInv, SInv, StakingTypeOK, WorldVaults, peerVars
<1>1. ASSUME NEW a \in Others, wallet[a] >= Amount
      PROVE  a \in Addr /\ Amount \in 0 .. wallet[a]
    BY <1>0, <1>1
<1>2. ASSUME NEW a \in Addr, NEW v \in VaultId, WithVault(a, v)
      PROVE  TotalWal' = TotalWal
    BY <1>0, <1>2, WithVaultConserves
<1>3. CASE \E v \in VaultId, a \in Others : V!new_vault(v, a)
    BY <1>0, <1>2, <1>3, NewVaultWal
<1>4. CASE \E a \in Addr, v \in DOMAIN vaults : V!add_vault(a, v)
    BY <1>0, <1>4, ChainStaysConserves DEF V!add_vault
<1>5. CASE \E a \in Others, v \in DOMAIN vaults, c \in NewCert :
                wallet[a] >= Amount /\ V!delegate(a, v, Amount, c)
    BY <1>1, <1>2, <1>5, DelegateWal
<1>6. CASE \E a \in Others, v \in DOMAIN vaults, c \in DOMAIN certs :
                V!undelegate(a, v, c)
    BY <1>0, <1>2, <1>6, UndelegateWal
<1>7. CASE \E a, b \in Addr, c \in DOMAIN certs : V!transfer_cert(a, c, b)
    BY <1>0, <1>7, ChainStaysConserves DEF V!transfer_cert
<1>8. CASE \E a \in Others, v \in DOMAIN vaults :
                wallet[a] >= Amount /\ V!pay(a, v, Amount)
    BY <1>1, <1>2, <1>8, PayWal
<1>9. CASE \E a \in Others, v \in DOMAIN vaults : V!claim_earnings(a, v)
    BY <1>0, <1>2, <1>9, ClaimWal
<1> QED
    BY <1>3, <1>4, <1>5, <1>6, <1>7, <1>8, <1>9 DEF WorldVaults

\* The transactions of this wallet.
LEMMA MoveConserves ==
    ASSUME WInv, ChainInv', NEW c \in CallId, InputsLive(tx[c]), Move(tx[c])
    PROVE  TotalWal' = TotalWal
<1> DEFINE x == tx[c]
<1>0. /\ TxFits(c) /\ LocalTypes /\ ChainInv /\ SInv /\ x.wal \in Nat
      /\ Me \in Addr
    BY TxTyped, WalletAssumption DEF WInv, ChainInv, CallInv
<1>1. /\ x.wal \in 0 .. wallet[Me]
      /\ x.obj \in VaultId => x.obj \in DOMAIN vaults
      /\ x.fn = "undelegate" => x.cert \in DOMAIN certs
    BY <1>0, InputsThere
<1>2. ASSUME NEW v \in VaultId, WithVault(Me, v), UNCHANGED peerVars
      PROVE  TotalWal' = TotalWal
    BY <1>0, <1>2, WithVaultConserves DEF peerVars
<1>3. ASSUME x.fn \in {"claim_earnings", "delegate", "undelegate", "pay"}
      PROVE  x.obj \in VaultId /\ x.obj \in DOMAIN vaults
    BY <1>0, <1>1, <1>3 DEF TxFits
<1>4. ASSUME x.fn = "register", UNCHANGED vaultVars,
             \E o \in PeerObj : register(Me, MyPeerId, x.wal, o)
      PROVE  TotalWal' = TotalWal
    <2>1. x.wal = MIN_STAKE /\ wallet[Me] >= MIN_STAKE
        BY <1>0, <1>4 DEF TxFits, InputsLive
    <2>2. StakingNext
        BY <1>0, <1>4, <2>1, OwnRegisterKeeps
    <2> QED
        BY <1>0, <1>4, <2>2, RegistryConserves
<1>5. ASSUME x.fn = "update_peer_id", UNCHANGED vaultVars,
             update_peer_id(Me, x.obj, MyPeerId)
      PROVE  TotalWal' = TotalWal
    <2>1. Me \in DOMAIN peers /\ x.obj = peers[Me]
        BY <1>0, <1>5 DEF TxFits
    <2>2. StakingNext
        BY <1>0, <1>5, <2>1, OwnUpdateKeeps
    <2> QED
        BY <1>0, <1>5, <2>2, RegistryConserves
<1>6. ASSUME x.fn = "new_vault", UNCHANGED peerVars,
             \E v \in VaultId : V!new_vault(v, Me)
      PROVE  TotalWal' = TotalWal
    BY <1>0, <1>2, <1>6, NewVaultWal
<1>7. ASSUME x.fn = "claim_earnings", UNCHANGED peerVars,
             V!claim_earnings(Me, x.obj)
      PROVE  TotalWal' = TotalWal
    BY <1>0, <1>2, <1>3, <1>7, ClaimWal
<1>8. ASSUME x.fn = "delegate", UNCHANGED peerVars,
             \E d \in NewCert : V!delegate(Me, x.obj, x.wal, d)
      PROVE  TotalWal' = TotalWal
    BY <1>0, <1>1, <1>2, <1>3, <1>8, DelegateWal
<1>9. ASSUME x.fn = "undelegate", UNCHANGED peerVars,
             V!undelegate(Me, x.obj, x.cert)
      PROVE  TotalWal' = TotalWal
    BY <1>0, <1>1, <1>2, <1>3, <1>9, UndelegateWal
<1>10. ASSUME x.fn = "pay", UNCHANGED peerVars, V!pay(Me, x.obj, x.wal)
       PROVE  TotalWal' = TotalWal
    BY <1>0, <1>1, <1>2, <1>3, <1>10, PayWal
<1> QED
    BY <1>4, <1>5, <1>6, <1>7, <1>8, <1>9, <1>10 DEF Move

\* No step makes or loses WAL: what a call, a late execution or a transaction
\* of others takes from an address arrives in one vault or one bond, and the
\* other way round, through the roundings of mul_div too.
THEOREM WalIsConserved == Spec => WalConserved
<1>1. ASSUME WInv, [Next]_vars PROVE TotalWal' = TotalWal
    <2>0. ChainInv /\ ChainInv'
        BY <1>1, WInvNext DEF WInv
    <2>1. ASSUME UNCHANGED chainVars PROVE TotalWal' = TotalWal
        BY <2>1, ChainStaysConserves DEF chainVars, vaultVars, peerVars
    <2>2. ASSUME NEW c \in CallId, Step(c) PROVE TotalWal' = TotalWal
        BY <1>1, <2>1, <2>2, StepKeeps
    <2>3. ASSUME NEW c \in CallId, Execute(c) PROVE TotalWal' = TotalWal
        <3>1. /\ InputsLive(tx[c])
              /\ Move(tx[c]) \/ UNCHANGED chainVars
            BY <2>3, Zenon DEF Execute
        <3> QED
            BY <1>1, <2>0, <2>1, <3>1, MoveConserves
    <2>4. ASSUME NEW c \in CallId, DropTx(c) \/ Answered(c)
          PROVE  TotalWal' = TotalWal
        BY <2>1, <2>4 DEF DropTx, Answered
    <2>5. ASSUME World PROVE TotalWal' = TotalWal
        <3>1. CASE WorldStaking
            BY <2>0, <3>1, WorldStakingKeeps, RegistryConserves
            DEF ChainInv, WorldStaking
        <3>2. CASE WorldVaults
            BY <2>0, <3>2, WorldVaultsConserve
        <3> QED
            BY <2>5, <3>1, <3>2 DEF World
    <2>6. CASE UNCHANGED vars
        BY <2>1, <2>6 DEF vars
    <2> QED
        BY <1>1, <2>2, <2>3, <2>4, <2>5, <2>6 DEF Next
<1>2. WInv /\ [Next]_vars => [TotalWal' = TotalWal]_vars
    BY <1>1
<1> QED
    BY <1>2, WalletInductive, PTL DEF Spec, WalConserved

=============================================================================

------------------------------ MODULE Staking ------------------------------
(***************************************************************************)
(* The peer registry of contracts/zing_cdn/sources/staking.move: who is    *)
(* registered, with which libp2p peer id, and the WAL bonded by each peer. *)
(*                                                                         *)
(* As in PeerVault, one action per entry function: a transaction runs to   *)
(* its end or aborts and changes nothing, so a failed assertion is a guard *)
(* of its action.  The definitions carry the prefix Staking where the      *)
(* modules that extend this one have a definition of the same name.        *)
(***************************************************************************)
EXTENDS Integers, FiniteSets

CONSTANTS
    Addr,        \* Sui addresses
    PeerObj,     \* ids of Peer objects
    PeerId,      \* libp2p peer ids
    MIN_STAKE,   \* the bond a peer registers with at least
    InitialWal,  \* the WAL each address owns at the start
    Deployer     \* the address that published the package

ASSUME StakingAssumption ==
    /\ MIN_STAKE \in Nat
    /\ InitialWal \in [Addr -> Nat]
    /\ Deployer \in Addr

VARIABLES
    peers,    \* Registry.peers: address -> id of its Peer object
    objects,  \* the shared Peer objects
    cap,      \* the owner of the AdminCap
    wallet    \* WAL coins of each address (Sui framework)

stakingVars == <<peers, objects, cap, wallet>>

PeerObject ==
    [peer_id: PeerId, sui_address: Addr, bond: Nat, is_active: BOOLEAN]

StakingTypeOK ==
    /\ DOMAIN peers \subseteq Addr
    /\ peers \in [DOMAIN peers -> PeerObj]
    /\ DOMAIN objects \subseteq PeerObj
    /\ objects \in [DOMAIN objects -> PeerObject]
    /\ cap \in Addr
    /\ wallet \in [Addr -> Nat]

Put(f, k, e) == [x \in DOMAIN f \cup {k} |-> IF x = k THEN e ELSE f[x]]

-----------------------------------------------------------------------------
(* Registration.                                                           *)

\* Mutant: a second registration of an address is not refused.
register_ok_again(sender, bond) == bond >= MIN_STAKE

\* The assertions of register.
register_ok(sender, bond) ==
    /\ sender \notin DOMAIN peers
    /\ bond >= MIN_STAKE

register(sender, id, bond, o) ==
    /\ o \notin DOMAIN objects
    /\ register_ok(sender, bond)
    /\ objects' = Put(objects, o, [peer_id |-> id, sui_address |-> sender,
                                   bond |-> bond, is_active |-> TRUE])
    /\ peers' = Put(peers, sender, o)
    /\ wallet' = [wallet EXCEPT ![sender] = @ - bond]
    /\ UNCHANGED cap

\* Only the address that registered the peer changes its id, also after a
\* deactivation.
update_peer_id(sender, o, id) ==
    /\ sender = objects[o].sui_address
    /\ objects' = [objects EXCEPT ![o].peer_id = id]
    /\ UNCHANGED <<peers, cap, wallet>>

-----------------------------------------------------------------------------
(* The bond.                                                               *)

\* Anyone may add to the bond of any peer.
add_stake(sender, o, amount) ==
    /\ objects' = [objects EXCEPT ![o].bond = @ + amount]
    /\ wallet' = [wallet EXCEPT ![sender] = @ - amount]
    /\ UNCHANGED <<peers, cap>>

\* Mutant: the sender is not compared with the owner.
unstake_ok_anyone(sender, peer, amount) ==
    /\ amount <= peer.bond
    /\ peer.bond - amount >= MIN_STAKE

\* The assertions of unstake.
unstake_ok(sender, peer, amount) ==
    /\ sender = peer.sui_address
    /\ amount <= peer.bond
    /\ peer.bond - amount >= MIN_STAKE

unstake(sender, o, amount) ==
    /\ unstake_ok(sender, objects[o], amount)
    /\ objects' = [objects EXCEPT ![o].bond = @ - amount]
    /\ wallet' = [wallet EXCEPT ![sender] = @ + amount]
    /\ UNCHANGED <<peers, cap>>

-----------------------------------------------------------------------------
(* The admin.                                                              *)

\* The slashed WAL goes to the holder of the capability; a slash may take
\* the bond below MIN_STAKE and leaves the peer active.
slash(o, amount) ==
    /\ amount <= objects[o].bond
    /\ objects' = [objects EXCEPT ![o].bond = @ - amount]
    /\ wallet' = [wallet EXCEPT ![cap] = @ + amount]
    /\ UNCHANGED <<peers, cap>>

\* Nothing activates a peer again and nothing removes it from the registry.
deactivate(o) ==
    /\ objects' = [objects EXCEPT ![o].is_active = FALSE]
    /\ UNCHANGED <<peers, cap, wallet>>

\* AdminCap has the store ability: its owner may transfer it.
transfer_cap(to) ==
    /\ cap' = to
    /\ UNCHANGED <<peers, objects, wallet>>

-----------------------------------------------------------------------------

StakingInit ==
    /\ peers = [x \in {} |-> x]
    /\ objects = [x \in {} |-> x]
    /\ cap = Deployer
    /\ wallet = InitialWal

StakingNext ==
    \/ \E sender \in Addr, id \in PeerId, o \in PeerObj :
            \E bond \in 0 .. wallet[sender] : register(sender, id, bond, o)
    \/ \E sender \in Addr, o \in DOMAIN objects, id \in PeerId :
            update_peer_id(sender, o, id)
    \/ \E sender \in Addr, o \in DOMAIN objects :
            \E amount \in 0 .. wallet[sender] : add_stake(sender, o, amount)
    \/ \E sender \in Addr, o \in DOMAIN objects :
            \E amount \in 0 .. objects[o].bond : unstake(sender, o, amount)
    \/ \E o \in DOMAIN objects :
            \E amount \in 0 .. objects[o].bond : slash(o, amount)
    \/ \E o \in DOMAIN objects : deactivate(o)
    \/ \E to \in Addr : transfer_cap(to)

StakingSpec == StakingInit /\ [][StakingNext]_stakingVars

-----------------------------------------------------------------------------
(* Properties.                                                             *)

\* register keeps the registry exact through any sequence of calls: every
\* Peer object is the one its address is registered with, so that a bond is
\* never stranded in an object no lookup finds and no address bonds twice.
RegistryExact ==
    /\ \A a \in DOMAIN peers :
            /\ peers[a] \in DOMAIN objects
            /\ objects[peers[a]].sui_address = a
    /\ \A o \in DOMAIN objects :
            LET a == objects[o].sui_address
            IN  a \in DOMAIN peers /\ peers[a] = o

\* A bond only shrinks into the hands of its owner, by unstake and not below
\* MIN_STAKE, or of the holder of the AdminCap, by slash: nobody else's WAL
\* grows by it, and the whole of it arrives.
BondsLeaveRightly ==
    [][\A o \in DOMAIN objects :
            objects'[o].bond < objects[o].bond =>
                LET owner == objects[o].sui_address
                    lost  == objects[o].bond - objects'[o].bond
                    Gets(a) == wallet' = [wallet EXCEPT ![a] = @ + lost]
                IN  \/ Gets(owner) /\ objects'[o].bond >= MIN_STAKE
                    \/ Gets(cap)]_stakingVars

=============================================================================

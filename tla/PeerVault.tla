----------------------------- MODULE PeerVault -----------------------------
(***************************************************************************)
(* The on-chain vault of contracts/zing_cdn/sources/peer_vault.move, with  *)
(* the arithmetic of utils.move and the payment entry point of             *)
(* settlement.move.                                                        *)
(*                                                                         *)
(* A Move transaction either runs to its end or aborts and changes         *)
(* nothing, and transactions on one shared object are serialised: one      *)
(* action per entry function, and an assertion, an arithmetic overflow or  *)
(* a Balance underflow of the code is a guard of its action.               *)
(***************************************************************************)
EXTENDS Integers, FiniteSets

CONSTANTS
    Addr,         \* Sui addresses: peers, delegators, clients
    VaultId,      \* ids of PeerVault objects
    CertId,       \* ids of ShareCertificate objects
    U64_MAX,      \* the largest u64
    BPS,          \* basis points of a whole (10000)
    DEFAULT_COMMISSION,  \* the commission new_vault hard-codes (1000)
    Commissions,  \* commission_bps arguments callers may pass
    InitialWal    \* the WAL each address owns at the start

U64 == 0 .. U64_MAX

ASSUME ConstantsAssumption ==
    /\ U64_MAX \in Nat
    /\ BPS \in U64 \ {0}
    /\ DEFAULT_COMMISSION \in 0 .. BPS
    /\ Commissions \subseteq U64
    /\ InitialWal \in [Addr -> U64]

VARIABLES
    vaults,    \* the shared PeerVault objects
    certs,     \* the ShareCertificate objects that exist
    registry,  \* PeerVaultRegistry.peer_vaults: address -> vault id
    wallet     \* WAL coins of each address (Sui framework)

vars == <<vaults, certs, registry, wallet>>

PeerVaultObject ==
    [peer_address: Addr, reserves: U64, total_shares: U64,
     commission_bps: U64, peer_earnings: U64]

\* `owner` is the Sui owner of the object.
ShareCertificate == [vault_id: VaultId, shares: U64, owner: Addr]

TypeOK ==
    /\ DOMAIN vaults \subseteq VaultId
    /\ vaults \in [DOMAIN vaults -> PeerVaultObject]
    /\ DOMAIN certs \subseteq CertId
    /\ certs \in [DOMAIN certs -> ShareCertificate]
    /\ DOMAIN registry \subseteq Addr
    /\ registry \in [DOMAIN registry -> VaultId]
    /\ wallet \in [Addr -> Nat]

Put(f, k, e) == [x \in DOMAIN f \cup {k} |-> IF x = k THEN e ELSE f[x]]
Drop(f, k)   == [x \in DOMAIN f \ {k} |-> f[x]]

-----------------------------------------------------------------------------
(* utils.move.  The code divides the larger operand first, so that the     *)
(* intermediate values fit a u128.                                         *)

u128_mul_div(a, b, c) ==
    LET big   == IF a >= b THEN a ELSE b
        small == IF a >= b THEN b ELSE a
    IN  (big \div c) * small + ((big % c) * small) \div c

mul_div(a, b, c) == u128_mul_div(a, b, c)

\* mul_div runs without aborting: no division by zero, and the quotient is
\* a u64.
mul_div_ok(a, b, c) == c > 0 /\ u128_mul_div(a, b, c) <= U64_MAX

-----------------------------------------------------------------------------
(* Vault lifecycle.                                                        *)

EmptyVault(peer, bps) ==
    [peer_address |-> peer, reserves |-> 0, total_shares |-> 0,
     commission_bps |-> bps, peer_earnings |-> 0]

\* Anyone may create a vault for any address; it is not registered.
create_vault(v, peer, bps) ==
    /\ v \notin DOMAIN vaults
    /\ bps <= BPS
    /\ vaults' = Put(vaults, v, EmptyVault(peer, bps))
    /\ UNCHANGED <<certs, registry, wallet>>

\* Table::add aborts when the sender already has an entry.
new_vault(v, sender) ==
    /\ v \notin DOMAIN vaults
    /\ sender \notin DOMAIN registry
    /\ vaults' = Put(vaults, v, EmptyVault(sender, DEFAULT_COMMISSION))
    /\ registry' = Put(registry, sender, v)
    /\ UNCHANGED <<certs, wallet>>

\* The admin may point any address at any vault.
add_vault(peer, v) ==
    /\ registry' = Put(registry, peer, v)
    /\ UNCHANGED <<vaults, certs, wallet>>

-----------------------------------------------------------------------------
(* Delegation.                                                             *)

\* Mutant: the quotient is rounded up.
SharesForRoundedUp(vault, amount) ==
    IF vault.total_shares = 0
    THEN amount
    ELSE 1 + mul_div(amount - 1, vault.total_shares, vault.reserves)

\* Mutant: reserves and shares are swapped.
SharesForSwapped(vault, amount) ==
    IF vault.total_shares = 0
    THEN amount
    ELSE mul_div(amount, vault.reserves, vault.total_shares)

\* The shares `amount` buys, and whether computing them aborts.
SharesFor(vault, amount) ==
    IF vault.total_shares = 0
    THEN amount
    ELSE mul_div(amount, vault.total_shares, vault.reserves)

SharesFor_ok(vault, amount) ==
    vault.total_shares = 0
    \/ mul_div_ok(amount, vault.total_shares, vault.reserves)

\* The vault after a delegation.
Joined(vault, amount) ==
    [vault EXCEPT !.reserves = @ + amount,
                  !.total_shares = @ + SharesFor(vault, amount)]

delegate(sender, v, amount, c) ==
    LET vault  == vaults[v]
    IN  /\ c \notin DOMAIN certs
        /\ amount > 0
        /\ SharesFor_ok(vault, amount)
        /\ SharesFor(vault, amount) > 0
        /\ Joined(vault, amount).reserves <= U64_MAX
        /\ Joined(vault, amount).total_shares <= U64_MAX
        /\ vaults' = [vaults EXCEPT ![v] = Joined(vault, amount)]
        /\ certs' = Put(certs, c,
                        [vault_id |-> v, shares |-> SharesFor(vault, amount),
                         owner |-> sender])
        /\ wallet' = [wallet EXCEPT ![sender] = @ - amount]
        /\ UNCHANGED registry

\* Mutant: the payout is rounded up.
RedeemValueRoundedUp(vault, shares) ==
    1 + mul_div(shares, vault.reserves, vault.total_shares)

\* What a certificate of `shares` shares redeems at the vault's rate.
RedeemValue(vault, shares) ==
    mul_div(shares, vault.reserves, vault.total_shares)

\* Mutant: the certificate's vault is not compared.
RedeemableAnywhere(v, vault, cert) ==
    /\ cert.shares > 0
    /\ mul_div_ok(cert.shares, vault.reserves, vault.total_shares)
    /\ cert.shares <= vault.total_shares
    /\ RedeemValue(vault, cert.shares) <= vault.reserves

\* undelegate runs to its end: no failed assertion, no abort of mul_div, no
\* underflow of total_shares, no overdraft of reserves.
Redeemable(v, vault, cert) ==
    /\ v = cert.vault_id
    /\ cert.shares > 0
    /\ mul_div_ok(cert.shares, vault.reserves, vault.total_shares)
    /\ cert.shares <= vault.total_shares
    /\ RedeemValue(vault, cert.shares) <= vault.reserves

undelegate(sender, v, c) ==
    LET vault == vaults[v]
        cert  == certs[c]
        wal   == RedeemValue(vault, cert.shares)
    IN  /\ cert.owner = sender
        /\ Redeemable(v, vault, cert)
        /\ vaults' = [vaults EXCEPT
                        ![v].total_shares = @ - cert.shares,
                        ![v].reserves = @ - wal]
        /\ certs' = Drop(certs, c)
        /\ wallet' = [wallet EXCEPT ![sender] = @ + wal]
        /\ UNCHANGED registry

\* A certificate has the key and store abilities: its owner may transfer it.
transfer_cert(sender, c, to) ==
    /\ certs[c].owner = sender
    /\ to # sender
    /\ certs' = [certs EXCEPT ![c].owner = to]
    /\ UNCHANGED <<vaults, registry, wallet>>

-----------------------------------------------------------------------------
(* Rewards.                                                                *)

Commission(vault, amount) == mul_div(amount, vault.commission_bps, BPS)

\* Mutant: the basis points, not the commission, leave the payment.
collect_rewards_bps(vault, amount) ==
    [vault EXCEPT !.peer_earnings = @ + Commission(vault, amount),
                  !.reserves = @ + amount - vault.commission_bps]

\* The commission is split off the paid coin, the remainder goes to the
\* reserves, with or without shareholders.
collect_rewards(vault, amount) ==
    [vault EXCEPT !.peer_earnings = @ + Commission(vault, amount),
                  !.reserves = @ + (amount - Commission(vault, amount))]

collect_rewards_ok(vault, amount) ==
    /\ amount > 0
    /\ mul_div_ok(amount, vault.commission_bps, BPS)
    /\ Commission(vault, amount) <= amount

\* settlement::pay: the payee argument only appears in the event.
pay(payer, v, amount) ==
    LET after == collect_rewards(vaults[v], amount)
    IN  /\ collect_rewards_ok(vaults[v], amount)
        /\ after.peer_earnings <= U64_MAX
        /\ after.reserves <= U64_MAX
        /\ vaults' = [vaults EXCEPT ![v] = after]
        /\ wallet' = [wallet EXCEPT ![payer] = @ - amount]
        /\ UNCHANGED <<certs, registry>>

claim_earnings(sender, v) ==
    /\ sender = vaults[v].peer_address
    /\ vaults[v].peer_earnings > 0
    /\ vaults' = [vaults EXCEPT ![v].peer_earnings = 0]
    /\ wallet' = [wallet EXCEPT ![sender] = @ + vaults[v].peer_earnings]
    /\ UNCHANGED <<certs, registry>>

-----------------------------------------------------------------------------

EmptyTable == [x \in {} |-> x]

Init ==
    /\ vaults = EmptyTable
    /\ certs = EmptyTable
    /\ registry = EmptyTable
    /\ wallet = InitialWal

Next ==
    \/ \E v \in VaultId, peer \in Addr, bps \in Commissions :
            create_vault(v, peer, bps)
    \/ \E v \in VaultId, sender \in Addr : new_vault(v, sender)
    \/ \E peer \in Addr, v \in VaultId : add_vault(peer, v)
    \/ \E sender \in Addr, v \in DOMAIN vaults, c \in CertId :
            \E amount \in 0 .. wallet[sender] : delegate(sender, v, amount, c)
    \/ \E sender \in Addr, v \in DOMAIN vaults, c \in DOMAIN certs :
            undelegate(sender, v, c)
    \/ \E sender, to \in Addr, c \in DOMAIN certs :
            transfer_cert(sender, c, to)
    \/ \E payer \in Addr, v \in DOMAIN vaults :
            \E amount \in 0 .. wallet[payer] : pay(payer, v, amount)
    \/ \E sender \in Addr, v \in DOMAIN vaults : claim_earnings(sender, v)

Spec == Init /\ [][Next]_vars

-----------------------------------------------------------------------------
(* Properties.                                                             *)

\* The shares the certificates cs hold of vault v, one element per share.
ShareUnits(cs, v) ==
    UNION {{c} \X (1 .. cs[c].shares) :
                c \in {x \in DOMAIN cs : cs[x].vault_id = v}}

\* delegate and undelegate keep total_shares equal to the shares of the
\* certificates that exist, however certificates of several vaults are
\* minted, transferred and burned: no share is unbacked, none is lost.
SharesBacked ==
    /\ \A c \in DOMAIN certs : certs[c].vault_id \in DOMAIN vaults
    /\ \A v \in DOMAIN vaults :
            Cardinality(ShareUnits(certs, v)) = vaults[v].total_shares

\* A share is always worth at least one unit of WAL: the rounding of mul_div
\* in delegate and undelegate never lets the shares outgrow the reserves.
\* (With it delegate never divides by zero reserves.)
Solvent ==
    \A v \in DOMAIN vaults : vaults[v].total_shares <= vaults[v].reserves

\* Every certificate can be burned at any time: undelegate cannot abort on a
\* wrong vault, a division by zero, an overflow, a share underflow or an
\* overdraft of the reserves, whatever the other holders did before.
AlwaysRedeemable ==
    \A c \in DOMAIN certs :
        LET v == certs[c].vault_id
        IN  v \in DOMAIN vaults /\ Redeemable(v, vaults[v], certs[c])

\* A payment of any amount can be split: the commission of a vault never
\* exceeds the coin that collect_rewards splits it from.
PaymentsSplit ==
    \A v \in DOMAIN vaults : \A amount \in U64 \ {0} :
        collect_rewards_ok(vaults[v], amount)

\* Where there are shareholders, delegating and burning the certificate
\* right away never pays out more than was put in (the other holders would
\* pay for it).
NoRoundTripProfit ==
    \A v \in DOMAIN vaults : \A amount \in U64 \ {0} :
        LET vault == vaults[v]
        IN  (vault.total_shares > 0 /\ SharesFor(vault, amount) > 0)
            => RedeemValue(Joined(vault, amount), SharesFor(vault, amount))
                 <= amount

\* What a certificate redeems never goes down while it exists: no
\* delegation, redemption or payment of anybody dilutes it.
NeverDiluted ==
    [][\A c \in DOMAIN certs \cap DOMAIN certs' :
            LET v == certs[c].vault_id
            IN  RedeemValue(vaults[v], certs[c].shares)
                  <= RedeemValue(vaults'[v], certs'[c].shares)]_vars

=============================================================================

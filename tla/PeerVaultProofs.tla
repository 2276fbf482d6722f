-------------------------- MODULE PeerVaultProofs --------------------------
(***************************************************************************)
(* Proofs about PeerVault, for every set of addresses, vaults and          *)
(* certificates, every amount and every width of u64.                      *)
(***************************************************************************)
EXTENDS PeerVault, DataFacts

-----------------------------------------------------------------------------
(* Arithmetic.                                                             *)

\* Euclidean division, as the provers know it.
LEMMA DivMod ==
    ASSUME NEW a \in Nat, NEW c \in Nat, c > 0
    PROVE  /\ a \div c \in Nat
           /\ a % c \in Nat
           /\ a % c < c
           /\ a = (a \div c) * c + (a % c)
OBVIOUS

LEMMA MulNat == ASSUME NEW a \in Nat, NEW b \in Nat PROVE a * b \in Nat
OBVIOUS

\* utils::mul_div divides before it multiplies, and still computes the floor
\* of a * b / c.
THEOREM MulDivIsFloor ==
    ASSUME NEW a \in Nat, NEW b \in Nat, NEW c \in Nat, c > 0
    PROVE  /\ mul_div(a, b, c) \in Nat
           /\ mul_div(a, b, c) * c <= a * b
           /\ a * b < (mul_div(a, b, c) + 1) * c
<1> DEFINE big == IF a >= b THEN a ELSE b
           small == IF a >= b THEN b ELSE a
           q == big \div c
           r == big % c
           y == (r * small) \div c
           m == (r * small) % c
<1>1. big \in Nat /\ small \in Nat /\ a * b = big * small
  <2>1. CASE a >= b  BY <2>1
  <2>2. CASE ~(a >= b)  BY <2>2
  <2> QED  BY <2>1, <2>2
<1>2. q \in Nat /\ r \in Nat /\ r < c /\ big = q * c + r
  BY <1>1, DivMod
<1>3. r * small \in Nat
  BY <1>1, <1>2, MulNat
<1>4. y \in Nat /\ m \in Nat /\ m < c /\ r * small = y * c + m
  BY <1>3, DivMod
<1>5. mul_div(a, b, c) = q * small + y
  BY DEF mul_div, u128_mul_div
<1> HIDE DEF big, small, q, r, y, m
<1>6. q * small \in Nat
  BY <1>1, <1>2, MulNat
<1>7. (q * small + y) * c + m = big * small
  <2>1. (q * small + y) * c = (q * c) * small + y * c
    BY <1>1, <1>2, <1>4
  <2>2. (q * c + r) * small = (q * c) * small + r * small
    BY <1>1, <1>2
  <2>3. (q * c) * small \in Nat /\ y * c \in Nat
    BY <1>1, <1>2, <1>4, MulNat
  <2> QED  BY <2>1, <2>2, <2>3, <1>2, <1>4
<1>8. q * small + y \in Nat /\ (q * small + y) * c \in Nat
  BY <1>4, <1>6, MulNat
<1>9. (q * small + y + 1) * c = (q * small + y) * c + c
  BY <1>8
<1> QED  BY <1>1, <1>4, <1>5, <1>7, <1>8, <1>9

\* Cancelling a positive factor.
LEMMA Cancel ==
    ASSUME NEW x \in Nat, NEW y \in Nat, NEW c \in Nat, c > 0,
           x * c <= y * c
    PROVE  x <= y
<1> SUFFICES ASSUME x > y PROVE FALSE
  OBVIOUS
<1>1. PICK d \in Nat : x = y + 1 + d
  <2> WITNESS x - y - 1 \in Nat
  <2> QED  OBVIOUS
<1>2. x * c = y * c + c + d * c
  BY <1>1
<1>3. y * c \in Nat /\ d * c \in Nat
  BY MulNat
<1> QED  BY <1>2, <1>3

LEMMA MulMono ==
    ASSUME NEW x \in Nat, NEW y \in Nat, NEW c \in Nat, x <= y
    PROVE  x * c <= y * c
<1>1. PICK d \in Nat : y = x + d
  <2> WITNESS y - x \in Nat
  <2> QED  OBVIOUS
<1>2. y * c = x * c + d * c
  BY <1>1
<1> QED  BY <1>2, MulNat

\* A quotient with b <= c is at most a.
LEMMA MulDivBound ==
    ASSUME NEW a \in Nat, NEW b \in Nat, NEW c \in Nat, c > 0, b <= c
    PROVE  mul_div(a, b, c) <= a
<1> DEFINE w == mul_div(a, b, c)
<1>1. w \in Nat /\ w * c <= a * b
  BY MulDivIsFloor
<1>2. a * b <= a * c
  <2>1. b * a <= c * a
    BY MulMono
  <2> QED  BY <2>1
<1> HIDE DEF w
<1>3. w * c <= a * c
  BY <1>1, <1>2, MulNat
<1>4. w <= a
  BY <1>1, <1>3, Cancel
<1> QED  BY <1>4 DEF w

\* Redeeming s of t shares of reserves r, where every share is worth at
\* least one unit, takes at most r and leaves the rest worth as much.
LEMMA RedeemBound ==
    ASSUME NEW s \in Nat, NEW r \in Nat, NEW t \in Nat,
           t > 0, s <= t, t <= r
    PROVE  /\ mul_div(s, r, t) \in Nat
           /\ mul_div(s, r, t) <= r
           /\ t - s <= r - mul_div(s, r, t)
<1> DEFINE w == mul_div(s, r, t)
<1>1. w \in Nat /\ w * t <= s * r
  BY MulDivIsFloor
<1> HIDE DEF w
<1>2. PICK k \in Nat : t = s + k
  <2> WITNESS t - s \in Nat
  <2> QED  OBVIOUS
<1>3. PICK e \in Nat : r = t + e
  <2> WITNESS r - t \in Nat
  <2> QED  OBVIOUS
\* (s + e) * t = s * r + e * k, so w * t <= (s + e) * t.
<1>4. (s + e) * t = s * r + e * k
  <2>1. (s + e) * t = s * t + e * s + e * k
    BY <1>2
  <2>2. s * r = s * t + e * s
    BY <1>3
  <2> QED  BY <2>1, <2>2, MulNat
<1>5. w * t <= (s + e) * t
  BY <1>1, <1>4, MulNat
<1>6. w <= s + e
  BY <1>1, <1>5, Cancel
<1>7. w \in Nat /\ w <= r /\ t - s <= r - w
  BY <1>1, <1>2, <1>3, <1>6
<1> QED  BY <1>7 DEF w

-----------------------------------------------------------------------------
(* Share units.                                                            *)

\* Minting certificate c adds its units to its vault's and to no other's.
LEMMA UnitsAfterPut ==
    ASSUME NEW cs, NEW c, NEW e, NEW v, c \notin DOMAIN cs
    PROVE  /\ e.vault_id = v =>
                /\ ShareUnits(Put(cs, c, e), v)
                     = ShareUnits(cs, v) \cup ({c} \X (1 .. e.shares))
                /\ ShareUnits(cs, v) \cap ({c} \X (1 .. e.shares)) = {}
           /\ e.vault_id # v => ShareUnits(Put(cs, c, e), v) = ShareUnits(cs, v)
<1> DEFINE ds == Put(cs, c, e)
<1>1. DOMAIN ds = DOMAIN cs \cup {c} /\ ds[c] = e
      /\ \A x \in DOMAIN cs : ds[x] = cs[x]
  BY DEF Put
<1> HIDE DEF ds
<1>2. ASSUME e.vault_id = v
      PROVE  /\ ShareUnits(ds, v) = ShareUnits(cs, v) \cup ({c} \X (1 .. e.shares))
             /\ ShareUnits(cs, v) \cap ({c} \X (1 .. e.shares)) = {}
  BY <1>1, <1>2 DEF ShareUnits
<1>3. ASSUME e.vault_id # v
      PROVE  ShareUnits(ds, v) = ShareUnits(cs, v)
  BY <1>1, <1>3 DEF ShareUnits
<1> QED  BY <1>2, <1>3 DEF ds

\* Burning certificate c removes its units from its vault's.
LEMMA UnitsAfterDrop ==
    ASSUME NEW cs, NEW c \in DOMAIN cs, NEW v
    PROVE  /\ cs[c].vault_id = v =>
                /\ ShareUnits(Drop(cs, c), v)
                     = ShareUnits(cs, v) \ ({c} \X (1 .. cs[c].shares))
                /\ ({c} \X (1 .. cs[c].shares)) \subseteq ShareUnits(cs, v)
           /\ cs[c].vault_id # v => ShareUnits(Drop(cs, c), v) = ShareUnits(cs, v)
<1> DEFINE ds == Drop(cs, c)
<1>1. DOMAIN ds = DOMAIN cs \ {c} /\ \A x \in DOMAIN ds : ds[x] = cs[x]
  BY DEF Drop
<1> HIDE DEF ds
<1>2. ASSUME cs[c].vault_id = v
      PROVE  /\ ShareUnits(ds, v) = ShareUnits(cs, v) \ ({c} \X (1 .. cs[c].shares))
             /\ ({c} \X (1 .. cs[c].shares)) \subseteq ShareUnits(cs, v)
  BY <1>1, <1>2 DEF ShareUnits
<1>3. ASSUME cs[c].vault_id # v
      PROVE  ShareUnits(ds, v) = ShareUnits(cs, v)
  BY <1>1, <1>3 DEF ShareUnits
<1> QED  BY <1>2, <1>3 DEF ds


\* A certificate's shares are among its vault's units.
LEMMA UnitsContain ==
    ASSUME NEW cs, NEW c \in DOMAIN cs, NEW v,
           cs[c].vault_id = v, cs[c].shares \in Nat,
           IsFiniteSet(ShareUnits(cs, v))
    PROVE  cs[c].shares <= Cardinality(ShareUnits(cs, v))
<1> DEFINE own == {c} \X (1 .. cs[c].shares)
           all == ShareUnits(cs, v)
<1>1. Cardinality(own) = cs[c].shares
  BY UnitsOf
<1>2. own \in SUBSET all
  BY DEF ShareUnits
<1> HIDE DEF own, all
<1>3. Cardinality(own) <= Cardinality(all)
  BY <1>2, FS_Subset DEF all
<1> QED  BY <1>1, <1>3 DEF all

-----------------------------------------------------------------------------
(* The inductive invariant.                                                *)

\* Cardinality counts share units only where they are finitely many.
FiniteUnits == \A v \in VaultId : IsFiniteSet(ShareUnits(certs, v))

\* What the assertions of delegate and create_vault leave true for good.
Positive == \A c \in DOMAIN certs : certs[c].shares > 0

BoundedCommission == \A v \in DOMAIN vaults : vaults[v].commission_bps <= BPS

IInv ==
    /\ TypeOK
    /\ SharesBacked
    /\ FiniteUnits
    /\ Solvent
    /\ Positive
    /\ BoundedCommission

LEMMA InitIInv == Init => IInv
<1> SUFFICES ASSUME Init PROVE IInv
  OBVIOUS
<1>1. DOMAIN vaults = {} /\ DOMAIN certs = {} /\ DOMAIN registry = {}
  BY DEF Init, EmptyTable
<1>2. TypeOK
  <2>1. wallet \in [Addr -> Nat]
    BY ConstantsAssumption DEF Init, U64
  <2>2. vaults \in [{} -> PeerVaultObject] /\ certs \in [{} -> ShareCertificate]
        /\ registry \in [{} -> VaultId]
    BY DEF Init, EmptyTable
  <2> QED  BY <1>1, <2>1, <2>2 DEF TypeOK
<1>3. \A v : ShareUnits(certs, v) = {}
  BY <1>1 DEF ShareUnits
<1>4. FiniteUnits
  BY <1>3, FS_EmptySet DEF FiniteUnits
<1> QED
  BY <1>1, <1>2, <1>4 DEF IInv, SharesBacked, Solvent, Positive, BoundedCommission

\* The fields of a well-typed vault and certificate.
LEMMA VaultFields ==
    ASSUME TypeOK, NEW v \in DOMAIN vaults
    PROVE  /\ v \in VaultId
           /\ vaults[v] \in PeerVaultObject
           /\ vaults[v].reserves \in Nat /\ vaults[v].reserves <= U64_MAX
           /\ vaults[v].total_shares \in Nat /\ vaults[v].total_shares <= U64_MAX
           /\ vaults[v].commission_bps \in Nat
           /\ vaults[v].peer_earnings \in Nat
BY ConstantsAssumption DEF TypeOK, PeerVaultObject, U64

LEMMA CertFields ==
    ASSUME TypeOK, NEW c \in DOMAIN certs
    PROVE  /\ c \in CertId
           /\ certs[c] \in ShareCertificate
           /\ certs[c].vault_id \in VaultId
           /\ certs[c].shares \in Nat
BY ConstantsAssumption DEF TypeOK, ShareCertificate, U64

LEMMA PutFacts ==
    ASSUME NEW f, NEW k, NEW e, NEW S, f \in [DOMAIN f -> S], e \in S
    PROVE  /\ DOMAIN Put(f, k, e) = DOMAIN f \cup {k}
           /\ Put(f, k, e) \in [DOMAIN Put(f, k, e) -> S]
           /\ Put(f, k, e)[k] = e
           /\ \A x \in DOMAIN f \ {k} : Put(f, k, e)[x] = f[x]
BY DEF Put

LEMMA DropFacts ==
    ASSUME NEW f, NEW k, NEW S, f \in [DOMAIN f -> S]
    PROVE  /\ DOMAIN Drop(f, k) = DOMAIN f \ {k}
           /\ Drop(f, k) \in [DOMAIN Drop(f, k) -> S]
           /\ \A x \in DOMAIN Drop(f, k) : Drop(f, k)[x] = f[x]
BY DEF Drop

\* An empty vault under a fresh id (create_vault, new_vault).
LEMMA FreshVault ==
    ASSUME IInv, NEW v \in VaultId, v \notin DOMAIN vaults,
           NEW peer \in Addr, NEW bps \in Nat, bps <= BPS,
           vaults' = Put(vaults, v, EmptyVault(peer, bps)),
           certs' = certs, wallet' = wallet,
           DOMAIN registry' \subseteq Addr,
           registry' \in [DOMAIN registry' -> VaultId]
    PROVE  IInv'
<1> USE DEF IInv
<1> DEFINE e == EmptyVault(peer, bps)
<1>1. /\ e \in PeerVaultObject
      /\ e.reserves = 0 /\ e.total_shares = 0 /\ e.commission_bps = bps
  BY ConstantsAssumption DEF EmptyVault, PeerVaultObject, U64
<1> HIDE DEF e
<1>2. /\ DOMAIN vaults' = DOMAIN vaults \cup {v}
      /\ vaults' \in [DOMAIN vaults' -> PeerVaultObject]
      /\ vaults'[v] = e
      /\ \A x \in DOMAIN vaults : vaults'[x] = vaults[x]
  <2>1. vaults' = Put(vaults, v, e)
    BY DEF e
  <2>2. vaults \in [DOMAIN vaults -> PeerVaultObject]
    BY DEF TypeOK
  <2>3. /\ DOMAIN Put(vaults, v, e) = DOMAIN vaults \cup {v}
        /\ Put(vaults, v, e) \in [DOMAIN Put(vaults, v, e) -> PeerVaultObject]
        /\ Put(vaults, v, e)[v] = e
        /\ \A x \in DOMAIN vaults \ {v} : Put(vaults, v, e)[x] = vaults[x]
    BY <1>1, <2>2 DEF Put
  <2> QED  BY <2>1, <2>3
<1>3. TypeOK'
  BY <1>2 DEF TypeOK
<1>4. SharesBacked'
  <2>1. ShareUnits(certs, v) = {}
    BY DEF SharesBacked, ShareUnits
  <2>2. Cardinality(ShareUnits(certs, v)) = 0
    BY <2>1, FS_EmptySet
  <2> QED  BY <1>1, <1>2, <2>2 DEF SharesBacked
<1>5. FiniteUnits' /\ Positive'
  BY DEF FiniteUnits, Positive
<1>6. Solvent' /\ BoundedCommission'
  BY <1>1, <1>2 DEF Solvent, BoundedCommission
<1> QED  BY <1>3, <1>4, <1>5, <1>6

LEMMA CreateVaultIInv ==
    ASSUME IInv, NEW v \in VaultId, NEW peer \in Addr, NEW bps \in Commissions,
           create_vault(v, peer, bps)
    PROVE  IInv'
<1>1. bps \in Nat /\ bps <= BPS /\ BPS \in Nat
  BY ConstantsAssumption DEF create_vault, U64
<1>2. DOMAIN registry' \subseteq Addr /\ registry' \in [DOMAIN registry' -> VaultId]
  BY DEF create_vault, IInv, TypeOK
<1> QED  BY <1>1, <1>2, FreshVault DEF create_vault

LEMMA NewVaultIInv ==
    ASSUME IInv, NEW v \in VaultId, NEW sender \in Addr, new_vault(v, sender)
    PROVE  IInv'
<1>1. DEFAULT_COMMISSION \in Nat /\ DEFAULT_COMMISSION <= BPS
  BY ConstantsAssumption DEF U64
<1>2. DOMAIN registry' \subseteq Addr /\ registry' \in [DOMAIN registry' -> VaultId]
  <2>1. registry \in [DOMAIN registry -> VaultId] /\ DOMAIN registry \subseteq Addr
    BY DEF IInv, TypeOK
  <2>2. registry' = Put(registry, sender, v)
    BY DEF new_vault
  <2>3. /\ DOMAIN Put(registry, sender, v) = DOMAIN registry \cup {sender}
        /\ Put(registry, sender, v) \in [DOMAIN Put(registry, sender, v) -> VaultId]
    BY <2>1, PutFacts, Zenon
  <2> QED  BY <2>1, <2>2, <2>3
<1> QED  BY <1>1, <1>2, FreshVault DEF new_vault

LEMMA AddVaultIInv ==
    ASSUME IInv, NEW peer \in Addr, NEW v \in VaultId, add_vault(peer, v)
    PROVE  IInv'
<1>1. TypeOK'
  <2>1. registry \in [DOMAIN registry -> VaultId] /\ DOMAIN registry \subseteq Addr
    BY DEF IInv, TypeOK
  <2>2. registry' = Put(registry, peer, v)
    BY DEF add_vault
  <2>3. /\ DOMAIN Put(registry, peer, v) = DOMAIN registry \cup {peer}
        /\ Put(registry, peer, v) \in [DOMAIN Put(registry, peer, v) -> VaultId]
    BY <2>1, PutFacts, Zenon
  <2> QED  BY <2>1, <2>2, <2>3 DEF add_vault, IInv, TypeOK
<1> QED
  BY <1>1 DEF add_vault, IInv, SharesBacked, FiniteUnits, Solvent, Positive,
              BoundedCommission

-----------------------------------------------------------------------------
(* Delegating and redeeming preserve the invariant.                        *)

\* The shares an amount buys never exceed it, because a share is worth at
\* least one unit.
LEMMA SharesBought ==
    ASSUME NEW vault, NEW amount \in Nat,
           vault.reserves \in Nat, vault.total_shares \in Nat,
           vault.total_shares <= vault.reserves
    PROVE  /\ SharesFor(vault, amount) \in Nat
           /\ SharesFor(vault, amount) <= amount
           /\ vault.total_shares > 0
                => SharesFor(vault, amount) * vault.reserves
                     <= amount * vault.total_shares
<1>1. CASE vault.total_shares = 0
  BY <1>1 DEF SharesFor
<1>2. CASE vault.total_shares > 0
  <2>1. SharesFor(vault, amount)
          = mul_div(amount, vault.total_shares, vault.reserves)
    BY <1>2 DEF SharesFor
  <2>2. vault.reserves > 0
    BY <1>2
  <2>3. /\ mul_div(amount, vault.total_shares, vault.reserves) \in Nat
        /\ mul_div(amount, vault.total_shares, vault.reserves) * vault.reserves
             <= amount * vault.total_shares
    BY <2>2, MulDivIsFloor
  <2>4. mul_div(amount, vault.total_shares, vault.reserves) <= amount
    BY <2>2, MulDivBound
  <2> QED  BY <2>1, <2>3, <2>4
<1> QED  BY <1>1, <1>2

LEMMA JoinedFields ==
    ASSUME NEW vault \in PeerVaultObject, NEW amount \in Nat,
           SharesFor(vault, amount) \in Nat,
           Joined(vault, amount).reserves <= U64_MAX,
           Joined(vault, amount).total_shares <= U64_MAX
    PROVE  /\ Joined(vault, amount).reserves = vault.reserves + amount
           /\ Joined(vault, amount).total_shares
                = vault.total_shares + SharesFor(vault, amount)
           /\ Joined(vault, amount).commission_bps = vault.commission_bps
           /\ Joined(vault, amount) \in PeerVaultObject
<1> DEFINE n == SharesFor(vault, amount)
           r == vault.reserves + amount
           t == vault.total_shares + n
           f == [vault EXCEPT !.reserves = r, !.total_shares = t]
<1>1. Joined(vault, amount) = f
  BY DEF Joined
<1>2. /\ vault.reserves \in Nat /\ vault.total_shares \in Nat
      /\ n \in Nat
  BY ConstantsAssumption DEF PeerVaultObject, U64
<1> HIDE DEF n
<1>3. r \in Nat /\ t \in Nat
  BY <1>2
<1> HIDE DEF r, t
<1>4. /\ f.reserves = r /\ f.total_shares = t
      /\ f.commission_bps = vault.commission_bps
  BY DEF PeerVaultObject
<1>5. r \in U64 /\ t \in U64
  BY <1>1, <1>3, <1>4, ConstantsAssumption DEF U64
<1>6. f \in PeerVaultObject
  BY <1>5 DEF PeerVaultObject
<1> QED  BY <1>1, <1>4, <1>6 DEF r, t, n

LEMMA DelegateIInv ==
    ASSUME IInv, NEW sender \in Addr, NEW v \in DOMAIN vaults, NEW c \in CertId,
           NEW amount \in 0 .. wallet[sender], delegate(sender, v, amount, c)
    PROVE  IInv'
<1> USE DEF IInv
<1> DEFINE vault == vaults[v]
           n == SharesFor(vault, amount)
           e == [vault_id |-> v, shares |-> n, owner |-> sender]
           f == Joined(vault, amount)
<1>1. /\ v \in VaultId /\ vault \in PeerVaultObject
      /\ vault.reserves \in Nat /\ vault.total_shares \in Nat
      /\ vault.total_shares <= vault.reserves
  BY VaultFields DEF Solvent
<1>2. amount \in Nat /\ wallet \in [Addr -> Nat]
  BY DEF TypeOK
<1>3. n \in Nat /\ n <= amount
  BY <1>1, <1>2, SharesBought
<1>4. /\ c \notin DOMAIN certs /\ n > 0
      /\ f.reserves <= U64_MAX /\ f.total_shares <= U64_MAX
      /\ vaults' = [vaults EXCEPT ![v] = f]
      /\ certs' = Put(certs, c, e)
      /\ wallet' = [wallet EXCEPT ![sender] = @ - amount]
      /\ registry' = registry
  BY DEF delegate
<1>5. /\ f.reserves = vault.reserves + amount
      /\ f.total_shares = vault.total_shares + n
      /\ f.commission_bps = vault.commission_bps
      /\ f \in PeerVaultObject
  BY <1>1, <1>2, <1>3, <1>4, JoinedFields
<1>6. e \in [vault_id : {v}, shares : {n}, owner : {sender}]
      /\ e.vault_id = v /\ e.shares = n
  OBVIOUS
<1> HIDE DEF n, e, f
<1>8. e \in ShareCertificate
  BY <1>1, <1>2, <1>3, <1>4, <1>5, <1>6, ConstantsAssumption
  DEF ShareCertificate, U64
<1>9. /\ DOMAIN vaults' = DOMAIN vaults
      /\ vaults' \in [DOMAIN vaults' -> PeerVaultObject]
      /\ vaults'[v] = f
      /\ \A x \in DOMAIN vaults \ {v} : vaults'[x] = vaults[x]
  BY <1>4, <1>5 DEF TypeOK
<1>10. /\ DOMAIN certs' = DOMAIN certs \cup {c}
       /\ certs' \in [DOMAIN certs' -> ShareCertificate]
       /\ certs'[c] = e
       /\ \A x \in DOMAIN certs : certs'[x] = certs[x]
  <2>1. certs \in [DOMAIN certs -> ShareCertificate]
    BY DEF TypeOK
  <2> QED  BY <1>4, <1>8, <2>1 DEF Put
<1>11. TypeOK'
  <2>1. wallet' \in [Addr -> Nat]
    BY <1>2, <1>4
  <2> QED  BY <1>4, <1>9, <1>10, <2>1 DEF TypeOK
<1>12. \A x \in VaultId : x # v => ShareUnits(certs', x) = ShareUnits(certs, x)
  BY <1>4, <1>6, UnitsAfterPut
<1>13. /\ IsFiniteSet(ShareUnits(certs', v))
       /\ Cardinality(ShareUnits(certs', v))
            = Cardinality(ShareUnits(certs, v)) + n
  <2> DEFINE old == ShareUnits(certs, v)
             own == {c} \X (1 .. n)
  <2>1. IsFiniteSet(own) /\ Cardinality(own) = n
    BY <1>3, UnitsOf
  <2>2. ShareUnits(certs', v) = old \cup own /\ old \cap own = {}
    BY <1>4, <1>6, UnitsAfterPut
  <2>3. IsFiniteSet(old)
    BY <1>1 DEF FiniteUnits
  <2> HIDE DEF old, own
  <2>4. /\ IsFiniteSet(old \cup own)
        /\ Cardinality(old \cup own)
             = Cardinality(old) + Cardinality(own) - Cardinality(old \cap own)
    BY <2>1, <2>3, FS_Union
  <2>5. Cardinality(old \cap own) = 0
    BY <2>2, FS_EmptySet
  <2>6. Cardinality(old) \in Nat
    BY <2>3, FS_CardinalityType
  <2> QED  BY <1>3, <2>1, <2>2, <2>4, <2>5, <2>6 DEF old
<1>14. SharesBacked'
  <2>1. \A x \in DOMAIN certs' : certs'[x].vault_id \in DOMAIN vaults'
    BY <1>6, <1>9, <1>10 DEF SharesBacked
  <2>2. ASSUME NEW x \in DOMAIN vaults'
        PROVE  Cardinality(ShareUnits(certs', x)) = vaults'[x].total_shares
    <3>1. CASE x = v
      BY <3>1, <1>5, <1>9, <1>13 DEF SharesBacked
    <3>2. CASE x # v
      BY <3>2, <1>9, <1>12, VaultFields DEF SharesBacked
    <3> QED  BY <3>1, <3>2
  <2> QED  BY <2>1, <2>2 DEF SharesBacked
<1>15. FiniteUnits'
  BY <1>12, <1>13 DEF FiniteUnits
<1>16. Solvent'
  BY <1>1, <1>2, <1>3, <1>5, <1>9 DEF Solvent
<1>17. Positive'
  BY <1>4, <1>6, <1>10 DEF Positive
<1>18. BoundedCommission'
  BY <1>5, <1>9 DEF BoundedCommission
<1> QED  BY <1>11, <1>14, <1>15, <1>16, <1>17, <1>18

LEMMA UndelegateIInv ==
    ASSUME IInv, NEW sender \in Addr, NEW v \in DOMAIN vaults,
           NEW c \in DOMAIN certs, undelegate(sender, v, c)
    PROVE  IInv'
<1> USE DEF IInv
<1> DEFINE vault == vaults[v]
           s == certs[c].shares
           w == RedeemValue(vault, s)
           t == vault.total_shares - s
           r == vault.reserves - w
           f == [vault EXCEPT !.total_shares = t, !.reserves = r]
<1>1. /\ v \in VaultId /\ vault \in PeerVaultObject
      /\ vault.reserves \in Nat /\ vault.reserves <= U64_MAX
      /\ vault.total_shares \in Nat /\ vault.total_shares <= U64_MAX
      /\ vault.total_shares <= vault.reserves
  BY VaultFields DEF Solvent
<1>2. /\ certs[c].vault_id = v /\ s > 0 /\ s <= vault.total_shares
      /\ vaults' = [vaults EXCEPT ![v].total_shares = @ - s,
                                  ![v].reserves = @ - w]
      /\ certs' = Drop(certs, c)
      /\ wallet' = [wallet EXCEPT ![sender] = @ + w]
      /\ registry' = registry
  BY DEF undelegate, Redeemable
<1>3. s \in Nat
  BY CertFields
<1>4. w \in Nat /\ w <= vault.reserves /\ t <= r
  BY <1>1, <1>2, <1>3, RedeemBound DEF RedeemValue
<1>5. vaults' = [vaults EXCEPT ![v] = f]
  BY <1>1, <1>2 DEF PeerVaultObject
<1> HIDE DEF s, w
<1>6. t \in U64 /\ r \in U64
  BY <1>1, <1>2, <1>3, <1>4, ConstantsAssumption DEF U64
<1>7. t = vault.total_shares - s
  OBVIOUS
<1> HIDE DEF t, r
<1>8. /\ f.reserves = r /\ f.total_shares = t
      /\ f.commission_bps = vault.commission_bps
      /\ f \in PeerVaultObject
  BY <1>1, <1>6 DEF PeerVaultObject
<1> HIDE DEF f
<1>9. /\ DOMAIN vaults' = DOMAIN vaults
      /\ vaults' \in [DOMAIN vaults' -> PeerVaultObject]
      /\ vaults'[v] = f
      /\ \A x \in DOMAIN vaults \ {v} : vaults'[x] = vaults[x]
  BY <1>5, <1>8 DEF TypeOK
<1>10. /\ DOMAIN certs' = DOMAIN certs \ {c}
       /\ certs' \in [DOMAIN certs' -> ShareCertificate]
       /\ \A x \in DOMAIN certs' : certs'[x] = certs[x]
  <2>1. certs \in [DOMAIN certs -> ShareCertificate]
    BY DEF TypeOK
  <2> QED  BY <1>2, <2>1 DEF Drop
<1>11. TypeOK'
  <2>1. wallet' \in [Addr -> Nat]
    BY <1>2, <1>4 DEF TypeOK
  <2> QED  BY <1>2, <1>9, <1>10, <2>1 DEF TypeOK
<1>12. \A x \in VaultId : x # v => ShareUnits(certs', x) = ShareUnits(certs, x)
  BY <1>2, UnitsAfterDrop
<1>13. /\ IsFiniteSet(ShareUnits(certs', v))
       /\ Cardinality(ShareUnits(certs', v))
            = Cardinality(ShareUnits(certs, v)) - s
  <2> DEFINE old == ShareUnits(certs, v)
             own == {c} \X (1 .. s)
  <2>1. IsFiniteSet(own) /\ Cardinality(own) = s
    BY <1>3, UnitsOf
  <2>2. ShareUnits(certs', v) = old \ own /\ own \subseteq old
    BY <1>2, UnitsAfterDrop DEF s
  <2>3. IsFiniteSet(old)
    BY <1>1 DEF FiniteUnits
  <2> HIDE DEF old, own
  <2>4. /\ IsFiniteSet(old \ own)
        /\ Cardinality(old \ own) = Cardinality(old) - Cardinality(old \cap own)
    BY <2>3, FS_Difference
  <2>5. old \cap own = own
    BY <2>2
  <2> QED  BY <2>1, <2>2, <2>4, <2>5 DEF old
<1>14. SharesBacked'
  <2>1. \A x \in DOMAIN certs' : certs'[x].vault_id \in DOMAIN vaults'
    BY <1>9, <1>10 DEF SharesBacked
  <2>2. ASSUME NEW x \in DOMAIN vaults'
        PROVE  Cardinality(ShareUnits(certs', x)) = vaults'[x].total_shares
    <3>1. CASE x = v
      BY <3>1, <1>7, <1>8, <1>9, <1>13 DEF SharesBacked
    <3>2. CASE x # v
      BY <3>2, <1>9, <1>12, VaultFields DEF SharesBacked
    <3> QED  BY <3>1, <3>2
  <2> QED  BY <2>1, <2>2 DEF SharesBacked
<1>15. FiniteUnits'
  BY <1>12, <1>13 DEF FiniteUnits
<1>16. Solvent'
  BY <1>4, <1>8, <1>9 DEF Solvent
<1>17. Positive'
  BY <1>10 DEF Positive
<1>18. BoundedCommission'
  BY <1>8, <1>9 DEF BoundedCommission
<1> QED  BY <1>11, <1>14, <1>15, <1>16, <1>17, <1>18

LEMMA TransferCertIInv ==
    ASSUME IInv, NEW sender \in Addr, NEW c \in DOMAIN certs, NEW to \in Addr,
           transfer_cert(sender, c, to)
    PROVE  IInv'
<1> USE DEF IInv
<1> DEFINE e == [certs[c] EXCEPT !.owner = to]
<1>1. /\ certs' = [certs EXCEPT ![c].owner = to]
      /\ vaults' = vaults /\ registry' = registry /\ wallet' = wallet
  BY DEF transfer_cert
<1>2. certs[c] \in ShareCertificate
  BY CertFields
<1>3. certs' = [certs EXCEPT ![c] = e]
  BY <1>1
<1>4. /\ e \in ShareCertificate
      /\ e.vault_id = certs[c].vault_id /\ e.shares = certs[c].shares
  BY <1>2 DEF ShareCertificate
<1> HIDE DEF e
<1>5. /\ DOMAIN certs' = DOMAIN certs
      /\ certs' \in [DOMAIN certs' -> ShareCertificate]
      /\ \A x \in DOMAIN certs : /\ certs'[x].vault_id = certs[x].vault_id
                                 /\ certs'[x].shares = certs[x].shares
  BY <1>3, <1>4 DEF TypeOK
<1>6. TypeOK'
  BY <1>1, <1>5 DEF TypeOK
<1>7. \A x : ShareUnits(certs', x) = ShareUnits(certs, x)
  BY <1>5 DEF ShareUnits
<1>8. SharesBacked' /\ FiniteUnits'
  <2>1. vaults' = vaults
    BY <1>1
  <2>2. SharesBacked /\ FiniteUnits
    BY <1>1
  <2>3. SharesBacked'
    <3>1. \A x \in DOMAIN certs' : certs'[x].vault_id \in DOMAIN vaults'
      BY <1>5, <2>1, <2>2 DEF SharesBacked
    <3>2. \A v \in DOMAIN vaults' :
            Cardinality(ShareUnits(certs', v)) = vaults'[v].total_shares
      BY <1>7, <2>1, <2>2, Zenon DEF SharesBacked
    <3> QED  BY <3>1, <3>2 DEF SharesBacked
  <2>4. FiniteUnits'
    BY <1>7, <2>2, Zenon DEF FiniteUnits
  <2> QED  BY <2>3, <2>4
<1>9. Solvent' /\ Positive' /\ BoundedCommission'
  BY <1>1, <1>5 DEF Solvent, Positive, BoundedCommission
<1> QED  BY <1>6, <1>8, <1>9

-----------------------------------------------------------------------------
(* Payments and claims.                                                    *)

\* A vault's earnings or reserves change, its shares and commission do not.
LEMMA IncomeIInv ==
    ASSUME IInv, NEW v \in DOMAIN vaults, NEW f \in PeerVaultObject,
           f.total_shares = vaults[v].total_shares,
           f.commission_bps = vaults[v].commission_bps,
           f.reserves >= vaults[v].reserves,
           vaults' = [vaults EXCEPT ![v] = f],
           certs' = certs, registry' = registry, wallet' \in [Addr -> Nat]
    PROVE  IInv'
<1> USE DEF IInv
<1>1. /\ DOMAIN vaults' = DOMAIN vaults
      /\ vaults' \in [DOMAIN vaults' -> PeerVaultObject]
      /\ vaults'[v] = f
      /\ \A x \in DOMAIN vaults \ {v} : vaults'[x] = vaults[x]
  BY DEF TypeOK
<1>2. TypeOK'
  BY <1>1 DEF TypeOK
<1>3. SharesBacked'
  BY <1>1 DEF SharesBacked
<1>4. FiniteUnits' /\ Positive'
  BY DEF FiniteUnits, Positive
<1>5. Solvent'
  <2>1. /\ vaults[v].total_shares \in Nat /\ vaults[v].reserves \in Nat
        /\ f.reserves \in Nat
    BY VaultFields, ConstantsAssumption DEF PeerVaultObject, U64
  <2> QED  BY <1>1, <2>1 DEF Solvent
<1>6. BoundedCommission'
  BY <1>1 DEF BoundedCommission
<1> QED  BY <1>2, <1>3, <1>4, <1>5, <1>6

LEMMA PayIInv ==
    ASSUME IInv, NEW payer \in Addr, NEW v \in DOMAIN vaults,
           NEW amount \in 0 .. wallet[payer], pay(payer, v, amount)
    PROVE  IInv'
<1> DEFINE vault == vaults[v]
           m == Commission(vault, amount)
           r == vault.reserves + (amount - m)
           n == vault.peer_earnings + m
           f == [vault EXCEPT !.peer_earnings = n, !.reserves = r]
<1>1. /\ vault \in PeerVaultObject
      /\ vault.reserves \in Nat /\ vault.peer_earnings \in Nat
      /\ vault.commission_bps \in Nat
  BY VaultFields DEF IInv
<1>2. amount \in Nat /\ wallet \in [Addr -> Nat] /\ BPS \in Nat /\ BPS > 0
  BY ConstantsAssumption DEF IInv, TypeOK, U64
<1>3. m \in Nat
  BY <1>1, <1>2, MulDivIsFloor DEF Commission
<1>4. collect_rewards(vault, amount) = f
  BY DEF collect_rewards
<1>5. /\ m <= amount
      /\ f.peer_earnings <= U64_MAX /\ f.reserves <= U64_MAX
      /\ vaults' = [vaults EXCEPT ![v] = f]
      /\ certs' = certs /\ registry' = registry
      /\ wallet' = [wallet EXCEPT ![payer] = @ - amount]
  BY <1>4 DEF pay, collect_rewards_ok
<1> HIDE DEF m
<1>6. r \in Nat /\ r >= vault.reserves /\ n \in Nat
  BY <1>1, <1>2, <1>3, <1>5
<1> HIDE DEF r, n
<1>7. /\ f.peer_earnings = n /\ f.reserves = r
      /\ f.total_shares = vault.total_shares
      /\ f.commission_bps = vault.commission_bps
  BY <1>1 DEF PeerVaultObject
<1>8. r \in U64 /\ n \in U64
  BY <1>5, <1>6, <1>7, ConstantsAssumption DEF U64
<1>9. f \in PeerVaultObject
  BY <1>1, <1>8 DEF PeerVaultObject
<1> HIDE DEF f
<1>10. wallet' \in [Addr -> Nat]
  BY <1>2, <1>5
<1> QED  BY <1>5, <1>6, <1>7, <1>9, <1>10, IncomeIInv

LEMMA ClaimEarningsIInv ==
    ASSUME IInv, NEW sender \in Addr, NEW v \in DOMAIN vaults,
           claim_earnings(sender, v)
    PROVE  IInv'
<1> DEFINE vault == vaults[v]
           f == [vault EXCEPT !.peer_earnings = 0]
<1>1. /\ vault \in PeerVaultObject
      /\ vault.reserves \in Nat /\ vault.peer_earnings \in Nat
  BY VaultFields DEF IInv
<1>2. /\ vaults' = [vaults EXCEPT ![v] = f]
      /\ certs' = certs /\ registry' = registry
      /\ wallet' = [wallet EXCEPT ![sender] = @ + vault.peer_earnings]
  BY DEF claim_earnings
<1>3. /\ f \in PeerVaultObject
      /\ f.reserves = vault.reserves
      /\ f.total_shares = vault.total_shares
      /\ f.commission_bps = vault.commission_bps
  BY <1>1, ConstantsAssumption DEF PeerVaultObject, U64
<1> HIDE DEF f
<1>4. f.reserves >= vault.reserves
  BY <1>1, <1>3
<1>5. wallet' \in [Addr -> Nat]
  BY <1>1, <1>2 DEF IInv, TypeOK
<1> QED  BY <1>2, <1>3, <1>4, <1>5, IncomeIInv

LEMMA NextIInv == ASSUME IInv, [Next]_vars PROVE IInv'
<1>1. CASE \E v \in VaultId, peer \in Addr, bps \in Commissions :
                create_vault(v, peer, bps)
  BY <1>1, CreateVaultIInv
<1>2. CASE \E v \in VaultId, sender \in Addr : new_vault(v, sender)
  BY <1>2, NewVaultIInv
<1>3. CASE \E peer \in Addr, v \in VaultId : add_vault(peer, v)
  BY <1>3, AddVaultIInv
<1>4. CASE \E sender \in Addr, v \in DOMAIN vaults, c \in CertId :
              \E amount \in 0 .. wallet[sender] : delegate(sender, v, amount, c)
  BY <1>4, DelegateIInv
<1>5. CASE \E sender \in Addr, v \in DOMAIN vaults, c \in DOMAIN certs :
              undelegate(sender, v, c)
  BY <1>5, UndelegateIInv
<1>6. CASE \E sender, to \in Addr, c \in DOMAIN certs :
              transfer_cert(sender, c, to)
  BY <1>6, TransferCertIInv
<1>7. CASE \E payer \in Addr, v \in DOMAIN vaults :
              \E amount \in 0 .. wallet[payer] : pay(payer, v, amount)
  BY <1>7, PayIInv
<1>8. CASE \E sender \in Addr, v \in DOMAIN vaults : claim_earnings(sender, v)
  BY <1>8, ClaimEarningsIInv
<1>9. CASE UNCHANGED vars
  BY <1>9 DEF vars, IInv, TypeOK, SharesBacked, FiniteUnits, Solvent, Positive,
              BoundedCommission
<1> QED  BY <1>1, <1>2, <1>3, <1>4, <1>5, <1>6, <1>7, <1>8, <1>9 DEF Next

\* The invariant holds in every reachable state.
THEOREM Inductive == Spec => []IInv
BY InitIInv, NextIInv, PTL DEF Spec

-----------------------------------------------------------------------------
(* The theorems.                                                           *)

\* Every field of every vault and certificate stays a u64: no entry function
\* of peer_vault.move or settlement::pay can wrap one.
THEOREM TypeCorrect == Spec => []TypeOK
<1>1. IInv => TypeOK
  BY DEF IInv
<1> QED  BY <1>1, Inductive, PTL

\* delegate and undelegate keep total_shares equal to the shares of the
\* certificates in circulation.
THEOREM SharesAreBacked == Spec => []SharesBacked
<1>1. IInv => SharesBacked
  BY DEF IInv
<1> QED  BY <1>1, Inductive, PTL

\* The shares of a vault never outgrow its reserves.
THEOREM VaultsAreSolvent == Spec => []Solvent
<1>1. IInv => Solvent
  BY DEF IInv
<1> QED  BY <1>1, Inductive, PTL

\* What the invariant says of one certificate and its vault.
LEMMA CertInVault ==
    ASSUME IInv, NEW c \in DOMAIN certs
    PROVE  LET v == certs[c].vault_id
           IN  /\ v \in DOMAIN vaults /\ v \in VaultId
               /\ certs[c].shares \in Nat /\ certs[c].shares > 0
               /\ vaults[v].total_shares \in Nat
               /\ vaults[v].reserves \in Nat
               /\ vaults[v].reserves <= U64_MAX
               /\ certs[c].shares <= vaults[v].total_shares
               /\ vaults[v].total_shares <= vaults[v].reserves
<1> DEFINE v == certs[c].vault_id
<1>1. v \in DOMAIN vaults /\ certs[c].shares > 0
  BY DEF IInv, SharesBacked, Positive
<1>2. v \in VaultId /\ certs[c].shares \in Nat
  BY CertFields DEF IInv
<1>3. /\ vaults[v].total_shares \in Nat /\ vaults[v].reserves \in Nat
      /\ vaults[v].reserves <= U64_MAX
  BY <1>1, VaultFields DEF IInv
<1>4. IsFiniteSet(ShareUnits(certs, v))
  BY <1>2 DEF IInv, FiniteUnits
<1>5. certs[c].shares <= Cardinality(ShareUnits(certs, v))
  BY <1>2, <1>4, UnitsContain
<1>6. Cardinality(ShareUnits(certs, v)) = vaults[v].total_shares
  BY <1>1 DEF IInv, SharesBacked
<1>7. vaults[v].total_shares <= vaults[v].reserves
  BY <1>1 DEF IInv, Solvent
<1> QED  BY <1>1, <1>2, <1>3, <1>5, <1>6, <1>7

\* undelegate of any certificate runs to its end.
LEMMA Redeems ==
    ASSUME IInv, NEW c \in DOMAIN certs
    PROVE  /\ certs[c].vault_id \in DOMAIN vaults
           /\ Redeemable(certs[c].vault_id, vaults[certs[c].vault_id], certs[c])
<1> DEFINE v == certs[c].vault_id
           t == vaults[v].total_shares
           r == vaults[v].reserves
           s == certs[c].shares
<1>1. /\ v \in DOMAIN vaults
      /\ s \in Nat /\ s > 0 /\ t \in Nat /\ r \in Nat
      /\ r <= U64_MAX /\ s <= t /\ t <= r
  BY CertInVault
<1>2. mul_div(s, r, t) \in Nat /\ mul_div(s, r, t) <= r
  <2> HIDE DEF s, t, r
  <2>1. t > 0
    BY <1>1
  <2> QED  BY <1>1, <2>1, RedeemBound
<1>3. mul_div_ok(s, r, t)
  BY <1>1, <1>2, ConstantsAssumption DEF mul_div_ok, mul_div
<1> QED  BY <1>1, <1>2, <1>3 DEF Redeemable, RedeemValue

\* No certificate can ever be stuck.
THEOREM Redeemability == Spec => []AlwaysRedeemable
<1>1. IInv => AlwaysRedeemable
  BY Redeems DEF AlwaysRedeemable
<1> QED  BY <1>1, Inductive, PTL

\* The commission of a payment of any amount fits into it.
LEMMA Splits ==
    ASSUME IInv, NEW v \in DOMAIN vaults, NEW amount \in U64 \ {0}
    PROVE  collect_rewards_ok(vaults[v], amount)
<1> DEFINE b == vaults[v].commission_bps
<1>1. amount \in Nat /\ amount > 0 /\ amount <= U64_MAX /\ U64_MAX \in Nat
      /\ BPS \in Nat /\ BPS > 0
  BY ConstantsAssumption DEF U64
<1>2. b \in Nat /\ b <= BPS
  BY VaultFields DEF IInv, BoundedCommission
<1>3. mul_div(amount, b, BPS) \in Nat /\ mul_div(amount, b, BPS) <= amount
  BY <1>1, <1>2, MulDivIsFloor, MulDivBound
<1>4. mul_div_ok(amount, b, BPS)
  BY <1>1, <1>3 DEF mul_div_ok, mul_div
<1> QED  BY <1>1, <1>3, <1>4 DEF collect_rewards_ok, Commission

\* settlement::pay never aborts on the split of the coin.
THEOREM PaymentsAlwaysSplit == Spec => []PaymentsSplit
<1>1. IInv => PaymentsSplit
  BY Splits DEF PaymentsSplit
<1> QED  BY <1>1, Inductive, PTL

\* Delegating and redeeming at once never gains.
THEOREM NoRoundTripGain == Spec => []NoRoundTripProfit
<1>1. ASSUME IInv, NEW v \in DOMAIN vaults, NEW amount \in U64 \ {0},
             vaults[v].total_shares > 0, SharesFor(vaults[v], amount) > 0
      PROVE  RedeemValue(Joined(vaults[v], amount), SharesFor(vaults[v], amount))
               <= amount
  <2> DEFINE r == vaults[v].reserves
             t == vaults[v].total_shares
             n == SharesFor(vaults[v], amount)
             j == Joined(vaults[v], amount)
             w == mul_div(n, r + amount, t + n)
  <2>1. amount \in Nat
    BY ConstantsAssumption DEF U64
  <2>2. vaults[v] \in PeerVaultObject /\ r \in Nat /\ t \in Nat /\ t > 0 /\ t <= r
    BY <1>1, VaultFields DEF IInv, Solvent
  <2>3. n \in Nat /\ n > 0 /\ n * r <= amount * t
    BY <1>1, <2>1, <2>2, SharesBought
  <2>4. j.reserves = r + amount /\ j.total_shares = t + n
    BY <2>2 DEF Joined, PeerVaultObject
  <2>5. RedeemValue(j, n) = w
    BY <2>4 DEF RedeemValue
  <2> HIDE DEF r, t, n, j
  <2>6. w \in Nat /\ w * (t + n) <= n * (r + amount)
    <3>1. r + amount \in Nat /\ t + n \in Nat /\ t + n > 0
      BY <2>1, <2>2, <2>3
    <3> QED  BY <2>3, <3>1, MulDivIsFloor
  <2>7. n * (r + amount) <= amount * (t + n)
    <3>1. n * (r + amount) = n * r + n * amount
      BY <2>1, <2>2, <2>3
    <3>2. amount * (t + n) = amount * t + n * amount
      BY <2>1, <2>2, <2>3
    <3>3. n * r \in Nat /\ n * amount \in Nat /\ amount * t \in Nat
      BY <2>1, <2>2, <2>3, MulNat
    <3> QED  BY <2>3, <3>1, <3>2, <3>3
  <2> HIDE DEF w
  <2>8. w * (t + n) \in Nat /\ n * (r + amount) \in Nat /\ amount * (t + n) \in Nat
    BY <2>1, <2>2, <2>3, <2>6, MulNat
  <2>9. w <= amount
    BY <2>1, <2>2, <2>3, <2>6, <2>7, <2>8, Cancel
  <2> QED  BY <2>5, <2>9 DEF n, j
<1>2. IInv => NoRoundTripProfit
  BY <1>1 DEF NoRoundTripProfit
<1> QED  BY <1>2, Inductive, PTL

-----------------------------------------------------------------------------
(* No step dilutes a certificate.                                          *)

\* At a better rate of reserves to shares a certificate redeems no less.
LEMMA RateMono ==
    ASSUME NEW s \in Nat, NEW r1 \in Nat, NEW t1 \in Nat,
           NEW r2 \in Nat, NEW t2 \in Nat, t1 > 0, t2 > 0,
           r1 * t2 <= r2 * t1
    PROVE  mul_div(s, r1, t1) <= mul_div(s, r2, t2)
<1> DEFINE w1 == mul_div(s, r1, t1)
           w2 == mul_div(s, r2, t2)
<1>1. w1 \in Nat /\ w1 * t1 <= s * r1
  BY MulDivIsFloor
<1>2. w2 \in Nat /\ s * r2 < (w2 + 1) * t2
  BY MulDivIsFloor
<1> HIDE DEF w1, w2
<1>3. (w1 * t2) * t1 <= (s * r2) * t1
  <2>1. (w1 * t1) * t2 <= (s * r1) * t2
    BY <1>1, MulNat, MulMono
  <2>2. (r1 * t2) * s <= (r2 * t1) * s
    BY MulNat, MulMono
  <2>3. (w1 * t1) * t2 = (w1 * t2) * t1
    BY <1>1
  <2>4. (s * r1) * t2 = (r1 * t2) * s
    OBVIOUS
  <2>5. (r2 * t1) * s = (s * r2) * t1
    OBVIOUS
  <2>6. (w1 * t1) * t2 \in Nat /\ (r1 * t2) * s \in Nat /\ (r2 * t1) * s \in Nat
    BY <1>1, MulNat
  <2> QED  BY <2>1, <2>2, <2>3, <2>4, <2>5, <2>6
<1>4. w1 * t2 <= s * r2
  BY <1>1, <1>3, MulNat, Cancel
<1>5. ASSUME w2 + 1 <= w1 PROVE FALSE
  <2>1. (w2 + 1) * t2 <= w1 * t2
    BY <1>1, <1>2, <1>5, MulMono
  <2>2. w1 * t2 \in Nat /\ (w2 + 1) * t2 \in Nat /\ s * r2 \in Nat
    BY <1>1, <1>2, MulNat
  <2> QED  BY <1>2, <1>4, <2>1, <2>2
<1> QED  BY <1>1, <1>2, <1>5 DEF w1, w2

\* A certificate that a step leaves in place still has shares of its vault.
LEMMA CertAfter ==
    ASSUME IInv', NEW c \in DOMAIN certs'
    PROVE  /\ vaults'[certs'[c].vault_id].total_shares \in Nat
           /\ vaults'[certs'[c].vault_id].reserves \in Nat
           /\ vaults'[certs'[c].vault_id].total_shares > 0
<1> DEFINE v == certs'[c].vault_id
<1>1. v \in DOMAIN vaults' /\ certs'[c].shares > 0
  BY DEF IInv, SharesBacked, Positive
<1>2. v \in VaultId /\ certs'[c].shares \in Nat
  BY ConstantsAssumption DEF IInv, TypeOK, ShareCertificate, U64
<1>3. vaults'[v].total_shares \in Nat /\ vaults'[v].reserves \in Nat
  BY <1>1, ConstantsAssumption DEF IInv, TypeOK, PeerVaultObject, U64
<1>4. IsFiniteSet(ShareUnits(certs', v))
  BY <1>2 DEF IInv, FiniteUnits
<1>5. certs'[c].shares <= Cardinality(ShareUnits(certs', v))
  BY <1>2, <1>4, UnitsContain
<1>6. Cardinality(ShareUnits(certs', v)) = vaults'[v].total_shares
  BY <1>1 DEF IInv, SharesBacked
<1> QED  BY <1>1, <1>2, <1>3, <1>5, <1>6

\* If a step keeps certificate c and does not worsen its vault's rate, then
\* c redeems no less after it.
LEMMA RateStep ==
    ASSUME IInv, IInv', NEW c \in DOMAIN certs, c \in DOMAIN certs',
           NEW v, certs[c].vault_id = v, certs'[c].vault_id = v,
           certs'[c].shares = certs[c].shares,
           vaults[v].reserves * vaults'[v].total_shares
             <= vaults'[v].reserves * vaults[v].total_shares
    PROVE  RedeemValue(vaults[v], certs[c].shares)
             <= RedeemValue(vaults'[v], certs'[c].shares)
<1>1. /\ certs[c].shares \in Nat /\ certs[c].shares > 0
      /\ vaults[v].total_shares \in Nat /\ vaults[v].reserves \in Nat
      /\ certs[c].shares <= vaults[v].total_shares
  BY CertInVault
<1>2. vaults[v].total_shares > 0
  BY <1>1
<1>3. /\ vaults'[v].total_shares \in Nat /\ vaults'[v].reserves \in Nat
      /\ vaults'[v].total_shares > 0
  BY CertAfter
<1>4. mul_div(certs[c].shares, vaults[v].reserves, vaults[v].total_shares)
        <= mul_div(certs[c].shares, vaults'[v].reserves, vaults'[v].total_shares)
  BY <1>1, <1>2, <1>3, RateMono
<1> QED  BY <1>4 DEF RedeemValue

\* The step keeps c, and the rate of its vault does not get worse.
KeepsRate(c) ==
    LET v == certs[c].vault_id
    IN  /\ certs'[c].vault_id = v
        /\ certs'[c].shares = certs[c].shares
        /\ vaults[v].reserves * vaults'[v].total_shares
             <= vaults'[v].reserves * vaults[v].total_shares

\* A step that changes neither c nor its vault.
LEMMA SameRate ==
    ASSUME IInv, NEW c \in DOMAIN certs,
           certs'[c].vault_id = certs[c].vault_id,
           certs'[c].shares = certs[c].shares,
           vaults'[certs[c].vault_id] = vaults[certs[c].vault_id]
    PROVE  KeepsRate(c)
<1> DEFINE v == certs[c].vault_id
<1>1. vaults[v].total_shares \in Nat /\ vaults[v].reserves \in Nat
  BY CertInVault
<1>2. vaults[v].reserves * vaults[v].total_shares
        <= vaults[v].reserves * vaults[v].total_shares
  BY <1>1, MulNat
<1> QED  BY <1>2 DEF KeepsRate

LEMMA DelegateKeepsRate ==
    ASSUME IInv, NEW sender \in Addr, NEW u \in DOMAIN vaults, NEW d \in CertId,
           NEW amount \in 0 .. wallet[sender], delegate(sender, u, amount, d),
           NEW c \in DOMAIN certs
    PROVE  KeepsRate(c)
<1> DEFINE v == certs[c].vault_id
           r == vaults[u].reserves
           t == vaults[u].total_shares
           n == SharesFor(vaults[u], amount)
<1>1. certs'[c] = certs[c]
  BY DEF delegate, Put
<1>2. v \in DOMAIN vaults /\ vaults \in [DOMAIN vaults -> PeerVaultObject]
  BY DEF IInv, SharesBacked, TypeOK
<1>3. vaults' = [vaults EXCEPT ![u] = Joined(vaults[u], amount)]
  BY DEF delegate
<1>4. CASE v # u
  <2>1. vaults'[v] = vaults[v]
    BY <1>2, <1>3, <1>4
  <2> QED  BY <1>1, <2>1, SameRate
<1>5. CASE v = u
  <2>1. amount \in Nat
    BY DEF IInv, TypeOK
  <2>2. vaults[u] \in PeerVaultObject /\ r \in Nat /\ t \in Nat /\ t > 0 /\ t <= r
    <3>1. /\ certs[c].shares \in Nat /\ certs[c].shares > 0
          /\ certs[c].shares <= t /\ t \in Nat /\ r \in Nat /\ t <= r
      BY <1>5, CertInVault
    <3> QED  BY <1>2, <3>1
  <2>3. n \in Nat /\ n * r <= amount * t
    BY <2>1, <2>2, SharesBought
  <2>4. vaults'[u].reserves = r + amount /\ vaults'[u].total_shares = t + n
    BY <1>2, <1>3, <2>2 DEF Joined, PeerVaultObject
  <2> HIDE DEF r, t, n
  <2>5. r * (t + n) <= (r + amount) * t
    <3>1. r * (t + n) = r * t + n * r
      BY <2>2, <2>3
    <3>2. (r + amount) * t = r * t + amount * t
      BY <2>1, <2>2
    <3>3. r * t \in Nat /\ n * r \in Nat /\ amount * t \in Nat
      BY <2>1, <2>2, <2>3, MulNat
    <3> QED  BY <2>3, <3>1, <3>2, <3>3
  <2> QED  BY <1>1, <1>5, <2>4, <2>5 DEF KeepsRate, r, t
<1> QED  BY <1>4, <1>5

LEMMA UndelegateKeepsRate ==
    ASSUME IInv, NEW sender \in Addr, NEW u \in DOMAIN vaults,
           NEW d \in DOMAIN certs, undelegate(sender, u, d),
           NEW c \in DOMAIN certs, c \in DOMAIN certs'
    PROVE  KeepsRate(c)
<1> DEFINE v == certs[c].vault_id
           r == vaults[u].reserves
           t == vaults[u].total_shares
           s == certs[d].shares
           w == RedeemValue(vaults[u], s)
<1>1. certs'[c] = certs[c]
  BY DEF undelegate, Drop
<1>2. v \in DOMAIN vaults /\ vaults \in [DOMAIN vaults -> PeerVaultObject]
  BY DEF IInv, SharesBacked, TypeOK
<1>3. vaults' = [vaults EXCEPT ![u].total_shares = @ - s, ![u].reserves = @ - w]
  BY DEF undelegate
<1>4. CASE v # u
  <2>1. vaults'[v] = vaults[v]
    BY <1>2, <1>3, <1>4
  <2> QED  BY <1>1, <2>1, SameRate
<1>5. CASE v = u
  <2>1. /\ vaults[u] \in PeerVaultObject /\ r \in Nat /\ t \in Nat /\ t <= r
    BY VaultFields DEF IInv, Solvent
  <2>2. s \in Nat /\ s > 0 /\ s <= t
    BY CertFields DEF IInv, undelegate, Redeemable
  <2>3. vaults'[u].reserves = r - w /\ vaults'[u].total_shares = t - s
    BY <1>2, <1>3, <2>1 DEF PeerVaultObject
  <2>4. w \in Nat /\ w * t <= s * r /\ w <= r
    <3>1. w = mul_div(s, r, t)
      BY DEF RedeemValue
    <3> HIDE DEF r, t, s, w
    <3>2. t > 0
      BY <2>1, <2>2
    <3> QED  BY <2>1, <2>2, <3>1, <3>2, MulDivIsFloor, RedeemBound
  <2> HIDE DEF r, t, s, w
  <2>5. r * (t - s) <= (r - w) * t
    <3>1. r * (t - s) = r * t - s * r
      BY <2>1, <2>2
    <3>2. (r - w) * t = r * t - w * t
      BY <2>1, <2>4
    <3>3. r * t \in Nat /\ s * r \in Nat /\ w * t \in Nat
      BY <2>1, <2>2, <2>4, MulNat
    <3> QED  BY <2>4, <3>1, <3>2, <3>3
  <2> QED  BY <1>1, <1>5, <2>3, <2>5 DEF KeepsRate, r, t
<1> QED  BY <1>4, <1>5

LEMMA PayKeepsRate ==
    ASSUME IInv, NEW payer \in Addr, NEW u \in DOMAIN vaults,
           NEW amount \in 0 .. wallet[payer], pay(payer, u, amount),
           NEW c \in DOMAIN certs
    PROVE  KeepsRate(c)
<1> DEFINE v == certs[c].vault_id
           m == Commission(vaults[u], amount)
           r == vaults[u].reserves
           t == vaults[u].total_shares
<1>1. certs'[c] = certs[c]
  BY DEF pay
<1>2. v \in DOMAIN vaults /\ vaults \in [DOMAIN vaults -> PeerVaultObject]
  BY DEF IInv, SharesBacked, TypeOK
<1>3. vaults' = [vaults EXCEPT ![u] = collect_rewards(vaults[u], amount)]
  BY DEF pay
<1>4. CASE v # u
  <2>1. vaults'[v] = vaults[v]
    BY <1>2, <1>3, <1>4
  <2> QED  BY <1>1, <2>1, SameRate
<1>5. CASE v = u
  <2>1. amount \in Nat /\ BPS \in Nat /\ BPS > 0
    BY ConstantsAssumption DEF IInv, TypeOK, U64
  <2>2. /\ vaults[u] \in PeerVaultObject /\ r \in Nat /\ t \in Nat
        /\ vaults[u].commission_bps \in Nat
    BY VaultFields DEF IInv
  <2>3. m \in Nat /\ m <= amount
    BY <2>1, <2>2, MulDivIsFloor DEF pay, collect_rewards_ok, Commission
  <2>4. vaults'[u].reserves = r + (amount - m) /\ vaults'[u].total_shares = t
    BY <1>2, <1>3, <2>2 DEF collect_rewards, PeerVaultObject
  <2> HIDE DEF r, t, m
  <2>5. r + (amount - m) \in Nat /\ r <= r + (amount - m)
    BY <2>1, <2>2, <2>3
  <2>6. r * t <= (r + (amount - m)) * t
    BY <2>2, <2>5, MulMono
  <2> QED  BY <1>1, <1>5, <2>4, <2>6 DEF KeepsRate, r, t
<1> QED  BY <1>4, <1>5

LEMMA ClaimKeepsRate ==
    ASSUME IInv, NEW sender \in Addr, NEW u \in DOMAIN vaults,
           claim_earnings(sender, u), NEW c \in DOMAIN certs
    PROVE  KeepsRate(c)
<1> DEFINE v == certs[c].vault_id
<1>1. certs' = certs /\ vaults' = [vaults EXCEPT ![u].peer_earnings = 0]
  BY DEF claim_earnings
<1>2. v \in DOMAIN vaults /\ vaults \in [DOMAIN vaults -> PeerVaultObject]
  BY DEF IInv, SharesBacked, TypeOK
<1>3. /\ vaults'[v].reserves = vaults[v].reserves
      /\ vaults'[v].total_shares = vaults[v].total_shares
  BY <1>1, <1>2 DEF PeerVaultObject
<1>4. vaults[v].total_shares \in Nat /\ vaults[v].reserves \in Nat
  BY CertInVault
<1>5. vaults[v].reserves * vaults[v].total_shares
        <= vaults[v].reserves * vaults[v].total_shares
  BY <1>4, MulNat
<1> QED  BY <1>1, <1>3, <1>5 DEF KeepsRate

\* The value of a certificate never decreases while it exists, whatever
\* delegations, redemptions, payments and claims others make.
THEOREM CertificatesNeverDiluted == Spec => NeverDiluted
<1> DEFINE Kept == \A c \in DOMAIN certs \cap DOMAIN certs' :
                LET v == certs[c].vault_id
                IN  RedeemValue(vaults[v], certs[c].shares)
                      <= RedeemValue(vaults'[v], certs'[c].shares)
<1>1. ASSUME IInv, IInv', [Next]_vars PROVE [Kept]_vars
  <2> SUFFICES ASSUME Next, NEW c \in DOMAIN certs, c \in DOMAIN certs'
               PROVE  KeepsRate(c)
    BY <1>1, RateStep DEF KeepsRate
  <2> DEFINE v == certs[c].vault_id
  <2>1. v \in DOMAIN vaults
    BY <1>1 DEF IInv, SharesBacked
  <2>2. CASE \E x \in VaultId, peer \in Addr, bps \in Commissions :
                  create_vault(x, peer, bps)
    <3>1. certs' = certs /\ vaults'[v] = vaults[v]
      BY <2>1, <2>2 DEF create_vault, Put
    <3> QED  BY <1>1, <3>1, SameRate
  <2>3. CASE \E x \in VaultId, sender \in Addr : new_vault(x, sender)
    <3>1. certs' = certs /\ vaults'[v] = vaults[v]
      BY <2>1, <2>3 DEF new_vault, Put
    <3> QED  BY <1>1, <3>1, SameRate
  <2>4. CASE \E peer \in Addr, x \in VaultId : add_vault(peer, x)
    <3>1. certs' = certs /\ vaults' = vaults
      BY <2>4 DEF add_vault
    <3> QED  BY <1>1, <3>1, SameRate
  <2>5. CASE \E sender \in Addr, x \in DOMAIN vaults, d \in CertId :
                \E amount \in 0 .. wallet[sender] : delegate(sender, x, amount, d)
    BY <1>1, <2>5, DelegateKeepsRate
  <2>6. CASE \E sender \in Addr, x \in DOMAIN vaults, d \in DOMAIN certs :
                undelegate(sender, x, d)
    BY <1>1, <2>6, UndelegateKeepsRate
  <2>7. CASE \E sender, to \in Addr, d \in DOMAIN certs :
                transfer_cert(sender, d, to)
    <3>1. /\ certs'[c].vault_id = v
          /\ certs'[c].shares = certs[c].shares
          /\ vaults' = vaults
      BY <1>1, <2>7 DEF transfer_cert, IInv, TypeOK, ShareCertificate
    <3> QED  BY <1>1, <3>1, SameRate
  <2>8. CASE \E payer \in Addr, x \in DOMAIN vaults :
                \E amount \in 0 .. wallet[payer] : pay(payer, x, amount)
    BY <1>1, <2>8, PayKeepsRate
  <2>9. CASE \E sender \in Addr, x \in DOMAIN vaults : claim_earnings(sender, x)
    BY <1>1, <2>9, ClaimKeepsRate
  <2> QED
    BY <2>2, <2>3, <2>4, <2>5, <2>6, <2>7, <2>8, <2>9 DEF Next
<1>2. Spec => [][Kept]_vars
  BY <1>1, Inductive, PTL DEF Spec
<1> QED  BY <1>2 DEF NeverDiluted

=============================================================================

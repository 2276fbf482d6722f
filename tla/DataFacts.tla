----------------------------- MODULE DataFacts -----------------------------
(***************************************************************************)
(* Facts about numbers, sequences and sums that the proofs of several      *)
(* components need: induction, sequences that grow at the end and shrink   *)
(* at the head, a finite set as an increasing sequence, the sum of a       *)
(* function over a finite set.                                             *)
(***************************************************************************)
EXTENDS Integers, Sequences, FiniteSets, SequencesExt, FiniteSetTheorems,
        WellFoundedInduction, TLAPS

-----------------------------------------------------------------------------
(* Naturals.                                                               *)

\* A set of naturals that is not empty has a smallest element.
LEMMA Smallest ==
    ASSUME NEW T \in SUBSET Nat, T # {}
    PROVE  \E x \in T : \A y \in T : x <= y
<1>1. PICK x \in T : \A y \in T : ~(<<y, x>> \in OpToRel(<, Nat))
    BY WFMin, NatLessThanWellFounded
<1>2. \A y \in T : ~(y < x)
    BY <1>1 DEF OpToRel
<1> QED
    BY <1>2

\* Induction, with the set of the numbers that have the property.
LEMMA SetInduction ==
    ASSUME NEW T \in SUBSET Nat, 0 \in T, \A n \in T : n + 1 \in T
    PROVE  T = Nat
<1>1. SUFFICES ASSUME Nat \ T # {} PROVE FALSE
    OBVIOUS
<1>2. PICK x \in Nat \ T : \A y \in Nat \ T : x <= y
    BY <1>1, Smallest
<1>3. x # 0 /\ x - 1 \in Nat /\ x - 1 \in T /\ (x - 1) + 1 = x
    BY <1>2
<1> QED
    BY <1>2, <1>3

-----------------------------------------------------------------------------
(* Sequences.                                                              *)

\* A sequence with one entry more.
LEMMA AppendFacts ==
    ASSUME NEW S, NEW l \in Seq(S), NEW e \in S
    PROVE  /\ Append(l, e) \in Seq(S)
           /\ DOMAIN l = 1 .. Len(l) /\ Len(l) \in Nat
           /\ Len(Append(l, e)) = Len(l) + 1
           /\ DOMAIN Append(l, e) = 1 .. Len(l) + 1
           /\ \A i \in 1 .. Len(l) : Append(l, e)[i] = l[i]
           /\ Append(l, e)[Len(l) + 1] = e
           /\ ToSet(Append(l, e)) = ToSet(l) \cup {e}
<1>1. /\ Append(l, e) \in Seq(S)
      /\ DOMAIN l = 1 .. Len(l) /\ Len(l) \in Nat
      /\ Len(Append(l, e)) = Len(l) + 1
      /\ DOMAIN Append(l, e) = 1 .. Len(l) + 1
      /\ \A i \in 1 .. Len(l) : Append(l, e)[i] = l[i]
      /\ Append(l, e)[Len(l) + 1] = e
    OBVIOUS
<1>2. \A i \in 1 .. Len(l) + 1 : i \in 1 .. Len(l) \/ i = Len(l) + 1
    BY <1>1
<1>3. 1 .. Len(l) \subseteq 1 .. Len(l) + 1 /\ Len(l) + 1 \in 1 .. Len(l) + 1
    BY <1>1
<1>4. ToSet(Append(l, e)) = ToSet(l) \cup {e}
    BY <1>1, <1>2, <1>3 DEF ToSet
<1> QED
    BY <1>1, <1>4

\* The head leaves, and the others move up.
LEMMA TailFacts ==
    ASSUME NEW S, NEW s \in Seq(S), s # <<>>
    PROVE  /\ Len(s) \in Nat /\ Len(s) > 0
           /\ Head(s) = s[1] /\ Head(s) \in S
           /\ Tail(s) \in Seq(S) /\ Len(Tail(s)) = Len(s) - 1
           /\ \A i \in 1 .. Len(s) - 1 : Tail(s)[i] = s[i + 1]
    OBVIOUS

\* A sequence in which nothing comes twice.
Distinct(s) == \A i, j \in 1 .. Len(s) : s[i] = s[j] => i = j

\* Its head leaves.
LEMMA DistinctTail ==
    ASSUME NEW S, NEW s \in Seq(S), s # <<>>
    PROVE  /\ Head(s) \in ToSet(s) /\ Head(s) \in S /\ Tail(s) \in Seq(S)
           /\ ToSet(s) = ToSet(Tail(s)) \cup {Head(s)}
           /\ Distinct(s) => Distinct(Tail(s)) /\ Head(s) \notin ToSet(Tail(s))
<1>1. /\ Len(s) \in Nat /\ Len(s) > 0 /\ DOMAIN s = 1 .. Len(s)
      /\ Head(s) = s[1] /\ Head(s) \in S
      /\ Tail(s) \in Seq(S) /\ Len(Tail(s)) = Len(s) - 1
      /\ DOMAIN Tail(s) = 1 .. Len(s) - 1
      /\ \A i \in 1 .. Len(s) - 1 : Tail(s)[i] = s[i + 1]
    BY TailFacts
<1>2. \A i \in 1 .. Len(s) : i = 1 \/ (i - 1 \in 1 .. Len(s) - 1 /\ s[i] = Tail(s)[i - 1])
    BY <1>1
<1>3. \A i \in 1 .. Len(s) - 1 : i + 1 \in 1 .. Len(s) /\ i + 1 # 1
    BY <1>1
<1>4. 1 \in 1 .. Len(s)
    BY <1>1
<1>5. ToSet(s) = ToSet(Tail(s)) \cup {Head(s)} /\ Head(s) \in ToSet(s)
    <2>1. ASSUME NEW i \in 1 .. Len(s) PROVE s[i] \in ToSet(Tail(s)) \cup {Head(s)}
        BY <1>1, <1>2 DEF ToSet
    <2>2. ASSUME NEW i \in 1 .. Len(s) - 1 PROVE Tail(s)[i] \in ToSet(s)
        BY <1>1, <1>3 DEF ToSet
    <2>3. Head(s) \in ToSet(s)
        BY <1>1, <1>4 DEF ToSet
    <2>4. /\ \A x \in ToSet(s) : \E i \in 1 .. Len(s) : x = s[i]
          /\ \A x \in ToSet(Tail(s)) : \E i \in 1 .. Len(s) - 1 : x = Tail(s)[i]
        BY <1>1 DEF ToSet
    <2> QED
        BY <2>1, <2>2, <2>3, <2>4
<1>6. ASSUME Distinct(s) PROVE Distinct(Tail(s)) /\ Head(s) \notin ToSet(Tail(s))
    <2>1. ASSUME NEW i \in 1 .. Len(s) - 1, NEW j \in 1 .. Len(s) - 1,
                 Tail(s)[i] = Tail(s)[j]
          PROVE  i = j
        <3>1. s[i + 1] = s[j + 1]
            BY <1>1, <2>1
        <3>2. i + 1 = j + 1
            BY <1>3, <1>6, <3>1 DEF Distinct
        <3> QED
            BY <1>1, <3>2
    <2>2. \A i \in 1 .. Len(s) - 1 : Tail(s)[i] # s[1]
        BY <1>1, <1>3, <1>4, <1>6 DEF Distinct
    <2> QED
        BY <1>1, <2>1, <2>2 DEF Distinct, ToSet
<1> QED
    BY <1>1, <1>5, <1>6

\* Something new joins at its end.
LEMMA DistinctAppend ==
    ASSUME NEW S, NEW s \in Seq(S), NEW e \in S
    PROVE  /\ Append(s, e) \in Seq(S)
           /\ ToSet(Append(s, e)) = ToSet(s) \cup {e}
           /\ Distinct(s) /\ e \notin ToSet(s) => Distinct(Append(s, e))
<1>1. /\ Append(s, e) \in Seq(S)
      /\ DOMAIN s = 1 .. Len(s) /\ Len(s) \in Nat
      /\ Len(Append(s, e)) = Len(s) + 1
      /\ \A i \in 1 .. Len(s) : Append(s, e)[i] = s[i]
      /\ Append(s, e)[Len(s) + 1] = e
      /\ ToSet(Append(s, e)) = ToSet(s) \cup {e}
    BY AppendFacts
<1>2. ASSUME Distinct(s), e \notin ToSet(s) PROVE Distinct(Append(s, e))
    <2>1. \A i \in 1 .. Len(s) : s[i] # e
        BY <1>1, <1>2 DEF ToSet
    <2>2. \A i \in 1 .. Len(s) + 1 : i \in 1 .. Len(s) \/ i = Len(s) + 1
        BY <1>1
    <2> QED
        BY <1>1, <1>2, <2>1, <2>2 DEF Distinct
<1> QED
    BY <1>1, <1>2

\* Nothing comes in the empty sequence.
LEMMA DistinctEmpty ==
    ASSUME NEW S
    PROVE  <<>> \in Seq(S) /\ ToSet(<<>>) = {} /\ Distinct(<<>>)
    BY DEF ToSet, Distinct

\* A finite set of numbers has an increasing enumeration.
Enumerates(ids, S) ==
    /\ ids \in [1 .. Cardinality(S) -> S]
    /\ \A i, j \in DOMAIN ids : i < j => ids[i] < ids[j]

LEMMA EnumerationExists ==
    ASSUME NEW S \in SUBSET Nat, IsFiniteSet(S)
    PROVE  \E ids : Enumerates(ids, S)
<1> DEFINE Of(n) == \A R \in SUBSET Nat :
                      IsFiniteSet(R) /\ Cardinality(R) = n => \E ids : Enumerates(ids, R)
           T == {n \in Nat : Of(n)}
<1>1. 0 \in T
    <2>1. ASSUME NEW R \in SUBSET Nat, IsFiniteSet(R), Cardinality(R) = 0
          PROVE  \E ids : Enumerates(ids, R)
        <3>1. Enumerates([i \in 1 .. 0 |-> 0], R)
            BY <2>1 DEF Enumerates
        <3> QED
            BY <3>1
    <2> QED
        BY <2>1
<1>2. ASSUME NEW n \in T PROVE n + 1 \in T
    <2>1. ASSUME NEW R \in SUBSET Nat, IsFiniteSet(R), Cardinality(R) = n + 1
          PROVE  \E ids : Enumerates(ids, R)
        <3>1. n \in Nat /\ R # {}
            BY <2>1, FS_EmptySet
        <3>2. PICK m \in R : \A y \in R : m <= y
            BY <3>1, Smallest
        <3>3. IsFiniteSet(R \ {m}) /\ Cardinality(R \ {m}) = n
            <4>1. /\ IsFiniteSet(R \ {m})
                  /\ Cardinality(R \ {m}) = Cardinality(R) - 1
                BY <2>1, FS_RemoveElement
            <4> QED
                BY <2>1, <3>1, <4>1
        <3>4. PICK rest : Enumerates(rest, R \ {m})
            BY <3>3
        <3>5. /\ rest \in [1 .. n -> R \ {m}]
              /\ \A i, j \in 1 .. n : i < j => rest[i] < rest[j]
            BY <3>3, <3>4 DEF Enumerates
        <3> DEFINE ids == [i \in 1 .. n + 1 |-> IF i = 1 THEN m ELSE rest[i - 1]]
        <3>6. ids \in [1 .. n + 1 -> R]
            BY <3>1, <3>5
        <3>7. ASSUME NEW i \in 1 .. n + 1, NEW j \in 1 .. n + 1, i < j
              PROVE  ids[i] < ids[j]
            <4>1. j - 1 \in 1 .. n /\ ids[j] = rest[j - 1]
                BY <3>1, <3>7
            <4>2. rest[j - 1] \in R /\ rest[j - 1] # m
                BY <3>5, <4>1
            <4>3. CASE i = 1
                <5>1. m <= rest[j - 1] /\ m \in Nat /\ rest[j - 1] \in Nat
                    BY <3>2, <4>2
                <5> QED
                    BY <4>1, <4>2, <4>3, <5>1
            <4>4. CASE i # 1
                <5>1. i - 1 \in 1 .. n /\ ids[i] = rest[i - 1] /\ i - 1 < j - 1
                    BY <3>1, <3>7, <4>4
                <5> QED
                    BY <3>5, <4>1, <5>1
            <4> QED
                BY <4>3, <4>4
        <3> HIDE DEF ids
        <3>8. DOMAIN ids = 1 .. n + 1
            BY <3>6
        <3>9. Enumerates(ids, R)
            BY <2>1, <3>6, <3>7, <3>8 DEF Enumerates
        <3> QED
            BY <3>9
    <2> QED
        BY <2>1
<1>3. Cardinality(S) \in T
    <2>1. T \in SUBSET Nat
        OBVIOUS
    <2> HIDE DEF T
    <2>2. T = Nat
        BY <1>1, <1>2, <2>1, SetInduction
    <2> QED
        BY <2>2, FS_CardinalityType
<1> QED
    BY <1>3

\* The enumeration lists the set, and all of it, once.
LEMMA EnumerationFacts ==
    ASSUME NEW S \in SUBSET Nat, IsFiniteSet(S), NEW ids, Enumerates(ids, S)
    PROVE  ids \in Seq(S) /\ ToSet(ids) = S /\ Distinct(ids)
<1> DEFINE n == Cardinality(S)
<1>1. n \in Nat
    BY FS_CardinalityType
<1>2. ids \in [1 .. n -> S] /\ \A i, j \in 1 .. n : i < j => ids[i] < ids[j]
    BY DEF Enumerates
<1>3. \A i, j \in 1 .. n : ids[i] = ids[j] => i = j
    <2>1. SUFFICES ASSUME NEW i \in 1 .. n, NEW j \in 1 .. n, i < j
                   PROVE  ids[i] # ids[j]
        BY <1>1
    <2>2. ids[i] < ids[j] /\ ids[i] \in Nat /\ ids[j] \in Nat
        BY <1>1, <1>2, <2>1
    <2> QED
        BY <2>2
<1>4. IsFiniteSet(1 .. n) /\ Cardinality(1 .. n) = n
    BY <1>1, FS_Interval
<1>5. ids \in Surjection(1 .. n, S)
    <2>1. ids \in Injection(1 .. n, S)
        BY <1>2, <1>3 DEF Injection, IsInjective
    <2> QED
        BY <1>1, <1>4, <2>1, FS_Injection
<1>6. ToSet(ids) = S
    BY <1>2, <1>5 DEF ToSet, Surjection
<1>7. ids \in Seq(S) /\ Len(ids) = n
    BY <1>1, <1>2
<1> QED
    BY <1>3, <1>6, <1>7 DEF Distinct

-----------------------------------------------------------------------------
(* Sums.  A sum is the number of its units: n units for a summand of n.    *)

LEMMA UnitsOf ==
    ASSUME NEW c, NEW n \in Nat
    PROVE  IsFiniteSet({c} \X (1 .. n)) /\ Cardinality({c} \X (1 .. n)) = n
<1>1. IsFiniteSet({c}) /\ Cardinality({c}) = 1
    BY FS_Singleton
<1>2. IsFiniteSet(1 .. n) /\ Cardinality(1 .. n) = n
    <2>1. IsFiniteSet(1 .. n)
        BY FS_Interval
    <2>2. Cardinality(1 .. n) = IF 1 > n THEN 0 ELSE n - 1 + 1
        BY FS_Interval
    <2> QED
        BY <2>1, <2>2
<1>3. ASSUME NEW S, IsFiniteSet(S), NEW T, IsFiniteSet(T)
      PROVE  /\ IsFiniteSet(S \X T)
             /\ Cardinality(S \X T) = Cardinality(S) * Cardinality(T)
    BY <1>3, FS_Product, Zenon
<1>4. /\ IsFiniteSet({c} \X (1 .. n))
      /\ Cardinality({c} \X (1 .. n)) = Cardinality({c}) * Cardinality(1 .. n)
    BY <1>1, <1>2, <1>3, Zenon
<1>5. 1 * n = n
    OBVIOUS
<1> QED
    BY <1>1, <1>2, <1>4, <1>5, Zenon

\* The units of the values of f on S.
Units(f, S) == UNION {{x} \X (1 .. f[x]) : x \in S}

\* One element more, or less.
LEMMA UnitsAdd ==
    ASSUME NEW D, NEW f \in [D -> Nat], NEW S \in SUBSET D, NEW x \in D, x \notin S,
           IsFiniteSet(Units(f, S))
    PROVE  /\ IsFiniteSet(Units(f, S \cup {x}))
           /\ Cardinality(Units(f, S \cup {x})) = Cardinality(Units(f, S)) + f[x]
<1> DEFINE own == {x} \X (1 .. f[x])
<1>1. Units(f, S \cup {x}) = Units(f, S) \cup own /\ Units(f, S) \cap own = {}
    BY DEF Units
<1>2. IsFiniteSet(own) /\ Cardinality(own) = f[x] /\ f[x] \in Nat
    BY UnitsOf
<1> HIDE DEF own
<1>3. /\ IsFiniteSet(Units(f, S) \cup own)
      /\ Cardinality(Units(f, S) \cup own)
         = Cardinality(Units(f, S)) + Cardinality(own) - Cardinality(Units(f, S) \cap own)
    BY <1>2, FS_Union
<1>4. Cardinality(Units(f, S)) \in Nat /\ Cardinality({}) = 0
    BY FS_CardinalityType, FS_EmptySet
<1>5. /\ IsFiniteSet(Units(f, S \cup {x}))
      /\ Cardinality(Units(f, S \cup {x})) = Cardinality(Units(f, S)) + f[x] - 0
    BY <1>1, <1>2, <1>3, <1>4, Zenon
<1>6. ASSUME NEW m \in Nat, NEW n \in Nat PROVE m + n - 0 = m + n
    OBVIOUS
<1> QED
    BY <1>2, <1>4, <1>5, <1>6, Zenon

\* Finitely many naturals have finitely many units.
LEMMA UnitsFinite ==
    ASSUME NEW D, NEW f \in [D -> Nat], NEW S \in SUBSET D, IsFiniteSet(S)
    PROVE  IsFiniteSet(Units(f, S))
<1> DEFINE Of(n) == \A R \in SUBSET D :
                      IsFiniteSet(R) /\ Cardinality(R) = n => IsFiniteSet(Units(f, R))
           T == {n \in Nat : Of(n)}
<1>1. 0 \in T
    <2>1. ASSUME NEW R \in SUBSET D, IsFiniteSet(R), Cardinality(R) = 0
          PROVE  IsFiniteSet(Units(f, R))
        <3>1. Units(f, R) = {}
            BY <2>1, FS_EmptySet DEF Units
        <3> QED
            BY <3>1, FS_EmptySet
    <2> QED
        BY <2>1
<1>2. ASSUME NEW n \in T PROVE n + 1 \in T
    <2>1. ASSUME NEW R \in SUBSET D, IsFiniteSet(R), Cardinality(R) = n + 1
          PROVE  IsFiniteSet(Units(f, R))
        <3>1. n \in Nat /\ R # {}
            BY <2>1, FS_EmptySet
        <3>2. PICK x \in R : TRUE
            BY <3>1
        <3>3. IsFiniteSet(R \ {x}) /\ Cardinality(R \ {x}) = n
            <4>1. /\ IsFiniteSet(R \ {x})
                  /\ Cardinality(R \ {x}) = Cardinality(R) - 1
                BY <2>1, FS_RemoveElement
            <4> QED
                BY <2>1, <3>1, <4>1
        <3>4. R \ {x} \in SUBSET D /\ IsFiniteSet(Units(f, R \ {x}))
            BY <3>3
        <3>5. (R \ {x}) \cup {x} = R /\ x \notin R \ {x} /\ x \in D
            OBVIOUS
        <3>6. IsFiniteSet(Units(f, (R \ {x}) \cup {x}))
            BY <3>4, <3>5, UnitsAdd
        <3> QED
            BY <3>5, <3>6
    <2> QED
        BY <2>1
<1>3. T \in SUBSET Nat
    OBVIOUS
<1> HIDE DEF T
<1>4. T = Nat
    BY <1>1, <1>2, <1>3, SetInduction
<1>5. Cardinality(S) \in T
    BY <1>4, FS_CardinalityType
<1> QED
    BY <1>5 DEF T

\* The function the sum over S is defined with.
Pick(s) == CHOOSE x \in s : TRUE

Summed(f, S, iter) ==
    iter = [s \in SUBSET S |->
              IF s = {} THEN 0 ELSE f[Pick(s)] + iter[s \ {Pick(s)}]]

LEMMA SumUnfolds ==
    ASSUME NEW f, NEW S
    PROVE  FoldFunctionOnSet(+, 0, f, S) = (CHOOSE iter : Summed(f, S, iter))[S]
    BY Zenon DEF FoldFunctionOnSet, MapThenFoldSet, Summed, Pick

\* There is one, and no other: the number of the units.
LEMMA SumIsUnits ==
    ASSUME NEW D, NEW f \in [D -> Nat], NEW S \in SUBSET D, IsFiniteSet(S)
    PROVE  FoldFunctionOnSet(+, 0, f, S) = Cardinality(Units(f, S))
<1> DEFINE count == [s \in SUBSET S |-> Cardinality(Units(f, s))]
           iter == CHOOSE g : Summed(f, S, g)
<1>0. ASSUME NEW s \in SUBSET S
      PROVE  s \in SUBSET D /\ IsFiniteSet(s) /\ Cardinality(s) \in Nat
             /\ IsFiniteSet(Units(f, s)) /\ Cardinality(Units(f, s)) \in Nat
    BY FS_Subset, FS_CardinalityType, UnitsFinite
<1>1. ASSUME NEW s \in SUBSET S, s # {}
      PROVE  /\ Pick(s) \in s /\ s \ {Pick(s)} \in SUBSET S
             /\ Cardinality(s \ {Pick(s)}) = Cardinality(s) - 1
             /\ Cardinality(Units(f, s)) = f[Pick(s)] + Cardinality(Units(f, s \ {Pick(s)}))
    <2> DEFINE x == Pick(s)
    <2>1. x \in s
        BY <1>1 DEF Pick
    <2> HIDE DEF x
    <2>2. s \ {x} \in SUBSET S /\ (s \ {x}) \cup {x} = s /\ x \notin s \ {x} /\ x \in D
          /\ f[x] \in Nat
        BY <2>1
    <2>3. s \ {x} \in SUBSET D /\ IsFiniteSet(Units(f, s \ {x}))
          /\ Cardinality(Units(f, s \ {x})) \in Nat
        BY <2>2, <1>0
    <2>4. Cardinality(Units(f, (s \ {x}) \cup {x}))
          = Cardinality(Units(f, s \ {x})) + f[x]
        <3> DEFINE r == s \ {x}
        <3>1. r \in SUBSET D /\ x \in D /\ x \notin r /\ IsFiniteSet(Units(f, r))
            BY <2>2, <2>3
        <3> HIDE DEF r
        <3>2. Cardinality(Units(f, r \cup {x})) = Cardinality(Units(f, r)) + f[x]
            BY <3>1, UnitsAdd
        <3> QED
            BY <3>2 DEF r
    <2>5. Cardinality(s \ {x}) = Cardinality(s) - 1
        BY <1>0, <2>1, FS_RemoveElement
    <2>6. ASSUME NEW m \in Nat, NEW n \in Nat PROVE m + n = n + m
        OBVIOUS
    <2>7. Cardinality(Units(f, s)) = f[x] + Cardinality(Units(f, s \ {x}))
        BY <2>2, <2>3, <2>4, <2>6, Zenon
    <2> QED
        BY <2>1, <2>2, <2>5, <2>7 DEF x
<1>2. Cardinality(Units(f, {})) = 0
    <2>1. Units(f, {}) = {}
        BY DEF Units
    <2> QED
        BY <2>1, FS_EmptySet
<1>3. Summed(f, S, count)
    <2>1. ASSUME NEW s \in SUBSET S
          PROVE  count[s] = IF s = {} THEN 0 ELSE f[Pick(s)] + count[s \ {Pick(s)}]
        BY <1>1, <1>2
    <2> QED
        BY <2>1, Zenon DEF Summed
<1>4. Summed(f, S, iter)
    BY <1>3, Zenon DEF iter
<1> HIDE DEF iter
<1>5. ASSUME NEW s \in SUBSET S
      PROVE  iter[s] = IF s = {} THEN 0 ELSE f[Pick(s)] + iter[s \ {Pick(s)}]
    BY <1>4, Zenon DEF Summed
<1> DEFINE T == {n \in Nat : \A s \in SUBSET S :
                    Cardinality(s) = n => iter[s] = Cardinality(Units(f, s))}
<1>6. 0 \in T
    <2>1. ASSUME NEW s \in SUBSET S, Cardinality(s) = 0
          PROVE  iter[s] = Cardinality(Units(f, s))
        <3>1. s = {}
            BY <1>0, <2>1, FS_EmptySet
        <3> QED
            BY <1>2, <1>5, <3>1
    <2> QED
        BY <2>1
<1>7. ASSUME NEW n \in T PROVE n + 1 \in T
    <2>1. ASSUME NEW s \in SUBSET S, Cardinality(s) = n + 1
          PROVE  iter[s] = Cardinality(Units(f, s))
        <3>0. n \in Nat /\ n + 1 # 0
            OBVIOUS
        <3>1. n \in Nat /\ s # {}
            BY <2>1, <3>0, FS_EmptySet, Zenon
        <3>2. s \ {Pick(s)} \in SUBSET S /\ Cardinality(s \ {Pick(s)}) = n
            <4>1. ASSUME NEW m \in Nat PROVE (m + 1) - 1 = m
                OBVIOUS
            <4>2. /\ s \ {Pick(s)} \in SUBSET S
                  /\ Cardinality(s \ {Pick(s)}) = Cardinality(s) - 1
                BY <1>1, <3>1, Zenon
            <4> QED
                BY <2>1, <3>1, <4>1, <4>2, Zenon
        <3>3. iter[s \ {Pick(s)}] = Cardinality(Units(f, s \ {Pick(s)}))
            BY <3>2
        <3> QED
            BY <1>1, <1>5, <3>1, <3>3
    <2>2. n + 1 \in Nat
        OBVIOUS
    <2> QED
        BY <2>1, <2>2
<1>8. T \in SUBSET Nat
    OBVIOUS
<1>9. iter[S] = Cardinality(Units(f, S))
    <2> HIDE DEF T
    <2>1. T = Nat
        BY <1>6, <1>7, <1>8, SetInduction
    <2> QED
        BY <1>0, <2>1 DEF T
<1> QED
    BY <1>9, SumUnfolds DEF iter

\* The sum of nothing.
LEMMA SumEmpty ==
    ASSUME NEW D, NEW f \in [D -> Nat]
    PROVE  FoldFunctionOnSet(+, 0, f, {}) = 0
<1>1. Units(f, {}) = {} /\ IsFiniteSet({}) /\ Cardinality({}) = 0
    BY FS_EmptySet DEF Units
<1>2. FoldFunctionOnSet(+, 0, f, {}) = Cardinality(Units(f, {}))
    BY <1>1, SumIsUnits
<1> QED
    BY <1>1, <1>2, Zenon

\* What is known of a sum of naturals.
LEMMA SumFacts ==
    ASSUME NEW D, NEW f \in [D -> Nat], NEW S \in SUBSET D, IsFiniteSet(S)
    PROVE  /\ FoldFunctionOnSet(+, 0, f, S) \in Nat
           /\ \A x \in D \ S : FoldFunctionOnSet(+, 0, f, S \cup {x})
                               = FoldFunctionOnSet(+, 0, f, S) + f[x]
           /\ \A R \in SUBSET S :
                FoldFunctionOnSet(+, 0, f, R) <= FoldFunctionOnSet(+, 0, f, S)
<1>0. IsFiniteSet(Units(f, S))
    BY UnitsFinite
<1>1. /\ FoldFunctionOnSet(+, 0, f, S) = Cardinality(Units(f, S))
      /\ IsFiniteSet(Units(f, S)) /\ Cardinality(Units(f, S)) \in Nat
    BY <1>0, SumIsUnits, FS_CardinalityType
<1>2. ASSUME NEW x \in D \ S
      PROVE  FoldFunctionOnSet(+, 0, f, S \cup {x})
             = FoldFunctionOnSet(+, 0, f, S) + f[x]
    <2>1. S \cup {x} \in SUBSET D /\ IsFiniteSet(S \cup {x})
        BY FS_AddElement
    <2>2. FoldFunctionOnSet(+, 0, f, S \cup {x}) = Cardinality(Units(f, S \cup {x}))
        BY <2>1, SumIsUnits
    <2>3. Cardinality(Units(f, S \cup {x})) = Cardinality(Units(f, S)) + f[x]
        <3>1. x \in D /\ x \notin S
            OBVIOUS
        <3> QED
            BY <1>0, <3>1, UnitsAdd
    <2> QED
        BY <1>1, <2>2, <2>3
<1>3. ASSUME NEW R \in SUBSET S
      PROVE  FoldFunctionOnSet(+, 0, f, R) <= FoldFunctionOnSet(+, 0, f, S)
    <2>1. R \in SUBSET D /\ IsFiniteSet(R)
        BY FS_Subset
    <2>2. FoldFunctionOnSet(+, 0, f, R) = Cardinality(Units(f, R))
        BY <2>1, SumIsUnits
    <2>3. Units(f, R) \in SUBSET Units(f, S)
        BY DEF Units
    <2>4. Cardinality(Units(f, R)) <= Cardinality(Units(f, S))
        BY <1>1, <2>3, FS_Subset
    <2> QED
        BY <1>1, <2>2, <2>4
<1> QED
    BY <1>1, <1>2, <1>3

LEMMA SumNat ==
    ASSUME NEW D, IsFiniteSet(D), NEW f \in [D -> Nat]
    PROVE  SumFunction(f) \in Nat
<1>1. D \in SUBSET D /\ IsFiniteSet(D) /\ DOMAIN f = D
    OBVIOUS
<1>2. FoldFunctionOnSet(+, 0, f, D) = Cardinality(Units(f, D))
    <2>1. D \in SUBSET D /\ IsFiniteSet(D)
        OBVIOUS
    <2> QED
        BY <2>1, SumIsUnits
<1>3. Cardinality(Units(f, D)) \in Nat
    BY <1>1, UnitsFinite, FS_CardinalityType
<1> QED
    BY <1>1, <1>2, <1>3, Zenon DEF SumFunction, SumFunctionOnSet

\* The sum after a change at one point.
LEMMA SumChange ==
    ASSUME NEW D, IsFiniteSet(D), NEW f \in [D -> Nat], NEW g \in [D -> Nat],
           NEW x \in D, \A y \in D \ {x} : g[y] = f[y]
    PROVE  /\ SumFunction(f) \in Nat /\ SumFunction(g) \in Nat
           /\ SumFunction(g) + f[x] = SumFunction(f) + g[x]
<1> DEFINE R == D \ {x}
<1>1. /\ R \in SUBSET D /\ D \in SUBSET D /\ x \in D \ R /\ R \cup {x} = D
      /\ IsFiniteSet(R) /\ f[x] \in Nat /\ g[x] \in Nat
    BY FS_Subset
<1>2. Units(f, R) = Units(g, R)
    <2>1. \A y \in R : {y} \X (1 .. f[y]) = {y} \X (1 .. g[y])
        OBVIOUS
    <2> QED
        BY <2>1 DEF Units
<1> HIDE DEF R
<1>3. ASSUME NEW h \in [D -> Nat]
      PROVE  Cardinality(Units(h, R)) \in Nat
             /\ SumFunction(h) = Cardinality(Units(h, R)) + h[x]
    <2>1. IsFiniteSet(Units(h, R)) /\ x \in D /\ x \notin R
        BY <1>1, UnitsFinite
    <2>2. Cardinality(Units(h, R)) \in Nat
        BY <2>1, FS_CardinalityType
    <2>3. Cardinality(Units(h, R \cup {x})) = Cardinality(Units(h, R)) + h[x]
        BY <1>1, <2>1, UnitsAdd
    <2>4. FoldFunctionOnSet(+, 0, h, D) = Cardinality(Units(h, D))
        <3>1. D \in SUBSET D /\ IsFiniteSet(D)
            OBVIOUS
        <3> QED
            BY <3>1, SumIsUnits
    <2>5. DOMAIN h = D
        OBVIOUS
    <2>6. SumFunction(h) = FoldFunctionOnSet(+, 0, h, D)
        BY <2>5, Zenon DEF SumFunction, SumFunctionOnSet
    <2> QED
        BY <1>1, <2>2, <2>3, <2>4, <2>6, Zenon
<1>4. PICK n \in Nat : n = Cardinality(Units(f, R))
    BY <1>3, Zenon
<1>5. SumFunction(f) = n + f[x] /\ SumFunction(g) = n + g[x]
    BY <1>2, <1>3, <1>4, Zenon
<1> QED
    BY <1>1, <1>5

=============================================================================

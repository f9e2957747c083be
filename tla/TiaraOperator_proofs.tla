------------------------- MODULE TiaraOperator_proofs -------------------------
(***************************************************************************)
(* What the verifier promises of the operators it accepts, against the     *)
(* interpreter that runs them: for every program, manifest, argument and   *)
(* width.                                                                  *)
(***************************************************************************)
EXTENDS TiaraOperator, TLAPS, FiniteSetTheorems, SequenceTheorems, WellFoundedInduction

-----------------------------------------------------------------------------
(***************************************************************************)
(* Induction, as a fact about sets: the least number outside of S is none. *)
(***************************************************************************)
LEMMA LeastNat ==
    ASSUME NEW T, T \subseteq Nat, T # {}
    PROVE  \E x \in T : \A y \in T : x <= y
<1> DEFINE Lt == OpToRel(<, Nat)
<1>1. IsWellFoundedOn(Lt, Nat)
  BY NatLessThanWellFounded
<1>2. PICK x \in T : \A y \in T : <<y, x>> \notin Lt
  <2> HIDE DEF Lt
  <2> QED BY <1>1, WFMin, Zenon
<1>3. ASSUME NEW y \in T, y < x PROVE FALSE
  <2>1. <<y, x>> \in Nat \X Nat /\ <<y, x>>[1] < <<y, x>>[2]
    BY <1>3
  <2>2. <<y, x>> \in Lt
    BY <2>1, Zenon DEF OpToRel
  <2> QED BY <1>2, <2>2
<1> QED BY <1>3

LEMMA Inductive ==
    ASSUME NEW S, NEW N \in Nat, 0 \in S, \A n \in 0 .. N - 1 : n \in S => n + 1 \in S
    PROVE  \A n \in 0 .. N : n \in S
<1> DEFINE T == {n \in 0 .. N : n \notin S}
<1> SUFFICES ASSUME T # {} PROVE FALSE
  OBVIOUS
<1>1. PICK n \in T : \A m \in T : n <= m
  <2>1. T \subseteq Nat
    OBVIOUS
  <2> HIDE DEF T
  <2> QED BY <2>1, LeastNat
<1>2. n # 0 /\ n - 1 \notin T /\ n \in 1 .. N
  BY <1>1
<1>3. n - 1 \in S
  BY <1>2
<1> QED BY <1>1, <1>2, <1>3

LEMMA MaxIs ==
    ASSUME NEW n \in Nat, NEW S, S \subseteq 0 .. n, S # {}
    PROVE  Max(S) \in S /\ \A x \in S : x <= Max(S)
<1> DEFINE T == {n - x : x \in S}
<1>1. PICK t \in T : \A u \in T : t <= u
  <2>1. \A x \in S : n - x \in Nat
    OBVIOUS
  <2>2. T \subseteq Nat /\ T # {}
    BY <2>1
  <2> HIDE DEF T
  <2> QED BY <2>2, LeastNat
<1>2. PICK m \in S : t = n - m
  BY <1>1
<1>3. \A x \in S : m >= x
  BY <1>1, <1>2
<1>4. \E m1 \in S : \A x \in S : m1 >= x
  BY <1>3
<1>5. Max(S) \in S /\ \A x \in S : Max(S) >= x
  BY <1>4, Zenon DEF Max
<1> QED BY <1>5

-----------------------------------------------------------------------------
(***************************************************************************)
(* Bits: a number made of bits of b is no more than b, which is why ANDI   *)
(* bounds a value.                                                         *)
(***************************************************************************)
(* Powers of two: the subsets of a set, counted.                           *)
LEMMA PowerIs ==
    ASSUME NEW n \in Nat
    PROVE  2^n \in Nat \ {0} /\ 2^(n + 1) = 2 * 2^n
<1> DEFINE S == 1 .. n
           T == 1 .. n + 1
           A == SUBSET S
           B == {s \cup {n + 1} : s \in A}
<1>1. IsFiniteSet(S) /\ Cardinality(S) = n /\ IsFiniteSet(T) /\ Cardinality(T) = n + 1
  <2>1. 1 \in Int /\ n \in Int /\ n + 1 \in Int
    OBVIOUS
  <2>2. IsFiniteSet(1 .. n) /\ Cardinality(1 .. n) = IF 1 > n THEN 0 ELSE n - 1 + 1
    BY <2>1, FS_Interval, Zenon
  <2>3. PICK m \in Int : m = n + 1
    OBVIOUS
  <2>4. IsFiniteSet(1 .. m) /\ Cardinality(1 .. m) = IF 1 > m THEN 0 ELSE m - 1 + 1
    BY <2>1, FS_Interval, Zenon
  <2> QED BY <2>2, <2>3, <2>4
<1>2. T = S \cup {n + 1} /\ n + 1 \notin S
  OBVIOUS
<1>3. IsFiniteSet(A) /\ Cardinality(A) = 2^n
  <2> HIDE DEF S
  <2> QED BY <1>1, FS_SUBSET
<1>4. IsFiniteSet(SUBSET T) /\ Cardinality(SUBSET T) = 2^(n + 1)
  <2> HIDE DEF T
  <2> QED BY <1>1, FS_SUBSET
<1>5. SUBSET T = A \cup B /\ A \cap B = {}
  <2>1. ASSUME NEW t \in SUBSET T PROVE t \in A \cup B
    <3>1. CASE n + 1 \in t
      <4>1. PICK s : s = t \ {n + 1}
        OBVIOUS
      <4>2. s \in A /\ t = s \cup {n + 1}
        BY <1>2, <2>1, <3>1, <4>1
      <4> QED BY <4>2
    <3>2. CASE n + 1 \notin t
      BY <1>2, <2>1, <3>2
    <3> QED BY <3>1, <3>2
  <2>2. ASSUME NEW t \in A \cup B PROVE t \in SUBSET T
    BY <1>2, <2>2
  <2>3. ASSUME NEW t \in A, t \in B PROVE FALSE
    BY <1>2, <2>3
  <2> HIDE DEF A, B, T
  <2> QED BY <2>1, <2>2, <2>3
<1>6. IsFiniteSet(B) /\ Cardinality(B) = Cardinality(A)
  <2> DEFINE f == [s \in A |-> s \cup {n + 1}]
  <2>1. f \in [A -> B] /\ (\A b \in B : \E a \in A : f[a] = b)
    OBVIOUS
  <2>2. ASSUME NEW a \in A, NEW b \in A, f[a] = f[b] PROVE a = b
    <3>1. n + 1 \notin a /\ n + 1 \notin b /\ a \cup {n + 1} = b \cup {n + 1}
      BY <1>2, <2>2
    <3> QED BY <3>1
  <2>3. f \in Bijection(A, B)
    <3> HIDE DEF A, B, f
    <3> QED BY <2>1, <2>2 DEF Bijection, Injection, Surjection, IsInjective
  <2>4. ExistsBijection(A, B)
    <3> HIDE DEF A, B, f
    <3> QED BY <2>3 DEF ExistsBijection
  <2> HIDE DEF A, B
  <2> QED BY <1>3, <2>4, FS_Bijection
<1>7. Cardinality(SUBSET T) = 2^n + 2^n
  <2>1. Cardinality(A \cap B) = 0
    BY <1>5, FS_EmptySet
  <2>2. Cardinality(A \cup B) = Cardinality(A) + Cardinality(B) - Cardinality(A \cap B)
    <3> HIDE DEF A, B
    <3> QED BY <1>3, <1>6, FS_Union
  <2>3. Cardinality(A) \in Nat
    <3> HIDE DEF A
    <3> QED BY <1>3, FS_CardinalityType
  <2>4. PICK e : e = 2^n
    OBVIOUS
  <2> HIDE DEF A, B, T
  <2> QED BY <1>3, <1>5, <1>6, <2>1, <2>2, <2>3, <2>4
<1>8. 2^n # 0 /\ 2^n \in Nat
  <2>1. A # {}
    OBVIOUS
  <2> HIDE DEF A
  <2> QED BY <1>3, <2>1, FS_EmptySet, FS_CardinalityType
<1>9. PICK e \in Nat : e = 2^n
  BY <1>8
<1>10. e + e = 2 * e
  OBVIOUS
<1> HIDE DEF T
<1> QED BY <1>4, <1>7, <1>8, <1>9, <1>10

(* A power divides the greater ones, with an even quotient.                 *)
LEMMA PowerDivides ==
    ASSUME NEW i \in Nat, NEW x \in Nat, i < x
    PROVE  \E k \in Nat \ {0} : 2^x = 2 * (k * 2^i)
<1>1. PICK e \in Nat \ {0} : e = 2^i
  BY PowerIs
<1> DEFINE N == x - i - 1
           S == {d \in 0 .. N : \E k \in Nat \ {0} : 2^(i + d + 1) = 2 * (k * e)}
<1>2. N \in Nat
  OBVIOUS
<1>3. 0 \in S
  <2>1. 2^(i + 1) = 2 * e
    BY <1>1, PowerIs
  <2>2. i + 0 + 1 = i + 1 /\ 1 * e = e /\ 0 \in 0 .. N
    OBVIOUS
  <2> HIDE DEF N
  <2> QED BY <2>1, <2>2
<1>4. ASSUME NEW d \in 0 .. N - 1, d \in S PROVE d + 1 \in S
  <2>1. PICK k \in Nat \ {0} : 2^(i + d + 1) = 2 * (k * e)
    BY <1>4
  <2>2. PICK j \in Nat : j = i + d + 1
    OBVIOUS
  <2>3. 2^(j + 1) = 2 * 2^j
    BY <2>2, PowerIs
  <2>4. j + 1 = i + (d + 1) + 1 /\ d + 1 \in 0 .. N
    BY <2>2
  <2>5. 2 * (2 * (k * e)) = 2 * ((2 * k) * e) /\ 2 * k \in Nat \ {0}
    OBVIOUS
  <2>6. 2^(i + (d + 1) + 1) = 2 * ((2 * k) * e)
    BY <2>1, <2>2, <2>3, <2>4, <2>5
  <2> HIDE DEF N
  <2> QED BY <2>4, <2>5, <2>6
<1>5. \A d \in 0 .. N : d \in S
  <2> HIDE DEF S, N
  <2> QED BY <1>2, <1>3, <1>4, Inductive
<1>6. N \in S
  <2> HIDE DEF S, N
  <2> QED BY <1>2, <1>5
<1>7. i + N + 1 = x
  OBVIOUS
<1>8. \E k \in Nat \ {0} : 2^(i + N + 1) = 2 * (k * e)
  BY <1>6
<1> HIDE DEF N
<1> QED BY <1>1, <1>7, <1>8

(* Quotients of naturals.                                                  *)
LEMMA QuotientIs ==
    ASSUME NEW b \in Nat, NEW e \in Nat \ {0}
    PROVE  \E r \in 0 .. e - 1 : b = e * (b \div e) + r /\ b \div e \in Nat
OBVIOUS

LEMMA QuotientUnique ==
    ASSUME NEW b \in Nat, NEW e \in Nat \ {0}, NEW q \in Int, NEW r \in 0 .. e - 1, b = e * q + r
    PROVE  b \div e = q
OBVIOUS

(* Taking a bit off a number leaves its other bits.                        *)
LEMMA BitOff ==
    ASSUME NEW b \in Nat, NEW i \in Nat, NEW x \in Nat, i # x,
           (b \div 2^x) % 2 = 1, (b \div 2^i) % 2 = 1
    PROVE  b - 2^x \in Nat /\ ((b - 2^x) \div 2^i) % 2 = 1
<1>1. PICK e \in Nat \ {0} : e = 2^x
  BY PowerIs
<1>2. PICK d \in Nat \ {0} : d = 2^i
  BY PowerIs
<1>3. PICK q \in Nat, r \in 0 .. e - 1 : b = e * (2 * q + 1) + r
  <2>1. PICK r \in 0 .. e - 1 : b = e * (b \div e) + r /\ b \div e \in Nat
    BY QuotientIs
  <2>2. PICK s \in Nat : s = b \div e
    BY <2>1
  <2>3. s % 2 = 1
    BY <1>1, <2>2
  <2>4. PICK q \in Nat : s = 2 * q + 1
    BY <2>3
  <2> QED BY <2>1, <2>2, <2>4
<1>4. e * (2 * q + 1) = e * (2 * q) + e /\ e * (2 * q) \in Nat
  OBVIOUS
<1>5. b - e \in Nat /\ b - e = e * (2 * q) + r
  BY <1>3, <1>4
<1>6. PICK Q \in Nat, m \in 0 .. d - 1 : b = d * Q + m /\ Q = b \div d
  <2>1. PICK m \in 0 .. d - 1 : b = d * (b \div d) + m /\ b \div d \in Nat
    BY QuotientIs
  <2> QED BY <2>1
<1>7. CASE i < x
  <2>1. PICK k \in Nat \ {0} : e = 2 * (k * d)
    BY <1>1, <1>2, <1>7, PowerDivides
  <2>2. d * (Q - 2 * k) = d * Q - 2 * (k * d) /\ Q - 2 * k \in Int
    OBVIOUS
  <2>3. b - e = d * (Q - 2 * k) + m
    BY <1>6, <2>1, <2>2
  <2>4. (b - e) \div d = Q - 2 * k
    BY <1>5, <2>2, <2>3, QuotientUnique
  <2>5. Q % 2 = 1
    BY <1>2, <1>6
  <2>6. (Q - 2 * k) % 2 = 1
    BY <2>5
  <2> QED BY <1>1, <1>2, <1>5, <2>4, <2>6
<1>8. CASE x < i
  <2>1. PICK k \in Nat \ {0} : d = 2 * (k * e)
    BY <1>1, <1>2, <1>8, PowerDivides
  <2>2. PICK z \in Int : z = q - k * Q
    OBVIOUS
  <2>3. m = e * (2 * z + 1) + r
    <3>1. d * Q = e * (2 * (k * Q))
      BY <2>1
    <3>2. e * (2 * z + 1) = e * (2 * q) - e * (2 * (k * Q)) + e
      BY <2>2
    <3> QED BY <1>3, <1>4, <1>6, <3>1, <3>2
  <2>4. z >= 0
    <3>1. ASSUME z < 0 PROVE FALSE
      <4>1. 2 * z + 1 <= -1
        BY <3>1
      <4>2. e * (2 * z + 1) <= -e
        BY <4>1
      <4> QED BY <2>3, <4>2
    <3> QED BY <3>1
  <2>5. e * (2 * z + 1) >= e
    BY <2>4
  <2>6. m - e \in 0 .. d - 1
    BY <2>3, <2>5
  <2>7. b - e = d * Q + (m - e)
    BY <1>6
  <2>8. (b - e) \div d = Q
    BY <1>5, <2>6, <2>7, QuotientUnique
  <2> QED BY <1>1, <1>2, <1>5, <1>6, <2>8
<1> QED BY <1>7, <1>8

(***************************************************************************)
(* A number made of bits of b is no more than b.                           *)
(***************************************************************************)
LEMMA SumIs ==
    ASSUME NEW T, IsFiniteSet(T)
    PROVE  \E g : /\ FromBits(T) = g[T]
                  /\ g = [s \in SUBSET T |-> IF s = {} THEN 0
                                             ELSE 2^(CHOOSE x \in s : TRUE)
                                                  + g[s \ {CHOOSE x \in s : TRUE}]]
<1> DEFINE N == Cardinality(T)
           C(s) == CHOOSE x \in s : TRUE
           D(n) == {s \in SUBSET T : Cardinality(s) <= n}
           Is(g, n) == g = [s \in D(n) |-> IF s = {} THEN 0 ELSE 2^C(s) + g[s \ {C(s)}]]
           S == {n \in 0 .. N : \E g : Is(g, n)}
<1>1. N \in Nat
  BY FS_CardinalityType
<1>2. ASSUME NEW s \in SUBSET T
      PROVE  /\ Cardinality(s) \in 0 .. N
             /\ Cardinality(s) = 0 <=> s = {}
             /\ s # {} => /\ C(s) \in s /\ s \ {C(s)} \in SUBSET T
                          /\ Cardinality(s \ {C(s)}) = Cardinality(s) - 1
  <2>1. IsFiniteSet(s) /\ Cardinality(s) <= N /\ Cardinality(s) \in Nat
    BY FS_Subset, FS_CardinalityType
  <2>2. Cardinality(s) = 0 <=> s = {}
    BY <2>1, FS_EmptySet
  <2>3. ASSUME s # {}
        PROVE  /\ C(s) \in s /\ s \ {C(s)} \in SUBSET T
               /\ Cardinality(s \ {C(s)}) = Cardinality(s) - 1
    <3>1. C(s) \in s
      BY <2>3
    <3> HIDE DEF C
    <3>2. s \ {C(s)} \in SUBSET T
      OBVIOUS
    <3> QED BY <2>1, <3>1, <3>2, FS_RemoveElement
  <2> HIDE DEF N, C
  <2> QED BY <1>1, <2>1, <2>2, <2>3
<1> HIDE DEF C, N
<1>3. 0 \in S
  <2>1. Is([s \in D(0) |-> 0], 0)
    <3>1. \A s \in D(0) : s = {}
      <4> SUFFICES ASSUME NEW s \in D(0) PROVE s = {}
        OBVIOUS
      <4>1. s \in SUBSET T /\ Cardinality(s) <= 0
        OBVIOUS
      <4>2. Cardinality(s) \in 0 .. N /\ (Cardinality(s) = 0 <=> s = {})
        BY <1>2, <4>1, Zenon
      <4> QED BY <1>1, <4>1, <4>2
    <3> HIDE DEF D
    <3> QED BY <3>1
  <2>2. 0 \in 0 .. N
    BY <1>1
  <2> HIDE DEF Is
  <2> QED BY <2>1, <2>2
<1>4. ASSUME NEW n \in 0 .. N - 1, n \in S PROVE n + 1 \in S
  <2>1. PICK g : Is(g, n)
    BY <1>4
  <2> DEFINE h == [s \in D(n + 1) |-> IF s = {} THEN 0 ELSE 2^C(s) + g[s \ {C(s)}]]
  <2>2. ASSUME NEW s \in D(n + 1), s # {}
        PROVE  s \ {C(s)} \in D(n) /\ s \ {C(s)} \in D(n + 1)
    <3>1. s \in SUBSET T /\ Cardinality(s) <= n + 1
      OBVIOUS
    <3>2. s \ {C(s)} \in SUBSET T /\ Cardinality(s \ {C(s)}) = Cardinality(s) - 1
      BY <1>2, <2>2, <3>1
    <3>3. Cardinality(s) \in 0 .. N
      BY <1>2, <3>1, Zenon
    <3>4. n \in Int
      BY <1>1
    <3> QED BY <1>1, <3>1, <3>2, <3>3, <3>4
  <2>3. \A s \in D(n) : s \in D(n + 1) /\ h[s] = g[s]
    <3> SUFFICES ASSUME NEW s \in D(n) PROVE s \in D(n + 1) /\ h[s] = g[s]
      OBVIOUS
    <3>1. s \in D(n + 1)
      <4>1. s \in SUBSET T /\ Cardinality(s) <= n
        OBVIOUS
      <4>2. Cardinality(s) \in 0 .. N
        BY <1>2, <4>1, Zenon
      <4>3. n \in Int
        BY <1>1
      <4> QED BY <1>1, <4>1, <4>2, <4>3
    <3>2. g[s] = IF s = {} THEN 0 ELSE 2^C(s) + g[s \ {C(s)}]
      <4> HIDE DEF D
      <4> QED BY <2>1
    <3> HIDE DEF D
    <3> QED BY <3>1, <3>2
  <2>4. Is(h, n + 1)
    <3>1. ASSUME NEW s \in D(n + 1), s # {} PROVE g[s \ {C(s)}] = h[s \ {C(s)}]
      BY <2>2, <2>3, <3>1
    <3> HIDE DEF D
    <3> QED BY <3>1
  <2>5. n + 1 \in 0 .. N
    BY <1>1
  <2> HIDE DEF h, Is
  <2> QED BY <2>4, <2>5
<1>5. N \in S
  <2> HIDE DEF S
  <2> QED BY <1>1, <1>3, <1>4, Inductive
<1>6. D(N) = SUBSET T
  <2> SUFFICES ASSUME NEW s \in SUBSET T PROVE Cardinality(s) <= N
    OBVIOUS
  <2>1. Cardinality(s) \in 0 .. N
    BY <1>2, Zenon
  <2> QED BY <1>1, <2>1
<1>7. \E g : g = [s \in SUBSET T |-> IF s = {} THEN 0 ELSE 2^C(s) + g[s \ {C(s)}]]
  <2>1. PICK g : Is(g, N)
    BY <1>5
  <2> HIDE DEF D
  <2> QED BY <1>6, <2>1
<1> DEFINE G == CHOOSE g : g = [s \in SUBSET T |-> IF s = {} THEN 0 ELSE 2^C(s) + g[s \ {C(s)}]]
<1>8. G = [s \in SUBSET T |-> IF s = {} THEN 0 ELSE 2^C(s) + G[s \ {C(s)}]]
  BY <1>7
<1>9. FromBits(T) = G[T]
  BY DEF FromBits, MapThenSumSet, MapThenFoldSet, C
<1> QED BY <1>8, <1>9 DEF C

LEMMA FromBitsBelow ==
    ASSUME NEW b \in Nat, NEW T \in SUBSET Bits(b)
    PROVE  FromBits(T) \in 0 .. b
<1>1. Bits(b) = {i \in 0 .. WIDTH - 1 : (b \div 2^i) % 2 = 1} /\ WIDTH \in Nat
  BY IsaAssumption DEF Bits
<1>2. IsFiniteSet(T)
  <2>1. 0 \in Int /\ WIDTH - 1 \in Int
    BY <1>1
  <2>2. IsFiniteSet(0 .. WIDTH - 1)
    BY <2>1, FS_Interval, Zenon
  <2>3. T \in SUBSET (0 .. WIDTH - 1)
    BY <1>1
  <2> QED BY <2>2, <2>3, FS_Subset
<1>3. PICK g : /\ FromBits(T) = g[T]
               /\ g = [s \in SUBSET T |-> IF s = {} THEN 0
                                          ELSE 2^(CHOOSE x \in s : TRUE)
                                               + g[s \ {CHOOSE x \in s : TRUE}]]
  BY <1>2, SumIs
<1>4. g[{}] = 0 /\ \A s \in SUBSET T : s # {} =>
                     \E x \in s : g[s] = 2^x + g[s \ {x}]
  <2>1. g[{}] = 0
    BY <1>3
  <2>2. ASSUME NEW s \in SUBSET T, s # {} PROVE \E x \in s : g[s] = 2^x + g[s \ {x}]
    <3>1. PICK x : x = CHOOSE y \in s : TRUE
      OBVIOUS
    <3>2. x \in s
      BY <2>2, <3>1
    <3>3. g[s] = 2^x + g[s \ {x}]
      BY <1>3, <2>2, <3>1
    <3> QED BY <3>2, <3>3
  <2> QED BY <2>1, <2>2
<1> HIDE <1>3
(* By the size of s: g[s] is no more than any number that has the bits s.   *)
<1> DEFINE N == Cardinality(T)
           Has(a, s) == a \in Nat /\ \A i \in s : (a \div 2^i) % 2 = 1
           S == {n \in 0 .. N : \A s \in SUBSET T : Cardinality(s) = n =>
                                  \A a : Has(a, s) => g[s] \in 0 .. a}
<1>5. N \in Nat /\ T \subseteq Nat
  <2>1. N \in Nat
    BY <1>2, FS_CardinalityType
  <2> HIDE DEF N
  <2> QED BY <1>1, <2>1
<1> HIDE DEF N
<1>6. 0 \in S
  <2> SUFFICES ASSUME NEW s \in SUBSET T, Cardinality(s) = 0, NEW a, Has(a, s)
               PROVE  g[s] \in 0 .. a
    BY <1>5
  <2>1. s = {}
    BY <1>2, FS_Subset, FS_EmptySet
  <2> QED BY <1>4, <2>1
<1>7. ASSUME NEW n \in 0 .. N - 1, n \in S PROVE n + 1 \in S
  <2> SUFFICES ASSUME NEW s \in SUBSET T, Cardinality(s) = n + 1, NEW a, Has(a, s)
               PROVE  g[s] \in 0 .. a
    BY <1>5
  <2>1. IsFiniteSet(s) /\ s # {}
    <3>1. IsFiniteSet(s)
      BY <1>2, FS_Subset
    <3>2. Cardinality(s) # 0
      OBVIOUS
    <3> QED BY <3>1, <3>2, FS_EmptySet
  <2>2. PICK x \in s : g[s] = 2^x + g[s \ {x}]
    BY <1>4, <2>1
  <2>3. s \ {x} \in SUBSET T /\ Cardinality(s \ {x}) = n
    <3>1. Cardinality(s \ {x}) = Cardinality(s) - 1
      BY <2>1, FS_RemoveElement
    <3> QED BY <3>1
  <2>4. x \in Nat /\ (a \div 2^x) % 2 = 1 /\ a \in Nat
    BY <1>5
  <2>5. PICK e \in Nat \ {0} : e = 2^x
    BY <2>4, PowerIs
  <2>6. ASSUME NEW i \in s \ {x}
        PROVE  a - e \in Nat /\ ((a - e) \div 2^i) % 2 = 1
    BY <1>5, <2>4, <2>5, BitOff
  <2>7. CASE s \ {x} = {}
    <3>1. g[s] = e
      BY <1>4, <2>2, <2>5, <2>7
    <3>2. e <= a
      <4>1. PICK r \in 0 .. e - 1 : a = e * (a \div e) + r /\ a \div e \in Nat
        BY <2>4, QuotientIs
      <4>2. PICK q \in Nat : q = a \div e
        BY <4>1
      <4>3. q >= 1
        BY <2>4, <2>5, <4>2
      <4>4. e * q >= e
        BY <4>3
      <4> QED BY <2>4, <4>1, <4>2, <4>4
    <3> QED BY <2>4, <3>1, <3>2
  <2>8. CASE s \ {x} # {}
    <3>1. a - e \in Nat /\ Has(a - e, s \ {x})
      BY <2>6, <2>8
    <3>2. g[s \ {x}] \in 0 .. a - e
      <4> HIDE DEF Has
      <4> QED BY <1>7, <2>3, <3>1
    <3>3. PICK r : r = g[s \ {x}]
      OBVIOUS
    <3>4. g[s] = e + r /\ r \in 0 .. a - e
      BY <2>2, <2>5, <3>2, <3>3
    <3> QED BY <2>4, <3>1, <3>4
  <2> QED BY <2>7, <2>8
<1>8. N \in S
  <2> HIDE DEF S
  <2> QED BY <1>5, <1>6, <1>7, Inductive
<1>9. Has(b, T)
  BY <1>1
<1>10. g[T] \in 0 .. b
  <2> HIDE DEF Has
  <2> QED BY <1>8, <1>9 DEF N
<1> QED BY <1>3, <1>10

-----------------------------------------------------------------------------
(***************************************************************************)
(* The pass of the verifier: its states are those its recursion describes. *)
(***************************************************************************)
Text(p) == \E n \in Nat : p \in [0 .. n - 1 -> Instructions]

LEMMA SizeIs ==
    ASSUME NEW p, Text(p)
    PROVE  /\ V!Size(p) \in Nat /\ DOMAIN p = 0 .. V!Size(p) - 1
           /\ p \in [0 .. V!Size(p) - 1 -> Instructions]
<1>1. PICK n \in Nat : p \in [0 .. n - 1 -> Instructions]
  BY DEF Text
<1>2. Cardinality(0 .. n - 1) = n
  BY FS_Interval
<1>3. V!Cardinality(DOMAIN p) = Cardinality(DOMAIN p)
  BY DEF V!Cardinality, Cardinality
<1> QED BY <1>1, <1>2, <1>3 DEF V!Size

LEMMA StartsIs ==
    ASSUME NEW p, V!Size(p) \in Nat
    PROVE  V!Starts(p) = [a \in 0 .. V!Size(p) |->
                             a = 0 \/ ~(V!Starts(p)[a - 1] /\ V!IsTwoWord(p[a - 1]))]
<1> DEFINE N == V!Size(p)
           Is(g, n) == g = [a \in 0 .. n |-> a = 0 \/ ~(g[a - 1] /\ V!IsTwoWord(p[a - 1]))]
           S == {n \in 0 .. N : \E g : Is(g, n)}
<1>1. 0 \in S
  <2>1. Is([a \in 0 .. 0 |-> a = 0 \/ ~V!IsTwoWord(p[0])], 0)
    OBVIOUS
  <2>2. 0 \in 0 .. N
    OBVIOUS
  <2> HIDE DEF Is
  <2> QED BY <2>1, <2>2
<1>2. ASSUME NEW n \in 0 .. N - 1, n \in S PROVE n + 1 \in S
  <2>1. PICK g : Is(g, n)
    BY <1>2
  <2>2. PICK d : d = ~(g[n] /\ V!IsTwoWord(p[n]))
    OBVIOUS
  <2> DEFINE h == [a \in 0 .. n + 1 |-> IF a = n + 1 THEN d ELSE g[a]]
  <2>3. Is(h, n + 1)
    BY <2>1, <2>2
  <2>4. n + 1 \in 0 .. N
    OBVIOUS
  <2> HIDE DEF h, Is
  <2> QED BY <2>3, <2>4
<1>3. N \in S
  <2> HIDE DEF S
  <2> QED BY <1>1, <1>2, Inductive
<1>4. \E g : Is(g, N)
  BY <1>3
<1> QED BY <1>4 DEF V!Starts

LEMMA StatesIs ==
    ASSUME NEW p, NEW mf, V!Size(p) \in Nat
    PROVE  V!States(p, mf) =
             [n \in 0 .. V!Size(p) |->
                IF n = 0 THEN V!Fresh(mf)
                ELSE IF V!Starts(p)[n - 1] THEN V!Visit(p, mf, V!States(p, mf)[n - 1], n - 1)
                ELSE V!States(p, mf)[n - 1]]
<1> DEFINE N == V!Size(p)
           Is(g, m) == g = [n \in 0 .. m |->
                IF n = 0 THEN V!Fresh(mf)
                ELSE IF V!Starts(p)[n - 1] THEN V!Visit(p, mf, g[n - 1], n - 1) ELSE g[n - 1]]
           S == {n \in 0 .. N : \E g : Is(g, n)}
<1>1. 0 \in S
  <2>1. Is([a \in 0 .. 0 |-> V!Fresh(mf)], 0)
    OBVIOUS
  <2>2. 0 \in 0 .. N
    OBVIOUS
  <2> HIDE DEF Is
  <2> QED BY <2>1, <2>2
<1>2. ASSUME NEW n \in 0 .. N - 1, n \in S PROVE n + 1 \in S
  <2>1. PICK g : Is(g, n)
    BY <1>2
  <2>2. PICK d : d = IF V!Starts(p)[n] THEN V!Visit(p, mf, g[n], n) ELSE g[n]
    OBVIOUS
  <2> DEFINE h == [a \in 0 .. n + 1 |-> IF a = n + 1 THEN d ELSE g[a]]
  <2>3. Is(h, n + 1)
    BY <2>1, <2>2
  <2>4. n + 1 \in 0 .. N
    OBVIOUS
  <2> HIDE DEF h, Is
  <2> QED BY <2>3, <2>4
<1>3. N \in S
  <2> HIDE DEF S
  <2> QED BY <1>1, <1>2, Inductive
<1>4. \E g : Is(g, N)
  BY <1>3
<1> QED BY <1>4 DEF V!States

(* One step of the pass.                                                   *)
StateFields == {"ok", "bound", "frames", "abs", "now", "peak", "ret", "broke"}
Live(s, pc) == [s EXCEPT !.frames = V!LiveFrames(@, pc), !.bound = V!BoundAfter(s, pc)]
FrameOf(p, mf, s, pc) == [end   |-> pc + 1 + V!SignedImm(p[pc].imm),
                          iters |-> V!Iterations(s.abs[p[pc].rs1], mf)]
Visited(p, mf, s, pc, t) ==
    /\ t.ok => s.ok /\ V!InstructionOK(p, mf, Live(s, pc), pc, p[pc]) /\ ~t.broke
    /\ t.frames = IF p[pc].op # "LOOP" THEN V!LiveFrames(s.frames, pc)
                  ELSE Append(V!LiveFrames(s.frames, pc), FrameOf(p, mf, s, pc))
    /\ t.ret => s.ret \/ p[pc].op = "RET"
    /\ t.abs = V!AbsAfter(s, p[pc])
    /\ t.bound = V!BoundAfter(s, pc) /\ (t.ok => ~(t.bound > mf.max_dynamic))

LEMMA VisitIs ==
    ASSUME NEW p, NEW mf, NEW s, NEW pc, DOMAIN s = StateFields
    PROVE  /\ DOMAIN V!Visit(p, mf, s, pc) = StateFields
           /\ s.broke => V!Visit(p, mf, s, pc) = s
           /\ ~s.broke => Visited(p, mf, s, pc, V!Visit(p, mf, s, pc))
<1>1. CASE s.broke
  BY <1>1 DEF V!Visit
<1>2. CASE ~s.broke
  <2>1. PICK q : q = Live(s, pc)
    OBVIOUS
  <2>2. q.frames = V!LiveFrames(s.frames, pc) /\ q.abs = s.abs /\ q.ok = s.ok /\ q.ret = s.ret
    BY <2>1 DEF Live, StateFields
  <2>3. PICK t : t = V!Visit(p, mf, s, pc)
    OBVIOUS
  <2>4. t = [ok     |-> q.ok /\ V!InstructionOK(p, mf, q, pc, p[pc]) /\ ~(q.bound > mf.max_dynamic),
              bound  |-> q.bound,
              frames |-> IF p[pc].op # "LOOP" THEN q.frames
                         ELSE Append(q.frames, FrameOf(p, mf, q, pc)),
              abs    |-> V!AbsAfter(q, p[pc]),
              now    |-> V!InFlightAfter(q, p[pc]),
              peak   |-> IF p[pc].op = "MEMCPY" THEN V!Max({q.peak, V!InFlightAfter(q, p[pc])})
                         ELSE q.peak,
              ret    |-> q.ret \/ p[pc].op = "RET",
              broke  |-> q.bound > mf.max_dynamic]
    BY <1>2, <2>1, <2>3 DEF V!Visit, Live, FrameOf
  <2>5. DOMAIN t = StateFields
    BY <2>4 DEF StateFields
  <2>6. t.ok => q.ok /\ V!InstructionOK(p, mf, q, pc, p[pc]) /\ ~t.broke
    BY <2>4
  <2>7. t.ret => q.ret \/ p[pc].op = "RET"
    BY <2>4
  <2>8. t.frames = IF p[pc].op # "LOOP" THEN q.frames
                   ELSE Append(q.frames, FrameOf(p, mf, q, pc))
    BY <2>4
  <2>9. FrameOf(p, mf, q, pc) = FrameOf(p, mf, s, pc)
    BY <2>2 DEF FrameOf
  <2>10. t.abs = V!AbsAfter(s, p[pc])
    <3>1. t.abs = V!AbsAfter(q, p[pc])
      BY <2>4
    <3> QED BY <2>2, <3>1 DEF V!AbsAfter
  <2>11. q.bound = V!BoundAfter(s, pc)
    BY <2>1 DEF Live, StateFields
  <2>12. t.bound = q.bound /\ (t.ok => ~(t.bound > mf.max_dynamic))
    BY <2>4
  <2> QED BY <1>2, <2>1, <2>2, <2>3, <2>5, <2>6, <2>7, <2>8, <2>9, <2>10, <2>11, <2>12
          DEF Visited
<1> QED BY <1>1, <1>2

(* An accepted program: the pass went through, with no objection anywhere.  *)
LEMMA Through ==
    ASSUME NEW p, NEW mf, Text(p), V!Accepts(p, mf)
    PROVE  LET N == V!Size(p)
               st == V!States(p, mf)
           IN  /\ st[0] = V!Fresh(mf) /\ st[N].ret
               /\ \A n \in 0 .. N - 1 : V!Starts(p)[n] => Visited(p, mf, st[n], n, st[n + 1])
               /\ \A n \in 0 .. N - 1 : ~V!Starts(p)[n] => st[n + 1] = st[n]
               /\ \A n \in 0 .. N : st[n].ok /\ DOMAIN st[n] = StateFields
<1>1. PICK N : N = V!Size(p)
  OBVIOUS
<1>2. PICK st : st = V!States(p, mf)
  OBVIOUS
<1>3. PICK starts : starts = V!Starts(p)
  OBVIOUS
<1>4. N \in Nat
  BY <1>1, SizeIs
<1>5. st = [n \in 0 .. N |->
                IF n = 0 THEN V!Fresh(mf)
                ELSE IF starts[n - 1] THEN V!Visit(p, mf, st[n - 1], n - 1) ELSE st[n - 1]]
  BY <1>1, <1>2, <1>3, <1>4, StatesIs
<1>6. st[0] = V!Fresh(mf)
  BY <1>4, <1>5
<1>7. \A n \in 0 .. N - 1 :
         st[n + 1] = IF starts[n] THEN V!Visit(p, mf, st[n], n) ELSE st[n]
  BY <1>4, <1>5
<1> HIDE <1>5
<1> DEFINE S == {n \in 0 .. N : DOMAIN st[n] = StateFields /\ (st[n].broke => ~st[n].ok)}
<1>8. 0 \in S
  BY <1>4, <1>6 DEF V!Fresh, StateFields
<1>9. ASSUME NEW n \in 0 .. N - 1, n \in S PROVE n + 1 \in S
  <2>1. n + 1 \in 0 .. N
    BY <1>4
  <2>2. DOMAIN st[n] = StateFields /\ (st[n].broke => ~st[n].ok)
    BY <1>9
  <2>3. CASE ~starts[n] \/ st[n].broke
    <3>1. st[n + 1] = st[n]
      BY <1>7, <2>2, <2>3, VisitIs
    <3> QED BY <2>1, <2>2, <3>1
  <2>4. CASE starts[n] /\ ~st[n].broke
    <3>1. DOMAIN st[n + 1] = StateFields /\ Visited(p, mf, st[n], n, st[n + 1])
      BY <1>7, <2>2, <2>4, VisitIs
    <3> QED BY <2>1, <3>1 DEF Visited
  <2> QED BY <2>3, <2>4
<1>10. \A n \in 0 .. N : DOMAIN st[n] = StateFields /\ (st[n].broke => ~st[n].ok)
  <2>1. \A n \in 0 .. N : n \in S
    <3> HIDE DEF S
    <3> QED BY <1>4, <1>8, <1>9, Inductive
  <2> QED BY <2>1
<1>11. ASSUME NEW n \in 0 .. N - 1, ~st[n].broke, starts[n]
       PROVE  Visited(p, mf, st[n], n, st[n + 1])
  BY <1>4, <1>7, <1>10, <1>11, VisitIs
<1>12. ASSUME NEW n \in 0 .. N - 1, st[n + 1].ok
       PROVE  st[n].ok
  <2>1. n \in 0 .. N /\ DOMAIN st[n] = StateFields
    BY <1>4, <1>10
  <2>2. CASE starts[n] /\ ~st[n].broke
    BY <1>11, <1>12, <2>2 DEF Visited
  <2>3. CASE ~starts[n] \/ st[n].broke
    <3>1. st[n + 1] = st[n]
      BY <1>7, <2>1, <2>3, VisitIs
    <3> QED BY <1>12, <3>1
  <2> QED BY <2>2, <2>3
<1>13. st[N].ok /\ st[N].ret
  BY <1>1, <1>2 DEF V!Accepts, V!Pass
<1>14. \A n \in 0 .. N : st[n].ok
  <2> DEFINE B == {n \in 0 .. N : st[N - n].ok}
  <2>1. 0 \in B
    BY <1>4, <1>13
  <2>2. ASSUME NEW n \in 0 .. N - 1, n \in B PROVE n + 1 \in B
    <3>1. st[N - n].ok /\ N - (n + 1) \in 0 .. N - 1 /\ N - (n + 1) + 1 = N - n
      BY <1>4, <2>2
    <3>2. st[N - (n + 1)].ok
      BY <1>12, <3>1
    <3> QED BY <1>4, <3>2
  <2>3. \A n \in 0 .. N : n \in B
    <3> HIDE DEF B
    <3> QED BY <1>4, <2>1, <2>2, Inductive
  <2>4. ASSUME NEW n \in 0 .. N PROVE st[n].ok
    <3>1. N - n \in B /\ N - (N - n) = n
      BY <1>4, <2>3
    <3> QED BY <3>1
  <2> QED BY <2>4
<1>15. ASSUME NEW n \in 0 .. N - 1
       PROVE  /\ starts[n] => Visited(p, mf, st[n], n, st[n + 1])
              /\ ~starts[n] => st[n + 1] = st[n]
  <2>1. n \in 0 .. N
    BY <1>4
  <2>2. ~st[n].broke
    BY <1>10, <1>14, <2>1
  <2> QED BY <1>7, <1>11, <2>2
<1> QED BY <1>1, <1>2, <1>3, <1>6, <1>10, <1>13, <1>14, <1>15

(* Immediates: a positive one is what it looks like.                       *)
LEMMA SignedIs ==
    ASSUME NEW p, Text(p), NEW a \in DOMAIN p
    PROVE  /\ p[a].imm \in Nat /\ V!SignedImm(p[a].imm) \in Int
           /\ V!SignedImm(p[a].imm) = SignedImm(p[a].imm)
           /\ V!SignedImm(p[a].imm) > 0 => V!SignedImm(p[a].imm) = p[a].imm
<1>1. p[a] \in Instructions
  BY SizeIs
<1>2. PICK e : e = 2^IMMW
  OBVIOUS
<1>3. PICK h : h = 2^(IMMW - 1)
  OBVIOUS
<1>4. e \in Int /\ h \in Int
  <2>1. IMMW \in Nat /\ IMMW - 1 \in Nat
    BY IsaAssumption
  <2> QED BY <1>2, <1>3, <2>1
<1>5. p[a].imm \in 0 .. e - 1
  BY <1>1, <1>2 DEF Instructions, ImmField
<1>6. /\ V!SignedImm(p[a].imm) = IF p[a].imm >= h THEN p[a].imm - e ELSE p[a].imm
      /\ SignedImm(p[a].imm) = IF p[a].imm >= h THEN p[a].imm - e ELSE p[a].imm
  BY <1>2, <1>3 DEF V!SignedImm, SignedImm
<1> QED BY <1>4, <1>5, <1>6

(***************************************************************************)
(* The frames of the pass: those that end behind an instruction stay until *)
(* it, so at a LOOP the verifier counts every loop the LOOP is in.         *)
(***************************************************************************)
LEMMA LiveIs ==
    ASSUME NEW X, NEW f \in Seq(X), NEW pc
    PROVE  /\ V!LiveFrames(f, pc) \in Seq(X) /\ Len(V!LiveFrames(f, pc)) <= Len(f)
           /\ \A i \in 1 .. Len(V!LiveFrames(f, pc)) : V!LiveFrames(f, pc)[i] = f[i]
           /\ \A i \in 1 .. Len(f) :
                pc < f[i].end => /\ i \in 1 .. Len(V!LiveFrames(f, pc))
                                 /\ V!LiveFrames(f, pc)[i] = f[i]
<1> DEFINE S == {0} \cup {i \in 1 .. Len(f) : pc < f[i].end}
<1>1. V!Max(S) = Max(S)
  BY DEF V!Max, Max
<1>2. Max(S) \in S /\ \A x \in S : x <= Max(S)
  <2>1. S \subseteq 0 .. Len(f) /\ S # {} /\ Len(f) \in Nat
    OBVIOUS
  <2> HIDE DEF S
  <2> QED BY <2>1, MaxIs
<1>3. PICK m \in 0 .. Len(f) : m = Max(S) /\ \A i \in 1 .. Len(f) : pc < f[i].end => i <= m
  <2>1. PICK k : k = Max(S)
    OBVIOUS
  <2>2. k \in S /\ \A x \in S : x <= k
    BY <1>2, <2>1
  <2>3. k \in 0 .. Len(f) /\ \A i \in 1 .. Len(f) : pc < f[i].end => i <= k
    BY <2>2
  <2> HIDE DEF S
  <2> QED BY <2>1, <2>3
<1>4. V!LiveFrames(f, pc) = SubSeq(f, 1, m)
  BY <1>1, <1>3 DEF V!LiveFrames
<1>5. /\ SubSeq(f, 1, m) \in Seq(X) /\ Len(SubSeq(f, 1, m)) = m
      /\ \A i \in 1 .. m : SubSeq(f, 1, m)[i] = f[i]
  OBVIOUS
<1>6. PICK g : g = SubSeq(f, 1, m)
  OBVIOUS
<1>7. g \in Seq(X) /\ Len(g) = m /\ \A i \in 1 .. m : g[i] = f[i]
  BY <1>5, <1>6
<1> HIDE DEF S
<1> QED BY <1>3, <1>4, <1>6, <1>7

SignedEnd(p, b) == b + 1 + V!SignedImm(p[b].imm)
Entered(p, b) == V!Starts(p)[b] /\ p[b].op = "LOOP"

(* f has a frame for each loop before n that ends behind pc.                *)
Holds(p, f, n, pc) ==
    \A b \in 0 .. n - 1 :
        Entered(p, b) /\ pc < SignedEnd(p, b) => \E i \in 1 .. Len(f) : f[i].end = SignedEnd(p, b)

LEMMA LiveHolds ==
    ASSUME NEW p, NEW X, NEW f \in Seq(X), NEW n \in Nat, Holds(p, f, n, n - 1), Text(p),
           n \in 0 .. V!Size(p) - 1
    PROVE  Holds(p, V!LiveFrames(f, n), n, n)
<1> SUFFICES ASSUME NEW b \in 0 .. n - 1, Entered(p, b), n < SignedEnd(p, b)
             PROVE  \E i \in 1 .. Len(V!LiveFrames(f, n)) :
                       V!LiveFrames(f, n)[i].end = SignedEnd(p, b)
  BY DEF Holds
<1>1. SignedEnd(p, b) \in Int
  <2>1. b \in DOMAIN p /\ b \in Nat
    BY SizeIs
  <2> QED BY <2>1, SignedIs DEF SignedEnd
<1>2. PICK i \in 1 .. Len(f) : f[i].end = SignedEnd(p, b)
  BY <1>1 DEF Holds
<1> QED BY <1>2, LiveIs

(* What acceptance says of the text.                                        *)
Verified(p) ==
    /\ \E a \in DOMAIN p : V!Starts(p)[a] /\ p[a].op = "RET"
    /\ \A a \in DOMAIN p :
         V!Starts(p)[a] =>
           /\ p[a].op # "BAD"
           /\ p[a].op \in {"JUMP", "LOOP"} => V!SignedImm(p[a].imm) > 0
           /\ p[a].op = "LOOP" =>
                \E X : \E f \in Seq(X) : Len(f) < MAX_LOOP_NEST /\ Holds(p, f, a, a)

LEMMA AcceptedIsVerified ==
    ASSUME NEW p, NEW mf, Text(p), V!Accepts(p, mf)
    PROVE  Verified(p)
<1>1. PICK N : N = V!Size(p)
  OBVIOUS
<1>2. PICK st : st = V!States(p, mf)
  OBVIOUS
<1>3. /\ N \in Nat /\ DOMAIN p = 0 .. N - 1
      /\ \A a \in 0 .. N - 1 : p[a] \in Instructions
  BY <1>1, SizeIs
<1>4. /\ st[0] = V!Fresh(mf) /\ st[N].ret
      /\ \A n \in 0 .. N - 1 : V!Starts(p)[n] => Visited(p, mf, st[n], n, st[n + 1])
      /\ \A n \in 0 .. N - 1 : ~V!Starts(p)[n] => st[n + 1] = st[n]
      /\ \A n \in 0 .. N : st[n].ok /\ DOMAIN st[n] = StateFields
  BY <1>1, <1>2, Through
<1>5. \E a \in 0 .. N - 1 : V!Starts(p)[a] /\ p[a].op = "RET"
  <2> SUFFICES ASSUME \A a \in 0 .. N - 1 : ~(V!Starts(p)[a] /\ p[a].op = "RET")
               PROVE  FALSE
    OBVIOUS
  <2> DEFINE S == {n \in 0 .. N : ~st[n].ret}
  <2>1. 0 \in S
    BY <1>3, <1>4 DEF V!Fresh
  <2>2. ASSUME NEW n \in 0 .. N - 1, n \in S PROVE n + 1 \in S
    BY <1>3, <1>4, <2>2 DEF Visited
  <2>3. \A n \in 0 .. N : n \in S
    <3> HIDE DEF S
    <3> QED BY <1>3, <2>1, <2>2, Inductive
  <2>4. N \in S
    BY <1>3, <2>3
  <2> QED BY <1>4, <2>4
<1> DEFINE Good(n) == \E X : st[n].frames \in Seq(X) /\ Holds(p, st[n].frames, n, n - 1)
           S == {n \in 0 .. N : Good(n)}
<1>6. 0 \in S
  <2>1. st[0].frames = <<>> /\ <<>> \in Seq({})
    BY <1>4 DEF V!Fresh
  <2>2. Holds(p, <<>>, 0, 0 - 1)
    BY DEF Holds
  <2>3. Good(0)
    BY <2>1, <2>2
  <2> HIDE DEF Good
  <2> QED BY <1>3, <2>3
<1>7. ASSUME NEW n \in 0 .. N - 1, n \in S PROVE n + 1 \in S
  <2>1. n \in Nat /\ n + 1 \in 0 .. N /\ n + 1 - 1 = n
    BY <1>3
  <2>2. PICK X : st[n].frames \in Seq(X) /\ Holds(p, st[n].frames, n, n - 1)
    BY <1>7
  <2>3. PICK f : f = V!LiveFrames(st[n].frames, n)
    OBVIOUS
  <2>4. f \in Seq(X) /\ Holds(p, f, n, n)
    BY <1>1, <2>1, <2>2, <2>3, LiveIs, LiveHolds
  <2>5. CASE V!Starts(p)[n] /\ p[n].op = "LOOP"
    <3>1. PICK e : e = FrameOf(p, mf, st[n], n)
      OBVIOUS
    <3>2. st[n + 1].frames = Append(f, e) /\ e.end = SignedEnd(p, n)
      BY <1>4, <2>3, <2>5, <3>1 DEF Visited, FrameOf, SignedEnd
    <3>3. /\ Append(f, e) \in Seq(X \cup {e}) /\ Len(Append(f, e)) = Len(f) + 1
          /\ Append(f, e)[Len(f) + 1] = e
          /\ \A i \in 1 .. Len(f) : Append(f, e)[i] = f[i]
      <4>1. f \in Seq(X \cup {e}) /\ e \in X \cup {e}
        BY <2>4
      <4> QED BY <4>1
    <3>4. Holds(p, Append(f, e), n + 1, n)
      <4> SUFFICES ASSUME NEW b \in 0 .. n, Entered(p, b), n < SignedEnd(p, b)
                   PROVE  \E i \in 1 .. Len(Append(f, e)) :
                             Append(f, e)[i].end = SignedEnd(p, b)
        BY <2>1 DEF Holds
      <4>1. CASE b = n
        <5>1. Len(f) + 1 \in 1 .. Len(Append(f, e))
          BY <2>4, <3>3
        <5> QED BY <3>2, <3>3, <4>1, <5>1
      <4>2. CASE b # n
        <5>1. b \in 0 .. n - 1
          BY <2>1, <4>2
        <5>2. PICK i \in 1 .. Len(f) : f[i].end = SignedEnd(p, b)
          BY <2>4, <5>1 DEF Holds
        <5>3. i \in 1 .. Len(Append(f, e))
          BY <2>4, <3>3
        <5> QED BY <3>3, <5>2, <5>3
      <4> QED BY <4>1, <4>2
    <3>6. st[n + 1].frames \in Seq(X \cup {e}) /\ Holds(p, st[n + 1].frames, n + 1, n + 1 - 1)
      BY <2>1, <3>2, <3>3, <3>4
    <3>7. \E Y : st[n + 1].frames \in Seq(Y) /\ Holds(p, st[n + 1].frames, n + 1, n + 1 - 1)
      <4> WITNESS X \cup {e}
      <4> QED BY <3>6
    <3>8. Good(n + 1)
      BY <3>7
    <3> HIDE DEF Good
    <3> QED BY <2>1, <3>8
  <2>6. CASE V!Starts(p)[n] /\ p[n].op # "LOOP"
    <3>1. st[n + 1].frames = f
      BY <1>4, <2>3, <2>6 DEF Visited
    <3>2. Holds(p, f, n + 1, n)
      BY <2>1, <2>4, <2>6 DEF Holds, Entered
    <3>6. st[n + 1].frames \in Seq(X) /\ Holds(p, st[n + 1].frames, n + 1, n + 1 - 1)
      BY <2>1, <2>4, <3>1, <3>2
    <3>7. \E Y : st[n + 1].frames \in Seq(Y) /\ Holds(p, st[n + 1].frames, n + 1, n + 1 - 1)
      <4> WITNESS X
      <4> QED BY <3>6
    <3>8. Good(n + 1)
      BY <3>7
    <3> HIDE DEF Good
    <3> QED BY <2>1, <3>8
  <2>7. CASE ~V!Starts(p)[n]
    <3>1. st[n + 1] = st[n]
      BY <1>4, <2>7
    <3>2. PICK g : g = st[n].frames
      OBVIOUS
    <3>3. g \in Seq(X) /\ Holds(p, g, n, n - 1)
      BY <2>2, <3>2
    <3>4. Holds(p, g, n + 1, n)
      <4> SUFFICES ASSUME NEW b \in 0 .. n, Entered(p, b), n < SignedEnd(p, b)
                   PROVE  \E i \in 1 .. Len(g) : g[i].end = SignedEnd(p, b)
        BY <2>1 DEF Holds
      <4>1. b \in 0 .. n - 1
        BY <2>1, <2>7 DEF Entered
      <4>2. SignedEnd(p, b) \in Int
        <5>1. b \in DOMAIN p /\ b \in Nat
          BY <1>3, <4>1
        <5> QED BY <5>1, SignedIs DEF SignedEnd
      <4> QED BY <2>1, <3>3, <4>1, <4>2 DEF Holds
    <3>5. Holds(p, st[n].frames, n + 1, n)
      BY <3>2, <3>4
    <3>6. st[n + 1].frames \in Seq(X) /\ Holds(p, st[n + 1].frames, n + 1, n + 1 - 1)
      BY <2>1, <2>2, <3>1, <3>5
    <3>7. \E Y : st[n + 1].frames \in Seq(Y) /\ Holds(p, st[n + 1].frames, n + 1, n + 1 - 1)
      <4> WITNESS X
      <4> QED BY <3>6
    <3>8. Good(n + 1)
      BY <3>7
    <3> HIDE DEF Good
    <3> QED BY <2>1, <3>8
  <2> QED BY <2>5, <2>6, <2>7
<1>8. \A n \in 0 .. N : Good(n)
  <2>1. \A n \in 0 .. N : n \in S
    <3> HIDE DEF S
    <3> QED BY <1>3, <1>6, <1>7, Inductive
  <2> QED BY <2>1
<1>9. ASSUME NEW a \in 0 .. N - 1, V!Starts(p)[a]
      PROVE  /\ p[a].op # "BAD"
             /\ p[a].op \in {"JUMP", "LOOP"} => V!SignedImm(p[a].imm) > 0
             /\ p[a].op = "LOOP" =>
                  \E X : \E f \in Seq(X) : Len(f) < MAX_LOOP_NEST /\ Holds(p, f, a, a)
  <2>1. st[a + 1].ok /\ a \in 0 .. N /\ a \in Nat
    BY <1>3, <1>4
  <2>2. V!InstructionOK(p, mf, Live(st[a], a), a, p[a])
    BY <1>4, <1>9, <2>1 DEF Visited
  <2>3. p[a].op # "BAD" /\ (p[a].op \in {"JUMP", "LOOP"} => V!SignedImm(p[a].imm) > 0)
    BY <2>2 DEF V!InstructionOK
  <2>4. ASSUME p[a].op = "LOOP"
        PROVE  \E X : \E f \in Seq(X) : Len(f) < MAX_LOOP_NEST /\ Holds(p, f, a, a)
    <3>1. Len(Live(st[a], a).frames) < MAX_LOOP_NEST
      BY <2>2, <2>4 DEF V!InstructionOK
    <3>2. PICK X : st[a].frames \in Seq(X) /\ Holds(p, st[a].frames, a, a - 1)
      BY <1>8, <2>1
    <3>3. Live(st[a], a).frames = V!LiveFrames(st[a].frames, a)
      BY <1>4, <2>1 DEF Live, StateFields
    <3>4. V!LiveFrames(st[a].frames, a) \in Seq(X) /\ Holds(p, V!LiveFrames(st[a].frames, a), a, a)
      BY <1>1, <2>1, <3>2, LiveIs, LiveHolds
    <3> QED BY <3>1, <3>3, <3>4
  <2> QED BY <2>3, <2>4
<1> QED BY <1>3, <1>5, <1>9 DEF Verified

-----------------------------------------------------------------------------
(***************************************************************************)
(* What a structured, accepted program looks like to the interpreter.      *)
(***************************************************************************)
\* An instruction starts at a, no later than the last RET.
At(p, a) == a \in 0 .. LastRet(p) /\ V!Starts(p)[a]
NextPc(p, a) == a + (IF IsTwoWord(p[a]) THEN 2 ELSE 1)

LEMMA LaidOut ==
    ASSUME NEW p, Text(p), Verified(p), Structured(p)
    PROVE  /\ LastRet(p) \in Nat /\ LastRet(p) < V!Size(p) /\ At(p, 0)
           /\ \A a : At(p, a) /\ p[a].op # "RET" => At(p, NextPc(p, a))
           /\ \A a : At(p, a) /\ p[a].op = "JUMP" =>
                /\ SignedImm(p[a].imm) = p[a].imm
                /\ p[a].imm \in Nat \ {0} /\ At(p, a + p[a].imm)
           /\ \A a : At(p, a) /\ p[a].op = "LOOP" =>
                /\ SignedImm(p[a].imm) = p[a].imm
                /\ p[a].imm \in Nat \ {0} /\ At(p, EndOf(p, a))
<1>1. PICK N : N = V!Size(p)
  OBVIOUS
<1>2. PICK st : st = V!Starts(p)
  OBVIOUS
<1>3. N \in Nat /\ DOMAIN p = 0 .. N - 1
  BY <1>1, SizeIs
<1>4. \A a \in 0 .. N : st[a] <=> (a = 0 \/ ~(st[a - 1] /\ V!IsTwoWord(p[a - 1])))
  BY <1>1, <1>2, <1>3, StartsIs
<1>5. PICK L : L = LastRet(p)
  OBVIOUS
<1>6. L \in 0 .. N - 1 /\ p[L].op = "RET"
  <2>1. PICK S : S = Those(p, "RET")
    OBVIOUS
  <2>2. PICK r \in 0 .. N - 1 : p[r].op = "RET"
    BY <1>3 DEF Verified
  <2>3. S \subseteq 0 .. N - 1 /\ S # {} /\ \A x \in S : p[x].op = "RET"
    BY <1>3, <2>1, <2>2 DEF Those
  <2>4. S \subseteq 0 .. N
    BY <1>3, <2>3
  <2>5. Max(S) \in S
    BY <1>3, <2>3, <2>4, MaxIs
  <2>6. L = Max(S)
    BY <1>5, <2>1, <2>3 DEF LastRet
  <2> QED BY <2>3, <2>5, <2>6
<1>7. \A a \in 1 .. L : IsTwoWord(p[a - 1]) => a \in Tail2(p)
  <2> SUFFICES ASSUME NEW a \in 1 .. L, IsTwoWord(p[a - 1]) PROVE a \in Tail2(p)
    OBVIOUS
  <2>1. a - 1 \in DOMAIN p /\ a = (a - 1) + 1
    BY <1>3, <1>6
  <2> QED BY <2>1 DEF Tail2
<1>8. ASSUME NEW a \in 0 .. L, a \notin Tail2(p) PROVE At(p, a)
  <2>1. a \in 0 .. N /\ (a # 0 => a \in 1 .. L)
    BY <1>3, <1>6
  <2>2. a # 0 => ~IsTwoWord(p[a - 1])
    BY <1>7, <1>8, <2>1
  <2>3. a # 0 => ~V!IsTwoWord(p[a - 1])
    BY <2>2 DEF IsTwoWord, V!IsTwoWord, TwoWordOps, V!TwoWordOps
  <2>4. st[a]
    BY <1>4, <2>1, <2>3
  <2> QED BY <1>2, <1>5, <2>4 DEF At
<1>9. ASSUME NEW a, At(p, a) PROVE a \in 0 .. L /\ st[a] /\ a \in DOMAIN p /\ a \in Nat
  BY <1>2, <1>3, <1>5, <1>6, <1>9 DEF At
<1>10. At(p, 0)
  BY <1>2, <1>3, <1>4, <1>5, <1>6 DEF At
<1>11. L \notin Tail2(p)
  BY <1>5 DEF Structured
<1>12. ASSUME NEW a, At(p, a), p[a].op # "RET" PROVE At(p, NextPc(p, a))
  <2>1. a \in 0 .. L - 1 /\ st[a]
    BY <1>6, <1>9, <1>12
  <2>2. a + 1 \in 0 .. N /\ a + 1 # 0 /\ a + 1 - 1 = a
    BY <1>3, <1>6, <2>1
  <2>3. CASE ~IsTwoWord(p[a])
    <3>1. ~V!IsTwoWord(p[a])
      BY <2>3 DEF IsTwoWord, V!IsTwoWord, TwoWordOps, V!TwoWordOps
    <3>2. st[a + 1]
      BY <1>3, <1>4, <1>6, <2>1, <2>2, <3>1
    <3>3. NextPc(p, a) = a + 1
      BY <2>3 DEF NextPc
    <3> QED BY <1>2, <1>5, <1>6, <2>1, <3>2, <3>3 DEF At
  <2>4. CASE IsTwoWord(p[a])
    <3>1. V!IsTwoWord(p[a])
      BY <2>4 DEF IsTwoWord, V!IsTwoWord, TwoWordOps, V!TwoWordOps
    <3>2. ~st[a + 1]
      BY <1>4, <2>1, <2>2, <3>1
    <3>3. a + 1 \in Tail2(p)
      BY <1>3, <1>6, <2>1, <2>4 DEF Tail2
    <3>4. a + 1 # L
      BY <1>11, <3>3
    <3>5. a + 2 \in 0 .. L /\ a + 2 \in 0 .. N /\ a + 2 # 0 /\ a + 2 - 1 = a + 1
      BY <1>3, <1>6, <2>1, <3>4
    <3>6. st[a + 2]
      BY <1>3, <1>4, <1>6, <2>1, <3>2, <3>5
    <3>7. NextPc(p, a) = a + 2
      BY <2>4 DEF NextPc
    <3> QED BY <1>2, <1>5, <3>5, <3>6, <3>7 DEF At
  <2> QED BY <2>3, <2>4
<1>13. ASSUME NEW a, At(p, a), p[a].op \in {"JUMP", "LOOP"}
       PROVE  SignedImm(p[a].imm) = p[a].imm /\ p[a].imm \in Nat \ {0}
  <2>1. a \in DOMAIN p /\ V!Starts(p)[a]
    BY <1>2, <1>9, <1>13
  <2>2. V!SignedImm(p[a].imm) > 0
    BY <1>13, <2>1 DEF Verified
  <2> QED BY <2>1, <2>2, SignedIs
<1>14. ASSUME NEW a, At(p, a), p[a].op = "JUMP" PROVE At(p, a + p[a].imm)
  <2>1. a \in Those(p, "JUMP") /\ a \in Nat /\ p[a].imm \in Nat \ {0}
    BY <1>9, <1>13, <1>14 DEF Those
  <2>2. a + p[a].imm <= L /\ a + p[a].imm \notin Tail2(p)
    BY <1>5, <2>1 DEF Structured
  <2>3. a + p[a].imm \in 0 .. L
    BY <1>6, <2>1, <2>2
  <2> QED BY <1>8, <2>2, <2>3
<1>15. ASSUME NEW a, At(p, a), p[a].op = "LOOP" PROVE At(p, EndOf(p, a))
  <2>1. a \in Loops(p) /\ a \in Nat /\ p[a].imm \in Nat \ {0}
    BY <1>9, <1>13, <1>15 DEF Those, Loops
  <2>2. EndOf(p, a) <= L /\ EndOf(p, a) \notin Tail2(p)
    BY <1>5, <2>1 DEF Structured
  <2>3. EndOf(p, a) \in 0 .. L
    BY <1>6, <2>1, <2>2 DEF EndOf
  <2> QED BY <1>8, <2>2, <2>3
<1>16. LastRet(p) \in Nat /\ LastRet(p) < V!Size(p)
  BY <1>1, <1>3, <1>5, <1>6
<1> HIDE DEF At
<1> QED BY <1>10, <1>12, <1>13, <1>14, <1>15, <1>16

-----------------------------------------------------------------------------
(***************************************************************************)
(* The loop stack: a frame for each loop entered, the later ones later in  *)
(* the text, and what resolveLoops does to it.                             *)
(***************************************************************************)
IsFrame(p, fr) ==
    /\ DOMAIN fr = {"start", "end", "remaining"}
    /\ \E b \in Loops(p) : fr.start = b + 1 /\ fr.end = EndOf(p, b)
Frames(p, s) ==
    /\ \E X : s \in Seq(X)
    /\ \A i \in 1 .. Len(s) : IsFrame(p, s[i])
    /\ \A i, j \in 1 .. Len(s) : i < j => s[i].start < s[j].start

\* The frames of s that t still has.
Kept(t, s, k) ==
    Len(t) = k /\ \A i \in 1 .. k : t[i].start = s[i].start /\ t[i].end = s[i].end

LEMMA GoToIs ==
    ASSUME NEW p, NEW np, NEW s, Frames(p, s), VMGoTo(np, s)
    PROVE  \E k \in 0 .. Len(s) :
             /\ \A i \in k + 1 .. Len(s) : s[i].end = np
             /\ Frames(p, loopStack') /\ Kept(loopStack', s, k)
             /\ \/ k > 0 /\ s[k].end = np /\ vpc' = s[k].start
                \/ (k > 0 => s[k].end # np) /\ vpc' = np
<1> DEFINE lastTime(i) == s[i].end = np /\ s[i].remaining <= 1
           Is(j) == (\A i \in j + 1 .. Len(s) : lastTime(i)) /\ (j > 0 => ~lastTime(j))
<1>1. PICK X : s \in Seq(X)
  BY DEF Frames
<1>2. \E j \in 0 .. Len(s) : Is(j)
  <2> DEFINE T == {j \in 0 .. Len(s) : \A i \in j + 1 .. Len(s) : lastTime(i)}
  <2>1. Len(s) \in T /\ T \subseteq Nat
    BY <1>1
  <2>2. PICK j \in T : \A k \in T : j <= k
    <3> HIDE DEF T
    <3> QED BY <2>1, LeastNat
  <2>3. ASSUME j > 0, lastTime(j) PROVE FALSE
    <3>1. j - 1 \in 0 .. Len(s) /\ \A i \in j - 1 + 1 .. Len(s) : i = j \/ i \in j + 1 .. Len(s)
      BY <2>2, <2>3, <1>1
    <3>2. \A i \in j - 1 + 1 .. Len(s) : lastTime(i)
      BY <2>2, <2>3, <3>1
    <3>3. j - 1 \in T
      BY <3>1, <3>2
    <3>4. j \in Nat
      BY <2>1
    <3> HIDE DEF T
    <3> QED BY <2>2, <3>3, <3>4
  <2> QED BY <2>2, <2>3
<1>3. PICK k \in 0 .. Len(s) : k = (CHOOSE j \in 0 .. Len(s) : Is(j)) /\ Is(k)
  <2>1. PICK c : c = (CHOOSE j \in 0 .. Len(s) : Is(j))
    OBVIOUS
  <2>2. c \in 0 .. Len(s) /\ Is(c)
    <3> HIDE DEF Is
    <3> QED BY <1>2, <2>1
  <2> HIDE DEF Is
  <2> QED BY <2>1, <2>2
<1>4. PICK kept : kept = SubSeq(s, 1, k)
  OBVIOUS
<1>5. kept \in Seq(X) /\ Len(kept) = k /\ \A i \in 1 .. k : kept[i] = s[i]
  <2>1. /\ SubSeq(s, 1, k) \in Seq(X) /\ Len(SubSeq(s, 1, k)) = k
        /\ \A i \in 1 .. k : SubSeq(s, 1, k)[i] = s[i]
    BY <1>1
  <2> QED BY <1>4, <2>1
<1>6. /\ loopStack' = IF k > 0 /\ s[k].end = np
                      THEN [kept EXCEPT ![k].remaining = @ - 1] ELSE kept
      /\ vpc' = IF k > 0 /\ s[k].end = np THEN s[k].start ELSE np
  BY <1>3, <1>4 DEF VMGoTo
<1> HIDE DEF Is
<1>7. \A i \in k + 1 .. Len(s) : s[i].end = np
  BY <1>3 DEF Is
<1>8. \A i \in 1 .. k : i \in 1 .. Len(s)
  BY <1>1
<1>9. Frames(p, kept) /\ Kept(kept, s, k)
  BY <1>5, <1>8 DEF Frames, Kept
<1>10. CASE k > 0 /\ s[k].end = np
  <2>1. k \in 1 .. k
    BY <1>10
  <2>2. PICK fr : fr = [kept[k] EXCEPT !.remaining = @ - 1]
    OBVIOUS
  <2>3. IsFrame(p, kept[k])
    BY <1>5, <1>9, <2>1 DEF Frames
  <2>4. fr.start = kept[k].start /\ fr.end = kept[k].end /\ DOMAIN fr = {"start", "end", "remaining"}
    BY <2>2, <2>3 DEF IsFrame
  <2>5. IsFrame(p, fr)
    BY <2>3, <2>4 DEF IsFrame
  <2>6. PICK t : t = [kept EXCEPT ![k] = fr]
    OBVIOUS
  <2>7. loopStack' = t
    BY <1>6, <1>10, <2>2, <2>6
  <2>8. t \in Seq(X \cup {fr}) /\ Len(t) = k /\ \A i \in 1 .. k : t[i] = IF i = k THEN fr ELSE kept[i]
    <3>1. kept \in Seq(X \cup {fr})
      BY <1>5
    <3> QED BY <1>5, <2>1, <2>6, <3>1
  <2>9. /\ \A i \in 1 .. k : t[i].start = kept[i].start /\ t[i].end = kept[i].end
        /\ \A i \in 1 .. k : IsFrame(p, t[i])
    BY <1>5, <1>9, <2>4, <2>5, <2>8 DEF Frames
  <2>10. \E Y : t \in Seq(Y)
    <3> WITNESS X \cup {fr}
    <3> QED BY <2>8
  <2>11. Frames(p, t)
    BY <1>5, <1>9, <2>8, <2>9, <2>10 DEF Frames
  <2>12. Kept(t, s, k)
    BY <1>9, <2>8, <2>9 DEF Kept
  <2> QED BY <1>6, <1>7, <1>10, <2>7, <2>11, <2>12
<1>11. CASE ~(k > 0 /\ s[k].end = np)
  <2>1. loopStack' = kept /\ vpc' = np /\ (k > 0 => s[k].end # np)
    BY <1>6, <1>11
  <2> QED BY <1>7, <1>9, <2>1
<1> QED BY <1>10, <1>11

(* A LOOP pushes a frame of its own.                                        *)
LEMMA PushedIs ==
    ASSUME NEW p, NEW s, Frames(p, s), NEW b \in Loops(p), b \in Nat, NEW c,
           \A i \in 1 .. Len(s) : s[i].start <= b
    PROVE  LET t == Append(s, [start |-> b + 1, end |-> EndOf(p, b), remaining |-> c])
           IN  Frames(p, t) /\ Len(t) = Len(s) + 1
               /\ t[Len(s) + 1].start = b + 1 /\ t[Len(s) + 1].end = EndOf(p, b)
               /\ \A i \in 1 .. Len(s) : t[i] = s[i]
<1>1. PICK X : s \in Seq(X)
  BY DEF Frames
<1>2. PICK fr : fr = [start |-> b + 1, end |-> EndOf(p, b), remaining |-> c]
  OBVIOUS
<1>3. PICK t : t = Append(s, fr)
  OBVIOUS
<1>4. IsFrame(p, fr) /\ fr.start = b + 1 /\ fr.end = EndOf(p, b)
  BY <1>2 DEF IsFrame
<1>5. /\ t \in Seq(X \cup {fr}) /\ Len(t) = Len(s) + 1 /\ t[Len(s) + 1] = fr
      /\ \A i \in 1 .. Len(s) : t[i] = s[i]
  <2>1. s \in Seq(X \cup {fr})
    BY <1>1
  <2> QED BY <1>3, <2>1
<1>6. \E Y : t \in Seq(Y)
  <2> WITNESS X \cup {fr}
  <2> QED BY <1>5
<1>7. Len(s) \in Nat /\ \A i \in 1 .. Len(t) : i \in 1 .. Len(s) \/ i = Len(s) + 1
  BY <1>1, <1>5
<1>8. \A i \in 1 .. Len(t) : IsFrame(p, t[i])
  BY <1>4, <1>5, <1>7 DEF Frames
<1>9. ASSUME NEW i \in 1 .. Len(t), NEW j \in 1 .. Len(t), i < j
      PROVE  t[i].start < t[j].start
  <2>1. i \in 1 .. Len(s)
    BY <1>5, <1>7, <1>9
  <2>2. CASE j \in 1 .. Len(s)
    BY <1>5, <1>9, <2>1, <2>2 DEF Frames
  <2>3. CASE j = Len(s) + 1
    <3>1. s[i].start \in Int /\ s[i].start <= b
      <4>1. PICK a \in Loops(p) : s[i].start = a + 1
        BY <2>1 DEF Frames, IsFrame
      <4> QED BY <2>1, <4>1
    <3> QED BY <1>4, <1>5, <2>1, <2>3, <3>1
  <2> QED BY <1>7, <2>2, <2>3
<1>10. Frames(p, t)
  BY <1>6, <1>8, <1>9 DEF Frames
<1> QED BY <1>2, <1>3, <1>4, <1>5, <1>10

LEMMA FrameIs ==
    ASSUME NEW p, Text(p), NEW s, Frames(p, s)
    PROVE  /\ Len(s) \in Nat
           /\ \A i \in 1 .. Len(s) :
                /\ s[i].start \in Nat /\ s[i].end \in Int
                /\ s[i].start - 1 \in Loops(p) /\ s[i].start - 1 \in Nat
                /\ s[i].end = EndOf(p, s[i].start - 1)
<1> SUFFICES ASSUME NEW i \in 1 .. Len(s)
             PROVE  /\ s[i].start \in Nat /\ s[i].end \in Int
                    /\ s[i].start - 1 \in Loops(p) /\ s[i].start - 1 \in Nat
                    /\ s[i].end = EndOf(p, s[i].start - 1)
  BY DEF Frames
<1>1. PICK b \in Loops(p) : s[i].start = b + 1 /\ s[i].end = EndOf(p, b)
  BY DEF Frames, IsFrame
<1>2. b \in DOMAIN p /\ b \in Nat
  BY SizeIs DEF Loops, Those
<1>3. p[b].imm \in Nat
  BY <1>2, SignedIs
<1>4. s[i].start - 1 = b
  BY <1>1, <1>2
<1>5. EndOf(p, b) \in Int
  BY <1>2, <1>3 DEF EndOf
<1> QED BY <1>1, <1>2, <1>4, <1>5

(***************************************************************************)
(* In a structured program the frames nest: each ends before the one below *)
(* it does.  A branch or the end of a body reaches no frame's end but the  *)
(* top one's, so that one frame at most is popped or starts over.          *)
(***************************************************************************)
Nested(p, s) ==
    /\ Frames(p, s)
    /\ \A i \in 1 .. Len(s) : At(p, s[i].start - 1)
    /\ \A i, j \in 1 .. Len(s) : i < j => s[j].end < s[i].end
Reach(s, np) == \A i \in 1 .. Len(s) : s[i].start <= np /\ np <= s[i].end
Around(s, pc) == \A i \in 1 .. Len(s) : s[i].start <= pc /\ pc < s[i].end

LEMMA GoToNested ==
    ASSUME NEW p, words = p, Text(p), Verified(p), Structured(p),
           NEW np, At(p, np), NEW s, Nested(p, s), Reach(s, np), VMGoTo(np, s)
    PROVE  /\ Nested(p, loopStack') /\ Around(loopStack', vpc') /\ At(p, vpc')
           /\ ~err'
<1>1. PICK k \in 0 .. Len(s) :
             /\ \A i \in k + 1 .. Len(s) : s[i].end = np
             /\ Frames(p, loopStack') /\ Kept(loopStack', s, k)
             /\ \/ k > 0 /\ s[k].end = np /\ vpc' = s[k].start
                \/ (k > 0 => s[k].end # np) /\ vpc' = np
  BY GoToIs DEF Nested
<1>2. PICK t : t = loopStack'
  OBVIOUS
<1>3. PICK to : to = vpc'
  OBVIOUS
<1>4. Frames(p, t) /\ Len(t) = k /\ \A i \in 1 .. k : t[i].start = s[i].start /\ t[i].end = s[i].end
  BY <1>1, <1>2 DEF Kept
<1>5. /\ Len(s) \in Nat
      /\ \A i \in 1 .. Len(s) : s[i].start \in Nat /\ s[i].end \in Int
      /\ \A i \in 1 .. Len(s) : s[i].start - 1 \in Loops(p) /\ s[i].start - 1 \in Nat
  BY FrameIs DEF Nested
<1>6. \A i, j \in 1 .. Len(s) : i < j => s[i].start < s[j].start /\ s[j].end < s[i].end
  BY DEF Nested, Frames
<1>7. np \in Nat /\ \A i \in 1 .. Len(s) : s[i].start <= np /\ np <= s[i].end
  <2>1. LastRet(p) \in Nat
    BY LaidOut
  <2> QED BY <2>1 DEF Reach, At
<1>8. \A i \in 1 .. k : i \in 1 .. Len(s)
  BY <1>1, <1>5
<1>9. Nested(p, t)
  BY <1>4, <1>8 DEF Nested
<1>10. ASSUME k > 0 /\ s[k].end = np /\ to = s[k].start
       PROVE  At(p, to) /\ Around(t, to)
  <2>1. k \in 1 .. Len(s)
    BY <1>5, <1>10
  <2>2. PICK b : b = s[k].start - 1
    OBVIOUS
  <2>3. b \in Nat /\ b \in Loops(p) /\ At(p, b) /\ to = b + 1
    BY <1>5, <1>10, <2>1, <2>2 DEF Nested
  <2>4. p[b].op = "LOOP" /\ ~IsTwoWord(p[b])
    BY <2>3 DEF Loops, Those, IsTwoWord, TwoWordOps
  <2>5. At(p, to)
    <3>1. At(p, NextPc(p, b))
      BY <2>3, <2>4, LaidOut
    <3> QED BY <2>3, <2>4, <3>1 DEF NextPc
  <2>6. to < s[k].end
    <3>1. p[b].imm \in Nat \ {0}
      BY <2>3, <2>4, LaidOut
    <3>2. s[k].end = EndOf(p, b)
      BY <2>1, <2>2, FrameIs DEF Nested
    <3> QED BY <2>3, <3>1, <3>2 DEF EndOf
  <2>7. Around(t, to)
    <3> SUFFICES ASSUME NEW i \in 1 .. k PROVE s[i].start <= to /\ to < s[i].end
      BY <1>4 DEF Around
    <3>1. i \in 1 .. Len(s) /\ (i = k \/ i < k)
      BY <1>8
    <3>2. CASE i = k
      BY <1>5, <1>10, <2>1, <2>6, <3>2
    <3>3. CASE i < k
      <4>1. s[i].start < s[k].start /\ s[k].end < s[i].end
        BY <1>6, <2>1, <3>1, <3>3
      <4> QED BY <1>5, <1>10, <2>1, <2>6, <3>1, <4>1
    <3> QED BY <3>1, <3>2, <3>3
  <2> QED BY <2>5, <2>7
<1>11. ASSUME (k > 0 => s[k].end # np) /\ to = np
       PROVE  At(p, to) /\ Around(t, to)
  <2>1. Around(t, to)
    <3> SUFFICES ASSUME NEW i \in 1 .. k PROVE s[i].start <= np /\ np < s[i].end
      BY <1>4, <1>11 DEF Around
    <3>1. i \in 1 .. Len(s) /\ s[i].start <= np /\ np <= s[i].end /\ s[i].end \in Int
      BY <1>5, <1>7, <1>8
    <3>2. CASE i = k
      BY <1>7, <1>11, <3>1, <3>2
    <3>3. CASE i # k
      <4>1. k \in 1 .. Len(s) /\ i < k
        BY <1>5, <3>3
      <4>2. s[k].end < s[i].end /\ np <= s[k].end /\ s[k].end \in Int
        BY <1>5, <1>6, <1>7, <3>1, <4>1
      <4> QED BY <1>7, <3>1, <4>2
    <3> QED BY <3>2, <3>3
  <2> QED BY <1>11, <2>1
<1>12. At(p, to) /\ Around(t, to)
  BY <1>1, <1>3, <1>10, <1>11
<1>13. ~err'
  <2>1. Len0 = V!Size(p) /\ LastRet(p) \in Nat /\ LastRet(p) < V!Size(p) /\ V!Size(p) \in Nat
    BY LaidOut, SizeIs DEF Len0, V!Size, V!Cardinality, Cardinality
  <2>2. to \in 0 .. LastRet(p)
    BY <1>12 DEF At
  <2>3. ~(to >= Len0)
    BY <2>1, <2>2
  <2>4. err' => vpc' >= Len0
    BY DEF VMGoTo
  <2> QED BY <1>3, <2>3, <2>4
<1> QED BY <1>2, <1>3, <1>9, <1>12, <1>13

-----------------------------------------------------------------------------
(***************************************************************************)
(* A task of an accepted, structured program stays between the starts and  *)
(* the ends of its frames, at an instruction no later than the last RET.   *)
(***************************************************************************)
LEMMA NextNested ==
    ASSUME NEW p, words = p, Text(p), Verified(p), Structured(p), At(p, vpc),
           Nested(p, loopStack), Around(loopStack, vpc), p[vpc].op # "RET", VMNext
    PROVE  /\ Nested(p, loopStack') /\ Around(loopStack', vpc') /\ At(p, vpc')
           /\ ~err'
<1>1. At(p, NextPc(p, vpc)) /\ VMGoTo(NextPc(p, vpc), loopStack)
  BY LaidOut DEF VMNext, NextPc, Head0
<1>2. Reach(loopStack, NextPc(p, vpc))
  <2> SUFFICES ASSUME NEW i \in 1 .. Len(loopStack)
               PROVE  /\ loopStack[i].start <= NextPc(p, vpc)
                      /\ NextPc(p, vpc) <= loopStack[i].end
    BY DEF Reach
  <2>1. PICK b : b = loopStack[i].start - 1
    OBVIOUS
  <2>2. /\ loopStack[i].start \in Nat /\ loopStack[i].end \in Int
        /\ b \in Loops(p) /\ loopStack[i].end = EndOf(p, b)
    BY <2>1, FrameIs DEF Nested
  <2>3. loopStack[i].start <= vpc /\ vpc < loopStack[i].end
    BY DEF Around
  <2>4. vpc \in Nat /\ vpc \in DOMAIN p
    <3>1. LastRet(p) \in Nat /\ LastRet(p) < V!Size(p) /\ V!Size(p) \in Nat
      BY LaidOut, SizeIs
    <3>2. DOMAIN p = 0 .. V!Size(p) - 1 /\ vpc \in 0 .. LastRet(p)
      BY SizeIs DEF At
    <3> QED BY <3>1, <3>2
  <2>5. CASE ~IsTwoWord(p[vpc])
    BY <2>2, <2>3, <2>4, <2>5 DEF NextPc
  <2>6. CASE IsTwoWord(p[vpc])
    <3>1. vpc + 1 \in Tail2(p)
      BY <2>4, <2>6 DEF Tail2
    <3>2. loopStack[i].end # vpc + 1
      BY <2>2, <3>1 DEF Structured
    <3> QED BY <2>2, <2>3, <2>4, <2>6, <3>2 DEF NextPc
  <2> QED BY <2>5, <2>6
<1> QED BY <1>1, <1>2, GoToNested

LEMMA StepNested ==
    ASSUME NEW p, words = p, Text(p), Verified(p), Structured(p), At(p, vpc),
           Nested(p, loopStack), Around(loopStack, vpc), VMStep
    PROVE  /\ Nested(p, loopStack') /\ Around(loopStack', vpc') /\ At(p, vpc')
           /\ err' => err
<1>1. /\ LastRet(p) \in Nat /\ vpc \in 0 .. LastRet(p) /\ vpc \in Nat /\ vpc \in DOMAIN p
      /\ V!Starts(p)[vpc]
  <2>1. LastRet(p) \in Nat /\ LastRet(p) < V!Size(p) /\ V!Size(p) \in Nat
    BY LaidOut, SizeIs
  <2>2. DOMAIN p = 0 .. V!Size(p) - 1 /\ vpc \in 0 .. LastRet(p) /\ V!Starts(p)[vpc]
    BY SizeIs DEF At
  <2> QED BY <2>1, <2>2
<1>2. ASSUME VMNext, Head0.op # "RET"
      PROVE  /\ Nested(p, loopStack') /\ Around(loopStack', vpc') /\ At(p, vpc')
             /\ err' => err
  BY <1>2, NextNested DEF Head0
(* Where the task stands in the loops of its frames.                        *)
<1>3. ASSUME NEW i \in 1 .. Len(loopStack)
      PROVE  LET b == loopStack[i].start - 1
             IN  /\ loopStack[i].start \in Nat /\ loopStack[i].end \in Int /\ b \in Nat
                 /\ b \in Loops(p) /\ loopStack[i].end = EndOf(p, b)
                 /\ loopStack[i].start <= vpc /\ vpc < loopStack[i].end /\ Inside(p, b, vpc)
  <2>1. PICK b : b = loopStack[i].start - 1
    OBVIOUS
  <2>2. /\ loopStack[i].start \in Nat /\ loopStack[i].end \in Int /\ b \in Nat
        /\ b \in Loops(p) /\ loopStack[i].end = EndOf(p, b)
    BY <2>1, FrameIs DEF Nested
  <2>3. loopStack[i].start <= vpc /\ vpc < loopStack[i].end
    BY DEF Around
  <2>4. b < vpc /\ vpc < EndOf(p, b)
    BY <1>1, <2>1, <2>2, <2>3
  <2> QED BY <2>1, <2>2, <2>3, <2>4 DEF Inside
<1>4. CASE VMJump
  <2>1. p[vpc].op = "JUMP" /\ vpc \in Those(p, "JUMP") /\ Head0 = p[vpc]
    BY <1>1, <1>4 DEF VMJump, Stepping, Head0, Those
  <2>2. CASE VMNext
    BY <1>2, <2>1, <2>2
  <2>3. CASE ~VMNext
    <3>1. PICK to : to = vpc + p[vpc].imm
      OBVIOUS
    <3>2. At(p, to) /\ SignedImm(p[vpc].imm) = p[vpc].imm /\ p[vpc].imm \in Nat \ {0}
      BY <2>1, <3>1, LaidOut
    <3>3. VMGoTo(to, loopStack)
      BY <1>4, <2>1, <2>3, <3>1, <3>2 DEF VMJump
    <3>4. Reach(loopStack, to)
      <4> SUFFICES ASSUME NEW i \in 1 .. Len(loopStack)
                   PROVE  loopStack[i].start <= to /\ to <= loopStack[i].end
        BY DEF Reach
      <4>1. PICK b : b = loopStack[i].start - 1
        OBVIOUS
      <4>2. /\ loopStack[i].start \in Nat /\ b \in Loops(p)
            /\ loopStack[i].end = EndOf(p, b)
            /\ loopStack[i].start <= vpc /\ Inside(p, b, vpc)
        BY <1>3, <4>1
      <4>3. to <= EndOf(p, b)
        BY <2>1, <3>1, <4>2 DEF Structured
      <4> QED BY <1>1, <3>1, <3>2, <4>2, <4>3
    <3> QED BY <3>2, <3>3, <3>4, GoToNested
  <2> QED BY <2>2, <2>3
<1>5. CASE VMLoop
  <2>1. p[vpc].op = "LOOP" /\ vpc \in Loops(p) /\ Head0 = p[vpc]
    BY <1>1, <1>5 DEF VMLoop, Stepping, Head0, Those, Loops
  <2>2. /\ SignedImm(p[vpc].imm) = p[vpc].imm /\ p[vpc].imm \in Nat \ {0}
        /\ At(p, EndOf(p, vpc)) /\ At(p, NextPc(p, vpc))
    BY <2>1, LaidOut
  <2>3. /\ vpc + 1 + SignedImm(Head0.imm) = EndOf(p, vpc) /\ vpc + 1 < EndOf(p, vpc)
        /\ EndOf(p, vpc) \in Nat
    BY <1>1, <2>1, <2>2 DEF EndOf
  <2>4. \A i \in 1 .. Len(loopStack) : EndOf(p, vpc) < loopStack[i].end
    BY <1>3, <2>1 DEF Structured
  <2>5. CASE VMGoTo(EndOf(p, vpc), loopStack)
    <3>1. Reach(loopStack, EndOf(p, vpc))
      BY <1>1, <1>3, <2>3, <2>4 DEF Reach
    <3> QED BY <2>2, <2>5, <3>1, GoToNested
  <2>6. CASE ~VMGoTo(EndOf(p, vpc), loopStack)
    <3>1. PICK c : c = R(Head0.rs1)
      OBVIOUS
    <3>2. PICK t : t = Append(loopStack, [start |-> vpc + 1, end |-> EndOf(p, vpc),
                                          remaining |-> c])
      OBVIOUS
    <3>3. VMGoTo(vpc + 1, t)
      BY <1>5, <2>3, <2>6, <3>1, <3>2 DEF VMLoop
    <3>4. \A i \in 1 .. Len(loopStack) : loopStack[i].start <= vpc
      BY <1>3
    <3>5. /\ Frames(p, t) /\ Len(t) = Len(loopStack) + 1
          /\ t[Len(loopStack) + 1].start = vpc + 1
          /\ t[Len(loopStack) + 1].end = EndOf(p, vpc)
          /\ \A i \in 1 .. Len(loopStack) : t[i] = loopStack[i]
      BY <1>1, <2>1, <3>2, <3>4, PushedIs DEF Nested
    <3>6. /\ Len(loopStack) \in Nat
          /\ \A i \in 1 .. Len(t) : i \in 1 .. Len(loopStack) \/ i = Len(loopStack) + 1
      BY <3>5, FrameIs DEF Nested
    <3>7. At(p, vpc + 1)
      BY <2>1, <2>2 DEF NextPc, IsTwoWord, TwoWordOps
    <3>8. \A i \in 1 .. Len(t) : At(p, t[i].start - 1)
      <4>1. t[Len(loopStack) + 1].start - 1 = vpc
        BY <1>1, <3>5
      <4> QED BY <3>5, <3>6, <4>1 DEF Nested
    <3>9. ASSUME NEW i \in 1 .. Len(t), NEW j \in 1 .. Len(t), i < j
          PROVE  t[j].end < t[i].end
      <4>1. i \in 1 .. Len(loopStack)
        BY <3>5, <3>6, <3>9
      <4>2. CASE j \in 1 .. Len(loopStack)
        BY <3>5, <3>9, <4>1, <4>2 DEF Nested
      <4>3. CASE j = Len(loopStack) + 1
        BY <2>4, <3>5, <4>1, <4>3
      <4> QED BY <3>6, <4>2, <4>3
    <3>10. Nested(p, t)
      BY <3>5, <3>8, <3>9 DEF Nested
    <3>11. Reach(t, vpc + 1)
      <4> SUFFICES ASSUME NEW i \in 1 .. Len(t)
                   PROVE  t[i].start <= vpc + 1 /\ vpc + 1 <= t[i].end
        BY DEF Reach
      <4>1. CASE i \in 1 .. Len(loopStack)
        <5>1. /\ loopStack[i].start \in Nat /\ loopStack[i].end \in Int
              /\ loopStack[i].start <= vpc /\ vpc < loopStack[i].end
          BY <1>3, <4>1
        <5>2. t[i] = loopStack[i]
          BY <3>5, <4>1
        <5> QED BY <1>1, <5>1, <5>2
      <4>2. CASE i = Len(loopStack) + 1
        BY <1>1, <2>3, <3>5, <4>2
      <4> QED BY <3>6, <4>1, <4>2
    <3> QED BY <3>3, <3>7, <3>10, <3>11, GoToNested
  <2> QED BY <2>5, <2>6
<1>6. CASE VMRet
  BY <1>6 DEF VMRet
<1>7. CASE VMIllegal
  <2>1. p[vpc].op = "BAD"
    BY <1>7 DEF VMIllegal, Stepping, Head0
  <2> QED BY <1>1, <2>1 DEF Verified
<1>8. CASE VMNop \/ VMCompute \/ VMLoad \/ VMStore \/ VMCas \/ VMCaa \/ VMWait \/ VMMemcpy
  <2>1. VMNext
    BY <1>8 DEF VMNop, VMCompute, VMLoad, VMStore, VMCas, VMCaa, VMWait, VMMemcpy
  <2>2. Head0.op # "RET"
    BY <1>8 DEF VMNop, VMCompute, VMLoad, VMStore, VMCas, VMCaa, VMWait, VMMemcpy, Stepping
  <2> QED BY <1>2, <2>1, <2>2
<1> QED BY <1>4, <1>5, <1>6, <1>7, <1>8 DEF VMStep

(***************************************************************************)
(* The verifier counted at least the loops around a LOOP when it accepted  *)
(* it: the frames of a task are no more than those it has room for.        *)
(***************************************************************************)
LEMMA RoomForFrames ==
    ASSUME NEW p, Text(p), Verified(p), Structured(p), NEW s, NEW pc,
           Nested(p, s), Around(s, pc), At(p, pc)
    PROVE  Len(s) <= MAX_LOOP_NEST
<1>1. PICK k : k = Len(s)
  OBVIOUS
<1>2. /\ k \in Nat /\ pc \in Nat
      /\ \A i \in 1 .. k : s[i].start \in Nat /\ s[i].end \in Int
  <2>1. LastRet(p) \in Nat
    BY LaidOut
  <2> QED BY <1>1, <2>1, FrameIs DEF Nested, At
<1>3. CASE k = 0
  BY <1>1, <1>3, OperatorAssumption
<1>4. CASE k # 0
  <2>1. k \in 1 .. k
    BY <1>2, <1>4
  (* What is known of the loop of a frame.                                  *)
  <2>2. ASSUME NEW i \in 1 .. k
        PROVE  LET b == s[i].start - 1
               IN  /\ b \in Nat /\ b \in DOMAIN p /\ p[b].op = "LOOP" /\ V!Starts(p)[b]
                   /\ SignedEnd(p, b) = s[i].end
    <3>1. PICK b : b = s[i].start - 1
      OBVIOUS
    <3>2. b \in Nat /\ b \in Loops(p) /\ s[i].end = EndOf(p, b) /\ At(p, b)
      BY <1>1, <3>1, FrameIs DEF Nested
    <3>3. b \in DOMAIN p /\ p[b].op = "LOOP" /\ V!Starts(p)[b]
      BY <3>2 DEF Loops, Those, At
    <3>4. SignedImm(p[b].imm) = p[b].imm
      BY <3>2, <3>3, LaidOut
    <3>5. V!SignedImm(p[b].imm) = SignedImm(p[b].imm)
      BY <3>3, SignedIs
    <3> QED BY <3>1, <3>2, <3>3, <3>4, <3>5 DEF SignedEnd, EndOf
  <2>3. PICK b : b = s[k].start - 1
    OBVIOUS
  <2>4. b \in Nat /\ b \in DOMAIN p /\ p[b].op = "LOOP" /\ V!Starts(p)[b]
    BY <2>1, <2>2, <2>3
  <2>15. PICK X : \E f \in Seq(X) : Len(f) < MAX_LOOP_NEST /\ Holds(p, f, b, b)
    BY <2>4 DEF Verified
  <2>5. PICK f \in Seq(X) : Len(f) < MAX_LOOP_NEST /\ Holds(p, f, b, b)
    BY <2>15
  <2>6. ASSUME NEW i \in 1 .. k - 1
        PROVE  \E j \in 1 .. Len(f) : f[j].end = s[i].end
    <3>1. PICK a : a = s[i].start - 1
      OBVIOUS
    <3>2. i \in 1 .. k
      BY <1>2
    <3>3. a \in Nat /\ Entered(p, a) /\ SignedEnd(p, a) = s[i].end
      BY <2>2, <3>1, <3>2 DEF Entered
    <3>4. s[i].start < s[k].start
      <4>1. i < k
        BY <1>2
      <4> QED BY <1>1, <2>1, <3>2, <4>1 DEF Nested, Frames
    <3>5. s[k].start <= pc /\ pc < s[i].end
      BY <1>1, <2>1, <3>2 DEF Around
    <3>6. a \in 0 .. b - 1 /\ b < SignedEnd(p, a)
      <4>1. PICK si : si = s[i].start
        OBVIOUS
      <4>2. PICK sk : sk = s[k].start
        OBVIOUS
      <4>3. PICK e : e = s[i].end
        OBVIOUS
      <4>4. si \in Nat /\ sk \in Nat /\ e \in Int
        BY <1>2, <2>1, <3>2, <4>1, <4>2, <4>3
      <4>5. a = si - 1 /\ b = sk - 1 /\ si < sk /\ sk <= pc /\ pc < e /\ SignedEnd(p, a) = e
        BY <2>3, <3>1, <3>3, <3>4, <3>5, <4>1, <4>2, <4>3
      <4> QED BY <1>2, <2>4, <3>3, <4>4, <4>5
    <3> QED BY <2>5, <3>3, <3>6 DEF Holds
  <2>7. PICK n : n = Len(f)
    OBVIOUS
  <2>8. PICK h : h = [i \in 1 .. k - 1 |-> CHOOSE j \in 1 .. n : f[j].end = s[i].end]
    OBVIOUS
  <2>9. \A i \in 1 .. k - 1 : h[i] \in 1 .. n /\ f[h[i]].end = s[i].end
    BY <2>6, <2>7, <2>8
  <2>10. \A i, j \in 1 .. k - 1 : i # j => s[i].end # s[j].end
    <3> SUFFICES ASSUME NEW i \in 1 .. k - 1, NEW j \in 1 .. k - 1, i # j
                 PROVE  s[i].end # s[j].end
      OBVIOUS
    <3>1. i \in 1 .. k /\ j \in 1 .. k /\ (i < j \/ j < i)
      BY <1>2
    <3>2. s[i].end < s[j].end \/ s[j].end < s[i].end
      BY <1>1, <3>1 DEF Nested
    <3> QED BY <1>2, <3>1, <3>2
  <2>11. h \in [1 .. k - 1 -> 1 .. n] /\ \A i, j \in 1 .. k - 1 : h[i] = h[j] => i = j
    <3>1. h \in [1 .. k - 1 -> 1 .. n]
      BY <2>8, <2>9
    <3>2. ASSUME NEW i \in 1 .. k - 1, NEW j \in 1 .. k - 1, h[i] = h[j] PROVE i = j
      BY <2>9, <2>10, <3>2
    <3> QED BY <3>1, <3>2
  <2>12. h \in Injection(1 .. k - 1, 1 .. n)
    <3>1. DOMAIN h = 1 .. k - 1
      BY <2>11
    <3>2. IsInjective(h)
      BY <2>11, <3>1, Zenon DEF IsInjective
    <3> QED BY <2>11, <3>2, Zenon DEF Injection
  <2>13. n \in Nat /\ k - 1 \in Nat
    BY <1>2, <1>4, <2>5, <2>7
  <2>14. /\ IsFiniteSet(1 .. n) /\ Cardinality(1 .. n) = n
         /\ Cardinality(1 .. k - 1) = k - 1
    <3>1. 1 \in Int /\ n \in Int /\ k - 1 \in Int
      BY <2>13
    <3>2. /\ IsFiniteSet(1 .. n) /\ Cardinality(1 .. n) = IF 1 > n THEN 0 ELSE n - 1 + 1
          /\ Cardinality(1 .. k - 1) = IF 1 > k - 1 THEN 0 ELSE k - 1 - 1 + 1
      BY <3>1, FS_Interval, Zenon
    <3> QED BY <2>13, <3>2
  <2>16. Cardinality(1 .. k - 1) <= Cardinality(1 .. n)
    BY <2>12, <2>14, FS_Injection, Zenon
  <2> QED BY <1>1, <2>5, <2>7, <2>13, <2>14, <2>16, OperatorAssumption
<1> QED BY <1>3, <1>4

-----------------------------------------------------------------------------
(***************************************************************************)
(* The theorems.  Without Abort a task of an accepted, structured operator *)
(* can only halt at a RET.                                                 *)
(***************************************************************************)
TaskInv ==
    /\ Text(words) /\ steps \in Nat
    /\ accepted => V!Accepts(words, Manifest)
    /\ accepted /\ Structured(words) =>
         /\ Nested(words, loopStack) /\ Around(loopStack, vpc) /\ At(words, vpc)
NoError == accepted /\ Structured(words) /\ err => steps >= maxSteps

LEMMA NothingNested ==
    ASSUME NEW p, NEW pc PROVE Nested(p, <<>>) /\ Around(<<>>, pc)
<1>1. <<>> \in Seq({}) /\ Len(<<>>) = 0
  OBVIOUS
<1>2. \E X : <<>> \in Seq(X)
  BY <1>1
<1> QED BY <1>1, <1>2 DEF Nested, Frames, Around

LEMMA TaskInit == Init => TaskInv /\ NoError
<1> SUFFICES ASSUME Init PROVE TaskInv /\ NoError
  OBVIOUS
<1>1. Text(words)
  <2>1. words \in Programs
    BY DEF Init
  <2>2. PICK c : c = Cardinality(DOMAIN words)
    OBVIOUS
  <2>3. IsFiniteSet(DOMAIN words) /\ words \in [0 .. c - 1 -> Instructions]
    BY <2>1, <2>2, OperatorAssumption
  <2>4. c \in Nat
    BY <2>2, <2>3, FS_CardinalityType
  <2> QED BY <2>3, <2>4 DEF Text
<1>2. accepted => V!Accepts(words, Manifest)
  BY DEF Init
<1>3. loopStack = <<>> /\ vpc = 0 /\ err = FALSE /\ steps = 0
  BY DEF Init, VMInit
<1>4. ASSUME accepted, Structured(words) PROVE At(words, vpc)
  BY <1>1, <1>2, <1>3, <1>4, AcceptedIsVerified, LaidOut
<1> QED BY <1>1, <1>2, <1>3, <1>4, NothingNested DEF TaskInv, NoError

LEMMA TaskStep ==
    ASSUME TaskInv, [Next]_vars
    PROVE  /\ TaskInv'
           /\ NoError => NoError'
<1>1. ASSUME words' = words, accepted' = accepted, steps' \in Nat,
             accepted /\ Structured(words) =>
               Nested(words, loopStack') /\ Around(loopStack', vpc') /\ At(words, vpc')
      PROVE  TaskInv'
  BY <1>1 DEF TaskInv
<1>2. CASE Invoke
  <2>1. /\ words' = words /\ accepted' = accepted /\ loopStack' = <<>> /\ vpc' = 0 /\ err' = FALSE
        /\ steps' = 0
    BY <1>2 DEF Invoke, VMReset, VMFresh
  <2>2. accepted /\ Structured(words) => At(words, 0)
    BY AcceptedIsVerified, LaidOut DEF TaskInv
  <2>3. TaskInv'
    BY <1>1, <2>1, <2>2, NothingNested
  <2> QED BY <2>1, <2>3 DEF NoError
<1>3. CASE Step
  <2>1. VMStep /\ accepted' = accepted /\ steps' \in Nat
    BY <1>3 DEF Step, TaskInv
  <2>2. words' = words
    BY <2>1 DEF VMStep, VMNop, VMCompute, VMLoad, VMStore, VMCas, VMCaa, VMJump, VMLoop,
                VMWait, VMMemcpy, VMRet, VMIllegal, VMNext, VMGoTo
  <2>3. ASSUME accepted, Structured(words)
        PROVE  /\ Nested(words, loopStack') /\ Around(loopStack', vpc') /\ At(words, vpc')
               /\ err' => err
    BY <2>1, <2>3, AcceptedIsVerified, StepNested DEF TaskInv
  <2>4. TaskInv'
    BY <1>1, <2>1, <2>2, <2>3
  <2>5. ~(steps >= maxSteps)
    BY <1>3, OperatorAssumption DEF Step, TaskInv
  <2> QED BY <2>1, <2>2, <2>3, <2>4, <2>5 DEF NoError
<1>4. CASE Abort
  <2>1. /\ words' = words /\ accepted' = accepted /\ loopStack' = loopStack /\ vpc' = vpc
        /\ steps >= maxSteps /\ steps' = steps /\ steps \in Nat
    BY <1>4 DEF Abort, TaskInv
  <2>2. TaskInv'
    BY <1>1, <2>1 DEF TaskInv
  <2> QED BY <2>1, <2>2 DEF NoError
<1>5. CASE UNCHANGED vars
  BY <1>1, <1>5 DEF vars, vmVars, TaskInv, NoError
<1> QED BY <1>2, <1>3, <1>4, <1>5 DEF Next

(***************************************************************************)
(* The loop stack has room for every frame a task of an accepted operator  *)
(* pushes.                                                                 *)
(***************************************************************************)
THEOREM HasRoom == Spec => []NestingBounded
<1>1. Init => TaskInv
  BY TaskInit
<1>2. TaskInv /\ [Next]_vars => TaskInv'
  BY TaskStep
<1>3. TaskInv => NestingBounded
  <2> SUFFICES ASSUME TaskInv, accepted, Structured(words)
               PROVE  ~(Len(loopStack) > MAX_LOOP_NEST)
    BY DEF NestingBounded
  <2>1. Len(loopStack) <= MAX_LOOP_NEST /\ Len(loopStack) \in Nat
    BY AcceptedIsVerified, RoomForFrames, FrameIs DEF TaskInv, Nested
  <2> QED BY <2>1, OperatorAssumption
<1> QED BY <1>1, <1>2, <1>3, PTL DEF Spec

(***************************************************************************)
(* An accepted operator halts at a RET, if it halts before the step limit. *)
(***************************************************************************)
THEOREM ReachesRet == Spec => []EndsWithRet
<1>1. Init => TaskInv /\ NoError
  BY TaskInit
<1>2. TaskInv /\ NoError /\ [Next]_vars => TaskInv' /\ NoError'
  BY TaskStep
<1>3. NoError => EndsWithRet
  BY DEF NoError, EndsWithRet
<1> QED BY <1>1, <1>2, <1>3, PTL DEF Spec

-----------------------------------------------------------------------------
(***************************************************************************)
(* Copies.  When none is in a loop, a task has executed no more of them    *)
(* than stand before the place it has come to: the counter never meets its *)
(* cap, and says how many are under way.                                   *)
(***************************************************************************)
LEMMA OfTwo ==
    ASSUME NEW a \in Int, NEW b \in Int
    PROVE  /\ Max({a, b}) = IF a >= b THEN a ELSE b
           /\ Min({a, b}) = IF a <= b THEN a ELSE b
<1>1. \E x \in {a, b} : \A y \in {a, b} : x >= y
  OBVIOUS
<1>2. \E x \in {a, b} : \A y \in {a, b} : x <= y
  OBVIOUS
<1>3. Max({a, b}) \in {a, b} /\ \A y \in {a, b} : Max({a, b}) >= y
  BY <1>1, Zenon DEF Max
<1>4. Min({a, b}) \in {a, b} /\ \A y \in {a, b} : Min({a, b}) <= y
  BY <1>2, Zenon DEF Min
<1> QED BY <1>3, <1>4

Copies(p, pc) == {m \in Those(p, "MEMCPY") : m < pc}

LEMMA CopiesAre ==
    ASSUME NEW p, Text(p), Cardinality(Those(p, "MEMCPY")) <= MAX_INFLIGHT_PER_TASK
    PROVE  /\ \A a, b : Copies(p, a) \subseteq Copies(p, b) =>
                          Cardinality(Copies(p, a)) <= Cardinality(Copies(p, b))
           /\ \A a : /\ Cardinality(Copies(p, a)) \in Nat
                     /\ Cardinality(Copies(p, a)) <= MAX_INFLIGHT_PER_TASK
           /\ \A a \in Those(p, "MEMCPY") :
                Cardinality(Copies(p, a + 1)) = Cardinality(Copies(p, a)) + 1
<1> DEFINE S == Those(p, "MEMCPY")
<1>1. IsFiniteSet(S) /\ S \subseteq Nat
  <2>1. V!Size(p) \in Nat /\ DOMAIN p = 0 .. V!Size(p) - 1
    BY SizeIs
  <2>2. IsFiniteSet(0 .. V!Size(p) - 1)
    <3>1. 0 \in Int /\ V!Size(p) - 1 \in Int
      BY <2>1
    <3> QED BY <3>1, FS_Interval, Zenon
  <2>3. S \in SUBSET (DOMAIN p)
    BY DEF Those
  <2> HIDE DEF S
  <2> QED BY <2>1, <2>2, <2>3, FS_Subset
<1>2. \A a : Copies(p, a) \in SUBSET S
  BY DEF Copies
<1>3. \A a : IsFiniteSet(Copies(p, a)) /\ Cardinality(Copies(p, a)) <= Cardinality(S)
  <2> HIDE DEF S
  <2> QED BY <1>1, <1>2, FS_Subset
<1>4. Cardinality(S) \in Nat /\ \A a : Cardinality(Copies(p, a)) \in Nat
  <2> HIDE DEF S
  <2> QED BY <1>1, <1>3, FS_CardinalityType
<1>5. ASSUME NEW a, NEW b, Copies(p, a) \subseteq Copies(p, b)
      PROVE  Cardinality(Copies(p, a)) <= Cardinality(Copies(p, b))
  BY <1>3, <1>5, FS_Subset
<1>6. ASSUME NEW a \in S
      PROVE  Cardinality(Copies(p, a + 1)) = Cardinality(Copies(p, a)) + 1
  <2>1. a \in Nat /\ a \notin Copies(p, a)
    BY <1>1 DEF Copies
  <2>2. Copies(p, a + 1) = Copies(p, a) \cup {a}
    <3> SUFFICES ASSUME NEW m \in S PROVE m < a + 1 <=> m < a \/ m = a
      BY <2>1 DEF Copies
    <3>1. m \in Nat
      BY <1>1
    <3> QED BY <2>1, <3>1
  <2> QED BY <1>3, <2>1, <2>2, FS_AddElement
<1>7. \A a : Cardinality(Copies(p, a)) <= MAX_INFLIGHT_PER_TASK
  <2> SUFFICES ASSUME NEW a PROVE Cardinality(Copies(p, a)) <= MAX_INFLIGHT_PER_TASK
    OBVIOUS
  <2>1. PICK c : c = Cardinality(Copies(p, a))
    OBVIOUS
  <2>2. PICK d : d = Cardinality(S)
    OBVIOUS
  <2>3. c \in Nat /\ d \in Nat /\ c <= d /\ d <= MAX_INFLIGHT_PER_TASK
    BY <1>3, <1>4, <2>1, <2>2
  <2> QED BY <2>1, <2>3, OperatorAssumption
<1> QED BY <1>4, <1>5, <1>6, <1>7

Before(s, pc) == \A i \in 1 .. Len(s) : s[i].start <= pc

(* Going on, forward or back to the start of a body, leaves no copy behind. *)
LEMMA GoToCopies ==
    ASSUME NEW p, words = p, Text(p), FewCopies(p, MAX_INFLIGHT_PER_TASK),
           NEW s, Frames(p, s), NEW np \in Nat, Before(s, np), VMGoTo(np, s)
    PROVE  /\ Frames(p, loopStack') /\ Before(loopStack', vpc') /\ vpc' \in Nat
           /\ Copies(p, np) \subseteq Copies(p, vpc')
           /\ ~halted' => vpc' \in DOMAIN p
<1>1. PICK k \in 0 .. Len(s) :
             /\ \A i \in k + 1 .. Len(s) : s[i].end = np
             /\ Frames(p, loopStack') /\ Kept(loopStack', s, k)
             /\ \/ k > 0 /\ s[k].end = np /\ vpc' = s[k].start
                \/ (k > 0 => s[k].end # np) /\ vpc' = np
  BY GoToIs
<1>2. PICK t : t = loopStack'
  OBVIOUS
<1>3. PICK to : to = vpc'
  OBVIOUS
<1>4. Len(t) = k /\ \A i \in 1 .. k : t[i].start = s[i].start
  BY <1>1, <1>2 DEF Kept
<1>5. /\ Len(s) \in Nat
      /\ \A i \in 1 .. Len(s) : s[i].start \in Nat
      /\ \A i \in 1 .. k : i \in 1 .. Len(s)
  BY <1>1, FrameIs
<1>6. ASSUME k > 0 /\ s[k].end = np /\ to = s[k].start
      PROVE  to \in Nat /\ Before(t, to) /\ Copies(p, np) \subseteq Copies(p, to)
  <2>1. k \in 1 .. k /\ k \in 1 .. Len(s) /\ to \in Nat
    BY <1>5, <1>6
  <2>2. Before(t, to)
    <3> SUFFICES ASSUME NEW i \in 1 .. k PROVE s[i].start <= to
      BY <1>4 DEF Before
    <3>1. i \in 1 .. Len(s) /\ (i = k \/ i < k)
      BY <1>5
    <3>2. i < k => s[i].start < s[k].start
      BY <2>1, <3>1 DEF Frames
    <3> QED BY <1>5, <1>6, <2>1, <3>1, <3>2
  <2>3. PICK b : b = s[k].start - 1
    OBVIOUS
  <2>4. b \in Nat /\ b \in Loops(p) /\ np = EndOf(p, b) /\ to = b + 1
    BY <1>5, <1>6, <2>1, <2>3, FrameIs
  <2>5. ASSUME NEW m \in Copies(p, np) PROVE m < to
    <3>1. m \in Those(p, "MEMCPY") /\ m < np
      BY <2>5 DEF Copies
    <3>2. m \in Nat /\ m # b
      <4>1. m \in DOMAIN p /\ p[m].op = "MEMCPY" /\ p[b].op = "LOOP"
        BY <2>4, <3>1 DEF Those, Loops
      <4> QED BY <4>1, SizeIs
    <3>3. ~Inside(p, b, m)
      BY <2>4, <3>1 DEF FewCopies
    <3> QED BY <2>4, <3>1, <3>2, <3>3 DEF Inside
  <2> QED BY <2>1, <2>2, <2>5 DEF Copies
<1>7. ASSUME to = np
      PROVE  to \in Nat /\ Before(t, to) /\ Copies(p, np) \subseteq Copies(p, to)
  BY <1>4, <1>5, <1>7 DEF Before
<1>8. to \in Nat /\ Before(t, to) /\ Copies(p, np) \subseteq Copies(p, to)
  BY <1>1, <1>3, <1>6, <1>7
<1>9. ~halted' => to \in DOMAIN p
  <2>1. Len0 = V!Size(p) /\ V!Size(p) \in Nat /\ DOMAIN p = 0 .. V!Size(p) - 1
    BY SizeIs DEF Len0, V!Size, V!Cardinality, Cardinality
  <2>2. ~halted' => ~(vpc' >= Len0)
    BY DEF VMGoTo
  <2> QED BY <1>3, <1>8, <2>1, <2>2
<1> QED BY <1>1, <1>2, <1>3, <1>8, <1>9

Counted(p) ==
    /\ Frames(p, loopStack) /\ Before(loopStack, vpc) /\ vpc \in Nat
    /\ ~halted => vpc \in DOMAIN p
    /\ inFlight = completions /\ completions \in Nat
    /\ completions <= Cardinality(Copies(p, vpc))

(* A step to np that finds n copies under way, one more if it starts one.   *)
LEMMA GoToCounted ==
    ASSUME NEW p, words = p, Text(p), FewCopies(p, MAX_INFLIGHT_PER_TASK),
           NEW s, Frames(p, s), NEW np \in Nat, Before(s, np), VMGoTo(np, s),
           inFlight' = completions', completions' \in Nat,
           completions' <= Cardinality(Copies(p, np))
    PROVE  Counted(p)'
<1>1. /\ Frames(p, loopStack') /\ Before(loopStack', vpc') /\ vpc' \in Nat
      /\ Copies(p, np) \subseteq Copies(p, vpc')
      /\ ~halted' => vpc' \in DOMAIN p
  BY GoToCopies
<1>2. PICK to : to = vpc'
  OBVIOUS
<1>3. PICK c : c = Cardinality(Copies(p, np))
  OBVIOUS
<1>4. PICK d : d = Cardinality(Copies(p, to))
  OBVIOUS
<1>5. c \in Nat /\ d \in Nat /\ c <= d
  BY <1>1, <1>2, <1>3, <1>4, CopiesAre DEF FewCopies
<1>6. completions' <= Cardinality(Copies(p, vpc'))
  BY <1>2, <1>3, <1>4, <1>5
<1> QED BY <1>1, <1>6 DEF Counted

LEMMA StepCounted ==
    ASSUME NEW p, words = p, Text(p), FewCopies(p, MAX_INFLIGHT_PER_TASK), Counted(p), VMStep
    PROVE  /\ Counted(p)'
           /\ Stepping("WAIT") => completions' <= Max({0, SignedImm(Head0.imm)})
<1>1. PICK n : n = completions
  OBVIOUS
<1>2. n \in Nat /\ inFlight = n /\ vpc \in Nat
  BY <1>1 DEF Counted
<1>3. ~halted
  BY DEF VMStep, VMNop, VMCompute, VMLoad, VMStore, VMCas, VMCaa, VMJump, VMLoop, VMWait,
         VMMemcpy, VMRet, VMIllegal, Stepping
<1>4. vpc \in DOMAIN p /\ Head0 = p[vpc]
  BY <1>3 DEF Counted, Head0
<1>5. PICK m : m = SignedImm(Head0.imm)
  OBVIOUS
<1>6. m \in Int
  BY <1>4, <1>5, SignedIs
(* The copies before a later place are no fewer.                            *)
<1>7. ASSUME NEW np \in Nat, vpc < np
      PROVE  /\ Before(loopStack, np) /\ Before(loopStack, vpc)
             /\ n <= Cardinality(Copies(p, np))
             /\ Head0.op = "MEMCPY" => n + 1 <= Cardinality(Copies(p, np))
  <2>1. Before(loopStack, np) /\ Before(loopStack, vpc)
    <3> SUFFICES ASSUME NEW i \in 1 .. Len(loopStack) PROVE loopStack[i].start <= np
      BY DEF Before, Counted
    <3>1. loopStack[i].start \in Nat /\ loopStack[i].start <= vpc
      BY FrameIs DEF Counted, Before
    <3> QED BY <1>2, <1>7, <3>1
  <2>2. /\ Copies(p, vpc) \subseteq Copies(p, np)
        /\ Copies(p, vpc + 1) \subseteq Copies(p, np)
    <3> SUFFICES ASSUME NEW a \in Those(p, "MEMCPY")
                 PROVE  (a < vpc => a < np) /\ (a < vpc + 1 => a < np)
      BY DEF Copies
    <3>1. a \in Nat
      BY SizeIs DEF Those
    <3> QED BY <1>2, <1>7, <3>1
  <2>3. PICK c : c = Cardinality(Copies(p, vpc))
    OBVIOUS
  <2>4. PICK d : d = Cardinality(Copies(p, np))
    OBVIOUS
  <2>5. c \in Nat /\ d \in Nat /\ c <= d
    BY <2>2, <2>3, <2>4, CopiesAre DEF FewCopies
  <2>6. n <= c
    BY <1>1, <2>3 DEF Counted
  <2>7. ASSUME Head0.op = "MEMCPY" PROVE n + 1 <= d
    <3>1. vpc \in Those(p, "MEMCPY")
      BY <1>4, <2>7 DEF Those
    <3>2. Cardinality(Copies(p, vpc + 1)) = c + 1
      BY <2>3, <3>1, CopiesAre DEF FewCopies
    <3>3. Cardinality(Copies(p, vpc + 1)) <= d
      BY <2>2, <2>4, CopiesAre DEF FewCopies
    <3> QED BY <1>2, <2>5, <2>6, <3>2, <3>3
  <2> QED BY <1>2, <2>1, <2>4, <2>5, <2>6, <2>7
<1>8. PICK np : np = vpc + (IF IsTwoWord(Head0) THEN 2 ELSE 1)
  OBVIOUS
<1>9. np \in Nat /\ vpc < np
  BY <1>2, <1>8
<1>10. VMNext => VMGoTo(np, loopStack)
  BY <1>8 DEF VMNext
<1>11. Frames(p, loopStack)
  BY DEF Counted
<1>12. ASSUME UNCHANGED counters, VMNext PROVE Counted(p)'
  <2>1. completions' = n /\ inFlight' = n
    BY <1>1, <1>2, <1>12 DEF counters
  <2> QED BY <1>2, <1>7, <1>9, <1>10, <1>11, <1>12, <2>1, GoToCounted
<1>13. CASE VMJump
  <2>1. UNCHANGED counters /\ vpc \in Those(p, "JUMP") /\ ~Stepping("WAIT")
    BY <1>4, <1>13 DEF VMJump, Stepping, Those
  <2>2. CASE VMNext
    BY <1>12, <2>1, <2>2
  <2>3. CASE ~VMNext
    <3>1. VMGoTo(vpc + m, loopStack)
      BY <1>5, <1>13, <2>3 DEF VMJump
    <3>2. m > 0
      BY <1>4, <1>5, <2>1 DEF FewCopies
    <3>3. vpc + m \in Nat /\ vpc < vpc + m
      BY <1>2, <1>6, <3>2
    <3>4. completions' = n /\ inFlight' = n
      BY <1>1, <1>2, <2>1 DEF counters
    <3>5. Before(loopStack, vpc + m) /\ n <= Cardinality(Copies(p, vpc + m))
      BY <1>7, <3>3
    <3>6. Counted(p)'
      BY <1>2, <1>11, <3>1, <3>3, <3>4, <3>5, GoToCounted
    <3> QED BY <2>1, <3>6
  <2> QED BY <2>2, <2>3
<1>14. CASE VMLoop
  <2>1. UNCHANGED counters /\ vpc \in Loops(p) /\ ~Stepping("WAIT")
    BY <1>4, <1>14 DEF VMLoop, Stepping, Those, Loops
  <2>2. m > 0 /\ m = p[vpc].imm
    <3>1. m > 0
      BY <1>4, <1>5, <2>1 DEF FewCopies
    <3> QED BY <1>4, <1>5, <3>1, SignedIs
  <2>3. EndOf(p, vpc) = vpc + 1 + m
    BY <2>2 DEF EndOf
  <2>4. completions' = n /\ inFlight' = n
    BY <1>1, <1>2, <2>1 DEF counters
  <2>5. CASE VMGoTo(vpc + 1 + m, loopStack)
    <3>1. vpc + 1 + m \in Nat /\ vpc < vpc + 1 + m
      BY <1>2, <1>6, <2>2
    <3>2. Before(loopStack, vpc + 1 + m) /\ n <= Cardinality(Copies(p, vpc + 1 + m))
      BY <1>7, <3>1
    <3>3. Counted(p)'
      BY <1>2, <1>11, <2>4, <2>5, <3>1, <3>2, GoToCounted
    <3> QED BY <2>1, <3>3
  <2>6. CASE ~VMGoTo(vpc + 1 + m, loopStack)
    <3>1. PICK c : c = R(Head0.rs1)
      OBVIOUS
    <3>2. PICK t : t = Append(loopStack, [start |-> vpc + 1, end |-> EndOf(p, vpc),
                                          remaining |-> c])
      OBVIOUS
    <3>3. VMGoTo(vpc + 1, t)
      BY <1>5, <1>14, <2>3, <2>6, <3>1, <3>2 DEF VMLoop
    <3>4. \A i \in 1 .. Len(loopStack) : loopStack[i].start <= vpc
      BY DEF Counted, Before
    <3>5. /\ Frames(p, t) /\ Len(t) = Len(loopStack) + 1
          /\ t[Len(loopStack) + 1].start = vpc + 1
          /\ \A i \in 1 .. Len(loopStack) : t[i] = loopStack[i]
      BY <1>2, <1>11, <2>1, <3>2, <3>4, PushedIs
    <3>6. vpc + 1 \in Nat /\ vpc < vpc + 1
      BY <1>2
    <3>7. Before(loopStack, vpc + 1) /\ n <= Cardinality(Copies(p, vpc + 1))
      BY <1>7, <3>6
    <3>8. Before(t, vpc + 1)
      <4> SUFFICES ASSUME NEW i \in 1 .. Len(t) PROVE t[i].start <= vpc + 1
        BY DEF Before
      <4>1. i \in 1 .. Len(loopStack) \/ i = Len(loopStack) + 1
        BY <1>11, <3>5, FrameIs
      <4>2. CASE i \in 1 .. Len(loopStack)
        BY <3>5, <3>7, <4>2 DEF Before
      <4>3. CASE i = Len(loopStack) + 1
        BY <1>2, <3>5, <4>3
      <4> QED BY <4>1, <4>2, <4>3
    <3>9. Counted(p)'
      BY <1>2, <2>4, <3>3, <3>5, <3>6, <3>7, <3>8, GoToCounted
    <3> QED BY <2>1, <3>9
  <2> QED BY <2>5, <2>6
<1>15. CASE VMWait
  <2>1. PICK above : above = Max({0, n - m})
    OBVIOUS
  <2>2. above = IF 0 >= n - m THEN 0 ELSE n - m
    BY <1>2, <1>6, <2>1, OfTwo
  <2>3. above \in Nat
    BY <1>2, <1>6, <2>2
  <2>4. PICK drained : drained = Min({above, n})
    OBVIOUS
  <2>5. drained = IF above <= n THEN above ELSE n
    BY <1>2, <2>3, <2>4, OfTwo
  <2>6. inFlight' = n - drained /\ completions' = n - drained /\ VMNext
    BY <1>1, <1>2, <1>5, <1>15, <2>1, <2>4 DEF VMWait
  <2>7. n - drained \in Nat /\ n - drained <= n /\ n - drained <= IF 0 >= m THEN 0 ELSE m
    BY <1>2, <1>6, <2>2, <2>3, <2>5
  <2>8. Max({0, m}) = IF 0 >= m THEN 0 ELSE m
    BY <1>6, OfTwo
  <2>9. n - drained <= Cardinality(Copies(p, np))
    <3>1. PICK c : c = Cardinality(Copies(p, np))
      OBVIOUS
    <3>2. c \in Nat /\ n <= c
      BY <1>7, <1>9, <3>1, CopiesAre DEF FewCopies
    <3> QED BY <1>2, <2>7, <3>1, <3>2
  <2>10. Counted(p)'
    BY <1>7, <1>9, <1>10, <1>11, <2>6, <2>7, <2>9, GoToCounted
  <2> QED BY <1>5, <2>6, <2>7, <2>8, <2>10
<1>16. CASE VMMemcpy
  <2>1. Head0.op = "MEMCPY" /\ VMNext /\ ~Stepping("WAIT")
    BY <1>16 DEF VMMemcpy, Stepping
  <2>2. CASE UNCHANGED counters
    BY <1>12, <2>1, <2>2
  <2>3. CASE ~UNCHANGED counters
    <3>1. inFlight' = Min({MAX_INFLIGHT_PER_TASK, n + 1}) /\ completions' = n + 1
      BY <1>1, <1>2, <1>16, <2>3 DEF VMMemcpy, CountCopy
    <3>2. n + 1 <= Cardinality(Copies(p, np))
      BY <1>7, <1>9, <2>1
    <3>3. n + 1 <= MAX_INFLIGHT_PER_TASK
      <4>1. PICK c : c = Cardinality(Copies(p, np))
        OBVIOUS
      <4>2. c \in Nat /\ c <= MAX_INFLIGHT_PER_TASK
        BY <4>1, CopiesAre DEF FewCopies
      <4> QED BY <1>2, <3>2, <4>1, <4>2, OperatorAssumption
    <3>4. inFlight' = n + 1
      <4>1. PICK q : q = n + 1
        OBVIOUS
      <4>2. q \in Int /\ MAX_INFLIGHT_PER_TASK \in Int /\ q <= MAX_INFLIGHT_PER_TASK
        BY <1>2, <3>3, <4>1, OperatorAssumption
      <4>3. Min({MAX_INFLIGHT_PER_TASK, q}) =
              IF MAX_INFLIGHT_PER_TASK <= q THEN MAX_INFLIGHT_PER_TASK ELSE q
        BY <4>2, OfTwo
      <4> QED BY <3>1, <4>1, <4>2, <4>3
    <3>5. inFlight' = completions' /\ completions' \in Nat
          /\ completions' <= Cardinality(Copies(p, np))
      BY <1>2, <3>1, <3>2, <3>4
    <3>6. Counted(p)'
      BY <1>7, <1>9, <1>10, <1>11, <2>1, <3>5, GoToCounted
    <3> QED BY <2>1, <3>6
  <2> QED BY <2>2, <2>3
<1>17. CASE VMRet
  <2>1. /\ halted' = TRUE /\ inFlight' = n - n /\ completions' = 0
        /\ UNCHANGED <<words, vpc, loopStack>> /\ ~Stepping("WAIT")
    BY <1>1, <1>2, <1>17 DEF VMRet, Stepping
  <2>2. Cardinality(Copies(p, vpc)) \in Nat
    BY CopiesAre DEF FewCopies
  <2> QED BY <1>2, <2>1, <2>2 DEF Counted
<1>18. CASE VMIllegal
  BY <1>18 DEF VMIllegal, Stepping, Counted, counters
<1>19. CASE VMNop \/ VMCompute \/ VMLoad \/ VMStore \/ VMCas \/ VMCaa
  <2>1. VMNext /\ UNCHANGED counters /\ ~Stepping("WAIT")
    BY <1>19 DEF VMNop, VMCompute, VMLoad, VMStore, VMCas, VMCaa, Stepping
  <2> QED BY <1>12, <2>1
<1> QED BY <1>13, <1>14, <1>15, <1>16, <1>17, <1>18, <1>19 DEF VMStep

CopyInv == Text(words) /\ (FewCopies(words, MAX_INFLIGHT_PER_TASK) => Counted(words))

LEMMA CopyInit == Init => CopyInv
<1> SUFFICES ASSUME Init PROVE CopyInv
  OBVIOUS
<1>1. Text(words)
  BY TaskInit DEF TaskInv
<1>2. /\ halted = TRUE /\ vpc = 0 /\ loopStack = <<>> /\ inFlight = 0 /\ completions = 0
  BY DEF Init, VMInit
<1>3. Frames(words, <<>>) /\ Before(<<>>, 0)
  BY NothingNested DEF Nested, Before
<1>4. ASSUME FewCopies(words, MAX_INFLIGHT_PER_TASK)
      PROVE  Cardinality(Copies(words, 0)) \in Nat
  BY <1>1, <1>4, CopiesAre DEF FewCopies
<1> QED BY <1>1, <1>2, <1>3, <1>4 DEF CopyInv, Counted

LEMMA CopyStep ==
    ASSUME CopyInv, [Next]_vars, words \in Programs
    PROVE  CopyInv' /\ words' = words
<1>1. CASE Step
  <2>1. VMStep
    BY <1>1 DEF Step
  <2>2. words' = words
    BY <2>1 DEF VMStep, VMNop, VMCompute, VMLoad, VMStore, VMCas, VMCaa, VMJump, VMLoop,
                VMWait, VMMemcpy, VMRet, VMIllegal, VMNext, VMGoTo
  <2>3. PICK p : p = words
    OBVIOUS
  <2>4. ASSUME FewCopies(p, MAX_INFLIGHT_PER_TASK) PROVE Counted(p)'
    BY <2>1, <2>3, <2>4, StepCounted DEF CopyInv
  <2>5. Counted(p)' => Counted(words)'
    BY <2>2, <2>3 DEF Counted
  <2> QED BY <2>2, <2>3, <2>4, <2>5 DEF CopyInv
<1>2. CASE Invoke
  <2>1. /\ words' = words /\ halted' = FALSE /\ vpc' = 0 /\ loopStack' = <<>>
        /\ inFlight' = 0 /\ completions' = 0
    BY <1>2 DEF Invoke, VMReset, VMFresh
  <2>2. Frames(words, <<>>) /\ Before(<<>>, 0)
    BY NothingNested DEF Nested, Before
  <2>3. ASSUME FewCopies(words, MAX_INFLIGHT_PER_TASK)
        PROVE  Cardinality(Copies(words, 0)) \in Nat
    BY <2>3, CopiesAre DEF FewCopies, CopyInv
  <2>4. 0 \in DOMAIN words
    BY OperatorAssumption
  <2> QED BY <2>1, <2>2, <2>3, <2>4 DEF CopyInv, Counted
<1>3. CASE Abort
  BY <1>3 DEF Abort, CopyInv, Counted, counters
<1>4. CASE UNCHANGED vars
  BY <1>4 DEF vars, vmVars, CopyInv, Counted, counters
<1> QED BY <1>1, <1>2, <1>3, <1>4 DEF Next

(***************************************************************************)
(* WAIT n leaves no more than n copies under way, for every program whose  *)
(* copies are outside its loops and no more than the cap.                  *)
(***************************************************************************)
THEOREM WaitsForCopies == Spec => WaitDrains
<1>1. Init => CopyInv /\ words \in Programs
  BY CopyInit DEF Init
<1>2. CopyInv /\ words \in Programs /\ [Next]_vars => CopyInv' /\ (words \in Programs)'
  BY CopyStep
<1>3. CopyInv /\ [Next]_vars =>
        [Stepping("WAIT") /\ vpc' # vpc /\ completions' > Max({0, SignedImm(Head0.imm)})
           => ~FewCopies(words, MAX_INFLIGHT_PER_TASK)]_vars
  <2> SUFFICES ASSUME CopyInv, Next, Stepping("WAIT"), vpc' # vpc,
                      FewCopies(words, MAX_INFLIGHT_PER_TASK)
               PROVE  ~(completions' > Max({0, SignedImm(Head0.imm)}))
    BY DEF vars
  <2>1. VMStep
    BY DEF Next, Invoke, VMReset, Stepping, Step, Abort
  <2>2. /\ completions' <= Max({0, SignedImm(Head0.imm)}) /\ completions' \in Nat
    BY <2>1, StepCounted DEF CopyInv, Counted
  <2>3. Max({0, SignedImm(Head0.imm)}) \in Int
    <3>1. vpc \in DOMAIN words
      BY DEF CopyInv, Counted, Stepping
    <3>2. SignedImm(Head0.imm) \in Int
      BY <3>1, SignedIs DEF CopyInv, Head0
    <3>3. PICK m \in Int : m = SignedImm(Head0.imm)
      BY <3>2
    <3> QED BY <3>3, OfTwo
  <2> QED BY <2>2, <2>3
<1> QED BY <1>1, <1>2, <1>3, PTL DEF Spec, WaitDrains

-----------------------------------------------------------------------------
(***************************************************************************)
(* Intervals: the value of a register lies in what the verifier knows of   *)
(* it, as long as the ends of no interval are wrapped apart.               *)
(***************************************************************************)
LEMMA WordIs ==
    \E e \in Nat \ {0} :
      /\ Word = 0 .. e - 1 /\ 2^WIDTH = e
      /\ \A x \in Int : Wrap(x) = x % e /\ V!Wrap(x) = x % e /\ x % e \in Word
<1>1. PICK e \in Nat \ {0} : e = 2^WIDTH
  BY PowerIs, IsaAssumption
<1>2. \A x \in Int : x % e \in 0 .. e - 1
  OBVIOUS
<1> QED BY <1>1, <1>2 DEF Word, Wrap, V!Wrap

(* An immediate is no more than the word it is extended to.                *)
LEMMA MaskIs ==
    ASSUME NEW w \in Instructions
    PROVE  /\ V!SignedImm(w.imm) = SignedImm(w.imm) /\ SignedImm(w.imm) \in Int
           /\ w.imm \in Nat /\ w.imm <= Wrap(SignedImm(w.imm))
<1>1. PICK e \in Nat \ {0} : /\ 2^WIDTH = e /\ Word = 0 .. e - 1
                              /\ \A x \in Int : Wrap(x) = x % e
  BY WordIs
<1>2. PICK d \in Nat \ {0} : d = 2^IMMW
  BY PowerIs, IsaAssumption
<1>3. d <= e
  <2>1. CASE IMMW = WIDTH
    BY <1>1, <1>2, <2>1
  <2>2. CASE IMMW # WIDTH
    <3>1. IMMW \in Nat /\ WIDTH \in Nat /\ IMMW < WIDTH
      BY <2>2, IsaAssumption
    <3>2. PICK k \in Nat \ {0} : e = 2 * (k * d)
      BY <1>1, <1>2, <3>1, PowerDivides
    <3> QED BY <3>2
  <2> QED BY <2>1, <2>2
<1>4. PICK h : h = 2^(IMMW - 1)
  OBVIOUS
<1>5. h \in Nat
  BY <1>4, PowerIs, IsaAssumption
<1>6. w.imm \in 0 .. d - 1
  BY <1>2 DEF Instructions, ImmField
<1>7. /\ SignedImm(w.imm) = IF w.imm >= h THEN w.imm - d ELSE w.imm
      /\ V!SignedImm(w.imm) = IF w.imm >= h THEN w.imm - d ELSE w.imm
  BY <1>2, <1>4 DEF SignedImm, V!SignedImm
<1>8. PICK i : i = w.imm
  OBVIOUS
<1>9. i \in 0 .. d - 1 /\ i \in Nat /\ i - d \in Int
  BY <1>6, <1>8
<1>10. i % e = i /\ (i - d) % e = i - d + e
  <2>1. i \in 0 .. e - 1 /\ i - d + e \in 0 .. e - 1
    BY <1>3, <1>9
  <2>2. \A x \in 0 .. e - 1 : x % e = x /\ (x - e) % e = x
    OBVIOUS
  <2>3. (i - d + e) - e = i - d
    BY <1>9
  <2>4. (i - d) % e = i - d + e
    <3>1. PICK x \in 0 .. e - 1 : x = i - d + e
      BY <2>1
    <3>2. (x - e) % e = x /\ x - e = i - d
      BY <2>2, <2>3, <3>1
    <3> QED BY <3>1, <3>2
  <2> QED BY <2>1, <2>2, <2>4
<1>11. i <= i - d + e
  BY <1>3, <1>9
<1>12. SignedImm(i) \in Int /\ i <= Wrap(SignedImm(i)) /\ V!SignedImm(i) = SignedImm(i)
  <2>1. CASE i >= h
    <3>1. SignedImm(i) = i - d /\ V!SignedImm(i) = i - d
      BY <1>7, <1>8, <2>1
    <3>2. Wrap(i - d) = (i - d) % e
      BY <1>1, <1>9
    <3> QED BY <1>9, <1>10, <1>11, <3>1, <3>2
  <2>2. CASE ~(i >= h)
    <3>1. SignedImm(i) = i /\ V!SignedImm(i) = i
      BY <1>7, <1>8, <2>2
    <3>2. Wrap(i) = i % e
      <4>1. i \in Int
        BY <1>9
      <4> QED BY <1>1, <4>1, Zenon
    <3>3. Wrap(SignedImm(i)) = i
      BY <1>10, <3>1, <3>2, Zenon
    <3>4. i \in Int /\ i <= i
      BY <1>9
    <3> QED BY <3>1, <3>3, <3>4, Zenon
  <2> QED BY <2>1, <2>2
<1>13. w.imm <= Wrap(SignedImm(w.imm))
  BY <1>8, <1>12, Zenon
<1> QED BY <1>8, <1>9, <1>12, <1>13, Zenon

(* What an ADDI does to an interval that does not wrap apart.              *)
LEMMA Shifted ==
    ASSUME NEW e \in Nat \ {0}, NEW lo \in 0 .. e - 1, NEW hi \in 0 .. e - 1,
           NEW c \in 0 .. e - 1, NEW v \in lo .. hi, (lo + c) % e <= (hi + c) % e
    PROVE  (v + c) % e \in (lo + c) % e .. (hi + c) % e
OBVIOUS

(* a is what the verifier knows of the value v.                            *)
Bounds(a, v) == ~a.opaque => v \in a.lo .. a.hi
InWords(a) == a.lo \in Word /\ a.hi \in Word

LEMMA ComputeIs ==
    ASSUME NEW w \in Instructions, w.sub \notin {"ADD", "SHLI"},
           NEW a, InWords(a), NEW b, NEW v, NEW u,
           NEW c, c = V!AbsCompute(w.sub, a, b, w.imm)
    PROVE  InWords(c) /\ (c.lo <= c.hi /\ Bounds(a, v) => Bounds(c, VmAlu(w.sub, v, u, w.imm)))
<1>1. PICK e \in Nat \ {0} :
        /\ Word = 0 .. e - 1 /\ 2^WIDTH = e
        /\ \A x \in Int : Wrap(x) = x % e /\ V!Wrap(x) = x % e /\ x % e \in Word
  BY WordIs
<1>2. PICK i : i = SignedImm(w.imm)
  OBVIOUS
<1>3. PICK m : m = w.imm
  OBVIOUS
<1>4. V!SignedImm(m) = i /\ i \in Int /\ m \in Nat /\ m <= i % e
  BY <1>1, <1>2, <1>3, MaskIs
<1>5. V!AbsTop = [lo |-> 0, hi |-> e - 1, region |-> "none", opaque |-> TRUE]
  BY <1>1 DEF V!AbsTop, V!NoRegion
<1>6. c = V!AbsTop => InWords(c) /\ Bounds(c, VmAlu(w.sub, v, u, w.imm))
  BY <1>1, <1>5 DEF InWords, Bounds
<1>7. CASE w.sub = "LI"
  <2>1. c = [lo |-> i % e, hi |-> i % e, region |-> "none", opaque |-> FALSE]
    BY <1>1, <1>3, <1>4, <1>7 DEF V!AbsCompute, V!AbsConst, V!Interval, V!NoRegion
  <2>2. VmAlu(w.sub, v, u, w.imm) = i % e
    BY <1>1, <1>2, <1>3, <1>4, <1>7 DEF VmAlu, AluWith
  <2> QED BY <1>1, <1>4, <2>1, <2>2 DEF InWords, Bounds
<1>8. CASE w.sub = "ANDI"
  <2>1. PICK x : x = FromBits(Bits(v) \cap Bits(m))
    OBVIOUS
  <2>2. x \in 0 .. m
    BY <1>4, <2>1, FromBitsBelow
  <2>3. VmAlu(w.sub, v, u, w.imm) = x
    BY <1>3, <1>8, <2>1 DEF VmAlu, AluWith
  <2>4. c = V!AbsAndI(i % e)
    BY <1>1, <1>3, <1>4, <1>8 DEF V!AbsCompute
  <2>5. i % e \in Word
    BY <1>1, <1>4
  <2>6. ~c.opaque /\ c.lo = 0 /\ c.hi = i % e
    <3>1. CASE i % e = 0
      <4>1. V!Wrap(0) = 0
        BY <1>1
      <4> QED BY <2>4, <3>1, <4>1 DEF V!AbsAndI, V!AbsConst, V!Interval
    <3>2. CASE i % e # 0
      BY <2>4, <3>2 DEF V!AbsAndI, V!Interval
    <3> QED BY <3>1, <3>2
  <2> QED BY <1>1, <1>4, <2>2, <2>3, <2>5, <2>6 DEF InWords, Bounds
<1>9. CASE w.sub = "ADDI"
  <2>1. c = V!AbsAdd(a, V!AbsConst(i))
    BY <1>3, <1>4, <1>9 DEF V!AbsCompute
  <2>2. V!AbsConst(i) = [lo |-> i % e, hi |-> i % e, region |-> "none", opaque |-> FALSE]
    BY <1>1, <1>4 DEF V!AbsConst, V!Interval, V!NoRegion
  <2>3. CASE a.opaque
    BY <1>6, <2>1, <2>3 DEF V!AbsAdd
  <2>4. CASE ~a.opaque
    <3>1. PICK k \in 0 .. e - 1 : k = i % e
      BY <1>1, <1>4
    <3>2. PICK lo \in 0 .. e - 1, hi \in 0 .. e - 1 : lo = a.lo /\ hi = a.hi
      BY <1>1 DEF InWords
    <3>3. c.lo = (lo + k) % e /\ c.hi = (hi + k) % e
      <4>1. c.lo = V!Wrap(lo + k) /\ c.hi = V!Wrap(hi + k)
        BY <2>1, <2>2, <2>4, <3>1, <3>2 DEF V!AbsAdd, V!Interval
      <4>2. lo + k \in Int /\ hi + k \in Int
        OBVIOUS
      <4> QED BY <1>1, <4>1, <4>2
    <3>4. VmAlu(w.sub, v, u, w.imm) = Wrap(v + k)
      BY <1>1, <1>2, <1>3, <1>4, <1>9, <3>1 DEF VmAlu, AluWith
    <3>5. Bounds(a, v) => v \in lo .. hi
      BY <2>4, <3>2 DEF Bounds
    <3>6. v \in lo .. hi => Wrap(v + k) = (v + k) % e
      <4>1. v \in lo .. hi => v + k \in Int
        BY <3>1
      <4> QED BY <1>1, <4>1
    <3>7. InWords(c)
      <4>1. lo + k \in Int /\ hi + k \in Int
        OBVIOUS
      <4> QED BY <1>1, <3>3, <4>1 DEF InWords
    <3>8. c.lo <= c.hi /\ v \in lo .. hi => (v + k) % e \in c.lo .. c.hi
      BY <3>3, Shifted
    <3>9. PICK z : z = VmAlu(w.sub, v, u, w.imm)
      OBVIOUS
    <3>10. c.lo <= c.hi /\ Bounds(a, v) => z \in c.lo .. c.hi
      BY <3>4, <3>5, <3>6, <3>8, <3>9
    <3>11. c.lo <= c.hi /\ Bounds(a, v) => Bounds(c, z)
      BY <3>10, Zenon DEF Bounds
    <3> QED BY <3>7, <3>9, <3>11
  <2> QED BY <2>3, <2>4
<1>10. CASE w.sub \notin {"LI", "ANDI", "ADDI"}
  <2>1. c = V!AbsTop
    BY <1>10 DEF V!AbsCompute
  <2> QED BY <1>6, <2>1
<1> QED BY <1>7, <1>8, <1>9, <1>10

(* What the verifier knows of the registers is made of words.               *)
AllWords(abs) == DOMAIN abs = Regs /\ \A r \in Regs : InWords(abs[r])
AllBounds(abs, regs) == DOMAIN regs = Regs /\ \A r \in Regs : Bounds(abs[r], regs[r])
Plain(w) == /\ w \in Instructions /\ w.op \notin {"JUMP", "LOOP"}
            /\ w.op = "COMPUTE" => w.sub \notin {"ADD", "SHLI"}
            /\ w.op = "MEMCPY" => w.rd = 0

LEMMA FreshIs == AllWords(V!Fresh(Manifest).abs)
<1>1. PICK e \in Nat \ {0} :
        /\ Word = 0 .. e - 1 /\ 2^WIDTH = e
        /\ \A x \in Int : Wrap(x) = x % e /\ V!Wrap(x) = x % e /\ x % e \in Word
  BY WordIs
<1>2. V!AbsTop.lo = 0 /\ V!AbsTop.hi = e - 1
  <2>1. V!AbsTop.lo = 0 /\ V!AbsTop.hi = 2^WIDTH - 1
    BY DEF V!AbsTop
  <2> QED BY <1>1, <2>1
<1>3. V!AbsConst(0).lo \in Word /\ V!AbsConst(0).hi \in Word
  <2>1. V!Wrap(0) \in Word
    <3>1. PICK z \in Int : z = 0
      OBVIOUS
    <3>2. V!Wrap(z) = z % e /\ z % e \in Word
      BY <1>1
    <3> QED BY <3>1, <3>2
  <2> QED BY <2>1 DEF V!AbsConst, V!Interval
<1>4. V!Fresh(Manifest).abs =
        [r \in Regs |-> IF r \in DOMAIN Manifest.arguments THEN Manifest.arguments[r]
                        ELSE IF r = 0 THEN V!AbsConst(0) ELSE V!AbsTop]
  BY DEF V!Fresh, V!Regs, Regs
<1>5. InWords(V!AbsTop) /\ InWords(V!AbsConst(0))
  BY <1>1, <1>2, <1>3 DEF InWords
<1>6. \A r \in DOMAIN Manifest.arguments : InWords(Manifest.arguments[r])
  BY OperatorAssumption DEF InWords
<1> QED BY <1>4, <1>5, <1>6 DEF AllWords

LEMMA AfterWords ==
    ASSUME NEW w, Plain(w), NEW s, AllWords(s.abs)
    PROVE  AllWords(V!AbsAfter(s, w))
<1>1. w \in Instructions /\ w.rd \in Regs /\ w.rs1 \in Regs
  BY DEF Plain, Instructions
<1>2. ASSUME NEW c, InWords(c) PROVE AllWords([s.abs EXCEPT ![w.rd] = c])
  BY <1>1, <1>2 DEF AllWords
<1>3. InWords(V!AbsTop)
  <2>1. V!AbsTop.lo = 0 /\ V!AbsTop.hi = 2^WIDTH - 1
    BY DEF V!AbsTop
  <2>2. PICK e \in Nat \ {0} : Word = 0 .. e - 1 /\ 2^WIDTH = e
    BY WordIs
  <2> QED BY <2>1, <2>2 DEF InWords
<1>4. w.op = "COMPUTE" =>
        InWords(V!AbsCompute(w.sub, s.abs[w.rs1], s.abs[w.rs2], w.imm))
  <2>1. InWords(s.abs[w.rs1])
    BY <1>1 DEF AllWords
  <2> QED BY <1>1, <2>1, ComputeIs DEF Plain
<1> QED BY <1>2, <1>3, <1>4 DEF V!AbsAfter

(* The registers after an instruction, f being those before it.             *)
Written(w, f, g) ==
    CASE w.op \in {"LOAD", "CAS", "CAA"} -> g = f \/ \E x : g = [f EXCEPT ![w.rd] = x]
      [] w.op = "COMPUTE" /\ w.rd # 0 ->
           g = [f EXCEPT ![w.rd] = VmAlu(w.sub, f[w.rs1], f[w.rs2], w.imm)]
      [] OTHER -> g = f

LEMMA AfterIs ==
    ASSUME NEW w, Plain(w), NEW s, AllWords(s.abs),
           NEW f, AllBounds(s.abs, f), NEW g, Written(w, f, g),
           NEW t, t = V!AbsAfter(s, w), \A r \in Regs : t[r].lo <= t[r].hi
    PROVE  AllBounds(t, g)
<1>1. w \in Instructions /\ w.rd \in Regs /\ w.rs1 \in Regs /\ DOMAIN t = Regs
  BY AfterWords DEF Plain, Instructions, AllWords
<1>2. CASE w.op \in {"LOAD", "CAS", "CAA"}
  <2>1. t = [s.abs EXCEPT ![w.rd] = V!AbsTop]
    BY <1>2 DEF V!AbsAfter
  <2>2. V!AbsTop.opaque = TRUE
    BY DEF V!AbsTop
  <2>3. DOMAIN g = Regs /\ \A r \in Regs : r # w.rd => g[r] = f[r]
    BY <1>2 DEF AllBounds, Written
  <2>4. ASSUME NEW r \in Regs PROVE Bounds(t[r], g[r])
    <3>1. CASE r = w.rd
      BY <2>1, <2>2, <3>1 DEF AllWords, Bounds
    <3>2. CASE r # w.rd
      <4>1. t[r] = s.abs[r] /\ g[r] = f[r]
        BY <2>1, <2>3, <3>2 DEF AllWords
      <4> QED BY <4>1 DEF AllBounds
    <3> QED BY <3>1, <3>2
  <2> QED BY <2>3, <2>4 DEF AllBounds
<1>3. CASE w.op = "COMPUTE" /\ w.rd # 0
  <2>1. PICK a : a = s.abs[w.rs1]
    OBVIOUS
  <2>2. PICK b : b = s.abs[w.rs2]
    OBVIOUS
  <2>3. PICK c : c = V!AbsCompute(w.sub, a, b, w.imm)
    OBVIOUS
  <2>4. PICK v : v = f[w.rs1]
    OBVIOUS
  <2>5. PICK u : u = f[w.rs2]
    OBVIOUS
  <2>6. PICK x : x = VmAlu(w.sub, v, u, w.imm)
    OBVIOUS
  <2>7. t = [s.abs EXCEPT ![w.rd] = c]
    BY <1>3, <2>1, <2>2, <2>3 DEF V!AbsAfter
  <2>8. g = [f EXCEPT ![w.rd] = x]
    BY <1>3, <2>4, <2>5, <2>6 DEF Written
  <2>9. InWords(a) /\ Bounds(a, v)
    BY <1>1, <2>1, <2>4 DEF AllWords, AllBounds
  <2>10. c.lo <= c.hi => Bounds(c, x)
    BY <1>1, <1>3, <2>3, <2>6, <2>9, ComputeIs DEF Plain
  <2>11. DOMAIN g = Regs
    BY <2>8 DEF AllBounds
  <2>12. ASSUME NEW r \in Regs PROVE Bounds(t[r], g[r])
    <3>1. CASE r = w.rd
      <4>1. t[r] = c /\ g[r] = x
        BY <2>7, <2>8, <3>1 DEF AllWords, AllBounds
      <4> QED BY <2>10, <4>1
    <3>2. CASE r # w.rd
      <4>1. t[r] = s.abs[r] /\ g[r] = f[r]
        BY <2>7, <2>8, <3>2 DEF AllWords, AllBounds
      <4> QED BY <4>1 DEF AllBounds
    <3> QED BY <3>1, <3>2
  <2> QED BY <2>11, <2>12 DEF AllBounds
<1>4. CASE w.op \notin {"LOAD", "CAS", "CAA"} /\ ~(w.op = "COMPUTE" /\ w.rd # 0)
  <2>1. t = s.abs /\ g = f
    BY <1>4 DEF V!AbsAfter, Written
  <2> QED BY <2>1
<1> QED BY <1>2, <1>3, <1>4

(* The pass over a straight program.                                        *)
LEMMA PlainIs ==
    ASSUME NEW p, Text(p), StraightAccesses(p), NEW a \in DOMAIN p
    PROVE  Plain(p[a])
<1>1. p[a] \in Instructions
  BY SizeIs
<1> QED BY <1>1 DEF StraightAccesses, Those, Loops, Plain

Abs(p, n) == V!States(p, Manifest)[n].abs

LEMMA PassKnows ==
    ASSUME NEW p, Text(p), V!Accepts(p, Manifest), StraightAccesses(p)
    PROVE  \A n \in 0 .. V!Size(p) : AllWords(Abs(p, n))
<1>1. PICK N : N = V!Size(p)
  OBVIOUS
<1>2. PICK st : st = V!States(p, Manifest)
  OBVIOUS
<1>3. N \in Nat /\ DOMAIN p = 0 .. N - 1
  BY <1>1, SizeIs
<1>4. /\ st[0] = V!Fresh(Manifest)
      /\ \A n \in 0 .. N - 1 : V!Starts(p)[n] => Visited(p, Manifest, st[n], n, st[n + 1])
      /\ \A n \in 0 .. N - 1 : ~V!Starts(p)[n] => st[n + 1] = st[n]
  BY <1>1, <1>2, Through
<1> DEFINE S == {n \in 0 .. N : AllWords(st[n].abs)}
<1>5. 0 \in S
  BY <1>3, <1>4, FreshIs
<1>6. ASSUME NEW n \in 0 .. N - 1, n \in S PROVE n + 1 \in S
  <2>1. AllWords(st[n].abs) /\ n + 1 \in 0 .. N /\ n \in DOMAIN p
    BY <1>3, <1>6
  <2>2. CASE V!Starts(p)[n]
    <3>1. st[n + 1].abs = V!AbsAfter(st[n], p[n])
      BY <1>4, <2>2 DEF Visited
    <3>2. AllWords(V!AbsAfter(st[n], p[n]))
      BY <2>1, PlainIs, AfterWords
    <3> QED BY <2>1, <3>1, <3>2
  <2>3. CASE ~V!Starts(p)[n]
    BY <1>4, <2>1, <2>3
  <2> QED BY <2>2, <2>3
<1>7. \A n \in 0 .. N : n \in S
  <2> HIDE DEF S
  <2> QED BY <1>3, <1>5, <1>6, Inductive
<1> QED BY <1>1, <1>2, <1>7 DEF Abs

(***************************************************************************)
(* A task of a straight program: every register within what the verifier   *)
(* knew of it there.                                                       *)
(***************************************************************************)
Held(p) ==
    ~halted => /\ loopStack = <<>> /\ vpc \in DOMAIN p /\ V!Starts(p)[vpc]
               /\ AllBounds(Abs(p, vpc), vregs)
Apart(p) == \E n \in 0 .. V!Size(p), r \in Regs : Abs(p, n)[r].lo > Abs(p, n)[r].hi

LEMMA NotApart ==
    ASSUME NEW p, Text(p), V!Accepts(p, Manifest), StraightAccesses(p), ~Apart(p),
           NEW n \in 0 .. V!Size(p), NEW r \in Regs
    PROVE  Abs(p, n)[r].lo <= Abs(p, n)[r].hi
<1>1. AllWords(Abs(p, n))
  BY PassKnows
<1>2. PICK e \in Nat \ {0} : Word = 0 .. e - 1
  BY WordIs
<1>3. Abs(p, n)[r].lo \in 0 .. e - 1 /\ Abs(p, n)[r].hi \in 0 .. e - 1
  BY <1>1, <1>2 DEF AllWords, InWords
<1>4. ~(Abs(p, n)[r].lo > Abs(p, n)[r].hi)
  BY DEF Apart
<1> QED BY <1>3, <1>4

LEMMA StepHeld ==
    ASSUME NEW p, words = p, Text(p), V!Accepts(p, Manifest), StraightAccesses(p), ~Apart(p),
           Held(p), VMStep
    PROVE  Held(p)'
<1>1. PICK N : N = V!Size(p)
  OBVIOUS
<1>2. N \in Nat /\ DOMAIN p = 0 .. N - 1 /\ Len0 = N
  BY <1>1, SizeIs DEF Len0, V!Size, V!Cardinality, Cardinality
<1>3. ~halted
  BY DEF VMStep, VMNop, VMCompute, VMLoad, VMStore, VMCas, VMCaa, VMJump, VMLoop, VMWait,
         VMMemcpy, VMRet, VMIllegal, Stepping
<1>4. PICK a : a = vpc
  OBVIOUS
<1>5. PICK w : w = p[a]
  OBVIOUS
<1>6. PICK f : f = vregs
  OBVIOUS
<1>7. PICK g : g = vregs'
  OBVIOUS
<1>8. /\ a \in 0 .. N - 1 /\ V!Starts(p)[a] /\ loopStack = <<>> /\ Head0 = w
      /\ AllBounds(Abs(p, a), f)
  BY <1>2, <1>3, <1>4, <1>5, <1>6 DEF Held, Head0
<1>9. Plain(w) /\ w.op \in Ops
  BY <1>2, <1>5, <1>8, PlainIs DEF Plain, Instructions
<1>10. CASE VMRet \/ VMIllegal
  BY <1>10 DEF VMRet, VMIllegal, Held
<1>11. CASE VMNext /\ Written(w, f, g)
  <2>1. PICK np : np = a + (IF IsTwoWord(w) THEN 2 ELSE 1)
    OBVIOUS
  <2>2. VMGoTo(np, <<>>)
    BY <1>4, <1>8, <1>11, <2>1 DEF VMNext
  <2>3. loopStack' = <<>> /\ vpc' = np
    <3>1. Frames(p, <<>>)
      BY NothingNested DEF Nested
    <3>2. PICK k \in 0 .. Len(<<>>) :
             /\ Frames(p, loopStack') /\ Kept(loopStack', <<>>, k)
             /\ \/ k > 0 /\ <<>>[k].end = np /\ vpc' = <<>>[k].start
                \/ (k > 0 => <<>>[k].end # np) /\ vpc' = np
      BY <2>2, <3>1, GoToIs
    <3>3. k = 0 /\ Len(loopStack') = 0 /\ vpc' = np
      BY <3>2 DEF Kept
    <3>4. PICK X : loopStack' \in Seq(X)
      BY <3>2 DEF Frames
    <3> QED BY <3>3, <3>4
  <2>4. ~halted' => ~(np >= N)
    BY <1>2, <2>2, <2>3 DEF VMGoTo
  <2>5. ASSUME np < N
        PROVE  V!Starts(p)[np] /\ Abs(p, np) = V!AbsAfter(V!States(p, Manifest)[a], w)
    <3>1. PICK st : st = V!States(p, Manifest)
      OBVIOUS
    <3>2. /\ \A n \in 0 .. N - 1 : V!Starts(p)[n] => Visited(p, Manifest, st[n], n, st[n + 1])
          /\ \A n \in 0 .. N - 1 : ~V!Starts(p)[n] => st[n + 1] = st[n]
      BY <1>1, <3>1, Through
    <3>3. st[a + 1].abs = V!AbsAfter(st[a], w)
      BY <1>5, <1>8, <3>2 DEF Visited
    <3>4. \A n \in 1 .. N : V!Starts(p)[n] <=> ~(V!Starts(p)[n - 1] /\ V!IsTwoWord(p[n - 1]))
      <4>1. V!Starts(p) = [n \in 0 .. N |->
                             n = 0 \/ ~(V!Starts(p)[n - 1] /\ V!IsTwoWord(p[n - 1]))]
        BY <1>1, <1>2, StartsIs
      <4>2. ASSUME NEW n \in 1 .. N
            PROVE  V!Starts(p)[n] <=> ~(V!Starts(p)[n - 1] /\ V!IsTwoWord(p[n - 1]))
        <5>1. n \in 0 .. N /\ n # 0
          BY <1>2
        <5> QED BY <4>1, <5>1, Zenon
      <4> QED BY <4>2
    <3>5. V!IsTwoWord(w) <=> IsTwoWord(w)
      BY DEF V!IsTwoWord, IsTwoWord, V!TwoWordOps, TwoWordOps
    <3>6. a + 1 \in 1 .. N /\ (a + 1) - 1 = a
      BY <1>2, <1>8
    <3>7. CASE IsTwoWord(w)
      <4>1. np = a + 2 /\ a + 1 \in 0 .. N - 1 /\ a + 2 \in 1 .. N
            /\ (a + 2) - 1 = a + 1 /\ (a + 1) + 1 = a + 2
        <5>1. np = a + 2
          BY <2>1, <3>7
        <5>2. a + 2 < N
          BY <2>5, <5>1
        <5> QED BY <1>2, <1>8, <5>1, <5>2
      <4>2. ~V!Starts(p)[a + 1]
        BY <1>5, <1>8, <3>4, <3>5, <3>6, <3>7
      <4>3. V!Starts(p)[a + 2]
        BY <3>4, <4>1, <4>2
      <4>4. st[a + 2] = st[a + 1]
        BY <3>2, <4>1, <4>2
      <4> QED BY <3>1, <3>3, <4>1, <4>3, <4>4 DEF Abs
    <3>8. CASE ~IsTwoWord(w)
      <4>1. np = a + 1
        BY <2>1, <3>8
      <4>2. V!Starts(p)[a + 1]
        BY <1>5, <3>4, <3>5, <3>6, <3>8
      <4> QED BY <3>1, <3>3, <4>1, <4>2 DEF Abs
    <3> QED BY <3>7, <3>8
  <2>6. ASSUME np < N PROVE AllBounds(Abs(p, np), g)
    <3>1. np \in 0 .. V!Size(p) /\ a \in 0 .. V!Size(p)
      BY <1>1, <1>2, <1>8, <2>1, <2>6
    <3>2. \A r \in Regs : Abs(p, np)[r].lo <= Abs(p, np)[r].hi
      BY <3>1, NotApart
    <3>3. PICK s : s = V!States(p, Manifest)[a]
      OBVIOUS
    <3>4. AllWords(s.abs) /\ AllBounds(s.abs, f)
      BY <1>8, <3>1, <3>3, PassKnows DEF Abs
    <3>5. Abs(p, np) = V!AbsAfter(s, w)
      BY <2>5, <2>6, <3>3
    <3> QED BY <1>9, <1>11, <3>2, <3>4, <3>5, AfterIs
  <2>7. np \in Nat
    BY <1>8, <2>1
  <2>8. ~halted' => np < N /\ np \in DOMAIN p
    BY <1>2, <2>4, <2>7
  <2>9. ~halted' => V!Starts(p)[vpc'] /\ AllBounds(Abs(p, vpc'), vregs')
    BY <1>7, <2>3, <2>5, <2>6, <2>8
  <2> QED BY <2>3, <2>8, <2>9 DEF Held
<1>12. CASE VMNop \/ VMStore \/ VMWait
  <2>1. VMNext /\ g = f /\ w.op \in {"NOP", "STORE", "WAIT"}
    BY <1>6, <1>7, <1>8, <1>12 DEF VMNop, VMStore, VMWait, Stepping
  <2> QED BY <1>11, <2>1 DEF Written
<1>13. CASE VMLoad \/ VMCas \/ VMCaa
  <2>1. VMNext /\ w.op \in {"LOAD", "CAS", "CAA"} /\ \E x : VMSet(w.rd, x)
    BY <1>8, <1>13 DEF VMLoad, VMCas, VMCaa, Stepping
  <2>2. g = f \/ \E x : g = [f EXCEPT ![w.rd] = x]
    BY <1>6, <1>7, <2>1 DEF VMSet
  <2> QED BY <1>11, <2>1, <2>2 DEF Written
<1>14. CASE VMCompute
  <2>1. VMNext /\ w.op = "COMPUTE"
        /\ VMSet(w.rd, VmAlu(w.sub, f[w.rs1], f[w.rs2], w.imm))
    BY <1>6, <1>8, <1>14 DEF VMCompute, Stepping, R
  <2>2. g = IF w.rd = 0 THEN f
            ELSE [f EXCEPT ![w.rd] = VmAlu(w.sub, f[w.rs1], f[w.rs2], w.imm)]
    BY <1>6, <1>7, <2>1 DEF VMSet
  <2> QED BY <1>11, <2>1, <2>2 DEF Written
<1>15. CASE VMMemcpy
  <2>1. VMNext /\ w.op = "MEMCPY" /\ VMSet(w.rd, 0)
    BY <1>8, <1>15 DEF VMMemcpy, Stepping
  <2>2. g = f
    BY <1>6, <1>7, <1>9, <2>1 DEF VMSet, Plain
  <2> QED BY <1>11, <2>1, <2>2 DEF Written
<1>16. CASE VMJump \/ VMLoop
  BY <1>8, <1>9, <1>16 DEF VMJump, VMLoop, Stepping, Plain
<1> QED BY <1>10, <1>12, <1>13, <1>14, <1>15, <1>16 DEF VMStep

(* What an instruction touches, where the registers are within what the    *)
(* verifier knew.                                                          *)
LEMMA TouchedIs ==
    ASSUME NEW p, words = p, Text(p), V!Accepts(p, Manifest), StraightAccesses(p),
           Held(p), ~halted
    PROVE  Declared(LAMBDA r : r.size)
<1>1. PICK N : N = V!Size(p)
  OBVIOUS
<1>2. N \in Nat /\ DOMAIN p = 0 .. N - 1
  BY <1>1, SizeIs
<1>3. PICK a : a = vpc
  OBVIOUS
<1>4. PICK w : w = p[a]
  OBVIOUS
<1>5. PICK s : s = V!States(p, Manifest)[a]
  OBVIOUS
<1>6. /\ a \in 0 .. N - 1 /\ a \in DOMAIN p /\ Head0 = w
      /\ AllBounds(s.abs, vregs) /\ V!Starts(p)[a]
  BY <1>2, <1>3, <1>4, <1>5 DEF Held, Head0, Abs
<1>7. w \in Instructions /\ w.rs1 \in Regs /\ w.rs2 \in Regs
  BY <1>4, <1>6, SizeIs DEF Instructions
<1>8. V!InstructionOK(p, Manifest, Live(s, a), a, w) /\ DOMAIN s = StateFields
  <2>1. \A n \in 0 .. N - 1 : V!Starts(p)[n] =>
          Visited(p, Manifest, V!States(p, Manifest)[n], n, V!States(p, Manifest)[n + 1])
    BY <1>1, Through
  <2>2. \A n \in 0 .. N : V!States(p, Manifest)[n].ok
                            /\ DOMAIN V!States(p, Manifest)[n] = StateFields
    BY <1>1, Through
  <2>3. a + 1 \in 0 .. N /\ a \in 0 .. N
    BY <1>2, <1>6
  <2> QED BY <1>4, <1>5, <1>6, <2>1, <2>2, <2>3 DEF Visited
<1>9. Live(s, a).abs = s.abs
  BY <1>8 DEF Live, StateFields
<1>10. AllWords(s.abs)
  <2>1. a \in 0 .. V!Size(p)
    BY <1>1, <1>2, <1>6
  <2> QED BY <1>5, <2>1, PassKnows DEF Abs
(* An address the verifier let pass.                                        *)
<1>11. ASSUME NEW q \in Regs, V!AddrOK(s.abs[q], Manifest.regions)
       PROVE  /\ R(q) \in Word
              /\ \E r \in Manifest.regions : R(q) - r.base \in 0 .. r.size
  <2>1. PICK e \in Nat \ {0} : Word = 0 .. e - 1
    BY WordIs
  <2>2. PICK lo \in 0 .. e - 1, hi \in 0 .. e - 1 : lo = s.abs[q].lo /\ hi = s.abs[q].hi
    BY <1>10, <2>1 DEF AllWords, InWords
  <2>3. R(q) \in lo .. hi
    BY <1>6, <1>11, <2>2 DEF V!AddrOK, AllBounds, Bounds, R
  <2>4. PICK r \in Manifest.regions : lo >= r.base /\ hi <= r.base + r.size
    BY <1>11, <2>2 DEF V!AddrOK, V!InRegion
  <2>5. r.base \in Nat /\ r.size \in Nat
    BY OperatorAssumption
  <2>6. R(q) - r.base \in 0 .. r.size
    BY <2>3, <2>4, <2>5
  <2> QED BY <2>1, <2>3, <2>6
<1>12. ASSUME w.op \in {"LOAD", "STORE"} PROVE MemAddr = R(w.rs1) /\ w.rs1 \in Regs
  <2>1. w.imm = 0
    BY <1>4, <1>6, <1>12 DEF StraightAccesses, Those
  <2>2. SignedImm(w.imm) = 0
    <3>1. PICK h : h = 2^(IMMW - 1)
      OBVIOUS
    <3>2. h \in Nat \ {0}
      BY <3>1, PowerIs, IsaAssumption
    <3>3. SignedImm(0) = IF 0 >= h THEN 0 - 2^IMMW ELSE 0
      BY <3>1 DEF SignedImm
    <3> QED BY <2>1, <3>2, <3>3
  <2>3. R(w.rs1) \in Word
    BY <1>7, <1>8, <1>9, <1>11, <1>12 DEF V!InstructionOK
  <2>4. PICK e \in Nat \ {0} : Word = 0 .. e - 1 /\ \A x \in Int : Wrap(x) = x % e
    BY WordIs
  <2>5. PICK v \in 0 .. e - 1 : v = R(w.rs1)
    BY <2>3, <2>4
  <2>6. MemAddr = Wrap(v + 0) /\ v + 0 = v /\ v \in Int /\ v % e = v
    BY <1>6, <2>2, <2>5 DEF MemAddr
  <2> QED BY <1>7, <2>4, <2>5, <2>6
<1>13. \A t \in Touched : \E q \in Regs : t = R(q) /\ V!AddrOK(s.abs[q], Manifest.regions)
  <2>1. CASE w.op \in {"LOAD", "STORE"}
    <3>1. Touched = {R(w.rs1)}
      BY <1>6, <1>12, <2>1 DEF Touched
    <3>2. V!AddrOK(s.abs[w.rs1], Manifest.regions)
      BY <1>8, <1>9, <2>1 DEF V!InstructionOK
    <3> QED BY <1>7, <3>1, <3>2
  <2>2. CASE w.op \in {"CAS", "CAA"}
    <3>1. Touched = {R(w.rs1)}
      BY <1>6, <2>2 DEF Touched
    <3>2. V!AddrOK(s.abs[w.rs1], Manifest.regions)
      BY <1>8, <1>9, <2>2 DEF V!InstructionOK
    <3> QED BY <1>7, <3>1, <3>2
  <2>3. CASE w.op = "MEMCPY"
    <3>1. Touched = {R(w.rs1), R(w.rs2)}
      BY <1>6, <2>3 DEF Touched
    <3>2. /\ V!AddrOK(s.abs[w.rs1], Manifest.regions)
          /\ V!AddrOK(s.abs[w.rs2], Manifest.regions)
      BY <1>8, <1>9, <2>3 DEF V!InstructionOK
    <3> QED BY <1>7, <3>1, <3>2
  <2>4. CASE w.op \notin {"LOAD", "STORE", "CAS", "CAA", "MEMCPY"}
    BY <1>6, <2>4 DEF Touched
  <2> QED BY <2>1, <2>2, <2>3, <2>4
<1>14. \A t \in Touched : \E r \in Manifest.regions : t - r.base \in 0 .. r.size
  BY <1>11, <1>13
<1> QED BY <1>14 DEF Declared

HeldInv ==
    /\ Text(words) /\ (accepted => V!Accepts(words, Manifest))
    /\ accepted /\ StraightAccesses(words) /\ ~Apart(words) => Held(words)

LEMMA HeldStep ==
    ASSUME HeldInv, [Next]_vars
    PROVE  HeldInv'
<1>1. PICK p : p = words
  OBVIOUS
<1>2. CASE Step
  <2>1. VMStep /\ accepted' = accepted
    BY <1>2 DEF Step
  <2>2. words' = words
    BY <2>1 DEF VMStep, VMNop, VMCompute, VMLoad, VMStore, VMCas, VMCaa, VMJump, VMLoop,
                VMWait, VMMemcpy, VMRet, VMIllegal, VMNext, VMGoTo
  <2>3. accepted /\ StraightAccesses(p) /\ ~Apart(p) => Held(p)'
    BY <1>1, <2>1, StepHeld DEF HeldInv
  <2>4. Held(p)' <=> Held(words)'
    BY <1>1, <2>2 DEF Held
  <2> QED BY <1>1, <2>1, <2>2, <2>3, <2>4 DEF HeldInv
<1>3. CASE Invoke
  <2>1. /\ words' = words /\ accepted' = accepted /\ vpc' = 0 /\ loopStack' = <<>>
        /\ \E args \in ArgSets :
             vregs' = [r \in Regs |-> IF r \in 1 .. NUM_ARGS THEN args[r] ELSE 0]
    BY <1>3 DEF Invoke, VMReset, VMFresh
  <2>2. ASSUME accepted, StraightAccesses(p) PROVE Held(p)'
    <3>1. Text(p) /\ V!Accepts(p, Manifest)
      BY <1>1, <2>2 DEF HeldInv
    <3>2. 0 \in DOMAIN p /\ V!Starts(p)[0]
      <4>1. \E a \in DOMAIN p : V!Starts(p)[a] /\ p[a].op = "RET"
        BY <3>1, AcceptedIsVerified DEF Verified
      <4>2. V!Size(p) \in Nat /\ DOMAIN p = 0 .. V!Size(p) - 1
        BY <3>1, SizeIs
      <4>3. 0 \in DOMAIN p /\ 0 \in 0 .. V!Size(p)
        BY <4>1, <4>2
      <4> QED BY <4>2, <4>3, StartsIs
    <3>3. Abs(p, 0) = V!Fresh(Manifest).abs
      BY <3>1, Through DEF Abs
    <3>4. PICK args \in ArgSets :
            vregs' = [r \in Regs |-> IF r \in 1 .. NUM_ARGS THEN args[r] ELSE 0]
      BY <2>1
    <3>5. V!Fresh(Manifest).abs =
            [r \in Regs |-> IF r \in DOMAIN Manifest.arguments THEN Manifest.arguments[r]
                            ELSE IF r = 0 THEN V!AbsConst(0) ELSE V!AbsTop]
      BY DEF V!Fresh, V!Regs, Regs
    <3>6. ASSUME NEW r \in Regs PROVE Bounds(V!Fresh(Manifest).abs[r], vregs'[r])
      <4>1. CASE r \in DOMAIN Manifest.arguments
        <5>1. r \in 1 .. NUM_ARGS /\ args[r] \in Manifest.arguments[r].lo .. Manifest.arguments[r].hi
          BY <4>1, OperatorAssumption
        <5> QED BY <3>4, <3>5, <4>1, <5>1 DEF Bounds
      <4>2. CASE r \notin DOMAIN Manifest.arguments /\ r # 0
        <5>1. V!AbsTop.opaque = TRUE
          BY DEF V!AbsTop
        <5> QED BY <3>5, <4>2, <5>1 DEF Bounds
      <4>3. CASE r \notin DOMAIN Manifest.arguments /\ r = 0
        <5>1. PICK z \in Int : z = 0
          OBVIOUS
        <5>2. PICK e \in Nat \ {0} : \A x \in Int : V!Wrap(x) = x % e
          BY WordIs
        <5>3. V!Wrap(z) = z
          BY <5>1, <5>2
        <5>4. V!AbsConst(z).lo = z /\ V!AbsConst(z).hi = z
          BY <5>3 DEF V!AbsConst, V!Interval
        <5>5. vregs'[r] = z
          BY <3>4, <4>3, <5>1
        <5>6. z \in z .. z
          OBVIOUS
        <5> QED BY <3>5, <4>3, <5>1, <5>4, <5>5, <5>6 DEF Bounds
      <4> QED BY <4>1, <4>2, <4>3
    <3>7. AllBounds(Abs(p, 0), vregs')
      BY <3>3, <3>4, <3>6 DEF AllBounds
    <3> QED BY <2>1, <3>2, <3>7 DEF Held
  <2>3. Held(p)' <=> Held(words)'
    BY <1>1, <2>1 DEF Held
  <2> QED BY <1>1, <2>1, <2>2, <2>3 DEF HeldInv
<1>4. CASE Abort
  <2>1. halted' = TRUE /\ words' = words /\ accepted' = accepted
    BY <1>4 DEF Abort
  <2> QED BY <2>1 DEF HeldInv, Held
<1>5. CASE UNCHANGED vars
  <2>1. UNCHANGED <<words, accepted, halted, loopStack, vpc, vregs>>
    BY <1>5 DEF vars, vmVars
  <2> QED BY <2>1 DEF HeldInv, Held
<1> QED BY <1>2, <1>3, <1>4, <1>5 DEF Next

(***************************************************************************)
(* Straight code with plain addresses stays in the declared regions, or    *)
(* touches the address one past the end of one.                            *)
(***************************************************************************)
THEOREM StaysDeclared == Spec => []StraightAccessesDeclared
<1>1. Init => HeldInv
  BY TaskInit DEF Init, VMInit, HeldInv, TaskInv, Held
<1>2. HeldInv /\ [Next]_vars => HeldInv'
  BY HeldStep
<1>3. HeldInv => StraightAccessesDeclared
  <2> SUFFICES ASSUME HeldInv, accepted, ~halted, StraightAccesses(words), ~Wrapped
               PROVE  Declared(LAMBDA r : r.size)
    BY DEF StraightAccessesDeclared
  <2>1. PICK p : p = words
    OBVIOUS
  <2>2. Text(p) /\ V!Accepts(p, Manifest) /\ StraightAccesses(p)
    BY <2>1 DEF HeldInv
  <2>3. ~Apart(p)
    <3>1. DOMAIN V!States(p, Manifest) = 0 .. V!Size(p)
      <4>1. V!Size(p) \in Nat
        BY <2>2, SizeIs
      <4> QED BY <4>1, StatesIs
    <3> QED BY <2>1, <3>1 DEF Wrapped, Apart, Abs
  <2>4. Held(p)
    BY <2>1, <2>3 DEF HeldInv
  <2> QED BY <2>1, <2>2, <2>4, TouchedIs
<1> QED BY <1>1, <1>2, <1>3, PTL DEF Spec

=============================================================================

--------------------- MODULE TiaraOperatorSteps_proofs ----------------------
(***************************************************************************)
(* How long a task of an accepted operator takes: never more steps than    *)
(* the verifier computed for its text, for every program, manifest,        *)
(* argument and width.                                                     *)
(*                                                                         *)
(* The verifier counts an instruction once for every round of the loops    *)
(* around it (Price); what it has counted before a word is the word's      *)
(* place (Places).  A task may branch out of loops, which leaves frames    *)
(* behind, and loops may cross, so the proof keeps an account for each     *)
(* frame of the loop stack: the time since the loop's present round began  *)
(* is paid for by the finished rounds and the way the task has come.       *)
(***************************************************************************)
EXTENDS TiaraOperator_proofs

(***************************************************************************)
(* Products.  The product of a sequence of frames, by its recurrence.      *)
(***************************************************************************)
FrameSet == [end : Int, iters : Nat \ {0}]

LEMMA Times ==
    ASSUME NEW a \in Nat, NEW b \in Nat \ {0}
    PROVE  a * b \in Nat /\ a <= a * b
<1>1. PICK e \in Nat : b = e + 1
  <2>1. b - 1 \in Nat /\ b = (b - 1) + 1
    OBVIOUS
  <2> QED BY <2>1
<1>2. a * b = a * e + a /\ a * e \in Nat
  BY <1>1
<1> QED BY <1>2

(* What a loop takes in all its rounds, in the units around it.             *)
LEMMA Scale ==
    ASSUME NEW v \in Nat, NEW w \in Nat, NEW n \in Nat \ {0}, NEW x \in Nat, NEW y \in Int,
           n * v <= w, w * x <= n * y
    PROVE  v * x <= y
<1>1. (n * v) * x <= w * x
  <2>1. PICK d \in Nat : w = n * v + d
    <3>1. n * v \in Int
      OBVIOUS
    <3>2. w - n * v \in Nat /\ w = n * v + (w - n * v)
      BY <3>1
    <3> QED BY <3>2
  <2>2. w * x = (n * v) * x + d * x /\ d * x \in Nat
    BY <2>1
  <2>3. (n * v) * x \in Int
    OBVIOUS
  <2> QED BY <2>2, <2>3
<1>2. n * (v * x) <= n * y
  <2>1. (n * v) * x = n * (v * x)
    OBVIOUS
  <2>2. (n * v) * x \in Int /\ w * x \in Int /\ n * y \in Int
    OBVIOUS
  <2> QED BY <1>1, <2>1, <2>2
<1>3. ASSUME ~(v * x <= y) PROVE FALSE
  <2>1. PICK z \in Int : z = v * x
    OBVIOUS
  <2>2. y + 1 <= z
    BY <1>3, <2>1
  <2>3. PICK d \in Nat : z = y + 1 + d
    <3>1. z - y - 1 \in Nat /\ z = y + 1 + (z - y - 1)
      BY <2>2
    <3> QED BY <3>1
  <2>4. n * z = n * y + n + n * d /\ n * d \in Nat
    BY <2>3
  <2>5. n * z <= n * y
    BY <1>2, <2>1
  <2>6. n * y \in Int
    OBVIOUS
  <2> QED BY <2>4, <2>5, <2>6
<1> QED BY <1>3

LEMMA MaxOf ==
    ASSUME NEW n \in Nat, NEW s \in SUBSET (1 .. n)
    PROVE  /\ s # {} => V!Max(s) \in s
           /\ n \in s => V!Max(s) = n
<1>1. V!Max(s) = Max(s)
  BY DEF V!Max, Max
<1>2. ASSUME s # {} PROVE Max(s) \in s /\ \A x \in s : x <= Max(s)
  <2>1. s \subseteq 0 .. n
    OBVIOUS
  <2> QED BY <1>2, <2>1, MaxIs
<1>3. ASSUME n \in s PROVE Max(s) = n
  <2>1. PICK m : m = Max(s)
    OBVIOUS
  <2>2. m \in s /\ n <= m
    BY <1>2, <1>3, <2>1
  <2>3. m \in 1 .. n
    BY <2>2
  <2> QED BY <2>1, <2>2, <2>3
<1> QED BY <1>1, <1>2, <1>3

LEMMA FoldIs ==
    ASSUME NEW f, NEW n \in Nat, DOMAIN f = 1 .. n
    PROVE  \E g : /\ V!Product(f) = g[1 .. n]
                  /\ g = [s \in SUBSET (1 .. n) |->
                            IF s = {} THEN 1
                            ELSE g[s \ {V!Max(s)}] * f[V!Max(s)].iters]
<1> DEFINE Is(g, m) == g = [s \in SUBSET (1 .. m) |->
                              IF s = {} THEN 1
                              ELSE g[s \ {V!Max(s)}] * f[V!Max(s)].iters]
           S == {m \in 0 .. n : \E g : Is(g, m)}
<1>1. 0 \in S
  <2>1. Is([s \in SUBSET (1 .. 0) |-> 1], 0)
    <3>1. \A s \in SUBSET (1 .. 0) : s = {}
      OBVIOUS
    <3> QED BY <3>1
  <2>2. 0 \in 0 .. n
    OBVIOUS
  <2> HIDE DEF Is
  <2> QED BY <2>1, <2>2
<1>2. ASSUME NEW m \in 0 .. n - 1, m \in S PROVE m + 1 \in S
  <2>1. PICK g : Is(g, m)
    BY <1>2
  <2>2. PICK v : v = f[m + 1].iters
    OBVIOUS
  <2> DEFINE h == [s \in SUBSET (1 .. m + 1) |->
                     IF m + 1 \in s THEN g[s \ {m + 1}] * v ELSE g[s]]
  <2>3. ASSUME NEW s \in SUBSET (1 .. m + 1), m + 1 \notin s
        PROVE  s \in SUBSET (1 .. m)
    BY <2>3
  <2>4. ASSUME NEW s \in SUBSET (1 .. m + 1)
        PROVE  h[s] = IF s = {} THEN 1 ELSE h[s \ {V!Max(s)}] * f[V!Max(s)].iters
    <3>1. CASE m + 1 \in s
      <4>1. V!Max(s) = m + 1
        BY <3>1, MaxOf
      <4>2. s \ {m + 1} \in SUBSET (1 .. m + 1) /\ m + 1 \notin s \ {m + 1}
        OBVIOUS
      <4>3. h[s \ {m + 1}] = g[s \ {m + 1}]
        BY <4>2
      <4>4. h[s] = g[s \ {m + 1}] * v
        BY <3>1
      <4> HIDE DEF h
      <4> QED BY <2>2, <3>1, <4>1, <4>3, <4>4
    <3>2. CASE m + 1 \notin s
      <4>1. s \in SUBSET (1 .. m) /\ h[s] = g[s]
        BY <2>3, <3>2
      <4>2. g[s] = IF s = {} THEN 1 ELSE g[s \ {V!Max(s)}] * f[V!Max(s)].iters
        BY <2>1, <4>1
      <4>3. s \ {V!Max(s)} \in SUBSET (1 .. m + 1) /\ m + 1 \notin s \ {V!Max(s)}
        BY <3>2
      <4>4. h[s \ {V!Max(s)}] = g[s \ {V!Max(s)}]
        BY <4>3
      <4> HIDE DEF h
      <4> QED BY <4>1, <4>2, <4>4
    <3> QED BY <3>1, <3>2
  <2>5. Is(h, m + 1)
    <3>1. h = [s \in SUBSET (1 .. m + 1) |-> h[s]]
      OBVIOUS
    <3> HIDE DEF h
    <3> QED BY <2>4, <3>1
  <2>6. m + 1 \in 0 .. n
    OBVIOUS
  <2> HIDE DEF h, Is
  <2> QED BY <2>5, <2>6
<1>3. \A m \in 0 .. n : m \in S
  <2> HIDE DEF S
  <2> QED BY <1>1, <1>2, Inductive
<1>4. \E g : Is(g, n)
  <2>1. n \in S
    <3> HIDE DEF S
    <3> QED BY <1>3
  <2> HIDE DEF Is
  <2> QED BY <2>1
<1> DEFINE G == CHOOSE g : Is(g, n)
<1>5. Is(G, n)
  BY <1>4
<1>6. V!Product(f) = G[1 .. n]
  BY DEF V!Product, V!FoldLeft, V!MapThenFoldSet
<1> QED BY <1>5, <1>6

LEMMA ProductIs ==
    ASSUME NEW f \in Seq(FrameSet)
    PROVE  \E h \in [0 .. Len(f) -> Nat \ {0}] :
             /\ h[0] = 1 /\ V!Product(f) = h[Len(f)]
             /\ \A k \in 1 .. Len(f) : h[k] = h[k - 1] * f[k].iters
<1>1. PICK n \in Nat : n = Len(f) /\ DOMAIN f = 1 .. n
  OBVIOUS
<1>2. PICK g : /\ V!Product(f) = g[1 .. n]
               /\ g = [s \in SUBSET (1 .. n) |->
                         IF s = {} THEN 1 ELSE g[s \ {V!Max(s)}] * f[V!Max(s)].iters]
  BY <1>1, FoldIs
<1>3. PICK h : h = [k \in 0 .. n |-> g[1 .. k]]
  OBVIOUS
<1>4. h[0] = 1
  <2>1. 1 .. 0 = {} /\ {} \in SUBSET (1 .. n)
    OBVIOUS
  <2>2. g[{}] = 1
    BY <1>2, <2>1
  <2> QED BY <1>3, <2>1, <2>2
<1>5. ASSUME NEW k \in 1 .. n PROVE h[k] = h[k - 1] * f[k].iters
  <2>1. 1 .. k \in SUBSET (1 .. n) /\ k \in 1 .. k /\ 1 .. k # {}
    OBVIOUS
  <2>2. V!Max(1 .. k) = k
    BY <2>1, MaxOf
  <2>3. (1 .. k) \ {k} = 1 .. k - 1
    OBVIOUS
  <2>4. g[1 .. k] = g[(1 .. k) \ {V!Max(1 .. k)}] * f[V!Max(1 .. k)].iters
    <3>1. PICK s \in SUBSET (1 .. n) : s = 1 .. k /\ s # {}
      BY <2>1
    <3>2. g[s] = g[s \ {V!Max(s)}] * f[V!Max(s)].iters
      BY <1>2, <3>1
    <3> QED BY <3>1, <3>2
  <2>5. g[1 .. k] = g[1 .. k - 1] * f[k].iters
    BY <2>2, <2>3, <2>4
  <2> QED BY <1>3, <2>5
<1> DEFINE S == {k \in 0 .. n : h[k] \in Nat \ {0}}
<1>6. 0 \in S
  BY <1>4
<1>7. ASSUME NEW k \in 0 .. n - 1, k \in S PROVE k + 1 \in S
  <2>1. PICK a \in Nat \ {0} : h[k] = a
    BY <1>7
  <2>2. PICK b \in Nat \ {0} : f[k + 1].iters = b
    <3>1. f[k + 1] \in FrameSet
      BY <1>1
    <3>2. f[k + 1].iters \in Nat \ {0}
      BY <3>1 DEF FrameSet
    <3> QED BY <3>2
  <2>3. k + 1 \in 1 .. n /\ k + 1 - 1 = k
    OBVIOUS
  <2>4. h[k + 1] = a * b
    BY <1>5, <2>1, <2>2, <2>3
  <2>5. a * b \in Nat \ {0}
    BY <2>1, <2>2
  <2>6. k + 1 \in 0 .. n
    OBVIOUS
  <2> QED BY <2>4, <2>5, <2>6
<1>8. \A k \in 0 .. n : k \in S
  <2>1. n \in Nat
    OBVIOUS
  <2> HIDE DEF S
  <2> QED BY <1>6, <1>7, <2>1, Inductive
<1>9. h \in [0 .. n -> Nat \ {0}]
  BY <1>3, <1>8
<1>10. V!Product(f) = h[n]
  <2>1. n \in 0 .. n
    OBVIOUS
  <2>2. h[n] = g[1 .. n]
    BY <1>3, <2>1
  <2> QED BY <1>2, <2>2
<1> QED BY <1>1, <1>4, <1>5, <1>9, <1>10

(* More frames, a greater product; one more frame, one more factor.         *)
LEMMA ProductGrows ==
    ASSUME NEW f \in Seq(FrameSet), NEW g \in Seq(FrameSet), Len(f) <= Len(g),
           \A k \in 1 .. Len(f) : g[k] = f[k]
    PROVE  /\ V!Product(f) \in Nat \ {0} /\ V!Product(f) <= V!Product(g)
           /\ Len(g) = Len(f) + 1 => V!Product(g) = V!Product(f) * g[Len(g)].iters
<1>1. PICK n \in Nat, m \in Nat : n = Len(f) /\ m = Len(g) /\ n <= m
  OBVIOUS
<1>2. PICK h \in [0 .. n -> Nat \ {0}] :
             /\ h[0] = 1 /\ V!Product(f) = h[n]
             /\ \A k \in 1 .. n : h[k] = h[k - 1] * f[k].iters
  BY <1>1, ProductIs
<1>3. PICK j \in [0 .. m -> Nat \ {0}] :
             /\ j[0] = 1 /\ V!Product(g) = j[m]
             /\ \A k \in 1 .. m : j[k] = j[k - 1] * g[k].iters
  BY <1>1, ProductIs
<1> DEFINE S == {k \in 0 .. n : h[k] = j[k]}
<1>4. 0 \in S
  BY <1>2, <1>3
<1>5. ASSUME NEW k \in 0 .. n - 1, k \in S PROVE k + 1 \in S
  <2>1. k + 1 \in 1 .. n /\ k + 1 \in 1 .. m /\ k + 1 - 1 = k
    BY <1>1
  <2>2. g[k + 1] = f[k + 1]
    BY <1>1, <2>1
  <2>3. h[k] = j[k]
    BY <1>5
  <2>4. h[k + 1] = h[k] * f[k + 1].iters /\ j[k + 1] = j[k] * g[k + 1].iters
    <3>1. PICK l : l = k + 1
      OBVIOUS
    <3>2. l \in 1 .. n /\ l \in 1 .. m /\ l - 1 = k
      BY <2>1, <3>1
    <3>3. h[l] = h[l - 1] * f[l].iters /\ j[l] = j[l - 1] * g[l].iters
      BY <1>2, <1>3, <3>2
    <3> QED BY <3>1, <3>2, <3>3
  <2>5. h[k + 1] = j[k + 1]
    BY <2>2, <2>3, <2>4
  <2> QED BY <2>1, <2>5
<1>6. \A k \in 0 .. n : k \in S
  <2> HIDE DEF S
  <2> QED BY <1>4, <1>5, Inductive
<1>7. h[n] = j[n]
  <2>1. n \in 0 .. n
    OBVIOUS
  <2>2. n \in S
    BY <1>6, <2>1
  <2> QED BY <2>2
<1> DEFINE T == {k \in 0 .. m - n : j[n] <= j[n + k]}
<1>8. 0 \in T
  BY <1>1, <1>3
<1>9. ASSUME NEW k \in 0 .. m - n - 1, k \in T PROVE k + 1 \in T
  <2>1. n + k + 1 \in 1 .. m /\ n + k + 1 - 1 = n + k /\ n + (k + 1) = n + k + 1
    BY <1>1
  <2>2. PICK a \in Nat \ {0} : a = j[n + k]
    BY <1>1, <1>3
  <2>3. PICK b \in Nat \ {0} : b = g[n + k + 1].iters
    <3>1. g[n + k + 1] \in FrameSet
      BY <1>1, <2>1
    <3>2. g[n + k + 1].iters \in Nat \ {0}
      BY <3>1 DEF FrameSet
    <3> QED BY <3>2
  <2>4. j[n + k + 1] = a * b
    BY <1>3, <2>1, <2>2, <2>3
  <2>5. a * b \in Nat /\ a <= a * b
    BY Times
  <2>6. PICK c \in Nat : c = j[n]
    BY <1>1, <1>3
  <2>7. c <= a * b
    BY <1>9, <2>2, <2>5, <2>6
  <2>8. k + 1 \in 0 .. m - n
    BY <1>1
  <2>9. j[n] <= j[n + (k + 1)]
    BY <2>1, <2>4, <2>6, <2>7
  <2> QED BY <2>8, <2>9
<1>10. \A k \in 0 .. m - n : k \in T
  <2>1. m - n \in Nat
    BY <1>1
  <2> HIDE DEF T
  <2> QED BY <1>8, <1>9, <2>1, Inductive
<1>11. j[n] <= j[m]
  <2>1. m - n \in 0 .. m - n /\ n + (m - n) = m
    BY <1>1
  <2>2. m - n \in T
    BY <1>10, <2>1
  <2> QED BY <2>1, <2>2
<1>12. ASSUME m = n + 1 PROVE j[m] = j[n] * g[m].iters
  <2>1. m \in 1 .. m /\ m - 1 = n
    BY <1>1, <1>12
  <2>2. j[m] = j[m - 1] * g[m].iters
    BY <1>3, <2>1
  <2> QED BY <2>1, <2>2
<1> QED BY <1>1, <1>2, <1>3, <1>7, <1>11, <1>12

-----------------------------------------------------------------------------
(***************************************************************************)
(* The pass again: where no instruction writes a count, the interval of a  *)
(* count is that of an argument, and every frame counts at least one round.*)
(***************************************************************************)
LEMMA CountKnown ==
    ASSUME NEW p, Text(p), V!Accepts(p, Manifest), FixedCounts(p),
           NEW n \in 0 .. V!Size(p), NEW b \in Loops(p)
    PROVE  V!States(p, Manifest)[n].abs[p[b].rs1] = V!Fresh(Manifest).abs[p[b].rs1]
<1>1. PICK N : N = V!Size(p)
  OBVIOUS
<1>2. PICK st : st = V!States(p, Manifest)
  OBVIOUS
<1>3. N \in Nat /\ DOMAIN p = 0 .. N - 1 /\ \A a \in 0 .. N - 1 : p[a] \in Instructions
  BY <1>1, SizeIs
<1>4. /\ st[0] = V!Fresh(Manifest)
      /\ \A m \in 0 .. N - 1 : V!Starts(p)[m] => Visited(p, Manifest, st[m], m, st[m + 1])
      /\ \A m \in 0 .. N - 1 : ~V!Starts(p)[m] => st[m + 1] = st[m]
  BY <1>1, <1>2, Through
<1>5. PICK r : r = p[b].rs1
  OBVIOUS
<1>6. r \in Regs
  <2>1. b \in DOMAIN p
    BY DEF Loops, Those
  <2> QED BY <1>3, <1>5, <2>1 DEF Instructions
<1>7. PICK q : q = V!Fresh(Manifest).abs[r]
  OBVIOUS
<1> DEFINE S == {m \in 0 .. N : DOMAIN st[m].abs = Regs /\ st[m].abs[r] = q}
<1>8. 0 \in S
  <2>1. DOMAIN V!Fresh(Manifest).abs = Regs
    BY DEF V!Fresh, V!Regs, Regs
  <2> QED BY <1>3, <1>4, <1>7, <2>1
<1>9. ASSUME NEW m \in 0 .. N - 1, m \in S PROVE m + 1 \in S
  <2>1. m + 1 \in 0 .. N /\ DOMAIN st[m].abs = Regs /\ st[m].abs[r] = q
    BY <1>3, <1>9
  <2>2. CASE ~V!Starts(p)[m]
    BY <1>4, <2>1, <2>2
  <2>3. CASE V!Starts(p)[m]
    <3>1. PICK w : w = p[m]
      OBVIOUS
    <3>2. st[m + 1].abs = V!AbsAfter(st[m], w)
      BY <1>4, <2>3, <3>1 DEF Visited
    <3>3. WritesReg(w) => w.rd # r
      BY <1>3, <1>5, <3>1 DEF FixedCounts
    <3>4. PICK f : f = st[m].abs
      OBVIOUS
    <3>5. \/ V!AbsAfter(st[m], w) = f
          \/ WritesReg(w) /\ \E v : V!AbsAfter(st[m], w) = [f EXCEPT ![w.rd] = v]
      BY <3>4 DEF V!AbsAfter, WritesReg
    <3>6. DOMAIN V!AbsAfter(st[m], w) = Regs /\ V!AbsAfter(st[m], w)[r] = q
      <4>1. CASE V!AbsAfter(st[m], w) = f
        BY <2>1, <3>4, <4>1
      <4>2. ASSUME WritesReg(w), NEW v, V!AbsAfter(st[m], w) = [f EXCEPT ![w.rd] = v]
            PROVE  DOMAIN V!AbsAfter(st[m], w) = Regs /\ V!AbsAfter(st[m], w)[r] = q
        BY <1>6, <2>1, <3>3, <3>4, <4>2
      <4> QED BY <3>5, <4>1, <4>2
    <3> QED BY <2>1, <3>2, <3>6
  <2> QED BY <2>2, <2>3
<1>10. \A m \in 0 .. N : m \in S
  <2> HIDE DEF S
  <2> QED BY <1>3, <1>8, <1>9, Inductive
<1>11. n \in S
  BY <1>1, <1>10
<1> QED BY <1>2, <1>5, <1>7, <1>11

Rounds(p, b) == V!Iterations(V!States(p, Manifest)[b].abs[p[b].rs1], Manifest)

(* The rounds the verifier counts of a loop: those of the interval's upper  *)
(* end, or as many as an operator may take steps.                          *)
LEMMA RoundsAre ==
    ASSUME NEW p, Text(p), V!Accepts(p, Manifest), FixedCounts(p), NEW b \in Loops(p)
    PROVE  /\ Rounds(p, b) \in Nat \ {0}
           /\ \/ Rounds(p, b) >= Manifest.max_dynamic
              \/ /\ p[b].rs1 \in DOMAIN Manifest.arguments
                 /\ Manifest.arguments[p[b].rs1].hi <= Rounds(p, b)
              \/ p[b].rs1 = 0 /\ p[b].rs1 \notin DOMAIN Manifest.arguments
<1>1. PICK r : r = p[b].rs1
  OBVIOUS
<1>2. PICK q : q = V!Fresh(Manifest).abs[r]
  OBVIOUS
<1>3. PICK md \in Nat : md = Manifest.max_dynamic
  BY OperatorAssumption
<1>4. b \in 0 .. V!Size(p) /\ p[b] \in Instructions
  <2>1. b \in DOMAIN p
    BY DEF Loops, Those
  <2> QED BY <2>1, SizeIs
<1>5. Rounds(p, b) = V!Iterations(q, Manifest)
  BY <1>1, <1>2, <1>4, CountKnown DEF Rounds
<1>6. r \in Regs
  BY <1>1, <1>4 DEF Instructions
<1>7. q.hi \in Nat
  <2>1. InWords(q)
    BY <1>2, <1>6, FreshIs DEF AllWords
  <2>2. PICK e \in Nat \ {0} : Word = 0 .. e - 1
    BY WordIs
  <2> QED BY <2>1, <2>2 DEF InWords
<1>8. PICK h \in Nat : h = IF q.opaque THEN md ELSE q.hi
  BY <1>7
<1>9. PICK m \in Nat : m = Min({md, h}) /\ m = IF md <= h THEN md ELSE h
  <2>1. Min({md, h}) = IF md <= h THEN md ELSE h
    BY OfTwo
  <2>2. (IF md <= h THEN md ELSE h) \in Nat
    OBVIOUS
  <2> QED BY <2>1, <2>2
<1>10. Rounds(p, b) = IF 1 >= m THEN 1 ELSE m
  <2>1. Max({1, m}) = IF 1 >= m THEN 1 ELSE m
    BY OfTwo
  <2>2. V!Min({md, h}) = Min({md, h}) /\ V!Max({1, m}) = Max({1, m})
    BY DEF V!Min, Min, V!Max, Max
  <2>3. V!Iterations(q, Manifest) = V!Max({1, V!Min({md, h})})
    BY <1>3, <1>8 DEF V!Iterations
  <2> QED BY <1>5, <1>9, <2>1, <2>2, <2>3
<1>11. CASE md <= h
  BY <1>3, <1>9, <1>10, <1>11
<1>12. CASE ~(md <= h)
  <2>1. ~q.opaque /\ h = q.hi
    BY <1>8, <1>12
  <2>2. q.hi <= Rounds(p, b) /\ Rounds(p, b) \in Nat \ {0}
    BY <1>9, <1>10, <1>12, <2>1
  <2>3. r \in DOMAIN Manifest.arguments \/ r = 0
    <3>1. q = IF r \in DOMAIN Manifest.arguments THEN Manifest.arguments[r]
              ELSE IF r = 0 THEN V!AbsConst(0) ELSE V!AbsTop
      BY <1>2, <1>6 DEF V!Fresh, V!Regs, Regs
    <3> QED BY <2>1, <3>1 DEF V!AbsTop
  <2>4. r \in DOMAIN Manifest.arguments => q = Manifest.arguments[r]
    BY <1>2, <1>6 DEF V!Fresh, V!Regs, Regs
  <2> QED BY <1>1, <2>2, <2>3, <2>4
<1> QED BY <1>11, <1>12

\* The price of the instruction at n: one step for each round around it.
Price(p, n) == V!Product(V!LiveFrames(V!States(p, Manifest)[n].frames, n))

LEMMA PassCounts ==
    ASSUME NEW p, Text(p), V!Accepts(p, Manifest), FixedCounts(p)
    PROVE  LET N == V!Size(p)
               st == V!States(p, Manifest)
           IN  /\ st[0].bound = 0
               /\ \A n \in 0 .. N : st[n].frames \in Seq(FrameSet) /\ st[n].bound \in Nat
               /\ \A n \in 0 .. N - 1 :
                    V!Starts(p)[n] =>
                      /\ Price(p, n) \in Nat \ {0}
                      /\ st[n + 1].bound = st[n].bound + Price(p, n)
                      /\ st[n + 1].bound <= Manifest.max_dynamic
                      /\ p[n].op = "LOOP" =>
                           V!Product(st[n + 1].frames) = Price(p, n) * Rounds(p, n)
<1>1. PICK N : N = V!Size(p)
  OBVIOUS
<1>2. PICK st : st = V!States(p, Manifest)
  OBVIOUS
<1>3. N \in Nat /\ DOMAIN p = 0 .. N - 1
  BY <1>1, SizeIs
<1>4. /\ st[0] = V!Fresh(Manifest)
      /\ \A m \in 0 .. N - 1 : V!Starts(p)[m] => Visited(p, Manifest, st[m], m, st[m + 1])
      /\ \A m \in 0 .. N - 1 : ~V!Starts(p)[m] => st[m + 1] = st[m]
      /\ \A m \in 0 .. N : st[m].ok
  BY <1>1, <1>2, Through
<1>5. ASSUME NEW n \in 0 .. N - 1, st[n].frames \in Seq(FrameSet), V!Starts(p)[n]
      PROVE  /\ st[n + 1].frames \in Seq(FrameSet)
             /\ Price(p, n) \in Nat \ {0}
             /\ p[n].op = "LOOP" => V!Product(st[n + 1].frames) = Price(p, n) * Rounds(p, n)
  <2>1. PICK f : f = V!LiveFrames(st[n].frames, n)
    OBVIOUS
  <2>2. f \in Seq(FrameSet) /\ Price(p, n) = V!Product(f)
    BY <1>2, <1>5, <2>1, LiveIs DEF Price
  <2>3. Visited(p, Manifest, st[n], n, st[n + 1])
    BY <1>4, <1>5
  <2>4. V!Product(f) \in Nat \ {0}
    <3>1. Len(f) <= Len(f)
      BY <2>2
    <3> QED BY <2>2, <3>1, ProductGrows
  <2>5. CASE p[n].op # "LOOP"
    BY <2>1, <2>2, <2>3, <2>4, <2>5 DEF Visited
  <2>6. CASE p[n].op = "LOOP"
    <3>1. PICK e : e = FrameOf(p, Manifest, st[n], n)
      OBVIOUS
    <3>2. st[n + 1].frames = Append(f, e)
      BY <2>1, <2>3, <2>6, <3>1 DEF Visited
    <3>3. n \in DOMAIN p /\ n \in Loops(p) /\ n \in Nat
      BY <1>3, <2>6 DEF Loops, Those
    <3>4. e.iters = Rounds(p, n) /\ e \in FrameSet
      <4>1. e.iters = Rounds(p, n)
        BY <1>2, <3>1 DEF FrameOf, Rounds
      <4>2. Rounds(p, n) \in Nat \ {0}
        BY <3>3, RoundsAre
      <4>3. n + 1 + V!SignedImm(p[n].imm) \in Int
        BY <3>3, SignedIs
      <4> QED BY <3>1, <4>1, <4>2, <4>3 DEF FrameOf, FrameSet
    <3>5. PICK g : g = Append(f, e)
      OBVIOUS
    <3>6. g \in Seq(FrameSet) /\ Len(g) = Len(f) + 1 /\ g[Len(g)] = e
          /\ \A k \in 1 .. Len(f) : g[k] = f[k]
      BY <2>2, <3>4, <3>5
    <3>7. Len(f) <= Len(g)
      BY <2>2, <3>6
    <3>8. V!Product(g) = V!Product(f) * g[Len(g)].iters
      BY <2>2, <3>6, <3>7, ProductGrows
    <3> QED BY <2>2, <2>4, <3>2, <3>4, <3>5, <3>6, <3>8
  <2> QED BY <2>5, <2>6
<1>6. ASSUME NEW n \in 0 .. N - 1, V!Starts(p)[n]
      PROVE  /\ st[n + 1].bound = st[n].bound + Price(p, n)
             /\ ~(st[n + 1].bound > Manifest.max_dynamic)
  <2>1. Visited(p, Manifest, st[n], n, st[n + 1])
    BY <1>4, <1>6
  <2>2. st[n + 1].ok
    <3>1. n + 1 \in 0 .. N
      BY <1>3
    <3> QED BY <1>4, <3>1
  <2>3. st[n + 1].bound = V!BoundAfter(st[n], n)
    BY <2>1 DEF Visited
  <2>4. ~(st[n + 1].bound > Manifest.max_dynamic)
    BY <2>1, <2>2 DEF Visited
  <2> QED BY <1>2, <2>3, <2>4 DEF V!BoundAfter, Price
<1> DEFINE S == {n \in 0 .. N : st[n].frames \in Seq(FrameSet) /\ st[n].bound \in Nat}
<1>7. st[0].bound = 0 /\ st[0].frames = <<>>
  BY <1>4 DEF V!Fresh
<1>8. 0 \in S
  <2>1. 0 \in 0 .. N /\ <<>> \in Seq(FrameSet)
    BY <1>3
  <2>2. st[0].frames \in Seq(FrameSet) /\ st[0].bound \in Nat
    BY <1>7, <2>1
  <2> QED BY <2>1, <2>2
<1>9. ASSUME NEW n \in 0 .. N - 1, n \in S PROVE n + 1 \in S
  <2>1. n + 1 \in 0 .. N /\ st[n].frames \in Seq(FrameSet) /\ st[n].bound \in Nat
    BY <1>3, <1>9
  <2>2. CASE ~V!Starts(p)[n]
    BY <1>4, <2>1, <2>2
  <2>3. CASE V!Starts(p)[n]
    <3>1. st[n + 1].frames \in Seq(FrameSet) /\ Price(p, n) \in Nat
      BY <1>5, <2>1, <2>3
    <3>2. st[n + 1].bound = st[n].bound + Price(p, n)
      BY <1>6, <2>3
    <3>3. st[n + 1].bound \in Nat
      BY <2>1, <3>1, <3>2
    <3> QED BY <2>1, <3>1, <3>3
  <2> QED BY <2>2, <2>3
<1>10. \A n \in 0 .. N : st[n].frames \in Seq(FrameSet) /\ st[n].bound \in Nat
  <2>1. \A n \in 0 .. N : n \in S
    <3> HIDE DEF S
    <3> QED BY <1>3, <1>8, <1>9, Inductive
  <2> QED BY <2>1
<1>11. ASSUME NEW n \in 0 .. N - 1, V!Starts(p)[n]
       PROVE  /\ Price(p, n) \in Nat \ {0}
              /\ st[n + 1].bound = st[n].bound + Price(p, n)
              /\ st[n + 1].bound <= Manifest.max_dynamic
              /\ p[n].op = "LOOP" => V!Product(st[n + 1].frames) = Price(p, n) * Rounds(p, n)
  <2>1. n \in 0 .. N /\ n + 1 \in 0 .. N
    BY <1>3
  <2>2. st[n].frames \in Seq(FrameSet) /\ st[n + 1].bound \in Nat
    BY <1>10, <2>1
  <2>3. /\ st[n + 1].bound = st[n].bound + Price(p, n)
        /\ ~(st[n + 1].bound > Manifest.max_dynamic)
    BY <1>6, <1>11
  <2>4. st[n + 1].bound <= Manifest.max_dynamic
    BY <2>2, <2>3, OperatorAssumption
  <2> QED BY <1>5, <1>11, <2>2, <2>3, <2>4
<1> QED BY <1>1, <1>2, <1>7, <1>10, <1>11

(* Inside a loop an instruction costs at least what one round of the loop's *)
(* body costs there: its frame is live up to the end of the body.          *)
LEMMA BodyCosts ==
    ASSUME NEW p, Text(p), V!Accepts(p, Manifest), FixedCounts(p),
           NEW b \in Loops(p), V!Starts(p)[b],
           NEW x \in 0 .. V!Size(p) - 1, b < x, x < SignedEnd(p, b), V!Starts(p)[x]
    PROVE  Price(p, b) * Rounds(p, b) <= Price(p, x)
<1>1. PICK N : N = V!Size(p)
  OBVIOUS
<1>2. PICK st : st = V!States(p, Manifest)
  OBVIOUS
<1>3. N \in Nat /\ DOMAIN p = 0 .. N - 1
  BY <1>1, SizeIs
<1>4. /\ \A m \in 0 .. N - 1 : V!Starts(p)[m] => Visited(p, Manifest, st[m], m, st[m + 1])
      /\ \A m \in 0 .. N - 1 : ~V!Starts(p)[m] => st[m + 1] = st[m]
  BY <1>1, <1>2, Through
<1>5. \A n \in 0 .. N : st[n].frames \in Seq(FrameSet)
  BY <1>1, <1>2, PassCounts
<1>6. b \in 0 .. N - 1 /\ p[b].op = "LOOP" /\ b + 1 \in 0 .. N
  BY <1>3 DEF Loops, Those
<1>7. PICK e \in Int : e = SignedEnd(p, b)
  <2>1. SignedEnd(p, b) \in Int
    BY <1>3, <1>6, SignedIs DEF SignedEnd
  <2> QED BY <2>1
<1>8. PICK F \in Seq(FrameSet) : F = st[b + 1].frames
  BY <1>5, <1>6
<1>9. PICK k \in Nat : k = Len(F)
  BY <1>8
<1>10. k >= 1 /\ F[k].end = e
  <2>1. PICK f : f = V!LiveFrames(st[b].frames, b)
    OBVIOUS
  <2>2. f \in Seq(FrameSet)
    <3>1. b \in 0 .. N
      BY <1>3, <1>6
    <3> QED BY <1>5, <2>1, <3>1, LiveIs
  <2>3. PICK fr : fr = FrameOf(p, Manifest, st[b], b)
    OBVIOUS
  <2>4. F = Append(f, fr) /\ fr.end = e
    BY <1>4, <1>6, <1>7, <1>8, <2>1, <2>3 DEF Visited, FrameOf, SignedEnd
  <2>5. \E X : f \in Seq(X) /\ fr \in X
    <3>1. f \in Seq(FrameSet \cup {fr}) /\ fr \in FrameSet \cup {fr}
      BY <2>2
    <3> WITNESS FrameSet \cup {fr}
    <3> QED BY <3>1
  <2>6. PICK X : f \in Seq(X) /\ fr \in X
    BY <2>5
  <2>7. Len(F) = Len(f) + 1 /\ F[Len(F)] = fr /\ Len(f) \in Nat
    BY <2>4, <2>6
  <2> QED BY <1>9, <2>4, <2>7
<1> DEFINE Has(g) == k <= Len(g) /\ \A i \in 1 .. k : g[i] = F[i]
           S == {d \in 0 .. x - (b + 1) : Has(st[b + 1 + d].frames)}
<1>11. ASSUME NEW n \in 0 .. N, n < e, Has(st[n].frames)
       PROVE  /\ V!LiveFrames(st[n].frames, n) \in Seq(FrameSet)
              /\ Has(V!LiveFrames(st[n].frames, n))
  <2>1. PICK f \in Seq(FrameSet) : f = st[n].frames
    BY <1>5
  <2>2. PICK g : g = V!LiveFrames(f, n)
    OBVIOUS
  <2>3. k \in 1 .. Len(f) /\ n < f[k].end
    BY <1>9, <1>10, <1>11, <2>1
  <2>4. g \in Seq(FrameSet) /\ k \in 1 .. Len(g) /\ \A i \in 1 .. Len(g) : g[i] = f[i]
    BY <2>2, <2>3, LiveIs
  <2>5. Has(g)
    BY <1>9, <1>11, <2>1, <2>4
  <2> QED BY <2>1, <2>2, <2>4, <2>5
<1>12. x - (b + 1) \in Nat
  BY <1>3, <1>6
<1>13. 0 \in S
  <2>1. b + 1 + 0 = b + 1
    BY <1>6
  <2>2. Has(F)
    BY <1>9
  <2> QED BY <1>8, <1>12, <2>1, <2>2
<1>14. ASSUME NEW d \in 0 .. x - (b + 1) - 1, d \in S PROVE d + 1 \in S
  <2>1. PICK n : n = b + 1 + d
    OBVIOUS
  <2>2. n \in 0 .. N - 1 /\ n \in 0 .. N /\ n < e /\ n + 1 \in 0 .. N /\ b + 1 + (d + 1) = n + 1
    BY <1>1, <1>3, <1>6, <1>7, <1>12, <2>1
  <2>3. Has(st[n].frames)
    BY <1>14, <2>1
  <2>4. Has(st[n + 1].frames)
    <3>1. CASE ~V!Starts(p)[n]
      BY <1>4, <2>2, <2>3, <3>1
    <3>2. CASE V!Starts(p)[n]
      <4>1. PICK g \in Seq(FrameSet) : g = V!LiveFrames(st[n].frames, n) /\ Has(g)
        BY <1>11, <2>2, <2>3
      <4>2. CASE p[n].op # "LOOP"
        BY <1>4, <2>2, <3>2, <4>1, <4>2 DEF Visited
      <4>3. CASE p[n].op = "LOOP"
        <5>1. PICK fr : fr = FrameOf(p, Manifest, st[n], n)
          OBVIOUS
        <5>2. st[n + 1].frames = Append(g, fr)
          BY <1>4, <2>2, <3>2, <4>1, <4>3, <5>1 DEF Visited
        <5>3. Len(Append(g, fr)) = Len(g) + 1 /\ \A i \in 1 .. Len(g) : Append(g, fr)[i] = g[i]
          BY <4>1
        <5>4. PICK l \in Nat : l = Len(g)
          BY <4>1
        <5>5. Has(Append(g, fr))
          BY <1>9, <4>1, <5>3, <5>4
        <5> QED BY <5>2, <5>5
      <4> QED BY <4>2, <4>3
    <3> QED BY <3>1, <3>2
  <2>5. d + 1 \in 0 .. x - (b + 1)
    BY <1>12
  <2> QED BY <2>2, <2>4, <2>5
<1>15. Has(st[x].frames)
  <2>1. \A d \in 0 .. x - (b + 1) : d \in S
    <3> HIDE DEF S
    <3> QED BY <1>12, <1>13, <1>14, Inductive
  <2>2. x - (b + 1) \in 0 .. x - (b + 1) /\ b + 1 + (x - (b + 1)) = x
    BY <1>12, <1>6
  <2>3. x - (b + 1) \in S
    BY <2>1, <2>2
  <2> QED BY <2>2, <2>3
<1>16. PICK g \in Seq(FrameSet) : g = V!LiveFrames(st[x].frames, x) /\ Has(g)
  <2>1. x \in 0 .. N /\ x < e
    BY <1>1, <1>3, <1>7
  <2> QED BY <1>11, <1>15, <2>1
<1>17. V!Product(F) <= V!Product(g)
  BY <1>9, <1>16, ProductGrows
<1>18. V!Product(F) = Price(p, b) * Rounds(p, b)
  BY <1>1, <1>2, <1>6, <1>8, PassCounts
<1>19. Price(p, x) = V!Product(g)
  BY <1>2, <1>16 DEF Price
<1> QED BY <1>17, <1>18, <1>19

-----------------------------------------------------------------------------
(***************************************************************************)
(* Places: what the verifier has counted before a word; a second word is   *)
(* where its instruction is.                                               *)
(***************************************************************************)
Owner(p, x) == IF V!Starts(p)[x] THEN x ELSE x - 1
Places(p) ==
    [x \in Nat |-> IF x >= V!Size(p) THEN V!StaticStepBound(p, Manifest)
                   ELSE V!States(p, Manifest)[Owner(p, x)].bound]

LEMMA Tails ==
    ASSUME NEW p, Text(p), InertTails(p), NEW x \in 0 .. V!Size(p) - 1
    PROVE  /\ Owner(p, x) \in 0 .. V!Size(p) - 1 /\ V!Starts(p)[Owner(p, x)]
           /\ ~V!Starts(p)[x] => /\ x \in 1 .. V!Size(p) - 1 /\ p[x].op = "NOP"
                                 /\ IsTwoWord(p[x - 1]) /\ V!Starts(p)[x - 1]
                                 /\ NextPc(p, x) = x + 1 /\ V!Starts(p)[x + 1]
           /\ V!Starts(p)[x] => /\ IsTwoWord(p[x]) => ~V!Starts(p)[x + 1] /\ NextPc(p, x) = x + 2
                                /\ ~IsTwoWord(p[x]) => V!Starts(p)[x + 1] /\ NextPc(p, x) = x + 1
<1>1. PICK N : N = V!Size(p)
  OBVIOUS
<1>2. PICK st : st = V!Starts(p)
  OBVIOUS
<1>3. N \in Nat /\ DOMAIN p = 0 .. N - 1
  BY <1>1, SizeIs
<1>4. \A a \in 0 .. N : st[a] <=> (a = 0 \/ ~(st[a - 1] /\ V!IsTwoWord(p[a - 1])))
  BY <1>1, <1>2, <1>3, StartsIs
<1>5. \A w : V!IsTwoWord(w) <=> IsTwoWord(w)
  BY DEF IsTwoWord, V!IsTwoWord, TwoWordOps, V!TwoWordOps
<1>6. x \in 0 .. N /\ x + 1 \in 0 .. N /\ x + 1 # 0 /\ x + 1 - 1 = x /\ x \in DOMAIN p
  BY <1>1, <1>3
<1>7. st[x + 1] <=> ~(st[x] /\ IsTwoWord(p[x]))
  BY <1>4, <1>5, <1>6
<1>8. ASSUME ~st[x]
      PROVE  x \in 1 .. N - 1 /\ p[x].op = "NOP" /\ IsTwoWord(p[x - 1]) /\ st[x - 1]
  <2>1. x # 0 /\ st[x - 1] /\ IsTwoWord(p[x - 1])
    BY <1>4, <1>5, <1>6, <1>8
  <2>2. x \in 1 .. N - 1 /\ x - 1 \in DOMAIN p /\ x = (x - 1) + 1
    BY <1>1, <1>3, <2>1
  <2>3. x \in Tail2(p)
    BY <2>1, <2>2 DEF Tail2
  <2> QED BY <1>6, <2>1, <2>2, <2>3 DEF InertTails
<1>9. ASSUME ~st[x] PROVE NextPc(p, x) = x + 1
  BY <1>8, <1>9 DEF NextPc, IsTwoWord, TwoWordOps
<1>10. Owner(p, x) \in 0 .. N - 1 /\ st[Owner(p, x)]
  <2>1. CASE st[x]
    BY <1>1, <1>2, <2>1 DEF Owner
  <2>2. CASE ~st[x]
    <3>1. x - 1 \in 0 .. N - 1
      BY <1>3, <1>8, <2>2
    <3> QED BY <1>2, <1>8, <2>2, <3>1 DEF Owner
  <2> QED BY <2>1, <2>2
<1>11. (IsTwoWord(p[x]) => NextPc(p, x) = x + 2) /\ (~IsTwoWord(p[x]) => NextPc(p, x) = x + 1)
  BY DEF NextPc
<1> QED BY <1>1, <1>2, <1>7, <1>8, <1>9, <1>10, <1>11

LEMMA PlacesAre ==
    ASSUME NEW p, Text(p), V!Accepts(p, Manifest), FixedCounts(p), InertTails(p), 0 \in DOMAIN p
    PROVE  LET m == Places(p)
               N == V!Size(p)
           IN  /\ m \in [Nat -> Nat] /\ m[0] = 0
               /\ \A x \in Nat : m[x] <= V!StaticStepBound(p, Manifest)
               /\ V!StaticStepBound(p, Manifest) \in Nat
               /\ V!StaticStepBound(p, Manifest) <= Manifest.max_dynamic
               /\ \A x, y \in Nat : x <= y => m[x] <= m[y]
               /\ \A x \in 0 .. N - 1 : m[NextPc(p, x)] = m[x] + Price(p, Owner(p, x))
<1>1. PICK N : N = V!Size(p)
  OBVIOUS
<1>2. PICK st : st = V!States(p, Manifest)
  OBVIOUS
<1>3. N \in Nat \ {0} /\ DOMAIN p = 0 .. N - 1
  BY <1>1, SizeIs
<1>4. PICK m : m = Places(p)
  OBVIOUS
<1>5. PICK bd : bd = V!StaticStepBound(p, Manifest)
  OBVIOUS
<1>6. bd = st[N].bound
  BY <1>1, <1>2, <1>5 DEF V!StaticStepBound, V!Pass
<1>7. /\ DOMAIN m = Nat
      /\ \A x \in Nat : x >= N => m[x] = st[N].bound
      /\ \A x \in 0 .. N - 1 : m[x] = st[Owner(p, x)].bound
  BY <1>1, <1>2, <1>3, <1>4, <1>5, <1>6 DEF Places
<1>8. PICK s : s = V!Starts(p)
  OBVIOUS
<1>9. /\ st[0].bound = 0
      /\ \A n \in 0 .. N : st[n].bound \in Nat
      /\ \A n \in 0 .. N - 1 : s[n] =>
            /\ Price(p, n) \in Nat \ {0}
            /\ st[n + 1].bound = st[n].bound + Price(p, n)
            /\ st[n + 1].bound <= Manifest.max_dynamic
  BY <1>1, <1>2, <1>8, PassCounts
<1>10. \A n \in 0 .. N - 1 : ~s[n] => st[n + 1] = st[n]
  BY <1>1, <1>2, <1>8, Through
<1>11. PICK md \in Nat : md = Manifest.max_dynamic
  BY OperatorAssumption
<1>12. bd \in Nat /\ bd <= md
  <2> DEFINE S == {n \in 0 .. N : st[n].bound <= md}
  <2>1. 0 \in S
    BY <1>3, <1>9
  <2>2. ASSUME NEW n \in 0 .. N - 1, n \in S PROVE n + 1 \in S
    BY <1>3, <1>9, <1>10, <1>11, <2>2
  <2>3. \A n \in 0 .. N : n \in S
    <3>1. N \in Nat
      BY <1>3
    <3> HIDE DEF S
    <3> QED BY <2>1, <2>2, <3>1, Inductive
  <2>4. N \in S /\ N \in 0 .. N
    BY <1>3, <2>3
  <2> QED BY <1>6, <1>9, <2>4
<1>13. ASSUME NEW x \in 0 .. N - 1
       PROVE  /\ Owner(p, x) \in 0 .. N - 1 /\ s[Owner(p, x)]
              /\ Owner(p, x) = IF s[x] THEN x ELSE x - 1
              /\ ~s[x] => /\ x \in 1 .. N - 1 /\ s[x - 1] /\ NextPc(p, x) = x + 1 /\ s[x + 1]
              /\ s[x] => \/ ~s[x + 1] /\ NextPc(p, x) = x + 2
                         \/ s[x + 1] /\ NextPc(p, x) = x + 1
  BY <1>1, <1>8, Tails DEF Owner
<1>14. m \in [Nat -> Nat]
  <2>1. ASSUME NEW x \in Nat PROVE m[x] \in Nat
    <3>1. CASE x >= N
      BY <1>6, <1>7, <1>12, <3>1
    <3>2. CASE ~(x >= N)
      <4>1. x \in 0 .. N - 1
        BY <1>3, <3>2
      <4>2. PICK o \in 0 .. N - 1 : o = Owner(p, x)
        BY <1>13, <4>1
      <4>3. o \in 0 .. N
        BY <1>3
      <4> QED BY <1>7, <1>9, <4>1, <4>2, <4>3
    <3> QED BY <3>1, <3>2
  <2>2. m = [x \in Nat |-> m[x]]
    BY <1>4 DEF Places
  <2> QED BY <2>1, <2>2
<1>15. ASSUME NEW x \in 0 .. N - 1
       PROVE  m[NextPc(p, x)] = m[x] + Price(p, Owner(p, x)) /\ m[x] <= m[x + 1]
  <2>1. x + 1 \in Nat /\ x + 2 \in Nat /\ x + 1 \in 0 .. N
    BY <1>3
  <2>2. ASSUME NEW y \in 0 .. N, s[y] PROVE m[y] = st[y].bound
    <3>1. CASE y = N
      BY <1>3, <1>7, <3>1
    <3>2. CASE y # N
      <4>1. y \in 0 .. N - 1
        BY <1>3, <3>2
      <4>2. Owner(p, y) = y
        BY <1>13, <2>2, <4>1
      <4> QED BY <1>7, <4>1, <4>2
    <3> QED BY <3>1, <3>2
  <2>3. CASE ~s[x]
    <3>1. x \in 1 .. N - 1 /\ s[x - 1] /\ NextPc(p, x) = x + 1 /\ s[x + 1] /\ Owner(p, x) = x - 1
      BY <1>13, <2>3
    <3>2. m[x] = st[x - 1].bound /\ m[x + 1] = st[x + 1].bound
      BY <1>7, <2>1, <2>2, <3>1
    <3>3. st[x + 1] = st[x]
      BY <1>10, <2>3
    <3>4. x - 1 \in 0 .. N - 1 /\ x - 1 + 1 = x /\ x - 1 \in 0 .. N
      BY <1>3, <3>1
    <3>5. st[x].bound = st[x - 1].bound + Price(p, x - 1) /\ Price(p, x - 1) \in Nat
      <4>1. PICK y : y = x - 1
        OBVIOUS
      <4>2. y \in 0 .. N - 1 /\ y + 1 = x /\ s[y]
        BY <3>1, <3>4, <4>1
      <4> QED BY <1>9, <4>1, <4>2
    <3>6. st[x - 1].bound \in Nat
      BY <1>9, <3>4
    <3> QED BY <3>1, <3>2, <3>3, <3>5, <3>6
  <2>4. CASE s[x]
    <3>1. x \in 0 .. N /\ Owner(p, x) = x
      BY <1>3, <1>13, <2>4
    <3>2. m[x] = st[x].bound /\ st[x].bound \in Nat
      BY <1>9, <2>2, <2>4, <3>1
    <3>3. st[x + 1].bound = st[x].bound + Price(p, x) /\ Price(p, x) \in Nat
      BY <1>9, <2>4
    <3>4. CASE s[x + 1] /\ NextPc(p, x) = x + 1
      BY <2>1, <2>2, <3>1, <3>2, <3>3, <3>4
    <3>5. CASE ~s[x + 1] /\ NextPc(p, x) = x + 2
      <4>1. CASE x + 1 = N
        <5>1. x + 2 >= N /\ x + 1 >= N
          BY <1>3, <4>1
        <5>2. m[x + 2] = st[N].bound /\ m[x + 1] = st[N].bound
          BY <1>7, <2>1, <5>1
        <5> QED BY <3>1, <3>2, <3>3, <3>5, <4>1, <5>2
      <4>2. CASE x + 1 # N
        <5>1. PICK y : y = x + 1
          OBVIOUS
        <5>2. y \in 0 .. N - 1 /\ y + 1 = x + 2 /\ y + 1 \in 0 .. N /\ y - 1 = x /\ ~s[y]
          BY <1>3, <3>5, <4>2, <5>1
        <5>3. Owner(p, y) = x /\ s[y + 1]
          BY <1>13, <5>2
        <5>4. m[y] = st[x].bound /\ m[y + 1] = st[y + 1].bound
          BY <1>7, <2>2, <5>2, <5>3
        <5>5. st[y + 1] = st[y]
          BY <1>10, <5>2
        <5> QED BY <3>1, <3>2, <3>3, <3>5, <5>1, <5>2, <5>4, <5>5
      <4> QED BY <4>1, <4>2
    <3> QED BY <1>13, <2>4, <3>4, <3>5
  <2> QED BY <2>3, <2>4
<1>16. ASSUME NEW x \in Nat, NEW y \in Nat, x <= y PROVE m[x] <= m[y]
  <2> DEFINE S == {d \in 0 .. y - x : m[x] <= m[x + d]}
  <2>1. y - x \in Nat /\ x + 0 = x /\ m[x] \in Nat
    BY <1>14, <1>16
  <2>2. 0 \in S
    BY <2>1
  <2>3. ASSUME NEW d \in 0 .. y - x - 1, d \in S PROVE d + 1 \in S
    <3>1. PICK z \in Nat : z = x + d
      BY <2>1
    <3>2. m[x] <= m[z] /\ d + 1 \in 0 .. y - x /\ x + (d + 1) = z + 1 /\ z + 1 \in Nat
      BY <2>1, <2>3, <3>1
    <3>3. m[z] <= m[z + 1]
      <4>1. CASE z >= N
        <5>1. z + 1 >= N /\ z + 1 \in Nat
          BY <1>3, <4>1
        <5>2. m[z] = st[N].bound /\ m[z + 1] = st[N].bound /\ m[z] \in Nat
          BY <1>7, <1>14, <4>1, <5>1
        <5> QED BY <5>2
      <4>2. CASE ~(z >= N)
        <5>1. z \in 0 .. N - 1
          BY <1>3, <4>2
        <5> QED BY <1>15, <5>1
      <4> QED BY <4>1, <4>2
    <3>4. m[z] \in Nat /\ m[z + 1] \in Nat
      BY <1>14, <3>2
    <3>5. m[x] <= m[z + 1]
      BY <2>1, <3>2, <3>3, <3>4
    <3> QED BY <3>2, <3>5
  <2>4. \A d \in 0 .. y - x : d \in S
    <3> HIDE DEF S
    <3> QED BY <2>1, <2>2, <2>3, Inductive
  <2>5. y - x \in S /\ x + (y - x) = y
    <3>1. y - x \in 0 .. y - x
      BY <2>1
    <3> HIDE DEF S
    <3> QED BY <2>4, <3>1
  <2> QED BY <2>5
<1>17. m[0] = 0
  <2>1. 0 \in 0 .. N - 1
    BY <1>3
  <2>2. s[0]
    BY <1>13, <2>1
  <2>3. Owner(p, 0) = 0
    BY <1>13, <2>1, <2>2
  <2> QED BY <1>7, <1>9, <2>1, <2>3
<1>18. ASSUME NEW x \in Nat PROVE m[x] <= bd
  <2>1. PICK y \in Nat : y >= N /\ x <= y
    <3>1. x + N \in Nat /\ x + N >= N /\ x <= x + N
      BY <1>3
    <3> QED BY <3>1
  <2> QED BY <1>6, <1>7, <1>16, <2>1
<1> QED BY <1>1, <1>4, <1>5, <1>11, <1>12, <1>14, <1>15, <1>16, <1>17, <1>18

\* What one more round of the loop at b may take.
Cost(p, b) == Price(p, b) * Rounds(p, b)

(* A loop of an accepted operator: its body lies in the text, a word of the *)
(* body takes the verifier on by a round's cost for every round at least,  *)
(* and its count is an argument the manifest bounds, or none.              *)
LEMMA LoopsAre ==
    ASSUME NEW p, Text(p), V!Accepts(p, Manifest), FixedCounts(p), InertTails(p),
           0 \in DOMAIN p, NEW b \in Loops(p), V!Starts(p)[b]
    PROVE  LET m == Places(p)
           IN  /\ b \in 0 .. V!Size(p) - 1
               /\ SignedImm(p[b].imm) = p[b].imm /\ p[b].imm \in Nat \ {0}
               /\ EndOf(p, b) \in b + 2 .. V!Size(p)
               /\ Price(p, b) \in Nat \ {0} /\ Rounds(p, b) \in Nat \ {0} /\ Cost(p, b) \in Nat
               /\ NextPc(p, b) = b + 1
               /\ \A x \in b + 1 .. EndOf(p, b) - 1 : m[x] + Cost(p, b) <= m[NextPc(p, x)]
               /\ \/ /\ p[b].rs1 \in DOMAIN Manifest.arguments
                     /\ Manifest.arguments[p[b].rs1].hi <= Rounds(p, b)
                  \/ p[b].rs1 = 0 /\ p[b].rs1 \notin DOMAIN Manifest.arguments
<1>1. PICK N : N = V!Size(p)
  OBVIOUS
<1>2. PICK m : m = Places(p)
  OBVIOUS
<1>3. N \in Nat \ {0} /\ DOMAIN p = 0 .. N - 1
  BY <1>1, SizeIs
<1>4. b \in 0 .. N - 1 /\ p[b].op = "LOOP" /\ b \in DOMAIN p
  BY <1>3 DEF Loops, Those
<1>5. /\ p[b].imm \in Nat /\ V!SignedImm(p[b].imm) = SignedImm(p[b].imm)
      /\ V!SignedImm(p[b].imm) > 0 => V!SignedImm(p[b].imm) = p[b].imm
  BY <1>4, SignedIs
<1>6. V!SignedImm(p[b].imm) > 0 /\ b + 1 + V!SignedImm(p[b].imm) <= N
  <2>1. PICK st : st = V!States(p, Manifest)
    OBVIOUS
  <2>2. Visited(p, Manifest, st[b], b, st[b + 1]) /\ st[b + 1].ok
    <3>1. b + 1 \in 0 .. N
      BY <1>3, <1>4
    <3> QED BY <1>1, <1>4, <2>1, <3>1, Through
  <2>3. V!InstructionOK(p, Manifest, Live(st[b], b), b, p[b])
    BY <2>2 DEF Visited
  <2> QED BY <1>1, <1>4, <2>3 DEF V!InstructionOK
<1>7. /\ V!SignedImm(p[b].imm) = p[b].imm /\ SignedImm(p[b].imm) = p[b].imm
      /\ p[b].imm \in Nat \ {0}
  BY <1>5, <1>6
<1>8. EndOf(p, b) \in b + 2 .. N /\ SignedEnd(p, b) = EndOf(p, b)
  BY <1>3, <1>4, <1>6, <1>7 DEF EndOf, SignedEnd
<1>9. PICK e \in Nat : e = EndOf(p, b) /\ e = SignedEnd(p, b) /\ b + 2 <= e /\ e <= N
  BY <1>3, <1>4, <1>8
<1>10. PICK pr \in Nat \ {0} : pr = Price(p, b)
  BY <1>1, <1>4, PassCounts
<1>11. PICK n \in Nat \ {0} : n = Rounds(p, b)
  BY RoundsAre
<1>12. PICK w \in Nat : w = Cost(p, b) /\ w = pr * n
  BY <1>10, <1>11 DEF Cost
<1>13. NextPc(p, b) = b + 1
  BY <1>4 DEF NextPc, IsTwoWord, TwoWordOps
<1>14. /\ m \in [Nat -> Nat]
       /\ \A x \in Nat : m[x] <= Manifest.max_dynamic
       /\ \A x \in 0 .. N - 1 : m[NextPc(p, x)] = m[x] + Price(p, Owner(p, x))
  <2>1. PICK bd : bd = V!StaticStepBound(p, Manifest)
    OBVIOUS
  <2>2. /\ m \in [Nat -> Nat] /\ \A x \in Nat : m[x] <= bd
        /\ bd \in Nat /\ bd <= Manifest.max_dynamic
        /\ \A x \in 0 .. N - 1 : m[NextPc(p, x)] = m[x] + Price(p, Owner(p, x))
    BY <1>1, <1>2, <2>1, PlacesAre
  <2>3. ASSUME NEW x \in Nat PROVE m[x] <= Manifest.max_dynamic
    <3>1. m[x] \in Nat /\ m[x] <= bd
      BY <2>2
    <3> QED BY <2>2, <3>1, OperatorAssumption
  <2> QED BY <2>2, <2>3
<1>15. ASSUME NEW x \in b + 1 .. e - 1 PROVE m[x] + w <= m[NextPc(p, x)]
  <2>1. x \in 0 .. N - 1 /\ x \in Nat
    BY <1>3, <1>4, <1>9
  <2>2. PICK o : o = Owner(p, x)
    OBVIOUS
  <2>3. o \in 0 .. N - 1 /\ V!Starts(p)[o]
    BY <1>1, <2>1, <2>2, Tails
  <2>4. b < o /\ o < e
    <3>1. CASE V!Starts(p)[x]
      <4>1. o = x
        BY <2>2, <3>1 DEF Owner
      <4> QED BY <1>4, <1>9, <4>1
    <3>2. CASE ~V!Starts(p)[x]
      <4>1. o = x - 1
        BY <2>2, <3>2 DEF Owner
      <4>2. IsTwoWord(p[x - 1])
        BY <1>1, <2>1, <3>2, Tails
      <4>3. x - 1 # b
        BY <1>4, <4>2 DEF IsTwoWord, TwoWordOps
      <4> QED BY <1>4, <1>9, <4>1, <4>3
    <3> QED BY <3>1, <3>2
  <2>5. w <= Price(p, o)
    BY <1>1, <1>9, <1>12, <2>3, <2>4, BodyCosts DEF Cost
  <2>6. Price(p, o) \in Nat
    BY <1>1, <2>3, PassCounts
  <2>7. m[NextPc(p, x)] = m[x] + Price(p, o) /\ m[x] \in Nat
    BY <1>14, <2>1, <2>2
  <2> QED BY <2>5, <2>6, <2>7
<1>16. n < Manifest.max_dynamic
  <2>1. b \in 0 .. N - 1 /\ b + 1 \in b + 1 .. e - 1 /\ b + 1 \in 0 .. N - 1 /\ b + 1 \in Nat
        /\ b \in Nat
    BY <1>3, <1>4, <1>9
  <2>2. m[b + 1] + w <= m[NextPc(p, b + 1)]
    <3>1. PICK x \in b + 1 .. e - 1 : x = b + 1
      BY <2>1
    <3> QED BY <1>15, <3>1
  <2>3. Owner(p, b) = b
    BY DEF Owner
  <2>4. m[b + 1] = m[b] + pr /\ m[b] \in Nat
    BY <1>10, <1>13, <1>14, <2>1, <2>3
  <2>5. PICK q \in Nat : q = NextPc(p, b + 1)
    BY <2>1 DEF NextPc
  <2>6. m[q] \in Nat /\ m[q] <= Manifest.max_dynamic
    BY <1>14
  <2>7. n <= w
    <3>1. n * pr \in Nat /\ n <= n * pr
      BY Times
    <3>2. n * pr = pr * n
      OBVIOUS
    <3> QED BY <1>12, <3>1, <3>2
  <2> QED BY <2>2, <2>4, <2>5, <2>6, <2>7, OperatorAssumption
<1>17. \/ /\ p[b].rs1 \in DOMAIN Manifest.arguments
          /\ Manifest.arguments[p[b].rs1].hi <= n
       \/ p[b].rs1 = 0 /\ p[b].rs1 \notin DOMAIN Manifest.arguments
  <2>1. ~(n >= Manifest.max_dynamic)
    BY <1>16, OperatorAssumption
  <2> QED BY <1>11, <2>1, RoundsAre
<1>18. \A x \in b + 1 .. EndOf(p, b) - 1 : m[x] + Cost(p, b) <= m[NextPc(p, x)]
  BY <1>9, <1>12, <1>15
<1> QED BY <1>1, <1>2, <1>4, <1>7, <1>8, <1>10, <1>11, <1>12, <1>13, <1>17, <1>18

-----------------------------------------------------------------------------
(***************************************************************************)
(* Accounts.  The time a task has taken is shared out among the loops it   *)
(* is in: the account of a loop says what a step costs there (cost), of    *)
(* how many rounds how many are left, and when (since) and where (at) the  *)
(* present round began; the loop's body ends at until.  m[x] is what the   *)
(* verifier has counted before the word x.                                 *)
(***************************************************************************)
Account == [cost : Nat, rounds : Nat \ {0}, left : Nat \ {0}, since : Nat, at : Nat, until : Nat]

Rises(m) == m \in [Nat -> Nat] /\ \A x, y \in Nat : x <= y => m[x] <= m[y]

(* Between since and the time T the loop has used no more than its finished *)
(* rounds and the way from at to the place P allow.                        *)
Paid(m, r, T, P) ==
    /\ r.since <= T /\ r.at <= P
    /\ r.cost * (T - r.since) <= (r.rounds - r.left) * (m[r.until] - m[r.at]) + (m[P] - m[r.at])

Covers(p, m, r) == \A x \in r.at .. r.until - 1 : m[x] + r.cost <= m[NextPc(p, x)]

LEMMA Pays ==
    ASSUME NEW p, NEW m, Rises(m), NEW r \in Account, Covers(p, m, r),
           NEW T \in Nat, NEW pc \in Nat, NEW np \in Nat, Paid(m, r, T, pc),
           pc < r.until, pc < np, NextPc(p, pc) <= np
    PROVE  Paid(m, r, T + 1, np)
<1>1. PICK w \in Nat, n \in Nat \ {0}, l \in Nat \ {0}, s \in Nat, at \in Nat, u \in Nat :
             r.cost = w /\ r.rounds = n /\ r.left = l /\ r.since = s /\ r.at = at /\ r.until = u
  BY DEF Account
<1>2. s <= T /\ at <= pc /\ w * (T - s) <= (n - l) * (m[u] - m[at]) + (m[pc] - m[at])
  BY <1>1 DEF Paid
<1>3. PICK q \in Nat : q = NextPc(p, pc)
  BY DEF NextPc
<1>4. m[pc] + w <= m[q] /\ m[q] <= m[np]
  <2>1. pc \in at .. u - 1
    BY <1>1, <1>2
  <2> QED BY <1>1, <1>3, <2>1 DEF Covers, Rises
<1>5. PICK A \in Int : A = (n - l) * (m[u] - m[at])
  <2>1. m[u] \in Nat /\ m[at] \in Nat
    BY DEF Rises
  <2>2. (n - l) * (m[u] - m[at]) \in Int
    BY <2>1
  <2> QED BY <2>2
<1>6. m[pc] \in Nat /\ m[q] \in Nat /\ m[np] \in Nat /\ m[at] \in Nat
  BY DEF Rises
<1>7. PICK d \in Nat : d = T - s
  BY <1>2
<1>8. T + 1 - s = d + 1 /\ w * (d + 1) = w * d + w /\ w * d \in Int
  BY <1>7
<1>9. w * (T + 1 - s) <= A + (m[np] - m[at])
  BY <1>2, <1>4, <1>5, <1>6, <1>7, <1>8
<1>10. s <= T + 1 /\ at <= np
  BY <1>2
<1> QED BY <1>1, <1>5, <1>9, <1>10 DEF Paid

LEMMA AllRounds ==
    ASSUME NEW n \in Nat, NEW l \in Nat \ {0}, l <= n, NEW d \in Nat, NEW y \in Nat, d <= y
    PROVE  (n - l) * d + y <= n * y
<1>1. PICK k \in Nat : k = n - l
  OBVIOUS
<1>2. PICK e \in Nat : y = d + e
  <2>1. y - d \in Nat /\ y = d + (y - d)
    OBVIOUS
  <2> QED BY <2>1
<1>3. k * y = k * d + k * e /\ k * e \in Nat /\ k * d \in Nat
  BY <1>2
<1>4. PICK j \in Nat : l = j + 1
  <2>1. l - 1 \in Nat /\ l = (l - 1) + 1
    OBVIOUS
  <2> QED BY <2>1
<1>5. n = k + j + 1
  BY <1>1, <1>4
<1>6. n * y = k * y + j * y + y /\ j * y \in Nat /\ k * y \in Nat
  BY <1>5
<1> QED BY <1>1, <1>3, <1>6

(* A loop that is left has cost the loop around it no more than the way.    *)
LEMMA Settles ==
    ASSUME NEW m, Rises(m), NEW r \in Account, NEW q \in Account, NEW T \in Nat, NEW P \in Nat,
           Paid(m, r, q.since, q.at), q.rounds * r.cost <= q.cost, q.left <= q.rounds,
           q.at <= q.until, Paid(m, q, T, P), q.until <= P
    PROVE  Paid(m, r, T, P)
<1>1. PICK w \in Nat, n \in Nat \ {0}, l \in Nat \ {0}, s \in Nat, at \in Nat, u \in Nat :
             q.cost = w /\ q.rounds = n /\ q.left = l /\ q.since = s /\ q.at = at /\ q.until = u
  BY DEF Account
<1>2. PICK v \in Nat, k \in Nat \ {0}, f \in Nat \ {0}, s0 \in Nat, at0 \in Nat, u0 \in Nat :
             r.cost = v /\ r.rounds = k /\ r.left = f /\ r.since = s0 /\ r.at = at0 /\ r.until = u0
  BY DEF Account
<1>3. /\ s <= T /\ at <= P /\ w * (T - s) <= (n - l) * (m[u] - m[at]) + (m[P] - m[at])
      /\ at <= u /\ u <= P /\ l <= n
  BY <1>1 DEF Paid
<1>4. s0 <= s /\ at0 <= at /\ v * (s - s0) <= (k - f) * (m[u0] - m[at0]) + (m[at] - m[at0])
  BY <1>1, <1>2 DEF Paid
<1>5. m[u] \in Nat /\ m[at] \in Nat /\ m[P] \in Nat /\ m[at0] \in Nat /\ m[u0] \in Nat
  BY DEF Rises
<1>6. m[at] <= m[u] /\ m[u] <= m[P]
  BY <1>3 DEF Rises
<1>7. PICK d \in Nat, y \in Nat : d = m[u] - m[at] /\ y = m[P] - m[at] /\ d <= y
  <2>1. m[u] - m[at] \in Nat /\ m[P] - m[at] \in Nat /\ m[u] - m[at] <= m[P] - m[at]
    BY <1>5, <1>6
  <2> QED BY <2>1
<1>8. PICK x \in Nat : x = T - s
  BY <1>3
<1>9. v * x <= y
  <2>1. n * v <= w
    BY <1>1, <1>2
  <2>2. (n - l) * d + y <= n * y
    BY <1>3, <1>7, AllRounds
  <2>3. w * x <= (n - l) * d + y
    BY <1>3, <1>7, <1>8
  <2>4. w * x \in Int /\ (n - l) * d + y \in Int /\ n * y \in Int
    OBVIOUS
  <2>5. w * x <= n * y
    BY <2>2, <2>3, <2>4
  <2> QED BY <2>1, <2>5, Scale
<1>10. PICK A \in Int : A = (k - f) * (m[u0] - m[at0])
  <2>1. (k - f) * (m[u0] - m[at0]) \in Int
    BY <1>5
  <2> QED BY <2>1
<1>11. PICK z \in Nat : z = s - s0
  BY <1>4
<1>12. T - s0 = z + x /\ v * (z + x) = v * z + v * x /\ v * z \in Int /\ v * x \in Int
  BY <1>8, <1>11
<1>13. v * z <= A + (m[at] - m[at0])
  BY <1>4, <1>10, <1>11
<1>14. v * (T - s0) <= A + (m[P] - m[at0])
  BY <1>5, <1>7, <1>9, <1>12, <1>13
<1>15. s0 <= T /\ at0 <= P
  BY <1>3, <1>4
<1> QED BY <1>2, <1>10, <1>14, <1>15 DEF Paid

(* At the end of a round the next one begins.                              *)
LEMMA BeginsAgain ==
    ASSUME NEW m, Rises(m), NEW r \in Account, NEW T \in Nat, r.left > 1, r.left <= r.rounds,
           Paid(m, r, T, r.until), NEW q, q = [r EXCEPT !.left = @ - 1]
    PROVE  q \in Account /\ q.left <= q.rounds /\ Paid(m, q, T, r.at)
<1>1. PICK w \in Nat, n \in Nat \ {0}, l \in Nat \ {0}, s \in Nat, at \in Nat, u \in Nat :
             r = [cost |-> w, rounds |-> n, left |-> l, since |-> s, at |-> at, until |-> u]
  BY DEF Account
<1>2. q = [cost |-> w, rounds |-> n, left |-> l - 1, since |-> s, at |-> at, until |-> u]
  BY <1>1
<1>3. l - 1 \in Nat \ {0} /\ l - 1 <= n /\ l <= n
  BY <1>1
<1>4. q \in Account /\ q.left <= q.rounds
  BY <1>2, <1>3 DEF Account
<1>5. s <= T /\ at <= u /\ w * (T - s) <= (n - l) * (m[u] - m[at]) + (m[u] - m[at])
  BY <1>1 DEF Paid
<1>6. m[u] \in Nat /\ m[at] \in Nat
  BY DEF Rises
<1>7. PICK d \in Int : d = m[u] - m[at]
  BY <1>6
<1>8. PICK e \in Int : e = m[at] - m[at] /\ e = 0
  BY <1>6
<1>9. (n - (l - 1)) * d = (n - l) * d + d /\ (n - l) * d \in Int
  OBVIOUS
<1>10. w * (T - s) <= (n - (l - 1)) * d + e
  <2>1. w * (T - s) \in Int
    OBVIOUS
  <2> QED BY <1>5, <1>7, <1>8, <1>9, <2>1
<1>11. Paid(m, q, T, at)
  BY <1>2, <1>5, <1>7, <1>8, <1>10 DEF Paid
<1> QED BY <1>1, <1>4, <1>11

Fits(p, m, r) ==
    /\ r \in Account /\ r.left <= r.rounds
    /\ r.at < r.until /\ r.until <= V!Size(p) /\ Covers(p, m, r)
\* The account of a task outside of all loops.
Outermost(p) ==
    [cost |-> 1, rounds |-> 1, left |-> 1, since |-> 0, at |-> 0, until |-> V!Size(p)]

(* The accounts of h loops, each within the one before it, at time T, for a *)
(* task that has come to P.                                                *)
Accounts(p, m, a, h, T, P) ==
    /\ \A i \in 0 .. h : Fits(p, m, a[i])
    /\ \A i \in 1 .. h : /\ Paid(m, a[i - 1], a[i].since, a[i].at)
                         /\ a[i].rounds * a[i - 1].cost <= a[i].cost
    /\ \A i, j \in 0 .. h : i <= j => a[i].at <= a[j].at
    /\ Paid(m, a[h], T, P)
    /\ a[0] = Outermost(p)

LEMMA Unwinds ==
    ASSUME NEW p, NEW m, Rises(m), NEW h \in Nat, NEW k \in 0 .. h, NEW T \in Nat, NEW P \in Nat,
           NEW a, Accounts(p, m, a, h, T, P), \A i \in k + 1 .. h : a[i].until <= P
    PROVE  Accounts(p, m, a, k, T, P)
<1> DEFINE S == {d \in 0 .. h - k : Accounts(p, m, a, h - d, T, P)}
<1>1. h - k \in Nat
  OBVIOUS
<1>2. 0 \in S
  <2>1. h - 0 = h
    OBVIOUS
  <2> QED BY <1>1, <2>1
<1>3. ASSUME NEW d \in 0 .. h - k - 1, d \in S PROVE d + 1 \in S
  <2>1. PICK i \in k + 1 .. h : i = h - d
    BY <1>1
  <2>2. i \in 1 .. h /\ i - 1 \in 0 .. h /\ h - (d + 1) = i - 1 /\ d + 1 \in 0 .. h - k
        /\ i \in 0 .. i /\ i - 1 \in 0 .. i /\ i \in 1 .. i
    BY <1>1, <2>1
  <2>3. Accounts(p, m, a, i, T, P)
    BY <1>3, <2>1
  <2>4. Fits(p, m, a[i]) /\ Fits(p, m, a[i - 1]) /\ Paid(m, a[i], T, P)
        /\ Paid(m, a[i - 1], a[i].since, a[i].at) /\ a[i].rounds * a[i - 1].cost <= a[i].cost
    BY <2>2, <2>3 DEF Accounts
  <2>5. PICK q \in Account : q = a[i] /\ q.left <= q.rounds /\ q.at <= q.until
    <3>1. a[i] \in Account /\ a[i].left <= a[i].rounds /\ a[i].at < a[i].until
      BY <2>4 DEF Fits
    <3>2. a[i].at \in Nat /\ a[i].until \in Nat
      BY <3>1 DEF Account
    <3>3. a[i].at <= a[i].until
      BY <3>1, <3>2
    <3> QED BY <3>1, <3>3
  <2>6. PICK r \in Account : r = a[i - 1]
    BY <2>4 DEF Fits
  <2>7. q.until <= P
    BY <2>5
  <2>8. Paid(m, r, T, P)
    BY <2>4, <2>5, <2>6, <2>7, Settles
  <2>9. \A j \in 0 .. i - 1 : j \in 0 .. i
    BY <2>2
  <2>10. \A j \in 1 .. i - 1 : j \in 1 .. i
    BY <2>2
  <2>11. Accounts(p, m, a, i - 1, T, P)
    BY <2>3, <2>6, <2>8, <2>9, <2>10 DEF Accounts
  <2> QED BY <2>2, <2>11
<1>4. \A d \in 0 .. h - k : d \in S
  <2> HIDE DEF S
  <2> QED BY <1>1, <1>2, <1>3, Inductive
<1>5. h - k \in S /\ h - (h - k) = k
  <2>1. h - k \in 0 .. h - k
    BY <1>1
  <2> HIDE DEF S
  <2> QED BY <1>4, <2>1
<1> QED BY <1>5

(* No step of a task takes it over what the verifier has counted in all.    *)
LEMMA InTheBound ==
    ASSUME NEW p, V!Size(p) \in Nat, NEW m, Rises(m), m[0] = 0,
           NEW bd \in Nat, \A x \in Nat : m[x] <= bd,
           NEW h \in Nat, NEW T \in Nat, NEW pc \in Nat, NEW a,
           Accounts(p, m, a, h, T, pc), pc < a[h].until
    PROVE  T + 1 <= bd
<1>1. PICK N \in Nat : N = V!Size(p)
  OBVIOUS
<1>2. h \in 0 .. h /\ 0 \in 0 .. h
  OBVIOUS
<1>3. Fits(p, m, a[h]) /\ Paid(m, a[h], T, pc) /\ a[0] = Outermost(p)
  BY <1>2 DEF Accounts
<1>4. PICK r \in Account : r = a[h] /\ Covers(p, m, r) /\ r.until <= N /\ r.until \in Nat
  BY <1>1, <1>3 DEF Fits, Account
<1>5. PICK np \in Nat : np = N + 1
  BY <1>1
<1>6. pc < np /\ NextPc(p, pc) <= np
  <2>1. pc < N
    BY <1>4
  <2> QED BY <1>5, <2>1 DEF NextPc
<1>7. Paid(m, r, T + 1, np)
  BY <1>3, <1>4, <1>6, Pays
<1>8. Accounts(p, m, a, h, T + 1, np)
  BY <1>4, <1>7 DEF Accounts
<1>9. \A i \in 0 + 1 .. h : a[i].until <= np
  <2> SUFFICES ASSUME NEW i \in 0 + 1 .. h PROVE a[i].until <= np
    OBVIOUS
  <2>1. i \in 0 .. h
    OBVIOUS
  <2>2. Fits(p, m, a[i])
    BY <2>1 DEF Accounts
  <2>3. a[i].until <= N /\ a[i].until \in Nat
    BY <1>1, <2>2 DEF Fits, Account
  <2> QED BY <1>5, <2>3
<1>10. Accounts(p, m, a, 0, T + 1, np)
  <2>1. T + 1 \in Nat
    OBVIOUS
  <2> QED BY <1>2, <1>8, <1>9, <2>1, Unwinds
<1>11. Paid(m, Outermost(p), T + 1, np)
  BY <1>3, <1>10 DEF Accounts
<1>12. PICK x \in Int : x = m[N] - m[0]
  BY <1>1 DEF Rises
<1>13. 1 * (T + 1 - 0) <= (1 - 1) * x + (m[np] - m[0])
  BY <1>1, <1>11, <1>12 DEF Paid, Outermost
<1>14. (1 - 1) * x = 0 /\ m[np] \in Nat /\ m[np] <= bd
  BY DEF Rises
<1> QED BY <1>13, <1>14

(* The loops a task has left, on its way or by a branch, take no part any   *)
(* more: their accounts begin anew, as the one around them stands.         *)
LEMMA Leaves ==
    ASSUME NEW p, V!Size(p) \in Nat, NEW m, Rises(m), NEW k \in Nat, NEW T \in Nat,
           NEW np \in Nat, np < V!Size(p), NEW a, Accounts(p, m, a, k, T, np)
    PROVE  \E b : /\ Accounts(p, m, b, k, T, np) /\ np < b[k].until
                  /\ \A i \in 1 .. k : b[i] = a[i] \/ (b[i].at = np /\ a[i].until <= np)
<1>1. PICK N \in Nat : N = V!Size(p)
  OBVIOUS
<1>2. \A i \in 0 .. k : a[i].until \in Nat /\ a[i].at \in Nat
  BY DEF Accounts, Fits, Account
<1> DEFINE S == {i \in 0 .. k : a[i].until > np}
<1>3. PICK j \in 0 .. k : a[j].until > np /\ \A i \in j + 1 .. k : a[i].until <= np
  <2>1. a[0].until = N
    BY <1>1 DEF Accounts, Outermost
  <2>2. 0 \in S /\ S \subseteq 0 .. k
    BY <1>1, <2>1
  <2>3. PICK j : j = Max(S)
    OBVIOUS
  <2>4. j \in S /\ \A x \in S : x <= j
    <3> HIDE DEF S
    <3> QED BY <2>2, <2>3, MaxIs
  <2>5. j \in 0 .. k /\ a[j].until > np
    BY <2>4
  <2>6. ASSUME NEW i \in j + 1 .. k PROVE a[i].until <= np
    <3>1. i \in 0 .. k /\ ~(i <= j)
      BY <2>5
    <3>2. i \notin S
      <4> HIDE DEF S
      <4> QED BY <2>4, <3>1
    <3>3. ~(a[i].until > np)
      BY <3>1, <3>2
    <3> QED BY <1>2, <3>1, <3>3
  <2> QED BY <2>5, <2>6
<1> HIDE DEF S
<1>4. Accounts(p, m, a, j, T, np)
  BY <1>3, Unwinds
<1>5. PICK w \in Nat, u \in Nat : w = a[j].cost /\ u = a[j].until /\ np < u /\ u <= N
  <2>1. Fits(p, m, a[j])
    BY <1>3 DEF Accounts
  <2> QED BY <1>1, <1>3, <2>1 DEF Fits, Account
<1>6. PICK c : c = [cost |-> w, rounds |-> 1, left |-> 1, since |-> T, at |-> np, until |-> u]
  OBVIOUS
<1>7. c \in Account
  BY <1>6 DEF Account
<1>8. a[j].at <= np /\ Paid(m, a[j], T, np) /\ a[j].at \in Nat
  BY <1>2, <1>4 DEF Accounts, Paid
<1>9. Fits(p, m, c)
  <2>1. Covers(p, m, a[j])
    BY <1>3 DEF Accounts, Fits
  <2>2. Covers(p, m, c)
    <3> SUFFICES ASSUME NEW x \in np .. u - 1 PROVE m[x] + w <= m[NextPc(p, x)]
      BY <1>6 DEF Covers
    <3>1. x \in a[j].at .. a[j].until - 1
      BY <1>5, <1>8
    <3> QED BY <1>5, <2>1, <3>1 DEF Covers
  <2> QED BY <1>1, <1>5, <1>6, <1>7, <2>2 DEF Fits
<1>10. Paid(m, c, T, np)
  <2>1. PICK x \in Int : x = m[u] - m[np]
    BY DEF Rises
  <2>2. m[np] \in Nat
    BY DEF Rises
  <2>3. w * (T - T) <= (1 - 1) * x + (m[np] - m[np])
    BY <2>2
  <2> QED BY <1>6, <2>1, <2>3 DEF Paid
<1>11. PICK b : b = [i \in 0 .. k |-> IF i <= j THEN a[i] ELSE c]
  OBVIOUS
<1>12. \A i \in 0 .. k : b[i] = IF i <= j THEN a[i] ELSE c
  BY <1>11
<1>13. \A i \in 0 .. k : Fits(p, m, b[i])
  BY <1>9, <1>12 DEF Accounts
<1>14. ASSUME NEW i \in 1 .. k
       PROVE  /\ Paid(m, b[i - 1], b[i].since, b[i].at)
              /\ b[i].rounds * b[i - 1].cost <= b[i].cost
  <2>1. i \in 0 .. k /\ i - 1 \in 0 .. k
    OBVIOUS
  <2>2. CASE i <= j
    <3>1. b[i] = a[i] /\ b[i - 1] = a[i - 1]
      BY <1>12, <2>1, <2>2
    <3> QED BY <3>1 DEF Accounts
  <2>3. CASE ~(i <= j)
    <3>1. b[i] = c
      BY <1>12, <2>1, <2>3
    <3>2. b[i - 1] = c \/ b[i - 1] = a[j]
      <4>1. i - 1 <= j => i - 1 = j
        BY <2>3
      <4> QED BY <1>12, <2>1, <4>1
    <3>3. b[i - 1].cost = w /\ c.rounds = 1 /\ c.cost = w /\ c.since = T /\ c.at = np
      BY <1>5, <1>6, <3>2
    <3>4. 1 * w <= w
      OBVIOUS
    <3> QED BY <1>8, <1>10, <3>1, <3>2, <3>3, <3>4
  <2> QED BY <2>2, <2>3
<1>15. ASSUME NEW i \in 0 .. k, NEW l \in 0 .. k, i <= l PROVE b[i].at <= b[l].at
  <2>1. CASE l <= j
    <3>1. b[i] = a[i] /\ b[l] = a[l]
      BY <1>12, <1>15, <2>1
    <3> QED BY <1>15, <3>1 DEF Accounts
  <2>2. CASE ~(l <= j)
    <3>1. b[l].at = np
      BY <1>6, <1>12, <2>2
    <3>2. CASE i <= j
      <4>1. a[i].at <= a[j].at
        BY <3>2 DEF Accounts
      <4>2. b[i] = a[i]
        BY <1>12, <3>2
      <4> QED BY <1>2, <1>8, <3>1, <4>1, <4>2
    <3>3. CASE ~(i <= j)
      BY <1>6, <1>12, <3>1, <3>3
    <3> QED BY <3>2, <3>3
  <2> QED BY <2>1, <2>2
<1>16. Paid(m, b[k], T, np) /\ np < b[k].until
  <2>1. k \in 0 .. k /\ (k <= j => k = j)
    OBVIOUS
  <2>2. b[k] = a[j] \/ b[k] = c
    BY <1>12, <2>1
  <2> QED BY <1>5, <1>6, <1>8, <1>10, <2>2
<1>17. b[0] = Outermost(p)
  <2>1. b[0] = a[0]
    BY <1>12
  <2> QED BY <2>1 DEF Accounts
<1>18. Accounts(p, m, b, k, T, np)
  BY <1>13, <1>14, <1>15, <1>16, <1>17 DEF Accounts
<1>19. ASSUME NEW i \in 1 .. k PROVE b[i] = a[i] \/ (b[i].at = np /\ a[i].until <= np)
  <2>1. i \in 0 .. k /\ (~(i <= j) => i \in j + 1 .. k)
    OBVIOUS
  <2> QED BY <1>3, <1>6, <1>12, <2>1
<1> QED BY <1>16, <1>18, <1>19

-----------------------------------------------------------------------------
(***************************************************************************)
(* The loop stack and the accounts.  A frame still counts its loop's rounds *)
(* (Open), or the task is past its end and it never matches again.         *)
(***************************************************************************)
LoopFrames == [start : Nat, end : Nat, remaining : Nat]
Open(fr, r) == fr.start = r.at /\ fr.end = r.until /\ fr.remaining = r.left
Linked(fr, r) == Open(fr, r) \/ fr.end <= r.at

OnTime(p, m, s, T, pc) ==
    /\ s \in Seq(LoopFrames)
    /\ \E a : /\ Accounts(p, m, a, Len(s), T, pc) /\ pc < a[Len(s)].until
              /\ \A i \in 1 .. Len(s) : Linked(s[i], a[i])

LEMMA GoesOn ==
    ASSUME NEW p, Text(p), words = p, NEW m, Rises(m), NEW s \in Seq(LoopFrames),
           NEW T \in Nat, NEW np \in Nat, NEW a, Accounts(p, m, a, Len(s), T, np),
           \A i \in 1 .. Len(s) : Linked(s[i], a[i]) /\ (s[i].end = np => Open(s[i], a[i])),
           VMGoTo(np, s), ~halted'
    PROVE  OnTime(p, m, loopStack', T, vpc') /\ vpc' \in 0 .. V!Size(p) - 1
<1> DEFINE lastTime(i) == s[i].end = np /\ s[i].remaining <= 1
           Is(j) == (\A i \in j + 1 .. Len(s) : lastTime(i)) /\ (j > 0 => ~lastTime(j))
<1>1. PICK h \in Nat : h = Len(s)
  OBVIOUS
<1>2. \E j \in 0 .. Len(s) : Is(j)
  <2> DEFINE U == {j \in 0 .. Len(s) : \A i \in j + 1 .. Len(s) : lastTime(i)}
  <2>1. Len(s) \in U /\ U \subseteq Nat
    OBVIOUS
  <2>2. PICK j \in U : \A k \in U : j <= k
    <3> HIDE DEF U
    <3> QED BY <2>1, LeastNat
  <2>3. ASSUME j > 0, lastTime(j) PROVE FALSE
    <3>1. j - 1 \in 0 .. Len(s) /\ \A i \in j - 1 + 1 .. Len(s) : i = j \/ i \in j + 1 .. Len(s)
      BY <2>2, <2>3
    <3>2. \A i \in j - 1 + 1 .. Len(s) : lastTime(i)
      BY <2>2, <2>3, <3>1
    <3>3. j - 1 \in U
      BY <3>1, <3>2
    <3>4. j \in Nat
      BY <2>1
    <3> HIDE DEF U
    <3> QED BY <2>2, <3>3, <3>4
  <2> QED BY <2>2, <2>3
<1>3. PICK k \in 0 .. Len(s) : k = (CHOOSE j \in 0 .. Len(s) : Is(j)) /\ Is(k)
  <2>1. PICK c : c = (CHOOSE j \in 0 .. Len(s) : Is(j))
    OBVIOUS
  <2>2. c \in 0 .. Len(s) /\ Is(c)
    <3> HIDE DEF Is
    <3> QED BY <1>2, <2>1
  <2> HIDE DEF Is
  <2> QED BY <2>1, <2>2
<1>4. PICK kept : kept = SubSeq(s, 1, k)
  OBVIOUS
<1>5. kept \in Seq(LoopFrames) /\ Len(kept) = k /\ \A i \in 1 .. k : kept[i] = s[i]
  <2>1. /\ SubSeq(s, 1, k) \in Seq(LoopFrames) /\ Len(SubSeq(s, 1, k)) = k
        /\ \A i \in 1 .. k : SubSeq(s, 1, k)[i] = s[i]
    OBVIOUS
  <2> QED BY <1>4, <2>1
<1>6. /\ loopStack' = IF k > 0 /\ s[k].end = np
                      THEN [kept EXCEPT ![k].remaining = @ - 1] ELSE kept
      /\ vpc' = IF k > 0 /\ s[k].end = np THEN s[k].start ELSE np
      /\ ~(vpc' >= Len0)
  BY <1>3, <1>4 DEF VMGoTo
<1>7. \A i \in k + 1 .. h : s[i].end = np
  BY <1>1, <1>3 DEF Is
<1>8. k > 0 /\ s[k].end = np => ~(s[k].remaining <= 1)
  BY <1>3 DEF Is
<1> HIDE DEF Is
<1>9. k \in 0 .. h /\ k \in Nat /\ \A i \in 1 .. k : i \in 1 .. h
  BY <1>1, <1>3
<1>10. Len0 = V!Size(p) /\ V!Size(p) \in Nat
  BY SizeIs DEF Len0, V!Size, V!Cardinality, Cardinality
<1>11. \A i \in 0 .. h : Fits(p, m, a[i])
  BY <1>1 DEF Accounts
<1>12. Accounts(p, m, a, k, T, np)
  <2>1. ASSUME NEW i \in k + 1 .. h PROVE a[i].until <= np
    <3>1. i \in 1 .. h /\ i \in 0 .. h
      BY <1>9
    <3>2. a[i].until = np
      BY <1>1, <1>7, <3>1 DEF Open
    <3> QED BY <3>2
  <2> QED BY <1>1, <1>9, <2>1, Unwinds
<1>13. CASE k > 0 /\ s[k].end = np
  <2>1. k \in 1 .. k /\ k \in 1 .. h /\ k \in 0 .. k /\ k \in 0 .. h
    BY <1>9, <1>13
  <2>2. PICK r \in Account : r = a[k] /\ Fits(p, m, r)
    BY <1>11, <2>1 DEF Fits
  <2>3. s[k].start = r.at /\ r.until = np /\ s[k].remaining = r.left
    BY <1>1, <1>13, <2>1, <2>2 DEF Open
  <2>4. r.left \in Nat /\ r.left > 1 /\ r.left <= r.rounds /\ r.at \in Nat /\ r.until \in Nat
        /\ r.at < r.until /\ r.until <= V!Size(p) /\ Covers(p, m, r)
    BY <1>8, <1>13, <2>2, <2>3 DEF Fits, Account
  <2>5. PICK q : q = [r EXCEPT !.left = @ - 1]
    OBVIOUS
  <2>6. Paid(m, r, T, r.until)
    BY <1>12, <2>2, <2>3 DEF Accounts
  <2>7. q \in Account /\ q.left <= q.rounds /\ Paid(m, q, T, r.at)
    BY <2>2, <2>4, <2>5, <2>6, BeginsAgain
  <2>8. /\ q.cost = r.cost /\ q.rounds = r.rounds /\ q.left = r.left - 1
        /\ q.since = r.since /\ q.at = r.at /\ q.until = r.until
    BY <2>2, <2>5 DEF Account
  <2>9. Fits(p, m, q)
    BY <2>2, <2>7, <2>8 DEF Fits, Covers
  <2>10. PICK b : b = [i \in 0 .. k |-> IF i = k THEN q ELSE a[i]]
    OBVIOUS
  <2>11. b[k] = q /\ \A i \in 0 .. k : i # k => b[i] = a[i]
    BY <2>1, <2>10
  <2>12. \A i \in 0 .. k : b[i].at = a[i].at /\ b[i].since = a[i].since
                           /\ b[i].rounds = a[i].rounds /\ b[i].cost = a[i].cost
    BY <2>2, <2>8, <2>11
  <2>13. Accounts(p, m, b, k, T, r.at)
    <3>1. \A i \in 0 .. k : Fits(p, m, b[i])
      BY <1>12, <2>9, <2>11 DEF Accounts
    <3>2. ASSUME NEW i \in 1 .. k
          PROVE  /\ Paid(m, b[i - 1], b[i].since, b[i].at)
                 /\ b[i].rounds * b[i - 1].cost <= b[i].cost
      <4>1. i \in 0 .. k /\ i - 1 \in 0 .. k /\ i - 1 # k
        BY <1>9
      <4>2. b[i - 1] = a[i - 1]
        BY <2>11, <4>1
      <4>3. b[i].since = a[i].since /\ b[i].at = a[i].at /\ b[i].rounds = a[i].rounds
            /\ b[i].cost = a[i].cost
        BY <2>12, <4>1
      <4> QED BY <1>12, <4>2, <4>3 DEF Accounts
    <3>3. \A i, j \in 0 .. k : i <= j => b[i].at <= b[j].at
      BY <1>12, <2>12 DEF Accounts
    <3>4. b[0] = Outermost(p)
      BY <1>9, <1>12, <1>13, <2>11 DEF Accounts
    <3> QED BY <2>7, <2>11, <3>1, <3>2, <3>3, <3>4 DEF Accounts
  <2>14. PICK fr : fr = [kept[k] EXCEPT !.remaining = @ - 1]
    OBVIOUS
  <2>15. fr \in LoopFrames /\ fr.start = r.at /\ fr.end = np /\ fr.remaining = q.left
    <3>1. kept[k] = s[k] /\ s[k] \in LoopFrames
      BY <1>1, <1>5, <2>1
    <3>2. s[k].remaining - 1 \in Nat
      BY <2>3, <2>4
    <3> QED BY <1>13, <2>3, <2>8, <2>14, <3>1, <3>2 DEF LoopFrames
  <2>16. PICK t : t = [kept EXCEPT ![k] = fr]
    OBVIOUS
  <2>17. loopStack' = t /\ vpc' = r.at
    BY <1>6, <1>13, <2>3, <2>14, <2>16
  <2>18. t \in Seq(LoopFrames) /\ Len(t) = k /\ \A i \in 1 .. k : t[i] = IF i = k THEN fr ELSE s[i]
    BY <1>5, <2>1, <2>15, <2>16
  <2>19. \A i \in 1 .. k : Linked(t[i], b[i])
    <3> SUFFICES ASSUME NEW i \in 1 .. k PROVE Linked(t[i], b[i])
      OBVIOUS
    <3>1. CASE i = k
      <4>1. t[i] = fr /\ b[i] = q
        BY <2>11, <2>18, <3>1
      <4> QED BY <2>3, <2>8, <2>15, <4>1 DEF Linked, Open
    <3>2. CASE i # k
      <4>1. t[i] = s[i] /\ b[i] = a[i] /\ i \in 1 .. h
        BY <1>9, <2>11, <2>18, <3>2
      <4> QED BY <1>1, <4>1
    <3> QED BY <3>1, <3>2
  <2>20. r.at < b[k].until
    BY <2>4, <2>8, <2>11
  <2>21. OnTime(p, m, t, T, r.at)
    BY <2>13, <2>18, <2>19, <2>20 DEF OnTime
  <2>22. r.at \in 0 .. V!Size(p) - 1
    BY <1>10, <2>4
  <2> QED BY <2>17, <2>21, <2>22
<1>14. CASE ~(k > 0 /\ s[k].end = np)
  <2>1. loopStack' = kept /\ vpc' = np
    BY <1>6, <1>14
  <2>2. np < V!Size(p)
    BY <1>6, <1>10, <2>1
  <2>3. PICK b : /\ Accounts(p, m, b, k, T, np) /\ np < b[k].until
                 /\ \A i \in 1 .. k : b[i] = a[i] \/ (b[i].at = np /\ a[i].until <= np)
    BY <1>9, <1>10, <1>12, <2>2, Leaves
  <2>4. ASSUME NEW i \in 1 .. k PROVE Linked(kept[i], b[i])
    <3>1. kept[i] = s[i] /\ i \in 1 .. h /\ i \in 0 .. k /\ i \in 0 .. h
      BY <1>5, <1>9
    <3>2. Linked(s[i], a[i])
      BY <1>1, <3>1
    <3>3. CASE b[i] = a[i]
      BY <3>1, <3>2, <3>3
    <3>4. CASE b[i].at = np /\ a[i].until <= np
      <4>1. a[i].at \in Nat /\ a[i].until \in Nat /\ a[i].at < a[i].until
        BY <1>11, <3>1 DEF Fits, Account
      <4>2. s[i].end \in Nat
        <5>1. s[i] \in LoopFrames
          BY <1>1, <3>1
        <5> QED BY <5>1 DEF LoopFrames
      <4>3. s[i].end <= np
        BY <3>2, <3>4, <4>1, <4>2 DEF Linked, Open
      <4> QED BY <3>1, <3>4, <4>3 DEF Linked
    <3> QED BY <2>3, <3>3, <3>4
  <2>5. OnTime(p, m, kept, T, np)
    BY <1>5, <2>3, <2>4 DEF OnTime
  <2>6. np \in 0 .. V!Size(p) - 1
    BY <1>10, <2>2
  <2> QED BY <2>1, <2>5, <2>6
<1> QED BY <1>13, <1>14

(* A step ahead: the task goes on from np, past the instruction at pc.      *)
LEMMA StepsAhead ==
    ASSUME NEW p, Text(p), words = p, NEW m, Rises(m), NEW s, NEW T \in Nat, NEW pc \in Nat,
           OnTime(p, m, s, T, pc), NEW np \in Nat, pc < np, NextPc(p, pc) <= np,
           VMGoTo(np, s), ~halted'
    PROVE  OnTime(p, m, loopStack', T + 1, vpc') /\ vpc' \in 0 .. V!Size(p) - 1
<1>1. s \in Seq(LoopFrames)
  BY DEF OnTime
<1>2. PICK h \in Nat : h = Len(s)
  BY <1>1
<1>3. PICK a : /\ Accounts(p, m, a, h, T, pc) /\ pc < a[h].until
               /\ \A i \in 1 .. h : Linked(s[i], a[i])
  BY <1>2 DEF OnTime
<1>4. h \in 0 .. h
  BY <1>2
<1>5. a[h] \in Account /\ Covers(p, m, a[h]) /\ Paid(m, a[h], T, pc)
  BY <1>3, <1>4 DEF Accounts, Fits
<1>6. Paid(m, a[h], T + 1, np)
  BY <1>3, <1>5, Pays
<1>7. Accounts(p, m, a, h, T + 1, np)
  BY <1>3, <1>6 DEF Accounts
<1>8. ASSUME NEW i \in 1 .. h, s[i].end = np PROVE Open(s[i], a[i])
  <2>1. i \in 0 .. h
    OBVIOUS
  <2>2. a[i].at \in Nat /\ a[h].at \in Nat
    BY <1>3, <1>4, <2>1 DEF Accounts, Fits, Account
  <2>3. a[i].at <= a[h].at /\ a[h].at <= pc
    BY <1>3, <1>4, <1>5, <2>1 DEF Accounts, Paid
  <2>4. ~(s[i].end <= a[i].at)
    BY <1>8, <2>2, <2>3
  <2> QED BY <1>3, <2>4 DEF Linked
<1>9. T + 1 \in Nat
  OBVIOUS
<1> QED BY <1>1, <1>2, <1>3, <1>7, <1>8, <1>9, GoesOn

(* A loop is entered: its account is opened, the rounds that are not taken  *)
(* being taken off the time it has.                                        *)
LEMMA Enters ==
    ASSUME NEW p, Text(p), V!Accepts(p, Manifest), FixedCounts(p), InertTails(p),
           0 \in DOMAIN p, words = p, Rises(Places(p)), NEW s, NEW T \in Nat,
           NEW pc \in Loops(p), V!Starts(p)[pc], OnTime(p, Places(p), s, T, pc),
           NEW c \in 1 .. Rounds(p, pc),
           VMGoTo(pc + 1, Append(s, [start |-> pc + 1, end |-> EndOf(p, pc), remaining |-> c])),
           ~halted'
    PROVE  OnTime(p, Places(p), loopStack', T + 1, vpc') /\ vpc' \in 0 .. V!Size(p) - 1
<1>1. PICK m : m = Places(p) /\ Rises(m)
  OBVIOUS
<1>2. PICK N \in Nat, e \in Nat, n \in Nat \ {0}, w \in Nat, pr \in Nat \ {0} :
             /\ N = V!Size(p) /\ e = EndOf(p, pc) /\ n = Rounds(p, pc) /\ w = Cost(p, pc)
             /\ pr = Price(p, pc)
             /\ pc \in 0 .. N - 1 /\ pc + 2 <= e /\ e <= N /\ NextPc(p, pc) = pc + 1
             /\ \A x \in pc + 1 .. e - 1 : m[x] + w <= m[NextPc(p, x)]
  <2>1. /\ pc \in 0 .. V!Size(p) - 1 /\ EndOf(p, pc) \in pc + 2 .. V!Size(p)
        /\ Price(p, pc) \in Nat \ {0} /\ Rounds(p, pc) \in Nat \ {0} /\ Cost(p, pc) \in Nat
        /\ NextPc(p, pc) = pc + 1
        /\ \A x \in pc + 1 .. EndOf(p, pc) - 1 : m[x] + Cost(p, pc) <= m[NextPc(p, x)]
    BY <1>1, LoopsAre
  <2>2. V!Size(p) \in Nat
    BY SizeIs
  <2>3. EndOf(p, pc) \in Nat /\ pc + 2 <= EndOf(p, pc) /\ EndOf(p, pc) <= V!Size(p)
    BY <2>1, <2>2
  <2> QED BY <2>1, <2>2, <2>3
<1>3. pc \in Nat /\ pc + 1 \in Nat /\ T + 1 \in Nat
  BY <1>2
<1>4. s \in Seq(LoopFrames)
  BY DEF OnTime
<1>5. PICK h \in Nat : h = Len(s)
  BY <1>4
<1>6. PICK a : /\ Accounts(p, m, a, h, T, pc) /\ pc < a[h].until
               /\ \A i \in 1 .. h : Linked(s[i], a[i])
  BY <1>1, <1>5 DEF OnTime
<1>7. h \in 0 .. h
  BY <1>5
<1>8. PICK r \in Account : r = a[h] /\ Covers(p, m, r) /\ Paid(m, r, T, pc)
  BY <1>6, <1>7 DEF Accounts, Fits
<1>9. Paid(m, r, T + 1, pc + 1)
  BY <1>1, <1>2, <1>3, <1>6, <1>8, Pays
<1>10. n * r.cost <= w
  <2>1. m[pc + 1] = m[pc] + pr
    <3>1. Owner(p, pc) = pc
      BY DEF Owner
    <3>2. m[NextPc(p, pc)] = m[pc] + Price(p, Owner(p, pc))
      BY <1>1, <1>2, PlacesAre
    <3> QED BY <1>2, <3>1, <3>2
  <2>2. r.at \in Nat /\ r.until \in Nat /\ r.cost \in Nat
    BY DEF Account
  <2>3. m[pc] + r.cost <= m[pc + 1]
    <3>1. pc \in r.at .. r.until - 1
      BY <1>3, <1>6, <1>8, <2>2 DEF Paid
    <3> QED BY <1>2, <1>8, <3>1 DEF Covers
  <2>4. PICK v \in Nat : v = r.cost
    BY <2>2
  <2>5. v <= pr
    <3>1. m[pc] \in Nat
      BY <1>1, <1>3 DEF Rises
    <3> QED BY <2>1, <2>3, <2>4, <3>1
  <2>6. w = pr * n
    BY <1>2 DEF Cost
  <2>7. n * v <= pr * n
    <3>1. PICK d \in Nat : pr = v + d
      <4>1. pr - v \in Nat /\ pr = v + (pr - v)
        BY <2>5
      <4> QED BY <4>1
    <3>2. pr * n = n * v + d * n /\ d * n \in Nat /\ n * v \in Nat
      BY <3>1
    <3> QED BY <3>2
  <2> QED BY <2>4, <2>6, <2>7
<1>11. PICK q : q = [cost |-> w, rounds |-> n, left |-> c, since |-> T + 1,
                     at |-> pc + 1, until |-> e]
  OBVIOUS
<1>12. c \in Nat \ {0} /\ c <= n
  BY <1>2
<1>13. q \in Account
  BY <1>3, <1>11, <1>12 DEF Account
<1>14. Fits(p, m, q)
  <2>1. Covers(p, m, q)
    BY <1>2, <1>11 DEF Covers
  <2> QED BY <1>2, <1>3, <1>11, <1>12, <1>13, <2>1 DEF Fits
<1>15. Paid(m, q, T + 1, pc + 1)
  <2>1. PICK d \in Nat : d = m[e] - m[pc + 1]
    <3>1. m[e] \in Nat /\ m[pc + 1] \in Nat /\ m[pc + 1] <= m[e]
      BY <1>1, <1>2, <1>3 DEF Rises
    <3> QED BY <3>1
  <2>2. m[pc + 1] \in Nat
    BY <1>1, <1>3 DEF Rises
  <2>3. PICK k \in Nat : k = n - c
    BY <1>12
  <2>4. k * d \in Nat
    OBVIOUS
  <2>5. w * ((T + 1) - (T + 1)) <= (n - c) * (m[e] - m[pc + 1]) + (m[pc + 1] - m[pc + 1])
    <3>1. w * ((T + 1) - (T + 1)) = 0
      OBVIOUS
    <3> QED BY <2>1, <2>2, <2>3, <2>4, <3>1
  <2>6. T + 1 <= T + 1 /\ pc + 1 <= pc + 1
    BY <1>3
  <2> QED BY <1>11, <2>5, <2>6 DEF Paid
<1>16. PICK fr : fr = [start |-> pc + 1, end |-> e, remaining |-> c]
  OBVIOUS
<1>17. fr \in LoopFrames /\ Open(fr, q)
  BY <1>3, <1>11, <1>12, <1>16 DEF LoopFrames, Open
<1>18. PICK t : t = Append(s, fr)
  OBVIOUS
<1>19. t \in Seq(LoopFrames) /\ Len(t) = h + 1 /\ t[h + 1] = fr /\ \A i \in 1 .. h : t[i] = s[i]
  BY <1>4, <1>5, <1>17, <1>18
<1>20. PICK b : b = [i \in 0 .. h + 1 |-> IF i = h + 1 THEN q ELSE a[i]]
  OBVIOUS
<1>21. b[h + 1] = q /\ \A i \in 0 .. h : b[i] = a[i]
  BY <1>5, <1>20
<1>22. \A i \in 0 .. h : a[i].at \in Nat /\ a[i].at <= pc
  <2> SUFFICES ASSUME NEW i \in 0 .. h PROVE a[i].at \in Nat /\ a[i].at <= pc
    OBVIOUS
  <2>1. a[i].at \in Nat /\ r.at \in Nat
    BY <1>6 DEF Accounts, Fits, Account
  <2>2. a[i].at <= r.at /\ r.at <= pc
    BY <1>6, <1>7, <1>8 DEF Accounts, Paid
  <2> QED BY <1>3, <2>1, <2>2
<1>23. Accounts(p, m, b, h + 1, T + 1, pc + 1)
  <2>1. \A i \in 0 .. h + 1 : i \in 0 .. h \/ i = h + 1
    OBVIOUS
  <2>2. \A i \in 0 .. h + 1 : Fits(p, m, b[i])
    BY <1>6, <1>14, <1>21, <2>1 DEF Accounts
  <2>3. ASSUME NEW i \in 1 .. h + 1
        PROVE  /\ Paid(m, b[i - 1], b[i].since, b[i].at)
               /\ b[i].rounds * b[i - 1].cost <= b[i].cost
    <3>1. CASE i = h + 1
      <4>1. i - 1 = h
        BY <3>1
      <4>2. b[i] = q /\ b[i - 1] = r
        BY <1>7, <1>8, <1>21, <3>1, <4>1
      <4> QED BY <1>9, <1>10, <1>11, <4>2
    <3>2. CASE i # h + 1
      <4>1. i \in 1 .. h /\ i \in 0 .. h /\ i - 1 \in 0 .. h
        BY <3>2
      <4>2. b[i] = a[i] /\ b[i - 1] = a[i - 1]
        BY <1>21, <4>1
      <4> QED BY <1>6, <4>1, <4>2 DEF Accounts
    <3> QED BY <3>1, <3>2
  <2>4. ASSUME NEW i \in 0 .. h + 1, NEW j \in 0 .. h + 1, i <= j PROVE b[i].at <= b[j].at
    <3>1. CASE j = h + 1
      <4>1. b[j].at = pc + 1
        BY <1>11, <1>21, <3>1
      <4>2. CASE i = h + 1
        BY <1>3, <3>1, <4>1, <4>2
      <4>3. CASE i # h + 1
        <5>1. i \in 0 .. h
          BY <2>1, <4>3
        <5>2. b[i].at \in Nat /\ b[i].at <= pc
          BY <1>21, <1>22, <5>1
        <5> QED BY <1>3, <4>1, <5>2
      <4> QED BY <4>2, <4>3
    <3>2. CASE j # h + 1
      <4>1. i \in 0 .. h /\ j \in 0 .. h
        BY <2>4, <3>2
      <4>2. b[i] = a[i] /\ b[j] = a[j]
        BY <1>21, <4>1
      <4> QED BY <1>6, <2>4, <4>1, <4>2 DEF Accounts
    <3> QED BY <3>1, <3>2
  <2>5. b[0] = Outermost(p)
    BY <1>6, <1>21 DEF Accounts
  <2> QED BY <1>15, <1>21, <2>2, <2>3, <2>4, <2>5 DEF Accounts
<1>24. ASSUME NEW i \in 1 .. h + 1
       PROVE  Linked(t[i], b[i]) /\ (t[i].end = pc + 1 => Open(t[i], b[i]))
  <2>1. CASE i = h + 1
    BY <1>17, <1>19, <1>21, <2>1 DEF Linked
  <2>2. CASE i # h + 1
    <3>1. i \in 1 .. h /\ i \in 0 .. h
      BY <2>2
    <3>2. t[i] = s[i] /\ b[i] = a[i] /\ Linked(s[i], a[i])
      BY <1>6, <1>19, <1>21, <3>1
    <3>3. s[i].end = pc + 1 => ~(s[i].end <= a[i].at)
      BY <1>3, <1>22, <3>1
    <3> QED BY <3>2, <3>3 DEF Linked
  <2> QED BY <2>1, <2>2
<1>25. VMGoTo(pc + 1, t)
  BY <1>2, <1>16, <1>18
<1>26. PICK np \in Nat, S \in Nat : np = pc + 1 /\ S = T + 1
  BY <1>3
<1>27. /\ Accounts(p, m, b, Len(t), S, np) /\ VMGoTo(np, t)
       /\ \A i \in 1 .. Len(t) : Linked(t[i], b[i]) /\ (t[i].end = np => Open(t[i], b[i]))
  BY <1>19, <1>23, <1>24, <1>25, <1>26
<1>28. OnTime(p, m, loopStack', S, vpc') /\ vpc' \in 0 .. V!Size(p) - 1
  BY <1>1, <1>19, <1>27, GoesOn
<1> QED BY <1>1, <1>26, <1>28

\* The programs a step count is proved of.
Measurable(p) ==
    /\ Text(p) /\ 0 \in DOMAIN p /\ V!Accepts(p, Manifest)
    /\ FixedCounts(p) /\ InertTails(p)

\* No count register holds more rounds than the verifier counts.
CountsHeld(p) ==
    /\ DOMAIN vregs = Regs
    /\ \A b \in Loops(p) : V!Starts(p)[b] => vregs[p[b].rs1] \in 0 .. Rounds(p, b)

LEMMA PlacesRise ==
    ASSUME NEW p, Measurable(p)
    PROVE  /\ Rises(Places(p)) /\ Places(p)[0] = 0
           /\ V!StaticStepBound(p, Manifest) \in Nat
           /\ \A x \in Nat : Places(p)[x] <= V!StaticStepBound(p, Manifest)
<1>1. PICK bd : bd = V!StaticStepBound(p, Manifest)
  OBVIOUS
<1>2. PICK m : m = Places(p)
  OBVIOUS
<1>3. /\ m \in [Nat -> Nat] /\ m[0] = 0 /\ \A x, y \in Nat : x <= y => m[x] <= m[y]
      /\ bd \in Nat /\ \A x \in Nat : m[x] <= bd
  BY <1>1, <1>2, PlacesAre DEF Measurable
<1>4. Rises(m)
  BY <1>3 DEF Rises
<1> QED BY <1>1, <1>2, <1>3, <1>4

LEMMA CountsGiven ==
    ASSUME NEW p, Measurable(p), NEW args \in ArgSets, VMFresh(args)
    PROVE  CountsHeld(p)'
<1>1. vregs' = [r \in Regs |-> IF r \in 1 .. NUM_ARGS THEN args[r] ELSE 0]
  BY DEF VMFresh
<1>2. ASSUME NEW b \in Loops(p), V!Starts(p)[b]
      PROVE  vregs'[p[b].rs1] \in 0 .. Rounds(p, b)
  <2>1. PICK r : r = p[b].rs1
    OBVIOUS
  <2>2. PICK n \in Nat : n = Rounds(p, b)
    BY RoundsAre DEF Measurable
  <2>3. r \in Regs
    <3>1. p[b] \in Instructions
      <4>1. b \in DOMAIN p
        BY DEF Loops, Those
      <4> QED BY <4>1, SizeIs DEF Measurable
    <3> QED BY <2>1, <3>1 DEF Instructions
  <2>4. \/ r \in DOMAIN Manifest.arguments /\ Manifest.arguments[r].hi <= n
        \/ r = 0 /\ r \notin DOMAIN Manifest.arguments
    BY <1>2, <2>1, <2>2, LoopsAre DEF Measurable
  <2>5. CASE r \in DOMAIN Manifest.arguments /\ Manifest.arguments[r].hi <= n
    <3>1. /\ r \in 1 .. NUM_ARGS
          /\ Manifest.arguments[r].lo \in Word /\ Manifest.arguments[r].hi \in Word
      BY <2>5, OperatorAssumption
    <3>2. PICK e \in Nat \ {0} : Word = 0 .. e - 1
      BY WordIs
    <3>3. PICK lo \in Nat, hi \in Nat :
             lo = Manifest.arguments[r].lo /\ hi = Manifest.arguments[r].hi
      BY <3>1, <3>2
    <3>4. args[r] \in lo .. hi
      BY <2>5, <3>1, <3>3, OperatorAssumption
    <3>5. hi <= n
      BY <2>5, <3>3
    <3>6. args[r] \in 0 .. n
      BY <3>4, <3>5
    <3> QED BY <1>1, <2>1, <2>2, <2>3, <3>1, <3>6
  <2>6. CASE r = 0
    <3>1. vregs'[r] = 0
      BY <1>1, <2>3, <2>6
    <3> QED BY <2>1, <2>2, <3>1
  <2> QED BY <2>4, <2>5, <2>6
<1> QED BY <1>1, <1>2 DEF CountsHeld

LEMMA CountsStay ==
    ASSUME NEW p, Measurable(p), words = p, vpc \in DOMAIN p, CountsHeld(p), VMStep
    PROVE  CountsHeld(p)'
<1>1. PICK w : w = p[vpc]
  OBVIOUS
<1>2. Head0 = w
  BY <1>1 DEF Head0
<1>3. ASSUME vregs' = vregs PROVE CountsHeld(p)'
  BY <1>3 DEF CountsHeld
<1>4. ASSUME WritesReg(w), NEW v, VMSet(w.rd, v) PROVE CountsHeld(p)'
  <2>1. vregs' = vregs \/ vregs' = [vregs EXCEPT ![w.rd] = v]
    BY <1>4 DEF VMSet
  <2>2. ASSUME vregs' = [vregs EXCEPT ![w.rd] = v] PROVE CountsHeld(p)'
    <3>1. DOMAIN vregs' = Regs
      BY <2>2 DEF CountsHeld
    <3>2. ASSUME NEW b \in Loops(p) PROVE vregs'[p[b].rs1] = vregs[p[b].rs1]
      <4>1. p[b].rs1 # w.rd
        BY <1>1, <1>4 DEF Measurable, FixedCounts
      <4>2. p[b].rs1 \in Regs
        <5>1. b \in DOMAIN p
          BY DEF Loops, Those
        <5>2. p[b] \in Instructions
          BY <5>1, SizeIs DEF Measurable
        <5> QED BY <5>2 DEF Instructions
      <4> QED BY <2>2, <4>1, <4>2 DEF CountsHeld
    <3> QED BY <3>1, <3>2 DEF CountsHeld
  <2> QED BY <1>3, <2>1, <2>2
<1>5. CASE VMCompute
  BY <1>2, <1>4, <1>5 DEF VMCompute, Stepping, WritesReg
<1>6. CASE VMLoad
  BY <1>2, <1>4, <1>6 DEF VMLoad, Stepping, WritesReg
<1>7. CASE VMCas
  BY <1>2, <1>4, <1>7 DEF VMCas, Stepping, WritesReg
<1>8. CASE VMCaa
  BY <1>2, <1>4, <1>8 DEF VMCaa, Stepping, WritesReg
<1>9. CASE VMMemcpy
  BY <1>2, <1>4, <1>9 DEF VMMemcpy, Stepping, WritesReg
<1>10. CASE VMNop \/ VMStore \/ VMJump \/ VMLoop \/ VMWait \/ VMRet \/ VMIllegal
  BY <1>3, <1>10 DEF VMNop, VMStore, VMJump, VMLoop, VMWait, VMRet, VMIllegal
<1> QED BY <1>5, <1>6, <1>7, <1>8, <1>9, <1>10 DEF VMStep

LEMMA StepOnTime ==
    ASSUME NEW p, Measurable(p), words = p, NEW T \in Nat, vpc \in 0 .. V!Size(p) - 1,
           CountsHeld(p), OnTime(p, Places(p), loopStack, T, vpc), VMStep
    PROVE  /\ T + 1 <= V!StaticStepBound(p, Manifest)
           /\ ~halted' => /\ OnTime(p, Places(p), loopStack', T + 1, vpc')
                          /\ vpc' \in 0 .. V!Size(p) - 1
<1>1. PICK m : m = Places(p)
  OBVIOUS
<1>2. PICK bd : bd = V!StaticStepBound(p, Manifest)
  OBVIOUS
<1>3. Rises(m) /\ m[0] = 0 /\ bd \in Nat /\ \A x \in Nat : m[x] <= bd
  BY <1>1, <1>2, PlacesRise
<1>4. Text(p) /\ V!Size(p) \in Nat /\ DOMAIN p = 0 .. V!Size(p) - 1
  BY SizeIs DEF Measurable
<1>5. vpc \in Nat /\ vpc \in DOMAIN p /\ Head0 = p[vpc]
  BY <1>4 DEF Head0
<1>6. T + 1 <= bd
  <2>1. PICK h \in Nat : h = Len(loopStack)
    BY DEF OnTime
  <2>2. PICK a : Accounts(p, m, a, h, T, vpc) /\ vpc < a[h].until
    BY <1>1, <2>1 DEF OnTime
  <2> QED BY <1>3, <1>4, <1>5, <2>2, InTheBound
<1> DEFINE Goal == ~halted' => /\ OnTime(p, m, loopStack', T + 1, vpc')
                               /\ vpc' \in 0 .. V!Size(p) - 1
<1> SUFFICES Goal
  BY <1>1, <1>2, <1>6
<1>7. ASSUME NEW np \in Nat, vpc < np, NextPc(p, vpc) <= np, VMGoTo(np, loopStack)
      PROVE  Goal
  BY <1>1, <1>3, <1>4, <1>5, <1>7, StepsAhead
<1>8. ASSUME VMNext PROVE Goal
  <2>1. PICK np \in Nat : np = NextPc(p, vpc) /\ vpc < np
    <3>1. NextPc(p, vpc) \in Nat /\ vpc < NextPc(p, vpc)
      BY <1>5 DEF NextPc
    <3> QED BY <3>1
  <2>2. VMGoTo(np, loopStack) /\ NextPc(p, vpc) <= np
    BY <1>5, <1>8, <2>1 DEF VMNext, NextPc
  <2> HIDE DEF Goal
  <2> QED BY <1>7, <2>1, <2>2
<1>9. p[vpc].op # "NOP" => V!Starts(p)[vpc]
  BY <1>4, Tails DEF Measurable
<1>10. CASE VMJump
  <2>1. p[vpc].op = "JUMP" /\ V!Starts(p)[vpc]
    BY <1>5, <1>9, <1>10 DEF VMJump, Stepping
  <2>2. PICK i \in Nat : i = SignedImm(p[vpc].imm) /\ i > 0
    <3>1. V!SignedImm(p[vpc].imm) > 0
      BY <1>5, <2>1, AcceptedIsVerified DEF Verified, Measurable
    <3>2. SignedImm(p[vpc].imm) = p[vpc].imm /\ p[vpc].imm \in Nat /\ p[vpc].imm > 0
      BY <1>4, <1>5, <3>1, SignedIs
    <3> QED BY <3>2
  <2>3. VMNext \/ VMGoTo(vpc + i, loopStack)
    BY <1>5, <1>10, <2>2 DEF VMJump
  <2>4. NextPc(p, vpc) = vpc + 1
    BY <2>1 DEF NextPc, IsTwoWord, TwoWordOps
  <2>5. PICK np \in Nat : np = vpc + i /\ vpc < np /\ vpc + 1 <= np
    BY <1>5, <2>2
  <2> HIDE DEF Goal
  <2> QED BY <1>7, <1>8, <2>3, <2>4, <2>5
<1>11. CASE VMLoop
  <2>1. p[vpc].op = "LOOP" /\ V!Starts(p)[vpc] /\ vpc \in Loops(p)
    BY <1>5, <1>9, <1>11 DEF VMLoop, Stepping, Loops, Those
  <2>2. /\ SignedImm(p[vpc].imm) = p[vpc].imm /\ p[vpc].imm \in Nat
        /\ EndOf(p, vpc) \in vpc + 2 .. V!Size(p) /\ NextPc(p, vpc) = vpc + 1
        /\ Rounds(p, vpc) \in Nat
    BY <2>1, LoopsAre DEF Measurable
  <2>3. PICK e \in Nat : e = EndOf(p, vpc) /\ e = vpc + 1 + SignedImm(p[vpc].imm)
                         /\ vpc < e /\ vpc + 1 <= e
    BY <1>4, <1>5, <2>2 DEF EndOf
  <2>4. PICK c : c = R(Head0.rs1)
    OBVIOUS
  <2>5. c \in 0 .. Rounds(p, vpc)
    BY <1>5, <2>1, <2>4 DEF CountsHeld, R
  <2>6. CASE c = 0
    <3>1. VMGoTo(e, loopStack)
      BY <1>5, <1>11, <2>3, <2>4, <2>6 DEF VMLoop
    <3>2. NextPc(p, vpc) <= e
      BY <2>2, <2>3
    <3> HIDE DEF Goal
    <3> QED BY <1>7, <2>3, <3>1, <3>2
  <2>7. CASE c # 0
    <3>1. VMGoTo(vpc + 1, Append(loopStack, [start |-> vpc + 1, end |-> EndOf(p, vpc),
                                             remaining |-> c]))
      BY <1>5, <1>11, <2>3, <2>4, <2>7 DEF VMLoop
    <3>2. c \in 1 .. Rounds(p, vpc)
      BY <2>2, <2>5, <2>7
    <3> QED BY <1>1, <1>3, <2>1, <3>1, <3>2, Enters DEF Measurable
  <2> QED BY <2>6, <2>7
<1>12. CASE VMNop \/ VMCompute \/ VMLoad \/ VMStore \/ VMCas \/ VMCaa \/ VMWait \/ VMMemcpy
  <2>1. VMNext
    BY <1>12 DEF VMNop, VMCompute, VMLoad, VMStore, VMCas, VMCaa, VMWait, VMMemcpy
  <2> QED BY <1>8, <2>1
<1>13. CASE VMRet \/ VMIllegal
  BY <1>13 DEF VMRet, VMIllegal
<1> HIDE DEF Goal
<1> QED BY <1>10, <1>11, <1>12, <1>13 DEF VMStep

StepInv ==
    /\ Text(words) /\ 0 \in DOMAIN words /\ steps \in Nat
    /\ accepted => V!Accepts(words, Manifest)
    /\ bound = V!StaticStepBound(words, Manifest)
    /\ accepted /\ FixedCounts(words) /\ InertTails(words) =>
         /\ steps <= bound
         /\ ~halted => /\ vpc \in 0 .. V!Size(words) - 1 /\ CountsHeld(words)
                       /\ OnTime(words, Places(words), loopStack, steps, vpc)

LEMMA StepInvStep ==
    ASSUME StepInv, [Next]_vars
    PROVE  StepInv'
<1>1. PICK p : p = words
  OBVIOUS
<1>2. PICK bd : bd = V!StaticStepBound(p, Manifest)
  OBVIOUS
<1>3. /\ Text(p) /\ 0 \in DOMAIN p /\ steps \in Nat /\ bound = bd
      /\ accepted => V!Accepts(p, Manifest)
  BY <1>1, <1>2 DEF StepInv
<1> DEFINE Fine == accepted /\ FixedCounts(p) /\ InertTails(p)
           Good(s) == /\ vpc \in 0 .. V!Size(p) - 1 /\ CountsHeld(p)
                      /\ OnTime(p, Places(p), loopStack, s, vpc)
<1>4. Fine => Measurable(p) /\ bd \in Nat /\ steps <= bd
  BY <1>1, <1>2, <1>3, PlacesRise DEF Measurable, StepInv
<1>5. ASSUME words' = p, accepted' = accepted, bound' = bd, steps' \in Nat,
             Fine => /\ steps' <= bd
                     /\ ~halted' => /\ vpc' \in 0 .. V!Size(p) - 1 /\ CountsHeld(p)'
                                    /\ OnTime(p, Places(p), loopStack', steps', vpc')
      PROVE  StepInv'
  BY <1>2, <1>3, <1>5 DEF StepInv, CountsHeld
<1>6. CASE Invoke
  <2>1. PICK args \in ArgSets : VMReset(args)
    BY <1>6 DEF Invoke
  <2>2. /\ words' = p /\ accepted' = accepted /\ bound' = bd /\ steps' = 0
        /\ loopStack' = <<>> /\ vpc' = 0
    BY <1>1, <1>3, <1>6, <2>1 DEF Invoke, VMReset, VMFresh
  <2>3. ASSUME Fine
        PROVE  /\ CountsHeld(p)' /\ 0 \in 0 .. V!Size(p) - 1
               /\ OnTime(p, Places(p), <<>>, 0, 0)
    <3>1. CountsHeld(p)'
      BY <1>4, <2>1, <2>3, CountsGiven DEF VMReset
    <3>2. PICK N \in Nat : N = V!Size(p) /\ 0 \in 0 .. N - 1
      BY <1>3, SizeIs
    <3>3. PICK m : m = Places(p) /\ Rises(m)
      BY <1>4, <2>3, PlacesRise
    <3>4. PICK r : r = Outermost(p)
      OBVIOUS
    <3>5. PICK a : a = [i \in {0} |-> r]
      OBVIOUS
    <3>6. r \in Account
      BY <3>2, <3>4 DEF Outermost, Account
    <3>7. Covers(p, m, r)
      <4> SUFFICES ASSUME NEW x \in 0 .. N - 1 PROVE m[x] + 1 <= m[NextPc(p, x)]
        BY <3>2, <3>4 DEF Covers, Outermost
      <4>1. m[NextPc(p, x)] = m[x] + Price(p, Owner(p, x))
        BY <1>4, <2>3, <3>2, <3>3, PlacesAre DEF Measurable
      <4>2. Owner(p, x) \in 0 .. N - 1 /\ V!Starts(p)[Owner(p, x)]
        BY <1>3, <2>3, <3>2, Tails
      <4>3. Price(p, Owner(p, x)) \in Nat \ {0}
        BY <1>4, <2>3, <3>2, <4>2, PassCounts DEF Measurable
      <4>4. m[x] \in Nat
        BY <3>3 DEF Rises
      <4> QED BY <4>1, <4>3, <4>4
    <3>8. Fits(p, m, r)
      BY <3>2, <3>4, <3>6, <3>7 DEF Fits, Outermost
    <3>9. Paid(m, r, 0, 0)
      <4>1. PICK x \in Int : x = m[N] - m[0]
        BY <3>3 DEF Rises
      <4>2. m[0] \in Nat
        BY <3>3 DEF Rises
      <4>3. 1 * (0 - 0) <= (1 - 1) * x + (m[0] - m[0])
        BY <4>2
      <4> QED BY <3>2, <3>4, <4>1, <4>3 DEF Paid, Outermost
    <3>10. a[0] = r /\ \A i \in 0 .. 0 : a[i] = r
      BY <3>5
    <3>11. \A i, j \in 0 .. 0 : i <= j => a[i].at <= a[j].at
      <4>1. r.at <= r.at
        BY <3>4 DEF Outermost
      <4> QED BY <3>10, <4>1
    <3>12. Accounts(p, m, a, 0, 0, 0)
      BY <3>4, <3>8, <3>9, <3>10, <3>11 DEF Accounts
    <3>13. 0 < a[0].until
      BY <3>2, <3>4, <3>10 DEF Outermost
    <3>14. <<>> \in Seq(LoopFrames) /\ Len(<<>>) = 0
      OBVIOUS
    <3>15. OnTime(p, m, <<>>, 0, 0)
      BY <3>12, <3>13, <3>14 DEF OnTime
    <3> QED BY <3>1, <3>2, <3>3, <3>15
  <2>4. ASSUME Fine PROVE steps' <= bd
    BY <1>4, <2>2, <2>4
  <2> HIDE DEF Fine
  <2> QED BY <1>5, <2>2, <2>3, <2>4
<1>7. CASE Step
  <2>1. VMStep /\ accepted' = accepted /\ bound' = bd /\ steps' = steps + 1 /\ steps' \in Nat
    BY <1>3, <1>7 DEF Step
  <2>2. words' = p
    BY <1>1, <2>1 DEF VMStep, VMNop, VMCompute, VMLoad, VMStore, VMCas, VMCaa, VMJump, VMLoop,
                VMWait, VMMemcpy, VMRet, VMIllegal, VMNext, VMGoTo
  <2>3. ~halted
    BY <2>1 DEF VMStep, VMNop, VMCompute, VMLoad, VMStore, VMCas, VMCaa, VMJump, VMLoop, VMWait,
         VMMemcpy, VMRet, VMIllegal, Stepping
  <2>4. ASSUME Fine
        PROVE  /\ steps + 1 <= bd /\ CountsHeld(p)'
               /\ ~halted' => /\ OnTime(p, Places(p), loopStack', steps + 1, vpc')
                              /\ vpc' \in 0 .. V!Size(p) - 1
    <3>1. /\ vpc \in 0 .. V!Size(p) - 1 /\ CountsHeld(p)
          /\ OnTime(p, Places(p), loopStack, steps, vpc)
      BY <1>1, <2>3, <2>4 DEF StepInv
    <3>2. vpc \in DOMAIN p
      BY <1>3, <3>1, SizeIs
    <3>3. CountsHeld(p)'
      BY <1>1, <1>4, <2>1, <2>4, <3>1, <3>2, CountsStay
    <3> QED BY <1>1, <1>2, <1>3, <1>4, <2>1, <2>4, <3>1, <3>3, StepOnTime
  <2> HIDE DEF Fine
  <2> QED BY <1>5, <2>1, <2>2, <2>4
<1>8. CASE Abort
  <2>1. /\ words' = p /\ accepted' = accepted /\ bound' = bd /\ steps' = steps /\ halted' = TRUE
    BY <1>1, <1>3, <1>8 DEF Abort
  <2> HIDE DEF Fine
  <2> QED BY <1>3, <1>4, <1>5, <2>1
<1>9. CASE UNCHANGED vars
  BY <1>9 DEF vars, vmVars, StepInv, CountsHeld
<1> QED BY <1>6, <1>7, <1>8, <1>9 DEF Next

LEMMA StepInvAlways == Spec => []StepInv
<1>1. Init => StepInv
  <2> SUFFICES ASSUME Init PROVE StepInv
    OBVIOUS
  <2>1. Text(words) /\ 0 \in DOMAIN words
    <3>1. words \in Programs
      BY DEF Init
    <3>2. Text(words)
      BY TaskInit DEF TaskInv
    <3> QED BY <3>1, <3>2, OperatorAssumption
  <2>2. /\ accepted => V!Accepts(words, Manifest)
        /\ bound = V!StaticStepBound(words, Manifest) /\ steps = 0 /\ halted
    BY DEF Init, VMInit
  <2>3. ASSUME accepted, FixedCounts(words), InertTails(words) PROVE steps <= bound
    <3>1. bound \in Nat
      BY <2>1, <2>2, <2>3, PlacesRise DEF Measurable
    <3> QED BY <2>2, <3>1
  <2> QED BY <2>1, <2>2, <2>3 DEF StepInv
<1>2. StepInv /\ [Next]_vars => StepInv'
  BY StepInvStep
<1> QED BY <1>1, <1>2, PTL DEF Spec

LEMMA WithinBound ==
    ASSUME StepInv, accepted, FixedCounts(words), InertTails(words)
    PROVE  steps <= bound /\ bound <= Manifest.max_dynamic /\ steps \in Nat /\ bound \in Nat
<1>1. Measurable(words) /\ steps <= bound /\ steps \in Nat
      /\ bound = V!StaticStepBound(words, Manifest)
  BY DEF StepInv, Measurable
<1>2. bound \in Nat /\ bound <= Manifest.max_dynamic
  BY <1>1, PlacesAre DEF Measurable
<1> QED BY <1>1, <1>2

(***************************************************************************)
(* A task of an accepted operator takes no more steps than the verifier     *)
(* computed, whatever its loops and branches, if no instruction writes a   *)
(* count and the second words of instructions do nothing.                  *)
(***************************************************************************)
THEOREM CountsBounded == Spec => []StepsBounded
<1>1. StepInv => StepsBounded
  <2> SUFFICES ASSUME StepInv, accepted, FixedCounts(words), InertTails(words)
               PROVE  ~(steps > bound)
    BY DEF StepsBounded
  <2> QED BY WithinBound
<1> QED BY <1>1, StepInvAlways, PTL

(***************************************************************************)
(* Such an operator is never stopped by the step limit, if the limit is    *)
(* above what the manifest allows (2,000,000 against 4096, by default).    *)
(***************************************************************************)
THEOREM EndsByItself ==
    ASSUME Manifest.max_dynamic < maxSteps
    PROVE  Spec => []EndsUnaided
<1>1. StepInv => EndsUnaided
  <2> SUFFICES ASSUME StepInv, FixedCounts(words), InertTails(words), accepted
               PROVE  steps < maxSteps
    BY DEF EndsUnaided
  <2>1. steps <= bound /\ bound <= Manifest.max_dynamic /\ steps \in Nat /\ bound \in Nat
    BY WithinBound
  <2> QED BY <2>1, OperatorAssumption
<1> QED BY <1>1, StepInvAlways, PTL

(***************************************************************************)
(* Then a task of it that has halted is at a RET, if it is structured: no  *)
(* way of it leads past the end of the text, to a word that is no          *)
(* instruction, or into the step limit.                                    *)
(***************************************************************************)
EndsWell ==
    accepted /\ Structured(words) /\ FixedCounts(words) /\ InertTails(words) => ~(halted /\ err)

THEOREM ReturnsByItself ==
    ASSUME Manifest.max_dynamic < maxSteps
    PROVE  Spec => []EndsWell
<1>1. EndsUnaided /\ EndsWithRet /\ StepInv => EndsWell
  <2> SUFFICES ASSUME EndsUnaided, EndsWithRet, StepInv, accepted, Structured(words),
                      FixedCounts(words), InertTails(words), halted, err
               PROVE  FALSE
    BY DEF EndsWell
  <2>1. steps < maxSteps /\ steps >= maxSteps
    BY DEF EndsUnaided, EndsWithRet
  <2>2. steps \in Nat
    BY WithinBound
  <2> QED BY <2>1, <2>2, OperatorAssumption
<1> QED BY <1>1, EndsByItself, ReachesRet, StepInvAlways, PTL
=============================================================================

--------------------------- MODULE MemoryCacheProofs ---------------------------
(***************************************************************************)
(* Proofs about MemoryCache, for any threads, paths, sizes, limits and     *)
(* builds.                                                                 *)
(***************************************************************************)
EXTENDS MemoryCache, FiniteSetTheorems, WellFoundedInduction, TLAPS

(***************************************************************************)
(* Induction over the numbers, stated of a set.                            *)
(***************************************************************************)
Less == {ss \in Nat \X Nat : ss[1] < ss[2]}

LEMMA LessWellFounded == IsWellFoundedOn(Less, Nat)
  <1>1. OpToRel(<, Nat) = Less
    BY DEF OpToRel, Less
  <1>. QED BY <1>1, NatLessThanWellFounded

LEMMA LeastNumber ==
  ASSUME NEW T \in SUBSET Nat, T # {}
  PROVE  \E x \in T : \A y \in T : x <= y
  <1>1. \E x \in T : \A y \in T : <<y, x>> \notin Less
    BY LessWellFounded, WFMin
  <1>2. ASSUME NEW x \in Nat, NEW y \in Nat, y < x PROVE <<y, x>> \in Less
    <2>. DEFINE ss == <<y, x>>
    <2>1. ss \in Nat \X Nat /\ ss[1] = y /\ ss[2] = x
      OBVIOUS
    <2>. HIDE DEF ss
    <2>2. ss[1] < ss[2]
      BY <1>2, <2>1
    <2>3. ss \in Less
      BY <2>1, <2>2, Zenon DEF Less
    <2>. QED BY <2>3 DEF ss
  <1>3. PICK x \in T : \A y \in T : ~(y < x)
    BY <1>1, <1>2, Zenon
  <1>. QED BY <1>3

LEMMA Induction ==
  ASSUME NEW T, 0 \in T, \A n \in Nat : n \in T => n + 1 \in T
  PROVE  Nat \subseteq T
  <1>. SUFFICES ASSUME Nat \ T # {} PROVE FALSE
    OBVIOUS
  <1>1. PICK x \in Nat \ T : \A y \in Nat \ T : x <= y
    BY LeastNumber
  <1>2. x - 1 \in Nat /\ x - 1 \in T /\ (x - 1) + 1 = x
    BY <1>1
  <1>. QED BY <1>1, <1>2
-----------------------------------------------------------------------------
(* PrefixSums: its recursive definition has a solution, and the sums of a  *)
(* part of a sequence are differences of those of the whole.               *)
SumsUpTo(s, z, n) ==
  \A i \in 0..n : s[i] \in Nat /\ s[i] = IF i = 0 THEN 0 ELSE s[i - 1] + z[i]

LEMMA SumsExist ==
  ASSUME NEW z \in Seq(Nat), NEW n \in 0..Len(z)
  PROVE  \E s : s = [i \in 0..n |-> s[i]] /\ SumsUpTo(s, z, n)
  <1>. DEFINE T == {m \in Nat : m <= Len(z) =>
                      \E s : s = [i \in 0..m |-> s[i]] /\ SumsUpTo(s, z, m)}
  <1>1. 0 \in T
    <2>. DEFINE s == [i \in 0..0 |-> 0]
    <2>1. s = [i \in 0..0 |-> s[i]] /\ SumsUpTo(s, z, 0)
      BY DEF SumsUpTo
    <2>. QED BY <2>1
  <1>2. ASSUME NEW m \in Nat, m \in T PROVE m + 1 \in T
    <2>. SUFFICES ASSUME m + 1 <= Len(z)
                  PROVE  \E s : s = [i \in 0..(m + 1) |-> s[i]] /\ SumsUpTo(s, z, m + 1)
      OBVIOUS
    <2>1. PICK s : s = [i \in 0..m |-> s[i]] /\ SumsUpTo(s, z, m)
      BY <1>2
    <2>. DEFINE r == [i \in 0..(m + 1) |-> IF i <= m THEN s[i] ELSE s[m] + z[m + 1]]
    <2>2. r = [i \in 0..(m + 1) |-> r[i]]
      OBVIOUS
    <2>3. SumsUpTo(r, z, m + 1)
      <3>. SUFFICES ASSUME NEW i \in 0..(m + 1)
                    PROVE  r[i] \in Nat /\ r[i] = IF i = 0 THEN 0 ELSE r[i - 1] + z[i]
        BY DEF SumsUpTo
      <3>1. \A j \in 0..m : s[j] \in Nat /\ s[j] = IF j = 0 THEN 0 ELSE s[j - 1] + z[j]
        BY <2>1 DEF SumsUpTo
      <3>2. z[m + 1] \in Nat
        OBVIOUS
      <3>3. CASE i \in 0..m
        <4>1. r[i] = s[i] /\ (i # 0 => r[i - 1] = s[i - 1])
          BY <3>3
        <4>. QED BY <3>1, <3>3, <4>1
      <3>4. CASE i = m + 1
        <4>1. r[i] = s[m] + z[m + 1] /\ r[i - 1] = s[m] /\ i # 0
          BY <3>4
        <4>. QED BY <3>1, <3>2, <3>4, <4>1
      <3>. QED BY <3>3, <3>4
    <2>. QED BY <2>2, <2>3
  <1>. HIDE DEF T
  <1>3. Nat \subseteq T
    BY <1>1, <1>2, Induction
  <1>4. n \in Nat /\ n \in T /\ n <= Len(z)
    BY <1>3
  <1>. QED BY <1>4 DEF T

LEMMA SumsFunction ==
  ASSUME NEW z \in Seq(Nat)
  PROVE  SumsUpTo(PrefixSums(z), z, Len(z))
  <1>. DEFINE Sums(s) == s = [n \in 0..Len(z) |-> IF n = 0 THEN 0 ELSE s[n - 1] + z[n]]
  <1>1. PICK s : s = [i \in 0..Len(z) |-> s[i]] /\ SumsUpTo(s, z, Len(z))
    BY SumsExist
  <1>2. Sums(s)
    BY <1>1 DEF SumsUpTo
  <1>3. PrefixSums(z) = CHOOSE f : Sums(f)
    BY DEF PrefixSums
  <1>. HIDE DEF Sums
  <1>4. Sums(PrefixSums(z))
    BY <1>2, <1>3
  <1>. DEFINE f == PrefixSums(z)
  <1>5. \A i \in 0..Len(z) : f[i] = IF i = 0 THEN 0 ELSE f[i - 1] + z[i]
    BY <1>4 DEF Sums
  <1>. HIDE DEF f
  <1>6. \A i \in 0..Len(z) : f[i] \in Nat
    <2>. DEFINE T == {m \in Nat : m <= Len(z) => f[m] \in Nat}
    <2>1. 0 \in T
      BY <1>5
    <2>2. ASSUME NEW m \in Nat, m \in T PROVE m + 1 \in T
      <3>. SUFFICES ASSUME m + 1 <= Len(z) PROVE f[m + 1] \in Nat
        OBVIOUS
      <3>1. f[m + 1] = f[m] + z[m + 1]
        BY <1>5
      <3>. QED BY <2>2, <3>1
    <2>. HIDE DEF T
    <2>3. Nat \subseteq T
      BY <2>1, <2>2, Induction
    <2>. QED BY <2>3 DEF T
  <1>. QED BY <1>5, <1>6 DEF f, SumsUpTo

LEMMA SumsStart ==
  ASSUME NEW z \in Seq(Nat)
  PROVE  PrefixSums(z)[0] = 0
  <1>. DEFINE f == PrefixSums(z)
  <1>1. SumsUpTo(f, z, Len(z)) /\ 0 \in 0..Len(z)
    BY SumsFunction
  <1>. HIDE DEF f
  <1>2. f[0] = 0
    BY <1>1 DEF SumsUpTo
  <1>. QED BY <1>2 DEF f

LEMMA SumsOfPart ==
  ASSUME NEW z \in Seq(Nat), NEW y \in Seq(Nat), NEW n \in 0..Len(z), NEW k \in 0..Len(y),
         n + k <= Len(z),
         \A i \in 1..k : y[i] = z[n + i]
  PROVE  PrefixSums(y)[k] = PrefixSums(z)[n + k] - PrefixSums(z)[n]
  <1>. DEFINE f == PrefixSums(z)
              g == PrefixSums(y)
              T == {m \in Nat : m <= k => g[m] = f[n + m] - f[n]}
  <1>1. /\ \A i \in 0..Len(z) : f[i] \in Nat /\ f[i] = IF i = 0 THEN 0 ELSE f[i - 1] + z[i]
        /\ \A i \in 0..Len(y) : g[i] \in Nat /\ g[i] = IF i = 0 THEN 0 ELSE g[i - 1] + y[i]
    BY SumsFunction DEF SumsUpTo
  <1>. HIDE DEF f, g
  <1>. HIDE DEF T
  <1>0. Len(z) \in Nat /\ Len(y) \in Nat /\ n \in Nat /\ k \in Nat
    OBVIOUS
  <1>2. 0 \in T
    BY <1>0, <1>1 DEF T
  <1>3. ASSUME NEW m \in Nat, m \in T PROVE m + 1 \in T
    <2>. SUFFICES ASSUME m + 1 <= k PROVE g[m + 1] = f[n + (m + 1)] - f[n]
      BY DEF T
    <2>1. g[m + 1] = g[m] + y[m + 1] /\ m + 1 \in 1..k
      <3>1. m + 1 \in 0..Len(y) /\ m + 1 # 0 /\ (m + 1) - 1 = m
        BY <1>0
      <3>. QED BY <1>1, <3>1
    <2>2. f[n + (m + 1)] = f[n + m] + z[n + (m + 1)]
      <3>1. n + (m + 1) \in 0..Len(z) /\ n + (m + 1) # 0 /\ (n + (m + 1)) - 1 = n + m
        BY <1>0
      <3>. QED BY <1>1, <3>1
    <2>3. y[m + 1] = z[n + (m + 1)] /\ y[m + 1] \in Nat
      <3>. DEFINE i == m + 1
      <3>1. i \in 1..k /\ i \in 1..Len(y)
        BY <1>0
      <3>2. \A j \in 1..Len(y) : y[j] \in Nat
        OBVIOUS
      <3>. HIDE DEF i
      <3>3. y[i] = z[n + i] /\ y[i] \in Nat
        BY <3>1, <3>2, Zenon
      <3>. QED BY <3>3 DEF i
    <2>4. g[m] = f[n + m] - f[n]
      BY <1>0, <1>3 DEF T
    <2>5. f[n] \in Nat /\ f[n + m] \in Nat
      <3>1. n + m \in 0..Len(z)
        BY <1>0
      <3>. QED BY <1>1, <3>1
    <2>. DEFINE x == y[m + 1]
                fn == f[n]
                fm == f[n + m]
    <2>6. x \in Nat /\ fn \in Nat /\ fm \in Nat /\ g[m + 1] = (fm - fn) + x
      BY <2>1, <2>3, <2>4, <2>5
    <2>7. f[n + (m + 1)] = fm + x
      BY <2>2, <2>3
    <2>. HIDE DEF x, fn, fm
    <2>8. (fm - fn) + x = (fm + x) - fn
      BY <2>6
    <2>. QED BY <2>6, <2>7, <2>8 DEF fn
  <1>4. Nat \subseteq T
    BY <1>2, <1>3, Induction
  <1>. QED BY <1>4 DEF T, f, g

LEMMA SumsGrow ==
  ASSUME NEW z \in Seq(Nat), NEW n \in 0..Len(z)
  PROVE  PrefixSums(z)[n] \in Nat /\ PrefixSums(z)[n] <= PrefixSums(z)[Len(z)]
  <1>. DEFINE f == PrefixSums(z)
              T == {m \in Nat : n + m <= Len(z) => f[n] <= f[n + m]}
  <1>1. \A i \in 0..Len(z) : f[i] \in Nat /\ f[i] = IF i = 0 THEN 0 ELSE f[i - 1] + z[i]
    BY SumsFunction DEF SumsUpTo
  <1>. HIDE DEF f
  <1>0. Len(z) \in Nat /\ n \in Nat
    OBVIOUS
  <1>2. 0 \in T
    BY <1>0, <1>1
  <1>3. ASSUME NEW m \in Nat, m \in T PROVE m + 1 \in T
    <2>. SUFFICES ASSUME n + (m + 1) <= Len(z) PROVE f[n] <= f[n + (m + 1)]
      OBVIOUS
    <2>. DEFINE i == n + (m + 1)
    <2>1. i \in 0..Len(z) /\ i \in 1..Len(z) /\ i # 0 /\ i - 1 = n + m /\ n + m \in 0..Len(z)
      BY <1>0
    <2>2. f[n] <= f[n + m] /\ f[n] \in Nat /\ f[n + m] \in Nat
      BY <1>0, <1>1, <1>3, <2>1
    <2>3. z[i] \in Nat
      BY <2>1
    <2>. HIDE DEF i
    <2>4. f[i] = f[n + m] + z[i]
      BY <1>1, <2>1
    <2>5. f[n] <= f[i]
      BY ONLY <2>2, <2>3, <2>4
    <2>. QED BY <2>5 DEF i
  <1>. HIDE DEF T
  <1>4. Nat \subseteq T
    BY <1>2, <1>3, Induction
  <1>5. Len(z) - n \in T /\ n + (Len(z) - n) = Len(z)
    BY <1>0, <1>4
  <1>. QED BY <1>0, <1>1, <1>5 DEF T, f
-----------------------------------------------------------------------------
(* Word: a count is taken modulo size_t at each step, or once at the end.  *)
LEMMA WordOf ==
  ASSUME NEW a \in Int
  PROVE  /\ Word(a) \in 0..SizeMax
         /\ \E k \in Int : a = k * (SizeMax + 1) + Word(a)
  <1>. DEFINE m == SizeMax + 1
  <1>1. m \in Nat \ {0} /\ m - 1 = SizeMax
    BY CacheAssumption
  <1>. HIDE DEF m
  <1>2. /\ a % m \in 0..(m - 1) /\ a \div m \in Int
        /\ a = (a \div m) * m + (a % m)
    BY <1>1
  <1>3. a % m \in 0..(m - 1) /\ \E k \in Int : a = k * m + (a % m)
    BY <1>2
  <1>4. Word(a) = a % m
    BY DEF Word, m
  <1>. QED BY <1>1, <1>3, <1>4 DEF m

LEMMA WordUnique ==
  ASSUME NEW m \in Nat \ {0}, NEW r \in 0..(m - 1), NEW s \in 0..(m - 1),
         NEW k \in Int, r = s + k * m
  PROVE  r = s
  <1>1. CASE k >= 1
    <2>1. k * m >= m
      BY <1>1
    <2>. QED BY <2>1
  <1>2. CASE k <= -1
    <2>1. k * m <= -m
      BY <1>2
    <2>. QED BY <2>1
  <1>. QED BY <1>1, <1>2

LEMMA WordPlus ==
  ASSUME NEW a \in Int, NEW b \in Int
  PROVE  Word(Word(a) + b) = Word(a + b)
  <1>. DEFINE m == SizeMax + 1
              w == Word(Word(a) + b)
              v == Word(a + b)
  <1>1. m \in Nat \ {0} /\ SizeMax = m - 1
    BY CacheAssumption
  <1>2. PICK i \in Int : a = i * m + Word(a)
    BY WordOf
  <1>3. Word(a) \in Int
    BY <1>1, WordOf
  <1>4. PICK j \in Int : Word(a) + b = j * m + w
    BY <1>3, WordOf
  <1>5. PICK k \in Int : a + b = k * m + v
    BY WordOf
  <1>6. w \in 0..SizeMax /\ v \in 0..SizeMax
    BY <1>3, WordOf
  <1>. HIDE DEF m, w, v
  <1>7. w = v + (k * m - i * m - j * m)
    <2>. DEFINE im == i * m
                jm == j * m
                km == k * m
    <2>1. im \in Int /\ jm \in Int /\ km \in Int /\ w \in Int /\ v \in Int
      BY <1>1, <1>6
    <2>2. a = im + Word(a) /\ Word(a) + b = jm + w /\ a + b = km + v
      BY <1>2, <1>4, <1>5
    <2>. HIDE DEF im, jm, km
    <2>3. w = v + (km - im - jm)
      BY <1>3, <2>1, <2>2
    <2>. QED BY <2>3 DEF im, jm, km
  <1>8. k * m - i * m - j * m = (k - i - j) * m /\ k - i - j \in Int
    BY <1>1
  <1>9. w = v
    BY <1>1, <1>6, <1>7, <1>8, WordUnique
  <1>. QED BY <1>9 DEF w, v

LEMMA WordSmall ==
  ASSUME NEW a \in 0..SizeMax
  PROVE  Word(a) = a
  <1>1. SizeMax \in Nat \ {0}
    BY CacheAssumption
  <1>2. /\ a % (SizeMax + 1) \in 0..SizeMax /\ a \div (SizeMax + 1) \in Int
        /\ a = (a \div (SizeMax + 1)) * (SizeMax + 1) + (a % (SizeMax + 1))
    <2>. DEFINE m == SizeMax + 1
    <2>1. m \in Nat \ {0} /\ m - 1 = SizeMax
      BY <1>1
    <2>. HIDE DEF m
    <2>2. /\ a % m \in 0..(m - 1) /\ a \div m \in Int
          /\ a = (a \div m) * m + (a % m)
      BY <2>1
    <2>. QED BY <2>1, <2>2 DEF m
  <1>. QED BY <1>1, <1>2, WordUnique DEF Word
LEMMA WordBelow ==
  ASSUME NEW a \in Nat
  PROVE  Word(a) \in Nat /\ Word(a) <= a
  <1>. DEFINE m == SizeMax + 1
              w == Word(a)
  <1>1. m \in Nat \ {0} /\ SizeMax = m - 1
    BY CacheAssumption
  <1>2. w \in 0..SizeMax
    BY WordOf
  <1>3. PICK k \in Int : a = k * m + w
    BY WordOf
  <1>. HIDE DEF m, w
  <1>4. k >= 0
    <2>1. SUFFICES ASSUME k <= -1 PROVE FALSE
      OBVIOUS
    <2>2. k * m <= -m
      BY <1>1, <2>1
    <2>. QED BY <1>1, <1>2, <1>3, <2>2
  <1>5. k * m >= 0
    BY <1>1, <1>4
  <1>6. w \in Nat /\ w <= a
    BY <1>1, <1>2, <1>3, <1>5
  <1>. QED BY <1>6 DEF w
-----------------------------------------------------------------------------
(* The loop has a last iteration where the limits are met at all.          *)
LEMMA PoppedExists ==
  ASSUME NEW q \in Seq(Nat), NEW b, NEW objs, NEW m \in 0..Len(q), WithinLo(objs, q, b, m)
  PROVE  Popped(objs, q, b) # {}
  <1>. DEFINE T == {n \in 0..Len(q) : WithinLo(objs, q, b, n)}
  <1>0. Len(q) \in Nat
    OBVIOUS
  <1>1. T \in SUBSET Nat /\ T # {}
    BY <1>0
  <1>2. PICK n \in T : \A k \in T : n <= k
    <2>. HIDE DEF T
    <2>. QED BY <1>1, LeastNumber
  <1>3. ASSUME NEW k \in 0..(n - 1) PROVE ~WithinLo(objs, q, b, k)
    <2>1. k \in 0..Len(q) /\ ~(n <= k)
      BY <1>0
    <2>. QED BY <1>2, <2>1
  <1>4. n \in Popped(objs, q, b)
    BY <1>3 DEF Popped
  <1>. QED BY <1>4

(* Trimmed: what is left of a cache q is q without a number of the oldest, *)
(* and no smaller number would have met the limits.                        *)
LEMMA TrimmedCache ==
  ASSUME NEW q \in Seq(Nat), NEW b, NEW objs
  PROVE  \E n \in 0..Len(q) :
           /\ Trimmed(objs, q, b).q = SubSeq(q, n + 1, Len(q))
           /\ \A m \in 0..(n - 1) : ~WithinLo(objs, q, b, m)
  <1>. DEFINE r == Trimmed(objs, q, b)
  <1>1. Len(q) \in Nat
    OBVIOUS
  <1>2. q = SubSeq(q, 0 + 1, Len(q)) /\ <<>> = SubSeq(q, Len(q) + 1, Len(q))
    OBVIOUS
  <1>3. CASE ~MustTrim(q, b)
    <2>1. r.q = q
      BY <1>3 DEF Trimmed
    <2>2. 0 \in 0..Len(q) /\ 0..(0 - 1) = {}
      BY <1>1
    <2>. QED BY <1>2, <2>1, <2>2
  <1>4. CASE MustTrim(q, b) /\ Popped(objs, q, b) = {}
    <2>1. r.q = <<>>
      BY <1>4 DEF Trimmed
    <2>2. \A m \in 0..Len(q) : ~WithinLo(objs, q, b, m)
      BY <1>4, PoppedExists
    <2>3. Len(q) \in 0..Len(q) /\ 0..(Len(q) - 1) \subseteq 0..Len(q)
      BY <1>1
    <2>. QED BY <1>2, <2>1, <2>2, <2>3
  <1>5. CASE MustTrim(q, b) /\ Popped(objs, q, b) # {}
    <2>1. PICK n \in Popped(objs, q, b) :
            r = [q |-> SubSeq(q, n + 1, Len(q)), bytes |-> BytesAfter(objs, q, b, n),
                 crash |-> FALSE]
      BY <1>5 DEF Trimmed
    <2>2. n \in 0..Len(q) /\ \A m \in 0..(n - 1) : ~WithinLo(objs, q, b, m)
      BY DEF Popped
    <2>. DEFINE part == SubSeq(q, n + 1, Len(q))
                after == BytesAfter(objs, q, b, n)
    <2>3. r = [q |-> part, bytes |-> after, crash |-> FALSE]
      BY <2>1
    <2>. HIDE DEF part, after
    <2>4. r.q = part
      BY ONLY <2>3
    <2>. QED BY <2>2, <2>4 DEF part
  <1>. QED BY <1>3, <1>4, <1>5

(* As long as the count of q is exact, what the loop compares is what the  *)
(* rest of q holds, modulo size_t, and so no more than that.               *)
LEMMA ExactAfter ==
  ASSUME NEW q \in Seq(Nat), NEW objs, NEW n \in 0..Len(q), Sizes(objs, q) \in Seq(Nat)
  PROVE  LET rest == Bytes(objs, q, Len(q)) - Bytes(objs, q, n)
         IN  /\ rest \in Nat
             /\ BytesAfter(objs, q, Word(Bytes(objs, q, Len(q))), n) = Word(rest)
  <1>. DEFINE s == Bytes(objs, q, Len(q))
              f == Bytes(objs, q, n)
              d == 0 - f
  <1>1. Len(Sizes(objs, q)) = Len(q) /\ Len(q) \in Nat
    BY DEF Sizes
  <1>2. Len(q) \in 0..Len(q) /\ Len(q) \in 0..Len(Sizes(objs, q))
        /\ n \in 0..Len(Sizes(objs, q))
    BY <1>1
  <1>3. s \in Nat /\ f \in Nat /\ f <= s
    BY <1>1, <1>2, SumsGrow DEF Bytes
  <1>4. BytesAfter(objs, q, Word(s), n) = Word(Word(s) - f)
    BY DEF BytesAfter
  <1>. HIDE DEF s, f
  <1>5. s \in Int /\ d \in Int /\ Word(s) \in Int
    BY <1>3, WordOf, CacheAssumption
  <1>6. Word(s) - f = Word(s) + d /\ s - f = s + d /\ s - f \in Nat
    BY <1>3, <1>5
  <1>. HIDE DEF d
  <1>7. Word(Word(s) + d) = Word(s + d)
    BY <1>5, WordPlus
  <1>8. s - f \in Nat /\ BytesAfter(objs, q, Word(s), n) = Word(s - f)
    BY ONLY <1>4, <1>6, <1>7
  <1>. QED BY <1>8 DEF s, f

LEMMA ExceedsWhenNotWithin ==
  ASSUME NEW q \in Seq(Nat), NEW objs, NEW n \in 0..Len(q), Sizes(objs, q) \in Seq(Nat),
         ~WithinLo(objs, q, Word(Bytes(objs, q, Len(q))), n)
  PROVE  Exceeds(objs, q, n)
  <1>. DEFINE w == Word(Bytes(objs, q, Len(q)))
              rest == Bytes(objs, q, Len(q)) - Bytes(objs, q, n)
              after == BytesAfter(objs, q, w, n)
              left == Len(q) - n
  <1>1. rest \in Nat /\ after = Word(rest)
    BY ExactAfter
  <1>2. ~(after <= SizeLimit.lo /\ left <= ItemLimit.lo)
    BY DEF WithinLo, ByteLo, ItemLo
  <1>3. left \in Nat /\ SizeLimit.lo \in Nat /\ ItemLimit.lo \in Nat
    BY CacheAssumption
  <1>4. Exceeds(objs, q, n) <=> rest > SizeLimit.lo \/ left > ItemLimit.lo
    BY DEF Exceeds
  <1>. HIDE DEF rest, after, left
  <1>5. after \in Nat /\ after <= rest
    BY <1>1, WordBelow
  <1>6. rest > SizeLimit.lo \/ left > ItemLimit.lo
    BY ONLY <1>1, <1>2, <1>3, <1>5
  <1>. QED BY <1>4, <1>6

LEMMA IsSequence ==
  ASSUME NEW S, NEW k \in Nat, NEW y, y = [i \in 1..k |-> y[i]], \A i \in 1..k : y[i] \in S
  PROVE  y \in Seq(S) /\ Len(y) = k
  OBVIOUS

(* As long as the count of q is exact, it stays exact and the loop ends    *)
(* before the deque is empty.                                              *)
LEMMA TrimmedCount ==
  ASSUME NEW q \in Seq(Nat), NEW objs, NEW b \in 0..SizeMax, Sizes(objs, q) \in Seq(Nat)
  PROVE  /\ Trimmed(objs, q, b).bytes \in 0..SizeMax
         /\ Trimmed(objs, q, b).crash \in BOOLEAN
         /\ b = Word(Bytes(objs, q, Len(q))) =>
              /\ ~Trimmed(objs, q, b).crash
              /\ Trimmed(objs, q, b).bytes
                   = Word(Bytes(objs, Trimmed(objs, q, b).q, Len(Trimmed(objs, q, b).q)))
  <1>. DEFINE r == Trimmed(objs, q, b)
              z == Sizes(objs, q)
              sum == PrefixSums(z)
              Exact == b = Word(sum[Len(q)])
  <1>0. Len(q) \in Nat /\ Len(z) = Len(q) /\ z \in Seq(Nat)
    BY DEF Sizes
  <1>1. \A n \in 0..Len(q) : sum[n] \in Nat /\ Bytes(objs, q, n) = sum[n]
    BY <1>0, SumsFunction DEF SumsUpTo, Bytes
  <1>2. ASSUME NEW n \in 0..Len(q)
        PROVE  BytesAfter(objs, q, b, n) \in 0..SizeMax
    <2>1. b - sum[n] \in Int
      BY <1>1, CacheAssumption
    <2>. QED BY <1>1, <2>1, WordOf DEF BytesAfter
  <1>3. ASSUME Exact, NEW n \in 0..Len(q)
        PROVE  BytesAfter(objs, q, b, n) = Word(sum[Len(q)] - sum[n])
    <2>1. Len(q) \in 0..Len(q)
      BY <1>0
    <2>2. sum[Len(q)] = Bytes(objs, q, Len(q)) /\ sum[n] = Bytes(objs, q, n)
      BY <1>1, <2>1
    <2>. QED BY <1>3, <2>2, ExactAfter
  <1>4. CASE ~MustTrim(q, b)
    <2>1. r = [q |-> q, bytes |-> b, crash |-> FALSE]
      BY <1>4 DEF Trimmed
    <2>. QED BY <2>1
  <1>5. CASE MustTrim(q, b) /\ Popped(objs, q, b) = {}
    <2>1. r = [q |-> <<>>, bytes |-> b, crash |-> TRUE]
      BY <1>5 DEF Trimmed
    <2>2. ASSUME Exact PROVE FALSE
      <3>1. Len(q) \in 0..Len(q) /\ Len(q) - Len(q) = 0
        BY <1>0
      <3>2. sum[Len(q)] - sum[Len(q)] = 0
        BY <1>1, <3>1
      <3>3. BytesAfter(objs, q, b, Len(q)) = Word(0)
        BY <1>3, <2>2, <3>1, <3>2
      <3>4. Word(0) = 0
        BY WordSmall, CacheAssumption
      <3>5. 0 <= ByteLo /\ 0 <= ItemLo
        BY CacheAssumption DEF ByteLo, ItemLo
      <3>6. WithinLo(objs, q, b, Len(q))
        BY <3>1, <3>3, <3>4, <3>5 DEF WithinLo
      <3>. QED BY <1>5, <3>1, <3>6, PoppedExists
    <2>. QED BY <1>0, <1>1, <2>1, <2>2
  <1>6. CASE MustTrim(q, b) /\ Popped(objs, q, b) # {}
    <2>1. PICK n \in Popped(objs, q, b) :
            r = [q |-> SubSeq(q, n + 1, Len(q)), bytes |-> BytesAfter(objs, q, b, n),
                 crash |-> FALSE]
      BY <1>6 DEF Trimmed
    <2>2. n \in 0..Len(q)
      BY DEF Popped
    <2>3. ASSUME Exact PROVE r.bytes = Word(Bytes(objs, r.q, Len(r.q)))
      <3>. DEFINE part == SubSeq(q, n + 1, Len(q))
                  k == Len(q) - n
                  y == Sizes(objs, part)
      <3>1. /\ part \in Seq(Nat) /\ Len(part) = k /\ k \in Nat
            /\ \A i \in 1..k : part[i] = q[n + i]
        BY <1>0, <2>2
      <3>2. \A i \in 1..k : n + i \in 1..Len(q)
        BY <1>0, <2>2
      <3>3. \A i \in 1..k : y[i] = z[n + i]
        BY <3>1, <3>2 DEF Sizes
      <3>4. \A i \in 1..Len(q) : z[i] \in Nat
        BY <1>0
      <3>5. y = [i \in 1..k |-> y[i]]
        BY <3>1 DEF Sizes
      <3>6. n + k = Len(q) /\ n \in 0..Len(q)
        BY <1>0, <2>2
      <3>7. Bytes(objs, r.q, Len(r.q)) = PrefixSums(y)[k]
        BY <2>1, <3>1 DEF Bytes
      <3>. HIDE DEF k, y, z
      <3>8. y \in Seq(Nat) /\ Len(y) = k
        <4>1. \A i \in 1..k : y[i] \in Nat
          BY <3>2, <3>3, <3>4
        <4>2. k \in Nat
          BY <3>1
        <4>. QED BY <3>5, <4>1, <4>2, IsSequence
      <3>9. PrefixSums(y)[k] = sum[n + k] - sum[n]
        <4>1. k \in 0..Len(y) /\ n \in 0..Len(z) /\ n + k <= Len(z)
          BY <1>0, <3>1, <3>6, <3>8
        <4>2. PrefixSums(y)[k] = PrefixSums(z)[n + k] - PrefixSums(z)[n]
          BY <1>0, <3>3, <3>8, <4>1, SumsOfPart
        <4>. QED BY <4>2
      <3>10. r.bytes = BytesAfter(objs, q, b, n)
        BY <2>1
      <3>11. r.bytes = Word(sum[Len(q)] - sum[n])
        BY <1>3, <2>3, <3>6, <3>10
      <3>. QED BY <3>6, <3>7, <3>9, <3>11
    <2>4. BytesAfter(objs, q, b, n) \in 0..SizeMax
      BY <1>2, <2>2
    <2>5. r.bytes \in 0..SizeMax /\ r.crash = FALSE
      BY <2>1, <2>4
    <2>6. Bytes(objs, q, Len(q)) = sum[Len(q)]
      BY <1>0, <1>1
    <2>. QED BY <2>3, <2>5, <2>6
  <1>. QED BY <1>4, <1>5, <1>6

-----------------------------------------------------------------------------
(* Objects are numbered in the order in which they are made, and the cache *)
(* holds them in that order: each is added when it is made.                *)
Ordered(q) == \A i, j \in 1..Len(q) : i < j => q[i] < q[j]

OrderInv == TypeOK /\ Ordered(cache)

(* As long as no data is fetched, the count is exact, and the trim loop    *)
(* has stopped before the end of the deque.                                *)
CountInv ==
  ~fetch =>
    /\ bytes = Word(Bytes(objects, cache, Len(cache)))
    /\ \A t \in Threads : pc[t] \notin {"fetch", "crashed"}

Places == {"idle", "memory", "db", "fetch", "thrown", "crashed"}

LEMMA CacheFacts ==
  ASSUME TypeOK
  PROVE  /\ objects \in Seq(Object) /\ Len(objects) \in Nat
         /\ cache \in Seq(Nat) /\ Len(cache) \in Nat
         /\ \A i \in 1..Len(cache) : cache[i] \in 1..Len(objects)
         /\ \A o \in 1..Len(objects) : objects[o] \in Object
  BY DEF TypeOK

LEMMA ObjectSize ==
  ASSUME NEW x \in Object
  PROVE  x.size \in 0..SizeMax /\ x.size \in Nat
  BY CacheAssumption DEF Object

LEMMA SizesFacts ==
  ASSUME NEW objs \in Seq(Object), NEW q, Len(q) \in Nat,
         \A i \in 1..Len(q) : q[i] \in 1..Len(objs)
  PROVE  /\ Sizes(objs, q) \in Seq(Nat)
         /\ Len(Sizes(objs, q)) = Len(q)
         /\ \A i \in 1..Len(q) : Sizes(objs, q)[i] = objs[q[i]].size
  <1>1. \A i \in 1..Len(q) : objs[q[i]].size \in Nat
    <2>. SUFFICES ASSUME NEW i \in 1..Len(q) PROVE objs[q[i]].size \in Nat
      OBVIOUS
    <2>1. objs[q[i]] \in Object
      OBVIOUS
    <2>. QED BY <2>1, ObjectSize
  <1>. QED BY <1>1 DEF Sizes

(* Objects that are added do not change what the cache holds.              *)
LEMMA BytesKept ==
  ASSUME TypeOK, NEW new \in Object
  PROVE  Sizes(Append(objects, new), cache) = Sizes(objects, cache)
  <1>1. \A o \in 1..Len(objects) : Append(objects, new)[o] = objects[o]
    BY CacheFacts
  <1>2. \A i \in 1..Len(cache) :
          Append(objects, new)[cache[i]].size = objects[cache[i]].size
    BY <1>1, CacheFacts
  <1>. QED BY <1>2 DEF Sizes

(* A payload that is added counts as well.                                 *)
LEMMA BytesAdded ==
  ASSUME TypeOK, NEW new \in Object
  PROVE  LET objs == Append(objects, new)
             q == Append(cache, Len(objects) + 1)
         IN  /\ Sizes(objs, q) \in Seq(Nat)
             /\ bytes = Word(Bytes(objects, cache, Len(cache))) =>
                  Word(bytes + new.size) = Word(Bytes(objs, q, Len(q)))
  <1>. DEFINE objs == Append(objects, new)
              q == Append(cache, Len(objects) + 1)
              z == Sizes(objects, cache)
              y == Sizes(objs, q)
              n == Len(cache)
  <1>1. /\ objs \in Seq(Object) /\ Len(objs) = Len(objects) + 1
        /\ objs[Len(objects) + 1] = new
        /\ q \in Seq(Nat) /\ Len(q) = n + 1 /\ q[n + 1] = Len(objects) + 1
        /\ \A i \in 1..n : q[i] = cache[i]
    BY CacheFacts
  <1>2. \A i \in 1..Len(q) : q[i] \in 1..Len(objs)
    BY <1>1, CacheFacts
  <1>3. /\ z \in Seq(Nat) /\ Len(z) = n
        /\ \A i \in 1..n : z[i] = objects[cache[i]].size
    BY CacheFacts, SizesFacts
  <1>4. /\ y \in Seq(Nat) /\ Len(y) = n + 1
        /\ \A i \in 1..(n + 1) : y[i] = objs[q[i]].size
    <2>. HIDE DEF objs, q, y
    <2>1. Len(q) \in Nat
      BY <1>1
    <2>2. objs \in Seq(Object) /\ \A i \in 1..Len(q) : q[i] \in 1..Len(objs)
      BY <1>1, <1>2
    <2>3. /\ y \in Seq(Nat) /\ Len(y) = Len(q)
          /\ \A i \in 1..Len(q) : y[i] = objs[q[i]].size
      BY ONLY <2>1, <2>2, SizesFacts, CacheAssumption DEF y
    <2>. QED BY ONLY <1>1, <2>3
  <1>5. n \in Nat /\ new.size \in Nat
    BY CacheFacts, ObjectSize
  <1>6. \A i \in 1..n : y[i] = z[0 + i]
    <2>1. \A i \in 1..n : objs[cache[i]] = objects[cache[i]]
      BY CacheFacts
    <2>. HIDE DEF objs, q, y, z
    <2>2. ASSUME NEW i \in 1..n PROVE y[i] = z[i]
      <3>1. i \in 1..(n + 1)
        BY <1>5
      <3>2. y[i] = objs[q[i]].size /\ q[i] = cache[i]
        BY <1>1, <1>4, <3>1
      <3>. QED BY <1>3, <2>1, <3>2
    <2>. QED BY <2>2
  <1>7. y[n + 1] = new.size
    <2>. HIDE DEF objs, q, y
    <2>. QED BY <1>1, <1>4, <1>5
  <1>8. Bytes(objects, cache, n) = PrefixSums(z)[n] /\ Bytes(objs, q, Len(q)) = PrefixSums(y)[n + 1]
    BY <1>1 DEF Bytes
  <1>. HIDE DEF objs, q, y, z, n
  <1>9. PrefixSums(y)[n] = PrefixSums(z)[0 + n] - PrefixSums(z)[0]
    <2>1. 0 \in 0..Len(z) /\ n \in 0..Len(y) /\ 0 + n <= Len(z)
      BY <1>3, <1>4, <1>5
    <2>. QED BY <1>3, <1>4, <1>6, <2>1, SumsOfPart
  <1>10. /\ PrefixSums(z)[0] = 0 /\ PrefixSums(z)[n] \in Nat
         /\ PrefixSums(y)[n + 1] = PrefixSums(y)[n] + y[n + 1]
    <2>1. 0 \in 0..Len(z) /\ n \in 0..Len(z) /\ n + 1 \in 0..Len(y) /\ n + 1 # 0 /\ (n + 1) - 1 = n
      BY <1>3, <1>4, <1>5
    <2>. QED BY <1>3, <1>4, <2>1, SumsFunction DEF SumsUpTo
  <1>11. PrefixSums(y)[n + 1] = PrefixSums(z)[n] + new.size
    BY <1>5, <1>7, <1>9, <1>10
  <1>12. Word(Word(PrefixSums(z)[n]) + new.size) = Word(PrefixSums(z)[n] + new.size)
    <2>. DEFINE s == PrefixSums(z)[n]
                d == new.size
    <2>1. s \in Int /\ d \in Int
      BY <1>5, <1>10
    <2>. HIDE DEF s, d
    <2>2. Word(Word(s) + d) = Word(s + d)
      BY <2>1, WordPlus
    <2>. QED BY <2>2 DEF s, d
  <1>. QED BY <1>4, <1>8, <1>11, <1>12 DEF objs, q, n, y

(* The cache after a payload has been added and the oldest have gone.      *)
Suffix(n) == SubSeq(Append(cache, Len(objects) + 1), n + 1, Len(cache) + 1)

LEMMA WholeCache ==
  ASSUME NEW q \in Seq(Nat)
  PROVE  q = SubSeq(q, 0 + 1, Len(q))
  OBVIOUS

LEMMA SetPayloadStep ==
  ASSUME TypeOK, NEW t \in Threads, NEW new \in Object, NEW next,
         SetPayload(t, Len(objects) + 1, Append(objects, new), next)
  PROVE  /\ \E n \in 0..(Len(cache) + 1) :
              /\ cache' = Suffix(n)
              /\ bytes = Word(Bytes(objects, cache, Len(cache))) =>
                   \A m \in 0..(n - 1) :
                     Exceeds(Append(objects, new), Append(cache, Len(objects) + 1), m)
         /\ bytes' \in 0..SizeMax
         /\ \E place \in {"thrown", "crashed", next} : pc' = [pc EXCEPT ![t] = place]
         /\ bytes = Word(Bytes(objects, cache, Len(cache))) =>
              /\ bytes' = Word(Bytes(Append(objects, new), cache', Len(cache')))
              /\ \E place \in {"thrown", next} : pc' = [pc EXCEPT ![t] = place]
  <1>. DEFINE objs == Append(objects, new)
              q == Append(cache, Len(objects) + 1)
              b == Word(bytes + new.size)
              Exact == bytes = Word(Bytes(objects, cache, Len(cache)))
  <1>1. /\ q \in Seq(Nat) /\ Len(q) = Len(cache) + 1 /\ Len(cache) \in Nat
        /\ objs[Len(objects) + 1] = new
    BY CacheFacts
  <1>2. b \in 0..SizeMax
    <2>1. bytes + new.size \in Int
      BY ObjectSize, CacheAssumption DEF TypeOK
    <2>. QED BY <2>1, WordOf
  <1>3. Sizes(objs, q) \in Seq(Nat) /\ (Exact => b = Word(Bytes(objs, q, Len(q))))
    BY BytesAdded
  <1>4. \/ /\ relock = "throws"
           /\ cache' = q
           /\ bytes' = b
           /\ pc' = [pc EXCEPT ![t] = "thrown"]
        \/ /\ cache' = Trimmed(objs, q, b).q
           /\ bytes' = Trimmed(objs, q, b).bytes
           /\ pc' = [pc EXCEPT ![t] = IF Trimmed(objs, q, b).crash THEN "crashed" ELSE next]
    BY <1>1 DEF SetPayload
  <1>5. \A n : Suffix(n) = SubSeq(q, n + 1, Len(q))
    BY <1>1 DEF Suffix
  <1>. HIDE DEF objs, q, b
  <1>6. CASE relock = "throws" /\ cache' = q /\ bytes' = b /\ pc' = [pc EXCEPT ![t] = "thrown"]
    <2>0. q = SubSeq(q, 0 + 1, Len(q))
      BY <1>1, WholeCache, Zenon
    <2>1. cache' = Suffix(0) /\ 0 \in 0..(Len(cache) + 1)
      <3>1. Suffix(0) = SubSeq(q, 0 + 1, Len(q))
        BY <1>5, Zenon
      <3>. QED BY <1>1, <1>6, <2>0, <3>1
    <2>2. 0..(0 - 1) = {}
      OBVIOUS
    <2>. QED BY <1>2, <1>3, <1>6, <2>1, <2>2 DEF objs, q
  <1>7. CASE /\ cache' = Trimmed(objs, q, b).q
             /\ bytes' = Trimmed(objs, q, b).bytes
             /\ pc' = [pc EXCEPT ![t] = IF Trimmed(objs, q, b).crash THEN "crashed" ELSE next]
    <2>1. \E n \in 0..(Len(cache) + 1) :
            cache' = Suffix(n) /\ (Exact => \A m \in 0..(n - 1) : Exceeds(objs, q, m))
      <3>1. PICK n \in 0..Len(q) : /\ cache' = SubSeq(q, n + 1, Len(q))
                                   /\ \A m \in 0..(n - 1) : ~WithinLo(objs, q, b, m)
        BY <1>1, <1>7, TrimmedCache
      <3>2. cache' = Suffix(n) /\ n \in 0..(Len(cache) + 1)
        BY <1>1, <1>5, <3>1
      <3>3. ASSUME Exact, NEW m \in 0..(n - 1) PROVE Exceeds(objs, q, m)
        <4>1. m \in 0..Len(q)
          BY <1>1
        <4>2. ~WithinLo(objs, q, Word(Bytes(objs, q, Len(q))), m)
          BY ONLY <1>3, <3>1, <3>3, Zenon
        <4>. QED BY ONLY <1>1, <1>3, <4>1, <4>2, ExceedsWhenNotWithin
      <3>. QED BY <3>2, <3>3
    <2>3. /\ bytes' \in 0..SizeMax
          /\ Trimmed(objs, q, b).crash \in BOOLEAN
          /\ Exact => /\ ~Trimmed(objs, q, b).crash
                      /\ bytes' = Word(Bytes(objs, cache', Len(cache')))
      BY <1>1, <1>2, <1>3, <1>7, TrimmedCount
    <2>4. \E place \in {"thrown", "crashed", next} : pc' = [pc EXCEPT ![t] = place]
      BY <1>7, <2>3
    <2>5. Exact => \E place \in {"thrown", next} : pc' = [pc EXCEPT ![t] = place]
      BY <1>7, <2>3
    <2>. QED BY <2>1, <2>3, <2>4, <2>5 DEF objs, q
  <1>. QED BY <1>4, <1>6, <1>7

LEMMA SuffixFacts ==
  ASSUME TypeOK, NEW n \in 0..(Len(cache) + 1)
  PROVE  /\ Len(Suffix(n)) = Len(cache) + 1 - n
         /\ \A i \in 1..(Len(cache) + 1 - n) :
              Suffix(n)[i] = IF i + n <= Len(cache) THEN cache[i + n] ELSE Len(objects) + 1
         /\ Suffix(n) \in Seq(1..(Len(objects) + 1))
  <1>. DEFINE q == Append(cache, Len(objects) + 1)
              S == 1..(Len(objects) + 1)
  <1>1. q \in Seq(S) /\ Len(q) = Len(cache) + 1 /\ Len(cache) \in Nat
    <2>1. /\ cache \in Seq(Nat) /\ Len(cache) \in Nat /\ Len(objects) \in Nat
          /\ \A i \in 1..Len(cache) : cache[i] \in 1..Len(objects)
      BY CacheFacts
    <2>2. /\ cache = [i \in 1..Len(cache) |-> cache[i]]
          /\ \A i \in 1..Len(cache) : cache[i] \in S
      BY <2>1
    <2>3. cache \in Seq(S)
      BY <2>1, <2>2
    <2>. QED BY <2>1, <2>3
  <1>2. \A i \in 1..Len(q) : q[i] = IF i <= Len(cache) THEN cache[i] ELSE Len(objects) + 1
    BY CacheFacts
  <1>. HIDE DEF q, S
  <1>3. /\ SubSeq(q, n + 1, Len(q)) \in Seq(S)
        /\ Len(SubSeq(q, n + 1, Len(q))) = Len(q) - n
        /\ \A i \in 1..(Len(q) - n) : SubSeq(q, n + 1, Len(q))[i] = q[i + n]
    <2>1. n + 1 \in Nat /\ Len(q) \in Nat /\ Len(q) - n \in Nat /\ n \in Nat
      BY <1>1
    <2>2. SubSeq(q, n + 1, Len(q)) \in Seq(S)
      BY <1>1, <2>1
    <2>3. Len(SubSeq(q, n + 1, Len(q))) = Len(q) - n
      BY <1>1, <2>1
    <2>4. ASSUME NEW i \in 1..(Len(q) - n)
          PROVE  SubSeq(q, n + 1, Len(q))[i] = q[i + n]
      <3>1. (n + 1) + i - 1 = i + n
        BY <2>1
      <3>. QED BY <1>1, <2>1, <3>1
    <2>. QED BY <2>2, <2>3, <2>4
  <1>4. Suffix(n) = SubSeq(q, n + 1, Len(q))
    <2>1. Suffix(n) = SubSeq(q, n + 1, Len(cache) + 1)
      BY Zenon DEF Suffix, q
    <2>. QED BY ONLY <1>1, <2>1, Zenon
  <1>5. Len(Suffix(n)) = Len(cache) + 1 - n
    BY ONLY <1>1, <1>3, <1>4
  <1>6. ASSUME NEW i \in 1..(Len(cache) + 1 - n)
        PROVE  Suffix(n)[i] = IF i + n <= Len(cache) THEN cache[i + n] ELSE Len(objects) + 1
    <2>1. i + n \in 1..Len(q) /\ i \in 1..(Len(q) - n)
      BY <1>1
    <2>2. Suffix(n)[i] = q[i + n]
      BY ONLY <1>3, <1>4, <2>1, Zenon
    <2>. QED BY ONLY <1>2, <2>1, <2>2, Zenon
  <1>. QED BY ONLY <1>3, <1>4, <1>5, <1>6 DEF S

LEMMA SuffixOrder ==
  ASSUME OrderInv, NEW n \in 0..(Len(cache) + 1), cache' = Suffix(n)
  PROVE  Ordered(cache')
  <1>0. TypeOK
    BY DEF OrderInv
  <1>1. /\ Len(cache) \in Nat /\ Len(objects) \in Nat
        /\ \A i \in 1..Len(cache) : cache[i] \in Nat /\ cache[i] <= Len(objects)
    BY <1>0, CacheFacts
  <1>2. Len(cache') = Len(cache) + 1 - n
    BY <1>0, SuffixFacts
  <1>3. \A i \in 1..Len(cache') :
          cache'[i] = IF i + n <= Len(cache) THEN cache[i + n] ELSE Len(objects) + 1
    BY <1>0, <1>2, SuffixFacts
  <1>. SUFFICES ASSUME NEW i \in 1..Len(cache'), NEW j \in 1..Len(cache'), i < j
                PROVE  cache'[i] < cache'[j]
    BY DEF Ordered
  <1>4. i + n < j + n /\ i + n <= Len(cache) /\ i + n \in 1..Len(cache)
    BY <1>1, <1>2
  <1>5. cache'[i] = cache[i + n]
    BY <1>3, <1>4
  <1>6. CASE j + n <= Len(cache)
    <2>1. j + n \in 1..Len(cache)
      BY <1>1, <1>6
    <2>2. cache[i + n] < cache[j + n]
      BY <1>4, <2>1 DEF OrderInv, Ordered
    <2>. QED BY <1>3, <1>5, <1>6, <2>2
  <1>7. CASE ~(j + n <= Len(cache))
    BY <1>1, <1>3, <1>4, <1>5, <1>7
  <1>. QED BY <1>6, <1>7

(* A step leaves the cache, or adds one payload and drops the oldest.      *)
Keeps ==
  /\ UNCHANGED <<env, cache, bytes>>
  /\ objects' \in Seq(Object) /\ Len(objects) <= Len(objects')
  /\ \E t \in Threads, place \in Places \ {"crashed"} : pc' \in {pc, [pc EXCEPT ![t] = place]}

Adds ==
  /\ UNCHANGED env
  /\ objects' \in Seq(Object) /\ Len(objects') = Len(objects) + 1
  /\ \E n \in 0..(Len(cache) + 1) :
       /\ cache' = Suffix(n)
       /\ bytes = Word(Bytes(objects, cache, Len(cache))) =>
            \A m \in 0..(n - 1) : Exceeds(objects', Append(cache, Len(objects')), m)
  /\ bytes' \in 0..SizeMax
  /\ \E t \in Threads, place \in Places : pc' = [pc EXCEPT ![t] = place]

Counts ==
  CountInv => /\ ~fetch => bytes' = Word(Bytes(objects', cache', Len(cache')))
              /\ ~fetch => \E t \in Threads, place \in Places \ {"fetch", "crashed"} :
                             pc' \in {pc, [pc EXCEPT ![t] = place]}

LEMMA Added ==
  ASSUME TypeOK, NEW t \in Threads, NEW new \in Object, NEW next \in {"idle", "db"},
         UNCHANGED env, objects' = Append(objects, new),
         \/ SetPayload(t, Len(objects'), objects', next)
         \/ UNCHANGED <<cache, bytes, pc>>
  PROVE  (Keeps \/ Adds) /\ Counts
  <1>1. objects' \in Seq(Object) /\ Len(objects') = Len(objects) + 1 /\ Len(objects) \in Nat
    BY CacheFacts
  <1>2. /\ {"thrown", "crashed", next} \subseteq Places
        /\ {"thrown", next} \subseteq Places \ {"fetch", "crashed"}
    BY DEF Places
  <1>3. CASE SetPayload(t, Len(objects'), objects', next)
    <2>1. SetPayload(t, Len(objects) + 1, Append(objects, new), next)
      BY <1>1, <1>3
    <2>2. Adds
      <3>1. Append(cache, Len(objects')) = Append(cache, Len(objects) + 1)
        BY <1>1
      <3>. QED BY <1>1, <1>2, <2>1, <3>1, SetPayloadStep DEF Adds
    <2>3. Counts
      BY <1>2, <2>1, SetPayloadStep DEF Counts, CountInv
    <2>. QED BY <2>2, <2>3
  <1>4. CASE UNCHANGED <<cache, bytes, pc>>
    <2>1. Keeps
      BY <1>1, <1>2, <1>4 DEF Keeps
    <2>2. Bytes(objects', cache, Len(cache)) = Bytes(objects, cache, Len(cache))
      BY BytesKept DEF Bytes
    <2>3. Counts
      BY <1>2, <1>4, <2>2 DEF Counts, CountInv
    <2>. QED BY <2>1, <2>3
  <1>. QED BY <1>3, <1>4

LEMMA PutStep ==
  ASSUME TypeOK, UNCHANGED env, NEW t \in Threads, Put(t)
  PROVE  (Keeps \/ Adds) /\ Counts
  <1>1. PICK p \in Paths, hasData \in BOOLEAN :
          LET new == [path |-> p, mode |-> 1, size |-> IF hasData THEN DataSize[p] ELSE 0]
              objs == Append(objects, new)
          IN  objects' = objs /\ SetPayload(t, Len(objs), objs, "idle")
    BY DEF Put
  <1>. DEFINE new == [path |-> p, mode |-> 1, size |-> IF hasData THEN DataSize[p] ELSE 0]
  <1>2. DataSize[p] \in 0..SizeMax
    BY CacheAssumption
  <1>3. new \in Object
    BY <1>2, CacheAssumption DEF Object
  <1>. HIDE DEF new
  <1>4. objects' = Append(objects, new) /\ SetPayload(t, Len(objects'), objects', "idle")
    BY <1>1 DEF new
  <1>. QED BY <1>3, <1>4, Added

LEMMA DbResultStep ==
  ASSUME TypeOK, UNCHANGED env, NEW t \in Threads, DbResult(t)
  PROVE  (Keeps \/ Adds) /\ Counts
  <1>1. PICK p \in todo[t] :
          LET objs == Append(objects, [path |-> p, mode |-> 0, size |-> 0])
              o == Len(objs)
          IN  /\ objects' = objs
              /\ \/ SetPayload(t, o, objs, "db")
                 \/ UNCHANGED <<cache, bytes, pc>>
    BY DEF DbResult
  <1>. DEFINE new == [path |-> p, mode |-> 0, size |-> 0]
  <1>2. p \in Paths
    BY DEF TypeOK
  <1>3. new \in Object
    BY <1>2, CacheAssumption DEF Object
  <1>. HIDE DEF new
  <1>4. /\ objects' = Append(objects, new)
        /\ \/ SetPayload(t, Len(objects'), objects', "db")
           \/ UNCHANGED <<cache, bytes, pc>>
    BY <1>1 DEF new
  <1>. QED BY <1>3, <1>4, Added

LEMMA FetchStep ==
  ASSUME TypeOK, UNCHANGED env, NEW t \in Threads, Fetch(t)
  PROVE  Keeps /\ Counts
  <1>1. PICK o \in found[t] : objects' = [objects EXCEPT ![o].size = DataSize[objects[o].path]]
    BY DEF Fetch
  <1>2. o \in 1..Len(objects)
    BY DEF TypeOK
  <1>3. objects[o] \in Object
    BY <1>2, CacheFacts
  <1>4. DataSize[objects[o].path] \in 0..SizeMax
    BY <1>3, CacheAssumption DEF Object
  <1>5. [objects[o] EXCEPT !.size = DataSize[objects[o].path]] \in Object
    BY <1>3, <1>4 DEF Object
  <1>6. objects' \in Seq(Object) /\ Len(objects') = Len(objects) /\ Len(objects) \in Nat
    BY <1>1, <1>2, <1>5, CacheFacts
  <1>7. Keeps
    BY <1>6 DEF Fetch, Keeps, Places
  <1>8. Counts
    BY DEF Fetch, Counts, CountInv
  <1>. QED BY <1>7, <1>8

LEMMA OtherStep ==
  ASSUME TypeOK, UNCHANGED env, NEW t \in Threads,
         \/ Get(t) \/ LookUp(t) \/ AskDb(t) \/ DbDone(t) \/ FetchDone(t) \/ Catch(t)
  PROVE  Keeps /\ Counts
  <1>1. UNCHANGED <<objects, cache, bytes>>
    BY DEF Get, LookUp, AskDb, DbDone, FetchDone, Catch, Return
  <1>2. \/ pc' = pc
        \/ \E place \in {"idle", "memory", "db"} : pc' = [pc EXCEPT ![t] = place]
        \/ fetch /\ pc' = [pc EXCEPT ![t] = "fetch"]
    BY DEF Get, LookUp, AskDb, DbDone, FetchDone, Catch, Return
  <1>3. Keeps
    BY <1>1, <1>2, CacheFacts DEF Keeps, Places
  <1>4. Counts
    BY <1>1, <1>2 DEF Counts, CountInv, Places
  <1>. QED BY <1>3, <1>4

LEMMA CacheSteps ==
  ASSUME TypeOK, [Next]_vars
  PROVE  (Keeps \/ Adds \/ UNCHANGED vars) /\ (Counts \/ UNCHANGED vars)
  BY PutStep, DbResultStep, FetchStep, OtherStep DEF Next, Step

(* What a call has yet to ask for and what it has found.                   *)
CallType ==
  /\ unprobed \in [Threads -> SUBSET Paths]
  /\ todo \in [Threads -> SUBSET Paths]
  /\ found \in [Threads -> SUBSET (1..Len(objects))]

LEMMA CallStep ==
  ASSUME TypeOK, [Next]_vars, Len(objects) <= Len(objects'), Len(objects') \in Nat
  PROVE  CallType'
  <1>0. /\ unprobed \in [Threads -> SUBSET Paths]
        /\ todo \in [Threads -> SUBSET Paths]
        /\ found \in [Threads -> SUBSET (1..Len(objects'))]
        /\ Len(objects) \in Nat
    BY CacheFacts DEF TypeOK
  <1>1. ASSUME NEW t \in Threads, Put(t) \/ AskDb(t) \/ Fetch(t)
        PROVE  UNCHANGED <<unprobed, todo, found>>
    BY <1>1 DEF Put, AskDb, Fetch
  <1>2. ASSUME NEW t \in Threads, Get(t)
        PROVE  /\ unprobed' \in [Threads -> SUBSET Paths]
               /\ todo' \in [Threads -> SUBSET Paths]
               /\ found' = found
    BY <1>0, <1>2 DEF Get
  <1>3. ASSUME NEW t \in Threads, LookUp(t)
        PROVE  CallType'
    <2>1. PICK p \in unprobed[t] :
            /\ unprobed' = [unprobed EXCEPT ![t] = unprobed[t] \ {p}]
            /\ found' = [found EXCEPT ![t] = found[t] \union FirstMatch(p)]
            /\ \/ todo' = [todo EXCEPT ![t] = todo[t]]
               \/ todo' = [todo EXCEPT ![t] = todo[t] \ {p}]
      BY <1>3 DEF LookUp
    <2>2. FirstMatch(p) \subseteq 1..Len(objects')
      BY <1>0, CacheFacts DEF FirstMatch
    <2>. QED BY <1>0, <2>1, <2>2 DEF CallType
  <1>4. ASSUME NEW t \in Threads, DbResult(t)
        PROVE  CallType'
    <2>1. PICK p \in todo[t] :
            LET objs == Append(objects, [path |-> p, mode |-> 0, size |-> 0])
                o == Len(objs)
            IN  /\ objects' = objs
                /\ todo' = [todo EXCEPT ![t] = todo[t] \ {p}]
                /\ found' = [found EXCEPT ![t] = found[t] \union {o}]
      BY <1>4 DEF DbResult
    <2>2. Len(objects') \in 1..Len(objects')
      BY <2>1, CacheFacts
    <2>3. found' = [found EXCEPT ![t] = found[t] \union {Len(objects')}]
      BY <2>1
    <2>4. unprobed' = unprobed
      BY <1>4 DEF DbResult
    <2>. QED BY <1>0, <2>1, <2>2, <2>3, <2>4 DEF CallType
  <1>5. ASSUME NEW t \in Threads, DbDone(t) \/ FetchDone(t) \/ Catch(t)
        PROVE  \/ UNCHANGED <<unprobed, todo, found>>
               \/ /\ unprobed' = [unprobed EXCEPT ![t] = {}]
                  /\ todo' = [todo EXCEPT ![t] = {}]
                  /\ found' = [found EXCEPT ![t] = {}]
    BY <1>5 DEF DbDone, FetchDone, Catch, Return
  <1>6. CASE UNCHANGED vars
    BY <1>0, <1>6 DEF vars, CallType
  <1>7. ASSUME NEW t \in Threads, Put(t) \/ Get(t) \/ AskDb(t) \/ Fetch(t)
        PROVE  CallType'
    BY <1>0, <1>1, <1>2, <1>7 DEF CallType
  <1>8. ASSUME NEW t \in Threads, DbDone(t) \/ FetchDone(t) \/ Catch(t)
        PROVE  CallType'
    BY <1>0, <1>5, <1>8 DEF CallType
  <1>. QED BY <1>3, <1>4, <1>6, <1>7, <1>8 DEF Next, Step

LEMMA CacheType ==
  ASSUME TypeOK, Keeps \/ Adds
  PROVE  /\ cache' \in Seq(1..Len(objects'))
         /\ Len(objects) <= Len(objects') /\ Len(objects') \in Nat
  <1>1. CASE Keeps
    <2>1. Len(objects) <= Len(objects') /\ Len(objects') \in Nat /\ cache' = cache
      BY <1>1 DEF Keeps
    <2>2. cache \in Seq(1..Len(objects'))
      BY <2>1, CacheFacts DEF TypeOK
    <2>. QED BY <2>1, <2>2
  <1>2. CASE Adds
    <2>1. PICK n \in 0..(Len(cache) + 1) : cache' = Suffix(n)
      BY <1>2 DEF Adds
    <2>2. Len(objects') = Len(objects) + 1
      BY <1>2 DEF Adds
    <2>. QED BY <2>1, <2>2, SuffixFacts, CacheFacts
  <1>. QED BY <1>1, <1>2

LEMMA TypeStep ==
  ASSUME TypeOK, [Next]_vars
  PROVE  TypeOK'
  <1>1. CASE UNCHANGED vars
    BY <1>1 DEF vars, env, TypeOK
  <1>2. CASE Keeps \/ Adds
    <2>1. /\ UNCHANGED env /\ objects' \in Seq(Object) /\ bytes' \in 0..SizeMax
      BY <1>2 DEF Keeps, Adds, TypeOK
    <2>2. pc' \in [Threads -> Places]
      BY <1>2 DEF Keeps, Adds, TypeOK, Places
    <2>3. cache' \in Seq(1..Len(objects')) /\ CallType'
      BY <1>2, CacheType, CallStep
    <2>. QED BY <2>1, <2>2, <2>3 DEF TypeOK, CallType, Places, env
  <1>. QED BY <1>1, <1>2, CacheSteps

LEMMA InitType == Init => TypeOK
  BY CacheAssumption DEF Init, TypeOK

(* The count stays a size_t, the cache and results point to objects that   *)
(* exist, and calls are where a call can be.                               *)
THEOREM TypeCorrect == Spec => []TypeOK
  <1>1. TypeOK /\ [Next]_vars => TypeOK'
    BY TypeStep
  <1>. QED BY <1>1, InitType, PTL DEF Spec

LEMMA OrderStep ==
  ASSUME OrderInv, [Next]_vars
  PROVE  OrderInv'
  <1>1. TypeOK /\ TypeOK'
    BY TypeStep DEF OrderInv
  <1>2. CASE Keeps \/ UNCHANGED vars
    BY <1>1, <1>2 DEF Keeps, vars, OrderInv, Ordered
  <1>3. CASE Adds
    BY <1>1, <1>3, SuffixOrder DEF Adds, OrderInv
  <1>. QED BY <1>1, <1>2, <1>3, CacheSteps

LEMMA OrderInvHolds == Spec => []OrderInv
  <1>1. Init => OrderInv
    BY InitType DEF Init, OrderInv, Ordered
  <1>2. OrderInv /\ [Next]_vars => OrderInv'
    BY OrderStep
  <1>. QED BY <1>1, <1>2, PTL DEF Spec
-----------------------------------------------------------------------------
LEMMA CountStep ==
  ASSUME TypeOK, CountInv, [Next]_vars
  PROVE  CountInv'
  <1>1. CASE UNCHANGED vars
    BY <1>1 DEF vars, env, CountInv, Bytes
  <1>2. CASE Counts /\ UNCHANGED env
    BY <1>2 DEF Counts, CountInv, TypeOK, env
  <1>. QED BY <1>1, <1>2, CacheSteps DEF Next

LEMMA CountInvHolds == Spec => []CountInv
  <1>1. Init => CountInv
    <2>1. ASSUME Init PROVE bytes = Word(Bytes(objects, cache, Len(cache)))
      <3>1. cache = <<>> /\ bytes = 0 /\ Len(cache) = 0
        BY <2>1 DEF Init
      <3>2. Sizes(objects, cache) \in Seq(Nat) /\ Len(Sizes(objects, cache)) = 0
        BY <3>1 DEF Sizes
      <3>3. PrefixSums(Sizes(objects, cache))[0] = 0
        BY <3>2, SumsStart
      <3>4. Bytes(objects, cache, 0) = 0
        BY <3>3, Zenon DEF Bytes
      <3>6. Bytes(objects, cache, Len(cache)) = 0
        BY <3>1, <3>4, Zenon
      <3>5. Word(0) = 0
        BY WordSmall, CacheAssumption
      <3>. QED BY <3>1, <3>5, <3>6
    <2>. QED BY <2>1 DEF Init, CountInv
  <1>2. TypeOK /\ CountInv /\ [Next]_vars => CountInv'
    BY CountStep
  <1>. QED BY <1>1, <1>2, TypeCorrect, PTL DEF Spec

(* As long as no data is fetched, the count is what the cached payloads    *)
(* hold, for any sizes, limits and threads, also when it wraps.            *)
THEOREM BytesExactHolds == Spec => []BytesExact
  <1>1. CountInv => BytesExact
    BY DEF CountInv, BytesExact
  <1>. QED BY <1>1, CountInvHolds, PTL

(* As long as no data is fetched, the trim loop never takes the front of   *)
(* an empty deque.                                                         *)
NeverEmptied == ~fetch => \A t \in Threads : pc[t] # "crashed"

THEOREM NeverEmptiedHolds == Spec => []NeverEmptied
  <1>1. CountInv => NeverEmptied
    BY DEF CountInv, NeverEmptied
  <1>. QED BY <1>1, CountInvHolds, PTL
-----------------------------------------------------------------------------
LEMMA CacheSet ==
  ASSUME NEW q \in Seq(Nat), NEW o
  PROVE  o \in ToSet(q) <=> \E i \in 1..Len(q) : q[i] = o
  BY DEF ToSet

(* A payload that leaves the cache is among the first n.                   *)
LEMMA EvictedIsOld ==
  ASSUME TypeOK, NEW n \in 0..(Len(cache) + 1), cache' = Suffix(n),
         NEW i \in 1..Len(cache), cache[i] \notin ToSet(cache')
  PROVE  i <= n
  <1>. SUFFICES ASSUME i > n PROVE FALSE
    <2>1. Len(cache) \in Nat
      BY CacheFacts
    <2>. QED BY <2>1
  <1>0. Len(cache) \in Nat
    BY CacheFacts
  <1>1. /\ cache' \in Seq(1..(Len(objects) + 1)) /\ Len(cache') = Len(cache) + 1 - n
        /\ \A k \in 1..(Len(cache) + 1 - n) :
             cache'[k] = IF k + n <= Len(cache) THEN cache[k + n] ELSE Len(objects) + 1
    BY SuffixFacts
  <1>2. cache' \in Seq(Nat)
    <2>1. Len(objects) \in Nat /\ 1..(Len(objects) + 1) \subseteq Nat
      BY CacheFacts
    <2>. QED BY <1>1, <2>1
  <1>3. i - n \in 1..(Len(cache) + 1 - n) /\ (i - n) + n = i /\ i <= Len(cache)
    BY <1>0
  <1>4. cache'[i - n] = cache[i] /\ i - n \in 1..Len(cache')
    BY <1>1, <1>3
  <1>. QED BY <1>2, <1>4, CacheSet

(* As long as no data is fetched, nothing is evicted that could stay: by   *)
(* the real sizes, and also where the count of them has wrapped.           *)
THEOREM EvictsOnlyExcessHolds == Spec => EvictsOnlyExcess
  <1>. DEFINE OnlyExcess == ~fetch => \A i \in 1..Len(cache) :
                              cache[i] \notin ToSet(cache') =>
                                Exceeds(objects', Append(cache, Len(objects')), i - 1)
  <1>1. TypeOK /\ CountInv /\ [Next]_vars => [OnlyExcess]_vars
    <2>. SUFFICES ASSUME TypeOK, CountInv, [Next]_vars, ~fetch,
                         NEW i \in 1..Len(cache), cache[i] \notin ToSet(cache')
                  PROVE  Exceeds(objects', Append(cache, Len(objects')), i - 1)
      OBVIOUS
    <2>1. ~(Keeps \/ UNCHANGED vars)
      <3>1. cache \in Seq(Nat)
        BY CacheFacts
      <3>2. cache[i] \in ToSet(cache)
        BY <3>1, CacheSet
      <3>. QED BY <3>2 DEF Keeps, vars
    <2>2. Adds
      BY <2>1, CacheSteps
    <2>3. bytes = Word(Bytes(objects, cache, Len(cache)))
      BY DEF CountInv
    <2>4. PICK n \in 0..(Len(cache) + 1) :
            /\ cache' = Suffix(n)
            /\ \A m \in 0..(n - 1) : Exceeds(objects', Append(cache, Len(objects')), m)
      BY <2>2, <2>3 DEF Adds
    <2>5. i <= n
      BY <2>4, EvictedIsOld
    <2>6. i - 1 \in 0..(n - 1)
      <3>1. Len(cache) \in Nat
        BY CacheFacts
      <3>. QED BY <2>5, <3>1
    <2>. QED BY <2>4, <2>6
  <1>. QED BY <1>1, TypeCorrect, CountInvHolds, PTL DEF Spec, EvictsOnlyExcess

(* Payloads leave the cache in the order in which they came, for any       *)
(* limits: the newest never go before older ones.                          *)
THEOREM OldestFirstHolds == Spec => OldestFirst
  <1>. DEFINE InOrder == \A o \in ToSet(cache) \ ToSet(cache') :
                           \A older \in ToSet(cache) : older <= o => older \notin ToSet(cache')
  <1>1. OrderInv /\ [Next]_vars => [InOrder]_vars
    <2>. SUFFICES ASSUME OrderInv, [Next]_vars,
                         NEW o \in ToSet(cache) \ ToSet(cache'), NEW p \in ToSet(cache), p <= o
                  PROVE  p \notin ToSet(cache')
      OBVIOUS
    <2>0. TypeOK
      BY DEF OrderInv
    <2>1. CASE Keeps \/ UNCHANGED vars
      BY <2>1 DEF Keeps, vars
    <2>2. CASE Adds
      <3>0. /\ cache \in Seq(Nat) /\ Len(cache) \in Nat /\ Len(objects) \in Nat
            /\ \A i \in 1..Len(cache) : cache[i] \in Nat /\ cache[i] <= Len(objects)
        BY <2>0, CacheFacts
      <3>1. PICK n \in 0..(Len(cache) + 1) : cache' = Suffix(n)
        BY <2>2 DEF Adds
      <3>2. /\ cache' \in Seq(Nat) /\ Len(cache') = Len(cache) + 1 - n
            /\ \A i \in 1..(Len(cache) + 1 - n) :
                 cache'[i] = IF i + n <= Len(cache) THEN cache[i + n] ELSE Len(objects) + 1
        <4>1. cache' \in Seq(1..(Len(objects) + 1)) /\ 1..(Len(objects) + 1) \subseteq Nat
          BY <2>0, <3>0, <3>1, SuffixFacts
        <4>2. cache' \in Seq(Nat)
          BY <4>1
        <4>. QED BY <2>0, <3>1, <4>2, SuffixFacts
      <3>3. PICK i \in 1..Len(cache) : cache[i] = o
        BY <3>0, CacheSet
      <3>4. PICK j \in 1..Len(cache) : cache[j] = p
        BY <3>0, CacheSet
      <3>5. i <= n
        BY <2>0, <3>1, <3>3, EvictedIsOld
      <3>6. j <= i
        <4>1. SUFFICES ASSUME i < j PROVE FALSE
          BY <3>0
        <4>2. cache[i] < cache[j]
          BY <4>1 DEF OrderInv, Ordered
        <4>. QED BY <3>0, <3>3, <3>4, <4>2
      <3>7. ASSUME NEW k \in 1..Len(cache'), cache'[k] = p PROVE FALSE
        <4>1. k \in 1..(Len(cache) + 1 - n) /\ k + n > j
          <5>1. k \in 1..(Len(cache) + 1 - n)
            BY ONLY <3>2, k \in 1..Len(cache'), Zenon
          <5>. QED BY ONLY <5>1, <3>0, <3>5, <3>6, n \in 0..(Len(cache) + 1),
                      i \in 1..Len(cache), j \in 1..Len(cache)
        <4>2. CASE k + n <= Len(cache)
          <5>1. k + n \in 1..Len(cache) /\ cache[k + n] = p
            <6>1. Len(cache) \in Nat
              BY <3>0
            <6>2. k + n \in 1..Len(cache)
              BY ONLY <4>1, <4>2, <6>1, n \in 0..(Len(cache) + 1)
            <6>3. cache'[k] = cache[k + n]
              BY ONLY <3>2, <4>1, <4>2, Zenon
            <6>. QED BY ONLY <3>7, <6>2, <6>3
          <5>2. cache[j] < cache[k + n]
            BY <4>1, <5>1 DEF OrderInv, Ordered
          <5>. QED BY <3>0, <3>4, <5>1, <5>2
        <4>3. CASE ~(k + n <= Len(cache))
          <5>1. cache'[k] = Len(objects) + 1
            BY <3>2, <4>1, <4>3
          <5>. QED BY <3>0, <3>4, <3>7, <5>1
        <4>. QED BY <4>2, <4>3
      <3>. QED BY <3>2, <3>7, CacheSet
    <2>. QED BY <2>0, <2>1, <2>2, CacheSteps
  <1>. QED BY <1>1, OrderInvHolds, PTL DEF Spec, OldestFirst
-----------------------------------------------------------------------------
(* What a call has found without data, and how far it is from its end.     *)
Bare(t) == {o \in found[t] : objects[o].size = 0}

Steps(place, a, b, c) ==
  IF place = "memory" THEN 3 + 2 * a + 2 * b + c
  ELSE IF place = "db" THEN 2 + 2 * b + c
  ELSE IF place = "fetch" THEN 1 + c
  ELSE IF place = "thrown" THEN 1
  ELSE 0

ToGo(t) ==
  Steps(pc[t], Cardinality(unprobed[t]), Cardinality(todo[t]), Cardinality(Bare(t)))

LEMMA StepsFacts ==
  ASSUME NEW a \in Nat, NEW b \in Nat, NEW c \in Nat
  PROVE  /\ \A place : Steps(place, a, b, c) \in Nat
         /\ \A place \in Places : Steps(place, a, b, c) = 0 <=> place \in {"idle", "crashed"}
         /\ \A place : \A d \in 0..c : Steps(place, a, b, d) <= Steps(place, a, b, c)
         /\ Steps("memory", a, b, c) = 3 + 2 * a + 2 * b + c
         /\ Steps("db", a, b, c) = 2 + 2 * b + c
         /\ Steps("fetch", a, b, c) = 1 + c
         /\ Steps("thrown", a, b, c) = 1
  BY DEF Steps, Places

LEMMA CallSets ==
  ASSUME IsFiniteSet(Paths), TypeOK, NEW t \in Threads
  PROVE  /\ IsFiniteSet(unprobed[t]) /\ Cardinality(unprobed[t]) \in Nat
         /\ IsFiniteSet(todo[t]) /\ Cardinality(todo[t]) \in Nat
         /\ IsFiniteSet(Bare(t)) /\ Cardinality(Bare(t)) \in Nat
  <1>1. unprobed[t] \subseteq Paths /\ todo[t] \subseteq Paths
    BY DEF TypeOK
  <1>2. Bare(t) \subseteq 1..Len(objects)
    BY DEF TypeOK, Bare
  <1>3. IsFiniteSet(1..Len(objects))
    BY CacheFacts, FS_Interval
  <1>. QED BY <1>1, <1>2, <1>3, FS_Subset, FS_CardinalityType

LEMMA CallSetsNext ==
  ASSUME IsFiniteSet(Paths), TypeOK', NEW t \in Threads
  PROVE  /\ Cardinality(unprobed'[t]) \in Nat
         /\ Cardinality(todo'[t]) \in Nat
         /\ IsFiniteSet(Bare(t)') /\ Cardinality(Bare(t)') \in Nat
  <1>1. unprobed'[t] \subseteq Paths /\ todo'[t] \subseteq Paths
    BY DEF TypeOK
  <1>2. Bare(t)' \subseteq 1..Len(objects')
    BY DEF TypeOK, Bare
  <1>3. IsFiniteSet(1..Len(objects'))
    <2>1. Len(objects') \in Int
      BY DEF TypeOK
    <2>. QED BY <2>1, FS_Interval
  <1>. QED BY <1>1, <1>2, <1>3, FS_Subset, FS_CardinalityType

LEMMA ToGoRange ==
  ASSUME IsFiniteSet(Paths), TypeOK, NEW t \in Threads
  PROVE  ToGo(t) \in Nat /\ (ToGo(t) = 0 <=> pc[t] \in {"idle", "crashed"})
  <1>1. pc[t] \in Places
    BY DEF TypeOK, Places
  <1>2. \A a, b, c \in Nat :
          Steps(pc[t], a, b, c) \in Nat
          /\ (Steps(pc[t], a, b, c) = 0 <=> pc[t] \in {"idle", "crashed"})
    BY <1>1, StepsFacts
  <1>. QED BY <1>2, CallSets, Zenon DEF ToGo

LEMMA LookUpNearer ==
  ASSUME IsFiniteSet(Paths), TypeOK, TypeOK', NEW t \in Threads, LookUp(t)
  PROVE  ToGo(t)' < ToGo(t)
  <1>1. PICK p \in unprobed[t] :
          /\ unprobed' = [unprobed EXCEPT ![t] = unprobed[t] \ {p}]
          /\ found' = [found EXCEPT ![t] = found[t] \union FirstMatch(p)]
          /\ todo' = [todo EXCEPT ![t] = IF FirstMatch(p) = {} THEN todo[t] ELSE todo[t] \ {p}]
    BY DEF LookUp
  <1>2. unprobed'[t] = unprobed[t] \ {p}
    BY <1>1 DEF TypeOK
  <1>3. todo'[t] \subseteq todo[t]
    BY <1>1 DEF TypeOK
  <1>4. Bare(t)' \subseteq Bare(t) \union FirstMatch(p)
    BY <1>1 DEF LookUp, Bare, TypeOK
  <1>5. \E x : FirstMatch(p) \subseteq {x}
    <2>1. ASSUME NEW i \in 1..Len(cache), NEW j \in 1..Len(cache),
                 Matches(cache[i], p), \A m \in 1..(i - 1) : ~Matches(cache[m], p),
                 Matches(cache[j], p), \A m \in 1..(j - 1) : ~Matches(cache[m], p)
          PROVE  i = j
      <3>1. Len(cache) \in Nat
        BY CacheFacts
      <3>2. i < j => i \in 1..(j - 1)
        BY <3>1
      <3>3. j < i => j \in 1..(i - 1)
        BY <3>1
      <3>. QED BY <2>1, <3>1, <3>2, <3>3
    <2>. QED BY <2>1 DEF FirstMatch
  <1>6. PICK x : Bare(t)' \subseteq Bare(t) \union {x}
    BY <1>4, <1>5
  <1>7. /\ Cardinality(unprobed'[t]) = Cardinality(unprobed[t]) - 1
        /\ Cardinality(todo'[t]) <= Cardinality(todo[t])
    BY <1>2, <1>3, CallSets, FS_RemoveElement, FS_Subset
  <1>8. Cardinality(Bare(t)') <= Cardinality(Bare(t)) + 1
    <2>1. /\ IsFiniteSet(Bare(t) \union {x})
          /\ Cardinality(Bare(t) \union {x}) \in {Cardinality(Bare(t)), Cardinality(Bare(t)) + 1}
      BY CallSets, FS_AddElement
    <2>2. Cardinality(Bare(t)') <= Cardinality(Bare(t) \union {x})
      BY <1>6, <2>1, FS_Subset
    <2>. QED BY <2>1, <2>2, CallSets, CallSetsNext
  <1>9. pc[t] = "memory" /\ pc'[t] = "memory"
    BY DEF LookUp
  <1>10. \A a, b, c, d, e \in Nat :
           d <= b /\ e <= c + 1 /\ a - 1 \in Nat
             => Steps("memory", a - 1, d, e) < Steps("memory", a, b, c)
    BY DEF Steps
  <1>. QED BY <1>7, <1>8, <1>9, <1>10, CallSets, CallSetsNext DEF ToGo

LEMMA DbResultNearer ==
  ASSUME IsFiniteSet(Paths), TypeOK, TypeOK', NEW t \in Threads, DbResult(t)
  PROVE  ToGo(t)' < ToGo(t)
  <1>1. PICK p \in todo[t] :
          LET objs == Append(objects, [path |-> p, mode |-> 0, size |-> 0])
              o == Len(objs)
          IN  /\ objects' = objs
              /\ todo' = [todo EXCEPT ![t] = todo[t] \ {p}]
              /\ found' = [found EXCEPT ![t] = found[t] \union {o}]
              /\ \/ SetPayload(t, o, objs, "db")
                 \/ UNCHANGED <<cache, bytes, pc>>
    BY DEF DbResult
  <1>2. todo'[t] = todo[t] \ {p}
    BY <1>1 DEF TypeOK
  <1>3. Bare(t)' \subseteq Bare(t) \union {Len(objects')}
    <2>1. \A i \in 1..Len(objects) : objects'[i] = objects[i]
      BY <1>1, CacheFacts
    <2>. QED BY <1>1, <2>1 DEF Bare, TypeOK
  <1>4. pc[t] = "db" /\ pc'[t] \in {"db", "thrown", "crashed"}
    BY <1>1 DEF DbResult, SetPayload, TypeOK
  <1>5. Cardinality(todo'[t]) = Cardinality(todo[t]) - 1
    BY <1>2, CallSets, FS_RemoveElement
  <1>6. Cardinality(Bare(t)') <= Cardinality(Bare(t)) + 1
    <2>. DEFINE x == Len(objects')
    <2>. HIDE DEF x
    <2>1. /\ IsFiniteSet(Bare(t) \union {x})
          /\ Cardinality(Bare(t) \union {x}) \in {Cardinality(Bare(t)), Cardinality(Bare(t)) + 1}
      BY CallSets, FS_AddElement
    <2>2. Cardinality(Bare(t)') <= Cardinality(Bare(t) \union {x})
      BY <1>3, <2>1, FS_Subset DEF x
    <2>. QED BY <2>1, <2>2, CallSets, CallSetsNext
  <1>7. \A a, b, c, d, e \in Nat :
          b - 1 \in Nat /\ e <= c + 1 =>
            \A place \in {"db", "thrown", "crashed"} :
              Steps(place, d, b - 1, e) < Steps("db", a, b, c)
    BY DEF Steps
  <1>. QED BY <1>4, <1>5, <1>6, <1>7, CallSets, CallSetsNext DEF ToGo

LEMMA FetchNearer ==
  ASSUME IsFiniteSet(Paths), TypeOK, TypeOK', NEW t \in Threads, Fetch(t)
  PROVE  ToGo(t)' < ToGo(t)
  <1>1. PICK o \in found[t] :
          /\ objects[o].size = 0
          /\ objects' = [objects EXCEPT ![o].size = DataSize[objects[o].path]]
    BY DEF Fetch
  <1>2. o \in 1..Len(objects)
    BY DEF TypeOK
  <1>3. objects[o] \in Object
    BY <1>2, CacheFacts
  <1>4. DataSize[objects[o].path] \in 1..SizeMax
    BY <1>3, CacheAssumption DEF Object
  <1>5. objects'[o].size # 0 /\ \A i \in 1..Len(objects) \ {o} : objects'[i] = objects[i]
    <2>1. objects'[o] = [objects[o] EXCEPT !.size = DataSize[objects[o].path]]
      BY <1>1, <1>2, CacheFacts
    <2>2. objects'[o].size = DataSize[objects[o].path]
      BY <1>3, <2>1 DEF Object
    <2>3. \A i \in 1..Len(objects) \ {o} : objects'[i] = objects[i]
      BY <1>1, <1>2, CacheFacts
    <2>. QED BY <1>4, <2>2, <2>3
  <1>6. Bare(t)' = Bare(t) \ {o} /\ o \in Bare(t)
    BY <1>1, <1>5 DEF Fetch, Bare, TypeOK
  <1>7. Cardinality(Bare(t)') = Cardinality(Bare(t)) - 1
    BY <1>6, CallSets, FS_RemoveElement
  <1>8. pc[t] = "fetch" /\ pc'[t] = "fetch"
    BY DEF Fetch
  <1>9. \A a, b, c, d, e \in Nat :
          c - 1 \in Nat => Steps("fetch", d, e, c - 1) < Steps("fetch", a, b, c)
    BY DEF Steps
  <1>. QED BY <1>7, <1>8, <1>9, CallSets, CallSetsNext DEF ToGo

LEMMA LeaveNearer ==
  ASSUME IsFiniteSet(Paths), TypeOK, TypeOK', NEW t \in Threads,
         AskDb(t) \/ DbDone(t) \/ FetchDone(t) \/ Catch(t)
  PROVE  ToGo(t)' < ToGo(t)
  <1>1. \/ pc[t] = "memory" /\ pc'[t] = "db" /\ UNCHANGED <<objects, todo, found>>
        \/ pc[t] = "db" /\ pc'[t] = "fetch" /\ UNCHANGED <<objects, todo, found>>
        \/ pc[t] \in {"db", "fetch", "thrown"} /\ pc'[t] = "idle"
    BY DEF AskDb, DbDone, FetchDone, Catch, Return, TypeOK
  <1>2. UNCHANGED <<objects, todo, found>> => todo'[t] = todo[t] /\ Bare(t)' = Bare(t)
    BY DEF Bare
  <1>3. \A a, b, c, d, e, f \in Nat :
          /\ Steps("db", d, b, c) < Steps("memory", a, b, c)
          /\ Steps("fetch", d, b, c) < Steps("db", a, b, c)
          /\ \A place \in {"db", "fetch", "thrown"} :
               Steps("idle", d, e, f) < Steps(place, a, b, c)
    BY DEF Steps
  <1>. QED BY <1>1, <1>2, <1>3, CallSets, CallSetsNext DEF ToGo

LEMMA OwnStepNearer ==
  ASSUME IsFiniteSet(Paths), TypeOK, TypeOK', NEW t \in Threads, Step(t)
  PROVE  ToGo(t)' < ToGo(t)
  BY LookUpNearer, DbResultNearer, FetchNearer, LeaveNearer DEF Step

(* No step takes data from an object.                                      *)
LEMMA DataStays ==
  ASSUME TypeOK, NEW t \in Threads, Put(t) \/ Get(t) \/ Step(t), NEW i \in 1..Len(objects)
  PROVE  objects'[i].size = 0 => objects[i].size = 0
  <1>1. CASE Put(t) \/ DbResult(t)
    <2>1. PICK new : objects' = Append(objects, new)
      BY <1>1 DEF Put, DbResult
    <2>. QED BY <2>1, CacheFacts
  <1>2. CASE Fetch(t)
    <2>1. PICK o \in found[t] :
            /\ objects[o].size = 0
            /\ objects' = [objects EXCEPT ![o].size = DataSize[objects[o].path]]
      BY <1>2 DEF Fetch
    <2>2. o \in 1..Len(objects)
      BY DEF TypeOK
    <2>. QED BY <2>1, <2>2, CacheFacts
  <1>3. CASE Get(t) \/ LookUp(t) \/ AskDb(t) \/ DbDone(t) \/ FetchDone(t) \/ Catch(t)
    BY <1>3 DEF Get, LookUp, AskDb, DbDone, FetchDone, Catch, Return
  <1>. QED BY <1>1, <1>2, <1>3 DEF Step

LEMMA SetPayloadPlace ==
  ASSUME NEW t, NEW o, NEW objs, NEW next, SetPayload(t, o, objs, next)
  PROVE  \E place : pc' = [pc EXCEPT ![t] = place]
  BY Zenon DEF SetPayload

LEMMA OtherStepKeeps ==
  ASSUME IsFiniteSet(Paths), TypeOK, TypeOK', NEW t \in Threads, NEW u \in Threads \ {t},
         Put(u) \/ Get(u) \/ Step(u)
  PROVE  ToGo(t)' <= ToGo(t)
  <1>1. /\ pc'[t] = pc[t] /\ unprobed'[t] = unprobed[t] /\ todo'[t] = todo[t]
        /\ found'[t] = found[t]
    <2>0. /\ DOMAIN pc = Threads /\ DOMAIN unprobed = Threads
          /\ DOMAIN todo = Threads /\ DOMAIN found = Threads
      BY DEF TypeOK
    <2>1. CASE Put(u) \/ DbResult(u)
      <3>1. pc' = pc \/ \E place : pc' = [pc EXCEPT ![u] = place]
        <4>1. pc' = pc \/ \E o, objs, next : SetPayload(u, o, objs, next)
          BY <2>1, Zenon DEF Put, DbResult
        <4>. QED BY <4>1, SetPayloadPlace, Zenon
      <3>2. \/ UNCHANGED <<unprobed, todo, found>>
            \/ \E p, o : /\ todo' = [todo EXCEPT ![u] = @ \ {p}]
                         /\ found' = [found EXCEPT ![u] = @ \union {o}]
                         /\ UNCHANGED unprobed
        BY <2>1, Zenon DEF Put, DbResult
      <3>. QED BY ONLY <2>0, <3>1, <3>2, t \in Threads, u \in Threads \ {t}
    <2>2. CASE Get(u) \/ LookUp(u) \/ AskDb(u)
      BY <2>2 DEF TypeOK, Get, LookUp, AskDb
    <2>3. CASE DbDone(u) \/ Fetch(u) \/ FetchDone(u) \/ Catch(u)
      BY <2>3 DEF TypeOK, DbDone, Fetch, FetchDone, Catch, Return
    <2>. QED BY <2>1, <2>2, <2>3 DEF Step
  <1>2. Bare(t)' \subseteq Bare(t)
    <2>1. found[t] \subseteq 1..Len(objects)
      BY DEF TypeOK
    <2>2. \A o \in found[t] : objects'[o].size = 0 => objects[o].size = 0
      BY <2>1, DataStays
    <2>. QED BY ONLY <1>1, <2>2 DEF Bare
  <1>3. Cardinality(Bare(t)') \in 0..Cardinality(Bare(t))
    BY <1>2, CallSets, CallSetsNext, FS_Subset
  <1>. QED BY <1>1, <1>3, CallSets, StepsFacts DEF ToGo

(* That a call can always go on: what ENABLED says of its steps.           *)
Unhindered(t) ==
  pc[t] \notin {"idle", "crashed"} => ENABLED <<UNCHANGED env /\ Step(t)>>_vars

AwayBy(t, n) == ToGo(t) = n
Nearer(t, n) == ToGo(t) < n

(* As long as a call is under way it comes nearer to its end, or somebody  *)
(* brings it there by fetching what it has found: so it ends, with any     *)
(* number of threads over any finite number of structs.                    *)
THEOREM CallAdvances ==
  ASSUME IsFiniteSet(Paths), NEW t \in Threads, NEW n \in Nat \ {0}
  PROVE  Spec /\ Fair(t) /\ []Unhindered(t) => (AwayBy(t, n) ~> Nearer(t, n))
  <1>1. TypeOK /\ AwayBy(t, n) => pc[t] \notin {"idle", "crashed"}
    BY ToGoRange DEF AwayBy
  <1>. DEFINE Counted == ToGo(t) \in Nat
  <1>2. TypeOK => Counted
    BY ToGoRange
  <1>3. ASSUME TypeOK, TypeOK', Counted, Counted', AwayBy(t, n), [Next]_vars
        PROVE  AwayBy(t, n)' \/ Nearer(t, n)'
    <2>1. CASE UNCHANGED vars
      BY <1>3, <2>1 DEF AwayBy, ToGo, Bare, vars
    <2>2. ASSUME NEW u \in Threads \ {t}, Put(u) \/ Get(u) \/ Step(u)
          PROVE  ToGo(t)' <= ToGo(t)
      BY <1>3, <2>2, OtherStepKeeps
    <2>3. CASE Step(t)
      BY <1>3, <2>3, OwnStepNearer DEF AwayBy, Nearer
    <2>4. ~(Put(t) \/ Get(t))
      BY <1>1, <1>3 DEF Put, Get
    <2>. QED BY <1>3, <2>1, <2>2, <2>3, <2>4 DEF Next, AwayBy, Nearer
  <1>4. TypeOK /\ TypeOK' /\ AwayBy(t, n) /\ <<UNCHANGED env /\ Step(t)>>_vars => Nearer(t, n)'
    BY OwnStepNearer DEF AwayBy, Nearer
  <1>. HIDE DEF Counted
  <1>. QED BY <1>1, <1>2, <1>3, <1>4, TypeCorrect, PTL DEF Spec, Fair, Unhindered
================================================================================

---------------------------- MODULE HTableProofs ----------------------------
(***************************************************************************)
(* The hash table implements a map, for all keys, values and hashes and    *)
(* every number of elements.  What a loop of htable.c computes, written as *)
(* a recursive function, is found by induction on its number of rounds.    *)
(***************************************************************************)
EXTENDS HTable, FiniteSetTheorems, SequenceTheorems, NaturalsInduction,
        WellFoundedInduction, TLAPS

-----------------------------------------------------------------------------
(* Induction and recursion *)

(* A set of numbers that is not empty has a least one. *)
LEMMA LeastExists ==
    ASSUME NEW C \in SUBSET Nat, C # {}
    PROVE  \E i \in C : \A j \in C : i =< j
<1> DEFINE R == OpToRel(<, Nat)
<1>1. IsWellFoundedOn(R, Nat)
  BY NatLessThanWellFounded, Zenon
<1>2. \A x, y \in Nat : x < y => <<x, y>> \in R
  BY DEF OpToRel
<1> HIDE DEF R
<1>3. PICK i \in C : \A y \in C : ~(<<y, i>> \in R)
  BY <1>1, WFMin, Zenon
<1>4. \A y \in C : ~(y < i)
  BY <1>2, <1>3
<1> QED
  BY <1>3, <1>4

(* A set of numbers with 0 that has n + 1 with every n below N reaches N.  *)
LEMMA SetInduction ==
    ASSUME NEW N \in Nat, NEW T, 0 \in T,
           \A n \in 0 .. N - 1 : n \in T => n + 1 \in T
    PROVE  \A n \in 0 .. N : n \in T
<1> DEFINE C == {n \in 0 .. N : n \notin T}
<1>1. ASSUME C # {} PROVE FALSE
  <2>1. C \in SUBSET Nat
    OBVIOUS
  <2> HIDE DEF C
  <2>2. PICK n \in C : \A j \in C : n =< j
    BY <1>1, <2>1, LeastExists
  <2>3. n \in 0 .. N /\ n \notin T
    BY <2>2 DEF C
  <2>4. n - 1 \in 0 .. N - 1 /\ n - 1 \in 0 .. N /\ n - 1 + 1 = n
    BY <2>3
  <2>5. n - 1 \notin C
    BY <2>2, <2>3, <2>4
  <2>6. n - 1 \in T
    BY <2>4, <2>5 DEF C
  <2> QED
    BY <2>3, <2>4, <2>6
<1> QED
  BY <1>1

(* f has the value a in 0, and step leads from each value to the next. *)
Rounds(f, N, S, a, step) ==
    /\ f \in [0 .. N -> S]
    /\ f[0] = a
    /\ \A n \in 1 .. N : f[n] = step[n][f[n - 1]]

(* A loop of N rounds has a value after each of them. *)
LEMMA RoundsExist ==
    ASSUME NEW N \in Nat, NEW S, NEW a \in S, NEW step \in [1 .. N -> [S -> S]]
    PROVE  \E f : Rounds(f, N, S, a, step)
<1> DEFINE T == {n \in 0 .. N : \E f : Rounds(f, n, S, a, step)}
<1>1. 0 \in T
  <2>1. Rounds([i \in 0 .. 0 |-> a], 0, S, a, step)
    BY DEF Rounds
  <2> QED
    BY <2>1
<1>2. ASSUME NEW n \in 0 .. N - 1, n \in T
      PROVE  n + 1 \in T
  <2>1. PICK f : Rounds(f, n, S, a, step)
    BY <1>2
  <2> DEFINE g == [i \in 0 .. n + 1 |-> IF i = n + 1 THEN step[n + 1][f[n]] ELSE f[i]]
  <2>2. n + 1 \in 0 .. N /\ n + 1 \in 1 .. N /\ n \in 0 .. n
    OBVIOUS
  <2>3. step[n + 1][f[n]] \in S
    <3>1. f[n] \in S
      BY <2>1, <2>2 DEF Rounds
    <3>2. step[n + 1] \in [S -> S]
      BY <2>2
    <3> QED
      BY <3>1, <3>2
  <2>4. g \in [0 .. n + 1 -> S] /\ g[0] = a
    BY <2>1, <2>3 DEF Rounds
  <2>5. ASSUME NEW i \in 1 .. n + 1
        PROVE  g[i] = step[i][g[i - 1]]
    <3>1. i - 1 \in 0 .. n /\ g[i - 1] = f[i - 1]
      OBVIOUS
    <3>2. CASE i = n + 1
      BY <3>1, <3>2
    <3>3. CASE i # n + 1
      <4>1. i \in 1 .. n
        BY <3>3
      <4> QED
        BY <2>1, <3>1, <4>1 DEF Rounds
    <3> QED
      BY <3>2, <3>3
  <2> HIDE DEF g
  <2>6. Rounds(g, n + 1, S, a, step)
    BY <2>4, <2>5 DEF Rounds
  <2> QED
    BY <2>2, <2>6
<1> HIDE DEF T
<1>3. N \in T
  <2>1. \A n \in 0 .. N : n \in T
    BY <1>1, <1>2, SetInduction, Zenon
  <2> QED
    BY <2>1
<1> QED
  BY <1>3 DEF T

(* There is one such function. *)
LEMMA RoundsUnique ==
    ASSUME NEW N \in Nat, NEW S, NEW a, NEW step, NEW f, NEW g,
           Rounds(f, N, S, a, step), Rounds(g, N, S, a, step)
    PROVE  \A n \in 0 .. N : f[n] = g[n]
<1> DEFINE T == {n \in 0 .. N : f[n] = g[n]}
<1>1. 0 \in T
  BY DEF Rounds
<1>2. ASSUME NEW n \in 0 .. N - 1, n \in T
      PROVE  n + 1 \in T
  <2>1. n + 1 \in 1 .. N /\ n + 1 - 1 = n /\ n + 1 \in 0 .. N
    OBVIOUS
  <2>2. f[n + 1] = step[n + 1][f[n]] /\ g[n + 1] = step[n + 1][g[n]]
    BY <2>1 DEF Rounds
  <2> QED
    BY <1>2, <2>1, <2>2
<1> HIDE DEF T
<1>3. \A n \in 0 .. N : n \in T
  BY <1>1, <1>2, SetInduction, Zenon
<1> QED
  BY <1>3 DEF T

-----------------------------------------------------------------------------
(* The lengths *)

(* Doubled is what its definition says: doubling is repeated any number of *)
(* times.                                                                  *)
LEMMA DoubledValues ==
    /\ Doubled \in [Nat -> Nat \ {0}]
    /\ Doubled[0] = MinLength
    /\ \A n \in Nat : Doubled[n + 1] = 2 * Doubled[n]
<1> DEFINE twice(N) == [n \in 1 .. N |-> [x \in Nat \ {0} |-> 2 * x]]
           IsUpTo(f, N) == Rounds(f, N, Nat \ {0}, MinLength, twice(N))
           upTo(N) == CHOOSE f : IsUpTo(f, N)
           D == [n \in Nat |-> upTo(n)[n]]
           Def(f) == [i \in Nat |-> IF i = 0 THEN MinLength ELSE 2 * f[i - 1]]
<1>0. MinLength \in Nat \ {0}
  BY LengthAssumption
<1>1. ASSUME NEW N \in Nat PROVE IsUpTo(upTo(N), N)
  <2>1. twice(N) \in [1 .. N -> [Nat \ {0} -> Nat \ {0}]]
    OBVIOUS
  <2> HIDE DEF twice
  <2>2. \E f : IsUpTo(f, N)
    BY <1>0, <2>1, RoundsExist
  <2> HIDE DEF IsUpTo
  <2> QED
    BY <2>2, Zenon
<1> HIDE DEF upTo
<1>2. ASSUME NEW N \in Nat
      PROVE  /\ upTo(N) \in [0 .. N -> Nat \ {0}] /\ upTo(N)[0] = MinLength
             /\ \A n \in 1 .. N : upTo(N)[n] = 2 * upTo(N)[n - 1]
  <2>1. IsUpTo(upTo(N), N)
    BY <1>1
  <2>2. upTo(N) \in [0 .. N -> Nat \ {0}] /\ upTo(N)[0] = MinLength
    BY <2>1 DEF Rounds
  <2>3. ASSUME NEW n \in 1 .. N PROVE upTo(N)[n] = 2 * upTo(N)[n - 1]
    <3>1. upTo(N)[n] = twice(N)[n][upTo(N)[n - 1]]
      BY <2>1 DEF Rounds
    <3>2. upTo(N)[n - 1] \in Nat \ {0}
      BY <2>2
    <3> QED
      BY <3>1, <3>2
  <2> QED
    BY <2>2, <2>3
<1>3. ASSUME NEW n \in Nat PROVE upTo(n + 1)[n] = upTo(n)[n]
  <2> DEFINE f == [i \in 0 .. n |-> upTo(n + 1)[i]]
  <2>1. /\ upTo(n + 1) \in [0 .. n + 1 -> Nat \ {0}] /\ upTo(n + 1)[0] = MinLength
        /\ \A i \in 1 .. n + 1 : upTo(n + 1)[i] = 2 * upTo(n + 1)[i - 1]
    BY <1>2
  <2>2. f \in [0 .. n -> Nat \ {0}] /\ f[0] = MinLength /\ f[n] = upTo(n + 1)[n]
    BY <2>1
  <2>3. ASSUME NEW i \in 1 .. n PROVE f[i] = twice(n)[i][f[i - 1]]
    <3>1. i \in 0 .. n /\ i - 1 \in 0 .. n /\ i \in 1 .. n + 1
      OBVIOUS
    <3>2. f[i - 1] \in Nat \ {0} /\ f[i - 1] = upTo(n + 1)[i - 1] /\ f[i] = upTo(n + 1)[i]
      BY <2>2, <3>1
    <3>3. twice(n)[i][f[i - 1]] = 2 * f[i - 1]
      BY <3>2
    <3> QED
      BY <2>1, <3>1, <3>2, <3>3
  <2> HIDE DEF f
  <2>4. Rounds(f, n, Nat \ {0}, MinLength, twice(n))
    BY <2>2, <2>3 DEF Rounds
  <2>5. Rounds(upTo(n), n, Nat \ {0}, MinLength, twice(n))
    BY <1>1
  <2> HIDE DEF twice
  <2>6. \A i \in 0 .. n : f[i] = upTo(n)[i]
    BY <2>4, <2>5, RoundsUnique
  <2> QED
    BY <2>2, <2>6
<1>4. D \in [Nat -> Nat \ {0}] /\ D[0] = MinLength
  <2>1. \A n \in Nat : upTo(n)[n] \in Nat \ {0}
    BY <1>2
  <2>2. upTo(0)[0] = MinLength
    BY <1>2
  <2> QED
    BY <2>1, <2>2
<1>5. ASSUME NEW n \in Nat PROVE D[n + 1] = 2 * D[n]
  <2>1. upTo(n + 1)[n + 1] = 2 * upTo(n + 1)[n]
    <3>1. n + 1 \in Nat /\ n + 1 \in 1 .. n + 1 /\ n + 1 - 1 = n
      OBVIOUS
    <3>2. upTo(n + 1)[n + 1] = 2 * upTo(n + 1)[n + 1 - 1]
      BY <1>2, <3>1
    <3> QED
      BY <3>1, <3>2
  <2> QED
    BY <1>3, <2>1
<1> HIDE DEF D
<1>6. D = Def(D)
  <2>1. ASSUME NEW i \in Nat
        PROVE  D[i] = IF i = 0 THEN MinLength ELSE 2 * D[i - 1]
    <3>1. CASE i = 0
      BY <1>4, <3>1
    <3>2. CASE i # 0
      <4>1. i - 1 \in Nat /\ i - 1 + 1 = i
        BY <3>2
      <4>2. D[i - 1 + 1] = 2 * D[i - 1]
        BY <1>5, <4>1
      <4> QED
        BY <3>2, <4>1, <4>2
    <3> QED
      BY <3>1, <3>2
  <2>2. D = [i \in Nat |-> D[i]]
    BY <1>4
  <2> QED
    BY <2>1, <2>2
<1>7. Doubled = CHOOSE f : f = Def(f)
  BY DEF Doubled
<1>8. Doubled = Def(Doubled)
  BY <1>6, <1>7, Zenon
<1>9. Doubled[0] = MinLength
  BY <1>8
<1>10. ASSUME NEW n \in Nat PROVE Doubled[n + 1] = 2 * Doubled[n]
  <2>1. n + 1 \in Nat /\ n + 1 # 0 /\ n + 1 - 1 = n
    OBVIOUS
  <2>2. Doubled[n + 1] = 2 * Doubled[n + 1 - 1]
    BY <1>8, <2>1
  <2> QED
    BY <2>1, <2>2
<1>11. ASSUME NEW N \in Nat PROVE Doubled[N] \in Nat \ {0}
  <2> DEFINE T == {n \in Nat : Doubled[n] \in Nat \ {0}}
  <2>1. 0 \in T
    BY <1>0, <1>9
  <2>2. ASSUME NEW n \in 0 .. N - 1, n \in T PROVE n + 1 \in T
    BY <1>10, <2>2
  <2> HIDE DEF T
  <2>3. \A n \in 0 .. N : n \in T
    BY <2>1, <2>2, SetInduction, Zenon
  <2>4. N \in T
    BY <2>3
  <2> QED
    BY <2>4 DEF T
<1>12. Doubled \in [Nat -> Nat \ {0}]
  BY <1>8, <1>11
<1> QED
  BY <1>9, <1>10, <1>12

(* Lengths grow, and the n-th is above n. *)
LEMMA LengthsGrow ==
    ASSUME NEW N \in Nat
    PROVE  Doubled[N] > N /\ \A n \in 0 .. N - 1 : Doubled[n] < Doubled[N]
<1> DEFINE T == {m \in Nat : Doubled[m] > m /\ \A n \in 0 .. m - 1 : Doubled[n] < Doubled[m]}
<1>1. 0 \in T
  BY DoubledValues
<1>2. ASSUME NEW m \in 0 .. N - 1, m \in T PROVE m + 1 \in T
  <2>1. m \in Nat /\ m + 1 \in Nat /\ Doubled[m] \in Nat \ {0} /\ Doubled[m] > m
    BY <1>2, DoubledValues
  <2>2. Doubled[m + 1] = 2 * Doubled[m]
    BY <2>1, DoubledValues
  <2>3. ASSUME NEW n \in 0 .. m PROVE Doubled[n] < Doubled[m + 1]
    <3>1. Doubled[n] \in Nat \ {0}
      BY DoubledValues
    <3>2. CASE n = m
      BY <2>1, <2>2, <3>2
    <3>3. CASE n # m
      <4>1. n \in 0 .. m - 1
        BY <3>3
      <4>2. Doubled[n] < Doubled[m]
        BY <1>2, <4>1
      <4> QED
        BY <2>1, <2>2, <3>1, <4>2
    <3> QED
      BY <3>2, <3>3
  <2>4. Doubled[m + 1] > m + 1
    BY <2>1, <2>2
  <2> QED
    BY <2>1, <2>3, <2>4
<1> HIDE DEF T
<1>3. \A n \in 0 .. N : n \in T
  BY <1>1, <1>2, SetInduction, Zenon
<1>4. N \in T
  BY <1>3
<1> QED
  BY <1>4 DEF T

(* The loop of htable_resize ends, with a length that is large enough. *)
LEMMA NewLengthFits ==
    ASSUME NEW n \in Nat
    PROVE  \E i \in Nat :
             /\ NewLength(n) = Doubled[i] /\ Doubled[i] >= n
             /\ \A j \in 0 .. i - 1 : Doubled[j] < n
<1> DEFINE C == {i \in 0 .. n : Doubled[i] >= n}
           First(i) == Doubled[i] >= n /\ \A j \in 0 .. i - 1 : Doubled[j] < n
<1>1. n \in C
  <2>1. Doubled[n] > n /\ Doubled[n] \in Nat
    BY LengthsGrow, DoubledValues
  <2> QED
    BY <2>1
<1>2. C \in SUBSET Nat /\ C # {}
  BY <1>1
<1>3. PICK i \in C : \A j \in C : i =< j
  <2> HIDE DEF C
  <2> QED
    BY <1>2, LeastExists
<1>4. First(i)
  <2>1. Doubled[i] >= n /\ i \in 0 .. n
    BY <1>3
  <2>2. ASSUME NEW j \in 0 .. i - 1 PROVE Doubled[j] < n
    <3>1. j \notin C /\ j \in 0 .. n /\ Doubled[j] \in Nat
      <4>1. j \in 0 .. n /\ j \in Nat /\ ~(i =< j)
        BY <2>1
      <4> HIDE DEF C
      <4> QED
        BY <1>3, <4>1, DoubledValues
    <3> QED
      BY <3>1
  <2> QED
    BY <2>1, <2>2
<1>5. i \in 0 .. n
  BY <1>3
<1> DEFINE f == CHOOSE k \in 0 .. n : First(k)
<1>6. NewLength(n) = Doubled[f]
  BY DEF NewLength
<1>7. f \in 0 .. n /\ First(f)
  <2> HIDE DEF First
  <2> QED
    BY <1>4, <1>5, Zenon
<1> HIDE DEF f
<1>8. f \in Nat
  BY <1>7
<1> QED
  BY <1>6, <1>7, <1>8

(* A length is what the loop makes of it. *)
LEMMA LengthKept ==
    ASSUME NEW k \in Nat
    PROVE  NewLength(Doubled[k]) = Doubled[k]
<1>1. Doubled[k] \in Nat
  BY DoubledValues
<1>2. PICK i \in Nat : /\ NewLength(Doubled[k]) = Doubled[i] /\ Doubled[i] >= Doubled[k]
                       /\ \A j \in 0 .. i - 1 : Doubled[j] < Doubled[k]
  BY <1>1, NewLengthFits
<1>3. ~(i < k)
  <2>1. ASSUME i < k PROVE FALSE
    <3>1. i \in 0 .. k - 1 /\ Doubled[i] \in Nat
      BY <2>1, DoubledValues
    <3>2. Doubled[i] < Doubled[k]
      BY <3>1, LengthsGrow
    <3> QED
      BY <1>1, <1>2, <3>1, <3>2
  <2> QED
    BY <2>1
<1>4. ~(k < i)
  <2>1. ASSUME k < i PROVE FALSE
    <3>1. k \in 0 .. i - 1
      BY <2>1
    <3> QED
      BY <1>1, <1>2, <3>1
  <2> QED
    BY <2>1
<1>5. i = k
  BY <1>3, <1>4
<1> QED
  BY <1>2, <1>5

-----------------------------------------------------------------------------
(* Sequences of entries *)

(* No key is in s twice. *)
Distinct(s) == \A j, k \in DOMAIN s : s[j].key = s[k].key => j = k

(* What an entry is: its hash is that of its key. *)
LEMMA EntryFields ==
    ASSUME NEW e \in Entries
    PROVE  /\ e.key \in Key /\ e.val \in Val /\ e.hash = Hash[e.key] /\ e.hash \in Nat
           /\ e = Entry(e.key, e.val)
BY HashAssumption DEF Entries, Entry

(* What Entry makes is an entry. *)
LEMMA EntryMade ==
    ASSUME NEW k \in Key, NEW v \in Val
    PROVE  /\ Entry(k, v) \in Entries /\ Entry(k, v).key = k /\ Entry(k, v).val = v
           /\ Entry(k, v).hash = Hash[k]
BY DEF Entries, Entry

(* A slot is an index of the list. *)
LEMMA SlotInList ==
    ASSUME NEW h \in Nat, NEW length \in Nat \ {0}
    PROVE  Slot(h, length) \in 0 .. length - 1
BY DEF Slot

(* The keys of some entries have the key of each of them. *)
LEMMA KeyListed ==
    ASSUME NEW E, NEW x \in E
    PROVE  x.key \in KeysOf(E)
BY DEF KeysOf

(* A sequence without a key twice has as many keys as elements. *)
LEMMA KeysCounted ==
    ASSUME NEW s \in Seq(Entries), Distinct(s)
    PROVE  /\ IsFiniteSet(KeysOf(ChainEntries(s)))
           /\ Cardinality(KeysOf(ChainEntries(s))) = Len(s)
<1> DEFINE K == KeysOf(ChainEntries(s))
           f == [j \in 1 .. Len(s) |-> s[j].key]
<1>1. DOMAIN s = 1 .. Len(s) /\ Len(s) \in Nat
  OBVIOUS
<1>2. \A x : x \in K <=> \E j \in 1 .. Len(s) : x = s[j].key
  BY <1>1 DEF KeysOf, ChainEntries
<1>3. f \in [1 .. Len(s) -> K]
  BY <1>2
<1>4. \A i, j \in 1 .. Len(s) : f[i] = f[j] => i = j
  BY <1>1 DEF Distinct
<1>5. \A x \in K : \E j \in 1 .. Len(s) : f[j] = x
  BY <1>2
<1> HIDE DEF f, K
<1>6. f \in Bijection(1 .. Len(s), K)
  BY <1>3, <1>4, <1>5 DEF Bijection, Injection, Surjection, IsInjective
<1>7. ExistsBijection(1 .. Len(s), K)
  BY <1>6 DEF ExistsBijection
<1>8. IsFiniteSet(K) /\ Cardinality(K) = Len(s)
  BY <1>1, <1>7, FS_CountingElements, FS_NatBijection
<1> QED
  BY <1>8 DEF K

(* The sequence of a and then b, which have no key in common. *)
LEMMA Concatenated ==
    ASSUME NEW a \in Seq(Entries), NEW b \in Seq(Entries), Distinct(a), Distinct(b),
           \A x \in ChainEntries(a), y \in ChainEntries(b) : x.key # y.key
    PROVE  /\ a \o b \in Seq(Entries) /\ Distinct(a \o b)
           /\ ChainEntries(a \o b) = ChainEntries(a) \cup ChainEntries(b)
<1> DEFINE c == a \o b
<1>1. /\ Len(a) \in Nat /\ Len(b) \in Nat
      /\ DOMAIN a = 1 .. Len(a) /\ DOMAIN b = 1 .. Len(b)
  OBVIOUS
<1>2. /\ c \in Seq(Entries) /\ Len(c) = Len(a) + Len(b) /\ DOMAIN c = 1 .. Len(a) + Len(b)
      /\ \A j \in 1 .. Len(a) + Len(b) : c[j] = IF j =< Len(a) THEN a[j] ELSE b[j - Len(a)]
  BY <1>1
<1> HIDE DEF c
<1>3. ASSUME NEW j \in DOMAIN c
      PROVE  \/ j \in DOMAIN a /\ c[j] = a[j]
             \/ j - Len(a) \in DOMAIN b /\ c[j] = b[j - Len(a)]
  BY <1>1, <1>2
<1>4. ASSUME NEW j \in DOMAIN a PROVE j \in DOMAIN c /\ c[j] = a[j]
  BY <1>1, <1>2
<1>5. ASSUME NEW j \in DOMAIN b PROVE j + Len(a) \in DOMAIN c /\ c[j + Len(a)] = b[j]
  <2>1. j + Len(a) \in 1 .. Len(a) + Len(b) /\ ~(j + Len(a) =< Len(a)) /\ j + Len(a) - Len(a) = j
    BY <1>1
  <2> QED
    BY <1>2, <2>1
<1>6. ChainEntries(c) = ChainEntries(a) \cup ChainEntries(b)
  BY <1>3, <1>4, <1>5 DEF ChainEntries
<1>7. ASSUME NEW j \in DOMAIN c, NEW k \in DOMAIN c, c[j].key = c[k].key
      PROVE  j = k
  <2>1. CASE j \in DOMAIN a /\ c[j] = a[j] /\ k \in DOMAIN a /\ c[k] = a[k]
    BY <1>7, <2>1 DEF Distinct
  <2>2. CASE /\ j - Len(a) \in DOMAIN b /\ c[j] = b[j - Len(a)]
             /\ k - Len(a) \in DOMAIN b /\ c[k] = b[k - Len(a)]
    <3>1. j - Len(a) = k - Len(a)
      BY <1>7, <2>2 DEF Distinct
    <3> QED
      BY <1>1, <1>2, <3>1
  <2>3. CASE /\ j \in DOMAIN a /\ c[j] = a[j]
             /\ k - Len(a) \in DOMAIN b /\ c[k] = b[k - Len(a)]
    BY <1>7, <2>3 DEF ChainEntries
  <2>4. CASE /\ k \in DOMAIN a /\ c[k] = a[k]
             /\ j - Len(a) \in DOMAIN b /\ c[j] = b[j - Len(a)]
    BY <1>7, <2>4 DEF ChainEntries
  <2> QED
    BY <1>3, <2>1, <2>2, <2>3, <2>4
<1> QED
  BY <1>2, <1>6, <1>7 DEF c, Distinct

(* f appends the first N elements of seqs one after the other. *)
Appends(f, N, S, seqs) ==
    /\ f \in [1 .. N -> Seq(S)] /\ f[1] = seqs[1]
    /\ \A i \in 2 .. N : f[i] = f[i - 1] \o seqs[i]

(* FlattenSeq is the last value of such a function. *)
LEMMA Flattened ==
    ASSUME NEW N \in Nat \ {0}, NEW S, NEW seqs \in [1 .. N -> Seq(S)]
    PROVE  \E f : Appends(f, N, S, seqs) /\ FlattenSeq(seqs) = f[N]
<1> DEFINE Def(f) == [i \in 1 .. N |-> IF i = 1 THEN seqs[i] ELSE f[i - 1] \o seqs[i]]
           step == [n \in 1 .. N |-> [x \in Seq(S) |-> x \o seqs[n]]]
           flatten == CHOOSE f : f = Def(f)
<1>1. seqs \in Seq(Seq(S)) /\ Len(seqs) = N
  OBVIOUS
<1>2. FlattenSeq(seqs) = flatten[N]
  BY <1>1 DEF FlattenSeq
<1>3. step \in [1 .. N -> [Seq(S) -> Seq(S)]]
  OBVIOUS
<1>4. <<>> \in Seq(S)
  OBVIOUS
<1>5. PICK f : Rounds(f, N, Seq(S), <<>>, step)
  <2> HIDE DEF step
  <2> QED
    BY <1>3, <1>4, RoundsExist
<1>6. ASSUME NEW i \in 1 .. N PROVE f[i] = f[i - 1] \o seqs[i] /\ f[i] \in Seq(S)
  <2>1. i \in 0 .. N /\ i - 1 \in 0 .. N
    OBVIOUS
  <2>2. f[i] = step[i][f[i - 1]] /\ f[i - 1] \in Seq(S) /\ f[i] \in Seq(S)
    BY <1>5, <2>1 DEF Rounds
  <2> QED
    BY <2>2
<1> DEFINE g == [i \in 1 .. N |-> f[i]]
<1>7. g = Def(g)
  <2>1. ASSUME NEW i \in 1 .. N
        PROVE  f[i] = IF i = 1 THEN seqs[i] ELSE g[i - 1] \o seqs[i]
    <3>1. CASE i = 1
      <4>1. f[0] = <<>>
        BY <1>5 DEF Rounds
      <4>2. f[1] = <<>> \o seqs[1]
        <5>1. f[i] = f[i - 1] \o seqs[i] /\ i - 1 = 0
          BY <1>6, <3>1
        <5> QED
          BY <3>1, <4>1, <5>1, Zenon
      <4>3. seqs[1] \in Seq(S)
        BY <3>1
      <4> QED
        BY <3>1, <4>2, <4>3
    <3>2. CASE i # 1
      <4>1. i - 1 \in 1 .. N
        BY <3>2
      <4> QED
        BY <1>6, <3>2, <4>1
    <3> QED
      BY <3>1, <3>2
  <2> QED
    BY <2>1
<1> HIDE DEF g
<1>8. flatten = Def(flatten)
  BY <1>7, Zenon
<1> HIDE DEF flatten
<1>9. flatten[1] = seqs[1] /\ \A i \in 2 .. N : flatten[i] = flatten[i - 1] \o seqs[i]
  <2>1. ASSUME NEW i \in 1 .. N
        PROVE  flatten[i] = IF i = 1 THEN seqs[i] ELSE flatten[i - 1] \o seqs[i]
    BY <1>8, Zenon
  <2>2. 1 \in 1 .. N
    OBVIOUS
  <2>3. \A i \in 2 .. N : i \in 1 .. N /\ i # 1
    OBVIOUS
  <2> QED
    BY <2>1, <2>2, <2>3, Zenon
<1>10. ASSUME NEW n \in 1 .. N PROVE flatten[n] \in Seq(S)
  <2> DEFINE T == {m \in Nat : m = 0 \/ flatten[m] \in Seq(S)}
  <2>1. 0 \in T
    OBVIOUS
  <2>2. ASSUME NEW m \in 0 .. N - 1, m \in T PROVE m + 1 \in T
    <3>1. CASE m = 0
      BY <1>9, <3>1
    <3>2. CASE m # 0
      <4> DEFINE k == m + 1
      <4>1. k \in 2 .. N /\ k - 1 = m /\ k \in 1 .. N /\ k \in Nat
        BY <3>2
      <4> HIDE DEF k
      <4>2. flatten[k] = flatten[m] \o seqs[k]
        BY <1>9, <4>1
      <4>3. flatten[m] \in Seq(S) /\ seqs[k] \in Seq(S)
        BY <2>2, <3>2, <4>1
      <4>4. flatten[k] \in Seq(S)
        BY <4>2, <4>3
      <4> QED
        BY <4>1, <4>4 DEF k
    <3> QED
      BY <3>1, <3>2
  <2> HIDE DEF T
  <2>3. \A m \in 0 .. N : m \in T
    BY <2>1, <2>2, SetInduction, Zenon
  <2>4. n \in T
    BY <2>3
  <2> QED
    BY <2>4 DEF T
<1>11. flatten \in [1 .. N -> Seq(S)]
  BY <1>8, <1>10
<1>12. Appends(flatten, N, S, seqs)
  BY <1>9, <1>11 DEF Appends
<1> QED
  BY <1>2, <1>12

-----------------------------------------------------------------------------
(* Lists *)

(* An entry of a good list is in the chain that its hash selects. *)
LEMMA InItsChain ==
    ASSUME NEW length \in Nat \ {0}, NEW list, GoodList(list, length)
    PROVE  /\ EntriesIn(list) \subseteq Entries
           /\ \A i \in 0 .. length - 1 : \A e \in ChainEntries(list[i]) :
                 e \in Entries /\ Slot(e.hash, length) = i
           /\ \A e : e \in EntriesIn(list) <=>
                 e \in Entries /\ e \in ChainEntries(list[Slot(e.hash, length)])
<1>1. ASSUME NEW i \in 0 .. length - 1, NEW e \in ChainEntries(list[i])
      PROVE  e \in Entries /\ Slot(e.hash, length) = i
  <2>1. list[i] \in Seq(Entries) /\ \A j \in DOMAIN list[i] : Slot(list[i][j].hash, length) = i
    BY DEF GoodList, GoodChain
  <2>2. PICK j \in DOMAIN list[i] : e = list[i][j]
    BY DEF ChainEntries
  <2> QED
    BY <2>1, <2>2
<1>2. ASSUME NEW e
      PROVE  e \in EntriesIn(list) <=> \E i \in 0 .. length - 1 : e \in ChainEntries(list[i])
  BY DEF EntriesIn, GoodList
<1>3. ASSUME NEW e \in Entries PROVE Slot(e.hash, length) \in 0 .. length - 1
  BY EntryFields, SlotInList
<1> QED
  BY <1>1, <1>2, <1>3

(* The loops over the list meet every entry, and each of them once. *)
LEMMA AllEntriesListed ==
    ASSUME NEW t, t.length \in Nat \ {0}, GoodList(t.list, t.length)
    PROVE  /\ AllEntries(t) \in Seq(Entries) /\ Distinct(AllEntries(t))
           /\ ChainEntries(AllEntries(t)) = EntriesIn(t.list)
<1> DEFINE N == t.length
           seqs == [i \in 1 .. N |-> t.list[i - 1]]
           Good(s, n) == /\ s \in Seq(Entries) /\ Distinct(s)
                         /\ \A e : e \in ChainEntries(s) <=>
                              \E i \in 0 .. n - 1 : e \in ChainEntries(t.list[i])
<1>1. ASSUME NEW i \in 1 .. N
      PROVE  /\ seqs[i] = t.list[i - 1] /\ seqs[i] \in Seq(Entries) /\ Distinct(seqs[i])
             /\ \A e \in ChainEntries(seqs[i]) : e \in Entries /\ Slot(e.hash, N) = i - 1
  <2>1. i - 1 \in 0 .. N - 1
    OBVIOUS
  <2>2. GoodChain(t.list[i - 1], N, i - 1)
    BY <2>1 DEF GoodList
  <2>3. \A e \in ChainEntries(t.list[i - 1]) : e \in Entries /\ Slot(e.hash, N) = i - 1
    BY <2>1, InItsChain
  <2> QED
    BY <2>2, <2>3 DEF GoodChain, Distinct
<1>2. seqs \in [1 .. N -> Seq(Entries)]
  BY <1>1
<1> HIDE DEF seqs
<1>3. PICK f : Appends(f, N, Entries, seqs) /\ FlattenSeq(seqs) = f[N]
  <2>1. N \in Nat \ {0}
    OBVIOUS
  <2> HIDE DEF N
  <2> QED
    BY <1>2, <2>1, Flattened
<1>4. AllEntries(t) = f[N]
  BY <1>3 DEF AllEntries, seqs
<1>5. /\ f \in [1 .. N -> Seq(Entries)] /\ f[1] = seqs[1]
       /\ \A i \in 2 .. N : f[i] = f[i - 1] \o seqs[i]
  BY <1>3 DEF Appends
<1> DEFINE T == {n \in Nat : n = 0 \/ Good(f[n], n)}
<1>6. 0 \in T
  OBVIOUS
<1>7. ASSUME NEW n \in 0 .. N - 1, n \in T PROVE n + 1 \in T
  <2> DEFINE k == n + 1
  <2>1. k \in 1 .. N /\ k - 1 = n /\ k \in Nat
    OBVIOUS
  <2> HIDE DEF k
  <2>2. /\ seqs[k] = t.list[n] /\ seqs[k] \in Seq(Entries) /\ Distinct(seqs[k])
        /\ \A e \in ChainEntries(seqs[k]) : e \in Entries /\ Slot(e.hash, N) = n
    BY <1>1, <2>1
  <2>3. CASE n = 0
    <3>1. f[k] = seqs[k]
      BY <1>5, <2>1, <2>3
    <3>2. \A i : i \in 0 .. k - 1 <=> i = n
      BY <2>1, <2>3
    <3>3. Good(f[k], k)
      BY <2>2, <3>1, <3>2
    <3> QED
      BY <2>1, <3>3 DEF k
  <2>4. CASE n # 0
    <3>1. Good(f[n], n) /\ k \in 2 .. N
      BY <1>7, <2>1, <2>4
    <3>2. f[k] = f[n] \o seqs[k]
      BY <1>5, <2>1, <3>1
    <3>3. ASSUME NEW x \in ChainEntries(f[n]), NEW y \in ChainEntries(seqs[k])
          PROVE  x.key # y.key
      <4>1. PICK i \in 0 .. n - 1 : x \in ChainEntries(t.list[i])
        BY <3>1
      <4>2. i \in 0 .. N - 1 /\ i # n
        OBVIOUS
      <4>3. x \in Entries /\ Slot(x.hash, N) = i
        BY <4>1, <4>2, InItsChain
      <4>4. y \in Entries /\ Slot(y.hash, N) = n
        BY <2>2
      <4> QED
        BY <4>2, <4>3, <4>4, EntryFields
    <3>4. /\ f[k] \in Seq(Entries) /\ Distinct(f[k])
          /\ ChainEntries(f[k]) = ChainEntries(f[n]) \cup ChainEntries(seqs[k])
      BY <2>2, <3>1, <3>2, <3>3, Concatenated
    <3>5. \A i : i \in 0 .. k - 1 <=> i \in 0 .. n - 1 \/ i = n
      BY <2>1
    <3>6. ASSUME NEW e
          PROVE  e \in ChainEntries(f[k]) <=>
                    \E i \in 0 .. k - 1 : e \in ChainEntries(t.list[i])
      BY <2>2, <3>1, <3>4, <3>5
    <3>7. Good(f[k], k)
      BY <3>4, <3>6
    <3> QED
      BY <2>1, <3>7 DEF k
  <2> QED
    BY <2>3, <2>4
<1> HIDE DEF T
<1>8. \A n \in 0 .. N : n \in T
  BY <1>6, <1>7, SetInduction, Zenon
<1>9. N \in T
  BY <1>8
<1>10. Good(f[N], N)
  BY <1>9 DEF T
<1>11. DOMAIN t.list = 0 .. N - 1
  BY DEF GoodList
<1>12. \A e : e \in EntriesIn(t.list) <=> \E i \in 0 .. N - 1 : e \in ChainEntries(t.list[i])
  BY <1>11 DEF EntriesIn
<1> QED
  BY <1>4, <1>10, <1>12

(* What a good chain is, by its set of entries. *)
LEMMA ChainIsGood ==
    ASSUME NEW c, NEW length, NEW i
    PROVE  GoodChain(c, length, i) <=>
              /\ c \in Seq(Entries) /\ Distinct(c)
              /\ \A x \in ChainEntries(c) : Slot(x.hash, length) = i
BY DEF GoodChain, Distinct, ChainEntries

(* list with c in the place of chain i *)
Replaced(list, i, c) == [list EXCEPT ![i] = c]

(* The list stays good, and the other chains keep their entries. *)
LEMMA ChainReplaced ==
    ASSUME NEW length \in Nat \ {0}, NEW list, GoodList(list, length),
           NEW i \in 0 .. length - 1, NEW c, GoodChain(c, length, i)
    PROVE  /\ GoodList(Replaced(list, i, c), length)
           /\ EntriesIn(Replaced(list, i, c)) =
                 (EntriesIn(list) \ ChainEntries(list[i])) \cup ChainEntries(c)
<1> DEFINE new == Replaced(list, i, c)
<1>1. /\ DOMAIN list = 0 .. length - 1 /\ DOMAIN new = 0 .. length - 1
      /\ new[i] = c /\ \A j \in 0 .. length - 1 : j # i => new[j] = list[j]
  BY DEF GoodList, Replaced
<1> HIDE DEF new
<1>2. GoodList(new, length)
  BY <1>1 DEF GoodList
<1>3. ASSUME NEW e
      PROVE  e \in EntriesIn(new) <=>
                e \in (EntriesIn(list) \ ChainEntries(list[i])) \cup ChainEntries(c)
  <2>1. /\ e \in EntriesIn(new) <=>
              e \in Entries /\ e \in ChainEntries(new[Slot(e.hash, length)])
        /\ e \in EntriesIn(list) <=>
              e \in Entries /\ e \in ChainEntries(list[Slot(e.hash, length)])
    BY <1>2, InItsChain
  <2>2. e \in ChainEntries(list[i]) => Slot(e.hash, length) = i
    BY InItsChain
  <2>3. e \in ChainEntries(c) => e \in Entries /\ Slot(e.hash, length) = i
    BY <1>1, <1>2, InItsChain
  <2>4. e \in Entries => Slot(e.hash, length) \in 0 .. length - 1
    BY EntryFields, SlotInList
  <2> QED
    BY <1>1, <2>1, <2>2, <2>3, <2>4
<1>4. EntriesIn(new) = (EntriesIn(list) \ ChainEntries(list[i])) \cup ChainEntries(c)
  BY <1>3
<1> QED
  BY <1>2, <1>4 DEF new

(* the chains with e in front of c or behind it *)
AtAnEnd(c, e) == {<<e>> \o c, Append(c, e)}

(* An entry with a new key comes to the front or the end of its chain. *)
LEMMA EntryLinked ==
    ASSUME NEW length \in Nat \ {0}, NEW list, GoodList(list, length),
           NEW e \in Entries, e.key \notin KeysOf(EntriesIn(list)),
           NEW c \in AtAnEnd(list[Slot(e.hash, length)], e)
    PROVE  /\ GoodList(Replaced(list, Slot(e.hash, length), c), length)
           /\ EntriesIn(Replaced(list, Slot(e.hash, length), c)) = EntriesIn(list) \cup {e}
<1> DEFINE i == Slot(e.hash, length)
           a == <<e>>
           b == list[i]
<1>1. i \in 0 .. length - 1
  BY EntryFields, SlotInList
<1>2. GoodChain(b, length, i)
  BY <1>1 DEF GoodList
<1>3. b \in Seq(Entries) /\ Distinct(b) /\ \A x \in ChainEntries(b) : Slot(x.hash, length) = i
  BY <1>2, ChainIsGood
<1>4. a \in Seq(Entries) /\ Distinct(a) /\ ChainEntries(a) = {e}
  <2>1. a \in Seq(Entries) /\ DOMAIN a = {1} /\ a[1] = e
    OBVIOUS
  <2> QED
    BY <2>1 DEF Distinct, ChainEntries
<1>5. ASSUME NEW x \in ChainEntries(b)
      PROVE  x.key # e.key /\ x \in EntriesIn(list)
  <2>1. x \in EntriesIn(list)
    BY <1>1 DEF EntriesIn, GoodList
  <2>2. x.key \in KeysOf(EntriesIn(list))
    BY <2>1, KeyListed, Zenon
  <2> QED
    BY <2>1, <2>2, Zenon
<1>6. c = a \o b \/ c = b \o a
  <2>1. Append(b, e) = b \o a
    <3> HIDE DEF b
    <3> QED
      BY <1>3, AppendIsConcat, Zenon
  <2> QED
    BY <2>1 DEF AtAnEnd
<1> HIDE DEF i, a, b
<1>7. c \in Seq(Entries) /\ Distinct(c) /\ ChainEntries(c) = ChainEntries(b) \cup {e}
  <2>1. CASE c = a \o b
    <3>1. \A x \in ChainEntries(a), y \in ChainEntries(b) : x.key # y.key
      BY <1>4, <1>5
    <3> QED
      BY <1>3, <1>4, <2>1, <3>1, Concatenated
  <2>2. CASE c = b \o a
    <3>1. \A x \in ChainEntries(b), y \in ChainEntries(a) : x.key # y.key
      BY <1>4, <1>5
    <3> QED
      BY <1>3, <1>4, <2>2, <3>1, Concatenated
  <2> QED
    BY <1>6, <2>1, <2>2
<1>8. GoodChain(c, length, i)
  BY <1>3, <1>7, ChainIsGood DEF i
<1>9. /\ GoodList(Replaced(list, i, c), length)
      /\ EntriesIn(Replaced(list, i, c)) =
            (EntriesIn(list) \ ChainEntries(list[i])) \cup ChainEntries(c)
  BY <1>1, <1>8, ChainReplaced
<1> QED
  BY <1>5, <1>7, <1>9 DEF i, b

(* The list before an entry is moved has no chain with an entry. *)
LEMMA EmptyListGood ==
    ASSUME NEW length \in Nat \ {0}
    PROVE  GoodList(EmptyList(length), length) /\ EntriesIn(EmptyList(length)) = {}
<1>1. <<>> \in Seq(Entries) /\ DOMAIN <<>> = {}
  OBVIOUS
<1>2. ChainEntries(<<>>) = {} /\ \A i : GoodChain(<<>>, length, i)
  BY <1>1 DEF ChainEntries, GoodChain
<1> QED
  BY <1>2 DEF EmptyList, GoodList, EntriesIn

(* Moving the entries of a sequence one by one fills a list with them. *)
LEMMA AllMoved ==
    ASSUME NEW length \in Nat \ {0}, NEW s \in Seq(Entries), Distinct(s)
    PROVE  /\ GoodList(NewList(s, length), length)
           /\ EntriesIn(NewList(s, length)) = ChainEntries(s)
<1> DEFINE N == Len(s)
           L == [0 .. length - 1 -> Seq(Entries)]
           Def(f) == [n \in 0 .. N |->
                         IF n = 0 THEN EmptyList(length) ELSE Moved(f[n - 1], length, s[n])]
           step == [n \in 1 .. N |-> [x \in L |-> Moved(x, length, s[n])]]
           new_list == CHOOSE f : f = Def(f)
<1>1. N \in Nat /\ DOMAIN s = 1 .. N /\ \A n \in 1 .. N : s[n] \in Entries
  OBVIOUS
<1>2. ASSUME NEW x \in L, NEW e \in Entries PROVE Moved(x, length, e) \in L
  <2>1. Slot(e.hash, length) \in 0 .. length - 1
    BY EntryFields, SlotInList
  <2>2. <<e>> \o x[Slot(e.hash, length)] \in Seq(Entries)
    BY <2>1
  <2> QED
    BY <2>1, <2>2 DEF Moved
<1>3. step \in [1 .. N -> [L -> L]]
  BY <1>1, <1>2
<1>4. EmptyList(length) \in L
  BY DEF EmptyList
<1>5. PICK f : Rounds(f, N, L, EmptyList(length), step)
  <2> HIDE DEF step, L
  <2> QED
    BY <1>1, <1>3, <1>4, RoundsExist
<1>6. f = Def(f)
  <2>1. f = [n \in 0 .. N |-> f[n]]
    BY <1>5 DEF Rounds
  <2>2. ASSUME NEW n \in 0 .. N
        PROVE  f[n] = IF n = 0 THEN EmptyList(length) ELSE Moved(f[n - 1], length, s[n])
    <3>1. CASE n = 0
      BY <1>5, <3>1 DEF Rounds
    <3>2. CASE n # 0
      <4>1. n \in 1 .. N /\ n - 1 \in 0 .. N
        BY <1>1, <3>2
      <4>2. f[n] = step[n][f[n - 1]] /\ f[n - 1] \in L
        BY <1>5, <4>1 DEF Rounds
      <4>3. step[n][f[n - 1]] = Moved(f[n - 1], length, s[n])
        BY <4>1, <4>2
      <4> QED
        BY <3>2, <4>2, <4>3
    <3> QED
      BY <3>1, <3>2
  <2> HIDE DEF N
  <2> QED
    BY <2>1, <2>2
<1>7. new_list = Def(new_list)
  <2> HIDE DEF N
  <2> QED
    BY <1>6, Zenon
<1>8. NewList(s, length) = new_list[N]
  BY DEF NewList
<1> HIDE DEF new_list
<1> DEFINE Good(n) == /\ GoodList(new_list[n], length)
                      /\ \A e : e \in EntriesIn(new_list[n]) <=> \E j \in 1 .. n : e = s[j]
           T == {n \in Nat : Good(n)}
<1>9. 0 \in T
  <2>1. new_list[0] = EmptyList(length)
    BY <1>1, <1>7
  <2> QED
    BY <2>1, EmptyListGood
<1>10. ASSUME NEW n \in 0 .. N - 1, n \in T PROVE n + 1 \in T
  <2> DEFINE k == n + 1
  <2>1. k \in 1 .. N /\ k \in 0 .. N /\ k # 0 /\ k - 1 = n /\ k \in Nat
    BY <1>1
  <2>2. \A j : j \in 1 .. k <=> j \in 1 .. n \/ j = k
    BY <1>1
  <2>3. k \notin 1 .. n
    BY <1>1
  <2> HIDE DEF k, N
  <2>4. new_list[k] = Moved(new_list[n], length, s[k])
    BY <1>7, <2>1
  <2>5. Good(n)
    BY <1>10
  <2>6. s[k].key \notin KeysOf(EntriesIn(new_list[n]))
    <3>1. ASSUME NEW e \in EntriesIn(new_list[n]) PROVE s[k].key # e.key
      <4>1. PICK j \in 1 .. n : e = s[j]
        BY <2>5
      <4>2. j \in DOMAIN s /\ k \in DOMAIN s /\ j # k
        BY <1>1, <2>1, <2>2, <2>3
      <4> QED
        BY <4>1, <4>2 DEF Distinct
    <3> QED
      BY <3>1 DEF KeysOf
  <2>7. s[k] \in Entries
    BY <1>1, <2>1
  <2>8. /\ GoodList(new_list[k], length)
        /\ EntriesIn(new_list[k]) = EntriesIn(new_list[n]) \cup {s[k]}
    <3> DEFINE old == new_list[n]
               x == s[k]
               i == Slot(x.hash, length)
               c == <<x>> \o old[i]
    <3>1. new_list[k] = Replaced(old, i, c)
      BY <2>4 DEF Moved, Replaced
    <3>2. c \in AtAnEnd(old[i], x)
      BY DEF AtAnEnd
    <3>3. GoodList(old, length) /\ x \in Entries /\ x.key \notin KeysOf(EntriesIn(old))
      BY <2>5, <2>6, <2>7
    <3> HIDE DEF old, x, c
    <3>4. /\ GoodList(Replaced(old, i, c), length)
          /\ EntriesIn(Replaced(old, i, c)) = EntriesIn(old) \cup {x}
      BY <3>2, <3>3, EntryLinked
    <3> QED
      BY <3>1, <3>4 DEF old, x
  <2>9. Good(k)
    BY <2>2, <2>5, <2>8
  <2> QED
    BY <2>1, <2>9 DEF k
<1> HIDE DEF T
<1>11. \A n \in 0 .. N : n \in T
  BY <1>1, <1>9, <1>10, SetInduction, Zenon
<1>12. N \in T
  BY <1>1, <1>11
<1>13. Good(N)
  BY <1>12 DEF T
<1>14. EntriesIn(new_list[N]) = ChainEntries(s)
  BY <1>1, <1>13 DEF ChainEntries
<1> QED
  BY <1>13, <1>14, <1>8

-----------------------------------------------------------------------------
(* Tables *)

(* A length is a number other than 0. *)
LEMMA GoodLength ==
    ASSUME NEW t, GoodTable(t)
    PROVE  t.length \in Nat \ {0} /\ t.elems \in Nat
<1>1. t.length \in Nat
  BY DEF GoodTable
<1>2. PICK i \in 0 .. t.length : t.length = Doubled[i]
  BY DEF GoodTable
<1>3. i \in Nat
  BY <1>1
<1>4. t.length \in Nat \ {0}
  BY <1>2, <1>3, DoubledValues
<1>5. t.elems \in Nat
  BY FS_CardinalityType DEF GoodTable
<1> QED
  BY <1>4, <1>5

(* htable_resize: a good list of a good length, with the same entries. *)
LEMMA Resized ==
    ASSUME NEW t, DOMAIN t = {"length", "elems", "list"}, t.elems \in Nat,
           AllEntries(t) \in Seq(Entries), Distinct(AllEntries(t)),
           t.elems = Len(AllEntries(t))
    PROVE  /\ GoodTable(htable_resize(t))
           /\ htable_resize(t).elems = t.elems /\ t.elems =< htable_resize(t).length
           /\ EntriesIn(htable_resize(t).list) = ChainEntries(AllEntries(t))
<1> DEFINE length == NewLength(t.elems)
           list == NewList(AllEntries(t), length)
           r == htable_resize(t)
<1>1. /\ DOMAIN r = {"length", "elems", "list"}
      /\ r.length = length /\ r.elems = t.elems /\ r.list = list
  BY DEF htable_resize
<1>2. PICK i \in Nat : length = Doubled[i] /\ Doubled[i] >= t.elems
  BY NewLengthFits
<1> HIDE DEF length, r
<1>3. length \in Nat \ {0}
  BY <1>2, DoubledValues
<1>4. GoodList(list, length) /\ EntriesIn(list) = ChainEntries(AllEntries(t))
  BY <1>3, AllMoved
<1> HIDE DEF list
<1>5. i \in 0 .. length
  <2>1. Doubled[i] > i
    BY LengthsGrow
  <2> QED
    BY <1>2, <1>3, <2>1
<1>6. /\ IsFiniteSet(KeysOf(EntriesIn(list)))
      /\ t.elems = Cardinality(KeysOf(EntriesIn(list)))
  BY <1>4, KeysCounted
<1>7. GoodTable(r)
  BY <1>1, <1>2, <1>3, <1>4, <1>5, <1>6 DEF GoodTable
<1>8. t.elems =< length
  BY <1>2
<1> QED
  BY <1>1, <1>4, <1>7, <1>8 DEF r

(* The number of elements is that of the entries the loops meet. *)
LEMMA ElemsCounted ==
    ASSUME NEW t, GoodTable(t)
    PROVE  /\ AllEntries(t) \in Seq(Entries) /\ Distinct(AllEntries(t))
           /\ ChainEntries(AllEntries(t)) = EntriesIn(t.list)
           /\ t.elems = Len(AllEntries(t))
<1>1. t.length \in Nat \ {0} /\ GoodList(t.list, t.length)
  BY GoodLength DEF GoodTable
<1>2. /\ AllEntries(t) \in Seq(Entries) /\ Distinct(AllEntries(t))
      /\ ChainEntries(AllEntries(t)) = EntriesIn(t.list)
  BY <1>1, AllEntriesListed
<1>3. Cardinality(KeysOf(EntriesIn(t.list))) = Len(AllEntries(t))
  BY <1>2, KeysCounted
<1> QED
  BY <1>2, <1>3 DEF GoodTable

(* The table that htable_init makes is good and empty. *)
LEMMA InitialTable ==
    /\ GoodTable(htable_init) /\ htable_init.elems =< htable_init.length
    /\ EntriesIn(htable_init.list) = {}
<1> DEFINE t == [length |-> 0, elems |-> 0, list |-> <<>>]
           s == [i \in 1 .. 0 |-> t.list[i - 1]]
<1>1. DOMAIN t = {"length", "elems", "list"} /\ t.length = 0 /\ t.elems = 0
  OBVIOUS
<1>2. s \in Seq(Entries) /\ Len(s) = 0 /\ DOMAIN s = {}
  OBVIOUS
<1>3. AllEntries(t) = s
  BY <1>1, <1>2 DEF AllEntries, FlattenSeq
<1> HIDE DEF s
<1>4. Distinct(s) /\ ChainEntries(s) = {}
  BY <1>2 DEF Distinct, ChainEntries
<1>5. htable_init = htable_resize(t)
  BY DEF htable_init
<1> HIDE DEF t
<1>6. /\ AllEntries(t) \in Seq(Entries) /\ Distinct(AllEntries(t))
      /\ t.elems \in Nat /\ t.elems = Len(AllEntries(t)) /\ ChainEntries(AllEntries(t)) = {}
  BY <1>1, <1>2, <1>3, <1>4
<1>7. /\ GoodTable(htable_resize(t))
      /\ htable_resize(t).elems = t.elems /\ t.elems =< htable_resize(t).length
      /\ EntriesIn(htable_resize(t).list) = ChainEntries(AllEntries(t))
  BY <1>1, <1>6, Resized
<1> QED
  BY <1>5, <1>6, <1>7

(* A longer list has the same entries. *)
LEMMA Grown ==
    ASSUME NEW t, GoodTable(t)
    PROVE  /\ GoodTable(GrowIfNeeded(t)) /\ GrowIfNeeded(t).elems =< GrowIfNeeded(t).length
           /\ EntriesIn(GrowIfNeeded(t).list) = EntriesIn(t.list)
<1>1. t.length \in Nat \ {0} /\ t.elems \in Nat /\ DOMAIN t = {"length", "elems", "list"}
  BY GoodLength DEF GoodTable
<1>2. CASE t.elems > t.length
  <2>1. GrowIfNeeded(t) = htable_resize(t)
    BY <1>2 DEF GrowIfNeeded
  <2>2. /\ AllEntries(t) \in Seq(Entries) /\ Distinct(AllEntries(t))
        /\ ChainEntries(AllEntries(t)) = EntriesIn(t.list) /\ t.elems = Len(AllEntries(t))
    BY ElemsCounted
  <2>3. /\ GoodTable(htable_resize(t))
        /\ htable_resize(t).elems = t.elems /\ t.elems =< htable_resize(t).length
        /\ EntriesIn(htable_resize(t).list) = ChainEntries(AllEntries(t))
    BY <1>1, <2>2, Resized
  <2> QED
    BY <2>1, <2>2, <2>3
<1>3. CASE ~(t.elems > t.length)
  BY <1>1, <1>3 DEF GrowIfNeeded
<1> QED
  BY <1>2, <1>3

(* A good list of the length of t, with its keys counted, makes a table. *)
LEMMA TableMade ==
    ASSUME NEW t, GoodTable(t), NEW u, DOMAIN u = DOMAIN t, u.length = t.length,
           GoodList(u.list, t.length), IsFiniteSet(KeysOf(EntriesIn(u.list))),
           u.elems = Cardinality(KeysOf(EntriesIn(u.list)))
    PROVE  GoodTable(u)
BY DEF GoodTable

-----------------------------------------------------------------------------
(* Looking up a key *)

(* htable_find_pointer finds the one entry with the key, or there is none. *)
LEMMA PointerFound ==
    ASSUME NEW t, GoodTable(t), NEW k \in Key
    PROVE  LET c == ChainOf(t, k)
               i == Slot(Hash[k], t.length)
               p == htable_find_pointer(t, k)
           IN  /\ i \in 0 .. t.length - 1 /\ c = t.list[i] /\ GoodChain(c, t.length, i)
               /\ p = 0 => k \notin KeysOf(EntriesIn(t.list))
               /\ p # 0 => p \in DOMAIN c /\ c[p].key = k /\ c[p] \in EntriesIn(t.list)
               /\ \A e \in EntriesIn(t.list) : e.key = k => p # 0 /\ e = c[p]
<1> DEFINE c == ChainOf(t, k)
           i == Slot(Hash[k], t.length)
           p == htable_find_pointer(t, k)
           I == {j \in 1 .. Len(c) : c[j].hash = Hash[k] /\ c[j].key = k}
<1>1. t.length \in Nat \ {0} /\ GoodList(t.list, t.length) /\ Hash[k] \in Nat
  BY GoodLength, HashAssumption DEF GoodTable
<1>2. i \in 0 .. t.length - 1 /\ c = t.list[i]
  BY <1>1, SlotInList DEF ChainOf
<1>3. GoodChain(c, t.length, i)
  BY <1>1, <1>2 DEF GoodList
<1>4. p = IF I # {} THEN CHOOSE x \in I : \A y \in I : x =< y ELSE 0
  BY DEF htable_find_pointer, SelectInSeq, Min
<1> HIDE DEF p
<1>5. c \in Seq(Entries) /\ DOMAIN c = 1 .. Len(c) /\ Distinct(c)
  BY <1>3, ChainIsGood
<1>6. I # {} => p \in I
  <2>1. I \in SUBSET Nat
    OBVIOUS
  <2> HIDE DEF I
  <2>2. I # {} => \E x \in I : \A y \in I : x =< y
    BY <2>1, LeastExists
  <2> QED
    BY <1>4, <2>2
<1>7. ASSUME NEW e \in EntriesIn(t.list), e.key = k
      PROVE  \E j \in I : e = c[j]
  <2>1. e \in Entries /\ e \in ChainEntries(t.list[Slot(e.hash, t.length)])
    BY <1>1, InItsChain
  <2>2. e.hash = Hash[k]
    BY <1>7, <2>1, EntryFields
  <2>3. PICK j \in DOMAIN c : e = c[j]
    BY <1>2, <2>1, <2>2 DEF ChainEntries
  <2> QED
    BY <1>5, <1>7, <2>2, <2>3
<1>8. p # 0 => p \in DOMAIN c /\ c[p].key = k
  BY <1>4, <1>5, <1>6
<1>9. p # 0 => c[p] \in EntriesIn(t.list)
  <2>1. DOMAIN t.list = 0 .. t.length - 1
    BY <1>1 DEF GoodList
  <2> QED
    BY <1>2, <1>8, <2>1 DEF EntriesIn, ChainEntries
<1>10. p = 0 => I = {}
  <2>1. 0 \notin I
    OBVIOUS
  <2> QED
    BY <1>6, <2>1
<1>11. p = 0 => k \notin KeysOf(EntriesIn(t.list))
  <2> HIDE DEF I, c
  <2> QED
    BY <1>7, <1>10 DEF KeysOf
<1>12. ASSUME NEW e \in EntriesIn(t.list), e.key = k PROVE p # 0 /\ e = c[p]
  <2>1. PICK j \in I : e = c[j]
    BY <1>7, <1>12
  <2>2. p # 0
    BY <1>10, <2>1
  <2>3. j \in DOMAIN c /\ p \in DOMAIN c /\ c[j].key = c[p].key
    BY <1>5, <1>8, <2>1, <2>2
  <2>4. j = p
    BY <1>5, <2>3 DEF Distinct
  <2> QED
    BY <2>1, <2>2, <2>4
<1> HIDE DEF c, i
<1> QED
  BY <1>2, <1>3, <1>8, <1>9, <1>11, <1>12 DEF p, c, i

-----------------------------------------------------------------------------
(* What becomes of a chain *)

(* c with v as the value of its entry p *)
WithValue(c, p, v) == [c EXCEPT ![p].val = v]

(* One entry of c is given another value. *)
LEMMA ValueChanged ==
    ASSUME NEW c \in Seq(Entries), Distinct(c), NEW p \in DOMAIN c, NEW v \in Val
    PROVE  LET d == WithValue(c, p, v)
           IN  /\ d \in Seq(Entries) /\ Distinct(d)
               /\ ChainEntries(d) = (ChainEntries(c) \ {c[p]}) \cup {Entry(c[p].key, v)}
<1> DEFINE e == Entry(c[p].key, v)
           d == WithValue(c, p, v)
<1>1. DOMAIN c = 1 .. Len(c) /\ Len(c) \in Nat /\ c[p] \in Entries
  OBVIOUS
<1>2. e \in Entries /\ e.key = c[p].key
  BY <1>1, EntryFields, EntryMade
<1>3. [c[p] EXCEPT !.val = v] = e
  <2>1. PICK k \in Key, w \in Val : c[p] = Entry(k, w)
    BY <1>1 DEF Entries
  <2>2. c[p] = [hash |-> Hash[k], key |-> k, val |-> w]
    BY <2>1 DEF Entry
  <2>3. [c[p] EXCEPT !.val = v] = [hash |-> Hash[k], key |-> k, val |-> v]
    BY <2>2
  <2>4. c[p].key = k
    BY <2>2
  <2> QED
    BY <2>3, <2>4 DEF Entry
<1>4. d = [c EXCEPT ![p] = e]
  BY <1>3 DEF WithValue
<1> HIDE DEF e
<1>5. /\ d \in Seq(Entries) /\ DOMAIN d = DOMAIN c /\ d[p] = e
      /\ \A j \in DOMAIN c : j # p => d[j] = c[j]
  BY <1>1, <1>2, <1>4
<1> HIDE DEF d
<1>6. Distinct(d)
  <2>1. \A j \in DOMAIN c : d[j].key = c[j].key
    BY <1>2, <1>5
  <2> QED
    BY <1>5, <2>1 DEF Distinct
<1>7. \A j \in DOMAIN c : c[j] = c[p] => j = p
  BY DEF Distinct
<1>8. ChainEntries(d) = (ChainEntries(c) \ {c[p]}) \cup {e}
  BY <1>5, <1>7 DEF ChainEntries
<1> QED
  BY <1>5, <1>6, <1>8 DEF d, e

(* One entry of c is unlinked. *)
LEMMA EntryUnlinked ==
    ASSUME NEW c \in Seq(Entries), Distinct(c), NEW p \in DOMAIN c
    PROVE  /\ RemoveAt(c, p) \in Seq(Entries) /\ Distinct(RemoveAt(c, p))
           /\ ChainEntries(RemoveAt(c, p)) = ChainEntries(c) \ {c[p]}
<1> DEFINE d == RemoveAt(c, p)
           a == SubSeq(c, 1, p - 1)
           b == SubSeq(c, p + 1, Len(c))
<1>1. DOMAIN c = 1 .. Len(c) /\ Len(c) \in Nat /\ p \in 1 .. Len(c)
  OBVIOUS
<1>2. a \in Seq(Entries) /\ Len(a) = p - 1 /\ \A j \in 1 .. p - 1 : a[j] = c[j]
  BY <1>1
<1>3. b \in Seq(Entries) /\ Len(b) = Len(c) - p /\ \A j \in 1 .. Len(c) - p : b[j] = c[p + j]
  BY <1>1
<1>4. d = a \o b
  BY DEF RemoveAt
<1>5. DOMAIN a = 1 .. p - 1 /\ DOMAIN b = 1 .. Len(c) - p
  BY <1>2, <1>3
<1> HIDE DEF a, b, d
<1>6. ASSUME NEW j \in DOMAIN a PROVE j \in DOMAIN c /\ a[j] = c[j] /\ j \in Nat /\ j < p
  BY <1>1, <1>2, <1>5
<1>7. ASSUME NEW j \in DOMAIN b
      PROVE  p + j \in DOMAIN c /\ b[j] = c[p + j] /\ j \in Nat /\ p < p + j
  <2>1. j \in 1 .. Len(c) - p
    BY <1>5
  <2>2. p + j \in DOMAIN c /\ j \in Nat /\ p < p + j
    BY <1>1, <2>1
  <2> QED
    BY <1>3, <2>1, <2>2
<1>8. Distinct(a) /\ Distinct(b)
  <2>1. ASSUME NEW j \in DOMAIN a, NEW k \in DOMAIN a, a[j].key = a[k].key PROVE j = k
    <3>1. j \in DOMAIN c /\ k \in DOMAIN c /\ a[j] = c[j] /\ a[k] = c[k]
      BY <1>6
    <3> QED
      BY <2>1, <3>1 DEF Distinct
  <2>2. ASSUME NEW j \in DOMAIN b, NEW k \in DOMAIN b, b[j].key = b[k].key PROVE j = k
    <3>1. /\ p + j \in DOMAIN c /\ p + k \in DOMAIN c /\ j \in Nat /\ k \in Nat
          /\ b[j] = c[p + j] /\ b[k] = c[p + k]
      BY <1>7
    <3>2. p + j = p + k
      BY <2>2, <3>1 DEF Distinct
    <3> QED
      BY <1>1, <3>1, <3>2
  <2> QED
    BY <2>1, <2>2 DEF Distinct
<1>9. ASSUME NEW x \in ChainEntries(a), NEW y \in ChainEntries(b) PROVE x.key # y.key
  <2>1. PICK j \in DOMAIN a : x = a[j]
    BY DEF ChainEntries
  <2>2. PICK k \in DOMAIN b : y = b[k]
    BY DEF ChainEntries
  <2>3. j \in DOMAIN c /\ x = c[j] /\ j \in Nat /\ j < p
    BY <1>6, <2>1
  <2>4. p + k \in DOMAIN c /\ y = c[p + k] /\ k \in Nat /\ p < p + k
    BY <1>7, <2>2
  <2>5. j # p + k
    BY <1>1, <2>3, <2>4
  <2> QED
    BY <2>3, <2>4, <2>5 DEF Distinct
<1>10. /\ d \in Seq(Entries) /\ Distinct(d)
      /\ ChainEntries(d) = ChainEntries(a) \cup ChainEntries(b)
  BY <1>2, <1>3, <1>4, <1>8, <1>9, Concatenated
<1>11. ASSUME NEW x
      PROVE  x \in ChainEntries(a) \cup ChainEntries(b) <=> x \in ChainEntries(c) \ {c[p]}
  <2>1. ASSUME x \in ChainEntries(a) PROVE x \in ChainEntries(c) \ {c[p]}
    <3>1. PICK j \in DOMAIN a : x = a[j]
      BY <2>1 DEF ChainEntries
    <3>2. j \in DOMAIN c /\ x = c[j] /\ j # p
      BY <1>1, <1>6, <3>1
    <3> QED
      BY <3>2 DEF ChainEntries, Distinct
  <2>2. ASSUME x \in ChainEntries(b) PROVE x \in ChainEntries(c) \ {c[p]}
    <3>1. PICK j \in DOMAIN b : x = b[j]
      BY <2>2 DEF ChainEntries
    <3>2. p + j \in DOMAIN c /\ x = c[p + j] /\ p + j # p
      BY <1>1, <1>7, <3>1
    <3> QED
      BY <3>2 DEF ChainEntries, Distinct
  <2>3. ASSUME x \in ChainEntries(c) \ {c[p]}
        PROVE  x \in ChainEntries(a) \cup ChainEntries(b)
    <3>1. PICK j \in DOMAIN c : x = c[j]
      BY <2>3 DEF ChainEntries
    <3>2. j # p
      BY <2>3, <3>1
    <3>3. CASE j < p
      <4>1. j \in DOMAIN a /\ x = a[j]
        BY <1>1, <1>2, <1>5, <3>1, <3>3
      <4> QED
        BY <4>1 DEF ChainEntries
    <3>4. CASE j > p
      <4>1. j - p \in DOMAIN b /\ p + (j - p) = j
        BY <1>1, <1>5, <3>4
      <4>2. x = b[j - p]
        BY <1>3, <1>5, <3>1, <4>1
      <4> QED
        BY <4>1, <4>2 DEF ChainEntries
    <3> QED
      BY <1>1, <3>2, <3>3, <3>4
  <2> QED
    BY <2>1, <2>2, <2>3
<1> QED
  BY <1>10, <1>11 DEF d

(* An entry with another key is appended. *)
LEMMA Appended ==
    ASSUME NEW c \in Seq(Entries), Distinct(c), NEW e \in Entries,
           \A x \in ChainEntries(c) : x.key # e.key
    PROVE  /\ Append(c, e) \in Seq(Entries) /\ Distinct(Append(c, e))
           /\ ChainEntries(Append(c, e)) = ChainEntries(c) \cup {e}
<1> DEFINE a == <<e>>
<1>1. a \in Seq(Entries) /\ DOMAIN a = {1} /\ a[1] = e
  OBVIOUS
<1>2. Append(c, e) = c \o a
  BY AppendIsConcat, Zenon
<1> HIDE DEF a
<1>3. Distinct(a) /\ ChainEntries(a) = {e}
  BY <1>1 DEF Distinct, ChainEntries
<1>4. \A x \in ChainEntries(c), y \in ChainEntries(a) : x.key # y.key
  BY <1>3
<1>5. /\ c \o a \in Seq(Entries) /\ Distinct(c \o a)
      /\ ChainEntries(c \o a) = ChainEntries(c) \cup ChainEntries(a)
  BY <1>1, <1>3, <1>4, Concatenated
<1> QED
  BY <1>2, <1>3, <1>5

(* The loop of htable_filter unlinks the entries of c that are accepted. *)
LEMMA AcceptedUnlinked ==
    ASSUME NEW c \in Seq(Entries), Distinct(c), NEW S
    PROVE  /\ Rejected(c, S) \in Seq(Entries) /\ Distinct(Rejected(c, S))
           /\ ChainEntries(Rejected(c, S)) = {e \in ChainEntries(c) : e.key \notin S}
<1> DEFINE N == Len(c)
           Q == Seq(Entries)
           Link(x, j) == IF c[j].key \in S THEN x ELSE Append(x, c[j])
           Def(f) == [j \in 0 .. N |-> IF j = 0 THEN <<>> ELSE Link(f[j - 1], j)]
           step == [j \in 1 .. N |-> [x \in Q |-> Link(x, j)]]
           rest == CHOOSE f : f = Def(f)
<1>1. N \in Nat /\ DOMAIN c = 1 .. N /\ \A j \in 1 .. N : c[j] \in Entries
  OBVIOUS
<1>2. Rejected(c, S) = rest[N]
  BY DEF Rejected
<1>3. step \in [1 .. N -> [Q -> Q]]
  BY <1>1
<1>4. <<>> \in Q
  OBVIOUS
<1>5. PICK f : Rounds(f, N, Q, <<>>, step)
  <2> HIDE DEF step, Q
  <2> QED
    BY <1>1, <1>3, <1>4, RoundsExist
<1>6. f = Def(f)
  <2>1. f = [j \in 0 .. N |-> f[j]]
    BY <1>5 DEF Rounds
  <2>2. ASSUME NEW j \in 0 .. N
        PROVE  f[j] = IF j = 0 THEN <<>> ELSE Link(f[j - 1], j)
    <3>1. CASE j = 0
      BY <1>5, <3>1 DEF Rounds
    <3>2. CASE j # 0
      <4>1. j \in 1 .. N /\ j - 1 \in 0 .. N
        BY <1>1, <3>2
      <4>2. f[j] = step[j][f[j - 1]] /\ f[j - 1] \in Q
        BY <1>5, <4>1 DEF Rounds
      <4>3. step[j][f[j - 1]] = Link(f[j - 1], j)
        BY <4>1, <4>2
      <4> QED
        BY <3>2, <4>2, <4>3
    <3> QED
      BY <3>1, <3>2
  <2> HIDE DEF N, Link
  <2> QED
    BY <2>1, <2>2
<1>7. rest = Def(rest)
  <2> HIDE DEF N, Link
  <2> QED
    BY <1>6, Zenon
<1> HIDE DEF rest
<1> DEFINE Good(n) == /\ rest[n] \in Seq(Entries) /\ Distinct(rest[n])
                      /\ \A e : e \in ChainEntries(rest[n]) <=>
                             \E j \in 1 .. n : e = c[j] /\ e.key \notin S
           T == {n \in Nat : Good(n)}
<1>8. 0 \in T
  <2>1. rest[0] = <<>>
    BY <1>1, <1>7
  <2>2. <<>> \in Seq(Entries) /\ DOMAIN <<>> = {}
    OBVIOUS
  <2>3. Distinct(<<>>) /\ ChainEntries(<<>>) = {}
    BY <2>2 DEF Distinct, ChainEntries
  <2>4. \A j : j \notin 1 .. 0
    OBVIOUS
  <2>5. Good(0)
    <3>1. rest[0] \in Seq(Entries)
      BY <2>1, <2>2, Zenon
    <3>2. Distinct(rest[0]) /\ ChainEntries(rest[0]) = {}
      BY <2>1, <2>3, Zenon
    <3> QED
      BY <2>4, <3>1, <3>2
  <2> HIDE DEF Good
  <2> QED
    BY <2>5
<1>9. ASSUME NEW n \in 0 .. N - 1, n \in T PROVE n + 1 \in T
  <2> DEFINE k == n + 1
  <2>1. k \in 1 .. N /\ k \in 0 .. N /\ k # 0 /\ k - 1 = n /\ k \in Nat
    BY <1>1
  <2>2. \A j : j \in 1 .. k <=> j \in 1 .. n \/ j = k
    BY <1>1
  <2>3. k \notin 1 .. n
    BY <1>1
  <2> HIDE DEF k, N
  <2>4. rest[k] = Link(rest[n], k)
    BY <1>7, <2>1
  <2>5. Good(n)
    BY <1>9
  <2>6. CASE c[k].key \in S
    <3>1. Good(k)
      BY <2>2, <2>4, <2>5, <2>6
    <3> QED
      BY <2>1, <3>1 DEF k
  <2>7. CASE c[k].key \notin S
    <3>1. ASSUME NEW x \in ChainEntries(rest[n]) PROVE x.key # c[k].key
      <4>1. PICK j \in 1 .. n : x = c[j]
        BY <2>5
      <4>2. j \in DOMAIN c /\ k \in DOMAIN c /\ j # k
        BY <1>1, <2>1, <2>2, <2>3
      <4> QED
        BY <4>1, <4>2 DEF Distinct
    <3>2. rest[k] = Append(rest[n], c[k]) /\ c[k] \in Entries
      BY <1>1, <2>1, <2>4, <2>7
    <3>3. /\ rest[k] \in Seq(Entries) /\ Distinct(rest[k])
          /\ ChainEntries(rest[k]) = ChainEntries(rest[n]) \cup {c[k]}
      <4>1. rest[n] \in Seq(Entries) /\ Distinct(rest[n])
        BY <2>5
      <4>2. /\ Append(rest[n], c[k]) \in Seq(Entries) /\ Distinct(Append(rest[n], c[k]))
            /\ ChainEntries(Append(rest[n], c[k])) = ChainEntries(rest[n]) \cup {c[k]}
        BY <3>1, <3>2, <4>1, Appended, Zenon
      <4> QED
        BY <3>2, <4>2, Zenon
    <3>4. Good(k)
      BY <2>2, <2>5, <2>7, <3>3
    <3> QED
      BY <2>1, <3>4 DEF k
  <2> QED
    BY <2>6, <2>7
<1> HIDE DEF T
<1>10. \A n \in 0 .. N : n \in T
  BY <1>1, <1>8, <1>9, SetInduction, Zenon
<1>11. N \in T
  BY <1>1, <1>10
<1>12. Good(N)
  BY <1>11 DEF T
<1>13. ChainEntries(rest[N]) = {e \in ChainEntries(c) : e.key \notin S}
  BY <1>1, <1>12 DEF ChainEntries
<1> QED
  BY <1>2, <1>12, <1>13

-----------------------------------------------------------------------------
(* The operations *)

(* the map that a set of entries is *)
Pairs(E) == {<<e.key, e.val>> : e \in E}

(* t with an entry of k and v at the end of the chain of k *)
Linked(t, k, v) ==
    [WithChain(t, k, Append(ChainOf(t, k), Entry(k, v))) EXCEPT !.elems = @ + 1]

(* A new key is inserted. *)
LEMMA InsertsNew ==
    ASSUME NEW t, GoodTable(t), NEW k \in Key, NEW v \in Val, htable_find_pointer(t, k) = 0,
           NEW u, u = Linked(t, k, v)
    PROVE  /\ GoodTable(u)
           /\ EntriesIn(u.list) = EntriesIn(t.list) \cup {Entry(k, v)}
<1> DEFINE e == Entry(k, v)
           i == Slot(Hash[k], t.length)
           c == Append(ChainOf(t, k), e)
<1>1. t.length \in Nat \ {0} /\ t.elems \in Nat /\ GoodList(t.list, t.length)
      /\ DOMAIN t = {"length", "elems", "list"}
  BY GoodLength DEF GoodTable
<1>2. e \in Entries /\ e.key = k /\ e.hash = Hash[k]
  BY EntryMade
<1>3. k \notin KeysOf(EntriesIn(t.list))
  BY PointerFound
<1>4. /\ DOMAIN u = DOMAIN t /\ u.length = t.length /\ u.elems = t.elems + 1
      /\ u.list = Replaced(t.list, i, c)
  BY <1>1 DEF Linked, WithChain, Replaced
<1>5. c \in AtAnEnd(t.list[i], e)
  BY DEF AtAnEnd, ChainOf
<1> HIDE DEF c, e
<1>6. GoodList(u.list, t.length) /\ EntriesIn(u.list) = EntriesIn(t.list) \cup {e}
  BY <1>1, <1>2, <1>3, <1>4, <1>5, EntryLinked
<1>7. KeysOf(EntriesIn(u.list)) = KeysOf(EntriesIn(t.list)) \cup {k}
  BY <1>2, <1>6 DEF KeysOf
<1>8. /\ IsFiniteSet(KeysOf(EntriesIn(t.list)))
      /\ t.elems = Cardinality(KeysOf(EntriesIn(t.list)))
  BY DEF GoodTable
<1>9. /\ IsFiniteSet(KeysOf(EntriesIn(u.list)))
      /\ Cardinality(KeysOf(EntriesIn(u.list))) = t.elems + 1
  BY <1>3, <1>7, <1>8, FS_AddElement
<1>10. GoodTable(u)
  BY <1>4, <1>6, <1>9, TableMade
<1> QED
  BY <1>6, <1>10 DEF e

(* The value of a key is replaced. *)
LEMMA InsertsOld ==
    ASSUME NEW t, GoodTable(t), NEW k \in Key, NEW v \in Val,
           NEW p, p = htable_find_pointer(t, k), p # 0,
           NEW u, u = WithChain(t, k, WithValue(ChainOf(t, k), p, v))
    PROVE  /\ GoodTable(u) /\ u.elems = t.elems /\ u.length = t.length
           /\ EntriesIn(u.list) = (EntriesIn(t.list) \ {ChainOf(t, k)[p]}) \cup {Entry(k, v)}
<1> DEFINE e == Entry(k, v)
           i == Slot(Hash[k], t.length)
           b == ChainOf(t, k)
           c == WithValue(b, p, v)
<1>1. t.length \in Nat \ {0} /\ t.elems \in Nat /\ GoodList(t.list, t.length)
      /\ DOMAIN t = {"length", "elems", "list"}
  BY GoodLength DEF GoodTable
<1>2. e \in Entries /\ e.key = k /\ e.hash = Hash[k]
  BY EntryMade
<1>3. /\ i \in 0 .. t.length - 1 /\ b = t.list[i] /\ GoodChain(b, t.length, i)
      /\ p \in DOMAIN b /\ b[p].key = k /\ b[p] \in EntriesIn(t.list)
  BY PointerFound
<1>4. /\ DOMAIN u = DOMAIN t /\ u.length = t.length /\ u.elems = t.elems
      /\ u.list = Replaced(t.list, i, c)
  BY <1>1 DEF WithChain, Replaced
<1> HIDE DEF b, i
<1>5. b \in Seq(Entries) /\ Distinct(b) /\ \A x \in ChainEntries(b) : Slot(x.hash, t.length) = i
  BY <1>3, ChainIsGood
<1>6. /\ c \in Seq(Entries) /\ Distinct(c)
      /\ ChainEntries(c) = (ChainEntries(b) \ {b[p]}) \cup {e}
  BY <1>3, <1>5, ValueChanged
<1> HIDE DEF c, e
<1>7. GoodChain(c, t.length, i)
  <2>1. Slot(e.hash, t.length) = i
    BY <1>2 DEF i
  <2> QED
    BY <1>5, <1>6, <2>1, ChainIsGood
<1>8. /\ GoodList(u.list, t.length)
      /\ EntriesIn(u.list) = (EntriesIn(t.list) \ ChainEntries(t.list[i])) \cup ChainEntries(c)
  BY <1>1, <1>3, <1>4, <1>7, ChainReplaced
<1>9. ChainEntries(b) \subseteq EntriesIn(t.list)
  BY <1>1, <1>3 DEF EntriesIn, GoodList
<1>10. b[p] \in ChainEntries(b) /\ (e \in ChainEntries(b) => e = b[p])
  <2>1. \A j \in DOMAIN b : b[j] = e => j = p
    BY <1>2, <1>3, <1>5 DEF Distinct
  <2> QED
    BY <1>3, <2>1 DEF ChainEntries
<1>11. EntriesIn(u.list) = (EntriesIn(t.list) \ {b[p]}) \cup {e}
  BY <1>3, <1>6, <1>8, <1>9, <1>10
<1>12. KeysOf(EntriesIn(u.list)) = KeysOf(EntriesIn(t.list))
  BY <1>2, <1>3, <1>11 DEF KeysOf
<1>13. GoodTable(u)
  <2>1. /\ IsFiniteSet(KeysOf(EntriesIn(u.list)))
        /\ u.elems = Cardinality(KeysOf(EntriesIn(u.list)))
    BY <1>4, <1>12 DEF GoodTable
  <2> QED
    BY <1>4, <1>8, <2>1, TableMade
<1> QED
  BY <1>4, <1>11, <1>13 DEF e, b

(* t without the entry p of the chain of k *)
Unlinked(t, k, p) ==
    [WithChain(t, k, RemoveAt(ChainOf(t, k), p)) EXCEPT !.elems = @ - 1]

(* A key is removed. *)
LEMMA Removes ==
    ASSUME NEW t, GoodTable(t), NEW k \in Key,
           NEW p, p = htable_find_pointer(t, k), p # 0,
           NEW u, u = Unlinked(t, k, p)
    PROVE  /\ GoodTable(u) /\ u.elems = t.elems - 1 /\ u.length = t.length
           /\ EntriesIn(u.list) = EntriesIn(t.list) \ {ChainOf(t, k)[p]}
<1> DEFINE i == Slot(Hash[k], t.length)
           b == ChainOf(t, k)
           c == RemoveAt(b, p)
<1>1. t.length \in Nat \ {0} /\ t.elems \in Nat /\ GoodList(t.list, t.length)
      /\ DOMAIN t = {"length", "elems", "list"}
  BY GoodLength DEF GoodTable
<1>2. /\ i \in 0 .. t.length - 1 /\ b = t.list[i] /\ GoodChain(b, t.length, i)
      /\ p \in DOMAIN b /\ b[p].key = k /\ b[p] \in EntriesIn(t.list)
      /\ \A e \in EntriesIn(t.list) : e.key = k => e = b[p]
  BY PointerFound
<1>3. /\ DOMAIN u = DOMAIN t /\ u.length = t.length /\ u.elems = t.elems - 1
      /\ u.list = Replaced(t.list, i, c)
  BY <1>1 DEF Unlinked, WithChain, Replaced
<1> HIDE DEF b, i
<1>4. b \in Seq(Entries) /\ Distinct(b) /\ \A x \in ChainEntries(b) : Slot(x.hash, t.length) = i
  BY <1>2, ChainIsGood
<1>5. /\ c \in Seq(Entries) /\ Distinct(c)
      /\ ChainEntries(c) = ChainEntries(b) \ {b[p]}
  BY <1>2, <1>4, EntryUnlinked
<1> HIDE DEF c
<1>6. GoodChain(c, t.length, i)
  BY <1>4, <1>5, ChainIsGood
<1>7. /\ GoodList(u.list, t.length)
      /\ EntriesIn(u.list) = (EntriesIn(t.list) \ ChainEntries(t.list[i])) \cup ChainEntries(c)
  BY <1>1, <1>2, <1>3, <1>6, ChainReplaced
<1>8. ChainEntries(b) \subseteq EntriesIn(t.list) /\ b[p] \in ChainEntries(b)
  BY <1>1, <1>2 DEF EntriesIn, GoodList, ChainEntries
<1>9. EntriesIn(u.list) = EntriesIn(t.list) \ {b[p]}
  BY <1>2, <1>5, <1>7, <1>8
<1>10. KeysOf(EntriesIn(u.list)) = KeysOf(EntriesIn(t.list)) \ {k}
  BY <1>2, <1>9 DEF KeysOf
<1>11. k \in KeysOf(EntriesIn(t.list))
  BY <1>2 DEF KeysOf
<1>12. GoodTable(u)
  <2>1. /\ IsFiniteSet(KeysOf(EntriesIn(t.list)))
        /\ t.elems = Cardinality(KeysOf(EntriesIn(t.list)))
    BY DEF GoodTable
  <2>2. /\ IsFiniteSet(KeysOf(EntriesIn(u.list)))
        /\ u.elems = Cardinality(KeysOf(EntriesIn(u.list)))
    BY <1>3, <1>10, <1>11, <2>1, FS_RemoveElement
  <2> QED
    BY <1>3, <1>7, <2>2, TableMade
<1> QED
  BY <1>3, <1>9, <1>12 DEF b

(* t without the entries whose key is in S *)
Filtered(t, S) ==
    [t EXCEPT !.list  = [i \in DOMAIN t.list |-> Rejected(t.list[i], S)],
              !.elems = @ - Cardinality(Accepted(t, S))]

(* The keys that a callback accepts are removed. *)
LEMMA Filters ==
    ASSUME NEW t, GoodTable(t), NEW S, NEW u, u = Filtered(t, S)
    PROVE  /\ GoodTable(u) /\ u.elems =< t.elems /\ u.length = t.length
           /\ EntriesIn(u.list) = {e \in EntriesIn(t.list) : e.key \notin S}
<1> DEFINE all == AllEntries(t)
           K == KeysOf(EntriesIn(t.list))
           A == Accepted(t, S)
           f == [n \in A |-> all[n].key]
<1>1. t.length \in Nat \ {0} /\ t.elems \in Nat /\ GoodList(t.list, t.length)
      /\ DOMAIN t = {"length", "elems", "list"} /\ IsFiniteSet(K) /\ t.elems = Cardinality(K)
  BY GoodLength DEF GoodTable
<1>2. /\ DOMAIN u = DOMAIN t /\ u.length = t.length /\ u.elems = t.elems - Cardinality(A)
      /\ u.list = [i \in 0 .. t.length - 1 |-> Rejected(t.list[i], S)]
  BY <1>1 DEF Filtered, GoodList
<1>3. ASSUME NEW i \in 0 .. t.length - 1
      PROVE  /\ GoodChain(u.list[i], t.length, i)
             /\ ChainEntries(u.list[i]) = {e \in ChainEntries(t.list[i]) : e.key \notin S}
  <2> DEFINE c == t.list[i]
             d == Rejected(c, S)
  <2>1. GoodChain(c, t.length, i) /\ u.list[i] = d
    BY <1>1, <1>2 DEF GoodList
  <2> HIDE DEF c
  <2>2. c \in Seq(Entries) /\ Distinct(c) /\ \A x \in ChainEntries(c) : Slot(x.hash, t.length) = i
    BY <2>1, ChainIsGood
  <2>3. /\ d \in Seq(Entries) /\ Distinct(d)
        /\ ChainEntries(d) = {e \in ChainEntries(c) : e.key \notin S}
    BY <2>2, AcceptedUnlinked
  <2> HIDE DEF d
  <2>4. GoodChain(d, t.length, i)
    BY <2>2, <2>3, ChainIsGood
  <2> QED
    BY <2>1, <2>3, <2>4 DEF c
<1>4. GoodList(u.list, t.length)
  BY <1>2, <1>3 DEF GoodList
<1>5. EntriesIn(u.list) = {e \in EntriesIn(t.list) : e.key \notin S}
  <2>1. DOMAIN u.list = 0 .. t.length - 1 /\ DOMAIN t.list = 0 .. t.length - 1
    BY <1>1, <1>4 DEF GoodList
  <2>2. ASSUME NEW list, DOMAIN list = 0 .. t.length - 1, NEW e
        PROVE  e \in EntriesIn(list) <=>
                  \E i \in 0 .. t.length - 1 : e \in ChainEntries(list[i])
    BY <2>2 DEF EntriesIn
  <2>3. ASSUME NEW e
        PROVE  e \in EntriesIn(u.list) <=> e \in EntriesIn(t.list) /\ e.key \notin S
    <3>1. \A i \in 0 .. t.length - 1 :
            e \in ChainEntries(u.list[i]) <=> e \in ChainEntries(t.list[i]) /\ e.key \notin S
      BY <1>3
    <3>2. /\ e \in EntriesIn(u.list) <=>
                \E i \in 0 .. t.length - 1 : e \in ChainEntries(u.list[i])
          /\ e \in EntriesIn(t.list) <=>
                \E i \in 0 .. t.length - 1 : e \in ChainEntries(t.list[i])
      BY <2>1, <2>2
    <3> QED
      BY <3>1, <3>2
  <2> QED
    BY <2>3
<1>6. KeysOf(EntriesIn(u.list)) = K \ S
  BY <1>5 DEF KeysOf
<1>7. all \in Seq(Entries) /\ Distinct(all) /\ ChainEntries(all) = EntriesIn(t.list)
  BY ElemsCounted
<1>8. A = {n \in DOMAIN all : all[n].key \in S}
  BY DEF Accepted
<1> HIDE DEF all, A
<1>9. \A x : x \in K \cap S <=> \E n \in A : x = all[n].key
  <2>1. \A e : e \in EntriesIn(t.list) <=> \E n \in DOMAIN all : e = all[n]
    BY <1>7 DEF ChainEntries
  <2> QED
    BY <1>8, <2>1 DEF KeysOf
<1>10. f \in Bijection(A, K \cap S)
  <2>1. f \in [A -> K \cap S]
    BY <1>9
  <2>2. \A m, n \in A : f[m] = f[n] => m = n
    BY <1>7, <1>8 DEF Distinct
  <2>3. \A x \in K \cap S : \E n \in A : f[n] = x
    BY <1>9
  <2> HIDE DEF f, K
  <2> QED
    BY <2>1, <2>2, <2>3 DEF Bijection, Injection, Surjection, IsInjective
<1>11. IsFiniteSet(K \cap S) /\ IsFiniteSet(K \ S)
       /\ Cardinality(K \ S) = Cardinality(K) - Cardinality(K \cap S)
       /\ Cardinality(K \cap S) \in Nat
  <2> HIDE DEF K
  <2>1. IsFiniteSet(K \cap S)
    BY <1>1, FS_Subset
  <2> QED
    BY <1>1, <2>1, FS_Difference, FS_CardinalityType
<1>12. Cardinality(A) = Cardinality(K \cap S)
  <2> HIDE DEF K, f
  <2>1. IsFiniteSet(A)
    <3>1. DOMAIN all = 1 .. Len(all) /\ 1 \in Int /\ Len(all) \in Int
      BY <1>7
    <3>2. IsFiniteSet(DOMAIN all)
      BY <3>1, FS_Interval
    <3>3. A \subseteq DOMAIN all
      BY <1>8
    <3> QED
      BY <3>2, <3>3, FS_Subset
  <2>2. ExistsBijection(A, K \cap S)
    BY <1>10 DEF ExistsBijection
  <2> QED
    BY <1>11, <2>1, <2>2, FS_Bijection
<1>13. GoodTable(u)
  <2>1. /\ IsFiniteSet(KeysOf(EntriesIn(u.list)))
        /\ u.elems = Cardinality(KeysOf(EntriesIn(u.list)))
    BY <1>1, <1>2, <1>6, <1>11, <1>12
  <2> QED
    BY <1>2, <1>4, <2>1, TableMade
<1> QED
  BY <1>1, <1>2, <1>5, <1>11, <1>12, <1>13

-----------------------------------------------------------------------------
(* The map *)

(* Contents is the map that the entries of the table are. *)
LEMMA ContentsAre ==
    ASSUME IndInv
    PROVE  /\ Contents = Pairs(EntriesIn(ht.list))
           /\ \A k, v : <<k, v>> \in Contents <=>
                 \E e \in EntriesIn(ht.list) : e.key = k /\ e.val = v
           /\ \A q \in Contents : q = <<q[1], q[2]>>
<1>1. Contents = Pairs(EntriesIn(ht.list))
  BY DEF Contents, Pairs, EntriesIn, ChainEntries
<1>2. \A k, v : <<k, v>> \in Pairs(EntriesIn(ht.list)) <=>
                 \E e \in EntriesIn(ht.list) : e.key = k /\ e.val = v
  BY DEF Pairs
<1>3. \A q \in Pairs(EntriesIn(ht.list)) : q = <<q[1], q[2]>>
  BY DEF Pairs
<1> QED
  BY <1>1, <1>2, <1>3

(* What a lookup returns is the value of the map. *)
LEMMA FoundIsValue ==
    ASSUME IndInv, NEW k \in Key
    PROVE  /\ Dict!IsKey(k) <=> htable_find_pointer(ht, k) # 0
           /\ Found(k) = Dict!Value(k)
<1> DEFINE c == ChainOf(ht, k)
           p == htable_find_pointer(ht, k)
<1>1. GoodTable(ht)
  BY DEF IndInv
<1>2. /\ p # 0 => p \in DOMAIN c /\ c[p].key = k /\ c[p] \in EntriesIn(ht.list)
      /\ \A e \in EntriesIn(ht.list) : e.key = k => p # 0 /\ e = c[p]
  BY <1>1, PointerFound
<1>3. Found(k) = IF p = 0 THEN None ELSE c[p].val
  BY DEF Found
<1> HIDE DEF p, c
<1>4. \A q \in Contents : q[1] = k => p # 0 /\ q = <<k, c[p].val>>
  <2> SUFFICES ASSUME NEW q \in Contents, q[1] = k
               PROVE  p # 0 /\ q = <<k, c[p].val>>
    OBVIOUS
  <2>1. PICK e \in EntriesIn(ht.list) : q = <<e.key, e.val>>
    BY ContentsAre DEF Pairs
  <2> QED
    BY <1>2, <2>1
<1>5. p # 0 => <<k, c[p].val>> \in Contents
  BY <1>2, ContentsAre
<1>6. Dict!IsKey(k) <=> \E q \in Contents : q[1] = k
  BY DEF Dict!IsKey
<1>7. Dict!IsKey(k) <=> p # 0
  BY <1>4, <1>5, <1>6
<1>8. Dict!Value(k) = IF Dict!IsKey(k) THEN (CHOOSE q \in Contents : q[1] = k)[2] ELSE None
  BY DEF Dict!Value
<1>9. p # 0 => (CHOOSE q \in Contents : q[1] = k) = <<k, c[p].val>>
  <2>1. <<k, c[p].val>>[1] = k
    OBVIOUS
  <2>2. p # 0 => \E q \in Contents : q[1] = k
    BY <1>5, <2>1
  <2> QED
    BY <1>4, <2>2
<1>10. Found(k) = Dict!Value(k)
  <2>1. <<k, c[p].val>>[2] = c[p].val
    OBVIOUS
  <2>2. CASE p = 0
    BY <1>3, <1>7, <1>8, <2>2
  <2>3. CASE p # 0
    BY <1>3, <1>7, <1>8, <1>9, <2>1, <2>3
  <2> QED
    BY <2>2, <2>3
<1> QED
  BY <1>7, <1>10 DEF p

(* Contents when the entries are those of E *)
LEMMA ContentsNext ==
    ASSUME IndInv', NEW E, EntriesIn(ht'.list) = E
    PROVE  Contents' = Pairs(E)
<1>1. Contents' = Pairs(EntriesIn(ht'.list))
  BY DEF Contents, Pairs, EntriesIn, ChainEntries
<1> QED
  BY <1>1

(* htable_insert is Put. *)
LEMMA InsertStep ==
    ASSUME IndInv, NEW k \in Key, NEW v \in Val, htable_insert(k, v)
    PROVE  IndInv' /\ Dict!Put(k, v)
<1> DEFINE p == htable_find_pointer(ht, k)
           e == Entry(k, v)
           c == ChainOf(ht, k)
           E == EntriesIn(ht.list)
<1>1. GoodTable(ht) /\ ht.elems =< ht.length
  BY DEF IndInv
<1>2. e.key = k /\ e.val = v
  BY EntryMade
<1>3. IndInv' /\ EntriesIn(ht'.list) = {x \in E : x.key # k} \cup {e}
  <2>1. CASE p = 0
    <3> DEFINE u == Linked(ht, k, v)
    <3>1. ht' = GrowIfNeeded(u)
      BY <2>1 DEF htable_insert, Linked
    <3>2. GoodTable(u) /\ EntriesIn(u.list) = E \cup {e}
      BY <1>1, <2>1, InsertsNew
    <3> HIDE DEF u
    <3>3. /\ GoodTable(ht') /\ ht'.elems =< ht'.length
          /\ EntriesIn(ht'.list) = E \cup {e}
      BY <3>1, <3>2, Grown
    <3>4. \A x \in E : x.key # k
      BY <1>1, <2>1, PointerFound
    <3> QED
      BY <3>3, <3>4 DEF IndInv
  <2>2. CASE p # 0
    <3>1. ht' = WithChain(ht, k, WithValue(ChainOf(ht, k), p, v))
      BY <2>2 DEF htable_insert, WithValue
    <3>2. /\ GoodTable(ht') /\ ht'.elems = ht.elems /\ ht'.length = ht.length
          /\ EntriesIn(ht'.list) = (E \ {c[p]}) \cup {e}
      BY <1>1, <2>2, <3>1, InsertsOld
    <3>3. \A x \in E : x.key = k <=> x = c[p]
      BY <1>1, <2>2, PointerFound
    <3> QED
      BY <1>1, <3>2, <3>3 DEF IndInv
  <2> QED
    BY <2>1, <2>2
<1>4. Contents' = Pairs({x \in E : x.key # k} \cup {e})
  BY <1>3, ContentsNext
<1>5. Contents' = Dict!Without({k}) \cup {<<k, v>>}
  <2>1. Dict!Without({k}) = {q \in Contents : q[1] \notin {k}}
    BY DEF Dict!Without
  <2>2. Contents = Pairs(E)
    BY ContentsAre
  <2>3. Pairs({x \in E : x.key # k} \cup {e}) = Pairs({x \in E : x.key # k}) \cup {<<k, v>>}
    BY <1>2 DEF Pairs
  <2>4. Pairs({x \in E : x.key # k}) = {q \in Pairs(E) : q[1] \notin {k}}
    BY DEF Pairs
  <2> HIDE DEF e, E
  <2> QED
    BY <1>4, <2>1, <2>2, <2>3, <2>4
<1>6. answer' = IF Dict!IsKey(k) THEN 0 ELSE 1
  BY FoundIsValue DEF htable_insert
<1> QED
  BY <1>3, <1>5, <1>6 DEF Dict!Put

(* htable_lookup is Get. *)
LEMMA LookupStep ==
    ASSUME IndInv, NEW k \in Key, htable_lookup(k)
    PROVE  IndInv' /\ Dict!Get(k)
<1>1. answer' = Dict!Value(k) /\ ht' = ht
  BY FoundIsValue DEF htable_lookup
<1>2. IndInv' /\ Contents' = Contents
  BY <1>1 DEF IndInv, Contents
<1> QED
  BY <1>1, <1>2 DEF Dict!Get

(* htable_remove is Delete. *)
LEMMA RemoveStep ==
    ASSUME IndInv, NEW k \in Key, htable_remove(k)
    PROVE  IndInv' /\ Dict!Delete(k)
<1> DEFINE p == htable_find_pointer(ht, k)
           c == ChainOf(ht, k)
           E == EntriesIn(ht.list)
<1>1. GoodTable(ht) /\ ht.elems =< ht.length /\ ht.elems \in Nat /\ ht.length \in Nat
  BY GoodLength DEF IndInv
<1>2. IndInv' /\ EntriesIn(ht'.list) = {x \in E : x.key # k}
  <2>1. CASE p = 0
    <3>1. ht' = ht
      BY <2>1 DEF htable_remove
    <3>2. \A x \in E : x.key # k
      BY <1>1, <2>1, PointerFound
    <3> QED
      BY <3>1, <3>2 DEF IndInv
  <2>2. CASE p # 0
    <3>1. ht' = Unlinked(ht, k, p)
      BY <2>2 DEF htable_remove, Unlinked
    <3>2. /\ GoodTable(ht') /\ ht'.elems = ht.elems - 1 /\ ht'.length = ht.length
          /\ EntriesIn(ht'.list) = E \ {c[p]}
      BY <1>1, <2>2, <3>1, Removes
    <3>3. \A x \in E : x.key = k <=> x = c[p]
      BY <1>1, <2>2, PointerFound
    <3> QED
      BY <1>1, <3>2, <3>3 DEF IndInv
  <2> QED
    BY <2>1, <2>2
<1>3. Contents' = Pairs({x \in E : x.key # k})
  BY <1>2, ContentsNext
<1>4. Contents' = Dict!Without({k})
  <2>1. Dict!Without({k}) = {q \in Contents : q[1] \notin {k}}
    BY DEF Dict!Without
  <2>2. Contents = Pairs(E)
    BY ContentsAre
  <2> HIDE DEF E
  <2> QED
    BY <1>3, <2>1, <2>2 DEF Pairs
<1>5. answer' = Dict!Value(k)
  BY FoundIsValue DEF htable_remove
<1> QED
  BY <1>2, <1>4, <1>5 DEF Dict!Delete

(* htable_filter is DeleteAll. *)
LEMMA FilterStep ==
    ASSUME IndInv, NEW S \in SUBSET Key, htable_filter(S)
    PROVE  IndInv' /\ Dict!DeleteAll(S)
<1> DEFINE E == EntriesIn(ht.list)
<1>1. GoodTable(ht) /\ ht.elems =< ht.length /\ ht.elems \in Nat /\ ht.length \in Nat
  BY GoodLength DEF IndInv
<1>2. ht' = Filtered(ht, S)
  BY DEF htable_filter, Filtered
<1>3. /\ GoodTable(ht') /\ ht'.elems =< ht.elems /\ ht'.length = ht.length
      /\ EntriesIn(ht'.list) = {e \in E : e.key \notin S}
  BY <1>1, <1>2, Filters
<1>4. ht'.elems \in Nat
  BY <1>3, GoodLength
<1>5. IndInv'
  BY <1>1, <1>3, <1>4 DEF IndInv
<1>6. Contents' = Pairs({e \in E : e.key \notin S})
  BY <1>3, <1>5, ContentsNext
<1>7. Contents' = Dict!Without(S)
  <2>1. Dict!Without(S) = {q \in Contents : q[1] \notin S}
    BY DEF Dict!Without
  <2>2. Contents = Pairs(E)
    BY ContentsAre
  <2> HIDE DEF E
  <2> QED
    BY <1>6, <2>1, <2>2 DEF Pairs
<1>8. answer' = None
  BY DEF htable_filter
<1> QED
  BY <1>5, <1>7, <1>8 DEF Dict!DeleteAll

-----------------------------------------------------------------------------
(* The theorems *)

(* The table of htable_init satisfies the invariant. *)
LEMMA InitEstablishes == Init => IndInv /\ Dict!DictInit
<1> SUFFICES ASSUME Init PROVE IndInv /\ Dict!DictInit
  OBVIOUS
<1>1. GoodTable(ht) /\ ht.elems =< ht.length /\ EntriesIn(ht.list) = {} /\ answer = None
  BY InitialTable DEF Init
<1>2. IndInv
  BY <1>1 DEF IndInv
<1>3. Contents = {}
  BY <1>1, <1>2, ContentsAre DEF Pairs
<1> QED
  BY <1>1, <1>2, <1>3 DEF Dict!DictInit

(* A step keeps the invariant and is a step of the map, or none. *)
LEMMA StepKeeps ==
    ASSUME IndInv, [Next]_vars
    PROVE  IndInv' /\ [Dict!DictNext]_Dict!dictVars
<1>1. CASE \E k \in Key, v \in Val : htable_insert(k, v)
  <2>1. PICK k \in Key, v \in Val : htable_insert(k, v)
    BY <1>1
  <2>2. IndInv' /\ Dict!Put(k, v)
    BY <2>1, InsertStep
  <2> QED
    BY <2>2 DEF Dict!DictNext
<1>2. CASE \E k \in Key : htable_lookup(k)
  <2>1. PICK k \in Key : htable_lookup(k)
    BY <1>2
  <2>2. IndInv' /\ Dict!Get(k)
    BY <2>1, LookupStep
  <2> QED
    BY <2>2 DEF Dict!DictNext
<1>3. CASE \E k \in Key : htable_remove(k)
  <2>1. PICK k \in Key : htable_remove(k)
    BY <1>3
  <2>2. IndInv' /\ Dict!Delete(k)
    BY <2>1, RemoveStep
  <2> QED
    BY <2>2 DEF Dict!DictNext
<1>4. CASE \E S \in SUBSET Key : htable_filter(S)
  <2>1. PICK S \in SUBSET Key : htable_filter(S)
    BY <1>4
  <2>2. IndInv' /\ Dict!DeleteAll(S)
    BY <2>1, FilterStep
  <2> QED
    BY <2>2 DEF Dict!DictNext
<1>5. CASE UNCHANGED vars
  BY <1>5 DEF vars, IndInv, Contents, Dict!dictVars
<1> QED
  BY <1>1, <1>2, <1>3, <1>4, <1>5 DEF Next

(* Every entry is in the chain of its hash, no key is there twice, and     *)
(* elems counts the keys, after any sequence of htable_insert,             *)
(* htable_lookup, htable_remove and htable_filter.                         *)
THEOREM Invariance == Spec => []IndInv
<1>1. Init => IndInv
  BY InitEstablishes
<1>2. IndInv /\ [Next]_vars => IndInv'
  BY StepKeeps
<1> QED
  BY <1>1, <1>2, PTL DEF Spec

(* The assertion elems == count of htable_resize, htable_foreach and       *)
(* htable_free never fails.                                                *)
THEOREM CountCorrect == Spec => []CountHolds
<1>1. IndInv => CountHolds
  BY ElemsCounted DEF IndInv, CountHolds, Counts
<1> QED
  BY <1>1, Invariance, PTL

(* The list is at least as long as there are elements, and its length is   *)
(* the smallest one doubled some number of times.                          *)
THEOREM LoadCorrect == Spec => []LoadBounded
<1>1. ASSUME IndInv PROVE LoadBounded
  <2>1. ht.length \in Nat /\ ht.elems =< ht.length
    BY <1>1 DEF IndInv, GoodTable
  <2>2. PICK i \in 0 .. ht.length : ht.length = Doubled[i]
    BY <1>1 DEF IndInv, GoodTable
  <2>3. i \in Nat
    BY <2>1
  <2> QED
    BY <2>1, <2>2, <2>3, LengthKept DEF LoadBounded
<1> QED
  BY <1>1, Invariance, PTL

(* The hash table is a map: htable_insert puts a pair, htable_lookup       *)
(* returns the last value put, htable_remove and htable_filter delete.     *)
THEOREM TableImplementsDictionary == Spec => ImplementsDictionary
<1>1. Init => Dict!DictInit
  BY InitEstablishes
<1>2. IndInv /\ [Next]_vars => [Dict!DictNext]_Dict!dictVars
  BY StepKeeps
<1> QED
  BY <1>1, <1>2, Invariance, PTL DEF Spec, ImplementsDictionary, Dict!DictSpec
=============================================================================

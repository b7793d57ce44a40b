--------------------------- MODULE ClosureProofs ---------------------------
(***************************************************************************)
(* Proofs about the closure of a container: the invariant of the program's *)
(* calls and of every step of a checkpoint, and the theorems that follow   *)
(* from it.  First the operators that change the slab and the pointer      *)
(* pages, then the move of one allocation and the change of one pointer,   *)
(* then the actions.                                                       *)
(***************************************************************************)
EXTENDS Closure, FiniteSetTheorems, SequenceTheorems, NaturalsInduction,
        WellFoundedInduction, TLAPS

-----------------------------------------------------------------------------
(* Addresses, entries and sequences *)

(* The kinds of addresses are apart. *)
LEMMA Addresses ==
    /\ MaxObjs \in Nat /\ Pers \subseteq Nat \ {0} /\ Pers \subseteq Loc
    /\ Vol \cap Pers = {} /\ Globals \cap Pers = {} /\ Vol \cap Globals = {}
    /\ NULL \notin Loc /\ NULL \notin (Vol \cup {NULL}) \X Nat
    /\ Vol \subseteq Loc /\ Globals \subseteq Loc
<1>1. MaxObjs \in Nat
  BY ClosureAssumption, FS_CardinalityType DEF MaxObjs
<1>2. Pers \subseteq Nat \ {0}
  BY <1>1 DEF Pers
<1> QED
  BY <1>1, <1>2, ClosureAssumption DEF Loc

(* An object of the container has a slab entry. *)
LEMMA EntryRange ==
    ASSUME NEW p \in Pers
    PROVE  EntryOf(p) \in Entries
<1>1. PageCap \in Nat \ {0} /\ MaxObjs \in Nat /\ p \in 1 .. MaxObjs
  BY ClosureAssumption, Addresses DEF Pers
<1> DEFINE x == p - 1
           y == MaxObjs - 1
           c == PageCap
<1>2. x \in Nat /\ y \in Nat /\ x =< y
  BY <1>1
<1>3. x \div c =< y \div c /\ x \div c \in Nat
  BY <1>1, <1>2
<1>4. (y + c) \div c = y \div c + 1
  BY <1>1, <1>2
<1> QED
  BY <1>1, <1>3, <1>4 DEF EntryOf, Entries

(* A sequence over a set is one over a larger set. *)
LEMMA WiderSeq ==
    ASSUME NEW A, NEW B, A \subseteq B
    PROVE  Seq(A) \subseteq Seq(B)
<1> SUFFICES ASSUME NEW q \in Seq(A) PROVE q \in Seq(B)
  OBVIOUS
<1>1. Len(q) \in Nat /\ q \in [1 .. Len(q) -> A]
  BY LenProperties
<1>2. q \in [1 .. Len(q) -> B]
  BY <1>1
<1> QED
  BY <1>1, <1>2, SeqDef

(* Sequences grow at their end. *)
LEMMA Appended ==
    ASSUME NEW A, NEW q \in Seq(A), NEW x \in A
    PROVE  /\ Append(q, x) \in Seq(A) /\ Len(q) \in Nat /\ Len(Append(q, x)) = Len(q) + 1
           /\ \A i \in 1 .. Len(q) : Append(q, x)[i] = q[i]
           /\ Append(q, x)[Len(q) + 1] = x
BY AppendProperties, LenProperties

-----------------------------------------------------------------------------
(* Stores to data pages *)

(* what a store to a data page leaves alone *)
SameMemory(s, t) ==
    /\ t.val = s.val /\ t.heap = s.heap /\ t.tree = s.tree /\ t.pvec = s.pvec
    /\ t.pat = s.pat /\ t.npers = s.npers /\ t.ident = s.ident

(* The records that an entry without a committed pointer page has stay. *)
PagesKept(s, t) ==
    /\ \A f \in Entries : /\ t.ptr[f].sm = s.ptr[f].sm
                          /\ s.ptr[f].sm = 0 => t.ptr[f] = s.ptr[f]
    /\ Len(s.tabs) =< Len(t.tabs)
    /\ \A i \in 1 .. Len(s.tabs) : t.tabs[i] = s.tabs[i]

(* An entry gets pointer page n with i records. *)
LEMMA PtrChanged ==
    ASSUME NEW P \in [Entries -> PtrPage], NEW e \in Entries, NEW n \in Nat, NEW i \in Nat
    PROVE  LET Q == [P EXCEPT ![e].cm = n, ![e].idx = i]
           IN  /\ Q \in [Entries -> PtrPage]
               /\ Q[e].cm = n /\ Q[e].idx = i /\ Q[e].cl = P[e].cl
               /\ Q[e].sm = P[e].sm /\ Q[e].sl = P[e].sl
               /\ \A f \in Entries : f # e => Q[f] = P[f]
<1> DEFINE q == [P[e] EXCEPT !.cm = n, !.idx = i]
           Q == [P EXCEPT ![e] = q]
<1>1. [P EXCEPT ![e].cm = n, ![e].idx = i] = Q
  OBVIOUS
<1>2. P[e] \in PtrPage
  OBVIOUS
<1>3. q \in PtrPage /\ q.cm = n /\ q.idx = i /\ q.cl = P[e].cl
      /\ q.sm = P[e].sm /\ q.sl = P[e].sl
  BY <1>2 DEF PtrPage
<1> HIDE DEF q
<1>4. Q \in [Entries -> PtrPage] /\ Q[e] = q /\ \A f \in Entries : f # e => Q[f] = P[f]
  BY <1>3
<1> QED
  BY <1>1, <1>3, <1>4

(* What the invariant says of the pointer page of one entry *)
PtrPageOK(s, e) ==
    /\ s.ptr[e].cm \in 0 .. Len(s.tabs) /\ s.ptr[e].cl \in 0 .. Len(s.tabs)
    /\ s.ptr[e].sm \in 0 .. Len(s.tabs) /\ s.ptr[e].sl \in 0 .. Len(s.tabs)
    /\ s.ptr[e].cm \notin s.freed
    /\ s.ptr[e].cm = 0 => s.ptr[e].idx = 0 /\ s.ptr[e].sm = 0
    /\ s.ptr[e].cm # 0 => s.ptr[e].idx =< Len(s.tabs[s.ptr[e].cm])

(* No two entries have a pointer page in common. *)
OwnPages(s) ==
    \A e, f \in Entries : e # f /\ s.ptr[e].cm # 0 =>
        s.ptr[e].cm # s.ptr[f].cm /\ s.ptr[e].cm # s.ptr[f].sm

RecordsOf(n) == [loc : 1 .. n, val : Pers \cup {NULL}]

(* The invariant of the pointer pages in its parts *)
LEMMA PagesParts ==
    ASSUME NEW s
    PROVE  PagesInv(s) <=>
              /\ s.tabs \in Seq(Seq(RecordsOf(s.npers)))
              /\ s.ptr \in [Entries -> PtrPage] /\ s.freed \subseteq 1 .. Len(s.tabs)
              /\ \A e \in Entries : PtrPageOK(s, e)
              /\ OwnPages(s)
BY Zenon DEF PagesInv, PtrPageOK, OwnPages, RecordsOf

(* The fault handler copies the pointer page of the entry to a new page. *)
LEMMA StoreToKeeps ==
    ASSUME NEW s, StateType(s), PagesInv(s), NEW e \in Entries
    PROVE  LET t == StoreTo(s, e)
           IN  /\ StateType(t) /\ PagesInv(t) /\ SameMemory(s, t) /\ PagesKept(s, t)
<1> DEFINE t == StoreTo(s, e)
           noted == [s EXCEPT !.writable = @ \cup {e}, !.dirty = Append(@, e)]
           page == s.ptr[e].sm
<1>1. CASE e \in s.writable
  <2>1. t = s
    BY <1>1 DEF StoreTo
  <2>2. Len(s.tabs) \in Nat
    BY LenProperties DEF PagesInv
  <2> QED
    BY <2>1, <2>2 DEF SameMemory, PagesKept
<1>2. CASE e \notin s.writable
  <2>1. /\ DOMAIN noted = StFields /\ SameMemory(s, noted) /\ noted.copied = s.copied
        /\ noted.hasSnap = s.hasSnap /\ noted.tabs = s.tabs /\ noted.ptr = s.ptr
        /\ noted.freed = s.freed /\ noted.writable = s.writable \cup {e}
        /\ noted.dirty = Append(s.dirty, e)
    BY DEF StateType, StFields, SameMemory
  <2>2. noted.dirty \in Seq(Entries)
    BY <2>1, Appended DEF StateType
  <2> HIDE DEF noted
  <2>3. StateType(noted)
    BY <2>1, <2>2 DEF StateType, SameMemory
  <2>4. PagesInv(noted)
    BY <2>1 DEF PagesInv, SameMemory
  <2>5. Len(s.tabs) \in Nat
    BY LenProperties DEF PagesInv
  <2>6. CASE page = 0
    <3>1. t = noted
      BY <1>2, <2>6 DEF StoreTo, noted
    <3> QED
      BY <2>1, <2>3, <2>4, <2>5, <3>1 DEF PagesKept
  <2>7. CASE page # 0
    <3> DEFINE n == Len(s.tabs) + 1
    <3>1. t = [noted EXCEPT !.tabs = Append(@, s.tabs[page]), !.ptr[e].cm = n, !.ptr[e].idx = 0]
      BY <1>2, <2>7 DEF StoreTo, noted
    <3>2. /\ DOMAIN t = StFields /\ SameMemory(s, t) /\ t.copied = s.copied
          /\ t.hasSnap = s.hasSnap /\ t.freed = s.freed
          /\ t.writable = noted.writable /\ t.dirty = noted.dirty
          /\ t.tabs = Append(s.tabs, s.tabs[page])
          /\ t.ptr = [s.ptr EXCEPT ![e].cm = n, ![e].idx = 0]
      BY <2>1, <3>1 DEF StFields, SameMemory
    <3> HIDE DEF t
    <3>3. StateType(t)
      BY <2>3, <2>1, <3>2 DEF StateType, SameMemory
    <3> DEFINE R == RecordsOf(s.npers)
    <3>4. /\ s.tabs \in Seq(Seq(R)) /\ s.ptr \in [Entries -> PtrPage]
          /\ s.freed \subseteq 1 .. Len(s.tabs)
          /\ \A f \in Entries : PtrPageOK(s, f)
          /\ OwnPages(s)
      BY PagesParts
    <3> HIDE DEF R
    <3>5. page \in 1 .. Len(s.tabs) /\ s.tabs[page] \in Seq(R) /\ Len(s.tabs[page]) \in Nat
      <4>1. page \in 1 .. Len(s.tabs)
        BY <2>5, <2>7, <3>4 DEF PtrPageOK
      <4>2. s.tabs[page] \in Seq(R)
        BY <3>4, <4>1, ElementOfSeq
      <4> QED
        BY <4>1, <4>2, LenProperties
    <3>6. /\ t.tabs \in Seq(Seq(R)) /\ Len(t.tabs) = n
          /\ \A i \in 1 .. Len(s.tabs) : t.tabs[i] = s.tabs[i]
          /\ t.tabs[n] = s.tabs[page]
      BY <3>2, <3>4, <3>5, Appended
    <3>7. n \in Nat
      BY <2>5
    <3> HIDE DEF n
    <3>8. /\ t.ptr \in [Entries -> PtrPage]
          /\ \A f \in Entries : f # e => t.ptr[f] = s.ptr[f]
          /\ t.ptr[e].cm = n /\ t.ptr[e].idx = 0 /\ t.ptr[e].cl = s.ptr[e].cl
          /\ t.ptr[e].sm = s.ptr[e].sm /\ t.ptr[e].sl = s.ptr[e].sl
      <4> DEFINE Q == [s.ptr EXCEPT ![e].cm = n, ![e].idx = 0]
      <4>1. /\ Q \in [Entries -> PtrPage]
            /\ Q[e].cm = n /\ Q[e].idx = 0 /\ Q[e].cl = s.ptr[e].cl
            /\ Q[e].sm = s.ptr[e].sm /\ Q[e].sl = s.ptr[e].sl
            /\ \A f \in Entries : f # e => Q[f] = s.ptr[f]
        BY <3>4, <3>7, PtrChanged
      <4>2. t.ptr = Q
        BY <3>2
      <4> HIDE DEF Q
      <4> QED
        BY <4>1, <4>2
    <3>9. n = Len(s.tabs) + 1
      BY DEF n
    <3>10. PagesKept(s, t)
      BY <2>5, <2>7, <3>6, <3>8, <3>9 DEF PagesKept
    <3>11. \A f \in Entries : PtrPageOK(t, f)
      <4> SUFFICES ASSUME NEW f \in Entries PROVE PtrPageOK(t, f)
        OBVIOUS
      <4>1. PtrPageOK(s, f) /\ t.freed = s.freed
        BY <3>2, <3>4
      <4>2. CASE f = e
        <5>1. t.ptr[f].cm = n /\ n \notin t.freed /\ n # 0 /\ n \in 0 .. Len(t.tabs)
          BY <2>5, <3>4, <3>6, <3>8, <3>9, <4>1, <4>2
        <5>2. t.ptr[f].idx = 0 /\ 0 =< Len(t.tabs[n])
          BY <3>5, <3>6, <3>8, <4>2
        <5>3. /\ t.ptr[f].cl \in 0 .. Len(t.tabs)
              /\ t.ptr[f].sm \in 0 .. Len(t.tabs) /\ t.ptr[f].sl \in 0 .. Len(t.tabs)
          BY <2>5, <3>6, <3>8, <3>9, <4>1, <4>2, SMTT(30) DEF PtrPageOK
        <5> QED
          BY <5>1, <5>2, <5>3 DEF PtrPageOK
      <4>3. CASE f # e
        <5>1. t.ptr[f] = s.ptr[f]
          BY <3>8, <4>3
        <5>2. s.ptr[f].cm # 0 => s.ptr[f].cm \in 1 .. Len(s.tabs)
          BY <2>5, <4>1 DEF PtrPageOK
        <5>3. s.ptr[f].cm # 0 => t.tabs[s.ptr[f].cm] = s.tabs[s.ptr[f].cm]
          BY <3>6, <5>2
        <5>4. 0 .. Len(s.tabs) \subseteq 0 .. Len(t.tabs)
          BY <2>5, <3>6, <3>9
        <5> QED
          BY <4>1, <5>1, <5>3, <5>4 DEF PtrPageOK
      <4> QED
        BY <4>2, <4>3
    <3>12. OwnPages(t)
      <4> SUFFICES ASSUME NEW f \in Entries, NEW g \in Entries, f # g, t.ptr[f].cm # 0
                   PROVE  t.ptr[f].cm # t.ptr[g].cm /\ t.ptr[f].cm # t.ptr[g].sm
        BY DEF OwnPages
      <4>1. \A h \in Entries : s.ptr[h].cm # n /\ s.ptr[h].sm # n
        BY <2>5, <3>4, <3>9 DEF PtrPageOK
      <4>2. \A h \in Entries : t.ptr[h].sm = s.ptr[h].sm
        BY <3>8
      <4> QED
        BY <3>4, <3>8, <4>1, <4>2 DEF OwnPages
    <3>13. PagesInv(t)
      <4>1. t.tabs \in Seq(Seq(RecordsOf(t.npers))) /\ t.freed \subseteq 1 .. Len(t.tabs)
        BY <2>5, <3>2, <3>4, <3>6, <3>9 DEF SameMemory, R
      <4> QED
        BY <3>8, <3>11, <3>12, <4>1, PagesParts
    <3> QED
      BY <3>2, <3>3, <3>10, <3>13 DEF t
  <2> QED
    BY <2>6, <2>7
<1> QED
  BY <1>1, <1>2

(* palloc takes the next number, and nothing else of the closure's state *)
(* changes.                                                              *)
LEMMA PallocKeeps ==
    ASSUME NEW s, StateType(s), PagesInv(s), s.npers + 1 =< MaxObjs
    PROVE  LET t == slab_palloc(s)
           IN  /\ StateType(t) /\ PagesInv(t) /\ PagesKept(s, t)
               /\ t.npers = s.npers + 1 /\ t.val = s.val /\ t.heap = s.heap
               /\ t.tree = s.tree /\ t.pvec = s.pvec /\ t.pat = s.pat /\ t.ident = s.ident
<1> DEFINE n == s.npers
           c == [s EXCEPT !.hasSnap = ~s.copied, !.copied = TRUE, !.npers = @ + 1]
<1>1. /\ DOMAIN c = StFields /\ c.npers = n + 1 /\ c.val = s.val /\ c.heap = s.heap
      /\ c.tree = s.tree /\ c.pvec = s.pvec /\ c.pat = s.pat /\ c.ident = s.ident
      /\ c.copied = TRUE /\ c.hasSnap = ~s.copied /\ c.writable = s.writable
      /\ c.dirty = s.dirty /\ c.tabs = s.tabs /\ c.ptr = s.ptr /\ c.freed = s.freed
  BY DEF StateType, StFields
<1>2. n \in Nat /\ n + 1 \in Pers /\ n + 1 \in 0 .. MaxObjs /\ 1 .. n \subseteq 1 .. (n + 1)
  BY Addresses DEF StateType, Pers
<1> HIDE DEF c
<1>3. StateType(c)
  <2>1. c.pvec \in Seq(1 .. (n + 1))
    BY <1>1, <1>2, WiderSeq DEF StateType
  <2>2. \A a \in DOMAIN c.tree :
           c.tree[a] \in [paddr : {0} \cup 1 .. c.npers, ptrs : Seq({a})]
    BY <1>1, <1>2 DEF StateType
  <2>3. c.copied \in BOOLEAN /\ c.hasSnap \in BOOLEAN
    BY <1>1
  <2> QED
    BY <1>1, <1>2, <2>1, <2>2, <2>3 DEF StateType
<1>4. PagesInv(c)
  <2>1. RecordsOf(n) \subseteq RecordsOf(n + 1)
    BY <1>2 DEF RecordsOf
  <2>2. Seq(Seq(RecordsOf(n))) \subseteq Seq(Seq(RecordsOf(n + 1)))
    BY <2>1, WiderSeq
  <2>3. c.tabs \in Seq(Seq(RecordsOf(c.npers)))
    BY <1>1, <2>2, PagesParts
  <2>4. \A e \in Entries : PtrPageOK(c, e)
    BY <1>1, PagesParts DEF PtrPageOK
  <2>5. OwnPages(c)
    BY <1>1, PagesParts DEF OwnPages
  <2>6. c.ptr \in [Entries -> PtrPage] /\ c.freed \subseteq 1 .. Len(c.tabs)
    BY <1>1, PagesParts
  <2> QED
    BY <2>3, <2>4, <2>5, <2>6, PagesParts
<1>5. EntryOf(n + 1) \in Entries /\ slab_palloc(s) = StoreTo(c, EntryOf(n + 1))
  BY <1>2, EntryRange DEF slab_palloc, c
<1> DEFINE t == StoreTo(c, EntryOf(n + 1))
<1>6. StateType(t) /\ PagesInv(t) /\ SameMemory(c, t) /\ PagesKept(c, t)
  BY <1>3, <1>4, <1>5, StoreToKeeps
<1> HIDE DEF t
<1>7. PagesKept(s, t)
  BY <1>1, <1>6 DEF PagesKept
<1> QED
  BY <1>1, <1>5, <1>6, <1>7 DEF SameMemory, t

-----------------------------------------------------------------------------
(* Recording a pointer *)

(* A record is stored at the index, over an older one or after the last. *)
LEMMA RecordStored ==
    ASSUME NEW R, NEW q \in Seq(R), NEW r \in R, NEW k \in Nat, k =< Len(q)
    PROVE  LET i == k + 1
               w == IF i <= Len(q) THEN [q EXCEPT ![i] = r] ELSE Append(q, r)
           IN  /\ w \in Seq(R) /\ i =< Len(w) /\ w[i] = r
               /\ \A j \in 1 .. k : w[j] = q[j]
<1> DEFINE i == k + 1
           w == IF i <= Len(q) THEN [q EXCEPT ![i] = r] ELSE Append(q, r)
<1>1. Len(q) \in Nat
  BY LenProperties
<1>2. CASE i <= Len(q)
  <2> DEFINE u == [q EXCEPT ![i] = r]
  <2>1. i \in 1 .. Len(q)
    BY <1>1, <1>2
  <2>2. u \in Seq(R) /\ Len(u) = Len(q) /\ \A j \in 1 .. Len(q) : u[j] = IF j = i THEN r ELSE q[j]
    BY <2>1, ExceptSeq
  <2>3. w = u
    BY <1>2
  <2> HIDE DEF u, w
  <2>4. w[i] = r /\ \A j \in 1 .. k : w[j] = q[j]
    BY <1>1, <1>2, <2>1, <2>2, <2>3
  <2> QED
    BY <1>2, <2>2, <2>3, <2>4 DEF w
<1>3. CASE ~(i <= Len(q))
  <2>1. w = Append(q, r) /\ k = Len(q)
    BY <1>1, <1>3
  <2> HIDE DEF w
  <2>2. w \in Seq(R) /\ Len(w) = Len(q) + 1 /\ w[Len(q) + 1] = r
        /\ \A j \in 1 .. Len(q) : w[j] = q[j]
    BY <2>1, Appended
  <2> QED
    BY <1>1, <2>1, <2>2 DEF w
<1> QED
  BY <1>2, <1>3

(* Entry e has one more record, r; the other entries have the same ones. *)
Records(s, t, e, r) ==
    /\ \A f \in Entries : f # e =>
          /\ t.ptr[f] = s.ptr[f]
          /\ s.ptr[f].cm # 0 => t.tabs[s.ptr[f].cm] = s.tabs[s.ptr[f].cm]
    /\ t.ptr[e].sm = s.ptr[e].sm /\ t.ptr[e].idx = s.ptr[e].idx + 1
    /\ \A i \in 1 .. s.ptr[e].idx : t.tabs[t.ptr[e].cm][i] = s.tabs[s.ptr[e].cm][i]
    /\ t.tabs[t.ptr[e].cm][s.ptr[e].idx + 1] = r

(* do_insert_pointer adds one record to the page of the entry, which is    *)
(* its own.                                                                *)
LEMMA InsertKeeps ==
    ASSUME NEW s, StateType(s), PagesInv(s), NEW l \in 1 .. s.npers,
           s.val[l] \in Pers \cup {NULL}
    PROVE  LET t == slab_insert_pointer(s, l)
           IN  /\ StateType(t) /\ PagesInv(t) /\ SameMemory(s, t)
               /\ Records(s, t, EntryOf(l), [loc |-> l, val |-> s.val[l]])
<1> DEFINE e == EntryOf(l)
           c == s.ptr[e].cm
           p == IF c = 0 THEN Len(s.tabs) + 1 ELSE c
           T == IF c = 0 THEN Append(s.tabs, <<>>) ELSE s.tabs
           k == s.ptr[e].idx
           i == k + 1
           r == [loc |-> l, val |-> s.val[l]]
           w == IF i <= Len(T[p]) THEN [T[p] EXCEPT ![i] = r] ELSE Append(T[p], r)
           X == [T EXCEPT ![p] = w]
           y == IF c = 0 THEN p ELSE s.ptr[e].cl
           Q == [s.ptr EXCEPT ![e].cm = p, ![e].cl = y, ![e].idx = i]
           R == RecordsOf(s.npers)
           t == slab_insert_pointer(s, l)
<1>1. l \in Pers /\ e \in Entries /\ r \in R
  BY Addresses, EntryRange DEF Pers, StateType, RecordsOf
<1>2. /\ s.tabs \in Seq(Seq(R)) /\ s.ptr \in [Entries -> PtrPage]
      /\ s.freed \subseteq 1 .. Len(s.tabs)
      /\ \A f \in Entries : PtrPageOK(s, f)
      /\ OwnPages(s)
  BY PagesParts
<1>3. t = [s EXCEPT !.tabs = X, !.ptr[e].cm = p, !.ptr[e].cl = y, !.ptr[e].idx = i]
  BY Zenon DEF slab_insert_pointer
<1>4. /\ DOMAIN t = StFields /\ SameMemory(s, t) /\ t.copied = s.copied
      /\ t.hasSnap = s.hasSnap /\ t.freed = s.freed
      /\ t.writable = s.writable /\ t.dirty = s.dirty
      /\ t.tabs = [T EXCEPT ![p] = w] /\ t.ptr = Q
  <2>1. DOMAIN s = StFields
    BY DEF StateType
  <2>2. X = [T EXCEPT ![p] = w]
    OBVIOUS
  <2> HIDE DEF t, X, p, y, i, e, T, w
  <2> QED
    BY <1>3, <2>1, <2>2 DEF StFields, SameMemory
<1> HIDE DEF t, R, r, e
<1>5. StateType(t)
  BY <1>4 DEF StateType, SameMemory
<1>6. Len(s.tabs) \in Nat /\ s.ptr[e] \in PtrPage
  BY <1>1, <1>2, LenProperties
<1>7. k \in Nat /\ c \in 0 .. Len(s.tabs)
  BY <1>1, <1>2, <1>6 DEF PtrPage, PtrPageOK
<1>8. /\ T \in Seq(Seq(R)) /\ p \in 1 .. Len(T) /\ p \in Nat /\ Len(T) \in Nat
      /\ Len(s.tabs) =< Len(T)
      /\ \A j \in 1 .. Len(s.tabs) : T[j] = s.tabs[j]
      /\ k =< Len(T[p])
  <2>1. CASE c = 0
    <3>1. <<>> \in Seq(R) /\ Len(<<>>) = 0
      BY EmptySeq
    <3>2. T = Append(s.tabs, <<>>) /\ p = Len(s.tabs) + 1
      BY <2>1
    <3>3. /\ T \in Seq(Seq(R)) /\ Len(T) = Len(s.tabs) + 1
          /\ \A j \in 1 .. Len(s.tabs) : T[j] = s.tabs[j]
          /\ T[p] = <<>>
      BY <1>2, <3>1, <3>2, Appended
    <3>4. k = 0
      BY <1>1, <1>2, <2>1 DEF PtrPageOK
    <3> HIDE DEF T, p
    <3> QED
      BY <1>6, <3>1, <3>2, <3>3, <3>4
  <2>2. CASE c # 0
    <3>1. T = s.tabs /\ p = c
      BY <2>2
    <3>2. k =< Len(s.tabs[c])
      BY <1>1, <1>2, <2>2 DEF PtrPageOK
    <3> HIDE DEF T, p
    <3> QED
      BY <1>2, <1>6, <1>7, <2>2, <3>1, <3>2
  <2> QED
    BY <2>1, <2>2
<1>9. c = 0 => p = Len(s.tabs) + 1
  OBVIOUS
<1>10. c # 0 => p = c
  OBVIOUS
<1>11. T[p] \in Seq(R)
  BY <1>8, ElementOfSeq
<1>12. w \in Seq(R) /\ i =< Len(w) /\ w[i] = r /\ \A j \in 1 .. k : w[j] = T[p][j]
  <2> HIDE DEF T, p, k
  <2> QED
    BY <1>1, <1>7, <1>8, <1>11, RecordStored
<1>13. /\ Q \in [Entries -> PtrPage]
       /\ Q[e].cm = p /\ Q[e].idx = i /\ Q[e].cl = y
       /\ Q[e].sm = s.ptr[e].sm /\ Q[e].sl = s.ptr[e].sl
       /\ \A f \in Entries : f # e => Q[f] = s.ptr[f]
  <2>1. y \in Nat /\ i \in Nat
    BY <1>6, <1>7, <1>8 DEF PtrPage
  <2>2. e \in Entries /\ s.ptr \in [Entries -> PtrPage] /\ p \in Nat
    BY <1>1, <1>2, <1>8
  <2>3. i \in Nat
    BY <2>1
  <2> HIDE DEF p, y, i, T, w, X, k
  <2> DEFINE q == [s.ptr[e] EXCEPT !.cm = p, !.cl = y, !.idx = i]
  <2>4. s.ptr[e] \in PtrPage
    BY <2>2
  <2>5. Q = [s.ptr EXCEPT ![e] = q]
    BY <2>2, <2>4 DEF PtrPage
  <2>6. q \in PtrPage /\ q.cm = p /\ q.idx = i /\ q.cl = y
        /\ q.sm = s.ptr[e].sm /\ q.sl = s.ptr[e].sl
    BY <2>1, <2>2, <2>3, <2>4 DEF PtrPage
  <2> HIDE DEF q, Q
  <2>7. Q \in [Entries -> PtrPage] /\ Q[e] = q /\ \A f \in Entries : f # e => Q[f] = s.ptr[f]
    BY <2>2, <2>5, <2>6
  <2> QED
    BY <2>6, <2>7
<1>23. y \in {p, s.ptr[e].cl}
  OBVIOUS
<1> HIDE DEF T, p, w, Q, k, c, y
<1>14. /\ t.tabs \in Seq(Seq(R)) /\ Len(t.tabs) = Len(T)
       /\ t.tabs[p] = w /\ \A j \in 1 .. Len(T) : j # p => t.tabs[j] = T[j]
  BY <1>4, <1>8, <1>12, ExceptSeq
<1>15. \A f \in Entries : f # e /\ s.ptr[f].cm # 0 =>
          s.ptr[f].cm # p /\ s.ptr[f].cm \in 1 .. Len(s.tabs)
                   /\ t.tabs[s.ptr[f].cm] = s.tabs[s.ptr[f].cm]
  <2> SUFFICES ASSUME NEW f \in Entries, f # e, s.ptr[f].cm # 0
               PROVE  s.ptr[f].cm # p /\ s.ptr[f].cm \in 1 .. Len(s.tabs)
                      /\ t.tabs[s.ptr[f].cm] = s.tabs[s.ptr[f].cm]
    OBVIOUS
  <2>1. s.ptr[f].cm \in 1 .. Len(s.tabs)
    BY <1>2, <1>6 DEF PtrPageOK
  <2>2. s.ptr[f].cm # p
    <3>1. s.ptr[f].cm # c
      BY <1>1, <1>2 DEF OwnPages, c
    <3> QED
      BY <1>6, <1>9, <1>10, <2>1, <3>1
  <2>3. s.ptr[f].cm \in 1 .. Len(T)
    BY <1>6, <1>8, <2>1
  <2> QED
    BY <1>8, <1>14, <2>1, <2>2, <2>3
<1>16. \A f \in Entries : f # e => s.ptr[f].sm # p
  BY <1>1, <1>2, <1>6, <1>7, <1>9, <1>10 DEF PtrPageOK, OwnPages, c
<1>17. p \notin s.freed /\ p # 0
  BY <1>1, <1>2, <1>6, <1>8, <1>9, <1>10 DEF PtrPageOK, c
<1>18. 0 .. Len(s.tabs) \subseteq 0 .. Len(t.tabs) /\ 1 .. Len(s.tabs) \subseteq 1 .. Len(t.tabs)
       /\ p \in 0 .. Len(t.tabs)
  BY <1>6, <1>8, <1>14
<1>19. \A f \in Entries : PtrPageOK(t, f)
  <2> SUFFICES ASSUME NEW f \in Entries PROVE PtrPageOK(t, f)
    OBVIOUS
  <2>1. PtrPageOK(s, f)
    BY <1>2
  <2>2. CASE f = e
    <3>1. /\ t.ptr[f].cm = p /\ t.ptr[f].idx = i
          /\ t.ptr[f].cl \in {p, s.ptr[f].cl} /\ t.ptr[f].sm = s.ptr[f].sm
          /\ t.ptr[f].sl = s.ptr[f].sl
      BY <1>4, <1>13, <1>23, <2>2
    <3> QED
      BY <1>4, <1>12, <1>14, <1>17, <1>18, <2>1, <3>1 DEF PtrPageOK
  <2>3. CASE f # e
    <3>1. t.ptr[f] = s.ptr[f]
      BY <1>4, <1>13, <2>3
    <3> QED
      BY <1>4, <1>15, <1>18, <2>1, <2>3, <3>1 DEF PtrPageOK
  <2> QED
    BY <2>2, <2>3
<1>20. OwnPages(t)
  <2> SUFFICES ASSUME NEW f \in Entries, NEW g \in Entries, f # g, t.ptr[f].cm # 0
               PROVE  t.ptr[f].cm # t.ptr[g].cm /\ t.ptr[f].cm # t.ptr[g].sm
    BY DEF OwnPages
  <2>1. \A h \in Entries : t.ptr[h].sm = s.ptr[h].sm /\ (h # e => t.ptr[h].cm = s.ptr[h].cm)
    BY <1>4, <1>13
  <2>2. t.ptr[e].cm = p
    BY <1>4, <1>13
  <2>3. CASE f = e
    BY <1>15, <1>16, <1>17, <2>1, <2>2, <2>3
  <2>4. CASE f # e /\ g = e
    <3>1. s.ptr[f].cm # s.ptr[e].sm
      BY <1>2, <2>1, <2>4 DEF OwnPages
    <3> QED
      BY <1>15, <2>1, <2>2, <2>4, <3>1
  <2>5. CASE f # e /\ g # e
    BY <1>2, <2>1, <2>5 DEF OwnPages
  <2> QED
    BY <2>3, <2>4, <2>5
<1>21. PagesInv(t)
  <2>1. t.tabs \in Seq(Seq(RecordsOf(t.npers))) /\ t.freed \subseteq 1 .. Len(t.tabs)
    BY <1>2, <1>4, <1>14, <1>18 DEF SameMemory, R
  <2> QED
    BY <1>4, <1>13, <1>19, <1>20, <2>1, PagesParts
<1>22. Records(s, t, e, r)
  <2>1. \A j \in 1 .. k : w[j] = s.tabs[c][j]
    <3>1. CASE c = 0
      BY <1>1, <1>2, <3>1 DEF PtrPageOK, k, c
    <3>2. CASE c # 0
      <4>1. T[p] = s.tabs[c]
        BY <1>6, <1>7, <1>8, <1>10, <3>2
      <4> QED
        BY <1>12, <4>1
    <3> QED
      BY <3>1, <3>2
  <2>2. \A f \in Entries : f # e => t.ptr[f] = s.ptr[f]
    BY <1>4, <1>13
  <2>3. t.ptr[e].sm = s.ptr[e].sm /\ t.ptr[e].idx = k + 1 /\ t.tabs[t.ptr[e].cm] = w
    BY <1>4, <1>13, <1>14
  <2> QED
    BY <1>12, <1>15, <2>1, <2>2, <2>3 DEF Records, k, c
<1> QED
  BY <1>4, <1>5, <1>21, <1>22 DEF t, r, e

(* A checkpoint of the slab gives back the old pointer pages only. *)
LEMMA SlabCpointKeeps ==
    ASSUME NEW s, StateType(s), PagesInv(s)
    PROVE  LET t == slab_cpoint(s)
           IN  StateType(t) /\ PagesInv(t) /\ SameMemory(s, t)
<1> DEFINE t == slab_cpoint(s)
<1>1. <<>> \in Seq(Entries)
  BY EmptySeq
<1>2. CASE ~s.hasSnap
  <2>1. t = [s EXCEPT !.dirty = <<>>]
    BY <1>2 DEF slab_cpoint
  <2>2. /\ DOMAIN t = StFields /\ SameMemory(s, t) /\ t.copied = s.copied
        /\ t.hasSnap = s.hasSnap /\ t.freed = s.freed /\ t.ptr = s.ptr /\ t.tabs = s.tabs
        /\ t.writable = s.writable /\ t.dirty = <<>>
    BY <2>1 DEF StateType, StFields, SameMemory
  <2> HIDE DEF t
  <2>3. StateType(t)
    BY <1>1, <2>2 DEF StateType, SameMemory
  <2>4. PagesInv(t)
    BY <2>2 DEF PagesInv, SameMemory
  <2> QED
    BY <2>2, <2>3, <2>4 DEF t
<1>3. CASE s.hasSnap
  <2> DEFINE Q == [e \in Entries |-> PtrPageCpoint(s.ptr[e])]
             F == FreedPtrPages(s)
  <2>1. t = [s EXCEPT !.ptr = Q, !.freed = @ \cup F, !.writable = {}, !.copied = FALSE,
                      !.hasSnap = FALSE, !.dirty = <<>>]
    BY <1>3 DEF slab_cpoint
  <2> HIDE DEF Q, F
  <2>2. /\ DOMAIN t = StFields /\ SameMemory(s, t) /\ t.copied = FALSE
        /\ t.hasSnap = FALSE /\ t.freed = s.freed \cup F /\ t.ptr = Q /\ t.tabs = s.tabs
        /\ t.writable = {} /\ t.dirty = <<>>
    BY <2>1 DEF StateType, StFields, SameMemory
  <2> HIDE DEF t
  <2>3. StateType(t)
    BY <1>1, <2>2 DEF StateType, SameMemory
  <2>4. /\ s.tabs \in Seq(Seq(RecordsOf(s.npers))) /\ s.ptr \in [Entries -> PtrPage]
        /\ s.freed \subseteq 1 .. Len(s.tabs)
        /\ \A f \in Entries : PtrPageOK(s, f)
        /\ OwnPages(s)
    BY PagesParts
  <2>5. \A e \in Entries :
           /\ Q[e] \in PtrPage /\ Q[e].cm = s.ptr[e].cm /\ Q[e].idx = s.ptr[e].idx
           /\ Q[e].cl = s.ptr[e].cl
           /\ s.ptr[e].cm = 0 => Q[e] = s.ptr[e]
           /\ s.ptr[e].cm # 0 => Q[e].sm = s.ptr[e].cm /\ Q[e].sl = s.ptr[e].cl
    BY <2>4 DEF Q, PtrPageCpoint, PtrPage
  <2>6. Q \in [Entries -> PtrPage]
    BY <2>5 DEF Q
  <2>7. \A n \in F : /\ n # 0
                     /\ \E x \in Entries : n = s.ptr[x].sm /\ s.ptr[x].cm # n
    BY DEF F, FreedPtrPages
  <2>8. Len(s.tabs) \in Nat
    BY <2>4, LenProperties
  <2>9. F \subseteq 1 .. Len(s.tabs)
    BY <2>4, <2>7, <2>8 DEF PtrPageOK
  <2>10. \A e \in Entries : s.ptr[e].cm \notin F
    BY <2>4, <2>7 DEF OwnPages
  <2>11. \A e \in Entries : PtrPageOK(t, e)
    <3> SUFFICES ASSUME NEW e \in Entries PROVE PtrPageOK(t, e)
      OBVIOUS
    <3>1. PtrPageOK(s, e)
      BY <2>4
    <3>2. t.ptr[e].sm \in {s.ptr[e].sm, s.ptr[e].cm} /\ t.ptr[e].sl \in {s.ptr[e].sl, s.ptr[e].cl}
      BY <2>2, <2>5
    <3> QED
      BY <2>2, <2>5, <2>10, <3>1, <3>2 DEF PtrPageOK
  <2>12. OwnPages(t)
    <3> SUFFICES ASSUME NEW f \in Entries, NEW g \in Entries, f # g, t.ptr[f].cm # 0
                 PROVE  t.ptr[f].cm # t.ptr[g].cm /\ t.ptr[f].cm # t.ptr[g].sm
      BY DEF OwnPages
    <3>1. t.ptr[g].sm = s.ptr[g].sm \/ t.ptr[g].sm = s.ptr[g].cm
      BY <2>2, <2>5
    <3> QED
      BY <2>2, <2>4, <2>5, <3>1 DEF OwnPages
  <2>13. t.tabs \in Seq(Seq(RecordsOf(t.npers))) /\ t.freed \subseteq 1 .. Len(t.tabs)
    BY <2>2, <2>4, <2>9 DEF SameMemory
  <2>14. PagesInv(t)
    BY <2>2, <2>6, <2>11, <2>12, <2>13, PagesParts
  <2> QED
    BY <2>2, <2>3, <2>14 DEF t
<1> QED
  BY <1>2, <1>3

-----------------------------------------------------------------------------
(* Moving an allocation, and changing a pointer *)

(* Allocation a becomes the next object of the container, and the location *)
(* of its pointer joins the vector.                                        *)
Moves(s, t, a) ==
    LET p == s.npers + 1 IN
    /\ t.npers = p /\ t.heap = s.heap \ {a} /\ t.pat = s.pat \ {a}
    /\ t.val[p] = s.val[a] /\ \A l \in Loc \ {p, a} : t.val[l] = s.val[l]
    /\ t.ident[p] = s.ident[a] /\ \A l \in (Vol \cup Pers) \ {p} : t.ident[l] = s.ident[l]
    /\ DOMAIN t.tree = DOMAIN s.tree /\ t.tree[a].paddr = p
    /\ t.tree[a].ptrs = s.tree[a].ptrs
    /\ \A b \in DOMAIN s.tree : b # a => t.tree[b] = s.tree[b]
    /\ Len(t.pvec) > Len(s.pvec)
    /\ \A i \in 1 .. Len(s.pvec) : t.pvec[i] = s.pvec[i]
    /\ \A i \in Len(s.pvec) + 1 .. Len(t.pvec) : t.pvec[i] = p
    /\ PagesKept(s, t)

(* MoveAllocation of an allocation whose pointer is known *)
LEMMA MoveAllocationMoves ==
    ASSUME NEW s, StateType(s), PagesInv(s), s.npers + 1 =< MaxObjs,
           NEW a \in DOMAIN s.tree, s.tree[a].ptrs # <<>>
    PROVE  LET t == MoveAllocation(s, a)
           IN  StateType(t) /\ PagesInv(t) /\ Moves(s, t, a)
<1> DEFINE t == MoveAllocation(s, a)
           p == s.npers + 1
           c == slab_palloc(s)
           ptrs == s.tree[a].ptrs
           v == [i \in 1 .. Len(ptrs) |-> p]
           x == s.val[a]
           y == s.ident[a]
           G == ToSet(ptrs)
<1>1. t = [c EXCEPT !.val[p] = x, !.ident[p] = y,
                    !.heap = @ \ {a}, !.val[a] = NULL,
                    !.tree[a].paddr = p,
                    !.pvec = @ \o v, !.pat = @ \ G]
  BY Zenon DEF MoveAllocation
<1>2. /\ StateType(c) /\ PagesInv(c) /\ PagesKept(s, c)
      /\ c.npers = p /\ c.val = s.val /\ c.heap = s.heap
      /\ c.tree = s.tree /\ c.pvec = s.pvec /\ c.pat = s.pat /\ c.ident = s.ident
  BY PallocKeeps
<1>3. a \in Vol /\ p \in Pers /\ a # p /\ a \in Loc /\ p \in Loc /\ s.npers \in Nat /\ p \in Nat
  BY Addresses DEF StateType, Pers
<1>4. ptrs \in Seq({a}) /\ Len(ptrs) \in Nat /\ Len(ptrs) # 0
  BY LenProperties, EmptySeq DEF StateType
<1>5. G = {a}
  <2>1. DOMAIN ptrs = 1 .. Len(ptrs) /\ \A i \in 1 .. Len(ptrs) : ptrs[i] = a
    BY <1>4, LenProperties
  <2>2. 1 \in 1 .. Len(ptrs)
    BY <1>4
  <2> HIDE DEF ptrs
  <2> QED
    BY <2>1, <2>2 DEF ToSet
<1>6. x \in Loc \cup {NULL} /\ y \in ((Vol \cup {NULL}) \X Nat) \cup {NULL}
  BY <1>3 DEF StateType
<1>7. v \in Seq(1 .. p) /\ Len(v) = Len(ptrs) /\ \A i \in 1 .. Len(v) : v[i] = p
  <2> HIDE DEF ptrs
  <2>1. v \in [1 .. Len(ptrs) -> 1 .. p]
    BY <1>3
  <2>2. v \in Seq(1 .. p)
    BY <1>4, <2>1, SeqDef
  <2>3. Len(v) = Len(ptrs)
    BY <1>4, <2>1, <2>2, LenProperties
  <2> QED
    BY <2>2, <2>3
<1> HIDE DEF c, v, x, y, G, ptrs, p
<1>8. /\ DOMAIN t = StFields
      /\ t.val = [s.val EXCEPT ![p] = x, ![a] = NULL]
      /\ t.ident = [s.ident EXCEPT ![p] = y]
      /\ t.heap = s.heap \ {a} /\ t.tree = [s.tree EXCEPT ![a].paddr = p]
      /\ t.pvec = s.pvec \o v /\ t.pat = s.pat \ {a} /\ t.npers = p
      /\ t.copied = c.copied /\ t.hasSnap = c.hasSnap /\ t.writable = c.writable
      /\ t.dirty = c.dirty /\ t.tabs = c.tabs /\ t.ptr = c.ptr /\ t.freed = c.freed
  <2> HIDE DEF t
  <2>1. DOMAIN c = StFields
    BY <1>2 DEF StateType
  <2> QED
    BY <1>1, <1>2, <1>5, <2>1 DEF StFields
<1> HIDE DEF t
<1>9. /\ t.val \in [Loc -> Loc \cup {NULL}] /\ t.val[p] = x /\ t.val[a] = NULL
      /\ \A l \in Loc \ {p, a} : t.val[l] = s.val[l]
  <2>1. s.val \in [Loc -> Loc \cup {NULL}]
    BY DEF StateType
  <2>2. t.val = [s.val EXCEPT ![p] = x, ![a] = NULL]
    BY <1>8
  <2>3. p \in Loc /\ a \in Loc /\ a # p
    BY <1>3
  <2> QED
    BY <1>6, <2>1, <2>2, <2>3
<1>10. /\ t.ident \in [Vol \cup Pers -> ((Vol \cup {NULL}) \X Nat) \cup {NULL}]
       /\ t.ident[p] = y /\ \A l \in (Vol \cup Pers) \ {p} : t.ident[l] = s.ident[l]
  BY <1>3, <1>6, <1>8 DEF StateType
<1>11. /\ DOMAIN t.tree = DOMAIN s.tree
       /\ t.tree[a] \in [paddr : {0} \cup 1 .. p, ptrs : Seq({a})]
       /\ t.tree[a].paddr = p /\ t.tree[a].ptrs = ptrs
       /\ \A b \in DOMAIN s.tree : b # a => t.tree[b] = s.tree[b]
  <2> DEFINE q == [s.tree[a] EXCEPT !.paddr = p]
  <2>1. s.tree[a] \in [paddr : {0} \cup 1 .. s.npers, ptrs : Seq({a})]
    BY DEF StateType
  <2>2. q \in [paddr : {0} \cup 1 .. p, ptrs : Seq({a})] /\ q.paddr = p /\ q.ptrs = ptrs
    BY <1>3, <2>1 DEF ptrs
  <2>3. t.tree = [s.tree EXCEPT ![a] = q]
    BY <1>8, <2>1
  <2> HIDE DEF q
  <2> QED
    BY <2>2, <2>3
<1>12. /\ t.pvec \in Seq(1 .. p) /\ Len(t.pvec) = Len(s.pvec) + Len(v)
       /\ Len(s.pvec) \in Nat
       /\ \A i \in 1 .. Len(s.pvec) : t.pvec[i] = s.pvec[i]
       /\ \A i \in Len(s.pvec) + 1 .. Len(t.pvec) : t.pvec[i] = p
  <2>1. s.pvec \in Seq(1 .. p) /\ Len(s.pvec) \in Nat
    BY <1>2, LenProperties DEF StateType
  <2>2. /\ t.pvec \in Seq(1 .. p) /\ Len(t.pvec) = Len(s.pvec) + Len(v)
        /\ \A i \in 1 .. Len(s.pvec) + Len(v) :
              t.pvec[i] = IF i =< Len(s.pvec) THEN s.pvec[i] ELSE v[i - Len(s.pvec)]
    <3>1. t.pvec = s.pvec \o v /\ v \in Seq(1 .. p)
      BY <1>7, <1>8
    <3> QED
      BY <2>1, <3>1, ConcatProperties
  <2>3. \A i \in Len(s.pvec) + 1 .. Len(t.pvec) : t.pvec[i] = p
    <3> SUFFICES ASSUME NEW i \in Len(s.pvec) + 1 .. Len(t.pvec) PROVE t.pvec[i] = p
      OBVIOUS
    <3>1. i - Len(s.pvec) \in 1 .. Len(v) /\ i \in 1 .. Len(s.pvec) + Len(v) /\ ~(i =< Len(s.pvec))
      BY <1>4, <1>7, <2>1, <2>2
    <3> QED
      BY <1>7, <2>2, <3>1
  <2>4. \A i \in 1 .. Len(s.pvec) : t.pvec[i] = s.pvec[i]
    BY <1>4, <1>7, <2>1, <2>2
  <2> QED
    BY <2>1, <2>2, <2>3, <2>4
<1>13. StateType(t)
  <2>1. \A b \in DOMAIN t.tree : t.tree[b] \in [paddr : {0} \cup 1 .. t.npers, ptrs : Seq({b})]
    BY <1>2, <1>8, <1>11 DEF StateType
  <2>2. t.npers \in 0 .. MaxObjs /\ t.heap \subseteq Vol /\ DOMAIN t.tree \subseteq Vol
        /\ t.pat \subseteq Loc
    BY <1>2, <1>8, <1>11 DEF StateType
  <2>3. /\ t.copied \in BOOLEAN /\ t.hasSnap \in BOOLEAN
        /\ t.writable \subseteq Entries /\ t.dirty \in Seq(Entries)
    BY <1>2, <1>8 DEF StateType
  <2> QED
    BY <1>8, <1>9, <1>10, <1>12, <2>1, <2>2, <2>3 DEF StateType
<1>14. PagesInv(t) /\ PagesKept(s, t)
  BY <1>2, <1>8 DEF PagesInv, PagesKept
<1>15. Len(t.pvec) > Len(s.pvec)
  BY <1>4, <1>7, <1>12
<1>16. Moves(s, t, a)
  BY <1>8, <1>9, <1>10, <1>11, <1>12, <1>14, <1>15 DEF Moves, p, x, y, ptrs
<1> QED
  BY <1>13, <1>14, <1>16 DEF t

(* The pointer at l becomes q. *)
Redirects(s, t, l, q) ==
    /\ t.val[l] = q /\ \A m \in Loc \ {l} : t.val[m] = s.val[m]
    /\ t.heap = s.heap /\ t.tree = s.tree /\ t.pvec = s.pvec
    /\ t.pat = s.pat /\ t.npers = s.npers /\ t.ident = s.ident
    /\ PagesKept(s, t)

(* A pointer is stored after the fault, if there was one. *)
LEMMA StoreRedirects ==
    ASSUME NEW s, NEW c, StateType(c), PagesInv(c), SameMemory(s, c), PagesKept(s, c),
           NEW l \in Loc, NEW q \in Loc \cup {NULL}
    PROVE  LET t == [c EXCEPT !.val[l] = q]
           IN  StateType(t) /\ PagesInv(t) /\ Redirects(s, t, l, q)
<1> DEFINE t == [c EXCEPT !.val[l] = q]
<1>1. /\ DOMAIN t = StFields /\ t.val = [c.val EXCEPT ![l] = q]
      /\ t.heap = c.heap /\ t.tree = c.tree /\ t.pvec = c.pvec
      /\ t.pat = c.pat /\ t.npers = c.npers /\ t.ident = c.ident
      /\ t.copied = c.copied /\ t.hasSnap = c.hasSnap /\ t.writable = c.writable
      /\ t.dirty = c.dirty /\ t.tabs = c.tabs /\ t.ptr = c.ptr /\ t.freed = c.freed
  BY DEF StateType, StFields
<1> HIDE DEF t
<1>2. /\ t.val \in [Loc -> Loc \cup {NULL}] /\ t.val[l] = q
      /\ \A m \in Loc \ {l} : t.val[m] = c.val[m]
  BY <1>1 DEF StateType
<1>3. StateType(t)
  BY <1>1, <1>2 DEF StateType
<1>4. PagesInv(t) /\ PagesKept(s, t)
  BY <1>1 DEF PagesInv, PagesKept
<1>5. Redirects(s, t, l, q)
  BY <1>1, <1>2, <1>4 DEF Redirects, SameMemory
<1> QED
  BY <1>3, <1>4, <1>5 DEF t

(* Nothing happens to the pages. *)
LEMMA PagesKeptSame ==
    ASSUME NEW s, PagesInv(s)
    PROVE  PagesKept(s, s)
<1>1. Len(s.tabs) \in Nat
  BY LenProperties DEF PagesInv
<1> QED
  BY <1>1 DEF PagesKept

(* What persist_valloc does to a location whose target is in the tree and  *)
(* has moved                                                               *)
LEMMA PersistRedirects ==
    ASSUME NEW s, StateType(s), PagesInv(s), NEW l \in Pers, NEW a \in Moved(s)
    PROVE  LET q == s.tree[a].paddr
               t == [StoreTo(s, EntryOf(l)) EXCEPT !.val[l] = q]
           IN  q \in 1 .. s.npers /\ StateType(t) /\ PagesInv(t) /\ Redirects(s, t, l, q)
<1> DEFINE q == s.tree[a].paddr
           c == StoreTo(s, EntryOf(l))
<1>1. a \in DOMAIN s.tree /\ q # 0
  BY DEF Moved
<1>2. q \in 1 .. s.npers
  BY <1>1 DEF StateType
<1>3. q \in Loc \cup {NULL} /\ l \in Loc
  BY <1>2, Addresses DEF StateType, Pers
<1>4. StateType(c) /\ PagesInv(c) /\ SameMemory(s, c) /\ PagesKept(s, c)
  BY EntryRange, StoreToKeeps
<1> HIDE DEF c, q
<1>5. StateType([c EXCEPT !.val[l] = q]) /\ PagesInv([c EXCEPT !.val[l] = q])
      /\ Redirects(s, [c EXCEPT !.val[l] = q], l, q)
  BY <1>3, <1>4, StoreRedirects
<1> QED
  BY <1>2, <1>5 DEF c, q

-----------------------------------------------------------------------------
(* The parts of the invariant under a move *)

(* An allocation that had not moved has its own place and its pointer. *)
LEMMA MovePlace ==
    ASSUME NEW s, NEW t, NEW n \in Nat, StateType(s), StateType(t),
           PlaceInv(s, n), ClosureInv(s, n),
           NEW a \in DOMAIN s.tree, s.tree[a].paddr = 0, Moves(s, t, a)
    PROVE  /\ PlaceInv(t, n) /\ ClosureInv(t, n)
           /\ Moved(t) = Moved(s) \cup {a} /\ a \notin Moved(s)
           /\ a \in s.heap /\ a \in Vol /\ s.npers + 1 \in Pers /\ s.npers \in Nat
           /\ Live(t) = (Live(s) \ {a}) \cup {s.npers + 1}
           /\ s.npers + 1 \notin Live(s)
<1> DEFINE p == s.npers + 1
<1>1. /\ a \in s.heap /\ a \in Vol /\ s.npers \in Nat /\ p \in Pers /\ p # 0
      /\ 1 .. p = (1 .. s.npers) \cup {p} /\ p \notin 1 .. s.npers
      /\ p \notin Vol /\ 1 .. s.npers \subseteq Pers
  BY Addresses, SMTT(30) DEF PlaceInv, StateType, Moves, Pers
<1>2. /\ t.npers = p /\ t.heap = s.heap \ {a} /\ t.pat = s.pat \ {a}
      /\ t.ident[p] = s.ident[a] /\ \A l \in (Vol \cup Pers) \ {p} : t.ident[l] = s.ident[l]
      /\ DOMAIN t.tree = DOMAIN s.tree /\ t.tree[a].paddr = p
      /\ t.tree[a].ptrs = s.tree[a].ptrs
      /\ \A b \in DOMAIN s.tree : b # a => t.tree[b] = s.tree[b]
  BY DEF Moves
<1>3. s.heap \subseteq Vol /\ a \notin 1 .. s.npers
  BY <1>1, Addresses DEF StateType
<1> HIDE DEF p
<1>4. Live(t) = (Live(s) \ {a}) \cup {p} /\ p \notin Live(s) /\ Live(s) \subseteq Vol \cup Pers
  BY <1>1, <1>2, <1>3 DEF Live
<1>5. Moved(t) = Moved(s) \cup {a} /\ a \notin Moved(s)
  BY <1>1, <1>2 DEF Moved
<1>6. \A b \in t.heap : \E k \in 0 .. n : t.ident[b] = <<b, k>>
  <2> SUFFICES ASSUME NEW b \in t.heap PROVE \E k \in 0 .. n : t.ident[b] = <<b, k>>
    OBVIOUS
  <2>1. b \in s.heap /\ t.ident[b] = s.ident[b]
    BY <1>1, <1>2, <1>3
  <2> QED
    BY <2>1 DEF PlaceInv
<1>7. \A b \in t.heap : \E k \in 0 .. n - 1 : t.ident[b] = <<b, k>>
  <2> SUFFICES ASSUME NEW b \in t.heap PROVE \E k \in 0 .. n - 1 : t.ident[b] = <<b, k>>
    OBVIOUS
  <2>1. b \in s.heap /\ t.ident[b] = s.ident[b]
    BY <1>1, <1>2, <1>3
  <2> QED
    BY <2>1 DEF ClosureInv
<1>8. \A x \in 1 .. t.npers :
         t.ident[x] = <<NULL, x>> \/ \E b \in Vol, k \in 0 .. n - 1 : t.ident[x] = <<b, k>>
  <2> SUFFICES ASSUME NEW x \in 1 .. t.npers
               PROVE  t.ident[x] = <<NULL, x>>
                      \/ \E b \in Vol, k \in 0 .. n - 1 : t.ident[x] = <<b, k>>
    OBVIOUS
  <2>1. CASE x = p
    <3>1. PICK k \in 0 .. n - 1 : s.ident[a] = <<a, k>>
      BY <1>1 DEF ClosureInv
    <3> QED
      BY <1>1, <1>2, <2>1, <3>1
  <2>2. CASE x # p
    <3>1. x \in 1 .. s.npers /\ t.ident[x] = s.ident[x]
      BY <1>1, <1>2, <2>2
    <3> QED
      BY <3>1 DEF PlaceInv
  <2> QED
    BY <2>1, <2>2
<1>9. \A x, y \in Live(t) : t.ident[x] = t.ident[y] => x = y
  <2>1. \A x, y \in Live(s) : s.ident[x] = s.ident[y] => x = y
    BY DEF PlaceInv
  <2>2. \A x \in Live(t) : x # p => x \in Live(s) /\ x # a /\ t.ident[x] = s.ident[x]
    BY <1>2, <1>4, <1>1
  <2>3. a \in Live(s)
    BY <1>1 DEF Live
  <2> QED
    BY <1>2, <2>1, <2>2, <2>3
<1>10. t.heap \subseteq t.pat /\ t.pat \subseteq Live(t) \cup Globals
  BY <1>2, <1>4 DEF PlaceInv
<1>11. \A b \in DOMAIN t.tree : t.tree[b].paddr = 0 => b \in t.heap
  BY <1>1, <1>2 DEF PlaceInv
<1>12. PlaceInv(t, n)
  BY <1>6, <1>8, <1>9, <1>10, <1>11 DEF PlaceInv
<1>13. ClosureInv(t, n)
  BY <1>1, <1>2, <1>7 DEF ClosureInv
<1> QED
  BY <1>1, <1>4, <1>5, <1>12, <1>13 DEF p

(* The container has room for what has not moved. *)
LEMMA RoomForMove ==
    ASSUME NEW s, StateType(s), NEW k \in Nat, k =< MaxPallocs,
           s.npers = k + Cardinality(Moved(s)),
           NEW a \in DOMAIN s.tree, a \notin Moved(s)
    PROVE  /\ s.npers + 1 =< MaxObjs
           /\ IsFiniteSet(Moved(s))
           /\ Cardinality(Moved(s) \cup {a}) = Cardinality(Moved(s)) + 1
<1>1. Moved(s) \cup {a} \subseteq Vol /\ Moved(s) \subseteq Vol /\ IsFiniteSet(Vol)
  BY ClosureAssumption DEF Moved, StateType
<1>2. IsFiniteSet(Moved(s)) /\ IsFiniteSet(Moved(s) \cup {a})
      /\ Cardinality(Moved(s) \cup {a}) =< Cardinality(Vol)
  BY <1>1, FS_Subset
<1>3. Cardinality(Moved(s) \cup {a}) = Cardinality(Moved(s)) + 1
  BY <1>2, FS_AddElement
<1>4. Cardinality(Vol) \in Nat /\ Cardinality(Moved(s)) \in Nat /\ MaxPallocs \in Nat
  BY <1>1, <1>2, FS_CardinalityType, ClosureAssumption
<1> QED
  BY <1>2, <1>3, <1>4 DEF MaxObjs

(* The moved object will be looked at. *)
LEMMA MoveClosed ==
    ASSUME NEW s, NEW t, NEW first, NEW ahead, NEW a, a \in Vol, s.npers \in Nat,
           s.npers + 1 \in Pers, first \in Nat \ {0},
           Moves(s, t, a), ClosedInv(s, first, ahead)
    PROVE  ClosedInv(t, first, ahead \cup {s.npers + 1})
<1> SUFFICES ASSUME NEW x \in (first .. t.npers) \ (ahead \cup {s.npers + 1})
             PROVE  t.val[x] \notin Vol \cup Globals
  BY DEF ClosedInv
<1>1. t.npers = s.npers + 1
  BY DEF Moves
<1>2. x \in (first .. s.npers) \ ahead /\ x # s.npers + 1
  BY <1>1
<1>3. x \in Pers
  BY <1>2, Addresses DEF Pers
<1>4. x \in Loc /\ x # a
  BY <1>3, Addresses
<1>5. t.val[x] = s.val[x]
  BY <1>2, <1>4 DEF Moves
<1> QED
  BY <1>2, <1>5 DEF ClosedInv

(* Every pointer leads where it led, and the pointer of the moved object   *)
(* goes with it.                                                           *)
LEMMA MoveFollow ==
    ASSUME NEW s, NEW t, NEW n \in Nat, StateType(s), StateType(t),
           PlaceInv(s, n), ClosureInv(s, n),
           NEW a \in DOMAIN s.tree, s.tree[a].paddr = 0, Moves(s, t, a),
           NEW edges, NEW ahead, FollowInv(s, edges, ahead \cup s.pat, FALSE)
    PROVE  FollowInv(t, edges, ahead \cup {s.npers + 1} \cup t.pat, FALSE)
<1> DEFINE p == s.npers + 1
           P == ahead \cup {p} \cup t.pat
<1>1. /\ Moved(t) = Moved(s) \cup {a} /\ a \notin Moved(s)
      /\ a \in s.heap /\ a \in Vol /\ p \in Pers /\ s.npers \in Nat
      /\ Live(t) = (Live(s) \ {a}) \cup {p} /\ p \notin Live(s)
  BY MovePlace
<1>2. /\ t.heap = s.heap \ {a} /\ t.pat = s.pat \ {a}
      /\ t.val[p] = s.val[a] /\ \A l \in Loc \ {p, a} : t.val[l] = s.val[l]
      /\ t.ident[p] = s.ident[a] /\ \A l \in (Vol \cup Pers) \ {p} : t.ident[l] = s.ident[l]
      /\ t.tree[a].paddr = p
      /\ \A b \in DOMAIN s.tree : b # a => t.tree[b] = s.tree[b]
  BY DEF Moves
<1>3. /\ Vol \cap Pers = {} /\ Globals \cap Pers = {} /\ Vol \cap Globals = {}
      /\ Vol \subseteq Loc /\ Globals \subseteq Loc /\ Pers \subseteq Loc
      /\ s.heap \subseteq Vol /\ 1 .. s.npers \subseteq Pers /\ Live(s) \subseteq Vol \cup Pers
      /\ a \in Live(s) /\ a \notin Globals /\ p \notin Globals /\ p \notin 1 .. s.npers
      /\ a # p
  BY <1>1, Addresses DEF StateType, Live, Pers
<1> HIDE DEF p, P
<1>4. \A v : v # a /\ v # p => Who(t, v) = Who(s, v)
  BY <1>1, <1>2, <1>3 DEF Who
<1>5. Who(t, p) = Who(s, a) /\ Who(s, a) = s.ident[a]
  BY <1>1, <1>2, <1>3 DEF Who
<1>6. Who(s, p) = NULL
  BY <1>1, <1>3 DEF Who
<1>7. ASSUME NEW v, NEW o, o # NULL, Who(s, v) = o
      PROVE  \/ v # a /\ Who(t, v) = o
             \/ v \in Moved(t) /\ t.ident[t.tree[v].paddr] = o
  <2>1. CASE v = a
    <3>1. t.tree[v].paddr = p /\ v \in Moved(t)
      BY <1>1, <1>2, <2>1
    <3>2. t.ident[p] = o
      BY <1>2, <1>5, <1>7, <2>1
    <3> QED
      BY <3>1, <3>2
  <2>2. CASE v # a
    BY <1>4, <1>6, <1>7, <2>2
  <2> QED
    BY <2>1, <2>2
<1>8. \A v \in Moved(s) : v \in Moved(t) /\ t.ident[t.tree[v].paddr] = s.ident[s.tree[v].paddr]
  <2> SUFFICES ASSUME NEW v \in Moved(s)
               PROVE  v \in Moved(t) /\ t.ident[t.tree[v].paddr] = s.ident[s.tree[v].paddr]
    OBVIOUS
  <2>1. v # a /\ v \in DOMAIN s.tree /\ s.tree[v].paddr # 0
    BY <1>1 DEF Moved
  <2>2. s.tree[v].paddr \in 1 .. s.npers
    BY <2>1 DEF StateType
  <2>3. s.tree[v].paddr \in (Vol \cup Pers) \ {p}
    BY <1>3, <2>2
  <2> QED
    BY <1>1, <1>2, <2>1, <2>3
<1>9. \A l, m, o : o # NULL /\ LeadsTo(s, l, o) /\ t.val[m] = s.val[l] => LeadsTo(t, m, o)
  <2> SUFFICES ASSUME NEW l, NEW m, NEW o, o # NULL, LeadsTo(s, l, o), t.val[m] = s.val[l]
               PROVE  LeadsTo(t, m, o)
    OBVIOUS
  <2>1. CASE Who(s, s.val[l]) = o
    BY <1>7, <2>1 DEF LeadsTo
  <2>2. CASE s.val[l] \in Moved(s) /\ s.ident[s.tree[s.val[l]].paddr] = o
    BY <1>8, <2>2 DEF LeadsTo
  <2> QED
    BY <2>1, <2>2 DEF LeadsTo
<1> SUFFICES ASSUME NEW x \in edges, x[2] # NULL, ~Stays(t, x[2], FALSE)
             PROVE  \E l \in Live(t) \cup Globals :
                       /\ Who(t, l) = x[1] /\ LeadsTo(t, l, x[2])
                       /\ t.val[l] \in Vol => l \in P
  BY DEF FollowInv, P, p
<1>10. ~Stays(s, x[2], FALSE)
  <2> SUFFICES ASSUME NEW b \in s.heap, s.ident[b] = x[2], b \in Moved(s)
               PROVE  FALSE
    BY DEF Stays
  <2>1. b \in t.heap /\ b \in Moved(t) /\ t.ident[b] = x[2]
    BY <1>1, <1>2, <1>3
  <2> QED
    BY <2>1 DEF Stays
<1>11. PICK l \in Live(s) \cup Globals :
          /\ Who(s, l) = x[1] /\ LeadsTo(s, l, x[2])
          /\ s.val[l] \in Vol => l \in ahead \cup s.pat
  BY <1>10 DEF FollowInv
<1>12. CASE l = a
  <2>1. p \in Live(t) /\ Who(t, p) = x[1] /\ LeadsTo(t, p, x[2]) /\ p \in P
    BY <1>1, <1>2, <1>5, <1>9, <1>11, <1>12 DEF P
  <2> QED
    BY <2>1
<1>13. CASE l # a
  <2>1. l # p /\ l \in Loc /\ l \in Live(t) \cup Globals
    BY <1>1, <1>3, <1>11, <1>13
  <2>2. t.val[l] = s.val[l] /\ Who(t, l) = x[1]
    BY <1>2, <1>4, <1>11, <1>13, <2>1
  <2>3. LeadsTo(t, l, x[2])
    BY <1>9, <1>11, <2>2
  <2>4. t.val[l] \in Vol => l \in P
    BY <1>2, <1>11, <1>13, <2>2 DEF P
  <2> QED
    BY <2>1, <2>2, <2>3, <2>4
<1> QED
  BY <1>12, <1>13

(* The records of an entry without a committed page, after a step that     *)
(* keeps the pages                                                         *)
LEMMA KeptRecords ==
    ASSUME NEW s, NEW t, PagesInv(s), PagesKept(s, t), NEW e \in Entries, s.ptr[e].sm = 0
    PROVE  /\ t.ptr[e] = s.ptr[e] /\ t.ptr[e].sm = 0
           /\ \A i \in 1 .. s.ptr[e].idx :
                 /\ t.tabs[t.ptr[e].cm][i] = s.tabs[s.ptr[e].cm][i]
                 /\ s.tabs[s.ptr[e].cm][i].loc \in 1 .. s.npers
           /\ Recorded(t, e) = Recorded(s, e)
<1>1. /\ s.tabs \in Seq(Seq(RecordsOf(s.npers))) /\ PtrPageOK(s, e) /\ s.ptr[e] \in PtrPage
  BY PagesParts
<1>2. t.ptr[e] = s.ptr[e]
  BY DEF PagesKept
<1> DEFINE c == s.ptr[e].cm
           k == s.ptr[e].idx
           T == s.tabs[c]
<1>3. Len(s.tabs) \in Nat /\ k \in Nat
  BY <1>1, LenProperties DEF PtrPage
<1>4. \A i \in 1 .. k : t.tabs[c][i] = s.tabs[c][i] /\ s.tabs[c][i].loc \in 1 .. s.npers
  <2> SUFFICES ASSUME NEW i \in 1 .. k
               PROVE  t.tabs[c][i] = s.tabs[c][i] /\ s.tabs[c][i].loc \in 1 .. s.npers
    OBVIOUS
  <2>1. c \in 1 .. Len(s.tabs) /\ k =< Len(T)
    BY <1>1, <1>3 DEF PtrPageOK
  <2>2. T \in Seq(RecordsOf(s.npers))
    BY <1>1, <2>1, ElementOfSeq
  <2>3. Len(T) \in Nat
    BY <2>2, LenProperties
  <2>4. i \in 1 .. Len(T)
    BY <1>3, <2>1, <2>3
  <2>5. T[i] \in RecordsOf(s.npers)
    BY <2>2, <2>4, ElementOfSeq
  <2>6. t.tabs[c] = s.tabs[c]
    BY <2>1 DEF PagesKept
  <2> QED
    BY <2>5, <2>6 DEF RecordsOf
<1> QED
  BY <1>2, <1>4, ZenonT(30) DEF Recorded

(* A move changes no pointer that is recorded. *)
LEMMA MoveRecords ==
    ASSUME NEW s, NEW t, StateType(s), PagesInv(s), NEW a, a \in Vol, s.npers + 1 \in Pers,
           Moves(s, t, a), NEW recorded, NEW registered, registered \subseteq Pers, NEW ahead,
           RecordsInv(s, recorded, registered, ahead)
    PROVE  RecordsInv(t, recorded, registered \cup {s.npers + 1}, ahead \cup {s.npers + 1})
<1> DEFINE p == s.npers + 1
<1>1. PagesKept(s, t)
  BY DEF Moves
<1>2. \A e \in Entries \ recorded :
         /\ t.ptr[e].sm = 0
         /\ \A i \in 1 .. t.ptr[e].idx :
               LET r == t.tabs[t.ptr[e].cm][i]
               IN  r.val = t.val[r.loc] /\ r.val \in Pers \cup {NULL}
         /\ Recorded(t, e) = Recorded(s, e)
  <2> SUFFICES ASSUME NEW e \in Entries \ recorded
               PROVE  /\ t.ptr[e].sm = 0
                      /\ \A i \in 1 .. t.ptr[e].idx :
                            LET r == t.tabs[t.ptr[e].cm][i]
                            IN  r.val = t.val[r.loc] /\ r.val \in Pers \cup {NULL}
                      /\ Recorded(t, e) = Recorded(s, e)
    OBVIOUS
  <2>1. s.ptr[e].sm = 0
    BY DEF RecordsInv
  <2>2. /\ t.ptr[e] = s.ptr[e] /\ t.ptr[e].sm = 0
        /\ \A i \in 1 .. s.ptr[e].idx :
              /\ t.tabs[t.ptr[e].cm][i] = s.tabs[s.ptr[e].cm][i]
              /\ s.tabs[s.ptr[e].cm][i].loc \in 1 .. s.npers
        /\ Recorded(t, e) = Recorded(s, e)
    BY <1>1, <2>1, KeptRecords
  <2>3. \A l \in 1 .. s.npers : t.val[l] = s.val[l]
    <3> SUFFICES ASSUME NEW l \in 1 .. s.npers PROVE t.val[l] = s.val[l]
      OBVIOUS
    <3>1. l \in Pers /\ l # p /\ l # a /\ l \in Loc
      BY Addresses DEF StateType, Pers
    <3> QED
      BY <3>1 DEF Moves
  <2>4. \A i \in 1 .. s.ptr[e].idx :
           LET r == s.tabs[s.ptr[e].cm][i]
           IN  r.val = s.val[r.loc] /\ r.val \in Pers \cup {NULL}
    BY DEF RecordsInv
  <2>5. \A i \in 1 .. t.ptr[e].idx :
           LET r == t.tabs[t.ptr[e].cm][i]
           IN  r.val = t.val[r.loc] /\ r.val \in Pers \cup {NULL}
    <3> SUFFICES ASSUME NEW i \in 1 .. s.ptr[e].idx
                 PROVE  LET r == t.tabs[t.ptr[e].cm][i]
                        IN  r.val = t.val[r.loc] /\ r.val \in Pers \cup {NULL}
      BY <2>2, Zenon
    <3> DEFINE r == s.tabs[s.ptr[e].cm][i]
    <3>1. t.tabs[t.ptr[e].cm][i] = r /\ r.loc \in 1 .. s.npers
      BY <2>2
    <3>2. r.val = s.val[r.loc] /\ r.val \in Pers \cup {NULL}
      BY <2>4
    <3> HIDE DEF r
    <3> QED
      BY <2>3, <3>1, <3>2
  <2> QED
    BY <2>2, <2>5
<1>3. \A x \in (registered \cup {p}) \ (ahead \cup {p}) :
         EntryOf(x) \notin recorded => x \in Recorded(t, EntryOf(x))
  <2> SUFFICES ASSUME NEW x \in registered \ ahead, EntryOf(x) \notin recorded
               PROVE  x \in Recorded(t, EntryOf(x))
    OBVIOUS
  <2>1. x \in Recorded(s, EntryOf(x))
    BY DEF RecordsInv
  <2>2. EntryOf(x) \in Entries
    BY EntryRange
  <2> QED
    BY <1>2, <2>1, <2>2
<1> QED
  BY <1>2, <1>3 DEF RecordsInv

-----------------------------------------------------------------------------
(* The parts of the invariant under a change of one pointer *)

(* Neither places nor the tree depend on the pointers. *)
LEMMA RedirectPlace ==
    ASSUME NEW s, NEW t, NEW n, NEW l, NEW q, PlaceInv(s, n), Redirects(s, t, l, q)
    PROVE  /\ PlaceInv(t, n) /\ Moved(t) = Moved(s) /\ Live(t) = Live(s)
           /\ ClosureInv(s, n) => ClosureInv(t, n)
<1>1. Live(t) = Live(s) /\ Moved(t) = Moved(s)
  BY DEF Live, Moved, Redirects
<1>2. /\ t.heap = s.heap /\ t.tree = s.tree /\ t.pvec = s.pvec
      /\ t.pat = s.pat /\ t.npers = s.npers /\ t.ident = s.ident
  BY DEF Redirects
<1>3. PlaceInv(t, n)
  BY <1>1, <1>2 DEF PlaceInv
<1> QED
  BY <1>1, <1>2, <1>3 DEF ClosureInv

(* The new pointer leads into the container. *)
LEMMA RedirectClosed ==
    ASSUME NEW s, NEW t, NEW l, NEW q \in Pers, Redirects(s, t, l, q), s.npers \in 0 .. MaxObjs,
           NEW first \in Nat \ {0}, NEW ahead, ClosedInv(s, first, ahead)
    PROVE  ClosedInv(t, first, ahead)
<1> SUFFICES ASSUME NEW x \in (first .. s.npers) \ ahead
             PROVE  t.val[x] \notin Vol \cup Globals
  BY DEF ClosedInv, Redirects
<1>1. x \in Loc
  BY Addresses DEF Pers
<1>2. CASE x = l
  BY <1>2, Addresses DEF Redirects
<1>3. CASE x # l
  BY <1>1, <1>3 DEF Redirects, ClosedInv
<1> QED
  BY <1>2, <1>3

(* A pointer to an allocation that has moved is redirected to where it     *)
(* went.                                                                   *)
LEMMA RedirectFollow ==
    ASSUME NEW s, NEW t, NEW l, NEW a \in Moved(s), s.val[l] = a, StateType(s),
           Redirects(s, t, l, s.tree[a].paddr),
           NEW edges, NEW pending, FollowInv(s, edges, pending, FALSE)
    PROVE  FollowInv(t, edges, pending, FALSE)
<1> DEFINE q == s.tree[a].paddr
<1>1. /\ t.heap = s.heap /\ t.tree = s.tree /\ t.npers = s.npers /\ t.ident = s.ident
      /\ t.val[l] = q /\ \A m \in Loc \ {l} : t.val[m] = s.val[m]
  BY DEF Redirects
<1>2. Live(t) = Live(s) /\ Moved(t) = Moved(s) /\ \A v : Who(t, v) = Who(s, v)
  BY <1>1 DEF Live, Moved, Who
<1>3. a \in Vol /\ q \in 1 .. s.npers /\ q \notin Vol /\ Live(s) \cup Globals \subseteq Loc
  <2>1. a \in DOMAIN s.tree /\ q # 0
    BY DEF Moved
  <2>2. a \in Vol /\ q \in 1 .. s.npers
    BY <2>1 DEF StateType
  <2>3. 1 .. s.npers \subseteq Pers /\ s.heap \subseteq Vol
    BY Addresses DEF StateType, Pers
  <2> QED
    BY <2>2, <2>3, Addresses DEF Live
<1> SUFFICES ASSUME NEW x \in edges, x[2] # NULL, ~Stays(t, x[2], FALSE)
             PROVE  \E m \in Live(t) \cup Globals :
                       /\ Who(t, m) = x[1] /\ LeadsTo(t, m, x[2])
                       /\ t.val[m] \in Vol => m \in pending
  BY DEF FollowInv
<1>4. ~Stays(s, x[2], FALSE)
  BY <1>1, <1>2 DEF Stays
<1>5. PICK m \in Live(s) \cup Globals :
         /\ Who(s, m) = x[1] /\ LeadsTo(s, m, x[2])
         /\ s.val[m] \in Vol => m \in pending
  BY <1>4 DEF FollowInv
<1>6. CASE m = l
  <2>1. s.ident[q] = x[2]
    <3>1. CASE Who(s, a) = x[2]
      <4>1. a \in s.heap /\ s.ident[a] = x[2]
        BY <1>3, <3>1, Addresses DEF Who, Live, StateType, Pers
      <4> QED
        BY <1>4, <4>1 DEF Stays
    <3> QED
      BY <1>5, <1>6, <3>1 DEF LeadsTo
  <2>2. Who(t, q) = x[2]
    BY <1>1, <1>3, <2>1 DEF Who, Live
  <2> QED
    BY <1>1, <1>2, <1>3, <1>5, <1>6, <2>2 DEF LeadsTo
<1>7. CASE m # l
  <2>1. t.val[m] = s.val[m]
    BY <1>1, <1>3, <1>5, <1>7
  <2> QED
    BY <1>1, <1>2, <1>5, <2>1 DEF LeadsTo
<1> QED
  BY <1>6, <1>7

(* A pointer to volatile memory has no record in an entry that had none    *)
(* when the checkpoint began.                                              *)
LEMMA RedirectRecords ==
    ASSUME NEW s, NEW t, NEW l, NEW q, StateType(s), PagesInv(s), s.val[l] \in Vol,
           Redirects(s, t, l, q), NEW recorded, NEW registered, registered \subseteq Pers,
           NEW ahead, RecordsInv(s, recorded, registered, ahead)
    PROVE  RecordsInv(t, recorded, registered, ahead)
<1>1. PagesKept(s, t)
  BY DEF Redirects
<1>2. \A e \in Entries \ recorded :
         /\ t.ptr[e].sm = 0
         /\ \A i \in 1 .. t.ptr[e].idx :
               LET r == t.tabs[t.ptr[e].cm][i]
               IN  r.val = t.val[r.loc] /\ r.val \in Pers \cup {NULL}
         /\ Recorded(t, e) = Recorded(s, e)
  <2> SUFFICES ASSUME NEW e \in Entries \ recorded
               PROVE  /\ t.ptr[e].sm = 0
                      /\ \A i \in 1 .. t.ptr[e].idx :
                            LET r == t.tabs[t.ptr[e].cm][i]
                            IN  r.val = t.val[r.loc] /\ r.val \in Pers \cup {NULL}
                      /\ Recorded(t, e) = Recorded(s, e)
    OBVIOUS
  <2>1. s.ptr[e].sm = 0
    BY DEF RecordsInv
  <2>2. /\ t.ptr[e] = s.ptr[e] /\ t.ptr[e].sm = 0
        /\ \A i \in 1 .. s.ptr[e].idx :
              /\ t.tabs[t.ptr[e].cm][i] = s.tabs[s.ptr[e].cm][i]
              /\ s.tabs[s.ptr[e].cm][i].loc \in 1 .. s.npers
        /\ Recorded(t, e) = Recorded(s, e)
    BY <1>1, <2>1, KeptRecords
  <2>3. \A m \in 1 .. s.npers : m # l => t.val[m] = s.val[m]
    <3> SUFFICES ASSUME NEW m \in 1 .. s.npers, m # l PROVE t.val[m] = s.val[m]
      OBVIOUS
    <3>1. m \in Loc
      BY Addresses DEF StateType, Pers
    <3> QED
      BY <3>1 DEF Redirects
  <2>4. \A i \in 1 .. s.ptr[e].idx :
           LET r == s.tabs[s.ptr[e].cm][i]
           IN  r.val = s.val[r.loc] /\ r.val \in Pers \cup {NULL}
    BY DEF RecordsInv
  <2>5. s.val[l] \notin Pers \cup {NULL}
    BY Addresses
  <2>6. \A i \in 1 .. t.ptr[e].idx :
           LET r == t.tabs[t.ptr[e].cm][i]
           IN  r.val = t.val[r.loc] /\ r.val \in Pers \cup {NULL}
    <3> SUFFICES ASSUME NEW i \in 1 .. s.ptr[e].idx
                 PROVE  LET r == t.tabs[t.ptr[e].cm][i]
                        IN  r.val = t.val[r.loc] /\ r.val \in Pers \cup {NULL}
      BY <2>2, Zenon
    <3> DEFINE r == s.tabs[s.ptr[e].cm][i]
    <3>1. t.tabs[t.ptr[e].cm][i] = r /\ r.loc \in 1 .. s.npers
      BY <2>2
    <3>2. r.val = s.val[r.loc] /\ r.val \in Pers \cup {NULL}
      BY <2>4
    <3> HIDE DEF r
    <3> QED
      BY <2>3, <2>5, <3>1, <3>2
  <2> QED
    BY <2>2, <2>6
<1>3. \A x \in registered \ ahead :
         EntryOf(x) \notin recorded => x \in Recorded(t, EntryOf(x))
  <2> SUFFICES ASSUME NEW x \in registered \ ahead, EntryOf(x) \notin recorded
               PROVE  x \in Recorded(t, EntryOf(x))
    OBVIOUS
  <2>1. x \in Recorded(s, EntryOf(x))
    BY DEF RecordsInv
  <2>2. EntryOf(x) \in Entries
    BY EntryRange
  <2> QED
    BY <1>2, <2>1, <2>2
<1> QED
  BY <1>2, <1>3 DEF RecordsInv

(* The numbers of the objects *)
LEMMA Numbers ==
    ASSUME NEW s, StateType(s)
    PROVE  /\ s.npers \in Nat /\ s.npers \in 0 .. MaxObjs /\ Len(s.pvec) \in Nat
           /\ 1 .. s.npers \subseteq Pers /\ 1 .. s.npers \subseteq Loc
           /\ \A first \in Nat \ {0} : first .. s.npers \subseteq Pers
<1>1. MaxObjs \in Nat /\ s.npers \in 0 .. MaxObjs
  BY Addresses DEF StateType
<1>2. \A first \in Nat \ {0} : first .. s.npers \subseteq Pers
  BY <1>1 DEF Pers
<1>3. Len(s.pvec) \in Nat
  BY LenProperties DEF StateType
<1>4. 1 .. s.npers \subseteq Pers
  BY <1>2
<1> QED
  BY <1>1, <1>2, <1>3, <1>4, Addresses

-----------------------------------------------------------------------------
(* The two walks *)

(* What holds between the steps of the walks: of what the container held   *)
(* first - 1 objects when the checkpoint began, the locations of           *)
(* registered were to be recorded, and the ones of ahead still wait.       *)
Walked(s, n, k, first, edges, recorded, registered, ahead) ==
    /\ StateType(s) /\ PagesInv(s) /\ PlaceInv(s, n) /\ ClosureInv(s, n)
    /\ s.npers = k + Cardinality(Moved(s))
    /\ first =< s.npers + 1
    /\ ClosedInv(s, first, ahead)
    /\ FollowInv(s, edges, ahead \cup s.pat, FALSE)
    /\ RecordsInv(s, recorded, registered \cup (first .. s.npers), ahead)

(* More may wait than does. *)
LEMMA WalkedWider ==
    ASSUME NEW s, NEW n, NEW k, NEW first, NEW edges, NEW recorded, NEW registered,
           NEW ahead, NEW more, ahead \subseteq more,
           Walked(s, n, k, first, edges, recorded, registered, ahead)
    PROVE  Walked(s, n, k, first, edges, recorded, registered, more)
<1>1. ClosedInv(s, first, more)
  BY DEF Walked, ClosedInv
<1>2. RecordsInv(s, recorded, registered \cup (first .. s.npers), more)
  BY DEF Walked, RecordsInv
<1>3. FollowInv(s, edges, more \cup s.pat, FALSE)
  <2>1. FollowInv(s, edges, ahead \cup s.pat, FALSE)
    BY DEF Walked
  <2> SUFFICES ASSUME NEW x \in edges, x[2] # NULL, ~Stays(s, x[2], FALSE)
               PROVE  \E l \in Live(s) \cup Globals :
                         /\ Who(s, l) = x[1] /\ LeadsTo(s, l, x[2])
                         /\ s.val[l] \in Vol => l \in more \cup s.pat
    BY DEF FollowInv
  <2>2. PICK l \in Live(s) \cup Globals :
           /\ Who(s, l) = x[1] /\ LeadsTo(s, l, x[2])
           /\ s.val[l] \in Vol => l \in ahead \cup s.pat
    BY <2>1 DEF FollowInv
  <2> QED
    BY <2>2
<1> QED
  BY <1>1, <1>2, <1>3 DEF Walked

(* A move keeps what holds between the steps of a walk. *)
LEMMA MoveWalked ==
    ASSUME NEW s, NEW n \in Nat, NEW k \in Nat, k =< MaxPallocs, NEW first \in Nat \ {0},
           NEW edges, NEW recorded, NEW registered, registered \subseteq Pers, NEW ahead,
           Walked(s, n, k, first, edges, recorded, registered, ahead),
           NEW a \in DOMAIN s.tree, s.tree[a].paddr = 0
    PROVE  LET t == MoveAllocation(s, a)
           IN  /\ Moves(s, t, a)
               /\ Walked(t, n, k, first, edges, recorded, registered,
                         ahead \cup {s.npers + 1})
<1> DEFINE t == MoveAllocation(s, a)
           p == s.npers + 1
           reg == registered \cup (first .. s.npers)
<1>1. StateType(s) /\ PagesInv(s) /\ PlaceInv(s, n) /\ ClosureInv(s, n)
      /\ s.npers = k + Cardinality(Moved(s)) /\ first =< s.npers + 1
      /\ ClosedInv(s, first, ahead) /\ FollowInv(s, edges, ahead \cup s.pat, FALSE)
      /\ RecordsInv(s, recorded, reg, ahead)
  BY DEF Walked
<1>2. a \notin Moved(s) /\ s.tree[a].ptrs # <<>>
  BY <1>1 DEF Moved, ClosureInv
<1>3. /\ p =< MaxObjs /\ IsFiniteSet(Moved(s))
      /\ Cardinality(Moved(s) \cup {a}) = Cardinality(Moved(s)) + 1
  BY <1>1, <1>2, RoomForMove
<1>4. StateType(t) /\ PagesInv(t) /\ Moves(s, t, a)
  BY <1>1, <1>2, <1>3, MoveAllocationMoves
<1> HIDE DEF t
<1>5. /\ PlaceInv(t, n) /\ ClosureInv(t, n) /\ Moved(t) = Moved(s) \cup {a}
      /\ a \in Vol /\ p \in Pers /\ s.npers \in Nat
  BY <1>1, <1>4, MovePlace
<1>6. t.npers = p
  BY <1>4 DEF Moves
<1>7. t.npers = k + Cardinality(Moved(t)) /\ first =< t.npers + 1
  <2>1. Cardinality(Moved(s)) \in Nat
    BY <1>3, FS_CardinalityType
  <2> QED
    BY <1>1, <1>3, <1>5, <1>6, <2>1
<1>8. ClosedInv(t, first, ahead \cup {p})
  BY <1>1, <1>4, <1>5, MoveClosed
<1>9. FollowInv(t, edges, ahead \cup {p} \cup t.pat, FALSE)
  BY <1>1, <1>4, MoveFollow
<1>10. reg \subseteq Pers
  BY <1>1, Numbers
<1>11. registered \cup (first .. t.npers) = reg \cup {p}
  BY <1>1, <1>5, <1>6
<1> HIDE DEF reg
<1>12. RecordsInv(t, recorded, registered \cup (first .. t.npers), ahead \cup {p})
  <2>1. RecordsInv(t, recorded, reg \cup {p}, ahead \cup {p})
    BY <1>1, <1>4, <1>5, <1>10, MoveRecords
  <2> QED
    BY <1>11, <2>1
<1>13. Walked(t, n, k, first, edges, recorded, registered, ahead \cup {p})
  BY <1>4, <1>5, <1>7, <1>8, <1>9, <1>12 DEF Walked
<1> QED
  BY <1>4, <1>13 DEF t

(* So does the change of a pointer to an allocation that has moved. *)
LEMMA RedirectWalked ==
    ASSUME NEW s, NEW n \in Nat, NEW k \in Nat, NEW first \in Nat \ {0},
           NEW edges, NEW recorded, NEW registered, registered \subseteq Pers, NEW ahead,
           Walked(s, n, k, first, edges, recorded, registered, ahead),
           NEW l \in Pers, NEW a \in Moved(s), s.val[l] = a
    PROVE  LET q == s.tree[a].paddr
               t == [StoreTo(s, EntryOf(l)) EXCEPT !.val[l] = q]
           IN  /\ Redirects(s, t, l, q)
               /\ Walked(t, n, k, first, edges, recorded, registered, ahead)
<1> DEFINE q == s.tree[a].paddr
           t == [StoreTo(s, EntryOf(l)) EXCEPT !.val[l] = q]
           reg == registered \cup (first .. s.npers)
<1>1. StateType(s) /\ PagesInv(s) /\ PlaceInv(s, n) /\ ClosureInv(s, n)
      /\ s.npers = k + Cardinality(Moved(s)) /\ first =< s.npers + 1
      /\ ClosedInv(s, first, ahead) /\ FollowInv(s, edges, ahead \cup s.pat, FALSE)
      /\ RecordsInv(s, recorded, reg, ahead)
  BY DEF Walked
<1>2. q \in 1 .. s.npers /\ StateType(t) /\ PagesInv(t) /\ Redirects(s, t, l, q)
  BY <1>1, PersistRedirects
<1> HIDE DEF t, q
<1>3. q \in Pers /\ s.npers \in 0 .. MaxObjs /\ a \in Vol /\ reg \subseteq Pers
  <2>1. a \in Vol
    BY <1>1 DEF StateType, Moved
  <2> QED
    BY <1>1, <1>2, <2>1, Numbers
<1> HIDE DEF reg
<1>4. /\ PlaceInv(t, n) /\ ClosureInv(t, n) /\ Moved(t) = Moved(s)
  BY <1>1, <1>2, RedirectPlace
<1>5. t.npers = s.npers /\ t.pat = s.pat
  BY <1>2 DEF Redirects
<1>6. ClosedInv(t, first, ahead)
  BY <1>1, <1>2, <1>3, RedirectClosed
<1>7. FollowInv(t, edges, ahead \cup t.pat, FALSE)
  <2> DEFINE P == ahead \cup s.pat
  <2>1. FollowInv(s, edges, P, FALSE)
    BY <1>1
  <2> HIDE DEF P
  <2>2. FollowInv(t, edges, P, FALSE)
    BY <1>1, <1>2, <2>1, RedirectFollow DEF q
  <2> QED
    BY <1>5, <2>2 DEF P
<1>8. RecordsInv(t, recorded, registered \cup (first .. t.npers), ahead)
  <2>1. RecordsInv(t, recorded, reg, ahead)
    BY <1>1, <1>2, <1>3, RedirectRecords
  <2> QED
    BY <1>5, <2>1 DEF reg
<1>9. Walked(t, n, k, first, edges, recorded, registered, ahead)
  BY <1>1, <1>2, <1>4, <1>5, <1>6, <1>7, <1>8 DEF Walked
<1> QED
  BY <1>2, <1>9 DEF t, q

(* What waits on the vector after a move *)
LEMMA FromMoved ==
    ASSUME NEW s, NEW t, NEW a, StateType(s), Moves(s, t, a), NEW i \in Nat \ {0},
           i =< Len(s.pvec) + 1, Len(t.pvec) \in Nat
    PROVE  From(s, i) \cup {s.npers + 1} \subseteq From(t, i)
<1>1. Len(s.pvec) \in Nat
  BY LenProperties DEF StateType
<1>2. /\ Len(t.pvec) > Len(s.pvec)
      /\ \A j \in 1 .. Len(s.pvec) : t.pvec[j] = s.pvec[j]
      /\ \A j \in Len(s.pvec) + 1 .. Len(t.pvec) : t.pvec[j] = s.npers + 1
  BY DEF Moves
<1>3. \A j \in i .. Len(s.pvec) : s.pvec[j] = t.pvec[j] /\ j \in i .. Len(t.pvec)
  BY <1>1, <1>2
<1>4. t.pvec[Len(t.pvec)] = s.npers + 1 /\ Len(t.pvec) \in i .. Len(t.pvec)
  BY <1>1, <1>2
<1> QED
  BY <1>3, <1>4 DEF From

(* The vector grows at its end only. *)
VectorGrows(s, t) ==
    Len(s.pvec) =< Len(t.pvec) /\ \A j \in 1 .. Len(s.pvec) : t.pvec[j] = s.pvec[j]

(* persist_valloc of a location in the container *)
LEMMA PersistWalked ==
    ASSUME NEW s, NEW n \in Nat, NEW k \in Nat, k =< MaxPallocs, NEW first \in Nat \ {0},
           NEW edges, NEW recorded, NEW registered, registered \subseteq Pers,
           NEW i \in Nat \ {0}, i =< Len(s.pvec) + 1,
           Walked(s, n, k, first, edges, recorded, registered, From(s, i)),
           NEW l \in 1 .. s.npers
    PROVE  LET t == persist_valloc(s, l)
           IN  /\ Walked(t, n, k, first, edges, recorded, registered, From(t, i))
               /\ s.npers =< t.npers /\ t.heap \subseteq s.heap /\ DOMAIN t.tree = DOMAIN s.tree
               /\ VectorGrows(s, t)
<1> DEFINE t == persist_valloc(s, l)
           a == s.val[l]
           c == IF s.tree[a].paddr = 0 THEN MoveAllocation(s, a) ELSE s
<1>1. StateType(s) /\ s.npers \in Nat /\ l \in Pers /\ l \in Loc /\ Len(s.pvec) \in Nat
  BY Numbers DEF Walked
<1>2. CASE a \notin DOMAIN s.tree
  <2>1. t = s
    BY <1>2 DEF persist_valloc
  <2>2. VectorGrows(s, s)
    BY <1>1 DEF VectorGrows
  <2> QED
    BY <1>1, <2>1, <2>2
<1>3. CASE a \in DOMAIN s.tree
  <2>1. t = [StoreTo(c, EntryOf(l)) EXCEPT !.val[l] = c.tree[a].paddr]
    BY <1>3 DEF persist_valloc
  <2>2. /\ Walked(c, n, k, first, edges, recorded, registered, From(c, i))
        /\ s.npers =< c.npers /\ c.heap \subseteq s.heap /\ DOMAIN c.tree = DOMAIN s.tree
        /\ VectorGrows(s, c) /\ c.val[l] = a /\ a \in Moved(c)
    <3>1. CASE s.tree[a].paddr = 0
      <4>1. c = MoveAllocation(s, a)
        BY <3>1
      <4> HIDE DEF c
      <4>2. /\ Moves(s, c, a)
            /\ Walked(c, n, k, first, edges, recorded, registered,
                      From(s, i) \cup {s.npers + 1})
        BY <1>3, <3>1, <4>1, MoveWalked
      <4>3. Len(c.pvec) \in Nat
        BY <4>2, LenProperties DEF Walked, StateType
      <4>4. From(s, i) \cup {s.npers + 1} \subseteq From(c, i)
        BY <1>1, <4>2, <4>3, FromMoved
      <4>5. Walked(c, n, k, first, edges, recorded, registered, From(c, i))
        BY <4>2, <4>4, WalkedWider
      <4>6. l # s.npers + 1 /\ l # a /\ s.npers + 1 # 0
        BY <1>1, <1>3, Addresses, SMTT(30) DEF StateType
      <4>7. a \in Moved(c)
        BY <1>3, <4>2, <4>6 DEF Moves, Moved
      <4> QED
        BY <1>1, <4>2, <4>3, <4>5, <4>6, <4>7 DEF Moves, VectorGrows
    <3>2. CASE s.tree[a].paddr # 0
      <4>1. c = s
        BY <3>2
      <4> HIDE DEF c
      <4> QED
        BY <1>1, <1>3, <3>2, <4>1 DEF Moved, VectorGrows
    <3> QED
      BY <3>1, <3>2
  <2> HIDE DEF c
  <2>3. /\ Redirects(c, t, l, c.tree[a].paddr)
        /\ Walked(t, n, k, first, edges, recorded, registered, From(c, i))
    <3> HIDE DEF a, t
    <3> DEFINE q == c.tree[a].paddr
               u == [StoreTo(c, EntryOf(l)) EXCEPT !.val[l] = q]
    <3>1. /\ Redirects(c, u, l, q)
          /\ Walked(u, n, k, first, edges, recorded, registered, From(c, i))
      BY <1>1, <2>2, RedirectWalked
    <3>2. t = u
      BY <2>1
    <3> QED
      BY <3>1, <3>2
  <2> HIDE DEF t
  <2>4. t.pvec = c.pvec /\ t.heap = c.heap /\ t.tree = c.tree /\ t.npers = c.npers
    BY <2>3 DEF Redirects
  <2>5. From(t, i) = From(c, i)
    BY <2>4 DEF From
  <2>6. VectorGrows(s, t)
    BY <2>2, <2>4 DEF VectorGrows
  <2> QED
    BY <2>2, <2>3, <2>4, <2>5, <2>6 DEF t
<1> QED
  BY <1>2, <1>3

(* do_insert_pointer of a location that was looked at: it waits no more. *)
LEMMA InsertWalked ==
    ASSUME NEW s, NEW n \in Nat, NEW k \in Nat, NEW first \in Nat \ {0},
           NEW edges, NEW recorded, NEW registered, registered \subseteq Pers, NEW ahead,
           Walked(s, n, k, first, edges, recorded, registered, ahead),
           NEW l \in 1 .. s.npers, s.val[l] \in Pers \cup {NULL},
           NEW rest, ahead \subseteq rest \cup {l}
    PROVE  LET t == slab_insert_pointer(s, l)
           IN  /\ SameMemory(s, t)
               /\ Walked(t, n, k, first, edges, recorded, registered, rest)
<1> DEFINE t == slab_insert_pointer(s, l)
           reg == registered \cup (first .. s.npers)
           r == [loc |-> l, val |-> s.val[l]]
           d == EntryOf(l)
<1>1. StateType(s) /\ PagesInv(s) /\ PlaceInv(s, n) /\ ClosureInv(s, n)
      /\ s.npers = k + Cardinality(Moved(s)) /\ first =< s.npers + 1
      /\ ClosedInv(s, first, ahead) /\ FollowInv(s, edges, ahead \cup s.pat, FALSE)
      /\ RecordsInv(s, recorded, reg, ahead)
  BY DEF Walked
<1>2. StateType(t) /\ PagesInv(t) /\ SameMemory(s, t) /\ Records(s, t, d, r)
  BY <1>1, InsertKeeps
<1>3. reg \subseteq Pers /\ l \in Pers /\ d \in Entries
  BY <1>1, Numbers, EntryRange
<1>4. s.val[l] \notin Vol \cup Globals
  BY Addresses
<1>5. r.loc = l /\ r.val = s.val[l]
  OBVIOUS
<1> HIDE DEF t, r, d
<1>6. /\ t.val = s.val /\ t.heap = s.heap /\ t.tree = s.tree /\ t.pvec = s.pvec
      /\ t.pat = s.pat /\ t.npers = s.npers /\ t.ident = s.ident
  BY <1>2 DEF SameMemory
<1>7. Live(t) = Live(s) /\ Moved(t) = Moved(s) /\ \A v : Who(t, v) = Who(s, v)
  BY <1>6 DEF Live, Moved, Who
<1>8. PlaceInv(t, n) /\ ClosureInv(t, n)
  BY <1>1, <1>6, <1>7 DEF PlaceInv, ClosureInv
<1>9. ClosedInv(t, first, rest)
  BY <1>1, <1>4, <1>6 DEF ClosedInv
<1>10. FollowInv(t, edges, rest \cup t.pat, FALSE)
  <2> SUFFICES ASSUME NEW x \in edges, x[2] # NULL, ~Stays(t, x[2], FALSE)
               PROVE  \E m \in Live(t) \cup Globals :
                         /\ Who(t, m) = x[1] /\ LeadsTo(t, m, x[2])
                         /\ t.val[m] \in Vol => m \in rest \cup t.pat
    BY DEF FollowInv
  <2>1. ~Stays(s, x[2], FALSE)
    BY <1>6, <1>7 DEF Stays
  <2>2. PICK m \in Live(s) \cup Globals :
           /\ Who(s, m) = x[1] /\ LeadsTo(s, m, x[2])
           /\ s.val[m] \in Vol => m \in ahead \cup s.pat
    BY <1>1, <2>1 DEF FollowInv
  <2>3. LeadsTo(t, m, x[2])
    BY <1>6, <1>7, <2>2 DEF LeadsTo
  <2>4. t.val[m] \in Vol => m \in rest \cup t.pat
    BY <1>4, <1>6, <2>2
  <2> QED
    BY <1>7, <2>2, <2>3, <2>4
<1>11. \A e \in Entries : e # d =>
          /\ t.ptr[e] = s.ptr[e]
          /\ s.ptr[e].cm # 0 => t.tabs[s.ptr[e].cm] = s.tabs[s.ptr[e].cm]
  BY <1>2 DEF Records
<1>12. /\ t.ptr[d].sm = s.ptr[d].sm /\ t.ptr[d].idx = s.ptr[d].idx + 1
       /\ \A i \in 1 .. s.ptr[d].idx : t.tabs[t.ptr[d].cm][i] = s.tabs[s.ptr[d].cm][i]
       /\ t.tabs[t.ptr[d].cm][s.ptr[d].idx + 1] = r
  BY <1>2 DEF Records
<1>13. /\ \A e \in Entries : s.ptr[e].idx \in Nat
       /\ \A e \in Entries : s.ptr[e].cm = 0 => s.ptr[e].idx = 0
  BY <1>1, PagesParts DEF PtrPageOK, PtrPage
<1>14. ASSUME NEW e \in Entries \ recorded
       PROVE  /\ t.ptr[e].sm = 0
              /\ \A i \in 1 .. t.ptr[e].idx :
                    LET z == t.tabs[t.ptr[e].cm][i]
                    IN  z.val = t.val[z.loc] /\ z.val \in Pers \cup {NULL}
  <2>1. /\ s.ptr[e].sm = 0
        /\ \A i \in 1 .. s.ptr[e].idx :
              LET z == s.tabs[s.ptr[e].cm][i]
              IN  z.val = s.val[z.loc] /\ z.val \in Pers \cup {NULL}
    BY <1>1 DEF RecordsInv
  <2>2. CASE e # d
    <3>1. t.ptr[e] = s.ptr[e]
      BY <1>11, <2>2
    <3>2. \A i \in 1 .. s.ptr[e].idx : t.tabs[s.ptr[e].cm][i] = s.tabs[s.ptr[e].cm][i]
      BY <1>11, <1>13, <2>2
    <3>3. \A i \in 1 .. t.ptr[e].idx : t.tabs[t.ptr[e].cm][i] = s.tabs[s.ptr[e].cm][i]
      BY <3>1, <3>2
    <3>4. 1 .. t.ptr[e].idx = 1 .. s.ptr[e].idx /\ t.ptr[e].sm = s.ptr[e].sm
      BY <3>1
    <3> QED
      BY <1>6, <2>1, <3>3, <3>4, Zenon
  <2>3. CASE e = d
    <3> SUFFICES ASSUME NEW i \in 1 .. t.ptr[e].idx
                 PROVE  LET z == t.tabs[t.ptr[e].cm][i]
                        IN  z.val = t.val[z.loc] /\ z.val \in Pers \cup {NULL}
      BY <1>12, <2>1, <2>3
    <3>1. CASE i \in 1 .. s.ptr[e].idx
      BY <1>6, <1>12, <2>1, <2>3, <3>1, ZenonT(30)
    <3>2. CASE i = s.ptr[e].idx + 1
      BY <1>5, <1>6, <1>12, <2>3, <3>2
    <3>3. s.ptr[e].idx \in Nat /\ t.ptr[e].idx = s.ptr[e].idx + 1
      BY <1>12, <1>13, <2>3
    <3>4. i \in 1 .. s.ptr[e].idx \/ i = s.ptr[e].idx + 1
      BY <3>3
    <3> QED
      BY <3>1, <3>2, <3>4
  <2> QED
    BY <2>2, <2>3
<1>15. \A e \in Entries : Recorded(s, e) \subseteq Recorded(t, e)
  <2> SUFFICES ASSUME NEW e \in Entries, NEW x \in Recorded(s, e)
               PROVE  x \in Recorded(t, e)
    OBVIOUS
  <2>3. PICK i \in 1 .. s.ptr[e].idx : x = s.tabs[s.ptr[e].cm][i].loc
    BY DEF Recorded
  <2>1. CASE e # d
    <3>1. s.ptr[e].cm # 0
      BY <1>13, <2>3
    <3>2. t.ptr[e] = s.ptr[e] /\ t.tabs[s.ptr[e].cm] = s.tabs[s.ptr[e].cm]
      BY <1>11, <2>1, <3>1
    <3> QED
      BY <2>3, <3>2 DEF Recorded
  <2>2. CASE e = d
    <3>1. i \in 1 .. t.ptr[e].idx
      BY <1>12, <1>13, <2>2, <2>3
    <3>2. t.tabs[t.ptr[e].cm][i] = s.tabs[s.ptr[e].cm][i]
      BY <1>12, <2>2, <2>3
    <3> QED
      BY <2>3, <3>1, <3>2 DEF Recorded
  <2> QED
    BY <2>1, <2>2
<1>16. l \in Recorded(t, d)
  <2>1. s.ptr[d].idx + 1 \in 1 .. t.ptr[d].idx
    BY <1>3, <1>12, <1>13
  <2> QED
    BY <1>5, <1>12, <2>1 DEF Recorded
<1>17. \A x \in reg \ rest : EntryOf(x) \notin recorded => x \in Recorded(t, EntryOf(x))
  <2> SUFFICES ASSUME NEW x \in reg \ rest, EntryOf(x) \notin recorded
               PROVE  x \in Recorded(t, EntryOf(x))
    OBVIOUS
  <2>1. CASE x = l
    BY <1>16, <2>1 DEF d
  <2>2. CASE x # l
    <3>1. x \in Recorded(s, EntryOf(x))
      BY <1>1, <2>2 DEF RecordsInv
    <3>2. EntryOf(x) \in Entries
      BY <1>3, EntryRange
    <3> QED
      BY <1>15, <3>1, <3>2
  <2> QED
    BY <2>1, <2>2
<1>18. RecordsInv(t, recorded, registered \cup (first .. t.npers), rest)
  BY <1>6, <1>14, <1>17 DEF RecordsInv
<1>19. Walked(t, n, k, first, edges, recorded, registered, rest)
  BY <1>1, <1>2, <1>6, <1>7, <1>8, <1>9, <1>10, <1>18 DEF Walked
<1> QED
  BY <1>2, <1>19 DEF t

-----------------------------------------------------------------------------
(* The steps of a checkpoint *)

Walking == {"move", "dirty", "fix"}

(* The invariant of the actions gives the one of the walks ... *)
LEMMA WalkBegins ==
    ASSUME IndInv, pc \in Walking
    PROVE  /\ Walked(st, cpoints, pallocs, begin.npers + 1, begin.edges, begin.recorded,
                     begin.pat \cap Pers, Ahead)
           /\ cpoints \in Nat /\ pallocs \in Nat /\ pallocs =< MaxPallocs
           /\ begin.npers \in Nat /\ at \in Nat \ {0} /\ within \in Nat \ {0}
           /\ StateType(st) /\ PagesInv(st)
<1>1. WalkInv /\ StateType(st) /\ PagesInv(st) /\ PlaceInv(st, cpoints) /\ CountInv
  BY DEF IndInv, Walking
<1>2. FollowInv(st, begin.edges, Ahead \cup st.pat, FALSE)
  <2>1. pc # "slab" /\ (pc = "slab") = FALSE
    BY DEF Walking
  <2>2. FollowInv(st, begin.edges, Ahead \cup (IF pc = "slab" THEN {} ELSE st.pat), pc = "slab")
    BY <1>1 DEF WalkInv
  <2> QED
    BY <2>1, <2>2
<1>3. begin.npers \in Nat /\ begin.npers + 1 =< st.npers + 1
  BY <1>1, Numbers DEF WalkInv
<1>4. RecordsInv(st, begin.recorded, (begin.pat \cap Pers) \cup (begin.npers + 1 .. st.npers), Ahead)
      /\ ClosureInv(st, cpoints) /\ ClosedInv(st, begin.npers + 1, Ahead)
      /\ at # 0 /\ within # 0
  BY <1>1 DEF WalkInv
<1>5. /\ cpoints \in Nat /\ pallocs \in Nat /\ pallocs =< MaxPallocs
      /\ at \in Nat /\ within \in Nat
      /\ st.npers = pallocs + Cardinality(Moved(st))
  BY <1>1 DEF CountInv
<1> QED
  BY <1>1, <1>2, <1>3, <1>4, <1>5 DEF Walked

(* ... and the other way round. *)
LEMMA WalkGoesOn ==
    ASSUME IndInv, ClosureStep, pc \in Walking, pc' \in Walking,
           at' \in Nat \ {0}, within' \in Nat \ {0}, st'.heap \subseteq st.heap,
           Walked(st', cpoints, pallocs, begin.npers + 1, begin.edges, begin.recorded,
                  begin.pat \cap Pers, From(st', IF pc' = "move" THEN at' ELSE 1))
    PROVE  IndInv'
<1> DEFINE A == From(st', IF pc' = "move" THEN at' ELSE 1)
<1>1. /\ mallocat' = mallocat /\ pallocs' = pallocs /\ mallocs' = mallocs /\ stores' = stores
      /\ cpoints' = cpoints /\ known' = known /\ begin' = begin
  BY DEF ClosureStep
<1>2. /\ StateType(st') /\ PagesInv(st') /\ PlaceInv(st', cpoints) /\ ClosureInv(st', cpoints)
      /\ st'.npers = pallocs + Cardinality(Moved(st'))
      /\ begin.npers + 1 =< st'.npers + 1
      /\ ClosedInv(st', begin.npers + 1, A)
      /\ FollowInv(st', begin.edges, A \cup st'.pat, FALSE)
      /\ RecordsInv(st', begin.recorded,
                    (begin.pat \cap Pers) \cup (begin.npers + 1 .. st'.npers), A)
  BY DEF Walked
<1>3. Ahead' = A
  BY DEF Ahead
<1> HIDE DEF A
<1>4. CountInv'
  BY <1>1, <1>2 DEF CountInv, IndInv, Moved
<1>5. begin.npers \in Nat
  BY WalkBegins
<1>6. WalkInv'
  <2>1. FollowInv(st', begin.edges,
                  Ahead' \cup (IF pc' = "slab" THEN {} ELSE st'.pat), pc' = "slab")
    <3>1. pc' # "slab" /\ (pc' = "slab") = FALSE
      BY DEF Walking
    <3> QED
      BY <1>2, <1>3, <3>1
  <2>2. ClosureInv(st, cpoints)'
    BY <1>1, <1>2 DEF ClosureInv
  <2>3. begin.npers \in 0 .. st'.npers
    BY <1>2, <1>5, Numbers
  <2>4. FollowInv(st, begin.edges,
                  Ahead \cup (IF pc = "slab" THEN {} ELSE st.pat), pc = "slab")'
    BY <1>1, <2>1 DEF FollowInv, Stays, LeadsTo, Who, Live, Moved
  <2>5. ClosedInv(st, begin.npers + 1, Ahead)'
    BY <1>1, <1>2, <1>3 DEF ClosedInv
  <2>6. RecordsInv(st, begin.recorded,
                   (begin.pat \cap Pers) \cup (begin.npers + 1 .. st.npers), Ahead)'
    BY <1>1, <1>2, <1>3 DEF RecordsInv, Recorded
  <2> QED
    BY <1>1, <2>2, <2>3, <2>4, <2>5, <2>6 DEF WalkInv
<1>7. st'.heap \subseteq mallocat' /\ mallocat' \subseteq st'.heap \cup DOMAIN st'.tree
  BY <1>1, <1>2 DEF IndInv, ClosureInv
<1>8. StateType(st)' /\ PagesInv(st)' /\ PlaceInv(st, cpoints)'
  BY <1>1, <1>2 DEF StateType, PagesInv, PlaceInv, Live
<1> QED
  BY <1>1, <1>4, <1>6, <1>7, <1>8 DEF IndInv, Walking

(* A checkpoint that has ended leaves what the program's calls need. *)
LEMMA WalkEnds ==
    ASSUME IndInv, ClosureStep, pc' \in {"app", "dead"}, at' \in Nat, within' \in Nat,
           StateType(st'), PagesInv(st'), PlaceInv(st', cpoints),
           st'.npers = pallocs + Cardinality(Moved(st')), st'.heap \subseteq st.heap,
           mallocat \subseteq DOMAIN st'.tree
    PROVE  IndInv'
<1>1. /\ mallocat' = mallocat /\ pallocs' = pallocs /\ mallocs' = mallocs /\ stores' = stores
      /\ cpoints' = cpoints /\ known' = known /\ begin' = begin
  BY DEF ClosureStep
<1>2. CountInv'
  BY <1>1 DEF CountInv, IndInv, Moved
<1>3. st'.heap \subseteq mallocat' /\ mallocat' \subseteq st'.heap \cup DOMAIN st'.tree
  BY <1>1 DEF IndInv
<1>4. StateType(st)' /\ PagesInv(st)' /\ PlaceInv(st, cpoints)'
  BY <1>1 DEF StateType, PagesInv, PlaceInv, Live
<1> QED
  BY <1>1, <1>2, <1>3, <1>4 DEF IndInv

(* move_volatile_allocations *)
LEMMA MovePointerKeeps ==
    ASSUME IndInv, MovePointer
    PROVE  IndInv'
<1> DEFINE l == st.pvec[at]
           s == persist_valloc(st, l)
           first == begin.npers + 1
           reg == begin.pat \cap Pers
<1>1. /\ pc = "move" /\ at <= Len(st.pvec) /\ at' = at + 1 /\ within' = within /\ ClosureStep
      /\ IF s.val[l] \in Pers \cup {NULL}
         THEN st' = slab_insert_pointer(s, l) /\ pc' = pc
         ELSE st' = s /\ pc' = "dead"
  BY DEF MovePointer
<1>2. /\ Walked(st, cpoints, pallocs, first, begin.edges, begin.recorded, reg, Ahead)
      /\ cpoints \in Nat /\ pallocs \in Nat /\ pallocs =< MaxPallocs
      /\ begin.npers \in Nat /\ at \in Nat \ {0} /\ within \in Nat \ {0}
      /\ StateType(st) /\ PagesInv(st)
  BY <1>1, WalkBegins DEF Walking
<1>3. Ahead = From(st, at)
  BY <1>1 DEF Ahead
<1>4. first \in Nat \ {0} /\ reg \subseteq Pers /\ Len(st.pvec) \in Nat /\ at =< Len(st.pvec) + 1
  BY <1>1, <1>2, Numbers
<1>5. l \in 1 .. st.npers
  <2>1. at \in 1 .. Len(st.pvec) /\ st.pvec \in Seq(1 .. st.npers)
    BY <1>1, <1>2, <1>4 DEF StateType
  <2> QED
    BY <2>1, ElementOfSeq
<1>6. /\ Walked(s, cpoints, pallocs, first, begin.edges, begin.recorded, reg, From(s, at))
      /\ st.npers =< s.npers /\ s.heap \subseteq st.heap /\ DOMAIN s.tree = DOMAIN st.tree
      /\ Len(st.pvec) =< Len(s.pvec)
      /\ \A j \in 1 .. Len(st.pvec) : s.pvec[j] = st.pvec[j]
  <2>1. Walked(st, cpoints, pallocs, first, begin.edges, begin.recorded, reg, From(st, at))
    BY <1>2, <1>3
  <2> HIDE DEF l, first, reg
  <2>2. /\ Walked(s, cpoints, pallocs, first, begin.edges, begin.recorded, reg, From(s, at))
        /\ st.npers =< s.npers /\ s.heap \subseteq st.heap /\ DOMAIN s.tree = DOMAIN st.tree
        /\ VectorGrows(st, s)
    BY <1>2, <1>4, <1>5, <2>1, PersistWalked
  <2> QED
    BY <2>2 DEF VectorGrows
<1> HIDE DEF s, first, reg
<1>7. StateType(s) /\ PagesInv(s) /\ PlaceInv(s, cpoints) /\ ClosureInv(s, cpoints)
      /\ s.npers = pallocs + Cardinality(Moved(s))
  BY <1>6 DEF Walked
<1>8. s.npers \in Nat /\ st.npers \in Nat /\ Len(s.pvec) \in Nat
  BY <1>2, <1>7, Numbers
<1>9. From(s, at) \subseteq From(s, at + 1) \cup {l}
  <2>1. s.pvec[at] = l
    BY <1>1, <1>2, <1>4, <1>6
  <2>2. \A j \in at .. Len(s.pvec) : j = at \/ j \in at + 1 .. Len(s.pvec)
    BY <1>2, <1>8
  <2> QED
    BY <2>1, <2>2 DEF From
<1>10. CASE s.val[l] \in Pers \cup {NULL}
  <2>1. st' = slab_insert_pointer(s, l) /\ pc' = "move"
    BY <1>1, <1>10
  <2>2. l \in 1 .. s.npers
    BY <1>5, <1>6, <1>8
  <2> HIDE DEF l
  <2>3. /\ SameMemory(s, st')
        /\ Walked(st', cpoints, pallocs, first, begin.edges, begin.recorded, reg,
                  From(s, at + 1))
    BY <1>2, <1>4, <1>6, <1>9, <1>10, <2>1, <2>2, InsertWalked
  <2>4. From(st', at') = From(s, at + 1) /\ st'.heap \subseteq st.heap
    BY <1>1, <1>6, <2>3 DEF From, SameMemory
  <2>5. at' \in Nat \ {0} /\ within' \in Nat \ {0} /\ pc \in Walking /\ pc' \in Walking
    BY <1>1, <1>2, <2>1 DEF Walking
  <2>6. Walked(st', cpoints, pallocs, begin.npers + 1, begin.edges, begin.recorded,
               begin.pat \cap Pers, From(st', IF pc' = "move" THEN at' ELSE 1))
    BY <2>1, <2>3, <2>4 DEF first, reg
  <2> QED
    BY <1>1, <2>4, <2>5, <2>6, WalkGoesOn
<1>11. CASE ~(s.val[l] \in Pers \cup {NULL})
  <2>1. st' = s /\ pc' = "dead"
    BY <1>1, <1>11
  <2>2. at' \in Nat /\ within' \in Nat /\ mallocat \subseteq DOMAIN st'.tree
    BY <1>1, <1>2, <1>7, <2>1 DEF ClosureInv
  <2> QED
    BY <1>1, <1>6, <1>7, <2>1, <2>2, WalkEnds
<1> QED
  BY <1>10, <1>11

(* A record is of an object of the container. *)
LEMMA RecordAt ==
    ASSUME NEW s, PagesInv(s), NEW e \in Entries, NEW i \in 1 .. s.ptr[e].idx
    PROVE  s.tabs[s.ptr[e].cm][i].loc \in 1 .. s.npers
<1> DEFINE c == s.ptr[e].cm
           T == s.tabs[c]
<1>1. s.tabs \in Seq(Seq(RecordsOf(s.npers))) /\ PtrPageOK(s, e) /\ s.ptr[e] \in PtrPage
  BY PagesParts
<1>2. Len(s.tabs) \in Nat /\ s.ptr[e].idx \in Nat
  BY <1>1, LenProperties DEF PtrPage
<1>3. c \in 1 .. Len(s.tabs) /\ s.ptr[e].idx =< Len(T)
  BY <1>1, <1>2 DEF PtrPageOK
<1>4. T \in Seq(RecordsOf(s.npers))
  BY <1>1, <1>3, ElementOfSeq
<1>5. Len(T) \in Nat
  BY <1>4, LenProperties
<1>6. i \in 1 .. Len(T)
  BY <1>2, <1>3, <1>5
<1>7. T[i] \in RecordsOf(s.npers)
  BY <1>4, <1>6, ElementOfSeq
<1> QED
  BY <1>7 DEF RecordsOf

(* The same pointers in the container and the same pages, the same records *)
LEMMA RecordsSame ==
    ASSUME NEW s, NEW t, NEW recorded, NEW registered, NEW ahead, PagesInv(s),
           t.ptr = s.ptr, t.tabs = s.tabs, \A l \in 1 .. s.npers : t.val[l] = s.val[l],
           RecordsInv(s, recorded, registered, ahead)
    PROVE  RecordsInv(t, recorded, registered, ahead)
<1>1. ASSUME NEW e \in Entries \ recorded
      PROVE  /\ t.ptr[e].sm = 0
             /\ \A i \in 1 .. t.ptr[e].idx :
                   LET r == t.tabs[t.ptr[e].cm][i]
                   IN  r.val = t.val[r.loc] /\ r.val \in Pers \cup {NULL}
  <2>1. /\ s.ptr[e].sm = 0
        /\ \A i \in 1 .. s.ptr[e].idx :
              LET r == s.tabs[s.ptr[e].cm][i]
              IN  r.val = s.val[r.loc] /\ r.val \in Pers \cup {NULL}
    BY DEF RecordsInv
  <2> SUFFICES ASSUME NEW i \in 1 .. s.ptr[e].idx
               PROVE  LET r == s.tabs[s.ptr[e].cm][i]
                      IN  r.val = t.val[r.loc] /\ r.val \in Pers \cup {NULL}
    BY <2>1, Zenon
  <2> DEFINE r == s.tabs[s.ptr[e].cm][i]
  <2>2. r.loc \in 1 .. s.npers
    BY RecordAt
  <2>3. r.val = s.val[r.loc] /\ r.val \in Pers \cup {NULL}
    BY <2>1
  <2> HIDE DEF r
  <2>4. r.val = t.val[r.loc] /\ r.val \in Pers \cup {NULL}
    BY <2>2, <2>3
  <2> QED
    BY <2>4 DEF r
<1>2. \A e : Recorded(t, e) = Recorded(s, e)
  BY Zenon DEF Recorded
<1> QED
  BY <1>1, <1>2 DEF RecordsInv

(* VECTOR_FREE: nothing waits when the walk is over. *)
LEMMA FreePointerVectorKeeps ==
    ASSUME IndInv, FreePointerVector
    PROVE  IndInv'
<1> DEFINE first == begin.npers + 1
           reg == begin.pat \cap Pers
<1>1. /\ pc = "move" /\ at > Len(st.pvec) /\ at' = 1 /\ within' = 1 /\ ClosureStep
      /\ st' = [st EXCEPT !.pvec = <<>>] /\ pc' = "dirty"
  BY DEF FreePointerVector
<1>2. /\ Walked(st, cpoints, pallocs, first, begin.edges, begin.recorded, reg, Ahead)
      /\ at \in Nat \ {0} /\ StateType(st) /\ PagesInv(st)
  BY <1>1, WalkBegins DEF Walking
<1> HIDE DEF first, reg
<1>3. Len(st.pvec) \in Nat
  BY <1>2, Numbers
<1>4. Ahead = {}
  BY <1>1, <1>2, <1>3 DEF Ahead, From
<1>5. /\ DOMAIN st' = StFields /\ st'.val = st.val /\ st'.pvec = <<>>
      /\ st'.heap = st.heap /\ st'.tree = st.tree
      /\ st'.pat = st.pat /\ st'.npers = st.npers /\ st'.ident = st.ident
      /\ st'.copied = st.copied /\ st'.hasSnap = st.hasSnap /\ st'.writable = st.writable
      /\ st'.dirty = st.dirty /\ st'.tabs = st.tabs /\ st'.ptr = st.ptr /\ st'.freed = st.freed
  BY <1>1, <1>2 DEF StateType, StFields
<1>6. <<>> \in Seq(1 .. st.npers) /\ Len(<<>>) = 0
  BY EmptySeq
<1>7. StateType(st') /\ PagesInv(st')
  BY <1>2, <1>5, <1>6 DEF StateType, PagesInv
<1>8. From(st', 1) = {}
  BY <1>5, <1>6 DEF From
<1>9. Live(st') = Live(st) /\ Moved(st') = Moved(st) /\ \A v : Who(st', v) = Who(st, v)
  BY <1>5 DEF Live, Moved, Who
<1>10. PlaceInv(st', cpoints) /\ ClosureInv(st', cpoints)
  BY <1>2, <1>5, <1>9 DEF PlaceInv, ClosureInv, Walked
<1>11. ClosedInv(st', first, {})
  BY <1>2, <1>4, <1>5 DEF ClosedInv, Walked
<1>12. RecordsInv(st', begin.recorded, reg \cup (first .. st'.npers), {})
  <2> DEFINE G == reg \cup (first .. st.npers)
  <2>1. RecordsInv(st, begin.recorded, G, {})
    BY <1>2, <1>4 DEF Walked
  <2> HIDE DEF G
  <2>2. RecordsInv(st', begin.recorded, G, {})
    BY <1>2, <1>5, <2>1, RecordsSame
  <2> QED
    BY <1>5, <2>2 DEF G
<1>13. FollowInv(st', begin.edges, {} \cup st'.pat, FALSE)
  <2>1. \A l, o : LeadsTo(st', l, o) <=> LeadsTo(st, l, o)
    BY <1>5, <1>9 DEF LeadsTo
  <2>2. \A o : Stays(st', o, FALSE) <=> Stays(st, o, FALSE)
    BY <1>5, <1>9 DEF Stays
  <2>3. FollowInv(st, begin.edges, {} \cup st.pat, FALSE)
    BY <1>2, <1>4 DEF Walked
  <2> QED
    BY <1>5, <1>9, <2>1, <2>2, <2>3 DEF FollowInv
<1>14. Walked(st', cpoints, pallocs, first, begin.edges, begin.recorded, reg, {})
  BY <1>2, <1>5, <1>7, <1>9, <1>10, <1>11, <1>12, <1>13 DEF Walked
<1> QED
  BY <1>1, <1>5, <1>8, <1>14, WalkGoesOn, SMTT(30) DEF Walking, first, reg

(* The walk of dirty entries: what it moves waits on the vector. *)
LEMMA MoveDirtyKeeps ==
    ASSUME IndInv, MoveDirty
    PROVE  IndInv'
<1> DEFINE e == st.dirty[at]
           l == st.tabs[st.ptr[e].cm][within].loc
           s == persist_valloc(st, l)
           first == begin.npers + 1
           reg == begin.pat \cap Pers
<1>1. /\ pc = "dirty" /\ at <= Len(st.dirty) /\ pc' = pc /\ ClosureStep
      /\ IF within > st.ptr[e].idx
         THEN at' = at + 1 /\ within' = 1 /\ st' = st
         ELSE st' = s /\ within' = within + 1 /\ at' = at
  BY DEF MoveDirty
<1>2. /\ Walked(st, cpoints, pallocs, first, begin.edges, begin.recorded, reg, Ahead)
      /\ cpoints \in Nat /\ pallocs \in Nat /\ pallocs =< MaxPallocs
      /\ begin.npers \in Nat /\ at \in Nat \ {0} /\ within \in Nat \ {0}
      /\ StateType(st) /\ PagesInv(st)
  BY <1>1, WalkBegins DEF Walking
<1>3. Ahead = From(st, 1)
  BY <1>1 DEF Ahead
<1>4. first \in Nat \ {0} /\ reg \subseteq Pers /\ Len(st.pvec) \in Nat /\ 1 =< Len(st.pvec) + 1
  BY <1>1, <1>2, Numbers, SMTT(30)
<1>5. pc \in Walking /\ pc' \in Walking /\ pc' # "move"
  BY <1>1 DEF Walking
<1>6. CASE within > st.ptr[e].idx
  <2>1. at' = at + 1 /\ within' = 1 /\ st' = st
    BY <1>1, <1>6
  <2>2. Walked(st', cpoints, pallocs, first, begin.edges, begin.recorded, reg,
               From(st', IF pc' = "move" THEN at' ELSE 1))
    BY <1>2, <1>3, <1>5, <2>1
  <2> QED
    BY <1>1, <1>2, <1>5, <2>1, <2>2, WalkGoesOn
<1>7. CASE ~(within > st.ptr[e].idx)
  <2>1. st' = s /\ within' = within + 1 /\ at' = at
    BY <1>1, <1>7
  <2>2. e \in Entries
    <3>1. st.dirty \in Seq(Entries) /\ Len(st.dirty) \in Nat
      BY <1>2, LenProperties DEF StateType
    <3>2. at \in 1 .. Len(st.dirty)
      BY <1>1, <1>2, <3>1
    <3> QED
      BY <3>1, <3>2, ElementOfSeq
  <2>3. within \in 1 .. st.ptr[e].idx
    <3>1. st.ptr[e].idx \in Nat
      BY <1>2, <2>2, PagesParts DEF PtrPage
    <3> QED
      BY <1>2, <1>7, <3>1
  <2> HIDE DEF e
  <2>4. l \in 1 .. st.npers
    BY <1>2, <2>2, <2>3, RecordAt
  <2>5. /\ Walked(s, cpoints, pallocs, first, begin.edges, begin.recorded, reg, From(s, 1))
        /\ s.heap \subseteq st.heap
    <3> DEFINE i == 1
    <3>1. /\ Walked(st, cpoints, pallocs, first, begin.edges, begin.recorded, reg, From(st, i))
          /\ i \in Nat \ {0} /\ i =< Len(st.pvec) + 1
      BY <1>2, <1>3, <1>4
    <3> HIDE DEF l, first, reg, i
    <3>2. /\ Walked(s, cpoints, pallocs, first, begin.edges, begin.recorded, reg, From(s, i))
          /\ s.heap \subseteq st.heap
      BY <1>2, <1>4, <2>4, <3>1, PersistWalked
    <3> QED
      BY <3>2 DEF i
  <2> HIDE DEF s
  <2>6. Walked(st', cpoints, pallocs, first, begin.edges, begin.recorded, reg,
               From(st', IF pc' = "move" THEN at' ELSE 1))
    BY <1>5, <2>1, <2>5
  <2>7. at' \in Nat \ {0} /\ within' \in Nat \ {0} /\ st'.heap \subseteq st.heap
    BY <1>2, <2>1, <2>5
  <2> QED
    BY <1>1, <1>5, <2>6, <2>7, WalkGoesOn
<1> QED
  BY <1>6, <1>7

(* The end of the walk of dirty entries *)
LEMMA DirtyDoneKeeps ==
    ASSUME IndInv, DirtyDone
    PROVE  IndInv'
<1>1. pc = "dirty" /\ pc' = "fix" /\ st' = st /\ at' = at /\ within' = within /\ ClosureStep
  BY DEF DirtyDone
<1>2. /\ Walked(st, cpoints, pallocs, begin.npers + 1, begin.edges, begin.recorded,
                begin.pat \cap Pers, Ahead)
      /\ at \in Nat \ {0} /\ within \in Nat \ {0}
  BY <1>1, WalkBegins DEF Walking
<1>3. Ahead = From(st', IF pc' = "move" THEN at' ELSE 1)
  BY <1>1 DEF Ahead
<1>4. Walked(st', cpoints, pallocs, begin.npers + 1, begin.edges, begin.recorded,
             begin.pat \cap Pers, From(st', IF pc' = "move" THEN at' ELSE 1))
  BY <1>1, <1>2, <1>3
<1> QED
  BY <1>1, <1>2, <1>4, WalkGoesOn DEF Walking

(* fix_back_references: a pointer outside of the container follows its     *)
(* target, or loses it when the target was not moved.                      *)
LEMMA FixBackReferencesKeeps ==
    ASSUME IndInv, FixBackReferences
    PROVE  IndInv'
<1> DEFINE first == begin.npers + 1
           reg == begin.pat \cap Pers
           Rebased(t) == IF st.tree[t].paddr = 0 THEN NULL ELSE st.tree[t].paddr
           V == [l \in Loc |-> IF l \in st.pat /\ st.val[l] \in DOMAIN st.tree
                               THEN Rebased(st.val[l]) ELSE st.val[l]]
<1>1. /\ pc = "fix" /\ pc' = "slab" /\ at' = at /\ within' = within /\ ClosureStep
      /\ st' = [st EXCEPT !.val = V]
  BY DEF FixBackReferences, fix_back_references
<1>2. /\ Walked(st, cpoints, pallocs, first, begin.edges, begin.recorded, reg, Ahead)
      /\ cpoints \in Nat /\ begin.npers \in Nat /\ at \in Nat \ {0} /\ within \in Nat \ {0}
      /\ StateType(st) /\ PagesInv(st)
  BY <1>1, WalkBegins DEF Walking
<1>3. /\ PlaceInv(st, cpoints) /\ ClosureInv(st, cpoints)
      /\ first =< st.npers + 1 /\ ClosedInv(st, first, Ahead)
      /\ FollowInv(st, begin.edges, Ahead \cup st.pat, FALSE)
      /\ RecordsInv(st, begin.recorded, reg \cup (first .. st.npers), Ahead)
  BY <1>2 DEF Walked
<1>4. \A l \in Loc : \/ V[l] = st.val[l] /\ (l \in st.pat => st.val[l] \notin DOMAIN st.tree)
                     \/ /\ l \in st.pat /\ st.val[l] \in DOMAIN st.tree
                        /\ V[l] = Rebased(st.val[l])
  OBVIOUS
<1>5. \A a \in DOMAIN st.tree : \/ st.tree[a].paddr = 0 /\ Rebased(a) = NULL
                                \/ a \in Moved(st) /\ Rebased(a) = st.tree[a].paddr
                                   /\ Rebased(a) \in 1 .. st.npers
  BY <1>2 DEF StateType, Moved
<1>6. \A l \in Loc : V[l] \in Loc \cup {NULL}
  <2>1. \A a \in DOMAIN st.tree : Rebased(a) \in Loc \cup {NULL}
    BY <1>2, <1>5, Numbers
  <2>2. \A l \in Loc : st.val[l] \in Loc \cup {NULL}
    BY <1>2 DEF StateType
  <2> HIDE DEF Rebased, V
  <2> QED
    BY <1>4, <2>1, <2>2
<1>7. V \in [Loc -> Loc \cup {NULL}]
  BY <1>6
<1> HIDE DEF V, Rebased, first, reg
<1>8. /\ DOMAIN st' = StFields /\ st'.val = V /\ st'.pvec = st.pvec
      /\ st'.heap = st.heap /\ st'.tree = st.tree
      /\ st'.pat = st.pat /\ st'.npers = st.npers /\ st'.ident = st.ident
      /\ st'.copied = st.copied /\ st'.hasSnap = st.hasSnap /\ st'.writable = st.writable
      /\ st'.dirty = st.dirty /\ st'.tabs = st.tabs /\ st'.ptr = st.ptr /\ st'.freed = st.freed
  BY <1>1, <1>2 DEF StateType, StFields
<1>9. StateType(st') /\ PagesInv(st')
  BY <1>2, <1>7, <1>8 DEF StateType, PagesInv
<1>10. Live(st') = Live(st) /\ Moved(st') = Moved(st) /\ \A v : Who(st', v) = Who(st, v)
  BY <1>8 DEF Live, Moved, Who
<1>11. \A l \in Pers : V[l] = st.val[l]
  <2>1. \A l \in Pers : l \in Loc /\ l \notin st.pat
    BY <1>3, Addresses DEF ClosureInv
  <2> QED
    BY <1>4, <2>1
<1>12. ClosedInv(st', first, Ahead)
  <2>1. first \in Nat \ {0}
    BY <1>2 DEF first
  <2>2. first .. st.npers \subseteq Pers
    BY <1>2, <2>1, Numbers
  <2> QED
    BY <1>3, <1>8, <1>11, <2>2 DEF ClosedInv
<1>13. RecordsInv(st', begin.recorded, reg \cup (first .. st'.npers), Ahead)
  <2>1. \A l \in 1 .. st.npers : st'.val[l] = st.val[l]
    BY <1>2, <1>8, <1>11, Numbers
  <2> DEFINE G == reg \cup (first .. st.npers)
  <2>2. RecordsInv(st, begin.recorded, G, Ahead)
    BY <1>3
  <2> HIDE DEF G
  <2>3. RecordsInv(st', begin.recorded, G, Ahead)
    BY <1>2, <1>8, <2>1, <2>2, RecordsSame
  <2> QED
    BY <1>8, <2>3 DEF G
<1>14. FollowInv(st', begin.edges, Ahead, TRUE)
  <2> SUFFICES ASSUME NEW x \in begin.edges, x[2] # NULL, ~Stays(st', x[2], TRUE)
               PROVE  \E l \in Live(st') \cup Globals :
                         /\ Who(st', l) = x[1] /\ LeadsTo(st', l, x[2])
                         /\ st'.val[l] \in Vol => l \in Ahead
    BY DEF FollowInv
  <2>1. \A a \in st.heap : st.ident[a] # x[2]
    BY <1>8 DEF Stays
  <2>2. ~Stays(st, x[2], FALSE)
    BY <2>1 DEF Stays
  <2>3. PICK l \in Live(st) \cup Globals :
           /\ Who(st, l) = x[1] /\ LeadsTo(st, l, x[2])
           /\ st.val[l] \in Vol => l \in Ahead \cup st.pat
    BY <1>3, <2>2 DEF FollowInv
  <2> DEFINE v == st.val[l]
  <2>4. l \in Loc /\ v \in Loc \cup {NULL} /\ DOMAIN st.tree \subseteq Vol /\ st.heap \subseteq Vol
        /\ st.heap \subseteq DOMAIN st.tree
    <3>1. l \in Loc
      BY <1>2, <2>3, Numbers, Addresses DEF Live, StateType
    <3>2. st.heap \subseteq DOMAIN st.tree
      BY <1>3 DEF IndInv, ClosureInv
    <3> QED
      BY <1>2, <3>1, <3>2 DEF StateType
  <2>5. v \in Vol => v \in Moved(st) /\ st.ident[st.tree[v].paddr] = x[2]
    <3> SUFFICES ASSUME v \in Vol, Who(st, v) = x[2] PROVE FALSE
      BY <2>3 DEF LeadsTo
    <3>1. v \notin 1 .. st.npers /\ v \notin Globals
      BY <1>2, Numbers, Addresses
    <3>2. v \in st.heap /\ st.ident[v] = x[2]
      BY <3>1 DEF Who, Live
    <3> QED
      BY <2>1, <3>2
  <2>6. CASE l \in st.pat /\ v \in DOMAIN st.tree
    <3>1. v \in Moved(st) /\ st.ident[st.tree[v].paddr] = x[2] /\ st.tree[v].paddr # 0
      BY <2>4, <2>5, <2>6 DEF Moved
    <3> DEFINE q == st.tree[v].paddr
    <3>2. V[l] = q /\ q \in 1 .. st.npers
      BY <1>4, <1>5, <2>4, <2>6, <3>1
    <3>3. Who(st, q) = x[2] /\ q \notin Vol
      BY <1>2, <3>1, <3>2, Numbers, Addresses DEF Who, Live
    <3> QED
      BY <1>8, <1>10, <2>3, <3>2, <3>3 DEF LeadsTo
  <2>7. CASE ~(l \in st.pat /\ v \in DOMAIN st.tree)
    <3>1. V[l] = v
      BY <1>4, <2>4, <2>7
    <3>2. LeadsTo(st', l, x[2])
      BY <1>8, <1>10, <2>3, <3>1 DEF LeadsTo
    <3>3. v \in Vol => l \in Ahead
      BY <2>3, <2>5, <2>7 DEF Moved
    <3> QED
      BY <1>8, <1>10, <2>3, <3>1, <3>2, <3>3
  <2> QED
    BY <2>6, <2>7
<1>15. PlaceInv(st', cpoints) /\ ClosureInv(st', cpoints)
  BY <1>3, <1>8, <1>10 DEF PlaceInv, ClosureInv
<1>16. /\ mallocat' = mallocat /\ pallocs' = pallocs /\ mallocs' = mallocs /\ stores' = stores
       /\ cpoints' = cpoints /\ known' = known /\ begin' = begin
  BY <1>1 DEF ClosureStep
<1>17. Ahead' = Ahead
  BY <1>1, <1>8 DEF Ahead, From
<1>18. WalkInv'
  <2>1. ClosureInv(st, cpoints)'
    BY <1>15, <1>16 DEF ClosureInv
  <2>2. begin'.npers \in 0 .. st'.npers
    BY <1>2, <1>3, <1>8, <1>16, Numbers DEF first
  <2>3. ClosedInv(st, begin.npers + 1, Ahead)'
    BY <1>12, <1>16, <1>17 DEF ClosedInv, first
  <2>4. FollowInv(st, begin.edges,
                  Ahead \cup (IF pc = "slab" THEN {} ELSE st.pat), pc = "slab")'
    <3>1. Ahead' \cup (IF pc' = "slab" THEN {} ELSE st'.pat) = Ahead /\ (pc' = "slab") = TRUE
      BY <1>1, <1>17
    <3> QED
      BY <1>14, <1>16, <3>1 DEF FollowInv, Stays, LeadsTo, Who, Live, Moved
  <2>5. RecordsInv(st, begin.recorded,
                   (begin.pat \cap Pers) \cup (begin.npers + 1 .. st.npers), Ahead)'
    BY <1>13, <1>16, <1>17 DEF RecordsInv, Recorded, first, reg
  <2> QED
    BY <1>1, <1>2, <2>1, <2>2, <2>3, <2>4, <2>5 DEF WalkInv
<1>19. CountInv'
  BY <1>1, <1>8, <1>10, <1>16 DEF CountInv, IndInv, Moved
<1>20. st'.heap \subseteq mallocat' /\ mallocat' \subseteq st'.heap \cup DOMAIN st'.tree
  BY <1>8, <1>16 DEF IndInv
<1>21. StateType(st)' /\ PagesInv(st)' /\ PlaceInv(st, cpoints)'
  BY <1>9, <1>15, <1>16 DEF StateType, PagesInv, PlaceInv, Live
<1> QED
  BY <1>1, <1>16, <1>18, <1>19, <1>20, <1>21 DEF IndInv

(* The slab's part of the checkpoint *)
LEMMA SlabCpointStepKeeps ==
    ASSUME IndInv, SlabCpoint
    PROVE  IndInv'
<1>1. /\ pc = "slab" /\ st' = slab_cpoint(st) /\ pc' = "app" /\ at' = 0 /\ within' = 0
      /\ ClosureStep
  BY DEF SlabCpoint
<1>2. StateType(st) /\ PagesInv(st) /\ PlaceInv(st, cpoints) /\ ClosureInv(st, cpoints)
      /\ st.npers = pallocs + Cardinality(Moved(st))
  BY <1>1 DEF IndInv, WalkInv, CountInv
<1>3. StateType(st') /\ PagesInv(st') /\ SameMemory(st, st')
  BY <1>1, <1>2, SlabCpointKeeps
<1>4. Live(st') = Live(st) /\ Moved(st') = Moved(st)
  BY <1>3 DEF Live, Moved, SameMemory
<1>5. PlaceInv(st', cpoints)
  BY <1>2, <1>3, <1>4 DEF PlaceInv, SameMemory
<1>6. /\ st'.npers = pallocs + Cardinality(Moved(st')) /\ st'.heap \subseteq st.heap
      /\ mallocat \subseteq DOMAIN st'.tree
  BY <1>2, <1>3, <1>4 DEF SameMemory, ClosureInv
<1> QED
  BY <1>1, <1>3, <1>5, <1>6, WalkEnds

(* The hash order of the registered pointers has each of them. *)
LEMMA OrderOnto ==
    ASSUME NEW S, IsFiniteSet(S), NEW f \in SetToSeqs(S)
    PROVE  f \in Seq(S) /\ \A x \in S : \E i \in 1 .. Len(f) : f[i] = x
<1> DEFINE n == Cardinality(S)
<1>1. n \in Nat
  BY FS_CardinalityType
<1>2. f \in [1 .. n -> S] /\ \A i, j \in 1 .. n : i # j => f[i] # f[j]
  BY DEF SetToSeqs
<1>3. f \in Seq(S)
  BY <1>1, <1>2, SeqDef
<1>4. Len(f) = n
  BY <1>1, <1>2, <1>3, LenProperties
<1>5. ASSUME NEW x \in S, \A i \in 1 .. n : f[i] # x PROVE FALSE
  <2>1. IsFiniteSet(S \ {x}) /\ Cardinality(S \ {x}) = n - 1
    BY FS_RemoveElement
  <2>2. IsFiniteSet(1 .. n) /\ Cardinality(1 .. n) = n
    BY <1>1, FS_Interval
  <2>3. f \in [1 .. n -> S \ {x}]
    BY <1>2, <1>5
  <2>4. Cardinality(S \ {x}) < Cardinality(1 .. n)
    BY <1>1, <2>1, <2>2
  <2>5. \E i, j \in 1 .. n : i # j /\ f[i] = f[j]
    <3> DEFINE K == 1 .. n
               T == S \ {x}
    <3>1. IsFiniteSet(K) /\ IsFiniteSet(T) /\ Cardinality(T) < Cardinality(K) /\ f \in [K -> T]
      BY <2>1, <2>2, <2>3, <2>4
    <3> HIDE DEF K, T
    <3>2. \E i, j \in K : i # j /\ f[i] = f[j]
      BY <3>1, FS_PigeonHole
    <3> QED
      BY <3>2 DEF K
  <2> QED
    BY <1>2, <2>5
<1> QED
  BY <1>3, <1>4, <1>5

(* The trees of build_mallocat_tree and of classify_pointers *)
BuiltTree(B, M) ==
    [a \in DOMAIN B \cup M |-> IF a \in DOMAIN B THEN B[a] ELSE [paddr |-> 0, ptrs |-> <<>>]]
ClassifiedTree(C, P) ==
    [a \in DOMAIN C |-> IF a \in P THEN [C[a] EXCEPT !.ptrs = Append(@, a)] ELSE C[a]]

(* The entries of a tree over n objects of the container *)
TreeOf(B, n) ==
    /\ DOMAIN B \subseteq Vol
    /\ \A a \in DOMAIN B : B[a] \in [paddr : {0} \cup 1 .. n, ptrs : Seq({a})]

(* Tree D has an entry for every allocation of M and every one of B, which *)
(* keeps its address, with its pointer if that is in P.                    *)
Classifies(D, B, M, P, n) ==
    /\ DOMAIN D = DOMAIN B \cup M
    /\ \A a \in DOMAIN D :
          /\ D[a] \in [paddr : {0} \cup 1 .. n, ptrs : Seq({a})]
          /\ D[a].paddr = IF a \in DOMAIN B THEN B[a].paddr ELSE 0
          /\ a \in P => D[a].ptrs # <<>>

(* The tree after classify_pointers *)
LEMMA ClassifiedEntries ==
    ASSUME NEW P, NEW M, M \subseteq Vol, NEW n \in Nat, NEW B, TreeOf(B, n)
    PROVE  Classifies(ClassifiedTree(BuiltTree(B, M), P), B, M, P, n)
<1> DEFINE C == [a \in DOMAIN B \cup M |->
                    IF a \in DOMAIN B THEN B[a] ELSE [paddr |-> 0, ptrs |-> <<>>]]
           E(a) == [C[a] EXCEPT !.ptrs = Append(@, a)]
           D == [a \in DOMAIN C |-> IF a \in P THEN E(a) ELSE C[a]]
<1>1. DOMAIN C = DOMAIN B \cup M /\ DOMAIN D = DOMAIN C
  OBVIOUS
<1>2. ASSUME NEW a \in DOMAIN C
      PROVE  /\ C[a] \in [paddr : {0} \cup 1 .. n, ptrs : Seq({a})]
             /\ C[a].paddr = IF a \in DOMAIN B THEN B[a].paddr ELSE 0
  <2>1. CASE a \in DOMAIN B
    BY <2>1 DEF TreeOf
  <2>2. CASE a \notin DOMAIN B
    <3>1. C[a] = [paddr |-> 0, ptrs |-> <<>>]
      BY <2>2
    <3>2. <<>> \in Seq({a})
      BY EmptySeq
    <3> HIDE DEF C
    <3> QED
      BY <2>2, <3>1, <3>2
  <2> QED
    BY <2>1, <2>2
<1> HIDE DEF C
<1>3. ASSUME NEW a \in DOMAIN C
      PROVE  /\ E(a) \in [paddr : {0} \cup 1 .. n, ptrs : Seq({a})]
             /\ E(a).paddr = C[a].paddr /\ E(a).ptrs # <<>>
  <2> DEFINE q == C[a].ptrs
  <2>1. C[a] \in [paddr : {0} \cup 1 .. n, ptrs : Seq({a})]
    BY <1>2
  <2>2. q \in Seq({a})
    BY <2>1
  <2>3. Append(q, a) \in Seq({a}) /\ Len(q) \in Nat /\ Len(Append(q, a)) = Len(q) + 1
    BY <2>2, Appended
  <2>4. Append(q, a) # <<>>
    BY <2>3, EmptySeq
  <2>5. E(a) = [C[a] EXCEPT !.ptrs = Append(q, a)]
    OBVIOUS
  <2> HIDE DEF q, E
  <2> QED
    BY <2>1, <2>3, <2>4, <2>5
<1> HIDE DEF E
<1>4. ASSUME NEW a \in DOMAIN D
      PROVE  /\ D[a] \in [paddr : {0} \cup 1 .. n, ptrs : Seq({a})]
             /\ D[a].paddr = IF a \in DOMAIN B THEN B[a].paddr ELSE 0
             /\ a \in P => D[a].ptrs # <<>>
  <2>1. a \in DOMAIN C /\ D[a] = IF a \in P THEN E(a) ELSE C[a]
    OBVIOUS
  <2> HIDE DEF D
  <2>2. CASE a \in P
    BY <1>2, <1>3, <2>1, <2>2
  <2>3. CASE a \notin P
    BY <1>2, <2>1, <2>3
  <2> QED
    BY <2>2, <2>3
<1>5. ClassifiedTree(BuiltTree(B, M), P) = D
  BY Zenon DEF ClassifiedTree, BuiltTree, C, E
<1> HIDE DEF D
<1> QED
  BY <1>1, <1>4, <1>5 DEF Classifies

(* The begin of a checkpoint: every registered pointer of the container    *)
(* waits, and every registered pointer is where it was.                    *)
LEMMA CpointBegins ==
    ASSUME IndInv, container_cpoint
    PROVE  IndInv'
<1>1. PICK order \in SetToSeqs(st.pat \cap Pers) :
         st' = classify_pointers([st EXCEPT !.tree = build_mallocat_tree], order)
  BY DEF container_cpoint
<1>2. /\ pc = "app" /\ cpoints' = cpoints + 1
      /\ begin' = [npers |-> st.npers, pat |-> st.pat, edges |-> Edges(st, st.pat),
                   recorded |-> {e \in Entries : st.ptr[e].idx # 0 \/ st.ptr[e].sm # 0}]
      /\ pc' = "move" /\ at' = 1 /\ within' = 1
      /\ mallocat' = mallocat /\ pallocs' = pallocs /\ mallocs' = mallocs
      /\ stores' = stores /\ known' = known
  BY DEF container_cpoint
<1>3. /\ StateType(st) /\ PagesInv(st) /\ CountInv /\ PlaceInv(st, cpoints)
      /\ st.heap \subseteq mallocat /\ mallocat \subseteq st.heap \cup DOMAIN st.tree
      /\ mallocat \subseteq Vol /\ known \subseteq Loc
  BY DEF IndInv
<1>4. /\ begin'.npers = st.npers /\ begin'.pat = st.pat
      /\ begin'.edges = {<<Who(st, l), Who(st, st.val[l])>> : l \in st.pat}
      /\ begin'.recorded = {e \in Entries : st.ptr[e].idx # 0 \/ st.ptr[e].sm # 0}
  BY <1>2 DEF Edges
<1>5. /\ cpoints \in Nat /\ pallocs \in Nat /\ mallocs \in Nat /\ stores \in Nat
      /\ pallocs =< MaxPallocs /\ st.npers = pallocs + Cardinality(Moved(st))
  BY <1>3 DEF CountInv
<1> DEFINE B == st.tree
           C == BuiltTree(B, mallocat)
           D == ClassifiedTree(C, st.pat)
           u == [st EXCEPT !.tree = C]
<1>6. u = [st EXCEPT !.tree = build_mallocat_tree]
  BY DEF build_mallocat_tree, BuiltTree
<1>7. /\ DOMAIN u = StFields /\ u.tree = C /\ u.val = st.val /\ u.heap = st.heap
      /\ u.pvec = st.pvec /\ u.pat = st.pat /\ u.npers = st.npers /\ u.ident = st.ident
      /\ u.copied = st.copied /\ u.hasSnap = st.hasSnap /\ u.writable = st.writable
      /\ u.dirty = st.dirty /\ u.tabs = st.tabs /\ u.ptr = st.ptr /\ u.freed = st.freed
  <2> HIDE DEF C
  <2> QED
    BY <1>3 DEF StateType, StFields
<1>8. st' = [u EXCEPT !.tree = D, !.pvec = @ \o order, !.pat = @ \ Pers]
  <2>1. st' = classify_pointers(u, order)
    BY <1>1, <1>6
  <2>2. D = ClassifiedTree(u.tree, u.pat)
    BY <1>7
  <2> HIDE DEF u, C, D
  <2>3. classify_pointers(u, order) =
           [u EXCEPT !.tree = ClassifiedTree(u.tree, u.pat), !.pvec = @ \o order, !.pat = @ \ Pers]
    BY Zenon DEF classify_pointers, ClassifiedTree
  <2> QED
    BY <2>1, <2>2, <2>3
<1>9. /\ DOMAIN D = DOMAIN B \cup mallocat
      /\ \A a \in DOMAIN D :
            /\ D[a] \in [paddr : {0} \cup 1 .. st.npers, ptrs : Seq({a})]
            /\ D[a].paddr = IF a \in DOMAIN B THEN B[a].paddr ELSE 0
            /\ a \in st.pat => D[a].ptrs # <<>>
  <2>1. st.npers \in Nat /\ TreeOf(B, st.npers)
    BY <1>3, Numbers DEF StateType, TreeOf
  <2> HIDE DEF B
  <2>2. Classifies(D, B, mallocat, st.pat, st.npers)
    BY <1>3, <2>1, ClassifiedEntries
  <2> HIDE DEF D
  <2> QED
    BY <2>2 DEF Classifies
<1> HIDE DEF B, C, D, u
<1>10. /\ DOMAIN st' = StFields /\ st'.tree = D /\ st'.val = st.val /\ st'.heap = st.heap
       /\ st'.pvec = st.pvec \o order /\ st'.pat = st.pat \ Pers
       /\ st'.npers = st.npers /\ st'.ident = st.ident
       /\ st'.copied = st.copied /\ st'.hasSnap = st.hasSnap /\ st'.writable = st.writable
       /\ st'.dirty = st.dirty /\ st'.tabs = st.tabs /\ st'.ptr = st.ptr /\ st'.freed = st.freed
  BY <1>7, <1>8 DEF StFields
<1>11. st.pat \cap Pers \subseteq 1 .. st.npers
  <2>1. st.pat \subseteq Live(st) \cup Globals /\ st.heap \subseteq Vol
    BY <1>3 DEF PlaceInv, StateType
  <2> QED
    BY <2>1, Addresses DEF Live
<1>12. /\ order \in Seq(st.pat \cap Pers) /\ Len(order) \in Nat
       /\ \A x \in st.pat \cap Pers : \E i \in 1 .. Len(order) : order[i] = x
  <2> DEFINE S == st.pat \cap Pers
  <2>1. IsFiniteSet(Pers)
    BY FS_Interval, Addresses DEF Pers
  <2>2. IsFiniteSet(S) /\ order \in SetToSeqs(S)
    BY <1>1, <2>1, FS_Subset
  <2> HIDE DEF S
  <2>3. order \in Seq(S) /\ \A x \in S : \E i \in 1 .. Len(order) : order[i] = x
    BY <2>2, OrderOnto
  <2>4. Len(order) \in Nat
    BY <2>3, LenProperties
  <2> QED
    BY <2>3, <2>4 DEF S
<1>13. /\ st'.pvec \in Seq(1 .. st.npers)
       /\ \A x \in st.pat \cap Pers : \E j \in 1 .. Len(st'.pvec) : st'.pvec[j] = x
  <2>1. order \in Seq(1 .. st.npers) /\ st.pvec \in Seq(1 .. st.npers) /\ Len(st.pvec) \in Nat
    BY <1>3, <1>11, <1>12, WiderSeq, Numbers, SMTT(30) DEF StateType
  <2>2. /\ st'.pvec \in Seq(1 .. st.npers) /\ Len(st'.pvec) = Len(st.pvec) + Len(order)
        /\ \A i \in 1 .. Len(st.pvec) + Len(order) :
              st'.pvec[i] = IF i =< Len(st.pvec) THEN st.pvec[i] ELSE order[i - Len(st.pvec)]
    BY <1>10, <2>1, ConcatProperties
  <2>3. ASSUME NEW x \in st.pat \cap Pers PROVE \E j \in 1 .. Len(st'.pvec) : st'.pvec[j] = x
    <3>1. PICK i \in 1 .. Len(order) : order[i] = x
      BY <1>12
    <3> DEFINE j == Len(st.pvec) + i
    <3>2. j \in 1 .. Len(st.pvec) + Len(order) /\ ~(j =< Len(st.pvec)) /\ j - Len(st.pvec) = i
      BY <1>12, <2>1
    <3> HIDE DEF j
    <3>3. st'.pvec[j] = x
      BY <2>2, <3>1, <3>2
    <3> QED
      BY <2>2, <3>2, <3>3
  <2> QED
    BY <2>2, <2>3
<1>14. StateType(st') /\ PagesInv(st')
  <2>1. DOMAIN D \subseteq Vol
    BY <1>3, <1>9 DEF StateType, B
  <2>2. \A a \in DOMAIN st'.tree :
           st'.tree[a] \in [paddr : {0} \cup 1 .. st'.npers, ptrs : Seq({a})]
    BY <1>9, <1>10
  <2>3. DOMAIN st'.tree \subseteq Vol /\ st'.pat \subseteq Loc /\ st'.pvec \in Seq(1 .. st'.npers)
    BY <1>3, <1>10, <1>13, <2>1 DEF StateType
  <2>4. StateType(st')
    BY <1>3, <1>10, <2>2, <2>3 DEF StateType
  <2>5. PagesInv(st')
    BY <1>3, <1>10 DEF PagesInv
  <2> QED
    BY <2>4, <2>5
<1>15. Live(st') = Live(st) /\ \A v : Who(st', v) = Who(st, v)
  BY <1>10 DEF Live, Who
<1>16. Moved(st') = Moved(st)
  BY <1>9, <1>10 DEF Moved, B
<1>17. PlaceInv(st', cpoints')
  <2>1. \A a \in st'.heap : \E k \in 0 .. cpoints' : st'.ident[a] = <<a, k>>
    BY <1>2, <1>3, <1>5, <1>10 DEF PlaceInv
  <2>2. \A p \in 1 .. st'.npers :
           st'.ident[p] = <<NULL, p>>
           \/ \E a \in Vol, k \in 0 .. cpoints' - 1 : st'.ident[p] = <<a, k>>
    BY <1>2, <1>3, <1>5, <1>10 DEF PlaceInv
  <2>3. \A p, q \in Live(st') : st'.ident[p] = st'.ident[q] => p = q
    BY <1>3, <1>10, <1>15 DEF PlaceInv
  <2>4. st'.heap \subseteq st'.pat /\ st'.pat \subseteq Live(st') \cup Globals
    BY <1>3, <1>10, <1>15, Addresses DEF PlaceInv, StateType
  <2>5. \A a \in DOMAIN st'.tree : st'.tree[a].paddr = 0 => a \in st'.heap
    BY <1>3, <1>9, <1>10 DEF PlaceInv, B
  <2> QED
    BY <2>1, <2>2, <2>3, <2>4, <2>5 DEF PlaceInv
<1>18. ClosureInv(st, cpoints)'
  <2>1. \A a \in DOMAIN st'.tree : st'.tree[a].paddr = 0 => st'.tree[a].ptrs # <<>>
    <3> SUFFICES ASSUME NEW a \in DOMAIN D, D[a].paddr = 0 PROVE D[a].ptrs # <<>>
      BY <1>10
    <3>1. a \in st.heap
      BY <1>3, <1>9 DEF PlaceInv, B
    <3> QED
      BY <1>3, <1>9, <3>1 DEF PlaceInv
  <2>2. \A a \in st'.heap : \E k \in 0 .. cpoints' - 1 : st'.ident[a] = <<a, k>>
    BY <1>2, <1>3, <1>5, <1>10 DEF PlaceInv
  <2>3. mallocat' \subseteq DOMAIN st'.tree /\ st'.pat \cap Pers = {}
    BY <1>2, <1>9, <1>10
  <2> QED
    BY <2>1, <2>2, <2>3 DEF ClosureInv
<1>19. Ahead' = From(st', 1)
  BY <1>2 DEF Ahead
<1>20. st.pat \cap Pers \subseteq Ahead'
  BY <1>13, <1>19 DEF From
<1>21. ClosedInv(st, begin.npers + 1, Ahead)'
  <2>1. st.npers \in Nat
    BY <1>3, Numbers
  <2> QED
    BY <1>4, <1>10, <2>1 DEF ClosedInv
<1>22. FollowInv(st, begin.edges,
                 Ahead \cup (IF pc = "slab" THEN {} ELSE st.pat), pc = "slab")'
  <2>1. ASSUME NEW x \in begin'.edges
        PROVE  \E l \in Live(st') \cup Globals :
                  /\ Who(st', l) = x[1] /\ LeadsTo(st', l, x[2])
                  /\ st'.val[l] \in Vol => l \in Ahead' \cup st'.pat
    <3>1. PICK l \in st.pat : x = <<Who(st, l), Who(st, st.val[l])>>
      BY <1>4
    <3>2. l \in Live(st') \cup Globals
      BY <1>3, <1>15 DEF PlaceInv
    <3>3. Who(st', l) = x[1] /\ Who(st', st'.val[l]) = x[2]
      BY <1>10, <1>15, <3>1
    <3>4. l \in Ahead' \cup st'.pat
      BY <1>10, <1>20
    <3> QED
      BY <3>2, <3>3, <3>4 DEF LeadsTo
  <2>2. Ahead' \cup (IF pc' = "slab" THEN {} ELSE st'.pat) = Ahead' \cup st'.pat
    BY <1>2
  <2>3. FollowInv(st', begin'.edges,
                  Ahead' \cup (IF pc' = "slab" THEN {} ELSE st'.pat), pc' = "slab")
    BY <2>1, <2>2 DEF FollowInv
  <2> QED
    BY <2>3 DEF FollowInv, Stays, LeadsTo, Who, Live, Moved
<1>23. RecordsInv(st, begin.recorded,
                  (begin.pat \cap Pers) \cup (begin.npers + 1 .. st.npers), Ahead)'
  <2>1. ASSUME NEW e \in Entries \ begin'.recorded
        PROVE  st'.ptr[e].sm = 0 /\ st'.ptr[e].idx = 0
    BY <1>4, <1>10
  <2>2. \A e \in Entries \ begin'.recorded :
           /\ st'.ptr[e].sm = 0
           /\ \A i \in 1 .. st'.ptr[e].idx :
                 LET r == st'.tabs[st'.ptr[e].cm][i]
                 IN  r.val = st'.val[r.loc] /\ r.val \in Pers \cup {NULL}
    <3>1. 1 .. 0 = {}
      OBVIOUS
    <3>2. \A e \in Entries \ begin'.recorded :
             st'.ptr[e].sm = 0 /\ 1 .. st'.ptr[e].idx = {}
      BY <2>1, <3>1
    <3> QED
      BY <3>2, Zenon
  <2>3. ((begin'.pat \cap Pers) \cup (begin'.npers + 1 .. st'.npers)) \ Ahead' = {}
    <3>1. st.npers \in Nat
      BY <1>3, Numbers
    <3> QED
      BY <1>4, <1>10, <1>20, <3>1
  <2> QED
    BY <2>2, <2>3 DEF RecordsInv
<1>24. begin'.npers \in 0 .. st'.npers
  BY <1>3, <1>4, <1>10, Numbers
<1>25. WalkInv'
  BY <1>2, <1>18, <1>21, <1>22, <1>23, <1>24 DEF WalkInv
<1>26. CountInv'
  <2>1. st'.npers = pallocs' + Cardinality(Moved(st)')
    BY <1>2, <1>5, <1>10, <1>16 DEF Moved
  <2>2. {pallocs', mallocs', stores', cpoints', at', within'} \subseteq Nat
    BY <1>2, <1>5
  <2> QED
    BY <1>2, <1>5, <2>1, <2>2 DEF CountInv
<1>27. st'.heap \subseteq mallocat' /\ mallocat' \subseteq st'.heap \cup DOMAIN st'.tree
  BY <1>2, <1>3, <1>9, <1>10
<1>28. StateType(st)' /\ PagesInv(st)' /\ PlaceInv(st, cpoints)'
  BY <1>14, <1>17 DEF StateType, PagesInv, PlaceInv, Live
<1> QED
  BY <1>2, <1>3, <1>25, <1>26, <1>27, <1>28 DEF IndInv

-----------------------------------------------------------------------------
(* The calls of the program *)

(* Between checkpoints the invariant is about places and pages only. *)
LEMMA AppGoesOn ==
    ASSUME IndInv, AppStep, StateType(st'), PagesInv(st'), PlaceInv(st', cpoints),
           pallocs' \in Nat, mallocs' \in Nat, stores' \in Nat, pallocs' =< MaxPallocs,
           st'.npers = pallocs' + Cardinality(Moved(st')),
           st'.heap \subseteq mallocat', mallocat' \subseteq st'.heap \cup DOMAIN st'.tree,
           mallocat' \subseteq Vol, known' \subseteq Loc
    PROVE  IndInv'
<1>1. /\ pc = "app" /\ pc' = pc /\ at' = at /\ within' = within /\ cpoints' = cpoints
      /\ begin' = begin
  BY DEF AppStep
<1>2. at \in Nat /\ within \in Nat /\ cpoints \in Nat
  BY DEF IndInv, CountInv
<1>3. CountInv'
  BY <1>1, <1>2 DEF CountInv, Moved
<1>4. StateType(st)' /\ PagesInv(st)' /\ PlaceInv(st, cpoints)'
  BY <1>1 DEF StateType, PagesInv, PlaceInv, Live
<1> QED
  BY <1>1, <1>3, <1>4 DEF IndInv

(* The parts of the invariant that the program's calls use *)
LEMMA AppFacts ==
    ASSUME IndInv
    PROVE  /\ StateType(st) /\ PagesInv(st) /\ PlaceInv(st, cpoints)
           /\ st.heap \subseteq mallocat /\ mallocat \subseteq st.heap \cup DOMAIN st.tree
           /\ mallocat \subseteq Vol /\ known \subseteq Loc
           /\ cpoints \in Nat /\ pallocs \in Nat /\ mallocs \in Nat /\ stores \in Nat
           /\ pallocs =< MaxPallocs /\ st.npers = pallocs + Cardinality(Moved(st))
           /\ MaxPallocs \in Nat
BY ClosureAssumption DEF IndInv, CountInv

(* malloc, mallocat and pointerat: the object is a new one, even at an     *)
(* address that was in use before.                                         *)
LEMMA MallocKeeps ==
    ASSUME IndInv, NEW a \in Vol, Malloc(a)
    PROVE  IndInv'
<1>1. /\ AppStep /\ a \notin st.heap
      /\ st' = [st EXCEPT !.heap = @ \cup {a}, !.pat = @ \cup {a}, !.ident[a] = <<a, cpoints>>]
      /\ mallocat' = mallocat \cup {a} /\ mallocs' = mallocs + 1 /\ known' = known \cup {a}
      /\ pallocs' = pallocs /\ stores' = stores
  BY DEF Malloc
<1>2. /\ StateType(st) /\ PagesInv(st) /\ PlaceInv(st, cpoints)
      /\ st.heap \subseteq mallocat /\ mallocat \subseteq st.heap \cup DOMAIN st.tree
      /\ mallocat \subseteq Vol /\ known \subseteq Loc
      /\ cpoints \in Nat /\ pallocs \in Nat /\ mallocs \in Nat /\ stores \in Nat
      /\ pallocs =< MaxPallocs /\ st.npers = pallocs + Cardinality(Moved(st))
  BY AppFacts
<1>3. /\ DOMAIN st' = StFields /\ st'.tree = st.tree /\ st'.val = st.val
      /\ st'.heap = st.heap \cup {a} /\ st'.pvec = st.pvec /\ st'.pat = st.pat \cup {a}
      /\ st'.npers = st.npers /\ st'.ident = [st.ident EXCEPT ![a] = <<a, cpoints>>]
      /\ st'.copied = st.copied /\ st'.hasSnap = st.hasSnap /\ st'.writable = st.writable
      /\ st'.dirty = st.dirty /\ st'.tabs = st.tabs /\ st'.ptr = st.ptr /\ st'.freed = st.freed
  BY <1>1, <1>2 DEF StateType, StFields
<1>4. /\ st'.ident \in [Vol \cup Pers -> ((Vol \cup {NULL}) \X Nat) \cup {NULL}]
      /\ st'.ident[a] = <<a, cpoints>>
      /\ \A l \in Vol \cup Pers : l # a => st'.ident[l] = st.ident[l]
  BY <1>2, <1>3 DEF StateType
<1>5. a \in Loc /\ a \notin Pers /\ a # NULL
  BY Addresses
<1>6. StateType(st')
  BY <1>2, <1>3, <1>4, <1>5 DEF StateType
<1>7. PagesInv(st')
  BY <1>2, <1>3 DEF PagesInv
<1>8. Live(st') = Live(st) \cup {a} /\ Moved(st') = Moved(st)
  BY <1>3 DEF Live, Moved
<1>9. 1 .. st.npers \subseteq Pers /\ st.heap \subseteq Vol
  BY <1>2, Numbers DEF StateType
<1>10. PlaceInv(st', cpoints)
  <2>1. ASSUME NEW b \in st'.heap PROVE \E k \in 0 .. cpoints : st'.ident[b] = <<b, k>>
    <3>1. CASE b = a
      BY <1>2, <1>4, <3>1
    <3>2. CASE b # a
      <4>1. b \in st.heap /\ st'.ident[b] = st.ident[b]
        BY <1>3, <1>4, <1>9, <3>2
      <4> QED
        BY <1>2, <4>1 DEF PlaceInv
    <3> QED
      BY <3>1, <3>2
  <2>2. ASSUME NEW p \in 1 .. st'.npers
        PROVE  st'.ident[p] = <<NULL, p>>
               \/ \E b \in Vol, k \in 0 .. cpoints - 1 : st'.ident[p] = <<b, k>>
    <3>1. p \in 1 .. st.npers /\ st'.ident[p] = st.ident[p]
      BY <1>3, <1>4, <1>5, <1>9
    <3> QED
      BY <1>2, <3>1 DEF PlaceInv
  <2>3. ASSUME NEW x \in Live(st), x # a PROVE st'.ident[x] # <<a, cpoints>>
    <3>1. CASE x \in st.heap
      <4>1. PICK k \in 0 .. cpoints : st'.ident[x] = <<x, k>>
        BY <1>3, <2>1, <3>1
      <4> QED
        BY <2>3, <4>1
    <3>2. CASE x \in 1 .. st.npers
      <4>1. CASE st'.ident[x] = <<NULL, x>>
        BY <1>5, <4>1
      <4>2. CASE \E b \in Vol, k \in 0 .. cpoints - 1 : st'.ident[x] = <<b, k>>
        BY <1>2, <4>2
      <4> QED
        BY <1>3, <2>2, <3>2, <4>1, <4>2
    <3> QED
      BY <3>1, <3>2 DEF Live
  <2>4. ASSUME NEW x \in Live(st'), NEW y \in Live(st'), st'.ident[x] = st'.ident[y]
        PROVE  x = y
    <3>5. Live(st) \subseteq Vol \cup Pers
      BY <1>9 DEF Live
    <3>1. \A z \in Live(st') : z = a \/ (z \in Live(st) /\ z # a /\ st'.ident[z] = st.ident[z])
      BY <1>4, <1>8, <1>9, <3>5
    <3>2. CASE x = a
      BY <1>4, <2>3, <2>4, <3>1, <3>2
    <3>3. CASE y = a
      BY <1>4, <2>3, <2>4, <3>1, <3>3
    <3>4. CASE x # a /\ y # a
      BY <1>2, <2>4, <3>1, <3>4 DEF PlaceInv
    <3> QED
      BY <3>2, <3>3, <3>4
  <2>5. st'.heap \subseteq st'.pat /\ st'.pat \subseteq Live(st') \cup Globals
    BY <1>2, <1>3, <1>8 DEF PlaceInv
  <2>6. \A b \in DOMAIN st'.tree : st'.tree[b].paddr = 0 => b \in st'.heap
    BY <1>2, <1>3 DEF PlaceInv
  <2> QED
    BY <2>1, <2>2, <2>4, <2>5, <2>6 DEF PlaceInv
<1>11. /\ st'.npers = pallocs' + Cardinality(Moved(st'))
       /\ mallocs' \in Nat /\ pallocs' \in Nat /\ stores' \in Nat /\ pallocs' =< MaxPallocs
  BY <1>1, <1>2, <1>3, <1>8
<1>12. /\ st'.heap \subseteq mallocat' /\ mallocat' \subseteq st'.heap \cup DOMAIN st'.tree
       /\ mallocat' \subseteq Vol /\ known' \subseteq Loc
  BY <1>1, <1>2, <1>3, <1>5
<1> QED
  BY <1>1, <1>6, <1>7, <1>10, <1>11, <1>12, AppGoesOn

(* container_palloc *)
LEMMA PallocStepKeeps ==
    ASSUME IndInv, Palloc
    PROVE  IndInv'
<1> DEFINE p == st.npers + 1
           c == slab_palloc(st)
<1>1. /\ AppStep /\ pallocs < MaxPallocs /\ pallocs' = pallocs + 1
      /\ st' = [c EXCEPT !.ident[p] = <<NULL, p>>]
      /\ mallocat' = mallocat /\ mallocs' = mallocs /\ stores' = stores /\ known' = known
  BY DEF Palloc
<1>2. /\ StateType(st) /\ PagesInv(st) /\ PlaceInv(st, cpoints)
      /\ st.heap \subseteq mallocat /\ mallocat \subseteq st.heap \cup DOMAIN st.tree
      /\ mallocat \subseteq Vol /\ known \subseteq Loc
      /\ cpoints \in Nat /\ pallocs \in Nat /\ mallocs \in Nat /\ stores \in Nat
      /\ pallocs =< MaxPallocs /\ st.npers = pallocs + Cardinality(Moved(st))
      /\ MaxPallocs \in Nat
  BY AppFacts
<1>3. Cardinality(Moved(st)) \in Nat /\ p =< MaxObjs
  <2>1. IsFiniteSet(Vol) /\ Moved(st) \subseteq Vol
    BY <1>2, ClosureAssumption DEF Moved, StateType
  <2>2. IsFiniteSet(Moved(st)) /\ Cardinality(Moved(st)) =< Cardinality(Vol)
    BY <2>1, FS_Subset
  <2>3. Cardinality(Moved(st)) \in Nat /\ Cardinality(Vol) \in Nat
    BY <2>1, <2>2, FS_CardinalityType
  <2> QED
    BY <1>1, <1>2, <2>2, <2>3 DEF MaxObjs
<1>4. /\ StateType(c) /\ PagesInv(c)
      /\ c.npers = p /\ c.val = st.val /\ c.heap = st.heap
      /\ c.tree = st.tree /\ c.pvec = st.pvec /\ c.pat = st.pat /\ c.ident = st.ident
  BY <1>2, <1>3, PallocKeeps
<1>5. /\ st.npers \in Nat /\ p \in Pers /\ p \in Nat /\ 1 .. p = (1 .. st.npers) \cup {p}
      /\ p \notin 1 .. st.npers /\ 1 .. st.npers \subseteq Pers /\ st.heap \subseteq Vol
      /\ p \notin Vol
  BY <1>2, <1>3, Numbers, Addresses DEF StateType, Pers
<1> HIDE DEF c, p
<1>6. /\ DOMAIN st' = StFields /\ st'.tree = st.tree /\ st'.val = st.val
      /\ st'.heap = st.heap /\ st'.pvec = st.pvec /\ st'.pat = st.pat
      /\ st'.npers = p /\ st'.ident = [st.ident EXCEPT ![p] = <<NULL, p>>]
      /\ st'.copied = c.copied /\ st'.hasSnap = c.hasSnap /\ st'.writable = c.writable
      /\ st'.dirty = c.dirty /\ st'.tabs = c.tabs /\ st'.ptr = c.ptr /\ st'.freed = c.freed
  BY <1>1, <1>4 DEF StateType, StFields
<1>7. /\ st'.ident \in [Vol \cup Pers -> ((Vol \cup {NULL}) \X Nat) \cup {NULL}]
      /\ st'.ident[p] = <<NULL, p>>
      /\ \A l \in Vol \cup Pers : l # p => st'.ident[l] = st.ident[l]
  BY <1>2, <1>5, <1>6 DEF StateType
<1>8. StateType(st') /\ PagesInv(st')
  BY <1>4, <1>6, <1>7 DEF StateType, PagesInv
<1>9. Live(st') = Live(st) \cup {p} /\ Moved(st') = Moved(st)
  BY <1>5, <1>6 DEF Live, Moved
<1>10. PlaceInv(st', cpoints)
  <2>1. ASSUME NEW b \in st'.heap PROVE \E k \in 0 .. cpoints : st'.ident[b] = <<b, k>>
    <3>1. b \in st.heap /\ st'.ident[b] = st.ident[b]
      BY <1>5, <1>6, <1>7
    <3> QED
      BY <1>2, <3>1 DEF PlaceInv
  <2>2. ASSUME NEW x \in 1 .. st'.npers
        PROVE  st'.ident[x] = <<NULL, x>>
               \/ \E b \in Vol, k \in 0 .. cpoints - 1 : st'.ident[x] = <<b, k>>
    <3>1. CASE x = p
      BY <1>7, <3>1
    <3>2. CASE x # p
      <4>1. x \in 1 .. st.npers /\ st'.ident[x] = st.ident[x]
        BY <1>5, <1>6, <1>7, <3>2
      <4> QED
        BY <1>2, <4>1 DEF PlaceInv
    <3> QED
      BY <3>1, <3>2
  <2>3. ASSUME NEW x \in Live(st) PROVE st'.ident[x] # <<NULL, p>>
    <3>1. NULL \notin Vol
      BY Addresses
    <3>2. CASE x \in st.heap
      <4>1. PICK k \in 0 .. cpoints : st'.ident[x] = <<x, k>>
        BY <1>6, <2>1, <3>2
      <4> QED
        BY <1>5, <3>1, <3>2, <4>1
    <3>3. CASE x \in 1 .. st.npers
      <4>1. CASE st'.ident[x] = <<NULL, x>>
        BY <1>5, <3>3, <4>1
      <4>2. CASE \E b \in Vol, k \in 0 .. cpoints - 1 : st'.ident[x] = <<b, k>>
        BY <3>1, <4>2
      <4>3. x \in 1 .. st'.npers
        BY <1>5, <1>6, <3>3
      <4> QED
        BY <2>2, <4>1, <4>2, <4>3
    <3> QED
      BY <3>2, <3>3 DEF Live
  <2>4. ASSUME NEW x \in Live(st'), NEW y \in Live(st'), st'.ident[x] = st'.ident[y]
        PROVE  x = y
    <3>5. Live(st) \subseteq Vol \cup Pers
      BY <1>5 DEF Live
    <3>1. \A z \in Live(st') : z = p \/ (z \in Live(st) /\ z # p /\ st'.ident[z] = st.ident[z])
      BY <1>5, <1>7, <1>9, <3>5
    <3>2. CASE x = p
      BY <1>7, <2>3, <2>4, <3>1, <3>2
    <3>3. CASE y = p
      BY <1>7, <2>3, <2>4, <3>1, <3>3
    <3>4. CASE x # p /\ y # p
      BY <1>2, <2>4, <3>1, <3>4 DEF PlaceInv
    <3> QED
      BY <3>2, <3>3, <3>4
  <2>5. st'.heap \subseteq st'.pat /\ st'.pat \subseteq Live(st') \cup Globals
    BY <1>2, <1>6, <1>9 DEF PlaceInv
  <2>6. \A b \in DOMAIN st'.tree : st'.tree[b].paddr = 0 => b \in st'.heap
    BY <1>2, <1>6 DEF PlaceInv
  <2> QED
    BY <2>1, <2>2, <2>4, <2>5, <2>6 DEF PlaceInv
<1>11. /\ st'.npers = pallocs' + Cardinality(Moved(st'))
       /\ mallocs' \in Nat /\ pallocs' \in Nat /\ stores' \in Nat /\ pallocs' =< MaxPallocs
  BY <1>1, <1>2, <1>3, <1>6, <1>9 DEF p
<1>12. /\ st'.heap \subseteq mallocat' /\ mallocat' \subseteq st'.heap \cup DOMAIN st'.tree
       /\ mallocat' \subseteq Vol /\ known' \subseteq Loc
  BY <1>1, <1>2, <1>6
<1> QED
  BY <1>1, <1>8, <1>10, <1>11, <1>12, AppGoesOn

(* pointerat *)
LEMMA PointeratKeeps ==
    ASSUME IndInv, NEW l \in Loc, pointerat(l)
    PROVE  IndInv'
<1>1. /\ AppStep /\ l \in (1 .. st.npers) \cup Globals
      /\ st' = [st EXCEPT !.pat = @ \cup {l}] /\ known' = known \cup {l}
      /\ mallocat' = mallocat /\ pallocs' = pallocs /\ mallocs' = mallocs /\ stores' = stores
  BY DEF pointerat
<1>2. /\ StateType(st) /\ PagesInv(st) /\ PlaceInv(st, cpoints)
      /\ st.heap \subseteq mallocat /\ mallocat \subseteq st.heap \cup DOMAIN st.tree
      /\ mallocat \subseteq Vol /\ known \subseteq Loc
      /\ cpoints \in Nat /\ pallocs \in Nat /\ mallocs \in Nat /\ stores \in Nat
      /\ pallocs =< MaxPallocs /\ st.npers = pallocs + Cardinality(Moved(st))
  BY AppFacts
<1>3. /\ DOMAIN st' = StFields /\ st'.tree = st.tree /\ st'.val = st.val
      /\ st'.heap = st.heap /\ st'.pvec = st.pvec /\ st'.pat = st.pat \cup {l}
      /\ st'.npers = st.npers /\ st'.ident = st.ident
      /\ st'.copied = st.copied /\ st'.hasSnap = st.hasSnap /\ st'.writable = st.writable
      /\ st'.dirty = st.dirty /\ st'.tabs = st.tabs /\ st'.ptr = st.ptr /\ st'.freed = st.freed
  BY <1>1, <1>2 DEF StateType, StFields
<1>4. StateType(st') /\ PagesInv(st')
  BY <1>2, <1>3 DEF StateType, PagesInv
<1>5. Live(st') = Live(st) /\ Moved(st') = Moved(st)
  BY <1>3 DEF Live, Moved
<1>6. st'.heap \subseteq st'.pat /\ st'.pat \subseteq Live(st') \cup Globals
  BY <1>1, <1>2, <1>3 DEF PlaceInv, Live
<1>7. PlaceInv(st', cpoints)
  BY <1>2, <1>3, <1>5, <1>6 DEF PlaceInv
<1> QED
  BY <1>1, <1>2, <1>3, <1>4, <1>5, <1>7, AppGoesOn

(* A store of the program *)
LEMMA StoreKeeps ==
    ASSUME IndInv, NEW l \in Loc, NEW v \in Loc \cup {NULL}, Store(l, v)
    PROVE  IndInv'
<1> DEFINE c == IF l \in Pers THEN StoreTo(st, EntryOf(l)) ELSE st
<1>1. /\ AppStep /\ stores' = stores + 1 /\ st' = [c EXCEPT !.val[l] = v]
      /\ mallocat' = mallocat /\ pallocs' = pallocs /\ mallocs' = mallocs /\ known' = known
  BY DEF Store
<1>2. /\ StateType(st) /\ PagesInv(st) /\ PlaceInv(st, cpoints)
      /\ st.heap \subseteq mallocat /\ mallocat \subseteq st.heap \cup DOMAIN st.tree
      /\ mallocat \subseteq Vol /\ known \subseteq Loc
      /\ cpoints \in Nat /\ pallocs \in Nat /\ mallocs \in Nat /\ stores \in Nat
      /\ pallocs =< MaxPallocs /\ st.npers = pallocs + Cardinality(Moved(st))
  BY AppFacts
<1>3. StateType(c) /\ PagesInv(c) /\ SameMemory(st, c) /\ PagesKept(st, c)
  <2>1. CASE l \in Pers
    BY <1>2, <2>1, EntryRange, StoreToKeeps
  <2>2. CASE l \notin Pers
    BY <1>2, <2>2, PagesKeptSame DEF SameMemory
  <2> QED
    BY <2>1, <2>2
<1> HIDE DEF c
<1>4. StateType(st') /\ PagesInv(st') /\ Redirects(st, st', l, v)
  <2> DEFINE u == [c EXCEPT !.val[l] = v]
  <2>1. StateType(u) /\ PagesInv(u) /\ Redirects(st, u, l, v)
    BY <1>3, StoreRedirects
  <2> QED
    BY <1>1, <2>1
<1>5. PlaceInv(st', cpoints) /\ Moved(st') = Moved(st)
  BY <1>2, <1>4, RedirectPlace
<1>6. st'.npers = st.npers /\ st'.heap = st.heap /\ st'.tree = st.tree
  BY <1>4 DEF Redirects
<1> QED
  BY <1>1, <1>2, <1>4, <1>5, <1>6, AppGoesOn

-----------------------------------------------------------------------------
(* The invariant *)

(* The initial state has no object, no tree and no pointer page. *)
LEMMA InitInv == Init => IndInv
<1> SUFFICES ASSUME Init PROVE IndInv
  OBVIOUS
<1>1. /\ DOMAIN st = StFields /\ st.val = [l \in Loc |-> NULL] /\ st.heap = {}
      /\ st.tree = <<>> /\ st.pvec = <<>> /\ st.pat = {} /\ st.npers = 0
      /\ st.copied = FALSE /\ st.hasSnap = FALSE /\ st.writable = {} /\ st.dirty = <<>>
      /\ st.tabs = <<>> /\ st.ptr = [e \in Entries |-> NoPtrPage] /\ st.freed = {}
      /\ st.ident = [l \in Vol \cup Pers |-> NULL]
  BY DEF Init, StFields
<1>2. /\ mallocat = {} /\ known = {} /\ pc = "app" /\ at = 0 /\ within = 0
      /\ pallocs = 0 /\ mallocs = 0 /\ stores = 0 /\ cpoints = 0
  BY DEF Init
<1>3. /\ \A S : <<>> \in Seq(S)
      /\ Len(<<>>) = 0 /\ DOMAIN <<>> = {}
  BY EmptySeq
<1>4. MaxObjs \in Nat /\ MaxPallocs \in Nat
  BY Addresses, ClosureAssumption
<1>5. StateType(st)
  <2>1. /\ st.val \in [Loc -> Loc \cup {NULL}]
        /\ st.ident \in [Vol \cup Pers -> ((Vol \cup {NULL}) \X Nat) \cup {NULL}]
    BY <1>1
  <2>2. DOMAIN st.tree = {}
    BY <1>1, <1>3
  <2>3. st.pvec \in Seq(1 .. st.npers) /\ st.dirty \in Seq(Entries)
    BY <1>1, <1>3
  <2>4. st.npers \in 0 .. MaxObjs
    BY <1>1, <1>4
  <2>6. st.copied \in BOOLEAN /\ st.hasSnap \in BOOLEAN
    BY <1>1, Zenon
  <2>5. DOMAIN st = StFields /\ st.heap = {} /\ st.pat = {} /\ st.writable = {}
    BY <1>1
  <2> QED
    BY <2>1, <2>2, <2>3, <2>4, <2>5, <2>6 DEF StateType
<1>6. PagesInv(st)
  <2>1. \A e \in Entries : st.ptr[e] = NoPtrPage
    BY <1>1
  <2>2. NoPtrPage \in PtrPage /\ NoPtrPage.idx = 0 /\ NoPtrPage.cm = 0 /\ NoPtrPage.cl = 0
        /\ NoPtrPage.sm = 0 /\ NoPtrPage.sl = 0
    BY DEF NoPtrPage, PtrPage
  <2>3. st.ptr \in [Entries -> PtrPage]
    BY <1>1, <2>2
  <2>4. \A e \in Entries : PtrPageOK(st, e)
    BY <1>1, <1>3, <2>1, <2>2 DEF PtrPageOK
  <2>5. OwnPages(st)
    BY <2>1, <2>2 DEF OwnPages
  <2>6. st.tabs \in Seq(Seq(RecordsOf(st.npers))) /\ st.freed \subseteq 1 .. Len(st.tabs)
    BY <1>1, <1>3
  <2> QED
    BY <2>3, <2>4, <2>5, <2>6, PagesParts
<1>7. Live(st) = {} /\ Moved(st) = {}
  BY <1>1, <1>3 DEF Live, Moved
<1>8. PlaceInv(st, cpoints)
  BY <1>1, <1>3, <1>7 DEF PlaceInv
<1>9. CountInv
  <2>1. Cardinality({}) = 0
    BY FS_EmptySet
  <2> QED
    BY <1>1, <1>2, <1>4, <1>7, <2>1 DEF CountInv
<1> QED
  BY <1>1, <1>2, <1>5, <1>6, <1>8, <1>9 DEF IndInv

(* Every step keeps the invariant. *)
LEMMA NextInv == IndInv /\ [Next]_vars => IndInv'
<1> SUFFICES ASSUME IndInv, [Next]_vars PROVE IndInv'
  OBVIOUS
<1>1. ASSUME NEW a \in Vol, Malloc(a) PROVE IndInv'
  BY <1>1, MallocKeeps
<1>2. CASE Palloc
  BY <1>2, PallocStepKeeps
<1>3. ASSUME NEW l \in Loc, pointerat(l) PROVE IndInv'
  BY <1>3, PointeratKeeps
<1>4. ASSUME NEW l \in Loc, NEW v \in Loc \cup {NULL}, Store(l, v) PROVE IndInv'
  BY <1>4, StoreKeeps
<1>5. CASE container_cpoint
  BY <1>5, CpointBegins
<1>6. CASE MovePointer
  BY <1>6, MovePointerKeeps
<1>7. CASE FreePointerVector
  BY <1>7, FreePointerVectorKeeps
<1>8. CASE MoveDirty
  BY <1>8, MoveDirtyKeeps
<1>9. CASE DirtyDone
  BY <1>9, DirtyDoneKeeps
<1>10. CASE FixBackReferences
  BY <1>10, FixBackReferencesKeeps
<1>11. CASE SlabCpoint
  BY <1>11, SlabCpointStepKeeps
<1>12. CASE UNCHANGED vars
  <2>1. /\ st' = st /\ mallocat' = mallocat /\ pc' = pc /\ at' = at /\ within' = within
        /\ pallocs' = pallocs /\ mallocs' = mallocs /\ stores' = stores
        /\ cpoints' = cpoints /\ known' = known /\ begin' = begin
    BY <1>12 DEF vars
  <2>2. StateType(st)' <=> StateType(st)
    BY <2>1 DEF StateType
  <2>3. PagesInv(st)' <=> PagesInv(st)
    BY <2>1 DEF PagesInv
  <2>4. PlaceInv(st, cpoints)' <=> PlaceInv(st, cpoints)
    BY <2>1 DEF PlaceInv, Live
  <2>5. CountInv' <=> CountInv
    BY <2>1 DEF CountInv, Moved
  <2>6. ClosureInv(st, cpoints)' <=> ClosureInv(st, cpoints)
    BY <2>1 DEF ClosureInv
  <2>7. Ahead' = Ahead
    BY <2>1 DEF Ahead, From
  <2>8. ClosedInv(st, begin.npers + 1, Ahead)' <=> ClosedInv(st, begin.npers + 1, Ahead)
    BY <2>1, <2>7 DEF ClosedInv
  <2>9. FollowInv(st, begin.edges,
                  Ahead \cup (IF pc = "slab" THEN {} ELSE st.pat), pc = "slab")'
        <=> FollowInv(st, begin.edges,
                      Ahead \cup (IF pc = "slab" THEN {} ELSE st.pat), pc = "slab")
    BY <2>1, <2>7 DEF FollowInv, Stays, LeadsTo, Who, Live, Moved
  <2>10. RecordsInv(st, begin.recorded,
                    (begin.pat \cap Pers) \cup (begin.npers + 1 .. st.npers), Ahead)'
         <=> RecordsInv(st, begin.recorded,
                        (begin.pat \cap Pers) \cup (begin.npers + 1 .. st.npers), Ahead)
    BY <2>1, <2>7 DEF RecordsInv, Recorded
  <2>11. WalkInv' <=> WalkInv
    BY <2>1, <2>6, <2>8, <2>9, <2>10 DEF WalkInv
  <2> QED
    BY <2>1, <2>2, <2>3, <2>4, <2>5, <2>11 DEF IndInv
<1> QED
  BY <1>1, <1>2, <1>3, <1>4, <1>5, <1>6, <1>7, <1>8, <1>9, <1>10, <1>11, <1>12
     DEF Next, Library

-----------------------------------------------------------------------------
(* What follows from the invariant *)

(* An edge is a pair of objects. *)
EdgesArePairs == \A x \in begin.edges : x = <<x[1], x[2]>>

(* What is noted at the beginning of a checkpoint stays noted. *)
LEMMA PairsNext == EdgesArePairs /\ [Next]_vars => EdgesArePairs'
<1> SUFFICES ASSUME EdgesArePairs, [Next]_vars PROVE EdgesArePairs'
  OBVIOUS
<1>1. CASE container_cpoint
  <2>1. begin'.edges = Edges(st, st.pat)
    BY <1>1 DEF container_cpoint
  <2> QED
    BY <2>1 DEF Edges, EdgesArePairs
<1>2. CASE begin' = begin
  BY <1>2 DEF EdgesArePairs
<1> QED
  BY <1>1, <1>2 DEF Next, Library, Malloc, Palloc, pointerat, Store, AppStep, MovePointer,
     FreePointerVector, MoveDirty, DirtyDone, FixBackReferences, SlabCpoint, ClosureStep, vars

(* After the walk of pptr_vec, what is ahead is all that waits in it, which *)
(* are objects of the container.                                           *)
LEMMA AheadWaits ==
    ASSUME IndInv, pc # "move"
    PROVE  Ahead = Waiting /\ Waiting \subseteq 1 .. st.npers
<1>1. st.pvec \in Seq(1 .. st.npers)
  BY DEF IndInv, StateType
<1>2. DOMAIN st.pvec = 1 .. Len(st.pvec) /\ \A i \in 1 .. Len(st.pvec) : st.pvec[i] \in 1 .. st.npers
  BY <1>1, LenProperties, ElementOfSeq
<1> QED
  BY <1>2 DEF Ahead, From, Waiting, ToSet

(* A set of numbers that is not empty has a least one. *)
LEMMA LeastExists ==
    ASSUME NEW C \in SUBSET Nat, C # {}
    PROVE  \E i \in C : \A j \in C : i =< j
<1> DEFINE R == OpToRel(<, Nat)
<1>1. IsWellFoundedOn(R, Nat)
  BY NatLessThanWellFounded, Zenon
<1>2. \A x, y \in Nat : x < y => <<x, y>> \in R
  BY DEF OpToRel
<1> HIDE DEF R
<1>3. PICK i \in C : \A y \in C : ~(<<y, i>> \in R)
  BY <1>1, WFMin, Zenon
<1>4. ASSUME NEW j \in C PROVE i =< j
  <2>1. ~(j < i)
    BY <1>2, <1>3
  <2> QED
    BY <2>1
<1> QED
  BY <1>4

(* A location with records has a last one, which is what do_fixptrs stores *)
(* in the end.                                                             *)
LEMMA LastRecord ==
    ASSUME NEW s, NEW l \in Pers, PagesInv(s), l \in Recorded(s, EntryOf(l))
    PROVE  LET q == s.ptr[EntryOf(l)]
           IN  \E i \in 1 .. q.idx : /\ s.tabs[q.cm][i].loc = l
                                     /\ FixedPointer(s, l) = s.tabs[q.cm][i].val
<1> DEFINE q == s.ptr[EntryOf(l)]
           t == s.tabs[q.cm]
           IsLast(i) == t[i].loc = l /\ \A j \in i + 1 .. q.idx : t[j].loc # l
           D == {q.idx - i : i \in {k \in 1 .. q.idx : t[k].loc = l}}
<1>1. q.idx \in Nat
  BY EntryRange DEF PagesInv, PtrPage
<1>2. D \in SUBSET Nat /\ D # {}
  <2>1. \A i \in 1 .. q.idx : q.idx - i \in Nat
    BY <1>1
  <2>2. \E i \in 1 .. q.idx : t[i].loc = l
    BY DEF Recorded
  <2> QED
    BY <2>1, <2>2
<1> HIDE DEF D
<1>3. PICK d \in D : \A y \in D : d =< y
  BY <1>2, LeastExists
<1>4. PICK i \in 1 .. q.idx : t[i].loc = l /\ d = q.idx - i
  BY <1>3 DEF D
<1>5. \A j \in i + 1 .. q.idx : t[j].loc # l
  <2> SUFFICES ASSUME NEW j \in i + 1 .. q.idx, t[j].loc = l PROVE FALSE
    OBVIOUS
  <2>1. j \in 1 .. q.idx
    BY <1>1
  <2>2. q.idx - j \in D
    BY <2>1 DEF D
  <2>3. q.idx - i =< q.idx - j
    BY <1>3, <1>4, <2>2
  <2> QED
    BY <1>1, <2>3
<1>6. \E k \in 1 .. q.idx : IsLast(k)
  BY <1>4, <1>5
<1> DEFINE m == CHOOSE k \in 1 .. q.idx : IsLast(k)
<1>7. m \in 1 .. q.idx /\ IsLast(m)
  BY <1>6, Zenon
<1>8. FixedPointer(s, l) = t[m].val
  BY Zenon DEF FixedPointer
<1> HIDE DEF m
<1> QED
  BY <1>7, <1>8

(* The invariant has the types. *)
LEMMA IndInvType == IndInv => TypeOK
<1> SUFFICES ASSUME IndInv PROVE TypeOK
  OBVIOUS
<1>1. StateType(st) /\ PagesInv(st) /\ mallocat \subseteq Vol /\ known \subseteq Loc
      /\ pc \in {"app", "move", "dirty", "fix", "slab", "dead"}
  BY DEF IndInv
<1>2. MaxObjs \in Nat /\ st.npers \in 0 .. MaxObjs /\ 1 .. st.npers \subseteq Pers
  BY <1>1, Addresses DEF StateType, Pers
<1>3. st.pvec \in Seq(Pers)
  <2>1. st.pvec \in Seq(1 .. st.npers)
    BY <1>1 DEF StateType
  <2>2. Seq(1 .. st.npers) \subseteq Seq(Pers)
    BY <1>2, WiderSeq
  <2> QED
    BY <2>1, <2>2
<1>4. st.tabs \in Seq(Seq(Record))
  <2>1. RecordsOf(st.npers) \subseteq Record
    BY <1>2 DEF RecordsOf, Record
  <2>2. Seq(RecordsOf(st.npers)) \subseteq Seq(Record)
    BY <2>1, WiderSeq
  <2>3. Seq(Seq(RecordsOf(st.npers))) \subseteq Seq(Seq(Record))
    BY <2>2, WiderSeq
  <2> QED
    BY <1>1, <2>3, PagesParts
<1>5. st.ptr \in [Entries -> [idx : Nat, cm : 0 .. Len(st.tabs), cl : 0 .. Len(st.tabs),
                                         sm : 0 .. Len(st.tabs), sl : 0 .. Len(st.tabs)]]
  <2>1. st.ptr \in [Entries -> PtrPage] /\ \A e \in Entries : PtrPageOK(st, e)
    BY <1>1, PagesParts
  <2> QED
    BY <2>1 DEF PtrPage, PtrPageOK
<1>6. \A a \in DOMAIN st.tree : st.tree[a].paddr \in {0} \cup Pers /\ st.tree[a].ptrs \in Seq({a})
  BY <1>1, <1>2 DEF StateType
<1>7. st.freed \subseteq 1 .. Len(st.tabs)
  BY <1>1, PagesParts
<1> QED
  BY <1>1, <1>2, <1>3, <1>4, <1>5, <1>6, <1>7 DEF TypeOK, StateType

(* The pointers that were registered follow the objects: a pointer that    *)
(* is not on the vector any more leads to no volatile memory, so that it   *)
(* leads to its object and not to the address the object had.              *)
LEMMA IndInvFollow == IndInv /\ EdgesArePairs => RegisteredPointersFollow
<1> SUFFICES ASSUME IndInv, EdgesArePairs, pc = "slab", NEW x \in begin.edges,
                    NEW p \in 1 .. st.npers, x[2] = st.ident[p],
                    x[1] \notin {st.ident[w] : w \in Waiting}
             PROVE  x \in Edges(st, Live(st) \cup Globals)
  BY DEF RegisteredPointersFollow
<1>1. /\ StateType(st) /\ PlaceInv(st, cpoints)
      /\ FollowInv(st, begin.edges, Ahead, TRUE)
  BY DEF IndInv, WalkInv
<1>2. Ahead = Waiting /\ Waiting \subseteq 1 .. st.npers
  BY AheadWaits
<1>3. p \in Pers /\ Vol \cap Pers = {} /\ Vol \cap Globals = {}
      /\ NULL \notin (Vol \cup {NULL}) \X Nat
  BY <1>1, Addresses DEF StateType, Pers
<1>4. x[2] # NULL
  <2>1. CASE st.ident[p] = <<NULL, p>>
    BY <1>3, <2>1, Addresses
  <2>2. CASE \E a \in Vol, k \in 0 .. cpoints - 1 : st.ident[p] = <<a, k>>
    <3>1. PICK a \in Vol, k \in 0 .. cpoints - 1 : st.ident[p] = <<a, k>>
      BY <2>2
    <3>2. k \in Nat
      BY DEF IndInv, CountInv
    <3> QED
      BY <1>3, <3>1, <3>2
  <2> QED
    BY <1>1, <2>1, <2>2 DEF PlaceInv
<1>5. ~Stays(st, x[2], TRUE)
  <2> SUFFICES ASSUME NEW a \in st.heap, st.ident[a] = x[2] PROVE FALSE
    BY DEF Stays
  <2>1. a \in Live(st) /\ p \in Live(st)
    BY DEF Live
  <2>2. a = p
    BY <1>1, <2>1 DEF PlaceInv
  <2> QED
    BY <1>1, <1>3, <2>2 DEF StateType
<1>6. PICK l \in Live(st) \cup Globals :
         /\ Who(st, l) = x[1] /\ LeadsTo(st, l, x[2])
         /\ st.val[l] \in Vol => l \in Waiting
  BY <1>1, <1>2, <1>4, <1>5 DEF FollowInv
<1>7. l \notin Waiting
  <2> SUFFICES ASSUME l \in Waiting PROVE FALSE
    OBVIOUS
  <2>1. Who(st, l) = st.ident[l]
    BY <1>2 DEF Who, Live
  <2> QED
    BY <1>6, <2>1
<1>8. Who(st, st.val[l]) = x[2]
  <2>1. st.val[l] \notin Moved(st)
    BY <1>1, <1>6, <1>7 DEF StateType, Moved
  <2> QED
    BY <1>6, <2>1 DEF LeadsTo
<1>9. x = <<Who(st, l), Who(st, st.val[l])>>
  BY <1>6, <1>8 DEF EdgesArePairs
<1> QED
  BY <1>9 DEF Edges

(* All records of a location in an entry that had none before agree with   *)
(* the pointer, so the last one does.                                      *)
LEMMA IndInvRecords == IndInv => RecordsReproducePointers
<1> SUFFICES ASSUME IndInv, pc = "slab", NEW p \in 1 .. st.npers,
                    EntryOf(p) \notin begin.recorded
             PROVE  /\ p \in begin.pat \/ p > begin.npers =>
                          p \in Recorded(st, EntryOf(p)) \cup Waiting
                    /\ p \in Recorded(st, EntryOf(p)) => FixedPointer(st, p) = st.val[p]
  BY DEF RecordsReproducePointers
<1>1. /\ StateType(st) /\ PagesInv(st) /\ begin.npers \in 0 .. st.npers
      /\ RecordsInv(st, begin.recorded,
                    (begin.pat \cap Pers) \cup (begin.npers + 1 .. st.npers), Ahead)
  BY DEF IndInv, WalkInv
<1>2. p \in Pers /\ EntryOf(p) \in Entries
  BY <1>1, Addresses, EntryRange DEF StateType, Pers
<1>3. Ahead = Waiting
  BY AheadWaits
<1>4. ASSUME p \in begin.pat \/ p > begin.npers
      PROVE  p \in Recorded(st, EntryOf(p)) \cup Waiting
  <2>1. p \in (begin.pat \cap Pers) \cup (begin.npers + 1 .. st.npers)
    BY <1>1, <1>2, <1>4
  <2> QED
    BY <1>1, <1>3, <2>1 DEF RecordsInv
<1>5. ASSUME p \in Recorded(st, EntryOf(p))
      PROVE  FixedPointer(st, p) = st.val[p]
  <2> DEFINE q == st.ptr[EntryOf(p)]
  <2>1. PICK i \in 1 .. q.idx : st.tabs[q.cm][i].loc = p
                                /\ FixedPointer(st, p) = st.tabs[q.cm][i].val
    BY <1>1, <1>2, <1>5, LastRecord, SMTT(30)
  <2> QED
    <3>1. st.tabs[q.cm][i].val = st.val[st.tabs[q.cm][i].loc]
      BY <1>1, <1>2 DEF RecordsInv
    <3> QED
      BY <2>1, <3>1
<1> QED
  BY <1>4, <1>5

-----------------------------------------------------------------------------
(* The theorems *)

(* The invariant holds in every state, whatever the program allocates,     *)
(* registers and stores and in whatever order a checkpoint walks the       *)
(* registered pointers.                                                    *)
THEOREM Invariance == Spec => []IndInv
  BY InitInv, NextInv, PTL DEF Spec

(* The state of the closure, of the slab and of the pointer pages has its  *)
(* types; the container never runs out of numbers for what it moves.       *)
THEOREM TypeCorrect == Spec => []TypeOK
  BY Invariance, IndInvType, PTL

(* persist_valloc moves an allocation once: no object is at two places.    *)
THEOREM OnePlaceCorrect == Spec => []AtOnePlace
<1>1. IndInv => AtOnePlace
  BY DEF IndInv, PlaceInv, AtOnePlace
<1> QED
  BY Invariance, <1>1, PTL

(* slab_bucket_cpoint never frees the pointer page that an entry uses.     *)
THEOREM PagesHeldCorrect == Spec => []PointerPageHeld
<1>1. IndInv => PointerPageHeld
  BY DEF IndInv, PagesInv, PointerPageHeld
<1> QED
  BY Invariance, <1>1, PTL

(* When move_volatile_allocations is over, the objects this checkpoint     *)
(* moved point into the container, but for those that the walk of dirty    *)
(* entries moves.                                                          *)
THEOREM ClosedCorrect == Spec => []MovedObjectsClosed
<1>1. IndInv => MovedObjectsClosed
  BY AheadWaits DEF IndInv, WalkInv, ClosedInv, MovedObjectsClosed
<1> QED
  BY Invariance, <1>1, PTL

(* A checkpoint redirects every registered pointer to an object of the     *)
(* container, from inside or outside, for every graph of objects and every *)
(* order in which the table of pointers is walked.                         *)
THEOREM FollowCorrect == Spec => []RegisteredPointersFollow
<1>1. Init => EdgesArePairs
  BY DEF Init, EdgesArePairs
<1> QED
  BY Invariance, <1>1, PairsNext, IndInvFollow, PTL DEF Spec

(* What a checkpoint records of the pointers of an entry that had no       *)
(* records is complete and reproduces the pointers.                        *)
THEOREM RecordsCorrect == Spec => []RecordsReproducePointers
  BY Invariance, IndInvRecords, PTL
=============================================================================

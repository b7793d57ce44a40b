------------------------ MODULE FixedMapperOpsProofs ------------------------
(***************************************************************************)
(* What each function of the fixed mapper does to a handler that satisfies *)
(* HandlerInv, for every size of the file and every protection flags.      *)
(***************************************************************************)
EXTENDS FixedMapperOps, SequenceTheorems, FiniteSetTheorems, TLAPS

-----------------------------------------------------------------------------
(* Lists *)

(* The pages that a growth links are a list without repetition of exactly  *)
(* the pages between the old and the new size.                             *)
LEMMA ConsecutiveIsList ==
    ASSUME NEW a \in Nat, NEW b \in Nat, a =< b
    PROVE  /\ Consecutive(a, b) \in Seq(a .. b - 1)
           /\ Len(Consecutive(a, b)) = b - a
           /\ \A i \in 1 .. b - a : Consecutive(a, b)[i] = a + i - 1
           /\ \A i, j \in 1 .. Len(Consecutive(a, b)) :
                  Consecutive(a, b)[i] = Consecutive(a, b)[j] => i = j
           /\ a < b => /\ Consecutive(a, b) # <<>>
                       /\ Consecutive(a, b)[Len(Consecutive(a, b))] = b - 1
           /\ PagesIn(Consecutive(a, b)) = a .. b - 1
<1> DEFINE c == Consecutive(a, b)
<1>1. b - a \in Nat
  OBVIOUS
<1>2. c \in [1 .. b - a -> a .. b - 1]
  BY DEF Consecutive
<1>3. c \in Seq(a .. b - 1)
  BY <1>1, <1>2, SeqDef, SMT
<1>4. Len(c) = b - a
  BY <1>1, <1>2, <1>3, LenProperties, SMT
<1>5. \A i \in 1 .. b - a : c[i] = a + i - 1
  BY DEF Consecutive
<1>6. PagesIn(c) = a .. b - 1
  <2>1. ASSUME NEW p \in a .. b - 1
        PROVE  p \in PagesIn(c)
    <3>1. p - a + 1 \in 1 .. Len(c) /\ c[p - a + 1] = p
      BY <1>4, <1>5
    <3> QED
      BY <3>1 DEF PagesIn
  <2>2. ASSUME NEW p \in PagesIn(c)
        PROVE  p \in a .. b - 1
    BY <1>2, <1>4 DEF PagesIn
  <2> QED
    BY <2>1, <2>2
<1>7. \A i, j \in 1 .. Len(c) : c[i] = c[j] => i = j
  BY <1>4, <1>5
<1>8. a < b => c # <<>> /\ c[Len(c)] = b - 1
  BY <1>4, <1>5
<1> QED
  BY <1>3, <1>4, <1>5, <1>6, <1>7, <1>8

(* LIST_INSERT_AFTER the last element of a list without repetition appends *)
(* to the list.                                                            *)
LEMMA InsertAfterLast ==
    ASSUME NEW S, NEW list \in Seq(S), list # <<>>, NEW p \in S,
           \A i, j \in 1 .. Len(list) : list[i] = list[j] => i = j
    PROVE  LIST_INSERT_AFTER(list, list[Len(list)], p) = Append(list, p)
<1> DEFINE n == Len(list)
<1>1. n \in Nat \ {0}
  BY EmptySeq
<1>2. list[n] \in PagesIn(list)
  BY <1>1 DEF PagesIn
<1>3. (CHOOSE j \in 1 .. n : list[j] = list[n]) = n
  BY <1>1
<1>4. SubSeq(list, 1, n) = list
  BY SubSeqFull
<1>5. SubSeq(list, n + 1, n) = <<>>
  BY <1>1, SubSeqEmpty
<1>6. <<p>> \in Seq(S)
  OBVIOUS
<1>7. list \o <<p>> \o <<>> = Append(list, p)
  <2>1. list \o <<p>> = Append(list, p)
    BY AppendIsConcat
  <2>2. Append(list, p) \in Seq(S)
    BY AppendProperties
  <2> QED
    BY <2>1, <2>2, ConcatEmptySeq
<1> QED
  BY <1>2, <1>3, <1>4, <1>5, <1>7 DEF LIST_INSERT_AFTER

(* Appending adds one page to those on the list. *)
LEMMA PagesInAppend ==
    ASSUME NEW S, NEW list \in Seq(S), NEW p \in S
    PROVE  PagesIn(Append(list, p)) = PagesIn(list) \cup {p}
<1> DEFINE l == Append(list, p)
<1>1. /\ Len(l) = Len(list) + 1 /\ Len(list) \in Nat
      /\ \A i \in 1 .. Len(list) : l[i] = list[i]
      /\ l[Len(list) + 1] = p
  BY AppendProperties, LenProperties
<1>2. ASSUME NEW q \in PagesIn(l)
      PROVE  q \in PagesIn(list) \cup {p}
  <2>1. PICK i \in 1 .. Len(l) : q = l[i]
    BY DEF PagesIn
  <2>2. CASE i = Len(list) + 1
    BY <1>1, <2>1, <2>2
  <2>3. CASE i # Len(list) + 1
    <3>1. i \in 1 .. Len(list) /\ q = list[i]
      BY <1>1, <2>1, <2>3
    <3> QED
      BY <3>1 DEF PagesIn
  <2> QED
    BY <2>2, <2>3
<1>3. ASSUME NEW q \in PagesIn(list)
      PROVE  q \in PagesIn(l)
  <2>1. PICK i \in 1 .. Len(list) : q = list[i]
    BY DEF PagesIn
  <2>2. i \in 1 .. Len(l) /\ l[i] = q
    BY <1>1, <2>1
  <2> QED
    BY <2>2 DEF PagesIn
<1>4. p \in PagesIn(l)
  <2>1. Len(list) + 1 \in 1 .. Len(l) /\ l[Len(list) + 1] = p
    BY <1>1
  <2> QED
    BY <2>1 DEF PagesIn
<1> QED
  BY <1>2, <1>3, <1>4

(* Taking the head of a list without repetition removes exactly one page.  *)
LEMMA PagesInTail ==
    ASSUME NEW S, NEW list \in Seq(S), list # <<>>,
           \A i, j \in 1 .. Len(list) : list[i] = list[j] => i = j
    PROVE  /\ Head(list) \in PagesIn(list)
           /\ PagesIn(Tail(list)) = PagesIn(list) \ {Head(list)}
           /\ \A i, j \in 1 .. Len(Tail(list)) : Tail(list)[i] = Tail(list)[j] => i = j
<1> DEFINE t == Tail(list)
<1>1. /\ Len(list) \in Nat \ {0} /\ Len(t) = Len(list) - 1
      /\ \A i \in 1 .. Len(t) : t[i] = list[i + 1]
      /\ Head(list) = list[1]
  BY EmptySeq, HeadTailProperties
<1>2. Head(list) \in PagesIn(list)
  BY <1>1 DEF PagesIn
<1>3. \A i, j \in 1 .. Len(t) : t[i] = t[j] => i = j
  <2> SUFFICES ASSUME NEW i \in 1 .. Len(t), NEW j \in 1 .. Len(t), t[i] = t[j]
               PROVE  i = j
    OBVIOUS
  <2>1. i + 1 \in 1 .. Len(list) /\ j + 1 \in 1 .. Len(list) /\ list[i + 1] = list[j + 1]
    BY <1>1
  <2> QED
    BY <2>1
<1>4. ASSUME NEW q \in PagesIn(t)
      PROVE  q \in PagesIn(list) \ {Head(list)}
  <2>1. PICK i \in 1 .. Len(t) : q = t[i]
    BY DEF PagesIn
  <2>2. i + 1 \in 1 .. Len(list) /\ q = list[i + 1] /\ i + 1 # 1 /\ 1 \in 1 .. Len(list)
    BY <1>1, <2>1
  <2>3. q # list[1]
    BY <2>2
  <2> QED
    BY <1>1, <2>2, <2>3 DEF PagesIn
<1>5. ASSUME NEW q \in PagesIn(list), q # Head(list)
      PROVE  q \in PagesIn(t)
  <2>1. PICK i \in 1 .. Len(list) : q = list[i]
    BY DEF PagesIn
  <2>2. i # 1
    BY <1>1, <1>5, <2>1
  <2>3. i - 1 \in 1 .. Len(t) /\ t[i - 1] = q
    BY <1>1, <2>1, <2>2
  <2> QED
    BY <2>3 DEF PagesIn
<1> QED
  BY <1>2, <1>3, <1>4, <1>5

-----------------------------------------------------------------------------
(* The functions *)

(* A handler whose list is empty and whose index has every page *)
Exhausted(h) ==
    /\ DOMAIN h = HandlerFields
    /\ h.fileSize \in Nat /\ h.stSize \in Nat /\ h.size = 0 /\ h.freeList = <<>>
    /\ DOMAIN h.index = Pages(h.fileSize)
    /\ \A p \in Pages(h.fileSize) : h.index[p] \in Prot

(* A growth, followed by a mapping of the file with protections pr *)
GrownWith(h, new, pr) == [fixed_mapper_grow_file(h, new) EXCEPT !.prot = pr]

(* fixed_mapper_grow_file on an exhausted handler, followed by a mapping   *)
(* of the file: the list is then the new pages, the index keeps what it    *)
(* said of the old ones, and the file is at least as long as file_size     *)
(* says.                                                                   *)
LEMMA GrowEmptyList ==
    ASSUME NEW h, NEW new \in Nat, NEW pr \in [Pages(new) -> Prot],
           Exhausted(h), h.fileSize < new
    PROVE  /\ HandlerInv(GrownWith(h, new, pr), Pages(h.fileSize))
           /\ Tracks(GrownWith(h, new, pr))
           /\ GrownWith(h, new, pr).fileSize = new
           /\ GrownWith(h, new, pr).stSize = posix_fallocate(h, new)
           /\ h.stSize =< GrownWith(h, new, pr).stSize
           /\ GrownWith(h, new, pr).freeList # <<>>
           /\ GrownWith(h, new, pr).index = GrownIndex(h, new)
           /\ GrownWith(h, new, pr).prot = pr
<1> DEFINE f == fixed_mapper_grow_file(h, new)
           g == GrownWith(h, new, pr)
           c == Consecutive(h.fileSize, new)
           x == GrownIndex(h, new)
<1>1. /\ DOMAIN h = HandlerFields
      /\ h.fileSize \in Nat /\ h.stSize \in Nat /\ h.size = 0 /\ h.freeList = <<>>
      /\ DOMAIN h.index = Pages(h.fileSize)
      /\ \A p \in Pages(h.fileSize) : h.index[p] \in Prot
  BY DEF Exhausted
<1>2. /\ c \in Seq(h.fileSize .. new - 1)
      /\ Len(c) = new - h.fileSize
      /\ \A i, j \in 1 .. Len(c) : c[i] = c[j] => i = j
      /\ c # <<>> /\ c[Len(c)] = new - 1
      /\ PagesIn(c) = h.fileSize .. new - 1
  <2>1. h.fileSize \in Nat /\ h.fileSize =< new
    BY <1>1
  <2>2. c # <<>> /\ c[Len(c)] = new - 1
    BY <2>1, ConsecutiveIsList, Zenon
  <2>3. \A i, j \in 1 .. Len(c) : c[i] = c[j] => i = j
    BY <2>1, ConsecutiveIsList, Zenon
  <2>4. /\ c \in Seq(h.fileSize .. new - 1)
        /\ Len(c) = new - h.fileSize
        /\ PagesIn(c) = h.fileSize .. new - 1
    BY <2>1, ConsecutiveIsList, Zenon
  <2> QED
    BY <2>2, <2>3, <2>4
<1> HIDE DEF c
<1>3. NewPages(h, new) \o h.freeList = c
  <2>1. NewPages(h, new) = c
    BY DEF NewPages, c
  <2> QED
    BY <1>1, <1>2, <2>1, ConcatEmptySeq
<1>4. x \in [Pages(new) -> Prot]
  BY <1>1, ProtAssumption DEF GrownIndex, Pages
<1>5. /\ DOMAIN f = HandlerFields /\ f.fileSize = new
      /\ f.stSize = posix_fallocate(h, new) /\ f.freeList = NewPages(h, new) \o h.freeList
      /\ f.last = new - 1 /\ f.size = h.size + (new - h.fileSize) /\ f.index = x
  BY <1>1 DEF fixed_mapper_grow_file, HandlerFields
<1> HIDE DEF f, x
<1>6. /\ DOMAIN g = HandlerFields /\ g.fileSize = new
      /\ g.stSize = posix_fallocate(h, new) /\ g.freeList = c /\ g.last = new - 1
      /\ g.size = new - h.fileSize /\ g.index = x /\ g.prot = pr
  BY <1>1, <1>3, <1>5 DEF HandlerFields, f, GrownWith
<1> HIDE DEF g
<1>7. ListSound(g)
  BY <1>1, <1>2, <1>6 DEF ListSound
<1>8. PagesIn(g.freeList) = Pages(new) \ Pages(h.fileSize)
  BY <1>1, <1>2, <1>6 DEF Pages
<1>9. /\ g.stSize \in Nat /\ new =< g.stSize /\ h.stSize =< g.stSize
  BY <1>1, <1>6 DEF posix_fallocate
<1>10. g.freeList \in Seq(Pages(new))
  BY <1>1, <1>2, <1>6, SeqMonotonic DEF Pages
<1>11. Pages(h.fileSize) \subseteq Pages(new) /\ Pages(h.fileSize) \subseteq Pages(g.stSize)
  BY <1>1, <1>9 DEF Pages
<1>12. HandlerInv(g, Pages(h.fileSize))
  BY <1>1, <1>4, <1>6, <1>7, <1>8, <1>9, <1>10, <1>11 DEF HandlerInv
<1>13. Tracks(g)
  BY <1>1, <1>4, <1>6 DEF Tracks
<1> QED
  BY <1>1, <1>2, <1>6, <1>9, <1>12, <1>13 DEF g, x

(* fixed_mapper_init of a new file: the index has every page, all pages    *)
(* are available.                                                          *)
LEMMA InitNewFile ==
    /\ HandlerInv(fixed_mapper_init(0), {})
    /\ Tracks(fixed_mapper_init(0))
    /\ fixed_mapper_init(0).fileSize = InitPages
    /\ fixed_mapper_init(0).stSize = InitPages
<1> DEFINE e == EmptyHandler(0)
           pr == [p \in Pages(InitPages) |-> DefaultProt]
           g == GrownWith(e, InitPages, pr)
<1>1. /\ DOMAIN e = HandlerFields
      /\ e.fileSize = 0 /\ e.stSize = 0 /\ e.size = 0 /\ e.freeList = <<>>
      /\ DOMAIN e.index = Pages(e.fileSize)
      /\ Pages(e.fileSize) = {}
  BY DEF EmptyHandler, Pages, HandlerFields
<1>2. InitPages \in Nat /\ e.fileSize < InitPages /\ e.fileSize \in Nat /\ e.stSize \in Nat
  BY <1>1, PagesAssumption
<1>3. pr \in [Pages(InitPages) -> Prot]
  BY ProtAssumption
<1>4. \A p \in Pages(e.fileSize) : e.index[p] \in Prot
  BY <1>1
<1>5. fixed_mapper_init(0) = g
  <2>1. fixed_mapper_grow_file(e, InitPages).fileSize = InitPages
    BY <1>1 DEF fixed_mapper_grow_file, HandlerFields
  <2> QED
    BY <2>1 DEF fixed_mapper_init, map_file, GrownWith
<1> HIDE DEF e, pr
<1>6. /\ HandlerInv(g, Pages(e.fileSize)) /\ Tracks(g)
      /\ g.fileSize = InitPages /\ g.stSize = posix_fallocate(e, InitPages)
  <2>1. Exhausted(e)
    BY <1>1, <1>2, <1>4 DEF Exhausted
  <2> QED
    BY <1>2, <1>3, <2>1, GrowEmptyList
<1>7. posix_fallocate(e, InitPages) = InitPages
  BY <1>1, <1>2 DEF posix_fallocate
<1> QED
  BY <1>1, <1>5, <1>6, <1>7

(* fixed_mapper_init of a file that exists: it is mapped and nothing is    *)
(* tracked.                                                                *)
LEMMA InitExistingFile ==
    ASSUME NEW n \in Nat \ {0}, NEW u \in SUBSET Pages(n)
    PROVE  /\ HandlerInv(fixed_mapper_init(n), u)
           /\ ~Tracks(fixed_mapper_init(n))
           /\ fixed_mapper_init(n).stSize = n
<1> DEFINE e == EmptyHandler(n)
           g == map_file(e, FALSE)
<1>1. fixed_mapper_init(n) = g
  BY DEF fixed_mapper_init
<1>2. /\ DOMAIN e = HandlerFields
      /\ e.fileSize = n /\ e.stSize = n /\ e.freeList = <<>> /\ e.last = NULL /\ e.size = 0
      /\ e.index = <<>>
  BY DEF EmptyHandler, HandlerFields
<1> HIDE DEF e
<1>3. /\ DOMAIN g = HandlerFields
      /\ g.fileSize = n /\ g.stSize = n /\ g.freeList = <<>> /\ g.last = NULL /\ g.size = 0
      /\ g.index = <<>> /\ g.prot = [p \in Pages(n) |-> DefaultProt]
  BY <1>2 DEF map_file, HandlerFields
<1> HIDE DEF g
<1>4. ListSound(g)
  BY <1>3 DEF ListSound
<1>5. g.prot \in [Pages(g.fileSize) -> Prot]
  BY <1>3, ProtAssumption
<1>6. HandlerInv(g, u)
  BY <1>3, <1>4, <1>5, EmptySeq DEF HandlerInv
<1>7. ~Tracks(g)
  BY <1>3 DEF Tracks, Pages
<1> QED
  BY <1>1, <1>3, <1>6, <1>7

(* Of a handler that satisfies HandlerInv: the index has every page or     *)
(* none, and an allocation that does not die finds it full.                *)
LEMMA TracksOrEmpty ==
    ASSUME NEW h, NEW u, HandlerInv(h, u)
    PROVE  /\ Tracks(h) <=> h.index \in [Pages(h.fileSize) -> Prot]
           /\ ~Tracks(h) => h.index = <<>> /\ h.freeList = <<>> /\ DOMAIN h.index = {}
           /\ Tracks(h) => /\ u \subseteq Pages(h.fileSize)
                           /\ PagesIn(h.freeList) = Pages(h.fileSize) \ u
           /\ h.size = 0 <=> h.freeList = <<>>
           /\ ~AllocDies(h) => Tracks(h)
<1>1. h.size = 0 <=> h.freeList = <<>>
  BY EmptySeq DEF HandlerInv, ListSound
<1>2. DOMAIN <<>> = {}
  OBVIOUS
<1>3. 0 \in Pages(h.fileSize)
  BY DEF HandlerInv, Pages
<1>4. CASE h.index \in [Pages(h.fileSize) -> Prot]
  BY <1>1, <1>2, <1>3, <1>4 DEF HandlerInv, Tracks, AllocDies
<1>5. CASE h.index = <<>> /\ h.freeList = <<>>
  BY <1>1, <1>2, <1>3, <1>5 DEF Tracks, AllocDies
<1> QED
  BY <1>4, <1>5 DEF HandlerInv

(* The first half of fixed_mapper_alloc_page, when it does not die: there  *)
(* is an available page afterwards; if the file had to grow, every page of *)
(* it was in use and the region has the protections of the index.          *)
LEMMA WithFreePageKeeps ==
    ASSUME NEW h, NEW u, HandlerInv(h, u), ~AllocDies(h)
    PROVE  /\ HandlerInv(WithFreePage(h), u)
           /\ Tracks(h) /\ Tracks(WithFreePage(h))
           /\ WithFreePage(h).freeList # <<>>
           /\ h.stSize =< WithFreePage(h).stSize
           /\ \/ h.size # 0 /\ WithFreePage(h) = h
              \/ /\ h.size = 0
                 /\ u = Pages(h.fileSize)
                 /\ WithFreePage(h).fileSize = 2 * h.fileSize
                 /\ WithFreePage(h).stSize = posix_fallocate(h, 2 * h.fileSize)
                 /\ WithFreePage(h).prot = WithFreePage(h).index
                 /\ \A p \in u : WithFreePage(h).index[p] = h.index[p]
<1>1. Tracks(h) /\ (h.size = 0 <=> h.freeList = <<>>)
  BY TracksOrEmpty
<1>2. CASE h.size # 0
  <2>1. WithFreePage(h) = h
    BY <1>2 DEF WithFreePage
  <2>2. h.stSize =< h.stSize
    BY DEF HandlerInv
  <2> QED
    BY <1>1, <1>2, <2>1, <2>2
<1>3. CASE h.size = 0
  <2> DEFINE n == h.fileSize
             x == GrownIndex(h, 2 * n)
             g == GrownWith(h, 2 * n, x)
  <2>1. n \in Nat \ {0} /\ 2 * n \in Nat /\ n < 2 * n
    BY DEF HandlerInv
  <2>2. h.index \in [Pages(n) -> Prot] /\ PagesIn(h.freeList) = Pages(n) \ u
        /\ u \subseteq Pages(n) /\ h.freeList = <<>>
    BY <1>1, <1>3, TracksOrEmpty
  <2>3. PagesIn(<<>>) = {}
    BY DEF PagesIn
  <2>4. u = Pages(n)
    BY <2>2, <2>3
  <2>5. Exhausted(h)
    BY <1>1, <1>3, <2>2 DEF Exhausted, HandlerInv
  <2>6. x \in [Pages(2 * n) -> Prot] /\ \A p \in Pages(n) : x[p] = h.index[p]
    BY <2>1, <2>2, ProtAssumption DEF GrownIndex, Pages
  <2>7. WithFreePage(h) = g
    <3> DEFINE f == fixed_mapper_grow_file(h, 2 * n)
    <3>1. f.fileSize = 2 * n /\ f.index = x
      BY <2>5 DEF fixed_mapper_grow_file, HandlerFields, Exhausted
    <3> HIDE DEF f
    <3>2. map_file(f, TRUE) = [f EXCEPT !.prot = [p \in Pages(2 * n) |-> x[p]]]
      BY <3>1 DEF map_file
    <3>3. [p \in Pages(2 * n) |-> x[p]] = x
      BY <2>6
    <3> QED
      BY <1>3, <3>2, <3>3 DEF WithFreePage, GrownWith, f
  <2> HIDE DEF n, x, g
  <2>8. /\ HandlerInv(g, u) /\ Tracks(g) /\ g.fileSize = 2 * n
        /\ g.stSize = posix_fallocate(h, 2 * n) /\ h.stSize =< g.stSize
        /\ g.freeList # <<>> /\ g.index = x /\ g.prot = x
    BY <2>1, <2>4, <2>5, <2>6, GrowEmptyList DEF n, g, x
  <2> QED
    BY <1>1, <1>3, <2>4, <2>6, <2>7, <2>8 DEF n
<1> QED
  BY <1>2, <1>3

(* The second half of fixed_mapper_alloc_page: the page it returns was not *)
(* in use and is so now, it has the protection asked for when that is      *)
(* writable, and nothing changes for the other pages.                      *)
LEMMA TakeFirstKeeps ==
    ASSUME NEW h, NEW u, HandlerInv(h, u), Tracks(h), h.freeList # <<>>,
           NEW flags \in Prot
    PROVE  /\ HandlerInv(TakeFirst(h, flags), u \cup {Head(h.freeList)})
           /\ Tracks(TakeFirst(h, flags))
           /\ Head(h.freeList) \in Pages(h.fileSize) \ u
           /\ TakeFirst(h, flags).fileSize = h.fileSize
           /\ TakeFirst(h, flags).stSize = h.stSize
           /\ \A p \in Pages(h.fileSize) \ {Head(h.freeList)} :
                 /\ TakeFirst(h, flags).prot[p] = h.prot[p]
                 /\ TakeFirst(h, flags).index[p] = h.index[p]
           /\ flags = "W" => /\ TakeFirst(h, flags).prot[Head(h.freeList)] = "W"
                             /\ TakeFirst(h, flags).index[Head(h.freeList)] = "W"
<1> DEFINE l == h.freeList
           t == Tail(l)
           p == Head(l)
           g == TakeFirst(h, flags)
           n == h.fileSize
<1>1. /\ DOMAIN h = HandlerFields /\ n \in Nat \ {0} /\ h.stSize \in Nat /\ n =< h.stSize
      /\ l \in Seq(Pages(n)) /\ ListSound(h) /\ h.prot \in [Pages(n) -> Prot]
      /\ u \subseteq Pages(h.stSize)
  BY DEF HandlerInv
<1>2. /\ h.index \in [Pages(n) -> Prot] /\ u \subseteq Pages(n)
      /\ PagesIn(l) = Pages(n) \ u
  BY TracksOrEmpty
<1>3. /\ h.size = Len(l) /\ h.last = l[Len(l)]
      /\ \A i, j \in 1 .. Len(l) : l[i] = l[j] => i = j
  BY <1>1 DEF ListSound
<1>4. /\ p \in PagesIn(l) /\ PagesIn(t) = PagesIn(l) \ {p}
      /\ \A i, j \in 1 .. Len(t) : t[i] = t[j] => i = j
  <2> HIDE DEF l
  <2> QED
    BY <1>1, <1>3, PagesInTail, Zenon DEF l
<1>5. /\ t \in Seq(Pages(n)) /\ Len(l) \in Nat \ {0} /\ Len(t) = Len(l) - 1
      /\ \A i \in 1 .. Len(t) : t[i] = l[i + 1]
  BY <1>1, HeadTailProperties, EmptySeq
<1>6. p \in Pages(n) \ u
  BY <1>2, <1>4
<1>7. /\ DOMAIN g = HandlerFields /\ g.fileSize = n /\ g.stSize = h.stSize
      /\ g.freeList = t /\ g.size = h.size - 1
      /\ g.last = IF h.size = 1 THEN NULL ELSE h.last
      /\ g.prot = [h.prot EXCEPT ![p] = IF flags = "W" THEN "W" ELSE h.prot[p]]
      /\ g.index = [h.index EXCEPT ![p] = flags]
  BY <1>1 DEF TakeFirst, HandlerFields
<1> HIDE DEF g, p, t, l
<1>8. ListSound(g)
  <2>1. CASE Len(l) = 1
    <3>1. t = <<>> /\ Len(t) = 0
      BY <1>5, <2>1, EmptySeq
    <3> QED
      BY <1>3, <1>4, <1>7, <2>1, <3>1 DEF ListSound
  <2>2. CASE Len(l) # 1
    <3>1. t # <<>> /\ Len(t) \in 1 .. Len(t) /\ Len(t) + 1 = Len(l)
      BY <1>5, <2>2, EmptySeq
    <3>2. t[Len(t)] = l[Len(l)]
      BY <1>5, <3>1
    <3>3. g.size = Len(t) /\ g.last = t[Len(t)]
      BY <1>3, <1>5, <1>7, <2>2, <3>2
    <3> QED
      BY <1>4, <1>7, <3>1, <3>3 DEF ListSound
  <2> QED
    BY <2>1, <2>2
<1>9. g.prot \in [Pages(n) -> Prot] /\ g.index \in [Pages(n) -> Prot]
  BY <1>1, <1>2, <1>6, <1>7 DEF Prot
<1>10. /\ u \cup {p} \subseteq Pages(n) /\ u \cup {p} \subseteq Pages(h.stSize)
       /\ PagesIn(g.freeList) = Pages(n) \ (u \cup {p})
  BY <1>1, <1>2, <1>4, <1>6, <1>7 DEF Pages
<1>11. HandlerInv(g, u \cup {p})
  BY <1>1, <1>5, <1>7, <1>8, <1>9, <1>10 DEF HandlerInv
<1>12. Tracks(g)
  BY <1>7, <1>9 DEF Tracks
<1>13. /\ \A q \in Pages(n) \ {p} : g.prot[q] = h.prot[q] /\ g.index[q] = h.index[q]
       /\ flags = "W" => g.prot[p] = "W" /\ g.index[p] = "W"
  BY <1>1, <1>2, <1>6, <1>7
<1> QED
  BY <1>6, <1>7, <1>11, <1>12, <1>13 DEF g, p, l

(* fixed_mapper_freepages of a page in use, when it does not die: the page *)
(* is at the end of the list, whether the list was empty or not.           *)
LEMMA FreepagesKeeps ==
    ASSUME NEW h, NEW u, HandlerInv(h, u), NEW p \in u, ~FreeDies(h, p)
    PROVE  /\ HandlerInv(fixed_mapper_freepages(h, p), u \ {p})
           /\ Tracks(h) /\ Tracks(fixed_mapper_freepages(h, p))
           /\ fixed_mapper_freepages(h, p).fileSize = h.fileSize
           /\ fixed_mapper_freepages(h, p).stSize = h.stSize
           /\ fixed_mapper_freepages(h, p).prot = h.prot
           /\ fixed_mapper_freepages(h, p).index = h.index
<1> DEFINE l == h.freeList
           a == Append(l, p)
           g == fixed_mapper_freepages(h, p)
           n == h.fileSize
<1>1. /\ DOMAIN h = HandlerFields /\ n \in Nat \ {0} /\ h.stSize \in Nat /\ n =< h.stSize
      /\ l \in Seq(Pages(n)) /\ ListSound(h) /\ h.prot \in [Pages(n) -> Prot]
      /\ u \subseteq Pages(h.stSize)
  BY DEF HandlerInv
<1>2. Tracks(h)
  BY TracksOrEmpty DEF FreeDies
<1>3. /\ h.index \in [Pages(n) -> Prot] /\ u \subseteq Pages(n)
      /\ PagesIn(l) = Pages(n) \ u
  BY <1>2, TracksOrEmpty
<1>4. /\ h.size = Len(l) /\ \A i, j \in 1 .. Len(l) : l[i] = l[j] => i = j
      /\ h.last = IF l = <<>> THEN NULL ELSE l[Len(l)]
  BY <1>1 DEF ListSound
<1>5. p \in Pages(n) /\ p \notin PagesIn(l)
  BY <1>3
<1>6. /\ a \in Seq(Pages(n)) /\ a # <<>> /\ Len(l) \in Nat /\ Len(a) = Len(l) + 1
      /\ (\A i \in 1 .. Len(l) : a[i] = l[i]) /\ a[Len(l) + 1] = p
      /\ PagesIn(a) = PagesIn(l) \cup {p}
  BY <1>1, <1>5, AppendProperties, PagesInAppend, LenProperties
<1>7. (IF h.last # NULL THEN LIST_INSERT_AFTER(l, h.last, p) ELSE LIST_INSERT_HEAD(l, p)) = a
  <2>1. CASE l = <<>>
    <3>1. <<p>> \o <<>> = Append(<<>>, p)
      OBVIOUS
    <3> QED
      BY <1>4, <2>1, <3>1 DEF LIST_INSERT_HEAD
  <2>2. CASE l # <<>>
    <3>1. l[Len(l)] \in Pages(n)
      BY <1>1, <2>2, EmptySeq, ElementOfSeq
    <3>2. h.last # NULL /\ h.last = l[Len(l)]
      BY <1>4, <2>2, <3>1, NullAssumption DEF Pages
    <3>3. LIST_INSERT_AFTER(l, l[Len(l)], p) = a
      <4> HIDE DEF l
      <4> QED
        BY <1>1, <1>4, <1>5, <2>2, InsertAfterLast, Zenon
    <3> QED
      BY <3>2, <3>3
  <2> QED
    BY <2>1, <2>2
<1>8. /\ DOMAIN g = HandlerFields /\ g.fileSize = n /\ g.stSize = h.stSize
      /\ g.freeList = a /\ g.last = p /\ g.size = h.size + 1
      /\ g.prot = h.prot /\ g.index = h.index
  <2>1. /\ DOMAIN g = HandlerFields /\ g.fileSize = n /\ g.stSize = h.stSize
        /\ g.freeList = IF h.last # NULL THEN LIST_INSERT_AFTER(l, h.last, p)
                                         ELSE LIST_INSERT_HEAD(l, p)
        /\ g.last = p /\ g.size = h.size + 1 /\ g.prot = h.prot /\ g.index = h.index
    BY <1>1 DEF fixed_mapper_freepages, HandlerFields
  <2> QED
    BY <1>7, <2>1
<1> HIDE DEF g, a, l
<1>9. ListSound(g)
  <2>1. \A i \in 1 .. Len(l) : l[i] # p
    BY <1>5 DEF PagesIn
  <2>2. ASSUME NEW i \in 1 .. Len(a), NEW j \in 1 .. Len(a), a[i] = a[j]
        PROVE  i = j
    <3>1. CASE i \in 1 .. Len(l) /\ j \in 1 .. Len(l)
      BY <1>4, <1>6, <2>2, <3>1
    <3>2. CASE i = Len(l) + 1 \/ j = Len(l) + 1
      BY <1>6, <2>1, <2>2, <3>2
    <3> QED
      BY <1>6, <3>1, <3>2
  <2> QED
    BY <1>4, <1>6, <1>8, <2>2 DEF ListSound
<1>10. /\ u \ {p} \subseteq Pages(n) /\ u \ {p} \subseteq Pages(h.stSize)
       /\ PagesIn(g.freeList) = Pages(n) \ (u \ {p})
  BY <1>1, <1>3, <1>5, <1>6, <1>8
<1>11. HandlerInv(g, u \ {p})
  BY <1>1, <1>3, <1>6, <1>8, <1>9, <1>10 DEF HandlerInv
<1>12. Tracks(g)
  BY <1>3, <1>8 DEF Tracks
<1> QED
  BY <1>2, <1>8, <1>11, <1>12 DEF g

(* page_allocator_mprotect changes the protection of one page only. *)
LEMMA MprotectKeeps ==
    ASSUME NEW h, NEW u, HandlerInv(h, u), NEW p, NEW flags \in Prot
    PROVE  LET g == page_allocator_mprotect_generic(h, p, flags) IN
           /\ HandlerInv(g, u)
           /\ g.fileSize = h.fileSize /\ g.stSize = h.stSize /\ g.index = h.index
           /\ \A q \in Pages(h.fileSize) \ {p} : g.prot[q] = h.prot[q]
<1> DEFINE g == page_allocator_mprotect_generic(h, p, flags)
<1>1. /\ DOMAIN g = HandlerFields /\ g.fileSize = h.fileSize /\ g.stSize = h.stSize
      /\ g.freeList = h.freeList /\ g.last = h.last /\ g.size = h.size
      /\ g.prot = [h.prot EXCEPT ![p] = flags] /\ g.index = h.index
  BY DEF page_allocator_mprotect_generic, HandlerFields, HandlerInv
<1> HIDE DEF g
<1>2. g.prot \in [Pages(h.fileSize) -> Prot]
  BY <1>1 DEF HandlerInv
<1>3. ListSound(g)
  BY <1>1 DEF HandlerInv, ListSound
<1>4. HandlerInv(g, u)
  BY <1>1, <1>2, <1>3 DEF HandlerInv
<1>5. \A q \in Pages(h.fileSize) \ {p} : g.prot[q] = h.prot[q]
  BY <1>1 DEF HandlerInv
<1> QED
  BY <1>1, <1>4, <1>5 DEF g

-----------------------------------------------------------------------------
(* The functions, in terms of the pages that are not available *)

(* An allocation that does not die takes a page that was available and     *)
(* leaves the others as they were.                                         *)
LEMMA AllocTakes ==
    ASSUME NEW h, HandlerInv(h, InUse(h)), CanAlloc(h), ~AllocDies(h), NEW flags \in Prot,
           h.stSize =< MaxPages
    PROVE  LET g == fixed_mapper_alloc_page(h, flags)
               p == AllocatedPage(h)
           IN  /\ HandlerInv(g, InUse(g)) /\ Tracks(h) /\ Tracks(g)
               /\ p \notin InUse(h) /\ p \in Pages(g.stSize)
               /\ InUse(g) = InUse(h) \cup {p}
               /\ h.stSize =< g.stSize /\ g.stSize =< MaxPages
<1> DEFINE u == InUse(h)
           w == WithFreePage(h)
           p == Head(w.freeList)
           g == TakeFirst(w, flags)
<1>1. /\ HandlerInv(w, u) /\ Tracks(h) /\ Tracks(w) /\ w.freeList # <<>> /\ h.stSize =< w.stSize
      /\ \/ h.size # 0 /\ w = h
         \/ h.size = 0 /\ w.stSize = posix_fallocate(h, 2 * h.fileSize)
  BY WithFreePageKeeps
<1>2. g = fixed_mapper_alloc_page(h, flags) /\ p = AllocatedPage(h)
  BY DEF fixed_mapper_alloc_page, AllocatedPage
<1>3. w.stSize =< MaxPages
  BY <1>1 DEF CanAlloc
<1> HIDE DEF w
<1>4. /\ HandlerInv(g, u \cup {p}) /\ Tracks(g) /\ p \in Pages(w.fileSize) \ u
      /\ g.fileSize = w.fileSize /\ g.stSize = w.stSize
  BY <1>1, TakeFirstKeeps
<1> HIDE DEF g, p, u
<1>5. InUse(g) = u \cup {p}
  BY <1>4, TracksOrEmpty DEF InUse
<1>6. p \in Pages(g.stSize)
  BY <1>4 DEF HandlerInv
<1> QED
  BY <1>1, <1>2, <1>3, <1>4, <1>5, <1>6 DEF u

(* An allocation leaves the file as long as it was, or twice as long. *)
LEMMA AllocNeverShrinks ==
    ASSUME NEW h, HandlerInv(h, InUse(h)), ~AllocDies(h), NEW flags \in Prot
    PROVE  /\ h.fileSize \in Nat /\ fixed_mapper_alloc_page(h, flags).fileSize \in Nat
           /\ h.fileSize =< fixed_mapper_alloc_page(h, flags).fileSize
<1> DEFINE w == WithFreePage(h)
<1>1. /\ HandlerInv(w, InUse(h)) /\ Tracks(w) /\ w.freeList # <<>>
      /\ w = h \/ w.fileSize = 2 * h.fileSize
  BY WithFreePageKeeps
<1>2. h.fileSize \in Nat /\ w.fileSize \in Nat
  BY <1>1 DEF HandlerInv
<1> HIDE DEF w
<1>3. TakeFirst(w, flags).fileSize = w.fileSize
  BY <1>1, TakeFirstKeeps
<1>4. h.fileSize =< w.fileSize
  BY <1>1, <1>2
<1> QED
  BY <1>2, <1>3, <1>4 DEF fixed_mapper_alloc_page, w

(* An allocation that does not make the file longer changes the protection *)
(* of no page in use.                                                      *)
LEMMA AllocWithoutGrowth ==
    ASSUME NEW h, HandlerInv(h, InUse(h)), CanAlloc(h), ~AllocDies(h), NEW flags \in Prot,
           fixed_mapper_alloc_page(h, flags).fileSize = h.fileSize
    PROVE  \A p \in InUse(h) : fixed_mapper_alloc_page(h, flags).prot[p] = h.prot[p]
<1> DEFINE w == WithFreePage(h)
           u == InUse(h)
<1>1. /\ HandlerInv(w, u) /\ Tracks(w) /\ w.freeList # <<>>
      /\ \/ h.size # 0 /\ w = h
         \/ w.fileSize = 2 * h.fileSize
  BY WithFreePageKeeps
<1> HIDE DEF w
<1>2. /\ TakeFirst(w, flags).fileSize = w.fileSize
      /\ Head(w.freeList) \in Pages(w.fileSize) \ u
  BY <1>1, TakeFirstKeeps
<1>3. ASSUME NEW p \in Pages(w.fileSize) \ {Head(w.freeList)}
      PROVE  TakeFirst(w, flags).prot[p] = w.prot[p]
  <2>1. DOMAIN w = HandlerFields /\ w.prot \in [Pages(w.fileSize) -> Prot]
    BY <1>1 DEF HandlerInv
  <2> QED
    BY <2>1 DEF TakeFirst, HandlerFields
<1>4. w = h
  <2>1. TakeFirst(w, flags).fileSize = h.fileSize
    BY DEF fixed_mapper_alloc_page, w
  <2>2. h.fileSize \in Nat \ {0}
    BY DEF HandlerInv
  <2>3. 2 * h.fileSize # h.fileSize
    BY <2>2
  <2> QED
    BY <1>1, <1>2, <2>1, <2>3
<1> QED
  BY <1>2, <1>3, <1>4 DEF fixed_mapper_alloc_page, w, InUse

(* A free that does not die makes the page available and nothing else. *)
LEMMA FreeGivesBack ==
    ASSUME NEW h, HandlerInv(h, InUse(h)), NEW p \in InUse(h), ~FreeDies(h, p)
    PROVE  LET g == fixed_mapper_freepages(h, p)
           IN  /\ HandlerInv(g, InUse(g)) /\ Tracks(h) /\ Tracks(g)
               /\ InUse(g) = InUse(h) \ {p}
               /\ g.stSize = h.stSize
<1> DEFINE u == InUse(h)
           g == fixed_mapper_freepages(h, p)
<1>1. /\ HandlerInv(g, u \ {p}) /\ Tracks(h) /\ Tracks(g) /\ g.fileSize = h.fileSize
      /\ g.stSize = h.stSize
  BY FreepagesKeeps
<1> HIDE DEF g, u
<1>2. PagesIn(g.freeList) = Pages(g.fileSize) \ (u \ {p}) /\ u \ {p} \subseteq Pages(g.fileSize)
  BY <1>1, TracksOrEmpty
<1>3. InUse(g) = u \ {p}
  BY <1>2 DEF InUse
<1> QED
  BY <1>1, <1>3 DEF g, u

(* A change of protections leaves the list and the index alone. *)
LEMMA ProtKeeps ==
    ASSUME NEW h, HandlerInv(h, InUse(h)), NEW pr \in [Pages(h.fileSize) -> Prot]
    PROVE  LET g == [h EXCEPT !.prot = pr]
           IN  /\ HandlerInv(g, InUse(g)) /\ InUse(g) = InUse(h)
               /\ Tracks(g) <=> Tracks(h)
               /\ g.stSize = h.stSize
<1> DEFINE g == [h EXCEPT !.prot = pr]
<1>1. /\ DOMAIN g = HandlerFields /\ g.fileSize = h.fileSize /\ g.stSize = h.stSize
      /\ g.freeList = h.freeList /\ g.last = h.last /\ g.size = h.size
      /\ g.prot = pr /\ g.index = h.index
  BY DEF HandlerFields, HandlerInv
<1> HIDE DEF g
<1>2. ListSound(g)
  BY <1>1 DEF HandlerInv, ListSound
<1>3. HandlerInv(g, InUse(h))
  BY <1>1, <1>2 DEF HandlerInv
<1> QED
  BY <1>1, <1>3 DEF InUse, Tracks, g

(* page_allocator_mprotect is such a change. *)
LEMMA MprotectIsProt ==
    ASSUME NEW h, HandlerInv(h, InUse(h)), NEW p, NEW flags \in Prot
    PROVE  LET g == page_allocator_mprotect_generic(h, p, flags)
           IN  /\ HandlerInv(g, InUse(g)) /\ InUse(g) = InUse(h)
               /\ Tracks(g) <=> Tracks(h)
               /\ g.stSize = h.stSize
<1> DEFINE pr == [h.prot EXCEPT ![p] = flags]
           g == page_allocator_mprotect_generic(h, p, flags)
<1>1. g = [h EXCEPT !.prot = pr]
  BY DEF page_allocator_mprotect_generic
<1>2. pr \in [Pages(h.fileSize) -> Prot]
  BY DEF HandlerInv
<1> HIDE DEF pr, g
<1>3. /\ HandlerInv(g, InUse(g)) /\ InUse(g) = InUse(h)
      /\ Tracks(g) <=> Tracks(h)
      /\ g.stSize = h.stSize
  BY <1>1, <1>2, ProtKeeps
<1> QED
  BY <1>3 DEF g

(* Nothing is available in a file that existed. *)
LEMMA InitUsesAll ==
    ASSUME NEW n \in Nat \ {0}
    PROVE  LET h == fixed_mapper_init(n)
           IN  /\ HandlerInv(h, InUse(h)) /\ InUse(h) = Pages(n) /\ ~Tracks(h)
               /\ h.stSize = n /\ DOMAIN h.prot = Pages(h.fileSize)
<1> DEFINE h == fixed_mapper_init(n)
<1>1. h = [EmptyHandler(n) EXCEPT !.prot = [p \in Pages(EmptyHandler(n).fileSize) |-> DefaultProt]]
  BY DEF fixed_mapper_init, map_file
<1>2. h.fileSize = n /\ h.freeList = <<>>
  BY <1>1 DEF EmptyHandler
<1>3. InUse(h) = Pages(n)
  BY <1>2 DEF InUse, PagesIn
<1>4. HandlerInv(h, InUse(h)) /\ ~Tracks(h) /\ h.stSize = n
  BY <1>3, InitExistingFile
<1> QED
  BY <1>3, <1>4 DEF HandlerInv

-----------------------------------------------------------------------------
(* The first allocations *)

(* The pages below k are in use and the others are on the list in order. *)
InOrder(h, k) ==
    /\ HandlerInv(h, InUse(h)) /\ Tracks(h) /\ h.stSize =< MaxPages
    /\ k \in 0 .. h.fileSize /\ InUse(h) = Pages(k)
    /\ Len(h.freeList) = h.fileSize - k
    /\ \A i \in 1 .. h.fileSize - k : h.freeList[i] = k + i - 1

(* A growth of a handler without available pages puts the new ones on the  *)
(* list in order.                                                          *)
LEMMA GrownInOrder ==
    ASSUME NEW h, NEW new \in Nat, NEW pr \in [Pages(new) -> Prot],
           Exhausted(h), h.fileSize < new, posix_fallocate(h, new) =< MaxPages
    PROVE  InOrder(GrownWith(h, new, pr), h.fileSize)
<1> DEFINE g == GrownWith(h, new, pr)
           n == h.fileSize
<1>1. /\ HandlerInv(g, Pages(n)) /\ Tracks(g) /\ g.fileSize = new
      /\ g.stSize = posix_fallocate(h, new)
  BY GrowEmptyList
<1>2. n \in Nat /\ n =< new
  BY DEF Exhausted
<1>3. g.freeList = Consecutive(n, new)
  <2>1. g.freeList = NewPages(h, new) \o h.freeList
    BY DEF GrownWith, fixed_mapper_grow_file, Exhausted, HandlerFields
  <2>2. Consecutive(n, new) \in Seq(n .. new - 1)
    BY <1>2, ConsecutiveIsList, Zenon
  <2> QED
    BY <2>1, <2>2, ConcatEmptySeq DEF Exhausted, NewPages
<1>4. Len(Consecutive(n, new)) = new - n
  BY <1>2, ConsecutiveIsList, Zenon
<1>5. \A i \in 1 .. new - n : Consecutive(n, new)[i] = n + i - 1
  BY <1>2, ConsecutiveIsList, Zenon
<1> HIDE DEF g
<1>6. InUse(g) = Pages(n)
  BY <1>1, TracksOrEmpty DEF InUse
<1> QED
  BY <1>1, <1>2, <1>3, <1>4, <1>5, <1>6 DEF InOrder, g

(* A new file gives its pages out in order. *)
LEMMA InitInOrder == InOrder(fixed_mapper_init(0), 0)
<1> DEFINE e == EmptyHandler(0)
           pr == [p \in Pages(InitPages) |-> DefaultProt]
<1>1. Exhausted(e) /\ e.fileSize = 0 /\ e.stSize = 0
  BY DEF EmptyHandler, Pages, HandlerFields, Exhausted
<1>2. fixed_mapper_init(0) = GrownWith(e, InitPages, pr)
  <2>1. fixed_mapper_grow_file(e, InitPages).fileSize = InitPages
    BY <1>1 DEF fixed_mapper_grow_file, HandlerFields, Exhausted
  <2> QED
    BY <2>1 DEF fixed_mapper_init, map_file, GrownWith
<1>3. pr \in [Pages(InitPages) -> Prot]
  BY ProtAssumption
<1> HIDE DEF e, pr
<1>4. posix_fallocate(e, InitPages) =< MaxPages
  BY <1>1, PagesAssumption DEF posix_fallocate
<1> QED
  BY <1>1, <1>2, <1>3, <1>4, GrownInOrder, PagesAssumption

(* The next allocation gets the next page, whether the file has to grow    *)
(* for it or not.                                                          *)
LEMMA AllocInOrder ==
    ASSUME NEW h, NEW k, InOrder(h, k), CanAlloc(h), NEW flags \in Prot
    PROVE  InOrder(fixed_mapper_alloc_page(h, flags), k + 1) /\ AllocatedPage(h) = k
<1> DEFINE w == WithFreePage(h)
           g == TakeFirst(w, flags)
           n == w.fileSize
<1>0. HandlerInv(h, InUse(h)) /\ Tracks(h) /\ ~AllocDies(h) /\ h.stSize =< MaxPages
  BY DEF InOrder, AllocDies
<1>1. InOrder(w, k) /\ w.freeList # <<>>
  <2>1. w.freeList # <<>>
    BY <1>0, WithFreePageKeeps
  <2>2. CASE h.size # 0
    BY <2>1, <2>2 DEF WithFreePage
  <2>3. CASE h.size = 0
    <3> DEFINE m == h.fileSize
               x == GrownIndex(h, 2 * m)
               f == fixed_mapper_grow_file(h, 2 * m)
    <3>1. /\ m \in Nat \ {0} /\ h.index \in [Pages(m) -> Prot] /\ h.freeList = <<>>
      BY <1>0, <2>3, TracksOrEmpty DEF HandlerInv
    <3>2. Exhausted(h)
      BY <1>0, <2>3, <3>1 DEF Exhausted, HandlerInv
    <3>3. x \in [Pages(2 * m) -> Prot]
      BY <3>1, ProtAssumption DEF GrownIndex, Pages
    <3>4. w = GrownWith(h, 2 * m, x)
      <4>1. f.fileSize = 2 * m /\ f.index = x
        BY <3>2 DEF fixed_mapper_grow_file, HandlerFields, Exhausted
      <4> HIDE DEF f
      <4>2. map_file(f, TRUE) = [f EXCEPT !.prot = [p \in Pages(2 * m) |-> x[p]]]
        BY <4>1 DEF map_file
      <4>3. [p \in Pages(2 * m) |-> x[p]] = x
        BY <3>3
      <4> QED
        BY <2>3, <4>2, <4>3 DEF WithFreePage, GrownWith, f
    <3>5. k = m
      BY <3>1 DEF InOrder
    <3>6. posix_fallocate(h, 2 * m) =< MaxPages
      BY <2>3 DEF CanAlloc
    <3> HIDE DEF x
    <3> QED
      BY <2>1, <3>1, <3>2, <3>3, <3>4, <3>5, <3>6, GrownInOrder
  <2> QED
    BY <2>2, <2>3
<1>2. g = fixed_mapper_alloc_page(h, flags) /\ AllocatedPage(h) = Head(w.freeList)
  BY DEF fixed_mapper_alloc_page, AllocatedPage
<1> HIDE DEF w
<1>3. /\ HandlerInv(w, InUse(w)) /\ Tracks(w) /\ k \in 0 .. n /\ InUse(w) = Pages(k)
      /\ Len(w.freeList) = n - k /\ w.stSize =< MaxPages
      /\ \A i \in 1 .. n - k : w.freeList[i] = k + i - 1
  BY <1>1 DEF InOrder
<1>4. n \in Nat \ {0} /\ w.freeList \in Seq(Pages(n)) /\ DOMAIN w = HandlerFields
  BY <1>3 DEF HandlerInv
<1>5. /\ Head(w.freeList) = w.freeList[1]
      /\ Len(Tail(w.freeList)) = n - k - 1
      /\ \A i \in 1 .. n - k - 1 : Tail(w.freeList)[i] = w.freeList[i + 1]
      /\ Len(w.freeList) # 0
  <2> DEFINE l == w.freeList
  <2>1. l \in Seq(Pages(n)) /\ l # <<>> /\ Len(l) = n - k
    BY <1>1, <1>3, <1>4
  <2> HIDE DEF l
  <2>2. /\ Head(l) = l[1] /\ Len(Tail(l)) = Len(l) - 1 /\ Len(l) # 0
        /\ \A i \in 1 .. Len(Tail(l)) : Tail(l)[i] = l[i + 1]
    BY <2>1, HeadTailProperties, EmptySeq
  <2>3. Len(Tail(l)) = n - k - 1
    BY <2>1, <2>2
  <2> QED
    BY <2>2, <2>3, Zenon DEF l
<1>6. Head(w.freeList) = k /\ k + 1 \in 0 .. n
  <2>1. k \in Nat /\ k =< n /\ n - k # 0
    BY <1>3, <1>4, <1>5
  <2>2. 1 \in 1 .. n - k
    BY <1>4, <2>1
  <2>3. w.freeList[1] = k + 1 - 1
    BY <1>3, <2>2
  <2> QED
    BY <1>4, <1>5, <2>1, <2>3
<1>7. /\ HandlerInv(g, Pages(k) \cup {k}) /\ Tracks(g) /\ g.fileSize = n /\ g.stSize = w.stSize
  BY <1>1, <1>3, <1>6, TakeFirstKeeps
<1>8. g.freeList = Tail(w.freeList)
  BY <1>4 DEF TakeFirst, HandlerFields
<1> HIDE DEF g
<1>9. Pages(k) \cup {k} = Pages(k + 1)
  BY <1>3, <1>4 DEF Pages
<1>10. InUse(g) = Pages(k + 1)
  BY <1>7, <1>9, TracksOrEmpty DEF InUse
<1>11. \A i \in 1 .. n - (k + 1) : g.freeList[i] = (k + 1) + i - 1
  <2> SUFFICES ASSUME NEW i \in 1 .. n - (k + 1)
               PROVE  g.freeList[i] = (k + 1) + i - 1
    OBVIOUS
  <2>1. i \in 1 .. n - k - 1 /\ i + 1 \in 1 .. n - k
    BY <1>3, <1>4
  <2>2. g.freeList[i] = w.freeList[i + 1] /\ w.freeList[i + 1] = k + (i + 1) - 1
    BY <1>3, <1>5, <1>8, <2>1
  <2> QED
    BY <1>3, <2>2
<1>12. Len(g.freeList) = n - (k + 1)
  BY <1>3, <1>4, <1>5, <1>8
<1> QED
  BY <1>2, <1>3, <1>6, <1>7, <1>9, <1>10, <1>11, <1>12 DEF InOrder
=============================================================================

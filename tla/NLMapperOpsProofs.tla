------------------------- MODULE NLMapperOpsProofs -------------------------
(***************************************************************************)
(* What each function of the non-linear mapper does to a handler that      *)
(* satisfies HandlerInv, for every size of the file.                       *)
(***************************************************************************)
EXTENDS NLMapperOps, SequenceTheorems, FiniteSetTheorems, TLAPS

-----------------------------------------------------------------------------
(* Lists *)

(* the slots a, a+1, ..., b-1, as add_pages_to_free_list links them *)
NewSlots(a, b) == [i \in 1 .. b - a |-> a + i - 1]

(* The slots that a growth links are a list without repetition of exactly  *)
(* the slots between the old and the new size.                             *)
LEMMA NewSlotsIsList ==
    ASSUME NEW a \in Nat, NEW b \in Nat, a < b
    PROVE  /\ NewSlots(a, b) \in Seq(a .. b - 1)
           /\ Len(NewSlots(a, b)) = b - a
           /\ NoRepeat(NewSlots(a, b))
           /\ NewSlots(a, b) # <<>>
           /\ NewSlots(a, b)[b - a] = b - 1
           /\ SlotsIn(NewSlots(a, b)) = a .. b - 1
<1> DEFINE c == NewSlots(a, b)
<1>1. b - a \in Nat /\ 0 < b - a
  OBVIOUS
<1>2. c \in [1 .. b - a -> a .. b - 1]
  BY DEF NewSlots
<1>3. c \in Seq(a .. b - 1)
  BY <1>1, <1>2, SeqDef, SMT
<1>4. Len(c) = b - a
  BY <1>1, <1>2, <1>3, LenProperties, SMT
<1>5. \A i \in 1 .. b - a : c[i] = a + i - 1
  BY DEF NewSlots
<1>6. SlotsIn(c) = a .. b - 1
  <2>1. ASSUME NEW p \in a .. b - 1
        PROVE  p \in SlotsIn(c)
    <3>1. p - a + 1 \in DOMAIN c /\ c[p - a + 1] = p
      BY <1>2, <1>5
    <3> QED
      BY <3>1 DEF SlotsIn
  <2>2. ASSUME NEW p \in SlotsIn(c)
        PROVE  p \in a .. b - 1
    BY <1>2 DEF SlotsIn
  <2> QED
    BY <2>1, <2>2
<1>7. NoRepeat(c)
  <2> SUFFICES ASSUME NEW i \in 1 .. b - a, NEW j \in 1 .. b - a, c[i] = c[j]
               PROVE  i = j
    BY <1>4 DEF NoRepeat
  <2> QED
    BY <1>5
<1>8. c # <<>> /\ c[b - a] = b - 1
  BY <1>1, <1>4, <1>5
<1> QED
  BY <1>3, <1>4, <1>6, <1>7, <1>8

(* LIST_INSERT_AFTER the last element of a list without repetition appends *)
(* to the list.                                                            *)
LEMMA InsertAfterLast ==
    ASSUME NEW S, NEW list \in Seq(S), list # <<>>, NEW p \in S, NoRepeat(list)
    PROVE  LET i == CHOOSE j \in DOMAIN list : list[j] = list[Len(list)]
           IN  SubSeq(list, 1, i) \o <<p>> \o SubSeq(list, i + 1, Len(list))
                   = Append(list, p)
<1> DEFINE n == Len(list)
<1>1. n \in Nat \ {0} /\ DOMAIN list = 1 .. n
  BY EmptySeq, LenProperties
<1>2. (CHOOSE j \in DOMAIN list : list[j] = list[n]) = n
  BY <1>1 DEF NoRepeat
<1>3. SubSeq(list, 1, n) = list
  BY SubSeqFull
<1>4. SubSeq(list, n + 1, n) = <<>>
  BY <1>1, SubSeqEmpty
<1>5. list \o <<p>> \o <<>> = Append(list, p)
  <2>1. list \o <<p>> = Append(list, p)
    BY AppendIsConcat
  <2>2. Append(list, p) \in Seq(S)
    BY AppendProperties
  <2> QED
    BY <2>1, <2>2, ConcatEmptySeq
<1> QED
  BY <1>2, <1>3, <1>4, <1>5

(* Appending a slot that is not on the list adds it and repeats nothing.   *)
LEMMA SlotsInAppend ==
    ASSUME NEW S, NEW list \in Seq(S), NEW p \in S, NoRepeat(list), p \notin SlotsIn(list)
    PROVE  /\ Append(list, p) \in Seq(S) /\ Append(list, p) # <<>>
           /\ Len(Append(list, p)) = Len(list) + 1
           /\ Append(list, p)[Len(list) + 1] = p
           /\ SlotsIn(Append(list, p)) = SlotsIn(list) \cup {p}
           /\ NoRepeat(Append(list, p))
<1> DEFINE l == Append(list, p)
           n == Len(list)
<1>1. /\ l \in Seq(S) /\ l # <<>>
      /\ Len(l) = n + 1 /\ n \in Nat
      /\ \A i \in 1 .. n : l[i] = list[i]
      /\ l[n + 1] = p
      /\ DOMAIN list = 1 .. n
  BY AppendProperties, LenProperties
<1>2. DOMAIN l = 1 .. n + 1
  BY <1>1, LenProperties
<1> HIDE DEF l
<1>3. ASSUME NEW q \in SlotsIn(l)
      PROVE  q \in SlotsIn(list) \cup {p}
  <2>1. PICK i \in 1 .. n + 1 : q = l[i]
    BY <1>2 DEF SlotsIn
  <2>2. CASE i = n + 1
    BY <1>1, <2>1, <2>2
  <2>3. CASE i # n + 1
    <3>1. i \in DOMAIN list /\ q = list[i]
      BY <1>1, <2>1, <2>3
    <3> QED
      BY <3>1 DEF SlotsIn
  <2> QED
    BY <2>2, <2>3
<1>4. ASSUME NEW q \in SlotsIn(list)
      PROVE  q \in SlotsIn(l)
  <2>1. PICK i \in 1 .. n : q = list[i]
    BY <1>1 DEF SlotsIn
  <2>2. i \in DOMAIN l /\ l[i] = q
    BY <1>1, <1>2, <2>1
  <2> QED
    BY <2>2 DEF SlotsIn
<1>5. p \in SlotsIn(l)
  <2>1. n + 1 \in DOMAIN l /\ l[n + 1] = p
    BY <1>1, <1>2
  <2> QED
    BY <2>1 DEF SlotsIn
<1>6. NoRepeat(l)
  <2> SUFFICES ASSUME NEW i \in 1 .. n + 1, NEW j \in 1 .. n + 1, l[i] = l[j]
               PROVE  i = j
    BY <1>1 DEF NoRepeat
  <2>1. \A k \in 1 .. n : list[k] # p
    BY <1>1 DEF SlotsIn
  <2>2. CASE i \in 1 .. n /\ j \in 1 .. n
    BY <1>1, <2>2 DEF NoRepeat
  <2>3. CASE i = n + 1 \/ j = n + 1
    BY <1>1, <2>1, <2>3
  <2> QED
    BY <1>1, <2>2, <2>3
<1> QED
  BY <1>1, <1>3, <1>4, <1>5, <1>6 DEF l

(* Taking the head of a list without repetition removes exactly one slot.  *)
LEMMA SlotsInTail ==
    ASSUME NEW S, NEW list \in Seq(S), list # <<>>, NoRepeat(list)
    PROVE  /\ Head(list) \in SlotsIn(list)
           /\ Tail(list) \in Seq(S) /\ Len(Tail(list)) = Len(list) - 1
           /\ SlotsIn(Tail(list)) = SlotsIn(list) \ {Head(list)}
           /\ NoRepeat(Tail(list))
           /\ Tail(list) = <<>> <=> Len(list) = 1
           /\ Tail(list) # <<>> => Tail(list)[Len(list) - 1] = list[Len(list)]
<1> DEFINE t == Tail(list)
           n == Len(list)
<1>1. /\ n \in Nat \ {0} /\ t \in Seq(S) /\ Len(t) = n - 1
      /\ \A i \in 1 .. n - 1 : t[i] = list[i + 1]
      /\ Head(list) = list[1] /\ DOMAIN list = 1 .. n
  BY EmptySeq, HeadTailProperties, LenProperties
<1>2. DOMAIN t = 1 .. n - 1
  BY <1>1, LenProperties
<1> HIDE DEF t
<1>3. Head(list) \in SlotsIn(list)
  BY <1>1 DEF SlotsIn
<1>4. NoRepeat(t)
  <2> SUFFICES ASSUME NEW i \in 1 .. n - 1, NEW j \in 1 .. n - 1, t[i] = t[j]
               PROVE  i = j
    BY <1>1 DEF NoRepeat
  <2>1. i + 1 \in 1 .. n /\ j + 1 \in 1 .. n /\ list[i + 1] = list[j + 1]
    BY <1>1
  <2>2. i + 1 = j + 1
    BY <2>1 DEF NoRepeat
  <2> QED
    BY <1>1, <2>2
<1>5. ASSUME NEW q \in SlotsIn(t)
      PROVE  q \in SlotsIn(list) \ {Head(list)}
  <2>1. PICK i \in 1 .. n - 1 : q = t[i]
    BY <1>2 DEF SlotsIn
  <2>2. i + 1 \in 1 .. n /\ q = list[i + 1] /\ i + 1 # 1 /\ 1 \in 1 .. n
    BY <1>1, <2>1
  <2>3. q # list[1]
    BY <2>2 DEF NoRepeat
  <2> QED
    BY <1>1, <2>2, <2>3 DEF SlotsIn
<1>6. ASSUME NEW q \in SlotsIn(list), q # Head(list)
      PROVE  q \in SlotsIn(t)
  <2>1. PICK i \in 1 .. n : q = list[i]
    BY <1>1 DEF SlotsIn
  <2>2. i # 1
    BY <1>1, <1>6, <2>1
  <2>3. i - 1 \in DOMAIN t /\ t[i - 1] = q
    BY <1>1, <1>2, <2>1, <2>2
  <2> QED
    BY <2>3 DEF SlotsIn
<1>7. t = <<>> <=> n = 1
  BY <1>1, EmptySeq
<1>8. t # <<>> => t[n - 1] = list[n]
  <2>1. t # <<>> => n - 1 \in 1 .. n - 1 /\ n - 1 + 1 = n
    BY <1>1, <1>7
  <2> QED
    BY <1>1, <2>1
<1> QED
  BY <1>1, <1>3, <1>4, <1>5, <1>6, <1>7, <1>8 DEF t

-----------------------------------------------------------------------------
(* The functions *)

(* A handler whose slots below prevSize are all in use, and whose slots    *)
(* from there on are not mapped yet                                        *)
BeforeMapping(h) ==
    /\ DOMAIN h = HandlerFields
    /\ h.fileSize \in Nat /\ h.prevSize \in Nat /\ h.prevSize < h.fileSize
    /\ h.stSize \in Nat /\ h.fileSize =< h.stSize
    /\ h.freeList = <<>> /\ h.size = 0 /\ h.tree = Pages(h.prevSize)
    /\ h.pgcnt = h.prevSize
    /\ h.pgoff \in [Pages(h.prevSize) -> Pages(h.prevSize)]
    /\ h.kmap = h.pgoff /\ IsInjective(h.pgoff)

(* map_appending makes such a handler sound: the new slots are the list,   *)
(* each shows the page of its own number, and the others show what they    *)
(* did.                                                                    *)
LEMMA MapAppendingKeeps ==
    ASSUME NEW h, BeforeMapping(h)
    PROVE  LET g == map_appending(h) IN
           /\ HandlerInv(g)
           /\ g.fileSize = h.fileSize /\ g.stSize = h.stSize
           /\ g.tree = h.tree /\ g.freeList # <<>>
           /\ \A a \in h.tree : g.pgoff[a] = h.pgoff[a]
           /\ g.freeList = NewSlots(h.prevSize, h.fileSize)
           /\ \A a \in Pages(h.fileSize) \ h.tree : g.pgoff[a] = a
<1> DEFINE g == map_appending(h)
           c == NewSlots(h.prevSize, h.fileSize)
           n == h.fileSize
           m == h.prevSize
           po == [a \in Pages(n) |-> IF a < m THEN h.pgoff[a] ELSE a]
<1>1. /\ DOMAIN h = HandlerFields
      /\ n \in Nat /\ m \in Nat /\ m < n /\ h.stSize \in Nat /\ n =< h.stSize
      /\ h.freeList = <<>> /\ h.size = 0 /\ h.tree = Pages(m) /\ h.pgcnt = m
      /\ h.pgoff \in [Pages(m) -> Pages(m)] /\ h.kmap = h.pgoff /\ IsInjective(h.pgoff)
  BY DEF BeforeMapping
<1>2. /\ c \in Seq(m .. n - 1) /\ Len(c) = n - m /\ NoRepeat(c) /\ c # <<>>
      /\ c[n - m] = n - 1 /\ SlotsIn(c) = m .. n - 1
  BY <1>1, NewSlotsIsList
<1>3. <<>> \o c = c
  BY <1>2, ConcatEmptySeq
<1>4. /\ DOMAIN g = HandlerFields /\ g.fileSize = n /\ g.prevSize = m
      /\ g.stSize = h.stSize /\ g.freeList = h.freeList \o c /\ g.last = n - 1
      /\ g.size = h.size + (n - m) /\ g.tree = h.tree /\ g.pgcnt = h.pgcnt + (n - m)
      /\ g.pgoff = po /\ g.kmap = [a \in Pages(n) |-> IF a < m THEN h.kmap[a] ELSE a]
  <2> DEFINE km == [a \in Pages(n) |-> IF a < m THEN h.kmap[a] ELSE a]
             k == [h EXCEPT !.kmap = km]
  <2>1. /\ DOMAIN k = HandlerFields /\ k.fileSize = n /\ k.prevSize = m
        /\ k.stSize = h.stSize /\ k.freeList = h.freeList /\ k.size = h.size
        /\ k.tree = h.tree /\ k.pgcnt = h.pgcnt /\ k.pgoff = h.pgoff /\ k.kmap = km
    BY <1>1 DEF HandlerFields
  <2>2. g = add_pages_to_free_list(k)
    BY DEF map_appending
  <2> HIDE DEF k, g, c, km
  <2>3. /\ DOMAIN g = HandlerFields /\ g.fileSize = n /\ g.prevSize = m
        /\ g.stSize = h.stSize /\ g.freeList = h.freeList \o c /\ g.last = n - 1
        /\ g.size = h.size + (n - m) /\ g.tree = h.tree /\ g.pgcnt = h.pgcnt + (n - m)
        /\ g.pgoff = po /\ g.kmap = km
    BY <2>1, <2>2 DEF add_pages_to_free_list, HandlerFields, NewSlots, c
  <2> QED
    BY <2>3 DEF km
<1>5. po \in [Pages(n) -> Pages(n)]
  BY <1>1 DEF Pages
<1>6. IsInjective(po)
  <2> SUFFICES ASSUME NEW a \in Pages(n), NEW b \in Pages(n), po[a] = po[b]
               PROVE  a = b
    BY DEF IsInjective
  <2>1. ASSUME NEW d \in Pages(n)
        PROVE  IF d \in Pages(m) THEN po[d] = h.pgoff[d] /\ po[d] \in Pages(m)
                                  ELSE po[d] = d
    <3>1. d \in Pages(m) <=> d < m
      BY <1>1 DEF Pages
    <3> QED
      BY <1>1, <3>1
  <2>2. CASE a \in Pages(m) /\ b \in Pages(m)
    BY <1>1, <2>1, <2>2 DEF IsInjective
  <2>3. CASE ~(a \in Pages(m) /\ b \in Pages(m))
    BY <2>1, <2>3
  <2> QED
    BY <2>2, <2>3
<1>7. /\ \A a \in Pages(m) : po[a] = h.pgoff[a]
      /\ \A a \in Pages(n) \ Pages(m) : po[a] = a
  BY <1>1 DEF Pages
<1> HIDE DEF g, c, po
<1>8. /\ g.freeList = c /\ g.size = n - m /\ g.pgcnt = n /\ g.kmap = g.pgoff
  BY <1>1, <1>3, <1>4 DEF po
<1>9. c \in Seq(Pages(n))
  BY <1>1, <1>2, SeqMonotonic DEF Pages
<1>10. Pages(m) = Pages(n) \ SlotsIn(c)
  BY <1>1, <1>2 DEF Pages
<1>11. ListSound(g)
  BY <1>2, <1>4, <1>8 DEF ListSound
<1>12. HandlerInv(g)
  BY <1>1, <1>4, <1>5, <1>6, <1>8, <1>9, <1>10, <1>11 DEF HandlerInv
<1> QED
  BY <1>1, <1>2, <1>4, <1>7, <1>8, <1>12 DEF g, c

(* The empty handler, field by field *)
LEMMA EmptyHandlerFields ==
    ASSUME NEW n
    PROVE  LET e == EmptyHandler(n) IN
           /\ DOMAIN e = HandlerFields /\ e.fileSize = n /\ e.prevSize = 0 /\ e.stSize = n
           /\ e.freeList = <<>> /\ e.last = NULL /\ e.size = 0 /\ e.tree = {}
           /\ e.pgcnt = 0 /\ e.pgoff = <<>> /\ e.kmap = <<>>
  BY DEF EmptyHandler, HandlerFields

(* nlm_init of a new file and of one that exists: every slot is available. *)
LEMMA InitKeeps ==
    ASSUME NEW n \in Nat
    PROVE  LET g == nlm_init(n) IN
           /\ HandlerInv(g) /\ g.tree = {} /\ g.freeList # <<>>
           /\ n =< g.stSize
           /\ g.fileSize = IF n = 0 THEN InitPages ELSE n
<1> DEFINE e == EmptyHandler(n)
           f == nlm_grow_file(EmptyHandler(0), InitPages)
<1>0. Pages(0) = {} /\ <<>> \in [Pages(0) -> Pages(0)] /\ IsInjective(<<>>)
  BY DEF Pages, IsInjective
<1>1. CASE n = 0
  <2>1. /\ DOMAIN f = HandlerFields /\ f.fileSize = InitPages /\ f.prevSize = 0
        /\ f.stSize = InitPages /\ f.freeList = <<>> /\ f.size = 0
        /\ f.tree = {} /\ f.pgcnt = 0 /\ f.pgoff = <<>> /\ f.kmap = <<>>
    BY PagesAssumption, EmptyHandlerFields DEF nlm_grow_file, HandlerFields
  <2> HIDE DEF f
  <2>2. BeforeMapping(f)
    BY <1>0, <2>1, PagesAssumption DEF BeforeMapping
  <2>3. nlm_init(n) = map_appending(f)
    BY <1>1 DEF nlm_init, f
  <2> QED
    BY <1>1, <2>1, <2>2, <2>3, MapAppendingKeeps, PagesAssumption
<1>2. CASE n # 0
  <2>1. /\ DOMAIN e = HandlerFields /\ e.fileSize = n /\ e.prevSize = 0 /\ e.stSize = n
        /\ e.freeList = <<>> /\ e.size = 0 /\ e.tree = {}
        /\ e.pgcnt = 0 /\ e.pgoff = <<>> /\ e.kmap = <<>>
    BY EmptyHandlerFields
  <2> HIDE DEF e
  <2>2. BeforeMapping(e)
    BY <1>0, <1>2, <2>1 DEF BeforeMapping
  <2>3. nlm_init(n) = map_appending(e)
    BY <1>2 DEF nlm_init, e
  <2> QED
    BY <1>2, <2>1, <2>2, <2>3, MapAppendingKeeps
<1> QED
  BY <1>1, <1>2

(* The first half of nlm_alloc_page: there is an available slot after it,  *)
(* and the slots in use are the same and show what they did.               *)
LEMMA WithFreePageKeeps ==
    ASSUME NEW h, HandlerInv(h)
    PROVE  LET w == WithFreePage(h) IN
           /\ HandlerInv(w) /\ w.freeList # <<>>
           /\ w.tree = h.tree /\ \A a \in h.tree : w.pgoff[a] = h.pgoff[a]
           /\ h.stSize =< w.stSize /\ h.fileSize =< w.fileSize
<1>1. CASE h.size # 0
  <2>1. WithFreePage(h) = h
    BY <1>1 DEF WithFreePage
  <2>2. h.freeList # <<>> /\ h.stSize =< h.stSize /\ h.fileSize =< h.fileSize
    BY <1>1, EmptySeq DEF HandlerInv, ListSound
  <2> QED
    BY <2>1, <2>2
<1>2. CASE h.size = 0
  <2> DEFINE n == h.fileSize
             f == nlm_grow_file(h, 2 * n)
  <2>1. /\ DOMAIN h = HandlerFields /\ n \in Nat \ {0} /\ h.stSize \in Nat
        /\ h.freeList \in Seq(Pages(n)) /\ h.size = Len(h.freeList)
        /\ h.tree = Pages(n) \ SlotsIn(h.freeList) /\ h.pgcnt = n
        /\ h.pgoff \in [Pages(n) -> Pages(n)] /\ h.kmap = h.pgoff /\ IsInjective(h.pgoff)
    BY DEF HandlerInv, ListSound
  <2>2. h.freeList = <<>> /\ h.tree = Pages(n)
    BY <1>2, <2>1, EmptySeq DEF SlotsIn
  <2>3. /\ DOMAIN f = HandlerFields /\ f.fileSize = 2 * n /\ f.prevSize = n
        /\ f.stSize = (IF n + 2 * n > h.stSize THEN n + 2 * n ELSE h.stSize)
        /\ f.freeList = h.freeList /\ f.size = h.size /\ f.tree = h.tree
        /\ f.pgcnt = h.pgcnt /\ f.pgoff = h.pgoff /\ f.kmap = h.kmap
    BY <2>1 DEF nlm_grow_file, HandlerFields
  <2>4. WithFreePage(h) = map_appending(f)
    BY <1>2 DEF WithFreePage
  <2> HIDE DEF f
  <2>5. /\ f.stSize \in Nat /\ 2 * n =< f.stSize /\ h.stSize =< f.stSize /\ 2 * n \in Nat
        /\ n < 2 * n
    BY <2>1, <2>3
  <2>6. BeforeMapping(f)
    BY <1>2, <2>1, <2>2, <2>3, <2>5 DEF BeforeMapping
  <2> QED
    BY <2>1, <2>3, <2>4, <2>5, <2>6, MapAppendingKeeps
<1> QED
  BY <1>1, <1>2

(* The second half of nlm_alloc_page: the slot it returns was available    *)
(* and is in use now; no slot shows another page.                          *)
LEMMA UsePageKeeps ==
    ASSUME NEW h, HandlerInv(h), h.freeList # <<>>
    PROVE  LET g == __nlm_use_page(h)
               a == Head(h.freeList)
           IN  /\ HandlerInv(g)
               /\ a \in Pages(h.fileSize) \ h.tree
               /\ g.tree = h.tree \cup {a} /\ g.pgoff = h.pgoff
               /\ g.fileSize = h.fileSize /\ g.stSize = h.stSize
<1> DEFINE g == __nlm_use_page(h)
           l == h.freeList
           t == Tail(l)
           a == Head(l)
           n == h.fileSize
<1>1. /\ DOMAIN h = HandlerFields /\ n \in Nat \ {0}
      /\ l \in Seq(Pages(n)) /\ h.size = Len(l) /\ h.last = l[Len(l)] /\ NoRepeat(l)
      /\ h.tree = Pages(n) \ SlotsIn(l)
  BY DEF HandlerInv, ListSound
<1>2. /\ a \in SlotsIn(l) /\ t \in Seq(Pages(n)) /\ Len(t) = Len(l) - 1
      /\ SlotsIn(t) = SlotsIn(l) \ {a} /\ NoRepeat(t)
      /\ t = <<>> <=> Len(l) = 1
      /\ t # <<>> => t[Len(l) - 1] = l[Len(l)]
  BY <1>1, SlotsInTail
<1>3. a \in Pages(n)
  BY <1>1, HeadTailProperties
<1>4. /\ DOMAIN g = HandlerFields /\ g.fileSize = n /\ g.prevSize = h.prevSize
      /\ g.stSize = h.stSize /\ g.freeList = t
      /\ g.last = (IF h.size = 1 THEN NULL ELSE h.last)
      /\ g.size = h.size - 1 /\ g.tree = h.tree \cup {a} /\ g.pgcnt = h.pgcnt
      /\ g.pgoff = h.pgoff /\ g.kmap = h.kmap
  BY <1>1 DEF __nlm_use_page, HandlerFields
<1> HIDE DEF g, a, t, l
<1>5. ListSound(g)
  BY <1>1, <1>2, <1>4 DEF ListSound
<1>6. g.tree = Pages(n) \ SlotsIn(t)
  BY <1>1, <1>2, <1>3, <1>4
<1>7. HandlerInv(g)
  BY <1>1, <1>2, <1>4, <1>5, <1>6 DEF HandlerInv
<1>8. a \in Pages(n) \ h.tree
  BY <1>1, <1>2, <1>3
<1> QED
  BY <1>4, <1>7, <1>8 DEF g, a, l

(* nlm_alloc_page: the slot and the page it hands out were not in use, and *)
(* every slot that was shows the page it did, whether the file had to grow *)
(* or not.                                                                 *)
LEMMA AllocPageKeeps ==
    ASSUME NEW h, HandlerInv(h)
    PROVE  LET g == nlm_alloc_page(h)
               a == AllocatedSlot(h)
           IN  /\ HandlerInv(g)
               /\ a \notin h.tree /\ g.tree = h.tree \cup {a}
               /\ g.pgoff[a] = AllocatedOffset(h)
               /\ \A b \in h.tree : g.pgoff[b] = h.pgoff[b]
               /\ \A b \in h.tree : h.pgoff[b] # AllocatedOffset(h)
               /\ h.stSize =< g.stSize /\ AllocatedOffset(h) \in Pages(g.fileSize)
               /\ h.fileSize =< g.fileSize
<1> DEFINE w == WithFreePage(h)
           g == nlm_alloc_page(h)
           a == AllocatedSlot(h)
<1>1. /\ HandlerInv(w) /\ w.freeList # <<>>
      /\ w.tree = h.tree /\ \A b \in h.tree : w.pgoff[b] = h.pgoff[b]
      /\ h.stSize =< w.stSize /\ h.fileSize =< w.fileSize
  BY WithFreePageKeeps
<1>2. g = __nlm_use_page(w) /\ a = Head(w.freeList) /\ AllocatedOffset(h) = w.pgoff[a]
  BY DEF nlm_alloc_page, AllocatedSlot, AllocatedOffset
<1> HIDE DEF w, g, a
<1>3. /\ HandlerInv(g) /\ a \in Pages(w.fileSize) \ w.tree
      /\ g.tree = w.tree \cup {a} /\ g.pgoff = w.pgoff
      /\ g.fileSize = w.fileSize /\ g.stSize = w.stSize
  BY <1>1, <1>2, UsePageKeeps
<1>4. /\ w.tree \subseteq Pages(w.fileSize) /\ IsInjective(w.pgoff)
      /\ w.pgoff \in [Pages(w.fileSize) -> Pages(w.fileSize)]
  BY <1>1 DEF HandlerInv
<1>5. \A b \in h.tree : h.pgoff[b] # w.pgoff[a]
  BY <1>1, <1>3, <1>4 DEF IsInjective
<1> QED
  BY <1>1, <1>2, <1>3, <1>4, <1>5 DEF g, a

(* nlm_free_pages of a slot in use: it is at the end of the list, whether  *)
(* the list was empty or not, and no slot shows another page.              *)
LEMMA FreePagesKeeps ==
    ASSUME NEW h, HandlerInv(h), NEW a \in h.tree
    PROVE  LET g == nlm_free_pages(h, a) IN
           /\ HandlerInv(g)
           /\ g.tree = h.tree \ {a} /\ g.pgoff = h.pgoff
           /\ g.fileSize = h.fileSize /\ g.stSize = h.stSize
<1> DEFINE k == [h EXCEPT !.tree = @ \ {a}]
           g == nlm_free_pages(h, a)
           l == h.freeList
           x == Append(l, a)
           n == h.fileSize
<1>1. /\ DOMAIN h = HandlerFields /\ n \in Nat \ {0}
      /\ l \in Seq(Pages(n)) /\ h.size = Len(l) /\ NoRepeat(l)
      /\ h.last = (IF l = <<>> THEN NULL ELSE l[Len(l)])
      /\ h.tree = Pages(n) \ SlotsIn(l) /\ a \in Pages(n) /\ a \notin SlotsIn(l)
  BY DEF HandlerInv, ListSound
<1>2. /\ DOMAIN k = HandlerFields /\ k.fileSize = n /\ k.prevSize = h.prevSize
      /\ k.stSize = h.stSize /\ k.freeList = l /\ k.last = h.last /\ k.size = h.size
      /\ k.tree = h.tree \ {a} /\ k.pgcnt = h.pgcnt /\ k.pgoff = h.pgoff
      /\ k.kmap = h.kmap
  BY <1>1 DEF HandlerFields
<1>3. g = __nlm_free_page(k, a)
  BY DEF nlm_free_pages
<1> HIDE DEF k, g
<1>4. /\ DOMAIN g = HandlerFields /\ g.fileSize = n /\ g.prevSize = h.prevSize
      /\ g.stSize = h.stSize /\ g.last = a /\ g.size = h.size + 1
      /\ g.tree = h.tree \ {a} /\ g.pgcnt = h.pgcnt /\ g.pgoff = h.pgoff
      /\ g.kmap = h.kmap
  BY <1>2, <1>3 DEF __nlm_free_page, HandlerFields
<1>5. g.freeList = x
  <2>1. g.freeList = IF h.size = 0 THEN <<a>> \o l
                     ELSE LET i == CHOOSE j \in DOMAIN l : l[j] = h.last
                          IN  SubSeq(l, 1, i) \o <<a>> \o SubSeq(l, i + 1, Len(l))
    BY <1>2, <1>3 DEF __nlm_free_page, HandlerFields
  <2>2. CASE h.size = 0
    <3>1. l = <<>>
      BY <1>1, <2>2, EmptySeq
    <3>2. <<a>> \o <<>> = Append(<<>>, a)
      OBVIOUS
    <3> QED
      BY <2>1, <2>2, <3>1, <3>2
  <2>3. CASE h.size # 0
    <3>1. l # <<>> /\ h.last = l[Len(l)]
      BY <1>1, <2>3, EmptySeq
    <3> HIDE DEF l
    <3>2. LET i == CHOOSE j \in DOMAIN l : l[j] = l[Len(l)]
          IN  SubSeq(l, 1, i) \o <<a>> \o SubSeq(l, i + 1, Len(l)) = x
      BY <1>1, <3>1, InsertAfterLast
    <3> QED
      BY <2>1, <2>3, <3>1, <3>2
  <2> QED
    BY <2>2, <2>3
<1>6. /\ x \in Seq(Pages(n)) /\ x # <<>> /\ Len(x) = Len(l) + 1 /\ x[Len(l) + 1] = a
      /\ SlotsIn(x) = SlotsIn(l) \cup {a} /\ NoRepeat(x)
  BY <1>1, SlotsInAppend
<1> HIDE DEF x, l
<1>7. ListSound(g)
  BY <1>1, <1>4, <1>5, <1>6 DEF ListSound
<1>8. g.tree = Pages(n) \ SlotsIn(x)
  BY <1>1, <1>4, <1>6
<1>9. HandlerInv(g)
  BY <1>1, <1>4, <1>5, <1>6, <1>7, <1>8 DEF HandlerInv
<1> QED
  BY <1>4, <1>9 DEF g

(* nlm_swap_pages of two slots in use, each given the other's page: the    *)
(* two pages are exchanged, in the kernel's mapping and in the record, and *)
(* nothing else changes.                                                   *)
LEMMA SwapPagesKeeps ==
    ASSUME NEW h, HandlerInv(h), NEW x \in h.tree, NEW y \in h.tree
    PROVE  LET g == nlm_swap_pages(h, x, h.pgoff[y], y, h.pgoff[x]) IN
           /\ HandlerInv(g)
           /\ g.tree = h.tree /\ g.freeList = h.freeList
           /\ g.fileSize = h.fileSize /\ g.stSize = h.stSize
           /\ g.pgoff[x] = h.pgoff[y] /\ g.pgoff[y] = h.pgoff[x]
           /\ \A a \in Pages(h.fileSize) \ {x, y} : g.pgoff[a] = h.pgoff[a]
<1> DEFINE km == [[h.kmap EXCEPT ![x] = h.pgoff[y]] EXCEPT ![y] = h.pgoff[x]]
           po == [[h.pgoff EXCEPT ![x] = h.pgoff[y]] EXCEPT ![y] = h.pgoff[x]]
           k == [h EXCEPT !.kmap = km]
           g == nlm_swap_pages(h, x, h.pgoff[y], y, h.pgoff[x])
           n == h.fileSize
<1>1. /\ DOMAIN h = HandlerFields /\ n \in Nat \ {0}
      /\ h.tree \subseteq Pages(n) /\ h.pgoff \in [Pages(n) -> Pages(n)]
      /\ h.kmap = h.pgoff /\ IsInjective(h.pgoff)
  BY DEF HandlerInv
<1>2. /\ DOMAIN k = HandlerFields /\ k.fileSize = n /\ k.prevSize = h.prevSize
      /\ k.stSize = h.stSize /\ k.freeList = h.freeList /\ k.last = h.last
      /\ k.size = h.size /\ k.tree = h.tree /\ k.pgcnt = h.pgcnt /\ k.pgoff = h.pgoff
      /\ k.kmap = km
  BY <1>1 DEF HandlerFields
<1>3. g = update_swapped_pages(k, x, y)
  BY DEF nlm_swap_pages
<1> HIDE DEF k, g
<1>4. /\ DOMAIN g = HandlerFields /\ g.fileSize = n /\ g.prevSize = h.prevSize
      /\ g.stSize = h.stSize /\ g.freeList = h.freeList /\ g.last = h.last
      /\ g.size = h.size /\ g.tree = h.tree /\ g.pgcnt = h.pgcnt /\ g.kmap = km
      /\ g.pgoff = po
  <2>1. {x, y} \subseteq k.tree
    BY <1>2
  <2>2. g = [[k EXCEPT !.pgoff[x] = k.pgoff[y]] EXCEPT !.pgoff[y] = k.pgoff[x]]
    BY <1>3, <2>1 DEF update_swapped_pages
  <2> HIDE DEF km
  <2> QED
    BY <1>1, <1>2, <2>2 DEF HandlerFields
<1>5. km = po
  BY <1>1
<1>6. po \in [Pages(n) -> Pages(n)] /\ po[x] = h.pgoff[y] /\ po[y] = h.pgoff[x]
      /\ \A a \in Pages(n) \ {x, y} : po[a] = h.pgoff[a]
  BY <1>1
<1> HIDE DEF po, km
<1>7. IsInjective(po)
  BY <1>1, <1>6 DEF IsInjective
<1>8. ListSound(g)
  BY <1>4 DEF HandlerInv, ListSound
<1>9. HandlerInv(g)
  BY <1>1, <1>4, <1>5, <1>6, <1>7, <1>8 DEF HandlerInv
<1> QED
  BY <1>4, <1>6, <1>9 DEF g

(* A list without repetition has as many slots as its length says.         *)
LEMMA SlotsCounted ==
    ASSUME NEW S, NEW list \in Seq(S), NoRepeat(list)
    PROVE  IsFiniteSet(SlotsIn(list)) /\ Cardinality(SlotsIn(list)) = Len(list)
<1> DEFINE n == Len(list)
           D == 1 .. n
           T == SlotsIn(list)
<1>1. n \in Nat /\ DOMAIN list = D /\ list \in [D -> S]
  BY LenProperties
<1>2. list \in [D -> T]
  BY <1>1 DEF SlotsIn
<1>3. list \in Bijection(D, T)
  <2>1. \A y \in T : \E i \in D : list[i] = y
    BY <1>1 DEF SlotsIn
  <2>2. \A i, j \in D : list[i] = list[j] => i = j
    BY DEF NoRepeat
  <2> HIDE DEF T, D
  <2> QED
    BY <1>2, <2>1, <2>2 DEF Bijection, Injection, Surjection, IsInjective
<1>4. IsFiniteSet(D) /\ Cardinality(D) = n
  BY <1>1, FS_Interval
<1> HIDE DEF T, D
<1>5. ExistsBijection(D, T)
  BY <1>3 DEF ExistsBijection
<1> QED
  BY <1>4, <1>5, FS_Bijection DEF T

(* nlm_close finds every nlm_page, on the list or in the tree.             *)
LEMMA CloseFindsAll ==
    ASSUME NEW h, HandlerInv(h)
    PROVE  CloseAssertions(h)
<1> DEFINE P == Pages(h.fileSize)
           L == SlotsIn(h.freeList)
<1>1. /\ h.fileSize \in Nat \ {0} /\ h.freeList \in Seq(P) /\ NoRepeat(h.freeList)
      /\ h.size = Len(h.freeList) /\ h.tree = P \ L /\ h.pgcnt = h.fileSize
  BY DEF HandlerInv, ListSound
<1>2. IsFiniteSet(L) /\ Cardinality(L) = h.size
  BY <1>1, SlotsCounted
<1>3. IsFiniteSet(P) /\ Cardinality(P) = h.fileSize
  <2>1. /\ 0 \in Int /\ h.fileSize - 1 \in Int /\ ~(0 > h.fileSize - 1)
        /\ h.fileSize - 1 - 0 + 1 = h.fileSize
    BY <1>1
  <2> QED
    BY <2>1, FS_Interval DEF Pages
<1>4. P \cap L = L
  <2> HIDE DEF P
  <2>1. DOMAIN h.freeList = 1 .. Len(h.freeList) /\ h.freeList \in [DOMAIN h.freeList -> P]
    BY <1>1, LenProperties
  <2> QED
    BY <2>1 DEF SlotsIn
<1>5. h.size \in Nat
  BY <1>1, LenProperties
<1> HIDE DEF P, L
<1>6. Cardinality(P \ L) = Cardinality(P) - Cardinality(P \cap L)
  BY <1>3, FS_Difference, Zenon
<1>7. Cardinality(h.tree) = h.fileSize - h.size
  BY <1>1, <1>2, <1>3, <1>4, <1>6
<1> QED
  BY <1>1, <1>5, <1>7 DEF CloseAssertions

(* nlm_swap_pages of a slot with itself, as slab_entry_copynswap calls it: *)
(* the second remap_file_pages undoes the first.                           *)
LEMMA SwapWithItself ==
    ASSUME NEW h, HandlerInv(h), NEW x \in h.tree, NEW off
    PROVE  LET g == nlm_swap_pages(h, x, off, x, h.pgoff[x]) IN
           /\ HandlerInv(g)
           /\ g.tree = h.tree /\ g.pgoff = h.pgoff
           /\ g.fileSize = h.fileSize /\ g.stSize = h.stSize
<1> DEFINE km == [[h.kmap EXCEPT ![x] = off] EXCEPT ![x] = h.pgoff[x]]
           k == [h EXCEPT !.kmap = km]
           g == nlm_swap_pages(h, x, off, x, h.pgoff[x])
           n == h.fileSize
<1>1. /\ DOMAIN h = HandlerFields
      /\ h.tree \subseteq Pages(n) /\ h.pgoff \in [Pages(n) -> Pages(n)]
      /\ h.kmap = h.pgoff
  BY DEF HandlerInv
<1>2. km = h.pgoff
  BY <1>1
<1>3. /\ DOMAIN k = HandlerFields /\ k.fileSize = n /\ k.prevSize = h.prevSize
      /\ k.stSize = h.stSize /\ k.freeList = h.freeList /\ k.last = h.last
      /\ k.size = h.size /\ k.tree = h.tree /\ k.pgcnt = h.pgcnt /\ k.pgoff = h.pgoff
      /\ k.kmap = km
  BY <1>1 DEF HandlerFields
<1>4. g = update_swapped_pages(k, x, x)
  BY DEF nlm_swap_pages
<1> HIDE DEF k, g, km
<1>5. /\ DOMAIN g = HandlerFields /\ g.fileSize = n /\ g.prevSize = h.prevSize
      /\ g.stSize = h.stSize /\ g.freeList = h.freeList /\ g.last = h.last
      /\ g.size = h.size /\ g.tree = h.tree /\ g.pgcnt = h.pgcnt /\ g.kmap = km
      /\ g.pgoff = h.pgoff
  <2>1. {x, x} \subseteq k.tree
    BY <1>3
  <2>2. g = [[k EXCEPT !.pgoff[x] = k.pgoff[x]] EXCEPT !.pgoff[x] = k.pgoff[x]]
    BY <1>4, <2>1 DEF update_swapped_pages
  <2> QED
    BY <1>1, <1>3, <2>2 DEF HandlerFields
<1>6. ListSound(g)
  BY <1>5 DEF HandlerInv, ListSound
<1>7. HandlerInv(g)
  BY <1>2, <1>5, <1>6 DEF HandlerInv
<1> QED
  BY <1>5, <1>7 DEF g

-----------------------------------------------------------------------------
(* Allocations of a process that has freed nothing *)

(* The first k slots are in use, the others on the list in their order,    *)
(* and every slot shows the page of its own number.                        *)
InOrder(h, k) ==
    /\ HandlerInv(h)
    /\ k \in 0 .. h.fileSize /\ h.tree = Pages(k)
    /\ Len(h.freeList) = h.fileSize - k
    /\ \A i \in 1 .. h.fileSize - k : h.freeList[i] = k + i - 1
    /\ \A a \in Pages(h.fileSize) : h.pgoff[a] = a

(* A handler that was just mapped gives its new slots out in order.        *)
LEMMA MappedInOrder ==
    ASSUME NEW h, BeforeMapping(h), \A a \in h.tree : h.pgoff[a] = a
    PROVE  InOrder(map_appending(h), h.prevSize)
<1> DEFINE g == map_appending(h)
           n == h.fileSize
           m == h.prevSize
<1>1. /\ HandlerInv(g) /\ g.fileSize = n /\ g.tree = h.tree
      /\ \A a \in h.tree : g.pgoff[a] = h.pgoff[a]
      /\ g.freeList = NewSlots(m, n)
      /\ \A a \in Pages(n) \ h.tree : g.pgoff[a] = a
  BY MapAppendingKeeps
<1>2. n \in Nat /\ m \in Nat /\ m < n /\ h.tree = Pages(m)
  BY DEF BeforeMapping
<1> HIDE DEF g
<1>3. Len(g.freeList) = n - m
  <2>1. Len(NewSlots(m, n)) = n - m
    BY <1>2, NewSlotsIsList
  <2> QED
    BY <1>1, <2>1
<1>4. \A i \in 1 .. n - m : g.freeList[i] = m + i - 1
  BY <1>1 DEF NewSlots
<1>5. \A a \in Pages(n) : g.pgoff[a] = a
  BY <1>1
<1>6. m \in 0 .. n /\ g.tree = Pages(m)
  BY <1>1, <1>2
<1>7. InOrder(g, m)
  BY <1>1, <1>3, <1>4, <1>5, <1>6 DEF InOrder
<1> QED
  BY <1>7 DEF g

(* A new file gives its slots out in order. *)
LEMMA InitInOrder == InOrder(nlm_init(0), 0)
<1> DEFINE f == nlm_grow_file(EmptyHandler(0), InitPages)
<1>1. Pages(0) = {} /\ <<>> \in [Pages(0) -> Pages(0)] /\ IsInjective(<<>>)
  BY DEF Pages, IsInjective
<1>2. /\ DOMAIN f = HandlerFields /\ f.fileSize = InitPages /\ f.prevSize = 0
      /\ f.stSize = InitPages /\ f.freeList = <<>> /\ f.size = 0
      /\ f.tree = {} /\ f.pgcnt = 0 /\ f.pgoff = <<>> /\ f.kmap = <<>>
  BY PagesAssumption, EmptyHandlerFields DEF nlm_grow_file, HandlerFields
<1>3. nlm_init(0) = map_appending(f)
  BY DEF nlm_init
<1> HIDE DEF f
<1>4. BeforeMapping(f)
  BY <1>1, <1>2, PagesAssumption DEF BeforeMapping
<1> QED
  BY <1>2, <1>3, <1>4, MappedInOrder

(* The next allocation gets the next slot and the next page, whether the   *)
(* file has to grow for it or not.                                         *)
LEMMA AllocInOrder ==
    ASSUME NEW h, NEW k, InOrder(h, k)
    PROVE  /\ InOrder(nlm_alloc_page(h), k + 1)
           /\ AllocatedSlot(h) = k /\ AllocatedOffset(h) = k
<1> DEFINE w == WithFreePage(h)
           g == nlm_alloc_page(h)
           n == w.fileSize
<1>1. InOrder(w, k) /\ w.freeList # <<>>
  <2>1. HandlerInv(h)
    BY DEF InOrder
  <2>2. w.freeList # <<>>
    BY <2>1, WithFreePageKeeps
  <2>3. CASE h.size # 0
    <3>1. w = h
      BY <2>3 DEF WithFreePage
    <3> QED
      BY <2>2, <3>1
  <2>4. CASE h.size = 0
    <3> DEFINE f == nlm_grow_file(h, 2 * h.fileSize)
    <3>1. /\ DOMAIN h = HandlerFields /\ h.fileSize \in Nat \ {0} /\ h.stSize \in Nat
          /\ h.freeList \in Seq(Pages(h.fileSize)) /\ h.size = Len(h.freeList)
          /\ h.pgcnt = h.fileSize /\ h.kmap = h.pgoff /\ IsInjective(h.pgoff)
          /\ h.pgoff \in [Pages(h.fileSize) -> Pages(h.fileSize)]
      BY <2>1 DEF HandlerInv, ListSound
    <3>2. h.freeList = <<>> /\ k = h.fileSize /\ h.tree = Pages(h.fileSize)
      BY <2>4, <3>1, EmptySeq DEF InOrder
    <3>3. /\ DOMAIN f = HandlerFields /\ f.fileSize = 2 * k /\ f.prevSize = k
          /\ f.stSize = (IF k + 2 * k > h.stSize THEN k + 2 * k ELSE h.stSize)
          /\ f.freeList = h.freeList /\ f.size = h.size /\ f.tree = h.tree
          /\ f.pgcnt = h.pgcnt /\ f.pgoff = h.pgoff /\ f.kmap = h.kmap
      BY <3>1, <3>2 DEF nlm_grow_file, HandlerFields
    <3>4. w = map_appending(f)
      BY <2>4 DEF WithFreePage
    <3> HIDE DEF f
    <3>5. /\ k \in Nat /\ f.stSize \in Nat /\ 2 * k =< f.stSize /\ 2 * k \in Nat
          /\ k < 2 * k
      BY <3>1, <3>2, <3>3
    <3>6. BeforeMapping(f)
      BY <2>4, <3>1, <3>2, <3>3, <3>5 DEF BeforeMapping
    <3>7. \A a \in f.tree : f.pgoff[a] = a
      BY <3>2, <3>3 DEF InOrder
    <3> QED
      BY <2>2, <3>3, <3>4, <3>6, <3>7, MappedInOrder
  <2> QED
    BY <2>3, <2>4
<1>2. g = __nlm_use_page(w)
  BY DEF nlm_alloc_page
<1> HIDE DEF w, g
<1>3. /\ HandlerInv(w) /\ k \in 0 .. n /\ w.tree = Pages(k) /\ Len(w.freeList) = n - k
      /\ \A i \in 1 .. n - k : w.freeList[i] = k + i - 1
      /\ \A a \in Pages(n) : w.pgoff[a] = a
  BY <1>1 DEF InOrder
<1>4. n \in Nat \ {0} /\ w.freeList \in Seq(Pages(n)) /\ DOMAIN w = HandlerFields
  BY <1>3 DEF HandlerInv
<1>5. /\ Head(w.freeList) = w.freeList[1]
      /\ Tail(w.freeList) \in Seq(Pages(n)) /\ Len(Tail(w.freeList)) = n - k - 1
      /\ \A i \in 1 .. n - k - 1 : Tail(w.freeList)[i] = w.freeList[i + 1]
      /\ Len(w.freeList) # 0
  <2>1. /\ Head(w.freeList) = w.freeList[1]
        /\ Tail(w.freeList) \in Seq(Pages(n)) /\ Len(Tail(w.freeList)) = Len(w.freeList) - 1
        /\ \A i \in 1 .. Len(Tail(w.freeList)) : Tail(w.freeList)[i] = w.freeList[i + 1]
    <3> DEFINE l == w.freeList
    <3>1. l \in Seq(Pages(n)) /\ l # <<>>
      BY <1>1, <1>4
    <3> HIDE DEF l
    <3>2. /\ Head(l) = l[1] /\ Tail(l) \in Seq(Pages(n)) /\ Len(Tail(l)) = Len(l) - 1
          /\ \A i \in 1 .. Len(Tail(l)) : Tail(l)[i] = l[i + 1]
      BY <3>1, HeadTailProperties
    <3> QED
      BY <3>2, Zenon DEF l
  <2>2. Len(w.freeList) # 0
    BY <1>1, <1>4, EmptySeq
  <2>3. Len(Tail(w.freeList)) = n - k - 1
    BY <1>3, <2>1
  <2> QED
    BY <2>1, <2>2, <2>3, Zenon
<1>6. Head(w.freeList) = k /\ k + 1 \in 0 .. n
  <2>1. k \in Nat /\ k =< n /\ n - k # 0
    BY <1>3, <1>4, <1>5
  <2>2. 1 \in 1 .. n - k
    BY <1>4, <2>1
  <2>3. w.freeList[1] = k + 1 - 1
    BY <1>3, <2>2
  <2> QED
    BY <1>4, <1>5, <2>1, <2>3
<1>7. /\ HandlerInv(g) /\ g.tree = w.tree \cup {k} /\ g.pgoff = w.pgoff /\ g.fileSize = n
  BY <1>1, <1>2, <1>3, <1>6, UsePageKeeps
<1>8. g.freeList = Tail(w.freeList)
  BY <1>2, <1>4 DEF __nlm_use_page, HandlerFields
<1>9. g.tree = Pages(k + 1)
  BY <1>3, <1>7 DEF Pages
<1>10. \A i \in 1 .. n - (k + 1) : g.freeList[i] = (k + 1) + i - 1
  <2> SUFFICES ASSUME NEW i \in 1 .. n - (k + 1)
               PROVE  g.freeList[i] = (k + 1) + i - 1
    OBVIOUS
  <2>1. i \in 1 .. n - k - 1 /\ i + 1 \in 1 .. n - k
    BY <1>3, <1>4
  <2>2. g.freeList[i] = k + (i + 1) - 1
    BY <1>3, <1>5, <1>8, <2>1
  <2> QED
    BY <1>3, <1>4, <2>2
<1>11. Len(g.freeList) = n - (k + 1)
  <2>1. n - k - 1 = n - (k + 1)
    BY <1>3, <1>4
  <2> QED
    BY <1>5, <1>8, <2>1
<1>12. InOrder(g, k + 1)
  BY <1>3, <1>6, <1>7, <1>9, <1>10, <1>11 DEF InOrder
<1>13. k \in Pages(n) /\ AllocatedSlot(h) = k
  <2>1. k \in Pages(n)
    BY <1>3, <1>4, <1>6 DEF Pages
  <2> QED
    BY <1>6, <2>1 DEF AllocatedSlot, w
<1>14. AllocatedOffset(h) = k
  BY <1>3, <1>13 DEF AllocatedOffset, w
<1> QED
  BY <1>12, <1>13, <1>14 DEF g
=============================================================================

------------------------------- MODULE HTable -------------------------------
(***************************************************************************)
(* The chained hash table of htable.c, in which closure.c keeps volatile   *)
(* allocations and pointers.  A chain is a sequence of entries, the first  *)
(* one being what list[i] points at.                                       *)
(***************************************************************************)
EXTENDS Naturals, Sequences, SequencesExt, FiniteSets

CONSTANTS
    Key, Val,
    Hash,               \* Hash of hash.c, as a function from Key to numbers
    MinLength,          \* length of the smallest list, 4 in the code
    None                \* NULL

ASSUME HashAssumption == Hash \in [Key -> Nat]
ASSUME LengthAssumption == MinLength \in Nat \ {0}

VARIABLES
    ht,                 \* struct htable: length, elems and list
    answer              \* what the last call returned

vars == <<ht, answer>>

Entry(k, v) == [hash |-> Hash[k], key |-> k, val |-> v]

(* The chain of a hash is list[hash & (length - 1)]; length is MinLength   *)
(* doubled some number of times, a power of two.                           *)
Slot(hash, length) == hash % length

-----------------------------------------------------------------------------

(* new_length: doubled until it is not below n *)
Doubled[i \in Nat] == IF i = 0 THEN MinLength ELSE 2 * Doubled[i - 1]
NewLength(n) == Doubled[CHOOSE i \in 0 .. n :
                    /\ Doubled[i] >= n
                    /\ \A j \in 0 .. i - 1 : Doubled[j] < n]

(* every entry, in the order in which the loops over the list meet them *)
AllEntries(t) == FlattenSeq([i \in 1 .. t.length |-> t.list[i - 1]])

EmptyList(length) == [i \in 0 .. length - 1 |-> <<>>]

(* e becomes the first of its chain. *)
Moved(list, length, e) == [list EXCEPT ![Slot(e.hash, length)] = <<e>> \o @]

(* the new list, when the entries have been moved one after the other *)
NewList(entries, length) ==
    LET new_list[n \in 0 .. Len(entries)] ==
            IF n = 0 THEN EmptyList(length)
                     ELSE Moved(new_list[n - 1], length, entries[n])
    IN  new_list[Len(entries)]

MutKeepChains(t) ==
    [t EXCEPT !.length = NewLength(t.elems),
              !.list   = [i \in 0 .. NewLength(t.elems) - 1 |->
                             IF i < t.length THEN t.list[i] ELSE <<>>]]

htable_resize(t) ==
    [t EXCEPT !.length = NewLength(t.elems),
              !.list   = NewList(AllEntries(t), NewLength(t.elems))]

(* the assertion of htable_resize, htable_foreach and htable_free *)
Counts(t) == t.elems = Len(AllEntries(t))

htable_init == htable_resize([length |-> 0, elems |-> 0, list |-> <<>>])

(* htable_find_pointer: the chain and the first position of k in it, or 0  *)
ChainOf(t, k) == t.list[Slot(Hash[k], t.length)]
htable_find_pointer(t, k) ==
    SelectInSeq(ChainOf(t, k), LAMBDA e : e.hash = Hash[k] /\ e.key = k)

WithChain(t, k, chain) == [t EXCEPT !.list[Slot(Hash[k], t.length)] = chain]

MutGrowLate(t) == IF t.elems > t.length + 1 THEN htable_resize(t) ELSE t
GrowIfNeeded(t) == IF t.elems > t.length THEN htable_resize(t) ELSE t

htable_insert(k, v) ==
    LET i == htable_find_pointer(ht, k)
        chain == ChainOf(ht, k)
    IN
    /\ answer' = IF i = 0 THEN 1 ELSE 0
    /\ ht' = IF i = 0
             THEN GrowIfNeeded([WithChain(ht, k, Append(chain, Entry(k, v)))
                                    EXCEPT !.elems = @ + 1])
             ELSE WithChain(ht, k, [chain EXCEPT ![i].val = v])

Found(k) ==
    LET i == htable_find_pointer(ht, k)
    IN  IF i = 0 THEN None ELSE ChainOf(ht, k)[i].val

htable_lookup(k) ==
    /\ answer' = Found(k)
    /\ UNCHANGED ht

MutKeepCount(k) ==
    LET i == htable_find_pointer(ht, k) IN
    /\ answer' = Found(k)
    /\ ht' = IF i = 0 THEN ht ELSE WithChain(ht, k, RemoveAt(ChainOf(ht, k), i))

htable_remove(k) ==
    LET i == htable_find_pointer(ht, k) IN
    /\ answer' = Found(k)
    /\ ht' = IF i = 0 THEN ht
             ELSE [WithChain(ht, k, RemoveAt(ChainOf(ht, k), i)) EXCEPT !.elems = @ - 1]

(* what is left of a chain when the entries with a key of S are unlinked *)
Rejected(chain, S) ==
    LET rest[j \in 0 .. Len(chain)] ==
            IF j = 0 THEN <<>>
            ELSE IF chain[j].key \in S THEN rest[j - 1] ELSE Append(rest[j - 1], chain[j])
    IN  rest[Len(chain)]

Accepted(t, S) == {n \in DOMAIN AllEntries(t) : AllEntries(t)[n].key \in S}

(* htable_filter with a callback that accepts the keys of S *)
htable_filter(S) ==
    /\ answer' = None
    /\ ht' = [ht EXCEPT !.list  = [i \in DOMAIN ht.list |-> Rejected(ht.list[i], S)],
                        !.elems = @ - Cardinality(Accepted(ht, S))]

Init == ht = htable_init /\ answer = None

Next ==
    \/ \E k \in Key, v \in Val : htable_insert(k, v)
    \/ \E k \in Key : htable_lookup(k)
    \/ \E k \in Key : htable_remove(k)
    \/ \E S \in SUBSET Key : htable_filter(S)

Spec == Init /\ [][Next]_vars

-----------------------------------------------------------------------------
(* Properties *)

(* The assertion elems == count of htable_resize, htable_foreach and       *)
(* htable_free holds whenever one of them could be called.                 *)
CountHolds == Counts(ht)

(* Chains stay short on average, however often the table was filled and    *)
(* emptied: the list is at least as long as the number of elements, and    *)
(* its length stays MinLength times a power of two, so that a mask selects *)
(* the chain.                                                              *)
LoadBounded ==
    /\ ht.elems =< ht.length
    /\ ht.length = NewLength(ht.length)

(* The table implements the map closure.c takes it for: across collisions, *)
(* resizes that reverse chains, removals and filters a lookup finds the    *)
(* last value inserted, and no key is in the table twice.                  *)
Contents ==
    UNION {{<<ht.list[i][j].key, ht.list[i][j].val>> : j \in DOMAIN ht.list[i]} :
              i \in DOMAIN ht.list}
Dict == INSTANCE Dictionary WITH dict <- Contents
ImplementsDictionary == Dict!DictSpec

-----------------------------------------------------------------------------
(* The invariant of the proofs *)

Entries == {Entry(k, v) : k \in Key, v \in Val}

(* The entries of chain i hash to i, and no key is in the chain twice. *)
GoodChain(chain, length, i) ==
    /\ chain \in Seq(Entries)
    /\ \A j \in DOMAIN chain : Slot(chain[j].hash, length) = i
    /\ \A j, k \in DOMAIN chain : chain[j].key = chain[k].key => j = k

GoodList(list, length) ==
    /\ DOMAIN list = 0 .. length - 1
    /\ \A i \in 0 .. length - 1 : GoodChain(list[i], length, i)

ChainEntries(chain) == {chain[j] : j \in DOMAIN chain}
EntriesIn(list) == UNION {ChainEntries(list[i]) : i \in DOMAIN list}
KeysOf(E) == {e.key : e \in E}

(* elems is the number of keys in t, which has some good length. *)
GoodTable(t) ==
    /\ DOMAIN t = {"length", "elems", "list"}
    /\ t.length \in Nat /\ \E i \in 0 .. t.length : t.length = Doubled[i]
    /\ GoodList(t.list, t.length)
    /\ IsFiniteSet(KeysOf(EntriesIn(t.list)))
    /\ t.elems = Cardinality(KeysOf(EntriesIn(t.list)))

IndInv == GoodTable(ht) /\ ht.elems =< ht.length
=============================================================================

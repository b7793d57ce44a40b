----------------------------- MODULE Dictionary -----------------------------
(***************************************************************************)
(* What closure.c expects of a hash table: a finite map from pointers to   *)
(* pointers, here the set of its <<key, value>> pairs, and the answer of   *)
(* the last call.                                                          *)
(***************************************************************************)
EXTENDS Naturals

CONSTANTS Key, Val, None

VARIABLES
    dict,               \* the pairs of the map
    answer              \* what the last call returned

dictVars == <<dict, answer>>

Without(S) == {p \in dict : p[1] \notin S}

IsKey(k) == \E p \in dict : p[1] = k
Value(k) == IF IsKey(k) THEN (CHOOSE p \in dict : p[1] = k)[2] ELSE None

DictInit == dict = {} /\ answer = None

(* insert answers whether the key is new. *)
Put(k, v) ==
    /\ dict' = Without({k}) \cup {<<k, v>>}
    /\ answer' = IF IsKey(k) THEN 0 ELSE 1

Get(k) ==
    /\ answer' = Value(k)
    /\ UNCHANGED dict

Delete(k) ==
    /\ answer' = Value(k)
    /\ dict' = Without({k})

(* The elements that a callback accepts are deleted. *)
DeleteAll(S) ==
    /\ answer' = None
    /\ dict' = Without(S)

DictNext ==
    \/ \E k \in Key : Get(k) \/ Delete(k) \/ \E v \in Val : Put(k, v)
    \/ \E S \in SUBSET Key : DeleteAll(S)

DictSpec == DictInit /\ [][DictNext]_dictVars
=============================================================================

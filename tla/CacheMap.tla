------------------------------ MODULE CacheMap ------------------------------
(* What the cache promises to those who look up keys: a map from a key to    *)
(* the object last closed for it, from which objects may vanish.  Cache      *)
(* implements it.                                                            *)
CONSTANTS Key, Val

VARIABLE map    \* key -> the set with its object, or the empty set

Init == map \in [Key -> {{}} \cup {{v} : v \in Val}]

(* An object is closed: it takes the place of the one with its key. *)
Publish == \E k \in Key, v \in Val : map' = [map EXCEPT ![k] = {v}]

(* Space is taken for a new object: what was there is gone. *)
Evict == map' \in [Key -> SUBSET Val] /\ \A k \in Key : map'[k] \in {map[k], {}}

Spec == Init /\ [][Publish \/ Evict]_map
=============================================================================

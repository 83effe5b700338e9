----------------------------- MODULE PathCache -----------------------------
(***************************************************************************)
(* The agent's reverse table from an inode to the path it was registered   *)
(* under: open addressing with linear probing and tombstones, a fixed      *)
(* number of slots.  Each operation runs under g_path_cache_lock, so it is *)
(* a function of the table.  The key {dev, ino} is one value, the path is  *)
(* a value too.                                                            *)
(***************************************************************************)
EXTENDS Integers

CONSTANTS
    Keys,
    Paths,
    None,   \* no key, no path
    Cap,    \* PATH_CACHE_CAP, 16384 in the code
    Hash    \* path_cache_hash

ASSUME CacheAssumption ==
    /\ Cap \in Nat \ {0}
    /\ Hash \in [Keys -> 0..(Cap - 1)]
    /\ None \notin Keys \cup Paths

Slots == 0..(Cap - 1)

(* A slot; dev, ino and path of a slot that is not in use are never read.  *)
SlotType == [used : {"EMPTY", "USED", "DELETED"}, key : Keys \cup {None}, path : Paths \cup {None}]

Tables == [Slots -> SlotType]

EmptyTable == [s \in Slots |-> [used |-> "EMPTY", key |-> None, path |-> None]]

(* The i-th slot the search for k visits. *)
SlotAt(k, i) == IF Hash[k] + i < Cap THEN Hash[k] + i ELSE Hash[k] + i - Cap

Holds(t, k, s) == t[s].used = "USED" /\ t[s].key = k

(* Mutant: a tombstone ends the search, too. *)
EndsAtTomb(t, k, i) ==
    LET Ends(j) == t[SlotAt(k, j)].used # "USED" \/ Holds(t, k, SlotAt(k, j))
    IN  Ends(i) /\ \A j \in 0..(i - 1) : ~Ends(j)

(* The search for k ends at its i-th slot: an empty one, or the key. *)
EndsAt(t, k, i) ==
    LET Ends(j) == t[SlotAt(k, j)].used = "EMPTY" \/ Holds(t, k, SlotAt(k, j))
    IN  Ends(i) /\ \A j \in 0..(i - 1) : ~Ends(j)

FirstTomb(t, k, i) ==
    /\ t[SlotAt(k, i)].used = "DELETED"
    /\ \A j \in 0..(i - 1) : t[SlotAt(k, j)].used # "DELETED"

(* Where an insertion of k goes whose search ended at the empty slot i:    *)
(* into the first tombstone on the way, otherwise there.                   *)
Target(t, k, i) ==
    IF \E j \in 0..(i - 1) : FirstTomb(t, k, j)
    THEN SlotAt(k, CHOOSE j \in 0..(i - 1) : FirstTomb(t, k, j))
    ELSE SlotAt(k, i)

(* Mutant: a removal empties the slot instead of leaving a tombstone. *)
EmptiesSlot(t, k) ==
    [s \in Slots |-> IF Holds(t, k, s) THEN [used |-> "EMPTY", key |-> None, path |-> None] ELSE t[s]]

(* Without an empty slot on the way nothing is inserted, though tombstones *)
(* may have been met.                                                      *)
path_cache_put(t, k, p) ==
    IF \E i \in Slots : EndsAt(t, k, i)
    THEN LET i == CHOOSE j \in Slots : EndsAt(t, k, j)
             s == IF t[SlotAt(k, i)].used = "EMPTY" THEN Target(t, k, i) ELSE SlotAt(k, i)
         IN  [t EXCEPT ![s] = [used |-> "USED", key |-> k, path |-> p]]
    ELSE t

path_cache_get(t, k) ==
    IF \E i \in Slots : EndsAt(t, k, i) /\ Holds(t, k, SlotAt(k, i))
    THEN t[SlotAt(k, CHOOSE i \in Slots : EndsAt(t, k, i))].path
    ELSE None

path_cache_remove(t, k) ==
    IF \E i \in Slots : EndsAt(t, k, i) /\ Holds(t, k, SlotAt(k, i))
    THEN [t EXCEPT ![SlotAt(k, CHOOSE i \in Slots : EndsAt(t, k, i))] =
             [used |-> "DELETED", key |-> None, path |-> None]]
    ELSE t

(* A key sits in one slot at most. *)
KeysUnique(t) ==
    \A s1, s2 \in Slots : s1 # s2 /\ t[s1].used = "USED" /\ t[s2].used = "USED"
                          => t[s1].key # t[s2].key

(* No empty slot cuts a key off from its search. *)
Reachable(t) ==
    \A s, i \in Slots :
        t[s].used = "USED" /\ SlotAt(t[s].key, i) = s
        => \A j \in 0..(i - 1) : t[SlotAt(t[s].key, j)].used # "EMPTY"

=============================================================================

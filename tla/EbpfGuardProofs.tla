--------------------------- MODULE EbpfGuardProofs ---------------------------
(***************************************************************************)
(* The path cache as a table and the guard that uses it, for any number of *)
(* inodes and paths, any hash, any size of the tables and the ring.        *)
(***************************************************************************)
EXTENDS EbpfGuard, FiniteSetTheorems, WellFoundedInduction, TLAPS

-----------------------------------------------------------------------------
(* The path cache. *)

(* A table the operations can be used on. *)
Sound(t) ==
    /\ t \in Tables
    /\ \A s \in Slots : t[s].used = "USED" => t[s].key \in Keys /\ t[s].path \in Paths
    /\ KeysUnique(t) /\ Reachable(t)

Has(t, k) == \E s \in Slots : Holds(t, k, s)

(* A search visits every slot once.                                        *)
LEMMA SearchVisitsAll ==
    ASSUME NEW k \in Keys
    PROVE  /\ \A i \in Slots : SlotAt(k, i) \in Slots
           /\ \A i, j \in Slots : SlotAt(k, i) = SlotAt(k, j) => i = j
           /\ \A s \in Slots : \E i \in Slots : SlotAt(k, i) = s
<1>1. Cap \in Nat /\ Hash[k] \in 0..(Cap - 1)
  BY CacheAssumption
<1>2. ASSUME NEW s \in Slots PROVE \E i \in Slots : SlotAt(k, i) = s
  <2>1. CASE Hash[k] <= s
    <3>1. s - Hash[k] \in Slots /\ SlotAt(k, s - Hash[k]) = s
      BY <1>1, <2>1 DEF Slots, SlotAt
    <3> QED
      BY <3>1
  <2>2. CASE Hash[k] > s
    <3>1. s - Hash[k] + Cap \in Slots /\ SlotAt(k, s - Hash[k] + Cap) = s
      BY <1>1, <2>2 DEF Slots, SlotAt
    <3> QED
      BY <3>1
  <2> QED
    BY <1>1, <2>1, <2>2 DEF Slots
<1> QED
  BY <1>1, <1>2 DEF Slots, SlotAt

(* A search ends in one place.                                             *)
LEMMA OneEnd ==
    ASSUME NEW t, NEW k, NEW i \in Slots, NEW j \in Slots, EndsAt(t, k, i), EndsAt(t, k, j)
    PROVE  i = j
BY CacheAssumption DEF EndsAt, Slots

(* In a sound table the search for a key that is there ends at the key.    *)
LEMMA SearchFinds ==
    ASSUME NEW t, Sound(t), NEW k \in Keys, NEW i \in Slots, Holds(t, k, SlotAt(k, i))
    PROVE  EndsAt(t, k, i)
<1>1. SlotAt(k, i) \in Slots /\ t[SlotAt(k, i)].used = "USED" /\ t[SlotAt(k, i)].key = k
  BY SearchVisitsAll DEF Holds
<1>2. ASSUME NEW j \in 0..(i - 1)
      PROVE  t[SlotAt(k, j)].used # "EMPTY" /\ ~Holds(t, k, SlotAt(k, j))
  <2>1. j \in Slots /\ j # i
    BY CacheAssumption DEF Slots
  <2>2. SlotAt(k, j) \in Slots /\ SlotAt(k, j) # SlotAt(k, i)
    BY <2>1, SearchVisitsAll
  <2>3. t[SlotAt(k, j)].used # "EMPTY"
    BY <1>1 DEF Sound, Reachable
  <2>4. ~Holds(t, k, SlotAt(k, j))
    BY <1>1, <2>2 DEF Sound, KeysUnique, Holds
  <2> QED
    BY <2>3, <2>4
<1> QED
  BY <1>2 DEF EndsAt

(* path_cache_get finds exactly the keys of a sound table.                 *)
LEMMA GetFinds ==
    ASSUME NEW t, Sound(t), NEW k \in Keys
    PROVE  path_cache_get(t, k) # None <=> Has(t, k)
<1>1. ASSUME Has(t, k) PROVE path_cache_get(t, k) # None
  <2>1. PICK s \in Slots : Holds(t, k, s)
    BY <1>1 DEF Has
  <2>2. PICK i \in Slots : SlotAt(k, i) = s
    BY SearchVisitsAll
  <2>3. EndsAt(t, k, i)
    BY <2>1, <2>2, SearchFinds
  <2>4. (CHOOSE j \in Slots : EndsAt(t, k, j)) = i
    BY <2>3, OneEnd
  <2>5. path_cache_get(t, k) = t[s].path
    BY <2>1, <2>2, <2>3, <2>4 DEF path_cache_get
  <2> QED
    BY <2>1, <2>5, CacheAssumption DEF Sound, Holds
<1>2. ASSUME path_cache_get(t, k) # None PROVE Has(t, k)
  <2>1. PICK i \in Slots : Holds(t, k, SlotAt(k, i))
    BY <1>2 DEF path_cache_get
  <2> QED
    BY <2>1, SearchVisitsAll DEF Has
<1> QED
  BY <1>1, <1>2

(* path_cache_remove takes out the key and nothing else, and cuts no key   *)
(* off from its search.                                                    *)
LEMMA RemoveKeeps ==
    ASSUME NEW t, Sound(t), NEW k \in Keys
    PROVE  /\ Sound(path_cache_remove(t, k))
           /\ ~Has(path_cache_remove(t, k), k)
           /\ \A o \in Keys \ {k} : Has(path_cache_remove(t, k), o) <=> Has(t, o)
<1>1. CASE ~Has(t, k)
  <2>1. path_cache_remove(t, k) = t
    BY <1>1, SearchVisitsAll DEF path_cache_remove, Has
  <2> QED
    BY <1>1, <2>1
<1>2. CASE Has(t, k)
  <2>1. PICK s \in Slots : Holds(t, k, s)
    BY <1>2 DEF Has
  <2>2. PICK i \in Slots : SlotAt(k, i) = s
    BY SearchVisitsAll
  <2>3. EndsAt(t, k, i)
    BY <2>1, <2>2, SearchFinds
  <2>4. (CHOOSE j \in Slots : EndsAt(t, k, j)) = i
    BY <2>3, OneEnd
  <2> DEFINE u == path_cache_remove(t, k)
  <2>5. u = [t EXCEPT ![s] = [used |-> "DELETED", key |-> None, path |-> None]]
    BY <2>1, <2>2, <2>3, <2>4 DEF path_cache_remove
  <2> HIDE DEF u
  <2>6. /\ u \in Tables /\ u[s].used = "DELETED"
        /\ \A x \in Slots \ {s} : u[x] = t[x]
    BY <2>5 DEF Sound, Tables, SlotType
  <2>7. \A x \in Slots : u[x].used = "USED" => x # s /\ t[x].used = "USED" /\ u[x] = t[x]
    BY <2>6
  <2>8. \A x \in Slots : u[x].used = "EMPTY" => t[x].used = "EMPTY"
    BY <2>6
  <2>9. KeysUnique(u)
    BY <2>7 DEF Sound, KeysUnique
  <2>10. Reachable(u)
    <3> SUFFICES ASSUME NEW x \in Slots, NEW n \in Slots, u[x].used = "USED",
                        SlotAt(u[x].key, n) = x, NEW j \in 0..(n - 1)
                 PROVE  u[SlotAt(u[x].key, j)].used # "EMPTY"
      BY DEF Reachable
    <3>1. j \in Slots /\ u[x] = t[x] /\ t[x].used = "USED" /\ t[x].key \in Keys
      BY <2>7, CacheAssumption DEF Sound, Slots
    <3>2. t[SlotAt(t[x].key, j)].used # "EMPTY" /\ SlotAt(t[x].key, j) \in Slots
      BY <3>1, SearchVisitsAll DEF Sound, Reachable
    <3> QED
      BY <2>8, <3>1, <3>2
  <2>11. Sound(u)
    BY <2>6, <2>7, <2>9, <2>10 DEF Sound
  <2>12. ~Has(u, k)
    BY <2>1, <2>7 DEF Has, Holds, Sound, KeysUnique
  <2>13. \A o \in Keys \ {k} : Has(u, o) <=> Has(t, o)
    BY <2>1, <2>6, <2>7 DEF Has, Holds
  <2> QED
    BY <2>11, <2>12, <2>13 DEF u
<1> QED
  BY <1>1, <1>2

(* Slot n of the search for k may take k: no other slot holds k, no other  *)
(* key is overwritten and no empty slot comes before.                      *)
Fits(t, k, n) ==
    /\ t[SlotAt(k, n)].used = "USED" => t[SlotAt(k, n)].key = k
    /\ \A x \in Slots : Holds(t, k, x) => x = SlotAt(k, n)
    /\ \A j \in 0..(n - 1) : t[SlotAt(k, j)].used # "EMPTY"

Written(t, k, n, p) == [t EXCEPT ![SlotAt(k, n)] = [used |-> "USED", key |-> k, path |-> p]]

(* Writing a key where it fits.                                            *)
LEMMA WriteKeeps ==
    ASSUME NEW t, Sound(t), NEW k \in Keys, NEW p \in Paths, NEW n \in Slots, Fits(t, k, n)
    PROVE  /\ Sound(Written(t, k, n, p)) /\ Has(Written(t, k, n, p), k)
           /\ \A o \in Keys \ {k} : Has(Written(t, k, n, p), o) <=> Has(t, o)
<1> DEFINE s == SlotAt(k, n)
           u == Written(t, k, n, p)
<1>1. s \in Slots
  BY SearchVisitsAll
<1>2. u = [t EXCEPT ![s] = [used |-> "USED", key |-> k, path |-> p]]
  BY DEF Written
<1> HIDE DEF s, u
<1>3. /\ u \in Tables /\ u[s].used = "USED" /\ u[s].key = k /\ u[s].path = p
      /\ \A x \in Slots \ {s} : u[x] = t[x]
  <2>1. [used |-> "USED", key |-> k, path |-> p] \in SlotType
    BY DEF SlotType
  <2>2. u \in Tables /\ \A x \in Slots \ {s} : u[x] = t[x]
    BY <1>1, <1>2, <2>1 DEF Sound, Tables
  <2>3. u[s] = [used |-> "USED", key |-> k, path |-> p]
    BY <1>1, <1>2 DEF Sound, Tables
  <2> QED
    BY <2>2, <2>3
<1>4. KeysUnique(u)
  <2>1. \A x \in Slots \ {s} : t[x].used = "USED" => t[x].key # k
    BY DEF Fits, Holds, s
  <2> QED
    BY <1>3, <2>1 DEF Sound, KeysUnique
<1>5. Reachable(u)
  <2> SUFFICES ASSUME NEW x \in Slots, NEW m \in Slots, u[x].used = "USED",
                      SlotAt(u[x].key, m) = x, NEW j \in 0..(m - 1)
               PROVE  u[SlotAt(u[x].key, j)].used # "EMPTY"
    BY DEF Reachable
  <2>1. j \in Slots
    BY CacheAssumption DEF Slots
  <2>2. CASE x = s
    <3>1. u[x].key = k /\ m = n
      BY <1>3, <2>2, SearchVisitsAll DEF s
    <3>2. t[SlotAt(k, j)].used # "EMPTY" /\ SlotAt(k, j) \in Slots
      BY <2>1, <3>1, SearchVisitsAll DEF Fits
    <3> QED
      BY <1>3, <3>1, <3>2
  <2>3. CASE x # s
    <3>1. u[x] = t[x] /\ t[x].used = "USED" /\ t[x].key \in Keys
      BY <1>3, <2>3 DEF Sound
    <3>2. t[SlotAt(t[x].key, j)].used # "EMPTY"
      BY <3>1 DEF Sound, Reachable
    <3>3. SlotAt(t[x].key, j) \in Slots
      BY <2>1, <3>1, SearchVisitsAll
    <3> QED
      BY <1>3, <3>1, <3>2, <3>3
  <2> QED
    BY <2>2, <2>3
<1>6. Sound(u)
  BY <1>3, <1>4, <1>5 DEF Sound
<1>7. Has(u, k)
  BY <1>1, <1>3 DEF Has, Holds
<1>8. \A o \in Keys \ {k} : Has(u, o) <=> Has(t, o)
  BY <1>1, <1>3 DEF Has, Holds, Fits, s
<1> QED
  BY <1>6, <1>7, <1>8 DEF u

(* A set of slots has a first one.                                         *)
LEMMA FirstOf ==
    ASSUME NEW T \in SUBSET Slots, T # {}
    PROVE  \E i \in T : \A j \in T : i <= j
<1>1. T \subseteq Nat
  BY CacheAssumption DEF Slots
<1> DEFINE R == OpToRel(<, Nat)
<1>2. \A i, j \in Nat : j < i => <<j, i>> \in R
  BY DEF OpToRel
<1>3. IsWellFoundedOn(R, Nat)
  BY NatLessThanWellFounded
<1> HIDE DEF R
<1>4. PICK i \in T : \A j \in T : ~(<<j, i>> \in R)
  BY <1>1, <1>3, WFMin
<1>5. ASSUME NEW j \in T PROVE i <= j
  <2>1. i \in Nat /\ j \in Nat
    BY <1>1
  <2>2. ~(j < i)
    BY <1>2, <1>4, <2>1, Zenon
  <2> QED
    BY <2>1, <2>2
<1> QED
  BY <1>5

(* A search ends unless no slot is empty and none holds the key.           *)
LEMMA SearchEnds ==
    ASSUME NEW t, NEW k \in Keys, \A i \in Slots : ~EndsAt(t, k, i)
    PROVE  \A s \in Slots : t[s].used # "EMPTY" /\ ~Holds(t, k, s)
<1> DEFINE T == {i \in Slots : t[SlotAt(k, i)].used = "EMPTY" \/ Holds(t, k, SlotAt(k, i))}
<1>1. T = {}
  <2> SUFFICES ASSUME T # {} PROVE FALSE
    OBVIOUS
  <2>1. PICK i \in T : \A j \in T : i <= j
    BY FirstOf
  <2>2. \A j \in 0..(i - 1) : j \in Slots /\ j \notin T
    BY <2>1, CacheAssumption DEF Slots
  <2>3. EndsAt(t, k, i)
    BY <2>1, <2>2 DEF EndsAt
  <2> QED
    BY <2>1, <2>3
<1> QED
  BY <1>1, SearchVisitsAll

(* path_cache_put enters the key, unless the table is out of empty slots   *)
(* and does not hold it, and disturbs no other key.                        *)
LEMMA PutKeeps ==
    ASSUME NEW t, Sound(t), NEW k \in Keys, NEW p \in Paths
    PROVE  /\ Sound(path_cache_put(t, k, p))
           /\ \A o \in Keys \ {k} : Has(path_cache_put(t, k, p), o) <=> Has(t, o)
           /\ \/ Has(path_cache_put(t, k, p), k)
              \/ ~Has(t, k) /\ \A s \in Slots : t[s].used # "EMPTY"
<1>1. CASE \A i \in Slots : ~EndsAt(t, k, i)
  BY <1>1, SearchEnds DEF path_cache_put, Has
<1>2. CASE \E i \in Slots : EndsAt(t, k, i)
  <2> DEFINE i == CHOOSE j \in Slots : EndsAt(t, k, j)
             u == path_cache_put(t, k, p)
  <2>1. i \in Slots /\ EndsAt(t, k, i)
    BY <1>2
  <2>2. u = [t EXCEPT ![IF t[SlotAt(k, i)].used = "EMPTY" THEN Target(t, k, i)
                        ELSE SlotAt(k, i)] = [used |-> "USED", key |-> k, path |-> p]]
    BY <1>2 DEF path_cache_put
  <2> HIDE DEF i, u
  <2>3. CASE t[SlotAt(k, i)].used # "EMPTY"
    <3>1. Holds(t, k, SlotAt(k, i)) /\ SlotAt(k, i) \in Slots
      BY <2>1, <2>3, SearchVisitsAll DEF EndsAt
    <3>2. \A x \in Slots : Holds(t, k, x) => x = SlotAt(k, i)
      BY <3>1 DEF Sound, KeysUnique, Holds
    <3>3. \A j \in 0..(i - 1) : t[SlotAt(k, j)].used # "EMPTY"
      BY <2>1 DEF EndsAt
    <3>4. Sound(u) /\ Has(u, k) /\ \A o \in Keys \ {k} : Has(u, o) <=> Has(t, o)
      <4>1. u = Written(t, k, i, p)
        BY <2>2, <2>3 DEF Written
      <4>2. Fits(t, k, i)
        BY <3>1, <3>2, <3>3 DEF Fits, Holds
      <4> QED
        BY <2>1, <4>1, <4>2, WriteKeeps
    <3> QED
      BY <3>4 DEF u
  <2>4. CASE t[SlotAt(k, i)].used = "EMPTY"
    <3>1. \A j \in 0..(i - 1) : t[SlotAt(k, j)].used # "EMPTY" /\ ~Holds(t, k, SlotAt(k, j))
      BY <2>1 DEF EndsAt
    <3>2. \A x \in Slots : ~Holds(t, k, x)
      <4> SUFFICES ASSUME NEW x \in Slots, Holds(t, k, x) PROVE FALSE
        OBVIOUS
      <4>1. PICK m \in Slots : SlotAt(k, m) = x
        BY SearchVisitsAll
      <4>2. EndsAt(t, k, m)
        BY <4>1, SearchFinds
      <4> QED
        BY <2>1, <2>4, <4>1, <4>2, OneEnd DEF Holds
    <3>3. PICK n \in 0..i : Target(t, k, i) = SlotAt(k, n) /\ t[SlotAt(k, n)].used # "USED"
      <4>1. CASE \E j \in 0..(i - 1) : FirstTomb(t, k, j)
        <5> DEFINE n == CHOOSE j \in 0..(i - 1) : FirstTomb(t, k, j)
        <5>1. n \in 0..(i - 1) /\ FirstTomb(t, k, n)
          BY <4>1
        <5>2. Target(t, k, i) = SlotAt(k, n)
          BY <4>1 DEF Target
        <5> HIDE DEF n
        <5>3. n \in 0..i /\ t[SlotAt(k, n)].used # "USED"
          BY <2>1, <5>1, CacheAssumption DEF FirstTomb, Slots
        <5> QED
          BY <5>2, <5>3
      <4>2. CASE ~\E j \in 0..(i - 1) : FirstTomb(t, k, j)
        BY <2>1, <2>4, <4>2, CacheAssumption DEF Target, Slots
      <4> QED
        BY <4>1, <4>2
    <3>4. n \in Slots /\ \A j \in 0..(n - 1) : j \in 0..(i - 1)
      BY <2>1, CacheAssumption DEF Slots
    <3>5. Sound(u) /\ Has(u, k) /\ \A o \in Keys \ {k} : Has(u, o) <=> Has(t, o)
      <4>1. u = Written(t, k, n, p)
        BY <2>2, <2>4, <3>3 DEF Written
      <4>2. Fits(t, k, n)
        BY <3>1, <3>2, <3>3, <3>4 DEF Fits
      <4> QED
        BY <3>4, <4>1, <4>2, WriteKeeps
    <3> QED
      BY <3>5 DEF u
  <2> QED
    BY <2>3, <2>4
<1> QED
  BY <1>1, <1>2

-----------------------------------------------------------------------------
(* The guard: types, and what the threads have in hand. *)

Hands ==
    /\ main.pc \in {"unpolicy", "policy", "put"} => main.ino \in Inodes
    /\ main.pc \in {"policy", "put"} => main.path \in Paths
    /\ poll.pc \in {"unpolicy", "uncache"} => poll.ino \in Inodes

Counted == IsFiniteSet(policy) /\ \A i \in Inodes : gen[i] <= moves

BaseInv == TypeOK /\ Counted /\ Hands /\ Sound(cache)

(* A hook adds at most one record of its inode, and only when there is     *)
(* room.                                                                   *)
LEMMA AuditType ==
    ASSUME Flags, NEW r \in Seq(Records), Len(r) <= RingSize, NEW i, policy \subseteq Inodes,
           NEW op \in Ops, NEW unlink \in BOOLEAN
    PROVE  /\ audit_inode(r, i, op, unlink) \in Seq(Records)
           /\ Len(audit_inode(r, i, op, unlink)) <= RingSize
<1>1. CASE i \in policy /\ Len(r) < RingSize
  <2>1. [ino |-> i, op |-> op, unlink |-> unlink, denied |-> block] \in Records
    BY <1>1, Zenon DEF Records, Flags
  <2> QED
    BY <1>1, <2>1, EbpfAssumption DEF audit_inode
<1>2. CASE ~(i \in policy /\ Len(r) < RingSize)
  BY <1>2 DEF audit_inode
<1> QED
  BY <1>1, <1>2

Program ==
    \/ \E p \in Paths : Write(p) \/ SetAttr(p) \/ Unlink(p) \/ Rmdir(p)
    \/ \E p, q \in Paths : Rename(p, q) \/ Link(p, q)
    \/ \E p \in Paths, i \in Inodes : Create(p, i)

Effect == \E c \in inflight : UnlinkEffect(c) \/ RenameEffect(c) \/ CallFails(c)

(* The record a program leaves in the ring.                                *)
LEMMA ProgramRing ==
    ASSUME BaseInv, Program
    PROVE  ring' \in Seq(Records) /\ Len(ring') <= RingSize
<1>1. /\ Flags /\ ring \in Seq(Records) /\ Len(ring) <= RingSize /\ policy \subseteq Inodes
      /\ Ops = {"WRITE", "ATTR", "DELETE"}
  BY DEF BaseInv, TypeOK, Ops
<1>2. ASSUME NEW i, NEW op \in Ops, NEW unlink \in BOOLEAN
      PROVE  /\ audit_inode(ring, i, op, unlink) \in Seq(Records)
             /\ Len(audit_inode(ring, i, op, unlink)) <= RingSize
  BY <1>1, AuditType
<1>3. ASSUME NEW p \in Paths, NEW op \in Ops, Change(p, op)
      PROVE  ring' \in Seq(Records) /\ Len(ring') <= RingSize
  BY <1>2, <1>3 DEF Change
<1>4. ASSUME NEW p \in Paths, Write(p) \/ SetAttr(p)
      PROVE  ring' \in Seq(Records) /\ Len(ring') <= RingSize
  BY <1>1, <1>3, <1>4 DEF Write, SetAttr
<1>5. ASSUME NEW p \in Paths, Unlink(p)
      PROVE  ring' \in Seq(Records) /\ Len(ring') <= RingSize
  BY <1>1, <1>2, <1>5 DEF Unlink
<1>6. ASSUME NEW p \in Paths, NEW q \in Paths, Rename(p, q)
      PROVE  ring' \in Seq(Records) /\ Len(ring') <= RingSize
  <2> DEFINE r == audit_inode(ring, ino[p], "WRITE", FALSE)
  <2>1. r \in Seq(Records) /\ Len(r) <= RingSize
    BY <1>1, <1>2
  <2>2. ring' = r \/ ring' = audit_inode(r, ino[q], "DELETE", FALSE)
    BY <1>6 DEF Rename
  <2> HIDE DEF r
  <2>3. /\ audit_inode(r, ino[q], "DELETE", FALSE) \in Seq(Records)
        /\ Len(audit_inode(r, ino[q], "DELETE", FALSE)) <= RingSize
    BY <1>1, <2>1, AuditType
  <2> QED
    BY <2>1, <2>2, <2>3
<1>7. ASSUME \/ \E p \in Paths : Rmdir(p)
             \/ \E p, q \in Paths : Link(p, q)
             \/ \E p \in Paths, i \in Inodes : Create(p, i)
      PROVE  ring' = ring
  BY <1>7 DEF Rmdir, Link, Create, kernel
<1> QED
  BY <1>1, <1>4, <1>5, <1>6, <1>7 DEF Program

(* What the operations of programs change.                                 *)
LEMMA ProgramFrame ==
    ASSUME Program
    PROVE  UNCHANGED <<policy, cache, dedup, settings, main, poll, reloads, reg, unnamed>>
BY DEF Program, Write, SetAttr, Change, Unlink, Rmdir, Rename, Link, Create, Move, kernel,
       ghosts, settings

(* Operations of programs keep the types.                                  *)
LEMMA ProgramTypes ==
    ASSUME BaseInv, Program
    PROVE  BaseInv'
<1> USE EbpfAssumption DEF fs, ghosts
<1>1. ino' \in [Paths -> Inodes \cup {None}]
  BY DEF Program, Write, SetAttr, Change, Unlink, Rmdir, Rename, Link, Create, BaseInv, TypeOK
<1>2. moves' = moves + 1 /\ moves < MaxMoves /\ moves \in Nat
  <2>1. Move
    BY DEF Program, Write, SetAttr, Change, Unlink, Rmdir, Rename, Link, Create
  <2> QED
    BY <2>1 DEF Move, BaseInv, TypeOK
<1>3. \/ gen' = gen
      \/ \E i \in Inodes : gen' = [gen EXCEPT ![i] = @ + 1]
  BY DEF Program, Write, SetAttr, Change, Unlink, Rmdir, Rename, Link, Create
<1>4. /\ moves' \in 0..MaxMoves /\ gen' \in [Inodes -> 0..MaxMoves]
      /\ \A i \in Inodes : gen'[i] <= moves'
  <2>1. /\ gen \in [Inodes -> 0..MaxMoves] /\ MaxMoves \in Nat
        /\ \A i \in Inodes : gen[i] <= moves
    BY DEF BaseInv, TypeOK, Counted
  <2>2. CASE gen' = gen
    BY <1>2, <2>1, <2>2
  <2>3. ASSUME NEW i \in Inodes, gen' = [gen EXCEPT ![i] = @ + 1]
        PROVE  gen' \in [Inodes -> 0..MaxMoves] /\ \A j \in Inodes : gen'[j] <= moves'
    BY <1>2, <2>1, <2>3
  <2> QED
    BY <1>2, <1>3, <2>1, <2>2, <2>3
<1>5. kept' \subseteq kept
  BY DEF Program, Write, SetAttr, Change, Unlink, Rmdir, Rename, Link, Create
<1>6. missed' \subseteq missed \cup policy
  <2>1. ASSUME NEW p \in Paths, Rmdir(p) PROVE missed' \subseteq missed \cup policy
    BY <2>1 DEF Rmdir, Lost
  <2> QED
    BY <2>1 DEF Program, Write, SetAttr, Change, Unlink, Rename, Link, Create
<1>7. inflight' \subseteq Calls
  <2>1. inflight \subseteq Calls
    BY DEF BaseInv, TypeOK
  <2>2. ASSUME NEW p \in Paths, Unlink(p) PROVE inflight' \subseteq Calls
    BY <2>1, <2>2 DEF Unlink, Calls
  <2>3. ASSUME NEW p \in Paths, NEW q \in Paths, Rename(p, q) PROVE inflight' \subseteq Calls
    BY <2>1, <2>3 DEF Rename, Calls
  <2> QED
    BY <2>1, <2>2, <2>3 DEF Program, Write, SetAttr, Change, Rmdir, Link, Create
<1> QED
  BY <1>1, <1>4, <1>5, <1>6, <1>7, ProgramRing, ProgramFrame
     DEF BaseInv, TypeOK, Counted, Hands, Flags, settings

(* What the end of a call changes.                                         *)
LEMMA EffectFrame ==
    ASSUME Effect
    PROVE  /\ UNCHANGED <<gen, policy, ring, cache, dedup, settings, main, poll, limits, reg, unnamed>>
           /\ inflight' \subseteq inflight /\ kept' \subseteq kept
           /\ missed' \subseteq missed \cup policy
BY DEF Effect, UnlinkEffect, RenameEffect, CallFails, Lost, kernel, ghosts

(* The end of a call keeps the types.                                      *)
LEMMA EffectTypes ==
    ASSUME BaseInv, Effect
    PROVE  BaseInv'
<1>1. ino' \in [Paths -> Inodes \cup {None}]
  <2>1. inflight \subseteq Calls /\ ino \in [Paths -> Inodes \cup {None}]
    BY DEF BaseInv, TypeOK
  <2>2. ASSUME NEW c \in inflight, UnlinkEffect(c) PROVE ino' \in [Paths -> Inodes \cup {None}]
    BY <2>1, <2>2 DEF UnlinkEffect
  <2>3. ASSUME NEW c \in inflight, RenameEffect(c) PROVE ino' \in [Paths -> Inodes \cup {None}]
    BY <2>1, <2>3 DEF RenameEffect, Calls
  <2> QED
    BY <2>1, <2>2, <2>3 DEF Effect, CallFails
<1> QED
  BY <1>1, EffectFrame DEF BaseInv, TypeOK, Counted, Hands, Flags, settings, limits

(* policy_map stays within max_entries.                                    *)
LEMMA PolicySize ==
    ASSUME BaseInv, NEW i \in Inodes
    PROVE  /\ IsFiniteSet(policy \ {i}) /\ Cardinality(policy \ {i}) <= MaxPolicies
           /\ (i \in policy \/ Cardinality(policy) < MaxPolicies) =>
                  /\ IsFiniteSet(policy \cup {i})
                  /\ Cardinality(policy \cup {i}) <= MaxPolicies
<1>1. IsFiniteSet(policy) /\ Cardinality(policy) \in Nat /\ Cardinality(policy) <= MaxPolicies
  BY FS_CardinalityType DEF BaseInv, TypeOK, Counted
<1>2. /\ IsFiniteSet(policy \ {i})
      /\ Cardinality(policy \ {i}) = IF i \in policy THEN Cardinality(policy) - 1
                                                    ELSE Cardinality(policy)
  BY <1>1, FS_RemoveElement
<1>3. /\ IsFiniteSet(policy \cup {i})
      /\ Cardinality(policy \cup {i}) = IF i \in policy THEN Cardinality(policy)
                                                       ELSE Cardinality(policy) + 1
  BY <1>1, FS_AddElement
<1> QED
  BY <1>1, <1>2, <1>3, EbpfAssumption

(* The poll thread keeps the types.                                        *)
LEMMA PollTypes ==
    ASSUME BaseInv, PollStep \/ PollFails
    PROVE  BaseInv'
<1> USE EbpfAssumption DEF fs, kernel, settings, limits, ghosts, Flags
<1>1. CASE HandleRecord
  <2> DEFINE e == Head(ring)
  <2>1. /\ ring \in Seq(Records) /\ ring # <<>> /\ Len(ring) <= RingSize
        /\ ring' = Tail(ring)
    BY <1>1 DEF HandleRecord, BaseInv, TypeOK
  <2>2. e \in Records
    BY <2>1
  <2>3. ring' \in Seq(Records) /\ Len(ring') <= RingSize
    BY <2>1
  <2>4. e.ino \in Inodes /\ e.op \in Ops
    BY <2>2 DEF Records
  <2>5. /\ \/ dedup' = dedup
           \/ dedup' = [dedup EXCEPT ![DedupHash[<<e.ino, e.op>>]] = [ino |-> e.ino, op |-> e.op]]
        /\ poll' = poll \/ poll' = [pc |-> "unpolicy", ino |-> e.ino]
        /\ missed' \subseteq missed \cup {e.ino}
    BY <1>1 DEF HandleRecord
  <2> HIDE DEF e
  <2>6. dedup' \in [DedupSlots -> [ino : Inodes \cup {None}, op : Ops]]
    <3>1. [ino |-> e.ino, op |-> e.op] \in [ino : Inodes \cup {None}, op : Ops]
      BY <2>4
    <3> QED
      BY <2>5, <3>1 DEF BaseInv, TypeOK
  <2>7. poll' \in [pc : PollPlaces, ino : Inodes \cup {None}]
    <3>1. [pc |-> "unpolicy", ino |-> e.ino] \in [pc : PollPlaces, ino : Inodes \cup {None}]
      BY <2>4 DEF PollPlaces
    <3> QED
      BY <2>5, <3>1 DEF BaseInv, TypeOK
  <2>8. UNCHANGED <<fs, policy, cache, settings, main, limits, reg, unnamed, kept>>
    BY <1>1 DEF HandleRecord
  <2>9. Hands'
    BY <2>4, <2>5, <2>8 DEF BaseInv, Hands
  <2> QED
    BY <2>3, <2>4, <2>5, <2>6, <2>7, <2>8, <2>9 DEF BaseInv, TypeOK, Counted
<1>2. CASE PollUnpolicy
  <2>1. policy' = policy \ {poll.ino} /\ missed' = missed \ {poll.ino} /\ poll.ino \in Inodes
    BY <1>2 DEF PollUnpolicy, BaseInv, Hands
  <2>2. IsFiniteSet(policy') /\ Cardinality(policy') <= MaxPolicies
    BY <2>1, PolicySize
  <2> QED
    BY <1>2, <2>1, <2>2 DEF PollUnpolicy, BaseInv, TypeOK, Counted, Hands, PollPlaces
<1>3. CASE PollUncache
  <2>1. Sound(cache')
    BY <1>3, RemoveKeeps DEF PollUncache, BaseInv, Hands, Inodes
  <2> QED
    BY <1>3, <2>1 DEF PollUncache, BaseInv, TypeOK, Counted, Hands, PollPlaces, Sound
<1>4. CASE PollStop \/ PollFails
  <2>1. poll.pc = "poll" /\ poll' = [poll EXCEPT !.pc = "ended"]
    BY <1>4 DEF PollStop, PollFails
  <2>2. poll' \in [pc : PollPlaces, ino : Inodes \cup {None}]
    BY <2>1 DEF BaseInv, TypeOK, PollPlaces
  <2>3. UNCHANGED <<fs, kernel, cache, dedup, settings, main, limits, ghosts>>
    BY <1>4 DEF PollStop, PollFails
  <2>4. Hands'
    BY <2>1, <2>3 DEF BaseInv, TypeOK, Hands
  <2> QED
    BY <2>2, <2>3, <2>4 DEF BaseInv, TypeOK, Counted
<1> QED
  BY <1>1, <1>2, <1>3, <1>4 DEF PollStep

(* The main thread puts the file in hand down.                             *)
LEMMA HandDown ==
    ASSUME NEW m \in MainRecords
    PROVE  /\ [m EXCEPT !.pc = "add", !.path = None, !.ino = None, !.gen = 0] \in MainRecords
           /\ [m EXCEPT !.pc = "put"] \in MainRecords
<1>1. 0 \in 0..MaxMoves
  <2>1. MaxMoves \in Nat
    BY EbpfAssumption
  <2> QED
    BY <2>1
<1>2. "add" \in MainPlaces /\ "put" \in MainPlaces
  BY DEF MainPlaces
<1>3. [m EXCEPT !.pc = "add", !.path = None, !.ino = None, !.gen = 0] \in MainRecords
  BY <1>1, <1>2 DEF MainRecords
<1>4. [m EXCEPT !.pc = "put"] \in MainRecords
  BY <1>2 DEF MainRecords
<1> QED
  BY <1>3, <1>4

(* The main thread keeps the types.                                        *)
LEMMA MainTypes ==
    ASSUME BaseInv, MainStep \/ Stop \/ \E ws \in SUBSET Watches : Reload(ws)
    PROVE  BaseInv'
<1>0. /\ MaxMoves \in Nat /\ MaxReloads \in Nat /\ MaxPolicies \in Nat /\ RingSize \in Nat
      /\ main \in MainRecords /\ reloads \in 0..MaxReloads
  BY EbpfAssumption DEF BaseInv, TypeOK
<1> USE DEF fs, kernel, settings, limits, ghosts
<1>1. ASSUME NEW p \in Paths, RemovePath(p) PROVE BaseInv'
  <2>1. Sound(cache')
    BY <1>1, RemoveKeeps DEF RemovePath, BaseInv, TypeOK, Inodes
  <2>2. main' \in MainRecords /\ Hands'
    <3>1. CASE ino[p] = None
      <4>1. main' = [main EXCEPT !.rm = @ \ {p}] /\ UNCHANGED poll
        BY <1>1, <3>1 DEF RemovePath
      <4>2. main' \in MainRecords
        BY <4>1 DEF BaseInv, TypeOK, MainRecords
      <4> QED
        BY <4>1, <4>2 DEF BaseInv, TypeOK, Hands, MainRecords
    <3>2. CASE ino[p] # None
      <4>1. /\ main' = [main EXCEPT !.pc = "unpolicy", !.rm = @ \ {p}, !.ino = ino[p]]
            /\ UNCHANGED poll
        BY <1>1, <3>2 DEF RemovePath
      <4>2. ino[p] \in Inodes
        BY <3>2 DEF BaseInv, TypeOK
      <4>3. main' \in MainRecords
        BY <4>1, <4>2 DEF BaseInv, TypeOK, MainRecords, MainPlaces
      <4> QED
        BY <4>1, <4>2, <4>3 DEF BaseInv, TypeOK, Hands, MainRecords
    <3> QED
      BY <3>1, <3>2
  <2> QED
    BY <1>1, <2>1, <2>2 DEF RemovePath, BaseInv, TypeOK, Counted, Sound, Flags
<1>2. ASSUME NEW p \in Paths, AddPath(p) PROVE BaseInv'
  <2>1. main' \in MainRecords /\ Hands'
    BY <1>2 DEF AddPath, BaseInv, TypeOK, Hands, MainRecords, MainPlaces
  <2> QED
    BY <1>2, <2>1 DEF AddPath, BaseInv, TypeOK, Counted, Flags
<1>3. CASE remove_policy_inode
  <2>1. policy' = policy \ {main.ino} /\ missed' = missed \ {main.ino} /\ main.ino \in Inodes
    BY <1>3 DEF remove_policy_inode, BaseInv, Hands
  <2>2. IsFiniteSet(policy') /\ Cardinality(policy') <= MaxPolicies
    BY <2>1, PolicySize
  <2>3. main' \in MainRecords /\ Hands'
    BY <1>3 DEF remove_policy_inode, BaseInv, TypeOK, Hands, MainRecords, MainPlaces
  <2> QED
    BY <1>3, <2>1, <2>2, <2>3 DEF remove_policy_inode, BaseInv, TypeOK, Counted, Flags
<1>4. CASE add_policy_inode
  <2>1. main.ino \in Inodes /\ main.path \in Paths /\ main.gen \in 0..MaxMoves
    BY <1>4 DEF add_policy_inode, BaseInv, TypeOK, Hands, MainRecords
  <2>2. main' \in MainRecords /\ Hands'
    <3>1. \/ main' = [main EXCEPT !.pc = "put"]
          \/ main' = [main EXCEPT !.pc = "add", !.path = None, !.ino = None, !.gen = 0]
      BY <1>4 DEF add_policy_inode
    <3>2. main' \in MainRecords
      BY <1>0, <3>1, HandDown
    <3>3. Hands'
      BY <1>4, <2>1, <3>1 DEF add_policy_inode, BaseInv, TypeOK, Hands, MainRecords
    <3> QED
      BY <3>2, <3>3
  <2>3. IsFiniteSet(policy') /\ Cardinality(policy') <= MaxPolicies /\ policy' \subseteq Inodes
    <3>1. CASE policy' = policy
      BY <3>1 DEF BaseInv, TypeOK, Counted
    <3>2. CASE /\ policy' = policy \cup {main.ino}
               /\ main.ino \in policy \/ Cardinality(policy) < MaxPolicies
      BY <2>1, <3>2, PolicySize DEF BaseInv, TypeOK
    <3> QED
      BY <1>4, <3>1, <3>2 DEF add_policy_inode
  <2>4. /\ reg' \in [Inodes -> 0..MaxMoves]
        /\ missed' \subseteq Inodes /\ unnamed' \subseteq Inodes /\ kept' \subseteq Paths
    BY <1>4, <2>1 DEF add_policy_inode, BaseInv, TypeOK
  <2> QED
    BY <1>4, <2>2, <2>3, <2>4 DEF add_policy_inode, BaseInv, TypeOK, Counted, Flags
<1>5. CASE PutPath
  <2>1. main.ino \in Inodes /\ main.path \in Paths
    BY <1>5 DEF PutPath, BaseInv, Hands
  <2>2. Sound(cache')
    BY <1>5, <2>1, PutKeeps DEF PutPath, BaseInv, Inodes
  <2>3. main' \in MainRecords /\ Hands'
    <3>1. main' = [main EXCEPT !.pc = "add", !.path = None, !.ino = None, !.gen = 0]
      BY <1>5 DEF PutPath
    <3>2. main' \in MainRecords
      BY <1>0, <3>1, HandDown
    <3>3. Hands'
      BY <1>5, <3>1 DEF PutPath, BaseInv, TypeOK, Hands, MainRecords
    <3> QED
      BY <3>2, <3>3
  <2>4. unnamed' \subseteq unnamed \cup {main.ino}
    BY <1>5 DEF PutPath
  <2> QED
    BY <1>5, <2>1, <2>2, <2>3, <2>4 DEF PutPath, BaseInv, TypeOK, Counted, Sound, Flags
<1>6. ASSUME NEW ws \in SUBSET Watches, Reload(ws) PROVE BaseInv'
  <2>1. \A vs \in SUBSET Watches : Covered(vs) \subseteq Paths
    BY EbpfAssumption DEF Covered
  <2>2. Covered(watched \ ws) \subseteq Paths /\ Covered(ws \ watched) \subseteq Paths
    BY <2>1 DEF BaseInv, TypeOK
  <2>3. main' \in MainRecords /\ Hands'
    BY <1>6, <2>2 DEF Reload, BaseInv, TypeOK, Hands, MainRecords, MainPlaces
  <2> QED
    <3>0. reloads < MaxReloads /\ reloads' = reloads + 1 /\ watched' = ws
      BY <1>6 DEF Reload
    <3>1. reloads' \in 0..MaxReloads /\ watched' \subseteq Watches
      <4>1. reloads' \in 0..MaxReloads
        BY <1>0, <3>0
      <4> QED
        BY <3>0, <4>1
    <3> QED
      BY <1>6, <2>3, <3>1 DEF Reload, BaseInv, TypeOK, Counted, Flags
<1>7. CASE RemovedAll \/ AddedAll
  <2>1. main' \in MainRecords /\ Hands'
    BY <1>7 DEF RemovedAll, AddedAll, BaseInv, TypeOK, Hands, MainRecords, MainPlaces
  <2> QED
    BY <1>7, <2>1 DEF RemovedAll, AddedAll, BaseInv, TypeOK, Counted, Flags
<1>8. CASE Stop
  <2>1. main' \in MainRecords /\ Hands'
    BY <1>8 DEF Stop, BaseInv, TypeOK, Hands, MainRecords, MainPlaces
  <2>2. Flags'
    BY <1>8 DEF Stop, BaseInv, TypeOK, Flags
  <2> QED
    BY <1>8, <2>1, <2>2 DEF Stop, BaseInv, TypeOK, Counted
<1>9. CASE Cleanup
  <2>1. main' \in MainRecords /\ Hands'
    BY <1>9 DEF Cleanup, BaseInv, TypeOK, Hands, MainRecords, MainPlaces
  <2>2. IsFiniteSet(policy') /\ Cardinality(policy') = 0
    BY <1>9, FS_EmptySet DEF Cleanup
  <2> QED
    BY <1>0, <1>9, <2>1, <2>2 DEF Cleanup, BaseInv, TypeOK, Counted, Flags
<1> QED
  BY <1>1, <1>2, <1>3, <1>4, <1>5, <1>6, <1>7, <1>8, <1>9 DEF MainStep

(* The initial state.                                                      *)
LEMMA InitBase ==
    ASSUME Init
    PROVE  BaseInv
<1>0. /\ MaxMoves \in Nat /\ MaxReloads \in Nat /\ MaxPolicies \in Nat /\ RingSize \in Nat
      /\ 0 \in 0..MaxMoves /\ 0 \in 0..MaxReloads
  BY EbpfAssumption
<1>1. Sound(EmptyTable)
  <2>1. EmptyTable \in Tables
    BY DEF EmptyTable, Tables, SlotType
  <2>2. \A s \in Slots : EmptyTable[s].used = "EMPTY"
    BY DEF EmptyTable
  <2> QED
    BY <2>1, <2>2 DEF Sound, KeysUnique, Reachable
<1>2. IsFiniteSet(policy) /\ Cardinality(policy) = 0
  BY FS_EmptySet DEF Init
<1>3. main \in MainRecords /\ Hands
  <2>1. Covered(FirstWatch) \in SUBSET Paths
    BY EbpfAssumption DEF Covered
  <2>2. main = [pc |-> "add", rm |-> {}, add |-> Covered(FirstWatch),
                path |-> None, ino |-> None, gen |-> 0]
    BY DEF Init
  <2>3. main \in MainRecords
    BY <1>0, <2>1, <2>2 DEF MainRecords, MainPlaces
  <2> QED
    BY <2>2, <2>3 DEF Init, Hands
<1>4. /\ poll \in [pc : PollPlaces, ino : Inodes \cup {None}]
      /\ dedup \in [DedupSlots -> [ino : Inodes \cup {None}, op : Ops]]
  BY DEF Init, PollPlaces, NoStamp, Ops
<1>5. gen \in [Inodes -> 0..MaxMoves] /\ reg \in [Inodes -> 0..MaxMoves]
      /\ \A i \in Inodes : gen[i] <= moves
  BY <1>0 DEF Init
<1>6. Flags
  BY DEF Init, Flags
<1>7. ring \in Seq(Records) /\ Len(ring) <= RingSize
  BY <1>0 DEF Init
<1>8. /\ cache = EmptyTable /\ policy = {} /\ missed = {} /\ unnamed = {} /\ kept = {}
      /\ ino \in [Paths -> Inodes \cup {None}] /\ watched \subseteq Watches
  BY EbpfAssumption DEF Init
<1>9. moves = 0 /\ reloads = 0 /\ inflight = {}
  BY DEF Init
<1>10. TypeOK
  BY <1>0, <1>1, <1>2, <1>3, <1>4, <1>5, <1>6, <1>7, <1>8, <1>9 DEF TypeOK, Sound
<1> QED
  BY <1>1, <1>2, <1>3, <1>5, <1>8, <1>10 DEF BaseInv, Counted

(* Steps that are not a step.                                              *)
LEMMA BaseStutters ==
    ASSUME BaseInv, UNCHANGED vars
    PROVE  BaseInv'
BY DEF BaseInv, TypeOK, Counted, Hands, Flags, vars, fs, kernel, settings, limits, ghosts

(* Every step keeps types, bounds and the cache.                           *)
LEMMA BaseKept ==
    ASSUME BaseInv, [Next]_vars
    PROVE  BaseInv'
BY ProgramTypes, EffectTypes, PollTypes, MainTypes, BaseStutters DEF Next, Program, Effect

(* Every reachable state is well-typed, policy_map and path cache within   *)
(* their bounds, and the probe chains of the path cache whole.             *)
THEOREM BaseInvariance == Spec => []BaseInv
BY InitBase, BaseKept, PTL DEF Spec

(* CacheSound, for any number of slots, paths and inodes and any hash:     *)
(* path_cache_put and path_cache_remove of both threads, in any order,     *)
(* leave each path to be found again.                                      *)
THEOREM CacheStaysSound == Spec => []CacheSound
<1>1. BaseInv => CacheSound
  BY DEF BaseInv, CacheSound, Sound
<1> QED
  BY <1>1, BaseInvariance, PTL

-----------------------------------------------------------------------------
(* PolicyNamed is kept by the steps with what makes its second exception   *)
(* right: when the poll thread is about to drop a path of an inode that is *)
(* in policy_map, the inode was registered after the poll thread removed   *)
(* it from there, and is counted as unnamed.                               *)
Named(i) ==
    \/ Has(cache, i)
    \/ main.pc \in {"put", "unpolicy"} /\ main.ino = i

NamedInv ==
    /\ \A i \in policy \ unnamed : Named(i)
    /\ poll.pc = "uncache" /\ poll.ino \in policy => poll.ino \in unnamed

(* NoStranger is kept by the steps when it counts the inode of a file that *)
(* is gone as well: its number may be given out next.                      *)
Stale(i) == ~InUse(i) \/ gen[i] # reg[i]

StrangerInv == \A i \in policy : Stale(i) => i \in missed \/ Forgetting(i)

(* StaysGuarded is kept by the steps when neither thread is going to take  *)
(* the file out of policy_map.                                             *)
Guarded(p) ==
    /\ ino[p] \in policy /\ ~Forgetting(ino[p])
    /\ ~(main.pc = "unpolicy" /\ main.ino = ino[p])

KeptInv == \A p \in kept : Guarded(p)

(* In lock mode no call on a registered file is past its hook.             *)
HeldInv == block => \A p \in kept : ~Held(p)

(* What NamedInv is about.                                                 *)
LEMMA NamedFrame ==
    ASSUME NamedInv, UNCHANGED <<policy, cache, unnamed, main, poll>>
    PROVE  NamedInv'
BY DEF NamedInv, Named, Has

(* Main thread steps that change none of the tables and hold no inode      *)
(* before or after them, as far as Named cares.                            *)
LEMMA NamedMoves ==
    ASSUME NamedInv, UNCHANGED <<policy, cache, unnamed, poll>>,
           main.pc \notin {"put", "unpolicy"}
    PROVE  NamedInv'
BY DEF NamedInv, Named, Has

(* Every step keeps the two tables in agreement.                           *)
LEMMA NamedKept ==
    ASSUME BaseInv, NamedInv, [Next]_vars
    PROVE  NamedInv'
<1> USE DEF fs, kernel, settings, limits, ghosts
<1>0. Sound(cache) /\ policy \subseteq Keys /\ Inodes = Keys
  BY DEF BaseInv, TypeOK, Inodes
<1>1. CASE Program \/ Effect
  BY <1>1, ProgramFrame, EffectFrame, NamedFrame
<1>2. CASE HandleRecord
  <2>1. UNCHANGED <<policy, cache, unnamed, main>> /\ poll.pc = "poll"
        /\ (poll' = poll \/ poll'.pc = "unpolicy")
    BY <1>2 DEF HandleRecord
  <2> QED
    BY <2>1 DEF NamedInv, Named, Has
<1>3. CASE PollUnpolicy
  <2>1. /\ UNCHANGED <<cache, unnamed, main>>
        /\ policy' = policy \ {poll.ino} /\ poll'.ino = poll.ino
    BY <1>3 DEF PollUnpolicy, BaseInv, TypeOK
  <2> QED
    BY <2>1 DEF NamedInv, Named, Has
<1>4. CASE PollUncache
  <2>1. /\ UNCHANGED <<policy, unnamed, main>> /\ poll.ino \in Keys /\ poll.pc = "uncache"
        /\ cache' = path_cache_remove(cache, poll.ino) /\ poll'.pc = "poll"
    BY <1>0, <1>4 DEF PollUncache, BaseInv, Hands
  <2>2. \A o \in Keys \ {poll.ino} : Has(cache', o) <=> Has(cache, o)
    BY <1>0, <2>1, RemoveKeeps
  <2>3. poll.ino \in policy => poll.ino \in unnamed
    BY <2>1 DEF NamedInv
  <2> QED
    BY <1>0, <2>1, <2>2, <2>3 DEF NamedInv, Named
<1>5. CASE PollStop \/ PollFails
  <2>1. UNCHANGED <<policy, cache, unnamed, main>> /\ poll'.pc = "ended"
    BY <1>5 DEF PollStop, PollFails, BaseInv, TypeOK
  <2> QED
    BY <2>1 DEF NamedInv, Named, Has
<1>6. ASSUME NEW p \in Paths, RemovePath(p) PROVE NamedInv'
  <2>1. UNCHANGED <<policy, unnamed, poll>> /\ main.pc = "remove"
    BY <1>6 DEF RemovePath
  <2>2. CASE ino[p] = None
    <3>1. UNCHANGED cache
      BY <1>6, <2>2 DEF RemovePath
    <3> QED
      BY <2>1, <3>1, NamedMoves
  <2>3. CASE ino[p] # None
    <3>1. /\ main'.pc = "unpolicy" /\ main'.ino = ino[p]
          /\ cache' = path_cache_remove(cache, ino[p]) /\ ino[p] \in Keys
      BY <1>0, <1>6, <2>3 DEF RemovePath, BaseInv, TypeOK, MainRecords
    <3>2. \A o \in Keys \ {ino[p]} : Has(cache', o) <=> Has(cache, o)
      BY <1>0, <3>1, RemoveKeeps
    <3> QED
      BY <1>0, <2>1, <3>1, <3>2 DEF NamedInv, Named
  <2> QED
    BY <2>2, <2>3
<1>7. CASE remove_policy_inode
  <2>1. /\ UNCHANGED <<cache, unnamed, poll>> /\ main.pc = "unpolicy"
        /\ policy' = policy \ {main.ino}
    BY <1>7 DEF remove_policy_inode
  <2> QED
    BY <2>1 DEF NamedInv, Named, Has
<1>8. CASE add_policy_inode
  <2>1. CASE /\ policy' = policy \cup {main.ino} /\ main' = [main EXCEPT !.pc = "put"]
             /\ unnamed' = IF poll = [pc |-> "uncache", ino |-> main.ino]
                           THEN unnamed \cup {main.ino} ELSE unnamed \ {main.ino}
    <3>1. main.pc = "policy" /\ main'.pc = "put" /\ main'.ino = main.ino
          /\ UNCHANGED <<cache, poll>>
      BY <1>8, <2>1 DEF add_policy_inode, BaseInv, TypeOK, MainRecords
    <3>2. poll.pc = "uncache" /\ poll.ino = main.ino => main.ino \in unnamed'
      <4>1. poll.pc = "uncache" /\ poll.ino = main.ino =>
               poll = [pc |-> "uncache", ino |-> main.ino]
        BY DEF BaseInv, TypeOK
      <4> QED
        BY <2>1, <4>1
    <3>3. \A i : i # main.ino => (i \in policy' <=> i \in policy) /\ (i \in unnamed' <=> i \in unnamed)
      BY <2>1
    <3> QED
      BY <3>1, <3>2, <3>3 DEF NamedInv, Named, Has
  <2>2. CASE UNCHANGED <<policy, ghosts>>
    <3>1. UNCHANGED <<policy, cache, unnamed, poll>> /\ main.pc = "policy"
      BY <1>8, <2>2 DEF add_policy_inode
    <3> QED
      BY <3>1, NamedMoves
  <2> QED
    BY <1>8, <2>1, <2>2 DEF add_policy_inode
<1>9. CASE PutPath
  <2>1. /\ UNCHANGED <<policy, poll>> /\ main.pc = "put" /\ main'.pc = "add"
        /\ cache' = path_cache_put(cache, main.ino, main.path)
        /\ main.ino \in Keys /\ main.path \in Paths
    BY <1>0, <1>9 DEF PutPath, BaseInv, TypeOK, MainRecords, Hands
  <2>2. /\ \A o \in Keys \ {main.ino} : Has(cache', o) <=> Has(cache, o)
        /\ \/ Has(cache', main.ino)
           \/ ~Has(cache, main.ino) /\ \A s \in Slots : cache[s].used # "EMPTY"
    BY <1>0, <2>1, PutKeeps
  <2>3. path_cache_get(cache, main.ino) # None <=> Has(cache, main.ino)
    BY <1>0, <2>1, GetFinds
  <2>4. /\ unnamed \subseteq unnamed'
        /\ path_cache_get(cache, main.ino) = None /\ (\A s \in Slots : cache[s].used # "EMPTY")
               => main.ino \in unnamed'
    BY <1>9 DEF PutPath
  <2> QED
    BY <1>0, <2>1, <2>2, <2>3, <2>4 DEF NamedInv, Named
<1>10. ASSUME \/ \E p \in Paths : AddPath(p)
              \/ \E ws \in SUBSET Watches : Reload(ws)
              \/ RemovedAll \/ AddedAll \/ Stop
       PROVE  NamedInv'
  <2>1. UNCHANGED <<policy, cache, unnamed, poll>> /\ main.pc \in {"add", "idle", "remove"}
    BY <1>10 DEF AddPath, Reload, RemovedAll, AddedAll, Stop
  <2> QED
    BY <2>1, NamedMoves
<1>11. CASE Cleanup
  <2>1. policy' = {}
    BY <1>11 DEF Cleanup
  <2> QED
    BY <2>1 DEF NamedInv
<1>12. CASE UNCHANGED vars
  BY <1>12, NamedFrame DEF vars
<1> QED
  BY <1>1, <1>2, <1>3, <1>4, <1>5, <1>6, <1>7, <1>8, <1>9, <1>10, <1>11, <1>12
     DEF Next, Program, Effect, PollStep, MainStep

(* PolicyNamed, of both tables of any size and any interleaving of the     *)
(* main thread's registrations and removals with those of the poll thread. *)
THEOREM WatchedIsNamed == Spec => []PolicyNamed
<1>1. Init => NamedInv
  BY DEF Init, NamedInv
<1>2. BaseInv /\ NamedInv => PolicyNamed
  BY GetFinds DEF BaseInv, TypeOK, NamedInv, Named, PolicyNamed, Inodes
<1> QED
  BY <1>1, <1>2, BaseInvariance, NamedKept, PTL DEF Spec

-----------------------------------------------------------------------------
(* The ring holds a record that makes the poll thread forget i.            *)
Tells(r, i) == \E n \in DOMAIN r : r[n].ino = i /\ r[n].unlink /\ ~r[n].denied

(* What a hook adds to the ring, seen through Tells.                       *)
LEMMA AuditTells ==
    ASSUME NEW r \in Seq(Records), NEW i, NEW op, NEW unlink \in BOOLEAN
    PROVE  /\ \A j : Tells(audit_inode(r, i, op, unlink), j) <=>
                      \/ Tells(r, j)
                      \/ j = i /\ unlink /\ ~block /\ i \in policy /\ Len(r) < RingSize
           /\ audit_inode(r, i, op, unlink) # r <=> i \in policy /\ Len(r) < RingSize
<1> DEFINE rec == [ino |-> i, op |-> op, unlink |-> unlink, denied |-> block]
<1>1. CASE i \in policy /\ Len(r) < RingSize
  <2>1. audit_inode(r, i, op, unlink) = Append(r, rec)
    BY <1>1 DEF audit_inode
  <2>2. /\ DOMAIN Append(r, rec) = DOMAIN r \cup {Len(r) + 1}
        /\ \A n \in DOMAIN r : Append(r, rec)[n] = r[n]
        /\ Append(r, rec)[Len(r) + 1] = rec
        /\ Append(r, rec) # r
    <3> HIDE DEF rec
    <3>1. /\ Len(Append(r, rec)) = Len(r) + 1 /\ Len(r) \in Nat
          /\ \A n \in 1..Len(r) : Append(r, rec)[n] = r[n]
          /\ Append(r, rec)[Len(r) + 1] = rec
      OBVIOUS
    <3>2. DOMAIN Append(r, rec) = 1..(Len(r) + 1) /\ DOMAIN r = 1..Len(r)
      <4>1. r \in Seq(Records \cup {rec}) /\ Append(r, rec) \in Seq(Records \cup {rec})
        OBVIOUS
      <4> QED
        BY <3>1, <4>1
    <3>3. 1..(Len(r) + 1) = 1..Len(r) \cup {Len(r) + 1}
      BY <3>1
    <3>4. Append(r, rec) # r
      BY <3>1
    <3>5. DOMAIN Append(r, rec) = DOMAIN r \cup {Len(r) + 1}
      BY <3>2, <3>3, Zenon
    <3>6. \A n \in DOMAIN r : Append(r, rec)[n] = r[n]
      BY <3>1, <3>2, Zenon
    <3> QED
      BY <3>1, <3>4, <3>5, <3>6, Zenon
  <2>3. rec.ino = i /\ rec.unlink = unlink /\ rec.denied = block
    OBVIOUS
  <2> HIDE DEF rec
  <2>4. ASSUME NEW j
        PROVE  Tells(Append(r, rec), j) <=> Tells(r, j) \/ (j = i /\ unlink /\ ~block)
    <3>1. ASSUME Tells(r, j) PROVE Tells(Append(r, rec), j)
      BY <2>2, <3>1, Zenon DEF Tells
    <3>2. ASSUME j = i, unlink, ~block PROVE Tells(Append(r, rec), j)
      BY <2>2, <2>3, <3>2, Zenon DEF Tells
    <3>3. ASSUME Tells(Append(r, rec), j)
          PROVE  Tells(r, j) \/ (j = i /\ unlink /\ ~block)
      <4>1. PICK n \in DOMAIN r \cup {Len(r) + 1} :
               /\ Append(r, rec)[n].ino = j /\ Append(r, rec)[n].unlink
               /\ ~Append(r, rec)[n].denied
        BY <2>2, <3>3, Zenon DEF Tells
      <4>2. CASE n \in DOMAIN r
        BY <2>2, <4>1, <4>2, Zenon DEF Tells
      <4>3. CASE n = Len(r) + 1
        BY <2>2, <2>3, <4>1, <4>3, Zenon
      <4> QED
        BY <4>2, <4>3
    <3> QED
      BY <3>1, <3>2, <3>3
  <2> QED
    BY <1>1, <2>1, <2>2, <2>4, Zenon
<1>2. CASE ~(i \in policy /\ Len(r) < RingSize)
  <2>1. audit_inode(r, i, op, unlink) = r
    BY <1>2 DEF audit_inode
  <2> QED
    BY <1>2, <2>1, Zenon
<1> QED
  BY <1>1, <1>2, Zenon

(* What taking a record out of the ring changes.                           *)
LEMMA TailTells ==
    ASSUME NEW r \in Seq(Records), r # <<>>, NEW j
    PROVE  Tells(r, j) <=> Tells(Tail(r), j) \/ (Head(r).ino = j /\ Forgets(Head(r)))
<1>1. /\ DOMAIN r = 1..Len(r) /\ Len(r) \in Nat /\ Len(r) > 0 /\ Head(r) = r[1]
      /\ DOMAIN Tail(r) = 1..(Len(r) - 1)
      /\ \A n \in 1..(Len(r) - 1) : Tail(r)[n] = r[n + 1]
  OBVIOUS
<1>2. ASSUME Tells(r, j) PROVE Tells(Tail(r), j) \/ (Head(r).ino = j /\ Forgets(Head(r)))
  <2>1. PICK n \in 1..Len(r) : r[n].ino = j /\ r[n].unlink /\ ~r[n].denied
    BY <1>1, <1>2 DEF Tells
  <2>2. CASE n = 1
    BY <1>1, <2>1, <2>2 DEF Forgets
  <2>3. CASE n # 1
    <3>1. n - 1 \in 1..(Len(r) - 1) /\ (n - 1) + 1 = n
      BY <1>1, <2>3
    <3>2. Tail(r)[n - 1] = r[n]
      BY <1>1, <3>1
    <3> QED
      BY <1>1, <2>1, <3>1, <3>2, Zenon DEF Tells
  <2> QED
    BY <2>2, <2>3
<1>3. ASSUME Tells(Tail(r), j) PROVE Tells(r, j)
  <2>1. PICK n \in 1..(Len(r) - 1) :
           Tail(r)[n].ino = j /\ Tail(r)[n].unlink /\ ~Tail(r)[n].denied
    BY <1>1, <1>3 DEF Tells
  <2>2. n + 1 \in DOMAIN r /\ r[n + 1] = Tail(r)[n]
    BY <1>1
  <2> QED
    BY <2>1, <2>2, Zenon DEF Tells
<1>4. ASSUME Head(r).ino = j, Forgets(Head(r)) PROVE Tells(r, j)
  <2>1. 1 \in DOMAIN r
    BY <1>1
  <2> QED
    BY <1>1, <1>4, <2>1, Zenon DEF Tells, Forgets
<1> QED
  BY <1>2, <1>3, <1>4

(* Only a record of the unlink hook tells.                                 *)
Quiet ==
    \/ \E p \in Paths : Write(p) \/ SetAttr(p) \/ Rmdir(p)
    \/ \E p, q \in Paths : Rename(p, q) \/ Link(p, q)
    \/ \E p \in Paths, i \in Inodes : Create(p, i)

(* No other call of a program tells of a delete.                           *)
LEMMA QuietTells ==
    ASSUME BaseInv, Quiet, NEW j
    PROVE  Tells(ring', j) <=> Tells(ring, j)
<1>1. /\ Flags /\ ring \in Seq(Records) /\ Len(ring) <= RingSize /\ policy \subseteq Inodes
      /\ "WRITE" \in Ops
  BY DEF BaseInv, TypeOK, Ops
<1>2. ASSUME NEW r \in Seq(Records), NEW i, NEW op
      PROVE  Tells(audit_inode(r, i, op, FALSE), j) <=> Tells(r, j)
  BY AuditTells
<1>3. ASSUME NEW p \in Paths, NEW op, Change(p, op)
      PROVE  Tells(ring', j) <=> Tells(ring, j)
  BY <1>1, <1>2, <1>3 DEF Change
<1>4. ASSUME NEW p \in Paths, Write(p) \/ SetAttr(p)
      PROVE  Tells(ring', j) <=> Tells(ring, j)
  BY <1>3, <1>4 DEF Write, SetAttr
<1>5. ASSUME NEW p \in Paths, NEW q \in Paths, Rename(p, q)
      PROVE  Tells(ring', j) <=> Tells(ring, j)
  <2> DEFINE r == audit_inode(ring, ino[p], "WRITE", FALSE)
  <2>1. r \in Seq(Records) /\ (Tells(r, j) <=> Tells(ring, j))
    BY <1>1, <1>2, AuditType
  <2>2. ring' = r \/ ring' = audit_inode(r, ino[q], "DELETE", FALSE)
    BY <1>5 DEF Rename
  <2> HIDE DEF r
  <2>3. Tells(audit_inode(r, ino[q], "DELETE", FALSE), j) <=> Tells(r, j)
    BY <1>2, <2>1
  <2> QED
    BY <2>1, <2>2, <2>3
<1>6. ASSUME \/ \E p \in Paths : Rmdir(p)
             \/ \E p, q \in Paths : Link(p, q)
             \/ \E p \in Paths, i \in Inodes : Create(p, i)
      PROVE  ring' = ring
  BY <1>6 DEF Rmdir, Link, Create, kernel
<1> QED
  BY <1>4, <1>5, <1>6 DEF Quiet

(* A delete that is let through is told of when its record is in the ring. *)
LEMMA UnlinkTells ==
    ASSUME BaseInv, NEW p \in Paths, Unlink(p)
    PROVE  /\ \A j : Tells(ring', j) <=>
                     Tells(ring, j) \/ (j = ino[p] /\ ~block /\ ring' # ring)
           /\ ring' # ring => ino[p] \in policy
<1>1. ring \in Seq(Records) /\ ring' = audit_inode(ring, ino[p], "DELETE", TRUE)
  BY DEF BaseInv, TypeOK, Unlink
<1>2. /\ \A j : Tells(audit_inode(ring, ino[p], "DELETE", TRUE), j) <=>
                \/ Tells(ring, j)
                \/ j = ino[p] /\ TRUE /\ ~block /\ ino[p] \in policy /\ Len(ring) < RingSize
      /\ audit_inode(ring, ino[p], "DELETE", TRUE) # ring <=>
             ino[p] \in policy /\ Len(ring) < RingSize
  <2>1. TRUE \in BOOLEAN
    OBVIOUS
  <2> QED
    BY <1>1, <2>1, AuditTells
<1> QED
  BY <1>1, <1>2, Zenon

(* An inode that is still in use, if it was, and whose record is on its    *)
(* way, if it was, is no stranger for this step.                           *)
LEMMA NotStranger ==
    ASSUME StrangerInv, NEW i \in policy, UNCHANGED reg,
           i \in missed => i \in missed',
           Forgetting(i) => i \in missed' \/ Forgetting(i)',
           InUse(i) => InUse(i)', gen'[i] = gen[i]
    PROVE  Stale(i)' => i \in missed' \/ Forgetting(i)'
BY DEF StrangerInv, Stale

(* An inode in policy_map that goes out of use with the name p is missed,  *)
(* unless a record of it is under way.                                     *)
LEMMA NameLost ==
    ASSUME NEW i \in policy, NEW p \in Paths, missed' = Lost(ino[p], p),
           \A x \in Paths \ {p} : ino[x] = i => ino'[x] = i,
           ~(InUse(i) => InUse(i)')
    PROVE  i \in missed' \/ Forgetting(i)
<1>1. \A x \in Paths : ino[x] = i => x = p
  BY DEF InUse
<1>2. ino[p] = i /\ Names(i) = {p}
  BY <1>1 DEF InUse, Names
<1> QED
  BY <1>2 DEF Lost

(* Operations of programs.                                                 *)
LEMMA StrangerProgram ==
    ASSUME BaseInv, StrangerInv, Program
    PROVE  StrangerInv'
<1> USE DEF fs, kernel, ghosts
<1>1. /\ UNCHANGED <<policy, poll, reg>> /\ policy \subseteq Inodes /\ None \notin Inodes
      /\ ino \in [Paths -> Inodes \cup {None}] /\ gen \in [Inodes -> 0..MaxMoves]
  BY ProgramFrame, CacheAssumption DEF BaseInv, TypeOK, Inodes
<1>2. ASSUME NEW j PROVE Tells(ring, j) => Tells(ring', j)
  BY QuietTells, UnlinkTells DEF Program, Quiet
<1>3. ASSUME NEW j PROVE Forgetting(j) => Forgetting(j)'
  BY <1>1, <1>2 DEF Forgetting, Tells
<1>4. missed \subseteq missed'
  <2>1. ASSUME NEW p \in Paths, Rmdir(p) PROVE missed \subseteq missed'
    BY <2>1 DEF Rmdir, Lost
  <2> QED
    BY <2>1 DEF Program, Write, SetAttr, Change, Unlink, Rename, Link, Create
<1> SUFFICES ASSUME NEW i \in policy, Stale(i)' PROVE i \in missed' \/ Forgetting(i)'
  BY <1>1 DEF StrangerInv
<1>5. (InUse(i) => InUse(i)') /\ gen'[i] = gen[i] => i \in missed' \/ Forgetting(i)'
  BY <1>1, <1>3, <1>4, NotStranger
<1>6. ASSUME \/ \E p \in Paths : Write(p) \/ SetAttr(p) \/ Unlink(p)
             \/ \E p, q \in Paths : Rename(p, q)
      PROVE  i \in missed' \/ Forgetting(i)'
  <2>1. UNCHANGED <<ino, gen>>
    BY <1>6 DEF Write, SetAttr, Change, Unlink, Rename
  <2> QED
    BY <1>5, <2>1 DEF InUse
<1>7. ASSUME NEW p \in Paths, Rmdir(p) PROVE i \in missed' \/ Forgetting(i)'
  <2>1. /\ ino' = [ino EXCEPT ![p] = None] /\ UNCHANGED gen
        /\ missed' = Lost(ino[p], p)
    BY <1>7 DEF Rmdir
  <2>2. CASE InUse(i) => InUse(i)'
    BY <1>5, <2>1, <2>2
  <2>3. CASE ~(InUse(i) => InUse(i)')
    BY <1>1, <1>3, <2>1, <2>3, NameLost
  <2> QED
    BY <2>2, <2>3
<1>8. ASSUME NEW p \in Paths, NEW k \in Inodes, Create(p, k)
       PROVE  i \in missed' \/ Forgetting(i)'
  <2>1. /\ ino' = [ino EXCEPT ![p] = k] /\ gen' = [gen EXCEPT ![k] = @ + 1]
        /\ ino[p] = None /\ ~InUse(k)
    BY <1>8 DEF Create
  <2>2. CASE i = k
    BY <1>3, <1>4, <2>1, <2>2 DEF StrangerInv, Stale
  <2>3. CASE i # k
    <3>1. gen'[i] = gen[i]
      BY <1>1, <2>1, <2>3
    <3>2. InUse(i) => InUse(i)'
      BY <1>1, <2>1, <2>3 DEF InUse
    <3> QED
      BY <1>5, <3>1, <3>2
  <2> QED
    BY <2>2, <2>3
<1>9. ASSUME NEW p \in Paths, NEW q \in Paths, Link(p, q)
       PROVE  i \in missed' \/ Forgetting(i)'
  <2>1. ino' = [ino EXCEPT ![q] = ino[p]] /\ ino[q] = None /\ UNCHANGED gen
    BY <1>9 DEF Link
  <2>2. InUse(i) => InUse(i)'
    BY <1>1, <2>1 DEF InUse
  <2> QED
    BY <1>5, <2>1, <2>2
<1> QED
  BY <1>6, <1>7, <1>8, <1>9 DEF Program

(* The end of a call.                                                      *)
LEMMA StrangerEffect ==
    ASSUME BaseInv, StrangerInv, Effect
    PROVE  StrangerInv'
<1>1. /\ UNCHANGED <<gen, policy, ring, poll, reg>>
      /\ inflight \subseteq Calls /\ ino \in [Paths -> Inodes \cup {None}]
      /\ policy \subseteq Inodes /\ None \notin Inodes
  BY EffectFrame, CacheAssumption DEF BaseInv, TypeOK, Inodes
<1>2. missed \subseteq missed'
  BY DEF Effect, UnlinkEffect, RenameEffect, CallFails, Lost, ghosts
<1> SUFFICES ASSUME NEW i \in policy, Stale(i)' PROVE i \in missed' \/ Forgetting(i)'
  BY <1>1 DEF StrangerInv
<1>3. Forgetting(i) => Forgetting(i)'
  BY <1>1 DEF Forgetting
<1>4. CASE InUse(i) => InUse(i)'
  BY <1>1, <1>2, <1>3, <1>4, NotStranger
<1>5. CASE ~(InUse(i) => InUse(i)')
  <2>1. ASSUME NEW c \in inflight, UnlinkEffect(c) PROVE i \in missed' \/ Forgetting(i)
    <3>1. c.path \in Paths /\ \A x \in Paths \ {c.path} : ino'[x] = ino[x]
      BY <1>1, <2>1 DEF UnlinkEffect, Calls
    <3> QED
      BY <1>5, <2>1, <3>1, NameLost DEF UnlinkEffect
  <2>2. ASSUME NEW c \in inflight, RenameEffect(c) PROVE i \in missed' \/ Forgetting(i)
    <3>1. /\ c.path \in Paths /\ c.to \in Paths /\ c.path # c.to
          /\ ino' = [ino EXCEPT ![c.path] = None, ![c.to] = ino[c.path]]
      BY <1>1, <2>2 DEF RenameEffect, Calls
    <3>2. ino'[c.to] = ino[c.path] /\ \A x \in Paths \ {c.path, c.to} : ino'[x] = ino[x]
      BY <1>1, <3>1
    <3>3. i # ino[c.path]
      BY <1>5, <3>1, <3>2 DEF InUse
    <3>4. \A x \in Paths \ {c.to} : ino[x] = i => ino'[x] = i
      BY <3>2, <3>3
    <3> QED
      BY <1>5, <2>2, <3>1, <3>4, NameLost DEF RenameEffect
  <2>3. ASSUME NEW c \in inflight, CallFails(c) PROVE FALSE
    BY <1>5, <2>3 DEF CallFails, InUse
  <2> QED
    BY <1>3, <2>1, <2>2, <2>3 DEF Effect
<1> QED
  BY <1>4, <1>5

(* Steps of the agent that leave what StrangerInv is about as it is.       *)
LEMMA StrangerFrame ==
    ASSUME StrangerInv, UNCHANGED <<ino, gen, policy, ring, reg, missed>>,
           UNCHANGED poll \/ poll.pc # "unpolicy"
    PROVE  StrangerInv'
BY DEF StrangerInv, Stale, InUse, Forgetting

(* An inode leaves policy_map.                                             *)
LEMMA StrangerLeaves ==
    ASSUME StrangerInv, NEW i, UNCHANGED <<ino, gen, ring, reg>>,
           policy' = policy \ {i}, missed' = missed \ {i},
           UNCHANGED poll \/ (poll.pc = "unpolicy" /\ poll.ino = i)
    PROVE  StrangerInv'
BY DEF StrangerInv, Stale, InUse, Forgetting

(* Every step keeps what is known of reused inode numbers.                 *)
LEMMA StrangerKept ==
    ASSUME BaseInv, StrangerInv, [Next]_vars
    PROVE  StrangerInv'
<1> USE DEF fs, kernel, settings, limits, ghosts
<1>1. CASE HandleRecord
  <2> DEFINE e == Head(ring)
  <2>1. /\ UNCHANGED <<ino, gen, policy, reg>> /\ poll.pc = "poll"
        /\ ring \in Seq(Records) /\ ring # <<>> /\ ring' = Tail(ring)
        /\ missed \subseteq missed'
    BY <1>1 DEF HandleRecord, BaseInv, TypeOK
  <2>2. ASSUME Forgets(e), e.ino \in policy
        PROVE  e.ino \in missed' \/ poll' = [pc |-> "unpolicy", ino |-> e.ino]
    BY <1>1, <2>2 DEF HandleRecord
  <2>3. ASSUME NEW i \in policy, Forgetting(i) PROVE i \in missed' \/ Forgetting(i)'
    <3>1. Tells(ring, i)
      BY <2>1, <2>3 DEF Forgetting, Tells
    <3>2. CASE Tells(Tail(ring), i)
      BY <2>1, <3>2 DEF Forgetting, Tells
    <3>3. CASE e.ino = i /\ Forgets(e)
      <4>1. i \in missed' \/ poll' = [pc |-> "unpolicy", ino |-> i]
        BY <2>2, <3>3
      <4> QED
        BY <4>1 DEF Forgetting
    <3> QED
      BY <2>1, <3>1, <3>2, <3>3, TailTells
  <2> HIDE DEF e
  <2>4. ASSUME NEW i \in policy PROVE InUse(i) => InUse(i)'
    BY <2>1 DEF InUse
  <2> QED
    BY <2>1, <2>3, <2>4, NotStranger DEF StrangerInv
<1>2. CASE PollUnpolicy
  BY <1>2, StrangerLeaves DEF PollUnpolicy
<1>3. CASE PollUncache \/ PollStop \/ PollFails
  BY <1>3, StrangerFrame DEF PollUncache, PollStop, PollFails
<1>4. CASE remove_policy_inode
  BY <1>4, StrangerLeaves DEF remove_policy_inode
<1>5. CASE add_policy_inode
  <2>0. PICK i \in Inodes : i = main.ino
    BY <1>5 DEF add_policy_inode, BaseInv, Hands
  <2>1. UNCHANGED <<ino, gen, ring, poll>> /\ reg \in [Inodes -> 0..MaxMoves]
    BY <1>5 DEF add_policy_inode, BaseInv, TypeOK, Hands
  <2>2. CASE UNCHANGED <<policy, ghosts>>
    BY <2>1, <2>2, StrangerFrame
  <2>3. CASE /\ policy' = policy \cup {i} /\ reg' = [reg EXCEPT ![i] = main.gen]
             /\ missed' = IF InUse(i) /\ gen[i] = main.gen THEN missed \ {i}
                                                          ELSE missed \cup {i}
    <3>1. reg'[i] = main.gen /\ \A j \in Inodes \ {i} : reg'[j] = reg[j]
      BY <2>1, <2>3
    <3>2. \A j : j # i => (j \in policy' <=> j \in policy) /\ (j \in missed' <=> j \in missed)
      BY <2>3
    <3>3. Stale(i)' => i \in missed'
      BY <2>1, <2>3, <3>1 DEF Stale, InUse
    <3>4. ASSUME NEW j \in policy, j # i PROVE Stale(j)' => j \in missed' \/ Forgetting(j)'
      <4>1. j \in Inodes
        BY DEF BaseInv, TypeOK
      <4> QED
        BY <2>1, <3>1, <3>2, <3>4, <4>1 DEF StrangerInv, Stale, InUse, Forgetting
    <3> QED
      BY <3>2, <3>3, <3>4 DEF StrangerInv
  <2> QED
    BY <1>5, <2>0, <2>2, <2>3 DEF add_policy_inode
<1>6. ASSUME \/ \E p \in Paths : RemovePath(p) \/ AddPath(p)
             \/ \E ws \in SUBSET Watches : Reload(ws)
             \/ RemovedAll \/ PutPath \/ AddedAll \/ Stop
      PROVE  StrangerInv'
  <2>1. UNCHANGED <<ino, gen, policy, ring, reg, missed, poll>>
    BY <1>6 DEF RemovePath, AddPath, Reload, RemovedAll, PutPath, AddedAll, Stop
  <2> QED
    BY <2>1, StrangerFrame
<1>7. CASE Cleanup
  BY <1>7 DEF Cleanup, StrangerInv
<1>8. CASE UNCHANGED vars
  BY <1>8, StrangerFrame DEF vars
<1> QED
  BY <1>1, <1>2, <1>3, <1>4, <1>5, <1>6, <1>7, <1>8, StrangerProgram, StrangerEffect
     DEF Next, Program, Effect, PollStep, MainStep

(* NoStranger, for any number of inodes and any reuse of their numbers:    *)
(* handle_audit_event's removal misses no unlink but those of the cases    *)
(* listed there.                                                           *)
THEOREM StrangerIsKnown == Spec => []NoStranger
<1>1. Init => StrangerInv
  BY DEF Init, StrangerInv
<1>2. StrangerInv => NoStranger
  BY DEF StrangerInv, NoStranger, Stale
<1> QED
  BY <1>1, <1>2, BaseInvariance, StrangerKept, PTL DEF Spec

-----------------------------------------------------------------------------
(* Operations of programs keep the files of kept guarded.                  *)
LEMMA GuardedProgram ==
    ASSUME BaseInv, KeptInv, Program
    PROVE  KeptInv'
<1> USE DEF fs, kernel, ghosts
<1>1. /\ UNCHANGED <<policy, poll, main>> /\ policy \subseteq Inodes /\ None \notin Inodes
      /\ ino \in [Paths -> Inodes \cup {None}] /\ kept \subseteq Paths
  BY ProgramFrame, CacheAssumption DEF BaseInv, TypeOK, Inodes
<1>2. ASSUME NEW x \in kept, x \in kept', ino'[x] = ino[x],
             Tells(ring', ino[x]) => Tells(ring, ino[x])
      PROVE  Guarded(x)'
  BY <1>1, <1>2 DEF KeptInv, Guarded, Forgetting, Tells
<1>3. ASSUME NEW x \in kept PROVE x \in Paths /\ ino[x] \in Inodes /\ ino[x] \in policy
  BY <1>1, <1>3 DEF KeptInv, Guarded
<1> SUFFICES ASSUME NEW x \in kept' PROVE Guarded(x)'
  BY DEF KeptInv, Guarded
<1>4. ASSUME NEW p \in Paths, Unlink(p) PROVE Guarded(x)'
  <2>1. /\ ring' # ring /\ ~block => kept' = kept \ Names(ino[p])
        /\ kept' \subseteq kept /\ ino' = ino
    BY <1>4 DEF Unlink
  <2>2. x \in kept
    BY <2>1
  <2>3. ino'[x] = ino[x]
    BY <2>1
  <2>4. Tells(ring', ino[x]) => Tells(ring, ino[x])
    <3>1. ASSUME ino[x] = ino[p], ~block, ring' # ring PROVE FALSE
      <4>1. x \notin Names(ino[p])
        BY <2>1, <3>1
      <4> QED
        BY <1>3, <2>2, <3>1, <4>1 DEF Names
    <3> QED
      BY <1>4, <3>1, UnlinkTells
  <2> QED
    BY <1>2, <2>2, <2>3, <2>4
<1>5. ASSUME Quiet, x \in kept, ino'[x] = ino[x] PROVE Guarded(x)'
  BY <1>2, <1>5, QuietTells
<1>6. ASSUME NEW p \in Paths, Write(p) \/ SetAttr(p) PROVE Guarded(x)'
  <2>1. UNCHANGED <<ino, kept>> /\ Quiet
    BY <1>6 DEF Write, SetAttr, Change, Quiet
  <2> QED
    BY <1>5, <2>1
<1>7. ASSUME NEW p \in Paths, Rmdir(p) PROVE Guarded(x)'
  <2>1. ino' = [ino EXCEPT ![p] = None] /\ kept' = kept \ {p} /\ Quiet
    BY <1>7 DEF Rmdir, Quiet
  <2> QED
    BY <1>1, <1>3, <1>5, <2>1
<1>8. ASSUME NEW p \in Paths, NEW q \in Paths, Rename(p, q) PROVE Guarded(x)'
  <2>1. Quiet /\ UNCHANGED <<ino, kept>>
    BY <1>8 DEF Quiet, Rename
  <2> QED
    BY <1>5, <2>1
<1>9. ASSUME NEW p \in Paths, NEW k, Quiet, UNCHANGED kept,
             ino[p] = None, ino' = [ino EXCEPT ![p] = k]
      PROVE  Guarded(x)'
  <2>1. x \in kept /\ x \in Paths /\ ino[x] # None
    BY <1>1, <1>3, <1>9
  <2>2. ino'[x] = ino[x]
    BY <1>1, <1>9, <2>1
  <2> QED
    BY <1>5, <1>9, <2>1, <2>2
<1>10. ASSUME NEW p \in Paths, NEW k \in Inodes, Create(p, k) PROVE Guarded(x)'
  <2>1. Quiet /\ UNCHANGED kept /\ ino[p] = None /\ ino' = [ino EXCEPT ![p] = k]
    BY <1>10 DEF Create, Quiet
  <2> QED
    BY <1>9, <2>1
<1>11. ASSUME NEW p \in Paths, NEW q \in Paths, Link(p, q) PROVE Guarded(x)'
  <2>1. Quiet /\ UNCHANGED kept /\ ino[q] = None /\ ino' = [ino EXCEPT ![q] = ino[p]]
    BY <1>11 DEF Link, Quiet
  <2> QED
    BY <1>9, <2>1
<1> QED
  BY <1>4, <1>6, <1>7, <1>8, <1>10, <1>11 DEF Program

(* The end of a call keeps the other files guarded.                        *)
LEMMA GuardedEffect ==
    ASSUME BaseInv, KeptInv, Effect
    PROVE  KeptInv'
<1>1. /\ UNCHANGED <<policy, ring, poll, main>> /\ kept' \subseteq kept /\ kept \subseteq Paths
      /\ inflight \subseteq Calls /\ ino \in [Paths -> Inodes \cup {None}]
  BY EffectFrame DEF BaseInv, TypeOK
<1>2. ASSUME NEW x \in kept' PROVE ino'[x] = ino[x]
  <2>1. x \in Paths
    BY <1>1, <1>2
  <2>2. ASSUME NEW c \in inflight, UnlinkEffect(c) PROVE ino'[x] = ino[x]
    <3>1. x # c.path
      BY <1>2, <2>1, <2>2 DEF UnlinkEffect, Names
    <3> QED
      BY <1>1, <2>1, <2>2, <3>1 DEF UnlinkEffect
  <2>3. ASSUME NEW c \in inflight, RenameEffect(c) PROVE ino'[x] = ino[x]
    BY <1>1, <1>2, <2>1, <2>3 DEF RenameEffect
  <2> QED
    BY <2>2, <2>3 DEF Effect, CallFails
<1> QED
  BY <1>1, <1>2 DEF KeptInv, Guarded, Forgetting

(* Steps of the agent beside the file.                                     *)
LEMMA GuardedFrame ==
    ASSUME KeptInv, UNCHANGED <<ino, policy, ring>>, kept' \subseteq kept,
           UNCHANGED poll \/ poll'.pc # "unpolicy",
           main'.pc # "unpolicy"
    PROVE  KeptInv'
BY DEF KeptInv, Guarded, Forgetting

(* Every step keeps the registered files guarded.                          *)
LEMMA GuardedKept ==
    ASSUME BaseInv, KeptInv, [Next]_vars
    PROVE  KeptInv'
<1> USE DEF fs, kernel, settings, limits, ghosts
<1>0. main \in MainRecords /\ poll \in [pc : PollPlaces, ino : Inodes \cup {None}]
  BY DEF BaseInv, TypeOK
<1>1. CASE HandleRecord
  <2>1. /\ UNCHANGED <<ino, policy, main, kept>> /\ poll.pc = "poll"
        /\ ring \in Seq(Records) /\ ring # <<>> /\ ring' = Tail(ring)
    BY <1>1 DEF HandleRecord, BaseInv, TypeOK
  <2>2. \/ poll' = poll
        \/ poll' = [pc |-> "unpolicy", ino |-> Head(ring).ino] /\ Forgets(Head(ring))
    BY <1>1 DEF HandleRecord
  <2>3. ASSUME NEW j, Forgetting(j)' PROVE Forgetting(j)
    <3>1. Tells(ring', j) \/ (poll'.pc = "unpolicy" /\ poll'.ino = j)
      BY <2>3 DEF Forgetting, Tells
    <3>2. Tells(ring', j) \/ (Head(ring).ino = j /\ Forgets(Head(ring)))
      BY <2>1, <2>2, <3>1
    <3>3. Tells(ring, j)
      BY <2>1, <3>2, TailTells
    <3> QED
      BY <3>3 DEF Forgetting, Tells
  <2>4. ASSUME NEW x \in kept PROVE ~Forgetting(ino[x])'
    <3>1. PICK j : j = ino[x]
      OBVIOUS
    <3>2. ~Forgetting(j)'
      BY <2>3, <3>1 DEF KeptInv, Guarded
    <3> QED
      BY <2>1, <3>1, <3>2 DEF Forgetting
  <2> QED
    BY <2>1, <2>4 DEF KeptInv, Guarded
<1>2. CASE PollUnpolicy
  <2>1. /\ UNCHANGED <<ino, ring, main, kept>> /\ poll.pc = "unpolicy" /\ poll'.pc = "uncache"
        /\ policy' = policy \ {poll.ino}
    BY <1>0, <1>2 DEF PollUnpolicy
  <2> QED
    BY <2>1 DEF KeptInv, Guarded, Forgetting
<1>3. CASE PollUncache \/ PollStop \/ PollFails
  <2>1. UNCHANGED <<ino, policy, ring, main, kept>> /\ poll'.pc # "unpolicy"
    BY <1>0, <1>3 DEF PollUncache, PollStop, PollFails
  <2> QED
    BY <2>1 DEF KeptInv, Guarded, Forgetting
<1>4. ASSUME NEW p \in Paths, RemovePath(p) PROVE KeptInv'
  <2>1. CASE ino[p] = None
    <3>1. UNCHANGED <<ino, policy, ring, kept, poll>> /\ main'.pc = "remove"
      BY <1>0, <1>4, <2>1 DEF RemovePath, MainRecords
    <3> QED
      BY <3>1, GuardedFrame
  <2>2. CASE ino[p] # None
    <3>1. /\ UNCHANGED <<ino, policy, ring, poll>> /\ kept' = kept \ Names(ino[p])
          /\ main'.ino = ino[p]
      BY <1>0, <1>4, <2>2 DEF RemovePath, MainRecords
    <3>2. \A x \in kept' : x \in kept /\ ino[x] # ino[p]
      BY <3>1 DEF Names, BaseInv, TypeOK
    <3> QED
      BY <3>1, <3>2 DEF KeptInv, Guarded, Forgetting
  <2> QED
    BY <2>1, <2>2
<1>5. CASE remove_policy_inode
  <2>1. /\ UNCHANGED <<ino, ring, poll, kept>> /\ main.pc = "unpolicy" /\ main'.pc = "remove"
        /\ policy' = policy \ {main.ino}
    BY <1>0, <1>5 DEF remove_policy_inode, MainRecords
  <2> QED
    BY <2>1 DEF KeptInv, Guarded, Forgetting
<1>6. CASE add_policy_inode
  <2>1. UNCHANGED <<ino, ring, poll>> /\ main'.pc # "unpolicy"
    BY <1>0, <1>6 DEF add_policy_inode, MainRecords
  <2>2. CASE UNCHANGED <<policy, ghosts>>
    BY <2>1, <2>2, GuardedFrame
  <2>3. CASE /\ policy' = policy \cup {main.ino}
             /\ \/ kept' = kept
                \/ /\ ino[main.path] = main.ino /\ ~Forgetting(main.ino)
                   /\ kept' = kept \cup {main.path}
    <3>1. ASSUME NEW x \in kept' PROVE ino[x] \in policy' /\ ~Forgetting(ino[x])
      BY <2>3 DEF KeptInv, Guarded
    <3> QED
      BY <2>1, <3>1 DEF KeptInv, Guarded, Forgetting
  <2> QED
    BY <1>6, <2>2, <2>3 DEF add_policy_inode
<1>7. ASSUME \/ \E p \in Paths : AddPath(p)
             \/ \E ws \in SUBSET Watches : Reload(ws)
             \/ RemovedAll \/ PutPath \/ AddedAll \/ Stop
      PROVE  KeptInv'
  <2>1. UNCHANGED <<ino, policy, ring, kept, poll>>
    BY <1>7 DEF AddPath, Reload, RemovedAll, PutPath, AddedAll, Stop
  <2>2. main'.pc # "unpolicy"
    BY <1>0, <1>7 DEF AddPath, Reload, RemovedAll, PutPath, AddedAll, Stop, MainRecords
  <2> QED
    BY <2>1, <2>2, GuardedFrame
<1>8. CASE Cleanup
  BY <1>8 DEF Cleanup, KeptInv, Guarded
<1>9. CASE UNCHANGED vars
  BY <1>9 DEF vars, KeptInv, Guarded, Forgetting
<1> QED
  BY <1>1, <1>2, <1>3, <1>4, <1>5, <1>6, <1>7, <1>8, <1>9, GuardedProgram,
     GuardedEffect DEF Next, Program, Effect, PollStep, MainStep

(* Registered files are in policy_map and neither thread is about to take  *)
(* them out (add_policy_inode, handle_audit_event), in every state.        *)
THEOREM GuardInvariance == Spec => [](BaseInv /\ KeptInv)
<1>1. Init => KeptInv
  BY DEF Init, KeptInv, Guarded
<1> QED
  BY <1>1, BaseInvariance, GuardedKept, PTL DEF Spec

(* StaysGuarded: no interleaving of the poll thread's removals with the    *)
(* main thread's registrations takes a registered file out of policy_map.  *)
THEOREM FileStaysGuarded == Spec => []StaysGuarded
<1>1. KeptInv => StaysGuarded
  BY DEF KeptInv, Guarded, StaysGuarded
<1> QED
  BY <1>1, GuardInvariance, PTL

(* No step lets a call on a registered file past its hook in lock mode.    *)
LEMMA HeldKept ==
    ASSUME BaseInv, KeptInv, HeldInv, [Next]_vars
    PROVE  HeldInv'
<1> USE DEF fs, settings, ghosts
<1>1. ASSUME UNCHANGED block, inflight' \subseteq inflight, kept' \subseteq kept PROVE HeldInv'
  BY <1>1 DEF HeldInv, Held
<1>2. \A p \in kept : p \in Paths /\ ino[p] \in policy
  BY DEF BaseInv, TypeOK, KeptInv, Guarded
<1>3. ASSUME NEW p \in Paths, Unlink(p) PROVE HeldInv'
  <2>1. UNCHANGED block /\ kept' \subseteq kept
    BY <1>3 DEF Unlink
  <2>2. CASE inflight' = inflight
    BY <1>1, <2>1, <2>2
  <2>3. CASE ~denied(ino[p]) /\ inflight' = inflight \cup {[path |-> p, to |-> None]}
    <3>1. block => p \notin kept
      BY <1>2, <2>3 DEF denied
    <3>2. None \notin Paths
      BY CacheAssumption
    <3> QED
      BY <1>2, <2>1, <2>3, <3>1, <3>2 DEF HeldInv, Held
  <2> QED
    BY <1>3, <2>2, <2>3 DEF Unlink
<1>4. ASSUME NEW p \in Paths, NEW q \in Paths, Rename(p, q) PROVE HeldInv'
  <2>1. UNCHANGED <<block, kept>>
    BY <1>4 DEF Rename
  <2>2. CASE inflight' = inflight
    BY <1>1, <2>1, <2>2
  <2>3. CASE /\ ~denied(ino[p]) /\ ~denied(ino[q])
             /\ inflight' = inflight \cup {[path |-> p, to |-> q]}
    <3>1. block => p \notin kept /\ q \notin kept
      BY <1>2, <2>3 DEF denied
    <3> QED
      BY <2>1, <2>3, <3>1 DEF HeldInv, Held
  <2> QED
    BY <1>4, <2>2, <2>3 DEF Rename
<1>5. CASE add_policy_inode
  <2>1. UNCHANGED <<block, inflight>>
    BY <1>5 DEF add_policy_inode
  <2>2. kept' \subseteq kept \/ (kept' = kept \cup {main.path} /\ ~Held(main.path))
    BY <1>5 DEF add_policy_inode
  <2> QED
    BY <2>1, <2>2 DEF HeldInv, Held
<1>6. ASSUME \/ \E p \in Paths : Write(p) \/ SetAttr(p) \/ Rmdir(p)
             \/ \E p, q \in Paths : Link(p, q)
             \/ \E p \in Paths, i \in Inodes : Create(p, i)
      PROVE  UNCHANGED <<block, inflight>> /\ kept' \subseteq kept
  BY <1>6 DEF Write, SetAttr, Change, Rmdir, Link, Create
<1>7. ASSUME PollStep \/ PollFails \/ Stop \/ (\E ws \in SUBSET Watches : Reload(ws)) \/ UNCHANGED vars
      PROVE  UNCHANGED <<block, inflight>> /\ kept' \subseteq kept
  BY <1>7 DEF PollStep, HandleRecord, PollUnpolicy, PollUncache, PollStop, PollFails, Stop,
              Reload, vars
<1>8. ASSUME MainStep, ~add_policy_inode
      PROVE  UNCHANGED <<block, inflight>> /\ kept' \subseteq kept
  BY <1>8 DEF MainStep, RemovePath, AddPath, remove_policy_inode, RemovedAll, PutPath, AddedAll,
              Cleanup
<1> QED
  BY <1>1, <1>3, <1>4, <1>5, <1>6, <1>7, <1>8, EffectFrame DEF Next, Effect

(* LockHolds: with g_ebpf_block set, unlink and rename of a registered     *)
(* file are refused by each of its names, whatever the ring holds; only a  *)
(* call that was past its hook before the registration gets through.       *)
THEOREM LockIsKept == Spec => LockHolds
<1>1. ASSUME BaseInv, KeptInv, HeldInv, [Next]_vars, block, NEW x \in kept \ Dirs
      PROVE  ino'[x] = ino[x]
  <2> USE DEF fs
  <2>1. /\ x \in Paths /\ ino \in [Paths -> Inodes \cup {None}] /\ ino[x] # None
        /\ inflight \subseteq Calls
    BY <1>1, CacheAssumption DEF BaseInv, TypeOK, KeptInv, Guarded, Inodes
  <2>2. ASSUME NEW c \in inflight PROVE x # c.path /\ x # c.to
    BY <1>1, <2>2 DEF HeldInv, Held
  <2>3. CASE Effect
    <3>1. ASSUME NEW c \in inflight, UnlinkEffect(c) PROVE ino'[x] = ino[x]
      BY <2>1, <2>2, <3>1 DEF UnlinkEffect
    <3>2. ASSUME NEW c \in inflight, RenameEffect(c) PROVE ino'[x] = ino[x]
      BY <2>1, <2>2, <3>2 DEF RenameEffect
    <3> QED
      BY <2>3, <3>1, <3>2 DEF Effect, CallFails
  <2>4. ASSUME NEW p \in Paths, Rmdir(p) PROVE ino'[x] = ino[x]
    <3>1. p \in Dirs /\ ino' = [ino EXCEPT ![p] = None]
      BY <2>4 DEF Rmdir
    <3> QED
      BY <2>1, <3>1
  <2>5. ASSUME NEW p \in Paths, NEW k \in Inodes, Create(p, k) PROVE ino'[x] = ino[x]
    <3>1. ino[p] = None /\ ino' = [ino EXCEPT ![p] = k]
      BY <2>5 DEF Create
    <3> QED
      BY <2>1, <3>1
  <2>6. ASSUME NEW p \in Paths, NEW q \in Paths, Link(p, q) PROVE ino'[x] = ino[x]
    <3>1. ino[q] = None /\ ino' = [ino EXCEPT ![q] = ino[p]]
      BY <2>6 DEF Link
    <3> QED
      BY <2>1, <3>1
  <2>7. ASSUME \/ \E p \in Paths : Write(p) \/ SetAttr(p) \/ Unlink(p)
               \/ \E p, q \in Paths : Rename(p, q)
               \/ PollStep \/ PollFails \/ Stop \/ UNCHANGED vars
        PROVE  UNCHANGED ino
    BY <2>7 DEF Write, SetAttr, Change, Unlink, Rename, PollStep, HandleRecord, PollUnpolicy, PollUncache,
                PollStop, PollFails, Stop, vars
  <2>8. ASSUME MainStep \/ \E ws \in SUBSET Watches : Reload(ws) PROVE UNCHANGED ino
    BY <2>8 DEF MainStep, RemovePath, AddPath, remove_policy_inode, RemovedAll,
                add_policy_inode, PutPath, AddedAll, Cleanup, Reload
  <2> QED
    BY <1>1, <2>3, <2>4, <2>5, <2>6, <2>7, <2>8 DEF Next, Effect
<1>2. BaseInv /\ KeptInv /\ HeldInv /\ [Next]_vars => [LockedStay]_vars
  BY <1>1 DEF LockedStay
<1>3. Init => HeldInv
  BY DEF Init, HeldInv, Held
<1> QED
  BY <1>2, <1>3, GuardInvariance, HeldKept, PTL DEF Spec, LockHolds

=============================================================================

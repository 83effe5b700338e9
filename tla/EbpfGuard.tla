----------------------------- MODULE EbpfGuard -----------------------------
(***************************************************************************)
(* File protection with eBPF.  Hooks in the kernel look the inode of every *)
(* operation up in policy_map, refuse it (lock mode) or let it pass        *)
(* (maintenance mode) and put a record into a ring buffer.  In the agent   *)
(* the poll thread takes the records out; one that tells of an unlink      *)
(* makes it forget the inode.  The main thread registers the files under   *)
(* the watched paths at the start and at each reload.  Two threads thus    *)
(* change two tables, policy_map and the path cache, without a lock around *)
(* both, and inode numbers are used again while a record is under way.     *)
(*                                                                         *)
(* A path is a file or a directory, a watch a set of paths (the directory  *)
(* and what the walk finds in it).  An unlink or rename takes effect, or   *)
(* fails, some time after its hook; both threads may come in between.      *)
(* Sending the event is EventQueue's and Transport's.                      *)
(***************************************************************************)
EXTENDS PathCache, Sequences, FiniteSets

CONSTANTS
    Dirs,           \* the paths that are directories
    FirstInode,     \* files as the agent finds them
    Watches, Under, \* what ig.conf can list, and the paths each entry covers
    FirstWatch,
    MaxPolicies,    \* max_entries of policy_map, 16384 in the code
    RingSize,       \* records audit_rb holds
    DedupSlots, DedupHash,   \* g_hook_dedup and its index
    MaxMoves,       \* bound: operations of programs
    MaxReloads      \* bound: reloads

Inodes == Keys
Ops == {"WRITE", "ATTR", "DELETE"}

ASSUME EbpfAssumption ==
    /\ Dirs \subseteq Paths
    /\ FirstInode \in [Paths -> Inodes \cup {None}]
    /\ Under \in [Watches -> SUBSET Paths] /\ FirstWatch \subseteq Watches
    /\ {MaxPolicies, RingSize} \subseteq Nat \ {0}
    /\ DedupHash \in [Inodes \X Ops -> DedupSlots]
    /\ {MaxMoves, MaxReloads} \subseteq Nat

VARIABLES
    ino, gen,       \* the file system: names, how often an inode was allocated
    inflight,       \* calls that their hook has let pass, not yet done
    policy,         \* policy_map; the mask is the same for all
    ring,           \* audit_rb
    cache,          \* g_path_cache
    dedup,          \* g_hook_dedup
    block,          \* g_ebpf_block
    watched,        \* g_cfg->watches
    main,           \* main thread: its place, paths to remove and to add, file in hand
    poll,           \* poll thread: its place, inode of the record in hand
    running,        \* g_running of ig_trace.c
    moves, reloads,
    reg, missed, unnamed, kept   \* history, see below

(* reg: which allocation of an inode was registered.  missed: inodes in    *)
(* policy_map whose file went while no record was under way that makes the *)
(* poll thread forget them.  unnamed: inodes registered while the path     *)
(* cache was out of empty slots, or between the two removals of the poll   *)
(* thread.  kept: paths whose file was registered, with no call on the     *)
(* path in flight, and since then neither unlinked, renamed nor reported   *)
(* as unlinked, by any of its names, nor dropped by a reload.              *)

fs == <<ino, gen, inflight>>
kernel == <<policy, ring>>
limits == <<moves, reloads>>
ghosts == <<reg, missed, unnamed, kept>>
settings == <<block, watched, running>>
vars == <<fs, kernel, cache, dedup, settings, main, poll, limits, ghosts>>

Records == [ino : Inodes, op : Ops, unlink : BOOLEAN, denied : BOOLEAN]
Calls == [path : Paths, to : Paths \cup {None}]
NoStamp == [ino |-> None, op |-> "DELETE"]
MainPlaces == {"idle", "remove", "unpolicy", "add", "policy", "put", "join", "done"}
PollPlaces == {"poll", "unpolicy", "uncache", "ended"}

MainRecords ==
    [pc : MainPlaces, rm : SUBSET Paths, add : SUBSET Paths,
     path : Paths \cup {None}, ino : Inodes \cup {None}, gen : 0..MaxMoves]

Flags == block \in BOOLEAN /\ running \in BOOLEAN

TypeOK ==
    /\ ino \in [Paths -> Inodes \cup {None}]
    /\ gen \in [Inodes -> 0..MaxMoves]
    /\ inflight \subseteq Calls
    /\ policy \subseteq Inodes /\ Cardinality(policy) <= MaxPolicies
    /\ ring \in Seq(Records) /\ Len(ring) <= RingSize
    /\ cache \in Tables
    /\ dedup \in [DedupSlots -> [ino : Inodes \cup {None}, op : Ops]]
    /\ Flags /\ watched \subseteq Watches
    /\ main \in MainRecords
    /\ poll \in [pc : PollPlaces, ino : Inodes \cup {None}]
    /\ moves \in 0..MaxMoves /\ reloads \in 0..MaxReloads
    /\ reg \in [Inodes -> 0..MaxMoves]
    /\ missed \subseteq Inodes /\ unnamed \subseteq Inodes /\ kept \subseteq Paths

Covered(ws) == UNION {Under[w] : w \in ws}
InUse(i) == \E p \in Paths : ino[p] = i
Names(i) == {p \in Paths : ino[p] = i}

(* The poll thread is going to forget i. *)
Forgetting(i) ==
    \/ \E n \in DOMAIN ring : ring[n].ino = i /\ ring[n].unlink /\ ~ring[n].denied
    \/ poll.pc = "unpolicy" /\ poll.ino = i

(* The eBPF programs are attached, the poll thread runs, and the main      *)
(* thread is about to register what ig.conf lists.                         *)
Init ==
    /\ ino = FirstInode /\ gen = [i \in Inodes |-> 0] /\ inflight = {}
    /\ policy = {} /\ ring = <<>>
    /\ cache = EmptyTable
    /\ dedup = [s \in DedupSlots |-> NoStamp]
    /\ block \in BOOLEAN
    /\ watched = FirstWatch /\ running = TRUE
    /\ main = [pc |-> "add", rm |-> {}, add |-> Covered(FirstWatch),
               path |-> None, ino |-> None, gen |-> 0]
    /\ poll = [pc |-> "poll", ino |-> None]
    /\ moves = 0 /\ reloads = 0
    /\ reg = [i \in Inodes |-> 0]
    /\ missed = {} /\ unnamed = {} /\ kept = {}

-----------------------------------------------------------------------------
(* Hooks and the operations behind them. *)

(* Mutant: a full ring buffer lets the operation pass in lock mode. *)
DeniedIfReported(i) == i \in policy /\ block /\ Len(ring) < RingSize

denied(i) == i \in policy /\ block

(* The ring after the hook for inode i. *)
audit_inode(r, i, op, unlink) ==
    IF i \in policy /\ Len(r) < RingSize
    THEN Append(r, [ino |-> i, op |-> op, unlink |-> unlink, denied |-> block])
    ELSE r

Move == moves < MaxMoves /\ moves' = moves + 1 /\ UNCHANGED reloads

Change(p, op) ==
    /\ Move /\ ino[p] # None /\ main.pc # "done"
    /\ ring' = audit_inode(ring, ino[p], op, FALSE)
    /\ UNCHANGED <<fs, policy, cache, dedup, settings, main, poll, ghosts>>

(* check_file_permission and check_file_open, for writing. *)
Write(p) == p \notin Dirs /\ Change(p, "WRITE")

(* check_path_truncate, check_path_chmod, check_inode_setattr. *)
SetAttr(p) == \/ p \notin Dirs /\ Change(p, "WRITE")
              \/ Change(p, "ATTR")

(* The kernel holds the directories of an unlink or rename from before its *)
(* hook until it is done.                                                  *)
Held(p) == \E c \in inflight : p \in {c.path, c.to}

(* check_path_unlink: refused, or let pass. *)
Unlink(p) ==
    LET i == ino[p] IN
    /\ Move /\ p \notin Dirs /\ i # None /\ ~Held(p) /\ main.pc # "done"
    /\ ring' = audit_inode(ring, i, "DELETE", TRUE)
    /\ inflight' = IF denied(i) THEN inflight ELSE inflight \cup {[path |-> p, to |-> None]}
    /\ kept' = IF ring' # ring /\ ~block THEN kept \ Names(i) ELSE kept
    /\ UNCHANGED <<ino, gen, policy, cache, dedup, settings, main, poll, reg, missed, unnamed>>

(* check_path_rename: first the file, then the one it replaces.  The       *)
(* record for the latter is a DELETE, but not of the unlink hook.          *)
Rename(p, q) ==
    LET i == ino[p]
        j == ino[q]
        r == audit_inode(ring, i, "WRITE", FALSE)
    IN
    /\ Move /\ p # q /\ {p, q} \cap Dirs = {} /\ i # None /\ ~Held(p) /\ ~Held(q)
    /\ main.pc # "done"
    /\ ring' = IF denied(i) \/ j = None THEN r ELSE audit_inode(r, j, "DELETE", FALSE)
    /\ inflight' = IF denied(i) \/ denied(j) THEN inflight
                                            ELSE inflight \cup {[path |-> p, to |-> q]}
    /\ UNCHANGED <<ino, gen, policy, cache, dedup, settings, main, poll, ghosts>>

(* missed when inode i loses the name p *)
Lost(i, p) ==
    IF i \in policy /\ Names(i) = {p} /\ ~Forgetting(i) THEN missed \cup {i} ELSE missed

(* The calls take effect, ... *)
UnlinkEffect(c) ==
    /\ c \in inflight /\ c.to = None
    /\ inflight' = inflight \ {c}
    /\ ino' = [ino EXCEPT ![c.path] = None]
    /\ missed' = Lost(ino[c.path], c.path)
    /\ kept' = kept \ Names(ino[c.path])
    /\ UNCHANGED <<gen, kernel, cache, dedup, settings, main, poll, limits, reg, unnamed>>

RenameEffect(c) ==
    /\ c \in inflight /\ c.to # None /\ ino[c.path] # ino[c.to]
    /\ inflight' = inflight \ {c}
    /\ ino' = [ino EXCEPT ![c.path] = None, ![c.to] = ino[c.path]]
    /\ missed' = Lost(ino[c.to], c.to)
    /\ kept' = kept \ {c.path, c.to}
    /\ UNCHANGED <<gen, kernel, cache, dedup, settings, main, poll, limits, reg, unnamed>>

(* ... or come to nothing: an error, or a rename between two names of one  *)
(* file.                                                                   *)
CallFails(c) ==
    /\ c \in inflight
    /\ inflight' = inflight \ {c}
    /\ UNCHANGED <<ino, gen, kernel, cache, dedup, settings, main, poll, limits, ghosts>>

(* No program is attached to path_rmdir, nor to creation and links. *)
Rmdir(p) ==
    /\ Move /\ p \in Dirs /\ ino[p] # None
    /\ ino' = [ino EXCEPT ![p] = None]
    /\ missed' = Lost(ino[p], p)
    /\ kept' = kept \ {p}
    /\ UNCHANGED <<gen, inflight, kernel, cache, dedup, settings, main, poll, reg, unnamed>>

Create(p, i) ==
    /\ Move /\ ino[p] = None /\ ~Held(p) /\ ~InUse(i)
    /\ ino' = [ino EXCEPT ![p] = i]
    /\ gen' = [gen EXCEPT ![i] = @ + 1]
    /\ UNCHANGED <<inflight, kernel, cache, dedup, settings, main, poll, ghosts>>

Link(p, q) ==
    /\ Move /\ {p, q} \cap Dirs = {} /\ ino[p] # None /\ ino[q] = None /\ ~Held(q)
    /\ ino' = [ino EXCEPT ![q] = ino[p]]
    /\ UNCHANGED <<gen, inflight, kernel, cache, dedup, settings, main, poll, ghosts>>

-----------------------------------------------------------------------------
(* The poll thread. *)

(* The same inode and operation as the last one in its place: a duplicate  *)
(* if no more than 200 ms have passed between the two, which they may.     *)
hook_dedup_check(e) == dedup[DedupHash[<<e.ino, e.op>>]] = [ino |-> e.ino, op |-> e.op]

(* Mutant: a refused unlink makes the agent forget the file, too. *)
ForgetsAny(e) == e.unlink

(* Mutant: the removal after an unlink is missing. *)
ForgetsNone(e) == FALSE

(* The unlink was let through: the inode is being freed. *)
Forgets(e) == e.unlink /\ ~e.denied

(* handle_audit_event up to the removal, which only an unlink leads to. *)
HandleRecord ==
    LET e == Head(ring) IN
    /\ poll.pc = "poll" /\ ring # <<>>
    /\ ring' = Tail(ring)
    /\ \/ /\ hook_dedup_check(e)
          /\ missed' = IF Forgets(e) /\ e.ino \in policy THEN missed \cup {e.ino} ELSE missed
          /\ UNCHANGED <<dedup, poll>>
       \/ /\ dedup' = [dedup EXCEPT ![DedupHash[<<e.ino, e.op>>]] =
                          [ino |-> e.ino, op |-> e.op]]
          /\ poll' = IF Forgets(e) THEN [pc |-> "unpolicy", ino |-> e.ino] ELSE poll
          /\ UNCHANGED missed
    /\ UNCHANGED <<fs, policy, cache, settings, main, limits, reg, unnamed, kept>>

PollUnpolicy ==
    /\ poll.pc = "unpolicy"
    /\ policy' = policy \ {poll.ino} /\ missed' = missed \ {poll.ino}
    /\ poll' = [poll EXCEPT !.pc = "uncache"]
    /\ UNCHANGED <<fs, ring, cache, dedup, settings, main, limits, reg, unnamed, kept>>

PollUncache ==
    /\ poll.pc = "uncache"
    /\ cache' = path_cache_remove(cache, poll.ino)
    /\ poll' = [pc |-> "poll", ino |-> None]
    /\ UNCHANGED <<fs, kernel, dedup, settings, main, limits, ghosts>>

(* The loop of ebpf_poll_thread: g_running, or an error other than EINTR.  *)
PollStop ==
    /\ poll.pc = "poll" /\ ~running
    /\ poll' = [poll EXCEPT !.pc = "ended"]
    /\ UNCHANGED <<fs, kernel, cache, dedup, settings, main, limits, ghosts>>

PollFails ==
    /\ poll.pc = "poll" /\ running
    /\ poll' = [poll EXCEPT !.pc = "ended"]
    /\ UNCHANGED <<fs, kernel, cache, dedup, settings, main, limits, ghosts>>

-----------------------------------------------------------------------------
(* The main thread. *)

(* reload_config: entries that ig.conf lost are removed, then the ones it  *)
(* gained added; entries in both lists are left alone.  A reload that      *)
(* changes nothing touches no table and is left out.                       *)
Reload(ws) ==
    /\ ws # watched /\ main.pc = "idle" /\ reloads < MaxReloads /\ reloads' = reloads + 1
    /\ watched' = ws
    /\ main' = [main EXCEPT !.pc = "remove", !.rm = Covered(watched \ ws),
                            !.add = Covered(ws \ watched)]
    /\ UNCHANGED <<fs, kernel, cache, dedup, block, running, poll, moves, ghosts>>

(* remove_path_internal for one path of the walk: lstat and the path       *)
(* cache, then policy_map.                                                 *)
RemovePath(p) ==
    /\ main.pc = "remove" /\ p \in main.rm
    /\ IF ino[p] = None
       THEN main' = [main EXCEPT !.rm = @ \ {p}] /\ UNCHANGED <<cache, kept>>
       ELSE /\ main' = [main EXCEPT !.pc = "unpolicy", !.rm = @ \ {p}, !.ino = ino[p]]
            /\ cache' = path_cache_remove(cache, ino[p])
            /\ kept' = kept \ Names(ino[p])
    /\ UNCHANGED <<fs, kernel, dedup, settings, poll, limits, reg, missed, unnamed>>

remove_policy_inode ==
    /\ main.pc = "unpolicy"
    /\ policy' = policy \ {main.ino} /\ missed' = missed \ {main.ino}
    /\ main' = [main EXCEPT !.pc = "remove", !.ino = None]
    /\ UNCHANGED <<fs, ring, cache, dedup, settings, poll, limits, reg, unnamed, kept>>

RemovedAll ==
    /\ main.pc = "remove" /\ main.rm = {}
    /\ main' = [main EXCEPT !.pc = "add"]
    /\ UNCHANGED <<fs, kernel, cache, dedup, settings, poll, limits, ghosts>>

(* add_path_internal for one path of the walk: lstat, policy_map, cache. *)
AddPath(p) ==
    /\ main.pc = "add" /\ p \in main.add
    /\ main' = IF ino[p] = None
               THEN [main EXCEPT !.add = @ \ {p}]
               ELSE [main EXCEPT !.pc = "policy", !.add = @ \ {p}, !.path = p,
                                 !.ino = ino[p], !.gen = gen[ino[p]]]
    /\ UNCHANGED <<fs, kernel, cache, dedup, settings, poll, limits, ghosts>>

(* The file may have gone since lstat, and its number been used again. *)
add_policy_inode ==
    LET i == main.ino
        same == InUse(i) /\ gen[i] = main.gen
    IN
    /\ main.pc = "policy"
    /\ \/ /\ i \in policy \/ Cardinality(policy) < MaxPolicies
          /\ policy' = policy \cup {i}
          /\ main' = [main EXCEPT !.pc = "put"]
          /\ reg' = [reg EXCEPT ![i] = main.gen]
          /\ missed' = IF same THEN missed \ {i} ELSE missed \cup {i}
          /\ unnamed' = IF poll = [pc |-> "uncache", ino |-> i] THEN unnamed \cup {i}
                                                                ELSE unnamed \ {i}
          /\ kept' = IF same /\ ino[main.path] = i /\ ~Forgetting(i) /\ ~Held(main.path)
                     THEN kept \cup {main.path} ELSE kept
       \/ /\ i \notin policy /\ Cardinality(policy) >= MaxPolicies
          /\ main' = [main EXCEPT !.pc = "add", !.path = None, !.ino = None, !.gen = 0]
          /\ UNCHANGED <<policy, ghosts>>
    /\ UNCHANGED <<fs, ring, cache, dedup, settings, poll, limits>>

PutPath ==
    /\ main.pc = "put"
    /\ cache' = path_cache_put(cache, main.ino, main.path)
    /\ unnamed' = IF path_cache_get(cache, main.ino) = None
                     /\ \A s \in Slots : cache[s].used # "EMPTY"
                  THEN unnamed \cup {main.ino} ELSE unnamed
    /\ main' = [main EXCEPT !.pc = "add", !.path = None, !.ino = None, !.gen = 0]
    /\ UNCHANGED <<fs, kernel, dedup, settings, poll, limits, reg, missed, kept>>

AddedAll ==
    /\ main.pc = "add" /\ main.add = {}
    /\ main' = [main EXCEPT !.pc = "idle"]
    /\ UNCHANGED <<fs, kernel, cache, dedup, settings, poll, limits, ghosts>>

(* Mutant: ebpf_policy_stop does not reach the flag of the poll thread. *)
StopUnseen ==
    /\ main.pc = "idle"
    /\ main' = [main EXCEPT !.pc = "join"]
    /\ UNCHANGED <<fs, kernel, cache, dedup, settings, poll, limits, ghosts>>

(* SIGTERM ends the main loop: ebpf_policy_stop, join, cleanup. *)
Stop ==
    /\ main.pc = "idle"
    /\ running' = FALSE
    /\ main' = [main EXCEPT !.pc = "join"]
    /\ UNCHANGED <<fs, kernel, cache, dedup, block, watched, poll, limits, ghosts>>

(* pthread_join, then ebpf_policy_cleanup: ring buffer, programs and maps. *)
Cleanup ==
    /\ main.pc = "join" /\ poll.pc = "ended"
    /\ main' = [main EXCEPT !.pc = "done"]
    /\ policy' = {} /\ ring' = <<>>
    /\ missed' = {} /\ kept' = {}
    /\ UNCHANGED <<fs, cache, dedup, settings, poll, limits, reg, unnamed>>

-----------------------------------------------------------------------------
PollStep == HandleRecord \/ PollUnpolicy \/ PollUncache \/ PollStop

MainStep ==
    \/ \E p \in Paths : RemovePath(p) \/ AddPath(p)
    \/ remove_policy_inode \/ RemovedAll \/ add_policy_inode \/ PutPath \/ AddedAll
    \/ Cleanup

Next ==
    \/ \E p \in Paths : Write(p) \/ SetAttr(p) \/ Unlink(p) \/ Rmdir(p)
    \/ \E p, q \in Paths : Rename(p, q) \/ Link(p, q)
    \/ \E c \in inflight : UnlinkEffect(c) \/ RenameEffect(c) \/ CallFails(c)
    \/ \E p \in Paths, i \in Inodes : Create(p, i)
    \/ PollStep \/ PollFails
    \/ \E ws \in SUBSET Watches : Reload(ws)
    \/ MainStep \/ Stop

Spec == Init /\ [][Next]_vars

FairSpec == Spec /\ WF_vars(PollStep) /\ WF_vars(MainStep)

-----------------------------------------------------------------------------
(* However files come and go, each path is found again in the cache: no    *)
(* inode is entered twice, and no removal cuts the probe chain             *)
(* (SLOT_DELETED in ig_trace.c).                                           *)
CacheSound == TypeOK /\ KeysUnique(cache) /\ Reachable(cache)

(* Both tables, each with its own lock, agree: a watched inode has a path  *)
(* to report events under, outside the two steps of a registration or a    *)
(* removal, and unless the cache was out of empty slots (the size of the   *)
(* two tables is the same, but the cache does not use its tombstones       *)
(* without an empty slot) or the registration fell between the two         *)
(* removals of the poll thread.                                            *)
PolicyNamed ==
    \A i \in policy \ unnamed :
        \/ path_cache_get(cache, i) # None
        \/ main.pc \in {"put", "unpolicy"} /\ main.ino = i

(* What handle_audit_event removes a policy for: a file that was given the *)
(* inode of a deleted one is not taken for it.  While the record is under  *)
(* way it is; for good only when the record was lost (ring full,           *)
(* suppressed as a duplicate), when there is none (renamed over, rmdir,    *)
(* gone between lstat and the registration), or when the file was          *)
(* registered after the hook of its unlink had looked for it in the map,   *)
(* or after the record of that hook was handled, and went only then.       *)
NoStranger ==
    \A i \in policy : InUse(i) /\ gen[i] # reg[i] => i \in missed \/ Forgetting(i)

(* A registered file stays guarded through reloads that keep its entry,    *)
(* the reuse of other inodes and refused unlinks, until an unlink of one   *)
(* of its names is let through, or a reload drops an entry that covers it  *)
(* (be it beside another one that still does).                             *)
StaysGuarded == \A p \in kept : ino[p] \in policy

LockedStay == block => \A p \in kept \ Dirs : ino'[p] = ino[p]

(* In lock mode nobody deletes, replaces or moves a registered file, with  *)
(* the ring full as well, by whichever of its names, unless a call on the  *)
(* path was past its hook already when the file was registered.            *)
LockHolds == [][LockedStay]_vars

(* SIGTERM ends: the poll thread leaves its loop, and main its join.       *)
ShutsDown == main.pc = "join" ~> main.pc = "done"

=============================================================================

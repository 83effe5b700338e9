----------------------------- MODULE ProcCache -----------------------------
(***************************************************************************)
(* The process cache of the kernel module.  Tracepoints of fork, exec and  *)
(* exit keep an entry per task, in a hash table and an LRU list of bounded *)
(* length, under one spin lock.  An entry outlives its task as a tombstone *)
(* so that the chain of ancestors of an event can still be told; a work    *)
(* item removes old tombstones.  Loading the module registers the          *)
(* tracepoints one by one and then copies the tasks that already run.      *)
(*                                                                         *)
(* Table and list change together, so one sequence stands for both, front  *)
(* first.  A task is named by the order of its birth, which its start time *)
(* shows; its pid may be given to another one later.  Threads are tasks,   *)
(* too; exec in a thread other than the leader of its group gives it the   *)
(* leader's pid and start time.  Names, credentials and command lines are  *)
(* left out.                                                               *)
(***************************************************************************)
EXTENDS Integers, Sequences, FiniteSets

CONSTANTS
    Pids,           \* pids greater than 1
    Swapper,        \* pid 0 or 1, where a chain ends
    MaxEntries,     \* IG_PC_MAX_ENTRIES, 8192 in the code
    MaxReap,        \* tombstones removed in one go, 256 in the code
    Grace,          \* IG_PC_GRACE_NS
    MaxBirths,      \* bound: tasks ever born
    MaxRoots,       \* bound: only so many of the first are made by pid 0 or 1
    MaxSkips,       \* bound: forks throttled, and failed allocations
    MaxTime         \* bound: clock

ASSUME ProcAssumption ==
    /\ Swapper \notin Pids
    /\ {MaxEntries, MaxReap, Grace, MaxTime} \subseteq Nat \ {0}
    /\ MaxBirths \in Nat /\ MaxRoots \in Nat /\ MaxSkips \in Nat

VARIABLES
    task,           \* the kernel's tasks by pid
    births,         \* tasks born so far
    lru,            \* ig_pc_lru and ig_pc_table
    count,          \* ig_pc_count
    tp,             \* tracepoints registered, in the order fork, exec, exit
    mod,            \* the module: loading, on, leaving, off, or failed to load
    seen, copy,     \* preload: tasks visited, entry about to be inserted
    gc,             \* time ig_pc_gc_work has read, 0 when it does not run
    now, skips,
    stale, early, taken   \* history, see below

(* stale: pids whose new task was skipped while an entry of an older one   *)
(* was kept.  early: tasks that ended before loading was complete, or      *)
(* after unloading began.  taken: group leaders whose pid was taken over   *)
(* by a thread that called exec, and those threads.                        *)

Ids == 0..MaxBirths
Places == {"free", "born", "run", "exiting", "zombie"}
NoTask == [st |-> "free", id |-> 0, par |-> Swapper, parId |-> 0, t |-> 0, tg |-> Swapper]
Entries == [pid : Pids, ppid : Pids \cup {Swapper}, id : Ids, parId : Ids, exit : 0..MaxTime]
NoEntry == [pid |-> Swapper]

tasks == <<task, births>>
table == <<lru, count>>
module == <<tp, mod, seen, copy>>
vars == <<tasks, table, module, gc, now, skips, stale, early, taken>>

Cached == {lru[n] : n \in DOMAIN lru}
InCache(pid) == \E e \in Cached : e.pid = pid

(* Types, and the count that decides on evictions is the length of the     *)
(* list, which holds one entry per pid: every way in and out keeps the     *)
(* hash table, the list and the counter together.                          *)
TypeOK ==
    /\ task \in [Pids -> [st : Places, id : Ids, par : Pids \cup {Swapper}, parId : Ids,
                          t : 0..MaxTime, tg : Pids \cup {Swapper}]]
    /\ births \in Ids
    /\ lru \in Seq(Entries) /\ count = Len(lru) /\ count <= MaxEntries
    /\ \A m, n \in DOMAIN lru : m # n => lru[m].pid # lru[n].pid
    /\ tp \in 0..3 /\ mod \in {"loading", "on", "leaving", "off", "failed"}
    /\ seen \subseteq Ids /\ copy \in Entries \cup {NoEntry}
    /\ gc \in 0..MaxTime /\ now \in 1..MaxTime /\ skips \in 0..MaxSkips
    /\ stale \subseteq Pids /\ early \subseteq Ids /\ taken \subseteq Ids

(* The module is about to be loaded.  Tasks may be born and end before the *)
(* first tracepoint is registered.                                         *)
Init ==
    /\ task = [p \in Pids |-> NoTask] /\ births = 0
    /\ lru = <<>> /\ count = 0
    /\ tp = 0 /\ mod = "loading" /\ seen = {} /\ copy = NoEntry
    /\ gc = 0 /\ now = 1 /\ skips = 0
    /\ stale = {} /\ early = {} /\ taken = {}

-----------------------------------------------------------------------------
(* The list, under ig_pc_lock. *)

(* The entries at the places in K, in their order. *)
Sublist(l, K) ==
    [m \in 1..Cardinality(K) |-> l[CHOOSE n \in K : Cardinality({k \in K : k <= n}) = m]]

Without(l, pid) == Sublist(l, {n \in DOMAIN l : l[n].pid # pid})

ig_pc_find_locked(pid) ==
    IF InCache(pid) THEN CHOOSE e \in Cached : e.pid = pid ELSE NoEntry

list_add(l, e) == <<e>> \o l

(* Mutant: a tombstone keeps its place in the list. *)
MarkInPlace(l, e) == [n \in DOMAIN l |-> IF l[n].pid = e.pid THEN e ELSE l[n]]

(* The entry e, changed, behind all others. *)
list_move_tail(l, e) == Append(Without(l, e.pid), e)

ig_pc_evict_one_locked(l) == SubSeq(l, 1, Len(l) - 1)

EntryOf(pid) ==
    [pid |-> pid, ppid |-> task[pid].par, id |-> task[pid].id, parId |-> task[pid].parId,
     exit |-> 0]

-----------------------------------------------------------------------------
(* Tasks, and the callbacks of their tracepoints. *)

(* fork, or the making of a thread in the group of p.  The child is among  *)
(* the kernel's tasks before its tracepoint fires.                         *)
Clone(p, q) ==
    /\ births < MaxBirths /\ task[q].st = "free"
    /\ IF p = Swapper THEN births < MaxRoots ELSE task[p].st = "run"
    /\ births' = births + 1
    /\ \E g \in IF p = Swapper THEN {q} ELSE {q, task[p].tg} :
         task' = [task EXCEPT ![q] = [st |-> "born", id |-> births + 1, par |-> p, t |-> 0, tg |-> g,
                                      parId |-> IF p = Swapper THEN 0 ELSE task[p].id]]
    /\ UNCHANGED <<table, module, gc, now, skips, stale, early, taken>>

(* Mutant: without the guard against a reused pid. *)
ForkUnguarded(q) ==
    /\ task[q].st = "born" /\ tp >= 1
    /\ task' = [task EXCEPT ![q].st = "run"]
    /\ lru' = list_add(IF count >= MaxEntries THEN ig_pc_evict_one_locked(lru) ELSE lru, EntryOf(q))
    /\ count' = IF count >= MaxEntries THEN count ELSE count + 1
    /\ UNCHANGED <<births, module, gc, now, skips, stale, early, taken>>

(* Mutant: a pid that is cached is left alone, as in the preload. *)
ForkIfAbsent(q) ==
    /\ task[q].st = "born" /\ tp >= 1
    /\ task' = [task EXCEPT ![q].st = "run"]
    /\ IF InCache(q) THEN UNCHANGED table
       ELSE /\ lru' = list_add(IF count >= MaxEntries THEN ig_pc_evict_one_locked(lru) ELSE lru, EntryOf(q))
            /\ count' = IF count >= MaxEntries THEN count ELSE count + 1
    /\ UNCHANGED <<births, module, gc, now, skips, stale, early, taken>>

(* ig_pc_on_fork: an entry of an older task with this pid goes; a full     *)
(* cache gives up the last entry.                                          *)
ig_pc_on_fork(q) ==
    LET n == IF InCache(q) THEN count - 1 ELSE count
    IN
    /\ task[q].st = "born" /\ tp >= 1
    /\ task' = [task EXCEPT ![q].st = "run"]
    /\ lru' = list_add(IF n >= MaxEntries THEN ig_pc_evict_one_locked(Without(lru, q))
                                          ELSE Without(lru, q), EntryOf(q))
    /\ count' = IF n >= MaxEntries THEN n ELSE n + 1
    /\ stale' = stale \ {q}
    /\ UNCHANGED <<births, module, gc, now, skips, early, taken>>

(* The cache, or the preload, holds an entry of an older task with pid q. *)
OlderKept(q) == \E e \in Cached \cup {copy} : e.pid = q /\ e.id # task[q].id

(* Throttled, or no memory. *)
ForkSkipped(q) ==
    /\ task[q].st = "born" /\ tp >= 1 /\ skips < MaxSkips
    /\ task' = [task EXCEPT ![q].st = "run"]
    /\ skips' = skips + 1
    /\ stale' = IF OlderKept(q) THEN stale \cup {q} ELSE stale
    /\ UNCHANGED <<births, table, module, gc, now, early, taken>>

ForkUnseen(q) ==
    /\ task[q].st = "born" /\ tp = 0
    /\ task' = [task EXCEPT ![q].st = "run"]
    /\ stale' = IF OlderKept(q) THEN stale \cup {q} ELSE stale
    /\ UNCHANGED <<births, table, module, gc, now, skips, early, taken>>

ig_pc_on_exec(q) ==
    /\ task[q].st = "run" /\ tp >= 2 /\ InCache(q)
    /\ lru' = list_add(Without(lru, q), ig_pc_find_locked(q))
    /\ UNCHANGED <<tasks, count, module, gc, now, skips, stale, early, taken>>

(* A task in fork() does not exit. *)
MayExit(q) == task[q].st = "run" /\ \A c \in Pids : ~(task[c].st = "born" /\ task[c].par = q)

(* The other threads of the group of q, a dead leader among them.          *)
Threads(q) == {r \in Pids \ {q} : task[r].st # "free" /\ task[r].tg = task[q].tg}

(* The children of q, given to another task. *)
Given(q, par, parId) == [c \in Pids |->
    IF task[c].st # "free" /\ task[c].par = q /\ c # q
    THEN [task[c] EXCEPT !.par = par, !.parId = parId] ELSE task[c]]

(* What is left of q: a process waits for its parent, a thread is gone.    *)
Remains(q) == IF task[q].tg = q THEN [task[q] EXCEPT !.st = "zombie", !.t = 0] ELSE NoTask

(* After the tracepoint the children go to another thread of the group, or *)
(* to a task outside it.                                                   *)
Ended(q) ==
    LET heirs == {r \in Threads(q) : task[r].st \in {"born", "run"}} IN
    IF heirs = {} THEN {[Given(q, Swapper, 0) EXCEPT ![q] = Remains(q)]}
    ELSE {[Given(q, r, task[r].id) EXCEPT ![q] = Remains(q)] : r \in heirs}

NoteEnd(q) == early' = IF mod = "on" THEN early ELSE early \cup {task[q].id}

(* ig_pc_on_exit reads the clock, then takes the lock. *)
ig_pc_on_exit(q) ==
    /\ MayExit(q) /\ tp = 3
    /\ task' = [task EXCEPT ![q].st = "exiting", ![q].t = now]
    /\ UNCHANGED <<births, table, module, gc, now, skips, stale, early, taken>>

(* Mutant: the entry is moved and not marked. *)
MoveExit(q) ==
    /\ task[q].st = "exiting"
    /\ lru' = IF InCache(q) THEN list_move_tail(lru, ig_pc_find_locked(q)) ELSE lru
    /\ task' \in Ended(q)
    /\ NoteEnd(q)
    /\ UNCHANGED <<births, count, module, gc, now, skips, stale, taken>>

MarkExit(q) ==
    /\ task[q].st = "exiting"
    /\ lru' = IF InCache(q)
              THEN list_move_tail(lru, [ig_pc_find_locked(q) EXCEPT !.exit = task[q].t])
              ELSE lru
    /\ task' \in Ended(q)
    /\ NoteEnd(q)
    /\ UNCHANGED <<births, count, module, gc, now, skips, stale, taken>>

ExitUnseen(q) ==
    /\ MayExit(q) /\ tp < 3
    /\ task' \in Ended(q)
    /\ NoteEnd(q)
    /\ UNCHANGED <<births, table, module, gc, now, skips, stale, taken>>

(* The parent has waited for a process without other threads. *)
Reap(q) ==
    /\ task[q].st = "zombie" /\ Threads(q) = {}
    /\ task' = [task EXCEPT ![q] = NoTask]
    /\ UNCHANGED <<births, table, module, gc, now, skips, stale, early, taken>>

(* exec in a thread q, when the rest of its group is dead: it takes over   *)
(* the pid of the leader.  The tracepoint of exec comes after that.        *)
TakeOver(q) ==
    LET l == task[q].tg IN
    /\ MayExit(q) /\ l # q /\ task[l].st = "zombie" /\ Threads(q) = {l}
    /\ task' = [Given(q, l, task[l].id) EXCEPT ![l].st = "run", ![q] = NoTask]
    /\ taken' = taken \cup {task[l].id, task[q].id}
    /\ UNCHANGED <<births, table, module, gc, now, skips, stale, early>>

(* The code reads a clock that can be set; here it only goes forward. *)
Tick ==
    /\ now < MaxTime /\ now' = now + 1
    /\ UNCHANGED <<tasks, table, module, gc, skips, stale, early, taken>>

-----------------------------------------------------------------------------
(* ig_pc_gc_work: the clock is read before the lock is taken. *)

(* Unsigned 64 bit: a time after `at` is a very long time ago. *)
Expired(e, at) == e.exit # 0 /\ (at < e.exit \/ at - e.exit >= Grace)

GcBegin ==
    /\ mod \in {"on", "leaving"} /\ gc = 0
    /\ gc' = now
    /\ UNCHANGED <<tasks, table, module, now, skips, stale, early, taken>>

(* The last MaxReap of the expired ones go. *)
GcReap ==
    LET old == {n \in DOMAIN lru : Expired(lru[n], gc)}
        reaped == {n \in old : Cardinality({m \in old : m > n}) < MaxReap}
    IN
    /\ gc # 0
    /\ lru' = Sublist(lru, DOMAIN lru \ reaped)
    /\ count' = count - Cardinality(reaped)
    /\ stale' = stale \ {lru[n].pid : n \in reaped}
    /\ gc' = 0
    /\ UNCHANGED <<tasks, module, now, skips, early, taken>>

-----------------------------------------------------------------------------
(* Loading and unloading. *)

(* ig_proc_cache_init: the tracepoints, each of which may fail. *)
Register ==
    /\ mod = "loading" /\ tp < 3
    /\ tp' = tp + 1
    /\ UNCHANGED <<tasks, table, mod, seen, copy, gc, now, skips, stale, early, taken>>

(* The ones registered are taken back; what they have cached stays. *)
RegisterFails ==
    /\ mod = "loading" /\ tp < 3
    /\ tp' = 0 /\ mod' = "failed"
    /\ UNCHANGED <<tasks, table, seen, copy, gc, now, skips, stale, early, taken>>

(* ig_pc_preload: one process of the list (for_each_process: leaders only, *)
(* zombies among them) is copied ...                                       *)
PreloadRead(q) ==
    /\ mod = "loading" /\ tp = 3 /\ copy = NoEntry
    /\ task[q].st # "free" /\ task[q].tg = q /\ task[q].id \notin seen
    /\ seen' = seen \cup {task[q].id}
    /\ \/ copy' = EntryOf(q) /\ UNCHANGED skips
       \/ skips < MaxSkips /\ skips' = skips + 1 /\ UNCHANGED copy
    /\ UNCHANGED <<tasks, table, tp, mod, gc, now, stale, early, taken>>

(* ... and inserted, unless the pid is cached; a full cache ends it. *)
PreloadInsert ==
    /\ copy # NoEntry
    /\ copy' = NoEntry
    /\ IF count >= MaxEntries
       THEN mod' = "on" /\ seen' = {} /\ UNCHANGED table
       ELSE /\ UNCHANGED <<mod, seen>>
            /\ IF InCache(copy.pid) THEN UNCHANGED table
               ELSE lru' = list_add(lru, copy) /\ count' = count + 1
    /\ UNCHANGED <<tasks, tp, gc, now, skips, stale, early, taken>>

PreloadDone ==
    /\ mod = "loading" /\ tp = 3 /\ copy = NoEntry
    /\ \A q \in Pids : task[q].st # "free" /\ task[q].tg = q => task[q].id \in seen
    /\ mod' = "on" /\ seen' = {}
    /\ UNCHANGED <<tasks, table, tp, copy, gc, now, skips, stale, early, taken>>

(* ig_proc_cache_exit: the tracepoints, the last one first; then, when no  *)
(* callback and no work runs any more, the entries.                        *)
Unregister ==
    /\ mod \in {"on", "leaving"} /\ tp > 0
    /\ mod' = "leaving" /\ tp' = tp - 1
    /\ UNCHANGED <<tasks, table, seen, copy, gc, now, skips, stale, early, taken>>

Free ==
    /\ mod = "leaving" /\ tp = 0 /\ gc = 0 /\ \A q \in Pids : task[q].st # "exiting"
    /\ mod' = "off"
    /\ lru' = <<>> /\ count' = 0 /\ stale' = {}
    /\ UNCHANGED <<tasks, tp, seen, copy, gc, now, skips, early, taken>>

-----------------------------------------------------------------------------
(* When the module is gone, what tasks do no longer matters. *)
Present == mod \notin {"off", "failed"}

Next ==
    \/ \E p \in Pids \cup {Swapper}, q \in Pids : Present /\ Clone(p, q)
    \/ \E q \in Pids : Present /\
          \/ ig_pc_on_fork(q) \/ ForkSkipped(q) \/ ForkUnseen(q) \/ ig_pc_on_exec(q)
          \/ ig_pc_on_exit(q) \/ MarkExit(q) \/ ExitUnseen(q) \/ Reap(q) \/ TakeOver(q)
          \/ PreloadRead(q)
    \/ Present /\ Tick
    \/ GcBegin \/ GcReap
    \/ Register \/ RegisterFails \/ PreloadInsert \/ PreloadDone
    \/ Unregister \/ Free

Spec == Init /\ [][Next]_vars

-----------------------------------------------------------------------------
Alive(id) == \E q \in Pids : task[q].id = id /\ task[q].st \in {"born", "run", "exiting"}

(* The mark of a tombstone is right: an entry without one belongs to a     *)
(* task that has not ended, an entry with one to a task that has.  There   *)
(* are two exceptions: tasks that ended while the module was being loaded  *)
(* (the comment in ig_proc_cache_init thinks of forks only), and exec in a *)
(* thread (ig_pc_on_exec does not use old_pid), which leaves a live task   *)
(* marked, and an entry under the thread's old pid for good.               *)
MarkIsRight ==
    \A e \in Cached : e.id \notin early \cup taken => (e.exit = 0) <=> Alive(e.id)

(* What ig_proc_cache_collect_chain goes to after e. *)
NextInChain(e) == IF e.ppid \in {Swapper, e.pid} THEN NoEntry ELSE ig_pc_find_locked(e.ppid)

(* Every link of a chain is true: the next entry is the one of the parent  *)
(* of this one, or of a task younger than this one, as the start times     *)
(* show.  A pid whose fork was skipped may lead to an older task, and so   *)
(* may, until its tracepoint fires, that of a thread just made which has   *)
(* inherited children.                                                     *)
ChainIsTrue ==
    \A e \in Cached : LET f == NextInChain(e) IN
        f # NoEntry =>
            \/ f.id = e.parId \/ f.id > e.id \/ f.pid \in stale
            \/ task[f.pid].st = "born" /\ task[f.pid].id = e.parId

Leave ==
    mod' # "off" => \A e \in Cached :
        \/ \E f \in Cached' : f.pid = e.pid
        \/ e.exit # 0 /\ (now - e.exit >= Grace \/ gc < e.exit)
        \/ Len(lru) = MaxEntries /\
             (e.exit # 0 \/ stale # {} \/ \A f \in Cached : f.exit = 0 \/ f.id \in taken)

(* An entry leaves the cache only because its pid has a new task, because  *)
(* its task ended Grace ago, or to make room: then it is a tombstone if    *)
(* there is one.  Exceptions: the clock of the work item was read before   *)
(* the task ended, exec of a task that was skipped, and exec in a thread,  *)
(* which brings the tombstone of its leader to the front.                  *)
LeavesForCause == [][Leave]_vars

=============================================================================

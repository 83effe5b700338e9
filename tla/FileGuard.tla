----------------------------- MODULE FileGuard -----------------------------
(***************************************************************************)
(* File protection with the kernel module ig_lkm.ko: programs change       *)
(* files, the LSM hooks look the inode up in the policy table, refuse      *)
(* (lock mode) or report (maintenance mode), and put an event into a       *)
(* bounded kernel queue.  In the agent one thread moves events into the    *)
(* agent's queue; the main thread scans the watched paths into a baseline, *)
(* injects an inode policy for each of its entries, then handles events    *)
(* and reloads (SIGHUP).  The hook runs BEFORE the change it is about, and *)
(* the main thread reads files while programs write them.                  *)
(*                                                                         *)
(* A content stands for its SHA-256 value.  A path has its own inode (no   *)
(* hard links) and is watched once.  The sending of events is Transport's. *)
(***************************************************************************)
EXTENDS Integers, Sequences, FiniteSets

CONSTANTS
    Paths, Inodes, Contents,
    Users,          \* programs that change files, one call at a time
    None,
    FirstInode, FirstContent, FirstWatch,  \* files and ig.conf as the agent finds them
    FirstPolicy,    \* the table an earlier run of the agent left in the kernel
    WatchLists,     \* what ig.conf may list: nonempty sets of paths
    FifoSize,       \* slots of the kernel's queue (64 in the code)
    QueueSize,      \* slots of the agent's queue
    MaxCalls,       \* bound: calls the programs make
    MaxMoves        \* bound: edits of ig.conf, SIGHUPs, failed allocations, scans,
                    \* loads, calls, thread creations and reads, in all

Ops == {"WRITE", "DELETE", "RENAME"}
Entries == [mask : SUBSET Ops, block : {"deny", "audit"}, path : Paths]

ASSUME GuardAssumption ==
    /\ None \notin Paths \cup Inodes \cup Contents \cup Entries \cup {"deny", "audit"}
                   \cup [path : Paths, ino : Inodes]
    /\ FirstInode \in [Paths -> Inodes \cup {None}]
    /\ \A p, q \in Paths : p # q /\ FirstInode[p] # None => FirstInode[p] # FirstInode[q]
    /\ FirstPolicy \in [Inodes -> Entries \cup {None}]
    /\ FirstContent \in [Inodes -> Contents]
    /\ WatchLists \subseteq SUBSET Paths /\ {} \notin WatchLists /\ FirstWatch \in WatchLists
    /\ {FifoSize, QueueSize} \subseteq Nat \ {0}
    /\ MaxCalls \in Nat /\ MaxMoves \in Nat

VARIABLES
    inode, data,    \* the file system: names, and contents of inodes
    op,             \* the call each program is in
    policy,         \* ig_policy_ht: inode -> entry
    fifo,           \* ig_fifo
    queue, reader,  \* agent: event queue, LKM event thread
    main,           \* where the main thread is
    left, pick,     \* its loops: paths to go, the result of stat()
    ev, res,        \* event in hand, result of the integrity check
    baseline,       \* g_baseline_db: path -> hash
    block,          \* g_ebpf_block: "deny" (lock) or "audit" (maintenance)
    conf, watch, newWatch,  \* ig.conf, g_cfg and new_cfg: the watched paths
    reload,         \* g_reload, set by the SIGHUP handler
    calls, moves,   \* spent of the bounds
    built, written, loose, missed, told, untold, late  \* history, see below

(* built: paths the scan has put into the baseline.  Since the start, a    *)
(* path is written when a call changed its file, and loose when its name   *)
(* was given or taken away, when a delete of it was reported as let        *)
(* through, or when its file was misread: by the scan, or when an event    *)
(* was to be checked against the baseline or applied to it.  missed: paths *)
(* whose policy could not be added.  told: paths under which a delete,     *)
(* refused or not, was put into the kernel's queue.  untold: ig.conf was   *)
(* edited and no SIGHUP sent since, or it could not be loaded.  late:      *)
(* programs whose call began after the last injection was complete.        *)
files    == <<inode, data>>
agent    == <<main, left, pick, ev, res, baseline, watch, newWatch>>
signals  == <<conf, reload>>
bounds   == <<calls, moves>>
marks    == <<built, written, loose, missed, told>>
history  == <<marks, untold, late>>
vars == <<files, op, policy, fifo, queue, reader, agent, block, signals,
          bounds, history>>

Events == [op : Ops, blocked : BOOLEAN, path : Paths \cup {None}]
Idle == [kind |-> "idle", path |-> None, to |-> None, ino |-> None,
         todo |-> <<>>, step |-> "check"]

(* The bounds. *)
Call  == calls < MaxCalls /\ calls' = calls + 1 /\ UNCHANGED moves
Spend == moves < MaxMoves /\ moves' = moves + 1 /\ UNCHANGED calls

Settled == {"reload", "pop", "check", "apply", "send"}

Init ==
    /\ inode = FirstInode /\ data = FirstContent
    /\ op = [u \in Users |-> Idle]
    /\ policy = FirstPolicy
    /\ fifo = <<>> /\ queue = <<>> /\ reader = "off"
    /\ block \in {"deny", "audit"}
    /\ conf = FirstWatch
    /\ watch = conf /\ newWatch = conf
    /\ main = "scan" /\ left = conf /\ pick = None
    /\ ev = None /\ res = None
    /\ baseline = [p \in Paths |-> None]
    /\ reload = FALSE
    /\ calls = 0 /\ moves = 0
    /\ built = {} /\ written = {} /\ loose = {} /\ missed = {} /\ told = {}
    /\ untold = FALSE /\ late = {}

(***************************************************************************)
(* Programs.  A call first passes the hooks, one check per inode it names, *)
(* then takes effect.  The kernel holds the directories of an unlink or    *)
(* rename from before its hook until it is done.                           *)
(***************************************************************************)
Held(p) == \E u \in Users : op[u].kind \in {"unlink", "rename"} /\ p \in {op[u].path, op[u].to}

Free(i) ==
    /\ \A p \in Paths : inode[p] # i
    /\ \A u \in Users : op[u].ino # i /\ \A n \in 1..Len(op[u].todo) : op[u].todo[n].ino # i

Begin(u, kind, p, q, todo) ==
    /\ op[u] = Idle
    /\ inode[p] # None
    /\ Call
    /\ op' = [op EXCEPT ![u] = [kind |-> kind, path |-> p, to |-> q, ino |-> inode[p],
                                todo |-> todo, step |-> "check"]]
    /\ late' = IF main \in Settled THEN late \cup {u} ELSE late \ {u}
    /\ UNCHANGED <<files, policy, fifo, queue, reader, agent, block, signals, marks, untold>>

(* open for writing, truncate, chmod and the like: IG_OP_WRITE *)
Write(u, p) == Begin(u, "write", p, None, <<[ino |-> inode[p], op |-> "WRITE"]>>)

Unlink(u, p) ==
    ~Held(p) /\ Begin(u, "unlink", p, None, <<[ino |-> inode[p], op |-> "DELETE"]>>)

(* Mutant: only the source of a rename is checked. *)
RenameSourceOnly(u, p, q) ==
    /\ p # q /\ ~Held(p) /\ ~Held(q)
    /\ Begin(u, "rename", p, q, <<[ino |-> inode[p], op |-> "RENAME"]>>)

(* The source is checked, then the file the target name has, if any. *)
Rename(u, p, q) ==
    /\ p # q /\ ~Held(p) /\ ~Held(q)
    /\ Begin(u, "rename", p, q,
             <<[ino |-> inode[p], op |-> "RENAME"]>> \o
             IF inode[q] = None THEN <<>> ELSE <<[ino |-> inode[q], op |-> "RENAME"]>>)

(* No hook watches the making of a file.  Its inode number may be one that *)
(* an earlier file had.                                                    *)
Create(u, p) ==
    /\ op[u] = Idle /\ inode[p] = None /\ ~Held(p)
    /\ Call
    /\ \E i \in Inodes, c \in Contents :
         Free(i) /\ inode' = [inode EXCEPT ![p] = i] /\ data' = [data EXCEPT ![i] = c]
    /\ loose' = loose \cup {p}
    /\ UNCHANGED <<op, policy, fifo, queue, reader, agent, block, signals,
                   built, written, missed, told, untold, late>>

(* inode_policy_lookup *)
Lookup(i, o) ==
    IF policy[i] # None /\ o \in policy[i].mask THEN policy[i].block ELSE None

NextCheck(c) == [c EXCEPT !.todo = Tail(@), !.step = "check"]

(* ig_check_inode, first half: the verdict, under the policy read lock. *)
CheckInode(u) ==
    /\ op[u].todo # <<>> /\ op[u].step = "check"
    /\ LET c == Head(op[u].todo)
           verdict == Lookup(c.ino, c.op) IN
       op' = [op EXCEPT ![u] = IF verdict = None THEN NextCheck(@)
                               ELSE [@ EXCEPT !.step = verdict]]
    /\ UNCHANGED <<files, policy, fifo, queue, reader, agent, block, signals, bounds, history>>

(* ig_event_enqueue: the path is looked up again; a full queue or a failed *)
(* allocation loses the event.                                             *)
Enqueued(c) ==
    LET i == Head(c.todo).ino
        e == [op |-> Head(c.todo).op, blocked |-> c.step = "deny",
              path |-> IF policy[i] = None THEN None ELSE policy[i].path] IN
    IF Len(fifo) < FifoSize THEN Append(fifo, e) ELSE fifo

(* Second half: the event, then -EPERM or on to the next check.  A delete  *)
(* that is let through has its policy removed first.                       *)
Report(u) ==
    /\ op[u].step \in {"deny", "audit"}
    /\ \/ fifo' = Enqueued(op[u]) /\ UNCHANGED bounds
       \/ Spend /\ UNCHANGED fifo
    /\ op' = [op EXCEPT ![u] =
                CASE @.step = "deny" -> Idle
                  [] @.step = "audit" /\ @.kind = "unlink" -> [@ EXCEPT !.step = "forget"]
                  [] OTHER -> NextCheck(@)]
    /\ loose' = IF op[u].step = "audit" /\ op[u].kind = "unlink"
                THEN loose \cup {op[u].path} ELSE loose
    /\ told' = told \cup {fifo'[n].path : n \in {m \in DOMAIN fifo' : fifo'[m].op = "DELETE"}}
    /\ UNCHANGED <<files, policy, queue, reader, agent, block, signals,
                   built, written, missed, untold, late>>

(* inode_policy_remove, called from ig_check_delete_inode *)
Forget(u) ==
    /\ op[u].step = "forget"
    /\ policy' = [policy EXCEPT ![op[u].ino] = None]
    /\ op' = [op EXCEPT ![u] = NextCheck(@)]
    /\ UNCHANGED <<files, fifo, queue, reader, agent, block, signals, bounds, history>>

(* The hooks have let the call through: it takes effect, or fails later in *)
(* the file system.                                                        *)
Effect(u) ==
    LET c == op[u] IN
    /\ c.kind # "idle" /\ c.todo = <<>>
    /\ op' = [op EXCEPT ![u] = Idle]
    /\ \/ /\ c.kind = "write"
          /\ \E v \in Contents : data' = [data EXCEPT ![c.ino] = v]
          /\ written' = written \cup {p \in Paths : inode[p] = c.ino /\ data' # data}
          /\ UNCHANGED <<inode, loose, bounds>>
       \/ /\ c.kind = "unlink"
          /\ inode' = [inode EXCEPT ![c.path] = None]
          /\ loose' = loose \cup {c.path}
          /\ UNCHANGED <<data, written, bounds>>
       \/ /\ c.kind = "rename"
          /\ inode' = [inode EXCEPT ![c.to] = c.ino, ![c.path] = None]
          /\ loose' = loose \cup {c.path, c.to}
          /\ UNCHANGED <<data, written, bounds>>
       \/ /\ Spend
          /\ UNCHANGED <<files, written, loose>>
    /\ UNCHANGED <<policy, fifo, queue, reader, agent, block, signals,
                   built, missed, told, untold, late>>

(***************************************************************************)
(* The LKM event thread: select with a timeout, read, push.  Any error     *)
(* ends it, a signal that interrupts the select included.                  *)
(***************************************************************************)
ReadEvent ==
    /\ reader = "run" /\ fifo # <<>>
    /\ fifo' = Tail(fifo)
    /\ queue' = Append(IF Len(queue) = QueueSize THEN Tail(queue) ELSE queue, Head(fifo))
    /\ UNCHANGED <<files, op, policy, reader, agent, block, signals, bounds, history>>

ReadFails ==
    /\ reader = "run"
    /\ Spend
    /\ reader' = "broken"
    /\ UNCHANGED <<files, op, policy, fifo, queue, agent, block, signals, history>>

(***************************************************************************)
(* The main thread: scan, clear and inject, then the loop.                 *)
(***************************************************************************)
(* ig_sha256_file of a path; None when there is no such file *)
Hash(p) == IF p \in Paths /\ inode[p] # None THEN data[inode[p]] ELSE None

(* What it may come to instead for a file that is there: fopen or a call   *)
(* of the digest fails, or a read error passes for the end of the file.    *)
Misread(p) == (Contents \cup {None}) \ {Hash(p)}

(* A file that cannot be read, or no memory for its entry: it is skipped. *)
ScanFile(p) ==
    /\ main = "scan" /\ p \in left
    /\ left' = left \ {p}
    /\ \/ /\ baseline' = [baseline EXCEPT ![p] = Hash(p)]
          /\ built' = IF Hash(p) = None THEN built ELSE built \cup {p}
          /\ UNCHANGED <<loose, bounds>>
       \/ /\ Spend /\ loose' = loose \cup {p}
          /\ \E h \in Misread(p) : baseline' = [baseline EXCEPT ![p] = h]
          /\ UNCHANGED built
    /\ UNCHANGED <<files, op, policy, fifo, queue, reader, main, pick, ev, res, watch, newWatch,
                   block, signals, written, missed, told, untold, late>>

(* Mutant: a reload clears the table and injects nothing. *)
ClearOnly ==
    /\ (main = "scan" /\ left = {}) \/ main = "clear"
    /\ policy' = [i \in Inodes |-> None]
    /\ main' = "inject"
    /\ left' = IF main = "scan" THEN {p \in Paths : baseline[p] # None} ELSE {}
    /\ missed' = {} /\ late' = {}
    /\ UNCHANGED <<files, op, fifo, queue, reader, pick, ev, res, baseline, watch, newWatch,
                   block, signals, bounds, built, written, loose, told, untold>>

(* lkm_clear_all, then lkm_add_from_baseline starts: at the end of the     *)
(* scan, and in reload_config.                                             *)
ClearAll ==
    /\ (main = "scan" /\ left = {}) \/ main = "clear"
    /\ policy' = [i \in Inodes |-> None]
    /\ main' = "inject"
    /\ left' = {p \in Paths : baseline[p] # None}
    /\ missed' = {} /\ late' = {}
    /\ UNCHANGED <<files, op, fifo, queue, reader, pick, ev, res, baseline, watch, newWatch,
                   block, signals, bounds, built, written, loose, told, untold>>

(* stat(): a path without a file is skipped. *)
StatPath(p) ==
    /\ main = "inject" /\ pick = None /\ p \in left
    /\ left' = left \ {p}
    /\ pick' = IF inode[p] = None THEN None ELSE [path |-> p, ino |-> inode[p]]
    /\ UNCHANGED <<files, op, policy, fifo, queue, reader, main, ev, res, baseline, watch, newWatch,
                   block, signals, bounds, history>>

(* ioctl IG_IOC_ADD_INODE: inode_policy_add.  Its two sections under the   *)
(* lock are one step: only this thread adds, and a removal in between      *)
(* finds nothing to remove.                                                *)
AddInode ==
    /\ pick # None
    /\ pick' = None
    /\ \/ /\ policy' = [policy EXCEPT ![pick.ino] = [mask |-> Ops, block |-> block, path |-> pick.path]]
          /\ UNCHANGED <<missed, bounds>>
       \/ /\ policy[pick.ino] = None /\ Spend
          /\ missed' = missed \cup {pick.path}
          /\ UNCHANGED policy
    /\ UNCHANGED <<files, op, fifo, queue, reader, main, left, ev, res, baseline, watch, newWatch,
                   block, signals, built, written, loose, told, untold, late>>

(* The head of the loop: on to reload_config, or to the queue.             *)
LoopHead == IF reload THEN "reload" ELSE "pop"

(* Mutant: g_reload is reset after the reload. *)
InjectedResets ==
    /\ main = "inject" /\ left = {} /\ pick = None
    /\ main' = IF reader = "off" THEN LoopHead ELSE "pop"
    /\ reader' = IF reader = "off" THEN "run" ELSE reader
    /\ watch' = newWatch
    /\ reload' = FALSE
    /\ UNCHANGED <<files, op, policy, fifo, queue, left, pick, ev, res, baseline, newWatch,
                   block, conf, bounds, history>>

(* Mutant: no event thread is created. *)
InjectedNoThread ==
    /\ main = "inject" /\ left = {} /\ pick = None
    /\ main' = LoopHead
    /\ watch' = newWatch
    /\ UNCHANGED <<files, op, policy, fifo, queue, reader, left, pick, ev, res, baseline, newWatch,
                   block, signals, bounds, history>>

(* All injected: at start the event thread is created, or cannot be, which *)
(* is only logged; after a reload the new watch list replaces the old one. *)
Injected ==
    /\ main = "inject" /\ left = {} /\ pick = None
    /\ main' = IF reader = "off" THEN LoopHead ELSE "pop"
    /\ \/ reader' = (IF reader = "off" THEN "run" ELSE reader) /\ UNCHANGED bounds
       \/ reader = "off" /\ reader' = "broken" /\ Spend
    /\ watch' = newWatch
    /\ UNCHANGED <<files, op, policy, fifo, queue, left, pick, ev, res, baseline, newWatch,
                   block, signals, history>>

(* g_reload = 0, then reload_config with the file as it is now. *)
Reload ==
    /\ main = "reload"
    /\ reload' = FALSE
    /\ \/ newWatch' = conf /\ main' = "clear" /\ UNCHANGED <<bounds, untold>>
       \/ /\ Spend
          /\ untold' = TRUE /\ main' = "pop"
          /\ UNCHANGED newWatch
    /\ UNCHANGED <<files, op, policy, fifo, queue, reader, left, pick, ev, res, baseline, watch,
                   block, conf, marks, late>>

(* ig_queue_pop and the start of process_event; a rename leaves the        *)
(* baseline alone.                                                         *)
PopEvent ==
    /\ main = "pop" /\ queue # <<>>
    /\ queue' = Tail(queue)
    /\ IF Head(queue).op = "RENAME"
       THEN main' = "send" /\ UNCHANGED ev
       ELSE ev' = Head(queue) /\ main' = "check"
    /\ UNCHANGED <<files, op, policy, fifo, reader, left, pick, res, baseline, watch, newWatch,
                   block, signals, bounds, history>>

(* The wait for an event has timed out; without a signal it starts again.  *)
PopTimeout ==
    /\ main = "pop" /\ queue = <<>> /\ reload
    /\ main' = LoopHead
    /\ UNCHANGED <<files, op, policy, fifo, queue, reader, left, pick, ev, res, baseline, watch,
                   newWatch, block, signals, bounds, history>>

(* ig_baseline_check_file, h the hash it has found *)
Integrity(p, h) ==
    IF h = None THEN "ERROR"
    ELSE IF baseline[p] = None THEN "NEW"
    ELSE IF baseline[p] = h THEN "MATCH" ELSE "MISMATCH"

(* For a write the result is only logged. *)
CheckFile ==
    /\ main = "check"
    /\ main' = "apply"
    /\ \/ res' = Integrity(ev.path, Hash(ev.path)) /\ UNCHANGED <<loose, bounds>>
       \/ /\ ev.op = "DELETE" /\ Hash(ev.path) # None /\ Spend
          /\ \E h \in Misread(ev.path) : res' = Integrity(ev.path, h)
          /\ loose' = loose \cup {ev.path}
    /\ UNCHANGED <<files, op, policy, fifo, queue, reader, left, pick, ev, baseline, watch, newWatch,
                   block, signals, built, written, missed, told, untold, late>>

(* ig_baseline_db_update reads the file again and keeps what it finds. *)
Updated(p, h) ==
    IF h = None THEN baseline ELSE [baseline EXCEPT ![p] = h]

(* Mutant: a delete event removes the entry without a look at the file. *)
RemovedAlways(p) == IF p = None THEN baseline ELSE [baseline EXCEPT ![p] = None]

(* ig_baseline_db_remove, unless the file is there as recorded *)
Removed(p) ==
    IF p = None \/ res = "MATCH" THEN baseline ELSE [baseline EXCEPT ![p] = None]

ApplyEvent ==
    /\ main = "apply"
    /\ \/ /\ baseline' = IF ev.op = "WRITE" THEN Updated(ev.path, Hash(ev.path))
                                            ELSE Removed(ev.path)
          /\ UNCHANGED <<loose, bounds>>
       \/ /\ ev.op = "WRITE" /\ Hash(ev.path) # None /\ Spend
          /\ \E h \in Misread(ev.path) :
               /\ baseline' = Updated(ev.path, h)
               /\ loose' = IF h = None THEN loose ELSE loose \cup {ev.path}
    /\ main' = "send" /\ ev' = None /\ res' = None
    /\ UNCHANGED <<files, op, policy, fifo, queue, reader, left, pick, watch, newWatch,
                   block, signals, built, written, missed, told, untold, late>>

(* send_event_with_reconnect returns, and process_event with it.  It waits *)
(* as long as the heartbeat thread has conn_lock, or for an ACK.           *)
SendReturns ==
    /\ main = "send"
    /\ main' = LoopHead
    /\ UNCHANGED <<files, op, policy, fifo, queue, reader, left, pick, ev, res, baseline, watch,
                   newWatch, block, signals, bounds, history>>

(***************************************************************************)
(* The administrator.                                                      *)
(***************************************************************************)
EditConf(S) ==
    /\ S # conf /\ Spend
    /\ conf' = S /\ untold' = TRUE
    /\ UNCHANGED <<files, op, policy, fifo, queue, reader, agent, block, reload,
                   marks, late>>

Sighup ==
    /\ Spend
    /\ reload' = TRUE /\ untold' = FALSE
    /\ UNCHANGED <<files, op, policy, fifo, queue, reader, agent, block, conf,
                   marks, late>>

Program(u) ==
    \/ \E p \in Paths : Write(u, p) \/ Unlink(u, p) \/ Create(u, p)
    \/ \E p, q \in Paths : Rename(u, p, q)
    \/ CheckInode(u) \/ Report(u) \/ Forget(u) \/ Effect(u)

Reader == ReadEvent \/ ReadFails

Running ==
    \/ \E p \in Paths : ScanFile(p) \/ StatPath(p)
    \/ ClearAll \/ AddInode \/ Injected \/ Reload
    \/ PopEvent \/ PopTimeout \/ CheckFile \/ ApplyEvent

Main == Running \/ SendReturns

Admin == Sighup \/ \E S \in WatchLists : EditConf(S)

Next == (\E u \in Users : Program(u)) \/ Reader \/ Main \/ Admin

(* The agent's two threads are scheduled, and wait with a timeout except   *)
(* for the send, which nothing makes return; nothing is assumed of the     *)
(* programs or the administrator.                                          *)
Fairness == WF_vars(Running) /\ WF_vars(ReadEvent)

Spec == Init /\ [][Next]_vars /\ Fairness

-----------------------------------------------------------------------------
Calls == [kind : {"idle", "write", "unlink", "rename"}, path : Paths \cup {None},
          to : Paths \cup {None}, ino : Inodes \cup {None},
          todo : Seq([ino : Inodes, op : Ops]), step : {"check", "deny", "audit", "forget"}]

Flags == reload \in BOOLEAN /\ untold \in BOOLEAN

(* The state has its types, and both queues keep within their sizes.       *)
TypeOK ==
    /\ inode \in [Paths -> Inodes \cup {None}]
    /\ data \in [Inodes -> Contents]
    /\ op \in [Users -> Calls]
    /\ policy \in [Inodes -> Entries \cup {None}]
    /\ fifo \in Seq(Events) /\ Len(fifo) <= FifoSize
    /\ queue \in Seq(Events) /\ Len(queue) <= QueueSize
    /\ reader \in {"off", "run", "broken"}
    /\ main \in {"scan", "clear", "inject"} \cup Settled
    /\ left \subseteq Paths
    /\ pick \in [path : Paths, ino : Inodes] \cup {None}
    /\ ev \in Events \cup {None}
    /\ res \in {"MATCH", "MISMATCH", "NEW", "ERROR", None}
    /\ baseline \in [Paths -> Contents \cup {None}]
    /\ block \in {"deny", "audit"}
    /\ conf \subseteq Paths /\ watch \subseteq Paths /\ newWatch \subseteq Paths
    /\ Flags
    /\ calls \in 0..MaxCalls /\ moves \in 0..MaxMoves
    /\ built \subseteq Paths /\ written \subseteq Paths /\ loose \subseteq Paths
    /\ missed \subseteq Paths /\ told \subseteq Paths \cup {None} /\ late \subseteq Users

(* Files that were scanned and read whenever they had to be, and whose     *)
(* name and policy no call has taken away.  A file is excused as well that *)
(* a call changed which was let through and of which a delete was          *)
(* reported, by whatever verdict: the agent may compare the file with an   *)
(* old hash and drop its baseline entry, and the next reload does not      *)
(* inject it.                                                              *)
Guarded == built \ (loose \cup missed \cup (written \cap told))

(* Once the scanned files are injected, and again after every reload, each *)
(* is in the policy table under its own path and with the mode's verdict,  *)
(* whatever other files were deleted, renamed over, or made with a reused  *)
(* inode number in the meantime.                                           *)
StaysWatched ==
    main \in Settled =>
        \A p \in Guarded :
            /\ inode[p] # None
            /\ policy[inode[p]] = [mask |-> Ops, block |-> block, path |-> p]

(* In lock mode no call that began since the table was complete gets past  *)
(* the hooks when it names a guarded file, be it as a rename's target.     *)
LockRefuses ==
    block = "deny" /\ main \in Settled =>
        \A u \in late : op[u].kind # "idle" /\ op[u].todo = <<>> =>
            {op[u].path, op[u].to} \cap Guarded = {}

(* The handling of events never damages the baseline, be they of refused   *)
(* calls, of calls that failed or of other files: a file that no call got  *)
(* through to keeps its entry, with its hash, as long as it can be read    *)
(* when its events are handled.  The next reload injects only what is      *)
(* still in the baseline.                                                  *)
BaselineIntact ==
    \A p \in built \ (written \cup loose) :
        inode[p] # None /\ baseline[p] = data[inode[p]]

(* A SIGHUP is never lost: with none outstanding the agent has the watch   *)
(* list of the last ig.conf it was told of, also when the signal came in   *)
(* the middle of a reload.                                                 *)
SighupNotLost ==
    main \in Settled /\ ~reload /\ ~untold => watch = conf

(* What the hooks have reported the main thread comes to handle, during    *)
(* and between reloads, unless the event thread could not be created or a  *)
(* failed or interrupted read has ended it, or the sending of an event     *)
(* never returns.                                                          *)
EventsHandled ==
    \/ <>[](main = "send")
    \/ (fifo # <<>> \/ queue # <<>>) ~>
            \/ fifo = <<>> /\ queue = <<>> /\ main \in {"reload", "pop"}
            \/ reader = "broken"

(* What reload_config says of itself: changes of the watched paths are     *)
(* reflected in the kernel's policies.  It injects the baseline as it was  *)
(* scanned at the start, so a path that ig.conf has since gained is not    *)
(* watched.                                                                *)
ReloadFollowsConf ==
    main \in {"reload", "pop"} /\ ~reload /\ ~untold =>
        \A p \in watch \ (loose \cup missed) :
            inode[p] # None => policy[inode[p]] # None
=============================================================================

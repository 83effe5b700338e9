# TLA+ models of KN-IG

KN-IG watches the integrity of files on machines of a separated network. An **agent** (C, one
per machine) learns of file events from a kernel module or from eBPF, and sends them over mTLS
to a **backend** (Go), whose collector stores them in MySQL, raises alerts and serves a console.
This directory holds models of the parts of that system where several threads, connections,
processes or database calls interleave: TLC checks them on small instances, TLAPS proves the
central properties for every size.

## The system

| Part | State | Operations | Talks to |
|---|---|---|---|
| event queue (`Agent/src/ig_queue.c`) | ring, `head`, `tail`, `count`, `dropped` | push, pop with timeout, dropped | kernel-event threads push, the main loop pops |
| transport (`transport/tcp_client.c`, `heartbeat.c`, part of `main.c`) | TLS connection, `state`, `seq_num`, `send_failures` under `conn_lock`; `g_transport_ok` | connect, register, send, reconnect, disconnect | main thread and heartbeat thread share it; the collector is the peer |
| PID lock (`core/pid_lock.c`) | PID file, fcntl lock | acquire, release | processes of one machine |
| enrollment (`enroll/enroll.c`; `Backend/internal/enrollment`, `store/enrollment_store.go`) | token rows, agents, certificates; the files `agent.crt`, `agent.key` | create token, hello/challenge/request/response/ack, claim, issue, finalize, release | enroll mode of the agent, one goroutine per connection, MySQL |
| collector sessions (`collector/agent_session.go`, `tcp_server.go`) | `sync.Map` of sessions, `lastSeq`, status column | register, heartbeat, file event, cleanup | one goroutine per connection, MySQL, operator requests |
| main program, reload (`main.c`) | watch lists, baseline, kernel policy | process event, reload | everything in the agent |
| baseline (`scanner/baseline.c`, `walker.c`) | table of file hashes | scan, check, update, remove | main loop |
| kernel module (`lkm/`) | policy table, event FIFO | ioctl add/remove/clear, enqueue, read | hooks in any context, one reader thread |
| its process cache (`lkm/ig_lkm_proc_cache.c`) | hash table and LRU list of tasks, tombstones | fork, exec, exit, chain look-up, reaping, preload | tracepoints, a work item, the hooks |
| eBPF (`ebpf/`) | `policy_map`, ring buffer, path cache with tombstones, table of recent records | hooks, add, remove, poll | programs, poll thread, main thread |
| event engine, alerts (`engine/`, `store/`) | burst window, rows | process, save | collector goroutines |
| console API (`api/`) | PIN, lock-out, tokens, SSE clients | setup, login, publish, subscribe | HTTP handlers, collector goroutines |

What makes it hard: two threads that both reconnect one connection; retries that end; an ACK read
without a timeout; a lock on a file whose name is removed; database calls that report an error
although they took effect; crashes between a claim and its commit; goroutines of an old and a new
session of one agent that work on the same map entry and the same row; hooks that report a change
before it happens, and a policy table that is emptied and filled again while programs run; two
tables without a common lock, and inode numbers and pids that are used again while something still
refers to them; PIN checks and stream subscriptions of requests that overlap. `PROJECT.json` lists
these hazards with their lines and the properties that cover them.

## Modules

```
BoundedFifo  <--refines--  EventQueue    <- AgentCoreProofs
                           Transport     <- TransportProofs
                           PidLock       <- AgentCoreProofs
                           Enrollment    <- EnrollmentProofs
                           AgentSession  <- AgentSessionProofs
                           FileGuard     <- FileGuardProofs
PathCache    <--extends--  EbpfGuard     <- EbpfGuardProofs
                           ProcCache     <- ProcCacheProofs
                           Console       <- ConsoleProofs
MC<Module>                 instantiates <Module> for TLC
```

Definitions that carry a comment "mutated form" or "Mutant" are plausible mistakes in the definition
that follows them. They belong to no specification; each is put in the place of its original to see
that the property it aims at then fails.

### EventQueue, BoundedFifo

`ig_queue.c` and the loop of `main` that drains the queue. Every operation runs under `q->lock`
and is one step; `pthread_cond_timedwait`, the only place where the lock is given up, separates
`PopWait` from `PopWake` (signal or spurious wake-up) and `PopTimeout`. An event is its serial
number. `BoundedFifo` is the promise: a FIFO of bounded length that gives up its oldest element.

Run `event_queue` (3 slots, 8 events: the indices wrap more than twice, with the ring full, empty
and in between) checks that the ring holds the newest events in order (`HoldsNewest`), that nothing
is lost uncounted (`NothingUnaccounted`), that an overflow gets logged and events get drained
(`LoopKeepsUp`) and that the ring implements the FIFO (`ImplementsFifo`). That head, tail and count
agree (`RingShape`) is part of the inductive invariant and proved. Fairness is weak fairness of the
main thread outside `process_event`: it is an ordinary runnable thread and the wait for an event
returns after 500 ms at the latest. Nothing makes `process_event` return (`ProcessReturns` has no
fairness): it ends with a send that needs `conn_lock` or waits for an ACK, without a timeout
(Transport's `Blocked`). `LoopKeepsUp` excepts a `process_event` that never returns. Events and
signals are not assumed to happen. `CHECK_DEADLOCK FALSE`: the agent may stop.

### Transport

One `ig_tcp_client_t`, the main thread, the heartbeat thread, and the collector's end of the
connection. A send holds `conn_lock` from its first to its last line and is one step. A reconnect
holds it over every retry and the wait for the ACK; these are separate steps. `MainCheck` is the
unlocked read of `cli->state` before a send. `link` is the connection as TCP sees it: `up`,
`lost` (writes are accepted and vanish), `broken` (writes fail). After a failed `SSL_write` a
connection stays unusable (a rule of OpenSSL). Frame contents, the sleeps between retries
and systemd's watchdog are left out.

Run `transport` (`MaxRetries` 3 for 20, `MaxSendFailures` 3 as in the code, sequence numbers
modulo 4 for 2^32 so that they wrap, 5 faults: one more than it takes to break a connection and
to use up the retries of a reconnect; one unanswered REGISTER):

- `SeqInStep`: the collector never sees a gap the agent made, over reconnects by either thread,
  numbers used up by failed writes, and the wrap of the counter;
- `RegisterFirst`: nobody gets between connect and REGISTER, and a failed
  registration leaves no usable connection behind;
- `LockInv`: every way out gives the lock back (and the variables have their types);
- `Recovers`: the agent ends up connected, registered and sending for good, unless a thread has
  used up its retries (`GaveUp`) or the collector never answers a REGISTER (`Blocked`);
- `StopCompletes`: SIGTERM ends the agent, except while `Blocked`.

Fairness: both threads run, TCP notices a dead peer, and the collector answers a REGISTER it is
not silent about. Faults, events and signals need not happen.

Run `transport_gives_up` (violation): when the heartbeat thread has used up its retries, the
client stays `DISCONNECTED`, sends return -1 and never -2, and the main thread logs "will retry"
for every event while nothing ever tries again (`RetryHappens`).

Also visible in the model, though no document says otherwise: after the main thread gave up,
`g_transport_ok` stays 0 even when the heartbeat thread reconnects later (heartbeats, no events);
a failed first REGISTER leaves the agent without transport until it is restarted.

### PidLock

Open, lock, close and unlink are separate steps of any number of processes; a process may be
killed anywhere. A lock belongs to the file, the next process finds the file by its name. A file
is named after the process that created it.

Run `pid_lock` (4 processes): `ExclusiveUntilRemoved`, at most one agent runs until an orderly exit
has removed the name; `RefusedOnlyByRunning`, nobody is refused by what a dead process left.
Run `pid_lock_removed` (violation of `Exclusive`): p1 closes, p2 locks the same file, p1 unlinks
it, p3 creates a new one and locks that.  Three processes suffice for it; the fourth lets a refused
or killed one take part.

### Enrollment

Client and server of a connection talk in lock step, so a connection has one slot for the frame
under way. A database call that is one statement or one transaction is one step; everything
between two calls may interleave. A certificate is named after the connection it was issued on, an
agent id after its machine (it is a hash of host name and address). `ClaimFails` and
`FinalizeFails` cover a call that reports an error although it took effect. Enroll mode is
interactive, one at a time per machine. The cryptography is abstracted: a frame verifies or the
connection ends. `abandoned` is history: tokens whose claim nobody is going to release.

Run `enrollment` (three attempts of one machine with two tokens, each unbound, bound to the machine
or to another one; any two mishaps; the two attempts with the first token are a symmetry set, which
is sound because the run checks no liveness):

- `SingleIssue`: a token yields at most one certificate;
- `OneActive`, `RevokedStays`: at most one active certificate per agent, and a revoked one never
  comes back while the agent exists;
- `FilesSound`: what a machine stores was recorded, and certificate and key
  belong together;
- `StoredIsActive`: a stored pair is revoked only for a certificate of another token. With two
  tokens a late request of a client that gave up can revoke what the other token has obtained;
- `ClaimGoesBack`: a token stays in `issuing` only while a connection works on it, or is one of
  those a crash, a failed claim or a failed release has abandoned. These stay in `issuing` for
  good: no code looks for them, and the error of the release is discarded (`service.go:60`).

Two mishaps are the smallest number at which a failure of the issuing meets a failure of the
release, and a lost answer meets a crash; three connections are the retry of one token beside a
second token. The proofs lift both bounds. No liveness is claimed, a client may always give up.

### AgentSession

The sessions of one agent. A goroutine's step is one operation on the `sync.Map` or one database
call. A connection shows the agent's bound certificate, another one, or one that names another
agent. Nothing is assumed of what a peer sends, or when: a REGISTER, a heartbeat or a frame that is
rejected may come at any time, and frames that came in before the connection was closed are read and
handled after it (`ReadFrame`; `MaxRest` of them, as `rest` counts). The id of a session is set
before its certificate is looked at, and a heartbeat asks for the id only (`RecvHeartbeat`). A
database call that reports an error may have taken effect. `overlap` and `stray` are history: two
handlers have been under way at once; a heartbeat was taken from a session that is not in the map.
`handleFileEvent` touches neither the map nor the status; it is in Console.

Run `session` (two connections, one frame after a close, one failed statement, one operator
request):

- `RefusedIsInert`: a session whose certificate was not accepted never gets into the map, takes no
  entry out of it, closes no other connection and never sets the row offline; its REGISTER does not
  set it online. A heartbeat of it does, see below;
- `LiveIsOnline`: a connected, registered agent that sends heartbeats is shown online in the long
  run. Fairness: goroutines run, a read on a closed connection fails, an agent that has its ACK
  keeps sending;
- `SerialSound`, `SerialOffline`: as long as handlers do not overlap, at most one session is usable,
  an agent without a session is not online (unless a statement failed, the operator set it, or a
  session that is not in the map sent a heartbeat), and only the current session writes offline.

Two connections are the old and the new one; a third adds nothing to these races but another old
one. One frame after a close is enough for a heartbeat to follow the REGISTER that was refused.

Also visible in the model, and the reason for "as long as handlers do not overlap": the old session
finds itself current, the new one registers, the old one then deletes the new one's entry and writes
offline, although the comment at `agent_session.go:72` wants that only for the current session (the
next heartbeat repairs the row, see `LiveIsOnline`); and a heartbeat of a replaced session may be
written after the new session has gone, so that the row says online with no connection, which
nothing repairs, as there is no sweep. A session that was never accepted can do the same: after a
database error in `handleRegister` it stays open with its id (`agent_session.go:129,170`), and
`rejectSession` only closes the connection, so that a heartbeat read in the same TLS record as a
refused REGISTER is still handled. `validateAgentIdentity` (`agent_session.go:44`) speaks of
messages of sessions that are not registered, but lets both of these through.

### FileGuard

File protection in LKM mode, across three parts: the kernel (hooks of `lkm415.c`, policy table,
event FIFO), the agent's LKM event thread, and its main thread (initial scan, injection, the loop
with `process_event` and `reload_config`, and the baseline they work on). Programs call write,
unlink and rename; a call passes the hooks, one check per inode it names, then takes effect. A
check is two steps, the look-up and the report, since the policy lock is given up in between; a
delete that is let through removes the policy in a third. The main thread's loops over baseline
entries are one step per entry, `stat()` and the ioctl separate; in `process_event` the integrity
check and the update of the baseline read the file at different moments, and either reading may fail
or go wrong for a file that is there (`Misread`). `inode_policy_add` is one
step although it drops its lock, because the agent adds from one thread only. A content stands for
its hash; a path has its own inode and is watched once; sending is Transport's. External: the file
system, and directories locked by the kernel during unlink and rename. `built`, `written`, `loose`,
`missed`, `told`, `untold` and `late` are history that the properties use to name their exceptions.

Run `file_guard` (two programs, two files that share an inode number when one is deleted and created
again, one of them watched at first; lock and maintenance mode; a kernel table in which an earlier
run in lock mode has left the policy of the watched file; both queues with one slot, so that both
overflow; two calls of programs; two events out of edits of `ig.conf`, SIGHUPs and failures):

- `StaysWatched`: after the injection and after every reload each scanned file is in the table under
  its path, with the verdict of the mode, whatever happened to other files and numbers. Excepted
  (`Guarded`) are files whose name a call has taken away or given, whose policy could not be added,
  that were misread, or that were changed and then reported deleted;
- `LockRefuses`: in lock mode no call that began since gets past the hooks with such a file, be it
  as the target of a rename;
- `BaselineIntact`: the handling of events, of refused calls too, never damages the baseline of a
  file no call got through to, which is what the next reload injects from, as long as the file can
  be read;
- `SighupNotLost`: a SIGHUP during a reload leads to another one;
- `EventsHandled`: what the hooks report gets handled, unless the event thread has ended (one failed
  or interrupted read ends it for good, `main.c:175`) or the main thread stays in a send.

Two calls are the smallest number at which a delete meets the reuse of its inode, and a refused call
one that was let through; two of the other events make an edit followed by its SIGHUP, two SIGHUPs,
or a failure within a reload. Fairness: both threads of the agent are scheduled, and wait with a
timeout (500 ms) except in the send at the end of `process_event`, which waits for `conn_lock` or an
ACK: `SendReturns` has no fairness. Programs and the administrator need not do anything.
`CHECK_DEADLOCK FALSE`: when the bounds are spent and the event thread has ended everything may
rest.

Run `file_guard_reload` (violation of `ReloadFollowsConf`): a path that `ig.conf` gains is not
watched after the reload, which injects the baseline scanned at the start again.

Also visible in the model: `ig_baseline_check_file` gives the same ERROR for a file that is there
and cannot be read as for one that is gone, and `process_event` then removes its baseline entry
although the delete was refused; the next reload leaves the file without a policy. The comment at
`main.c:297` (a refused delete finds the file, matches and keeps the baseline) does not hold for
such a file; the properties except files that were misread (`loose`). And, with no document that
says otherwise: programs are not refused between the clearing and the end of the injection; in
maintenance mode the main thread may hash a file before a reported write and again after it, and so
adopt the new content without an integrity alert; a delete handled before the unlink takes effect
keeps a baseline entry without a file; a file that a call changed which was let through loses its
baseline entry when a delete of it is reported, refused or not, before the agent has taken the new
hash, and its policy with the next reload. `Guarded` excuses it, in either mode: in maintenance mode
the refusal comes from a policy that an earlier run in lock mode left in the kernel until the first
injection. This last case was met in the proof of `StaysWatched`, whose invariant could not be shown
to be kept; TLC then found it once the instance had such a table.

### PathCache, EbpfGuard

File protection with eBPF, across the kernel and two threads of the agent. `PathCache` is the table
of `ig_trace.c` from an inode to its path, open addressing with tombstones; its operations run under
one lock and are functions of the table. In `EbpfGuard` the hook of an unlink or rename (`Unlink`,
`Rename`) and the effect of the call (`UnlinkEffect`, `RenameEffect`, or `CallFails`) are two steps,
with the directory held by the kernel over both (`Held`); either thread of the agent may come in
between. `Write` and `SetAttr` change nothing that the agent's tables depend on and are their hooks.
No hook sees `Rmdir`, `Create` and `Link`. `audit_inode` puts a record into the ring buffer unless
it is full. The poll thread takes records out (`HandleRecord`, with the suppression of duplicates),
and after an unlink that was let through removes the inode from `policy_map` and from the path
cache, two steps (`PollUnpolicy`, `PollUncache`). The main thread registers a path in three
(`AddPath` with lstat, `add_policy_inode`, `PutPath`) and removes it in two, in the other order.
`Stop`, `Cleanup`: `ebpf_policy_stop`, join, `ebpf_policy_cleanup`. Whether 200 ms have passed
between two records is a choice. Left out: what becomes of the event (EventQueue, Transport),
RENAME_EXCHANGE, and opening a directory that a program removes during the walk.

Run `ebpf_guard` (a directory, a file in it, another file; three inodes that all hash to one slot of
a cache with two slots, as many as `policy_map` takes; a ring buffer of one record; three calls of
programs and one reload). Two slots are the smallest table with a probe chain and with a state that
has tombstones and no empty slot; three calls make a delete, a reuse and a second delete.

- `CacheSound`: no inode is entered twice and no removal cuts a probe chain;
- `PolicyNamed`: both tables agree, each watched inode has a path to report events under, unless the
  cache had no empty slot or the registration fell between the two removals of the poll thread;
- `NoStranger`: a file that was given the inode of a deleted one is not taken for it, once the
  record of the delete has been handled. Excepted are lost and suppressed records, rmdir, a rename
  over the file, a file that went between lstat and its registration, and one that was registered
  after the hook of its unlink had not found it, or after that hook's record was handled: their
  policies stay for good;
- `StaysGuarded`: a registered file keeps its policy until a delete of it is let through or a reload
  drops an entry that covers it;
- `LockHolds`: in lock mode nobody deletes, replaces or moves such a file, by whichever name, with
  the ring full as well, unless by a call that was past its hook when the file was registered;
- `ShutsDown`: SIGTERM ends. Fairness: both threads run, and the poll returns after 100 ms.

Also visible in the model: a record of an unlink that has failed, or that took one of several names,
makes the agent forget a file that is still there; when `ig.conf` loses an entry, files below
another entry that covers them too lose their policy; the cache refuses an inode when no slot is
empty, although tombstones were met, so that the remark "same size as policy_map" (`ig_trace.c:125`)
does not suffice for every inode to have a path; a delete suppressed as a duplicate of the delete of
the inode's previous file is not reported either.

### ProcCache

The process cache of the kernel module. The callbacks of the tracepoints (`ig_pc_on_fork`,
`ig_pc_on_exec`, `ig_pc_on_exit`) are one step each under the lock, except that exit reads the clock
first (`ig_pc_on_exit`, then `MarkExit`); so does the work item that reaps tombstones (`GcBegin`,
`GcReap`). Loading registers the tracepoints one after the other and copies every task, reading it
(`PreloadRead`) before it takes the lock (`PreloadInsert`); unloading takes the tracepoints back in
the reverse order, waits, and frees. Hash table and LRU list are one sequence. The kernel's tasks
are external: born, forked, running, exiting, zombie, their pid free again. Threads are tasks of a
group (`tg`); a thread that ends is gone, a process stays until its parent has waited for it. The
children of a task that ends go to another thread of its group or to a task outside it, and exec in a thread other than the leader gives it the pid and the start time of the dead leader
before the tracepoint of exec fires (`TakeOver`). A throttled fork and a failed allocation are
`ForkSkipped`. The code reads a clock that can be set (`CLOCK_REALTIME`); in the model it only goes
forward. `stale`, `early` and `taken` are history.

Run `proc_cache` (three pids and three tasks ever born: a process, a thread of it that takes over
its pid, and a child, or a pid used twice, the first two of which may be children of pid 0 or 1
(`MaxRoots`); two entries so that the cache is full, two clock values,
a grace of one, one tombstone reaped at a time, one skip; pids are a symmetry set, and no liveness
is checked):

- `TypeOK`: also that table, list and counter agree and a pid has one entry;
- `MarkIsRight`: tombstones are exactly the entries of ended tasks, with two exceptions. Tasks that
  ended before loading was complete: their entries count as alive for good (the comment at
  `ig_lkm_proc_cache.c:601` thinks of forks in that window only). And threads that called exec with
  their leaders: `ig_pc_on_exec` does not use `old_pid`, so that the entry of the leader's pid stays
  a tombstone although a task has it, and the entry of the thread's old pid counts as alive for
  good;
- `ChainIsTrue`: the next entry in a chain is the parent, or a task younger than the child, which a
  reader can tell from the start times; a pid whose fork was skipped may lead to an older task, and
  so may, until its tracepoint fires, that of a thread just made which has inherited children;
- `LeavesForCause`: an entry goes because its pid has a new task, because its task ended a grace
  period ago, or, in a full cache, to make room, and then tombstones first. Exceptions: the exec of
  a skipped task, or in a thread, moves a tombstone to the front; and the clock of the work item was
  read before the task ended, where the unsigned difference `now_ns - exit_time_ns` underflows and
  the fresh tombstone is reaped at once (the comment above the work item promises five minutes).

Also visible: when a tracepoint cannot be registered, `ig_lkm_init` returns without
`ig_proc_cache_exit`, and the entries cached until then stay allocated.

### Console

What the backend does for its console, and `handleFileEvent` of the collector that feeds it.
Requests and agent sessions are goroutines; a step is a critical section or a database call, which
may fail after it took effect. `Setup` reads (`SetupRead`) and stores (`SetPINHash`); `Login` looks
at the lock, reads the hash (`GetPINHash`), compares, and counts (`recordFailure`) or clears
(`resetFailures`). `Publish` holds the read lock of the client map over its sends; `Subscribe` and
`Unsubscribe` need the write lock. Then `detectBurst` and `CreateAlert`. Time is a lock, a token or
an event of the last minute that may end at any moment.

Run `console` (two requests, one agent session with three events, a channel of two events, a
lock-out limit of two, four set-ups or logins). Four wrong logins are one more than limit and
overlap allow; three events overfill the channel of a client that does not read.

- `GuessesBounded`: between two successes or ends of a lock no more wrong PINs are examined than the
  limit and those that were already past `isLocked` when the lock came;
- `PinStays`: a stored PIN is never replaced, unless two set-ups overlapped: both found none, and
  the second replaces the first, whose owner was told that it is set;
- `FeedSound`: nobody sends on a closed channel, and a stream carries stored events, each once and
  those of one session in order, whatever it had to skip. An old and a new session of one agent may
  both be in `handleFileEvent`; nothing orders their events;
- `SessionsGoOn`: a client that reads nothing holds up no agent. Fairness: the goroutine of the
  session runs. Clients need not read.

Also visible: an open stream outlives its token; and a login that was under way when the lock came
and succeeds lifts it at once, although `auth.go:6` promises five minutes ("10회 연속 실패 -> 5분 잠금").

## Proofs

The proofs assume only the named assumptions on the constants, which TLC evaluates in the runs.

- **AgentCoreProofs**, event queue: `IndInv` (types, `RingShape`, `HoldsNewest`,
  `NothingUnaccounted`) is inductive for every ring size. `HoldsNewest` needs `RingShape`: the slot
  a push overwrites is the oldest one only because tail is `count` slots after head. `Refinement`
  maps the ring, read oldest first, to the FIFO: every step of the ring is a step of the FIFO or
  leaves it alone.
- **AgentCoreProofs**, PID lock: until a name is removed, everybody who has the file open has the
  same file, so the runner holds its lock (`MutualExclusion`). Independently, a lock is always owned
  by a running process (`LocksAreOwned`), which gives `CrashNeverBlocks`.
- **EnrollmentProofs**: `ClaimInv` says that a claim has one holder, whose token is not pending and
  carries the holder's id, and that a token that has yielded a certificate is issued or used: hence
  `AtMostOneIssue` and `ClaimsReturn`. `FileInv` orders the writes of the single client of a
  machine (`FilesAreSound`). `CertInv` gives `AtMostOneActive`. `RecordInv` says that
  a certificate with a row was recorded once and a revoked one has a successor; with `ClaimInv` it
  gives `StoredActive` and `RevokedForGood`.

- **TransportProofs**: `RegisterFirst` and `SeqInStep` are not kept by the steps on their own. The
  invariant adds where the threads can be (`Control`: the first registration is over before there is
  a heartbeat thread, and the main thread sends only when there is one) and what both ends know of
  the session (`Session`). The core is `LockInv`: whoever brings a connection up holds `conn_lock`
  until the collector has acknowledged it or it is down again. `NoGapIsMet` draws the conclusion for
  the collector's check of the next number, with the `uint32_t` as any modulus.
- **AgentSessionProofs**: `BoundInv` (a session in the map, with an ACK, or on a label that writes
  the map or sets the row offline has passed the certificate check) holds with overlapping handlers
  too, whatever is sent and read after a close, and gives `RefusedStaysInert`. `Serial`, under
  `~overlap`: one handler is under way at a time, so what it found in the map is there still when it
  acts on it. `Attended`: a row that says online has a session in the map, or one that is between
  the row and the map, unless the history names a cause. They give `SerialIsSound` and
  `OfflineIsLast`. The theorems are of `Spec`, which `FairSpec` implies.
- **EbpfGuardProofs**: first the path cache as a table, for every size and hash: a search visits
  every slot once, finds a key that is there, and put and remove keep the table sound. On these
  lemmas rests `BaseInv`. Three invariants follow on it, each what makes a property inductive.
  `NamedInv`: when the poll thread is about to drop a path of an inode in `policy_map`, that inode
  was registered in between. `StrangerInv` counts the inodes of files that are gone, not only of
  those that have come after them. `KeptInv`: neither thread is about to take a registered file out
  of `policy_map`. `HeldInv`: in lock mode no call on a registered file is past its hook, which is
  what `LockIsKept` needs of the gap between hook and effect.
- **ConsoleProofs**: `GuessInv` bounds the wrong PINs by `failCount` while the console is not locked
  and, once it is, together with the logins in flight, counted as a set of requests: the lock-out
  theorem needs them to be finitely many, which `ConsoleAssumption` says and every server satisfies.
  `SetupInv` gives `PinIsKept`. `Progress` and `Behind` say how far each session and each client has
  come, which is why no client gets an event twice or out of order (`StreamIsSound`).
- **FileGuardProofs**: `NameInv`: the inode number that a call or the injection has in hand belongs
  to no guarded file of another name, although numbers are reused. `EventInv`: a delete event under
  way is of a path in `told`. Hence `BaselineInv`: only a file that was changed and told deleted, or
  that was misread, leaves the baseline, and a delete event of any other has found a match when it
  is applied. Hence `PolicyInv`: during an injection each guarded file is still to come, in hand, or
  in the table. Hence `LateInv`: a call in lock mode still has the refusal before it for every
  guarded file it names. `ConfInv` is the watch list. `GuardAssumption` says of `None` that it is
  none of the values it stands beside.
- **ProcCacheProofs**: first the list, for every list and every set of places: `Sublist` holds the
  entries of those places in their order, so its length is their number. That is proved with the
  rank of a place, which grows by at most one from place to place, and not by induction over the
  list. From it follows what each removal and insertion does to the length, the set of entries,
  their pids and the order (`WithoutList`, `EvictList`, `FrontList`, `BackList`). Then the
  invariant. `TaskInv`: each group has its leader, dead or alive, until its last thread is gone, and
  the parent a process names is there, outside its group, and has the id it names. `IdInv`: an id in
  use is in use under the pid of its entry. `StaleInv`: once fork is past its tracepoint the entry
  of a pid is that of its task, or the pid is stale; `ParentInv`: the parent's pid is in use by the
  parent or by a younger task. With these two `LinkInv`, which is `ChainIsTrue`, is kept when an
  entry is added, as the child and as the parent of a link. They speak of the entries "still to
  come" too: the copy the preload made before it took the lock is older than what has happened
  since, and is inserted only if no fork has put its pid in the cache. `MarkInv` is `MarkIsRight`
  with what is known of that copy. `OrderInv`: behind a tombstone come only tombstones, except for
  stale pids and ids in `taken`; so the last entry, which a full cache gives up, is one if there is
  any (`EntriesLeaveForCause`). That the exec of a task does not break the order needs `StaleInv`
  and `MarkIsRight`.

Only model-checked: liveness (`LoopKeepsUp`, `Recovers`, `StopCompletes`, `LiveIsOnline`,
`ShutsDown`, `SessionsGoOn`, `EventsHandled`). Fairness and ENABLED are out of the prover's reach.
Every safety property of a passing run is a theorem.

## Findings

`transport_gives_up`, `pid_lock_removed` and `file_guard_reload` are runs that show the code doing
something a comment, a log message or an interface description says it does not; `PROJECT.json`
quotes both sides. The paragraphs "also visible" above name further behaviour that the properties
have to except.

## Plan

The modules planned are written, and their safety properties are proved. What is left:

1. Composition of the agent's transport with the collector's sessions; each models the other's side
   of the protocol by the answers it can give.
2. FileGuard: the shutdown of the event thread, and watches that overlap.

## Not modelled

- Parsing of options and the configuration, daemonisation, logging: no protocol.
- Wire encodings, TLS and the enrollment's cryptography: pure functions; the models keep success and
  failure.
- The attachment of hooks to kernel symbols, and the hooks of other kernel versions than `lkm415.c`:
  the same decision in other places of the kernel. Hard links in FileGuard, and a second process
  that uses the device.
- `proc_map` of the eBPF programs and its tracepoints: an LRU map of the kernel with the purpose of
  the LKM's process cache. `pid_ancestry.c` reads `/proc`; its own cache is never used, since
  nothing calls `ig_pa_resolve_cached`.
- `event_loop.c` and `inotify_mon.c`: not used by `main.c`.
- REST decoding, queries and reports, the LLM service, the console and the deployment scripts.
- Generated code: `ebpf/vmlinux.h` (158 685 lines of kernel types) and `ebpf/ig_trace.skel.h` (3 245
  lines of embedded byte code) are more than nine tenths of the C lines of the repository and have
  no behaviour of their own.

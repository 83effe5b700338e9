-------------------------- MODULE FileGuardProofs --------------------------
(***************************************************************************)
(* File protection with the kernel module, for any number of files,        *)
(* programs and calls, any size of the queues and any table left by an     *)
(* earlier run.  The argument goes from names to baseline to policy: the   *)
(* inode number that the kernel or the agent has in hand means one guarded *)
(* file only (NameInv); a delete event is of a file that was told deleted  *)
(* (EventInv), so only such a file leaves the baseline (BaselineInv); an   *)
(* injection starts from the baseline and no one else takes a guarded file *)
(* out of the table (PolicyInv); so a call in lock mode has the refusal of *)
(* each guarded file it names before it (LateInv).                         *)
(***************************************************************************)
EXTENDS FileGuard, TLAPS

(* The calls programs are in.                                              *)
CallOK(c) ==
    /\ c.kind = "idle" => c = Idle
    /\ c.kind # "idle" => c.path \in Paths /\ c.ino \in Inodes
    /\ c.kind = "rename" => c.to \in Paths
    /\ c.kind # "rename" => c.to = None
    /\ c.step # "check" => c.todo # <<>>
    /\ c.step = "forget" => c.kind = "unlink" /\ c.path \in loose

CallInv == \A u \in Users : CallOK(op[u])

(* The name of a file that is not loose is its only one, and the inode     *)
(* number a call or the injection has in hand is of no other such name.    *)
NameInv ==
    /\ \A p \in Paths \ loose, q \in Paths : inode[p] # None /\ inode[q] = inode[p] => p = q
    /\ \A u \in Users : op[u].kind # "idle" =>
           \A p \in Paths \ loose : inode[p] = op[u].ino => p = op[u].path
    /\ pick # None => \A p \in Paths \ loose : inode[p] = pick.ino => p = pick.path
    /\ \A p \in built \ loose : inode[p] # None

(* Events on their way.                                                    *)
Tell(q) == \A n \in DOMAIN q : q[n].op = "DELETE" => q[n].path \in told

EventInv ==
    /\ Tell(fifo) /\ Tell(queue)
    /\ main \in {"check", "apply"} =>
           ev \in Events /\ ev.op # "RENAME" /\ (ev.op = "DELETE" => ev.path \in told)

(* The baseline.                                                           *)
Intact == built \ (written \cup loose)

BaselineInv ==
    /\ \A p \in Intact : baseline[p] = data[inode[p]]
    /\ \A p \in built \ (loose \cup (written \cap told)) : baseline[p] # None
    /\ main = "apply" /\ ev.op = "DELETE" => \A p \in Intact : ev.path = p => res = "MATCH"

(* The policy table.                                                       *)
EntryOf(p) == [mask |-> Ops, block |-> block, path |-> p]

PolicyInv ==
    /\ main \in Settled \cup {"clear"} => \A p \in Guarded : policy[inode[p]] = EntryOf(p)
    /\ main = "inject" =>
           \A p \in Guarded : \/ p \in left
                              \/ pick = [path |-> p, ino |-> inode[p]]
                              \/ policy[inode[p]] = EntryOf(p)
    /\ pick # None => main = "inject"

(* A call has the check of inode i still before it.                        *)
Pending(c, i) ==
    \E n \in DOMAIN c.todo :
        c.todo[n].ino = i /\ (n = 1 => c.step \in {"check", "deny"})

LateInv ==
    /\ main \in {"scan", "inject"} => late = {}
    /\ block = "deny" => \A u \in late : op[u].kind # "idle" =>
           \A p \in {op[u].path, op[u].to} \cap Guarded : Pending(op[u], inode[p])

(* The watch list.                                                         *)
ConfInv ==
    /\ ~reload /\ ~untold => newWatch = conf
    /\ main \in Settled => watch = newWatch

IndInv ==
    /\ TypeOK /\ CallInv /\ NameInv /\ EventInv /\ BaselineInv /\ PolicyInv /\ LateInv
    /\ ConfInv

-----------------------------------------------------------------------------
(* Types.                                                                  *)

(* The flags stay Boolean.                                                 *)
LEMMA FlagsKept ==
    ASSUME Flags, [Next]_vars
    PROVE  Flags'
<1> USE DEF Flags, signals, history, marks
<1>1. ASSUME NEW u \in Users, Program(u) PROVE Flags'
  BY <1>1 DEF Program, Write, Unlink, Rename, Begin, Create, CheckInode, Report, Forget, Effect
<1>2. CASE Reader
  BY <1>2 DEF Reader, ReadEvent, ReadFails
<1>3. CASE Main
  BY <1>3 DEF Main, Running, LoopHead, SendReturns, ScanFile, StatPath, ClearAll, AddInode, Injected, Reload,
              PopEvent, PopTimeout, CheckFile, ApplyEvent
<1>4. CASE Admin
  BY <1>4 DEF Admin, Sighup, EditConf
<1>5. CASE UNCHANGED vars
  BY <1>5 DEF vars
<1> QED
  BY <1>1, <1>2, <1>3, <1>4, <1>5 DEF Next

(* Call and Spend keep within the bounds.                                  *)
LEMMA BoundsKept ==
    ASSUME TypeOK, Call \/ Spend \/ UNCHANGED bounds
    PROVE  calls' \in 0..MaxCalls /\ moves' \in 0..MaxMoves
BY GuardAssumption DEF TypeOK, Call, Spend, bounds

(* Taking the first element of a queue.                                    *)
LEMMA HeadType ==
    ASSUME NEW S, NEW s \in Seq(S), s # <<>>
    PROVE  Head(s) \in S /\ Tail(s) \in Seq(S) /\ Len(Tail(s)) = Len(s) - 1 /\ Len(s) \in Nat \ {0}
OBVIOUS

(* The call of a program after its next check.                             *)
LEMMA NextCheckType ==
    ASSUME NEW c \in Calls, c.todo # <<>>
    PROVE  NextCheck(c) \in Calls
<1>1. Tail(c.todo) \in Seq([ino : Inodes, op : Ops])
  BY DEF Calls
<1> QED
  BY <1>1 DEF NextCheck, Calls

(* A program outside of a call.                                            *)
LEMMA IdleType == Idle \in Calls
<1>1. <<>> \in Seq([ino : Inodes, op : Ops])
  OBVIOUS
<1> QED
  BY <1>1 DEF Idle, Calls

(* What programs keep: a call that begins, ...                             *)
LEMMA BeginTypes ==
    ASSUME TypeOK, NEW u \in Users, NEW kind \in {"write", "unlink", "rename"},
           NEW p \in Paths, NEW q \in Paths \cup {None},
           NEW todo \in Seq([ino : Inodes, op : Ops]), Begin(u, kind, p, q, todo), Flags'
    PROVE  TypeOK'
<1> USE DEF files, agent, signals, marks
<1>1. op' = [op EXCEPT ![u] = [kind |-> kind, path |-> p, to |-> q, ino |-> inode[p],
                               todo |-> todo, step |-> "check"]]
  BY DEF Begin
<1>2. inode[p] \in Inodes
  BY DEF Begin, TypeOK
<1>3. [kind |-> kind, path |-> p, to |-> q, ino |-> inode[p], todo |-> todo,
       step |-> "check"] \in Calls
  BY <1>2 DEF Calls
<1>4. op' \in [Users -> Calls]
  BY <1>1, <1>3 DEF TypeOK
<1>5. late' \subseteq Users
  BY DEF Begin, TypeOK
<1>6. calls' \in 0..MaxCalls /\ moves' \in 0..MaxMoves
  BY BoundsKept DEF Begin
<1> QED
  BY <1>4, <1>5, <1>6 DEF Begin, TypeOK

(* ... the three calls that pass hooks, ...                                *)
LEMMA CallTypes ==
    ASSUME TypeOK, NEW u \in Users, Flags',
           \/ \E p \in Paths : Write(u, p) \/ Unlink(u, p)
           \/ \E p, q \in Paths : Rename(u, p, q)
    PROVE  TypeOK'
<1>1. ASSUME NEW p \in Paths, NEW q \in Paths, inode[p] # None
      PROVE  /\ <<[ino |-> inode[p], op |-> "WRITE"]>> \in Seq([ino : Inodes, op : Ops])
             /\ <<[ino |-> inode[p], op |-> "DELETE"]>> \in Seq([ino : Inodes, op : Ops])
             /\ <<[ino |-> inode[p], op |-> "RENAME"]>> \o
                 (IF inode[q] = None THEN <<>> ELSE <<[ino |-> inode[q], op |-> "RENAME"]>>)
                   \in Seq([ino : Inodes, op : Ops])
  <2>1. \A x \in Paths : inode[x] # None => inode[x] \in Inodes
    BY DEF TypeOK
  <2>2. \A x \in Paths, o \in Ops : inode[x] # None => [ino |-> inode[x], op |-> o] \in [ino : Inodes, op : Ops]
    BY <2>1
  <2>3. "WRITE" \in Ops /\ "DELETE" \in Ops /\ "RENAME" \in Ops
    BY DEF Ops
  <2> HIDE DEF Ops
  <2>4. CASE inode[q] = None
    BY <1>1, <2>2, <2>3, <2>4
  <2>5. CASE inode[q] # None
    BY <1>1, <2>2, <2>3, <2>5
  <2> QED
    BY <2>4, <2>5
<1>2. ASSUME NEW p \in Paths, Write(u, p) PROVE TypeOK'
  <2>1. inode[p] # None
    BY <1>2 DEF Write, Begin
  <2> QED
    BY <1>1, <1>2, <2>1, BeginTypes DEF Write
<1>3. ASSUME NEW p \in Paths, Unlink(u, p) PROVE TypeOK'
  <2>1. inode[p] # None
    BY <1>3 DEF Unlink, Begin
  <2> QED
    BY <1>1, <1>3, <2>1, BeginTypes DEF Unlink
<1>4. ASSUME NEW p \in Paths, NEW q \in Paths, Rename(u, p, q) PROVE TypeOK'
  <2>1. inode[p] # None
    BY <1>4 DEF Rename, Begin
  <2> QED
    BY <1>1, <1>4, <2>1, BeginTypes DEF Rename
<1> QED
  BY <1>2, <1>3, <1>4

(* ... the file it makes, ...                                              *)
LEMMA CreateTypes ==
    ASSUME TypeOK, NEW u \in Users, NEW p \in Paths, Create(u, p), Flags'
    PROVE  TypeOK'
<1> USE DEF agent, signals
<1>1. inode' \in [Paths -> Inodes \cup {None}] /\ data' \in [Inodes -> Contents]
  BY DEF Create, TypeOK
<1>2. loose' \subseteq Paths
  BY DEF Create, TypeOK
<1>3. calls' \in 0..MaxCalls /\ moves' \in 0..MaxMoves
  BY BoundsKept DEF Create
<1> QED
  BY <1>1, <1>2, <1>3 DEF Create, TypeOK

(* ... the verdict of the hook, ...                                        *)
LEMMA CheckTypes ==
    ASSUME TypeOK, NEW u \in Users, CheckInode(u), Flags'
    PROVE  TypeOK'
<1> USE DEF files, agent, signals, bounds, history, marks
<1> DEFINE c == Head(op[u].todo)
           verdict == Lookup(c.ino, c.op)
<1>1. op[u] \in Calls /\ op[u].todo # <<>> /\ op[u].todo \in Seq([ino : Inodes, op : Ops])
  BY DEF CheckInode, TypeOK, Calls
<1>2. c \in [ino : Inodes, op : Ops]
  BY <1>1, HeadType
<1>3. verdict \in {"deny", "audit", None}
  <2>1. policy[c.ino] \in Entries \cup {None}
    BY <1>2 DEF TypeOK
  <2> QED
    BY <2>1 DEF Lookup, Entries
<1>4. op' = [op EXCEPT ![u] = IF verdict = None THEN NextCheck(op[u])
                                               ELSE [op[u] EXCEPT !.step = verdict]]
  BY DEF CheckInode, TypeOK
<1> HIDE DEF c, verdict
<1>5. NextCheck(op[u]) \in Calls
  BY <1>1, NextCheckType
<1>6. verdict # None => [op[u] EXCEPT !.step = verdict] \in Calls
  BY <1>1, <1>3 DEF Calls
<1>7. op' \in [Users -> Calls]
  BY <1>4, <1>5, <1>6 DEF TypeOK
<1> QED
  BY <1>7 DEF CheckInode, TypeOK

(* ... its event, ...                                                      *)
LEMMA EnqueuedType ==
    ASSUME TypeOK, NEW c \in Calls, c.todo # <<>>
    PROVE  Enqueued(c) \in Seq(Events) /\ Len(Enqueued(c)) <= FifoSize
<1>1. c.todo \in Seq([ino : Inodes, op : Ops])
  BY DEF Calls
<1>2. Head(c.todo) \in [ino : Inodes, op : Ops]
  BY <1>1, HeadType
<1> DEFINE i == Head(c.todo).ino
           e == [op |-> Head(c.todo).op, blocked |-> c.step = "deny",
                 path |-> IF policy[i] = None THEN None ELSE policy[i].path]
<1>3. i \in Inodes /\ Head(c.todo).op \in Ops
  BY <1>2
<1>4. (IF policy[i] = None THEN None ELSE policy[i].path) \in Paths \cup {None}
  <2>1. policy[i] \in Entries \cup {None}
    BY <1>3 DEF TypeOK
  <2> QED
    BY <2>1 DEF Entries
<1>5. (c.step = "deny") \in BOOLEAN
  OBVIOUS
<1>6. e \in Events
  BY <1>3, <1>4, <1>5, Zenon DEF Events
<1>7. Enqueued(c) = IF Len(fifo) < FifoSize THEN Append(fifo, e) ELSE fifo
  BY DEF Enqueued
<1> HIDE DEF e, i
<1>8. FifoSize \in Nat
  BY GuardAssumption
<1> QED
  BY <1>6, <1>7, <1>8 DEF TypeOK

(* ... a report, ...                                                       *)
LEMMA ReportTypes ==
    ASSUME TypeOK, CallInv, NEW u \in Users, Report(u), Flags'
    PROVE  TypeOK'
<1> USE DEF files, agent, signals
<1>1. op[u] \in Calls /\ op[u].step \in {"deny", "audit"}
  BY DEF Report, TypeOK
<1>2. op[u].todo # <<>> /\ op[u].path \in Paths
  BY <1>1 DEF CallInv, CallOK, Idle
<1>3. fifo' \in Seq(Events) /\ Len(fifo') <= FifoSize
  <2>1. fifo' = fifo \/ fifo' = Enqueued(op[u])
    BY DEF Report
  <2> QED
    BY <1>1, <1>2, <2>1, EnqueuedType DEF TypeOK
<1>4. op' \in [Users -> Calls]
  <2>1. \/ op' = [op EXCEPT ![u] = Idle]
        \/ op' = [op EXCEPT ![u] = [op[u] EXCEPT !.step = "forget"]]
        \/ op' = [op EXCEPT ![u] = NextCheck(op[u])]
    BY DEF Report, TypeOK
  <2>2. [op[u] EXCEPT !.step = "forget"] \in Calls
    BY <1>1 DEF Calls
  <2>3. NextCheck(op[u]) \in Calls
    BY <1>1, <1>2, NextCheckType
  <2> QED
    BY <2>1, <2>2, <2>3, IdleType DEF TypeOK
<1>5. loose' \subseteq Paths
  BY <1>2 DEF Report, TypeOK
<1>6. told' \subseteq Paths \cup {None}
  <2>1. \A n \in DOMAIN fifo' : fifo'[n] \in Events
    BY <1>3
  <2>2. \A n \in DOMAIN fifo' : fifo'[n].path \in Paths \cup {None}
    BY <2>1 DEF Events
  <2>3. told' = told \cup {fifo'[n].path : n \in {m \in DOMAIN fifo' : fifo'[m].op = "DELETE"}}
    BY DEF Report
  <2> QED
    BY <2>2, <2>3 DEF TypeOK
<1>7. calls' \in 0..MaxCalls /\ moves' \in 0..MaxMoves
  BY BoundsKept DEF Report
<1> QED
  BY <1>3, <1>4, <1>5, <1>6, <1>7 DEF Report, TypeOK

(* ... and what it does when the hooks have let it through.                *)
LEMMA ForgetTypes ==
    ASSUME TypeOK, CallInv, NEW u \in Users, Forget(u), Flags'
    PROVE  TypeOK'
<1> USE DEF files, agent, signals, bounds, history, marks
<1>1. op[u] \in Calls /\ op[u].todo # <<>>
  BY DEF Forget, TypeOK, CallInv, CallOK
<1>2. op' = [op EXCEPT ![u] = NextCheck(op[u])] /\ NextCheck(op[u]) \in Calls
  BY <1>1, NextCheckType DEF Forget, TypeOK
<1>3. op' \in [Users -> Calls]
  BY <1>2 DEF TypeOK
<1>4. policy' \in [Inodes -> Entries \cup {None}]
  BY DEF Forget, TypeOK
<1> QED
  BY <1>3, <1>4 DEF Forget, TypeOK

(* ... and a call that takes effect.                                       *)
LEMMA EffectTypes ==
    ASSUME TypeOK, CallInv, NEW u \in Users, Effect(u), Flags'
    PROVE  TypeOK'
<1> USE DEF files, agent, signals
<1> DEFINE c == op[u]
<1>1. c \in Calls /\ c.path \in Paths /\ c.ino \in Inodes
  BY DEF Effect, TypeOK, CallInv, CallOK
<1>2. op' \in [Users -> Calls]
  BY IdleType DEF Effect, TypeOK
<1>3. data' \in [Inodes -> Contents]
  BY <1>1 DEF Effect, TypeOK
<1>4. inode' \in [Paths -> Inodes \cup {None}]
  BY <1>1 DEF Effect, TypeOK, CallInv, CallOK
<1>5. loose' \subseteq Paths
  BY <1>1 DEF Effect, TypeOK, CallInv, CallOK
<1>6. written' \subseteq Paths
  BY DEF Effect, TypeOK
<1>7. calls' \in 0..MaxCalls /\ moves' \in 0..MaxMoves
  BY BoundsKept DEF Effect
<1> QED
  BY <1>2, <1>3, <1>4, <1>5, <1>6, <1>7 DEF Effect, TypeOK

(* The agent's event thread.                                               *)
LEMMA ReaderTypes ==
    ASSUME TypeOK, Reader, Flags'
    PROVE  TypeOK'
<1> USE DEF files, agent, signals, history, marks
<1>1. CASE ReadEvent
  <2>1. /\ fifo \in Seq(Events) /\ fifo # <<>> /\ Len(fifo) <= FifoSize
        /\ queue \in Seq(Events) /\ Len(queue) <= QueueSize
        /\ QueueSize \in Nat \ {0} /\ FifoSize \in Nat
    BY <1>1, GuardAssumption DEF ReadEvent, TypeOK
  <2>2. /\ Head(fifo) \in Events /\ Tail(fifo) \in Seq(Events)
        /\ Len(Tail(fifo)) <= FifoSize
    BY <2>1, HeadType
  <2>3. Len(queue) = QueueSize => Tail(queue) \in Seq(Events) /\ Len(Tail(queue)) = Len(queue) - 1
    BY <2>1
  <2>4. /\ Append(queue, Head(fifo)) \in Seq(Events)
        /\ Len(queue) # QueueSize => Len(Append(queue, Head(fifo))) <= QueueSize
    BY <2>1, <2>2
  <2>5. Len(queue) = QueueSize =>
           /\ Append(Tail(queue), Head(fifo)) \in Seq(Events)
           /\ Len(Append(Tail(queue), Head(fifo))) <= QueueSize
    BY <2>1, <2>2, <2>3
  <2>6. queue' \in Seq(Events) /\ Len(queue') <= QueueSize
    BY <1>1, <2>4, <2>5 DEF ReadEvent
  <2> QED
    BY <1>1, <2>2, <2>6 DEF ReadEvent, TypeOK, bounds
<1>2. CASE ReadFails
  <2>1. calls' \in 0..MaxCalls /\ moves' \in 0..MaxMoves
    BY <1>2, BoundsKept DEF ReadFails
  <2> QED
    BY <1>2, <2>1 DEF ReadFails, TypeOK
<1> QED
  BY <1>1, <1>2 DEF Reader

(* The administrator.                                                      *)
LEMMA AdminTypes ==
    ASSUME TypeOK, Admin, Flags'
    PROVE  TypeOK'
<1> USE DEF files, agent, marks
<1>1. calls' \in 0..MaxCalls /\ moves' \in 0..MaxMoves
  BY BoundsKept DEF Admin, Sighup, EditConf
<1>2. conf' \subseteq Paths
  BY GuardAssumption DEF Admin, Sighup, EditConf, TypeOK
<1> QED
  BY <1>1, <1>2 DEF Admin, Sighup, EditConf, TypeOK

(* The hash of a file, and the baseline with it.                           *)
LEMMA HashType ==
    ASSUME TypeOK, NEW p
    PROVE  Hash(p) \in Contents \cup {None} /\ (p \notin Paths => Hash(p) = None)
BY DEF Hash, TypeOK

(* The main thread keeps the types.                                        *)
LEMMA MainTypes ==
    ASSUME TypeOK, EventInv, Main, Flags'
    PROVE  TypeOK'
<1> USE DEF files, bounds, history, marks, signals
<1>1. ASSUME NEW p \in Paths, ScanFile(p) PROVE TypeOK'
  <2>1. calls' \in 0..MaxCalls /\ moves' \in 0..MaxMoves
    BY <1>1, BoundsKept DEF ScanFile
  <2>2. baseline' \in [Paths -> Contents \cup {None}]
    BY <1>1, HashType DEF ScanFile, Misread, TypeOK
  <2>3. built' \subseteq Paths /\ loose' \subseteq Paths /\ left' \subseteq Paths
    BY <1>1 DEF ScanFile, TypeOK
  <2> QED
    BY <1>1, <2>1, <2>2, <2>3 DEF ScanFile, TypeOK
<1>2. ASSUME NEW p \in Paths, StatPath(p) PROVE TypeOK'
  <2>1. pick' \in [path : Paths, ino : Inodes] \cup {None}
    BY <1>2 DEF StatPath, TypeOK
  <2> QED
    BY <1>2, <2>1 DEF StatPath, TypeOK
<1>3. CASE ClearAll
  BY <1>3 DEF ClearAll, TypeOK
<1>4. CASE AddInode
  <2>1. calls' \in 0..MaxCalls /\ moves' \in 0..MaxMoves
    BY <1>4, BoundsKept DEF AddInode
  <2>2. pick \in [path : Paths, ino : Inodes]
    BY <1>4 DEF AddInode, TypeOK
  <2>3. [mask |-> Ops, block |-> block, path |-> pick.path] \in Entries
    BY <2>2 DEF TypeOK, Entries
  <2>4. policy' \in [Inodes -> Entries \cup {None}]
    BY <1>4, <2>3 DEF AddInode, TypeOK
  <2>5. missed' \subseteq Paths
    BY <1>4, <2>2 DEF AddInode, TypeOK
  <2> QED
    BY <1>4, <2>1, <2>4, <2>5 DEF AddInode, TypeOK
<1>5. CASE Injected
  <2>1. calls' \in 0..MaxCalls /\ moves' \in 0..MaxMoves
    BY <1>5, BoundsKept DEF Injected
  <2> QED
    BY <1>5, <2>1 DEF Injected, LoopHead, TypeOK, Settled
<1>6. CASE Reload
  <2>1. calls' \in 0..MaxCalls /\ moves' \in 0..MaxMoves
    BY <1>6, BoundsKept DEF Reload
  <2> QED
    BY <1>6, <2>1 DEF Reload, TypeOK, Settled
<1>7. CASE PopTimeout
  BY <1>7 DEF PopTimeout, LoopHead, TypeOK, Settled
<1>8. CASE PopEvent
  <2>1. queue \in Seq(Events) /\ queue # <<>> /\ Len(queue) <= QueueSize /\ QueueSize \in Nat
    BY <1>8, GuardAssumption DEF PopEvent, TypeOK
  <2>2. Head(queue) \in Events /\ Tail(queue) \in Seq(Events) /\ Len(Tail(queue)) <= QueueSize
    BY <2>1, HeadType
  <2> QED
    BY <1>8, <2>2 DEF PopEvent, TypeOK, Settled
<1>9. CASE CheckFile
  <2>1. res' \in {"MATCH", "MISMATCH", "NEW", "ERROR", None}
    BY <1>9 DEF CheckFile, Integrity
  <2>2. calls' \in 0..MaxCalls /\ moves' \in 0..MaxMoves
    BY <1>9, BoundsKept DEF CheckFile
  <2>3. loose' \subseteq Paths
    BY <1>9 DEF CheckFile, Hash, TypeOK
  <2> QED
    BY <1>9, <2>1, <2>2, <2>3 DEF CheckFile, TypeOK, Settled
<1>10. CASE ApplyEvent
  <2>1. ev.path \in Paths \cup {None}
    BY <1>10 DEF ApplyEvent, EventInv, Events
  <2>2. baseline' \in [Paths -> Contents \cup {None}]
    <3>1. \E h \in Contents \cup {None} :
             baseline' = IF ev.op = "WRITE" THEN Updated(ev.path, h) ELSE Removed(ev.path)
      BY <1>10, HashType DEF ApplyEvent, Misread
    <3> QED
      BY <2>1, <3>1 DEF Updated, Removed, TypeOK
  <2>3. calls' \in 0..MaxCalls /\ moves' \in 0..MaxMoves
    BY <1>10, BoundsKept DEF ApplyEvent
  <2>4. loose' \subseteq Paths
    BY <1>10 DEF ApplyEvent, Hash, TypeOK
  <2> QED
    BY <1>10, <2>2, <2>3, <2>4 DEF ApplyEvent, TypeOK, Settled
<1>11. CASE SendReturns
  BY <1>11 DEF SendReturns, LoopHead, TypeOK, Settled
<1> QED
  BY <1>1, <1>2, <1>3, <1>4, <1>5, <1>6, <1>7, <1>8, <1>9, <1>10, <1>11 DEF Main, Running

(* Every step keeps the types.                                             *)
LEMMA TypeKept ==
    ASSUME TypeOK, CallInv, EventInv, [Next]_vars
    PROVE  TypeOK'
<1>1. Flags'
  BY FlagsKept DEF TypeOK
<1>2. ASSUME NEW u \in Users, Program(u) PROVE TypeOK'
  BY <1>1, <1>2, CallTypes, CreateTypes, CheckTypes, ReportTypes, ForgetTypes, EffectTypes
     DEF Program
<1>3. CASE Reader \/ Main \/ Admin
  BY <1>1, <1>3, ReaderTypes, MainTypes, AdminTypes
<1>4. CASE UNCHANGED vars
  BY <1>1, <1>4 DEF vars, TypeOK, files, agent, signals, bounds, history, marks
<1> QED
  BY <1>2, <1>3, <1>4 DEF Next

-----------------------------------------------------------------------------
(* Calls.                                                                  *)

(* What a step does to the call of a program that takes no part in it.     *)
LEMMA OthersCalls ==
    ASSUME TypeOK, NEW u \in Users, Program(u), NEW v \in Users, v # u
    PROVE  op'[v] = op[v]
BY DEF Program, Write, Unlink, Rename, Begin, Create, CheckInode, Report, Forget, Effect, TypeOK

(* The agent and the administrator change no file and no call.             *)
LEMMA AgentCalls ==
    ASSUME Reader \/ Main \/ Admin \/ UNCHANGED vars
    PROVE  op' = op /\ UNCHANGED files /\ loose \subseteq loose'
<1> USE DEF files, history, marks
<1>1. CASE Main
  BY <1>1 DEF Main, Running, LoopHead, SendReturns, ScanFile, StatPath, ClearAll, AddInode, Injected, Reload,
              PopEvent, PopTimeout, CheckFile, ApplyEvent
<1> QED
  BY <1>1 DEF Reader, ReadEvent, ReadFails, Admin, Sighup, EditConf, vars

(* What is loose stays so.                                                 *)
LEMMA LooseGrows ==
    ASSUME [Next]_vars
    PROVE  loose \subseteq loose'
<1>1. ASSUME NEW u \in Users, Program(u) PROVE loose \subseteq loose'
  BY <1>1 DEF Program, Write, Unlink, Rename, Begin, Create, CheckInode, Report, Forget,
              Effect, history, marks
<1> QED
  BY <1>1, AgentCalls DEF Next

(* Every step keeps the calls in shape.                                    *)
LEMMA CallKept ==
    ASSUME TypeOK, CallInv, [Next]_vars
    PROVE  CallInv'
<1>1. loose \subseteq loose'
  BY LooseGrows
<1>2. ASSUME NEW v \in Users, op'[v] = op[v] PROVE CallOK(op[v])'
  BY <1>1, <1>2 DEF CallInv, CallOK, Idle
<1>3. ASSUME NEW u \in Users, Program(u) PROVE CallOK(op[u])'
  <2>1. op[u] \in Calls /\ CallOK(op[u])
    BY DEF TypeOK, CallInv
  <2>2. ASSUME NEW kind \in {"write", "unlink", "rename"}, NEW p \in Paths,
               NEW q \in Paths \cup {None}, NEW todo, Begin(u, kind, p, q, todo),
               kind = "rename" <=> q # None
        PROVE  CallOK(op[u])'
    <3>1. op'[u] = [kind |-> kind, path |-> p, to |-> q, ino |-> inode[p],
                    todo |-> todo, step |-> "check"]
      BY <2>2 DEF Begin, TypeOK
    <3>2. inode[p] \in Inodes
      BY <2>2 DEF Begin, TypeOK
    <3>3. /\ op'[u].kind = kind /\ op'[u].path = p /\ op'[u].to = q
          /\ op'[u].ino = inode[p] /\ op'[u].step = "check"
      BY <3>1
    <3> QED
      BY <2>2, <3>2, <3>3 DEF CallOK
  <2>3. None \notin Paths
    BY GuardAssumption
  <2>4. CASE \E p \in Paths : Write(u, p) \/ Unlink(u, p)
    BY <2>2, <2>3, <2>4 DEF Write, Unlink
  <2>5. CASE \E p, q \in Paths : Rename(u, p, q)
    BY <2>2, <2>3, <2>5 DEF Rename
  <2>6. CASE \E p \in Paths : Create(u, p)
    BY <1>2, <2>6 DEF Create
  <2>7. ASSUME op[u].todo # <<>>, op'[u] = NextCheck(op[u]) PROVE CallOK(op[u])'
    <3>1. /\ op'[u].kind = op[u].kind /\ op'[u].path = op[u].path /\ op'[u].to = op[u].to
          /\ op'[u].ino = op[u].ino /\ op'[u].step = "check"
      BY <2>1, <2>7 DEF NextCheck, Calls
    <3>2. op[u].kind # "idle"
      BY <2>1, <2>7 DEF CallOK, Idle
    <3> QED
      BY <2>1, <3>1, <3>2 DEF CallOK
  <2>8. ASSUME NEW s \in {"deny", "audit", "forget"}, op[u].todo # <<>>,
               op'[u] = [op[u] EXCEPT !.step = s],
               s = "forget" => op[u].kind = "unlink" /\ op[u].path \in loose'
        PROVE  CallOK(op[u])'
    <3>1. /\ op'[u].kind = op[u].kind /\ op'[u].path = op[u].path /\ op'[u].to = op[u].to
          /\ op'[u].ino = op[u].ino /\ op'[u].step = s /\ op'[u].todo = op[u].todo
      BY <2>1, <2>8 DEF Calls
    <3>2. op[u].kind # "idle"
      BY <2>1, <2>8 DEF CallOK, Idle
    <3> QED
      BY <2>1, <2>8, <3>1, <3>2 DEF CallOK
  <2>9. ASSUME op'[u] = Idle PROVE CallOK(op[u])'
    BY <2>9 DEF CallOK, Idle
  <2>10. CASE CheckInode(u)
    <3> DEFINE verdict == Lookup(Head(op[u].todo).ino, Head(op[u].todo).op)
    <3>1. /\ op[u].todo # <<>>
          /\ op'[u] = IF verdict = None THEN NextCheck(op[u]) ELSE [op[u] EXCEPT !.step = verdict]
      BY <2>10 DEF CheckInode, TypeOK
    <3>2. verdict \in {"deny", "audit", None}
      <4>1. op[u].todo \in Seq([ino : Inodes, op : Ops])
        BY <2>1 DEF Calls
      <4>2. Head(op[u].todo) \in [ino : Inodes, op : Ops]
        BY <3>1, <4>1, HeadType
      <4>3. policy[Head(op[u].todo).ino] \in Entries \cup {None}
        BY <4>2 DEF TypeOK
      <4> QED
        BY <4>3 DEF Lookup, Entries
    <3> HIDE DEF verdict
    <3> QED
      BY <2>7, <2>8, <3>1, <3>2
  <2>11. CASE Report(u)
    <3>1. op[u].step \in {"deny", "audit"} /\ op[u].todo # <<>>
      BY <2>1, <2>11 DEF Report, CallOK
    <3>2. \/ op'[u] = Idle
          \/ op'[u] = NextCheck(op[u])
          \/ /\ op[u].kind = "unlink" /\ op[u].path \in loose'
             /\ op'[u] = [op[u] EXCEPT !.step = "forget"]
      BY <2>11 DEF Report, TypeOK
    <3> QED
      BY <2>7, <2>8, <2>9, <3>1, <3>2
  <2>12. CASE Forget(u)
    <3>1. op[u].todo # <<>> /\ op'[u] = NextCheck(op[u])
      BY <2>1, <2>12 DEF Forget, CallOK, TypeOK
    <3> QED
      BY <2>7, <3>1
  <2>13. CASE Effect(u)
    <3>1. op'[u] = Idle
      BY <2>13 DEF Effect, TypeOK
    <3> QED
      BY <2>9, <3>1
  <2> QED
    BY <1>3, <2>4, <2>5, <2>6, <2>10, <2>11, <2>12, <2>13 DEF Program
<1>4. ASSUME NEW u \in Users, Program(u) PROVE CallInv'
  BY <1>2, <1>3, <1>4, OthersCalls DEF CallInv
<1>5. ASSUME Reader \/ Main \/ Admin \/ UNCHANGED vars PROVE CallInv'
  BY <1>2, <1>5, AgentCalls DEF CallInv
<1> QED
  BY <1>4, <1>5 DEF Next

-----------------------------------------------------------------------------
(* Names.                                                                  *)

(* What a program's step makes of its call.                                *)
LEMMA CallStays ==
    ASSUME TypeOK, CallInv, NEW u \in Users, Program(u)
    PROVE  \/ op'[u] = Idle
           \/ /\ op[u].kind # "idle" /\ op'[u].kind = op[u].kind
              /\ op'[u].path = op[u].path /\ op'[u].to = op[u].to /\ op'[u].ino = op[u].ino
           \/ /\ op'[u].path \in Paths /\ op'[u].ino = inode[op'[u].path] /\ inode[op'[u].path] # None
              /\ UNCHANGED <<files, loose>>
<1>1. op[u] \in Calls /\ CallOK(op[u])
  BY DEF TypeOK, CallInv
<1>2. ASSUME NEW kind, NEW p \in Paths, NEW q, NEW todo, Begin(u, kind, p, q, todo)
      PROVE  /\ op'[u].path \in Paths /\ op'[u].ino = inode[op'[u].path] /\ inode[op'[u].path] # None
             /\ UNCHANGED <<files, loose>>
  <2>1. op'[u] = [kind |-> kind, path |-> p, to |-> q, ino |-> inode[p],
                  todo |-> todo, step |-> "check"]
    BY <1>2 DEF Begin, TypeOK
  <2>2. op'[u].path = p /\ op'[u].ino = inode[p]
    BY <2>1
  <2> QED
    BY <1>2, <2>2 DEF Begin, marks
<1>3. ASSUME NEW s, op[u].todo # <<>>,
             op'[u] = NextCheck(op[u]) \/ op'[u] = [op[u] EXCEPT !.step = s]
      PROVE  /\ op[u].kind # "idle" /\ op'[u].kind = op[u].kind
             /\ op'[u].path = op[u].path /\ op'[u].to = op[u].to /\ op'[u].ino = op[u].ino
  <2>1. op[u].kind # "idle"
    BY <1>1, <1>3 DEF CallOK, Idle
  <2>2. CASE op'[u] = NextCheck(op[u])
    BY <1>1, <2>1, <2>2 DEF NextCheck, Calls
  <2>3. CASE op'[u] = [op[u] EXCEPT !.step = s]
    BY <1>1, <2>1, <2>3 DEF Calls
  <2> QED
    BY <1>3, <2>2, <2>3
<1>4. CASE CheckInode(u)
  <2>1. /\ op[u].todo # <<>>
        /\ \/ op'[u] = NextCheck(op[u])
           \/ op'[u] = [op[u] EXCEPT !.step = Lookup(Head(op[u].todo).ino, Head(op[u].todo).op)]
    BY <1>4 DEF CheckInode, TypeOK
  <2> QED
    BY <1>3, <2>1
<1>5. CASE Report(u)
  <2>1. /\ op[u].todo # <<>>
        /\ op'[u] = Idle \/ op'[u] = NextCheck(op[u]) \/ op'[u] = [op[u] EXCEPT !.step = "forget"]
    BY <1>1, <1>5 DEF Report, CallOK, TypeOK
  <2> QED
    BY <1>3, <2>1
<1>6. CASE Forget(u)
  <2>1. op[u].todo # <<>> /\ op'[u] = NextCheck(op[u])
    BY <1>1, <1>6 DEF Forget, CallOK, TypeOK
  <2> QED
    BY <1>3, <2>1
<1>7. CASE Effect(u)
  BY <1>7 DEF Effect, TypeOK
<1>8. CASE \E p \in Paths : Create(u, p)
  BY <1>1, <1>8 DEF Create
<1> QED
  BY <1>2, <1>4, <1>5, <1>6, <1>7, <1>8 DEF Program, Write, Unlink, Rename

(* A name that a step changes is loose after it, and the number it gets is *)
(* of the file the step moves, or of none.                                 *)
LEMMA NamesStay ==
    ASSUME TypeOK, CallInv, [Next]_vars, NEW p \in Paths
    PROVE  \/ inode'[p] = inode[p]
           \/ /\ p \in loose'
              /\ \/ inode'[p] = None
                 \/ \A q \in Paths : inode[q] # inode'[p]
                 \/ \E u \in Users : /\ op[u].kind # "idle" /\ inode'[p] = op[u].ino
                                     /\ op[u].path \in loose'
<1> USE DEF files
<1>1. ASSUME NEW u \in Users, NEW x \in Paths, Create(u, x), inode'[p] # inode[p]
      PROVE  p \in loose' /\ \A q \in Paths : inode[q] # inode'[p]
  <2>1. PICK i \in Inodes : Free(i) /\ inode' = [inode EXCEPT ![x] = i]
    BY <1>1 DEF Create
  <2>2. p = x /\ inode'[p] = i
    BY <1>1, <2>1 DEF TypeOK
  <2> QED
    BY <1>1, <2>1, <2>2 DEF Create, Free
<1>2. ASSUME NEW u \in Users, Effect(u), inode'[p] # inode[p]
      PROVE  /\ p \in loose'
             /\ \/ inode'[p] = None
                \/ /\ op[u].kind # "idle" /\ inode'[p] = op[u].ino /\ op[u].path \in loose'
  <2>1. op[u].path \in Paths
    BY <1>2 DEF Effect, CallInv, CallOK
  <2>2. CASE /\ inode' = [inode EXCEPT ![op[u].path] = None]
             /\ loose' = loose \cup {op[u].path}
    BY <1>2, <2>1, <2>2 DEF TypeOK
  <2>3. CASE /\ inode' = [inode EXCEPT ![op[u].to] = op[u].ino, ![op[u].path] = None]
             /\ loose' = loose \cup {op[u].path, op[u].to}
    <3>1. op[u].kind # "idle"
      BY <1>2 DEF Effect
    <3> QED
      BY <1>2, <2>1, <2>3, <3>1 DEF TypeOK
  <2>4. CASE inode' = inode
    BY <1>2, <2>4
  <2> QED
    BY <1>2, <2>2, <2>3, <2>4 DEF Effect
<1>3. ASSUME NEW u \in Users, \/ \E x \in Paths : Write(u, x) \/ Unlink(u, x)
                              \/ \E x, y \in Paths : Rename(u, x, y)
                              \/ CheckInode(u) \/ Report(u) \/ Forget(u)
      PROVE  inode' = inode
  BY <1>3 DEF Write, Unlink, Rename, Begin, CheckInode, Report, Forget
<1>4. CASE Reader \/ Main \/ Admin \/ UNCHANGED vars
  BY <1>4, AgentCalls
<1> QED
  BY <1>1, <1>2, <1>3, <1>4 DEF Next, Program

(* Every step keeps the names: a new name, an old one taken away and a     *)
(* rename make theirs loose, and a new file gets a number that nobody      *)
(* uses.                                                                   *)
LEMMA NameKept ==
    ASSUME TypeOK, CallInv, NameInv, [Next]_vars
    PROVE  NameInv'
<1>1. ASSUME NEW p \in Paths \ loose' PROVE inode'[p] = inode[p] /\ p \in Paths \ loose
  BY <1>1, NamesStay, LooseGrows
<1>2. ASSUME NEW p \in Paths \ loose', NEW q \in Paths, inode'[p] # None, inode'[q] = inode'[p]
      PROVE  p = q
  <2>1. inode'[p] = inode[p] /\ p \in Paths \ loose
    BY <1>1
  <2>2. CASE inode'[q] = inode[q]
    BY <1>2, <2>1, <2>2 DEF NameInv
  <2>3. ASSUME NEW u \in Users, op[u].kind # "idle", inode'[q] = op[u].ino, op[u].path \in loose'
        PROVE  FALSE
    BY <1>2, <2>1, <2>3 DEF NameInv
  <2> QED
    BY <1>2, <2>1, <2>2, <2>3, NamesStay
<1>3. ASSUME NEW u \in Users, op'[u].kind # "idle", NEW p \in Paths \ loose',
             inode'[p] = op'[u].ino
      PROVE  p = op'[u].path
  <2>1. inode'[p] = inode[p] /\ p \in Paths \ loose
    BY <1>1
  <2>2. CASE op'[u] = op[u]
    BY <1>3, <2>1, <2>2 DEF NameInv
  <2>3. CASE Program(u)
    <3>1. op'[u] # Idle
      BY <1>3 DEF Idle
    <3>2. CASE op[u].kind # "idle" /\ op'[u].path = op[u].path /\ op'[u].ino = op[u].ino
      BY <1>3, <2>1, <3>2 DEF NameInv
    <3>3. CASE op'[u].path \in Paths /\ op'[u].ino = inode[op'[u].path] /\ inode[op'[u].path] # None
      BY <1>3, <2>1, <3>3 DEF NameInv
    <3> QED
      BY <2>3, <3>1, <3>2, <3>3, CallStays
  <2> QED
    BY <2>2, <2>3, OthersCalls, AgentCalls DEF Next
<1>4. ASSUME pick' # None, NEW p \in Paths \ loose', inode'[p] = pick'.ino
      PROVE  p = pick'.path
  <2>1. inode'[p] = inode[p] /\ p \in Paths \ loose
    BY <1>1
  <2>2. CASE pick' = pick
    BY <1>4, <2>1, <2>2 DEF NameInv
  <2>3. ASSUME NEW x \in Paths, StatPath(x) PROVE p = pick'.path
    <3>1. pick' = [path |-> x, ino |-> inode[x]] /\ inode[x] # None
      BY <1>4, <2>3 DEF StatPath
    <3> QED
      BY <1>4, <2>1, <3>1 DEF NameInv
  <2>4. CASE AddInode
    BY <1>4, <2>4 DEF AddInode
  <2>5. ASSUME NEW u \in Users, Program(u) PROVE pick' = pick
    BY <2>5 DEF Program, Write, Unlink, Rename, Begin, Create, CheckInode, Report, Forget,
                Effect, agent
  <2>6. ASSUME Main, \A x \in Paths : ~StatPath(x), ~AddInode PROVE pick' = pick
    BY <2>6 DEF Main, Running, LoopHead, SendReturns, ScanFile, ClearAll, Injected, Reload, PopEvent, PopTimeout,
                CheckFile, ApplyEvent
  <2>7. ASSUME Reader \/ Admin \/ UNCHANGED vars PROVE pick' = pick
    BY <2>7 DEF Reader, ReadEvent, ReadFails, Admin, Sighup, EditConf, vars, agent
  <2> QED
    BY <2>2, <2>3, <2>4, <2>5, <2>6, <2>7 DEF Next
<1>5. ASSUME NEW p \in built' \ loose' PROVE inode'[p] # None
  <2>1. CASE p \in built
    <3>1. p \in Paths
      BY <2>1 DEF TypeOK
    <3> QED
      BY <1>1, <1>5, <2>1, <3>1 DEF NameInv
  <2>2. CASE p \notin built
    <3>1. PICK x \in Paths : ScanFile(x) /\ built' # built
      <4>1. ASSUME NEW u \in Users, Program(u) PROVE built' = built
        BY <4>1 DEF Program, Write, Unlink, Rename, Begin, Create, CheckInode, Report, Forget,
                    Effect, history, marks
      <4>2. ASSUME Main, \A x \in Paths : ~ScanFile(x) PROVE built' = built
        BY <4>2 DEF Main, Running, LoopHead, SendReturns, StatPath, ClearAll, AddInode, Injected, Reload, PopEvent,
                    PopTimeout, CheckFile, ApplyEvent, history, marks
      <4>3. ASSUME Reader \/ Admin \/ UNCHANGED vars PROVE built' = built
        BY <4>3 DEF Reader, ReadEvent, ReadFails, Admin, Sighup, EditConf, vars, history, marks
      <4> QED
        BY <1>5, <2>2, <4>1, <4>2, <4>3 DEF Next
    <3>2. built' = built \cup {x} /\ Hash(x) # None /\ UNCHANGED inode
      BY <3>1 DEF ScanFile, files
    <3> QED
      BY <1>5, <2>2, <3>2 DEF Hash
  <2> QED
    BY <2>1, <2>2
<1> QED
  BY <1>2, <1>3, <1>4, <1>5 DEF NameInv

-----------------------------------------------------------------------------
(* Events.                                                                 *)

(* Taking an event out of a queue, ...                                     *)
LEMMA TellTail ==
    ASSUME NEW q \in Seq(Events), q # <<>>, Tell(q)
    PROVE  Tell(Tail(q)) /\ (Head(q).op = "DELETE" => Head(q).path \in told)
<1>1. /\ Len(q) \in Nat \ {0} /\ DOMAIN q = 1..Len(q) /\ DOMAIN Tail(q) = 1..(Len(q) - 1)
      /\ Head(q) = q[1]
      /\ \A n \in 1..(Len(q) - 1) : Tail(q)[n] = q[n + 1]
  OBVIOUS
<1>2. ASSUME NEW n \in DOMAIN Tail(q), Tail(q)[n].op = "DELETE" PROVE Tail(q)[n].path \in told
  <2>1. n + 1 \in DOMAIN q /\ Tail(q)[n] = q[n + 1]
    BY <1>1
  <2> QED
    BY <1>2, <2>1 DEF Tell
<1>3. 1 \in DOMAIN q
  BY <1>1
<1> QED
  BY <1>1, <1>2, <1>3 DEF Tell

(* ... and putting one in.                                                 *)
LEMMA TellAppend ==
    ASSUME NEW q \in Seq(Events), Tell(q), NEW e \in Events, e.op = "DELETE" => e.path \in told
    PROVE  Tell(Append(q, e))
<1>1. /\ Len(q) \in Nat /\ DOMAIN q = 1..Len(q) /\ DOMAIN Append(q, e) = 1..(Len(q) + 1)
      /\ Append(q, e)[Len(q) + 1] = e
      /\ \A n \in 1..Len(q) : Append(q, e)[n] = q[n]
  OBVIOUS
<1>2. ASSUME NEW n \in DOMAIN Append(q, e), Append(q, e)[n].op = "DELETE"
      PROVE  Append(q, e)[n].path \in told
  <2>1. CASE n = Len(q) + 1
    BY <1>1, <1>2, <2>1
  <2>2. CASE n # Len(q) + 1
    <3>1. n \in DOMAIN q /\ Append(q, e)[n] = q[n]
      BY <1>1, <2>2
    <3> QED
      BY <1>2, <3>1 DEF Tell
  <2> QED
    BY <2>1, <2>2
<1> QED
  BY <1>2 DEF Tell

(* What the steps do to the history of reports.                            *)
LEMMA ToldGrows ==
    ASSUME [Next]_vars
    PROVE  told \subseteq told' /\ written \subseteq written'
<1> USE DEF history, marks
<1>1. ASSUME NEW u \in Users, Program(u) PROVE told \subseteq told' /\ written \subseteq written'
  BY <1>1 DEF Program, Write, Unlink, Rename, Begin, Create, CheckInode, Report, Forget, Effect
<1>2. CASE Main
  BY <1>2 DEF Main, Running, LoopHead, SendReturns, ScanFile, StatPath, ClearAll, AddInode, Injected, Reload,
              PopEvent, PopTimeout, CheckFile, ApplyEvent
<1>3. CASE Reader \/ Admin \/ UNCHANGED vars
  BY <1>3 DEF Reader, ReadEvent, ReadFails, Admin, Sighup, EditConf, vars
<1> QED
  BY <1>1, <1>2, <1>3 DEF Next

(* Every step keeps the deletes under way among those told.                *)
LEMMA EventKept ==
    ASSUME TypeOK, EventInv, [Next]_vars
    PROVE  EventInv'
<1> USE DEF agent
<1>0. told \subseteq told'
  BY ToldGrows
<1>1. ASSUME NEW q, Tell(q) PROVE \A n \in DOMAIN q : q[n].op = "DELETE" => q[n].path \in told'
  BY <1>0, <1>1 DEF Tell
<1>2. ASSUME UNCHANGED <<main, ev>>
      PROVE  main' \in {"check", "apply"} =>
                ev' \in Events /\ ev'.op # "RENAME" /\ (ev'.op = "DELETE" => ev'.path \in told')
  BY <1>0, <1>2 DEF EventInv
<1>3. ASSUME NEW u \in Users, Report(u) PROVE EventInv'
  <2>1. /\ told' = told \cup {fifo'[n].path : n \in {m \in DOMAIN fifo' : fifo'[m].op = "DELETE"}}
        /\ UNCHANGED <<queue, main, ev>>
    BY <1>3 DEF Report
  <2>2. \A n \in DOMAIN fifo' : fifo'[n].op = "DELETE" => fifo'[n].path \in told'
    BY <2>1
  <2> QED
    BY <1>1, <1>2, <2>1, <2>2 DEF EventInv, Tell
<1>4. CASE ReadEvent
  <2>1. /\ fifo \in Seq(Events) /\ fifo # <<>> /\ queue \in Seq(Events) /\ fifo' = Tail(fifo)
        /\ queue' = Append(IF Len(queue) = QueueSize THEN Tail(queue) ELSE queue, Head(fifo))
        /\ UNCHANGED <<main, ev>>
    BY <1>4 DEF ReadEvent, TypeOK
  <2>2. /\ Tell(Tail(fifo)) /\ Head(fifo) \in Events
        /\ Head(fifo).op = "DELETE" => Head(fifo).path \in told
    BY <2>1, TellTail, HeadType DEF EventInv
  <2>3. Tell(Append(queue, Head(fifo)))
    BY <2>1, <2>2, TellAppend DEF EventInv
  <2>4. Len(queue) = QueueSize => queue # <<>>
    BY GuardAssumption
  <2>5. Len(queue) = QueueSize => Tell(Append(Tail(queue), Head(fifo)))
    BY <2>1, <2>2, <2>4, TellTail, TellAppend, HeadType DEF EventInv
  <2>6. Tell(queue') /\ Tell(fifo')
    BY <2>1, <2>2, <2>3, <2>5
  <2>7. UNCHANGED told
    BY <1>4 DEF ReadEvent, history, marks
  <2> QED
    BY <1>2, <2>1, <2>6, <2>7 DEF EventInv, Tell
<1>5. CASE PopEvent
  <2>1. queue \in Seq(Events) /\ queue # <<>> /\ queue' = Tail(queue) /\ UNCHANGED <<fifo, told>>
    BY <1>5 DEF PopEvent, TypeOK, history, marks
  <2>2. /\ Tell(Tail(queue)) /\ Head(queue) \in Events
        /\ Head(queue).op = "DELETE" => Head(queue).path \in told
    BY <2>1, TellTail, HeadType DEF EventInv
  <2>3. (main' = "send") \/ (ev' = Head(queue) /\ Head(queue).op # "RENAME")
    BY <1>5 DEF PopEvent
  <2> QED
    BY <2>1, <2>2, <2>3 DEF EventInv, Tell
<1>6. ASSUME UNCHANGED <<fifo, queue, main, ev>> PROVE EventInv'
  BY <1>1, <1>2, <1>6 DEF EventInv, Tell
<1>7. ASSUME NEW u \in Users, Program(u), ~Report(u) PROVE UNCHANGED <<fifo, queue, main, ev>>
  BY <1>7 DEF Program, Write, Unlink, Rename, Begin, Create, CheckInode, Forget, Effect
<1>8. ASSUME Main, ~PopEvent PROVE EventInv'
  <2>1. UNCHANGED <<fifo, queue>>
    BY <1>8 DEF Main, Running, LoopHead, SendReturns, ScanFile, StatPath, ClearAll, AddInode, Injected, Reload,
                PopTimeout, CheckFile, ApplyEvent
  <2>2. main' \in {"check", "apply"} => UNCHANGED ev /\ main \in {"check", "apply"}
    BY <1>8 DEF Main, Running, LoopHead, SendReturns, ScanFile, StatPath, ClearAll, AddInode, Injected, Reload,
                PopTimeout, CheckFile, ApplyEvent
  <2> QED
    BY <1>0, <1>1, <2>1, <2>2 DEF EventInv, Tell
<1>9. ASSUME ReadFails \/ Admin \/ UNCHANGED vars PROVE UNCHANGED <<fifo, queue, main, ev>>
  BY <1>9 DEF ReadFails, Admin, Sighup, EditConf, vars
<1> QED
  BY <1>3, <1>4, <1>5, <1>6, <1>7, <1>8, <1>9 DEF Next, Reader

-----------------------------------------------------------------------------
(* The baseline.                                                           *)

(* The contents of a file change only for the programs that say so.        *)
LEMMA DataStays ==
    ASSUME TypeOK, CallInv, NEW u \in Users, Program(u),
           NEW p \in Paths \ (written' \cup loose'), inode[p] # None
    PROVE  inode'[p] = inode[p] /\ data'[inode[p]] = data[inode[p]]
<1> USE DEF files
<1>1. inode'[p] = inode[p] /\ inode[p] \in Inodes
  BY NamesStay DEF Next, TypeOK
<1>2. ASSUME NEW x \in Paths, Create(u, x) PROVE data'[inode[p]] = data[inode[p]]
  <2>1. PICK i \in Inodes, c \in Contents : Free(i) /\ data' = [data EXCEPT ![i] = c]
    BY <1>2 DEF Create
  <2>2. i # inode[p]
    BY <2>1 DEF Free
  <2> QED
    BY <1>1, <2>1, <2>2 DEF TypeOK
<1>3. CASE Effect(u)
  <2>1. CASE /\ \E v \in Contents : data' = [data EXCEPT ![op[u].ino] = v]
             /\ written' = written \cup {q \in Paths : inode[q] = op[u].ino /\ data' # data}
    <3>1. data' = data \/ inode[p] # op[u].ino
      BY <2>1
    <3> QED
      BY <1>1, <2>1, <3>1 DEF TypeOK
  <2>2. CASE data' = data
    BY <1>1, <2>2
  <2> QED
    BY <1>3, <2>1, <2>2 DEF Effect
<1>4. ASSUME \/ \E x \in Paths : Write(u, x) \/ Unlink(u, x)
             \/ \E x, y \in Paths : Rename(u, x, y)
             \/ CheckInode(u) \/ Report(u) \/ Forget(u)
      PROVE  data' = data
  BY <1>4 DEF Write, Unlink, Rename, Begin, CheckInode, Report, Forget
<1> QED
  BY <1>1, <1>2, <1>3, <1>4 DEF Program

(* Programs leave the agent alone.                                         *)
LEMMA ProgramAgent ==
    ASSUME NEW u \in Users, Program(u)
    PROVE  UNCHANGED <<main, left, pick, ev, res, baseline, watch, newWatch, block, built, missed>>
BY DEF Program, Write, Unlink, Rename, Begin, Create, CheckInode, Report, Forget, Effect,
       agent, history, marks

(* Every step keeps the baseline: an update reads the file again, and a    *)
(* removal is of a file that was told deleted and does not match.          *)
LEMMA BaselineKept ==
    ASSUME TypeOK, CallInv, NameInv, EventInv, BaselineInv, [Next]_vars
    PROVE  BaselineInv'
<1> USE DEF files, history, marks
<1>0. /\ told \subseteq told' /\ written \subseteq written' /\ loose \subseteq loose'
      /\ built \subseteq Paths /\ None \notin Contents /\ data \in [Inodes -> Contents]
      /\ inode \in [Paths -> Inodes \cup {None}] /\ baseline \in [Paths -> Contents \cup {None}]
  BY ToldGrows, LooseGrows, GuardAssumption DEF TypeOK
<1>1. ASSUME NEW u \in Users, Program(u) PROVE BaselineInv'
  <2>1. UNCHANGED <<main, ev, res, baseline, built>>
    BY <1>1, ProgramAgent
  <2>2. ASSUME NEW p \in Intact'
        PROVE  p \in Intact /\ inode'[p] = inode[p] /\ data'[inode[p]] = data[inode[p]]
    <3>1. p \in Intact /\ p \in Paths \ (written' \cup loose')
      BY <1>0, <2>1 DEF Intact
    <3>2. inode[p] # None
      BY <3>1 DEF NameInv, Intact
    <3> QED
      BY <1>1, <3>1, <3>2, DataStays
  <2>3. \A p \in Intact' : baseline'[p] = data'[inode'[p]]
    BY <2>1, <2>2 DEF BaselineInv
  <2>4. \A p \in built' \ (loose' \cup (written' \cap told')) : baseline'[p] # None
    BY <1>0, <2>1 DEF BaselineInv
  <2>5. main' = "apply" /\ ev'.op = "DELETE" => \A p \in Intact' : ev'.path = p => res' = "MATCH"
    BY <2>1, <2>2 DEF BaselineInv
  <2> QED
    BY <2>3, <2>4, <2>5 DEF BaselineInv
<1>2. ASSUME UNCHANGED <<files, baseline, built>>, main' # "apply" \/ UNCHANGED <<main, ev, res>>
      PROVE  BaselineInv'
  <2>1. Intact' \subseteq Intact
    BY <1>0, <1>2 DEF Intact
  <2> QED
    BY <1>0, <1>2, <2>1 DEF BaselineInv
<1>3. ASSUME NEW p \in Paths, ScanFile(p) PROVE BaselineInv'
  <2>1. UNCHANGED <<files, written, told, main>> /\ main = "scan"
    BY <1>3 DEF ScanFile
  <2>2. CASE \E h \in Misread(p) : /\ baseline' = [baseline EXCEPT ![p] = h]
                                /\ loose' = loose \cup {p} /\ UNCHANGED built
    <3>1. \A x \in built' \ loose' : x \in built \ loose /\ baseline'[x] = baseline[x]
      BY <1>0, <2>2
    <3> QED
      BY <2>1, <3>1 DEF BaselineInv, Intact
  <2>3. CASE /\ baseline' = [baseline EXCEPT ![p] = Hash(p)]
             /\ built' = (IF Hash(p) = None THEN built ELSE built \cup {p})
             /\ UNCHANGED loose
    <3>1. ASSUME NEW x \in built' \ loose'
          PROVE  /\ inode[x] # None
                 /\ x = p => baseline'[x] = data[inode[x]] /\ data[inode[x]] \in Contents
                 /\ x # p => x \in built /\ baseline'[x] = baseline[x]
      <4>1. inode[x] # None
        BY <2>3, <3>1 DEF NameInv, Hash
      <4>2. x \in Paths
        BY <1>0, <2>3, <3>1
      <4> QED
        BY <1>0, <2>3, <3>1, <4>1, <4>2 DEF Hash
    <3>2. \A x \in Intact' : baseline'[x] = data'[inode'[x]]
      BY <2>1, <2>3, <3>1 DEF Intact, BaselineInv
    <3>3. \A x \in built' \ (loose' \cup (written' \cap told')) : baseline'[x] # None
      BY <1>0, <2>1, <2>3, <3>1 DEF BaselineInv
    <3> QED
      BY <2>1, <3>2, <3>3 DEF BaselineInv
  <2> QED
    BY <1>3, <2>2, <2>3 DEF ScanFile
<1>4. CASE CheckFile
  <2>1. UNCHANGED <<files, baseline, built, written, told, ev>> /\ main' = "apply"
    BY <1>4 DEF CheckFile
  <2>2. ASSUME NEW p \in Intact PROVE Integrity(p, Hash(p)) = "MATCH"
    <3>1. p \in Paths /\ inode[p] # None /\ baseline[p] = data[inode[p]]
      BY <1>0 DEF Intact, NameInv, BaselineInv
    <3> QED
      BY <1>0, <3>1 DEF Integrity, Hash
  <2>3. Intact' \subseteq Intact
    BY <1>0, <2>1 DEF Intact
  <2>4. ASSUME ev.op = "DELETE", NEW p \in Intact', ev.path = p PROVE res' = "MATCH"
    <3>1. p \in Intact /\ p \notin loose'
      BY <2>3, <2>4 DEF Intact
    <3>2. res' = Integrity(p, Hash(p))
      BY <1>4, <2>4, <3>1 DEF CheckFile
    <3> QED
      BY <2>2, <3>1, <3>2
  <2> QED
    BY <1>0, <2>1, <2>3, <2>4 DEF BaselineInv
<1>5. CASE ApplyEvent
  <2>1. UNCHANGED <<files, built, written, told>> /\ main = "apply" /\ main' = "send"
    BY <1>5 DEF ApplyEvent
  <2>2. ev \in Events /\ ev.op # "RENAME" /\ (ev.op = "DELETE" => ev.path \in told)
    BY <2>1 DEF EventInv
  <2>3. Intact' \subseteq Intact
    BY <1>0, <2>1 DEF Intact
  <2>4. CASE ev.op = "WRITE"
    <3>1. \E h \in Contents \cup {None} :
             /\ baseline' = IF h = None THEN baseline ELSE [baseline EXCEPT ![ev.path] = h]
             /\ h \in {Hash(ev.path), None} \/ ev.path \in loose'
      BY <1>5, <2>4, HashType DEF ApplyEvent, Updated, Misread
    <3>2. CASE baseline' = baseline
      BY <1>0, <2>1, <2>3, <3>2 DEF BaselineInv
    <3>3. ASSUME NEW h \in Contents, baseline' = [baseline EXCEPT ![ev.path] = h],
                 h = Hash(ev.path) \/ ev.path \in loose'
          PROVE  BaselineInv'
      <4>1. \A x \in Paths : baseline'[x] = IF x = ev.path THEN h ELSE baseline[x]
        BY <1>0, <3>3
      <4>2. ASSUME NEW x \in Intact' PROVE baseline'[x] = data[inode[x]]
        <5>1. x \in Paths \ loose' /\ inode[x] # None /\ baseline[x] = data[inode[x]]
          BY <1>0, <2>3, <4>2 DEF Intact, NameInv, BaselineInv
        <5> QED
          BY <3>3, <4>1, <5>1 DEF Hash
      <4>3. \A x \in built \ (loose \cup (written \cap told)) : baseline'[x] # None
        BY <1>0, <4>1 DEF BaselineInv
      <4> QED
        BY <1>0, <2>1, <4>2, <4>3 DEF BaselineInv
    <3> QED
      BY <1>0, <3>1, <3>2, <3>3
  <2>5. CASE ev.op # "WRITE"
    <3>1. \/ baseline' = baseline
          \/ ev.path # None /\ res # "MATCH" /\ baseline' = [baseline EXCEPT ![ev.path] = None]
      BY <1>5, <2>5 DEF ApplyEvent, Removed
    <3>2. CASE baseline' = baseline
      BY <1>0, <2>1, <2>3, <3>2 DEF BaselineInv
    <3>3. CASE ev.path # None /\ res # "MATCH" /\ baseline' = [baseline EXCEPT ![ev.path] = None]
      <4>1. ev.op = "DELETE"
        BY <2>2, <2>5 DEF Events, Ops
      <4>2. ev.path \notin Intact /\ ev.path \in told
        BY <2>1, <2>2, <3>3, <4>1 DEF BaselineInv
      <4>3. \A x \in Paths \ {ev.path} : baseline'[x] = baseline[x]
        BY <1>0, <3>3
      <4>4. \A x \in Intact : baseline'[x] = data[inode[x]]
        BY <1>0, <4>2, <4>3 DEF BaselineInv, Intact
      <4>5. \A x \in built \ (loose \cup (written \cap told)) : baseline'[x] # None
        BY <1>0, <4>2, <4>3 DEF BaselineInv, Intact
      <4> QED
        BY <1>0, <2>1, <2>3, <4>4, <4>5 DEF BaselineInv
    <3> QED
      BY <3>1, <3>2, <3>3
  <2> QED
    BY <2>4, <2>5
<1>6. ASSUME \/ \E p \in Paths : StatPath(p)
             \/ ClearAll \/ AddInode \/ Injected \/ Reload \/ PopEvent \/ PopTimeout
             \/ SendReturns
      PROVE  BaselineInv'
  <2>1. UNCHANGED <<files, baseline, built>> /\ (main' # "apply" \/ UNCHANGED <<main, ev, res>>)
    BY <1>6 DEF StatPath, ClearAll, AddInode, Injected, Reload, PopEvent, PopTimeout,
                SendReturns, LoopHead
  <2> QED
    BY <1>2, <2>1
<1>7. ASSUME Reader \/ Admin \/ UNCHANGED vars PROVE BaselineInv'
  <2>1. UNCHANGED <<files, baseline, built, main, ev, res>>
    BY <1>7 DEF Reader, ReadEvent, ReadFails, Admin, Sighup, EditConf, vars, agent
  <2> QED
    BY <1>2, <2>1
<1> QED
  BY <1>1, <1>3, <1>4, <1>5, <1>6, <1>7 DEF Next, Main, Running

-----------------------------------------------------------------------------
(* The policy table.                                                       *)

(* The mode is set once.                                                   *)
LEMMA BlockStays ==
    ASSUME [Next]_vars
    PROVE  block' = block
<1>1. CASE Main
  BY <1>1 DEF Main, Running, LoopHead, SendReturns, ScanFile, StatPath, ClearAll, AddInode, Injected, Reload,
              PopEvent, PopTimeout, CheckFile, ApplyEvent
<1>2. CASE Reader \/ Admin \/ UNCHANGED vars
  BY <1>2 DEF Reader, ReadEvent, ReadFails, Admin, Sighup, EditConf, vars
<1> QED
  BY <1>1, <1>2, ProgramAgent DEF Next

(* Only the scan and the start of an injection put a file among the        *)
(* guarded ones.                                                           *)
LEMMA GuardedShrinks ==
    ASSUME TypeOK, [Next]_vars, ~ClearAll, \A p \in Paths : ~ScanFile(p)
    PROVE  Guarded' \subseteq Guarded
<1>1. told \subseteq told' /\ written \subseteq written' /\ loose \subseteq loose'
  BY ToldGrows, LooseGrows
<1>2. built' = built /\ missed \subseteq missed'
  <2> USE DEF history, marks
  <2>1. CASE Main
    BY <2>1 DEF Main, Running, LoopHead, SendReturns, StatPath, AddInode, Injected, Reload, PopEvent, PopTimeout,
                CheckFile, ApplyEvent
  <2>2. CASE Reader \/ Admin \/ UNCHANGED vars
    BY <2>2 DEF Reader, ReadEvent, ReadFails, Admin, Sighup, EditConf, vars
  <2> QED
    BY <2>1, <2>2, ProgramAgent DEF Next
<1> QED
  BY <1>1, <1>2 DEF Guarded

(* A guarded file has a name that no other file has.                       *)
LEMMA GuardedFacts ==
    ASSUME TypeOK, NameInv, NEW p \in Guarded
    PROVE  p \in Paths \ loose /\ inode[p] \in Inodes /\ inode[p] # None
BY DEF TypeOK, NameInv, Guarded

(* A guarded file keeps its name.                                          *)
LEMMA GuardedStays ==
    ASSUME TypeOK, CallInv, [Next]_vars, NEW p \in Guarded', Guarded' \subseteq Guarded
    PROVE  inode'[p] = inode[p]
<1>1. p \in Paths /\ p \notin loose'
  BY DEF Guarded, TypeOK
<1> QED
  BY <1>1, NamesStay

(* Every step keeps the policy table, or the part of it that is injected.  *)
LEMMA PolicyKept ==
    ASSUME TypeOK, CallInv, NameInv, BaselineInv, PolicyInv, [Next]_vars
    PROVE  PolicyInv'
<1> USE DEF files, history, marks
<1>1. block' = block
  BY BlockStays
<1>2. \A p : EntryOf(p)' = EntryOf(p)
  BY <1>1 DEF EntryOf
<1>3. None \notin [path : Paths, ino : Inodes]
  BY GuardAssumption
<1>4. ASSUME Guarded' \subseteq Guarded, UNCHANGED <<left, pick, main>>,
             \A p \in Guarded' : policy'[inode[p]] = policy[inode[p]]
      PROVE  PolicyInv'
  <2>1. \A p \in Guarded' : inode'[p] = inode[p]
    BY <1>4, GuardedStays
  <2> QED
    BY <1>1, <1>4, <2>1 DEF PolicyInv, EntryOf
<1>5. ASSUME NEW u \in Users, Program(u) PROVE PolicyInv'
  <2>1. ~ClearAll /\ \A p \in Paths : ~ScanFile(p)
    <3>1. UNCHANGED <<main, left>>
      BY <1>5, ProgramAgent
    <3> QED
      BY <3>1 DEF ClearAll, ScanFile
  <2>2. Guarded' \subseteq Guarded /\ UNCHANGED <<left, pick, main>>
    BY <1>5, <2>1, GuardedShrinks, ProgramAgent
  <2>3. CASE Forget(u)
    <3>1. /\ policy' = [policy EXCEPT ![op[u].ino] = None] /\ op[u].step = "forget"
          /\ policy \in [Inodes -> Entries \cup {None}]
      BY <2>3 DEF Forget, TypeOK
    <3>2. op[u].kind = "unlink" /\ op[u].path \in loose
      BY <3>1 DEF CallInv, CallOK
    <3>3. ASSUME NEW p \in Guarded' PROVE policy'[inode[p]] = policy[inode[p]]
      <4>1. p \in Paths \ loose /\ inode[p] \in Inodes
        BY <2>2, GuardedFacts
      <4>2. inode[p] # op[u].ino
        BY <3>2, <4>1 DEF NameInv
      <4> QED
        BY <3>1, <4>1, <4>2
    <3> QED
      BY <1>4, <2>2, <3>3
  <2>4. CASE ~Forget(u)
    <3>1. policy' = policy
      BY <1>5, <2>4 DEF Program, Write, Unlink, Rename, Begin, Create, CheckInode, Report, Effect
    <3> QED
      BY <1>4, <2>2, <3>1
  <2> QED
    BY <2>3, <2>4
<1>6. ASSUME NEW p \in Paths, ScanFile(p) PROVE PolicyInv'
  BY <1>6 DEF ScanFile, PolicyInv, Settled
<1>7. CASE ClearAll
  <2>1. /\ main' = "inject" /\ left' = {p \in Paths : baseline[p] # None}
        /\ UNCHANGED <<built, loose, written, told>>
    BY <1>7 DEF ClearAll
  <2>2. Guarded' \subseteq left'
    BY <2>1 DEF Guarded, BaselineInv, TypeOK
  <2> QED
    BY <2>1, <2>2 DEF PolicyInv, Settled
<1>8. ASSUME NEW p \in Paths, StatPath(p) PROVE PolicyInv'
  <2>1. /\ main = "inject" /\ main' = "inject" /\ pick = None /\ left' = left \ {p}
        /\ pick' = (IF inode[p] = None THEN None ELSE [path |-> p, ino |-> inode[p]])
        /\ UNCHANGED <<inode, policy, built, loose, missed, written, told>>
    BY <1>8 DEF StatPath
  <2>2. ASSUME NEW x \in Guarded'
        PROVE  \/ x \in left'
               \/ pick' = [path |-> x, ino |-> inode'[x]]
               \/ policy'[inode'[x]] = EntryOf(x)'
    <3>1. x \in Guarded
      BY <2>1 DEF Guarded
    <3>2. inode[x] \in Inodes /\ inode[x] # None
      BY <3>1, GuardedFacts
    <3>3. pick # [path |-> x, ino |-> inode[x]]
      <4>1. [path |-> x, ino |-> inode[x]] \in [path : Paths, ino : Inodes]
        BY <3>1, <3>2, GuardedFacts
      <4> QED
        BY <1>3, <2>1, <4>1
    <3>4. x \in left \/ policy[inode[x]] = EntryOf(x)
      BY <2>1, <3>1, <3>3 DEF PolicyInv
    <3>5. CASE x = p
      BY <2>1, <3>2, <3>5
    <3>6. CASE x # p
      BY <1>2, <2>1, <3>4, <3>6
    <3> QED
      BY <3>5, <3>6
  <2> QED
    BY <2>1, <2>2 DEF PolicyInv, Settled
<1>9. CASE AddInode
  <2>1. /\ pick # None /\ pick' = None /\ main = "inject" /\ main' = "inject" /\ left' = left
        /\ UNCHANGED <<inode, built, loose, written, told>>
        /\ pick \in [path : Paths, ino : Inodes] /\ policy \in [Inodes -> Entries \cup {None}]
    BY <1>9 DEF AddInode, PolicyInv, TypeOK
  <2>2. ASSUME NEW x \in Guarded' PROVE x \in left' \/ policy'[inode'[x]] = EntryOf(x)'
    <3>1. x \in Guarded /\ x \notin missed'
      BY <1>9, <2>1 DEF Guarded, AddInode
    <3>2. inode[x] \in Inodes /\ x \in Paths \ loose
      BY <3>1, GuardedFacts
    <3>3. \/ x \in left
          \/ pick = [path |-> x, ino |-> inode[x]]
          \/ policy[inode[x]] = EntryOf(x)
      BY <2>1, <3>1 DEF PolicyInv
    <3>4. CASE policy' = [policy EXCEPT ![pick.ino] = EntryOf(pick.path)]
      <4>1. CASE inode[x] = pick.ino
        <5>1. x = pick.path
          BY <2>1, <3>2, <4>1 DEF NameInv
        <5>2. policy'[inode[x]] = EntryOf(x)
          BY <2>1, <3>2, <3>4, <4>1, <5>1
        <5> QED
          BY <1>2, <2>1, <5>2
      <4>2. CASE inode[x] # pick.ino
        <5>1. policy'[inode[x]] = policy[inode[x]]
          BY <2>1, <3>2, <3>4, <4>2
        <5>2. x \in left \/ policy[inode[x]] = EntryOf(x)
          BY <3>3, <4>2
        <5> QED
          BY <1>2, <2>1, <5>1, <5>2
      <4> QED
        BY <4>1, <4>2
    <3>5. CASE policy' = policy /\ missed' = missed \cup {pick.path}
      <4>1. x # pick.path
        BY <3>1, <3>5
      <4>2. x \in left \/ policy[inode[x]] = EntryOf(x)
        BY <3>3, <4>1
      <4> QED
        BY <1>2, <2>1, <3>5, <4>2
    <3> QED
      BY <1>9, <3>4, <3>5 DEF AddInode, EntryOf
  <2> QED
    BY <2>1, <2>2 DEF PolicyInv, Settled
<1>10. CASE Injected
  <2>1. /\ main = "inject" /\ left = {} /\ pick = None /\ pick' = None
        /\ main' \in {"reload", "pop"}
        /\ UNCHANGED <<inode, policy, built, loose, missed, written, told>>
    BY <1>10 DEF Injected, LoopHead
  <2>2. ASSUME NEW x \in Guarded' PROVE policy'[inode'[x]] = EntryOf(x)'
    <3>1. x \in Guarded
      BY <2>1 DEF Guarded
    <3>2. [path |-> x, ino |-> inode[x]] \in [path : Paths, ino : Inodes]
      BY <3>1, GuardedFacts
    <3>3. pick # [path |-> x, ino |-> inode[x]]
      BY <1>3, <2>1, <3>2
    <3>4. policy[inode[x]] = EntryOf(x)
      BY <2>1, <3>1, <3>3 DEF PolicyInv
    <3> QED
      BY <1>2, <2>1, <3>4
  <2> QED
    BY <2>1, <2>2 DEF PolicyInv
<1>11. ASSUME \/ Reload \/ PopEvent \/ PopTimeout \/ CheckFile \/ ApplyEvent
              \/ SendReturns
       PROVE  PolicyInv'
  <2>1. /\ main \in Settled /\ main' \in Settled \cup {"clear"}
        /\ UNCHANGED <<inode, policy, pick, built, missed, written, told>>
    BY <1>11 DEF Reload, PopEvent, PopTimeout, CheckFile, ApplyEvent, SendReturns,
                 Settled, LoopHead
  <2>2. Guarded' \subseteq Guarded
    BY <2>1, LooseGrows DEF Guarded
  <2> QED
    BY <1>2, <2>1, <2>2 DEF PolicyInv, Settled
<1>12. ASSUME Reader \/ Admin \/ UNCHANGED vars PROVE PolicyInv'
  <2>1. UNCHANGED <<inode, policy, pick, left, main, built, loose, missed, written, told>>
    BY <1>12 DEF Reader, ReadEvent, ReadFails, Admin, Sighup, EditConf, vars, agent
  <2>2. Guarded' = Guarded
    BY <2>1 DEF Guarded
  <2> QED
    BY <1>4, <2>1, <2>2
<1> QED
  BY <1>5, <1>6, <1>7, <1>8, <1>9, <1>10, <1>11, <1>12 DEF Next, Main, Running

-----------------------------------------------------------------------------
(* Calls that began after the table was complete.                          *)

(* A check that is not the next one is still there after it.               *)
LEMMA PendingShifts ==
    ASSUME NEW c \in Calls, NEW i, NEW n \in DOMAIN c.todo, n # 1, c.todo[n].ino = i
    PROVE  Pending(NextCheck(c), i)
<1>1. c.todo \in Seq([ino : Inodes, op : Ops])
  BY DEF Calls
<1>2. /\ Len(c.todo) \in Nat /\ DOMAIN c.todo = 1..Len(c.todo) /\ c.todo # <<>>
  BY <1>1
<1>3. /\ DOMAIN Tail(c.todo) = 1..(Len(c.todo) - 1)
      /\ \A m \in 1..(Len(c.todo) - 1) : Tail(c.todo)[m] = c.todo[m + 1]
  <2>1. ASSUME NEW S, NEW s \in Seq(S), s # <<>>
        PROVE  /\ DOMAIN Tail(s) = 1..(Len(s) - 1)
               /\ \A m \in 1..(Len(s) - 1) : Tail(s)[m] = s[m + 1]
    BY <2>1
  <2> QED
    BY <1>1, <1>2, <2>1
<1>4. n - 1 \in 1..(Len(c.todo) - 1) /\ (n - 1) + 1 = n
  BY <1>2
<1>5. n - 1 \in DOMAIN Tail(c.todo) /\ Tail(c.todo)[n - 1] = c.todo[n]
  BY <1>3, <1>4
<1>6. NextCheck(c).todo = Tail(c.todo) /\ NextCheck(c).step = "check"
  BY DEF NextCheck, Calls
<1> QED
  BY <1>5, <1>6, Zenon DEF Pending

(* The program u takes a step of a call that is late.                      *)
LEMMA LateProceeds ==
    ASSUME TypeOK, CallInv, NameInv, PolicyInv, LateInv, block = "deny",
           NEW u \in Users, Program(u), u \in late, op'[u] # op[u], op'[u].kind # "idle",
           CheckInode(u) \/ Report(u) \/ Forget(u) \/ Effect(u),
           Guarded' \subseteq Guarded,
           NEW p \in {op'[u].path, op'[u].to} \cap Guarded'
    PROVE  Pending(op'[u], inode'[p])
<1>1. op[u] \in Calls /\ CallOK(op[u])
  BY DEF TypeOK, CallInv
<1>2. op[u].kind # "idle" /\ op'[u].path = op[u].path /\ op'[u].to = op[u].to
  <2>1. op'[u] # Idle
    BY DEF Idle
  <2>2. ~Effect(u)
    BY <2>1 DEF Effect, TypeOK
  <2>3. /\ op[u].todo # <<>>
        /\ \/ op'[u] = NextCheck(op[u])
           \/ \E s : op'[u] = [op[u] EXCEPT !.step = s]
    BY <1>1, <2>1, <2>2 DEF CheckInode, Report, Forget, TypeOK, CallOK
  <2>4. op[u].kind # "idle"
    BY <1>1, <2>3 DEF CallOK, Idle
  <2>5. CASE op'[u] = NextCheck(op[u])
    BY <1>1, <2>4, <2>5 DEF NextCheck, Calls
  <2>6. CASE \E s : op'[u] = [op[u] EXCEPT !.step = s]
    BY <1>1, <2>4, <2>6 DEF Calls
  <2> QED
    BY <2>3, <2>5, <2>6
<1>3. p \in Guarded /\ inode'[p] = inode[p] /\ inode[p] \in Inodes /\ p \in Paths
  <2>1. p \in Guarded
    OBVIOUS
  <2>2. [Next]_vars
    BY DEF Next
  <2> QED
    BY <2>1, <2>2, GuardedStays, GuardedFacts
<1>4. Pending(op[u], inode[p])
  BY <1>2, <1>3 DEF LateInv
<1>5. PICK n \in DOMAIN op[u].todo :
         op[u].todo[n].ino = inode[p] /\ (n = 1 => op[u].step \in {"check", "deny"})
  BY <1>4, Zenon DEF Pending
<1>6. n # 1 => Pending(NextCheck(op[u]), inode[p])
  BY <1>1, <1>5, PendingShifts
<1>7. CASE CheckInode(u)
  <2> DEFINE c == Head(op[u].todo)
             verdict == Lookup(c.ino, c.op)
  <2>1. /\ op[u].todo # <<>> /\ op[u].step = "check"
        /\ op'[u] = IF verdict = None THEN NextCheck(op[u]) ELSE [op[u] EXCEPT !.step = verdict]
    BY <1>7 DEF CheckInode, TypeOK
  <2>2. CASE n = 1
    <3>1. op[u].todo \in Seq([ino : Inodes, op : Ops])
      BY <1>1 DEF Calls
    <3>2. c = op[u].todo[1] /\ c \in [ino : Inodes, op : Ops]
      <4>1. c \in [ino : Inodes, op : Ops]
        BY <2>1, <3>1, HeadType
      <4>2. c = op[u].todo[1]
        OBVIOUS
      <4> QED
        BY <4>1, <4>2
    <3>3. c.ino = inode[p] /\ c.op \in Ops
      BY <1>5, <2>2, <3>2
    <3>4. policy[inode[p]] = EntryOf(p)
      <4>1. main \in Settled \cup {"clear"}
        BY DEF LateInv, TypeOK
      <4> QED
        BY <1>3, <4>1 DEF PolicyInv
    <3>5. policy[c.ino] # None /\ policy[c.ino].mask = Ops /\ policy[c.ino].block = "deny"
      <4>1. EntryOf(p) \in Entries
        BY <1>3 DEF EntryOf, Entries, TypeOK
      <4> QED
        BY <3>3, <3>4, <4>1, GuardAssumption DEF EntryOf
    <3>6. verdict = "deny" /\ "deny" # None
      BY <3>3, <3>5, GuardAssumption DEF Lookup
    <3> HIDE DEF c, verdict
    <3>7. op'[u] = [op[u] EXCEPT !.step = "deny"]
      BY <2>1, <3>6
    <3>8. op'[u].todo = op[u].todo /\ op'[u].step = "deny"
      BY <1>1, <3>7 DEF Calls
    <3> QED
      BY <1>3, <1>5, <3>8, Zenon DEF Pending
  <2>3. CASE n # 1
    <3> HIDE DEF c, verdict
    <3>1. CASE op'[u] = NextCheck(op[u])
      BY <1>3, <1>6, <2>3, <3>1
    <3>2. CASE op'[u] = [op[u] EXCEPT !.step = verdict]
      <4>1. op'[u].todo = op[u].todo
        BY <1>1, <3>2 DEF Calls
      <4> QED
        BY <1>3, <1>5, <2>3, <4>1, Zenon DEF Pending
    <3> QED
      BY <2>1, <3>1, <3>2
  <2> QED
    BY <2>2, <2>3
<1>8. CASE Report(u)
  <2>1. op[u].step = "audit"
    BY <1>8 DEF Report, TypeOK, Idle
  <2>2. n # 1
    BY <1>5, <2>1
  <2>3. CASE op[u].kind = "unlink"
    <3>1. op[u].path \in loose' /\ op[u].to = None
      BY <1>1, <1>8, <2>1, <2>3 DEF Report, CallOK
    <3>2. p # op[u].path /\ p # None
      BY <1>3, <3>1, GuardAssumption DEF Guarded
    <3> QED
      BY <1>2, <3>1, <3>2
  <2>4. CASE op[u].kind # "unlink"
    <3>1. op'[u] = NextCheck(op[u])
      BY <1>8, <2>1, <2>4 DEF Report, TypeOK
    <3> QED
      BY <1>3, <1>6, <2>2, <3>1
  <2> QED
    BY <2>3, <2>4
<1>9. CASE Forget(u)
  <2>1. op[u].path \in loose /\ op[u].to = None
    BY <1>1, <1>9 DEF Forget, CallOK
  <2>2. p # op[u].path /\ p # None
    BY <1>3, <2>1, GuardAssumption DEF Guarded
  <2> QED
    BY <1>2, <2>1, <2>2
<1>10. CASE Effect(u)
  BY <1>10 DEF Effect, TypeOK, Idle
<1> QED
  BY <1>7, <1>8, <1>9, <1>10

(* The program u begins a call that is late.                               *)
LEMMA LateBegins ==
    ASSUME TypeOK, NameInv, NEW u \in Users,
           \/ \E x \in Paths : Write(u, x) \/ Unlink(u, x)
           \/ \E x, y \in Paths : Rename(u, x, y),
           NEW p \in {op'[u].path, op'[u].to} \cap Guarded
    PROVE  Pending(op'[u], inode[p])
<1>1. p \in Paths /\ inode[p] # None /\ None \notin Paths
  BY GuardedFacts, GuardAssumption
<1>2. ASSUME NEW x \in Paths, NEW q, NEW kind, NEW todo, Begin(u, kind, x, q, todo)
      PROVE  /\ op'[u].path = x /\ op'[u].to = q /\ op'[u].todo = todo
             /\ op'[u].step = "check"
  BY <1>2 DEF Begin, TypeOK
<1>3. ASSUME NEW x \in Paths, NEW o, p = x,
             op'[u].todo = <<[ino |-> inode[x], op |-> o]>>, op'[u].step = "check"
      PROVE  Pending(op'[u], inode[p])
  <2>1. 1 \in DOMAIN op'[u].todo /\ op'[u].todo[1].ino = inode[p]
    BY <1>3
  <2> QED
    BY <1>3, <2>1, Zenon DEF Pending
<1>4. ASSUME NEW x \in Paths, Write(u, x) \/ Unlink(u, x) PROVE Pending(op'[u], inode[p])
  <2>1. PICK o \in Ops : /\ op'[u].todo = <<[ino |-> inode[x], op |-> o]>>
                         /\ op'[u].step = "check" /\ op'[u].path = x /\ op'[u].to = None
    BY <1>2, <1>4 DEF Write, Unlink, Ops
  <2> QED
    BY <1>1, <1>3, <2>1
<1>5. ASSUME NEW x \in Paths, NEW y \in Paths, Rename(u, x, y) PROVE Pending(op'[u], inode[p])
  <2> DEFINE t == <<[ino |-> inode[x], op |-> "RENAME"]>> \o
                  (IF inode[y] = None THEN <<>> ELSE <<[ino |-> inode[y], op |-> "RENAME"]>>)
  <2>1. op'[u].todo = t /\ op'[u].step = "check" /\ op'[u].path = x /\ op'[u].to = y
    BY <1>2, <1>5 DEF Rename
  <2>2. CASE p = x
    <3>1. 1 \in DOMAIN t /\ t[1].ino = inode[p]
      <4>1. CASE inode[y] = None
        BY <2>2, <4>1
      <4>2. CASE inode[y] # None
        BY <2>2, <4>2
      <4> QED
        BY <4>1, <4>2
    <3> HIDE DEF t
    <3> QED
      BY <2>1, <3>1, Zenon DEF Pending
  <2>3. CASE p = y
    <3>1. 2 \in DOMAIN t /\ t[2].ino = inode[p]
      BY <1>1, <2>3
    <3>2. 2 # 1
      OBVIOUS
    <3> HIDE DEF t
    <3> QED
      BY <2>1, <3>1, <3>2, Zenon DEF Pending
  <2> QED
    BY <2>1, <2>2, <2>3
<1> QED
  BY <1>4, <1>5

(* Every step keeps the checks that late calls have before them.           *)
LEMMA LateKept ==
    ASSUME TypeOK, CallInv, NameInv, PolicyInv, LateInv, [Next]_vars
    PROVE  LateInv'
<1>0. block' = block
  BY BlockStays
<1>1. ASSUME NEW v \in late', v \in late, op'[v] = op[v], op'[v].kind # "idle", block = "deny",
             Guarded' \subseteq Guarded, NEW p \in {op'[v].path, op'[v].to} \cap Guarded'
      PROVE  Pending(op'[v], inode'[p])
  <2>1. p \in Guarded /\ inode'[p] = inode[p]
    BY <1>1, GuardedStays
  <2>2. Pending(op[v], inode[p])
    BY <1>1, <2>1 DEF LateInv
  <2> QED
    BY <1>1, <2>1, <2>2
<1>2. ASSUME NEW u \in Users, Program(u) PROVE LateInv'
  <2>1. UNCHANGED <<main, left>>
    BY <1>2, ProgramAgent
  <2>2. Guarded' \subseteq Guarded
    <3>1. ~ClearAll /\ \A p \in Paths : ~ScanFile(p)
      BY <2>1 DEF ClearAll, ScanFile
    <3> QED
      BY <3>1, GuardedShrinks
  <2>3. ASSUME NEW v \in late', v # u PROVE v \in late /\ op'[v] = op[v]
    <3>1. v \in late
      BY <1>2, <2>3 DEF Program, Write, Unlink, Rename, Begin, Create, CheckInode, Report,
                        Forget, Effect, history
    <3>2. v \in Users
      BY <3>1 DEF TypeOK
    <3> QED
      BY <1>2, <2>3, <3>1, <3>2, OthersCalls
  <2>4. CASE \/ \E x \in Paths : Write(u, x) \/ Unlink(u, x)
             \/ \E x, y \in Paths : Rename(u, x, y)
    <3>1. /\ UNCHANGED <<inode, built, loose, missed, written, told>>
          /\ late' = IF main \in Settled THEN late \cup {u} ELSE late \ {u}
      BY <2>4 DEF Write, Unlink, Rename, Begin, files, marks
    <3>2. Guarded' = Guarded
      BY <3>1 DEF Guarded
    <3>3. main' \in {"scan", "inject"} => late' = {}
      BY <2>1, <3>1 DEF LateInv, Settled
    <3>4. ASSUME NEW v \in late', op'[v].kind # "idle", block = "deny",
                 NEW p \in {op'[v].path, op'[v].to} \cap Guarded'
          PROVE  Pending(op'[v], inode'[p])
      <4>1. CASE v = u
        BY <2>4, <3>1, <3>2, <3>4, <4>1, LateBegins
      <4>2. CASE v # u
        BY <1>1, <2>2, <2>3, <3>4, <4>2
      <4> QED
        BY <4>1, <4>2
    <3> QED
      BY <1>0, <3>3, <3>4 DEF LateInv
  <2>5. CASE \/ \E x \in Paths : Create(u, x)
             \/ CheckInode(u) \/ Report(u) \/ Forget(u) \/ Effect(u)
    <3>1. late' = late
      BY <2>5 DEF Create, CheckInode, Report, Forget, Effect, history
    <3>2. ASSUME NEW v \in late', op'[v].kind # "idle", block = "deny",
                 NEW p \in {op'[v].path, op'[v].to} \cap Guarded'
          PROVE  Pending(op'[v], inode'[p])
      <4>1. CASE op'[v] = op[v]
        BY <1>1, <2>2, <3>1, <3>2, <4>1
      <4>2. CASE op'[v] # op[v]
        <5>1. v = u
          BY <2>3, <4>2
        <5>2. CheckInode(u) \/ Report(u) \/ Forget(u) \/ Effect(u)
          BY <2>5, <4>2 DEF Create
        <5> QED
          BY <1>2, <2>2, <3>1, <3>2, <4>2, <5>1, <5>2, LateProceeds
      <4> QED
        BY <4>1, <4>2
    <3> QED
      BY <1>0, <2>1, <3>1, <3>2 DEF LateInv
  <2> QED
    BY <1>2, <2>4, <2>5 DEF Program
<1>3. ASSUME NEW x \in Paths, ScanFile(x) PROVE LateInv'
  <2>1. late' = late /\ late = {}
    BY <1>3 DEF ScanFile, LateInv
  <2> QED
    BY <2>1 DEF LateInv
<1>4. CASE ClearAll
  <2>1. late' = {}
    BY <1>4 DEF ClearAll
  <2> QED
    BY <2>1 DEF LateInv
<1>5. ASSUME Reader \/ Main \/ Admin \/ UNCHANGED vars, ~ClearAll, \A x \in Paths : ~ScanFile(x)
      PROVE  LateInv'
  <2>1. op' = op /\ Guarded' \subseteq Guarded
    BY <1>5, AgentCalls, GuardedShrinks
  <2>2. late' = late /\ (main' \in {"scan", "inject"} => main \in {"scan", "inject"})
    <3> USE DEF history, agent
    <3>1. CASE Main
      BY <1>5, <3>1 DEF Main, Running, LoopHead, SendReturns, StatPath, AddInode, Injected, Reload, PopEvent,
                        PopTimeout, CheckFile, ApplyEvent
    <3>2. CASE Reader \/ Admin \/ UNCHANGED vars
      BY <3>2 DEF Reader, ReadEvent, ReadFails, Admin, Sighup, EditConf, vars
    <3> QED
      BY <1>5, <3>1, <3>2
  <2>3. ASSUME NEW v \in late', op'[v].kind # "idle", block = "deny",
               NEW p \in {op'[v].path, op'[v].to} \cap Guarded'
        PROVE  Pending(op'[v], inode'[p])
    BY <1>1, <2>1, <2>2, <2>3
  <2> QED
    BY <1>0, <2>2, <2>3 DEF LateInv
<1> QED
  BY <1>2, <1>3, <1>4, <1>5 DEF Next

-----------------------------------------------------------------------------
(* The watch list.                                                         *)

(* Every step keeps the watch lists in agreement.                          *)
LEMMA ConfKept ==
    ASSUME TypeOK, ConfInv, [Next]_vars
    PROVE  ConfInv'
<1>1. ASSUME UNCHANGED <<conf, newWatch, reload, untold>>,
             \/ main' \notin Settled
             \/ main \in Settled /\ watch' = watch
             \/ watch' = newWatch
      PROVE  ConfInv'
  BY <1>1 DEF ConfInv
<1>2. ASSUME NEW u \in Users, Program(u) PROVE ConfInv'
  <2>1. UNCHANGED <<conf, newWatch, reload, untold, main, watch>>
    <3>1. UNCHANGED <<newWatch, main, watch>>
      BY <1>2, ProgramAgent
    <3>2. UNCHANGED <<conf, reload, untold>>
      BY <1>2 DEF Program, Write, Unlink, Rename, Begin, Create, CheckInode, Report, Forget,
                  Effect, signals, history
    <3> QED
      BY <3>1, <3>2
  <2> QED
    BY <1>1, <2>1
<1>3. CASE Reload
  <2>1. /\ UNCHANGED <<conf, watch>> /\ main = "reload"
        /\ \/ newWatch' = conf /\ main' = "clear"
           \/ untold' = TRUE /\ main' = "pop" /\ UNCHANGED newWatch
    BY <1>3 DEF Reload
  <2> QED
    BY <2>1 DEF ConfInv, Settled
<1>4. CASE Sighup
  <2>1. UNCHANGED <<conf, newWatch, main, watch>> /\ reload' = TRUE
    BY <1>4 DEF Sighup, agent
  <2> QED
    BY <2>1 DEF ConfInv
<1>5. ASSUME NEW S \in WatchLists, EditConf(S) PROVE ConfInv'
  <2>1. UNCHANGED <<newWatch, main, watch>> /\ untold' = TRUE
    BY <1>5 DEF EditConf, agent
  <2> QED
    BY <2>1 DEF ConfInv
<1>6. ASSUME Main, ~Reload PROVE ConfInv'
  <2>1. UNCHANGED <<conf, newWatch, reload, untold>>
    BY <1>6 DEF Main, Running, LoopHead, SendReturns, ScanFile, StatPath, ClearAll, AddInode, Injected, PopEvent,
                PopTimeout, CheckFile, ApplyEvent, signals, history
  <2>2. \/ main' \notin Settled
        \/ main \in Settled /\ watch' = watch
        \/ watch' = newWatch
    BY <1>6 DEF Main, Running, LoopHead, SendReturns, ScanFile, StatPath, ClearAll, AddInode, Injected, PopEvent,
                PopTimeout, CheckFile, ApplyEvent, Settled
  <2> QED
    BY <1>1, <2>1, <2>2
<1>7. ASSUME Reader \/ UNCHANGED vars PROVE ConfInv'
  <2>1. UNCHANGED <<conf, newWatch, reload, untold, main, watch>>
    BY <1>7 DEF Reader, ReadEvent, ReadFails, vars, signals, history, agent
  <2> QED
    BY <1>1, <2>1
<1> QED
  BY <1>2, <1>3, <1>4, <1>5, <1>6, <1>7 DEF Next, Admin

-----------------------------------------------------------------------------
(* The start.                                                              *)
LEMMA InitInd == Init => IndInv
<1> SUFFICES ASSUME Init PROVE IndInv
  OBVIOUS
<1> USE GuardAssumption
<1>1. TypeOK
  <2>1. Flags /\ FifoSize \in Nat /\ QueueSize \in Nat
    BY DEF Init, Flags
  <2>2. op \in [Users -> Calls]
    BY IdleType DEF Init
  <2>3. FirstWatch \subseteq Paths
    OBVIOUS
  <2> QED
    BY <2>1, <2>2, <2>3 DEF Init, TypeOK
<1>2. CallInv /\ (\A u \in Users : op[u].kind = "idle")
  BY DEF Init, CallInv, CallOK, Idle
<1>3. NameInv
  BY <1>2 DEF Init, NameInv
<1>4. EventInv
  BY DEF Init, EventInv, Tell
<1>5. BaselineInv
  BY DEF Init, BaselineInv, Intact
<1>6. PolicyInv
  BY DEF Init, PolicyInv, Settled
<1>7. LateInv
  BY DEF Init, LateInv
<1>8. ConfInv
  BY DEF Init, ConfInv
<1> QED
  BY <1>1, <1>2, <1>3, <1>4, <1>5, <1>6, <1>7, <1>8 DEF IndInv

(* The types, what calls, names, events and the watch list are like, and   *)
(* how baseline and policy table follow the files hold in every state,     *)
(* whatever the number of files, programs and calls.                       *)
THEOREM Invariance == Spec => []IndInv
<1>1. Init => IndInv
  BY InitInd
<1>2. IndInv /\ [Next]_vars => IndInv'
  BY TypeKept, CallKept, NameKept, EventKept, BaselineKept, PolicyKept, LateKept, ConfKept
     DEF IndInv
<1> QED
  BY <1>1, <1>2, PTL DEF Spec

(* A scanned file that lost neither name nor policy to a call, and that    *)
(* the agent could read whenever it had to, is in the policy table, under  *)
(* its own path, once the injection is done and after every reload         *)
(* (lkm_add_from_baseline, inode_policy_add).                              *)
THEOREM FilesStayWatched == Spec => []StaysWatched
<1>1. IndInv => StaysWatched
  BY GuardedFacts DEF IndInv, StaysWatched, PolicyInv, EntryOf
<1> QED
  BY <1>1, Invariance, PTL

(* In lock mode the hooks let no call through that began after the         *)
(* injection and names a guarded file (ig_check_inode, ig_inode_rename).   *)
THEOREM LockModeRefuses == Spec => []LockRefuses
<1>1. ASSUME LateInv PROVE LockRefuses
  <2>1. ASSUME NEW u \in late, op[u].todo = <<>>, NEW i PROVE ~Pending(op[u], i)
    BY <2>1 DEF Pending
  <2> QED
    BY <1>1, <2>1 DEF LateInv, LockRefuses
<1> QED
  BY <1>1, Invariance, PTL DEF IndInv

(* The baseline keeps the entry and the hash of every scanned file that no *)
(* call got through to and that could be read when its events were handled *)
(* (process_event, ig_baseline_db_update, ig_baseline_db_remove).          *)
THEOREM BaselineStaysIntact == Spec => []BaselineIntact
<1>1. NameInv /\ BaselineInv => BaselineIntact
  BY DEF NameInv, BaselineInv, Intact, BaselineIntact
<1> QED
  BY <1>1, Invariance, PTL DEF IndInv

(* No SIGHUP is lost, whenever it comes (g_reload, reload_config).         *)
THEOREM SighupIsServed == Spec => []SighupNotLost
<1>1. ConfInv => SighupNotLost
  BY DEF ConfInv, SighupNotLost
<1> QED
  BY <1>1, Invariance, PTL DEF IndInv

=============================================================================

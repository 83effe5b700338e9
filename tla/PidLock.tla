------------------------------- MODULE PidLock -------------------------------
(***************************************************************************)
(* One agent per machine: Agent/src/core/pid_lock.c as main.c uses it.     *)
(* A process opens the PID file, creating it if need be, and takes an      *)
(* fcntl lock on the file it opened; a process that ends in order closes   *)
(* the file, which drops the lock, and then removes the name.  Name and    *)
(* file are two things: a lock is on the file (the inode), the next        *)
(* process finds the file by its name.                                     *)
(***************************************************************************)
EXTENDS Integers

CONSTANTS
    Procs,   \* agent processes, each started once
    None

ASSUME PidLockAssumption == None \notin Procs

(* A file is named by the process that created it.                         *)
VARIABLES
    name,   \* the file IG_PID_FILE names, or None
    fd,     \* fd[p]: g_lock_fd, the file p has open, or None
    lock,   \* lock[f]: the process that holds the write lock of f, or None
    at      \* where a process is

lockVars == <<name, fd, lock, at>>

LockInit ==
    /\ name = None
    /\ fd = [p \in Procs |-> None]
    /\ lock = [f \in Procs |-> None]
    /\ at = [p \in Procs |-> "idle"]

Goto(p, label) == at' = [at EXCEPT ![p] = label]

(* The kernel drops the locks of a process when it closes the file.        *)
CloseFd(p) ==
    /\ fd' = [fd EXCEPT ![p] = None]
    /\ lock' = [f \in Procs |-> IF lock[f] = p THEN None ELSE lock[f]]

-----------------------------------------------------------------------------
(* pid_lock_acquire: open with O_CREAT, then F_SETLK.                      *)

Open(p) ==
    /\ at[p] = "idle"
    /\ name' = IF name = None THEN p ELSE name
    /\ fd' = [fd EXCEPT ![p] = name']
    /\ Goto(p, "opened")
    /\ UNCHANGED lock

AcquireIgnoresLock(p) ==    \* mutated form: F_SETLK's error is not looked at
    /\ at[p] = "opened"
    /\ lock' = IF lock[fd[p]] = None THEN [lock EXCEPT ![fd[p]] = p] ELSE lock
    /\ Goto(p, "running")
    /\ UNCHANGED <<name, fd>>

Acquire(p) ==
    /\ at[p] = "opened" /\ lock[fd[p]] = None
    /\ lock' = [lock EXCEPT ![fd[p]] = p]
    /\ Goto(p, "running")
    /\ UNCHANGED <<name, fd>>

(* main prints "Already running or PID lock failed" and returns.           *)
Refuse(p) ==
    /\ at[p] = "opened" /\ lock[fd[p]] # None
    /\ CloseFd(p)
    /\ Goto(p, "refused")
    /\ UNCHANGED name

-----------------------------------------------------------------------------
(* pid_lock_release, at the end of main.                                   *)

ReleaseClose(p) ==
    /\ at[p] = "running"
    /\ CloseFd(p)
    /\ Goto(p, "unlink")
    /\ UNCHANGED name

ReleaseUnlink(p) ==
    /\ at[p] = "unlink"
    /\ name' = None
    /\ Goto(p, "exited")
    /\ UNCHANGED <<fd, lock>>

KillLeavesLock(p) ==        \* mutated form: a lock that outlives its process
    /\ at[p] \in {"opened", "running", "unlink"}
    /\ fd' = [fd EXCEPT ![p] = None]
    /\ Goto(p, "killed")
    /\ UNCHANGED <<name, lock>>

(* SIGKILL, a crash: the kernel closes the file, the name stays.           *)
Kill(p) ==
    /\ at[p] \in {"opened", "running", "unlink"}
    /\ CloseFd(p)
    /\ Goto(p, "killed")
    /\ UNCHANGED name

LockNext ==
    \E p \in Procs : \/ Open(p) \/ Acquire(p) \/ Refuse(p)
                     \/ ReleaseClose(p) \/ ReleaseUnlink(p) \/ Kill(p)

LockSpec == LockInit /\ [][LockNext]_lockVars

-----------------------------------------------------------------------------
(* Properties.                                                             *)

(* Every variable has its type.                                            *)
LockTypeOK ==
    /\ name \in Procs \cup {None}
    /\ fd \in [Procs -> Procs \cup {None}]
    /\ lock \in [Procs -> Procs \cup {None}]
    /\ at \in [Procs -> {"idle", "opened", "running", "refused", "unlink",
                        "exited", "killed"}]

(* What main relies on ("Already running or PID lock failed"): two         *)
(* processes are never past pid_lock_acquire at the same time.             *)
Exclusive ==
    \A p, q \in Procs : at[p] = "running" /\ at[q] = "running" => p = q

(* What holds of it: the file is created once and its lock excludes, over  *)
(* any number of starts and crashes, until a process that ends in order    *)
(* has removed the name.                                                   *)
ExclusiveUntilRemoved == (\A p \in Procs : at[p] # "exited") => Exclusive

(* pid_lock.h: "on an abnormal end the OS drops the lock": a process is    *)
(* refused only while another one runs, never by what a dead one left.     *)
RefusedOnlyByRunning ==
    [][ \A p \in Procs :
          at[p] = "opened" /\ at'[p] = "refused" =>
             \E q \in Procs : at[q] = "running" /\ lock[fd[p]] = q ]_lockVars
=============================================================================

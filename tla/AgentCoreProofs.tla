------------------------- MODULE AgentCoreProofs -------------------------
(***************************************************************************)
(* Proofs about two small parts of the agent: the event queue, for every   *)
(* ring size and every number of events (the ring invariants, and that the *)
(* ring implements BoundedFifo), and the PID lock, for any number of       *)
(* processes.                                                              *)
(***************************************************************************)
EXTENDS EventQueue, PidLock, TLAPS

(* The % of the code is a wrap-around, because its argument is at most the *)
(* ring size.                                                              *)
LEMMA NextSlotWraps ==
    ASSUME NEW i \in Slots
    PROVE  /\ NextSlot(i) = IF i + 1 = QueueSize THEN 0 ELSE i + 1
           /\ NextSlot(i) \in Slots
  <1>1. CASE i + 1 = QueueSize
    BY <1>1, QueueSizeAssumption DEF NextSlot, Slots
  <1>2. CASE i + 1 < QueueSize
    BY <1>2, QueueSizeAssumption DEF NextSlot, Slots
  <1>3. QED
    BY <1>1, <1>2, QueueSizeAssumption DEF Slots

(* Initially the ring is empty and all the counters are 0.                 *)
LEMMA InitIndInv == Init => IndInv
  BY QueueSizeAssumption, MaxPushAssumption
  DEF Init, IndInv, TypeOK, RingShape, HoldsNewest, NothingUnaccounted, Slots

(* What TypeOK says of the integers of the ring, for the arithmetic steps. *)
Ranges ==
    /\ QueueSize \in Int /\ QueueSize > 0
    /\ head \in Int /\ 0 <= head /\ head < QueueSize
    /\ tail \in Int /\ 0 <= tail /\ tail < QueueSize
    /\ count \in Int /\ 0 <= count /\ count <= QueueSize
    /\ pushed \in Int /\ 0 <= pushed /\ pushed <= MaxPush
    /\ dropped \in Nat /\ handled \in Nat

(* The integer bounds that the type invariant gives.                        *)
LEMMA TypeRanges == TypeOK => Ranges
  BY QueueSizeAssumption, MaxPushAssumption DEF TypeOK, Ranges, Slots

(* The slot of the i-th oldest event is a slot.                            *)
LEMMA SlotOfType ==
    ASSUME Ranges, NEW i \in 0 .. QueueSize - 1
    PROVE  SlotOf(i) \in Slots
  BY DEF Ranges, SlotOf, Slots

(* ig_queue_push on a ring with room: only tail and count move.            *)
PushRoom ==
    /\ count < QueueSize
    /\ head' = head /\ count' = count + 1 /\ dropped' = dropped

(* ig_queue_push on a full ring: head and tail move together.              *)
PushFull ==
    /\ count = QueueSize
    /\ head' = NextSlot(head) /\ count' = count /\ dropped' = dropped + 1

PushCommon ==
    /\ pushed' = pushed + 1 /\ pushed < MaxPush
    /\ tail' = NextSlot(tail)
    /\ events' = [events EXCEPT ![tail] = pushed + 1]
    /\ UNCHANGED <<running, pc, last_dropped, handled, current>>

(* A push finds room or overwrites the oldest event.                       *)
LEMMA PushCases ==
    ASSUME TypeOK, ig_queue_push
    PROVE  PushCommon /\ (PushRoom \/ PushFull)
  BY QueueSizeAssumption
  DEF ig_queue_push, PushCommon, PushRoom, PushFull, RingFull, DropOldest,
      TypeOK, mainVars

(* ig_queue_push keeps the ring in shape and overwrites the oldest event.  *)
LEMMA PushIndInv == IndInv /\ ig_queue_push => IndInv'
  <1> SUFFICES ASSUME IndInv, ig_queue_push PROVE IndInv'
    OBVIOUS
  <1>0. TypeOK /\ RingShape /\ HoldsNewest /\ NothingUnaccounted
    BY DEF IndInv
  <1>r. Ranges
    BY <1>0, TypeRanges
  <1>p. PushCommon /\ (PushRoom \/ PushFull)
    BY <1>0, PushCases
  <1>n. /\ NextSlot(head) = IF head + 1 = QueueSize THEN 0 ELSE head + 1
        /\ NextSlot(tail) = IF tail + 1 = QueueSize THEN 0 ELSE tail + 1
        /\ NextSlot(head) \in Slots /\ NextSlot(tail) \in Slots
    BY <1>0, NextSlotWraps DEF TypeOK
  <1>1. TypeOK'
    <2>1. events' \in [Slots -> 0 .. MaxPush]
      <3>1. pushed + 1 \in 0 .. MaxPush
        BY <1>r, <1>p, MaxPushAssumption DEF Ranges, PushCommon
      <3>2. QED
        BY <1>0, <1>p, <3>1 DEF TypeOK, PushCommon
    <2>2. head' \in Slots /\ tail' \in Slots
      BY <1>0, <1>p, <1>n DEF TypeOK, PushCommon, PushRoom, PushFull
    <2>3. count' \in 0 .. QueueSize /\ dropped' \in Nat
      BY <1>r, <1>p DEF Ranges, PushRoom, PushFull
    <2>4. pushed' \in 0 .. MaxPush
      BY <1>r, <1>p, MaxPushAssumption DEF Ranges, PushCommon
    <2>5. QED
      BY <1>0, <1>p, <2>1, <2>2, <2>3, <2>4 DEF TypeOK, PushCommon
  <1>2. RingShape'
    <2>1. CASE PushRoom
      BY <1>0, <1>r, <1>p, <1>n, <2>1 DEF RingShape, Ranges, PushCommon, PushRoom
    <2>2. CASE PushFull
      BY <1>0, <1>r, <1>p, <1>n, <2>2 DEF RingShape, Ranges, PushCommon, PushFull
    <2>3. QED
      BY <1>p, <2>1, <2>2
  <1>3. HoldsNewest'
    <2> SUFFICES ASSUME NEW i \in 0 .. QueueSize - 1, i < count'
                 PROVE  events'[SlotOf(i)'] = pushed' - count' + 1 + i
      BY DEF HoldsNewest
    <2>e. \A s \in Slots : events'[s] = IF s = tail THEN pushed + 1 ELSE events[s]
      BY <1>0, <1>p DEF TypeOK, PushCommon
    <2>1. CASE PushRoom
      <3>1. SlotOf(i)' = SlotOf(i) /\ SlotOf(i) \in Slots
        BY <1>r, <2>1, SlotOfType DEF SlotOf, PushRoom
      <3>2. CASE i = count
        <4>1. SlotOf(i) = tail
          BY <1>0, <3>2 DEF RingShape, SlotOf
        <4>2. QED
          BY <1>r, <1>p, <2>e, <2>1, <3>1, <3>2, <4>1 DEF Ranges, PushCommon, PushRoom
      <3>3. CASE i < count
        <4>1. SlotOf(i) # tail
          BY <1>0, <1>r, <2>1, <3>3 DEF RingShape, SlotOf, Ranges, PushRoom
        <4>2. events[SlotOf(i)] = pushed - count + 1 + i
          BY <1>0, <3>3 DEF HoldsNewest
        <4>3. QED
          BY <1>r, <1>p, <2>e, <2>1, <3>1, <4>1, <4>2 DEF Ranges, PushCommon, PushRoom
      <3>4. QED
        BY <1>r, <2>1, <3>2, <3>3 DEF Ranges, PushRoom
    <2>2. CASE PushFull
      <3>1. CASE i = count - 1
        <4>1. SlotOf(i)' = tail
          BY <1>0, <1>r, <1>n, <2>2, <3>1 DEF RingShape, SlotOf, Ranges, PushFull
        <4>2. QED
          BY <1>0, <1>r, <1>p, <2>e, <2>2, <3>1, <4>1
          DEF TypeOK, Ranges, PushCommon, PushFull
      <3>2. CASE i < count - 1
        <4>1. i + 1 \in 0 .. QueueSize - 1 /\ i + 1 < count
          BY <1>r, <2>2, <3>2 DEF Ranges, PushFull
        <4>2. events[SlotOf(i + 1)] = pushed - count + 1 + (i + 1)
          BY <1>0, <4>1 DEF HoldsNewest
        <4>3. SlotOf(i)' = SlotOf(i + 1)
          BY <1>r, <1>n, <2>2, <4>1 DEF SlotOf, Ranges, PushFull
        <4>4. SlotOf(i + 1) # tail
          BY <1>0, <1>r, <2>2, <4>1 DEF RingShape, SlotOf, Ranges, PushFull
        <4>5. SlotOf(i + 1) \in Slots
          BY <1>r, <4>1, SlotOfType
        <4>6. QED
          BY <1>r, <1>p, <2>e, <2>2, <4>2, <4>3, <4>4, <4>5
          DEF Ranges, PushCommon, PushFull
      <3>3. QED
        BY <1>r, <2>2, <3>1, <3>2 DEF Ranges, PushFull
    <2>3. QED
      BY <1>p, <2>1, <2>2
  <1>4. NothingUnaccounted'
    BY <1>0, <1>r, <1>p
    DEF NothingUnaccounted, Ranges, PushCommon, PushRoom, PushFull
  <1>5. QED
    BY <1>1, <1>2, <1>3, <1>4 DEF IndInv

(* ig_queue_pop takes the oldest event and leaves the others in place.     *)
LEMMA PopIndInv == IndInv /\ PopEvent => IndInv'
  <1> SUFFICES ASSUME IndInv, PopEvent PROVE IndInv'
    OBVIOUS
  <1>0. TypeOK /\ RingShape /\ HoldsNewest /\ NothingUnaccounted
    BY DEF IndInv
  <1>r. Ranges
    BY <1>0, TypeRanges
  <1>p. /\ count > 0 /\ count' = count - 1
        /\ head' = NextSlot(head) /\ handled' = handled + 1
        /\ current' = events[head] /\ pc' = "process"
        /\ UNCHANGED <<events, tail, dropped, running, last_dropped, pushed>>
    BY DEF PopEvent
  <1>n. /\ NextSlot(head) = IF head + 1 = QueueSize THEN 0 ELSE head + 1
        /\ NextSlot(head) \in Slots
    BY <1>0, NextSlotWraps DEF TypeOK
  <1>1. TypeOK'
    <2>1. count' \in 0 .. QueueSize /\ handled' \in Nat
      BY <1>r, <1>p DEF Ranges
    <2>2. current' \in 0 .. MaxPush
      BY <1>0, <1>p DEF TypeOK
    <2>3. QED
      BY <1>0, <1>p, <1>n, <2>1, <2>2 DEF TypeOK
  <1>2. RingShape'
    BY <1>0, <1>r, <1>p, <1>n DEF RingShape, Ranges
  <1>3. HoldsNewest'
    <2> SUFFICES ASSUME NEW i \in 0 .. QueueSize - 1, i < count'
                 PROVE  events'[SlotOf(i)'] = pushed' - count' + 1 + i
      BY DEF HoldsNewest
    <2>1. i + 1 \in 0 .. QueueSize - 1 /\ i + 1 < count
      BY <1>r, <1>p DEF Ranges
    <2>2. events[SlotOf(i + 1)] = pushed - count + 1 + (i + 1)
      BY <1>0, <2>1 DEF HoldsNewest
    <2>3. SlotOf(i)' = SlotOf(i + 1)
      BY <1>r, <1>p, <1>n, <2>1 DEF SlotOf, Ranges
    <2>4. QED
      BY <1>r, <1>p, <2>2, <2>3 DEF Ranges
  <1>4. NothingUnaccounted'
    BY <1>0, <1>r, <1>p DEF NothingUnaccounted, Ranges
  <1>5. QED
    BY <1>1, <1>2, <1>3, <1>4 DEF IndInv

(* Every other step of the main loop, and the stop signal, leaves the ring *)
(* alone.                                                                  *)
LEMMA QuietIndInv ==
    ASSUME IndInv,
           PopWait \/ PopWake \/ PopTimeout \/ ProcessReturns \/ CheckDropped \/ Stop
           \/ UNCHANGED vars
    PROVE  IndInv'
  <1>0. TypeOK /\ RingShape /\ HoldsNewest /\ NothingUnaccounted
    BY DEF IndInv
  <1>1. UNCHANGED <<events, head, tail, count, dropped, pushed, handled, current>>
    BY DEF PopWait, PopWake, PopTimeout, ProcessReturns, CheckDropped, Stop, vars, ringVars, histVars
  <1>2. /\ running' \in BOOLEAN /\ last_dropped' \in Nat
        /\ pc' \in {"pop", "process", "wait", "check", "done"}
    BY <1>0 DEF TypeOK, PopWait, PopWake, PopTimeout, ProcessReturns, CheckDropped, Stop, vars
  <1>3. TypeOK'
    BY <1>0, <1>1, <1>2 DEF TypeOK
  <1>4. RingShape' /\ HoldsNewest' /\ NothingUnaccounted'
    BY <1>0, <1>1 DEF RingShape, HoldsNewest, NothingUnaccounted, SlotOf
  <1>5. QED
    BY <1>3, <1>4 DEF IndInv

(* The inductive invariant is preserved by every step.                     *)
LEMMA NextIndInv == IndInv /\ [Next]_vars => IndInv'
  BY PushIndInv, PopIndInv, QuietIndInv DEF Next, MainStep

(* For every ring size: the inductive invariant of ig_queue_push and       *)
(* ig_queue_pop.                                                           *)
THEOREM Invariance == Spec => []IndInv
  BY InitIndInv, NextIndInv, PTL DEF Spec

(* For every ring size: the type invariant of the queue.                   *)
THEOREM TypeCorrect == Spec => []TypeOK
  <1>1. IndInv => TypeOK
    BY DEF IndInv
  <1>2. QED
    BY <1>1, Invariance, PTL

(* For every ring size: the ring holds the newest events, in order.        *)
THEOREM NewestHeld == Spec => []HoldsNewest
  <1>1. IndInv => HoldsNewest
    BY DEF IndInv
  <1>2. QED
    BY <1>1, Invariance, PTL

(* For every ring size: no event is lost without being counted.            *)
THEOREM Accounted == Spec => []NothingUnaccounted
  <1>1. IndInv => NothingUnaccounted
    BY DEF IndInv
  <1>2. QED
    BY <1>1, Invariance, PTL

-----------------------------------------------------------------------------
(* The refinement: each step of the ring is a step of the FIFO queue or    *)
(* leaves it alone.                                                        *)

(* The ring read oldest first is a sequence of count events.               *)
LEMMA ContentSeq ==
    ASSUME TypeOK
    PROVE  /\ Content \in Seq(0 .. MaxPush)
           /\ Len(Content) = count
           /\ \A i \in 1 .. count : Content[i] = events[SlotOf(i - 1)]
  <1>r. Ranges
    BY TypeRanges
  <1>1. \A i \in 1 .. count : events[SlotOf(i - 1)] \in 0 .. MaxPush
    <2> TAKE i \in 1 .. count
    <2>1. i - 1 \in 0 .. QueueSize - 1
      BY <1>r DEF Ranges
    <2>2. SlotOf(i - 1) \in Slots
      BY <1>r, <2>1, SlotOfType
    <2>3. QED
      BY <2>2 DEF TypeOK
  <1>2. QED
    BY <1>r, <1>1 DEF Content, Ranges

(* The content as serial numbers: consecutive, ending with the newest.     *)
ContentSerials ==
    /\ Content \in Seq(0 .. MaxPush) /\ Len(Content) = count
    /\ \A i \in 1 .. count : Content[i] = pushed - count + i

(* Its events are the newest ones, by serial number.                       *)
LEMMA ContentIs == TypeOK /\ HoldsNewest => ContentSerials
  <1> SUFFICES ASSUME TypeOK, HoldsNewest PROVE ContentSerials
    OBVIOUS
  <1>r. Ranges
    BY TypeRanges
  <1>c. /\ Content \in Seq(0 .. MaxPush) /\ Len(Content) = count
        /\ \A i \in 1 .. count : Content[i] = events[SlotOf(i - 1)]
    BY ContentSeq
  <1>1. \A i \in 1 .. count : Content[i] = pushed - count + i
    <2> TAKE i \in 1 .. count
    <2>1. i - 1 \in 0 .. QueueSize - 1 /\ i - 1 < count
      BY <1>r DEF Ranges
    <2>2. events[SlotOf(i - 1)] = pushed - count + 1 + (i - 1)
      BY <2>1 DEF HoldsNewest
    <2>3. QED
      BY <1>r, <1>c, <2>2 DEF Ranges
  <1>2. QED
    BY <1>c, <1>1 DEF ContentSerials

(* The same in the next state.                                             *)
LEMMA ContentIsPrimed == TypeOK' /\ HoldsNewest' => ContentSerials'
  BY ContentIs, PTL

(* A push puts one event in the FIFO queue, the oldest making room for it  *)
(* when the ring is full.                                                  *)
LEMMA PushIsPut == IndInv /\ IndInv' /\ ig_queue_push => Fifo!Put
  <1> SUFFICES ASSUME IndInv, IndInv', ig_queue_push PROVE Fifo!Put
    OBVIOUS
  <1>0. TypeOK /\ RingShape /\ HoldsNewest /\ TypeOK' /\ HoldsNewest'
    BY DEF IndInv
  <1>r. Ranges
    BY <1>0, TypeRanges
  <1>p. PushCommon /\ (PushRoom \/ PushFull)
    BY <1>0, PushCases
  <1>c. /\ Content \in Seq(0 .. MaxPush) /\ Len(Content) = count
        /\ \A i \in 1 .. count : Content[i] = pushed - count + i
    BY <1>0, <1>r, ContentIs DEF ContentSerials
  <1>d. /\ Content' \in Seq(0 .. MaxPush) /\ Len(Content') = count'
        /\ \A i \in 1 .. count' : Content'[i] = pushed' - count' + i
    BY <1>0, ContentIsPrimed DEF ContentSerials
  <1>1. CASE PushRoom
    <2>1. Content' = Append(Content, pushed + 1)
      BY <1>r, <1>p, <1>c, <1>d, <1>1 DEF Ranges, PushRoom, PushCommon
    <2>2. QED
      BY <1>r, <1>p, <1>c, <1>1, <2>1 DEF Fifo!Put, Ranges, PushRoom, PushCommon
  <1>2. CASE PushFull
    <2>1. Content # <<>>
      BY <1>r, <1>c, <1>2 DEF Ranges, PushFull
    <2>2. Content' = Append(Tail(Content), pushed + 1)
      BY <1>r, <1>p, <1>c, <1>d, <1>2, <2>1 DEF Ranges, PushFull, PushCommon
    <2>3. QED
      BY <1>r, <1>p, <1>c, <1>2, <2>2 DEF Fifo!Put, Ranges, PushFull, PushCommon
  <1>3. QED
    BY <1>p, <1>1, <1>2

(* A pop takes the oldest event out of the FIFO queue.                     *)
LEMMA PopIsTake == IndInv /\ IndInv' /\ PopEvent => Fifo!Take
  <1> SUFFICES ASSUME IndInv, IndInv', PopEvent PROVE Fifo!Take
    OBVIOUS
  <1>0. TypeOK /\ RingShape /\ HoldsNewest /\ TypeOK' /\ HoldsNewest'
    BY DEF IndInv
  <1>r. Ranges
    BY <1>0, TypeRanges
  <1>p. /\ count > 0 /\ count' = count - 1
        /\ current' = events[head]
        /\ UNCHANGED <<dropped, pushed>>
    BY DEF PopEvent
  <1>c. /\ Content \in Seq(0 .. MaxPush) /\ Len(Content) = count
        /\ \A i \in 1 .. count : Content[i] = pushed - count + i
    BY <1>0, <1>r, ContentIs DEF ContentSerials
  <1>d. /\ Content' \in Seq(0 .. MaxPush) /\ Len(Content') = count'
        /\ \A i \in 1 .. count' : Content'[i] = pushed' - count' + i
    BY <1>0, ContentIsPrimed DEF ContentSerials
  <1>1. Content # <<>>
    BY <1>r, <1>c, <1>p DEF Ranges
  <1>2. Content' = Tail(Content)
    BY <1>r, <1>p, <1>c, <1>d, <1>1 DEF Ranges
  <1>3. current' = Head(Content)
    <2>1. SlotOf(0) = head /\ 0 \in 0 .. QueueSize - 1
      BY <1>r DEF SlotOf, Ranges
    <2>2. events[head] = pushed - count + 1
      BY <1>0, <1>r, <1>p, <2>1 DEF HoldsNewest, Ranges
    <2>3. QED
      BY <1>r, <1>p, <1>c, <1>1, <2>2 DEF Ranges
  <1>4. QED
    BY <1>p, <1>1, <1>2, <1>3 DEF Fifo!Take

(* For every ring size: the ring buffer implements the drop-oldest FIFO.   *)
THEOREM Refinement == Spec => ImplementsFifo
  <1>1. Init => Fifo!FifoInit
    BY QueueSizeAssumption DEF Init, Fifo!FifoInit, Content
  <1>2. IndInv /\ IndInv' /\ [Next]_vars => [Fifo!Put \/ Fifo!Take]_(Fifo!fifoVars)
    <2> SUFFICES ASSUME IndInv, IndInv', [Next]_vars
                 PROVE  [Fifo!Put \/ Fifo!Take]_(Fifo!fifoVars)
      OBVIOUS
    <2>1. CASE ig_queue_push
      BY <2>1, PushIsPut
    <2>2. CASE PopEvent
      BY <2>2, PopIsTake
    <2>3. CASE PopWait \/ PopWake \/ PopTimeout \/ ProcessReturns \/ CheckDropped \/ Stop \/ UNCHANGED vars
      <3>1. UNCHANGED <<events, head, count, dropped, pushed, current>>
        BY <2>3 DEF PopWait, PopWake, PopTimeout, ProcessReturns, CheckDropped, Stop, vars,
                    ringVars, histVars
      <3>2. QED
        BY <3>1 DEF Fifo!fifoVars, Content, SlotOf
    <2>4. QED
      BY <2>1, <2>2, <2>3 DEF Next, MainStep
  <1>3. QED
    BY <1>1, <1>2, Invariance, PTL DEF Spec, ImplementsFifo, Fifo!FifoSpec

-----------------------------------------------------------------------------
(* The PID lock of the agent works as long as nobody removes the file, for *)
(* any number of processes and any crashes: the name then stands for one   *)
(* file for ever, so everybody who runs holds the lock of that file.       *)

OneFile ==
    /\ \A p \in Procs : at[p] \in {"opened", "running"} => fd[p] = name /\ name # None
    /\ \A p \in Procs : at[p] = "running" => lock[name] = p

LockInv == LockTypeOK /\ ((\A p \in Procs : at[p] # "exited") => OneFile)

(* Until an orderly exit removes the name there is one file, and its lock  *)
(* has one owner.                                                          *)
THEOREM LockInvariance == LockSpec => []LockInv
<1> USE PidLockAssumption DEF LockInv, OneFile, LockTypeOK
<1>1. LockInit => LockInv
  BY DEF LockInit
<1>2. LockInv /\ [LockNext]_lockVars => LockInv'
  <2> SUFFICES ASSUME LockInv, [LockNext]_lockVars PROVE LockInv'
    OBVIOUS
  <2>1. ASSUME NEW p \in Procs, Open(p) PROVE LockInv'
    BY <2>1 DEF Open, Goto
  <2>2. ASSUME NEW p \in Procs, Acquire(p) PROVE LockInv'
    BY <2>2 DEF Acquire, Goto
  <2>3. ASSUME NEW p \in Procs, Refuse(p) PROVE LockInv'
    BY <2>3 DEF Refuse, Goto, CloseFd
  <2>4. ASSUME NEW p \in Procs, ReleaseClose(p) PROVE LockInv'
    BY <2>4 DEF ReleaseClose, Goto, CloseFd
  <2>5. ASSUME NEW p \in Procs, ReleaseUnlink(p) PROVE LockInv'
    BY <2>5 DEF ReleaseUnlink, Goto
  <2>6. ASSUME NEW p \in Procs, Kill(p) PROVE LockInv'
    BY <2>6 DEF Kill, Goto, CloseFd
  <2>7. CASE UNCHANGED lockVars
    BY <2>7 DEF lockVars
  <2> QED
    BY <2>1, <2>2, <2>3, <2>4, <2>5, <2>6, <2>7 DEF LockNext
<1> QED
  BY <1>1, <1>2, PTL DEF LockSpec

(* Until an orderly exit has removed the file, two agents never run at the *)
(* same time, however many processes are started, refused or killed        *)
(* (main.c: "Already running ...").                                        *)
THEOREM MutualExclusion == LockSpec => []ExclusiveUntilRemoved
<1>1. LockInv => ExclusiveUntilRemoved
  BY DEF LockInv, OneFile, ExclusiveUntilRemoved, Exclusive
<1> QED
  BY LockInvariance, <1>1, PTL

OwnerRuns ==
    /\ LockTypeOK
    /\ \A p \in Procs : at[p] = "opened" => fd[p] # None
    /\ \A f \in Procs : lock[f] # None => at[lock[f]] = "running"

(* Locks belong to running processes, orderly exits and crashes included.  *)
THEOREM LocksAreOwned == LockSpec => []OwnerRuns
<1>1. LockInit => OwnerRuns
  BY DEF LockInit, OwnerRuns, LockTypeOK
<1>2. OwnerRuns /\ [LockNext]_lockVars => OwnerRuns'
  <2> SUFFICES ASSUME OwnerRuns, [LockNext]_lockVars PROVE OwnerRuns'
    OBVIOUS
  <2> USE PidLockAssumption
  <2>1. ASSUME NEW p \in Procs, Open(p) PROVE OwnerRuns'
    BY <2>1 DEF OwnerRuns, LockTypeOK, Open, Goto
  <2>2. ASSUME NEW p \in Procs, Acquire(p) PROVE OwnerRuns'
    BY <2>2 DEF OwnerRuns, LockTypeOK, Acquire, Goto
  <2>3. ASSUME NEW p \in Procs, Refuse(p) PROVE OwnerRuns'
    BY <2>3 DEF OwnerRuns, LockTypeOK, Refuse, Goto, CloseFd
  <2>4. ASSUME NEW p \in Procs, ReleaseClose(p) PROVE OwnerRuns'
    BY <2>4 DEF OwnerRuns, LockTypeOK, ReleaseClose, Goto, CloseFd
  <2>5. ASSUME NEW p \in Procs, ReleaseUnlink(p) PROVE OwnerRuns'
    BY <2>5 DEF OwnerRuns, LockTypeOK, ReleaseUnlink, Goto
  <2>6. ASSUME NEW p \in Procs, Kill(p) PROVE OwnerRuns'
    BY <2>6 DEF OwnerRuns, LockTypeOK, Kill, Goto, CloseFd
  <2>7. CASE UNCHANGED lockVars
    BY <2>7 DEF OwnerRuns, LockTypeOK, lockVars
  <2> QED
    BY <2>1, <2>2, <2>3, <2>4, <2>5, <2>6, <2>7 DEF LockNext
<1> QED
  BY <1>1, <1>2, PTL DEF LockSpec

(* A start is refused only while another agent runs: what a crash leaves   *)
(* behind never blocks a restart (pid_lock.h).                             *)
THEOREM CrashNeverBlocks == LockSpec => RefusedOnlyByRunning
<1>1. ASSUME OwnerRuns, [LockNext]_lockVars, NEW p \in Procs, at[p] = "opened", at'[p] = "refused"
      PROVE \E q \in Procs : at[q] = "running" /\ lock[fd[p]] = q
  <2>1. Refuse(p)
    BY <1>1 DEF LockNext, lockVars, OwnerRuns, LockTypeOK, Open, Acquire, Refuse, ReleaseClose,
                ReleaseUnlink, Kill, Goto
  <2> QED
    BY <1>1, <2>1 DEF OwnerRuns, LockTypeOK, Refuse
<1>2. OwnerRuns /\ [LockNext]_lockVars =>
        [\A p \in Procs :
           at[p] = "opened" /\ at'[p] = "refused" =>
             \E q \in Procs : at[q] = "running" /\ lock[fd[p]] = q]_lockVars
  BY <1>1
<1> QED
  BY LocksAreOwned, <1>2, PTL DEF LockSpec, RefusedOnlyByRunning
=============================================================================

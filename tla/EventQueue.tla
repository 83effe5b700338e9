----------------------------- MODULE EventQueue -----------------------------
(***************************************************************************)
(* The event queue between the kernel-event threads of the agent and its   *)
(* main thread (Agent/src/ig_queue.c), with the main loop that drains it   *)
(* (Agent/src/main.c, the while (g_running) loop).                         *)
(*                                                                         *)
(* Every queue operation runs under q->lock from its first to its last     *)
(* line, so each is one step; pthread_cond_timedwait is the only place     *)
(* where the lock is given up, so the wait of ig_queue_pop is a step       *)
(* boundary.  not_empty needs no state of its own: the wait may return at  *)
(* any time (signal, spurious wake-up, timeout).                           *)
(*                                                                         *)
(* The payload of an event is abstracted to its serial number, the         *)
(* position at which it was pushed; 0 is the memset value of a slot.       *)
(***************************************************************************)
EXTENDS Integers, Sequences

CONSTANTS
    QueueSize,   \* IG_EVENT_QUEUE_SIZE
    MaxPush      \* bound of the model: events the kernel threads produce

ASSUME QueueSizeAssumption == QueueSize \in Nat \ {0}
ASSUME MaxPushAssumption == MaxPush \in Nat

VARIABLES
    \* ig_event_queue_t
    events,        \* the ring
    head,          \* next slot to pop
    tail,          \* next slot to fill
    count,         \* occupied slots
    dropped,       \* events overwritten because the ring was full
    \* main()
    running,       \* g_running
    pc,            \* where the main thread is in its loop
    last_dropped,  \* the value of dropped that was last logged
    \* history
    pushed,        \* events pushed so far: the serial number of the newest
    handled,       \* events handed to process_event
    current        \* serial number of the event handed over last

ringVars == <<events, head, tail, count, dropped>>
mainVars == <<running, pc, last_dropped>>
histVars == <<pushed, handled, current>>
vars == <<events, head, tail, count, dropped,
          running, pc, last_dropped, pushed, handled, current>>

Slots == 0 .. QueueSize - 1

(* The index arithmetic of the ring: (i + 1) % IG_EVENT_QUEUE_SIZE.        *)
NextSlot(i) == (i + 1) % QueueSize

Init ==
    /\ events = [s \in Slots |-> 0]
    /\ head = 0 /\ tail = 0 /\ count = 0
    /\ dropped = 0
    /\ running = TRUE
    /\ pc = "pop"
    /\ last_dropped = 0
    /\ pushed = 0 /\ handled = 0 /\ current = 0

-----------------------------------------------------------------------------
(* ig_queue_push: a full ring gives up its oldest event first.             *)
RingFull == count >= QueueSize

(* Mutated form: the drop is not counted.                                  *)
DropUncounted ==
    /\ head' = NextSlot(head)
    /\ count' = count
    /\ UNCHANGED dropped

DropOldest ==
    /\ head' = NextSlot(head)
    /\ count' = count            \* count-- here, count++ for the new event
    /\ dropped' = dropped + 1

(* Mutated form: a full ring refuses the new event instead.                *)
PushDropsNewest ==
    /\ pushed < MaxPush
    /\ \/ /\ RingFull
          /\ dropped' = dropped + 1
          /\ UNCHANGED <<events, tail, count>>
       \/ /\ ~RingFull
          /\ count' = count + 1
          /\ events' = [events EXCEPT ![tail] = pushed + 1]
          /\ tail' = NextSlot(tail)
          /\ UNCHANGED dropped
    /\ pushed' = pushed + 1
    /\ UNCHANGED <<head, mainVars, handled, current>>

ig_queue_push ==
    /\ pushed < MaxPush
    /\ \/ RingFull /\ DropOldest
       \/ ~RingFull /\ count' = count + 1 /\ UNCHANGED <<head, dropped>>
    /\ events' = [events EXCEPT ![tail] = pushed + 1]
    /\ tail' = NextSlot(tail)
    /\ pushed' = pushed + 1
    /\ UNCHANGED <<mainVars, handled, current>>

(* ig_queue_pop finds an event, or goes to sleep on not_empty.             *)
PopSkipsFirst ==   \* mutated form: head moves before the slot is read
    /\ pc = "pop"
    /\ count > 0
    /\ current' = events[NextSlot(head)]
    /\ head' = NextSlot(head)
    /\ count' = count - 1
    /\ handled' = handled + 1
    /\ pc' = "process"
    /\ UNCHANGED <<events, tail, dropped, running, last_dropped, pushed>>

PopEvent ==
    /\ pc = "pop"
    /\ count > 0
    /\ current' = events[head]
    /\ head' = NextSlot(head)
    /\ count' = count - 1
    /\ handled' = handled + 1
    /\ pc' = "process"
    /\ UNCHANGED <<events, tail, dropped, running, last_dropped, pushed>>

(* process_event returns.  Its last call sends the event, and waits as     *)
(* long as the heartbeat thread has conn_lock, or for an ACK (Transport).  *)
ProcessReturns ==
    /\ pc = "process"
    /\ pc' = "check"
    /\ UNCHANGED <<ringVars, running, last_dropped, histVars>>

PopWait ==
    /\ pc = "pop"
    /\ count = 0
    /\ pc' = "wait"
    /\ UNCHANGED <<ringVars, running, last_dropped, histVars>>

(* pthread_cond_timedwait returns 0: signalled, or spuriously.  The loop   *)
(* then tests count again.                                                 *)
PopWake ==
    /\ pc = "wait"
    /\ pc' = "pop"
    /\ UNCHANGED <<ringVars, running, last_dropped, histVars>>

(* It returns ETIMEDOUT: ig_queue_pop gives up without looking at count    *)
(* again, even when an event arrived while it was waking up.               *)
PopTimeout ==
    /\ pc = "wait"
    /\ pc' = "check"
    /\ UNCHANGED <<ringVars, running, last_dropped, histVars>>

(* The rest of an iteration: ig_queue_dropped and the overflow warning,    *)
(* then the test of g_running.  Events still queued when the loop ends are *)
(* freed with the queue.                                                   *)
CheckForgets ==   \* mutated form: no comparison with the last value
    /\ pc = "check"
    /\ pc' = IF running THEN "pop" ELSE "done"
    /\ UNCHANGED <<ringVars, running, last_dropped, histVars>>

CheckDropped ==
    /\ pc = "check"
    /\ last_dropped' = dropped
    /\ pc' = IF running THEN "pop" ELSE "done"
    /\ UNCHANGED <<ringVars, running, histVars>>

(* SIGTERM or SIGINT.                                                      *)
Stop ==
    /\ running
    /\ running' = FALSE
    /\ UNCHANGED <<ringVars, pc, last_dropped, histVars>>

MainStep == PopEvent \/ PopWait \/ PopWake \/ PopTimeout \/ CheckDropped

Next == ig_queue_push \/ MainStep \/ ProcessReturns \/ Stop

Spec == Init /\ [][Next]_vars

(* The main thread is an ordinary runnable thread, and timedwait returns   *)
(* after 500 ms at the latest.  Nothing makes process_event return, nor    *)
(* events or signals happen.                                               *)
FairSpec == Spec /\ WF_vars(MainStep)

-----------------------------------------------------------------------------
(* Every variable has its type.                                            *)
TypeOK ==
    /\ events \in [Slots -> 0 .. MaxPush]
    /\ head \in Slots /\ tail \in Slots
    /\ count \in 0 .. QueueSize
    /\ dropped \in Nat /\ last_dropped \in Nat
    /\ running \in BOOLEAN
    /\ pc \in {"pop", "process", "wait", "check", "done"}
    /\ pushed \in 0 .. MaxPush /\ handled \in Nat
    /\ current \in 0 .. MaxPush

(* The slot that holds the i-th oldest event, without the % of the code.   *)
SlotOf(i) == IF head + i < QueueSize THEN head + i ELSE head + i - QueueSize

(* head, tail and count agree: tail is count slots after head, around the  *)
(* ring.  Four updates in two functions maintain it, with the full ring    *)
(* (head = tail, count = QueueSize) told from the empty one by count only. *)
RingShape ==
    tail = IF head + count < QueueSize
           THEN head + count ELSE head + count - QueueSize

(* The ring holds the `count' newest events, in the order they were pushed:*)
(* overwriting never leaves a hole, a duplicate or a stale event behind.   *)
HoldsNewest ==
    \A i \in 0 .. QueueSize - 1 :
        i < count => events[SlotOf(i)] = pushed - count + 1 + i

(* Every event pushed is handled, still queued or counted as dropped: the  *)
(* overflow warning of the main loop reports exactly what was lost.        *)
NothingUnaccounted == pushed = handled + dropped + count

(* Once the ring has overflowed, the main loop logs it, unless the agent   *)
(* stops first.                                                            *)
OverflowReported ==
    \A n \in 1 .. MaxPush : (dropped >= n) ~> (last_dropped >= n \/ ~running)

(* An event that was pushed is handled or overwritten, unless the agent is *)
(* told to stop: a push that races the timeout of ig_queue_pop is found by *)
(* the next call.                                                          *)
EventsDrained ==
    \A n \in 1 .. MaxPush :
        (pushed >= n) ~> (handled + dropped >= n \/ ~running)

(* Both promises of main's loop: what overflowed is logged, and what was   *)
(* pushed is handled or overwritten, unless process_event never returns    *)
(* from sending an event.                                                  *)
LoopKeepsUp == <>[](pc = "process") \/ (OverflowReported /\ EventsDrained)

(* The inductive invariant of the proofs.                                  *)
IndInv == TypeOK /\ RingShape /\ HoldsNewest /\ NothingUnaccounted

(* The ring read oldest first is the queue of BoundedFifo.                 *)
Content == [i \in 1 .. count |-> events[SlotOf(i - 1)]]

Fifo == INSTANCE BoundedFifo WITH
            Capacity <- QueueSize, q <- Content,
            puts <- pushed, lost <- dropped, got <- current

(* The ring buffer implements the drop-oldest FIFO.                        *)
ImplementsFifo == Fifo!FifoSpec

==============================================================================

----------------------------- MODULE EthernetDma -----------------------------
(***************************************************************************)
(* The Ethernet of the STM32 build and its pool of receive slots           *)
(* (platform/hal/drivers/impl/stm32/Ethernet.cpp).                         *)
(*                                                                         *)
(* A slot moves from the pool to a descriptor (HAL_ETH_RxAllocateCallback),*)
(* with the data the DMA puts in it to the chain of a frame                *)
(* (HAL_ETH_RxLinkCallback), to the caller of receive and back             *)
(* (release_frame).  Nothing but m_receiveMutex keeps these apart.         *)
(***************************************************************************)
EXTENDS Naturals, Sequences

CONSTANTS
  Tasks,           \* threads of the application
  ETH_RX_DESC_CNT,
  MaxSegments      \* slots a frame may span

VARIABLES
  m_running,
  allocated,  \* the slots with allocated set
  ring,       \* the HAL's descriptors in DMA order, each with its slot (0: none) and
              \* "dma", "more" or "last" for what the DMA has done with it
  chain,      \* the HAL's pRxStart: slots of a frame not complete yet
  lock,       \* the task in each mutex, 0 for none
  task        \* per task: its call, where it is, the packet it holds

vars == <<m_running, allocated, ring, chain, lock, task>>

\* RX_SLOT_COUNT
RX_SLOTS == 1 .. 2 * ETH_RX_DESC_CNT

Locks == {"state", "receive", "transmit"}
Operations == {"start", "stop", "transmit", "receive"}
Resting == [call |-> "none", pc |-> "idle", taken |-> 0, packet |-> <<>>]
Contents(s) == {s[i] : i \in DOMAIN s}

-----------------------------------------------------------------------------
(* Locks *)

\* The mutexes a call takes until it looks at m_running, in order.
LocksOf(call) ==
  CASE call = "start"    -> <<"transmit", "receive", "state">>
    [] call = "stop"     -> <<"transmit", "receive", "state">>
    [] call = "transmit" -> <<"transmit", "state">>
    [] call = "receive"  -> <<"receive", "state">>

Finish(t) ==
  /\ task' = [task EXCEPT ![t] = Resting]
  /\ lock' = [m \in Locks |-> IF lock[m] = t THEN 0 ELSE lock[m]]

Invoke(t, call) ==
  /\ task[t].pc = "idle"
  /\ task' = [task EXCEPT ![t] = [@ EXCEPT !.call = call, !.pc = "lock"]]
  /\ UNCHANGED <<m_running, allocated, ring, chain, lock>>

TakeLock(t) ==
  LET locks == LocksOf(task[t].call)
      mutex == locks[task[t].taken + 1]
  IN  /\ task[t].pc = "lock"
      /\ lock[mutex] = 0
      /\ lock' = [lock EXCEPT ![mutex] = t]
      /\ task' = [task EXCEPT ![t] = [@ EXCEPT !.taken = task[t].taken + 1,
                                               !.pc = IF task[t].taken = Len(locks) - 1
                                                      THEN "locked" ELSE "lock"]]
      /\ UNCHANGED <<m_running, allocated, ring, chain>>

-----------------------------------------------------------------------------
(* The callbacks and the HAL around them (the HAL is external) *)

available == RX_SLOTS \ allocated
IsFirstAvailable(s) == \A other \in available : s <= other
Unserved == {d \in DOMAIN ring : ring[d].slot = 0}
Empty == [slot |-> 0, state |-> "dma"]

\* ETH_UpdateDescriptor asks HAL_ETH_RxAllocateCallback for one slot after the other
\* until every descriptor has one or the pool is empty.  The search for a slot and its
\* marking are two steps of the code; here a descriptor is served in one.
Refill(t) ==
  /\ task[t].pc = "refill"
  /\ \/ /\ \E d \in Unserved, s \in available :
             /\ \A other \in Unserved : d <= other
             /\ IsFirstAvailable(s)
             /\ ring' = [ring EXCEPT ![d] = [Empty EXCEPT !.slot = s]]
             /\ allocated' = allocated \cup {s}
        /\ UNCHANGED <<m_running, lock, task>>
     \/ /\ Unserved = {} \/ available = {}
        /\ \/ /\ task[t].call = "start"
              /\ m_running' = TRUE
              /\ Finish(t)
           \/ /\ task[t].call = "receive"
              /\ task' = [task EXCEPT ![t] =
                            [@ EXCEPT !.pc = IF task[t].packet = <<>> THEN "wait" ELSE "copy"]]
              /\ UNCHANGED <<m_running, lock>>
        /\ UNCHANGED <<allocated, ring>>
  /\ UNCHANGED chain

\* Descriptors k + 1 to n hold segments of one frame, chain the ones before if k is 0.
IsRun(k, n) == \A e \in k + 1 .. n : ring[e].state = "more"
Segments(k, n) == n - k + IF k = 0 THEN Len(chain) ELSE 0

\* The DMA fills the descriptors in order while the device runs: a segment of a frame,
\* the last when the frame would otherwise grow too long.
Dma ==
  /\ m_running
  /\ \E d \in DOMAIN ring, state \in {"more", "last"} :
       /\ ring[d].state = "dma" /\ ring[d].slot # 0
       /\ \A e \in 1 .. d - 1 : ring[e].state \in {"more", "last"}
       /\ state = "more" =>
            \A k \in 0 .. d - 1 : IsRun(k, d - 1) => Segments(k, d - 1) < MaxSegments - 1
       /\ ring' = [ring EXCEPT ![d] = [@ EXCEPT !.state = state]]
  /\ UNCHANGED <<m_running, allocated, chain, lock, task>>

\* HAL_ETH_RxLinkCallback for the first n descriptors, which go to the end of the ring.
Linked(n) == chain \o [d \in 1 .. n |-> ring[d].slot]
Emptied(n) == [d \in DOMAIN ring |-> IF d + n \in DOMAIN ring THEN ring[d + n] ELSE Empty]

\* HAL_ETH_ReadData: every segment up to the first complete frame is linked.
ReadData(t) ==
  /\ task[t].pc = "read"
  /\ \E n \in 0 .. ETH_RX_DESC_CNT :
       /\ ring' = Emptied(n)
       /\ \/ /\ IsRun(0, n) /\ (n + 1 \in DOMAIN ring => ring[n + 1].state = "dma")
             /\ chain' = Linked(n)
             /\ task' = [task EXCEPT ![t] = [@ EXCEPT !.pc = "refill", !.packet = <<>>]]
          \/ /\ n > 0 /\ IsRun(0, n - 1) /\ ring[n].state = "last"
             /\ chain' = <<>>
             /\ task' = [task EXCEPT ![t] = [@ EXCEPT !.pc = "refill", !.packet = Linked(n)]]
  /\ UNCHANGED <<m_running, allocated, lock>>

-----------------------------------------------------------------------------
(* The interface *)

\* start while running, or the MAC, the filter or HAL_ETH_Start fail; else the
\* descriptors without a slot get one.
Start(t) ==
  /\ task[t].pc = "locked" /\ task[t].call = "start"
  /\ \/ Finish(t)
     \/ ~m_running /\ task' = [task EXCEPT ![t] = [@ EXCEPT !.pc = "refill"]] /\ UNCHANGED lock
  /\ UNCHANGED <<m_running, allocated, ring, chain>>

\* HAL_ETH_Stop, if it fails, leaves the device running; the descriptors keep their slots.
Stop(t) ==
  /\ task[t].pc = "locked" /\ task[t].call = "stop"
  /\ m_running' \in {m_running, FALSE}
  /\ Finish(t)
  /\ UNCHANGED <<allocated, ring, chain>>

\* isRunning has given the state mutex back; the frame goes out, or times out.
Transmit(t) ==
  /\ task[t].pc = "locked" /\ task[t].call = "transmit"
  /\ Finish(t)
  /\ UNCHANGED <<m_running, allocated, ring, chain>>

Receive(t) ==
  /\ task[t].pc = "locked" /\ task[t].call = "receive"
  /\ \/ ~m_running /\ Finish(t)
     \/ /\ m_running
        /\ task' = [task EXCEPT ![t] = [@ EXCEPT !.pc = "read"]]
        /\ lock' = [lock EXCEPT !["state"] = 0]
  /\ UNCHANGED <<m_running, allocated, ring, chain>>

\* Mutant: only the first buffer of the frame is given back.
Released_First(packet) == {packet[1]}

\* release_frame
Released(packet) == Contents(packet)

\* The frame is copied, or is too long for the caller, and its slots are given back; a
\* frame of another EtherType sends the call back to its loop.
Copy(t) ==
  /\ task[t].pc = "copy"
  /\ allocated' = allocated \ Released(task[t].packet)
  /\ \/ Finish(t)
     \/ task' = [task EXCEPT ![t] = [@ EXCEPT !.pc = "wait", !.packet = <<>>]] /\ UNCHANGED lock
  /\ UNCHANGED <<m_running, ring, chain>>

\* The timeout, or a tick of sleep and the next attempt.
Wait(t) ==
  /\ task[t].pc = "wait"
  /\ \/ Finish(t)
     \/ task' = [task EXCEPT ![t] = [@ EXCEPT !.pc = "read"]] /\ UNCHANGED lock
  /\ UNCHANGED <<m_running, allocated, ring, chain>>

-----------------------------------------------------------------------------

Init ==
  /\ m_running = FALSE
  /\ allocated = {}
  /\ ring = [d \in 1 .. ETH_RX_DESC_CNT |-> Empty]
  /\ chain = <<>>
  /\ lock = [m \in Locks |-> 0]
  /\ task = [t \in Tasks |-> Resting]

Next ==
  \/ Dma
  \/ \E t \in Tasks :
       \/ \E call \in Operations : Invoke(t, call)
       \/ TakeLock(t) \/ Refill(t) \/ ReadData(t) \/ Start(t) \/ Stop(t) \/ Transmit(t)
       \/ Receive(t) \/ Copy(t) \/ Wait(t)

Spec == Init /\ [][Next]_vars

-----------------------------------------------------------------------------

\* The places of a slot: descriptors, positions in the unfinished frame, tasks.
Holders(s) ==
  ({"ring"} \X {d \in DOMAIN ring : ring[d].slot = s})
  \cup ({"chain"} \X {i \in DOMAIN chain : chain[i] = s})
  \cup ({"task"} \X {t \in DOMAIN task : s \in Contents(task[t].packet)})

\* Over every start, stop, timeout, refused and unfinished frame, a slot marked allocated
\* is in exactly one place and any other in none: none is lost to the pool, and the DMA
\* never writes to a slot that is being read.  The pool is never empty while a descriptor
\* wants a slot: reception does not starve even if the frame just read fills as many slots
\* as there are descriptors.
SlotHasOneHolder ==
  /\ Unserved # {} => available # {}
  /\ \A s \in allocated : \E holder \in Holders(s) : Holders(s) = {holder}
  /\ \A s \in available : Holders(s) = {}

-----------------------------------------------------------------------------
(* The inductive invariant *)

Places == {"idle", "lock", "locked", "refill", "read", "copy", "wait"}
TaskRecords ==
  [call : Operations \cup {"none"}, pc : Places, taken : 0 .. 3, packet : Seq(RX_SLOTS)]

TypeOK ==
  /\ m_running \in BOOLEAN
  /\ allocated \subseteq RX_SLOTS
  /\ ring \in [1 .. ETH_RX_DESC_CNT ->
               [slot : {0} \cup RX_SLOTS, state : {"dma", "more", "last"}]]
  /\ chain \in Seq(RX_SLOTS)
  /\ lock \in [Locks -> Tasks \cup {0}]
  /\ task \in [Tasks -> TaskRecords]

\* Where the calls are, and that m_receiveMutex is theirs where slots move.
TaskOK(t) ==
  LET l == task[t]
  IN  /\ l.pc \in {"lock", "locked"} => l.call \in Operations
      /\ l.pc = "lock" => l.taken < Len(LocksOf(l.call))
      /\ l.pc = "locked" => l.taken = Len(LocksOf(l.call))
      /\ l.pc = "idle" => l = Resting
      /\ l.pc \in {"read", "copy", "wait"} => l.call = "receive"
      /\ \/ l.pc \in {"lock", "locked"} /\ l.call \in {"start", "stop"} /\ l.taken >= 2
         \/ l.pc \in {"lock", "locked"} /\ l.call = "receive" /\ l.taken >= 1
         \/ l.pc \in {"refill", "read", "copy", "wait"}
         => lock["receive"] = t
      /\ l.packet # <<>> =>
           /\ l.pc \in {"refill", "copy"} /\ l.call = "receive"
           /\ chain = <<>> /\ Len(l.packet) <= MaxSegments

\* The DMA has filled the first descriptors, with frames that are not too long.
RingInv ==
  /\ \A d \in DOMAIN ring : ring[d].state # "dma" =>
       ring[d].slot # 0 /\ \A e \in 1 .. d : ring[e].state # "dma"
  /\ \A k, n \in 0 .. ETH_RX_DESC_CNT :
       k <= n /\ IsRun(k, n) => Segments(k, n) < MaxSegments

\* Slots are held once, by whom allocated says.
SlotInv ==
  /\ \A d \in DOMAIN ring : ring[d].slot # 0 =>
       /\ ring[d].slot \in allocated
       /\ \A e \in DOMAIN ring : ring[e].slot = ring[d].slot => d = e
       /\ \A i \in DOMAIN chain : chain[i] # ring[d].slot
       /\ \A t \in Tasks : ring[d].slot \notin Contents(task[t].packet)
  /\ \A i, j \in DOMAIN chain : chain[i] \in allocated /\ (chain[i] = chain[j] => i = j)
  /\ \A t \in Tasks : Contents(task[t].packet) \subseteq allocated
  /\ \A s \in allocated :
       \/ \E d \in DOMAIN ring : ring[d].slot = s
       \/ \E i \in DOMAIN chain : chain[i] = s
       \/ \E t \in Tasks : s \in Contents(task[t].packet)

DmaInv ==
  /\ TypeOK
  /\ \A t \in Tasks : TaskOK(t)
  /\ RingInv
  /\ SlotInv
=============================================================================

------------------------------ MODULE MCDevices ------------------------------
(***************************************************************************)
(* Three drivers that share nothing, one of them at work in a behaviour:   *)
(* the timer and the Ethernet of the Linux build, the Ethernet of STM32.   *)
(***************************************************************************)
EXTENDS LinuxTimer

CONSTANTS Callers, Fds, MaxQueued, Tasks, ETH_RX_DESC_CNT, MaxSegments

\* Threads and descriptors are told from 0, which stands for none; the DMA has work, and a
\* frame fits into its descriptors (into one slot, as the sizes are).
ASSUME DevicesAssumption ==
  /\ 0 \notin Callers \cup Tasks
  /\ Fds \subseteq Nat \ {0}
  /\ ETH_RX_DESC_CNT \in Nat \ {0}
  /\ MaxSegments \in 1 .. ETH_RX_DESC_CNT

VARIABLES
  device,
  m_socket, kernel, queue, owner, caller,
  m_eth_running, allocated, ring, chain, lock, task

Linux == INSTANCE Ethernet
Stm32 == INSTANCE EthernetDma WITH m_running <- m_eth_running

linuxVars == <<m_socket, kernel, queue, owner, caller>>
stm32Vars == <<m_eth_running, allocated, ring, chain, lock, task>>
MCvars == <<device, vars, linuxVars, stm32Vars>>

MCInit ==
  /\ device \in {"timer", "linux", "stm32"}
  /\ Init /\ Linux!Init /\ Stm32!Init
  /\ device # "timer" => m_prescaler = 0 /\ m_autoReload = 0

TimerStep(A) == device = "timer" /\ A /\ UNCHANGED <<device, linuxVars, stm32Vars>>

MCNext ==
  \/ TimerStep(Next)
  \/ device = "linux" /\ Linux!Next /\ UNCHANGED <<device, vars, stm32Vars>>
  \/ device = "stm32" /\ Stm32!Next /\ UNCHANGED <<device, vars, linuxVars>>

MCSpec ==
  /\ MCInit /\ [][MCNext]_MCvars
  /\ WF_MCvars(TimerStep(Worker)) /\ WF_MCvars(TimerStep(CallbackReturns))
  /\ WF_MCvars(TimerStep(Tick))

DescriptorStaysOurs == Linux!DescriptorStaysOurs
NoLockCycle == Linux!NoLockCycle
SlotHasOneHolder == Stm32!SlotHasOneHolder
=============================================================================

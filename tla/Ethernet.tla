------------------------------ MODULE Ethernet ------------------------------
(***************************************************************************)
(* The raw-socket Ethernet of the Linux build                              *)
(* (platform/hal/drivers/impl/linux/Ethernet.cpp).                         *)
(*                                                                         *)
(* Three mutexes protect one descriptor.  A descriptor is a number that    *)
(* the kernel gives out again as soon as it is closed, to any thread: also *)
(* to getLinkInfo, which opens a socket of its own under no mutex.         *)
(***************************************************************************)
EXTENDS Naturals, Sequences

CONSTANTS
  Callers,    \* threads of the application
  Fds,        \* descriptors 1, 2, ...
  MaxQueued   \* bound on the frames in a socket's queue

VARIABLES
  m_socket,   \* 0 is -1
  kernel,     \* what each descriptor is: "closed", "packet" or "control"
  queue,      \* the frames waiting in the packet socket, by kind
  owner,      \* the thread in each mutex, 0 for none
  caller      \* per thread: its call, where it is in it, its copy of the descriptor

vars == <<m_socket, kernel, queue, owner, caller>>

Mutexes == {"lifecycle", "receive", "transmit"}
Calls == {"start", "stop", "transmit", "receive", "getLinkInfo"}

\* A frame the caller gets, one whose EtherType it did not ask for, one this host sent,
\* one too long for the caller's buffer.
Frames == {"wanted", "other", "outgoing", "long"}

Idle == [call |-> "none", pc |-> "idle", fd |-> 0, next |-> 0]

-----------------------------------------------------------------------------
(* Descriptors and locks *)

closed == {fd \in Fds : kernel[fd] = "closed"}

\* The kernel gives out the lowest number that is free.
LowestClosed(fd) == fd \in closed /\ \A other \in closed : fd <= other

\* Mutant: stop takes the lifecycle mutex first.
LockOrder_StopOutermost(call) ==
  CASE call = "start"    -> <<"lifecycle">>
    [] call = "stop"     -> <<"lifecycle", "transmit", "receive">>
    [] call = "transmit" -> <<"transmit", "lifecycle">>
    [] call = "receive"  -> <<"receive", "lifecycle">>

\* Mutant: stop does not wait for a receive.
LockOrder_StopOnlyTransmit(call) ==
  CASE call = "start"    -> <<"lifecycle">>
    [] call = "stop"     -> <<"transmit", "lifecycle">>
    [] call = "transmit" -> <<"transmit", "lifecycle">>
    [] call = "receive"  -> <<"receive", "lifecycle">>

\* The mutexes a call takes, in order, before it looks at m_socket.
LockOrder(call) ==
  CASE call = "start"    -> <<"lifecycle">>
    [] call = "stop"     -> <<"transmit", "receive", "lifecycle">>
    [] call = "transmit" -> <<"transmit", "lifecycle">>
    [] call = "receive"  -> <<"receive", "lifecycle">>

Free(mutexes) == [m \in Mutexes |-> IF m \in mutexes THEN 0 ELSE owner[m]]
Held(t) == {m \in Mutexes : owner[m] = t}

\* A return, with whatever result, unlocks what the call still holds.
Return(t) ==
  /\ caller' = [caller EXCEPT ![t] = Idle]
  /\ owner' = Free(Held(t))

\* A call with valid arguments begins; the lock objects of its scope are taken one by one.
Call(t, call) ==
  /\ caller[t].pc = "idle"
  /\ caller' = [caller EXCEPT ![t] = [Idle EXCEPT !.call = call, !.next = 1,
                                        !.pc = IF call = "getLinkInfo" THEN "open" ELSE "lock"]]
  /\ UNCHANGED <<m_socket, kernel, queue, owner>>

Lock(t) ==
  /\ caller[t].pc = "lock"
  /\ LET order == LockOrder(caller[t].call)
         mutex == order[caller[t].next]
     IN  /\ owner[mutex] = 0
         /\ owner' = [owner EXCEPT ![mutex] = t]
         /\ caller' = IF mutex = order[Len(order)]
                      THEN [caller EXCEPT ![t].pc = "locked", ![t].next = 0]
                      ELSE [caller EXCEPT ![t].next = @ + 1]
  /\ UNCHANGED <<m_socket, kernel, queue>>

-----------------------------------------------------------------------------
(* start and stop *)

\* The socket is open already; the interface has no name or no index; socket fails.
StartReturns(t) ==
  /\ caller[t].pc = "locked" /\ caller[t].call = "start"
  /\ Return(t)
  /\ UNCHANGED <<m_socket, kernel, queue>>

\* socket and bind.
StartOpens(t) ==
  /\ caller[t].pc = "locked" /\ caller[t].call = "start"
  /\ m_socket = 0
  /\ \E fd \in Fds :
       /\ LowestClosed(fd)
       /\ kernel' = [kernel EXCEPT ![fd] = "packet"]
       /\ caller' = [caller EXCEPT ![t].fd = fd, ![t].pc = "open"]
  /\ UNCHANGED <<m_socket, queue, owner>>

\* bind, the filter, the promiscuous membership or the MAC address fails: each path closes.
AfterFailure(t) == [kernel EXCEPT ![caller[t].fd] = "closed"]

StartFails(t) ==
  /\ caller[t].pc = "open" /\ caller[t].call = "start"
  /\ kernel' = AfterFailure(t)
  /\ queue' = [f \in Frames |-> 0]
  /\ Return(t)
  /\ UNCHANGED m_socket

StartSucceeds(t) ==
  /\ caller[t].pc = "open" /\ caller[t].call = "start"
  /\ m_socket' = caller[t].fd
  /\ Return(t)
  /\ UNCHANGED <<kernel, queue>>

\* close may report an error; the descriptor is gone all the same.
Stop(t) ==
  /\ caller[t].pc = "locked" /\ caller[t].call = "stop"
  /\ Return(t)
  /\ kernel' = IF m_socket = 0 THEN kernel ELSE [kernel EXCEPT ![m_socket] = "closed"]
  /\ queue' = IF m_socket = 0 THEN queue ELSE [f \in Frames |-> 0]
  /\ m_socket' = 0

-----------------------------------------------------------------------------
(* transmit and receive *)

\* The copy of m_socket under the lifecycle mutex; no socket is not_connected.
CopySocket(t) ==
  /\ caller[t].pc = "locked" /\ caller[t].call \in {"transmit", "receive"}
  /\ \/ m_socket = 0 /\ Return(t)
     \/ /\ m_socket # 0
        /\ caller' = [caller EXCEPT ![t].fd = m_socket, ![t].pc = "poll"]
        /\ owner' = Free({"lifecycle"})
  /\ UNCHANGED <<m_socket, kernel, queue>>

Queued == \E f \in Frames : queue[f] > 0

\* poll_descriptor: ready, an error or the deadline (an interrupted poll is repeated).
\* Past the deadline a queued frame still makes it ready.
Poll(t) ==
  /\ caller[t].pc = "poll"
  /\ \/ /\ caller[t].call = "receive" => Queued
        /\ caller' = [caller EXCEPT ![t].pc = "ready"]
        /\ UNCHANGED owner
     \/ Return(t)
  /\ UNCHANGED <<m_socket, kernel, queue>>

\* sendto
Send(t) ==
  /\ caller[t].pc = "ready" /\ caller[t].call = "transmit"
  /\ Return(t)
  /\ UNCHANGED <<m_socket, kernel, queue>>

\* recvfrom takes a frame; what the caller did not ask for sends it back to poll, as do
\* EINTR and EAGAIN.
Receive(t) ==
  /\ caller[t].pc = "ready" /\ caller[t].call = "receive"
  /\ \/ \E f \in Frames :
          /\ queue[f] > 0
          /\ queue' = [queue EXCEPT ![f] = @ - 1]
          /\ \/ /\ f \in {"other", "outgoing"}
                /\ caller' = [caller EXCEPT ![t].pc = "poll"]
                /\ UNCHANGED owner
             \/ f \in {"wanted", "long"} /\ Return(t)
     \/ caller' = [caller EXCEPT ![t].pc = "poll"] /\ UNCHANGED <<queue, owner>>
     \/ Return(t) /\ UNCHANGED queue
  /\ UNCHANGED <<m_socket, kernel>>

-----------------------------------------------------------------------------
(* getLinkInfo, under no mutex *)

LinkOpens(t) ==
  /\ caller[t].pc = "open" /\ caller[t].call = "getLinkInfo" /\ caller[t].fd = 0
  /\ \/ \E fd \in Fds :
          /\ LowestClosed(fd)
          /\ kernel' = [kernel EXCEPT ![fd] = "control"]
          /\ caller' = [caller EXCEPT ![t].fd = fd]
          /\ UNCHANGED owner
     \/ Return(t) /\ UNCHANGED kernel
  /\ UNCHANGED <<m_socket, queue>>

LinkReturns(t) ==
  /\ caller[t].pc = "open" /\ caller[t].call = "getLinkInfo" /\ caller[t].fd # 0
  /\ kernel' = [kernel EXCEPT ![caller[t].fd] = "closed"]
  /\ Return(t)
  /\ UNCHANGED <<m_socket, queue>>

\* The network: the filter keeps other frames out, but only once it is attached.
Arrive ==
  /\ \E fd \in Fds : kernel[fd] = "packet"
  /\ \E f \in Frames :
       /\ f = "other" => m_socket = 0
       /\ queue[f] < MaxQueued
       /\ queue' = [queue EXCEPT ![f] = @ + 1]
  /\ UNCHANGED <<m_socket, kernel, owner, caller>>

-----------------------------------------------------------------------------

Init ==
  /\ m_socket = 0
  /\ kernel = [fd \in Fds |-> "closed"]
  /\ queue = [f \in Frames |-> 0]
  /\ owner = [m \in Mutexes |-> 0]
  /\ caller = [t \in Callers |-> Idle]

Next ==
  \/ Arrive
  \/ \E t \in Callers :
       \/ \E call \in Calls : Call(t, call)
       \/ Lock(t) \/ StartReturns(t) \/ StartOpens(t) \/ StartFails(t) \/ StartSucceeds(t)
       \/ Stop(t) \/ CopySocket(t) \/ Poll(t) \/ Send(t) \/ Receive(t)
       \/ LinkOpens(t) \/ LinkReturns(t)

Spec == Init /\ [][Next]_vars

-----------------------------------------------------------------------------

\* transmit and receive copy the descriptor and use it after they unlock the lifecycle
\* mutex: it is still open then, and still the driver's socket and not one that got the
\* number after a stop.  Every open packet socket is m_socket or the one a start still
\* configures: no path of start leaks one, and two starts do not open two.
DescriptorStaysOurs ==
  /\ \A t \in Callers :
       caller[t].pc \in {"poll", "ready"} =>
         caller[t].fd = m_socket /\ kernel[caller[t].fd] = "packet"
  /\ \A fd \in Fds : kernel[fd] = "packet" =>
       \/ fd = m_socket
       \/ m_socket = 0 /\ \E t \in Callers : /\ caller[t].call = "start" /\ caller[t].pc = "open"
                                             /\ caller[t].fd = fd

\* Some caller can always go on: the calls never wait for each other in a circle.
NoLockCycle ==
  (\E t \in Callers : caller[t].pc # "idle") =>
    \E t \in Callers : \/ caller[t].pc \notin {"idle", "lock"}
                       \/ /\ caller[t].pc = "lock"
                          /\ owner[LockOrder(caller[t].call)[caller[t].next]] = 0

-----------------------------------------------------------------------------
(* An inductive invariant *)

Descriptors == Fds \cup {0}

CallerRecords ==
  [call : Calls \cup {"none"}, fd : Descriptors, next : 0 .. 3,
   pc : {"idle", "lock", "locked", "open", "poll", "ready"}]

TypeOK ==
  /\ m_socket \in Descriptors
  /\ kernel \in [Fds -> {"closed", "packet", "control"}]
  /\ owner \in [Mutexes -> Callers \cup {0}]
  /\ caller \in [Callers -> CallerRecords]

\* Which calls have which places.
PlaceInv ==
  \A t \in Callers :
    LET c == caller[t]
    IN  /\ c.pc = "idle" => c.call = "none"
        /\ c.pc \in {"lock", "locked"} => c.call \in {"start", "stop", "transmit", "receive"}
        /\ c.pc = "lock" => c.next \in DOMAIN LockOrder(c.call)
        /\ c.pc = "open" => c.call \in {"start", "getLinkInfo"}
        /\ c.pc \in {"poll", "ready"} => c.call \in {"transmit", "receive"}
        /\ c.pc \in {"poll", "ready"} \/ (c.pc = "open" /\ c.call = "start") => c.fd # 0
        /\ c.pc \in {"lock", "locked"} => c.fd = 0

\* A caller holds the mutexes it has come past and not given back, and no others.
Holds(c, mutex) ==
  \/ mutex = "lifecycle" /\ (c.pc = "locked" \/ (c.pc = "open" /\ c.call = "start"))
  \/ mutex = c.call /\ c.call \in {"transmit", "receive"}
       /\ (c.pc \in {"locked", "poll", "ready"} \/ (c.pc = "lock" /\ c.next = 2))
  \/ mutex = "transmit" /\ c.call = "stop"
       /\ (c.pc = "locked" \/ (c.pc = "lock" /\ c.next \in {2, 3}))
  \/ mutex = "receive" /\ c.call = "stop" /\ (c.pc = "locked" \/ (c.pc = "lock" /\ c.next = 3))

LockInv == \A t \in Callers : \A m \in Mutexes : owner[m] = t <=> Holds(caller[t], m)

\* Whose every descriptor is: the driver's, that of the start that still configures it
\* or that of one getLinkInfo.
FdInv ==
  /\ m_socket # 0 => kernel[m_socket] = "packet"
  /\ \A t \in Callers :
       caller[t].pc = "open" /\ caller[t].fd # 0 =>
         /\ caller[t].fd # m_socket
         /\ caller[t].call = "start" => m_socket = 0 /\ kernel[caller[t].fd] = "packet"
         /\ caller[t].call = "getLinkInfo" => kernel[caller[t].fd] = "control"
         /\ \A u \in Callers :
              caller[u].pc = "open" /\ caller[u].fd = caller[t].fd => u = t

EthernetInv == TypeOK /\ PlaceInv /\ LockInv /\ FdInv /\ DescriptorStaysOurs
=============================================================================

---------------------------- MODULE DevicesProofs ----------------------------
(***************************************************************************)
(* Proofs about the drivers of MCDevices.                                  *)
(***************************************************************************)
EXTENDS MCDevices, Integers, Sequences, FiniteSetTheorems, TLAPS

-----------------------------------------------------------------------------
(* The raw-socket Ethernet of the Linux build *)

\* The orders in which the calls take the mutexes, spelt out.
LEMMA LockOrders ==
  /\ Linux!LockOrder("start") = <<"lifecycle">>
  /\ Linux!LockOrder("stop") = <<"transmit", "receive", "lifecycle">>
  /\ Linux!LockOrder("transmit") = <<"transmit", "lifecycle">>
  /\ Linux!LockOrder("receive") = <<"receive", "lifecycle">>
BY DEF Linux!LockOrder

\* The record of a thread that is in no call.
LEMMA IdleRecord == Linux!Idle \in Linux!CallerRecords
BY DEF Linux!Idle, Linux!CallerRecords, Linux!Descriptors

\* In the initial state nothing is open, locked or called.
LEMMA EthernetInit == Linux!Init => Linux!EthernetInv
<1> SUFFICES ASSUME Linux!Init PROVE Linux!EthernetInv
  OBVIOUS
<1>1. Linux!TypeOK
  BY DevicesAssumption, IdleRecord DEF Linux!Init, Linux!TypeOK, Linux!Descriptors
<1>2. Linux!PlaceInv /\ Linux!LockInv /\ Linux!FdInv /\ Linux!DescriptorStaysOurs
  BY DevicesAssumption
     DEF Linux!Init, Linux!PlaceInv, Linux!LockInv, Linux!FdInv, Linux!DescriptorStaysOurs,
         Linux!Idle, Linux!Mutexes, Linux!Holds
<1> QED
  BY <1>1, <1>2 DEF Linux!EthernetInv

\* A call begins.
LEMMA EthernetCall ==
  ASSUME Linux!EthernetInv, NEW t \in Callers, NEW call \in Linux!Calls, Linux!Call(t, call)
  PROVE  Linux!EthernetInv'
<1> USE DevicesAssumption, LockOrders DEF Linux!EthernetInv, Linux!Call
<1>1. Linux!TypeOK'
  <2> DEFINE place == IF call = "getLinkInfo" THEN "open" ELSE "lock"
  <2>1. [Linux!Idle EXCEPT !.call = call, !.next = 1, !.pc = place] \in Linux!CallerRecords
    <3>1. place \in {"open", "lock"} /\ 1 \in 0 .. 3
      OBVIOUS
    <3> HIDE DEF place
    <3> QED
      BY <3>1, IdleRecord DEF Linux!CallerRecords
  <2> QED
    BY <2>1 DEF Linux!TypeOK
<1>2. Linux!PlaceInv'
  BY DEF Linux!Idle, Linux!TypeOK, Linux!PlaceInv, Linux!Calls
<1>3. Linux!LockInv'
  BY DEF Linux!Idle, Linux!TypeOK, Linux!PlaceInv, Linux!LockInv, Linux!Holds, Linux!Mutexes
<1>4. Linux!FdInv' /\ Linux!DescriptorStaysOurs'
  BY DEF Linux!Idle, Linux!TypeOK, Linux!PlaceInv, Linux!FdInv, Linux!DescriptorStaysOurs
<1> QED
  BY <1>1, <1>2, <1>3, <1>4

\* What a call that locks its next mutex m does, order by order; r is its record then.
LockEffect(t, m, r) ==
  /\ owner[m] = 0
  /\ owner' = [owner EXCEPT ![m] = t]
  /\ caller' = [caller EXCEPT ![t] = r]
  /\ r.call = caller[t].call /\ r.fd = caller[t].fd
  /\ \/ /\ m = "lifecycle" /\ r.pc = "locked"
        /\ caller[t].call = "start" => caller[t].next = 1
        /\ caller[t].call \in {"transmit", "receive"} => caller[t].next = 2
        /\ caller[t].call = "stop" => caller[t].next = 3
     \/ /\ m = caller[t].call /\ m \in {"transmit", "receive"}
        /\ caller[t].next = 1 /\ r.pc = "lock" /\ r.next = 2
     \/ /\ m = "transmit" /\ caller[t].call = "stop"
        /\ caller[t].next = 1 /\ r.pc = "lock" /\ r.next = 2
     \/ /\ m = "receive" /\ caller[t].call = "stop"
        /\ caller[t].next = 2 /\ r.pc = "lock" /\ r.next = 3

\* The records of a call that goes on: it has its last mutex, or waits for the next.
LEMMA NextRecords ==
  ASSUME NEW c \in Linux!CallerRecords
  PROVE  /\ [c EXCEPT !.pc = "locked", !.next = 0] \in Linux!CallerRecords
         /\ [c EXCEPT !.pc = "locked", !.next = 0].pc = "locked"
         /\ [c EXCEPT !.pc = "locked", !.next = 0].call = c.call
         /\ [c EXCEPT !.pc = "locked", !.next = 0].fd = c.fd
         /\ c.next < 3 => [c EXCEPT !.next = @ + 1] \in Linux!CallerRecords
         /\ [c EXCEPT !.next = @ + 1].next = c.next + 1
         /\ [c EXCEPT !.next = @ + 1].pc = c.pc
         /\ [c EXCEPT !.next = @ + 1].call = c.call
         /\ [c EXCEPT !.next = @ + 1].fd = c.fd
<1>1. ASSUME NEW place \in {"locked"}, NEW n \in 0 .. 3
      PROVE  [c EXCEPT !.pc = place, !.next = n] \in Linux!CallerRecords
  BY DEF Linux!CallerRecords
<1>2. c.next < 3 => [c EXCEPT !.next = @ + 1] \in Linux!CallerRecords
  BY DEF Linux!CallerRecords
<1>3. 0 \in 0 .. 3
  OBVIOUS
<1>4. [c EXCEPT !.pc = "locked", !.next = 0] \in Linux!CallerRecords
  BY <1>1, <1>3
<1> QED
  BY <1>2, <1>4 DEF Linux!CallerRecords

\* Lock follows the order of the call.
LEMMA LockStep ==
  ASSUME Linux!EthernetInv, NEW t \in Callers, Linux!Lock(t)
  PROVE  \E m \in Linux!Mutexes, r \in Linux!CallerRecords : LockEffect(t, m, r)
<1> USE DevicesAssumption
<1> DEFINE c == caller[t]
           order == Linux!LockOrder(c.call)
           m == order[c.next]
           last == [c EXCEPT !.pc = "locked", !.next = 0]
           more == [c EXCEPT !.next = @ + 1]
<1>1. /\ c \in Linux!CallerRecords /\ c.pc = "lock" /\ c.next \in DOMAIN order
      /\ c.call \in {"start", "stop", "transmit", "receive"}
  BY DEF Linux!Lock, Linux!EthernetInv, Linux!TypeOK, Linux!PlaceInv
<1>2. /\ owner[m] = 0 /\ owner' = [owner EXCEPT ![m] = t]
      /\ caller' = [caller EXCEPT ![t] = IF m = order[Len(order)] THEN last ELSE more]
  BY DEF Linux!Lock, Linux!EthernetInv, Linux!TypeOK
<1>3. /\ last \in Linux!CallerRecords
      /\ last.pc = "locked" /\ last.call = c.call /\ last.fd = c.fd
  BY <1>1, NextRecords
<1>4. /\ c.next < 3 => more \in Linux!CallerRecords
      /\ more.next = c.next + 1 /\ more.pc = c.pc /\ more.call = c.call /\ more.fd = c.fd
  BY <1>1, NextRecords
<1> HIDE DEF last, more, m, order
<1>5. CASE c.call = "start"
  <2>1. m = "lifecycle" /\ m = order[Len(order)] /\ c.next = 1
    BY <1>1, <1>5, LockOrders DEF m, order
  <2> QED
    BY <1>1, <1>2, <1>3, <1>5, <2>1 DEF LockEffect, Linux!Mutexes
<1>6. CASE c.call \in {"transmit", "receive"}
  <2>1. CASE c.next = 2
    <3>1. m = "lifecycle" /\ m = order[Len(order)]
      BY <1>1, <1>6, <2>1, LockOrders DEF m, order
    <3> QED
      BY <1>1, <1>2, <1>3, <1>6, <2>1, <3>1 DEF LockEffect, Linux!Mutexes
  <2>2. CASE c.next = 1
    <3>1. m = c.call /\ m # order[Len(order)]
      BY <1>6, <2>2, LockOrders DEF m, order
    <3>2. more \in Linux!CallerRecords /\ more.next = 2
      BY <1>4, <2>2
    <3> QED
      BY <1>1, <1>2, <1>4, <1>6, <2>2, <3>1, <3>2 DEF LockEffect, Linux!Mutexes
  <2> QED
    BY <1>1, <1>6, <2>1, <2>2, LockOrders DEF order
<1>7. CASE c.call = "stop"
  <2>1. CASE c.next = 3
    <3>1. m = "lifecycle" /\ m = order[Len(order)]
      BY <1>1, <1>7, <2>1, LockOrders DEF m, order
    <3> QED
      BY <1>1, <1>2, <1>3, <1>7, <2>1, <3>1 DEF LockEffect, Linux!Mutexes
  <2>2. CASE c.next = 1
    <3>1. m = "transmit" /\ m # order[Len(order)]
      BY <1>1, <1>7, <2>2, LockOrders DEF m, order
    <3>2. more \in Linux!CallerRecords /\ more.next = 2
      BY <1>4, <2>2
    <3> QED
      BY <1>1, <1>2, <1>4, <1>7, <2>2, <3>1, <3>2 DEF LockEffect, Linux!Mutexes
  <2>3. CASE c.next = 2
    <3>1. m = "receive" /\ m # order[Len(order)]
      BY <1>7, <2>3, LockOrders DEF m, order
    <3>2. more \in Linux!CallerRecords /\ more.next = 3
      BY <1>4, <2>3
    <3> QED
      BY <1>1, <1>2, <1>4, <1>7, <2>3, <3>1, <3>2 DEF LockEffect, Linux!Mutexes
  <2> QED
    BY <1>1, <1>7, <2>1, <2>2, <2>3, LockOrders DEF order
<1> QED
  BY <1>1, <1>5, <1>6, <1>7

\* A mutex is locked.
LEMMA EthernetLock ==
  ASSUME Linux!EthernetInv, NEW t \in Callers, Linux!Lock(t)
  PROVE  Linux!EthernetInv'
<1> USE DevicesAssumption, LockOrders DEF Linux!EthernetInv, LockEffect
<1>0. PICK m \in Linux!Mutexes, r \in Linux!CallerRecords : LockEffect(t, m, r)
  BY LockStep
<1>a. caller[t].pc = "lock" /\ UNCHANGED <<m_socket, kernel, queue>>
  BY DEF Linux!Lock
<1>1. Linux!TypeOK'
  BY <1>0, <1>a DEF Linux!TypeOK
<1>2. Linux!PlaceInv'
  BY <1>0, <1>a DEF Linux!TypeOK, Linux!PlaceInv
<1>3. Linux!LockInv'
  BY <1>0, <1>a DEF Linux!TypeOK, Linux!PlaceInv, Linux!LockInv, Linux!Holds, Linux!Mutexes
<1>4. Linux!FdInv' /\ Linux!DescriptorStaysOurs'
  BY <1>0, <1>a DEF Linux!TypeOK, Linux!PlaceInv, Linux!FdInv, Linux!DescriptorStaysOurs
<1> QED
  BY <1>1, <1>2, <1>3, <1>4

\* A return: the thread is in no call and holds no mutex, and nobody else notices.
LEMMA EthernetReturn ==
  ASSUME Linux!EthernetInv, NEW t \in Callers, Linux!Return(t)
  PROVE  /\ caller' = [caller EXCEPT ![t] = Linux!Idle]
         /\ caller' \in [Callers -> Linux!CallerRecords]
         /\ owner' \in [Linux!Mutexes -> Callers \cup {0}]
         /\ Linux!PlaceInv' /\ Linux!LockInv'
<1> USE DevicesAssumption DEF Linux!EthernetInv, Linux!Return, Linux!TypeOK
<1>1. caller' = [caller EXCEPT ![t] = Linux!Idle] /\ caller' \in [Callers -> Linux!CallerRecords]
  BY IdleRecord
<1>2. /\ owner' \in [Linux!Mutexes -> Callers \cup {0}]
      /\ \A m \in Linux!Mutexes : owner'[m] = IF owner[m] = t THEN 0 ELSE owner[m]
  BY DEF Linux!Free, Linux!Held
<1>3. Linux!PlaceInv'
  BY <1>1 DEF Linux!PlaceInv, Linux!Idle
<1>4. Linux!LockInv'
  <2> SUFFICES ASSUME NEW u \in Callers, NEW m \in Linux!Mutexes
               PROVE  owner'[m] = u <=> Linux!Holds(caller'[u], m)
    BY DEF Linux!LockInv, Linux!Holds
  <2>1. CASE u = t
    BY <1>1, <1>2, <2>1 DEF Linux!Holds, Linux!Idle
  <2>2. CASE u # t
    BY <1>1, <1>2, <2>2 DEF Linux!LockInv
  <2> QED
    BY <2>1, <2>2
<1> QED
  BY <1>1, <1>2, <1>3, <1>4


\* A return of a call that has no socket of its own to close.
LEMMA EthernetReturnOnly ==
  ASSUME Linux!EthernetInv, NEW t \in Callers, Linux!Return(t), UNCHANGED <<m_socket, kernel>>,
         caller[t].pc # "open" \/ caller[t].fd = 0
  PROVE  Linux!EthernetInv'
<1> USE DevicesAssumption DEF Linux!EthernetInv
<1>1. /\ caller' = [caller EXCEPT ![t] = Linux!Idle]
      /\ caller' \in [Callers -> Linux!CallerRecords]
      /\ owner' \in [Linux!Mutexes -> Callers \cup {0}]
      /\ Linux!PlaceInv' /\ Linux!LockInv'
  BY EthernetReturn
<1>2. Linux!TypeOK'
  BY <1>1 DEF Linux!TypeOK
<1>3. Linux!FdInv' /\ Linux!DescriptorStaysOurs'
  BY <1>1 DEF Linux!TypeOK, Linux!FdInv, Linux!DescriptorStaysOurs, Linux!PlaceInv, Linux!Idle
<1> QED
  BY <1>1, <1>2, <1>3

\* start gives up with a socket, which it closes.
LEMMA EthernetStartFails ==
  ASSUME Linux!EthernetInv, NEW t \in Callers, Linux!StartFails(t)
  PROVE  Linux!EthernetInv'
<1> USE DevicesAssumption DEF Linux!EthernetInv, Linux!StartFails
<1>1. /\ caller' = [caller EXCEPT ![t] = Linux!Idle]
      /\ caller' \in [Callers -> Linux!CallerRecords]
      /\ owner' \in [Linux!Mutexes -> Callers \cup {0}]
      /\ Linux!PlaceInv' /\ Linux!LockInv'
  BY EthernetReturn
<1>2. Linux!TypeOK'
  BY <1>1 DEF Linux!TypeOK, Linux!Descriptors, Linux!AfterFailure
<1>3. Linux!FdInv'
  BY <1>1 DEF Linux!TypeOK, Linux!PlaceInv, Linux!LockInv, Linux!Holds, Linux!Mutexes,
              Linux!FdInv, Linux!DescriptorStaysOurs, Linux!Idle, Linux!Descriptors, Linux!AfterFailure
<1>4. Linux!DescriptorStaysOurs'
  BY <1>1 DEF Linux!TypeOK, Linux!PlaceInv, Linux!LockInv, Linux!Holds, Linux!Mutexes,
              Linux!FdInv, Linux!DescriptorStaysOurs, Linux!Idle, Linux!Descriptors, Linux!AfterFailure
<1> QED
  BY <1>1, <1>2, <1>3, <1>4

\* start publishes its socket.
LEMMA EthernetStartSucceeds ==
  ASSUME Linux!EthernetInv, NEW t \in Callers, Linux!StartSucceeds(t)
  PROVE  Linux!EthernetInv'
<1> USE DevicesAssumption DEF Linux!EthernetInv, Linux!StartSucceeds
<1>1. /\ caller' = [caller EXCEPT ![t] = Linux!Idle]
      /\ caller' \in [Callers -> Linux!CallerRecords]
      /\ owner' \in [Linux!Mutexes -> Callers \cup {0}]
      /\ Linux!PlaceInv' /\ Linux!LockInv'
  BY EthernetReturn
<1>2. Linux!TypeOK'
  <2>1. m_socket' \in Linux!Descriptors
    BY DEF Linux!TypeOK, Linux!CallerRecords
  <2> QED
    BY <1>1, <2>1 DEF Linux!TypeOK
<1>3. Linux!FdInv'
  BY <1>1 DEF Linux!TypeOK, Linux!PlaceInv, Linux!LockInv, Linux!Holds, Linux!Mutexes,
              Linux!FdInv, Linux!DescriptorStaysOurs, Linux!Idle, Linux!Descriptors
<1>4. Linux!DescriptorStaysOurs'
  BY <1>1 DEF Linux!TypeOK, Linux!PlaceInv, Linux!LockInv, Linux!Holds, Linux!Mutexes,
              Linux!FdInv, Linux!DescriptorStaysOurs, Linux!Idle, Linux!Descriptors
<1> QED
  BY <1>1, <1>2, <1>3, <1>4

\* stop closes the socket: no transmit and no receive has a copy of it.
LEMMA EthernetStop ==
  ASSUME Linux!EthernetInv, NEW t \in Callers, Linux!Stop(t)
  PROVE  Linux!EthernetInv'
<1> USE DevicesAssumption DEF Linux!EthernetInv, Linux!Stop
<1>1. /\ caller' = [caller EXCEPT ![t] = Linux!Idle]
      /\ caller' \in [Callers -> Linux!CallerRecords]
      /\ owner' \in [Linux!Mutexes -> Callers \cup {0}]
      /\ Linux!PlaceInv' /\ Linux!LockInv'
  BY EthernetReturn
<1>2. Linux!TypeOK'
  BY <1>1 DEF Linux!TypeOK, Linux!Descriptors
<1>3. Linux!FdInv'
  BY <1>1 DEF Linux!TypeOK, Linux!PlaceInv, Linux!LockInv, Linux!Holds, Linux!Mutexes,
              Linux!FdInv, Linux!DescriptorStaysOurs, Linux!Idle, Linux!Descriptors
<1>4. Linux!DescriptorStaysOurs'
  BY <1>1 DEF Linux!TypeOK, Linux!PlaceInv, Linux!LockInv, Linux!Holds, Linux!Mutexes,
              Linux!FdInv, Linux!DescriptorStaysOurs, Linux!Idle, Linux!Descriptors
<1> QED
  BY <1>1, <1>2, <1>3, <1>4


\* getLinkInfo closes the socket of its own.
LEMMA EthernetLinkReturns ==
  ASSUME Linux!EthernetInv, NEW t \in Callers, Linux!LinkReturns(t)
  PROVE  Linux!EthernetInv'
<1> USE DevicesAssumption DEF Linux!EthernetInv, Linux!LinkReturns
<1>1. /\ caller' = [caller EXCEPT ![t] = Linux!Idle]
      /\ caller' \in [Callers -> Linux!CallerRecords]
      /\ owner' \in [Linux!Mutexes -> Callers \cup {0}]
      /\ Linux!PlaceInv' /\ Linux!LockInv'
  BY EthernetReturn
<1>2. Linux!TypeOK'
  BY <1>1 DEF Linux!TypeOK, Linux!Descriptors
<1>3. Linux!FdInv'
  BY <1>1 DEF Linux!TypeOK, Linux!PlaceInv, Linux!LockInv, Linux!Holds, Linux!Mutexes,
              Linux!FdInv, Linux!DescriptorStaysOurs, Linux!Idle, Linux!Descriptors
<1>4. Linux!DescriptorStaysOurs'
  BY <1>1 DEF Linux!TypeOK, Linux!PlaceInv, Linux!LockInv, Linux!Holds, Linux!Mutexes,
              Linux!FdInv, Linux!DescriptorStaysOurs, Linux!Idle, Linux!Descriptors
<1> QED
  BY <1>1, <1>2, <1>3, <1>4

\* start opens a socket: no other start is past its checks.
LEMMA EthernetStartOpens ==
  ASSUME Linux!EthernetInv, NEW t \in Callers, Linux!StartOpens(t)
  PROVE  Linux!EthernetInv'
<1> USE DevicesAssumption DEF Linux!EthernetInv, Linux!StartOpens, Linux!LowestClosed, Linux!closed
<1>1. Linux!TypeOK'
  BY DEF Linux!TypeOK, Linux!Descriptors, Linux!CallerRecords
<1>2. Linux!PlaceInv'
  BY DEF Linux!TypeOK, Linux!PlaceInv, Linux!CallerRecords
<1>3. Linux!LockInv'
  BY DEF Linux!TypeOK, Linux!PlaceInv, Linux!LockInv, Linux!Holds, Linux!Mutexes, Linux!CallerRecords
<1>4. Linux!FdInv' 
  BY DEF Linux!TypeOK, Linux!PlaceInv, Linux!LockInv, Linux!Holds, Linux!Mutexes,
         Linux!FdInv, Linux!DescriptorStaysOurs, Linux!CallerRecords
<1>5. Linux!DescriptorStaysOurs'
  BY DEF Linux!TypeOK, Linux!PlaceInv, Linux!LockInv, Linux!Holds, Linux!Mutexes,
         Linux!FdInv, Linux!DescriptorStaysOurs, Linux!CallerRecords
<1> QED
  BY <1>1, <1>2, <1>3, <1>4, <1>5

\* transmit and receive copy the descriptor and unlock the lifecycle mutex.
LEMMA EthernetCopySocket ==
  ASSUME Linux!EthernetInv, NEW t \in Callers, Linux!CopySocket(t)
  PROVE  Linux!EthernetInv'
<1> USE DevicesAssumption DEF Linux!EthernetInv
<1>1. CASE Linux!Return(t)
  BY <1>1, EthernetReturnOnly DEF Linux!CopySocket
<1>2. CASE /\ m_socket # 0
           /\ caller' = [caller EXCEPT ![t].fd = m_socket, ![t].pc = "poll"]
           /\ owner' = Linux!Free({"lifecycle"})
  <2>1. /\ caller[t].pc = "locked" /\ caller[t].call \in {"transmit", "receive"}
        /\ UNCHANGED <<m_socket, kernel, queue>>
    BY DEF Linux!CopySocket
  <2>2. /\ owner' \in [Linux!Mutexes -> Callers \cup {0}]
        /\ \A m \in Linux!Mutexes : owner'[m] = IF m = "lifecycle" THEN 0 ELSE owner[m]
    BY <1>2 DEF Linux!TypeOK, Linux!Free
  <2>3. Linux!TypeOK'
    BY <1>2, <2>1, <2>2 DEF Linux!TypeOK, Linux!CallerRecords
  <2>4. Linux!PlaceInv'
    BY <1>2, <2>1 DEF Linux!TypeOK, Linux!PlaceInv, Linux!CallerRecords
  <2>5. Linux!LockInv'
    BY <1>2, <2>1, <2>2
       DEF Linux!TypeOK, Linux!PlaceInv, Linux!LockInv, Linux!Holds, Linux!Mutexes,
           Linux!CallerRecords
  <2>6. Linux!FdInv' /\ Linux!DescriptorStaysOurs'
    BY <1>2, <2>1 DEF Linux!TypeOK, Linux!FdInv, Linux!DescriptorStaysOurs, Linux!CallerRecords
  <2> QED
    BY <2>3, <2>4, <2>5, <2>6
<1> QED
  BY <1>1, <1>2 DEF Linux!CopySocket

\* A call moves between poll and ready, with its mutex and its copy of the descriptor.
LEMMA EthernetPlace ==
  ASSUME Linux!EthernetInv, NEW t \in Callers, NEW place \in {"poll", "ready"},
         caller[t].pc \in {"poll", "ready"}, caller' = [caller EXCEPT ![t].pc = place],
         UNCHANGED <<m_socket, kernel, owner>>
  PROVE  Linux!EthernetInv'
<1> USE DevicesAssumption DEF Linux!EthernetInv
<1>1. Linux!TypeOK'
  BY DEF Linux!TypeOK, Linux!CallerRecords
<1>2. Linux!PlaceInv'
  BY DEF Linux!TypeOK, Linux!PlaceInv, Linux!CallerRecords
<1>3. Linux!LockInv'
  BY DEF Linux!TypeOK, Linux!PlaceInv, Linux!LockInv, Linux!Holds, Linux!CallerRecords
<1>4. Linux!FdInv' /\ Linux!DescriptorStaysOurs'
  BY DEF Linux!TypeOK, Linux!FdInv, Linux!DescriptorStaysOurs, Linux!CallerRecords
<1> QED
  BY <1>1, <1>2, <1>3, <1>4

\* getLinkInfo gets a socket of its own: a number that nobody has.
LEMMA EthernetLinkOpens ==
  ASSUME Linux!EthernetInv, NEW t \in Callers, Linux!LinkOpens(t)
  PROVE  Linux!EthernetInv'
<1> USE DevicesAssumption DEF Linux!EthernetInv
<1>1. CASE Linux!Return(t) /\ UNCHANGED kernel
  BY <1>1, EthernetReturnOnly DEF Linux!LinkOpens
<1>2. ASSUME NEW fd \in Fds, Linux!LowestClosed(fd),
             kernel' = [kernel EXCEPT ![fd] = "control"],
             caller' = [caller EXCEPT ![t].fd = fd],
             UNCHANGED owner
      PROVE  Linux!EthernetInv'
  <2>1. /\ caller[t].pc = "open" /\ caller[t].call = "getLinkInfo" /\ caller[t].fd = 0
        /\ UNCHANGED <<m_socket, queue>> /\ kernel[fd] = "closed"
    BY <1>2 DEF Linux!LinkOpens, Linux!LowestClosed, Linux!closed
  <2>2. Linux!TypeOK'
    BY <1>2, <2>1 DEF Linux!TypeOK, Linux!CallerRecords, Linux!Descriptors
  <2>3. Linux!PlaceInv'
    BY <1>2, <2>1 DEF Linux!TypeOK, Linux!PlaceInv, Linux!CallerRecords
  <2>4. Linux!LockInv'
    BY <1>2, <2>1 DEF Linux!TypeOK, Linux!LockInv, Linux!Holds, Linux!CallerRecords
  <2>5. Linux!FdInv'
    BY <1>2, <2>1 DEF Linux!TypeOK, Linux!PlaceInv, Linux!FdInv, Linux!CallerRecords, Linux!Descriptors
  <2>6. Linux!DescriptorStaysOurs'
    BY <1>2, <2>1 DEF Linux!TypeOK, Linux!DescriptorStaysOurs, Linux!CallerRecords
  <2> QED
    BY <2>2, <2>3, <2>4, <2>5, <2>6
<1> QED
  BY <1>1, <1>2 DEF Linux!LinkOpens

\* The inductive invariant of the driver holds in every reachable state.
THEOREM EthernetInvariant == Linux!Spec => []Linux!EthernetInv
<1>1. Linux!EthernetInv /\ [Linux!Next]_Linux!vars => Linux!EthernetInv'
  <2> SUFFICES ASSUME Linux!EthernetInv, [Linux!Next]_Linux!vars PROVE Linux!EthernetInv'
    OBVIOUS
  <2>1. CASE UNCHANGED <<m_socket, kernel, owner, caller>>
    BY <2>1 DEF Linux!EthernetInv, Linux!TypeOK, Linux!PlaceInv, Linux!LockInv, Linux!Holds,
                Linux!FdInv, Linux!DescriptorStaysOurs
  <2>2. CASE Linux!Arrive
    BY <2>1, <2>2 DEF Linux!Arrive
  <2>3. ASSUME NEW t \in Callers, Linux!StartReturns(t) \/ Linux!Send(t)
        PROVE  Linux!EthernetInv'
    BY <2>3, EthernetReturnOnly DEF Linux!StartReturns, Linux!Send
  <2>4. ASSUME NEW t \in Callers, Linux!Poll(t)
        PROVE  Linux!EthernetInv'
    BY <2>4, EthernetReturnOnly, EthernetPlace DEF Linux!Poll
  <2>5. ASSUME NEW t \in Callers, Linux!Receive(t)
        PROVE  Linux!EthernetInv'
    BY <2>5, EthernetReturnOnly, EthernetPlace DEF Linux!Receive
  <2> QED
    BY <2>1, <2>2, <2>3, <2>4, <2>5, EthernetCall, EthernetLock, EthernetStartOpens,
       EthernetStartFails, EthernetStartSucceeds, EthernetStop, EthernetCopySocket,
       EthernetLinkOpens, EthernetLinkReturns
       DEF Linux!Next, Linux!vars
<1> QED
  BY <1>1, EthernetInit, PTL DEF Linux!Spec

\* transmit and receive use the descriptor of the driver's own, open socket, though they
\* have unlocked the lifecycle mutex, and no path of start or stop leaks a socket.
THEOREM EthernetDescriptors == Linux!Spec => []DescriptorStaysOurs
<1>1. Linux!EthernetInv => DescriptorStaysOurs
  BY DEF Linux!EthernetInv, DescriptorStaysOurs
<1> QED
  BY <1>1, EthernetInvariant, PTL

\* The calls never wait for each other in a circle: were everybody waiting, nobody would
\* hold the lifecycle mutex, so nobody the receive mutex, so nobody the transmit mutex.
THEOREM EthernetLocks == Linux!Spec => []NoLockCycle
<1>1. Linux!EthernetInv => NoLockCycle
  <2> SUFFICES ASSUME Linux!EthernetInv, NEW t \in Callers, caller[t].pc # "idle",
                      \A u \in Callers :
                        /\ caller[u].pc \in {"idle", "lock"}
                        /\ caller[u].pc = "lock" =>
                             owner[Linux!LockOrder(caller[u].call)[caller[u].next]] # 0
               PROVE  FALSE
    BY DEF NoLockCycle, Linux!NoLockCycle
  <2> USE LockOrders, DevicesAssumption
      DEF Linux!EthernetInv, Linux!TypeOK, Linux!PlaceInv, Linux!Mutexes
  <2>1. owner["lifecycle"] = 0
    BY DEF Linux!LockInv, Linux!Holds
  <2>2. owner["receive"] = 0
    BY <2>1 DEF Linux!LockInv, Linux!Holds
  <2>3. owner["transmit"] = 0
    BY <2>1, <2>2 DEF Linux!LockInv, Linux!Holds
  <2>4. Linux!LockOrder(caller[t].call)[caller[t].next] \in Linux!Mutexes
    OBVIOUS
  <2> QED
    BY <2>1, <2>2, <2>3, <2>4
<1> QED
  BY <1>1, EthernetInvariant, PTL

-----------------------------------------------------------------------------
(* The timer of the Linux build *)

\* A call of the interface: only start forgets the callback that came late.
LEMMA LateCall == LateInv /\ Call => LateInv'
<1> SUFFICES ASSUME LateInv, Call PROVE LateInv'
  OBVIOUS
<1> USE DEF LateInv, notifyWorker
<1>1. CASE start(FALSE) \/ start(TRUE)
  BY <1>1 DEF start, Reprogram
<1>2. CASE stop
  BY <1>2 DEF stop, Reprogram
<1>3. ASSUME NEW value, setCounter(value) \/ setAutoReload(value) \/ setPrescaler(value)
                          \/ setPeriodImpl(value)
      PROVE  LateInv'
  BY <1>3 DEF setCounter, setAutoReload, setPrescaler, setPeriodImpl, Reprogram
<1>4. ASSUME NEW callback, setPeriodElapsedCallback(callback)
      PROVE  LateInv'
  BY <1>4 DEF setPeriodElapsedCallback, timerVars, workerVars, historyVars
<1>5. CASE Shutdown
  BY <1>5 DEF Shutdown, timerVars, historyVars
<1> QED
  BY <1>1, <1>2, <1>3, <1>4, <1>5 DEF Call

\* A step of the worker: it starts a timed wait only for a timer that runs.
LEMMA LateWorker == LateInv /\ (Worker \/ CallbackReturns \/ Tick) => LateInv'
<1> SUFFICES ASSUME LateInv, Worker \/ CallbackReturns \/ Tick PROVE LateInv'
  OBVIOUS
<1> USE DEF LateInv, timerVars, historyVars
<1>1. CASE WorkerLooks
  BY <1>1 DEF WorkerLooks, Armed
<1>2. CASE WorkerWaits \/ WaitExpires
  BY <1>2 DEF WorkerWaits, WaitExpires
<1>3. CASE WorkerCalls
  BY <1>3 DEF WorkerCalls
<1>4. CASE CallbackReturns
  BY <1>4 DEF CallbackReturns
<1>5. CASE Tick
  BY <1>5 DEF Tick
<1> QED
  BY <1>1, <1>2, <1>3, <1>4, <1>5 DEF Worker

\* A stop() lets at most one callback begin after it.
THEOREM TimerStops == Spec => []OneCallbackAfterStop
<1>1. Init => LateInv
  BY DEF Init, LateInv
<1>2. LateInv /\ [Next]_vars => LateInv'
  BY LateCall, LateWorker DEF Next, LateInv, vars, timerVars, workerVars, historyVars
<1>3. LateInv => OneCallbackAfterStop
  BY DEF LateInv, OneCallbackAfterStop
<1> QED
  BY <1>1, <1>2, <1>3, PTL DEF Spec

-----------------------------------------------------------------------------
(* Arithmetic of the timer *)

\* Division with remainder.
LEMMA DivMod ==
  ASSUME NEW a \in Nat, NEW b \in Nat \ {0}
  PROVE  /\ a \div b \in Nat /\ a % b \in Nat
         /\ a = b * (a \div b) + (a % b) /\ a % b < b
OBVIOUS

\* Quotient and remainder are determined by the equation.
LEMMA DivModUnique ==
  ASSUME NEW b \in Nat \ {0}, NEW q \in Nat, NEW r \in Nat, r < b
  PROVE  (b * q + r) \div b = q /\ (b * q + r) % b = r
<1> DEFINE a == b * q + r
           p == a \div b
           s == a % b
<1>1. a \in Nat
  OBVIOUS
<1> HIDE DEF a
<1>2. p \in Nat /\ s \in Nat /\ a = b * p + s /\ s < b
  BY <1>1, DivMod
<1>3. ASSUME NEW d \in Int, d >= 1 PROVE b * d >= b
  BY <1>3
<1> HIDE DEF p, s
<1>4. b * (q - p) = s - r /\ b * (p - q) = r - s
  BY <1>2 DEF a
<1>5. ~(q - p >= 1) /\ ~(p - q >= 1)
  BY <1>2, <1>3, <1>4
<1>6. q = p /\ r = s
  BY <1>2, <1>4, <1>5
<1> QED
  BY <1>6 DEF a, p, s

\* Remainders may be added.
LEMMA ModAdd ==
  ASSUME NEW a \in Nat, NEW b \in Nat, NEW p \in Nat \ {0}
  PROVE  ((a % p) + (b % p)) % p = (a + b) % p
<1> DEFINE qa == a \div p
           ra == a % p
           qb == b \div p
           rb == b % p
           q == (ra + rb) \div p
           r == (ra + rb) % p
           k == qa + qb + q
<1>1. qa \in Nat /\ ra \in Nat /\ a = p * qa + ra /\ qb \in Nat /\ rb \in Nat /\ b = p * qb + rb
  BY DivMod
<1> HIDE DEF qa, ra, qb, rb
<1>2. q \in Nat /\ r \in Nat /\ ra + rb = p * q + r /\ r < p
  BY <1>1, DivMod
<1> HIDE DEF q, r
<1>3. k \in Nat /\ a + b = p * k + r
  BY <1>1, <1>2
<1> HIDE DEF k
<1>4. (a + b) % p = r
  BY <1>2, <1>3, DivModUnique
<1> QED
  BY <1>4 DEF ra, rb, r

\* Remainders may be multiplied.
LEMMA ModMul ==
  ASSUME NEW a \in Nat, NEW b \in Nat, NEW p \in Nat \ {0}
  PROVE  ((a % p) * (b % p)) % p = (a * b) % p
<1> DEFINE qa == a \div p
           ra == a % p
           qb == b \div p
           rb == b % p
           q == (ra * rb) \div p
           r == (ra * rb) % p
           k == p * qa * qb + qa * rb + ra * qb + q
<1>1. qa \in Nat /\ ra \in Nat /\ a = p * qa + ra /\ qb \in Nat /\ rb \in Nat /\ b = p * qb + rb
  BY DivMod
<1> HIDE DEF qa, ra, qb, rb
<1>2. q \in Nat /\ r \in Nat /\ ra * rb = p * q + r /\ r < p
  BY <1>1, DivMod
<1> HIDE DEF q, r
<1>3. k \in Nat /\ a * b = p * k + r
  BY <1>1, <1>2
<1> HIDE DEF k
<1>4. (a * b) % p = r
  BY <1>2, <1>3, DivModUnique
<1> QED
  BY <1>4 DEF ra, rb, r

\* A multiple of the divisor passes through the division.
LEMMA AddMultiple ==
  ASSUME NEW a \in Nat, NEW k \in Nat, NEW p \in Nat \ {0}
  PROVE  (p * k + a) \div p = k + (a \div p) /\ (p * k + a) % p = a % p
<1> DEFINE q == a \div p
           r == a % p
<1>1. q \in Nat /\ r \in Nat /\ a = p * q + r /\ r < p
  BY DivMod
<1> HIDE DEF q, r
<1>2. p * k + a = p * (k + q) + r
  BY <1>1
<1>3. (p * k + a) \div p = k + q /\ (p * k + a) % p = r
  BY <1>1, <1>2, DivModUnique
<1> QED
  BY <1>3 DEF q, r

\* Dividing by n and then by p is dividing by their product.
LEMMA DivDiv ==
  ASSUME NEW a \in Nat, NEW n \in Nat \ {0}, NEW p \in Nat \ {0}
  PROVE  /\ (a \div n) \div p = a \div (p * n)
         /\ n * ((a \div n) % p) <= a % (p * n)
<1> DEFINE q == a \div n
           r == a % n
           i == q \div p
           j == q % p
<1>1. q \in Nat /\ r \in Nat /\ a = n * q + r /\ r < n
  BY DivMod
<1> HIDE DEF q, r
<1>2. i \in Nat /\ j \in Nat /\ q = p * i + j /\ j < p
  BY <1>1, DivMod
<1> HIDE DEF i, j
<1>3. a = (p * n) * i + (n * j + r)
  BY <1>1, <1>2
<1>4. n * j <= n * (p - 1)
  BY <1>2
<1>5. n * j + r \in Nat /\ n * j + r < p * n /\ p * n \in Nat \ {0}
  BY <1>1, <1>2, <1>4
<1>6. a \div (p * n) = i /\ a % (p * n) = n * j + r
  BY <1>1, <1>2, <1>3, <1>5, DivModUnique
<1> QED
  BY <1>1, <1>6 DEF q, i, j

\* Whole seconds and the rest, each modulo the period, make the ticks modulo the period.
LEMMA Ticks ==
  ASSUME NEW e \in Nat, NEW f \in Nat, NEW n \in Nat \ {0}, NEW p \in Nat \ {0}
  PROVE  (((((e \div n) % p) * (f % p)) % p) + ((((e % n) * f) \div n) % p)) % p
           = ((e * f) \div n) % p
<1> DEFINE s == e \div n
           r == e % n
           whole == s * f
           rest == r * f
           x == rest \div n
<1>1. s \in Nat /\ r \in Nat /\ e = n * s + r
  BY DivMod
<1> HIDE DEF s, r
<1>2. whole \in Nat /\ rest \in Nat /\ e * f = n * whole + rest
  BY <1>1
<1>3. ((s % p) * (f % p)) % p = whole % p
  BY <1>1, ModMul, ZenonT(40)
<1> HIDE DEF whole, rest
<1>4. (n * whole + rest) \div n = whole + x /\ x \in Nat
  BY <1>2, AddMultiple, DivMod, ZenonT(40)
<1> HIDE DEF x
<1>5. ((whole % p) + (x % p)) % p = (whole + x) % p
  BY <1>2, <1>4, ModAdd
<1> QED
  BY <1>2, <1>3, <1>4, <1>5 DEF s, r, rest, x

\* It does not matter which summand is reduced modulo p.
LEMMA CounterIs ==
  ASSUME NEW c \in Nat, NEW t \in Nat, NEW p \in Nat \ {0}
  PROVE  (c + (t % p)) % p = ((c % p) + t) % p
<1>1. /\ t % p \in Nat /\ t % p < p /\ c % p \in Nat /\ c % p < p
  BY DivMod
<1>2. ASSUME NEW a \in Nat, a < p PROVE a % p = a
  <2>1. p * 0 + a = a
    BY <1>2
  <2> QED
    BY <1>2, <2>1, DivModUnique
<1>3. (t % p) % p = t % p /\ (c % p) % p = c % p
  BY <1>1, <1>2
<1>4. ((c % p) + ((t % p) % p)) % p = (c + (t % p)) % p
  BY <1>1, ModAdd
<1>5. (((c % p) % p) + (t % p)) % p = ((c % p) + t) % p
  BY <1>1, ModAdd
<1> QED
  BY <1>3, <1>4, <1>5

\* The phase of a counter that was c, e nanoseconds ago, and its overflows since then.
PhaseAt(c, e, f, n, p) == ((c % p) * n + e * f) % (p * n)
Overflows(c, e, f, n, p) == ((c % p) + ((e * f) \div n)) \div p

\* One more nanosecond, modulo a number of nanoseconds that fills whole periods, takes the
\* phase f further if the counter does not overflow.
LEMMA PhaseStep ==
  ASSUME NEW c \in Nat, NEW e \in Nat, NEW f \in Nat, NEW n \in Nat \ {0}, NEW p \in Nat \ {0},
         Overflows(c, e + 1, f, n, p) = Overflows(c, e, f, n, p)
  PROVE  PhaseAt(c, (e + 1) % (n * p), f, n, p) = PhaseAt(c, e, f, n, p) + f
<1> DEFINE d == c % p
           m == p * n
           a == d * n + e * f
           b == a + f
           i == (e + 1) \div m
           j == (e + 1) % m
<1>1. d \in Nat /\ m \in Nat \ {0} /\ n * p = m /\ e * f \in Nat /\ (e + 1) * f = e * f + f
  BY DivMod
<1> HIDE DEF d, m
<1>2. a \in Nat /\ b \in Nat /\ a = n * d + e * f /\ b = n * d + (e + 1) * f
  BY <1>1
<1>3. d + ((e * f) \div n) = a \div n /\ d + (((e + 1) * f) \div n) = b \div n
  <2>1. ASSUME NEW x \in Nat PROVE (n * d + x) \div n = d + (x \div n)
    BY <1>1, AddMultiple, ZenonT(40)
  <2>2. (e + 1) * f \in Nat
    BY <1>1
  <2> QED
    BY <1>1, <1>2, <2>1, <2>2
<1> HIDE DEF a, b
<1>4. b \div m = a \div m
  <2>1. (a \div n) \div p = a \div m /\ (b \div n) \div p = b \div m
    BY <1>2, DivDiv DEF m
  <2> QED
    BY <1>3, <2>1 DEF d, Overflows
<1>5. b % m = (a % m) + f
  <2>1. /\ a = m * (a \div m) + (a % m) /\ a \div m \in Nat /\ a % m \in Nat
        /\ b = m * (b \div m) + (b % m) /\ b % m \in Nat
    BY <1>1, <1>2, DivMod
  <2>2. b = a + f
    BY DEF b
  <2> QED
    BY <1>1, <1>2, <1>4, <2>1, <2>2
<1>6. i \in Nat /\ j \in Nat /\ e + 1 = m * i + j
  BY <1>1, DivMod
<1> HIDE DEF i, j
<1>7. i * f \in Nat /\ d * n + j * f \in Nat /\ b = m * (i * f) + (d * n + j * f)
  BY <1>1, <1>2, <1>6
<1>8. b % m = (d * n + j * f) % m
  <2>1. ASSUME NEW k \in Nat, NEW x \in Nat PROVE (m * k + x) % m = x % m
    BY <1>1, AddMultiple, ZenonT(40)
  <2> QED
    BY <1>7, <2>1
<1> QED
  BY <1>1, <1>5, <1>8 DEF a, d, j, m, PhaseAt

\* A quotient rounded up times the divisor is no less than the dividend.
LEMMA Ceiling ==
  ASSUME NEW x \in Nat, NEW f \in Nat \ {0}
  PROVE  ((x + f - 1) \div f) \in Nat /\ ((x + f - 1) \div f) * f >= x
<1> DEFINE q == (x + f - 1) \div f
<1>1. q \in Nat /\ x + f - 1 = f * q + ((x + f - 1) % f) /\ (x + f - 1) % f < f /\ (x + f - 1) % f \in Nat
  BY DivMod
<1> HIDE DEF q
<1> QED
  BY <1>1 DEF q

-----------------------------------------------------------------------------
(* The timed wait of the timer's worker *)

\* The timer's period and frequency are numbers, and the period is not 0.
LEMMA TimerNumbers ==
  ASSUME TypeOK
  PROVE  /\ Period \in Nat \ {0} /\ getTickFrequencyHzUnlocked \in Nat
         /\ NANOSECONDS_PER_SECOND \in Nat \ {0}
         /\ m_counter \in Nat /\ elapsed \in Nat /\ remaining \in Nat
<1>1. m_prescaler + 1 \in Nat \ {0} /\ Period \in Nat \ {0}
  BY DEF TypeOK, Period
<1>2. getTickFrequencyHzUnlocked \in Nat
  BY <1>1, DivMod, LinuxTimerAssumption DEF getTickFrequencyHzUnlocked
<1> QED
  BY <1>1, <1>2, LinuxTimerAssumption DEF TypeOK

\* counterAt is the unwrapped counter modulo the period, whatever way it computes it; the
\* phase is at least that many ticks.
LEMMA CounterAt ==
  ASSUME TypeOK, getTickFrequencyHzUnlocked # 0
  PROVE  /\ counterAt(elapsed) \in Nat /\ counterAt(elapsed) < Period
         /\ NANOSECONDS_PER_SECOND * counterAt(elapsed) <= Phase
<1> DEFINE c == m_counter
           e == elapsed
           f == getTickFrequencyHzUnlocked
           n == NANOSECONDS_PER_SECOND
           p == Period
           t == (e * f) \div n
           d == c % p
           a == n * d + e * f
<1>1. f \in Nat /\ p \in Nat \ {0} /\ n \in Nat \ {0} /\ c \in Nat /\ e \in Nat
  BY TimerNumbers
<1>2. ElapsedTicks(e) = t % p
  <2>1. ElapsedTicks(e) = (((((e \div n) % p) * (f % p)) % p) + ((((e % n) * f) \div n) % p)) % p
    BY DEF ElapsedTicks
  <2> HIDE DEF f, n, p, e
  <2> QED
    BY <1>1, <2>1, Ticks, ZenonT(40)
<1>3. counterAt(e) = (c + ElapsedTicks(e)) % p
  BY DEF counterAt
<1>4. Phase = (d * n + e * f) % (p * n)
  BY DEF Phase
<1> HIDE DEF c, e, f, n, p
<1>5. t \in Nat /\ d \in Nat /\ e * f \in Nat
  <2>1. e * f \in Nat
    BY <1>1
  <2> QED
    BY <1>1, <2>1, DivMod
<1>6. counterAt(e) = (d + t) % p
  <2> HIDE DEF t
  <2>1. (c + (t % p)) % p = ((c % p) + t) % p
    BY <1>1, <1>5, CounterIs
  <2> QED
    BY <1>2, <1>3, <2>1
<1>7. d + t = a \div n
  <2> DEFINE x == e * f
  <2> HIDE DEF d, x
  <2>1. (n * d + x) \div n = d + (x \div n)
    BY <1>1, <1>5, AddMultiple DEF x
  <2> QED
    BY <2>1 DEF x
<1>8. a \in Nat /\ a = d * n + e * f
  <2> HIDE DEF d
  <2> QED
    BY <1>1, <1>5
<1>9. n * ((a \div n) % p) <= a % (p * n)
  <2> HIDE DEF a
  <2> QED
    BY <1>1, <1>8, DivDiv
<1>10. counterAt(e) \in Nat /\ counterAt(e) < p
  BY <1>1, <1>5, <1>6, DivMod
<1> QED
  BY <1>4, <1>6, <1>7, <1>8, <1>9, <1>10 DEF e, n, p

\* The time the worker is to wait takes the counter to the end of its period.
LEMMA WaitIsLongEnough ==
  ASSUME TypeOK
  PROVE  /\ nanosecondsUntilOverflowUnlocked \in Nat
         /\ getTickFrequencyHzUnlocked # 0 =>
              nanosecondsUntilOverflowUnlocked * getTickFrequencyHzUnlocked + Phase
                >= Period * NANOSECONDS_PER_SECOND
<1> DEFINE f == getTickFrequencyHzUnlocked
           n == NANOSECONDS_PER_SECOND
           p == Period
           k == counterAt(elapsed)
           x == (p - k) * n
           w == nanosecondsUntilOverflowUnlocked
<1>1. f \in Nat /\ p \in Nat \ {0} /\ n \in Nat \ {0}
  BY TimerNumbers
<1>2. CASE f = 0
  BY <1>1, <1>2 DEF nanosecondsUntilOverflowUnlocked
<1>3. CASE f # 0
  <2>1. k \in Nat /\ k < p /\ n * k <= Phase
    BY <1>3, CounterAt
  <2>2. w = (x + f - 1) \div f
    BY <1>3 DEF nanosecondsUntilOverflowUnlocked, CeilDiv
  <2>3. Phase \in Nat
    <3>1. p * n \in Nat \ {0} /\ (m_counter % p) * n + elapsed * f \in Nat
      BY <1>1, TimerNumbers, DivMod
    <3> QED
      BY <3>1, DivMod DEF Phase
  <2> HIDE DEF f, n, p, k, w
  <2>4. x \in Nat /\ x = p * n - n * k
    BY <1>1, <2>1
  <2>5. w \in Nat /\ w * f >= x
    <3> HIDE DEF x
    <3> QED
      BY <1>1, <1>3, <2>2, <2>4, Ceiling
  <2>6. w * f + Phase >= p * n
    BY <1>1, <2>1, <2>3, <2>4, <2>5
  <2> QED
    BY <2>5, <2>6 DEF f, n, p, w
<1> QED
  BY <1>2, <1>3

\* The numbers stay numbers.
LEMMA TimerTypes == TypeOK /\ [Next]_vars => TypeOK'
<1> SUFFICES ASSUME TypeOK, [Next]_vars PROVE TypeOK'
  OBVIOUS
<1> USE DEF TypeOK
<1>1. Captured \in Nat
  BY CounterAt DEF Captured, counterAt
<1>2. ASSUME NEW running \in BOOLEAN, NEW interrupt, NEW counter \in Nat,
             NEW prescaler \in Nat, NEW autoReload \in Nat,
             Reprogram(running, interrupt, counter, prescaler, autoReload)
      PROVE  TypeOK'
  BY <1>2 DEF Reprogram, notifyWorker
<1>3. CASE Call
  <2>1. CASE start(FALSE) \/ start(TRUE) \/ stop
    BY <1>1, <1>2, <2>1 DEF start, stop
  <2>2. ASSUME NEW value \in Counters, setCounter(value) PROVE TypeOK'
    BY <1>2, <2>2, LinuxTimerAssumption DEF setCounter
  <2>3. ASSUME NEW value \in AutoReloads, setAutoReload(value) PROVE TypeOK'
    BY <1>1, <1>2, <2>3, LinuxTimerAssumption DEF setAutoReload
  <2>4. ASSUME NEW value \in Prescalers, setPrescaler(value) PROVE TypeOK'
    BY <1>1, <1>2, <2>4, LinuxTimerAssumption DEF setPrescaler
  <2>5. ASSUME NEW duration \in Durations, setPeriodImpl(duration) PROVE TypeOK'
    <3> DEFINE ticks == durationToTicksUnlocked(duration)
               x == duration * getTickFrequencyHzUnlocked
    <3>1. x \in Nat /\ NANOSECONDS_PER_SECOND \in Nat \ {0}
      BY LinuxTimerAssumption, TimerNumbers
    <3>2. ticks = (x + NANOSECONDS_PER_SECOND - 1) \div NANOSECONDS_PER_SECOND
      BY DEF durationToTicksUnlocked, CeilDiv
    <3> HIDE DEF x, ticks
    <3>3. ticks \in Nat
      BY <3>1, <3>2, Ceiling
    <3>4. (IF ticks = 0 THEN 0 ELSE ticks - 1) \in Nat
      BY <3>3
    <3> QED
      BY <1>2, <2>5, <3>4 DEF setPeriodImpl, ticks
  <2>6. ASSUME NEW callback, setPeriodElapsedCallback(callback) PROVE TypeOK'
    BY <2>6 DEF setPeriodElapsedCallback, timerVars, workerVars, historyVars
  <2>7. CASE Shutdown
    BY <2>7 DEF Shutdown, notifyWorker, timerVars, historyVars
  <2> QED
    BY <1>3, <2>1, <2>2, <2>3, <2>4, <2>5, <2>6, <2>7 DEF Call
<1>4. CASE Worker \/ CallbackReturns
  BY <1>4, WaitIsLongEnough
     DEF Worker, WorkerLooks, WorkerWaits, WaitExpires, WorkerCalls, CallbackReturns,
         timerVars, historyVars
<1>5. CASE Tick
  <2>1. (elapsed + 1) % (NANOSECONDS_PER_SECOND * Period) \in Nat
    <3>1. NANOSECONDS_PER_SECOND * Period \in Nat \ {0} /\ elapsed + 1 \in Nat
      BY TimerNumbers
    <3> QED
      BY <3>1, DivMod
  <2> QED
    BY <1>5, <2>1 DEF Tick
<1>6. CASE UNCHANGED vars
  BY <1>6 DEF vars, timerVars, workerVars, historyVars
<1> QED
  BY <1>3, <1>4, <1>5, <1>6 DEF Next

\* A nanosecond passes: unless the counter overflows, it comes as much closer to the end of
\* its period as the wait does to its end.
LEMMA WaitTick == TypeOK /\ WaitInv /\ ExpiredInv /\ Tick => WaitInv'
<1> SUFFICES ASSUME TypeOK, WaitInv, ExpiredInv, Tick,
                    pc' \in {"reading", "timed", "expired"}, m_running', ~touched', ~overflowed',
                    getTickFrequencyHzUnlocked' # 0
             PROVE  (remaining * getTickFrequencyHzUnlocked + Phase
                       >= Period * NANOSECONDS_PER_SECOND)'
  BY DEF WaitInv
<1> DEFINE c == m_counter
           e == elapsed
           f == getTickFrequencyHzUnlocked
           n == NANOSECONDS_PER_SECOND
           p == Period
           r == remaining
<1>1. f \in Nat /\ p \in Nat \ {0} /\ n \in Nat \ {0} /\ c \in Nat /\ e \in Nat /\ r \in Nat
  BY TimerNumbers
<1>2. /\ c' = c /\ f' = f /\ p' = p /\ pc' = pc /\ m_running /\ ~touched /\ f # 0
      /\ e' = (e + 1) % (n * p)
      /\ r' = IF pc = "timed" /\ r > 0 THEN r - 1 ELSE r
  BY DEF Tick, Period, getTickFrequencyHzUnlocked
<1>3. ~overflowed /\ Unwrapped(e + 1) \div p = Unwrapped(e) \div p
  BY <1>2 DEF Tick, TypeOK
<1>4. r * f + Phase >= p * n
  BY <1>2, <1>3 DEF WaitInv
<1>5. Phase = PhaseAt(c, e, f, n, p) /\ Phase' = PhaseAt(c, e', f, n, p)
  BY <1>2 DEF Phase, PhaseAt
<1>6. Overflows(c, e + 1, f, n, p) = Overflows(c, e, f, n, p)
  BY <1>3 DEF Unwrapped, Overflows
<1> HIDE DEF c, e, f, n, p, r
<1>7. Phase' = Phase + f
  BY <1>1, <1>2, <1>5, <1>6, PhaseStep
<1>8. Phase \in Nat
  <2>1. c % p \in Nat
    BY <1>1, DivMod
  <2>2. p * n \in Nat \ {0} /\ (c % p) * n + e * f \in Nat
    BY <1>1, <2>1
  <2> QED
    BY <1>5, <2>2, DivMod DEF PhaseAt
<1>9. r' * f >= r * f - f
  <2>1. (r - 1) * f = r * f - f
    BY <1>1
  <2> QED
    BY <1>1, <1>2, <2>1
<1>10. r' * f + Phase' >= p * n
  <2> DEFINE before == r * f
             after == r' * f
             m == p * n
  <2>1. before \in Nat /\ after \in Nat /\ m \in Nat
    BY <1>1, <1>2
  <2> HIDE DEF before, after, m
  <2>2. before + Phase >= m /\ after >= before - f
    BY <1>4, <1>9 DEF before, after, m
  <2>3. after + Phase' >= m
    BY <1>1, <1>7, <1>8, <2>1, <2>2
  <2> QED
    BY <2>3 DEF after, m
<1> QED
  BY <1>2, <1>10 DEF f, n, p, r

\* What only programs the timer, or moves the worker on, keeps the wait long enough.
LEMMA WaitStep == TypeOK /\ WaitInv /\ ExpiredInv /\ [Next]_vars => WaitInv' /\ ExpiredInv'
<1> SUFFICES ASSUME TypeOK, WaitInv, ExpiredInv, [Next]_vars PROVE WaitInv' /\ ExpiredInv'
  OBVIOUS
<1> USE DEF ExpiredInv
<1>1. ASSUME NEW running, NEW interrupt, NEW counter, NEW prescaler, NEW autoReload,
             Reprogram(running, interrupt, counter, prescaler, autoReload)
      PROVE  WaitInv' /\ ExpiredInv'
  BY <1>1 DEF Reprogram, notifyWorker, WaitInv
<1>2. CASE UNCHANGED <<timerVars, overflowed, touched, remaining>> /\
           (pc' = pc \/ pc' \in {"lock", "idle", "done", "calling"} \/
            (pc = "reading" /\ pc' = "timed") \/
            (pc = "timed" /\ remaining = 0 /\ pc' = "expired"))
  BY <1>2 DEF WaitInv, Phase, Period, getTickFrequencyHzUnlocked, timerVars
<1>3. CASE Call
  <2>1. CASE start(FALSE) \/ start(TRUE) \/ stop
    BY <1>1, <2>1 DEF start, stop
  <2>2. ASSUME NEW value, setCounter(value) \/ setAutoReload(value) \/ setPrescaler(value)
                            \/ setPeriodImpl(value)
        PROVE  WaitInv' /\ ExpiredInv'
    BY <1>1, <2>2 DEF setCounter, setAutoReload, setPrescaler, setPeriodImpl
  <2>3. ASSUME NEW callback, setPeriodElapsedCallback(callback)
        PROVE  WaitInv' /\ ExpiredInv'
    BY <1>2, <2>3 DEF setPeriodElapsedCallback, workerVars, historyVars
  <2>4. CASE Shutdown
    <3>1. CASE pc \in {"idle", "timed"}
      BY <2>4, <3>1 DEF Shutdown, notifyWorker, WaitInv
    <3>2. CASE pc \notin {"idle", "timed"}
      BY <1>2, <2>4, <3>2 DEF Shutdown, notifyWorker, historyVars
    <3> QED
      BY <3>1, <3>2
  <2> QED
    BY <1>3, <2>1, <2>2, <2>3, <2>4 DEF Call
<1>4. CASE WorkerLooks
  <2>1. CASE pc' = "reading"
    <3>1. /\ remaining' = nanosecondsUntilOverflowUnlocked
          /\ Phase' = Phase /\ Period' = Period
          /\ getTickFrequencyHzUnlocked' = getTickFrequencyHzUnlocked
      BY <1>4, <2>1 DEF WorkerLooks, Phase, Period, getTickFrequencyHzUnlocked, timerVars
    <3> QED
      BY <2>1, <3>1, WaitIsLongEnough DEF WaitInv
  <2>2. CASE pc' # "reading"
    BY <1>2, <1>4, <2>2 DEF WorkerLooks
  <2> QED
    BY <2>1, <2>2
<1>5. CASE WorkerWaits \/ WaitExpires \/ WorkerCalls \/ CallbackReturns
  BY <1>2, <1>5 DEF WorkerWaits, WaitExpires, WorkerCalls, CallbackReturns, historyVars
<1>6. CASE Tick
  BY <1>6, WaitTick DEF Tick
<1>7. CASE UNCHANGED vars
  BY <1>2, <1>7 DEF vars, workerVars, historyVars
<1> QED
  BY <1>3, <1>4, <1>5, <1>6, <1>7 DEF Next, Worker

\* The worker calls back no earlier than the counter overflows, whatever the frequency,
\* the prescaler, the period and the counter are and however their units round.
THEOREM TimerIsNotEarly == Spec => []NoEarlyCallback
<1>1. Init => TypeOK /\ WaitInv /\ ExpiredInv
  <2>1. Prescalers \subseteq Nat /\ AutoReloads \subseteq Nat
    BY LinuxTimerAssumption
  <2>2. Init => pc = "lock"
    BY DEF Init
  <2>3. pc = "lock" => WaitInv /\ ExpiredInv
    BY DEF WaitInv, ExpiredInv
  <2>4. ASSUME Init PROVE TypeOK
    <3>1. /\ m_counter \in Nat /\ m_prescaler \in Nat /\ m_autoReload \in Nat
          /\ elapsed \in Nat /\ remaining \in Nat
      BY <2>1, <2>4 DEF Init
    <3>2. m_running \in BOOLEAN /\ overflowed \in BOOLEAN /\ touched \in BOOLEAN
      BY <2>4 DEF Init
    <3> QED
      BY <3>1, <3>2 DEF TypeOK
  <2> QED
    BY <2>2, <2>3, <2>4
<1>2. TypeOK /\ WaitInv /\ ExpiredInv /\ [Next]_vars => TypeOK' /\ WaitInv' /\ ExpiredInv'
  BY TimerTypes, WaitStep
<1>3. TypeOK /\ WaitInv /\ ExpiredInv => NoEarlyCallback
  <2> SUFFICES ASSUME TypeOK, WaitInv, ExpiredInv, pc = "expired", m_running, ~touched,
                      getTickFrequencyHzUnlocked # 0, ~overflowed
               PROVE  FALSE
    BY DEF NoEarlyCallback
  <2> DEFINE m == Period * NANOSECONDS_PER_SECOND
             x == (m_counter % Period) * NANOSECONDS_PER_SECOND
                    + elapsed * getTickFrequencyHzUnlocked
  <2>1. 0 * getTickFrequencyHzUnlocked + Phase >= m
    BY DEF WaitInv, ExpiredInv
  <2>2. m_counter % Period \in Nat
    BY TimerNumbers, DivMod
  <2>3. m \in Nat \ {0} /\ x \in Nat /\ Phase = x % m
    BY <2>2, TimerNumbers DEF Phase
  <2> HIDE DEF m, x
  <2>4. Phase \in Nat /\ Phase < m
    BY <2>3, DivMod
  <2> QED
    BY <2>1, <2>3, <2>4, TimerNumbers
<1> QED
  BY <1>1, <1>2, <1>3, PTL DEF Spec

-----------------------------------------------------------------------------
(* The receive slots of the STM32 Ethernet *)

\* What DevicesAssumption says of the descriptors and slots.
LEMMA SlotNumbers ==
  /\ ETH_RX_DESC_CNT \in Nat /\ ETH_RX_DESC_CNT > 0
  /\ MaxSegments \in Nat /\ 1 <= MaxSegments /\ MaxSegments <= ETH_RX_DESC_CNT
  /\ 0 \notin Tasks /\ 0 \notin Stm32!RX_SLOTS
BY DevicesAssumption DEF Stm32!RX_SLOTS

\* The mutexes of each call, in order.
LEMMA LocksOfCalls ==
  /\ Stm32!LocksOf("start") = <<"transmit", "receive", "state">>
  /\ Stm32!LocksOf("stop") = <<"transmit", "receive", "state">>
  /\ Stm32!LocksOf("transmit") = <<"transmit", "state">>
  /\ Stm32!LocksOf("receive") = <<"receive", "state">>
BY DEF Stm32!LocksOf

\* The record of a task in no call.
LEMMA RestingRecord ==
  /\ Stm32!Resting \in Stm32!TaskRecords
  /\ Stm32!Resting.pc = "idle" /\ Stm32!Resting.packet = <<>> /\ Stm32!Resting.taken = 0
BY DEF Stm32!Resting, Stm32!TaskRecords, Stm32!Places

\* At first no slot is in use.
LEMMA DmaInit == Stm32!Init => Stm32!DmaInv
<1> SUFFICES ASSUME Stm32!Init PROVE Stm32!DmaInv
  OBVIOUS
<1>1. /\ ring \in [1 .. ETH_RX_DESC_CNT ->
                    [slot : {0} \cup Stm32!RX_SLOTS, state : {"dma", "more", "last"}]]
      /\ \A d \in 1 .. ETH_RX_DESC_CNT : ring[d].slot = 0 /\ ring[d].state = "dma"
      /\ DOMAIN ring = 1 .. ETH_RX_DESC_CNT
  BY DEF Stm32!Init, Stm32!Empty
<1>2. \A t \in Tasks : task[t] = Stm32!Resting
  BY DEF Stm32!Init
<1>3. Stm32!TypeOK
  <2>1. task \in [Tasks -> Stm32!TaskRecords] /\ lock \in [Stm32!Locks -> Tasks \cup {0}]
    BY RestingRecord DEF Stm32!Init
  <2>2. m_eth_running \in BOOLEAN /\ allocated \subseteq Stm32!RX_SLOTS /\ chain \in Seq(Stm32!RX_SLOTS)
    <3>1. m_eth_running = FALSE /\ allocated = {} /\ chain = <<>>
      BY DEF Stm32!Init
    <3>2. <<>> \in Seq(Stm32!RX_SLOTS)
      OBVIOUS
    <3> QED
      BY <3>1, <3>2, Zenon
  <2> QED
    BY <1>1, <2>1, <2>2 DEF Stm32!TypeOK
<1>4. \A t \in Tasks : Stm32!TaskOK(t)
  BY <1>2, RestingRecord DEF Stm32!TaskOK
<1>5. Stm32!RingInv
  <2>1. \A k, n \in 0 .. ETH_RX_DESC_CNT : k <= n /\ Stm32!IsRun(k, n) => k = n
    BY <1>1, SlotNumbers DEF Stm32!IsRun
  <2>2. chain = <<>> /\ Len(chain) = 0
    BY DEF Stm32!Init
  <2> QED
    BY <1>1, <2>1, <2>2, SlotNumbers DEF Stm32!RingInv, Stm32!Segments
<1>6. Stm32!SlotInv
  <2>1. chain = <<>> /\ allocated = {} /\ DOMAIN chain = {}
    BY DEF Stm32!Init
  <2>2. \A t \in Tasks : Stm32!Contents(task[t].packet) = {}
    BY <1>2, RestingRecord DEF Stm32!Contents
  <2> QED
    BY <1>1, <2>1, <2>2 DEF Stm32!SlotInv
<1> QED
  BY <1>3, <1>4, <1>5, <1>6 DEF Stm32!DmaInv

\* A step of task t that leaves m_receiveMutex to others keeps what is known of them.
LEMMA OthersKeep ==
  ASSUME Stm32!DmaInv, NEW t \in Tasks, NEW r, task' = [task EXCEPT ![t] = r],
         lock["receive"] \in Tasks \ {t} => lock'["receive"] = lock["receive"],
         chain' = chain \/ lock["receive"] = t
  PROVE  \A u \in Tasks \ {t} : Stm32!TaskOK(u)'
<1> SUFFICES ASSUME NEW u \in Tasks \ {t} PROVE Stm32!TaskOK(u)'
  OBVIOUS
<1>1. task'[u] = task[u]
  BY DEF Stm32!DmaInv, Stm32!TypeOK
<1>2. Stm32!TaskOK(u) /\ t # 0 /\ u # 0
  BY SlotNumbers DEF Stm32!DmaInv
<1>3. lock["receive"] = u => lock'["receive"] = u
  OBVIOUS
<1>4. task[u].packet # <<>> => lock["receive"] = u
  BY <1>2 DEF Stm32!TaskOK
<1>5. task[u].packet # <<>> => chain' = chain
  BY <1>4
<1> QED
  BY <1>1, <1>2, <1>3, <1>5 DEF Stm32!TaskOK

\* A step that moves no slot.
LEMMA TaskMoves ==
  ASSUME Stm32!DmaInv, NEW t \in Tasks, NEW r \in Stm32!TaskRecords, task' = [task EXCEPT ![t] = r],
         r.packet = task[t].packet, UNCHANGED <<allocated, ring, chain>>,
         m_eth_running' \in BOOLEAN, lock' \in [Stm32!Locks -> Tasks \cup {0}],
         lock["receive"] \in Tasks \ {t} => lock'["receive"] = lock["receive"],
         Stm32!TaskOK(t)'
  PROVE  Stm32!DmaInv'
<1>1. Stm32!TypeOK'
  BY DEF Stm32!DmaInv, Stm32!TypeOK
<1>2. \A u \in Tasks : Stm32!TaskOK(u)'
  BY OthersKeep
<1>3. Stm32!RingInv'
  BY DEF Stm32!DmaInv, Stm32!RingInv, Stm32!IsRun, Stm32!Segments
<1>4. \A u \in Tasks : task'[u].packet = task[u].packet
  BY DEF Stm32!DmaInv, Stm32!TypeOK
<1>5. Stm32!SlotInv'
  BY <1>4 DEF Stm32!DmaInv, Stm32!SlotInv, Stm32!Contents
<1> QED
  BY <1>1, <1>2, <1>3, <1>5 DEF Stm32!DmaInv

\* A call without a frame returns.
LEMMA FinishKeeps ==
  ASSUME Stm32!DmaInv, NEW t \in Tasks, Stm32!Finish(t), task[t].packet = <<>>,
         UNCHANGED <<allocated, ring, chain>>, m_eth_running' \in BOOLEAN
  PROVE  Stm32!DmaInv'
<1>1. PICK r : r = Stm32!Resting
  OBVIOUS
<1>2. /\ lock' \in [Stm32!Locks -> Tasks \cup {0}]
      /\ lock["receive"] \in Tasks \ {t} => lock'["receive"] = lock["receive"]
  BY DEF Stm32!Finish, Stm32!DmaInv, Stm32!TypeOK, Stm32!Locks
<1>3. task' = [task EXCEPT ![t] = r] /\ r \in Stm32!TaskRecords /\ r.packet = <<>>
  BY <1>1, RestingRecord DEF Stm32!Finish
<1>4. task'[t] = Stm32!Resting
  BY <1>1, <1>3 DEF Stm32!DmaInv, Stm32!TypeOK
<1>5. Stm32!TaskOK(t)'
  BY <1>4, RestingRecord DEF Stm32!TaskOK
<1> QED
  BY <1>2, <1>3, <1>5, TaskMoves

\* A call begins.
LEMMA InvokeKeeps ==
  ASSUME Stm32!DmaInv, NEW t \in Tasks, NEW call \in Stm32!Operations, Stm32!Invoke(t, call)
  PROVE  Stm32!DmaInv'
<1>1. task[t] = Stm32!Resting
  BY DEF Stm32!DmaInv, Stm32!TaskOK, Stm32!Invoke
<1>2. PICK r : r = [Stm32!Resting EXCEPT !.call = call, !.pc = "lock"]
  OBVIOUS
<1>3. /\ r \in Stm32!TaskRecords /\ r.pc = "lock" /\ r.call = call /\ r.packet = <<>> /\ r.taken = 0
  BY <1>2, RestingRecord DEF Stm32!TaskRecords, Stm32!Places
<1>4. task' = [task EXCEPT ![t] = r] /\ UNCHANGED <<m_eth_running, allocated, ring, chain, lock>>
  BY <1>1, <1>2 DEF Stm32!Invoke
<1>5. task'[t] = r /\ r.packet = task[t].packet
  BY <1>1, <1>3, <1>4, RestingRecord DEF Stm32!DmaInv, Stm32!TypeOK
<1>6. Len(Stm32!LocksOf(call)) > 0
  BY LocksOfCalls DEF Stm32!Operations
<1>7. Stm32!TaskOK(t)'
  BY <1>3, <1>5, <1>6 DEF Stm32!TaskOK, Stm32!Operations
<1> QED
  BY <1>3, <1>4, <1>5, <1>7, TaskMoves DEF Stm32!DmaInv, Stm32!TypeOK

\* A call takes its next mutex; where slots move it has m_receiveMutex.
LEMMA TakeLockKeeps ==
  ASSUME Stm32!DmaInv, NEW t \in Tasks, Stm32!TakeLock(t)
  PROVE  Stm32!DmaInv'
<1>1. PICK l : l = task[t]
  OBVIOUS
<1>2. /\ l \in Stm32!TaskRecords /\ l.pc = "lock" /\ l.call \in Stm32!Operations
      /\ l.taken \in 0 .. 3 /\ l.taken < Len(Stm32!LocksOf(l.call)) /\ l.packet = <<>>
      /\ l.taken >= 2 /\ l.call \in {"start", "stop"} => lock["receive"] = t
      /\ l.taken >= 1 /\ l.call = "receive" => lock["receive"] = t
  BY <1>1 DEF Stm32!DmaInv, Stm32!TypeOK, Stm32!TaskOK, Stm32!TakeLock, Stm32!TaskRecords
<1> DEFINE locks == Stm32!LocksOf(l.call)
           mutex == locks[l.taken + 1]
           place == IF l.taken = Len(locks) - 1 THEN "locked" ELSE "lock"
<1>3. /\ Len(locks) \in {2, 3} /\ mutex \in Stm32!Locks
      /\ l.taken = 1 /\ l.call \in {"start", "stop"} => mutex = "receive"
      /\ l.taken = 0 /\ l.call = "receive" => mutex = "receive"
  BY <1>2, LocksOfCalls DEF Stm32!Operations, Stm32!Locks
<1>4. /\ lock[mutex] = 0 /\ lock' = [lock EXCEPT ![mutex] = t]
      /\ task' = [task EXCEPT ![t] = [@ EXCEPT !.taken = l.taken + 1, !.pc = place]]
      /\ UNCHANGED <<m_eth_running, allocated, ring, chain>>
  BY <1>1 DEF Stm32!TakeLock
<1> HIDE DEF mutex
<1>5. PICK r : r = [l EXCEPT !.taken = l.taken + 1, !.pc = place]
  OBVIOUS
<1>6. /\ r \in Stm32!TaskRecords /\ r.taken = l.taken + 1 /\ r.call = l.call /\ r.packet = <<>>
      /\ r.pc = place
  <2>1. l.taken + 1 \in 0 .. 3 /\ place \in Stm32!Places
    <3>1. PICK k \in {2, 3} : k = Len(locks)
      BY <1>3
    <3>2. l.taken + 1 \in 0 .. 3
      <4>1. l.taken \in 0 .. 3 /\ l.taken < k
        BY <1>2, <3>1, Zenon
      <4> QED
        BY <4>1
    <3>3. place \in Stm32!Places
      BY Zenon DEF Stm32!Places
    <3> QED
      BY <3>2, <3>3
  <2> HIDE DEF place
  <2> QED
    BY <1>2, <1>5, <2>1 DEF Stm32!TaskRecords
<1>7. /\ lock' \in [Stm32!Locks -> Tasks \cup {0}] /\ lock'[mutex] = t
      /\ \A m \in Stm32!Locks : lock[m] # 0 => lock'[m] = lock[m]
  BY <1>3, <1>4 DEF Stm32!DmaInv, Stm32!TypeOK
<1>8. /\ lock["receive"] \in Tasks \ {t} => lock'["receive"] = lock["receive"]
      /\ lock["receive"] = t => lock'["receive"] = t
  BY <1>7, SlotNumbers DEF Stm32!Locks
<1>9. task' = [task EXCEPT ![t] = r] /\ task'[t] = r
  BY <1>1, <1>4, <1>5 DEF Stm32!DmaInv, Stm32!TypeOK
<1>10. Stm32!TaskOK(t)'
  <2>1. r.taken >= 2 /\ r.call \in {"start", "stop"} => lock'["receive"] = t
    BY <1>2, <1>3, <1>6, <1>7, <1>8
  <2>2. r.taken >= 1 /\ r.call = "receive" => lock'["receive"] = t
    BY <1>2, <1>3, <1>6, <1>7, <1>8
  <2>3. /\ r.pc \in {"lock", "locked"}
        /\ r.pc = "lock" => r.taken < Len(Stm32!LocksOf(r.call))
        /\ r.pc = "locked" => r.taken = Len(Stm32!LocksOf(r.call))
    BY <1>2, <1>3, <1>6
  <2> QED
    BY <1>2, <1>6, <1>9, <2>1, <2>2, <2>3 DEF Stm32!TaskOK
<1> QED
  <2>1. m_eth_running' \in BOOLEAN /\ r.packet = task[t].packet
    BY <1>1, <1>2, <1>4, <1>6 DEF Stm32!DmaInv, Stm32!TypeOK
  <2> QED
    BY <1>4, <1>6, <1>7, <1>8, <1>9, <1>10, <2>1, TaskMoves

\* A task that holds m_receiveMutex is the only one that may have a frame.
LEMMA OneFrame ==
  ASSUME Stm32!DmaInv, NEW t \in Tasks, lock["receive"] = t
  PROVE  \A u \in Tasks \ {t} : task[u].packet = <<>>
BY DEF Stm32!DmaInv, Stm32!TaskOK

\* What TypeOK says of one descriptor.
LEMMA RingTypes ==
  ASSUME Stm32!DmaInv
  PROVE  /\ DOMAIN ring = 1 .. ETH_RX_DESC_CNT
         /\ \A d \in 1 .. ETH_RX_DESC_CNT :
              ring[d].slot \in {0} \cup Stm32!RX_SLOTS /\ ring[d].state \in {"dma", "more", "last"}
         /\ \A d \in 1 .. ETH_RX_DESC_CNT :
              ring[d] \in [slot : {0} \cup Stm32!RX_SLOTS, state : {"dma", "more", "last"}]
         /\ Len(chain) \in Nat /\ DOMAIN chain = 1 .. Len(chain)
BY DEF Stm32!DmaInv, Stm32!TypeOK

\* A call moves to a place inside m_receiveMutex, or keeps it.
LEMMA GoInside ==
  ASSUME Stm32!DmaInv, NEW t \in Tasks, NEW place \in {"refill", "read", "copy", "wait"},
         task' = [task EXCEPT ![t] = [@ EXCEPT !.pc = place]],
         task[t].packet # <<>> => place = "copy",
         task[t].packet # <<>> \/ place # "refill" => task[t].call = "receive",
         lock["receive"] = t, lock'["receive"] = t, lock' \in [Stm32!Locks -> Tasks \cup {0}],
         UNCHANGED <<m_eth_running, allocated, ring, chain>>
  PROVE  Stm32!DmaInv'
<1>1. PICK l : l = task[t]
  OBVIOUS
<1>2. l \in Stm32!TaskRecords
  BY <1>1 DEF Stm32!DmaInv, Stm32!TypeOK
<1>3. PICK r : r = [l EXCEPT !.pc = place]
  OBVIOUS
<1>4. r \in Stm32!TaskRecords /\ r.pc = place /\ r.call = l.call /\ r.packet = l.packet
  BY <1>2, <1>3 DEF Stm32!TaskRecords, Stm32!Places
<1>5. task' = [task EXCEPT ![t] = r] /\ task'[t] = r
  BY <1>1, <1>3 DEF Stm32!DmaInv, Stm32!TypeOK
<1>6. Stm32!TaskOK(t)'
  BY <1>1, <1>4, <1>5 DEF Stm32!DmaInv, Stm32!TaskOK
<1> QED
  BY <1>1, <1>4, <1>5, <1>6, TaskMoves DEF Stm32!DmaInv, Stm32!TypeOK

\* What is known of a call at its place.
LEMMA AtPlace ==
  ASSUME Stm32!DmaInv, NEW t \in Tasks
  PROVE  /\ task[t].pc \in {"refill", "read", "copy", "wait"} => lock["receive"] = t
         /\ task[t].pc = "locked" /\ task[t].call \in {"start", "stop", "receive"} => lock["receive"] = t
         /\ task[t].pc \notin {"refill", "copy"} => task[t].packet = <<>>
         /\ task[t].call # "receive" => task[t].packet = <<>>
         /\ task[t].pc \in {"read", "copy", "wait"} => task[t].call = "receive"
<1>1. Stm32!TaskOK(t)
  BY DEF Stm32!DmaInv
<1>2. ASSUME task[t].pc = "locked", task[t].call \in {"start", "stop", "receive"}
      PROVE  lock["receive"] = t
  <2>1. task[t].taken = Len(Stm32!LocksOf(task[t].call))
    BY <1>1, <1>2 DEF Stm32!TaskOK
  <2>2. CASE task[t].call \in {"start", "stop"}
    <3>1. task[t].taken = 3
      BY <2>1, <2>2, LocksOfCalls
    <3> QED
      BY <1>1, <1>2, <2>2, <3>1 DEF Stm32!TaskOK
  <2>3. CASE task[t].call = "receive"
    <3>1. task[t].taken = 2
      BY <2>1, <2>3, LocksOfCalls
    <3> QED
      BY <1>1, <1>2, <2>3, <3>1 DEF Stm32!TaskOK
  <2> QED
    BY <1>2, <2>2, <2>3
<1> QED
  BY <1>1, <1>2 DEF Stm32!TaskOK

\* start, stop, transmit and receive look at m_running.
LEMMA CallsKeep ==
  ASSUME Stm32!DmaInv, NEW t \in Tasks,
         Stm32!Start(t) \/ Stm32!Stop(t) \/ Stm32!Transmit(t) \/ Stm32!Receive(t) \/ Stm32!Wait(t)
  PROVE  Stm32!DmaInv'
<1>1. m_eth_running \in BOOLEAN /\ lock \in [Stm32!Locks -> Tasks \cup {0}]
  BY DEF Stm32!DmaInv, Stm32!TypeOK
<1>2. CASE Stm32!Finish(t)
  <2>1. UNCHANGED <<allocated, ring, chain>> /\ m_eth_running' \in {m_eth_running, FALSE}
    BY DEF Stm32!Start, Stm32!Stop, Stm32!Transmit, Stm32!Receive, Stm32!Wait
  <2>2. task[t].pc \in {"locked", "wait"}
    BY DEF Stm32!Start, Stm32!Stop, Stm32!Transmit, Stm32!Receive, Stm32!Wait
  <2> QED
    BY <1>1, <1>2, <2>1, <2>2, AtPlace, FinishKeeps
<1>3. CASE Stm32!Start(t) /\ ~Stm32!Finish(t)
  <2>1. /\ task' = [task EXCEPT ![t] = [@ EXCEPT !.pc = "refill"]]
        /\ UNCHANGED <<lock, m_eth_running, allocated, ring, chain>>
        /\ task[t].pc = "locked" /\ task[t].call = "start"
    BY <1>3 DEF Stm32!Start
  <2> QED
    BY <1>1, <2>1, AtPlace, GoInside
<1>4. CASE Stm32!Receive(t) /\ ~Stm32!Finish(t)
  <2>1. /\ task' = [task EXCEPT ![t] = [@ EXCEPT !.pc = "read"]]
        /\ lock' = [lock EXCEPT !["state"] = 0]
        /\ UNCHANGED <<m_eth_running, allocated, ring, chain>>
        /\ task[t].pc = "locked" /\ task[t].call = "receive"
    BY <1>4 DEF Stm32!Receive
  <2>2. lock["receive"] = t /\ task[t].packet = <<>>
    BY <2>1, AtPlace
  <2>3. lock' \in [Stm32!Locks -> Tasks \cup {0}] /\ lock'["receive"] = t
    BY <1>1, <2>1, <2>2 DEF Stm32!Locks
  <2> QED
    BY <2>1, <2>2, <2>3, GoInside
<1>5. CASE Stm32!Wait(t) /\ ~Stm32!Finish(t)
  <2>1. /\ task' = [task EXCEPT ![t] = [@ EXCEPT !.pc = "read"]]
        /\ UNCHANGED <<lock, m_eth_running, allocated, ring, chain>>
        /\ task[t].pc = "wait"
    BY <1>5 DEF Stm32!Wait
  <2> QED
    BY <1>1, <2>1, AtPlace, GoInside
<1> QED
  BY <1>2, <1>3, <1>4, <1>5 DEF Stm32!Stop, Stm32!Transmit

\* A descriptor is served from the pool, or there is nothing to serve.
LEMMA RefillKeeps ==
  ASSUME Stm32!DmaInv, NEW t \in Tasks, Stm32!Refill(t)
  PROVE  Stm32!DmaInv'
<1>1. task[t].pc = "refill" /\ lock["receive"] = t
  BY AtPlace DEF Stm32!Refill
<1>2. CASE UNCHANGED <<allocated, ring>>
  <2>1. lock \in [Stm32!Locks -> Tasks \cup {0}]
    BY DEF Stm32!DmaInv, Stm32!TypeOK
  <2>2. CASE task[t].call = "start" /\ m_eth_running' = TRUE /\ Stm32!Finish(t)
    <3>1. UNCHANGED chain /\ task[t].packet = <<>>
      BY <2>2, AtPlace DEF Stm32!Refill
    <3>2. m_eth_running' \in BOOLEAN
      BY <2>2
    <3> QED
      BY <1>2, <2>2, <3>1, <3>2, FinishKeeps
  <2>3. CASE /\ task[t].call = "receive"
             /\ task' = [task EXCEPT ![t] =
                           [@ EXCEPT !.pc = IF task[t].packet = <<>> THEN "wait" ELSE "copy"]]
             /\ UNCHANGED <<m_eth_running, lock>>
    <3>1. PICK place \in {"wait", "copy"} : place = IF task[t].packet = <<>> THEN "wait" ELSE "copy"
      OBVIOUS
    <3>2. UNCHANGED chain
      BY DEF Stm32!Refill
    <3> QED
      BY <1>1, <1>2, <2>1, <2>3, <3>1, <3>2, GoInside
  <2>4. ~\E d \in Stm32!Unserved, s \in Stm32!available :
            ring' = [ring EXCEPT ![d] = [Stm32!Empty EXCEPT !.slot = s]] /\ allocated' = allocated \cup {s}
    BY <1>2 DEF Stm32!available
  <2> QED
    BY <2>2, <2>3, <2>4 DEF Stm32!Refill
<1>3. ASSUME NEW d \in Stm32!Unserved, NEW s \in Stm32!available,
             ring' = [ring EXCEPT ![d] = [Stm32!Empty EXCEPT !.slot = s]],
             allocated' = allocated \cup {s},
             UNCHANGED <<m_eth_running, lock, task, chain>>
      PROVE  Stm32!DmaInv'
  <2>1. d \in 1 .. ETH_RX_DESC_CNT /\ ring[d].slot = 0 /\ ring[d].state = "dma"
        /\ s \in Stm32!RX_SLOTS /\ s \notin allocated /\ s # 0
    <3>1. d \in 1 .. ETH_RX_DESC_CNT /\ ring[d].slot = 0
      BY RingTypes DEF Stm32!Unserved
    <3> QED
      BY <3>1, RingTypes, SlotNumbers DEF Stm32!available, Stm32!DmaInv, Stm32!RingInv
  <2>2. PICK x : x = [Stm32!Empty EXCEPT !.slot = s]
    OBVIOUS
  <2>3. /\ x \in [slot : {0} \cup Stm32!RX_SLOTS, state : {"dma", "more", "last"}]
        /\ x.slot = s /\ x.state = "dma"
    BY <2>1, <2>2 DEF Stm32!Empty
  <2>4. /\ DOMAIN ring' = DOMAIN ring /\ ring'[d] = x
        /\ \A e \in DOMAIN ring : e # d => ring'[e] = ring[e]
        /\ ring' \in [1 .. ETH_RX_DESC_CNT ->
                       [slot : {0} \cup Stm32!RX_SLOTS, state : {"dma", "more", "last"}]]
    BY <1>3, <2>1, <2>2, <2>3 DEF Stm32!DmaInv, Stm32!TypeOK
  <2>5. Stm32!TypeOK'
    BY <1>3, <2>1, <2>4 DEF Stm32!DmaInv, Stm32!TypeOK
  <2>6. \A u \in Tasks : Stm32!TaskOK(u)'
    BY <1>3 DEF Stm32!DmaInv, Stm32!TaskOK
  <2>7. Stm32!RingInv'
    <3>1. \A e \in DOMAIN ring : ring'[e].state = ring[e].state /\ (ring[e].slot # 0 => ring'[e].slot # 0)
      BY <2>1, <2>3, <2>4
    <3>2. \A k, n \in 0 .. ETH_RX_DESC_CNT : Stm32!IsRun(k, n)' => Stm32!IsRun(k, n)
      BY <3>1, RingTypes, SlotNumbers DEF Stm32!IsRun
    <3>3. \A k, n : Stm32!Segments(k, n)' = Stm32!Segments(k, n)
      BY <1>3 DEF Stm32!Segments
    <3>4. \A e \in DOMAIN ring' : ring'[e].state # "dma" =>
            ring'[e].slot # 0 /\ \A f \in 1 .. e : ring'[f].state # "dma"
      <4>1. \A e \in 1 .. ETH_RX_DESC_CNT : \A f \in 1 .. e : f \in 1 .. ETH_RX_DESC_CNT
        BY SlotNumbers
      <4> QED
        BY <2>4, <3>1, <4>1, RingTypes DEF Stm32!DmaInv, Stm32!RingInv
    <3> QED
      BY <3>2, <3>3, <3>4 DEF Stm32!DmaInv, Stm32!RingInv
  <2>8. Stm32!SlotInv'
    <3>1. \A i \in DOMAIN chain : chain[i] # s
      BY <2>1 DEF Stm32!DmaInv, Stm32!SlotInv
    <3>2. \A u \in Tasks : s \notin Stm32!Contents(task[u].packet)
      BY <2>1 DEF Stm32!DmaInv, Stm32!SlotInv
    <3>3. \A e \in DOMAIN ring : ring[e].slot # s
      BY <2>1 DEF Stm32!DmaInv, Stm32!SlotInv
    <3>4. \A u \in Tasks : Stm32!Contents(task[u].packet)' = Stm32!Contents(task[u].packet)
      BY <1>3
    <3>5. \A e \in DOMAIN ring' : ring'[e].slot # 0 =>
            /\ ring'[e].slot \in allocated'
            /\ \A f \in DOMAIN ring' : ring'[f].slot = ring'[e].slot => e = f
            /\ \A i \in DOMAIN chain' : chain'[i] # ring'[e].slot
            /\ \A u \in Tasks : ring'[e].slot \notin Stm32!Contents(task'[u].packet)
      BY <1>3, <2>1, <2>3, <2>4, <3>1, <3>2, <3>3 DEF Stm32!DmaInv, Stm32!SlotInv
    <3>6. /\ \A i, j \in DOMAIN chain' : chain'[i] \in allocated' /\ (chain'[i] = chain'[j] => i = j)
          /\ \A u \in Tasks : Stm32!Contents(task'[u].packet) \subseteq allocated'
      BY <1>3 DEF Stm32!DmaInv, Stm32!SlotInv
    <3>7. ASSUME NEW q \in allocated'
          PROVE  \/ \E e \in DOMAIN ring' : ring'[e].slot = q
                 \/ \E i \in DOMAIN chain' : chain'[i] = q
                 \/ \E u \in Tasks : q \in Stm32!Contents(task'[u].packet)
      <4>1. CASE q = s
        BY <2>1, <2>3, <2>4, <4>1, RingTypes
      <4>2. CASE q # s
        <5>1. q \in allocated
          BY <1>3, <3>7, <4>2
        <5>2. q # 0
          BY <5>1, SlotNumbers DEF Stm32!DmaInv, Stm32!TypeOK
        <5>3. \A e \in DOMAIN ring : ring[e].slot = q => ring'[e].slot = q
          BY <2>1, <2>4, <5>2
        <5> QED
          BY <1>3, <2>4, <5>1, <5>3 DEF Stm32!DmaInv, Stm32!SlotInv
      <4> QED
        BY <4>1, <4>2
    <3> QED
      BY <3>5, <3>6, <3>7 DEF Stm32!SlotInv
  <2> QED
    BY <2>5, <2>6, <2>7, <2>8 DEF Stm32!DmaInv
<1> QED
  BY <1>2, <1>3 DEF Stm32!Refill

\* The DMA fills the next descriptor; a frame it goes on with stays short enough.
LEMMA DmaKeeps == ASSUME Stm32!DmaInv, Stm32!Dma PROVE Stm32!DmaInv'
<1>1. PICK d \in DOMAIN ring, state \in {"more", "last"} :
        /\ ring[d].state = "dma" /\ ring[d].slot # 0
        /\ \A e \in 1 .. d - 1 : ring[e].state \in {"more", "last"}
        /\ state = "more" =>
             \A k \in 0 .. d - 1 :
               Stm32!IsRun(k, d - 1) => Stm32!Segments(k, d - 1) < MaxSegments - 1
        /\ ring' = [ring EXCEPT ![d] = [@ EXCEPT !.state = state]]
  BY DEF Stm32!Dma
<1>2. UNCHANGED <<m_eth_running, allocated, chain, lock, task>>
  BY DEF Stm32!Dma
<1>3. PICK x : x = [ring[d] EXCEPT !.state = state]
  OBVIOUS
<1>4. /\ x \in [slot : {0} \cup Stm32!RX_SLOTS, state : {"dma", "more", "last"}]
      /\ x.slot = ring[d].slot /\ x.state = state
  <2>1. ring[d] \in [slot : {0} \cup Stm32!RX_SLOTS, state : {"dma", "more", "last"}]
    BY <1>1, RingTypes
  <2> QED
    BY <1>1, <1>3, <2>1
<1>5. /\ DOMAIN ring' = DOMAIN ring /\ ring'[d] = x /\ d \in 1 .. ETH_RX_DESC_CNT
      /\ \A e \in DOMAIN ring : e # d => ring'[e] = ring[e]
      /\ ring' \in [1 .. ETH_RX_DESC_CNT ->
                     [slot : {0} \cup Stm32!RX_SLOTS, state : {"dma", "more", "last"}]]
  BY <1>1, <1>3, <1>4, RingTypes DEF Stm32!DmaInv, Stm32!TypeOK
<1>6. \A e \in DOMAIN ring : ring'[e].slot = ring[e].slot
  BY <1>4, <1>5
<1>7. Stm32!TypeOK' /\ \A u \in Tasks : Stm32!TaskOK(u)'
  BY <1>2, <1>5 DEF Stm32!DmaInv, Stm32!TypeOK, Stm32!TaskOK
<1>8. Stm32!RingInv'
  <2>1. \A e \in 1 .. ETH_RX_DESC_CNT : \A f \in 1 .. e : f \in 1 .. ETH_RX_DESC_CNT /\ (f = e \/ f \in 1 .. e - 1)
    BY SlotNumbers
  <2>2. \A e \in DOMAIN ring' : ring'[e].state # "dma" =>
          ring'[e].slot # 0 /\ \A f \in 1 .. e : ring'[f].state # "dma"
    <3> SUFFICES ASSUME NEW e \in 1 .. ETH_RX_DESC_CNT, ring'[e].state # "dma"
                 PROVE  ring'[e].slot # 0 /\ \A f \in 1 .. e : ring'[f].state # "dma"
      BY <1>5, RingTypes
    <3>1. CASE e = d
      <4>1. \A f \in 1 .. d - 1 : ring'[f].state \in {"more", "last"}
        <5>1. \A f \in 1 .. d - 1 : f # d /\ f \in DOMAIN ring
          BY <1>5, <2>1, RingTypes, SlotNumbers
        <5> QED
          BY <1>1, <1>5, <5>1
      <4> QED
        BY <1>1, <1>4, <1>5, <2>1, <3>1, <4>1
    <3>2. CASE e # d
      <4>1. ring[e].state # "dma" /\ ring[e].slot # 0 /\ \A f \in 1 .. e : ring[f].state # "dma"
        BY <1>5, <3>2, RingTypes DEF Stm32!DmaInv, Stm32!RingInv
      <4>2. d \notin 1 .. e
        BY <1>1, <4>1
      <4> QED
        BY <1>5, <1>6, <2>1, <4>1, <4>2, RingTypes
    <3> QED
      BY <3>1, <3>2
  <2>3. ASSUME NEW k \in 0 .. ETH_RX_DESC_CNT, NEW n \in 0 .. ETH_RX_DESC_CNT, k <= n, Stm32!IsRun(k, n)'
        PROVE  Stm32!Segments(k, n)' < MaxSegments
    <3>1. Stm32!Segments(k, n)' = Stm32!Segments(k, n)
      BY <1>2 DEF Stm32!Segments
    <3>2. \A e \in k + 1 .. n : ring'[e].state = "more" /\ e \in 1 .. ETH_RX_DESC_CNT
      BY <2>3, SlotNumbers DEF Stm32!IsRun
    <3>3. CASE d \notin k + 1 .. n
      <4>1. Stm32!IsRun(k, n)
        BY <1>5, <3>2, <3>3, RingTypes DEF Stm32!IsRun
      <4> QED
        BY <2>3, <3>1, <4>1 DEF Stm32!DmaInv, Stm32!RingInv
    <3>4. CASE d \in k + 1 .. n
      <4>1. state = "more"
        BY <1>4, <1>5, <3>2, <3>4
      <4>2. n = d
        <5> SUFFICES ASSUME n # d PROVE FALSE
          OBVIOUS
        <5>1. d + 1 \in k + 1 .. n /\ d + 1 # d /\ d \in 1 .. d + 1
          BY <1>5, <2>3, <3>4
        <5>2. ring[d + 1].state = "more" /\ d + 1 \in DOMAIN ring
          BY <1>5, <3>2, <5>1, RingTypes
        <5>3. ring[d].state # "dma"
          BY <5>1, <5>2 DEF Stm32!DmaInv, Stm32!RingInv
        <5> QED
          BY <1>1, <5>3
      <4>3. k \in 0 .. d - 1
        BY <1>5, <2>3, <3>4
      <4>4. Stm32!IsRun(k, d - 1)
        <5>1. \A e \in k + 1 .. d - 1 : e \in k + 1 .. n /\ e # d
          BY <1>5, <2>3, <4>2
        <5> QED
          BY <1>5, <3>2, <5>1, RingTypes DEF Stm32!IsRun
      <4>5. Stm32!Segments(k, d - 1) < MaxSegments - 1
        BY <1>1, <4>1, <4>3, <4>4
      <4>6. Stm32!Segments(k, d) = Stm32!Segments(k, d - 1) + 1 /\ Stm32!Segments(k, d - 1) \in Int
        BY <1>5, <2>3, RingTypes, SlotNumbers DEF Stm32!Segments
      <4> QED
        BY <3>1, <4>2, <4>5, <4>6, SlotNumbers
    <3> QED
      BY <3>3, <3>4
  <2> QED
    BY <2>2, <2>3 DEF Stm32!RingInv
<1>9. Stm32!SlotInv'
  <2>1. \A e \in DOMAIN ring' : ring'[e].slot # 0 =>
          /\ ring'[e].slot \in allocated'
          /\ \A f \in DOMAIN ring' : ring'[f].slot = ring'[e].slot => e = f
          /\ \A i \in DOMAIN chain' : chain'[i] # ring'[e].slot
          /\ \A u \in Tasks : ring'[e].slot \notin Stm32!Contents(task'[u].packet)
    BY <1>2, <1>5, <1>6 DEF Stm32!DmaInv, Stm32!SlotInv
  <2>2. /\ \A i, j \in DOMAIN chain' : chain'[i] \in allocated' /\ (chain'[i] = chain'[j] => i = j)
        /\ \A u \in Tasks : Stm32!Contents(task'[u].packet) \subseteq allocated'
    BY <1>2 DEF Stm32!DmaInv, Stm32!SlotInv
  <2>3. \A s \in allocated' :
          \/ \E e \in DOMAIN ring' : ring'[e].slot = s
          \/ \E i \in DOMAIN chain' : chain'[i] = s
          \/ \E u \in Tasks : s \in Stm32!Contents(task'[u].packet)
    <3> SUFFICES ASSUME NEW s \in allocated
                 PROVE  \/ \E e \in DOMAIN ring' : ring'[e].slot = s
                        \/ \E i \in DOMAIN chain : chain[i] = s
                        \/ \E u \in Tasks : s \in Stm32!Contents(task[u].packet)
      BY <1>2
    <3>1. \/ \E e \in DOMAIN ring : ring[e].slot = s
          \/ \E i \in DOMAIN chain : chain[i] = s
          \/ \E u \in Tasks : s \in Stm32!Contents(task[u].packet)
      BY DEF Stm32!DmaInv, Stm32!SlotInv
    <3> QED
      BY <1>5, <1>6, <3>1
  <2> QED
    BY <2>1, <2>2, <2>3 DEF Stm32!SlotInv
<1> QED
  BY <1>7, <1>8, <1>9 DEF Stm32!DmaInv

\* The slots that HAL_ETH_RxLinkCallback links to a frame.
LEMMA LinkedSlots ==
  ASSUME Stm32!DmaInv, NEW n \in 0 .. ETH_RX_DESC_CNT,
         \A d \in 1 .. n : ring[d].slot # 0
  PROVE  /\ Stm32!Linked(n) \in Seq(Stm32!RX_SLOTS)
         /\ Len(Stm32!Linked(n)) = Len(chain) + n
         /\ DOMAIN Stm32!Linked(n) = 1 .. Len(chain) + n
         /\ \A i \in 1 .. Len(chain) : Stm32!Linked(n)[i] = chain[i]
         /\ \A i \in Len(chain) + 1 .. Len(chain) + n :
              Stm32!Linked(n)[i] = ring[i - Len(chain)].slot /\ i - Len(chain) \in 1 .. n
         /\ \A d \in 1 .. n : Stm32!Linked(n)[Len(chain) + d] = ring[d].slot
<1> DEFINE q == [d \in 1 .. n |-> ring[d].slot]
<1>1. n \in Nat /\ Len(chain) \in Nat /\ chain \in Seq(Stm32!RX_SLOTS)
  BY SlotNumbers DEF Stm32!DmaInv, Stm32!TypeOK
<1>2. \A d \in 1 .. n : ring[d].slot \in Stm32!RX_SLOTS
  BY RingTypes, SlotNumbers
<1>3. q \in Seq(Stm32!RX_SLOTS) /\ Len(q) = n /\ \A d \in 1 .. n : q[d] = ring[d].slot
  BY <1>1, <1>2
<1> HIDE DEF q
<1>4. Stm32!Linked(n) = chain \o q
  BY DEF Stm32!Linked, q
<1>5. /\ chain \o q \in Seq(Stm32!RX_SLOTS) /\ Len(chain \o q) = Len(chain) + n
      /\ \A i \in 1 .. Len(chain) + n :
           (chain \o q)[i] = IF i <= Len(chain) THEN chain[i] ELSE q[i - Len(chain)]
  BY <1>1, <1>3
<1>6. \A i \in Len(chain) + 1 .. Len(chain) + n :
        i - Len(chain) \in 1 .. n /\ i \in 1 .. Len(chain) + n /\ ~(i <= Len(chain))
  BY <1>1
<1>7. \A d \in 1 .. n : Len(chain) + d \in Len(chain) + 1 .. Len(chain) + n /\ Len(chain) + d - Len(chain) = d
  BY <1>1
<1>8. \A i \in 1 .. Len(chain) : i <= Len(chain) /\ i \in 1 .. Len(chain) + n
  BY <1>1
<1> QED
  BY <1>1, <1>3, <1>4, <1>5, <1>6, <1>7, <1>8

\* The ring once its first n descriptors are emptied and at its end.
LEMMA EmptiedRing ==
  ASSUME Stm32!DmaInv, NEW n \in 0 .. ETH_RX_DESC_CNT, ring' = Stm32!Emptied(n)
  PROVE  /\ DOMAIN ring' = 1 .. ETH_RX_DESC_CNT
         /\ ring' \in [1 .. ETH_RX_DESC_CNT ->
                        [slot : {0} \cup Stm32!RX_SLOTS, state : {"dma", "more", "last"}]]
         /\ \A d \in 1 .. ETH_RX_DESC_CNT :
              \/ d + n \in 1 .. ETH_RX_DESC_CNT /\ ring'[d] = ring[d + n]
              \/ d + n \notin 1 .. ETH_RX_DESC_CNT /\ ring'[d].slot = 0 /\ ring'[d].state = "dma"
         /\ \A d \in n + 1 .. ETH_RX_DESC_CNT : d - n \in 1 .. ETH_RX_DESC_CNT /\ ring'[d - n] = ring[d]
<1>1. Stm32!Empty.slot = 0 /\ Stm32!Empty.state = "dma"
      /\ Stm32!Empty \in [slot : {0} \cup Stm32!RX_SLOTS, state : {"dma", "more", "last"}]
  BY DEF Stm32!Empty
<1>2. ring' = [d \in 1 .. ETH_RX_DESC_CNT |->
                 IF d + n \in 1 .. ETH_RX_DESC_CNT THEN ring[d + n] ELSE Stm32!Empty]
  BY RingTypes DEF Stm32!Emptied
<1>3. \A d \in n + 1 .. ETH_RX_DESC_CNT : d - n \in 1 .. ETH_RX_DESC_CNT /\ d - n + n = d /\ d \in 1 .. ETH_RX_DESC_CNT
  BY SlotNumbers
<1> QED
  BY <1>1, <1>2, <1>3, RingTypes

\* HAL_ETH_ReadData moves slots from the first descriptors to the frame.
LEMMA ReadDataSlots ==
  ASSUME Stm32!DmaInv, NEW t \in Tasks, lock["receive"] = t, task[t].packet = <<>>,
         NEW n \in 0 .. ETH_RX_DESC_CNT, \A d \in 1 .. n : ring[d].slot # 0,
         ring' = Stm32!Emptied(n), allocated' = allocated,
         NEW p \in Seq(Stm32!RX_SLOTS), \A u \in Tasks \ {t} : task'[u].packet = task[u].packet,
         task'[t].packet = p,
         \/ chain' = Stm32!Linked(n) /\ p = <<>>
         \/ chain' = <<>> /\ p = Stm32!Linked(n)
  PROVE  Stm32!SlotInv'
<1>1. PICK q : q = Stm32!Linked(n)
  OBVIOUS
<1>2. /\ DOMAIN q = 1 .. Len(chain) + n
      /\ \A i \in 1 .. Len(chain) : q[i] = chain[i]
      /\ \A i \in Len(chain) + 1 .. Len(chain) + n : q[i] = ring[i - Len(chain)].slot /\ i - Len(chain) \in 1 .. n
      /\ \A d \in 1 .. n : q[Len(chain) + d] = ring[d].slot
      /\ Len(chain) \in Nat /\ DOMAIN chain = 1 .. Len(chain) /\ n \in Nat
  <2>1. n \in Nat
    BY SlotNumbers
  <2> QED
    BY <1>1, <2>1, LinkedSlots, RingTypes, Zenon
<1>3. /\ \A i \in 1 .. Len(chain) + n : i \in 1 .. Len(chain) \/ i \in Len(chain) + 1 .. Len(chain) + n
      /\ \A i \in 1 .. Len(chain) : i \in 1 .. Len(chain) + n
      /\ \A d \in 1 .. n : Len(chain) + d \in 1 .. Len(chain) + n
      /\ \A d \in 1 .. n : d \in 1 .. ETH_RX_DESC_CNT
      /\ \A d \in 1 .. ETH_RX_DESC_CNT : d \in 1 .. n \/ d \in n + 1 .. ETH_RX_DESC_CNT
      /\ \A d \in 1 .. ETH_RX_DESC_CNT : d + n \notin 1 .. n
      /\ \A d, e \in 1 .. ETH_RX_DESC_CNT : d + n = e + n => d = e
      /\ \A i, j \in Len(chain) + 1 .. Len(chain) + n : i - Len(chain) = j - Len(chain) => i = j
  BY <1>2, SlotNumbers
<1>4. DOMAIN ring = 1 .. ETH_RX_DESC_CNT /\ DOMAIN ring' = 1 .. ETH_RX_DESC_CNT
  BY RingTypes, EmptiedRing
<1>5. /\ \A d \in 1 .. ETH_RX_DESC_CNT : ring'[d].slot # 0 =>
           d + n \in 1 .. ETH_RX_DESC_CNT /\ ring'[d].slot = ring[d + n].slot
      /\ \A d \in n + 1 .. ETH_RX_DESC_CNT : d - n \in 1 .. ETH_RX_DESC_CNT /\ ring'[d - n].slot = ring[d].slot
  BY EmptiedRing
<1>6. /\ \A d \in 1 .. ETH_RX_DESC_CNT : ring[d].slot # 0 =>
           /\ ring[d].slot \in allocated
           /\ \A e \in 1 .. ETH_RX_DESC_CNT : ring[e].slot = ring[d].slot => d = e
           /\ \A i \in 1 .. Len(chain) : chain[i] # ring[d].slot
      /\ \A i, j \in 1 .. Len(chain) : chain[i] \in allocated /\ (chain[i] = chain[j] => i = j)
  BY <1>2, <1>4 DEF Stm32!DmaInv, Stm32!SlotInv
\* the slots of q are allocated, all different and not in the ring any more
<1>7. \A i \in DOMAIN q : q[i] \in allocated
  BY <1>2, <1>3, <1>6
<1>8. ASSUME NEW i \in DOMAIN q, NEW j \in DOMAIN q, q[i] = q[j] PROVE i = j
  <2>1. CASE i \in 1 .. Len(chain) /\ j \in 1 .. Len(chain)
    BY <1>2, <1>6, <1>8, <2>1
  <2>2. CASE i \in 1 .. Len(chain) /\ j \in Len(chain) + 1 .. Len(chain) + n
    BY <1>2, <1>3, <1>6, <1>8, <2>2
  <2>3. CASE i \in Len(chain) + 1 .. Len(chain) + n /\ j \in 1 .. Len(chain)
    BY <1>2, <1>3, <1>6, <1>8, <2>3
  <2>4. CASE i \in Len(chain) + 1 .. Len(chain) + n /\ j \in Len(chain) + 1 .. Len(chain) + n
    <3>1. i - Len(chain) = j - Len(chain)
      BY <1>2, <1>3, <1>6, <1>8, <2>4
    <3> QED
      BY <1>3, <2>4, <3>1
  <2> QED
    BY <1>2, <1>3, <2>1, <2>2, <2>3, <2>4
<1>9. ASSUME NEW d \in 1 .. ETH_RX_DESC_CNT, ring'[d].slot # 0, NEW i \in DOMAIN q PROVE q[i] # ring'[d].slot
  <2>1. d + n \in 1 .. ETH_RX_DESC_CNT /\ ring'[d].slot = ring[d + n].slot /\ d + n \notin 1 .. n
    BY <1>3, <1>5, <1>9
  <2> QED
    BY <1>2, <1>3, <1>6, <1>9, <2>1
<1>10. ASSUME NEW d \in 1 .. ETH_RX_DESC_CNT, NEW e \in 1 .. ETH_RX_DESC_CNT,
              ring'[d].slot # 0, ring'[e].slot = ring'[d].slot
       PROVE  d = e
  <2>1. d + n = e + n
    BY <1>5, <1>6, <1>10, SMTT(40)
  <2> QED
    BY <1>3, <2>1
<1>11. \A d \in 1 .. ETH_RX_DESC_CNT : ring'[d].slot # 0 => ring'[d].slot \in allocated
  BY <1>5, <1>6
\* where a slot was, and is
<1>12. \A u \in Tasks \ {t} : task'[u].packet = <<>> /\ task[u].packet = <<>>
  BY OneFrame
<1>13. \A u \in Tasks : Stm32!Contents(task[u].packet) = {}
  BY <1>12 DEF Stm32!Contents
<1>14. ASSUME NEW s \in allocated
       PROVE  (\E d \in 1 .. ETH_RX_DESC_CNT : ring'[d].slot = s) \/ (\E i \in DOMAIN q : q[i] = s)
  <2>1. \/ \E d \in 1 .. ETH_RX_DESC_CNT : ring[d].slot = s
        \/ \E i \in 1 .. Len(chain) : chain[i] = s
    BY <1>2, <1>4, <1>13 DEF Stm32!DmaInv, Stm32!SlotInv
  <2>2. ASSUME NEW d \in 1 .. ETH_RX_DESC_CNT, ring[d].slot = s
        PROVE  (\E e \in 1 .. ETH_RX_DESC_CNT : ring'[e].slot = s) \/ (\E i \in DOMAIN q : q[i] = s)
    <3>1. CASE d \in 1 .. n
      BY <1>2, <1>3, <2>2, <3>1
    <3>2. CASE d \in n + 1 .. ETH_RX_DESC_CNT
      BY <1>5, <2>2, <3>2
    <3> QED
      BY <1>3, <3>1, <3>2
  <2>3. ASSUME NEW i \in 1 .. Len(chain), chain[i] = s PROVE \E j \in DOMAIN q : q[j] = s
    BY <1>2, <1>3, <2>3
  <2> QED
    BY <2>1, <2>2, <2>3
<1>15. CASE chain' = q /\ p = <<>>
  <2>1. \A u \in Tasks : Stm32!Contents(task'[u].packet) = {}
    BY <1>12, <1>15 DEF Stm32!Contents
  <2>2. \A d \in DOMAIN ring' : ring'[d].slot # 0 =>
          /\ ring'[d].slot \in allocated'
          /\ \A e \in DOMAIN ring' : ring'[e].slot = ring'[d].slot => d = e
          /\ \A i \in DOMAIN chain' : chain'[i] # ring'[d].slot
          /\ \A u \in Tasks : ring'[d].slot \notin Stm32!Contents(task'[u].packet)
    BY <1>4, <1>9, <1>10, <1>11, <1>15, <2>1
  <2>3. /\ \A i, j \in DOMAIN chain' : chain'[i] \in allocated' /\ (chain'[i] = chain'[j] => i = j)
        /\ \A u \in Tasks : Stm32!Contents(task'[u].packet) \subseteq allocated'
    BY <1>7, <1>8, <1>15, <2>1
  <2>4. \A s \in allocated' :
          \/ \E d \in DOMAIN ring' : ring'[d].slot = s
          \/ \E i \in DOMAIN chain' : chain'[i] = s
    BY <1>4, <1>14, <1>15
  <2> QED
    BY <2>2, <2>3, <2>4 DEF Stm32!SlotInv
<1>16. CASE chain' = <<>> /\ p = q
  <2>1. /\ \A u \in Tasks \ {t} : Stm32!Contents(task'[u].packet) = {}
        /\ \A s : s \in Stm32!Contents(task'[t].packet) <=> \E i \in DOMAIN q : q[i] = s
    BY <1>12, <1>16 DEF Stm32!Contents
  <2>2. DOMAIN chain' = {}
    BY <1>16
  <2>3. \A d \in DOMAIN ring' : ring'[d].slot # 0 =>
          /\ ring'[d].slot \in allocated'
          /\ \A e \in DOMAIN ring' : ring'[e].slot = ring'[d].slot => d = e
          /\ \A u \in Tasks : ring'[d].slot \notin Stm32!Contents(task'[u].packet)
    <3>1. \A d \in DOMAIN ring' : ring'[d].slot # 0 =>
            ring'[d].slot \notin Stm32!Contents(task'[t].packet)
      BY <1>4, <1>9, <2>1
    <3>2. \A d \in DOMAIN ring' : ring'[d].slot # 0 =>
            \A u \in Tasks : ring'[d].slot \notin Stm32!Contents(task'[u].packet)
      BY <2>1, <3>1
    <3> QED
      BY <1>4, <1>10, <1>11, <3>2
  <2>4. \A u \in Tasks : Stm32!Contents(task'[u].packet) \subseteq allocated'
    <3>1. \A s : s \in Stm32!Contents(task'[t].packet) => s \in allocated'
      BY <1>7, <2>1
    <3> QED
      BY <2>1, <3>1
  <2>5. \A s \in allocated' :
          \/ \E d \in DOMAIN ring' : ring'[d].slot = s
          \/ \E u \in Tasks : s \in Stm32!Contents(task'[u].packet)
    BY <1>4, <1>14, <2>1
  <2> QED
    BY <2>2, <2>3, <2>4, <2>5 DEF Stm32!SlotInv
<1> QED
  BY <1>1, <1>15, <1>16

\* A segment of the first n descriptors has a slot.
LEMMA FilledSlots ==
  ASSUME Stm32!DmaInv, NEW n \in 0 .. ETH_RX_DESC_CNT, n > 0 => ring[n].state # "dma"
  PROVE  \A d \in 1 .. n : ring[d].slot # 0 /\ ring[d].state # "dma"
<1>1. CASE n = 0
  BY <1>1
<1>2. CASE n > 0
  <2>1. n \in 1 .. ETH_RX_DESC_CNT /\ \A d \in 1 .. n : d \in 1 .. ETH_RX_DESC_CNT
    BY <1>2, SlotNumbers
  <2>2. \A d \in 1 .. n : ring[d].state # "dma"
    BY <1>2, <2>1, RingTypes DEF Stm32!DmaInv, Stm32!RingInv
  <2> QED
    BY <2>1, <2>2, RingTypes DEF Stm32!DmaInv, Stm32!RingInv
<1> QED
  BY <1>1, <1>2, SlotNumbers

\* The descriptors that HAL_ETH_ReadData leaves keep their order.
LEMMA EmptiedFilled ==
  ASSUME Stm32!DmaInv, NEW n \in 0 .. ETH_RX_DESC_CNT, ring' = Stm32!Emptied(n)
  PROVE  \A d \in DOMAIN ring' : ring'[d].state # "dma" =>
           ring'[d].slot # 0 /\ \A e \in 1 .. d : ring'[e].state # "dma"
<1> SUFFICES ASSUME NEW d \in 1 .. ETH_RX_DESC_CNT, ring'[d].state # "dma"
             PROVE  ring'[d].slot # 0 /\ \A e \in 1 .. d : ring'[e].state # "dma"
  BY EmptiedRing
<1>1. d + n \in 1 .. ETH_RX_DESC_CNT /\ ring'[d] = ring[d + n]
  BY EmptiedRing
<1>2. ring[d + n].slot # 0 /\ \A e \in 1 .. d + n : ring[e].state # "dma"
  BY <1>1, RingTypes DEF Stm32!DmaInv, Stm32!RingInv
<1>3. \A e \in 1 .. d : e \in 1 .. ETH_RX_DESC_CNT /\ e + n \in 1 .. d + n /\ e + n \in 1 .. ETH_RX_DESC_CNT
  BY <1>1, SlotNumbers
<1>4. \A e \in 1 .. d : ring'[e] = ring[e + n]
  BY <1>3, EmptiedRing
<1> QED
  BY <1>1, <1>2, <1>3, <1>4

\* HAL_ETH_ReadData links the segments of a frame, complete or not.
LEMMA ReadDataKeeps ==
  ASSUME Stm32!DmaInv, NEW t \in Tasks, Stm32!ReadData(t)
  PROVE  Stm32!DmaInv'
<1>1. PICK n \in 0 .. ETH_RX_DESC_CNT :
        /\ ring' = Stm32!Emptied(n)
        /\ \/ /\ Stm32!IsRun(0, n) /\ (n + 1 \in DOMAIN ring => ring[n + 1].state = "dma")
              /\ chain' = Stm32!Linked(n)
              /\ task' = [task EXCEPT ![t] = [@ EXCEPT !.pc = "refill", !.packet = <<>>]]
           \/ /\ n > 0 /\ Stm32!IsRun(0, n - 1) /\ ring[n].state = "last"
              /\ chain' = <<>>
              /\ task' = [task EXCEPT ![t] = [@ EXCEPT !.pc = "refill", !.packet = Stm32!Linked(n)]]
  BY DEF Stm32!ReadData
<1>2. UNCHANGED <<m_eth_running, allocated, lock>> /\ task[t].pc = "read"
  BY DEF Stm32!ReadData
<1>3. /\ lock["receive"] = t /\ task[t].packet = <<>> /\ task[t].call = "receive"
      /\ task[t] \in Stm32!TaskRecords
  BY <1>2, AtPlace DEF Stm32!DmaInv, Stm32!TypeOK
<1>4. n \in Nat /\ (n > 0 => n \in 1 .. n /\ n \in 0 + 1 .. n)
  BY SlotNumbers
<1>5. n > 0 => ring[n].state # "dma"
  BY <1>1, <1>4 DEF Stm32!IsRun
<1>6. \A d \in 1 .. n : ring[d].slot # 0
  BY <1>5, FilledSlots
<1>7. /\ Stm32!Linked(n) \in Seq(Stm32!RX_SLOTS) /\ Len(Stm32!Linked(n)) = Len(chain) + n
      /\ Len(chain) \in Nat
  BY <1>6, LinkedSlots, RingTypes
\* the frame is not too long
<1>8. CASE /\ Stm32!IsRun(0, n) /\ (n + 1 \in DOMAIN ring => ring[n + 1].state = "dma")
           /\ chain' = Stm32!Linked(n)
           /\ task' = [task EXCEPT ![t] = [@ EXCEPT !.pc = "refill", !.packet = <<>>]]
  <2>1. PICK r : r = [task[t] EXCEPT !.pc = "refill", !.packet = <<>>]
    OBVIOUS
  <2>2. r \in Stm32!TaskRecords /\ r.pc = "refill" /\ r.packet = <<>> /\ r.call = task[t].call
    BY <1>3, <2>1 DEF Stm32!TaskRecords, Stm32!Places
  <2>3. /\ task' = [task EXCEPT ![t] = r] /\ task'[t] = r /\ task' \in [Tasks -> Stm32!TaskRecords]
        /\ \A u \in Tasks \ {t} : task'[u] = task[u]
    BY <1>8, <2>1, <2>2 DEF Stm32!DmaInv, Stm32!TypeOK
  <2>4. Len(chain') < MaxSegments /\ Len(chain') \in Nat
    <3>1. Stm32!Segments(0, n) = n + Len(chain)
      BY <1>4, <1>7 DEF Stm32!Segments
    <3>2. 0 \in 0 .. ETH_RX_DESC_CNT /\ 0 <= n
      BY <1>4, SlotNumbers
    <3>3. Stm32!Segments(0, n) < MaxSegments
      BY <1>8, <3>2 DEF Stm32!DmaInv, Stm32!RingInv
    <3>4. Len(chain') = Len(chain) + n
      BY <1>7, <1>8
    <3> QED
      BY <1>4, <1>7, <3>1, <3>3, <3>4
  <2>5. Stm32!TypeOK'
    <3>1. chain' \in Seq(Stm32!RX_SLOTS)
      BY <1>7, <1>8
    <3> QED
      BY <1>1, <1>2, <2>3, <3>1, EmptiedRing DEF Stm32!DmaInv, Stm32!TypeOK
  <2>6. \A u \in Tasks : Stm32!TaskOK(u)'
    <3>1. \A u \in Tasks \ {t} : Stm32!TaskOK(u)'
      BY <1>2, <1>3, <2>3, OthersKeep
    <3>2. Stm32!TaskOK(t)'
      BY <1>2, <1>3, <2>2, <2>3 DEF Stm32!TaskOK
    <3> QED
      BY <3>1, <3>2
  <2>7. Stm32!RingInv'
    <3>1. ASSUME NEW d \in 1 .. ETH_RX_DESC_CNT PROVE ring'[d].state = "dma"
      <4>1. CASE d + n \in 1 .. ETH_RX_DESC_CNT
        <5>1. n + 1 \in 1 .. d + n /\ n + 1 \in 1 .. ETH_RX_DESC_CNT
          BY <1>4, <4>1, SlotNumbers
        <5>2. ring[n + 1].state = "dma"
          BY <1>8, <5>1, RingTypes
        <5>3. ring[d + n].state = "dma"
          BY <4>1, <5>1, <5>2, RingTypes DEF Stm32!DmaInv, Stm32!RingInv
        <5> QED
          BY <1>1, <4>1, <5>3, EmptiedRing
      <4>2. CASE d + n \notin 1 .. ETH_RX_DESC_CNT
        BY <1>1, <4>2, EmptiedRing
      <4> QED
        BY <4>1, <4>2
    <3>2. \A k, m \in 0 .. ETH_RX_DESC_CNT : k <= m /\ Stm32!IsRun(k, m)' => k = m
      <4>1. \A k, m \in 0 .. ETH_RX_DESC_CNT : k <= m /\ k # m => k + 1 \in k + 1 .. m /\ k + 1 \in 1 .. ETH_RX_DESC_CNT
        BY SlotNumbers
      <4> QED
        BY <3>1, <4>1 DEF Stm32!IsRun
    <3>3. \A k \in 0 .. ETH_RX_DESC_CNT : Stm32!Segments(k, k)' < MaxSegments
      BY <2>4, SlotNumbers DEF Stm32!Segments
    <3>4. DOMAIN ring' = 1 .. ETH_RX_DESC_CNT
      BY <1>1, EmptiedRing
    <3> QED
      BY <3>1, <3>2, <3>3, <3>4 DEF Stm32!RingInv
  <2>8. Stm32!SlotInv'
    <3>1. /\ \A u \in Tasks \ {t} : task'[u].packet = task[u].packet
          /\ task'[t].packet = <<>> /\ <<>> \in Seq(Stm32!RX_SLOTS)
      BY <2>2, <2>3
    <3> QED
      BY <1>1, <1>2, <1>3, <1>6, <1>8, <3>1, ReadDataSlots
  <2> QED
    BY <2>5, <2>6, <2>7, <2>8 DEF Stm32!DmaInv
<1>9. CASE /\ n > 0 /\ Stm32!IsRun(0, n - 1) /\ ring[n].state = "last"
           /\ chain' = <<>>
           /\ task' = [task EXCEPT ![t] = [@ EXCEPT !.pc = "refill", !.packet = Stm32!Linked(n)]]
  <2>1. PICK p \in Seq(Stm32!RX_SLOTS) : p = Stm32!Linked(n) /\ Len(p) = Len(chain) + n
    BY <1>7
  <2>2. PICK r : r = [task[t] EXCEPT !.pc = "refill", !.packet = p]
    OBVIOUS
  <2>3. r \in Stm32!TaskRecords /\ r.pc = "refill" /\ r.packet = p /\ r.call = task[t].call
    BY <1>3, <2>2 DEF Stm32!TaskRecords, Stm32!Places
  <2>4. /\ task' = [task EXCEPT ![t] = r] /\ task'[t] = r /\ task' \in [Tasks -> Stm32!TaskRecords]
        /\ \A u \in Tasks \ {t} : task'[u] = task[u]
    BY <1>9, <2>1, <2>2, <2>3 DEF Stm32!DmaInv, Stm32!TypeOK
  <2>5. Len(p) <= MaxSegments
    <3>1. n - 1 \in 0 .. ETH_RX_DESC_CNT /\ 0 \in 0 .. ETH_RX_DESC_CNT /\ 0 <= n - 1
      BY <1>4, <1>9, SlotNumbers
    <3>2. Stm32!Segments(0, n - 1) = n - 1 + Len(chain)
      BY <1>4, <1>7 DEF Stm32!Segments
    <3>3. Stm32!Segments(0, n - 1) < MaxSegments
      BY <1>9, <3>1 DEF Stm32!DmaInv, Stm32!RingInv
    <3> QED
      BY <1>4, <1>7, <2>1, <3>2, <3>3, SlotNumbers
  <2>6. Stm32!TypeOK'
    <3>1. chain' \in Seq(Stm32!RX_SLOTS)
      BY <1>9
    <3> QED
      BY <1>1, <1>2, <2>4, <3>1, EmptiedRing DEF Stm32!DmaInv, Stm32!TypeOK
  <2>7. \A u \in Tasks : Stm32!TaskOK(u)'
    <3>1. \A u \in Tasks \ {t} : Stm32!TaskOK(u)'
      BY <1>2, <1>3, <2>4, OthersKeep
    <3>2. Stm32!TaskOK(t)'
      BY <1>2, <1>3, <1>9, <2>3, <2>4, <2>5 DEF Stm32!TaskOK
    <3> QED
      BY <3>1, <3>2
  <2>8. Stm32!RingInv'
    <3>1. ASSUME NEW k \in 0 .. ETH_RX_DESC_CNT, NEW m \in 0 .. ETH_RX_DESC_CNT, k <= m, Stm32!IsRun(k, m)'
          PROVE  Stm32!Segments(k, m)' < MaxSegments
      <4>1. Stm32!Segments(k, m)' = m - k
        <5>1. Len(chain') = 0
          BY <1>9
        <5> QED
          BY <3>1, <5>1 DEF Stm32!Segments
      <4>2. CASE k = m
        BY <4>1, <4>2, SlotNumbers
      <4>3. CASE k < m
        <5>1. \A e \in k + 1 .. m : e \in 1 .. ETH_RX_DESC_CNT /\ ring'[e].state = "more"
          BY <3>1, SlotNumbers DEF Stm32!IsRun
        <5>2. \A e \in k + 1 .. m : e + n \in 1 .. ETH_RX_DESC_CNT /\ ring[e + n].state = "more"
          BY <1>1, <5>1, EmptiedRing
        <5>3. m \in k + 1 .. m
          BY <4>3
        <5>4. m + n \in 0 .. ETH_RX_DESC_CNT /\ k + n \in 0 .. ETH_RX_DESC_CNT /\ k + n <= m + n /\ k + n # 0
          BY <1>4, <1>9, <4>3, <5>2, <5>3, SlotNumbers
        <5>5. \A e \in k + n + 1 .. m + n : e - n \in k + 1 .. m /\ e - n + n = e
          BY <1>4
        <5>6. Stm32!IsRun(k + n, m + n)
          BY <5>2, <5>5 DEF Stm32!IsRun
        <5>7. Stm32!Segments(k + n, m + n) < MaxSegments
          BY <5>4, <5>6 DEF Stm32!DmaInv, Stm32!RingInv
        <5>8. Stm32!Segments(k + n, m + n) = m - k
          BY <1>4, <5>4 DEF Stm32!Segments
        <5> QED
          BY <4>1, <5>7, <5>8
      <4> QED
        BY <3>1, <4>2, <4>3
    <3> QED
      BY <1>1, <3>1, EmptiedFilled DEF Stm32!RingInv
  <2>9. Stm32!SlotInv'
    <3>1. /\ \A u \in Tasks \ {t} : task'[u].packet = task[u].packet
          /\ task'[t].packet = p
      BY <2>3, <2>4
    <3> QED
      BY <1>1, <1>2, <1>3, <1>6, <1>9, <2>1, <3>1, ReadDataSlots
  <2> QED
    BY <2>6, <2>7, <2>8, <2>9 DEF Stm32!DmaInv
<1> QED
  BY <1>1, <1>8, <1>9

\* receive has copied or dropped its frame; release_frame gives its slots back.
LEMMA CopyKeeps ==
  ASSUME Stm32!DmaInv, NEW t \in Tasks, Stm32!Copy(t)
  PROVE  Stm32!DmaInv'
<1>1. /\ task[t].pc = "copy" /\ UNCHANGED <<m_eth_running, ring, chain>>
      /\ allocated' = allocated \ Stm32!Contents(task[t].packet)
  BY DEF Stm32!Copy, Stm32!Released
<1>2. lock["receive"] = t /\ task[t].call = "receive" /\ task[t] \in Stm32!TaskRecords
  BY <1>1, AtPlace DEF Stm32!DmaInv, Stm32!TypeOK
<1>3. PICK w : w = [task[t] EXCEPT !.pc = "wait", !.packet = <<>>]
  OBVIOUS
<1>4. w \in Stm32!TaskRecords /\ w.pc = "wait" /\ w.packet = <<>> /\ w.call = "receive"
  <2>1. PICK l \in Stm32!TaskRecords : l = task[t]
    BY <1>2
  <2>2. w = [l EXCEPT !.pc = "wait", !.packet = <<>>]
    BY <1>3, <2>1
  <2>3. w \in Stm32!TaskRecords /\ w.pc = "wait" /\ w.packet = <<>> /\ w.call = l.call
    <3>1. "wait" \in Stm32!Places /\ <<>> \in Seq(Stm32!RX_SLOTS)
      BY DEF Stm32!Places
    <3> QED
      BY <2>2, <3>1 DEF Stm32!TaskRecords
  <2> QED
    BY <1>2, <2>1, <2>3
<1>5. PICK r \in {Stm32!Resting, w} :
        /\ task' = [task EXCEPT ![t] = r]
        /\ lock' \in [Stm32!Locks -> Tasks \cup {0}]
        /\ r = w => lock'["receive"] = t
  <2>1. lock \in [Stm32!Locks -> Tasks \cup {0}]
    BY DEF Stm32!DmaInv, Stm32!TypeOK
  <2>2. CASE Stm32!Finish(t)
    <3>1. lock' \in [Stm32!Locks -> Tasks \cup {0}] /\ task' = [task EXCEPT ![t] = Stm32!Resting]
      BY <2>1, <2>2 DEF Stm32!Finish
    <3>2. Stm32!Resting # w
      BY <1>4, RestingRecord
    <3> QED
      BY <3>1, <3>2
  <2>3. CASE /\ task' = [task EXCEPT ![t] = [@ EXCEPT !.pc = "wait", !.packet = <<>>]]
             /\ UNCHANGED lock
    BY <1>2, <1>3, <2>1, <2>3
  <2> QED
    BY <2>2, <2>3 DEF Stm32!Copy
<1>6. r \in Stm32!TaskRecords /\ r.packet = <<>>
  BY <1>4, <1>5, RestingRecord
<1>7. /\ task' \in [Tasks -> Stm32!TaskRecords] /\ task'[t] = r
      /\ \A u \in Tasks \ {t} : task'[u] = task[u]
  BY <1>5, <1>6 DEF Stm32!DmaInv, Stm32!TypeOK
<1>8. Stm32!TypeOK'
  BY <1>1, <1>5, <1>7 DEF Stm32!DmaInv, Stm32!TypeOK
<1>9. \A u \in Tasks : Stm32!TaskOK(u)'
  <2>1. \A u \in Tasks \ {t} : Stm32!TaskOK(u)'
    BY <1>1, <1>2, <1>5, OthersKeep
  <2>2. CASE r = Stm32!Resting
    BY <1>7, <2>1, <2>2, RestingRecord DEF Stm32!TaskOK
  <2>3. CASE r = w
    BY <1>4, <1>5, <1>7, <2>1, <2>3 DEF Stm32!TaskOK
  <2> QED
    BY <1>5, <2>2, <2>3
<1>10. Stm32!RingInv'
  BY <1>1 DEF Stm32!DmaInv, Stm32!RingInv, Stm32!IsRun, Stm32!Segments
<1>11. Stm32!SlotInv'
  <2>1. \A u \in Tasks : task'[u].packet = <<>> /\ Stm32!Contents(task'[u].packet) = {}
    BY <1>2, <1>6, <1>7, OneFrame DEF Stm32!Contents
  <2>2. \A u \in Tasks \ {t} : Stm32!Contents(task[u].packet) = {}
    BY <1>2, OneFrame DEF Stm32!Contents
  <2>3. \A i \in DOMAIN chain : chain[i] \notin Stm32!Contents(task[t].packet)
    <3>1. CASE task[t].packet = <<>>
      BY <3>1 DEF Stm32!Contents
    <3>2. CASE task[t].packet # <<>>
      <4>1. chain = <<>>
        BY <3>2 DEF Stm32!DmaInv, Stm32!TaskOK
      <4> QED
        BY <4>1
    <3> QED
      BY <3>1, <3>2
  <2>4. \A d \in DOMAIN ring' : ring'[d].slot # 0 =>
          /\ ring'[d].slot \in allocated'
          /\ \A e \in DOMAIN ring' : ring'[e].slot = ring'[d].slot => d = e
          /\ \A i \in DOMAIN chain' : chain'[i] # ring'[d].slot
          /\ \A u \in Tasks : ring'[d].slot \notin Stm32!Contents(task'[u].packet)
    BY <1>1, <2>1 DEF Stm32!DmaInv, Stm32!SlotInv
  <2>5. /\ \A i, j \in DOMAIN chain' : chain'[i] \in allocated' /\ (chain'[i] = chain'[j] => i = j)
        /\ \A u \in Tasks : Stm32!Contents(task'[u].packet) \subseteq allocated'
    BY <1>1, <2>1, <2>3 DEF Stm32!DmaInv, Stm32!SlotInv
  <2>6. ASSUME NEW q \in allocated'
        PROVE  (\E d \in DOMAIN ring' : ring'[d].slot = q) \/ (\E i \in DOMAIN chain' : chain'[i] = q)
    <3>1. q \in allocated /\ \A u \in Tasks : q \notin Stm32!Contents(task[u].packet)
      BY <1>1, <2>2, <2>6
    <3> QED
      BY <1>1, <3>1 DEF Stm32!DmaInv, Stm32!SlotInv
  <2> QED
    BY <2>4, <2>5, <2>6 DEF Stm32!SlotInv
<1> QED
  BY <1>8, <1>9, <1>10, <1>11 DEF Stm32!DmaInv

\* Every step keeps the invariant.
LEMMA DmaNext == Stm32!DmaInv /\ [Stm32!Next]_stm32Vars => Stm32!DmaInv'
<1> SUFFICES ASSUME Stm32!DmaInv, [Stm32!Next]_stm32Vars PROVE Stm32!DmaInv'
  OBVIOUS
<1>1. CASE UNCHANGED stm32Vars
  BY <1>1
     DEF stm32Vars, Stm32!DmaInv, Stm32!TypeOK, Stm32!TaskOK, Stm32!RingInv, Stm32!SlotInv,
         Stm32!IsRun, Stm32!Segments
<1>2. CASE Stm32!Dma
  BY <1>2, DmaKeeps
<1>3. ASSUME NEW t \in Tasks, \E call \in Stm32!Operations : Stm32!Invoke(t, call)
      PROVE  Stm32!DmaInv'
  BY <1>3, InvokeKeeps
<1>4. ASSUME NEW t \in Tasks, Stm32!TakeLock(t) PROVE Stm32!DmaInv'
  BY <1>4, TakeLockKeeps
<1>5. ASSUME NEW t \in Tasks, Stm32!Refill(t) PROVE Stm32!DmaInv'
  BY <1>5, RefillKeeps
<1>6. ASSUME NEW t \in Tasks, Stm32!ReadData(t) PROVE Stm32!DmaInv'
  BY <1>6, ReadDataKeeps
<1>7. ASSUME NEW t \in Tasks, Stm32!Copy(t) PROVE Stm32!DmaInv'
  BY <1>7, CopyKeeps
<1>8. ASSUME NEW t \in Tasks,
             Stm32!Start(t) \/ Stm32!Stop(t) \/ Stm32!Transmit(t) \/ Stm32!Receive(t) \/ Stm32!Wait(t)
      PROVE  Stm32!DmaInv'
  BY <1>8, CallsKeep
<1> QED
  BY <1>1, <1>2, <1>3, <1>4, <1>5, <1>6, <1>7, <1>8 DEF Stm32!Next

\* In every state, for any number of tasks and descriptors, the slots of the descriptors,
\* of the unfinished frame and of the frame being copied are marked allocated and all
\* different, and slots move only under m_receiveMutex.
THEOREM DmaInvariant == Stm32!Spec => []Stm32!DmaInv
<1>1. Stm32!Init => Stm32!DmaInv
  BY DmaInit
<1>2. Stm32!DmaInv /\ [Stm32!Next]_(Stm32!vars) => Stm32!DmaInv'
  BY DmaNext DEF stm32Vars, Stm32!vars
<1> QED
  BY <1>1, <1>2, PTL DEF Stm32!Spec

\* The slots of one frame that is linked or being copied: no more than a frame may span.
LEMMA FrameInFlight ==
  ASSUME Stm32!DmaInv
  PROVE  \E c \in Seq(Stm32!RX_SLOTS) :
           /\ Len(c) <= MaxSegments
           /\ \A s \in allocated :
                 (\E d \in DOMAIN ring : ring[d].slot = s) \/ (\E i \in DOMAIN c : c[i] = s)
<1>1. CASE \E t \in Tasks : task[t].packet # <<>>
  <2>1. PICK t \in Tasks : task[t].packet # <<>>
    BY <1>1
  <2>2. chain = <<>> /\ Len(task[t].packet) <= MaxSegments /\ lock["receive"] = t
    BY <2>1 DEF Stm32!DmaInv, Stm32!TaskOK
  <2>3. \A u \in Tasks \ {t} : Stm32!Contents(task[u].packet) = {}
    BY <2>2, OneFrame DEF Stm32!Contents
  <2>4. PICK p \in Seq(Stm32!RX_SLOTS) : p = task[t].packet
    BY <2>1 DEF Stm32!DmaInv, Stm32!TypeOK, Stm32!TaskRecords
  <2>5. \A s : s \in Stm32!Contents(task[t].packet) <=> \E i \in DOMAIN p : p[i] = s
    BY <2>4 DEF Stm32!Contents
  <2>6. ASSUME NEW s \in allocated
        PROVE  (\E d \in DOMAIN ring : ring[d].slot = s) \/ (\E i \in DOMAIN p : p[i] = s)
    <3>1. \A i \in DOMAIN chain : FALSE
      BY <2>2
    <3>2. \/ \E d \in DOMAIN ring : ring[d].slot = s
          \/ \E u \in Tasks : s \in Stm32!Contents(task[u].packet)
      BY <3>1 DEF Stm32!DmaInv, Stm32!SlotInv
    <3> QED
      BY <2>3, <2>5, <3>2
  <2> QED
    BY <2>2, <2>4, <2>6
<1>2. CASE \A t \in Tasks : task[t].packet = <<>>
  <2>1. \A t \in Tasks : Stm32!Contents(task[t].packet) = {}
    BY <1>2 DEF Stm32!Contents
  <2>2. chain \in Seq(Stm32!RX_SLOTS) /\ Len(chain) \in Nat
    BY DEF Stm32!DmaInv, Stm32!TypeOK
  <2>3. Len(chain) < MaxSegments
    <3>1. 0 \in 0 .. ETH_RX_DESC_CNT /\ Stm32!IsRun(0, 0) /\ Stm32!Segments(0, 0) = Len(chain)
      BY <2>2, SlotNumbers DEF Stm32!IsRun, Stm32!Segments
    <3> QED
      BY <3>1 DEF Stm32!DmaInv, Stm32!RingInv
  <2>4. \A s \in allocated :
          (\E d \in DOMAIN ring : ring[d].slot = s) \/ (\E i \in DOMAIN chain : chain[i] = s)
    BY <2>1 DEF Stm32!DmaInv, Stm32!SlotInv
  <2>5. Len(chain) <= MaxSegments
    BY <2>2, <2>3, SlotNumbers
  <2> QED
    BY <2>2, <2>4, <2>5
<1> QED
  BY <1>1, <1>2

\* There are more slots than the other descriptors and a frame can hold.
LEMMA PoolSuffices ==
  ASSUME Stm32!DmaInv
  PROVE  Stm32!Unserved # {} => Stm32!available # {}
<1> SUFFICES ASSUME NEW d \in Stm32!Unserved, Stm32!available = {} PROVE FALSE
  OBVIOUS
<1> DEFINE N == ETH_RX_DESC_CNT
<1>1. N \in Nat /\ N > 0 /\ MaxSegments \in Nat /\ MaxSegments <= N /\ Stm32!RX_SLOTS = 1 .. 2 * N
  BY SlotNumbers DEF Stm32!RX_SLOTS
<1>2. d \in 1 .. N /\ ring[d].slot = 0
  BY RingTypes DEF Stm32!Unserved
<1>3. allocated = 1 .. 2 * N
  BY <1>1 DEF Stm32!available, Stm32!DmaInv, Stm32!TypeOK
<1>4. PICK c \in Seq(Stm32!RX_SLOTS) :
        /\ Len(c) <= MaxSegments
        /\ \A s \in allocated :
              (\E e \in DOMAIN ring : ring[e].slot = s) \/ (\E i \in DOMAIN c : c[i] = s)
  BY FrameInFlight
<1>5. PICK k \in Nat : k = Len(c) /\ k <= N
  BY <1>1, <1>4
<1>6. DOMAIN c = 1 .. k /\ \A i \in 1 .. k : c[i] \in 1 .. 2 * N
  BY <1>1, <1>4, <1>5
<1>7. \A e \in 1 .. N : ring[e].slot \in {0} \cup 1 .. 2 * N
  BY <1>1, RingTypes
<1> DEFINE held(i) == IF i < d THEN ring[i].slot ELSE IF i < N THEN ring[i + 1].slot ELSE c[i - (N - 1)]
           f == [i \in 1 .. N - 1 + k |-> IF held(i) = 0 THEN 1 ELSE held(i)]
<1>8. \A i \in 1 .. N - 1 + k : f[i] \in 1 .. 2 * N
  <2> SUFFICES ASSUME NEW i \in 1 .. N - 1 + k PROVE f[i] \in 1 .. 2 * N
    OBVIOUS
  <2>1. held(i) \in {0} \cup 1 .. 2 * N
    <3>1. CASE i < d
      <4>1. i \in 1 .. N
        BY <1>1, <1>2, <3>1
      <4> QED
        BY <1>7, <3>1, <4>1
    <3>2. CASE ~(i < d) /\ i < N
      <4>1. i + 1 \in 1 .. N
        BY <1>1, <3>2
      <4> QED
        BY <1>7, <3>2, <4>1
    <3>3. CASE ~(i < d) /\ ~(i < N)
      <4>1. i - (N - 1) \in 1 .. k
        BY <1>1, <1>5, <3>3
      <4> QED
        BY <1>6, <3>3, <4>1
    <3> QED
      BY <3>1, <3>2, <3>3
  <2>2. 1 \in 1 .. 2 * N
    BY <1>1
  <2> HIDE DEF held
  <2> QED
    BY <2>1, <2>2
<1>9. ASSUME NEW s \in 1 .. 2 * N PROVE \E i \in 1 .. N - 1 + k : f[i] = s
  <2>1. s # 0
    OBVIOUS
  <2>2. SUFFICES \E i \in 1 .. N - 1 + k : held(i) = s
    <3> HIDE DEF held
    <3> QED
      BY <2>1
  <2>3. CASE \E e \in DOMAIN ring : ring[e].slot = s
    <3>1. PICK e \in 1 .. N : ring[e].slot = s
      BY <2>3, RingTypes
    <3>2. e # d
      BY <1>2, <2>1, <3>1
    <3>3. CASE e < d
      <4>1. e \in 1 .. N - 1 + k
        BY <1>1, <1>2, <1>5, <3>3
      <4>2. held(e) = s
        BY <3>1, <3>3
      <4> QED
        BY <4>1, <4>2
    <3>4. CASE d < e
      <4>1. e - 1 \in 1 .. N - 1 + k /\ ~(e - 1 < d) /\ e - 1 < N /\ e - 1 + 1 = e
        BY <1>1, <1>2, <1>5, <3>1, <3>4
      <4>2. held(e - 1) = s
        BY <3>1, <4>1
      <4> QED
        BY <4>1, <4>2
    <3> QED
      BY <1>1, <1>2, <3>1, <3>2, <3>3, <3>4
  <2>4. CASE \E j \in DOMAIN c : c[j] = s
    <3>1. PICK j \in 1 .. k : c[j] = s
      BY <1>6, <2>4
    <3>2. N - 1 + j \in 1 .. N - 1 + k /\ ~(N - 1 + j < d) /\ ~(N - 1 + j < N) /\ N - 1 + j - (N - 1) = j
      BY <1>1, <1>2, <1>5, <3>1
    <3>3. PICK i \in 1 .. N - 1 + k : i = N - 1 + j
      BY <3>2
    <3>4. ~(i < d) /\ ~(i < N) /\ i - (N - 1) = j
      BY <1>1, <1>2, <3>1, <3>3
    <3>5. held(i) = s
      BY <3>1, <3>4, Zenon
    <3> QED
      BY <3>5
  <2> QED
    BY <1>3, <1>4, <2>3, <2>4
<1>10. f \in Surjection(1 .. N - 1 + k, 1 .. 2 * N)
  <2> DEFINE T == 1 .. N - 1 + k
             V == 1 .. 2 * N
  <2>1. f \in [T -> V] /\ \A s \in V : \E i \in T : f[i] = s
    BY <1>8, <1>9
  <2> HIDE DEF f, T, V
  <2>2. f \in Surjection(T, V)
    BY <2>1 DEF Surjection
  <2> QED
    BY <2>2 DEF T, V
<1> HIDE DEF f
<1>11. /\ IsFiniteSet(1 .. N - 1 + k) /\ Cardinality(1 .. N - 1 + k) = N - 1 + k
       /\ Cardinality(1 .. 2 * N) = 2 * N
  <2>1. \A m \in Nat : IsFiniteSet(1 .. m) /\ Cardinality(1 .. m) = m
    BY FS_Interval
  <2>2. PICK m \in Nat : m = N - 1 + k
    <3>1. N - 1 + k \in Nat
      BY <1>1
    <3> QED
      BY <3>1, Zenon
  <2>3. PICK w \in Nat : w = 2 * N
    BY <1>1
  <2> QED
    BY <2>1, <2>2, <2>3, Zenon
<1>12. Cardinality(1 .. 2 * N) <= Cardinality(1 .. N - 1 + k)
  BY <1>10, <1>11, FS_Surjection
<1>13. 2 * N <= N - 1 + k
  BY <1>11, <1>12
<1> QED
  BY <1>1, <1>5, <1>13

\* Slots are never lost, given out twice or read while the DMA may write to them, and the
\* pool of HAL_ETH_RxAllocateCallback never runs dry, for any number of tasks, any number
\* of descriptors and frames of up to as many slots.
THEOREM SlotsHaveOneHolder == Stm32!Spec => []SlotHasOneHolder
<1>1. Stm32!DmaInv => SlotHasOneHolder
  <2> SUFFICES ASSUME Stm32!DmaInv, NEW s \in Stm32!RX_SLOTS
               PROVE  IF s \in allocated
                      THEN \E holder \in Stm32!Holders(s) : Stm32!Holders(s) = {holder}
                      ELSE Stm32!Holders(s) = {}
    BY PoolSuffices
       DEF SlotHasOneHolder, Stm32!SlotHasOneHolder, Stm32!available, Stm32!DmaInv, Stm32!TypeOK
  <2> DEFINE A == {d \in DOMAIN ring : ring[d].slot = s}
             B == {i \in DOMAIN chain : chain[i] = s}
             C == {t \in DOMAIN task : s \in Stm32!Contents(task[t].packet)}
  <2>1. s # 0 /\ DOMAIN task = Tasks
    BY SlotNumbers DEF Stm32!DmaInv, Stm32!TypeOK
  <2>2. \A t \in C : t \in Tasks /\ task[t].packet # <<>>
    BY <2>1 DEF Stm32!Contents
  <2>3. \A t \in C : lock["receive"] = t /\ chain = <<>>
    BY <2>2 DEF Stm32!DmaInv, Stm32!TaskOK
  <2>4. /\ \A x, y \in A : x = y
        /\ \A x, y \in B : x = y
        /\ \A x, y \in C : x = y
    BY <2>1, <2>3 DEF Stm32!DmaInv, Stm32!SlotInv
  <2>5. A # {} => B = {} /\ C = {}
    BY <2>1 DEF Stm32!DmaInv, Stm32!SlotInv
  <2>6. B # {} => C = {}
    <3>1. chain = <<>> => B = {}
      OBVIOUS
    <3> QED
      BY <2>3, <3>1
  <2>7. A # {} \/ B # {} \/ C # {} <=> s \in allocated
    <3>1. A # {} \/ B # {} \/ C # {} => s \in allocated
      BY <2>1 DEF Stm32!DmaInv, Stm32!SlotInv
    <3>2. s \in allocated => A # {} \/ B # {} \/ C # {}
      BY <2>1 DEF Stm32!DmaInv, Stm32!SlotInv
    <3> QED
      BY <3>1, <3>2
  <2>8. Stm32!Holders(s) = ({"ring"} \X A) \cup ({"chain"} \X B) \cup ({"task"} \X C)
    BY Zenon DEF Stm32!Holders
  <2> HIDE DEF A, B, C
  <2>9. CASE s \in allocated
    <3>1. \E name \in {"ring", "chain", "task"} : \E x : Stm32!Holders(s) = {<<name, x>>}
      <4>1. ASSUME NEW x \in A PROVE Stm32!Holders(s) = {<<"ring", x>>}
        <5>1. A = {x} /\ B = {} /\ C = {}
          BY <2>4, <2>5, <4>1
        <5> QED
          BY <2>8, <5>1
      <4>2. ASSUME NEW x \in B PROVE Stm32!Holders(s) = {<<"chain", x>>}
        <5>1. A = {} /\ B = {x} /\ C = {}
          BY <2>4, <2>5, <2>6, <4>2
        <5> QED
          BY <2>8, <5>1
      <4>3. ASSUME NEW x \in C PROVE Stm32!Holders(s) = {<<"task", x>>}
        <5>1. A = {} /\ B = {} /\ C = {x}
          BY <2>4, <2>5, <2>6, <4>3
        <5> QED
          BY <2>8, <5>1
      <4> QED
        BY <2>7, <2>9, <4>1, <4>2, <4>3
    <3> QED
      BY <2>9, <3>1
  <2>10. CASE s \notin allocated
    <3>1. A = {} /\ B = {} /\ C = {}
      BY <2>7, <2>10
    <3> QED
      BY <2>8, <2>10, <3>1
  <2> QED
    BY <2>9, <2>10
<1> QED
  BY <1>1, DmaInvariant, PTL
=============================================================================

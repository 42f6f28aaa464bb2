---------------------------- MODULE EmulatedTls ----------------------------
(***************************************************************************)
(* Emulated thread_local storage on STM32 (__emutls_get_address in         *)
(* platform/runtime/libstdcxx/tls.cpp).                                    *)
(*                                                                         *)
(* An object gets its place in every thread's array when the first thread  *)
(* uses it; two may do so at once.  A thread's array grows as objects with *)
(* later places are used in it.  Place 0 is none.                          *)
(***************************************************************************)
EXTENDS Naturals

CONSTANTS
  Tasks,      \* threads
  Boot,       \* the execution before the kernel starts, in which constructors run
  Main,       \* the application thread
  Variables,  \* thread_local variables of the program
  Spare       \* 32: places allocated beyond the one that is needed

VARIABLES
  location,            \* EmutlsObject::location.offset
  emutls_object_count,
  array,               \* per thread: capacity, 0 without an array, and entries;
                       \* startup_emutls is that of Boot
  call,                \* per thread: the variable asked for, and the offset found so far
  adopted              \* runtime_tls_adopt_startup was called: threads run from then on

vars == <<location, emutls_object_count, array, call, adopted>>

NoCall == [pc |-> "user", variable |-> "none", offset |-> 0]
NoArray == [capacity |-> 0, entries |-> {}]
Executions == Tasks \cup {Boot}

-----------------------------------------------------------------------------

\* emutls_offset, the first look, without a guard.
GetAddress(t, v) ==
  /\ call[t].pc = "user" /\ adopted = (t # Boot)
  /\ call' = [call EXCEPT ![t] = [variable |-> v, offset |-> location[v],
                                  pc |-> IF location[v] = 0 THEN "assign" ELSE "find"]]
  /\ UNCHANGED <<location, emutls_object_count, array, adopted>>

\* Mutant: the offset is not looked at again with interrupts disabled.
MustAssign_NotRechecked(t) == TRUE

MustAssign(t) == location[call[t].variable] = 0

\* The second look, with interrupts disabled.
AssignOffset(t) ==
  LET v == call[t].variable
  IN  /\ call[t].pc = "assign"
      /\ location' = IF MustAssign(t) THEN [location EXCEPT ![v] = emutls_object_count + 1]
                     ELSE location
      /\ emutls_object_count' = emutls_object_count + IF MustAssign(t) THEN 1 ELSE 0
      /\ call' = [call EXCEPT ![t] = [@ EXCEPT !.offset = location'[v], !.pc = "find"]]
      /\ UNCHANGED <<array, adopted>>

\* grow_emutls_array
Grown(capacity, offset) == IF 2 * capacity < offset THEN offset + Spare ELSE 2 * capacity

\* allocate_emutls_array, or grow_emutls_array if the offset is beyond its end.
Capacity(a, offset) ==
  CASE a.capacity = 0      -> offset + Spare
    [] offset > a.capacity -> Grown(a.capacity, offset)
    [] OTHER               -> a.capacity

\* The array and, at its place, the thread's own object, made on first use.
FindObject(t) ==
  LET c == call[t]
  IN  /\ call[t].pc = "find"
      /\ array' = [array EXCEPT ![t] =
                     [capacity |-> Capacity(@, c.offset),
                      entries  |-> IF \E e \in @.entries : e.offset = c.offset THEN @.entries
                                   ELSE @.entries \cup {[offset |-> c.offset,
                                                         variable |-> c.variable]}]]
      /\ call' = [call EXCEPT ![t] = NoCall]
      /\ UNCHANGED <<location, emutls_object_count, adopted>>

\* destroy_emutls when the thread is deleted.
Destroy(t) ==
  /\ call[t].pc = "user" /\ array[t].capacity > 0
  /\ array' = [array EXCEPT ![t] = NoArray]
  /\ UNCHANGED <<location, emutls_object_count, call, adopted>>

\* runtime_tls_adopt_startup: the application thread goes on with the objects that
\* constructors used.
Adopt ==
  /\ ~adopted /\ call[Boot].pc = "user"
  /\ adopted' = TRUE
  /\ array' = [array EXCEPT ![Main] = array[Boot], ![Boot] = NoArray]
  /\ UNCHANGED <<location, emutls_object_count, call>>

-----------------------------------------------------------------------------

Init ==
  /\ location = [v \in Variables |-> 0]
  /\ emutls_object_count = 0
  /\ array = [t \in Executions |-> NoArray]
  /\ call = [t \in Executions |-> NoCall]
  /\ adopted = FALSE

Next ==
  \/ Adopt
  \/ \E t \in Executions :
       \/ \E v \in Variables : GetAddress(t, v)
       \/ AssignOffset(t) \/ FindObject(t)
       \/ t \in Tasks \ {Main} /\ Destroy(t)

Spec == Init /\ [][Next]_vars

-----------------------------------------------------------------------------

\* A thread has one object of each thread_local variable and finds it again whatever
\* threads used it first at the same time: no two variables share a place, no variable has
\* two, and every place lies inside the array, also in what startup code handed over.
OneObjectPerVariable ==
  \A t \in Executions :
    \A e \in array[t].entries :
      /\ e.offset \in 1 .. array[t].capacity
      /\ e.offset = location[e.variable]
      /\ \A f \in array[t].entries : e # f => e.offset # f.offset /\ e.variable # f.variable

-----------------------------------------------------------------------------
(* Inductive invariants *)

CallRecords == [pc : {"user", "assign", "find"}, variable : Variables \cup {"none"},
                offset : Nat]
Entries == [offset : Nat, variable : Variables]
Arrays == [capacity : Nat, entries : SUBSET Entries]

TypeOK ==
  /\ location \in [Variables -> Nat] /\ emutls_object_count \in Nat
  /\ array \in [Executions -> Arrays]
  /\ call \in [Executions -> CallRecords]

\* Places are given out once.
PlaceInv ==
  /\ \A v \in Variables : location[v] <= emutls_object_count
  /\ \A v, w \in Variables : location[v] = location[w] /\ location[v] # 0 => v = w

\* A call goes on with the place of its variable.
CallOK(t) ==
  /\ call[t].pc # "user" => call[t].variable \in Variables
  /\ call[t].pc = "find" => call[t].offset = location[call[t].variable] /\ call[t].offset # 0

CallInv == \A t \in Executions : CallOK(t)

ArrayOK(a) ==
  \A e \in a.entries : e.offset \in 1 .. a.capacity /\ e.offset = location[e.variable]

ArrayInv == \A t \in Executions : ArrayOK(array[t])

EmutlsInv == TypeOK /\ PlaceInv /\ CallInv /\ ArrayInv
=============================================================================

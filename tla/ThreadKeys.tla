----------------------------- MODULE ThreadKeys -----------------------------
(***************************************************************************)
(* Thread-specific storage (key_create, key_delete, key_get, key_set and   *)
(* run_thread_specific_destructors in                                      *)
(* platform/runtime/libstdcxx/backend.cpp).                                *)
(*                                                                         *)
(* A key is a slot and a generation.  The calls compare generations under  *)
(* initialization_mutex and use the thread's own array after releasing it, *)
(* so that a key may be deleted and its slot reused in between.            *)
(* Generations wrap; births counts the keys a slot has held, which no code *)
(* can see.                                                                *)
(***************************************************************************)
EXTENDS Integers, FiniteSets

CONSTANTS
  Threads,
  Exiting,     \* the threads that end; the application thread does not
  Slots,       \* indices 0 .. RUNTIME_THREAD_KEY_COUNT - 1
  Generations, \* KEY_GENERATION_MASK >> KEY_INDEX_BITS: the largest generation
  Passes,      \* destructor_iterations
  MaxKeys      \* bound on the keys created in all

ASSUME ThreadKeysAssumption ==
  /\ Exiting \subseteq Threads
  /\ Slots \subseteq Nat /\ Slots # {}
  /\ Generations \in Nat \ {0} /\ Passes \in Nat \ {0} /\ MaxKeys \in Nat

VARIABLES
  keys,    \* the global keys[]; destructor is 0 or 1, births is history
  issued,  \* the handles key_create has returned
  values,  \* tx_thread_runtime_tls_values and _generations of every thread
  pc, key, \* where a thread is inside a call, and the handle it was given
  exit,    \* the locals of run_thread_specific_destructors
  used     \* history: the births of the key and of the value the last step matched

vars == <<keys, issued, values, pc, key, exit, used>>
callVars == <<pc, key>>

NoKey == [index |-> -1, generation |-> 0, birth |-> 0]
NoValue == [set |-> 0, generation |-> 0, birth |-> 0]
NoPair == [key |-> 0, value |-> 0]
Pair(birth, value) == [key |-> birth, value |-> value.birth]
NotExiting == [pass |-> 0, index |-> 0, invoked |-> 0, destructor |-> 0, generation |-> 0,
               birth |-> 0]

IsFirst(i, S) == i \in S /\ \A j \in S : i <= j
Above(i) == {j \in Slots : j > i}

\* A thread may call while it runs, and from the destructors it runs at its end.
InUser(t) == pc[t] = "user"
GoTo(t, step) == pc' = [pc EXCEPT ![t] = step]

----------------------------------------------------------------------------

\* The next generation, masked, without 0.
NextGeneration(generation) ==
  IF generation = Generations THEN 1 ELSE generation + 1

\* The first free slot is taken.
KeyCreate(t) ==
  \E i \in Slots, destructor \in {0, 1} :
    LET generation == NextGeneration(keys[i].generation)
    IN  /\ InUser(t)
        /\ IsFirst(i, {j \in Slots : keys[j].allocated = 0})
        /\ Cardinality(issued) < MaxKeys
        /\ keys' = [keys EXCEPT ![i] = [allocated |-> 1, destructor |-> destructor,
                                        generation |-> generation, births |-> @.births + 1]]
        /\ issued' = issued \cup {[index |-> i, generation |-> generation,
                                   birth |-> keys[i].births + 1]}
        /\ used' = NoPair
        /\ UNCHANGED <<values, callVars, exit>>

\* What every call checks of a handle, the generation under the mutex.
Valid(h) ==
  /\ h.generation # 0
  /\ keys[h.index].allocated = 1
  /\ keys[h.index].generation = h.generation

KeyDelete(t, h) ==
  /\ InUser(t)
  /\ Valid(h)
  /\ keys' = [keys EXCEPT ![h.index] = [@ EXCEPT !.allocated = 0, !.destructor = 0]]
  /\ used' = NoPair
  /\ UNCHANGED <<issued, values, callVars, exit>>

\* key_get and key_set up to the release of the mutex.
KeyCheck(t, h, call) ==
  /\ InUser(t)
  /\ Valid(h)
  /\ GoTo(t, call)
  /\ key' = [key EXCEPT ![t] = h]
  /\ used' = NoPair
  /\ UNCHANGED <<keys, issued, values, exit>>

Readable(t, h) == values[t][h.index].set = 1 /\ values[t][h.index].generation = h.generation

KeyGet(t) ==
  LET h == key[t]
  IN  /\ pc[t] = "get"
      /\ GoTo(t, "user")
      /\ key' = [key EXCEPT ![t] = NoKey]
      /\ used' = IF Readable(t, h) THEN Pair(h.birth, values[t][h.index]) ELSE NoPair
      /\ UNCHANGED <<keys, issued, values, exit>>

KeySet(t) ==
  LET h == key[t]
  IN  /\ pc[t] = "set"
      /\ GoTo(t, "user")
      /\ key' = [key EXCEPT ![t] = NoKey]
      /\ \E set \in {0, 1} :
           values' = [values EXCEPT ![t][h.index] =
                        [set |-> set, generation |-> h.generation, birth |-> h.birth]]
      /\ used' = NoPair
      /\ UNCHANGED <<keys, issued, exit>>

----------------------------------------------------------------------------
(* run_thread_specific_destructors. *)

ThreadExits(t) ==
  /\ InUser(t) /\ exit[t].pass = 0
  /\ t \in Exiting
  /\ \E i \in Slots :
       IsFirst(i, Slots) /\ exit' = [exit EXCEPT ![t] = [@ EXCEPT !.pass = 1, !.index = i]]
  /\ GoTo(t, "scan")
  /\ used' = NoPair
  /\ UNCHANGED <<keys, issued, values, key>>

\* The part under the mutex: destructor and generation are copied.
ScanKey(t) ==
  LET k == keys[exit[t].index]
  IN  /\ pc[t] = "scan"
      /\ exit' = [exit EXCEPT ![t] = [@ EXCEPT !.destructor = k.destructor,
                                               !.generation = k.generation,
                                               !.birth = k.births]]
      /\ GoTo(t, "compare")
      /\ used' = NoPair
      /\ UNCHANGED <<keys, issued, values, key>>

\* Mutant: a value is destroyed whatever key it was set for.
Destroyable_AnyGeneration(t) ==
  exit[t].destructor = 1 /\ values[t][exit[t].index].set = 1

Destroyable(t) ==
  /\ exit[t].destructor = 1
  /\ values[t][exit[t].index].set = 1
  /\ values[t][exit[t].index].generation = exit[t].generation

\* Mutant: the pass does not note that it invoked a destructor.
CallDestructor_NotNoted(t) ==
  LET i == exit[t].index
  IN  /\ pc[t] = "compare"
      /\ Destroyable(t)
      /\ values' = [values EXCEPT ![t][i] = [@ EXCEPT !.set = 0]]
      /\ used' = Pair(exit[t].birth, values[t][i])
      /\ GoTo(t, "user")
      /\ UNCHANGED <<keys, issued, exit, key>>

\* The value is cleared, then the destructor runs, which may call anything.
CallDestructor(t) ==
  LET i == exit[t].index
  IN  /\ pc[t] = "compare"
      /\ Destroyable(t)
      /\ values' = [values EXCEPT ![t][i] = [@ EXCEPT !.set = 0]]
      /\ exit' = [exit EXCEPT ![t] = [@ EXCEPT !.invoked = 1]]
      /\ used' = Pair(exit[t].birth, values[t][i])
      /\ GoTo(t, "user")
      /\ UNCHANGED <<keys, issued, key>>

LastPass(t) == exit[t].invoked = 0 \/ exit[t].pass = Passes

\* On to the next slot, the next pass, or out of the loops.
Advance(t) ==
  /\ \/ /\ \E i \in Above(exit[t].index) :
            /\ IsFirst(i, Above(exit[t].index))
            /\ exit' = [exit EXCEPT ![t] = [@ EXCEPT !.index = i]]
        /\ GoTo(t, "scan")
     \/ /\ Above(exit[t].index) = {} /\ ~LastPass(t)
        /\ \E i \in Slots :
            /\ IsFirst(i, Slots)
            /\ exit' = [exit EXCEPT ![t] = [@ EXCEPT !.index = i, !.pass = exit[t].pass + 1,
                                                    !.invoked = 0]]
        /\ GoTo(t, "scan")
     \/ /\ Above(exit[t].index) = {} /\ LastPass(t)
        /\ exit' = exit
        /\ GoTo(t, "ended")
  /\ used' = NoPair
  /\ UNCHANGED <<keys, issued, values, key>>

NothingToDestroy(t) == pc[t] = "compare" /\ ~Destroyable(t) /\ Advance(t)
DestructorReturns(t) == InUser(t) /\ exit[t].pass > 0 /\ Advance(t)

----------------------------------------------------------------------------

Init ==
  /\ keys = [i \in Slots |-> [allocated |-> 0, destructor |-> 0, generation |-> 0, births |-> 0]]
  /\ issued = {}
  /\ values = [t \in Threads |-> [i \in Slots |-> NoValue]]
  /\ pc = [t \in Threads |-> "user"]
  /\ key = [t \in Threads |-> NoKey]
  /\ exit = [t \in Threads |-> NotExiting]
  /\ used = NoPair

Next ==
  \E t \in Threads :
    \/ KeyCreate(t)
    \/ \E h \in issued : KeyDelete(t, h) \/ KeyCheck(t, h, "get") \/ KeyCheck(t, h, "set")
    \/ KeyGet(t) \/ KeySet(t)
    \/ ThreadExits(t) \/ ScanKey(t) \/ CallDestructor(t)
    \/ NothingToDestroy(t) \/ DestructorReturns(t)

Spec == Init /\ [][Next]_vars

----------------------------------------------------------------------------

\* Two keys of a slot can be confused only after its generation went all the way round.
Wrapped(pair) == pair.key % Generations = pair.value % Generations

\* What a thread reads through a key, and what is given to a key's destructor, was set
\* through that key, although the key may be deleted and its slot reused between the
\* check of the generation and the use, short of a full wrap of generations.
ValuesStayWithKey == used.key # used.value => Wrapped(used)

\* A thread that stopped before its last pass left no value whose key has a destructor:
\* what destructors set again is destroyed in a further pass.
EarlyEndIsClean ==
  \A t \in Threads : pc[t] = "ended" /\ exit[t].invoked = 0 =>
    \A i \in Slots :
      values[t][i].set = 1 /\ keys[i].destructor = 1 => keys[i].births # values[t][i].birth

----------------------------------------------------------------------------
(* Inductive invariants. *)

KeyRecords == [allocated : {0, 1}, destructor : {0, 1}, generation : Nat, births : Nat]
Handles == [index : Int, generation : Nat, birth : Nat]
Values == [set : {0, 1}, generation : Nat, birth : Nat]
Exits == [pass : Nat, index : Nat, invoked : {0, 1}, destructor : {0, 1}, generation : Nat,
          birth : Nat]
Places == {"user", "get", "set", "scan", "compare", "ended"}

TypeOK ==
  /\ keys \in [Slots -> KeyRecords]
  /\ issued \subseteq Handles
  /\ values \in [Threads -> [Slots -> Values]]
  /\ pc \in [Threads -> Places]
  /\ key \in [Threads -> Handles]
  /\ exit \in [Threads -> Exits]

\* A generation is that of the birth, counted modulo Generations and without 0.
Matches(generation, birth) ==
  IF birth = 0 THEN generation = 0
  ELSE generation \in 1 .. Generations /\ birth % Generations = generation % Generations

\* Generations follow births, and nothing is of a key that is not born yet.
KeyInv == \A i \in Slots : Matches(keys[i].generation, keys[i].births)

HandleOK(h) ==
  h.index \in Slots /\ Matches(h.generation, h.birth) /\ h.birth <= keys[h.index].births

HandleInv ==
  /\ \A h \in issued : HandleOK(h)
  /\ \A t \in Threads : pc[t] \in {"get", "set"} => HandleOK(key[t])

ValueOK(t, i) ==
  /\ Matches(values[t][i].generation, values[t][i].birth)
  /\ values[t][i].birth <= keys[i].births

ValueInv == \A t \in Threads, i \in Slots : ValueOK(t, i)

\* What a thread at its end copied of a slot is that of the key of then, which is not
\* younger than any value of the slot.
CopyOK(t) ==
  LET e == exit[t]
      k == keys[e.index]
  IN  /\ Matches(e.generation, e.birth) /\ e.birth <= k.births
      /\ e.birth = k.births /\ k.destructor = 1 =>
           e.destructor = 1 /\ e.generation = k.generation
      /\ values[t][e.index].birth <= e.birth

\* A thread in the loops is at a slot; its own calls come from destructors it invoked.
ExitOK(t) ==
  /\ pc[t] \in {"scan", "compare", "ended"} => exit[t].pass > 0
  /\ exit[t].pass > 0 => exit[t].index \in Slots
  /\ exit[t].pass > 0 /\ exit[t].invoked = 0 => pc[t] \in {"scan", "compare", "ended"}
  /\ pc[t] = "compare" => CopyOK(t)

ExitInv == \A t \in Threads : ExitOK(t)

\* The slot holds no value of t for the destructor of its key.
Clean(t, i) ==
  values[t][i].set = 1 /\ keys[i].destructor = 1 => keys[i].births # values[t][i].birth

\* A pass that has invoked nothing left the slots behind it clean.
PassOK(t) ==
  exit[t].pass > 0 /\ exit[t].invoked = 0 =>
    \A i \in Slots : i < exit[t].index \/ pc[t] = "ended" => Clean(t, i)

PassInv == \A t \in Threads : PassOK(t)

KeysInv ==
  TypeOK /\ KeyInv /\ HandleInv /\ ValueInv /\ ExitInv /\ PassInv /\ ValuesStayWithKey
=============================================================================

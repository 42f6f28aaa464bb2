---------------------------- MODULE MCThreadExit ----------------------------
(***************************************************************************)
(* What belongs to a thread and ends with it: thread-specific values, the  *)
(* callbacks and thread_local destructors of its exit, and the emulated    *)
(* thread_local objects.  One of the three is at work in a behaviour.      *)
(* Two generations, so that a slot's generation wraps with its third key.  *)
(***************************************************************************)
EXTENDS ThreadKeys

CONSTANTS Application, Others, MaxObjects, Tasks, Boot, Main, Variables, Spare

ASSUME ThreadExitAssumption ==
  /\ Main \in Tasks /\ Spare \in Nat
  /\ MaxObjects \in Nat

VARIABLES
  component,
  startup_destructors, at, cleanup_started, tls_destructors, callbacks, calling, pass,
  objects, ran,
  location, emutls_object_count, array, call, adopted

Exit == INSTANCE ThreadExit
Emutls == INSTANCE EmulatedTls

exitVars == <<startup_destructors, at, cleanup_started, tls_destructors, callbacks, calling,
              pass, objects, ran>>
emutlsVars == <<location, emutls_object_count, array, call, adopted>>
MCvars == <<component, vars, exitVars, emutlsVars>>

MCInit ==
  /\ component \in {"keys", "exit", "emutls"}
  /\ Init /\ Exit!Init /\ Emutls!Init

MCNext ==
  \/ component = "keys" /\ Next /\ UNCHANGED <<component, exitVars, emutlsVars>>
  \/ component = "exit" /\ Exit!Next /\ UNCHANGED <<component, vars, emutlsVars>>
  \/ component = "emutls" /\ Emutls!Next /\ UNCHANGED <<component, vars, exitVars>>

MCSpec == MCInit /\ [][MCNext]_MCvars

ExitRunsEachOnce == Exit!ExitRunsEachOnce
OneObjectPerVariable == Emutls!OneObjectPerVariable
=============================================================================

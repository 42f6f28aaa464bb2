----------------------------- MODULE MCFirstUse -----------------------------
(***************************************************************************)
(* What is made when the program starts or at its first use: statics and   *)
(* call_onces, the ThreadX objects behind the C++ primitives, the runtime  *)
(* and newlib's locks.  One of the three is at work in a behaviour.        *)
(* Three threads per static: one initializes, one waits, one takes over.   *)
(***************************************************************************)
EXTENDS StaticInit

CONSTANTS Users, Addresses, MaxCount, Startup, LibcThreads, MaxLocks

\* What stands for nobody, or for no object, is not a thread or an address, and startup
\* code is not a thread.
ASSUME FirstUseAssumption ==
  /\ None \notin Threads /\ 0 \notin Users
  /\ Addresses \subseteq Nat \ {0} /\ MaxCount \in Nat
  /\ "none" \notin LibcThreads /\ Startup \notin LibcThreads

VARIABLES
  component,
  kind, alive, implementation, initial_count, native, initialization_mutex, use, tokens,
  phase, libc_locks_ready, dynamic_locks, dynamic_pool_mutex, held, handles, libc_call,
  libc_failure, next_step, objects, runtime_initialized

Native == INSTANCE NativeObjects
Boot == INSTANCE RuntimeStartup WITH initialized <- runtime_initialized

nativeVars == <<kind, alive, implementation, initial_count, native, initialization_mutex, use,
                tokens>>
bootVars == <<phase, libc_locks_ready, dynamic_locks, dynamic_pool_mutex, held, handles,
              libc_call, libc_failure, next_step, objects, runtime_initialized>>
MCvars == <<component, vars, nativeVars, bootVars>>

MCInit ==
  /\ component \in {"statics", "native", "boot"}
  /\ Init /\ Native!Init /\ Boot!Init
  /\ component # "native" => kind = "mutex"

MCNext ==
  \/ component = "statics" /\ Next /\ UNCHANGED <<component, nativeVars, bootVars>>
  \/ component = "native" /\ Native!Next /\ UNCHANGED <<component, vars, bootVars>>
  \/ component = "boot" /\ Boot!Next /\ UNCHANGED <<component, vars, nativeVars>>

MCSpec == MCInit /\ [][MCNext]_MCvars /\ Fairness

OneObjectPerHandle == Native!OneObjectPerHandle
LocksWork == Boot!LocksWork
RuntimeIsWhole == Boot!RuntimeIsWhole
=============================================================================

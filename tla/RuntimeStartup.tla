--------------------------- MODULE RuntimeStartup ---------------------------
(***************************************************************************)
(* From the global constructors to the application's main                  *)
(* (platform/runtime/startup.cpp, the hooks in tx_user.h, and initialize   *)
(* in platform/runtime/libstdcxx/backend.cpp), over newlib's locks, which  *)
(* are made and used throughout.                                           *)
(***************************************************************************)
EXTENDS LibcLocks

VARIABLES
  next_step,   \* what startup code does next
  objects,     \* the ThreadX objects of the runtime that exist
  initialized  \* detail::initialized

startupVars == <<next_step, objects, initialized>>
vars == <<libcVars, startupVars>>

\* What initialize creates, in its order.
Creations == <<"initialization_mutex", "cxx_guard_mutex", "cleanup_queue", "rollover_timer",
               "reaper_thread">>

AtStartup(step) == InUser(Startup) /\ next_step = step

\* hal::initialize, and tx_kernel_enter with TX_INITIALIZE_KERNEL_ENTER_EXTENSION.
KernelEnter ==
  /\ AtStartup("tx_kernel_enter")
  /\ LibcInitialize
  /\ phase' = "define" /\ next_step' = "application_thread"
  /\ UNCHANGED <<objects, initialized>>

\* assert_tx_call ends in Error_Handler.
Halt ==
  /\ next_step' = "halted"
  /\ UNCHANGED <<libcVars, objects, initialized>>

\* tx_application_define: the stack error handler, the application thread, which adopts
\* the thread_local objects of startup code, and then the C++ runtime.
ApplicationDefine ==
  /\ AtStartup("application_thread")
  /\ \/ /\ objects' = objects \cup {"application_thread"}
        /\ next_step' = Creations[1]
        /\ UNCHANGED <<libcVars, initialized>>
     \/ Halt

\* Mutant: the guard's mutex is not destroyed.
RolledBack_NotGuard(n) == {Creations[i] : i \in (1 .. n - 1) \ {2}}

\* What initialize deletes when its n-th creation fails.
RolledBack(n) == {Creations[i] : i \in 1 .. n - 1}

\* One creation of initialize, of which the last ends it.
RuntimeCreate ==
  \E n \in DOMAIN Creations :
    /\ AtStartup(Creations[n])
    /\ \/ /\ objects' = objects \cup {Creations[n]}
          /\ next_step' = IF n = Len(Creations) THEN "scheduler"
                         ELSE Creations[n + 1]
          /\ initialized' = (n = Len(Creations))
       \/ /\ objects' = objects \ RolledBack(n)
          /\ next_step' = "terminate"
          /\ UNCHANGED initialized
    /\ UNCHANGED libcVars

\* tx_kernel_enter starts the scheduler.
StartThreads ==
  /\ AtStartup("scheduler")
  /\ phase' = "threads" /\ next_step' = "none"
  /\ UNCHANGED <<libc_locks_ready, poolVars, dynamic_pool_mutex, libc_call, libc_failure,
                 objects, initialized>>

-----------------------------------------------------------------------------

Init ==
  /\ LibcInit
  /\ next_step = "tx_kernel_enter" /\ objects = {} /\ initialized = FALSE

Next ==
  \/ KernelEnter \/ ApplicationDefine \/ RuntimeCreate \/ StartThreads
  \/ next_step \notin {"halted", "terminate"} /\ LibcNext /\ UNCHANGED startupVars

Spec == Init /\ [][Next]_vars

-----------------------------------------------------------------------------

\* The C++ runtime exists as a whole or not at all: threads run only with every object of
\* it there, the application thread before the reaper, and a creation that fails, whichever
\* it is, leaves nothing of the earlier ones behind.
RuntimeIsWhole ==
  LET mine == {Creations[i] : i \in DOMAIN Creations}
  IN  /\ initialized => mine \subseteq objects
      /\ phase = "threads" => initialized
      /\ next_step = "terminate" => objects \cap mine = {}
      /\ "reaper_thread" \in objects => "application_thread" \in objects

-----------------------------------------------------------------------------
(* Inductive invariant *)

\* The objects that exist follow from what startup code does next.
Made(n) == {"application_thread"} \cup {Creations[i] : i \in 1 .. n}

StartupInv ==
  /\ phase = "threads" <=> next_step = "none"
  /\ initialized <=> next_step \in {"scheduler", "none"}
  /\ \/ /\ next_step \in {"tx_kernel_enter", "application_thread", "halted"}
        /\ objects = {}
     \/ \E n \in DOMAIN Creations : next_step = Creations[n] /\ objects = Made(n - 1)
     \/ next_step \in {"scheduler", "none"} /\ objects = Made(Len(Creations))
     \/ next_step = "terminate" /\ objects = {"application_thread"}
  /\ phase = "constructors" <=> next_step = "tx_kernel_enter"

BootInv == LibcInv /\ StartupInv
=============================================================================

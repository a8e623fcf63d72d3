------------------------------ MODULE Lifecycle ------------------------------
(***************************************************************************)
(* The lifecycle every service inherits (WithLifecycle): initialization    *)
(* and cleanup once each, and the timers it arms in between, which it      *)
(* keeps a record of so that cleanup can stop them.                        *)
(*                                                                         *)
(* One service.  What its own initialize, cleanup and callbacks do is to   *)
(* arm and clear timers, at any time: nothing in the mixin keeps them from *)
(* it.  Timers are slots: one that has fired or was cleared is armed anew, *)
(* and what is left of the old one on the record is that of the new one.   *)
(***************************************************************************)
EXTENDS Naturals, FiniteSets

CONSTANTS
  Slots,          \* as many timers as may be armed at once
  MaxAttempts     \* maxAttempts of waitForCondition

ASSUME SlotAssumption == IsFiniteSet(Slots)
ASSUME AttemptAssumption == MaxAttempts \in Nat \ {0}

VARIABLES
  timer,      \* [Slots -> what is armed there]
  managed,    \* managedTimers, managedIntervals: the slots on record
  init,       \* initializationPromise
  cleanup,    \* cleanupPromise
  destroyed,  \* isDestroyed
  batching,   \* scheduled, of the one scheduler
  wait        \* [pc, attempts] of the one waitForCondition

lvars == <<timer, managed, init, cleanup, destroyed, batching, wait>>

-----------------------------------------------------------------------------
Promises == {"none", "pending", "resolved", "rejected"}

(* early: armed before cleanup began.                                      *)
Timer == [kind : {"timeout", "interval", "batch", "wait"}, early : BOOLEAN]
Off == [kind |-> "off", early |-> FALSE]

Armed == {t \in Slots : timer[t] # Off}

LifecycleInit ==
  /\ timer = [t \in Slots |-> Off]
  /\ managed = {}
  /\ init = "none" /\ cleanup = "none" /\ destroyed = FALSE
  /\ batching = FALSE
  /\ wait = [pc |-> "idle", attempts |-> 0]

Arm(t, kind) ==
  /\ timer[t] = Off
  /\ timer' = [timer EXCEPT ![t] = [kind |-> kind, early |-> cleanup = "none"]]

-----------------------------------------------------------------------------
(* onModuleInit: a second call gets the promise of the first, rejected or  *)
(* not.  The service is initialized when the promise is resolved.          *)
OnModuleInit ==
  /\ init = "none"
  /\ init' = "pending"
  /\ UNCHANGED <<timer, managed, cleanup, destroyed, batching, wait>>

InitializationEnds ==
  /\ init = "pending"
  /\ init' \in {"resolved", "rejected"}
  /\ UNCHANGED <<timer, managed, cleanup, destroyed, batching, wait>>

(* onModuleDestroy, performCleanup: what is on record is stopped before    *)
(* the service's own cleanup is called.                                    *)
OnModuleDestroy ==
  /\ cleanup = "none"
  /\ cleanup' = "pending"
  /\ timer' = [t \in Slots |-> IF t \in managed THEN Off ELSE timer[t]]
  /\ managed' = {}
  /\ UNCHANGED <<init, destroyed, batching, wait>>

(* Only a cleanup that succeeds marks the service as destroyed.            *)
CleanupEnds ==
  /\ cleanup = "pending"
  /\ cleanup' \in {"resolved", "rejected"}
  /\ destroyed' = (cleanup' = "resolved")
  /\ UNCHANGED <<timer, managed, init, batching, wait>>

-----------------------------------------------------------------------------
CreateTimeout(t) ==
  /\ Arm(t, "timeout")
  /\ managed' = managed \cup {t}
  /\ UNCHANGED <<init, cleanup, destroyed, batching, wait>>

(* Mutant: an interval is not put on record.                               *)
MutantCreateInterval(t) ==
  /\ Arm(t, "interval")
  /\ UNCHANGED <<managed, init, cleanup, destroyed, batching, wait>>

CreateInterval(t) ==
  /\ Arm(t, "interval")
  /\ managed' = managed \cup {t}
  /\ UNCHANGED <<init, cleanup, destroyed, batching, wait>>

(* What createEventDrivenScheduler returns: a call while a batch is        *)
(* scheduled is one of the batch.                                          *)
ScheduleBatch(t) ==
  /\ ~batching
  /\ batching' = TRUE
  /\ Arm(t, "batch")
  /\ managed' = managed \cup {t}
  /\ UNCHANGED <<init, cleanup, destroyed, wait>>

(* clearTimer, clearInterval.                                              *)
ClearTimer(t) ==
  /\ timer[t].kind \in {"timeout", "interval"}
  /\ timer' = [timer EXCEPT ![t] = Off]
  /\ managed' = managed \ {t}
  /\ UNCHANGED <<init, cleanup, destroyed, batching, wait>>

(* A timeout takes itself off the record; a batch and a wait stay on it    *)
(* until cleanup.  An interval stays armed.  The callback of a batch is    *)
(* not called when the service is destroyed.                               *)
TimerFires(t) ==
  /\ t \in Armed
  /\ LET kind == timer[t].kind
     IN  /\ timer' = IF kind = "interval" THEN timer
                                          ELSE [timer EXCEPT ![t] = Off]
         /\ managed' = IF kind = "timeout" THEN managed \ {t} ELSE managed
         /\ batching' = (batching /\ kind # "batch")
         /\ wait' = IF kind = "wait"
                      THEN [pc |-> "looping", attempts |-> wait.attempts + 1]
                      ELSE wait
  /\ UNCHANGED <<init, cleanup, destroyed>>

-----------------------------------------------------------------------------
(* waitForCondition; looping: about to make the next attempt, asking: the  *)
(* condition is awaited.                                                   *)

WaitForCondition ==
  /\ wait.pc = "idle"
  /\ wait' = [pc |-> "looping", attempts |-> 0]
  /\ UNCHANGED <<timer, managed, init, cleanup, destroyed, batching>>

(* It gives up on a service that is destroyed, after the attempts, or when *)
(* the timeout is over, which is free.                                     *)
NextAttempt ==
  /\ wait.pc = "looping"
  /\ \/ wait' = [pc |-> "idle", attempts |-> 0]
     \/ /\ ~destroyed /\ wait.attempts < MaxAttempts
        /\ wait' = [wait EXCEPT !.pc = "asking"]
  /\ UNCHANGED <<timer, managed, init, cleanup, destroyed, batching>>

(* The condition holds; or it does not, or throws, and the wait goes to    *)
(* sleep whether or not the service was cleaned up meanwhile.              *)
ConditionAnswers ==
  /\ wait.pc = "asking"
  /\ \/ /\ wait' = [pc |-> "idle", attempts |-> 0]
        /\ UNCHANGED <<timer, managed>>
     \/ /\ wait' = [wait EXCEPT !.pc = "sleeping"]
        /\ \E t \in Slots : Arm(t, "wait") /\ managed' = managed \cup {t}
  /\ UNCHANGED <<init, cleanup, destroyed, batching>>

-----------------------------------------------------------------------------
LifecycleNext ==
  \/ OnModuleInit
  \/ InitializationEnds
  \/ OnModuleDestroy
  \/ CleanupEnds
  \/ \E t \in Slots : CreateTimeout(t)
  \/ \E t \in Slots : CreateInterval(t)
  \/ \E t \in Slots : ScheduleBatch(t)
  \/ \E t \in Slots : ClearTimer(t)
  \/ \E t \in Slots : TimerFires(t)
  \/ WaitForCondition
  \/ NextAttempt
  \/ ConditionAnswers

LifecycleSpec == LifecycleInit /\ [][LifecycleNext]_lvars

-----------------------------------------------------------------------------
(* Everything stays within its type.                                       *)
LifecycleTypeOK ==
  /\ timer \in [Slots -> Timer \cup {Off}]
  /\ managed \subseteq Slots
  /\ init \in Promises /\ cleanup \in Promises
  /\ destroyed \in BOOLEAN /\ batching \in BOOLEAN
  /\ wait \in [pc : {"idle", "looping", "asking", "sleeping"},
               attempts : Nat]

(* Once cleanup has begun no timer armed before it fires any more, of      *)
(* whatever kind and however often it was set anew or cleared: each path   *)
(* that arms one leaves it on the record until it has fired.  What an      *)
(* initialization, a callback or a wait that outlives cleanup arms later   *)
(* is on no record that is ever looked at again (performCleanup).          *)
QuietAfterCleanup ==
  cleanup # "none" => \A t \in Armed : ~timer[t].early
=============================================================================

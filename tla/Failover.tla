------------------------------ MODULE Failover ------------------------------
(***************************************************************************)
(* Failover of data sources: the groups of FailoverManager (one per feed,  *)
(* all of the same primary and backup sources) and its count of failures   *)
(* and successes per source, together with ConnectionRecoveryService,      *)
(* which hears of the same connection changes before it does and asks it   *)
(* for a failover at the first loss.                                       *)
(*                                                                         *)
(* What runs between two awaits of a failover goes before every other task *)
(* (Settled); the only await that takes time is the subscription of a      *)
(* backup.  Cooldowns end at any time, and whether enough time has passed  *)
(* since the last failure is free.  Lists are sets: a source that is       *)
(* listed twice is removed as one.                                         *)
(***************************************************************************)
EXTENDS Naturals

CONSTANTS
  Feeds,
  Primaries,          \* getPrimarySourcesForFeed
  Backups,            \* getBackupSourcesForFeed
  UnhealthyThreshold, \* failoverConfig.failureThreshold
  RecoveryThreshold,
  MaxFailures,        \* bound of the count of failures
  MaxSuccesses,       \* bound of the count of successes before the next one
  NoSource            \* no subscription is awaited

ASSUME SourceAssumption ==
  /\ Primaries \cap Backups = {}
  /\ NoSource \notin Primaries \cup Backups
ASSUME CountAssumption ==
  /\ {UnhealthyThreshold, RecoveryThreshold, MaxFailures} \subseteq Nat \ {0}
  /\ MaxSuccesses \in Nat
  /\ UnhealthyThreshold <= MaxFailures /\ RecoveryThreshold <= MaxSuccesses + 1

Sources == Primaries \cup Backups

VARIABLES
  source,      \* [Sources -> registered?, connected, as FailoverManager counts]
  group,       \* [Feeds -> configured?, activeSources, failedSources, cooling]
  cooling,     \* the sources within sourceFailoverCooldowns
  failover,    \* [Sources -> its failover under way]
  subscribed,  \* the feeds a backup's data source tracks
  leaving,     \* unsubscriptions under way
  checkDue     \* a health check is scheduled

fvars == <<source, group, cooling, failover, subscribed, leaving, checkDue>>

-----------------------------------------------------------------------------
Most(a, b) == IF a < b THEN b ELSE a
Least(a, b) == IF a < b THEN a ELSE b

(* Bounds: a count stays at its limit.  Twice the threshold of recovery    *)
(* for the former, and one less for the latter, lose nothing.              *)
MoreFailures(n) == Least(n + 1, MaxFailures)
MoreSuccesses(n) == Least(n + 1, MaxSuccesses)

Source == [registered : BOOLEAN, connected : BOOLEAN,
           healthy : BOOLEAN, failures : 0 .. MaxFailures,
           successes : 0 .. MaxSuccesses]

Group == [configured : BOOLEAN, active : SUBSET Sources,
          failed : SUBSET Sources, cooling : BOOLEAN]

(* feed: the group whose backups are being activated, if any; todo: the    *)
(* groups after it.                                                        *)
Step == [running : BOOLEAN, todo : SUBSET Feeds,
         feed : {{}} \cup {{f} : f \in Feeds},
         backups : SUBSET Backups, awaiting : Backups \cup {NoSource}]

Idle == [running |-> FALSE, todo |-> {}, feed |-> {}, backups |-> {},
         awaiting |-> NoSource]

Fresh == [registered |-> TRUE, connected |-> FALSE, healthy |-> TRUE,
          failures |-> 0, successes |-> 0]

Registered(s) == source[s].registered

(* isHealthy and isConnected, of a source that is known.                   *)
Healthy(s) == Registered(s) /\ source[s].healthy /\ source[s].connected

(* unregisterDataSource removes a source from the groups' lists.           *)
PrimariesLeft == {p \in Primaries : Registered(p)}
BackupsLeft == {b \in Backups : Registered(b)}

Settled == \A s \in Sources : ~failover[s].running

(* registerDataSource: all, before the feeds are configured.               *)
FailoverInit ==
  /\ source = [s \in Sources |-> Fresh]
  /\ group = [f \in Feeds |-> [configured |-> FALSE, active |-> {},
                               failed |-> {}, cooling |-> FALSE]]
  /\ cooling = {}
  /\ failover = [s \in Sources |-> Idle]
  /\ subscribed = {}
  /\ leaving = {}
  /\ checkDue = TRUE

(* configureFailoverGroup: all primaries are active.                       *)
NewGroup == [configured |-> TRUE, active |-> Primaries, failed |-> {},
             cooling |-> FALSE]

(* configureFeedSources, once for each feed.                               *)
Configure(f) ==
  /\ Settled
  /\ ~group[f].configured
  /\ group' = [group EXCEPT ![f] = NewGroup]
  /\ UNCHANGED <<source, cooling, failover, subscribed, leaving, checkDue>>

(* unregisterDataSource of FailoverManager takes the source from all lists.*)
Without(g, s) == [g EXCEPT !.active = @ \ {s}, !.failed = @ \ {s}]

(* unregisterDataSource: at shutdown, of the sources that are connected.   *)
Unregister(s) ==
  /\ Settled
  /\ Registered(s) /\ source[s].connected
  /\ source' = [source EXCEPT ![s] = [Fresh EXCEPT !.registered = FALSE]]
  /\ group' = [f \in Feeds |-> Without(group[f], s)]
  /\ UNCHANGED <<cooling, failover, subscribed, leaving, checkDue>>

-----------------------------------------------------------------------------
(* triggerFailover, performFailover.                                       *)

Affected(s) == {f \in Feeds : group[f].configured
                                /\ s \in group[f].active \cup Primaries}

(* For the sources of a set.  Bound: the failover before has ended.        *)
Trigger(failing) ==
  LET starting == failing \ cooling
  IN  /\ \A s \in starting : failover[s] = Idle
      /\ cooling' = cooling \cup starting
      /\ failover' = [s \in Sources |->
                        IF s \in starting /\ Affected(s) # {}
                        THEN [Idle EXCEPT !.running = TRUE, !.todo = Affected(s)]
                        ELSE failover[s]]

(* Mutant: the failed source is dropped only if no primary is left.        *)
MutantMoved(g, s) ==
  [g EXCEPT !.cooling = TRUE, !.active = @ \ {s}]

(* performGroupFailover moves the source from active to failed.            *)
Moved(g, s) ==
  [g EXCEPT !.cooling = TRUE, !.active = @ \ {s}, !.failed = @ \cup {s}]

(* Healthy sources of a list that have not failed.                         *)
Usable(list, g) == {s \in list : Healthy(s)} \ g.failed

(* performGroupFailover up to the backups.                                 *)
GroupFailover(s, f) ==
  /\ failover[s].running /\ failover[s].feed = {} /\ f \in failover[s].todo
  /\ LET moved == Moved(group[f], s)
         primaries == Usable(PrimariesLeft, moved)
         backups == Usable(BackupsLeft, moved)
     IN  \/ /\ group[f].cooling
            /\ failover' = [failover EXCEPT ![s].todo = @ \ {f}]
            /\ UNCHANGED group
         \/ /\ ~group[f].cooling /\ (primaries # {} \/ backups = {})
            /\ group' = [group EXCEPT
                           ![f] = [moved EXCEPT !.active = @ \cup primaries]]
            /\ failover' = [failover EXCEPT ![s].todo = @ \ {f}]
         \/ /\ ~group[f].cooling /\ primaries = {} /\ backups # {}
            /\ group' = [group EXCEPT ![f] = moved]
            /\ failover' = [failover EXCEPT ![s].todo = @ \ {f},
                              ![s].feed = {f}, ![s].backups = backups]
  /\ UNCHANGED <<source, cooling, subscribed, leaving, checkDue>>

(* subscribe of the data source throws if the adapter is not connected or  *)
(* cannot; unsubscribe may fail, too.                                      *)
Tracked(b, f) ==
  \/ UNCHANGED subscribed
  \/ source[b].connected /\ subscribed' = subscribed \cup {<<b, f>>}

Untracked(b, f) == subscribed' \in {subscribed, subscribed \ {<<b, f>>}}

(* The loop over the backups chosen.                                       *)
ActivateBackup(s, f, b) ==
  /\ failover[s].running /\ failover[s].feed = {f} /\ b \in failover[s].backups
  /\ \/ /\ b \in group[f].active \/ ~Registered(b) \/ <<b, f>> \in subscribed
        /\ failover' = [failover EXCEPT ![s].backups = @ \ {b}]
        /\ group' = IF Registered(b)
                    THEN [group EXCEPT ![f].active = @ \cup {b}] ELSE group
     \/ /\ b \notin group[f].active /\ Registered(b) /\ <<b, f>> \notin subscribed
        /\ failover' = [failover EXCEPT ![s].backups = @ \ {b},
                          ![s].awaiting = b, ![s].running = FALSE]
        /\ UNCHANGED group
  /\ UNCHANGED <<source, cooling, subscribed, leaving, checkDue>>

(* The subscription was sent, or its attempts have run out: the backup is  *)
(* made active in either case.                                             *)
SubscriptionEnds(s, f) ==
  LET b == failover[s].awaiting
  IN  /\ Settled
      /\ b # NoSource /\ failover[s].feed = {f}
      /\ Tracked(b, f)
      /\ group' = [group EXCEPT ![f].active = @ \cup {b}]
      /\ failover' = [failover EXCEPT ![s].awaiting = NoSource,
                                      ![s].running = TRUE]
      /\ UNCHANGED <<source, cooling, leaving, checkDue>>

(* The next group, or the end.                                             *)
GroupDone(s) ==
  /\ failover[s].running /\ failover[s].backups = {}
  /\ \/ failover[s].feed # {}
     \/ failover[s].todo = {}
  /\ failover' = [failover EXCEPT ![s].feed = {},
                                  ![s].running = failover[s].todo # {}]
  /\ UNCHANGED <<source, group, cooling, subscribed, leaving, checkDue>>

-----------------------------------------------------------------------------
(* Connection changes: ConnectionRecoveryService, then FailoverManager.    *)

Failing(h) == [h EXCEPT !.failures = MoreFailures(@), !.successes = 0]

(* quiet: the last failure is long ago.                                    *)
Unhealthy(h, quiet) ==
  h.healthy /\ quiet /\ Failing(h).failures >= UnhealthyThreshold

AfterFailure(h, quiet) ==
  [Failing(h) EXCEPT !.healthy = @ /\ ~Unhealthy(h, quiet)]

(* handleConnectionChange of both: the former asks for a failover if the   *)
(* source was connected, the latter after some failures.                   *)
Lost(s, quiet) ==
  /\ Settled
  /\ Registered(s)
  /\ source' = [source EXCEPT
       ![s] = [AfterFailure(@, quiet) EXCEPT !.connected = FALSE]]
  /\ Trigger(IF source[s].connected \/ Unhealthy(source[s], quiet)
             THEN {s} ELSE {})
  /\ UNCHANGED <<group, subscribed, leaving, checkDue>>

Required(h) == Most(RecoveryThreshold, Least(h.failures, 2 * RecoveryThreshold))

Recovers(h) == h.successes + 1 >= Required(h)

(* handleSourceRecovery, of a group.                                       *)
Restored(g, s) ==
  IF s \notin g.failed THEN g
  ELSE IF s \in Primaries
       THEN [g EXCEPT !.failed = @ \ {s},
                      !.active = (@ \cup {s}) \ BackupsLeft]
       ELSE [g EXCEPT !.failed = @ \ {s}]

(* The backups a recovery of s sends away.                                 *)
Released(s) ==
  UNION {(BackupsLeft \cap group[f].active) \X {f} :
           f \in {g \in Feeds : s \in group[g].failed \cap Primaries}}

Connected(s) ==
  /\ Settled
  /\ Registered(s)
  /\ LET h == source[s]
         recovered == Recovers(h) /\ ~h.healthy
     IN  /\ source' = [source EXCEPT
              ![s] = [h EXCEPT !.connected = TRUE, !.successes = MoreSuccesses(@),
                        !.failures = IF Recovers(h) THEN 0 ELSE @,
                        !.healthy = @ \/ Recovers(h)]]
         /\ group' = IF recovered
                     THEN [f \in Feeds |-> Restored(group[f], s)] ELSE group
         /\ leaving' = IF recovered
                       THEN leaving \cup Released(s)
                       ELSE leaving
         /\ checkDue' = \/ checkDue
                        \/ /\ recovered
                           /\ \E f \in Feeds : s \in group[f].failed \cap Primaries
  /\ UNCHANGED <<cooling, failover, subscribed>>

(* unsubscribe of a released backup: done, or given up after its retries.  *)
UnsubscriptionEnds(b, f) ==
  /\ Settled
  /\ <<b, f>> \in leaving
  /\ leaving' = leaving \ {<<b, f>>}
  /\ Untracked(b, f)
  /\ UNCHANGED <<source, group, cooling, failover, checkDue>>

(* performHealthChecks: a source that is found disconnected counts as one  *)
(* more failure.                                                           *)
PerformHealthChecks(quiet) ==
  /\ Settled
  /\ checkDue
  /\ checkDue' = FALSE
  /\ LET down == {s \in Sources : Registered(s) /\ source[s].healthy
                                   /\ ~source[s].connected}
         back == {s \in Sources : Registered(s) /\ ~source[s].healthy
                                   /\ source[s].connected}
     IN  /\ source' = [s \in Sources |->
              IF s \in down THEN AfterFailure(source[s], quiet)
              ELSE IF s \in back
                   THEN [source[s] EXCEPT !.successes = MoreSuccesses(@)]
                   ELSE source[s]]
         /\ Trigger({s \in down : Unhealthy(source[s], quiet)})
  /\ UNCHANGED <<group, subscribed, leaving>>

SourceCooldownEnds(s) ==
  /\ Settled
  /\ s \in cooling
  /\ cooling' = cooling \ {s}
  /\ UNCHANGED <<source, group, failover, subscribed, leaving, checkDue>>

GroupCooldownEnds(f) ==
  /\ Settled
  /\ group[f].cooling
  /\ group' = [group EXCEPT ![f].cooling = FALSE]
  /\ UNCHANGED <<source, cooling, failover, subscribed, leaving, checkDue>>

-----------------------------------------------------------------------------
FailoverStep(s) ==
  \/ \E f \in Feeds : GroupFailover(s, f)
  \/ \E f \in Feeds, b \in Backups : ActivateBackup(s, f, b)
  \/ \E f \in Feeds : SubscriptionEnds(s, f)
  \/ GroupDone(s)

FailoverNext ==
  \/ \E f \in Feeds : Configure(f) \/ GroupCooldownEnds(f)
  \/ \E s \in Sources :
       \/ Unregister(s)
       \/ FailoverStep(s)
       \/ \E quiet \in BOOLEAN : Lost(s, quiet)
       \/ Connected(s)
       \/ SourceCooldownEnds(s)
  \/ \E b \in Backups, f \in Feeds : UnsubscriptionEnds(b, f)
  \/ \E quiet \in BOOLEAN : PerformHealthChecks(quiet)

FailoverSpec == FailoverInit /\ [][FailoverNext]_fvars

(* What a failover does between its awaits is the event loop's to do; a    *)
(* subscription is bounded by its attempts, and its end stays due while    *)
(* other tasks go first.  Timers fire.                                     *)
FailoverFairness ==
  /\ \A s \in Sources :
       /\ WF_fvars(FailoverStep(s))
       /\ SF_fvars(\E f \in Feeds : SubscriptionEnds(s, f))
  /\ SF_fvars(\E quiet \in BOOLEAN : PerformHealthChecks(quiet))

FailoverFairSpec == FailoverSpec /\ FailoverFairness

-----------------------------------------------------------------------------
(* Health, groups and failovers are of their types; a failover is at one   *)
(* group at a time, and awaits a backup only there.                        *)
FailoverTypeOK ==
  /\ source \in [Sources -> Source]
  /\ group \in [Feeds -> Group]
  /\ cooling \in SUBSET Sources
  /\ failover \in [Sources -> Step]
  /\ \A s \in Sources :
       failover[s].awaiting # NoSource
         => failover[s].feed # {} /\ ~failover[s].running
  /\ subscribed \in SUBSET (Backups \X Feeds)
  /\ leaving \in SUBSET (Backups \X Feeds)
  /\ checkDue \in BOOLEAN

(* Whatever fails, recovers and overlaps, every primary of a group is      *)
(* either used or known as failed: none falls out of both lists, from      *)
(* where nothing would bring it back (performGroupFailover,                *)
(* handleSourceRecovery).                                                  *)
NoPrimaryIsForgotten ==
  \A f \in Feeds, p \in Primaries :
    group[f].configured /\ Registered(p)
      => (p \in group[f].active) # (p \in group[f].failed)

-----------------------------------------------------------------------------
(* What a comment says, and the code does not do.                          *)

(* "Mark this source as failed to prevent repeated attempts" (284): a      *)
(* backup that could not be subscribed is a failed source of its group.    *)
(* The wait for the subscription answers false then, and throws nothing.   *)
FailedActivationsAreMarked ==
  [][\A s \in Sources, f \in Feeds, b \in Backups :
       (/\ failover[s].awaiting = b /\ failover[s].feed = {f}
        /\ failover'[s].awaiting = NoSource
        /\ <<b, f>> \notin subscribed')
         => b \in group'[f].failed]_fvars
=============================================================================

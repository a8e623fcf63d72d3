--------------------------- MODULE FailoverProofs ---------------------------
(***************************************************************************)
(* The safety properties of Failover, for every set of feeds and sources   *)
(* and every threshold, of Lifecycle, for any number of timers, and of     *)
(* Subscriptions, for every set of pairs and any number of calls.          *)
(***************************************************************************)
EXTENDS Failover, Subscriptions, Lifecycle, TLAPS

(* The bounded counts of a source stay in their ranges.                    *)
LEMMA CountFacts ==
  /\ \A n \in 0 .. MaxFailures : MoreFailures(n) \in 0 .. MaxFailures
  /\ \A n \in 0 .. MaxSuccesses : MoreSuccesses(n) \in 0 .. MaxSuccesses
  /\ 0 \in 0 .. MaxFailures /\ 0 \in 0 .. MaxSuccesses
BY CountAssumption DEF MoreFailures, MoreSuccesses, Least

LEMMA AfterFailureType ==
  ASSUME NEW h \in Source, NEW quiet \in BOOLEAN
  PROVE  AfterFailure(h, quiet) \in Source
BY CountFacts DEF AfterFailure, Unhealthy, Failing, Source

(* Starting a failover touches no group.                                   *)
LEMMA TriggerType ==
  ASSUME FailoverTypeOK, NEW failing \in SUBSET Sources, Trigger(failing)
  PROVE  /\ cooling' \in SUBSET Sources
         /\ failover' \in [Sources -> Step]
         /\ \A s \in Sources : failover'[s].awaiting # NoSource
              => failover'[s].feed # {} /\ ~failover'[s].running
<1>1. \A s \in Sources : Affected(s) \in SUBSET Feeds
  BY DEF Affected
<1>2. \A s \in Sources : [Idle EXCEPT !.running = TRUE, !.todo = Affected(s)] \in Step
  BY <1>1 DEF Idle, Step
<1>3. \A s \in Sources : [Idle EXCEPT !.running = TRUE, !.todo = Affected(s)].awaiting = NoSource
  BY DEF Idle
<1>4. cooling' \in SUBSET Sources
  BY DEF FailoverTypeOK, Trigger
<1>5. \A s \in Sources : \/ failover'[s] = failover[s]
                         \/ failover'[s] = [Idle EXCEPT !.running = TRUE, !.todo = Affected(s)]
  BY DEF Trigger
<1>6. failover' = [s \in Sources |-> failover'[s]]
  BY DEF Trigger
<1>7. \A s \in Sources : failover'[s] \in Step
  BY <1>2, <1>5 DEF FailoverTypeOK
<1>8. failover' \in [Sources -> Step]
  <2> DEFINE new == failover'
  <2> HIDE DEF new
  <2>1. new = [s \in Sources |-> new[s]] /\ \A s \in Sources : new[s] \in Step
    BY <1>6, <1>7 DEF new
  <2>2. new \in [Sources -> Step]
    BY <2>1
  <2> QED
    BY <2>2 DEF new
<1>9. \A s \in Sources : failover'[s].awaiting # NoSource
              => failover'[s].feed # {} /\ ~failover'[s].running
  BY <1>3, <1>5 DEF FailoverTypeOK
<1> QED
  BY <1>4, <1>8, <1>9

(* What a move or a restoration makes of a group is a group.               *)
LEMMA GroupType ==
  ASSUME NEW g \in Group, NEW s \in Sources
  PROVE  /\ Moved(g, s) \in Group
         /\ Restored(g, s) \in Group
BY DEF Moved, Restored, Group

-----------------------------------------------------------------------------
LEMMA InitType == FailoverInit => FailoverTypeOK
<1> SUFFICES ASSUME FailoverInit PROVE FailoverTypeOK
  OBVIOUS
<1>1. Fresh \in Source
  BY CountFacts DEF Fresh, Source
<1>2. Idle \in Step
  BY DEF Idle, Step
<1> QED
  BY <1>1, <1>2 DEF FailoverInit, FailoverTypeOK, Group, Idle

LEMMA StepType == FailoverTypeOK /\ [FailoverNext]_fvars => FailoverTypeOK'
<1> SUFFICES ASSUME FailoverTypeOK, [FailoverNext]_fvars PROVE FailoverTypeOK'
  OBVIOUS
<1> USE DEF FailoverTypeOK
<1>1. ASSUME NEW f \in Feeds, Configure(f) PROVE FailoverTypeOK'
  BY <1>1 DEF Configure, NewGroup, Group, Sources
<1>2. ASSUME NEW f \in Feeds, GroupCooldownEnds(f) PROVE FailoverTypeOK'
  BY <1>2 DEF GroupCooldownEnds, Group
<1>3. ASSUME NEW s \in Sources, Unregister(s) PROVE FailoverTypeOK'
  <2>1. [Fresh EXCEPT !.registered = FALSE] \in Source
    BY CountFacts DEF Fresh, Source
  <2>2. \A f \in Feeds : [group[f] EXCEPT !.active = @ \ {s}, !.failed = @ \ {s}] \in Group
    BY DEF Group
  <2> QED
    BY <1>3, <2>1, <2>2 DEF Unregister, Without
<1>4. ASSUME NEW s \in Sources, NEW f \in Feeds, GroupFailover(s, f) PROVE FailoverTypeOK'
  <2> DEFINE moved == Moved(group[f], s)
             primaries == Usable(PrimariesLeft, moved)
             backups == Usable(BackupsLeft, moved)
  <2>1. moved \in Group
    BY GroupType
  <2>2. primaries \in SUBSET Sources /\ backups \in SUBSET Backups
    BY DEF Usable, PrimariesLeft, BackupsLeft, Sources
  <2>3. [moved EXCEPT !.active = @ \cup primaries] \in Group
    BY <2>1, <2>2 DEF Group
  <2>4. failover[s] \in Step /\ failover[s].running /\ failover[s].awaiting = NoSource
    BY <1>4 DEF GroupFailover
  <2> HIDE DEF moved, primaries, backups
  <2>5. /\ [failover[s] EXCEPT !.todo = @ \ {f}] \in Step
        /\ [failover[s] EXCEPT !.todo = @ \ {f}, !.feed = {f}, !.backups = backups] \in Step
    BY <2>2, <2>4 DEF Step
  <2>6. /\ [failover[s] EXCEPT !.todo = @ \ {f}].awaiting = NoSource
        /\ [failover[s] EXCEPT !.todo = @ \ {f}, !.feed = {f}, !.backups = backups].awaiting = NoSource
    BY <2>4 DEF Step
  <2>7. group' \in [Feeds -> Group]
    BY <1>4, <2>1, <2>3 DEF GroupFailover, moved, primaries, backups
  <2>8. \E d \in Step : d.awaiting = NoSource /\ failover' = [failover EXCEPT ![s] = d]
    BY <1>4, <2>5, <2>6 DEF GroupFailover, moved, primaries, backups
  <2>9. /\ failover' \in [Sources -> Step]
        /\ failover'[s].awaiting = NoSource
        /\ \A t \in Sources \ {s} : failover'[t] = failover[t]
    BY <2>8
  <2> QED
    BY <1>4, <2>7, <2>9 DEF GroupFailover
<1>5. ASSUME NEW s \in Sources, NEW f \in Feeds, NEW b \in Backups,
             ActivateBackup(s, f, b)
      PROVE FailoverTypeOK'
  <2>1. failover[s] \in Step /\ failover[s].running /\ failover[s].awaiting = NoSource
        /\ failover[s].feed = {f}
    BY <1>5 DEF ActivateBackup
  <2>2. [group[f] EXCEPT !.active = @ \cup {b}] \in Group
    BY DEF Group, Sources
  <2> DEFINE d == [failover[s] EXCEPT !.backups = @ \ {b}]
             a == [failover[s] EXCEPT !.backups = @ \ {b}, !.awaiting = b, !.running = FALSE]
  <2>3. /\ d \in Step /\ d.awaiting = NoSource
        /\ a \in Step /\ a.feed = {f} /\ ~a.running
    BY <2>1 DEF Step
  <2> HIDE DEF d, a
  <2>4. group' \in [Feeds -> Group]
    BY <1>5, <2>2 DEF ActivateBackup
  <2>5. \/ failover' = [failover EXCEPT ![s] = d]
        \/ failover' = [failover EXCEPT ![s] = a]
    BY <1>5 DEF ActivateBackup, d, a
  <2>6. /\ failover' \in [Sources -> Step]
        /\ failover'[s] = d \/ failover'[s] = a
        /\ \A t \in Sources \ {s} : failover'[t] = failover[t]
    BY <2>3, <2>5
  <2>7. \A t \in Sources : failover'[t].awaiting # NoSource
          => failover'[t].feed # {} /\ ~failover'[t].running
    BY <2>3, <2>6
  <2> QED
    BY <1>5, <2>4, <2>6, <2>7 DEF ActivateBackup
<1>6. ASSUME NEW s \in Sources, NEW f \in Feeds, SubscriptionEnds(s, f) PROVE FailoverTypeOK'
  <2>1. failover[s] \in Step /\ failover[s].awaiting \in Backups
    BY <1>6 DEF SubscriptionEnds, Tracked, Step
  <2>2. [group[f] EXCEPT !.active = @ \cup {failover[s].awaiting}] \in Group
    BY <2>1 DEF Group, Sources
  <2> DEFINE d == [failover[s] EXCEPT !.awaiting = NoSource, !.running = TRUE]
  <2>3. d \in Step /\ d.awaiting = NoSource
    BY <2>1 DEF Step
  <2> HIDE DEF d
  <2>4. /\ group' \in [Feeds -> Group]
        /\ failover' \in [Sources -> Step]
        /\ failover'[s] = d
        /\ \A t \in Sources \ {s} : failover'[t] = failover[t]
        /\ subscribed' \in SUBSET (Backups \X Feeds)
    BY <1>6, <2>1, <2>2, <2>3 DEF SubscriptionEnds, Tracked, d
  <2> QED
    BY <1>6, <2>3, <2>4 DEF SubscriptionEnds, Tracked
<1>7. ASSUME NEW s \in Sources, GroupDone(s) PROVE FailoverTypeOK'
  <2> DEFINE d == [failover[s] EXCEPT !.feed = {}, !.running = failover[s].todo # {}]
  <2>1. failover[s] \in Step /\ failover[s].running /\ failover[s].awaiting = NoSource
    BY <1>7 DEF GroupDone
  <2>2. d \in Step /\ d.awaiting = NoSource
    BY <2>1 DEF Step
  <2> HIDE DEF d
  <2>3. /\ failover' \in [Sources -> Step]
        /\ failover'[s] = d
        /\ \A t \in Sources \ {s} : failover'[t] = failover[t]
    BY <1>7, <2>2 DEF GroupDone, d
  <2> QED
    BY <1>7, <2>2, <2>3 DEF GroupDone
<1>8. ASSUME NEW s \in Sources, NEW quiet \in BOOLEAN, Lost(s, quiet) PROVE FailoverTypeOK'
  <2>1. AfterFailure(source[s], quiet) \in Source
    BY AfterFailureType
  <2>2. [AfterFailure(source[s], quiet) EXCEPT !.connected = FALSE] \in Source
    BY <2>1 DEF Source
  <2>3. source' \in [Sources -> Source]
    BY <1>8, <2>2 DEF Lost
  <2>4. \E failing \in SUBSET Sources : Trigger(failing)
    BY <1>8 DEF Lost
  <2> QED
    BY <1>8, <2>3, <2>4, TriggerType DEF Lost
<1>9. ASSUME NEW s \in Sources, Connected(s) PROVE FailoverTypeOK'
  <2>1. source[s] \in Source
    OBVIOUS
  <2>2. [source[s] EXCEPT !.connected = TRUE, !.successes = MoreSuccesses(@),
           !.failures = IF Recovers(source[s]) THEN 0 ELSE @,
           !.healthy = @ \/ Recovers(source[s])] \in Source
    BY <2>1, CountFacts DEF Source
  <2>3. source' \in [Sources -> Source]
    BY <1>9, <2>2 DEF Connected
  <2>4. group' \in [Feeds -> Group]
    <3>1. \/ group' = group
          \/ group' = [f \in Feeds |-> Restored(group[f], s)]
      BY <1>9 DEF Connected
    <3>2. \A f \in Feeds : Restored(group[f], s) \in Group
      BY GroupType
    <3> QED
      BY <3>1, <3>2
  <2>5. Released(s) \in SUBSET (Backups \X Feeds)
    BY DEF Released, BackupsLeft
  <2>6. leaving' \in SUBSET (Backups \X Feeds)
    BY <1>9, <2>5 DEF Connected
  <2>7. checkDue' \in BOOLEAN
    BY <1>9 DEF Connected
  <2> QED
    BY <1>9, <2>3, <2>4, <2>6, <2>7 DEF Connected
<1>10. ASSUME NEW s \in Sources, SourceCooldownEnds(s) PROVE FailoverTypeOK'
  BY <1>10 DEF SourceCooldownEnds
<1>11. ASSUME NEW b \in Backups, NEW f \in Feeds, UnsubscriptionEnds(b, f) PROVE FailoverTypeOK'
  BY <1>11 DEF UnsubscriptionEnds, Untracked
<1>12. ASSUME NEW quiet \in BOOLEAN, PerformHealthChecks(quiet) PROVE FailoverTypeOK'
  <2>1. \A s \in Sources : AfterFailure(source[s], quiet) \in Source
    BY AfterFailureType
  <2>2. \A s \in Sources : [source[s] EXCEPT !.successes = MoreSuccesses(@)] \in Source
    BY CountFacts DEF Source
  <2>3. source' \in [Sources -> Source]
    BY <1>12, <2>1, <2>2 DEF PerformHealthChecks
  <2>4. \E failing \in SUBSET Sources : Trigger(failing)
    BY <1>12 DEF PerformHealthChecks
  <2> QED
    BY <1>12, <2>3, <2>4, TriggerType DEF PerformHealthChecks
<1>13. CASE UNCHANGED fvars
  BY <1>13 DEF fvars
<1> QED
  BY <1>1, <1>2, <1>3, <1>4, <1>5, <1>6, <1>7, <1>8, <1>9, <1>10, <1>11, <1>12,
     <1>13 DEF FailoverNext, FailoverStep

(* The health of sources, the groups and the failovers keep their types in *)
(* every handler of FailoverManager and ConnectionRecoveryService.         *)
THEOREM TypeCorrect == FailoverSpec => []FailoverTypeOK
<1>1. FailoverInit => FailoverTypeOK
  BY InitType
<1>2. FailoverTypeOK /\ [FailoverNext]_fvars => FailoverTypeOK'
  BY StepType
<1> QED
  BY <1>1, <1>2, PTL DEF FailoverSpec

-----------------------------------------------------------------------------
(* A primary is on one list of g and only one.                             *)
Listed(g, p) == (p \in g.active) # (p \in g.failed)

LEMMA MovedKeeps ==
  ASSUME NEW g \in Group, NEW s \in Sources, NEW p \in Primaries, Listed(g, p)
  PROVE  Listed(Moved(g, s), p)
BY DEF Listed, Moved, Group

LEMMA RestoredKeeps ==
  ASSUME NEW g \in Group, NEW s \in Sources, NEW p \in Primaries, Listed(g, p)
  PROVE  Listed(Restored(g, s), p)
<1>1. p \notin BackupsLeft
  BY SourceAssumption DEF BackupsLeft
<1> QED
  BY <1>1 DEF Listed, Restored, Group

(* Only an action that changes groups can break the property; no source is *)
(* registered again.                                                       *)
LEMMA StepKeepsPrimaries ==
  FailoverTypeOK /\ NoPrimaryIsForgotten /\ [FailoverNext]_fvars => NoPrimaryIsForgotten'
<1> SUFFICES ASSUME FailoverTypeOK, NoPrimaryIsForgotten, [FailoverNext]_fvars,
                    NEW f \in Feeds, NEW p \in Primaries,
                    group'[f].configured, source'[p].registered
             PROVE  Listed(group'[f], p)
  BY DEF NoPrimaryIsForgotten, Listed, Registered
<1>1. p \in Sources
  BY DEF Sources
<1>2. group \in [Feeds -> Group] /\ group[f] \in Group
  BY DEF FailoverTypeOK
<1>3. source \in [Sources -> Source] /\ source[p] \in Source
  BY <1>1 DEF FailoverTypeOK
<1>4. ASSUME group[f].configured, Registered(p) PROVE Listed(group[f], p)
  BY <1>4 DEF NoPrimaryIsForgotten, Listed
<1>5. ASSUME group' = group, Registered(p) PROVE Listed(group'[f], p)
  BY <1>4, <1>5
<1>6. ASSUME NEW x \in Feeds, Configure(x) PROVE Listed(group'[f], p)
  <2>1. Registered(p)
    BY <1>6 DEF Configure, NewGroup, Registered
  <2>2. CASE f = x
    BY <1>6, <1>2, <2>2 DEF Configure, NewGroup, Listed
  <2>3. CASE f # x
    BY <1>6, <1>2, <1>4, <2>1, <2>3 DEF Configure, NewGroup
  <2> QED
    BY <2>2, <2>3
<1>7. ASSUME NEW x \in Feeds, GroupCooldownEnds(x) PROVE Listed(group'[f], p)
  BY <1>7, <1>2, <1>4 DEF GroupCooldownEnds, Registered, Listed, Group
<1>8. ASSUME NEW s \in Sources, Unregister(s) PROVE Listed(group'[f], p)
  <2>1. p # s /\ Registered(p)
    BY <1>8, <1>1, <1>3 DEF Unregister, Without, Registered, Fresh
  <2>2. group'[f] = [group[f] EXCEPT !.active = @ \ {s}, !.failed = @ \ {s}]
    BY <1>8 DEF Unregister, Without
  <2> QED
    BY <2>1, <2>2, <1>2, <1>4 DEF Listed, Group
<1>9. ASSUME NEW s \in Sources, NEW x \in Feeds, GroupFailover(s, x)
      PROVE Listed(group'[f], p)
  <2>1. Registered(p)
    BY <1>9 DEF GroupFailover, Registered
  <2>2. CASE f # x
    BY <1>9, <1>2, <1>4, <2>1, <2>2 DEF GroupFailover
  <2>3. CASE f = x
    <3> DEFINE moved == Moved(group[f], s)
               primaries == Usable(PrimariesLeft, moved)
    <3>1. moved \in Group /\ moved.configured = group[f].configured
      BY <1>2, GroupType DEF Moved, Group
    <3>2. group'[f] \in {group[f], moved, [moved EXCEPT !.active = @ \cup primaries]}
      BY <1>9, <1>2, <2>3 DEF GroupFailover
    <3>3. [moved EXCEPT !.active = @ \cup primaries].configured = moved.configured
      BY <3>1 DEF Group
    <3> HIDE DEF moved
    <3>4. group[f].configured
      BY <3>1, <3>2, <3>3
    <3>5. Listed(group[f], p)
      BY <1>4, <2>1, <3>4
    <3>6. Listed(moved, p)
      BY <1>2, <3>5, MovedKeeps DEF moved
    <3>7. Listed([moved EXCEPT !.active = @ \cup primaries], p)
      BY <3>1, <3>6 DEF Listed, Group, Usable
    <3> QED
      BY <3>2, <3>5, <3>6, <3>7
  <2> QED
    BY <2>2, <2>3
<1>10. ASSUME NEW s \in Sources, NEW x \in Feeds, NEW b \in Backups,
             ActivateBackup(s, x, b)
      PROVE Listed(group'[f], p)
  <2>1. Registered(p)
    BY <1>10 DEF ActivateBackup, Registered
  <2>2. p # b
    BY SourceAssumption
  <2>3. \/ group'[f] = group[f]
        \/ group'[f] = [group[f] EXCEPT !.active = @ \cup {b}]
    BY <1>10, <1>2 DEF ActivateBackup
  <2>4. group[f].configured
    BY <1>2, <2>3 DEF Group
  <2> QED
    BY <1>2, <1>4, <2>1, <2>2, <2>3, <2>4 DEF Listed, Group
<1>11. ASSUME NEW s \in Sources, NEW x \in Feeds, SubscriptionEnds(s, x)
      PROVE Listed(group'[f], p)
  <2> DEFINE b == failover[s].awaiting
  <2>1. Registered(p)
    BY <1>11 DEF SubscriptionEnds, Tracked, Registered
  <2>2. b \in Backups
    BY <1>11 DEF SubscriptionEnds, Tracked, FailoverTypeOK, Step
  <2>3. p # b
    BY <2>2, SourceAssumption
  <2>4. \/ group'[f] = group[f]
        \/ group'[f] = [group[f] EXCEPT !.active = @ \cup {b}]
    BY <1>11, <1>2 DEF SubscriptionEnds, Tracked
  <2> HIDE DEF b
  <2>5. group[f].configured
    BY <1>2, <2>4 DEF Group
  <2> QED
    BY <1>2, <1>4, <2>1, <2>3, <2>4, <2>5 DEF Listed, Group
<1>12. ASSUME NEW s \in Sources, GroupDone(s) PROVE Listed(group'[f], p)
  BY <1>12, <1>5 DEF GroupDone, Registered
<1>13. ASSUME NEW s \in Sources, NEW quiet \in BOOLEAN, Lost(s, quiet)
      PROVE Listed(group'[f], p)
  <2>1. Registered(p)
    BY <1>13, <1>1, <1>3 DEF Lost, Registered, AfterFailure, Failing, Source
  <2> QED
    BY <1>13, <1>5, <2>1 DEF Lost
<1>14. ASSUME NEW s \in Sources, Connected(s) PROVE Listed(group'[f], p)
  <2>1. Registered(p)
    BY <1>14, <1>1, <1>3 DEF Connected, Registered
  <2>2. \/ group'[f] = group[f]
        \/ group'[f] = Restored(group[f], s)
    BY <1>14 DEF Connected
  <2>3. Restored(group[f], s).configured = group[f].configured
    BY <1>2 DEF Restored, Group
  <2> QED
    BY <1>2, <1>4, <2>1, <2>2, <2>3, RestoredKeeps
<1>15. ASSUME NEW s \in Sources, SourceCooldownEnds(s) PROVE Listed(group'[f], p)
  BY <1>15, <1>5 DEF SourceCooldownEnds, Registered
<1>16. ASSUME NEW b \in Backups, NEW x \in Feeds, UnsubscriptionEnds(b, x)
       PROVE Listed(group'[f], p)
  BY <1>16, <1>5 DEF UnsubscriptionEnds, Untracked, Registered
<1>17. ASSUME NEW quiet \in BOOLEAN, PerformHealthChecks(quiet) PROVE Listed(group'[f], p)
  <2>1. source'[p].registered = source[p].registered
    BY <1>17, <1>1, <1>3 DEF PerformHealthChecks, AfterFailure, Failing, Source
  <2> QED
    BY <1>17, <1>5, <2>1 DEF PerformHealthChecks, Registered
<1>18. CASE UNCHANGED fvars
  BY <1>18, <1>5 DEF fvars, Registered
<1> QED
  BY <1>6, <1>7, <1>8, <1>9, <1>10, <1>11, <1>12, <1>13, <1>14, <1>15, <1>16, <1>17,
     <1>18 DEF FailoverNext, FailoverStep

(* However failovers, recoveries, subscriptions and shutdown overlap, a    *)
(* primary of a group is used or known as failed, and never both           *)
(* (performGroupFailover, handleSourceRecovery, unregisterDataSource).     *)
THEOREM PrimariesListedOnce == FailoverSpec => []NoPrimaryIsForgotten
<1>1. FailoverInit => NoPrimaryIsForgotten
  BY DEF FailoverInit, NoPrimaryIsForgotten
<1>2. FailoverTypeOK /\ NoPrimaryIsForgotten /\ [FailoverNext]_fvars => NoPrimaryIsForgotten'
  BY StepKeepsPrimaries
<1> QED
  BY <1>1, <1>2, TypeCorrect, PTL DEF FailoverSpec

-----------------------------------------------------------------------------
(* Lifecycle.                                                              *)

(* The state is of its type, whatever the service does with its timers.    *)
THEOREM LifecycleTypeCorrect == LifecycleSpec => []LifecycleTypeOK
<1> USE DEF LifecycleTypeOK
<1>1. LifecycleInit => LifecycleTypeOK
  <2> SUFFICES ASSUME LifecycleInit PROVE LifecycleTypeOK
    OBVIOUS
  <2>1. timer \in [Slots -> Timer \cup {Off}]
    BY DEF LifecycleInit
  <2>2. wait \in [pc : {"idle", "looping", "asking", "sleeping"},
                   attempts : Nat]
    BY DEF LifecycleInit
  <2> QED BY <2>1, <2>2 DEF LifecycleInit, Promises
<1>2. LifecycleTypeOK /\ [LifecycleNext]_lvars => LifecycleTypeOK'
  <2> SUFFICES ASSUME LifecycleTypeOK, [LifecycleNext]_lvars PROVE LifecycleTypeOK'
    OBVIOUS
  <2>1. CASE OnModuleInit
    BY <2>1 DEF OnModuleInit, Promises
  <2>2. CASE InitializationEnds
    BY <2>2 DEF InitializationEnds, Promises
  <2>3. CASE OnModuleDestroy
    BY <2>3 DEF OnModuleDestroy, Promises
  <2>4. CASE CleanupEnds
    BY <2>4 DEF CleanupEnds, Promises
  <2>5. CASE \E t \in Slots : CreateTimeout(t)
    BY <2>5 DEF CreateTimeout, Arm, Timer
  <2>6. CASE \E t \in Slots : CreateInterval(t)
    BY <2>6 DEF CreateInterval, Arm, Timer
  <2>7. CASE \E t \in Slots : ScheduleBatch(t)
    BY <2>7 DEF ScheduleBatch, Arm, Timer
  <2>8. CASE \E t \in Slots : ClearTimer(t)
    BY <2>8 DEF ClearTimer
  <2>9. CASE \E t \in Slots : TimerFires(t)
    <3>1. PICK t \in Slots : TimerFires(t)
      BY <2>9
    <3>2. timer' \in [Slots -> Timer \cup {Off}] /\ managed' \subseteq Slots
      BY <3>1 DEF TimerFires
    <3>3. batching' \in BOOLEAN
      BY <3>1 DEF TimerFires
    <3>4. UNCHANGED <<init, cleanup, destroyed>>
      BY <3>1 DEF TimerFires
    <3>5. wait' \in [pc : {"idle", "looping", "asking", "sleeping"},
                     attempts : Nat]
      BY <3>1 DEF TimerFires
    <3> QED BY <3>2, <3>3, <3>4, <3>5
  <2>10. CASE WaitForCondition
    BY <2>10 DEF WaitForCondition
  <2>11. CASE NextAttempt
    BY <2>11 DEF NextAttempt
  <2>12. CASE ConditionAnswers
    <3>1. CASE \E t \in Slots : Arm(t, "wait") /\ managed' = managed \cup {t}
      <4>1. timer' \in [Slots -> Timer \cup {Off}] /\ managed' \subseteq Slots
        BY <3>1 DEF Arm, Timer
      <4> QED BY <2>12, <4>1 DEF ConditionAnswers
    <3>2. CASE UNCHANGED <<timer, managed>>
      BY <2>12, <3>2 DEF ConditionAnswers
    <3> QED BY <2>12, <3>1, <3>2 DEF ConditionAnswers
  <2>13. CASE UNCHANGED lvars
    BY <2>13 DEF lvars
  <2> QED BY <2>1, <2>2, <2>3, <2>4, <2>5, <2>6, <2>7, <2>8, <2>9, <2>10,
             <2>11, <2>12, <2>13 DEF LifecycleNext
<1> QED BY <1>1, <1>2, PTL DEF LifecycleSpec

(* Until cleanup begins all that is armed is on record, and after it       *)
(* nothing that was armed before is left.                                  *)
OnRecord ==
  /\ cleanup = "none" => Armed \subseteq managed
  /\ QuietAfterCleanup

(* What arms a timer puts it on record, and marks it as late once cleanup  *)
(* has begun.                                                              *)
LEMMA ArmedOnRecord ==
  ASSUME LifecycleTypeOK, OnRecord, NEW t \in Slots, NEW kind, Arm(t, kind),
         managed' = managed \cup {t}, UNCHANGED cleanup
  PROVE  OnRecord'
BY DEF LifecycleTypeOK, OnRecord, QuietAfterCleanup, Armed, Arm

(* Once cleanup has begun no timer armed before it fires any more.         *)
THEOREM CleanupIsQuiet == LifecycleSpec => []QuietAfterCleanup
<1>1. LifecycleInit => OnRecord
  BY DEF LifecycleInit, OnRecord, QuietAfterCleanup, Armed
<1>2. LifecycleTypeOK /\ OnRecord /\ [LifecycleNext]_lvars => OnRecord'
  <2> SUFFICES ASSUME LifecycleTypeOK, OnRecord, [LifecycleNext]_lvars PROVE OnRecord'
    OBVIOUS
  <2> USE DEF OnRecord, QuietAfterCleanup, Armed
  <2>1. CASE OnModuleInit
    BY <2>1 DEF OnModuleInit
  <2>2. CASE InitializationEnds
    BY <2>2 DEF InitializationEnds
  <2>3. CASE OnModuleDestroy
    <3>1. Armed \subseteq managed
      BY <2>3 DEF OnModuleDestroy
    <3>2. Armed' = {}
      BY <2>3, <3>1 DEF OnModuleDestroy
    <3> QED BY <3>2
  <2>4. CASE CleanupEnds
    BY <2>4 DEF CleanupEnds
  <2>5. CASE \E t \in Slots : CreateTimeout(t)
    BY <2>5, ArmedOnRecord DEF CreateTimeout
  <2>6. CASE \E t \in Slots : CreateInterval(t)
    BY <2>6, ArmedOnRecord DEF CreateInterval
  <2>7. CASE \E t \in Slots : ScheduleBatch(t)
    BY <2>7, ArmedOnRecord DEF ScheduleBatch
  <2>8. CASE \E t \in Slots : ClearTimer(t)
    BY <2>8 DEF ClearTimer, LifecycleTypeOK
  <2>9. CASE \E t \in Slots : TimerFires(t)
    <3>1. PICK t \in Slots : TimerFires(t)
      BY <2>9
    <3>2. \A u \in Armed' : u \in Armed /\ timer'[u] = timer[u]
      BY <3>1 DEF TimerFires, LifecycleTypeOK
    <3>3. \A u \in Armed' : u \in managed => u \in managed'
      BY <3>1 DEF TimerFires, LifecycleTypeOK, Off
    <3>4. UNCHANGED cleanup
      BY <3>1 DEF TimerFires
    <3> QED BY <3>2, <3>3, <3>4
  <2>10. CASE WaitForCondition
    BY <2>10 DEF WaitForCondition
  <2>11. CASE NextAttempt
    BY <2>11 DEF NextAttempt
  <2>12. CASE ConditionAnswers
    BY <2>12, ArmedOnRecord DEF ConditionAnswers
  <2>13. CASE UNCHANGED lvars
    BY <2>13 DEF lvars
  <2> QED BY <2>1, <2>2, <2>3, <2>4, <2>5, <2>6, <2>7, <2>8, <2>9, <2>10,
             <2>11, <2>12, <2>13 DEF LifecycleNext
<1>3. OnRecord => QuietAfterCleanup
  BY DEF OnRecord
<1> QED BY LifecycleTypeCorrect, <1>1, <1>2, <1>3, PTL DEF LifecycleSpec

-----------------------------------------------------------------------------
(* Subscriptions.                                                          *)

Job == [paused : BOOLEAN, new : SUBSET Pairs, rest : SUBSET Pairs]

SubscriptionsTypeOK ==
  /\ adapter \in [exchange : Adapters, connected : BOOLEAN]
  /\ socket \in [open : BOOLEAN, asked : SUBSET Pairs, whole : BOOLEAN]
  /\ tracked \in SUBSET Pairs
  /\ job \in [Calls -> Job]

(* What a whole socket was asked for, less what calls have yet to track.   *)
Streamed ==
  /\ tracked \subseteq socket.asked
  /\ \A p \in socket.asked : p \in tracked \/ \E c \in Calls : p \in job[c].new
  /\ \A c \in Calls : job[c].new \ job[c].rest \subseteq socket.asked

SubscriptionsInv ==
  /\ SubscriptionsTypeOK
  /\ \A c \in Calls : /\ job[c].paused \/ job[c] = NoJob
                      /\ job[c].rest \subseteq job[c].new
  /\ socket.whole => socket.open
  /\ socket.whole /\ adapter.exchange # "binance" => Streamed

LEMMA SubscriptionsInitInv == SubscriptionsInit => SubscriptionsInv
<1> SUFFICES ASSUME SubscriptionsInit PROVE SubscriptionsInv
  OBVIOUS
<1>1. NoJob \in Job /\ job \in [Calls -> Job]
  BY DEF SubscriptionsInit, NoJob, Job
<1>2. SubscriptionsTypeOK
  BY <1>1 DEF SubscriptionsInit, SubscriptionsTypeOK
<1> QED
  BY <1>1, <1>2 DEF SubscriptionsInit, SubscriptionsInv, NoJob

(* A step of a call that asks for some of the rest and then tracks what is *)
(* new, if it has asked for all of it, or pauses.                          *)
LEMMA AskInv ==
  ASSUME SubscriptionsInv, UNCHANGED adapter,
         NEW c \in Calls, NEW new \in SUBSET Pairs, NEW rest \in SUBSET new,
         NEW batch \in SUBSET new,
         \/ job[c] = NoJob /\ rest = new
         \/ job[c].new = new /\ job[c].rest = rest,
         Ask(batch),
         \/ Track(c, new) /\ (adapter.exchange # "binance" /\ socket.open
                                => rest \subseteq batch)
         \/ Pause(c, new, rest \ batch)
  PROVE  SubscriptionsInv'
<1>1. NoJob \in Job /\ [paused |-> TRUE, new |-> new, rest |-> rest \ batch] \in Job
  BY DEF NoJob, Job
<1>2. socket' = [socket EXCEPT !.asked = socket'.asked]
  BY DEF Ask, SubscriptionsInv, SubscriptionsTypeOK
<1>3. /\ socket'.asked \in SUBSET Pairs /\ socket.asked \subseteq socket'.asked
      /\ socket'.open = socket.open /\ socket'.whole = socket.whole
      /\ socket.open => socket'.asked = socket.asked \cup batch
  BY DEF Ask, SubscriptionsInv, SubscriptionsTypeOK
<1>4. PICK j \in Job : /\ job' = [job EXCEPT ![c] = j]
                       /\ j.paused \/ j = NoJob
                       /\ j.rest \subseteq j.new
                       /\ tracked' \in {tracked, tracked \cup new}
  <2>1. CASE Track(c, new)
    BY <1>1, <2>1 DEF Track, NoJob
  <2>2. CASE Pause(c, new, rest \ batch)
    BY <1>1, <2>2 DEF Pause
  <2> QED
    BY <2>1, <2>2
<1>5. SubscriptionsTypeOK'
  <2>1. socket' \in [open : BOOLEAN, asked : SUBSET Pairs, whole : BOOLEAN]
    BY <1>2, <1>3 DEF SubscriptionsInv, SubscriptionsTypeOK
  <2>2. tracked' \in SUBSET Pairs /\ job' \in [Calls -> Job]
    BY <1>4 DEF SubscriptionsInv, SubscriptionsTypeOK
  <2> QED
    BY <2>1, <2>2 DEF SubscriptionsInv, SubscriptionsTypeOK
<1>6. \A d \in Calls : /\ job'[d].paused \/ job'[d] = NoJob
                       /\ job'[d].rest \subseteq job'[d].new
  BY <1>4 DEF SubscriptionsInv, SubscriptionsTypeOK
<1>7. ASSUME socket.whole, adapter.exchange # "binance" PROVE Streamed'
  <2>1. socket.open /\ Streamed /\ socket'.asked = socket.asked \cup batch
    BY <1>3, <1>7 DEF SubscriptionsInv
  <2>2. new \ rest \subseteq socket.asked
    BY <2>1 DEF Streamed
  <2>3. CASE Track(c, new) /\ rest \subseteq batch
    <3>1. /\ tracked' = tracked \cup new
          /\ job' = [job EXCEPT ![c] = NoJob]
      BY <2>3 DEF Track
    <3>2. \A d \in Calls \ {c} : job'[d] = job[d]
      BY <3>1 DEF SubscriptionsInv, SubscriptionsTypeOK
    <3>3. job[c].new \subseteq new
      BY DEF NoJob
    <3>4. job'[c].new = {}
      BY <3>1 DEF SubscriptionsInv, SubscriptionsTypeOK, NoJob
    <3>5. tracked' \subseteq socket'.asked
      BY <2>1, <2>2, <2>3, <3>1 DEF Streamed
    <3>6. ASSUME NEW p \in socket'.asked
          PROVE  p \in tracked' \/ \E d \in Calls : p \in job'[d].new
      BY <2>1, <3>1, <3>2, <3>3 DEF Streamed
    <3>7. \A d \in Calls : job'[d].new \ job'[d].rest \subseteq socket'.asked
      BY <2>1, <3>2, <3>4 DEF Streamed
    <3> QED
      BY <3>5, <3>6, <3>7 DEF Streamed
  <2>4. CASE Pause(c, new, rest \ batch)
    <3>1. /\ tracked' = tracked
          /\ job' = [job EXCEPT ![c] = [paused |-> TRUE, new |-> new,
                                        rest |-> rest \ batch]]
      BY <2>4 DEF Pause
    <3>2. \A d \in Calls \ {c} : job'[d] = job[d]
      BY <3>1 DEF SubscriptionsInv, SubscriptionsTypeOK
    <3>3. job[c].new \subseteq new /\ job'[c].new = new /\ job'[c].rest = rest \ batch
      BY <3>1 DEF SubscriptionsInv, SubscriptionsTypeOK, NoJob
    <3>4. ASSUME NEW p \in socket'.asked
          PROVE  p \in tracked' \/ \E d \in Calls : p \in job'[d].new
      BY <2>1, <3>1, <3>2, <3>3 DEF Streamed
    <3>5. \A d \in Calls : job'[d].new \ job'[d].rest \subseteq socket'.asked
      BY <2>1, <2>2, <3>2, <3>3 DEF Streamed
    <3> QED
      BY <2>1, <3>1, <3>4, <3>5 DEF Streamed
  <2> QED
    BY <2>1, <2>3, <2>4, <1>7
<1> QED
  BY <1>3, <1>5, <1>6, <1>7 DEF SubscriptionsInv

(* Each exchange's way to subscribe is such a step.                        *)
LEMMA DoSubscribeInv ==
  ASSUME SubscriptionsInv, UNCHANGED adapter,
         NEW c \in Calls, NEW new \in SUBSET Pairs, NEW rest \in SUBSET new,
         \/ job[c] = NoJob /\ rest = new
         \/ job[c].paused /\ job[c].new = new /\ job[c].rest = rest,
         DoSubscribe(c, new, rest)
  PROVE  SubscriptionsInv'
<1>1. adapter.exchange \in Adapters
  BY DEF SubscriptionsInv, SubscriptionsTypeOK
<1>2. CASE adapter.exchange = "kraken"
  <2>1. PICK batch \in SUBSET rest :
          /\ Ask(batch)
          /\ IF rest = batch THEN Track(c, new) ELSE Pause(c, new, rest \ batch)
    BY <1>2 DEF DoSubscribe, KrakenSubscribes
  <2> QED
    BY <2>1, AskInv
<1>3. CASE adapter.exchange \in {"okx", "cryptocom"}
  <2>1. Ask(new) /\ Track(c, new)
    BY <1>3 DEF DoSubscribe, OkxSubscribes, CryptocomSubscribes
  <2> QED
    BY <2>1, <1>3, AskInv
<1>4. CASE adapter.exchange = "coinbase"
  <2>1. Ask({}) <=> socket' = socket
    BY DEF Ask, SubscriptionsInv, SubscriptionsTypeOK
  <2>2. CoinbaseSubscribes(c, new, rest)
    BY <1>4 DEF DoSubscribe
  <2>3. CASE socket.open /\ ~job[c].paused
    <3>1. Ask({}) /\ Pause(c, new, rest \ {})
      BY <2>1, <2>2, <2>3 DEF CoinbaseSubscribes, Pause
    <3> QED
      BY <3>1, AskInv
  <2>4. CASE job[c].paused
    BY <2>2, <2>4, AskInv DEF CoinbaseSubscribes
  <2>5. CASE ~socket.open /\ ~job[c].paused
    <3>1. Ask({}) /\ Track(c, new)
      BY <2>1, <2>2, <2>5 DEF CoinbaseSubscribes
    <3> QED
      BY <3>1, <2>5, AskInv
  <2> QED
    BY <2>3, <2>4, <2>5
<1>5. CASE adapter.exchange = "binance"
  <2>1. Ask({}) <=> socket' = socket
    BY DEF Ask, SubscriptionsInv, SubscriptionsTypeOK
  <2>2. Ask({}) /\ Track(c, new)
    BY <1>5, <2>1 DEF DoSubscribe, BinanceSubscribes
  <2> QED
    BY <1>5, <2>2, AskInv
<1> QED
  BY <1>1, <1>2, <1>3, <1>4, <1>5 DEF Adapters

LEMMA SubscriptionsStepInv ==
  SubscriptionsInv /\ [SubscriptionsNext]_svars => SubscriptionsInv'
<1> SUFFICES ASSUME SubscriptionsInv, [SubscriptionsNext]_svars
             PROVE  SubscriptionsInv'
  OBVIOUS
<1>1. SubscriptionsTypeOK
  BY DEF SubscriptionsInv
<1>2. ASSUME NEW c \in Calls, NEW pairs \in SUBSET Pairs, Subscribe(c, pairs)
      PROVE  SubscriptionsInv'
  <2> DEFINE new == pairs \ tracked
  <2>1. new \in SUBSET Pairs /\ new \in SUBSET new
    OBVIOUS
  <2>2. DoSubscribe(c, new, new) /\ UNCHANGED adapter /\ job[c] = NoJob
    BY <1>2 DEF Subscribe
  <2> HIDE DEF new
  <2> QED
    BY <2>1, <2>2, DoSubscribeInv
<1>3. ASSUME NEW c \in Calls, PauseEnds(c) PROVE SubscriptionsInv'
  <2> DEFINE new == job[c].new
             rest == job[c].rest
  <2>1. new \in SUBSET Pairs /\ rest \in SUBSET new
    BY DEF SubscriptionsInv, SubscriptionsTypeOK, Job
  <2>2. DoSubscribe(c, new, rest) /\ UNCHANGED adapter /\ job[c].paused
    BY <1>3 DEF PauseEnds
  <2>3. job[c].paused /\ job[c].new = new /\ job[c].rest = rest
    BY <2>2
  <2> HIDE DEF new, rest
  <2> QED
    BY <2>1, <2>2, <2>3, DoSubscribeInv
<1>4. ASSUME NEW pairs \in SUBSET Pairs, Unsubscribe(pairs) PROVE SubscriptionsInv'
  <2> DEFINE gone == pairs \cap tracked
  <2>1. /\ tracked' = tracked \ pairs
        /\ UNCHANGED <<adapter, job>>
        /\ socket' = [DoUnsubscribe(gone) EXCEPT !.whole = @ /\ Resting]
    BY <1>4 DEF Unsubscribe, PairsStillTracked
  <2>2. DoUnsubscribe(gone) = Withdraw(gone) \/ adapter.exchange = "binance"
    BY <1>1 DEF DoUnsubscribe, KrakenUnsubscribes, OkxUnsubscribes,
                CoinbaseUnsubscribes, CryptocomUnsubscribes,
                SubscriptionsTypeOK, Adapters
  <2>3. DoUnsubscribe(gone) \in {Withdraw(gone), socket}
    BY <2>2 DEF DoUnsubscribe, BinanceUnsubscribes
  <2>4. socket.open => Withdraw(gone) = [socket EXCEPT !.asked = @ \ gone]
    BY DEF Withdraw
  <2>5. Withdraw(gone) \in [open : BOOLEAN, asked : SUBSET Pairs, whole : BOOLEAN]
        /\ Withdraw(gone).open = socket.open /\ Withdraw(gone).whole = socket.whole
    BY <1>1 DEF Withdraw, SubscriptionsTypeOK
  <2>6. /\ socket' \in [open : BOOLEAN, asked : SUBSET Pairs, whole : BOOLEAN]
        /\ socket'.open = socket.open
        /\ socket'.whole => socket.whole /\ Resting
    BY <1>1, <2>1, <2>3, <2>5 DEF SubscriptionsTypeOK, Resting
  <2>7. SubscriptionsTypeOK'
    BY <1>1, <2>1, <2>6 DEF SubscriptionsTypeOK
  <2>8. ASSUME socket'.whole, adapter.exchange # "binance" PROVE Streamed'
    <3>1. socket.whole /\ Resting /\ socket.open /\ Streamed
      BY <2>6, <2>8 DEF SubscriptionsInv
    <3>2. socket'.asked = socket.asked \ gone
      BY <1>1, <2>1, <2>2, <2>4, <2>8, <3>1 DEF SubscriptionsTypeOK
    <3>3. \A c \in Calls : job'[c].new = {}
      BY <2>1, <3>1 DEF Resting, NoJob
    <3> QED
      BY <2>1, <3>1, <3>2, <3>3 DEF Streamed, Resting, NoJob
  <2> HIDE DEF gone
  <2> QED
    BY <2>1, <2>6, <2>7, <2>8 DEF SubscriptionsInv
<1>5. CASE Opens
  <2>1. SubscriptionsTypeOK'
    BY <1>5, <1>1 DEF Opens, SubscriptionsTypeOK, Resting
  <2>2. /\ socket'.open /\ socket'.asked = {} /\ UNCHANGED <<tracked, job>>
        /\ socket'.whole => tracked = {} /\ Resting
    BY <1>5 DEF Opens
  <2> QED
    BY <2>1, <2>2 DEF SubscriptionsInv, Streamed, Resting, NoJob
<1>6. CASE Closes
  <2>1. adapter' \in [exchange : Adapters, connected : BOOLEAN]
    BY <1>6, <1>1 DEF Closes, SubscriptionsTypeOK, KrakenCloses, OkxCloses,
                      CryptocomCloses, AnyCloses
  <2>2. UNCHANGED <<tracked, job>> /\ socket' = Gone
    BY <1>6 DEF Closes
  <2>3. SubscriptionsTypeOK'
    BY <1>1, <2>1, <2>2 DEF SubscriptionsTypeOK, Gone
  <2> QED
    BY <2>2, <2>3 DEF SubscriptionsInv, Gone
<1>7. CASE Disconnect
  <2>1. SubscriptionsTypeOK'
    BY <1>7, <1>1 DEF Disconnect, SubscriptionsTypeOK, Gone
  <2> QED
    BY <1>7, <2>1 DEF Disconnect, SubscriptionsInv, Gone
<1>8. CASE UNCHANGED svars
  BY <1>8 DEF svars, SubscriptionsInv, SubscriptionsTypeOK, Streamed
<1> QED
  BY <1>2, <1>3, <1>4, <1>5, <1>6, <1>7, <1>8 DEF SubscriptionsNext

(* What an adapter tracks its socket streams, and nothing besides once the *)
(* calls are over, on a socket that was there from the start: between two  *)
(* messages of a call the socket has been asked for what is tracked, and   *)
(* for nothing but that and what calls in progress will track (subscribe,  *)
(* doSubscribe, unsubscribe).                                              *)
THEOREM SubscriptionsAreKept == SubscriptionsSpec => []TrackedIsStreamed
<1>1. ASSUME SubscriptionsInv, socket.whole, adapter.exchange # "binance"
      PROVE  /\ tracked \subseteq socket.asked
             /\ Resting => tracked = socket.asked
  <2>1. Streamed
    BY <1>1 DEF SubscriptionsInv
  <2>2. ASSUME Resting PROVE socket.asked \subseteq tracked
    <3>1. \A c \in Calls : job[c].new = {}
      BY <2>2 DEF Resting, NoJob
    <3> QED
      BY <2>1, <3>1 DEF Streamed
  <2> QED
    BY <2>1, <2>2 DEF Streamed
<1>2. SubscriptionsInv => TrackedIsStreamed
  BY <1>1 DEF TrackedIsStreamed
<1> QED
  BY <1>2, SubscriptionsInitInv, SubscriptionsStepInv, PTL DEF SubscriptionsSpec
=============================================================================

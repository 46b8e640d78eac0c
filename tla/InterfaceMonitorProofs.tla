------------------------ MODULE InterfaceMonitorProofs ------------------------
(* The monitor's invariants for any set of paths, any resolver lists and any  *)
(* number of updates.                                                         *)
EXTENDS InterfaceMonitor, TLAPS

USE PathsArePositive, MonitorConstants DEF NoPath

(* startInterfaceMonitor's updater satisfies the invariant.                   *)
LEMMA InitEstablishes == MonitorInit => MonitorTypeOK /\ MonitorInv
<1> SUFFICES ASSUME MonitorInit PROVE MonitorTypeOK /\ MonitorInv
  OBVIOUS
<1>a. PathTypeOK
  BY DEF MonitorInit, PathInit, PathTypeOK
<1>b. /\ u \in [initialized : BOOLEAN, index : Indices, initialIndex : Indices,
               families : BOOLEAN, cost : BOOLEAN, applied : 0..MaxUpdates]
      /\ upd \in [pc : UpdateSteps, first : BOOLEAN, identity : BOOLEAN,
                 families : BOOLEAN, gen : Nat]
  BY DEF MonitorInit, Indices, UpdateSteps
<1>1. PathTypeOK /\ CallbackTypeOK
  BY <1>a, <1>b DEF CallbackTypeOK
<1>c. upd.gen = 0
  BY DEF MonitorInit
<1>d. /\ settleGen = 0 /\ settleStop = 0 /\ armed = {} /\ fired = {}
      /\ stopped = FALSE /\ closed = FALSE
      /\ flowsClosedAt = 0 /\ told = NotTold
  BY DEF MonitorInit
<1>e. /\ settleGen \in 0..(MaxUpdates + 1) /\ settleStop \in 0..settleGen
      /\ upd.gen <= settleGen
      /\ flowsClosedAt \in Nat
  BY <1>c, <1>d
<1>f. /\ armed \subseteq 1..settleGen /\ fired \subseteq 1..settleGen
      /\ stopped \in BOOLEAN /\ closed \in BOOLEAN
  BY <1>d
<1>2. TimersTypeOK
  BY <1>d, <1>e, <1>f DEF TimersTypeOK
<1>3. NoDebt(NoPath) \in Debts
  BY DEF Debts, NoDebt, Indices
<1>4. MonitorTypeOK
  BY <1>1, <1>2, <1>3 DEF MonitorInit, MonitorTypeOK
<1>5. \A g \in Gens : idleSettle(g) /\ ~settles[g].flows
  BY DEF MonitorInit, idleSettle, NoDebt
<1>6. MonitorInv
  BY <1>5 DEF MonitorInit, MonitorInv, PathInit, GenerationsIssued, issuable, ArmsCurrent,
         OneTimerPerGeneration, OneSettlePerGeneration, NothingOwedIsLost, OpenFlowsAreOwed,
         SubstitutesMatchPath, owed, NoDebt, moved
<1> QED BY <1>4, <1>6

(* RefreshResolvers keeps the invariant. *)
LEMMA RefreshResolversPreserves ==
  ASSUME MonitorTypeOK, MonitorInv, RefreshResolvers
  PROVE  MonitorTypeOK' /\ MonitorInv'
<1>1. PathTypeOK' /\ CallbackTypeOK'
  BY DEF RefreshResolvers, publishLivePhysicalResolvers, moved, timerVars,
         dnsVars, histVars, pathVars, MonitorTypeOK, PathTypeOK,
         CallbackTypeOK, TimersTypeOK, Indices, UpdateSteps
<1>2. TimersTypeOK'
  BY DEF RefreshResolvers, publishLivePhysicalResolvers, moved, timerVars,
         dnsVars, histVars, pathVars, MonitorTypeOK, PathTypeOK,
         CallbackTypeOK, TimersTypeOK, MonitorInv, GenerationsIssued,
         issuable, ArmsCurrent, Debts
<1>3. pending' \in Debts
  BY DEF RefreshResolvers, publishLivePhysicalResolvers, moved, timerVars,
         dnsVars, histVars, pathVars, MonitorTypeOK, CallbackTypeOK, Debts,
         NoDebt
<1>4. settles' \in [Gens -> Debts]
  BY DEF RefreshResolvers, publishLivePhysicalResolvers, moved, timerVars,
         dnsVars, histVars, pathVars, MonitorTypeOK, Debts
<1>5. MonitorTypeOK'
  BY <1>1, <1>2, <1>3, <1>4 DEF RefreshResolvers,
         publishLivePhysicalResolvers, moved, timerVars, dnsVars, histVars,
         pathVars, MonitorTypeOK, CallbackTypeOK
<1>6. GenerationsIssued'
  BY DEF RefreshResolvers, publishLivePhysicalResolvers, moved, timerVars,
         dnsVars, histVars, pathVars, MonitorTypeOK, CallbackTypeOK,
         TimersTypeOK, MonitorInv, Debts, GenerationsIssued, issuable
<1>7. ArmsCurrent'
  BY DEF RefreshResolvers, publishLivePhysicalResolvers, moved, timerVars,
         dnsVars, histVars, pathVars, MonitorTypeOK, CallbackTypeOK,
         TimersTypeOK, MonitorInv, Debts, ArmsCurrent
<1>8. OneTimerPerGeneration'
  BY DEF RefreshResolvers, publishLivePhysicalResolvers, moved, timerVars,
         dnsVars, histVars, pathVars, MonitorTypeOK, CallbackTypeOK,
         TimersTypeOK, MonitorInv, Debts, OneTimerPerGeneration, ArmsCurrent
<1>9. OneSettlePerGeneration'
  BY DEF RefreshResolvers, publishLivePhysicalResolvers, moved, timerVars,
         dnsVars, histVars, pathVars, MonitorTypeOK, CallbackTypeOK,
         TimersTypeOK, MonitorInv, Debts, OneSettlePerGeneration,
         OneTimerPerGeneration, ArmsCurrent, idleSettle, NoDebt, Gens
<1>10. NothingOwedIsLost'
  BY DEF RefreshResolvers, publishLivePhysicalResolvers, moved, timerVars,
         dnsVars, histVars, pathVars, MonitorTypeOK, CallbackTypeOK,
         TimersTypeOK, MonitorInv, Debts, NothingOwedIsLost, ArmsCurrent,
         owed, NoDebt
<1>11. OpenFlowsAreOwed'
  BY DEF RefreshResolvers, publishLivePhysicalResolvers, moved, timerVars,
         dnsVars, histVars, pathVars, MonitorTypeOK, CallbackTypeOK,
         TimersTypeOK, MonitorInv, Debts, OpenFlowsAreOwed,
         OneSettlePerGeneration, idleSettle, NoDebt
<1>12. SubstitutesMatchPath'
  BY DEF RefreshResolvers, publishLivePhysicalResolvers, moved, timerVars,
         dnsVars, histVars, pathVars, MonitorTypeOK, CallbackTypeOK,
         TimersTypeOK, MonitorInv, Debts, SubstitutesMatchPath
<1>13. (stale => live = NoServers)'
  BY DEF RefreshResolvers, publishLivePhysicalResolvers, moved, timerVars,
         dnsVars, histVars, pathVars, MonitorInv
<1> QED BY <1>5, <1>6, <1>7, <1>8, <1>9, <1>10, <1>11, <1>12, <1>13 DEF MonitorInv

(* UpdateDefaultInterface(index, families, cost) keeps the invariant. *)
LEMMA UpdateDefaultInterfacePreserves ==
  ASSUME MonitorTypeOK, MonitorInv, NEW index \in Indices, NEW families \in Families, NEW cost \in Costs, UpdateDefaultInterface(index, families, cost)
  PROVE  MonitorTypeOK' /\ MonitorInv'
<1>1. PathTypeOK' /\ CallbackTypeOK'
  BY DEF UpdateDefaultInterface, publishPath, clearBindingSuspension,
         timerVars, dnsVars, histVars, pathVars, MonitorTypeOK, PathTypeOK,
         CallbackTypeOK, TimersTypeOK, Indices, UpdateSteps
<1>2. TimersTypeOK'
  BY DEF UpdateDefaultInterface, publishPath, clearBindingSuspension,
         timerVars, dnsVars, histVars, pathVars, MonitorTypeOK, PathTypeOK,
         CallbackTypeOK, TimersTypeOK, MonitorInv, GenerationsIssued,
         issuable, ArmsCurrent, Debts
<1>3. pending' \in Debts
  BY DEF UpdateDefaultInterface, publishPath, clearBindingSuspension,
         timerVars, dnsVars, histVars, pathVars, MonitorTypeOK,
         CallbackTypeOK, Debts, NoDebt
<1>4. settles' \in [Gens -> Debts]
  BY DEF UpdateDefaultInterface, publishPath, clearBindingSuspension,
         timerVars, dnsVars, histVars, pathVars, MonitorTypeOK, Debts
<1>5. MonitorTypeOK'
  BY <1>1, <1>2, <1>3, <1>4 DEF UpdateDefaultInterface, publishPath,
         clearBindingSuspension, timerVars, dnsVars, histVars, pathVars,
         MonitorTypeOK, CallbackTypeOK
<1>6. GenerationsIssued'
  BY DEF UpdateDefaultInterface, publishPath, clearBindingSuspension,
         timerVars, dnsVars, histVars, pathVars, MonitorTypeOK,
         CallbackTypeOK, TimersTypeOK, MonitorInv, Debts, GenerationsIssued,
         issuable
<1>7. ArmsCurrent'
  BY DEF UpdateDefaultInterface, publishPath, clearBindingSuspension,
         timerVars, dnsVars, histVars, pathVars, MonitorTypeOK,
         CallbackTypeOK, TimersTypeOK, MonitorInv, Debts, ArmsCurrent
<1>8. OneTimerPerGeneration'
  BY DEF UpdateDefaultInterface, publishPath, clearBindingSuspension,
         timerVars, dnsVars, histVars, pathVars, MonitorTypeOK,
         CallbackTypeOK, TimersTypeOK, MonitorInv, Debts,
         OneTimerPerGeneration, ArmsCurrent
<1>9. OneSettlePerGeneration'
  BY DEF UpdateDefaultInterface, publishPath, clearBindingSuspension,
         timerVars, dnsVars, histVars, pathVars, MonitorTypeOK,
         CallbackTypeOK, TimersTypeOK, MonitorInv, Debts,
         OneSettlePerGeneration, OneTimerPerGeneration, ArmsCurrent,
         idleSettle, NoDebt, Gens
<1>10. NothingOwedIsLost'
  BY DEF UpdateDefaultInterface, publishPath, clearBindingSuspension,
         timerVars, dnsVars, histVars, pathVars, MonitorTypeOK,
         CallbackTypeOK, TimersTypeOK, MonitorInv, Debts, NothingOwedIsLost,
         ArmsCurrent, owed, NoDebt
<1>11. OpenFlowsAreOwed'
  BY DEF UpdateDefaultInterface, publishPath, clearBindingSuspension,
         timerVars, dnsVars, histVars, pathVars, MonitorTypeOK,
         CallbackTypeOK, TimersTypeOK, MonitorInv, Debts, OpenFlowsAreOwed,
         OneSettlePerGeneration, idleSettle, NoDebt
<1>12. SubstitutesMatchPath'
  BY DEF UpdateDefaultInterface, publishPath, clearBindingSuspension,
         timerVars, dnsVars, histVars, pathVars, MonitorTypeOK,
         CallbackTypeOK, TimersTypeOK, MonitorInv, Debts,
         SubstitutesMatchPath, moved
<1>13. (stale => live = NoServers)'
  BY DEF UpdateDefaultInterface, publishPath, clearBindingSuspension,
         timerVars, dnsVars, histVars, pathVars, MonitorInv
<1> QED BY <1>5, <1>6, <1>7, <1>8, <1>9, <1>10, <1>11, <1>12, <1>13 DEF MonitorInv

(* OweFlows keeps the invariant. *)
LEMMA OweFlowsPreserves ==
  ASSUME MonitorTypeOK, MonitorInv, OweFlows
  PROVE  MonitorTypeOK' /\ MonitorInv'
<1>1. PathTypeOK' /\ CallbackTypeOK'
  BY DEF OweFlows, UpdateStep, timerVars, dnsVars, histVars, pathVars,
         MonitorTypeOK, PathTypeOK, CallbackTypeOK, TimersTypeOK, Indices,
         UpdateSteps
<1>2. TimersTypeOK'
  BY DEF OweFlows, UpdateStep, timerVars, dnsVars, histVars, pathVars,
         MonitorTypeOK, PathTypeOK, CallbackTypeOK, TimersTypeOK, MonitorInv,
         GenerationsIssued, issuable, ArmsCurrent, Debts
<1>3. pending' \in Debts
  BY DEF OweFlows, UpdateStep, timerVars, dnsVars, histVars, pathVars,
         MonitorTypeOK, CallbackTypeOK, Debts, NoDebt
<1>4. settles' \in [Gens -> Debts]
  BY DEF OweFlows, UpdateStep, timerVars, dnsVars, histVars, pathVars,
         MonitorTypeOK, Debts
<1>5. MonitorTypeOK'
  BY <1>1, <1>2, <1>3, <1>4 DEF OweFlows, UpdateStep, timerVars, dnsVars,
         histVars, pathVars, MonitorTypeOK, CallbackTypeOK
<1>6. GenerationsIssued'
  BY DEF OweFlows, UpdateStep, timerVars, dnsVars, histVars, pathVars,
         MonitorTypeOK, CallbackTypeOK, TimersTypeOK, MonitorInv, Debts,
         GenerationsIssued, issuable
<1>7. ArmsCurrent'
  BY DEF OweFlows, UpdateStep, timerVars, dnsVars, histVars, pathVars,
         MonitorTypeOK, CallbackTypeOK, TimersTypeOK, MonitorInv, Debts,
         ArmsCurrent
<1>8. OneTimerPerGeneration'
  BY DEF OweFlows, UpdateStep, timerVars, dnsVars, histVars, pathVars,
         MonitorTypeOK, CallbackTypeOK, TimersTypeOK, MonitorInv, Debts,
         OneTimerPerGeneration, ArmsCurrent
<1>9. OneSettlePerGeneration'
  BY DEF OweFlows, UpdateStep, timerVars, dnsVars, histVars, pathVars,
         MonitorTypeOK, CallbackTypeOK, TimersTypeOK, MonitorInv, Debts,
         OneSettlePerGeneration, OneTimerPerGeneration, ArmsCurrent,
         idleSettle, NoDebt, Gens
<1>10. NothingOwedIsLost'
  BY DEF OweFlows, UpdateStep, timerVars, dnsVars, histVars, pathVars,
         MonitorTypeOK, CallbackTypeOK, TimersTypeOK, MonitorInv, Debts,
         NothingOwedIsLost, ArmsCurrent, owed, NoDebt
<1>11. OpenFlowsAreOwed'
  BY DEF OweFlows, UpdateStep, timerVars, dnsVars, histVars, pathVars,
         MonitorTypeOK, CallbackTypeOK, TimersTypeOK, MonitorInv, Debts,
         OpenFlowsAreOwed, OneSettlePerGeneration, idleSettle, NoDebt
<1>12. SubstitutesMatchPath'
  BY DEF OweFlows, UpdateStep, timerVars, dnsVars, histVars, pathVars,
         MonitorTypeOK, CallbackTypeOK, TimersTypeOK, MonitorInv, Debts,
         SubstitutesMatchPath, moved
<1>13. (stale => live = NoServers)'
  BY DEF OweFlows, UpdateStep, timerVars, dnsVars, histVars, pathVars,
         MonitorInv
<1> QED BY <1>5, <1>6, <1>7, <1>8, <1>9, <1>10, <1>11, <1>12, <1>13 DEF MonitorInv

(* OweWitness keeps the invariant. *)
LEMMA OweWitnessPreserves ==
  ASSUME MonitorTypeOK, MonitorInv, OweWitness
  PROVE  MonitorTypeOK' /\ MonitorInv'
<1>1. PathTypeOK' /\ CallbackTypeOK'
  BY DEF OweWitness, UpdateStep, timerVars, dnsVars, histVars, pathVars,
         MonitorTypeOK, PathTypeOK, CallbackTypeOK, TimersTypeOK, Indices,
         UpdateSteps
<1>2. TimersTypeOK'
  BY DEF OweWitness, UpdateStep, timerVars, dnsVars, histVars, pathVars,
         MonitorTypeOK, PathTypeOK, CallbackTypeOK, TimersTypeOK, MonitorInv,
         GenerationsIssued, issuable, ArmsCurrent, Debts
<1>3. pending' \in Debts
  BY DEF OweWitness, UpdateStep, timerVars, dnsVars, histVars, pathVars,
         MonitorTypeOK, CallbackTypeOK, Debts, NoDebt
<1>4. settles' \in [Gens -> Debts]
  BY DEF OweWitness, UpdateStep, timerVars, dnsVars, histVars, pathVars,
         MonitorTypeOK, Debts
<1>5. MonitorTypeOK'
  BY <1>1, <1>2, <1>3, <1>4 DEF OweWitness, UpdateStep, timerVars, dnsVars,
         histVars, pathVars, MonitorTypeOK, CallbackTypeOK
<1>6. GenerationsIssued'
  BY DEF OweWitness, UpdateStep, timerVars, dnsVars, histVars, pathVars,
         MonitorTypeOK, CallbackTypeOK, TimersTypeOK, MonitorInv, Debts,
         GenerationsIssued, issuable
<1>7. ArmsCurrent'
  BY DEF OweWitness, UpdateStep, timerVars, dnsVars, histVars, pathVars,
         MonitorTypeOK, CallbackTypeOK, TimersTypeOK, MonitorInv, Debts,
         ArmsCurrent
<1>8. OneTimerPerGeneration'
  BY DEF OweWitness, UpdateStep, timerVars, dnsVars, histVars, pathVars,
         MonitorTypeOK, CallbackTypeOK, TimersTypeOK, MonitorInv, Debts,
         OneTimerPerGeneration, ArmsCurrent
<1>9. OneSettlePerGeneration'
  BY DEF OweWitness, UpdateStep, timerVars, dnsVars, histVars, pathVars,
         MonitorTypeOK, CallbackTypeOK, TimersTypeOK, MonitorInv, Debts,
         OneSettlePerGeneration, OneTimerPerGeneration, ArmsCurrent,
         idleSettle, NoDebt, Gens
<1>10. NothingOwedIsLost'
  BY DEF OweWitness, UpdateStep, timerVars, dnsVars, histVars, pathVars,
         MonitorTypeOK, CallbackTypeOK, TimersTypeOK, MonitorInv, Debts,
         NothingOwedIsLost, ArmsCurrent, owed, NoDebt
<1>11. OpenFlowsAreOwed'
  BY DEF OweWitness, UpdateStep, timerVars, dnsVars, histVars, pathVars,
         MonitorTypeOK, CallbackTypeOK, TimersTypeOK, MonitorInv, Debts,
         OpenFlowsAreOwed, OneSettlePerGeneration, idleSettle, NoDebt
<1>12. SubstitutesMatchPath'
  BY DEF OweWitness, UpdateStep, timerVars, dnsVars, histVars, pathVars,
         MonitorTypeOK, CallbackTypeOK, TimersTypeOK, MonitorInv, Debts,
         SubstitutesMatchPath, moved
<1>13. (stale => live = NoServers)'
  BY DEF OweWitness, UpdateStep, timerVars, dnsVars, histVars, pathVars,
         MonitorInv
<1> QED BY <1>5, <1>6, <1>7, <1>8, <1>9, <1>10, <1>11, <1>12, <1>13 DEF MonitorInv

(* OweResolver keeps the invariant. *)
LEMMA OweResolverPreserves ==
  ASSUME MonitorTypeOK, MonitorInv, OweResolver
  PROVE  MonitorTypeOK' /\ MonitorInv'
<1>1. PathTypeOK' /\ CallbackTypeOK'
  BY DEF OweResolver, UpdateStep, shouldResetResolverForPathUpdate, timerVars,
         dnsVars, histVars, pathVars, MonitorTypeOK, PathTypeOK,
         CallbackTypeOK, TimersTypeOK, Indices, UpdateSteps
<1>2. TimersTypeOK'
  BY DEF OweResolver, UpdateStep, shouldResetResolverForPathUpdate, timerVars,
         dnsVars, histVars, pathVars, MonitorTypeOK, PathTypeOK,
         CallbackTypeOK, TimersTypeOK, MonitorInv, GenerationsIssued,
         issuable, ArmsCurrent, Debts
<1>3. pending' \in Debts
  BY DEF OweResolver, UpdateStep, shouldResetResolverForPathUpdate, timerVars,
         dnsVars, histVars, pathVars, MonitorTypeOK, CallbackTypeOK, Debts,
         NoDebt
<1>4. settles' \in [Gens -> Debts]
  BY DEF OweResolver, UpdateStep, shouldResetResolverForPathUpdate, timerVars,
         dnsVars, histVars, pathVars, MonitorTypeOK, Debts
<1>5. MonitorTypeOK'
  BY <1>1, <1>2, <1>3, <1>4 DEF OweResolver, UpdateStep,
         shouldResetResolverForPathUpdate, timerVars, dnsVars, histVars,
         pathVars, MonitorTypeOK, CallbackTypeOK
<1>6. GenerationsIssued'
  BY DEF OweResolver, UpdateStep, shouldResetResolverForPathUpdate, timerVars,
         dnsVars, histVars, pathVars, MonitorTypeOK, CallbackTypeOK,
         TimersTypeOK, MonitorInv, Debts, GenerationsIssued, issuable
<1>7. ArmsCurrent'
  BY DEF OweResolver, UpdateStep, shouldResetResolverForPathUpdate, timerVars,
         dnsVars, histVars, pathVars, MonitorTypeOK, CallbackTypeOK,
         TimersTypeOK, MonitorInv, Debts, ArmsCurrent
<1>8. OneTimerPerGeneration'
  BY DEF OweResolver, UpdateStep, shouldResetResolverForPathUpdate, timerVars,
         dnsVars, histVars, pathVars, MonitorTypeOK, CallbackTypeOK,
         TimersTypeOK, MonitorInv, Debts, OneTimerPerGeneration, ArmsCurrent
<1>9. OneSettlePerGeneration'
  BY DEF OweResolver, UpdateStep, shouldResetResolverForPathUpdate, timerVars,
         dnsVars, histVars, pathVars, MonitorTypeOK, CallbackTypeOK,
         TimersTypeOK, MonitorInv, Debts, OneSettlePerGeneration,
         OneTimerPerGeneration, ArmsCurrent, idleSettle, NoDebt, Gens
<1>10. NothingOwedIsLost'
  BY DEF OweResolver, UpdateStep, shouldResetResolverForPathUpdate, timerVars,
         dnsVars, histVars, pathVars, MonitorTypeOK, CallbackTypeOK,
         TimersTypeOK, MonitorInv, Debts, NothingOwedIsLost, ArmsCurrent,
         owed, NoDebt
<1>11. OpenFlowsAreOwed'
  BY DEF OweResolver, UpdateStep, shouldResetResolverForPathUpdate, timerVars,
         dnsVars, histVars, pathVars, MonitorTypeOK, CallbackTypeOK,
         TimersTypeOK, MonitorInv, Debts, OpenFlowsAreOwed,
         OneSettlePerGeneration, idleSettle, NoDebt
<1>12. SubstitutesMatchPath'
  BY DEF OweResolver, UpdateStep, shouldResetResolverForPathUpdate, timerVars,
         dnsVars, histVars, pathVars, MonitorTypeOK, CallbackTypeOK,
         TimersTypeOK, MonitorInv, Debts, SubstitutesMatchPath, moved
<1>13. (stale => live = NoServers)'
  BY DEF OweResolver, UpdateStep, shouldResetResolverForPathUpdate, timerVars,
         dnsVars, histVars, pathVars, MonitorInv
<1> QED BY <1>5, <1>6, <1>7, <1>8, <1>9, <1>10, <1>11, <1>12, <1>13 DEF MonitorInv

(* NothingToSchedule keeps the invariant. *)
LEMMA NothingToSchedulePreserves ==
  ASSUME MonitorTypeOK, MonitorInv, NothingToSchedule
  PROVE  MonitorTypeOK' /\ MonitorInv'
<1>1. PathTypeOK' /\ CallbackTypeOK'
  BY DEF NothingToSchedule, UpdateStep, timerVars, dnsVars, histVars,
         pathVars, MonitorTypeOK, PathTypeOK, CallbackTypeOK, TimersTypeOK,
         Indices, UpdateSteps
<1>2. TimersTypeOK'
  BY DEF NothingToSchedule, UpdateStep, timerVars, dnsVars, histVars,
         pathVars, MonitorTypeOK, PathTypeOK, CallbackTypeOK, TimersTypeOK,
         MonitorInv, GenerationsIssued, issuable, ArmsCurrent, Debts
<1>3. pending' \in Debts
  BY DEF NothingToSchedule, UpdateStep, timerVars, dnsVars, histVars,
         pathVars, MonitorTypeOK, CallbackTypeOK, Debts, NoDebt
<1>4. settles' \in [Gens -> Debts]
  BY DEF NothingToSchedule, UpdateStep, timerVars, dnsVars, histVars,
         pathVars, MonitorTypeOK, Debts
<1>5. MonitorTypeOK'
  BY <1>1, <1>2, <1>3, <1>4 DEF NothingToSchedule, UpdateStep, timerVars,
         dnsVars, histVars, pathVars, MonitorTypeOK, CallbackTypeOK
<1>6. GenerationsIssued'
  BY DEF NothingToSchedule, UpdateStep, timerVars, dnsVars, histVars,
         pathVars, MonitorTypeOK, CallbackTypeOK, TimersTypeOK, MonitorInv,
         Debts, GenerationsIssued, issuable
<1>7. ArmsCurrent'
  BY DEF NothingToSchedule, UpdateStep, timerVars, dnsVars, histVars,
         pathVars, MonitorTypeOK, CallbackTypeOK, TimersTypeOK, MonitorInv,
         Debts, ArmsCurrent
<1>8. OneTimerPerGeneration'
  BY DEF NothingToSchedule, UpdateStep, timerVars, dnsVars, histVars,
         pathVars, MonitorTypeOK, CallbackTypeOK, TimersTypeOK, MonitorInv,
         Debts, OneTimerPerGeneration, ArmsCurrent
<1>9. OneSettlePerGeneration'
  BY DEF NothingToSchedule, UpdateStep, timerVars, dnsVars, histVars,
         pathVars, MonitorTypeOK, CallbackTypeOK, TimersTypeOK, MonitorInv,
         Debts, OneSettlePerGeneration, OneTimerPerGeneration, ArmsCurrent,
         idleSettle, NoDebt, Gens
<1>10. NothingOwedIsLost'
  BY DEF NothingToSchedule, UpdateStep, timerVars, dnsVars, histVars,
         pathVars, MonitorTypeOK, CallbackTypeOK, TimersTypeOK, MonitorInv,
         Debts, NothingOwedIsLost, ArmsCurrent, owed, NoDebt
<1>11. OpenFlowsAreOwed'
  BY DEF NothingToSchedule, UpdateStep, timerVars, dnsVars, histVars,
         pathVars, MonitorTypeOK, CallbackTypeOK, TimersTypeOK, MonitorInv,
         Debts, OpenFlowsAreOwed, OneSettlePerGeneration, idleSettle, NoDebt
<1>12. SubstitutesMatchPath'
  BY DEF NothingToSchedule, UpdateStep, timerVars, dnsVars, histVars,
         pathVars, MonitorTypeOK, CallbackTypeOK, TimersTypeOK, MonitorInv,
         Debts, SubstitutesMatchPath, moved
<1>13. (stale => live = NoServers)'
  BY DEF NothingToSchedule, UpdateStep, timerVars, dnsVars, histVars,
         pathVars, MonitorInv
<1> QED BY <1>5, <1>6, <1>7, <1>8, <1>9, <1>10, <1>11, <1>12, <1>13 DEF MonitorInv

(* ScheduleSettle keeps the invariant. *)
LEMMA ScheduleSettlePreserves ==
  ASSUME MonitorTypeOK, MonitorInv, ScheduleSettle
  PROVE  MonitorTypeOK' /\ MonitorInv'
<1>a. PathTypeOK' /\ u' = u
  BY DEF ScheduleSettle, MonitorTypeOK, PathTypeOK, pathVars
<1>b. settleGen + 1 \in Nat /\ "arm" \in UpdateSteps
  BY DEF MonitorTypeOK, TimersTypeOK, UpdateSteps
<1>1. PathTypeOK' /\ CallbackTypeOK'
  BY <1>a, <1>b DEF ScheduleSettle, MonitorTypeOK, CallbackTypeOK
<1>2. TimersTypeOK'
  BY DEF ScheduleSettle, timerVars, dnsVars, histVars, pathVars,
         MonitorTypeOK, PathTypeOK, CallbackTypeOK, TimersTypeOK, MonitorInv,
         GenerationsIssued, issuable, ArmsCurrent, Debts
<1>3. pending' \in Debts
  BY DEF ScheduleSettle, timerVars, dnsVars, histVars, pathVars,
         MonitorTypeOK, CallbackTypeOK, Debts, NoDebt
<1>4. settles' \in [Gens -> Debts]
  BY DEF ScheduleSettle, timerVars, dnsVars, histVars, pathVars,
         MonitorTypeOK, Debts
<1>5. MonitorTypeOK'
  BY <1>1, <1>2, <1>3, <1>4 DEF ScheduleSettle, timerVars, dnsVars, histVars,
         pathVars, MonitorTypeOK, CallbackTypeOK
<1>6. GenerationsIssued'
  BY DEF ScheduleSettle, timerVars, dnsVars, histVars, pathVars,
         MonitorTypeOK, CallbackTypeOK, TimersTypeOK, MonitorInv, Debts,
         GenerationsIssued, issuable
<1>7. ArmsCurrent'
  BY DEF ScheduleSettle, timerVars, dnsVars, histVars, pathVars,
         MonitorTypeOK, CallbackTypeOK, TimersTypeOK, MonitorInv, Debts,
         ArmsCurrent
<1>8. OneTimerPerGeneration'
  BY DEF ScheduleSettle, timerVars, dnsVars, histVars, pathVars,
         MonitorTypeOK, CallbackTypeOK, TimersTypeOK, MonitorInv, Debts,
         OneTimerPerGeneration, ArmsCurrent
<1>9. OneSettlePerGeneration'
  BY DEF ScheduleSettle, timerVars, dnsVars, histVars, pathVars,
         MonitorTypeOK, CallbackTypeOK, TimersTypeOK, MonitorInv, Debts,
         OneSettlePerGeneration, OneTimerPerGeneration, ArmsCurrent,
         idleSettle, NoDebt, Gens
<1>10. NothingOwedIsLost'
  BY DEF ScheduleSettle, timerVars, dnsVars, histVars, pathVars,
         MonitorTypeOK, CallbackTypeOK, TimersTypeOK, MonitorInv, Debts,
         NothingOwedIsLost, ArmsCurrent, owed, NoDebt
<1>11. OpenFlowsAreOwed'
  BY DEF ScheduleSettle, timerVars, dnsVars, histVars, pathVars,
         MonitorTypeOK, CallbackTypeOK, TimersTypeOK, MonitorInv, Debts,
         OpenFlowsAreOwed, OneSettlePerGeneration, idleSettle, NoDebt
<1>12. SubstitutesMatchPath'
  BY DEF ScheduleSettle, timerVars, dnsVars, histVars, pathVars,
         MonitorTypeOK, CallbackTypeOK, TimersTypeOK, MonitorInv, Debts,
         SubstitutesMatchPath, moved
<1>13. (stale => live = NoServers)'
  BY DEF ScheduleSettle, timerVars, dnsVars, histVars, pathVars, MonitorInv
<1> QED BY <1>5, <1>6, <1>7, <1>8, <1>9, <1>10, <1>11, <1>12, <1>13 DEF MonitorInv

(* ArmSettle keeps the invariant. *)
LEMMA ArmSettlePreserves ==
  ASSUME MonitorTypeOK, MonitorInv, ArmSettle
  PROVE  MonitorTypeOK' /\ MonitorInv'
<1>1. PathTypeOK' /\ CallbackTypeOK'
  BY DEF ArmSettle, UpdateStep, timerVars, dnsVars, histVars, pathVars,
         MonitorTypeOK, PathTypeOK, CallbackTypeOK, TimersTypeOK, Indices,
         UpdateSteps
<1>2. TimersTypeOK'
  BY DEF ArmSettle, UpdateStep, timerVars, dnsVars, histVars, pathVars,
         MonitorTypeOK, PathTypeOK, CallbackTypeOK, TimersTypeOK, MonitorInv,
         GenerationsIssued, issuable, ArmsCurrent, Debts
<1>3. pending' \in Debts
  BY DEF ArmSettle, UpdateStep, timerVars, dnsVars, histVars, pathVars,
         MonitorTypeOK, CallbackTypeOK, Debts, NoDebt
<1>4. settles' \in [Gens -> Debts]
  BY DEF ArmSettle, UpdateStep, timerVars, dnsVars, histVars, pathVars,
         MonitorTypeOK, Debts
<1>5. MonitorTypeOK'
  BY <1>1, <1>2, <1>3, <1>4 DEF ArmSettle, UpdateStep, timerVars, dnsVars,
         histVars, pathVars, MonitorTypeOK, CallbackTypeOK
<1>6. GenerationsIssued'
  BY DEF ArmSettle, UpdateStep, timerVars, dnsVars, histVars, pathVars,
         MonitorTypeOK, CallbackTypeOK, TimersTypeOK, MonitorInv, Debts,
         GenerationsIssued, issuable
<1>7. ArmsCurrent'
  BY DEF ArmSettle, UpdateStep, timerVars, dnsVars, histVars, pathVars,
         MonitorTypeOK, CallbackTypeOK, TimersTypeOK, MonitorInv, Debts,
         ArmsCurrent
<1>8. OneTimerPerGeneration'
  BY DEF ArmSettle, UpdateStep, timerVars, dnsVars, histVars, pathVars,
         MonitorTypeOK, CallbackTypeOK, TimersTypeOK, MonitorInv, Debts,
         OneTimerPerGeneration, ArmsCurrent
<1>9. OneSettlePerGeneration'
  BY DEF ArmSettle, UpdateStep, timerVars, dnsVars, histVars, pathVars,
         MonitorTypeOK, CallbackTypeOK, TimersTypeOK, MonitorInv, Debts,
         OneSettlePerGeneration, OneTimerPerGeneration, ArmsCurrent,
         idleSettle, NoDebt, Gens
<1>10. NothingOwedIsLost'
  BY DEF ArmSettle, UpdateStep, timerVars, dnsVars, histVars, pathVars,
         MonitorTypeOK, CallbackTypeOK, TimersTypeOK, MonitorInv, Debts,
         NothingOwedIsLost, ArmsCurrent, owed, NoDebt
<1>11. OpenFlowsAreOwed'
  BY DEF ArmSettle, UpdateStep, timerVars, dnsVars, histVars, pathVars,
         MonitorTypeOK, CallbackTypeOK, TimersTypeOK, MonitorInv, Debts,
         OpenFlowsAreOwed, OneSettlePerGeneration, idleSettle, NoDebt
<1>12. SubstitutesMatchPath'
  BY DEF ArmSettle, UpdateStep, timerVars, dnsVars, histVars, pathVars,
         MonitorTypeOK, CallbackTypeOK, TimersTypeOK, MonitorInv, Debts,
         SubstitutesMatchPath, moved
<1>13. (stale => live = NoServers)'
  BY DEF ArmSettle, UpdateStep, timerVars, dnsVars, histVars, pathVars,
         MonitorInv
<1> QED BY <1>5, <1>6, <1>7, <1>8, <1>9, <1>10, <1>11, <1>12, <1>13 DEF MonitorInv

(* StoreStop keeps the invariant. *)
LEMMA StoreStopPreserves ==
  ASSUME MonitorTypeOK, MonitorInv, StoreStop
  PROVE  MonitorTypeOK' /\ MonitorInv'
<1>1. PathTypeOK' /\ CallbackTypeOK'
  BY DEF StoreStop, UpdateStep, timerVars, dnsVars, histVars, pathVars,
         MonitorTypeOK, PathTypeOK, CallbackTypeOK, TimersTypeOK, Indices,
         UpdateSteps
<1>2. TimersTypeOK'
  BY DEF StoreStop, UpdateStep, timerVars, dnsVars, histVars, pathVars,
         MonitorTypeOK, PathTypeOK, CallbackTypeOK, TimersTypeOK, MonitorInv,
         GenerationsIssued, issuable, ArmsCurrent, Debts
<1>3. pending' \in Debts
  BY DEF StoreStop, UpdateStep, timerVars, dnsVars, histVars, pathVars,
         MonitorTypeOK, CallbackTypeOK, Debts, NoDebt
<1>4. settles' \in [Gens -> Debts]
  BY DEF StoreStop, UpdateStep, timerVars, dnsVars, histVars, pathVars,
         MonitorTypeOK, Debts
<1>5. MonitorTypeOK'
  BY <1>1, <1>2, <1>3, <1>4 DEF StoreStop, UpdateStep, timerVars, dnsVars,
         histVars, pathVars, MonitorTypeOK, CallbackTypeOK
<1>6. GenerationsIssued'
  BY DEF StoreStop, UpdateStep, timerVars, dnsVars, histVars, pathVars,
         MonitorTypeOK, CallbackTypeOK, TimersTypeOK, MonitorInv, Debts,
         GenerationsIssued, issuable
<1>7. ArmsCurrent'
  BY DEF StoreStop, UpdateStep, timerVars, dnsVars, histVars, pathVars,
         MonitorTypeOK, CallbackTypeOK, TimersTypeOK, MonitorInv, Debts,
         ArmsCurrent
<1>8. OneTimerPerGeneration'
  BY DEF StoreStop, UpdateStep, timerVars, dnsVars, histVars, pathVars,
         MonitorTypeOK, CallbackTypeOK, TimersTypeOK, MonitorInv, Debts,
         OneTimerPerGeneration, ArmsCurrent
<1>9. OneSettlePerGeneration'
  BY DEF StoreStop, UpdateStep, timerVars, dnsVars, histVars, pathVars,
         MonitorTypeOK, CallbackTypeOK, TimersTypeOK, MonitorInv, Debts,
         OneSettlePerGeneration, OneTimerPerGeneration, ArmsCurrent,
         idleSettle, NoDebt, Gens
<1>10. NothingOwedIsLost'
  BY DEF StoreStop, UpdateStep, timerVars, dnsVars, histVars, pathVars,
         MonitorTypeOK, CallbackTypeOK, TimersTypeOK, MonitorInv, Debts,
         NothingOwedIsLost, ArmsCurrent, owed, NoDebt
<1>11. OpenFlowsAreOwed'
  BY DEF StoreStop, UpdateStep, timerVars, dnsVars, histVars, pathVars,
         MonitorTypeOK, CallbackTypeOK, TimersTypeOK, MonitorInv, Debts,
         OpenFlowsAreOwed, OneSettlePerGeneration, idleSettle, NoDebt
<1>12. SubstitutesMatchPath'
  BY DEF StoreStop, UpdateStep, timerVars, dnsVars, histVars, pathVars,
         MonitorTypeOK, CallbackTypeOK, TimersTypeOK, MonitorInv, Debts,
         SubstitutesMatchPath, moved
<1>13. (stale => live = NoServers)'
  BY DEF StoreStop, UpdateStep, timerVars, dnsVars, histVars, pathVars,
         MonitorInv
<1> QED BY <1>5, <1>6, <1>7, <1>8, <1>9, <1>10, <1>11, <1>12, <1>13 DEF MonitorInv

(* MarkSystemSubstitutes keeps the invariant. *)
LEMMA MarkSystemSubstitutesPreserves ==
  ASSUME MonitorTypeOK, MonitorInv, MarkSystemSubstitutes
  PROVE  MonitorTypeOK' /\ MonitorInv'
<1>1. PathTypeOK' /\ CallbackTypeOK'
  BY DEF MarkSystemSubstitutes, UpdateStep, publishLivePhysicalResolvers,
         moved, timerVars, dnsVars, histVars, pathVars, MonitorTypeOK,
         PathTypeOK, CallbackTypeOK, TimersTypeOK, Indices, UpdateSteps
<1>2. TimersTypeOK'
  BY DEF MarkSystemSubstitutes, UpdateStep, publishLivePhysicalResolvers,
         moved, timerVars, dnsVars, histVars, pathVars, MonitorTypeOK,
         PathTypeOK, CallbackTypeOK, TimersTypeOK, MonitorInv,
         GenerationsIssued, issuable, ArmsCurrent, Debts
<1>3. pending' \in Debts
  BY DEF MarkSystemSubstitutes, UpdateStep, publishLivePhysicalResolvers,
         moved, timerVars, dnsVars, histVars, pathVars, MonitorTypeOK,
         CallbackTypeOK, Debts, NoDebt
<1>4. settles' \in [Gens -> Debts]
  BY DEF MarkSystemSubstitutes, UpdateStep, publishLivePhysicalResolvers,
         moved, timerVars, dnsVars, histVars, pathVars, MonitorTypeOK, Debts
<1>5. MonitorTypeOK'
  BY <1>1, <1>2, <1>3, <1>4 DEF MarkSystemSubstitutes, UpdateStep,
         publishLivePhysicalResolvers, moved, timerVars, dnsVars, histVars,
         pathVars, MonitorTypeOK, CallbackTypeOK
<1>6. GenerationsIssued'
  BY DEF MarkSystemSubstitutes, UpdateStep, publishLivePhysicalResolvers,
         moved, timerVars, dnsVars, histVars, pathVars, MonitorTypeOK,
         CallbackTypeOK, TimersTypeOK, MonitorInv, Debts, GenerationsIssued,
         issuable
<1>7. ArmsCurrent'
  BY DEF MarkSystemSubstitutes, UpdateStep, publishLivePhysicalResolvers,
         moved, timerVars, dnsVars, histVars, pathVars, MonitorTypeOK,
         CallbackTypeOK, TimersTypeOK, MonitorInv, Debts, ArmsCurrent
<1>8. OneTimerPerGeneration'
  BY DEF MarkSystemSubstitutes, UpdateStep, publishLivePhysicalResolvers,
         moved, timerVars, dnsVars, histVars, pathVars, MonitorTypeOK,
         CallbackTypeOK, TimersTypeOK, MonitorInv, Debts,
         OneTimerPerGeneration, ArmsCurrent
<1>9. OneSettlePerGeneration'
  BY DEF MarkSystemSubstitutes, UpdateStep, publishLivePhysicalResolvers,
         moved, timerVars, dnsVars, histVars, pathVars, MonitorTypeOK,
         CallbackTypeOK, TimersTypeOK, MonitorInv, Debts,
         OneSettlePerGeneration, OneTimerPerGeneration, ArmsCurrent,
         idleSettle, NoDebt, Gens
<1>10. NothingOwedIsLost'
  BY DEF MarkSystemSubstitutes, UpdateStep, publishLivePhysicalResolvers,
         moved, timerVars, dnsVars, histVars, pathVars, MonitorTypeOK,
         CallbackTypeOK, TimersTypeOK, MonitorInv, Debts, NothingOwedIsLost,
         ArmsCurrent, owed, NoDebt
<1>11. OpenFlowsAreOwed'
  BY DEF MarkSystemSubstitutes, UpdateStep, publishLivePhysicalResolvers,
         moved, timerVars, dnsVars, histVars, pathVars, MonitorTypeOK,
         CallbackTypeOK, TimersTypeOK, MonitorInv, Debts, OpenFlowsAreOwed,
         OneSettlePerGeneration, idleSettle, NoDebt
<1>12. SubstitutesMatchPath'
  BY DEF MarkSystemSubstitutes, UpdateStep, publishLivePhysicalResolvers,
         moved, timerVars, dnsVars, histVars, pathVars, MonitorTypeOK,
         CallbackTypeOK, TimersTypeOK, MonitorInv, Debts, SubstitutesMatchPath
<1>13. (stale => live = NoServers)'
  BY DEF MarkSystemSubstitutes, UpdateStep, publishLivePhysicalResolvers,
         moved, timerVars, dnsVars, histVars, pathVars, MonitorInv
<1> QED BY <1>5, <1>6, <1>7, <1>8, <1>9, <1>10, <1>11, <1>12, <1>13 DEF MonitorInv

(* TimerFires(g) keeps the invariant. *)
LEMMA TimerFiresPreserves ==
  ASSUME MonitorTypeOK, MonitorInv, NEW g \in Gens, TimerFires(g)
  PROVE  MonitorTypeOK' /\ MonitorInv'
<1>1. PathTypeOK' /\ CallbackTypeOK'
  BY DEF TimerFires, timerVars, dnsVars, histVars, pathVars, MonitorTypeOK,
         PathTypeOK, CallbackTypeOK, TimersTypeOK, Indices, UpdateSteps
<1>2. TimersTypeOK'
  BY DEF TimerFires, timerVars, dnsVars, histVars, pathVars, MonitorTypeOK,
         PathTypeOK, CallbackTypeOK, TimersTypeOK, MonitorInv,
         GenerationsIssued, issuable, ArmsCurrent, Debts
<1>3. pending' \in Debts
  BY DEF TimerFires, timerVars, dnsVars, histVars, pathVars, MonitorTypeOK,
         CallbackTypeOK, Debts, NoDebt
<1>4. settles' \in [Gens -> Debts]
  BY DEF TimerFires, timerVars, dnsVars, histVars, pathVars, MonitorTypeOK,
         Debts
<1>5. MonitorTypeOK'
  BY <1>1, <1>2, <1>3, <1>4 DEF TimerFires, timerVars, dnsVars, histVars,
         pathVars, MonitorTypeOK, CallbackTypeOK
<1>6. GenerationsIssued'
  BY DEF TimerFires, timerVars, dnsVars, histVars, pathVars, MonitorTypeOK,
         CallbackTypeOK, TimersTypeOK, MonitorInv, Debts, GenerationsIssued,
         issuable
<1>7. ArmsCurrent'
  BY DEF TimerFires, timerVars, dnsVars, histVars, pathVars, MonitorTypeOK,
         CallbackTypeOK, TimersTypeOK, MonitorInv, Debts, ArmsCurrent
<1>8. OneTimerPerGeneration'
  BY DEF TimerFires, timerVars, dnsVars, histVars, pathVars, MonitorTypeOK,
         CallbackTypeOK, TimersTypeOK, MonitorInv, Debts,
         OneTimerPerGeneration, ArmsCurrent
<1>9. OneSettlePerGeneration'
  BY DEF TimerFires, timerVars, dnsVars, histVars, pathVars, MonitorTypeOK,
         CallbackTypeOK, TimersTypeOK, MonitorInv, Debts,
         OneSettlePerGeneration, OneTimerPerGeneration, ArmsCurrent,
         idleSettle, NoDebt, Gens
<1>10. NothingOwedIsLost'
  BY DEF TimerFires, timerVars, dnsVars, histVars, pathVars, MonitorTypeOK,
         CallbackTypeOK, TimersTypeOK, MonitorInv, Debts, NothingOwedIsLost,
         ArmsCurrent, owed, NoDebt
<1>11. OpenFlowsAreOwed'
  BY DEF TimerFires, timerVars, dnsVars, histVars, pathVars, MonitorTypeOK,
         CallbackTypeOK, TimersTypeOK, MonitorInv, Debts, OpenFlowsAreOwed,
         OneSettlePerGeneration, idleSettle, NoDebt
<1>12. SubstitutesMatchPath'
  BY DEF TimerFires, timerVars, dnsVars, histVars, pathVars, MonitorTypeOK,
         CallbackTypeOK, TimersTypeOK, MonitorInv, Debts,
         SubstitutesMatchPath, moved
<1>13. (stale => live = NoServers)'
  BY DEF TimerFires, timerVars, dnsVars, histVars, pathVars, MonitorInv
<1> QED BY <1>5, <1>6, <1>7, <1>8, <1>9, <1>10, <1>11, <1>12, <1>13 DEF MonitorInv

(* SettleDropped(g) keeps the invariant. *)
LEMMA SettleDroppedPreserves ==
  ASSUME MonitorTypeOK, MonitorInv, NEW g \in Gens, SettleDropped(g)
  PROVE  MonitorTypeOK' /\ MonitorInv'
<1>1. PathTypeOK' /\ CallbackTypeOK'
  BY DEF SettleDropped, timerVars, dnsVars, histVars, pathVars, MonitorTypeOK,
         PathTypeOK, CallbackTypeOK, TimersTypeOK, Indices, UpdateSteps
<1>2. TimersTypeOK'
  BY DEF SettleDropped, timerVars, dnsVars, histVars, pathVars, MonitorTypeOK,
         PathTypeOK, CallbackTypeOK, TimersTypeOK, MonitorInv,
         GenerationsIssued, issuable, ArmsCurrent, Debts
<1>3. pending' \in Debts
  BY DEF SettleDropped, timerVars, dnsVars, histVars, pathVars, MonitorTypeOK,
         CallbackTypeOK, Debts, NoDebt
<1>4. settles' \in [Gens -> Debts]
  BY DEF SettleDropped, timerVars, dnsVars, histVars, pathVars, MonitorTypeOK,
         Debts
<1>5. MonitorTypeOK'
  BY <1>1, <1>2, <1>3, <1>4 DEF SettleDropped, timerVars, dnsVars, histVars,
         pathVars, MonitorTypeOK, CallbackTypeOK
<1>6. GenerationsIssued'
  BY DEF SettleDropped, timerVars, dnsVars, histVars, pathVars, MonitorTypeOK,
         CallbackTypeOK, TimersTypeOK, MonitorInv, Debts, GenerationsIssued,
         issuable
<1>7. ArmsCurrent'
  BY DEF SettleDropped, timerVars, dnsVars, histVars, pathVars, MonitorTypeOK,
         CallbackTypeOK, TimersTypeOK, MonitorInv, Debts, ArmsCurrent
<1>8. OneTimerPerGeneration'
  BY DEF SettleDropped, timerVars, dnsVars, histVars, pathVars, MonitorTypeOK,
         CallbackTypeOK, TimersTypeOK, MonitorInv, Debts,
         OneTimerPerGeneration, ArmsCurrent
<1>9. OneSettlePerGeneration'
  BY DEF SettleDropped, timerVars, dnsVars, histVars, pathVars, MonitorTypeOK,
         CallbackTypeOK, TimersTypeOK, MonitorInv, Debts,
         OneSettlePerGeneration, OneTimerPerGeneration, ArmsCurrent,
         idleSettle, NoDebt, Gens
<1>10. NothingOwedIsLost'
  BY DEF SettleDropped, timerVars, dnsVars, histVars, pathVars, MonitorTypeOK,
         CallbackTypeOK, TimersTypeOK, MonitorInv, Debts, NothingOwedIsLost,
         ArmsCurrent, owed, NoDebt
<1>11. OpenFlowsAreOwed'
  BY DEF SettleDropped, timerVars, dnsVars, histVars, pathVars, MonitorTypeOK,
         CallbackTypeOK, TimersTypeOK, MonitorInv, Debts, OpenFlowsAreOwed,
         OneSettlePerGeneration, idleSettle, NoDebt
<1>12. SubstitutesMatchPath'
  BY DEF SettleDropped, timerVars, dnsVars, histVars, pathVars, MonitorTypeOK,
         CallbackTypeOK, TimersTypeOK, MonitorInv, Debts,
         SubstitutesMatchPath, moved
<1>13. (stale => live = NoServers)'
  BY DEF SettleDropped, timerVars, dnsVars, histVars, pathVars, MonitorInv
<1> QED BY <1>5, <1>6, <1>7, <1>8, <1>9, <1>10, <1>11, <1>12, <1>13 DEF MonitorInv

(* SettleTakesDebts(g) keeps the invariant. *)
LEMMA SettleTakesDebtsPreserves ==
  ASSUME MonitorTypeOK, MonitorInv, NEW g \in Gens, SettleTakesDebts(g)
  PROVE  MonitorTypeOK' /\ MonitorInv'
<1>1. PathTypeOK' /\ CallbackTypeOK'
  BY DEF SettleTakesDebts, timerVars, dnsVars, histVars, pathVars,
         MonitorTypeOK, PathTypeOK, CallbackTypeOK, TimersTypeOK, Indices,
         UpdateSteps
<1>2. TimersTypeOK'
  BY DEF SettleTakesDebts, timerVars, dnsVars, histVars, pathVars,
         MonitorTypeOK, PathTypeOK, CallbackTypeOK, TimersTypeOK, MonitorInv,
         GenerationsIssued, issuable, ArmsCurrent, Debts
<1>3. pending' \in Debts
  BY DEF SettleTakesDebts, timerVars, dnsVars, histVars, pathVars,
         MonitorTypeOK, CallbackTypeOK, Debts, NoDebt
<1>4. settles' \in [Gens -> Debts]
  BY DEF SettleTakesDebts, timerVars, dnsVars, histVars, pathVars,
         MonitorTypeOK, Debts
<1>5. MonitorTypeOK'
  BY <1>1, <1>2, <1>3, <1>4 DEF SettleTakesDebts, timerVars, dnsVars,
         histVars, pathVars, MonitorTypeOK, CallbackTypeOK
<1>6. GenerationsIssued'
  BY DEF SettleTakesDebts, timerVars, dnsVars, histVars, pathVars,
         MonitorTypeOK, CallbackTypeOK, TimersTypeOK, MonitorInv, Debts,
         GenerationsIssued, issuable
<1>7. ArmsCurrent'
  BY DEF SettleTakesDebts, timerVars, dnsVars, histVars, pathVars,
         MonitorTypeOK, CallbackTypeOK, TimersTypeOK, MonitorInv, Debts,
         ArmsCurrent
<1>8. OneTimerPerGeneration'
  BY DEF SettleTakesDebts, timerVars, dnsVars, histVars, pathVars,
         MonitorTypeOK, CallbackTypeOK, TimersTypeOK, MonitorInv, Debts,
         OneTimerPerGeneration, ArmsCurrent
<1>9. OneSettlePerGeneration'
  BY DEF SettleTakesDebts, timerVars, dnsVars, histVars, pathVars,
         MonitorTypeOK, CallbackTypeOK, TimersTypeOK, MonitorInv, Debts,
         OneSettlePerGeneration, OneTimerPerGeneration, ArmsCurrent,
         idleSettle, NoDebt, Gens
<1>10. NothingOwedIsLost'
  BY DEF SettleTakesDebts, timerVars, dnsVars, histVars, pathVars,
         MonitorTypeOK, CallbackTypeOK, TimersTypeOK, MonitorInv, Debts,
         NothingOwedIsLost, ArmsCurrent, owed, NoDebt
<1>11. OpenFlowsAreOwed'
  BY DEF SettleTakesDebts, timerVars, dnsVars, histVars, pathVars,
         MonitorTypeOK, CallbackTypeOK, TimersTypeOK, MonitorInv, Debts,
         OpenFlowsAreOwed, OneSettlePerGeneration, idleSettle, NoDebt
<1>12. SubstitutesMatchPath'
  BY DEF SettleTakesDebts, timerVars, dnsVars, histVars, pathVars,
         MonitorTypeOK, CallbackTypeOK, TimersTypeOK, MonitorInv, Debts,
         SubstitutesMatchPath, moved
<1>13. (stale => live = NoServers)'
  BY DEF SettleTakesDebts, timerVars, dnsVars, histVars, pathVars, MonitorInv
<1> QED BY <1>5, <1>6, <1>7, <1>8, <1>9, <1>10, <1>11, <1>12, <1>13 DEF MonitorInv

(* SettleFlows(g) keeps the invariant. *)
LEMMA SettleFlowsPreserves ==
  ASSUME MonitorTypeOK, MonitorInv, NEW g \in Gens, SettleFlows(g)
  PROVE  MonitorTypeOK' /\ MonitorInv'
<1>1. PathTypeOK' /\ CallbackTypeOK'
  BY DEF SettleFlows, timerVars, dnsVars, histVars, pathVars, MonitorTypeOK,
         PathTypeOK, CallbackTypeOK, TimersTypeOK, Indices, UpdateSteps
<1>2. TimersTypeOK'
  BY DEF SettleFlows, timerVars, dnsVars, histVars, pathVars, MonitorTypeOK,
         PathTypeOK, CallbackTypeOK, TimersTypeOK, MonitorInv,
         GenerationsIssued, issuable, ArmsCurrent, Debts
<1>3. pending' \in Debts
  BY DEF SettleFlows, timerVars, dnsVars, histVars, pathVars, MonitorTypeOK,
         CallbackTypeOK, Debts, NoDebt
<1>4. settles' \in [Gens -> Debts]
  BY DEF SettleFlows, timerVars, dnsVars, histVars, pathVars, MonitorTypeOK,
         Debts
<1>5. MonitorTypeOK'
  BY <1>1, <1>2, <1>3, <1>4 DEF SettleFlows, timerVars, dnsVars, histVars,
         pathVars, MonitorTypeOK, CallbackTypeOK
<1>6. GenerationsIssued'
  BY DEF SettleFlows, timerVars, dnsVars, histVars, pathVars, MonitorTypeOK,
         CallbackTypeOK, TimersTypeOK, MonitorInv, Debts, GenerationsIssued,
         issuable
<1>7. ArmsCurrent'
  BY DEF SettleFlows, timerVars, dnsVars, histVars, pathVars, MonitorTypeOK,
         CallbackTypeOK, TimersTypeOK, MonitorInv, Debts, ArmsCurrent
<1>8. OneTimerPerGeneration'
  BY DEF SettleFlows, timerVars, dnsVars, histVars, pathVars, MonitorTypeOK,
         CallbackTypeOK, TimersTypeOK, MonitorInv, Debts,
         OneTimerPerGeneration, ArmsCurrent
<1>9. OneSettlePerGeneration'
  BY DEF SettleFlows, timerVars, dnsVars, histVars, pathVars, MonitorTypeOK,
         CallbackTypeOK, TimersTypeOK, MonitorInv, Debts,
         OneSettlePerGeneration, OneTimerPerGeneration, ArmsCurrent,
         idleSettle, NoDebt, Gens
<1>10. NothingOwedIsLost'
  BY DEF SettleFlows, timerVars, dnsVars, histVars, pathVars, MonitorTypeOK,
         CallbackTypeOK, TimersTypeOK, MonitorInv, Debts, NothingOwedIsLost,
         ArmsCurrent, owed, NoDebt
<1>11. OpenFlowsAreOwed'
  BY DEF SettleFlows, timerVars, dnsVars, histVars, pathVars, MonitorTypeOK,
         CallbackTypeOK, TimersTypeOK, MonitorInv, Debts, OpenFlowsAreOwed,
         OneSettlePerGeneration, idleSettle, NoDebt
<1>12. SubstitutesMatchPath'
  BY DEF SettleFlows, timerVars, dnsVars, histVars, pathVars, MonitorTypeOK,
         CallbackTypeOK, TimersTypeOK, MonitorInv, Debts,
         SubstitutesMatchPath, moved
<1>13. (stale => live = NoServers)'
  BY DEF SettleFlows, timerVars, dnsVars, histVars, pathVars, MonitorInv
<1> QED BY <1>5, <1>6, <1>7, <1>8, <1>9, <1>10, <1>11, <1>12, <1>13 DEF MonitorInv

(* SettleResolver(g) keeps the invariant. *)
LEMMA SettleResolverPreserves ==
  ASSUME MonitorTypeOK, MonitorInv, NEW g \in Gens, SettleResolver(g)
  PROVE  MonitorTypeOK' /\ MonitorInv'
<1>1. PathTypeOK' /\ CallbackTypeOK'
  BY DEF SettleResolver, timerVars, dnsVars, histVars, pathVars,
         MonitorTypeOK, PathTypeOK, CallbackTypeOK, TimersTypeOK, Indices,
         UpdateSteps
<1>2. TimersTypeOK'
  BY DEF SettleResolver, timerVars, dnsVars, histVars, pathVars,
         MonitorTypeOK, PathTypeOK, CallbackTypeOK, TimersTypeOK, MonitorInv,
         GenerationsIssued, issuable, ArmsCurrent, Debts
<1>3. pending' \in Debts
  BY DEF SettleResolver, timerVars, dnsVars, histVars, pathVars,
         MonitorTypeOK, CallbackTypeOK, Debts, NoDebt
<1>4. settles' \in [Gens -> Debts]
  BY DEF SettleResolver, timerVars, dnsVars, histVars, pathVars,
         MonitorTypeOK, Debts
<1>5. MonitorTypeOK'
  BY <1>1, <1>2, <1>3, <1>4 DEF SettleResolver, timerVars, dnsVars, histVars,
         pathVars, MonitorTypeOK, CallbackTypeOK
<1>6. GenerationsIssued'
  BY DEF SettleResolver, timerVars, dnsVars, histVars, pathVars,
         MonitorTypeOK, CallbackTypeOK, TimersTypeOK, MonitorInv, Debts,
         GenerationsIssued, issuable
<1>7. ArmsCurrent'
  BY DEF SettleResolver, timerVars, dnsVars, histVars, pathVars,
         MonitorTypeOK, CallbackTypeOK, TimersTypeOK, MonitorInv, Debts,
         ArmsCurrent
<1>8. OneTimerPerGeneration'
  BY DEF SettleResolver, timerVars, dnsVars, histVars, pathVars,
         MonitorTypeOK, CallbackTypeOK, TimersTypeOK, MonitorInv, Debts,
         OneTimerPerGeneration, ArmsCurrent
<1>9. OneSettlePerGeneration'
  BY DEF SettleResolver, timerVars, dnsVars, histVars, pathVars,
         MonitorTypeOK, CallbackTypeOK, TimersTypeOK, MonitorInv, Debts,
         OneSettlePerGeneration, OneTimerPerGeneration, ArmsCurrent,
         idleSettle, NoDebt, Gens
<1>10. NothingOwedIsLost'
  BY DEF SettleResolver, timerVars, dnsVars, histVars, pathVars,
         MonitorTypeOK, CallbackTypeOK, TimersTypeOK, MonitorInv, Debts,
         NothingOwedIsLost, ArmsCurrent, owed, NoDebt
<1>11. OpenFlowsAreOwed'
  BY DEF SettleResolver, timerVars, dnsVars, histVars, pathVars,
         MonitorTypeOK, CallbackTypeOK, TimersTypeOK, MonitorInv, Debts,
         OpenFlowsAreOwed, OneSettlePerGeneration, idleSettle, NoDebt
<1>12. SubstitutesMatchPath'
  BY DEF SettleResolver, timerVars, dnsVars, histVars, pathVars,
         MonitorTypeOK, CallbackTypeOK, TimersTypeOK, MonitorInv, Debts,
         SubstitutesMatchPath, moved
<1>13. (stale => live = NoServers)'
  BY DEF SettleResolver, timerVars, dnsVars, histVars, pathVars, MonitorInv
<1> QED BY <1>5, <1>6, <1>7, <1>8, <1>9, <1>10, <1>11, <1>12, <1>13 DEF MonitorInv

(* SettleWitness(g) keeps the invariant. *)
LEMMA SettleWitnessPreserves ==
  ASSUME MonitorTypeOK, MonitorInv, NEW g \in Gens, SettleWitness(g)
  PROVE  MonitorTypeOK' /\ MonitorInv'
<1>1. PathTypeOK' /\ CallbackTypeOK'
  BY DEF SettleWitness, timerVars, dnsVars, histVars, pathVars, MonitorTypeOK,
         PathTypeOK, CallbackTypeOK, TimersTypeOK, Indices, UpdateSteps
<1>2. TimersTypeOK'
  BY DEF SettleWitness, timerVars, dnsVars, histVars, pathVars, MonitorTypeOK,
         PathTypeOK, CallbackTypeOK, TimersTypeOK, MonitorInv,
         GenerationsIssued, issuable, ArmsCurrent, Debts
<1>3. pending' \in Debts
  BY DEF SettleWitness, timerVars, dnsVars, histVars, pathVars, MonitorTypeOK,
         CallbackTypeOK, Debts, NoDebt
<1>4. settles' \in [Gens -> Debts]
  BY DEF SettleWitness, timerVars, dnsVars, histVars, pathVars, MonitorTypeOK,
         Debts
<1>5. MonitorTypeOK'
  BY <1>1, <1>2, <1>3, <1>4 DEF SettleWitness, timerVars, dnsVars, histVars,
         pathVars, MonitorTypeOK, CallbackTypeOK
<1>6. GenerationsIssued'
  BY DEF SettleWitness, timerVars, dnsVars, histVars, pathVars, MonitorTypeOK,
         CallbackTypeOK, TimersTypeOK, MonitorInv, Debts, GenerationsIssued,
         issuable
<1>7. ArmsCurrent'
  BY DEF SettleWitness, timerVars, dnsVars, histVars, pathVars, MonitorTypeOK,
         CallbackTypeOK, TimersTypeOK, MonitorInv, Debts, ArmsCurrent
<1>8. OneTimerPerGeneration'
  BY DEF SettleWitness, timerVars, dnsVars, histVars, pathVars, MonitorTypeOK,
         CallbackTypeOK, TimersTypeOK, MonitorInv, Debts,
         OneTimerPerGeneration, ArmsCurrent
<1>9. OneSettlePerGeneration'
  BY DEF SettleWitness, timerVars, dnsVars, histVars, pathVars, MonitorTypeOK,
         CallbackTypeOK, TimersTypeOK, MonitorInv, Debts,
         OneSettlePerGeneration, OneTimerPerGeneration, ArmsCurrent,
         idleSettle, NoDebt, Gens
<1>10. NothingOwedIsLost'
  BY DEF SettleWitness, timerVars, dnsVars, histVars, pathVars, MonitorTypeOK,
         CallbackTypeOK, TimersTypeOK, MonitorInv, Debts, NothingOwedIsLost,
         ArmsCurrent, owed, NoDebt
<1>11. OpenFlowsAreOwed'
  BY DEF SettleWitness, timerVars, dnsVars, histVars, pathVars, MonitorTypeOK,
         CallbackTypeOK, TimersTypeOK, MonitorInv, Debts, OpenFlowsAreOwed,
         OneSettlePerGeneration, idleSettle, NoDebt
<1>12. SubstitutesMatchPath'
  BY DEF SettleWitness, timerVars, dnsVars, histVars, pathVars, MonitorTypeOK,
         CallbackTypeOK, TimersTypeOK, MonitorInv, Debts,
         SubstitutesMatchPath, moved
<1>13. (stale => live = NoServers)'
  BY DEF SettleWitness, timerVars, dnsVars, histVars, pathVars, MonitorInv
<1> QED BY <1>5, <1>6, <1>7, <1>8, <1>9, <1>10, <1>11, <1>12, <1>13 DEF MonitorInv

(* StopSettling keeps the invariant. *)
LEMMA StopSettlingPreserves ==
  ASSUME MonitorTypeOK, MonitorInv, StopSettling
  PROVE  MonitorTypeOK' /\ MonitorInv'
<1>1. PathTypeOK' /\ CallbackTypeOK'
  BY DEF StopSettling, timerVars, dnsVars, histVars, pathVars, MonitorTypeOK,
         PathTypeOK, CallbackTypeOK, TimersTypeOK, Indices, UpdateSteps
<1>2. TimersTypeOK'
  BY DEF StopSettling, timerVars, dnsVars, histVars, pathVars, MonitorTypeOK,
         PathTypeOK, CallbackTypeOK, TimersTypeOK, MonitorInv,
         GenerationsIssued, issuable, ArmsCurrent, Debts
<1>3. pending' \in Debts
  BY DEF StopSettling, timerVars, dnsVars, histVars, pathVars, MonitorTypeOK,
         CallbackTypeOK, Debts, NoDebt
<1>4. settles' \in [Gens -> Debts]
  BY DEF StopSettling, timerVars, dnsVars, histVars, pathVars, MonitorTypeOK,
         Debts
<1>5. MonitorTypeOK'
  BY <1>1, <1>2, <1>3, <1>4 DEF StopSettling, timerVars, dnsVars, histVars,
         pathVars, MonitorTypeOK, CallbackTypeOK
<1>6. GenerationsIssued'
  BY DEF StopSettling, timerVars, dnsVars, histVars, pathVars, MonitorTypeOK,
         CallbackTypeOK, TimersTypeOK, MonitorInv, Debts, GenerationsIssued,
         issuable
<1>7. ArmsCurrent'
  BY DEF StopSettling, timerVars, dnsVars, histVars, pathVars, MonitorTypeOK,
         CallbackTypeOK, TimersTypeOK, MonitorInv, Debts, ArmsCurrent
<1>8. OneTimerPerGeneration'
  BY DEF StopSettling, timerVars, dnsVars, histVars, pathVars, MonitorTypeOK,
         CallbackTypeOK, TimersTypeOK, MonitorInv, Debts,
         OneTimerPerGeneration, ArmsCurrent
<1>9. OneSettlePerGeneration'
  BY DEF StopSettling, timerVars, dnsVars, histVars, pathVars, MonitorTypeOK,
         CallbackTypeOK, TimersTypeOK, MonitorInv, Debts,
         OneSettlePerGeneration, OneTimerPerGeneration, ArmsCurrent,
         idleSettle, NoDebt, Gens
<1>10. NothingOwedIsLost'
  BY DEF StopSettling, timerVars, dnsVars, histVars, pathVars, MonitorTypeOK,
         CallbackTypeOK, TimersTypeOK, MonitorInv, Debts, NothingOwedIsLost,
         ArmsCurrent, owed, NoDebt
<1>11. OpenFlowsAreOwed'
  BY DEF StopSettling, timerVars, dnsVars, histVars, pathVars, MonitorTypeOK,
         CallbackTypeOK, TimersTypeOK, MonitorInv, Debts, OpenFlowsAreOwed,
         OneSettlePerGeneration, idleSettle, NoDebt
<1>12. SubstitutesMatchPath'
  BY DEF StopSettling, timerVars, dnsVars, histVars, pathVars, MonitorTypeOK,
         CallbackTypeOK, TimersTypeOK, MonitorInv, Debts,
         SubstitutesMatchPath, moved
<1>13. (stale => live = NoServers)'
  BY DEF StopSettling, timerVars, dnsVars, histVars, pathVars, MonitorInv
<1> QED BY <1>5, <1>6, <1>7, <1>8, <1>9, <1>10, <1>11, <1>12, <1>13 DEF MonitorInv

(* CloseMonitor keeps the invariant. *)
LEMMA CloseMonitorPreserves ==
  ASSUME MonitorTypeOK, MonitorInv, CloseMonitor
  PROVE  MonitorTypeOK' /\ MonitorInv'
<1>1. PathTypeOK' /\ CallbackTypeOK'
  BY DEF CloseMonitor, timerVars, dnsVars, histVars, pathVars, MonitorTypeOK,
         PathTypeOK, CallbackTypeOK, TimersTypeOK, Indices, UpdateSteps
<1>2. TimersTypeOK'
  BY DEF CloseMonitor, timerVars, dnsVars, histVars, pathVars, MonitorTypeOK,
         PathTypeOK, CallbackTypeOK, TimersTypeOK, MonitorInv,
         GenerationsIssued, issuable, ArmsCurrent, Debts
<1>3. pending' \in Debts
  BY DEF CloseMonitor, timerVars, dnsVars, histVars, pathVars, MonitorTypeOK,
         CallbackTypeOK, Debts, NoDebt
<1>4. settles' \in [Gens -> Debts]
  BY DEF CloseMonitor, timerVars, dnsVars, histVars, pathVars, MonitorTypeOK,
         Debts
<1>5. MonitorTypeOK'
  BY <1>1, <1>2, <1>3, <1>4 DEF CloseMonitor, timerVars, dnsVars, histVars,
         pathVars, MonitorTypeOK, CallbackTypeOK
<1>6. GenerationsIssued'
  BY DEF CloseMonitor, timerVars, dnsVars, histVars, pathVars, MonitorTypeOK,
         CallbackTypeOK, TimersTypeOK, MonitorInv, Debts, GenerationsIssued,
         issuable
<1>7. ArmsCurrent'
  BY DEF CloseMonitor, timerVars, dnsVars, histVars, pathVars, MonitorTypeOK,
         CallbackTypeOK, TimersTypeOK, MonitorInv, Debts, ArmsCurrent
<1>8. OneTimerPerGeneration'
  BY DEF CloseMonitor, timerVars, dnsVars, histVars, pathVars, MonitorTypeOK,
         CallbackTypeOK, TimersTypeOK, MonitorInv, Debts,
         OneTimerPerGeneration, ArmsCurrent
<1>9. OneSettlePerGeneration'
  BY DEF CloseMonitor, timerVars, dnsVars, histVars, pathVars, MonitorTypeOK,
         CallbackTypeOK, TimersTypeOK, MonitorInv, Debts,
         OneSettlePerGeneration, OneTimerPerGeneration, ArmsCurrent,
         idleSettle, NoDebt, Gens
<1>10. NothingOwedIsLost'
  BY DEF CloseMonitor, timerVars, dnsVars, histVars, pathVars, MonitorTypeOK,
         CallbackTypeOK, TimersTypeOK, MonitorInv, Debts, NothingOwedIsLost,
         ArmsCurrent, owed, NoDebt
<1>11. OpenFlowsAreOwed'
  BY DEF CloseMonitor, timerVars, dnsVars, histVars, pathVars, MonitorTypeOK,
         CallbackTypeOK, TimersTypeOK, MonitorInv, Debts, OpenFlowsAreOwed,
         OneSettlePerGeneration, idleSettle, NoDebt
<1>12. SubstitutesMatchPath'
  BY DEF CloseMonitor, timerVars, dnsVars, histVars, pathVars, MonitorTypeOK,
         CallbackTypeOK, TimersTypeOK, MonitorInv, Debts,
         SubstitutesMatchPath, moved
<1>13. (stale => live = NoServers)'
  BY DEF CloseMonitor, timerVars, dnsVars, histVars, pathVars, MonitorInv
<1> QED BY <1>5, <1>6, <1>7, <1>8, <1>9, <1>10, <1>11, <1>12, <1>13 DEF MonitorInv

(* Every step of the monitor keeps the invariant.                             *)
LEMMA NextPreserves ==
  MonitorTypeOK /\ MonitorInv /\ [MonitorNext]_monitorVars
    => MonitorTypeOK' /\ MonitorInv'
<1> SUFFICES ASSUME MonitorTypeOK, MonitorInv, [MonitorNext]_monitorVars
             PROVE  MonitorTypeOK' /\ MonitorInv'
  OBVIOUS
<1>1. CASE Callback
  BY <1>1, RefreshResolversPreserves, UpdateDefaultInterfacePreserves,
         OweFlowsPreserves, OweWitnessPreserves, OweResolverPreserves,
         NothingToSchedulePreserves, ScheduleSettlePreserves,
         ArmSettlePreserves, StoreStopPreserves,
         MarkSystemSubstitutesPreserves DEF Callback
<1>2. ASSUME NEW g \in Gens, Settle(g)
      PROVE  MonitorTypeOK' /\ MonitorInv'
  BY <1>2, TimerFiresPreserves, SettleDroppedPreserves,
         SettleTakesDebtsPreserves, SettleFlowsPreserves,
         SettleResolverPreserves, SettleWitnessPreserves DEF Settle
<1>3. CASE StopSettling \/ CloseMonitor
  BY <1>3, StopSettlingPreserves, CloseMonitorPreserves
<1>4. CASE UNCHANGED monitorVars
  BY <1>4 DEF monitorVars, timerVars, dnsVars, histVars, pathVars,
         MonitorTypeOK, PathTypeOK, CallbackTypeOK, TimersTypeOK, MonitorInv,
         GenerationsIssued, issuable, ArmsCurrent, OneTimerPerGeneration,
         OneSettlePerGeneration, NothingOwedIsLost, OpenFlowsAreOwed,
         idleSettle, SubstitutesMatchPath, owed, moved
<1> QED BY <1>1, <1>2, <1>3, <1>4 DEF MonitorNext

(* The state of the monitor is well typed and the debts, timers, settles and  *)
(* substitutes are accounted for, in every reachable state.                   *)
THEOREM MonitorInvariant == MonitorSpec => [](MonitorTypeOK /\ MonitorInv)
<1>1. MonitorInit => MonitorTypeOK /\ MonitorInv
  BY InitEstablishes
<1>2. MonitorTypeOK /\ MonitorInv /\ [MonitorNext]_monitorVars
        => MonitorTypeOK' /\ MonitorInv'
  BY NextPreserves
<1> QED BY <1>1, <1>2, PTL DEF MonitorSpec

(* A reset that UpdateDefaultInterface owes always has the current            *)
(* generation's timer behind it, for any number of updates.                   *)
THEOREM NothingOwedIsLostHolds == MonitorSpec => []NothingOwedIsLost
<1>1. MonitorInv => NothingOwedIsLost
  BY DEF MonitorInv
<1> QED BY <1>1, MonitorInvariant, PTL

(* At rest, the flows of every path left behind have been closed since.       *)
THEOREM OldFlowsAreClosedHolds == MonitorSpec => []OldFlowsAreClosed
<1>1. MonitorInv => OldFlowsAreClosed
  BY DEF MonitorInv, OpenFlowsAreOwed, OldFlowsAreClosed, Settled, idleSettle, owed
<1> QED BY <1>1, MonitorInvariant, PTL

(* The substitutes of `system` nameservers match the path in force.           *)
THEOREM SubstitutesMatchPathHolds == MonitorSpec => []SubstitutesMatchPath
<1>1. MonitorInv => SubstitutesMatchPath
  BY DEF MonitorInv
<1> QED BY <1>1, MonitorInvariant, PTL
===============================================================================

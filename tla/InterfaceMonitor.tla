-------------------------- MODULE InterfaceMonitor --------------------------
(* The default path monitor, bind/hako/monitor.go: one interfaceUpdater from  *)
(* startInterfaceMonitor to closeInterfaceMonitor.  The platform's callbacks  *)
(* publish a new path at once and owe three resets (tracked flows, resolver,  *)
(* witness); a timer pays the debts when the path has held still for          *)
(* pathSettleDelay.  Callbacks are serialised by u.mu, the debts are guarded  *)
(* by settleMu, and a settle that has taken its debts works without a lock,   *)
(* so several settles, one callback and the closing service interleave.       *)
EXTENDS PathState

CONSTANTS
  Servers,               \* resolver lists a path can expose
  NoServers,
  Families, Costs,       \* values of a path's address families and of its cost
  MaxUpdates             \* bound on applied updates

ASSUME MonitorConstants ==
  /\ MaxUpdates \in Nat /\ NoServers \notin Servers
  /\ Families \subseteq BOOLEAN /\ Costs \subseteq BOOLEAN

VARIABLES
  u,                     \* identity and attributes of the path last applied
  upd,                   \* where the callback holding u.mu stands
  pending,               \* pendingFlows, pendingResolver, pendingWitness, pendingIndex
  settleGen, settleStop, \* settleStop: generation of the timer it stops, or 0
  armed,                 \* timers not fired yet, by generation
  fired,                 \* timers whose settle has not got settleMu yet
  settles,               \* settles that took their debts, by generation
  stopped, closed,       \* closed: the platform's monitor has been closed
  live, stale,           \* the `system` substitutes kept in package dns
  flowsClosedAt,         \* history: value of moves at the last flow reset
  told                   \* history: the path the witness was last told

timerVars == <<settleGen, settleStop, armed, fired>>
dnsVars == <<live, stale>>
histVars == <<flowsClosedAt, told>>
monitorVars == <<pathVars, u, upd, pending, timerVars, settles, stopped, closed,
                 dnsVars, histVars>>

NotTold == -1
Indices == Paths \cup {NoPath}
Gens == 1..(MaxUpdates + 1)
UpdateSteps == {"idle", "flows", "witness", "resolver", "schedule", "arm",
                "store", "mark"}
Debts == [flows : BOOLEAN, resolver : BOOLEAN, witness : BOOLEAN, index : Indices]
NoDebt(index) ==
  [flows |-> FALSE, resolver |-> FALSE, witness |-> FALSE, index |-> index]

CallbackTypeOK ==
  /\ u \in [initialized : BOOLEAN, index : Indices, initialIndex : Indices,
            families : BOOLEAN, cost : BOOLEAN, applied : 0..MaxUpdates]
  /\ upd \in [pc : UpdateSteps, first : BOOLEAN, identity : BOOLEAN,
              families : BOOLEAN, gen : Nat]

TimersTypeOK ==
  /\ upd.gen <= settleGen
  /\ settleGen \in 0..(MaxUpdates + 1) /\ settleStop \in 0..settleGen
  /\ armed \subseteq 1..settleGen /\ fired \subseteq 1..settleGen
  /\ stopped \in BOOLEAN /\ closed \in BOOLEAN
  /\ flowsClosedAt \in Nat /\ told \in Indices \cup {NotTold}

(* The state stays within its types: no debt, timer or settle refers to a     *)
(* generation that scheduleSettle has not issued.                             *)
MonitorTypeOK ==
  /\ PathTypeOK
  /\ CallbackTypeOK
  /\ TimersTypeOK
  /\ pending \in Debts
  /\ settles \in [Gens -> Debts]
  /\ live \in Servers \cup {NoServers} /\ stale \in BOOLEAN

------------------------------------------------------------------------------
(* The callback, UpdateDefaultInterface.                                      *)

MonitorInit ==
  /\ PathInit
  /\ u = [initialized |-> FALSE, index |-> NoPath, initialIndex |-> NoPath,
          families |-> FALSE, cost |-> FALSE, applied |-> 0]
  /\ upd = [pc |-> "idle", first |-> FALSE, identity |-> FALSE,
            families |-> FALSE, gen |-> 0]
  /\ pending = NoDebt(NoPath)
  /\ settleGen = 0 /\ settleStop = 0
  /\ armed = {} /\ fired = {}
  /\ settles = [g \in Gens |-> NoDebt(NoPath)]
  /\ stopped = FALSE /\ closed = FALSE
  /\ live \in Servers \cup {NoServers}  \* a previous service's may be left
  /\ stale = FALSE
  /\ flowsClosedAt = 0 /\ told = NotTold

moved == u.index # u.initialIndex

(* A mutant: the previous path's resolvers are not dropped.                   *)
publishKeepsOldResolvers(usable) ==
  IF usable = NoServers
  THEN live' = live /\ stale' = moved
  ELSE live' = usable /\ stale' = IF usable = live THEN stale ELSE FALSE

(* `usable` is what readPhysicalResolvers finds usable on the current path.   *)
publishLivePhysicalResolvers(usable) ==
  IF usable = NoServers
  THEN live' = NoServers /\ stale' = moved
  ELSE live' = usable /\ stale' = IF usable = live THEN stale ELSE FALSE

(* A callback that changes nothing re-reads the resolvers when the DNS        *)
(* configuration changed; refreshLivePhysicalResolvers does the same for dns. *)
RefreshResolvers ==
  /\ upd.pc = "idle" /\ u.initialized /\ ~closed
  /\ \E usable \in Servers \cup {NoServers} : publishLivePhysicalResolvers(usable)
  /\ UNCHANGED <<pathVars, u, upd, pending, timerVars, settles, stopped, closed,
                 histVars>>

(* A callback that changes something, up to its first debt.                   *)
UpdateDefaultInterface(index, families, cost) ==
  /\ upd.pc = "idle" /\ ~closed
  /\ u.applied < MaxUpdates
  /\ \/ ~u.initialized
     \/ index # u.index \/ families # u.families \/ cost # u.cost
  /\ u' = [initialized |-> TRUE, index |-> index,
           initialIndex |-> IF u.initialized THEN u.initialIndex ELSE index,
           families |-> families, cost |-> cost, applied |-> u.applied + 1]
  /\ publishPath(index, u.initialized /\ index # u.index)
  /\ upd' = [pc |-> "flows", first |-> ~u.initialized, identity |-> index # u.index,
             families |-> families # u.families, gen |-> 0]
  /\ UNCHANGED <<pending, timerVars, settles, stopped, closed, dnsVars, histVars>>

UpdateStep(from, to) ==
  /\ upd.pc = from
  /\ upd' = [upd EXCEPT !.pc = to]
  /\ UNCHANGED <<pathVars, u, stopped, closed, histVars>>

(* A mutant: only a change of identity closes the flows, and not the one that *)
(* leaves for no path.                                                        *)
OweFlowsUnlessGone ==
  /\ UpdateStep("flows", "witness")
  /\ pending' = [pending EXCEPT !.flows =
       @ \/ (~upd.first /\ (upd.identity \/ upd.families) /\ u.index # NoPath)]
  /\ UNCHANGED <<timerVars, settles, dnsVars>>

OweFlows ==
  /\ UpdateStep("flows", "witness")
  /\ pending' = [pending EXCEPT !.flows =
       @ \/ (~upd.first /\ (upd.identity \/ upd.families))]
  /\ UNCHANGED <<timerVars, settles, dnsVars>>

OweWitness ==
  /\ UpdateStep("witness", "resolver")
  /\ pending' = [pending EXCEPT !.witness = @ \/ (~upd.first /\ upd.identity)]
  /\ UNCHANGED <<timerVars, settles, dnsVars>>

shouldResetResolverForPathUpdate == TRUE

OweResolver ==
  /\ UpdateStep("resolver", "schedule")
  /\ pending' = [pending EXCEPT !.resolver = @ \/ shouldResetResolverForPathUpdate]
  /\ UNCHANGED <<timerVars, settles, dnsVars>>

owed == pending.flows \/ pending.resolver \/ pending.witness

NothingToSchedule ==
  /\ stopped \/ ~owed
  /\ UpdateStep("schedule", "mark")
  /\ UNCHANGED <<pending, timerVars, settles, dnsVars>>

(* A mutant: the running timer is stopped, and relied on.                     *)
ScheduleSettleOnRunningTimer ==
  /\ upd.pc = "schedule" /\ ~stopped /\ owed
  /\ pending' = [pending EXCEPT !.index = u.index]
  /\ settleGen' = IF settleStop = 0 THEN settleGen + 1 ELSE settleGen
  /\ armed' = armed \ {settleStop}
  /\ upd' = [upd EXCEPT !.pc = IF settleStop = 0 THEN "arm" ELSE "mark",
                        !.gen = settleGen']
  /\ UNCHANGED <<pathVars, u, settleStop, fired, settles, stopped, closed, dnsVars,
                 histVars>>

(* scheduleSettle: a new generation, and the timer of the last one stopped.   *)
ScheduleSettle ==
  /\ upd.pc = "schedule" /\ ~stopped /\ owed
  /\ pending' = [pending EXCEPT !.index = u.index]
  /\ settleGen' = settleGen + 1
  /\ armed' = armed \ {settleStop}
  /\ upd' = [upd EXCEPT !.pc = "arm", !.gen = settleGen + 1]
  /\ UNCHANGED <<pathVars, u, settleStop, fired, settles, stopped, closed, dnsVars,
                 histVars>>

(* A mutant: the timer is armed for the generation after the one issued.      *)
ArmNextGeneration ==
  /\ UpdateStep("arm", "store")
  /\ armed' = armed \cup {upd.gen + 1}
  /\ UNCHANGED <<pending, settleGen, settleStop, fired, settles, dnsVars>>

(* The timer is created without settleMu.                                     *)
ArmSettle ==
  /\ UpdateStep("arm", "store")
  /\ armed' = armed \cup {upd.gen}
  /\ UNCHANGED <<pending, settleGen, settleStop, fired, settles, dnsVars>>

StoreStop ==
  /\ UpdateStep("store", "mark")
  /\ settleStop' = IF upd.gen = settleGen THEN upd.gen ELSE settleStop
  /\ UNCHANGED <<pending, settleGen, armed, fired, settles, dnsVars>>

MarkSystemSubstitutes ==
  /\ UpdateStep("mark", "idle")
  /\ \E usable \in Servers \cup {NoServers} : publishLivePhysicalResolvers(usable)
  /\ UNCHANGED <<pending, timerVars, settles>>

------------------------------------------------------------------------------
(* The timer and the settle it runs.                                          *)

TimerFires(g) ==
  /\ g \in armed
  /\ armed' = armed \ {g} /\ fired' = fired \cup {g}
  /\ UNCHANGED <<pathVars, u, upd, pending, settleGen, settleStop, settles, stopped,
                 closed, dnsVars, histVars>>

SettleDropped(g) ==
  /\ g \in fired
  /\ stopped \/ g # settleGen
  /\ fired' = fired \ {g}
  /\ UNCHANGED <<pathVars, u, upd, pending, settleGen, settleStop, armed, settles,
                 stopped, closed, dnsVars, histVars>>


SettleTakesDebts(g) ==
  /\ g \in fired
  /\ ~stopped /\ g = settleGen
  /\ fired' = fired \ {g}
  /\ settles' = [settles EXCEPT ![g] = pending]
  /\ pending' = NoDebt(pending.index)
  /\ settleStop' = 0
  /\ UNCHANGED <<pathVars, u, upd, settleGen, armed, stopped, closed, dnsVars, histVars>>

SettleFlows(g) ==
  /\ settles[g].flows
  /\ settles' = [settles EXCEPT ![g].flows = FALSE]
  /\ flowsClosedAt' = moves
  /\ UNCHANGED <<pathVars, u, upd, pending, timerVars, stopped, closed, dnsVars, told>>

SettleResolver(g) ==
  /\ ~settles[g].flows /\ settles[g].resolver
  /\ settles' = [settles EXCEPT ![g].resolver = FALSE]
  /\ UNCHANGED <<pathVars, u, upd, pending, timerVars, stopped, closed, dnsVars,
                 histVars>>

SettleWitness(g) ==
  /\ ~settles[g].flows /\ ~settles[g].resolver /\ settles[g].witness
  /\ settles' = [settles EXCEPT ![g].witness = FALSE]
  /\ told' = settles[g].index
  /\ UNCHANGED <<pathVars, u, upd, pending, timerVars, stopped, closed, dnsVars,
                 flowsClosedAt>>

------------------------------------------------------------------------------
(* closeInterfaceMonitor.  The platform's CloseDefaultInterfaceMonitor is     *)
(* taken to return only when no callback is running.                          *)

StopSettling ==
  /\ ~stopped
  /\ stopped' = TRUE
  /\ settleGen' = settleGen + 1
  /\ armed' = armed \ {settleStop}
  /\ settleStop' = 0
  /\ UNCHANGED <<pathVars, u, upd, pending, fired, settles, closed, dnsVars, histVars>>

CloseMonitor ==
  /\ stopped /\ ~closed /\ upd.pc = "idle"
  /\ closed' = TRUE
  /\ publishedIndex' = NoPath
  /\ networkPaused' = FALSE
  /\ UNCHANGED <<suspendedFor, moves, measuredAt, u, upd, pending, timerVars, settles,
                 stopped, dnsVars, histVars>>

Callback ==
  \/ RefreshResolvers
  \/ \E index \in Indices, families \in Families, cost \in Costs :
        UpdateDefaultInterface(index, families, cost)
  \/ OweFlows \/ OweWitness \/ OweResolver
  \/ NothingToSchedule \/ ScheduleSettle \/ ArmSettle \/ StoreStop
  \/ MarkSystemSubstitutes

Settle(g) ==
  \/ TimerFires(g) \/ SettleDropped(g) \/ SettleTakesDebts(g)
  \/ SettleFlows(g) \/ SettleResolver(g) \/ SettleWitness(g)

MonitorNext ==
  \/ Callback
  \/ \E g \in Gens : Settle(g)
  \/ StopSettling \/ CloseMonitor

(* A running callback goes on, a set timer fires and a running settle goes    *)
(* on: they are runnable goroutines and an AfterFunc timer.  No new callback  *)
(* is promised.                                                               *)
MonitorFairness ==
  /\ WF_monitorVars(upd.pc # "idle" /\ Callback)
  /\ \A g \in Gens : WF_monitorVars(Settle(g))

MonitorSpec == MonitorInit /\ [][MonitorNext]_monitorVars
FairMonitorSpec == MonitorSpec /\ MonitorFairness

------------------------------------------------------------------------------
(* Properties.                                                                *)

idleSettle(g) == ~settles[g].flows /\ ~settles[g].resolver /\ ~settles[g].witness

(* The monitor is at rest: no callback runs and nothing is owed or being      *)
(* settled.                                                                   *)
Settled ==
  /\ upd.pc = "idle" /\ ~owed
  /\ \A g \in Gens : idleSettle(g)

(* A reset that a callback owes is never lost: while the monitor runs and no  *)
(* callback is on its way to scheduleSettle, a debt has the timer of the      *)
(* current generation behind it, however timers, settles and callbacks raced. *)
NothingOwedIsLost ==
  owed /\ ~stopped /\ upd.pc \in {"idle", "store", "mark"}
    => settleGen \in armed \cup fired

(* Every change of the path's identity has had the flows of the old path      *)
(* closed after it was published, once the monitor is at rest, even when the  *)
(* debt was paid by a settle that an earlier callback had started.            *)
OldFlowsAreClosed == Settled /\ ~stopped => flowsClosedAt = moves

(* `system` nameservers answer from the resolvers of the path in force: they  *)
(* are marked stale exactly when the path has left the initial one and shows  *)
(* no resolvers of its own, also after an unchanged list was published again. *)
SubstitutesMatchPath ==
  u.initialized /\ upd.pc = "idle" => (stale <=> (live = NoServers /\ moved))

(* How many generations can have been issued: one per applied update that got *)
(* past scheduleSettle, and one for the stop.                                 *)
issuable ==
  (IF upd.pc \in {"flows", "witness", "resolver", "schedule"}
   THEN u.applied - 1 ELSE u.applied) + (IF stopped THEN 1 ELSE 0)

GenerationsIssued == settleGen <= issuable

ArmsCurrent ==
  upd.pc \in {"arm", "store"} => upd.gen >= 1 /\ (~stopped => upd.gen = settleGen)

OneTimerPerGeneration ==
  /\ armed \cap fired = {}
  /\ upd.pc = "arm" => upd.gen \notin armed \cup fired

OneSettlePerGeneration ==
  \A g \in Gens : ~idleSettle(g) =>
    /\ g <= settleGen
    /\ g \notin armed \cup fired
    /\ ~(upd.pc = "arm" /\ upd.gen = g)

OpenFlowsAreOwed ==
  \/ flowsClosedAt = moves
  \/ upd.pc = "flows" /\ ~upd.first /\ upd.identity
  \/ pending.flows
  \/ \E g \in Gens : settles[g].flows

(* What makes the properties above inductive.  A generation has one timer and *)
(* one settle; a callback that arms a timer arms it for the current one       *)
(* unless the monitor stopped meanwhile; a change of the path whose flows are *)
(* still open is in the callback, in the debts or in a settle; and marking    *)
(* the substitutes stale drops the live ones.                                 *)
MonitorInv ==
  /\ GenerationsIssued
  /\ ArmsCurrent
  /\ OneTimerPerGeneration
  /\ OneSettlePerGeneration
  /\ NothingOwedIsLost
  /\ OpenFlowsAreOwed
  /\ stale => live = NoServers
  /\ SubstitutesMatchPath


(* What TestABurstOfPathCallbacksIsResetOnceWhenThePathSettles expects of the *)
(* index the witness is told: at rest it is the path's.                       *)
WitnessToldCurrentPath == Settled /\ ~stopped /\ told # NotTold => told = u.index
==============================================================================

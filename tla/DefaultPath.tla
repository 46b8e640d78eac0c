----------------------------- MODULE DefaultPath -----------------------------
(* The monitor and the witness together: the settle's last step is the        *)
(* witness's pathChanged, the monitor's close is its reset, and both write    *)
(* the process-wide path state.                                               *)
EXTENDS InterfaceMonitor, BearerWitness

monitorOwn == <<u, upd, pending, timerVars, settles, stopped, closed, dnsVars, histVars>>
vars == <<monitorVars, witnessVars>>

Init == MonitorInit /\ WitnessInit

SettlePathChanged(g) == SettleWitness(g) /\ pathChanged(settles[g].index)

Close == CloseMonitor /\ reset

(* A mutant: a settle tells the witness of nothing when there is no path.     *)
SettleStepSkipsNoPath(g) ==
  \/ /\ TimerFires(g) \/ SettleDropped(g) \/ SettleTakesDebts(g)
        \/ SettleFlows(g) \/ SettleResolver(g)
        \/ (SettleWitness(g) /\ settles[g].index = NoPath)
     /\ UNCHANGED witnessVars
  \/ SettlePathChanged(g) /\ settles[g].index # NoPath

SettleStep(g) ==
  \/ /\ TimerFires(g) \/ SettleDropped(g) \/ SettleTakesDebts(g)
        \/ SettleFlows(g) \/ SettleResolver(g)
     /\ UNCHANGED witnessVars
  \/ SettlePathChanged(g)

Next ==
  \/ Callback /\ UNCHANGED witnessVars
  \/ \E g \in Gens : SettleStep(g)
  \/ StopSettling /\ UNCHANGED witnessVars
  \/ Close
  \/ WitnessNext /\ UNCHANGED monitorOwn

Spec == Init /\ [][Next]_vars

(* An outage in force once the path is at rest was measured on that path: no  *)
(* run that began before the last change of the path can leave its outage     *)
(* behind, although the witness hears of the change 250 ms late and a run may *)
(* end at any moment in between.                                              *)
OutageMeasuredOnThisPath ==
  Settled /\ ~stopped /\ outageSince # 0 => runs[outageSince].at = moves

(* What the witness says when it suspends the binding ("until the path next   *)
(* changes") and the socket hook when it honours it: a suspension in force    *)
(* once the path is at rest was measured on that path.                        *)
SuspensionMeasuredOnThisPath ==
  Settled /\ ~stopped /\ bindingSuspended(publishedIndex) => measuredAt = moves
==============================================================================

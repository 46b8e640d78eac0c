---------------------------- MODULE PauseLifecycle ----------------------------
(* Device pauses, bind/hako/service.go and component/pause.  The app pauses a *)
(* service when the device sleeps and wakes it when it wakes; the pause       *)
(* itself is one flag of the process, which every service writes.  On iOS a   *)
(* timer ends a pause whose wake never comes.  Close gives a pause back if    *)
(* the service counted more pauses than wakes.                                *)
EXTENDS Integers, FiniteSets

CONSTANTS
  Services,
  IOS,                   \* inheritsIOSPacketTunnelBehavior
  Overlap,               \* whether the app closes a service during a call
  MaxPauses, MaxWakes    \* bounds on the calls of one service

ASSUME PauseConstants ==
  /\ IOS \in BOOLEAN /\ Overlap \in BOOLEAN
  /\ MaxPauses \in Nat /\ MaxWakes \in Nat

VARIABLES
  devicePaused,          \* the pause manager's device flag
  pauseCount, wakeCount,
  timer,                 \* endPauseTimer: none, armed, or expired or stopped
  waking,                \* expired timers whose goroutine has yet to wake
  call,                  \* where the service's Pause or Wake call is
  closing                \* where its Close is

pauseVars == <<devicePaused, pauseCount, wakeCount, timer, waking, call, closing>>

PauseTypeOK ==
  /\ devicePaused \in BOOLEAN
  /\ pauseCount \in [Services -> 0..MaxPauses]
  /\ wakeCount \in [Services -> 0..MaxWakes]
  /\ timer \in [Services -> {"none", "armed", "idle"}]
  /\ waking \in [Services -> Nat]
  /\ call \in [Services -> {"none", "pausing", "arming", "waking"}]
  /\ closing \in [Services -> {"open", "counting", "waking", "closed"}]

PauseInit ==
  /\ devicePaused = FALSE
  /\ pauseCount = [s \in Services |-> 0] /\ wakeCount = [s \in Services |-> 0]
  /\ timer = [s \in Services |-> "none"] /\ waking = [s \in Services |-> 0]
  /\ call = [s \in Services |-> "none"] /\ closing = [s \in Services |-> "open"]

------------------------------------------------------------------------------
mayCall(s) == call[s] = "none" /\ (closing[s] = "open" \/ (Overlap /\ closing[s] # "closed"))

DevicePause == devicePaused' = TRUE
DeviceWake == devicePaused' = FALSE

(* Pause, one action per shared write.                                        *)
PauseCounts(s) ==
  /\ mayCall(s) /\ pauseCount[s] < MaxPauses
  /\ pauseCount' = [pauseCount EXCEPT ![s] = @ + 1]
  /\ call' = [call EXCEPT ![s] = "pausing"]
  /\ UNCHANGED <<devicePaused, wakeCount, timer, waking, closing>>

PauseDevice(s) ==
  /\ call[s] = "pausing"
  /\ DevicePause
  /\ call' = [call EXCEPT ![s] = "arming"]
  /\ UNCHANGED <<pauseCount, wakeCount, timer, waking, closing>>

(* A mutant: only the first pause arms the timer.                             *)
armOnce(s) ==
  /\ call[s] = "arming"
  /\ timer' = IF IOS /\ timer[s] = "none" THEN [timer EXCEPT ![s] = "armed"] ELSE timer
  /\ call' = [call EXCEPT ![s] = "none"]
  /\ UNCHANGED <<devicePaused, pauseCount, wakeCount, waking, closing>>

(* AfterFunc the first time and Reset after: both leave the timer running.    *)
armEndPauseTimer(s) ==
  /\ call[s] = "arming"
  /\ timer' = IF IOS THEN [timer EXCEPT ![s] = "armed"] ELSE timer
  /\ call' = [call EXCEPT ![s] = "none"]
  /\ UNCHANGED <<devicePaused, pauseCount, wakeCount, waking, closing>>

(* Wake does not stop the timer.                                              *)
WakeCounts(s) ==
  /\ mayCall(s) /\ wakeCount[s] < MaxWakes
  /\ wakeCount' = [wakeCount EXCEPT ![s] = @ + 1]
  /\ call' = [call EXCEPT ![s] = "waking"]
  /\ UNCHANGED <<devicePaused, pauseCount, timer, waking, closing>>

WakeDevice(s) ==
  /\ call[s] = "waking"
  /\ DeviceWake
  /\ call' = [call EXCEPT ![s] = "none"]
  /\ UNCHANGED <<pauseCount, wakeCount, timer, waking, closing>>

(* A mutant: the timer runs on from one expiry to the next, and wakes no one. *)
TimerRunsOn(s) ==
  /\ timer[s] = "armed"
  /\ UNCHANGED pauseVars

(* The end-pause timer, and the goroutine it starts.                          *)
TimerExpires(s) ==
  /\ timer[s] = "armed"
  /\ timer' = [timer EXCEPT ![s] = "idle"]
  /\ waking' = [waking EXCEPT ![s] = @ + 1]
  /\ UNCHANGED <<devicePaused, pauseCount, wakeCount, call, closing>>

(* A mutant: the goroutine of a timer that did not expire runs too.           *)
TimerWakesUnasked(s) ==
  /\ waking' = [waking EXCEPT ![s] = @ - 1]
  /\ DeviceWake
  /\ UNCHANGED <<pauseCount, wakeCount, timer, call, closing>>

TimerWakes(s) ==
  /\ waking[s] > 0
  /\ waking' = [waking EXCEPT ![s] = @ - 1]
  /\ DeviceWake
  /\ UNCHANGED <<pauseCount, wakeCount, timer, call, closing>>

(* releasePauseOnClose: stop the timer, compare the counts, wake.             *)
CloseStopsTimer(s) ==
  /\ closing[s] = "open" /\ (Overlap \/ call[s] = "none")
  /\ timer' = [timer EXCEPT ![s] = IF @ = "none" THEN @ ELSE "idle"]
  /\ closing' = [closing EXCEPT ![s] = "counting"]
  /\ UNCHANGED <<devicePaused, pauseCount, wakeCount, waking, call>>

CloseCounts(s) ==
  /\ closing[s] = "counting"
  /\ closing' = [closing EXCEPT ![s] =
                   IF pauseCount[s] > wakeCount[s] THEN "waking" ELSE "closed"]
  /\ UNCHANGED <<devicePaused, pauseCount, wakeCount, timer, waking, call>>

CloseWakes(s) ==
  /\ closing[s] = "waking"
  /\ DeviceWake
  /\ closing' = [closing EXCEPT ![s] = "closed"]
  /\ UNCHANGED <<pauseCount, wakeCount, timer, waking, call>>

PauseSteps(s) ==
  \/ PauseDevice(s) \/ armEndPauseTimer(s) \/ WakeDevice(s)
  \/ TimerExpires(s) \/ TimerWakes(s)

PauseNext ==
  \E s \in Services :
    \/ PauseCounts(s) \/ WakeCounts(s) \/ PauseSteps(s)
    \/ CloseStopsTimer(s) \/ CloseCounts(s) \/ CloseWakes(s)

PauseSpec == PauseInit /\ [][PauseNext]_pauseVars

(* Calls return, timers expire and their goroutines run.                      *)
FairPauseSpec == PauseSpec /\ \A s \in Services : WF_pauseVars(PauseSteps(s))

------------------------------------------------------------------------------
(* Properties.                                                                *)

(* On iOS a pause of open services always has its backstop behind it, through *)
(* repeated pauses, wakes that leave the timer running and timers that expire *)
(* while the next pause is being made.                                        *)
PauseIsTimed ==
  (IOS /\ devicePaused) =>
    \E s \in Services : \/ timer[s] = "armed" \/ waking[s] > 0
                        \/ call[s] = "arming" \/ closing[s] # "open"

(* On iOS every pause ends or a service is closed.                            *)
PauseEnds == devicePaused ~> (~devicePaused \/ \E s \in Services : closing[s] # "open")

(* What TestCloseWakesTheDeviceItPaused says: closed services leave no pause  *)
(* behind for the next one to inherit.                                        *)
NoPauseAfterClose ==
  (\A s \in Services : closing[s] = "closed" /\ call[s] = "none") => ~devicePaused
==============================================================================

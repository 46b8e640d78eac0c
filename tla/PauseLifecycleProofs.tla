------------------------- MODULE PauseLifecycleProofs -------------------------
(* The backstop of a device pause, for any services and any number of calls.  *)
EXTENDS PauseLifecycle, TLAPS

USE PauseConstants

(* Every step keeps the types.                                                *)
LEMMA PauseTypesKept ==
  ASSUME PauseTypeOK, [PauseNext]_pauseVars
  PROVE  PauseTypeOK'
<1> USE DEF PauseTypeOK
<1>1. ASSUME NEW s \in Services, PauseCounts(s) PROVE PauseTypeOK'
  BY <1>1 DEF PauseCounts
<1>2. ASSUME NEW s \in Services, WakeCounts(s) PROVE PauseTypeOK'
  BY <1>2 DEF WakeCounts
<1>3. ASSUME NEW s \in Services, PauseDevice(s) PROVE PauseTypeOK'
  BY <1>3 DEF PauseDevice, DevicePause
<1>4. ASSUME NEW s \in Services, armEndPauseTimer(s) PROVE PauseTypeOK'
  BY <1>4 DEF armEndPauseTimer
<1>5. ASSUME NEW s \in Services, WakeDevice(s) PROVE PauseTypeOK'
  BY <1>5 DEF WakeDevice, DeviceWake
<1>6. ASSUME NEW s \in Services, TimerExpires(s) PROVE PauseTypeOK'
  BY <1>6 DEF TimerExpires
<1>7. ASSUME NEW s \in Services, TimerWakes(s) PROVE PauseTypeOK'
  <2>1. waking' \in [Services -> Nat]
    <3>1. waking[s] \in Nat /\ waking[s] - 1 \in Nat
      BY <1>7 DEF TimerWakes
    <3> QED BY <1>7, <3>1 DEF TimerWakes
  <2> QED BY <1>7, <2>1 DEF TimerWakes, DeviceWake
<1>8. ASSUME NEW s \in Services, CloseStopsTimer(s) PROVE PauseTypeOK'
  BY <1>8 DEF CloseStopsTimer
<1>9. ASSUME NEW s \in Services, CloseCounts(s) PROVE PauseTypeOK'
  BY <1>9 DEF CloseCounts
<1>10. ASSUME NEW s \in Services, CloseWakes(s) PROVE PauseTypeOK'
  BY <1>10 DEF CloseWakes, DeviceWake
<1>11. CASE UNCHANGED pauseVars
  BY <1>11 DEF pauseVars
<1> QED BY <1>1, <1>2, <1>3, <1>4, <1>5, <1>6, <1>7, <1>8, <1>9, <1>10, <1>11
        DEF PauseNext, PauseSteps

(* What stands behind a pause.                                                *)
Backed(s) == \/ timer[s] = "armed" \/ waking[s] > 0
             \/ call[s] = "arming" \/ closing[s] # "open"

(* Only a wake, which ends the pause, removes what stands behind it.          *)
LEMMA BackingKept ==
  ASSUME PauseTypeOK, PauseIsTimed, [PauseNext]_pauseVars
  PROVE  PauseIsTimed'
<1> SUFFICES ASSUME IOS, devicePaused' PROVE \E s \in Services : Backed(s)'
  BY DEF PauseIsTimed, Backed
<1>1. ASSUME NEW s \in Services, PauseDevice(s) PROVE Backed(s)'
  BY <1>1 DEF PauseDevice, PauseTypeOK, Backed
<1>2. ASSUME NEW s \in Services, WakeDevice(s) \/ TimerWakes(s) \/ CloseWakes(s) PROVE FALSE
  BY <1>2 DEF WakeDevice, TimerWakes, CloseWakes, DeviceWake
<1>3. ASSUME devicePaused PROVE \E q \in Services : Backed(q)
  BY <1>3 DEF PauseIsTimed, Backed
<1>4. ASSUME NEW s \in Services, NEW q \in Services, Backed(q), PauseCounts(s)
      PROVE  Backed(q)'
  BY <1>4 DEF PauseCounts, mayCall, PauseTypeOK, Backed
<1>5. ASSUME NEW s \in Services, NEW q \in Services, Backed(q), WakeCounts(s)
      PROVE  Backed(q)'
  BY <1>5 DEF WakeCounts, mayCall, PauseTypeOK, Backed
<1>6. ASSUME NEW s \in Services, NEW q \in Services, Backed(q), armEndPauseTimer(s)
      PROVE  Backed(q)'
  BY <1>6 DEF armEndPauseTimer, PauseTypeOK, Backed
<1>7. ASSUME NEW s \in Services, NEW q \in Services, Backed(q), TimerExpires(s)
      PROVE  Backed(q)'
  BY <1>7 DEF TimerExpires, PauseTypeOK, Backed
<1>8. ASSUME NEW s \in Services, NEW q \in Services, Backed(q), CloseStopsTimer(s)
      PROVE  Backed(q)'
  BY <1>8 DEF CloseStopsTimer, PauseTypeOK, Backed
<1>9. ASSUME NEW s \in Services, NEW q \in Services, Backed(q), CloseCounts(s)
      PROVE  Backed(q)'
  BY <1>9 DEF CloseCounts, PauseTypeOK, Backed
<1>10. ASSUME NEW q \in Services, Backed(q), UNCHANGED pauseVars PROVE Backed(q)'
  BY <1>10 DEF pauseVars, Backed
<1>11. CASE UNCHANGED pauseVars
  BY <1>3, <1>10, <1>11 DEF pauseVars
<1>12. CASE PauseNext
  <2>1. PICK s \in Services : \/ PauseCounts(s) \/ WakeCounts(s) \/ PauseSteps(s)
                              \/ CloseStopsTimer(s) \/ CloseCounts(s) \/ CloseWakes(s)
    BY <1>12 DEF PauseNext
  <2>2. CASE PauseDevice(s)
    BY <1>1, <2>2
  <2>3. CASE ~PauseDevice(s)
    <3>1. \/ PauseCounts(s) \/ WakeCounts(s) \/ armEndPauseTimer(s) \/ TimerExpires(s)
          \/ CloseStopsTimer(s) \/ CloseCounts(s)
      BY <1>2, <2>1, <2>3 DEF PauseSteps
    <3>2. devicePaused
      BY <3>1 DEF PauseCounts, WakeCounts, armEndPauseTimer, TimerExpires,
                  CloseStopsTimer, CloseCounts
    <3>3. PICK q \in Services : Backed(q)
      BY <1>3, <3>2
    <3>4. Backed(q)'
      BY <1>4, <1>5, <1>6, <1>7, <1>8, <1>9, <3>1, <3>3
    <3> QED BY <3>4
  <2> QED BY <2>2, <2>3
<1> QED BY <1>11, <1>12

(* On iOS a device pause of open services always has its timer, the goroutine *)
(* of an expired timer or a Pause about to arm one behind it.                 *)
THEOREM PauseIsTimedHolds == PauseSpec => [](PauseTypeOK /\ PauseIsTimed)
<1>1. PauseInit => PauseTypeOK /\ PauseIsTimed
  <2> SUFFICES ASSUME PauseInit PROVE PauseTypeOK /\ PauseIsTimed
    OBVIOUS
  <2>1. PauseTypeOK
    <3>1. 0 \in 0..MaxPauses /\ 0 \in 0..MaxWakes
      OBVIOUS
    <3>2. pauseCount \in [Services -> 0..MaxPauses] /\ wakeCount \in [Services -> 0..MaxWakes]
      BY <3>1 DEF PauseInit
    <3>3. waking \in [Services -> Nat]
      BY DEF PauseInit
    <3>4. /\ timer \in [Services -> {"none", "armed", "idle"}]
          /\ call \in [Services -> {"none", "pausing", "arming", "waking"}]
          /\ closing \in [Services -> {"open", "counting", "waking", "closed"}]
      BY DEF PauseInit
    <3>5. devicePaused \in BOOLEAN
      BY DEF PauseInit
    <3> QED BY <3>2, <3>3, <3>4, <3>5 DEF PauseTypeOK
  <2>2. PauseIsTimed
    BY DEF PauseInit, PauseIsTimed
  <2> QED BY <2>1, <2>2
<1>2. (PauseTypeOK /\ PauseIsTimed) /\ [PauseNext]_pauseVars => (PauseTypeOK /\ PauseIsTimed)'
  BY PauseTypesKept, BackingKept
<1> QED BY <1>1, <1>2, PTL DEF PauseSpec
================================================================================

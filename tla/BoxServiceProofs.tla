--------------------------- MODULE BoxServiceProofs ---------------------------
(* What a service leaves behind and what it serves, for any number of         *)
(* callers, STUN requests and descriptors.                                    *)
EXTENDS BoxService, TLAPS

(* What the proofs use of the types.                                          *)
Types ==
  /\ pc \in [Callers -> CallerStages] /\ rq \in [Requests -> RequestStages]
  /\ opening \in [Opens -> OpenStages]
  /\ reaping \subseteq Opens /\ fdOpen \subseteq Opens
  /\ {pendingOpen, tunFd, liveTunFd, listenerFd} \subseteq Opens \cup {NoFd}
  /\ coreCount \in {0, 1}

Ind == Types /\ ServiceInv /\ DescriptorsOwned

(* A free mutex is no one's, no caller is a request, and NoFd names no open.  *)
LEMMA Names ==
  /\ NoFd \notin Opens
  /\ NoOne \notin Callers /\ NoOne \notin Requests
  /\ \A c \in Callers, r \in Requests : c # r
  BY ServiceConstants DEF NoFd

(* The core's count goes up from none and down from one.                      *)
LEMMA Counts == 0 + 1 = 1 /\ 1 - 1 = 0 /\ 0 # 1
  OBVIOUS

(* Closing a descriptor that is not open changes nothing.                     *)
LEMMA Without == ASSUME NEW S, NEW x, x \notin S PROVE S \ {x} = S
  OBVIOUS

(* Who owns a descriptor does not depend on the stage.                        *)
LEMMA TunKept ==
  ASSUME OpensOwned, DescriptorsOwned, UNCHANGED tunVars
  PROVE  OpensOwned' /\ DescriptorsOwned'
  BY DEF OpensOwned, DescriptorsOwned, tunVars

(* A new service has nothing up.                                              *)
LEMMA InitInd == ServiceInit => Ind
<1> SUFFICES ASSUME ServiceInit PROVE Ind OBVIOUS
<1> USE Names DEF ServiceInit, HolderIn, UpDuring, ServingNow, HoldsMutex, StartSteps
<1>1. Types BY DEF Types, CallerStages, RequestStages, OpenStages
<1>2. MutexHeld BY DEF MutexHeld, ReloadSteps
<1>3. OpensOwned BY DEF OpensOwned
<1>4. DescriptorsInHand BY DEF DescriptorsInHand
<1>5. PartsFollowStages BY DEF PartsFollowStages
<1>6. TunFollowsStages BY DEF TunFollowsStages
<1>7. DescriptorsApart BY DEF DescriptorsApart
<1>8. DescriptorsOwned BY DEF DescriptorsOwned
<1>9. CoreCounted BY DEF CoreCounted
<1> QED BY <1>1, <1>2, <1>3, <1>4, <1>5, <1>6, <1>7, <1>8, <1>9 DEF Ind, ServiceInv

(* Start takes a free mutex of a stopped service, and is counted.            *)
LEMMA StartLocksKeeps == ASSUME Ind, NEW c \in Callers, StartLocks(c) PROVE Ind'
<1> USE Names DEF Ind, Types, ServiceInv, StartLocks, goes, HoldsMutex, HolderIn, UpDuring,
   ServingNow, StartSteps, lifeVars, coreVars, tunVars, stunVars
<1>1. coreCount = 0 BY DEF CoreCounted, Types
<1> USE <1>1
<1>2. coreCount' = 1 BY Counts, Zenon
<1> USE <1>2
<1>3. Types' BY DEF CallerStages, RequestStages, OpenStages, ReloadSteps, CloseSteps
<1>4. MutexHeld' BY DEF MutexHeld
<1>5. OpensOwned' /\ DescriptorsOwned' BY TunKept
<1>6. CoreCounted' /\ PartsFollowStages' BY DEF MutexHeld, CoreCounted, PartsFollowStages
<1>7. DescriptorsInHand' /\ TunFollowsStages' /\ DescriptorsApart'
  BY DEF MutexHeld, PartsFollowStages, DescriptorsInHand, TunFollowsStages, DescriptorsApart
<1> QED BY <1>3, <1>4, <1>5, <1>6, <1>7

(* A Start whose monitor is refused is not counted any more.                 *)
LEMMA MonitorRefusedKeeps == ASSUME Ind, NEW c \in Callers, MonitorRefused(c) PROVE Ind'
<1> USE Names DEF Ind, Types, ServiceInv, MonitorRefused, startReturns, goes, HoldsMutex,
   HolderIn, UpDuring, ServingNow, StartSteps, lifeVars, coreVars, tunVars, stunVars
<1>1. mu = c BY DEF MutexHeld
<1> USE <1>1
<1>2. coreCount = 1 BY DEF CoreCounted
<1> USE <1>2
<1>3. coreCount' = 0 BY Counts, Zenon
<1> USE <1>3
<1>4. ~running BY DEF PartsFollowStages
<1> USE <1>4
<1>5. ~UpDuring(StartSteps)' /\ coreCount' # 1 BY Counts
<1> USE <1>5
<1>6. Types' BY DEF CallerStages, RequestStages, OpenStages, ReloadSteps, CloseSteps
<1>7. MutexHeld' BY DEF MutexHeld
<1>8. OpensOwned' /\ DescriptorsOwned' BY TunKept
<1>9. CoreCounted' /\ PartsFollowStages' BY DEF MutexHeld, CoreCounted, PartsFollowStages
<1>10. DescriptorsInHand' /\ TunFollowsStages' /\ DescriptorsApart'
  BY DEF MutexHeld, PartsFollowStages, DescriptorsInHand, TunFollowsStages, DescriptorsApart
<1> QED BY <1>6, <1>7, <1>8, <1>9, <1>10

(* The monitor is up from parsing on.                                        *)
LEMMA MonitorStartsKeeps == ASSUME Ind, NEW c \in Callers, MonitorStarts(c) PROVE Ind'
<1> USE Names DEF Ind, Types, ServiceInv, MonitorStarts, goes, HoldsMutex, HolderIn, UpDuring,
   ServingNow, StartSteps, lifeVars, coreVars, tunVars, stunVars
<1>1. mu = c BY DEF MutexHeld
<1> USE <1>1
<1>2. Types' BY DEF CallerStages, RequestStages, OpenStages, ReloadSteps, CloseSteps
<1>3. MutexHeld' BY DEF MutexHeld
<1>4. OpensOwned' /\ DescriptorsOwned' BY TunKept
<1>5. CoreCounted' /\ PartsFollowStages' BY DEF MutexHeld, CoreCounted, PartsFollowStages
<1>6. DescriptorsInHand' /\ TunFollowsStages' /\ DescriptorsApart'
  BY DEF MutexHeld, PartsFollowStages, DescriptorsInHand, TunFollowsStages, DescriptorsApart
<1> QED BY <1>2, <1>3, <1>4, <1>5, <1>6

(* A configuration that is refused leaves the monitor to StartFails.         *)
LEMMA ConfigRefusedKeeps == ASSUME Ind, NEW c \in Callers, ConfigRefused(c) PROVE Ind'
<1> USE Names DEF Ind, Types, ServiceInv, ConfigRefused, goes, HoldsMutex, HolderIn, UpDuring,
   ServingNow, StartSteps, lifeVars, coreVars, tunVars, stunVars
<1>1. mu = c BY DEF MutexHeld
<1> USE <1>1
<1>2. Types' BY DEF CallerStages, RequestStages, OpenStages, ReloadSteps, CloseSteps
<1>3. MutexHeld' BY DEF MutexHeld
<1>4. OpensOwned' /\ DescriptorsOwned' BY TunKept
<1>5. CoreCounted' /\ PartsFollowStages' BY DEF MutexHeld, CoreCounted, PartsFollowStages
<1>6. DescriptorsInHand' /\ TunFollowsStages' /\ DescriptorsApart'
  BY DEF MutexHeld, PartsFollowStages, DescriptorsInHand, TunFollowsStages, DescriptorsApart
<1> QED BY <1>2, <1>3, <1>4, <1>5, <1>6

(* The descriptor that is asked for is in the hand of the wait in Start.     *)
LEMMA TunOpenDispatchedKeeps == ASSUME Ind, NEW c \in Callers, NEW o \in Opens, TunOpenDispatched(c, o)
  PROVE Ind'
<1> USE Names DEF Ind, Types, ServiceInv, TunOpenDispatched, freeOpen, goes, HoldsMutex,
   HolderIn, UpDuring, ServingNow, StartSteps, lifeVars, coreVars, tunVars, stunVars
<1>1. mu = c BY DEF MutexHeld
<1> USE <1>1
<1>2. Types' BY DEF CallerStages, RequestStages, OpenStages, ReloadSteps, CloseSteps
<1>3. MutexHeld' BY DEF MutexHeld
<1>4. OpensOwned' BY DEF MutexHeld, OpensOwned, DescriptorsInHand
<1>5. DescriptorsInHand' BY DEF MutexHeld, DescriptorsInHand
<1>6. CoreCounted' BY DEF MutexHeld, CoreCounted, PartsFollowStages
<1>7. PartsFollowStages' BY DEF MutexHeld, PartsFollowStages
<1>8. TunFollowsStages' BY DEF MutexHeld, PartsFollowStages, DescriptorsInHand, TunFollowsStages
<1>9. DescriptorsApart' BY DEF MutexHeld, OpensOwned, DescriptorsInHand, DescriptorsApart
<1>10. DescriptorsOwned' BY DEF MutexHeld, OpensOwned, DescriptorsInHand, DescriptorsOwned
<1> QED BY <1>2, <1>3, <1>4, <1>5, <1>6, <1>7, <1>8, <1>9, <1>10

(* A configuration without a tun closes what the last listener had.          *)
LEMMA AppliesWithoutTunKeeps == ASSUME Ind, NEW c \in Callers, AppliesWithoutTun(c) PROVE Ind'
<1> USE Names DEF Ind, Types, ServiceInv, AppliesWithoutTun, shutdownTun, goes, HoldsMutex,
   HolderIn, UpDuring, ServingNow, StartSteps, lifeVars, coreVars, tunVars, stunVars
<1>1. mu = c BY DEF MutexHeld
<1> USE <1>1
<1>2. Types' BY DEF CallerStages, RequestStages, OpenStages, ReloadSteps, CloseSteps
<1>3. MutexHeld' BY DEF MutexHeld
<1>4. OpensOwned' BY DEF MutexHeld, OpensOwned, DescriptorsInHand
<1>5. DescriptorsInHand' BY DEF MutexHeld, DescriptorsInHand
<1>6. CoreCounted' BY DEF MutexHeld, CoreCounted, PartsFollowStages
<1>7. PartsFollowStages' BY DEF MutexHeld, PartsFollowStages
<1>8. TunFollowsStages' BY DEF MutexHeld, PartsFollowStages, DescriptorsInHand, TunFollowsStages
<1>9. DescriptorsApart' BY DEF MutexHeld, OpensOwned, DescriptorsInHand, DescriptorsApart
<1>10. DescriptorsOwned' BY DEF MutexHeld, OpensOwned, DescriptorsInHand, DescriptorsOwned
<1> QED BY <1>2, <1>3, <1>4, <1>5, <1>6, <1>7, <1>8, <1>9, <1>10

(* A panic leaves everything to StartRecovers.                               *)
LEMMA StartPanicsKeeps == ASSUME Ind, NEW c \in Callers, StartPanics(c) PROVE Ind'
<1> USE Names DEF Ind, Types, ServiceInv, StartPanics, HoldsMutex, HolderIn, UpDuring,
   ServingNow, StartSteps, lifeVars, coreVars, tunVars, stunVars
<1>1. mu = c BY DEF MutexHeld
<1> USE <1>1
<1>2. ~running BY DEF PartsFollowStages
<1> USE <1>2
<1>3. Types' BY DEF CallerStages, RequestStages, OpenStages, ReloadSteps, CloseSteps
<1>4. MutexHeld' BY DEF MutexHeld
<1>5. OpensOwned' /\ DescriptorsOwned' BY TunKept
<1>6. CoreCounted' /\ PartsFollowStages' BY DEF MutexHeld, CoreCounted, PartsFollowStages
<1>7. DescriptorsInHand' /\ TunFollowsStages' /\ DescriptorsApart'
  BY DEF MutexHeld, PartsFollowStages, DescriptorsInHand, TunFollowsStages, DescriptorsApart
<1> QED BY <1>3, <1>4, <1>5, <1>6, <1>7

(* The descriptor passes from the wait to Start, or the wait panics.         *)
LEMMA WaitBeforeTunAttachKeeps == ASSUME Ind, NEW c \in Callers, WaitBeforeTunAttach(c)
  PROVE Ind'
<1> USE Names DEF Ind, Types, ServiceInv, WaitBeforeTunAttach, HoldsMutex, HolderIn, UpDuring,
   ServingNow, StartSteps, lifeVars, coreVars, tunVars, stunVars
<1>1. mu = c BY DEF MutexHeld
<1> USE <1>1
<1>2. pendingOpen \in Opens BY DEF DescriptorsInHand
<1> USE <1>2
<1>3. ~running BY DEF PartsFollowStages
<1> USE <1>3
<1>4. tunFd = NoFd BY DEF DescriptorsInHand
<1> USE <1>4
<1>5. CASE opening[pendingOpen] = "failed"
  <2> USE <1>5
  <2>1. pc'[c] = "panicked" /\ mu' = c OBVIOUS
  <2> USE <2>1
  <2>2. Types' BY DEF CallerStages, RequestStages, OpenStages, ReloadSteps, CloseSteps
  <2>3. MutexHeld' BY DEF MutexHeld
  <2>4. OpensOwned' BY DEF MutexHeld, OpensOwned, DescriptorsInHand
  <2>5. DescriptorsInHand' BY DEF MutexHeld, DescriptorsInHand
  <2>6. CoreCounted' BY DEF MutexHeld, CoreCounted, PartsFollowStages
  <2>7. PartsFollowStages' BY DEF MutexHeld, PartsFollowStages
  <2>8. TunFollowsStages'
    BY DEF MutexHeld, PartsFollowStages, DescriptorsInHand, TunFollowsStages
  <2>9. DescriptorsApart' BY DEF MutexHeld, OpensOwned, DescriptorsInHand, DescriptorsApart
  <2>10. DescriptorsOwned' BY DEF MutexHeld, OpensOwned, DescriptorsInHand, DescriptorsOwned
  <2> QED BY <2>2, <2>3, <2>4, <2>5, <2>6, <2>7, <2>8, <2>9, <2>10
<1>6. CASE opening[pendingOpen] = "opened"
  <2> USE <1>6
  <2>1. pc'[c] = "attaching" /\ mu' = c OBVIOUS
  <2> USE <2>1
  <2>2. pendingOpen' = NoFd /\ listenerFd' = listenerFd OBVIOUS
  <2> USE <2>2
  <2>3. tunFd' = pendingOpen /\ liveTunFd' = pendingOpen BY Zenon
  <2> USE <2>3
  <2>4. Types' BY DEF CallerStages, RequestStages, OpenStages, ReloadSteps, CloseSteps
  <2>5. MutexHeld' BY DEF MutexHeld
  <2>6. OpensOwned' BY DEF MutexHeld, OpensOwned, DescriptorsInHand
  <2>7. DescriptorsInHand' BY DEF MutexHeld, DescriptorsInHand
  <2>8. CoreCounted' BY DEF MutexHeld, CoreCounted, PartsFollowStages
  <2>9. PartsFollowStages' BY DEF MutexHeld, PartsFollowStages
  <2>10. TunFollowsStages'
    BY DEF MutexHeld, PartsFollowStages, DescriptorsInHand, TunFollowsStages
  <2>11. DescriptorsApart' BY DEF MutexHeld, OpensOwned, DescriptorsInHand, DescriptorsApart
  <2>12. DescriptorsOwned' BY DEF MutexHeld, OpensOwned, DescriptorsInHand, DescriptorsOwned
  <2> QED BY <2>4, <2>5, <2>6, <2>7, <2>8, <2>9, <2>10, <2>11, <2>12
<1> QED BY <1>5, <1>6

(* The descriptor passes to the listener, which closes the one it had.       *)
LEMMA AttachTunKeeps == ASSUME Ind, NEW c \in Callers, NEW outcome \in {"attached", "failed", "closed"}, AttachTun(c, outcome)
  PROVE Ind'
<1> USE Names DEF Ind, Types, ServiceInv, AttachTun, goes, HoldsMutex, HolderIn, UpDuring,
   ServingNow, StartSteps, lifeVars, coreVars, tunVars, stunVars
<1>1. mu = c BY DEF MutexHeld
<1> USE <1>1
<1>2. listenerFd' \in Opens \cup {NoFd} OBVIOUS
<1> USE <1>2
<1>3. Types' BY DEF CallerStages, RequestStages, OpenStages, ReloadSteps, CloseSteps
<1>4. MutexHeld' BY DEF MutexHeld
<1>5. OpensOwned' BY DEF MutexHeld, OpensOwned, DescriptorsInHand
<1>6. DescriptorsInHand' BY DEF MutexHeld, DescriptorsInHand
<1>7. CoreCounted' BY DEF MutexHeld, CoreCounted, PartsFollowStages
<1>8. PartsFollowStages' BY DEF MutexHeld, PartsFollowStages
<1>9. TunFollowsStages' BY DEF MutexHeld, PartsFollowStages, DescriptorsInHand, TunFollowsStages
<1>10. DescriptorsApart' BY DEF MutexHeld, OpensOwned, DescriptorsInHand, DescriptorsApart
<1>11. DescriptorsOwned' BY DEF MutexHeld, OpensOwned, DescriptorsInHand, DescriptorsOwned
<1> QED BY <1>3, <1>4, <1>5, <1>6, <1>7, <1>8, <1>9, <1>10, <1>11

(* Start closes the descriptor of a listener that did not start.             *)
LEMMA TunNotVerifiedKeeps == ASSUME Ind, NEW c \in Callers, TunNotVerified(c) PROVE Ind'
<1> USE Names DEF Ind, Types, ServiceInv, TunNotVerified, shutdownCore, resetTunState, goes,
   HoldsMutex, HolderIn, UpDuring, ServingNow, StartSteps, lifeVars, coreVars, tunVars, stunVars
<1>1. mu = c BY DEF MutexHeld
<1> USE <1>1
<1>2. Types' BY DEF CallerStages, RequestStages, OpenStages, ReloadSteps, CloseSteps
<1>3. MutexHeld' BY DEF MutexHeld
<1>4. OpensOwned' BY DEF MutexHeld, OpensOwned, DescriptorsInHand
<1>5. DescriptorsInHand' BY DEF MutexHeld, DescriptorsInHand
<1>6. CoreCounted' BY DEF MutexHeld, CoreCounted, PartsFollowStages
<1>7. PartsFollowStages' BY DEF MutexHeld, PartsFollowStages
<1>8. TunFollowsStages' BY DEF MutexHeld, PartsFollowStages, DescriptorsInHand, TunFollowsStages
<1>9. DescriptorsApart' BY DEF MutexHeld, OpensOwned, DescriptorsInHand, DescriptorsApart
<1>10. DescriptorsOwned' BY DEF MutexHeld, OpensOwned, DescriptorsInHand, DescriptorsOwned
<1> QED BY <1>2, <1>3, <1>4, <1>5, <1>6, <1>7, <1>8, <1>9, <1>10

(* From here on the listener alone owns the descriptor.                      *)
LEMMA TunVerifiedKeeps == ASSUME Ind, NEW c \in Callers, TunVerified(c) PROVE Ind'
<1> USE Names DEF Ind, Types, ServiceInv, TunVerified, goes, HoldsMutex, HolderIn, UpDuring,
   ServingNow, StartSteps, lifeVars, coreVars, tunVars, stunVars
<1>1. mu = c BY DEF MutexHeld
<1> USE <1>1
<1>2. Types' BY DEF CallerStages, RequestStages, OpenStages, ReloadSteps, CloseSteps
<1>3. MutexHeld' BY DEF MutexHeld
<1>4. OpensOwned' BY DEF MutexHeld, OpensOwned, DescriptorsInHand
<1>5. DescriptorsInHand' BY DEF MutexHeld, DescriptorsInHand
<1>6. CoreCounted' BY DEF MutexHeld, CoreCounted, PartsFollowStages
<1>7. PartsFollowStages' BY DEF MutexHeld, PartsFollowStages
<1>8. TunFollowsStages' BY DEF MutexHeld, PartsFollowStages, DescriptorsInHand, TunFollowsStages
<1>9. DescriptorsApart' BY DEF MutexHeld, OpensOwned, DescriptorsInHand, DescriptorsApart
<1>10. DescriptorsOwned' BY DEF MutexHeld, OpensOwned, DescriptorsInHand, DescriptorsOwned
<1> QED BY <1>2, <1>3, <1>4, <1>5, <1>6, <1>7, <1>8, <1>9, <1>10

(* A control plane that is refused takes the listener down.                  *)
LEMMA ControlPlaneRefusedKeeps == ASSUME Ind, NEW c \in Callers, ControlPlaneRefused(c)
  PROVE Ind'
<1> USE Names DEF Ind, Types, ServiceInv, ControlPlaneRefused, shutdownCore, resetTunState,
   goes, HoldsMutex, HolderIn, UpDuring, ServingNow, StartSteps, lifeVars, coreVars, tunVars,
      stunVars
<1>1. mu = c BY DEF MutexHeld
<1> USE <1>1
<1>2. Types' BY DEF CallerStages, RequestStages, OpenStages, ReloadSteps, CloseSteps
<1>3. MutexHeld' BY DEF MutexHeld
<1>4. OpensOwned' BY DEF MutexHeld, OpensOwned, DescriptorsInHand
<1>5. DescriptorsInHand' BY DEF MutexHeld, DescriptorsInHand
<1>6. CoreCounted' BY DEF MutexHeld, CoreCounted, PartsFollowStages
<1>7. PartsFollowStages' BY DEF MutexHeld, PartsFollowStages
<1>8. TunFollowsStages' BY DEF MutexHeld, PartsFollowStages, DescriptorsInHand, TunFollowsStages
<1>9. DescriptorsApart' BY DEF MutexHeld, OpensOwned, DescriptorsInHand, DescriptorsApart
<1>10. DescriptorsOwned' BY DEF MutexHeld, OpensOwned, DescriptorsInHand, DescriptorsOwned
<1> QED BY <1>2, <1>3, <1>4, <1>5, <1>6, <1>7, <1>8, <1>9, <1>10

(* The control plane is up once Start has nothing left to fail.              *)
LEMMA ControlPlaneStartsKeeps == ASSUME Ind, NEW c \in Callers, ControlPlaneStarts(c) PROVE Ind'
<1> USE Names DEF Ind, Types, ServiceInv, ControlPlaneStarts, goes, HoldsMutex, HolderIn,
   UpDuring, ServingNow, StartSteps, lifeVars, coreVars, tunVars, stunVars
<1>1. mu = c BY DEF MutexHeld
<1> USE <1>1
<1>2. Types' BY DEF CallerStages, RequestStages, OpenStages, ReloadSteps, CloseSteps
<1>3. MutexHeld' BY DEF MutexHeld
<1>4. OpensOwned' /\ DescriptorsOwned' BY TunKept
<1>5. CoreCounted' /\ PartsFollowStages' BY DEF MutexHeld, CoreCounted, PartsFollowStages
<1>6. DescriptorsInHand' /\ TunFollowsStages' /\ DescriptorsApart'
  BY DEF MutexHeld, PartsFollowStages, DescriptorsInHand, TunFollowsStages, DescriptorsApart
<1> QED BY <1>2, <1>3, <1>4, <1>5, <1>6

(* After a panic the descriptor is closed, or left to the reaper.            *)
LEMMA StartRecoversKeeps == ASSUME Ind, NEW c \in Callers, StartRecovers(c) PROVE Ind'
<1> USE Names DEF Ind, Types, ServiceInv, StartRecovers, shutdownCore, resetTunState, goes,
   HoldsMutex, HolderIn, UpDuring, ServingNow, StartSteps, lifeVars, coreVars, tunVars, stunVars
<1>1. mu = c BY DEF MutexHeld
<1> USE <1>1
<1>2. CASE pendingOpen = NoFd
  <2> USE <1>2
  <2>1. Types' BY DEF CallerStages, RequestStages, OpenStages, ReloadSteps, CloseSteps
  <2>2. MutexHeld' BY DEF MutexHeld
  <2>3. OpensOwned' BY DEF MutexHeld, OpensOwned, DescriptorsInHand
  <2>4. DescriptorsInHand' BY DEF MutexHeld, DescriptorsInHand
  <2>5. CoreCounted' BY DEF MutexHeld, CoreCounted, PartsFollowStages
  <2>6. PartsFollowStages' BY DEF MutexHeld, PartsFollowStages
  <2>7. TunFollowsStages'
    BY DEF MutexHeld, PartsFollowStages, DescriptorsInHand, TunFollowsStages
  <2>8. DescriptorsApart' BY DEF MutexHeld, OpensOwned, DescriptorsInHand, DescriptorsApart
  <2>9. DescriptorsOwned' BY DEF MutexHeld, OpensOwned, DescriptorsInHand, DescriptorsOwned
  <2> QED BY <2>1, <2>2, <2>3, <2>4, <2>5, <2>6, <2>7, <2>8, <2>9
<1>3. CASE pendingOpen # NoFd
  <2> USE <1>3
  <2>1. Types' BY DEF CallerStages, RequestStages, OpenStages, ReloadSteps, CloseSteps
  <2>2. MutexHeld' BY DEF MutexHeld
  <2>3. OpensOwned' BY DEF MutexHeld, OpensOwned, DescriptorsInHand
  <2>4. DescriptorsInHand' BY DEF MutexHeld, DescriptorsInHand
  <2>5. CoreCounted' BY DEF MutexHeld, CoreCounted, PartsFollowStages
  <2>6. PartsFollowStages' BY DEF MutexHeld, PartsFollowStages
  <2>7. TunFollowsStages'
    BY DEF MutexHeld, PartsFollowStages, DescriptorsInHand, TunFollowsStages
  <2>8. DescriptorsApart' BY DEF MutexHeld, OpensOwned, DescriptorsInHand, DescriptorsApart
  <2>9. DescriptorsOwned' BY DEF MutexHeld, OpensOwned, DescriptorsInHand, DescriptorsOwned
  <2> QED BY <2>1, <2>2, <2>3, <2>4, <2>5, <2>6, <2>7, <2>8, <2>9
<1> QED BY <1>2, <1>3

(* A Start that fails takes the monitor down and is not counted any more.    *)
LEMMA StartFailsKeeps == ASSUME Ind, NEW c \in Callers, StartFails(c) PROVE Ind'
<1> USE Names DEF Ind, Types, ServiceInv, StartFails, startReturns, goes, HoldsMutex, HolderIn,
   UpDuring, ServingNow, StartSteps, lifeVars, coreVars, tunVars, stunVars
<1>1. mu = c BY DEF MutexHeld
<1> USE <1>1
<1>2. coreCount = 1 BY DEF CoreCounted
<1> USE <1>2
<1>3. coreCount' = 0 BY Counts, Zenon
<1> USE <1>3
<1>4. ~running BY DEF PartsFollowStages
<1> USE <1>4
<1>5. ~UpDuring(StartSteps)' /\ coreCount' # 1 BY Counts
<1> USE <1>5
<1>6. Types' BY DEF CallerStages, RequestStages, OpenStages, ReloadSteps, CloseSteps
<1>7. MutexHeld' BY DEF MutexHeld
<1>8. OpensOwned' /\ DescriptorsOwned' BY TunKept
<1>9. CoreCounted' /\ PartsFollowStages' BY DEF MutexHeld, CoreCounted, PartsFollowStages
<1>10. DescriptorsInHand' /\ TunFollowsStages' /\ DescriptorsApart'
  BY DEF MutexHeld, PartsFollowStages, DescriptorsInHand, TunFollowsStages, DescriptorsApart
<1> QED BY <1>6, <1>7, <1>8, <1>9, <1>10

(* The mutex is free when every part is up.                                  *)
LEMMA StartFinishesKeeps == ASSUME Ind, NEW c \in Callers, StartFinishes(c) PROVE Ind'
<1> USE Names DEF Ind, Types, ServiceInv, StartFinishes, goes, HoldsMutex, HolderIn, UpDuring,
   ServingNow, StartSteps, lifeVars, coreVars, tunVars, stunVars
<1>1. mu = c BY DEF MutexHeld
<1> USE <1>1
<1>2. ~running BY DEF PartsFollowStages
<1> USE <1>2
<1>3. Types' BY DEF CallerStages, RequestStages, OpenStages, ReloadSteps, CloseSteps
<1>4. MutexHeld' BY DEF MutexHeld
<1>5. OpensOwned' /\ DescriptorsOwned' BY TunKept
<1>6. CoreCounted' /\ PartsFollowStages' BY DEF MutexHeld, CoreCounted, PartsFollowStages
<1>7. DescriptorsInHand' /\ TunFollowsStages' /\ DescriptorsApart'
  BY DEF MutexHeld, PartsFollowStages, DescriptorsInHand, TunFollowsStages, DescriptorsApart
<1> QED BY <1>3, <1>4, <1>5, <1>6, <1>7

(* Reload asks for the sessions to end without the mutex.                    *)
LEMMA ReloadStopsKeeps == ASSUME Ind, NEW c \in Callers, ReloadStops(c) PROVE Ind'
<1> USE Names DEF Ind, Types, ServiceInv, ReloadStops, stopSTUNSessions, HoldsMutex, HolderIn,
   UpDuring, ServingNow, StartSteps, lifeVars, coreVars, tunVars, stunVars
<1>1. Types' BY DEF CallerStages, RequestStages, OpenStages, ReloadSteps, CloseSteps
<1>2. MutexHeld' BY DEF MutexHeld
<1>3. OpensOwned' /\ DescriptorsOwned' BY TunKept
<1>4. CoreCounted' /\ PartsFollowStages' BY DEF MutexHeld, CoreCounted, PartsFollowStages
<1>5. DescriptorsInHand' /\ TunFollowsStages' /\ DescriptorsApart'
  BY DEF MutexHeld, PartsFollowStages, DescriptorsInHand, TunFollowsStages, DescriptorsApart
<1> QED BY <1>1, <1>2, <1>3, <1>4, <1>5

(* A Reload goes on only for a running service.                              *)
LEMMA ReloadLocksKeeps == ASSUME Ind, NEW c \in Callers, NEW accepted \in BOOLEAN, ReloadLocks(c, accepted)
  PROVE Ind'
<1> USE Names DEF Ind, Types, ServiceInv, ReloadLocks, goes, HoldsMutex, HolderIn, UpDuring,
   ServingNow, StartSteps, lifeVars, coreVars, tunVars, stunVars
<1>1. Types' BY DEF CallerStages, RequestStages, OpenStages, ReloadSteps, CloseSteps
<1>2. MutexHeld' BY DEF MutexHeld
<1>3. OpensOwned' /\ DescriptorsOwned' BY TunKept
<1>4. CoreCounted' /\ PartsFollowStages' BY DEF MutexHeld, CoreCounted, PartsFollowStages
<1>5. DescriptorsInHand' /\ TunFollowsStages' /\ DescriptorsApart'
  BY DEF MutexHeld, PartsFollowStages, DescriptorsInHand, TunFollowsStages, DescriptorsApart
<1> QED BY <1>1, <1>2, <1>3, <1>4, <1>5

(* A Reload that is applied keeps the tun.                                   *)
LEMMA ReloadAppliesKeeps == ASSUME Ind, NEW c \in Callers, NEW panics \in BOOLEAN, ReloadApplies(c, panics)
  PROVE Ind'
<1> USE Names DEF Ind, Types, ServiceInv, ReloadApplies, goes, HoldsMutex, HolderIn, UpDuring,
   ServingNow, StartSteps, lifeVars, coreVars, tunVars, stunVars
<1>1. mu = c BY DEF MutexHeld
<1> USE <1>1
<1>2. Types' BY DEF CallerStages, RequestStages, OpenStages, ReloadSteps, CloseSteps
<1>3. MutexHeld' BY DEF MutexHeld
<1>4. OpensOwned' /\ DescriptorsOwned' BY TunKept
<1>5. CoreCounted' /\ PartsFollowStages' BY DEF MutexHeld, CoreCounted, PartsFollowStages
<1>6. DescriptorsInHand' /\ TunFollowsStages' /\ DescriptorsApart'
  BY DEF MutexHeld, PartsFollowStages, DescriptorsInHand, TunFollowsStages, DescriptorsApart
<1> QED BY <1>2, <1>3, <1>4, <1>5, <1>6

(* A Reload counts the proxy share there is.                                 *)
LEMMA ReloadCommitsKeeps == ASSUME Ind, NEW c \in Callers, ReloadCommits(c) PROVE Ind'
<1> USE Names DEF Ind, Types, ServiceInv, ReloadCommits, runtimeInboundCountLocked, goes,
   HoldsMutex, HolderIn, UpDuring, ServingNow, StartSteps, lifeVars, coreVars, tunVars, stunVars
<1>1. mu = c BY DEF MutexHeld
<1> USE <1>1
<1>2. Types' BY DEF CallerStages, RequestStages, OpenStages, ReloadSteps, CloseSteps
<1>3. MutexHeld' BY DEF MutexHeld
<1>4. OpensOwned' /\ DescriptorsOwned' BY TunKept
<1>5. CoreCounted' /\ PartsFollowStages' BY DEF MutexHeld, CoreCounted, PartsFollowStages
<1>6. DescriptorsInHand' /\ TunFollowsStages' /\ DescriptorsApart'
  BY DEF MutexHeld, PartsFollowStages, DescriptorsInHand, TunFollowsStages, DescriptorsApart
<1> QED BY <1>2, <1>3, <1>4, <1>5, <1>6

(* The service is between calls as it was before.                            *)
LEMMA ReloadUnlocksKeeps == ASSUME Ind, NEW c \in Callers, ReloadUnlocks(c) PROVE Ind'
<1> USE Names DEF Ind, Types, ServiceInv, ReloadUnlocks, goes, HoldsMutex, HolderIn, UpDuring,
   ServingNow, StartSteps, lifeVars, coreVars, tunVars, stunVars
<1>1. mu = c BY DEF MutexHeld
<1> USE <1>1
<1>2. Types' BY DEF CallerStages, RequestStages, OpenStages, ReloadSteps, CloseSteps
<1>3. MutexHeld' BY DEF MutexHeld
<1>4. OpensOwned' /\ DescriptorsOwned' BY TunKept
<1>5. CoreCounted' /\ PartsFollowStages' BY DEF MutexHeld, CoreCounted, PartsFollowStages
<1>6. DescriptorsInHand' /\ TunFollowsStages' /\ DescriptorsApart'
  BY DEF MutexHeld, PartsFollowStages, DescriptorsInHand, TunFollowsStages, DescriptorsApart
<1> QED BY <1>2, <1>3, <1>4, <1>5, <1>6

(* Sessions are allowed again after the unlock.                              *)
LEMMA ReloadResumesKeeps == ASSUME Ind, NEW c \in Callers, ReloadResumes(c) PROVE Ind'
<1> USE Names DEF Ind, Types, ServiceInv, ReloadResumes, goes, HoldsMutex, HolderIn, UpDuring,
   ServingNow, StartSteps, lifeVars, coreVars, tunVars, stunVars
<1>1. Types' BY DEF CallerStages, RequestStages, OpenStages, ReloadSteps, CloseSteps
<1>2. MutexHeld' BY DEF MutexHeld
<1>3. OpensOwned' /\ DescriptorsOwned' BY TunKept
<1>4. CoreCounted' /\ PartsFollowStages' BY DEF MutexHeld, CoreCounted, PartsFollowStages
<1>5. DescriptorsInHand' /\ TunFollowsStages' /\ DescriptorsApart'
  BY DEF MutexHeld, PartsFollowStages, DescriptorsInHand, TunFollowsStages, DescriptorsApart
<1> QED BY <1>1, <1>2, <1>3, <1>4, <1>5

(* Close asks for the sessions to end without the mutex.                     *)
LEMMA CloseStopsKeeps == ASSUME Ind, NEW c \in Callers, CloseStops(c) PROVE Ind'
<1> USE Names DEF Ind, Types, ServiceInv, CloseStops, stopSTUNSessions, HoldsMutex, HolderIn,
   UpDuring, ServingNow, StartSteps, lifeVars, coreVars, tunVars, stunVars
<1>1. Types' BY DEF CallerStages, RequestStages, OpenStages, ReloadSteps, CloseSteps
<1>2. MutexHeld' BY DEF MutexHeld
<1>3. OpensOwned' /\ DescriptorsOwned' BY TunKept
<1>4. CoreCounted' /\ PartsFollowStages' BY DEF MutexHeld, CoreCounted, PartsFollowStages
<1>5. DescriptorsInHand' /\ TunFollowsStages' /\ DescriptorsApart'
  BY DEF MutexHeld, PartsFollowStages, DescriptorsInHand, TunFollowsStages, DescriptorsApart
<1> QED BY <1>1, <1>2, <1>3, <1>4, <1>5

(* Close takes every part down but the core, running or not.                 *)
LEMMA CloseLocksKeeps == ASSUME Ind, NEW c \in Callers, CloseLocks(c) PROVE Ind'
<1> USE Names DEF Ind, Types, ServiceInv, CloseLocks, goes, HoldsMutex, HolderIn, UpDuring,
   ServingNow, StartSteps, lifeVars, coreVars, tunVars, stunVars
<1>1. Types' BY DEF CallerStages, RequestStages, OpenStages, ReloadSteps, CloseSteps
<1>2. MutexHeld' BY DEF MutexHeld
<1>3. OpensOwned' /\ DescriptorsOwned' BY TunKept
<1>4. CoreCounted' /\ PartsFollowStages' BY DEF MutexHeld, CoreCounted, PartsFollowStages
<1>5. DescriptorsInHand' /\ TunFollowsStages' /\ DescriptorsApart'
  BY DEF MutexHeld, PartsFollowStages, DescriptorsInHand, TunFollowsStages, DescriptorsApart
<1> QED BY <1>1, <1>2, <1>3, <1>4, <1>5

(* Close gives back the count and the tun; a guarded teardown that panics    *)
(* leaves the listener.                                                      *)
LEMMA CloseFinishesKeeps == ASSUME Ind, NEW c \in Callers, NEW panics \in BOOLEAN, CloseFinishes(c, panics)
  PROVE Ind'
<1> USE Names DEF Ind, Types, ServiceInv, CloseFinishes, shutdownCore, resetTunState, goes,
   HoldsMutex, HolderIn, UpDuring, ServingNow, StartSteps, lifeVars, coreVars, tunVars, stunVars
<1>1. mu = c BY DEF MutexHeld
<1> USE <1>1
<1>2. coreCount = 1 BY DEF CoreCounted, PartsFollowStages
<1> USE <1>2
<1>3. coreCount' = 0 BY Counts, Zenon
<1> USE <1>3
<1>4. tunFd = NoFd /\ pendingOpen = NoFd BY DEF DescriptorsInHand
<1> USE <1>4
<1>5. tunFd \notin fdOpen OBVIOUS
<1> USE <1>5
<1>6. fdOpen \ {tunFd} = fdOpen BY Without, Zenon
<1> USE <1>6
<1>7. fdOpen \ {listenerFd, tunFd} = fdOpen \ {listenerFd} OBVIOUS
<1> USE <1>7
<1>8. ~running' /\ mu' = NoOne OBVIOUS
<1> USE <1>8
<1>9. coreCount' # 1 BY Counts, Zenon
<1> USE <1>9
<1>10. ~published /\ ~share /\ ~monitor /\ ~controlPlane BY DEF PartsFollowStages
<1> USE <1>10
<1>11. published' = FALSE /\ share' = FALSE /\ monitor' = FALSE /\ controlPlane' = FALSE OBVIOUS
<1> USE <1>11
<1>12. CASE panics
  <2> USE <1>12
  <2>1. fdOpen' = fdOpen /\ listenerFd' = listenerFd BY Zenon
  <2> USE <2>1
  <2>2. Types' BY DEF CallerStages, RequestStages, OpenStages, ReloadSteps, CloseSteps
  <2>3. MutexHeld' BY DEF MutexHeld
  <2>4. OpensOwned' BY DEF MutexHeld, OpensOwned, DescriptorsInHand
  <2>5. DescriptorsInHand' BY DEF MutexHeld, DescriptorsInHand
  <2>6. CoreCounted' BY DEF MutexHeld, CoreCounted, PartsFollowStages
  <2>7. PartsFollowStages' BY DEF MutexHeld, PartsFollowStages
  <2>8. TunFollowsStages'
    BY DEF MutexHeld, PartsFollowStages, DescriptorsInHand, TunFollowsStages
  <2>9. DescriptorsApart' BY DEF MutexHeld, OpensOwned, DescriptorsInHand, DescriptorsApart
  <2>10. DescriptorsOwned' BY DEF MutexHeld, OpensOwned, DescriptorsInHand, DescriptorsOwned
  <2> QED BY <2>2, <2>3, <2>4, <2>5, <2>6, <2>7, <2>8, <2>9, <2>10
<1>13. CASE ~panics
  <2> USE <1>13
  <2>1. fdOpen' = fdOpen \ {listenerFd} /\ listenerFd' = NoFd BY Zenon
  <2> USE <2>1
  <2>2. Types' BY DEF CallerStages, RequestStages, OpenStages, ReloadSteps, CloseSteps
  <2>3. MutexHeld' BY DEF MutexHeld
  <2>4. OpensOwned' BY DEF MutexHeld, OpensOwned, DescriptorsInHand
  <2>5. DescriptorsInHand' BY DEF MutexHeld, DescriptorsInHand
  <2>6. CoreCounted' BY DEF MutexHeld, CoreCounted, PartsFollowStages
  <2>7. PartsFollowStages' BY DEF MutexHeld, PartsFollowStages
  <2>8. TunFollowsStages'
    BY DEF MutexHeld, PartsFollowStages, DescriptorsInHand, TunFollowsStages
  <2>9. DescriptorsApart' BY DEF MutexHeld, OpensOwned, DescriptorsInHand, DescriptorsApart
  <2>10. DescriptorsOwned' BY DEF MutexHeld, OpensOwned, DescriptorsInHand, DescriptorsOwned
  <2> QED BY <2>2, <2>3, <2>4, <2>5, <2>6, <2>7, <2>8, <2>9, <2>10
<1> QED BY <1>12, <1>13

(* The answer of OpenTun is for the wait or for the reaper.                  *)
LEMMA OpenTunReturnsKeeps == ASSUME Ind, NEW o \in Opens, NEW result \in {"opened", "failed"}, OpenTunReturns(o, result)
  PROVE Ind'
<1> USE Names DEF Ind, Types, ServiceInv, OpenTunReturns, HoldsMutex, HolderIn, UpDuring,
   ServingNow, StartSteps, lifeVars, coreVars, tunVars, stunVars
<1>1. CASE result = "opened"
  <2> USE <1>1
  <2>1. o = pendingOpen \/ o \in reaping BY DEF OpensOwned
  <2> USE <2>1
  <2>2. Types' BY DEF CallerStages, RequestStages, OpenStages, ReloadSteps, CloseSteps
  <2>3. MutexHeld' BY DEF MutexHeld
  <2>4. OpensOwned' BY DEF MutexHeld, OpensOwned, DescriptorsInHand
  <2>5. DescriptorsInHand' BY DEF MutexHeld, DescriptorsInHand
  <2>6. CoreCounted' BY DEF MutexHeld, CoreCounted, PartsFollowStages
  <2>7. PartsFollowStages' BY DEF MutexHeld, PartsFollowStages
  <2>8. TunFollowsStages'
    BY DEF MutexHeld, PartsFollowStages, DescriptorsInHand, TunFollowsStages
  <2>9. DescriptorsApart' BY DEF MutexHeld, OpensOwned, DescriptorsInHand, DescriptorsApart
  <2>10. DescriptorsOwned' BY DEF MutexHeld, OpensOwned, DescriptorsInHand, DescriptorsOwned
  <2> QED BY <2>2, <2>3, <2>4, <2>5, <2>6, <2>7, <2>8, <2>9, <2>10
<1>2. CASE result = "failed"
  <2> USE <1>2
  <2>1. Types' BY DEF CallerStages, RequestStages, OpenStages, ReloadSteps, CloseSteps
  <2>2. MutexHeld' BY DEF MutexHeld
  <2>3. OpensOwned' BY DEF MutexHeld, OpensOwned, DescriptorsInHand
  <2>4. DescriptorsInHand' BY DEF MutexHeld, DescriptorsInHand
  <2>5. CoreCounted' BY DEF MutexHeld, CoreCounted, PartsFollowStages
  <2>6. PartsFollowStages' BY DEF MutexHeld, PartsFollowStages
  <2>7. TunFollowsStages'
    BY DEF MutexHeld, PartsFollowStages, DescriptorsInHand, TunFollowsStages
  <2>8. DescriptorsApart' BY DEF MutexHeld, OpensOwned, DescriptorsInHand, DescriptorsApart
  <2>9. DescriptorsOwned' BY DEF MutexHeld, OpensOwned, DescriptorsInHand, DescriptorsOwned
  <2> QED BY <2>1, <2>2, <2>3, <2>4, <2>5, <2>6, <2>7, <2>8, <2>9
<1> QED BY <1>1, <1>2

(* The reaper closes what came too late.                                     *)
LEMMA ReapKeeps == ASSUME Ind, NEW o \in Opens, Reap(o) PROVE Ind'
<1> USE Names DEF Ind, Types, ServiceInv, Reap, HoldsMutex, HolderIn, UpDuring, ServingNow,
   StartSteps, lifeVars, coreVars, tunVars, stunVars
<1>1. Types' BY DEF CallerStages, RequestStages, OpenStages, ReloadSteps, CloseSteps
<1>2. MutexHeld' BY DEF MutexHeld
<1>3. OpensOwned' BY DEF MutexHeld, OpensOwned, DescriptorsInHand
<1>4. DescriptorsInHand' BY DEF MutexHeld, DescriptorsInHand
<1>5. CoreCounted' BY DEF MutexHeld, CoreCounted, PartsFollowStages
<1>6. PartsFollowStages' BY DEF MutexHeld, PartsFollowStages
<1>7. TunFollowsStages' BY DEF MutexHeld, PartsFollowStages, DescriptorsInHand, TunFollowsStages
<1>8. DescriptorsApart' BY DEF MutexHeld, OpensOwned, DescriptorsInHand, DescriptorsApart
<1>9. DescriptorsOwned' BY DEF MutexHeld, OpensOwned, DescriptorsInHand, DescriptorsOwned
<1> QED BY <1>1, <1>2, <1>3, <1>4, <1>5, <1>6, <1>7, <1>8, <1>9

(* The proxy share is counted with the service that runs.                    *)
LEMMA StartProxyShareKeeps == ASSUME Ind, NEW outcome \in {"shares", "refused", "lost"}, StartProxyShare(outcome)
  PROVE Ind'
<1> USE Names DEF Ind, Types, ServiceInv, StartProxyShare, runtimeInboundCountLocked,
   HoldsMutex, HolderIn, UpDuring, ServingNow, StartSteps, lifeVars, coreVars, tunVars, stunVars
<1>1. CASE outcome = "shares"
  <2> USE <1>1
  <2>1. Types' BY DEF CallerStages, RequestStages, OpenStages, ReloadSteps, CloseSteps
  <2>2. MutexHeld' BY DEF MutexHeld
  <2>3. OpensOwned' /\ DescriptorsOwned' BY TunKept
  <2>4. CoreCounted' /\ PartsFollowStages' BY DEF MutexHeld, CoreCounted, PartsFollowStages
  <2>5. DescriptorsInHand' /\ TunFollowsStages' /\ DescriptorsApart'
    BY DEF MutexHeld, PartsFollowStages, DescriptorsInHand, TunFollowsStages, DescriptorsApart
  <2> QED BY <2>1, <2>2, <2>3, <2>4, <2>5
<1>2. CASE outcome = "refused"
  <2> USE <1>2
  <2>1. share' = share /\ inboundCount' = inboundCount OBVIOUS
  <2> USE <2>1
  <2>2. Types' BY DEF CallerStages, RequestStages, OpenStages, ReloadSteps, CloseSteps
  <2>3. MutexHeld' BY DEF MutexHeld
  <2>4. OpensOwned' /\ DescriptorsOwned' BY TunKept
  <2>5. CoreCounted' /\ PartsFollowStages' BY DEF MutexHeld, CoreCounted, PartsFollowStages
  <2>6. DescriptorsInHand' /\ TunFollowsStages' /\ DescriptorsApart'
    BY DEF MutexHeld, PartsFollowStages, DescriptorsInHand, TunFollowsStages, DescriptorsApart
  <2> QED BY <2>2, <2>3, <2>4, <2>5, <2>6
<1>3. CASE outcome = "lost"
  <2> USE <1>3
  <2>1. Types' BY DEF CallerStages, RequestStages, OpenStages, ReloadSteps, CloseSteps
  <2>2. MutexHeld' BY DEF MutexHeld
  <2>3. OpensOwned' /\ DescriptorsOwned' BY TunKept
  <2>4. CoreCounted' /\ PartsFollowStages' BY DEF MutexHeld, CoreCounted, PartsFollowStages
  <2>5. DescriptorsInHand' /\ TunFollowsStages' /\ DescriptorsApart'
    BY DEF MutexHeld, PartsFollowStages, DescriptorsInHand, TunFollowsStages, DescriptorsApart
  <2> QED BY <2>1, <2>2, <2>3, <2>4, <2>5
<1> QED BY <1>1, <1>2, <1>3

(* A share that stops is not counted, and a stopped service counts none.     *)
LEMMA StopProxyShareKeeps == ASSUME Ind, StopProxyShare PROVE Ind'
<1> USE Names DEF Ind, Types, ServiceInv, StopProxyShare, runtimeInboundCountLocked,
   HoldsMutex, HolderIn, UpDuring, ServingNow, StartSteps, lifeVars, coreVars, tunVars, stunVars
<1>1. Types' BY DEF CallerStages, RequestStages, OpenStages, ReloadSteps, CloseSteps
<1>2. MutexHeld' BY DEF MutexHeld
<1>3. OpensOwned' /\ DescriptorsOwned' BY TunKept
<1>4. CoreCounted' /\ PartsFollowStages' BY DEF MutexHeld, CoreCounted, PartsFollowStages
<1>5. DescriptorsInHand' /\ TunFollowsStages' /\ DescriptorsApart'
  BY DEF MutexHeld, PartsFollowStages, DescriptorsInHand, TunFollowsStages, DescriptorsApart
<1> QED BY <1>1, <1>2, <1>3, <1>4, <1>5

(* A request that finds the service changes nothing of it.                   *)
LEMMA RequestFindsKeeps == ASSUME Ind, NEW r \in Requests, RequestFinds(r) PROVE Ind'
<1> USE Names DEF Ind, Types, ServiceInv, RequestFinds, HoldsMutex, HolderIn, UpDuring,
   ServingNow, StartSteps, lifeVars, coreVars, tunVars, stunVars
<1>1. Types' BY DEF CallerStages, RequestStages, OpenStages, ReloadSteps, CloseSteps
<1>2. MutexHeld' BY DEF MutexHeld
<1>3. OpensOwned' /\ DescriptorsOwned' BY TunKept
<1>4. CoreCounted' /\ PartsFollowStages' BY DEF MutexHeld, CoreCounted, PartsFollowStages
<1>5. DescriptorsInHand' /\ TunFollowsStages' /\ DescriptorsApart'
  BY DEF MutexHeld, PartsFollowStages, DescriptorsInHand, TunFollowsStages, DescriptorsApart
<1> QED BY <1>1, <1>2, <1>3, <1>4, <1>5

(* A session that begins does not have the mutex yet.                        *)
LEMMA beginSTUNSessionKeeps == ASSUME Ind, NEW r \in Requests, beginSTUNSession(r) PROVE Ind'
<1> USE Names DEF Ind, Types, ServiceInv, beginSTUNSession, HoldsMutex, HolderIn, UpDuring,
   ServingNow, StartSteps, lifeVars, coreVars, tunVars, stunVars
<1>1. Types' BY DEF CallerStages, RequestStages, OpenStages, ReloadSteps, CloseSteps
<1>2. MutexHeld' BY DEF MutexHeld
<1>3. OpensOwned' /\ DescriptorsOwned' BY TunKept
<1>4. CoreCounted' /\ PartsFollowStages' BY DEF MutexHeld, CoreCounted, PartsFollowStages
<1>5. DescriptorsInHand' /\ TunFollowsStages' /\ DescriptorsApart'
  BY DEF MutexHeld, PartsFollowStages, DescriptorsInHand, TunFollowsStages, DescriptorsApart
<1> QED BY <1>1, <1>2, <1>3, <1>4, <1>5

(* A session takes a free mutex.                                             *)
LEMMA SessionLocksKeeps == ASSUME Ind, NEW r \in Requests, SessionLocks(r) PROVE Ind'
<1> USE Names DEF Ind, Types, ServiceInv, SessionLocks, HoldsMutex, HolderIn, UpDuring,
   ServingNow, StartSteps, lifeVars, coreVars, tunVars, stunVars
<1>1. Types' BY DEF CallerStages, RequestStages, OpenStages, ReloadSteps, CloseSteps
<1>2. MutexHeld' BY DEF MutexHeld
<1>3. OpensOwned' /\ DescriptorsOwned' BY TunKept
<1>4. CoreCounted' /\ PartsFollowStages' BY DEF MutexHeld, CoreCounted, PartsFollowStages
<1>5. DescriptorsInHand' /\ TunFollowsStages' /\ DescriptorsApart'
  BY DEF MutexHeld, PartsFollowStages, DescriptorsInHand, TunFollowsStages, DescriptorsApart
<1> QED BY <1>1, <1>2, <1>3, <1>4, <1>5

(* A session that ends frees the mutex it has.                               *)
LEMMA SessionEndsKeeps == ASSUME Ind, NEW r \in Requests, SessionEnds(r) PROVE Ind'
<1> USE Names DEF Ind, Types, ServiceInv, SessionEnds, HoldsMutex, HolderIn, UpDuring,
   ServingNow, StartSteps, lifeVars, coreVars, tunVars, stunVars
<1>1. mu = r BY DEF MutexHeld
<1> USE <1>1
<1>2. mu' = NoOne OBVIOUS
<1> USE <1>2
<1>3. Types' BY DEF CallerStages, RequestStages, OpenStages, ReloadSteps, CloseSteps
<1>4. MutexHeld' BY DEF MutexHeld
<1>5. OpensOwned' /\ DescriptorsOwned' BY TunKept
<1>6. CoreCounted' /\ PartsFollowStages' BY DEF MutexHeld, CoreCounted, PartsFollowStages
<1>7. DescriptorsInHand' /\ TunFollowsStages' /\ DescriptorsApart'
  BY DEF MutexHeld, PartsFollowStages, DescriptorsInHand, TunFollowsStages, DescriptorsApart
<1> QED BY <1>3, <1>4, <1>5, <1>6, <1>7

(* Those who waited for the sessions have yet to take the mutex.             *)
LEMMA SessionFinishesKeeps == ASSUME Ind, NEW r \in Requests, SessionFinishes(r) PROVE Ind'
<1> USE Names DEF Ind, Types, ServiceInv, SessionFinishes, HoldsMutex, HolderIn, UpDuring,
   ServingNow, StartSteps, lifeVars, coreVars, tunVars, stunVars
<1>1. Types' BY DEF CallerStages, RequestStages, OpenStages, ReloadSteps, CloseSteps
<1>2. MutexHeld' BY DEF MutexHeld
<1>3. OpensOwned' /\ DescriptorsOwned' BY TunKept
<1>4. CoreCounted' /\ PartsFollowStages' BY DEF MutexHeld, CoreCounted, PartsFollowStages
<1>5. DescriptorsInHand' /\ TunFollowsStages' /\ DescriptorsApart'
  BY DEF MutexHeld, PartsFollowStages, DescriptorsInHand, TunFollowsStages, DescriptorsApart
<1> QED BY <1>1, <1>2, <1>3, <1>4, <1>5

(* Every step of the service, and a stuttering one, keeps the invariant.      *)
LEMMA NextKeeps == Ind /\ [ServiceNext]_serviceVars => Ind'
<1> SUFFICES ASSUME Ind, [ServiceNext]_serviceVars PROVE Ind' OBVIOUS
<1>1. ASSUME NEW c \in Callers, Locks(c) \/ Steps(c) \/ Calls(c) PROVE Ind'
  BY <1>1, StartLocksKeeps, MonitorRefusedKeeps, MonitorStartsKeeps, ConfigRefusedKeeps,
     TunOpenDispatchedKeeps, AppliesWithoutTunKeeps, StartPanicsKeeps,
     WaitBeforeTunAttachKeeps, AttachTunKeeps, TunNotVerifiedKeeps, TunVerifiedKeeps,
     ControlPlaneRefusedKeeps, ControlPlaneStartsKeeps, StartRecoversKeeps, StartFailsKeeps,
     StartFinishesKeeps, ReloadStopsKeeps, ReloadLocksKeeps, ReloadAppliesKeeps,
     ReloadCommitsKeeps, ReloadUnlocksKeeps, ReloadResumesKeeps, CloseStopsKeeps,
     CloseLocksKeeps, CloseFinishesKeeps, Zenon DEF Locks, Steps, Calls
<1>2. ASSUME Shares PROVE Ind' BY <1>2, StartProxyShareKeeps, StopProxyShareKeeps, Zenon DEF Shares
<1>3. ASSUME NEW r \in Requests,
             RequestFinds(r) \/ beginSTUNSession(r) \/ SessionLocks(r) \/ Session(r)
      PROVE  Ind'
  BY <1>3, RequestFindsKeeps, beginSTUNSessionKeeps, SessionLocksKeeps, SessionEndsKeeps,
     SessionFinishesKeeps, Zenon DEF Session
<1>4. ASSUME NEW o \in Opens, OpenTun(o) PROVE Ind' BY <1>4, OpenTunReturnsKeeps, ReapKeeps, Zenon DEF OpenTun
<1>5. CASE UNCHANGED serviceVars
  <2> USE <1>5 DEF Ind, ServiceInv, serviceVars, lifeVars, coreVars, tunVars, stunVars, HolderIn,
          UpDuring, ServingNow
  <2>1. Types' BY DEF Types
  <2>2. MutexHeld' BY DEF MutexHeld
  <2>3. OpensOwned' BY DEF OpensOwned
  <2>4. DescriptorsInHand' BY DEF DescriptorsInHand
  <2>5. CoreCounted' BY DEF CoreCounted
  <2>6. PartsFollowStages' BY DEF PartsFollowStages
  <2>7. TunFollowsStages' BY DEF TunFollowsStages
  <2>8. DescriptorsApart' BY DEF DescriptorsApart
  <2>9. DescriptorsOwned' BY DEF DescriptorsOwned
  <2> QED BY <2>1, <2>2, <2>3, <2>4, <2>5, <2>6, <2>7, <2>8, <2>9
<1> QED BY <1>1, <1>2, <1>3, <1>4, <1>5 DEF ServiceNext

(* The mutex, the stages and the owners of descriptors are as ServiceInv has  *)
(* them, whatever calls, sessions, answers of OpenTun and panics interleave.  *)
THEOREM ServiceInvariant == ServiceSpec => []ServiceInv
<1>1. Ind => ServiceInv BY DEF Ind
<1> QED BY InitInd, NextKeeps, <1>1, PTL DEF ServiceSpec

(* Every descriptor an OpenTun call returned is closed or has an owner that   *)
(* will close it: the wait in Start, Start itself, the listener or the reaper.*)
THEOREM NoDescriptorIsLost == ServiceSpec => []DescriptorsOwned
<1>1. Ind => DescriptorsOwned BY DEF Ind
<1> QED BY InitInd, NextKeeps, <1>1, PTL DEF ServiceSpec

(* A service that is neither running nor busy has left nothing up: every path *)
(* out of Start and Close takes down what was put up.                         *)
THEOREM StoppedIsClean == ServiceSpec => []NothingLeftOpen
<1>1. Ind => NothingLeftOpen
  <2> SUFFICES ASSUME Ind, mu = NoOne, ~running
               PROVE  /\ coreCount = 0 /\ ~published /\ ~monitor /\ ~controlPlane /\ ~share
                      /\ tunFd = NoFd /\ liveTunFd = NoFd
                      /\ ~teardownPanicked => listenerFd = NoFd /\ fdOpen \subseteq reaping
    BY DEF NothingLeftOpen
  <2>1. \A S : ~HolderIn(S) BY Names DEF HolderIn
  <2>2. coreCount = 0 BY <2>1 DEF Ind, ServiceInv, Types, CoreCounted, UpDuring
  <2>3. ~published /\ ~monitor /\ ~controlPlane /\ ~share
    BY <2>1 DEF Ind, ServiceInv, PartsFollowStages, UpDuring
  <2>4. tunFd = NoFd /\ pendingOpen = NoFd BY <2>1 DEF Ind, ServiceInv, DescriptorsInHand
  <2>5. /\ liveTunFd = NoFd
        /\ ~teardownPanicked => listenerFd = NoFd
    BY <2>1 DEF Ind, ServiceInv, TunFollowsStages, UpDuring
  <2>6. ASSUME listenerFd = NoFd PROVE fdOpen \subseteq reaping
    BY <2>4, <2>6, Names DEF Ind, DescriptorsOwned, Types
  <2> QED BY <2>2, <2>3, <2>4, <2>5, <2>6
<1> QED BY InitInd, NextKeeps, <1>1, PTL DEF ServiceSpec

(* A running service, between calls, serves exactly the tun it opened, with   *)
(* its descriptor open, and its counts are those of what is up.               *)
THEOREM RunningServes == ServiceSpec => []ServesItsTun
<1>1. Ind => ServesItsTun
  <2> SUFFICES ASSUME Ind, mu = NoOne, running
               PROVE  /\ listenerFd = liveTunFd /\ {liveTunFd} \ {NoFd} \subseteq fdOpen
                      /\ coreCount = 1 /\ published /\ monitor /\ controlPlane
                      /\ inboundCount = (IF share THEN 2 ELSE 1)
    BY DEF ServesItsTun
  <2>1. \A S : ~HolderIn(S) BY Names DEF HolderIn
  <2>2. coreCount = 1 BY DEF Ind, ServiceInv, CoreCounted, UpDuring
  <2>3. published /\ monitor /\ controlPlane /\ inboundCount = (IF share THEN 2 ELSE 1)
    BY <2>1 DEF Ind, ServiceInv, PartsFollowStages, ServingNow
  <2>4. listenerFd = liveTunFd BY DEF Ind, ServiceInv, TunFollowsStages, UpDuring
  <2>5. {liveTunFd} \ {NoFd} \subseteq fdOpen BY <2>4 DEF Ind, ServiceInv, DescriptorsApart
  <2> QED BY <2>2, <2>3, <2>4, <2>5
<1> QED BY InitInd, NextKeeps, <1>1, PTL DEF ServiceSpec

==============================================================================

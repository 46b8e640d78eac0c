------------------------------ MODULE BoxService ------------------------------
(* The life of one service, bind/hako/service.go with proxy_share.go and the  *)
(* STUN sessions of stun.go.  Callers are the app's threads in Start, Reload, *)
(* Close and the proxy-share calls; Requests are STUN requests served by the  *)
(* control plane.  All take the service's mutex; Reload and Close first stop  *)
(* the STUN sessions, outside of it.                                          *)
(*                                                                            *)
(* What a configuration holds is left out: it may be refused, may panic while *)
(* it is applied, and otherwise brings up the tun and one inbound.  Pauses    *)
(* are PauseLifecycle's, the path monitor behind monitor InterfaceMonitor's.  *)
EXTENDS Integers, FiniteSets

CONSTANTS
  Callers, Requests,
  NoOne,                 \* the mutex is free
  Opens                  \* names of OpenTun calls and of their descriptors

NoFd == 0

ASSUME ServiceConstants ==
  /\ Opens \subseteq Nat \ {NoFd} /\ IsFiniteSet(Opens)
  /\ Callers \cap Requests = {} /\ NoOne \notin Callers \cup Requests

VARIABLES
  mu, running,
  coreCount,             \* activeCoreCount
  published,             \* activeCoreService is this service
  monitor,               \* ifaceListener is set
  controlPlane,          \* the Clash API serves
  share,                 \* proxyShare is set, with its two listeners
  inboundCount,
  opening,               \* OpenTun calls: none, opening, opened, failed
  pendingOpen,           \* the call whose result Start waits for
  reaping,               \* calls whose result reapUnclaimedTunOpen waits for
  fdOpen,                \* descriptors that are open
  tunFd, liveTunFd,
  listenerFd,            \* the descriptor the core's tun listener serves
  stunClosing, sessions, cancelled,
  pc,                    \* where each caller is
  rq,                    \* where each request is
  teardownPanicked       \* history: a guarded teardown did not finish

coreVars == <<monitor, controlPlane, share, inboundCount>>
tunVars == <<opening, pendingOpen, reaping, fdOpen, tunFd, liveTunFd, listenerFd>>
stunVars == <<stunClosing, sessions, cancelled, rq>>
lifeVars == <<running, coreCount, published, teardownPanicked>>
serviceVars == <<mu, pc, lifeVars, coreVars, tunVars, stunVars>>

StartSteps == {"monitoring", "parsing", "applying", "attaching", "verifying",
               "serving", "started", "panicked", "failed"}
ReloadSteps == {"reload drains", "reload locks", "reloading", "reload commits",
                "reload unlocks", "reload resumes"}
CloseSteps == {"close drains", "close locks", "closing"}
CallerStages == {"idle"} \cup StartSteps \cup ReloadSteps \cup CloseSteps
RequestStages == {"idle", "found", "locking", "running", "finishing"}
OpenStages == {"none", "opening", "opened", "failed"}

ServiceTypeOK ==
  /\ mu \in Callers \cup Requests \cup {NoOne}
  /\ running \in BOOLEAN /\ published \in BOOLEAN /\ teardownPanicked \in BOOLEAN
  /\ coreCount \in {0, 1}
  /\ monitor \in BOOLEAN /\ controlPlane \in BOOLEAN /\ share \in BOOLEAN
  /\ inboundCount \in {0, 1, 2}
  /\ opening \in [Opens -> OpenStages]
  /\ {pendingOpen, tunFd, liveTunFd, listenerFd} \subseteq Opens \cup {NoFd}
  /\ reaping \subseteq Opens /\ fdOpen \subseteq Opens
  /\ stunClosing \in BOOLEAN
  /\ sessions \subseteq Requests /\ cancelled \subseteq sessions
  /\ pc \in [Callers -> CallerStages]
  /\ rq \in [Requests -> RequestStages]

ServiceInit ==
  /\ mu = NoOne
  /\ running = FALSE /\ coreCount = 0 /\ published = FALSE /\ teardownPanicked = FALSE
  /\ monitor = FALSE /\ controlPlane = FALSE /\ share = FALSE /\ inboundCount = 0
  /\ opening = [o \in Opens |-> "none"] /\ pendingOpen = NoFd /\ reaping = {}
  /\ fdOpen = {} /\ tunFd = NoFd /\ liveTunFd = NoFd /\ listenerFd = NoFd
  /\ stunClosing = FALSE /\ sessions = {} /\ cancelled = {}
  /\ pc = [c \in Callers |-> "idle"] /\ rq = [r \in Requests |-> "idle"]

goes(c, from, to) == pc[c] = from /\ pc' = [pc EXCEPT ![c] = to]

------------------------------------------------------------------------------
(* The tun descriptor.                                                        *)

(* The listener closes its descriptor.                                        *)
shutdownTun == fdOpen' = fdOpen \ {listenerFd} /\ listenerFd' = NoFd

(* shutdownCore, and then closeFDIfOpen(fd): fd may be the listener's.        *)
shutdownCore(fd) == fdOpen' = fdOpen \ {listenerFd, fd} /\ listenerFd' = NoFd

resetTunState == tunFd' = NoFd /\ liveTunFd' = NoFd

(* A name no call and no descriptor uses.                                     *)
freeOpen(o) ==
  /\ opening[o] = "none" /\ o \notin fdOpen \cup reaping
  /\ o \notin {pendingOpen, tunFd, liveTunFd, listenerFd}

(* A mutant: the duplicate of a descriptor that is refused stays open.        *)
OpenTunLeaks(o, result) ==
  /\ opening[o] = "opening"
  /\ opening' = [opening EXCEPT ![o] = result]
  /\ fdOpen' = fdOpen \cup {o}
  /\ UNCHANGED <<mu, pc, lifeVars, coreVars, stunVars, pendingOpen, reaping, tunFd,
                 liveTunFd, listenerFd>>

(* The goroutine of dispatchTunOpen.                                          *)
OpenTunReturns(o, result) ==
  /\ opening[o] = "opening"
  /\ opening' = [opening EXCEPT ![o] = result]
  /\ fdOpen' = IF result = "opened" THEN fdOpen \cup {o} ELSE fdOpen
  /\ UNCHANGED <<mu, pc, lifeVars, coreVars, stunVars, pendingOpen, reaping, tunFd,
                 liveTunFd, listenerFd>>

Reap(o) ==
  /\ o \in reaping /\ opening[o] \in {"opened", "failed"}
  /\ reaping' = reaping \ {o}
  /\ opening' = [opening EXCEPT ![o] = "none"]
  /\ fdOpen' = fdOpen \ {o}
  /\ UNCHANGED <<mu, pc, lifeVars, coreVars, stunVars, pendingOpen, tunFd, liveTunFd,
                 listenerFd>>

------------------------------------------------------------------------------
(* Start.  A Start of a running service is refused and changes nothing.       *)

StartLocks(c) ==
  /\ mu = NoOne /\ ~running
  /\ goes(c, "idle", "monitoring")
  /\ mu' = c
  /\ coreCount' = coreCount + 1
  /\ UNCHANGED <<running, published, teardownPanicked, coreVars, tunVars, stunVars>>

(* A Start that returns an error: the deferred count, then the unlock.        *)
startReturns(c, from) ==
  /\ goes(c, from, "idle")
  /\ mu' = NoOne
  /\ coreCount' = coreCount - 1
  /\ UNCHANGED <<running, published, teardownPanicked, tunVars, stunVars>>

MonitorRefused(c) == startReturns(c, "monitoring") /\ UNCHANGED coreVars

MonitorStarts(c) ==
  /\ goes(c, "monitoring", "parsing")
  /\ monitor' = TRUE
  /\ UNCHANGED <<mu, lifeVars, controlPlane, share, inboundCount, tunVars, stunVars>>

ConfigRefused(c) ==
  /\ goes(c, "parsing", "failed")
  /\ UNCHANGED <<mu, lifeVars, coreVars, tunVars, stunVars>>

TunOpenDispatched(c, o) ==
  /\ freeOpen(o)
  /\ goes(c, "parsing", "applying")
  /\ opening' = [opening EXCEPT ![o] = "opening"]
  /\ pendingOpen' = o
  /\ UNCHANGED <<mu, lifeVars, coreVars, stunVars, reaping, fdOpen, tunFd, liveTunFd,
                 listenerFd>>

(* A configuration without a tun is applied whole: the last listener closes.  *)
AppliesWithoutTun(c) ==
  /\ goes(c, "parsing", "serving")
  /\ shutdownTun
  /\ UNCHANGED <<mu, lifeVars, coreVars, stunVars, opening, pendingOpen, reaping, tunFd,
                 liveTunFd>>

(* A panic of any step before the service serves.                             *)
StartPanics(c) ==
  /\ pc[c] \in {"parsing", "applying", "attaching", "verifying", "serving"}
  /\ pc' = [pc EXCEPT ![c] = "panicked"]
  /\ UNCHANGED <<mu, lifeVars, coreVars, tunVars, stunVars>>

(* The hook ApplyConfig calls before it attaches the tun.                     *)
WaitBeforeTunAttach(c) ==
  /\ pc[c] = "applying" /\ opening[pendingOpen] \in {"opened", "failed"}
  /\ pendingOpen' = NoFd
  /\ opening' = [opening EXCEPT ![pendingOpen] = "none"]
  /\ IF opening[pendingOpen] = "failed"
     THEN pc' = [pc EXCEPT ![c] = "panicked"] /\ UNCHANGED <<tunFd, liveTunFd>>
     ELSE /\ pc' = [pc EXCEPT ![c] = "attaching"]
          /\ tunFd' = pendingOpen /\ liveTunFd' = pendingOpen
  /\ UNCHANGED <<mu, lifeVars, coreVars, stunVars, reaping, fdOpen, listenerFd>>

(* ReCreateTun, for a descriptor the last listener did not have: the last one *)
(* is closed, and the new one may fail, with its descriptor closed or not.    *)
AttachTun(c, outcome) ==
  /\ goes(c, "attaching", "verifying")
  /\ listenerFd' = IF outcome = "attached" THEN liveTunFd ELSE NoFd
  /\ fdOpen' = IF outcome = "closed" THEN fdOpen \ {listenerFd, liveTunFd}
               ELSE fdOpen \ {listenerFd}
  /\ UNCHANGED <<mu, lifeVars, coreVars, stunVars, opening, pendingOpen, reaping, tunFd,
                 liveTunFd>>

(* A mutant: the descriptor of a listener that did not start is kept.         *)
TunNotVerifiedKeepsFd(c) ==
  /\ listenerFd # liveTunFd
  /\ goes(c, "verifying", "failed")
  /\ shutdownCore(NoFd) /\ resetTunState
  /\ UNCHANGED <<mu, lifeVars, coreVars, stunVars, opening, pendingOpen, reaping>>

(* ApplyConfig returns, tunFd moves to the local pendingTunFd, and            *)
(* verifyTunStarted looks at the listener there is.                           *)
TunNotVerified(c) ==
  /\ listenerFd # liveTunFd
  /\ goes(c, "verifying", "failed")
  /\ shutdownCore(tunFd) /\ resetTunState
  /\ UNCHANGED <<mu, lifeVars, coreVars, stunVars, opening, pendingOpen, reaping>>

TunVerified(c) ==
  /\ listenerFd = liveTunFd
  /\ goes(c, "verifying", "serving")
  /\ tunFd' = NoFd
  /\ UNCHANGED <<mu, lifeVars, coreVars, stunVars, opening, pendingOpen, reaping, fdOpen,
                 liveTunFd, listenerFd>>

ControlPlaneRefused(c) ==
  /\ goes(c, "serving", "failed")
  /\ shutdownCore(NoFd) /\ resetTunState
  /\ UNCHANGED <<mu, lifeVars, coreVars, stunVars, opening, pendingOpen, reaping>>

ControlPlaneStarts(c) ==
  /\ goes(c, "serving", "started")
  /\ controlPlane' = TRUE
  /\ UNCHANGED <<mu, lifeVars, monitor, share, inboundCount, tunVars, stunVars>>

StartRecovers(c) ==
  /\ goes(c, "panicked", "failed")
  /\ shutdownCore(tunFd) /\ resetTunState
  /\ controlPlane' = FALSE
  /\ reaping' = IF pendingOpen = NoFd THEN reaping ELSE reaping \cup {pendingOpen}
  /\ pendingOpen' = NoFd
  /\ UNCHANGED <<mu, lifeVars, monitor, share, inboundCount, stunVars, opening>>

StartFails(c) ==
  /\ startReturns(c, "failed")
  /\ monitor' = FALSE
  /\ UNCHANGED <<controlPlane, share, inboundCount>>

StartFinishes(c) ==
  /\ goes(c, "started", "idle")
  /\ mu' = NoOne
  /\ running' = TRUE /\ published' = TRUE
  /\ stunClosing' = FALSE
  /\ inboundCount' = 1
  /\ UNCHANGED <<coreCount, teardownPanicked, monitor, controlPlane, share, tunVars,
                 sessions, cancelled, rq>>

------------------------------------------------------------------------------
(* STUN sessions.                                                             *)

(* stopSTUNSessions: new sessions are refused, those there are cancelled, and *)
(* the caller waits until the last one has finished.                          *)
stopSTUNSessions(c, waits, drained) ==
  /\ pc' = [pc EXCEPT ![c] = IF sessions = {} THEN drained ELSE waits]
  /\ stunClosing' = TRUE
  /\ cancelled' = sessions
  /\ UNCHANGED <<sessions, rq>>

(* A mutant: a session that is refused is not finished.                       *)
SessionLocksUnfinished(r) ==
  /\ rq[r] = "locking" /\ mu = NoOne
  /\ IF ~running \/ r \in cancelled
     THEN rq' = [rq EXCEPT ![r] = "idle"] /\ UNCHANGED mu
     ELSE rq' = [rq EXCEPT ![r] = "running"] /\ mu' = r
  /\ UNCHANGED <<pc, lifeVars, coreVars, tunVars, stunClosing, sessions, cancelled>>

(* A mutant: a session that ends keeps its cancellation function.    *)
SessionFinishesStillCancelled(r) ==
  /\ rq[r] = "finishing"
  /\ rq' = [rq EXCEPT ![r] = "idle"]
  /\ sessions' = sessions \ {r}
  /\ UNCHANGED <<mu, pc, lifeVars, coreVars, tunVars, stunClosing, cancelled>>

(* serveSTUNSession asks for the service there is.                            *)
RequestFinds(r) ==
  /\ rq[r] = "idle" /\ published
  /\ rq' = [rq EXCEPT ![r] = "found"]
  /\ UNCHANGED <<mu, pc, lifeVars, coreVars, tunVars, stunClosing, sessions, cancelled>>

beginSTUNSession(r) ==
  /\ rq[r] = "found"
  /\ IF stunClosing \/ sessions # {}
     THEN rq' = [rq EXCEPT ![r] = "idle"] /\ UNCHANGED sessions
     ELSE rq' = [rq EXCEPT ![r] = "locking"] /\ sessions' = sessions \cup {r}
  /\ UNCHANGED <<mu, pc, lifeVars, coreVars, tunVars, stunClosing, cancelled>>

(* runSTUN holds the mutex for as long as the session runs.                   *)
SessionLocks(r) ==
  /\ rq[r] = "locking" /\ mu = NoOne
  /\ IF ~running \/ r \in cancelled
     THEN rq' = [rq EXCEPT ![r] = "finishing"] /\ UNCHANGED mu
     ELSE rq' = [rq EXCEPT ![r] = "running"] /\ mu' = r
  /\ UNCHANGED <<pc, lifeVars, coreVars, tunVars, stunClosing, sessions, cancelled>>

SessionEnds(r) ==
  /\ rq[r] = "running"
  /\ rq' = [rq EXCEPT ![r] = "finishing"]
  /\ mu' = NoOne
  /\ UNCHANGED <<pc, lifeVars, coreVars, tunVars, stunClosing, sessions, cancelled>>

(* finish; the last one releases everyone in stunWG.Wait.                     *)
SessionFinishes(r) ==
  /\ rq[r] = "finishing"
  /\ rq' = [rq EXCEPT ![r] = "idle"]
  /\ sessions' = sessions \ {r} /\ cancelled' = cancelled \ {r}
  /\ pc' = IF sessions # {r} THEN pc
           ELSE [c \in Callers |-> IF pc[c] = "reload drains" THEN "reload locks"
                                   ELSE IF pc[c] = "close drains" THEN "close locks"
                                   ELSE pc[c]]
  /\ UNCHANGED <<mu, lifeVars, coreVars, tunVars, stunClosing>>

------------------------------------------------------------------------------
(* Reload.                                                                    *)

ReloadStops(c) ==
  /\ pc[c] = "idle"
  /\ stopSTUNSessions(c, "reload drains", "reload locks")
  /\ UNCHANGED <<mu, lifeVars, coreVars, tunVars>>

(* Refused: not running, too large for the memory there is, unreadable, or    *)
(* with another tun than the live one.                                        *)
ReloadLocks(c, accepted) ==
  /\ mu = NoOne /\ (accepted => running)
  /\ goes(c, "reload locks", IF accepted THEN "reloading" ELSE "reload unlocks")
  /\ mu' = c
  /\ UNCHANGED <<lifeVars, coreVars, tunVars, stunVars>>

(* The tun is the live one, so its listener is kept.                          *)
ReloadApplies(c, panics) ==
  /\ goes(c, "reloading", IF panics THEN "reload unlocks" ELSE "reload commits")
  /\ UNCHANGED <<mu, lifeVars, coreVars, tunVars, stunVars>>

runtimeInboundCountLocked == IF share' THEN 2 ELSE 1

ReloadCommits(c) ==
  /\ goes(c, "reload commits", "reload unlocks")
  /\ UNCHANGED <<mu, lifeVars, monitor, controlPlane, share, tunVars, stunVars>>
  /\ inboundCount' = runtimeInboundCountLocked

ReloadUnlocks(c) ==
  /\ goes(c, "reload unlocks", "reload resumes")
  /\ mu' = NoOne
  /\ UNCHANGED <<lifeVars, coreVars, tunVars, stunVars>>

(* resumeSTUNSessions, deferred before the unlock and so run after it.        *)
ReloadResumes(c) ==
  /\ goes(c, "reload resumes", "idle")
  /\ stunClosing' = FALSE
  /\ UNCHANGED <<mu, lifeVars, coreVars, tunVars, sessions, cancelled, rq>>

------------------------------------------------------------------------------
(* The proxy share, each call in one critical section.                        *)

(* With a share there is, a failed change is rolled back, or lost with it.    *)
StartProxyShare(outcome) ==
  /\ mu = NoOne /\ running
  /\ \/ outcome = "shares" /\ share' = TRUE /\ inboundCount' = runtimeInboundCountLocked
     \/ outcome = "refused" /\ UNCHANGED <<share, inboundCount>>
     \/ /\ outcome = "lost" /\ share
        /\ share' = FALSE /\ inboundCount' = runtimeInboundCountLocked
  /\ UNCHANGED <<mu, pc, lifeVars, monitor, controlPlane, tunVars, stunVars>>

(* A mutant: the count is left as it was.                                     *)
StopProxyShareUncounted ==
  /\ mu = NoOne
  /\ share' = FALSE
  /\ UNCHANGED <<mu, pc, lifeVars, monitor, controlPlane, inboundCount, tunVars, stunVars>>

StopProxyShare ==
  /\ mu = NoOne
  /\ share' = FALSE
  /\ inboundCount' = IF running THEN runtimeInboundCountLocked ELSE inboundCount
  /\ UNCHANGED <<mu, pc, lifeVars, monitor, controlPlane, tunVars, stunVars>>

------------------------------------------------------------------------------
(* Close.                                                                     *)

CloseStops(c) ==
  /\ pc[c] = "idle"
  /\ stopSTUNSessions(c, "close drains", "close locks")
  /\ UNCHANGED <<mu, lifeVars, coreVars, tunVars>>

(* What Close takes down first is the same, running or not.                   *)
CloseLocks(c) ==
  /\ mu = NoOne
  /\ goes(c, "close locks", IF running THEN "closing" ELSE "idle")
  /\ mu' = IF running THEN c ELSE NoOne
  /\ published' = FALSE
  /\ share' = FALSE /\ monitor' = FALSE /\ controlPlane' = FALSE
  /\ UNCHANGED <<running, coreCount, teardownPanicked, inboundCount, tunVars, stunVars>>

(* A mutant: the core's count is not given back.                              *)
CloseKeepsCount(c, panics) ==
  /\ goes(c, "closing", "idle")
  /\ mu' = NoOne
  /\ IF panics THEN fdOpen' = fdOpen \ {tunFd} /\ UNCHANGED listenerFd ELSE shutdownCore(tunFd)
  /\ resetTunState
  /\ running' = FALSE /\ inboundCount' = 0
  /\ teardownPanicked' = (teardownPanicked \/ panics)
  /\ UNCHANGED <<published, coreCount, monitor, controlPlane, share, stunVars, opening,
                 pendingOpen, reaping>>

(* shutdownCore is guarded: it may panic before it reaches the listeners.     *)
CloseFinishes(c, panics) ==
  /\ goes(c, "closing", "idle")
  /\ mu' = NoOne
  /\ IF panics THEN fdOpen' = fdOpen \ {tunFd} /\ UNCHANGED listenerFd ELSE shutdownCore(tunFd)
  /\ resetTunState
  /\ running' = FALSE /\ inboundCount' = 0
  /\ coreCount' = coreCount - 1
  /\ teardownPanicked' = (teardownPanicked \/ panics)
  /\ UNCHANGED <<published, monitor, controlPlane, share, stunVars, opening, pendingOpen,
                 reaping>>

------------------------------------------------------------------------------
Locks(c) == StartLocks(c) \/ (\E accepted \in BOOLEAN : ReloadLocks(c, accepted)) \/ CloseLocks(c)

(* What a caller does between its calls' locking and returning.               *)
Steps(c) ==
  \/ MonitorRefused(c) \/ MonitorStarts(c) \/ ConfigRefused(c)
  \/ \E o \in Opens : TunOpenDispatched(c, o)
  \/ AppliesWithoutTun(c) \/ WaitBeforeTunAttach(c)
  \/ \E outcome \in {"attached", "failed", "closed"} : AttachTun(c, outcome)
  \/ TunNotVerified(c) \/ TunVerified(c)
  \/ ControlPlaneRefused(c) \/ ControlPlaneStarts(c)
  \/ StartPanics(c) \/ StartRecovers(c) \/ StartFails(c) \/ StartFinishes(c)
  \/ \E panics \in BOOLEAN : ReloadApplies(c, panics) \/ CloseFinishes(c, panics)
  \/ ReloadCommits(c) \/ ReloadUnlocks(c) \/ ReloadResumes(c)

Calls(c) == ReloadStops(c) \/ CloseStops(c)

Shares == (\E outcome \in {"shares", "refused", "lost"} : StartProxyShare(outcome)) \/ StopProxyShare

Session(r) == SessionEnds(r) \/ SessionFinishes(r)

OpenTun(o) == (\E result \in {"opened", "failed"} : OpenTunReturns(o, result)) \/ Reap(o)

ServiceNext ==
  \/ \E c \in Callers : Locks(c) \/ Steps(c) \/ Calls(c)
  \/ Shares
  \/ \E r \in Requests : RequestFinds(r) \/ beginSTUNSession(r) \/ SessionLocks(r) \/ Session(r)
  \/ \E o \in Opens : OpenTun(o)

ServiceSpec == ServiceInit /\ [][ServiceNext]_serviceVars

(* Threads run on and OpenTun and STUN sessions end; the Go mutex hands over  *)
(* to whoever has waited for a millisecond, so no one waits for ever.         *)
ServiceFairness ==
  /\ \A c \in Callers : /\ WF_serviceVars(Steps(c))
                        /\ SF_serviceVars(CloseLocks(c))
                        /\ SF_serviceVars(\E accepted \in BOOLEAN : ReloadLocks(c, accepted))
  /\ \A r \in Requests : WF_serviceVars(Session(r)) /\ SF_serviceVars(SessionLocks(r))
  /\ \A o \in Opens : WF_serviceVars(OpenTun(o))

FairServiceSpec == ServiceSpec /\ ServiceFairness

------------------------------------------------------------------------------
(* Properties.                                                                *)

(* Start fails or Close ends with nothing left behind, whichever step failed: *)
(* no descriptor, monitor, control plane or share, and no counted core that   *)
(* would make Setup refuse a change for ever.                                 *)
NothingLeftOpen ==
  (mu = NoOne /\ ~running) =>
    /\ coreCount = 0 /\ ~published /\ ~monitor /\ ~controlPlane /\ ~share
    /\ tunFd = NoFd /\ liveTunFd = NoFd
    /\ ~teardownPanicked => listenerFd = NoFd /\ fdOpen \subseteq reaping

(* A running service serves the tun it opened, and is counted once.           *)
ServesItsTun ==
  (mu = NoOne /\ running) =>
    /\ listenerFd = liveTunFd /\ {liveTunFd} \ {NoFd} \subseteq fdOpen
    /\ coreCount = 1 /\ published /\ monitor /\ controlPlane
    /\ inboundCount = (IF share THEN 2 ELSE 1)

(* Every descriptor of OpenTun is someone's to close.                         *)
DescriptorsOwned ==
  fdOpen \subseteq {pendingOpen, tunFd, listenerFd} \cup reaping

(* Who holds the mutex, and what only its holder has in hand.                 *)
HoldsMutex == StartSteps \cup {"reloading", "reload commits", "reload unlocks", "closing"}

HolderIn(steps) == mu \in Callers /\ pc[mu] \in steps

MutexHeld ==
  /\ \A c \in Callers : pc[c] \in HoldsMutex => mu = c
  /\ \A r \in Requests : rq[r] = "running" => mu = r

OpensOwned ==
  \A o \in Opens :
    /\ opening[o] # "none" => o = pendingOpen \/ o \in reaping
    /\ opening[o] \in {"opening", "failed"} => o \notin fdOpen

DescriptorsInHand ==
  /\ pendingOpen # NoFd => HolderIn({"applying", "panicked"})
  /\ pendingOpen = NoFd \/ tunFd = NoFd
  /\ tunFd # NoFd => HolderIn({"attaching", "verifying", "panicked"})
  /\ HolderIn({"applying"}) => pendingOpen # NoFd
  /\ HolderIn({"attaching", "verifying"}) => tunFd = liveTunFd

(* The stages at which a part of the service is up.                           *)
UpDuring(steps) == running \/ HolderIn(steps)
ServingNow == running /\ ~HolderIn({"closing"})

CoreCounted == coreCount = 1 <=> UpDuring(StartSteps)

PartsFollowStages ==
  /\ HolderIn(StartSteps) => ~running
  /\ HolderIn({"reloading", "reload commits", "closing"}) => running
  /\ monitor => UpDuring(StartSteps \ {"monitoring"})
  /\ controlPlane => UpDuring({"started"})
  /\ HolderIn({"started"}) => controlPlane /\ monitor
  /\ HolderIn({"parsing", "applying", "attaching", "verifying", "serving"}) => monitor
  /\ (published \/ share) => running
  /\ HolderIn({"closing"}) => ~published /\ ~share /\ ~monitor /\ ~controlPlane
  /\ ServingNow => published /\ monitor /\ controlPlane /\ inboundCount = (IF share THEN 2 ELSE 1)

TunFollowsStages ==
  /\ liveTunFd # NoFd => UpDuring({"attaching", "verifying", "serving", "started", "panicked"})
  /\ UpDuring({"serving", "started"}) => listenerFd = liveTunFd
  /\ ~teardownPanicked /\ listenerFd # NoFd =>
       UpDuring({"verifying", "serving", "started", "panicked"})

(* A descriptor has one owner, and is open while its owner uses it.           *)
DescriptorsApart ==
  /\ pendingOpen \notin reaping /\ tunFd \notin reaping /\ listenerFd \notin reaping
  /\ listenerFd # NoFd => listenerFd # pendingOpen /\ listenerFd \in fdOpen
  /\ HolderIn({"attaching"}) => tunFd \in fdOpen /\ tunFd # listenerFd
  /\ \A o \in Opens : opening[o] = "opened" => o \in fdOpen /\ o # listenerFd

(* Every call holds the mutex over all the steps that need it, each part of   *)
(* the service is up exactly from one stage to another, and a descriptor has  *)
(* one owner from OpenTun to its close: what the properties above rest on.    *)
ServiceInv ==
  /\ MutexHeld /\ OpensOwned /\ DescriptorsInHand
  /\ CoreCounted /\ PartsFollowStages /\ TunFollowsStages /\ DescriptorsApart

(* Calls of Reload and Close return, however sessions, Starts and each other  *)
(* hold the mutex: nobody waits for a session while holding what it needs.    *)
CallsReturn == \A c \in Callers : (pc[c] # "idle") ~> (pc[c] = "idle")
==============================================================================

---------------------------- MODULE BearerWitness ----------------------------
(* The bearer witness, bind/hako/bearer_witness.go.  It watches the physical  *)
(* dials of the process; when many wait or time out it dials again itself,    *)
(* bound, unbound and to the path's resolvers, and draws one of five          *)
(* verdicts: it may suspend the socket binding, declare an outage, or end it. *)
(* Every run, timer and path check carries the session it started in; a path  *)
(* change or a reset starts a new session and leaves the old ones running.    *)
(*                                                                            *)
(* Durations are abstracted: where the code compares a time with the stall    *)
(* window, the interval or the grace period, both outcomes are possible, and  *)
(* a timer fires at any moment after it is set.  The instant a run started,   *)
(* which names an outage, is the run's number.                                *)
EXTENDS PathState, FiniteSets, FiniteSetsExt

CONSTANTS
  Dials,                 \* physical dials and resolver questions
  Connects,              \* serials of connects
  Serial,                \* the connect a dial belongs to, 0 for a question
  PendingDials,          \* bearerWitnessPending
  AfterTimeouts,         \* bearerWitnessAfter
  MaxRuns, MaxSession, MaxMoves  \* bounds on runs, sessions, path updates

ASSUME WitnessConstants ==
  /\ Serial \in [Dials -> Connects \cup {0}] /\ 0 \notin Connects
  /\ PendingDials \in Nat \ {0} /\ AfterTimeouts \in Nat \ {0}
  /\ MaxRuns \in Nat /\ MaxSession \in Nat \ {0} /\ MaxMoves \in Nat

VARIABLES
  dials,                 \* the session a dial started in, Unused or Ended
  session, inFlight,
  waiting,               \* pending: started and unended dials by connect
  unserialled, timeouts, timedOut, questionsTimedOut,
  running, stallArmed,
  stallTimers,           \* sessions whose stall window has not closed
  outageSince,           \* run that found the outage in force, or 0
  lastKind,              \* the verdict in force
  runs, runCount,
  attempts,              \* recovery attempts still on timers, by outage
  scheduling,            \* pathChanged calls that have yet to schedule a check
  checkTimers,           \* sessions with a provider check scheduled
  recovered, retried,    \* history: recoveries and attempts by outage
  checked,               \* history: this session's provider check was made
  foreign, crossed       \* history: see observe's failure and endedLocked

tallyVars == <<inFlight, waiting, unserialled, crossed>>
silenceVars == <<timeouts, timedOut, questionsTimedOut, foreign>>
verdictVars == <<outageSince, lastKind, recovered>>
retryVars == <<attempts, retried>>
checkVars == <<scheduling, checkTimers, checked>>
witnessVars == <<dials, session, tallyVars, silenceVars, running, stallArmed,
                 stallTimers, verdictVars, runs, runCount, retryVars, checkVars>>
allVars == <<pathVars, witnessVars>>

Unused == 0
Ended == -1
Sessions == 1..MaxSession
Runs == 1..MaxRuns
Kinds == {"", "carries", "binding", "destination", "unknown", "network", "process"}
Results == {"", "ok", "fail"}
RunSteps == {"none", "due", "refused", "ready", "collecting", "suspending",
             "clearing", "retrying", "ending", "done"}
RunRecords == [step : RunSteps, session : Sessions \cup {0},
               index : Paths \cup {NoPath}, at : Nat,
               bound : Results, unbound : Results]
NoRun(step, s) ==
  [step |-> step, session |-> s, index |-> NoPath, at |-> 0,
   bound |-> "", unbound |-> ""]

RunsTypeOK ==
  /\ session \in Sessions /\ running \in BOOLEAN
  /\ runCount \in 0..MaxRuns /\ runs \in [Runs -> RunRecords]
  /\ outageSince \in 0..runCount /\ lastKind \in Kinds
  /\ attempts \in [Runs -> 0..2]
  /\ recovered \in [Runs -> Nat] /\ retried \in [Runs -> Nat]

(* The counters of observe stay within the dials there are, timers carry      *)
(* sessions that have begun, and an outage is named by a started run.         *)
WitnessTypeOK ==
  /\ PathTypeOK
  /\ RunsTypeOK
  /\ dials \in [Dials -> Sessions \cup {Unused, Ended}]
  /\ inFlight \in Nat /\ inFlight <= Cardinality(Dials)
  /\ waiting \in [Connects -> Nat]
  /\ unserialled \in Nat
  /\ timeouts \in 0..AfterTimeouts
  /\ timedOut \subseteq Connects /\ Cardinality(timedOut) <= 2
  /\ questionsTimedOut \in 0..2
  /\ stallArmed \in BOOLEAN
  /\ stallTimers \subseteq 1..session
  /\ scheduling \subseteq 1..session /\ checkTimers \subseteq 1..session
  /\ checked \in BOOLEAN /\ foreign \in BOOLEAN /\ crossed \in BOOLEAN

------------------------------------------------------------------------------
WitnessInit ==
  /\ dials = [d \in Dials |-> Unused]
  /\ session = 1
  /\ inFlight = 0 /\ waiting = [c \in Connects |-> 0] /\ unserialled = 0
  /\ timeouts = 0 /\ timedOut = {} /\ questionsTimedOut = 0
  /\ running = FALSE /\ stallArmed = FALSE /\ stallTimers = {}
  /\ outageSince = 0 /\ lastKind = ""
  /\ runs = [r \in Runs |-> NoRun("none", 0)] /\ runCount = 0
  /\ attempts = [r \in Runs |-> 0]
  /\ scheduling = {} /\ checkTimers = {} /\ checked = FALSE
  /\ recovered = [r \in Runs |-> 0] /\ retried = [r \in Runs |-> 0]
  /\ foreign = FALSE /\ crossed = FALSE

(* A mutant: the count is not held at zero.                                   *)
unclamped(n) == n

atLeastZero(n) == IF n < 0 THEN 0 ELSE n
upTo(cap, n) == IF n > cap THEN cap ELSE n

waitingConnects == Cardinality({c \in Connects : waiting[c] > 0}) + unserialled
stalled == inFlight >= PendingDials /\ waitingConnects >= 2
silent == timeouts >= AfterTimeouts /\ Cardinality(timedOut) + questionsTimedOut >= 2

(* considerLocked up to its unlock, in the state its caller has made.  A run  *)
(* that is due may be held back by the interval or by the grace period.       *)
considerLocked(failed) ==
  \/ /\ runCount < MaxRuns
     /\ stalled' \/ (failed /\ silent')
     /\ ~running
     /\ running' = TRUE
     /\ runCount' = runCount + 1
     /\ runs' = [runs EXCEPT ![runCount + 1] = NoRun("due", session)]
  \/ UNCHANGED <<running, runCount, runs>>

------------------------------------------------------------------------------
(* observe, one action per event.                                             *)

pathUntouched == UNCHANGED pathVars

DialStarted(d) ==
  /\ dials[d] = Unused
  /\ dials' = [dials EXCEPT ![d] = session]
  /\ inFlight' = inFlight + 1
  /\ IF Serial[d] = 0
     THEN unserialled' = unserialled + 1 /\ UNCHANGED waiting
     ELSE waiting' = [waiting EXCEPT ![Serial[d]] = @ + 1] /\ UNCHANGED unserialled
  /\ IF inFlight' >= PendingDials /\ ~stallArmed
     THEN stallArmed' = TRUE /\ stallTimers' = stallTimers \cup {session}
     ELSE UNCHANGED <<stallArmed, stallTimers>>
  /\ UNCHANGED <<silenceVars, crossed>>
  /\ considerLocked(FALSE)
  /\ pathUntouched
  /\ UNCHANGED <<session, verdictVars, retryVars, checkVars>>

(* Question slots are used again; a connect's serial never is.                *)
dialEnds(d) ==
  /\ dials[d] \in Sessions
  /\ dials' = [dials EXCEPT ![d] = IF Serial[d] = 0 THEN Unused ELSE Ended]

(* A mutant: a connect that succeeded gives back one dial, not all of its.    *)
endedForgetsRacers(d, connected) ==
  /\ inFlight' = atLeastZero(inFlight - 1)
  /\ IF Serial[d] = 0
     THEN /\ unserialled' = atLeastZero(unserialled - 1)
          /\ crossed' = (crossed \/ dials[d] # session)
          /\ UNCHANGED waiting
     ELSE /\ waiting' = [waiting EXCEPT ![Serial[d]] =
                           IF connected THEN 0 ELSE atLeastZero(@ - 1)]
          /\ UNCHANGED <<unserialled, crossed>>

(* The value endedLocked returns: whether the witness was waiting for d.      *)
wasWaiting(d) == Serial[d] = 0 \/ waiting[Serial[d]] > 0

(* crossed records that a question of an earlier session was taken off the    *)
(* tally of this one: questions carry no serial to tell them apart.           *)
endedLocked(d, connected) ==
  LET c == Serial[d]
      left == waiting[c]
  IN \/ /\ c = 0
        /\ unserialled' = atLeastZero(unserialled - 1)
        /\ inFlight' = atLeastZero(inFlight - 1)
        /\ crossed' = (crossed \/ dials[d] # session)
        /\ UNCHANGED waiting
     \/ /\ c # 0
        /\ IF connected \/ left <= 1
           THEN /\ waiting' = [waiting EXCEPT ![c] = 0]
                /\ inFlight' = atLeastZero(inFlight - left)
           ELSE /\ waiting' = [waiting EXCEPT ![c] = left - 1]
                /\ inFlight' = atLeastZero(inFlight - 1)
        /\ UNCHANGED <<unserialled, crossed>>

(* A mutant: a delivery that ends no outage recovers the last one again.      *)
deliveryRecoversAgain ==
  /\ timeouts' = 0 /\ timedOut' = {} /\ questionsTimedOut' = 0 /\ foreign' = FALSE
  /\ outageSince' = 0
  /\ recovered' = IF runCount # 0 /\ lastKind = "network"
                   THEN [recovered EXCEPT ![runCount] = @ + 1] ELSE recovered
  /\ UNCHANGED lastKind

(* A delivered dial ends the silence and the outage in force, which it then   *)
(* recovers from.  recover closes flows, resets sessions and checks the       *)
(* providers; it changes nothing of the witness.                              *)
delivered ==
  /\ timeouts' = 0 /\ timedOut' = {} /\ questionsTimedOut' = 0 /\ foreign' = FALSE
  /\ outageSince' = 0
  /\ recovered' = IF outageSince = 0 THEN recovered
                   ELSE [recovered EXCEPT ![outageSince] = @ + 1]
  /\ UNCHANGED lastKind

DialSucceeded(d) ==
  /\ dialEnds(d)
  /\ endedLocked(d, TRUE)
  /\ delivered
  /\ pathUntouched
  /\ UNCHANGED <<session, running, stallArmed, stallTimers, runs, runCount, retryVars,
                 checkVars>>

(* Probes are counted only when they succeed, and are never waited for.       *)
ProbeSucceeded ==
  /\ delivered
  /\ pathUntouched
  /\ UNCHANGED <<dials, session, tallyVars, running, stallArmed, stallTimers, runs,
                 runCount, retryVars, checkVars>>

(* foreign records that a dial of an earlier session was counted silent.      *)
DialFailed(d, timeout) ==
  /\ dialEnds(d)
  /\ IF ~wasWaiting(d)
     THEN UNCHANGED <<tallyVars, silenceVars, running, runCount, runs>>
     ELSE /\ endedLocked(d, FALSE)
          /\ IF ~timeout
             THEN UNCHANGED <<silenceVars, running, runCount, runs>>
             ELSE /\ questionsTimedOut' = IF Serial[d] = 0
                                          THEN upTo(2, questionsTimedOut + 1)
                                          ELSE questionsTimedOut
                  /\ timedOut' = IF Serial[d] # 0 /\ Cardinality(timedOut) < 2
                                 THEN timedOut \cup {Serial[d]} ELSE timedOut
                  /\ timeouts' = upTo(AfterTimeouts, timeouts + 1)
                  /\ foreign' = (foreign \/ dials[d] # session)
                  /\ considerLocked(TRUE)
  /\ pathUntouched
  /\ UNCHANGED <<session, stallArmed, stallTimers, verdictVars, retryVars, checkVars>>

StallWindowClosed(s) ==
  /\ s \in stallTimers
  /\ stallTimers' = stallTimers \ {s}
  /\ UNCHANGED <<tallyVars, silenceVars>>
  /\ IF s = session
     THEN stallArmed' = FALSE /\ considerLocked(FALSE)
     ELSE UNCHANGED <<stallArmed, running, runCount, runs>>
  /\ pathUntouched
  /\ UNCHANGED <<dials, session, verdictVars, retryVars, checkVars>>

------------------------------------------------------------------------------
(* A run, from the unlock in considerLocked to its deferred end.              *)

RunStep(r, from, to) ==
  /\ runs[r].step = from
  /\ runs' = [runs EXCEPT ![r].step = to]

onlyRuns == UNCHANGED <<dials, session, tallyVars, silenceVars, running, stallArmed,
                        stallTimers, verdictVars, runCount, retryVars, checkVars>>

RunGate(r) ==
  /\ RunStep(r, "due",
             IF publishedIndex = NoPath \/ networkPaused THEN "refused" ELSE "ready")
  /\ onlyRuns /\ pathUntouched

(* The end of a run, of considerLocked's refusal too: running belongs to the  *)
(* session.                                                                   *)
runOver(r) ==
  /\ running' = IF runs[r].session = session THEN FALSE ELSE running
  /\ runs' = [runs EXCEPT ![r] =
                [NoRun("done", runs[r].session) EXCEPT !.at = runs[r].at]]
  /\ UNCHANGED <<dials, session, tallyVars, silenceVars, stallArmed, stallTimers,
                 verdictVars, runCount, retryVars, checkVars>>

(* A mutant: a refused run leaves running set.                                *)
RunRefusedStuck(r) == RunStep(r, "refused", "done") /\ onlyRuns /\ pathUntouched

RunRefused(r) == runs[r].step = "refused" /\ runOver(r) /\ pathUntouched

(* The index is read when the goroutine starts.                               *)
RunStarts(r) ==
  /\ runs[r].step = "ready"
  /\ runs' = [runs EXCEPT ![r] = [@ EXCEPT !.step = "collecting",
                                  !.index = publishedIndex, !.at = moves]]
  /\ onlyRuns /\ pathUntouched

inSession(r) == runs[r].session = session

UnboundResult(r, result) ==
  /\ runs[r].step = "collecting" /\ runs[r].unbound = ""
  /\ runs' = [runs EXCEPT ![r].unbound = result,
        ![r].step = IF result = "ok" /\ runs[r].bound # "ok" /\ inSession(r)
                    THEN "suspending" ELSE @]
  /\ onlyRuns /\ pathUntouched

RunSuspends(r) ==
  /\ RunStep(r, "suspending", "collecting")
  /\ suspendBinding(runs[r].index, runs[r].at)
  /\ onlyRuns
  /\ UNCHANGED <<publishedIndex, networkPaused, moves>>

BoundResult(r, result) ==
  /\ runs[r].step = "collecting" /\ runs[r].bound = ""
  /\ runs' = [runs EXCEPT ![r].bound = result,
        ![r].step = IF result = "ok" /\ inSession(r) THEN "clearing" ELSE @]
  /\ onlyRuns /\ pathUntouched

RunClears(r) ==
  /\ RunStep(r, "clearing", "collecting")
  /\ clearBindingSuspension
  /\ onlyRuns
  /\ UNCHANGED <<publishedIndex, networkPaused, moves>>

collected(r) ==
  runs[r].step = "collecting" /\ runs[r].bound # "" /\ runs[r].unbound # ""

(* resolver is the best answer of the path's resolvers, "none" if it lists no *)
(* resolver.  The run only keeps it for the verdict, so it is chosen there.   *)
verdict(r, resolver) ==
  IF runs[r].bound = "ok" THEN "carries"
  ELSE IF runs[r].unbound = "ok" THEN "binding"
  ELSE IF resolver = "ok" THEN "destination"
  ELSE IF resolver = "none" THEN "unknown"
  ELSE "network"

StaleVerdict(r) ==
  /\ collected(r) /\ ~inSession(r)
  /\ RunStep(r, "collecting", "ending")
  /\ onlyRuns /\ pathUntouched

(* A mutant: the verdict is applied without asking for the session.           *)
VerdictOfAnySession(r, kind) ==
  /\ collected(r)
  /\ lastKind' = kind
  /\ outageSince' = IF kind = "network" THEN r ELSE outageSince
  /\ RunStep(r, "collecting", "ending")
  /\ pathUntouched
  /\ UNCHANGED <<dials, session, tallyVars, silenceVars, running, stallArmed,
                 stallTimers, recovered, runCount, retryVars, checkVars>>

(* The verdict under the lock, with what the run does about it after: an      *)
(* outage that begins is retried, one that ends is recovered from.  The flows *)
(* a binding verdict closes are not the witness's state.                      *)
Verdict(r, kind) ==
  /\ collected(r) /\ inSession(r)
  /\ lastKind' = kind
  /\ \/ /\ kind = "network" /\ outageSince = 0
        /\ outageSince' = r
        /\ RunStep(r, "collecting", "retrying")
        /\ UNCHANGED recovered
     \/ /\ kind = "unknown" \/ (kind = "network" /\ outageSince # 0)
        /\ RunStep(r, "collecting", "ending")
        /\ UNCHANGED <<outageSince, recovered>>
     \/ /\ kind \in {"carries", "binding", "destination"}
        /\ outageSince' = 0
        /\ RunStep(r, "collecting", "ending")
        /\ recovered' = IF outageSince = 0 THEN recovered
                         ELSE [recovered EXCEPT ![outageSince] = @ + 1]
  /\ pathUntouched
  /\ UNCHANGED <<dials, session, tallyVars, silenceVars, running, stallArmed,
                 stallTimers, runCount, retryVars, checkVars>>

inForce(since) == inSession(since) /\ outageSince = since

(* recoveryAttempt, which resets what recover resets while the outage lasts.  *)
attempted(since) ==
  retried' = IF inForce(since) THEN [retried EXCEPT ![since] = @ + 1] ELSE retried

(* beginRecoveryAttempts: the first at once, two more on timers.              *)
RunRetries(r) ==
  /\ RunStep(r, "retrying", "ending")
  /\ attempted(r)
  /\ attempts' = [attempts EXCEPT ![r] = 2]
  /\ pathUntouched
  /\ UNCHANGED <<dials, session, tallyVars, silenceVars, running, stallArmed,
                 stallTimers, verdictVars, runCount, checkVars>>

(* A mutant: the timer of an attempt is set again.                            *)
RecoveryAttemptRearms(since) ==
  /\ attempts[since] > 0
  /\ attempted(since)
  /\ pathUntouched
  /\ UNCHANGED <<dials, session, tallyVars, silenceVars, running, stallArmed,
                 stallTimers, verdictVars, runs, runCount, attempts, checkVars>>

RecoveryAttempt(since) ==
  /\ attempts[since] > 0
  /\ attempts' = [attempts EXCEPT ![since] = @ - 1]
  /\ attempted(since)
  /\ pathUntouched
  /\ UNCHANGED <<dials, session, tallyVars, silenceVars, running, stallArmed,
                 stallTimers, verdictVars, runs, runCount, checkVars>>

RunEnds(r) == runs[r].step = "ending" /\ runOver(r) /\ pathUntouched

(* systemStackReported, for a report on the verdict in force.                 *)
SystemStackConnected ==
  /\ lastKind = "network" /\ outageSince # 0
  /\ lastKind' = "process"
  /\ pathUntouched
  /\ UNCHANGED <<dials, session, tallyVars, silenceVars, running, stallArmed,
                 stallTimers, outageSince, recovered, runs, runCount,
                 retryVars, checkVars>>

------------------------------------------------------------------------------
(* Sessions: pathChanged, called by the settling monitor, and reset, called   *)
(* when the service closes.                                                   *)

(* A mutant: the run of the old session still counts as running.              *)
newSessionStillRunning ==
  /\ session < MaxSession
  /\ session' = session + 1
  /\ inFlight' = 0 /\ waiting' = [c \in Connects |-> 0] /\ unserialled' = 0
  /\ timeouts' = 0 /\ timedOut' = {} /\ questionsTimedOut' = 0
  /\ stallArmed' = FALSE
  /\ outageSince' = 0
  /\ foreign' = FALSE /\ crossed' = FALSE
  /\ UNCHANGED <<running, dials, stallTimers, recovered, runs, runCount, retryVars>>

newSession ==
  /\ session < MaxSession
  /\ session' = session + 1
  /\ inFlight' = 0 /\ waiting' = [c \in Connects |-> 0] /\ unserialled' = 0
  /\ timeouts' = 0 /\ timedOut' = {} /\ questionsTimedOut' = 0
  /\ running' = FALSE /\ stallArmed' = FALSE
  /\ outageSince' = 0
  /\ foreign' = FALSE /\ crossed' = FALSE
  /\ UNCHANGED <<dials, stallTimers, recovered, runs, runCount, retryVars>>

pathChanged(index) ==
  /\ newSession
  /\ scheduling' = IF index # NoPath THEN scheduling \cup {session + 1} ELSE scheduling
  /\ checked' = FALSE
  /\ UNCHANGED <<lastKind, checkTimers>>


(* pathChanged takes the lock a second time to read the session its check is  *)
(* for.                                                                       *)
SchedulePathCheck(s) ==
  /\ s \in scheduling
  /\ scheduling' = scheduling \ {s}
  /\ checkTimers' = checkTimers \cup {session}
  /\ pathUntouched
  /\ UNCHANGED <<dials, session, tallyVars, silenceVars, running, stallArmed,
                 stallTimers, verdictVars, runs, runCount, retryVars, checked>>

PathCheck(s) ==
  /\ s \in checkTimers
  /\ checkTimers' = checkTimers \ {s}
  /\ checked' = (checked \/ s = session)
  /\ pathUntouched
  /\ UNCHANGED <<dials, session, tallyVars, silenceVars, running, stallArmed,
                 stallTimers, verdictVars, runs, runCount, retryVars, scheduling>>

reset ==
  /\ newSession
  /\ lastKind' = ""
  /\ checked' = FALSE
  /\ UNCHANGED <<scheduling, checkTimers>>

------------------------------------------------------------------------------
Observe ==
  \/ \E d \in Dials : DialStarted(d) \/ DialSucceeded(d)
  \/ \E d \in Dials, timeout \in BOOLEAN : DialFailed(d, timeout)
  \/ ProbeSucceeded

Run(r) ==
  \/ RunGate(r) \/ RunRefused(r) \/ RunStarts(r)
  \/ \E result \in {"ok", "fail"} : UnboundResult(r, result) \/ BoundResult(r, result)
  \/ RunSuspends(r) \/ RunClears(r)
  \/ StaleVerdict(r)
  \/ \E resolver \in {"none", "ok", "fail"} : Verdict(r, verdict(r, resolver))
  \/ RunRetries(r) \/ RunEnds(r)

PathCheckSteps(s) == SchedulePathCheck(s) \/ PathCheck(s)

Timers ==
  \/ \E s \in Sessions : StallWindowClosed(s)
  \/ \E r \in Runs : RecoveryAttempt(r)

WitnessNext ==
  \/ Observe
  \/ \E r \in Runs : Run(r)
  \/ Timers
  \/ \E s \in Sessions : PathCheckSteps(s)
  \/ SystemStackConnected

(* The witness by itself, under a path that moves and settles at any time.    *)
PathMoves(index) ==
  /\ moves < MaxMoves
  /\ publishPath(index, TRUE)
  /\ UNCHANGED witnessVars

PathSettles(index) == pathChanged(index) /\ UNCHANGED pathVars

ServiceCloses ==
  /\ reset
  /\ publishedIndex' = NoPath /\ networkPaused' = FALSE
  /\ UNCHANGED <<suspendedFor, moves, measuredAt>>

Environment ==
  \/ \E index \in Paths \cup {NoPath} : PathMoves(index) \/ PathSettles(index)
  \/ ServiceCloses

(* Goroutines run on, the witness's own dials have a timeout, and timers fire.*)
WitnessFairness ==
  /\ \A r \in Runs : WF_allVars(Run(r))
  /\ \A s \in Sessions : WF_allVars(PathCheckSteps(s))

AloneInit == PathInit /\ WitnessInit
WitnessSpec == AloneInit /\ [][WitnessNext \/ Environment]_allVars
FairWitnessSpec == WitnessSpec /\ WitnessFairness

------------------------------------------------------------------------------
(* Properties.                                                                *)

Live(r) == runs[r].step \notin {"none", "done"}

(* running is set exactly while one run of the current session lives, through *)
(* refusals, stale runs that end late and session changes: the witness never  *)
(* runs twice at once on one path and never locks itself out.                 *)
OneRunPerSession ==
  /\ running <=> \E r \in Runs : Live(r) /\ inSession(r)
  /\ \A r, q \in Runs : Live(r) /\ Live(q) /\ inSession(r) /\ inSession(q) => r = q

(* The outage in force, which silences the health checks of the process, was  *)
(* found by a run of the current session, and the verdict the app is shown    *)
(* does not contradict it.                                                    *)
OutageIsCurrent ==
  outageSince # 0 => /\ inSession(outageSince)
                     /\ lastKind \in {"network", "process", "unknown"}

(* An outage is recovered from at most once, only after it ended, and retried *)
(* at most three times, whichever of a dial, a probe and a later run ends it. *)
RecoveredOnce ==
  \A r \in Runs : /\ recovered[r] <= 1 /\ retried[r] <= 3
                  /\ recovered[r] = 1 => outageSince # r

Undecided == {"none", "due", "refused", "ready", "collecting", "suspending", "clearing"}

(* What makes the three properties above inductive: runs are numbered as they *)
(* become due and keep the session they began in, and a run without a verdict *)
(* has named no outage, so none was recovered from or retried in its name.    *)
WitnessInv ==
  /\ \A r \in Runs : /\ runs[r].session <= session
                     /\ r > runCount => runs[r].step = "none"
  /\ OneRunPerSession
  /\ OutageIsCurrent
  /\ RecoveredOnce
  /\ \A r \in Runs : runs[r].step \in Undecided => recovered[r] = 0 /\ outageSince # r
  /\ \A r \in Runs : runs[r].step \in Undecided \cup {"retrying"}
                        => attempts[r] = 0 /\ retried[r] = 0
  /\ \A r \in Runs : attempts[r] + retried[r] <= 3

(* The number in flight agrees with the connects and questions waited for,    *)
(* with several dials to a connect and connects won, except that a question   *)
(* asked before a path change can be taken off the new session's tally.       *)
TallyAgrees ==
  LET sum == MapThenSumSet(LAMBDA c : waiting[c], Connects) + unserialled
  IN inFlight <= sum /\ (~crossed => inFlight = sum)

(* A run always ends, whatever its dials and the path do.                     *)
RunsEnd == running ~> ~running


(* What TestAResetForgetsTheConnectsWaitingUnderTheOldCore says: what began   *)
(* under the old core is not the new core's silence.                          *)
OldSilenceNotCounted == ~foreign
==============================================================================

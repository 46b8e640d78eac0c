-------------------------- MODULE BearerWitnessProofs --------------------------
(* Runs, outages and recoveries of the bearer witness, for any dials, any     *)
(* thresholds, any number of runs and of sessions.                            *)
EXTENDS BearerWitness, TLAPS

(* What the proofs use of the constants.                                      *)
LEMMA Bounds == MaxRuns \in Nat /\ MaxSession \in Nat /\ MaxSession >= 1
<1>1. MaxRuns \in Nat /\ MaxSession \in Nat \ {0}
  BY WitnessConstants
<1> QED BY <1>1

USE Bounds DEF NoPath

(* Runs are numbered from one, so 0 names none.                               *)
LEMMA RunNumbers ==
  /\ 0 \notin Runs
  /\ \A r \in Runs : r \in Nat /\ r # 0
  /\ \A n \in 0..MaxRuns : n \in Nat /\ 0 \in 0..n
  /\ \A n \in 0..MaxRuns : \A m \in 0..n : m = 0 \/ m \in Runs
  /\ \A n \in 0..MaxRuns : \A r \in Runs : r > n \/ (r <= n /\ r \in 0..n)
BY DEF Runs

(* The part of the state the invariant speaks of.                             *)
coreVars == <<session, running, runs, runCount, verdictVars, retryVars>>

Inv == RunsTypeOK /\ WitnessInv

(* A record of a run in its step.                                             *)
LEMMA RunRecordTypes ==
  ASSUME NEW rec \in RunRecords
  PROVE  /\ rec.step \in RunSteps /\ rec.session \in Nat
         /\ rec.index \in Paths \cup {NoPath} /\ rec.at \in Nat
         /\ \A to \in RunSteps : [rec EXCEPT !.step = to] \in RunRecords
BY DEF RunRecords, Sessions

(* newBearerWitness satisfies the invariant.                                  *)
LEMMA InitEstablishes == PathInit /\ WitnessInit => PathTypeOK /\ Inv
<1> SUFFICES ASSUME PathInit, WitnessInit PROVE PathTypeOK /\ Inv
  OBVIOUS
<1>1. PathTypeOK
  BY DEF PathInit, PathTypeOK
<1>2. NoRun("none", 0) \in RunRecords
  BY DEF NoRun, RunRecords, RunSteps, Results, Sessions
<1>n. session = 1 /\ outageSince = 0 /\ runCount = 0
  BY DEF WitnessInit
<1>f. /\ attempts = [r \in Runs |-> 0] /\ recovered = [r \in Runs |-> 0]
      /\ retried = [r \in Runs |-> 0]
  BY DEF WitnessInit
<1>v. running = FALSE /\ lastKind = "" /\ runs = [r \in Runs |-> NoRun("none", 0)]
  BY DEF WitnessInit
<1>a. session \in Sessions /\ runCount \in 0..MaxRuns /\ outageSince \in 0..runCount
  BY <1>n DEF Sessions
<1>k. lastKind \in Kinds /\ running \in BOOLEAN
  BY <1>v DEF Kinds
<1>b. runs \in [Runs -> RunRecords]
  BY <1>2, <1>v
<1>e. /\ attempts \in [Runs -> 0..2]
      /\ recovered \in [Runs -> Nat] /\ retried \in [Runs -> Nat]
  BY <1>f
<1>3. RunsTypeOK
  BY <1>a, <1>b, <1>e, <1>k DEF RunsTypeOK
<1>4. \A r \in Runs : runs[r].step = "none" /\ runs[r].session = 0
  BY <1>v DEF NoRun
<1>c. \A r \in Runs : /\ recovered[r] = 0 /\ retried[r] = 0 /\ attempts[r] = 0
                     /\ outageSince # r
  BY <1>f, <1>n, RunNumbers
<1>d. RecoveredOnce
  BY <1>c DEF RecoveredOnce
<1>g. \A r \in Runs : runs[r].session <= session /\ attempts[r] + retried[r] <= 3
  BY <1>4, <1>c, <1>n
<1>5. OneRunPerSession
  BY <1>4, <1>v DEF OneRunPerSession, Live
<1>6. OutageIsCurrent
  BY <1>n DEF OutageIsCurrent
<1>7. WitnessInv
  BY <1>4, <1>5, <1>6, <1>c, <1>d, <1>g DEF WitnessInv
<1> QED BY <1>1, <1>3, <1>7 DEF Inv

(* A step that leaves sessions, runs and verdicts alone.                      *)
LEMMA CoreUnchanged ==
  ASSUME Inv, UNCHANGED coreVars
  PROVE  Inv'
BY DEF Inv, coreVars, verdictVars, retryVars, RunsTypeOK, WitnessInv, OneRunPerSession,
       OutageIsCurrent, RecoveredOnce, Live, inSession

(* considerLocked begins a run only when none of the session is running.      *)
LEMMA ConsiderKeeps ==
  ASSUME Inv, NEW failed \in BOOLEAN, considerLocked(failed),
         UNCHANGED <<session, verdictVars, retryVars>>
  PROVE  Inv'
<1>1. CASE UNCHANGED <<running, runCount, runs>>
  BY <1>1, CoreUnchanged DEF coreVars
<1>2. CASE /\ runCount < MaxRuns /\ ~running /\ running' = TRUE
           /\ runCount' = runCount + 1
           /\ runs' = [runs EXCEPT ![runCount + 1] = NoRun("due", session)]
  <2> DEFINE new == runCount + 1
  <2>1. new \in Runs /\ runs[new].step = "none"
    BY <1>2 DEF Inv, RunsTypeOK, WitnessInv, Runs
  <2>2. /\ NoRun("due", session) \in RunRecords
        /\ NoRun("due", session).step = "due" /\ NoRun("due", session).session = session
    BY DEF NoRun, RunRecords, RunSteps, Results, Inv, RunsTypeOK
  <2>3. \A r \in Runs : runs'[r] = IF r = new THEN NoRun("due", session) ELSE runs[r]
    BY <1>2 DEF Inv, RunsTypeOK
  <2>4. RunsTypeOK'
    BY <1>2, <2>1, <2>2 DEF Inv, RunsTypeOK, verdictVars, retryVars
  <2>5. OneRunPerSession'
    BY <1>2, <2>1, <2>2, <2>3 DEF Inv, WitnessInv, OneRunPerSession, Live, inSession
  <2>6. OutageIsCurrent'
    <3>1. outageSince # 0 => outageSince \in Runs /\ outageSince # new
      BY <2>1 DEF Inv, RunsTypeOK, Runs
    <3> QED BY <2>3, <3>1 DEF Inv, WitnessInv, OutageIsCurrent, inSession, verdictVars
  <2>7. RecoveredOnce'
    BY DEF Inv, WitnessInv, RecoveredOnce, verdictVars, retryVars
  <2>8. \A r \in Runs : /\ runs'[r].session <= session
                        /\ r > runCount' => runs'[r].step = "none"
    BY <1>2, <2>1, <2>2, <2>3 DEF Inv, RunsTypeOK, WitnessInv, Runs, Sessions
  <2>9. WitnessInv'
    BY <2>1, <2>2, <2>3, <2>5, <2>6, <2>7, <2>8
       DEF Inv, WitnessInv, verdictVars, retryVars, Undecided
  <2> QED BY <2>4, <2>9 DEF Inv
<1> QED BY <1>1, <1>2 DEF considerLocked

(* A delivery ends the outage in force and recovers from it once.             *)
LEMMA DeliveredKeeps ==
  ASSUME Inv, delivered, UNCHANGED <<session, running, runs, runCount, retryVars>>
  PROVE  Inv'
<1>1. RunsTypeOK'
  BY DEF Inv, RunsTypeOK, delivered, retryVars, Runs
<1>2. RecoveredOnce'
  BY DEF Inv, RunsTypeOK, WitnessInv, RecoveredOnce, delivered, retryVars, Runs
<1>3. OneRunPerSession' /\ OutageIsCurrent'
  BY DEF Inv, WitnessInv, OneRunPerSession, OutageIsCurrent, delivered, Live, inSession
<1>4. \A r \in Runs : runs'[r].step \in Undecided => recovered'[r] = 0 /\ outageSince' # r
  BY DEF Inv, RunsTypeOK, WitnessInv, delivered, Runs
<1> QED BY <1>1, <1>2, <1>3, <1>4 DEF Inv, WitnessInv, retryVars

(* A run that goes on, in its session, towards or past its verdict.           *)
LEMMA RunMoves ==
  ASSUME Inv, NEW r \in Runs, NEW rec \in RunRecords,
         Live(r), rec.session = runs[r].session,
         rec.step \notin {"none", "done", "retrying"},
         rec.step \in Undecided => runs[r].step \in Undecided,
         runs' = [runs EXCEPT ![r] = rec],
         UNCHANGED <<session, running, runCount, verdictVars, retryVars>>
  PROVE  Inv'
<1>1. \A q \in Runs : runs'[q] = IF q = r THEN rec ELSE runs[q]
  BY DEF Inv, RunsTypeOK
<1>2. RunsTypeOK'
  BY DEF Inv, RunsTypeOK, verdictVars, retryVars
<1>3. \A q \in Runs : Live(q)' <=> Live(q)
  BY <1>1 DEF Live
<1>4. \A q \in Runs : inSession(q)' <=> inSession(q)
  BY <1>1 DEF inSession
<1>5. OneRunPerSession'
  BY <1>3, <1>4 DEF Inv, WitnessInv, OneRunPerSession
<1>6. OutageIsCurrent'
  <2>1. outageSince # 0 => outageSince \in Runs
    BY DEF Inv, RunsTypeOK, Runs
  <2> QED BY <1>4, <2>1 DEF Inv, WitnessInv, OutageIsCurrent, verdictVars
<1>7. RecoveredOnce'
  BY DEF Inv, WitnessInv, RecoveredOnce, verdictVars, retryVars
<1>8. r <= runCount
  BY DEF Inv, WitnessInv, RunsTypeOK, Runs, Live
<1>9. WitnessInv'
  BY <1>1, <1>5, <1>6, <1>7, <1>8
     DEF Inv, WitnessInv, RunsTypeOK, verdictVars, retryVars, Runs, Undecided
<1> QED BY <1>2, <1>9 DEF Inv

(* A run that ends frees running for its own session only.                    *)
LEMMA RunOverKeeps ==
  ASSUME Inv, NEW r \in Runs, Live(r), runOver(r)
  PROVE  Inv'
<1> DEFINE rec == [NoRun("done", runs[r].session) EXCEPT !.at = runs[r].at]
<1>1. rec \in RunRecords /\ rec.step = "done" /\ rec.session = runs[r].session
  <2>1. runs[r].session \in Sessions \cup {0} /\ runs[r].at \in Nat
    BY DEF Inv, RunsTypeOK, RunRecords
  <2> QED BY <2>1 DEF NoRun, RunRecords, RunSteps, Results
<1>2. \A q \in Runs : runs'[q] = IF q = r THEN rec ELSE runs[q]
  BY DEF Inv, RunsTypeOK, runOver
<1>3. RunsTypeOK'
  BY <1>1 DEF Inv, RunsTypeOK, runOver, verdictVars, retryVars
<1>4. \A q \in Runs : Live(q)' <=> (Live(q) /\ q # r)
  BY <1>1, <1>2 DEF Live
<1>5. \A q \in Runs : inSession(q)' <=> inSession(q)
  BY <1>1, <1>2 DEF inSession, runOver
<1>6. OneRunPerSession'
  BY <1>4, <1>5 DEF Inv, WitnessInv, OneRunPerSession, runOver, inSession
<1>7. OutageIsCurrent'
  <2>1. outageSince # 0 => outageSince \in Runs
    BY DEF Inv, RunsTypeOK, Runs
  <2> QED BY <1>5, <2>1 DEF Inv, WitnessInv, OutageIsCurrent, runOver, verdictVars
<1>8. RecoveredOnce'
  BY DEF Inv, WitnessInv, RecoveredOnce, runOver, verdictVars, retryVars
<1>9. r <= runCount
  BY DEF Inv, WitnessInv, RunsTypeOK, Runs, Live
<1>10. WitnessInv'
  BY <1>1, <1>2, <1>6, <1>7, <1>8, <1>9
     DEF Inv, WitnessInv, RunsTypeOK, runOver, verdictVars, retryVars, Runs, Undecided
<1> QED BY <1>3, <1>10 DEF Inv

(* The verdict of a run of the session: an outage it begins bears its number, *)
(* one it ends is recovered from once.                                        *)
LEMMA VerdictKeeps ==
  ASSUME Inv, NEW r \in Runs,
         NEW kind \in {"carries", "binding", "destination", "unknown", "network"},
         Verdict(r, kind)
  PROVE  Inv'
<1> DEFINE to == IF kind = "network" /\ outageSince = 0 THEN "retrying" ELSE "ending"
<1>1. runs' = [runs EXCEPT ![r].step = to]
  BY DEF Verdict, RunStep, Kinds
<1>2. /\ collected(r) /\ inSession(r) /\ lastKind' = kind
      /\ UNCHANGED <<session, running, runCount, retryVars>>
  BY DEF Verdict
<1>3. /\ runs[r] \in RunRecords /\ runs[r].step = "collecting"
  BY <1>2 DEF Inv, RunsTypeOK, collected
<1>r. r <= runCount /\ r # 0 /\ runCount \in Nat
  <2>1. runCount \in 0..MaxRuns
    BY DEF Inv, RunsTypeOK
  <2>2. ~(r > runCount)
    BY <1>3 DEF Inv, WitnessInv
  <2> QED BY <2>1, <2>2, RunNumbers
<1>o. outageSince = 0 \/ outageSince \in Runs
  BY RunNumbers DEF Inv, RunsTypeOK
<1>u. recovered[r] = 0 /\ outageSince # r
  BY <1>3 DEF Inv, WitnessInv, Undecided
<1>4. \A q \in Runs : runs'[q] = IF q = r THEN [runs[r] EXCEPT !.step = to] ELSE runs[q]
  BY <1>1 DEF Inv, RunsTypeOK
<1>5. /\ [runs[r] EXCEPT !.step = to] \in RunRecords
      /\ [runs[r] EXCEPT !.step = to].session = runs[r].session
      /\ [runs[r] EXCEPT !.step = to].step = to
  BY <1>3 DEF RunRecords, RunSteps
<1>6. /\ outageSince' = IF kind = "network" /\ outageSince = 0 THEN r
                        ELSE IF kind \in {"unknown", "network"} THEN outageSince ELSE 0
      /\ recovered' = IF kind \in {"unknown", "network"} \/ outageSince = 0 THEN recovered
                      ELSE [recovered EXCEPT ![outageSince] = @ + 1]
  BY DEF Verdict, Kinds
<1>7. RunsTypeOK'
  <2>1. runs' \in [Runs -> RunRecords]
    BY <1>1, <1>5 DEF Inv, RunsTypeOK
  <2>2. outageSince' \in 0..runCount'
    <3>1. outageSince \in 0..runCount
      BY DEF Inv, RunsTypeOK
    <3>2. 0 \in 0..runCount /\ r \in 0..runCount
      BY <1>r, RunNumbers
    <3> QED BY <1>2, <1>6, <3>1, <3>2
  <2>3. recovered' \in [Runs -> Nat]
    <3>1. recovered \in [Runs -> Nat]
      BY DEF Inv, RunsTypeOK
    <3> QED BY <1>6, <1>o, <3>1, RunNumbers
  <2>4. lastKind' \in Kinds
    BY <1>2 DEF Kinds
  <2> QED BY <1>2, <2>1, <2>2, <2>3, <2>4 DEF Inv, RunsTypeOK, retryVars
<1>8. \A q \in Runs : (Live(q)' <=> Live(q)) /\ (inSession(q)' <=> inSession(q))
  <2>1. to \notin {"none", "done"}
    OBVIOUS
  <2> HIDE DEF to
  <2> QED BY <1>2, <1>3, <1>4, <1>5, <2>1 DEF Live, inSession
<1>9. OneRunPerSession'
  BY <1>2, <1>8 DEF Inv, WitnessInv, OneRunPerSession
<1>10. OutageIsCurrent'
  BY <1>2, <1>6, <1>8, <1>o DEF Inv, WitnessInv, OutageIsCurrent
<1>w. \A q \in Runs : recovered[q] \in Nat /\ recovered[q] <= 1
                       /\ (recovered[q] = 1 => outageSince # q)
  BY DEF Inv, RunsTypeOK, WitnessInv, RecoveredOnce
<1>x. \A q \in Runs : recovered'[q] =
         IF kind \notin {"unknown", "network"} /\ q = outageSince
         THEN recovered[q] + 1 ELSE recovered[q]
  <2>1. recovered \in [Runs -> Nat]
    BY DEF Inv, RunsTypeOK
  <2>2. 0 \notin Runs
    BY RunNumbers
  <2> QED BY <1>6, <1>o, <2>1, <2>2
<1>y. \A q \in Runs : recovered'[q] <= 1 /\ (recovered'[q] = 1 => outageSince' # q)
  <2>2. 0 \notin Runs
    BY RunNumbers
  <2>3. \A q \in Runs : recovered[q] = 0 \/ recovered[q] = 1
    BY <1>w
  <2> QED BY <1>6, <1>u, <1>w, <1>x, <2>2, <2>3
<1>11. RecoveredOnce'
  BY <1>2, <1>y DEF Inv, WitnessInv, RecoveredOnce, retryVars
<1>t. \A q \in Runs : runs'[q].step \in Undecided => q # r /\ runs[q].step \in Undecided
  <2>1. to \notin Undecided
    BY DEF Undecided
  <2> HIDE DEF to
  <2> QED BY <1>4, <1>5, <2>1
<1>12. \A q \in Runs : runs'[q].step \in Undecided => recovered'[q] = 0 /\ outageSince' # q
  <2>1. SUFFICES ASSUME NEW q \in Runs, runs'[q].step \in Undecided
                 PROVE  recovered'[q] = 0 /\ outageSince' # q
    OBVIOUS
  <2>2. q # r /\ recovered[q] = 0 /\ outageSince # q /\ q # 0
    BY <1>t, <2>1, RunNumbers DEF Inv, WitnessInv
  <2> QED BY <1>6, <1>x, <2>2
<1>z. \A q \in Runs : runs'[q].step \in Undecided \cup {"retrying"}
                         => attempts[q] = 0 /\ retried[q] = 0
  <2>1. attempts[r] = 0 /\ retried[r] = 0
    BY <1>3 DEF Inv, WitnessInv, Undecided
  <2> HIDE DEF to
  <2> QED BY <1>4, <2>1 DEF Inv, WitnessInv
<1>13. \A q \in Runs : /\ runs'[q].session <= session
                       /\ q > runCount => runs'[q].step = "none"
  <2> HIDE DEF to
  <2>1. ~(r > runCount)
    BY <1>r, RunNumbers
  <2> QED BY <1>4, <1>5, <2>1 DEF Inv, WitnessInv
<1>14. WitnessInv'
  BY <1>2, <1>9, <1>10, <1>11, <1>12, <1>z, <1>13 DEF Inv, WitnessInv, retryVars
<1> QED BY <1>7, <1>14 DEF Inv

(* beginRecoveryAttempts makes one attempt and sets two timers.               *)
LEMMA RunRetriesKeeps ==
  ASSUME Inv, NEW r \in Runs, RunRetries(r)
  PROVE  Inv'
<1>1. /\ runs[r].step = "retrying" /\ runs' = [runs EXCEPT ![r].step = "ending"]
      /\ attempts' = [attempts EXCEPT ![r] = 2]
      /\ UNCHANGED <<session, running, runCount, verdictVars>>
  BY DEF RunRetries, RunStep
<1>2. runs[r] \in RunRecords /\ attempts[r] = 0 /\ retried[r] = 0 /\ r <= runCount
  <2>1. runs[r] \in RunRecords /\ runCount \in 0..MaxRuns
    BY DEF Inv, RunsTypeOK
  <2>2. attempts[r] = 0 /\ retried[r] = 0 /\ ~(r > runCount)
    BY <1>1 DEF Inv, WitnessInv
  <2> QED BY <2>1, <2>2, RunNumbers
<1>3. retried' \in [Runs -> Nat] /\ retried'[r] \in {0, 1}
      /\ \A q \in Runs \ {r} : retried'[q] = retried[q]
  BY <1>2 DEF RunRetries, attempted, Inv, RunsTypeOK
<1>4. \A q \in Runs : runs'[q] = IF q = r THEN [runs[r] EXCEPT !.step = "ending"] ELSE runs[q]
  BY <1>1 DEF Inv, RunsTypeOK
<1>5. /\ [runs[r] EXCEPT !.step = "ending"] \in RunRecords
      /\ [runs[r] EXCEPT !.step = "ending"].session = runs[r].session
      /\ [runs[r] EXCEPT !.step = "ending"].step = "ending"
  BY <1>2 DEF RunRecords, RunSteps
<1>6. RunsTypeOK'
  <2>1. runs' \in [Runs -> RunRecords] /\ attempts' \in [Runs -> 0..2]
    BY <1>1, <1>5 DEF Inv, RunsTypeOK
  <2> QED BY <1>1, <1>3, <2>1 DEF Inv, RunsTypeOK, verdictVars
<1>7. \A q \in Runs : (Live(q)' <=> Live(q)) /\ (inSession(q)' <=> inSession(q))
  BY <1>1, <1>4, <1>5 DEF Live, inSession
<1>8. OneRunPerSession'
  BY <1>1, <1>7 DEF Inv, WitnessInv, OneRunPerSession
<1>9. OutageIsCurrent'
  <2>1. outageSince # 0 => outageSince \in Runs
    BY DEF Inv, RunsTypeOK, Runs
  <2> QED BY <1>1, <1>7, <2>1 DEF Inv, WitnessInv, OutageIsCurrent, verdictVars
<1>10. \A q \in Runs : attempts'[q] + retried'[q] <= 3 /\ retried'[q] <= 3
  BY <1>1, <1>3 DEF Inv, RunsTypeOK, WitnessInv, RecoveredOnce
<1>11. RecoveredOnce'
  BY <1>1, <1>10 DEF Inv, WitnessInv, RecoveredOnce, verdictVars
<1>12. \A q \in Runs : runs'[q].step \in Undecided \cup {"retrying"}
                          => attempts'[q] = 0 /\ retried'[q] = 0
  BY <1>1, <1>3, <1>4, <1>5 DEF Inv, RunsTypeOK, WitnessInv, Undecided
<1>13. WitnessInv'
  BY <1>1, <1>2, <1>4, <1>5, <1>8, <1>9, <1>10, <1>11, <1>12
     DEF Inv, RunsTypeOK, WitnessInv, verdictVars, Undecided, Runs
<1> QED BY <1>6, <1>13 DEF Inv

(* A scheduled attempt trades its timer for at most one more attempt.         *)
LEMMA RecoveryAttemptKeeps ==
  ASSUME Inv, NEW r \in Runs, RecoveryAttempt(r)
  PROVE  Inv'
<1>1. /\ attempts[r] > 0 /\ attempts' = [attempts EXCEPT ![r] = @ - 1]
      /\ UNCHANGED <<session, running, runs, runCount, verdictVars>>
  BY DEF RecoveryAttempt
<1>2. retried' = retried \/ retried' = [retried EXCEPT ![r] = @ + 1]
  BY DEF RecoveryAttempt, attempted
<1>3. RunsTypeOK'
  BY <1>1, <1>2 DEF Inv, RunsTypeOK, verdictVars
<1>4. OneRunPerSession' /\ OutageIsCurrent'
  BY <1>1 DEF Inv, WitnessInv, OneRunPerSession, OutageIsCurrent, Live, inSession, verdictVars
<1>5. \A q \in Runs : attempts'[q] + retried'[q] <= 3 /\ retried'[q] <= 3
  BY <1>1, <1>2 DEF Inv, RunsTypeOK, WitnessInv
<1>6. RecoveredOnce'
  BY <1>1, <1>5 DEF Inv, WitnessInv, RecoveredOnce, verdictVars
<1>7. \A q \in Runs : runs'[q].step \in Undecided \cup {"retrying"}
                          => attempts'[q] = 0 /\ retried'[q] = 0
  BY <1>1, <1>2 DEF Inv, RunsTypeOK, WitnessInv
<1> QED BY <1>1, <1>3, <1>4, <1>5, <1>6, <1>7 DEF Inv, WitnessInv, verdictVars

(* The app's report changes only how the verdict is named.                    *)
LEMMA SystemStackKeeps ==
  ASSUME Inv, SystemStackConnected
  PROVE  Inv'
BY DEF Inv, RunsTypeOK, WitnessInv, OneRunPerSession, OutageIsCurrent, RecoveredOnce,
       SystemStackConnected, Live, inSession, retryVars, Kinds

(* A new session has no run and no outage.                                    *)
LEMMA NewSessionKeeps ==
  ASSUME Inv, newSession, lastKind' \in Kinds
  PROVE  Inv'
<1>1. /\ session' = session + 1 /\ session' \in Sessions
      /\ running' = FALSE /\ outageSince' = 0
      /\ UNCHANGED <<recovered, runs, runCount, retryVars>>
  BY DEF newSession, Inv, RunsTypeOK, Sessions
<1>z. outageSince' \in 0..runCount'
  BY <1>1 DEF Inv, RunsTypeOK
<1>2. RunsTypeOK'
  BY <1>1, <1>z DEF Inv, RunsTypeOK, retryVars
<1>3. \A r \in Runs : runs[r].session <= session /\ runs[r].session \in Nat
  BY RunRecordTypes DEF Inv, RunsTypeOK, WitnessInv
<1>4. \A r \in Runs : ~inSession(r)'
  BY <1>1, <1>3 DEF inSession, Inv, RunsTypeOK, Sessions
<1>5. OneRunPerSession' /\ OutageIsCurrent'
  BY <1>1, <1>4 DEF OneRunPerSession, OutageIsCurrent
<1>6. \A r \in Runs : r # 0 /\ runs[r].session <= session + 1
  BY <1>3 DEF Runs, Inv, RunsTypeOK, Sessions
<1>7. RecoveredOnce'
  BY <1>1, <1>6 DEF Inv, WitnessInv, RecoveredOnce, retryVars
<1> QED BY <1>1, <1>2, <1>5, <1>6, <1>7 DEF Inv, WitnessInv, retryVars

(* A run that changes nothing but its step.                                   *)
LEMMA StepMoves ==
  ASSUME Inv, NEW r \in Runs, NEW from \in Undecided \ {"none"},
         NEW to \in (Undecided \cup {"ending"}) \ {"none"},
         RunStep(r, from, to), onlyRuns
  PROVE  Inv'
<1> DEFINE rec == [runs[r] EXCEPT !.step = to]
<1>1. runs[r] \in RunRecords /\ runs[r].step = from
  BY DEF Inv, RunsTypeOK, RunStep
<1>2. rec \in RunRecords /\ rec.session = runs[r].session /\ rec.step = to
  BY <1>1 DEF RunRecords, RunSteps, Undecided
<1>3. Live(r) /\ to \notin {"none", "done", "retrying"}
  BY <1>1 DEF Live, Undecided
<1>4. runs' = [runs EXCEPT ![r] = rec]
  BY DEF RunStep
<1>5. UNCHANGED <<session, running, runCount, verdictVars, retryVars>>
  BY DEF onlyRuns
<1>6. runs[r].step \in Undecided
  BY <1>1
<1> HIDE DEF rec
<1> QED BY <1>2, <1>3, <1>4, <1>5, <1>6, RunMoves

(* The goroutine of a run starts.                                             *)
LEMMA RunStartsKeeps ==
  ASSUME Inv, PathTypeOK, NEW r \in Runs, RunStarts(r)
  PROVE  Inv'
<1> DEFINE rec == [runs[r] EXCEPT !.step = "collecting", !.index = publishedIndex,
                                  !.at = moves]
<1>1. runs[r] \in RunRecords /\ runs[r].step = "ready"
  BY DEF Inv, RunsTypeOK, RunStarts
<1>2. rec \in RunRecords /\ rec.session = runs[r].session /\ rec.step = "collecting"
  BY <1>1 DEF RunRecords, RunSteps, PathTypeOK
<1>3. runs' = [runs EXCEPT ![r] = rec]
  BY DEF RunStarts
<1>4. UNCHANGED <<session, running, runCount, verdictVars, retryVars>>
  BY DEF RunStarts, onlyRuns
<1>5. Live(r) /\ runs[r].step \in Undecided
  BY <1>1 DEF Live, Undecided
<1> HIDE DEF rec
<1> QED BY <1>2, <1>3, <1>4, <1>5, RunMoves

(* A result of the unbound dial.                                              *)
LEMMA UnboundKeeps ==
  ASSUME Inv, NEW r \in Runs, NEW result \in {"ok", "fail"}, UnboundResult(r, result)
  PROVE  Inv'
<1> DEFINE to == IF result = "ok" /\ runs[r].bound # "ok" /\ inSession(r)
                 THEN "suspending" ELSE "collecting"
           rec == [runs[r] EXCEPT !.unbound = result, !.step = to]
<1>1. runs[r] \in RunRecords /\ runs[r].step = "collecting"
  BY DEF Inv, RunsTypeOK, UnboundResult
<1>2. rec \in RunRecords /\ rec.session = runs[r].session /\ rec.step = to
  BY <1>1 DEF RunRecords, RunSteps, Results
<1>3. runs' = [runs EXCEPT ![r] = rec]
  BY <1>1 DEF UnboundResult, Inv, RunsTypeOK
<1>4. UNCHANGED <<session, running, runCount, verdictVars, retryVars>>
  BY DEF UnboundResult, onlyRuns
<1>5. Live(r) /\ runs[r].step \in Undecided
  BY <1>1 DEF Live, Undecided
<1>6. to \notin {"none", "done", "retrying"}
  OBVIOUS
<1> HIDE DEF to, rec
<1> QED BY <1>2, <1>3, <1>4, <1>5, <1>6, RunMoves

(* A result of the bound dial.                                                *)
LEMMA BoundKeeps ==
  ASSUME Inv, NEW r \in Runs, NEW result \in {"ok", "fail"}, BoundResult(r, result)
  PROVE  Inv'
<1> DEFINE to == IF result = "ok" /\ inSession(r) THEN "clearing" ELSE "collecting"
           rec == [runs[r] EXCEPT !.bound = result, !.step = to]
<1>1. runs[r] \in RunRecords /\ runs[r].step = "collecting"
  BY DEF Inv, RunsTypeOK, BoundResult
<1>2. rec \in RunRecords /\ rec.session = runs[r].session /\ rec.step = to
  BY <1>1 DEF RunRecords, RunSteps, Results
<1>3. runs' = [runs EXCEPT ![r] = rec]
  BY <1>1 DEF BoundResult, Inv, RunsTypeOK
<1>4. UNCHANGED <<session, running, runCount, verdictVars, retryVars>>
  BY DEF BoundResult, onlyRuns
<1>5. Live(r) /\ runs[r].step \in Undecided
  BY <1>1 DEF Live, Undecided
<1>6. to \notin {"none", "done", "retrying"}
  OBVIOUS
<1> HIDE DEF to, rec
<1> QED BY <1>2, <1>3, <1>4, <1>5, <1>6, RunMoves

(* Every event observe is told of.                                            *)
LEMMA ObserveKeeps ==
  ASSUME Inv, Observe
  PROVE  Inv'
<1>1. ASSUME NEW d \in Dials, DialStarted(d) PROVE Inv'
  BY <1>1, ConsiderKeeps DEF DialStarted
<1>2. ASSUME NEW d \in Dials, DialSucceeded(d) PROVE Inv'
  BY <1>2, DeliveredKeeps DEF DialSucceeded
<1>3. ASSUME NEW d \in Dials, NEW timeout \in BOOLEAN, DialFailed(d, timeout) PROVE Inv'
  <2>1. UNCHANGED <<session, verdictVars, retryVars>>
    BY <1>3 DEF DialFailed
  <2>2. considerLocked(TRUE) \/ UNCHANGED <<running, runCount, runs>>
    BY <1>3 DEF DialFailed
  <2>3. CASE considerLocked(TRUE)
    BY <2>1, <2>3, ConsiderKeeps
  <2>4. CASE UNCHANGED <<running, runCount, runs>>
    BY <2>1, <2>4, CoreUnchanged DEF coreVars
  <2> QED BY <2>2, <2>3, <2>4
<1>4. ASSUME ProbeSucceeded PROVE Inv'
  BY <1>4, DeliveredKeeps DEF ProbeSucceeded
<1> QED BY <1>1, <1>2, <1>3, <1>4 DEF Observe

(* Every step of a run.                                                       *)
LEMMA RunKeeps ==
  ASSUME Inv, PathTypeOK, NEW r \in Runs, Run(r)
  PROVE  Inv'
<1>1. CASE RunGate(r)
  BY <1>1, StepMoves DEF RunGate, Undecided
<1>2. CASE RunRefused(r)
  BY <1>2, RunOverKeeps DEF RunRefused, Live
<1>3. CASE RunStarts(r)
  BY <1>3, RunStartsKeeps
<1>4. ASSUME NEW result \in {"ok", "fail"}, UnboundResult(r, result) PROVE Inv'
  BY <1>4, UnboundKeeps
<1>5. ASSUME NEW result \in {"ok", "fail"}, BoundResult(r, result) PROVE Inv'
  BY <1>5, BoundKeeps
<1>6. CASE RunSuspends(r)
  BY <1>6, StepMoves DEF RunSuspends, Undecided
<1>7. CASE RunClears(r)
  BY <1>7, StepMoves DEF RunClears, Undecided
<1>8. CASE StaleVerdict(r)
  BY <1>8, StepMoves DEF StaleVerdict, Undecided
<1>9. ASSUME NEW resolver \in {"none", "ok", "fail"}, Verdict(r, verdict(r, resolver))
      PROVE  Inv'
  <2>1. verdict(r, resolver) \in {"carries", "binding", "destination", "unknown", "network"}
    BY DEF verdict
  <2> QED BY <1>9, <2>1, VerdictKeeps
<1>10. CASE RunRetries(r)
  BY <1>10, RunRetriesKeeps
<1>11. CASE RunEnds(r)
  BY <1>11, RunOverKeeps DEF RunEnds, Live
<1> QED BY <1>1, <1>2, <1>3, <1>4, <1>5, <1>6, <1>7, <1>8, <1>9, <1>10, <1>11 DEF Run

(* The witness leaves the path alone, or suspends the binding of the index a  *)
(* run read.                                                                  *)
LEMMA PathTypesKept ==
  ASSUME Inv, PathTypeOK, WitnessNext \/ Environment
  PROVE  PathTypeOK'
<1>1. ASSUME NEW r \in Runs, RunSuspends(r) PROVE PathTypeOK'
  <2>1. runs[r].index \in Paths \cup {NoPath} /\ runs[r].at \in Nat
    BY RunRecordTypes DEF Inv, RunsTypeOK
  <2> QED BY <1>1, <2>1 DEF RunSuspends, suspendBinding, PathTypeOK
<1>2. ASSUME NEW r \in Runs, RunClears(r) PROVE PathTypeOK'
  BY <1>2 DEF RunClears, clearBindingSuspension, PathTypeOK
<1>3. ASSUME UNCHANGED pathVars PROVE PathTypeOK'
  BY <1>3 DEF pathVars, PathTypeOK
<1>4. ASSUME NEW index \in Paths \cup {NoPath}, PathMoves(index) PROVE PathTypeOK'
  BY <1>4 DEF PathMoves, publishPath, clearBindingSuspension, PathTypeOK
<1>5. ASSUME ServiceCloses PROVE PathTypeOK'
  BY <1>5 DEF ServiceCloses, PathTypeOK
<1>6. ASSUME NEW r \in Runs, Run(r), ~RunSuspends(r), ~RunClears(r) PROVE UNCHANGED pathVars
  BY <1>6 DEF Run, RunGate, RunRefused, RunStarts, UnboundResult, BoundResult,
              StaleVerdict, Verdict, RunRetries, RunEnds, pathUntouched
<1>7. ASSUME Observe \/ Timers \/ SystemStackConnected PROVE UNCHANGED pathVars
  BY <1>7 DEF Observe, Timers, SystemStackConnected, DialStarted, DialSucceeded, DialFailed,
              ProbeSucceeded, StallWindowClosed, RecoveryAttempt, pathUntouched
<1>8. ASSUME NEW s \in Sessions, PathCheckSteps(s) PROVE UNCHANGED pathVars
  BY <1>8 DEF PathCheckSteps, SchedulePathCheck, PathCheck, pathUntouched
<1>9. ASSUME NEW index \in Paths \cup {NoPath}, PathSettles(index) PROVE UNCHANGED pathVars
  BY <1>9 DEF PathSettles
<1> QED BY <1>1, <1>2, <1>3, <1>4, <1>5, <1>6, <1>7, <1>8, <1>9 DEF WitnessNext, Environment

(* Every step of the witness and of the path above it keeps the invariant.    *)
LEMMA NextKeeps ==
  ASSUME Inv, PathTypeOK, [WitnessNext \/ Environment]_allVars
  PROVE  Inv' /\ PathTypeOK'
<1>1. ASSUME Observe PROVE Inv'
  BY <1>1, ObserveKeeps
<1>2. ASSUME NEW r \in Runs, Run(r) PROVE Inv'
  BY <1>2, RunKeeps
<1>3. ASSUME NEW s \in Sessions, StallWindowClosed(s) PROVE Inv'
  <2>1. UNCHANGED <<session, verdictVars, retryVars>>
    BY <1>3 DEF StallWindowClosed
  <2>2. considerLocked(FALSE) \/ UNCHANGED <<running, runCount, runs>>
    BY <1>3 DEF StallWindowClosed
  <2>3. CASE considerLocked(FALSE)
    BY <2>1, <2>3, ConsiderKeeps
  <2>4. CASE UNCHANGED <<running, runCount, runs>>
    BY <2>1, <2>4, CoreUnchanged DEF coreVars
  <2> QED BY <2>2, <2>3, <2>4
<1>4. ASSUME NEW r \in Runs, RecoveryAttempt(r) PROVE Inv'
  BY <1>4, RecoveryAttemptKeeps
<1>5. ASSUME NEW s \in Sessions, PathCheckSteps(s) PROVE Inv'
  BY <1>5, CoreUnchanged DEF PathCheckSteps, SchedulePathCheck, PathCheck, coreVars
<1>6. ASSUME SystemStackConnected PROVE Inv'
  BY <1>6, SystemStackKeeps
<1>7. ASSUME NEW index \in Paths \cup {NoPath}, PathMoves(index) PROVE Inv'
  BY <1>7, CoreUnchanged DEF PathMoves, witnessVars, coreVars
<1>8. ASSUME NEW index \in Paths \cup {NoPath}, PathSettles(index) PROVE Inv'
  <2>1. newSession /\ lastKind' \in Kinds
    BY <1>8 DEF PathSettles, pathChanged, Inv, RunsTypeOK
  <2> QED BY <2>1, NewSessionKeeps
<1>9. ASSUME ServiceCloses PROVE Inv'
  <2>1. newSession /\ lastKind' \in Kinds
    BY <1>9 DEF ServiceCloses, reset, Kinds
  <2> QED BY <2>1, NewSessionKeeps
<1>10. CASE UNCHANGED allVars
  BY <1>10, CoreUnchanged DEF allVars, witnessVars, coreVars, pathVars, PathTypeOK
<1>11. ASSUME WitnessNext \/ Environment PROVE Inv'
  BY <1>1, <1>2, <1>3, <1>4, <1>5, <1>6, <1>7, <1>8, <1>9, <1>11
     DEF WitnessNext, Environment, Timers
<1> QED BY <1>10, <1>11, PathTypesKept

(* The inductive invariant of the witness holds in every behaviour, under any *)
(* interleaving of dials, runs, timers, path updates and closes.              *)
THEOREM WitnessInvariant == WitnessSpec => [](PathTypeOK /\ RunsTypeOK /\ WitnessInv)
<1>1. AloneInit => PathTypeOK /\ Inv
  BY InitEstablishes DEF AloneInit
<1>2. (PathTypeOK /\ Inv) /\ [WitnessNext \/ Environment]_allVars => (PathTypeOK /\ Inv)'
  BY NextKeeps
<1>3. PathTypeOK /\ Inv => PathTypeOK /\ RunsTypeOK /\ WitnessInv
  BY DEF Inv
<1> QED BY <1>1, <1>2, <1>3, PTL DEF WitnessSpec

(* At most one run of the session lives, and running says whether one does.   *)
THEOREM OneRunPerSessionHolds == WitnessSpec => []OneRunPerSession
<1>1. PathTypeOK /\ RunsTypeOK /\ WitnessInv => OneRunPerSession
  BY DEF WitnessInv
<1> QED BY <1>1, WitnessInvariant, PTL

(* The outage in force is of the current session.                             *)
THEOREM OutageIsCurrentHolds == WitnessSpec => []OutageIsCurrent
<1>1. PathTypeOK /\ RunsTypeOK /\ WitnessInv => OutageIsCurrent
  BY DEF WitnessInv
<1> QED BY <1>1, WitnessInvariant, PTL

(* No outage is recovered from twice, nor retried more than three times.      *)
THEOREM RecoveredOnceHolds == WitnessSpec => []RecoveredOnce
<1>1. PathTypeOK /\ RunsTypeOK /\ WitnessInv => RecoveredOnce
  BY DEF WitnessInv
<1> QED BY <1>1, WitnessInvariant, PTL
================================================================================

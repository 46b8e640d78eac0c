------------------------ MODULE MmdbPublisherProofs ------------------------
(***************************************************************************)
(* For any number of lookups, readers and publications: no lookup uses a   *)
(* closed reader, and no reader is left open without an owner.             *)
(***************************************************************************)
EXTENDS MmdbPublisher, FiniteSetTheorems, TLAPS

(* The set a reference count counts is finite, as Lookups is. *)
LEMMA HoldersFinite ==
    ASSUME NEW h, NEW s
    PROVE  IsFiniteSet(Holders(h, s)) /\ Cardinality(Holders(h, s)) \in Nat
BY LookupsFinite, FS_Subset, FS_CardinalityType DEF Holders

(* A lookup that moves to another snapshot adds one holder to it. *)
LEMMA HoldersAdd ==
    ASSUME NEW h \in [Lookups -> Snapshots \cup {NoSnapshot}],
           NEW t \in Lookups, NEW to, h[t] # to
    PROVE  Cardinality(Holders([h EXCEPT ![t] = to], to)) = Cardinality(Holders(h, to)) + 1
<1>1. /\ Holders([h EXCEPT ![t] = to], to) = Holders(h, to) \cup {t}
      /\ t \notin Holders(h, to)
  BY DEF Holders
<1> QED
  BY <1>1, HoldersFinite, FS_AddElement

(* It takes one holder from the snapshot it leaves. *)
LEMMA HoldersDrop ==
    ASSUME NEW h \in [Lookups -> Snapshots \cup {NoSnapshot}],
           NEW t \in Lookups, NEW to, h[t] # to
    PROVE  Cardinality(Holders([h EXCEPT ![t] = to], h[t])) = Cardinality(Holders(h, h[t])) - 1
<1>1. /\ Holders([h EXCEPT ![t] = to], h[t]) = Holders(h, h[t]) \ {t}
      /\ t \in Holders(h, h[t])
  BY DEF Holders
<1> QED
  BY <1>1, HoldersFinite, FS_RemoveElement

(* A snapshot with a holder has a positive count. *)
LEMMA HoldersPositive ==
    ASSUME NEW h, NEW t \in Lookups
    PROVE  Cardinality(Holders(h, h[t])) # 0
<1>1. Holders(h, h[t]) # {}
  BY DEF Holders
<1> QED
  BY <1>1, HoldersFinite, FS_EmptySet

(* A positive count has a holder. *)
LEMMA HoldersWitness ==
    ASSUME NEW h, NEW s, Cardinality(Holders(h, s)) # 0
    PROVE  \E t \in Lookups : h[t] = s
<1>1. Holders(h, s) # {}
  BY HoldersFinite, FS_EmptySet
<1> QED
  BY <1>1 DEF Holders

IInv == TypeOK /\ ReaderInv

LEMMA InitInv == Init => IInv
<1> SUFFICES ASSUME Init PROVE IInv
  OBVIOUS
<1>0. 0 \in Versions /\ {Absent, Corrupt, 0} \subseteq Contents
  BY MaxVersionIsNat DEF Contents, Versions, Absent, Corrupt
<1>1. TypeOK
  <2>1. pub \in [step : PublishSteps, good : BOOLEAN, synced : BOOLEAN]
    BY DEF Init, NoPublish, PublishSteps
  <2>2. disk \in Contents /\ durable \subseteq Contents
    BY <1>0 DEF Init
  <2>3. held \in [Lookups -> opened \cup {NoSnapshot}]
    BY DEF Init
  <2>4. version \in [Snapshots -> Versions] /\ offered \in 0..MaxVersion
    BY <1>0, MaxVersionIsNat DEF Init
  <2> QED
    BY <2>1, <2>2, <2>3, <2>4 DEF Init, TypeOK
<1>2. ASSUME NEW s \in Snapshots
      PROVE  refs[s] = Cardinality(Holders(held, s))
  <2>1. Holders(held, s) = {}
    BY NoSnapshotIsNone DEF Init, Holders
  <2> QED
    BY <2>1, FS_EmptySet DEF Init
<1> QED
  BY <1>1, <1>2 DEF Init, IInv, ReaderInv, NoPublish

(* acquire: the count of the current snapshot goes up with its holders. *)
LEMMA AcquireInv ==
    ASSUME IInv, NEW t \in Lookups, Acquire(t)
    PROVE  IInv'
<1> USE DEF IInv
<1>1. CASE current = NoSnapshot
  BY <1>1 DEF Acquire, TypeOK, ReaderInv, fileVars
<1>2. CASE current # NoSnapshot
  <2>1. current \in opened /\ current \in Snapshots /\ held[t] = NoSnapshot
    BY <1>2 DEF Acquire, TypeOK, ReaderInv
  <2>2. TypeOK'
    BY <1>2, <2>1 DEF Acquire, TypeOK, fileVars
  <2>3. ASSUME NEW s \in Snapshots
        PROVE  refs'[s] = Cardinality(Holders(held', s))
    <3>1. held' = [held EXCEPT ![t] = current]
      BY <1>2 DEF Acquire
    <3>2. held \in [Lookups -> Snapshots \cup {NoSnapshot}] /\ held[t] # current
      BY <2>1, NoSnapshotIsNone DEF TypeOK
    <3>3. Cardinality(Holders(held', current)) = Cardinality(Holders(held, current)) + 1
      BY <3>1, <3>2, HoldersAdd
    <3>4. s # current => Holders(held', s) = Holders(held, s)
      BY <2>1, <3>1, <3>2, NoSnapshotIsNone DEF Holders
    <3> QED
      BY <1>2, <2>1, <3>3, <3>4 DEF Acquire, TypeOK, ReaderInv
  <2>4. refs' = [refs EXCEPT ![current] = @ + 1] /\ refs \in [Snapshots -> Nat]
    BY <1>2 DEF Acquire, TypeOK
  <2>5. \A s \in closed : refs'[s] = 0
    BY <2>1, <2>4 DEF ReaderInv, TypeOK
  <2>6. \A s \in opened \ closed :
           s \in {current, candidate} \/ (s \in retired /\ refs'[s] # 0)
    BY <2>1, <2>4 DEF ReaderInv, TypeOK
  <2>7. \A x \in Lookups : /\ stage'[x] = "reading" <=> held'[x] # NoSnapshot
                           /\ held'[x] # NoSnapshot => held'[x] # candidate
    BY <1>2, <2>1 DEF Acquire, TypeOK, ReaderInv
  <2> QED
    BY <1>2, <2>2, <2>3, <2>5, <2>6, <2>7 DEF Acquire, ReaderInv
<1> QED
  BY <1>1, <1>2

(* release: the last holder of a retired snapshot closes it. *)
LEMMA ReleaseInv ==
    ASSUME IInv, NEW t \in Lookups, Release(t)
    PROVE  IInv'
<1> USE DEF IInv
<1> DEFINE c == held[t]
<1>1. c \in opened /\ c \in Snapshots /\ c # NoSnapshot /\ c # candidate
  BY NoSnapshotIsNone DEF Release, TypeOK, ReaderInv
<1>2. refs[c] = Cardinality(Holders(held, c)) /\ refs[c] \in Nat \ {0}
  BY <1>1, HoldersPositive DEF TypeOK, ReaderInv
<1>3. refs' = [refs EXCEPT ![c] = @ - 1] /\ refs \in [Snapshots -> Nat]
  BY DEF Release, TypeOK
<1>4. TypeOK'
  BY <1>1, <1>2, <1>3 DEF Release, TypeOK, fileVars
<1>5. ASSUME NEW s \in Snapshots
      PROVE  refs'[s] = Cardinality(Holders(held', s))
  <2>1. held' = [held EXCEPT ![t] = NoSnapshot]
    BY DEF Release
  <2>2. held \in [Lookups -> Snapshots \cup {NoSnapshot}]
    BY DEF TypeOK
  <2>3. Cardinality(Holders(held', c)) = Cardinality(Holders(held, c)) - 1
    BY <1>1, <2>1, <2>2, HoldersDrop
  <2>4. s # c => Holders(held', s) = Holders(held, s)
    BY <1>1, <2>1, <2>2, NoSnapshotIsNone DEF Holders
  <2> QED
    BY <1>1, <1>2, <1>3, <2>3, <2>4 DEF ReaderInv
<1>6. c \notin closed
  BY <1>2 DEF ReaderInv
<1>7. current \notin closed' /\ candidate \notin closed'
  BY <1>1 DEF Release, ReaderInv
<1>8. \A s \in closed' : refs'[s] = 0
  BY <1>1, <1>2, <1>3, <1>6 DEF Release, ReaderInv, TypeOK
<1>9. \A s \in opened \ closed' :
         s \in {current, candidate} \/ (s \in retired /\ refs'[s] # 0)
  BY <1>1, <1>2, <1>3, <1>6 DEF Release, ReaderInv, TypeOK
<1>10. \A x \in Lookups : /\ stage'[x] = "reading" <=> held'[x] # NoSnapshot
                          /\ held'[x] # NoSnapshot => held'[x] # candidate
  BY DEF Release, TypeOK, ReaderInv
<1> QED
  BY <1>4, <1>5, <1>7, <1>8, <1>9, <1>10 DEF Release, ReaderInv

(* publish over a reader nobody else knows: the old one is retired, and    *)
(* closed at once unless some lookup still counts on it.                   *)
LEMMA PublishReaderInv ==
    ASSUME IInv, NEW s \in Snapshots, s \notin closed \cup retired,
           refs[s] = 0, s # current, PublishReader(s), UNCHANGED refs,
           candidate \in {NoSnapshot, s}
    PROVE  /\ retired' \subseteq opened
           /\ closed' \subseteq opened
           /\ s \notin retired' \cup closed'
           /\ \A x \in closed' : refs'[x] = 0
           /\ \A x \in opened \ closed' : x = s \/ (x \in retired' /\ refs'[x] # 0)
<1> USE DEF IInv
<1>1. CASE current = NoSnapshot
  BY <1>1, NoSnapshotIsNone DEF PublishReader, ReaderInv, TypeOK
<1>2. CASE current # NoSnapshot
  BY <1>2, NoSnapshotIsNone DEF PublishReader, ReaderInv, TypeOK
<1> QED
  BY <1>1, <1>2

LEMMA OpenAndPublishInv ==
    ASSUME IInv, NEW v \in Versions, OpenAndPublish(v), UNCHANGED <<held, candidate>>,
           candidate = NoSnapshot
    PROVE  /\ opened' \subseteq Snapshots
           /\ closed' \subseteq opened'
           /\ retired' \subseteq opened'
           /\ version' \in [Snapshots -> Versions]
           /\ current' \in opened'
           /\ opened \subseteq opened'
           /\ current' \notin retired' \cup closed'
           /\ candidate \notin retired' \cup closed'
           /\ current' # candidate
           /\ refs' = refs
           /\ \A x \in closed' : refs'[x] = 0
           /\ \A x \in opened' \ closed' :
                 x = current' \/ (x \in retired' /\ refs'[x] # 0)
<1> USE DEF IInv
<1>1. PICK s \in Snapshots \ opened :
         /\ opened' = opened \cup {s}
         /\ version' = [version EXCEPT ![s] = v]
         /\ PublishReader(s)
         /\ UNCHANGED refs
  BY DEF OpenAndPublish
<1>2. refs[s] = 0
  BY <1>1, NoSnapshotIsNone, HoldersWitness DEF TypeOK, ReaderInv
<1>3. /\ s \notin closed \cup retired /\ s # current /\ s # NoSnapshot
  BY <1>1, NoSnapshotIsNone DEF TypeOK
<1>4. /\ retired' \subseteq opened
      /\ closed' \subseteq opened
      /\ s \notin retired' \cup closed'
      /\ \A x \in closed' : refs'[x] = 0
      /\ \A x \in opened \ closed' : x = s \/ (x \in retired' /\ refs'[x] # 0)
  BY <1>1, <1>2, <1>3, PublishReaderInv
<1>5. current' = s
  BY <1>1 DEF PublishReader
<1> QED
  BY <1>1, <1>3, <1>4, <1>5, NoSnapshotIsNone DEF TypeOK

(* The lazy seed, Adopt and Reopen all publish a freshly opened reader. *)
LEMMA FreshReaderInv ==
    ASSUME IInv, NEW v \in Versions, OpenAndPublish(v), PublisherFree,
           UNCHANGED <<held, candidate, pub, offered, fileVars>>,
           stage' \in [Lookups -> {"idle", "seeded", "reading"}],
           \A t \in Lookups : stage'[t] = "reading" <=> stage[t] = "reading",
           published' \in BOOLEAN, diskAttempted' \in BOOLEAN
    PROVE  IInv'
<1> USE DEF IInv
<1>1. candidate = NoSnapshot
  BY DEF ReaderInv, PublisherFree
<1>2. UNCHANGED <<held, candidate>>
  OBVIOUS
<1>3. /\ opened' \subseteq Snapshots
      /\ closed' \subseteq opened'
      /\ retired' \subseteq opened'
      /\ version' \in [Snapshots -> Versions]
      /\ current' \in opened'
      /\ opened \subseteq opened'
      /\ current' \notin retired' \cup closed'
      /\ candidate \notin retired' \cup closed'
      /\ current' # candidate
      /\ refs' = refs
      /\ \A x \in closed' : refs'[x] = 0
      /\ \A x \in opened' \ closed' :
            x = current' \/ (x \in retired' /\ refs'[x] # 0)
  BY <1>1, <1>2, OpenAndPublishInv
<1>4. TypeOK'
  BY <1>1, <1>3 DEF TypeOK, fileVars
<1>5. ReaderInv'
  BY <1>1, <1>3 DEF ReaderInv, TypeOK
<1> QED
  BY <1>4, <1>5

LEMMA EnsureSeededInv ==
    ASSUME IInv, NEW t \in Lookups, EnsureSeeded(t)
    PROVE  IInv'
<1> USE DEF IInv
<1>1. /\ stage' \in [Lookups -> {"idle", "seeded", "reading"}]
      /\ \A x \in Lookups : stage'[x] = "reading" <=> stage[x] = "reading"
  BY DEF EnsureSeeded, TypeOK
<1>2. CASE published \/ diskAttempted \/ disk \notin Versions
  BY <1>1, <1>2 DEF EnsureSeeded, TypeOK, ReaderInv, holderVars, fileVars
<1>3. CASE ~(published \/ diskAttempted \/ disk \notin Versions)
  BY <1>1, <1>3, FreshReaderInv DEF EnsureSeeded, TypeOK
<1> QED
  BY <1>2, <1>3

(* A failed Publish closes the reader it had opened, and nothing else. *)
LEMMA PublishFailsInv ==
    ASSUME IInv, PublishFails
    PROVE  IInv'
<1> USE DEF IInv
<1>1. TypeOK'
  BY NoSnapshotIsNone DEF PublishFails, TypeOK, NoPublish, PublishSteps, lookupVars, fileVars
<1>2. candidate # NoSnapshot => refs[candidate] = 0
  BY NoSnapshotIsNone, HoldersWitness DEF ReaderInv, TypeOK
<1>3. ReaderInv'
  BY <1>2, NoSnapshotIsNone DEF PublishFails, ReaderInv, TypeOK, NoPublish, lookupVars
<1> QED
  BY <1>1, <1>3

LEMMA PublishVerifyInv ==
    ASSUME IInv, PublishVerify
    PROVE  IInv'
<1> USE DEF IInv
<1>1. CASE PublishFails
  BY <1>1, PublishFailsInv
<1>2. CASE ~PublishFails
  <2>1. PICK s \in Snapshots \ opened :
           /\ opened' = opened \cup {s}
           /\ version' = [version EXCEPT ![s] = offered]
           /\ candidate' = s
    BY <1>2 DEF PublishVerify
  <2>2. refs[s] = 0
    BY <2>1, NoSnapshotIsNone, HoldersWitness DEF TypeOK, ReaderInv
  <2>3. candidate = NoSnapshot
    BY DEF PublishVerify, ReaderInv
  <2>4. TypeOK'
    BY <1>2, <2>1 DEF PublishVerify, TypeOK, PublishSteps, Versions, lookupVars, fileVars
  <2>5. ReaderInv'
    BY <1>2, <2>1, <2>2, <2>3, NoSnapshotIsNone
       DEF PublishVerify, ReaderInv, TypeOK, PublishSteps, lookupVars
  <2> QED
    BY <2>4, <2>5
<1> QED
  BY <1>1, <1>2

LEMMA PublishServeInv ==
    ASSUME IInv, PublishServe
    PROVE  IInv'
<1> USE DEF IInv
<1>1. candidate # NoSnapshot /\ candidate \in opened /\ candidate \in Snapshots
  BY DEF PublishServe, ReaderInv, TypeOK
<1>2. refs[candidate] = 0
  BY <1>1, HoldersWitness DEF ReaderInv, TypeOK
<1>3. /\ candidate \notin closed \cup retired
      /\ candidate # current
      /\ PublishReader(candidate)
      /\ UNCHANGED refs
  BY <1>1 DEF PublishServe, ReaderInv
<1>4. /\ retired' \subseteq opened
      /\ closed' \subseteq opened
      /\ candidate \notin retired' \cup closed'
      /\ \A x \in closed' : refs'[x] = 0
      /\ \A x \in opened \ closed' : x = candidate \/ (x \in retired' /\ refs'[x] # 0)
  BY <1>1, <1>2, <1>3, PublishReaderInv
<1>5. current' = candidate /\ candidate' = NoSnapshot /\ pub' = NoPublish
  BY DEF PublishServe, PublishReader
<1>6. NoSnapshot \notin retired' \cup closed'
  BY <1>4, NoSnapshotIsNone DEF TypeOK
<1>7. durable' \subseteq Contents
  BY DEF PublishServe, TypeOK, Contents
<1>8. TypeOK'
  BY <1>1, <1>4, <1>5, <1>7 DEF PublishServe, TypeOK, NoPublish, PublishSteps, lookupVars
<1>9. ReaderInv'
  BY <1>1, <1>4, <1>5, <1>6 DEF PublishServe, ReaderInv, NoPublish, lookupVars
<1> QED
  BY <1>8, <1>9

LEMMA CrashInv ==
    ASSUME IInv, Crash
    PROVE  IInv'
<1> USE DEF IInv
<1>0. 0 \in Versions
  BY MaxVersionIsNat DEF Versions
<1>1. pub' \in [step : PublishSteps, good : BOOLEAN, synced : BOOLEAN]
  BY DEF Crash, NoPublish, PublishSteps
<1>2. /\ version' \in [Snapshots -> Versions]
      /\ held' \in [Lookups -> opened' \cup {NoSnapshot}]
  BY <1>0 DEF Crash
<1>3. disk' \in Contents /\ durable' \subseteq Contents
  BY DEF Crash, TypeOK
<1>4. TypeOK'
  BY <1>1, <1>2, <1>3 DEF Crash, TypeOK
<1>5. ASSUME NEW s \in Snapshots
      PROVE  refs'[s] = Cardinality(Holders(held', s))
  <2>1. Holders(held', s) = {}
    BY NoSnapshotIsNone DEF Crash, Holders
  <2> QED
    BY <2>1, FS_EmptySet DEF Crash
<1> QED
  BY <1>4, <1>5 DEF Crash, ReaderInv, NoPublish

LEMMA NextInv ==
    ASSUME IInv, [Next]_vars
    PROVE  IInv'
<1> USE DEF IInv
<1>1. ASSUME NEW t \in Lookups, EnsureSeeded(t) \/ Acquire(t) \/ Release(t)
      PROVE  IInv'
  BY <1>1, EnsureSeededInv, AcquireInv, ReleaseInv
<1>2. CASE Adopt
  <2>1. 0 \in Versions
    BY MaxVersionIsNat DEF Versions
  <2> QED
    BY <1>2, <2>1, FreshReaderInv DEF Adopt, TypeOK, lookupVars
<1>3. CASE Reopen
  BY <1>3, FreshReaderInv DEF Reopen, TypeOK, lookupVars
<1>4. CASE PublishStage
  BY <1>4, MaxVersionIsNat
     DEF PublishStage, PublisherFree, TypeOK, ReaderInv, PublishSteps,
         holderVars, lookupVars, fileVars
<1>5. CASE PublishWrite
  BY <1>5, PublishFailsInv
     DEF PublishWrite, TypeOK, ReaderInv, PublishSteps, holderVars, lookupVars, fileVars
<1>6. CASE PublishSync
  BY <1>6, PublishFailsInv
     DEF PublishSync, TypeOK, ReaderInv, PublishSteps, holderVars, lookupVars, fileVars
<1>7. CASE PublishVerify
  BY <1>7, PublishVerifyInv
<1>8. CASE PublishRename
  BY <1>8, PublishFailsInv
     DEF PublishRename, TypeOK, ReaderInv, PublishSteps, holderVars, lookupVars,
         Contents, Versions
<1>9. CASE PublishServe
  BY <1>9, PublishServeInv
<1>10. CASE Crash
  BY <1>10, CrashInv
<1>11. CASE UNCHANGED vars
  BY <1>11 DEF vars, TypeOK, ReaderInv, holderVars, lookupVars, fileVars
<1> QED
  BY <1>1, <1>2, <1>3, <1>4, <1>5, <1>6, <1>7, <1>8, <1>9, <1>10, <1>11 DEF Next

(* The holder and the publisher keep their types and their reader counts   *)
(* exact, whatever is acquired, released, published, failed or crashed.    *)
THEOREM ReadersAccounted == Spec => [](TypeOK /\ ReaderInv)
<1>1. Init => IInv
  BY InitInv
<1>2. IInv /\ [Next]_vars => IInv'
  BY NextInv
<1> QED
  BY <1>1, <1>2, PTL DEF Spec, IInv

(* readerHolder never closes a reader some lookup still holds. *)
THEOREM NoUseAfterCloseHolds == Spec => []NoUseAfterClose
<1>1. IInv => NoUseAfterClose
  BY NoSnapshotIsNone, HoldersPositive DEF IInv, TypeOK, ReaderInv, NoUseAfterClose
<1> QED
  BY <1>1, ReadersAccounted, PTL DEF IInv

(* Every reader that is no longer current and no longer held is closed. *)
THEOREM NoReaderLeakHolds == Spec => []NoReaderLeak
<1>1. IInv => NoReaderLeak
  BY HoldersWitness DEF IInv, TypeOK, ReaderInv, NoReaderLeak
<1> QED
  BY <1>1, ReadersAccounted, PTL DEF IInv
=============================================================================

--------------------------- MODULE MmdbPublisher ---------------------------
(***************************************************************************)
(* One GeoIP/ASN database of component/mmdb: the publisher that stages,    *)
(* verifies and renames a downloaded file into place, and the reader       *)
(* holder that lets rule lookups keep using a database while a newer one   *)
(* is published over it.                                                   *)
(*                                                                         *)
(* A snapshot is an opened maxminddb reader.  Closing it unmaps the file,  *)
(* so a lookup that still holds it would read unmapped memory.             *)
(*                                                                         *)
(* The publisher's mutex p.mu is held across the whole of Publish, whose   *)
(* file operations are separate steps here (each can fail, and the process *)
(* can die between any two of them).  EnsureSeeded, Adopt and Reopen also  *)
(* hold p.mu; nothing else writes the file they open, so each is one step. *)
(* The holder's mutex makes acquire, release and publish single steps.     *)
(***************************************************************************)
EXTENDS Integers, FiniteSets

CONSTANTS
    Lookups,     \* goroutines matching GEOIP / IP-ASN rules
    Snapshots,   \* identities of opened readers
    NoSnapshot,  \* a nil *snapshot
    MaxVersion   \* bound: how many databases are offered to Publish

ASSUME LookupsFinite == IsFiniteSet(Lookups)
ASSUME NoSnapshotIsNone == NoSnapshot \notin Snapshots
ASSUME MaxVersionIsNat == MaxVersion \in Nat

(***************************************************************************)
(* File contents: Absent, Corrupt (does not open), 0 (the database shipped *)
(* with the app) or the number of the Publish call that wrote it.          *)
(***************************************************************************)
Absent == -2
Corrupt == -1
Versions == 0..MaxVersion
Contents == Versions \cup {Absent, Corrupt}

VARIABLES
    opened,        \* snapshots whose reader has been opened
    closed,        \* snapshots whose reader has been closed
    refs,          \* snapshot.refs
    retired,       \* snapshots with retired = true
    version,       \* the data a snapshot reads
    current,       \* readerHolder.current
    held,          \* the snapshot each lookup holds between acquire and release
    stage,         \* where each lookup is
    published,     \* publisher.published
    diskAttempted, \* publisher.diskAttempted
    pub,           \* the running Publish: its step, its data and its temp file
    candidate,     \* the reader Publish opened on its temp file
    offered,       \* how many databases have been offered to Publish
    disk,          \* what the database path holds now
    durable        \* what it may hold after the machine loses power

holderVars == <<opened, closed, refs, retired, version, current>>
lookupVars == <<held, stage>>
fileVars == <<disk, durable>>
vars == <<holderVars, lookupVars, published, diskAttempted, pub, candidate,
          offered, fileVars>>

NoPublish == [step |-> "idle", good |-> FALSE, synced |-> FALSE]
PublishSteps == {"idle", "staged", "written", "synced", "verified", "renamed"}

TypeOK ==
    /\ opened \subseteq Snapshots
    /\ closed \subseteq opened
    /\ retired \subseteq opened
    /\ refs \in [Snapshots -> Nat]
    /\ version \in [Snapshots -> Versions]
    /\ current \in opened \cup {NoSnapshot}
    /\ candidate \in opened \cup {NoSnapshot}
    /\ held \in [Lookups -> opened \cup {NoSnapshot}]
    /\ stage \in [Lookups -> {"idle", "seeded", "reading"}]
    /\ published \in BOOLEAN
    /\ diskAttempted \in BOOLEAN
    /\ pub \in [step : PublishSteps, good : BOOLEAN, synced : BOOLEAN]
    /\ offered \in 0..MaxVersion
    /\ disk \in Contents
    /\ durable \subseteq Contents

Init ==
    /\ opened = {}
    /\ closed = {}
    /\ retired = {}
    /\ refs = [s \in Snapshots |-> 0]
    /\ version = [s \in Snapshots |-> 0]
    /\ current = NoSnapshot
    /\ candidate = NoSnapshot
    /\ held = [t \in Lookups |-> NoSnapshot]
    /\ stage = [t \in Lookups |-> "idle"]
    /\ published = FALSE
    /\ diskAttempted = FALSE
    /\ pub = NoPublish
    /\ offered = 0
    /\ disk \in {Absent, Corrupt, 0}
    /\ durable = {disk}

(***************************************************************************)
(* The reader holder.                                                      *)
(***************************************************************************)

(* An acquire that hands out the snapshot without counting the reference. *)
AcquireUncounted(t) ==
    /\ stage[t] = "seeded"
    /\ IF current = NoSnapshot
         THEN /\ stage' = [stage EXCEPT ![t] = "idle"]
              /\ UNCHANGED held
         ELSE /\ stage' = [stage EXCEPT ![t] = "reading"]
              /\ held' = [held EXCEPT ![t] = current]
    /\ UNCHANGED <<holderVars, published, diskAttempted, pub, candidate,
                   offered, fileVars>>

(* acquire: take a reference on the current snapshot, if there is one. *)
Acquire(t) ==
    /\ stage[t] = "seeded"
    /\ IF current = NoSnapshot
         THEN /\ stage' = [stage EXCEPT ![t] = "idle"]
              /\ UNCHANGED <<held, refs>>
         ELSE /\ stage' = [stage EXCEPT ![t] = "reading"]
              /\ held' = [held EXCEPT ![t] = current]
              /\ refs' = [refs EXCEPT ![current] = @ + 1]
    /\ UNCHANGED <<opened, closed, retired, version, current, published,
                   diskAttempted, pub, candidate, offered, fileVars>>

(* A release that would not wait for the snapshot to be retired. *)
ReleaseClosesCurrent(t) ==
    /\ stage[t] = "reading"
    /\ LET s == held[t] IN
         /\ refs' = [refs EXCEPT ![s] = @ - 1]
         /\ closed' = IF refs[s] = 1 THEN closed \cup {s} ELSE closed
    /\ held' = [held EXCEPT ![t] = NoSnapshot]
    /\ stage' = [stage EXCEPT ![t] = "idle"]
    /\ UNCHANGED <<opened, retired, version, current, published,
                   diskAttempted, pub, candidate, offered, fileVars>>

(* A release that leaves closing to publish alone. *)
ReleaseNeverCloses(t) ==
    /\ stage[t] = "reading"
    /\ refs' = [refs EXCEPT ![held[t]] = @ - 1]
    /\ held' = [held EXCEPT ![t] = NoSnapshot]
    /\ stage' = [stage EXCEPT ![t] = "idle"]
    /\ UNCHANGED <<opened, closed, retired, version, current, published,
                   diskAttempted, pub, candidate, offered, fileVars>>

(* release: the last reference to a retired snapshot closes it. *)
Release(t) ==
    /\ stage[t] = "reading"
    /\ LET s == held[t] IN
         /\ refs' = [refs EXCEPT ![s] = @ - 1]
         /\ closed' = IF s \in retired /\ refs[s] = 1 /\ s \notin closed
                        THEN closed \cup {s} ELSE closed
    /\ held' = [held EXCEPT ![t] = NoSnapshot]
    /\ stage' = [stage EXCEPT ![t] = "idle"]
    /\ UNCHANGED <<opened, retired, version, current, published,
                   diskAttempted, pub, candidate, offered, fileVars>>

(* publish: retire the old snapshot; close it now if nobody holds it. *)
PublishReader(s) ==
    /\ current' = s
    /\ IF current = NoSnapshot
         THEN UNCHANGED <<retired, closed>>
         ELSE /\ retired' = retired \cup {current}
              /\ closed' = IF refs[current] = 0 /\ current \notin closed
                             THEN closed \cup {current} ELSE closed

(* A freshly opened reader over content v becomes the current snapshot. *)
OpenAndPublish(v) ==
    \E s \in Snapshots \ opened :
        /\ opened' = opened \cup {s}
        /\ version' = [version EXCEPT ![s] = v]
        /\ PublishReader(s)
        /\ UNCHANGED refs

(***************************************************************************)
(* The publisher.  p.mu is free exactly when no Publish is running.        *)
(***************************************************************************)
PublisherFree == pub.step = "idle"

(* IPInstance / ASNInstance: seed from disk once, before the lookup. *)
EnsureSeeded(t) ==
    /\ stage[t] = "idle"
    /\ PublisherFree
    /\ stage' = [stage EXCEPT ![t] = "seeded"]
    /\ diskAttempted' = (diskAttempted \/ ~published)
    /\ IF published \/ diskAttempted \/ disk \notin Versions
         THEN UNCHANGED <<holderVars, published>>
         ELSE /\ OpenAndPublish(disk)
              /\ published' = TRUE
    /\ UNCHANGED <<held, pub, candidate, offered, fileVars>>

(* An Adopt without its `published` check. *)
AdoptAlways ==
    /\ PublisherFree
    /\ OpenAndPublish(0)
    /\ published' = TRUE
    /\ UNCHANGED <<lookupVars, diskAttempted, pub, candidate, offered, fileVars>>

(* LoadFromBytes: use the bytes handed in unless something is published. *)
Adopt ==
    /\ PublisherFree
    /\ ~published
    /\ OpenAndPublish(0)
    /\ published' = TRUE
    /\ UNCHANGED <<lookupVars, diskAttempted, pub, candidate, offered, fileVars>>

(* ReloadIP / ReloadASN: open whatever the path holds now. *)
Reopen ==
    /\ PublisherFree
    /\ disk \in Versions
    /\ OpenAndPublish(disk)
    /\ published' = TRUE
    /\ UNCHANGED <<lookupVars, diskAttempted, pub, candidate, offered, fileVars>>

(* A failing Publish that forgets to close the reader it opened. *)
PublishFailsKeepsCandidate ==
    /\ pub' = NoPublish
    /\ candidate' = NoSnapshot
    /\ UNCHANGED <<holderVars, lookupVars, published, diskAttempted, offered,
                   fileVars>>

(* Publish fails: drop the temp file and any reader opened on it. *)
PublishFails ==
    /\ pub' = NoPublish
    /\ candidate' = NoSnapshot
    /\ closed' = closed \cup ({candidate} \ {NoSnapshot})
    /\ UNCHANGED <<opened, refs, retired, version, current, lookupVars,
                   published, diskAttempted, offered, fileVars>>

(* CreateTemp, with data that does or does not parse as a database. *)
PublishStage ==
    /\ PublisherFree
    /\ offered < MaxVersion
    /\ offered' = offered + 1
    /\ \E good \in BOOLEAN :
         pub' = [step |-> "staged", good |-> good, synced |-> FALSE]
    /\ UNCHANGED <<holderVars, lookupVars, published, diskAttempted, candidate,
                   fileVars>>

PublishWrite ==
    /\ pub.step = "staged"
    /\ \/ /\ pub' = [pub EXCEPT !.step = "written"]
          /\ UNCHANGED <<holderVars, lookupVars, published, diskAttempted,
                         candidate, offered, fileVars>>
       \/ PublishFails

(* A Publish that does not fsync its temp file. *)
PublishSyncSkipped ==
    /\ pub.step = "written"
    /\ pub' = [pub EXCEPT !.step = "synced"]
    /\ UNCHANGED <<holderVars, lookupVars, published, diskAttempted,
                   candidate, offered, fileVars>>

(* fsync and close of the temp file. *)
PublishSync ==
    /\ pub.step = "written"
    /\ \/ /\ pub' = [pub EXCEPT !.step = "synced", !.synced = TRUE]
          /\ UNCHANGED <<holderVars, lookupVars, published, diskAttempted,
                         candidate, offered, fileVars>>
       \/ PublishFails

(* Verification: open the staged file; data that does not parse is refused. *)
PublishVerify ==
    /\ pub.step = "synced"
    /\ \/ /\ pub.good
          /\ \E s \in Snapshots \ opened :
               /\ opened' = opened \cup {s}
               /\ version' = [version EXCEPT ![s] = offered]
               /\ candidate' = s
          /\ pub' = [pub EXCEPT !.step = "verified"]
          /\ UNCHANGED <<closed, refs, retired, current, lookupVars, published,
                         diskAttempted, offered, fileVars>>
       \/ PublishFails

(* chmod and rename.  The new name is durable only after the directory is  *)
(* synced, and an unsynced file may come back empty or torn.               *)
PublishRename ==
    /\ pub.step = "verified"
    /\ \/ /\ pub' = [pub EXCEPT !.step = "renamed"]
          /\ disk' = offered
          /\ durable' = durable \cup {offered}
                          \cup (IF pub.synced THEN {} ELSE {Corrupt})
          /\ UNCHANGED <<holderVars, lookupVars, published, diskAttempted,
                         candidate, offered>>
       \/ PublishFails

(* Directory fsync (its failure is only logged), then serve the candidate. *)
PublishServe ==
    /\ pub.step = "renamed"
    /\ PublishReader(candidate)
    /\ published' = TRUE
    /\ \/ durable' = {disk} \cup (IF pub.synced THEN {} ELSE {Corrupt})
       \/ UNCHANGED durable
    /\ pub' = NoPublish
    /\ candidate' = NoSnapshot
    /\ UNCHANGED <<opened, refs, version, lookupVars, diskAttempted, offered, disk>>

(* The process is killed or the machine loses power, and it starts again. *)
Crash ==
    /\ opened' = {}
    /\ closed' = {}
    /\ retired' = {}
    /\ refs' = [s \in Snapshots |-> 0]
    /\ version' = [s \in Snapshots |-> 0]
    /\ current' = NoSnapshot
    /\ candidate' = NoSnapshot
    /\ held' = [t \in Lookups |-> NoSnapshot]
    /\ stage' = [t \in Lookups |-> "idle"]
    /\ published' = FALSE
    /\ diskAttempted' = FALSE
    /\ pub' = NoPublish
    /\ disk' \in durable
    /\ durable' = {disk'}
    /\ UNCHANGED offered

Next ==
    \/ \E t \in Lookups : EnsureSeeded(t) \/ Acquire(t) \/ Release(t)
    \/ Adopt
    \/ Reopen
    \/ PublishStage
    \/ PublishWrite
    \/ PublishSync
    \/ PublishVerify
    \/ PublishRename
    \/ PublishServe
    \/ Crash

Spec == Init /\ [][Next]_vars

(***************************************************************************)
(* Properties.                                                             *)
(***************************************************************************)

(* No lookup ever holds a reader that has been closed: publishing over a   *)
(* database in use (readerHolder.publish) and the releases that follow it  *)
(* unmap the old file only after the last lookup has let go of it.         *)
NoUseAfterClose ==
    \A t \in Lookups : held[t] # NoSnapshot => held[t] \notin closed

(* No reader leaks: one that is neither current, nor the candidate of the  *)
(* running Publish, nor held by a lookup has been closed, whatever order   *)
(* publish and release ran in and wherever Publish failed.                 *)
NoReaderLeak ==
    \A s \in opened \ closed :
        \/ s \in {current, candidate}
        \/ \E t \in Lookups : held[t] = s

(* A power loss at any step of Publish leaves a database that opens, if    *)
(* one did before: the file is complete and synced before it gets its name.*)
PathStaysOpenable ==
    [][(durable \subseteq Versions) => (durable' \subseteq Versions)]_durable

(* The strengthening that makes the two reader invariants inductive: the   *)
(* reference counts are exact, and the sets of retired, closed and live    *)
(* readers partition what has been opened.                                 *)
Holders(h, s) == {t \in Lookups : h[t] = s}

ReaderInv ==
    /\ \A s \in Snapshots : refs[s] = Cardinality(Holders(held, s))
    /\ \A t \in Lookups : stage[t] = "reading" <=> held[t] # NoSnapshot
    /\ \A t \in Lookups : held[t] # NoSnapshot => held[t] # candidate
    /\ current \notin retired \cup closed
    /\ candidate \notin retired \cup closed
    /\ current # NoSnapshot => current # candidate
    /\ candidate # NoSnapshot <=> pub.step \in {"verified", "renamed"}
    /\ \A s \in closed : refs[s] = 0
    /\ \A s \in opened \ closed :
          s \in {current, candidate} \/ (s \in retired /\ refs[s] # 0)

(* Within one process lifetime the data being served never goes back to an *)
(* older database: a late Adopt, a lookup's lazy seed and a Reopen all     *)
(* yield to what Publish has already put in place.                         *)
ServedNeverGoesBack ==
    [][(current # NoSnapshot /\ current' # NoSnapshot)
          => version'[current'] >= version[current]]_current

=============================================================================

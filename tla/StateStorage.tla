----------------------------- MODULE StateStorage -----------------------------
(***************************************************************************)
(* How the control host keeps state.json (theywork-control,                *)
(* state_storage.rs and the staged replacement of security.rs), one file   *)
(* system call at a time, with process deaths, power losses, I/O errors    *)
(* and somebody else removing, replacing or damaging the file in between.  *)
(* Admission uses one save as a single step; this module shows what that   *)
(* step may leave behind.                                                  *)
(*                                                                         *)
(* A snapshot is its version: every save publishes a newer one.  `status`  *)
(* is locked for a whole save, so saves and health checks do not overlap.  *)
(***************************************************************************)
EXTENDS Naturals

CONSTANTS
  MaxVersion,     \* bound: snapshots saved
  MaxDisruption   \* bound: times somebody else touches the file

ASSUME StorageAssumption == MaxVersion \in Nat /\ MaxDisruption \in Nat

FileKinds == {"absent", "valid", "corrupt", "special"}
File == [kind: FileKinds, version: 0..MaxVersion, synced: BOOLEAN]
Absent == [kind |-> "absent", version |-> 0, synced |-> TRUE]
NotStaged == 0

VARIABLES
  host,        \* "down" | "loading" | "loaded" | "up"
  memory,      \* version of the snapshot in memory
  initialized, \* StorageStatus.initialized
  fault,       \* StorageStatus.fault is set
  endpoint,    \* endpoint.json exists
  file,        \* state.json as processes see it
  durable,     \* state.json as a power loss leaves it
  backup,      \* what somebody's disruption took away
  staged,      \* version in the temporary file, or NotStaged
  synced,      \* the temporary file was synced
  pc,          \* where the save is
  acked,       \* newest version whose save succeeded in a serving host
  candidates,  \* temporary files this process left behind on purpose
  disruptions, repairs  \* how often somebody touched, restored the file

processVars == <<memory, initialized, fault>>
tempVars == <<staged, synced>>
othersVars == <<backup, disruptions, repairs>>
storageVars == <<host, processVars, endpoint, file, durable, tempVars, pc, acked,
          candidates, othersVars>>

StorageInit ==
  /\ host = "down" /\ memory = 0
  /\ initialized = FALSE /\ fault = FALSE /\ endpoint = FALSE
  /\ file = Absent /\ durable = Absent /\ backup = Absent
  /\ staged = NotStaged /\ synced = FALSE /\ pc = "idle"
  /\ acked = 0 /\ candidates = 0 /\ disruptions = 0 /\ repairs = 0

-----------------------------------------------------------------------------
(* run_supervisor: load, save, publish the endpoint, serve.                *)

(* Wrong: a missing state is a fresh directory, endpoint or not.           *)
LoadableAnyway == file.kind \in {"valid", "absent"}

(* read_snapshot succeeds: a valid file, or an unused directory.           *)
Loadable == file.kind = "valid" \/ (file.kind = "absent" /\ ~endpoint)

Load ==
  /\ host = "down" /\ Loadable
  /\ file.version < MaxVersion
  /\ host' = "loading"
  /\ memory' = file.version + 1
  /\ initialized' = (file.kind = "valid")
  /\ fault' = FALSE /\ candidates' = 0 /\ repairs' = 0
  /\ pc' = "check"
  /\ UNCHANGED <<endpoint, file, durable, tempVars, acked, backup, disruptions>>

PublishEndpoint ==
  /\ host = "loaded"
  /\ host' = "up"
  /\ endpoint' = TRUE
  /\ UNCHANGED <<processVars, file, durable, tempVars, pc, acked, candidates,
                 othersVars>>

(* A serving host saves a newer snapshot: StateStorage::write.             *)
BeginSave ==
  /\ host = "up" /\ pc = "idle"
  /\ memory < MaxVersion
  /\ memory' = memory + 1
  /\ pc' = "check"
  /\ UNCHANGED <<host, initialized, fault, endpoint, file, durable, tempVars,
                 acked, candidates, othersVars>>

(* check_health, before the provider is used.                              *)
CheckHealth ==
  /\ host = "up" /\ pc = "idle" /\ ~fault
  /\ file.kind # "valid"
  /\ fault' = TRUE
  /\ UNCHANGED <<host, memory, initialized, endpoint, file, durable, tempVars,
                 pc, acked, candidates, othersVars>>

-----------------------------------------------------------------------------
(* write_with around write_private_checked.                                *)

(* A save returns an error: a loading process exits.                       *)
Failed ==
  /\ pc' = "idle"
  /\ host' = IF host = "loading" THEN "down" ELSE host
  /\ UNCHANGED <<memory, initialized, endpoint, acked>>

(* A latched fault, a file that is not a private file, or a missing one    *)
(* where there was or should be one.                                       *)
Refused ==
  \/ fault
  \/ file.kind = "special"
  \/ file.kind = "absent" /\ (initialized \/ endpoint)

Check ==
  /\ pc = "check"
  /\ IF Refused
     THEN Failed /\ fault' = TRUE
     ELSE pc' = "stage" /\ UNCHANGED <<host, processVars, endpoint, acked>>
  /\ UNCHANGED <<file, durable, tempVars, candidates, othersVars>>

(* Create and fill the temporary file; nothing remains when that fails.    *)
Stage ==
  /\ pc = "stage"
  /\ \/ /\ file.kind # "special"
        /\ staged' = memory /\ synced' = FALSE
        /\ pc' = "sync"
     \/ UNCHANGED tempVars /\ pc' = "latch"
  /\ UNCHANGED <<host, processVars, endpoint, file, durable, acked, candidates,
                 othersVars>>

(* Wrong: publish without waiting for the bytes to reach the disk.         *)
SyncStagedSkipped ==
  /\ pc = "sync"
  /\ pc' = "publish"
  /\ UNCHANGED <<host, processVars, endpoint, file, durable, tempVars, acked,
                 candidates, othersVars>>

SyncStaged ==
  /\ pc = "sync"
  /\ \/ synced' = TRUE /\ pc' = "publish" /\ UNCHANGED staged
     \/ staged' = NotStaged /\ pc' = "latch" /\ UNCHANGED synced
  /\ UNCHANGED <<host, processVars, endpoint, file, durable, acked, candidates,
                 othersVars>>

(* The rename: it replaces the name at once, or fails and changes nothing. *)
Publish ==
  /\ pc = "publish"
  /\ \/ /\ file' = [kind |-> "valid", version |-> staged, synced |-> synced]
        /\ staged' = NotStaged
        /\ pc' = "dirsync"
     \/ UNCHANGED <<file, staged>> /\ pc' = "verify"
  /\ UNCHANGED <<host, processVars, endpoint, durable, synced, acked,
                 candidates, othersVars>>

(* The directory is synced: only now the save succeeds.                    *)
SyncDirectory ==
  /\ pc = "dirsync"
  /\ \/ /\ durable' = file
        /\ pc' = "idle"
        /\ initialized' = TRUE
        /\ IF host = "loading"
           THEN host' = "loaded" /\ UNCHANGED acked
           ELSE acked' = memory /\ UNCHANGED host
     \/ pc' = "verify" /\ UNCHANGED <<durable, initialized, host, acked>>
  /\ UNCHANGED <<memory, fault, endpoint, file, tempVars, candidates, othersVars>>

(* After an attempted publication: remove the temporary file only if       *)
(* state.json reads back as a snapshot, else leave it as evidence.         *)
Verify ==
  /\ pc = "verify"
  /\ staged' = NotStaged
  /\ candidates' = IF file.kind # "valid" /\ staged # NotStaged
                   THEN candidates + 1 ELSE candidates
  /\ pc' = "latch"
  /\ UNCHANGED <<host, processVars, endpoint, file, durable, synced, acked,
                 othersVars>>

(* write_with reads it again and latches the fault if it is no snapshot.   *)
Latch ==
  /\ pc = "latch"
  /\ fault' = IF file.kind # "valid" THEN TRUE ELSE fault
  /\ Failed
  /\ UNCHANGED <<file, durable, tempVars, candidates, othersVars>>

-----------------------------------------------------------------------------
(* Everything else.                                                        *)

Stopped ==
  /\ host' = "down" /\ pc' = "idle"
  /\ staged' = NotStaged
  /\ UNCHANGED <<processVars, endpoint, acked, candidates, synced, othersVars>>

(* The process dies; an unpublished temporary file stays and is never read.*)
Crash == host # "down" /\ Stopped /\ UNCHANGED <<file, durable>>

(* Power fails: the name may or may not have reached the disk, and bytes   *)
(* that were not synced are lost.                                          *)
PowerLoss ==
  /\ Stopped
  /\ \E left \in {file, durable} :
       /\ file' = IF left.synced THEN left
                  ELSE [left EXCEPT !.kind = "corrupt", !.synced = TRUE]
       /\ durable' = file'

Disrupt ==
  /\ file.kind = "valid" /\ disruptions < MaxDisruption
  /\ disruptions' = disruptions + 1
  /\ backup' = file
  /\ \E kind \in {"absent", "corrupt", "special"} :
       file' = [kind |-> kind, version |-> 0, synced |-> TRUE]
  /\ durable' = file'
  /\ UNCHANGED <<host, processVars, endpoint, tempVars, pc, acked, candidates,
                 repairs>>

(* The canonical file is put back as it was, or the empty directory is.    *)
Repair ==
  /\ file.kind # "valid" /\ backup # Absent
  /\ repairs' = repairs + 1
  /\ file' = [backup EXCEPT !.synced = TRUE] /\ durable' = file'
  /\ backup' = Absent
  /\ UNCHANGED <<host, processVars, endpoint, tempVars, pc, acked, candidates,
                 disruptions>>

Save ==
  \/ Check \/ Stage \/ SyncStaged \/ Publish \/ SyncDirectory \/ Verify \/ Latch

StorageNext ==
  \/ Load \/ PublishEndpoint \/ BeginSave \/ CheckHealth \/ Save
  \/ Crash \/ PowerLoss \/ Disrupt \/ Repair

StorageSpec == StorageInit /\ [][StorageNext]_storageVars

-----------------------------------------------------------------------------
(* Properties.                                                             *)

(* Every variable has its type, and a serving host has an endpoint and an  *)
(* established state (supervisor.rs run_supervisor).                       *)
StorageTypeOK ==
  /\ host \in {"down", "loading", "loaded", "up"}
  /\ memory \in 0..MaxVersion /\ acked \in 0..MaxVersion
  /\ initialized \in BOOLEAN /\ fault \in BOOLEAN /\ endpoint \in BOOLEAN
  /\ file \in File /\ durable \in File /\ backup \in File
  /\ staged \in 0..MaxVersion /\ synced \in BOOLEAN
  /\ pc \in {"idle", "check", "stage", "sync", "publish", "dirsync", "verify",
             "latch"}
  /\ candidates \in Nat /\ disruptions \in 0..MaxDisruption /\ repairs \in Nat
  /\ host = "up" => endpoint /\ initialized

(* What a restart can build on: the file, or the copy somebody holds.      *)
Recoverable(f) == IF f.kind = "valid" THEN f ELSE backup

(* A save that succeeded is never lost, torn or replaced by an older       *)
(* snapshot: not by a process death or a power loss after it, not by a     *)
(* failed save, and not by a host that takes a lost state for a fresh one. *)
AckedSurvives ==
  \A f \in {file, durable} :
    acked > 0 => Recoverable(f).version >= acked /\ Recoverable(f).synced

(* A host never works from a snapshot older than one it acknowledged.      *)
MemoryCurrent == host # "down" => memory >= acked

(* "A failed publication cannot create an unbounded series of candidates"  *)
(* (state_storage.rs:18): after one is left behind, saving stops until     *)
(* somebody repairs the file or restarts the host.                         *)
CandidatesBounded == candidates <= 1 + repairs

(* A latched fault lasts as long as the process, which touches neither     *)
(* state.json nor a temporary file any more.                               *)
FaultIsFinal ==
  [][fault /\ host = "up" /\ host' = "up" =>
       fault' /\ pc' \in {"idle", "check"} /\ staged' = NotStaged]_storageVars

=============================================================================

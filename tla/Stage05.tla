------------------------------- MODULE Stage05 -------------------------------
(***************************************************************************)
(* stage05.py: the reconciler that creates, and can take away again, the   *)
(* four resources that authorize a disposable lab host (config directory,  *)
(* experiments directory, workspace, marker file), writing every step      *)
(* ahead in the installation journal.                                      *)
(*                                                                         *)
(* The journal is used through its promise (module Journal); what the      *)
(* resources look like now, and what a power failure would make of them,   *)
(* is a CrashFs directory for each.  execute() first allocates the state   *)
(* root and the journal root, under no lock; then a process runs one       *)
(* execute(), rollback() or observe() at a time under the flock of the     *)
(* journal root.  Between any two system calls it can fail, be killed, or  *)
(* the host can lose power.  Which of these may happen in a behaviour is   *)
(* one of FaultModels, chosen at its start.                                *)
(***************************************************************************)
EXTENDS JournalRecord, CrashFs

CONSTANTS
  Procs,        \* the processes that may run a Stage 05 operation
  Nobody,       \* no process
  FaultModels   \* what may go wrong together: sets of FaultKinds

FaultKinds == {"kill",    \* SIGKILL, a lost SSH session
               "error",   \* a system call raises
               "refuse",  \* production evidence is found, or cannot be excluded
               "power"}   \* the host loses power

ASSUME Stage05Assumption ==
  /\ Nobody \notin Procs
  /\ FaultModels \subseteq SUBSET FaultKinds

VARIABLES
  rec, floor, blocked,  \* the journal: see module Journal
  stateRoot,            \* /var/lib/kitdev-sandboxes and its mode
  journalRoot,          \* .../journal
  config,               \* /etc/kitdev-sandboxes and its mode
  experiments,          \* .../experiments
  workspace,            \* .../experiments/ovh-lab
  marker,               \* what /etc/kitdev-sandboxes contains
  lock,                 \* flock on the journal directory
  run,                  \* process -> the operation it is in, and where
  faults                \* the fault model of this behaviour

journal == <<rec, floor, blocked>>
roots == <<stateRoot, journalRoot>>
tree == <<config, experiments, workspace, marker>>
vars == <<journal, roots, tree, lock, run>>

J == INSTANCE Journal

Modes == {"absent", "provisional", "exact"}   \* provisional: mkdir'd 0700, not yet 0755
Presence == {"absent", "present"}

(* A marker names the plan it was built from; a temporary marker may be
   torn. *)
Markers == Plans \cup {NoPlan}
Torn == "torn"
Contents == [final : Markers, temp : Markers \cup {Torn}]
NoMarker == [final |-> NoPlan, temp |-> NoPlan]

Ops == {"execute", "rollback", "observe", "recover"}
Publishing == {"marker_write", "marker_link", "marker_sync", "marker_unlink"}
Building == {"build", "config_mode", "config_sync", "experiments_sync",
             "workspace_sync", "marker_unlink_sync"} \cup Publishing
Allocating == {"state_root", "state_make", "state_mode", "state_sync", "state_repair_sync",
               "journal_root", "journal_make", "journal_sync", "enter"}
PCs == {"idle", "examine", "resolve", "roots_sync", "create", "create_sync", "residue", "residue_sync",
        "prefix", "repair_sync", "sync", "resume", "record", "record_sync", "remove",
        "remove_sync"} \cup Building \cup Allocating  \* resolve: see module Stage10

Idle == [pc |-> "idle", op |-> "observe", plan |-> NoPlan, goal |-> "planned"]

------------------------------------------------------------------------------
(* What an operation sees. *)

State == IF rec = NoRecord THEN "none" ELSE StateOf(rec)

(* _resource_presence, in the order execute() creates. *)
Present == <<config.now # "absent", experiments.now # "absent",
             workspace.now # "absent", marker.now.final # NoPlan>>

(* _raw_prefix_length: only the first so many of the four are there. *)
IsPrefixShaped == \A i \in 1..3 : Present[i + 1] => Present[i]
PrefixLength == Cardinality({i \in 1..4 : Present[i]})

(* _prefix_length(strict_entries=True) of a reconciler for this plan. *)
Strict(plan) ==
  /\ IsPrefixShaped
  /\ config.now # "provisional"
  /\ marker.now.temp = NoPlan
  /\ marker.now.final \in {NoPlan, plan}

(* allow_config_provisional: the one directory mode a retry may repair. *)
Repairable ==
  /\ IsPrefixShaped
  /\ PrefixLength = 1
  /\ config.now = "provisional"
  /\ marker.now.temp = NoPlan

(* _assert_record_exact, and the residue JournalStore will not clean up. *)
Usable(plan) == rec # NoRecord /\ rec.plan = plan /\ ~blocked

Goto(p, pc) == run' = [run EXCEPT ![p].pc = pc]
Write(p, st) == run' = [run EXCEPT ![p].pc = "record", ![p].goal = st]

LockWithout(p) ==
  [ex |-> IF lock.ex = p THEN Nobody ELSE lock.ex, sh |-> lock.sh \ {p}]

(* The operation returns or raises: the session and its flock are gone. *)
Leave(p) ==
  /\ run' = [run EXCEPT ![p] = Idle]
  /\ lock' = LockWithout(p)

(* An exception after planned -> applying and before the end of execute()
   enters _record_failed_if_stable, which goes on only in state applying; any
   other exception leaves the operation. *)
Raise(p) ==
  IF /\ run[p].op = "execute" /\ State = "applying"
     /\ run[p].pc \in Building \/ (run[p].pc = "record" /\ run[p].goal = "applied")
  THEN /\ run' = [run EXCEPT ![p].op = "recover", ![p].pc = "residue"]
       /\ UNCHANGED lock
  ELSE Leave(p)

------------------------------------------------------------------------------
(* execute(): _allocate_roots, under no lock, so that two first executes may
   get in each other's way. *)

AllocateStep(p, at, next, newState, newJournal) ==
  /\ run[p].pc = at
  /\ stateRoot' = newState
  /\ journalRoot' = newJournal
  /\ Goto(p, next)
  /\ UNCHANGED <<journal, tree, lock>>

Allocate(p, at) == run[p].pc = at /\ UNCHANGED <<journal, roots, tree>>

Operation(pc, op, plan) == [pc |-> pc, op |-> op, plan |-> plan, goal |-> "planned"]

BeginExecute(p, plan) ==
  /\ Allocate(p, "idle")
  /\ run' = [run EXCEPT ![p] = Operation("state_root", "execute", plan)]
  /\ UNCHANGED lock

StateRootAbsent(p) ==
  stateRoot.now = "absent" /\ Allocate(p, "state_root") /\ Goto(p, "state_make") /\ UNCHANGED lock
StateRootExact(p) ==
  stateRoot.now = "exact" /\ Allocate(p, "state_root") /\ Goto(p, "journal_root") /\ UNCHANGED lock

MakeStateRoot(p) ==
  /\ stateRoot.now = "absent"
  /\ AllocateStep(p, "state_make", "state_mode", Put(stateRoot, "provisional"), Fresh("absent"))
SetStateMode(p) ==
  AllocateStep(p, "state_mode", "state_sync", Put(stateRoot, "exact"), journalRoot)
SyncStateRoot(p) ==
  /\ journalRoot.now = "absent"
  /\ AllocateStep(p, "state_sync", "journal_root", Sync(stateRoot), journalRoot)

(* A directory that was made and not yet given its mode: only while nothing
   is in it. *)
RepairStateRoot(p) ==
  /\ stateRoot.now = "provisional" /\ journalRoot.now = "absent"
  /\ AllocateStep(p, "state_root", "state_repair_sync", Put(stateRoot, "exact"), journalRoot)
RepairStateSync(p) ==
  /\ journalRoot.now = "absent"
  /\ AllocateStep(p, "state_repair_sync", "journal_root", Sync(stateRoot), journalRoot)

JournalRootPresent(p) ==
  journalRoot.now = "present" /\ Allocate(p, "journal_root") /\ Goto(p, "enter") /\ UNCHANGED lock

NothingInStateRoot == journalRoot.now = "absent" /\ ~Present[2]

JournalRootUnsynced(p) ==  \* mutant: the state root is not made durable first
  /\ NothingInStateRoot
  /\ AllocateStep(p, "journal_root", "journal_make", stateRoot, journalRoot)
JournalRootAbsent(p) ==
  /\ NothingInStateRoot
  /\ AllocateStep(p, "journal_root", "journal_make", Sync(stateRoot), journalRoot)
MakeJournalRoot(p) ==
  /\ journalRoot.now = "absent"
  /\ AllocateStep(p, "journal_make", "journal_sync", stateRoot, Put(journalRoot, "present"))
SyncJournalRoot(p) ==
  /\ rec = NoRecord
  /\ AllocateStep(p, "journal_sync", "enter", stateRoot, Sync(journalRoot))

(* mkdir finds a directory, or a directory that must be empty is not. *)
AllocateReject(p) ==
  /\ \/ run[p].pc = "state_make" /\ stateRoot.now # "absent"
     \/ /\ run[p].pc \in {"state_sync", "state_repair_sync"}
        /\ journalRoot.now = "present"
     \/ /\ run[p].pc = "state_root"
        /\ stateRoot.now = "provisional" /\ journalRoot.now = "present"
     \/ /\ run[p].pc = "journal_root"
        /\ journalRoot.now = "absent" /\ Present[2]
     \/ run[p].pc = "journal_make" /\ journalRoot.now # "absent"
     \/ run[p].pc = "journal_sync" /\ rec # NoRecord
  /\ Leave(p)
  /\ UNCHANGED <<journal, roots, tree>>

(* _sync_bootstrap_roots, under the lock and before the first record. *)
SyncRootsForgotten(p) == AllocateStep(p, "roots_sync", "create", stateRoot, journalRoot)  \* mutant
SyncRoots(p) ==
  AllocateStep(p, "roots_sync", "create", Sync(stateRoot), Sync(journalRoot))

------------------------------------------------------------------------------
(* Opening and closing an operation.  A busy lock raises transaction_busy. *)

EnterAnyway(p) ==  \* mutant: the lock is not asked for
  /\ Allocate(p, "enter")
  /\ lock' = [lock EXCEPT !.ex = p]
  /\ Goto(p, "examine")

Enter(p) ==
  /\ Allocate(p, "enter")
  /\ lock = [ex |-> Nobody, sh |-> {}]
  /\ lock' = [lock EXCEPT !.ex = p]
  /\ Goto(p, "examine")

EnterBusy(p) ==
  /\ Allocate(p, "enter")
  /\ lock # [ex |-> Nobody, sh |-> {}]
  /\ Leave(p)

(* _validate_existing_roots: without them rollback() and observe() end at
   once. *)
RootsExact == stateRoot.now = "exact" /\ journalRoot.now = "present"

BeginRollback(p, plan) ==
  /\ run[p].pc = "idle" /\ RootsExact
  /\ lock = [ex |-> Nobody, sh |-> {}]
  /\ lock' = [lock EXCEPT !.ex = p]
  /\ run' = [run EXCEPT ![p] = Operation("examine", "rollback", plan)]
  /\ UNCHANGED <<journal, tree>>

BeginObserve(p, plan) ==
  /\ run[p].pc = "idle" /\ RootsExact
  /\ lock.ex = Nobody
  /\ lock' = [lock EXCEPT !.sh = @ \cup {p}]
  /\ run' = [run EXCEPT ![p] = Operation("examine", "observe", plan)]
  /\ UNCHANGED <<journal, tree>>

(* observe() reads and reports; it repairs nothing. *)
EndObserve(p) ==
  /\ run[p].op = "observe" /\ run[p].pc = "examine"
  /\ Leave(p)
  /\ UNCHANGED <<journal, tree>>

------------------------------------------------------------------------------
(* execute(): what to do with the record that is there. *)

Examine(p, op) == run[p].pc = "examine" /\ run[p].op = op

ExecuteAccepts(plan) ==
  \/ rec = NoRecord /\ ~blocked /\ IsPrefixShaped /\ PrefixLength = 0
  \/ /\ Usable(plan)
     /\ \/ State = "planned" /\ Strict(plan) /\ PrefixLength = 0
        \/ State = "applying"
        \/ State = "applied" /\ Strict(plan) /\ PrefixLength = 4

(* A validated installation is only checked; anything else execute() does
   not recognize is refused. *)
EndExecute(p) ==
  /\ Examine(p, "execute")
  /\ ~ExecuteAccepts(run[p].plan)
  /\ Leave(p)
  /\ UNCHANGED <<journal, tree>>

Accepted(p, state) ==
  /\ Examine(p, "execute")
  /\ ExecuteAccepts(run[p].plan)
  /\ State = state
  /\ UNCHANGED <<journal, tree, lock>>

StartCreate(p) == Accepted(p, "none") /\ Goto(p, "roots_sync")
StartUnrecorded(p) == Accepted(p, "planned") /\ Goto(p, "build")  \* mutant

StartApplying(p) == Accepted(p, "planned") /\ Write(p, "applying")
ResumeFailed(p) ==  \* mutant: failed is not terminal for execute()
  /\ Examine(p, "execute") /\ Usable(run[p].plan)
  /\ State \in {"applying", "failed"}
  /\ Goto(p, "residue")
  /\ UNCHANGED <<journal, tree, lock>>

ResumeApplying(p) == Accepted(p, "applying") /\ Goto(p, "residue")
ResumeApplied(p) == Accepted(p, "applied") /\ Write(p, "validated")

CreateRecord(p) ==
  /\ run[p].pc = "create"
  /\ J!Publish(run[p].plan)
  /\ Goto(p, "create_sync")
  /\ UNCHANGED <<tree, lock>>

CreateSync(p) ==
  /\ run[p].pc = "create_sync"
  /\ J!Acknowledge
  /\ Goto(p, "examine")
  /\ UNCHANGED <<tree, lock>>

(* rollback(): only a record of the same plan; marker residue is removed
   where an interrupted execute() or rollback() may have left it. *)
RollbackStartKeepingResidue(p) ==  \* mutant: marker residue is not recovered
  /\ Examine(p, "rollback")
  /\ Usable(run[p].plan)
  /\ Goto(p, "prefix")
  /\ UNCHANGED <<journal, tree, lock>>

RollbackStart(p) ==
  /\ Examine(p, "rollback")
  /\ Usable(run[p].plan)
  /\ Goto(p, IF State \in {"applying", "rolling_back"} THEN "residue" ELSE "prefix")
  /\ UNCHANGED <<journal, tree, lock>>

EndRollback(p) ==
  /\ Examine(p, "rollback")
  /\ ~Usable(run[p].plan)
  /\ Leave(p)
  /\ UNCHANGED <<journal, tree>>

------------------------------------------------------------------------------
(* recover_marker_residue, _prefix_length and _sync_prefix, shared by a
   resumed execute(), by rollback() and by _record_failed_if_stable. *)

RemoveResidue(p) ==
  /\ run[p].pc = "residue"
  /\ marker.now.temp = run[p].plan
  /\ marker' = Put(marker, [marker.now EXCEPT !.temp = NoPlan])
  /\ Goto(p, "residue_sync")
  /\ UNCHANGED <<journal, config, experiments, workspace, lock>>

SyncResidue(p) ==
  /\ run[p].pc = "residue_sync"
  /\ marker' = Sync(marker)
  /\ Goto(p, "prefix")
  /\ UNCHANGED <<journal, config, experiments, workspace, lock>>

NoResidue(p) ==
  /\ run[p].pc = "residue"
  /\ marker.now.temp = NoPlan
  /\ Goto(p, "prefix")
  /\ UNCHANGED <<journal, tree, lock>>

MayRepair == State = "applying" /\ Repairable

RepairModeWrongly(p) ==  \* mutant: the repaired mode is not the exact one
  /\ run[p].pc = "prefix"
  /\ MayRepair
  /\ config' = Put(config, "provisional")
  /\ Goto(p, "repair_sync")
  /\ UNCHANGED <<journal, experiments, workspace, marker, lock>>

RepairMode(p) ==
  /\ run[p].pc = "prefix"
  /\ MayRepair
  /\ config' = Put(config, "exact")
  /\ Goto(p, "repair_sync")
  /\ UNCHANGED <<journal, experiments, workspace, marker, lock>>

RepairSync(p) ==
  /\ run[p].pc = "repair_sync"
  /\ config' = Sync(config)
  /\ marker' = Sync(marker)
  /\ Goto(p, "prefix")
  /\ UNCHANGED <<journal, experiments, workspace, lock>>

PrefixExact(p, op) == run[p].pc = "prefix" /\ run[p].op = op /\ Strict(run[p].plan)

(* execute() makes the prefix it found durable before it adds to it. *)
ExecutePrefix(p) ==
  /\ PrefixExact(p, "execute")
  /\ Goto(p, "sync")
  /\ UNCHANGED <<journal, tree, lock>>

(* Every directory and its parent, one fsync after the other; a crash in
   between leaves no more than a crash before the first of them. *)
SyncPrefix(p) ==
  /\ run[p].pc = "sync"
  /\ config' = IF PrefixLength >= 1 THEN Sync(config) ELSE config
  /\ marker' = IF PrefixLength >= 1 THEN Sync(marker) ELSE marker
  /\ experiments' = IF PrefixLength >= 2 THEN Sync(experiments) ELSE experiments
  /\ workspace' = IF PrefixLength >= 2 THEN Sync(workspace) ELSE workspace
  /\ Goto(p, "resume")
  /\ UNCHANGED <<journal, lock>>

(* refuse_production passed: from here on an exception may record failed. *)
Resume(p) ==
  /\ run[p].pc = "resume"
  /\ Goto(p, "build")
  /\ UNCHANGED <<journal, tree, lock>>

RecoverPrefixUnchecked(p) ==  \* mutant: any state is labelled failed
  /\ run[p].pc = "prefix" /\ run[p].op = "recover"
  /\ Write(p, "failed")
  /\ UNCHANGED <<journal, tree, lock>>

RecoverPrefix(p) ==
  /\ PrefixExact(p, "recover")
  /\ Write(p, "failed")
  /\ UNCHANGED <<journal, tree, lock>>

(* rollback() of a planned record goes through failed; rolling_back resumes
   with the removals. *)
RollbackPrefix(p) ==
  /\ PrefixExact(p, "rollback")
  /\ State \in {"planned", "rolled_back"} => PrefixLength = 0
  /\ \/ State = "planned" /\ Write(p, "failed")
     \/ State \in {"applying", "applied", "validated", "failed"} /\ Write(p, "rolling_back")
     \/ State = "rolling_back" /\ Goto(p, "remove")
  /\ UNCHANGED <<journal, tree, lock>>

(* An already rolled back installation is only checked. *)
EndRolledBack(p) ==
  /\ PrefixExact(p, "rollback")
  /\ State = "rolled_back"
  /\ Leave(p)
  /\ UNCHANGED <<journal, tree>>

PrefixReject(p) ==
  /\ \/ /\ run[p].pc = "residue"
        /\ marker.now.temp \notin {NoPlan, run[p].plan}
     \/ /\ run[p].pc = "prefix"
        /\ ~MayRepair
        /\ \/ ~Strict(run[p].plan)
           \/ run[p].op = "rollback" /\ State = "planned" /\ PrefixLength # 0
  /\ Leave(p)
  /\ UNCHANGED <<journal, tree>>

------------------------------------------------------------------------------
(* _transition: the journal is advanced, then known to be durable. *)

Advance(p) ==
  /\ run[p].pc = "record"
  /\ J!Advance(run[p].goal)
  /\ Goto(p, "record_sync")
  /\ UNCHANGED <<tree, lock>>

AdvanceReject(p) ==
  /\ run[p].pc = "record"
  /\ blocked
  /\ Raise(p)
  /\ UNCHANGED <<journal, tree>>

Recorded(p, goals) ==
  /\ run[p].pc = "record_sync"
  /\ run[p].goal \in goals
  /\ J!Acknowledge
  /\ UNCHANGED tree

RecordedApplying(p) == Recorded(p, {"applying"}) /\ Goto(p, "build") /\ UNCHANGED lock
RecordedApplied(p) == Recorded(p, {"applied"}) /\ Write(p, "validated") /\ UNCHANGED lock
RecordedRollingBack(p) == Recorded(p, {"rolling_back"}) /\ Goto(p, "remove") /\ UNCHANGED lock

(* rollback() of a planned record: failed, then rolling_back. *)
RecordedFailed(p) ==
  /\ run[p].op = "rollback"
  /\ Recorded(p, {"failed"})
  /\ Write(p, "rolling_back")
  /\ UNCHANGED lock

RecordedLast(p) ==
  /\ run[p].op = "recover" \/ run[p].goal # "failed"
  /\ Recorded(p, {"validated", "rolled_back", "failed"})
  /\ Leave(p)

------------------------------------------------------------------------------
(* execute(): create what is missing, the marker last. *)

MakeConfig(p) ==
  /\ run[p].pc = "build" /\ PrefixLength = 0
  /\ config' = Put(config, "provisional")
  /\ marker' = Fresh(NoMarker)
  /\ Goto(p, "config_mode")
  /\ UNCHANGED <<journal, experiments, workspace, lock>>

SetConfigMode(p) ==
  /\ run[p].pc = "config_mode"
  /\ config' = Put(config, "exact")
  /\ Goto(p, "config_sync")
  /\ UNCHANGED <<journal, experiments, workspace, marker, lock>>

SyncConfigForgotten(p) ==  \* mutant
  run[p].pc = "config_sync" /\ Goto(p, "build") /\ UNCHANGED <<journal, tree, lock>>

SyncConfig(p) ==
  /\ run[p].pc = "config_sync"
  /\ config' = Sync(config)
  /\ Goto(p, "build")
  /\ UNCHANGED <<journal, experiments, workspace, marker, lock>>

MakeExperiments(p) ==
  /\ run[p].pc = "build" /\ PrefixLength = 1
  /\ experiments' = Put(experiments, "present")
  /\ workspace' = Fresh("absent")
  /\ Goto(p, "experiments_sync")
  /\ UNCHANGED <<journal, config, marker, lock>>

SyncExperiments(p) ==
  /\ run[p].pc = "experiments_sync"
  /\ experiments' = Sync(experiments)
  /\ Goto(p, "build")
  /\ UNCHANGED <<journal, config, workspace, marker, lock>>

MakeWorkspace(p) ==
  /\ run[p].pc = "build" /\ PrefixLength = 2
  /\ workspace' = Put(workspace, "present")
  /\ Goto(p, "workspace_sync")
  /\ UNCHANGED <<journal, config, experiments, marker, lock>>

SyncWorkspaceForgotten(p) ==  \* mutant
  run[p].pc = "workspace_sync" /\ Goto(p, "build") /\ UNCHANGED <<journal, tree, lock>>

SyncWorkspace(p) ==
  /\ run[p].pc = "workspace_sync"
  /\ workspace' = Sync(workspace)
  /\ Goto(p, "build")
  /\ UNCHANGED <<journal, config, experiments, marker, lock>>

(* publish_marker: temporary file, bytes, fsync, link, fsync, unlink, fsync. *)
MarkerStep(p, at, next, new) ==
  /\ run[p].pc = at
  /\ marker' = new
  /\ Goto(p, next)
  /\ UNCHANGED <<journal, config, experiments, workspace, lock>>

WithTemp(t) == Put(marker, [marker.now EXCEPT !.temp = t])

CreateMarkerTemp(p) == PrefixLength = 3 /\ MarkerStep(p, "build", "marker_write", WithTemp(Torn))

(* write and fsync of the file: whole from here on, wherever its name is. *)
WriteMarker(p) ==
  LET Whole(c) == [c EXCEPT !.temp = IF @ = Torn THEN run[p].plan ELSE @]
  IN MarkerStep(p, "marker_write", "marker_link",
                [now |-> Whole(marker.now), disk |-> {Whole(c) : c \in marker.disk}])

LinkMarker(p) ==
  MarkerStep(p, "marker_link", "marker_sync",
             Put(marker, [marker.now EXCEPT !.final = run[p].plan]))
SyncMarker(p) == MarkerStep(p, "marker_sync", "marker_unlink", Sync(marker))
UnlinkMarkerTemp(p) == MarkerStep(p, "marker_unlink", "marker_unlink_sync", WithTemp(NoPlan))
SyncMarkerUnlinkForgotten(p) ==  \* mutant
  MarkerStep(p, "marker_unlink_sync", "build", marker)
SyncMarkerUnlink(p) == MarkerStep(p, "marker_unlink_sync", "build", Sync(marker))

BuiltEarly(p) ==  \* mutant: the marker is not waited for
  /\ run[p].pc = "build"
  /\ Strict(run[p].plan) /\ PrefixLength >= 3
  /\ Write(p, "applied")
  /\ UNCHANGED <<journal, tree, lock>>

Built(p) ==
  /\ run[p].pc = "build"
  /\ Strict(run[p].plan) /\ PrefixLength = 4
  /\ Write(p, "applied")
  /\ UNCHANGED <<journal, tree, lock>>

------------------------------------------------------------------------------
(* rollback(): take away what is there, the marker first. *)

(* Mutant: the marker goes after the workspace it authorizes. *)
RemoveMarkerLate(p) ==
  /\ run[p].pc = "remove" /\ PrefixLength = 4
  /\ workspace' = Put(workspace, "absent")
  /\ Goto(p, "remove_sync")
  /\ UNCHANGED <<journal, config, experiments, marker, lock>>

RemoveLast(p) ==
  /\ run[p].pc = "remove" /\ PrefixLength > 0
  /\ CASE PrefixLength = 4 -> /\ marker' = Put(marker, NoMarker)
                             /\ UNCHANGED <<config, experiments, workspace>>
       [] PrefixLength = 3 -> /\ workspace' = Put(workspace, "absent")
                             /\ UNCHANGED <<config, experiments, marker>>
       [] PrefixLength = 2 -> /\ experiments' = Put(experiments, "absent")
                             /\ UNCHANGED <<config, workspace, marker>>
       [] PrefixLength = 1 -> /\ config' = Put(config, "absent")
                             /\ UNCHANGED <<experiments, workspace, marker>>
  /\ Goto(p, "remove_sync")
  /\ UNCHANGED <<journal, lock>>

SyncRemovedForgotten(p) ==  \* mutant
  run[p].pc = "remove_sync" /\ Goto(p, "remove") /\ UNCHANGED <<journal, tree, lock>>

(* remove_marker and remove_directory sync the parent of what they removed. *)
SyncRemoved(p) ==
  /\ run[p].pc = "remove_sync"
  /\ marker' = IF PrefixLength = 3 THEN Sync(marker) ELSE marker
  /\ workspace' = IF PrefixLength = 2 THEN Sync(workspace) ELSE workspace
  /\ experiments' = IF PrefixLength = 1 THEN Sync(experiments) ELSE experiments
  /\ config' = IF PrefixLength = 0 THEN Sync(config) ELSE config
  /\ Goto(p, "remove")
  /\ UNCHANGED <<journal, lock>>

Removed(p) ==
  /\ run[p].pc = "remove" /\ PrefixLength = 0
  /\ Write(p, "rolled_back")
  /\ UNCHANGED <<journal, tree, lock>>

------------------------------------------------------------------------------
(* What goes wrong. *)

(* refuse_production raises: at the start, before a resumed execute() or a
   rollback() changes anything, and before the transitions that are followed
   by a mutation or by authorization. *)
Refuse(p) ==
  /\ "refuse" \in faults
  /\ \/ run[p].pc \in {"examine", "resume"}
     \/ PrefixExact(p, "rollback")
     \/ /\ run[p].pc = "record"
        /\ \/ run[p].goal \in {"applying", "validated", "rolling_back"}
           \/ run[p].goal = "failed" /\ run[p].op = "rollback"
  /\ Leave(p)
  /\ UNCHANGED <<journal, tree>>

(* A system call raises.  publish_marker's handler unlinks and syncs as far
   as it gets; journal.py's may fail to remove a half-written temporary. *)
Error(p) ==
  /\ "error" \in faults
  /\ run[p].pc # "idle"
  /\ \/ UNCHANGED <<journal, marker>>
     \/ /\ run[p].pc \in Publishing
        /\ marker' \in {WithTemp(NoPlan), Sync(WithTemp(NoPlan))}
        /\ UNCHANGED journal
     \/ /\ run[p].pc \in {"create", "record"}
        /\ J!Interrupt
        /\ UNCHANGED marker
  /\ Raise(p)
  /\ UNCHANGED <<config, experiments, workspace>>

Kill(p) ==
  /\ "kill" \in faults
  /\ run[p].pc # "idle"
  /\ \/ UNCHANGED journal
     \/ run[p].pc \in {"create", "record"} /\ J!Interrupt
  /\ Leave(p)
  /\ UNCHANGED tree

(* Every process dies; each directory is what had reached the disk, and the
   contents of a directory that is not there are gone with it. *)
PowerLoss ==
  /\ "power" \in faults
  /\ J!Lose
  /\ stateRoot' \in AfterLoss(stateRoot)
  /\ journalRoot' \in
       IF stateRoot'.now = "absent" THEN {Fresh("absent")} ELSE AfterLoss(journalRoot)
  /\ config' \in AfterLoss(config)
  /\ marker' \in IF config'.now = "absent" THEN {Fresh(NoMarker)} ELSE AfterLoss(marker)
  /\ experiments' \in
       IF stateRoot'.now = "absent" THEN {Fresh("absent")} ELSE AfterLoss(experiments)
  /\ workspace' \in IF experiments'.now = "absent" THEN {Fresh("absent")} ELSE AfterLoss(workspace)
  /\ lock' = [ex |-> Nobody, sh |-> {}]
  /\ run' = [p \in Procs |-> Idle]

------------------------------------------------------------------------------
Init ==
  /\ J!Init
  /\ stateRoot = Fresh("absent")
  /\ journalRoot = Fresh("absent")
  /\ config = Fresh("absent")
  /\ experiments = Fresh("absent")
  /\ workspace = Fresh("absent")
  /\ marker = Fresh(NoMarker)
  /\ lock = [ex |-> Nobody, sh |-> {}]
  /\ run = [p \in Procs |-> Idle]
  /\ faults \in FaultModels

Start(p) ==
  /\ \E plan \in Plans : BeginExecute(p, plan) \/ BeginRollback(p, plan) \/ BeginObserve(p, plan)
  /\ UNCHANGED roots

AllocateRoots(p) ==
  \/ StateRootAbsent(p) \/ MakeStateRoot(p) \/ SetStateMode(p) \/ SyncStateRoot(p)
  \/ StateRootExact(p) \/ RepairStateRoot(p) \/ RepairStateSync(p)
  \/ JournalRootPresent(p) \/ JournalRootAbsent(p) \/ MakeJournalRoot(p) \/ SyncJournalRoot(p)
  \/ AllocateReject(p) \/ SyncRoots(p) \/ Enter(p) \/ EnterBusy(p)

Execute(p) ==
  \/ EndExecute(p) \/ StartCreate(p) \/ CreateRecord(p) \/ CreateSync(p)
  \/ StartApplying(p) \/ ResumeApplying(p) \/ ResumeApplied(p)
  \/ ExecutePrefix(p) \/ SyncPrefix(p) \/ Resume(p) \/ RecoverPrefix(p)
  \/ MakeConfig(p) \/ SetConfigMode(p) \/ SyncConfig(p)
  \/ MakeExperiments(p) \/ SyncExperiments(p)
  \/ MakeWorkspace(p) \/ SyncWorkspace(p)
  \/ CreateMarkerTemp(p) \/ WriteMarker(p) \/ LinkMarker(p) \/ SyncMarker(p)
  \/ UnlinkMarkerTemp(p) \/ SyncMarkerUnlink(p)
  \/ Built(p) \/ RecordedApplying(p) \/ RecordedApplied(p)

Rollback(p) ==
  \/ RollbackStart(p) \/ EndRollback(p) \/ RollbackPrefix(p) \/ EndRolledBack(p)
  \/ RecordedFailed(p) \/ RecordedRollingBack(p)
  \/ RemoveLast(p) \/ SyncRemoved(p) \/ Removed(p)

Shared(p) ==
  \/ RemoveResidue(p) \/ SyncResidue(p) \/ NoResidue(p)
  \/ RepairMode(p) \/ RepairSync(p) \/ PrefixReject(p)
  \/ Advance(p) \/ AdvanceReject(p) \/ RecordedLast(p)

Step(p) ==
  \/ AllocateRoots(p)
  \/ (Execute(p) \/ Rollback(p) \/ Shared(p) \/ EndObserve(p)) /\ UNCHANGED roots

Fault(p) == (Refuse(p) \/ Error(p) \/ Kill(p)) /\ UNCHANGED roots

Next ==
  /\ \/ \E p \in Procs : Start(p) \/ Step(p) \/ Fault(p)
     \/ PowerLoss
  /\ UNCHANGED faults

Spec == Init /\ [][Next]_<<vars, faults>>

------------------------------------------------------------------------------
(* Properties. *)

TypeOK ==
  /\ faults \in FaultModels
  /\ rec \in Records \cup {NoRecord}
  /\ floor \in Records \cup {NoRecord}
  /\ blocked \in BOOLEAN
  /\ stateRoot \in DirOf(Modes) /\ journalRoot \in DirOf(Presence)
  /\ config \in DirOf(Modes)
  /\ experiments \in DirOf(Presence)
  /\ workspace \in DirOf(Presence)
  /\ marker \in DirOf(Contents)
  /\ lock \in [ex : Procs \cup {Nobody}, sh : SUBSET Procs]
  /\ run \in [Procs -> [pc : PCs, op : Ops, plan : Markers, goal : States]]

(* The flock is held from before the first read of the journal until after the
   last fsync: no execute(), rollback() or observe() overlaps another that
   mutates, whatever was killed in between ("durable state, not the lock,
   determines recovery"). *)
OneMutator ==
  \A p \in Procs :
    run[p].pc \notin {"idle"} \cup Allocating =>
      IF run[p].op = "observe" THEN lock.ex = Nobody ELSE lock.ex = p

(* A record is there only inside directories that a power failure leaves,
   whichever of two first executes made them and however far it got: nothing
   acknowledged can vanish with its directory. *)
RecordHasRoots ==
  rec # NoRecord => stateRoot.disk = {"exact"} /\ journalRoot.disk = {"present"}

(* _allocate_roots can always start again: a state root whose mode was never
   set, which is repaired only while it is empty, never holds a journal root,
   whatever a power failure leaves of the two. *)
RootsNeverStranded ==
  "provisional" \in stateRoot.disk => "present" \notin journalRoot.disk

(* Both: a power failure between any two steps of two racing first executes
   neither loses a record nor leaves roots nobody can complete. *)
RootsSurvive == RecordHasRoots /\ RootsNeverStranded

(* Write-ahead: no resource is there, and none could come back after a power
   failure, unless the journal says it may: "no managed resource may be created
   before the journal is durable in planned state", and rolled_back means that
   what execute() created is gone. *)
Untouched == PrefixLength = 0 /\ marker.now = NoMarker
WriteAhead == State \in {"none", "planned", "rolled_back"} => Untouched

(* A marker, or the residue of one, belongs to the plan in the journal, and
   stands only on the three directories it authorizes work in: publish_marker
   comes last, remove_marker first. *)
MarkerIsLast ==
  /\ marker.now.final # NoPlan \/ marker.now.temp # NoPlan =>
       /\ State \notin {"none", "planned", "rolled_back"}
       /\ config.now = "exact" /\ Present[2] /\ Present[3]
  /\ {marker.now.final, marker.now.temp} \subseteq {NoPlan, Torn, rec.plan}

(* applied and validated authorize later stages: all four resources are exact
   whenever a reader, after any crash, finds the journal in one of them. *)
AuthorizedIsComplete ==
  State \in {"applied", "validated"} => Strict(rec.plan) /\ PrefixLength = 4

(* rollback() can always go on from what is there when nobody is at work: no
   crash, error or refusal strands an installation.  The exception is a torn
   temporary file, which the code refuses to remove. *)
RollbackCanStart(plan) ==
  /\ Usable(plan)
  /\ \/ Strict(plan)
     \/ State = "applying" /\ Repairable
     \/ /\ State \in {"applying", "rolling_back"}
        /\ marker.now.temp = plan /\ config.now = "exact"
        /\ IsPrefixShaped /\ marker.now.final \in {NoPlan, plan}
NeverStranded ==
  /\ lock.ex = Nobody
  /\ rec # NoRecord /\ ~blocked /\ marker.now.temp # Torn
  => RollbackCanStart(rec.plan)

(* Once the journal is failed, rolling_back or rolled_back, no step but a power
   failure brings a resource back: rollback() and the refusals of execute() only
   take away. *)
Revoked == State \in {"failed", "rolling_back", "rolled_back"}
OnlyTakenAway ==
  [][Revoked /\ ~PowerLoss => \A i \in 1..4 : Present[i]' => Present[i]]_vars

(* The crash table of docs/research/ovh-stage05-marker-contract.md, row by
   row, under failures that come one after the other. *)

(* "`planned` | No managed resources": what a reader finds after any crash of an
   execute() that had not durably entered applying. *)
PlannedMeansNothingThere == State = "planned" => Untouched

(* "`rolled_back` | Managed resources absent; journal retained": what a reader
   finds after any crash of rollback(). *)
RolledBackMeansNothingThere == State = "rolled_back" => Untouched

(* "`failed` | One recognized stable resource prefix": what rollback() finds
   after _record_failed_if_stable. *)
FailedMeansStable == State = "failed" /\ ~blocked => Strict(rec.plan)

==============================================================================

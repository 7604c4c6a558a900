---------------------------- MODULE Stage10Proofs ----------------------------
(***************************************************************************)
(* What a Stage 10 report promises, for any number of processes, resolvers *)
(* and changes of the host, and whatever goes wrong with the Stage 05      *)
(* operations around it: the installation stayed authorized, and what the  *)
(* report says was all true at one instant.                                *)
(*                                                                         *)
(* The invariant extends the one of Stage05: a resolver is a reader of the *)
(* journal, so no mutator moves what it depends on; and what it has read   *)
(* so far is bracketed between the versions of its audit and those of now, *)
(* which the second reading then closes.                                   *)
(***************************************************************************)
EXTENDS Stage10, Stage05Proofs

------------------------------------------------------------------------------
(* Where a resolver is: the steps from the one named on. *)

FromAuthorize == {"authorize", "report"}
FromIdentity == {"identity"} \cup FromAuthorize
FromAuditPost == {"audit_post"} \cup FromIdentity
FromRecheckStatus == {"recheck_status"} \cup FromAuditPost
FromRecheckExtended == {"recheck_extended"} \cup FromRecheckStatus
FromRecheckSources == {"recheck_sources"} \cup FromRecheckExtended
FromMarks == {"marks"} \cup FromRecheckSources
FromSimulateAgain == {"simulate_again"} \cup FromMarks
FromSimulate == {"simulate"} \cup FromSimulateAgain
FromPolicy == {"policy"} \cup FromSimulate
FromQuery == {"query"} \cup FromPolicy
FromAudit == {"audit"} \cup FromQuery
FromStatus == {"status"} \cup FromAudit
FromExtended == {"extended"} \cup FromStatus
FromSources == {"sources"} \cup FromExtended
Places == {"lock"} \cup FromSources

Locks == {"frontend", "dpkg", "lists", "archives"}
Versions == [Changeable -> Nat]
Reports ==
  [at : Places, held : 0..4, lost : SUBSET Locks, sources : Nat, extended : Nat, status : Nat,
   packages : Nat, candidates : Nat, actions : Nat \X Nat, marks : Nat, audited : Versions]
Managers == {"idle", "dpkg", "lists"}

ResolverTypeOK ==
  /\ host \in [version : Versions, manager : Managers]
  /\ res \in [Procs -> Reports]

(* Who does not resolve has read nothing; who does holds the four locks until its
   last look at the authorization, and no package manager needs a lock that is
   held and still the one in the file system. *)
HeldOK(r) ==
  /\ r.at = "lock" => r.held < 4
  /\ r.at \in FromSources \ {"report"} => r.held = 4
  /\ r.at = "report" => r.held = 0
PackagesOK ==
  /\ \A p \in Procs : run[p].pc # "resolve" => res[p] = Nothing
  /\ \A p \in Procs : HeldOK(res[p])
  /\ \A l \in Needs[host.manager] : Holding(l) = {}

(* What was read, against the versions v of now. *)
Between(low, x, high) == low <= x /\ x <= high
ReadOK(r, v) ==
  /\ r.at \in FromExtended => r.sources <= v["sources"]
  /\ r.at \in FromStatus => r.extended <= v["extended"]
  /\ r.at \in FromAudit => r.status <= v["status"]
  /\ r.at \in FromQuery => /\ Between(r.sources, r.audited["sources"], v["sources"])
                           /\ Between(r.extended, r.audited["extended"], v["extended"])
                           /\ Between(r.status, r.audited["status"], v["status"])
  /\ r.at \in FromPolicy => Between(r.audited["status"], r.packages, v["status"])
  /\ r.at \in FromSimulateAgain => Between(r.packages, r.actions[1], v["status"])
  /\ r.at \in FromRecheckSources => Between(r.audited["extended"], r.marks, v["extended"])
CacheOK(r, v) ==
  /\ r.at = "simulate" /\ r.lost = {} => r.candidates = v["lists"]
  /\ r.at \in FromSimulateAgain /\ (r.lost = {} \/ r.at \in FromAuthorize) => r.candidates = r.actions[2]
AgainOK(r) ==
  /\ r.at \in FromRecheckExtended => r.sources = r.audited["sources"]
  /\ r.at \in FromRecheckStatus => r.extended = r.audited["extended"] /\ r.marks = r.extended
  /\ r.at \in FromAuditPost =>
       r.status = r.audited["status"] /\ r.packages = r.status /\ r.actions[1] = r.status

InstantOK == \A p \in Procs :
  ReadOK(res[p], host.version) /\ CacheOK(res[p], host.version) /\ AgainOK(res[p])

ResolverInv == IInv /\ AuthorizedThroughout /\ ResolverTypeOK /\ PackagesOK /\ InstantOK

------------------------------------------------------------------------------
(* What the steps of Stage 05 leave alone. *)

(* Where a step of Stage 05 may take a process: never into the resolver. *)
Moves(q) ==
  \/ \E pc \in PCs \ {"resolve"} : Goto(q, pc)
  \/ \E goal \in States : Write(q, goal)
  \/ Leave(q)
  \/ run' = [run EXCEPT ![q].op = "recover", ![q].pc = "residue"]
  \/ \E r \in [pc : PCs \ {"resolve"}, op : Ops, plan : Plans, goal : States] : run' = [run EXCEPT ![q] = r]

LEMMA ExecuteMoves == ASSUME NEW q \in Procs, Execute(q) PROVE Moves(q)
<1>1. {"roots_sync", "create_sync", "residue", "sync", "resume", "build", "examine"} \subseteq PCs \ {"resolve"}
  BY DEF PCs, Building
<1>2. {"config_mode", "config_sync", "experiments_sync", "workspace_sync", "marker_write", "marker_link",
       "marker_sync", "marker_unlink", "marker_unlink_sync"} \subseteq PCs \ {"resolve"}
  BY DEF PCs, Building, Publishing
<1>3. {"applying", "validated", "applied", "failed"} \subseteq States
  BY DEF States
<1>4. CASE \/ EndExecute(q) \/ StartCreate(q) \/ CreateRecord(q) \/ CreateSync(q)
           \/ StartApplying(q) \/ ResumeApplying(q) \/ ResumeApplied(q)
  BY <1>1, <1>3, <1>4 DEF EndExecute, StartCreate, CreateRecord, CreateSync, StartApplying, ResumeApplying,
     ResumeApplied, Moves
<1>5. CASE \/ ExecutePrefix(q) \/ SyncPrefix(q) \/ Resume(q) \/ RecoverPrefix(q)
           \/ MakeConfig(q) \/ SetConfigMode(q) \/ SyncConfig(q)
  BY <1>1, <1>2, <1>3, <1>5 DEF ExecutePrefix, SyncPrefix, Resume, RecoverPrefix, MakeConfig, SetConfigMode,
     SyncConfig, Moves
<1>6. CASE MakeExperiments(q) \/ SyncExperiments(q) \/ MakeWorkspace(q) \/ SyncWorkspace(q)
  BY <1>1, <1>2, <1>6 DEF MakeExperiments, SyncExperiments, MakeWorkspace, SyncWorkspace, Moves
<1>7. CASE \/ CreateMarkerTemp(q) \/ WriteMarker(q) \/ LinkMarker(q) \/ SyncMarker(q)
           \/ UnlinkMarkerTemp(q) \/ SyncMarkerUnlink(q)
  BY <1>1, <1>2, <1>7 DEF CreateMarkerTemp, WriteMarker, LinkMarker, SyncMarker, UnlinkMarkerTemp,
     SyncMarkerUnlink, MarkerStep, Moves
<1>8. CASE Built(q) \/ RecordedApplying(q) \/ RecordedApplied(q)
  BY <1>1, <1>3, <1>8 DEF Built, RecordedApplying, RecordedApplied, Moves
<1>9. QED BY <1>4, <1>5, <1>6, <1>7, <1>8 DEF Execute

LEMMA RollbackMoves == ASSUME NEW q \in Procs, Rollback(q) \/ Shared(q) \/ EndObserve(q) PROVE Moves(q)
<1>1. {"residue", "prefix", "remove", "remove_sync", "residue_sync", "repair_sync", "record_sync"}
        \subseteq PCs \ {"resolve"}
  BY DEF PCs
<1>2. {"failed", "rolling_back", "rolled_back"} \subseteq States
  BY DEF States
<1>3. CASE RollbackStart(q)
  BY <1>1, <1>3 DEF RollbackStart, Moves
<1>4. CASE \/ EndRollback(q) \/ RollbackPrefix(q) \/ EndRolledBack(q) \/ RecordedFailed(q)
           \/ RecordedRollingBack(q)
  BY <1>1, <1>2, <1>4 DEF EndRollback, RollbackPrefix, EndRolledBack, RecordedFailed, RecordedRollingBack, Moves
<1>5. CASE RemoveLast(q) \/ SyncRemoved(q) \/ Removed(q) \/ EndObserve(q)
  BY <1>1, <1>2, <1>5 DEF RemoveLast, SyncRemoved, Removed, EndObserve, Moves
<1>6. CASE RemoveResidue(q) \/ SyncResidue(q) \/ NoResidue(q) \/ RepairMode(q) \/ RepairSync(q)
  BY <1>1, <1>6 DEF RemoveResidue, SyncResidue, NoResidue, RepairMode, RepairSync, Moves
<1>7. CASE PrefixReject(q) \/ Advance(q) \/ AdvanceReject(q) \/ RecordedLast(q)
  BY <1>1, <1>7 DEF PrefixReject, Advance, AdvanceReject, RecordedLast, Raise, Moves
<1>8. QED BY <1>3, <1>4, <1>5, <1>6, <1>7 DEF Rollback, Shared

LEMMA AllocateMoves == ASSUME NEW q \in Procs, AllocateRoots(q) PROVE Moves(q)
<1>1. {"state_make", "state_mode", "state_sync", "state_repair_sync", "journal_root", "journal_make",
       "journal_sync", "enter", "create", "examine"} \subseteq PCs \ {"resolve"}
  BY DEF PCs, Allocating
<1>2. CASE \/ StateRootAbsent(q) \/ MakeStateRoot(q) \/ SetStateMode(q) \/ SyncStateRoot(q)
           \/ StateRootExact(q) \/ RepairStateRoot(q) \/ RepairStateSync(q)
  BY <1>1, <1>2 DEF StateRootAbsent, MakeStateRoot, SetStateMode, SyncStateRoot, StateRootExact,
     RepairStateRoot, RepairStateSync, AllocateStep, Moves
<1>3. CASE \/ JournalRootPresent(q) \/ JournalRootAbsent(q) \/ MakeJournalRoot(q) \/ SyncJournalRoot(q)
           \/ AllocateReject(q) \/ SyncRoots(q) \/ Enter(q) \/ EnterBusy(q)
  BY <1>1, <1>3 DEF JournalRootPresent, JournalRootAbsent, MakeJournalRoot, SyncJournalRoot,
     AllocateReject, SyncRoots, Enter, EnterBusy, AllocateStep, Moves
<1>4. QED BY <1>2, <1>3 DEF AllocateRoots

LEMMA OnlyItself ==
  ASSUME IInv, NEW q \in Procs, Start(q) \/ Step(q) \/ Fault(q)
  PROVE  run'[q].pc # "resolve" /\ \A p \in Procs \ {q} : run'[p] = run[p]
<1>1. Moves(q)
  <2>1. CASE Start(q)
    <3>1. PICK plan \in Plans : BeginExecute(q, plan) \/ BeginRollback(q, plan) \/ BeginObserve(q, plan)
      BY <2>1 DEF Start
    <3>2. PICK pc \in {"state_root", "examine"}, op \in {"execute", "rollback", "observe"} :
            run' = [run EXCEPT ![q] = Operation(pc, op, plan)]
      BY <3>1 DEF BeginExecute, BeginRollback, BeginObserve
    <3>3. Operation(pc, op, plan) \in [pc : PCs \ {"resolve"}, op : Ops, plan : Plans, goal : States]
      BY DEF Operation, PCs, Allocating, Ops, States
    <3>4. QED BY <3>2, <3>3 DEF Moves
  <2>2. CASE Step(q)
    BY <2>2, ExecuteMoves, RollbackMoves, AllocateMoves DEF Step
  <2>3. CASE Fault(q)
    BY <2>3 DEF Fault, Refuse, Error, Raise, Kill, Moves
  <2>4. QED BY <2>1, <2>2, <2>3
<1>2. run \in [Procs -> Sessions]
  BY DEF IInv, TypeOK, Sessions
<1>3. QED
  <2>1. CASE \E pc \in PCs \ {"resolve"} : Goto(q, pc)
    BY <1>2, <2>1 DEF Goto, Sessions
  <2>2. CASE \E goal \in States : Write(q, goal)
    BY <1>2, <2>2 DEF Write, Sessions
  <2>3. CASE Leave(q)
    BY <1>2, <2>3 DEF Leave, Idle
  <2>4. CASE run' = [run EXCEPT ![q].op = "recover", ![q].pc = "residue"]
    BY <1>2, <2>4 DEF Sessions
  <2>5. CASE \E r \in [pc : PCs \ {"resolve"}, op : Ops, plan : Plans, goal : States] : run' = [run EXCEPT ![q] = r]
    BY <1>2, <2>5
  <2>6. QED BY <1>1, <2>1, <2>2, <2>3, <2>4, <2>5 DEF Moves

(* A process that is no mutator leaves the journal and the four resources alone. *)
LEMMA Bystander ==
  ASSUME IInv, NEW q \in Procs, ~Mutates(run[q]), Start(q) \/ Step(q) \/ Fault(q)
  PROVE  UNCHANGED <<journal, tree>>
<1>1. /\ run[q].pc \in {"idle", "examine", "resolve"} \cup Allocating
      /\ run[q].pc \in {"examine", "resolve"} => run[q].op = "observe"
  BY DEF IInv, LockOK, SessionOK, Mutates, Allocating
<1>2. CASE Start(q)
  BY <1>2 DEF Start, BeginExecute, BeginRollback, BeginObserve, Allocate
<1>3. CASE AllocateRoots(q)
  <2>1. CASE SyncRoots(q)
    BY <1>1, <2>1 DEF SyncRoots, AllocateStep, Allocating
  <2>2. CASE \/ StateRootAbsent(q) \/ MakeStateRoot(q) \/ SetStateMode(q) \/ SyncStateRoot(q)
             \/ StateRootExact(q) \/ RepairStateRoot(q) \/ RepairStateSync(q)
    BY <2>2 DEF StateRootAbsent, MakeStateRoot, SetStateMode, SyncStateRoot, StateRootExact,
       RepairStateRoot, RepairStateSync, AllocateStep, Allocate
  <2>3. CASE \/ JournalRootPresent(q) \/ JournalRootAbsent(q) \/ MakeJournalRoot(q) \/ SyncJournalRoot(q)
             \/ AllocateReject(q) \/ Enter(q) \/ EnterBusy(q)
    BY <2>3 DEF JournalRootPresent, JournalRootAbsent, MakeJournalRoot, SyncJournalRoot,
       AllocateReject, Enter, EnterBusy, AllocateStep, Allocate
  <2>4. QED BY <1>3, <2>1, <2>2, <2>3 DEF AllocateRoots
<1>4. CASE Execute(q)
  <2>1. CASE \/ EndExecute(q) \/ StartCreate(q) \/ CreateRecord(q) \/ CreateSync(q)
             \/ StartApplying(q) \/ ResumeApplying(q) \/ ResumeApplied(q)
    BY <1>1, <2>1 DEF EndExecute, StartCreate, CreateRecord, CreateSync, StartApplying, ResumeApplying,
       ResumeApplied, Accepted, Examine, Allocating
  <2>2. CASE \/ ExecutePrefix(q) \/ SyncPrefix(q) \/ Resume(q) \/ RecoverPrefix(q)
             \/ MakeConfig(q) \/ SetConfigMode(q) \/ SyncConfig(q)
    BY <1>1, <2>2 DEF ExecutePrefix, SyncPrefix, Resume, RecoverPrefix, MakeConfig, SetConfigMode,
       SyncConfig, PrefixExact, Allocating
  <2>3. CASE MakeExperiments(q) \/ SyncExperiments(q) \/ MakeWorkspace(q) \/ SyncWorkspace(q)
    BY <1>1, <2>3 DEF MakeExperiments, SyncExperiments, MakeWorkspace, SyncWorkspace, Allocating
  <2>4. CASE \/ CreateMarkerTemp(q) \/ WriteMarker(q) \/ LinkMarker(q) \/ SyncMarker(q)
             \/ UnlinkMarkerTemp(q) \/ SyncMarkerUnlink(q)
    BY <1>1, <2>4 DEF CreateMarkerTemp, WriteMarker, LinkMarker, SyncMarker, UnlinkMarkerTemp,
       SyncMarkerUnlink, MarkerStep, Allocating
  <2>5. CASE Built(q) \/ RecordedApplying(q) \/ RecordedApplied(q)
    BY <1>1, <2>5 DEF Built, RecordedApplying, RecordedApplied, Recorded, Allocating
  <2>6. QED BY <1>4, <2>1, <2>2, <2>3, <2>4, <2>5 DEF Execute
<1>5. CASE Rollback(q)
  <2>1. CASE RollbackStart(q) \/ EndRollback(q) \/ RollbackPrefix(q) \/ EndRolledBack(q)
    BY <1>1, <2>1 DEF RollbackStart, EndRollback, RollbackPrefix, EndRolledBack, Examine, PrefixExact, Allocating
  <2>2. CASE RecordedFailed(q) \/ RecordedRollingBack(q) \/ RemoveLast(q) \/ SyncRemoved(q) \/ Removed(q)
    BY <1>1, <2>2 DEF RecordedFailed, RecordedRollingBack, Recorded, RemoveLast, SyncRemoved, Removed, Allocating
  <2>3. QED BY <1>5, <2>1, <2>2 DEF Rollback
<1>6. CASE Shared(q)
  <2>1. CASE RemoveResidue(q) \/ SyncResidue(q) \/ NoResidue(q) \/ RepairMode(q) \/ RepairSync(q)
    BY <1>1, <2>1 DEF RemoveResidue, SyncResidue, NoResidue, RepairMode, RepairSync, Allocating
  <2>2. CASE PrefixReject(q) \/ Advance(q) \/ AdvanceReject(q) \/ RecordedLast(q)
    BY <1>1, <2>2 DEF PrefixReject, Advance, AdvanceReject, RecordedLast, Recorded, Allocating
  <2>3. QED BY <1>6, <2>1, <2>2 DEF Shared
<1>7. CASE EndObserve(q)
  BY <1>7 DEF EndObserve
<1>8. CASE Fault(q)
  BY <1>1, <1>8 DEF Fault, Refuse, Error, Kill, Publishing, Allocating, tree
<1>9. QED BY <1>2, <1>3, <1>4, <1>5, <1>6, <1>7, <1>8 DEF Step

------------------------------------------------------------------------------
(* Authorized throughout. *)

LEMMA StillAuthorized ==
  ASSUME IInv', Authorized, UNCHANGED <<journal, tree>>
  PROVE  Authorized'
<1>1. rec # NoRecord /\ rec' = rec
  BY DEF Authorized, State, journal
<1>2. RootsExact'
  BY <1>1 DEF IInv, RootsOK, RootsExact
<1>3. State' = State /\ PrefixLength' = PrefixLength /\ (Strict(rec.plan) <=> Strict(rec.plan)')
  <2>1. Present' = Present
    BY DEF Present, tree
  <2>2. QED BY <2>1 DEF State, PrefixLength, Strict, IsPrefixShaped, journal, tree
<1>4. QED BY <1>2, <1>3 DEF Authorized

(* A resolver is a reader of the journal. *)
LEMMA ResolverReads ==
  ASSUME IInv, NEW p \in Procs, run[p].pc = "resolve"
  PROVE  /\ run[p].op = "observe" /\ lock.ex = Nobody
         /\ \A q \in Procs : ~Mutates(run[q])
<1>1. Watches(run[p]) /\ run[p].op = "observe"
  <2>1. SessionOK(run[p]) /\ run[p] \in Sessions /\ (Mutates(run[p]) => Knows(run[p], rec))
    BY LockFacts DEF IInv, Informed
  <2>2. ~Mutates(run[p])
    BY <2>1 DEF Knows, KnowsAt
  <2>3. QED BY <2>2 DEF Mutates, Watches, Allocating
<1>2. lock.ex = Nobody
  BY <1>1, LockFacts
<1>3. QED BY <1>1, <1>2, LockFacts, Stage05Assumption

(* No step of Stage 05, and no failure, brings a resolver or moves what it rests on. *)
LEMMA Stage05Keeps ==
  ASSUME IInv, AuthorizedThroughout, Next
  PROVE  /\ IInv' /\ AuthorizedThroughout'
         /\ \A p \in Procs : run'[p].pc = "resolve" => run[p].pc = "resolve"
<1>1. IInv'
  BY NextPreserves
<1>2. CASE PowerLoss
  <2>1. \A p \in Procs : run'[p].pc = "idle"
    BY <1>2 DEF PowerLoss, Idle
  <2>2. QED BY <1>1, <2>1 DEF AuthorizedThroughout
<1>3. CASE \E q \in Procs : Start(q) \/ Step(q) \/ Fault(q)
  <2>1. PICK q \in Procs : Start(q) \/ Step(q) \/ Fault(q)
    BY <1>3
  <2>2. run'[q].pc # "resolve" /\ \A p \in Procs \ {q} : run'[p] = run[p]
    BY <2>1, OnlyItself
  <2>3. ASSUME NEW p \in Procs, run'[p].pc = "resolve"
        PROVE  run[p].pc = "resolve" /\ Authorized' /\ run'[p].plan = rec'.plan
    <3>1. run'[p] = run[p] /\ run[p].pc = "resolve"
      BY <2>2, <2>3
    <3>2. UNCHANGED <<journal, tree>>
      BY <2>1, <3>1, ResolverReads, Bystander
    <3>3. Authorized /\ run[p].plan = rec.plan
      BY <3>1 DEF AuthorizedThroughout
    <3>4. Authorized'
      BY <1>1, <3>2, <3>3, StillAuthorized
    <3>5. rec' = rec
      BY <3>2 DEF journal
    <3>6. QED BY <3>1, <3>3, <3>4, <3>5
  <2>4. QED BY <1>1, <2>3 DEF AuthorizedThroughout
<1>4. QED BY <1>2, <1>3 DEF Next

LEMMA StartResolveKeeps ==
  ASSUME IInv, AuthorizedThroughout, NEW p \in Procs, StartResolve(p)
  PROVE  IInv' /\ AuthorizedThroughout'
<1>1. /\ run[p].pc = "idle" /\ Authorized /\ lock.ex = Nobody
      /\ lock' = [lock EXCEPT !.sh = @ \cup {p}]
      /\ run' = [run EXCEPT ![p] = Operation("resolve", "observe", rec.plan)]
      /\ UNCHANGED <<journal, roots, tree, faults>>
  BY DEF StartResolve
<1>2. rec.plan \in Plans /\ RootsExact
  BY <1>1, RecordFacts DEF Authorized, State, IInv, TypeOK
<1>3. Operation("resolve", "observe", rec.plan) \in Sessions
  BY <1>2 DEF Operation, Sessions, PCs, Ops, Markers, States
<1>4. PICK r \in Sessions :
        run' = [run EXCEPT ![p] = r] /\ r.pc = "resolve" /\ r.op = "observe" /\ r.plan = rec.plan
  BY <1>1, <1>3 DEF Operation
<1>5. SessionOK(r) /\ ~Mutates(r) /\ Watches(r)
  BY <1>2, <1>4 DEF SessionOK, Mutates, Watches, Allocating
<1>6. run'[p] = r /\ \A q \in Procs \ {p} : run'[q] = run[q]
  BY <1>4, LockFacts
<1>7. RootsOK'
  <2>1. AllocatesAt(r.pc)
    BY <1>2, <1>4 DEF AllocatesAt, Allocating, RootsExact
  <2>2. \A q \in Procs : AllocatesAt(run[q].pc)'
    BY <1>1, <1>6, <2>1, RootsFacts DEF AllocatesAt, roots
  <2>3. QED BY <1>1, <2>2, RootsFacts DEF RootsOK, roots, journal
<1>8. /\ lock' \in [ex : Procs \cup {Nobody}, sh : SUBSET Procs]
      /\ lock'.ex = lock.ex /\ lock'.sh = lock.sh \cup {p} /\ lock'.ex # p
  BY <1>1, LockFacts, Stage05Assumption
<1>9. stateRoot' \in DirOf(Modes) /\ journalRoot' \in DirOf(Presence)
  BY <1>1, RootsFacts DEF roots
<1>10. IInv'
  BY <1>1, <1>4, <1>5, <1>7, <1>8, <1>9, LockFacts, Settles
<1>11. Authorized' /\ rec' = rec
  BY <1>1, <1>10, StillAuthorized DEF journal
<1>12. AuthorizedThroughout'
  BY <1>1, <1>4, <1>6, <1>11 DEF AuthorizedThroughout
<1>13. QED BY <1>10, <1>12

LEMMA EndResolveKeeps ==
  ASSUME IInv, AuthorizedThroughout, NEW p \in Procs, EndResolve(p)
  PROVE  /\ IInv' /\ AuthorizedThroughout'
         /\ \A q \in Procs : run'[q].pc = "resolve" => run[q].pc = "resolve"
<1>1. run[p].pc = "resolve" /\ Leave(p) /\ UNCHANGED <<journal, roots, tree, faults>>
  BY DEF EndResolve
<1>2. JournalOK' /\ TreeOK' /\ rec' = rec
  BY <1>1, StillOK
<1>3. IInv'
  BY <1>1, <1>2, Leaves
<1>4. \A q \in Procs : run'[q].pc = "resolve" => run'[q] = run[q]
  BY <1>1, LockFacts DEF Leave, Idle
<1>5. AuthorizedThroughout'
  <2>1. ASSUME NEW q \in Procs, run'[q].pc = "resolve" PROVE Authorized' /\ run'[q].plan = rec'.plan
    BY <1>1, <1>2, <1>3, <1>4, <2>1, StillAuthorized DEF AuthorizedThroughout
  <2>2. QED BY <2>1 DEF AuthorizedThroughout
<1>6. QED BY <1>3, <1>4, <1>5

------------------------------------------------------------------------------
(* What a resolver has read. *)

ReportOK(r, v) == HeldOK(r) /\ ReadOK(r, v) /\ CacheOK(r, v) /\ AgainOK(r)
LockedOf(r) == {PackageLocks[i] : i \in 1..r.held} \ r.lost

LEMMA NothingIs ==
  /\ Nothing \in Reports /\ LockedOf(Nothing) = {} /\ Nothing.at = "lock"
  /\ \A v \in Versions : ReportOK(Nothing, v)
<1>1. Nothing.at = "lock" /\ Nothing.held = 0
  BY DEF Nothing
<1>2. "lock" \in Places /\ "lock" \notin FromSources
  BY DEF Places, FromSources, FromExtended, FromStatus, FromAudit, FromQuery, FromPolicy, FromSimulate,
     FromSimulateAgain, FromMarks, FromRecheckSources, FromRecheckExtended, FromRecheckStatus,
     FromAuditPost, FromIdentity, FromAuthorize
<1>3. [c \in Changeable |-> 0] \in Versions
  BY DEF Versions
<1>4. Nothing \in Reports
  <2>1. <<0, 0>> \in Nat \X Nat /\ 0 \in Nat /\ 0 \in 0..4
    OBVIOUS
  <2>2. QED BY <1>2, <1>3, <2>1 DEF Nothing, Reports, Quiet
<1>5. LockedOf(Nothing) = {}
  BY <1>1 DEF LockedOf
<1>6. ASSUME NEW v \in Versions PROVE ReportOK(Nothing, v)
  BY <1>1, <1>2 DEF ReportOK, HeldOK, ReadOK, CacheOK, AgainOK, FromSources, FromExtended, FromStatus,
     FromAudit, FromQuery, FromPolicy, FromSimulate, FromSimulateAgain, FromMarks, FromRecheckSources,
     FromRecheckExtended, FromRecheckStatus, FromAuditPost, FromIdentity, FromAuthorize
<1>7. QED BY <1>1, <1>4, <1>5, <1>6

(* The parts of the invariant that speak of resolvers, and what they say. *)
ReadingOK == ResolverTypeOK /\ PackagesOK /\ InstantOK

LEMMA ReadingIs ==
  ASSUME ReadingOK
  PROVE  /\ host \in [version : Versions, manager : Managers] /\ res \in [Procs -> Reports]
         /\ host.version \in Versions /\ host.manager \in Managers
         /\ \A p \in Procs : res[p] \in Reports /\ ReportOK(res[p], host.version)
         /\ \A p \in Procs : run[p].pc # "resolve" => res[p] = Nothing
         /\ \A l \in Needs[host.manager], p \in Procs : l \notin LockedOf(res[p])
<1>1. host \in [version : Versions, manager : Managers] /\ res \in [Procs -> Reports]
  BY DEF ReadingOK, ResolverTypeOK
<1>2. host.version \in Versions /\ host.manager \in Managers /\ \A p \in Procs : res[p] \in Reports
  BY <1>1
<1>3. \A p \in Procs : ReportOK(res[p], host.version)
  BY DEF ReadingOK, PackagesOK, InstantOK, ReportOK
<1>4. \A l \in Needs[host.manager], p \in Procs : l \notin LockedOf(res[p])
  BY DEF ReadingOK, PackagesOK, Holding, Locked, LockedOf
<1>5. QED BY <1>1, <1>2, <1>3, <1>4 DEF ReadingOK, PackagesOK

(* And back. *)
LEMMA IsReading ==
  ASSUME host' \in [version : Versions, manager : Managers], res' \in [Procs -> Reports],
         \A p \in Procs : ReportOK(res'[p], host'.version),
         \A p \in Procs : run'[p].pc # "resolve" => res'[p] = Nothing,
         \A l \in Needs[host'.manager], p \in Procs : l \notin LockedOf(res'[p])
  PROVE  ReadingOK'
<1>1. ResolverTypeOK'
  BY DEF ResolverTypeOK
<1>2. InstantOK'
  BY DEF InstantOK, ReportOK
<1>3. \A p \in Procs : HeldOK(res'[p])
  BY DEF ReportOK
<1>4. \A l \in Needs[host'.manager] : Holding(l)' = {}
  BY DEF Holding, Locked, LockedOf
<1>5. PackagesOK'
  BY <1>3, <1>4 DEF PackagesOK
<1>6. QED BY <1>1, <1>2, <1>5 DEF ReadingOK

(* Stage 05 goes on, and resolvers end. *)
LEMMA ForgetKeeps ==
  ASSUME ReadingOK, Forget, \A p \in Procs : run'[p].pc = "resolve" => run[p].pc = "resolve"
  PROVE  ReadingOK'
<1>1. /\ res' = [p \in Procs |-> IF run'[p].pc = "resolve" THEN res[p] ELSE Nothing]
      /\ \/ host' = host
         \/ host' = Quiet /\ \A p \in Procs : run'[p].pc # "resolve"
  BY DEF Forget, Resolving
<1>2. Quiet \in [version : Versions, manager : Managers] /\ Needs[Quiet.manager] = {}
  BY DEF Quiet, Versions, Managers, Needs
<1>3. host' \in [version : Versions, manager : Managers]
  BY <1>1, <1>2, ReadingIs
<1>4. /\ \A p \in Procs : res'[p] = Nothing \/ (res'[p] = res[p] /\ run'[p].pc = "resolve")
      /\ \A p \in Procs : run'[p].pc # "resolve" => res'[p] = Nothing
      /\ res' \in [Procs -> Reports]
  BY <1>1, ReadingIs, NothingIs
<1>5. ASSUME NEW p \in Procs
      PROVE  /\ ReportOK(res'[p], host'.version)
             /\ \A l \in Needs[host'.manager] : l \notin LockedOf(res'[p])
  <2>1. CASE res'[p] = Nothing
    BY <1>3, <2>1, NothingIs
  <2>2. CASE res'[p] = res[p] /\ run'[p].pc = "resolve"
    BY <1>1, <2>2, ReadingIs
  <2>3. QED BY <1>4, <2>1, <2>2
<1>6. QED BY <1>3, <1>4, <1>5, IsReading

(* A resolver takes a step. *)
LEMMA ReadsOn ==
  ASSUME ReadingOK, NEW p \in Procs, UNCHANGED <<stage05, host>>, run[p].pc = "resolve",
         NEW r \in Reports, res' = [res EXCEPT ![p] = r], ReportOK(r, host.version),
         \A l \in Needs[host.manager] : l \notin LockedOf(r)
  PROVE  ReadingOK'
<1>1. res' \in [Procs -> Reports] /\ res'[p] = r /\ \A q \in Procs \ {p} : res'[q] = res[q]
  BY ReadingIs
<1>2. host' = host /\ run' = run
  BY DEF stage05, vars
<1>3. \A q \in Procs : ReportOK(res'[q], host'.version)
  BY <1>1, <1>2, ReadingIs
<1>4. \A l \in Needs[host'.manager], q \in Procs : l \notin LockedOf(res'[q])
  BY <1>1, <1>2, ReadingIs
<1>5. QED BY <1>1, <1>2, <1>3, <1>4, ReadingIs, IsReading

(* The steps of the resolver, on the report old read so far and the versions v of
   now: what it has read then is as good, and no lock is taken. *)
Reads(old, r, v) == r \in Reports /\ ReportOK(r, v) /\ LockedOf(r) \subseteq LockedOf(old)

LEMMA ReadsWell ==
  ASSUME NEW old \in Reports, NEW v \in Versions, ReportOK(old, v), NEW r
  PROVE
    /\ old.at = "sources" /\ r = [old EXCEPT !.at = "extended", !.sources = v["sources"]] => Reads(old, r, v)
    /\ old.at = "extended" /\ r = [old EXCEPT !.at = "status", !.extended = v["extended"]] => Reads(old, r, v)
    /\ old.at = "status" /\ r = [old EXCEPT !.at = "audit", !.status = v["status"]] => Reads(old, r, v)
    /\ old.at = "audit" /\ r = [old EXCEPT !.at = "query", !.audited = v] => Reads(old, r, v)
    /\ old.at = "query" /\ r = [old EXCEPT !.at = "policy", !.packages = v["status"]] => Reads(old, r, v)
    /\ old.at = "policy" /\ r = [old EXCEPT !.at = "simulate", !.candidates = v["lists"]] => Reads(old, r, v)
    /\ old.at = "simulate" /\ r = [old EXCEPT !.at = "simulate_again", !.actions = <<v["status"], v["lists"]>>] => Reads(old, r, v)
    /\ old.at = "simulate_again" /\ r = [old EXCEPT !.at = "marks"] => Reads(old, r, v)
    /\ old.at = "marks" /\ r = [old EXCEPT !.at = "recheck_sources", !.marks = v["extended"]] => Reads(old, r, v)
    /\ old.at = "recheck_sources" /\ old.sources = v["sources"] /\ r = [old EXCEPT !.at = "recheck_extended"] => Reads(old, r, v)
    /\ old.at = "recheck_extended" /\ old.extended = v["extended"] /\ r = [old EXCEPT !.at = "recheck_status"] => Reads(old, r, v)
    /\ old.at = "recheck_status" /\ old.status = v["status"] /\ r = [old EXCEPT !.at = "audit_post"] => Reads(old, r, v)
    /\ old.at = "audit_post" /\ r = [old EXCEPT !.at = "identity"] => Reads(old, r, v)
    /\ old.at = "identity" /\ old.lost = {} /\ r = [old EXCEPT !.at = "authorize"] => Reads(old, r, v)
    /\ old.at = "authorize" /\ r = [old EXCEPT !.at = "report", !.held = 0] => Reads(old, r, v)
<1> USE DEF FromSources, FromExtended, FromStatus, FromAudit, FromQuery, FromPolicy, FromSimulate,
     FromSimulateAgain, FromMarks, FromRecheckSources, FromRecheckExtended, FromRecheckStatus,
     FromAuditPost, FromIdentity, FromAuthorize
<1> USE DEF Reports, Between, ReportOK, HeldOK, ReadOK, CacheOK, AgainOK
<1>a. v["sources"] \in Nat /\ v["extended"] \in Nat /\ v["status"] \in Nat /\ v["lists"] \in Nat
  BY DEF Versions, Changeable
<1>b. /\ old.audited["sources"] \in Nat /\ old.audited["extended"] \in Nat /\ old.audited["status"] \in Nat
      /\ old.actions[1] \in Nat /\ old.actions[2] \in Nat /\ 0 \in 0..4
  BY DEF Versions, Changeable
<1>1. ASSUME old.at = "sources", r = [old EXCEPT !.at = "extended", !.sources = v["sources"]]
       PROVE  Reads(old, r, v)
  <2>1. r \in Reports
    BY <1>a, <1>b, <1>1 DEF Places
  <2>2. ReportOK(r, v)
    BY <1>a, <1>b, <1>1, <2>1
  <2>3. LockedOf(r) \subseteq LockedOf(old)
    BY <1>1 DEF LockedOf
  <2>4. QED BY <2>1, <2>2, <2>3 DEF Reads
<1>2. ASSUME old.at = "extended", r = [old EXCEPT !.at = "status", !.extended = v["extended"]]
       PROVE  Reads(old, r, v)
  <2>1. r \in Reports
    BY <1>a, <1>b, <1>2 DEF Places
  <2>2. ReportOK(r, v)
    BY <1>a, <1>b, <1>2, <2>1
  <2>3. LockedOf(r) \subseteq LockedOf(old)
    BY <1>2 DEF LockedOf
  <2>4. QED BY <2>1, <2>2, <2>3 DEF Reads
<1>3. ASSUME old.at = "status", r = [old EXCEPT !.at = "audit", !.status = v["status"]]
       PROVE  Reads(old, r, v)
  <2>1. r \in Reports
    BY <1>a, <1>b, <1>3 DEF Places
  <2>2. ReportOK(r, v)
    BY <1>a, <1>b, <1>3, <2>1
  <2>3. LockedOf(r) \subseteq LockedOf(old)
    BY <1>3 DEF LockedOf
  <2>4. QED BY <2>1, <2>2, <2>3 DEF Reads
<1>4. ASSUME old.at = "audit", r = [old EXCEPT !.at = "query", !.audited = v]
       PROVE  Reads(old, r, v)
  <2>1. r \in Reports
    BY <1>a, <1>b, <1>4 DEF Places
  <2>2. ReportOK(r, v)
    BY <1>a, <1>b, <1>4, <2>1
  <2>3. LockedOf(r) \subseteq LockedOf(old)
    BY <1>4 DEF LockedOf
  <2>4. QED BY <2>1, <2>2, <2>3 DEF Reads
<1>5. ASSUME old.at = "query", r = [old EXCEPT !.at = "policy", !.packages = v["status"]]
       PROVE  Reads(old, r, v)
  <2>1. r \in Reports
    BY <1>a, <1>b, <1>5 DEF Places
  <2>2. ReportOK(r, v)
    BY <1>a, <1>b, <1>5, <2>1
  <2>3. LockedOf(r) \subseteq LockedOf(old)
    BY <1>5 DEF LockedOf
  <2>4. QED BY <2>1, <2>2, <2>3 DEF Reads
<1>6. ASSUME old.at = "policy", r = [old EXCEPT !.at = "simulate", !.candidates = v["lists"]]
       PROVE  Reads(old, r, v)
  <2>1. r \in Reports
    BY <1>a, <1>b, <1>6 DEF Places
  <2>2. ReportOK(r, v)
    BY <1>a, <1>b, <1>6, <2>1
  <2>3. LockedOf(r) \subseteq LockedOf(old)
    BY <1>6 DEF LockedOf
  <2>4. QED BY <2>1, <2>2, <2>3 DEF Reads
<1>7. ASSUME old.at = "simulate", r = [old EXCEPT !.at = "simulate_again", !.actions = <<v["status"], v["lists"]>>]
       PROVE  Reads(old, r, v)
  <2>1. r \in Reports
    BY <1>a, <1>b, <1>7 DEF Places
  <2>2. ReportOK(r, v)
    BY <1>a, <1>b, <1>7, <2>1
  <2>3. LockedOf(r) \subseteq LockedOf(old)
    BY <1>7 DEF LockedOf
  <2>4. QED BY <2>1, <2>2, <2>3 DEF Reads
<1>8. ASSUME old.at = "simulate_again", r = [old EXCEPT !.at = "marks"]
       PROVE  Reads(old, r, v)
  <2>1. r \in Reports
    BY <1>a, <1>b, <1>8 DEF Places
  <2>2. ReportOK(r, v)
    BY <1>a, <1>b, <1>8, <2>1
  <2>3. LockedOf(r) \subseteq LockedOf(old)
    BY <1>8 DEF LockedOf
  <2>4. QED BY <2>1, <2>2, <2>3 DEF Reads
<1>9. ASSUME old.at = "marks", r = [old EXCEPT !.at = "recheck_sources", !.marks = v["extended"]]
       PROVE  Reads(old, r, v)
  <2>1. r \in Reports
    BY <1>a, <1>b, <1>9 DEF Places
  <2>2. ReportOK(r, v)
    BY <1>a, <1>b, <1>9, <2>1
  <2>3. LockedOf(r) \subseteq LockedOf(old)
    BY <1>9 DEF LockedOf
  <2>4. QED BY <2>1, <2>2, <2>3 DEF Reads
<1>10. ASSUME old.at = "recheck_sources", old.sources = v["sources"], r = [old EXCEPT !.at = "recheck_extended"]
       PROVE  Reads(old, r, v)
  <2>1. r \in Reports
    BY <1>a, <1>b, <1>10 DEF Places
  <2>2. ReportOK(r, v)
    BY <1>a, <1>b, <1>10, <2>1
  <2>3. LockedOf(r) \subseteq LockedOf(old)
    BY <1>10 DEF LockedOf
  <2>4. QED BY <2>1, <2>2, <2>3 DEF Reads
<1>11. ASSUME old.at = "recheck_extended", old.extended = v["extended"], r = [old EXCEPT !.at = "recheck_status"]
       PROVE  Reads(old, r, v)
  <2>1. r \in Reports
    BY <1>a, <1>b, <1>11 DEF Places
  <2>2. ReportOK(r, v)
    BY <1>a, <1>b, <1>11, <2>1
  <2>3. LockedOf(r) \subseteq LockedOf(old)
    BY <1>11 DEF LockedOf
  <2>4. QED BY <2>1, <2>2, <2>3 DEF Reads
<1>12. ASSUME old.at = "recheck_status", old.status = v["status"], r = [old EXCEPT !.at = "audit_post"]
       PROVE  Reads(old, r, v)
  <2>1. r \in Reports
    BY <1>a, <1>b, <1>12 DEF Places
  <2>2. ReportOK(r, v)
    BY <1>a, <1>b, <1>12, <2>1
  <2>3. LockedOf(r) \subseteq LockedOf(old)
    BY <1>12 DEF LockedOf
  <2>4. QED BY <2>1, <2>2, <2>3 DEF Reads
<1>13. ASSUME old.at = "audit_post", r = [old EXCEPT !.at = "identity"]
       PROVE  Reads(old, r, v)
  <2>1. r \in Reports
    BY <1>a, <1>b, <1>13 DEF Places
  <2>2. ReportOK(r, v)
    BY <1>a, <1>b, <1>13, <2>1
  <2>3. LockedOf(r) \subseteq LockedOf(old)
    BY <1>13 DEF LockedOf
  <2>4. QED BY <2>1, <2>2, <2>3 DEF Reads
<1>14. ASSUME old.at = "identity", old.lost = {}, r = [old EXCEPT !.at = "authorize"]
       PROVE  Reads(old, r, v)
  <2>1. r \in Reports
    BY <1>a, <1>b, <1>14 DEF Places
  <2>2. ReportOK(r, v)
    BY <1>a, <1>b, <1>14, <2>1
  <2>3. LockedOf(r) \subseteq LockedOf(old)
    BY <1>14 DEF LockedOf
  <2>4. QED BY <2>1, <2>2, <2>3 DEF Reads
<1>15. ASSUME old.at = "authorize", r = [old EXCEPT !.at = "report", !.held = 0]
       PROVE  Reads(old, r, v)
  <2>1. r \in Reports
    BY <1>a, <1>b, <1>15 DEF Places
  <2>2. ReportOK(r, v)
    BY <1>a, <1>b, <1>15, <2>1
  <2>3. LockedOf(r) \subseteq LockedOf(old)
    BY <1>15 DEF LockedOf
  <2>4. QED BY <2>1, <2>2, <2>3 DEF Reads
<1> HIDE DEF Reports, ReportOK
<1>16. QED BY <1>1, <1>2, <1>3, <1>4, <1>5, <1>6, <1>7, <1>8, <1>9, <1>10, <1>11, <1>12, <1>13, <1>14, <1>15

LocksOne(old, i, r, v) ==
  r \in Reports /\ ReportOK(r, v) /\ LockedOf(r) \subseteq LockedOf(old) \cup {PackageLocks[i]}

LEMMA LocksWell ==
  ASSUME NEW old \in Reports, NEW v \in Versions, ReportOK(old, v), old.at = "lock", NEW i, i = old.held + 1,
         NEW at, (at = "lock" /\ i # 4) \/ (at = "sources" /\ i = 4),
         NEW r, r = [old EXCEPT !.held = i, !.at = at]
  PROVE  LocksOne(old, i, r, v)
<1>1. old.held < 4 /\ old.held \in 0..4 /\ i = old.held + 1 /\ i \in 0..4
  BY DEF Reports, ReportOK, HeldOK
<1>2. r \in Reports
  BY <1>1 DEF Reports, Places, FromSources
<1>3. r.held = i /\ r.lost = old.lost /\ r.at = at
  BY <1>1 DEF Reports
<1>4. ReportOK(r, v)
  BY <1>1, <1>3 DEF ReportOK, HeldOK, ReadOK, CacheOK, AgainOK, FromSources, FromExtended, FromStatus,
     FromAudit, FromQuery, FromPolicy, FromSimulate, FromSimulateAgain, FromMarks, FromRecheckSources,
     FromRecheckExtended, FromRecheckStatus, FromAuditPost, FromIdentity, FromAuthorize
<1>5. \A j \in 1..r.held : j \in 1..old.held \/ j = i
  BY <1>1, <1>3
<1>6. LockedOf(r) \subseteq LockedOf(old) \cup {PackageLocks[i]}
  BY <1>3, <1>5 DEF LockedOf
<1>7. QED BY <1>2, <1>4, <1>6 DEF LocksOne

LEMMA ResolveKeeps ==
  ASSUME ReadingOK, NEW p \in Procs, Resolve(p)
  PROVE  ReadingOK' /\ UNCHANGED stage05
<1>1. PICK old \in Reports, v \in Versions : old = res[p] /\ v = host.version
  BY ReadingIs
<1>2. ReportOK(old, v) /\ \A l \in Needs[host.manager] : l \notin LockedOf(old)
  BY <1>1, ReadingIs
<1>3. ASSUME NEW r, Reads(old, r, v), Proceed(p, r), run[p].pc = "resolve"
      PROVE  ReadingOK' /\ UNCHANGED stage05
  BY <1>1, <1>2, <1>3, ReadsOn DEF Proceed, Reads
<1>4. CASE LockNext(p)
  <2>1. PICK i : i = old.held + 1
    OBVIOUS
  <2>2. PICK at : at = (IF i = 4 THEN "sources" ELSE "lock")
    OBVIOUS
  <2>3. PICK r : r = [old EXCEPT !.held = i, !.at = at]
    OBVIOUS
  <2>4. /\ run[p].pc = "resolve" /\ old.at = "lock" /\ PackageLocks[i] \notin Needs[host.manager]
        /\ Proceed(p, r)
    BY <1>1, <1>4, <2>1, <2>2, <2>3 DEF LockNext, At
  <2>5. r \in Reports /\ ReportOK(r, v) /\ LockedOf(r) \subseteq LockedOf(old) \cup {PackageLocks[i]}
    <3>1. (at = "lock" /\ i # 4) \/ (at = "sources" /\ i = 4)
      BY <2>2
    <3>2. LocksOne(old, i, r, v)
      BY <1>2, <2>1, <2>3, <2>4, <3>1, LocksWell
    <3>3. QED BY <3>2 DEF LocksOne
  <2>6. \A l \in Needs[host.manager] : l \notin LockedOf(r)
    BY <1>2, <2>4, <2>5
  <2>7. QED BY <1>1, <2>4, <2>5, <2>6, ReadsOn DEF Proceed
<1>5. CASE ReadSources(p)
  <2>1. PICK r : r = [old EXCEPT !.at = "extended", !.sources = v["sources"]]
    OBVIOUS
  <2>2. old.at = "sources" /\ run[p].pc = "resolve" /\ Proceed(p, r)
    BY <1>1, <1>5, <2>1 DEF ReadSources, At, Now, Goto10
  <2>3. QED BY <1>2, <1>3, <2>1, <2>2, ReadsWell
<1>6. CASE ReadExtended(p)
  <2>1. PICK r : r = [old EXCEPT !.at = "status", !.extended = v["extended"]]
    OBVIOUS
  <2>2. old.at = "extended" /\ run[p].pc = "resolve" /\ Proceed(p, r)
    BY <1>1, <1>6, <2>1 DEF ReadExtended, At, Now, Goto10
  <2>3. QED BY <1>2, <1>3, <2>1, <2>2, ReadsWell
<1>7. CASE ReadStatus(p)
  <2>1. PICK r : r = [old EXCEPT !.at = "audit", !.status = v["status"]]
    OBVIOUS
  <2>2. old.at = "status" /\ run[p].pc = "resolve" /\ Proceed(p, r)
    BY <1>1, <1>7, <2>1 DEF ReadStatus, At, Now, Goto10
  <2>3. QED BY <1>2, <1>3, <2>1, <2>2, ReadsWell
<1>8. CASE Audit(p)
  <2>1. PICK r : r = [old EXCEPT !.at = "query", !.audited = v]
    OBVIOUS
  <2>2. old.at = "audit" /\ run[p].pc = "resolve" /\ Proceed(p, r)
    BY <1>1, <1>8, <2>1 DEF Audit, At, Now, Goto10
  <2>3. QED BY <1>2, <1>3, <2>1, <2>2, ReadsWell
<1>9. CASE Query(p)
  <2>1. PICK r : r = [old EXCEPT !.at = "policy", !.packages = v["status"]]
    OBVIOUS
  <2>2. old.at = "query" /\ run[p].pc = "resolve" /\ Proceed(p, r)
    BY <1>1, <1>9, <2>1 DEF Query, At, Now, Goto10
  <2>3. QED BY <1>2, <1>3, <2>1, <2>2, ReadsWell
<1>10. CASE Policy(p)
  <2>1. PICK r : r = [old EXCEPT !.at = "simulate", !.candidates = v["lists"]]
    OBVIOUS
  <2>2. old.at = "policy" /\ run[p].pc = "resolve" /\ Proceed(p, r)
    BY <1>1, <1>10, <2>1 DEF Policy, At, Now, Goto10
  <2>3. QED BY <1>2, <1>3, <2>1, <2>2, ReadsWell
<1>11. CASE Simulate(p)
  <2>1. PICK r : r = [old EXCEPT !.at = "simulate_again", !.actions = <<v["status"], v["lists"]>>]
    OBVIOUS
  <2>2. old.at = "simulate" /\ run[p].pc = "resolve" /\ Proceed(p, r)
    BY <1>1, <1>11, <2>1 DEF Simulate, At, Now, Goto10
  <2>3. QED BY <1>2, <1>3, <2>1, <2>2, ReadsWell
<1>12. CASE SimulateAgain(p)
  <2>1. PICK r : r = [old EXCEPT !.at = "marks"]
    OBVIOUS
  <2>2. old.at = "simulate_again" /\ run[p].pc = "resolve" /\ Proceed(p, r)
    BY <1>1, <1>12, <2>1 DEF SimulateAgain, At, Now, Goto10
  <2>3. QED BY <1>2, <1>3, <2>1, <2>2, ReadsWell
<1>13. CASE Marks(p)
  <2>1. PICK r : r = [old EXCEPT !.at = "recheck_sources", !.marks = v["extended"]]
    OBVIOUS
  <2>2. old.at = "marks" /\ run[p].pc = "resolve" /\ Proceed(p, r)
    BY <1>1, <1>13, <2>1 DEF Marks, At, Now, Goto10
  <2>3. QED BY <1>2, <1>3, <2>1, <2>2, ReadsWell
<1>14. CASE RecheckSources(p)
  <2>1. PICK r : r = [old EXCEPT !.at = "recheck_extended"]
    OBVIOUS
  <2>2. old.at = "recheck_sources" /\ old.sources = v["sources"] /\ run[p].pc = "resolve" /\ Proceed(p, r)
    BY <1>1, <1>14, <2>1 DEF RecheckSources, At, Now, Goto10
  <2>3. QED BY <1>2, <1>3, <2>1, <2>2, ReadsWell
<1>15. CASE RecheckExtended(p)
  <2>1. PICK r : r = [old EXCEPT !.at = "recheck_status"]
    OBVIOUS
  <2>2. old.at = "recheck_extended" /\ old.extended = v["extended"] /\ run[p].pc = "resolve" /\ Proceed(p, r)
    BY <1>1, <1>15, <2>1 DEF RecheckExtended, At, Now, Goto10
  <2>3. QED BY <1>2, <1>3, <2>1, <2>2, ReadsWell
<1>16. CASE RecheckStatus(p)
  <2>1. PICK r : r = [old EXCEPT !.at = "audit_post"]
    OBVIOUS
  <2>2. old.at = "recheck_status" /\ old.status = v["status"] /\ run[p].pc = "resolve" /\ Proceed(p, r)
    BY <1>1, <1>16, <2>1 DEF RecheckStatus, At, Now, Goto10
  <2>3. QED BY <1>2, <1>3, <2>1, <2>2, ReadsWell
<1>17. CASE AuditPost(p)
  <2>1. PICK r : r = [old EXCEPT !.at = "identity"]
    OBVIOUS
  <2>2. old.at = "audit_post" /\ run[p].pc = "resolve" /\ Proceed(p, r)
    BY <1>1, <1>17, <2>1 DEF AuditPost, At, Now, Goto10
  <2>3. QED BY <1>2, <1>3, <2>1, <2>2, ReadsWell
<1>18. CASE Identity(p)
  <2>1. PICK r : r = [old EXCEPT !.at = "authorize"]
    OBVIOUS
  <2>2. old.at = "identity" /\ old.lost = {} /\ run[p].pc = "resolve" /\ Proceed(p, r)
    BY <1>1, <1>18, <2>1 DEF Identity, At, Now, Goto10
  <2>3. QED BY <1>2, <1>3, <2>1, <2>2, ReadsWell
<1>19. CASE Authorize(p)
  <2>1. PICK r : r = [old EXCEPT !.at = "report", !.held = 0]
    OBVIOUS
  <2>2. old.at = "authorize" /\ run[p].pc = "resolve" /\ Proceed(p, r)
    BY <1>1, <1>19, <2>1 DEF Authorize, At, Now, Goto10
  <2>3. QED BY <1>2, <1>3, <2>1, <2>2, ReadsWell
<1>20. QED
  BY <1>4, <1>5, <1>6, <1>7, <1>8, <1>9, <1>10, <1>11, <1>12, <1>13, <1>14, <1>15, <1>16, <1>17, <1>18, <1>19 DEF Resolve

------------------------------------------------------------------------------
(* The rest of the host goes on. *)

(* What was read stays in order when versions only grow, and the package cache
   does not move between the reading of the candidates and the simulation. *)
LEMMA Later ==
  ASSUME NEW r \in Reports, NEW v \in Versions, NEW w \in Versions, ReportOK(r, v),
         \A c \in Changeable : v[c] <= w[c],
         w["lists"] = v["lists"] \/ r.at # "simulate" \/ r.lost # {}
  PROVE  ReportOK(r, w)
<1>1. /\ v["sources"] \in Nat /\ v["extended"] \in Nat /\ v["status"] \in Nat
      /\ w["sources"] \in Nat /\ w["extended"] \in Nat /\ w["status"] \in Nat
      /\ v["sources"] <= w["sources"] /\ v["extended"] <= w["extended"] /\ v["status"] <= w["status"]
  BY DEF Versions, Changeable
<1>2. /\ r.sources \in Nat /\ r.extended \in Nat /\ r.status \in Nat /\ r.packages \in Nat /\ r.marks \in Nat
      /\ r.actions[1] \in Nat /\ r.audited["sources"] \in Nat /\ r.audited["extended"] \in Nat
      /\ r.audited["status"] \in Nat
  BY DEF Reports, Versions, Changeable
<1>3. ReadOK(r, w)
  BY <1>1, <1>2 DEF ReportOK, ReadOK, Between
<1>4. CacheOK(r, w)
  BY DEF ReportOK, CacheOK
<1>5. QED BY <1>3, <1>4 DEF ReportOK

LEMMA ChangeKeeps ==
  ASSUME ReadingOK, NEW c \in Changeable, World(Changed(c)),
         c = "lists" => \A p \in Procs : res[p].at # "simulate" \/ res[p].lost # {}
  PROVE  ReadingOK' /\ UNCHANGED stage05
<1>1. UNCHANGED <<stage05, res>> /\ host' = [host EXCEPT !.version[c] = @ + 1]
  BY DEF World, Changed
<1>2. PICK v \in Versions, w \in Versions : v = host.version /\ w = [v EXCEPT ![c] = v[c] + 1]
  <2>1. PICK v \in Versions : v = host.version
    BY ReadingIs
  <2>2. v[c] + 1 \in Nat
    BY DEF Versions
  <2>3. [v EXCEPT ![c] = v[c] + 1] \in Versions
    BY <2>2 DEF Versions
  <2>4. QED BY <2>1, <2>3
<1>3. host' \in [version : Versions, manager : Managers] /\ host'.version = w /\ host'.manager = host.manager
  BY <1>1, <1>2, ReadingIs
<1>4. (\A d \in Changeable : v[d] <= w[d]) /\ (c # "lists" => w["lists"] = v["lists"])
  BY <1>2 DEF Versions, Changeable
<1>5. \A p \in Procs : ReportOK(res[p], w)
  BY <1>2, <1>4, ReadingIs, Later
<1>6. run' = run /\ res' = res
  BY <1>1 DEF stage05, vars
<1>7. QED BY <1>1, <1>3, <1>5, <1>6, ReadingIs, IsReading

LEMMA ManagerKeeps ==
  ASSUME ReadingOK, NEW m \in Managers, World([host EXCEPT !.manager = m]),
         \A l \in Needs[m] : Holding(l) = {}
  PROVE  ReadingOK' /\ UNCHANGED stage05
<1>1. UNCHANGED <<stage05, res>> /\ host' = [host EXCEPT !.manager = m]
  BY DEF World
<1>2. host' \in [version : Versions, manager : Managers] /\ host'.version = host.version /\ host'.manager = m
  BY <1>1, ReadingIs
<1>3. run' = run /\ res' = res
  BY <1>1 DEF stage05, vars
<1>4. \A l \in Needs[host'.manager], p \in Procs : l \notin LockedOf(res'[p])
  BY <1>2, <1>3 DEF Holding, Locked, LockedOf
<1>5. QED BY <1>1, <1>2, <1>3, <1>4, ReadingIs, IsReading

(* A lock file made anew only takes locks away from those who hold the old one. *)
LEMMA Loses ==
  ASSUME NEW r \in Reports, NEW v \in Versions, ReportOK(r, v), NEW gone \in SUBSET Locks,
         NEW s, s = [r EXCEPT !.lost = r.lost \cup gone]
  PROVE  Reads(r, s, v)
<1>1. s \in Reports
  BY DEF Reports
<1>2. s.lost = r.lost \cup gone /\ s.held = r.held
  BY DEF Reports
<1>3. HeldOK(s) /\ AgainOK(s)
  BY DEF Reports, ReportOK, HeldOK, AgainOK
<1>4. ReadOK(s, v)
  BY DEF Reports, ReportOK, ReadOK
<1>5. CacheOK(s, v)
  BY <1>2 DEF Reports, ReportOK, CacheOK
<1>6. LockedOf(s) \subseteq LockedOf(r)
  BY <1>2 DEF LockedOf
<1>7. QED BY <1>1, <1>3, <1>4, <1>5, <1>6 DEF Reads, ReportOK

LEMMA ReplaceKeeps ==
  ASSUME ReadingOK, NEW m \in {"dpkg", "lists"}, ReplaceLocks(m)
  PROVE  ReadingOK' /\ UNCHANGED stage05
<1>1. /\ UNCHANGED <<stage05, host>>
      /\ res' = [p \in Procs |-> [res[p] EXCEPT !.lost = @ \cup (Needs[m] \cap Locked(p))]]
  BY DEF ReplaceLocks
<1>2. run' = run /\ host' = host
  BY <1>1 DEF stage05, vars
<1>3. Needs[m] \subseteq Locks
  BY DEF Needs, Locks
<1>4. ASSUME NEW p \in Procs
      PROVE  /\ res'[p] \in Reports /\ ReportOK(res'[p], host.version)
             /\ LockedOf(res'[p]) \subseteq LockedOf(res[p])
             /\ run[p].pc # "resolve" => res'[p] = Nothing
  <2>1. PICK r \in Reports, v \in Versions, gone \in SUBSET Locks :
          r = res[p] /\ v = host.version /\ gone = Needs[m] \cap Locked(p)
    BY <1>3, ReadingIs
  <2>2. PICK s : s = [r EXCEPT !.lost = r.lost \cup gone]
    OBVIOUS
  <2>3. res'[p] = s
    BY <1>1, <2>1, <2>2
  <2>4. Reads(r, s, v)
    BY <2>1, <2>2, ReadingIs, Loses
  <2>5. ASSUME run[p].pc # "resolve" PROVE s = Nothing
    <3>1. r = Nothing
      BY <2>1, <2>5, ReadingIs
    <3>2. Locked(p) = {}
      BY <2>1, <3>1 DEF Locked, Nothing
    <3>3. r.lost \cup gone = r.lost
      BY <2>1, <3>2
    <3>4. QED BY <2>2, <3>1, <3>3, NothingIs DEF Reports
  <2>6. QED BY <2>1, <2>3, <2>4, <2>5 DEF Reads
<1>5. res' \in [Procs -> Reports]
  BY <1>1, <1>4
<1>6. QED BY <1>2, <1>1, <1>4, <1>5, ReadingIs, IsReading

LEMMA HostKeeps ==
  ASSUME ReadingOK, HostStep
  PROVE  ReadingOK' /\ UNCHANGED stage05
<1>1. CASE \E c \in Changeable : Administer(c)
  BY <1>1, ChangeKeeps DEF Administer
<1>2. CASE \E m \in {"dpkg", "lists"} : ManagerStart(m)
  BY <1>2, ManagerKeeps DEF ManagerStart, Managers
<1>3. CASE ManagerEnds
  <2>1. Needs["idle"] = {} /\ "idle" \in Managers
    BY DEF Needs, Managers
  <2>2. QED BY <1>3, <2>1, ManagerKeeps DEF ManagerEnds
<1>4. CASE \E m \in {"dpkg", "lists"} : ReplaceLocks(m)
  BY <1>4, ReplaceKeeps
<1>5. CASE ManagerWrites
  <2>1. CASE host.manager = "dpkg"
    BY <1>5, <2>1, ChangeKeeps DEF ManagerWrites, Changeable
  <2>2. CASE host.manager = "lists"
    <3>1. World(Changed("lists"))
      BY <1>5, <2>2 DEF ManagerWrites
    <3>2. ASSUME NEW p \in Procs, res[p].at = "simulate", res[p].lost = {} PROVE FALSE
      <4>1. HeldOK(res[p]) /\ "lists" \notin LockedOf(res[p])
        BY <2>2, ReadingIs DEF ReportOK, Needs
      <4>2. "simulate" \in FromSources \ {"report"}
        BY DEF FromSources, FromExtended, FromStatus, FromAudit, FromQuery, FromPolicy, FromSimulate
      <4>3. res[p].held = 4
        BY <3>2, <4>1, <4>2 DEF HeldOK
      <4>4. 3 \in 1..4 /\ PackageLocks[3] = "lists"
        BY DEF PackageLocks
      <4>5. QED BY <3>2, <4>1, <4>3, <4>4 DEF LockedOf
    <3>3. QED BY <3>1, <3>2, ChangeKeeps DEF Changeable
  <2>3. QED BY <1>5, <2>1, <2>2, ReadingIs DEF ManagerWrites, Managers
<1>6. QED BY <1>1, <1>2, <1>3, <1>4, <1>5 DEF HostStep

------------------------------------------------------------------------------
(* The theorems. *)

LEMMA StageStill ==
  ASSUME IInv, AuthorizedThroughout, UNCHANGED stage05
  PROVE  IInv' /\ AuthorizedThroughout'
<1>1. IInv'
  BY NextPreserves DEF stage05
<1>2. UNCHANGED <<journal, tree>> /\ run' = run /\ rec' = rec
  BY DEF stage05, vars, journal
<1>3. Authorized => Authorized'
  BY <1>1, <1>2, StillAuthorized
<1>4. QED BY <1>1, <1>2, <1>3 DEF AuthorizedThroughout

LEMMA StartResolveReads ==
  ASSUME IInv, ReadingOK, NEW p \in Procs, StartResolve(p)
  PROVE  ReadingOK'
<1>1. res' = res /\ host' = host /\ \A q \in Procs : run'[q].pc # "resolve" => run[q].pc # "resolve"
  BY LockFacts DEF StartResolve, Operation
<1>2. QED BY <1>1, ReadingIs, IsReading

LEMMA ResolverStarts == ResolverInit => ResolverInv
<1> SUFFICES ASSUME ResolverInit PROVE ResolverInv
  OBVIOUS
<1>1. Init /\ host = Quiet /\ res = [p \in Procs |-> Nothing]
  BY DEF ResolverInit
<1>2. IInv
  BY <1>1, InitIsIInv
<1>3. \A p \in Procs : run[p].pc = "idle"
  BY <1>1 DEF Init, Idle
<1>4. AuthorizedThroughout
  BY <1>3 DEF AuthorizedThroughout
<1>5. Quiet \in [version : Versions, manager : Managers] /\ Needs[Quiet.manager] = {}
  BY DEF Quiet, Versions, Managers, Needs
<1>6. \A p \in Procs : res[p] = Nothing /\ ReportOK(res[p], host.version)
  BY <1>1, <1>5, NothingIs
<1>7. ResolverTypeOK
  BY <1>1, <1>5, NothingIs DEF ResolverTypeOK
<1>8. PackagesOK
  BY <1>1, <1>5, <1>6 DEF PackagesOK, ReportOK
<1>9. InstantOK
  BY <1>6 DEF InstantOK, ReportOK
<1>10. QED BY <1>2, <1>4, <1>7, <1>8, <1>9 DEF ResolverInv

LEMMA ResolverPreserves ==
  ResolverInv /\ [ResolverNext]_<<stage05, host, res>> => ResolverInv'
<1> SUFFICES ASSUME ResolverInv, [ResolverNext]_<<stage05, host, res>> PROVE ResolverInv'
  OBVIOUS
<1>1. IInv /\ AuthorizedThroughout /\ ReadingOK
  BY DEF ResolverInv, ReadingOK
<1>2. IInv' /\ AuthorizedThroughout' /\ ReadingOK'
  <2>1. CASE Next /\ Forget
    BY <1>1, <2>1, Stage05Keeps, ForgetKeeps
  <2>2. ASSUME NEW p \in Resolvers, StartResolve(p) \/ Resolve(p) \/ EndResolve(p)
        PROVE  IInv' /\ AuthorizedThroughout' /\ ReadingOK'
    <3>1. p \in Procs
      BY Stage10Assumption
    <3>2. CASE StartResolve(p)
      BY <1>1, <3>1, <3>2, StartResolveKeeps, StartResolveReads
    <3>3. CASE Resolve(p)
      BY <1>1, <3>1, <3>3, ResolveKeeps, StageStill
    <3>4. CASE EndResolve(p)
      <4>1. Forget
        BY <3>4 DEF EndResolve
      <4>2. QED BY <1>1, <3>1, <3>4, <4>1, EndResolveKeeps, ForgetKeeps
    <3>5. QED BY <2>2, <3>2, <3>3, <3>4
  <2>3. CASE HostStep
    BY <1>1, <2>3, HostKeeps, StageStill
  <2>4. CASE UNCHANGED <<stage05, host, res>>
    <3>1. run' = run
      BY <2>4 DEF stage05, vars
    <3>2. QED BY <1>1, <2>4, <3>1, StageStill, ReadingIs, IsReading
  <2>5. QED BY <2>1, <2>2, <2>3, <2>4 DEF ResolverNext
<1>3. QED BY <1>2 DEF ResolverInv, ReadingOK

(* The invariant of Stage 05 holds beside the resolvers, and theirs with it. *)
THEOREM ResolverInvariance == ResolverSpec => []ResolverInv
<1>1. QED BY ResolverStarts, ResolverPreserves, PTL DEF ResolverSpec

(* From its first package lock to its report a resolver works under one validated,
   complete installation: whatever other Stage 05 operations try meanwhile, and
   whatever fails, the shared flock keeps every mutator out. *)
THEOREM StaysAuthorized == ResolverSpec => []AuthorizedThroughout
<1>1. ResolverInv => AuthorizedThroughout
  BY DEF ResolverInv
<1>2. QED BY <1>1, ResolverInvariance, PTL

(* A report speaks of one instant: repository files, marks, states and candidates,
   read one by one while administrators edit, package managers write and lock
   files are replaced, were all true when the first audit ran, and the simulated
   transaction is of the same package states and of the same package cache. *)
THEOREM ReportIsOneInstant == ResolverSpec => []OneInstant
<1>1. ASSUME ResolverInv, NEW p \in Procs, At(p, "report")
      PROVE  LET r == res[p]
             IN /\ r.sources = r.audited["sources"] /\ r.extended = r.audited["extended"]
                /\ r.marks = r.audited["extended"] /\ r.status = r.audited["status"]
                /\ r.packages = r.status /\ r.actions = <<r.status, r.candidates>>
  <2>1. PICK r \in Reports : r = res[p]
    BY <1>1 DEF ResolverInv, ResolverTypeOK
  <2>2. AgainOK(r) /\ CacheOK(r, host.version) /\ r.at = "report"
    BY <1>1, <2>1 DEF ResolverInv, InstantOK, At
  <2>3. "report" \in FromSimulateAgain \cap FromRecheckExtended \cap FromRecheckStatus \cap FromAuditPost \cap FromAuthorize
    BY DEF FromSimulateAgain, FromMarks, FromRecheckSources, FromRecheckExtended, FromRecheckStatus,
       FromAuditPost, FromIdentity, FromAuthorize
  <2>4. r.actions[1] = r.status /\ r.actions[2] = r.candidates
    BY <2>2, <2>3 DEF AgainOK, CacheOK
  <2>5. r.actions = <<r.actions[1], r.actions[2]>>
    BY DEF Reports
  <2>6. QED BY <2>1, <2>2, <2>3, <2>4, <2>5 DEF AgainOK
<1>2. ResolverInv => OneInstant
  BY <1>1 DEF OneInstant, StateOfOneInstant, OneCache
<1>3. QED BY <1>2, ResolverInvariance, PTL

------------------------------------------------------------------------------
(* What a resolver takes from Stage 05: nothing. *)

LEMMA ReadsOnly ==
  ASSUME HostStep \/ \E p \in Procs : Resolve(p)
  PROVE  UNCHANGED stage05
<1>1. ASSUME NEW p \in Procs, Resolve(p) PROVE UNCHANGED stage05
  BY <1>1 DEF Resolve, LockNext, ReadSources, ReadExtended, ReadStatus, Audit, Query, Policy, Simulate,
     SimulateAgain, Marks, RecheckSources, RecheckExtended, RecheckStatus, AuditPost, Identity, Authorize,
     Goto10, Proceed
<1>2. ASSUME HostStep PROVE UNCHANGED stage05
  BY <1>2 DEF HostStep, Administer, ManagerStart, ReplaceLocks, ManagerWrites, ManagerEnds, World
<1>3. QED BY <1>1, <1>2

LEMMA ResolverTree ==
  ASSUME ResolverInv, TreeInv, [ResolverNext]_<<stage05, host, res>>
  PROVE  TreeInv'
<1>1. IInv
  BY DEF ResolverInv
<1>2. ASSUME Next PROVE TreeInv'
  BY <1>1, <1>2, NextTree
<1>3. ASSUME NEW p \in Procs, StartResolve(p) PROVE TreeInv'
  <2>1. /\ UNCHANGED <<journal, tree, faults>> /\ run[p].pc = "idle"
        /\ lock' = [lock EXCEPT !.sh = @ \cup {p}]
    BY <1>3 DEF StartResolve
  <2>2. PICK r : r = Operation("resolve", "observe", rec.plan) /\ run' = [run EXCEPT ![p] = r]
    BY <1>3 DEF StartResolve
  <2>3. ~Mutates(run[p]) /\ ~Mutates(r)
    BY <2>1, <2>2 DEF Mutates, Operation
  <2>4. lock'.ex = lock.ex
    BY <1>1, <2>1, LockFacts
  <2>5. QED BY <1>1, <2>1, <2>2, <2>3, <2>4, SettlesTree
<1>4. ASSUME NEW p \in Procs, EndResolve(p) PROVE TreeInv'
  <2>1. run[p].pc \notin Unsyncing /\ Leave(p) /\ UNCHANGED <<journal, tree, faults>>
    BY <1>4 DEF EndResolve, Unsyncing, Publishing
  <2>2. QED BY <1>1, <2>1, LeavesOnly
<1>5. ASSUME UNCHANGED stage05 PROVE TreeInv'
  BY <1>1, <1>5, NextTree DEF stage05
<1>6. QED BY <1>2, <1>3, <1>4, <1>5, ReadsOnly, Stage10Assumption DEF ResolverNext

(* A resolver is only a reader: with any number of them at work, and package managers
   and administrators besides, every promise of Stage 05 that holds without them holds.
   The flock they share admits no second mutator, and what they read they do not touch. *)
THEOREM ResolversDisturbNothing ==
  ASSUME OneKindOfFailure
  PROVE  ResolverSpec => [](/\ OneMutator /\ RootsSurvive /\ WriteAhead
                            /\ MarkerIsLast /\ AuthorizedIsComplete /\ NeverStranded)
<1>1. ResolverInit => TreeInv
  BY InitIsTreeInv DEF ResolverInit
<1>2. ResolverInv /\ TreeInv /\ [ResolverNext]_<<stage05, host, res>> => TreeInv'
  BY ResolverTree
<1>3. ResolverSpec => []TreeInv
  BY <1>1, <1>2, ResolverInvariance, PTL DEF ResolverSpec
<1>4. ASSUME ResolverInv, TreeInv
      PROVE  /\ OneMutator /\ RootsSurvive /\ WriteAhead
             /\ MarkerIsLast /\ AuthorizedIsComplete /\ NeverStranded
  <2>1. IInv
    BY <1>4 DEF ResolverInv
  <2>2. QED BY <1>4, <2>1, MutatesAlone, RootsHold, WritesAhead, MarkerStandsLast,
               AuthorizedMeansComplete, RollbackStarts
<1>5. QED BY <1>3, <1>4, ResolverInvariance, PTL

(* And revocation still only takes away, for every fault model: no resolver that comes,
   goes or reads brings a resource back. *)
THEOREM RevocationBesideResolvers == ResolverSpec => OnlyTakenAway
<1>1. ASSUME IInv, [ResolverNext]_<<stage05, host, res>>
      PROVE  [Revoked /\ ~PowerLoss => \A i \in 1..4 : Present[i]' => Present[i]]_vars
  <2>1. CASE Next
    BY <1>1, <2>1, RevokedOnlyLoses
  <2>2. CASE UNCHANGED stage05
    BY <2>2 DEF stage05
  <2>3. ASSUME NEW p \in Procs, StartResolve(p) \/ EndResolve(p) PROVE Present' = Present
    BY <2>3 DEF StartResolve, EndResolve, Present, tree
  <2>4. QED BY <1>1, <2>1, <2>2, <2>3, ReadsOnly, Stage10Assumption DEF ResolverNext
<1>2. ResolverInv => IInv
  BY DEF ResolverInv
<1>3. QED BY <1>1, <1>2, ResolverInvariance, PTL DEF ResolverSpec, OnlyTakenAway

------------------------------------------------------------------------------
(* A resolver in the eyes of Stage 05: an observe() that takes its time. *)

Seen == [p \in Procs |-> IF run[p].pc = "resolve" THEN [run[p] EXCEPT !.pc = "examine"] ELSE run[p]]
S == INSTANCE Stage05 WITH run <- Seen

(* What does not depend on run is the same. *)
LEMMA SameState ==
  /\ S!State = State /\ S!Present = Present /\ S!PrefixLength = PrefixLength
  /\ S!NoRecord = NoRecord /\ S!NoMarker = NoMarker /\ S!Torn = Torn
  /\ \A v : S!Fresh(v) = Fresh(v)
  /\ \A d : S!Sync(d) = Sync(d) /\ S!AfterLoss(d) = AfterLoss(d)
  /\ \A d, v : S!Put(d, v) = Put(d, v)
  /\ \A t : S!WithTemp(t) = WithTemp(t)
BY DEF S!State, S!StateOf, S!NoRecord, S!Record, State, StateOf, NoRecord, Record, S!Present, Present,
   S!PrefixLength, PrefixLength, S!Cardinality, Cardinality, S!NoMarker, NoMarker, S!Torn, Torn,
   S!Fresh, Fresh, S!Sync, Sync, S!AfterLoss, AfterLoss, S!Put, Put, S!WithTemp, WithTemp

LEMMA SameJudgment ==
  /\ S!IsPrefixShaped <=> IsPrefixShaped
  /\ S!MayRepair <=> MayRepair
  /\ S!RootsExact <=> RootsExact
  /\ S!NothingInStateRoot <=> NothingInStateRoot
  /\ \A plan : /\ S!Strict(plan) <=> Strict(plan)
               /\ S!Usable(plan) <=> Usable(plan)
               /\ S!ExecuteAccepts(plan) <=> ExecuteAccepts(plan)
<1>1. S!IsPrefixShaped <=> IsPrefixShaped
  BY SameState DEF S!IsPrefixShaped, IsPrefixShaped
<1>2. \A plan : (S!Strict(plan) <=> Strict(plan)) /\ (S!Usable(plan) <=> Usable(plan))
  BY <1>1, SameState DEF S!Strict, Strict, S!Usable, Usable
<1>3. S!MayRepair <=> MayRepair
  BY <1>1, SameState DEF S!MayRepair, MayRepair, S!Repairable, Repairable
<1>4. \A plan : S!ExecuteAccepts(plan) <=> ExecuteAccepts(plan)
  BY <1>1, <1>2, SameState DEF S!ExecuteAccepts, ExecuteAccepts
<1>5. (S!RootsExact <=> RootsExact) /\ (S!NothingInStateRoot <=> NothingInStateRoot)
  BY SameState DEF S!RootsExact, RootsExact, S!NothingInStateRoot, NothingInStateRoot
<1>6. QED BY <1>1, <1>2, <1>3, <1>4, <1>5

LEMMA SameJournal ==
  /\ \A plan : J!Publish(plan) <=> S!J!Publish(plan)
  /\ \A st : J!Advance(st) <=> S!J!Advance(st)
  /\ J!Acknowledge <=> S!J!Acknowledge
  /\ J!Interrupt <=> S!J!Interrupt
  /\ J!Lose <=> S!J!Lose
  /\ J!Init <=> S!J!Init
BY DEF J!Publish, S!J!Publish, J!NoRecord, S!J!NoRecord, J!Planned, S!J!Planned, J!Record, S!J!Record,
   J!Advance, S!J!Advance, J!Allowed, S!J!Allowed, J!StateOf, S!J!StateOf, J!After, S!J!After,
   J!Acknowledge, S!J!Acknowledge, J!Interrupt, S!J!Interrupt, J!Lose, S!J!Lose, J!UpTo, S!J!UpTo,
   J!Extends, S!J!Extends, J!IsPrefix, S!J!IsPrefix, J!Init, S!J!Init

LEMMA SeenIs ==
  ASSUME run \in [Procs -> Sessions], NEW p \in Procs
  PROVE  /\ Seen \in [Procs -> Sessions]
         /\ run[p].pc # "resolve" => Seen[p] = run[p]
         /\ run[p].pc = "resolve" => Seen[p] = [run[p] EXCEPT !.pc = "examine"]
BY DEF Seen, Sessions, PCs

LEMMA SeenMoves ==
  ASSUME run \in [Procs -> Sessions], NEW p \in Procs, NEW r \in Sessions, r.pc # "resolve",
         run' = [run EXCEPT ![p] = r]
  PROVE  Seen' = [Seen EXCEPT ![p] = r]
BY DEF Seen, Sessions

LEMMA SeenGoes ==
  ASSUME run \in [Procs -> Sessions], NEW p \in Procs
  PROVE  /\ \A pc \in PCs \ {"resolve"} : Goto(p, pc) => S!Goto(p, pc)
         /\ \A goal \in States : Write(p, goal) => S!Write(p, goal)
         /\ Leave(p) => S!Leave(p)
         /\ Raise(p) => S!Raise(p)
<1>1. Seen[p] \in Sessions /\ run[p] \in Sessions
  BY SeenIs
<1>2. ASSUME NEW pc \in PCs \ {"resolve"}, Goto(p, pc) PROVE S!Goto(p, pc)
  <2>1. PICK r : r = [run[p] EXCEPT !.pc = pc]
    OBVIOUS
  <2>2. r \in Sessions /\ r.pc # "resolve" /\ r = [Seen[p] EXCEPT !.pc = pc]
    BY <1>1, <2>1, SeenIs DEF Sessions
  <2>3. run' = [run EXCEPT ![p] = r]
    BY <1>2, <2>1 DEF Goto
  <2>4. QED BY <2>2, <2>3, SeenMoves DEF S!Goto
<1>3. ASSUME NEW goal \in States, Write(p, goal) PROVE S!Write(p, goal)
  <2>1. PICK r : r = [run[p] EXCEPT !.pc = "record", !.goal = goal]
    OBVIOUS
  <2>2. r \in Sessions /\ r.pc # "resolve" /\ r = [Seen[p] EXCEPT !.pc = "record", !.goal = goal]
    BY <1>1, <2>1, SeenIs DEF Sessions, PCs
  <2>3. run' = [run EXCEPT ![p] = r]
    BY <1>3, <2>1 DEF Write
  <2>4. [Seen EXCEPT ![p].pc = "record", ![p].goal = goal] = [Seen EXCEPT ![p] = r]
    BY <1>1, <2>2, SeenIs
  <2>5. QED BY <2>2, <2>3, <2>4, SeenMoves DEF S!Write
<1>4. ASSUME Leave(p) PROVE S!Leave(p)
  <2>1. Idle \in Sessions /\ Idle.pc # "resolve" /\ S!Idle = Idle
    BY DEF Idle, S!Idle, Sessions, PCs, Ops, Markers, States
  <2>2. QED BY <1>4, <2>1, SeenMoves DEF Leave, S!Leave, LockWithout, S!LockWithout
<1>5. ASSUME Raise(p) PROVE S!Raise(p)
  <2>1. S!State = State /\ S!Building = Building
    BY SameState DEF S!Building, S!Publishing, Building, Publishing
  <2>2. Seen[p].op = run[p].op /\ Seen[p].goal = run[p].goal
        /\ (run[p].pc # "resolve" => Seen[p].pc = run[p].pc)
        /\ (run[p].pc = "resolve" => Seen[p].pc = "examine")
    BY <1>1, SeenIs DEF Sessions
  <2>3. "resolve" \notin Building \cup {"record"} /\ "examine" \notin Building \cup {"record"}
    BY DEF Building, Publishing
  <2>4. CASE run' = [run EXCEPT ![p].op = "recover", ![p].pc = "residue"] /\ run[p].pc # "resolve"
    <3>1. PICK r : r = [run[p] EXCEPT !.op = "recover", !.pc = "residue"]
      OBVIOUS
    <3>2. r \in Sessions /\ r.pc # "resolve" /\ run' = [run EXCEPT ![p] = r]
      BY <1>1, <2>4, <3>1 DEF Sessions, PCs, Ops
    <3>3. [Seen EXCEPT ![p].op = "recover", ![p].pc = "residue"] = [Seen EXCEPT ![p] = r]
      BY <1>1, <2>4, <3>1, SeenIs
    <3>4. Seen' = [Seen EXCEPT ![p].op = "recover", ![p].pc = "residue"]
      BY <3>2, <3>3, SeenMoves
    <3>5. QED BY <1>4, <1>5, <2>1, <2>2, <2>3, <2>4, <3>4 DEF Raise, S!Raise
  <2>5. QED BY <1>4, <1>5, <2>1, <2>2, <2>3, <2>4 DEF Raise, S!Raise
<1>6. QED BY <1>2, <1>3, <1>4, <1>5

------------------------------------------------------------------------------
(* Each step of a process that does not resolve is the same step in their eyes. *)

LEMMA SeenAllocating ==
  ASSUME run \in [Procs -> Sessions], NEW q \in Procs, AllocateRoots(q)
  PROVE  S!AllocateRoots(q)
<1>1. CASE StateRootAbsent(q) \/ StateRootExact(q) \/ JournalRootPresent(q)
  BY <1>1, SeenIs, SeenGoes, SameState DEF StateRootAbsent, S!StateRootAbsent, StateRootExact,
     S!StateRootExact, JournalRootPresent, S!JournalRootPresent, Allocate, S!Allocate, S!AllocateRoots, PCs,
     Allocating, journal, S!journal, tree, S!tree, roots, S!roots
<1>2. CASE MakeStateRoot(q) \/ SetStateMode(q) \/ SyncStateRoot(q)
  BY <1>2, SeenIs, SeenGoes, SameState DEF MakeStateRoot, S!MakeStateRoot, SetStateMode, S!SetStateMode,
     SyncStateRoot, S!SyncStateRoot, AllocateStep, S!AllocateStep, S!AllocateRoots, PCs, Allocating, journal,
     S!journal, tree, S!tree
<1>3. CASE RepairStateRoot(q) \/ RepairStateSync(q) \/ SyncRoots(q)
  BY <1>3, SeenIs, SeenGoes, SameState DEF RepairStateRoot, S!RepairStateRoot, RepairStateSync,
     S!RepairStateSync, SyncRoots, S!SyncRoots, AllocateStep, S!AllocateStep, S!AllocateRoots, PCs,
     Allocating, journal, S!journal, tree, S!tree
<1>4. CASE JournalRootAbsent(q) \/ MakeJournalRoot(q) \/ SyncJournalRoot(q)
  BY <1>4, SeenIs, SeenGoes, SameState, SameJudgment DEF JournalRootAbsent, S!JournalRootAbsent,
     MakeJournalRoot, S!MakeJournalRoot, SyncJournalRoot, S!SyncJournalRoot, AllocateStep, S!AllocateStep,
     S!AllocateRoots, PCs, Allocating, journal, S!journal, tree, S!tree
<1>5. CASE AllocateReject(q) \/ Enter(q) \/ EnterBusy(q)
  BY <1>5, SeenIs, SeenGoes, SameState DEF AllocateReject, S!AllocateReject, Enter, S!Enter, EnterBusy,
     S!EnterBusy, Allocate, S!Allocate, S!AllocateRoots, PCs, Allocating, journal, S!journal, tree, S!tree,
     roots, S!roots
<1>6. QED BY <1>1, <1>2, <1>3, <1>4, <1>5 DEF AllocateRoots

LEMMA SeenExecuting ==
  ASSUME run \in [Procs -> Sessions], NEW q \in Procs, Execute(q)
  PROVE  S!Execute(q)
<1>1. CASE EndExecute(q) \/ StartCreate(q) \/ StartApplying(q) \/ ResumeApplying(q) \/ ResumeApplied(q)
  BY <1>1, SeenIs, SeenGoes, SameState, SameJudgment DEF EndExecute, S!EndExecute, StartCreate,
     S!StartCreate, StartApplying, S!StartApplying, ResumeApplying, S!ResumeApplying, ResumeApplied,
     S!ResumeApplied, Examine, S!Examine, Accepted, S!Accepted, S!Execute, PCs, States, journal, S!journal,
     tree, S!tree
<1>2. CASE CreateRecord(q) \/ CreateSync(q)
  BY <1>2, SeenIs, SeenGoes, SameState, SameJournal DEF CreateRecord, S!CreateRecord, CreateSync,
     S!CreateSync, S!Execute, PCs, tree, S!tree
<1>3. CASE ExecutePrefix(q) \/ Resume(q) \/ RecoverPrefix(q)
  BY <1>3, SeenIs, SeenGoes, SameState, SameJudgment DEF ExecutePrefix, S!ExecutePrefix, Resume, S!Resume,
     RecoverPrefix, S!RecoverPrefix, PrefixExact, S!PrefixExact, S!Execute, PCs, Building, States, journal,
     S!journal, tree, S!tree
<1>4. CASE SyncPrefix(q)
  BY <1>4, SeenIs, SeenGoes, SameState DEF SyncPrefix, S!SyncPrefix, S!Execute, PCs, journal, S!journal
<1>5. CASE MakeConfig(q) \/ SetConfigMode(q) \/ SyncConfig(q)
  BY <1>5, SeenIs, SeenGoes, SameState DEF MakeConfig, S!MakeConfig, SetConfigMode, S!SetConfigMode,
     SyncConfig, S!SyncConfig, S!Execute, PCs, Building, journal, S!journal
<1>6. CASE MakeExperiments(q) \/ SyncExperiments(q) \/ MakeWorkspace(q) \/ SyncWorkspace(q)
  BY <1>6, SeenIs, SeenGoes, SameState DEF MakeExperiments, S!MakeExperiments, SyncExperiments,
     S!SyncExperiments, MakeWorkspace, S!MakeWorkspace, SyncWorkspace, S!SyncWorkspace, S!Execute, PCs,
     Building, journal, S!journal
<1>7. CASE CreateMarkerTemp(q) \/ LinkMarker(q) \/ SyncMarker(q) \/ UnlinkMarkerTemp(q) \/ SyncMarkerUnlink(q)
  BY <1>7, SeenIs, SeenGoes, SameState DEF CreateMarkerTemp, S!CreateMarkerTemp, LinkMarker, S!LinkMarker,
     SyncMarker, S!SyncMarker, UnlinkMarkerTemp, S!UnlinkMarkerTemp, SyncMarkerUnlink, S!SyncMarkerUnlink,
     MarkerStep, S!MarkerStep, S!Execute, PCs, Building, Publishing, journal, S!journal
<1>8. CASE WriteMarker(q)
  <2>1. S!Goto(q, "marker_link") /\ Seen[q] = run[q]
    BY <1>8, SeenIs, SeenGoes DEF WriteMarker, MarkerStep, PCs, Building, Publishing
  <2>2. S!WriteMarker(q)
    BY <1>8, <2>1, SameState DEF WriteMarker, S!WriteMarker, MarkerStep, S!MarkerStep, journal, S!journal
  <2>3. QED BY <2>2 DEF S!Execute
<1>9. CASE Built(q) \/ RecordedApplying(q) \/ RecordedApplied(q)
  BY <1>9, SeenIs, SeenGoes, SameState, SameJudgment, SameJournal DEF Built, S!Built, RecordedApplying,
     S!RecordedApplying, RecordedApplied, S!RecordedApplied, Recorded, S!Recorded, S!Execute, PCs, Building,
     States, journal, S!journal, tree, S!tree
<1>10. QED BY <1>1, <1>2, <1>3, <1>4, <1>5, <1>6, <1>7, <1>8, <1>9 DEF Execute

LEMMA SeenRollingBack ==
  ASSUME run \in [Procs -> Sessions], NEW q \in Procs, Rollback(q)
  PROVE  S!Rollback(q)
<1>1. CASE RollbackStart(q) \/ EndRollback(q) \/ EndRolledBack(q)
  BY <1>1, SeenIs, SeenGoes, SameState, SameJudgment DEF RollbackStart, S!RollbackStart, EndRollback,
     S!EndRollback, EndRolledBack, S!EndRolledBack, Examine, S!Examine, PrefixExact, S!PrefixExact,
     S!Rollback, PCs, journal, S!journal, tree, S!tree
<1>2. CASE RollbackPrefix(q)
  BY <1>2, SeenIs, SeenGoes, SameState, SameJudgment DEF RollbackPrefix, S!RollbackPrefix, PrefixExact,
     S!PrefixExact, S!Rollback, PCs, States, journal, S!journal, tree, S!tree
<1>3. CASE RecordedFailed(q) \/ RecordedRollingBack(q)
  BY <1>3, SeenIs, SeenGoes, SameState, SameJournal DEF RecordedFailed, S!RecordedFailed,
     RecordedRollingBack, S!RecordedRollingBack, Recorded, S!Recorded, S!Rollback, PCs, States, tree, S!tree
<1>4. CASE RemoveLast(q) \/ SyncRemoved(q) \/ Removed(q)
  BY <1>4, SeenIs, SeenGoes, SameState DEF RemoveLast, S!RemoveLast, SyncRemoved, S!SyncRemoved, Removed,
     S!Removed, S!Rollback, PCs, States, journal, S!journal, tree, S!tree
<1>5. QED BY <1>1, <1>2, <1>3, <1>4 DEF Rollback

LEMMA SeenSharing ==
  ASSUME run \in [Procs -> Sessions], NEW q \in Procs, Shared(q) \/ EndObserve(q)
  PROVE  S!Shared(q) \/ S!EndObserve(q)
<1>1. CASE RemoveResidue(q) \/ SyncResidue(q) \/ NoResidue(q)
  BY <1>1, SeenIs, SeenGoes, SameState DEF RemoveResidue, S!RemoveResidue, SyncResidue, S!SyncResidue,
     NoResidue, S!NoResidue, S!Shared, PCs, journal, S!journal, tree, S!tree
<1>2. CASE RepairMode(q) \/ RepairSync(q)
  BY <1>2, SeenIs, SeenGoes, SameState, SameJudgment DEF RepairMode, S!RepairMode, RepairSync,
     S!RepairSync, S!Shared, PCs, journal, S!journal
<1>3. CASE PrefixReject(q)
  BY <1>3, SeenIs, SeenGoes, SameState, SameJudgment DEF PrefixReject, S!PrefixReject, S!Shared, journal,
     S!journal, tree, S!tree
<1>4. CASE Advance(q) \/ AdvanceReject(q)
  BY <1>4, SeenIs, SeenGoes, SameState, SameJournal DEF Advance, S!Advance, AdvanceReject,
     S!AdvanceReject, S!Shared, PCs, journal, S!journal, tree, S!tree
<1>5. CASE RecordedLast(q) \/ EndObserve(q)
  BY <1>5, SeenIs, SeenGoes, SameState, SameJournal DEF RecordedLast, S!RecordedLast, EndObserve,
     S!EndObserve, Recorded, S!Recorded, S!Shared, journal, S!journal, tree, S!tree
<1>6. QED BY <1>1, <1>2, <1>3, <1>4, <1>5 DEF Shared

LEMMA SeenBeginning ==
  ASSUME run \in [Procs -> Sessions], NEW q \in Procs, Start(q)
  PROVE  S!Start(q)
<1>1. PICK plan \in Plans : BeginExecute(q, plan) \/ BeginRollback(q, plan) \/ BeginObserve(q, plan)
  BY DEF Start
<1>2. \A pc \in PCs \ {"resolve"}, op \in Ops :
        LET r == Operation(pc, op, plan)
        IN r \in Sessions /\ r.pc # "resolve" /\ S!Operation(pc, op, plan) = r
  BY DEF Operation, S!Operation, Sessions, Markers, States
<1>3. Operation("state_root", "execute", plan) \in Sessions /\ Operation("examine", "rollback", plan) \in Sessions
      /\ Operation("examine", "observe", plan) \in Sessions
  BY <1>2 DEF PCs, Allocating, Ops
<1>4. CASE BeginExecute(q, plan)
  <2>1. Seen' = [Seen EXCEPT ![q] = S!Operation("state_root", "execute", plan)]
    BY <1>2, <1>3, <1>4, SeenMoves DEF BeginExecute, Operation, S!Operation
  <2>2. QED BY <1>4, <2>1, SeenIs DEF BeginExecute, S!BeginExecute, Allocate, S!Allocate, S!Start, Start,
               journal, S!journal, tree, S!tree, roots, S!roots
<1>5. CASE BeginRollback(q, plan)
  <2>1. Seen' = [Seen EXCEPT ![q] = S!Operation("examine", "rollback", plan)]
    BY <1>3, <1>5, SeenMoves DEF BeginRollback, Operation, S!Operation
  <2>2. QED BY <1>5, <2>1, SeenIs, SameJudgment DEF BeginRollback, S!BeginRollback, S!Start, Start,
               journal, S!journal, tree, S!tree, roots, S!roots
<1>6. CASE BeginObserve(q, plan)
  <2>1. Seen' = [Seen EXCEPT ![q] = S!Operation("examine", "observe", plan)]
    BY <1>3, <1>6, SeenMoves DEF BeginObserve, Operation, S!Operation
  <2>2. QED BY <1>6, <2>1, SeenIs, SameJudgment DEF BeginObserve, S!BeginObserve, S!Start, Start,
               journal, S!journal, tree, S!tree, roots, S!roots
<1>7. QED BY <1>1, <1>4, <1>5, <1>6

(* A resolver that fails or is killed is an observe() that does. *)
LEMMA SeenFailing ==
  ASSUME run \in [Procs -> Sessions], NEW q \in Procs, Fault(q)
  PROVE  S!Fault(q)
<1>1. /\ Seen[q].op = run[q].op /\ Seen[q].goal = run[q].goal /\ Seen[q].plan = run[q].plan
      /\ run[q].pc # "resolve" => Seen[q].pc = run[q].pc
      /\ run[q].pc = "resolve" => Seen[q].pc = "examine"
  BY SeenIs DEF Sessions
<1>2. CASE Refuse(q)
  BY <1>1, <1>2, SeenGoes, SameState, SameJudgment DEF Refuse, S!Refuse, PrefixExact, S!PrefixExact, Fault, S!Fault,
     journal, S!journal, tree, S!tree, roots, S!roots
<1>3. CASE Error(q)
  BY <1>1, <1>3, SeenGoes, SameState, SameJournal DEF Error, S!Error, Publishing, S!Publishing, Fault, S!Fault,
     journal, S!journal, roots, S!roots
<1>4. CASE Kill(q)
  BY <1>1, <1>4, SeenGoes, SameJournal DEF Kill, S!Kill, Fault, S!Fault,
     journal, S!journal, tree, S!tree, roots, S!roots
<1>5. QED BY <1>2, <1>3, <1>4 DEF Fault

LEMMA SeenLosingPower == PowerLoss => S!PowerLoss
<1> SUFFICES ASSUME PowerLoss PROVE S!PowerLoss
  OBVIOUS
<1>1. run' = [p \in Procs |-> Idle] /\ Idle.pc # "resolve" /\ S!Idle = Idle
  BY DEF PowerLoss, Idle, S!Idle
<1>2. Seen' = [p \in Procs |-> S!Idle]
  BY <1>1 DEF Seen
<1>3. QED BY <1>2, SameState, SameJournal DEF PowerLoss, S!PowerLoss

LEMMA SeenStage05 ==
  ASSUME run \in [Procs -> Sessions], Next PROVE S!Next
<1>1. ASSUME NEW q \in Procs, Step(q) PROVE S!Step(q)
  BY <1>1, SeenAllocating, SeenExecuting, SeenRollingBack, SeenSharing DEF Step, S!Step, roots, S!roots
<1>2. QED BY <1>1, SeenBeginning, SeenFailing, SeenLosingPower DEF Next, S!Next

(* resolve() begins and ends as observe() does, and in between Stage 05 sees nothing of it. *)
LEMMA SeenStage10 ==
  ASSUME ResolverInv, [ResolverNext]_<<stage05, host, res>>
  PROVE  [S!Next]_<<S!vars, faults>>
<1>1. run \in [Procs -> Sessions]
  BY DEF ResolverInv, IInv, TypeOK, Sessions
<1>2. ASSUME UNCHANGED stage05 PROVE UNCHANGED <<S!vars, faults>>
  BY <1>2 DEF stage05, vars, S!vars, journal, S!journal, roots, S!roots, tree, S!tree, Seen
<1>3. ASSUME NEW p \in Procs, StartResolve(p) PROVE S!Next
  <2>1. rec \in Records /\ rec.plan \in Plans
    BY <1>3 DEF ResolverInv, IInv, TypeOK, StartResolve, Authorized, State, Records
  <2>2. PICK r : r = Operation("resolve", "observe", rec.plan)
    OBVIOUS
  <2>3. r \in Sessions /\ r.pc = "resolve" /\ [r EXCEPT !.pc = "examine"] = S!Operation("examine", "observe", rec.plan)
    BY <2>1, <2>2 DEF Operation, S!Operation, Sessions, PCs, Ops, Markers, States
  <2>4. run' = [run EXCEPT ![p] = r] /\ run[p].pc = "idle"
    BY <1>3, <2>2 DEF StartResolve
  <2>5. Seen' = [Seen EXCEPT ![p] = [r EXCEPT !.pc = "examine"]]
    BY <1>1, <2>3, <2>4 DEF Seen
  <2>6. S!BeginObserve(p, rec.plan)
    BY <1>1, <1>3, <2>3, <2>4, <2>5, SeenIs, SameJudgment DEF StartResolve, Authorized, S!BeginObserve,
       journal, S!journal, tree, S!tree
  <2>7. UNCHANGED S!roots /\ UNCHANGED faults
    BY <1>3 DEF StartResolve, roots, S!roots
  <2>8. QED BY <2>1, <2>6, <2>7 DEF S!Start, S!Next
<1>4. ASSUME NEW p \in Procs, EndResolve(p) PROVE S!Next
  <2>1. run[p].op = "observe"
    BY <1>4, ResolverReads DEF EndResolve, ResolverInv
  <2>2. Seen[p].op = "observe" /\ Seen[p].pc = "examine"
    BY <1>1, <1>4, <2>1, SeenIs DEF EndResolve, Sessions
  <2>3. S!EndObserve(p) /\ UNCHANGED S!roots /\ UNCHANGED faults
    BY <1>1, <1>4, <2>2, SeenGoes DEF EndResolve, S!EndObserve, journal, S!journal, tree, S!tree, roots, S!roots
  <2>4. QED BY <2>3 DEF S!Step, S!Next
<1>5. QED BY <1>1, <1>2, <1>3, <1>4, ReadsOnly, SeenStage05, Stage10Assumption DEF ResolverNext

(* resolve() is, for everybody else, one long observe(): whatever resolvers, package
   managers and administrators do, every step is one Stage 05 takes without them, or
   none. *)
THEOREM ResolverIsAnObserver == ResolverSpec => S!Spec
<1>1. ResolverInit => S!Init
  <2>1. Init => Seen = [p \in Procs |-> S!Idle]
    BY DEF Init, Seen, Idle, S!Idle
  <2>2. QED BY <2>1, SameState, SameJournal DEF ResolverInit, Init, S!Init
<1>2. ResolverInv /\ [ResolverNext]_<<stage05, host, res>> => [S!Next]_<<S!vars, faults>>
  BY SeenStage10
<1>3. QED BY <1>1, <1>2, ResolverInvariance, PTL DEF ResolverSpec, S!Spec
==============================================================================

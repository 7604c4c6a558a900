---------------------------- MODULE Stage05Proofs ----------------------------
(***************************************************************************)
(* What the Stage 05 reconciler promises for any number of processes and   *)
(* plans.  First what holds whatever goes wrong together with whatever:    *)
(* one mutator at a time, roots that survive, nothing brought back after a *)
(* revocation.  Then what holds when failures are of one kind at a time: a *)
(* behaviour with power failures has no kill and no failing system call.   *)
(***************************************************************************)
EXTENDS Stage05Operator, TLAPS, FiniteSetTheorems

------------------------------------------------------------------------------
(* The inductive invariant, first part: who holds the flock, what the journal says
   while an operation is where it is, and the directories that hold the journal. *)

Sessions == [pc : PCs, op : Ops, plan : Markers, goal : States]

Mutates(r) == r.pc \notin {"idle"} \cup Allocating /\ r.op # "observe"
Watches(r) == r.pc # "idle" /\ r.op = "observe"

SessionOK(r) ==
  /\ r.op = "observe" => r.pc \in {"idle", "examine", "resolve"}
  /\ r.pc \in Allocating => r.op = "execute"
  /\ r.pc # "idle" => r.plan \in Plans

LockOK ==
  /\ \A p \in Procs :
       /\ SessionOK(run[p])
       /\ lock.ex = p <=> Mutates(run[p])
       /\ p \in lock.sh <=> Watches(run[p])
  /\ lock.ex # Nobody => lock.sh = {}

(* The journal's directories are made from the outside in, each synced before the
   next, by however many first executes. *)
AllocatesAt(pc) ==
  /\ pc = "state_mode" => stateRoot.now # "absent"
  /\ pc \in {"state_sync", "state_repair_sync", "journal_root"} => stateRoot.now = "exact"
  /\ pc = "journal_make" => stateRoot.disk = {"exact"}
  /\ pc \notin ({"idle"} \cup Allocating) \ {"journal_sync", "enter"} =>
       journalRoot.now = "present"
  /\ pc = "create" => journalRoot.disk = {"present"}

RootsOK ==
  /\ stateRoot.now \in stateRoot.disk /\ journalRoot.now \in journalRoot.disk
  /\ "present" \in journalRoot.disk => stateRoot.disk = {"exact"}
  /\ rec # NoRecord => journalRoot.disk = {"present"}
  /\ \A p \in Procs : AllocatesAt(run[p].pc)

StateIn(j) == IF j = NoRecord THEN "none" ELSE StateOf(j)

(* The transitions each operation asks for, and from which state. *)
Transitions(op, goal, state) ==
  \/ /\ op = "execute"
     /\ \/ state = "planned" /\ goal = "applying"
        \/ state = "applying" /\ goal = "applied"
        \/ state = "applied" /\ goal = "validated"
  \/ op = "recover" /\ state = "applying" /\ goal = "failed"
  \/ /\ op = "rollback"
     /\ \/ state = "planned" /\ goal = "failed"
        \/ state \in {"applying", "applied", "validated", "failed"} /\ goal = "rolling_back"
        \/ state = "rolling_back" /\ goal = "rolled_back"

Written(op) ==
  CASE op = "execute" -> {"applying", "applied", "validated"}
    [] op = "recover" -> {"failed"}
    [] op = "rollback" -> {"failed", "rolling_back", "rolled_back"}

(* What a mutator knows of the journal j, wherever it is. *)
KnowsAt(pc, op, plan, goal, j) ==
  /\ pc # "resolve"
  /\ op = "recover" =>
       pc \in {"residue", "residue_sync", "prefix", "repair_sync", "record", "record_sync"}
  /\ pc \in {"roots_sync", "create"} => op = "execute" /\ j = NoRecord
  /\ pc \notin {"examine", "roots_sync", "create"} => j # NoRecord /\ j.plan = plan
  /\ pc = "create_sync" => op = "execute" /\ StateIn(j) = "planned"
  /\ pc \in Building \cup {"sync", "resume"} => op = "execute" /\ StateIn(j) = "applying"
  /\ pc \in {"residue", "residue_sync"} => StateIn(j) \in {"applying", "rolling_back"}
  /\ pc \in {"residue", "residue_sync", "prefix"} /\ op \in {"execute", "recover"}
       => StateIn(j) = "applying"
  /\ pc = "repair_sync" => StateIn(j) = "applying"
  /\ pc \in {"remove", "remove_sync"} => op = "rollback" /\ StateIn(j) = "rolling_back"
  /\ pc = "record" => Transitions(op, goal, StateIn(j))
  /\ pc = "record_sync" => StateIn(j) = goal /\ goal \in Written(op)

Knows(r, j) == KnowsAt(r.pc, r.op, r.plan, r.goal, j)

Informed == \A p \in Procs : Mutates(run[p]) => Knows(run[p], rec)

IInv == TypeOK /\ LockOK /\ RootsOK /\ Informed

(* The parts of TypeOK a step may change. *)
JournalOK ==
  rec \in Records \cup {NoRecord} /\ floor \in Records \cup {NoRecord} /\ blocked \in BOOLEAN
TreeOK ==
  /\ config \in DirOf(Modes) /\ experiments \in DirOf(Presence)
  /\ workspace \in DirOf(Presence) /\ marker \in DirOf(Contents)

------------------------------------------------------------------------------
(* Records, and module Journal's view of them. *)

LEMMA RecordFacts ==
  ASSUME NEW r \in Records
  PROVE  r # NoRecord /\ StateOf(r) \in States /\ r.plan \in Plans /\ Len(r.hist) \in Nat \ {0}
<1>1. r.plan \in Plans /\ r.hist \in Seq(States) /\ r.hist # <<>>
  BY DEF Records
<1>2. Len(r.hist) \in Nat \ {0} /\ r.hist[Len(r.hist)] \in States
  BY <1>1
<1>3. QED BY <1>1, <1>2, NoPlanIsNoPlan DEF NoRecord, Record, StateOf

LEMMA PlannedIs ==
  ASSUME NEW plan \in Plans
  PROVE  /\ Planned(plan) \in Records /\ Planned(plan).plan = plan
         /\ StateOf(Planned(plan)) = "planned"
BY DEF Planned, Record, Records, StateOf, States

LEMMA AfterIs ==
  ASSUME NEW r \in Records, NEW st \in States
  PROVE  /\ After(r, st) \in Records /\ After(r, st).plan = r.plan
         /\ StateOf(After(r, st)) = st /\ Len(After(r, st).hist) = Len(r.hist) + 1
         /\ Extends(After(r, st), r)
<1>1. r.plan \in Plans /\ r.hist \in Seq(States) /\ Len(r.hist) \in Nat
  BY DEF Records
<1>2. /\ Append(r.hist, st) \in Seq(States) \ {<<>>}
      /\ Len(Append(r.hist, st)) = Len(r.hist) + 1
      /\ Append(r.hist, st)[Len(r.hist) + 1] = st
  BY <1>1
<1>3. IsPrefix(r.hist, Append(r.hist, st))
  BY <1>1 DEF IsPrefix
<1>4. After(r, st).plan = r.plan /\ After(r, st).hist = Append(r.hist, st)
  BY DEF After, Record
<1>5. QED BY <1>1, <1>2, <1>3, <1>4 DEF After, Record, Records, StateOf, Extends

LEMMA UpToIs ==
  ASSUME NEW r \in Records \cup {NoRecord}, NEW n \in 0..Len(r.hist)
  PROVE  /\ UpTo(r, n) \in Records \cup {NoRecord}
         /\ r = NoRecord => UpTo(r, n) = NoRecord
<1>1. CASE r = NoRecord
  BY <1>1 DEF NoRecord, Record, UpTo
<1>2. CASE r \in Records
  <2>1. r.plan \in Plans /\ r.hist \in Seq(States) /\ r # NoRecord
    BY <1>2, RecordFacts DEF Records
  <2>2. CASE n = 0
    BY <2>1, <2>2 DEF UpTo
  <2>3. CASE n # 0
    <3>1. n \in 1..Len(r.hist) /\ Len(r.hist) \in Nat
      BY <2>1, <2>3
    <3>2. SubSeq(r.hist, 1, n) \in Seq(States) /\ Len(SubSeq(r.hist, 1, n)) = n
      BY <2>1, <3>1
    <3>3. SubSeq(r.hist, 1, n) # <<>>
      BY <3>1, <3>2
    <3>4. QED BY <2>1, <2>3, <3>2, <3>3 DEF UpTo, Record, Records
  <2>4. QED BY <2>2, <2>3
<1>3. QED BY <1>1, <1>2

LEMMA SameRecords ==
  /\ J!NoRecord = NoRecord /\ J!Allowed = Allowed
  /\ \A plan : J!Planned(plan) = Planned(plan)
  /\ \A r : J!StateOf(r) = StateOf(r)
  /\ \A r, st : J!After(r, st) = After(r, st)
  /\ \A r, q : J!Extends(r, q) <=> Extends(r, q)
  /\ \A r, n : J!UpTo(r, n) = UpTo(r, n)
<1> USE DEF J!Record, Record, J!NoRecord, NoRecord
<1>1. /\ J!NoRecord = NoRecord
      /\ \A plan : J!Planned(plan) = Planned(plan)
      /\ \A r, st : J!After(r, st) = After(r, st)
  BY DEF J!Planned, Planned, J!After, After
<1>2. J!Allowed = Allowed
  BY DEF J!Allowed, Allowed
<1>3. \A r : J!StateOf(r) = StateOf(r)
  BY DEF J!StateOf, StateOf
<1>4. \A r, q : J!Extends(r, q) <=> Extends(r, q)
  BY DEF J!Extends, Extends, J!IsPrefix, IsPrefix
<1>5. \A r, n : J!UpTo(r, n) = UpTo(r, n)
  BY DEF J!UpTo, UpTo
<1>6. QED BY <1>1, <1>2, <1>3, <1>4, <1>5

------------------------------------------------------------------------------
(* Directories, and what a crash makes of them. *)

LEMMA DirFacts ==
  ASSUME NEW V, NEW d \in DirOf(V), NEW v \in V
  PROVE  /\ Put(d, v) \in DirOf(V) /\ Put(d, v).now = v /\ Put(d, v).disk = d.disk \cup {v}
         /\ Sync(d) \in DirOf(V) /\ Sync(d).now = d.now /\ Sync(d).disk = {d.now}
         /\ Fresh(v) \in DirOf(V) /\ Fresh(v).now = v /\ Fresh(v).disk = {v}
BY DEF DirOf, Put, Sync, Fresh

LEMMA AfterLossIs ==
  ASSUME NEW V, NEW d \in DirOf(V), NEW e \in AfterLoss(d)
  PROVE  e \in DirOf(V) /\ e.now \in d.disk /\ e.disk = {e.now}
BY DEF DirOf, AfterLoss, Fresh

------------------------------------------------------------------------------
(* The operation's own moves. *)

(* While one operation mutates, nobody else does, or watches. *)
LEMMA Alone ==
  ASSUME LockOK, NEW p \in Procs, Mutates(run[p])
  PROVE  \A q \in Procs \ {p} : ~Mutates(run[q]) /\ ~Watches(run[q])
BY Stage05Assumption DEF LockOK

LEMMA MovesTo ==
  ASSUME run \in [Procs -> Sessions], NEW p \in Procs, NEW pc \in PCs, NEW goal \in States,
         \/ Goto(p, pc) /\ goal = run[p].goal
         \/ Write(p, goal) /\ pc = "record"
  PROVE  \E r \in Sessions :
           /\ run' = [run EXCEPT ![p] = r]
           /\ r.pc = pc /\ r.op = run[p].op /\ r.plan = run[p].plan /\ r.goal = goal
<1> DEFINE r == [run[p] EXCEPT !.pc = pc, !.goal = goal]
<1>1. r \in Sessions /\ r.pc = pc /\ r.op = run[p].op /\ r.plan = run[p].plan /\ r.goal = goal
  BY DEF Sessions
<1>2. run' = [run EXCEPT ![p] = r]
  BY DEF Sessions, Goto, Write
<1>3. QED BY <1>1, <1>2

(* What the mutator becomes, when it goes on. *)
LEMMA Becomes ==
  ASSUME IInv, JournalOK', TreeOK', UNCHANGED <<roots, lock, faults>>,
         NEW p \in Procs, NEW r \in Sessions, run' = [run EXCEPT ![p] = r],
         Mutates(run[p]), Mutates(r), r.plan = run[p].plan, r.pc # "create",
         rec' # NoRecord => rec # NoRecord \/ run[p].pc = "create",
         Knows(r, rec')
  PROVE  IInv'
<1>1. run \in [Procs -> Sessions] /\ run' \in [Procs -> Sessions] /\ run'[p] = r
      /\ \A q \in Procs \ {p} : run'[q] = run[q]
  BY DEF IInv, TypeOK, Sessions
<1>2. TypeOK'
  BY <1>1 DEF IInv, TypeOK, JournalOK, TreeOK, roots, Sessions
<1>3. LockOK'
  <2>1. SessionOK(r)
    BY DEF IInv, LockOK, SessionOK, Mutates, Watches, Allocating
  <2>2. ~Watches(r) /\ ~Watches(run[p])
    BY DEF Mutates, Watches
  <2>3. QED BY <1>1, <2>1, <2>2 DEF IInv, LockOK
<1>4. RootsOK'
  <2>1. AllocatesAt(r.pc)
    BY DEF IInv, RootsOK, AllocatesAt, Mutates, Allocating
  <2>2. rec' # NoRecord => journalRoot.disk = {"present"}
    BY DEF IInv, RootsOK, AllocatesAt
  <2>3. QED BY <1>1, <2>1, <2>2 DEF IInv, RootsOK, AllocatesAt, roots
<1>5. Informed'
  BY <1>1, Alone DEF IInv, Informed
<1>6. QED BY <1>2, <1>3, <1>4, <1>5 DEF IInv

LEMMA GoesOn ==
  ASSUME IInv, JournalOK', TreeOK', UNCHANGED <<roots, lock, faults>>,
         NEW p \in Procs, NEW pc \in PCs, NEW goal \in States,
         \/ Goto(p, pc) /\ goal = run[p].goal
         \/ Write(p, goal) /\ pc = "record",
         pc \notin {"idle", "create"} \cup Allocating, Mutates(run[p]),
         rec' # NoRecord => rec # NoRecord \/ run[p].pc = "create",
         KnowsAt(pc, run[p].op, run[p].plan, goal, rec')
  PROVE  IInv'
<1>1. PICK r \in Sessions :
        /\ run' = [run EXCEPT ![p] = r]
        /\ r.pc = pc /\ r.op = run[p].op /\ r.plan = run[p].plan /\ r.goal = goal
  BY MovesTo DEF IInv, TypeOK, Sessions
<1>2. Mutates(r) /\ Knows(r, rec')
  BY <1>1 DEF Mutates, Knows
<1>3. QED BY <1>1, <1>2, Becomes

(* The operation ends, and gives back what it locked. *)
LEMMA Leaves ==
  ASSUME IInv, JournalOK', TreeOK', UNCHANGED <<roots, faults>>,
         NEW p \in Procs, Leave(p), rec' = rec \/ Mutates(run[p]), rec' # NoRecord => rec # NoRecord
  PROVE  IInv'
<1>1. run \in [Procs -> Sessions] /\ run' \in [Procs -> Sessions] /\ run'[p] = Idle
      /\ \A q \in Procs \ {p} : run'[q] = run[q]
  BY DEF IInv, TypeOK, Sessions, Leave, Idle, PCs, Ops, Markers, States
<1>2. /\ lock' \in [ex : Procs \cup {Nobody}, sh : SUBSET Procs]
      /\ lock'.ex = (IF lock.ex = p THEN Nobody ELSE lock.ex) /\ lock'.sh = lock.sh \ {p}
  BY DEF IInv, TypeOK, Leave, LockWithout
<1>3. TypeOK'
  BY <1>1, <1>2 DEF IInv, TypeOK, JournalOK, TreeOK, roots, Sessions
<1>4. SessionOK(Idle) /\ ~Watches(Idle) /\ ~Mutates(Idle)
  BY DEF SessionOK, Watches, Mutates, Idle, Allocating
<1>5. LockOK'
  BY <1>1, <1>2, <1>4, Stage05Assumption DEF IInv, LockOK
<1>6. RootsOK'
  <2>1. AllocatesAt(Idle.pc)
    BY DEF AllocatesAt, Idle
  <2>2. QED BY <1>1, <2>1 DEF IInv, RootsOK, AllocatesAt, roots
<1>7. Informed'
  BY <1>1, <1>4, Alone DEF IInv, Informed
<1>8. QED BY <1>3, <1>5, <1>6, <1>7 DEF IInv

------------------------------------------------------------------------------
(* The steps of an operation, one after the other, in the order of the module. *)

(* The mutator at its place, as the invariant knows it. *)
Here(p) ==
  /\ IInv /\ Mutates(run[p]) /\ Knows(run[p], rec) /\ run[p] \in Sessions
  /\ JournalOK /\ TreeOK /\ SessionOK(run[p])

LEMMA IsHere ==
  ASSUME IInv, NEW p \in Procs, run[p].op # "observe", run[p].pc \notin {"idle"} \cup Allocating
  PROVE  Here(p)
BY DEF Here, IInv, Informed, Mutates, TypeOK, LockOK, JournalOK, TreeOK, Sessions

(* The watchers are only at "examine", or at "resolve" (module Stage10). *)
LEMMA NotWatching ==
  ASSUME IInv, NEW p \in Procs, run[p].pc \notin {"idle", "examine", "resolve"} \cup Allocating
  PROVE  Here(p)
<1>1. run[p].op # "observe"
  BY DEF IInv, LockOK, SessionOK
<1>2. QED BY <1>1, IsHere

(* A step that leaves the journal and the four resources alone. *)
LEMMA StillOK ==
  ASSUME IInv, UNCHANGED <<journal, tree>>
  PROVE  JournalOK' /\ TreeOK' /\ rec' = rec
BY DEF IInv, TypeOK, JournalOK, TreeOK, journal, tree

LEMMA ExaminePreserves ==
  ASSUME IInv, NEW p \in Procs, UNCHANGED <<roots, faults>>,
         \/ StartCreate(p) \/ StartApplying(p) \/ ResumeApplying(p) \/ ResumeApplied(p)
         \/ RollbackStart(p)
  PROVE  IInv'
<1>1. run[p].pc = "examine" /\ run[p].op \in {"execute", "rollback"} /\ UNCHANGED <<journal, tree, lock>>
  BY DEF StartCreate, StartApplying, ResumeApplying, ResumeApplied, RollbackStart, Accepted, Examine
<1>2. Here(p)
  BY <1>1, IsHere DEF Allocating
<1>3. JournalOK' /\ TreeOK' /\ rec' = rec
  BY <1>1, <1>2, StillOK
<1>4. rec # NoRecord => StateOf(rec) \in States
  BY <1>2, RecordFacts DEF Here, JournalOK
<1>5. CASE StartCreate(p)
  <2>1. Goto(p, "roots_sync") /\ rec = NoRecord /\ run[p].op = "execute"
    BY <1>4, <1>5 DEF StartCreate, Accepted, State, Examine, States
  <2>2. KnowsAt("roots_sync", run[p].op, run[p].plan, run[p].goal, rec)
    BY <2>1 DEF KnowsAt, Building, Publishing
  <2>3. QED BY <1>1, <1>2, <1>3, <2>1, <2>2, GoesOn DEF PCs, Allocating, Here, Sessions
<1>6. CASE StartApplying(p) \/ ResumeApplied(p)
  <2>1. PICK goal \in {"applying", "validated"} :
          Write(p, goal) /\ run[p].op = "execute" /\ rec # NoRecord /\ rec.plan = run[p].plan
          /\ StateIn(rec) = (IF goal = "applying" THEN "planned" ELSE "applied")
    BY <1>6 DEF StartApplying, ResumeApplied, Accepted, ExecuteAccepts, Usable, State, StateIn, Examine
  <2>2. KnowsAt("record", run[p].op, run[p].plan, goal, rec)
    BY <2>1 DEF KnowsAt, Building, Publishing, Transitions
  <2>3. QED BY <1>1, <1>2, <1>3, <2>1, <2>2, GoesOn DEF PCs, Allocating, Here, States
<1>7. CASE ResumeApplying(p)
  <2>1. Goto(p, "residue") /\ run[p].op = "execute" /\ rec # NoRecord /\ rec.plan = run[p].plan
        /\ StateIn(rec) = "applying"
    BY <1>7 DEF ResumeApplying, Accepted, ExecuteAccepts, Usable, State, StateIn, Examine
  <2>2. KnowsAt("residue", run[p].op, run[p].plan, run[p].goal, rec)
    BY <2>1 DEF KnowsAt, Building, Publishing
  <2>3. QED BY <1>1, <1>2, <1>3, <2>1, <2>2, GoesOn DEF PCs, Allocating, Here, Sessions
<1>8. CASE RollbackStart(p)
  <2>1. PICK pc \in {"residue", "prefix"} :
          Goto(p, pc) /\ run[p].op = "rollback" /\ rec # NoRecord /\ rec.plan = run[p].plan
          /\ (pc = "residue" => StateIn(rec) \in {"applying", "rolling_back"})
    BY <1>8 DEF RollbackStart, Usable, State, StateIn, Examine
  <2>2. KnowsAt(pc, run[p].op, run[p].plan, run[p].goal, rec)
    BY <2>1 DEF KnowsAt, Building, Publishing
  <2>3. QED BY <1>1, <1>2, <1>3, <2>1, <2>2, GoesOn DEF PCs, Allocating, Here, Sessions
<1>9. QED BY <1>5, <1>6, <1>7, <1>8

(* An operation ends without having changed anything. *)
LEMMA EndPreserves ==
  ASSUME IInv, NEW p \in Procs, UNCHANGED <<roots, faults>>,
         \/ EndExecute(p) \/ EndRollback(p) \/ EndRolledBack(p) \/ EndObserve(p)
         \/ PrefixReject(p) \/ Refuse(p)
  PROVE  IInv'
<1>1. Leave(p) /\ UNCHANGED <<journal, tree>>
  BY DEF EndExecute, EndRollback, EndRolledBack, EndObserve, PrefixReject, Refuse
<1>2. QED BY <1>1, StillOK, Leaves

(* The journal is written, and what was written is acknowledged. *)
LEMMA CreatePreserves ==
  ASSUME IInv, NEW p \in Procs, UNCHANGED <<roots, faults>>, CreateRecord(p) \/ CreateSync(p)
  PROVE  IInv'
<1>1. run[p].pc \in {"create", "create_sync"} /\ UNCHANGED <<tree, lock>>
  BY DEF CreateRecord, CreateSync
<1>2. Here(p)
  BY <1>1, NotWatching DEF Allocating
<1>3. TreeOK'
  BY <1>1, <1>2 DEF Here, TreeOK, tree
<1>4. run[p].op = "execute" /\ run[p].plan \in Plans
  BY <1>1, <1>2 DEF Here, Knows, KnowsAt, SessionOK
<1>5. CASE CreateRecord(p)
  <2>1. rec' = Planned(run[p].plan) /\ UNCHANGED <<floor, blocked>> /\ Goto(p, "create_sync")
    BY <1>5, SameRecords DEF CreateRecord, J!Publish
  <2>2. rec' \in Records /\ rec'.plan = run[p].plan /\ StateOf(rec') = "planned" /\ rec' # NoRecord
    BY <1>4, <2>1, PlannedIs, RecordFacts
  <2>3. JournalOK'
    BY <1>2, <2>1, <2>2 DEF Here, JournalOK
  <2>4. KnowsAt("create_sync", run[p].op, run[p].plan, run[p].goal, rec')
    BY <1>4, <2>2 DEF KnowsAt, Building, Publishing, StateIn
  <2>5. run[p].pc = "create"
    BY <1>5 DEF CreateRecord
  <2>6. QED BY <1>1, <1>2, <1>3, <2>1, <2>3, <2>4, <2>5, GoesOn DEF PCs, Allocating, Here, Sessions
<1>6. CASE CreateSync(p)
  <2>1. rec' = rec /\ floor' = rec /\ blocked' = blocked /\ Goto(p, "examine")
    BY <1>6 DEF CreateSync, J!Acknowledge
  <2>2. JournalOK'
    BY <1>2, <2>1 DEF Here, JournalOK
  <2>3. KnowsAt("examine", run[p].op, run[p].plan, run[p].goal, rec')
    BY <1>4 DEF KnowsAt, Building, Publishing
  <2>4. QED BY <1>1, <1>2, <1>3, <2>1, <2>2, <2>3, GoesOn DEF PCs, Allocating, Here, Sessions
<1>7. QED BY <1>5, <1>6

LEMMA AdvancePreserves ==
  ASSUME IInv, NEW p \in Procs, UNCHANGED <<roots, faults>>, Advance(p)
  PROVE  IInv'
<1>1. run[p].pc = "record" /\ UNCHANGED <<tree, lock>> /\ Goto(p, "record_sync")
      /\ J!Advance(run[p].goal)
  BY DEF Advance
<1>2. Here(p)
  BY <1>1, NotWatching DEF Allocating
<1>3. TreeOK'
  BY <1>1, <1>2 DEF Here, TreeOK, tree
<1>4. rec \in Records /\ rec # NoRecord /\ rec.plan = run[p].plan /\ run[p].goal \in States
      /\ Transitions(run[p].op, run[p].goal, StateIn(rec))
  BY <1>1, <1>2, RecordFacts DEF Here, JournalOK, Knows, KnowsAt, Building, Publishing, Sessions
<1>5. rec' = After(rec, run[p].goal) /\ UNCHANGED <<floor, blocked>>
  BY <1>1, SameRecords DEF J!Advance
<1>6. rec' \in Records /\ rec'.plan = run[p].plan /\ StateOf(rec') = run[p].goal /\ rec' # NoRecord
  BY <1>4, <1>5, AfterIs, RecordFacts
<1>7. JournalOK'
  BY <1>2, <1>5, <1>6 DEF Here, JournalOK
<1>8. KnowsAt("record_sync", run[p].op, run[p].plan, run[p].goal, rec')
  BY <1>4, <1>6 DEF KnowsAt, Building, Publishing, StateIn, Transitions, Written
<1>9. QED BY <1>1, <1>2, <1>3, <1>4, <1>7, <1>8, GoesOn DEF PCs, Allocating, Here, Sessions

LEMMA RecordedPreserves ==
  ASSUME IInv, NEW p \in Procs, UNCHANGED <<roots, faults>>,
         \/ RecordedApplying(p) \/ RecordedApplied(p) \/ RecordedRollingBack(p)
         \/ RecordedFailed(p) \/ RecordedLast(p)
  PROVE  IInv'
<1>1. run[p].pc = "record_sync" /\ UNCHANGED tree /\ rec' = rec /\ floor' = rec /\ blocked' = blocked
  BY DEF RecordedApplying, RecordedApplied, RecordedRollingBack, RecordedFailed, RecordedLast,
         Recorded, J!Acknowledge
<1>2. Here(p)
  BY <1>1, NotWatching DEF Allocating
<1>3. TreeOK' /\ JournalOK'
  BY <1>1, <1>2 DEF Here, TreeOK, tree, JournalOK
<1>4. /\ rec # NoRecord /\ rec.plan = run[p].plan /\ StateIn(rec) = run[p].goal
      /\ run[p].goal \in Written(run[p].op) /\ run[p].op \in {"execute", "recover", "rollback"}
  BY <1>1, <1>2 DEF Here, Knows, KnowsAt, Building, Publishing, Sessions, Ops, Mutates
<1>5. ASSUME NEW pc \in PCs, NEW goal \in States, UNCHANGED lock,
             \/ Goto(p, pc) /\ goal = run[p].goal
             \/ Write(p, goal) /\ pc = "record",
             \/ /\ pc = "build" /\ run[p].op = "execute" /\ run[p].goal = "applying"
             \/ /\ pc = "record" /\ run[p].op = "execute" /\ run[p].goal = "applied"
                /\ goal = "validated"
             \/ /\ pc = "record" /\ run[p].op = "rollback" /\ run[p].goal = "failed"
                /\ goal = "rolling_back"
             \/ pc = "remove" /\ run[p].op = "rollback" /\ run[p].goal = "rolling_back"
      PROVE  IInv'
  <2>1. KnowsAt(pc, run[p].op, run[p].plan, goal, rec')
    BY <1>1, <1>4, <1>5 DEF KnowsAt, Building, Publishing, Transitions
  <2>2. pc \notin {"idle", "create"} \cup Allocating
    BY <1>5 DEF Allocating
  <2>3. QED BY <1>1, <1>2, <1>3, <1>5, <2>1, <2>2, GoesOn DEF Here
<1>6. CASE RecordedApplying(p)
  BY <1>2, <1>4, <1>5, <1>6 DEF RecordedApplying, Recorded, Written, PCs, Building, Here, Sessions
<1>7. CASE RecordedApplied(p)
  BY <1>2, <1>4, <1>5, <1>7 DEF RecordedApplied, Recorded, Written, PCs, States
<1>8. CASE RecordedRollingBack(p)
  BY <1>2, <1>4, <1>5, <1>8 DEF RecordedRollingBack, Recorded, Written, PCs, Here, Sessions
<1>9. CASE RecordedFailed(p)
  BY <1>2, <1>4, <1>5, <1>9 DEF RecordedFailed, Recorded, Written, PCs, States
<1>10. CASE RecordedLast(p)
  BY <1>1, <1>2, <1>3, <1>10, Leaves DEF RecordedLast, Here
<1>11. QED BY <1>6, <1>7, <1>8, <1>9, <1>10

(* _prefix_length counts at most the four resources. *)
LEMMA CountIsSmall == PrefixLength \in 0..4
<1>1. IsFiniteSet(1..4) /\ Cardinality(1..4) = 4
  <2>1. \A a, b \in Int :
          IsFiniteSet(a..b) /\ Cardinality(a..b) = IF a > b THEN 0 ELSE b - a + 1
    BY FS_Interval
  <2>2. 1 \in Int /\ 4 \in Int
    OBVIOUS
  <2>3. IsFiniteSet(1..4) /\ Cardinality(1..4) = IF 1 > 4 THEN 0 ELSE 4 - 1 + 1
    BY <2>1, <2>2, Zenon
  <2>4. QED BY <2>3
<1>2. {i \in 1..4 : Present[i]} \in SUBSET (1..4)
  OBVIOUS
<1>3. IsFiniteSet({i \in 1..4 : Present[i]}) /\ PrefixLength <= 4
  BY <1>1, <1>2, FS_Subset DEF PrefixLength
<1>4. PrefixLength \in Nat
  BY <1>3, FS_CardinalityType DEF PrefixLength
<1>5. QED BY <1>3, <1>4

(* A step of the mutator that leaves the journal alone. *)
LEMMA Proceeds ==
  ASSUME IInv, NEW p \in Procs, UNCHANGED <<roots, faults, journal, lock>>, Here(p), TreeOK',
         NEW pc \in PCs, NEW goal \in States,
         \/ Goto(p, pc) /\ goal = run[p].goal
         \/ Write(p, goal) /\ pc = "record",
         pc \notin {"idle", "create"} \cup Allocating,
         KnowsAt(pc, run[p].op, run[p].plan, goal, rec)
  PROVE  IInv'
<1>1. JournalOK' /\ rec' = rec
  BY DEF Here, JournalOK, journal
<1>2. QED BY <1>1, GoesOn DEF Here

(* What the mutator writes to the tree is a directory of the tree. *)
LEMMA TreeFacts ==
  ASSUME TreeOK
  PROVE  /\ \A v \in Modes : Put(config, v) \in DirOf(Modes)
         /\ \A v \in Presence : Put(experiments, v) \in DirOf(Presence) /\ Put(workspace, v) \in DirOf(Presence)
         /\ \A v \in Contents : Put(marker, v) \in DirOf(Contents)
         /\ Sync(config) \in DirOf(Modes) /\ Sync(experiments) \in DirOf(Presence)
         /\ Sync(workspace) \in DirOf(Presence) /\ Sync(marker) \in DirOf(Contents)
         /\ Fresh(NoMarker) \in DirOf(Contents) /\ Fresh("absent") \in DirOf(Presence)
<1>1. NoMarker \in Contents /\ "absent" \in Presence /\ "absent" \in Modes
  BY DEF NoMarker, Contents, Markers, Presence, Modes
<1>2. QED BY <1>1, DirFacts DEF TreeOK

LEMMA ContentsFacts ==
  ASSUME TreeOK
  PROVE  /\ NoMarker \in Contents /\ marker.now \in Contents
         /\ \A t \in Markers \cup {Torn} :
              /\ [marker.now EXCEPT !.temp = t] \in Contents
              /\ [marker.now EXCEPT !.temp = t] = [final |-> marker.now.final, temp |-> t]
         /\ \A f \in Markers :
              /\ [marker.now EXCEPT !.final = f] \in Contents
              /\ [marker.now EXCEPT !.final = f] = [final |-> f, temp |-> marker.now.temp]
BY DEF TreeOK, DirOf, Contents, NoMarker, Markers

LEMMA PrefixPreserves ==
  ASSUME IInv, NEW p \in Procs, UNCHANGED <<roots, faults>>,
         \/ RemoveResidue(p) \/ SyncResidue(p) \/ NoResidue(p) \/ RepairMode(p) \/ RepairSync(p)
         \/ ExecutePrefix(p) \/ SyncPrefix(p) \/ Resume(p) \/ RecoverPrefix(p) \/ RollbackPrefix(p)
  PROVE  IInv'
<1>1. /\ run[p].pc \in {"residue", "residue_sync", "prefix", "repair_sync", "sync", "resume"}
      /\ UNCHANGED <<journal, lock>>
  BY DEF RemoveResidue, SyncResidue, NoResidue, RepairMode, RepairSync, ExecutePrefix, SyncPrefix,
         Resume, RecoverPrefix, RollbackPrefix, PrefixExact
<1>2. Here(p)
  BY <1>1, NotWatching DEF Allocating
<1>3. /\ run[p].goal \in States /\ run[p].plan \in Plans
      /\ KnowsAt(run[p].pc, run[p].op, run[p].plan, run[p].goal, rec)
      /\ run[p].op \in {"execute", "recover", "rollback"}
  BY <1>1, <1>2 DEF Here, Sessions, SessionOK, Knows, Ops, Mutates
<1>4. TreeOK'
  <2>1. /\ config' \in {config, Put(config, "exact"), Sync(config)}
        /\ experiments' \in {experiments, Sync(experiments)}
        /\ workspace' \in {workspace, Sync(workspace)}
        /\ marker' \in {marker, Put(marker, [marker.now EXCEPT !.temp = NoPlan]), Sync(marker)}
    BY DEF RemoveResidue, SyncResidue, NoResidue, RepairMode, RepairSync, ExecutePrefix, SyncPrefix,
           Resume, RecoverPrefix, RollbackPrefix, tree
  <2>2. [marker.now EXCEPT !.temp = NoPlan] \in Contents /\ "exact" \in Modes
    BY <1>2, ContentsFacts DEF Here, Markers, Modes
  <2>3. QED BY <1>2, <2>1, <2>2, TreeFacts DEF Here, TreeOK
<1>5. StateIn(rec) = State
  BY DEF StateIn, State
<1>6. ASSUME NEW pc \in {"residue_sync", "prefix", "repair_sync", "sync", "resume", "build", "remove"},
             Goto(p, pc), KnowsAt(pc, run[p].op, run[p].plan, run[p].goal, rec)
      PROVE  IInv'
  <2>1. pc \in PCs /\ pc \notin {"idle", "create"} \cup Allocating
    BY DEF PCs, Building, Allocating
  <2>2. QED BY <1>1, <1>2, <1>3, <1>4, <1>6, <2>1, Proceeds
<1>7. ASSUME NEW goal \in States, Write(p, goal), run[p].pc = "prefix",
             Transitions(run[p].op, goal, StateIn(rec))
      PROVE  IInv'
  <2>1. KnowsAt("record", run[p].op, run[p].plan, goal, rec)
    BY <1>3, <1>7 DEF KnowsAt, Building, Publishing
  <2>2. "record" \in PCs /\ "record" \notin {"idle", "create"} \cup Allocating
    BY DEF PCs, Allocating
  <2>3. QED BY <1>1, <1>2, <1>4, <1>7, <2>1, <2>2, Proceeds
<1> USE DEF KnowsAt, Building, Publishing
<1>8. CASE RemoveResidue(p)
  BY <1>3, <1>6, <1>8 DEF RemoveResidue
<1>9. CASE SyncResidue(p) \/ NoResidue(p)
  BY <1>3, <1>6, <1>9 DEF SyncResidue, NoResidue
<1>10. CASE RepairMode(p)
  BY <1>3, <1>5, <1>6, <1>10 DEF RepairMode, MayRepair
<1>11. CASE RepairSync(p)
  BY <1>3, <1>6, <1>11 DEF RepairSync
<1>12. CASE ExecutePrefix(p)
  BY <1>3, <1>6, <1>12 DEF ExecutePrefix, PrefixExact
<1>13. CASE SyncPrefix(p) \/ Resume(p)
  BY <1>3, <1>6, <1>13 DEF SyncPrefix, Resume
<1>14. CASE RecoverPrefix(p)
  <2>1. Transitions(run[p].op, "failed", StateIn(rec))
    BY <1>3, <1>14 DEF RecoverPrefix, PrefixExact, Transitions
  <2>2. QED BY <1>7, <1>14, <2>1 DEF RecoverPrefix, PrefixExact, States
<1>15. CASE RollbackPrefix(p)
  <2>1. run[p].op = "rollback" /\ run[p].pc = "prefix"
    BY <1>15 DEF RollbackPrefix, PrefixExact
  <2>2. CASE State = "planned" /\ Write(p, "failed")
    BY <1>5, <1>7, <2>1, <2>2 DEF Transitions, States
  <2>3. CASE State \in {"applying", "applied", "validated", "failed"} /\ Write(p, "rolling_back")
    BY <1>5, <1>7, <2>1, <2>3 DEF Transitions, States
  <2>4. CASE State = "rolling_back" /\ Goto(p, "remove")
    BY <1>3, <1>5, <1>6, <2>1, <2>4
  <2>5. QED BY <1>15, <2>2, <2>3, <2>4 DEF RollbackPrefix
<1>16. QED BY <1>8, <1>9, <1>10, <1>11, <1>12, <1>13, <1>14, <1>15

LEMMA BuildPreserves ==
  ASSUME IInv, NEW p \in Procs, UNCHANGED <<roots, faults>>,
         \/ MakeConfig(p) \/ SetConfigMode(p) \/ SyncConfig(p)
         \/ MakeExperiments(p) \/ SyncExperiments(p) \/ MakeWorkspace(p) \/ SyncWorkspace(p)
         \/ CreateMarkerTemp(p) \/ WriteMarker(p) \/ LinkMarker(p) \/ SyncMarker(p)
         \/ UnlinkMarkerTemp(p) \/ SyncMarkerUnlink(p) \/ Built(p)
  PROVE  IInv'
<1> USE DEF MakeConfig, SetConfigMode, SyncConfig, MakeExperiments, SyncExperiments, MakeWorkspace,
            SyncWorkspace, CreateMarkerTemp, WriteMarker, LinkMarker, SyncMarker, UnlinkMarkerTemp,
            SyncMarkerUnlink, Built, MarkerStep
<1>1. run[p].pc \in Building /\ UNCHANGED <<journal, lock>>
  BY DEF Building, Publishing
<1>2. Here(p)
  BY <1>1, NotWatching DEF Building, Publishing, Allocating
<1>3. /\ run[p].goal \in States /\ run[p].plan \in Plans
      /\ run[p].op = "execute" /\ rec # NoRecord /\ rec.plan = run[p].plan /\ StateIn(rec) = "applying"
  BY <1>1, <1>2 DEF Here, Sessions, SessionOK, Knows, KnowsAt, Building, Publishing
<1>4. TreeOK'
  <2>1. /\ config' \in {config, Put(config, "provisional"), Put(config, "exact"), Sync(config)}
        /\ experiments' \in {experiments, Put(experiments, "present"), Sync(experiments)}
        /\ workspace' \in {workspace, Put(workspace, "present"), Fresh("absent"), Sync(workspace)}
    BY DEF tree
  <2>2. marker' \in DirOf(Contents)
    <3>1. CASE WriteMarker(p)
      <4> DEFINE Whole(c) == [c EXCEPT !.temp = IF @ = Torn THEN run[p].plan ELSE @]
      <4>1. marker' = [now |-> Whole(marker.now), disk |-> {Whole(c) : c \in marker.disk}]
        BY <3>1
      <4>2. \A c \in Contents : Whole(c) \in Contents
        BY <1>3 DEF Contents, Markers
      <4>3. marker.now \in Contents /\ marker.disk \subseteq Contents
        BY <1>2 DEF Here, TreeOK, DirOf
      <4> HIDE DEF Whole
      <4>4. QED BY <4>1, <4>2, <4>3 DEF DirOf
    <3>2. CASE ~WriteMarker(p)
      <4>1. PICK v \in Contents : marker' \in {marker, Fresh(NoMarker), Put(marker, v), Sync(marker)}
        <5>1. /\ [marker.now EXCEPT !.temp = NoPlan] \in Contents
              /\ [marker.now EXCEPT !.temp = Torn] \in Contents
              /\ [marker.now EXCEPT !.final = run[p].plan] \in Contents
          BY <1>2, <1>3, ContentsFacts DEF Here, Markers
        <5>2. \E v \in Contents : marker' \in {marker, Fresh(NoMarker), Put(marker, v), Sync(marker)}
          BY <3>2, <5>1 DEF tree, WithTemp
        <5>3. QED BY <5>2
      <4>2. QED BY <1>2, <4>1, TreeFacts DEF Here, TreeOK
    <3>3. QED BY <3>1, <3>2
  <2>3. QED BY <1>2, <2>1, <2>2, TreeFacts DEF Here, TreeOK, Modes, Presence
<1>5. ASSUME NEW pc \in Building, Goto(p, pc)
      PROVE  IInv'
  <2>1. KnowsAt(pc, run[p].op, run[p].plan, run[p].goal, rec)
    BY <1>3, <1>5 DEF KnowsAt, Building, Publishing
  <2>2. pc \in PCs /\ pc \notin {"idle", "create"} \cup Allocating
    BY <1>5 DEF PCs, Building, Publishing, Allocating
  <2>3. QED BY <1>1, <1>2, <1>3, <1>4, <1>5, <2>1, <2>2, Proceeds
<1>6. CASE Built(p)
  <2>1. KnowsAt("record", run[p].op, run[p].plan, "applied", rec)
    BY <1>3 DEF KnowsAt, Building, Publishing, Transitions
  <2>2. "record" \in PCs /\ "record" \notin {"idle", "create"} \cup Allocating /\ "applied" \in States
    BY DEF PCs, Allocating, States
  <2>3. Write(p, "applied")
    BY <1>6
  <2>4. QED BY <1>1, <1>2, <1>4, <2>1, <2>2, <2>3, Proceeds
<1>7. CASE ~Built(p)
  <2>1. PICK pc \in Building : Goto(p, pc)
    BY <1>7 DEF Building, Publishing
  <2>2. QED BY <1>5, <2>1
<1>8. QED BY <1>6, <1>7

(* rollback() takes one resource away, the last one that is there. *)
LEMMA LastRemoved ==
  ASSUME NEW p \in Procs, RemoveLast(p)
  PROVE  \/ /\ PrefixLength = 4
            /\ marker' = Put(marker, NoMarker) /\ UNCHANGED <<config, experiments, workspace>>
         \/ /\ PrefixLength = 3
            /\ workspace' = Put(workspace, "absent") /\ UNCHANGED <<config, experiments, marker>>
         \/ /\ PrefixLength = 2
            /\ experiments' = Put(experiments, "absent") /\ UNCHANGED <<config, workspace, marker>>
         \/ /\ PrefixLength = 1
            /\ config' = Put(config, "absent") /\ UNCHANGED <<experiments, workspace, marker>>
<1>1. PrefixLength \in 1..4
  BY CountIsSmall DEF RemoveLast
<1>2. CASE PrefixLength = 4
  BY <1>2 DEF RemoveLast
<1>3. CASE PrefixLength = 3
  BY <1>3 DEF RemoveLast
<1>4. CASE PrefixLength = 2
  BY <1>4 DEF RemoveLast
<1>5. CASE PrefixLength = 1
  BY <1>5 DEF RemoveLast
<1>6. QED BY <1>1, <1>2, <1>3, <1>4, <1>5

LEMMA RemovePreserves ==
  ASSUME IInv, NEW p \in Procs, UNCHANGED <<roots, faults>>,
         RemoveLast(p) \/ SyncRemoved(p) \/ Removed(p)
  PROVE  IInv'
<1>1. run[p].pc \in {"remove", "remove_sync"} /\ UNCHANGED <<journal, lock>>
  BY DEF RemoveLast, SyncRemoved, Removed
<1>2. Here(p)
  BY <1>1, NotWatching DEF Allocating
<1>3. /\ run[p].goal \in States
      /\ run[p].op = "rollback" /\ rec # NoRecord /\ rec.plan = run[p].plan
      /\ StateIn(rec) = "rolling_back"
  BY <1>1, <1>2 DEF Here, Sessions, Knows, KnowsAt, Building, Publishing
<1>4. CASE RemoveLast(p)
  <2>1. TreeOK'
    <3>1. /\ config' \in {config, Put(config, "absent")}
          /\ experiments' \in {experiments, Put(experiments, "absent")}
          /\ workspace' \in {workspace, Put(workspace, "absent")}
          /\ marker' \in {marker, Put(marker, NoMarker)}
      BY <1>4, LastRemoved
    <3>2. QED BY <1>2, <3>1, TreeFacts, ContentsFacts DEF Here, TreeOK, Modes, Presence
  <2>2. KnowsAt("remove_sync", run[p].op, run[p].plan, run[p].goal, rec) /\ Goto(p, "remove_sync")
    BY <1>3, <1>4 DEF KnowsAt, Building, Publishing, RemoveLast
  <2>3. QED BY <1>1, <1>2, <1>3, <2>1, <2>2, Proceeds DEF PCs, Allocating
<1>5. CASE SyncRemoved(p)
  <2>1. TreeOK'
    <3>1. /\ config' \in {config, Sync(config)} /\ experiments' \in {experiments, Sync(experiments)}
          /\ workspace' \in {workspace, Sync(workspace)} /\ marker' \in {marker, Sync(marker)}
      BY <1>5 DEF SyncRemoved
    <3>2. QED BY <1>2, <3>1, TreeFacts DEF Here, TreeOK
  <2>2. KnowsAt("remove", run[p].op, run[p].plan, run[p].goal, rec) /\ Goto(p, "remove")
    BY <1>3, <1>5 DEF KnowsAt, Building, Publishing, SyncRemoved
  <2>3. QED BY <1>1, <1>2, <1>3, <2>1, <2>2, Proceeds DEF PCs, Allocating
<1>6. CASE Removed(p)
  <2>1. TreeOK'
    BY <1>2, <1>6 DEF Removed, tree, Here, TreeOK
  <2>2. KnowsAt("record", run[p].op, run[p].plan, "rolled_back", rec) /\ Write(p, "rolled_back")
    BY <1>3, <1>6 DEF KnowsAt, Building, Publishing, Removed, Transitions
  <2>3. QED BY <1>1, <1>2, <1>3, <2>1, <2>2, Proceeds DEF PCs, Allocating, States
<1>7. QED BY <1>4, <1>5, <1>6

------------------------------------------------------------------------------
(* Failures. *)

(* An exception ends the operation, or makes execute() record that it failed. *)
LEMMA RaisePreserves ==
  ASSUME IInv, JournalOK', TreeOK', UNCHANGED <<roots, faults>>, rec' = rec,
         NEW p \in Procs, Raise(p)
  PROVE  IInv'
<1> DEFINE MayRecord ==
      /\ run[p].op = "execute" /\ State = "applying"
      /\ run[p].pc \in Building \/ (run[p].pc = "record" /\ run[p].goal = "applied")
<1>1. CASE ~MayRecord
  <2>1. Leave(p)
    BY <1>1 DEF Raise
  <2>2. QED BY <2>1, Leaves
<1>2. CASE MayRecord
  <2>1. run' = [run EXCEPT ![p].op = "recover", ![p].pc = "residue"] /\ lock' = lock
    BY <1>2 DEF Raise
  <2>2. Here(p) /\ KnowsAt(run[p].pc, run[p].op, run[p].plan, run[p].goal, rec)
    <3>1. run[p].pc \notin {"idle"} \cup Allocating /\ run[p].op # "observe"
      BY <1>2 DEF Building, Publishing, Allocating
    <3>2. QED BY <3>1, IsHere DEF Here, Knows
  <2>3. rec # NoRecord /\ rec.plan = run[p].plan /\ StateIn(rec) = "applying"
    BY <1>2, <2>2 DEF KnowsAt, Building, Publishing, State, StateIn
  <2> HIDE DEF MayRecord
  <2> DEFINE r == [run[p] EXCEPT !.op = "recover", !.pc = "residue"]
  <2>4. r \in Sessions /\ r.pc = "residue" /\ r.op = "recover" /\ r.plan = run[p].plan
    BY <2>2 DEF Here, Sessions, PCs, Ops
  <2>5. run \in [Procs -> Sessions] /\ run' = [run EXCEPT ![p] = r]
    BY <2>1 DEF IInv, TypeOK, Sessions
  <2> HIDE DEF r
  <2>6. Mutates(r) /\ Knows(r, rec')
    BY <2>3, <2>4 DEF Mutates, Knows, KnowsAt, Building, Publishing, Allocating
  <2>7. QED BY <2>1, <2>2, <2>4, <2>5, <2>6, Becomes DEF Here
<1>3. QED BY <1>1, <1>2

LEMMA AdvanceRejectPreserves ==
  ASSUME IInv, NEW p \in Procs, UNCHANGED <<roots, faults>>, AdvanceReject(p)
  PROVE  IInv'
<1>1. Raise(p) /\ UNCHANGED <<journal, tree>>
  BY DEF AdvanceReject
<1>2. QED BY <1>1, StillOK, RaisePreserves

(* An interrupted writer leaves the records as they were. *)
LEMMA Interrupted ==
  ASSUME IInv, UNCHANGED journal \/ J!Interrupt
  PROVE  JournalOK' /\ rec' = rec /\ floor' = floor
BY DEF IInv, TypeOK, JournalOK, journal, J!Interrupt

LEMMA ErrorPreserves ==
  ASSUME IInv, NEW p \in Procs, UNCHANGED <<roots, faults>>, Error(p)
  PROVE  IInv'
<1>1. /\ Raise(p) /\ UNCHANGED <<config, experiments, workspace>>
      /\ UNCHANGED journal \/ J!Interrupt
      /\ marker' \in {marker, WithTemp(NoPlan), Sync(WithTemp(NoPlan))}
  BY DEF Error
<1>2. JournalOK' /\ rec' = rec
  BY <1>1, Interrupted
<1>3. TreeOK
  BY DEF IInv, TypeOK, TreeOK
<1>4. WithTemp(NoPlan) \in DirOf(Contents)
  BY <1>3, ContentsFacts, TreeFacts DEF WithTemp, Markers
<1>5. TreeOK'
  BY <1>1, <1>3, <1>4, DirFacts, ContentsFacts DEF TreeOK
<1>6. QED BY <1>1, <1>2, <1>5, RaisePreserves

LEMMA KillPreserves ==
  ASSUME IInv, NEW p \in Procs, UNCHANGED <<roots, faults>>, Kill(p)
  PROVE  IInv'
<1>1. Leave(p) /\ UNCHANGED tree /\ (UNCHANGED journal \/ J!Interrupt)
  BY DEF Kill
<1>2. JournalOK' /\ rec' = rec
  BY <1>1, Interrupted
<1>3. TreeOK'
  BY <1>1 DEF IInv, TypeOK, TreeOK, tree
<1>4. QED BY <1>1, <1>2, <1>3, Leaves

(* Whatever a power failure leaves of the journal is a record, or nothing where
   nothing was. *)
LEMMA LoseIs ==
  ASSUME JournalOK, J!Lose
  PROVE  JournalOK' /\ floor' = rec' /\ (rec' # NoRecord => rec # NoRecord)
<1>1. PICK n \in 0..Len(rec.hist) : rec' = UpTo(rec, n)
  BY SameRecords DEF J!Lose
<1>2. QED BY <1>1, UpToIs DEF JournalOK, J!Lose

LEMMA PowerLossPreserves == ASSUME IInv, PowerLoss, UNCHANGED faults PROVE IInv'
<1>1. JournalOK' /\ floor' = rec' /\ (rec' # NoRecord => rec # NoRecord)
  BY LoseIs DEF PowerLoss, IInv, TypeOK, JournalOK
<1>2. TreeOK'
  BY AfterLossIs, TreeFacts DEF PowerLoss, IInv, TypeOK, TreeOK
<1>3. /\ stateRoot' \in DirOf(Modes) /\ stateRoot'.now \in stateRoot.disk
      /\ stateRoot'.disk = {stateRoot'.now}
  BY AfterLossIs DEF PowerLoss, IInv, TypeOK
<1>4. /\ journalRoot' \in DirOf(Presence) /\ journalRoot'.disk = {journalRoot'.now}
      /\ \/ journalRoot'.now = "absent"
         \/ journalRoot'.now \in journalRoot.disk /\ stateRoot'.now # "absent"
      /\ stateRoot'.now # "absent" => journalRoot'.now \in journalRoot.disk
  <2>1. CASE stateRoot'.now = "absent"
    BY <2>1, DirFacts DEF PowerLoss, IInv, TypeOK, Presence, Fresh, DirOf
  <2>2. CASE stateRoot'.now # "absent"
    BY <2>2, AfterLossIs DEF PowerLoss, IInv, TypeOK
  <2>3. QED BY <2>1, <2>2
<1>5. run' = [p \in Procs |-> Idle] /\ lock' = [ex |-> Nobody, sh |-> {}]
  BY DEF PowerLoss
<1>6. \A p \in Procs : run'[p] = Idle
  BY <1>5
<1>7. SessionOK(Idle) /\ ~Watches(Idle) /\ ~Mutates(Idle) /\ Idle \in Sessions
  BY DEF SessionOK, Watches, Mutates, Idle, Allocating, Sessions, PCs, Ops, Markers, States
<1>8. TypeOK'
  BY <1>1, <1>2, <1>3, <1>4, <1>5, <1>7 DEF IInv, TypeOK, JournalOK, TreeOK, Sessions
<1>9. LockOK'
  BY <1>5, <1>6, <1>7, Stage05Assumption DEF LockOK
<1>10. RootsOK'
  <2>1. \A p \in Procs : AllocatesAt(run[p].pc)'
    BY <1>6 DEF AllocatesAt, Idle
  <2>2. "present" \in journalRoot'.disk => stateRoot'.disk = {"exact"}
    BY <1>3, <1>4 DEF IInv, RootsOK
  <2>3. rec' # NoRecord => journalRoot'.disk = {"present"}
    BY <1>1, <1>3, <1>4 DEF IInv, RootsOK
  <2>4. QED BY <1>3, <1>4, <2>1, <2>2, <2>3 DEF RootsOK
<1>11. Informed'
  BY <1>6, <1>7 DEF Informed
<1>12. QED BY <1>8, <1>9, <1>10, <1>11 DEF IInv

------------------------------------------------------------------------------
(* The roots are allocated, and operations begin. *)

(* A step that changes where p is, what it locks and the roots at most. *)
LEMMA Settles ==
  ASSUME IInv, UNCHANGED <<journal, tree, faults>>,
         stateRoot' \in DirOf(Modes), journalRoot' \in DirOf(Presence),
         NEW p \in Procs, NEW r \in Sessions, run' = [run EXCEPT ![p] = r], SessionOK(r),
         lock' \in [ex : Procs \cup {Nobody}, sh : SUBSET Procs],
         lock'.ex = p <=> Mutates(r), p \in lock'.sh <=> Watches(r),
         \A q \in Procs \ {p} : (lock'.ex = q <=> lock.ex = q) /\ (q \in lock'.sh <=> q \in lock.sh),
         lock'.ex # Nobody => lock'.sh = {},
         RootsOK', Mutates(r) => Knows(r, rec)
  PROVE  IInv'
<1>1. run \in [Procs -> Sessions] /\ run' \in [Procs -> Sessions] /\ run'[p] = r
      /\ \A q \in Procs \ {p} : run'[q] = run[q]
  BY DEF IInv, TypeOK, Sessions
<1>2. JournalOK' /\ TreeOK' /\ rec' = rec
  BY StillOK
<1>3. TypeOK'
  BY <1>1, <1>2 DEF IInv, TypeOK, JournalOK, TreeOK, Sessions
<1>4. LockOK'
  BY <1>1 DEF IInv, LockOK
<1>5. Informed'
  BY <1>1, <1>2 DEF IInv, Informed
<1>6. QED BY <1>3, <1>4, <1>5 DEF IInv

LEMMA LockFacts ==
  ASSUME IInv
  PROVE  /\ lock \in [ex : Procs \cup {Nobody}, sh : SUBSET Procs]
         /\ \A p \in Procs : lock.ex = p <=> Mutates(run[p])
         /\ \A p \in Procs : p \in lock.sh <=> Watches(run[p])
         /\ lock.ex # Nobody => lock.sh = {}
         /\ run \in [Procs -> Sessions]
         /\ \A p \in Procs : SessionOK(run[p]) /\ run[p] \in Sessions
BY DEF IInv, TypeOK, LockOK, Sessions

(* A step of _allocate_roots. *)
LEMMA AllocatesOn ==
  ASSUME IInv, UNCHANGED <<journal, tree, lock, faults>>,
         stateRoot' \in DirOf(Modes), journalRoot' \in DirOf(Presence), NEW p \in Procs,
         run[p].pc \in Allocating, NEW pc \in Allocating, Goto(p, pc),
         stateRoot'.now \in stateRoot'.disk, journalRoot'.now \in journalRoot'.disk,
         "present" \in journalRoot'.disk => stateRoot'.disk = {"exact"},
         rec # NoRecord => journalRoot'.disk = {"present"},
         AllocatesAt(pc)', \A q \in Procs : q = p \/ AllocatesAt(run[q].pc)'
  PROVE  IInv'
<1>1. pc \in PCs
  BY DEF PCs
<1>2. PICK r \in Sessions :
        /\ run' = [run EXCEPT ![p] = r]
        /\ r.pc = pc /\ r.op = run[p].op /\ r.plan = run[p].plan
  BY <1>1, MovesTo, LockFacts DEF Sessions
<1>3. SessionOK(r) /\ ~Mutates(r) /\ ~Watches(r) /\ ~Mutates(run[p]) /\ ~Watches(run[p])
  BY <1>2, LockFacts DEF SessionOK, Mutates, Watches, Allocating
<1>4. run'[p] = r /\ rec' = rec
  BY <1>2, LockFacts DEF journal
<1>5. RootsOK'
  BY <1>2, <1>4 DEF IInv, RootsOK
<1>6. QED BY <1>2, <1>3, <1>5, LockFacts, Settles

(* What the others, and the journal, rest on when a root is made. *)
LEMMA RootsFacts ==
  ASSUME IInv
  PROVE  /\ stateRoot.now \in stateRoot.disk /\ journalRoot.now \in journalRoot.disk
         /\ stateRoot \in DirOf(Modes) /\ journalRoot \in DirOf(Presence)
         /\ "present" \in journalRoot.disk => stateRoot.disk = {"exact"}
         /\ rec # NoRecord => journalRoot.disk = {"present"}
         /\ \A p \in Procs : AllocatesAt(run[p].pc)
BY DEF IInv, RootsOK, TypeOK

LEMMA AllocatePreserves ==
  ASSUME IInv, NEW p \in Procs, UNCHANGED faults,
         \/ StateRootAbsent(p) \/ MakeStateRoot(p) \/ SetStateMode(p) \/ SyncStateRoot(p)
         \/ StateRootExact(p) \/ RepairStateRoot(p) \/ RepairStateSync(p)
         \/ JournalRootPresent(p) \/ JournalRootAbsent(p) \/ MakeJournalRoot(p) \/ SyncJournalRoot(p)
  PROVE  IInv'
<1> USE DEF StateRootAbsent, MakeStateRoot, SetStateMode, SyncStateRoot, StateRootExact,
            RepairStateRoot, RepairStateSync, JournalRootPresent, JournalRootAbsent,
            MakeJournalRoot, SyncJournalRoot, AllocateStep, Allocate
<1>1. run[p].pc \in Allocating /\ UNCHANGED <<journal, tree, lock>>
  BY DEF Allocating, roots
<1>2. AllocatesAt(run[p].pc)
  BY RootsFacts
<1>3. /\ \A v \in Modes : /\ Put(stateRoot, v) \in DirOf(Modes) /\ Put(stateRoot, v).now = v
                          /\ Put(stateRoot, v).disk = stateRoot.disk \cup {v}
      /\ \A v \in Presence : /\ Put(journalRoot, v) \in DirOf(Presence) /\ Put(journalRoot, v).now = v
                             /\ Put(journalRoot, v).disk = journalRoot.disk \cup {v}
      /\ Sync(stateRoot) \in DirOf(Modes) /\ Sync(stateRoot).now = stateRoot.now
      /\ Sync(stateRoot).disk = {stateRoot.now}
      /\ Sync(journalRoot) \in DirOf(Presence) /\ Sync(journalRoot).now = journalRoot.now
      /\ Sync(journalRoot).disk = {journalRoot.now}
      /\ Fresh("absent") \in DirOf(Presence) /\ Fresh("absent").now = "absent"
      /\ Fresh("absent").disk = {"absent"}
  BY RootsFacts, DirFacts DEF Modes, Presence
<1>4. "exact" \in Modes /\ "provisional" \in Modes /\ "present" \in Presence
  BY DEF Modes, Presence
<1>5. UNCHANGED faults
  OBVIOUS
<1> DEFINE
      OthersOK == \A q \in Procs : q = p \/ AllocatesAt(run[q].pc)'
      Based == /\ stateRoot' \in DirOf(Modes) /\ journalRoot' \in DirOf(Presence)
               /\ stateRoot'.now \in stateRoot'.disk /\ journalRoot'.now \in journalRoot'.disk
               /\ "present" \in journalRoot'.disk => stateRoot'.disk = {"exact"}
               /\ rec # NoRecord => journalRoot'.disk = {"present"}
<1>6. ASSUME NEW pc \in Allocating, Goto(p, pc)
      PROVE  \A q \in Procs : q = p \/ run'[q] = run[q]
  BY <1>6, LockFacts DEF Goto
<1>7. ASSUME NEW pc \in Allocating, Goto(p, pc), Based, AllocatesAt(pc)', OthersOK
      PROVE  IInv'
  BY <1>1, <1>5, <1>7, AllocatesOn
<1>8. CASE StateRootAbsent(p) \/ StateRootExact(p) \/ JournalRootPresent(p)
  <2>1. PICK pc \in {"state_make", "journal_root", "enter"} :
          /\ Goto(p, pc)
          /\ pc = "journal_root" => stateRoot.now = "exact"
          /\ pc = "enter" => journalRoot.now = "present"
    BY <1>8
  <2>2. UNCHANGED roots /\ pc \in Allocating
    BY <1>8 DEF Allocating
  <2>3. Based
    BY <2>2, RootsFacts DEF roots
  <2>4. OthersOK
    BY <1>6, <2>1, <2>2, RootsFacts DEF roots, AllocatesAt
  <2>5. AllocatesAt(pc)'
    BY <2>1, <2>2 DEF roots, AllocatesAt, Allocating
  <2>6. QED BY <1>7, <2>1, <2>2, <2>3, <2>4, <2>5
<1>9. CASE MakeStateRoot(p)
  <2>1. /\ stateRoot' = Put(stateRoot, "provisional") /\ journalRoot' = Fresh("absent")
        /\ Goto(p, "state_mode") /\ stateRoot.now = "absent"
    BY <1>9
  <2>2. rec = NoRecord /\ "present" \notin journalRoot.disk /\ stateRoot.disk # {"exact"}
    BY <2>1, RootsFacts
  <2>3. Based
    BY <1>3, <1>4, <2>1, <2>2
  <2>4. OthersOK
    BY <1>3, <1>4, <1>6, <2>1, <2>2, RootsFacts DEF AllocatesAt, Allocating
  <2>5. AllocatesAt("state_mode")' /\ "state_mode" \in Allocating
    BY <1>3, <1>4, <2>1 DEF AllocatesAt, Allocating
  <2>6. QED BY <1>7, <2>1, <2>3, <2>4, <2>5
<1>10. CASE SetStateMode(p) \/ RepairStateRoot(p)
  <2>1. PICK pc \in {"state_sync", "state_repair_sync"} :
          stateRoot' = Put(stateRoot, "exact") /\ journalRoot' = journalRoot /\ Goto(p, pc)
    BY <1>10
  <2>2. Based
    BY <1>3, <1>4, <2>1, RootsFacts
  <2>3. OthersOK
    BY <1>3, <1>4, <1>6, <2>1, RootsFacts DEF AllocatesAt, Allocating
  <2>4. AllocatesAt(pc)' /\ pc \in Allocating
    BY <1>3, <1>4, <2>1 DEF AllocatesAt, Allocating
  <2>5. QED BY <1>7, <2>1, <2>2, <2>3, <2>4
<1>11. CASE SyncStateRoot(p) \/ RepairStateSync(p) \/ JournalRootAbsent(p)
  <2>1. PICK pc \in {"journal_root", "journal_make"} :
          stateRoot' = Sync(stateRoot) /\ journalRoot' = journalRoot /\ Goto(p, pc)
    BY <1>11
  <2>2. stateRoot.now = "exact"
    BY <1>2, <1>11 DEF AllocatesAt
  <2>3. Based
    BY <1>3, <2>1, <2>2, RootsFacts
  <2>4. OthersOK
    BY <1>3, <1>6, <2>1, <2>2, RootsFacts DEF AllocatesAt, Allocating
  <2>5. AllocatesAt(pc)' /\ pc \in Allocating
    BY <1>3, <2>1, <2>2 DEF AllocatesAt, Allocating
  <2>6. QED BY <1>7, <2>1, <2>3, <2>4, <2>5
<1>12. CASE MakeJournalRoot(p)
  <2>1. /\ stateRoot' = stateRoot /\ journalRoot' = Put(journalRoot, "present")
        /\ Goto(p, "journal_sync") /\ journalRoot.now = "absent" /\ run[p].pc = "journal_make"
    BY <1>12
  <2>2. stateRoot.disk = {"exact"} /\ rec = NoRecord /\ journalRoot.disk # {"present"}
    BY <1>2, <2>1, RootsFacts DEF AllocatesAt
  <2>3. Based
    BY <1>3, <1>4, <2>1, <2>2, RootsFacts
  <2>4. OthersOK
    BY <1>3, <1>4, <1>6, <2>1, <2>2, RootsFacts DEF AllocatesAt, Allocating
  <2>5. AllocatesAt("journal_sync")' /\ "journal_sync" \in Allocating
    BY <1>3, <1>4, <2>1 DEF AllocatesAt, Allocating
  <2>6. QED BY <1>7, <2>1, <2>3, <2>4, <2>5
<1>13. CASE SyncJournalRoot(p)
  <2>1. /\ stateRoot' = stateRoot /\ journalRoot' = Sync(journalRoot)
        /\ Goto(p, "enter") /\ run[p].pc = "journal_sync"
    BY <1>13
  <2>2. journalRoot.now = "present"
    BY <1>2, <2>1 DEF AllocatesAt
  <2>3. Based
    BY <1>3, <2>1, <2>2, RootsFacts
  <2>4. OthersOK
    BY <1>3, <1>6, <2>1, <2>2, RootsFacts DEF AllocatesAt, Allocating
  <2>5. AllocatesAt("enter")' /\ "enter" \in Allocating
    BY <1>3, <2>1, <2>2 DEF AllocatesAt, Allocating
  <2>6. QED BY <1>7, <2>1, <2>3, <2>4, <2>5
<1>14. QED BY <1>8, <1>9, <1>10, <1>11, <1>12, <1>13

LEMMA SyncRootsPreserves ==
  ASSUME IInv, NEW p \in Procs, UNCHANGED faults, SyncRoots(p)
  PROVE  IInv'
<1>1. /\ run[p].pc = "roots_sync" /\ UNCHANGED <<journal, tree, lock>> /\ Goto(p, "create")
      /\ stateRoot' = Sync(stateRoot) /\ journalRoot' = Sync(journalRoot)
  BY DEF SyncRoots, AllocateStep
<1>2. Here(p)
  BY <1>1, NotWatching DEF Allocating
<1>3. run[p].op = "execute" /\ rec = NoRecord
  BY <1>1, <1>2 DEF Here, Knows, KnowsAt
<1>4. journalRoot.now = "present" /\ stateRoot.now = "exact"
  <2>1. journalRoot.now = "present"
    BY <1>1, RootsFacts DEF AllocatesAt, Allocating
  <2>2. QED BY <2>1, RootsFacts
<1>5. /\ stateRoot' \in DirOf(Modes) /\ stateRoot'.now = "exact" /\ stateRoot'.disk = {"exact"}
      /\ journalRoot' \in DirOf(Presence) /\ journalRoot'.now = "present"
      /\ journalRoot'.disk = {"present"}
  BY <1>1, <1>4, RootsFacts, DirFacts DEF Modes, Presence
<1>6. PICK r \in Sessions :
        /\ run' = [run EXCEPT ![p] = r]
        /\ r.pc = "create" /\ r.op = run[p].op /\ r.plan = run[p].plan
  BY <1>1, MovesTo, LockFacts DEF PCs, Sessions
<1>7. SessionOK(r) /\ Mutates(r) /\ ~Watches(r) /\ Mutates(run[p]) /\ ~Watches(run[p])
  BY <1>1, <1>2, <1>3, <1>6 DEF SessionOK, Mutates, Watches, Allocating, Here
<1>8. Knows(r, rec)
  BY <1>3, <1>6 DEF Knows, KnowsAt, Building, Publishing
<1>9. RootsOK'
  <2>1. \A q \in Procs : run'[q].pc = (IF q = p THEN "create" ELSE run[q].pc)
    BY <1>6, LockFacts
  <2>2. \A q \in Procs : AllocatesAt(run[q].pc)'
    BY <1>5, <2>1 DEF AllocatesAt
  <2>3. QED BY <1>5, <2>2 DEF RootsOK
<1>10. UNCHANGED faults
  OBVIOUS
<1>11. QED BY <1>1, <1>5, <1>6, <1>7, <1>8, <1>9, <1>10, LockFacts, Settles

(* An operation begins under no lock, or takes it. *)
LEMMA BeginPreserves ==
  ASSUME IInv, NEW p \in Procs, UNCHANGED faults,
         \/ Enter(p)
         \/ \E plan \in Plans :
              (BeginExecute(p, plan) \/ BeginRollback(p, plan) \/ BeginObserve(p, plan)) /\ UNCHANGED roots
  PROVE  IInv'
<1>1. UNCHANGED <<journal, tree, roots, faults>>
  BY DEF Enter, BeginExecute, BeginRollback, BeginObserve, Allocate
<1>2. stateRoot' \in DirOf(Modes) /\ journalRoot' \in DirOf(Presence)
  BY <1>1, RootsFacts DEF roots
<1>3. run[p].pc \in {"idle", "enter"} /\ ~Mutates(run[p]) /\ ~Watches(run[p])
  <2>1. run[p].pc \in {"idle", "enter"}
    BY DEF Enter, BeginExecute, BeginRollback, BeginObserve, Allocate
  <2>2. QED BY <2>1, LockFacts DEF Mutates, Watches, Allocating, SessionOK
<1>4. ASSUME NEW r \in Sessions, run' = [run EXCEPT ![p] = r],
             r.pc \in {"state_root", "examine"},
             r.pc = "examine" => journalRoot.now = "present"
      PROVE  RootsOK'
  <2>1. run'[p] = r /\ \A q \in Procs \ {p} : run'[q] = run[q]
    BY <1>4, LockFacts
  <2>2. AllocatesAt(r.pc)
    BY <1>4 DEF AllocatesAt, Allocating
  <2>3. \A q \in Procs : AllocatesAt(run[q].pc)'
    BY <1>1, <2>1, <2>2, RootsFacts DEF AllocatesAt, roots
  <2>4. QED BY <1>1, <2>3, RootsFacts DEF RootsOK, roots, journal
<1>5. lock.ex # p /\ p \notin lock.sh
  BY <1>3, LockFacts
<1>6. CASE Enter(p) \/ \E plan \in Plans : BeginRollback(p, plan)
  <2>1. lock = [ex |-> Nobody, sh |-> {}] /\ lock' = [lock EXCEPT !.ex = p]
    BY <1>6 DEF Enter, BeginRollback
  <2>2. lock' = [ex |-> p, sh |-> {}]
    BY <2>1
  <2>3. PICK r \in Sessions :
          /\ run' = [run EXCEPT ![p] = r] /\ r.pc = "examine" /\ r.op \in {"execute", "rollback"}
          /\ r.plan \in Plans
    <3>1. CASE Enter(p)
      <4>1. Goto(p, "examine") /\ run[p].pc = "enter"
        BY <3>1 DEF Enter, Allocate
      <4>2. run[p].op = "execute" /\ run[p].plan \in Plans
        BY <4>1, LockFacts DEF SessionOK, Allocating
      <4>3. QED BY <4>1, <4>2, MovesTo, LockFacts DEF PCs, Sessions
    <3>2. CASE \E plan \in Plans : BeginRollback(p, plan)
      <4>1. PICK plan \in Plans : run' = [run EXCEPT ![p] = Operation("examine", "rollback", plan)]
        BY <3>2 DEF BeginRollback
      <4>2. Operation("examine", "rollback", plan) \in Sessions
        BY DEF Operation, Sessions, PCs, Ops, Markers, States
      <4>3. QED BY <4>1, <4>2 DEF Operation
    <3>3. QED BY <1>6, <3>1, <3>2
  <2>4. journalRoot.now = "present"
    <3>1. CASE Enter(p)
      BY <3>1, RootsFacts DEF Enter, Allocate, AllocatesAt, Allocating
    <3>2. CASE \E plan \in Plans : BeginRollback(p, plan)
      BY <3>2 DEF BeginRollback, RootsExact
    <3>3. QED BY <1>6, <3>1, <3>2
  <2>5. SessionOK(r) /\ Mutates(r) /\ ~Watches(r) /\ Knows(r, rec)
    BY <2>3 DEF SessionOK, Mutates, Watches, Knows, KnowsAt, Allocating, Building, Publishing
  <2>6. RootsOK'
    BY <1>4, <2>3, <2>4
  <2>7. \A q \in Procs : lock.ex # q /\ q \notin lock.sh
    BY <2>1, Stage05Assumption
  <2>8. QED BY <1>1, <1>2, <2>2, <2>3, <2>5, <2>6, <2>7, Settles
<1>7. CASE \E plan \in Plans : BeginExecute(p, plan)
  <2>1. PICK plan \in Plans :
          run' = [run EXCEPT ![p] = Operation("state_root", "execute", plan)] /\ lock' = lock
    BY <1>7 DEF BeginExecute
  <2>2. Operation("state_root", "execute", plan) \in Sessions
    BY DEF Operation, Sessions, PCs, Ops, Markers, States, Allocating
  <2>3. PICK r \in Sessions :
          run' = [run EXCEPT ![p] = r] /\ r.pc = "state_root" /\ r.op = "execute" /\ r.plan \in Plans
    BY <2>1, <2>2 DEF Operation
  <2>4. SessionOK(r) /\ ~Mutates(r) /\ ~Watches(r)
    BY <2>3 DEF SessionOK, Mutates, Watches, Allocating
  <2>5. RootsOK'
    BY <1>4, <2>3
  <2>6. QED BY <1>1, <1>2, <1>5, <2>1, <2>3, <2>4, <2>5, LockFacts, Settles
<1>8. CASE \E plan \in Plans : BeginObserve(p, plan)
  <2>1. PICK plan \in Plans :
          /\ run' = [run EXCEPT ![p] = Operation("examine", "observe", plan)]
          /\ lock.ex = Nobody /\ lock' = [lock EXCEPT !.sh = @ \cup {p}] /\ journalRoot.now = "present"
    BY <1>8 DEF BeginObserve, RootsExact
  <2>2. Operation("examine", "observe", plan) \in Sessions
    BY DEF Operation, Sessions, PCs, Ops, Markers, States, Allocating
  <2>3. PICK r \in Sessions :
          run' = [run EXCEPT ![p] = r] /\ r.pc = "examine" /\ r.op = "observe" /\ r.plan \in Plans
    BY <2>1, <2>2 DEF Operation
  <2>4. SessionOK(r) /\ ~Mutates(r) /\ Watches(r)
    BY <2>3 DEF SessionOK, Mutates, Watches, Allocating
  <2>5. RootsOK'
    BY <1>4, <2>1, <2>3
  <2>6. /\ lock' \in [ex : Procs \cup {Nobody}, sh : SUBSET Procs]
        /\ lock'.ex = lock.ex /\ lock'.sh = lock.sh \cup {p} /\ lock'.ex # p
    BY <2>1, LockFacts, Stage05Assumption
  <2>7. QED BY <1>1, <1>2, <2>1, <2>3, <2>4, <2>5, <2>6, LockFacts, Settles
<1>9. QED BY <1>6, <1>7, <1>8

LEMMA TurnedAwayPreserves ==
  ASSUME IInv, NEW p \in Procs, UNCHANGED faults, AllocateReject(p) \/ EnterBusy(p)
  PROVE  IInv'
<1>1. Leave(p) /\ UNCHANGED <<journal, roots, tree>>
  BY DEF AllocateReject, EnterBusy, Allocate
<1>2. QED BY <1>1, StillOK, Leaves

------------------------------------------------------------------------------
(* The first part of the invariant holds. *)

LEMMA InitIsIInv == ASSUME Init PROVE IInv
<1>1. /\ rec = NoRecord /\ floor = NoRecord /\ blocked = FALSE
      /\ stateRoot = Fresh("absent") /\ journalRoot = Fresh("absent") /\ config = Fresh("absent")
      /\ experiments = Fresh("absent") /\ workspace = Fresh("absent") /\ marker = Fresh(NoMarker)
      /\ lock = [ex |-> Nobody, sh |-> {}] /\ run = [p \in Procs |-> Idle] /\ faults \in FaultModels
  BY SameRecords DEF Init, J!Init
<1>2. SessionOK(Idle) /\ ~Watches(Idle) /\ ~Mutates(Idle) /\ Idle \in Sessions /\ Idle.pc = "idle"
  BY DEF SessionOK, Watches, Mutates, Idle, Allocating, Sessions, PCs, Ops, Markers, States
<1>3. TypeOK
  <2>1. Fresh("absent") \in DirOf(Modes) /\ Fresh("absent") \in DirOf(Presence)
        /\ Fresh(NoMarker) \in DirOf(Contents)
    BY DEF Fresh, DirOf, Modes, Presence, NoMarker, Contents, Markers
  <2>2. QED BY <1>1, <1>2, <2>1 DEF TypeOK, Sessions
<1>4. LockOK
  BY <1>1, <1>2, Stage05Assumption DEF LockOK
<1>5. RootsOK
  BY <1>1, <1>2 DEF RootsOK, Fresh, AllocatesAt
<1>6. Informed
  BY <1>1, <1>2 DEF Informed
<1>7. QED BY <1>3, <1>4, <1>5, <1>6 DEF IInv

LEMMA StepPreserves ==
  ASSUME IInv, NEW p \in Procs, UNCHANGED faults, Start(p) \/ Step(p) \/ Fault(p)
  PROVE  IInv'
<1>1. CASE Start(p)
  BY <1>1, BeginPreserves DEF Start
<1>2. CASE AllocateRoots(p)
  BY <1>2, AllocatePreserves, SyncRootsPreserves, BeginPreserves, TurnedAwayPreserves
     DEF AllocateRoots
<1>3. CASE Execute(p) /\ UNCHANGED roots
  BY <1>3, EndPreserves, ExaminePreserves, CreatePreserves, PrefixPreserves, BuildPreserves,
     RecordedPreserves DEF Execute
<1>4. CASE Rollback(p) /\ UNCHANGED roots
  BY <1>4, EndPreserves, ExaminePreserves, PrefixPreserves, RecordedPreserves, RemovePreserves
     DEF Rollback
<1>5. CASE Shared(p) /\ UNCHANGED roots
  BY <1>5, PrefixPreserves, EndPreserves, AdvancePreserves, AdvanceRejectPreserves,
     RecordedPreserves DEF Shared
<1>6. CASE EndObserve(p) /\ UNCHANGED roots
  BY <1>6, EndPreserves
<1>7. CASE Fault(p)
  BY <1>7, EndPreserves, ErrorPreserves, KillPreserves DEF Fault
<1>8. QED BY <1>1, <1>2, <1>3, <1>4, <1>5, <1>6, <1>7 DEF Step

LEMMA NextPreserves == ASSUME IInv, [Next]_<<vars, faults>> PROVE IInv'
<1>1. CASE UNCHANGED <<vars, faults>>
  BY <1>1 DEF vars, journal, roots, tree, IInv, TypeOK, LockOK, RootsOK, AllocatesAt, Informed
<1>2. CASE Next
  <2>1. UNCHANGED faults
    BY <1>2 DEF Next
  <2>2. CASE PowerLoss
    BY <2>1, <2>2, PowerLossPreserves
  <2>3. CASE \E p \in Procs : Start(p) \/ Step(p) \/ Fault(p)
    BY <2>1, <2>3, StepPreserves
  <2>4. QED BY <1>2, <2>2, <2>3 DEF Next
<1>3. QED BY <1>1, <1>2

(* Every process is at a step of execute(), rollback() or observe() at which the flock,
   the two roots and the journal are what that step has made of them, however many
   processes there are and whatever fails. *)
THEOREM Invariance == Spec => []IInv
<1>1. Init => IInv
  BY InitIsIInv
<1>2. IInv /\ [Next]_<<vars, faults>> => IInv'
  BY NextPreserves
<1>3. QED BY <1>1, <1>2, PTL DEF Spec

(* Every variable stays in its domain, whatever fails: journal, roots, resources,
   flock and every process's place in its operation. *)
THEOREM TypeCorrectness == Spec => []TypeOK
<1>1. IInv => TypeOK
  BY DEF IInv
<1>2. QED BY <1>1, Invariance, PTL

LEMMA MutatesAlone == ASSUME IInv PROVE OneMutator
<1>1. ASSUME NEW p \in Procs, run[p].pc \notin {"idle"} \cup Allocating
      PROVE  IF run[p].op = "observe" THEN lock.ex = Nobody ELSE lock.ex = p
  BY <1>1, LockFacts DEF Mutates, Watches
<1>2. QED BY <1>1 DEF OneMutator

(* The flock of the journal root admits one mutator, and no reader beside it, for
   any number of processes and whatever is killed, fails or loses power. *)
THEOREM MutualExclusion == Spec => []OneMutator
BY MutatesAlone, Invariance, PTL

LEMMA RootsHold == ASSUME IInv PROVE RootsSurvive
<1>1. RecordHasRoots
  BY RootsFacts DEF RecordHasRoots
<1>2. RootsNeverStranded
  BY RootsFacts DEF RootsNeverStranded
<1>3. QED BY <1>1, <1>2 DEF RootsSurvive

(* However many first executes allocate the roots at once, a record is there only
   in directories that are durable, and the roots can always be completed. *)
THEOREM RootsAreSafe == Spec => []RootsSurvive
BY RootsHold, Invariance, PTL

(* What a process may do once the journal is failed, rolling_back or rolled_back. *)
NothingBack ==
  /\ config'.now # "absent" => config.now # "absent"
  /\ experiments'.now # "absent" => experiments.now # "absent"
  /\ workspace'.now # "absent" => workspace.now # "absent"
  /\ marker'.now.final # NoPlan => marker.now.final # NoPlan

LEMMA RevokedTakesAway ==
  ASSUME IInv, Revoked, NEW p \in Procs, Start(p) \/ Step(p) \/ Fault(p)
  PROVE  NothingBack
<1>1. StateIn(rec) \in {"failed", "rolling_back", "rolled_back"}
  BY DEF Revoked, State, StateIn
<1>2. TreeOK
  BY DEF IInv, TypeOK, TreeOK
<1>3. Sync(config).now = config.now /\ Sync(experiments).now = experiments.now
      /\ Sync(workspace).now = workspace.now /\ Sync(marker).now = marker.now
  BY DEF Sync, Fresh
<1>4. /\ \A v : Put(config, v).now = v /\ Put(experiments, v).now = v /\ Put(workspace, v).now = v
      /\ \A t \in Markers \cup {Torn} : WithTemp(t).now.final = marker.now.final
  BY <1>2, ContentsFacts DEF Put, WithTemp
<1>5. CASE UNCHANGED tree
  BY <1>5 DEF tree, NothingBack
<1>6. CASE run[p].pc \in Building
  <2>1. Here(p)
    BY <1>6, NotWatching DEF Building, Publishing, Allocating
  <2>2. StateIn(rec) = "applying"
    BY <1>6, <2>1 DEF Here, Knows, KnowsAt
  <2>3. QED BY <1>1, <2>2
<1>7. CASE RemoveResidue(p) \/ SyncResidue(p) \/ RepairSync(p) \/ SyncPrefix(p) \/ SyncRemoved(p)
  <2>1. /\ config' \in {config, Sync(config)} /\ experiments' \in {experiments, Sync(experiments)}
        /\ workspace' \in {workspace, Sync(workspace)}
        /\ marker' \in {marker, Sync(marker), WithTemp(NoPlan)}
    BY <1>7 DEF RemoveResidue, SyncResidue, RepairSync, SyncPrefix, SyncRemoved, WithTemp
  <2>2. QED BY <1>3, <1>4, <2>1 DEF NothingBack, Markers
<1>8. CASE RepairMode(p)  \* only in state applying
  BY <1>1, <1>8 DEF RepairMode, MayRepair, State, StateIn
<1>9. CASE RemoveLast(p)
  <2>1. /\ config' \in {config, Put(config, "absent")}
        /\ experiments' \in {experiments, Put(experiments, "absent")}
        /\ workspace' \in {workspace, Put(workspace, "absent")}
        /\ marker' \in {marker, Put(marker, NoMarker)}
    BY <1>9, LastRemoved
  <2>2. Put(marker, NoMarker).now.final = NoPlan
    BY DEF Put, NoMarker
  <2>3. QED BY <1>4, <2>1, <2>2 DEF NothingBack
<1>10. CASE Error(p) /\ ~UNCHANGED tree
  <2>1. run[p].pc \in Publishing
    BY <1>10 DEF Error, tree
  <2>2. QED BY <1>6, <2>1 DEF Building
<1>11. CASE Start(p) \/ AllocateRoots(p)
  <2>1. UNCHANGED tree
    BY <1>11 DEF Start, BeginExecute, BeginRollback, BeginObserve, Allocate, AllocateRoots,
       StateRootAbsent, MakeStateRoot, SetStateMode, SyncStateRoot, StateRootExact, RepairStateRoot,
       RepairStateSync, JournalRootPresent, JournalRootAbsent, MakeJournalRoot, SyncJournalRoot,
       AllocateReject, SyncRoots, Enter, EnterBusy, AllocateStep
  <2>2. QED BY <1>5, <2>1
<1>12. CASE Execute(p)
  <2>1. \/ UNCHANGED tree \/ SyncPrefix(p) \/ run[p].pc \in Building
    BY <1>12 DEF Execute, EndExecute, StartCreate, CreateRecord, CreateSync, StartApplying,
       ResumeApplying, ResumeApplied, Accepted, ExecutePrefix, Resume, RecoverPrefix, MakeConfig,
       SetConfigMode, SyncConfig, MakeExperiments, SyncExperiments, MakeWorkspace, SyncWorkspace,
       CreateMarkerTemp, WriteMarker, LinkMarker, SyncMarker, UnlinkMarkerTemp, SyncMarkerUnlink,
       MarkerStep, Built, RecordedApplying, RecordedApplied, Recorded, Building, Publishing
  <2>2. QED BY <1>5, <1>6, <1>7, <2>1
<1>13. CASE Rollback(p)
  <2>1. UNCHANGED tree \/ RemoveLast(p) \/ SyncRemoved(p)
    BY <1>13 DEF Rollback, RollbackStart, EndRollback, RollbackPrefix, EndRolledBack,
       RecordedFailed, RecordedRollingBack, Recorded, Removed
  <2>2. QED BY <1>5, <1>7, <1>9, <2>1
<1>14. CASE Shared(p)
  <2>1. UNCHANGED tree \/ RemoveResidue(p) \/ SyncResidue(p) \/ RepairMode(p) \/ RepairSync(p)
    BY <1>14 DEF Shared, NoResidue, PrefixReject, Advance, AdvanceReject, RecordedLast, Recorded
  <2>2. QED BY <1>5, <1>7, <1>8, <2>1
<1>15. CASE EndObserve(p) \/ Refuse(p) \/ Kill(p)
  BY <1>5, <1>15 DEF EndObserve, Refuse, Kill
<1>16. QED BY <1>5, <1>10, <1>11, <1>12, <1>13, <1>14, <1>15 DEF Step, Fault

LEMMA RevokedOnlyLoses ==
  ASSUME IInv, [Next]_<<vars, faults>>
  PROVE  [Revoked /\ ~PowerLoss => \A i \in 1..4 : Present[i]' => Present[i]]_vars
<1>1. SUFFICES ASSUME Next, Revoked, ~PowerLoss
               PROVE  \A i \in 1..4 : Present[i]' => Present[i]
  BY DEF vars
<1>2. PICK p \in Procs : Start(p) \/ Step(p) \/ Fault(p)
  BY <1>1 DEF Next
<1>3. NothingBack
  BY <1>1, <1>2, RevokedTakesAway
<1>4. /\ Present[1]' => Present[1]
      /\ Present[2]' => Present[2]
      /\ Present[3]' => Present[3]
      /\ Present[4]' => Present[4]
  BY <1>3 DEF NothingBack, Present
<1>5. QED BY <1>4

(* Once the journal is failed, rolling_back or rolled_back, no step of any process,
   and no kill, error or refusal, brings a resource back. *)
THEOREM RevocationOnlyTakesAway == Spec => OnlyTakenAway
<1>1. IInv /\ [Next]_<<vars, faults>>
        => [Revoked /\ ~PowerLoss => \A i \in 1..4 : Present[i]' => Present[i]]_vars
  BY RevokedOnlyLoses
<1>2. QED BY <1>1, Invariance, PTL DEF Spec, OnlyTakenAway

------------------------------------------------------------------------------
(* The inductive invariant, second part: what the four resources are, and what a
   power failure may make of them. *)

NothingThere(c, e, w, m) == c = "absent" /\ e = "absent" /\ w = "absent" /\ m = NoMarker

(* One after the other, the marker last, and for the plan of the record j. *)
Ordered(j, c, e, w, m) ==
  /\ e = "present" => c = "exact"
  /\ w = "present" => e = "present"
  /\ m # NoMarker => w = "present"
  /\ m.final \in {NoPlan, j.plan} /\ m.temp \in {NoPlan, Torn, j.plan}

(* The resources c, e, w and m are what the record j says they may be: what the next
   operation finds, whether it comes after a crash or not. *)
Stable(j, c, e, w, m) ==
  /\ StateIn(j) \in {"none", "planned", "rolled_back"} => NothingThere(c, e, w, m)
  /\ StateIn(j) \in {"applied", "validated"} =>
       c = "exact" /\ e = "present" /\ w = "present" /\ m = [final |-> j.plan, temp |-> NoPlan]
  /\ StateIn(j) \in {"failed", "rolling_back"} => c # "provisional" /\ m.temp = NoPlan
  /\ Ordered(j, c, e, w, m)

NowStable == Stable(rec, config.now, experiments.now, workspace.now, marker.now)

Marked(final, temp) == marker.now = [final |-> final, temp |-> temp]

(* What a mutator knows of the resources, wherever it is. *)
TreeAt(pc, plan, goal) ==
  /\ pc = "config_mode" => config.now = "provisional"
  /\ pc \in {"config_sync", "repair_sync"} => config.now = "exact" /\ experiments.now = "absent"
  /\ pc \in {"sync", "resume", "build"} => config.now # "provisional" /\ marker.now.temp = NoPlan
  /\ pc = "experiments_sync" => experiments.now = "present" /\ workspace.now = "absent"
  /\ pc = "workspace_sync" => workspace.now = "present" /\ marker.now = NoMarker
  /\ pc \in Publishing \cup {"marker_unlink_sync"} => workspace.now = "present"
  /\ pc = "marker_write" => Marked(NoPlan, Torn)
  /\ pc = "marker_link" => Marked(NoPlan, plan)
  /\ pc \in {"marker_sync", "marker_unlink"} => Marked(plan, plan)
  /\ pc = "marker_unlink_sync" => Marked(plan, NoPlan)
  /\ pc = "record" /\ goal = "applied" => workspace.now = "present" /\ Marked(plan, NoPlan)
  /\ pc = "record" /\ goal \in {"failed", "rolling_back"} =>
       config.now # "provisional" /\ marker.now.temp = NoPlan
  /\ \/ pc = "record" /\ goal = "rolled_back"
     \/ pc = "record_sync" /\ goal = "applying"
     => NothingThere(config.now, experiments.now, workspace.now, marker.now)

AtWork == \A p \in Procs : Mutates(run[p]) => TreeAt(run[p].pc, run[p].plan, run[p].goal)

Synced(d) == d.disk = {d.now}

(* Each change is synced before the next: at most one directory is not, and only
   between a change and the fsync that follows it. *)
SyncedAt(pc) ==
  /\ \/ Synced(config) \/ pc \in {"config_mode", "config_sync", "repair_sync"}
     \/ pc = "remove_sync" /\ config.now = "absent"
  /\ \/ Synced(experiments) \/ pc = "experiments_sync"
     \/ pc = "remove_sync" /\ config.now # "absent" /\ experiments.now = "absent"
  /\ \/ Synced(workspace) \/ pc = "workspace_sync"
     \/ pc = "remove_sync" /\ experiments.now = "present" /\ workspace.now = "absent"
  /\ \/ Synced(marker) \/ pc \in Publishing \cup {"marker_unlink_sync", "residue_sync"}
     \/ pc = "remove_sync" /\ workspace.now = "present" /\ marker.now = NoMarker
  /\ rec = floor \/ pc \in {"create_sync", "record_sync"}

(* Whatever a power failure leaves of each directory is stable for the record j. *)
CrashStable(j) ==
  \A c \in config.disk, e \in experiments.disk, w \in workspace.disk, m \in marker.disk :
    Stable(j, c, e, IF e = "absent" THEN "absent" ELSE w, IF c = "absent" THEN NoMarker ELSE m)

(* At most one transition is not acknowledged yet. *)
OneAhead ==
  \/ rec = floor
  \/ floor = NoRecord /\ Len(rec.hist) = 1
  \/ floor # NoRecord /\ \E st \in States : rec = After(floor, st)

PowerAt(pc) ==
  /\ CrashStable(rec) /\ CrashStable(floor)
  /\ config.now \in config.disk /\ experiments.now \in experiments.disk
  /\ workspace.now \in workspace.disk /\ marker.now \in marker.disk
  /\ SyncedAt(pc)
  /\ OneAhead

PowerSafe ==
  "power" \in faults =>
    /\ \A p \in Procs : Mutates(run[p]) => PowerAt(run[p].pc)
    /\ lock.ex = Nobody => PowerAt("idle")

OneKind == "power" \in faults => faults \cap {"kill", "error"} = {}

TreeInv == OneKind /\ NowStable /\ AtWork /\ PowerSafe

------------------------------------------------------------------------------
(* Lemmas about the operators of the second part. *)

LEMMA PrefixIs ==
  ASSUME TreeOK, NowStable
  PROVE  /\ IsPrefixShaped
         /\ PrefixLength = 4 <=> marker.now.final # NoPlan
         /\ PrefixLength = 3 <=> workspace.now = "present" /\ marker.now.final = NoPlan
         /\ PrefixLength = 2 <=> experiments.now = "present" /\ workspace.now = "absent"
         /\ PrefixLength = 1 <=> config.now # "absent" /\ experiments.now = "absent"
         /\ PrefixLength = 0 <=> config.now = "absent"
<1>1. /\ marker.now.final # NoPlan => workspace.now = "present"
      /\ workspace.now = "present" => experiments.now = "present"
      /\ experiments.now = "present" => config.now = "exact"
      /\ workspace.now \in {"absent", "present"} /\ experiments.now \in {"absent", "present"}
  BY DEF NowStable, Stable, Ordered, NoMarker, TreeOK, DirOf, Presence
<1>2. /\ Present[1] <=> config.now # "absent"
      /\ Present[2] <=> experiments.now # "absent"
      /\ Present[3] <=> workspace.now # "absent"
      /\ Present[4] <=> marker.now.final # NoPlan
  BY DEF Present
<1>3. IsPrefixShaped
  <2>1. ASSUME NEW i \in 1..3 PROVE Present[i + 1] => Present[i]
    <3>1. CASE i = 1
      BY <1>1, <1>2, <3>1
    <3>2. CASE i = 2
      BY <1>1, <1>2, <3>2
    <3>3. CASE i = 3
      BY <1>1, <1>2, <3>3
    <3>4. QED BY <3>1, <3>2, <3>3
  <2>2. QED BY <2>1 DEF IsPrefixShaped
<1>4. ASSUME NEW n \in 0..4,
             Present[1] <=> 1 <= n, Present[2] <=> 2 <= n, Present[3] <=> 3 <= n, Present[4] <=> 4 <= n
      PROVE  PrefixLength = n
  <2>1. {i \in 1..4 : Present[i]} = 1..n
    <3>1. \A i \in 1..4 : i = 1 \/ i = 2 \/ i = 3 \/ i = 4
      OBVIOUS
    <3>2. \A i \in 1..4 : Present[i] <=> i <= n
      BY <1>4, <3>1
    <3>3. QED BY <3>2
  <2>2. Cardinality(1..n) = n
    <3>1. \A a, b \in Int : Cardinality(a..b) = IF a > b THEN 0 ELSE b - a + 1
      BY FS_Interval
    <3>2. Cardinality(1..n) = IF 1 > n THEN 0 ELSE n - 1 + 1
      BY <3>1
    <3>3. QED BY <3>2
  <2>3. QED BY <2>1, <2>2 DEF PrefixLength
<1>5. CASE marker.now.final # NoPlan
  <2>1. PrefixLength = 4
    BY <1>1, <1>2, <1>4, <1>5
  <2>2. QED BY <1>1, <1>3, <1>5, <2>1
<1>6. CASE marker.now.final = NoPlan /\ workspace.now = "present"
  <2>1. PrefixLength = 3
    BY <1>1, <1>2, <1>4, <1>6
  <2>2. QED BY <1>1, <1>3, <1>6, <2>1
<1>7. CASE marker.now.final = NoPlan /\ workspace.now = "absent" /\ experiments.now = "present"
  <2>1. PrefixLength = 2
    BY <1>1, <1>2, <1>4, <1>7
  <2>2. QED BY <1>1, <1>3, <1>7, <2>1
<1>8. CASE marker.now.final = NoPlan /\ experiments.now = "absent" /\ config.now # "absent"
  <2>1. PrefixLength = 1
    BY <1>1, <1>2, <1>4, <1>8
  <2>2. QED BY <1>1, <1>3, <1>8, <2>1
<1>9. CASE marker.now.final = NoPlan /\ config.now = "absent"
  <2>1. PrefixLength = 0
    BY <1>1, <1>2, <1>4, <1>9
  <2>2. QED BY <1>1, <1>3, <1>9, <2>1
<1>10. QED BY <1>1, <1>5, <1>6, <1>7, <1>8, <1>9

(* A step that changes neither the journal nor the tree. *)
LEMMA SameTree ==
  ASSUME UNCHANGED <<journal, tree>>
  PROVE  /\ NowStable' <=> NowStable
         /\ \A pc, plan, goal : TreeAt(pc, plan, goal)' <=> TreeAt(pc, plan, goal)
         /\ \A pc : PowerAt(pc)' <=> PowerAt(pc)
BY DEF journal, tree, NowStable, TreeAt, Marked, PowerAt, CrashStable, SyncedAt, Synced, OneAhead

Unsyncing == {"config_mode", "config_sync", "repair_sync", "experiments_sync", "workspace_sync",
              "marker_unlink_sync", "residue_sync", "remove_sync", "create_sync", "record_sync"}
             \cup Publishing

AllSynced ==
  Synced(config) /\ Synced(experiments) /\ Synced(workspace) /\ Synced(marker) /\ rec = floor

(* Between operations, and where nothing waits for an fsync, nothing could be lost. *)
LEMMA QuietTree ==
  ASSUME NEW pc, PowerAt(pc), pc \notin Unsyncing
  PROVE  AllSynced /\ \A other : PowerAt(other)
BY DEF PowerAt, SyncedAt, AllSynced, Unsyncing

(* What the mutator leaves, when it goes on. *)
LEMMA TreeGoesOn ==
  ASSUME IInv, TreeInv, UNCHANGED <<lock, faults>>,
         NEW p \in Procs, NEW pc \in PCs, NEW goal \in States, NEW plan, plan = run[p].plan,
         \/ Goto(p, pc) /\ goal = run[p].goal
         \/ Write(p, goal) /\ pc = "record",
         Mutates(run[p]), pc \notin {"idle"} \cup Allocating,
         NowStable', TreeAt(pc, plan, goal)', "power" \in faults => PowerAt(pc)'
  PROVE  TreeInv'
<1>1. PICK r \in Sessions :
        /\ run' = [run EXCEPT ![p] = r]
        /\ r.pc = pc /\ r.op = run[p].op /\ r.plan = run[p].plan /\ r.goal = goal
  BY MovesTo, LockFacts
<1>2. run'[p] = r /\ \A q \in Procs \ {p} : run'[q] = run[q] /\ ~Mutates(run[q])
  BY <1>1, LockFacts, Alone DEF IInv
<1>3. lock.ex = p /\ p # Nobody
  BY LockFacts, Stage05Assumption
<1>4. AtWork'
  BY <1>1, <1>2 DEF AtWork
<1>5. PowerSafe'
  BY <1>1, <1>2, <1>3 DEF PowerSafe
<1>6. QED BY <1>4, <1>5 DEF TreeInv, OneKind

(* What it leaves behind, when its operation ends. *)
LEMMA TreeLeaves ==
  ASSUME IInv, TreeInv, UNCHANGED faults, NEW p \in Procs, Leave(p), NowStable',
         IF Mutates(run[p]) THEN "power" \in faults => PowerAt("idle")'
         ELSE UNCHANGED <<journal, tree>>
  PROVE  TreeInv'
<1>1. run'[p] = Idle /\ \A q \in Procs \ {p} : run'[q] = run[q]
  BY LockFacts DEF Leave
<1>2. ~Mutates(Idle)
  BY DEF Mutates, Idle
<1>3. CASE Mutates(run[p])
  <2>1. \A q \in Procs : ~Mutates(run'[q])
    BY <1>1, <1>2, <1>3, Alone DEF IInv
  <2>2. QED BY <1>3, <2>1 DEF TreeInv, OneKind, AtWork, PowerSafe
<1>4. CASE ~Mutates(run[p])
  <2>1. lock'.ex = lock.ex
    BY <1>4, LockFacts DEF Leave, LockWithout
  <2>2. \A q \in Procs : Mutates(run'[q]) => Mutates(run[q]) /\ run'[q] = run[q]
    BY <1>1, <1>2
  <2>3. AtWork'
    BY <1>4, <2>2, SameTree DEF TreeInv, AtWork
  <2>4. PowerSafe'
    BY <1>4, <2>1, <2>2, SameTree DEF TreeInv, PowerSafe
  <2>5. QED BY <2>3, <2>4 DEF TreeInv, OneKind
<1>5. QED BY <1>3, <1>4

(* What the invariant says where the mutator is. *)
LEMMA WorkFacts ==
  ASSUME IInv, TreeInv, NEW p \in Procs, Mutates(run[p])
  PROVE  /\ TreeAt(run[p].pc, run[p].plan, run[p].goal) /\ NowStable /\ TreeOK
         /\ "power" \in faults => PowerAt(run[p].pc)
         /\ run[p].plan \in Plans /\ run[p].plan # NoPlan /\ run[p].goal \in States
         /\ Knows(run[p], rec)
<1>1. run[p].plan \in Plans /\ run[p].goal \in States
  BY LockFacts DEF SessionOK, Mutates, Sessions
<1>2. QED BY <1>1, NoPlanIsNoPlan DEF TreeInv, AtWork, PowerSafe, IInv, Informed, TypeOK, TreeOK

(* The mutator moves on, and nothing else changes. *)
LEMMA MovesOnly ==
  ASSUME IInv, TreeInv, UNCHANGED <<journal, tree, lock, faults>>,
         NEW p \in Procs, NEW pc \in PCs, NEW goal \in States,
         \/ Goto(p, pc) /\ goal = run[p].goal
         \/ Write(p, goal) /\ pc = "record",
         Mutates(run[p]), run[p].pc \notin Unsyncing, pc \notin {"idle"} \cup Allocating,
         TreeAt(pc, run[p].plan, goal)
  PROVE  TreeInv'
<1> PICK plan : plan = run[p].plan
  OBVIOUS
<1>1. NowStable' /\ TreeAt(pc, plan, goal)' /\ ("power" \in faults => PowerAt(pc)')
  BY SameTree, WorkFacts, QuietTree
<1>2. QED BY <1>1, TreeGoesOn

(* An operation ends, and nothing else changes. *)
LEMMA LeavesOnly ==
  ASSUME IInv, TreeInv, UNCHANGED <<journal, tree, faults>>, NEW p \in Procs, Leave(p),
         run[p].pc \notin Unsyncing \/ "power" \notin faults
  PROVE  TreeInv'
<1>1. NowStable'
  BY SameTree DEF TreeInv
<1>2. Mutates(run[p]) /\ "power" \in faults => PowerAt("idle")'
  BY SameTree, WorkFacts, QuietTree
<1>3. QED BY <1>1, <1>2, TreeLeaves

(* While something is being created, or taken away, what may be there is in order. *)
LEMMA StableStates ==
  ASSUME NEW j
  PROVE  /\ StateIn(j) = "applying" => \A c, e, w, m : Stable(j, c, e, w, m) <=> Ordered(j, c, e, w, m)
         /\ StateIn(j) = "rolling_back" => \A c, e, w, m :
              Stable(j, c, e, w, m) <=> Ordered(j, c, e, w, m) /\ c # "provisional" /\ m.temp = NoPlan
BY DEF Stable

(* When all is synced, a power failure finds what is there now. *)
LEMMA SettledIsSafe ==
  ASSUME TreeOK, AllSynced, NEW j, Stable(j, config.now, experiments.now, workspace.now, marker.now)
  PROVE  CrashStable(j)
<1>1. /\ experiments.now = "absent" => workspace.now = "absent"
      /\ config.now = "absent" => marker.now = NoMarker
  BY DEF Stable, Ordered, TreeOK, DirOf, Presence
<1>2. QED BY <1>1 DEF CrashStable, AllSynced, Synced

(* A step of the tree: the journal is as it was, and acknowledged. *)
LEMMA PowerStep ==
  ASSUME UNCHANGED <<rec, floor>>, rec = floor, NEW pc, CrashStable(rec)', SyncedAt(pc)',
         config'.now \in config'.disk, experiments'.now \in experiments'.disk,
         workspace'.now \in workspace'.disk, marker'.now \in marker'.disk
  PROVE  PowerAt(pc)'
BY DEF PowerAt, OneAhead, CrashStable

(* The steps that only look at the tree, and decide. *)
LEMMA DecideTree ==
  ASSUME IInv, TreeInv, NEW p \in Procs, UNCHANGED <<roots, faults>>,
         \/ StartCreate(p) \/ StartApplying(p) \/ ResumeApplying(p) \/ ResumeApplied(p)
         \/ RollbackStart(p) \/ NoResidue(p) \/ ExecutePrefix(p) \/ Resume(p) \/ RecoverPrefix(p)
         \/ RollbackPrefix(p) \/ Built(p) \/ Removed(p)
  PROVE  TreeInv'
<1>1. /\ run[p].pc \in {"examine", "residue", "prefix", "resume", "build", "remove"}
      /\ run[p].pc = "examine" => run[p].op # "observe"
      /\ UNCHANGED <<journal, tree, lock, faults>>
  BY DEF StartCreate, StartApplying, ResumeApplying, ResumeApplied, RollbackStart, Accepted, Examine,
         NoResidue, ExecutePrefix, Resume, RecoverPrefix, RollbackPrefix, PrefixExact, Built, Removed
<1>2. Mutates(run[p]) /\ run[p].pc \notin Unsyncing
  <2>1. run[p].op # "observe"
    BY <1>1, LockFacts DEF SessionOK
  <2>2. QED BY <1>1, <2>1 DEF Mutates, Allocating, Unsyncing, Publishing
<1>3. /\ TreeAt(run[p].pc, run[p].plan, run[p].goal) /\ NowStable /\ TreeOK
      /\ run[p].plan # NoPlan /\ run[p].goal \in States
      /\ KnowsAt(run[p].pc, run[p].op, run[p].plan, run[p].goal, rec)
  BY <1>2, WorkFacts DEF Knows
<1>4. State = StateIn(rec)
  BY DEF State, StateIn
<1>5. ASSUME NEW pc \in {"roots_sync", "residue", "prefix", "remove"}, Goto(p, pc)
      PROVE  TreeInv'
  <2>1. TreeAt(pc, run[p].plan, run[p].goal) /\ pc \in PCs /\ pc \notin {"idle"} \cup Allocating
    BY <1>5 DEF TreeAt, PCs, Allocating, Publishing
  <2>2. QED BY <1>1, <1>2, <1>3, <1>5, <2>1, MovesOnly
<1>6. ASSUME NEW pc \in {"sync", "resume", "build"}, Goto(p, pc),
             config.now # "provisional", marker.now.temp = NoPlan
      PROVE  TreeInv'
  <2>1. TreeAt(pc, run[p].plan, run[p].goal) /\ pc \in PCs /\ pc \notin {"idle"} \cup Allocating
    BY <1>6 DEF TreeAt, PCs, Allocating, Publishing, Building
  <2>2. QED BY <1>1, <1>2, <1>3, <1>6, <2>1, MovesOnly
<1>7. ASSUME NEW goal \in States, Write(p, goal), TreeAt("record", run[p].plan, goal)
      PROVE  TreeInv'
  <2>1. "record" \in PCs /\ "record" \notin {"idle"} \cup Allocating
    BY DEF PCs, Allocating
  <2>2. QED BY <1>1, <1>2, <1>7, <2>1, MovesOnly
<1>8. CASE StartCreate(p) \/ ResumeApplying(p) \/ RollbackStart(p) \/ NoResidue(p)
  <2>1. PICK pc \in {"roots_sync", "residue", "prefix"} : Goto(p, pc)
    BY <1>8 DEF StartCreate, ResumeApplying, RollbackStart, NoResidue
  <2>2. QED BY <1>5, <2>1
<1>9. CASE StartApplying(p) \/ ResumeApplied(p)
  <2>1. PICK goal \in {"applying", "validated"} : Write(p, goal)
    BY <1>9 DEF StartApplying, ResumeApplied
  <2>2. TreeAt("record", run[p].plan, goal) /\ goal \in States
    BY DEF TreeAt, Publishing, States
  <2>3. QED BY <1>7, <2>1, <2>2
<1>10. CASE ExecutePrefix(p) \/ Resume(p)
  <2>1. PICK pc \in {"sync", "build"} : Goto(p, pc)
    BY <1>10 DEF ExecutePrefix, Resume
  <2>2. config.now # "provisional" /\ marker.now.temp = NoPlan
    BY <1>3, <1>10 DEF ExecutePrefix, PrefixExact, Strict, Resume, TreeAt
  <2>3. QED BY <1>6, <2>1, <2>2
<1>11. CASE RecoverPrefix(p)
  <2>1. TreeAt("record", run[p].plan, "failed") /\ Write(p, "failed")
    BY <1>11 DEF RecoverPrefix, PrefixExact, Strict, TreeAt, Publishing
  <2>2. QED BY <1>7, <2>1 DEF States
<1>12. CASE RollbackPrefix(p)
  <2>1. config.now # "provisional" /\ marker.now.temp = NoPlan
    BY <1>12 DEF RollbackPrefix, PrefixExact, Strict
  <2>2. TreeAt("record", run[p].plan, "failed") /\ TreeAt("record", run[p].plan, "rolling_back")
    BY <2>1 DEF TreeAt, Publishing
  <2>3. Write(p, "failed") \/ Write(p, "rolling_back") \/ Goto(p, "remove")
    BY <1>12 DEF RollbackPrefix
  <2>4. QED BY <1>5, <1>7, <2>2, <2>3 DEF States
<1>13. CASE Built(p)
  <2>1. Strict(run[p].plan) /\ PrefixLength = 4 /\ Write(p, "applied")
    BY <1>13 DEF Built
  <2>2. marker.now.final # NoPlan /\ workspace.now = "present"
    <3>1. marker.now.final # NoPlan
      BY <1>3, <2>1, PrefixIs
    <3>2. QED BY <1>3, <3>1 DEF NowStable, Stable, Ordered, NoMarker
  <2>3. Marked(run[p].plan, NoPlan)
    BY <1>3, <2>1, <2>2 DEF Strict, Marked, TreeOK, DirOf, Contents
  <2>4. TreeAt("record", run[p].plan, "applied")
    BY <2>2, <2>3 DEF TreeAt, Publishing
  <2>5. QED BY <1>7, <2>1, <2>4 DEF States
<1>14. CASE Removed(p)
  <2>1. config.now = "absent" /\ Write(p, "rolled_back")
    BY <1>3, <1>14, PrefixIs DEF Removed
  <2>2. NothingThere(config.now, experiments.now, workspace.now, marker.now)
    BY <1>3, <2>1 DEF NowStable, Stable, Ordered, NothingThere, TreeOK, DirOf, Presence
  <2>3. TreeAt("record", run[p].plan, "rolled_back")
    BY <2>2 DEF TreeAt, Publishing
  <2>4. QED BY <1>7, <2>1, <2>3 DEF States
<1>15. QED BY <1>8, <1>9, <1>10, <1>11, <1>12, <1>13, <1>14

(* An operation ends: nothing waits for an fsync. *)
LEMMA EndTree ==
  ASSUME IInv, TreeInv, NEW p \in Procs, UNCHANGED faults,
         \/ EndExecute(p) \/ EndRollback(p) \/ EndRolledBack(p) \/ EndObserve(p)
         \/ PrefixReject(p) \/ Refuse(p) \/ AllocateReject(p) \/ EnterBusy(p)
  PROVE  TreeInv'
<1>1. Leave(p) /\ UNCHANGED <<journal, tree>>
  BY DEF EndExecute, EndRollback, EndRolledBack, EndObserve, PrefixReject, Refuse, AllocateReject,
         EnterBusy, Allocate
<1>2. run[p].pc \notin Unsyncing
  BY DEF EndExecute, EndRollback, EndRolledBack, EndObserve, PrefixReject, Refuse, AllocateReject,
         EnterBusy, Allocate, Examine, PrefixExact, Unsyncing, Publishing
<1>3. QED BY <1>1, <1>2, LeavesOnly

(* A step of somebody who does not mutate, or who takes the flock nobody has. *)
LEMMA SettlesTree ==
  ASSUME IInv, TreeInv, UNCHANGED <<journal, tree, faults>>,
         NEW p \in Procs, NEW r, run' = [run EXCEPT ![p] = r], ~Mutates(run[p]),
         IF Mutates(r) THEN r.pc = "examine" /\ lock.ex = Nobody /\ lock'.ex = p
                       ELSE lock'.ex = lock.ex
  PROVE  TreeInv'
<1>1. run'[p] = r /\ \A q \in Procs \ {p} : run'[q] = run[q]
  BY LockFacts
<1>2. CASE Mutates(r)
  <2>1. \A q \in Procs : ~Mutates(run[q])
    BY <1>2, LockFacts, Stage05Assumption
  <2>2. TreeAt("examine", r.plan, r.goal)
    BY DEF TreeAt, Publishing
  <2>3. "power" \in faults => PowerAt("examine")
    BY <1>2, QuietTree DEF TreeInv, PowerSafe, Unsyncing, Publishing
  <2>4. AtWork'
    BY <1>1, <1>2, <2>1, <2>2, SameTree DEF AtWork
  <2>5. PowerSafe'
    BY <1>1, <1>2, <2>1, <2>3, SameTree, Stage05Assumption DEF PowerSafe
  <2>6. QED BY <2>4, <2>5, SameTree DEF TreeInv, OneKind
<1>3. CASE ~Mutates(r)
  <2>1. AtWork' /\ PowerSafe'
    BY <1>1, <1>3, SameTree DEF TreeInv, AtWork, PowerSafe
  <2>2. QED BY <2>1, SameTree DEF TreeInv, OneKind
<1>4. QED BY <1>2, <1>3

LEMMA AllocateTree ==
  ASSUME IInv, TreeInv, NEW p \in Procs, UNCHANGED faults,
         \/ StateRootAbsent(p) \/ MakeStateRoot(p) \/ SetStateMode(p) \/ SyncStateRoot(p)
         \/ StateRootExact(p) \/ RepairStateRoot(p) \/ RepairStateSync(p)
         \/ JournalRootPresent(p) \/ JournalRootAbsent(p) \/ MakeJournalRoot(p) \/ SyncJournalRoot(p)
  PROVE  TreeInv'
<1>1. run[p].pc \in Allocating /\ UNCHANGED <<journal, tree, lock, faults>>
  BY DEF Allocating, roots, StateRootAbsent, MakeStateRoot, SetStateMode, SyncStateRoot, StateRootExact,
         RepairStateRoot, RepairStateSync, JournalRootPresent, JournalRootAbsent,
         MakeJournalRoot, SyncJournalRoot, AllocateStep, Allocate
<1>2. PICK pc \in Allocating : Goto(p, pc)
  BY DEF Allocating, StateRootAbsent, MakeStateRoot, SetStateMode, SyncStateRoot, StateRootExact,
         RepairStateRoot, RepairStateSync, JournalRootPresent, JournalRootAbsent,
         MakeJournalRoot, SyncJournalRoot, AllocateStep, Allocate
<1>3. PICK r \in Sessions : run' = [run EXCEPT ![p] = r] /\ r.pc = pc
  <2>1. pc \in PCs
    BY DEF PCs
  <2>2. QED BY <1>2, <2>1, MovesTo, LockFacts DEF Sessions
<1>4. ~Mutates(r) /\ ~Mutates(run[p])
  BY <1>1, <1>3 DEF Mutates
<1>5. QED BY <1>1, <1>3, <1>4, SettlesTree

LEMMA BeginTree ==
  ASSUME IInv, TreeInv, NEW p \in Procs, UNCHANGED faults,
         \/ Enter(p)
         \/ \E plan \in Plans : BeginExecute(p, plan) \/ BeginRollback(p, plan) \/ BeginObserve(p, plan)
  PROVE  TreeInv'
<1>1. UNCHANGED <<journal, tree, faults>> /\ run[p].pc \in {"idle", "enter"}
  BY DEF Enter, BeginExecute, BeginRollback, BeginObserve, Allocate
<1>2. ~Mutates(run[p])
  BY <1>1 DEF Mutates, Allocating
<1>3. CASE Enter(p)
  <2>1. PICK r \in Sessions : run' = [run EXCEPT ![p] = r] /\ r.pc = "examine" /\ r.op = run[p].op
    BY <1>3, MovesTo, LockFacts DEF Enter, PCs, Sessions
  <2>2. lock = [ex |-> Nobody, sh |-> {}] /\ lock' = [lock EXCEPT !.ex = p] /\ run[p].op = "execute"
    BY <1>3, LockFacts DEF Enter, Allocate, SessionOK, Allocating
  <2>3. Mutates(r) /\ lock.ex = Nobody /\ lock'.ex = p
    BY <2>1, <2>2 DEF Mutates, Allocating
  <2>4. QED BY <1>1, <1>2, <2>1, <2>3, SettlesTree
<1>4. CASE \E plan \in Plans : BeginRollback(p, plan)
  <2>1. PICK plan \in Plans :
          /\ run' = [run EXCEPT ![p] = Operation("examine", "rollback", plan)]
          /\ lock = [ex |-> Nobody, sh |-> {}] /\ lock' = [lock EXCEPT !.ex = p]
    BY <1>4 DEF BeginRollback
  <2>2. PICK r : r = Operation("examine", "rollback", plan)
    OBVIOUS
  <2>3. Mutates(r) /\ r.pc = "examine" /\ lock.ex = Nobody /\ lock'.ex = p
    BY <2>1, <2>2 DEF Operation, Mutates, Allocating
  <2>4. QED BY <1>1, <1>2, <2>1, <2>2, <2>3, SettlesTree
<1>5. CASE \E plan \in Plans : BeginExecute(p, plan) \/ BeginObserve(p, plan)
  <2>1. PICK r :
          /\ run' = [run EXCEPT ![p] = r] /\ lock'.ex = lock.ex
          /\ r.op = "observe" \/ r.pc = "state_root"
    BY <1>5, LockFacts DEF BeginExecute, BeginObserve, Operation
  <2>2. ~Mutates(r)
    BY <2>1 DEF Mutates, Allocating
  <2>3. QED BY <1>1, <1>2, <2>1, <2>2, SettlesTree
<1>6. QED BY <1>3, <1>4, <1>5

LEMMA SyncRootsTree ==
  ASSUME IInv, TreeInv, NEW p \in Procs, UNCHANGED faults, SyncRoots(p)
  PROVE  TreeInv'
<1>1. /\ run[p].pc = "roots_sync" /\ Goto(p, "create") /\ UNCHANGED <<journal, tree, lock, faults>>
  BY DEF SyncRoots, AllocateStep
<1>2. Here(p)
  BY <1>1, NotWatching DEF Allocating
<1>3. TreeAt("create", run[p].plan, run[p].goal)
  BY DEF TreeAt, Publishing
<1>4. QED BY <1>1, <1>2, <1>3, LockFacts, MovesOnly
      DEF PCs, Allocating, Unsyncing, Publishing, Here, Sessions

(* The journal is written, and what was written is acknowledged: the record that is
   published is stable over what is there, and over what a power failure leaves. *)
LEMMA JournalTree ==
  ASSUME IInv, TreeInv, JournalOK', NEW p \in Procs, UNCHANGED <<roots, faults>>,
         CreateRecord(p) \/ Advance(p)
  PROVE  TreeInv'
<1> PICK plan : plan = run[p].plan
  OBVIOUS
<1>1. run[p].pc \in {"create", "record"} /\ UNCHANGED <<tree, lock, faults>>
  BY DEF CreateRecord, Advance
<1>2. Here(p)
  BY <1>1, NotWatching DEF Allocating
<1>3. Mutates(run[p]) /\ run[p].pc \notin Unsyncing
  BY <1>1, <1>2 DEF Here, Unsyncing, Publishing
<1>4. /\ TreeAt(run[p].pc, plan, run[p].goal) /\ NowStable /\ TreeOK
      /\ plan # NoPlan /\ plan \in Plans /\ run[p].goal \in States
      /\ KnowsAt(run[p].pc, run[p].op, plan, run[p].goal, rec)
      /\ "power" \in faults => PowerAt(run[p].pc) /\ AllSynced
  BY <1>3, WorkFacts, QuietTree DEF Knows
<1>5. UNCHANGED <<config, experiments, workspace, marker>>
  BY <1>1 DEF tree
<1>6. ASSUME NEW pc \in {"create_sync", "record_sync"}, Goto(p, pc), floor' = floor,
             Stable(rec, config.now, experiments.now, workspace.now, marker.now)',
             OneAhead' \/ "power" \notin faults, TreeAt(pc, plan, run[p].goal)
      PROVE  TreeInv'
  <2>1. NowStable'
    BY <1>6 DEF NowStable
  <2>2. TreeAt(pc, plan, run[p].goal)'
    <3>1. run'[p].goal = run[p].goal
      BY <1>6, LockFacts DEF Goto, Sessions
    <3>2. QED BY <1>5, <1>6, <3>1 DEF TreeAt, Marked
  <2>3. ASSUME "power" \in faults PROVE PowerAt(pc)'
    <3>1. PowerAt(run[p].pc) /\ AllSynced
      BY <1>4, <2>3
    <3>2. CrashStable(rec)'
      <4>1. PICK j : j = rec'
        OBVIOUS
      <4>2. CrashStable(j)
        BY <1>4, <1>5, <1>6, <3>1, <4>1, SettledIsSafe
      <4>3. QED BY <1>5, <4>1, <4>2 DEF CrashStable
    <3>3. CrashStable(floor)'
      BY <1>5, <1>6, <3>1 DEF PowerAt, CrashStable
    <3>4. SyncedAt(pc)'
      BY <1>5, <1>6, <3>1 DEF SyncedAt, AllSynced, Synced
    <3>5. QED BY <1>5, <1>6, <2>3, <3>1, <3>2, <3>3, <3>4 DEF PowerAt
  <2>4. pc \in PCs /\ pc \notin {"idle"} \cup Allocating
    BY <1>6 DEF PCs, Allocating
  <2> PICK goal : goal = run[p].goal
    OBVIOUS
  <2>5. TreeAt(pc, plan, goal)'
    <3>1. run'[p].goal = goal
      BY <1>6, LockFacts DEF Goto, Sessions
    <3>2. QED BY <2>2, <3>1
  <2>6. QED BY <1>1, <1>3, <1>4, <1>6, <2>1, <2>3, <2>4, <2>5, TreeGoesOn
<1>7. CASE CreateRecord(p)
  <2>1. rec' = Planned(plan) /\ floor' = floor /\ Goto(p, "create_sync") /\ run[p].pc = "create"
    BY <1>7, SameRecords DEF CreateRecord, J!Publish
  <2>2. rec = NoRecord
    BY <1>4, <2>1 DEF KnowsAt
  <2>3. NothingThere(config.now, experiments.now, workspace.now, marker.now)
    BY <1>4, <2>2 DEF NowStable, Stable, StateIn
  <2>4. rec' \in Records /\ rec' # NoRecord /\ StateOf(rec') = "planned" /\ rec'.plan = plan
        /\ Len(rec'.hist) = 1
    BY <1>4, <2>1, PlannedIs, RecordFacts DEF Planned, Record
  <2>5. Stable(rec, config.now, experiments.now, workspace.now, marker.now)'
    BY <1>5, <2>3, <2>4 DEF Stable, Ordered, StateIn, NothingThere, NoMarker
  <2>6. OneAhead' \/ "power" \notin faults
    BY <1>4, <2>1, <2>2, <2>4 DEF OneAhead, AllSynced
  <2>7. TreeAt("create_sync", plan, run[p].goal)
    BY DEF TreeAt, Publishing
  <2>8. QED BY <1>6, <2>1, <2>5, <2>6, <2>7
<1>8. CASE Advance(p)
  <2>1. rec' = After(rec, run[p].goal) /\ floor' = floor /\ Goto(p, "record_sync")
        /\ run[p].pc = "record" /\ rec # NoRecord
    BY <1>8, SameRecords DEF Advance, J!Advance
  <2>2. rec \in Records /\ rec.plan = plan /\ Transitions(run[p].op, run[p].goal, StateIn(rec))
    BY <1>2, <1>4, <2>1 DEF Here, JournalOK, KnowsAt, Building, Publishing
  <2>3. rec' \in Records /\ rec' # NoRecord /\ StateOf(rec') = run[p].goal /\ rec'.plan = plan
    BY <1>4, <2>1, <2>2, AfterIs, RecordFacts
  <2>4. Stable(rec', config.now, experiments.now, workspace.now, marker.now)
    <3>1. StateIn(rec') = run[p].goal
      BY <2>3 DEF StateIn
    <3>2. Ordered(rec', config.now, experiments.now, workspace.now, marker.now)
      BY <1>4, <2>2, <2>3 DEF NowStable, Stable, Ordered
    <3>3. CASE run[p].goal = "applying"
      BY <3>1, <3>2, <3>3 DEF Stable
    <3>4. CASE run[p].goal = "applied"
      <4>1. workspace.now = "present" /\ Marked(plan, NoPlan)
        BY <1>4, <2>1, <3>4 DEF TreeAt
      <4>2. QED BY <2>3, <3>1, <3>2, <3>4, <4>1 DEF Stable, Ordered, Marked
    <3>5. CASE run[p].goal = "validated"
      <4>1. StateIn(rec) = "applied"
        BY <2>2, <3>5 DEF Transitions
      <4>2. QED BY <1>4, <2>2, <2>3, <3>1, <3>2, <3>5, <4>1 DEF NowStable, Stable
    <3>6. CASE run[p].goal \in {"failed", "rolling_back"}
      <4>1. config.now # "provisional" /\ marker.now.temp = NoPlan
        BY <1>4, <2>1, <3>6 DEF TreeAt
      <4>2. QED BY <3>1, <3>2, <3>6, <4>1 DEF Stable
    <3>7. CASE run[p].goal = "rolled_back"
      <4>1. NothingThere(config.now, experiments.now, workspace.now, marker.now)
        BY <1>4, <2>1, <3>7 DEF TreeAt
      <4>2. QED BY <3>1, <3>2, <3>7, <4>1 DEF Stable
    <3>8. QED BY <2>2, <3>3, <3>4, <3>5, <3>6, <3>7 DEF Transitions
  <2>5. Stable(rec, config.now, experiments.now, workspace.now, marker.now)'
    BY <1>5, <2>4
  <2>6. OneAhead' \/ "power" \notin faults
    BY <1>4, <2>1 DEF OneAhead, AllSynced
  <2>7. TreeAt("record_sync", plan, run[p].goal)
    <3>1. run[p].goal = "applying" => StateIn(rec) = "planned"
      BY <2>2 DEF Transitions
    <3>2. run[p].goal = "applying" => NothingThere(config.now, experiments.now, workspace.now, marker.now)
      BY <1>4, <3>1 DEF NowStable, Stable
    <3>3. QED BY <3>2 DEF TreeAt, Publishing
  <2>8. QED BY <1>6, <2>1, <2>5, <2>6, <2>7
<1>9. QED BY <1>7, <1>8

LEMMA AcknowledgeTree ==
  ASSUME IInv, TreeInv, NEW p \in Procs, UNCHANGED <<roots, faults>>,
         \/ CreateSync(p) \/ RecordedApplying(p) \/ RecordedApplied(p) \/ RecordedRollingBack(p)
         \/ RecordedFailed(p) \/ RecordedLast(p)
  PROVE  TreeInv'
<1> PICK plan : plan = run[p].plan
  OBVIOUS
<1>1. /\ run[p].pc \in {"create_sync", "record_sync"} /\ UNCHANGED <<tree, faults>>
      /\ rec' = rec /\ floor' = rec
  BY DEF CreateSync, RecordedApplying, RecordedApplied, RecordedRollingBack, RecordedFailed,
         RecordedLast, Recorded, J!Acknowledge
<1>2. Here(p)
  BY <1>1, NotWatching DEF Allocating
<1>3. Mutates(run[p])
  BY <1>2 DEF Here
<1>4. /\ TreeAt(run[p].pc, plan, run[p].goal) /\ NowStable /\ run[p].goal \in States
      /\ KnowsAt(run[p].pc, run[p].op, plan, run[p].goal, rec)
      /\ "power" \in faults => PowerAt(run[p].pc)
  BY <1>3, WorkFacts DEF Knows
<1>5. NowStable' /\ \A pc, goal : TreeAt(pc, plan, goal)' <=> TreeAt(pc, plan, goal)
  BY <1>1, <1>4 DEF tree, NowStable, TreeAt, Marked
<1>6. ASSUME NEW pc, "power" \in faults PROVE PowerAt(pc)'
  <2>1. PowerAt(run[p].pc)
    BY <1>4, <1>6
  <2>2. SyncedAt(pc)'
    BY <1>1, <2>1 DEF tree, PowerAt, SyncedAt, Synced, Publishing
  <2>3. CrashStable(rec)' /\ CrashStable(floor)'
    BY <1>1, <2>1 DEF tree, PowerAt, CrashStable
  <2>4. QED BY <1>1, <2>1, <2>2, <2>3 DEF tree, PowerAt, OneAhead
<1>7. ASSUME NEW pc \in {"examine", "build", "record", "remove"}, NEW goal \in States, lock' = lock,
             \/ Goto(p, pc) /\ goal = run[p].goal
             \/ Write(p, goal) /\ pc = "record",
             TreeAt(pc, plan, goal)
      PROVE  TreeInv'
  <2>1. pc \in PCs /\ pc \notin {"idle"} \cup Allocating
    BY DEF PCs, Building, Allocating
  <2>2. QED BY <1>1, <1>3, <1>5, <1>6, <1>7, <2>1, TreeGoesOn
<1>8. CASE CreateSync(p)
  <2>1. TreeAt("examine", plan, run[p].goal)
    BY DEF TreeAt, Publishing
  <2>2. QED BY <1>4, <1>7, <1>8, <2>1 DEF CreateSync
<1>9. CASE RecordedApplying(p)
  <2>1. run[p].pc = "record_sync" /\ run[p].goal = "applying" /\ Goto(p, "build") /\ lock' = lock
    BY <1>9 DEF RecordedApplying, Recorded
  <2>2. NothingThere(config.now, experiments.now, workspace.now, marker.now)
    BY <1>4, <2>1 DEF TreeAt
  <2>3. TreeAt("build", plan, run[p].goal)
    BY <2>2 DEF TreeAt, NothingThere, NoMarker, Publishing
  <2>4. QED BY <1>4, <1>7, <2>1, <2>3
<1>10. CASE RecordedApplied(p)
  <2>1. TreeAt("record", plan, "validated") /\ "validated" \in States
    BY DEF TreeAt, Publishing, States
  <2>2. QED BY <1>7, <1>10, <2>1 DEF RecordedApplied
<1>11. CASE RecordedRollingBack(p)
  <2>1. TreeAt("remove", plan, run[p].goal)
    BY DEF TreeAt, Publishing
  <2>2. QED BY <1>4, <1>7, <1>11, <2>1 DEF RecordedRollingBack
<1>12. CASE RecordedFailed(p)
  <2>1. run[p].pc = "record_sync" /\ run[p].goal = "failed" /\ Write(p, "rolling_back") /\ lock' = lock
    BY <1>12 DEF RecordedFailed, Recorded
  <2>2. StateIn(rec) = "failed"
    BY <1>4, <2>1 DEF KnowsAt
  <2>3. config.now # "provisional" /\ marker.now.temp = NoPlan
    BY <1>4, <2>2 DEF NowStable, Stable
  <2>4. TreeAt("record", plan, "rolling_back") /\ "rolling_back" \in States
    BY <2>3 DEF TreeAt, Publishing, States
  <2>5. QED BY <1>7, <2>1, <2>4
<1>13. CASE RecordedLast(p)
  BY <1>1, <1>3, <1>5, <1>6, <1>13, TreeLeaves DEF RecordedLast
<1>14. QED BY <1>8, <1>9, <1>10, <1>11, <1>12, <1>13

(* A crash of what is being created, or taken away: the record stays what it is, and
   every entry that may be left is in order. *)
LEMMA OrderedCrash ==
  ASSUME StateIn(rec) = "applying", rec' = rec,
         \A c \in config'.disk, e \in experiments'.disk, w \in workspace'.disk, m \in marker'.disk :
           Ordered(rec, c, e, IF e = "absent" THEN "absent" ELSE w,
                   IF c = "absent" THEN NoMarker ELSE m)
  PROVE  CrashStable(rec)'
BY StableStates DEF CrashStable

LEMMA CrashOrdered ==
  ASSUME StateIn(rec) = "applying", CrashStable(rec)
  PROVE  \A c \in config.disk, e \in experiments.disk, w \in workspace.disk, m \in marker.disk :
           Ordered(rec, c, e, IF e = "absent" THEN "absent" ELSE w,
                   IF c = "absent" THEN NoMarker ELSE m)
BY StableStates DEF CrashStable

(* The mutator changes the tree, and goes on. *)
LEMMA ChangesTree ==
  ASSUME IInv, TreeInv, NEW p \in Procs, UNCHANGED <<journal, lock, faults>>, Mutates(run[p]),
         run[p].pc \notin {"create_sync", "record_sync"},
         NEW pc \in PCs, Goto(p, pc), pc \notin {"idle"} \cup Allocating,
         NEW plan, plan = run[p].plan,
         NowStable', \A goal : TreeAt(pc, plan, goal)',
         PowerAt(run[p].pc) => /\ CrashStable(rec)' /\ SyncedAt(pc)'
                               /\ config'.now \in config'.disk /\ experiments'.now \in experiments'.disk
                               /\ workspace'.now \in workspace'.disk /\ marker'.now \in marker'.disk
  PROVE  TreeInv'
<1>1. run[p].goal \in States /\ ("power" \in faults => PowerAt(run[p].pc))
  BY WorkFacts
<1>2. UNCHANGED <<rec, floor>>
  BY DEF journal
<1>3. PowerAt(run[p].pc) => rec = floor
  BY DEF PowerAt, SyncedAt
<1>4. "power" \in faults => PowerAt(pc)'
  BY <1>1, <1>2, <1>3, PowerStep
<1> PICK goal : goal = run[p].goal
  OBVIOUS
<1>5. TreeAt(pc, plan, goal)' /\ goal \in States
  BY <1>1
<1>6. QED BY <1>4, <1>5, TreeGoesOn

NowOrdered == Ordered(rec, config.now, experiments.now, workspace.now, marker.now)

CrashesOrdered ==
  \A c \in config.disk, e \in experiments.disk, w \in workspace.disk, m \in marker.disk :
    Ordered(rec, c, e, IF e = "absent" THEN "absent" ELSE w, IF c = "absent" THEN NoMarker ELSE m)

Visible ==
  /\ config.now \in config.disk /\ experiments.now \in experiments.disk
  /\ workspace.now \in workspace.disk /\ marker.now \in marker.disk

(* execute() between applying and applied. *)
LEMMA BuildFacts ==
  ASSUME IInv, TreeInv, NEW p \in Procs, run[p].pc \in Building
  PROVE  /\ Mutates(run[p]) /\ run[p].plan \in Plans /\ run[p].plan # NoPlan /\ rec.plan = run[p].plan
         /\ StateIn(rec) = "applying" /\ NowOrdered /\ TreeOK
         /\ TreeAt(run[p].pc, run[p].plan, run[p].goal)
         /\ PowerAt(run[p].pc) => CrashesOrdered /\ Visible /\ SyncedAt(run[p].pc)
<1>1. Here(p)
  BY NotWatching DEF Building, Publishing, Allocating
<1>2. Mutates(run[p])
  BY <1>1 DEF Here
<1>3. StateIn(rec) = "applying" /\ rec.plan = run[p].plan
  BY <1>1 DEF Here, Knows, KnowsAt, Building, Publishing
<1>4. NowOrdered
  BY <1>2, <1>3, WorkFacts, StableStates DEF NowStable, NowOrdered
<1>5. PowerAt(run[p].pc) => CrashesOrdered /\ Visible /\ SyncedAt(run[p].pc)
  BY <1>3, CrashOrdered DEF PowerAt, CrashesOrdered, Visible
<1>6. QED BY <1>2, <1>3, <1>4, <1>5, WorkFacts

LEMMA BuildsTree ==
  ASSUME IInv, TreeInv, NEW p \in Procs, UNCHANGED <<journal, lock, faults>>, run[p].pc \in Building,
         NEW pc \in Building, Goto(p, pc), NEW plan, plan = run[p].plan,
         NowOrdered', \A goal : TreeAt(pc, plan, goal)',
         PowerAt(run[p].pc) => CrashesOrdered' /\ Visible' /\ SyncedAt(pc)'
  PROVE  TreeInv'
<1>1. Mutates(run[p]) /\ StateIn(rec) = "applying" /\ rec' = rec
  BY BuildFacts DEF journal
<1>2. NowStable'
  BY <1>1, StableStates DEF NowStable, NowOrdered
<1>3. CrashesOrdered' => CrashStable(rec)'
  BY <1>1, OrderedCrash DEF CrashesOrdered
<1>4. /\ pc \in PCs /\ pc \notin {"idle"} \cup Allocating
      /\ run[p].pc \notin {"create_sync", "record_sync"}
  BY DEF PCs, Building, Publishing, Allocating
<1>5. QED BY <1>1, <1>2, <1>3, <1>4, ChangesTree DEF Visible

LEMMA DirsTree ==
  ASSUME IInv, TreeInv, NEW p \in Procs, UNCHANGED faults,
         \/ MakeConfig(p) \/ SetConfigMode(p) \/ SyncConfig(p)
         \/ MakeExperiments(p) \/ SyncExperiments(p) \/ MakeWorkspace(p) \/ SyncWorkspace(p)
  PROVE  TreeInv'
<1> PICK plan : plan = run[p].plan
  OBVIOUS
<1>1. run[p].pc \in Building /\ UNCHANGED <<journal, lock, faults>>
  BY DEF MakeConfig, SetConfigMode, SyncConfig, MakeExperiments, SyncExperiments, MakeWorkspace,
         SyncWorkspace, Building, Publishing
<1>2. /\ plan # NoPlan /\ rec.plan = plan /\ rec' = rec
      /\ NowOrdered /\ TreeOK /\ TreeAt(run[p].pc, plan, run[p].goal)
      /\ PowerAt(run[p].pc) => CrashesOrdered /\ Visible /\ SyncedAt(run[p].pc)
  BY <1>1, BuildFacts DEF journal
<1>3. /\ config.now \in {"absent", "provisional", "exact"} /\ experiments.now \in {"absent", "present"}
      /\ workspace.now \in {"absent", "present"}
  BY <1>2 DEF TreeOK, DirOf, Modes, Presence
<1>4. NowStable
  BY DEF TreeInv
<1>5. run[p].pc = "build" =>
        marker.now.temp = NoPlan /\ (marker.now.final = NoPlan => marker.now = NoMarker)
  BY <1>2 DEF TreeAt, NoMarker, TreeOK, DirOf, Contents
<1>6. ASSUME NEW pc \in Building, Goto(p, pc), NowOrdered', \A goal : TreeAt(pc, plan, goal)',
             PowerAt(run[p].pc) => CrashesOrdered' /\ Visible' /\ SyncedAt(pc)'
      PROVE  TreeInv'
  BY <1>1, <1>6, BuildsTree
<1>7. CASE MakeConfig(p)
  <2>1. /\ run[p].pc = "build" /\ Goto(p, "config_mode")
        /\ config'.now = "provisional" /\ config'.disk = config.disk \cup {"provisional"}
        /\ marker'.now = NoMarker /\ marker'.disk = {NoMarker}
        /\ UNCHANGED <<experiments, workspace>>
    BY <1>7 DEF MakeConfig, Put, Fresh
  <2>2. config.now = "absent" /\ experiments.now = "absent" /\ workspace.now = "absent"
    <3>1. config.now = "absent"
      BY <1>2, <1>4, <1>7, PrefixIs DEF MakeConfig
    <3>2. QED BY <1>2, <1>3, <3>1 DEF NowOrdered, Ordered
  <2>3. NowOrdered'
    BY <1>2, <2>1, <2>2 DEF NowOrdered, Ordered, NoMarker
  <2>4. \A goal : TreeAt("config_mode", plan, goal)'
    BY <2>1 DEF TreeAt, Publishing
  <2>5. ASSUME PowerAt(run[p].pc) PROVE CrashesOrdered' /\ Visible' /\ SyncedAt("config_mode")'
    <3>1. /\ config.disk = {"absent"} /\ experiments.disk = {"absent"} /\ workspace.disk = {"absent"}
          /\ Visible /\ rec = floor
      BY <1>2, <2>1, <2>2, <2>5 DEF SyncedAt, Synced, Publishing
    <3>2. CrashesOrdered'
      BY <1>2, <2>1, <3>1 DEF CrashesOrdered, Ordered, NoMarker
    <3>3. QED BY <1>1, <2>1, <2>2, <3>1, <3>2 DEF Visible, SyncedAt, Synced, journal
  <2>6. QED BY <1>6, <2>1, <2>3, <2>4, <2>5 DEF Building
<1>8. CASE SetConfigMode(p)
  <2>1. /\ run[p].pc = "config_mode" /\ Goto(p, "config_sync")
        /\ config'.now = "exact" /\ config'.disk = config.disk \cup {"exact"}
        /\ UNCHANGED <<experiments, workspace, marker>>
    BY <1>8 DEF SetConfigMode, Put
  <2>2. config.now = "provisional" /\ experiments.now = "absent" /\ workspace.now = "absent"
        /\ marker.now = NoMarker
    BY <1>2, <1>3, <2>1 DEF TreeAt, NowOrdered, Ordered
  <2>3. NowOrdered'
    BY <1>2, <2>1, <2>2 DEF NowOrdered, Ordered
  <2>4. \A goal : TreeAt("config_sync", plan, goal)'
    BY <2>1, <2>2 DEF TreeAt, Publishing
  <2>5. ASSUME PowerAt(run[p].pc) PROVE CrashesOrdered' /\ Visible' /\ SyncedAt("config_sync")'
    <3>1. /\ experiments.disk = {"absent"} /\ workspace.disk = {"absent"} /\ marker.disk = {NoMarker}
          /\ Visible /\ rec = floor /\ CrashesOrdered
      BY <1>2, <2>1, <2>2, <2>5 DEF SyncedAt, Synced, Publishing
    <3>2. CrashesOrdered'
      BY <1>2, <2>1, <3>1 DEF CrashesOrdered, Ordered, NoMarker
    <3>3. QED BY <1>1, <2>1, <2>2, <3>1, <3>2 DEF Visible, SyncedAt, Synced, journal
  <2>6. QED BY <1>6, <2>1, <2>3, <2>4, <2>5 DEF Building
<1>9. CASE SyncConfig(p)
  <2>1. /\ run[p].pc = "config_sync" /\ Goto(p, "build")
        /\ config'.now = config.now /\ config'.disk = {config.now}
        /\ UNCHANGED <<experiments, workspace, marker>>
    BY <1>9 DEF SyncConfig, Sync, Fresh
  <2>2. config.now = "exact" /\ experiments.now = "absent" /\ workspace.now = "absent"
        /\ marker.now = NoMarker
    BY <1>2, <1>3, <2>1 DEF TreeAt, NowOrdered, Ordered
  <2>3. NowOrdered'
    BY <1>2, <2>1 DEF NowOrdered
  <2>4. \A goal : TreeAt("build", plan, goal)'
    BY <2>1, <2>2 DEF TreeAt, Publishing, NoMarker
  <2>5. ASSUME PowerAt(run[p].pc) PROVE CrashesOrdered' /\ Visible' /\ SyncedAt("build")'
    <3>1. /\ experiments.disk = {"absent"} /\ workspace.disk = {"absent"} /\ marker.disk = {NoMarker}
          /\ Visible /\ rec = floor /\ CrashesOrdered
      BY <1>2, <2>1, <2>2, <2>5 DEF SyncedAt, Synced, Publishing
    <3>2. CrashesOrdered'
      BY <1>2, <2>1, <3>1 DEF CrashesOrdered, Visible
    <3>3. QED BY <1>1, <2>1, <2>2, <3>1, <3>2 DEF Visible, SyncedAt, Synced, journal
  <2>6. QED BY <1>6, <2>1, <2>3, <2>4, <2>5 DEF Building
<1>10. CASE MakeExperiments(p)
  <2>1. /\ run[p].pc = "build" /\ Goto(p, "experiments_sync")
        /\ experiments'.now = "present" /\ experiments'.disk = experiments.disk \cup {"present"}
        /\ workspace'.now = "absent" /\ workspace'.disk = {"absent"}
        /\ UNCHANGED <<config, marker>>
    BY <1>10 DEF MakeExperiments, Put, Fresh
  <2>2. config.now = "exact" /\ experiments.now = "absent" /\ marker.now = NoMarker
    <3>1. config.now # "absent" /\ experiments.now = "absent"
      BY <1>2, <1>4, <1>10, PrefixIs DEF MakeExperiments
    <3>2. QED BY <1>2, <1>3, <2>1, <3>1 DEF NowOrdered, Ordered, TreeAt
  <2>3. NowOrdered'
    BY <1>2, <2>1, <2>2 DEF NowOrdered, Ordered
  <2>4. \A goal : TreeAt("experiments_sync", plan, goal)'
    BY <2>1 DEF TreeAt, Publishing
  <2>5. ASSUME PowerAt(run[p].pc) PROVE CrashesOrdered' /\ Visible' /\ SyncedAt("experiments_sync")'
    <3>1. /\ config.disk = {"exact"} /\ experiments.disk = {"absent"} /\ marker.disk = {NoMarker}
          /\ Visible /\ rec = floor
      BY <1>2, <2>1, <2>2, <2>5 DEF SyncedAt, Synced, Publishing
    <3>2. CrashesOrdered'
      BY <1>2, <2>1, <3>1 DEF CrashesOrdered, Ordered, NoMarker
    <3>3. QED BY <1>1, <2>1, <2>2, <3>1, <3>2 DEF Visible, SyncedAt, Synced, journal
  <2>6. QED BY <1>6, <2>1, <2>3, <2>4, <2>5 DEF Building
<1>11. CASE SyncExperiments(p)
  <2>1. /\ run[p].pc = "experiments_sync" /\ Goto(p, "build")
        /\ experiments'.now = experiments.now /\ experiments'.disk = {experiments.now}
        /\ UNCHANGED <<config, workspace, marker>>
    BY <1>11 DEF SyncExperiments, Sync, Fresh
  <2>2. config.now = "exact" /\ experiments.now = "present" /\ workspace.now = "absent"
        /\ marker.now = NoMarker
    BY <1>2, <1>3, <2>1 DEF TreeAt, NowOrdered, Ordered
  <2>3. NowOrdered'
    BY <1>2, <2>1 DEF NowOrdered
  <2>4. \A goal : TreeAt("build", plan, goal)'
    BY <2>1, <2>2 DEF TreeAt, Publishing, NoMarker
  <2>5. ASSUME PowerAt(run[p].pc) PROVE CrashesOrdered' /\ Visible' /\ SyncedAt("build")'
    <3>1. /\ config.disk = {"exact"} /\ workspace.disk = {"absent"} /\ marker.disk = {NoMarker}
          /\ Visible /\ rec = floor /\ CrashesOrdered
      BY <1>2, <2>1, <2>2, <2>5 DEF SyncedAt, Synced, Publishing
    <3>2. CrashesOrdered'
      BY <1>2, <2>1, <3>1 DEF CrashesOrdered, Visible
    <3>3. QED BY <1>1, <2>1, <2>2, <3>1, <3>2 DEF Visible, SyncedAt, Synced, journal
  <2>6. QED BY <1>6, <2>1, <2>3, <2>4, <2>5 DEF Building
<1>12. CASE MakeWorkspace(p)
  <2>1. /\ run[p].pc = "build" /\ Goto(p, "workspace_sync")
        /\ workspace'.now = "present" /\ workspace'.disk = workspace.disk \cup {"present"}
        /\ UNCHANGED <<config, experiments, marker>>
    BY <1>12 DEF MakeWorkspace, Put
  <2>2. config.now = "exact" /\ experiments.now = "present" /\ workspace.now = "absent"
        /\ marker.now = NoMarker
    <3>1. experiments.now = "present" /\ workspace.now = "absent"
      BY <1>2, <1>4, <1>12, PrefixIs DEF MakeWorkspace
    <3>2. QED BY <1>2, <3>1 DEF NowOrdered, Ordered
  <2>3. NowOrdered'
    BY <1>2, <2>1, <2>2 DEF NowOrdered, Ordered
  <2>4. \A goal : TreeAt("workspace_sync", plan, goal)'
    BY <2>1, <2>2 DEF TreeAt, Publishing
  <2>5. ASSUME PowerAt(run[p].pc) PROVE CrashesOrdered' /\ Visible' /\ SyncedAt("workspace_sync")'
    <3>1. /\ config.disk = {"exact"} /\ experiments.disk = {"present"} /\ workspace.disk = {"absent"}
          /\ marker.disk = {NoMarker} /\ Visible /\ rec = floor
      BY <1>2, <2>1, <2>2, <2>5 DEF SyncedAt, Synced, Publishing
    <3>2. CrashesOrdered'
      BY <1>2, <2>1, <3>1 DEF CrashesOrdered, Ordered, NoMarker
    <3>3. QED BY <1>1, <2>1, <2>2, <3>1, <3>2 DEF Visible, SyncedAt, Synced, journal
  <2>6. QED BY <1>6, <2>1, <2>3, <2>4, <2>5 DEF Building
<1>13. CASE SyncWorkspace(p)
  <2>1. /\ run[p].pc = "workspace_sync" /\ Goto(p, "build")
        /\ workspace'.now = workspace.now /\ workspace'.disk = {workspace.now}
        /\ UNCHANGED <<config, experiments, marker>>
    BY <1>13 DEF SyncWorkspace, Sync, Fresh
  <2>2. config.now = "exact" /\ experiments.now = "present" /\ workspace.now = "present"
        /\ marker.now = NoMarker
    BY <1>2, <1>3, <2>1 DEF TreeAt, NowOrdered, Ordered
  <2>3. NowOrdered'
    BY <1>2, <2>1 DEF NowOrdered
  <2>4. \A goal : TreeAt("build", plan, goal)'
    BY <2>1, <2>2 DEF TreeAt, Publishing, NoMarker
  <2>5. ASSUME PowerAt(run[p].pc) PROVE CrashesOrdered' /\ Visible' /\ SyncedAt("build")'
    <3>1. /\ config.disk = {"exact"} /\ experiments.disk = {"present"} /\ marker.disk = {NoMarker}
          /\ Visible /\ rec = floor /\ CrashesOrdered
      BY <1>2, <2>1, <2>2, <2>5 DEF SyncedAt, Synced, Publishing
    <3>2. CrashesOrdered'
      BY <1>2, <2>1, <3>1 DEF CrashesOrdered, Visible
    <3>3. QED BY <1>1, <2>1, <2>2, <3>1, <3>2 DEF Visible, SyncedAt, Synced, journal
  <2>6. QED BY <1>6, <2>1, <2>3, <2>4, <2>5 DEF Building
<1>14. QED BY <1>7, <1>8, <1>9, <1>10, <1>11, <1>12, <1>13

(* What publish_marker may leave in the config directory. *)
Own(m, plan) == m.final \in {NoPlan, plan} /\ m.temp \in {NoPlan, Torn, plan}

(* A step of publish_marker: only the marker changes, over three directories that
   are durable. *)
LEMMA PublishesTree ==
  ASSUME IInv, TreeInv, NEW p \in Procs, UNCHANGED faults,
         NEW at \in Publishing \cup {"marker_unlink_sync", "build"},
         NEW pc \in Publishing \cup {"marker_unlink_sync", "build"},
         NEW new, MarkerStep(p, at, pc, new), workspace.now = "present",
         NEW plan, plan = run[p].plan,
         Own(new.now, plan), \A goal : TreeAt(pc, plan, goal)',
         /\ \A m \in marker.disk : Own(m, plan)
         /\ marker.now \in marker.disk
         => /\ \A m \in new.disk : Own(m, plan)
            /\ new.now \in new.disk
            /\ pc = "build" => Synced(new)
  PROVE  TreeInv'
<1>1. /\ run[p].pc = at /\ marker' = new /\ Goto(p, pc)
      /\ UNCHANGED <<journal, config, experiments, workspace, lock, faults>>
      /\ at \in Building /\ pc \in Building
  BY DEF MarkerStep, Building, Publishing
<1>2. /\ plan # NoPlan /\ rec.plan = plan /\ rec' = rec /\ floor' = floor
      /\ NowOrdered /\ TreeOK
      /\ PowerAt(at) => CrashesOrdered /\ Visible /\ SyncedAt(at)
  BY <1>1, BuildFacts DEF journal
<1>3. experiments.now = "present" /\ config.now = "exact"
  BY <1>2 DEF NowOrdered, Ordered
<1>4. NowOrdered'
  BY <1>1, <1>2, <1>3 DEF NowOrdered, Ordered, Own
<1>5. ASSUME PowerAt(at) PROVE CrashesOrdered' /\ Visible' /\ SyncedAt(pc)'
  <2>1. /\ config.disk = {"exact"} /\ experiments.disk = {"present"} /\ workspace.disk = {"present"}
        /\ CrashesOrdered /\ Visible /\ rec = floor
    BY <1>2, <1>3, <1>5 DEF SyncedAt, Synced, Publishing
  <2>2. \A m \in marker.disk : Own(m, plan)
    BY <1>2, <2>1 DEF CrashesOrdered, Ordered, Own
  <2>3. /\ \A m \in new.disk : Own(m, plan)
        /\ new.now \in new.disk
        /\ pc = "build" => Synced(new)
    BY <2>1, <2>2 DEF Visible
  <2>4. CrashesOrdered'
    BY <1>1, <1>2, <2>1, <2>3 DEF CrashesOrdered, Ordered, Own
  <2>5. Visible'
    BY <1>1, <2>1, <2>3 DEF Visible
  <2>6. SyncedAt(pc)'
    BY <1>1, <1>2, <1>3, <2>1, <2>3 DEF SyncedAt, Synced
  <2>7. QED BY <2>4, <2>5, <2>6
<1>6. QED BY <1>1, <1>4, <1>5, BuildsTree

LEMMA MarkerTree ==
  ASSUME IInv, TreeInv, NEW p \in Procs, UNCHANGED faults,
         \/ CreateMarkerTemp(p) \/ WriteMarker(p) \/ LinkMarker(p) \/ SyncMarker(p)
         \/ UnlinkMarkerTemp(p) \/ SyncMarkerUnlink(p)
  PROVE  TreeInv'
<1> PICK plan : plan = run[p].plan
  OBVIOUS
<1>1. run[p].pc \in Building
  BY DEF CreateMarkerTemp, WriteMarker, LinkMarker, SyncMarker, UnlinkMarkerTemp, SyncMarkerUnlink,
         MarkerStep, Building, Publishing
<1>2. /\ plan # NoPlan /\ plan \in Plans /\ rec.plan = plan /\ TreeOK
      /\ TreeAt(run[p].pc, plan, run[p].goal) /\ NowOrdered
  BY <1>1, BuildFacts
<1>3. NowStable
  BY DEF TreeInv
<1>4. \A t \in Markers \cup {Torn} : [marker.now EXCEPT !.temp = t] = [final |-> marker.now.final, temp |-> t]
  BY <1>2, ContentsFacts
<1>5. \A f \in Markers : [marker.now EXCEPT !.final = f] = [final |-> f, temp |-> marker.now.temp]
  BY <1>2, ContentsFacts
<1>6. plan \in Markers /\ NoPlan \in Markers
  BY <1>2 DEF Markers
<1>7. Own(marker.now, plan)
  BY <1>2 DEF NowOrdered, Ordered, Own
<1>8. CASE CreateMarkerTemp(p)
  <2>1. MarkerStep(p, "build", "marker_write", WithTemp(Torn))
    BY <1>8 DEF CreateMarkerTemp
  <2>2. run[p].pc = "build" /\ marker' = WithTemp(Torn) /\ workspace' = workspace
    BY <2>1 DEF MarkerStep
  <2>3. workspace.now = "present" /\ marker.now.final = NoPlan
    BY <1>2, <1>3, <1>8, PrefixIs DEF CreateMarkerTemp
  <2>4. /\ WithTemp(Torn).now = [final |-> NoPlan, temp |-> Torn]
        /\ WithTemp(Torn).disk = marker.disk \cup {WithTemp(Torn).now}
    BY <1>4, <2>3 DEF WithTemp, Put
  <2>5. \A goal : TreeAt("marker_write", plan, goal)'
    BY <2>2, <2>3, <2>4 DEF TreeAt, Marked, Publishing
  <2>6. QED BY <2>1, <2>3, <2>4, <2>5, PublishesTree DEF Publishing, Own
<1>9. CASE WriteMarker(p)
  <2> DEFINE Whole(c) == [c EXCEPT !.temp = IF @ = Torn THEN plan ELSE @]
             new == [now |-> Whole(marker.now), disk |-> {Whole(c) : c \in marker.disk}]
  <2>1. MarkerStep(p, "marker_write", "marker_link", new)
    BY <1>9 DEF WriteMarker
  <2>2. run[p].pc = "marker_write" /\ marker' = new /\ workspace' = workspace
    BY <2>1 DEF MarkerStep
  <2>3. workspace.now = "present" /\ marker.now = [final |-> NoPlan, temp |-> Torn]
    BY <1>2, <2>2 DEF TreeAt, Marked, Publishing
  <2>4. new.now = [final |-> NoPlan, temp |-> plan]
    BY <2>3
  <2>5. \A goal : TreeAt("marker_link", plan, goal)'
    BY <2>2, <2>3, <2>4 DEF TreeAt, Marked, Publishing
  <2>6. \A c \in Contents : Own(c, plan) => Own(Whole(c), plan)
    BY DEF Own, Contents
  <2>7. marker.disk \subseteq Contents
    BY <1>2 DEF TreeOK, DirOf
  <2>8. (\A m \in marker.disk : Own(m, plan)) => \A m \in new.disk : Own(m, plan)
    BY <2>6, <2>7
  <2>9. marker.now \in marker.disk => new.now \in new.disk
    OBVIOUS
  <2>10. Own(new.now, plan)
    BY <2>4 DEF Own
  <2> HIDE DEF new
  <2>11. QED BY <2>1, <2>3, <2>5, <2>8, <2>9, <2>10, PublishesTree DEF Publishing
<1>10. CASE LinkMarker(p)
  <2> DEFINE new == Put(marker, [marker.now EXCEPT !.final = plan])
  <2>1. MarkerStep(p, "marker_link", "marker_sync", new)
    BY <1>10 DEF LinkMarker
  <2>2. run[p].pc = "marker_link" /\ marker' = new /\ workspace' = workspace
    BY <2>1 DEF MarkerStep
  <2>3. workspace.now = "present" /\ marker.now.temp = plan
    BY <1>2, <2>2 DEF TreeAt, Marked, Publishing
  <2>4. new.now = [final |-> plan, temp |-> plan] /\ new.disk = marker.disk \cup {new.now}
    BY <1>5, <1>6, <2>3 DEF Put
  <2> HIDE DEF new
  <2>5. \A goal : TreeAt("marker_sync", plan, goal)'
    BY <2>2, <2>3, <2>4 DEF TreeAt, Marked, Publishing
  <2>6. QED BY <2>1, <2>3, <2>4, <2>5, PublishesTree DEF Publishing, Own
<1>11. CASE SyncMarker(p)
  <2>1. MarkerStep(p, "marker_sync", "marker_unlink", Sync(marker))
    BY <1>11 DEF SyncMarker
  <2>2. run[p].pc = "marker_sync" /\ marker' = Sync(marker) /\ workspace' = workspace
    BY <2>1 DEF MarkerStep
  <2>3. workspace.now = "present" /\ marker.now = [final |-> plan, temp |-> plan]
    BY <1>2, <2>2 DEF TreeAt, Marked, Publishing
  <2>4. Sync(marker).now = marker.now /\ Sync(marker).disk = {marker.now}
    BY DEF Sync, Fresh
  <2>5. \A goal : TreeAt("marker_unlink", plan, goal)'
    BY <2>2, <2>3, <2>4 DEF TreeAt, Marked, Publishing
  <2>6. QED BY <1>7, <2>1, <2>3, <2>4, <2>5, PublishesTree DEF Publishing
<1>12. CASE UnlinkMarkerTemp(p)
  <2>1. MarkerStep(p, "marker_unlink", "marker_unlink_sync", WithTemp(NoPlan))
    BY <1>12 DEF UnlinkMarkerTemp
  <2>2. run[p].pc = "marker_unlink" /\ marker' = WithTemp(NoPlan) /\ workspace' = workspace
    BY <2>1 DEF MarkerStep
  <2>3. workspace.now = "present" /\ marker.now.final = plan
    BY <1>2, <2>2 DEF TreeAt, Marked, Publishing
  <2>4. /\ WithTemp(NoPlan).now = [final |-> plan, temp |-> NoPlan]
        /\ WithTemp(NoPlan).disk = marker.disk \cup {WithTemp(NoPlan).now}
    BY <1>4, <1>6, <2>3 DEF WithTemp, Put
  <2>5. \A goal : TreeAt("marker_unlink_sync", plan, goal)'
    BY <2>2, <2>3, <2>4 DEF TreeAt, Marked, Publishing
  <2>6. QED BY <2>1, <2>3, <2>4, <2>5, PublishesTree DEF Publishing, Own
<1>13. CASE SyncMarkerUnlink(p)
  <2>1. MarkerStep(p, "marker_unlink_sync", "build", Sync(marker))
    BY <1>13 DEF SyncMarkerUnlink
  <2>2. run[p].pc = "marker_unlink_sync" /\ marker' = Sync(marker)
        /\ workspace' = workspace /\ config' = config
    BY <2>1 DEF MarkerStep
  <2>3. workspace.now = "present" /\ marker.now = [final |-> plan, temp |-> NoPlan] /\ config.now = "exact"
    BY <1>2, <2>2 DEF TreeAt, Marked, Publishing, NowOrdered, Ordered
  <2>4. Sync(marker).now = marker.now /\ Sync(marker).disk = {marker.now}
    BY DEF Sync, Fresh
  <2>5. \A goal : TreeAt("build", plan, goal)'
    BY <2>2, <2>3, <2>4 DEF TreeAt, Marked, Publishing
  <2>6. QED BY <1>7, <2>1, <2>3, <2>4, <2>5, PublishesTree DEF Publishing, Synced
<1>14. QED BY <1>8, <1>9, <1>10, <1>11, <1>12, <1>13

(* The other steps that change what there is while the journal says applying. *)
LEMMA ApplyingTree ==
  ASSUME IInv, TreeInv, NEW p \in Procs, UNCHANGED <<journal, lock, faults>>, Mutates(run[p]),
         StateIn(rec) = "applying", run[p].pc \in {"residue", "prefix"},
         NEW pc \in {"residue_sync", "repair_sync"}, Goto(p, pc), NEW plan, plan = run[p].plan,
         NowOrdered', \A goal : TreeAt(pc, plan, goal)',
         PowerAt(run[p].pc) => CrashesOrdered' /\ Visible' /\ SyncedAt(pc)'
  PROVE  TreeInv'
<1>1. rec' = rec
  BY DEF journal
<1>2. NowStable'
  BY <1>1, StableStates DEF NowStable, NowOrdered
<1>3. CrashesOrdered' => CrashStable(rec)'
  BY <1>1, OrderedCrash DEF CrashesOrdered
<1>4. pc \in PCs /\ pc \notin {"idle"} \cup Allocating
  BY DEF PCs, Allocating
<1>5. QED BY <1>2, <1>3, <1>4, ChangesTree DEF Visible

(* A step that makes durable what is there, and changes nothing. *)
LEMMA SyncingTree ==
  ASSUME IInv, TreeInv, NEW p \in Procs, UNCHANGED <<journal, lock, faults>>, Mutates(run[p]),
         run[p].pc \notin {"create_sync", "record_sync"},
         NEW pc \in {"prefix", "resume", "remove"}, Goto(p, pc), NEW plan, plan = run[p].plan,
         config' \in {config, Sync(config)}, experiments' \in {experiments, Sync(experiments)},
         workspace' \in {workspace, Sync(workspace)}, marker' \in {marker, Sync(marker)},
         \A goal : TreeAt(pc, plan, goal)', PowerAt(run[p].pc) => SyncedAt(pc)'
  PROVE  TreeInv'
<1>1. /\ config'.now = config.now /\ experiments'.now = experiments.now
      /\ workspace'.now = workspace.now /\ marker'.now = marker.now /\ rec' = rec
  BY DEF Sync, Fresh, journal
<1>2. NowStable'
  BY <1>1 DEF TreeInv, NowStable
<1>3. ASSUME PowerAt(run[p].pc)
      PROVE  /\ CrashStable(rec)'
             /\ config'.now \in config'.disk /\ experiments'.now \in experiments'.disk
             /\ workspace'.now \in workspace'.disk /\ marker'.now \in marker'.disk
  <2>1. /\ config.now \in config.disk /\ experiments.now \in experiments.disk
        /\ workspace.now \in workspace.disk /\ marker.now \in marker.disk /\ CrashStable(rec)
    BY <1>3 DEF PowerAt
  <2>2. /\ config'.disk \subseteq config.disk /\ experiments'.disk \subseteq experiments.disk
        /\ workspace'.disk \subseteq workspace.disk /\ marker'.disk \subseteq marker.disk
    BY <2>1 DEF Sync, Fresh
  <2>3. CrashStable(rec)'
    BY <1>1, <2>1, <2>2 DEF CrashStable
  <2>4. QED BY <2>1, <2>3 DEF Sync, Fresh
<1>4. pc \in PCs /\ pc \notin {"idle"} \cup Allocating
  BY DEF PCs, Allocating
<1>5. QED BY <1>2, <1>3, <1>4, ChangesTree

LEMMA PrefixTree ==
  ASSUME IInv, TreeInv, NEW p \in Procs, UNCHANGED faults,
         RemoveResidue(p) \/ SyncResidue(p) \/ RepairMode(p) \/ RepairSync(p) \/ SyncPrefix(p)
  PROVE  TreeInv'
<1> PICK plan : plan = run[p].plan
  OBVIOUS
<1>1. /\ run[p].pc \in {"residue", "residue_sync", "prefix", "repair_sync", "sync"}
      /\ UNCHANGED <<journal, lock, faults>>
  BY DEF RemoveResidue, SyncResidue, RepairMode, RepairSync, SyncPrefix
<1>2. Mutates(run[p])
  BY <1>1, NotWatching DEF Allocating, Here
<1>3. /\ TreeAt(run[p].pc, plan, run[p].goal) /\ NowStable /\ TreeOK
      /\ plan # NoPlan /\ KnowsAt(run[p].pc, run[p].op, plan, run[p].goal, rec)
  BY <1>2, WorkFacts DEF Knows
<1>4. StateIn(rec) = State /\ rec' = rec /\ floor' = floor
  BY <1>1 DEF StateIn, State, journal
<1>5. NowOrdered
  BY <1>3 DEF NowStable, Stable, NowOrdered
<1>6. CASE RemoveResidue(p)
  <2>1. /\ run[p].pc = "residue" /\ marker.now.temp = plan /\ Goto(p, "residue_sync")
        /\ marker' = Put(marker, [marker.now EXCEPT !.temp = NoPlan])
        /\ UNCHANGED <<config, experiments, workspace>>
    BY <1>6 DEF RemoveResidue
  <2>2. StateIn(rec) = "applying" /\ rec.plan = plan
    <3>1. StateIn(rec) \in {"applying", "rolling_back"} /\ rec.plan = plan
      BY <1>3, <2>1 DEF KnowsAt
    <3>2. QED BY <1>3, <2>1, <3>1 DEF NowStable, Stable
  <2>3. /\ config.now = "exact" /\ experiments.now = "present" /\ workspace.now = "present"
        /\ marker.now.final \in {NoPlan, plan}
    BY <1>3, <1>5, <2>1, <2>2 DEF NowOrdered, Ordered, NoMarker
  <2>4. /\ marker'.now = [final |-> marker.now.final, temp |-> NoPlan]
        /\ marker'.disk = marker.disk \cup {marker'.now}
    <3>1. [marker.now EXCEPT !.temp = NoPlan] = [final |-> marker.now.final, temp |-> NoPlan]
      BY <1>3, ContentsFacts DEF Markers
    <3>2. QED BY <2>1, <3>1 DEF Put
  <2>5. NowOrdered'
    BY <1>4, <2>1, <2>2, <2>3, <2>4 DEF NowOrdered, Ordered
  <2>6. \A goal : TreeAt("residue_sync", plan, goal)'
    BY DEF TreeAt, Publishing
  <2>7. ASSUME PowerAt(run[p].pc) PROVE CrashesOrdered' /\ Visible' /\ SyncedAt("residue_sync")'
    <3>1. AllSynced
      BY <2>1, <2>7, QuietTree DEF Unsyncing, Publishing
    <3>2. /\ config.disk = {"exact"} /\ experiments.disk = {"present"} /\ workspace.disk = {"present"}
          /\ marker.disk = {marker.now} /\ rec = floor
      BY <2>3, <3>1 DEF AllSynced, Synced
    <3>3. CrashesOrdered'
      BY <1>4, <1>5, <2>1, <2>2, <2>3, <2>4, <3>2 DEF CrashesOrdered, NowOrdered, Ordered
    <3>4. QED BY <1>4, <2>1, <2>3, <2>4, <3>2, <3>3 DEF Visible, SyncedAt, Synced
  <2>8. QED BY <1>1, <1>2, <2>1, <2>2, <2>5, <2>6, <2>7, ApplyingTree
<1>7. CASE SyncResidue(p)
  <2>1. /\ run[p].pc = "residue_sync" /\ marker' = Sync(marker) /\ Goto(p, "prefix")
        /\ UNCHANGED <<config, experiments, workspace>>
    BY <1>7 DEF SyncResidue
  <2>2. \A goal : TreeAt("prefix", plan, goal)'
    BY DEF TreeAt, Publishing
  <2>3. PowerAt(run[p].pc) => SyncedAt("prefix")'
    BY <1>4, <2>1 DEF PowerAt, SyncedAt, Synced, Sync, Fresh
  <2>4. QED BY <1>1, <1>2, <2>1, <2>2, <2>3, SyncingTree
<1>8. CASE RepairMode(p)
  <2>1. /\ run[p].pc = "prefix" /\ config' = Put(config, "exact") /\ Goto(p, "repair_sync")
        /\ UNCHANGED <<experiments, workspace, marker>>
        /\ State = "applying" /\ PrefixLength = 1
    BY <1>8 DEF RepairMode, MayRepair, Repairable
  <2>2. experiments.now = "absent" /\ workspace.now = "absent" /\ marker.now = NoMarker
    <3>1. experiments.now = "absent"
      BY <1>3, <2>1, PrefixIs
    <3>2. QED BY <1>3, <1>5, <3>1 DEF NowOrdered, Ordered, TreeOK, DirOf, Presence
  <2>3. config'.now = "exact" /\ config'.disk = config.disk \cup {"exact"}
    BY <2>1 DEF Put
  <2>4. NowOrdered'
    BY <1>4, <1>5, <2>1, <2>2, <2>3 DEF NowOrdered, Ordered
  <2>5. \A goal : TreeAt("repair_sync", plan, goal)'
    BY <2>1, <2>2, <2>3 DEF TreeAt, Publishing
  <2>6. ASSUME PowerAt(run[p].pc) PROVE CrashesOrdered' /\ Visible' /\ SyncedAt("repair_sync")'
    <3>1. AllSynced
      BY <2>1, <2>6, QuietTree DEF Unsyncing, Publishing
    <3>2. /\ experiments.disk = {"absent"} /\ workspace.disk = {"absent"} /\ marker.disk = {NoMarker}
          /\ config.disk = {config.now} /\ rec = floor
      BY <2>2, <3>1 DEF AllSynced, Synced
    <3>3. CrashesOrdered'
      BY <1>4, <2>1, <2>3, <3>2 DEF CrashesOrdered, Ordered, NoMarker
    <3>4. QED BY <1>4, <2>1, <2>2, <2>3, <3>2, <3>3 DEF Visible, SyncedAt, Synced
  <2>7. QED BY <1>1, <1>2, <1>4, <2>1, <2>4, <2>5, <2>6, ApplyingTree
<1>9. CASE RepairSync(p)
  <2>1. /\ run[p].pc = "repair_sync" /\ config' = Sync(config) /\ marker' = Sync(marker)
        /\ Goto(p, "prefix") /\ UNCHANGED <<experiments, workspace>>
    BY <1>9 DEF RepairSync
  <2>2. \A goal : TreeAt("prefix", plan, goal)'
    BY DEF TreeAt, Publishing
  <2>3. PowerAt(run[p].pc) => SyncedAt("prefix")'
    BY <1>4, <2>1 DEF PowerAt, SyncedAt, Synced, Sync, Fresh
  <2>4. QED BY <1>1, <1>2, <2>1, <2>2, <2>3, SyncingTree
<1>10. CASE SyncPrefix(p)
  <2>1. /\ run[p].pc = "sync" /\ Goto(p, "resume")
        /\ config' \in {config, Sync(config)} /\ experiments' \in {experiments, Sync(experiments)}
        /\ workspace' \in {workspace, Sync(workspace)} /\ marker' \in {marker, Sync(marker)}
    BY <1>10 DEF SyncPrefix
  <2>2. config'.now = config.now /\ marker'.now = marker.now
    BY <2>1 DEF Sync, Fresh
  <2>3. \A goal : TreeAt("resume", plan, goal)'
    BY <1>3, <2>1, <2>2 DEF TreeAt, Publishing
  <2>4. PowerAt(run[p].pc) => SyncedAt("resume")'
    <3>1. PowerAt("sync") => AllSynced
      BY QuietTree DEF Unsyncing, Publishing
    <3>2. QED BY <1>4, <2>1, <3>1 DEF AllSynced, SyncedAt, Synced, Sync, Fresh
  <2>5. QED BY <1>1, <1>2, <2>1, <2>3, <2>4, SyncingTree
<1>11. QED BY <1>6, <1>7, <1>8, <1>9, <1>10

(* rollback() takes away one resource after the other. *)
LEMMA RemoveTree ==
  ASSUME IInv, TreeInv, NEW p \in Procs, UNCHANGED faults, RemoveLast(p) \/ SyncRemoved(p)
  PROVE  TreeInv'
<1> PICK plan : plan = run[p].plan
  OBVIOUS
<1>1. run[p].pc \in {"remove", "remove_sync"} /\ UNCHANGED <<journal, lock, faults>>
  BY DEF RemoveLast, SyncRemoved
<1>2. Mutates(run[p])
  BY <1>1, NotWatching DEF Allocating, Here
<1>3. NowStable /\ TreeOK /\ KnowsAt(run[p].pc, run[p].op, plan, run[p].goal, rec)
  BY <1>2, WorkFacts DEF Knows
<1>4. StateIn(rec) = "rolling_back" /\ rec' = rec /\ floor' = floor
  BY <1>1, <1>3 DEF KnowsAt, journal
<1>5. NowOrdered /\ config.now # "provisional" /\ marker.now.temp = NoPlan
  BY <1>3, <1>4, StableStates DEF NowStable, NowOrdered
<1>6. /\ config.now \in {"absent", "provisional", "exact"} /\ experiments.now \in {"absent", "present"}
      /\ workspace.now \in {"absent", "present"} /\ marker.now \in Contents
  BY <1>3 DEF TreeOK, DirOf, Modes, Presence
<1>7. marker.now.final = NoPlan => marker.now = NoMarker
  BY <1>5, <1>6 DEF Contents, NoMarker
<1>8. /\ PrefixLength = 4 => workspace.now = "present"
      /\ PrefixLength = 3 => workspace.now = "present" /\ marker.now.final = NoPlan
      /\ PrefixLength = 2 => experiments.now = "present" /\ workspace.now = "absent"
      /\ PrefixLength = 1 => config.now # "absent" /\ experiments.now = "absent"
      /\ PrefixLength = 0 => config.now = "absent"
  <2>1. marker.now.final # NoPlan => workspace.now = "present"
    BY <1>5 DEF NowOrdered, Ordered, NoMarker
  <2>2. QED BY <1>3, <2>1, PrefixIs
<1>9. CASE RemoveLast(p)
  <2>1. run[p].pc = "remove" /\ Goto(p, "remove_sync")
    BY <1>9 DEF RemoveLast
  <2>2. \A goal : TreeAt("remove_sync", plan, goal)'
    BY DEF TreeAt, Publishing
  <2>3. ASSUME PowerAt(run[p].pc)
        PROVE  /\ config.disk = {config.now} /\ experiments.disk = {experiments.now}
               /\ workspace.disk = {workspace.now} /\ marker.disk = {marker.now} /\ rec = floor
    <3>1. AllSynced
      BY <2>1, <2>3, QuietTree DEF Unsyncing, Publishing
    <3>2. QED BY <3>1 DEF AllSynced, Synced
  <2>4. ASSUME NowOrdered', config'.now # "provisional", marker'.now.temp = NoPlan,
               ASSUME PowerAt(run[p].pc)
               PROVE  /\ \A c \in config'.disk, m \in marker'.disk : c # "provisional" /\ m.temp = NoPlan
                      /\ CrashesOrdered' /\ Visible' /\ SyncedAt("remove_sync")'
        PROVE  TreeInv'
    <3>1. NowStable'
      BY <1>4, <2>4, StableStates DEF NowStable, NowOrdered
    <3>2. PowerAt(run[p].pc) => CrashStable(rec)'
      BY <1>4, <2>4, StableStates DEF CrashStable, CrashesOrdered, NoMarker
    <3>3. "remove_sync" \in PCs /\ "remove_sync" \notin {"idle"} \cup Allocating
      BY DEF PCs, Allocating
    <3>4. QED BY <1>1, <1>2, <2>1, <2>2, <2>4, <3>1, <3>2, <3>3, ChangesTree DEF Visible
  <2>5. CASE PrefixLength = 4
    <3>1. /\ marker'.now = NoMarker /\ marker'.disk = marker.disk \cup {NoMarker}
          /\ UNCHANGED <<config, experiments, workspace>>
      BY <1>9, <2>5, LastRemoved DEF Put
    <3>2. NowOrdered' /\ config'.now # "provisional" /\ marker'.now.temp = NoPlan
      BY <1>4, <1>5, <3>1 DEF NowOrdered, Ordered, NoMarker
    <3>3. ASSUME PowerAt(run[p].pc)
          PROVE  /\ \A c \in config'.disk, m \in marker'.disk : c # "provisional" /\ m.temp = NoPlan
                 /\ CrashesOrdered' /\ Visible' /\ SyncedAt("remove_sync")'
      <4>1. config.now = "exact" /\ experiments.now = "present" /\ workspace.now = "present"
        BY <1>5, <1>8, <2>5 DEF NowOrdered, Ordered
      <4>2. \A c \in config'.disk, m \in marker'.disk : c # "provisional" /\ m.temp = NoPlan
        BY <1>5, <2>3, <3>1, <3>3 DEF NoMarker
      <4>3. CrashesOrdered'
        BY <1>4, <1>5, <2>3, <3>1, <3>3, <4>1 DEF CrashesOrdered, NowOrdered, Ordered, NoMarker
      <4>4. QED BY <1>4, <2>3, <3>1, <3>3, <4>1, <4>2, <4>3 DEF Visible, SyncedAt, Synced
    <3>4. QED BY <2>4, <3>2, <3>3
  <2>6. CASE PrefixLength = 3
    <3>1. /\ workspace'.now = "absent" /\ workspace'.disk = workspace.disk \cup {"absent"}
          /\ UNCHANGED <<config, experiments, marker>>
      BY <1>9, <2>6, LastRemoved DEF Put
    <3>2. marker.now = NoMarker /\ config.now = "exact" /\ experiments.now = "present"
      BY <1>5, <1>7, <1>8, <2>6 DEF NowOrdered, Ordered
    <3>3. NowOrdered' /\ config'.now # "provisional" /\ marker'.now.temp = NoPlan
      BY <1>4, <1>5, <3>1, <3>2 DEF NowOrdered, Ordered, NoMarker
    <3>4. ASSUME PowerAt(run[p].pc)
          PROVE  /\ \A c \in config'.disk, m \in marker'.disk : c # "provisional" /\ m.temp = NoPlan
                 /\ CrashesOrdered' /\ Visible' /\ SyncedAt("remove_sync")'
      <4>1. \A c \in config'.disk, m \in marker'.disk : c # "provisional" /\ m.temp = NoPlan
        BY <1>5, <2>3, <3>1, <3>4
      <4>2. CrashesOrdered'
        BY <1>4, <2>3, <3>1, <3>2, <3>4 DEF CrashesOrdered, Ordered, NoMarker
      <4>3. QED BY <1>4, <2>3, <3>1, <3>2, <3>4, <4>1, <4>2 DEF Visible, SyncedAt, Synced
    <3>5. QED BY <2>4, <3>3, <3>4
  <2>7. CASE PrefixLength = 2
    <3>1. /\ experiments'.now = "absent" /\ experiments'.disk = experiments.disk \cup {"absent"}
          /\ UNCHANGED <<config, workspace, marker>>
      BY <1>9, <2>7, LastRemoved DEF Put
    <3>2. marker.now = NoMarker /\ config.now = "exact" /\ workspace.now = "absent"
      BY <1>5, <1>8, <2>7 DEF NowOrdered, Ordered
    <3>3. NowOrdered' /\ config'.now # "provisional" /\ marker'.now.temp = NoPlan
      BY <1>4, <1>5, <3>1, <3>2 DEF NowOrdered, Ordered, NoMarker
    <3>4. ASSUME PowerAt(run[p].pc)
          PROVE  /\ \A c \in config'.disk, m \in marker'.disk : c # "provisional" /\ m.temp = NoPlan
                 /\ CrashesOrdered' /\ Visible' /\ SyncedAt("remove_sync")'
      <4>1. \A c \in config'.disk, m \in marker'.disk : c # "provisional" /\ m.temp = NoPlan
        BY <1>5, <2>3, <3>1, <3>4
      <4>2. CrashesOrdered'
        BY <1>4, <2>3, <3>1, <3>2, <3>4 DEF CrashesOrdered, Ordered, NoMarker
      <4>3. QED BY <1>4, <2>3, <3>1, <3>2, <3>4, <4>1, <4>2 DEF Visible, SyncedAt, Synced
    <3>5. QED BY <2>4, <3>3, <3>4
  <2>8. CASE PrefixLength = 1
    <3>1. /\ config'.now = "absent" /\ config'.disk = config.disk \cup {"absent"}
          /\ UNCHANGED <<experiments, workspace, marker>>
      BY <1>9, <2>8, LastRemoved DEF Put
    <3>2. marker.now = NoMarker /\ experiments.now = "absent" /\ workspace.now = "absent"
      BY <1>5, <1>6, <1>8, <2>8 DEF NowOrdered, Ordered
    <3>3. NowOrdered' /\ config'.now # "provisional" /\ marker'.now.temp = NoPlan
      BY <1>4, <1>5, <3>1, <3>2 DEF NowOrdered, Ordered, NoMarker
    <3>4. ASSUME PowerAt(run[p].pc)
          PROVE  /\ \A c \in config'.disk, m \in marker'.disk : c # "provisional" /\ m.temp = NoPlan
                 /\ CrashesOrdered' /\ Visible' /\ SyncedAt("remove_sync")'
      <4>1. \A c \in config'.disk, m \in marker'.disk : c # "provisional" /\ m.temp = NoPlan
        BY <1>5, <2>3, <3>1, <3>4
      <4>2. CrashesOrdered'
        BY <1>4, <2>3, <3>1, <3>2, <3>4 DEF CrashesOrdered, Ordered, NoMarker
      <4>3. QED BY <1>4, <2>3, <3>1, <3>2, <3>4, <4>1, <4>2 DEF Visible, SyncedAt, Synced
    <3>5. QED BY <2>4, <3>3, <3>4
  <2>9. QED BY <1>9, <2>5, <2>6, <2>7, <2>8, LastRemoved
<1>10. CASE SyncRemoved(p)
  <2>1. /\ run[p].pc = "remove_sync" /\ Goto(p, "remove")
        /\ marker' = IF PrefixLength = 3 THEN Sync(marker) ELSE marker
        /\ workspace' = IF PrefixLength = 2 THEN Sync(workspace) ELSE workspace
        /\ experiments' = IF PrefixLength = 1 THEN Sync(experiments) ELSE experiments
        /\ config' = IF PrefixLength = 0 THEN Sync(config) ELSE config
    BY <1>10 DEF SyncRemoved
  <2>2. \A goal : TreeAt("remove", plan, goal)'
    BY DEF TreeAt, Publishing
  <2>3. ASSUME PowerAt("remove_sync") PROVE SyncedAt("remove")'
    <3>1. SyncedAt("remove_sync")
      BY <2>3 DEF PowerAt
    <3>2. Synced(config) \/ PrefixLength = 0
      BY <1>3, <3>1, PrefixIs DEF SyncedAt
    <3>3. Synced(experiments) \/ PrefixLength = 1
      BY <1>3, <3>1, PrefixIs DEF SyncedAt
    <3>4. Synced(workspace) \/ PrefixLength = 2
      BY <1>3, <3>1, PrefixIs DEF SyncedAt
    <3>5. Synced(marker) \/ PrefixLength = 3
      BY <1>3, <3>1, PrefixIs DEF SyncedAt, Publishing, NoMarker
    <3>6. rec = floor
      BY <3>1 DEF SyncedAt
    <3>7. Synced(config)' /\ Synced(experiments)' /\ Synced(workspace)' /\ Synced(marker)'
      BY <2>1, <3>2, <3>3, <3>4, <3>5 DEF Synced, Sync, Fresh
    <3>8. QED BY <1>4, <3>6, <3>7 DEF SyncedAt
  <2>4. QED BY <1>1, <1>2, <2>1, <2>2, <2>3, SyncingTree
<1>11. QED BY <1>9, <1>10

(* An exception, where nothing waits for an fsync or the host keeps its power. *)
LEMMA RaiseTree ==
  ASSUME IInv, TreeInv, NEW p \in Procs, UNCHANGED faults, Raise(p), NowStable',
         Mutates(run[p]) \/ UNCHANGED <<journal, tree>>,
         "power" \in faults => UNCHANGED <<journal, tree>> /\ run[p].pc \notin Unsyncing
  PROVE  TreeInv'
<1> DEFINE MayRecord ==
      /\ run[p].op = "execute" /\ State = "applying"
      /\ run[p].pc \in Building \/ (run[p].pc = "record" /\ run[p].goal = "applied")
<1>1. CASE ~MayRecord
  <2>1. Leave(p)
    BY <1>1 DEF Raise
  <2>2. Mutates(run[p]) /\ "power" \in faults => PowerAt("idle")'
    BY SameTree, WorkFacts, QuietTree
  <2>3. QED BY <2>1, <2>2, TreeLeaves
<1>2. CASE MayRecord
  <2>1. run' = [run EXCEPT ![p].op = "recover", ![p].pc = "residue"] /\ lock' = lock
    BY <1>2 DEF Raise
  <2>2. Mutates(run[p])
    BY <1>2 DEF Mutates, Building, Publishing, Allocating
  <2> HIDE DEF MayRecord
  <2> DEFINE r == [run[p] EXCEPT !.op = "recover", !.pc = "residue"]
  <2>3. run \in [Procs -> Sessions]
    BY LockFacts
  <2>4. r.pc = "residue" /\ run' = [run EXCEPT ![p] = r]
    BY <2>1, <2>3 DEF Sessions
  <2> HIDE DEF r
  <2>5. run'[p] = r /\ \A q \in Procs \ {p} : run'[q] = run[q] /\ ~Mutates(run[q])
    BY <2>2, <2>3, <2>4, Alone DEF IInv
  <2>6. lock.ex = p /\ p # Nobody
    BY <2>2, LockFacts, Stage05Assumption
  <2>7. \A plan, goal : TreeAt("residue", plan, goal)'
    BY DEF TreeAt, Publishing
  <2>8. AtWork'
    BY <2>4, <2>5, <2>7 DEF AtWork
  <2>9. "power" \in faults => PowerAt("residue")'
    BY <2>2, SameTree, WorkFacts, QuietTree
  <2>10. PowerSafe'
    BY <2>1, <2>4, <2>5, <2>6, <2>9 DEF PowerSafe
  <2>11. QED BY <2>8, <2>10 DEF TreeInv, OneKind
<1>3. QED BY <1>1, <1>2

LEMMA FaultTree ==
  ASSUME IInv, TreeInv, NEW p \in Procs, UNCHANGED faults, AdvanceReject(p) \/ Error(p) \/ Kill(p)
  PROVE  TreeInv'
<1>1. CASE AdvanceReject(p)
  <2>1. Raise(p) /\ UNCHANGED <<journal, tree>> /\ run[p].pc \notin Unsyncing
    BY <1>1 DEF AdvanceReject, Unsyncing, Publishing
  <2>2. NowStable'
    BY <2>1, SameTree DEF TreeInv
  <2>3. QED BY <2>1, <2>2, RaiseTree
<1>2. CASE Error(p)
  <2>1. "power" \notin faults
    BY <1>2 DEF Error, TreeInv, OneKind
  <2>2. Raise(p) /\ UNCHANGED <<config, experiments, workspace>>
    BY <1>2 DEF Error
  <2>3. (UNCHANGED journal \/ J!Interrupt) /\ rec' = rec
    <3>1. UNCHANGED journal \/ J!Interrupt
      BY <1>2 DEF Error
    <3>2. QED BY <3>1, Interrupted
  <2>4. Mutates(run[p]) \/ UNCHANGED <<journal, tree>>
    <3>1. CASE run[p].pc \in Publishing \cup {"create", "record"}
      <4>1. run[p].pc \notin {"idle", "examine", "resolve"} \cup Allocating
        BY <3>1 DEF Publishing, Allocating
      <4>2. QED BY <4>1, NotWatching DEF Here
    <3>2. CASE run[p].pc \notin Publishing \cup {"create", "record"}
      BY <1>2, <2>2, <3>2 DEF Error, tree
    <3>3. QED BY <3>1, <3>2
  <2>5. NowStable'
    <3>1. CASE marker' = marker
      BY <2>2, <2>3, <3>1 DEF TreeInv, NowStable
    <3>2. CASE run[p].pc \in Publishing /\ marker' \in {WithTemp(NoPlan), Sync(WithTemp(NoPlan))}
      <4>1. run[p].pc \in Building
        BY <3>2 DEF Building
      <4>2. StateIn(rec) = "applying" /\ NowOrdered /\ TreeOK /\ rec.plan # NoPlan
            /\ TreeAt(run[p].pc, run[p].plan, run[p].goal)
        BY <4>1, BuildFacts
      <4>3. workspace.now = "present"
        BY <3>2, <4>2 DEF TreeAt
      <4>4. marker'.now = [final |-> marker.now.final, temp |-> NoPlan]
        <5>1. [marker.now EXCEPT !.temp = NoPlan] = [final |-> marker.now.final, temp |-> NoPlan]
          BY <4>2, ContentsFacts DEF Markers
        <5>2. QED BY <3>2, <5>1 DEF WithTemp, Put, Sync, Fresh
      <4>5. NowOrdered'
        BY <2>2, <2>3, <4>2, <4>3, <4>4 DEF NowOrdered, Ordered
      <4>6. QED BY <2>3, <4>2, <4>5, StableStates DEF NowStable, NowOrdered
    <3>3. QED BY <1>2, <3>1, <3>2 DEF Error
  <2>6. QED BY <2>1, <2>2, <2>4, <2>5, RaiseTree
<1>3. CASE Kill(p)
  <2>1. "power" \notin faults
    BY <1>3 DEF Kill, TreeInv, OneKind
  <2>2. Leave(p) /\ UNCHANGED tree /\ rec' = rec
    <3>1. UNCHANGED journal \/ J!Interrupt
      BY <1>3 DEF Kill
    <3>2. QED BY <1>3, <3>1, Interrupted DEF Kill
  <2>3. NowStable'
    BY <2>2 DEF TreeInv, NowStable, tree
  <2>4. Mutates(run[p]) \/ UNCHANGED <<journal, tree>>
    <3>1. CASE run[p].pc \in {"create", "record"}
      <4>1. run[p].pc \notin {"idle", "examine", "resolve"} \cup Allocating
        BY <3>1 DEF Allocating
      <4>2. QED BY <4>1, NotWatching DEF Here
    <3>2. QED BY <1>3, <3>1 DEF Kill
  <2>5. QED BY <2>1, <2>2, <2>3, <2>4, TreeLeaves
<1>4. QED BY <1>1, <1>2, <1>3

------------------------------------------------------------------------------
(* The host loses power. *)

(* At most the transition that was never acknowledged is lost. *)
LEMMA LosesOne ==
  ASSUME JournalOK, OneAhead, J!Lose
  PROVE  rec' \in {rec, floor}
<1>1. PICK n \in 0..Len(rec.hist) : rec' = UpTo(rec, n)
  BY SameRecords DEF J!Lose
<1>2. Extends(rec', floor)
  BY SameRecords DEF J!Lose
<1>3. /\ NoRecord.plan = NoPlan /\ NoRecord.hist = <<>>
      /\ \A r \in Records : r.plan \in Plans /\ r.hist \in Seq(States) /\ r # NoRecord /\ r.plan # NoPlan
                            /\ r = Record(r.plan, r.hist) /\ Len(r.hist) \in Nat \ {0}
  BY RecordFacts, NoPlanIsNoPlan DEF NoRecord, Record, Records
<1>4. CASE n = 0
  <2>1. rec' = NoRecord
    BY <1>1, <1>4 DEF UpTo
  <2>2. floor = NoRecord
    BY <1>2, <1>3, <2>1 DEF Extends, JournalOK
  <2>3. QED BY <2>1, <2>2
<1>5. CASE n # 0
  <2>1. rec \in Records /\ n \in 1..Len(rec.hist)
    <3>1. rec # NoRecord
      BY <1>3, <1>5
    <3>2. QED BY <1>3, <1>5, <3>1 DEF JournalOK
  <2>2. rec' = Record(rec.plan, SubSeq(rec.hist, 1, n)) /\ rec'.hist = SubSeq(rec.hist, 1, n)
    BY <1>1, <1>5 DEF UpTo, Record
  <2>3. rec.hist \in Seq(States) /\ Len(rec.hist) \in Nat /\ rec = Record(rec.plan, rec.hist)
    BY <1>3, <2>1
  <2>4. Len(SubSeq(rec.hist, 1, n)) = n
    BY <2>1, <2>3
  <2>5. n = Len(rec.hist) => rec' = rec
    <3>1. SubSeq(rec.hist, 1, Len(rec.hist)) = rec.hist
      BY <2>3
    <3>2. QED BY <2>2, <2>3, <3>1
  <2>6. CASE floor = NoRecord /\ Len(rec.hist) = 1
    BY <2>1, <2>5, <2>6
  <2>7. CASE floor # NoRecord
    <3>1. floor \in Records /\ floor.hist \in Seq(States) /\ floor = Record(floor.plan, floor.hist)
      BY <1>3, <2>7 DEF JournalOK
    <3>2. Len(floor.hist) <= n
      BY <1>2, <2>2, <2>4, <2>7 DEF Extends, IsPrefix
    <3>3. CASE rec = floor
      BY <2>1, <2>3, <2>5, <3>2, <3>3
    <3>4. CASE \E st \in States : rec = After(floor, st)
      <4>1. PICK st \in States : rec = After(floor, st)
        BY <3>4
      <4>2. rec.hist = Append(floor.hist, st) /\ rec.plan = floor.plan
        BY <4>1 DEF After, Record
      <4>3. Len(rec.hist) = Len(floor.hist) + 1 /\ Len(floor.hist) \in Nat
        BY <3>1, <4>2
      <4>4. CASE n = Len(floor.hist)
        <5>1. SubSeq(rec.hist, 1, n) = floor.hist
          BY <3>1, <4>2, <4>3, <4>4
        <5>2. QED BY <2>2, <3>1, <4>2, <5>1
      <4>5. QED BY <2>1, <2>5, <3>2, <4>3, <4>4
    <3>5. QED BY <2>7, <3>3, <3>4 DEF OneAhead
  <2>8. CASE floor = NoRecord /\ rec = floor
    BY <2>1, <2>8, <1>3
  <2>9. QED BY <2>6, <2>7, <2>8 DEF OneAhead
<1>6. QED BY <1>4, <1>5

LEMMA PowerLossTree ==
  ASSUME IInv, TreeInv, PowerLoss, UNCHANGED faults
  PROVE  TreeInv'
<1>1. /\ "power" \in faults /\ J!Lose
      /\ stateRoot' \in AfterLoss(stateRoot) /\ config' \in AfterLoss(config)
      /\ marker' \in IF config'.now = "absent" THEN {Fresh(NoMarker)} ELSE AfterLoss(marker)
      /\ experiments' \in IF stateRoot'.now = "absent" THEN {Fresh("absent")} ELSE AfterLoss(experiments)
      /\ workspace' \in IF experiments'.now = "absent" THEN {Fresh("absent")} ELSE AfterLoss(workspace)
      /\ lock' = [ex |-> Nobody, sh |-> {}] /\ run' = [p \in Procs |-> Idle]
  BY DEF PowerLoss
<1>2. \E pc : PowerAt(pc)
  <2>1. CASE lock.ex = Nobody
    BY <1>1, <2>1 DEF TreeInv, PowerSafe
  <2>2. CASE lock.ex # Nobody
    <3>1. lock.ex \in Procs
      BY <2>2, LockFacts
    <3>2. PICK p \in Procs : p = lock.ex
      BY <3>1
    <3>3. Mutates(run[p])
      BY <3>2, LockFacts
    <3>4. QED BY <1>1, <3>3 DEF TreeInv, PowerSafe
  <2>3. QED BY <2>1, <2>2
<1>3. /\ CrashStable(rec) /\ CrashStable(floor) /\ OneAhead
      /\ experiments.now \in experiments.disk /\ workspace.now \in workspace.disk
      /\ marker.now \in marker.disk
  BY <1>2 DEF PowerAt
<1>4. JournalOK /\ TreeOK
  BY DEF IInv, TypeOK, JournalOK, TreeOK
<1>5. floor' = rec' /\ (rec' # NoRecord => rec # NoRecord)
  BY <1>1, <1>4, LoseIs
<1>6. rec' \in {rec, floor}
  BY <1>1, <1>3, <1>4, LosesOne
<1> PICK j : j = rec'
  OBVIOUS
<1>7. CrashStable(j)
  BY <1>3, <1>6
<1>8. config'.now \in config.disk /\ config'.disk = {config'.now}
  BY <1>1, <1>4, AfterLossIs DEF TreeOK
<1>9. PICK m \in marker.disk :
        /\ marker'.now = IF config'.now = "absent" THEN NoMarker ELSE m
        /\ marker'.disk = {marker'.now}
  <2>1. CASE config'.now = "absent"
    BY <1>1, <1>3, <2>1 DEF Fresh
  <2>2. CASE config'.now # "absent"
    BY <1>1, <1>4, <2>2, AfterLossIs DEF TreeOK
  <2>3. QED BY <2>1, <2>2
<1>10. PICK w \in workspace.disk :
        /\ workspace'.now = IF experiments'.now = "absent" THEN "absent" ELSE w
        /\ workspace'.disk = {workspace'.now}
  <2>1. CASE experiments'.now = "absent"
    BY <1>1, <1>3, <2>1 DEF Fresh
  <2>2. CASE experiments'.now # "absent"
    BY <1>1, <1>4, <2>2, AfterLossIs DEF TreeOK
  <2>3. QED BY <2>1, <2>2
<1>11. NowStable' /\ experiments'.disk = {experiments'.now}
  <2>1. CASE stateRoot'.now # "absent"
    <3>1. experiments'.now \in experiments.disk /\ experiments'.disk = {experiments'.now}
      BY <1>1, <1>4, <2>1, AfterLossIs DEF TreeOK
    <3>2. Stable(j, config'.now, experiments'.now, workspace'.now, marker'.now)
      BY <1>7, <1>8, <1>9, <1>10, <3>1 DEF CrashStable
    <3>3. QED BY <3>1, <3>2 DEF NowStable
  <2>2. CASE stateRoot'.now = "absent"
    <3>1. experiments'.now = "absent" /\ experiments'.disk = {"absent"}
      BY <1>1, <2>2 DEF Fresh
    <3>2. j = NoRecord
      <4>1. stateRoot'.now \in stateRoot.disk
        BY <1>1, AfterLossIs DEF IInv, TypeOK
      <4>2. stateRoot.disk # {"exact"}
        BY <2>2, <4>1
      <4>3. QED BY <1>5, <4>2 DEF IInv, RootsOK
    <3>3. PICK e \in experiments.disk :
            Stable(j, config'.now, e, IF e = "absent" THEN "absent" ELSE w, marker'.now)
      BY <1>3, <1>7, <1>8, <1>9 DEF CrashStable
    <3>4. NothingThere(config'.now, "absent", "absent", marker'.now)
      BY <3>2, <3>3 DEF Stable, StateIn, NothingThere
    <3>5. Stable(j, config'.now, experiments'.now, workspace'.now, marker'.now)
      BY <1>10, <3>1, <3>2, <3>4 DEF Stable, StateIn, Ordered, NothingThere, NoMarker
    <3>6. QED BY <3>1, <3>5 DEF NowStable
  <2>3. QED BY <2>1, <2>2
<1>12. AtWork'
  <2>1. \A p \in Procs : ~Mutates(run'[p])
    BY <1>1 DEF Mutates, Idle
  <2>2. QED BY <2>1 DEF AtWork
<1>13. PowerAt("idle")'
  <2>1. /\ experiments'.now = "absent" => workspace'.now = "absent"
        /\ config'.now = "absent" => marker'.now = NoMarker
    BY <1>9, <1>10
  <2>2. CrashStable(rec)'
    BY <1>8, <1>9, <1>10, <1>11, <2>1 DEF CrashStable, NowStable
  <2>3. CrashStable(floor)'
    BY <1>5, <2>2 DEF CrashStable
  <2>4. SyncedAt("idle")' /\ OneAhead'
    BY <1>5, <1>8, <1>9, <1>10, <1>11 DEF SyncedAt, Synced, OneAhead
  <2>5. QED BY <1>8, <1>9, <1>10, <1>11, <2>2, <2>3, <2>4 DEF PowerAt
<1>14. PowerSafe'
  <2>1. \A p \in Procs : ~Mutates(run'[p])
    BY <1>1 DEF Mutates, Idle
  <2>2. QED BY <1>13, <2>1 DEF PowerSafe
<1>15. QED BY <1>11, <1>12, <1>14 DEF TreeInv, OneKind

------------------------------------------------------------------------------
(* The second part of the invariant holds, where a host does not both lose power
   and see processes killed or system calls fail. *)

OneKindOfFailure == \A f \in FaultModels : "power" \in f => f \cap {"kill", "error"} = {}

LEMMA InitIsTreeInv == ASSUME OneKindOfFailure, Init PROVE TreeInv
<1>1. /\ rec = NoRecord /\ floor = NoRecord /\ faults \in FaultModels
      /\ config = Fresh("absent") /\ experiments = Fresh("absent") /\ workspace = Fresh("absent")
      /\ marker = Fresh(NoMarker) /\ run = [p \in Procs |-> Idle]
  BY SameRecords DEF Init, J!Init
<1>2. /\ config.now = "absent" /\ experiments.now = "absent" /\ workspace.now = "absent"
      /\ marker.now = NoMarker
      /\ config.disk = {"absent"} /\ experiments.disk = {"absent"} /\ workspace.disk = {"absent"}
      /\ marker.disk = {NoMarker}
  BY <1>1 DEF Fresh
<1>3. Stable(NoRecord, "absent", "absent", "absent", NoMarker)
  BY DEF Stable, StateIn, NothingThere, Ordered, NoMarker
<1>4. NowStable
  BY <1>1, <1>2, <1>3 DEF NowStable
<1>5. \A p \in Procs : ~Mutates(run[p])
  BY <1>1 DEF Mutates, Idle
<1>6. PowerAt("idle")
  <2>1. CrashStable(NoRecord)
    BY <1>2, <1>3 DEF CrashStable
  <2>2. QED BY <1>1, <1>2, <2>1 DEF PowerAt, SyncedAt, Synced, OneAhead
<1>7. OneKind
  BY <1>1 DEF OneKind, OneKindOfFailure
<1>8. QED BY <1>4, <1>5, <1>6, <1>7 DEF TreeInv, AtWork, PowerSafe

LEMMA StepTree ==
  ASSUME IInv, TreeInv, JournalOK', NEW p \in Procs, UNCHANGED faults, Start(p) \/ Step(p) \/ Fault(p)
  PROVE  TreeInv'
<1>1. CASE Start(p)
  BY <1>1, BeginTree DEF Start
<1>2. CASE AllocateRoots(p)
  BY <1>2, AllocateTree, SyncRootsTree, BeginTree, EndTree DEF AllocateRoots
<1>3. CASE Execute(p) /\ UNCHANGED roots
  <2>1. CASE \/ EndExecute(p) \/ CreateRecord(p) \/ CreateSync(p) \/ RecordedApplying(p)
             \/ RecordedApplied(p)
    BY <1>3, <2>1, EndTree, JournalTree, AcknowledgeTree
  <2>2. CASE \/ StartCreate(p) \/ StartApplying(p) \/ ResumeApplying(p) \/ ResumeApplied(p)
             \/ ExecutePrefix(p) \/ Resume(p) \/ RecoverPrefix(p) \/ Built(p)
    BY <1>3, <2>2, DecideTree
  <2>3. CASE \/ MakeConfig(p) \/ SetConfigMode(p) \/ SyncConfig(p) \/ MakeExperiments(p)
             \/ SyncExperiments(p) \/ MakeWorkspace(p) \/ SyncWorkspace(p)
    BY <2>3, DirsTree
  <2>4. CASE \/ CreateMarkerTemp(p) \/ WriteMarker(p) \/ LinkMarker(p) \/ SyncMarker(p)
             \/ UnlinkMarkerTemp(p) \/ SyncMarkerUnlink(p)
    BY <2>4, MarkerTree
  <2>5. CASE SyncPrefix(p)
    BY <2>5, PrefixTree
  <2>6. QED BY <1>3, <2>1, <2>2, <2>3, <2>4, <2>5 DEF Execute
<1>4. CASE Rollback(p) /\ UNCHANGED roots
  BY <1>4, EndTree, DecideTree, AcknowledgeTree, RemoveTree DEF Rollback
<1>5. CASE Shared(p) /\ UNCHANGED roots
  BY <1>5, PrefixTree, DecideTree, EndTree, JournalTree, FaultTree, AcknowledgeTree DEF Shared
<1>6. CASE EndObserve(p)
  BY <1>6, EndTree
<1>7. CASE Fault(p)
  BY <1>7, EndTree, FaultTree DEF Fault
<1>8. QED BY <1>1, <1>2, <1>3, <1>4, <1>5, <1>6, <1>7 DEF Step

LEMMA NextTree == ASSUME IInv, TreeInv, [Next]_<<vars, faults>> PROVE TreeInv'
<1>1. JournalOK'
  <2>1. IInv'
    BY NextPreserves
  <2>2. QED BY <2>1 DEF IInv, TypeOK, JournalOK
<1>2. CASE UNCHANGED <<vars, faults>>
  <2>1. UNCHANGED <<journal, tree, run, lock, faults>>
    BY <1>2 DEF vars
  <2>2. NowStable'
    BY <2>1, SameTree DEF TreeInv
  <2>3. AtWork'
    BY <2>1, SameTree DEF TreeInv, AtWork
  <2>4. PowerSafe'
    BY <2>1, SameTree DEF TreeInv, PowerSafe
  <2>5. QED BY <2>1, <2>2, <2>3, <2>4 DEF TreeInv, OneKind
<1>3. CASE Next
  <2>1. UNCHANGED faults
    BY <1>3 DEF Next
  <2>2. CASE PowerLoss
    BY <2>1, <2>2, PowerLossTree
  <2>3. CASE \E p \in Procs : Start(p) \/ Step(p) \/ Fault(p)
    BY <1>1, <2>1, <2>3, StepTree
  <2>4. QED BY <1>3, <2>2, <2>3 DEF Next
<1>4. QED BY <1>2, <1>3

(* At every step of every operation, and after every failure, the four resources are
   what the journal says they may be, and what a power failure would leave of them is
   what the journal it would leave says. *)
THEOREM ResourcesFollowTheJournal == ASSUME OneKindOfFailure PROVE Spec => [](IInv /\ TreeInv)
<1>1. Init => IInv /\ TreeInv
  BY InitIsIInv, InitIsTreeInv
<1>2. IInv /\ TreeInv /\ [Next]_<<vars, faults>> => (IInv /\ TreeInv)'
  BY NextPreserves, NextTree
<1>3. QED BY <1>1, <1>2, PTL DEF Spec

LEMMA TreeMeans ==
  ASSUME IInv, TreeInv
  PROVE  /\ TreeOK /\ NowStable /\ State = StateIn(rec)
         /\ rec # NoRecord => rec.plan # NoPlan /\ State \in States
         /\ marker.now.final = NoPlan /\ marker.now.temp = NoPlan <=> marker.now = NoMarker
<1>1. TreeOK
  BY DEF IInv, TypeOK, TreeOK
<1>2. rec # NoRecord => rec.plan # NoPlan /\ State \in States
  BY RecordFacts, NoPlanIsNoPlan DEF IInv, TypeOK, State
<1>3. marker.now.final = NoPlan /\ marker.now.temp = NoPlan <=> marker.now = NoMarker
  BY <1>1 DEF TreeOK, DirOf, Contents, NoMarker
<1>4. QED BY <1>1, <1>2, <1>3 DEF TreeInv, State, StateIn

LEMMA WritesAhead == ASSUME IInv, TreeInv PROVE WriteAhead
<1>1. TreeOK /\ NowStable /\ State = StateIn(rec)
  BY TreeMeans
<1>2. QED BY <1>1, PrefixIs DEF WriteAhead, Untouched, NowStable, Stable, NothingThere

(* Nothing is created before the journal durably says applying, and nothing is left
   when it says rolled_back, before and after every crash of every operation. *)
THEOREM JournalComesFirst == ASSUME OneKindOfFailure PROVE Spec => []WriteAhead
BY WritesAhead, ResourcesFollowTheJournal, PTL

LEMMA MarkerStandsLast == ASSUME IInv, TreeInv PROVE MarkerIsLast
<1>1. /\ TreeOK /\ NowStable /\ State = StateIn(rec)
      /\ marker.now.final # NoPlan \/ marker.now.temp # NoPlan => marker.now # NoMarker
  BY TreeMeans
<1>2. Present[2] <=> experiments.now # "absent"
  BY DEF Present
<1>3. Present[3] <=> workspace.now # "absent"
  BY DEF Present
<1>4. QED BY <1>1, <1>2, <1>3 DEF MarkerIsLast, NowStable, Stable, Ordered, NothingThere

(* The marker is the last to come and the first to go, and never another plan's. *)
THEOREM MarkerComesLast == ASSUME OneKindOfFailure PROVE Spec => []MarkerIsLast
BY MarkerStandsLast, ResourcesFollowTheJournal, PTL

LEMMA AuthorizedMeansComplete == ASSUME IInv, TreeInv PROVE AuthorizedIsComplete
<1>1. SUFFICES ASSUME State \in {"applied", "validated"} PROVE Strict(rec.plan) /\ PrefixLength = 4
  BY DEF AuthorizedIsComplete
<1>2. /\ TreeOK /\ NowStable /\ State = StateIn(rec)
      /\ rec # NoRecord => rec.plan # NoPlan
  BY TreeMeans
<1>3. rec # NoRecord
  BY <1>1 DEF State
<1>4. config.now = "exact" /\ marker.now = [final |-> rec.plan, temp |-> NoPlan]
  BY <1>1, <1>2 DEF NowStable, Stable
<1>5. IsPrefixShaped /\ PrefixLength = 4
  BY <1>2, <1>3, <1>4, PrefixIs
<1>6. QED BY <1>4, <1>5 DEF Strict

(* Whoever finds the journal applied or validated finds the four resources exact. *)
THEOREM AuthorizationIsComplete == ASSUME OneKindOfFailure PROVE Spec => []AuthorizedIsComplete
BY AuthorizedMeansComplete, ResourcesFollowTheJournal, PTL

LEMMA RollbackStarts == ASSUME IInv, TreeInv PROVE NeverStranded
<1>1. SUFFICES ASSUME rec # NoRecord, ~blocked, marker.now.temp # Torn PROVE RollbackCanStart(rec.plan)
  BY DEF NeverStranded
<1>2. /\ TreeOK /\ NowStable /\ State = StateIn(rec)
      /\ rec.plan # NoPlan /\ State \in States
  BY <1>1, TreeMeans
<1>3. Usable(rec.plan)
  BY <1>1 DEF Usable
<1>4. IsPrefixShaped /\ (PrefixLength = 1 <=> config.now # "absent" /\ experiments.now = "absent")
  BY <1>2, PrefixIs
<1>5. marker.now.final \in {NoPlan, rec.plan} /\ marker.now.temp \in {NoPlan, rec.plan}
  BY <1>1, <1>2 DEF NowStable, Stable, Ordered
<1>6. CASE State = "applying"
  <2>1. CASE marker.now.temp # NoPlan
    <3>1. config.now = "exact"
      BY <1>2, <2>1 DEF NowStable, Stable, Ordered, NoMarker
    <3>2. QED BY <1>3, <1>4, <1>5, <1>6, <2>1, <3>1 DEF RollbackCanStart
  <2>2. CASE marker.now.temp = NoPlan /\ config.now = "provisional"
    <3>1. experiments.now = "absent"
      BY <1>2, <2>2 DEF NowStable, Stable, Ordered, TreeOK, DirOf, Presence
    <3>2. Repairable
      BY <1>4, <2>2, <3>1 DEF Repairable
    <3>3. QED BY <1>3, <1>6, <3>2 DEF RollbackCanStart
  <2>3. CASE marker.now.temp = NoPlan /\ config.now # "provisional"
    BY <1>3, <1>4, <1>5, <2>3 DEF RollbackCanStart, Strict
  <2>4. QED BY <2>1, <2>2, <2>3
<1>7. CASE State # "applying"
  <2>1. config.now # "provisional" /\ marker.now.temp = NoPlan
    BY <1>2, <1>7 DEF NowStable, Stable, NothingThere, NoMarker, States
  <2>2. QED BY <1>3, <1>4, <1>5, <2>1 DEF RollbackCanStart, Strict
<1>8. QED BY <1>6, <1>7

(* Whatever failed, whenever, rollback() can go on from what is there, but for the
   torn temporary files the code refuses to remove. *)
THEOREM NobodyIsStranded == ASSUME OneKindOfFailure PROVE Spec => []NeverStranded
BY RollbackStarts, ResourcesFollowTheJournal, PTL

LEMMA TableHolds ==
  ASSUME IInv, TreeInv
  PROVE  PlannedMeansNothingThere /\ RolledBackMeansNothingThere /\ FailedMeansStable
<1>1. PlannedMeansNothingThere /\ RolledBackMeansNothingThere
  BY WritesAhead DEF WriteAhead, PlannedMeansNothingThere, RolledBackMeansNothingThere
<1>2. FailedMeansStable
  <2>1. SUFFICES ASSUME State = "failed", ~blocked PROVE Strict(rec.plan)
    BY DEF FailedMeansStable
  <2>2. TreeOK /\ NowStable /\ State = StateIn(rec)
    BY TreeMeans
  <2>3. /\ config.now # "provisional" /\ marker.now.temp = NoPlan
        /\ marker.now.final \in {NoPlan, rec.plan}
    BY <2>1, <2>2 DEF NowStable, Stable, Ordered
  <2>4. QED BY <2>2, <2>3, PrefixIs DEF Strict
<1>3. QED BY <1>1, <1>2

(* The rows of the crash table of the marker contract that a power failure after
   another failure breaks are true when only one kind of failure happens: nothing is
   there in planned and rolled_back, and failed is a prefix that can be revoked. *)
THEOREM CrashTable ==
  ASSUME OneKindOfFailure
  PROVE  Spec => [](PlannedMeansNothingThere /\ RolledBackMeansNothingThere /\ FailedMeansStable)
BY TableHolds, ResourcesFollowTheJournal, PTL

------------------------------------------------------------------------------
(* Stage 05 and the promise of the journal. *)

LEMMA JournalActions ==
  ASSUME IInv, NEW p \in Procs, CreateRecord(p) \/ CreateSync(p) \/ Advance(p)
  PROVE  J!Next
<1>1. run[p].goal \in States /\ (run[p].pc # "idle" => run[p].plan \in Plans)
  BY DEF IInv, TypeOK, LockOK, SessionOK
<1>2. CASE CreateRecord(p)
  BY <1>1, <1>2 DEF CreateRecord, J!Next
<1>3. CASE CreateSync(p)
  BY <1>3 DEF CreateSync, J!Next
<1>4. CASE Advance(p)
  <2>1. run[p].goal \in J!States /\ J!Advance(run[p].goal)
    BY <1>1, <1>4 DEF Advance, States, J!States
  <2>2. QED BY <2>1 DEF J!Next
<1>5. QED BY <1>2, <1>3, <1>4

LEMMA StepsOfJournal ==
  ASSUME IInv, Next
  PROVE  J!Next \/ UNCHANGED J!journalVars
<1>1. UNCHANGED journal => UNCHANGED J!journalVars
  BY DEF journal, J!journalVars
<1>2. ASSUME NEW p \in Procs, Start(p) \/ AllocateRoots(p) \/ EndObserve(p) PROVE UNCHANGED journal
  BY <1>2 DEF Start, BeginExecute, BeginRollback, BeginObserve, Allocate, AllocateRoots, StateRootAbsent,
     StateRootExact, MakeStateRoot, SetStateMode, SyncStateRoot, RepairStateRoot, RepairStateSync,
     AllocateStep, JournalRootPresent, JournalRootAbsent, MakeJournalRoot, SyncJournalRoot, AllocateReject,
     SyncRoots, Enter, EnterBusy, EndObserve
<1>3. ASSUME NEW p \in Procs, Execute(p) PROVE J!Next \/ UNCHANGED journal
  <2>1. CASE CreateRecord(p) \/ CreateSync(p)
    BY <2>1, JournalActions
  <2>2. CASE \/ EndExecute(p) \/ StartCreate(p) \/ StartApplying(p) \/ ResumeApplying(p)
             \/ ResumeApplied(p) \/ ExecutePrefix(p) \/ SyncPrefix(p) \/ Resume(p) \/ RecoverPrefix(p)
    BY <2>2 DEF EndExecute, StartCreate, StartApplying, ResumeApplying, ResumeApplied, Accepted, ExecutePrefix,
       SyncPrefix, Resume, RecoverPrefix
  <2>3. CASE \/ MakeConfig(p) \/ SetConfigMode(p) \/ SyncConfig(p) \/ MakeExperiments(p)
             \/ SyncExperiments(p) \/ MakeWorkspace(p) \/ SyncWorkspace(p) \/ CreateMarkerTemp(p)
             \/ WriteMarker(p) \/ LinkMarker(p) \/ SyncMarker(p) \/ UnlinkMarkerTemp(p)
             \/ SyncMarkerUnlink(p) \/ Built(p)
    BY <2>3 DEF MakeConfig, SetConfigMode, SyncConfig, MakeExperiments, SyncExperiments, MakeWorkspace,
       SyncWorkspace, CreateMarkerTemp, WriteMarker, LinkMarker, SyncMarker, UnlinkMarkerTemp,
       SyncMarkerUnlink, MarkerStep, Built
  <2>4. CASE RecordedApplying(p) \/ RecordedApplied(p)
    BY <2>4 DEF RecordedApplying, RecordedApplied, Recorded, J!Next
  <2>5. QED BY <1>3, <2>1, <2>2, <2>3, <2>4 DEF Execute
<1>4. ASSUME NEW p \in Procs, Rollback(p) PROVE J!Next \/ UNCHANGED journal
  BY <1>4 DEF Rollback, RollbackStart, EndRollback, RollbackPrefix, EndRolledBack, RecordedFailed,
     RecordedRollingBack, Recorded, RemoveLast, SyncRemoved, Removed, J!Next
<1>5. ASSUME NEW p \in Procs, Shared(p) PROVE J!Next \/ UNCHANGED journal
  <2>1. CASE Advance(p)
    BY <2>1, JournalActions
  <2>2. CASE ~Advance(p)
    BY <1>5, <2>2 DEF Shared, RemoveResidue, SyncResidue, NoResidue, RepairMode, RepairSync, PrefixReject,
       AdvanceReject, RecordedLast, Recorded, J!Next
  <2>3. QED BY <2>1, <2>2
<1>6. ASSUME NEW p \in Procs, Fault(p) PROVE J!Next \/ UNCHANGED journal
  BY <1>6 DEF Fault, Refuse, Error, Kill, J!Next
<1>7. PowerLoss => J!Next
  BY DEF PowerLoss, J!Next
<1>8. QED BY <1>1, <1>2, <1>3, <1>4, <1>5, <1>6, <1>7 DEF Next, Step

(* Stage 05 knows the journal by its promise only, and keeps to it: it publishes for a
   plan that asks, appends transitions one by one, tells of a record what is there, and
   whatever is killed, fails or loses power takes back no more than module Journal says. *)
THEOREM KeepsToTheJournal == Spec => J!Spec
<1>1. Init => J!Init
  BY DEF Init
<1>2. IInv /\ [Next]_<<vars, faults>> => [J!Next]_(J!journalVars)
  BY StepsOfJournal DEF vars, journal, J!journalVars
<1>3. QED BY <1>1, <1>2, Invariance, PTL DEF Spec, J!Spec

------------------------------------------------------------------------------
(* The operator who insists on rollback once failures have ceased is one of the
   behaviours of the program: what was proved of Spec holds of it. *)
THEOREM OperatorIsAllowed == OperatorSpec => Spec
<1>1. OperatorInit => Init
  BY DEF OperatorInit
<1>2. [OperatorNext]_<<vars, faults, calm>> => [Next]_<<vars, faults>>
  BY DEF OperatorNext, CalmDown, Troubled, Work, Next
<1>3. QED BY <1>1, <1>2, PTL DEF OperatorSpec, Spec
==============================================================================

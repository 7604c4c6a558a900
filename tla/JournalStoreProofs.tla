-------------------------- MODULE JournalStoreProofs --------------------------
(***************************************************************************)
(* The journal directory keeps its word for any number of processes, plans *)
(* and files: IInv is inductive, hence no power failure takes back a       *)
(* transition that was returned, and none tears the published record; with *)
(* PInv, each step is one the abstract journal allows.                     *)
(***************************************************************************)
EXTENDS JournalStore, TLAPS

AnyRecord == Records \cup {NoRecord}

------------------------------------------------------------------------------
(* Facts about records. *)

(* A record extends itself: reading the journal twice never looks like a loss. *)
LEMMA ExtendsRefl == ASSUME NEW r \in AnyRecord PROVE Extends(r, r)
  BY DEF AnyRecord, Records, NoRecord, Record, Extends, IsPrefix

(* What extends a record extends what that record extends: acknowledgements
   accumulate. *)
LEMMA ExtendsTrans ==
  ASSUME NEW r \in AnyRecord, NEW q \in AnyRecord, NEW s \in AnyRecord,
         Extends(r, q), Extends(q, s)
  PROVE  Extends(r, s)
<1>1. CASE s = NoRecord
  BY <1>1 DEF Extends
<1>2. CASE s # NoRecord /\ q = NoRecord
  <2>1. s \in Records /\ s.plan = NoPlan
    BY <1>2 DEF Extends, AnyRecord, NoRecord, Record
  <2>2. QED BY <2>1, NoPlanIsNoPlan DEF Records
<1>3. CASE s # NoRecord /\ q # NoRecord
  BY <1>3 DEF Extends, AnyRecord, Records, NoRecord, Record, IsPrefix
<1>4. QED BY <1>1, <1>2, <1>3

(* Only an empty history is extended by no record at all. *)
LEMMA NothingExtends ==
  ASSUME NEW s \in AnyRecord, Extends(NoRecord, s)
  PROVE  s = NoRecord
  BY NoPlanIsNoPlan DEF Extends, AnyRecord, Records, NoRecord, Record

(* A transition only adds to the history it starts from. *)
LEMMA AfterExtends ==
  ASSUME NEW r \in Records, NEW st \in States
  PROVE  After(r, st) \in Records /\ Extends(After(r, st), r)
<1>1. Append(r.hist, st) \in Seq(States) \ {<<>>}
  BY DEF Records
<1>2. IsPrefix(r.hist, Append(r.hist, st))
  BY DEF Records, IsPrefix
<1>3. QED BY <1>1, <1>2 DEF Records, After, Record, Extends

(* The record create() publishes is a record of its plan. *)
LEMMA PlannedIsRecord == ASSUME NEW plan \in Plans PROVE Planned(plan) \in Records
  BY DEF Planned, Record, Records, States

(* A record's last state is one of the lifecycle's. *)
LEMMA StateOfRecord ==
  ASSUME NEW r \in Records
  PROVE  StateOf(r) \in States /\ Allowed[StateOf(r)] \subseteq States
<1>1. Len(r.hist) \in 1..Len(r.hist)
  BY DEF Records
<1>2. StateOf(r) \in States
  BY <1>1 DEF StateOf, Records
<1>3. QED BY <1>2 DEF Allowed, States

------------------------------------------------------------------------------
(* What a step of one process leaves to the others. *)

(* p acts inside its exclusive session: every other process stays where it is. *)
Moves(p) ==
  /\ lock.ex = p
  /\ lock' = lock
  /\ call' \in [Procs -> Sessions]
  /\ call'[p].pc \notin {"idle", "reading"}
  /\ \A q \in Procs \ {p} : call'[q] = call[q]

DiskTyped ==
  /\ root \in DirOf(Entries)
  /\ file \in [Inodes -> Contents]
  /\ acked \in AnyRecord

(* The lock keeps a writer's assumptions from being disturbed by anybody else. *)
LEMMA Bystanders ==
  ASSUME IInv, NEW p \in Procs, Moves(p), CallOK(p)'
  PROVE  OneWriter' /\ \A q \in Procs : CallOK(q)'
<1>1. ASSUME NEW q \in Procs, q # p
      PROVE  call'[q] = call[q] /\ call[q].pc \in {"idle", "reading"}
  BY <1>1 DEF IInv, OneWriter, Moves
<1>2. \A q \in Procs : CallOK(q)'
  BY <1>1 DEF CallOK, Handled
<1>3. OneWriter'
  BY <1>1 DEF IInv, OneWriter, Moves
<1>4. QED BY <1>2, <1>3

(* A step inside a session preserves the invariant when it preserves what is
   said of the disk and of its own session. *)
LEMMA Frame ==
  ASSUME IInv, NEW p \in Procs, Moves(p), DiskTyped', DiskOK', CallOK(p)'
  PROVE  IInv'
<1>1. TypeOK'
  BY DEF IInv, TypeOK, Moves, DiskTyped, AnyRecord
<1>2. QED BY <1>1, Bystanders DEF IInv

(* The session of p moves on to c. *)
LEMMA MovesTo ==
  ASSUME IInv, NEW p \in Procs, call[p].pc \notin {"idle", "reading"}, lock' = lock,
         NEW c \in Sessions, c.pc \notin {"idle", "reading"},
         call' = [call EXCEPT ![p] = c]
  PROVE  Moves(p) /\ call'[p] = c
  BY DEF IInv, TypeOK, OneWriter, Moves

(* Goto keeps the session's data. *)
LEMMA MovesGoto ==
  ASSUME IInv, NEW p \in Procs, call[p].pc \notin {"idle", "reading"}, lock' = lock,
         NEW pc \in PCs \ {"idle", "reading"}, Goto(p, pc)
  PROVE  /\ Moves(p)
         /\ call'[p].pc = pc
         /\ call'[p].op = call[p].op
         /\ call'[p].new = call[p].new
         /\ call'[p].temp = call[p].temp
<1> DEFINE c == [call[p] EXCEPT !.pc = pc]
<1>1. call[p] \in Sessions
  BY DEF IInv, TypeOK
<1>2. c \in Sessions /\ c.pc = pc /\ c.op = call[p].op /\ c.new = call[p].new /\ c.temp = call[p].temp
  BY <1>1 DEF Sessions
<1>3. call' = [call EXCEPT ![p] = c]
  BY DEF Goto
<1> HIDE DEF c
<1>4. QED BY <1>2, <1>3, MovesTo

(* Return opens the session again. *)
LEMMA MovesReturn ==
  ASSUME IInv, NEW p \in Procs, call[p].pc \notin {"idle", "reading"}, lock' = lock, Return(p)
  PROVE  Moves(p) /\ CallOK(p)'
<1>1. Session \in Sessions /\ Session.pc = "ready"
  BY DEF Session, Sessions, PCs, Calls, States, Names
<1>2. call' = [call EXCEPT ![p] = Session]
  BY DEF Return
<1>3. Moves(p) /\ call'[p] = Session
  BY <1>1, <1>2, MovesTo
<1>4. QED BY <1>1, <1>3 DEF CallOK, Handled

------------------------------------------------------------------------------
(* What each kind of system call does to the disk. *)

(* A step that only reads leaves the disk as it was. *)
LEMMA DiskSame ==
  ASSUME IInv, UNCHANGED <<root, file, acked>>
  PROVE  DiskTyped' /\ DiskOK'
  BY DEF IInv, TypeOK, DiskTyped, AnyRecord, DiskOK, PublishedIsWhole, AckedIsDurable, RecordIn

(* Removing a temporary name takes no published record away. *)
LEMMA DiskUnlink ==
  ASSUME IInv, NEW t \in Temps, Unlink(t), UNCHANGED <<file, acked>>
  PROVE  /\ DiskTyped' /\ DiskOK'
         /\ FinalRecord' = FinalRecord /\ Published' = Published
<1> DEFINE v == [root.now EXCEPT ![t] = NoFile]
<1>1. root \in DirOf(Entries) /\ t \in Names /\ t # Final /\ root.now \in root.disk
  BY StoreAssumption DEF IInv, TypeOK, DiskOK, Names
<1>2. v \in Entries /\ v[Final] = root.now[Final]
      /\ \A n \in Names : v[n] \in {NoFile, root.now[n]}
  BY <1>1 DEF DirOf, Entries, Names
<1>3. root'.now = v /\ root'.disk = root.disk \cup {v}
  BY DEF Unlink, Put
<1>4. root' \in DirOf(Entries)
  BY <1>1, <1>2, Zenon DEF Unlink, Put, DirOf
<1> HIDE DEF v
<1>5. DiskTyped'
  BY <1>4 DEF IInv, TypeOK, DiskTyped, AnyRecord
<1>6. FinalRecord' = FinalRecord /\ Published' = Published
  BY <1>2, <1>3 DEF FinalRecord, Published, RecordIn
<1>7. \A entries \in root.disk : Extends(RecordIn(entries), acked)
  BY DEF IInv, DiskOK, AckedIsDurable
<1>8. \A entries \in root'.disk :
        \/ entries \in root.disk
        \/ \A n \in Names : entries[n] \in {NoFile, root.now[n]} /\ entries[Final] = root.now[Final]
  BY <1>2, <1>3
<1>9. AckedIsDurable'
  BY <1>1, <1>7, <1>8 DEF AckedIsDurable, RecordIn, Names
<1>10. PublishedIsWhole'
  BY <1>1, <1>8 DEF IInv, DiskOK, PublishedIsWhole, Names
<1>11. \A entries \in root'.disk : \A n \in Names : entries[n] # NoFile => file'[entries[n]].rec \in Records
  BY <1>1, <1>8 DEF IInv, DiskOK
<1>12. QED BY <1>3, <1>5, <1>6, <1>9, <1>10, <1>11 DEF DiskOK

(* fsync of the directory leaves one possible past, the present. *)
LEMMA DiskSync ==
  ASSUME IInv, SyncRoot, acked' = acked
  PROVE  /\ DiskTyped' /\ DiskOK'
         /\ root'.disk = {root'.now} /\ root'.now = root.now
         /\ FinalRecord' = FinalRecord /\ Published' = Published
<1>1. root \in DirOf(Entries) /\ root.now \in root.disk /\ file \in [Inodes -> Contents]
  BY DEF IInv, TypeOK, DiskOK
<1>2. root'.now = root.now /\ root'.disk = {root.now}
  BY DEF SyncRoot, Sync, Fresh
<1>3. root' \in DirOf(Entries)
  BY <1>1 DEF SyncRoot, Sync, Fresh, DirOf
<1>4. Blank \in Contents
  BY DEF Blank, Contents
<1>5. file' = [i \in Inodes |-> IF \E n \in Names : root.now[n] = i THEN file[i] ELSE Blank]
  BY <1>2 DEF SyncRoot, Reclaimed
<1>6. file' \in [Inodes -> Contents]
  BY <1>1, <1>4, <1>5
<1>7. \A n \in Names : root.now[n] # NoFile => file'[root.now[n]] = file[root.now[n]]
  BY <1>1, <1>5 DEF DirOf, Entries
<1>8. DiskTyped'
  BY <1>3, <1>6 DEF IInv, TypeOK, DiskTyped, AnyRecord
<1>9. Final \in Names
  BY DEF Names
<1>10. FinalRecord' = FinalRecord /\ Published' = Published
  BY <1>2, <1>7, <1>9 DEF FinalRecord, Published, RecordIn
<1>11. AckedIsDurable'
  BY <1>1, <1>2, <1>7, <1>9 DEF IInv, DiskOK, AckedIsDurable, RecordIn
<1>12. PublishedIsWhole'
  BY <1>1, <1>2, <1>7, <1>9 DEF IInv, DiskOK, PublishedIsWhole
<1>13. \A entries \in root'.disk : \A n \in Names : entries[n] # NoFile => file'[entries[n]].rec \in Records
  BY <1>1, <1>2, <1>7 DEF IInv, DiskOK
<1>14. QED BY <1>2, <1>8, <1>10, <1>11, <1>12, <1>13 DEF DiskOK

(* Renaming or linking onto the published name: what stands there next is
   whole and carries what was acknowledged. *)
LEMMA DiskPublish ==
  ASSUME IInv, NEW v \in Entries, NEW i \in Inodes,
         root' = Put(root, v), UNCHANGED <<file, acked>>,
         v[Final] = i,
         \A n \in Temps : v[n] \in {NoFile, root.now[n]},
         file[i].rec \in Records, file[i].written, file[i].synced,
         Extends(file[i].rec, acked)
  PROVE  DiskTyped' /\ DiskOK'
<1>1. root \in DirOf(Entries) /\ root.now \in root.disk /\ i # NoFile
  BY StoreAssumption DEF IInv, TypeOK, DiskOK
<1>2. root'.now = v /\ root'.disk = root.disk \cup {v}
  BY DEF Put
<1>3. root' \in DirOf(Entries)
  BY <1>1, Zenon DEF Put, DirOf
<1>4. DiskTyped'
  BY <1>3 DEF IInv, TypeOK, DiskTyped, AnyRecord
<1>5. AckedIsDurable'
  BY <1>1, <1>2 DEF IInv, DiskOK, AckedIsDurable, RecordIn
<1>6. PublishedIsWhole'
  BY <1>1, <1>2 DEF IInv, DiskOK, PublishedIsWhole
<1>7. \A n \in Names : v[n] # NoFile => file[v[n]].rec \in Records
  BY <1>1 DEF IInv, DiskOK, Names
<1>8. \A entries \in root'.disk : \A n \in Names : entries[n] # NoFile => file'[entries[n]].rec \in Records
  BY <1>2, <1>7 DEF IInv, DiskOK
<1>9. QED BY <1>2, <1>4, <1>5, <1>6, <1>8 DEF DiskOK

(* A file whose name no power failure can bring back may be written afresh. *)
LEMMA DiskNewFile ==
  ASSUME IInv, NEW t \in Temps, NEW i \in Inodes, NEW c \in Contents,
         c.rec \in Records,
         \A d \in root.disk : \A n \in Names : d[n] # i,
         root' = Put(root, [root.now EXCEPT ![t] = i]),
         file' = [file EXCEPT ![i] = c], acked' = acked
  PROVE  /\ DiskTyped' /\ DiskOK'
         /\ root'.now[t] = i /\ file'[i] = c
         /\ \A d \in root'.disk : d[Final] # i
         /\ FinalRecord' = FinalRecord /\ Published' = Published
<1> DEFINE v == [root.now EXCEPT ![t] = i]
<1>1. root \in DirOf(Entries) /\ t \in Names /\ t # Final /\ root.now \in root.disk /\ i # NoFile
      /\ Final \in Names
  BY StoreAssumption DEF IInv, TypeOK, DiskOK, Names
<1>2. v \in Entries /\ v[t] = i /\ \A n \in Names \ {t} : v[n] = root.now[n]
  BY <1>1 DEF DirOf, Entries, Names
<1>3. root'.now = v /\ root'.disk = root.disk \cup {v}
  BY DEF Put
<1>4. root' \in DirOf(Entries)
  BY <1>1, <1>2, Zenon DEF Put, DirOf
<1> HIDE DEF v
<1>5. file' \in [Inodes -> Contents] /\ file'[i] = c /\ \A j \in Inodes \ {i} : file'[j] = file[j]
  BY DEF IInv, TypeOK
<1>6. DiskTyped'
  BY <1>4, <1>5 DEF IInv, TypeOK, DiskTyped, AnyRecord
<1>7. \A d \in root.disk : \A n \in Names : d[n] # NoFile => file'[d[n]] = file[d[n]]
  BY <1>1, <1>5 DEF DirOf, Entries
<1>8. FinalRecord' = FinalRecord /\ Published' = Published
  BY <1>1, <1>2, <1>3, <1>7 DEF FinalRecord, Published, RecordIn
<1>9. \A d \in root'.disk : d[Final] # i /\ \E e \in root.disk : d[Final] = e[Final]
  BY <1>1, <1>2, <1>3
<1>10. AckedIsDurable'
  BY <1>1, <1>7, <1>9 DEF IInv, DiskOK, AckedIsDurable, RecordIn
<1>11. PublishedIsWhole'
  BY <1>1, <1>7, <1>9 DEF IInv, DiskOK, PublishedIsWhole
<1>12. \A d \in root'.disk : \A n \in Names : d[n] # NoFile => file'[d[n]].rec \in Records
  BY <1>1, <1>2, <1>3, <1>5, <1>7 DEF IInv, DiskOK
<1>13. QED BY <1>2, <1>3, <1>5, <1>6, <1>8, <1>9, <1>10, <1>11, <1>12 DEF DiskOK

(* write() and fsync() of a temporary file only add to what is known of it. *)
LEMMA DiskWrite ==
  ASSUME IInv, NEW i \in Inodes, NEW c \in Contents,
         c.rec = file[i].rec, file[i].written => c.written, file[i].synced => c.synced,
         file' = [file EXCEPT ![i] = c], UNCHANGED <<root, acked>>
  PROVE  /\ DiskTyped' /\ DiskOK'
         /\ FinalRecord' = FinalRecord /\ Published' = Published
<1>1. root \in DirOf(Entries) /\ root.now \in root.disk /\ Final \in Names
  BY DEF IInv, TypeOK, DiskOK, Names
<1>2. /\ file' \in [Inodes -> Contents]
      /\ \A j \in Inodes : /\ file'[j].rec = file[j].rec
                           /\ file[j].written => file'[j].written
                           /\ file[j].synced => file'[j].synced
  BY DEF IInv, TypeOK
<1>3. \A d \in root.disk : \A n \in Names : d[n] # NoFile => d[n] \in Inodes
  BY <1>1 DEF DirOf, Entries
<1>4. DiskTyped'
  BY <1>2 DEF IInv, TypeOK, DiskTyped, AnyRecord
<1>5. FinalRecord' = FinalRecord /\ Published' = Published
  BY <1>1, <1>2, <1>3 DEF FinalRecord, Published, RecordIn
<1>6. AckedIsDurable'
  BY <1>1, <1>2, <1>3 DEF IInv, DiskOK, AckedIsDurable, RecordIn
<1>7. PublishedIsWhole'
  BY <1>1, <1>2, <1>3 DEF IInv, DiskOK, PublishedIsWhole
<1>8. \A d \in root'.disk : \A n \in Names : d[n] # NoFile => file'[d[n]].rec \in Records
  BY <1>1, <1>2, <1>3 DEF IInv, DiskOK
<1>9. QED BY <1>1, <1>4, <1>5, <1>6, <1>7, <1>8 DEF DiskOK

------------------------------------------------------------------------------
(* The calls of a session. *)

(* A session starts a call with the record it is about. *)
LEMMA CallPreserves ==
  ASSUME IInv, NEW p \in Procs, Call(p)
  PROVE  IInv'
<1>1. ASSUME NEW plan \in Plans, StartCreate(p, plan) PROVE IInv'
  <2> DEFINE c == [Session EXCEPT !.pc = "clean", !.op = "create", !.new = Planned(plan),
                                  !.expect = {Planned(plan)}]
  <2>1. c \in Sessions /\ c.pc = "clean" /\ c.op = "create" /\ c.new \in Records
    BY PlannedIsRecord DEF States, Session, Sessions, PCs, Calls, Names
  <2>2. lock' = lock /\ call[p].pc = "ready" /\ call' = [call EXCEPT ![p] = c]
    BY <1>1 DEF StartCreate
  <2> HIDE DEF c
  <2>3. Moves(p) /\ call'[p] = c
    BY <2>1, <2>2, MovesTo
  <2>4. CallOK(p)'
    BY <2>1, <2>3 DEF CallOK, Pending, Handled
  <2>5. QED BY <1>1, <2>3, <2>4, DiskSame, Frame DEF StartCreate
<1>2. ASSUME NEW plan \in Plans, NEW st \in States, StartTransition(p, plan, st) PROVE IInv'
  <2> DEFINE c == [Session EXCEPT !.pc = "load", !.op = "transition", !.new = Record(plan, <<>>),
                                  !.want = st]
  <2>1. c \in Sessions /\ c.pc = "load"
    BY DEF Asked, Record, Session, Sessions, PCs, Calls, Names
  <2>2. lock' = lock /\ call[p].pc = "ready" /\ call' = [call EXCEPT ![p] = c]
    BY <1>2 DEF StartTransition
  <2> HIDE DEF c
  <2>3. Moves(p) /\ call'[p] = c
    BY <2>1, <2>2, MovesTo
  <2>4. CallOK(p)'
    BY <2>1, <2>3 DEF CallOK, Handled
  <2>5. QED BY <1>2, <2>3, <2>4, DiskSame, Frame DEF StartTransition
<1>3. ASSUME StartLoad(p) PROVE IInv'
  <2> DEFINE c == [Session EXCEPT !.pc = "load", !.op = "load"]
  <2>1. c \in Sessions /\ c.pc = "load"
    BY DEF States, Session, Sessions, PCs, Calls, Names
  <2>2. lock' = lock /\ call[p].pc = "ready" /\ call' = [call EXCEPT ![p] = c]
    BY <1>3 DEF StartLoad
  <2> HIDE DEF c
  <2>3. Moves(p) /\ call'[p] = c
    BY <2>1, <2>2, MovesTo
  <2>4. CallOK(p)'
    BY <2>1, <2>3 DEF CallOK, Handled
  <2>5. QED BY <1>3, <2>3, <2>4, DiskSame, Frame DEF StartLoad
<1>4. ASSUME Published, StartCleanup(p, Successors(FinalRecord)) PROVE IInv'
  <2> DEFINE c == [Session EXCEPT !.pc = "clean", !.op = "cleanup",
                                  !.expect = Successors(FinalRecord)]
  <2>1. FinalRecord \in Records
    BY <1>4 DEF IInv, DiskOK, Published, FinalRecord, RecordIn, Names
  <2>2. Successors(FinalRecord) \subseteq Records
    BY <2>1, StateOfRecord, AfterExtends DEF Successors
  <2>3. c \in Sessions /\ c.pc = "clean" /\ c.op = "cleanup"
    BY <2>2 DEF States, Session, Sessions, PCs, Calls, Names
  <2>4. lock' = lock /\ call[p].pc = "ready" /\ call' = [call EXCEPT ![p] = c]
    BY <1>4 DEF StartCleanup
  <2> HIDE DEF c
  <2>5. Moves(p) /\ call'[p] = c
    BY <2>3, <2>4, MovesTo
  <2>6. CallOK(p)'
    BY <2>3, <2>5 DEF CallOK, Handled
  <2>7. QED BY <1>4, <2>5, <2>6, DiskSame, Frame DEF StartCleanup
<1>5. QED BY <1>1, <1>2, <1>3, <1>4 DEF Call

(* Loading, and repairing the link of an interrupted create(), publishes
   nothing new. *)
LEMMA LoadPreserves ==
  ASSUME IInv, NEW p \in Procs,
         \/ LoadRecover(p) \/ LoadRecoverSync(p) \/ LoadReturn(p) \/ LoadFail(p)
         \/ TransitionCheck(p) \/ TransitionReject(p)
  PROVE  IInv'
<1> USE DEF PCs
<1>1. CASE LoadRecover(p)
  <2>1. PICK t \in Temps : Unlink(t)
    BY <1>1 DEF LoadRecover, Residue
  <2>2. Moves(p) /\ call'[p].pc = "load_sync"
    BY <1>1, MovesGoto DEF LoadRecover
  <2>3. CallOK(p)'
    BY <2>2 DEF CallOK, Handled
  <2>4. QED BY <1>1, <2>1, <2>2, <2>3, DiskUnlink, Frame DEF LoadRecover
<1>2. CASE LoadRecoverSync(p)
  <2>1. Moves(p) /\ call'[p].pc = "load"
    BY <1>2, MovesGoto DEF LoadRecoverSync
  <2>2. CallOK(p)'
    BY <2>1 DEF CallOK, Handled
  <2>3. QED BY <1>2, <2>1, <2>2, DiskSync, Frame DEF LoadRecoverSync
<1>3. CASE LoadReturn(p)
  BY <1>3, MovesReturn, DiskSame, Frame DEF LoadReturn
<1>4. CASE LoadFail(p)
  BY <1>4, MovesReturn, DiskSame, Frame DEF LoadFail
<1>5. CASE TransitionReject(p)
  BY <1>5, MovesReturn, DiskSame, Frame DEF TransitionReject
<1>6. CASE TransitionCheck(p)
  <2> DEFINE updated == After(FinalRecord, call[p].want)
             c == [call[p] EXCEPT !.pc = "clean", !.new = updated, !.expect = {FinalRecord, updated}]
  <2>1. FinalRecord \in Records
    BY <1>6 DEF IInv, DiskOK, Published, FinalRecord, RecordIn, TransitionCheck, Names
  <2>2. call[p] \in Sessions
    BY DEF IInv, TypeOK
  <2>3. updated \in Records /\ Extends(updated, FinalRecord)
    BY <2>1, <2>2, AfterExtends DEF Sessions
  <2>4. c \in Sessions /\ c.pc = "clean" /\ c.op = "transition" /\ c.new = updated
    BY <1>6, <2>1, <2>2, <2>3 DEF Sessions, TransitionCheck
  <2>5. lock' = lock /\ call[p].pc = "load" /\ call' = [call EXCEPT ![p] = c]
    BY <1>6 DEF TransitionCheck
  <2> HIDE DEF c, updated
  <2>6. Moves(p) /\ call'[p] = c
    BY <2>4, <2>5, MovesTo
  <2>7. FinalRecord' = FinalRecord /\ Published' /\ DiskTyped' /\ DiskOK'
    BY <1>6, DiskSame DEF TransitionCheck, FinalRecord, Published, RecordIn
  <2>8. CallOK(p)'
    BY <2>3, <2>4, <2>6, <2>7 DEF CallOK, Pending, Handled
  <2>9. QED BY <2>6, <2>7, <2>8, Frame
<1>7. QED BY <1>1, <1>2, <1>3, <1>4, <1>5, <1>6

(* Clearing residue, and finding that create() comes too late. *)
LEMMA CleanPreserves ==
  ASSUME IInv, NEW p \in Procs,
         \/ CleanUnlink(p) \/ CleanSync(p) \/ CleanNothing(p) \/ CleanReject(p)
         \/ CreateConflict(p)
  PROVE  IInv'
<1> USE DEF PCs
<1>1. CASE CleanUnlink(p)
  <2>1. PICK t \in Temps : Unlink(t)
    BY <1>1 DEF CleanUnlink, Residue
  <2>2. /\ Moves(p) /\ call'[p].pc = "clean_sync"
        /\ call'[p].op = call[p].op /\ call'[p].new = call[p].new
    BY <1>1, MovesGoto DEF CleanUnlink
  <2>3. DiskTyped' /\ DiskOK' /\ FinalRecord' = FinalRecord /\ Published' = Published
    BY <1>1, <2>1, DiskUnlink DEF CleanUnlink
  <2>4. Pending(p) \/ call[p].op = "cleanup"
    BY <1>1 DEF IInv, CallOK, CleanUnlink
  <2>5. CallOK(p)'
    BY <2>2, <2>3, <2>4 DEF CallOK, Pending, Handled
  <2>6. QED BY <2>2, <2>3, <2>5, Frame
<1>2. ASSUME call[p].pc \in {"clean", "clean_sync"}, AfterClean(p), lock' = lock,
             DiskTyped', DiskOK', FinalRecord' = FinalRecord, Published' = Published
      PROVE  IInv'
  <2>1. CASE call[p].op = "cleanup"
    BY <1>2, <2>1, MovesReturn, Frame DEF AfterClean
  <2>2. CASE call[p].op # "cleanup"
    <3>1. Goto(p, "temp") /\ Pending(p)
      BY <1>2, <2>2 DEF AfterClean, IInv, CallOK
    <3>2. /\ Moves(p) /\ call'[p].pc = "temp"
          /\ call'[p].op = call[p].op /\ call'[p].new = call[p].new
      BY <1>2, <3>1, MovesGoto
    <3>3. CallOK(p)'
      BY <1>2, <3>1, <3>2 DEF CallOK, Pending, Handled
    <3>4. QED BY <1>2, <3>2, <3>3, Frame
  <2>3. QED BY <2>1, <2>2
<1>3. CASE CleanSync(p)
  BY <1>2, <1>3, DiskSync DEF CleanSync
<1>4. CASE CleanNothing(p)
  <2>1. FinalRecord' = FinalRecord /\ Published' = Published
    BY <1>4 DEF CleanNothing, FinalRecord, Published, RecordIn
  <2>2. QED BY <1>2, <1>4, <2>1, DiskSame DEF CleanNothing
<1>5. CASE CleanReject(p)
  BY <1>5, MovesReturn, DiskSame, Frame DEF CleanReject
<1>6. CASE CreateConflict(p)
  BY <1>6, MovesReturn, DiskSame, Frame DEF CreateConflict
<1>7. QED BY <1>1, <1>3, <1>4, <1>5, <1>6

(* The temporary file is written and synced before its record can be
   published. *)
LEMMA WritePreserves ==
  ASSUME IInv, NEW p \in Procs, NewTemp(p) \/ WriteTemp(p) \/ FsyncTemp(p)
  PROVE  IInv'
<1> USE DEF PCs
<1>1. CASE NewTemp(p)
  <2>1. PICK t \in Temps, i \in Inodes :
          /\ root.now[t] = NoFile
          /\ \A d \in root.disk : \A n \in Names : d[n] # i
          /\ root' = Put(root, [root.now EXCEPT ![t] = i])
          /\ file' = [file EXCEPT ![i] =
                        [rec |-> call[p].new, written |-> FALSE, synced |-> FALSE]]
          /\ call' = [call EXCEPT ![p].pc = "write", ![p].temp = t]
    BY <1>1 DEF NewTemp
  <2> DEFINE f == [rec |-> call[p].new, written |-> FALSE, synced |-> FALSE]
             c == [call[p] EXCEPT !.pc = "write", !.temp = t]
  <2>2. call[p] \in Sessions /\ Pending(p)
    BY <1>1 DEF IInv, TypeOK, CallOK, NewTemp
  <2>3. f \in Contents /\ f.rec = call[p].new /\ f.rec \in Records
    BY <2>2 DEF Contents, Pending
  <2>4. c \in Sessions /\ c.pc = "write" /\ c.temp = t /\ c.op = call[p].op /\ c.new = call[p].new
    BY <2>2 DEF Sessions, Names
  <2>5. file' = [file EXCEPT ![i] = f] /\ acked' = acked
    BY <1>1, <2>1 DEF NewTemp
  <2>6. lock' = lock /\ call[p].pc = "temp" /\ call' = [call EXCEPT ![p] = c]
        /\ (call[p].op = "create" => ~Published)
    BY <1>1, <2>1 DEF NewTemp
  <2> HIDE DEF f, c
  <2>7. Moves(p) /\ call'[p] = c
    BY <2>4, <2>6, MovesTo
  <2>8. /\ DiskTyped' /\ DiskOK'
        /\ root'.now[t] = i /\ file'[i] = f
        /\ \A d \in root'.disk : d[Final] # i
        /\ FinalRecord' = FinalRecord /\ Published' = Published
    BY <2>1, <2>3, <2>5, DiskNewFile
  <2>9. Pending(p)'
    BY <2>2, <2>4, <2>7, <2>8 DEF Pending
  <2>10. Writing(p)'
    BY <2>3, <2>4, <2>6, <2>7, <2>8, <2>9, StoreAssumption DEF Writing, TempInode
  <2>11. CallOK(p)'
    BY <2>4, <2>7, <2>10 DEF CallOK, Handled
  <2>12. QED BY <2>7, <2>8, <2>11, Frame
<1>2. ASSUME NEW pc \in {"fsync", "publish"}, Goto(p, pc), lock' = lock, UNCHANGED <<root, acked>>,
             call[p].pc \in {"write", "fsync"},
             NEW c \in Contents, c.rec = file[TempInode(p)].rec, c.written,
             file[TempInode(p)].synced => c.synced, pc = "publish" => c.synced,
             file' = [file EXCEPT ![TempInode(p)] = c]
      PROVE  IInv'
  <2>1. Writing(p) /\ call[p].temp \in Temps
    BY <1>2 DEF IInv, CallOK, Handled
  <2>2. TempInode(p) \in Inodes
    BY <2>1 DEF IInv, TypeOK, DirOf, Entries, TempInode, Writing, Names
  <2>3. /\ Moves(p) /\ call'[p].pc = pc
        /\ call'[p].op = call[p].op /\ call'[p].new = call[p].new /\ call'[p].temp = call[p].temp
    BY <1>2, MovesGoto
  <2>4. DiskTyped' /\ DiskOK' /\ FinalRecord' = FinalRecord /\ Published' = Published
    BY <1>2, <2>2, DiskWrite
  <2>5. TempInode(p)' = TempInode(p) /\ file'[TempInode(p)] = c
    BY <1>2, <2>2, <2>3 DEF TempInode, IInv, TypeOK
  <2>6. Writing(p)'
    BY <1>2, <2>1, <2>3, <2>4, <2>5 DEF Writing, Pending
  <2>7. CallOK(p)'
    BY <1>2, <2>1, <2>3, <2>5, <2>6 DEF CallOK, Handled
  <2>8. QED BY <2>3, <2>4, <2>7, Frame
<1>3. ASSUME call[p].pc \in {"write", "fsync"}
      PROVE  TempInode(p) \in Inodes /\ file[TempInode(p)] \in Contents
  <2>1. Writing(p) /\ call[p].temp \in Temps
    BY <1>3 DEF IInv, CallOK, Handled
  <2>2. QED BY <2>1 DEF IInv, TypeOK, DirOf, Entries, TempInode, Writing, Names
<1>4. CASE WriteTemp(p)
  <2> DEFINE c == [file[TempInode(p)] EXCEPT !.written = TRUE]
  <2>1. file[TempInode(p)] \in Contents /\ call[p].pc = "write"
    BY <1>3, <1>4 DEF WriteTemp
  <2>2. /\ c \in Contents /\ c.rec = file[TempInode(p)].rec /\ c.written
        /\ file[TempInode(p)].synced => c.synced
    BY <2>1 DEF Contents
  <2>3. /\ file' = [file EXCEPT ![TempInode(p)] = c]
        /\ Goto(p, "fsync") /\ lock' = lock /\ UNCHANGED <<root, acked>>
    BY <1>4 DEF WriteTemp
  <2> HIDE DEF c
  <2>4. QED BY <1>2, <2>1, <2>2, <2>3
<1>5. CASE FsyncTemp(p)
  <2> DEFINE c == [file[TempInode(p)] EXCEPT !.synced = TRUE]
  <2>1. /\ file[TempInode(p)] \in Contents /\ call[p].pc = "fsync"
        /\ file[TempInode(p)].written
    BY <1>3, <1>5 DEF FsyncTemp, IInv, CallOK
  <2>2. /\ c \in Contents /\ c.rec = file[TempInode(p)].rec /\ c.written /\ c.synced
    BY <2>1 DEF Contents
  <2>3. /\ file' = [file EXCEPT ![TempInode(p)] = c]
        /\ Goto(p, "publish") /\ lock' = lock /\ UNCHANGED <<root, acked>>
    BY <1>5 DEF FsyncTemp
  <2> HIDE DEF c
  <2>4. QED BY <1>2, <2>1, <2>2, <2>3
<1>6. QED BY <1>1, <1>4, <1>5

(* The record is published whole, then made durable, then returned. *)
LEMMA PublishPreserves ==
  ASSUME IInv, NEW p \in Procs,
         \/ LinkFinal(p) \/ LinkSync(p) \/ UnlinkTemp(p) \/ UnlinkSync(p)
         \/ ReplaceFinal(p) \/ ReplaceSync(p) \/ Acknowledge(p)
  PROVE  IInv'
<1> USE DEF PCs
<1>1. /\ root \in DirOf(Entries) /\ file \in [Inodes -> Contents] /\ acked \in AnyRecord
      /\ root.now \in root.disk /\ root.now \in Entries /\ Final \in Names
      /\ FinalRecord \in AnyRecord /\ Extends(FinalRecord, acked)
  <2>1. root \in DirOf(Entries) /\ file \in [Inodes -> Contents] /\ acked \in AnyRecord
        /\ root.now \in root.disk /\ root.now \in Entries /\ Final \in Names
    BY DEF IInv, TypeOK, DiskOK, DirOf, Names, AnyRecord
  <2>2. FinalRecord \in AnyRecord
    BY <2>1 DEF FinalRecord, RecordIn, IInv, DiskOK, AnyRecord
  <2>3. Extends(FinalRecord, acked)
    BY <2>1 DEF FinalRecord, IInv, DiskOK, AckedIsDurable
  <2>4. QED BY <2>1, <2>2, <2>3
<1>2. ASSUME call[p].pc = "publish"
      PROVE  /\ call[p].temp \in Temps /\ TempInode(p) \in Inodes
             /\ file[TempInode(p)].rec \in Records
             /\ file[TempInode(p)].written /\ file[TempInode(p)].synced
             /\ Extends(file[TempInode(p)].rec, acked)
  <2>1. /\ Writing(p) /\ call[p].temp \in Temps
        /\ file[TempInode(p)].written /\ file[TempInode(p)].synced
    BY <1>2 DEF IInv, CallOK, Handled
  <2>2. TempInode(p) \in Inodes
    BY <1>1, <2>1 DEF Entries, TempInode, Writing, Names
  <2>3. /\ file[TempInode(p)].rec = call[p].new /\ call[p].new \in Records
        /\ call[p].op \in {"create", "transition"}
        /\ call[p].op = "create" => ~Published
        /\ call[p].op = "transition" => Extends(call[p].new, FinalRecord)
    BY <2>1 DEF Writing, Pending
  <2>4. CASE call[p].op = "create"
    <3>1. FinalRecord = NoRecord
      BY <2>3, <2>4 DEF Published, FinalRecord, RecordIn
    <3>2. acked = NoRecord
      BY <1>1, <3>1, NothingExtends
    <3>3. QED BY <2>1, <2>2, <2>3, <3>2 DEF Extends
  <2>5. CASE call[p].op = "transition"
    <3>1. call[p].new \in AnyRecord
      BY <2>3 DEF AnyRecord
    <3>2. Extends(call[p].new, acked)
      BY <1>1, <2>3, <2>5, <3>1, ExtendsTrans
    <3>3. QED BY <2>1, <2>2, <2>3, <3>2
  <2>6. QED BY <2>3, <2>4, <2>5
<1>3. CASE LinkFinal(p)
  <2> DEFINE v == [root.now EXCEPT ![Final] = TempInode(p)]
  <2>1. call[p].pc = "publish" /\ Goto(p, "link_sync") /\ lock' = lock
        /\ root' = Put(root, v) /\ UNCHANGED <<file, acked>>
    BY <1>3 DEF LinkFinal
  <2>2. v \in Entries /\ v[Final] = TempInode(p) /\ \A n \in Temps : v[n] = root.now[n]
    BY <1>1, <1>2, <2>1, StoreAssumption DEF Entries, Names
  <2> HIDE DEF v
  <2>3. DiskTyped' /\ DiskOK'
    BY <1>2, <2>1, <2>2, DiskPublish
  <2>4. Moves(p) /\ call'[p].pc = "link_sync" /\ call'[p].temp = call[p].temp
    BY <2>1, MovesGoto
  <2>5. CallOK(p)'
    BY <1>2, <2>1, <2>4 DEF CallOK, Handled
  <2>6. QED BY <2>3, <2>4, <2>5, Frame
<1>4. CASE ReplaceFinal(p)
  <2> DEFINE v == [root.now EXCEPT ![Final] = TempInode(p), ![call[p].temp] = NoFile]
  <2>1. call[p].pc = "publish" /\ Goto(p, "replace_sync") /\ lock' = lock
        /\ root' = Put(root, v) /\ UNCHANGED <<file, acked>>
    BY <1>4 DEF ReplaceFinal
  <2>2. /\ v \in Entries /\ v[Final] = TempInode(p)
        /\ \A n \in Temps : v[n] \in {NoFile, root.now[n]}
    BY <1>1, <1>2, <2>1, StoreAssumption DEF Entries, Names
  <2> HIDE DEF v
  <2>3. DiskTyped' /\ DiskOK'
    BY <1>2, <2>1, <2>2, DiskPublish
  <2>4. Moves(p) /\ call'[p].pc = "replace_sync"
    BY <2>1, MovesGoto
  <2>5. CallOK(p)'
    BY <2>4 DEF CallOK, Handled
  <2>6. QED BY <2>3, <2>4, <2>5, Frame
<1>5. CASE LinkSync(p)
  <2>1. Moves(p) /\ call'[p].pc = "unlink" /\ call'[p].temp = call[p].temp
    BY <1>5, MovesGoto DEF LinkSync
  <2>2. CallOK(p)'
    BY <1>5, <2>1 DEF LinkSync, IInv, CallOK, Handled
  <2>3. QED BY <1>5, <2>1, <2>2, DiskSync, Frame DEF LinkSync
<1>6. CASE UnlinkTemp(p)
  <2>1. Moves(p) /\ call'[p].pc = "unlink_sync"
    BY <1>6, MovesGoto DEF UnlinkTemp
  <2>2. CallOK(p)' /\ call[p].temp \in Temps
    BY <1>6, <2>1 DEF UnlinkTemp, IInv, CallOK, Handled
  <2>3. QED BY <1>6, <2>1, <2>2, DiskUnlink, Frame DEF UnlinkTemp
<1>7. ASSUME SyncRoot, Goto(p, "return"), UNCHANGED <<lock, acked>>,
             call[p].pc \in {"unlink_sync", "replace_sync"}
      PROVE  IInv'
  <2>1. Moves(p) /\ call'[p].pc = "return"
    BY <1>7, MovesGoto
  <2>2. DiskTyped' /\ DiskOK' /\ root'.disk = {root'.now}
    BY <1>7, DiskSync
  <2>3. CallOK(p)'
    BY <2>1, <2>2 DEF CallOK, Handled
  <2>4. QED BY <2>1, <2>2, <2>3, Frame
<1>8. CASE UnlinkSync(p)
  BY <1>7, <1>8 DEF UnlinkSync
<1>9. CASE ReplaceSync(p)
  BY <1>7, <1>9 DEF ReplaceSync
<1>10. CASE Acknowledge(p)
  <2>1. /\ call[p].pc = "return" /\ Return(p) /\ acked' = FinalRecord
        /\ UNCHANGED <<root, file, lock>>
    BY <1>10 DEF Acknowledge
  <2>2. root.disk = {root.now}
    BY <2>1 DEF IInv, CallOK
  <2>3. Extends(FinalRecord, FinalRecord)
    BY <1>1, ExtendsRefl
  <2>4. AckedIsDurable'
    BY <2>1, <2>2, <2>3 DEF AckedIsDurable, FinalRecord, RecordIn
  <2>5. DiskOK'
    BY <2>1, <2>4 DEF IInv, DiskOK, PublishedIsWhole
  <2>6. DiskTyped'
    BY <1>1, <2>1 DEF DiskTyped
  <2>7. QED BY <2>1, <2>5, <2>6, MovesReturn, Frame
<1>11. QED BY <1>3, <1>4, <1>5, <1>6, <1>8, <1>9, <1>10

(* A failed system call, and the handler's attempt to remove the temporary
   file, cost nothing that was published. *)
LEMMA FaultPreserves ==
  ASSUME IInv, NEW p \in Procs, Fault(p)
  PROVE  IInv'
<1>1. Moves(p) /\ CallOK(p)'
  BY MovesReturn DEF Fault, InCall
<1>2. CASE call[p].pc \in Handled /\ Unlink(call[p].temp)
  <2>1. call[p].temp \in Temps
    BY <1>2 DEF IInv, CallOK
  <2>2. QED BY <1>1, <1>2, <2>1, DiskUnlink, Frame DEF Fault
<1>3. CASE UNCHANGED root
  BY <1>1, <1>3, DiskSame, Frame DEF Fault
<1>4. QED BY <1>2, <1>3 DEF Fault

------------------------------------------------------------------------------
(* Sessions come and go, processes die, power fails. *)

(* Taking and giving back the flock. *)
LEMMA LockPreserves ==
  ASSUME IInv, NEW p \in Procs, Acquire(p) \/ AcquireShared(p) \/ Release(p) \/ Kill(p)
  PROVE  IInv'
<1> USE DEF PCs
<1>1. /\ Session \in Sessions /\ Session.pc = "ready"
      /\ Outside \in Sessions /\ Outside.pc = "idle"
  BY DEF Session, Outside, Sessions, Calls, States, Names
<1>2. /\ lock \in [ex : Procs \cup {Nobody}, sh : SUBSET Procs]
      /\ call \in [Procs -> Sessions] /\ OneWriter
  BY DEF IInv, TypeOK
<1>3. UNCHANGED <<root, file, acked>>
  BY DEF Acquire, AcquireShared, Release, Kill
<1>4. /\ lock' \in [ex : Procs \cup {Nobody}, sh : SUBSET Procs]
      /\ call' \in [Procs -> Sessions] /\ OneWriter'
      /\ call'[p].pc \in {"idle", "reading", "ready"}
      /\ \A q \in Procs \ {p} : call'[q] = call[q]
  <2>1. CASE Acquire(p)
    <3>1. lock' = [ex |-> p, sh |-> {}] /\ call' = [call EXCEPT ![p] = Session]
          /\ lock.ex = Nobody /\ lock.sh = {}
      BY <1>2, <2>1 DEF Acquire
    <3> QED BY <1>1, <1>2, <3>1, StoreAssumption DEF OneWriter
  <2>2. CASE AcquireShared(p)
    <3> DEFINE c == [call[p] EXCEPT !.pc = "reading"]
    <3>1. c \in Sessions /\ c.pc = "reading"
      BY <1>2 DEF Sessions
    <3>2. lock' = [ex |-> Nobody, sh |-> lock.sh \cup {p}] /\ lock.ex = Nobody
          /\ call' = [call EXCEPT ![p] = c] /\ call[p].pc = "idle"
      BY <1>2, <2>2 DEF AcquireShared, Goto
    <3> HIDE DEF c
    <3>3. QED BY <1>2, <3>1, <3>2, StoreAssumption DEF OneWriter
  <2>3. CASE Release(p) \/ Kill(p)
    <3>1. lock' = LockWithout(p) /\ call' = [call EXCEPT ![p] = Outside]
      BY <2>3 DEF Release, Kill
    <3>2. lock'.ex = (IF lock.ex = p THEN Nobody ELSE lock.ex) /\ lock'.sh = lock.sh \ {p}
          /\ lock' \in [ex : Procs \cup {Nobody}, sh : SUBSET Procs]
      BY <1>2, <3>1 DEF LockWithout
    <3>3. QED BY <1>1, <1>2, <3>1, <3>2, StoreAssumption DEF OneWriter
  <2>4. QED BY <2>1, <2>2, <2>3
<1>5. DiskTyped' /\ DiskOK'
  BY <1>3, DiskSame
<1>6. TypeOK'
  BY <1>4, <1>5 DEF TypeOK, DiskTyped, AnyRecord
<1>7. ASSUME NEW q \in Procs PROVE CallOK(q)'
  <2>1. CASE q = p
    BY <1>4, <2>1 DEF CallOK, Handled
  <2>2. CASE q # p
    <3>1. CallOK(q) /\ call'[q] = call[q]
      BY <1>4, <2>2 DEF IInv
    <3>2. QED BY <1>3, <3>1
         DEF CallOK, Handled, Pending, Writing, TempInode, Published, FinalRecord, RecordIn
  <2>3. QED BY <2>1, <2>2
<1>8. QED BY <1>4, <1>5, <1>6, <1>7 DEF IInv

(* After a power failure the directory is one of the states the disk could be
   in, and what was published in it is whole. *)
LEMMA PowerLossPreserves ==
  ASSUME IInv, PowerLoss
  PROVE  IInv'
<1>1. /\ root \in DirOf(Entries) /\ file \in [Inodes -> Contents] /\ Final \in Names
  BY DEF IInv, TypeOK, Names
<1>2. PICK v \in root.disk : root' = Fresh(v)
  BY DEF PowerLoss, AfterLoss
<1>3. root'.now = v /\ root'.disk = {v} /\ v \in Entries
  BY <1>1, <1>2 DEF Fresh, DirOf
<1>4. root' \in DirOf(Entries)
  BY <1>2, <1>3 DEF Fresh, DirOf
<1>5. PICK torn \in SUBSET {i \in Inodes : ~file[i].synced} :
        file' = Reclaimed(root', [i \in Inodes |-> [file[i] EXCEPT !.written = @ /\ i \notin torn]])
  BY DEF PowerLoss
<1> DEFINE g == [i \in Inodes |-> [file[i] EXCEPT !.written = @ /\ i \notin torn]]
<1>6. ASSUME NEW i \in Inodes
      PROVE  /\ g[i] \in Contents /\ g[i].rec = file[i].rec /\ g[i].synced = file[i].synced
             /\ file[i].synced => g[i].written = file[i].written
  BY <1>1 DEF Contents
<1>7. file' = Reclaimed(root', g)
  BY <1>5
<1> HIDE DEF g
<1>8. file' = [i \in Inodes |-> IF \E n \in Names : v[n] = i THEN g[i] ELSE Blank]
  BY <1>3, <1>7 DEF Reclaimed
<1>9. Blank \in Contents
  BY DEF Blank, Contents
<1>10. file' \in [Inodes -> Contents]
  BY <1>6, <1>8, <1>9
<1>11. \A n \in Names : v[n] # NoFile => v[n] \in Inodes /\ file'[v[n]] = g[v[n]]
  BY <1>3, <1>8 DEF Entries
<1>12. \A n \in Names : v[n] # NoFile => file'[v[n]].rec = file[v[n]].rec /\ file'[v[n]].rec \in Records
  BY <1>2, <1>6, <1>11 DEF IInv, DiskOK
<1>13. acked' = RecordIn(v)'
  BY <1>3 DEF PowerLoss, FinalRecord, RecordIn
<1>14. RecordIn(v)' \in AnyRecord
  BY <1>1, <1>12 DEF RecordIn, AnyRecord
<1>15. Extends(RecordIn(v)', RecordIn(v)')
  BY <1>14, ExtendsRefl
<1>16. AckedIsDurable'
  BY <1>3, <1>13, <1>15 DEF AckedIsDurable, RecordIn
<1>17. v[Final] # NoFile => file[v[Final]].written /\ file[v[Final]].synced
  BY <1>2 DEF IInv, DiskOK, PublishedIsWhole
<1>18. PublishedIsWhole'
  BY <1>1, <1>3, <1>6, <1>11, <1>17 DEF PublishedIsWhole
<1>19. DiskOK'
  BY <1>3, <1>12, <1>16, <1>18 DEF DiskOK
<1>20. /\ lock' = [ex |-> Nobody, sh |-> {}]
       /\ call' = [q \in Procs |-> Outside]
  BY DEF PowerLoss
<1>21. Outside \in Sessions /\ Outside.pc = "idle"
  BY DEF Session, Outside, Sessions, PCs, Calls, States, Names
<1>22. TypeOK'
  BY <1>4, <1>10, <1>13, <1>14, <1>20, <1>21 DEF TypeOK, AnyRecord
<1>23. OneWriter'
  BY <1>20, <1>21, StoreAssumption DEF OneWriter
<1>24. \A q \in Procs : CallOK(q)'
  BY <1>20, <1>21 DEF CallOK, Handled
<1>25. QED BY <1>19, <1>22, <1>23, <1>24 DEF IInv

------------------------------------------------------------------------------
(* IInv holds of the empty directory. *)
LEMMA InitIsIInv == Init => IInv
<1> SUFFICES ASSUME Init PROVE IInv
  OBVIOUS
<1>1. Outside \in Sessions /\ Outside.pc = "idle"
  BY DEF Session, Outside, Sessions, PCs, Calls, States, Names
<1>2. Empty \in Entries /\ \A n \in Names : Empty[n] = NoFile
  BY DEF Empty, Entries
<1>3. Final \in Names /\ root.now = Empty /\ root.disk = {Empty} /\ root \in DirOf(Entries)
  BY <1>2 DEF Init, Fresh, DirOf, Names
<1>4. Blank \in Contents
  BY DEF Blank, Contents
<1>5. TypeOK
  BY <1>1, <1>3, <1>4 DEF Init, TypeOK
<1>6. OneWriter
  BY <1>1, StoreAssumption DEF Init, OneWriter
<1>7. AckedIsDurable
  BY <1>2, <1>3 DEF Init, AckedIsDurable, RecordIn, Extends
<1>8. DiskOK
  BY <1>2, <1>3, <1>7 DEF DiskOK, PublishedIsWhole
<1>9. \A p \in Procs : CallOK(p)
  BY <1>1 DEF Init, CallOK, Handled
<1>10. QED BY <1>5, <1>6, <1>8, <1>9 DEF IInv

(* Every step of every process, and every failure, keeps IInv. *)
LEMMA NextIsIInv == IInv /\ [Next]_vars => IInv'
<1> SUFFICES ASSUME IInv, [Next]_vars PROVE IInv'
  OBVIOUS
<1>1. ASSUME NEW p \in Procs, Step(p) PROVE IInv'
  BY <1>1, LoadPreserves, CleanPreserves, WritePreserves, PublishPreserves DEF Step
<1>2. ASSUME NEW p \in Procs, Call(p) PROVE IInv'
  BY <1>2, CallPreserves
<1>3. ASSUME NEW p \in Procs, Fault(p) PROVE IInv'
  BY <1>3, FaultPreserves
<1>4. ASSUME NEW p \in Procs, Acquire(p) \/ AcquireShared(p) \/ Release(p) \/ Kill(p) PROVE IInv'
  BY <1>4, LockPreserves
<1>5. CASE PowerLoss
  BY <1>5, PowerLossPreserves
<1>6. CASE UNCHANGED vars
  <2>1. UNCHANGED <<root, file, lock, call, acked>>
    BY <1>6 DEF vars
  <2>2. TypeOK' /\ OneWriter' /\ DiskOK'
    BY <2>1 DEF IInv, TypeOK, OneWriter, DiskOK, PublishedIsWhole, AckedIsDurable, RecordIn
  <2>3. ASSUME NEW p \in Procs PROVE CallOK(p)'
    <3>1. CallOK(p)
      BY DEF IInv
    <3>2. QED BY <2>1, <3>1
         DEF CallOK, Pending, Writing, TempInode, Published, FinalRecord, RecordIn
  <2>4. QED BY <2>2, <2>3 DEF IInv
<1>7. QED BY <1>1, <1>2, <1>3, <1>4, <1>5, <1>6 DEF Next

(* The locks, the calls in progress and the two views of the directory (what a
   process sees, what a crash would leave) agree at every system call of
   journal.py, however many processes, records, temporary names and inodes. *)
THEOREM Invariance == Spec => []IInv
  BY InitIsIInv, NextIsIInv, PTL DEF Spec

(* Every value the store keeps has the shape journal.py's decoder accepts. *)
THEOREM TypeCorrect == Spec => []TypeOK
<1>1. IInv => TypeOK
  BY DEF IInv
<1>2. QED BY <1>1, Invariance, PTL

(* At most one session can write, and none reads meanwhile: JournalStore.locked
   under any interleaving and any kill. *)
THEOREM SingleWriter == Spec => []OneWriter
<1>1. IInv => OneWriter
  BY DEF IInv
<1>2. QED BY <1>1, Invariance, PTL

(* No crash takes back a transition that create() or transition() returned. *)
THEOREM Durability == Spec => []AckedIsDurable
<1>1. IInv => AckedIsDurable
  BY DEF IInv, DiskOK
<1>2. QED BY <1>1, Invariance, PTL

(* The record at the published name is whole, now and after any crash. *)
THEOREM Wholeness == Spec => []PublishedIsWhole
<1>1. IInv => PublishedIsWhole
  BY DEF IInv, DiskOK
<1>2. QED BY <1>1, Invariance, PTL

------------------------------------------------------------------------------
(* The promise of module Journal: what must be known besides IInv. *)

(* What a power failure may leave never goes beyond what can be read now. *)
NowIsLatest == \A entries \in root.disk : Extends(FinalRecord, RecordIn(entries))

(* The record a writer holds is the plan's first, or an allowed successor of the
   published one. *)
NextRecord(p) ==
  /\ call[p].op = "create" => call[p].new = Planned(call[p].new.plan)
  /\ call[p].op = "transition" =>
       \E st \in Allowed[StateOf(FinalRecord)] : call[p].new = After(FinalRecord, st)

(* A writer that passed the cleanup found no residue, and leaves none that is torn
   but its own. *)
Tidy(p) ==
  /\ call[p].pc \in {"clean", "clean_sync", "temp", "write", "fsync", "publish"} => NextRecord(p)
  /\ call[p].pc \in {"clean_sync", "temp"} => Residue = {}
  /\ call[p].pc \in Handled => ~Torn

PInv == IInv /\ ResidueIsCanonical /\ NowIsLatest /\ \A p \in Procs : Tidy(p)

(* ResidueIsCanonical of one state of the directory. *)
CanonicalIn(entries) ==
  \A t \in Temps :
    entries[t] # NoFile =>
      /\ \A u \in Temps \ {t} : entries[u] = NoFile
      /\ LET residue == file[entries[t]].rec
             record == RecordIn(entries)
         IN IF record = NoRecord \/ entries[t] = entries[Final]
            THEN /\ residue = Planned(residue.plan)
                 /\ record \in {NoRecord, residue}
            ELSE \E st \in Allowed[StateOf(record)] : residue = After(record, st)

(* The directory as any failure may leave it: canonical residue, and no record
   ahead of the one that can be read. *)
DiskPromise == ResidueIsCanonical /\ NowIsLatest

(* Names lead to files, and what they lead to are records. *)
LEMMA Shape ==
  ASSUME IInv
  PROVE  /\ root.now \in root.disk /\ Final \in Names /\ Temps \subseteq Names
         /\ \A entries \in root.disk, n \in Names :
              entries[n] # NoFile => entries[n] \in Inodes /\ file[entries[n]].rec \in Records
         /\ \A entries \in root.disk : RecordIn(entries) \in AnyRecord
         /\ FinalRecord \in AnyRecord
         /\ Published <=> FinalRecord # NoRecord
<1>1. /\ root.now \in root.disk /\ Final \in Names /\ Temps \subseteq Names
      /\ \A entries \in root.disk, n \in Names :
           entries[n] # NoFile => entries[n] \in Inodes /\ file[entries[n]].rec \in Records
  BY DEF IInv, TypeOK, DiskOK, DirOf, Entries, Names
<1>2. \A r \in Records : r # NoRecord
  BY NoPlanIsNoPlan DEF Records, NoRecord, Record
<1>3. QED BY <1>1, <1>2 DEF RecordIn, AnyRecord, FinalRecord, Published

(* A step after which every entry of the disk is an old one, or the present one
   with a temporary name less, and no file is another record, says nothing new. *)
LEMMA FewerEntries ==
  ASSUME IInv, DiskPromise,
         root'.now[Final] = root.now[Final],
         \A e \in root'.disk :
           \E d \in root.disk : e[Final] = d[Final] /\ \A t \in Temps : e[t] \in {NoFile, d[t]},
         \A d \in root.disk, n \in Names :
           d[n] # NoFile /\ (\E e \in root'.disk, m \in Names : e[m] = d[n])
             => file'[d[n]].rec = file[d[n]].rec,
         root'.now \in root'.disk
  PROVE  DiskPromise' /\ FinalRecord' = FinalRecord
<1>1. ASSUME NEW e \in root'.disk, NEW d \in root.disk, e[Final] = d[Final],
             \A t \in Temps : e[t] \in {NoFile, d[t]}
      PROVE  /\ RecordIn(e)' = RecordIn(d)
             /\ \A t \in Temps : e[t] # NoFile => file'[e[t]].rec = file[d[t]].rec /\ e[t] = d[t]
  BY <1>1, Shape DEF RecordIn
<1>2. FinalRecord' = FinalRecord
  BY Shape DEF FinalRecord, RecordIn
<1>3. NowIsLatest'
  BY <1>1, <1>2 DEF NowIsLatest, DiskPromise
<1>4. ASSUME NEW e \in root'.disk PROVE CanonicalIn(e)'
  <2>1. PICK d \in root.disk : e[Final] = d[Final] /\ \A t \in Temps : e[t] \in {NoFile, d[t]}
    OBVIOUS
  <2>2. CanonicalIn(d)
    BY DEF DiskPromise, ResidueIsCanonical, CanonicalIn
  <2>3. QED BY <1>1, <2>1, <2>2 DEF CanonicalIn
<1>5. ResidueIsCanonical'
  BY <1>4 DEF ResidueIsCanonical, CanonicalIn
<1>6. QED BY <1>2, <1>3, <1>5 DEF DiskPromise

(* The temporary names whose bytes do not decode. *)
Unwritten == {t \in Residue : ~file[root.now[t]].written}

(* What a step of the directory shows to the readers of the published name. *)
Silent(gone) ==
  /\ DiskPromise'
  /\ FinalRecord' = FinalRecord
  /\ Residue' = Residue \ gone
  /\ Unwritten' = Unwritten \ gone

(* Nothing happens to the directory. *)
LEMMA SilentSame ==
  ASSUME IInv, DiskPromise, UNCHANGED <<root, file>>
  PROVE  Silent({})
  BY DEF Silent, DiskPromise, ResidueIsCanonical, NowIsLatest, FinalRecord, RecordIn,
         Residue, Unwritten

(* A temporary name is removed. *)
LEMMA SilentUnlink ==
  ASSUME IInv, DiskPromise, NEW t \in Temps, Unlink(t), file' = file
  PROVE  Silent({t})
<1> DEFINE v == [root.now EXCEPT ![t] = NoFile]
<1>1. root.now \in Entries /\ t \in Names /\ t # Final
  BY StoreAssumption DEF IInv, TypeOK, DirOf, Names
<1>2. v[t] = NoFile /\ \A n \in Names \ {t} : v[n] = root.now[n]
  BY <1>1 DEF Entries
<1>3. root'.now = v /\ root'.disk = root.disk \cup {v}
  BY DEF Unlink, Put
<1> HIDE DEF v
<1>4. /\ v[Final] = root.now[Final]
      /\ \A n \in Temps : v[n] \in {NoFile, root.now[n]}
  BY <1>1, <1>2 DEF Names
<1>5. \A e \in root'.disk :
        \E d \in root.disk : e[Final] = d[Final] /\ \A n \in Temps : e[n] \in {NoFile, d[n]}
  BY <1>3, <1>4, Shape
<1>6. DiskPromise' /\ FinalRecord' = FinalRecord
  BY <1>3, <1>4, <1>5, FewerEntries
<1>7. Residue' = Residue \ {t} /\ Unwritten' = Unwritten \ {t}
  BY <1>1, <1>2, <1>3 DEF Residue, Unwritten, Names
<1>8. QED BY <1>6, <1>7 DEF Silent

(* The directory is synced. *)
LEMMA SilentSync ==
  ASSUME IInv, DiskPromise, SyncRoot
  PROVE  Silent({})
<1>1. root'.now = root.now /\ root'.disk = {root.now}
  BY DEF SyncRoot, Sync, Fresh
<1>2. \A n \in Names : root.now[n] # NoFile => file'[root.now[n]] = file[root.now[n]]
  BY <1>1, Shape DEF SyncRoot, Reclaimed
<1>3. DiskPromise' /\ FinalRecord' = FinalRecord
  <2>1. \A d \in root.disk, n \in Names :
          d[n] # NoFile /\ (\E e \in root'.disk, m \in Names : e[m] = d[n])
             => file'[d[n]].rec = file[d[n]].rec
    BY <1>1, <1>2
  <2>2. QED BY <1>1, <2>1, Shape, FewerEntries
<1>4. Residue' = Residue /\ Unwritten' = Unwritten
  BY <1>1, <1>2, Shape DEF Residue, Unwritten
<1>5. QED BY <1>3, <1>4 DEF Silent

(* Bytes are added to a file, or made durable. *)
LEMMA DiskPromiseWrite ==
  ASSUME IInv, DiskPromise, root' = root, NEW i \in Inodes, NEW c,
         c.rec = file[i].rec, file' = [file EXCEPT ![i] = c]
  PROVE  DiskPromise' /\ FinalRecord' = FinalRecord
<1>1. \A j \in Inodes : file'[j].rec = file[j].rec
  BY DEF IInv, TypeOK
<1>2. QED BY <1>1, Shape, FewerEntries

------------------------------------------------------------------------------
(* Steps. *)

(* A step of p inside its session leaves every other session idle or reading. *)
LEMMA OthersTidy ==
  ASSUME IInv', NEW p \in Procs, call'[p].pc \notin {"idle", "reading"}, Tidy(p)'
  PROVE  \A q \in Procs : Tidy(q)'
<1>1. \A q \in Procs \ {p} : call'[q].pc \in {"idle", "reading"}
  BY DEF IInv, OneWriter
<1>2. QED BY <1>1 DEF Tidy, Handled

(* What a step may show: that of the promise, or nothing. *)
Shows == [Promise!Next]_(Promise!journalVars)

(* A writer that stops where it wrote leaves a torn file at most; any other step
   that shows no record and adds no unwritten file shows nothing. *)
LEMMA SilentShows ==
  ASSUME PInv, NEW gone, Silent(gone), acked' = acked, gone \cap Unwritten = {},
         \A q \in Procs : call'[q].pc = "write" => call'[q] = call[q]
  PROVE  Shows
<1>1. Torn => Torn'
  <2> SUFFICES ASSUME Torn PROVE Torn'
    OBVIOUS
  <2>1. PICK t \in Unwritten : \A q \in Procs : ~(call[q].pc = "write" /\ call[q].temp = t)
    BY DEF Torn, Unwritten
  <2>2. t \in Unwritten'
    BY <2>1 DEF Silent
  <2>3. QED BY <2>1, <2>2 DEF Torn, Unwritten
<1>2. CASE Torn' = Torn
  BY <1>2 DEF Shows, Silent, Promise!journalVars
<1>3. CASE ~Torn /\ Torn'
  BY <1>3 DEF Shows, Silent, Promise!Next, Promise!Interrupt, Torn
<1>4. QED BY <1>1, <1>2, <1>3 DEF Torn

(* What is to be shown of a step. *)
Kept == DiskPromise' /\ (\A q \in Procs : Tidy(q)') /\ Shows

(* A step of p that looks, syncs or removes a name, and does not go on writing. *)
LEMMA SilentKept ==
  ASSUME PInv, IInv', NEW p \in Procs, NEW c, NEW gone,
         call' = [call EXCEPT ![p] = c],
         \A q \in Procs \ {p} : call[q].pc \in {"idle", "reading"},
         Silent(gone), acked' = acked, gone \cap Unwritten = {},
         c.pc \notin {"clean", "clean_sync", "temp"} \cup Handled
  PROVE  Kept
<1>1. /\ call'[p] = c /\ \A q \in Procs \ {p} : call'[q] = call[q]
  BY DEF PInv, IInv, TypeOK
<1>2. \A q \in Procs : Tidy(q)'
  BY <1>1 DEF Tidy, Handled
<1>3. \A q \in Procs : call'[q].pc # "write"
  BY <1>1 DEF Handled
<1>4. Shows
  BY <1>3, SilentShows
<1>5. QED BY <1>2, <1>4 DEF Kept, Silent

(* While one process is in an exclusive session, no other is. *)
LEMMA Alone ==
  ASSUME IInv, NEW p \in Procs, call[p].pc \notin {"idle", "reading"} \/ lock.ex = Nobody
                                \/ call[p].pc = "reading"
  PROVE  \A q \in Procs \ {p} : call[q].pc \in {"idle", "reading"}
  BY StoreAssumption DEF IInv, OneWriter

(* Taking, giving back and losing the lock, and the calls that return at once. *)
LEMMA LooksKept ==
  ASSUME PInv, IInv', NEW p \in Procs,
         \/ Acquire(p) \/ AcquireShared(p) \/ Release(p) \/ Kill(p)
         \/ LoadReturn(p) \/ LoadFail(p) \/ TransitionReject(p)
         \/ CleanReject(p) \/ CreateConflict(p)
  PROVE  Kept
<1>1. IInv /\ DiskPromise /\ call \in [Procs -> Sessions]
  BY DEF PInv, DiskPromise, IInv, TypeOK
<1>2. UNCHANGED <<root, file, acked>>
  BY DEF Acquire, AcquireShared, Release, Kill, LoadReturn, LoadFail, TransitionReject,
         CleanReject, CreateConflict
<1>3. Silent({})
  BY <1>1, <1>2, SilentSame
<1>4. \A q \in Procs \ {p} : call[q].pc \in {"idle", "reading"}
  BY <1>1, Alone DEF Acquire, AcquireShared, Release, Kill, LoadReturn, LoadFail, TransitionReject,
         CleanReject, CreateConflict
<1>5. PICK c : /\ call' = [call EXCEPT ![p] = c]
               /\ c.pc \in {"idle", "ready", "reading"}
  <2>1. Session.pc = "ready" /\ Outside.pc = "idle"
    BY DEF Session, Outside
  <2>2. [call[p] EXCEPT !.pc = "reading"].pc = "reading"
    BY <1>1 DEF Sessions
  <2>3. CASE AcquireShared(p)
    BY <2>2, <2>3 DEF AcquireShared, Goto
  <2>4. CASE ~AcquireShared(p)
    BY <2>1, <2>4 DEF Acquire, Release, Kill, LoadReturn, LoadFail, TransitionReject,
         CleanReject, CreateConflict, Return
  <2>5. QED BY <2>3, <2>4
<1>6. QED BY <1>2, <1>3, <1>4, <1>5, SilentKept DEF Handled

(* A failed system call removes at most the name its writer holds. *)
LEMMA FaultKept ==
  ASSUME PInv, IInv', NEW p \in Procs, Fault(p)
  PROVE  Kept
<1>1. IInv /\ DiskPromise /\ Tidy(p) /\ CallOK(p) /\ InCall(p) /\ UNCHANGED <<file, acked>>
  BY DEF PInv, DiskPromise, IInv, Fault
<1>2. \A q \in Procs \ {p} : call[q].pc \in {"idle", "reading"}
  BY <1>1, Alone DEF InCall
<1>3. call' = [call EXCEPT ![p] = Session] /\ Session.pc = "ready"
  BY DEF Fault, Return, Session
<1>4. CASE UNCHANGED root
  BY <1>1, <1>2, <1>3, <1>4, SilentSame, SilentKept DEF Handled
<1>5. CASE call[p].pc \in Handled /\ Unlink(call[p].temp)
  <2>1. call[p].temp \in Temps /\ ~Torn
    BY <1>1, <1>5 DEF CallOK, Tidy
  <2>2. Silent({call[p].temp})
    BY <1>1, <1>5, <2>1, SilentUnlink
  <2>3. ~Torn'
    <3>1. \A t \in Unwritten : call[p].pc = "write" /\ call[p].temp = t
      BY <1>2, <2>1 DEF Torn, Unwritten
    <3>2. Unwritten' = {}
      BY <2>2, <3>1 DEF Silent
    <3>3. QED BY <3>2 DEF Torn, Unwritten
  <2>4. Shows
    BY <1>1, <2>1, <2>2, <2>3 DEF Shows, Silent, Promise!journalVars, Torn
  <2>5. \A q \in Procs : Tidy(q)'
    BY <1>1, <1>2, <1>3 DEF Tidy, Handled, IInv, TypeOK
  <2>6. QED BY <2>2, <2>4, <2>5 DEF Kept, Silent
<1>6. QED BY <1>4, <1>5 DEF Fault

(* The calls of a session look at the record and prepare what is to be written. *)
LEMMA CallKept ==
  ASSUME PInv, IInv', NEW p \in Procs, Call(p)
  PROVE  Kept
<1>1. IInv /\ DiskPromise /\ call \in [Procs -> Sessions]
  BY DEF PInv, DiskPromise, IInv, TypeOK
<1>2. UNCHANGED <<root, file, acked>> /\ call[p].pc = "ready"
  BY DEF Call, StartCreate, StartTransition, StartLoad, StartCleanup
<1>3. Silent({})
  BY <1>1, <1>2, SilentSame
<1> DEFINE Started(c) == /\ c.pc \in {"clean", "load"}
                         /\ c.op = "create" => \E plan \in Plans : c.new = Planned(plan)
                         /\ c.op = "transition" => c.pc = "load"
<1>4. PICK c : call' = [call EXCEPT ![p] = c] /\ Started(c)
  <2>1. ASSUME NEW plan \in Plans, StartCreate(p, plan)
        PROVE  \E c : call' = [call EXCEPT ![p] = c] /\ Started(c)
    <3> DEFINE c == [Session EXCEPT !.pc = "clean", !.op = "create", !.new = Planned(plan),
                                    !.expect = {Planned(plan)}]
    <3>1. call' = [call EXCEPT ![p] = c] /\ Started(c)
      BY <2>1 DEF StartCreate, Session
    <3>2. QED BY <3>1
  <2>2. ASSUME NEW plan \in Plans, NEW st \in States, StartTransition(p, plan, st)
        PROVE  \E c : call' = [call EXCEPT ![p] = c] /\ Started(c)
    <3> DEFINE c == [Session EXCEPT !.pc = "load", !.op = "transition",
                                    !.new = Record(plan, <<>>), !.want = st]
    <3>1. call' = [call EXCEPT ![p] = c] /\ Started(c)
      BY <2>2 DEF StartTransition, Session
    <3>2. QED BY <3>1
  <2>3. ASSUME StartLoad(p)
        PROVE  \E c : call' = [call EXCEPT ![p] = c] /\ Started(c)
    <3> DEFINE c == [Session EXCEPT !.pc = "load", !.op = "load"]
    <3>1. call' = [call EXCEPT ![p] = c] /\ Started(c)
      BY <2>3 DEF StartLoad, Session
    <3>2. QED BY <3>1
  <2>4. ASSUME StartCleanup(p, Successors(FinalRecord))
        PROVE  \E c : call' = [call EXCEPT ![p] = c] /\ Started(c)
    <3> DEFINE c == [Session EXCEPT !.pc = "clean", !.op = "cleanup",
                                    !.expect = Successors(FinalRecord)]
    <3>1. call' = [call EXCEPT ![p] = c] /\ Started(c)
      BY <2>4 DEF StartCleanup, Session
    <3>2. QED BY <3>1
  <2> HIDE DEF Started
  <2>5. QED BY <2>1, <2>2, <2>3, <2>4 DEF Call
<1>5. call'[p] = c
  BY <1>1, <1>4
<1>6. Tidy(p)'
  <2>1. ASSUME c.pc = "clean" PROVE NextRecord(p)'
    <3>1. c.op # "transition"
      BY <1>4, <2>1
    <3>2. c.op = "create" => c.new = Planned(c.new.plan)
      <4>1. \A plan \in Plans : Planned(plan) = Planned(Planned(plan).plan)
        BY DEF Planned, Record
      <4>2. QED BY <1>4, <4>1
    <3> HIDE DEF Started
    <3>3. QED BY <1>5, <3>1, <3>2 DEF NextRecord
  <2>2. QED BY <1>4, <1>5, <2>1 DEF Tidy, Handled
<1>7. \A q \in Procs : Tidy(q)'
  BY <1>4, <1>5, <1>6, OthersTidy
<1>8. \A q \in Procs : call'[q].pc = "write" => call'[q] = call[q]
  BY <1>1, <1>4
<1>9. Shows
  BY <1>2, <1>3, <1>8, SilentShows
<1>10. QED BY <1>3, <1>7, <1>9 DEF Kept, Silent

(* Loading: a link that was left is repaired, and a transition is checked. *)
LEMMA LoadKept ==
  ASSUME PInv, IInv', NEW p \in Procs,
         LoadRecover(p) \/ LoadRecoverSync(p) \/ TransitionCheck(p)
  PROVE  Kept
<1>1. IInv /\ DiskPromise /\ call \in [Procs -> Sessions] /\ acked' = acked
  BY DEF PInv, DiskPromise, IInv, TypeOK, LoadRecover, LoadRecoverSync, TransitionCheck
<1>2. \A q \in Procs \ {p} : call[q].pc \in {"idle", "reading"}
  BY <1>1, Alone DEF LoadRecover, LoadRecoverSync, TransitionCheck
<1>3. CASE LoadRecover(p)
  <2>1. PICK t \in Residue : LinkedTo(t) /\ Unlink(t)
    BY <1>3 DEF LoadRecover
  <2>2. t \in Temps /\ file[root.now[t]].written  \* it is the published file
    BY <1>1, <2>1, Shape DEF Residue, LinkedTo, IInv, DiskOK, PublishedIsWhole
  <2>3. Silent({t})
    BY <1>1, <1>3, <2>1, <2>2, SilentUnlink DEF LoadRecover
  <2> DEFINE c == [call[p] EXCEPT !.pc = "load_sync"]
  <2>4. call' = [call EXCEPT ![p] = c] /\ c.pc = "load_sync"
    BY <1>1, <1>3 DEF LoadRecover, Goto, Sessions
  <2> HIDE DEF c
  <2>5. QED BY <1>1, <1>2, <2>2, <2>3, <2>4, SilentKept DEF Unwritten, Handled
<1>4. CASE LoadRecoverSync(p)
  <2> DEFINE c == [call[p] EXCEPT !.pc = "load"]
  <2>1. call' = [call EXCEPT ![p] = c] /\ c.pc = "load"
    BY <1>1, <1>4 DEF LoadRecoverSync, Goto, Sessions
  <2>2. Silent({})
    BY <1>1, <1>4, SilentSync DEF LoadRecoverSync
  <2> HIDE DEF c
  <2>3. QED BY <1>1, <1>2, <2>1, <2>2, SilentKept DEF Handled
<1>5. CASE TransitionCheck(p)
  <2> DEFINE updated == After(FinalRecord, call[p].want)
             c == [call[p] EXCEPT !.pc = "clean", !.new = updated, !.expect = {FinalRecord, updated}]
  <2>1. call' = [call EXCEPT ![p] = c] /\ UNCHANGED <<root, file>> /\ call[p].op = "transition"
        /\ call[p].want \in Allowed[StateOf(FinalRecord)]
    BY <1>5 DEF TransitionCheck, Permitted
  <2>2. c.pc = "clean" /\ c.op = "transition" /\ c.new = updated
    BY <1>1, <2>1 DEF Sessions
  <2>3. Silent({})
    BY <1>1, <2>1, SilentSame
  <2> HIDE DEF c
  <2>4. call'[p] = c /\ \A q \in Procs \ {p} : call'[q] = call[q]
    BY <1>1, <2>1
  <2>5. Tidy(p)'
    BY <2>1, <2>2, <2>3, <2>4 DEF Tidy, NextRecord, Handled, Silent
  <2>6. \A q \in Procs : Tidy(q)'
    BY <2>2, <2>4, <2>5, OthersTidy
  <2>7. Shows
    BY <1>1, <2>2, <2>3, <2>4, SilentShows
  <2>8. QED BY <2>3, <2>6, <2>7 DEF Kept, Silent
<1>6. QED BY <1>3, <1>4, <1>5

(* Residue is removed only when it decodes, and what remains is none. *)
LEMMA CleanKept ==
  ASSUME PInv, IInv', NEW p \in Procs,
         CleanUnlink(p) \/ CleanSync(p) \/ CleanNothing(p)
  PROVE  Kept
<1>1. IInv /\ DiskPromise /\ call \in [Procs -> Sessions] /\ acked' = acked /\ Tidy(p)
  BY DEF PInv, DiskPromise, IInv, TypeOK, CleanUnlink, CleanSync, CleanNothing
<1>2. \A q \in Procs \ {p} : call[q].pc \in {"idle", "reading"}
  BY <1>1, Alone DEF CleanUnlink, CleanSync, CleanNothing
<1>3. CASE CleanUnlink(p)
  <2>1. PICK t \in Residue : Residue = {t} /\ Canonical(t, call[p].expect) /\ Unlink(t)
    BY <1>3 DEF CleanUnlink
  <2>2. t \in Temps /\ t \notin Unwritten
    BY <2>1 DEF Residue, Unwritten, Canonical
  <2>3. Silent({t})
    BY <1>1, <1>3, <2>1, <2>2, SilentUnlink DEF CleanUnlink
  <2> DEFINE c == [call[p] EXCEPT !.pc = "clean_sync"]
  <2>4. call' = [call EXCEPT ![p] = c] /\ c.pc = "clean_sync" /\ c.op = call[p].op
        /\ c.new = call[p].new /\ NextRecord(p)
    BY <1>1, <1>3 DEF CleanUnlink, Goto, Sessions, Tidy
  <2> HIDE DEF c
  <2>5. call'[p] = c /\ \A q \in Procs \ {p} : call'[q] = call[q]
    BY <1>1, <2>4
  <2>6. Tidy(p)'
    BY <2>1, <2>3, <2>4, <2>5 DEF Tidy, NextRecord, Handled, Silent
  <2>7. \A q \in Procs : Tidy(q)'
    BY <2>4, <2>5, <2>6, OthersTidy
  <2>8. Shows
    BY <1>1, <2>2, <2>3, <2>4, <2>5, SilentShows
  <2>9. QED BY <2>3, <2>7, <2>8 DEF Kept, Silent
<1>4. ASSUME Residue = {}, NextRecord(p), Silent({}), AfterClean(p),
             call[p].pc \in {"clean", "clean_sync"}
      PROVE  Kept
  <2>1. CASE call[p].op = "cleanup"
    <3>1. call' = [call EXCEPT ![p] = Session] /\ Session.pc = "ready"
      BY <1>4, <2>1 DEF AfterClean, Return, Session
    <3>2. QED BY <1>1, <1>2, <1>4, <3>1, SilentKept DEF Handled
  <2>2. CASE call[p].op # "cleanup"
    <3> DEFINE c == [call[p] EXCEPT !.pc = "temp"]
    <3>1. call' = [call EXCEPT ![p] = c] /\ c.pc = "temp" /\ c.op = call[p].op
          /\ c.new = call[p].new
      BY <1>1, <1>4, <2>2 DEF AfterClean, Goto, Sessions
    <3> HIDE DEF c
    <3>2. call'[p] = c /\ \A q \in Procs \ {p} : call'[q] = call[q]
      BY <1>1, <3>1
    <3>3. Tidy(p)'
      BY <1>4, <3>1, <3>2 DEF Tidy, NextRecord, Handled, Silent
    <3>4. \A q \in Procs : Tidy(q)'
      BY <3>1, <3>2, <3>3, OthersTidy
    <3>5. Shows
      BY <1>1, <1>4, <3>1, <3>2, SilentShows
    <3>6. QED BY <1>4, <3>4, <3>5 DEF Kept, Silent
  <2>3. QED BY <2>1, <2>2
<1>5. CASE CleanSync(p)
  BY <1>1, <1>4, <1>5, SilentSync DEF CleanSync, Tidy
<1>6. CASE CleanNothing(p)
  BY <1>1, <1>4, <1>6, SilentSame DEF CleanNothing, Tidy
<1>7. QED BY <1>3, <1>5, <1>6

(* A temporary file is begun beside no other, with the record that is next. *)
LEMMA NewTempKept ==
  ASSUME PInv, IInv', NEW p \in Procs, NewTemp(p)
  PROVE  Kept
<1>1. IInv /\ DiskPromise /\ call \in [Procs -> Sessions] /\ acked' = acked /\ call[p].pc = "temp"
  BY DEF PInv, DiskPromise, IInv, TypeOK, NewTemp
<1>2. \A q \in Procs \ {p} : call[q].pc \in {"idle", "reading"}
  BY <1>1, Alone
<1>3. Residue = {} /\ NextRecord(p) /\ Pending(p) /\ (call[p].op = "create" => ~Published)
  BY <1>1 DEF PInv, Tidy, IInv, CallOK, NewTemp
<1>4. PICK t \in Temps, i \in Inodes :
        /\ root.now[t] = NoFile
        /\ \A d \in root.disk : \A n \in Names : d[n] # i
        /\ root' = Put(root, [root.now EXCEPT ![t] = i])
        /\ file' = [file EXCEPT ![i] =
                      [rec |-> call[p].new, written |-> FALSE, synced |-> FALSE]]
        /\ call' = [call EXCEPT ![p].pc = "write", ![p].temp = t]
  BY DEF NewTemp
<1> DEFINE c == [call[p] EXCEPT !.pc = "write", !.temp = t]
<1> PICK v : v = [root.now EXCEPT ![t] = i]
  OBVIOUS
<1>5. /\ i # NoFile /\ t # Final /\ root.now \in Entries
      /\ v[t] = i /\ \A n \in Names \ {t} : v[n] = root.now[n]
  BY Shape, <1>1, StoreAssumption DEF IInv, TypeOK, DirOf, Entries, Names
<1>6. /\ file'[i].rec = call[p].new /\ ~file'[i].written
      /\ \A j \in Inodes \ {i} : file'[j] = file[j]
  BY <1>1, <1>4 DEF IInv, TypeOK
<1>7. root'.now = v /\ root'.disk = root.disk \cup {v}
  BY <1>4 DEF Put
<1>8. /\ call' = [call EXCEPT ![p] = c] /\ c.pc = "write" /\ c.temp = t
      /\ c.op = call[p].op /\ c.new = call[p].new
  BY <1>1, <1>4 DEF Sessions
<1> HIDE DEF c
<1>9. \A d \in root.disk, n \in Names : d[n] # NoFile => d[n] \in Inodes /\ file'[d[n]] = file[d[n]]
  BY <1>1, <1>4, <1>6, Shape
<1>10. \A d \in root.disk : RecordIn(d)' = RecordIn(d)
  BY <1>1, <1>9, Shape DEF RecordIn
<1>11. FinalRecord' = FinalRecord /\ RecordIn(v)' = FinalRecord
  BY <1>1, <1>5, <1>7, <1>9, Shape DEF FinalRecord, RecordIn
<1>12. NowIsLatest'
  BY <1>1, <1>7, <1>10, <1>11, Shape, ExtendsRefl DEF DiskPromise, NowIsLatest
<1>13. ASSUME NEW d \in root.disk PROVE CanonicalIn(d)'
  <2>1. CanonicalIn(d)
    BY <1>1 DEF DiskPromise, ResidueIsCanonical, CanonicalIn
  <2>2. QED BY <1>1, <1>9, <1>10, <2>1, Shape DEF CanonicalIn
<1>14. CanonicalIn(v)'
  <2>1. \A u \in Temps \ {t} : v[u] = NoFile
    BY <1>1, <1>3, <1>5, Shape DEF Residue
  <2>2. CASE ~Published
    <3>1. FinalRecord = NoRecord /\ call[p].op = "create"
      BY <1>1, <1>3, <2>2, Shape DEF Pending
    <3>2. call[p].new = Planned(call[p].new.plan)
      BY <1>3, <3>1 DEF NextRecord
    <3>3. QED BY <1>5, <1>6, <1>11, <2>1, <3>1, <3>2 DEF CanonicalIn
  <2>3. CASE Published
    <3>1. FinalRecord # NoRecord /\ call[p].op = "transition" /\ v[Final] # i
      BY <1>1, <1>3, <1>4, <1>5, <2>3, Shape DEF Pending
    <3>2. PICK st \in Allowed[StateOf(FinalRecord)] : call[p].new = After(FinalRecord, st)
      BY <1>3, <3>1 DEF NextRecord
    <3>3. QED BY <1>5, <1>6, <1>11, <2>1, <3>1, <3>2 DEF CanonicalIn
  <2>4. QED BY <2>2, <2>3
<1>15. DiskPromise'
  <2>1. \A e \in root'.disk : CanonicalIn(e)'
    BY <1>7, <1>13, <1>14
  <2>2. ResidueIsCanonical'
    BY <2>1 DEF ResidueIsCanonical, CanonicalIn
  <2>3. QED BY <1>12, <2>2 DEF DiskPromise
<1>16. call'[p] = c /\ \A q \in Procs \ {p} : call'[q] = call[q]
  BY <1>1, <1>8
<1>17. ~Torn /\ ~Torn'
  <2>1. Residue' = {t}
    BY <1>1, <1>3, <1>5, <1>7, Shape DEF Residue
  <2>2. QED BY <1>3, <1>8, <1>16, <2>1 DEF Torn
<1>18. Tidy(p)'
  BY <1>3, <1>8, <1>11, <1>16, <1>17 DEF Tidy, NextRecord, Handled
<1>19. \A q \in Procs : Tidy(q)'
  BY <1>8, <1>16, <1>18, OthersTidy
<1>20. Shows
  BY <1>1, <1>11, <1>17 DEF Shows, Promise!journalVars, Torn
<1>21. QED BY <1>15, <1>19, <1>20 DEF Kept

(* The temporary file is filled and synced; nobody else's is. *)
LEMMA WriteKept ==
  ASSUME PInv, IInv', NEW p \in Procs, WriteTemp(p) \/ FsyncTemp(p)
  PROVE  Kept
<1>1. /\ IInv /\ DiskPromise /\ call \in [Procs -> Sessions] /\ UNCHANGED <<acked, root>>
      /\ call[p].pc \in {"write", "fsync"}
  BY DEF PInv, DiskPromise, IInv, TypeOK, WriteTemp, FsyncTemp
<1>2. \A q \in Procs \ {p} : call[q].pc \in {"idle", "reading"}
  BY <1>1, Alone
<1>3. Writing(p) /\ call[p].temp \in Temps /\ ~Torn /\ NextRecord(p)
      /\ (call[p].pc = "fsync" => file[TempInode(p)].written)
  BY <1>1 DEF PInv, IInv, CallOK, Handled, Tidy
<1>4. TempInode(p) \in Inodes
  BY <1>1, <1>3, Shape DEF Writing, TempInode
<1>5. PICK c, pc :
        /\ call' = [call EXCEPT ![p].pc = pc] /\ pc \in {"fsync", "publish"}
        /\ file' = [file EXCEPT ![TempInode(p)] = c]
        /\ c.rec = file[TempInode(p)].rec /\ c.written
  <2>1. file[TempInode(p)] \in Contents
    BY <1>1, <1>4 DEF IInv, TypeOK
  <2>2. CASE WriteTemp(p)
    <3> DEFINE c == [file[TempInode(p)] EXCEPT !.written = TRUE]
    <3>1. /\ call' = [call EXCEPT ![p].pc = "fsync"]
          /\ file' = [file EXCEPT ![TempInode(p)] = c]
          /\ c.rec = file[TempInode(p)].rec /\ c.written
      BY <2>1, <2>2 DEF WriteTemp, Goto, Contents
    <3> HIDE DEF c
    <3>2. QED BY <3>1
  <2>3. CASE FsyncTemp(p)
    <3> DEFINE c == [file[TempInode(p)] EXCEPT !.synced = TRUE]
    <3>1. /\ call' = [call EXCEPT ![p].pc = "publish"]
          /\ file' = [file EXCEPT ![TempInode(p)] = c]
          /\ c.rec = file[TempInode(p)].rec /\ c.written
      BY <1>3, <2>1, <2>3 DEF FsyncTemp, Goto, Contents
    <3> HIDE DEF c
    <3>2. QED BY <3>1
  <2>4. QED BY <2>2, <2>3
<1>6. DiskPromise' /\ FinalRecord' = FinalRecord
  BY <1>1, <1>4, <1>5, DiskPromiseWrite
<1>7. /\ call'[p].pc = pc /\ call'[p].op = call[p].op /\ call'[p].new = call[p].new
      /\ \A q \in Procs \ {p} : call'[q] = call[q]
  BY <1>1, <1>5 DEF Sessions
<1>8. ~Torn'
  <2> SUFFICES ASSUME NEW t \in Residue', ~file'[root'.now[t]].written PROVE FALSE
    BY DEF Torn
  <2>1. t \in Residue /\ root.now[t] \in Inodes /\ root.now[t] # TempInode(p)
    BY <1>1, <1>4, <1>5, Shape DEF Residue, IInv, TypeOK
  <2>2. ~file[root.now[t]].written
    BY <1>1, <1>4, <1>5, <2>1 DEF IInv, TypeOK
  <2>3. call[p].temp = t
    BY <1>2, <1>3, <2>1, <2>2 DEF Torn
  <2>4. QED BY <2>1, <2>3 DEF TempInode
<1>9. Tidy(p)'
  BY <1>3, <1>5, <1>6, <1>7, <1>8 DEF Tidy, NextRecord, Handled
<1>10. \A q \in Procs : Tidy(q)'
  BY <1>5, <1>7, <1>9, OthersTidy
<1>11. Shows
  BY <1>1, <1>3, <1>6, <1>8 DEF Shows, Promise!journalVars, Torn
<1>12. QED BY <1>6, <1>10, <1>11 DEF Kept

(* Bringing a record under the published name: it extends what could be read. *)
LEMMA Publication ==
  ASSUME IInv, DiskPromise, file' = file, NEW i \in Inodes, NEW v,
         root' = Put(root, v), v[Final] = i,
         file[i].rec \in Records, Extends(file[i].rec, FinalRecord),
         CanonicalIn(v)'
  PROVE  DiskPromise' /\ FinalRecord' = file[i].rec
<1>1. root'.now = v /\ root'.disk = root.disk \cup {v} /\ i # NoFile
  BY StoreAssumption DEF Put
<1>2. \A d : RecordIn(d)' = RecordIn(d)
  BY DEF RecordIn
<1>3. FinalRecord' = file[i].rec /\ RecordIn(v)' = file[i].rec
  BY <1>1 DEF FinalRecord, RecordIn
<1>4. file[i].rec \in AnyRecord
  BY DEF AnyRecord
<1>5. Extends(file[i].rec, file[i].rec)
  BY <1>4, ExtendsRefl
<1>6. \A d \in root.disk : Extends(file[i].rec, RecordIn(d))
  BY <1>4, Shape, ExtendsTrans DEF DiskPromise, NowIsLatest
<1>7. NowIsLatest'
  BY <1>1, <1>2, <1>3, <1>5, <1>6 DEF NowIsLatest
<1>8. \A e \in root'.disk : CanonicalIn(e)'
  BY <1>1 DEF DiskPromise, ResidueIsCanonical, CanonicalIn, RecordIn
<1>9. ResidueIsCanonical'
  BY <1>8 DEF ResidueIsCanonical, CanonicalIn
<1>10. QED BY <1>3, <1>7, <1>9 DEF DiskPromise

(* Module Journal speaks of the same records. *)
LEMMA SameRecords ==
  /\ Promise!NoRecord = NoRecord /\ Promise!States = States /\ Promise!Allowed = Allowed
  /\ \A plan : Promise!Planned(plan) = Planned(plan)
  /\ \A r : Promise!StateOf(r) = StateOf(r)
  /\ \A r, st : Promise!After(r, st) = After(r, st)
  /\ \A r, q : Promise!Extends(r, q) <=> Extends(r, q)
  /\ \A r, n : Promise!UpTo(r, n) = UpTo(r, n)
<1> USE DEF Promise!Record, Record, Promise!NoRecord, NoRecord
<1>1. /\ Promise!NoRecord = NoRecord /\ Promise!States = States
      /\ \A plan : Promise!Planned(plan) = Planned(plan)
      /\ \A r, st : Promise!After(r, st) = After(r, st)
  BY DEF Promise!States, States, Promise!Planned, Planned, Promise!After, After
<1>2. Promise!Allowed = Allowed
  BY DEF Promise!Allowed, Allowed
<1>3. \A r : Promise!StateOf(r) = StateOf(r)
  BY DEF Promise!StateOf, StateOf
<1>4. \A r, q : Promise!Extends(r, q) <=> Extends(r, q)
  BY DEF Promise!Extends, Extends, Promise!IsPrefix, IsPrefix
<1>5. \A r, n : Promise!UpTo(r, n) = UpTo(r, n)
  BY DEF Promise!UpTo, UpTo
<1>6. QED BY <1>1, <1>2, <1>3, <1>4, <1>5

(* A record appears: create() publishes the plan's first, transition() an allowed
   successor of the one it read. *)
LEMMA PublishKept ==
  ASSUME PInv, IInv', NEW p \in Procs, LinkFinal(p) \/ ReplaceFinal(p)
  PROVE  Kept
<1>1. /\ IInv /\ DiskPromise /\ call \in [Procs -> Sessions] /\ UNCHANGED <<acked, file>>
      /\ call[p].pc = "publish" /\ root.now \in Entries
  BY DEF PInv, DiskPromise, IInv, TypeOK, DirOf, LinkFinal, ReplaceFinal
<1>2. \A q \in Procs \ {p} : call[q].pc \in {"idle", "reading"}
  BY <1>1, Alone
<1>3. /\ Writing(p) /\ call[p].temp \in Temps /\ ~Torn /\ NextRecord(p)
      /\ file[TempInode(p)].rec = call[p].new /\ call[p].new \in Records
  BY <1>1 DEF PInv, IInv, CallOK, Handled, Tidy, Writing, Pending
<1>4. TempInode(p) \in Inodes /\ root.now[call[p].temp] # NoFile /\ TempInode(p) # NoFile
  BY <1>1, <1>3, Shape DEF Writing, TempInode
<1>5. \A u \in Temps \ {call[p].temp} : root.now[u] = NoFile
  BY <1>1, <1>3, <1>4, Shape DEF DiskPromise, ResidueIsCanonical
<1>6. file[TempInode(p)].written
  BY <1>1 DEF IInv, CallOK
<1>7. CASE LinkFinal(p)
  <2>1. PICK v : v = [root.now EXCEPT ![Final] = TempInode(p)]
    OBVIOUS
  <2>2. /\ v[Final] = TempInode(p) /\ \A t \in Temps : v[t] = root.now[t]
    BY <1>1, <2>1, StoreAssumption DEF Entries, Names
  <2>3. root' = Put(root, v) /\ call[p].op = "create" /\ call' = [call EXCEPT ![p].pc = "link_sync"]
    BY <1>7, <2>1 DEF LinkFinal, Goto
  <2>4. FinalRecord = NoRecord /\ call[p].new = Planned(call[p].new.plan)
    BY <1>1, <1>3, <2>3, Shape DEF Writing, NextRecord
  <2>5. Extends(call[p].new, FinalRecord)
    BY <2>4 DEF Extends
  <2>6. RecordIn(v)' = call[p].new
    BY <1>1, <1>3, <1>4, <2>2 DEF RecordIn
  <2>7. CanonicalIn(v)'
    <3>1. \A t \in Temps : v[t] # NoFile => t = call[p].temp /\ v[t] = v[Final]
      BY <1>5, <2>2 DEF TempInode
    <3>2. QED BY <1>1, <1>3, <1>5, <2>2, <2>4, <2>6, <3>1 DEF CanonicalIn, TempInode
  <2>8. DiskPromise' /\ FinalRecord' = call[p].new
    BY <1>1, <1>3, <1>4, <2>2, <2>3, <2>5, <2>7, Publication
  <2>9. call'[p].pc = "link_sync" /\ \A q \in Procs \ {p} : call'[q] = call[q]
    BY <1>1, <2>3 DEF Sessions
  <2>10. ~Torn'
    BY <1>1, <1>3, <1>5, <1>6, <2>2, <2>3 DEF Torn, Residue, Put, TempInode
  <2>11. \A q \in Procs : Tidy(q)'
    <3>1. Tidy(p)'
      BY <2>9, <2>10 DEF Tidy, Handled
    <3>2. QED BY <2>9, <3>1, OthersTidy
  <2>12. Shows
    <3>1. call[p].new.plan \in Plans
      BY <1>3 DEF Records
    <3>2. Promise!Publish(call[p].new.plan)
      BY <1>1, <1>3, <2>4, <2>8, <2>10, SameRecords DEF Promise!Publish, Torn
    <3>3. QED BY <3>1, <3>2, SameRecords DEF Shows, Promise!Next
  <2>13. QED BY <2>8, <2>11, <2>12 DEF Kept
<1>8. CASE ReplaceFinal(p)
  <2>1. PICK v : v = [root.now EXCEPT ![Final] = TempInode(p), ![call[p].temp] = NoFile]
    OBVIOUS
  <2>2. /\ v[Final] = TempInode(p) /\ \A t \in Temps : v[t] = NoFile
    BY <1>1, <1>3, <1>5, <2>1, StoreAssumption DEF Entries, Names
  <2>3. root' = Put(root, v) /\ call[p].op = "transition"
        /\ call' = [call EXCEPT ![p].pc = "replace_sync"]
    BY <1>8, <2>1 DEF ReplaceFinal, Goto
  <2>4. PICK st \in Allowed[StateOf(FinalRecord)] : call[p].new = After(FinalRecord, st)
    BY <1>3, <2>3 DEF NextRecord
  <2>5. FinalRecord \in Records /\ FinalRecord # NoRecord /\ Extends(call[p].new, FinalRecord)
    BY <1>1, <1>3, <2>3, Shape DEF Writing, Pending, AnyRecord
  <2>6. CanonicalIn(v)'
    BY <2>2 DEF CanonicalIn
  <2>7. DiskPromise' /\ FinalRecord' = call[p].new
    BY <1>1, <1>3, <1>4, <2>2, <2>3, <2>5, <2>6, Publication
  <2>8. call'[p].pc = "replace_sync" /\ \A q \in Procs \ {p} : call'[q] = call[q]
    BY <1>1, <2>3 DEF Sessions
  <2>9. ~Torn'
    BY <2>2, <2>3 DEF Torn, Residue, Put
  <2>10. \A q \in Procs : Tidy(q)'
    <3>1. Tidy(p)'
      BY <2>8, <2>9 DEF Tidy, Handled
    <3>2. QED BY <2>8, <3>1, OthersTidy
  <2>11. Shows
    <3>1. st \in States
      BY <2>4, <2>5, StateOfRecord
    <3>2. Promise!Advance(st)
      BY <1>1, <1>3, <2>4, <2>5, <2>7, <2>9, SameRecords DEF Promise!Advance, Torn
    <3>3. QED BY <3>1, <3>2, SameRecords DEF Shows, Promise!Next
  <2>12. QED BY <2>7, <2>10, <2>11 DEF Kept
<1>9. QED BY <1>7, <1>8

(* What follows the publication changes what a crash would leave, not what is read. *)
LEMMA FinishKept ==
  ASSUME PInv, IInv', NEW p \in Procs,
         \/ LinkSync(p) \/ UnlinkTemp(p) \/ UnlinkSync(p) \/ ReplaceSync(p) \/ Acknowledge(p)
  PROVE  Kept
<1>1. /\ IInv /\ DiskPromise /\ call \in [Procs -> Sessions] /\ CallOK(p) /\ Tidy(p)
      /\ call[p].pc \notin {"idle", "reading"}
  BY DEF PInv, DiskPromise, IInv, TypeOK, LinkSync, UnlinkTemp, UnlinkSync, ReplaceSync, Acknowledge
<1>2. \A q \in Procs \ {p} : call[q].pc \in {"idle", "reading"}
  BY <1>1, Alone
<1>3. ASSUME NEW pc, call' = [call EXCEPT ![p].pc = pc]
      PROVE  /\ call'[p].pc = pc
             /\ \A q \in Procs \ {p} : call'[q] = call[q]
             /\ \E c : call' = [call EXCEPT ![p] = c] /\ c.pc = pc
  <2> DEFINE c == [call[p] EXCEPT !.pc = pc]
  <2>1. call' = [call EXCEPT ![p] = c] /\ c.pc = pc
    BY <1>1, <1>3 DEF Sessions
  <2> HIDE DEF c
  <2>2. QED BY <1>1, <2>1
<1>4. CASE LinkSync(p)
  <2>1. /\ call' = [call EXCEPT ![p].pc = "unlink"] /\ acked' = acked /\ Silent({})
        /\ call[p].pc = "link_sync"
    BY <1>1, <1>4, SilentSync DEF LinkSync, Goto
  <2>2. call'[p].pc = "unlink" /\ \A q \in Procs \ {p} : call'[q] = call[q]
    BY <1>3, <2>1
  <2>3. ~Torn /\ ~Torn'
    <3>1. ~Torn /\ Unwritten = {}
      BY <1>1, <1>2, <2>1 DEF Tidy, Handled, Torn, Unwritten
    <3>2. QED BY <2>1, <3>1 DEF Silent, Torn, Unwritten
  <2>4. \A q \in Procs : Tidy(q)'
    <3>1. Tidy(p)'
      BY <2>2, <2>3 DEF Tidy, Handled
    <3>2. QED BY <2>2, <3>1, OthersTidy
  <2>5. Shows
    BY <2>1, <2>3 DEF Shows, Silent, Promise!journalVars, Torn
  <2>6. QED BY <2>1, <2>4, <2>5 DEF Kept, Silent
<1>5. CASE UnlinkTemp(p)
  <2>1. /\ call' = [call EXCEPT ![p].pc = "unlink_sync"] /\ acked' = acked
        /\ Silent({call[p].temp}) /\ call[p].pc = "unlink"
    BY <1>1, <1>5, SilentUnlink DEF UnlinkTemp, Goto, CallOK, Handled
  <2>2. Unwritten = {}
    BY <1>1, <1>2, <2>1 DEF Tidy, Handled, Torn, Unwritten
  <2>3. PICK c : call' = [call EXCEPT ![p] = c] /\ c.pc = "unlink_sync"
    BY <1>3, <2>1
  <2>4. QED BY <1>2, <2>1, <2>2, <2>3, SilentKept DEF Handled
<1>6. CASE UnlinkSync(p) \/ ReplaceSync(p)
  <2>1. call' = [call EXCEPT ![p].pc = "return"] /\ acked' = acked /\ Silent({})
    BY <1>1, <1>6, SilentSync DEF UnlinkSync, ReplaceSync, Goto
  <2>2. PICK c : call' = [call EXCEPT ![p] = c] /\ c.pc = "return"
    BY <1>3, <2>1
  <2>3. QED BY <1>2, <2>1, <2>2, SilentKept DEF Handled
<1>7. CASE Acknowledge(p)
  <2>1. /\ call' = [call EXCEPT ![p] = Session] /\ acked' = FinalRecord
        /\ UNCHANGED <<root, file>> /\ Session.pc = "ready" /\ call[p].pc = "return"
    BY <1>7 DEF Acknowledge, Return, Session
  <2>2. Silent({})
    BY <1>1, <2>1, SilentSame
  <2>3. /\ call'[p].pc = "ready" /\ \A q \in Procs \ {p} : call'[q] = call[q]
    BY <1>1, <2>1
  <2>4. \A q \in Procs : Tidy(q)'
    <3>1. Tidy(p)'
      BY <2>3 DEF Tidy, Handled
    <3>2. QED BY <2>3, <3>1, OthersTidy
  <2>5. Torn' = Torn
    <3>1. \A q \in Procs : call'[q].pc # "write" /\ call[q].pc # "write"
      BY <1>2, <2>1, <2>3
    <3>2. Torn' <=> Torn
      BY <2>2, <3>1 DEF Torn, Silent, Unwritten
    <3>3. QED BY <3>2 DEF Torn
  <2>6. CASE FinalRecord = NoRecord
    <3>1. acked \in AnyRecord /\ Extends(FinalRecord, acked)
      BY <1>1, Shape DEF IInv, TypeOK, DiskOK, AckedIsDurable, AnyRecord, FinalRecord
    <3>2. acked = NoRecord
      BY <2>6, <3>1, NothingExtends
    <3>3. Shows
      BY <2>1, <2>2, <2>5, <2>6, <3>2 DEF Shows, Silent, Promise!journalVars
    <3>4. QED BY <2>2, <2>4, <3>3 DEF Kept, Silent
  <2>7. CASE FinalRecord # NoRecord
    <3>1. Promise!Acknowledge
      BY <2>1, <2>2, <2>5, <2>7, SameRecords DEF Promise!Acknowledge, Silent
    <3>2. QED BY <2>2, <2>4, <3>1 DEF Kept, Silent, Shows, Promise!Next
  <2>8. QED BY <2>6, <2>7
<1>8. QED BY <1>4, <1>5, <1>6, <1>7

(* A record that another extends is what the other was after some of its steps. *)
LEMMA ExtendedIsEarlier ==
  ASSUME NEW r \in AnyRecord, NEW s \in AnyRecord, Extends(r, s)
  PROVE  \E n \in 0..Len(r.hist) : s = UpTo(r, n)
<1>1. CASE s = NoRecord
  <2>1. Len(r.hist) \in Nat
    BY DEF AnyRecord, Records, NoRecord, Record
  <2>2. s = UpTo(r, 0) /\ 0 \in 0..Len(r.hist)
    BY <1>1, <2>1 DEF UpTo
  <2>3. QED BY <2>2
<1>2. CASE s # NoRecord
  <2>1. s \in Records /\ r \in Records
    BY <1>2, NothingExtends DEF AnyRecord
  <2>2. /\ s.hist \in Seq(States) /\ r.hist \in Seq(States) /\ s.plan = r.plan
        /\ Len(s.hist) \in 1..Len(r.hist)
        /\ SubSeq(s.hist, 1, Len(s.hist)) = SubSeq(r.hist, 1, Len(s.hist))
    BY <1>2, <2>1 DEF Extends, IsPrefix, Records
  <2>3. s.hist = SubSeq(s.hist, 1, Len(s.hist))
    BY <2>2
  <2>4. s = Record(s.plan, s.hist)
    BY <2>1 DEF Records, Record
  <2>5. s = UpTo(r, Len(s.hist))
    <3>1. Len(s.hist) # 0
      BY <2>2
    <3>2. UpTo(r, Len(s.hist)) = Record(r.plan, SubSeq(r.hist, 1, Len(s.hist)))
      BY <3>1 DEF UpTo
    <3>3. SubSeq(r.hist, 1, Len(s.hist)) = s.hist
      BY <2>2, <2>3
    <3>4. QED BY <2>2, <2>4, <3>2, <3>3, Zenon
  <2>6. QED BY <2>2, <2>5
<1>3. QED BY <1>1, <1>2

(* A power failure takes the record back to one it was, not behind the last one
   that was acknowledged. *)
LEMMA PowerLossKept ==
  ASSUME PInv, IInv', PowerLoss
  PROVE  Kept
<1>1. IInv /\ DiskPromise
  BY DEF PInv, DiskPromise
<1>2. PICK v \in root.disk : root' = Fresh(v)
  BY DEF PowerLoss, AfterLoss
<1>3. root'.now = v /\ root'.disk = {v}
  BY <1>2 DEF Fresh
<1>4. \A n \in Names : v[n] # NoFile => v[n] \in Inodes /\ file'[v[n]].rec = file[v[n]].rec
  <2>1. PICK torn \in SUBSET {i \in Inodes : ~file[i].synced} :
          file' = Reclaimed(root', [i \in Inodes |-> [file[i] EXCEPT !.written = @ /\ i \notin torn]])
    BY DEF PowerLoss
  <2> DEFINE g == [i \in Inodes |-> [file[i] EXCEPT !.written = @ /\ i \notin torn]]
  <2>2. ASSUME NEW i \in Inodes PROVE g[i].rec = file[i].rec
    BY <1>1 DEF Contents, IInv, TypeOK
  <2>3. file' = Reclaimed(root', g)
    BY <2>1
  <2> HIDE DEF g
  <2>4. QED BY <1>1, <1>3, <2>2, <2>3, Shape DEF Reclaimed
<1>5. RecordIn(v)' = RecordIn(v) /\ FinalRecord' = RecordIn(v) /\ RecordIn(v) \in AnyRecord
  BY <1>1, <1>3, <1>4, Shape DEF RecordIn, FinalRecord
<1>6. NowIsLatest'
  BY <1>3, <1>5, ExtendsRefl DEF NowIsLatest
<1>7. ResidueIsCanonical'
  <2>1. CanonicalIn(v)
    BY <1>1 DEF DiskPromise, ResidueIsCanonical, CanonicalIn
  <2>2. CanonicalIn(v)'
    BY <1>1, <1>4, <1>5, <2>1, Shape DEF CanonicalIn
  <2>3. QED BY <1>3, <2>2 DEF ResidueIsCanonical, CanonicalIn
<1>8. \A q \in Procs : Tidy(q)'
  BY DEF PowerLoss, Outside, Session, Tidy, Handled
<1>9. Shows
  <2>1. Extends(FinalRecord, RecordIn(v)) /\ FinalRecord \in AnyRecord
    BY <1>1, <1>2, Shape DEF DiskPromise, NowIsLatest
  <2>2. \E n \in 0..Len(FinalRecord.hist) : FinalRecord' = UpTo(FinalRecord, n)
    BY <1>5, <2>1, ExtendedIsEarlier
  <2>3. Extends(FinalRecord', acked) /\ acked' = FinalRecord'
    BY <1>1, <1>2, <1>5 DEF IInv, DiskOK, AckedIsDurable, PowerLoss
  <2>4. Promise!Lose
    BY <2>2, <2>3, SameRecords DEF Promise!Lose, Torn
  <2>5. QED BY <2>4 DEF Shows, Promise!Next
<1>10. QED BY <1>6, <1>7, <1>8, <1>9 DEF Kept, DiskPromise

------------------------------------------------------------------------------
(* The directory keeps the promise. *)

(* The empty directory promises nothing yet. *)
LEMMA InitIsPromised == ASSUME Init PROVE PInv /\ Promise!Init
<1>1. IInv
  BY InitIsIInv
<1>2. root.now = Empty /\ root.disk = {Empty} /\ \A n \in Names : Empty[n] = NoFile
  BY DEF Init, Fresh, Empty
<1>3. FinalRecord = NoRecord /\ Residue = {}
  BY <1>1, <1>2, Shape DEF FinalRecord, RecordIn, Residue
<1>4. ResidueIsCanonical /\ NowIsLatest
  BY <1>1, <1>2, <1>3, Shape DEF ResidueIsCanonical, NowIsLatest, RecordIn, Extends
<1>5. \A p \in Procs : Tidy(p)
  BY DEF Init, Outside, Session, Tidy, Handled
<1>6. Promise!Init
  BY <1>3, SameRecords DEF Promise!Init, Init, Torn
<1>7. QED BY <1>1, <1>4, <1>5, <1>6 DEF PInv

(* Every system call, kill and power failure is a step of the promise or none. *)
LEMMA NextIsPromised == ASSUME PInv, [Next]_vars PROVE PInv' /\ Shows
<1>1. IInv'
  BY NextIsIInv DEF PInv
<1>2. CASE UNCHANGED vars
  <2>1. UNCHANGED <<root, file, lock, call, acked>>
    BY <1>2 DEF vars
  <2>2. Silent({})
    BY <2>1, SilentSame DEF PInv, DiskPromise
  <2>3. Shows
    BY <2>1, <2>2, SilentShows DEF PInv
  <2>4. Torn' <=> Torn
    BY <2>1 DEF Torn, Residue
  <2>5. ASSUME NEW q \in Procs PROVE Tidy(q)'
    BY <2>1, <2>2, <2>4 DEF PInv, Tidy, NextRecord, Silent
  <2>6. QED BY <1>1, <2>2, <2>3, <2>5 DEF PInv, Silent, DiskPromise
<1>3. CASE Next
  <2>1. Kept
    <3>1. ASSUME NEW p \in Procs, Step(p) PROVE Kept
      BY <1>1, <3>1, LooksKept, LoadKept, CleanKept, NewTempKept, WriteKept, PublishKept,
         FinishKept DEF Step
    <3>2. QED BY <1>1, <1>3, <3>1, LooksKept, CallKept, FaultKept, PowerLossKept DEF Next
  <2>2. QED BY <1>1, <2>1 DEF Kept, PInv, DiskPromise
<1>4. QED BY <1>2, <1>3

(* What an interruption leaves beside the record is what the next session knows
   how to recognize: one name at most, the plan's first record or an allowed
   successor of the published one. *)
THEOREM Residual == Spec => []ResidueIsCanonical
<1>1. Init => PInv BY InitIsPromised
<1>2. PInv /\ [Next]_vars => PInv' BY NextIsPromised
<1>3. PInv => ResidueIsCanonical BY DEF PInv
<1>4. QED BY <1>1, <1>2, <1>3, PTL DEF Spec

(* The directory of journal.py, system call by system call and through every kill
   and power failure, implements the journal it promises: the record of one plan,
   growing by allowed transitions, never taken back behind an acknowledged one. *)
THEOREM Refinement == Spec => KeepsPromise
<1>1. Init => PInv /\ Promise!Init BY InitIsPromised
<1>2. PInv /\ [Next]_vars => PInv' /\ [Promise!Next]_(Promise!journalVars)
  BY NextIsPromised DEF Shows
<1>3. QED BY <1>1, <1>2, PTL DEF Spec, KeepsPromise, Promise!Spec
===============================================================================

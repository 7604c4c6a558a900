----------------------------- MODULE JournalStore -----------------------------
(***************************************************************************)
(* journal.py system call by system call: the directory that holds one     *)
(* install_id's record, the processes that open a session on it, and every *)
(* point where one of them can fail, be killed, or lose power.             *)
(*                                                                         *)
(* A call that changes nothing (reading a record, scanning the directory)  *)
(* is part of the step that acts on what it saw: the flock keeps every     *)
(* other session out in between, and sessions are the only writers.        *)
(***************************************************************************)
EXTENDS JournalRecord, CrashFs

CONSTANTS
  Procs,            \* the processes that may open a session
  Temps,            \* .<name>.tmp.<32 hex>: the names secrets.token_hex can give
  Final,            \* <install_id>.journal.json
  Inodes,           \* files the directory's names can point to
  NoFile, Nobody,   \* no inode, no process
  MaxTransitions    \* _MAX_TRANSITIONS

ASSUME StoreAssumption ==
  /\ Final \notin Temps
  /\ NoFile \notin Inodes
  /\ Nobody \notin Procs
  /\ MaxTransitions \in Nat

VARIABLES
  root,    \* the journal directory: name -> inode, now and on disk
  file,    \* inode -> the record being written to it, how much of it is there
  lock,    \* flock on the directory: its exclusive holder, its shared holders
  call,    \* process -> where it is in its session
  acked    \* history variable: the last record create() or transition() returned,
           \* or the one the last power failure left

vars == <<root, file, lock, call, acked>>

Names == Temps \cup {Final}
Entries == [Names -> Inodes \cup {NoFile}]
Empty == [n \in Names |-> NoFile]

(* The bytes of a file: written is FALSE until the last write() of
   _new_temp (what is there does not decode), synced once fsync returned. *)
Contents == [rec : Records \cup {NoRecord}, written : BOOLEAN, synced : BOOLEAN]

PCs == {"idle", "ready", "reading", "load", "load_sync", "clean", "clean_sync",
        "temp", "write", "fsync", "publish", "link_sync", "unlink",
        "unlink_sync", "replace_sync", "return"}
Calls == {"none", "create", "transition", "load", "cleanup"}

Session ==
  [pc |-> "ready", op |-> "none", want |-> "planned", new |-> NoRecord,
   expect |-> {}, temp |-> Final]
Outside == [Session EXCEPT !.pc = "idle"]

(* Where a process is, the call it is in, the transition it asked for, the
   record it writes, what it accepts as residue, its temporary name. *)
Asked == [plan : Plans, hist : {<<>>}]
Sessions == [pc : PCs, op : Calls, want : States, expect : SUBSET Records, temp : Names,
             new : Records \cup {NoRecord} \cup Asked]

------------------------------------------------------------------------------
(* What a session sees in the directory. *)

RecordIn(entries) ==
  IF entries[Final] = NoFile THEN NoRecord ELSE file[entries[Final]].rec

Published == root.now[Final] # NoFile
FinalRecord == RecordIn(root.now)
Residue == {t \in Temps : root.now[t] # NoFile}

(* st_nlink = 2: _atomic_create linked the record and did not get to unlink
   its temporary name. *)
LinkedTo(t) == root.now[t] # NoFile /\ root.now[t] = root.now[Final]
Linked == \E t \in Temps : LinkedTo(t)

(* _read_at on a temporary name decodes to a record the caller expects. *)
Canonical(t, expected) ==
  /\ file[root.now[t]].written
  /\ file[root.now[t]].rec \in expected

Goto(p, pc) == call' = [call EXCEPT ![p].pc = pc]

(* The call is over: it returned, or it raised, and the session is open. *)
Return(p) == call' = [call EXCEPT ![p] = Session]

Blank == [rec |-> NoRecord, written |-> FALSE, synced |-> FALSE]

(* Files no name leads to any more, now or on disk, are gone. *)
Reclaimed(d, files) ==
  [i \in Inodes |-> IF \E entries \in d.disk, n \in Names : entries[n] = i
                    THEN files[i] ELSE Blank]

SyncRoot == root' = Sync(root) /\ file' = Reclaimed(root', file)
Unlink(t) == root' = Put(root, [root.now EXCEPT ![t] = NoFile])

------------------------------------------------------------------------------
(* JournalStore.locked(): a nonblocking flock.  A busy lock raises
   JournalConflict and changes nothing. *)

Acquire(p) ==
  /\ call[p].pc = "idle"
  /\ lock = [ex |-> Nobody, sh |-> {}]
  /\ lock' = [lock EXCEPT !.ex = p]
  /\ call' = [call EXCEPT ![p] = Session]
  /\ UNCHANGED <<root, file, acked>>

(* Mutant: readers do not look at the writer's lock. *)
AcquireSharedAnyway(p) ==
  /\ call[p].pc = "idle"
  /\ lock' = [lock EXCEPT !.sh = @ \cup {p}]
  /\ Goto(p, "reading")
  /\ UNCHANGED <<root, file, acked>>

AcquireShared(p) ==
  /\ call[p].pc = "idle"
  /\ lock.ex = Nobody
  /\ lock' = [lock EXCEPT !.sh = @ \cup {p}]
  /\ Goto(p, "reading")
  /\ UNCHANGED <<root, file, acked>>

LockWithout(p) ==
  [ex |-> IF lock.ex = p THEN Nobody ELSE lock.ex, sh |-> lock.sh \ {p}]

Release(p) ==
  /\ call[p].pc \in {"ready", "reading"}
  /\ lock' = LockWithout(p)
  /\ call' = [call EXCEPT ![p] = Outside]
  /\ UNCHANGED <<root, file, acked>>

------------------------------------------------------------------------------
(* The calls of an exclusive session. *)

StartCreate(p, plan) ==
  /\ call[p].pc = "ready"
  /\ call' = [call EXCEPT ![p] = [Session EXCEPT
       !.pc = "clean", !.op = "create", !.new = Planned(plan),
       !.expect = {Planned(plan)}]]
  /\ UNCHANGED <<root, file, lock, acked>>

StartTransition(p, plan, st) ==
  /\ call[p].pc = "ready"
  /\ call' = [call EXCEPT ![p] = [Session EXCEPT
       !.pc = "load", !.op = "transition", !.new = Record(plan, <<>>), !.want = st]]
  /\ UNCHANGED <<root, file, lock, acked>>

StartLoad(p) ==
  /\ call[p].pc = "ready"
  /\ call' = [call EXCEPT ![p] = [Session EXCEPT
       !.pc = "load", !.op = "load"]]
  /\ UNCHANGED <<root, file, lock, acked>>

StartCleanup(p, expected) ==
  /\ call[p].pc = "ready"
  /\ call' = [call EXCEPT ![p] = [Session EXCEPT
       !.pc = "clean", !.op = "cleanup", !.expect = expected]]
  /\ UNCHANGED <<root, file, lock, acked>>

------------------------------------------------------------------------------
(* _load_at(recover=True): a record with two names is a create() that was
   interrupted after its link; the temporary name goes first, durably. *)

LoadRecover(p) ==
  /\ call[p].pc = "load"
  /\ \E t \in Residue :
       /\ Residue = {t}
       /\ LinkedTo(t)
       /\ Unlink(t)
  /\ Goto(p, "load_sync")
  /\ UNCHANGED <<file, lock, acked>>

LoadRecoverSync(p) ==
  /\ call[p].pc = "load_sync"
  /\ SyncRoot
  /\ Goto(p, "load")
  /\ UNCHANGED <<lock, acked>>

(* session.load() returns what it read. *)
LoadReturn(p) ==
  /\ call[p].pc = "load"
  /\ call[p].op = "load"
  /\ Published /\ ~Linked
  /\ Return(p)
  /\ UNCHANGED <<root, file, lock, acked>>

(* Mutant: the transition table is not consulted. *)
PermittedAny(p) ==
  /\ FinalRecord.plan = call[p].new.plan
  /\ Len(FinalRecord.hist) < MaxTransitions

(* _assert_exact, _ALLOWED_TRANSITIONS and the bound JournalRecord puts on
   its own length. *)
Permitted(p) ==
  /\ FinalRecord.plan = call[p].new.plan
  /\ call[p].want \in Allowed[StateOf(FinalRecord)]
  /\ Len(FinalRecord.hist) < MaxTransitions

TransitionCheck(p) ==
  /\ call[p].pc = "load"
  /\ call[p].op = "transition"
  /\ Published /\ ~Linked
  /\ Permitted(p)
  /\ LET updated == After(FinalRecord, call[p].want)
     IN call' = [call EXCEPT ![p].pc = "clean", ![p].new = updated,
                             ![p].expect = {FinalRecord, updated}]
  /\ UNCHANGED <<root, file, lock, acked>>

(* No record, or a link that is not the one an interrupted create() leaves. *)
Unloadable ==
  \/ ~Published
  \/ Linked /\ \A t \in Residue : Residue # {t}

LoadFail(p) ==
  /\ call[p].pc = "load"
  /\ Unloadable
  /\ Return(p)
  /\ UNCHANGED <<root, file, lock, acked>>

TransitionReject(p) ==
  /\ call[p].pc = "load"
  /\ call[p].op = "transition"
  /\ Published /\ ~Linked
  /\ ~Permitted(p)
  /\ Return(p)
  /\ UNCHANGED <<root, file, lock, acked>>

------------------------------------------------------------------------------
(* _cleanup_stale_temps(expected). *)

CleanUnlink(p) ==
  /\ call[p].pc = "clean"
  /\ \E t \in Residue :
       /\ Residue = {t}
       /\ Canonical(t, call[p].expect)
       /\ Unlink(t)
  /\ Goto(p, "clean_sync")
  /\ UNCHANGED <<file, lock, acked>>

(* The directory is synced because a name was removed; then the caller of
   _cleanup_stale_temps goes on. *)
AfterClean(p) ==
  IF call[p].op = "cleanup" THEN Return(p) ELSE Goto(p, "temp")

CleanSync(p) ==
  /\ call[p].pc = "clean_sync"
  /\ SyncRoot
  /\ AfterClean(p)
  /\ UNCHANGED <<lock, acked>>

CleanNothing(p) ==
  /\ call[p].pc = "clean"
  /\ Residue = {}
  /\ AfterClean(p)
  /\ UNCHANGED <<root, file, lock, acked>>

(* Mutant: residue that is not recognized is ignored. *)
CleanIgnore(p) ==
  /\ call[p].pc = "clean"
  /\ Residue # {}
  /\ \A t \in Residue : Residue = {t} => ~Canonical(t, call[p].expect)
  /\ AfterClean(p)
  /\ UNCHANGED <<root, file, lock, acked>>

(* Bytes that do not decode raise JournalSecurityError, a record of another
   plan or another step JournalConflict; both leave the name alone. *)
CleanReject(p) ==
  /\ call[p].pc = "clean"
  /\ Residue # {}
  /\ \A t \in Residue : Residue = {t} => ~Canonical(t, call[p].expect)
  /\ Return(p)
  /\ UNCHANGED <<root, file, lock, acked>>

------------------------------------------------------------------------------
(* _new_temp, _atomic_create and _atomic_replace. *)

(* create() looks at the final name only now. *)
CreateConflict(p) ==
  /\ call[p].pc = "temp"
  /\ call[p].op = "create"
  /\ Published
  /\ Return(p)
  /\ UNCHANGED <<root, file, lock, acked>>

(* Mutant: create() does not look whether the name is taken. *)
NewTempUnchecked(p) ==
  /\ call[p].pc = "temp"
  /\ \E t \in Temps, i \in Inodes :
       /\ root.now[t] = NoFile
       /\ \A d \in root.disk, n \in Names : d[n] # i
       /\ root' = Put(root, [root.now EXCEPT ![t] = i])
       /\ file' = [file EXCEPT ![i] =
                     [rec |-> call[p].new, written |-> FALSE, synced |-> FALSE]]
       /\ call' = [call EXCEPT ![p].pc = "write", ![p].temp = t]
  /\ UNCHANGED <<lock, acked>>

NewTemp(p) ==
  /\ call[p].pc = "temp"
  /\ call[p].op = "create" => ~Published
  /\ \E t \in Temps, i \in Inodes :
       /\ root.now[t] = NoFile
       /\ \A d \in root.disk, n \in Names : d[n] # i
       /\ root' = Put(root, [root.now EXCEPT ![t] = i])
       /\ file' = [file EXCEPT ![i] =
                     [rec |-> call[p].new, written |-> FALSE, synced |-> FALSE]]
       /\ call' = [call EXCEPT ![p].pc = "write", ![p].temp = t]
  /\ UNCHANGED <<lock, acked>>

TempInode(p) == root.now[call[p].temp]

WriteTemp(p) ==
  /\ call[p].pc = "write"
  /\ file' = [file EXCEPT ![TempInode(p)].written = TRUE]
  /\ Goto(p, "fsync")
  /\ UNCHANGED <<root, lock, acked>>

FsyncTempForgotten(p) ==  \* mutant
  call[p].pc = "fsync" /\ Goto(p, "publish") /\ UNCHANGED <<root, file, lock, acked>>

FsyncTemp(p) ==
  /\ call[p].pc = "fsync"
  /\ file' = [file EXCEPT ![TempInode(p)].synced = TRUE]
  /\ Goto(p, "publish")
  /\ UNCHANGED <<root, lock, acked>>

LinkFinal(p) ==
  /\ call[p].pc = "publish"
  /\ call[p].op = "create"
  /\ root' = Put(root, [root.now EXCEPT ![Final] = TempInode(p)])
  /\ Goto(p, "link_sync")
  /\ UNCHANGED <<file, lock, acked>>

LinkSync(p) ==
  /\ call[p].pc = "link_sync"
  /\ SyncRoot
  /\ Goto(p, "unlink")
  /\ UNCHANGED <<lock, acked>>

UnlinkTemp(p) ==
  /\ call[p].pc = "unlink"
  /\ Unlink(call[p].temp)
  /\ Goto(p, "unlink_sync")
  /\ UNCHANGED <<file, lock, acked>>

UnlinkSync(p) ==
  /\ call[p].pc = "unlink_sync"
  /\ SyncRoot
  /\ Goto(p, "return")
  /\ UNCHANGED <<lock, acked>>

ReplaceFinal(p) ==
  /\ call[p].pc = "publish"
  /\ call[p].op = "transition"
  /\ root' = Put(root, [root.now EXCEPT ![Final] = TempInode(p),
                                        ![call[p].temp] = NoFile])
  /\ Goto(p, "replace_sync")
  /\ UNCHANGED <<file, lock, acked>>

ReplaceSyncForgotten(p) ==  \* mutant
  call[p].pc = "replace_sync" /\ Goto(p, "return") /\ UNCHANGED <<root, file, lock, acked>>

ReplaceSync(p) ==
  /\ call[p].pc = "replace_sync"
  /\ SyncRoot
  /\ Goto(p, "return")
  /\ UNCHANGED <<lock, acked>>

(* The record is read back and returned: from here on the caller relies on
   it. *)
Acknowledge(p) ==
  /\ call[p].pc = "return"
  /\ Return(p)
  /\ acked' = FinalRecord
  /\ UNCHANGED <<root, file, lock>>

------------------------------------------------------------------------------
(* What goes wrong. *)

(* A system call raises.  The handlers of _new_temp, _atomic_create and
   _atomic_replace unlink the temporary name and do not insist; the session
   stays open. *)
Handled == {"write", "fsync", "publish", "link_sync", "unlink"}
InCall(p) == call[p].pc \notin {"idle", "ready", "reading"}

Fault(p) ==
  /\ InCall(p)
  /\ \/ call[p].pc \in Handled /\ Unlink(call[p].temp)
     \/ UNCHANGED root
  /\ Return(p)
  /\ UNCHANGED <<file, lock, acked>>

(* The process dies; the kernel releases its flock and nothing else happens. *)
Kill(p) ==
  /\ call[p].pc # "idle"
  /\ lock' = LockWithout(p)
  /\ call' = [call EXCEPT ![p] = Outside]
  /\ UNCHANGED <<root, file, acked>>

(* Every process dies, the directory is what had reached the disk, and bytes
   that were never synced may be missing. *)
PowerLoss ==
  /\ root' \in AfterLoss(root)
  /\ \E torn \in SUBSET {i \in Inodes : ~file[i].synced} :
       file' = Reclaimed(root', [i \in Inodes |-> [file[i] EXCEPT !.written = @ /\ i \notin torn]])
  /\ lock' = [ex |-> Nobody, sh |-> {}]
  /\ call' = [p \in Procs |-> Outside]
  /\ acked' = FinalRecord'

------------------------------------------------------------------------------
Init ==
  /\ root = Fresh(Empty)
  /\ file = [i \in Inodes |-> Blank]
  /\ lock = [ex |-> Nobody, sh |-> {}]
  /\ call = [p \in Procs |-> Outside]
  /\ acked = NoRecord

(* The steps of a session once a call has been made. *)
Step(p) ==
  \/ LoadRecover(p) \/ LoadRecoverSync(p) \/ LoadReturn(p)
  \/ LoadFail(p) \/ TransitionCheck(p) \/ TransitionReject(p)
  \/ CleanUnlink(p) \/ CleanSync(p) \/ CleanNothing(p) \/ CleanReject(p)
  \/ CreateConflict(p) \/ NewTemp(p) \/ WriteTemp(p) \/ FsyncTemp(p)
  \/ LinkFinal(p) \/ LinkSync(p) \/ UnlinkTemp(p) \/ UnlinkSync(p)
  \/ ReplaceFinal(p) \/ ReplaceSync(p) \/ Acknowledge(p)

(* What a caller with an exclusive session may ask: cleanup_temps only with
   the current record and its successors, which is how stage05.py calls it. *)
Successors(r) == {r} \cup {After(r, st) : st \in Allowed[StateOf(r)]}

Call(p) ==
  \/ \E plan \in Plans : StartCreate(p, plan)
  \/ \E plan \in Plans, st \in States : StartTransition(p, plan, st)
  \/ StartLoad(p)
  \/ Published /\ StartCleanup(p, Successors(FinalRecord))

Next ==
  \/ \E p \in Procs :
       \/ Acquire(p) \/ AcquireShared(p) \/ Release(p)
       \/ Call(p) \/ Step(p)
       \/ Fault(p) \/ Kill(p)
  \/ PowerLoss

Spec == Init /\ [][Next]_vars

------------------------------------------------------------------------------
(* Properties. *)

TypeOK ==
  /\ root \in DirOf(Entries)
  /\ file \in [Inodes -> Contents]
  /\ lock \in [ex : Procs \cup {Nobody}, sh : SUBSET Procs]
  /\ call \in [Procs -> Sessions]
  /\ acked \in Records \cup {NoRecord}

(* A session that may write excludes every other session, readers included,
   whoever was killed before it: all of journal.py's reads rely on it. *)
OneWriter ==
  \A p \in Procs :
    /\ call[p].pc \notin {"idle", "reading"} <=> lock.ex = p
    /\ call[p].pc = "reading" <=> p \in lock.sh
    /\ lock.ex = p => lock.sh = {}

(* The record a power failure would leave carries every transition that
   create() or transition() has returned: "the journal durably records". *)
AckedIsDurable ==
  \A entries \in root.disk : Extends(RecordIn(entries), acked)

(* The published name never leads to a torn file, whatever had reached the
   disk: _new_temp syncs the bytes before the name can be seen. *)
PublishedIsWhole ==
  \A entries \in root.disk :
    entries[Final] # NoFile => file[entries[Final]].written /\ file[entries[Final]].synced

(* What an interruption leaves beside the record is one temporary name, and
   unless its bytes are torn it is the plan's first record, not yet published
   or still linked to it, or an allowed successor of the published record:
   the residue _inspect_residue_at and _prepare_existing_record accept. *)
ResidueIsCanonical ==
  \A entries \in root.disk : \A t \in Temps :
    entries[t] # NoFile =>
      /\ \A u \in Temps \ {t} : entries[u] = NoFile
      /\ LET residue == file[entries[t]].rec
             record == RecordIn(entries)
         IN IF record = NoRecord \/ entries[t] = entries[Final]
            THEN /\ residue = Planned(residue.plan)
                 /\ record \in {NoRecord, residue}
            ELSE \E st \in Allowed[StateOf(record)] : residue = After(record, st)

(* The inductive invariant behind AckedIsDurable and PublishedIsWhole. *)

(* Whatever had reached the disk: its names lead to records, its published
   name to a whole one that carries what was acknowledged. *)
DiskOK ==
  /\ root.now \in root.disk
  /\ \A entries \in root.disk : \A n \in Names :
       entries[n] # NoFile => file[entries[n]].rec \in Records
  /\ PublishedIsWhole
  /\ AckedIsDurable

(* Between the check of a transition and its rename the record it replaces
   stays published, and create() links only a name that is free. *)
Pending(p) ==
  /\ call[p].op \in {"create", "transition"}
  /\ call[p].new \in Records
  /\ call[p].op = "transition" => Published /\ Extends(call[p].new, FinalRecord)

(* The temporary file of a writer holds its record and is never the published
   one, whatever had reached the disk. *)
Writing(p) ==
  /\ Pending(p)
  /\ call[p].op = "create" => ~Published
  /\ TempInode(p) # NoFile
  /\ file[TempInode(p)].rec = call[p].new
  /\ \A entries \in root.disk : entries[Final] # TempInode(p)

CallOK(p) ==
  /\ call[p].pc \in {"clean", "clean_sync"} => Pending(p) \/ call[p].op = "cleanup"
  /\ call[p].pc = "temp" => Pending(p)
  /\ call[p].pc \in Handled => call[p].temp \in Temps
  /\ call[p].pc \in {"write", "fsync", "publish"} => Writing(p)
  /\ call[p].pc \in {"fsync", "publish"} => file[TempInode(p)].written
  /\ call[p].pc = "publish" => file[TempInode(p)].synced
  /\ call[p].pc = "return" => root.disk = {root.now}

IInv == TypeOK /\ OneWriter /\ DiskOK /\ \A p \in Procs : CallOK(p)

(* A temporary file that does not decode and that nobody is writing. *)
Torn ==
  \E t \in Residue :
    /\ ~file[root.now[t]].written
    /\ \A p \in Procs : ~(call[p].pc = "write" /\ call[p].temp = t)

(* The directory, read through its published name, implements the promise of
   module Journal. *)
Promise == INSTANCE Journal WITH rec <- FinalRecord, floor <- acked, blocked <- Torn
KeepsPromise == Promise!Spec
===============================================================================

---------------------------- MODULE ApiKeysProofs ----------------------------
(***************************************************************************)
(* What the metadata of an API key says is true, whatever fails; and while *)
(* a host does not both lose power and see commands killed or calls fail,  *)
(* no live key is unrecorded and no active one is lost.                    *)
(*                                                                         *)
(* The argument has two parts.  IInv relates the metadata, the key file    *)
(* and the control plane to the step the one command under the lock is at. *)
(* SafeInv adds what a power failure would leave of the two files.         *)
(***************************************************************************)
EXTENDS ApiKeysOperator, FiniteSetTheorems, TLAPS

Sessions == [pc : PCs, name : Names \cup {NoName}, id : Ids \cup {NoId}, delete : BOOLEAN]

(* One command at a time, and it holds the lock. *)
LockOK == \A p \in Procs : IF lock = p THEN run[p].pc # "idle" ELSE run[p] = Idle

Final(d) == d.state \in {"active", "revoked"}

(* The two files and the control plane, whoever is at work: one name and one id. *)
FilesOK ==
  /\ meta.now \in meta.disk /\ key.now \in key.disk
  /\ \A d \in meta.disk : d # NoDoc => d.name = meta.now.name
  /\ \A d \in meta.disk : Final(d) => Final(meta.now) /\ d.id = meta.now.id
  /\ \A k \in key.disk : k # NoKey =>
       /\ Final(meta.now) => k.id = meta.now.id
       /\ key.now # NoKey => k.id = key.now.id
       /\ ~Final(meta.now) => key.now # NoKey
       /\ meta.now # NoDoc /\ IsLive(k.id) => remote[k.id] = meta.now.name
  /\ RevokedIsGone

Creating == {"intent_unlink", "intent_sync", "orphan", "list", "post", "check", "key_link",
             "key_unlink", "key_sync", "complete", "withdraw"}
Bound == {"orphan", "check", "key_link", "key_unlink", "key_sync", "complete", "complete_sync",
          "withdraw", "revoke_sent", "mark", "mark_sync", "remote_revoke"}

(* What the command knows of them, where it is. *)
KnowsAt(pc, name, id) ==
  /\ pc = "intent_link" => meta.now = NoDoc /\ key.now = NoKey /\ name \in Names
  /\ pc \in Creating => meta.now.state = "creating" /\ meta.now.name = name
  /\ pc = "find" => meta.now # NoDoc /\ meta.now.name = name
  /\ pc \in {"intent_unlink", "intent_sync", "orphan", "list", "post", "key_link"} => key.now = NoKey
  /\ pc \in Bound => id \in Ids
  /\ pc = "check" => key.now # NoKey /\ (IsLive(key.now.id) => key.now.id = id)
  /\ pc = "key_link" => (IsLive(id) => remote[id] = name)
  /\ pc \in {"key_unlink", "key_sync"} => key.now # NoKey /\ key.now.id = id
  /\ pc = "key_sync" => ~key.now.linked
  /\ pc = "complete" => key.now = KeyFile(id, FALSE)
  /\ pc = "complete_sync" => meta.now.state = "active"
  /\ pc \in {"revoke_sent", "mark"} => meta.now.state = "active" /\ meta.now.id = id
  /\ pc = "mark" => ~IsLive(id)
  /\ pc \in {"mark_sync", "delete", "delete_sync"} => meta.now.state = "revoked"
  /\ pc = "delete_sync" => key.now = NoKey

Informed == \A p \in Procs : KnowsAt(run[p].pc, run[p].name, run[p].id)

IInv == TypeOK /\ LockOK /\ FilesOK /\ Informed

(* The second part. *)
OneKind == "power" \in faults => faults \cap {"kill", "error"} = {}

SettledAt(pc) ==
  /\ pc \notin {"intent_unlink", "intent_sync", "complete_sync", "mark_sync"} => meta.disk = {meta.now}
  /\ pc \notin {"key_unlink", "key_sync", "delete_sync"} => key.disk = {key.now}

Settled ==
  "power" \in faults =>
    /\ \A p \in Procs : run[p].pc # "idle" => SettledAt(run[p].pc)
    /\ lock = Nobody => SettledAt("idle")

(* The request of a create() that gave up names what the metadata names. *)
LateIsRecorded == \A q \in late : q.kind = "post" => \A d \in Left(meta) : d.name = q.of

SafeInv == OneKind /\ Settled /\ LateIsRecorded /\ EveryLiveKeyIsRecorded /\ LiveKeyIsNotLost

------------------------------------------------------------------------------
(* Lemmas about the model's operators. *)

KeyFiles == [id : Ids, linked : BOOLEAN] \cup {NoKey}

DataOK ==
  /\ meta \in DirOf(Docs) /\ key \in DirOf(KeyFiles)
  /\ remote \in [Ids -> Names \cup {"unborn", "gone"}]
  /\ late \subseteq Requests

LEMMA DocIs ==
  /\ \A name \in Names, linked \in BOOLEAN :
       /\ Doc("creating", name, NoId, linked) \in Docs
       /\ \A id \in Ids : Doc("active", name, id, FALSE) \in Docs
  /\ \A state, name, id, linked :
       /\ Doc(state, name, id, linked).state = state /\ Doc(state, name, id, linked).name = name
       /\ Doc(state, name, id, linked).id = id /\ Doc(state, name, id, linked).linked = linked
<1>1. \A name \in Names, linked \in BOOLEAN :
        /\ Doc("creating", name, NoId, linked) \in Docs
        /\ \A id \in Ids : Doc("active", name, id, FALSE) \in Docs
  BY DEF Docs, Doc
<1>2. QED BY <1>1 DEF Doc

LEMMA DocFacts ==
  /\ NoDoc \in Docs /\ NoDoc.state = "none" /\ NoDoc.name = NoName /\ NoDoc.id = NoId
  /\ NoDoc.linked = FALSE
  /\ \A d \in Docs :
       /\ d # NoDoc => d.name \in Names /\ d.state \in {"creating", "active", "revoked"}
       /\ Final(d) => d.id \in Ids /\ d.linked = FALSE /\ d # NoDoc
       /\ d.linked \in BOOLEAN
       /\ d.state = "creating" => d.id = NoId /\ d # NoDoc
<1>1. /\ NoDoc \in Docs /\ NoDoc.state = "none" /\ NoDoc.name = NoName /\ NoDoc.id = NoId
      /\ NoDoc.linked = FALSE
  BY DEF Docs, Doc, NoDoc
<1>2. ASSUME NEW d \in Docs
      PROVE  \/ d = NoDoc
             \/ /\ d.state = "creating" /\ d.name \in Names /\ d.id = NoId /\ d.linked \in BOOLEAN
                /\ d # NoDoc
             \/ /\ d.state \in {"active", "revoked"} /\ d.name \in Names /\ d.id \in Ids
                /\ d.linked = FALSE /\ d # NoDoc
  BY <1>1 DEF Docs
<1>3. QED BY <1>1, <1>2 DEF Final

LEMMA KeyFacts ==
  /\ NoKey \in KeyFiles /\ NoKey.id = NoId /\ NoKey.linked = FALSE
  /\ \A k \in KeyFiles : k # NoKey => k.id \in Ids /\ k.linked \in BOOLEAN /\ k = KeyFile(k.id, k.linked)
  /\ \A id \in Ids, linked \in BOOLEAN :
       /\ KeyFile(id, linked) \in KeyFiles /\ KeyFile(id, linked) # NoKey
       /\ KeyFile(id, linked).id = id /\ KeyFile(id, linked).linked = linked
BY ApiKeysAssumption DEF KeyFiles, KeyFile, NoKey

(* The documents that a command writes, and what it writes over. *)
LEMMA NewDocs ==
  /\ \A name \in Names :
       /\ Doc("creating", name, NoId, TRUE) \in Docs
       /\ Doc("creating", name, NoId, TRUE).state = "creating"
       /\ Doc("creating", name, NoId, TRUE).name = name
  /\ \A name \in Names, id \in Ids :
       /\ Doc("active", name, id, FALSE) \in Docs /\ Doc("active", name, id, FALSE).state = "active"
       /\ Doc("active", name, id, FALSE).name = name /\ Doc("active", name, id, FALSE).id = id
  /\ \A d \in Docs : d.state = "creating" =>
       /\ [d EXCEPT !.linked = FALSE] \in Docs /\ [d EXCEPT !.linked = FALSE].state = "creating"
       /\ [d EXCEPT !.linked = FALSE].name = d.name
  /\ \A d \in Docs : d.state = "active" =>
       /\ [d EXCEPT !.state = "revoked"] \in Docs /\ [d EXCEPT !.state = "revoked"].state = "revoked"
       /\ [d EXCEPT !.state = "revoked"].name = d.name /\ [d EXCEPT !.state = "revoked"].id = d.id
<1>1. ASSUME NEW name \in Names
      PROVE  /\ Doc("creating", name, NoId, TRUE) \in Docs
             /\ Doc("creating", name, NoId, TRUE).state = "creating"
             /\ Doc("creating", name, NoId, TRUE).name = name
  BY DEF Docs, Doc
<1>2. ASSUME NEW name \in Names, NEW id \in Ids
      PROVE  /\ Doc("active", name, id, FALSE) \in Docs /\ Doc("active", name, id, FALSE).state = "active"
             /\ Doc("active", name, id, FALSE).name = name /\ Doc("active", name, id, FALSE).id = id
  BY DEF Docs, Doc
<1>3. ASSUME NEW d \in Docs, d.state = "creating"
      PROVE  /\ [d EXCEPT !.linked = FALSE] \in Docs /\ [d EXCEPT !.linked = FALSE].state = "creating"
             /\ [d EXCEPT !.linked = FALSE].name = d.name
  <2>1. d \in [state : {"creating"}, name : Names, id : {NoId}, linked : BOOLEAN]
    BY <1>3, DocFacts DEF Docs
  <2>2. QED BY <2>1 DEF Docs
<1>4. ASSUME NEW d \in Docs, d.state = "active"
      PROVE  /\ [d EXCEPT !.state = "revoked"] \in Docs /\ [d EXCEPT !.state = "revoked"].state = "revoked"
             /\ [d EXCEPT !.state = "revoked"].name = d.name
             /\ [d EXCEPT !.state = "revoked"].id = d.id
  <2>1. d \in [state : {"active", "revoked"}, name : Names, id : Ids, linked : {FALSE}]
    BY <1>4, DocFacts DEF Docs
  <2>2. QED BY <2>1 DEF Docs
<1>5. QED BY <1>1, <1>2, <1>3, <1>4

(* Its temporary name removed, a key file is the same key file. *)
LEMMA NewKeys ==
  \A k \in KeyFiles : k # NoKey => [k EXCEPT !.linked = FALSE] = KeyFile(k.id, FALSE)
<1>1. SUFFICES ASSUME NEW k \in KeyFiles, k # NoKey
               PROVE  [k EXCEPT !.linked = FALSE] = KeyFile(k.id, FALSE)
  OBVIOUS
<1>2. k \in [id : Ids, linked : BOOLEAN]
  BY <1>1 DEF KeyFiles
<1> DEFINE new == [k EXCEPT !.linked = FALSE]
<1>3. new \in [id : Ids, linked : BOOLEAN] /\ new.id = k.id /\ new.linked = FALSE
  BY <1>2
<1> HIDE DEF new
<1>4. new = [id |-> new.id, linked |-> new.linked]
  BY <1>3
<1>5. QED BY <1>3, <1>4 DEF KeyFile, new

LEMMA DirFacts ==
  ASSUME NEW V, NEW d \in DirOf(V)
  PROVE  /\ d.now \in V /\ \A v \in d.disk : v \in V
         /\ Sync(d) \in DirOf(V) /\ Sync(d).now = d.now /\ Sync(d).disk = {d.now}
         /\ \A v \in V : Put(d, v) \in DirOf(V) /\ Put(d, v).now = v /\ Put(d, v).disk = d.disk \cup {v}
         /\ \A e \in AfterLoss(d) : e \in DirOf(V) /\ e.now \in d.disk /\ e.disk = {e.now}
BY DEF DirOf, Put, Sync, Fresh, AfterLoss

LEMMA Facts ==
  ASSUME IInv
  PROVE  /\ DataOK /\ run \in [Procs -> Sessions] /\ lock \in Procs \cup {Nobody}
         /\ \A p \in Procs : run[p] \in Sessions /\ (lock = p <=> run[p].pc # "idle")
         /\ \A p \in Procs : lock # p => run[p] = Idle
         /\ meta.now \in Docs /\ key.now \in KeyFiles
         /\ \A d \in meta.disk : d \in Docs
         /\ \A k \in key.disk : k \in KeyFiles
<1>1. DataOK
  BY DEF IInv, TypeOK, DataOK, KeyFiles
<1>2. run \in [Procs -> Sessions] /\ lock \in Procs \cup {Nobody}
  BY DEF IInv, TypeOK, Sessions
<1>3. \A p \in Procs : (lock = p <=> run[p].pc # "idle") /\ (lock # p => run[p] = Idle)
  <2>1. Idle.pc = "idle"
    BY DEF Idle
  <2>2. QED BY <2>1 DEF IInv, LockOK
<1>4. /\ meta.now \in Docs /\ key.now \in KeyFiles
      /\ \A d \in meta.disk : d \in Docs
      /\ \A k \in key.disk : k \in KeyFiles
  BY <1>1, DirFacts DEF DataOK
<1>5. QED BY <1>1, <1>2, <1>3, <1>4

(* Who is idle knows nothing. *)
LEMMA IdleKnows ==
  /\ Idle \in Sessions /\ Idle.pc = "idle"
  /\ KnowsAt(Idle.pc, Idle.name, Idle.id) /\ KnowsAt(Idle.pc, Idle.name, Idle.id)'
BY DEF KnowsAt, Idle, Sessions, PCs, Requesting, Creating, Bound

(* The command goes on. *)
LEMMA GoesOn ==
  ASSUME IInv, DataOK', FilesOK', UNCHANGED <<lock, faults>>, NEW p \in Procs, run[p].pc # "idle",
         NEW pc \in PCs \ {"idle"}, NEW name \in Names \cup {NoName}, NEW id \in Ids \cup {NoId},
         \/ run' = [run EXCEPT ![p].pc = pc] /\ name = run[p].name /\ id = run[p].id
         \/ run' = [run EXCEPT ![p].pc = pc, ![p].name = name] /\ id = run[p].id
         \/ run' = [run EXCEPT ![p].pc = pc, ![p].id = id] /\ name = run[p].name,
         KnowsAt(pc, name, id)'
  PROVE  IInv'
<1>1. /\ run \in [Procs -> Sessions] /\ lock \in Procs \cup {Nobody} /\ run[p] \in Sessions
      /\ lock = p /\ \A q \in Procs \ {p} : run[q] = Idle
  BY Facts
<1> DEFINE r == [pc |-> pc, name |-> name, id |-> id, delete |-> run[p].delete]
<1>2. r \in Sessions /\ r.pc = pc /\ r.name = name /\ r.id = id
  BY <1>1 DEF Sessions
<1>3. run' = [run EXCEPT ![p] = r]
  BY <1>1 DEF Sessions
<1> HIDE DEF r
<1>4. run' \in [Procs -> Sessions] /\ run'[p] = r /\ \A q \in Procs \ {p} : run'[q] = run[q]
  BY <1>1, <1>2, <1>3
<1>5. TypeOK'
  BY <1>1, <1>4 DEF IInv, TypeOK, DataOK, KeyFiles, Sessions
<1>6. LockOK'
  BY <1>1, <1>2, <1>4 DEF LockOK
<1>7. Informed'
  BY <1>1, <1>2, <1>4, IdleKnows DEF Informed
<1>8. QED BY <1>5, <1>6, <1>7 DEF IInv

(* The command ends. *)
LEMMA Ends ==
  ASSUME IInv, DataOK', FilesOK', UNCHANGED faults, NEW p \in Procs, run[p].pc # "idle", Leave(p)
  PROVE  IInv'
<1>1. /\ run \in [Procs -> Sessions] /\ lock = p /\ \A q \in Procs \ {p} : run[q] = Idle
  BY Facts
<1>2. run' \in [Procs -> Sessions] /\ lock' = Nobody /\ \A q \in Procs : run'[q] = Idle
  BY <1>1, IdleKnows DEF Leave
<1>3. TypeOK'
  BY <1>2 DEF IInv, TypeOK, DataOK, KeyFiles, Sessions
<1>4. LockOK'
  BY <1>2, ApiKeysAssumption DEF LockOK
<1>5. Informed'
  BY <1>2, IdleKnows DEF Informed
<1>6. QED BY <1>3, <1>4, <1>5 DEF IInv

(* Nothing changes but where the command is. *)
LEMMA SameFiles ==
  ASSUME IInv, UNCHANGED <<files, remote>>, late' \subseteq Requests
  PROVE  /\ DataOK' /\ FilesOK'
         /\ \A pc, name, id : KnowsAt(pc, name, id)' <=> KnowsAt(pc, name, id)
<1>1. DataOK /\ FilesOK
  BY Facts DEF IInv
<1>2. QED BY <1>1 DEF files, DataOK, FilesOK, RevokedIsGone, IsLive, KnowsAt

(* The control plane deletes a key, or makes one that nothing refers to. *)
LEMMA RemoteStep ==
  ASSUME IInv, UNCHANGED files, remote' \in [Ids -> Names \cup {"unborn", "gone"}],
         late' \subseteq Requests,
         \A id \in Ids : remote'[id] \in Names => remote'[id] = remote[id] \/ FreeId(id)
  PROVE  /\ DataOK' /\ FilesOK'
         /\ \A p \in Procs : \A pc, name, id :
              name = run[p].name /\ id = run[p].id /\ KnowsAt(pc, name, id) => KnowsAt(pc, name, id)'
<1>1. DataOK /\ FilesOK
  BY Facts DEF IInv
<1>2. \A id : IsLive(id)' => (IsLive(id) /\ remote'[id] = remote[id]) \/ FreeId(id)
  BY DEF IsLive
<1>3. \A d \in meta.disk : ~FreeId(d.id)
  BY DEF FreeId
<1>4. \A k \in key.disk : ~FreeId(k.id)
  BY DEF FreeId
<1>5. ~FreeId(key.now.id) /\ \A p \in Procs : ~FreeId(run[p].id)
  BY DEF FreeId
<1>6. FilesOK'
  <2>1. RevokedIsGone'
    BY <1>1, <1>2, <1>3 DEF FilesOK, RevokedIsGone, files
  <2>2. ASSUME NEW k \in key.disk, k # NoKey, meta.now # NoDoc, IsLive(k.id)'
        PROVE  remote'[k.id] = meta.now.name
    BY <1>1, <1>2, <1>4, <2>2 DEF FilesOK
  <2>3. QED BY <1>1, <2>1, <2>2 DEF FilesOK, files
<1>7. DataOK'
  <2>1. meta' = meta /\ key' = key
    BY DEF files
  <2>2. QED BY <1>1, <2>1 DEF DataOK
<1>8. ASSUME NEW p \in Procs, NEW pc, NEW name, NEW id, name = run[p].name, id = run[p].id,
             KnowsAt(pc, name, id)
      PROVE  KnowsAt(pc, name, id)'
  <2>1. meta' = meta /\ key' = key
    BY DEF files
  <2>2. IsLive(id)' => IsLive(id) /\ remote'[id] = remote[id]
    BY <1>2, <1>5, <1>8
  <2>3. IsLive(key.now.id)' => IsLive(key.now.id)
    BY <1>2, <1>5, <2>1
  <2>4. QED BY <1>8, <2>1, <2>2, <2>3 DEF KnowsAt
<1>9. QED BY <1>6, <1>7, <1>8


(* What the invariant says of the command at work. *)
LEMMA Here ==
  ASSUME IInv, NEW p \in Procs, run[p].pc # "idle"
  PROVE  /\ FilesOK /\ DataOK /\ KnowsAt(run[p].pc, run[p].name, run[p].id)
         /\ run[p].pc \in PCs /\ run[p].name \in Names \cup {NoName} /\ run[p].id \in Ids \cup {NoId}
         /\ run[p].delete \in BOOLEAN
         /\ meta.now \in Docs /\ key.now \in KeyFiles /\ meta.now \in meta.disk /\ key.now \in key.disk
BY Facts DEF IInv, Informed, Sessions, FilesOK

------------------------------------------------------------------------------
(* The steps of a command that change neither the files nor the control plane. *)

LEMMA StaysSame ==
  ASSUME IInv, NEW p \in Procs, UNCHANGED <<files, server, lock, faults>>, run[p].pc # "idle",
         NEW pc \in PCs \ {"idle"}, NEW name \in Names \cup {NoName}, NEW id \in Ids \cup {NoId},
         \/ run' = [run EXCEPT ![p].pc = pc] /\ name = run[p].name /\ id = run[p].id
         \/ run' = [run EXCEPT ![p].pc = pc, ![p].name = name] /\ id = run[p].id
         \/ run' = [run EXCEPT ![p].pc = pc, ![p].id = id] /\ name = run[p].name,
         KnowsAt(pc, name, id)
  PROVE  IInv'
<1>1. late' \subseteq Requests /\ remote' = remote
  BY Facts DEF DataOK, server
<1>2. DataOK' /\ FilesOK' /\ KnowsAt(pc, name, id)'
  BY <1>1, SameFiles
<1>3. QED BY <1>2, GoesOn

LEMMA ReturnPreserves ==
  ASSUME IInv, NEW p \in Procs, UNCHANGED faults, run[p].pc # "idle", Return(p)
  PROVE  IInv'
<1>1. Leave(p) /\ UNCHANGED <<files, remote>> /\ late' \subseteq Requests
  BY Facts DEF Return, DataOK, server
<1>2. QED BY <1>1, SameFiles, Ends

(* A command begins: it knows nothing yet, but the id revoke was given. *)
LEMMA BeginPreserves ==
  ASSUME IInv, NEW p \in Procs, UNCHANGED faults, Start(p)
  PROVE  IInv'
<1>1. PICK pc \in {"create", "revoke", "remote_revoke"}, id \in Ids \cup {NoId}, delete \in BOOLEAN :
        Enter(p, pc, id, delete) /\ (pc = "remote_revoke" => id \in Ids)
  BY DEF Start, BeginCreate, BeginRevoke, BeginRemoteRevoke, IsLive
<1> DEFINE r == [pc |-> pc, name |-> NoName, id |-> id, delete |-> delete]
<1>2. r \in Sessions /\ r.pc = pc /\ r.name = NoName /\ r.id = id
  BY DEF Sessions, PCs, Requesting
<1>3. run' = [run EXCEPT ![p] = r] /\ lock = Nobody /\ lock' = p /\ UNCHANGED <<files, server, faults>>
  BY <1>1 DEF Enter
<1> HIDE DEF r
<1>4. /\ run' \in [Procs -> Sessions] /\ run'[p] = r
      /\ \A q \in Procs \ {p} : run'[q] = Idle
  BY <1>2, <1>3, Facts, ApiKeysAssumption
<1>5. DataOK' /\ FilesOK' /\ (KnowsAt(pc, NoName, id)' <=> KnowsAt(pc, NoName, id))
  <2>1. late' \subseteq Requests /\ UNCHANGED <<files, remote>>
    BY <1>3, Facts DEF DataOK, server
  <2>2. QED BY <2>1, SameFiles
<1>6. KnowsAt(pc, NoName, id)
  BY <1>1 DEF KnowsAt, Creating, Bound
<1>7. TypeOK'
  BY <1>3, <1>4, <1>5 DEF IInv, TypeOK, DataOK, KeyFiles, Sessions
<1>8. LockOK'
  BY <1>2, <1>3, <1>4 DEF LockOK
<1>9. Informed'
  BY <1>2, <1>4, <1>5, <1>6, IdleKnows DEF Informed
<1>10. QED BY <1>5, <1>7, <1>8, <1>9 DEF IInv

(* Where a name has one live key, and the key file's is live, it is that one. *)
LEMMA UniqueIs ==
  ASSUME NEW name, NEW id \in Unique(Live(name))
  PROVE  id \in Ids /\ Live(name) = {id}
<1>1. IsFiniteSet(Live(name))
  BY FS_Subset, ApiKeysAssumption DEF Live
<1>2. Cardinality(Live(name)) = 1 /\ id \in Live(name)
  BY DEF Unique
<1>3. PICK x : Live(name) = {x}
  BY <1>1, <1>2, FS_Singleton
<1>4. QED BY <1>2, <1>3 DEF Live

LEMMA DecidePreserves ==
  ASSUME IInv, NEW p \in Procs, UNCHANGED faults,
         \/ NewIntent(p) \/ Resume(p) \/ FoundPublished(p) \/ FoundOrphan(p) \/ FoundNothing(p)
         \/ CheckKey(p) \/ ListClear(p) \/ RevokeStart(p) \/ RevokedAlready(p)
  PROVE  IInv'
<1>1. /\ run[p].pc \in {"create", "find", "check", "list", "revoke"}
      /\ UNCHANGED <<files, server, lock>>
  BY DEF NewIntent, Resume, FoundPublished, FoundOrphan, FoundNothing, Found, CheckKey, ListClear,
         RevokeStart, RevokedAlready, At
<1> PICK name, id : name = run[p].name /\ id = run[p].id
  OBVIOUS
<1>2. /\ FilesOK /\ KnowsAt(run[p].pc, name, id) /\ name \in Names \cup {NoName} /\ id \in Ids \cup {NoId}
      /\ meta.now \in Docs /\ key.now \in KeyFiles /\ meta.now \in meta.disk /\ key.now \in key.disk
  BY <1>1, Here
<1>3. meta.now.state = "creating" => meta.now # NoDoc /\ meta.now.name \in Names
  BY <1>2, DocFacts
<1> USE DEF Creating, Bound
<1>4. CASE NewIntent(p)
  <2>1. /\ run[p].pc = "create" /\ meta.now = NoDoc /\ key.now = NoKey
        /\ \E n \in Names : run' = [run EXCEPT ![p].pc = "intent_link", ![p].name = n]
    BY <1>4 DEF NewIntent, At
  <2>2. PICK n \in Names : run' = [run EXCEPT ![p].pc = "intent_link", ![p].name = n]
    BY <2>1
  <2>3. KnowsAt("intent_link", n, id)
    BY <2>1 DEF KnowsAt
  <2>4. QED BY <1>1, <1>2, <2>2, <2>3, StaysSame DEF PCs
<1>5. CASE Resume(p)
  <2>1. /\ meta.now # NoDoc
        /\ run' = [run EXCEPT ![p].pc = "find", ![p].name = meta.now.name]
    BY <1>5 DEF Resume
  <2>2. PICK n \in Names : n = meta.now.name
    BY <1>2, <2>1, DocFacts
  <2>3. KnowsAt("find", n, id)
    BY <2>1, <2>2 DEF KnowsAt
  <2>4. QED BY <1>1, <1>2, <2>1, <2>2, <2>3, StaysSame DEF PCs
<1>6. CASE FoundPublished(p)
  <2>1. /\ run[p].pc = "find" /\ meta.now.state = "creating" /\ key.now # NoKey
        /\ \E i \in Unique(Live(name)) : run' = [run EXCEPT ![p].pc = "check", ![p].id = i]
    BY <1>6 DEF FoundPublished, Found, At
  <2>2. PICK i \in Unique(Live(name)) : run' = [run EXCEPT ![p].pc = "check", ![p].id = i]
    BY <2>1
  <2>3. i \in Ids /\ Live(name) = {i}
    BY <2>2, UniqueIs
  <2>4. meta.now.name = name
    BY <1>2, <2>1 DEF KnowsAt
  <2>5. IsLive(key.now.id) => key.now.id = i
    <3>1. IsLive(key.now.id) => key.now.id \in Live(name)
      BY <1>2, <1>3, <2>1, <2>4 DEF FilesOK, IsLive, Live
    <3>2. QED BY <2>3, <3>1
  <2>6. KnowsAt("check", name, i)
    BY <2>1, <2>3, <2>4, <2>5 DEF KnowsAt
  <2>7. QED BY <1>1, <1>2, <2>2, <2>3, <2>6, StaysSame DEF PCs
<1>7. CASE FoundOrphan(p)
  <2>1. /\ run[p].pc = "find" /\ meta.now.state = "creating" /\ key.now = NoKey
        /\ \E i \in Unique(Live(name)) : run' = [run EXCEPT ![p].pc = "orphan", ![p].id = i]
    BY <1>7 DEF FoundOrphan, Found, At
  <2>2. PICK i \in Unique(Live(name)) : run' = [run EXCEPT ![p].pc = "orphan", ![p].id = i]
    BY <2>1
  <2>3. i \in Ids
    BY <2>2, UniqueIs
  <2>4. KnowsAt("orphan", name, i)
    BY <1>2, <2>1, <2>3 DEF KnowsAt
  <2>5. QED BY <1>1, <1>2, <2>2, <2>3, <2>4, StaysSame DEF PCs, Requesting
<1>8. CASE FoundNothing(p)
  <2>1. /\ run[p].pc = "find" /\ meta.now.state = "creating" /\ key.now = NoKey
        /\ run' = [run EXCEPT ![p].pc = "list", ![p].id = NoId]
    BY <1>8 DEF FoundNothing, Found, At
  <2>2. KnowsAt("list", name, NoId)
    BY <1>2, <2>1 DEF KnowsAt
  <2>3. QED BY <1>1, <1>2, <2>1, <2>2, StaysSame DEF PCs
<1>9. CASE CheckKey(p)
  <2>1. run[p].pc = "check" /\ Verified /\ Goto(p, "complete")
    BY <1>9 DEF CheckKey, At
  <2>2. /\ meta.now.state = "creating" /\ meta.now.name = name /\ id \in Ids /\ key.now # NoKey
        /\ key.now.id = id
    BY <1>2, <2>1 DEF KnowsAt, Verified
  <2>3. key.now = KeyFile(id, FALSE)
    BY <1>2, <2>1, <2>2, KeyFacts DEF Verified
  <2>4. KnowsAt("complete", name, id)
    BY <2>2, <2>3 DEF KnowsAt
  <2>5. QED BY <1>1, <1>2, <2>1, <2>4, StaysSame DEF PCs, Goto
<1>10. CASE ListClear(p)
  <2>1. run[p].pc = "list" /\ Goto(p, "post")
    BY <1>10 DEF ListClear, At
  <2>2. KnowsAt("post", name, id)
    BY <1>2, <2>1 DEF KnowsAt
  <2>3. QED BY <1>1, <1>2, <2>1, <2>2, StaysSame DEF PCs, Requesting, Goto
<1>11. CASE RevokeStart(p)
  <2>1. /\ meta.now.state = "active"
        /\ run' = [run EXCEPT ![p].pc = "revoke_sent", ![p].id = meta.now.id]
    BY <1>11 DEF RevokeStart
  <2>2. PICK i \in Ids : i = meta.now.id
    BY <1>2, <2>1, DocFacts DEF Final
  <2>3. KnowsAt("revoke_sent", name, i)
    BY <2>1, <2>2 DEF KnowsAt
  <2>4. QED BY <1>1, <1>2, <2>1, <2>2, <2>3, StaysSame DEF PCs, Requesting
<1>12. CASE RevokedAlready(p)
  <2>1. meta.now.state = "revoked" /\ Goto(p, "delete")
    BY <1>12 DEF RevokedAlready
  <2>2. KnowsAt("delete", name, id)
    BY <2>1 DEF KnowsAt
  <2>3. QED BY <1>1, <1>2, <2>1, <2>2, StaysSame DEF PCs, Goto
<1>13. QED BY <1>4, <1>5, <1>6, <1>7, <1>8, <1>9, <1>10, <1>11, <1>12

------------------------------------------------------------------------------
(* The steps that ask something of the control plane. *)

LEMMA DeleteIs ==
  ASSUME remote \in [Ids -> Names \cup {"unborn", "gone"}], NEW id \in Ids, Delete(id)
  PROVE  /\ remote' \in [Ids -> Names \cup {"unborn", "gone"}]
         /\ \A x \in Ids : remote'[x] \in Names => remote'[x] = remote[x]
         /\ remote'[id] \notin Names
BY ApiKeysAssumption DEF Delete

LEMMA RemotePreserves ==
  ASSUME IInv, NEW p \in Procs, UNCHANGED faults,
         RevokeOrphan(p) \/ Post(p) \/ Withdraw(p) \/ Revoke(p) \/ RemoteRevoke(p)
  PROVE  IInv'
<1>1. /\ run[p].pc \in {"orphan", "post", "withdraw", "revoke_sent", "remote_revoke"}
      /\ UNCHANGED <<files, late>>
  BY DEF RevokeOrphan, Post, Withdraw, Revoke, RemoteRevoke, At
<1> PICK name, id : name = run[p].name /\ id = run[p].id
  OBVIOUS
<1>2. /\ FilesOK /\ DataOK /\ KnowsAt(run[p].pc, name, id) /\ name \in Names \cup {NoName}
      /\ id \in Ids \cup {NoId}
      /\ meta.now \in Docs /\ key.now \in KeyFiles /\ meta.now \in meta.disk /\ key.now \in key.disk
  BY <1>1, Here
<1>3. late' \subseteq Requests /\ meta' = meta /\ key' = key
  BY <1>1, <1>2 DEF DataOK, files
<1>4. CASE Post(p)
  <2>1. run[p].pc = "post" /\ UNCHANGED lock
    BY <1>4 DEF Post, At
  <2>2. PICK i \in Ids : /\ FreeId(i) /\ remote' = [remote EXCEPT ![i] = name]
                         /\ run' = [run EXCEPT ![p].pc = "key_link", ![p].id = i]
    BY <1>4 DEF Post
  <2>3. meta.now.state = "creating" /\ meta.now.name = name /\ key.now = NoKey
    BY <1>2, <2>1 DEF KnowsAt, Creating
  <2>4. name \in Names
    BY <1>2, <2>3, DocFacts
  <2>5. /\ remote' \in [Ids -> Names \cup {"unborn", "gone"}] /\ remote'[i] = name
        /\ \A x \in Ids : remote'[x] \in Names => remote'[x] = remote[x] \/ FreeId(x)
    BY <1>2, <2>2, <2>4 DEF DataOK
  <2>6. DataOK' /\ FilesOK'
    BY <1>1, <1>3, <2>5, RemoteStep
  <2>7. KnowsAt("key_link", name, i)'
    BY <1>3, <2>3, <2>5 DEF KnowsAt, Creating, Bound
  <2>8. QED BY <1>1, <1>2, <2>1, <2>2, <2>6, <2>7, GoesOn DEF PCs
<1>5. CASE RevokeOrphan(p) \/ Withdraw(p) \/ Revoke(p) \/ RemoteRevoke(p)
  <2>1. Delete(id) /\ id \in Ids /\ run[p].pc # "post"
    BY <1>2, <1>5 DEF RevokeOrphan, Withdraw, Revoke, RemoteRevoke, At, KnowsAt, Bound
  <2>2. /\ remote' \in [Ids -> Names \cup {"unborn", "gone"}]
        /\ \A x \in Ids : remote'[x] \in Names => remote'[x] = remote[x]
        /\ remote'[id] \notin Names
    BY <1>2, <2>1, DeleteIs DEF DataOK
  <2>3. DataOK' /\ FilesOK'
    BY <1>1, <1>3, <2>2, RemoteStep
  <2>4. CASE RevokeOrphan(p)
    <3>1. run[p].pc = "orphan" /\ run' = [run EXCEPT ![p].pc = "list", ![p].id = NoId] /\ UNCHANGED lock
      BY <2>4 DEF RevokeOrphan, At
    <3>2. meta.now.state = "creating" /\ meta.now.name = name /\ key.now = NoKey
      BY <1>2, <3>1 DEF KnowsAt, Creating
    <3>3. KnowsAt("list", name, NoId)'
      BY <1>3, <3>2 DEF KnowsAt, Creating, Bound
    <3>4. QED BY <1>1, <1>2, <2>3, <3>1, <3>3, GoesOn DEF PCs
  <2>5. CASE Revoke(p)
    <3>1. run[p].pc = "revoke_sent" /\ Goto(p, "mark") /\ UNCHANGED lock
      BY <2>5 DEF Revoke, At
    <3>2. meta.now.state = "active" /\ meta.now.id = id
      BY <1>2, <3>1 DEF KnowsAt
    <3>3. KnowsAt("mark", name, id)'
      BY <1>3, <2>1, <2>2, <3>2 DEF KnowsAt, Creating, Bound, IsLive
    <3>4. QED BY <1>1, <1>2, <2>3, <3>1, <3>3, GoesOn DEF PCs, Goto
  <2>6. CASE Withdraw(p) \/ RemoteRevoke(p)
    BY <1>1, <2>3, <2>6, Ends DEF Withdraw, RemoteRevoke
  <2>7. QED BY <1>5, <2>4, <2>5, <2>6
<1>6. QED BY <1>4, <1>5

(* The control plane gets to a late request. *)
LEMMA DeliverPreserves ==
  ASSUME IInv, UNCHANGED faults, Deliver
  PROVE  IInv'
<1>1. DataOK
  BY Facts
<1>2. PICK r \in late :
        /\ late' = late \ {r} /\ UNCHANGED <<files, lock, run>>
        /\ \/ r.kind = "delete" /\ Delete(r.of)
           \/ /\ r.kind = "post"
              /\ \E id \in Ids : FreeId(id) /\ remote' = [remote EXCEPT ![id] = r.of]
  BY DEF Deliver
<1>3. r \in Requests /\ late' \subseteq Requests
  BY <1>1, <1>2 DEF DataOK
<1>4. /\ remote' \in [Ids -> Names \cup {"unborn", "gone"}]
      /\ \A x \in Ids : remote'[x] \in Names => remote'[x] = remote[x] \/ FreeId(x)
  <2>1. CASE r.kind = "delete" /\ Delete(r.of)
    <3>1. r.of \in Ids
      BY <1>3, <2>1 DEF Requests
    <3>2. QED BY <1>1, <2>1, <3>1, DeleteIs DEF DataOK
  <2>2. CASE r.kind = "post" /\ \E id \in Ids : FreeId(id) /\ remote' = [remote EXCEPT ![id] = r.of]
    <3>1. r.of \in Names
      BY <1>3, <2>2 DEF Requests
    <3>2. QED BY <1>1, <2>2, <3>1 DEF DataOK
  <2>3. QED BY <1>2, <2>1, <2>2
<1>5. /\ DataOK' /\ FilesOK'
      /\ \A p \in Procs : \A pc, name, id :
           name = run[p].name /\ id = run[p].id /\ KnowsAt(pc, name, id) => KnowsAt(pc, name, id)'
  BY <1>2, <1>3, <1>4, RemoteStep
<1>6. TypeOK'
  BY <1>2, <1>5 DEF IInv, TypeOK, DataOK, KeyFiles
<1>7. LockOK'
  BY <1>2 DEF IInv, LockOK
<1>8. Informed'
  <2>1. ASSUME NEW p \in Procs PROVE KnowsAt(run[p].pc, run[p].name, run[p].id)'
    <3> PICK pc, name, id : pc = run[p].pc /\ name = run[p].name /\ id = run[p].id
      OBVIOUS
    <3>1. KnowsAt(pc, name, id)'
      BY <1>5 DEF IInv, Informed
    <3>2. QED BY <1>2, <3>1
  <2>2. QED BY <2>1 DEF Informed
<1>9. QED BY <1>5, <1>6, <1>7, <1>8 DEF IInv

(* A command gives up its request, or is killed. *)
LEMMA GiveUpPreserves ==
  ASSUME IInv, NEW p \in Procs, UNCHANGED faults, Timeout(p) \/ Kill(p)
  PROVE  IInv'
<1>1. /\ run[p].pc # "idle" /\ Leave(p) /\ UNCHANGED <<files, remote>>
      /\ late' = late \/ (run[p].pc \in Requesting /\ late' = late \cup {Request(p)})
  BY DEF Timeout, Kill, Requesting, At
<1>2. DataOK /\ KnowsAt(run[p].pc, run[p].name, run[p].id) /\ meta.now \in Docs
  BY <1>1, Here
<1>3. run[p].pc \in Requesting => Request(p) \in Requests
  <2>1. CASE run[p].pc = "post"
    <3>1. run[p].name \in Names
      BY <1>2, <2>1, DocFacts DEF KnowsAt, Creating
    <3>2. QED BY <2>1, <3>1 DEF Request, Creation, Requests, At
  <2>2. CASE run[p].pc \in Requesting /\ run[p].pc # "post"
    <3>1. run[p].id \in Ids
      BY <1>2, <2>2 DEF KnowsAt, Bound, Requesting
    <3>2. QED BY <2>2, <3>1 DEF Request, Deletion, Requests, At
  <2>3. QED BY <2>1, <2>2
<1>4. late' \subseteq Requests
  BY <1>1, <1>2, <1>3 DEF DataOK
<1>5. QED BY <1>1, <1>4, SameFiles, Ends

------------------------------------------------------------------------------
(* The steps that publish. *)

(* The metadata as it stands: what every step that publishes it keeps. *)
LEMMA MetaChanges ==
  ASSUME IInv, UNCHANGED <<key, server>>, NEW new \in Docs,
         meta' = Put(meta, new) \/ (meta' = Sync(meta) /\ new = meta.now),
         meta.now # NoDoc => new.name = meta.now.name,
         meta.now = NoDoc => new.state = "creating" /\ key.disk = {NoKey},
         Final(meta.now) => Final(new) /\ new.id = meta.now.id,
         Final(new) => Final(meta.now) \/ (key.now # NoKey /\ key.now.id = new.id),
         new.state = "revoked" => ~IsLive(new.id), new # NoDoc
  PROVE  DataOK' /\ FilesOK' /\ meta'.now = new
<1>1. FilesOK /\ DataOK /\ meta.now \in Docs /\ key' = key /\ remote' = remote
  BY Facts DEF IInv, server
<1>2. meta'.now = new /\ new \in meta'.disk /\ meta'.disk \subseteq meta.disk \cup {new} /\ meta' \in DirOf(Docs)
  <2>1. meta.now \in meta.disk
    BY <1>1 DEF FilesOK
  <2>2. QED BY <1>1, <2>1, DirFacts DEF DataOK
<1>3. DataOK'
  BY <1>1, <1>2 DEF DataOK, server
<1>4. \A d \in meta'.disk : d # NoDoc => d.name = new.name
  <2>1. CASE meta.now = NoDoc
    <3>1. \A d \in meta.disk : d # NoDoc => d.name = NoName /\ d \in Docs
      BY <1>1, <2>1, Facts, DocFacts DEF FilesOK
    <3>2. QED BY <1>2, <3>1, DocFacts, ApiKeysAssumption
  <2>2. QED BY <1>1, <1>2, <2>1 DEF FilesOK
<1>5. \A d \in meta'.disk : Final(d) => Final(new) /\ d.id = new.id
  <2>1. \A d \in meta.disk : Final(d) => Final(meta.now) /\ d.id = meta.now.id
    BY <1>1 DEF FilesOK
  <2>2. QED BY <1>2, <2>1
<1>6. ASSUME NEW k \in key.disk, k # NoKey
      PROVE  /\ Final(new) => k.id = new.id
             /\ key.now # NoKey => k.id = key.now.id
             /\ ~Final(new) => key.now # NoKey
             /\ IsLive(k.id) => remote[k.id] = new.name
  BY <1>1, <1>6 DEF FilesOK
<1>7. \A d \in meta'.disk : d.state = "revoked" => ~IsLive(d.id)
  BY <1>1, <1>2 DEF FilesOK, RevokedIsGone
<1>8. FilesOK'
  BY <1>1, <1>2, <1>4, <1>5, <1>6, <1>7 DEF FilesOK, RevokedIsGone, IsLive
<1>9. QED BY <1>2, <1>3, <1>8

LEMMA KeyChanges ==
  ASSUME IInv, UNCHANGED <<meta, server>>, NEW new \in KeyFiles,
         key' = Put(key, new) \/ (key' = Sync(key) /\ new = key.now),
         new # NoKey => /\ ~Final(meta.now) \/ new = key.now
                        /\ key.now # NoKey => new.id = key.now.id
                        /\ meta.now # NoDoc /\ IsLive(new.id) => remote[new.id] = meta.now.name,
         new = NoKey => Final(meta.now) \/ key.now = NoKey
  PROVE  DataOK' /\ FilesOK' /\ key'.now = new
<1>1. FilesOK /\ DataOK /\ key.now \in KeyFiles /\ meta' = meta /\ remote' = remote
  BY Facts DEF IInv, server
<1>2. key'.now = new /\ new \in key'.disk /\ key'.disk \subseteq key.disk \cup {new} /\ key' \in DirOf(KeyFiles)
  <2>1. key.now \in key.disk
    BY <1>1 DEF FilesOK
  <2>2. QED BY <1>1, <2>1, DirFacts DEF DataOK
<1>3. DataOK'
  BY <1>1, <1>2 DEF DataOK, server
<1>4. ASSUME NEW k \in key'.disk, k # NoKey
      PROVE  /\ Final(meta.now) => k.id = meta.now.id
             /\ new # NoKey => k.id = new.id
             /\ ~Final(meta.now) => new # NoKey
             /\ meta.now # NoDoc /\ IsLive(k.id) => remote[k.id] = meta.now.name
  BY <1>1, <1>2, <1>4 DEF FilesOK
<1>5. FilesOK'
  BY <1>1, <1>2, <1>4 DEF FilesOK, RevokedIsGone, IsLive
<1>6. QED BY <1>2, <1>3, <1>5

LEMMA MetaPreserves ==
  ASSUME IInv, NEW p \in Procs, UNCHANGED faults,
         \/ LinkIntent(p) \/ UnlinkIntentTemp(p) \/ SyncIntent(p) \/ Complete(p) \/ CompleteSync(p)
         \/ Mark(p) \/ MarkSync(p)
  PROVE  IInv'
<1>1. /\ run[p].pc \in {"intent_link", "intent_unlink", "intent_sync", "complete", "complete_sync", "mark",
                       "mark_sync"}
      /\ UNCHANGED <<key, server>>
  BY DEF LinkIntent, UnlinkIntentTemp, SyncIntent, Complete, CompleteSync, Mark, MarkSync, MetaStep, At
<1> PICK name, id : name = run[p].name /\ id = run[p].id
  OBVIOUS
<1>2. /\ FilesOK /\ KnowsAt(run[p].pc, name, id) /\ name \in Names \cup {NoName} /\ id \in Ids \cup {NoId}
      /\ meta.now \in Docs /\ key.now \in KeyFiles /\ key' = key /\ remote' = remote
  BY <1>1, Here DEF server
<1>3. /\ meta.now.state = "creating" => meta.now # NoDoc /\ ~Final(meta.now) /\ meta.now.name \in Names
      /\ meta.now = NoDoc => ~Final(meta.now)
      /\ Final(meta.now) => meta.now # NoDoc /\ meta.now.id \in Ids /\ meta.now.name \in Names
  BY <1>2, DocFacts DEF Final
<1> USE DEF Creating, Bound
<1>4. CASE LinkIntent(p)
  <2> DEFINE new == Doc("creating", name, NoId, TRUE)
  <2>1. /\ run[p].pc = "intent_link" /\ meta' = Put(meta, new) /\ Goto(p, "intent_unlink") /\ UNCHANGED lock
    BY <1>4 DEF LinkIntent, MetaStep, At
  <2>2. meta.now = NoDoc /\ key.now = NoKey /\ name \in Names
    BY <1>2, <2>1 DEF KnowsAt
  <2>3. new \in Docs /\ new.state = "creating" /\ new.name = name
    BY <2>2, NewDocs
  <2>4. key.disk = {NoKey}
    BY <1>2, <1>3, <2>2 DEF FilesOK
  <2> HIDE DEF new
  <2>5. DataOK' /\ FilesOK' /\ meta'.now = new
    BY <1>1, <1>3, <2>1, <2>2, <2>3, <2>4, DocFacts, MetaChanges DEF Final
  <2>6. KnowsAt("intent_unlink", name, id)'
    BY <1>2, <2>2, <2>3, <2>5 DEF KnowsAt
  <2>7. QED BY <1>1, <1>2, <2>1, <2>5, <2>6, GoesOn DEF PCs, Goto
<1>5. CASE UnlinkIntentTemp(p)
  <2> DEFINE new == [meta.now EXCEPT !.linked = FALSE]
  <2>1. /\ run[p].pc = "intent_unlink" /\ meta' = Put(meta, new) /\ Goto(p, "intent_sync")
        /\ UNCHANGED lock
    BY <1>5 DEF UnlinkIntentTemp, MetaStep, At
  <2>2. meta.now.state = "creating" /\ meta.now.name = name /\ key.now = NoKey
    BY <1>2, <2>1 DEF KnowsAt
  <2>3. new \in Docs /\ new.state = "creating" /\ new.name = name
    BY <1>2, <2>2, NewDocs
  <2> HIDE DEF new
  <2>4. DataOK' /\ FilesOK' /\ meta'.now = new
    BY <1>1, <1>3, <2>1, <2>2, <2>3, DocFacts, MetaChanges DEF Final
  <2>5. KnowsAt("intent_sync", name, id)'
    BY <1>2, <2>2, <2>3, <2>4 DEF KnowsAt
  <2>6. QED BY <1>1, <1>2, <2>1, <2>4, <2>5, GoesOn DEF PCs, Goto
<1>6. CASE SyncIntent(p) \/ CompleteSync(p) \/ MarkSync(p)
  <2>1. meta' = Sync(meta) /\ run[p].pc \in {"intent_sync", "complete_sync", "mark_sync"}
    BY <1>6 DEF SyncIntent, CompleteSync, MarkSync, MetaStep, At
  <2>2. meta.now.state \in {"creating", "active", "revoked"}
    BY <1>2, <2>1 DEF KnowsAt
  <2>3. meta.now # NoDoc
    BY <2>2, DocFacts
  <2>4. meta.now.state = "revoked" => ~IsLive(meta.now.id)
    BY <1>2 DEF FilesOK, RevokedIsGone
  <2> PICK new \in Docs : new = meta.now
    BY <1>2
  <2>5. DataOK' /\ FilesOK' /\ meta'.now = new
    <3>1. Final(new) => Final(meta.now)
      OBVIOUS
    <3>2. QED BY <1>1, <2>1, <2>3, <2>4, <3>1, MetaChanges
  <2>6. CASE CompleteSync(p)
    BY <1>1, <2>5, <2>6, Ends DEF CompleteSync
  <2>7. CASE SyncIntent(p)
    <3>1. run[p].pc = "intent_sync" /\ Goto(p, "list") /\ UNCHANGED lock
      BY <2>7 DEF SyncIntent, MetaStep, At
    <3>2. KnowsAt("list", name, id)'
      BY <1>2, <2>5, <3>1 DEF KnowsAt
    <3>3. QED BY <1>1, <1>2, <2>5, <3>1, <3>2, GoesOn DEF PCs, Goto
  <2>8. CASE MarkSync(p)
    <3>1. run[p].pc = "mark_sync" /\ Goto(p, "delete") /\ UNCHANGED lock
      BY <2>8 DEF MarkSync, MetaStep, At
    <3>2. KnowsAt("delete", name, id)'
      BY <1>2, <2>5, <3>1 DEF KnowsAt
    <3>3. QED BY <1>1, <1>2, <2>5, <3>1, <3>2, GoesOn DEF PCs, Goto
  <2>9. QED BY <1>6, <2>6, <2>7, <2>8
<1>7. CASE Complete(p)
  <2> DEFINE new == Doc("active", name, id, FALSE)
  <2>1. /\ run[p].pc = "complete" /\ meta' = Put(meta, new) /\ Goto(p, "complete_sync")
        /\ UNCHANGED lock
    BY <1>7 DEF Complete, MetaStep, At
  <2>2. /\ meta.now.state = "creating" /\ meta.now.name = name /\ name \in Names /\ id \in Ids
        /\ key.now = KeyFile(id, FALSE)
    BY <1>2, <1>3, <2>1 DEF KnowsAt
  <2>3. new \in Docs /\ new.state = "active" /\ new.name = name /\ new.id = id
    BY <2>2, NewDocs
  <2>4. key.now # NoKey /\ key.now.id = id
    BY <2>2, KeyFacts
  <2> HIDE DEF new
  <2>5. DataOK' /\ FilesOK' /\ meta'.now = new
    BY <1>1, <1>3, <2>1, <2>2, <2>3, <2>4, DocFacts, MetaChanges DEF Final
  <2>6. KnowsAt("complete_sync", name, id)'
    BY <1>2, <2>2, <2>3, <2>5 DEF KnowsAt
  <2>7. QED BY <1>1, <1>2, <2>1, <2>5, <2>6, GoesOn DEF PCs, Goto
<1>8. CASE Mark(p)
  <2> DEFINE new == [meta.now EXCEPT !.state = "revoked"]
  <2>1. /\ run[p].pc = "mark" /\ meta' = Put(meta, new) /\ Goto(p, "mark_sync")
        /\ UNCHANGED lock
    BY <1>8 DEF Mark, MetaStep, At
  <2>2. meta.now.state = "active" /\ meta.now.id = id /\ id \in Ids /\ ~IsLive(id)
    BY <1>2, <2>1 DEF KnowsAt
  <2>3. new \in Docs /\ new.state = "revoked" /\ new.name = meta.now.name /\ new.id = id
    BY <1>2, <2>2, NewDocs
  <2> HIDE DEF new
  <2>4. DataOK' /\ FilesOK' /\ meta'.now = new
    BY <1>1, <1>3, <2>1, <2>2, <2>3, DocFacts, MetaChanges DEF Final
  <2>5. KnowsAt("mark_sync", name, id)'
    BY <1>2, <2>2, <2>3, <2>4 DEF KnowsAt
  <2>6. QED BY <1>1, <1>2, <2>1, <2>4, <2>5, GoesOn DEF PCs, Goto
<1>9. QED BY <1>4, <1>5, <1>6, <1>7, <1>8

LEMMA KeyPreserves ==
  ASSUME IInv, NEW p \in Procs, UNCHANGED faults,
         LinkKey(p) \/ UnlinkKeyTemp(p) \/ SyncKey(p) \/ DeleteKey(p) \/ DeleteSync(p)
  PROVE  IInv'
<1>1. /\ run[p].pc \in {"key_link", "key_unlink", "key_sync", "delete", "delete_sync"}
      /\ UNCHANGED <<meta, server>>
  BY DEF LinkKey, UnlinkKeyTemp, SyncKey, DeleteKey, DeleteSync, KeyStep, At
<1> PICK name, id : name = run[p].name /\ id = run[p].id
  OBVIOUS
<1>2. /\ FilesOK /\ KnowsAt(run[p].pc, name, id) /\ name \in Names \cup {NoName} /\ id \in Ids \cup {NoId}
      /\ meta.now \in Docs /\ key.now \in KeyFiles /\ key.now \in key.disk
      /\ meta' = meta /\ remote' = remote
  BY <1>1, Here DEF server
<1>3. meta.now.state = "creating" => meta.now # NoDoc /\ ~Final(meta.now)
  BY <1>2, DocFacts DEF Final
<1> USE DEF Creating, Bound
<1>4. CASE LinkKey(p)
  <2> DEFINE new == KeyFile(id, TRUE)
  <2>1. /\ run[p].pc = "key_link" /\ key' = Put(key, new) /\ Goto(p, "key_unlink") /\ UNCHANGED lock
    BY <1>4 DEF LinkKey, KeyStep, At
  <2>2. /\ meta.now.state = "creating" /\ meta.now.name = name /\ key.now = NoKey /\ id \in Ids
        /\ IsLive(id) => remote[id] = name
    BY <1>2, <2>1 DEF KnowsAt
  <2>3. new \in KeyFiles /\ new # NoKey /\ new.id = id
    BY <2>2, KeyFacts
  <2> HIDE DEF new
  <2>4. DataOK' /\ FilesOK' /\ key'.now = new
    BY <1>1, <1>3, <2>1, <2>2, <2>3, KeyChanges
  <2>5. KnowsAt("key_unlink", name, id)'
    BY <1>2, <2>2, <2>3, <2>4 DEF KnowsAt
  <2>6. QED BY <1>1, <1>2, <2>1, <2>4, <2>5, GoesOn DEF PCs, Goto
<1>5. CASE UnlinkKeyTemp(p)
  <2> DEFINE new == [key.now EXCEPT !.linked = FALSE]
  <2>1. /\ run[p].pc = "key_unlink" /\ key' = Put(key, new) /\ Goto(p, "key_sync") /\ UNCHANGED lock
    BY <1>5 DEF UnlinkKeyTemp, KeyStep, At
  <2>2. /\ meta.now.state = "creating" /\ meta.now.name = name /\ key.now # NoKey /\ id \in Ids
        /\ key.now.id = id
    BY <1>2, <2>1 DEF KnowsAt
  <2>3. new = KeyFile(id, FALSE)
    BY <1>2, <2>2, NewKeys
  <2>4. new \in KeyFiles /\ new # NoKey /\ new.id = id /\ ~new.linked
    BY <2>2, <2>3, KeyFacts
  <2>5. IsLive(id) => remote[id] = name
    BY <1>2, <1>3, <2>2 DEF FilesOK
  <2> HIDE DEF new
  <2>6. DataOK' /\ FilesOK' /\ key'.now = new
    BY <1>1, <1>3, <2>1, <2>2, <2>4, <2>5, KeyChanges
  <2>7. KnowsAt("key_sync", name, id)'
    BY <1>2, <2>2, <2>4, <2>6 DEF KnowsAt
  <2>8. QED BY <1>1, <1>2, <2>1, <2>6, <2>7, GoesOn DEF PCs, Goto
<1>6. CASE SyncKey(p) \/ DeleteSync(p)
  <2>1. key' = Sync(key) /\ run[p].pc \in {"key_sync", "delete_sync"}
    BY <1>6 DEF SyncKey, DeleteSync, KeyStep, At
  <2> PICK new \in KeyFiles : new = key.now
    BY <1>2
  <2>2. new # NoKey /\ meta.now # NoDoc /\ IsLive(new.id) => remote[new.id] = meta.now.name
    BY <1>2 DEF FilesOK
  <2>3. DataOK' /\ FilesOK' /\ key'.now = new
    BY <1>1, <2>1, <2>2, KeyChanges
  <2>4. CASE DeleteSync(p)
    BY <1>1, <2>3, <2>4, Ends DEF DeleteSync
  <2>5. CASE SyncKey(p)
    <3>1. run[p].pc = "key_sync" /\ Goto(p, "complete") /\ UNCHANGED lock
      BY <2>5 DEF SyncKey, KeyStep, At
    <3>2. /\ meta.now.state = "creating" /\ meta.now.name = name /\ key.now # NoKey /\ id \in Ids
          /\ key.now.id = id /\ ~key.now.linked
      BY <1>2, <3>1 DEF KnowsAt
    <3>3. key.now = KeyFile(id, FALSE)
      BY <1>2, <3>2, KeyFacts
    <3>4. KnowsAt("complete", name, id)'
      BY <1>2, <2>3, <3>2, <3>3 DEF KnowsAt
    <3>5. QED BY <1>1, <1>2, <2>3, <3>1, <3>4, GoesOn DEF PCs, Goto
  <2>6. QED BY <1>6, <2>4, <2>5
<1>7. CASE DeleteKey(p)
  <2>1. run[p].pc = "delete" /\ key' = Put(key, NoKey) /\ Goto(p, "delete_sync") /\ UNCHANGED lock
    BY <1>7 DEF DeleteKey, KeyStep, At
  <2>2. meta.now.state = "revoked"
    BY <1>2, <2>1 DEF KnowsAt
  <2>3. DataOK' /\ FilesOK' /\ key'.now = NoKey
    BY <1>1, <2>1, <2>2, KeyFacts, KeyChanges DEF Final
  <2>4. KnowsAt("delete_sync", name, id)'
    BY <1>2, <2>2, <2>3 DEF KnowsAt
  <2>5. QED BY <1>1, <1>2, <2>1, <2>3, <2>4, GoesOn DEF PCs, Goto
<1>8. QED BY <1>4, <1>5, <1>6, <1>7

------------------------------------------------------------------------------
(* What goes wrong with the files. *)

(* A call raised: the temporary name is gone, and nothing else. *)
LEMMA ErrorPreserves ==
  ASSUME IInv, NEW p \in Procs, UNCHANGED faults, Error(p)
  PROVE  IInv'
<1>1. /\ run[p].pc # "idle" /\ UNCHANGED server
      /\ \/ UNCHANGED files
         \/ /\ run[p].pc = "intent_unlink" /\ meta' = Put(meta, [meta.now EXCEPT !.linked = FALSE])
            /\ UNCHANGED key
         \/ /\ run[p].pc = "key_unlink" /\ key' = Put(key, [key.now EXCEPT !.linked = FALSE])
            /\ UNCHANGED meta
      /\ \/ run[p].pc \in {"key_link", "key_unlink", "key_sync"} /\ Goto(p, "withdraw") /\ UNCHANGED lock
         \/ Leave(p)
  BY DEF Error, At
<1> PICK name, id : name = run[p].name /\ id = run[p].id
  OBVIOUS
<1>2. /\ FilesOK /\ DataOK /\ KnowsAt(run[p].pc, name, id) /\ name \in Names \cup {NoName}
      /\ id \in Ids \cup {NoId} /\ meta.now \in Docs /\ key.now \in KeyFiles
  BY <1>1, Here
<1>3. /\ meta.now.state = "creating" => meta.now # NoDoc /\ ~Final(meta.now)
      /\ Final(meta.now) => meta.now # NoDoc
  BY <1>2, DocFacts DEF Final
<1>4. /\ DataOK' /\ FilesOK' /\ remote' = remote
      /\ meta'.now.name = meta.now.name /\ meta'.now.state = meta.now.state
  <2>1. remote' = remote /\ late' = late
    BY <1>1 DEF server
  <2>2. CASE UNCHANGED files
    <3>1. late' \subseteq Requests /\ UNCHANGED <<files, remote>>
      BY <1>2, <2>1, <2>2 DEF DataOK
    <3>2. DataOK' /\ FilesOK'
      BY <3>1, SameFiles
    <3>3. QED BY <2>1, <2>2, <3>2 DEF files
  <2>3. CASE /\ run[p].pc = "intent_unlink" /\ meta' = Put(meta, [meta.now EXCEPT !.linked = FALSE])
             /\ UNCHANGED key
    <3> DEFINE new == [meta.now EXCEPT !.linked = FALSE]
    <3>1. meta.now.state = "creating" /\ meta.now.name = name /\ key.now = NoKey
      BY <1>2, <2>3 DEF KnowsAt, Creating
    <3>2. new \in Docs /\ new.state = "creating" /\ new.name = name
      BY <1>2, <3>1, NewDocs
    <3> HIDE DEF new
    <3>3. DataOK' /\ FilesOK' /\ meta'.now = new
      BY <1>1, <1>3, <2>3, <3>1, <3>2, DocFacts, MetaChanges DEF Final, new
    <3>4. QED BY <2>1, <3>1, <3>2, <3>3
  <2>4. CASE /\ run[p].pc = "key_unlink" /\ key' = Put(key, [key.now EXCEPT !.linked = FALSE])
             /\ UNCHANGED meta
    <3> DEFINE new == [key.now EXCEPT !.linked = FALSE]
    <3>1. /\ meta.now.state = "creating" /\ meta.now.name = name /\ key.now # NoKey /\ id \in Ids
          /\ key.now.id = id
      BY <1>2, <2>4 DEF KnowsAt, Creating, Bound
    <3>2. new = KeyFile(id, FALSE)
      BY <1>2, <3>1, NewKeys
    <3>3. new \in KeyFiles /\ new # NoKey /\ new.id = id
      BY <3>1, <3>2, KeyFacts
    <3>4. IsLive(id) => remote[id] = name
      BY <1>2, <1>3, <3>1 DEF FilesOK
    <3> HIDE DEF new
    <3>5. key' = Put(key, new)
      BY <2>4 DEF new
    <3>6. DataOK' /\ FilesOK' /\ key'.now = new
      BY <1>1, <1>3, <2>4, <3>1, <3>3, <3>4, <3>5, KeyChanges
    <3>7. QED BY <2>1, <2>4, <3>6
  <2>5. QED BY <1>1, <2>2, <2>3, <2>4
<1>5. CASE Leave(p)
  BY <1>1, <1>4, <1>5, Ends
<1>6. CASE /\ run[p].pc \in {"key_link", "key_unlink", "key_sync"} /\ Goto(p, "withdraw") /\ UNCHANGED lock
  <2>1. meta.now.state = "creating" /\ meta.now.name = name /\ id \in Ids
    BY <1>2, <1>6 DEF KnowsAt, Creating, Bound
  <2>2. KnowsAt("withdraw", name, id)'
    BY <1>4, <2>1 DEF KnowsAt, Creating, Bound
  <2>3. QED BY <1>1, <1>2, <1>4, <1>6, <2>2, GoesOn DEF PCs, Requesting, Goto
<1>7. QED BY <1>1, <1>5, <1>6

(* The host loses power: what is on disk is there, and nobody is at work. *)
LEMMA PowerLossPreserves ==
  ASSUME IInv, UNCHANGED faults, PowerLoss
  PROVE  IInv'
<1>1. /\ meta' \in AfterLoss(meta) /\ key' \in AfterLoss(key) /\ late' = {} /\ lock' = Nobody
      /\ run' = [p \in Procs |-> Idle] /\ remote' = remote
  BY DEF PowerLoss
<1>2. /\ DataOK /\ FilesOK /\ \A d \in meta.disk : d \in Docs
  BY Facts DEF IInv
<1> PICK m \in AfterLoss(meta), k \in AfterLoss(key) : meta' = m /\ key' = k
  BY <1>1
<1>3. m \in DirOf(Docs) /\ m.now \in meta.disk /\ m.disk = {m.now}
  <2>1. meta \in DirOf(Docs)
    BY <1>2 DEF DataOK
  <2>2. \A e \in AfterLoss(meta) : e \in DirOf(Docs) /\ e.now \in meta.disk /\ e.disk = {e.now}
    BY <2>1, DirFacts
  <2>3. QED BY <2>2
<1>4. k \in DirOf(KeyFiles) /\ k.now \in key.disk /\ k.disk = {k.now}
  <2>1. key \in DirOf(KeyFiles)
    BY <1>2 DEF DataOK
  <2>2. \A e \in AfterLoss(key) : e \in DirOf(KeyFiles) /\ e.now \in key.disk /\ e.disk = {e.now}
    BY <2>1, DirFacts
  <2>3. QED BY <2>2
<1>5. DataOK' /\ FilesOK'
  <2>1. DataOK'
    BY <1>1, <1>2, <1>3, <1>4 DEF DataOK
  <2>2. RevokedIsGone'
    BY <1>1, <1>2, <1>3 DEF FilesOK, RevokedIsGone, IsLive
  <2>3. ASSUME k.now # NoKey
        PROVE  /\ Final(m.now) => k.now.id = m.now.id
               /\ m.now # NoDoc /\ IsLive(k.now.id)' => remote'[k.now.id] = m.now.name
    <3>1. /\ Final(m.now) => Final(meta.now) /\ m.now.id = meta.now.id
          /\ m.now # NoDoc => m.now.name = meta.now.name
      BY <1>2, <1>3 DEF FilesOK
    <3>2. m.now # NoDoc => meta.now # NoDoc
      <4>1. m.now # NoDoc => m.now.name \in Names
        BY <1>2, <1>3, DocFacts
      <4>2. QED BY <3>1, <4>1, DocFacts, ApiKeysAssumption
    <3>3. Final(meta.now) => k.now.id = meta.now.id
      BY <1>2, <1>4, <2>3 DEF FilesOK
    <3>4. meta.now # NoDoc /\ IsLive(k.now.id) => remote[k.now.id] = meta.now.name
      BY <1>2, <1>4, <2>3 DEF FilesOK
    <3>5. IsLive(k.now.id)' => IsLive(k.now.id)
      BY <1>1 DEF IsLive
    <3>6. QED BY <1>1, <3>1, <3>2, <3>3, <3>4, <3>5
  <2>4. \A d \in meta'.disk : d = m.now
    BY <1>3
  <2>5. \A e \in key'.disk : e = k.now
    BY <1>4
  <2>6. meta'.now = m.now /\ key'.now = k.now /\ m.now \in meta'.disk /\ k.now \in key'.disk
    BY <1>3, <1>4
  <2>7. FilesOK'
    BY <2>2, <2>3, <2>4, <2>5, <2>6 DEF FilesOK
  <2>8. QED BY <2>1, <2>7
<1>6. run' \in [Procs -> Sessions] /\ \A q \in Procs : run'[q] = Idle
  BY <1>1, IdleKnows
<1>7. TypeOK'
  BY <1>1, <1>5, <1>6 DEF IInv, TypeOK, DataOK, KeyFiles, Sessions
<1>8. LockOK'
  BY <1>1, <1>6, ApiKeysAssumption DEF LockOK
<1>9. Informed'
  BY <1>6, IdleKnows DEF Informed
<1>10. QED BY <1>5, <1>7, <1>8, <1>9 DEF IInv

------------------------------------------------------------------------------
(* The invariant. *)

LEMMA InitHolds ==
  ASSUME Init
  PROVE  IInv
<1>1. /\ meta \in DirOf(Docs) /\ meta.now = NoDoc /\ meta.disk = {NoDoc}
      /\ key \in DirOf(KeyFiles) /\ key.now = NoKey /\ key.disk = {NoKey}
  BY DocFacts, KeyFacts DEF Init, DirOf, Fresh
<1>2. /\ run \in [Procs -> Sessions] /\ \A q \in Procs : run[q] = Idle
  BY IdleKnows DEF Init
<1>3. TypeOK
  BY <1>1, <1>2 DEF Init, TypeOK, KeyFiles, Sessions
<1>4. LockOK
  BY <1>2, ApiKeysAssumption DEF Init, LockOK
<1>5. FilesOK
  BY <1>1, DocFacts DEF FilesOK, RevokedIsGone, Final
<1>6. Informed
  BY <1>2, IdleKnows DEF Informed
<1>7. QED BY <1>3, <1>4, <1>5, <1>6 DEF IInv

LEMMA StepPreserves ==
  ASSUME IInv, NEW p \in Procs, UNCHANGED faults, Step(p)
  PROVE  IInv'
<1>1. CASE CreateRefuse(p) \/ FoundOther(p) \/ CheckFail(p) \/ ListConflict(p) \/ RevokeRefuse(p) \/ DeleteNothing(p)
  <2>1. run[p].pc # "idle" /\ Return(p)
    BY <1>1 DEF CreateRefuse, FoundOther, CheckFail, ListConflict, RevokeRefuse, DeleteNothing, At
  <2>2. QED BY <2>1, ReturnPreserves
<1>2. CASE \/ NewIntent(p) \/ Resume(p) \/ FoundPublished(p) \/ FoundOrphan(p) \/ FoundNothing(p)
           \/ CheckKey(p) \/ ListClear(p) \/ RevokeStart(p) \/ RevokedAlready(p)
  BY <1>2, DecidePreserves
<1>3. CASE RevokeOrphan(p) \/ Post(p) \/ Withdraw(p) \/ Revoke(p) \/ RemoteRevoke(p)
  BY <1>3, RemotePreserves
<1>4. CASE \/ LinkIntent(p) \/ UnlinkIntentTemp(p) \/ SyncIntent(p) \/ Complete(p) \/ CompleteSync(p)
           \/ Mark(p) \/ MarkSync(p)
  BY <1>4, MetaPreserves
<1>5. CASE LinkKey(p) \/ UnlinkKeyTemp(p) \/ SyncKey(p) \/ DeleteKey(p) \/ DeleteSync(p)
  BY <1>5, KeyPreserves
<1>6. QED BY <1>1, <1>2, <1>3, <1>4, <1>5 DEF Step

LEMMA NextPreserves ==
  ASSUME IInv, [Next]_<<vars, faults>>
  PROVE  IInv'
<1>1. CASE UNCHANGED <<vars, faults>>
  <2>1. late' \subseteq Requests /\ UNCHANGED <<files, remote, lock, run>>
    BY <1>1, Facts DEF DataOK, vars, server
  <2>2. DataOK' /\ FilesOK' /\ \A pc, name, id : KnowsAt(pc, name, id)' <=> KnowsAt(pc, name, id)
    BY <2>1, SameFiles
  <2>3. TypeOK'
    BY <1>1, <2>1, <2>2 DEF IInv, TypeOK, DataOK, KeyFiles
  <2>4. LockOK'
    BY <2>1 DEF IInv, LockOK
  <2>5. Informed'
    <3>1. ASSUME NEW p \in Procs PROVE KnowsAt(run[p].pc, run[p].name, run[p].id)'
      <4> PICK pc, name, id : pc = run[p].pc /\ name = run[p].name /\ id = run[p].id
        OBVIOUS
      <4>1. KnowsAt(pc, name, id)'
        BY <2>2 DEF IInv, Informed
      <4>2. QED BY <2>1, <4>1
    <3>2. QED BY <3>1 DEF Informed
  <2>6. QED BY <2>2, <2>3, <2>4, <2>5 DEF IInv
<1>2. ASSUME NEW p \in Procs, UNCHANGED faults, Start(p) \/ Step(p) \/ Fault(p)
      PROVE  IInv'
  BY <1>2, BeginPreserves, StepPreserves, ErrorPreserves, GiveUpPreserves DEF Fault
<1>3. CASE Next
  BY <1>2, <1>3, DeliverPreserves, PowerLossPreserves DEF Next
<1>4. QED BY <1>1, <1>3

(* The metadata, the key file and the control plane agree with the step the
   command is at, in every behaviour of create(), revoke() and their faults. *)
THEOREM Invariance == Spec => []IInv
<1>1. Init => IInv
  BY InitHolds
<1>2. IInv /\ [Next]_<<vars, faults>> => IInv'
  BY NextPreserves
<1>3. QED BY <1>1, <1>2, PTL DEF Spec

THEOREM TypeCorrectness == Spec => []TypeOK
<1>1. IInv => TypeOK
  BY DEF IInv
<1>2. QED BY <1>1, Invariance, PTL

(* Metadata that says active names the key in the key file, and metadata that
   says revoked names a key the control plane refuses: whatever is killed,
   fails, comes late or loses power, and together. *)
THEOREM WhatTheMetadataSays == Spec => []MetadataIsTrue
<1>1. IInv => MetadataIsTrue
  BY DEF IInv, FilesOK, MetadataIsTrue, ActiveMatches, Final
<1>2. QED BY <1>1, Invariance, PTL

------------------------------------------------------------------------------
(* The second part: what a power failure would leave.  First, when the two
   files are settled. *)

LEMMA LeftFacts ==
  ASSUME IInv
  PROVE  /\ meta.now \in Left(meta) /\ Left(meta) \subseteq meta.disk
         /\ key.now \in Left(key) /\ Left(key) \subseteq key.disk
         /\ "power" \notin faults => Left(meta) = {meta.now} /\ Left(key) = {key.now}
         /\ meta.disk = {meta.now} => Left(meta) = {meta.now}
         /\ key.disk = {key.now} => Left(key) = {key.now}
BY DEF IInv, FilesOK, Left

Unsettled == {"intent_unlink", "intent_sync", "complete_sync", "mark_sync", "key_unlink", "key_sync",
              "delete_sync"}

(* Who works at a settled step, or nobody. *)
LEMMA SettledHere ==
  ASSUME IInv, SafeInv, "power" \in faults,
         lock = Nobody \/ \E p \in Procs : lock = p /\ run[p].pc \notin Unsettled
  PROVE  meta.disk = {meta.now} /\ key.disk = {key.now}
BY Facts DEF SafeInv, Settled, SettledAt, Unsettled

LEMMA SettledSame ==
  ASSUME IInv, SafeInv, IInv', UNCHANGED <<files, faults>>, NEW p \in Procs,
         lock \in {p, Nobody}, lock = p => run[p].pc \notin Unsettled,
         lock' \in {p, Nobody}, lock' = p => run'[p].pc \notin Unsettled
  PROVE  Settled'
<1>1. SUFFICES ASSUME "power" \in faults PROVE Settled'
  BY DEF Settled
<1>2. meta.disk = {meta.now} /\ key.disk = {key.now}
  BY <1>1, SettledHere
<1>3. meta' = meta /\ key' = key
  BY DEF files
<1>4. \A pc : SettledAt(pc)'
  BY <1>2, <1>3 DEF SettledAt
<1>5. QED BY <1>4 DEF Settled

(* The command goes on, or ends. *)
LEMMA SettledOn ==
  ASSUME IInv, IInv', UNCHANGED <<lock, faults>>, NEW p \in Procs, run[p].pc # "idle", NEW pc,
         run'[p].pc = pc, "power" \in faults => SettledAt(pc)'
  PROVE  Settled'
<1>1. lock = p /\ lock' = p /\ p # Nobody
  BY Facts, ApiKeysAssumption
<1>2. \A q \in Procs : run'[q].pc # "idle" => q = p
  BY <1>1, IdleKnows DEF IInv, LockOK
<1>3. ASSUME NEW q \in Procs, run'[q].pc # "idle", "power" \in faults PROVE SettledAt(run[q].pc)'
  BY <1>2, <1>3
<1>4. QED BY <1>1, <1>3 DEF Settled

LEMMA SettledEnd ==
  ASSUME IInv', UNCHANGED faults, lock' = Nobody, "power" \in faults => SettledAt("idle")'
  PROVE  Settled'
<1>1. \A q \in Procs : run'[q].pc = "idle"
  BY IdleKnows, ApiKeysAssumption DEF IInv, LockOK
<1>2. QED BY <1>1 DEF Settled

------------------------------------------------------------------------------
(* Then, what each kind of step does to the other three parts. *)

(* The files stay. *)
LEMMA FilesStay ==
  ASSUME IInv, SafeInv, UNCHANGED <<files, faults>>, Settled',
         \A q \in late' : q.kind = "post" => q \in late \/ \A d \in Left(meta) : d.name = q.of,
         \A id \in Ids : remote'[id] \in Names =>
           \/ remote'[id] = remote[id]
           \/ FreeId(id) /\ \A d \in Left(meta) : d.name = remote'[id]
  PROVE  SafeInv'
<1>1. meta' = meta /\ key' = key /\ Left(meta)' = Left(meta) /\ Left(key)' = Left(key)
  BY DEF files, Left
<1>2. LateIsRecorded'
  BY <1>1 DEF SafeInv, LateIsRecorded
<1>3. EveryLiveKeyIsRecorded'
  BY <1>1 DEF SafeInv, EveryLiveKeyIsRecorded, IsLive
<1>4. LiveKeyIsNotLost'
  <2>1. ASSUME NEW d \in Left(meta), IsLive(d.id)' PROVE IsLive(d.id)
    <3>1. ~FreeId(d.id)
      BY <2>1, LeftFacts DEF FreeId
    <3>2. QED BY <2>1, <3>1 DEF IsLive
  <2>2. QED BY <1>1, <2>1 DEF SafeInv, LiveKeyIsNotLost
<1>5. OneKind'
  BY DEF SafeInv, OneKind
<1>6. QED BY <1>2, <1>3, <1>4, <1>5 DEF SafeInv

(* The metadata is published. *)
LEMMA MetaMoves ==
  ASSUME IInv, SafeInv, IInv', UNCHANGED <<key, server, faults>>, Settled', NEW new \in Docs,
         meta' = Put(meta, new) \/ (meta' = Sync(meta) /\ new = meta.now),
         meta.now # NoDoc => new.name = meta.now.name,
         new.state = "active" /\ new # meta.now => Left(key) = {KeyFile(new.id, FALSE)}
  PROVE  SafeInv'
<1>1. DataOK /\ key' = key /\ remote' = remote /\ late' = late /\ faults' = faults
  BY Facts DEF server
<1>2. Left(key)' = Left(key)
  BY <1>1 DEF Left
<1>3. \A d \in Left(meta)' : d \in Left(meta) \/ d = new
  <2>1. meta \in DirOf(Docs)
    BY <1>1 DEF DataOK
  <2>2. CASE meta' = Put(meta, new)
    <3>1. meta'.now = new /\ meta'.disk = meta.disk \cup {new}
      <4>1. Put(meta, new).now = new /\ Put(meta, new).disk = meta.disk \cup {new}
        BY DEF Put
      <4>2. QED BY <2>2, <4>1
    <3>2. CASE "power" \in faults
      <4>1. Left(meta) = meta.disk /\ Left(meta)' = meta.disk \cup {new}
        BY <1>1, <3>1, <3>2 DEF Left
      <4>2. QED BY <4>1
    <3>3. CASE "power" \notin faults
      <4>1. Left(meta)' = {new}
        BY <1>1, <3>1, <3>3 DEF Left
      <4>2. QED BY <4>1
    <3>4. QED BY <3>2, <3>3
  <2>3. CASE meta' = Sync(meta) /\ new = meta.now
    <3>1. meta'.now = new /\ meta'.disk = {new}
      BY <2>1, <2>3, DirFacts
    <3>2. QED BY <1>1, <3>1 DEF Left
  <2>4. QED BY <2>2, <2>3
<1>4. meta.now \in Left(meta)
  BY LeftFacts
<1>5. ASSUME NEW n \in Names, \A d \in Left(meta) : d.name = n
      PROVE  \A d \in Left(meta)' : d.name = n
  <2>1. meta.now.name = n /\ meta.now # NoDoc
    BY <1>4, <1>5, DocFacts, ApiKeysAssumption
  <2>2. QED BY <1>3, <1>5, <2>1
<1>6. LateIsRecorded'
  <2>1. SUFFICES ASSUME NEW q \in late, q.kind = "post" PROVE \A d \in Left(meta)' : d.name = q.of
    BY <1>1 DEF LateIsRecorded
  <2>2. q.of \in Names
    BY <1>1, <2>1 DEF DataOK, Requests
  <2>3. QED BY <1>5, <2>1, <2>2 DEF SafeInv, LateIsRecorded
<1>7. EveryLiveKeyIsRecorded'
  <2>1. SUFFICES ASSUME NEW id \in Ids, IsLive(id) PROVE \A d \in Left(meta)' : d.name = remote[id]
    BY <1>1 DEF EveryLiveKeyIsRecorded, IsLive
  <2>2. remote[id] \in Names
    BY <2>1 DEF IsLive
  <2>3. QED BY <1>5, <2>1, <2>2 DEF SafeInv, EveryLiveKeyIsRecorded
<1>8. LiveKeyIsNotLost'
  <2>1. SUFFICES ASSUME NEW d \in Left(meta)', d.state = "active", IsLive(d.id)
                 PROVE  Left(key) = {KeyFile(d.id, FALSE)}
    BY <1>1, <1>2 DEF LiveKeyIsNotLost, IsLive
  <2>2. CASE d \in Left(meta)
    BY <2>1, <2>2 DEF SafeInv, LiveKeyIsNotLost
  <2>3. CASE d \notin Left(meta)
    BY <1>3, <1>4, <2>1, <2>3
  <2>4. QED BY <2>2, <2>3
<1>9. OneKind'
  BY <1>1 DEF SafeInv, OneKind
<1>10. QED BY <1>6, <1>7, <1>8, <1>9 DEF SafeInv

(* The key file is published or deleted, while nothing says active. *)
LEMMA KeyMoves ==
  ASSUME IInv, SafeInv, UNCHANGED <<meta, server, faults>>, Settled',
         \A d \in Left(meta) : d.state # "active"
  PROVE  SafeInv'
<1>1. Left(meta)' = Left(meta)
  BY DEF Left
<1>2. LateIsRecorded' /\ EveryLiveKeyIsRecorded'
  BY <1>1 DEF SafeInv, LateIsRecorded, EveryLiveKeyIsRecorded, IsLive, server
<1>3. LiveKeyIsNotLost'
  BY <1>1 DEF LiveKeyIsNotLost
<1>4. OneKind'
  BY DEF SafeInv, OneKind
<1>5. QED BY <1>2, <1>3, <1>4 DEF SafeInv

------------------------------------------------------------------------------
(* The steps. *)

LEMMA SettledPCs ==
  ASSUME IInv, NEW p \in Procs, run[p].pc # "idle", NEW pc \in PCs,
         \/ Goto(p, pc)
         \/ \E name : run' = [run EXCEPT ![p].pc = pc, ![p].name = name]
         \/ \E id : run' = [run EXCEPT ![p].pc = pc, ![p].id = id]
  PROVE  run'[p].pc = pc /\ lock = p
<1>1. run \in [Procs -> Sessions] /\ run[p] \in Sessions /\ lock = p
  BY Facts
<1>2. QED BY <1>1 DEF Goto, Sessions

LEMMA ReturnSafe ==
  ASSUME IInv, SafeInv, IInv', NEW p \in Procs, UNCHANGED faults, run[p].pc # "idle",
         run[p].pc \notin Unsettled, Return(p)
  PROVE  SafeInv'
<1>1. UNCHANGED <<files, server, faults>> /\ lock = p /\ lock' = Nobody
  BY Facts DEF Return, Leave
<1>2. Settled'
  BY <1>1, SettledSame, ApiKeysAssumption
<1>3. QED BY <1>1, <1>2, FilesStay DEF server

LEMMA BeginSafe ==
  ASSUME IInv, SafeInv, IInv', NEW p \in Procs, UNCHANGED faults, Start(p)
  PROVE  SafeInv'
<1>1. PICK pc \in {"create", "revoke", "remote_revoke"} : \E id, delete : Enter(p, pc, id, delete)
  BY DEF Start, BeginCreate, BeginRevoke, BeginRemoteRevoke
<1>2. UNCHANGED <<files, server, faults>> /\ lock = Nobody /\ lock' = p /\ run'[p].pc = pc
  BY <1>1, Facts DEF Enter
<1>3. Settled'
  BY <1>2, SettledSame, ApiKeysAssumption DEF Unsettled
<1>4. QED BY <1>2, <1>3, FilesStay DEF server

LEMMA DecideSafe ==
  ASSUME IInv, SafeInv, IInv', NEW p \in Procs, UNCHANGED faults,
         \/ NewIntent(p) \/ Resume(p) \/ FoundPublished(p) \/ FoundOrphan(p) \/ FoundNothing(p)
         \/ CheckKey(p) \/ ListClear(p) \/ RevokeStart(p) \/ RevokedAlready(p)
  PROVE  SafeInv'
<1>1. /\ run[p].pc \in {"create", "find", "check", "list", "revoke"}
      /\ UNCHANGED <<files, server, lock>>
  BY DEF NewIntent, Resume, FoundPublished, FoundOrphan, FoundNothing, Found, CheckKey, ListClear,
         RevokeStart, RevokedAlready, At
<1>2. PICK pc \in {"intent_link", "find", "check", "orphan", "list", "complete", "post", "revoke_sent",
                   "delete"} :
        \/ Goto(p, pc)
        \/ \E name : run' = [run EXCEPT ![p].pc = pc, ![p].name = name]
        \/ \E id : run' = [run EXCEPT ![p].pc = pc, ![p].id = id]
  <2>1. CASE NewIntent(p) \/ Resume(p)
    BY <2>1 DEF NewIntent, Resume
  <2>2. CASE FoundPublished(p) \/ FoundOrphan(p) \/ FoundNothing(p)
    BY <2>2 DEF FoundPublished, FoundOrphan, FoundNothing, Found
  <2>3. CASE CheckKey(p) \/ ListClear(p) \/ RevokeStart(p) \/ RevokedAlready(p)
    BY <2>3 DEF CheckKey, ListClear, RevokeStart, RevokedAlready
  <2>4. QED BY <2>1, <2>2, <2>3
<1>3. run'[p].pc = pc /\ lock = p
  BY <1>1, <1>2, SettledPCs DEF PCs, Requesting
<1>4. Settled'
  BY <1>1, <1>2, <1>3, SettledSame DEF Unsettled
<1>5. QED BY <1>1, <1>4, FilesStay DEF server

(* A create() that posts, or posted, has settled metadata that names its key. *)
LEMMA PostIsRecorded ==
  ASSUME IInv, SafeInv, NEW p \in Procs, run[p].pc = "post"
  PROVE  \A d \in Left(meta) : d.name = run[p].name
<1>1. meta.now.name = run[p].name /\ lock = p
  BY Here, Facts DEF KnowsAt, Creating
<1>2. Left(meta) = {meta.now}
  BY <1>1, LeftFacts, SettledHere DEF Unsettled
<1>3. QED BY <1>1, <1>2

LEMMA RemoteSafe ==
  ASSUME IInv, SafeInv, IInv', NEW p \in Procs, UNCHANGED faults,
         RevokeOrphan(p) \/ Post(p) \/ Withdraw(p) \/ Revoke(p) \/ RemoteRevoke(p)
  PROVE  SafeInv'
<1>1. /\ run[p].pc \in {"orphan", "post", "withdraw", "revoke_sent", "remote_revoke"}
      /\ UNCHANGED <<files, late>>
  BY DEF RevokeOrphan, Post, Withdraw, Revoke, RemoteRevoke, At
<1>2. DataOK /\ KnowsAt(run[p].pc, run[p].name, run[p].id) /\ lock = p /\ run \in [Procs -> Sessions]
  BY <1>1, Here, Facts
<1>3. lock' = Nobody \/ (lock' = p /\ run'[p].pc \in {"list", "key_link", "mark"})
  <2>1. CASE Withdraw(p) \/ RemoteRevoke(p)
    BY <2>1 DEF Withdraw, RemoteRevoke, Leave
  <2>2. CASE RevokeOrphan(p) \/ Post(p) \/ Revoke(p)
    <3>1. /\ UNCHANGED lock
          /\ \E pc \in {"list", "key_link", "mark"} :
               \/ Goto(p, pc)
               \/ \E id : run' = [run EXCEPT ![p].pc = pc, ![p].id = id]
      BY <2>2 DEF RevokeOrphan, Post, Revoke
    <3>2. PICK pc \in {"list", "key_link", "mark"} :
               \/ Goto(p, pc)
               \/ \E id : run' = [run EXCEPT ![p].pc = pc, ![p].id = id]
      BY <3>1
    <3>3. run'[p].pc = pc
      BY <1>1, <3>2, SettledPCs DEF PCs
    <3>4. QED BY <1>2, <3>1, <3>3
  <2>3. QED BY <2>1, <2>2
<1>4. Settled'
  BY <1>1, <1>2, <1>3, SettledSame, ApiKeysAssumption DEF Unsettled
<1>5. ASSUME NEW x \in Ids, remote'[x] \in Names
      PROVE  remote'[x] = remote[x] \/ (FreeId(x) /\ \A d \in Left(meta) : d.name = remote'[x])
  <2>1. CASE Post(p)
    <3>1. run[p].pc = "post"
      BY <2>1 DEF Post, At
    <3>2. PICK i \in Ids : FreeId(i) /\ remote' = [remote EXCEPT ![i] = run[p].name]
      BY <2>1 DEF Post
    <3>3. QED BY <1>2, <1>5, <3>1, <3>2, PostIsRecorded DEF DataOK
  <2>2. CASE RevokeOrphan(p) \/ Withdraw(p) \/ Revoke(p) \/ RemoteRevoke(p)
    <3>1. Delete(run[p].id) /\ run[p].id \in Ids
      BY <1>2, <2>2 DEF RevokeOrphan, Withdraw, Revoke, RemoteRevoke, At, KnowsAt, Bound
    <3>2. QED BY <1>2, <1>5, <3>1, DeleteIs DEF DataOK
  <2>3. QED BY <2>1, <2>2
<1>6. QED BY <1>1, <1>4, <1>5, FilesStay

LEMMA DeliverSafe ==
  ASSUME IInv, SafeInv, IInv', UNCHANGED faults, Deliver
  PROVE  SafeInv'
<1>1. PICK r \in late :
        /\ late' = late \ {r} /\ UNCHANGED <<files, lock, run>>
        /\ \/ r.kind = "delete" /\ Delete(r.of)
           \/ /\ r.kind = "post"
              /\ \E id \in Ids : FreeId(id) /\ remote' = [remote EXCEPT ![id] = r.of]
  BY DEF Deliver
<1>2. DataOK /\ r \in Requests
  BY <1>1, Facts DEF DataOK
<1>3. Settled'
  BY <1>1 DEF SafeInv, Settled, SettledAt, files
<1>4. ASSUME NEW x \in Ids, remote'[x] \in Names
      PROVE  remote'[x] = remote[x] \/ (FreeId(x) /\ \A d \in Left(meta) : d.name = remote'[x])
  <2>1. CASE r.kind = "delete" /\ Delete(r.of)
    <3>1. r.of \in Ids
      BY <1>2, <2>1 DEF Requests
    <3>2. QED BY <1>2, <1>4, <2>1, <3>1, DeleteIs DEF DataOK
  <2>2. CASE r.kind = "post" /\ \E id \in Ids : FreeId(id) /\ remote' = [remote EXCEPT ![id] = r.of]
    <3>1. \A d \in Left(meta) : d.name = r.of
      BY <1>1, <2>2 DEF SafeInv, LateIsRecorded
    <3>2. QED BY <1>2, <1>4, <2>2, <3>1 DEF DataOK
  <2>3. QED BY <1>1, <2>1, <2>2
<1>5. QED BY <1>1, <1>3, <1>4, FilesStay

LEMMA GiveUpSafe ==
  ASSUME IInv, SafeInv, IInv', NEW p \in Procs, UNCHANGED faults, Timeout(p) \/ Kill(p)
  PROVE  SafeInv'
<1>1. /\ run[p].pc # "idle" /\ lock' = Nobody /\ UNCHANGED <<files, remote>>
      /\ late' = late \/ (run[p].pc \in Requesting /\ late' = late \cup {Request(p)})
  BY DEF Timeout, Kill, Requesting, At, Leave
<1>2. lock = p
  BY <1>1, Facts
<1>3. Settled'
  <2>1. CASE Timeout(p)
    <3>1. run[p].pc \notin Unsettled
      BY <2>1 DEF Timeout, Requesting, Unsettled
    <3>2. QED BY <1>1, <1>2, <3>1, SettledSame, ApiKeysAssumption
  <2>2. CASE Kill(p)
    BY <2>2 DEF SafeInv, OneKind, Settled, Kill
  <2>3. QED BY <2>1, <2>2
<1>4. ASSUME NEW q \in late', q.kind = "post" PROVE q \in late \/ \A d \in Left(meta) : d.name = q.of
  <2>1. CASE run[p].pc = "post" /\ q = Request(p)
    <3>1. q.of = run[p].name
      BY <2>1 DEF Request, Creation, At
    <3>2. QED BY <2>1, <3>1, PostIsRecorded
  <2>2. CASE run[p].pc # "post" /\ q = Request(p)
    BY <1>4, <2>2 DEF Request, Deletion, At
  <2>3. QED BY <1>1, <2>1, <2>2
<1>5. QED BY <1>1, <1>3, <1>4, FilesStay

LEMMA MetaSafe ==
  ASSUME IInv, SafeInv, IInv', NEW p \in Procs, UNCHANGED faults,
         \/ LinkIntent(p) \/ UnlinkIntentTemp(p) \/ SyncIntent(p) \/ Complete(p) \/ CompleteSync(p)
         \/ Mark(p) \/ MarkSync(p)
  PROVE  SafeInv'
<1>1. /\ run[p].pc \in {"intent_link", "intent_unlink", "intent_sync", "complete", "complete_sync", "mark",
                       "mark_sync"}
      /\ UNCHANGED <<key, server>>
  BY DEF LinkIntent, UnlinkIntentTemp, SyncIntent, Complete, CompleteSync, Mark, MarkSync, MetaStep, At
<1> PICK name, id : name = run[p].name /\ id = run[p].id
  OBVIOUS
<1>2. /\ FilesOK /\ DataOK /\ KnowsAt(run[p].pc, name, id) /\ name \in Names \cup {NoName}
      /\ id \in Ids \cup {NoId} /\ meta.now \in Docs /\ key' = key /\ lock = p
  BY <1>1, Here, Facts
<1>3. meta.now.state = "creating" => meta.now.name \in Names
  BY <1>2, DocFacts
<1>4. /\ "power" \in faults => key.disk = {key.now}
      /\ "power" \in faults /\ run[p].pc \in {"intent_link", "complete", "mark"} => meta.disk = {meta.now}
  BY <1>1, <1>2 DEF SafeInv, Settled, SettledAt
<1> USE DEF Creating, Bound
<1>5. CASE LinkIntent(p)
  <2> DEFINE new == Doc("creating", name, NoId, TRUE)
  <2>1. /\ run[p].pc = "intent_link" /\ meta' = Put(meta, new) /\ Goto(p, "intent_unlink") /\ UNCHANGED lock
    BY <1>5 DEF LinkIntent, MetaStep, At
  <2>2. meta.now = NoDoc /\ name \in Names
    BY <1>2, <2>1 DEF KnowsAt
  <2>3. new \in Docs /\ new.state = "creating"
    BY <2>2, NewDocs
  <2> HIDE DEF new
  <2>4. Settled'
    <3>1. run'[p].pc = "intent_unlink"
      BY <2>1, SettledPCs DEF PCs
    <3>2. "power" \in faults => SettledAt("intent_unlink")'
      BY <1>2, <1>4 DEF SettledAt
    <3>3. QED BY <2>1, <3>1, <3>2, SettledOn
  <2>5. QED BY <1>1, <2>1, <2>2, <2>3, <2>4, MetaMoves
<1>6. CASE UnlinkIntentTemp(p)
  <2> DEFINE new == [meta.now EXCEPT !.linked = FALSE]
  <2>1. /\ run[p].pc = "intent_unlink" /\ meta' = Put(meta, new) /\ Goto(p, "intent_sync")
        /\ UNCHANGED lock
    BY <1>6 DEF UnlinkIntentTemp, MetaStep, At
  <2>2. meta.now.state = "creating"
    BY <1>2, <2>1 DEF KnowsAt
  <2>3. new \in Docs /\ new.state = "creating" /\ new.name = meta.now.name
    BY <1>2, <2>2, NewDocs
  <2> HIDE DEF new
  <2>4. Settled'
    <3>1. run'[p].pc = "intent_sync"
      BY <2>1, SettledPCs DEF PCs
    <3>2. "power" \in faults => SettledAt("intent_sync")'
      BY <1>2, <1>4 DEF SettledAt
    <3>3. QED BY <2>1, <3>1, <3>2, SettledOn
  <2>5. QED BY <1>1, <2>1, <2>3, <2>4, MetaMoves
<1>7. CASE SyncIntent(p) \/ CompleteSync(p) \/ MarkSync(p)
  <2>1. meta' = Sync(meta)
    BY <1>7 DEF SyncIntent, CompleteSync, MarkSync, MetaStep
  <2>2. meta'.disk = {meta'.now}
    <3>1. Sync(meta).disk = {Sync(meta).now}
      BY DEF Sync, Fresh
    <3>2. QED BY <2>1, <3>1
  <2>3. \A pc \in {"list", "delete", "idle"} : "power" \in faults => SettledAt(pc)'
    BY <1>2, <1>4, <2>2 DEF SettledAt
  <2>4. Settled'
    <3>1. CASE CompleteSync(p)
      <4>1. lock' = Nobody
        BY <3>1 DEF CompleteSync, Leave
      <4>2. QED BY <2>3, <4>1, SettledEnd
    <3>2. CASE SyncIntent(p)
      <4>1. Goto(p, "list") /\ UNCHANGED lock
        BY <3>2 DEF SyncIntent, MetaStep
      <4>2. run'[p].pc = "list"
        BY <1>1, <4>1, SettledPCs DEF PCs
      <4>3. QED BY <1>1, <2>3, <4>1, <4>2, SettledOn
    <3>3. CASE MarkSync(p)
      <4>1. Goto(p, "delete") /\ UNCHANGED lock
        BY <3>3 DEF MarkSync, MetaStep
      <4>2. run'[p].pc = "delete"
        BY <1>1, <4>1, SettledPCs DEF PCs
      <4>3. QED BY <1>1, <2>3, <4>1, <4>2, SettledOn
    <3>4. QED BY <1>7, <3>1, <3>2, <3>3
  <2> PICK new \in Docs : new = meta.now
    BY <1>2
  <2>5. QED BY <1>1, <2>1, <2>4, MetaMoves
<1>8. CASE Complete(p)
  <2> DEFINE new == Doc("active", name, id, FALSE)
  <2>1. /\ run[p].pc = "complete" /\ meta' = Put(meta, new) /\ Goto(p, "complete_sync")
        /\ UNCHANGED lock
    BY <1>8 DEF Complete, MetaStep, At
  <2>2. /\ meta.now.state = "creating" /\ meta.now.name = name /\ name \in Names /\ id \in Ids
        /\ key.now = KeyFile(id, FALSE)
    BY <1>2, <1>3, <2>1 DEF KnowsAt
  <2>3. new \in Docs /\ new.name = name /\ new.id = id
    BY <2>2, NewDocs
  <2> HIDE DEF new
  <2>4. Settled'
    <3>1. run'[p].pc = "complete_sync"
      BY <2>1, SettledPCs DEF PCs
    <3>2. "power" \in faults => SettledAt("complete_sync")'
      BY <1>2, <1>4 DEF SettledAt
    <3>3. QED BY <2>1, <3>1, <3>2, SettledOn
  <2>5. Left(key) = {KeyFile(new.id, FALSE)}
    BY <1>4, <2>2, <2>3, LeftFacts
  <2>6. QED BY <1>1, <2>1, <2>2, <2>3, <2>4, <2>5, MetaMoves
<1>9. CASE Mark(p)
  <2> DEFINE new == [meta.now EXCEPT !.state = "revoked"]
  <2>1. /\ run[p].pc = "mark" /\ meta' = Put(meta, new) /\ Goto(p, "mark_sync")
        /\ UNCHANGED lock
    BY <1>9 DEF Mark, MetaStep, At
  <2>2. meta.now.state = "active"
    BY <1>2, <2>1 DEF KnowsAt
  <2>3. new \in Docs /\ new.state = "revoked" /\ new.name = meta.now.name
    BY <1>2, <2>2, NewDocs
  <2> HIDE DEF new
  <2>4. Settled'
    <3>1. run'[p].pc = "mark_sync"
      BY <2>1, SettledPCs DEF PCs
    <3>2. "power" \in faults => SettledAt("mark_sync")'
      BY <1>2, <1>4 DEF SettledAt
    <3>3. QED BY <2>1, <3>1, <3>2, SettledOn
  <2>5. QED BY <1>1, <2>1, <2>3, <2>4, MetaMoves
<1>10. QED BY <1>5, <1>6, <1>7, <1>8, <1>9

LEMMA KeySafe ==
  ASSUME IInv, SafeInv, IInv', NEW p \in Procs, UNCHANGED faults,
         LinkKey(p) \/ UnlinkKeyTemp(p) \/ SyncKey(p) \/ DeleteKey(p) \/ DeleteSync(p)
  PROVE  SafeInv'
<1>1. /\ run[p].pc \in {"key_link", "key_unlink", "key_sync", "delete", "delete_sync"}
      /\ UNCHANGED <<meta, server>>
  BY DEF LinkKey, UnlinkKeyTemp, SyncKey, DeleteKey, DeleteSync, KeyStep, At
<1>2. KnowsAt(run[p].pc, run[p].name, run[p].id) /\ lock = p /\ meta' = meta
  BY <1>1, Here, Facts
<1>3. "power" \in faults => meta.disk = {meta.now}
  BY <1>1, <1>2 DEF SafeInv, Settled, SettledAt
<1>4. \A d \in Left(meta) : d.state # "active"
  <2>1. meta.now.state # "active"
    BY <1>1, <1>2 DEF KnowsAt, Creating
  <2>2. QED BY <1>3, <2>1, LeftFacts
<1>5. Settled'
  <2>1. CASE LinkKey(p) \/ UnlinkKeyTemp(p) \/ DeleteKey(p)
    <3>1. PICK pc \in {"key_unlink", "key_sync", "delete_sync"} : Goto(p, pc) /\ UNCHANGED lock
      BY <2>1 DEF LinkKey, UnlinkKeyTemp, DeleteKey, KeyStep
    <3>2. run'[p].pc = pc
      BY <1>1, <3>1, SettledPCs DEF PCs
    <3>3. "power" \in faults => SettledAt(pc)'
      BY <1>2, <1>3, <3>1 DEF SettledAt
    <3>4. QED BY <1>1, <3>1, <3>2, <3>3, SettledOn
  <2>2. CASE SyncKey(p) \/ DeleteSync(p)
    <3>1. key' = Sync(key)
      BY <2>2 DEF SyncKey, DeleteSync, KeyStep
    <3>2. key'.disk = {key'.now}
      <4>1. Sync(key).disk = {Sync(key).now}
        BY DEF Sync, Fresh
      <4>2. QED BY <3>1, <4>1
    <3>3. \A pc : "power" \in faults => SettledAt(pc)'
      BY <1>2, <1>3, <3>2 DEF SettledAt
    <3>4. CASE SyncKey(p)
      <4>1. Goto(p, "complete") /\ UNCHANGED lock
        BY <3>4 DEF SyncKey, KeyStep
      <4>2. run'[p].pc = "complete"
        BY <1>1, <4>1, SettledPCs DEF PCs
      <4>3. QED BY <1>1, <3>3, <4>1, <4>2, SettledOn
    <3>5. CASE DeleteSync(p)
      <4>1. lock' = Nobody
        BY <3>5 DEF DeleteSync, Leave
      <4>2. QED BY <3>3, <4>1, SettledEnd
    <3>6. QED BY <2>2, <3>4, <3>5
  <2>3. QED BY <2>1, <2>2
<1>6. QED BY <1>1, <1>4, <1>5, KeyMoves

LEMMA ErrorSafe ==
  ASSUME IInv, SafeInv, IInv', NEW p \in Procs, UNCHANGED faults, Error(p)
  PROVE  SafeInv'
<1>1. /\ run[p].pc # "idle" /\ UNCHANGED server
      /\ \/ UNCHANGED files
         \/ /\ run[p].pc = "intent_unlink" /\ meta' = Put(meta, [meta.now EXCEPT !.linked = FALSE])
            /\ UNCHANGED key
         \/ /\ run[p].pc = "key_unlink" /\ key' = Put(key, [key.now EXCEPT !.linked = FALSE])
            /\ UNCHANGED meta
  BY DEF Error, At
<1>2. "power" \notin faults
  BY DEF Error, SafeInv, OneKind
<1>3. Settled' /\ KnowsAt(run[p].pc, run[p].name, run[p].id) /\ meta.now \in Docs
  BY <1>1, <1>2, Here DEF Settled
<1>4. CASE UNCHANGED files
  BY <1>1, <1>3, <1>4, FilesStay DEF server
<1>5. CASE /\ run[p].pc = "intent_unlink" /\ meta' = Put(meta, [meta.now EXCEPT !.linked = FALSE])
           /\ UNCHANGED key
  <2> DEFINE new == [meta.now EXCEPT !.linked = FALSE]
  <2>1. meta.now.state = "creating"
    BY <1>3, <1>5 DEF KnowsAt, Creating
  <2>2. new \in Docs /\ new.state = "creating" /\ new.name = meta.now.name
    BY <1>3, <2>1, NewDocs
  <2>3. meta' = Put(meta, new)
    BY <1>5
  <2> HIDE DEF new
  <2>4. QED BY <1>1, <1>3, <1>5, <2>2, <2>3, MetaMoves
<1>6. CASE /\ run[p].pc = "key_unlink" /\ key' = Put(key, [key.now EXCEPT !.linked = FALSE])
           /\ UNCHANGED meta
  <2>1. \A d \in Left(meta) : d.state # "active"
    BY <1>2, <1>3, <1>6, LeftFacts DEF KnowsAt, Creating
  <2>2. QED BY <1>1, <1>3, <1>6, <2>1, KeyMoves
<1>7. QED BY <1>1, <1>4, <1>5, <1>6

LEMMA PowerLossSafe ==
  ASSUME IInv, SafeInv, IInv', UNCHANGED faults, PowerLoss
  PROVE  SafeInv'
<1>1. /\ meta' \in AfterLoss(meta) /\ key' \in AfterLoss(key) /\ late' = {} /\ lock' = Nobody
      /\ remote' = remote /\ faults' = faults /\ "power" \in faults
  BY DEF PowerLoss
<1> PICK m \in AfterLoss(meta), k \in AfterLoss(key) : meta' = m /\ key' = k
  BY <1>1
<1>2. m.now \in meta.disk /\ m.disk = {m.now} /\ k.now \in key.disk /\ k.disk = {k.now}
  BY DEF AfterLoss, Fresh
<1>3. /\ Left(meta) = meta.disk /\ Left(key) = key.disk
      /\ Left(meta)' = {m.now} /\ Left(key)' = {k.now}
  BY <1>1, <1>2 DEF Left
<1>4. Settled'
  <2>1. SettledAt("idle")'
    BY <1>2 DEF SettledAt
  <2>2. QED BY <1>1, <2>1, SettledEnd
<1>5. LateIsRecorded'
  BY <1>1 DEF LateIsRecorded
<1>6. EveryLiveKeyIsRecorded'
  BY <1>1, <1>2, <1>3 DEF SafeInv, EveryLiveKeyIsRecorded, IsLive
<1>7. LiveKeyIsNotLost'
  <2>1. ASSUME m.now.state = "active", IsLive(m.now.id) PROVE k.now = KeyFile(m.now.id, FALSE)
    <3>1. Left(key) = {KeyFile(m.now.id, FALSE)}
      BY <1>2, <1>3, <2>1 DEF SafeInv, LiveKeyIsNotLost
    <3>2. k.now \in Left(key)
      BY <1>2, <1>3
    <3>3. QED BY <3>1, <3>2
  <2>2. \A x : IsLive(x)' <=> IsLive(x)
    BY <1>1 DEF IsLive
  <2>3. QED BY <1>3, <2>1, <2>2 DEF LiveKeyIsNotLost
<1>8. OneKind'
  BY <1>1 DEF SafeInv, OneKind
<1>9. QED BY <1>4, <1>5, <1>6, <1>7, <1>8 DEF SafeInv

------------------------------------------------------------------------------
(* The second part holds where no behaviour both loses power and has commands
   killed or calls fail. *)

OneKindOfFailure == \A f \in FaultModels : "power" \in f => f \cap {"kill", "error"} = {}

LEMMA InitIsSafe == ASSUME OneKindOfFailure, Init PROVE SafeInv
<1>1. /\ meta.now = NoDoc /\ meta.disk = {NoDoc} /\ key.now = NoKey /\ key.disk = {NoKey}
      /\ late = {} /\ remote = [id \in Ids |-> "unborn"] /\ faults \in FaultModels
      /\ \A p \in Procs : run[p].pc = "idle"
  BY IdleKnows DEF Init, Fresh
<1>2. OneKind
  BY <1>1 DEF OneKind, OneKindOfFailure
<1>3. Settled
  BY <1>1 DEF Settled, SettledAt
<1>4. \A id : ~IsLive(id)
  BY <1>1, ApiKeysAssumption DEF IsLive
<1>5. LateIsRecorded /\ EveryLiveKeyIsRecorded /\ LiveKeyIsNotLost
  BY <1>1, <1>4 DEF LateIsRecorded, EveryLiveKeyIsRecorded, LiveKeyIsNotLost
<1>6. QED BY <1>2, <1>3, <1>5 DEF SafeInv

LEMMA StepSafe ==
  ASSUME IInv, SafeInv, IInv', NEW p \in Procs, UNCHANGED faults, Step(p)
  PROVE  SafeInv'
<1>1. CASE CreateRefuse(p) \/ FoundOther(p) \/ CheckFail(p) \/ ListConflict(p) \/ RevokeRefuse(p) \/ DeleteNothing(p)
  <2>1. run[p].pc # "idle" /\ run[p].pc \notin Unsettled /\ Return(p)
    BY <1>1 DEF CreateRefuse, FoundOther, CheckFail, ListConflict, RevokeRefuse, DeleteNothing, At, Unsettled
  <2>2. QED BY <2>1, ReturnSafe
<1>2. CASE \/ NewIntent(p) \/ Resume(p) \/ FoundPublished(p) \/ FoundOrphan(p) \/ FoundNothing(p)
           \/ CheckKey(p) \/ ListClear(p) \/ RevokeStart(p) \/ RevokedAlready(p)
  BY <1>2, DecideSafe
<1>3. CASE RevokeOrphan(p) \/ Post(p) \/ Withdraw(p) \/ Revoke(p) \/ RemoteRevoke(p)
  BY <1>3, RemoteSafe
<1>4. CASE \/ LinkIntent(p) \/ UnlinkIntentTemp(p) \/ SyncIntent(p) \/ Complete(p) \/ CompleteSync(p)
           \/ Mark(p) \/ MarkSync(p)
  BY <1>4, MetaSafe
<1>5. CASE LinkKey(p) \/ UnlinkKeyTemp(p) \/ SyncKey(p) \/ DeleteKey(p) \/ DeleteSync(p)
  BY <1>5, KeySafe
<1>6. QED BY <1>1, <1>2, <1>3, <1>4, <1>5 DEF Step

LEMMA NextSafe ==
  ASSUME IInv, SafeInv, [Next]_<<vars, faults>>
  PROVE  SafeInv'
<1>1. IInv'
  BY NextPreserves
<1>2. CASE UNCHANGED <<vars, faults>>
  <2>1. UNCHANGED <<files, server, lock, run, faults>>
    BY <1>2 DEF vars
  <2>2. Settled'
    BY <2>1 DEF SafeInv, Settled, SettledAt, files
  <2>3. QED BY <2>1, <2>2, FilesStay DEF server
<1>3. ASSUME NEW p \in Procs, UNCHANGED faults, Start(p) \/ Step(p) \/ Fault(p)
      PROVE  SafeInv'
  BY <1>1, <1>3, BeginSafe, StepSafe, ErrorSafe, GiveUpSafe DEF Fault
<1>4. CASE Next
  BY <1>1, <1>3, <1>4, DeliverSafe, PowerLossSafe DEF Next
<1>5. QED BY <1>2, <1>4

LEMMA Safe == ASSUME OneKindOfFailure PROVE Spec => [](IInv /\ SafeInv)
<1>1. Init => IInv /\ SafeInv
  BY InitHolds, InitIsSafe
<1>2. IInv /\ SafeInv /\ [Next]_<<vars, faults>> => (IInv /\ SafeInv)'
  BY NextPreserves, NextSafe
<1>3. QED BY <1>1, <1>2, PTL DEF Spec

(* No key the control plane accepts is without a name in the metadata a crash would
   leave: the journal is committed before the request, and a request that is answered
   too late is one it names. *)
THEOREM NoOrphanKey == ASSUME OneKindOfFailure PROVE Spec => []EveryLiveKeyIsRecorded
<1>1. SafeInv => EveryLiveKeyIsRecorded
  BY DEF SafeInv
<1>2. QED BY <1>1, Safe, PTL

(* The raw value of a live key that the metadata calls active is in the key file, and
   in what a power failure would leave of it. *)
THEOREM ActiveKeyIsDurable == ASSUME OneKindOfFailure PROVE Spec => []LiveKeyIsNotLost
<1>1. SafeInv => LiveKeyIsNotLost
  BY DEF SafeInv
<1>2. QED BY <1>1, Safe, PTL

(* Before the raw value is deleted, the metadata that says revoked is what a power
   failure leaves; that a kill or a failing fsync came before it is the exception. *)
THEOREM RevokedBeforeDeleted ==
  ASSUME OneKindOfFailure PROVE Spec => []("power" \in faults => DurableBeforeDeleted)
<1>1. ASSUME IInv, SafeInv, "power" \in faults, NEW p \in Procs, At(p, "delete_sync"), NEW d \in meta.disk
      PROVE  d.state = "revoked"
  <2>1. run[p].pc = "delete_sync"
    BY <1>1 DEF At
  <2>2. meta.now.state = "revoked"
    BY <1>1, <2>1, Here DEF KnowsAt
  <2>3. meta.disk = {meta.now}
    BY <1>1, <2>1 DEF SafeInv, Settled, SettledAt
  <2>4. QED BY <1>1, <2>2, <2>3
<1>2. IInv /\ SafeInv => ("power" \in faults => DurableBeforeDeleted)
  BY <1>1 DEF DurableBeforeDeleted
<1>3. QED BY <1>2, Safe, PTL

------------------------------------------------------------------------------
(* One name, one key, as long as no request is carried out after its client gave up:
   the list is read under the lock, and nobody else can ask for a key before this
   command does. *)

NoLateRequest == \A f \in FaultModels : "late" \notin f

OneName == \A i, j \in Ids : IsLive(i) /\ remote[i] = remote[j] => i = j
ListedClear == \A p \in Procs : At(p, "post") => run[p].name \in Names /\ Live(run[p].name) = {}
NameInv == "late" \notin faults /\ late = {} /\ OneName /\ ListedClear

(* No step but ListClear brings a command to its request, and none but Post gives the
   control plane another key. *)
Quietly ==
  /\ \A q \in Procs : run'[q].pc = "post" => run'[q] = run[q]
  /\ \A x \in Ids : remote'[x] \in Names => remote'[x] = remote[x]

LEMMA NamesStay ==
  ASSUME NameInv, Quietly, late' = {}, UNCHANGED faults
  PROVE  NameInv'
<1>1. OneName'
  BY DEF NameInv, OneName, Quietly, IsLive
<1>2. ASSUME NEW q \in Procs, run'[q].pc = "post"
      PROVE  run'[q].name \in Names /\ \A x \in Ids : remote'[x] # run'[q].name
  <2>1. run[q].name \in Names /\ Live(run[q].name) = {} /\ run'[q] = run[q]
    BY <1>2 DEF NameInv, ListedClear, Quietly, At
  <2>2. QED BY <2>1 DEF Live, Quietly
<1>3. ListedClear'
  BY <1>2 DEF ListedClear, At, Live
<1>4. QED BY <1>1, <1>3 DEF NameInv

LEMMA Moves ==
  ASSUME IInv, NEW p \in Procs
  PROVE  /\ \A pc : Goto(p, pc) => run'[p].pc = pc /\ \A q \in Procs \ {p} : run'[q] = run[q]
         /\ Leave(p) => run'[p].pc = "idle" /\ \A q \in Procs \ {p} : run'[q] = run[q]
<1>1. run \in [Procs -> Sessions]
  BY Facts
<1>2. QED BY <1>1 DEF Goto, Leave, Idle, Sessions

LEMMA StepNames ==
  ASSUME IInv, NameInv, UNCHANGED faults, NEW p \in Procs, Start(p) \/ Step(p) \/ Fault(p)
  PROVE  NameInv'
<1>1. /\ late = {} /\ "late" \notin faults /\ run \in [Procs -> Sessions]
      /\ remote \in [Ids -> Names \cup {"unborn", "gone"}]
  BY Facts DEF NameInv, DataOK
<1>2. ASSUME NEW pc, pc # "post", Goto(p, pc), UNCHANGED <<server, faults>> PROVE NameInv'
  <2>1. run'[p].pc = pc /\ \A q \in Procs \ {p} : run'[q] = run[q]
    BY <1>2, Moves
  <2>2. QED BY <1>1, <1>2, <2>1, NamesStay DEF Quietly, server
<1>3. ASSUME Leave(p), UNCHANGED <<server, faults>> PROVE NameInv'
  <2>1. run'[p].pc = "idle" /\ \A q \in Procs \ {p} : run'[q] = run[q]
    BY <1>3, Moves
  <2>2. QED BY <1>1, <1>3, <2>1, NamesStay DEF Quietly, server
<1>4. CASE Start(p)
  <2>1. PICK r : r.pc # "post" /\ run' = [run EXCEPT ![p] = r] /\ UNCHANGED server
    BY <1>4 DEF Start, BeginCreate, BeginRevoke, BeginRemoteRevoke, Enter
  <2>2. QED BY <1>1, <2>1, NamesStay DEF Quietly, server
<1>5. CASE CreateRefuse(p) \/ FoundOther(p) \/ CheckFail(p) \/ ListConflict(p) \/ RevokeRefuse(p) \/ DeleteNothing(p)
  BY <1>3, <1>5 DEF CreateRefuse, FoundOther, CheckFail, ListConflict, RevokeRefuse, DeleteNothing, Return
<1>6. CASE \/ LinkIntent(p) \/ UnlinkIntentTemp(p) \/ SyncIntent(p) \/ Complete(p) \/ Mark(p) \/ MarkSync(p)
           \/ LinkKey(p) \/ UnlinkKeyTemp(p) \/ SyncKey(p) \/ DeleteKey(p) \/ CheckKey(p) \/ RevokedAlready(p)
  BY <1>2, <1>6 DEF LinkIntent, UnlinkIntentTemp, SyncIntent, Complete, Mark, MarkSync, MetaStep,
     LinkKey, UnlinkKeyTemp, SyncKey, DeleteKey, KeyStep, CheckKey, RevokedAlready
<1>7. CASE CompleteSync(p) \/ DeleteSync(p)
  BY <1>3, <1>7 DEF CompleteSync, DeleteSync
<1>8. CASE NewIntent(p) \/ Resume(p) \/ FoundPublished(p) \/ FoundOrphan(p) \/ FoundNothing(p) \/ RevokeStart(p)
  <2>1. run'[p].pc # "post" /\ (\A q \in Procs \ {p} : run'[q] = run[q]) /\ UNCHANGED server
    BY <1>1, <1>8 DEF NewIntent, Resume, FoundPublished, FoundOrphan, FoundNothing, Found, RevokeStart, Sessions
  <2>2. QED BY <1>1, <2>1, NamesStay DEF Quietly, server
<1>9. CASE RevokeOrphan(p) \/ Withdraw(p) \/ Revoke(p) \/ RemoteRevoke(p)
  <2>1. Delete(run[p].id) /\ late' = late
    BY <1>9 DEF RevokeOrphan, Withdraw, Revoke, RemoteRevoke
  <2>2. \A x \in Ids : remote'[x] \in Names => remote'[x] = remote[x]
    BY <1>1, <2>1, ApiKeysAssumption DEF Delete
  <2>3. run'[p].pc # "post" /\ \A q \in Procs \ {p} : run'[q] = run[q]
    BY <1>1, <1>9, Moves DEF RevokeOrphan, Withdraw, Revoke, RemoteRevoke, Sessions
  <2>4. QED BY <1>1, <2>1, <2>2, <2>3, NamesStay DEF Quietly
<1>10. CASE ListClear(p)
  <2>1. run[p].pc = "list" /\ Live(run[p].name) = {} /\ UNCHANGED server
    BY <1>10 DEF ListClear, At
  <2>2. /\ run'[p].pc = "post" /\ run'[p].name = run[p].name
        /\ \A q \in Procs \ {p} : run'[q] = run[q]
    BY <1>1, <1>10 DEF ListClear, Goto, Sessions
  <2>3. run[p].name \in Names
    <3>1. meta.now.state = "creating" /\ meta.now.name = run[p].name /\ meta.now \in Docs
      BY <2>1, Here DEF KnowsAt, Creating
    <3>2. QED BY <3>1, DocFacts
  <2>4. ListedClear'
    BY <2>1, <2>2, <2>3 DEF NameInv, ListedClear, At, Live, server
  <2>5. OneName'
    BY <2>1 DEF NameInv, OneName, IsLive, server
  <2>6. QED BY <1>1, <2>1, <2>4, <2>5 DEF NameInv, server
<1>11. CASE Post(p)
  <2>1. PICK id \in Ids :
          /\ FreeId(id) /\ remote' = [remote EXCEPT ![id] = run[p].name] /\ late' = late
          /\ run' = [run EXCEPT ![p].pc = "key_link", ![p].id = id]
    BY <1>11 DEF Post
  <2>2. run[p].name \in Names /\ Live(run[p].name) = {}
    BY <1>11 DEF Post, NameInv, ListedClear
  <2>3. run'[p].pc # "post" /\ \A q \in Procs \ {p} : run'[q].pc = "idle"
    BY <1>1, <1>11, <2>1, Facts DEF Post, At, Sessions, Idle
  <2>4. OneName'
    BY <1>1, <2>1, <2>2 DEF NameInv, OneName, IsLive, Live
  <2>5. ListedClear'
    BY <2>3 DEF ListedClear, At
  <2>6. QED BY <1>1, <2>1, <2>4, <2>5 DEF NameInv
<1>12. CASE Error(p)
  BY <1>2, <1>3, <1>12 DEF Error
<1>13. CASE Timeout(p)
  BY <1>1, <1>13 DEF Timeout
<1>14. CASE Kill(p)
  BY <1>1, <1>3, <1>14 DEF Kill, server
<1>15. QED BY <1>4, <1>5, <1>6, <1>7, <1>8, <1>9, <1>10, <1>11, <1>12, <1>13, <1>14 DEF Step, Fault

LEMMA NextNames == ASSUME IInv, NameInv, [Next]_<<vars, faults>> PROVE NameInv'
<1>1. CASE UNCHANGED <<vars, faults>>
  BY <1>1, NamesStay DEF NameInv, Quietly, vars, server
<1>2. CASE Deliver
  BY <1>2 DEF Deliver, NameInv
<1>3. CASE PowerLoss /\ UNCHANGED faults
  BY <1>3, NamesStay DEF PowerLoss, Quietly, Idle
<1>4. QED BY <1>1, <1>2, <1>3, StepNames DEF Next

(* "Without exposing or duplicating its secret": two live keys never have one name,
   whatever is killed, fails or loses power, while requests end with their clients. *)
THEOREM OneKeyForOneName == ASSUME NoLateRequest PROVE Spec => []OneRemoteKey
<1>1. Init => NameInv
  BY ApiKeysAssumption DEF Init, NameInv, OneName, ListedClear, IsLive, At, Idle, NoLateRequest
<1>2. Spec => []NameInv
  BY <1>1, NextNames, Invariance, PTL DEF Spec
<1>3. ASSUME NameInv, NEW name \in Names PROVE Cardinality(Live(name)) <= 1
  <2>1. \A i, j \in Live(name) : i = j
    BY <1>3 DEF NameInv, OneName, IsLive, Live
  <2>2. Live(name) = {} \/ \E i : Live(name) = {i}
    BY <2>1
  <2>3. QED BY <2>2, FS_EmptySet, FS_Singleton
<1>4. NameInv => OneRemoteKey
  BY <1>3 DEF OneRemoteKey
<1>5. QED BY <1>2, <1>4, PTL

------------------------------------------------------------------------------
(* The operator who repeats both commands once failures have ceased is one of the
   behaviours of the program: what was proved of it holds whoever is at work. *)
THEOREM OperatorIsAllowed == OperatorSpec => Spec
<1>1. OperatorInit => Init
  BY DEF OperatorInit
<1>2. [OperatorNext]_<<vars, faults, calm>> => [Next]_<<vars, faults>>
  BY DEF OperatorNext, CalmDown, Troubled, Work, Next
<1>3. QED BY <1>1, <1>2, PTL DEF OperatorSpec, Spec

(* Repeating the commands, whatever came before it, makes no metadata untrue and no
   live key unrecorded or lost. *)
THEOREM RepeatingIsSafe ==
  ASSUME OneKindOfFailure
  PROVE  OperatorSpec => [](MetadataIsTrue /\ EveryLiveKeyIsRecorded /\ LiveKeyIsNotLost)
BY OperatorIsAllowed, WhatTheMetadataSays, NoOrphanKey, ActiveKeyIsDurable, PTL
==============================================================================

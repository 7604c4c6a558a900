------------------------------- MODULE ApiKeys -------------------------------
(***************************************************************************)
(* api_keys.py: one API key of a service, kept in three places that fail   *)
(* independently: the metadata file (a journal of its own), the key file   *)
(* that alone holds the raw value, and the control plane that accepts the  *)
(* key.  create() and revoke() run under the lifecycle lock; they can be   *)
(* killed, a system call can fail, the host can lose power, and a request  *)
(* can be answered too late: the control plane acts on it after the client *)
(* gave up.                                                                *)
(*                                                                         *)
(* The two files may be in different directories (--metadata-file).  list  *)
(* and verify change nothing and are not actions.                          *)
(***************************************************************************)
EXTENDS Naturals, FiniteSets, CrashFs

CONSTANTS
  Procs, Nobody,  \* processes, and no process
  Ids, NoId,      \* the UUIDs the control plane can give a key
  Names, NoName,  \* <label>--kitdev-<operation id>: one for each intent
  FaultModels     \* what may go wrong together: sets of FaultKinds

FaultKinds == {"kill",   \* SIGKILL
               "error",  \* a system call or a request raises
               "late",   \* a request times out and is acted on later
               "power"}  \* the host loses power

ASSUME ApiKeysAssumption ==
  /\ Nobody \notin Procs /\ NoId \notin Ids /\ NoName \notin Names
  /\ IsFiniteSet(Ids) /\ {"unborn", "gone"} \cap Names = {}
  /\ FaultModels \subseteq SUBSET FaultKinds

VARIABLES
  meta,    \* the metadata file
  key,     \* the key file
  remote,  \* id -> the name of the live key, or not born, or gone
  late,    \* requests that are under way after their client gave up
  lock,    \* flock on the lifecycle lock
  run,     \* process -> the command it is in, and where
  faults   \* the fault model of this behaviour

files == <<meta, key>>
server == <<remote, late>>
vars == <<files, server, lock, run>>

(* linked: the temporary name a file was linked from is still there, so
   _secure_read finds st_nlink = 2 and refuses the file. *)
Doc(state, name, id, linked) == [state |-> state, name |-> name, id |-> id, linked |-> linked]
NoDoc == Doc("none", NoName, NoId, FALSE)
Docs == {NoDoc}
  \cup [state : {"creating"}, name : Names, id : {NoId}, linked : BOOLEAN]
  \cup [state : {"active", "revoked"}, name : Names, id : Ids, linked : {FALSE}]

KeyFile(id, linked) == [id |-> id, linked |-> linked]
NoKey == KeyFile(NoId, FALSE)

Deletion(id) == [kind |-> "delete", of |-> id]
Creation(name) == [kind |-> "post", of |-> name]
Requests == [kind : {"delete"}, of : Ids] \cup [kind : {"post"}, of : Names]

Requesting == {"orphan", "post", "withdraw", "revoke_sent", "remote_revoke"}
PCs == Requesting \cup
  {"idle", "create", "intent_link", "intent_unlink", "intent_sync", "find", "check",
   "list", "key_link", "key_unlink", "key_sync", "complete", "complete_sync",
   "revoke", "mark", "mark_sync", "delete", "delete_sync"}

Idle == [pc |-> "idle", name |-> NoName, id |-> NoId, delete |-> FALSE]

------------------------------------------------------------------------------
(* What a command sees, and what it asks for. *)

Live(name) == {id \in Ids : remote[id] = name}
IsLive(id) == id \in Ids /\ remote[id] \in Names

(* uuid4: an id or a name that nothing refers to any more may stand for a
   new one. *)
FreeId(id) ==
  /\ remote[id] \notin Names
  /\ \A d \in meta.disk \cup {meta.now} : d.id # id
  /\ \A k \in key.disk \cup {key.now} : k.id # id
  /\ Deletion(id) \notin late
  /\ \A p \in Procs : run[p].id # id
FreeName(name) ==
  /\ Live(name) = {} /\ Creation(name) \notin late
  /\ \A d \in meta.disk \cup {meta.now} : d.name # name

Goto(p, pc) == run' = [run EXCEPT ![p].pc = pc]
At(p, pc) == run[p].pc = pc

Leave(p) ==
  /\ run' = [run EXCEPT ![p] = Idle]
  /\ lock' = Nobody

Request(p) == IF At(p, "post") THEN Creation(run[p].name) ELSE Deletion(run[p].id)

(* DELETE is answered 204, or 404 when the key is not there: both are fine. *)
Delete(id) == remote' = [remote EXCEPT ![id] = IF @ \in Names THEN "gone" ELSE @]

------------------------------------------------------------------------------
(* _lifecycle_lock: nonblocking; a busy lock ends the command. *)

Enter(p, pc, id, delete) ==
  /\ At(p, "idle")
  /\ lock = Nobody
  /\ lock' = p
  /\ run' = [run EXCEPT ![p] = [pc |-> pc, name |-> NoName, id |-> id, delete |-> delete]]
  /\ UNCHANGED <<files, server>>

BeginCreate(p) == Enter(p, "create", NoId, FALSE)
BeginRevoke(p, delete) == Enter(p, "revoke", NoId, delete)

(* revoke without --metadata-file, of an id the operator took from list. *)
BeginRemoteRevoke(p, id) == IsLive(id) /\ Enter(p, "remote_revoke", id, FALSE)

------------------------------------------------------------------------------
(* create(): the intent. *)

Return(p) == Leave(p) /\ UNCHANGED <<files, server>>

CreateRefuse(p) ==
  /\ At(p, "create")
  /\ \/ meta.now = NoDoc /\ key.now # NoKey
     \/ meta.now.linked
  /\ Return(p)

NewIntent(p) ==
  /\ At(p, "create") /\ meta.now = NoDoc /\ key.now = NoKey
  /\ \E name \in Names :
       /\ FreeName(name)
       /\ run' = [run EXCEPT ![p].pc = "intent_link", ![p].name = name]
  /\ UNCHANGED <<files, server, lock>>

(* One step of publishing the metadata: _publish_metadata. *)
MetaStep(p, at, next, new) ==
  /\ At(p, at)
  /\ meta' = new
  /\ Goto(p, next)
  /\ UNCHANGED <<key, server, lock>>

LinkIntent(p) ==
  MetaStep(p, "intent_link", "intent_unlink",
           Put(meta, Doc("creating", run[p].name, NoId, TRUE)))
UnlinkIntentTemp(p) ==
  MetaStep(p, "intent_unlink", "intent_sync", Put(meta, [meta.now EXCEPT !.linked = FALSE]))
SyncIntentForgotten(p) == MetaStep(p, "intent_sync", "list", meta)  \* mutant
SyncIntent(p) == MetaStep(p, "intent_sync", "list", Sync(meta))

(* create() repeated: what the journal and the control plane say together. *)
Resume(p) ==
  /\ At(p, "create") /\ meta.now # NoDoc /\ ~meta.now.linked
  /\ run' = [run EXCEPT ![p].pc = "find", ![p].name = meta.now.name]
  /\ UNCHANGED <<files, server, lock>>

Found(p, pc, ids) ==
  /\ At(p, "find") /\ meta.now.state = "creating"
  /\ \E id \in ids : run' = [run EXCEPT ![p].pc = pc, ![p].id = id]
  /\ UNCHANGED <<files, server, lock>>

Unique(ids) == IF Cardinality(ids) = 1 THEN ids ELSE {}

FoundPublishedAmbiguous(p) ==  \* mutant: the number of remote keys is not looked at
  key.now # NoKey /\ Found(p, "check", Live(run[p].name))

FoundPublished(p) == key.now # NoKey /\ Found(p, "check", Unique(Live(run[p].name)))

FoundOrphanKept(p) ==  \* mutant: the orphan is not revoked
  key.now = NoKey /\ Found(p, "list", Unique(Live(run[p].name)))

FoundOrphan(p) == key.now = NoKey /\ Found(p, "orphan", Unique(Live(run[p].name)))
FoundNothing(p) ==
  key.now = NoKey /\ Live(run[p].name) = {} /\ Found(p, "list", {NoId})

(* Verified and returned as existing, or refused; nothing changes. *)
FoundOther(p) ==
  /\ At(p, "find")
  /\ \/ meta.now.state # "creating"
     \/ Cardinality(Live(run[p].name)) > 1
     \/ key.now # NoKey /\ Live(run[p].name) = {}
  /\ Return(p)

(* verify(): the key in the file still authenticates. *)
Verified == ~key.now.linked /\ IsLive(key.now.id)

CheckKey(p) ==
  /\ At(p, "check") /\ Verified
  /\ Goto(p, "complete")
  /\ UNCHANGED <<files, server, lock>>

CheckFail(p) == At(p, "check") /\ ~Verified /\ Return(p)

RevokeOrphan(p) ==
  /\ At(p, "orphan")
  /\ Delete(run[p].id)
  /\ run' = [run EXCEPT ![p].pc = "list", ![p].id = NoId]
  /\ UNCHANGED <<files, late, lock>>

------------------------------------------------------------------------------
(* create(): the key. *)

ListClear(p) ==
  /\ At(p, "list") /\ Live(run[p].name) = {}
  /\ Goto(p, "post")
  /\ UNCHANGED <<files, server, lock>>

ListConflict(p) == At(p, "list") /\ Live(run[p].name) # {} /\ Return(p)

Post(p) ==
  /\ At(p, "post")
  /\ \E id \in Ids :
       /\ FreeId(id)
       /\ remote' = [remote EXCEPT ![id] = run[p].name]
       /\ run' = [run EXCEPT ![p].pc = "key_link", ![p].id = id]
  /\ UNCHANGED <<files, late, lock>>

(* _publish_exclusive. *)
KeyStep(p, at, next, new) ==
  /\ At(p, at)
  /\ key' = new
  /\ Goto(p, next)
  /\ UNCHANGED <<meta, server, lock>>

LinkKey(p) ==
  KeyStep(p, "key_link", "key_unlink", Put(key, KeyFile(run[p].id, TRUE)))
UnlinkKeyTemp(p) ==
  KeyStep(p, "key_unlink", "key_sync", Put(key, [key.now EXCEPT !.linked = FALSE]))
SyncKeyForgotten(p) == KeyStep(p, "key_sync", "complete", key)  \* mutant
SyncKey(p) == KeyStep(p, "key_sync", "complete", Sync(key))

Complete(p) ==
  MetaStep(p, "complete", "complete_sync",
           Put(meta, Doc("active", run[p].name, run[p].id, FALSE)))

CompleteSync(p) ==
  /\ At(p, "complete_sync")
  /\ meta' = Sync(meta)
  /\ Leave(p)
  /\ UNCHANGED <<key, server>>

(* The exception handler takes back a key it could not publish. *)
Withdraw(p) ==
  /\ At(p, "withdraw")
  /\ Delete(run[p].id)
  /\ Leave(p)
  /\ UNCHANGED <<files, late>>

------------------------------------------------------------------------------
(* revoke. *)

RevokeStart(p) ==
  /\ At(p, "revoke") /\ meta.now.state = "active"
  /\ run' = [run EXCEPT ![p].pc = "revoke_sent", ![p].id = meta.now.id]
  /\ UNCHANGED <<files, server, lock>>

MarkFirst(p) ==  \* mutant: the journal is written before the request
  /\ At(p, "revoke_sent")
  /\ Goto(p, "mark")
  /\ UNCHANGED <<files, server, lock>>

Revoke(p) ==
  /\ At(p, "revoke_sent")
  /\ Delete(run[p].id)
  /\ Goto(p, "mark")
  /\ UNCHANGED <<files, late, lock>>

Mark(p) ==
  MetaStep(p, "mark", "mark_sync", Put(meta, [meta.now EXCEPT !.state = "revoked"]))
MarkSync(p) == MetaStep(p, "mark_sync", "delete", Sync(meta))

(* A key that is already revoked: only its file is left to delete. *)
RevokedSkip(p) == At(p, "revoke") /\ meta.now.state = "revoked" /\ Return(p)  \* mutant
RevokedAlready(p) ==
  /\ At(p, "revoke") /\ meta.now.state = "revoked"
  /\ Goto(p, "delete")
  /\ UNCHANGED <<files, server, lock>>

RevokeRefuse(p) ==
  At(p, "revoke") /\ meta.now.state \in {"none", "creating"} /\ Return(p)

(* _delete_bound_key_file. *)
DeleteKey(p) ==
  /\ run[p].delete /\ key.now # NoKey /\ ~key.now.linked
  /\ KeyStep(p, "delete", "delete_sync", Put(key, NoKey))

DeleteNothing(p) ==
  /\ At(p, "delete")
  /\ ~run[p].delete \/ key.now = NoKey \/ key.now.linked
  /\ Return(p)

DeleteSync(p) ==
  /\ At(p, "delete_sync")
  /\ key' = Sync(key)
  /\ Leave(p)
  /\ UNCHANGED <<meta, server>>

RemoteRevoke(p) ==
  /\ At(p, "remote_revoke")
  /\ Delete(run[p].id)
  /\ Leave(p)
  /\ UNCHANGED <<files, late>>

------------------------------------------------------------------------------
(* What goes wrong. *)

(* A call raises.  The publishers' finally clause unlinks the temporary name,
   if it can; an exception between POST and the end of _publish_exclusive goes
   to the handler. *)
Error(p) ==
  /\ "error" \in faults
  /\ ~At(p, "idle")
  /\ \/ UNCHANGED files
     \/ At(p, "intent_unlink") /\ meta' = Put(meta, [meta.now EXCEPT !.linked = FALSE])
        /\ UNCHANGED key
     \/ At(p, "key_unlink") /\ key' = Put(key, [key.now EXCEPT !.linked = FALSE])
        /\ UNCHANGED meta
  /\ IF run[p].pc \in {"key_link", "key_unlink", "key_sync"}
     THEN Goto(p, "withdraw") /\ UNCHANGED lock
     ELSE Leave(p)
  /\ UNCHANGED server

(* The ten seconds are over and the request is not cancelled. *)
Timeout(p) ==
  /\ "late" \in faults
  /\ run[p].pc \in Requesting
  /\ late' = late \cup {Request(p)}
  /\ Leave(p)
  /\ UNCHANGED <<files, remote>>

Kill(p) ==
  /\ "kill" \in faults
  /\ ~At(p, "idle")
  /\ Leave(p)
  /\ UNCHANGED <<files, remote>>
  /\ late' \in {late} \cup
       (IF run[p].pc \in Requesting /\ "late" \in faults THEN {late \cup {Request(p)}} ELSE {})

(* The control plane gets to a request nobody waits for. *)
Deliver ==
  \E r \in late :
    /\ late' = late \ {r}
    /\ \/ r.kind = "delete" /\ Delete(r.of)
       \/ /\ r.kind = "post"
          /\ \E id \in Ids : FreeId(id) /\ remote' = [remote EXCEPT ![id] = r.of]
    /\ UNCHANGED <<files, lock, run>>

(* The control plane's database is durable; what it had not done is lost. *)
PowerLoss ==
  /\ "power" \in faults
  /\ meta' \in AfterLoss(meta)
  /\ key' \in AfterLoss(key)
  /\ late' = {}
  /\ lock' = Nobody
  /\ run' = [p \in Procs |-> Idle]
  /\ UNCHANGED remote

------------------------------------------------------------------------------
Init ==
  /\ meta = Fresh(NoDoc)
  /\ key = Fresh(NoKey)
  /\ remote = [id \in Ids |-> "unborn"]
  /\ late = {}
  /\ lock = Nobody
  /\ run = [p \in Procs |-> Idle]
  /\ faults \in FaultModels

Start(p) ==
  \/ BeginCreate(p)
  \/ \E delete \in BOOLEAN : BeginRevoke(p, delete)
  \/ \E id \in Ids : BeginRemoteRevoke(p, id)

Step(p) ==
  \/ CreateRefuse(p) \/ NewIntent(p) \/ LinkIntent(p) \/ UnlinkIntentTemp(p) \/ SyncIntent(p)
  \/ Resume(p) \/ FoundPublished(p) \/ FoundOrphan(p) \/ FoundNothing(p) \/ FoundOther(p)
  \/ CheckKey(p) \/ CheckFail(p) \/ RevokeOrphan(p)
  \/ ListClear(p) \/ ListConflict(p) \/ Post(p)
  \/ LinkKey(p) \/ UnlinkKeyTemp(p) \/ SyncKey(p) \/ Complete(p) \/ CompleteSync(p) \/ Withdraw(p)
  \/ RevokeStart(p) \/ Revoke(p) \/ Mark(p) \/ MarkSync(p) \/ RevokedAlready(p) \/ RevokeRefuse(p)
  \/ DeleteKey(p) \/ DeleteNothing(p) \/ DeleteSync(p) \/ RemoteRevoke(p)

Fault(p) == Error(p) \/ Timeout(p) \/ Kill(p)

Next ==
  /\ \/ \E p \in Procs : Start(p) \/ Step(p) \/ Fault(p)
     \/ Deliver
     \/ PowerLoss
  /\ UNCHANGED faults

Spec == Init /\ [][Next]_<<vars, faults>>

------------------------------------------------------------------------------
(* Properties. *)

TypeOK ==
  /\ faults \in FaultModels
  /\ meta \in DirOf(Docs)
  /\ key \in DirOf([id : Ids, linked : BOOLEAN] \cup {NoKey})
  /\ remote \in [Ids -> Names \cup {"unborn", "gone"}]
  /\ late \subseteq Requests
  /\ lock \in Procs \cup {Nobody}
  /\ run \in [Procs -> [pc : PCs, name : Names \cup {NoName}, id : Ids \cup {NoId},
                        delete : BOOLEAN]]

(* Metadata that says active names the key whose raw value is in the key file,
   even when the control plane was late with an earlier request of the same
   name: create() binds neither another id nor another value. *)
ActiveMatches ==
  \A d \in meta.disk, k \in key.disk :
    d.state = "active" /\ k # NoKey => k.id = d.id

(* Metadata that says revoked is true, in every interruption of revoke and of
   its repetition: the request comes first. *)
RevokedIsGone == \A d \in meta.disk : d.state = "revoked" => ~IsLive(d.id)

(* What the metadata says of the control plane and of the key file is true, in
   every state a kill, a late request or a power failure can leave. *)
MetadataIsTrue == ActiveMatches /\ RevokedIsGone

(* What may be left of a file by anything that can still go wrong. *)
Left(dir) == IF "power" \in faults THEN dir.disk ELSE {dir.now}

(* Every key the control plane accepts has its name in the metadata that a
   crash would leave: "create first commits a root-owned mode-0600 journal". *)
EveryLiveKeyIsRecorded ==
  \A id \in Ids : IsLive(id) => \A d \in Left(meta) : d.name = remote[id]

(* The raw value of a live key that the metadata calls active survives a power
   failure: _publish_exclusive is durable before the metadata says so. *)
LiveKeyIsNotLost ==
  \A d \in Left(meta) :
    d.state = "active" /\ IsLive(d.id) => Left(key) = {KeyFile(d.id, FALSE)}

(* docs/bare-metal-operator-guide.md and
   docs/research/api-key-lifecycle-contract.md, sentence by sentence. *)

(* "Repeating the identical create command verifies and returns the existing
   key, or completes a journaled interruption": it must be able to read the two
   files it finds. *)
RerunCanRead == lock = Nobody => ~meta.now.linked /\ ~key.now.linked

(* "revokes a remote orphan whose raw value was never durably published": the
   handler of create() takes back no key whose file is there, which a repeated
   create could neither finish nor replace. *)
WithdrawsOnlyUnpublished == \A p \in Procs : At(p, "withdraw") => key.now.id # run[p].id

(* "an interrupted create can be reconciled without exposing or duplicating its
   secret": one name, one key. *)
OneRemoteKey == \A name \in Names : Cardinality(Live(name)) <= 1

(* "The remote revoke and revoked metadata journal become durable before the
   exact metadata-bound regular key file is removed". *)
DurableBeforeDeleted ==
  \A p \in Procs : At(p, "delete_sync") => \A d \in meta.disk : d.state = "revoked"
==============================================================================

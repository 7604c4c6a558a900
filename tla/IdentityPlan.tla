---------------------------- MODULE IdentityPlan ----------------------------
(***************************************************************************)
(* identity.py: "kitdev install --dry-run --phase identity-access".  It    *)
(* reads accounts, groups and the two databases through getent, and plans  *)
(* the service identities: fixed ids from a reserved band, first free or   *)
(* exactly those of an earlier plan's manifest, and all or nothing.        *)
(*                                                                         *)
(* The repository has no apply yet, and the CLI passes neither a manifest  *)
(* nor verified prerequisites: `manifest` and `gates` are the arguments of *)
(* build_identity_plan that the tests pass.  Persist, CreateGroup,         *)
(* CreateUser and LeaveLxd are an operator who carries a plan out as its   *)
(* "preconditions" say (persist the mapping first, revalidate each id).    *)
(***************************************************************************)
EXTENDS Integers, FiniteSets, Sequences

CONSTANTS
  ServiceNames,   \* SERVICE_NAMES, a sequence
  Worker,         \* the service that is in kvm
  IdMin, IdMax,   \* SERVICE_ID_MIN, SERVICE_ID_MAX
  Excluded,       \* CONTAINER_RUNTIME_IDS
  Outages,        \* bound: the sets of lookups that fail together
  MaxChanges      \* bound on what others do to the host and the manifest

Services == {ServiceNames[i] : i \in DOMAIN ServiceNames}
Band == IdMin..IdMax

ASSUME IdentityAssumption ==
  /\ ServiceNames \in Seq(Services) /\ Cardinality(Services) = Len(ServiceNames)
  /\ Worker \in Services /\ Services \cap {"operator", "kvm", "sudo", "lxd"} = {}
  /\ IdMin \in Nat \ {0} /\ IdMax \in Nat /\ MaxChanges \in Nat

\* Outside the band, as on a real host.
KvmGid == IdMax + 1
SudoGid == IdMax + 2
LxdGid == IdMax + 3
OperatorId == IdMax + 4

Databases == {"passwd", "group"}
AccountNames == Services \cup {"operator"}
GroupNames == Services \cup {"kvm", "sudo", "lxd"}

\* The commands of a collection: getent of a name from any source and from the
\* files alone, id of an account, getent of a whole database.
Lookups ==
  ({"any", "files", "id"} \X {"passwd"} \X AccountNames)
  \cup ({"any", "files"} \X {"group"} \X GroupNames)
  \cup ({"all"} \X Databases \X {"*"})

ASSUME OutageAssumption == Outages \subseteq SUBSET Lookups

\* A lookup that fails exits non-zero and prints nothing, or fails otherwise: a
\* timeout, a signal, output that is cut off or malformed.
Failures == UNION {[outage -> {"silent", "loud"}] : outage \in Outages}
NoFailure == [lookup \in {} |-> "loud"]

VARIABLES
  accounts,   \* passwd: name -> [uid, gid, source, exact, gids]
  groups,     \* group: name -> [gid, local]
  eligible,   \* Ubuntu 26.04 on x86-64 in production mode
  gates,      \* the prerequisites and the LXD non-use evidence
  manifest,   \* None, or the mapping an earlier plan persisted
  facts,      \* None, or what the last collection saw
  plan,       \* None, or the last plan
  fresh,      \* the host has not changed since the collection
  todo,       \* what the operator has still to carry out
  changes

vars == <<accounts, groups, eligible, gates, manifest, facts, plan, fresh, todo, changes>>
host == <<accounts, groups, eligible, gates>>

None == [kind |-> "none"]
Gates == {"prerequisites", "lxd-non-use"}

-----------------------------------------------------------------------------
(* Collection *)

How(lookup, failed) == IF lookup \in DOMAIN failed THEN failed[lookup] ELSE "answers"

StatusAbsent(database, name, entries, failed) ==  \* mutant: any failure is an absence
  IF name \in entries /\ How(<<"any", database, name>>, failed) = "answers" THEN "ok" ELSE "absent"

\* _account and _group.  getent exits non-zero when there is no such entry: it is
\* absent whenever that call fails silently, before another one is looked at.
Status(database, name, entries, failed) ==
  LET how(call) == How(<<call, database, name>>, failed) IN
  CASE how("any") = "silent" -> "absent"
    [] how("any") = "loud" -> "unknown"
    [] how("any") = "answers" ->
         IF name \notin entries THEN "absent"
         ELSE IF how("files") = "loud" \/ how("id") # "answers" THEN "unknown"
         ELSE "ok"

\* IdentityOrigin.LOCAL: a silent answer of the files is an entry of another source.
FilesAnswer(database, name, failed) == How(<<"files", database, name>>, failed) = "answers"

\* _account
AccountFact(name, failed) ==
  LET status == Status("passwd", name, DOMAIN accounts, failed) IN
  IF status # "ok" THEN [status |-> status]
  ELSE [status |-> "ok",
        local |-> accounts[name].source = "files" /\ FilesAnswer("passwd", name, failed),
        uid |-> accounts[name].uid, gid |-> accounts[name].gid,
        exact |-> accounts[name].exact, gids |-> accounts[name].gids]

\* _group
GroupFact(name, failed) ==
  LET status == Status("group", name, DOMAIN groups, failed) IN
  IF status # "ok" THEN [status |-> status]
  ELSE [status |-> "ok",
        local |-> groups[name].local /\ FilesAnswer("group", name, failed),
        gid |-> groups[name].gid]

\* Vacancy is looked up by id, among all sources of the name service ...
Uids == {accounts[a].uid : a \in DOMAIN accounts}
Gids == {groups[g].gid : g \in DOMAIN groups}

\* ... but getent passwd lists only the accounts of sources that enumerate, which
\* a directory by default does not.
Listed == {a \in DOMAIN accounts : accounts[a].source # "directory"}

\* _database_ids: a failure, silent or not, or one unreadable line, and the whole
\* database is unknown.
Readable(database, failed) == <<"all", database, "*">> \notin DOMAIN failed
DatabaseIds(database, failed) ==
  IF ~Readable(database, failed) THEN {}
  ELSE IF database = "passwd" THEN {accounts[a].uid : a \in Listed} ELSE Gids

\* collect_identity_facts
Observed(failed) ==
  [kind |-> "facts", failed |-> failed,   \* for the properties: no plan reads it
   accounts |-> [a \in AccountNames |-> AccountFact(a, failed)],
   groups |-> [g \in GroupNames |-> GroupFact(g, failed)],
   range |-> \A database \in Databases : Readable(database, failed),
   uids |-> DatabaseIds("passwd", failed),
   gids |-> DatabaseIds("group", failed)]

\* One process collects, then plans.
Collect(failed) ==
  /\ todo = << >> /\ (facts = None \/ plan # None)
  /\ facts' = Observed(failed)
  /\ fresh' = TRUE /\ plan' = None
  /\ UNCHANGED <<host, manifest, todo, changes>>

-----------------------------------------------------------------------------
(* Planning *)

\* _allocate: the first ids of the band that nothing occupies, each at the place
\* that the number of free ids below it gives; none at all if they do not suffice.
FirstFree(count, occupied) ==
  LET free == Band \ occupied
      below(id) == {j \in free : j < id}
  IN IF Cardinality(free) < count THEN << >>
     ELSE [i \in 1..count |-> CHOOSE id \in free : Cardinality(below(id)) = i - 1]

\* _manifest_mapping: the exact service set, ids of the band, none twice.
ValidMapping(mapping) ==
  /\ Len(mapping) = Len(ServiceNames)
  /\ {mapping[i].name : i \in DOMAIN mapping} = Services
  /\ \A i \in DOMAIN mapping :
       /\ {mapping[i].uid, mapping[i].gid} \subseteq Band \ Excluded
       /\ \A j \in DOMAIN mapping \ {i} :
            mapping[j].uid # mapping[i].uid /\ mapping[j].gid # mapping[i].gid

Issue(id, code) == [id |-> id, code |-> code]
IssueIf(condition, id, code) == IF condition THEN {Issue(id, code)} ELSE {}

\* Platform, lifecycle, prerequisites and LXD evidence.
GateIssues ==
  IssueIf(~eligible, "platform", "unsupported")
  \cup UNION {IssueIf(gates[g] # "verified", g,
                IF gates[g] = "failed" /\ g = "prerequisites" THEN "conflict" ELSE "unknown")
              : g \in Gates}

MatchesByName(service, mapped) ==  \* mutant: the ids decide, not who keeps the account
  /\ facts.accounts[service].status = "ok" /\ facts.groups[service].status = "ok"
  /\ facts.accounts[service].uid = mapped.uid

\* An existing identity is the project's only if it is exactly what the mapping says.
Matches(service, mapped) ==
  LET account == facts.accounts[service]
      group == facts.groups[service]
      kvm == facts.groups["kvm"]
  IN /\ account.status = "ok" /\ group.status = "ok"
     /\ account.local /\ group.local /\ account.exact
     /\ account.uid = mapped.uid /\ account.gid = mapped.gid /\ group.gid = mapped.gid
     /\ kvm.status = "ok"
     /\ account.gids = {mapped.gid} \cup (IF service = Worker THEN {kvm.gid} ELSE {})

ServiceIssuesKnown(mapping) ==  \* mutant: a failed lookup is an absent identity
  UNION {IssueIf(/\ "ok" \in {facts.accounts[s].status, facts.groups[s].status}
                 /\ ~\E i \in DOMAIN mapping : mapping[i].name = s /\ Matches(s, mapping[i]),
                 "collision", "conflict") : s \in Services}

\* Per service: unknown, absent altogether, or exactly the project's.
ServiceIssues(mapping) ==
  UNION {
    LET account == facts.accounts[s]
        group == facts.groups[s]
        unknown == "unknown" \in {account.status, group.status}
    IN IssueIf(unknown, "discovery", "unknown")
       \cup IssueIf(/\ ~unknown /\ "ok" \in {account.status, group.status}
                    /\ ~\E i \in DOMAIN mapping : mapping[i].name = s /\ Matches(s, mapping[i]),
                    "collision", "conflict")
    : s \in Services}

OperatorIssuesLocal ==  \* mutant: sudo membership is not asked for
  IssueIf(\/ facts.accounts["operator"].status # "ok"
          \/ facts.groups["sudo"].status # "ok" \/ facts.groups["kvm"].status # "ok",
          "operator.local", "conflict")

\* The operator keeps sudo; kvm is the local group.
OperatorIssues ==
  LET operator == facts.accounts["operator"]
      sudo == facts.groups["sudo"]
      kvm == facts.groups["kvm"]
  IN IssueIf(operator.status # "ok" \/ (operator.status = "ok" /\ (~operator.local \/ operator.uid = 0)),
             "operator.local", "conflict")
     \cup IssueIf(~(sudo.status = "ok" /\ operator.status = "ok" /\ sudo.gid \in operator.gids),
                  "operator.sudo", "conflict")
     \cup IssueIf(~(kvm.status = "ok" /\ kvm.local), "group.kvm", "conflict")

OccupiedIssuesByAnyone(mapping) ==  \* mutant: by the service itself too
  IssueIf(\E i \in DOMAIN mapping : mapping[i].uid \in facts.uids \/ mapping[i].gid \in facts.gids,
          "manifest.occupied", "conflict")

\* A manifest id that somebody holds while its own account or group is absent.
OccupiedIssues(mapping) ==
  IssueIf(\E i \in DOMAIN mapping :
            \/ /\ facts.accounts[mapping[i].name].status = "absent"
               /\ mapping[i].uid \in facts.uids
            \/ /\ facts.groups[mapping[i].name].status = "absent"
               /\ mapping[i].gid \in facts.gids,
          "manifest.occupied", "conflict")

FreshMappingByUid ==  \* mutant: group ids are taken to follow user ids
  LET ids == FirstFree(Len(ServiceNames), facts.uids \cup Excluded)
  IN IF Len(ids) < Len(ServiceNames) THEN << >>
     ELSE [i \in DOMAIN ServiceNames |-> [name |-> ServiceNames[i], uid |-> ids[i], gid |-> ids[i]]]

FreshMappingInBand ==  \* mutant: the container runtimes' ids are not left out
  LET uids == FirstFree(Len(ServiceNames), facts.uids)
      gids == FirstFree(Len(ServiceNames), facts.gids)
  IN IF Len(uids) < Len(ServiceNames) \/ Len(gids) < Len(ServiceNames) THEN << >>
     ELSE [i \in DOMAIN ServiceNames |->
             [name |-> ServiceNames[i], uid |-> uids[i], gid |-> gids[i]]]

FreshMapping ==
  LET uids == FirstFree(Len(ServiceNames), facts.uids \cup Excluded)
      gids == FirstFree(Len(ServiceNames), facts.gids \cup Excluded)
  IN IF Len(uids) < Len(ServiceNames) \/ Len(gids) < Len(ServiceNames) THEN << >>
     ELSE [i \in DOMAIN ServiceNames |->
             [name |-> ServiceNames[i], uid |-> uids[i], gid |-> gids[i]]]

\* The ids of the plan: the manifest's or, without one, the first free.
Allocations(supplied) ==
  IF ~facts.range THEN << >>
  ELSE IF supplied # None
    THEN IF ValidMapping(supplied.mapping) THEN supplied.mapping ELSE << >>
  ELSE FreshMapping

\* Groups, then the operator out of lxd when lxd is seen to hold it, then users:
\* the order of the action ids.
Actions(allocations) ==
  LET make(what) == [i \in DOMAIN allocations |-> [what |-> what, item |-> allocations[i]]]
  IN make("group")
     \o (IF /\ facts.groups["lxd"].status = "ok"
            /\ facts.groups["lxd"].gid \in facts.accounts["operator"].gids
           THEN << [what |-> "leave-lxd"] >> ELSE << >>)
     \o make("user")

IssuesOfTheHost(supplied) ==  \* mutant: a bad manifest is as none
  LET mapping == IF supplied # None /\ ValidMapping(supplied.mapping)
                   THEN supplied.mapping ELSE << >>
  IN GateIssues \cup ServiceIssues(mapping) \cup OperatorIssues
     \cup IssueIf(~facts.range, "allocation.range", "unknown") \cup OccupiedIssues(mapping)
     \cup IssueIf(supplied = None /\ FreshMapping = << >>, "allocation.exhausted", "conflict")

Issues(supplied) ==
  LET mapping == IF supplied # None /\ ValidMapping(supplied.mapping)
                   THEN supplied.mapping ELSE << >>
  IN IssueIf(supplied # None /\ mapping = << >>, "manifest.mapping", "conflict")
     \cup GateIssues \cup ServiceIssues(mapping) \cup OperatorIssues
     \cup IssueIf(~facts.range, "allocation.range", "unknown")
     \cup (IF facts.range THEN OccupiedIssues(mapping) ELSE {})
     \cup IssueIf(facts.range /\ supplied = None /\ FreshMapping = << >>,
                  "allocation.exhausted", "conflict")

ExitCode(issues) ==
  IF \E i \in issues : i.code = "unsupported" THEN 3
  ELSE IF \E i \in issues : i.code = "conflict" THEN 4
  ELSE IF issues # {} THEN 5 ELSE 0

\* build_identity_plan: any issue suppresses every action.
BuildIdentityPlan ==
  /\ facts # None /\ plan = None
  /\ LET issues == Issues(manifest) IN
     plan' = [kind |-> "plan", supplied |-> manifest, issues |-> issues,
              allocations |-> Allocations(manifest),
              actions |-> IF issues = {} THEN Actions(Allocations(manifest)) ELSE << >>,
              exit |-> ExitCode(issues)]
  /\ UNCHANGED <<host, manifest, facts, fresh, todo, changes>>

-----------------------------------------------------------------------------
(* An operator carries the plan out *)

Persist ==
  /\ plan # None /\ plan.actions # << >> /\ todo = << >> /\ fresh
  /\ manifest' = [kind |-> "manifest", mapping |-> plan.allocations]
  /\ todo' = plan.actions
  /\ UNCHANGED <<host, facts, plan, fresh, changes>>

Done == todo' = Tail(todo) /\ fresh' = FALSE

CreateGroup ==
  /\ todo # << >> /\ Head(todo).what = "group"
  /\ LET item == Head(todo).item IN
     \/ /\ item.name \in DOMAIN groups /\ UNCHANGED groups
     \/ /\ item.name \notin DOMAIN groups /\ item.gid \notin Gids
        /\ groups' = [g \in DOMAIN groups \cup {item.name} |->
             IF g = item.name THEN [gid |-> item.gid, local |-> TRUE] ELSE groups[g]]
  /\ Done
  /\ UNCHANGED <<accounts, eligible, gates, manifest, facts, plan, changes>>

CreateUser ==
  /\ todo # << >> /\ Head(todo).what = "user"
  /\ LET item == Head(todo).item IN
     \/ /\ item.name \in DOMAIN accounts /\ UNCHANGED accounts
     \/ /\ item.name \notin DOMAIN accounts /\ item.uid \notin Uids
        /\ accounts' = [a \in DOMAIN accounts \cup {item.name} |->
             IF a # item.name THEN accounts[a]
             ELSE [uid |-> item.uid, gid |-> item.gid, source |-> "files", exact |-> TRUE,
                   gids |-> {item.gid} \cup (IF item.name = Worker THEN {KvmGid} ELSE {})]]
  /\ Done
  /\ UNCHANGED <<groups, eligible, gates, manifest, facts, plan, changes>>

LeaveLxd ==
  /\ todo # << >> /\ Head(todo).what = "leave-lxd"
  /\ accounts' = [accounts EXCEPT !["operator"].gids = @ \ {LxdGid}]
  /\ Done
  /\ UNCHANGED <<groups, eligible, gates, manifest, facts, plan, changes>>

\* A crash, or a refusal because an id is no longer vacant.
Abandon ==
  /\ todo # << >> /\ todo' = << >>
  /\ UNCHANGED <<host, manifest, facts, plan, fresh, changes>>

-----------------------------------------------------------------------------
(* Others *)

Changed == changes < MaxChanges /\ changes' = changes + 1 /\ fresh' = FALSE

\* Some package or administrator takes an id, or a service name: in /etc/passwd,
\* on a server that enumerates its accounts, or in a directory.
Sources == {"files", "server", "directory"}
OthersAddUser(name, uid, source) ==
  /\ Changed /\ name \notin DOMAIN accounts /\ uid \notin Uids
  /\ accounts' = [a \in DOMAIN accounts \cup {name} |->
       IF a = name THEN [uid |-> uid, gid |-> OperatorId, source |-> source,
                         exact |-> FALSE, gids |-> {OperatorId}] ELSE accounts[a]]
  /\ UNCHANGED <<groups, eligible, gates, manifest, facts, plan, todo>>

OthersAddGroup(name, gid) ==
  /\ Changed /\ name \notin DOMAIN groups /\ gid \notin Gids
  /\ groups' = [g \in DOMAIN groups \cup {name} |->
       IF g = name THEN [gid |-> gid, local |-> TRUE] ELSE groups[g]]
  /\ UNCHANGED <<accounts, eligible, gates, manifest, facts, plan, todo>>

\* The operator loses sudo.
OthersTakeSudo ==
  /\ Changed /\ SudoGid \in accounts["operator"].gids
  /\ accounts' = [accounts EXCEPT !["operator"].gids = @ \ {SudoGid}]
  /\ UNCHANGED <<groups, eligible, gates, manifest, facts, plan, todo>>

\* An account of the project is removed, its group stays, or the reverse.
OthersRemove(name) ==
  /\ Changed
  /\ \/ /\ name \in DOMAIN accounts
        /\ accounts' = [a \in DOMAIN accounts \ {name} |-> accounts[a]] /\ UNCHANGED groups
     \/ /\ name \in DOMAIN groups
        /\ groups' = [g \in DOMAIN groups \ {name} |-> groups[g]] /\ UNCHANGED accounts
  /\ UNCHANGED <<eligible, gates, manifest, facts, plan, todo>>

\* A manifest of another release: an entry short, or two services with one id.
OthersDamageManifest ==
  /\ Changed /\ manifest # None /\ manifest.mapping # << >>
  /\ \/ manifest' = [manifest EXCEPT !.mapping = Tail(@)]
     \/ manifest' = [manifest EXCEPT !.mapping[1].uid = manifest.mapping[Len(manifest.mapping)].uid]
  /\ UNCHANGED <<host, facts, plan, todo>>

-----------------------------------------------------------------------------

Init ==
  /\ \E lxd \in BOOLEAN :   \* at most one of platform and gates is in the way
       accounts = [a \in {"operator"} |->
         [uid |-> OperatorId, gid |-> OperatorId, source |-> "files", exact |-> FALSE,
          gids |-> {OperatorId, SudoGid} \cup (IF lxd THEN {LxdGid} ELSE {})]]
  /\ groups = [g \in {"kvm", "sudo", "lxd"} |->
       [gid |-> CASE g = "kvm" -> KvmGid [] g = "sudo" -> SudoGid [] g = "lxd" -> LxdGid,
        local |-> TRUE]]
  /\ eligible \in BOOLEAN
  /\ gates \in [Gates -> {"verified", "unresolved", "failed"}]
  /\ Cardinality({g \in Gates : gates[g] # "verified"}) + (IF eligible THEN 0 ELSE 1) <= 1
  /\ manifest = None /\ facts = None /\ plan = None
  /\ fresh = FALSE /\ todo = << >> /\ changes = 0

Next ==
  \/ \E failed \in Failures : Collect(failed)
  \/ BuildIdentityPlan
  \/ Persist \/ CreateGroup \/ CreateUser \/ LeaveLxd \/ Abandon
  \/ \E name \in Services \cup {"other"}, id \in Band :
       (\E source \in Sources : OthersAddUser(name, id, source)) \/ OthersAddGroup(name, id)
  \/ OthersTakeSudo \/ OthersDamageManifest
  \/ \E name \in Services : OthersRemove(name)

Spec == Init /\ [][Next]_vars

-----------------------------------------------------------------------------
(* Properties *)

TypeOK ==
  plan # None =>
    /\ plan.exit \in {0, 3, 4, 5}
    /\ \A i \in DOMAIN plan.allocations :
         {plan.allocations[i].uid, plan.allocations[i].gid} \subseteq Band

Actionable == plan # None /\ plan.actions # << >>

\* With the host as collected, an actionable plan uses ids of the band, not of
\* the container runtimes, that are the service's own already or nobody's (that
\* is listed), never one id for two services.
IdsAreFree ==
  (Actionable /\ fresh) =>
    \A i \in DOMAIN plan.allocations :
      LET item == plan.allocations[i] IN
      /\ {item.uid, item.gid} \subseteq Band \ Excluded
      /\ \A a \in Listed : accounts[a].uid = item.uid => a = item.name
      /\ \A g \in DOMAIN groups : groups[g].gid = item.gid => g = item.name
      /\ \A j \in DOMAIN plan.allocations \ {i} :
           plan.allocations[j].uid # item.uid /\ plan.allocations[j].gid # item.gid

\* An identity under a service name is adopted only when it is whole, local and
\* exactly the manifest's: half of one (a group whose user was never made, a user of
\* another source) stops the whole phase, and so does any identity when there is no
\* manifest.  Only an identity whose every lookup failed silently does not stop it:
\* that one is not adopted, the plan has none of its ids unless a directory keeps it.
Found(s) == "ok" \in {facts.accounts[s].status, facts.groups[s].status}

Adoptable(s) ==
  /\ plan.supplied # None
  /\ s \in DOMAIN accounts \cap DOMAIN groups
  /\ accounts[s].source = "files" /\ groups[s].local /\ accounts[s].exact
  /\ \E i \in DOMAIN plan.supplied.mapping :
       plan.supplied.mapping[i] = [name |-> s, uid |-> accounts[s].uid, gid |-> groups[s].gid]

LeftAlone(s) ==
  \A i \in DOMAIN plan.allocations :
    /\ s \in Listed => plan.allocations[i].uid # accounts[s].uid
    /\ s \in DOMAIN groups => plan.allocations[i].gid # groups[s].gid

AdoptsOnlyItsOwn ==
  (Actionable /\ fresh) => \A s \in Services : IF Found(s) THEN Adoptable(s) ELSE LeftAlone(s)

\* A plan made under a manifest never allocates around it.
NeverReallocates ==
  (Actionable /\ plan.supplied # None) => plan.allocations = plan.supplied.mapping

\* The operator is left a way in: nothing is planned unless it holds sudo.
OperatorKeepsSudo == (Actionable /\ fresh) => SudoGid \in accounts["operator"].gids

\* build_identity_plan: "Any uncertainty suppresses the complete action set", taken
\* at its word.
UncertaintySuppresses == Actionable => facts.failed = NoFailure

\* What the code makes of it.  A plan survives only these failures: of any lookup of
\* lxd; the files' silence about sudo; and, of a service, the lookups of a name that
\* nobody has or that getent, failing silently, did not show.
Overlooked(lookup) ==
  LET call == lookup[1]  database == lookup[2]  name == lookup[3]
      entries == IF database = "passwd" THEN DOMAIN accounts ELSE DOMAIN groups
      shown == How(<<"any", database, name>>, facts.failed)
  IN \/ name = "lxd"
     \/ name = "sudo" /\ call = "files" /\ facts.failed[lookup] = "silent"
     \/ name \in Services /\ (shown = "silent" \/ (shown = "answers" /\ name \notin entries))

DoubtSuppresses ==
  (Actionable /\ fresh) => \A lookup \in DOMAIN facts.failed : Overlooked(lookup)

\* A plan that can be carried out is safe to carry out.
PlanIsSafe ==
  /\ IdsAreFree /\ AdoptsOnlyItsOwn /\ NeverReallocates
  /\ OperatorKeepsSudo /\ DoubtSuppresses

\* Carried out to the end and with nobody else about, a plan is stable: collecting
\* again without a failure and planning under its manifest raises no issue.
CarriedOutIsStable ==
  (/\ plan # None /\ fresh /\ plan.supplied # None /\ facts.failed = NoFailure
   /\ changes = 0 /\ Services \subseteq DOMAIN accounts) =>
    plan.issues = {}
=============================================================================

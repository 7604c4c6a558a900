------------------------ MODULE TemplatePublication ------------------------
(***************************************************************************)
(* scripts/control-plane/publish-stable-template.sh: publish a product     *)
(* template under a stable alias, or roll it back, driven by an ownership  *)
(* journal (template-publication-state.py) of one record per version.      *)
(*                                                                         *)
(* One product, so one alias.  The control plane (API and database) and    *)
(* the TypeScript client the script starts are modelled from how the       *)
(* script uses them: a build gets the version tag and "stable" when it is  *)
(* requested, DELETE removes a template with its aliases and tags, PATCH   *)
(* by alias makes the team's template public unless another team owns the  *)
(* bare alias.                                                             *)
(*                                                                         *)
(* A script dies between any two steps: killed, or because a call of the   *)
(* state tool, the API or the database failed, before or after it had its  *)
(* effect.  The clients run in containers, started by a docker CLI that    *)
(* inherits the locks: when only the script dies, the client goes on with  *)
(* the locks held; when the CLI dies too, it goes on without them.         *)
(***************************************************************************)
EXTENDS Naturals, FiniteSets

CONSTANTS
  Scripts,        \* processes that run publish-stable-template.sh
  Versions,       \* --version values, one journal file each
  MaxFaults,      \* bound on deaths, failed clients, failed builds, untags
  MaxDefinition   \* definitions the checkout may hold, 1..MaxDefinition

Nobody == "nobody"

ASSUME TemplateAssumption ==
  /\ IsFiniteSet(Scripts) /\ IsFiniteSet(Versions) /\ Nobody \notin Scripts
  /\ MaxFaults \in Nat /\ MaxDefinition \in Nat \ {0}

VARIABLES
  record,      \* the journal: a record per version
  templates,   \* the team's templates that carry the alias, by id
  builds,      \* every build requested, by id: its template and status
  claimed,     \* another team holds the bare alias
  definition,  \* the definition hash of the installed checkout
  holder,      \* the script that holds the two locks, or Nobody
  migration,   \* what a migrate-definition has read and is about to write
  script,      \* per script: program counter and local variables
  faults       \* faults so far

vars == <<record, templates, builds, claimed, definition, holder, migration, script, faults>>
database == <<templates, builds, claimed>>

Tags == Versions \cup {"stable"}
\* Every version needs one build that does not fail, every fault wastes one.
Ids == 1..(MaxFaults + Cardinality(Versions))

Idle == [pc |-> "idle", version |-> "none", digest |-> 0, alive |-> TRUE,
         template |-> 0, build |-> 0]
ClientSteps == {"exists", "build", "wait", "qualify"}
Contained == ClientSteps \cup {"untag"}  \* the steps that run in a container

NoRecord == [state |-> "none", digest |-> 0, template |-> 0, build |-> 0]
NoMigration == [version |-> "none", record |-> NoRecord]

\* validate_record: the ids are there as soon as the state is past "reserved".
ValidRecord(r) ==
  /\ r.state \in {"reserved", "qualified_private", "published", "rolled_back"}
  /\ r.digest \in 1..MaxDefinition
  /\ r.state # "reserved" => r.template \in Ids /\ r.build \in Ids

TypeOK ==
  /\ \A v \in Versions : record[v] = NoRecord \/ ValidRecord(record[v])
  /\ DOMAIN templates \subseteq Ids
  /\ \A t \in DOMAIN templates :
       /\ templates[t].public \in BOOLEAN
       /\ DOMAIN templates[t].tags \subseteq Tags
  /\ DOMAIN builds \subseteq Ids
  /\ \A b \in DOMAIN builds : builds[b].status \in {"building", "ready", "failed"}
  /\ holder \in Scripts \cup {Nobody}
  /\ migration # NoMigration =>
       migration.version \in Versions /\ ValidRecord(migration.record)
  /\ faults \in 0..MaxFaults

Init ==
  /\ record = [v \in Versions |-> NoRecord]
  /\ templates = << >> /\ builds = << >> /\ claimed = FALSE
  /\ definition = 1 /\ holder = Nobody /\ migration = NoMigration
  /\ script = [s \in Scripts |-> Idle] /\ faults = 0

-----------------------------------------------------------------------------
(* The script's control flow *)

At(s, pc) == script[s].pc = pc /\ script[s].alive

GoTo(s, pc) == script' = [script EXCEPT ![s].pc = pc] /\ UNCHANGED holder

\* The script (or the client it left behind) exits, in success or in failure: the
\* locks go with its descriptors.
Exit(s) ==
  /\ script' = [script EXCEPT ![s] = Idle]
  /\ holder' = IF holder = s THEN Nobody ELSE holder

\* The state of the version's journal record, once require_match accepts it.
Matches(s) == record[script[s].version].digest = script[s].digest

\* write(): temporary file, fsync, replace and fsync of the directory.
Write(s, fields) ==
  record' = [record EXCEPT ![script[s].version] =
               [f \in DOMAIN @ |-> IF f \in DOMAIN fields THEN fields[f] ELSE @[f]]]

StartUnlocked(s, operation, v) ==  \* mutant: the locks are not asked for
  /\ script[s].pc = "idle"
  /\ holder' = s
  /\ script' = [script EXCEPT ![s] =
       [Idle EXCEPT !.pc = operation, !.version = v, !.digest = definition]]
  /\ UNCHANGED <<record, database, definition, migration, faults>>

\* main(): both locks without waiting, no build in progress, the digest of the
\* checkout as it is now.
Start(s, operation, v) ==
  /\ script[s].pc = "idle"
  /\ holder = Nobody
  /\ \A b \in DOMAIN builds : builds[b].status # "building"
  /\ holder' = s
  /\ script' = [script EXCEPT ![s] =
       [Idle EXCEPT !.pc = operation, !.version = v, !.digest = definition]]
  /\ UNCHANGED <<record, database, definition, migration, faults>>

\* reserve: create the record or require the one there to match.
Reserve(s) ==
  /\ At(s, "publish")
  /\ UNCHANGED <<database, definition, migration, faults>>
  /\ LET old == record[script[s].version] IN
     \/ /\ old.state = "none"
        /\ Write(s, [state |-> "reserved", digest |-> script[s].digest])
        /\ GoTo(s, "alias")
     \/ /\ old.state \in {"reserved", "qualified_private", "published"} /\ Matches(s)
        /\ script' = [script EXCEPT
             ![s].pc = CASE old.state = "reserved" -> "alias"
                         [] old.state = "qualified_private" -> "patch"
                         [] old.state = "published" -> "verify",
             ![s].template = old.template, ![s].build = old.build]
        /\ UNCHANGED <<record, holder>>
     \/ /\ old.state # "none"
        /\ old.state = "rolled_back" \/ ~Matches(s)
        /\ Exit(s) /\ UNCHANGED record

BuildsOf(t) == {b \in DOMAIN builds : builds[b].template = t}

ReclaimableOnceBuilt(t) == ~templates[t].public  \* mutant: the builds are not looked at

\* The team's own debris: private, and every build of it failed.
Reclaimable(t) ==
  ~templates[t].public /\ \A b \in BuildsOf(t) : builds[b].status = "failed"

\* The alias is nobody's, or only the team's own debris.
AliasOwned(s) ==
  /\ At(s, "alias")
  /\ IF claimed \/ \E t \in DOMAIN templates : ~Reclaimable(t)
       THEN Exit(s) ELSE GoTo(s, "debris")
  /\ UNCHANGED <<record, database, definition, migration, faults>>

Delete(t) == templates' = [u \in DOMAIN templates \ {t} |-> templates[u]]

ToleratesDebris(s) ==  \* mutant: debris is tolerated, not removed
  /\ At(s, "debris") /\ GoTo(s, "exists")
  /\ UNCHANGED <<record, database, definition, migration, faults>>

\* debris_id: the template id is looked up, and deleted in a step of its own.
FindDebris(s) ==
  /\ At(s, "debris")
  /\ \/ \E t \in DOMAIN templates :
          /\ Reclaimable(t) /\ UNCHANGED holder
          /\ script' = [script EXCEPT ![s].pc = "reclaim", ![s].template = t]
     \/ (\A t \in DOMAIN templates : ~Reclaimable(t)) /\ GoTo(s, "exists")
  /\ UNCHANGED <<record, database, definition, migration, faults>>

\* Debris goes through the API, by template id.
RemoveDebris(s) ==
  /\ At(s, "reclaim")
  /\ Delete(script[s].template)
  /\ GoTo(s, "recount")
  /\ UNCHANGED <<record, builds, claimed, definition, migration, faults>>

Recount(s) ==
  /\ At(s, "recount")
  /\ IF claimed \/ templates # << >> THEN Exit(s) ELSE GoTo(s, "exists")
  /\ UNCHANGED <<record, database, definition, migration, faults>>

-----------------------------------------------------------------------------
(* The client (coding-template.ts, browser-template.ts): it goes on when the *)
(* script that started it is dead.                                           *)

\* assert.equal(await Template.exists(...), false)
ClientChecks(s) ==
  /\ script[s].pc = "exists"
  /\ IF claimed \/ templates # << >> THEN Exit(s) ELSE GoTo(s, "build")
  /\ UNCHANGED <<record, database, definition, migration, faults>>

NextId == Cardinality(DOMAIN builds) + 1

\* Template.build: a new template, or one more build of the team's template.  "locked"
\* is for the properties: whether the run of the client still had its locks.
ClientBuilds(s) ==
  /\ script[s].pc = "build"
  /\ NextId \in Ids
  /\ \E t \in IF templates = << >> THEN {NextId} ELSE DOMAIN templates :
       /\ builds' = [b \in DOMAIN builds \cup {NextId} |->
            IF b = NextId THEN [template |-> t, status |-> "building", locked |-> holder = s]
                          ELSE builds[b]]
       /\ templates' = [u \in DOMAIN templates \cup {t} |->
            LET old == IF u \in DOMAIN templates THEN templates[u]
                       ELSE [public |-> FALSE, tags |-> << >>]
                new == {script[s].version, "stable"}
            IN IF u # t THEN old
               ELSE [old EXCEPT !.tags =
                       [g \in DOMAIN @ \cup new |-> IF g \in new THEN NextId ELSE @[g]]]]
       /\ script' = [script EXCEPT ![s].pc = "wait", ![s].template = t, ![s].build = NextId]
  /\ UNCHANGED <<record, claimed, definition, migration, holder, faults>>

ClientWaits(s) ==
  /\ script[s].pc = "wait"
  /\ \/ builds[script[s].build].status = "ready" /\ GoTo(s, "qualify")
     \/ builds[script[s].build].status = "failed" /\ Exit(s)
  /\ UNCHANGED <<record, database, definition, migration, faults>>

TagsAre(t, v, b) ==
  /\ t \in DOMAIN templates /\ {v, "stable"} \subseteq DOMAIN templates[t].tags
  /\ templates[t].tags[v] = b /\ templates[t].tags["stable"] = b

\* Both tags name the build and a sandbox of it was exercised.
ClientQualifies(s) ==
  /\ script[s].pc = "qualify"
  /\ IF script[s].alive /\ TagsAre(script[s].template, script[s].version, script[s].build)
       THEN GoTo(s, "candidate") ELSE Exit(s)
  /\ UNCHANGED <<record, database, definition, migration, faults>>

\* Any assertion of the client fails, or it loses the API.
ClientFails(s) ==
  /\ script[s].pc \in ClientSteps /\ faults < MaxFaults
  /\ Exit(s) /\ faults' = faults + 1
  /\ UNCHANGED <<record, database, definition, migration>>

-----------------------------------------------------------------------------
(* From the candidate to the release *)

QualifiesLate(s) ==  \* mutant: the candidate is recorded after the PATCH
  /\ At(s, "candidate") /\ GoTo(s, "patch")
  /\ UNCHANGED <<record, database, definition, migration, faults>>

RecordAnyCandidate(s) ==  \* mutant: what the client left is recorded whatever came of it
  /\ script[s].pc \in {"wait", "qualify", "candidate"} /\ script[s].alive
  /\ Write(s, [state |-> "qualified_private", template |-> script[s].template,
               build |-> script[s].build])
  /\ GoTo(s, "patch")
  /\ UNCHANGED <<database, definition, migration, faults>>

RecordCandidate(s) ==
  /\ At(s, "candidate")
  /\ IF Matches(s) /\ record[script[s].version].state = "reserved"
       THEN /\ Write(s, [state |-> "qualified_private", template |-> script[s].template,
                         build |-> script[s].build])
            /\ GoTo(s, "patch")
       ELSE Exit(s) /\ UNCHANGED record
  /\ UNCHANGED <<database, definition, migration, faults>>

\* PATCH {"public":true} by alias.
Patch(s) ==
  /\ At(s, "patch")
  /\ \/ \E t \in DOMAIN templates :
          /\ ~claimed
          /\ templates' = [templates EXCEPT ![t].public = TRUE]
          /\ GoTo(s, "verify")
     \/ (claimed \/ templates = << >>) /\ Exit(s) /\ UNCHANGED templates
  /\ UNCHANGED <<record, builds, claimed, definition, migration, faults>>

Released(v, t, b) ==
  /\ TagsAre(t, v, b) /\ templates[t].public
  /\ builds[b].template = t /\ builds[b].status = "ready"

\* verify_publication: a release that is recorded is only looked at.
Verify(s) ==
  /\ At(s, "verify")
  /\ IF /\ Released(script[s].version, script[s].template, script[s].build)
        /\ record[script[s].version].state # "published"
       THEN GoTo(s, "commit") ELSE Exit(s)
  /\ UNCHANGED <<record, database, definition, migration, faults>>

Commit(s) ==
  /\ At(s, "commit")
  /\ IF Matches(s) /\ record[script[s].version].state = "qualified_private"
       THEN Write(s, [state |-> "published"]) ELSE UNCHANGED record
  /\ Exit(s)
  /\ UNCHANGED <<database, definition, migration, faults>>

-----------------------------------------------------------------------------
(* rollback_template *)

Show(s) ==
  /\ At(s, "rollback")
  /\ LET old == record[script[s].version] IN
     \/ /\ old.state \in {"qualified_private", "published"} /\ Matches(s)
        /\ script' = [script EXCEPT
             ![s].pc = IF old.state = "published" THEN "untag" ELSE "delete",
             ![s].template = old.template, ![s].build = old.build]
        /\ UNCHANGED holder
     \/ /\ old.state \in {"none", "reserved", "rolled_back"} \/ ~Matches(s)
        /\ Exit(s)
  /\ UNCHANGED <<record, database, definition, migration, faults>>

\* DELETE by the recorded id: 204, or 404 when it is gone already.
DeleteCandidate(s) ==
  /\ At(s, "delete")
  /\ Delete(script[s].template)
  /\ GoTo(s, "withdraw")
  /\ UNCHANGED <<record, builds, claimed, definition, migration, faults>>

Without(f, g) == [h \in DOMAIN f \ {g} |-> f[h]]

KeepStable(s) ==  \* mutant: the tag is left where it is
  /\ At(s, "untag") /\ GoTo(s, "withdraw")
  /\ UNCHANGED <<record, database, definition, migration, faults>>

\* template-publication-release.ts remove-stable: the version's tag stays.
RemoveStable(s) ==
  /\ script[s].pc = "untag"
  /\ \/ \E t \in DOMAIN templates :
          /\ templates' = [templates EXCEPT ![t].tags = Without(@, "stable")]
          /\ IF script[s].version \in DOMAIN templates[t].tags
                    /\ script[s].alive
               THEN GoTo(s, "withdraw") ELSE Exit(s)
     \/ templates = << >> /\ Exit(s) /\ UNCHANGED templates
  /\ UNCHANGED <<record, builds, claimed, definition, migration, faults>>

RecordRollback(s) ==
  /\ At(s, "withdraw")
  /\ IF Matches(s) /\ record[script[s].version].state \in {"qualified_private", "published"}
       THEN Write(s, [state |-> "rolled_back"]) ELSE UNCHANGED record
  /\ Exit(s)
  /\ UNCHANGED <<database, definition, migration, faults>>

-----------------------------------------------------------------------------
(* What happens around the scripts *)

\* The script dies; a client it started goes on, and the docker CLI keeps the locks.
Die(s) ==
  /\ script[s].pc # "idle" /\ script[s].alive /\ faults < MaxFaults
  /\ faults' = faults + 1
  /\ IF script[s].pc \in Contained
       THEN script' = [script EXCEPT ![s].alive = FALSE] /\ UNCHANGED holder
       ELSE Exit(s)
  /\ UNCHANGED <<record, database, definition, migration>>

\* The docker CLI dies, and the script before it, with it or because of it: the
\* container goes on without the locks.
LosesLocks(s) ==
  /\ script[s].pc \in Contained /\ holder = s /\ faults < MaxFaults
  /\ script' = [script EXCEPT ![s].alive = FALSE]
  /\ holder' = Nobody /\ faults' = faults + 1
  /\ UNCHANGED <<record, database, definition, migration>>

BuildSucceeds(b) ==
  /\ builds[b].status = "building"
  /\ builds' = [builds EXCEPT ![b].status = "ready"]
  /\ UNCHANGED <<record, templates, claimed, definition, migration, holder, script, faults>>

BuildFails(b) ==
  /\ builds[b].status = "building" /\ faults < MaxFaults
  /\ builds' = [builds EXCEPT ![b].status = "failed"] /\ faults' = faults + 1
  /\ UNCHANGED <<record, templates, claimed, definition, migration, holder, script>>

\* Another team publishes under the bare alias.
Claim ==
  /\ ~claimed /\ \A t \in DOMAIN templates : ~templates[t].public
  /\ claimed' = TRUE
  /\ UNCHANGED <<record, templates, builds, definition, migration, holder, script, faults>>

\* A holder of the team's key takes the stable tag off a template.
TeamUntags(t) ==
  /\ "stable" \in DOMAIN templates[t].tags /\ faults < MaxFaults
  /\ templates' = [templates EXCEPT ![t].tags = Without(@, "stable")]
  /\ faults' = faults + 1
  /\ UNCHANGED <<record, builds, claimed, definition, migration, holder, script>>

\* A checkout with another template definition is installed.
Upgrade ==
  /\ definition < MaxDefinition /\ definition' = definition + 1
  /\ UNCHANGED <<record, database, holder, migration, script, faults>>

\* migrate-definition, run by hand and under no lock: a read and, later, a write of
\* the whole record.  One migration at a time; one that is not ended was killed.
MigrationReads(v) ==
  /\ record[v].state = "qualified_private" /\ record[v].digest < definition
  /\ migration' = [version |-> v, record |-> [record[v] EXCEPT !.digest = definition]]
  /\ UNCHANGED <<record, database, definition, holder, script, faults>>

MigrationWrites ==
  /\ migration # NoMigration
  /\ record' = [record EXCEPT ![migration.version] = migration.record]
  /\ migration' = NoMigration
  /\ UNCHANGED <<database, definition, holder, script, faults>>

Client(s) ==
  ClientChecks(s) \/ ClientBuilds(s) \/ ClientWaits(s) \/ ClientQualifies(s)

Step(s) ==
  \/ Reserve(s) \/ AliasOwned(s) \/ FindDebris(s) \/ RemoveDebris(s) \/ Recount(s) \/ Client(s)
  \/ RecordCandidate(s) \/ Patch(s) \/ Verify(s) \/ Commit(s)
  \/ Show(s) \/ DeleteCandidate(s) \/ RemoveStable(s) \/ RecordRollback(s)

Next ==
  \/ \E s \in Scripts :
       \/ Step(s) \/ ClientFails(s) \/ Die(s) \/ LosesLocks(s)
       \/ \E operation \in {"publish", "rollback"}, v \in Versions : Start(s, operation, v)
  \/ \E b \in DOMAIN builds : BuildSucceeds(b) \/ BuildFails(b)
  \/ Claim \/ Upgrade
  \/ \E t \in DOMAIN templates : TeamUntags(t)
  \/ \E v \in Versions : MigrationReads(v)
  \/ MigrationWrites

\* A started script goes on, a build ends, and the operator keeps publishing:
\* strongly fair, because other runs take the locks in between.
Fairness ==
  /\ \A s \in Scripts : WF_vars(Step(s))
  /\ \A b \in Ids : WF_vars(b \in DOMAIN builds /\ BuildSucceeds(b))
  /\ \A v \in Versions : SF_vars(\E s \in Scripts : Start(s, "publish", v))

Spec == Init /\ [][Next]_vars /\ Fairness

-----------------------------------------------------------------------------
(* Properties *)

Recorded(t, states) == \E v \in Versions : record[v].template = t /\ record[v].state \in states

\* A record past "reserved" names a build that was built and qualified: the
\* candidate is recorded only when the client ended well.
CandidateIsQualified ==
  \A v \in Versions :
    record[v].state \in {"qualified_private", "published"} =>
      /\ builds[record[v].build].template = record[v].template
      /\ builds[record[v].build].status = "ready"

\* A template is made public only when the journal knows it: the candidate is
\* recorded before the PATCH, so a death in between leaves something publish
\* can finish.  The exception is what a rollback leaves that died between its
\* DELETE and its record: a later publish of that version PATCHes whatever has
\* taken the alias since, and only then finds in verify that it is not its own.
PublicIsJournaled ==
  [][\A t \in DOMAIN templates \cap DOMAIN templates' :
       (~templates[t].public /\ templates'[t].public) =>
         \/ Recorded(t, {"qualified_private"})
         \/ \E v \in Versions : /\ record[v].state = "qualified_private"
                               /\ record[v].template \notin DOMAIN templates]_vars

\* A version that is recorded as rolled back is not what "stable" resolves to,
\* whatever was interrupted, repeated or built for another version since.
WithdrawnStaysWithdrawn ==
  \A v \in Versions, t \in DOMAIN templates :
    (record[v].state = "rolled_back" /\ "stable" \in DOMAIN templates[t].tags) =>
      templates[t].tags["stable"] # record[v].build

\* What a record says of its version is true, long after the run that wrote it.
RecordIsTrue == CandidateIsQualified /\ WithdrawnStaysWithdrawn

\* What a run deletes is its own leftover: the candidate a record names, or a
\* private template none of whose builds succeeded; never a recorded release, nor
\* the candidate of a run that is under way beside it.  The exception is a build
\* that a client without locks has added since the debris was looked up.
DeletesOnlyLeftovers ==
  [][\A t \in DOMAIN templates \ DOMAIN templates' :
       /\ ~Recorded(t, {"published", "rolled_back"})
       /\ \/ Recorded(t, {"qualified_private"})
          \/ /\ ~templates[t].public
             /\ \A b \in BuildsOf(t) : builds[b].status = "failed" \/ ~builds[b].locked]_vars

\* A failed build never blocks its product for good: with the operator
\* publishing again, a reserved version leaves "reserved", unless somebody else
\* has the alias, the definition changed, or the alias leads to a template that is
\* public or has a build that did not fail.  The last includes the new build of the
\* publish itself: this says that the way to a build is free, not that it is
\* qualified and released.
DebrisNeverBlocks ==
  \A v \in Versions :
    (record[v].state = "reserved") ~>
      \/ record[v].state # "reserved"
      \/ claimed
      \/ record[v].digest # definition
      \/ \E t \in DOMAIN templates : ~Reclaimable(t)

\* docs/research/stable-template-publication-contract.md: "No path deletes a
\* published template or deletes by alias."
NoPublishedTemplateIsDeleted ==
  [][\A t \in DOMAIN templates \ DOMAIN templates' : ~templates[t].public]_vars
=============================================================================

--------------------- MODULE TemplatePublicationProofs ---------------------
(***************************************************************************)
(* Proofs about publish-stable-template.sh and its journal, for any number  *)
(* of scripts, versions, definitions and faults.                           *)
(*                                                                         *)
(* The argument.  One script at a time holds the two locks, with the client *)
(* it started.  Clients that have lost their locks go on beside it, but all  *)
(* they can do is ask for one more build or take "stable" off: they write no *)
(* record and no template is made public or deleted by them.  Hence whatever *)
(* they do, a template that the holder's client finds or makes is in no      *)
(* record, a tag names a build of its template, and no two versions record   *)
(* the same template.  What remains is the annotation of the holder: what    *)
(* the record of its version, the build and the tags are at each step        *)
(* (Phase), and of a migration: it writes a record whose template and build  *)
(* the journal already has (MigrationOK).                                    *)
(***************************************************************************)
EXTENDS TemplatePublication, FiniteSetTheorems, TLAPS

PCs == {"idle", "publish", "alias", "debris", "reclaim", "recount", "candidate", "patch", "verify",
        "commit", "rollback", "delete", "untag", "withdraw"} \cup ClientSteps

States == {"none", "reserved", "qualified_private", "published", "rolled_back"}

\* A record in one of these states names a template and its build.
Past == {"qualified_private", "published", "rolled_back"}

Records == [state : States, digest : 0..MaxDefinition, template : Ids \cup {0},
            build : Ids \cup {0}]
Scratch == [pc : PCs, version : Versions \cup {"none"}, digest : 0..MaxDefinition,
            alive : BOOLEAN, template : Ids \cup {0}, build : Ids \cup {0}]
Build == [template : Ids, status : {"building", "ready", "failed"}, locked : BOOLEAN]
Tagging == UNION {[D -> Ids] : D \in SUBSET Tags}
Template == [public : BOOLEAN, tags : Tagging]

(* Every variable in its domain, ids given out in order. *)
Shapes ==
  /\ record \in [Versions -> Records]
  /\ templates \in [DOMAIN templates -> Template] /\ DOMAIN templates \subseteq Ids
  /\ builds \in [DOMAIN builds -> Build]
  /\ \E n \in Ids \cup {0} : DOMAIN builds = 1..n
  /\ claimed \in BOOLEAN /\ definition \in 1..MaxDefinition
  /\ holder \in Scripts \cup {Nobody} /\ script \in [Scripts -> Scratch]
  /\ faults \in 0..MaxFaults

(* The alias leads to one template at most, and its tags name builds of it. *)
BuildsOK == \A b \in DOMAIN builds : builds[b].template \in DOMAIN builds
TemplatesOK ==
  /\ \A t, u \in DOMAIN templates : t = u
  /\ \A t \in DOMAIN templates :
       /\ t \in DOMAIN builds
       /\ \A g \in DOMAIN templates[t].tags :
            templates[t].tags[g] \in DOMAIN builds /\ builds[templates[t].tags[g]].template = t

\* "stable" leads to build b.
Leads(t, b) == "stable" \in DOMAIN templates[t].tags /\ templates[t].tags["stable"] = b
LeadsNowhere(b) == \A t \in DOMAIN templates : ~Leads(t, b)

(* A record names a build of its template that ended well, and no other record
   names the template. *)
Named(r) ==
  /\ r.state = "none" => r = NoRecord
  /\ r.state # "none" => r.digest # 0
  /\ r.state \in Past =>
       /\ r.build \in DOMAIN builds /\ builds[r.build].template = r.template
       /\ builds[r.build].status = "ready"
  /\ r.state = "rolled_back" => LeadsNowhere(r.build)
RecordsOK ==
  /\ \A v \in Versions : Named(record[v])
  /\ \A v, w \in Versions :
       /\ record[v].state \in Past /\ record[w].state \in Past
       /\ record[v].template = record[w].template
       => v = w

\* Template t is in no record.
Unrecorded(t) == \A v \in Versions : record[v].state \in Past => record[v].template # t

(* A migration writes what the journal has, but for the digest and the state. *)
MigrationOK ==
  migration # NoMigration =>
    /\ migration.version \in Versions /\ migration.record \in Records
    /\ migration.record.state = "qualified_private" /\ migration.record.digest # 0
    /\ record[migration.version].state \in Past
    /\ migration.record.template = record[migration.version].template
    /\ migration.record.build = record[migration.version].build

(* The annotation of the holder, r its locals and old the record of its version. *)
Reserving == {"alias", "debris", "reclaim", "recount", "candidate"} \cup ClientSteps
Leftover(t) ==
  /\ ~templates[t].public
  /\ \A b \in BuildsOf(t) : builds[b].status = "failed" \/ ~builds[b].locked
Phase(r, old) ==
  /\ r.version \in Versions /\ r.digest # 0
  /\ ~r.alive => r.pc \in Contained
  /\ r.pc \in Reserving => old.state = "reserved"
  /\ r.pc = "reclaim" =>
       /\ Unrecorded(r.template) /\ r.template \in DOMAIN builds
       /\ r.template \in DOMAIN templates => Leftover(r.template)
  /\ r.pc = "build" => \A t \in DOMAIN templates : Unrecorded(t)
  /\ r.pc \in {"wait", "qualify", "candidate"} =>
       /\ r.build \in DOMAIN builds /\ builds[r.build].template = r.template
       /\ Unrecorded(r.template)
  /\ r.pc \in {"qualify", "candidate"} => builds[r.build].status = "ready"
  /\ r.pc \in {"patch", "delete"} => old.state = "qualified_private"
  /\ r.pc \in {"untag", "withdraw"} => old.state \in {"qualified_private", "published"}
  /\ r.pc = "withdraw" => LeadsNowhere(r.build)
  /\ r.pc \in {"delete", "untag", "withdraw"} => r.build = old.build /\ r.template = old.template

\* A client without locks, or a script that is not running.
Stray(r) == r = Idle \/ (~r.alive /\ r.pc \in Contained /\ r.version \in Versions)

RunsOK ==
  \A s \in Scripts :
    IF holder = s THEN script[s].pc # "idle" /\ Phase(script[s], record[script[s].version])
                  ELSE Stray(script[s])

IInv == Shapes /\ BuildsOK /\ TemplatesOK /\ RecordsOK /\ MigrationOK /\ RunsOK

-----------------------------------------------------------------------------
(* Ids, empty functions, and what the helpers of the script return.          *)

(* The ids are positive numbers, and the next one is new. *)
LEMMA IdsAreNumbers ==
  /\ Ids \subseteq Nat \ {0} /\ MaxFaults \in Nat /\ MaxDefinition \in Nat \ {0}
  /\ \A n \in Ids \cup {0} : 1..n \subseteq Ids
<1>1. Cardinality(Versions) \in Nat
  BY TemplateAssumption, FS_CardinalityType
<1>2. QED BY <1>1, TemplateAssumption DEF Ids

LEMMA NextIsNew ==
  ASSUME Shapes
  PROVE  /\ NextId \in Nat \ {0} /\ NextId \notin DOMAIN builds
         /\ DOMAIN builds \cup {NextId} = 1..NextId
<1>1. PICK n \in Ids \cup {0} : DOMAIN builds = 1..n
  BY DEF Shapes
<1>2. n \in Nat
  BY IdsAreNumbers
<1>3. NextId = n + 1
  <2>1. Cardinality(1..n) = n
    BY <1>2, FS_Interval
  <2>2. QED BY <1>1, <2>1 DEF NextId
<1>4. QED BY <1>1, <1>2, <1>3

(* No template at all, said in two ways. *)
LEMMA NoTemplate ==
  ASSUME Shapes
  PROVE  templates = << >> <=> DOMAIN templates = {}
  BY DEF Shapes

(* A program counter set, with the rest of the locals kept. *)
Same(r, q) == r.version = q.version /\ r.digest = q.digest /\ r.template = q.template
              /\ r.build = q.build
LEMMA Going ==
  ASSUME Shapes, NEW s \in Scripts, NEW pc \in PCs, GoTo(s, pc)
  PROVE  /\ script' \in [Scripts -> Scratch] /\ holder' = holder
         /\ script'[s].pc = pc /\ Same(script'[s], script[s])
         /\ script'[s].alive = script[s].alive
         /\ \A q \in Scripts \ {s} : script'[q] = script[q]
  BY DEF GoTo, Shapes, Scratch, Same

(* What another script, which holds the locks, knows is left true. *)
OthersKnow(s) ==
  \A q \in Scripts \ {s} : holder = q => Phase(script[q], record[script[q].version])'

LEMMA Acts ==
  ASSUME IInv, NEW s \in Scripts, \A q \in Scripts \ {s} : script'[q] = script[q],
         holder' \in {holder, s, Nobody}, holder \in Scripts \ {s} => holder' = holder,
         holder' = s => script'[s].pc # "idle" /\ Phase(script[s], record[script[s].version])',
         holder' # s => Stray(script'[s]), OthersKnow(s)
  PROVE  RunsOK'
<1>1. ASSUME NEW q \in Scripts
      PROVE  IF holder' = q
               THEN script'[q].pc # "idle" /\ Phase(script[q], record[script[q].version])'
               ELSE Stray(script'[q])
  <2>1. CASE q = s
    BY <2>1
  <2>2. CASE q # s
    <3>1. holder' = q => holder = q
      BY <2>2, TemplateAssumption
    <3>2. holder = q => holder' = q
      BY <2>2
    <3>3. script'[q] = script[q]
      BY <2>2
    <3>4. CASE holder = q
      BY <2>2, <3>2, <3>3, <3>4 DEF OthersKnow, IInv, RunsOK
    <3>5. CASE holder # q
      BY <3>1, <3>3, <3>5 DEF IInv, RunsOK
    <3>6. QED BY <3>4, <3>5
  <2>3. QED BY <2>1, <2>2
<1>2. QED BY <1>1 DEF RunsOK, Stray

LEMMA Leaving ==
  ASSUME IInv, NEW s \in Scripts, Exit(s), OthersKnow(s)
  PROVE  RunsOK' /\ script' \in [Scripts -> Scratch] /\ holder' \in Scripts \cup {Nobody}
<1>1. Idle \in Scratch
  BY IdsAreNumbers DEF Idle, Scratch, PCs
<1>2. /\ \A q \in Scripts \ {s} : script'[q] = script[q]
      /\ script'[s] = Idle /\ script' \in [Scripts -> Scratch]
      /\ holder' = IF holder = s THEN Nobody ELSE holder
  BY <1>1 DEF Exit, IInv, Shapes
<1>3. holder' # s /\ Stray(script'[s]) /\ holder' \in Scripts \cup {Nobody}
  BY <1>2, TemplateAssumption DEF Stray, IInv, Shapes
<1>4. QED BY <1>2, <1>3, Acts

(* A script that holds the locks goes on, or takes them. *)
LEMMA GoesOn ==
  ASSUME IInv, NEW s \in Scripts, holder \in {s, Nobody}, holder' = s,
         \A q \in Scripts \ {s} : script'[q] = script[q],
         script'[s].pc # "idle", Phase(script[s], record[script[s].version])'
  PROVE  RunsOK'
<1>1. OthersKnow(s)
  BY TemplateAssumption DEF OthersKnow
<1>2. /\ holder' \in {holder, s, Nobody} /\ (holder \in Scripts \ {s} => holder' = holder)
      /\ (holder' # s => Stray(script'[s]))
  BY TemplateAssumption
<1>3. /\ holder' = s => script'[s].pc # "idle" /\ Phase(script[s], record[script[s].version])'
      /\ \A q \in Scripts \ {s} : script'[q] = script[q]
  OBVIOUS
<1>4. QED BY <1>1, <1>2, <1>3, Acts

(* At a step of its own, a script holds the locks and its annotation holds, or it is
   a client without locks. *)
LEMMA Here ==
  ASSUME IInv, NEW s \in Scripts, script[s].pc # "idle"
  PROVE  /\ holder = s => Phase(script[s], record[script[s].version])
         /\ holder # s => ~script[s].alive /\ script[s].pc \in Contained
                          /\ script[s].version \in Versions
  BY DEF IInv, RunsOK, Stray, Idle

LEMMA Holds ==
  ASSUME IInv, NEW s \in Scripts, script[s].pc # "idle", script[s].alive
  PROVE  holder = s /\ Phase(script[s], record[script[s].version])
  BY Here

Amended(r, fields) == [f \in DOMAIN r |-> IF f \in DOMAIN fields THEN fields[f] ELSE r[f]]

LEMMA AmendReserved ==
  ASSUME NEW r \in Records, NEW d \in 1..MaxDefinition
  PROVE  LET n == Amended(r, [state |-> "reserved", digest |-> d]) IN
         /\ n \in Records /\ n.state = "reserved" /\ n.digest = d
         /\ n.template = r.template /\ n.build = r.build
  BY IdsAreNumbers DEF Records, States, Amended

LEMMA AmendCandidate ==
  ASSUME NEW r \in Records, NEW t \in Ids, NEW b \in Ids
  PROVE  LET n == Amended(r, [state |-> "qualified_private", template |-> t, build |-> b]) IN
         /\ n \in Records /\ n.state = "qualified_private" /\ n.digest = r.digest
         /\ n.template = t /\ n.build = b
  BY DEF Records, States, Amended

LEMMA AmendState ==
  ASSUME NEW r \in Records, NEW state \in {"published", "rolled_back"}
  PROVE  LET n == Amended(r, [state |-> state]) IN
         /\ n \in Records /\ n.state = state /\ n.digest = r.digest
         /\ n.template = r.template /\ n.build = r.build
  BY DEF Records, States, Amended

-----------------------------------------------------------------------------
(* Steps of a script that only read.                                         *)

(* The stores as they were, and the script in its domain. *)
Quiet == UNCHANGED <<record, templates, builds, migration>>
Rest == UNCHANGED <<claimed, definition, migration, faults>>

LEMMA QuietKeeps ==
  ASSUME IInv, Quiet, claimed' \in BOOLEAN, definition' \in 1..MaxDefinition,
         faults' \in 0..MaxFaults, script' \in [Scripts -> Scratch],
         holder' \in Scripts \cup {Nobody}
  PROVE  Shapes' /\ BuildsOK' /\ TemplatesOK' /\ RecordsOK' /\ MigrationOK'
<1>1. Shapes'
  BY DEF IInv, Shapes, Quiet
<1>2. BuildsOK' /\ TemplatesOK'
  BY DEF IInv, BuildsOK, TemplatesOK, Quiet
<1>3. RecordsOK'
  BY DEF IInv, RecordsOK, Named, LeadsNowhere, Leads, Quiet
<1>4. MigrationOK'
  BY DEF IInv, MigrationOK, Quiet
<1>5. QED BY <1>1, <1>2, <1>3, <1>4

LEMMA QuietTells ==
  ASSUME IInv, NEW s, Quiet, \A q \in Scripts \ {s} : script'[q] = script[q]
  PROVE  OthersKnow(s)
<1> SUFFICES ASSUME NEW q \in Scripts \ {s}, holder = q
             PROVE  Phase(script[q], record[script[q].version])'
  BY DEF OthersKnow
<1>1. Phase(script[q], record[script[q].version])
  BY DEF IInv, RunsOK
<1>2. script'[q] = script[q] /\ record' = record /\ templates' = templates /\ builds' = builds
  BY DEF Quiet
<1>3. QED BY <1>1, <1>2 DEF Phase, Unrecorded, Leftover, BuildsOf, LeadsNowhere, Leads

LEMMA QuietExit ==
  ASSUME IInv, NEW s \in Scripts, Quiet, claimed' = claimed,
         definition' = definition, faults' \in 0..MaxFaults, Exit(s)
  PROVE  IInv'
<1>1. claimed' \in BOOLEAN /\ definition' \in 1..MaxDefinition
  BY DEF IInv, Shapes
<1>2. \A q \in Scripts \ {s} : script'[q] = script[q]
  BY DEF Exit, IInv, Shapes
<1>3. QED BY <1>1, <1>2, QuietTells, Leaving, QuietKeeps DEF IInv

\* The program counters that are entered by a GoTo which changes nothing else.
LEMMA QuietGo ==
  ASSUME IInv, NEW s \in Scripts, NEW pc \in PCs \ {"idle"}, Quiet, Rest,
         script[s].pc # "idle", GoTo(s, pc),
         ~script[s].alive => pc \in Contained,
         pc \in Reserving => script[s].pc \in Reserving,
         pc = "build" => DOMAIN templates = {},
         pc \in {"wait", "qualify", "candidate"} =>
           script[s].pc \in {"wait", "qualify", "candidate"},
         pc \in {"qualify", "candidate"} => builds[script[s].build].status = "ready",
         pc \notin {"reclaim", "patch", "delete", "untag", "withdraw"}
  PROVE  IInv'
<1>1. /\ script' \in [Scripts -> Scratch] /\ holder' = holder
      /\ script'[s].pc = pc /\ Same(script'[s], script[s])
      /\ script'[s].alive = script[s].alive
      /\ \A q \in Scripts \ {s} : script'[q] = script[q]
  BY Going DEF IInv
<1>2. ASSUME holder = s
      PROVE  Phase(script[s], record[script[s].version])'
  <2>1. Phase(script[s], record[script[s].version])
    BY <1>2, Here
  <2>2. QED BY <1>1, <2>1 DEF Phase, Same, Quiet, Reserving, ClientSteps, Unrecorded
<1>3. holder # s => Stray(script'[s])
  BY <1>1, Here DEF Stray, Same
<1>4. RunsOK'
  BY <1>1, <1>2, <1>3, QuietTells, Acts
<1>5. claimed' \in BOOLEAN /\ definition' \in 1..MaxDefinition /\ faults' \in 0..MaxFaults
  BY DEF IInv, Shapes, Rest
<1>6. holder' \in Scripts \cup {Nobody}
  BY <1>1 DEF IInv, Shapes
<1>7. QED BY <1>1, <1>4, <1>5, <1>6, QuietKeeps DEF IInv

LEMMA StartKeeps ==
  ASSUME IInv, NEW s \in Scripts, NEW operation \in {"publish", "rollback"},
         NEW v \in Versions, Start(s, operation, v)
  PROVE  IInv'
<1>1. /\ script'[s].pc = operation /\ script'[s].version = v /\ script'[s].digest = definition
      /\ script'[s].alive /\ \A q \in Scripts \ {s} : script'[q] = script[q]
      /\ holder = Nobody /\ holder' = s /\ Quiet /\ Rest
  BY DEF Start, IInv, Shapes, Idle, Quiet, Rest, database
<1>2. script' \in [Scripts -> Scratch]
  <2>1. /\ definition \in 0..MaxDefinition /\ script \in [Scripts -> Scratch]
        /\ script' = [script EXCEPT ![s] =
             [Idle EXCEPT !.pc = operation, !.version = v, !.digest = definition]]
    BY IdsAreNumbers DEF Start, IInv, Shapes
  <2>2. [Idle EXCEPT !.pc = operation, !.version = v, !.digest = definition] \in Scratch
    BY <2>1, IdsAreNumbers DEF Idle, Scratch, PCs
  <2>3. QED BY <2>1, <2>2
<1>3. definition # 0
  BY DEF IInv, Shapes
<1>4. Phase(script[s], record[script[s].version])'
  BY <1>1, <1>3 DEF Phase, Reserving, ClientSteps
<1>5. RunsOK'
  BY <1>1, <1>4, GoesOn
<1>6. claimed' \in BOOLEAN /\ definition' \in 1..MaxDefinition /\ faults' \in 0..MaxFaults
  BY <1>1 DEF IInv, Shapes, Rest
<1>7. QED BY <1>1, <1>2, <1>5, <1>6, QuietKeeps DEF IInv

LEMMA ReadsKeep ==
  ASSUME IInv, NEW s \in Scripts,
         \/ AliasOwned(s) \/ Recount(s) \/ ClientChecks(s) \/ ClientWaits(s)
         \/ ClientQualifies(s) \/ Verify(s)
  PROVE  IInv'
<1> USE DEF At, database, Quiet, Rest, PCs, ClientSteps, Contained, Reserving
<1>f. Rest => faults' \in 0..MaxFaults
  BY DEF IInv, Shapes
<1>1. CASE AliasOwned(s)
  BY <1>1, <1>f, QuietExit, QuietGo DEF AliasOwned
<1>2. CASE Recount(s)
  BY <1>2, <1>f, QuietExit, QuietGo DEF Recount
<1>3. CASE ClientChecks(s)
  BY <1>3, <1>f, QuietExit, QuietGo, NoTemplate DEF ClientChecks, IInv
<1>4. CASE ClientWaits(s)
  BY <1>4, <1>f, QuietExit, QuietGo DEF ClientWaits
<1>5. CASE ClientQualifies(s)
  <2>1. CASE Exit(s)
    BY <1>5, <2>1, <1>f, QuietExit DEF ClientQualifies
  <2>2. CASE script[s].alive /\ GoTo(s, "candidate")
    <3>1. builds[script[s].build].status = "ready"
      BY <1>5, <2>2, Holds DEF ClientQualifies, Phase
    <3>2. QED BY <1>5, <2>2, <3>1, QuietGo DEF ClientQualifies
  <2>3. QED BY <1>5, <2>1, <2>2 DEF ClientQualifies
<1>6. CASE Verify(s)
  BY <1>6, <1>f, QuietExit, QuietGo DEF Verify
<1>7. QED BY <1>1, <1>2, <1>3, <1>4, <1>5, <1>6

(* A template all whose builds failed is in no record. *)
LEMMA DebrisIsUnrecorded ==
  ASSUME IInv, NEW t, Reclaimable(t)
  PROVE  Unrecorded(t) /\ Leftover(t)
<1>1. \A v \in Versions : record[v].state \in Past =>
        /\ record[v].build \in DOMAIN builds /\ builds[record[v].build].template = record[v].template
        /\ builds[record[v].build].status = "ready"
  BY DEF IInv, RecordsOK, Named
<1>2. QED BY <1>1 DEF Reclaimable, Unrecorded, Leftover, BuildsOf

LEMMA FindDebrisKeeps ==
  ASSUME IInv, NEW s \in Scripts, FindDebris(s)
  PROVE  IInv'
<1>1. script[s].pc = "debris" /\ script[s].alive /\ Quiet /\ Rest
  BY DEF FindDebris, At, Quiet, Rest, database
<1>2. holder = s /\ Phase(script[s], record[script[s].version])
  BY <1>1, Holds
<1>3. CASE GoTo(s, "exists")
  BY <1>1, <1>3, QuietGo DEF PCs, ClientSteps, Contained, Reserving
<1>4. ASSUME NEW t \in DOMAIN templates, Reclaimable(t), holder' = holder,
             script' = [script EXCEPT ![s].pc = "reclaim", ![s].template = t]
      PROVE  IInv'
  <2>1. PICK r : r = [script[s] EXCEPT !.pc = "reclaim", !.template = t]
    OBVIOUS
  <2>2. t \in Ids /\ t \in DOMAIN builds
    BY DEF IInv, Shapes, TemplatesOK
  <2>3. /\ script' = [script EXCEPT ![s] = r]
        /\ r \in Scratch /\ r.pc = "reclaim" /\ r.version = script[s].version
        /\ r.digest = script[s].digest /\ r.template = t /\ r.alive = script[s].alive
    BY <1>4, <2>1, <2>2 DEF IInv, Shapes, Scratch, PCs
  <2>4. /\ script' \in [Scripts -> Scratch] /\ script'[s] = r
        /\ \A q \in Scripts \ {s} : script'[q] = script[q]
    BY <2>3 DEF IInv, Shapes
  <2>5. Unrecorded(t)' /\ Leftover(t)'
    BY <1>1, <1>4, DebrisIsUnrecorded DEF Quiet, Unrecorded, Leftover, BuildsOf
  <2>6. Phase(script[s], record[script[s].version])'
    BY <1>1, <1>2, <2>2, <2>3, <2>4, <2>5 DEF Phase, Quiet, Reserving, ClientSteps
  <2>7. RunsOK'
    BY <1>2, <1>4, <2>3, <2>4, <2>6, GoesOn
  <2>8. claimed' \in BOOLEAN /\ definition' \in 1..MaxDefinition /\ faults' \in 0..MaxFaults
    BY <1>1 DEF IInv, Shapes, Rest
  <2>9. QED BY <1>1, <1>2, <1>4, <2>4, <2>7, <2>8, QuietKeeps DEF IInv
<1>5. QED BY <1>3, <1>4 DEF FindDebris

(* Publish and rollback find the record of their version and go where it says. *)
Loads(s, pc) ==
  script' = [script EXCEPT ![s].pc = pc,
               ![s].template = record[script[s].version].template,
               ![s].build = record[script[s].version].build]
LEMMA FindsRecord ==
  ASSUME IInv, NEW s \in Scripts, script[s].pc # "idle", script[s].alive,
         NEW pc \in {"alias", "patch", "verify", "delete", "untag"}, Quiet, Rest,
         holder' = holder, Loads(s, pc),
         pc = "alias" => record[script[s].version].state = "reserved",
         pc \in {"patch", "delete"} => record[script[s].version].state = "qualified_private",
         pc = "untag" => record[script[s].version].state = "published"
  PROVE  IInv'
<1>1. holder = s /\ Phase(script[s], record[script[s].version])
  BY Holds
<1>2. record[script[s].version] \in Records
  BY <1>1 DEF IInv, Shapes, Phase
<1>3. PICK r : r = [script[s] EXCEPT !.pc = pc, !.template = record[script[s].version].template,
                                     !.build = record[script[s].version].build]
  OBVIOUS
<1>4. /\ script' = [script EXCEPT ![s] = r]
      /\ r \in Scratch /\ r.pc = pc /\ r.version = script[s].version
      /\ r.digest = script[s].digest
      /\ r.template = record[script[s].version].template
      /\ r.build = record[script[s].version].build
  BY <1>2, <1>3 DEF IInv, Shapes, Scratch, Records, PCs, Loads
<1>a. r.alive = script[s].alive
  BY <1>3 DEF IInv, Shapes, Scratch
<1>5. /\ script' \in [Scripts -> Scratch]
      /\ script'[s] = r /\ \A q \in Scripts \ {s} : script'[q] = script[q]
  BY <1>4 DEF IInv, Shapes
<1>6. Phase(script[s], record[script[s].version])'
  BY <1>1, <1>4, <1>a, <1>5 DEF Phase, Quiet, Reserving, ClientSteps
<1>7. RunsOK'
  BY <1>1, <1>4, <1>5, <1>6, GoesOn
<1>8. claimed' \in BOOLEAN /\ definition' \in 1..MaxDefinition /\ faults' \in 0..MaxFaults
  BY DEF IInv, Shapes, Rest
<1>9. QED BY <1>1, <1>5, <1>7, <1>8, QuietKeeps DEF IInv

LEMMA ShowKeeps ==
  ASSUME IInv, NEW s \in Scripts, Show(s)
  PROVE  IInv'
<1> DEFINE old == record[script[s].version]
<1>1. script[s].pc # "idle" /\ script[s].alive /\ Quiet /\ Rest /\ faults' \in 0..MaxFaults
  BY DEF Show, At, Quiet, Rest, database, IInv, Shapes
<1>2. CASE Exit(s)
  BY <1>1, <1>2, QuietExit DEF Rest
<1>3. CASE /\ old.state \in {"qualified_private", "published"}
           /\ script' = [script EXCEPT
                ![s].pc = IF old.state = "published" THEN "untag" ELSE "delete",
                ![s].template = old.template, ![s].build = old.build]
           /\ UNCHANGED holder
  <2>1. CASE old.state = "published"
    BY <1>1, <1>3, <2>1, FindsRecord DEF Loads
  <2>2. CASE old.state = "qualified_private"
    BY <1>1, <1>3, <2>2, FindsRecord DEF Loads
  <2>3. QED BY <1>3, <2>1, <2>2
<1>4. QED BY <1>2, <1>3 DEF Show

-----------------------------------------------------------------------------
(* Steps that write a record.                                                *)

LEMMA WritesOne ==
  ASSUME IInv, NEW v \in Versions, UNCHANGED <<templates, builds, claimed, definition, faults>>,
         record' \in [Versions -> Records],
         \A w \in Versions \ {v} : record'[w] = record[w],
         Named(record[v])',
         record'[v].state \in Past =>
           \A w \in Versions \ {v} :
             record[w].state \in Past => record[w].template # record'[v].template,
         script' \in [Scripts -> Scratch], holder' \in Scripts \cup {Nobody}
  PROVE  Shapes' /\ BuildsOK' /\ TemplatesOK' /\ RecordsOK'
<1>1. Shapes'
  BY DEF IInv, Shapes
<1>2. BuildsOK' /\ TemplatesOK'
  BY DEF IInv, BuildsOK, TemplatesOK
<1>3. \A w \in Versions : Named(record[w])'
  BY DEF IInv, RecordsOK, Named, LeadsNowhere, Leads
<1>4. RecordsOK'
  BY <1>3 DEF IInv, RecordsOK
<1>5. QED BY <1>1, <1>2, <1>4

(* A migration that is under way stays true of a record that keeps its template. *)
LEMMA MigrationStays ==
  ASSUME IInv, NEW v \in Versions, migration' = migration,
         \A w \in Versions \ {v} : record'[w] = record[w],
         record[v].state \in Past =>
           /\ record'[v].state \in Past /\ record'[v].template = record[v].template
           /\ record'[v].build = record[v].build
  PROVE  MigrationOK'
<1>1. MigrationOK
  BY DEF IInv
<1>2. \A w \in Versions : record[w].state \in Past =>
        /\ record'[w].state \in Past /\ record'[w].template = record[w].template
        /\ record'[w].build = record[w].build
  OBVIOUS
<1>3. QED BY <1>1, <1>2 DEF MigrationOK, Records

(* What write() leaves in the journal: the record of one version is amended. *)
LEMMA Writing ==
  ASSUME IInv, NEW s \in Scripts, script[s].version \in Versions, NEW fields,
         Amended(record[script[s].version], fields) \in Records, Write(s, fields)
  PROVE  /\ record' \in [Versions -> Records]
         /\ record'[script[s].version] = Amended(record[script[s].version], fields)
         /\ \A w \in Versions \ {script[s].version} : record'[w] = record[w]
  BY DEF Write, Amended, IInv, Shapes

LEMMA ReserveKeeps ==
  ASSUME IInv, NEW s \in Scripts, Reserve(s)
  PROVE  IInv'
<1>v. PICK v : v = script[s].version
  OBVIOUS
<1> DEFINE old == record[v]
<1>1. /\ script[s].pc = "publish" /\ script[s].alive /\ templates' = templates
      /\ builds' = builds /\ Rest /\ faults' \in 0..MaxFaults
  BY DEF Reserve, At, Rest, database, IInv, Shapes
<1>2. holder = s /\ Phase(script[s], old) /\ v \in Versions
  BY <1>v, <1>1, Holds DEF Phase
<1>3. CASE UNCHANGED record /\ Exit(s)
  BY <1>1, <1>3, QuietExit DEF Rest, Quiet
<1>4. CASE /\ old.state \in {"reserved", "qualified_private", "published"}
           /\ script' = [script EXCEPT
                ![s].pc = CASE old.state = "reserved" -> "alias"
                            [] old.state = "qualified_private" -> "patch"
                            [] old.state = "published" -> "verify",
                ![s].template = old.template, ![s].build = old.build]
           /\ UNCHANGED <<record, holder>>
  <2>1. CASE old.state = "reserved"
    BY <1>v, <1>1, <1>4, <2>1, FindsRecord DEF Loads, Quiet, Rest
  <2>2. CASE old.state = "qualified_private"
    BY <1>v, <1>1, <1>4, <2>2, FindsRecord DEF Loads, Quiet, Rest
  <2>3. CASE old.state = "published"
    BY <1>v, <1>1, <1>4, <2>3, FindsRecord DEF Loads, Quiet, Rest
  <2>4. QED BY <1>4, <2>1, <2>2, <2>3
<1>5. CASE /\ old.state = "none"
           /\ Write(s, [state |-> "reserved", digest |-> script[s].digest])
           /\ GoTo(s, "alias")
  <2>1. old \in Records /\ script[s].digest \in 1..MaxDefinition
    BY <1>2, IdsAreNumbers DEF IInv, Shapes, Scratch, Phase
  <2>2. /\ record' \in [Versions -> Records]
        /\ \A w \in Versions \ {v} : record'[w] = record[w]
        /\ record'[v].state = "reserved" /\ record'[v].digest = script[s].digest
    BY <1>v, <1>2, <1>5, <2>1, AmendReserved, Writing
  <2>3. Named(record[v])'
    <3>1. \A r \in Records : r.state = "reserved" /\ r.digest # 0 => Named(r)'
      BY DEF Named, Past
    <3>2. QED BY <2>1, <2>2, <3>1, <1>2
  <2>4. /\ script' \in [Scripts -> Scratch] /\ holder' = holder
        /\ script'[s].pc = "alias" /\ Same(script'[s], script[s])
        /\ script'[s].alive = script[s].alive
        /\ \A q \in Scripts \ {s} : script'[q] = script[q]
    BY <1>5, Going DEF IInv, PCs
  <2>5. Phase(script[s], record[script[s].version])'
    BY <1>v, <1>1, <1>2, <2>2, <2>4 DEF Phase, Same, Reserving, ClientSteps
  <2>6. RunsOK'
    BY <1>2, <2>4, <2>5, GoesOn
  <2>7. MigrationOK'
    BY <1>1, <1>2, <1>5, <2>2, MigrationStays DEF Rest, Past
  <2>8. holder' \in Scripts \cup {Nobody}
    BY <2>4 DEF IInv, Shapes
  <2>9. QED BY <1>1, <1>2, <2>2, <2>3, <2>4, <2>6, <2>7, <2>8, WritesOne DEF Past, IInv, Rest
<1>6. QED BY <1>v, <1>3, <1>4, <1>5 DEF Reserve

LEMMA RecordCandidateKeeps ==
  ASSUME IInv, NEW s \in Scripts, RecordCandidate(s)
  PROVE  IInv'
<1>v. PICK v : v = script[s].version
  OBVIOUS
<1> DEFINE old == record[v]
<1>1. /\ script[s].pc = "candidate" /\ script[s].alive /\ templates' = templates
      /\ builds' = builds /\ Rest /\ faults' \in 0..MaxFaults
  BY DEF RecordCandidate, At, Rest, database, IInv, Shapes
<1>2. holder = s /\ Phase(script[s], old) /\ v \in Versions /\ old.state = "reserved"
  BY <1>v, <1>1, Holds DEF Phase, Reserving
<1>3. CASE UNCHANGED record /\ Exit(s)
  BY <1>1, <1>3, QuietExit DEF Rest, Quiet
<1>4. CASE /\ Write(s, [state |-> "qualified_private", template |-> script[s].template,
                        build |-> script[s].build])
           /\ GoTo(s, "patch")
  <2>1. /\ old \in Records /\ script[s].template \in Ids /\ script[s].build \in Ids
        /\ script[s].build \in DOMAIN builds
        /\ builds[script[s].build].template = script[s].template
        /\ builds[script[s].build].status = "ready" /\ Unrecorded(script[s].template)
        /\ old.digest # 0
    <3>1. old \in Records /\ Named(old)
      BY <1>2 DEF IInv, Shapes, RecordsOK
    <3>2. /\ script[s].build \in DOMAIN builds
          /\ builds[script[s].build].template = script[s].template
          /\ builds[script[s].build].status = "ready" /\ Unrecorded(script[s].template)
      BY <1>1, <1>2 DEF Phase
    <3>3. DOMAIN builds \subseteq Ids
      BY IdsAreNumbers DEF IInv, Shapes
    <3>4. script[s].template \in Ids
      BY <3>2, <3>3 DEF IInv, BuildsOK
    <3>5. QED BY <3>1, <3>2, <3>3, <3>4, <1>2 DEF Named
  <2>2. /\ record' \in [Versions -> Records]
        /\ \A w \in Versions \ {v} : record'[w] = record[w]
        /\ record'[v].state = "qualified_private" /\ record'[v].digest = old.digest
        /\ record'[v].template = script[s].template /\ record'[v].build = script[s].build
    BY <1>v, <1>2, <1>4, <2>1, AmendCandidate, Writing
  <2>3. Named(record[v])'
    BY <1>1, <1>2, <2>1, <2>2 DEF Named, Past
  <2>4. /\ script' \in [Scripts -> Scratch] /\ holder' = holder
        /\ script'[s].pc = "patch" /\ Same(script'[s], script[s])
        /\ script'[s].alive = script[s].alive
        /\ \A q \in Scripts \ {s} : script'[q] = script[q]
    BY <1>4, Going DEF IInv, PCs
  <2>5. Phase(script[s], record[script[s].version])'
    BY <1>v, <1>1, <1>2, <2>2, <2>4 DEF Phase, Same, Reserving, ClientSteps
  <2>6. RunsOK'
    BY <1>2, <2>4, <2>5, GoesOn
  <2>7. MigrationOK'
    BY <1>1, <1>2, <2>2, MigrationStays DEF Rest, Past
  <2>8. holder' \in Scripts \cup {Nobody}
    BY <2>4 DEF IInv, Shapes
  <2>9. \A w \in Versions \ {v} : record[w].state \in Past => record[w].template # record'[v].template
    BY <2>1, <2>2 DEF Unrecorded
  <2>10. QED BY <1>1, <1>2, <2>2, <2>3, <2>4, <2>6, <2>7, <2>8, <2>9, WritesOne DEF IInv, Rest
<1>5. QED BY <1>v, <1>3, <1>4 DEF RecordCandidate

\* A record whose template and build stay, in a later state.
LEMMA Concludes ==
  ASSUME IInv, NEW s \in Scripts, NEW state \in {"published", "rolled_back"},
         script[s].pc # "idle", script[s].alive, templates' = templates, builds' = builds, Rest,
         record[script[s].version].state \in {"qualified_private", "published"},
         state = "rolled_back" => script[s].pc = "withdraw",
         Write(s, [state |-> state]), Exit(s)
  PROVE  IInv'
<1>v. PICK v : v = script[s].version
  OBVIOUS
<1> DEFINE old == record[v]
<1>2. holder = s /\ Phase(script[s], old) /\ v \in Versions
  BY <1>v, Holds DEF Phase
<1>3. old \in Records /\ Named(old)
  BY <1>2 DEF IInv, Shapes, RecordsOK
<1>4. /\ record' \in [Versions -> Records]
      /\ \A w \in Versions \ {v} : record'[w] = record[w]
      /\ record'[v].state = state /\ record'[v].digest = old.digest
      /\ record'[v].template = old.template /\ record'[v].build = old.build
  BY <1>v, <1>2, <1>3, AmendState, Writing
<1>5. Named(record[v])'
  <2>1. state = "rolled_back" => LeadsNowhere(old.build)
    BY <1>2 DEF Phase
  <2>2. QED BY <1>v, <1>3, <1>4, <2>1 DEF Named, Past, LeadsNowhere, Leads
<1>6. \A w \in Versions \ {v} : record[w].state \in Past => record[w].template # old.template
  BY <1>v, <1>2 DEF IInv, RecordsOK, Past
<1>7. OthersKnow(s)
  BY <1>2 DEF OthersKnow
<1>8. RunsOK' /\ script' \in [Scripts -> Scratch] /\ holder' \in Scripts \cup {Nobody}
  BY <1>7, Leaving
<1>9. MigrationOK'
  BY <1>2, <1>4, MigrationStays DEF Rest, Past
<1>10. QED BY <1>2, <1>4, <1>5, <1>6, <1>8, <1>9, WritesOne DEF IInv, Rest

LEMMA ConcludesKeep ==
  ASSUME IInv, NEW s \in Scripts, Commit(s) \/ RecordRollback(s)
  PROVE  IInv'
<1>1. /\ script[s].pc # "idle" /\ script[s].alive
      /\ templates' = templates /\ builds' = builds /\ Rest
  BY DEF Commit, RecordRollback, At, Rest, database
<1>2. CASE record' = record /\ Exit(s)
  <2>1. faults' \in 0..MaxFaults
    BY <1>1 DEF Rest, IInv, Shapes
  <2>2. QED BY <1>1, <1>2, <2>1, QuietExit DEF Rest, Quiet
<1>3. CASE Commit(s) /\ ~(record' = record)
  BY <1>1, <1>3, Concludes DEF Commit, At
<1>4. CASE RecordRollback(s) /\ ~(record' = record)
  BY <1>1, <1>4, Concludes DEF RecordRollback, At
<1>5. QED BY <1>2, <1>3, <1>4 DEF Commit, RecordRollback

\* A migration asks nobody: the record of its version keeps its template and build, and
\* what another run has written of its state since is lost.
LEMMA MigrationReadsKeeps ==
  ASSUME IInv, NEW v \in Versions, MigrationReads(v)
  PROVE  IInv'
<1>1. /\ UNCHANGED <<record, templates, builds, claimed, definition, holder, script, faults>>
      /\ record[v].state = "qualified_private" /\ record[v] \in Records
      /\ definition \in 1..MaxDefinition
      /\ migration' = [version |-> v, record |-> [record[v] EXCEPT !.digest = definition]]
  BY DEF MigrationReads, database, IInv, Shapes
<1>2. PICK r : r = [record[v] EXCEPT !.digest = definition]
  OBVIOUS
<1>3. /\ r \in Records /\ r.state = "qualified_private" /\ r.digest # 0
      /\ r.template = record[v].template /\ r.build = record[v].build
  <2>1. definition \in 0..MaxDefinition
    BY <1>1, IdsAreNumbers
  <2>2. QED BY <1>1, <1>2, <2>1, IdsAreNumbers DEF Records
<1>4. migration'.version = v /\ migration'.record = r
  BY <1>1, <1>2
<1>5. MigrationOK'
  BY <1>1, <1>3, <1>4 DEF MigrationOK, Past
<1>6. Shapes' /\ BuildsOK' /\ TemplatesOK' /\ RecordsOK' /\ RunsOK'
  BY <1>1 DEF IInv, Shapes, BuildsOK, TemplatesOK, RecordsOK, Named, RunsOK, Phase, Unrecorded,
              Leftover, BuildsOf, LeadsNowhere, Leads
<1>7. QED BY <1>5, <1>6 DEF IInv

LEMMA MigrationWritesKeeps ==
  ASSUME IInv, MigrationWrites
  PROVE  IInv'
<1>v. PICK v : v = migration.version
  OBVIOUS
<1>1. /\ v \in Versions /\ migration.record \in Records
      /\ migration.record.state = "qualified_private" /\ migration.record.digest # 0
      /\ record[v].state \in Past
      /\ migration.record.template = record[v].template
      /\ migration.record.build = record[v].build
  BY <1>v DEF MigrationWrites, IInv, MigrationOK
<1>2. /\ record' \in [Versions -> Records] /\ record'[v] = migration.record
      /\ \A w \in Versions \ {v} : record'[w] = record[w]
  BY <1>v, <1>1 DEF MigrationWrites, IInv, Shapes
<1>3. UNCHANGED <<templates, builds, claimed, definition, holder, script, faults>>
  BY DEF MigrationWrites, database
<1>4. Named(record[v])'
  <2>1. Named(record[v])
    BY <1>1 DEF IInv, RecordsOK
  <2>2. QED BY <1>1, <1>2, <1>3, <2>1 DEF Named, Past
<1>5. \A w \in Versions \ {v} : record[w].state \in Past => record[w].template # record'[v].template
  BY <1>1, <1>2 DEF IInv, RecordsOK
<1>6. script' \in [Scripts -> Scratch] /\ holder' \in Scripts \cup {Nobody}
  BY <1>3 DEF IInv, Shapes
<1>7. MigrationOK'
  BY DEF MigrationWrites, MigrationOK
<1>8. \A w \in Versions :
        /\ record'[w].state \in Past <=> record[w].state \in Past
        /\ record'[w].state \notin Past \cup {"qualified_private"} => record'[w] = record[w]
        /\ record[w].state \in Past => record'[w].template = record[w].template
                                      /\ record'[w].build = record[w].build
        /\ record'[w].state = record[w].state \/ record'[w].state = "qualified_private"
  BY <1>1, <1>2 DEF Past
<1>9. ASSUME NEW s \in Scripts, holder = s
      PROVE  Phase(script[s], record[script[s].version])'
  <2>1. Phase(script[s], record[script[s].version])
    BY <1>9 DEF IInv, RunsOK
  <2>2. PICK q : q = script[s]
    OBVIOUS
  <2>3. PICK w \in Versions : w = q.version
    BY <2>1, <2>2 DEF Phase
  <2>4. \A t : Unrecorded(t) => Unrecorded(t)'
    BY <1>8 DEF Unrecorded
  <2>5. \A t : Leftover(t) => Leftover(t)'
    BY <1>3 DEF Leftover, BuildsOf
  <2>6. \A b : LeadsNowhere(b) => LeadsNowhere(b)'
    BY <1>3 DEF LeadsNowhere, Leads
  <2>7. Phase(q, record[w])
    BY <2>1, <2>2, <2>3
  <2>8. /\ q.version \in Versions /\ q.digest # 0
        /\ ~q.alive => q.pc \in Contained
        /\ q.pc \in Reserving => record'[w].state = "reserved"
    BY <1>8, <2>7 DEF Phase, Past
  <2>9. /\ q.pc \in {"patch", "delete"} => record'[w].state = "qualified_private"
        /\ q.pc \in {"untag", "withdraw"} => record'[w].state \in {"qualified_private", "published"}
        /\ q.pc \in {"delete", "untag", "withdraw"} =>
             q.build = record'[w].build /\ q.template = record'[w].template
    BY <1>8, <2>7 DEF Phase, Past
  <2>10. Phase(q, record[w])'
    BY <1>3, <2>4, <2>5, <2>6, <2>7, <2>8, <2>9 DEF Phase
  <2>11. QED BY <1>3, <2>2, <2>3, <2>10
<1>10. RunsOK'
  BY <1>3, <1>9 DEF IInv, RunsOK
<1>11. QED BY <1>1, <1>2, <1>3, <1>4, <1>5, <1>6, <1>7, <1>10, WritesOne DEF IInv

-----------------------------------------------------------------------------
(* Steps that take templates or tags away, or make a template public.        *)

(* No template and no tag is there that was not there before. *)
Less ==
  /\ templates' \in [DOMAIN templates' -> Template]
  /\ DOMAIN templates' \subseteq DOMAIN templates
  /\ \A t \in DOMAIN templates' :
       /\ DOMAIN templates'[t].tags \subseteq DOMAIN templates[t].tags
       /\ \A g \in DOMAIN templates'[t].tags : templates'[t].tags[g] = templates[t].tags[g]

LEMMA LessKeeps ==
  ASSUME IInv, Less, UNCHANGED <<record, builds, claimed, definition, migration>>,
         faults' \in 0..MaxFaults,
         script' \in [Scripts -> Scratch], holder' \in Scripts \cup {Nobody}
  PROVE  Shapes' /\ BuildsOK' /\ TemplatesOK' /\ RecordsOK' /\ MigrationOK'
<1>1. Shapes'
  BY DEF IInv, Shapes, Less
<1>2. BuildsOK'
  BY DEF IInv, BuildsOK
<1>3. TemplatesOK'
  BY DEF IInv, TemplatesOK, Less
<1>4. \A b : LeadsNowhere(b) => LeadsNowhere(b)'
  BY DEF Less, LeadsNowhere, Leads
<1>5. \A v \in Versions : Named(record[v])'
  BY <1>4 DEF IInv, RecordsOK, Named
<1>6. RecordsOK'
  BY <1>5 DEF IInv, RecordsOK
<1>7. MigrationOK'
  BY DEF IInv, MigrationOK
<1>8. QED BY <1>1, <1>2, <1>3, <1>6, <1>7

(* With fewer tags, whoever holds the locks knows what it knew. *)
Private == \A t \in DOMAIN templates' : templates'[t].public = templates[t].public
LEMMA LessTells ==
  ASSUME IInv, Less, Private, UNCHANGED <<record, builds>>, NEW q \in Scripts, holder = q,
         script'[q] = script[q]
  PROVE  Phase(script[q], record[script[q].version])'
<1>1. Phase(script[q], record[script[q].version])
  BY DEF IInv, RunsOK
<1>2. \A b : LeadsNowhere(b) => LeadsNowhere(b)'
  BY DEF Less, LeadsNowhere, Leads
<1>3. \A t : t \in DOMAIN templates' =>
        t \in DOMAIN templates /\ (Leftover(t) => Leftover(t)')
  BY DEF Less, Private, Leftover, BuildsOf
<1>4. \A t : Unrecorded(t) => Unrecorded(t)'
  BY DEF Unrecorded
<1>5. QED BY <1>1, <1>2, <1>3, <1>4 DEF Phase

LEMMA Deleting ==
  ASSUME IInv, NEW t, Delete(t)
  PROVE  /\ Less /\ DOMAIN templates' = DOMAIN templates \ {t}
         /\ \A u \in DOMAIN templates' : templates'[u] = templates[u]
  BY DEF Delete, Less, IInv, Shapes

\* A tag taken off, and the other tags with their build.
LEMMA WithoutTag ==
  ASSUME NEW f \in Tagging, NEW g
  PROVE  /\ Without(f, g) \in Tagging /\ g \notin DOMAIN Without(f, g)
         /\ DOMAIN Without(f, g) \subseteq DOMAIN f
         /\ \A h \in DOMAIN Without(f, g) : Without(f, g)[h] = f[h]
<1>1. PICK D \in SUBSET Tags : f \in [D -> Ids]
  BY DEF Tagging
<1>2. Without(f, g) \in [D \ {g} -> Ids] /\ D \ {g} \in SUBSET Tags
  BY <1>1 DEF Without
<1>3. QED BY <1>1, <1>2 DEF Tagging, Without

LEMMA Untagging ==
  ASSUME IInv, NEW t \in DOMAIN templates,
         templates' = [templates EXCEPT ![t].tags = Without(@, "stable")]
  PROVE  /\ Less /\ Private /\ DOMAIN templates' = DOMAIN templates
         /\ \A b : LeadsNowhere(b)'
<1>1. templates[t].tags \in Tagging /\ templates \in [DOMAIN templates -> Template]
  BY DEF IInv, Shapes, Template
<1>2. PICK f : f = Without(templates[t].tags, "stable")
  OBVIOUS
<1>3. /\ f \in Tagging /\ "stable" \notin DOMAIN f
      /\ DOMAIN f \subseteq DOMAIN templates[t].tags
      /\ \A h \in DOMAIN f : f[h] = templates[t].tags[h]
  BY <1>1, <1>2, WithoutTag
<1>4. templates' = [templates EXCEPT ![t].tags = f]
  BY <1>2
<1>5. /\ templates' \in [DOMAIN templates -> Template] /\ templates'[t].tags = f
      /\ templates'[t].public = templates[t].public
      /\ \A u \in DOMAIN templates \ {t} : templates'[u] = templates[u]
  BY <1>1, <1>3, <1>4 DEF Template
<1>6. \A u \in DOMAIN templates : u = t
  BY DEF IInv, TemplatesOK
<1>7. QED BY <1>3, <1>5, <1>6 DEF Less, Private, LeadsNowhere, Leads

LEMMA Publishing ==
  ASSUME IInv, NEW t \in DOMAIN templates,
         templates' = [templates EXCEPT ![t].public = TRUE]
  PROVE  Less /\ DOMAIN templates' = DOMAIN templates
<1>1. templates \in [DOMAIN templates -> Template]
  BY DEF IInv, Shapes
<1>2. templates' \in [DOMAIN templates -> Template]
  BY <1>1 DEF Template
<1>3. \A u \in DOMAIN templates : templates'[u].tags = templates[u].tags
  BY <1>1 DEF Template
<1>4. QED BY <1>2, <1>3 DEF Less

(* A script or a client that ends, and a script that goes on, with fewer templates. *)
LEMMA LessExit ==
  ASSUME IInv, NEW s \in Scripts, Less, Private, UNCHANGED <<record, builds>>, Rest, Exit(s)
  PROVE  IInv'
<1>1. faults' \in 0..MaxFaults
  BY DEF Rest, IInv, Shapes
<1>2. \A q \in Scripts \ {s} : script'[q] = script[q]
  BY DEF Exit, IInv, Shapes
<1>3. OthersKnow(s)
  BY <1>2, LessTells DEF OthersKnow
<1>4. QED BY <1>1, <1>3, Leaving, LessKeeps DEF Rest, IInv

LEMMA LessGo ==
  ASSUME IInv, NEW s \in Scripts,
         NEW pc \in {"recount", "exists", "verify", "withdraw"},
         script[s].pc # "idle", script[s].alive, Less, UNCHANGED <<record, builds>>, Rest,
         pc \in Reserving => script[s].pc \in Reserving,
         pc = "withdraw" =>
           /\ script[s].pc \in {"delete", "untag"}
           /\ \A t \in DOMAIN templates' : ~(/\ "stable" \in DOMAIN templates'[t].tags
                                             /\ templates'[t].tags["stable"] = script[s].build),
         GoTo(s, pc)
  PROVE  IInv'
<1>1. holder = s /\ Phase(script[s], record[script[s].version])
  BY Holds
<1>2. /\ script' \in [Scripts -> Scratch] /\ holder' = holder
      /\ script'[s].pc = pc /\ Same(script'[s], script[s])
      /\ script'[s].alive = script[s].alive
      /\ \A q \in Scripts \ {s} : script'[q] = script[q]
  BY Going DEF IInv, PCs, ClientSteps, Contained
<1>3. Phase(script[s], record[script[s].version])'
  BY <1>1, <1>2 DEF Phase, Same, Reserving, ClientSteps, LeadsNowhere, Leads
<1>4. RunsOK'
  BY <1>1, <1>2, <1>3, GoesOn
<1>5. faults' \in 0..MaxFaults
  BY DEF Rest, IInv, Shapes
<1>6. QED BY <1>1, <1>2, <1>4, <1>5, LessKeeps DEF Rest, IInv

LEMMA RemoveDebrisKeeps ==
  ASSUME IInv, NEW s \in Scripts, RemoveDebris(s)
  PROVE  IInv'
<1>1. /\ script[s].pc = "reclaim" /\ script[s].alive /\ record' = record /\ builds' = builds
      /\ Rest /\ GoTo(s, "recount")
  BY DEF RemoveDebris, At, Rest
<1>2. Less
  BY Deleting DEF RemoveDebris
<1>3. QED BY <1>1, <1>2, LessGo DEF Reserving

LEMMA DeleteCandidateKeeps ==
  ASSUME IInv, NEW s \in Scripts, DeleteCandidate(s)
  PROVE  IInv'
<1>1. /\ script[s].pc = "delete" /\ script[s].alive /\ record' = record /\ builds' = builds
      /\ Rest /\ GoTo(s, "withdraw")
  BY DEF DeleteCandidate, At, Rest
<1>2. /\ Less /\ DOMAIN templates' = DOMAIN templates \ {script[s].template}
      /\ \A u \in DOMAIN templates' : templates'[u] = templates[u]
  BY Deleting DEF DeleteCandidate
<1>3. builds[script[s].build].template = script[s].template
  BY <1>1, Holds DEF Phase, IInv, RecordsOK, Named, Past
<1>4. \A t \in DOMAIN templates' : ~(/\ "stable" \in DOMAIN templates'[t].tags
                                     /\ templates'[t].tags["stable"] = script[s].build)
  BY <1>2, <1>3 DEF IInv, TemplatesOK
<1>5. QED BY <1>1, <1>2, <1>4, LessGo DEF Reserving, ClientSteps

LEMMA PatchKeeps ==
  ASSUME IInv, NEW s \in Scripts, Patch(s)
  PROVE  IInv'
<1>1. /\ script[s].pc = "patch" /\ script[s].alive /\ record' = record /\ builds' = builds
      /\ Rest
  BY DEF Patch, At, Rest
<1>2. CASE Exit(s) /\ UNCHANGED templates
  BY <1>1, <1>2, QuietExit DEF Quiet, Rest, IInv, Shapes
<1>3. CASE \E t \in DOMAIN templates :
             /\ templates' = [templates EXCEPT ![t].public = TRUE]
             /\ GoTo(s, "verify")
  BY <1>1, <1>3, Publishing, LessGo DEF Reserving, ClientSteps
<1>4. QED BY <1>2, <1>3 DEF Patch

LEMMA RemoveStableKeeps ==
  ASSUME IInv, NEW s \in Scripts, RemoveStable(s)
  PROVE  IInv'
<1>1. /\ script[s].pc = "untag" /\ record' = record /\ builds' = builds /\ Rest
  BY DEF RemoveStable, Rest
<1>2. CASE Exit(s) /\ UNCHANGED templates
  BY <1>1, <1>2, QuietExit DEF Quiet, Rest, IInv, Shapes
<1>3. ASSUME NEW t \in DOMAIN templates,
             templates' = [templates EXCEPT ![t].tags = Without(@, "stable")],
             (script[s].alive /\ GoTo(s, "withdraw")) \/ Exit(s)
      PROVE  IInv'
  <2>1. /\ Less /\ Private
        /\ \A u \in DOMAIN templates' : ~(/\ "stable" \in DOMAIN templates'[u].tags
                                          /\ templates'[u].tags["stable"] = script[s].build)
    BY <1>3, Untagging DEF LeadsNowhere, Leads
  <2>2. CASE script[s].alive /\ GoTo(s, "withdraw")
    BY <1>1, <2>1, <2>2, LessGo DEF Reserving, ClientSteps
  <2>3. CASE Exit(s)
    BY <1>1, <2>1, <2>3, LessExit
  <2>4. QED BY <1>3, <2>2, <2>3
<1>4. QED BY <1>2, <1>3 DEF RemoveStable

-----------------------------------------------------------------------------
(* What happens around the scripts.                                          *)

(* Whoever is at work, what its step knows is left true. *)
LEMMA Around ==
  ASSUME IInv, Less, Private, UNCHANGED <<record, builds, script, holder>>
  PROVE  RunsOK'
<1>1. ASSUME NEW s \in Scripts, holder = s
      PROVE  Phase(script[s], record[script[s].version])'
  BY <1>1, LessTells
<1>2. QED BY <1>1 DEF IInv, RunsOK

LEMMA TeamUntagsKeeps ==
  ASSUME IInv, NEW t \in DOMAIN templates, TeamUntags(t)
  PROVE  IInv'
<1>1. UNCHANGED <<record, builds, script, holder, claimed, definition, migration>>
  BY DEF TeamUntags
<1>2. faults' \in 0..MaxFaults
  BY IdsAreNumbers DEF TeamUntags, IInv, Shapes
<1>3. Less /\ Private
  BY Untagging DEF TeamUntags
<1>4. script' \in [Scripts -> Scratch] /\ holder' \in Scripts \cup {Nobody}
  BY <1>1 DEF IInv, Shapes
<1>5. QED BY <1>1, <1>2, <1>3, <1>4, Around, LessKeeps DEF IInv

LEMMA OthersKeep ==
  ASSUME IInv, Claim \/ Upgrade
  PROVE  IInv'
<1>1. Quiet /\ script' = script /\ holder' = holder /\ faults' = faults
  BY DEF Claim, Upgrade, Quiet, database
<1>2. claimed' \in BOOLEAN /\ definition' \in 1..MaxDefinition
  <2>1. claimed \in BOOLEAN /\ definition \in 1..MaxDefinition
    BY DEF IInv, Shapes
  <2>2. CASE Claim
    BY <2>1, <2>2 DEF Claim
  <2>3. CASE Upgrade
    <3>1. definition' \in 1..MaxDefinition
      BY <2>1, <2>3, IdsAreNumbers DEF Upgrade
    <3>2. claimed' = claimed
      BY <2>3 DEF Upgrade, database
    <3>3. QED BY <2>1, <3>1, <3>2
  <2>4. QED BY <2>2, <2>3
<1>3. Less /\ Private
  BY <1>1 DEF Quiet, Less, Private, IInv, Shapes
<1>4. script' \in [Scripts -> Scratch] /\ holder' \in Scripts \cup {Nobody}
      /\ faults' \in 0..MaxFaults
  BY <1>1 DEF IInv, Shapes
<1>5. QED BY <1>1, <1>2, <1>3, <1>4, Around, QuietKeeps DEF IInv, Quiet

LEMMA ClientFailsKeeps ==
  ASSUME IInv, NEW s \in Scripts, ClientFails(s)
  PROVE  IInv'
<1>1. Quiet /\ claimed' = claimed /\ definition' = definition /\ Exit(s)
  BY DEF ClientFails, Quiet, database
<1>2. faults' \in 0..MaxFaults
  BY IdsAreNumbers DEF ClientFails, IInv, Shapes
<1>3. QED BY <1>1, <1>2, QuietExit

(* The script is dead and its container goes on, with the locks or without them. *)
LEMMA DeathsKeep ==
  ASSUME IInv, NEW s \in Scripts, Die(s) \/ LosesLocks(s)
  PROVE  IInv'
<1>1. script[s].pc # "idle" /\ Quiet /\ claimed' = claimed /\ definition' = definition
  BY DEF Die, LosesLocks, Quiet, database, Contained, ClientSteps
<1>2. faults' \in 0..MaxFaults
  BY IdsAreNumbers DEF Die, LosesLocks, IInv, Shapes
<1>3. CASE Exit(s)
  BY <1>1, <1>2, <1>3, QuietExit
<1>4. CASE /\ script[s].pc \in Contained /\ holder = s
           /\ script' = [script EXCEPT ![s].alive = FALSE] /\ holder' \in {holder, Nobody}
  <2>1. Phase(script[s], record[script[s].version])
    BY <1>1, <1>4, Here
  <2>2. /\ script' \in [Scripts -> Scratch] /\ ~script'[s].alive
        /\ script'[s].pc = script[s].pc /\ Same(script'[s], script[s])
        /\ \A q \in Scripts \ {s} : script'[q] = script[q]
    BY <1>4 DEF IInv, Shapes, Scratch, Same
  <2>3. Phase(script[s], record[script[s].version])'
    BY <1>1, <1>4, <2>1, <2>2
    DEF Phase, Same, Quiet, Unrecorded, Leftover, BuildsOf, LeadsNowhere, Leads
  <2>4. Stray(script'[s])
    BY <1>4, <2>1, <2>2 DEF Stray, Same, Phase
  <2>5. RunsOK'
    BY <1>1, <1>4, <2>2, <2>3, <2>4, QuietTells, Acts
  <2>6. claimed' \in BOOLEAN /\ definition' \in 1..MaxDefinition
    BY <1>1 DEF IInv, Shapes
  <2>7. QED BY <1>1, <1>2, <1>4, <2>2, <2>5, <2>6, QuietKeeps DEF IInv
<1>5. QED
  <2>1. Die(s) /\ ~Exit(s) => holder = s
    BY <1>1, Here DEF Die
  <2>2. QED BY <1>3, <1>4, <2>1 DEF Die, LosesLocks

-----------------------------------------------------------------------------
(* Builds.                                                                   *)

(* A build is new, of a template of its own number or of the one that has the alias,
   and the two tags lead to it. *)
Adds(s, n, t) ==
  /\ n \in Ids /\ n = NextId /\ n \notin DOMAIN builds
  /\ IF DOMAIN templates = {} THEN t = n ELSE t \in DOMAIN templates
  /\ DOMAIN builds' = DOMAIN builds \cup {n} /\ builds' \in [DOMAIN builds' -> Build]
  /\ builds'[n].template = t /\ builds'[n].locked = (holder = s)
  /\ \A b \in DOMAIN builds : builds'[b] = builds[b]
  /\ DOMAIN templates' = {t} /\ templates' \in [{t} -> Template]
  /\ t \in DOMAIN templates => templates'[t].public = templates[t].public
  /\ "stable" \in DOMAIN templates'[t].tags => templates'[t].tags["stable"] = n
  /\ \A g \in DOMAIN templates'[t].tags :
       \/ templates'[t].tags[g] = n
       \/ /\ t \in DOMAIN templates /\ g \in DOMAIN templates[t].tags
          /\ templates'[t].tags[g] = templates[t].tags[g]
  /\ script' = [script EXCEPT ![s].pc = "wait", ![s].template = t, ![s].build = n]

(* What new tags make of the tags there are. *)
LEMMA Tagged ==
  ASSUME NEW f \in Tagging, NEW new \in SUBSET Tags, NEW n \in Ids,
         NEW h, h = [g \in DOMAIN f \cup new |-> IF g \in new THEN n ELSE f[g]]
  PROVE  /\ h \in Tagging
         /\ \A g \in DOMAIN h : h[g] = n \/ (g \in DOMAIN f /\ h[g] = f[g])
         /\ \A g \in new : h[g] = n
<1>1. PICK D \in SUBSET Tags : f \in [D -> Ids]
  BY DEF Tagging
<1>2. h \in [D \cup new -> Ids] /\ D \cup new \in SUBSET Tags
  BY <1>1
<1>3. h \in Tagging
  BY <1>2 DEF Tagging
<1>4. QED BY <1>3

LEMMA MakesABuild ==
  ASSUME IInv, NEW s \in Scripts, ClientBuilds(s)
  PROVE  \E n, t \in Ids : Adds(s, n, t)
<1>1. PICK n \in Ids : n = NextId
  BY DEF ClientBuilds
<1>2. n \notin DOMAIN builds
  BY <1>1, NextIsNew DEF IInv
<1>3. PICK new : new = {script[s].version, "stable"}
  OBVIOUS
<1>4. new \in SUBSET Tags /\ "stable" \in new
  <2>1. script[s].pc = "build" /\ script[s].pc # "idle"
    BY DEF ClientBuilds
  <2>2. script[s].version \in Versions
    BY <2>1, Here DEF Phase
  <2>3. QED BY <1>3, <2>2 DEF Tags
<1>a. PICK t \in IF templates = << >> THEN {NextId} ELSE DOMAIN templates :
        /\ builds' = [b \in DOMAIN builds \cup {NextId} |->
             IF b = NextId THEN [template |-> t, status |-> "building", locked |-> holder = s]
                           ELSE builds[b]]
        /\ templates' = [u \in DOMAIN templates \cup {t} |->
             LET old == IF u \in DOMAIN templates THEN templates[u]
                        ELSE [public |-> FALSE, tags |-> << >>]
                 add == {script[s].version, "stable"}
             IN IF u # t THEN old
                ELSE [old EXCEPT !.tags =
                        [g \in DOMAIN @ \cup add |-> IF g \in add THEN NextId ELSE @[g]]]]
        /\ script' = [script EXCEPT ![s].pc = "wait", ![s].template = t, ![s].build = NextId]
  BY ZenonT(60) DEF ClientBuilds
<1>5. /\ t \in IF templates = << >> THEN {n} ELSE DOMAIN templates
      /\ builds' = [b \in DOMAIN builds \cup {n} |->
           IF b = n THEN [template |-> t, status |-> "building", locked |-> holder = s]
                    ELSE builds[b]]
      /\ templates' = [u \in DOMAIN templates \cup {t} |->
           LET old == IF u \in DOMAIN templates THEN templates[u]
                      ELSE [public |-> FALSE, tags |-> << >>]
           IN IF u # t THEN old
              ELSE [old EXCEPT !.tags =
                      [g \in DOMAIN @ \cup new |-> IF g \in new THEN n ELSE @[g]]]]
      /\ script' = [script EXCEPT ![s].pc = "wait", ![s].template = t, ![s].build = n]
  BY <1>a, <1>1, <1>3
<1>6. IF DOMAIN templates = {} THEN t = n ELSE t \in DOMAIN templates
  BY <1>5, NoTemplate DEF IInv
<1>7. DOMAIN templates \cup {t} = {t} /\ t \in Ids
  BY <1>6 DEF IInv, TemplatesOK, Shapes
<1>8. PICK old : old = IF t \in DOMAIN templates THEN templates[t]
                       ELSE [public |-> FALSE, tags |-> << >>]
  OBVIOUS
<1>9. old \in Template
  <2>1. CASE t \in DOMAIN templates
    BY <1>8, <2>1 DEF IInv, Shapes
  <2>2. CASE t \notin DOMAIN templates
    <3>1. << >> \in [{} -> Ids] /\ {} \in SUBSET Tags
      OBVIOUS
    <3>2. << >> \in Tagging
      BY <3>1 DEF Tagging
    <3>3. QED BY <1>8, <2>2, <3>2 DEF Template
  <2>3. QED BY <2>1, <2>2
<1>b. PICK f : f = old.tags
  OBVIOUS
<1>10. PICK h : h = [g \in DOMAIN f \cup new |-> IF g \in new THEN n ELSE f[g]]
  OBVIOUS
<1>11. /\ h \in Tagging /\ (\A g \in new : h[g] = n)
       /\ \A g \in DOMAIN h : h[g] = n \/ (g \in DOMAIN f /\ h[g] = f[g])
  <2>1. f \in Tagging
    BY <1>9, <1>b DEF Template
  <2>2. QED BY <1>4, <1>10, <2>1, Tagged
<1>12. templates' = [u \in {t} |-> [old EXCEPT !.tags = h]]
  <2>1. templates' = [u \in {t} |->
          LET o == IF u \in DOMAIN templates THEN templates[u]
                   ELSE [public |-> FALSE, tags |-> << >>]
          IN IF u # t THEN o
             ELSE [o EXCEPT !.tags = [g \in DOMAIN @ \cup new |-> IF g \in new THEN n ELSE @[g]]]]
    BY <1>5, <1>7
  <2>2. QED BY <1>8, <1>b, <1>10, <2>1
<1>13. [old EXCEPT !.tags = h] = [public |-> old.public, tags |-> h]
  BY <1>9 DEF Template
<1>14. templates' = [u \in {t} |-> [public |-> old.public, tags |-> h]]
  BY <1>12, <1>13
<1>15. /\ templates' \in [{t} -> Template] /\ DOMAIN templates' = {t}
       /\ templates'[t].tags = h /\ templates'[t].public = old.public
  BY <1>9, <1>11, <1>14 DEF Template
<1>16. /\ builds' \in [DOMAIN builds' -> Build] /\ DOMAIN builds' = DOMAIN builds \cup {n}
       /\ builds'[n].template = t /\ builds'[n].locked = (holder = s)
       /\ \A b \in DOMAIN builds : builds'[b] = builds[b]
  <2>1. [template |-> t, status |-> "building", locked |-> holder = s] \in Build
    BY <1>7 DEF Build
  <2>2. builds \in [DOMAIN builds -> Build]
    BY DEF IInv, Shapes
  <2>3. QED BY <1>2, <1>5, <2>1, <2>2
<1>17. /\ t \in DOMAIN templates => templates'[t].public = templates[t].public
       /\ "stable" \in DOMAIN templates'[t].tags => templates'[t].tags["stable"] = n
       /\ \A g \in DOMAIN templates'[t].tags :
            \/ templates'[t].tags[g] = n
            \/ /\ t \in DOMAIN templates /\ g \in DOMAIN templates[t].tags
               /\ templates'[t].tags[g] = templates[t].tags[g]
  <2>1. t \notin DOMAIN templates => DOMAIN f = {}
    BY <1>8, <1>b
  <2>2. QED BY <1>4, <1>8, <1>b, <1>11, <1>15, <2>1
<1>18. QED
  <2>1. Adds(s, n, t)
    BY <1>1, <1>2, <1>5, <1>6, <1>15, <1>16, <1>17 DEF Adds
  <2>2. QED BY <1>7, <2>1

LEMMA ClientBuildsKeeps ==
  ASSUME IInv, NEW s \in Scripts, ClientBuilds(s)
  PROVE  IInv'
<1>1. PICK n, t \in Ids : Adds(s, n, t)
  BY MakesABuild
<1>2. /\ script[s].pc = "build" /\ record' = record /\ Rest /\ holder' = holder
  BY DEF ClientBuilds, Rest
<1>3. PICK r : r = [script[s] EXCEPT !.pc = "wait", !.template = t, !.build = n]
  OBVIOUS
<1>4. /\ r \in Scratch /\ r.pc = "wait" /\ r.version = script[s].version
      /\ r.digest = script[s].digest /\ r.template = t /\ r.build = n
      /\ r.alive = script[s].alive
  BY <1>3 DEF IInv, Shapes, Scratch, PCs, ClientSteps
<1>5. script' = [script EXCEPT ![s] = r]
  BY <1>1, <1>3 DEF Adds
<1>6. /\ script' \in [Scripts -> Scratch] /\ script'[s] = r
      /\ \A q \in Scripts \ {s} : script'[q] = script[q]
  BY <1>4, <1>5 DEF IInv, Shapes
<1>7. Shapes'
  <2>1. DOMAIN builds' = 1..n
    BY <1>1, NextIsNew DEF IInv, Adds
  <2>2. QED BY <1>1, <1>2, <1>6, <2>1 DEF IInv, Shapes, Rest, Adds
<1>8. t = n \/ t \in DOMAIN builds
  BY <1>1 DEF Adds, IInv, TemplatesOK
<1>9. BuildsOK' /\ TemplatesOK'
  BY <1>1, <1>8 DEF IInv, BuildsOK, TemplatesOK, Adds
<1>10. \A v \in Versions : record[v].state \in Past =>
         /\ record[v].build \in DOMAIN builds /\ record[v].template \in DOMAIN builds
         /\ builds[record[v].build].template = record[v].template
         /\ builds[record[v].build].status = "ready"
  BY DEF IInv, RecordsOK, Named, BuildsOK
<1>11. \A b \in DOMAIN builds : LeadsNowhere(b)'
  BY <1>1 DEF Adds, LeadsNowhere, Leads
<1>12. \A v \in Versions : Named(record[v])'
  BY <1>1, <1>2, <1>10, <1>11 DEF IInv, RecordsOK, Named, Past, Adds
<1>13. RecordsOK' /\ MigrationOK'
  BY <1>2, <1>12 DEF IInv, RecordsOK, MigrationOK, Rest
<1>14. Unrecorded(n)' /\ \A u : Unrecorded(u) => Unrecorded(u)'
  BY <1>1, <1>2, <1>10 DEF Unrecorded, Adds
<1>15. ASSUME holder = s
       PROVE  Phase(script[s], record[script[s].version])'
  <2>1. Phase(script[s], record[script[s].version])
    BY <1>2, <1>15, Here
  <2>2. Unrecorded(t)'
    BY <1>1, <1>2, <1>14, <2>1 DEF Phase, Adds
  <2>3. QED BY <1>1, <1>2, <1>4, <1>6, <2>1, <2>2 DEF Phase, Reserving, ClientSteps, Contained, Adds
<1>16. holder # s => Stray(script'[s])
  BY <1>2, <1>4, <1>6, Here DEF Stray, Contained, ClientSteps
<1>17. OthersKnow(s)
  <2> SUFFICES ASSUME NEW q \in Scripts \ {s}, holder = q
               PROVE  Phase(script[q], record[script[q].version])'
    BY DEF OthersKnow
  <2>1. PICK p : p = script[q]
    OBVIOUS
  <2>2. PICK o : o = record[p.version]
    OBVIOUS
  <2>3. Phase(p, o) /\ p.version \in Versions
    BY <2>1, <2>2 DEF IInv, RunsOK, Phase
  <2>4. p.template \in DOMAIN builds => (p.template \in DOMAIN templates' =>
          p.template \in DOMAIN templates /\ (Leftover(p.template) => Leftover(p.template)'))
    <3>1. SUFFICES ASSUME p.template \in DOMAIN builds, p.template \in DOMAIN templates'
                   PROVE  p.template \in DOMAIN templates
                          /\ (Leftover(p.template) => Leftover(p.template)')
      OBVIOUS
    <3>2. p.template = t /\ t \in DOMAIN templates
      BY <1>1, <3>1 DEF Adds
    <3>3. ~builds'[n].locked
      BY <1>1 DEF Adds
    <3>4. QED BY <1>1, <3>2, <3>3 DEF Adds, Leftover, BuildsOf
  <2>5. (\A u \in DOMAIN templates : Unrecorded(u)) => \A u \in DOMAIN templates' : Unrecorded(u)'
    BY <1>1, <1>14 DEF Adds
  <2>6. p.pc = "withdraw" => LeadsNowhere(p.build)'
    <3>1. p.pc = "withdraw" => p.build \in DOMAIN builds
      BY <1>10, <2>2, <2>3 DEF Phase, Past
    <3>2. QED BY <1>11, <3>1
  <2>7. /\ p.build \in DOMAIN builds =>
             p.build \in DOMAIN builds' /\ builds'[p.build] = builds[p.build]
        /\ p.template \in DOMAIN builds => p.template \in DOMAIN builds'
    BY <1>1 DEF Adds
  <2>8. Phase(p, o)'
    BY <1>14, <2>3, <2>4, <2>5, <2>6, <2>7 DEF Phase
  <2>9. QED BY <1>2, <1>6, <2>1, <2>2, <2>8
<1>18. RunsOK'
  BY <1>2, <1>4, <1>6, <1>15, <1>16, <1>17, Acts
<1>19. QED BY <1>7, <1>9, <1>13, <1>18 DEF IInv

LEMMA BuildEndsKeeps ==
  ASSUME IInv, NEW b \in DOMAIN builds, BuildSucceeds(b) \/ BuildFails(b)
  PROVE  IInv'
<1>1. PICK status \in {"ready", "failed"} : builds' = [builds EXCEPT ![b].status = status]
  BY DEF BuildSucceeds, BuildFails
<1>2. /\ builds[b].status = "building"
      /\ UNCHANGED <<record, templates, claimed, definition, migration, holder, script>>
  BY DEF BuildSucceeds, BuildFails
<1>3. faults' \in 0..MaxFaults
  BY IdsAreNumbers DEF BuildSucceeds, BuildFails, IInv, Shapes
<1>4. /\ DOMAIN builds' = DOMAIN builds /\ builds' \in [DOMAIN builds -> Build]
      /\ \A c \in DOMAIN builds : builds'[c].template = builds[c].template
                                  /\ builds'[c].locked = builds[c].locked
      /\ \A c \in DOMAIN builds : builds[c].status = "ready" => builds'[c].status = "ready"
      /\ \A c \in DOMAIN builds : builds[c].status = "failed" => builds'[c].status = "failed"
  BY <1>1, <1>2 DEF Build, IInv, Shapes
<1>5. Shapes'
  BY <1>2, <1>3, <1>4 DEF IInv, Shapes
<1>6. BuildsOK' /\ TemplatesOK' /\ MigrationOK'
  BY <1>2, <1>4 DEF IInv, BuildsOK, TemplatesOK, MigrationOK
<1>7. \A v \in Versions : Named(record[v])'
  BY <1>2, <1>4 DEF IInv, RecordsOK, Named, LeadsNowhere, Leads
<1>8. RecordsOK'
  BY <1>2, <1>7 DEF IInv, RecordsOK
<1>9. /\ \A t : Unrecorded(t) => Unrecorded(t)'
      /\ \A c : LeadsNowhere(c) => LeadsNowhere(c)'
      /\ \A t : Leftover(t) => Leftover(t)'
  BY <1>2, <1>4 DEF Unrecorded, LeadsNowhere, Leads, Leftover, BuildsOf
<1>10. ASSUME NEW s \in Scripts, holder = s
       PROVE  Phase(script[s], record[script[s].version])'
  <2>1. Phase(script[s], record[script[s].version])
    BY <1>10 DEF IInv, RunsOK
  <2>2. QED BY <1>2, <1>4, <1>9, <2>1 DEF Phase
<1>11. RunsOK'
  BY <1>2, <1>10 DEF IInv, RunsOK
<1>12. QED BY <1>5, <1>6, <1>8, <1>11 DEF IInv

-----------------------------------------------------------------------------
(* The theorems.                                                             *)

LEMMA InitIsIInv == Init => IInv
<1> SUFFICES ASSUME Init PROVE IInv
  OBVIOUS
<1>1. Shapes
  <2>1. NoRecord \in Records
    BY IdsAreNumbers DEF NoRecord, Records, States
  <2>2. Idle \in Scratch
    BY IdsAreNumbers DEF Idle, Scratch, PCs
  <2>3. record \in [Versions -> Records] /\ script \in [Scripts -> Scratch]
    BY <2>1, <2>2 DEF Init
  <2>4. /\ templates \in [DOMAIN templates -> Template] /\ DOMAIN templates \subseteq Ids
        /\ builds \in [DOMAIN builds -> Build] /\ DOMAIN builds = {}
    BY DEF Init
  <2>5. claimed \in BOOLEAN
    BY DEF Init
  <2>6. 1..0 = {} /\ definition \in 1..MaxDefinition /\ holder = Nobody /\ faults \in 0..MaxFaults
    BY IdsAreNumbers DEF Init
  <2>7. QED BY <2>3, <2>4, <2>5, <2>6 DEF Shapes
<1>2. DOMAIN templates = {} /\ DOMAIN builds = {} /\ \A v \in Versions : record[v].state = "none"
  BY DEF Init, NoRecord
<1>3. BuildsOK /\ TemplatesOK /\ MigrationOK
  BY <1>2 DEF Init, BuildsOK, TemplatesOK, MigrationOK
<1>4. RecordsOK
  <2>1. \A v \in Versions : record[v] = NoRecord
    BY DEF Init
  <2>2. QED BY <1>2, <2>1 DEF RecordsOK, Named, Past
<1>5. RunsOK
  BY TemplateAssumption DEF Init, RunsOK, Stray
<1>6. QED BY <1>1, <1>3, <1>4, <1>5 DEF IInv

LEMMA NextKeeps == IInv /\ [Next]_vars => IInv'
<1> SUFFICES ASSUME IInv, [Next]_vars PROVE IInv'
  OBVIOUS
<1>1. CASE UNCHANGED vars
  <2>1. Quiet /\ UNCHANGED <<claimed, definition, holder, script, faults>>
    BY <1>1 DEF vars, Quiet
  <2>2. Shapes' /\ BuildsOK' /\ TemplatesOK' /\ RecordsOK' /\ MigrationOK'
    BY <2>1, QuietKeeps DEF IInv, Shapes
  <2>3. Less /\ Private
    BY <2>1 DEF Quiet, Less, Private, IInv, Shapes
  <2>4. QED BY <2>1, <2>2, <2>3, Around DEF IInv, Quiet
<1>2. ASSUME NEW s \in Scripts, Step(s) \/ ClientFails(s) \/ Die(s) \/ LosesLocks(s)
      PROVE  IInv'
  <2>1. CASE \/ AliasOwned(s) \/ Recount(s) \/ ClientChecks(s) \/ ClientWaits(s)
             \/ ClientQualifies(s) \/ Verify(s)
    BY <2>1, ReadsKeep
  <2>2. CASE Reserve(s) \/ Show(s) \/ FindDebris(s)
    BY <2>2, ReserveKeeps, ShowKeeps, FindDebrisKeeps
  <2>3. CASE RecordCandidate(s) \/ Commit(s) \/ RecordRollback(s)
    BY <2>3, RecordCandidateKeeps, ConcludesKeep
  <2>4. CASE RemoveDebris(s) \/ DeleteCandidate(s) \/ Patch(s) \/ RemoveStable(s)
    BY <2>4, RemoveDebrisKeeps, DeleteCandidateKeeps, PatchKeeps, RemoveStableKeeps
  <2>5. CASE ClientBuilds(s)
    BY <2>5, ClientBuildsKeeps
  <2>6. CASE ClientFails(s) \/ Die(s) \/ LosesLocks(s)
    BY <2>6, ClientFailsKeeps, DeathsKeep
  <2>7. QED BY <1>2, <2>1, <2>2, <2>3, <2>4, <2>5, <2>6 DEF Step, Client
<1>3. ASSUME NEW s \in Scripts, NEW operation \in {"publish", "rollback"}, NEW v \in Versions,
             Start(s, operation, v)
      PROVE  IInv'
  BY <1>3, StartKeeps
<1>4. CASE \E b \in DOMAIN builds : BuildSucceeds(b) \/ BuildFails(b)
  BY <1>4, BuildEndsKeeps
<1>5. CASE Claim \/ Upgrade
  BY <1>5, OthersKeep
<1>6. CASE \E t \in DOMAIN templates : TeamUntags(t)
  BY <1>6, TeamUntagsKeeps
<1>7. CASE (\E v \in Versions : MigrationReads(v)) \/ MigrationWrites
  BY <1>7, MigrationReadsKeeps, MigrationWritesKeeps
<1>8. QED BY <1>1, <1>2, <1>3, <1>4, <1>5, <1>6, <1>7 DEF Next

(* One script at work under the locks, beside any clients that lost theirs; a build of
   the template for each tag, a record for each template that is recorded; and every
   step of the script where its record, its build and the tags say: however many
   scripts, versions, deaths, builds and migrations. *)
THEOREM Invariance == Spec => []IInv
<1>1. QED BY InitIsIInv, NextKeeps, PTL DEF Spec

(* Journal, templates, builds and locks stay in their domains; a record past
   "reserved" carries its ids. *)
THEOREM TypeCorrectness == Spec => []TypeOK
<1>1. IInv => TypeOK
  <2> SUFFICES ASSUME IInv PROVE TypeOK
    OBVIOUS
  <2>1. \A v \in Versions : record[v] = NoRecord \/ ValidRecord(record[v])
    <3> SUFFICES ASSUME NEW v \in Versions, record[v] # NoRecord PROVE ValidRecord(record[v])
      OBVIOUS
    <3>1. record[v] \in Records /\ Named(record[v]) /\ record[v].state # "none"
      BY DEF IInv, Shapes, RecordsOK, Named
    <3>2. record[v].digest \in 1..MaxDefinition
      BY <3>1, IdsAreNumbers DEF Named, Records
    <3>3. DOMAIN builds \subseteq Ids
      BY IdsAreNumbers DEF IInv, Shapes
    <3>4. record[v].state \in Past => record[v].build \in Ids /\ record[v].template \in Ids
      BY <3>1, <3>3 DEF Named, IInv, BuildsOK
    <3>5. QED BY <3>1, <3>2, <3>4 DEF ValidRecord, Records, States, Past
  <2>2. \A t \in DOMAIN templates :
          templates[t].public \in BOOLEAN /\ DOMAIN templates[t].tags \subseteq Tags
    <3>1. \A t \in DOMAIN templates : templates[t] \in Template
      BY DEF IInv, Shapes
    <3>2. \A f \in Tagging : DOMAIN f \subseteq Tags
      BY DEF Tagging
    <3>3. QED BY <3>1, <3>2 DEF Template
  <2>3. /\ DOMAIN templates \subseteq Ids /\ DOMAIN builds \subseteq Ids
        /\ \A b \in DOMAIN builds : builds[b].status \in {"building", "ready", "failed"}
        /\ holder \in Scripts \cup {Nobody} /\ faults \in 0..MaxFaults
    BY IdsAreNumbers DEF IInv, Shapes, Build
  <2>4. ASSUME migration # NoMigration
        PROVE  migration.version \in Versions /\ ValidRecord(migration.record)
    <3>1. /\ migration.version \in Versions /\ migration.record \in Records
          /\ migration.record.state = "qualified_private" /\ migration.record.digest # 0
          /\ record[migration.version].state \in Past
          /\ migration.record.template = record[migration.version].template
          /\ migration.record.build = record[migration.version].build
      BY <2>4 DEF IInv, MigrationOK
    <3>2. ValidRecord(record[migration.version])
      BY <2>1, <3>1 DEF NoRecord, Past
    <3>3. migration.record.digest \in 1..MaxDefinition
      BY <3>1, IdsAreNumbers DEF Records
    <3>4. QED BY <3>1, <3>2, <3>3 DEF ValidRecord, Past
  <2>5. QED BY <2>1, <2>2, <2>3, <2>4 DEF TypeOK
<1>2. QED BY <1>1, Invariance, PTL

(* A record that says qualified or published names a build that ended well, and
   "stable" never leads to the build of a version that was rolled back: after any
   deaths, repetitions, publications of other versions, stray clients and migrations. *)
THEOREM RecordsTellTheTruth == Spec => []RecordIsTrue
<1>1. IInv => RecordIsTrue
  <2> SUFFICES ASSUME IInv PROVE RecordIsTrue
    OBVIOUS
  <2>2. CandidateIsQualified
    BY DEF CandidateIsQualified, IInv, RecordsOK, Named, Past
  <2>3. WithdrawnStaysWithdrawn
    BY DEF WithdrawnStaysWithdrawn, IInv, RecordsOK, Named, LeadsNowhere, Leads
  <2>4. QED BY <2>2, <2>3 DEF RecordIsTrue
<1>2. QED BY <1>1, Invariance, PTL

(* A step that changes templates is a removal of debris or of a candidate, the PATCH, a
   client's build, or a tag taken off. *)
LEMMA TemplatesChange ==
  ASSUME IInv, [Next]_vars
  PROVE  \/ templates' = templates
         \/ \E s \in Scripts : RemoveDebris(s) \/ DeleteCandidate(s) \/ Patch(s) \/ ClientBuilds(s)
         \/ \E u \in DOMAIN templates :
              templates' = [templates EXCEPT ![u].tags = Without(@, "stable")]
<1>1. CASE UNCHANGED vars
  BY <1>1 DEF vars
<1>2. ASSUME NEW s \in Scripts, Step(s) \/ ClientFails(s) \/ Die(s) \/ LosesLocks(s)
      PROVE  \/ templates' = templates
             \/ RemoveDebris(s) \/ DeleteCandidate(s) \/ Patch(s) \/ ClientBuilds(s)
             \/ \E u \in DOMAIN templates :
                  templates' = [templates EXCEPT ![u].tags = Without(@, "stable")]
  <2>1. CASE \/ AliasOwned(s) \/ Recount(s) \/ ClientChecks(s) \/ ClientWaits(s)
             \/ ClientQualifies(s) \/ Verify(s) \/ Reserve(s) \/ Show(s) \/ FindDebris(s)
             \/ RecordCandidate(s) \/ Commit(s) \/ RecordRollback(s) \/ ClientFails(s)
             \/ Die(s) \/ LosesLocks(s)
    BY <2>1 DEF AliasOwned, Recount, ClientChecks, ClientWaits, ClientQualifies, Verify, Reserve,
                Show, FindDebris, RecordCandidate, Commit, RecordRollback, ClientFails, Die,
                LosesLocks, database
  <2>2. CASE RemoveStable(s)
    BY <2>2 DEF RemoveStable
  <2>3. QED BY <1>2, <2>1, <2>2 DEF Step, Client
<1>3. CASE \/ \E s \in Scripts, operation \in {"publish", "rollback"}, v \in Versions :
                Start(s, operation, v)
           \/ \E b \in DOMAIN builds : BuildSucceeds(b) \/ BuildFails(b)
           \/ Claim \/ Upgrade \/ MigrationWrites
           \/ \E v \in Versions : MigrationReads(v)
  BY <1>3 DEF Start, BuildSucceeds, BuildFails, Claim, Upgrade, MigrationReads, MigrationWrites,
              database
<1>4. CASE \E t \in DOMAIN templates : TeamUntags(t)
  BY <1>4 DEF TeamUntags
<1>5. QED BY <1>1, <1>2, <1>3, <1>4 DEF Next

(* Nothing becomes public that the journal does not know as a candidate, but for
   what has taken the alias of a candidate that a dead rollback had deleted. *)
THEOREM NothingIsPublicUnrecorded == Spec => PublicIsJournaled
<1> DEFINE Known(t) ==
      \/ Recorded(t, {"qualified_private"})
      \/ \E v \in Versions : /\ record[v].state = "qualified_private"
                            /\ record[v].template \notin DOMAIN templates
<1>1. ASSUME IInv, [Next]_vars, NEW t \in DOMAIN templates \cap DOMAIN templates',
             ~templates[t].public, templates'[t].public
      PROVE  Known(t)
  <2>1. /\ templates \in [DOMAIN templates -> Template]
        /\ \A u, w \in DOMAIN templates : u = w
    BY <1>1 DEF IInv, Shapes, TemplatesOK
  <2>2. ~(templates' = templates)
    BY <1>1
  <2>3. ASSUME NEW u \in DOMAIN templates,
               templates' = [templates EXCEPT ![u].tags = Without(@, "stable")]
        PROVE  FALSE
    <3>1. templates'[t].public = templates[t].public
      BY <1>1, <2>1, <2>3 DEF Template
    <3>2. QED BY <1>1, <3>1
  <2>4. ASSUME NEW u, Delete(u) PROVE FALSE
    BY <1>1, <2>4 DEF Delete
  <2>5. ASSUME NEW s \in Scripts, ClientBuilds(s) PROVE FALSE
    <3>1. PICK n, u \in Ids : Adds(s, n, u)
      BY <1>1, <2>5, MakesABuild
    <3>2. t = u
      BY <3>1 DEF Adds
    <3>3. QED BY <1>1, <3>1, <3>2 DEF Adds
  <2>6. PICK s \in Scripts : Patch(s)
    BY <1>1, <2>2, <2>3, <2>4, <2>5, TemplatesChange DEF RemoveDebris, DeleteCandidate
  <2>7. PICK v : v = script[s].version
    OBVIOUS
  <2>8. v \in Versions /\ record[v].state = "qualified_private"
    BY <1>1, <2>6, <2>7, Holds DEF Patch, At, Phase
  <2>9. QED BY <2>1, <2>8 DEF Recorded
<1>2. IInv /\ [Next]_vars =>
        [\A t \in DOMAIN templates \cap DOMAIN templates' :
           ~templates[t].public /\ templates'[t].public => Known(t)]_vars
  BY <1>1
<1>3. QED BY <1>2, Invariance, PTL DEF Spec, PublicIsJournaled

(* Whatever a run deletes is its own: the candidate a record names, or a private
   template whose builds all failed, never a recorded release; but for a build that a
   client without locks has added since the template was looked up. *)
THEOREM OnlyLeftoversAreDeleted == Spec => DeletesOnlyLeftovers
<1> DEFINE Own(t) ==
      /\ ~Recorded(t, {"published", "rolled_back"})
      /\ \/ Recorded(t, {"qualified_private"})
         \/ /\ ~templates[t].public
            /\ \A b \in BuildsOf(t) : builds[b].status = "failed" \/ ~builds[b].locked
<1>1. ASSUME IInv, [Next]_vars, NEW t \in DOMAIN templates \ DOMAIN templates'
      PROVE  Own(t)
  <2>1. CASE \E s \in Scripts : RemoveDebris(s)
    <3>1. PICK s \in Scripts : RemoveDebris(s)
      BY <2>1
    <3>2. t = script[s].template /\ Unrecorded(t) /\ Leftover(t)
      BY <1>1, <3>1, Holds DEF RemoveDebris, At, Delete, Phase
    <3>3. QED BY <3>2 DEF Unrecorded, Recorded, Leftover, Past
  <2>2. CASE \E s \in Scripts : DeleteCandidate(s)
    <3>1. PICK s \in Scripts : DeleteCandidate(s)
      BY <2>2
    <3>2. PICK v : v = script[s].version
      OBVIOUS
    <3>3. /\ v \in Versions /\ record[v].state = "qualified_private"
          /\ t = script[s].template /\ script[s].template = record[v].template
      BY <1>1, <3>1, <3>2, Holds DEF DeleteCandidate, At, Phase, Delete
    <3>4. ASSUME NEW w \in Versions, record[w].template = t,
                 record[w].state \in {"published", "rolled_back"}
          PROVE  FALSE
      <4>1. v = w
        BY <1>1, <3>3, <3>4 DEF IInv, RecordsOK, Past
      <4>2. QED BY <3>3, <3>4, <4>1
    <3>5. QED BY <3>3, <3>4 DEF Recorded
  <2>3. QED
    <3>1. ~(templates' = templates)
      BY <1>1
    <3>2. ASSUME NEW u \in DOMAIN templates,
                 templates' = [templates EXCEPT ![u].tags = Without(@, "stable")]
          PROVE  FALSE
      BY <1>1, <3>2
    <3>3. ASSUME NEW s \in Scripts, Patch(s) PROVE FALSE
      BY <1>1, <3>3 DEF Patch
    <3>4. ASSUME NEW s \in Scripts, ClientBuilds(s) PROVE FALSE
      <4>1. PICK n, u \in Ids : Adds(s, n, u)
        BY <1>1, <3>4, MakesABuild
      <4>2. QED BY <1>1, <4>1 DEF Adds, IInv, TemplatesOK
    <3>5. QED BY <1>1, <2>1, <2>2, <3>1, <3>2, <3>3, <3>4, TemplatesChange
<1>2. IInv /\ [Next]_vars => [\A t \in DOMAIN templates \ DOMAIN templates' : Own(t)]_vars
  BY <1>1
<1>3. QED BY <1>2, Invariance, PTL DEF Spec, DeletesOnlyLeftovers
=============================================================================

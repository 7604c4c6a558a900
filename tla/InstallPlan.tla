---------------------------- MODULE InstallPlan ----------------------------
(***************************************************************************)
(* "kitdev doctor" and "kitdev install --dry-run": preflight.py judges the *)
(* platform, composition.py the inventory and the configured directories,  *)
(* planning.py turns the directories into a change plan.  Both commands    *)
(* collect fact after fact and end in one exit code.                       *)
(*                                                                         *)
(* A group of the inventory is abstracted to what its check tells apart.   *)
(***************************************************************************)
EXTENDS Integers, FiniteSets

CONSTANTS
  Probed,        \* the platform probes that vary: systemd, cgroups, cpu
  Directories,   \* the configured directories
  MaxDeviations  \* bound on the inventory groups that are not in order

\* The names in a report: checks, and what issues are about.
ASSUME InstallAssumption ==
  /\ Probed \cap {"release", "architecture", "kvm", "network",
                  "kernel", "capacity", "services", "security"} = {}
  /\ Directories \cap {"platform", "inventory", "health", "ports"} = {}
  /\ MaxDeviations \in Nat

VARIABLES
  command,    \* "doctor", "install" or another
  stage,      \* how far it is
  platform,   \* HostFacts and the configured lifecycle mode
  owned,      \* the directories that a manifest authenticates; by default none
  inventory,  \* LinuxFacts, by group; empty until collected
  resources,  \* the observed directories; empty until observed
  report      \* the result: issues, exit code, and what the change plan would create

installVars == <<command, stage, platform, owned, inventory, resources, report>>

NoFacts == [group \in {} |-> "none"]
NoReport == [exit |-> 0, candidates |-> {}, issues |-> {}]

Platforms ==
  [release : {"unknown", "other", "25.04", "26.04"},
   mode : {"development", "migration", "production"},
   architecture : {"unknown", "other", "amd64", "x86_64"},
   probes : [Probed -> {"pass", "fail", "unknown"}],
   kvm : {"absent", "file", "inaccessible", "ok"}]

-----------------------------------------------------------------------------
(* preflight.py *)

\* platform.release_lifecycle
ReleaseCheck(p) ==
  CASE p.release = "unknown" -> "unknown"
    [] p.release = "other" \/ (p.release = "25.04" /\ p.mode = "production") -> "fail"
    [] p.release = "25.04" /\ p.mode # "production" -> "warn"
    [] p.release = "26.04" -> "pass"

\* platform.architecture
ArchitectureCheck(p) ==
  CASE p.architecture = "unknown" -> "unknown"
    [] p.architecture \in {"other", "amd64"} -> "fail"
    [] p.architecture = "x86_64" -> "pass"

KvmCheck(p) ==
  CASE p.kvm \in {"absent", "file"} -> "fail"
    [] p.kvm = "inaccessible" -> "warn"
    [] p.kvm = "ok" -> "pass"

\* _check: a status brings its failure category.
Check(status) ==
  [status |-> status,
   category |-> IF status = "fail" THEN "platform" ELSE IF status = "unknown" THEN "unknown" ELSE "none"]

PlatformChecks == {"release", "architecture", "kvm"} \cup Probed
Groups == {"kernel", "capacity", "services", "security"}

\* evaluate_host; what it does not collect is unknown.
EvaluateHost(p) ==
  [id \in {"network"} \cup PlatformChecks \cup Groups |->
     Check(CASE id = "release" -> ReleaseCheck(p)
             [] id = "architecture" -> ArchitectureCheck(p)
             [] id = "kvm" -> KvmCheck(p)
             [] id \in Probed -> p.probes[id]
             [] OTHER -> "unknown")]

CategoryExit(category) ==
  CASE category = "platform" -> 3 [] category = "conflict" -> 4
    [] category = "unknown" -> 5 [] category = "unhealthy" -> 6

Least(codes) ==
  IF codes = {} THEN 0 ELSE CHOOSE c \in codes : \A d \in codes : c <= d

\* DoctorReport.exit_code
DoctorExit(checks) ==
  Least({CategoryExit(checks[id].category) :
         id \in {i \in DOMAIN checks : checks[i].status \in {"fail", "unknown"}}})

-----------------------------------------------------------------------------
(* composition.py: the inventory *)

\* "incomplete" is a group with any probe without an answer.  The services are
\* the version lock, Docker with Compose, and the project's own if installed.
Facts ==
  [kernel : {"incomplete", "invalid", "no-module", "no-tun", "no-nbd", "complete"},
   capacity : {"incomplete", "invalid", "complete"},
   services : [answered : BOOLEAN, lock : BOOLEAN, docker : {"absent", "inactive", "active"},
               installed : {"none", "healthy", "unhealthy"}],
   security : {"incomplete", "no-apparmor", "no-time", "complete"}]

InOrder ==
  [kernel |-> "complete", capacity |-> "complete", security |-> "complete",
   services |-> [answered |-> TRUE, lock |-> TRUE, docker |-> "active", installed |-> "healthy"]]

Inventories == {f \in Facts : Cardinality({g \in Groups : f[g] # InOrder[g]}) <= MaxDeviations}

KernelCheck(f) ==
  Check(CASE f \in {"incomplete", "invalid"} -> "unknown"
          [] f \in {"no-module", "no-tun"} -> "fail"
          [] f = "no-nbd" -> "warn"
          [] f = "complete" -> "pass")

\* Thresholds are not approved: a complete inventory is a warning.
CapacityCheck(f) == Check(IF f = "complete" THEN "warn" ELSE "unknown")

SecurityCheck(f) ==
  Check(CASE f = "incomplete" -> "unknown"
          [] f \in {"no-apparmor", "no-time"} -> "warn"
          [] f = "complete" -> "pass")

\* In this order: a missing lock hides a missing Docker, and that an unhealthy
\* installation.
ServicesCheck(f) ==
  CASE ~f.answered -> Check("unknown")
    [] f.answered /\ ~f.lock -> Check("fail")
    [] f.answered /\ f.lock /\ f.docker # "active" -> Check("warn")
    [] f.answered /\ f.lock /\ f.docker = "active" ->
         IF f.installed = "unhealthy" THEN [status |-> "fail", category |-> "unhealthy"]
         ELSE Check("pass")

\* build_composed_doctor_report: the inventory's checks replace the unknown ones.
ComposedChecks(p, inv) ==
  [id \in DOMAIN EvaluateHost(p) |->
     CASE id = "kernel" -> KernelCheck(inv.kernel)
       [] id = "capacity" -> CapacityCheck(inv.capacity)
       [] id = "services" -> ServicesCheck(inv.services)
       [] id = "security" -> SecurityCheck(inv.security)
       [] OTHER -> EvaluateHost(p)[id]]

-----------------------------------------------------------------------------
(* planning.py *)

PlanIssue(fact, code) == [fact |-> fact, code |-> code, blocking |-> TRUE]

LifecycleIssuesWarned(p) ==  \* mutant: end-of-life is a warning in production too
  IF p.release = "25.04" THEN {[PlanIssue("platform", "lifecycle") EXCEPT !.blocking = FALSE]}
  ELSE IF p.release = "26.04" THEN {} ELSE {PlanIssue("platform", "unsupported")}

\* _lifecycle_issues: the planner's own rule of releases.
LifecycleIssues(p) ==
  CASE p.release = "unknown" -> {PlanIssue("platform", "unknown")}
    [] p.release = "other" -> {PlanIssue("platform", "unsupported")}
    [] p.release = "25.04" ->
         {[PlanIssue("platform", "lifecycle") EXCEPT !.blocking = p.mode = "production"]}
    [] p.release = "26.04" -> {}

\* collect_directory_resource_facts, of what lstat sees.
DirectoryFact(d, seen) ==
  CASE seen = "absent" -> [state |-> "absent", ownership |-> "unowned"]
    [] seen = "directory" ->
         [state |-> "present", ownership |-> IF d \in owned THEN "project" ELSE "unknown"]
    [] seen = "other" -> [state |-> "unsupported", ownership |-> "unknown"]
    [] seen = "error" -> [state |-> "unknown", ownership |-> "unknown"]

\* _directory_result, the issue or the action of one directory.
DirectoryIssues(d, fact) ==
  CASE fact.state = "unknown" -> {PlanIssue(d, "unknown")}
    [] fact.state = "unsupported" -> {PlanIssue(d, "unsupported")}
    [] fact.state = "present" /\ fact.ownership # "project" -> {PlanIssue(d, "conflict")}
    [] OTHER -> {}

Blocking(issues) == \E i \in issues : i.blocking

ChangePlanPartial(p, facts) ==  \* mutant: the directories that are free are planned all the same
  [issues |-> LifecycleIssues(p) \cup UNION {DirectoryIssues(d, facts[d]) : d \in DOMAIN facts},
   actions |-> {d \in DOMAIN facts : facts[d].state = "absent"}]

\* build_change_plan: a blocking issue suppresses every candidate action.
ChangePlan(p, facts) ==
  LET issues == LifecycleIssues(p) \cup UNION {DirectoryIssues(d, facts[d]) : d \in DOMAIN facts}
  IN [issues |-> issues,
      actions |-> IF Blocking(issues) THEN {}
                  ELSE {d \in DOMAIN facts : facts[d].state = "absent"}]

-----------------------------------------------------------------------------
(* composition.py: the install plan *)

Eligible(status) == status \notin {"fail", "unknown"}

GateFailuresConcrete(p) ==  \* mutant: an unknown fact does not close the gate
  {id \in PlatformChecks : EvaluateHost(p)[id].status = "fail"}

\* _platform_gate
GateFailures(p) ==
  LET checks == EvaluateHost(p)
  IN {id \in PlatformChecks : ~Eligible(checks[id].status)}

\* _platform_blocked_plan
BlockedIssues(p) ==
  {i \in LifecycleIssues(p) : ~i.blocking}
  \cup {PlanIssue("platform",
          IF \E id \in GateFailures(p) : EvaluateHost(p)[id].status = "fail"
            THEN "unsupported" ELSE "unknown")}

InventoryIssuesUncategorised(checks) ==  \* mutant: a missing hard requirement is a conflict
  {PlanIssue("inventory", IF checks[g].status = "fail" THEN "unsupported" ELSE "unknown")
   : g \in {h \in Groups : ~Eligible(checks[h].status)}}

\* _inventory_issues
InventoryIssues(checks) ==
  {PlanIssue(CASE checks[g].category = "platform" -> "platform"
               [] checks[g].category = "unhealthy" -> "health"
               [] OTHER -> "inventory",
             IF checks[g].status = "fail" THEN "unsupported" ELSE "unknown")
   : g \in {h \in Groups : ~Eligible(checks[h].status)}}

\* _plan_exit_code
PlanExit(issues) ==
  Least({CASE i.fact = "platform" -> IF i.code # "unknown" THEN 3 ELSE 5
           [] i.fact = "health" -> 6
           [] OTHER -> IF i.code \in {"conflict", "unsupported"} THEN 4 ELSE 5
         : i \in {j \in issues : j.blocking}})

\* _port_policy_issue
PortPolicy == PlanIssue("ports", "unknown")

-----------------------------------------------------------------------------
(* The commands *)

Finish(result) == report' = result /\ stage' = "done"

Doctor ==
  /\ command = "doctor"
  /\ \/ /\ stage = "platform" /\ stage' = "report"
        /\ inventory' \in Inventories
        /\ UNCHANGED report
     \/ /\ stage = "report"
        /\ Finish([NoReport EXCEPT !.exit = DoctorExit(ComposedChecks(platform, inventory))])
        /\ UNCHANGED inventory
  /\ UNCHANGED <<command, platform, owned, resources>>

\* An ineligible platform ends the command before anything is collected.
InstallBlocked ==
  /\ command = "install" /\ stage = "platform" /\ GateFailures(platform) # {}
  /\ LET issues == BlockedIssues(platform)
     IN Finish([exit |-> PlanExit(issues), candidates |-> {}, issues |-> issues])
  /\ UNCHANGED <<command, platform, owned, inventory, resources>>

InstallInventory ==
  /\ command = "install" /\ stage = "platform" /\ GateFailures(platform) = {}
  /\ inventory' \in Inventories
  /\ stage' = "directories"
  /\ UNCHANGED <<command, platform, owned, resources, report>>

InstallDirectories ==
  /\ command = "install" /\ stage = "directories"
  /\ \E seen \in [Directories -> {"absent", "directory", "other", "error"}] :
       resources' = [d \in Directories |-> DirectoryFact(d, seen[d])]
  /\ stage' = "report"
  /\ UNCHANGED <<command, platform, owned, inventory, report>>

\* The report prints no action: the change plan's are candidates only.
InstallReport ==
  /\ command = "install" /\ stage = "report"
  /\ LET change == ChangePlan(platform, resources)
         issues == change.issues \cup {PortPolicy}
                   \cup InventoryIssues(ComposedChecks(platform, inventory))
     IN Finish([exit |-> PlanExit(issues), candidates |-> change.actions, issues |-> issues])
  /\ UNCHANGED <<command, platform, owned, inventory, resources>>

InstallNext ==
  Doctor \/ InstallBlocked \/ InstallInventory \/ InstallDirectories \/ InstallReport

InstallInit ==
  /\ stage = "platform" /\ platform \in Platforms
  /\ owned \in {{}, Directories}
  /\ inventory = NoFacts /\ resources = NoFacts /\ report = NoReport

-----------------------------------------------------------------------------
(* Properties *)

Collected(facts) == facts # NoFacts

\* The report's exit code is one of those documented, and never zero: ports
\* and networks are not yet judged.
InstallTypeOK ==
  /\ stage \in {"platform", "directories", "report", "done"}
  /\ stage = "done" => report.exit \in {3, 4, 5}

\* preflight's and the planner's rules of releases are two; they block the same
\* hosts.
PlannerAgreesWithGate == ~Eligible(ReleaseCheck(platform)) <=> Blocking(LifecycleIssues(platform))

\* build_install_plan_report: nothing is collected (no command is run) on a
\* host that is not eligible.
IneligibleIsLeftAlone ==
  (command = "install" /\ (Collected(inventory) \/ Collected(resources))) =>
    /\ platform.release = "26.04" \/ (platform.release = "25.04" /\ platform.mode # "production")
    /\ platform.architecture = "x86_64" /\ platform.kvm \in {"ok", "inaccessible"}
    /\ \A id \in Probed : platform.probes[id] = "pass"

\* Two mappings give the exit codes, by check category and by issue.  Once the
\* platform is eligible, install and doctor call the same inventories a missing
\* hard requirement; when it is not, install says what doctor would of a host
\* whose inventory is in order (of others, doctor may say 3 for install's 5).
ExitsAgree ==
  (command = "install" /\ stage = "done") =>
    LET doctor(inv) == DoctorExit(ComposedChecks(platform, inv)) IN
    IF Collected(inventory) THEN (report.exit = 3) <=> (doctor(inventory) = 3)
    ELSE report.exit = doctor(InOrder)

\* A foreign file or directory in the way is a conflict, not masked by facts
\* that are only missing; candidate actions create just what is absent, and
\* only if no directory is foreign or unseen.
DirectoriesAreJudgedTogether ==
  (command = "install" /\ stage = "done" /\ Collected(resources)) =>
    LET foreign == {d \in Directories :
                      \/ resources[d].state = "unsupported"
                      \/ resources[d].state = "present" /\ d \notin owned}
        unseen == {d \in Directories : resources[d].state = "unknown"}
    IN /\ foreign # {} => report.exit \in {3, 4}
       /\ report.exit = 4 => foreign # {}
       /\ report.candidates =
            IF foreign \cup unseen = {} THEN {d \in Directories : resources[d].state = "absent"}
            ELSE {}
=============================================================================

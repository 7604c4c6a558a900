---------------------------- MODULE DryRunProofs ----------------------------
(***************************************************************************)
(* Proofs about the read-only commands, for any probes, directories,       *)
(* services and id band.                                                   *)
(*                                                                         *)
(* doctor and install: a report is a function of the facts collected, so   *)
(* the invariant says which facts are there at each stage (InstallInv), and *)
(* the rest compares the judgments of these facts: one status against the  *)
(* other, one mapping to exit codes against the other.                     *)
(*                                                                         *)
(* identity-access: a plan is judged by the facts it was made from         *)
(* (PlannedFrom), and these are the host's until the host changes          *)
(* (IdentityInv).  Carried out with nobody else about, every identity of   *)
(* the project is the manifest's at every step (Calm).                     *)
(***************************************************************************)
EXTENDS DryRun, FiniteSetTheorems, TLAPS

-----------------------------------------------------------------------------
(* doctor and install                                                        *)

Statuses == {"pass", "warn", "fail", "unknown"}
Seen == {"absent", "directory", "other", "error"}

LEMMA Names ==
  /\ PlatformChecks \cap Groups = {} /\ "network" \notin PlatformChecks /\ "network" \notin Groups
  /\ {"release", "architecture", "kvm"} \cap Probed = {}
  BY InstallAssumption DEF PlatformChecks, Groups

\* _check: a failure is of category platform, no answer of category unknown.
LEMMA CheckIs ==
  ASSUME NEW status \in Statuses
  PROVE  /\ Check(status).status = status
         /\ Check(status).category = "platform" <=> status = "fail"
         /\ Check(status).category = "unknown" <=> status = "unknown"
         /\ Check(status).category \in {"platform", "unknown", "none"}
  BY DEF Check, Statuses

\* The first of the exit codes.
LEMMA LeastIs ==
  ASSUME NEW codes \in SUBSET Int, NEW c \in codes, \A d \in codes : c <= d
  PROVE  Least(codes) = c
<1>1. PICK l : l = Least(codes)
  OBVIOUS
<1>2. l \in codes /\ \A d \in codes : l <= d
  BY <1>1 DEF Least
<1>3. l <= c /\ c <= l /\ l \in Int /\ c \in Int
  BY <1>2
<1>4. QED BY <1>1, <1>3

(* What preflight says of the platform. *)
LEMMA PlatformStatus ==
  ASSUME NEW p \in Platforms
  PROVE  /\ \A id \in PlatformChecks : EvaluateHost(p)[id].status \in Statuses
         /\ EvaluateHost(p)["release"] = Check(ReleaseCheck(p))
         /\ EvaluateHost(p)["architecture"] = Check(ArchitectureCheck(p))
         /\ EvaluateHost(p)["kvm"] = Check(KvmCheck(p))
         /\ \A id \in Probed : EvaluateHost(p)[id] = Check(p.probes[id])
         /\ EvaluateHost(p)["network"] = Check("unknown")
         /\ {ReleaseCheck(p), ArchitectureCheck(p), KvmCheck(p)} \subseteq Statuses
         /\ \A id \in Probed : p.probes[id] \in Statuses
<1>1. ReleaseCheck(p) \in Statuses /\ ArchitectureCheck(p) \in Statuses
  BY DEF Platforms, ReleaseCheck, ArchitectureCheck, Statuses
<1>2. KvmCheck(p) \in Statuses
  BY DEF Platforms, KvmCheck, Statuses
<1>3. \A id \in Probed : p.probes[id] \in Statuses
  BY DEF Platforms, Statuses
<1>4. /\ EvaluateHost(p)["release"] = Check(ReleaseCheck(p))
      /\ EvaluateHost(p)["architecture"] = Check(ArchitectureCheck(p))
      /\ EvaluateHost(p)["kvm"] = Check(KvmCheck(p))
      /\ EvaluateHost(p)["network"] = Check("unknown")
  BY Names DEF EvaluateHost, PlatformChecks, Groups
<1>5. \A id \in Probed : EvaluateHost(p)[id] = Check(p.probes[id])
  BY Names DEF EvaluateHost, PlatformChecks, Groups
<1>6. QED BY <1>1, <1>2, <1>3, <1>4, <1>5, CheckIs DEF PlatformChecks

(* The gate is open when every platform check is a pass or a warning. *)
LEMMA GateIs ==
  ASSUME NEW p \in Platforms
  PROVE  GateFailures(p) = {} <=>
           /\ Eligible(ReleaseCheck(p)) /\ Eligible(ArchitectureCheck(p)) /\ Eligible(KvmCheck(p))
           /\ \A id \in Probed : Eligible(p.probes[id])
  BY PlatformStatus, CheckIs DEF GateFailures, PlatformChecks

(* preflight's rule of releases and the planner's, written apart. *)
LEMMA TwoRules ==
  ASSUME NEW p \in Platforms
  PROVE  ~Eligible(ReleaseCheck(p)) <=> Blocking(LifecycleIssues(p))
<1>1. p.release \in {"unknown", "other", "25.04", "26.04"}
  BY DEF Platforms
<1>2. CASE p.release \in {"unknown", "other"}
  BY <1>2 DEF ReleaseCheck, LifecycleIssues, Eligible, Blocking, PlanIssue
<1>3. CASE p.release = "26.04"
  BY <1>3 DEF ReleaseCheck, LifecycleIssues, Eligible, Blocking
<1>4. CASE p.release = "25.04"
  <2>1. LifecycleIssues(p) =
          {[PlanIssue("platform", "lifecycle") EXCEPT !.blocking = p.mode = "production"]}
    BY <1>4 DEF LifecycleIssues
  <2>2. Blocking(LifecycleIssues(p)) <=> p.mode = "production"
    BY <2>1 DEF Blocking, PlanIssue
  <2>3. QED BY <1>4, <2>2 DEF ReleaseCheck, Eligible
<1>5. QED BY <1>1, <1>2, <1>3, <1>4

LEMMA LifecycleIs ==
  ASSUME NEW p \in Platforms, NEW i \in LifecycleIssues(p)
  PROVE  i.fact = "platform"
  BY DEF LifecycleIssues, Platforms, PlanIssue

(* What the doctor says of a group of the inventory. *)
GroupCheck(c) ==
  /\ c.status \in Statuses
  /\ c.status = "fail" => c.category \in {"platform", "unhealthy"}
  /\ c.status = "unknown" => c.category = "unknown"
  /\ c.category = "platform" => c.status = "fail"

LEMMA GroupsAre ==
  ASSUME NEW p \in Platforms, NEW inv \in Inventories
  PROVE  /\ \A g \in Groups : GroupCheck(ComposedChecks(p, inv)[g])
         /\ \A id \in PlatformChecks \cup {"network"} :
              ComposedChecks(p, inv)[id] = EvaluateHost(p)[id]
         /\ DOMAIN ComposedChecks(p, inv) = PlatformChecks \cup {"network"} \cup Groups
<1>1. DOMAIN EvaluateHost(p) = PlatformChecks \cup {"network"} \cup Groups
  BY DEF EvaluateHost, PlatformChecks
<1>2. inv \in Facts
  BY DEF Inventories
<1>3. GroupCheck(KernelCheck(inv.kernel))
  BY <1>2 DEF Facts, KernelCheck, Check, GroupCheck, Statuses
<1>4. GroupCheck(CapacityCheck(inv.capacity))
  BY <1>2 DEF Facts, CapacityCheck, Check, GroupCheck, Statuses
<1>5. GroupCheck(SecurityCheck(inv.security))
  BY <1>2 DEF Facts, SecurityCheck, Check, GroupCheck, Statuses
<1>6. GroupCheck(ServicesCheck(inv.services))
  BY <1>2 DEF Facts, ServicesCheck, Check, GroupCheck, Statuses
<1>7. \A g \in Groups : GroupCheck(ComposedChecks(p, inv)[g])
  BY <1>1, <1>3, <1>4, <1>5, <1>6 DEF ComposedChecks, Groups
<1>8. \A id \in PlatformChecks \cup {"network"} :
        ComposedChecks(p, inv)[id] = EvaluateHost(p)[id]
  BY <1>1, Names DEF ComposedChecks, Groups
<1>9. QED BY <1>1, <1>7, <1>8 DEF ComposedChecks

(* The networks are not judged yet, so the doctor never says 0: it says 3 when a
   requirement is missing, and otherwise 5. *)
LEMMA DoctorIs ==
  ASSUME NEW p \in Platforms, NEW inv \in Inventories
  PROVE  LET checks == ComposedChecks(p, inv) IN
         DoctorExit(checks) =
           IF \E id \in DOMAIN checks : checks[id].category = "platform" THEN 3 ELSE 5
<1> DEFINE checks == ComposedChecks(p, inv)
           bad == {i \in DOMAIN checks : checks[i].status \in {"fail", "unknown"}}
           codes == {CategoryExit(checks[id].category) : id \in bad}
<1>1. \A id \in DOMAIN checks :
        /\ checks[id].status = "fail" => checks[id].category \in {"platform", "unhealthy"}
        /\ checks[id].status = "unknown" => checks[id].category = "unknown"
        /\ checks[id].category = "platform" => checks[id].status = "fail"
  <2>1. \A status \in Statuses : GroupCheck(Check(status))
    BY DEF GroupCheck, Check, Statuses
  <2>2. \A id \in PlatformChecks \cup {"network"} : GroupCheck(EvaluateHost(p)[id])
    BY <2>1, PlatformStatus DEF PlatformChecks, Statuses
  <2>3. \A id \in DOMAIN checks : GroupCheck(checks[id])
    BY <2>2, GroupsAre
  <2>4. QED BY <2>3 DEF GroupCheck
<1>2. "network" \in bad /\ checks["network"].category = "unknown"
  BY GroupsAre, PlatformStatus, CheckIs DEF Statuses
<1>3. \A id \in bad : checks[id].category \in {"platform", "unhealthy", "unknown"}
  BY <1>1
<1>4. CategoryExit("platform") = 3 /\ CategoryExit("unknown") = 5 /\ CategoryExit("unhealthy") = 6
  BY DEF CategoryExit
<1> HIDE DEF checks
<1>5. codes \subseteq {3, 5, 6} /\ 5 \in codes
  BY <1>2, <1>3, <1>4
<1>6. 3 \in codes <=> \E id \in DOMAIN checks : checks[id].category = "platform"
  BY <1>1, <1>3, <1>4
<1>7. DoctorExit(checks) = Least(codes)
  BY DEF DoctorExit
<1> HIDE DEF codes, bad
<1>8. CASE 3 \in codes
  BY <1>5, <1>6, <1>7, <1>8, LeastIs DEF checks
<1>9. CASE ~(3 \in codes)
  <2>1. Least(codes) = 5
    BY <1>5, <1>9, LeastIs
  <2>2. QED BY <1>6, <1>7, <1>9, <2>1 DEF checks
<1>10. QED BY <1>8, <1>9

(* What an issue gives to the exit code of install. *)
CodeOf(i) ==
  CASE i.fact = "platform" -> IF i.code # "unknown" THEN 3 ELSE 5
    [] i.fact = "health" -> 6
    [] OTHER -> IF i.code \in {"conflict", "unsupported"} THEN 4 ELSE 5

LEMMA PlanExitIs ==
  ASSUME NEW issues, NEW c \in {3, 4, 5, 6},
         \E i \in issues : i.blocking /\ CodeOf(i) = c,
         \A i \in issues : i.blocking => c <= CodeOf(i)
  PROVE  PlanExit(issues) = c
<1> DEFINE codes == {CodeOf(i) : i \in {j \in issues : j.blocking}}
<1>1. \A i : CodeOf(i) \in {3, 4, 5, 6}
  BY DEF CodeOf
<1>2. codes \in SUBSET Int /\ c \in codes /\ \A d \in codes : c <= d
  BY <1>1
<1>3. PlanExit(issues) = Least(codes)
  BY DEF PlanExit, CodeOf
<1> HIDE DEF codes
<1>4. QED BY <1>2, <1>3, LeastIs

(* The ports are not judged yet either: the exit code is 3, 4 or 5. *)
LEMMA ReportExitIs ==
  ASSUME NEW issues, PortPolicy \in issues
  PROVE  PlanExit(issues) =
           IF \E i \in issues : i.blocking /\ CodeOf(i) = 3 THEN 3
           ELSE IF \E i \in issues : i.blocking /\ CodeOf(i) = 4 THEN 4 ELSE 5
<1>1. \A i : CodeOf(i) \in {3, 4, 5, 6}
  BY DEF CodeOf
<1>2. PortPolicy.blocking /\ CodeOf(PortPolicy) = 5
  BY DEF PortPolicy, PlanIssue, CodeOf
<1>3. CASE \E i \in issues : i.blocking /\ CodeOf(i) = 3
  BY <1>1, <1>3, PlanExitIs
<1>4. CASE /\ ~\E i \in issues : i.blocking /\ CodeOf(i) = 3
           /\ \E i \in issues : i.blocking /\ CodeOf(i) = 4
  <2>1. \A i \in issues : i.blocking => 4 <= CodeOf(i)
    BY <1>1, <1>4
  <2>2. QED BY <1>4, <2>1, PlanExitIs
<1>5. CASE /\ ~\E i \in issues : i.blocking /\ CodeOf(i) = 3
           /\ ~\E i \in issues : i.blocking /\ CodeOf(i) = 4
  <2>1. \A i \in issues : i.blocking => 5 <= CodeOf(i)
    BY <1>1, <1>5
  <2>2. QED BY <1>2, <1>5, <2>1, PlanExitIs
<1>6. QED BY <1>3, <1>4, <1>5

(* The inventory's issues, from the checks. *)
LEMMA InventoryIssuesAre ==
  ASSUME NEW p \in Platforms, NEW inv \in Inventories
  PROVE  LET checks == ComposedChecks(p, inv)
             issues == InventoryIssues(checks)
         IN /\ \A i \in issues : i.blocking /\ CodeOf(i) \in {3, 5, 6}
            /\ (\E i \in issues : CodeOf(i) = 3) <=> \E g \in Groups : checks[g].category = "platform"
<1> DEFINE checks == ComposedChecks(p, inv)
<1>1. \A g \in Groups : GroupCheck(checks[g])
  BY GroupsAre
<1> HIDE DEF checks
<1> DEFINE fact(g) == CASE checks[g].category = "platform" -> "platform"
                        [] checks[g].category = "unhealthy" -> "health"
                        [] OTHER -> "inventory"
           code(g) == IF checks[g].status = "fail" THEN "unsupported" ELSE "unknown"
<1>2. InventoryIssues(checks) =
        {PlanIssue(fact(g), code(g)) : g \in {h \in Groups : ~Eligible(checks[h].status)}}
  BY DEF InventoryIssues
<1>3. ASSUME NEW g \in Groups, ~Eligible(checks[g].status)
      PROVE  /\ CodeOf(PlanIssue(fact(g), code(g))) \in {3, 5, 6}
             /\ CodeOf(PlanIssue(fact(g), code(g))) = 3 <=> checks[g].category = "platform"
  <2>1. GroupCheck(checks[g]) /\ checks[g].status \in {"fail", "unknown"}
    BY <1>1, <1>3 DEF GroupCheck, Statuses, Eligible
  <2>2. \A f, c : PlanIssue(f, c).fact = f /\ PlanIssue(f, c).code = c
    BY DEF PlanIssue
  <2>3. CASE checks[g].category = "platform"
    BY <2>1, <2>2, <2>3 DEF CodeOf, GroupCheck
  <2>4. CASE checks[g].category = "unhealthy"
    BY <2>1, <2>2, <2>4 DEF CodeOf, GroupCheck
  <2>5. CASE checks[g].category \notin {"platform", "unhealthy"}
    BY <2>1, <2>2, <2>5 DEF CodeOf, GroupCheck
  <2>6. QED BY <2>3, <2>4, <2>5
<1>4. \A g \in Groups : checks[g].category = "platform" => ~Eligible(checks[g].status)
  BY <1>1 DEF GroupCheck, Eligible
<1>5. \A f, c : PlanIssue(f, c).blocking
  BY DEF PlanIssue
<1> HIDE DEF fact, code
<1>6. QED BY <1>2, <1>3, <1>4, <1>5 DEF checks

(* A directory as lstat and the manifest show it. *)
DirectoryFacts ==
  {[state |-> "absent", ownership |-> "unowned"], [state |-> "present", ownership |-> "project"],
   [state |-> "present", ownership |-> "unknown"],
   [state |-> "unsupported", ownership |-> "unknown"],
   [state |-> "unknown", ownership |-> "unknown"]}
InTheWay(fact) == fact.state = "unsupported" \/ (fact.state = "present" /\ fact.ownership # "project")
Unread(fact) == fact.state = "unknown"

LEMMA DirectoryIssuesAre ==
  ASSUME NEW d \in Directories, NEW fact \in DirectoryFacts
  PROVE  /\ \A i \in DirectoryIssues(d, fact) : i.blocking /\ CodeOf(i) \in {4, 5}
         /\ (\E i \in DirectoryIssues(d, fact) : CodeOf(i) = 4) <=> InTheWay(fact)
         /\ DirectoryIssues(d, fact) # {} <=> InTheWay(fact) \/ Unread(fact)
<1>1. \A c : /\ PlanIssue(d, c).fact \notin {"platform", "health"} /\ PlanIssue(d, c).code = c
             /\ PlanIssue(d, c).blocking
  BY InstallAssumption DEF PlanIssue
<1>2. CASE fact.state = "unknown"
  BY <1>1, <1>2 DEF DirectoryIssues, InTheWay, Unread, CodeOf
<1>3. CASE fact.state = "unsupported"
  BY <1>1, <1>3 DEF DirectoryIssues, InTheWay, Unread, CodeOf
<1>4. CASE fact.state = "present" /\ fact.ownership # "project"
  BY <1>1, <1>4 DEF DirectoryIssues, InTheWay, Unread, CodeOf
<1>5. CASE fact.state = "absent" \/ (fact.state = "present" /\ fact.ownership = "project")
  BY <1>5 DEF DirectoryIssues, InTheWay, Unread
<1>6. QED BY <1>2, <1>3, <1>4, <1>5 DEF DirectoryFacts

(* The report of an install on an eligible platform: what it judges it by. *)
Reported(p, inv, res) ==
  ChangePlan(p, res).issues \cup {PortPolicy} \cup InventoryIssues(ComposedChecks(p, inv))

LEMMA ReportIs ==
  ASSUME NEW p \in Platforms, NEW inv \in Inventories, GateFailures(p) = {},
         NEW res \in [Directories -> DirectoryFacts]
  PROVE  /\ PlanExit(Reported(p, inv, res)) =
              IF \E g \in Groups : ComposedChecks(p, inv)[g].category = "platform" THEN 3
              ELSE IF \E d \in Directories : InTheWay(res[d]) THEN 4 ELSE 5
         /\ ChangePlan(p, res).actions =
              IF \E d \in Directories : InTheWay(res[d]) \/ Unread(res[d]) THEN {}
              ELSE {d \in Directories : res[d].state = "absent"}
<1> DEFINE issues == Reported(p, inv, res)
           judged == LifecycleIssues(p) \cup UNION {DirectoryIssues(d, res[d]) : d \in Directories}
           stocked == InventoryIssues(ComposedChecks(p, inv))
           ill == \E g \in Groups : ComposedChecks(p, inv)[g].category = "platform"
<1>1. \A i \in LifecycleIssues(p) : ~i.blocking
  <2>1. Eligible(ReleaseCheck(p))
    BY GateIs
  <2>2. QED BY <2>1, TwoRules DEF Blocking
<1>2. /\ ChangePlan(p, res).issues = judged
      /\ ChangePlan(p, res).actions =
           IF Blocking(judged) THEN {} ELSE {d \in Directories : res[d].state = "absent"}
  BY DEF ChangePlan
<1>3. /\ \A d \in Directories : \A i \in DirectoryIssues(d, res[d]) :
           i.blocking /\ CodeOf(i) \in {4, 5}
      /\ \A d \in Directories :
           (\E i \in DirectoryIssues(d, res[d]) : CodeOf(i) = 4) <=> InTheWay(res[d])
      /\ \A d \in Directories :
           DirectoryIssues(d, res[d]) # {} <=> InTheWay(res[d]) \/ Unread(res[d])
  BY DirectoryIssuesAre
<1>4. Blocking(judged) <=> \E d \in Directories : InTheWay(res[d]) \/ Unread(res[d])
  BY <1>1, <1>3 DEF Blocking
<1>5. /\ \A i \in stocked : i.blocking /\ CodeOf(i) \in {3, 5, 6}
      /\ (\E i \in stocked : CodeOf(i) = 3) <=> ill
  BY InventoryIssuesAre
<1>6. issues = judged \cup {PortPolicy} \cup stocked
  BY <1>2 DEF Reported
<1>7. CodeOf(PortPolicy) = 5
  BY DEF PortPolicy, PlanIssue, CodeOf
<1>8. (\E i \in issues : i.blocking /\ CodeOf(i) = 3) <=> ill
  <2> HIDE DEF issues, stocked, ill
  <2>1. QED BY <1>1, <1>3, <1>5, <1>6, <1>7
<1>9. (\E i \in issues : i.blocking /\ CodeOf(i) = 4) <=> \E d \in Directories : InTheWay(res[d])
  <2> HIDE DEF issues, stocked, ill
  <2>1. QED BY <1>1, <1>3, <1>5, <1>6, <1>7
<1>10. PlanExit(issues) =
         IF \E i \in issues : i.blocking /\ CodeOf(i) = 3 THEN 3
         ELSE IF \E i \in issues : i.blocking /\ CodeOf(i) = 4 THEN 4 ELSE 5
  BY <1>6, ReportExitIs
<1>11. PlanExit(issues) = IF ill THEN 3 ELSE IF \E d \in Directories : InTheWay(res[d]) THEN 4 ELSE 5
  <2> HIDE DEF issues, ill
  <2>1. QED BY <1>8, <1>9, <1>10
<1>12. QED BY <1>2, <1>4, <1>11

(* The report of a host that is not eligible: 3 when something is known to be
   wrong, 5 when something is only unknown. *)
LEMMA BlockedIs ==
  ASSUME NEW p \in Platforms
  PROVE  PlanExit(BlockedIssues(p)) =
           IF \E id \in GateFailures(p) : EvaluateHost(p)[id].status = "fail" THEN 3 ELSE 5
<1> DEFINE failed == \E id \in GateFailures(p) : EvaluateHost(p)[id].status = "fail"
           issue == PlanIssue("platform", IF failed THEN "unsupported" ELSE "unknown")
<1>1. /\ issue \in BlockedIssues(p) /\ issue.blocking
      /\ \A i \in BlockedIssues(p) : i.blocking => i = issue
  BY DEF BlockedIssues, PlanIssue
<1>2. CodeOf(issue) = IF failed THEN 3 ELSE 5
  BY DEF PlanIssue, CodeOf
<1> HIDE DEF issue, failed
<1>3. CASE failed
  BY <1>1, <1>2, <1>3, PlanExitIs DEF failed
<1>4. CASE ~failed
  BY <1>1, <1>2, <1>4, PlanExitIs DEF failed
<1>5. QED BY <1>3, <1>4

(* Which facts are there at each stage, and what the report is made of.  A platform
   that is not eligible has none but its own. *)
Looked == resources \in [Directories -> DirectoryFacts]
          /\ \A d \in Directories : resources[d].state = "present" =>
               (resources[d].ownership = "project" <=> d \in owned)
Blocked == /\ GateFailures(platform) # {} /\ inventory = NoFacts /\ resources = NoFacts
           /\ report.exit = PlanExit(BlockedIssues(platform))
Open == GateFailures(platform) = {} /\ inventory \in Inventories
InstallInv ==
  /\ platform \in Platforms /\ command \in {"doctor", "install", "identity-access"}
  /\ stage \in {"platform", "directories", "report", "done"}
  /\ stage = "platform" => inventory = NoFacts /\ resources = NoFacts
  /\ command = "doctor" /\ stage # "platform" =>
       /\ inventory \in Inventories /\ stage # "directories"
       /\ stage = "done" => report.exit = DoctorExit(ComposedChecks(platform, inventory))
  /\ command = "install" /\ stage = "directories" => Open /\ resources = NoFacts
  /\ command = "install" /\ stage = "report" => Open /\ Looked
  /\ command = "install" /\ stage = "done" =>
       \/ Blocked
       \/ /\ Open /\ Looked
          /\ report.exit = PlanExit(Reported(platform, inventory, resources))
          /\ report.candidates = ChangePlan(platform, resources).actions
  /\ command = "identity-access" => stage = "platform"

LEMMA InstallStarts == DryRunInit => InstallInv
  BY DEF DryRunInit, InstallInit, InstallInv

LEMMA InstallGoesOn == InstallInv /\ [DryRunNext]_dryRunVars => InstallInv'
<1> SUFFICES ASSUME InstallInv, [DryRunNext]_dryRunVars PROVE InstallInv'
  OBVIOUS
<1>1. CASE UNCHANGED installVars
  BY <1>1 DEF InstallInv, installVars, Blocked, Open, Looked
<1>2. CASE command \in {"doctor", "install"} /\ Doctor
  <2>1. command = "doctor" /\ UNCHANGED <<command, platform, owned, resources>>
    BY <1>2 DEF Doctor
  <2>2. CASE stage = "platform" /\ stage' = "report" /\ inventory' \in Inventories
    BY <2>1, <2>2 DEF InstallInv
  <2>3. CASE /\ stage = "report" /\ stage' = "done" /\ UNCHANGED inventory
             /\ report'.exit = DoctorExit(ComposedChecks(platform, inventory))
    BY <2>1, <2>3 DEF InstallInv
  <2>4. QED BY <1>2, <2>2, <2>3 DEF Doctor, Finish, NoReport
<1>3. CASE InstallBlocked
  BY <1>3 DEF InstallBlocked, Finish, InstallInv, Blocked
<1>4. CASE InstallInventory
  BY <1>4 DEF InstallInventory, InstallInv, Open
<1>5. CASE InstallDirectories
  <2>1. PICK seen \in [Directories -> Seen] :
          resources' = [d \in Directories |-> DirectoryFact(d, seen[d])]
    BY <1>5 DEF InstallDirectories, Seen
  <2>2. UNCHANGED <<command, platform, owned, inventory, report>> /\ stage' = "report"
        /\ command = "install" /\ stage = "directories"
    BY <1>5 DEF InstallDirectories
  <2>3. \A d \in Directories, s \in Seen :
          /\ DirectoryFact(d, s) \in DirectoryFacts
          /\ DirectoryFact(d, s).state = "present" =>
               (DirectoryFact(d, s).ownership = "project" <=> d \in owned)
    BY DEF DirectoryFact, DirectoryFacts, Seen
  <2>4. Looked'
    BY <2>1, <2>2, <2>3 DEF Looked
  <2>5. QED BY <2>2, <2>4 DEF InstallInv, Open
<1>6. CASE InstallReport
  <2>1. /\ command = "install" /\ stage = "report" /\ stage' = "done"
        /\ UNCHANGED <<command, platform, owned, inventory, resources>>
    BY <1>6 DEF InstallReport, Finish
  <2>2. /\ report'.exit = PlanExit(Reported(platform, inventory, resources))
        /\ report'.candidates = ChangePlan(platform, resources).actions
    BY <1>6 DEF InstallReport, Finish, Reported
  <2>3. QED BY <2>1, <2>2 DEF InstallInv, Open, Looked
<1>7. QED BY <1>1, <1>2, <1>3, <1>4, <1>5, <1>6 DEF DryRunNext, InstallNext, dryRunVars

(* Which facts have been collected at each stage of doctor and install, for any
   probes and directories. *)
THEOREM InstallInvariance == DryRunSpec => []InstallInv
<1>1. QED BY InstallStarts, InstallGoesOn, PTL DEF DryRunSpec

LEMMA NoFactsYet == NoFacts \notin Inventories /\ InOrder \in Inventories
<1>1. DOMAIN NoFacts = {}
  BY DEF NoFacts
<1>2. \A f \in Facts : "kernel" \in DOMAIN f
  BY DEF Facts
<1>3. InOrder \in Facts
  BY DEF InOrder, Facts
<1>4. {g \in Groups : InOrder[g] # InOrder[g]} = {}
  OBVIOUS
<1>5. Cardinality({g \in Groups : InOrder[g] # InOrder[g]}) <= MaxDeviations
  BY <1>4, FS_EmptySet, InstallAssumption
<1>6. QED BY <1>1, <1>2, <1>3, <1>5 DEF Inventories

(* The exit code is 3, 4 or 5 for both commands, never 0. *)
THEOREM InstallTypes == DryRunSpec => []InstallTypeOK
<1>1. InstallInv => InstallTypeOK
  <2> SUFFICES ASSUME InstallInv, stage = "done" PROVE report.exit \in {3, 4, 5}
    BY DEF InstallInv, InstallTypeOK
  <2>1. CASE command = "doctor"
    BY <2>1, DoctorIs DEF InstallInv
  <2>2. CASE command = "install"
    BY <2>2, ReportIs, BlockedIs DEF InstallInv, Blocked, Open, Looked
  <2>3. QED BY <2>1, <2>2 DEF InstallInv
<1>2. QED BY <1>1, InstallInvariance, PTL

(* Two mappings give the exit codes, and they agree: on an eligible platform 3 means
   to both the same missing requirement, and on another install says what doctor
   says of a host whose inventory is in order. *)
THEOREM ExitCodesAgree == DryRunSpec => []ExitsAgree
<1>1. InstallInv => ExitsAgree
  <2> SUFFICES ASSUME InstallInv, command = "install", stage = "done"
      PROVE  LET doctor(inv) == DoctorExit(ComposedChecks(platform, inv)) IN
             IF Collected(inventory) THEN (report.exit = 3) <=> (doctor(inventory) = 3)
             ELSE report.exit = doctor(InOrder)
    BY DEF ExitsAgree
  <2>1. platform \in Platforms
    BY DEF InstallInv
  <2>2. ASSUME NEW inv \in Inventories
        PROVE  (\E id \in DOMAIN ComposedChecks(platform, inv) :
                  ComposedChecks(platform, inv)[id].category = "platform")
               <=> \/ \E id \in GateFailures(platform) : EvaluateHost(platform)[id].status = "fail"
                   \/ \E g \in Groups : ComposedChecks(platform, inv)[g].category = "platform"
    <3>1. \A id \in PlatformChecks : EvaluateHost(platform)[id].category = "platform"
             <=> id \in GateFailures(platform) /\ EvaluateHost(platform)[id].status = "fail"
      BY <2>1, PlatformStatus, CheckIs DEF PlatformChecks, GateFailures, Eligible
    <3>2. EvaluateHost(platform)["network"].category # "platform"
      BY <2>1, PlatformStatus, CheckIs DEF Statuses
    <3>3. GateFailures(platform) \subseteq PlatformChecks
      BY DEF GateFailures, PlatformChecks
    <3>4. QED BY <2>1, <3>1, <3>2, <3>3, GroupsAre
  <2>3. CASE Blocked
    <3>1. \A g \in Groups : ComposedChecks(platform, InOrder)[g].category # "platform"
      BY <2>1, Names DEF ComposedChecks, EvaluateHost, InOrder, Groups, KernelCheck, CapacityCheck,
         SecurityCheck, ServicesCheck, Check
    <3>2. report.exit = DoctorExit(ComposedChecks(platform, InOrder))
      BY <2>1, <2>2, <2>3, <3>1, NoFactsYet, BlockedIs, DoctorIs DEF Blocked
    <3>3. QED BY <2>3, <3>2 DEF Blocked, Collected
  <2>4. CASE /\ Open /\ Looked
             /\ report.exit = PlanExit(Reported(platform, inventory, resources))
    <3>1. Collected(inventory) /\ inventory \in Inventories /\ GateFailures(platform) = {}
      BY <2>4, NoFactsYet DEF Open, Collected
    <3> DEFINE ill == \E g \in Groups : ComposedChecks(platform, inventory)[g].category = "platform"
               inTheWay == \E d \in Directories : InTheWay(resources[d])
    <3>6. PICK ex : ex = PlanExit(Reported(platform, inventory, resources))
      OBVIOUS
    <3>5. ex = IF ill THEN 3 ELSE IF inTheWay THEN 4 ELSE 5
      BY <2>1, <2>4, <3>1, <3>6, ReportIs DEF Looked
    <3> HIDE DEF ill, inTheWay
    <3>7. (ex = 3) <=> ill
      BY <3>5
    <3>2. (report.exit = 3) <=>
            \E g \in Groups : ComposedChecks(platform, inventory)[g].category = "platform"
      BY <2>4, <3>6, <3>7 DEF ill
    <3>3. (DoctorExit(ComposedChecks(platform, inventory)) = 3) <=>
            \E g \in Groups : ComposedChecks(platform, inventory)[g].category = "platform"
      BY <2>1, <2>2, <3>1, DoctorIs
    <3>4. QED BY <3>1, <3>2, <3>3
  <2>5. QED BY <2>3, <2>4 DEF InstallInv
<1>2. QED BY <1>1, InstallInvariance, PTL

(* A foreign directory is a conflict that nothing unread masks, and no directory is
   to be made unless all can be. *)
THEOREM DirectoriesTogether == DryRunSpec => []DirectoriesAreJudgedTogether
<1>1. InstallInv => DirectoriesAreJudgedTogether
  <2> DEFINE foreign == {d \in Directories :
                      \/ resources[d].state = "unsupported"
                      \/ resources[d].state = "present" /\ d \notin owned}
             unseen == {d \in Directories : resources[d].state = "unknown"}
  <2> SUFFICES ASSUME InstallInv, command = "install", stage = "done", Collected(resources)
      PROVE  /\ foreign # {} => report.exit \in {3, 4}
             /\ report.exit = 4 => foreign # {}
             /\ report.candidates =
                  IF foreign \cup unseen = {} THEN {d \in Directories : resources[d].state = "absent"}
                  ELSE {}
    BY DEF DirectoriesAreJudgedTogether
  <2>1. /\ Open /\ Looked /\ platform \in Platforms
        /\ report.exit = PlanExit(Reported(platform, inventory, resources))
        /\ report.candidates = ChangePlan(platform, resources).actions
    BY DEF InstallInv, Blocked, Collected
  <2>2. /\ \A d \in Directories : d \in foreign <=> InTheWay(resources[d])
        /\ \A d \in Directories : d \in unseen <=> Unread(resources[d])
    BY <2>1 DEF Looked, InTheWay, Unread
  <2>3. foreign \subseteq Directories /\ unseen \subseteq Directories
    OBVIOUS
  <2>4. /\ report.exit =
              IF \E g \in Groups : ComposedChecks(platform, inventory)[g].category = "platform" THEN 3
              ELSE IF \E d \in Directories : InTheWay(resources[d]) THEN 4 ELSE 5
        /\ report.candidates =
              IF \E d \in Directories : InTheWay(resources[d]) \/ Unread(resources[d]) THEN {}
              ELSE {d \in Directories : resources[d].state = "absent"}
    BY <2>1, ReportIs DEF Open, Looked
  <2> HIDE DEF foreign, unseen
  <2>5. QED BY <2>2, <2>3, <2>4
<1>2. QED BY <1>1, InstallInvariance, PTL

(* The identity phase is told whether the platform is its own, and an issue of that
   code decides the exit code whatever else is wrong. *)
ExitTellsPlatform ==
  /\ eligible = IdentityEligible(platform)
  /\ plan # None /\ ~eligible => plan.exit = 3

LEMMA ExitTellsPlatformGoesOn ==
  ExitTellsPlatform /\ [DryRunNext]_dryRunVars => ExitTellsPlatform'
<1> SUFFICES ASSUME ExitTellsPlatform, [DryRunNext]_dryRunVars PROVE ExitTellsPlatform'
  OBVIOUS
<1>1. CASE UNCHANGED vars /\ UNCHANGED platform
  BY <1>1 DEF ExitTellsPlatform, vars, IdentityEligible
<1>2. CASE Next /\ UNCHANGED installVars
  <2>1. UNCHANGED <<eligible, platform>>
    BY <1>2 DEF Next, installVars, host, Collect, BuildIdentityPlan, Persist, CreateGroup, CreateUser,
       LeaveLxd, Abandon, OthersAddUser, OthersAddGroup, OthersTakeSudo, OthersDamageManifest,
       OthersRemove
  <2>2. IdentityEligible(platform)' <=> IdentityEligible(platform)
    BY <2>1 DEF IdentityEligible
  <2>3. CASE BuildIdentityPlan
    <3>1. Issue("platform", "unsupported") \in Issues(manifest) \/ eligible
      BY DEF Issues, GateIssues, IssueIf
    <3>2. ExitCode(Issues(manifest)) = 3 \/ eligible
      BY <3>1 DEF ExitCode, Issue
    <3>3. plan'.exit = ExitCode(Issues(manifest))
      BY <2>3 DEF BuildIdentityPlan
    <3>4. QED BY <2>1, <2>2, <3>2, <3>3 DEF ExitTellsPlatform
  <2>4. CASE plan' \in {plan, None}
    BY <2>1, <2>2, <2>4 DEF ExitTellsPlatform
  <2>5. QED BY <1>2, <2>3, <2>4 DEF Next, Collect, Persist, CreateGroup, CreateUser,
         LeaveLxd, Abandon, OthersAddUser, OthersAddGroup, OthersTakeSudo, OthersDamageManifest,
         OthersRemove
<1>3. CASE InstallNext /\ UNCHANGED vars
  BY <1>1, <1>3 DEF InstallNext, Doctor, InstallBlocked, InstallInventory, InstallDirectories,
     InstallReport
<1>4. QED BY <1>1, <1>2, <1>3 DEF DryRunNext, dryRunVars, installVars

(* preflight, the change planner and the identity planner each have a rule of
   platforms.  The planner's is preflight's; the identity phase's is too, of what it
   reads and but for the name amd64; and install leaves a refused host alone. *)
THEOREM RulesOfPlatformsAgree == DryRunSpec => []GatesAgree
<1>1. DryRunInit => ExitTellsPlatform
  BY DEF DryRunInit, Init, ExitTellsPlatform
<1>2. InstallInv /\ ExitTellsPlatform => GatesAgree
  <2> SUFFICES ASSUME InstallInv, ExitTellsPlatform PROVE GatesAgree
    OBVIOUS
  <2>1. platform \in Platforms
    BY DEF InstallInv
  <2>2. PlannerAgreesWithGate
    BY <2>1, TwoRules DEF PlannerAgreesWithGate
  <2>3. IdentityAgreesWithGate
    <3> SUFFICES ASSUME plan # None, plan.exit # 3, NEW id \in GateFailures(platform),
                        id \notin UnreadChecks
                 PROVE  platform.architecture = "amd64" /\ id = "architecture"
      BY DEF IdentityAgreesWithGate
    <3>1. IdentityEligible(platform)
      BY DEF ExitTellsPlatform
    <3>2. id \in {"release", "architecture"} /\ ~Eligible(EvaluateHost(platform)[id].status)
      BY DEF GateFailures, PlatformChecks, UnreadChecks
    <3>3. id = "architecture" /\ ~Eligible(ArchitectureCheck(platform))
      BY <2>1, <3>1, <3>2, PlatformStatus, CheckIs DEF IdentityEligible, ReleaseCheck, Eligible
    <3>4. QED BY <3>1, <3>3 DEF IdentityEligible, ArchitectureCheck, Eligible
  <2>4. IneligibleIsLeftAlone
    <3> SUFFICES ASSUME command = "install", Collected(inventory) \/ Collected(resources)
        PROVE  /\ platform.release = "26.04"
                  \/ (platform.release = "25.04" /\ platform.mode # "production")
               /\ platform.architecture = "x86_64" /\ platform.kvm \in {"ok", "inaccessible"}
               /\ \A id \in Probed : platform.probes[id] = "pass"
      BY DEF IneligibleIsLeftAlone
    <3>1. GateFailures(platform) = {}
      BY DEF InstallInv, Open, Blocked, Collected
    <3>2. /\ Eligible(ReleaseCheck(platform)) /\ Eligible(KvmCheck(platform))
          /\ Eligible(ArchitectureCheck(platform))
          /\ \A id \in Probed : Eligible(platform.probes[id])
      BY <2>1, <3>1, GateIs
    <3>3. \A id \in Probed : platform.probes[id] \in {"pass", "fail", "unknown"}
      BY <2>1 DEF Platforms
    <3>4. platform.release \in {"unknown", "other", "25.04", "26.04"}
          /\ platform.architecture \in {"unknown", "other", "amd64", "x86_64"}
          /\ platform.kvm \in {"absent", "file", "inaccessible", "ok"}
      BY <2>1 DEF Platforms
    <3>5. QED BY <3>2, <3>3, <3>4 DEF Eligible, ReleaseCheck, ArchitectureCheck, KvmCheck
  <2>5. QED BY <2>2, <2>3, <2>4 DEF GatesAgree
<1>3. QED BY <1>1, <1>2, InstallInvariance, ExitTellsPlatformGoesOn, PTL DEF DryRunSpec


-----------------------------------------------------------------------------
(* install --dry-run --phase identity-access                                  *)

(* In a finite set of integers each element has a rank of its own, and every rank
   below the cardinality is some element's. *)
LEMMA RanksAreTaken ==
  ASSUME NEW S \in SUBSET Int, IsFiniteSet(S), NEW k \in Nat, k < Cardinality(S)
  PROVE  \E id \in S : Cardinality({j \in S : j < id}) = k
<1> DEFINE below(id) == {j \in S : j < id}
           rank == [id \in S |-> Cardinality(below(id))]
           top == Cardinality(S) - 1
<1>1. Cardinality(S) \in Nat
  BY FS_CardinalityType
<1>2. ASSUME NEW id \in S
      PROVE  /\ IsFiniteSet(below(id)) /\ Cardinality(below(id)) \in Nat
             /\ Cardinality(below(id) \cup {id}) = Cardinality(below(id)) + 1
             /\ IsFiniteSet(below(id) \cup {id})
  <2>1. below(id) \in SUBSET S /\ id \notin below(id)
    OBVIOUS
  <2> HIDE DEF below
  <2>2. IsFiniteSet(below(id))
    BY <2>1, FS_Subset
  <2>3. QED BY <2>1, <2>2, FS_CardinalityType, FS_AddElement
<1>3. ASSUME NEW id \in S
      PROVE  Cardinality(below(id)) \in 0..top
  <2>1. below(id) \cup {id} \in SUBSET S
    OBVIOUS
  <2> HIDE DEF below
  <2>2. Cardinality(below(id) \cup {id}) <= Cardinality(S)
    BY <2>1, FS_Subset
  <2>3. QED BY <1>1, <1>2, <2>2
<1>4. ASSUME NEW id \in S, NEW jd \in S, id < jd
      PROVE  Cardinality(below(id)) < Cardinality(below(jd))
  <2>1. \A j \in S : j < id => j < jd
    <3>1. \A a, b, c \in Int : a < b /\ b < c => a < c
      OBVIOUS
    <3>2. QED BY <1>4, <3>1
  <2>2. below(id) \cup {id} \in SUBSET below(jd)
    BY <1>4, <2>1
  <2> HIDE DEF below
  <2>3. Cardinality(below(id) \cup {id}) <= Cardinality(below(jd))
    BY <1>2, <2>2, FS_Subset
  <2>4. \A a, b \in Nat : a + 1 <= b => a < b
    OBVIOUS
  <2>5. QED BY <1>2, <2>3, <2>4
<1>5. rank \in Injection(S, 0..top)
  <2>1. \A id, jd \in S : id # jd => id < jd \/ jd < id
    OBVIOUS
  <2> HIDE DEF below
  <2>2. \A a, b \in Nat : a < b => a # b
    OBVIOUS
  <2>5. \A id, jd \in S : id # jd => Cardinality(below(id)) # Cardinality(below(jd))
    BY <1>2, <1>4, <2>1, <2>2
  <2>3. rank \in [S -> 0..top]
    BY <1>3
  <2>4. QED BY <2>5, <2>3 DEF Injection, IsInjective
<1> HIDE DEF rank, below
<1>6. IsFiniteSet(0..top) /\ Cardinality(0..top) = Cardinality(S)
  <2>1. PICK c \in Nat : c = Cardinality(S)
    BY <1>1
  <2>2. IsFiniteSet(0..(c - 1)) /\ Cardinality(0..(c - 1)) = IF 0 > c - 1 THEN 0 ELSE c - 1 - 0 + 1
    BY FS_Interval
  <2>3. QED BY <2>1, <2>2
<1>7. rank \in Surjection(S, 0..top)
  BY <1>5, <1>6, FS_Injection
<1>8. \E id \in S : rank[id] = k
  <2>1. k \in 0..top
    BY <1>1
  <2> HIDE DEF top
  <2>2. QED BY <1>7, <2>1 DEF Surjection
<1>9. QED BY <1>8 DEF rank, below

(* _allocate: if there is enough room, as many ids as asked for, different, of the
   band and not occupied. *)
LEMMA FirstFreeIs ==
  ASSUME NEW count \in Nat, NEW occupied
  PROVE  LET ids == FirstFree(count, occupied) IN
         \/ ids = << >>
         \/ /\ DOMAIN ids = 1..count /\ Len(ids) = count
            /\ \A i \in 1..count : ids[i] \in Band \ occupied
            /\ \A i, j \in 1..count : i # j => ids[i] # ids[j]
<1> DEFINE free == Band \ occupied
           below(id) == {j \in free : j < id}
           ids == [i \in 1..count |-> CHOOSE id \in free : Cardinality(below(id)) = i - 1]
<1>1. FirstFree(count, occupied) = IF Cardinality(free) < count THEN << >> ELSE ids
  BY DEF FirstFree
<1>2. SUFFICES ASSUME ~(Cardinality(free) < count)
               PROVE  /\ \A i \in 1..count : ids[i] \in free
                      /\ \A i, j \in 1..count : i # j => ids[i] # ids[j]
  <2>1. DOMAIN ids = 1..count /\ Len(ids) = count
    OBVIOUS
  <2> HIDE DEF ids
  <2>2. QED BY <1>1, <2>1
<1>3. free \in SUBSET Int /\ free \in SUBSET (IdMin..IdMax)
  BY IdentityAssumption DEF Band
<1>4. IsFiniteSet(free) /\ Cardinality(free) \in Nat
  <2>1. IdMin \in Int /\ IdMax \in Int
    BY IdentityAssumption
  <2>2. IsFiniteSet(IdMin..IdMax)
    BY <2>1, FS_Interval
  <2> HIDE DEF free
  <2>3. QED BY <1>3, <2>2, FS_Subset, FS_CardinalityType
<1>5. ASSUME NEW i \in 1..count
      PROVE  ids[i] \in free /\ Cardinality(below(ids[i])) = i - 1
  <2> HIDE DEF free
  <2>1. i - 1 \in Nat /\ i - 1 < Cardinality(free)
    BY <1>2, <1>4
  <2>2. \E id \in free : Cardinality(below(id)) = i - 1
    BY <1>3, <1>4, <2>1, RanksAreTaken
  <2> HIDE DEF below
  <2>3. QED BY <2>2
<1> HIDE DEF ids, below, free
<1>6. ASSUME NEW i \in 1..count, NEW j \in 1..count, i # j
      PROVE  ids[i] # ids[j]
  BY <1>5, <1>6
<1>7. QED BY <1>5, <1>6

(* The services are as many as their names. *)
Item == [name : Services, uid : Band, gid : Band]

LEMMA ServicesAre ==
  /\ IsFiniteSet(Services) /\ Len(ServiceNames) \in Nat \ {0}
  /\ DOMAIN ServiceNames = 1..Len(ServiceNames)
  /\ \A i \in 1..Len(ServiceNames) : ServiceNames[i] \in Services
<1>1. DOMAIN ServiceNames = 1..Len(ServiceNames) /\ Len(ServiceNames) \in Nat
  BY IdentityAssumption
<1>2. ServiceNames \in Surjection(1..Len(ServiceNames), Services)
  BY <1>1, IdentityAssumption DEF Surjection, Services
<1>3. IsFiniteSet(1..Len(ServiceNames))
  BY <1>1, FS_Interval
<1>4. IsFiniteSet(Services)
  BY <1>2, <1>3, FS_Surjection
<1>5. Len(ServiceNames) # 0
  BY <1>4, IdentityAssumption, FS_EmptySet
<1>6. QED BY <1>1, <1>4, <1>5 DEF Services

(* A mapping of the exact service set has one entry for each. *)
LEMMA MappedOnce ==
  ASSUME NEW mapping \in Seq(Item), ValidMapping(mapping)
  PROVE  \A i, j \in DOMAIN mapping : mapping[i].name = mapping[j].name => i = j
<1> DEFINE names == [i \in DOMAIN mapping |-> mapping[i].name]
<1>1. /\ DOMAIN mapping = 1..Len(ServiceNames)
      /\ {mapping[i].name : i \in DOMAIN mapping} = Services
  BY DEF ValidMapping
<1>2. names \in Surjection(1..Len(ServiceNames), Services)
  BY <1>1 DEF Surjection
<1>3. IsFiniteSet(1..Len(ServiceNames)) /\ Cardinality(1..Len(ServiceNames)) = Len(ServiceNames)
  BY ServicesAre, FS_Interval
<1>4. names \in Injection(1..Len(ServiceNames), Services)
  <2> HIDE DEF names
  <2>1. QED BY <1>2, <1>3, IdentityAssumption, FS_SurjSameCardinalityImpliesInj
<1>5. QED BY <1>1, <1>4 DEF Injection, IsInjective

(* Without a manifest: an entry for each service, of ids that nobody has. *)
LEMMA FreshMappingIs ==
  \/ FreshMapping = << >>
  \/ /\ FreshMapping \in Seq(Item) /\ Len(FreshMapping) = Len(ServiceNames)
     /\ \A i \in DOMAIN FreshMapping :
          /\ FreshMapping[i].name = ServiceNames[i]
          /\ FreshMapping[i].uid \in Band \ (facts.uids \cup Excluded)
          /\ FreshMapping[i].gid \in Band \ (facts.gids \cup Excluded)
          /\ \A j \in DOMAIN FreshMapping \ {i} :
               /\ FreshMapping[j].uid # FreshMapping[i].uid
               /\ FreshMapping[j].gid # FreshMapping[i].gid
<1> DEFINE n == Len(ServiceNames)
<1>1. PICK uids : uids = FirstFree(n, facts.uids \cup Excluded)
  OBVIOUS
<1>2. PICK gids : gids = FirstFree(n, facts.gids \cup Excluded)
  OBVIOUS
<1>3. FreshMapping =
        IF Len(uids) < n \/ Len(gids) < n THEN << >>
        ELSE [i \in DOMAIN ServiceNames |-> [name |-> ServiceNames[i], uid |-> uids[i], gid |-> gids[i]]]
  BY <1>1, <1>2 DEF FreshMapping
<1>4. CASE Len(uids) < n \/ Len(gids) < n
  BY <1>3, <1>4
<1>5. CASE ~(Len(uids) < n \/ Len(gids) < n)
  <2>1. n \in Nat \ {0} /\ DOMAIN ServiceNames = 1..n
    BY ServicesAre
  <2>2. uids # << >> /\ gids # << >>
    BY <1>5, <2>1
  <2> HIDE DEF n
  <2>3. /\ \A i \in 1..n : uids[i] \in Band \ (facts.uids \cup Excluded)
        /\ \A i, j \in 1..n : i # j => uids[i] # uids[j]
    <3>1. n \in Nat
      BY <2>1
    <3>2. PICK occupied : occupied = facts.uids \cup Excluded
      OBVIOUS
    <3>3. uids = FirstFree(n, occupied)
      BY <1>1, <3>2
    <3>4. \/ uids = << >>
          \/ /\ \A i \in 1..n : uids[i] \in Band \ occupied
             /\ \A i, j \in 1..n : i # j => uids[i] # uids[j]
      BY <3>1, <3>3, FirstFreeIs
    <3>5. QED BY <2>2, <3>2, <3>4
  <2>4. /\ \A i \in 1..n : gids[i] \in Band \ (facts.gids \cup Excluded)
        /\ \A i, j \in 1..n : i # j => gids[i] # gids[j]
    <3>1. n \in Nat
      BY <2>1
    <3>2. PICK occupied : occupied = facts.gids \cup Excluded
      OBVIOUS
    <3>3. gids = FirstFree(n, occupied)
      BY <1>2, <3>2
    <3>4. \/ gids = << >>
          \/ /\ \A i \in 1..n : gids[i] \in Band \ occupied
             /\ \A i, j \in 1..n : i # j => gids[i] # gids[j]
      BY <3>1, <3>3, FirstFreeIs
    <3>5. QED BY <2>2, <3>2, <3>4
  <2>5. PICK m : m = FreshMapping
    OBVIOUS
  <2>6. m = [i \in 1..n |-> [name |-> ServiceNames[i], uid |-> uids[i], gid |-> gids[i]]]
    BY <1>3, <1>5, <2>1, <2>5
  <2>7. \A i \in 1..n : [name |-> ServiceNames[i], uid |-> uids[i], gid |-> gids[i]] \in Item
    <3>1. ASSUME NEW i \in 1..n
          PROVE  ServiceNames[i] \in Services /\ uids[i] \in Band /\ gids[i] \in Band
      BY <2>3, <2>4, ServicesAre DEF n
    <3>2. QED BY <3>1 DEF Item
  <2>8. m \in [1..n -> Item] /\ DOMAIN m = 1..n
    BY <2>6, <2>7
  <2>9. m \in Seq(Item) /\ Len(m) = n
    BY <2>1, <2>8
  <2>10. \A i \in 1..n : m[i].name = ServiceNames[i] /\ m[i].uid = uids[i] /\ m[i].gid = gids[i]
    BY <2>6
  <2>11. QED BY <2>3, <2>4, <2>5, <2>8, <2>9, <2>10 DEF n
<1>6. QED BY <1>4, <1>5

(* An existing identity that is exactly what the mapping says (Matches). *)
Own(f, s, mapped) ==
  /\ f.accounts[s].status = "ok" /\ f.groups[s].status = "ok"
  /\ f.accounts[s].local /\ f.groups[s].local /\ f.accounts[s].exact
  /\ f.accounts[s].uid = mapped.uid /\ f.groups[s].gid = mapped.gid

(* What an actionable plan p says of the facts f it was made from. *)
Given(p) == IF p.supplied = None THEN << >> ELSE p.supplied.mapping

OperatorFound(f) ==
  /\ f.range
  /\ f.accounts["operator"].status = "ok"
  /\ f.accounts["operator"].local
  /\ f.groups["sudo"].status = "ok" /\ f.groups["kvm"].status = "ok" /\ f.groups["kvm"].local
  /\ f.groups["sudo"].gid \in f.accounts["operator"].gids

ServicesFound(f, given) ==
  \A s \in Services :
    /\ f.accounts[s].status # "unknown" /\ f.groups[s].status # "unknown"
    /\ f.accounts[s].status = "ok" \/ f.groups[s].status = "ok" =>
         \E i \in DOMAIN given : given[i].name = s /\ Own(f, s, given[i])

IdsAllocated(f, p) ==
  \A i \in DOMAIN p.allocations :
    /\ p.allocations[i].uid \in Band \ Excluded /\ p.allocations[i].gid \in Band \ Excluded
    /\ \A j \in DOMAIN p.allocations \ {i} :
         p.allocations[j].uid # p.allocations[i].uid /\ p.allocations[j].gid # p.allocations[i].gid
    /\ p.allocations[i].uid \in f.uids =>
         p.supplied # None /\ f.accounts[p.allocations[i].name].status # "absent"
    /\ p.allocations[i].gid \in f.gids =>
         p.supplied # None /\ f.groups[p.allocations[i].name].status # "absent"

PlannedFrom(f, p) ==
  /\ OperatorFound(f) /\ ServicesFound(f, Given(p)) /\ IdsAllocated(f, p)
  /\ p.allocations \in Seq(Item)
  /\ p.supplied # None => ValidMapping(p.supplied.mapping) /\ p.allocations = p.supplied.mapping

ManifestOK(m) ==
  m # None => m.mapping \in Seq(Item) /\ m = [kind |-> "manifest", mapping |-> m.mapping]

LEMMA NoIssue == \A c \in BOOLEAN : \A id, code : IssueIf(c, id, code) = {} <=> ~c
  BY DEF IssueIf

(* Without an issue nothing was in doubt: the parts of Issues, one by one. *)
LEMMA NothingInDoubt ==
  ASSUME NEW supplied, Issues(supplied) = {}
  PROVE  LET mapping == IF supplied # None /\ ValidMapping(supplied.mapping)
                          THEN supplied.mapping ELSE << >>
         IN /\ supplied # None => mapping # << >>
            /\ ServiceIssues(mapping) = {} /\ OperatorIssues = {} /\ facts.range
            /\ OccupiedIssues(mapping) = {}
            /\ supplied = None => FreshMapping # << >>
<1> DEFINE mapping == IF supplied # None /\ ValidMapping(supplied.mapping)
                        THEN supplied.mapping ELSE << >>
<1>1. /\ IssueIf(supplied # None /\ mapping = << >>, "manifest.mapping", "conflict") = {}
      /\ ServiceIssues(mapping) = {} /\ OperatorIssues = {}
      /\ IssueIf(~facts.range, "allocation.range", "unknown") = {}
      /\ (IF facts.range THEN OccupiedIssues(mapping) ELSE {}) = {}
      /\ IssueIf(facts.range /\ supplied = None /\ FreshMapping = << >>,
                 "allocation.exhausted", "conflict") = {}
  BY DEF Issues
<1> HIDE DEF mapping
<1>2. facts.range
  BY <1>1, NoIssue
<1>3. supplied # None => mapping # << >>
  BY <1>1, NoIssue
<1>4. supplied = None => FreshMapping # << >>
  BY <1>1, <1>2, NoIssue
<1>5. QED BY <1>1, <1>2, <1>3, <1>4 DEF mapping

LEMMA OperatorIsFound ==
  ASSUME facts.range, OperatorIssues = {}
  PROVE  OperatorFound(facts)
<1> DEFINE operator == facts.accounts["operator"]
           sudo == facts.groups["sudo"]
           kvm == facts.groups["kvm"]
<1>1. /\ IssueIf(operator.status # "ok" \/ (operator.status = "ok" /\ (~operator.local \/ operator.uid = 0)),
                 "operator.local", "conflict") = {}
      /\ IssueIf(~(sudo.status = "ok" /\ operator.status = "ok" /\ sudo.gid \in operator.gids),
                 "operator.sudo", "conflict") = {}
      /\ IssueIf(~(kvm.status = "ok" /\ kvm.local), "group.kvm", "conflict") = {}
  BY DEF OperatorIssues
<1> HIDE DEF operator, sudo, kvm
<1>2. sudo.status = "ok" /\ operator.status = "ok" /\ sudo.gid \in operator.gids
  BY <1>1, NoIssue
<1>3. kvm.status = "ok" /\ kvm.local
  BY <1>1, NoIssue
<1>4. operator.local
  <2>1. ~(operator.status # "ok" \/ (operator.status = "ok" /\ (~operator.local \/ operator.uid = 0)))
    BY <1>1, NoIssue
  <2>2. QED BY <1>2, <2>1
<1>5. QED BY <1>2, <1>3, <1>4 DEF OperatorFound, operator, sudo, kvm

LEMMA ServicesAreFound ==
  ASSUME NEW mapping, ServiceIssues(mapping) = {}
  PROVE  ServicesFound(facts, mapping)
<1> SUFFICES ASSUME NEW s \in Services
    PROVE  /\ facts.accounts[s].status # "unknown" /\ facts.groups[s].status # "unknown"
           /\ facts.accounts[s].status = "ok" \/ facts.groups[s].status = "ok" =>
                \E i \in DOMAIN mapping : mapping[i].name = s /\ Own(facts, s, mapping[i])
  BY DEF ServicesFound
<1> DEFINE account == facts.accounts[s]
           group == facts.groups[s]
           unknown == "unknown" \in {account.status, group.status}
           mine == \E i \in DOMAIN mapping : mapping[i].name = s /\ Matches(s, mapping[i])
<1>1. /\ IssueIf(unknown, "discovery", "unknown") = {}
      /\ IssueIf(~unknown /\ "ok" \in {account.status, group.status} /\ ~mine,
                 "collision", "conflict") = {}
  <2> DEFINE doubt(t) ==
        IssueIf("unknown" \in {facts.accounts[t].status, facts.groups[t].status}, "discovery", "unknown")
        \cup IssueIf(/\ ~("unknown" \in {facts.accounts[t].status, facts.groups[t].status})
                     /\ "ok" \in {facts.accounts[t].status, facts.groups[t].status}
                     /\ ~\E i \in DOMAIN mapping : mapping[i].name = t /\ Matches(t, mapping[i]),
                     "collision", "conflict")
  <2>1. ServiceIssues(mapping) = UNION {doubt(t) : t \in Services}
    BY Zenon DEF ServiceIssues
  <2>2. doubt(s) = {}
    <3> HIDE DEF doubt
    <3>1. QED BY <2>1
  <2>3. QED BY <2>2
<1>2. ~unknown /\ ("ok" \in {account.status, group.status} => mine)
  <2> HIDE DEF unknown, mine, account, group
  <2>1. ~unknown
    <3>1. unknown \in BOOLEAN
      BY DEF unknown
    <3>2. QED BY <1>1, <3>1, NoIssue
  <2>2. ~(~unknown /\ "ok" \in {account.status, group.status} /\ ~mine)
    BY <1>1, NoIssue
  <2>3. QED BY <2>1, <2>2
<1>3. \A i : Matches(s, mapping[i]) => Own(facts, s, mapping[i])
  BY DEF Matches, Own
<1>4. QED BY <1>2, <1>3

(* What build_identity_plan plans when it raises no issue. *)
LEMMA PlansFromFacts ==
  ASSUME NEW p, ManifestOK(p.supplied), Issues(p.supplied) = {},
         p.allocations = Allocations(p.supplied)
  PROVE  PlannedFrom(facts, p)
<1> DEFINE mapping == IF p.supplied # None /\ ValidMapping(p.supplied.mapping)
                        THEN p.supplied.mapping ELSE << >>
<1>1. /\ p.supplied # None => mapping # << >>
      /\ ServiceIssues(mapping) = {} /\ OperatorIssues = {} /\ facts.range
      /\ OccupiedIssues(mapping) = {}
      /\ p.supplied = None => FreshMapping # << >>
  BY NothingInDoubt
<1>2. p.supplied # None => ValidMapping(p.supplied.mapping)
  BY <1>1
<1>3. mapping = Given(p)
  BY <1>2 DEF Given
<1>4. OperatorFound(facts)
  BY <1>1, OperatorIsFound
<1>5. ServicesFound(facts, Given(p))
  BY <1>1, <1>3, ServicesAreFound
<1>6. p.allocations = IF p.supplied # None THEN p.supplied.mapping ELSE FreshMapping
  BY <1>1, <1>2 DEF Allocations
<1>7. CASE p.supplied = None
  <2>1. PICK m : m = FreshMapping
    OBVIOUS
  <2>2. p.allocations = m /\ m # << >>
    BY <1>1, <1>6, <1>7, <2>1
  <2>3. /\ m \in Seq(Item)
        /\ \A i \in DOMAIN m :
             /\ m[i].uid \in Band \ (facts.uids \cup Excluded)
             /\ m[i].gid \in Band \ (facts.gids \cup Excluded)
             /\ \A j \in DOMAIN m \ {i} : m[j].uid # m[i].uid /\ m[j].gid # m[i].gid
    BY <2>1, <2>2, FreshMappingIs
  <2>4. IdsAllocated(facts, p)
    BY <2>2, <2>3 DEF IdsAllocated
  <2>5. QED BY <1>4, <1>5, <1>7, <2>2, <2>3, <2>4 DEF PlannedFrom
<1>8. CASE p.supplied # None
  <2>1. PICK m : m = p.supplied.mapping
    OBVIOUS
  <2>2. m \in Seq(Item) /\ ValidMapping(m) /\ p.allocations = m /\ mapping = m
    BY <1>2, <1>6, <1>8, <2>1 DEF ManifestOK
  <2>3. IssueIf(\E i \in DOMAIN m :
                  \/ facts.accounts[m[i].name].status = "absent" /\ m[i].uid \in facts.uids
                  \/ facts.groups[m[i].name].status = "absent" /\ m[i].gid \in facts.gids,
                "manifest.occupied", "conflict") = {}
    BY <1>1, <2>2 DEF OccupiedIssues
  <2>4. \A i \in DOMAIN m :
          /\ m[i].uid \in facts.uids => facts.accounts[m[i].name].status # "absent"
          /\ m[i].gid \in facts.gids => facts.groups[m[i].name].status # "absent"
    BY <2>3, NoIssue
  <2>5. \A i \in DOMAIN m :
          /\ m[i].uid \in Band \ Excluded /\ m[i].gid \in Band \ Excluded
          /\ \A j \in DOMAIN m \ {i} : m[j].uid # m[i].uid /\ m[j].gid # m[i].gid
    BY <2>2 DEF ValidMapping
  <2>6. IdsAllocated(facts, p)
    BY <1>8, <2>2, <2>4, <2>5 DEF IdsAllocated
  <2>7. QED BY <1>4, <1>5, <1>8, <2>1, <2>2, <2>6 DEF PlannedFrom
<1>9. QED BY <1>7, <1>8

(* The answer to a lookup, and what it takes for a status. *)
LEMMA HowIs ==
  ASSUME NEW failed \in Failures, NEW lookup
  PROVE  /\ How(lookup, failed) \in {"answers", "silent", "loud"}
         /\ lookup \in DOMAIN failed <=> How(lookup, failed) # "answers"
         /\ lookup \in DOMAIN failed => lookup \in Lookups /\ How(lookup, failed) = failed[lookup]
<1>1. PICK outage \in Outages : failed \in [outage -> {"silent", "loud"}]
  BY DEF Failures
<1>2. outage \subseteq Lookups
  BY OutageAssumption
<1>3. QED BY <1>1, <1>2 DEF How

LEMMA StatusIs ==
  ASSUME NEW failed \in Failures, NEW database, NEW name, NEW entries, NEW status,
         status = Status(database, name, entries, failed)
  PROVE  /\ status \in {"ok", "absent", "unknown"}
         /\ status = "ok" => /\ name \in entries
                             /\ How(<<"any", database, name>>, failed) = "answers"
                             /\ How(<<"files", database, name>>, failed) # "loud"
                             /\ How(<<"id", database, name>>, failed) = "answers"
         /\ status = "absent" => \/ How(<<"any", database, name>>, failed) = "silent"
                                 \/ /\ How(<<"any", database, name>>, failed) = "answers"
                                    /\ name \notin entries
<1>1. How(<<"any", database, name>>, failed) \in {"answers", "silent", "loud"}
  BY HowIs
<1>2. QED BY <1>1 DEF Status

LEMMA AccountFactIs ==
  ASSUME NEW failed \in Failures, NEW a, NEW r, r = AccountFact(a, failed)
  PROVE  /\ r.status = Status("passwd", a, DOMAIN accounts, failed)
         /\ r.status \in {"ok", "absent", "unknown"}
         /\ r.status = "ok" =>
              /\ a \in DOMAIN accounts
              /\ r.local <=> (accounts[a].source = "files" /\ FilesAnswer("passwd", a, failed))
              /\ r.uid = accounts[a].uid /\ r.gid = accounts[a].gid
              /\ r.exact = accounts[a].exact /\ r.gids = accounts[a].gids
<1>1. PICK status : status = Status("passwd", a, DOMAIN accounts, failed)
  OBVIOUS
<1>2. status \in {"ok", "absent", "unknown"} /\ (status = "ok" => a \in DOMAIN accounts)
  BY <1>1, StatusIs
<1>3. CASE status # "ok"
  <2>1. r = [status |-> status]
    BY <1>1, <1>3 DEF AccountFact
  <2>2. QED BY <1>1, <1>2, <1>3, <2>1
<1>4. CASE status = "ok"
  <2>1. PICK local : local = (accounts[a].source = "files" /\ FilesAnswer("passwd", a, failed))
    OBVIOUS
  <2>2. r = [status |-> "ok", local |-> local, uid |-> accounts[a].uid, gid |-> accounts[a].gid,
             exact |-> accounts[a].exact, gids |-> accounts[a].gids]
    BY <1>1, <1>4, <2>1 DEF AccountFact
  <2>3. /\ r.status = "ok" /\ r.local = local
        /\ r.uid = accounts[a].uid /\ r.gid = accounts[a].gid
        /\ r.exact = accounts[a].exact /\ r.gids = accounts[a].gids
    BY <2>2
  <2>4. QED BY <1>1, <1>2, <1>4, <2>1, <2>3
<1>5. QED BY <1>3, <1>4

LEMMA GroupFactIs ==
  ASSUME NEW failed \in Failures, NEW g, NEW r, r = GroupFact(g, failed)
  PROVE  /\ r.status = Status("group", g, DOMAIN groups, failed)
         /\ r.status \in {"ok", "absent", "unknown"}
         /\ r.status = "ok" =>
              /\ g \in DOMAIN groups /\ r.gid = groups[g].gid
              /\ r.local <=> (groups[g].local /\ FilesAnswer("group", g, failed))
<1>1. PICK status : status = Status("group", g, DOMAIN groups, failed)
  OBVIOUS
<1>2. status \in {"ok", "absent", "unknown"} /\ (status = "ok" => g \in DOMAIN groups)
  BY <1>1, StatusIs
<1>3. CASE status # "ok"
  <2>1. r = [status |-> status]
    BY <1>1, <1>3 DEF GroupFact
  <2>2. QED BY <1>1, <1>2, <1>3, <2>1
<1>4. CASE status = "ok"
  <2>1. PICK local : local = (groups[g].local /\ FilesAnswer("group", g, failed))
    OBVIOUS
  <2>2. r = [status |-> "ok", local |-> local, gid |-> groups[g].gid]
    BY <1>1, <1>4, <2>1 DEF GroupFact
  <2>3. r.status = "ok" /\ r.local = local /\ r.gid = groups[g].gid
    BY <2>2
  <2>4. QED BY <1>1, <1>2, <1>4, <2>1, <2>3
<1>5. QED BY <1>3, <1>4

(* What holds of the host: the operator and sudo are there, no id is of two. *)
AccountRecord(r) ==
  r = [uid |-> r.uid, gid |-> r.gid, source |-> r.source, exact |-> r.exact, gids |-> r.gids]
HostInv ==
  /\ "operator" \in DOMAIN accounts /\ "sudo" \in DOMAIN groups /\ groups["sudo"].gid = SudoGid
  /\ \A a \in DOMAIN accounts : AccountRecord(accounts[a])
  /\ \A a, b \in DOMAIN accounts : accounts[a].uid = accounts[b].uid => a = b
  /\ \A g, h \in DOMAIN groups : groups[g].gid = groups[h].gid => g = h

FactsInv ==
  fresh => facts # None /\ facts.failed \in Failures /\ facts = Observed(facts.failed)

PlanInv ==
  plan # None =>
    /\ facts # None
    /\ plan.actions # << >> => PlannedFrom(facts, plan)

IdentityInv == HostInv /\ FactsInv /\ PlanInv /\ ManifestOK(manifest)

LEMMA HostStarts == Init => HostInv
<1> SUFFICES ASSUME Init PROVE HostInv
  OBVIOUS
<1>1. PICK g0 : accounts = [a \in {"operator"} |->
         [uid |-> OperatorId, gid |-> OperatorId, source |-> "files", exact |-> FALSE, gids |-> g0]]
  BY DEF Init
<1>2. groups = [g \in {"kvm", "sudo", "lxd"} |->
       [gid |-> CASE g = "kvm" -> KvmGid [] g = "sudo" -> SudoGid [] g = "lxd" -> LxdGid,
        local |-> TRUE]]
  BY DEF Init
<1>3. KvmGid # SudoGid /\ KvmGid # LxdGid /\ SudoGid # LxdGid
  BY IdentityAssumption DEF KvmGid, SudoGid, LxdGid
<1>4. /\ DOMAIN groups = {"kvm", "sudo", "lxd"} /\ groups["kvm"].gid = KvmGid
      /\ groups["sudo"].gid = SudoGid /\ groups["lxd"].gid = LxdGid
  BY <1>2
<1>5. \A a \in DOMAIN accounts : a = "operator" /\ AccountRecord(accounts[a])
  BY <1>1 DEF AccountRecord
<1>6. "operator" \in DOMAIN accounts
  BY <1>1
<1>7. QED BY <1>3, <1>4, <1>5, <1>6 DEF HostInv

LEMMA HostGoesOn == HostInv /\ [Next]_vars => HostInv'
<1> SUFFICES ASSUME HostInv, [Next]_vars PROVE HostInv'
  OBVIOUS
<1>1. CASE UNCHANGED <<accounts, groups>>
  BY <1>1 DEF HostInv
<1>2. ASSUME NEW name, NEW r, AccountRecord(r), UNCHANGED groups,
             name \notin DOMAIN accounts, r.uid \notin Uids,
             accounts' = [a \in DOMAIN accounts \cup {name} |-> IF a = name THEN r ELSE accounts[a]]
      PROVE  HostInv'
  <2>1. \A a \in DOMAIN accounts : accounts[a].uid # r.uid
    BY <1>2 DEF Uids
  <2>2. /\ DOMAIN accounts' = DOMAIN accounts \cup {name} /\ accounts'[name] = r
        /\ \A a \in DOMAIN accounts : accounts'[a] = accounts[a]
    BY <1>2
  <2>3. QED BY <1>2, <2>1, <2>2 DEF HostInv
<1>3. ASSUME NEW name, NEW r, UNCHANGED accounts,
             name \notin DOMAIN groups, r.gid \notin Gids,
             groups' = [g \in DOMAIN groups \cup {name} |-> IF g = name THEN r ELSE groups[g]]
      PROVE  HostInv'
  <2>1. \A g \in DOMAIN groups : groups[g].gid # r.gid
    BY <1>3 DEF Gids
  <2>2. /\ DOMAIN groups' = DOMAIN groups \cup {name} /\ groups'[name] = r
        /\ \A g \in DOMAIN groups : groups'[g] = groups[g]
    BY <1>3
  <2>3. QED BY <1>3, <2>1, <2>2 DEF HostInv
<1>4. ASSUME NEW less, UNCHANGED groups, accounts' = [accounts EXCEPT !["operator"].gids = less]
      PROVE  HostInv'
  <2>1. /\ DOMAIN accounts' = DOMAIN accounts
        /\ \A a \in DOMAIN accounts : a # "operator" => accounts'[a] = accounts[a]
        /\ accounts'["operator"] = [accounts["operator"] EXCEPT !.gids = less]
    BY <1>4 DEF HostInv
  <2>2. AccountRecord(accounts["operator"])
    BY DEF HostInv
  <2>3. /\ AccountRecord(accounts'["operator"])
        /\ accounts'["operator"].uid = accounts["operator"].uid
    BY <2>1, <2>2 DEF AccountRecord
  <2>4. \A a \in DOMAIN accounts : AccountRecord(accounts'[a]) /\ accounts'[a].uid = accounts[a].uid
    BY <2>1, <2>3 DEF HostInv
  <2>5. QED BY <1>4, <2>1, <2>4 DEF HostInv
<1>5. CASE CreateGroup
  <2>1. UNCHANGED accounts
    BY <1>5 DEF CreateGroup
  <2>2. QED BY <1>1, <1>3, <1>5, <2>1 DEF CreateGroup
<1>6. CASE CreateUser
  <2>1. UNCHANGED groups
    BY <1>6 DEF CreateUser
  <2>2. PICK item : item = Head(todo).item
    OBVIOUS
  <2>3. CASE UNCHANGED accounts
    BY <1>1, <2>1, <2>3
  <2>4. CASE item.name \notin DOMAIN accounts /\ item.uid \notin Uids
    <3>1. PICK r : r = [uid |-> item.uid, gid |-> item.gid, source |-> "files", exact |-> TRUE,
                 gids |-> {item.gid} \cup (IF item.name = Worker THEN {KvmGid} ELSE {})]
      OBVIOUS
    <3>2. AccountRecord(r) /\ r.uid = item.uid
      BY <3>1 DEF AccountRecord
    <3>3. accounts' = [a \in DOMAIN accounts \cup {item.name} |-> IF a = item.name THEN r ELSE accounts[a]]
      BY <1>6, <2>2, <2>4, <3>1 DEF CreateUser
    <3>4. QED BY <1>2, <2>1, <2>4, <3>2, <3>3
  <2>5. QED BY <1>6, <2>2, <2>3, <2>4 DEF CreateUser
<1>7. CASE LeaveLxd \/ OthersTakeSudo
  BY <1>4, <1>7 DEF LeaveLxd, OthersTakeSudo
<1>8. ASSUME NEW name, NEW id, NEW source, OthersAddUser(name, id, source) PROVE HostInv'
  <2>1. PICK r : r = [uid |-> id, gid |-> OperatorId, source |-> source,
                      exact |-> FALSE, gids |-> {OperatorId}]
    OBVIOUS
  <2>2. AccountRecord(r) /\ r.uid = id
    BY <2>1 DEF AccountRecord
  <2>3. QED BY <1>2, <1>8, <2>1, <2>2 DEF OthersAddUser
<1>9. ASSUME NEW name, NEW id, OthersAddGroup(name, id) PROVE HostInv'
  BY <1>3, <1>9 DEF OthersAddGroup
<1>10. ASSUME NEW name \in Services, OthersRemove(name) PROVE HostInv'
  <2>1. name # "operator" /\ name # "sudo"
    BY IdentityAssumption
  <2>2. CASE accounts' = [a \in DOMAIN accounts \ {name} |-> accounts[a]] /\ UNCHANGED groups
    BY <2>1, <2>2 DEF HostInv
  <2>3. CASE groups' = [g \in DOMAIN groups \ {name} |-> groups[g]] /\ UNCHANGED accounts
    BY <2>1, <2>3 DEF HostInv
  <2>4. QED BY <1>10, <2>2, <2>3 DEF OthersRemove
<1>11. QED
  <2>1. CASE \/ UNCHANGED vars \/ (\E failed \in Failures : Collect(failed)) \/ BuildIdentityPlan \/ Persist
             \/ Abandon \/ OthersDamageManifest
    BY <1>1, <2>1 DEF vars, host, Collect, BuildIdentityPlan, Persist, Abandon, OthersDamageManifest
  <2>2. QED BY <1>5, <1>6, <1>7, <1>8, <1>9, <1>10, <2>1 DEF Next

(* The facts stay those of the host until the host changes. *)
LEMMA FactsStart == Init => FactsInv /\ PlanInv /\ ManifestOK(manifest)
  BY DEF Init, FactsInv, PlanInv, ManifestOK

LEMMA CollectGivesFacts ==
  ASSUME NEW failed \in Failures, Collect(failed)
  PROVE  (FactsInv /\ PlanInv)'
<1>1. /\ facts' = Observed(failed) /\ plan' = None /\ UNCHANGED <<accounts, groups>>
  BY DEF Collect, host
<1>2. PICK f : f = facts'
  OBVIOUS
<1>3. f.failed = failed /\ f.kind = "facts"
  BY <1>1, <1>2 DEF Observed
<1>4. f # None
  BY <1>3 DEF None
<1>5. Observed(facts.failed)' = Observed(failed)
  BY <1>1, <1>2, <1>3 DEF Observed, AccountFact, GroupFact, DatabaseIds, Gids, Listed
<1>6. FactsInv'
  BY <1>1, <1>2, <1>3, <1>4, <1>5 DEF FactsInv
<1>7. QED BY <1>1, <1>6 DEF PlanInv

LEMMA FactsStay ==
  ASSUME FactsInv, UNCHANGED facts,
         UNCHANGED <<accounts, groups, fresh>> \/ fresh' = FALSE
  PROVE  FactsInv'
<1>1. CASE fresh' = FALSE
  BY <1>1 DEF FactsInv
<1>2. CASE UNCHANGED <<accounts, groups, fresh>>
  <2>1. Observed(facts.failed)' = Observed(facts.failed)
    BY <1>2 DEF Observed, AccountFact, GroupFact, DatabaseIds, Gids, Listed
  <2>2. QED BY <1>2, <2>1 DEF FactsInv
<1>3. QED BY <1>1, <1>2

(* A plan is made from facts and an earlier plan's manifest. *)
LEMMA BuildPlans ==
  ASSUME BuildIdentityPlan, ManifestOK(manifest)
  PROVE  PlanInv'
<1>1. PICK p : p = plan'
  OBVIOUS
<1>2. PICK m : m = manifest
  OBVIOUS
<1>3. p = [kind |-> "plan", supplied |-> m, issues |-> Issues(m), allocations |-> Allocations(m),
           actions |-> IF Issues(m) = {} THEN Actions(Allocations(m)) ELSE << >>,
           exit |-> ExitCode(Issues(m))]
  BY <1>1, <1>2 DEF BuildIdentityPlan
<1>4. p.actions # << >> => Issues(p.supplied) = {}
  BY <1>3
<1>5. p.allocations = Allocations(p.supplied) /\ ManifestOK(p.supplied)
  BY <1>2, <1>3
<1>6. p.actions # << >> => PlannedFrom(facts, p)
  BY <1>4, <1>5, PlansFromFacts
<1>7. facts' = facts /\ facts # None
  BY DEF BuildIdentityPlan
<1>8. PlannedFrom(facts, plan)' <=> PlannedFrom(facts', plan')
  OBVIOUS
<1>9. QED BY <1>1, <1>6, <1>7, <1>8 DEF PlanInv

(* The manifest is an actionable plan's, or one that has been damaged since. *)
LEMMA ManifestStays ==
  ASSUME ManifestOK(manifest), PlanInv, Persist \/ OthersDamageManifest
  PROVE  ManifestOK(manifest')
<1>1. CASE Persist
  <2>1. manifest' = [kind |-> "manifest", mapping |-> plan.allocations]
    BY <1>1 DEF Persist
  <2>2. plan.allocations \in Seq(Item)
    BY <1>1 DEF Persist, PlanInv, PlannedFrom
  <2>3. QED BY <2>1, <2>2 DEF ManifestOK
<1>2. CASE OthersDamageManifest
  <2>1. PICK m : m = manifest.mapping
    OBVIOUS
  <2>2. m \in Seq(Item) /\ m # << >> /\ manifest = [kind |-> "manifest", mapping |-> m]
    BY <1>2, <2>1 DEF OthersDamageManifest, ManifestOK
  <2>3. CASE manifest' = [manifest EXCEPT !.mapping = Tail(@)]
    <3>1. manifest' = [kind |-> "manifest", mapping |-> Tail(m)]
      BY <2>2, <2>3
    <3>2. Tail(m) \in Seq(Item)
      BY <2>2
    <3>3. QED BY <3>1, <3>2 DEF ManifestOK
  <2>4. CASE manifest' = [manifest EXCEPT !.mapping[1].uid = manifest.mapping[Len(manifest.mapping)].uid]
    <3>1. PICK id : id = m[Len(m)].uid
      OBVIOUS
    <3>2. manifest' = [manifest EXCEPT !.mapping[1].uid = id]
      BY <2>1, <2>4, <3>1
    <3>3. manifest' = [kind |-> "manifest", mapping |-> [m EXCEPT ![1].uid = id]]
      BY <2>2, <3>2
    <3>4. Len(m) \in DOMAIN m /\ 1 \in DOMAIN m
      BY <2>2
    <3>11. m[Len(m)] \in Item /\ m[1] \in Item
      BY <2>2, <3>4
    <3>5. id \in Band /\ m[1] \in Item
      BY <3>1, <3>11 DEF Item
    <3>6. PICK r : r = [m[1] EXCEPT !.uid = id]
      OBVIOUS
    <3>7. r \in Item
      BY <3>5, <3>6 DEF Item
    <3>8. [m EXCEPT ![1].uid = id] = [m EXCEPT ![1] = r]
      BY <3>6
    <3>9. [m EXCEPT ![1] = r] \in Seq(Item)
      BY <2>2, <3>4, <3>7
    <3>10. QED BY <3>3, <3>8, <3>9 DEF ManifestOK
  <2>5. QED BY <1>2, <2>3, <2>4 DEF OthersDamageManifest
<1>3. QED BY <1>1, <1>2

LEMMA IdentityGoesOn == IdentityInv /\ [Next]_vars => IdentityInv'
<1> SUFFICES ASSUME IdentityInv, [Next]_vars PROVE IdentityInv'
  OBVIOUS
<1>1. HostInv' /\ HostInv /\ FactsInv /\ PlanInv /\ ManifestOK(manifest)
  BY HostGoesOn DEF IdentityInv
<1>2. UNCHANGED <<facts, plan>> => PlanInv'
  <2> SUFFICES ASSUME UNCHANGED <<facts, plan>> PROVE PlanInv'
    OBVIOUS
  <2>1. PlannedFrom(facts, plan)' <=> PlannedFrom(facts, plan)
    OBVIOUS
  <2>2. QED BY <1>1, <2>1 DEF PlanInv
<1>3. ManifestOK(manifest)' <=> ManifestOK(manifest')
  OBVIOUS
<1>4. ASSUME NEW failed \in Failures, Collect(failed) PROVE IdentityInv'
  <2>1. manifest' = manifest
    BY <1>4 DEF Collect
  <2>2. QED BY <1>1, <1>3, <1>4, <2>1, CollectGivesFacts DEF IdentityInv
<1>5. CASE UNCHANGED vars \/ Abandon
  <2>1. UNCHANGED <<accounts, groups, manifest, facts, plan, fresh>>
    BY <1>5 DEF Abandon, vars, host
  <2>2. QED BY <1>1, <1>2, <1>3, <2>1, FactsStay DEF IdentityInv
<1>6. CASE BuildIdentityPlan
  <2>1. UNCHANGED <<accounts, groups, manifest, facts, fresh>>
    BY <1>6 DEF BuildIdentityPlan, host
  <2>2. QED BY <1>1, <1>3, <1>6, <2>1, FactsStay, BuildPlans DEF IdentityInv
<1>7. CASE Persist
  <2>1. UNCHANGED <<accounts, groups, facts, plan, fresh>>
    BY <1>7 DEF Persist, host
  <2>2. QED BY <1>1, <1>2, <1>3, <1>7, <2>1, FactsStay, ManifestStays DEF IdentityInv
<1>8. CASE OthersDamageManifest
  <2>1. UNCHANGED <<facts, plan>> /\ fresh' = FALSE
    BY <1>8 DEF OthersDamageManifest, Changed
  <2>2. QED BY <1>1, <1>2, <1>3, <1>8, <2>1, FactsStay, ManifestStays DEF IdentityInv
<1>9. CASE UNCHANGED <<facts, plan, manifest>> /\ fresh' = FALSE
  BY <1>1, <1>2, <1>3, <1>9, FactsStay DEF IdentityInv
<1>10. ASSUME \/ CreateGroup \/ CreateUser \/ LeaveLxd \/ OthersTakeSudo
              \/ \E name, id, source : OthersAddUser(name, id, source) \/ OthersAddGroup(name, id)
              \/ \E name : OthersRemove(name)
       PROVE  UNCHANGED <<facts, plan, manifest>> /\ fresh' = FALSE
  BY <1>10 DEF CreateGroup, CreateUser, LeaveLxd, OthersTakeSudo, OthersAddUser, OthersAddGroup,
     OthersRemove, Done, Changed
<1>11. QED
  BY <1>4, <1>5, <1>6, <1>7, <1>8, <1>9, <1>10 DEF Next

(* The invariant is also doctor's and install's, which never touch it. *)
THEOREM IdentityInvariance == DryRunSpec => []IdentityInv
<1>1. DryRunInit => IdentityInv
  BY HostStarts, FactsStart DEF DryRunInit, IdentityInv
<1>2. IdentityInv /\ [DryRunNext]_dryRunVars => IdentityInv'
  <2>1. [DryRunNext]_dryRunVars => [Next]_vars
    BY DEF DryRunNext, dryRunVars
  <2>2. QED BY <2>1, IdentityGoesOn
<1>3. QED BY <1>1, <1>2, PTL DEF DryRunSpec

LEMMA SafeIds ==
  ASSUME IdentityInv, Actionable, fresh, NEW i \in DOMAIN plan.allocations
  PROVE  LET item == plan.allocations[i] IN
         /\ {item.uid, item.gid} \subseteq Band \ Excluded
         /\ \A a \in Listed : accounts[a].uid = item.uid => a = item.name
         /\ \A g \in DOMAIN groups : groups[g].gid = item.gid => g = item.name
         /\ \A j \in DOMAIN plan.allocations \ {i} :
              plan.allocations[j].uid # item.uid /\ plan.allocations[j].gid # item.gid
<1>1. PICK f, p : f = facts /\ p = plan
  OBVIOUS
<1>2. PlannedFrom(f, p) /\ f = Observed(f.failed) /\ f.failed \in Failures /\ i \in DOMAIN p.allocations
  BY <1>1 DEF IdentityInv, FactsInv, PlanInv, Actionable
<1>3. PICK item : item = p.allocations[i]
  OBVIOUS
<1>4. item \in Item
  BY <1>2, <1>3 DEF PlannedFrom
<1>5. PICK s : s = item.name
  OBVIOUS
<1>6. s \in Services
  BY <1>4, <1>5 DEF Item
<1>7. /\ item.uid \in Band \ Excluded /\ item.gid \in Band \ Excluded
      /\ \A j \in DOMAIN p.allocations \ {i} :
           p.allocations[j].uid # item.uid /\ p.allocations[j].gid # item.gid
      /\ item.uid \in f.uids => p.supplied # None /\ f.accounts[s].status # "absent"
      /\ item.gid \in f.gids => p.supplied # None /\ f.groups[s].status # "absent"
  BY <1>2, <1>3, <1>5 DEF PlannedFrom, IdsAllocated
<1>8. f.uids = {accounts[a].uid : a \in Listed} /\ f.gids = {groups[g].gid : g \in DOMAIN groups}
  <2>1. \A database \in Databases : Readable(database, f.failed)
    BY <1>2 DEF Observed, PlannedFrom, OperatorFound
  <2>2. /\ DatabaseIds("passwd", f.failed) = {accounts[a].uid : a \in Listed}
        /\ DatabaseIds("group", f.failed) = {groups[g].gid : g \in DOMAIN groups}
    BY <2>1 DEF DatabaseIds, Databases, Gids
  <2>3. f.uids = DatabaseIds("passwd", f.failed) /\ f.gids = DatabaseIds("group", f.failed)
    BY <1>2 DEF Observed
  <2>4. QED BY <2>2, <2>3
<1>9. f.accounts[s] = AccountFact(s, f.failed) /\ f.groups[s] = GroupFact(s, f.failed)
  BY <1>2, <1>6 DEF Observed, AccountNames, GroupNames
<1>10. ASSUME p.supplied # None, f.accounts[s].status = "ok" \/ f.groups[s].status = "ok"
       PROVE  /\ s \in DOMAIN accounts /\ accounts[s].uid = item.uid
              /\ s \in DOMAIN groups /\ groups[s].gid = item.gid
  <2>1. PICK k \in DOMAIN Given(p) : Given(p)[k].name = s /\ Own(f, s, Given(p)[k])
    BY <1>2, <1>6, <1>10 DEF PlannedFrom, ServicesFound
  <2>2. Given(p) = p.allocations /\ ValidMapping(p.allocations) /\ p.allocations \in Seq(Item)
    BY <1>2, <1>10 DEF PlannedFrom, Given
  <2>3. k = i
    BY <1>2, <1>3, <1>5, <2>1, <2>2, MappedOnce
  <2>4. Own(f, s, item)
    BY <1>3, <2>1, <2>2, <2>3
  <2>5. QED BY <1>2, <1>9, <2>4, AccountFactIs, GroupFactIs DEF Own
<1>11. f.accounts[s].status # "unknown" /\ f.groups[s].status # "unknown"
  BY <1>2, <1>6 DEF PlannedFrom, ServicesFound
<1>12. f.accounts[s].status \in {"unknown", "absent", "ok"} /\ f.groups[s].status \in {"unknown", "absent", "ok"}
  BY <1>2, <1>9, AccountFactIs, GroupFactIs
<1>13. ASSUME NEW a \in Listed, accounts[a].uid = item.uid PROVE a = item.name
  <2>1. s \in DOMAIN accounts /\ accounts[s].uid = item.uid
    BY <1>7, <1>8, <1>10, <1>11, <1>12, <1>13
  <2>2. QED BY <1>5, <1>13, <2>1 DEF IdentityInv, HostInv, Listed
<1>14. ASSUME NEW g \in DOMAIN groups, groups[g].gid = item.gid PROVE g = item.name
  <2>1. s \in DOMAIN groups /\ groups[s].gid = item.gid
    BY <1>7, <1>8, <1>10, <1>11, <1>12, <1>14
  <2>2. QED BY <1>5, <1>14, <2>1 DEF IdentityInv, HostInv
<1>15. QED BY <1>1, <1>3, <1>7, <1>13, <1>14

LEMMA SafeAdoption ==
  ASSUME IdentityInv, Actionable, fresh, NEW s \in Services
  PROVE  IF Found(s) THEN Adoptable(s) ELSE LeftAlone(s)
<1>1. PICK f, p : f = facts /\ p = plan
  OBVIOUS
<1>2. PlannedFrom(f, p) /\ f = Observed(f.failed) /\ f.failed \in Failures
  BY <1>1 DEF IdentityInv, FactsInv, PlanInv, Actionable
<1>3. f.accounts[s] = AccountFact(s, f.failed) /\ f.groups[s] = GroupFact(s, f.failed)
  BY <1>2 DEF Observed, AccountNames, GroupNames
<1>4. ASSUME Found(s) PROVE Adoptable(s)
  <2>1. f.accounts[s].status = "ok" \/ f.groups[s].status = "ok"
    BY <1>1, <1>4 DEF Found
  <2>2. PICK k \in DOMAIN Given(p) : Given(p)[k].name = s /\ Own(f, s, Given(p)[k])
    BY <1>2, <2>1 DEF PlannedFrom, ServicesFound
  <2>3. p.supplied # None
    BY <2>2 DEF Given
  <2>4. Given(p) = p.supplied.mapping /\ Given(p) = p.allocations /\ Given(p) \in Seq(Item)
    BY <1>2, <2>3 DEF PlannedFrom, Given
  <2>5. PICK item : item = Given(p)[k]
    OBVIOUS
  <2>6. item \in Item /\ item.name = s /\ Own(f, s, item)
    BY <2>2, <2>4, <2>5
  <2>7. /\ s \in DOMAIN accounts /\ s \in DOMAIN groups
        /\ accounts[s].uid = item.uid /\ groups[s].gid = item.gid
        /\ accounts[s].source = "files" /\ groups[s].local /\ accounts[s].exact
    BY <1>2, <1>3, <2>6, AccountFactIs, GroupFactIs DEF Own
  <2>8. item = [name |-> item.name, uid |-> item.uid, gid |-> item.gid]
    BY <2>6 DEF Item
  <2>9. item = [name |-> s, uid |-> accounts[s].uid, gid |-> groups[s].gid]
    BY <2>6, <2>7, <2>8
  <2>10. QED BY <1>1, <2>2, <2>3, <2>4, <2>5, <2>7, <2>9 DEF Adoptable
<1>5. ASSUME ~Found(s), NEW i \in DOMAIN plan.allocations
      PROVE  /\ s \in Listed => plan.allocations[i].uid # accounts[s].uid
             /\ s \in DOMAIN groups => plan.allocations[i].gid # groups[s].gid
  <2>1. f.accounts[s].status = "absent" /\ f.groups[s].status = "absent"
    BY <1>1, <1>2, <1>3, <1>5, AccountFactIs, GroupFactIs DEF Found, PlannedFrom, ServicesFound
  <2>2. PICK item : item = p.allocations[i]
    OBVIOUS
  <2>3. /\ item.uid \in f.uids => f.accounts[item.name].status # "absent"
        /\ item.gid \in f.gids => f.groups[item.name].status # "absent"
    BY <1>1, <1>2, <1>5, <2>2 DEF PlannedFrom, IdsAllocated
  <2>4. \A database \in Databases : Readable(database, f.failed)
    BY <1>2 DEF Observed, PlannedFrom, OperatorFound
  <2>5. /\ f.uids = {accounts[a].uid : a \in Listed}
        /\ f.gids = {groups[g].gid : g \in DOMAIN groups}
    BY <1>2, <2>4 DEF Observed, DatabaseIds, Databases, Gids
  <2>6. ASSUME s \in Listed, item.uid = accounts[s].uid PROVE FALSE
    <3>1. s = item.name
      BY <1>1, <1>5, <2>2, <2>6, SafeIds
    <3>2. QED BY <2>1, <2>3, <2>5, <2>6, <3>1
  <2>7. ASSUME s \in DOMAIN groups, item.gid = groups[s].gid PROVE FALSE
    <3>1. s = item.name
      BY <1>1, <1>5, <2>2, <2>7, SafeIds
    <3>2. QED BY <2>1, <2>3, <2>5, <2>7, <3>1
  <2>8. QED BY <1>1, <2>2, <2>6, <2>7
<1>6. QED BY <1>4, <1>5 DEF LeftAlone

(* Which failed lookups an actionable plan survives. *)
LEMMA SafeDoubt ==
  ASSUME IdentityInv, Actionable, fresh, NEW lookup \in DOMAIN facts.failed
  PROVE  Overlooked(lookup)
<1>1. PICK f, failed : f = facts /\ failed = f.failed
  OBVIOUS
<1>2. /\ OperatorFound(f) /\ ServicesFound(f, Given(plan)) /\ f = Observed(failed)
      /\ failed \in Failures
  BY <1>1 DEF IdentityInv, FactsInv, PlanInv, Actionable, PlannedFrom
<1>3. /\ lookup \in DOMAIN failed /\ lookup \in Lookups /\ How(lookup, failed) \in {"silent", "loud"}
      /\ How(lookup, failed) = failed[lookup]
  BY <1>1, <1>2, HowIs
<1>4. /\ \A a \in AccountNames : f.accounts[a] = AccountFact(a, failed)
      /\ \A g \in GroupNames : f.groups[g] = GroupFact(g, failed)
      /\ \A database \in Databases : Readable(database, failed)
  BY <1>2 DEF Observed, OperatorFound
<1>5. \A database \in Databases : lookup # <<"all", database, "*">>
  BY <1>3, <1>4 DEF Readable
<1>6. ASSUME NEW a \in AccountNames, NEW call \in {"any", "files", "id"},
             lookup = <<call, "passwd", a>>, f.accounts[a].status = "ok"
      PROVE  ~f.accounts[a].local
  <2>1. f.accounts[a] = AccountFact(a, failed)
    BY <1>4, <1>6
  <2>2. Status("passwd", a, DOMAIN accounts, failed) = "ok"
    BY <1>2, <1>6, <2>1, AccountFactIs
  <2>3. call = "files"
    BY <1>2, <1>3, <1>6, <2>2, StatusIs
  <2>4. ~FilesAnswer("passwd", a, failed)
    BY <1>3, <1>6, <2>3 DEF FilesAnswer
  <2>5. QED BY <1>2, <1>6, <2>1, <2>4, AccountFactIs
<1>7. ASSUME NEW g \in GroupNames, NEW call \in {"any", "files"},
             lookup = <<call, "group", g>>, f.groups[g].status = "ok"
      PROVE  ~f.groups[g].local /\ call = "files" /\ How(lookup, failed) = "silent"
  <2>1. f.groups[g] = GroupFact(g, failed)
    BY <1>4, <1>7
  <2>2. Status("group", g, DOMAIN groups, failed) = "ok"
    BY <1>2, <1>7, <2>1, GroupFactIs
  <2>3. call = "files" /\ How(lookup, failed) = "silent"
    BY <1>2, <1>3, <1>7, <2>2, StatusIs
  <2>4. ~FilesAnswer("group", g, failed)
    BY <1>3, <1>7, <2>3 DEF FilesAnswer
  <2>5. QED BY <1>2, <1>7, <2>1, <2>3, <2>4, GroupFactIs
<1>8. ASSUME NEW s \in Services
      PROVE  /\ {f.accounts[s].status, f.groups[s].status} \subseteq {"ok", "absent"}
             /\ f.accounts[s].status = "ok" => f.accounts[s].local
             /\ f.groups[s].status = "ok" => f.groups[s].local
  <2>1. f.accounts[s] = AccountFact(s, failed) /\ f.groups[s] = GroupFact(s, failed)
    BY <1>4 DEF AccountNames, GroupNames
  <2>2. /\ f.accounts[s].status \in {"ok", "absent", "unknown"}
        /\ f.groups[s].status \in {"ok", "absent", "unknown"}
    BY <1>2, <2>1, AccountFactIs, GroupFactIs
  <2>3. QED BY <1>2, <2>2 DEF ServicesFound, Own
<1>9. ASSUME NEW a \in AccountNames, NEW call \in {"any", "files", "id"}, lookup = <<call, "passwd", a>>
      PROVE  Overlooked(lookup)
  <2>1. a # "operator"
    BY <1>2, <1>6, <1>9 DEF OperatorFound
  <2>2. a \in Services /\ f.accounts[a].status = "absent"
    BY <1>6, <1>8, <1>9, <2>1 DEF AccountNames
  <2>3. Status("passwd", a, DOMAIN accounts, failed) = "absent"
    BY <1>2, <1>4, <1>9, <2>2, AccountFactIs
  <2>4. QED BY <1>1, <1>2, <1>9, <2>2, <2>3, StatusIs DEF Overlooked
<1>10. ASSUME NEW g \in GroupNames, NEW call \in {"any", "files"}, lookup = <<call, "group", g>>
       PROVE  Overlooked(lookup)
  <2>1. CASE g = "lxd"
    BY <1>10, <2>1 DEF Overlooked
  <2>2. CASE g = "kvm"
    BY <1>2, <1>7, <1>10, <2>2 DEF OperatorFound
  <2>3. CASE g = "sudo"
    <3>1. call = "files" /\ failed[lookup] = "silent"
      BY <1>2, <1>3, <1>7, <1>10, <2>3 DEF OperatorFound
    <3>2. QED BY <1>1, <1>10, <2>3, <3>1 DEF Overlooked
  <2>4. CASE g \in Services
    <3>1. f.groups[g].status = "absent"
      BY <1>7, <1>8, <1>10, <2>4
    <3>2. Status("group", g, DOMAIN groups, failed) = "absent"
      BY <1>2, <1>4, <1>10, <3>1, GroupFactIs
    <3>3. QED BY <1>1, <1>2, <1>10, <2>4, <3>2, StatusIs DEF Overlooked
  <2>5. QED BY <2>1, <2>2, <2>3, <2>4 DEF GroupNames
<1>11. QED
  <2>1. CASE lookup \in {"any", "files", "id"} \X {"passwd"} \X AccountNames
    BY <1>9, <2>1
  <2>2. CASE lookup \in {"any", "files"} \X {"group"} \X GroupNames
    BY <1>10, <2>2
  <2>3. CASE lookup \in {"all"} \X Databases \X {"*"}
    BY <1>5, <2>3
  <2>4. QED BY <1>3, <2>1, <2>2, <2>3 DEF Lookups

(* A plan that can be carried out is safe to carry out, whatever others have done to
   the host before the collection and to the manifest, and whatever lookups failed. *)
THEOREM PlansAreSafe == DryRunSpec => []PlanIsSafe
<1>1. IdentityInv => PlanIsSafe
  <2> SUFFICES ASSUME IdentityInv PROVE PlanIsSafe
    OBVIOUS
  <2>1. IdsAreFree
    BY SafeIds DEF IdsAreFree
  <2>2. AdoptsOnlyItsOwn
    BY SafeAdoption DEF AdoptsOnlyItsOwn
  <2>3. Actionable => PlannedFrom(facts, plan)
    BY DEF IdentityInv, PlanInv, Actionable
  <2>4. NeverReallocates
    BY <2>3 DEF NeverReallocates, PlannedFrom
  <2>5. OperatorKeepsSudo
    <3> SUFFICES ASSUME Actionable, fresh PROVE SudoGid \in accounts["operator"].gids
      BY DEF OperatorKeepsSudo
    <3>1. PICK f : f = facts
      OBVIOUS
    <3>2. f = Observed(f.failed) /\ OperatorFound(f)
      BY <2>3, <3>1 DEF IdentityInv, FactsInv, PlannedFrom
    <3>3. /\ f.accounts["operator"] = AccountFact("operator", f.failed)
          /\ f.groups["sudo"] = GroupFact("sudo", f.failed)
      BY <3>2 DEF Observed, AccountNames, GroupNames
    <3>4. f.accounts["operator"].gids = accounts["operator"].gids
      BY <3>2, <3>3 DEF OperatorFound, AccountFact
    <3>5. f.groups["sudo"].gid = groups["sudo"].gid
      BY <3>2, <3>3 DEF OperatorFound, GroupFact
    <3>6. QED BY <3>2, <3>4, <3>5 DEF OperatorFound, IdentityInv, HostInv
  <2>6. DoubtSuppresses
    BY SafeDoubt DEF DoubtSuppresses
  <2>7. QED BY <2>1, <2>2, <2>4, <2>5, <2>6 DEF PlanIsSafe
<1>2. QED BY <1>1, IdentityInvariance, PTL

-----------------------------------------------------------------------------
(* Carrying a plan out, with nobody else about                                *)

Verified == eligible /\ \A g \in Gates : gates[g] = "verified"

(* The steps of a plan: a group for each entry, all before anything else. *)
Step == [what : {"group", "user"}, item : Item] \cup {[what |-> "leave-lxd"]}
GroupsFirst(steps) ==
  \A j, k \in DOMAIN steps : j < k /\ steps[k].what = "group" => steps[j].what = "group"
Among(step, mapping) ==
  step.what # "leave-lxd" => \E i \in DOMAIN mapping : step.item = mapping[i]
Remaining(steps, mapping, made) ==
  /\ steps \in Seq(Step) /\ GroupsFirst(steps)
  /\ \A j \in DOMAIN steps : Among(steps[j], mapping)
  /\ \A i \in DOMAIN mapping :
       \/ mapping[i].name \in made
       \/ \E j \in DOMAIN steps : steps[j].what = "group" /\ steps[j].item = mapping[i]

Join(a, b) == a \o b

LEMMA Joined ==
  ASSUME NEW a \in Seq(Step), NEW b \in Seq(Step), NEW n \in Nat, NEW l \in Nat, Len(a) = n, Len(b) = l,
         NEW d, d = Join(a, b)
  PROVE  /\ d \in Seq(Step) /\ Len(d) = n + l
         /\ \A i \in 1..n : d[i] = a[i]
         /\ \A i \in 1..(n + l) : i > n => d[i] = b[i - n]
  BY DEF Join

LEMMA ActionsAre ==
  ASSUME NEW mapping \in Seq(Item), NEW made
  PROVE  Remaining(Actions(mapping), mapping, made)
<1> DEFINE make(what) == [i \in DOMAIN mapping |-> [what |-> what, item |-> mapping[i]]]
           leave == IF /\ facts.groups["lxd"].status = "ok"
                       /\ facts.groups["lxd"].gid \in facts.accounts["operator"].gids
                    THEN << [what |-> "leave-lxd"] >> ELSE << >>
<1>1. Actions(mapping) = make("group") \o leave \o make("user")
  BY DEF Actions
<1>2. PICK n \in Nat : n = Len(mapping) /\ DOMAIN mapping = 1..n
  OBVIOUS
<1>3. \A i \in 1..n : mapping[i] \in Item
  BY <1>2
<1>4. PICK a : a = make("group")
  OBVIOUS
<1>5. PICK b : b = leave
  OBVIOUS
<1>6. PICK c : c = make("user")
  OBVIOUS
<1>7. a \in Seq(Step) /\ Len(a) = n /\ \A i \in 1..n : a[i] = [what |-> "group", item |-> mapping[i]]
  <2>1. \A i \in 1..n : [what |-> "group", item |-> mapping[i]] \in Step
    BY <1>3 DEF Step
  <2>2. a = [i \in 1..n |-> [what |-> "group", item |-> mapping[i]]]
    BY <1>2, <1>4
  <2>3. QED BY <1>2, <2>1, <2>2
<1>8. c \in Seq(Step) /\ Len(c) = n /\ \A i \in 1..n : c[i] = [what |-> "user", item |-> mapping[i]]
  <2>1. \A i \in 1..n : [what |-> "user", item |-> mapping[i]] \in Step
    BY <1>3 DEF Step
  <2>2. c = [i \in 1..n |-> [what |-> "user", item |-> mapping[i]]]
    BY <1>2, <1>6
  <2>3. QED BY <1>2, <2>1, <2>2
<1>9. b \in Seq(Step) /\ \A i \in 1..Len(b) : b[i] = [what |-> "leave-lxd"]
  <2>1. [what |-> "leave-lxd"] \in Step
    BY DEF Step
  <2>2. CASE b = << >>
    BY <2>2
  <2>3. CASE b = << [what |-> "leave-lxd"] >>
    BY <2>1, <2>3
  <2>4. QED BY <1>5, <2>2, <2>3
<1> HIDE DEF make, leave
<1>10. PICK d : d = Join(a, b)
  OBVIOUS
<1>14. PICK l \in Nat : l = Len(b)
  BY <1>9
<1>11. /\ d \in Seq(Step) /\ Len(d) = n + l
       /\ \A i \in 1..n : d[i] = a[i]
       /\ \A i \in 1..(n + l) : i > n => d[i] = b[i - n]
  <2>1. a \in Seq(Step)
    BY <1>7
  <2>2. b \in Seq(Step)
    BY <1>9
  <2>3. n \in Nat
    BY <1>2
  <2>4. l \in Nat
    BY <1>14
  <2>5. Len(a) = n
    BY <1>7
  <2>6. Len(b) = l
    BY <1>14
  <2>7. QED BY ONLY <2>1, <2>2, <2>3, <2>4, <2>5, <2>6, <1>10, Joined
<1>12. PICK steps : steps = Join(d, c)
  OBVIOUS
<1>13. /\ steps \in Seq(Step) /\ Len(steps) = n + l + n
       /\ \A i \in 1..(n + l) : steps[i] = d[i]
       /\ \A i \in 1..(n + l + n) : i > n + l => steps[i] = c[i - (n + l)]
  <2>1. d \in Seq(Step)
    BY <1>11
  <2>2. c \in Seq(Step)
    BY <1>8
  <2>3. n \in Nat
    BY <1>2
  <2>4. PICK m \in Nat : m = n + l
    BY <1>2, <1>14
  <2>5. Len(d) = m
    BY <1>11, <2>4
  <2>6. Len(c) = n
    BY <1>8
  <2>7. /\ steps \in Seq(Step) /\ Len(steps) = m + n
        /\ \A i \in 1..m : steps[i] = d[i]
        /\ \A i \in 1..(m + n) : i > m => steps[i] = c[i - m]
    BY ONLY <2>1, <2>2, <2>3, m \in Nat, <2>5, <2>6, <1>12, Joined
  <2>8. QED BY <2>4, <2>7
<1>15. ASSUME NEW i \in 1..Len(steps)
       PROVE  \/ i <= n /\ steps[i] = [what |-> "group", item |-> mapping[i]]
              \/ i > n /\ steps[i] = [what |-> "leave-lxd"]
              \/ i > n /\ \E k \in 1..n : steps[i] = [what |-> "user", item |-> mapping[k]]
  <2>0. i \in 1..(n + l + n)
    BY <1>13
  <2>1. CASE i <= n
    <3>1. i \in 1..n /\ i \in 1..(n + l)
      BY <1>2, <2>0, <2>1
    <3>2. steps[i] = a[i]
      BY <1>11, <1>13, <3>1
    <3>3. QED BY <1>7, <2>1, <3>1, <3>2
  <2>2. CASE i > n /\ i <= n + l
    <3>1. i \in 1..(n + l) /\ i - n \in 1..l
      BY <1>2, <2>0, <2>2
    <3>2. steps[i] = b[i - n]
      BY <1>11, <1>13, <2>2, <3>1
    <3>3. QED BY <1>9, <1>14, <2>2, <3>1, <3>2
  <2>3. CASE i > n + l
    <3>1. i - (n + l) \in 1..n /\ i > n
      BY <1>2, <2>0, <2>3
    <3>2. steps[i] = c[i - (n + l)]
      BY <1>13, <2>0, <2>3
    <3>3. QED BY <1>8, <3>1, <3>2
  <2>4. QED BY <1>2, <2>0, <2>1, <2>2, <2>3
<1>16. GroupsFirst(steps)
  <2> SUFFICES ASSUME NEW j \in DOMAIN steps, NEW k \in DOMAIN steps, j < k, steps[k].what = "group"
               PROVE  steps[j].what = "group"
    BY DEF GroupsFirst
  <2>1. DOMAIN steps = 1..Len(steps)
    BY <1>13
  <2>2. k <= n
    BY <1>15, <2>1
  <2>3. j <= n /\ ~(j > n)
    BY <1>2, <2>1, <2>2
  <2>4. QED BY <1>15, <2>1, <2>3
<1>17. ASSUME NEW j \in DOMAIN steps PROVE Among(steps[j], mapping)
  BY <1>2, <1>13, <1>15 DEF Among
<1>18. ASSUME NEW i \in DOMAIN mapping
       PROVE  \E j \in DOMAIN steps : steps[j].what = "group" /\ steps[j].item = mapping[i]
  <2>1. i \in DOMAIN steps /\ i <= n
    BY <1>2, <1>11, <1>13, <1>14
  <2>2. steps[i] = [what |-> "group", item |-> mapping[i]]
    BY <1>2, <1>13, <1>15, <2>1
  <2>3. QED BY <2>1, <2>2
<1>19. steps = Actions(mapping)
  BY <1>1, <1>4, <1>5, <1>6, <1>10, <1>12 DEF Join
<1>20. QED BY <1>13, <1>16, <1>17, <1>18, <1>19 DEF Remaining

(* One step less: what the first step was of is no longer to be made. *)
LEMMA StepIsDone ==
  ASSUME NEW steps, NEW mapping, NEW made, Remaining(steps, mapping, made), steps # << >>
  PROVE  /\ Among(Head(steps), mapping)
         /\ Remaining(Tail(steps), mapping,
                      made \cup (IF Head(steps).what = "group" THEN {Head(steps).item.name} ELSE {}))
         /\ Head(steps).what # "group" => \A i \in DOMAIN mapping : mapping[i].name \in made
<1>1. steps \in Seq(Step) /\ GroupsFirst(steps)
  BY DEF Remaining
<1>2. PICK rest : rest = Tail(steps)
  OBVIOUS
<1>3. PICK n \in Nat : Len(steps) = n + 1
  <2>1. Len(steps) \in Nat /\ Len(steps) # 0
    BY <1>1
  <2>2. Len(steps) - 1 \in Nat /\ Len(steps) = (Len(steps) - 1) + 1
    BY <2>1
  <2>3. QED BY <2>2
<1>4. /\ rest \in Seq(Step) /\ DOMAIN rest = 1..n /\ \A j \in 1..n : rest[j] = steps[j + 1]
      /\ DOMAIN steps = 1..(n + 1) /\ Head(steps) = steps[1]
  BY <1>1, <1>2, <1>3
<1>5. /\ \A j \in 1..n : j + 1 \in 1..(n + 1)
      /\ \A j \in 1..(n + 1) : j = 1 \/ (j - 1 \in 1..n /\ (j - 1) + 1 = j)
      /\ \A j, k \in 1..n : j < k => j + 1 < k + 1
      /\ 1 \in 1..(n + 1) /\ \A j \in 1..n : 1 < j + 1
  OBVIOUS
<1>6. GroupsFirst(rest)
  <2> SUFFICES ASSUME NEW j \in 1..n, NEW k \in 1..n, j < k, rest[k].what = "group"
               PROVE  rest[j].what = "group"
    BY <1>4 DEF GroupsFirst
  <2>1. /\ j + 1 \in DOMAIN steps /\ k + 1 \in DOMAIN steps /\ j + 1 < k + 1
        /\ rest[j] = steps[j + 1] /\ rest[k] = steps[k + 1]
    BY <1>4, <1>5
  <2>2. QED BY <1>1, <2>1 DEF GroupsFirst
<1>7. /\ \A j \in DOMAIN rest : Among(rest[j], mapping)
      /\ Among(Head(steps), mapping)
  BY <1>4, <1>5 DEF Remaining
<1>8. ASSUME NEW i \in DOMAIN mapping, mapping[i].name \notin made
      PROVE  \/ Head(steps).what = "group" /\ Head(steps).item = mapping[i]
             \/ /\ Head(steps).what = "group"
                /\ \E j \in DOMAIN rest : rest[j].what = "group" /\ rest[j].item = mapping[i]
  <2>1. PICK j \in DOMAIN steps : steps[j].what = "group" /\ steps[j].item = mapping[i]
    BY <1>8 DEF Remaining
  <2>2. CASE j = 1
    BY <1>4, <2>1, <2>2
  <2>3. CASE j # 1
    <3>1. j - 1 \in DOMAIN rest /\ rest[j - 1] = steps[j] /\ 1 < j
      BY <1>4, <1>5, <2>3
    <3>2. steps[1].what = "group"
      BY <1>1, <1>4, <1>5, <2>1, <3>1 DEF GroupsFirst
    <3>3. QED BY <1>4, <2>1, <3>1, <3>2
  <2>4. QED BY <2>2, <2>3
<1>9. QED BY <1>2, <1>4, <1>6, <1>7, <1>8 DEF Remaining

(* What CreateUser and CreateGroup make of an entry of the mapping. *)
Made(item) ==
  [uid |-> item.uid, gid |-> item.gid, source |-> "files", exact |-> TRUE,
   gids |-> {item.gid} \cup (IF item.name = Worker THEN {KvmGid} ELSE {})]
MadeGroup(item) == [gid |-> item.gid, local |-> TRUE]

OwnAccounts(mapping) ==
  \A s \in Services \cap DOMAIN accounts :
    \E i \in DOMAIN mapping : mapping[i].name = s /\ accounts[s] = Made(mapping[i])
OwnGroups(mapping) ==
  \A s \in Services \cap DOMAIN groups :
    \E i \in DOMAIN mapping : mapping[i].name = s /\ groups[s] = MadeGroup(mapping[i])
UsersLast == Services \cap DOMAIN accounts # {} => Services \subseteq DOMAIN groups

OperatorAsFound ==
  /\ accounts["operator"].source = "files" /\ accounts["operator"].uid = OperatorId
  /\ SudoGid \in accounts["operator"].gids
  /\ "kvm" \in DOMAIN groups /\ groups["kvm"] = [gid |-> KvmGid, local |-> TRUE]

(* Before a manifest is persisted there is no identity of the project, and then
   those there are follow it, whatever was cut short. *)
HostCalm ==
  /\ manifest = None => Services \cap (DOMAIN accounts \cup DOMAIN groups) = {} /\ todo = << >>
  /\ manifest # None =>
       /\ ValidMapping(manifest.mapping) /\ Verified
       /\ OwnAccounts(manifest.mapping) /\ OwnGroups(manifest.mapping) /\ UsersLast
       /\ todo # << >> => Remaining(todo, manifest.mapping, DOMAIN groups)

PlanSteps(p) ==
  /\ ValidMapping(p.allocations) /\ Remaining(p.actions, p.allocations, {})
PlanCalm ==
  plan # None =>
    /\ manifest = None => plan.supplied = None
    /\ plan.actions # << >> =>
         /\ Verified /\ PlanSteps(plan)
         /\ manifest # None => plan.allocations = manifest.mapping

Calm == changes = 0 => OperatorAsFound /\ HostCalm /\ PlanCalm
CalmInv == changes \in Nat /\ Calm /\ CarriedOutIsStable

LEMMA GatesAre == (GateIssues = {}) <=> Verified
<1>1. eligible => IssueIf(~eligible, "platform", "unsupported") = {}
  BY NoIssue
<1>2. ~eligible => IssueIf(~eligible, "platform", "unsupported") # {}
  BY NoIssue
<1> DEFINE code(g) == IF gates[g] = "failed" /\ g = "prerequisites" THEN "conflict" ELSE "unknown"
           part(g) == IssueIf(gates[g] # "verified", g, code(g))
<1>3. \A g \in Gates : part(g) = {} <=> gates[g] = "verified"
  <2> HIDE DEF code
  <2>1. QED BY NoIssue
<1>4. GateIssues = IssueIf(~eligible, "platform", "unsupported") \cup UNION {part(g) : g \in Gates}
  BY Zenon DEF GateIssues
<1> HIDE DEF part
<1>5. (UNION {part(g) : g \in Gates} = {}) <=> \A g \in Gates : gates[g] = "verified"
  BY <1>3
<1>6. QED BY <1>1, <1>2, <1>4, <1>5 DEF Verified

LEMMA FreshIsValid == FreshMapping # << >> => ValidMapping(FreshMapping)
<1> SUFFICES ASSUME FreshMapping # << >> PROVE ValidMapping(FreshMapping)
  OBVIOUS
<1>1. PICK m : m = FreshMapping
  OBVIOUS
<1>2. /\ m \in Seq(Item) /\ Len(m) = Len(ServiceNames)
      /\ \A i \in DOMAIN m :
           /\ m[i].name = ServiceNames[i]
           /\ m[i].uid \in Band \ Excluded /\ m[i].gid \in Band \ Excluded
           /\ \A j \in DOMAIN m \ {i} : m[j].uid # m[i].uid /\ m[j].gid # m[i].gid
  BY <1>1, FreshMappingIs
<1>3. DOMAIN m = DOMAIN ServiceNames
  BY <1>2, ServicesAre
<1>4. {m[i].name : i \in DOMAIN m} = Services
  BY <1>2, <1>3 DEF Services
<1>5. QED BY <1>1, <1>2, <1>4 DEF ValidMapping

(* An actionable plan: what it was made from and what its steps are. *)
LEMMA BuildSteps ==
  ASSUME BuildIdentityPlan, ManifestOK(manifest), PlanInv'
  PROVE  /\ plan'.supplied = manifest /\ plan'.issues = Issues(manifest)
         /\ plan'.actions # << >> =>
              /\ Verified /\ PlanSteps(plan')
              /\ manifest # None => plan'.allocations = manifest.mapping
<1>1. PICK p : p = plan'
  OBVIOUS
<1>2. PICK m : m = manifest
  OBVIOUS
<1>3. p = [kind |-> "plan", supplied |-> m, issues |-> Issues(m), allocations |-> Allocations(m),
           actions |-> IF Issues(m) = {} THEN Actions(Allocations(m)) ELSE << >>,
           exit |-> ExitCode(Issues(m))]
  BY <1>1, <1>2 DEF BuildIdentityPlan
<1>4. p.supplied = m /\ p.issues = Issues(m)
  BY <1>3
<1>5. ASSUME p.actions # << >>
      PROVE  Verified /\ PlanSteps(p) /\ (m # None => p.allocations = m.mapping)
  <2>1. Issues(m) = {} /\ p.actions = Actions(Allocations(m)) /\ p.allocations = Allocations(m)
    BY <1>3, <1>5
  <2>2. GateIssues = {}
    BY <2>1 DEF Issues
  <2>3. PlannedFrom(facts, p)
    BY <1>2, <1>4, <2>1, PlansFromFacts
  <2>4. m # None => ValidMapping(p.allocations) /\ p.allocations = m.mapping
    BY <1>4, <2>3 DEF PlannedFrom
  <2>5. m = None => ValidMapping(p.allocations)
    <3>1. m = None => FreshMapping # << >> /\ facts.range
      BY <2>1, NothingInDoubt
    <3>2. m = None => p.allocations = FreshMapping
      BY <2>1, <3>1 DEF Allocations
    <3>3. QED BY <3>1, <3>2, FreshIsValid
  <2>6. p.allocations \in Seq(Item)
    BY <2>3 DEF PlannedFrom
  <2>7. Remaining(p.actions, p.allocations, {})
    BY <2>1, <2>6, ActionsAre
  <2>8. QED BY <2>2, <2>4, <2>5, <2>7, GatesAre DEF PlanSteps
<1>6. QED BY <1>1, <1>2, <1>4, <1>5

LEMMA NothingFails == \A lookup : How(lookup, NoFailure) = "answers"
  BY DEF How, NoFailure

(* Carried out to the end, nothing is left to raise an issue. *)
LEMMA NoIssueAfterwards ==
  ASSUME HostInv, OperatorAsFound, HostCalm, ManifestOK(manifest), manifest # None,
         facts = Observed(NoFailure), Services \subseteq DOMAIN accounts
  PROVE  Issues(manifest) = {}
<1>1. PICK m : m = manifest.mapping
  OBVIOUS
<1>2. m \in Seq(Item) /\ ValidMapping(m) /\ Verified /\ OwnAccounts(m) /\ OwnGroups(m)
  BY <1>1 DEF ManifestOK, HostCalm
<1>3. Services \subseteq DOMAIN groups
  <2>1. Worker \in Services
    BY IdentityAssumption
  <2>2. QED BY <2>1 DEF HostCalm, UsersLast
<1>4. PICK f : f = facts
  OBVIOUS
<1>5. /\ \A a \in Services \cup {"operator"} : f.accounts[a] = AccountFact(a, NoFailure)
      /\ \A g \in Services \cup {"kvm", "sudo", "lxd"} : f.groups[g] = GroupFact(g, NoFailure)
      /\ f.range
  <2>1. \A database \in Databases : Readable(database, NoFailure)
    BY DEF Readable, NoFailure
  <2>2. QED BY <1>4, <2>1 DEF Observed, AccountNames, GroupNames
<1>6. \A s \in Services \cup {"operator"} :
        /\ f.accounts[s].status = "ok" /\ (f.accounts[s].local <=> accounts[s].source = "files")
        /\ f.accounts[s].uid = accounts[s].uid /\ f.accounts[s].gid = accounts[s].gid
        /\ f.accounts[s].exact = accounts[s].exact /\ f.accounts[s].gids = accounts[s].gids
  <2> SUFFICES ASSUME NEW s \in Services \cup {"operator"}
               PROVE  /\ f.accounts[s].status = "ok" /\ (f.accounts[s].local <=> accounts[s].source = "files")
                      /\ f.accounts[s].uid = accounts[s].uid /\ f.accounts[s].gid = accounts[s].gid
                      /\ f.accounts[s].exact = accounts[s].exact /\ f.accounts[s].gids = accounts[s].gids
    OBVIOUS
  <2>1. s \in DOMAIN accounts
    BY DEF HostInv
  <2>2. PICK r : r = f.accounts[s]
    OBVIOUS
  <2>3. r = AccountFact(s, NoFailure)
    BY <1>5, <2>2
  <2>4. Status("passwd", s, DOMAIN accounts, NoFailure) = "ok" /\ FilesAnswer("passwd", s, NoFailure)
    BY <2>1, NothingFails DEF Status, FilesAnswer
  <2>5. PICK local : local = (accounts[s].source = "files" /\ FilesAnswer("passwd", s, NoFailure))
    OBVIOUS
  <2>6. r = [status |-> "ok", local |-> local, uid |-> accounts[s].uid, gid |-> accounts[s].gid,
             exact |-> accounts[s].exact, gids |-> accounts[s].gids]
    BY <2>3, <2>4, <2>5 DEF AccountFact
  <2>7. /\ r.status = "ok" /\ r.local = local
        /\ r.uid = accounts[s].uid /\ r.gid = accounts[s].gid
        /\ r.exact = accounts[s].exact /\ r.gids = accounts[s].gids
    BY <2>6
  <2>8. QED BY <2>2, <2>4, <2>5, <2>7
<1>7. \A g \in Services \cup {"kvm", "sudo"} :
        /\ f.groups[g].status = "ok" /\ (f.groups[g].local <=> groups[g].local)
        /\ f.groups[g].gid = groups[g].gid
  <2> SUFFICES ASSUME NEW g \in Services \cup {"kvm", "sudo"}
               PROVE  /\ f.groups[g].status = "ok" /\ (f.groups[g].local <=> groups[g].local)
                      /\ f.groups[g].gid = groups[g].gid
    OBVIOUS
  <2>1. g \in DOMAIN groups
    BY <1>3 DEF HostInv, OperatorAsFound
  <2>2. PICK r : r = f.groups[g]
    OBVIOUS
  <2>3. r = GroupFact(g, NoFailure)
    BY <1>5, <2>2
  <2>4. Status("group", g, DOMAIN groups, NoFailure) = "ok" /\ FilesAnswer("group", g, NoFailure)
    BY <2>1, NothingFails DEF Status, FilesAnswer
  <2>5. PICK local : local = (groups[g].local /\ FilesAnswer("group", g, NoFailure))
    OBVIOUS
  <2>6. r = [status |-> "ok", local |-> local, gid |-> groups[g].gid]
    BY <2>3, <2>4, <2>5 DEF GroupFact
  <2>7. r.status = "ok" /\ r.local = local /\ r.gid = groups[g].gid
    BY <2>6
  <2>8. QED BY <2>2, <2>4, <2>5, <2>7
<1>8. m # << >>
  BY <1>2, ServicesAre DEF ValidMapping
<1>9. f.groups["kvm"].gid = KvmGid /\ f.groups["kvm"].status = "ok" /\ f.groups["kvm"].local
  BY <1>7 DEF OperatorAsFound
<1>10. ASSUME NEW s \in Services
       PROVE  \E i \in DOMAIN m : m[i].name = s /\ Matches(s, m[i])
  <2>1. PICK i \in DOMAIN m : m[i].name = s /\ accounts[s] = Made(m[i])
    BY <1>2 DEF OwnAccounts
  <2>2. PICK k \in DOMAIN m : m[k].name = s /\ groups[s] = MadeGroup(m[k])
    BY <1>2, <1>3 DEF OwnGroups
  <2>3. k = i
    BY <1>2, <2>1, <2>2, MappedOnce
  <2>4. PICK item : item = m[i]
    OBVIOUS
  <2>5. /\ f.accounts[s].status = "ok" /\ f.accounts[s].local /\ f.accounts[s].exact = TRUE
        /\ f.accounts[s].uid = item.uid /\ f.accounts[s].gid = item.gid
        /\ f.accounts[s].gids = {item.gid} \cup (IF item.name = Worker THEN {KvmGid} ELSE {})
    BY <1>6, <2>1, <2>4 DEF Made
  <2>6. f.groups[s].status = "ok" /\ f.groups[s].local /\ f.groups[s].gid = item.gid
    BY <1>7, <2>2, <2>3, <2>4 DEF MadeGroup
  <2>7. Matches(s, item)
    BY <1>4, <1>9, <2>1, <2>4, <2>5, <2>6 DEF Matches
  <2>8. QED BY <2>1, <2>4, <2>7
<1>11. ServiceIssues(m) = {}
  <2> DEFINE doubt(t) ==
        IssueIf("unknown" \in {facts.accounts[t].status, facts.groups[t].status}, "discovery", "unknown")
        \cup IssueIf(/\ ~("unknown" \in {facts.accounts[t].status, facts.groups[t].status})
                     /\ "ok" \in {facts.accounts[t].status, facts.groups[t].status}
                     /\ ~\E i \in DOMAIN m : m[i].name = t /\ Matches(t, m[i]),
                     "collision", "conflict")
  <2>1. ServiceIssues(m) = UNION {doubt(t) : t \in Services}
    BY Zenon DEF ServiceIssues
  <2>2. ASSUME NEW t \in Services PROVE doubt(t) = {}
    <3>1. ~("unknown" \in {facts.accounts[t].status, facts.groups[t].status})
      BY <1>4, <1>6, <1>7
    <3>2. \E i \in DOMAIN m : m[i].name = t /\ Matches(t, m[i])
      BY <1>10
    <3>3. QED BY <3>1, <3>2 DEF IssueIf
  <2> HIDE DEF doubt
  <2>3. QED BY <2>1, <2>2
<1>12. OperatorIssues = {}
  <2>1. OperatorId # 0
    BY IdentityAssumption DEF OperatorId
  <2>2. /\ f.accounts["operator"].status = "ok" /\ f.accounts["operator"].local
        /\ f.accounts["operator"].uid # 0 /\ SudoGid \in f.accounts["operator"].gids
    BY <1>6, <2>1 DEF OperatorAsFound
  <2>3. f.groups["sudo"].status = "ok" /\ f.groups["sudo"].gid = SudoGid
    BY <1>7 DEF HostInv
  <2>4. QED BY <1>4, <1>9, <2>2, <2>3 DEF OperatorIssues, IssueIf
<1>13. OccupiedIssues(m) = {}
  <2>1. \A i \in DOMAIN m : m[i].name \in Services
    <3>1. \A i \in DOMAIN m : m[i] \in Item
      BY <1>2
    <3>2. QED BY <3>1 DEF Item
  <2>2. \A i \in DOMAIN m : /\ facts.accounts[m[i].name].status # "absent"
                             /\ facts.groups[m[i].name].status # "absent"
    BY <1>4, <1>6, <1>7, <2>1
  <2>3. QED BY <2>2 DEF OccupiedIssues, IssueIf
<1>14. GateIssues = {}
  BY <1>2, GatesAre
<1>15. QED
  <2>1. Issues(manifest) =
          IssueIf(manifest # None /\ m = << >>, "manifest.mapping", "conflict")
          \cup GateIssues \cup ServiceIssues(m) \cup OperatorIssues
          \cup IssueIf(~facts.range, "allocation.range", "unknown")
          \cup (IF facts.range THEN OccupiedIssues(m) ELSE {})
          \cup IssueIf(facts.range /\ manifest = None /\ FreshMapping = << >>,
                       "allocation.exhausted", "conflict")
    <3>1. (IF manifest # None /\ ValidMapping(manifest.mapping) THEN manifest.mapping ELSE << >>) = m
      BY <1>1, <1>2
    <3>2. QED BY <3>1, Zenon DEF Issues
  <2>2. facts.range
    BY <1>4, <1>5
  <2>3. QED BY <1>8, <1>11, <1>12, <1>13, <1>14, <2>1, <2>2 DEF IssueIf

LEMMA StableStays ==
  ASSUME IdentityInv, CalmInv, [Next]_vars
  PROVE  CarriedOutIsStable'
<1>1. CASE UNCHANGED <<facts, plan, accounts, fresh, changes>>
  BY <1>1 DEF CalmInv, CarriedOutIsStable
<1>2. CASE fresh' = FALSE \/ plan' = None
  BY <1>2 DEF CarriedOutIsStable
<1>3. CASE BuildIdentityPlan
  <2> SUFFICES ASSUME fresh', plan'.supplied # None, facts'.failed = NoFailure, changes' = 0,
                      Services \subseteq DOMAIN accounts'
               PROVE  plan'.issues = {}
    BY DEF CarriedOutIsStable
  <2>1. UNCHANGED <<facts, accounts, fresh, changes, manifest>>
    BY <1>3 DEF BuildIdentityPlan, host
  <2>2. plan'.supplied = manifest /\ plan'.issues = Issues(manifest)
    BY <1>3, BuildSteps, BuildPlans DEF IdentityInv
  <2>3. facts = Observed(NoFailure) /\ Services \subseteq DOMAIN accounts /\ manifest # None
    BY <2>1, <2>2 DEF IdentityInv, FactsInv
  <2>4. OperatorAsFound /\ HostCalm /\ HostInv /\ ManifestOK(manifest)
    BY <2>1 DEF CalmInv, Calm, IdentityInv
  <2>5. QED BY <2>2, <2>3, <2>4, NoIssueAfterwards
<1>4. CASE Persist \/ Abandon \/ UNCHANGED vars
  BY <1>1, <1>4 DEF Persist, Abandon, host, vars
<1>5. ASSUME NEW failed, Collect(failed) PROVE CarriedOutIsStable'
  BY <1>2, <1>5 DEF Collect
<1>6. QED
  BY <1>2, <1>3, <1>4, <1>5 DEF Next, CreateGroup, CreateUser, LeaveLxd, OthersTakeSudo, OthersAddUser,
     OthersAddGroup, OthersRemove, OthersDamageManifest, Done, Changed

(* More made is not more to do. *)
LEMMA LessRemains ==
  ASSUME NEW steps, NEW mapping, NEW made, NEW more, made \subseteq more,
         Remaining(steps, mapping, made)
  PROVE  Remaining(steps, mapping, more)
  BY DEF Remaining

LEMMA HostCalmStays ==
  ASSUME HostCalm, UNCHANGED <<accounts, groups, eligible, gates, manifest>>, todo' \in {todo, << >>}
  PROVE  HostCalm'
<1>1. /\ Verified' <=> Verified
      /\ \A m : OwnAccounts(m)' <=> OwnAccounts(m)
      /\ \A m : OwnGroups(m)' <=> OwnGroups(m)
      /\ UsersLast' <=> UsersLast
  BY DEF Verified, OwnAccounts, OwnGroups, UsersLast
<1>2. /\ OwnAccounts(manifest.mapping)' <=> OwnAccounts(manifest.mapping)
      /\ OwnGroups(manifest.mapping)' <=> OwnGroups(manifest.mapping)
  BY DEF OwnAccounts, OwnGroups
<1>3. \A m, d : todo' # << >> /\ Remaining(todo, m, d) => Remaining(todo', m, d)
  OBVIOUS
<1>4. QED BY <1>1, <1>2, <1>3 DEF HostCalm

LEMMA PlanCalmStays ==
  ASSUME PlanCalm, UNCHANGED <<eligible, gates, manifest, plan>>
  PROVE  PlanCalm'
<1>1. Verified' <=> Verified
  BY DEF Verified
<1>2. PlanSteps(plan)' <=> PlanSteps(plan)
  BY DEF PlanSteps
<1>3. QED BY <1>1, <1>2 DEF PlanCalm

(* The manifest is persisted before any step, and a second time only as it is. *)
LEMMA PersistIsCalm ==
  ASSUME HostInv, HostCalm, PlanCalm, Persist
  PROVE  HostCalm' /\ PlanCalm'
<1>1. /\ plan # None /\ plan.actions # << >> /\ UNCHANGED <<accounts, groups, eligible, gates, plan>>
      /\ todo' = plan.actions /\ manifest' = [kind |-> "manifest", mapping |-> plan.allocations]
  BY DEF Persist, host
<1>2. PICK m : m = plan.allocations
  OBVIOUS
<1>3. /\ Verified /\ ValidMapping(m) /\ Remaining(plan.actions, m, {})
      /\ manifest # None => m = manifest.mapping
  BY <1>1, <1>2 DEF PlanCalm, PlanSteps
<1>4. manifest' # None /\ manifest'.mapping = m
  BY <1>1, <1>2 DEF None
<1>5. OwnAccounts(m) /\ OwnGroups(m) /\ UsersLast
  <2>1. CASE manifest = None
    <3>1. Services \cap DOMAIN accounts = {} /\ Services \cap DOMAIN groups = {}
      BY <2>1 DEF HostCalm
    <3>2. QED BY <3>1 DEF OwnAccounts, OwnGroups, UsersLast
  <2>2. CASE manifest # None
    BY <1>3, <2>2 DEF HostCalm
  <2>3. QED BY <2>1, <2>2
<1>6. OwnAccounts(m)' /\ OwnGroups(m)' /\ UsersLast' /\ Verified'
  BY <1>1, <1>3, <1>5 DEF OwnAccounts, OwnGroups, UsersLast, Verified
<1>7. OwnAccounts(manifest.mapping)' /\ OwnGroups(manifest.mapping)'
  BY <1>4, <1>6 DEF OwnAccounts, OwnGroups
<1>8. Remaining(todo', m, DOMAIN groups')
  BY <1>1, <1>3, LessRemains
<1>9. HostCalm'
  BY <1>3, <1>4, <1>6, <1>7, <1>8 DEF HostCalm
<1>10. PlanSteps(plan')
  BY <1>1, <1>2, <1>3 DEF PlanSteps
<1>11. QED BY <1>1, <1>2, <1>4, <1>6, <1>9, <1>10 DEF PlanCalm

(* One step of the plan: what is made is the mapping's. *)
LEMMA StepIsCalm ==
  ASSUME HostInv, OperatorAsFound, HostCalm, todo # << >>,
         CreateGroup \/ CreateUser \/ LeaveLxd
  PROVE  OperatorAsFound' /\ HostCalm'
<1>1. UNCHANGED <<eligible, gates, manifest>> /\ manifest # None
  BY DEF HostCalm, CreateGroup, CreateUser, LeaveLxd
<1>2. PICK m : m = manifest.mapping
  OBVIOUS
<1>3. /\ ValidMapping(m) /\ Verified /\ OwnAccounts(m) /\ OwnGroups(m) /\ UsersLast
      /\ Remaining(todo, m, DOMAIN groups)
  BY <1>1, <1>2 DEF HostCalm
<1>4. PICK step : step = Head(todo)
  OBVIOUS
<1>5. /\ Among(step, m)
      /\ Remaining(Tail(todo), m,
                   DOMAIN groups \cup (IF step.what = "group" THEN {step.item.name} ELSE {}))
      /\ step.what # "group" => \A i \in DOMAIN m : m[i].name \in DOMAIN groups
  BY <1>3, <1>4, StepIsDone
<1>6. todo' = Tail(todo)
  BY DEF CreateGroup, CreateUser, LeaveLxd, Done
<1>7. ASSUME OwnAccounts(m)', OwnGroups(m)', UsersLast',
             DOMAIN groups \cup (IF step.what = "group" THEN {step.item.name} ELSE {}) \subseteq DOMAIN groups'
      PROVE  HostCalm'
  <2>1. Remaining(todo', m, DOMAIN groups')
    BY <1>5, <1>6, <1>7, LessRemains
  <2>2. OwnAccounts(manifest.mapping)' /\ OwnGroups(manifest.mapping)'
    BY <1>1, <1>2, <1>7 DEF OwnAccounts, OwnGroups
  <2>3. Verified'
    BY <1>1, <1>3 DEF Verified
  <2>4. QED BY <1>1, <1>2, <1>3, <1>7, <2>1, <2>2, <2>3 DEF HostCalm
<1>8. CASE CreateGroup
  <2>1. step.what = "group" /\ UNCHANGED accounts
    BY <1>4, <1>8 DEF CreateGroup
  <2>2. PICK i \in DOMAIN m : step.item = m[i]
    BY <1>5, <2>1 DEF Among
  <2>3. PICK item : item = m[i]
    OBVIOUS
  <2>4. \/ item.name \in DOMAIN groups /\ UNCHANGED groups
        \/ /\ item.name \notin DOMAIN groups
           /\ groups' = [g \in DOMAIN groups \cup {item.name} |->
                IF g = item.name THEN MadeGroup(item) ELSE groups[g]]
    BY <1>4, <1>8, <2>2, <2>3 DEF CreateGroup, MadeGroup
  <2>5. /\ DOMAIN groups' = DOMAIN groups \cup {item.name}
        /\ \A g \in DOMAIN groups : groups'[g] = groups[g]
        /\ item.name \in DOMAIN groups \/ groups'[item.name] = MadeGroup(item)
    BY <2>4
  <2>6. OwnGroups(m)'
    BY <1>3, <2>2, <2>3, <2>5 DEF OwnGroups
  <2>7. OwnAccounts(m)' /\ UsersLast'
    BY <1>3, <2>1, <2>5 DEF OwnAccounts, UsersLast
  <2>8. OperatorAsFound'
    BY <2>1, <2>5 DEF OperatorAsFound
  <2>9. QED BY <1>7, <2>1, <2>2, <2>3, <2>5, <2>6, <2>7, <2>8
<1>9. CASE CreateUser
  <2>1. step.what = "user" /\ UNCHANGED groups
    BY <1>4, <1>9 DEF CreateUser
  <2>2. PICK i \in DOMAIN m : step.item = m[i]
    BY <1>5, <2>1 DEF Among
  <2>3. PICK item : item = m[i]
    OBVIOUS
  <2>4. \/ item.name \in DOMAIN accounts /\ UNCHANGED accounts
        \/ /\ item.name \notin DOMAIN accounts
           /\ accounts' = [a \in DOMAIN accounts \cup {item.name} |->
                IF a # item.name THEN accounts[a] ELSE Made(item)]
    BY <1>4, <1>9, <2>2, <2>3 DEF CreateUser, Made
  <2>5. /\ DOMAIN accounts' = DOMAIN accounts \cup {item.name}
        /\ \A a \in DOMAIN accounts : accounts'[a] = accounts[a]
        /\ item.name \in DOMAIN accounts \/ accounts'[item.name] = Made(item)
    BY <2>4
  <2>6. OwnAccounts(m)'
    BY <1>3, <2>2, <2>3, <2>5 DEF OwnAccounts
  <2>7. Services \subseteq DOMAIN groups
    BY <1>3, <1>5, <2>1 DEF ValidMapping
  <2>8. OwnGroups(m)' /\ UsersLast'
    BY <1>3, <2>1, <2>7 DEF OwnGroups, UsersLast
  <2>9. OperatorAsFound'
    BY <2>1, <2>5 DEF OperatorAsFound, HostInv
  <2>10. QED BY <1>7, <2>1, <2>6, <2>8, <2>9
<1>10. CASE LeaveLxd
  <2>1. step.what = "leave-lxd" /\ UNCHANGED groups
    BY <1>4, <1>10 DEF LeaveLxd
  <2>2. PICK less : less = accounts["operator"].gids \ {LxdGid}
    OBVIOUS
  <2>3. /\ DOMAIN accounts' = DOMAIN accounts
        /\ \A a \in DOMAIN accounts : a # "operator" => accounts'[a] = accounts[a]
        /\ accounts'["operator"] = [accounts["operator"] EXCEPT !.gids = less]
    BY <1>10, <2>2 DEF LeaveLxd, HostInv
  <2>4. AccountRecord(accounts["operator"])
    BY DEF HostInv
  <2>5. /\ accounts'["operator"].source = accounts["operator"].source
        /\ accounts'["operator"].uid = accounts["operator"].uid
        /\ accounts'["operator"].gids = less
    BY <2>3, <2>4 DEF AccountRecord
  <2>6. SudoGid # LxdGid
    BY IdentityAssumption DEF SudoGid, LxdGid
  <2>7. OperatorAsFound'
    BY <2>1, <2>2, <2>5, <2>6 DEF OperatorAsFound
  <2>8. "operator" \notin Services
    BY IdentityAssumption
  <2>9. OwnAccounts(m)' /\ OwnGroups(m)' /\ UsersLast'
    BY <1>3, <2>1, <2>3, <2>8 DEF OwnAccounts, OwnGroups, UsersLast
  <2>10. QED BY <1>7, <2>1, <2>7, <2>9
<1>11. QED BY <1>8, <1>9, <1>10

LEMMA CalmStarts == Init => CalmInv
<1> SUFFICES ASSUME Init PROVE CalmInv
  OBVIOUS
<1>1. PICK lxd \in BOOLEAN : accounts = [a \in {"operator"} |->
         [uid |-> OperatorId, gid |-> OperatorId, source |-> "files", exact |-> FALSE,
          gids |-> {OperatorId, SudoGid} \cup (IF lxd THEN {LxdGid} ELSE {})]]
  BY DEF Init
<1>2. groups = [g \in {"kvm", "sudo", "lxd"} |->
       [gid |-> CASE g = "kvm" -> KvmGid [] g = "sudo" -> SudoGid [] g = "lxd" -> LxdGid,
        local |-> TRUE]]
  BY DEF Init
<1>3. manifest = None /\ plan = None /\ todo = << >> /\ changes = 0
  BY DEF Init
<1>4. "kvm" \in DOMAIN groups /\ groups["kvm"] = [gid |-> KvmGid, local |-> TRUE]
  BY <1>2
<1>5. OperatorAsFound
  BY <1>1, <1>4 DEF OperatorAsFound
<1>6. DOMAIN accounts = {"operator"} /\ DOMAIN groups = {"kvm", "sudo", "lxd"}
  BY <1>1, <1>2
<1>7. Services \cap (DOMAIN accounts \cup DOMAIN groups) = {}
  BY <1>6, IdentityAssumption
<1>8. HostCalm /\ PlanCalm
  BY <1>3, <1>7 DEF HostCalm, PlanCalm
<1>9. QED BY <1>3, <1>5, <1>8 DEF CalmInv, Calm, CarriedOutIsStable

LEMMA CalmGoesOn == IdentityInv /\ CalmInv /\ [Next]_vars => CalmInv'
<1> SUFFICES ASSUME IdentityInv, CalmInv, [Next]_vars PROVE CalmInv'
  OBVIOUS
<1>1. CarriedOutIsStable'
  BY StableStays
<1>2. changes' = changes \/ changes' = changes + 1
  BY DEF Next, vars, Collect, BuildIdentityPlan, Persist, CreateGroup, CreateUser, LeaveLxd, Abandon,
     OthersAddUser, OthersAddGroup, OthersTakeSudo, OthersDamageManifest, OthersRemove, Changed
<1>3. changes' \in Nat
  BY <1>2 DEF CalmInv
<1>4. SUFFICES ASSUME changes' = 0 PROVE OperatorAsFound' /\ HostCalm' /\ PlanCalm'
  BY <1>1, <1>3 DEF CalmInv, Calm
<1>5. changes = 0 /\ changes' = changes
  BY <1>2, <1>4 DEF CalmInv
<1>6. OperatorAsFound /\ HostCalm /\ PlanCalm /\ HostInv
  BY <1>5 DEF CalmInv, Calm, IdentityInv
<1>7. UNCHANGED <<accounts, groups>> => OperatorAsFound'
  BY <1>6 DEF OperatorAsFound
<1>8. CASE UNCHANGED vars \/ Abandon
  <2>1. UNCHANGED <<accounts, groups, eligible, gates, manifest, plan>> /\ todo' \in {todo, << >>}
    BY <1>8 DEF vars, Abandon, host
  <2>2. QED BY <1>6, <1>7, <2>1, HostCalmStays, PlanCalmStays
<1>9. ASSUME NEW failed, Collect(failed) PROVE OperatorAsFound' /\ HostCalm' /\ PlanCalm'
  <2>1. UNCHANGED <<accounts, groups, eligible, gates, manifest>> /\ todo' \in {todo, << >>}
        /\ plan' = None
    BY <1>9 DEF Collect, host
  <2>2. PlanCalm'
    BY <2>1 DEF PlanCalm
  <2>3. QED BY <1>6, <1>7, <2>1, <2>2, HostCalmStays
<1>10. CASE BuildIdentityPlan
  <2>1. UNCHANGED <<accounts, groups, eligible, gates, manifest>> /\ todo' \in {todo, << >>}
    BY <1>10 DEF BuildIdentityPlan, host
  <2>2. /\ plan'.supplied = manifest
        /\ plan'.actions # << >> =>
             /\ Verified /\ PlanSteps(plan')
             /\ manifest # None => plan'.allocations = manifest.mapping
    BY <1>10, BuildSteps, BuildPlans DEF IdentityInv
  <2>3. Verified' <=> Verified
    BY <2>1 DEF Verified
  <2>4. PlanCalm'
    BY <2>1, <2>2, <2>3 DEF PlanCalm, PlanSteps
  <2>5. QED BY <1>6, <1>7, <2>1, <2>4, HostCalmStays
<1>11. CASE Persist
  <2>1. UNCHANGED <<accounts, groups>>
    BY <1>11 DEF Persist, host
  <2>2. QED BY <1>6, <1>7, <1>11, <2>1, PersistIsCalm
<1>12. CASE CreateGroup \/ CreateUser \/ LeaveLxd
  <2>1. UNCHANGED <<eligible, gates, manifest, plan>> /\ todo # << >>
    BY <1>12 DEF CreateGroup, CreateUser, LeaveLxd
  <2>2. QED BY <1>6, <1>12, <2>1, StepIsCalm, PlanCalmStays
<1>13. ASSUME \/ OthersTakeSudo \/ OthersDamageManifest
              \/ \E name, id, source : OthersAddUser(name, id, source) \/ OthersAddGroup(name, id)
              \/ \E name : OthersRemove(name)
       PROVE  FALSE
  <2>1. changes' = changes + 1
    BY <1>13 DEF OthersTakeSudo, OthersDamageManifest, OthersAddUser, OthersAddGroup, OthersRemove,
       Changed
  <2>2. QED BY <1>5, <2>1
<1>14. QED BY <1>8, <1>9, <1>10, <1>11, <1>12, <1>13 DEF Next

(* A plan carried out to the end with nobody else about, whatever was cut short and
   repeated on the way, leaves nothing for the next plan to refuse. *)
THEOREM PlansSettle == DryRunSpec => []CarriedOutIsStable
<1>1. DryRunInit => CalmInv
  BY CalmStarts DEF DryRunInit
<1>2. IdentityInv /\ CalmInv /\ [DryRunNext]_dryRunVars => CalmInv'
  <2>1. [DryRunNext]_dryRunVars => [Next]_vars
    BY DEF DryRunNext, dryRunVars
  <2>2. QED BY <2>1, CalmGoesOn
<1>3. CalmInv => CarriedOutIsStable
  BY DEF CalmInv
<1>4. QED BY <1>1, <1>2, <1>3, IdentityInvariance, PTL DEF DryRunSpec

=============================================================================

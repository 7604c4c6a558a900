------------------------------- MODULE Firewall -------------------------------
(***************************************************************************)
(* configure-firewall.sh: the rules that admit HTTPS to a sandbox host and *)
(* the manifest that says which they should be.  Every operation holds     *)
(* ingress-firewall.lock (and so do the commands it started, after it was  *)
(* killed), so one at a time is at work; it changes the ufw rules one by   *)
(* one, then the guard chain of each iptables family, verifies, and        *)
(* installs the manifest last.  ufw rules survive a reboot, guards do not. *)
(***************************************************************************)
EXTENDS FirewallSources

CONSTANTS FaultModels,  \* what may go wrong together: sets of FaultKinds
          MaxErrors     \* bound: commands that fail in one operation

FaultKinds == {"error",    \* a command fails
               "kill",     \* the script is killed: the CLI's 30 seconds, a lost session
               "reboot",
               "foreign"}  \* somebody else adds a rule for port 443

ASSUME FirewallAssumption == FaultModels \subseteq SUBSET FaultKinds /\ MaxErrors \in Nat

VARIABLES
  manifest,  \* allowed-sources.json
  ufw,       \* the ufw rules for ports 80 and 443
  guard,     \* family -> the DOCKER-USER guard chain
  docker6,   \* ip6tables has a DOCKER-USER chain
  op,        \* the operation at work
  faults     \* the fault model of this behaviour

rules == <<ufw, guard>>
vars == <<manifest, ufw, guard, docker6, op, faults>>

Families == {4, 6}
Document(mode, sources) == [mode |-> mode, sources |-> sources]
Missing == Document("missing", {})
Exported(m) == IF m = Missing THEN Document("closed", {}) ELSE m
Export == Exported(manifest)

NoRules == [sources |-> {}, public |-> FALSE, foreign |-> FALSE]
NoGuard == [is |-> "absent", doc |-> Missing]
HalfGuard == [is |-> "partial", doc |-> Missing]

Mutations == {"mode", "source"}
Idle == [kind |-> "none", phase |-> "idle", old |-> Missing, new |-> Missing, fresh |-> FALSE,
         restoring |-> FALSE, reversing |-> FALSE, errors |-> 0, failed |-> "nowhere",
         begun |-> <<>>, result |-> "none"]

------------------------------------------------------------------------------
(* What a document asks of the host, and verify_system_rules. *)

Asked(doc) == [NoRules EXCEPT !.sources = IF doc.mode = "restricted" THEN doc.sources ELSE {},
                              !.public = doc.mode = "public"]
OfFamily(f, sources) == {c \in sources : c.family = f}

(* guard_required: IPv6 only where there is something to guard. *)
GuardRequiredIfUsed(f, doc) ==  \* mutant: sources kept for later need no guard
  f = 4 \/ docker6 \/ OfFamily(6, Asked(doc).sources) # {}
GuardRequired(f, doc) == f = 4 \/ docker6 \/ OfFamily(6, doc.sources) # {}

Guard(f, doc) == [is |-> "exact", doc |-> Document(doc.mode, OfFamily(f, Asked(doc).sources))]

RulesExact(doc) ==
  /\ ufw = Asked(doc)
  /\ \A f \in Families :
       guard[f] = IF GuardRequired(f, doc) THEN Guard(f, doc) ELSE NoGuard

RulesAbsent == ufw = NoRules /\ guard = [f \in Families |-> NoGuard]

------------------------------------------------------------------------------
(* Beginning and ending an operation. *)

Begin(kind, phase, new, fresh) ==
  /\ op.phase = "idle"
  /\ op' = [Idle EXCEPT !.kind = kind, !.phase = phase, !.old = Export, !.new = new,
                        !.fresh = fresh, !.begun = <<manifest, ufw, guard>>]
  /\ UNCHANGED <<manifest, rules, docker6, faults>>

End(result) ==
  op' = [op EXCEPT !.phase = "done",
                   !.result = IF op.reversing /\ result # "commit_failed"
                              THEN "rollback_failed" ELSE result]

Finish == op.phase = "done" /\ op' = Idle /\ UNCHANGED <<manifest, rules, docker6, faults>>

(* mutate_mode, mutate_sources.  A candidate equal to the document in force is
   only verified. *)
Candidate(kind, new) ==
  LET unchanged == new = Export /\ (kind = "source" \/ manifest # Missing)
  IN Begin(kind, IF unchanged THEN "confirm" ELSE "verify", new, manifest = Missing)

ChangeMode(mode) == Candidate("mode", Document(mode, Export.sources))

(* The CLI and candidate-add ask for the same overrides; a candidate that does
   not validate ends the operation. *)
AddSource(c, allowNonPublic, allowBroad) ==
  LET new == Export.sources \cup {c}
  IN /\ Admissible(c, allowNonPublic, allowBroad)
     /\ ValidDocument(Items(new))
     /\ Candidate("source", Document(Export.mode, new))

RemoveSource(c) == Candidate("source", Document(Export.mode, Export.sources \ {c}))

ApplyRules ==
  Begin("apply", IF manifest = Missing THEN "check" ELSE "verify", Export, manifest = Missing)
RemoveRules ==
  Begin("remove", IF manifest = Missing THEN "absent" ELSE "verify", Export, manifest = Missing)

------------------------------------------------------------------------------
(* The steps, by what they work on: transition_system_rules for a mutation,
   the three branches of apply, remove. *)

Working(phase) == op.phase = phase /\ UNCHANGED <<docker6, faults>>
To(phase) == op' = [op EXCEPT !.phase = phase]
File == IF op.phase = "remove" \/ op.restoring THEN op.old ELSE op.new
Still == UNCHANGED <<manifest, rules>>

(* What happens when a step of the present phase fails; r is op with the
   failure counted. *)
Clean(r, restoring) == op' = [r EXCEPT !.phase = "clean", !.restoring = restoring]
Dead(r, result) ==
  op' = [r EXCEPT !.phase = "done",
                  !.result = IF op.reversing THEN "rollback_failed" ELSE result]

(* install-file failed: a second transition, from the new document to the old. *)
ReverseNothing(r) == Dead(r, "commit_failed")  \* mutant: the new rules stay
Reverse(r) ==
  op' = [r EXCEPT !.phase = "verify", !.old = op.new, !.new = op.old,
                  !.fresh = FALSE, !.reversing = TRUE]

FailTo(r) ==
  CASE op.kind \in Mutations ->
         CASE op.phase = "remove" -> Clean(r, TRUE)
           [] op.phase \in {"check", "add"} /\ ~op.restoring -> Clean(r, FALSE)
           [] op.phase \in {"check", "add"} /\ op.restoring -> Dead(r, "rollback_failed")
           [] op.phase = "commit" -> Reverse(r)
           [] OTHER -> Dead(r, "transaction_failed")
    [] op.kind = "apply" ->
         CASE op.phase = "verify" -> Clean(r, TRUE)
           [] op.phase = "add" \/ (op.phase = "check" /\ ~op.restoring) -> Clean(r, FALSE)
           [] op.phase = "commit" -> Dead(r, "commit_failed")
           [] op.phase = "final" -> Dead(r, "mismatch")
           [] OTHER -> Dead(r, "conflict")
    [] op.kind = "remove" ->
         IF op.phase \in {"verify", "remove"} THEN Clean(r, FALSE) ELSE Dead(r, "conflict")

Failed(r) == [r EXCEPT !.failed = IF @ = "nowhere" THEN op.phase ELSE @]
Fail == FailTo(Failed(op))

VerifyMutation ==
  /\ Working("verify") /\ op.kind \in Mutations
  /\ IF op.fresh THEN IF RulesAbsent THEN To("check") ELSE Fail
     ELSE IF RulesExact(op.old) THEN To("remove") ELSE Fail
  /\ Still

VerifyApplyWedged ==  \* mutant: a partly applied rule set is refused
  /\ Working("verify") /\ op.kind = "apply"
  /\ CASE RulesExact(op.new) -> To("final")
       [] ~RulesExact(op.new) /\ RulesAbsent -> To("check")
       [] OTHER -> Dead(op, "conflict")
  /\ Still

VerifyApply ==
  /\ Working("verify") /\ op.kind = "apply"
  /\ CASE RulesExact(op.new) -> To("final")
       [] ~RulesExact(op.new) /\ RulesAbsent -> To("check")
       [] OTHER -> Fail
  /\ Still

VerifyRemove ==
  /\ Working("verify") /\ op.kind = "remove"
  /\ IF RulesExact(op.old) THEN To("remove") ELSE Fail
  /\ Still

(* remove_system_rules and cleanup_candidate_rules: the sources of one file,
   the public rule, the guards. *)
Erasable(doc) == ufw.sources \cap doc.sources # {} \/ ufw.public \/ guard # [f \in Families |-> NoGuard]

EraseRule ==
  /\ \/ \E c \in ufw.sources \cap File.sources : ufw' = [ufw EXCEPT !.sources = @ \ {c}]
     \/ ufw.public /\ ufw' = [ufw EXCEPT !.public = FALSE]
  /\ UNCHANGED guard
EraseGuard ==
  /\ ufw.sources \cap File.sources = {} /\ ~ufw.public
  /\ \E f \in Families :
       /\ guard[f].is # "absent"
       /\ f = 6 => guard[4].is = "absent"
       /\ guard' = [guard EXCEPT ![f] = IF @.is = "exact" THEN HalfGuard ELSE NoGuard]
  /\ UNCHANGED ufw

Erase ==
  /\ Working("remove") \/ Working("clean")
  /\ EraseRule \/ EraseGuard
  /\ UNCHANGED <<manifest, op>>

Removed ==
  /\ Working("remove") /\ ~Erasable(File)
  /\ IF RulesAbsent THEN To(IF op.kind = "remove" THEN "absent" ELSE "check") ELSE Fail
  /\ Still

(* After a cleanup: the old rules again, or the repair of an apply, or no more. *)
AfterCleanNothing(r) ==  \* mutant: what was cleaned up is not put back
  IF op.kind = "remove" THEN op' = [r EXCEPT !.phase = "absent"]
  ELSE Dead(r, "transaction_failed")

AfterClean(r) ==
  CASE op.kind = "remove" -> op' = [r EXCEPT !.phase = "absent"]
    [] op.kind = "apply" /\ op.restoring -> op' = [r EXCEPT !.phase = "check"]
    [] op.kind = "apply" /\ ~op.restoring -> Dead(r, "conflict")
    [] op.kind \in Mutations /\ (op.restoring \/ ~op.fresh) ->
         op' = [r EXCEPT !.phase = "check", !.restoring = TRUE]
    [] OTHER -> Dead(r, "transaction_failed")

Cleaned == Working("clean") /\ ~Erasable(File) /\ AfterClean(op) /\ Still

(* add_system_rules *)
CheckAbsent ==
  /\ Working("check")
  /\ IF RulesAbsent THEN To("add") ELSE Fail
  /\ Still

AddRule ==
  /\ Working("add")
  /\ \/ \E c \in Asked(File).sources \ ufw.sources : ufw' = [ufw EXCEPT !.sources = @ \cup {c}]
     \/ Asked(File).public /\ ~ufw.public /\ ufw' = [ufw EXCEPT !.public = TRUE]
  /\ UNCHANGED <<manifest, guard, op>>

RulesAdded == Working("add") /\ Asked(File).sources = ufw.sources /\ Asked(File).public = ufw.public
NextGuard == {f \in Families : GuardRequired(f, File) /\ guard[f].is # "exact"}

AddGuard ==
  /\ RulesAdded /\ NextGuard # {}
  /\ LET f == IF 4 \in NextGuard THEN 4 ELSE 6
     IN IF f = 6 /\ ~docker6 THEN Fail /\ UNCHANGED guard
        ELSE /\ guard' = [guard EXCEPT ![f] = IF @.is = "absent" THEN HalfGuard ELSE Guard(f, File)]
             /\ UNCHANGED op
  /\ UNCHANGED <<manifest, ufw>>

Added ==
  /\ RulesAdded /\ NextGuard = {}
  /\ CASE ~RulesExact(File) -> Fail
       [] RulesExact(File) /\ op.kind \in Mutations /\ op.restoring -> End("transaction_failed")
       [] OTHER -> To(IF op.kind = "apply" /\ op.fresh THEN "commit" ELSE "final")
  /\ Still

(* The last verification; a mutation commits after it, apply before. *)
Final ==
  /\ Working("final")
  /\ IF ~RulesExact(op.new) THEN Fail
     ELSE CASE op.reversing -> End("commit_failed")
            [] ~op.reversing /\ op.kind \in Mutations -> To("commit")
            [] OTHER -> End("success")
  /\ Still

ConfirmUnverified ==  \* mutant: an unchanged document is not held against the rules
  Working("confirm") /\ End("success") /\ Still
Confirm ==
  Working("confirm") /\ (IF RulesExact(op.old) THEN End("success") ELSE End("mismatch")) /\ Still

Absent ==
  Working("absent") /\ (IF RulesAbsent THEN End("success") ELSE End("conflict")) /\ Still

(* install-file: temporary file, fsync, replace, fsync of the directory. *)
Commit ==
  /\ Working("commit")
  /\ manifest' = op.new
  /\ IF op.kind = "apply" THEN To("final") ELSE End("success")
  /\ UNCHANGED rules

------------------------------------------------------------------------------
(* What goes wrong. *)

At(phases) == op.phase \in phases /\ UNCHANGED <<docker6, faults>>

Error ==
  /\ "error" \in faults /\ op.errors < MaxErrors
  /\ At({"verify", "remove", "check", "add", "final", "commit"})
  /\ FailTo(Failed([op EXCEPT !.errors = @ + 1]))
  /\ manifest' \in {manifest} \cup (IF op.phase = "commit" THEN {op.new} ELSE {})
  /\ UNCHANGED rules

(* Every command of a cleanup may fail unnoticed. *)
CleanError ==
  /\ "error" \in faults /\ op.errors < MaxErrors
  /\ At({"clean"}) /\ Erasable(File)
  /\ AfterClean([op EXCEPT !.errors = @ + 1, !.failed = "clean"])
  /\ Still

Kill ==
  /\ "kill" \in faults /\ op.phase \notin {"idle", "done"}
  /\ op' = Idle
  /\ UNCHANGED <<manifest, rules, docker6, faults>>

Reboot ==
  /\ "reboot" \in faults
  /\ guard' = [f \in Families |-> NoGuard]
  /\ op' = Idle
  /\ UNCHANGED <<manifest, ufw, docker6, faults>>

ForeignRule ==
  /\ "foreign" \in faults /\ op.phase = "idle"
  /\ ufw' = [ufw EXCEPT !.foreign = TRUE]
  /\ UNCHANGED <<manifest, guard, docker6, op, faults>>

------------------------------------------------------------------------------
Init ==
  /\ manifest = Missing
  /\ ufw = NoRules
  /\ guard = [f \in Families |-> NoGuard]
  /\ docker6 \in BOOLEAN
  /\ op = Idle
  /\ faults \in FaultModels

Start ==
  \/ \E mode \in FirewallModes : ChangeMode(mode)
  \/ \E c \in Cidrs : RemoveSource(c) \/ \E nonPublic, broad \in BOOLEAN : AddSource(c, nonPublic, broad)
  \/ ApplyRules \/ RemoveRules

Step ==
  \/ VerifyMutation \/ VerifyApply \/ VerifyRemove \/ Erase \/ Removed \/ Cleaned
  \/ CheckAbsent \/ AddRule \/ AddGuard \/ Added \/ Final \/ Confirm \/ Absent \/ Commit
  \/ Finish

Next == Start \/ Step \/ Error \/ CleanError \/ Kill \/ Reboot \/ ForeignRule

Spec == Init /\ [][Next]_vars

------------------------------------------------------------------------------
(* Properties. *)

TypeOK ==
  /\ manifest \in [mode : FirewallModes, sources : SUBSET Cidrs] \cup {Missing}
  /\ ufw \in [sources : SUBSET Cidrs, public : BOOLEAN, foreign : BOOLEAN]
  /\ \A f \in Families : guard[f].is \in {"absent", "partial", "exact"}
  /\ op.errors \in 0..MaxErrors

Ended(results) == op.phase = "done" /\ op.result \in results

(* The CLI believes whatever manifest any sequence of operations has left: the
   two validators, written apart, agree on order, overlap and overrides. *)
ListIsBelieved == Believable(Items(Export.sources))

(* An operation that reports success leaves exactly the rules of the manifest,
   or none: also when it found nothing to change after a reboot or a killed
   operation had changed the rules behind its back. *)
SuccessIsExact ==
  Ended({"success"}) =>
    IF op.kind = "remove" THEN RulesAbsent ELSE RulesExact(Export) /\ Export = op.new

(* "If a rule change or manifest write fails, the backend restores the previous
   source set": what a reported failure leaves behind.
   A failed rule change leaves the manifest alone.  The rules and the guards are
   what they were, with two exceptions: the candidate's rules stay when the
   verification after the last of them fails, and anything may stay when a cleanup
   fails unnoticed.
   A failed manifest write leaves the rules of the document that was in force.
   They are what they were if there was a manifest; without one the reversal (or
   the apply) leaves the guards of the closed document where there were none.  The
   manifest is the old one, or the candidate if it was replaced and not synced. *)
Begun == [manifest |-> op.begun[1], ufw |-> op.begun[2], guard |-> op.begun[3]]
RulesRestored == ufw = Begun.ufw /\ guard = Begun.guard

FailureRestores ==
  /\ Ended({"transaction_failed"}) =>
       /\ manifest = Begun.manifest
       /\ op.failed = "final" => RulesExact(op.new)
       /\ op.failed \notin {"final", "clean"} => RulesRestored
  /\ Ended({"commit_failed"}) =>
       /\ manifest \in {Begun.manifest, op.old}
       /\ RulesExact(Exported(Begun.manifest))
       /\ Begun.manifest # Missing => RulesRestored

(* The reboot that lost the guards, an operation killed half way: an apply in
   which nothing fails repairs it.  It refuses only what is not this project's
   (a foreign rule), what a manifest still missing does not own, and the rule of
   a source that never reached the manifest. *)
Refusable == ufw.foreign \/ op.fresh
Orphan == ~(ufw.sources \subseteq Export.sources)
ApplyRepairs == op.kind = "apply" /\ Ended({"conflict", "mismatch"}) /\ op.errors = 0 => Refusable \/ Orphan

(* No IPv6 source is in the manifest, whatever the mode, on a host that could not
   guard Docker's published ports from it. *)
GuardedFamilies == OfFamily(6, Export.sources) # {} => docker6

(* Whatever sequence of operations, failures and reboots left it, the manifest can
   be read back and enforced. *)
ManifestIsUsable == ListIsBelieved /\ GuardedFamilies

(* "cleanup_candidate_rules only deletes rules carrying this project's own comment
   tags ...; requiring the absent state afterwards keeps the refusal for anything
   this project does not own": what apply refuses is not its own. *)
ApplyReconcilesItsOwn ==
  op.kind = "apply" /\ Ended({"conflict", "mismatch"}) /\ op.errors = 0 => Refusable

(* "If a rule change or manifest write fails, the backend restores the previous
   source set", taken at its word: whatever failed, the manifest, the rules and the
   guards are what they were.  FailureRestores says what the code makes of it. *)
EveryFailureRestores ==
  Ended({"transaction_failed", "commit_failed"}) => RulesRestored /\ manifest = Begun.manifest
==============================================================================

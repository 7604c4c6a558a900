---------------------------- MODULE FirewallProofs ----------------------------
(***************************************************************************)
(* What configure-firewall.sh promises, for any set of blocks, any number  *)
(* of failing commands and every fault model.                              *)
(*                                                                         *)
(* One operation at a time is at work, so the invariant is about where it  *)
(* has got to: what the rules are in each phase, what they were when the   *)
(* operation began, and which failure led where.                           *)
(***************************************************************************)
EXTENDS Firewall, FiniteSetTheorems, TLAPS

Docs == [mode : FirewallModes, sources : SUBSET Cidrs]
Manifests == Docs \cup {Missing}
RuleSets == [sources : SUBSET Cidrs, public : BOOLEAN, foreign : BOOLEAN]
GuardSets == [Families -> [is : {"absent", "partial", "exact"}, doc : Manifests]]
NoGuards == [f \in Families |-> NoGuard]

Kinds == Mutations \cup {"none", "apply", "remove"}
Phases ==
  {"idle", "verify", "remove", "clean", "check", "add", "final", "commit", "confirm", "absent", "done"}
Results ==
  {"none", "success", "mismatch", "conflict", "transaction_failed", "commit_failed", "rollback_failed"}
Operations ==
  [kind : Kinds, phase : Phases, old : Manifests, new : Manifests, fresh : BOOLEAN, restoring : BOOLEAN,
   reversing : BOOLEAN, errors : 0..MaxErrors, failed : Phases \cup {"nowhere"},
   begun : {<<>>} \cup (Manifests \X RuleSets \X GuardSets), result : Results]

TypedOK(m, u, g, d, o) ==
  m \in Manifests /\ u \in RuleSets /\ g \in GuardSets /\ d \in BOOLEAN /\ o \in Operations

(* An operation o at work: the phases of each kind. *)
PhaseOK(o) ==
  /\ o.kind # "none" /\ o.old \in Docs /\ o.new \in Docs
  /\ o.begun \in Manifests \X RuleSets \X GuardSets
  /\ o.kind = "remove" => o.phase \in {"verify", "remove", "clean", "absent", "done"}
  /\ o.kind = "apply" => o.phase \in {"verify", "clean", "check", "add", "final", "commit", "done"}
  /\ o.kind \in Mutations => o.phase # "absent"
  /\ o.phase = "commit" => ~o.reversing
  /\ o.phase \in {"verify", "remove", "final", "commit"} /\ o.kind \in Mutations => ~o.restoring
  /\ o.phase = "remove" /\ o.kind \in Mutations => ~o.fresh

(* Which failure it has met. *)
FailureOK(o) ==
  /\ o.reversing => o.kind \in Mutations /\ ~o.fresh /\ o.failed \in {"commit", "clean"}
  /\ /\ o.kind \in Mutations /\ ~o.reversing /\ ~o.restoring
     /\ o.phase \in {"verify", "remove", "check", "add", "final", "commit"}
     => o.failed = "nowhere"
  /\ o.failed = "final" /\ o.kind \in Mutations => o.phase = "done"

(* Its documents, against the manifest m. *)
ManifestOK(o, m) ==
  /\ o.kind = "apply" => o.old = Exported(m) /\ o.new = Exported(m)
  /\ o.phase = "confirm" => o.old = Exported(m) /\ o.new = Exported(m)
  /\ o.kind \in Mutations /\ ~o.reversing /\ o.phase # "done" => m = o.begun[1]

(* The rules u and the guards g in each phase, and those it began with; d is
   docker6. *)
Required(d, f, doc) == f = 4 \/ d \/ OfFamily(6, doc.sources) # {}
GuardsFor(d, doc) == [f \in Families |-> IF Required(d, f, doc) THEN Guard(f, doc) ELSE NoGuard]
Exact(u, g, d, doc) == u = Asked(doc) /\ g = GuardsFor(d, doc)
FileOf(o) == IF o.phase = "remove" \/ o.restoring THEN o.old ELSE o.new
Partly(u, g, d, doc) ==
  /\ u.sources \subseteq Asked(doc).sources
  /\ u.public => Asked(doc).public
  /\ ~u.foreign
  /\ \A f \in Families : /\ g[f] \in {NoGuard, HalfGuard, Guard(f, doc)}
                         /\ ~Required(d, f, doc) => g[f] = NoGuard

MutationOK(o, u, g, d) ==
  /\ o.phase = "verify" => u = o.begun[2] /\ g = o.begun[3]
  /\ ~o.fresh /\ o.phase \in {"remove", "clean", "check", "add", "final", "commit"} =>
       Exact(o.begun[2], o.begun[3], d, o.old)
  /\ o.fresh /\ o.phase \in {"clean", "check", "add", "final", "commit"} =>
       /\ o.begun[2] = NoRules /\ o.begun[3] = NoGuards /\ ~o.restoring
       /\ u.sources \subseteq o.new.sources /\ ~u.foreign
ApplyOK(o, u, g) ==
  /\ o.phase = "check" => \/ u = NoRules /\ g = NoGuards
                          \/ o.restoring /\ u.sources \cap o.old.sources = {} /\ ~u.public /\ g = NoGuards
  /\ o.phase = "clean" => o.restoring
RulesOK(o, u, g, d) ==
  /\ o.phase = "add" => Partly(u, g, d, FileOf(o))
  /\ o.phase \in {"final", "commit"} => Exact(u, g, d, o.new)
  /\ o.kind \in Mutations /\ ~o.reversing => MutationOK(o, u, g, d)
  /\ o.kind = "apply" /\ ~o.fresh /\ o.errors = 0 => ApplyOK(o, u, g)

(* What it began with: the document in force, which the reversal goes back to. *)
BegunOK(o, m, d) ==
  /\ ~o.reversing => /\ o.fresh = (o.begun[1] = Missing)
                     /\ o.old = Exported(o.begun[1])
  /\ o.reversing => /\ m \in {o.begun[1], o.old}
                    /\ o.new = Exported(o.begun[1])
                    /\ o.begun[1] # Missing => Exact(o.begun[2], o.begun[3], d, o.new)
  /\ o.kind = "apply" /\ o.phase \notin {"final", "done"} => m = o.begun[1]
  /\ o.kind = "apply" /\ o.phase = "commit" => o.fresh

(* What it has come to. *)
ChangeUndone(m, u, g, d, o) ==
  /\ m = o.begun[1]
  /\ o.failed = "final" => Exact(u, g, d, o.new)
  /\ o.failed \notin {"final", "clean"} => u = o.begun[2] /\ g = o.begun[3]
WriteUndone(m, u, g, d, o) ==
  /\ m \in {o.begun[1], o.old}
  /\ Exact(u, g, d, Exported(o.begun[1]))
  /\ o.begun[1] # Missing => u = o.begun[2] /\ g = o.begun[3]
EndOK(m, u, g, d, o) ==
  /\ o.result = "success" =>
       IF o.kind = "remove" THEN u = NoRules /\ g = NoGuards
       ELSE Exact(u, g, d, Exported(m)) /\ Exported(m) = o.new
  /\ o.result = "transaction_failed" => ChangeUndone(m, u, g, d, o)
  /\ o.result = "commit_failed" => WriteUndone(m, u, g, d, o)
  /\ o.kind = "apply" /\ o.result \in {"conflict", "mismatch"} /\ o.errors = 0 =>
       u.foreign \/ o.fresh \/ ~(u.sources \subseteq Exported(m).sources)

WorkOK(m, u, g, d, o) ==
  PhaseOK(o) /\ FailureOK(o) /\ ManifestOK(o, m) /\ BegunOK(o, m, d) /\ RulesOK(o, u, g, d)

(* All of it, of five values rather than of the variables, so that a step is a
   statement about values before and after. *)
InvOf(m, u, g, d, o) ==
  /\ TypedOK(m, u, g, d, o)
  /\ g[6].is # "absent" => d
  /\ OfFamily(6, Exported(m).sources) # {} => d
  /\ o.phase # "idle" => WorkOK(m, u, g, d, o)
  /\ o.phase = "done" => EndOK(m, u, g, d, o)

IInv == InvOf(manifest, ufw, guard, docker6, op)

------------------------------------------------------------------------------
(* The operators of the model on these values. *)

LEMMA Values ==
  /\ NoRules \in RuleSets /\ NoGuards \in GuardSets /\ Missing \notin Docs /\ Idle \in Operations
  /\ \A m \in Manifests : Exported(m) \in Docs
  /\ \A doc \in Docs : doc # Missing /\ Exported(doc) = doc
<1>1. Missing \in Manifests /\ Missing \notin Docs /\ Document("closed", {}) \in Docs
  BY DEF Manifests, Missing, Docs, Document, FirewallModes
<1>2. NoRules \in RuleSets
  BY DEF NoRules, RuleSets
<1>3. NoGuards \in GuardSets
  BY <1>1 DEF NoGuards, NoGuard, GuardSets
<1>4. Idle \in Operations
  <2>1. 0 \in 0..MaxErrors
    BY FirewallAssumption
  <2>2. QED BY <1>1, <2>1 DEF Idle, Operations, Kinds, Phases, Results
<1>5. \A m \in Manifests : Exported(m) \in Docs
  BY <1>1 DEF Manifests, Exported
<1>6. \A doc \in Docs : doc # Missing /\ Exported(doc) = doc
  BY <1>1 DEF Exported
<1>7. QED BY <1>1, <1>2, <1>3, <1>4, <1>5, <1>6

LEMMA AskedIs ==
  ASSUME NEW doc \in Docs
  PROVE  /\ Asked(doc) \in RuleSets /\ ~Asked(doc).foreign
         /\ Asked(doc).sources \subseteq doc.sources /\ doc.sources \subseteq Cidrs
  BY DEF Asked, NoRules, RuleSets, Docs

LEMMA GuardsAre ==
  ASSUME NEW doc \in Docs, NEW d \in BOOLEAN
  PROVE  /\ GuardsFor(d, doc) \in GuardSets
         /\ \A f \in Families : Guard(f, doc).is = "exact" /\ Guard(f, doc) \in [is : {"absent", "partial", "exact"}, doc : Manifests]
         /\ GuardsFor(d, doc)[6].is = "absent" => OfFamily(6, doc.sources) = {}
<1>1. \A f \in Families : OfFamily(f, Asked(doc).sources) \in SUBSET Cidrs
  BY AskedIs DEF OfFamily
<1>2. \A f \in Families : Document(doc.mode, OfFamily(f, Asked(doc).sources)) \in Manifests
  BY <1>1 DEF Document, Docs, Manifests
<1>3. \A f \in Families :
        Guard(f, doc).is = "exact" /\ Guard(f, doc) \in [is : {"absent", "partial", "exact"}, doc : Manifests]
  BY <1>2 DEF Guard
<1>4. NoGuard \in [is : {"absent", "partial", "exact"}, doc : Manifests]
  BY DEF NoGuard, Manifests
<1>5. GuardsFor(d, doc) \in GuardSets
  BY <1>3, <1>4 DEF GuardsFor, GuardSets
<1>6. GuardsFor(d, doc)[6].is = "absent" => OfFamily(6, doc.sources) = {}
  BY <1>3 DEF GuardsFor, Families, Required
<1>7. QED BY <1>3, <1>5, <1>6

(* The checks of the code, of these values. *)
LEMMA Checks ==
  ASSUME guard \in GuardSets
  PROVE  /\ \A doc : RulesExact(doc) <=> Exact(ufw, guard, docker6, doc)
         /\ RulesAbsent <=> ufw = NoRules /\ guard = NoGuards
         /\ Export = Exported(manifest)
         /\ File = FileOf(op)
         /\ \A f, doc : GuardRequired(f, doc) <=> Required(docker6, f, doc)
<1>1. \A f, doc : GuardRequired(f, doc) <=> Required(docker6, f, doc)
  BY DEF GuardRequired, Required
<1>2. \A doc : RulesExact(doc) <=> Exact(ufw, guard, docker6, doc)
  BY <1>1 DEF RulesExact, Exact, GuardsFor, GuardSets
<1>3. QED BY <1>1, <1>2 DEF RulesAbsent, NoGuards, Export, Exported, File, FileOf

LEMMA InvIs ==
  ASSUME NEW m, NEW u, NEW g, NEW d, NEW o, InvOf(m, u, g, d, o)
  PROVE  /\ m \in Manifests /\ u \in RuleSets /\ g \in GuardSets /\ d \in BOOLEAN /\ o \in Operations
         /\ o.phase # "idle" => /\ PhaseOK(o) /\ FailureOK(o) /\ ManifestOK(o, m) /\ RulesOK(o, u, g, d)
                                /\ BegunOK(o, m, d)
                                /\ o.old \in Docs /\ o.new \in Docs /\ FileOf(o) \in Docs
         /\ o.phase = "done" => EndOK(m, u, g, d, o)
         /\ Exported(m) \in Docs
  BY Values DEF InvOf, TypedOK, WorkOK, PhaseOK, FileOf

------------------------------------------------------------------------------
(* From one phase to the next, nothing else changed. *)

Leads(o, x, m, u, g, d) ==
  \/ /\ o.phase = "verify" /\ o.kind \in Mutations
     /\ \/ o.fresh /\ x = "check" /\ u = NoRules /\ g = NoGuards
        \/ ~o.fresh /\ x = "remove" /\ Exact(u, g, d, o.old)
  \/ /\ o.phase = "verify" /\ o.kind = "apply"
     /\ \/ x = "check" /\ u = NoRules /\ g = NoGuards
        \/ x = "final" /\ Exact(u, g, d, o.new)
  \/ o.phase = "verify" /\ o.kind = "remove" /\ x = "remove"
  \/ o.phase = "remove" /\ o.kind = "remove" /\ x = "absent"
  \/ o.phase = "remove" /\ o.kind \in Mutations /\ x = "check"
  \/ o.phase = "check" /\ x = "add" /\ u = NoRules /\ g = NoGuards
  \/ /\ o.phase = "add" /\ Exact(u, g, d, FileOf(o)) /\ (o.kind = "apply" \/ ~o.restoring)
     /\ \/ o.kind = "apply" /\ o.fresh /\ x = "commit"
        \/ x = "final"
  \/ o.phase = "final" /\ o.kind \in Mutations /\ ~o.reversing /\ x = "commit"

LEMMA Goes ==
  ASSUME NEW m, NEW u, NEW g, NEW d, NEW o, InvOf(m, u, g, d, o), NEW x, Leads(o, x, m, u, g, d),
         NEW n, n = [o EXCEPT !.phase = x]
  PROVE  InvOf(m, u, g, d, n)
<1>1. o \in Operations /\ o.phase # "idle" /\ x \in Phases \ {"idle", "done"}
  BY InvIs DEF Leads, Phases
<1>2. /\ n \in Operations /\ n.phase = x
      /\ n.kind = o.kind /\ n.old = o.old /\ n.new = o.new /\ n.fresh = o.fresh /\ n.restoring = o.restoring
      /\ n.reversing = o.reversing /\ n.errors = o.errors /\ n.failed = o.failed /\ n.begun = o.begun
  BY <1>1 DEF Operations
<1>3. PhaseOK(o) /\ FailureOK(o) /\ ManifestOK(o, m) /\ RulesOK(o, u, g, d) /\ BegunOK(o, m, d)
  BY <1>1, InvIs
<1>4. o.kind = "apply" => o.kind \notin Mutations /\ o.old = o.new
  BY <1>3 DEF ManifestOK, Mutations
<1>5. o.kind = "remove" => o.kind \notin Mutations
  BY DEF Mutations
<1>6. PhaseOK(n)
  BY <1>1, <1>2, <1>3, <1>4, <1>5 DEF PhaseOK, FailureOK, Leads
<1>7. FailureOK(n)
  BY <1>1, <1>2, <1>3 DEF PhaseOK, FailureOK, Leads
<1>8. ManifestOK(n, m)
  BY <1>1, <1>2, <1>3 DEF ManifestOK, Leads
<1>11. BegunOK(n, m, d)
  <2>1. o.kind = "apply" => o.phase \notin {"final", "done"} /\ (x = "commit" => o.fresh)
    BY <1>4 DEF Leads
  <2>2. BegunOK(o, m, d)
    BY <1>1, InvIs
  <2>3. QED BY <1>2, <2>1, <2>2 DEF BegunOK
<1>9. RulesOK(n, u, g, d)
  <2>1. n.phase = "add" => Partly(u, g, d, FileOf(n))
    BY <1>2 DEF Leads, Partly, NoRules, NoGuards
  <2>2. n.phase \in {"final", "commit"} => Exact(u, g, d, n.new)
    BY <1>1, <1>2, <1>3, <1>4 DEF Leads, RulesOK, FileOf
  <2>3. ASSUME n.kind \in Mutations, ~n.reversing PROVE MutationOK(n, u, g, d)
    <3>1. MutationOK(o, u, g, d) /\ o.kind \in Mutations /\ o.kind # "apply" /\ o.kind # "remove" /\ x # "verify"
      BY <1>2, <1>3, <1>4, <1>5, <2>3 DEF RulesOK, Leads
    <3>2. CASE ~o.fresh
      BY <1>1, <1>2, <2>3, <3>1, <3>2 DEF Leads, MutationOK
    <3>3. CASE o.fresh
      <4>1. NoRules.sources = {} /\ ~NoRules.foreign
        BY DEF NoRules
      <4>2. o.phase # "remove" /\ (o.phase = "verify" => ~o.restoring)
        BY <1>3, <3>1, <3>3 DEF PhaseOK
      <4>3. QED BY <1>2, <3>1, <3>3, <4>1, <4>2 DEF Leads, MutationOK
    <3>4. QED BY <1>1, <3>2, <3>3 DEF Operations
  <2>4. n.kind = "apply" /\ ~n.fresh /\ n.errors = 0 => ApplyOK(n, u, g)
    BY <1>1, <1>2, <1>3, <1>4, <1>5 DEF Leads, RulesOK, ApplyOK, PhaseOK
  <2>5. QED BY <2>1, <2>2, <2>3, <2>4 DEF RulesOK
<1>10. QED BY <1>1, <1>2, <1>6, <1>7, <1>8, <1>9, <1>11 DEF InvOf, TypedOK, WorkOK

------------------------------------------------------------------------------
(* A step fails: r is the operation with the failure counted, n where it goes. *)

ToClean(r, b) == [r EXCEPT !.phase = "clean", !.restoring = b]
ToEnd(r, result) == [r EXCEPT !.phase = "done", !.result = result]
Reversed(r, old, new) ==
  [r EXCEPT !.phase = "verify", !.old = new, !.new = old, !.fresh = FALSE, !.reversing = TRUE]

FailsTo(o, r, n) ==
  \/ /\ o.kind \in Mutations
     /\ \/ o.phase = "remove" /\ n = ToClean(r, TRUE)
        \/ o.phase \in {"check", "add"} /\ ~o.restoring /\ n = ToClean(r, FALSE)
        \/ /\ o.phase = "commit"
           /\ n = Reversed(r, o.old, o.new)
        \/ /\ o.phase \in {"check", "add"} /\ o.restoring
           /\ n = ToEnd(r, "rollback_failed")
        \/ /\ o.phase \in {"verify", "final"}
           /\ n = ToEnd(r, IF o.reversing THEN "rollback_failed" ELSE "transaction_failed")
  \/ /\ o.kind = "apply"
     /\ \/ o.phase = "verify" /\ n = ToClean(r, TRUE)
        \/ /\ o.phase = "add" \/ (o.phase = "check" /\ ~o.restoring)
           /\ n = ToClean(r, FALSE)
        \/ o.phase = "check" /\ o.restoring /\ n = ToEnd(r, "conflict")
        \/ o.phase = "final" /\ n = ToEnd(r, "mismatch")
        \/ o.phase = "commit" /\ n = ToEnd(r, "commit_failed")
  \/ o.kind = "remove" /\ n = ToClean(r, FALSE)

LEMMA FailTos ==
  ASSUME NEW o, o = op, o \in Operations, PhaseOK(o), FailureOK(o),
         o.phase \in {"verify", "remove", "check", "add", "final", "commit"}, NEW r, FailTo(r), NEW n, n = op'
  PROVE  FailsTo(o, r, n)
<1>1. /\ Mutations = {"mode", "source"}
      /\ o.kind \in Mutations \/ o.kind = "apply" \/ o.kind = "remove"
  BY DEF Operations, Kinds, PhaseOK, Mutations
<1>2. CASE o.kind \in Mutations
  BY <1>1, <1>2 DEF FailTo, FailsTo, Clean, Dead, Reverse, PhaseOK, ToClean, ToEnd, Reversed
<1>3. CASE o.kind = "apply"
  <2>1. ~o.reversing /\ o.phase # "remove"
    BY <1>1, <1>3 DEF FailureOK, PhaseOK
  <2>2. QED BY <1>1, <1>3, <2>1 DEF FailTo, FailsTo, Clean, Dead, Reverse, PhaseOK, ToClean, ToEnd, Reversed
<1>4. CASE o.kind = "remove"
  <2>1. o.phase \in {"verify", "remove"}
    BY <1>4 DEF PhaseOK
  <2>2. QED BY <1>1, <1>4, <2>1 DEF FailTo, FailsTo, Clean, ToClean
<1>5. QED BY <1>1, <1>2, <1>3, <1>4

(* The fields of an operation that goes elsewhere. *)
Kept(r, n) ==
  n \in Operations /\ n.kind = r.kind /\ n.errors = r.errors /\ n.failed = r.failed /\ n.begun = r.begun
KeptAll(r, n) ==
  Kept(r, n) /\ n.old = r.old /\ n.new = r.new /\ n.fresh = r.fresh /\ n.reversing = r.reversing
IsClean(r, n, b) == KeptAll(r, n) /\ n.phase = "clean" /\ n.restoring = b
IsEnd(r, n, result) == KeptAll(r, n) /\ n.phase = "done" /\ n.result = result /\ n.restoring = r.restoring
IsReversed(r, n, old, new) ==
  /\ Kept(r, n) /\ n.phase = "verify" /\ n.restoring = r.restoring
  /\ n.old = new /\ n.new = old /\ n.fresh = FALSE /\ n.reversing = TRUE

LEMMA Cleaning ==
  ASSUME NEW r \in Operations, NEW b \in BOOLEAN
  PROVE  IsClean(r, ToClean(r, b), b)
<1>1. "clean" \in Phases
  BY DEF Phases
<1>2. QED BY <1>1 DEF IsClean, KeptAll, Kept, Operations, ToClean

LEMMA Ending ==
  ASSUME NEW r \in Operations, NEW result \in Results
  PROVE  IsEnd(r, ToEnd(r, result), result)
<1>1. "done" \in Phases
  BY DEF Phases
<1>2. QED BY <1>1 DEF IsEnd, KeptAll, Kept, Operations, ToEnd

LEMMA Reversal ==
  ASSUME NEW r \in Operations, NEW old \in Docs, NEW new \in Docs
  PROVE  IsReversed(r, Reversed(r, old, new), old, new)
<1>1. "verify" \in Phases /\ old \in Manifests /\ new \in Manifests
  BY DEF Phases, Manifests
<1>2. QED BY <1>1 DEF IsReversed, Kept, Operations, Reversed

Counted(o, e) == [o EXCEPT !.errors = e, !.failed = IF o.failed = "nowhere" THEN o.phase ELSE o.failed]

(* What went wrong with an apply none of whose commands failed. *)
Counts(o, u, g, e) ==
  o.kind = "apply" /\ ~o.fresh /\ e = 0 =>
    /\ o.errors = 0
    /\ o.phase = "verify" \/ (o.phase = "check" /\ ~(u = NoRules /\ g = NoGuards))

LEMMA Fails ==
  ASSUME NEW m, NEW u, NEW g, NEW d, NEW o, InvOf(m, u, g, d, o),
         o.phase \in {"verify", "remove", "check", "add", "final", "commit"},
         NEW e \in 0..MaxErrors, Counts(o, u, g, e),
         NEW r, r = Counted(o, e),
         NEW n, FailsTo(o, r, n), NEW l, l = m \/ (o.phase = "commit" /\ l = o.new)
  PROVE  InvOf(l, u, g, d, n)
<1>1. o \in Operations /\ o.old \in Docs /\ o.new \in Docs
  BY InvIs
<1>2. PhaseOK(o) /\ FailureOK(o) /\ ManifestOK(o, m) /\ RulesOK(o, u, g, d) /\ BegunOK(o, m, d)
  BY InvIs
<1>3. PICK failed \in Phases : failed = (IF o.failed = "nowhere" THEN o.phase ELSE o.failed)
  BY <1>1 DEF Operations
<1>4. /\ r \in Operations /\ r.errors = e /\ r.failed = failed
      /\ r.phase = o.phase /\ r.kind = o.kind /\ r.old = o.old /\ r.new = o.new /\ r.fresh = o.fresh
      /\ r.restoring = o.restoring /\ r.reversing = o.reversing /\ r.begun = o.begun /\ r.result = o.result
  BY <1>1, <1>3 DEF Operations, Counted
<1>5. /\ o.kind = "apply" => o.kind \notin Mutations /\ o.old = o.new /\ o.old = Exported(m) /\ ~o.reversing
      /\ o.kind = "remove" => o.kind \notin Mutations /\ ~o.reversing
  BY <1>2 DEF ManifestOK, FailureOK, Mutations
<1>6. /\ l \in Manifests /\ (OfFamily(6, Exported(l).sources) # {} => d)
      /\ o.kind = "apply" => Exported(l) = Exported(m)
  <2>1. CASE l = m
    BY <2>1 DEF InvOf, TypedOK
  <2>2. CASE o.phase = "commit" /\ l = o.new
    <3>1. Exact(u, g, d, o.new) /\ d \in BOOLEAN /\ Exported(l) = o.new
      BY <1>1, <1>2, <2>2, InvIs, Values DEF RulesOK
    <3>2. OfFamily(6, o.new.sources) # {} => g[6].is # "absent"
      BY <1>1, <3>1, GuardsAre DEF Exact
    <3>3. QED BY <1>1, <1>5, <2>2, <3>1, <3>2 DEF InvOf, Manifests
  <2>3. QED BY <2>1, <2>2
<1>7. SUFFICES n \in Operations /\ n.phase # "idle" /\ WorkOK(l, u, g, d, n) /\ (n.phase = "done" => EndOK(l, u, g, d, n))
  BY <1>6 DEF InvOf, TypedOK
<1>8. CASE o.kind \in Mutations /\ o.phase = "remove" /\ n = ToClean(r, TRUE)
  <2>1. /\ n \in Operations /\ n.phase = "clean" /\ n.restoring = TRUE /\ n.errors = e /\ n.failed = failed
        /\ n.kind = o.kind /\ n.old = o.old /\ n.new = o.new /\ n.fresh = o.fresh
        /\ n.reversing = o.reversing /\ n.begun = o.begun
    <3>1. IsClean(r, n, TRUE)
      BY <1>4, <1>8, Cleaning
    <3>2. QED BY <1>4, <3>1 DEF IsClean, KeptAll, Kept
  <2>2. o.kind # "apply" /\ o.kind # "remove" /\ ~o.fresh /\ l = m
    BY <1>2, <1>5, <1>8 DEF PhaseOK
  <2>3. PhaseOK(n) /\ FailureOK(n) /\ ManifestOK(n, l) /\ BegunOK(n, l, d)
    BY <1>2, <1>3, <1>8, <2>1, <2>2 DEF PhaseOK, FailureOK, ManifestOK, BegunOK
  <2>4. RulesOK(n, u, g, d)
    BY <1>2, <1>8, <2>1, <2>2 DEF RulesOK, MutationOK
  <2>5. QED BY <2>1, <2>3, <2>4 DEF WorkOK
<1>9. CASE o.phase \in {"check", "add"} /\ ~o.restoring /\ o.kind \in Mutations
           /\ n = ToClean(r, FALSE)
  <2>1. /\ n \in Operations /\ n.phase = "clean" /\ n.restoring = FALSE /\ n.errors = e /\ n.failed = failed
        /\ n.kind = o.kind /\ n.old = o.old /\ n.new = o.new /\ n.fresh = o.fresh
        /\ n.reversing = o.reversing /\ n.begun = o.begun
    <3>1. IsClean(r, n, FALSE)
      BY <1>4, <1>9, Cleaning
    <3>2. QED BY <1>4, <3>1 DEF IsClean, KeptAll, Kept
  <2>2. o.kind # "apply" /\ o.kind # "remove" /\ l = m
    BY <1>2, <1>5, <1>9 DEF PhaseOK
  <2>3. PhaseOK(n) /\ FailureOK(n) /\ ManifestOK(n, l) /\ BegunOK(n, l, d)
    BY <1>2, <1>3, <1>9, <2>1, <2>2 DEF PhaseOK, FailureOK, ManifestOK, BegunOK
  <2>4. RulesOK(n, u, g, d)
    BY <1>2, <1>9, <2>1, <2>2 DEF RulesOK, MutationOK
  <2>5. QED BY <2>1, <2>3, <2>4 DEF WorkOK
<1>10. CASE /\ o.kind \in Mutations /\ o.phase = "commit"
            /\ n = Reversed(r, o.old, o.new)
  <2>1. /\ n \in Operations /\ n.phase = "verify" /\ n.restoring = o.restoring /\ n.errors = e /\ n.failed = failed
        /\ n.kind = o.kind /\ n.old = o.new /\ n.new = o.old /\ n.fresh = FALSE
        /\ n.reversing = TRUE /\ n.begun = o.begun
    <3>1. IsReversed(r, n, o.old, o.new)
      BY <1>1, <1>4, <1>10, Reversal
    <3>2. QED BY <1>4, <3>1 DEF IsReversed, Kept
  <2>2. o.kind # "apply" /\ o.kind # "remove" /\ failed = "commit"
    BY <1>2, <1>3, <1>5, <1>10 DEF FailureOK, PhaseOK
  <2>3. PhaseOK(n) /\ FailureOK(n) /\ ManifestOK(n, l)
    BY <1>1, <1>2, <1>10, <2>1, <2>2 DEF PhaseOK, FailureOK, ManifestOK
  <2>6. BegunOK(n, l, d)
    <3>1. BegunOK(o, m, d) /\ ~o.reversing /\ m = o.begun[1]
      BY <1>2, <1>10, InvIs DEF PhaseOK, ManifestOK
    <3>2. ~o.fresh => Exact(o.begun[2], o.begun[3], d, o.old)
      BY <1>2, <1>10, <3>1 DEF RulesOK, MutationOK
    <3>3. QED BY <2>1, <2>2, <3>1, <3>2 DEF BegunOK
  <2>4. RulesOK(n, u, g, d)
    BY <2>1, <2>2 DEF RulesOK
  <2>5. QED BY <2>1, <2>3, <2>4, <2>6 DEF WorkOK
<1>11. ASSUME NEW result \in Results, n = ToEnd(r, result),
              result \in {"conflict", "mismatch", "commit_failed", "rollback_failed", "transaction_failed"},
              result = "conflict" => o.kind = "apply" /\ o.phase = "check" /\ o.restoring,
              result = "mismatch" => o.kind = "apply" /\ o.phase = "final",
              result = "commit_failed" => o.kind = "apply" /\ o.phase = "commit",
              result = "transaction_failed" => o.kind \in Mutations /\ ~o.reversing /\ o.phase \in {"verify", "final"},
              o.phase = "commit" => o.kind = "apply", o.kind # "remove"
       PROVE  n \in Operations /\ n.phase # "idle" /\ WorkOK(l, u, g, d, n) /\ EndOK(l, u, g, d, n)
  <2>1. /\ n \in Operations /\ n.phase = "done" /\ n.restoring = o.restoring /\ n.errors = e /\ n.failed = failed
        /\ n.kind = o.kind /\ n.old = o.old /\ n.new = o.new /\ n.fresh = o.fresh
        /\ n.reversing = o.reversing /\ n.begun = o.begun /\ n.result = result
    <3>1. IsEnd(r, n, result)
      BY <1>4, <1>11, Ending
    <3>2. QED BY <1>4, <3>1 DEF IsEnd, KeptAll, Kept
  <2>2. FailureOK(n)
    BY <1>2, <1>3, <2>1 DEF FailureOK
  <2>3. PhaseOK(n) /\ ManifestOK(n, l) /\ BegunOK(n, l, d)
    BY <1>2, <1>5, <1>6, <1>11, <2>1 DEF PhaseOK, ManifestOK, BegunOK
  <2>4. RulesOK(n, u, g, d)
    BY <2>1 DEF RulesOK, MutationOK, ApplyOK
  <2>5. ASSUME result = "transaction_failed" PROVE ChangeUndone(l, u, g, d, n)
    <3>1. l = m /\ o.kind \in Mutations /\ ~o.reversing /\ o.phase \in {"verify", "final"} /\ ~o.restoring
      BY <1>2, <1>5, <1>11, <2>5 DEF PhaseOK
    <3>2. failed = o.phase
      BY <1>2, <1>3, <3>1 DEF FailureOK
    <3>3. m = o.begun[1]
      BY <1>2, <3>1 DEF ManifestOK
    <3>4. CASE o.phase = "verify"
      BY <1>2, <2>1, <3>1, <3>2, <3>3, <3>4 DEF RulesOK, MutationOK, ChangeUndone
    <3>5. CASE o.phase = "final"
      BY <1>2, <2>1, <3>1, <3>2, <3>3, <3>5 DEF RulesOK, ChangeUndone
    <3>6. QED BY <3>1, <3>4, <3>5
  <2>9. ASSUME result = "commit_failed" PROVE WriteUndone(l, u, g, d, n)
    <3>1. o.kind = "apply" /\ o.phase = "commit" /\ ~o.reversing /\ (l = m \/ l = o.new)
      BY <1>5, <1>11, <2>9
    <3>2. m = o.begun[1] /\ o.begun[1] = Missing /\ o.new = Exported(o.begun[1]) /\ o.old = o.new
      BY <1>2, <1>5, <3>1 DEF BegunOK
    <3>3. Exact(u, g, d, o.new)
      BY <1>2, <3>1 DEF RulesOK
    <3>4. QED BY <2>1, <3>1, <3>2, <3>3 DEF WriteUndone
  <2>6. ASSUME result \in {"conflict", "mismatch"}, e = 0 PROVE u.foreign \/ o.fresh \/ ~(u.sources \subseteq Exported(l).sources)
    <3>1. SUFFICES ASSUME ~o.fresh PROVE u.foreign \/ ~(u.sources \subseteq Exported(l).sources)
      OBVIOUS
    <3>2. o.kind = "apply" /\ o.phase = "check" /\ ~(u = NoRules /\ g = NoGuards) /\ o.errors = 0
      BY <1>11, <2>6, <3>1 DEF Counts
    <3>3. u.sources \cap o.old.sources = {} /\ ~u.public /\ g = NoGuards
      BY <1>2, <3>1, <3>2 DEF RulesOK, ApplyOK
    <3>4. ~u.foreign => u.sources # {}
      BY <3>2, <3>3, InvIs DEF NoRules, RuleSets
    <3>5. u.sources # {} => ~(u.sources \subseteq o.old.sources)
      BY <3>3
    <3>6. QED BY <1>5, <1>6, <3>2, <3>4, <3>5
  <2>7. EndOK(l, u, g, d, n)
    BY <1>11, <2>1, <2>5, <2>6, <2>9 DEF EndOK
  <2>8. QED BY <2>1, <2>2, <2>3, <2>4, <2>7 DEF WorkOK
<1>12. CASE o.kind = "apply" /\ o.phase = "verify" /\ n = ToClean(r, TRUE)
  <2>1. /\ n \in Operations /\ n.phase = "clean" /\ n.restoring = TRUE /\ n.errors = e /\ n.failed = failed
        /\ n.kind = o.kind /\ n.old = o.old /\ n.new = o.new /\ n.fresh = o.fresh
        /\ n.reversing = o.reversing /\ n.begun = o.begun
    <3>1. IsClean(r, n, TRUE)
      BY <1>4, <1>12, Cleaning
    <3>2. QED BY <1>4, <3>1 DEF IsClean, KeptAll, Kept
  <2>2. PhaseOK(n) /\ FailureOK(n) /\ ManifestOK(n, l) /\ BegunOK(n, l, d)
    BY <1>2, <1>5, <1>6, <1>12, <2>1 DEF PhaseOK, FailureOK, ManifestOK, BegunOK
  <2>3. RulesOK(n, u, g, d)
    BY <1>5, <1>12, <2>1 DEF RulesOK, ApplyOK
  <2>4. QED BY <2>1, <2>2, <2>3 DEF WorkOK
<1>13. CASE /\ o.kind = "apply" /\ (o.phase = "add" \/ (o.phase = "check" /\ ~o.restoring))
            /\ n = ToClean(r, FALSE)
  <2>1. /\ n \in Operations /\ n.phase = "clean" /\ n.restoring = FALSE /\ n.errors = e /\ n.failed = failed
        /\ n.kind = o.kind /\ n.old = o.old /\ n.new = o.new /\ n.fresh = o.fresh
        /\ n.reversing = o.reversing /\ n.begun = o.begun
    <3>1. IsClean(r, n, FALSE)
      BY <1>4, <1>13, Cleaning
    <3>2. QED BY <1>4, <3>1 DEF IsClean, KeptAll, Kept
  <2>2. PhaseOK(n) /\ FailureOK(n) /\ ManifestOK(n, l) /\ BegunOK(n, l, d)
    BY <1>2, <1>5, <1>6, <1>13, <2>1 DEF PhaseOK, FailureOK, ManifestOK, BegunOK
  <2>3. o.fresh \/ e # 0
    BY <1>2, <1>13 DEF Counts, RulesOK, ApplyOK
  <2>4. RulesOK(n, u, g, d)
    BY <1>5, <1>13, <2>1, <2>3 DEF RulesOK
  <2>5. QED BY <2>1, <2>2, <2>4 DEF WorkOK
<1>14. CASE o.kind = "remove" /\ n = ToClean(r, FALSE)
  <2>1. /\ n \in Operations /\ n.phase = "clean" /\ n.restoring = FALSE /\ n.errors = e /\ n.failed = failed
        /\ n.kind = o.kind /\ n.old = o.old /\ n.new = o.new /\ n.fresh = o.fresh
        /\ n.reversing = o.reversing /\ n.begun = o.begun
    <3>1. IsClean(r, n, FALSE)
      BY <1>4, <1>14, Cleaning
    <3>2. QED BY <1>4, <3>1 DEF IsClean, KeptAll, Kept
  <2>2. PhaseOK(n) /\ FailureOK(n) /\ ManifestOK(n, l) /\ BegunOK(n, l, d)
    BY <1>2, <1>5, <1>14, <2>1 DEF PhaseOK, FailureOK, ManifestOK, BegunOK
  <2>3. RulesOK(n, u, g, d)
    BY <1>5, <1>14, <2>1 DEF RulesOK
  <2>4. QED BY <2>1, <2>2, <2>3 DEF WorkOK
<1>15. CASE /\ o.kind \in Mutations
            /\ \/ /\ o.phase \in {"check", "add"} /\ o.restoring
                  /\ n = ToEnd(r, "rollback_failed")
               \/ /\ o.phase \in {"verify", "final"}
                  /\ n = ToEnd(r, IF o.reversing THEN "rollback_failed" ELSE "transaction_failed")
  <2>1. PICK result \in Results :
          /\ n = ToEnd(r, result)
          /\ result \in {"rollback_failed", "transaction_failed"}
          /\ result = "transaction_failed" => o.kind \in Mutations /\ ~o.reversing /\ o.phase \in {"verify", "final"}
    BY <1>15 DEF Results
  <2>2. o.phase # "commit" /\ o.kind # "remove" /\ result \notin {"conflict", "mismatch", "commit_failed"}
    BY <1>5, <1>15, <2>1
  <2>3. QED BY <1>11, <2>1, <2>2
<1>16. CASE /\ o.kind = "apply"
            /\ \/ o.phase = "check" /\ o.restoring /\ n = ToEnd(r, "conflict")
               \/ o.phase = "final" /\ n = ToEnd(r, "mismatch")
               \/ o.phase = "commit" /\ n = ToEnd(r, "commit_failed")
  BY <1>11, <1>16 DEF Results
<1>17. QED BY <1>8, <1>9, <1>10, <1>12, <1>13, <1>14, <1>15, <1>16 DEF FailsTo

------------------------------------------------------------------------------
(* After a cleanup, whether or not one of its commands failed (e # 0). *)

ToAgain(r) == [r EXCEPT !.phase = "check", !.restoring = TRUE]
ToPhase(r, x) == [r EXCEPT !.phase = x]

GoesOn(o, r, n) ==
  \/ o.kind = "remove" /\ n = ToPhase(r, "absent")
  \/ o.kind = "apply" /\ o.restoring /\ n = ToPhase(r, "check")
  \/ o.kind = "apply" /\ ~o.restoring /\ n = ToEnd(r, "conflict")
  \/ o.kind \in Mutations /\ (o.restoring \/ ~o.fresh) /\ n = ToAgain(r)
  \/ o.kind \in Mutations /\ ~o.restoring /\ o.fresh /\ n = ToEnd(r, "transaction_failed")

LEMMA AfterCleans ==
  ASSUME NEW o, o = op, o \in Operations, PhaseOK(o), FailureOK(o), NEW r,
         r.kind = o.kind, r.restoring = o.restoring, r.fresh = o.fresh, AfterClean(r), NEW n, n = op'
  PROVE  GoesOn(o, r, n)
<1>1. /\ Mutations = {"mode", "source"}
      /\ o.kind \in Mutations \/ o.kind = "apply" \/ o.kind = "remove"
  BY DEF Operations, Kinds, PhaseOK, Mutations
<1>2. CASE o.kind \in Mutations
  <2>1. o.fresh => ~o.reversing
    BY DEF FailureOK
  <2>2. CASE o.restoring \/ ~o.fresh
    BY <1>1, <1>2, <2>2 DEF AfterClean, GoesOn, ToAgain
  <2>3. CASE ~o.restoring /\ o.fresh
    BY <1>1, <1>2, <2>1, <2>3 DEF AfterClean, GoesOn, Dead, ToEnd
  <2>4. QED BY <2>2, <2>3
<1>3. CASE o.kind = "apply"
  <2>1. ~o.reversing
    BY <1>1, <1>3 DEF FailureOK
  <2>2. QED BY <1>1, <1>3, <2>1 DEF AfterClean, GoesOn, Dead, ToEnd, ToPhase
<1>4. CASE o.kind = "remove"
  BY <1>1, <1>4 DEF AfterClean, GoesOn, ToPhase
<1>5. QED BY <1>1, <1>2, <1>3, <1>4

IsPhase(r, n, x) == KeptAll(r, n) /\ n.phase = x /\ n.restoring = r.restoring
IsAgain(r, n) == KeptAll(r, n) /\ n.phase = "check" /\ n.restoring = TRUE

LEMMA Phasing ==
  ASSUME NEW r \in Operations, NEW x \in Phases
  PROVE  IsPhase(r, ToPhase(r, x), x)
BY DEF IsPhase, KeptAll, Kept, Operations, ToPhase

LEMMA Again ==
  ASSUME NEW r \in Operations
  PROVE  IsAgain(r, ToAgain(r))
<1>1. "check" \in Phases
  BY DEF Phases
<1>2. QED BY <1>1 DEF IsAgain, KeptAll, Kept, Operations, ToAgain

LEMMA CleansUp ==
  ASSUME NEW m, NEW u, NEW g, NEW d, NEW o, InvOf(m, u, g, d, o), o.phase = "clean",
         NEW e \in 0..MaxErrors, NEW r,
         \/ r = o /\ e = o.errors /\ u.sources \cap FileOf(o).sources = {} /\ ~u.public /\ g = NoGuards
         \/ r = [o EXCEPT !.errors = e, !.failed = "clean"] /\ e # 0,
         NEW n, GoesOn(o, r, n)
  PROVE  InvOf(m, u, g, d, n)
<1>1. o \in Operations /\ o.old \in Docs /\ o.new \in Docs
  BY InvIs
<1>2. PhaseOK(o) /\ FailureOK(o) /\ ManifestOK(o, m) /\ RulesOK(o, u, g, d) /\ BegunOK(o, m, d)
  BY InvIs
<1>3. "clean" \in Phases
  BY DEF Phases
<1>4. /\ r \in Operations /\ r.errors = e /\ (r.failed = "clean" \/ r.failed = o.failed)
      /\ r.phase = o.phase /\ r.kind = o.kind /\ r.old = o.old /\ r.new = o.new /\ r.fresh = o.fresh
      /\ r.restoring = o.restoring /\ r.reversing = o.reversing /\ r.begun = o.begun /\ r.result = o.result
  BY <1>1, <1>3 DEF Operations
<1>5. /\ o.kind = "apply" => o.kind \notin Mutations /\ o.old = o.new /\ o.old = Exported(m) /\ ~o.reversing
      /\ o.kind = "remove" => o.kind \notin Mutations /\ o.kind # "apply" /\ ~o.reversing
      /\ o.kind \in Mutations => o.kind # "apply" /\ o.kind # "remove"
  BY <1>2 DEF ManifestOK, FailureOK, Mutations
<1>6. SUFFICES n \in Operations /\ n.phase # "idle" /\ WorkOK(m, u, g, d, n) /\ (n.phase = "done" => EndOK(m, u, g, d, n))
  BY DEF InvOf, TypedOK
<1>7. CASE o.kind = "remove" /\ n = ToPhase(r, "absent")
  <2>1. "absent" \in Phases
    BY DEF Phases
  <2>2. IsPhase(r, n, "absent")
    BY <1>4, <1>7, <2>1, Phasing
  <2>3. /\ n \in Operations /\ n.phase = "absent" /\ n.kind = "remove" /\ n.old = o.old /\ n.new = o.new
        /\ n.begun = o.begun /\ n.reversing = o.reversing /\ n.fresh = o.fresh
    BY <1>4, <1>7, <2>2 DEF IsPhase, KeptAll, Kept
  <2>4. PhaseOK(n) /\ FailureOK(n) /\ ManifestOK(n, m) /\ BegunOK(n, m, d) /\ RulesOK(n, u, g, d)
    BY <1>2, <1>5, <1>7, <2>3 DEF PhaseOK, FailureOK, ManifestOK, RulesOK, BegunOK
  <2>5. QED BY <2>3, <2>4 DEF WorkOK
<1>8. CASE o.kind = "apply" /\ o.restoring /\ n = ToPhase(r, "check")
  <2>1. "check" \in Phases
    BY DEF Phases
  <2>2. IsPhase(r, n, "check")
    BY <1>4, <1>8, <2>1, Phasing
  <2>3. /\ n \in Operations /\ n.phase = "check" /\ n.kind = "apply" /\ n.old = o.old /\ n.new = o.new
        /\ n.begun = o.begun /\ n.reversing = o.reversing /\ n.fresh = o.fresh /\ n.errors = e /\ n.restoring
    BY <1>4, <1>8, <2>2 DEF IsPhase, KeptAll, Kept
  <2>4. PhaseOK(n) /\ FailureOK(n) /\ ManifestOK(n, m) /\ BegunOK(n, m, d)
    BY <1>2, <1>5, <1>8, <2>3 DEF PhaseOK, FailureOK, ManifestOK, BegunOK
  <2>5. e = 0 => u.sources \cap o.old.sources = {} /\ ~u.public /\ g = NoGuards
    BY <1>8 DEF FileOf
  <2>6. RulesOK(n, u, g, d)
    BY <1>5, <1>8, <2>3, <2>5 DEF RulesOK, ApplyOK
  <2>7. QED BY <2>3, <2>4, <2>6 DEF WorkOK
<1>9. CASE o.kind = "apply" /\ ~o.restoring /\ n = ToEnd(r, "conflict")
  <2>1. "conflict" \in Results
    BY DEF Results
  <2>2. IsEnd(r, n, "conflict")
    BY <1>4, <1>9, <2>1, Ending
  <2>3. /\ n \in Operations /\ n.phase = "done" /\ n.kind = "apply" /\ n.old = o.old /\ n.new = o.new
        /\ n.begun = o.begun /\ n.reversing = o.reversing /\ n.fresh = o.fresh /\ n.errors = e /\ n.result = "conflict"
    BY <1>4, <1>9, <2>2 DEF IsEnd, KeptAll, Kept
  <2>4. PhaseOK(n) /\ FailureOK(n) /\ ManifestOK(n, m) /\ BegunOK(n, m, d)
    BY <1>2, <1>5, <1>9, <2>3 DEF PhaseOK, FailureOK, ManifestOK, BegunOK
  <2>5. RulesOK(n, u, g, d)
    BY <1>5, <1>9, <2>3 DEF RulesOK, ApplyOK
  <2>6. e = 0 => o.fresh
    BY <1>2, <1>9 DEF RulesOK, ApplyOK
  <2>7. EndOK(m, u, g, d, n)
    BY <2>3, <2>6 DEF EndOK
  <2>8. QED BY <2>3, <2>4, <2>5, <2>7 DEF WorkOK
<1>10. CASE o.kind \in Mutations /\ (o.restoring \/ ~o.fresh) /\ n = ToAgain(r)
  <2>1. IsAgain(r, n)
    BY <1>4, <1>10, Again
  <2>2. /\ n \in Operations /\ n.phase = "check" /\ n.kind = o.kind /\ n.old = o.old /\ n.new = o.new
        /\ n.begun = o.begun /\ n.reversing = o.reversing /\ n.fresh = o.fresh /\ n.restoring = TRUE
        /\ n.failed = r.failed
    BY <1>4, <1>10, <2>1 DEF IsAgain, KeptAll, Kept
  <2>3. ~o.reversing => ~o.fresh
    BY <1>2, <1>10 DEF RulesOK, MutationOK
  <2>4. PhaseOK(n) /\ ManifestOK(n, m) /\ BegunOK(n, m, d)
    BY <1>2, <1>5, <1>10, <2>2 DEF PhaseOK, ManifestOK, BegunOK
  <2>5. FailureOK(n)
    BY <1>2, <1>4, <2>2 DEF FailureOK
  <2>6. RulesOK(n, u, g, d)
    BY <1>2, <1>5, <1>10, <2>2, <2>3 DEF RulesOK, MutationOK
  <2>7. QED BY <2>2, <2>4, <2>5, <2>6 DEF WorkOK
<1>11. CASE o.kind \in Mutations /\ ~o.restoring /\ o.fresh /\ n = ToEnd(r, "transaction_failed")
  <2>1. "transaction_failed" \in Results
    BY DEF Results
  <2>2. IsEnd(r, n, "transaction_failed")
    BY <1>4, <1>11, <2>1, Ending
  <2>3. /\ n \in Operations /\ n.phase = "done" /\ n.kind = o.kind /\ n.old = o.old /\ n.new = o.new
        /\ n.begun = o.begun /\ n.reversing = o.reversing /\ n.fresh = o.fresh /\ n.errors = e
        /\ n.result = "transaction_failed" /\ n.failed = r.failed
    BY <1>4, <1>11, <2>2 DEF IsEnd, KeptAll, Kept
  <2>4. PhaseOK(n) /\ ManifestOK(n, m) /\ BegunOK(n, m, d)
    BY <1>2, <1>5, <1>11, <2>3 DEF PhaseOK, ManifestOK, BegunOK
  <2>5. FailureOK(n)
    BY <1>2, <1>11, <2>3 DEF FailureOK
  <2>6. RulesOK(n, u, g, d)
    BY <1>5, <1>11, <2>3 DEF RulesOK, MutationOK
  <2>7. ASSUME r.failed # "clean" PROVE u = o.begun[2] /\ g = o.begun[3]
    <3>1. u.sources \cap o.new.sources = {} /\ ~u.public /\ g = NoGuards
      <4>1. FileOf(o) = o.new
        BY <1>11 DEF FileOf
      <4>2. CASE r = o /\ e = o.errors /\ u.sources \cap FileOf(o).sources = {} /\ ~u.public /\ g = NoGuards
        BY <4>1, <4>2
      <4>3. CASE r = [o EXCEPT !.errors = e, !.failed = "clean"] /\ e # 0
        BY <1>1, <2>7, <4>3 DEF Operations
      <4>4. QED BY <4>2, <4>3
    <3>2. ~o.reversing /\ MutationOK(o, u, g, d)
      BY <1>2, <1>11 DEF FailureOK, RulesOK
    <3>3. /\ o.begun[2] = NoRules /\ o.begun[3] = NoGuards
          /\ u.sources \subseteq o.new.sources /\ ~u.foreign
      BY <1>11, <3>2 DEF MutationOK
    <3>4. u.sources = {}
      BY <3>1, <3>3
    <3>5. u = NoRules
      BY <3>1, <3>3, <3>4, InvIs DEF RuleSets, NoRules
    <3>6. QED BY <3>1, <3>3, <3>5
  <2>8. EndOK(m, u, g, d, n)
    <3>1. ~o.reversing
      BY <1>2, <1>11 DEF FailureOK
    <3>2. m = o.begun[1] /\ r.failed # "final"
      BY <1>2, <1>4, <1>11, <3>1 DEF ManifestOK, FailureOK
    <3>3. ChangeUndone(m, u, g, d, n)
      BY <2>3, <2>7, <3>2 DEF ChangeUndone
    <3>4. QED BY <1>5, <1>11, <2>3, <3>3 DEF EndOK
  <2>9. QED BY <2>3, <2>4, <2>5, <2>6, <2>8 DEF WorkOK
<1>12. QED BY <1>7, <1>8, <1>9, <1>10, <1>11 DEF GoesOn

------------------------------------------------------------------------------
(* An operation ends otherwise, begins, is gone, or changes a rule. *)

Comes(o, result, m, u, g, d) ==
  \/ /\ o.phase = "add" /\ o.kind \in Mutations /\ o.restoring /\ Exact(u, g, d, o.old)
     /\ result = IF o.reversing THEN "rollback_failed" ELSE "transaction_failed"
  \/ o.phase = "final" /\ o.reversing /\ result = "commit_failed"
  \/ o.phase = "final" /\ o.kind \notin Mutations /\ result = "success"
  \/ /\ o.phase = "confirm"
     /\ \/ result = "success" /\ Exact(u, g, d, o.old)
        \/ result \in {"mismatch", "rollback_failed"}
  \/ /\ o.phase = "absent"
     /\ (result = "success" /\ u = NoRules /\ g = NoGuards) \/ result = "conflict"

LEMMA Comings ==
  ASSUME NEW m, NEW u, NEW g, NEW d, NEW o, InvOf(m, u, g, d, o), NEW result, Comes(o, result, m, u, g, d),
         NEW n, n = ToEnd(o, result)
  PROVE  InvOf(m, u, g, d, n)
<1>1. o \in Operations /\ o.old \in Docs /\ o.new \in Docs
  BY InvIs DEF Comes
<1>2. PhaseOK(o) /\ FailureOK(o) /\ ManifestOK(o, m) /\ RulesOK(o, u, g, d) /\ BegunOK(o, m, d)
  BY InvIs DEF Comes
<1>3. result \in Results
  BY DEF Comes, Results
<1>4. IsEnd(o, n, result)
  BY <1>1, <1>3, Ending
<1>5. /\ n \in Operations /\ n.phase = "done" /\ n.kind = o.kind /\ n.old = o.old /\ n.new = o.new
      /\ n.begun = o.begun /\ n.reversing = o.reversing /\ n.fresh = o.fresh /\ n.restoring = o.restoring
      /\ n.result = result /\ n.failed = o.failed /\ n.errors = o.errors
  BY <1>4 DEF IsEnd, KeptAll, Kept
<1>6. /\ o.kind = "apply" => o.kind \notin Mutations /\ o.old = o.new /\ o.old = Exported(m) /\ ~o.reversing
      /\ o.kind = "remove" => o.kind \notin Mutations /\ ~o.reversing
      /\ o.kind \in Mutations \/ o.kind = "apply" \/ o.kind = "remove"
  BY <1>1, <1>2 DEF ManifestOK, FailureOK, PhaseOK, Mutations, Operations, Kinds
<1>7. PhaseOK(n) /\ ManifestOK(n, m) /\ BegunOK(n, m, d)
  BY <1>2, <1>5 DEF PhaseOK, ManifestOK, BegunOK
<1>8. FailureOK(n)
  BY <1>2, <1>5 DEF FailureOK
<1>9. RulesOK(n, u, g, d)
  BY <1>5 DEF RulesOK, MutationOK, ApplyOK
<1>10. ASSUME result = "success"
       PROVE  IF o.kind = "remove" THEN u = NoRules /\ g = NoGuards
              ELSE Exact(u, g, d, Exported(m)) /\ Exported(m) = o.new
  <2>1. CASE o.phase = "final"
    BY <1>2, <1>6, <1>10, <2>1 DEF Comes, PhaseOK, RulesOK
  <2>2. CASE o.phase = "confirm"
    <3>1. o.kind # "remove" /\ o.old = Exported(m) /\ o.new = Exported(m)
      BY <1>2, <2>2 DEF PhaseOK, ManifestOK
    <3>2. QED BY <1>10, <2>2, <3>1 DEF Comes
  <2>3. CASE o.phase = "absent"
    <3>1. o.kind = "remove"
      BY <1>2, <1>6, <2>3 DEF PhaseOK
    <3>2. QED BY <1>10, <2>3, <3>1 DEF Comes
  <2>4. CASE o.phase = "add"
    BY <1>10, <2>4 DEF Comes
  <2>5. QED BY <2>1, <2>2, <2>3, <2>4 DEF Comes
<1>11. ASSUME result = "transaction_failed" PROVE ChangeUndone(m, u, g, d, n)
  <2>1. o.phase = "add" /\ o.kind \in Mutations /\ o.restoring /\ Exact(u, g, d, o.old) /\ ~o.reversing
    BY <1>11 DEF Comes
  <2>2. Exact(o.begun[2], o.begun[3], d, o.old)
    BY <1>1, <1>2, <2>1 DEF RulesOK, MutationOK, Operations
  <2>3. m = o.begun[1] /\ o.failed # "final"
    BY <1>2, <2>1 DEF ManifestOK, FailureOK
  <2>4. QED BY <1>5, <2>1, <2>2, <2>3 DEF Exact, ChangeUndone
<1>15. ASSUME result = "commit_failed" PROVE WriteUndone(m, u, g, d, n)
  <2>1. o.phase = "final" /\ o.reversing
    BY <1>15 DEF Comes
  <2>2. Exact(u, g, d, o.new)
    BY <1>2, <2>1 DEF RulesOK
  <2>3. QED BY <1>2, <1>5, <2>1, <2>2 DEF BegunOK, Exact, WriteUndone
<1>12. ~(o.kind = "apply" /\ result \in {"conflict", "mismatch"})
  BY <1>2, <1>6 DEF Comes, PhaseOK
<1>13. EndOK(m, u, g, d, n)
  BY <1>5, <1>10, <1>11, <1>12, <1>15 DEF EndOK
<1>14. QED BY <1>5, <1>7, <1>8, <1>9, <1>13 DEF InvOf, TypedOK, WorkOK

LEMMA Begins ==
  ASSUME NEW m, NEW u, NEW g, NEW d, NEW o, InvOf(m, u, g, d, o), NEW kind, NEW phase, NEW new \in Docs,
         \/ /\ kind \in Mutations
            /\ phase = "verify" \/ (phase = "confirm" /\ new = Exported(m))
         \/ /\ kind = "apply" /\ new = Exported(m)
            /\ phase = IF m = Missing THEN "check" ELSE "verify"
         \/ kind = "remove" /\ new = Exported(m) /\ phase \in {"absent", "verify"},
         NEW fresh, fresh = (m = Missing), NEW n,
         n = [Idle EXCEPT !.kind = kind, !.phase = phase, !.old = Exported(m), !.new = new,
                          !.fresh = fresh, !.begun = <<m, u, g>>]
  PROVE  InvOf(m, u, g, d, n)
<1>1. m \in Manifests /\ u \in RuleSets /\ g \in GuardSets /\ d \in BOOLEAN /\ Exported(m) \in Docs
  BY InvIs
<1>2. kind \in Kinds \ {"none"} /\ phase \in Phases \ {"idle", "done"} /\ fresh \in BOOLEAN
  BY DEF Kinds, Phases, Mutations
<1>3. <<m, u, g>> \in Manifests \X RuleSets \X GuardSets
  BY <1>1
<1>4. Idle \in Operations /\ Idle.restoring = FALSE /\ Idle.reversing = FALSE /\ Idle.failed = "nowhere" /\ Idle.errors = 0
  BY Values DEF Idle
<1>5. new \in Manifests /\ Exported(m) \in Manifests
  BY <1>1 DEF Manifests
<1>6. n \in Operations
  BY <1>2, <1>3, <1>4, <1>5 DEF Operations
<1>7. /\ n.kind = kind /\ n.phase = phase /\ n.old = Exported(m) /\ n.new = new /\ n.begun = <<m, u, g>>
      /\ n.failed = "nowhere" /\ n.errors = 0
  BY <1>4 DEF Operations
<1>8. n.restoring = FALSE /\ n.reversing = FALSE /\ n.fresh = fresh
  BY <1>4 DEF Operations
<1>9. PhaseOK(n) /\ FailureOK(n)
  BY <1>1, <1>2, <1>3, <1>7, <1>8 DEF PhaseOK, FailureOK, Mutations
<1>10. ManifestOK(n, m)
  BY <1>7 DEF ManifestOK, Mutations
<1>13. BegunOK(n, m, d)
  BY <1>1, <1>2, <1>7, <1>8 DEF BegunOK
<1>11. RulesOK(n, u, g, d)
  <2>1. phase # "add" /\ phase \notin {"final", "commit"} /\ (kind \in Mutations => phase \in {"verify", "confirm"})
        /\ (kind = "apply" => phase = "verify" \/ (phase = "check" /\ fresh))
    BY DEF Mutations
  <2>2. QED BY <1>7, <1>8, <2>1 DEF RulesOK, MutationOK, ApplyOK
<1>12. QED BY <1>1, <1>2, <1>6, <1>7, <1>9, <1>10, <1>11, <1>13 DEF InvOf, TypedOK, WorkOK

(* Killed, finished, rebooted; or a foreign rule between two operations. *)
LEMMA Leaves ==
  ASSUME NEW m, NEW u, NEW g, NEW d, NEW o, InvOf(m, u, g, d, o),
         NEW v \in RuleSets, NEW h, h = g \/ h = NoGuards, NEW n \in Operations, n.phase = "idle"
  PROVE  InvOf(m, v, h, d, n)
<1>1. NoGuards \in GuardSets /\ NoGuards[6].is = "absent"
  BY Values DEF NoGuards, NoGuard, Families
<1>2. QED BY <1>1 DEF InvOf, TypedOK

LEMMA Erases ==
  ASSUME NEW m, NEW u, NEW g, NEW d, NEW o, InvOf(m, u, g, d, o), o.phase \in {"remove", "clean"},
         NEW v \in RuleSets, v.sources \subseteq u.sources, v.foreign = u.foreign,
         NEW h \in GuardSets, h[6].is # "absent" => g[6].is # "absent"
  PROVE  InvOf(m, v, h, d, o)
<1>1. RulesOK(o, u, g, d)
  BY InvIs
<1>2. RulesOK(o, v, h, d)
  BY <1>1 DEF RulesOK, MutationOK, ApplyOK
<1>3. QED BY <1>2 DEF InvOf, TypedOK, WorkOK

LEMMA Adds ==
  ASSUME NEW m, NEW u, NEW g, NEW d, NEW o, InvOf(m, u, g, d, o), o.phase = "add",
         NEW v \in RuleSets, NEW h \in GuardSets, Partly(v, h, d, FileOf(o)), h[6].is # "absent" => d
  PROVE  InvOf(m, v, h, d, o)
<1>1. RulesOK(o, u, g, d) /\ FileOf(o) \in Docs
  BY InvIs
<1>2. v.sources \subseteq FileOf(o).sources /\ ~v.foreign
  <2>1. Asked(FileOf(o)).sources \subseteq FileOf(o).sources
    BY <1>1, AskedIs
  <2>2. v.sources \subseteq Asked(FileOf(o)).sources /\ ~v.foreign
    BY DEF Partly
  <2>3. QED BY <2>1, <2>2
<1>3. RulesOK(o, v, h, d)
  BY <1>1, <1>2 DEF RulesOK, MutationOK, ApplyOK, FileOf
<1>4. QED BY <1>3 DEF InvOf, TypedOK, WorkOK

LEMMA Commits ==
  ASSUME NEW m, NEW u, NEW g, NEW d, NEW o, InvOf(m, u, g, d, o), o.phase = "commit", NEW n,
         \/ o.kind = "apply" /\ n = ToPhase(o, "final")
         \/ o.kind \in Mutations /\ n = ToEnd(o, "success")
  PROVE  InvOf(o.new, u, g, d, n)
<1>1. o \in Operations /\ o.old \in Docs /\ o.new \in Docs /\ g \in GuardSets /\ d \in BOOLEAN
  BY InvIs
<1>2. PhaseOK(o) /\ FailureOK(o) /\ ManifestOK(o, m) /\ RulesOK(o, u, g, d) /\ BegunOK(o, m, d)
  BY InvIs
<1>3. Exact(u, g, d, o.new) /\ Exported(o.new) = o.new /\ o.new \in Manifests
  BY <1>1, <1>2, Values DEF RulesOK, Manifests
<1>4. OfFamily(6, o.new.sources) # {} => d
  <2>1. OfFamily(6, o.new.sources) # {} => g[6].is # "absent"
    BY <1>1, <1>3, GuardsAre DEF Exact
  <2>2. QED BY <2>1 DEF InvOf
<1>5. CASE o.kind = "apply" /\ n = ToPhase(o, "final")
  <2>1. "final" \in Phases
    BY DEF Phases
  <2>2. IsPhase(o, n, "final")
    BY <1>1, <1>5, <2>1, Phasing
  <2>3. /\ n \in Operations /\ n.phase = "final" /\ n.kind = "apply" /\ n.old = o.old /\ n.new = o.new
        /\ n.begun = o.begun /\ n.reversing = o.reversing /\ n.fresh = o.fresh
    BY <1>5, <2>2 DEF IsPhase, KeptAll, Kept
  <2>4. o.kind \notin Mutations /\ o.old = o.new
    BY <1>2, <1>5 DEF ManifestOK, Mutations
  <2>5. PhaseOK(n) /\ FailureOK(n) /\ ManifestOK(n, o.new) /\ BegunOK(n, o.new, d)
    BY <1>2, <1>3, <1>5, <2>3, <2>4 DEF PhaseOK, FailureOK, ManifestOK, BegunOK
  <2>6. RulesOK(n, u, g, d)
    BY <1>3, <1>5, <2>3, <2>4 DEF RulesOK, ApplyOK
  <2>7. QED BY <1>1, <1>3, <1>4, <2>3, <2>5, <2>6 DEF InvOf, TypedOK, WorkOK
<1>6. CASE o.kind \in Mutations /\ n = ToEnd(o, "success")
  <2>1. "success" \in Results
    BY DEF Results
  <2>2. IsEnd(o, n, "success")
    BY <1>1, <1>6, <2>1, Ending
  <2>3. /\ n \in Operations /\ n.phase = "done" /\ n.kind = o.kind /\ n.old = o.old /\ n.new = o.new
        /\ n.begun = o.begun /\ n.reversing = o.reversing /\ n.fresh = o.fresh /\ n.result = "success"
    BY <2>2 DEF IsEnd, KeptAll, Kept
  <2>4. o.kind # "apply" /\ o.kind # "remove" /\ ~o.reversing
    BY <1>2, <1>6 DEF Mutations, PhaseOK
  <2>5. PhaseOK(n) /\ FailureOK(n) /\ ManifestOK(n, o.new) /\ BegunOK(n, o.new, d)
    BY <1>2, <1>3, <1>6, <2>3, <2>4 DEF PhaseOK, FailureOK, ManifestOK, BegunOK
  <2>6. RulesOK(n, u, g, d)
    BY <2>3, <2>4 DEF RulesOK, MutationOK
  <2>7. EndOK(o.new, u, g, d, n)
    BY <1>3, <2>3, <2>4 DEF EndOK
  <2>8. QED BY <1>1, <1>3, <1>4, <2>3, <2>5, <2>6, <2>7 DEF InvOf, TypedOK, WorkOK
<1>7. QED BY <1>5, <1>6

------------------------------------------------------------------------------
(* The actions. *)

LEMMA InitIsIInv == Init => IInv
<1> SUFFICES ASSUME Init PROVE IInv
  OBVIOUS
<1>1. manifest = Missing /\ ufw = NoRules /\ guard = NoGuards /\ docker6 \in BOOLEAN /\ op = Idle
  BY DEF Init, NoGuards
<1>2. Missing \in Manifests /\ Idle.phase = "idle" /\ NoGuards[6].is = "absent"
  BY DEF Manifests, Idle, NoGuards, NoGuard, Families
<1>3. OfFamily(6, Exported(Missing).sources) = {}
  BY DEF OfFamily, Exported, Document
<1>4. QED BY <1>1, <1>2, <1>3, Values DEF IInv, InvOf, TypedOK

LEMMA StartKeeps == ASSUME IInv, Start PROVE IInv'
<1>1. PICK m, u, g, d, o : m = manifest /\ u = ufw /\ g = guard /\ d = docker6 /\ o = op /\ InvOf(m, u, g, d, o)
  BY DEF IInv
<1>2. Export = Exported(m) /\ Exported(m) \in Docs
  BY <1>1, InvIs, Checks
<1>3. ASSUME NEW kind, NEW phase, NEW new, new \in Docs, Begin(kind, phase, new, manifest = Missing),
             \/ /\ kind \in Mutations
                /\ phase = "verify" \/ (phase = "confirm" /\ new = Exported(m))
             \/ /\ kind = "apply" /\ new = Exported(m)
                /\ phase = IF m = Missing THEN "check" ELSE "verify"
             \/ kind = "remove" /\ new = Exported(m) /\ phase \in {"absent", "verify"}
      PROVE  IInv'
  <2>1. PICK fresh, n : fresh = (m = Missing)
               /\ n = [Idle EXCEPT !.kind = kind, !.phase = phase, !.old = Exported(m), !.new = new,
                                   !.fresh = fresh, !.begun = <<m, u, g>>]
    OBVIOUS
  <2>2. op' = n /\ manifest' = m /\ ufw' = u /\ guard' = g /\ docker6' = d
    BY <1>1, <1>2, <1>3, <2>1 DEF Begin, rules
  <2>3. InvOf(m, u, g, d, n)
    BY <1>1, <1>3, <2>1, Begins
  <2>4. QED BY <2>2, <2>3 DEF IInv
<1>4. ASSUME NEW kind \in Mutations, NEW new \in Docs, Candidate(kind, new) PROVE IInv'
  <2>1. PICK unchanged : unchanged = (new = Export /\ (kind = "source" \/ manifest # Missing))
    OBVIOUS
  <2>2. Begin(kind, IF unchanged THEN "confirm" ELSE "verify", new, manifest = Missing)
    BY <1>4, <2>1 DEF Candidate
  <2>3. QED BY <1>2, <1>3, <2>1, <2>2
<1>5. ASSUME NEW mode \in FirewallModes, ChangeMode(mode) PROVE IInv'
  <2>1. Document(mode, Export.sources) \in Docs
    BY <1>2 DEF Docs, Document
  <2>2. QED BY <1>4, <1>5, <2>1 DEF ChangeMode, Mutations
<1>6. ASSUME NEW c \in Cidrs, RemoveSource(c) PROVE IInv'
  <2>1. Document(Export.mode, Export.sources \ {c}) \in Docs
    BY <1>2 DEF Docs, Document
  <2>2. QED BY <1>4, <1>6, <2>1 DEF RemoveSource, Mutations
<1>7. ASSUME NEW c \in Cidrs, NEW nonPublic, NEW broad, AddSource(c, nonPublic, broad) PROVE IInv'
  <2>1. Document(Export.mode, Export.sources \cup {c}) \in Docs
    BY <1>2 DEF Docs, Document
  <2>2. Candidate("source", Document(Export.mode, Export.sources \cup {c}))
    BY <1>7 DEF AddSource
  <2>3. QED BY <1>4, <2>1, <2>2 DEF Mutations
<1>8. ASSUME ApplyRules PROVE IInv'
  BY <1>1, <1>2, <1>3, <1>8 DEF ApplyRules
<1>9. ASSUME RemoveRules PROVE IInv'
  BY <1>1, <1>2, <1>3, <1>9 DEF RemoveRules
<1>10. QED BY <1>5, <1>6, <1>7, <1>8, <1>9 DEF Start

(* A failing step: a check that did not hold, or a command. *)
LEMMA FailKeeps ==
  ASSUME IInv, op.phase \in {"verify", "remove", "check", "add", "final", "commit"},
         NEW e \in 0..MaxErrors, Counts(op, ufw, guard, e),
         FailTo(Failed([op EXCEPT !.errors = e])), UNCHANGED <<ufw, guard, docker6>>,
         manifest' = manifest \/ (op.phase = "commit" /\ manifest' = op.new)
  PROVE  IInv'
<1>1. PICK m, u, g, d, o : m = manifest /\ u = ufw /\ g = guard /\ d = docker6 /\ o = op /\ InvOf(m, u, g, d, o)
  BY DEF IInv
<1>2. o \in Operations /\ PhaseOK(o) /\ FailureOK(o)
  BY <1>1, InvIs
<1>3. PICK r : r = Counted(o, e)
  OBVIOUS
<1>4. Failed([op EXCEPT !.errors = e]) = r
  BY <1>1, <1>2, <1>3 DEF Failed, Operations, Counted
<1>5. PICK n, l : n = op' /\ l = manifest'
  OBVIOUS
<1>6. FailsTo(o, r, n)
  BY <1>1, <1>2, <1>4, <1>5, FailTos
<1>7. InvOf(l, u, g, d, n)
  BY <1>1, <1>3, <1>5, <1>6, Fails
<1>8. QED BY <1>1, <1>5, <1>7 DEF IInv

(* What an action needs of the invariant: values for the variables, and the
   code's checks as checks of those. *)
LEMMA Here ==
  ASSUME IInv
  PROVE  /\ InvOf(manifest, ufw, guard, docker6, op)
         /\ op \in Operations /\ op.errors \in 0..MaxErrors
         /\ manifest \in Manifests /\ ufw \in RuleSets /\ guard \in GuardSets /\ docker6 \in BOOLEAN
         /\ \A doc : RulesExact(doc) <=> Exact(ufw, guard, docker6, doc)
         /\ RulesAbsent <=> ufw = NoRules /\ guard = NoGuards
         /\ Export = Exported(manifest) /\ File = FileOf(op)
         /\ \A f, doc : GuardRequired(f, doc) <=> Required(docker6, f, doc)
<1>1. InvOf(manifest, ufw, guard, docker6, op)
  BY DEF IInv
<1>2. op \in Operations /\ guard \in GuardSets
  BY <1>1, InvIs
<1>3. op.errors \in 0..MaxErrors
  BY <1>2 DEF Operations
<1>4. QED BY <1>1, <1>2, <1>3, InvIs, Checks

LEMMA ToKeeps ==
  ASSUME IInv, NEW x, Leads(op, x, manifest, ufw, guard, docker6), To(x), Still, UNCHANGED docker6
  PROVE  IInv'
<1>1. PICK m, u, g, d, o : m = manifest /\ u = ufw /\ g = guard /\ d = docker6 /\ o = op /\ InvOf(m, u, g, d, o)
  BY DEF IInv
<1>2. PICK n : n = [o EXCEPT !.phase = x]
  OBVIOUS
<1>3. InvOf(m, u, g, d, n)
  BY <1>1, <1>2, Goes
<1>4. QED BY <1>1, <1>2, <1>3 DEF To, Still, rules, IInv

(* A step that a check fails, no command. *)
LEMMA CheckFails ==
  ASSUME IInv, op.phase \in {"verify", "remove", "check", "add", "final", "commit"},
         Counts(op, ufw, guard, op.errors), Fail, Still, UNCHANGED docker6
  PROVE  IInv'
<1>1. [op EXCEPT !.errors = op.errors] = op
  BY Here DEF Operations
<1>2. FailTo(Failed([op EXCEPT !.errors = op.errors]))
  BY <1>1 DEF Fail
<1>3. QED BY <1>2, Here, FailKeeps DEF Still, rules

LEMMA EndKeeps ==
  ASSUME IInv, NEW result,
         Comes(op, IF op.reversing /\ result # "commit_failed" THEN "rollback_failed" ELSE result,
               manifest, ufw, guard, docker6),
         End(result), Still, UNCHANGED docker6
  PROVE  IInv'
<1>1. PICK m, u, g, d, o : m = manifest /\ u = ufw /\ g = guard /\ d = docker6 /\ o = op /\ InvOf(m, u, g, d, o)
  BY DEF IInv
<1>2. PICK as : as = (IF op.reversing /\ result # "commit_failed" THEN "rollback_failed" ELSE result)
  OBVIOUS
<1>3. PICK n : n = ToEnd(o, as)
  OBVIOUS
<1>4. InvOf(m, u, g, d, n)
  BY <1>1, <1>2, <1>3, Comings
<1>5. op' = n
  BY <1>1, <1>2, <1>3 DEF End, ToEnd
<1>6. QED BY <1>1, <1>4, <1>5 DEF Still, rules, IInv

LEMMA VerifyKeeps ==
  ASSUME IInv, VerifyMutation \/ VerifyApply \/ VerifyRemove
  PROVE  IInv'
<1>1. op.phase = "verify" /\ UNCHANGED docker6 /\ Still
  BY DEF VerifyMutation, VerifyApply, VerifyRemove, Working
<1>2. Counts(op, ufw, guard, op.errors)
  BY <1>1 DEF Counts
<1>3. Fail => IInv'
  BY <1>1, <1>2, CheckFails
<1>4. CASE VerifyMutation
  BY <1>1, <1>3, <1>4, Here, ToKeeps DEF VerifyMutation, Leads
<1>5. CASE VerifyApply
  BY <1>1, <1>3, <1>5, Here, ToKeeps DEF VerifyApply, Leads
<1>6. CASE VerifyRemove
  BY <1>1, <1>3, <1>6, Here, ToKeeps DEF VerifyRemove, Leads
<1>7. QED BY <1>4, <1>5, <1>6

LEMMA EraseKeeps == ASSUME IInv, Erase PROVE IInv'
<1>1. PICK m, u, g, d, o : m = manifest /\ u = ufw /\ g = guard /\ d = docker6 /\ o = op /\ InvOf(m, u, g, d, o)
  BY DEF IInv
<1>2. /\ o.phase \in {"remove", "clean"} /\ UNCHANGED <<manifest, op, docker6>> /\ (EraseRule \/ EraseGuard)
      /\ u \in RuleSets /\ g \in GuardSets
  BY <1>1, Here DEF Erase, Working
<1>3. CASE EraseRule
  <2>1. PICK v : v = ufw'
    OBVIOUS
  <2>2. v \in RuleSets /\ v.sources \subseteq u.sources /\ v.foreign = u.foreign
    BY <1>1, <1>2, <1>3, <2>1 DEF EraseRule, RuleSets
  <2>3. InvOf(m, v, g, d, o)
    BY <1>1, <1>2, <2>2, Erases
  <2>4. QED BY <1>1, <1>2, <1>3, <2>1, <2>3 DEF EraseRule, IInv
<1>4. CASE EraseGuard
  <2>1. PICK f \in Families : /\ g[f].is # "absent"
                              /\ guard' = [guard EXCEPT ![f] = IF @.is = "exact" THEN HalfGuard ELSE NoGuard]
    BY <1>1, <1>4 DEF EraseGuard
  <2>2. PICK h : h = guard'
    OBVIOUS
  <2>3. HalfGuard \in [is : {"absent", "partial", "exact"}, doc : Manifests]
        /\ NoGuard \in [is : {"absent", "partial", "exact"}, doc : Manifests]
    BY DEF HalfGuard, NoGuard, Manifests
  <2>4. h \in GuardSets
    BY <1>1, <1>2, <2>1, <2>2, <2>3 DEF GuardSets
  <2>5. h[6].is # "absent" => g[6].is # "absent"
    BY <1>1, <1>2, <2>1, <2>2 DEF GuardSets, Families
  <2>6. InvOf(m, u, h, d, o)
    BY <1>1, <1>2, <2>4, <2>5, Erases
  <2>7. QED BY <1>1, <1>2, <1>4, <2>2, <2>6 DEF EraseGuard, IInv
<1>5. QED BY <1>2, <1>3, <1>4

LEMMA RemovedKeeps == ASSUME IInv, Removed PROVE IInv'
<1>1. op.phase = "remove" /\ UNCHANGED docker6 /\ Still /\ PhaseOK(op)
  BY Here, InvIs DEF Removed, Working
<1>2. op.kind \in Mutations \/ (op.kind = "remove" /\ op.kind \notin Mutations)
  BY <1>1, Here DEF PhaseOK, Operations, Kinds, Mutations
<1>3. CASE RulesAbsent
  <2>1. CASE op.kind = "remove"
    BY <1>1, <1>3, <2>1, ToKeeps DEF Removed, Leads
  <2>2. CASE op.kind \in Mutations /\ op.kind # "remove"
    BY <1>1, <1>3, <2>2, ToKeeps DEF Removed, Leads
  <2>3. QED BY <1>2, <2>1, <2>2
<1>4. CASE ~RulesAbsent
  <2>1. Counts(op, ufw, guard, op.errors)
    BY <1>2 DEF Counts, Mutations
  <2>2. QED BY <1>1, <1>4, <2>1, CheckFails DEF Removed
<1>5. QED BY <1>3, <1>4

LEMMA CleanKeeps == ASSUME IInv, Cleaned \/ CleanError PROVE IInv'
<1>1. PICK m, u, g, d, o : m = manifest /\ u = ufw /\ g = guard /\ d = docker6 /\ o = op /\ InvOf(m, u, g, d, o)
  BY DEF IInv
<1>2. op.phase = "clean" /\ UNCHANGED docker6 /\ Still
  BY DEF Cleaned, CleanError, Working, At
<1>3. o \in Operations /\ PhaseOK(o) /\ FailureOK(o) /\ o.errors \in 0..MaxErrors
  BY <1>1, <1>2, Here, InvIs
<1>4. PICK n : n = op'
  OBVIOUS
<1>5. ASSUME NEW e \in 0..MaxErrors, NEW r, r.kind = o.kind, r.restoring = o.restoring, r.fresh = o.fresh,
             AfterClean(r),
             \/ r = o /\ e = o.errors /\ u.sources \cap FileOf(o).sources = {} /\ ~u.public /\ g = NoGuards
             \/ r = [o EXCEPT !.errors = e, !.failed = "clean"] /\ e # 0
      PROVE  IInv'
  <2>1. GoesOn(o, r, n)
    BY <1>1, <1>3, <1>4, <1>5, AfterCleans
  <2>2. InvOf(m, u, g, d, n)
    BY <1>1, <1>2, <1>5, <2>1, CleansUp
  <2>3. QED BY <1>1, <1>2, <1>4, <2>2 DEF Still, rules, IInv
<1>6. CASE Cleaned
  <2>1. u.sources \cap FileOf(o).sources = {} /\ ~u.public /\ g = NoGuards
    BY <1>1, <1>6, Here DEF Cleaned, Erasable, NoGuards
  <2>2. QED BY <1>1, <1>3, <1>5, <1>6, <2>1 DEF Cleaned
<1>7. CASE CleanError
  <2>1. PICK e : e = o.errors + 1
    OBVIOUS
  <2>2. PICK r : r = [o EXCEPT !.errors = e, !.failed = "clean"]
    OBVIOUS
  <2>3. e \in 0..MaxErrors /\ e # 0
    BY <1>1, <1>3, <1>7, <2>1, FirewallAssumption DEF CleanError
  <2>4. r.kind = o.kind /\ r.restoring = o.restoring /\ r.fresh = o.fresh
    BY <1>3, <2>2 DEF Operations
  <2>5. AfterClean(r)
    BY <1>1, <1>7, <2>1, <2>2 DEF CleanError
  <2>6. QED BY <1>5, <2>2, <2>3, <2>4, <2>5
<1>8. QED BY <1>6, <1>7

LEMMA CheckKeeps == ASSUME IInv, CheckAbsent PROVE IInv'
<1>1. op.phase = "check" /\ UNCHANGED docker6 /\ Still
  BY DEF CheckAbsent, Working
<1>2. CASE RulesAbsent
  BY <1>1, <1>2, Here, ToKeeps DEF CheckAbsent, Leads
<1>3. CASE ~RulesAbsent
  <2>1. Counts(op, ufw, guard, op.errors)
    BY <1>1, <1>3, Here DEF Counts
  <2>2. QED BY <1>1, <1>3, <2>1, CheckFails DEF CheckAbsent
<1>4. QED BY <1>2, <1>3

LEMMA AddKeeps == ASSUME IInv, AddRule PROVE IInv'
<1>1. PICK m, u, g, d, o : m = manifest /\ u = ufw /\ g = guard /\ d = docker6 /\ o = op /\ InvOf(m, u, g, d, o)
  BY DEF IInv
<1>2. o.phase = "add" /\ UNCHANGED <<manifest, guard, op, docker6>>
  BY <1>1 DEF AddRule, Working
<1>3. PICK doc \in Docs : doc = FileOf(o)
  BY <1>1, <1>2, InvIs
<1>4. Partly(u, g, d, doc) /\ u \in RuleSets /\ g \in GuardSets /\ File = doc /\ (g[6].is # "absent" => d)
  BY <1>1, <1>2, <1>3, Here, InvIs DEF RulesOK, InvOf
<1>5. PICK v : v = ufw'
  OBVIOUS
<1>6. v \in RuleSets /\ v.sources \subseteq Asked(doc).sources /\ (v.public => Asked(doc).public) /\ ~v.foreign
  <2>1. Asked(doc) \in RuleSets
    BY AskedIs
  <2>2. CASE \E c \in Asked(File).sources \ ufw.sources : ufw' = [ufw EXCEPT !.sources = @ \cup {c}]
    <3>1. PICK c \in Asked(doc).sources : v = [u EXCEPT !.sources = u.sources \cup {c}]
      BY <1>1, <1>4, <1>5, <2>2
    <3>2. v.sources = u.sources \cup {c} /\ v.public = u.public /\ v.foreign = u.foreign
      BY <1>4, <3>1 DEF RuleSets
    <3>3. v \in RuleSets
      BY <1>4, <2>1, <3>1 DEF RuleSets
    <3>4. QED BY <1>4, <3>2, <3>3 DEF Partly
  <2>3. CASE Asked(File).public /\ ~ufw.public /\ ufw' = [ufw EXCEPT !.public = TRUE]
    <3>1. v = [u EXCEPT !.public = TRUE] /\ Asked(doc).public
      BY <1>1, <1>4, <1>5, <2>3
    <3>2. v.sources = u.sources /\ v.foreign = u.foreign /\ v \in RuleSets
      BY <1>4, <3>1 DEF RuleSets
    <3>3. QED BY <1>4, <3>1, <3>2 DEF Partly
  <2>4. QED BY <2>2, <2>3 DEF AddRule
<1>7. Partly(v, g, d, doc)
  BY <1>4, <1>6 DEF Partly
<1>8. InvOf(m, v, g, d, o)
  BY <1>1, <1>2, <1>3, <1>4, <1>6, <1>7, Adds
<1>9. QED BY <1>1, <1>2, <1>5, <1>8 DEF IInv

LEMMA AddGuardKeeps == ASSUME IInv, AddGuard PROVE IInv'
<1>1. PICK m, u, g, d, o : m = manifest /\ u = ufw /\ g = guard /\ d = docker6 /\ o = op /\ InvOf(m, u, g, d, o)
  BY DEF IInv
<1>2. o.phase = "add" /\ UNCHANGED <<manifest, ufw, docker6>>
  BY <1>1 DEF AddGuard, RulesAdded, Working
<1>3. PICK doc \in Docs : doc = FileOf(o)
  BY <1>1, <1>2, InvIs
<1>4. Partly(u, g, d, doc) /\ u \in RuleSets /\ g \in GuardSets /\ File = doc /\ (g[6].is # "absent" => d)
  BY <1>1, <1>2, <1>3, Here, InvIs DEF RulesOK, InvOf
<1>5. PICK f \in Families :
        /\ Required(d, f, doc)
        /\ IF f = 6 /\ ~docker6 THEN Fail /\ UNCHANGED guard
           ELSE /\ guard' = [guard EXCEPT ![f] = IF @.is = "absent" THEN HalfGuard ELSE Guard(f, File)]
                /\ UNCHANGED op
  <2>1. (IF 4 \in NextGuard THEN 4 ELSE 6) \in NextGuard /\ NextGuard \subseteq Families
    BY DEF AddGuard, NextGuard, Families
  <2>2. \A f \in NextGuard : Required(d, f, doc)
    BY <1>1, <1>4, Here DEF NextGuard
  <2>3. QED BY <2>1, <2>2 DEF AddGuard
<1>6. CASE f = 6 /\ ~d
  <2>1. Fail /\ Still
    BY <1>1, <1>2, <1>5, <1>6 DEF Still, rules
  <2>2. Counts(op, ufw, guard, op.errors)
    <3>1. OfFamily(6, doc.sources) # {}
      BY <1>5, <1>6 DEF Required
    <3>2. o.kind = "apply" => doc = Exported(m)
      BY <1>1, <1>2, <1>3, InvIs DEF ManifestOK, FileOf
    <3>3. o.kind # "apply"
      BY <1>1, <1>6, <3>1, <3>2 DEF InvOf
    <3>4. QED BY <1>1, <3>3 DEF Counts
  <2>3. QED BY <1>1, <1>2, <2>1, <2>2, CheckFails
<1>7. CASE ~(f = 6 /\ ~d)
  <2>1. PICK h : h = guard'
    OBVIOUS
  <2>2. h = [g EXCEPT ![f] = IF g[f].is = "absent" THEN HalfGuard ELSE Guard(f, doc)] /\ op' = op
    BY <1>1, <1>4, <1>5, <1>7, <2>1
  <2>3. PICK new : new = (IF g[f].is = "absent" THEN HalfGuard ELSE Guard(f, doc)) /\ h = [g EXCEPT ![f] = new]
    BY <2>2
  <2>4. new \in {HalfGuard, Guard(f, doc)} /\ new \in [is : {"absent", "partial", "exact"}, doc : Manifests]
    BY <2>3, GuardsAre DEF HalfGuard, Manifests
  <2>5. h \in GuardSets /\ h[f] = new /\ \A k \in Families \ {f} : h[k] = g[k]
    BY <1>4, <2>3, <2>4 DEF GuardSets
  <2>6. \A k \in Families : /\ h[k] \in {NoGuard, HalfGuard, Guard(k, doc)}
                            /\ ~Required(d, k, doc) => h[k] = NoGuard
    BY <1>4, <1>5, <2>4, <2>5 DEF Partly
  <2>7. Partly(u, h, d, doc)
    BY <1>4, <2>6 DEF Partly
  <2>8. h[6].is # "absent" => d
    BY <1>4, <1>7, <2>5 DEF Families
  <2>9. InvOf(m, u, h, d, o)
    BY <1>1, <1>2, <1>3, <1>4, <2>5, <2>7, <2>8, Adds
  <2>10. QED BY <1>1, <1>2, <2>1, <2>2, <2>9 DEF IInv
<1>8. QED BY <1>6, <1>7

(* Once the rules are there and no guard is missing, they are exact. *)
LEMMA AllAdded ==
  ASSUME IInv, op.phase = "add", RulesAdded, NextGuard = {}
  PROVE  RulesExact(File)
<1>1. PICK u \in RuleSets, g \in GuardSets, d \in BOOLEAN : u = ufw /\ g = guard /\ d = docker6
  BY Here
<1>2. PICK doc \in Docs : doc = File
  BY Here, InvIs
<1>3. Partly(u, g, d, doc)
  BY <1>1, <1>2, Here, InvIs DEF RulesOK
<1>4. Asked(doc).sources = u.sources /\ Asked(doc).public = u.public
  BY <1>1, <1>2 DEF RulesAdded
<1>5. u = Asked(doc)
  <2>1. Asked(doc) \in RuleSets /\ ~Asked(doc).foreign /\ ~u.foreign
    BY <1>3, AskedIs DEF Partly
  <2>2. Asked(doc).foreign = u.foreign
    BY <2>1 DEF RuleSets
  <2>3. QED BY <1>4, <2>1, <2>2 DEF RuleSets
<1>6. \A f \in Families : Required(d, f, doc) => g[f].is = "exact"
  BY <1>1, <1>2, Here DEF NextGuard
<1>7. ASSUME NEW f \in Families PROVE g[f] = (IF Required(d, f, doc) THEN Guard(f, doc) ELSE NoGuard)
  <2>1. NoGuard.is # "exact" /\ HalfGuard.is # "exact"
    BY DEF NoGuard, HalfGuard
  <2>2. QED BY <1>3, <1>6, <2>1 DEF Partly
<1>8. g = GuardsFor(d, doc)
  BY <1>7 DEF GuardsFor, GuardSets
<1>9. QED BY <1>1, <1>2, <1>5, <1>8, Here DEF Exact

LEMMA AddedKeeps == ASSUME IInv, Added PROVE IInv'
<1>1. op.phase = "add" /\ UNCHANGED docker6 /\ Still /\ RulesExact(File) /\ PhaseOK(op)
  BY AllAdded, Here, InvIs DEF Added, RulesAdded, Working
<1>2. Exact(ufw, guard, docker6, FileOf(op)) /\ (op.kind \in Mutations \/ op.kind = "apply")
  BY <1>1, Here DEF PhaseOK, Operations, Kinds, Mutations
<1>3. CASE op.kind \in Mutations /\ op.restoring
  <2>1. End("transaction_failed")
    BY <1>1, <1>3 DEF Added
  <2>2. FileOf(op) = op.old
    BY <1>3 DEF FileOf
  <2>3. Comes(op, IF op.reversing /\ "transaction_failed" # "commit_failed" THEN "rollback_failed"
                  ELSE "transaction_failed", manifest, ufw, guard, docker6)
    BY <1>1, <1>2, <1>3, <2>2 DEF Comes
  <2>4. QED BY <1>1, <2>1, <2>3, EndKeeps
<1>4. CASE ~(op.kind \in Mutations /\ op.restoring)
  <2>1. To(IF op.kind = "apply" /\ op.fresh THEN "commit" ELSE "final")
    BY <1>1, <1>4 DEF Added
  <2>2. Leads(op, IF op.kind = "apply" /\ op.fresh THEN "commit" ELSE "final", manifest, ufw, guard, docker6)
    BY <1>1, <1>2, <1>4 DEF Leads
  <2>3. QED BY <1>1, <2>1, <2>2, ToKeeps
<1>5. QED BY <1>3, <1>4

LEMMA FinalKeeps == ASSUME IInv, Final PROVE IInv'
<1>1. op.phase = "final" /\ UNCHANGED docker6 /\ Still /\ PhaseOK(op) /\ RulesExact(op.new)
  BY Here, InvIs DEF Final, Working, RulesOK
<1>2. CASE op.reversing
  <2>1. End("commit_failed")
    BY <1>1, <1>2 DEF Final
  <2>2. Comes(op, IF op.reversing /\ "commit_failed" # "commit_failed" THEN "rollback_failed" ELSE "commit_failed",
              manifest, ufw, guard, docker6)
    BY <1>1, <1>2 DEF Comes
  <2>3. QED BY <1>1, <2>1, <2>2, EndKeeps
<1>3. CASE ~op.reversing /\ op.kind \in Mutations
  BY <1>1, <1>3, ToKeeps DEF Final, Leads
<1>4. CASE ~op.reversing /\ op.kind \notin Mutations
  <2>1. End("success")
    BY <1>1, <1>4 DEF Final
  <2>2. Comes(op, IF op.reversing /\ "success" # "commit_failed" THEN "rollback_failed" ELSE "success",
              manifest, ufw, guard, docker6)
    BY <1>1, <1>4 DEF Comes
  <2>3. QED BY <1>1, <2>1, <2>2, EndKeeps
<1>5. QED BY <1>2, <1>3, <1>4

LEMMA VerdictKeeps == ASSUME IInv, Confirm \/ Absent PROVE IInv'
<1>1. UNCHANGED docker6 /\ Still
  BY DEF Confirm, Absent, Working
<1>2. ASSUME Confirm, RulesExact(op.old) PROVE IInv'
  <2>1. End("success")
    BY <1>2 DEF Confirm
  <2>2. Comes(op, IF op.reversing /\ "success" # "commit_failed" THEN "rollback_failed" ELSE "success",
              manifest, ufw, guard, docker6)
    BY <1>2, Here DEF Confirm, Working, Comes
  <2>3. QED BY <1>1, <2>1, <2>2, EndKeeps
<1>3. ASSUME Confirm, ~RulesExact(op.old) PROVE IInv'
  <2>1. End("mismatch")
    BY <1>3 DEF Confirm
  <2>2. Comes(op, IF op.reversing /\ "mismatch" # "commit_failed" THEN "rollback_failed" ELSE "mismatch",
              manifest, ufw, guard, docker6)
    BY <1>3 DEF Confirm, Working, Comes
  <2>3. QED BY <1>1, <2>1, <2>2, EndKeeps
<1>4. ASSUME Absent PROVE ~op.reversing
  BY <1>4, Here, InvIs DEF Absent, Working, FailureOK, PhaseOK
<1>5. ASSUME Absent, RulesAbsent PROVE IInv'
  <2>1. End("success")
    BY <1>5 DEF Absent
  <2>2. Comes(op, IF op.reversing /\ "success" # "commit_failed" THEN "rollback_failed" ELSE "success",
              manifest, ufw, guard, docker6)
    BY <1>4, <1>5, Here DEF Absent, Working, Comes
  <2>3. QED BY <1>1, <2>1, <2>2, EndKeeps
<1>6. ASSUME Absent, ~RulesAbsent PROVE IInv'
  <2>1. End("conflict")
    BY <1>6 DEF Absent
  <2>2. Comes(op, IF op.reversing /\ "conflict" # "commit_failed" THEN "rollback_failed" ELSE "conflict",
              manifest, ufw, guard, docker6)
    BY <1>4, <1>6, Here DEF Absent, Working, Comes
  <2>3. QED BY <1>1, <2>1, <2>2, EndKeeps
<1>7. QED BY <1>2, <1>3, <1>5, <1>6

LEMMA CommitKeeps == ASSUME IInv, Commit PROVE IInv'
<1>1. PICK m, u, g, d, o : m = manifest /\ u = ufw /\ g = guard /\ d = docker6 /\ o = op /\ InvOf(m, u, g, d, o)
  BY DEF IInv
<1>2. /\ o.phase = "commit" /\ manifest' = o.new /\ UNCHANGED <<ufw, guard, docker6>>
      /\ PhaseOK(o) /\ o \in Operations
  BY <1>1, InvIs DEF Commit, Working, rules
<1>3. PICK n : n = op'
  OBVIOUS
<1>4. \/ o.kind = "apply" /\ n = ToPhase(o, "final")
      \/ o.kind \in Mutations /\ n = ToEnd(o, "success")
  <2>1. CASE o.kind = "apply"
    BY <1>1, <1>3, <2>1 DEF Commit, To, ToPhase
  <2>2. CASE o.kind # "apply"
    <3>1. o.kind \in Mutations /\ ~o.reversing
      BY <1>2, <2>2 DEF PhaseOK, Operations, Kinds, Mutations
    <3>2. op' = [op EXCEPT !.phase = "done", !.result = "success"]
      BY <1>1, <2>2, <3>1 DEF Commit, End
    <3>3. QED BY <1>1, <1>3, <3>1, <3>2 DEF ToEnd
  <2>3. QED BY <2>1, <2>2
<1>5. InvOf(o.new, u, g, d, n)
  BY <1>1, <1>2, <1>4, Commits
<1>6. QED BY <1>1, <1>2, <1>3, <1>5 DEF IInv

LEMMA ErrorKeeps == ASSUME IInv, Error PROVE IInv'
<1>1. PICK e : e = op.errors + 1
  OBVIOUS
<1>2. e \in 0..MaxErrors /\ e # 0
  BY <1>1, Here, FirewallAssumption DEF Error
<1>3. Counts(op, ufw, guard, e)
  BY <1>2 DEF Counts
<1>4. FailTo(Failed([op EXCEPT !.errors = e]))
  BY <1>1 DEF Error
<1>5. manifest' = manifest \/ (op.phase = "commit" /\ manifest' = op.new)
  BY DEF Error
<1>6. QED BY <1>2, <1>3, <1>4, <1>5, FailKeeps DEF Error, At, rules

LEMMA GoneKeeps == ASSUME IInv, Finish \/ Kill \/ Reboot \/ ForeignRule PROVE IInv'
<1>1. PICK m, u, g, d, o : m = manifest /\ u = ufw /\ g = guard /\ d = docker6 /\ o = op /\ InvOf(m, u, g, d, o)
  BY DEF IInv
<1>2. u \in RuleSets /\ o \in Operations /\ Idle \in Operations /\ Idle.phase = "idle"
  BY <1>1, Here, Values DEF Idle
<1>3. CASE Finish \/ Kill
  <2>1. InvOf(m, u, g, d, Idle)
    BY <1>1, <1>2, Leaves
  <2>2. QED BY <1>1, <1>3, <2>1 DEF Finish, Kill, rules, IInv
<1>4. CASE Reboot
  <2>1. InvOf(m, u, NoGuards, d, Idle)
    BY <1>1, <1>2, Leaves
  <2>2. QED BY <1>1, <1>4, <2>1 DEF Reboot, NoGuards, IInv
<1>5. CASE ForeignRule
  <2>1. PICK v : v = [u EXCEPT !.foreign = TRUE]
    OBVIOUS
  <2>2. v \in RuleSets
    BY <1>2, <2>1 DEF RuleSets
  <2>3. o.phase = "idle"
    BY <1>1, <1>5 DEF ForeignRule
  <2>4. InvOf(m, v, g, d, o)
    BY <1>1, <1>2, <2>2, <2>3, Leaves
  <2>5. QED BY <1>1, <1>5, <2>1, <2>4 DEF ForeignRule, IInv
<1>6. QED BY <1>3, <1>4, <1>5

LEMMA NextKeeps == IInv /\ [Next]_vars => IInv'
<1> SUFFICES ASSUME IInv, [Next]_vars PROVE IInv'
  OBVIOUS
<1>1. CASE Start
  BY <1>1, StartKeeps
<1>2. CASE Step
  <2>1. CASE VerifyMutation \/ VerifyApply \/ VerifyRemove \/ Erase \/ Removed \/ Cleaned
    BY <2>1, VerifyKeeps, EraseKeeps, RemovedKeeps, CleanKeeps
  <2>2. CASE CheckAbsent \/ AddRule \/ AddGuard \/ Added \/ Final
    BY <2>2, CheckKeeps, AddKeeps, AddGuardKeeps, AddedKeeps, FinalKeeps
  <2>3. CASE Confirm \/ Absent \/ Commit \/ Finish
    BY <2>3, VerdictKeeps, CommitKeeps, GoneKeeps
  <2>4. QED BY <1>2, <2>1, <2>2, <2>3 DEF Step
<1>3. CASE Error \/ CleanError \/ Kill \/ Reboot \/ ForeignRule
  BY <1>3, ErrorKeeps, CleanKeeps, GoneKeeps
<1>4. CASE UNCHANGED vars
  BY <1>4 DEF vars, rules, IInv
<1>5. QED BY <1>1, <1>2, <1>3, <1>4 DEF Next

------------------------------------------------------------------------------
(* The theorems. *)

(* The inductive invariant: where an operation has got to, what the rules are there
   and what they were when it began, for every fault model. *)
THEOREM Invariance == Spec => []IInv
<1>1. QED BY InitIsIInv, NextKeeps, PTL DEF Spec

(* Manifest, rules, guards and the operation at work stay in their domains. *)
THEOREM TypeCorrectness == Spec => []TypeOK
<1>1. ASSUME IInv PROVE TypeOK
  <2>1. manifest \in [mode : FirewallModes, sources : SUBSET Cidrs] \cup {Missing}
    BY <1>1, Here DEF Manifests, Docs
  <2>2. ufw \in [sources : SUBSET Cidrs, public : BOOLEAN, foreign : BOOLEAN]
    BY <1>1, Here DEF RuleSets
  <2>3. \A f \in Families : guard[f].is \in {"absent", "partial", "exact"}
    BY <1>1, Here DEF GuardSets
  <2>4. QED BY <1>1, <2>1, <2>2, <2>3, Here DEF TypeOK
<1>2. QED BY <1>1, Invariance, PTL

(* An operation that reports success leaves exactly the rules of the manifest, or
   none after remove, whatever a reboot, a kill or somebody else did before it. *)
THEOREM SuccessMeansExact == Spec => []SuccessIsExact
<1>1. ASSUME IInv PROVE SuccessIsExact
  BY <1>1, Here, InvIs DEF SuccessIsExact, Ended, EndOK
<1>2. QED BY <1>1, Invariance, PTL

(* "If a rule change or manifest write fails, the backend restores the previous
   source set".  After a failed rule change the manifest is the old one and the rules
   and guards are what they were, but for a failed verification of the last rule and
   an unnoticed error of a cleanup; after a failed manifest write the rules are those
   of the document that was in force, the closed one on a host without a manifest. *)
THEOREM FailureIsUndone == Spec => []FailureRestores
<1>1. ASSUME IInv PROVE FailureRestores
  <2>1. op.phase = "done" => EndOK(manifest, ufw, guard, docker6, op)
    BY <1>1, Here, InvIs
  <2>2. Ended({"transaction_failed"}) => ChangeUndone(manifest, ufw, guard, docker6, op)
    BY <2>1 DEF Ended, EndOK
  <2>3. Ended({"commit_failed"}) => WriteUndone(manifest, ufw, guard, docker6, op)
    BY <2>1 DEF Ended, EndOK
  <2>4. QED BY <1>1, <2>2, <2>3, Here DEF FailureRestores, ChangeUndone, WriteUndone, RulesRestored, Begun
<1>2. QED BY <1>1, Invariance, PTL

(* An apply none of whose commands fails repairs what a reboot or a kill left, and
   refuses only what it does not own. *)
THEOREM ApplyIsRepair == Spec => []ApplyRepairs
<1>1. ASSUME IInv PROVE ApplyRepairs
  BY <1>1, Here, InvIs DEF ApplyRepairs, Ended, Refusable, Orphan, EndOK
<1>2. QED BY <1>1, Invariance, PTL

(* An IPv6 source reaches the manifest only on a host that can guard Docker's
   published ports from it: half of ManifestIsUsable, the half about rules. *)
THEOREM SourcesAreGuarded == Spec => []GuardedFamilies
<1>1. ASSUME IInv PROVE GuardedFamilies
  BY <1>1, Here DEF GuardedFamilies, InvOf
<1>2. QED BY <1>1, Invariance, PTL

------------------------------------------------------------------------------
(* The order of the sources, and the two validators. *)

(* A set of sources as the manifest may keep it. *)
Apart(sources) == \A c, d \in sources : c # d => ~Overlaps(c, d)

(* Blocks are in one order: by family, first address, length. *)
LEMMA InOneOrder ==
  /\ \A c \in Cidrs : ~Before(c, c)
  /\ \A c, d \in Cidrs : c # d => Before(c, d) \/ Before(d, c)
  /\ \A b, c, d \in Cidrs : Before(b, c) /\ Before(c, d) => Before(b, d)
<1>1. \A c \in Cidrs : /\ c.family \in Nat /\ c.first \in Nat /\ c.last \in Nat
                       /\ c = [family |-> c.family, first |-> c.first, last |-> c.last]
  BY FirewallSourcesAssumption
<1>2. \A c, d \in Cidrs : c.family = d.family /\ c.first = d.first /\ c.last = d.last => c = d
  BY <1>1
<1>3. ASSUME NEW c \in Cidrs, NEW d \in Cidrs, c # d PROVE Before(c, d) \/ Before(d, c)
  BY <1>1, <1>2, <1>3 DEF Before
<1>4. ASSUME NEW b \in Cidrs, NEW c \in Cidrs, NEW d \in Cidrs, Before(b, c), Before(c, d)
      PROVE  Before(b, d)
  BY <1>1, <1>4 DEF Before
<1>5. ASSUME NEW c \in Cidrs PROVE ~Before(c, c)
  BY <1>1 DEF Before
<1>6. QED BY <1>3, <1>4, <1>5

(* Each source has a rank of its own, and every rank is some source's. *)
LEMMA RanksAre ==
  ASSUME NEW S \in SUBSET Cidrs
  PROVE  /\ Cardinality(S) \in Nat
         /\ \A c \in S : Rank(c, S) \in Nat /\ Rank(c, S) < Cardinality(S)
         /\ \A c, d \in S : Before(c, d) => Rank(c, S) < Rank(d, S)
         /\ \A k \in 0..(Cardinality(S) - 1) : \E c \in S : Rank(c, S) = k
<1> DEFINE top == Cardinality(S) - 1
           before(c) == {d \in S : Before(d, c)}
           rank == [c \in S |-> Rank(c, S)]
<1>1. IsFiniteSet(S) /\ Cardinality(S) \in Nat
  BY FirewallSourcesAssumption, FS_Subset, FS_CardinalityType
<1>2. ASSUME NEW c \in S
      PROVE  /\ Rank(c, S) \in Nat
             /\ Cardinality(before(c) \cup {c}) = Rank(c, S) + 1
             /\ IsFiniteSet(before(c)) /\ before(c) \cup {c} \in SUBSET S
  <2>1. c \notin before(c) /\ before(c) \in SUBSET S /\ Rank(c, S) = Cardinality(before(c))
    BY InOneOrder DEF Rank
  <2> HIDE DEF before
  <2>2. IsFiniteSet(before(c))
    BY <1>1, <2>1, FS_Subset
  <2>3. QED BY <2>1, <2>2, FS_CardinalityType, FS_AddElement
<1>3. ASSUME NEW c \in S PROVE Rank(c, S) \in 0..top
  <2> HIDE DEF before
  <2>1. Cardinality(before(c) \cup {c}) <= Cardinality(S)
    BY <1>1, <1>2, FS_Subset
  <2>2. QED BY <1>1, <1>2, <2>1
<1>4. ASSUME NEW c \in S, NEW d \in S, Before(c, d) PROVE Rank(c, S) < Rank(d, S)
  <2>1. before(c) \cup {c} \in SUBSET before(d)
    BY <1>4, InOneOrder
  <2>2. Rank(d, S) = Cardinality(before(d))
    BY DEF Rank
  <2> HIDE DEF before
  <2>3. Cardinality(before(c) \cup {c}) <= Cardinality(before(d))
    BY <1>2, <2>1, FS_Subset
  <2>4. \A a, b \in Nat : a + 1 <= b => a < b
    OBVIOUS
  <2>5. Rank(c, S) + 1 <= Rank(d, S)
    BY <1>2, <2>2, <2>3
  <2>6. QED BY <1>2, <2>4, <2>5
<1>5. rank \in Injection(S, 0..top)
  <2>1. rank \in [S -> 0..top]
    BY <1>3
  <2>2. \A c, d \in S : c # d => Before(c, d) \/ Before(d, c)
    BY InOneOrder
  <2>3. \A a, b \in Nat : a < b => a # b
    OBVIOUS
  <2>4. \A c, d \in S : c # d => Rank(c, S) # Rank(d, S)
    BY <1>2, <1>4, <2>2, <2>3
  <2>5. QED BY <2>1, <2>4 DEF Injection, IsInjective
<1>6. IsFiniteSet(0..top) /\ Cardinality(0..top) = Cardinality(S)
  <2>1. PICK n \in Nat : n = Cardinality(S)
    BY <1>1
  <2>2. IsFiniteSet(0..(n - 1)) /\ Cardinality(0..(n - 1)) = IF 0 > n - 1 THEN 0 ELSE n - 1 - 0 + 1
    BY FS_Interval
  <2>3. QED BY <2>1, <2>2
<1>7. rank \in Surjection(S, 0..top)
  <2> HIDE DEF rank, top
  <2>1. QED BY <1>1, <1>5, <1>6, FS_Injection
<1>8. \A k \in 0..top : \E c \in S : Rank(c, S) = k
  BY <1>7 DEF Surjection
<1>9. QED BY <1>1, <1>3, <1>4, <1>8

(* candidate() sorts: every source is in the list once, and the list is in order. *)
LEMMA SortedIs ==
  ASSUME NEW S \in SUBSET Cidrs
  PROVE  /\ DOMAIN Sorted(S) = 1..Cardinality(S)
         /\ \A i \in 1..Cardinality(S) : Sorted(S)[i] \in S
         /\ \A i, j \in 1..Cardinality(S) : i < j => Before(Sorted(S)[i], Sorted(S)[j])
         /\ \A c \in S : \E i \in 1..Cardinality(S) : Sorted(S)[i] = c
<1> DEFINE n == Cardinality(S)
<1>1. n \in Nat
  BY RanksAre
<1>2. ASSUME NEW i \in 1..n PROVE Sorted(S)[i] \in S /\ Rank(Sorted(S)[i], S) = i - 1
  <2>1. \E c \in S : Rank(c, S) = i - 1
    <3>1. i - 1 \in 0..(n - 1)
      BY <1>1
    <3>2. QED BY <3>1, RanksAre
  <2>2. Sorted(S)[i] = CHOOSE c \in S : Rank(c, S) = i - 1
    BY DEF Sorted
  <2>3. QED BY <2>1, <2>2
<1>3. ASSUME NEW i \in 1..n, NEW j \in 1..n, i < j PROVE Before(Sorted(S)[i], Sorted(S)[j])
  <2>1. Sorted(S)[i] \in S /\ Sorted(S)[j] \in S
    BY <1>2
  <2>2. Rank(Sorted(S)[i], S) < Rank(Sorted(S)[j], S)
    BY <1>1, <1>2, <1>3
  <2>3. ~(Rank(Sorted(S)[j], S) < Rank(Sorted(S)[i], S)) /\ Sorted(S)[i] # Sorted(S)[j]
    BY <2>1, <2>2, <1>2, <1>1
  <2>4. QED BY <2>1, <2>3, InOneOrder, RanksAre
<1>4. ASSUME NEW c \in S PROVE \E i \in 1..n : Sorted(S)[i] = c
  <2>1. PICK i : i = Rank(c, S) + 1
    OBVIOUS
  <2>2. Rank(c, S) \in Nat /\ Rank(c, S) < n
    BY RanksAre
  <2>3. i \in 1..n /\ i - 1 = Rank(c, S)
    BY <1>1, <2>1, <2>2
  <2>4. Sorted(S)[i] \in S /\ Rank(Sorted(S)[i], S) = Rank(c, S)
    BY <1>2, <2>3
  <2>5. ~(Rank(c, S) < Rank(c, S))
    BY <2>2
  <2>6. ~Before(Sorted(S)[i], c) /\ ~Before(c, Sorted(S)[i])
    BY <2>4, <2>5, RanksAre
  <2>7. Sorted(S)[i] = c
    BY <2>4, <2>6, InOneOrder
  <2>8. QED BY <2>3, <2>7
<1>5. QED BY <1>2, <1>3, <1>4 DEF Sorted

(* validate_document accepts the sorted list of a set of sources exactly if no two
   of them overlap: the order and the overrides are candidate()'s own work. *)
LEMMA ValidWhenApart ==
  ASSUME NEW S \in SUBSET Cidrs
  PROVE  /\ ValidDocument(Items(S)) <=> Apart(S)
         /\ DOMAIN Items(S) = 1..Cardinality(S) /\ Cardinality(S) \in Nat
         /\ \A i \in DOMAIN Items(S) : Items(S)[i] = Item(Sorted(S)[i]) /\ Sorted(S)[i] \in Cidrs
<1> DEFINE n == Cardinality(S)
<1>1. n \in Nat /\ \A c, d \in Cidrs : Overlaps(c, d) <=> Overlaps(d, c)
  BY RanksAre DEF Overlaps
<1>2. DOMAIN Items(S) = 1..n
  BY DEF Items
<1>3. \A i \in 1..n : /\ Items(S)[i] = Item(Sorted(S)[i]) /\ Items(S)[i].cidr = Sorted(S)[i]
                      /\ Sorted(S)[i] \in S
  BY SortedIs DEF Items, Item
<1>4. ASSUME Apart(S) PROVE ValidDocument(Items(S))
  <2>1. \A i, j \in 1..n : i < j => /\ Before(Sorted(S)[i], Sorted(S)[j])
                                    /\ ~Overlaps(Sorted(S)[i], Sorted(S)[j])
    BY <1>3, <1>4, SortedIs, InOneOrder DEF Apart
  <2>2. QED BY <1>2, <1>3, <2>1 DEF ValidDocument
<1>5. ASSUME ValidDocument(Items(S)) PROVE Apart(S)
  <2>1. ASSUME NEW c \in S, NEW d \in S, c # d PROVE ~Overlaps(c, d)
    <3>1. PICK i \in 1..n, j \in 1..n : Sorted(S)[i] = c /\ Sorted(S)[j] = d
      BY SortedIs
    <3>2. i < j \/ j < i
      BY <2>1, <3>1
    <3>3. ~Overlaps(c, d) \/ ~Overlaps(d, c)
      BY <1>2, <1>3, <1>5, <3>1, <3>2 DEF ValidDocument
    <3>4. QED BY <1>1, <3>3
  <2>2. QED BY <2>1 DEF Apart
<1>6. QED BY <1>2, <1>3, <1>4, <1>5, RanksAre

(* What a back end may print: any list of blocks with any overrides. *)
Printed == [cidr : Cidrs, nonPublic : BOOLEAN, broad : BOOLEAN]

(* validate_document of the back end and the check of _run_backend, two programs for
   one rule, accept the same lists, reachable or not: what the one writes the other
   believes, and the CLI believes nothing the back end would refuse to read. *)
THEOREM ValidatorsAgree ==
  ASSUME NEW items \in Seq(Printed)
  PROVE  ValidDocument(items) <=> Believable(items)
<1>1. DOMAIN items = 1..Len(items) /\ Len(items) \in Nat /\ \A i \in DOMAIN items : items[i] \in Printed
  OBVIOUS
<1>2. ASSUME NEW x \in Printed
      PROVE  /\ x = Item(x.cidr) <=> x.nonPublic = (x.cidr \in NonPublic) /\ x.broad = IsBroad(x.cidr)
             /\ x = Item(x.cidr) => Admissible(x.cidr, x.nonPublic, x.broad)
  BY DEF Item, Printed, Admissible
<1>3. ASSUME NEW c \in Cidrs, NEW d \in Cidrs
      PROVE  /\ Overlaps(c, d) <=> Overlaps(d, c)
             /\ Overlaps(c, c)
             /\ Before(c, d) => ~Before(d, c)
  <2>1. Overlaps(c, c)
    BY FirewallSourcesAssumption DEF Overlaps
  <2>2. Before(c, d) => ~Before(d, c)
    BY InOneOrder
  <2>3. QED BY <2>1, <2>2 DEF Overlaps
<1>4. ASSUME ValidDocument(items), NEW i \in DOMAIN items
      PROVE  \A j \in 1..(i - 1) : ~Overlaps(items[j].cidr, items[i].cidr) /\ ~Before(items[i].cidr, items[j].cidr)
  <2>1. ASSUME NEW j \in 1..(i - 1)
        PROVE  ~Overlaps(items[j].cidr, items[i].cidr) /\ ~Before(items[i].cidr, items[j].cidr)
    <3>1. j \in DOMAIN items /\ j < i
      BY <1>1
    <3>2. items[j].cidr \in Cidrs /\ items[i].cidr \in Cidrs
      BY <1>1, <3>1 DEF Printed
    <3>3. QED BY <1>3, <1>4, <3>1, <3>2 DEF ValidDocument
  <2>2. QED BY <2>1
<1>5. ASSUME Believable(items), NEW i \in DOMAIN items, NEW j \in DOMAIN items, i < j
      PROVE  Before(items[i].cidr, items[j].cidr) /\ ~Overlaps(items[i].cidr, items[j].cidr)
  <2>1. i \in 1..(j - 1)
    BY <1>1, <1>5
  <2>2. items[j].cidr \in Cidrs /\ items[i].cidr \in Cidrs
    BY <1>1 DEF Printed
  <2>3. ~Overlaps(items[i].cidr, items[j].cidr) /\ ~Before(items[j].cidr, items[i].cidr)
    BY <1>5, <2>1 DEF Believable
  <2>4. QED BY <1>3, <2>2, <2>3, InOneOrder
<1>6. ValidDocument(items) => Believable(items)
  BY <1>1, <1>2, <1>4 DEF ValidDocument, Believable
<1>7. Believable(items) => ValidDocument(items)
  BY <1>1, <1>2, <1>5 DEF ValidDocument, Believable
<1>8. QED BY <1>6, <1>7

------------------------------------------------------------------------------
(* The manifest and the documents an operation works with keep their sources apart:
   only an addition is validated, so it must be known of what a removal, a change of
   mode, a reversal or a killed operation leaves, too. *)
ApartInv == Apart(manifest.sources) /\ Apart(op.old.sources) /\ Apart(op.new.sources)

(* A step hands on the documents the operation has, exchanged when it reverses, or
   ends it; what it installs is the new one. *)
Documents ==
  /\ \/ op'.old = op.old /\ op'.new = op.new
     \/ op'.old = op.new /\ op'.new = op.old
     \/ op' = Idle
  /\ manifest' \in {manifest, op.new}

LEMMA NothingIsApart == Apart(Missing.sources) /\ Apart(Idle.old.sources) /\ Apart(Idle.new.sources)
BY DEF Apart, Missing, Document, Idle

LEMMA DocumentsStayApart == ASSUME ApartInv, Documents PROVE ApartInv'
BY NothingIsApart DEF ApartInv, Documents, Apart

LEMMA FailDocuments ==
  ASSUME IInv, op.phase \in {"verify", "remove", "check", "add", "final", "commit"},
         NEW e \in 0..MaxErrors, FailTo(Failed([op EXCEPT !.errors = e])),
         manifest' \in {manifest, op.new}
  PROVE  Documents
<1>1. PICK o \in Operations : o = op /\ PhaseOK(o) /\ FailureOK(o)
  BY Here, InvIs
<1>2. PICK r \in Operations : r = Failed([op EXCEPT !.errors = e]) /\ r.old = o.old /\ r.new = o.new
  <2>1. PICK r : r = Counted(o, e)
    OBVIOUS
  <2>2. o.phase \in Phases
    BY DEF Operations
  <2>3. r \in Operations /\ r.old = o.old /\ r.new = o.new
    BY <2>1, <2>2 DEF Operations, Counted
  <2>4. Failed([op EXCEPT !.errors = e]) = r
    BY <1>1, <2>1 DEF Failed, Operations, Counted
  <2>5. QED BY <2>3, <2>4
<1>3. PICK n : n = op'
  OBVIOUS
<1>4. FailsTo(o, r, n)
  BY <1>1, <1>2, <1>3, FailTos
<1>5. /\ \A b : ToClean(r, b).old = r.old /\ ToClean(r, b).new = r.new
      /\ \A x : ToEnd(r, x).old = r.old /\ ToEnd(r, x).new = r.new
      /\ Reversed(r, o.old, o.new).old = o.new /\ Reversed(r, o.old, o.new).new = o.old
  BY DEF Operations, ToClean, ToEnd, Reversed
<1>6. (\E b : n = ToClean(r, b)) \/ (\E x : n = ToEnd(r, x)) \/ n = Reversed(r, o.old, o.new)
  BY <1>4 DEF FailsTo
<1>7. (n.old = o.old /\ n.new = o.new) \/ (n.old = o.new /\ n.new = o.old)
  BY <1>2, <1>5, <1>6
<1>8. QED BY <1>1, <1>3, <1>7 DEF Documents

LEMMA ExportIsApart ==
  ASSUME IInv, ApartInv PROVE Apart(Export.sources) /\ Export.sources \in SUBSET Cidrs
<1>1. Export = Exported(manifest) /\ manifest \in Manifests
  BY Here
<1>2. Export \in Docs
  BY <1>1, Values
<1>3. Export.sources = {} \/ Export.sources = manifest.sources
  BY <1>1 DEF Exported, Document
<1>4. QED BY <1>2, <1>3 DEF ApartInv, Apart, Docs

LEMMA StartApart == ASSUME IInv, ApartInv, Start PROVE ApartInv'
<1>1. Apart(Export.sources) /\ Export.sources \in SUBSET Cidrs
  BY ExportIsApart
<1>2. ASSUME NEW kind, NEW phase, NEW new, NEW fresh, Begin(kind, phase, new, fresh), Apart(new.sources)
      PROVE  ApartInv'
  BY <1>1, <1>2 DEF Begin, ApartInv, Idle
<1>3. ASSUME NEW kind, NEW new, Candidate(kind, new), Apart(new.sources) PROVE ApartInv'
  BY <1>2, <1>3 DEF Candidate
<1>4. ASSUME NEW mode, ChangeMode(mode) PROVE ApartInv'
  BY <1>1, <1>3, <1>4 DEF ChangeMode, Document
<1>5. ASSUME NEW c, RemoveSource(c) PROVE ApartInv'
  <2>1. Apart(Export.sources \ {c})
    BY <1>1 DEF Apart
  <2>2. QED BY <1>3, <1>5, <2>1 DEF RemoveSource, Document
<1>6. ASSUME NEW c \in Cidrs, NEW nonPublic, NEW broad, AddSource(c, nonPublic, broad) PROVE ApartInv'
  <2>1. Apart(Export.sources \cup {c})
    BY <1>1, <1>6, ValidWhenApart DEF AddSource
  <2>2. QED BY <1>3, <1>6, <2>1 DEF AddSource, Document
<1>7. ASSUME ApplyRules \/ RemoveRules PROVE ApartInv'
  BY <1>1, <1>2, <1>7 DEF ApplyRules, RemoveRules
<1>8. QED BY <1>4, <1>5, <1>6, <1>7 DEF Start

LEMMA NextApart == IInv /\ ApartInv /\ [Next]_vars => ApartInv'
<1> SUFFICES ASSUME IInv, ApartInv, [Next]_vars PROVE ApartInv'
  OBVIOUS
<1>1. op \in Operations /\ op.errors \in 0..MaxErrors /\ [op EXCEPT !.errors = op.errors] = op
  BY Here DEF Operations
<1>2. ASSUME Fail, op.phase \in {"verify", "remove", "check", "add", "final"},
             manifest' \in {manifest, op.new}
      PROVE  Documents
  BY <1>1, <1>2, FailDocuments DEF Fail
<1>3. ASSUME \/ \E x : To(x)
             \/ \E x : End(x)
             \/ UNCHANGED op
             \/ op' = Idle,
             manifest' \in {manifest, op.new}
      PROVE  Documents
  BY <1>1, <1>3 DEF To, End, Documents, Operations
<1>4. ASSUME NEW r \in Operations, r.old = op.old, r.new = op.new, AfterClean(r), UNCHANGED manifest
      PROVE  Documents
  BY <1>4 DEF AfterClean, Dead, Documents, Operations
<1>5. CASE VerifyMutation \/ VerifyApply \/ VerifyRemove
  <2>1. UNCHANGED manifest
    BY <1>5 DEF VerifyMutation, VerifyApply, VerifyRemove, Still
  <2>2. (Fail /\ op.phase = "verify") \/ (\E x : To(x)) \/ (\E x : End(x))
    BY <1>5 DEF VerifyMutation, VerifyApply, VerifyRemove, Working
  <2>3. QED BY <1>2, <1>3, <2>1, <2>2, DocumentsStayApart
<1>6. CASE Erase \/ Removed
  BY <1>3, <1>6, <1>2, DocumentsStayApart DEF Erase, Removed, Still, Working
<1>7. CASE Cleaned \/ CleanError
  <2>1. ASSUME CleanError
        PROVE  \E r \in Operations : r.old = op.old /\ r.new = op.new /\ AfterClean(r)
    <3>1. PICK e \in 0..MaxErrors : e = op.errors + 1
      BY <1>1, <2>1, FirewallAssumption DEF CleanError
    <3>2. PICK r : r = [op EXCEPT !.errors = e, !.failed = "clean"]
      OBVIOUS
    <3>3. r \in Operations /\ r.old = op.old /\ r.new = op.new
      BY <1>1, <3>2 DEF Operations, Phases
    <3>4. AfterClean(r)
      BY <2>1, <3>1, <3>2, Zenon DEF CleanError
    <3>5. QED BY <3>3, <3>4
  <2>2. PICK r \in Operations : r.old = op.old /\ r.new = op.new /\ AfterClean(r)
    BY <1>1, <1>7, <2>1 DEF Cleaned
  <2>3. UNCHANGED manifest
    BY <1>7 DEF Cleaned, CleanError, Still
  <2>4. QED BY <1>4, <2>2, <2>3, DocumentsStayApart
<1>8. CASE CheckAbsent \/ AddRule \/ AddGuard \/ Added \/ Final \/ Confirm \/ Absent \/ Commit \/ Finish
  BY <1>2, <1>3, <1>8, DocumentsStayApart
     DEF CheckAbsent, AddRule, AddGuard, Added, RulesAdded, Final, Confirm, Absent, Commit, Finish, Still, Working
<1>9. CASE Error
  <2>1. PICK e \in 0..MaxErrors : e = op.errors + 1
    BY <1>1, <1>9, FirewallAssumption DEF Error
  <2>2. /\ FailTo(Failed([op EXCEPT !.errors = e])) /\ manifest' \in {manifest, op.new}
        /\ op.phase \in {"verify", "remove", "check", "add", "final", "commit"}
    BY <1>1, <1>9, <2>1 DEF Error, At, Operations
  <2>3. QED BY <2>2, FailDocuments, DocumentsStayApart
<1>10. CASE Kill \/ Reboot \/ ForeignRule
  BY <1>3, <1>10, DocumentsStayApart DEF Kill, Reboot, ForeignRule
<1>11. CASE UNCHANGED vars
  BY <1>11 DEF vars, ApartInv
<1>12. QED BY <1>5, <1>6, <1>7, <1>8, <1>9, <1>10, <1>11, StartApart DEF Next, Step

(* No two sources of the manifest overlap, whatever was added, removed, reversed or
   killed: so it can be written in an order both validators accept, and read back. *)
THEOREM ManifestStaysUsable == Spec => []ManifestIsUsable
<1>1. Init => ApartInv
  BY NothingIsApart DEF Init, ApartInv
<1>2. ASSUME IInv, ApartInv PROVE ListIsBelieved
  <2>1. Apart(Export.sources) /\ Export.sources \in SUBSET Cidrs
    BY <1>2, ExportIsApart
  <2>2. ValidDocument(Items(Export.sources))
    BY <2>1, ValidWhenApart
  <2>3. Items(Export.sources) \in Seq(Printed)
    <3>1. \A c \in Cidrs : Item(c) \in Printed
      BY FirewallSourcesAssumption DEF Item, Printed, IsBroad
    <3>2. PICK n \in Nat : DOMAIN Items(Export.sources) = 1..n
      BY <2>1, ValidWhenApart
    <3>3. \A i \in 1..n : Items(Export.sources)[i] \in Printed
      BY <2>1, <3>1, <3>2, ValidWhenApart
    <3>4. PICK s : s = Items(Export.sources)
      OBVIOUS
    <3>5. s = [i \in 1..n |-> s[i]]
      BY <3>2, <3>4 DEF Items
    <3>6. QED BY <3>3, <3>4, <3>5
  <2>4. QED BY <2>2, <2>3, ValidatorsAgree DEF ListIsBelieved
<1>3. Spec => []ApartInv
  BY <1>1, NextApart, Invariance, PTL DEF Spec
<1>4. QED BY <1>2, <1>3, Invariance, SourcesAreGuarded, PTL DEF ManifestIsUsable
==============================================================================

------------------------------- MODULE Stage10 -------------------------------
(***************************************************************************)
(* stage10.py: the read-only resolver, composed with the Stage 05          *)
(* reconciler it depends on.  resolve() holds the journal's flock shared,  *)
(* finds the installation validated, takes the four locks of the package   *)
(* managers, reads the host file by file and command by command, reads the *)
(* files again, and reports.  Meanwhile other Stage 05 operations knock at *)
(* the lock, package managers start and finish, and an administrator edits *)
(* files, changes marks, or replaces a lock file.                          *)
(*                                                                         *)
(* What a file or a database says is a version; a change gives a version   *)
(* that was not there before (a file edited and then restored between two  *)
(* reads is outside the model: the code compares contents only).           *)
(***************************************************************************)
EXTENDS Stage05

CONSTANTS
  Resolvers,   \* the processes that may run Stage 10, too
  MaxVersion   \* bound: changes of each kind while resolvers are at work
ASSUME Stage10Assumption == Resolvers \subseteq Procs /\ MaxVersion \in Nat

VARIABLES
  host,   \* the host's packages, as versions, and what the package managers do
  res     \* process -> what its resolver has read so far

PackageLocks == <<"frontend", "dpkg", "lists", "archives">>  \* PACKAGE_LOCK_PATHS
Needs == [idle |-> {}, dpkg |-> {"frontend", "dpkg", "archives"}, lists |-> {"lists"}]

Changeable == {"sources", "extended", "status", "lists"}
Quiet == [version |-> [c \in Changeable |-> 0], manager |-> "idle"]

(* held locks out of the four, those whose file was replaced since, and the
   version each part of the report was read from; audited: the versions when
   the first audit ran (a history variable). *)
Nothing == [at |-> "lock", held |-> 0, lost |-> {}, sources |-> 0, extended |-> 0, status |-> 0,
            packages |-> 0, candidates |-> 0, actions |-> <<0, 0>>, marks |-> 0,
            audited |-> Quiet.version]

Locked(p) == {PackageLocks[i] : i \in 1..res[p].held}
Holding(l) == {p \in Procs : l \in Locked(p) \ res[p].lost}

Resolving == \E p \in Procs : run[p].pc = "resolve"

(* What a resolver read is gone when it is; versions count from when the first
   of those at work came. *)
Forget ==
  /\ res' = [p \in Procs |-> IF run'[p].pc = "resolve" THEN res[p] ELSE Nothing]
  /\ host' = IF Resolving' THEN host ELSE Quiet

stage05 == <<vars, faults>>

------------------------------------------------------------------------------
(* _authorization_session *)

Authorized == RootsExact /\ State = "validated" /\ Strict(rec.plan) /\ PrefixLength = 4

StartResolveUnlocked(p) ==  \* mutant: the journal is read without its flock
  /\ run[p].pc = "idle" /\ Authorized
  /\ run' = [run EXCEPT ![p] = Operation("resolve", "observe", rec.plan)]
  /\ UNCHANGED <<journal, roots, tree, lock, faults, host, res>>

StartResolve(p) ==
  /\ run[p].pc = "idle" /\ Authorized
  /\ lock.ex = Nobody
  /\ lock' = [lock EXCEPT !.sh = @ \cup {p}]
  /\ run' = [run EXCEPT ![p] = Operation("resolve", "observe", rec.plan)]
  /\ UNCHANGED <<journal, roots, tree, faults, host, res>>

(* The resolver returns its report, or raises: any read, command or check may
   fail, and the checks that must hold are the guards below. *)
EndResolve(p) ==
  /\ run[p].pc = "resolve"
  /\ Leave(p) /\ Forget
  /\ UNCHANGED <<journal, roots, tree, faults>>

------------------------------------------------------------------------------
(* _package_locks and _resolve_authorized, in the order of the code. *)

At(p, step) == run[p].pc = "resolve" /\ res[p].at = step
Now(c) == host.version[c]

Proceed(p, r) == res' = [res EXCEPT ![p] = r] /\ UNCHANGED <<stage05, host>>
Goto10(p, at) == Proceed(p, [res[p] EXCEPT !.at = at])

LockNext(p) ==
  LET i == res[p].held + 1
  IN /\ At(p, "lock")
     /\ Holding(PackageLocks[i]) = {} /\ PackageLocks[i] \notin Needs[host.manager]
     /\ Proceed(p, [res[p] EXCEPT !.held = i, !.at = IF i = 4 THEN "sources" ELSE "lock"])

(* The Docker key and source, legacy keys, foreign sources, platform, keyring. *)
ReadSources(p) ==
  At(p, "sources") /\ Proceed(p, [res[p] EXCEPT !.at = "extended", !.sources = Now("sources")])
ReadExtended(p) ==
  At(p, "extended") /\ Proceed(p, [res[p] EXCEPT !.at = "status", !.extended = Now("extended")])
ReadStatus(p) ==
  At(p, "status") /\ Proceed(p, [res[p] EXCEPT !.at = "audit", !.status = Now("status")])

(* dpkg --audit complains of whatever dpkg has not finished. *)
Audit(p) ==
  /\ At(p, "audit") /\ host.manager # "dpkg"
  /\ Proceed(p, [res[p] EXCEPT !.at = "query", !.audited = host.version])

Query(p) ==
  At(p, "query") /\ Proceed(p, [res[p] EXCEPT !.at = "policy", !.packages = Now("status")])

(* apt-cache policy must name the installed version dpkg-query named. *)
Policy(p) ==
  /\ At(p, "policy") /\ Now("status") = res[p].packages
  /\ Proceed(p, [res[p] EXCEPT !.at = "simulate", !.candidates = Now("lists")])

Simulate(p) ==
  /\ At(p, "simulate")
  /\ Proceed(p, [res[p] EXCEPT !.at = "simulate_again",
                               !.actions = <<Now("status"), Now("lists")>>])
SimulateAgain(p) ==
  /\ At(p, "simulate_again") /\ res[p].actions = <<Now("status"), Now("lists")>>
  /\ Goto10(p, "marks")

Marks(p) ==
  At(p, "marks") /\ Proceed(p, [res[p] EXCEPT !.at = "recheck_sources", !.marks = Now("extended")])

(* Everything read first is read again. *)
RecheckForgotten(p) == At(p, "recheck_sources") /\ Goto10(p, "recheck_extended")  \* mutant
RecheckSources(p) ==
  /\ At(p, "recheck_sources") /\ res[p].sources = Now("sources")
  /\ Goto10(p, "recheck_extended")
RecheckExtended(p) ==
  /\ At(p, "recheck_extended") /\ res[p].extended = Now("extended")
  /\ Goto10(p, "recheck_status")
RecheckStatus(p) ==
  /\ At(p, "recheck_status") /\ res[p].status = Now("status")
  /\ Goto10(p, "audit_post")

AuditPost(p) == At(p, "audit_post") /\ host.manager # "dpkg" /\ Goto10(p, "identity")

(* Each lock file must still be the one that was locked. *)
IdentityUnchecked(p) == At(p, "identity") /\ Goto10(p, "authorize")  \* mutant
Identity(p) == At(p, "identity") /\ res[p].lost = {} /\ Goto10(p, "authorize")

(* The package locks are released, the authorization is read again. *)
Authorize(p) ==
  /\ At(p, "authorize") /\ Authorized
  /\ Proceed(p, [res[p] EXCEPT !.at = "report", !.held = 0])

Resolve(p) ==
  \/ LockNext(p) \/ ReadSources(p) \/ ReadExtended(p) \/ ReadStatus(p)
  \/ Audit(p) \/ Query(p) \/ Policy(p) \/ Simulate(p) \/ SimulateAgain(p) \/ Marks(p)
  \/ RecheckSources(p) \/ RecheckExtended(p) \/ RecheckStatus(p) \/ AuditPost(p)
  \/ Identity(p) \/ Authorize(p)

------------------------------------------------------------------------------
(* The rest of the host. *)

World(h) == Resolving /\ host' = h /\ UNCHANGED <<stage05, res>>
Changed(c) == [host EXCEPT !.version[c] = @ + 1]

(* No lock guards what an administrator edits or marks. *)
Administer(c) ==
  c \in {"sources", "extended"} /\ Now(c) < MaxVersion /\ World(Changed(c))

(* apt-get, unattended-upgrades: under the locks it finds free. *)
ManagerStart(m) ==
  /\ host.manager = "idle"
  /\ \A l \in Needs[m] : Holding(l) = {}
  /\ World([host EXCEPT !.manager = m])
ManagerWrites ==
  LET written == IF host.manager = "dpkg" THEN "status" ELSE "lists"
  IN /\ host.manager # "idle" /\ Now(written) < MaxVersion
     /\ World(Changed(written))
ManagerEnds == host.manager # "idle" /\ World([host EXCEPT !.manager = "idle"])

(* The lock files of an idle package manager removed and made anew: who locked
   the old ones excludes nobody. *)
ReplaceLocks(m) ==
  /\ Needs[m] \cap Needs[host.manager] = {}
  /\ res' = [p \in Procs |-> [res[p] EXCEPT !.lost = @ \cup (Needs[m] \cap Locked(p))]]
  /\ UNCHANGED <<stage05, host>>

HostStep ==
  \/ \E c \in Changeable : Administer(c)
  \/ \E m \in {"dpkg", "lists"} : ManagerStart(m) \/ ReplaceLocks(m)
  \/ ManagerWrites \/ ManagerEnds

ResolverInit == Init /\ host = Quiet /\ res = [p \in Procs |-> Nothing]

ResolverNext ==
  \/ Next /\ Forget
  \/ \E p \in Resolvers : StartResolve(p) \/ Resolve(p) \/ EndResolve(p)
  \/ HostStep

ResolverSpec == ResolverInit /\ [][ResolverNext]_<<stage05, host, res>>

------------------------------------------------------------------------------
(* Properties. *)

(* From its first package lock to its report a resolver works under one
   validated, complete installation: no rollback() that starts in those minutes
   can begin to take it away, no execute() can move it. *)
AuthorizedThroughout ==
  \A p \in Procs : run[p].pc = "resolve" => Authorized /\ run[p].plan = rec.plan

(* Repository files, marks and package states in a report were all true at one
   and the same moment, that of the first audit, although they were read one by
   one while others were free to change them (read_only_state_changed). *)
StateOfOneInstant ==
  \A p \in Procs : At(p, "report") =>
    LET r == res[p]
    IN <<r.sources, r.extended, r.marks, r.status>> =
       <<r.audited["sources"], r.audited["extended"], r.audited["extended"], r.audited["status"]>>

(* The candidates in a report and the transaction simulated for them come from
   one package cache, and from the package states reported with them: whatever
   became of the lock files, no apt update went between. *)
OneCache ==
  \A p \in Procs : At(p, "report") =>
    res[p].packages = res[p].status /\ res[p].actions = <<res[p].status, res[p].candidates>>

(* A report speaks of one instant of the host. *)
OneInstant == StateOfOneInstant /\ OneCache
==============================================================================

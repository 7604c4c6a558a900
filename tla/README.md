# Verification of kitdev-sandboxes in TLA+

This directory holds TLA+ models of the program in this repository, the TLC
configurations that check them on small instances, and proofs checked by TLAPS.
A definition is translated from the source, at the lines `PROJECT.json` gives
under `map`; code that is not in the repository (the kernel, the disk, the
control plane, other administrators) is modelled from how the repository uses it and
marked external.

Paths below are relative to `src/kitdev_sandboxes/` unless they say otherwise.

## 1. The system

kitdev-sandboxes installs and operates a single-host sandbox platform. Its core
is Python and shell run as root from a command line, in short-lived processes.
There is no daemon of its own and little memory: **all state is in files, rules and
remote tables, and it must be right after any process is killed, any call fails
and the host loses power**. Almost every hard question about the code is of that kind.

| Component | State it keeps | Operations | Talks to | What makes it hard | What makes it correct |
|---|---|---|---|---|---|
| Installation journal `journal.py` | one record per install id: plan, resources, history of states; a flock on the directory | `create`, `load`, `resume`, `transition`, `load_inflight`, `inspect_residue`, `load_unpublished`, `cleanup_temps` | the file system; used by Stage 05, Stage 10 | a crash between any two of open, write, fsync, link, fsync, unlink, fsync; handlers that fail too; concurrent sessions | one writer; history only grows by allowed transitions; nothing returned to a caller is lost; the published name is never torn; residue is recognizable |
| Stage 05 reconciler `stage05.py` | state and journal roots, three directories and the marker that authorizes a disposable lab host | `execute`, `rollback`, `observe` | the journal; production evidence on the host | the resource tree and the journal are two stores that fail independently; the roots are made before any lock | write-ahead; marker last on, first off; an authorized state means a complete tree; rollback is always possible and ends |
| Stage 10 authorization `stage10.py` | none; holds a shared journal session and four package locks | `resolve` | the journal, the marker, dpkg and apt | what was authorized or read at the start may not be so at the end | the report speaks of one instant, authorized throughout |
| API keys `api_keys.py` | key file, metadata file, and the remote key they describe | `create`, `verify`, `revoke`, `list` | the remote control plane; the lifecycle lock | lost responses, crash between the remote call and the file, retries | no remote key without a local trace of the intent; revocation is repeatable |
| Command runner `runner.py` | one child process group and two pipes | `run` | the kernel | deadline, TERM, grace, KILL and exit race; children that keep the pipes | every run ends; success is complete; nothing is left behind unreported |
| Firewall `firewall_sources.py`, `scripts/ingress/firewall_source_state.py`, `scripts/ingress/configure-firewall.sh` | manifest of sources and mode; ufw rules; a guard chain for each iptables family | add and remove a source, set mode, apply, remove | ufw, iptables | three stores changed command by command, one of them lost at reboot | success means they agree; a failure restores; apply repairs |
| Template publication `scripts/control-plane/publish-stable-template.sh`, `template-publication-state.py`, the TypeScript client | an ownership journal with a record for each version | publish, roll back, migrate | the control plane's API and database | builds outlive their client, the client outlives its script, the public switch is not in the journal | records are true; only leftovers are deleted; debris does not block |
| Identity planning `identity.py` | none of its own; plans from account facts and a manifest | `collect_identity_facts`, `build_identity_plan` | getent | facts that are missing, stale or half there | ids are free or the service's own; doubt suppresses the plan |
| Planning and composition `preflight.py`, `composition.py`, `planning.py`, `cli.py` | none | doctor, install dry run | collectors | one fact judged in several places, several exit codes | the judgments agree |
| Lifecycle `lifecycle.py`, `scripts/control-plane/lifecycle.sh` | units and containers; the lifecycle lock | up, down, restart, status | systemd, compose | a unit that fails in the middle | order of start and stop; exclusive with key operations |
| Host admission (`patches/e2b-infra/882a3b4-host-admission.patch`) | an atomic counter of slots | acquire, release, hand over | the patched orchestrator | concurrent starts at the limit | never above the limit |
| Configuration, collectors | none | parsing, observation | the host, read-only | - | - |
| Backup and restore, bring-up scripts, ingress installation and certificates, remote lab runner, Ansible roles, acceptance suites | files and services owned by external tools | convergence | external engines | - | - |

How they interact. Everything that changes the host's installation runs inside
one flock: Stage 05 holds the exclusive flock of the journal directory from
before it reads the record until after its last fsync, Stage 10 and `observe` hold
the shared one. API key operations, the lifecycle and template publication use lock files of their own,
and so does the firewall. There are no callbacks and no messages; processes meet only through
these locks and through what earlier processes left on disk, in the kernel's tables or on the control
plane. `PROJECT.json` lists every component with its status, and the hazards with their lines.

## 2. The modules

```
CrashFs            what is visible and what is durable in one directory  (external)
JournalRecord      the record: plan, history, transition table
  Journal          ABSTRACT: what the journal promises its callers
    ^  implemented by (KeepsPromise)
  JournalStore     journal.py, system call by system call
  Stage05          stage05.py on top of the promise (INSTANCE Journal), roots included
    Stage05Operator      failures that cease, and an operator who insists on rollback
    Stage10        stage10.py beside running Stage 05 operations and package managers
  ApiKeys          api_keys.py against a control plane that may answer late
    ApiKeysOperator      failures that cease, and an operator who repeats both commands
Runner             runner.py against a process group
FirewallSources    what a source and a manifest may be, as both validators see it
  Firewall         configure-firewall.sh
TemplatePublication      publish-stable-template.sh, its journal and its client
IdentityPlan, InstallPlan      identity.py; preflight.py, composition.py, planning.py
  DryRun           both under the command line
MC*                instances for TLC
<module>Proofs     theorems about JournalStore, Stage05 and Stage05Operator, Stage10 (extends
                   Stage05Proofs), ApiKeys and ApiKeysOperator, Runner, Firewall with its sources,
                   TemplatePublication and DryRun
```

### CrashFs

A directory is `[now, disk]`: the entries that programs see, and every content a
power failure may leave. `Put` changes `now` and adds it to `disk`; `Sync`
forgets all but `now`. Operations reach the disk in order, at an unknown time.
Different directories are independent.

This is the model the code is written against: it syncs a file before it gives
the file its name, and each parent directory separately. A journaling file
system such as ext4 often commits unrelated metadata along with an fsync, so a
real disk may forget less than the model; it is not promised to.

### JournalStore (`journal.py`)

`root` is the journal directory (name -> inode), `file` what each inode holds: the
record, whether every byte was written, whether the bytes were synced. `lock` is
the flock, `call[p]` the program counter and locals of the session of process
`p`, and `acked` a history variable: the last record that `create()` or
`transition()` returned (or, after a power failure, the record left).

Each system call that changes something is one action: `NewTemp` (open with
O_EXCL), `WriteTemp`, `FsyncTemp`, `LinkFinal`, `LinkSync`, `UnlinkTemp`, `UnlinkSync`,
`ReplaceFinal`, `ReplaceSync`, `CleanUnlink`, `CleanSync`, `LoadRecover`,
`LoadRecoverSync`; each way to raise is one too. Reads are part of the action that
acts on them, which is sound because every writer holds the exclusive flock
(`OneWriter` shows it). `Fault` is an exception at any call, including the handler that
unlinks the temporary file, and including that handler failing. `Kill` may come
at any point and releases the flock. `PowerLoss` picks a durable state of the directory and
may tear every file that was not synced. `resume()` is `load()` with two more
checks of the record it returns and `load_inflight`, `inspect_residue` and `load_unpublished` are reads.
The only caller of `cleanup_temps` passes the record and its successors, and so does `Call`.

Abstracted: the JSON text, its hashes and resource list, the checks of owner,
mode, type and xattrs of files nobody but this code creates.

### Journal (the promise)

Three variables: the published record, the floor below which no crash takes it, and whether a
torn temporary file blocks further writes. The steps are: publish once, advance by one allowed
transition, acknowledge, be interrupted, lose power. `KeepsPromise` is the
refinement of this by `JournalStore`.

### Stage05 (`stage05.py`)

The journal through its promise, and a CrashFs directory for each resource: the two roots,
`config` with its mode (`provisional` is the 0700 between mkdir and fchmod),
`experiments`, `workspace`, and `marker` for the two names in the config
directory (marker, temporary marker). `run[p]` is the operation of a process and
where it is. One action per mutation and per fsync, as above.

`execute()` makes the state root and the journal root before it can lock anything
(`AllocateRoots`): two first executes interleave there step by step, each repairing, finding exact or refusing
what the other is half way through. From `Enter` on the flock is held. The whole of
`_prepare_existing_record` is `Usable`: residue it can clean is invisible through the
promise, residue it cannot is `blocked`. `Raise` is the `except Exception` clause
of `execute()`: it enters `_record_failed_if_stable` only where the code does.

What can go wrong in one behaviour is one of the constant `FaultModels`: sets of processes killed,
system calls raising, production evidence found, power lost.

### Stage10 (`stage10.py`)

Extends `Stage05`: a resolver is one more operation under the shared flock, and all Stage 05
operations run beside it. `res[p]` says which package locks it holds (of the four of
`PACKAGE_LOCK_PATHS`, in order) and from which version it read sources, extended states, dpkg status, packages,
candidates, simulated actions and marks. `host` has the versions and the package manager at work; an administrator may change
sources and marks at any time, a manager changes databases under the locks it needs, and the lock
files may be replaced. The lock identity check (597-609) and the second read of every file (821-832) are steps.

Named assumptions: a version never returns (a file that is edited and edited back between the two
reads is not noticed by the code either), and lock files are replaced by a manager that is not
in the middle of a transaction.

### ApiKeys (`api_keys.py`)

One key of one service. `meta` is the metadata file (a journal of its own, with states creating,
active, revoked) and `key` the file that alone holds the raw value, each a CrashFs directory,
because `--metadata-file` may put them in different ones. `linked` in a file says that the
temporary name it was linked from is still there: `_secure_read` refuses it. `remote` is the
control plane's table (id -> name of the live key), `late` the requests it will act on although
the client gave up, `lock` the lifecycle lock, `run[p]` the command of a process and where it
is.

One action per request and per system call that changes a file: the intent (`LinkIntent`,
`UnlinkIntentTemp`, `SyncIntent`), what a repeated `create` finds (`FoundPublished`,
`FoundOrphan`, `FoundNothing`, `FoundOther`), `CheckKey`, `RevokeOrphan`, the listing before the
POST (`ListClear`, `ListConflict`), `Post`, the key file (`LinkKey`, `UnlinkKeyTemp`,
`SyncKey`), `Complete`, `CompleteSync`, and for `revoke` `RevokeStart`, `Revoke`, `Mark`,
`MarkSync`, `RevokedAlready`, `DeleteKey`, `DeleteSync`, or `RemoteRevoke` without metadata.
`Error` is an exception at any of them, with the publishers' `finally` and with `create`'s
handler (`Withdraw`); `Timeout` leaves the request under way; `Deliver` is the control plane
acting on it, in any order. A request of a killed process may or may not be carried out.

Abstracted: the value of the key (the id stands for it), HTTP status codes other than done and
not there, label and team, ownership checks. `list` and `verify` change nothing. The
`FileExistsError` branches of the publishers are not reachable while the lock is held and only
this code writes the files. A UUID is never reused in the program; the model recycles an id or a
name when nothing refers to it any more (`FreeId`, `FreeName`), which is the same up to renaming
and keeps the model finite without a counter.

### Runner (`runner.py`)

Two processes, the command (`leader`) and one it may fork (`kin`), in one process group, or with `kin`
escaped from it by setsid. They write to the pipes, close them, exit, ignore SIGTERM, or hang in the kernel.
`pending` is what is in a pipe; end of file is when nobody holds it. Time is `late`, the bounds that
have passed: deadline, grace, reap. `run` is `CommandRunner.run`, one action per turn of its loop: `Terminate`,
`KillGroup`, `GiveUp`, `Select`, `ReadChunk`, `ReadEOF` (with the kill when the last pipe closes), `ReadFails`, `SelectFails`, `FinalKill`,
`Reap`, `Waited`, `WaitExpires`; `Outcome` is `_classify_outcome`. A stray signal is
one sent to the number of a group that is empty and whose leader was reaped (`EmptyGroup`).
Normalization of text is not modelled; output is counted in units.

### FirewallSources and Firewall

A source is an interval of addresses of one family. `ValidDocument` is the validation of the backend
(`firewall_source_state.py`), `Believable` the one the command line applies to the backend's answer
(`firewall_sources.py`): they are two pieces of code for one rule. `Sorted` is the order in which the backend writes sources,
each at its rank.

`Firewall` has the manifest, the ufw rules, a guard chain per iptables family, and `op`, the
operation at work (one at a time: the lock is inherited by the commands of a killed script). The phases of `op` are the
functions of `configure-firewall.sh`: verify, remove, check, add, final, commit, clean, absent.
Each ufw or iptables command is a step; a guard takes two. A command may fail (`Error`,
`CleanError`), the script may be killed, the host may reboot, which loses the guards and keeps the ufw
rules, and somebody else may add a rule.

### TemplatePublication

`record` is the journal of `template-publication-state.py`, a record per version; `templates` and
`builds` are the control plane's tables, `claimed` says that another team has the alias. A script
goes through `Reserve`, `AliasOwned`, `RemoveDebris`, `Recount`, the client (`ClientChecks`, `ClientBuilds`,
`ClientWaits`, `ClientQualifies`), `RecordCandidate`, `Patch`, `Verify`, `Commit`; or `Show` and
`DeleteCandidate` or `RemoveStable`, and `RecordRollback`. Finding debris (`FindDebris`) and deleting it are two steps, and what is
deleted is the id found.

The script's descriptors hold two flocks, and the docker CLI that runs the client inherits them. `Die` kills the script: its client lives
on, and the locks with it. `LosesLocks` kills the docker CLI as well: the container goes on and the locks are free, so another
script may start beside it. A build lives on without any of them. The field `locked` of a build says whether the client that
requested it had its locks; only properties read it.

`migrate-definition` of the state tool takes no lock: `MigrationReads` loads the record and `MigrationWrites` stores all of it
later, whatever a script wrote in between. The opposite loss, a script that writes over what a migration wrote, is as if
the migration had not been run. There is one migration at a time, and one that never writes is one that was killed.

### IdentityPlan, InstallPlan, DryRun

`IdentityPlan`: `Collect` reads each name through getent from all sources and from the files, the groups of each account through
id, and the two databases. Any set of these lookups in `Outages` may fail, each of them silently (non-zero, no output: what
getent also says of a name it does not know) or otherwise (a timeout, a signal, cut or malformed output). `Status` keeps the order of
`_account` and `_group`: a silent failure of the first call is an absence, before the answer of the files is looked at; a silent answer of the files
makes an entry one of another source; every other failure is *unknown*. A whole database is *unknown* after any failure.
`BuildIdentityPlan` is the function of that name with each of its issues. The repository has no
code yet that carries a plan out. The model's operator does, as the plan's preconditions say (persist the mapping, then
groups, users, lxd), may stop at any point, and others change accounts meanwhile, so plans are made of half-made and
changed hosts. The manifest and the verified prerequisites are arguments that the tests pass and the command
line does not yet.

`InstallPlan`: `EvaluateHost` is `preflight.evaluate_host`, `KernelCheck`, `CapacityCheck`,
`ServicesCheck` and `SecurityCheck` are the checks of `composition.py`, `ChangePlan` is `planning.py`, and the actions are
the order in which doctor and the dry run collect, judge and return. What a collector may return is
a set of facts. `DryRun` puts both under the three commands of `cli.py`; the identity phase collects its facts on whatever
host it is started, refused or not, and `Hosts` are the platforms it is tried on.

Left out: the issues about the paths `/usr/sbin/nologin` and `/nonexistent`, a missing operator in the configuration and duplicate
facts, which all suppress the plan, so the model has plans the code has not; hosts whose files disagree with the other sources about a
name, of which the code makes *unknown*; groups of a source that does not enumerate (only accounts have one, and `IdsAreFree` would
be restricted to the groups listed in the same way). A directory server that is down is like a directory
that is not enumerated, or a failed lookup. `amd64` is not what Linux reports (`uname` says `x86_64`), but `identity.py:527` accepts the name and
`preflight.py:427` does not, so hosts of that name are tried.

Three things the model made visible. Exit code 6 is documented and never reported today, because a 5 is always present
(ports are not yet judged). Lines 448-455 of `composition.py` are never reached (420 returns first). The
default collector authenticates no directory, so an installed host is reported as a conflict (4).

## 3. The runs

| Run | Question | Bounds | Result |
|---|---|---|---|
| `journal_store` | Does the journal keep its promise under everything at once? | 2 processes, 2 plans, 2 temporary names, 3 files, histories of at most 3 | holds, about 200,000 states |
| `stage05` | Does the crash table hold, from the allocation of the roots on, and is no host stranded, when processes die and calls raise, or when power is lost? | 2 processes, 2 plans | holds, about 786,000 states |
| `stage05_live` | Does every operation end, and does insisting on rollback succeed? | 1 process, 1 plan | holds, about 54,000 states |
| `api_keys` | Do metadata, key file and control plane agree under kills, exceptions, late requests, or power loss and late requests, and does repeating get out of an interruption? | 1 process, 3 ids, 2 names | holds, about 343,000 states |
| `runner` | Is what `run()` reports true, and does it return? | 2 processes, 2 streams, 1 unit kept of 2 | holds, about 1,100,000 states |
| `stage10` | Is the report authorized throughout and of one instant? | 2 processes, 1 resolver, 1 plan, 1 change of each kind | holds, about 283,000 states |
| `firewall` | Do manifest, rules and guards agree when an operation says so, and does a failure restore and apply repair? | 3 sources in 2 families, nested, broad and non-public; 2 errors in an operation | holds, about 162,000 states |
| `template_publication` | Are records true, are only leftovers deleted, does debris not block, with clients that outlive their script and its locks and a migration beside it? | 2 scripts, 2 versions, 2 definitions, 2 faults, 1 migration at a time | holds, about 455,000 states |
| `dry_run` | Do the judgments of one fact agree, and are identity plans safe on every host? | 2 services, 4 ids of which 1 excluded, 1 change by others, 4 platforms for the identity phase, 1 or 2 failed lookups, 2 inventory groups out of order, 2 directories | holds, about 1,650,000 states |
| `stage05_rolled_back` | Does the row *rolled_back* of the documented crash table survive a kill and then a power loss? | 2 processes, 2 plans | violated, section 5 |
| `firewall_stranded` | Does apply refuse only what is not this project's? | as `firewall`, kills only | violated, section 5 |
| `template_deleted` | Is no published template deleted? | as above, 1 fault | violated, section 5 |

Why these bounds are enough to be interesting. Two processes make a writer, a
concurrent session and the successor of a killed one. Two plans make a conflict.
Two temporary names let a second residue appear beside the first. Three
files are the published one, the one being written, and one that only the disk
still names. `MaxTransitions = 3` (4096 in the code) covers creation, a first
transition, a transition that replaces a replaced file, and the refusal at the
bound; the directory protocol does not depend on which transition it is. In Stage 05 nothing bounds
the histories: its operations reach at most
planned, applying, applied, validated, rolling_back, rolled_back. The liveness
run has one process, since two only ever exclude each other by the flock
(`OneMutator`), and no power loss: a power loss after another failure can
strand a host, which is what section 5 is about.

`ApiKeys` has one process because the lifecycle lock admits one command at a time and a second one
only returns at once; a kill lets the same process come back as its own successor. Three ids are the key
in use, the one a late request makes, and the one a retry makes; two
names let a late request of an earlier intent meet a new one. The requests under way are a set
of these, so nothing else needs a bound.

The runner needs a child besides the command, because every hard case is about one that outlives the
other, and two units against a limit of one make a truncated stream. Stage 10 needs a second process for
rollback and execute to knock at the lock; one change of each kind is enough for a read to be stale. Three firewall sources are
an address inside a block, so that they overlap, and one of the other family; two errors are a failed step and
a failed restoration of it. In `TemplatePublication` a version needs one build that does not fail and every fault wastes
one, so the ids suffice by construction. In the identity band, four ids with one in the middle
excluded leave three for two services, so one taken id leaves just enough and two do not. Of the lookups, each one that is not about the
first service fails alone (the services are alike but for kvm), and the two that show the worker fail together, because only
then is an identity that exists not seen at all. The platforms of the identity phase are one that all rules accept, one that preflight alone refuses, and one
each that the release and the architecture refuse; of doctor and install, every platform is tried. `MaxDeviations` lets every pair of
inventory groups be out of order together.

Symmetry (`journal_store`, `stage05`): processes, plans, temporary names and files are
interchangeable and no property of these runs tells them apart. The other runs use none.

Deadlock is checked in all runs but four: `runner` ends when `run()` has returned; the `dry_run` commands end with their
report; in the two template runs everything may be published or refused and the bounded faults used up.

### Properties

Journal:

- `OneWriter`: an exclusive session excludes every other one, through kills.
- `AckedIsDurable`: whatever a crash leaves extends what a caller was told.
- `PublishedIsWhole`: the final name never leads to unsynced bytes.
- `ResidueIsCanonical`: what lies beside the record is one temporary name, torn or
  exactly what the recovery code knows.
- `KeepsPromise`: the refinement.
- `IInv`: the inductive invariant the proofs use (section 4).

Stage 05:

- `OneMutator`: no operation overlaps one that mutates.
- `RootsSurvive` (`RecordHasRoots`, `RootsNeverStranded`): whatever two racing first executes and a power failure do, no record
  is lost with its directory and the roots can be completed.
- `WriteAhead`: no resource in states none, planned, rolled_back.
- `MarkerIsLast`, `AuthorizedIsComplete`: authorization never outlives nor precedes what
  it authorizes.
- `NeverStranded`: when no one is at work, rollback's preconditions hold of whatever
  is there.
- `OnlyTakenAway`: once revoked, no step brings a resource back.
- `EveryRunEnds`, `RollbackCompletes`: liveness.

Stage 10: `AuthorizedThroughout` (one validated installation from the first lock to the report) and `OneInstant` (all
parts of the report were true at once, and candidates and simulation come from one package cache).

API keys:

- `MetadataIsTrue` (`ActiveMatches`, `RevokedIsGone`): whatever late requests did, active metadata and the key file are
  of one key, and revoked metadata is true.
- `EveryLiveKeyIsRecorded`, `LiveKeyIsNotLost`: across a power loss, no live key without its intent on
  disk and no active key without its raw value.
- `CreateConverges`, `RevokeConverges`: liveness.

Runner: `SuccessIsComplete` (success means every byte was read and nobody is left who could write), `NothingOutlives`
(`GroupIsGone`, `LeaderIsReaped`), `NoStraySignal`, and `RunReturns` (liveness).

Firewall: `SuccessIsExact`, `FailureRestores` (what a failed rule change and what a failed manifest write leave: the manifest, the rules
and the guards, each exception named), `ApplyRepairs`,
`ManifestIsUsable` (`ListIsBelieved`: the two validators agree; `GuardedFamilies`).

Template publication: `RecordIsTrue` (`CandidateIsQualified`, `WithdrawnStaysWithdrawn`), `PublicIsJournaled`,
`DeletesOnlyLeftovers` (with one exception: a build added to debris, between its lookup and its deletion, by a client that has lost
its locks), `DebrisNeverBlocks` (liveness: the way to a new build becomes free; it does not say that the build is released).

Dry run: `PlanIsSafe` (`IdsAreFree`; `AdoptsOnlyItsOwn`: an identity that was found is the service's own, one that was not found is left alone; nothing is reallocated, the operator
keeps sudo; `DoubtSuppresses`: no failed lookup leaves a plan with actions but those in `Overlooked`), `CarriedOutIsStable`, `GatesAgree`
(`PlannerAgreesWithGate`: two rules of releases; `IdentityAgreesWithGate`: of the facts the identity phase reads, preflight refuses nothing it
accepts, but for `amd64`; `IneligibleIsLeftAlone`: install collects nothing on a refused host), `ExitsAgree` (two mappings to exit
codes), `DirectoriesAreJudgedTogether`.

The type invariants (`TypeOK`, `InstallTypeOK`) of the modules other than `JournalStore` hold in these configurations and are
not in the list of each run; to check one, add it to `INVARIANT`. Those of `Stage05`, `ApiKeys`, `Runner`, `Firewall`,
`TemplatePublication` and `InstallPlan` are proved for every instance (section 4).

### Fairness

`WF_vars(Step(p))` in Stage 05: an operation that is running takes its next system call. It
is a single sequential program that never waits (the flock is non-blocking), so
this only says the scheduler runs it; faults are not part of `Step` and are never
required. Strong fairness of starting a rollback, needed only for `RollbackCompletes`, is the
operator who keeps calling rollback as the documentation asks; strong, because
other calls may hold the flock in between. `RollbackCompletes` speaks of the time after
failures have ceased (`calm`): no system can finish if every attempt is killed. `calm` is a
variable and not a condition on steps, because an exception and a refusal can be
the same step.

`ApiKeysOperator` assumes the same of a running command (every wait of it
ends by a time limit), that the control plane gets to every request it received
(`WF_vars(Deliver)`), and an operator who repeats `create` and `revoke --delete-key-file`
(strong fairness, for the reason above). Its properties except `Wedged`, three situations that
no repetition leaves, so they say nothing of the two links of a killed publication nor of a withdrawn key whose file is there;
section 6 says how each comes about.

`Runner` assumes that the clock passes its bounds, that the runner is scheduled, and that a leader that was sent a
deadly signal dies if it does not hang in the kernel. The command owes nobody an exit or output.

`TemplatePublication` assumes that a started script and its client go on, that a build can end well, and an operator who keeps
publishing (strong, because other runs take the locks in between). Faults are bounded, so they cease.

## 4. What is proved

Every state invariant, action property and refinement of the passing runs is a theorem. The theorems hold for every value of the constants that meets the assumptions: any number of
processes, plans, files, ids, services, sources, versions, and no bound on the faults but the constants' own. Liveness stays
with TLC.

### What is assumed of the constants

TLC evaluates all of these in the runs.

| Assumption | Says |
|---|---|
| `NoPlanIsNoPlan` | the plan of no record is not a plan |
| `StoreAssumption` | the final name is not a temporary name, the null file and process are not files or processes, the bound is a natural number |
| `Stage05Assumption` | nobody is not a process; fault models are sets of the four kinds of fault |
| `Stage10Assumption` | resolvers are processes; the bound on versions is a natural number |
| `ApiKeysAssumption` | the null process, id and name are not processes, ids or names; there are finitely many ids (a listing is finite); names are not the two marks of a key that is not live |
| `RunnerAssumption` | the limits are natural numbers |
| `FirewallAssumption`, `FirewallSourcesAssumption` | there are finitely many blocks, not empty intervals of natural numbers of family 4 or 6 (an address has 32 or 128 bits); fault models are sets of the kinds of fault; the bound is a natural number |
| `TemplateAssumption` | scripts and versions are finite, nobody is not a script, the bounds are natural numbers |
| `OutageAssumption`, `HostsAssumption` | lookups that fail are lookups, platforms that are tried are platforms |
| `IdentityAssumption` | the names of the services differ (`_SERVICES`), the worker is one of them, none is `operator`, `kvm`, `sudo` or `lxd`; the band is of positive numbers |
| `InstallAssumption` | the names of probes, checks and directories in a report do not collide |

Some theorems about `Stage05`, `Stage10` and `ApiKeys` have the hypothesis `OneKindOfFailure` (the tables below say which): no
fault model has power failures together with kills or failing calls. It is the condition under which the
documents claim their crash tables, and it is needed: `stage05_rolled_back` and section 6 show these
very properties fail when a kill or an error precedes a power failure. Kills and errors
together, and power failures however often, are within it. Requests acted on late are
allowed with either. The runs `stage05` and `api_keys` satisfy it. `OneKeyForOneName` has another one, `NoLateRequest`: no
request is acted on after its client gave up; section 6 shows that it is needed. All other theorems hold for every fault model.

### JournalStoreProofs

| Theorem | Says |
|---|---|
| `Invariance` | `Spec => []IInv` |
| `TypeCorrect` | `Spec => []TypeOK` |
| `SingleWriter` | `Spec => []OneWriter` |
| `Durability` | `Spec => []AckedIsDurable` |
| `Wholeness` | `Spec => []PublishedIsWhole` |
| `Residual` | `Spec => []ResidueIsCanonical` |
| `Refinement` | `Spec => KeepsPromise`, that is `Spec => Promise!Spec` |

`AckedIsDurable` alone is not inductive: to see that a rename keeps it
one must know that the renamed file holds a record that extends the published
one; for that, that nobody else published since it was checked. So `IInv` adds to
the type invariant and to `OneWriter`

- `DiskOK`: every durable state of the directory has records behind its names and
  a whole, sufficiently long one behind the final name;
- `CallOK(p)`, the annotation of the program: from the check of a transition to
  its rename the record it extends stays published (`Pending`); from open to publish the
  temporary inode holds the new record and no durable directory state publishes that
  inode (`Writing`); after the last fsync the disk has one state only.

`NextIsIInv` has one step per action; the steps that only move the program counter share
one lemma, and so do those that unlink, those that sync and those that add an entry.

The residue and the refinement need more, `PInv`: no power failure leaves a record ahead of the one that can be read
(`NowIsLatest`), and a writer that passed the cleanup writes the plan's first record or an allowed successor and found no residue
(`Tidy`). A step of the directory then shows as one step of `Journal` or as a stutter (`Shows`), and a power loss as its
power loss. The proof of `Refinement` maps the initial states and then each action.

### Stage05Proofs

| Theorem | Says | For |
|---|---|---|
| `Invariance`, `TypeCorrectness` | `[]IInv`, `[]TypeOK` | every fault model |
| `MutualExclusion` | `[]OneMutator` | every fault model |
| `RootsAreSafe` | `[]RootsSurvive` | every fault model |
| `RevocationOnlyTakesAway` | `OnlyTakenAway`, an action property | every fault model |
| `ResourcesFollowTheJournal` | `[](IInv /\ TreeInv)` | `OneKindOfFailure` |
| `JournalComesFirst` | `[]WriteAhead` | `OneKindOfFailure` |
| `MarkerComesLast` | `[]MarkerIsLast` | `OneKindOfFailure` |
| `AuthorizationIsComplete` | `[]AuthorizedIsComplete` | `OneKindOfFailure` |
| `NobodyIsStranded` | `[]NeverStranded` | `OneKindOfFailure` |
| `CrashTable` | the rows *planned*, *rolled_back* and *failed* of the documented crash table: `PlannedMeansNothingThere`, `RolledBackMeansNothingThere`, `FailedMeansStable` | `OneKindOfFailure` |
| `KeepsToTheJournal` | `Spec => J!Spec` | every fault model |
| `OperatorIsAllowed` | `OperatorSpec => Spec` | every fault model |

`IInv` says who holds the flock, what the journal says at each program counter and in which states the two roots can be, before and
under the lock. What a mutator has read of the journal stays true because it is alone (`Alone`).
This part needs no knowledge of the tree, so it holds whatever fails.

None of the four properties of the second part is inductive. That *applying* is durable when the first directory
appears is only the beginning: a power failure may restore any durable state of each directory *and* of the journal, so
`TreeInv` speaks of all of them. `NowStable`: the visible tree grows and shrinks in order and is what the record
permits (`Stable`). `AtWork`: what the operation at work has done so far. `PowerSafe`, where power fails:
whatever combination of durable contents a power failure picks is stable both for the record and for its `floor`; each
change is synced before the next (`SyncedAt`), which the program counter tells because no operation was
interrupted. Each property follows by a lemma of its own about one state, which `Stage10Proofs` uses again. `CrashTable` is the
positive side of section 5: the three rows that a power failure after another failure breaks are true without it.

`KeepsToTheJournal` closes the tower: `JournalStore` implements the promise, and Stage 05 asks of it only what it promises. It is
shown for the variables `rec`, `floor` and `blocked` action by action; what a mutator knows of the record (`Informed`) makes
its requests ones that `Journal` allows. `OperatorIsAllowed` says that `Stage05Operator` adds fairness and the variable `calm` and no step, so
that what is proved of `Spec` holds of it.

### Stage10Proofs

| Theorem | Says |
|---|---|
| `ResolverInvariance` | `ResolverSpec => []ResolverInv` |
| `StaysAuthorized` | `ResolverSpec => []AuthorizedThroughout` |
| `ReportIsOneInstant` | `ResolverSpec => []OneInstant` |
| `ResolversDisturbNothing` | `ResolverSpec => []` of all six state invariants of Stage 05, under `OneKindOfFailure` |
| `RevocationBesideResolvers` | `ResolverSpec => OnlyTakenAway` |
| `ResolverIsAnObserver` | `ResolverSpec => S!Spec`, where `S` is `Stage05` with `Seen` for `run` |

They extend `Stage05Proofs`: a resolver is a reader of the journal, what another process does leaves
him in place (`Bystander`) and cannot change what is authorized (`StillAuthorized`), so the invariant of Stage 05 is carried over for any
fault model (the run has none). `ResolverInv` brackets each
version read between those of the first audit and those of now; the second reading closes the
bracket, and the four locks, as long as their files were not replaced, keep the databases still in between.

The other direction is that resolvers leave Stage 05 as it is. `Seen` shows a resolver as an `observe()` that has not ended;
under this mapping the start of a resolver is `BeginObserve`, its end (or its death) is that of an `observe()`, and all it reads, and
all the host does, is a stutter. Every step of another process is the same step of Stage 05 (`SeenAllocating` to `SeenLosingPower`, one lemma
for each group of actions), because nothing a step looks at but its own entry of `run` differs (`SameState`,
`SameJudgment`, `SameJournal`). No run lists this refinement as a property; with `Seen` and `S` copied
into `MCStage10`, TLC finds `S!Spec` true in the instance of that run.

### ApiKeysProofs

| Theorem | Says | For |
|---|---|---|
| `Invariance`, `TypeCorrectness` | `[]IInv`, `[]TypeOK` | every fault model |
| `WhatTheMetadataSays` | `[]MetadataIsTrue` | every fault model |
| `NoOrphanKey` | `[]EveryLiveKeyIsRecorded` | `OneKindOfFailure` |
| `ActiveKeyIsDurable` | `[]LiveKeyIsNotLost` | `OneKindOfFailure` |
| `RevokedBeforeDeleted` | `[]DurableBeforeDeleted`, where power may fail | `OneKindOfFailure` |
| `OneKeyForOneName` | `[]OneRemoteKey` | `NoLateRequest` |
| `OperatorIsAllowed` | `OperatorSpec => Spec` | every fault model |
| `RepeatingIsSafe` | `OperatorSpec =>` the three safety properties above, always | `OneKindOfFailure` |

`IInv` says that all a disk may hold of the two files is of one name and, once the metadata is final or a key file is
there, of one id, whose live key has that name (`FilesOK`), and what the command under the lock knows at each step (`KnowsAt`).
`SafeInv` adds that a file has one durable content unless the command is between a change and its fsync (`Settled`) and
that a late POST names what every durable metadata file names (`LateIsRecorded`). For `OneKeyForOneName` the listing before the POST must
still be true when the POST is carried out (`ListedClear`): nobody else is at the control plane for this service, and no
request is late.

### RunnerProofs

| Theorem | Says |
|---|---|
| `Invariance`, `TypeCorrectness` | `[]IInv`, `[]TypeOK` |
| `SuccessMeansComplete` | `[]SuccessIsComplete` |
| `NobodyOutlivesRun` | `[]NothingOutlives` |
| `SignalsStayInTheGroup` | `[]NoStraySignal` |

`SuccessIsComplete` speaks of the last state; on the way there, units are conserved (what was written was kept, counted
as discarded, or is in the pipe: `Conserved`), a stream that is no longer watched has reached its end unless the command was cut short
(`ClosedIsAtEnd`), the loop is left in the order of the code (`InOrder`), and after the final kill nobody of the group was missed
(`GroupIsDoomed`). `IInv` is these with `NoStraySignal`.

### FirewallProofs

| Theorem | Says |
|---|---|
| `Invariance`, `TypeCorrectness` | `[]IInv`, `[]TypeOK` |
| `SuccessMeansExact` | `[]SuccessIsExact` |
| `FailureIsUndone` | `[]FailureRestores` |
| `ApplyIsRepair` | `[]ApplyRepairs` |
| `ValidatorsAgree` | `ValidDocument(items) <=> Believable(items)` for every list a back end may print |
| `ManifestStaysUsable` | `[]ManifestIsUsable` |

For every fault model, also those that mix errors with kills and reboots, which the run does not. `FailureIsUndone` is about both halves of
the guide's "If a rule change or manifest write fails, the backend restores the previous source set". After a failed rule change the
manifest is untouched and the rules and guards are those found, unless the failure was the last verification (then exactly the
candidate's are there) or a command of a cleanup failed. After a failed manifest write the rules are exactly those of the document that was in force; with
a manifest these are the rules found, without one they are the guards of the closed document, which were not there before. The manifest is
the old one or, when it was replaced and not synced, the candidate.

`IInv` says for each
phase which documents the operation works with (`ManifestOK`), which failure it has met (`FailureOK`) and which rules are
there: exactly the old ones where a change began, a part of the asked ones during addition (`Partly`), all of them from the final check
on (`RulesOK`); what it began with, which is what a reversal goes back to (`BegunOK`); and what it has come to (`EndOK`). It is stated of five values instead of the variables, so that a
step, and the reversal inside one, is a statement about values before and after.

`ManifestIsUsable` needs one fact more of the manifest and of the documents an operation holds: no two sources overlap
(`ApartInv`), which only `source-add` could break and checks. That the list the backend writes is then in strict order is
proved without induction: the list has at each place the source that as many sources precede (`Rank`), and ranks of sources that do not overlap
are different and fill the places (by counting). `ValidatorsAgree` compares the two validators themselves, reachable or not, item by
item: the strict order of one is the "not before and not overlapping" of the other.

### TemplatePublicationProofs

| Theorem | Says |
|---|---|
| `Invariance`, `TypeCorrectness` | `[]IInv`, `[]TypeOK` |
| `RecordsTellTheTruth` | `[]RecordIsTrue` |
| `NothingIsPublicUnrecorded` | `PublicIsJournaled`, an action property |
| `OnlyLeftoversAreDeleted` | `DeletesOnlyLeftovers`, an action property |

One script at a time holds the locks. Clients that have lost theirs go on beside it, but all they can do is request one more build or take *stable*
off: they write no record, and make no template public nor delete one. So whatever they do, the template that the holder's client finds or makes
is in no record. `IInv` states that (`BuildsOK`; `TemplatesOK`: the alias leads to at most one template, whose tags name builds of it;
`RecordsOK`: no two versions record one template), the annotation of the holder (`Phase`), that any other run is idle or a stray client (`Stray`), and
that a migration writes a record whose template and build the journal has already (`MigrationOK`), which makes a lost update harmless to the
three properties.

`DeletesOnlyLeftovers` excepts builds added by a client without locks: such a client can request its build after the debris was looked
up and before it is deleted (without the exception TLC finds that).

### DryRunProofs

| Theorem | Says |
|---|---|
| `InstallInvariance`, `InstallTypes` | `[]InstallInv`, `[]InstallTypeOK` |
| `ExitCodesAgree` | `[]ExitsAgree` |
| `DirectoriesTogether` | `[]DirectoriesAreJudgedTogether` |
| `RulesOfPlatformsAgree` | `[]GatesAgree` |
| `IdentityInvariance` | `[]IdentityInv` |
| `PlansAreSafe` | `[]PlanIsSafe` |
| `PlansSettle` | `[]CarriedOutIsStable` |

A report is a function of the facts; `InstallInv` says which facts are there at each stage, and the rest compares
functions: the statuses of preflight with the rules of the planner (`TwoRules`), the least exit code with the mapping of issues.

`RulesOfPlatformsAgree` is about three rules. Those of releases, in preflight and in the planner, block the same hosts. The identity phase reads the
release, the mode and the architecture only: whatever the other facts are, a plan that it does not refuse for the platform (exit code
3) is for a host of which preflight refuses nothing but facts the identity phase does not read (KVM, systemd, cgroups, the CPU) or the
name `amd64`. And install collects nothing on a host that preflight refuses.

For identity plans, `IdentityInv` says that no id is of two accounts, that the facts are what the host and the failed lookups give until the host
changes (`Observed`), and that a plan with actions was made from facts without an issue (`PlannedFrom`). Facts without an issue are not facts without
doubt: `PlansAreSafe` goes through the lookups. One of the operator, of kvm, of sudo (but for the silence of the files) or of a database leaves an
issue; so does one of a service that getent showed (`SafeDoubt`). What is left is `Overlooked`. A service that getent did not show in either
database is not adopted, and the plan gives away no id of it that is listed (`SafeAdoption`). What `_allocate` returns is
proved without induction (`FreshMappingIs`): the position of a free id among the free ones is an injection,
`RanksAreTaken` shows that every position up to the count of free ids is taken, and so the first *n* are there if *n* are
free. `_manifest_mapping` accepts a mapping that names each service once (`MappedOnce`, by counting).
`CarriedOutIsStable` is about the end of a sequence of steps; `Calm` says what is true all along it: with nobody else about,
every identity of the project that exists is the one the manifest gives it, and the manifest was written before any of
them.

### What is not proved

- Liveness: `EveryRunEnds`, `RollbackCompletes`, `CreateConverges`, `RevokeConverges`, `RunReturns`, `DebrisNeverBlocks`. The prover
  does not handle fairness and ENABLED. The safety of the same specifications is proved (`OperatorIsAllowed`).
- The three statements of section 5 and those of section 6 are false, and TLC shows how. For those that a single
  failure cannot break a theorem says so: `CrashTable`, `RevokedBeforeDeleted`, `OneKeyForOneName`, `NoOrphanKey`.

## 5. Where code and documentation differ

1. **rolled_back** (`stage05_rolled_back`). The crash table of
   `docs/research/ovh-stage05-marker-contract.md` (482) says that nothing is left. Kill between the removal of a
   directory and the fsync of its parent; a new `rollback()` sees it gone and does not sync that
   parent (`execute()` does, in `_sync_prefix`); it records *rolled_back*; power loss. The
   directory returns beside *rolled_back*, and `execute()` and `rollback()` both refuse. For one failure at a time the table
   holds (theorem `CrashTable`).
2. **apply refuses its own** (`firewall_stranded`). `configure-firewall.sh` (609-612) says that what apply refuses is not
   this project's. A source-add killed after its first `ufw allow` leaves a rule that carries the project's tag and whose source
   is in no manifest, because the manifest is written last. `cleanup_candidate_rules` deletes the rules of the
   manifest only; apply, remove and every later change refuse. `ApplyRepairs` is the same property with this case
   excepted, and holds.
3. **A published template is deleted** (`template_deleted`).
   `docs/research/stable-template-publication-contract.md` (70) says that no path does. A publish killed between the PATCH that
   makes the template public and the record of it (356-363) leaves *qualified_private*; rollback then deletes the
   public template. `DeletesOnlyLeftovers` says what is left of the promise: it is always a template some record names as
   its own, never one recorded as published.

## 6. By variation

These statements of documents and comments fail too, in the way told here. They have no run of their
own; where one kind of failure alone cannot break them, section 4 has the theorem. The property is in the module, and the configuration named shows it when its invariants are replaced by the
property and its `FaultModels` by the set given.

| Property | Configuration, faults | What happens |
|---|---|---|
| `PlannedMeansNothingThere` | `MCStage05_rolled_back.cfg`, `{{"kill", "power"}}` | Kill between the rename of `transition(applying)` and its fsync, a new `execute()` that creates the first resource, power loss: *planned* beside a resource. |
| `FailedMeansStable` | `MCStage05_rolled_back.cfg`, `{{"error", "power"}}` | An fsync of `create_directory` raises after fchmod; the handler sees mode 0755 and records *failed*; power loss. The mode is 0700 again, which `rollback()` repairs in state *applying* only. In the same way the temporary marker can come back. |
| `RerunCanRead` | `ApiKeysOperator.cfg`, `{{"kill"}}` | Kill between `os.link` and the unlink of the temporary name: the file keeps two links, `_secure_read` accepts one, nothing removes the other (`docs/bare-metal-operator-guide.md:308-310`). |
| `WithdrawsOnlyUnpublished` | `ApiKeysOperator.cfg`, `{{"error"}}` | `key_published` is set after `_publish_exclusive` returns; when its unlink or fsync raises, the handler revokes the key of a file that is there, and every later `create` raises `api_key_recovery_remote_missing`. |
| `OneRemoteKey` | `ApiKeysOperator.cfg`, `{{"late"}}` | A POST exceeds its time limit; the repeated `create` lists no such name and sends its own; the first is carried out after it. Two live keys have the name. |
| `EveryLiveKeyIsRecorded` | `ApiKeysOperator.cfg`, `{{"kill", "power"}}` | Kill before the fsync of the intent, a repeated `create`, power loss: a live key without any record. |
| `DurableBeforeDeleted` | `ApiKeysOperator.cfg`, `{{"kill", "power"}}` | Kill before the fsync of the revoked metadata; the repeated `revoke` finds *revoked*, syncs nothing and deletes the key file. |
| `EveryFailureRestores` | `MCFirewall.cfg` as it is | `docs/firewall-source-allowlist-guide.md:84-85`, taken at its word. A failed verification after the last rule leaves the candidate's rules; a cleanup whose commands fail unnoticed leaves anything; a manifest that was replaced and not synced stays; and on a host without a manifest a failed `install-file` ends with the guards of the *closed* document, which were not there before (the reversal at `configure-firewall.sh:489` and 516 adds them; `apply`, 594, takes nothing back). `FailureRestores` has each of these. |
| `UncertaintySuppresses` | `MCDryRun.cfg` as it is | `identity.py:517`: "Any uncertainty suppresses the complete action set." getent fails silently for a service name (non-zero, no output, whatever the cause) and the name counts as absent, without regard to what the files answer (242-243, 270-271); when both lookups that show an existing identity fail so, a plan with actions is made beside it. The lookup of lxd may fail in any way, and the plan then leaves the operator in lxd. `DoubtSuppresses` has what does hold. |
| `IdentityPassesGate` | `MCDryRun.cfg` as it is | The identity phase plans on hosts preflight refuses: it reads neither KVM, systemd, cgroups nor the CPU, and accepts `amd64` (`identity.py:527`, `preflight.py:427-434`). It also collects its facts before it judges the platform. |

Other limits the models carry as named exceptions or as steps:

- A temporary file torn by a kill or crash blocks the journal (or the marker) until a person looks at it; this is
  documented. The models carry it as `blocked` and `Torn`, and the liveness property excepts it.
- A rollback of a template that died between DELETE and its record lets a later publish make public whatever has taken the
  alias since (the exception in `PublicIsJournaled`). A client that dies after its build is ready, before it is
  recorded, leaves a template that publish refuses and rollback does not know: left to a person, by design.
- `migrate-definition` takes no lock. Run while a script works on the same version, it writes back *qualified_private* over *published* or
  *rolled_back*: the public template is then a recorded candidate again, which rollback deletes (as in section 5, 3), or a withdrawn one is recorded as
  a candidate.
- A client whose docker CLI was killed goes on without the locks. It can move *stable* of a public template to a build no record knows, and
  add a build to debris that another publish has looked up and is about to delete (the exception in `DeletesOnlyLeftovers`).
- A command that closes both pipes before it exits is killed at that moment and reported as ended by a signal: the safe side.
  A child that left the process group outlives the command, as `runner.py:1-6` says.
- getent lists no account of a directory service that forbids enumeration, so an id in use there counts as free
  (`IdsAreFree` is stated for those listed). A group made without its user blocks the identity phase until a person
  removes it.

## 7. Plan

Done: the journal with its proofs; Stage 05 with the allocation of its roots; Stage 10; API keys; the runner; the firewall;
template publication; identity and install planning; the theorems of section 4. What is left, by how much depends on it:

1. **Lifecycle**: start and stop order with a failing unit, under the lock of `ApiKeys`.
2. **BackupRestore**: the restore sequence, interrupted.
3. **Certificates**: renewal and the reload of the proxy.

## 8. Not modelled

Configuration parsing, the collectors and the rendering of reports keep no state; the collectors are represented by the facts they
may return, and the text they parse and print is data the properties do not tell apart. The lifecycle scripts, the bring-up
scripts, the ingress installer, certificates, backup and restore and the Ansible roles are sequences of calls of external
tools whose state this repository does not hold. The admission patch changes Go code that is not in the
repository: which calls take and give back a slot could only be guessed. The acceptance suites are tests. In Stage 05,
the content of evidence reports and the checks of ancestry, mounts and xattrs are left out: no
step of the modelled code changes what they look at; so is the check of the type of a directory between mkdir and fchmod
(443-451), which only this code makes. In Stage 10 a package is no more than the version of the database it was read from, so where the
code compares what two commands said of a package (543-547, 753-754, 763-767) the model compares the versions: a change of a
database that leaves every compared field alone is a refusal in the model and passes in the code, which then reports what is still true.

-------------------------------- MODULE Runner --------------------------------
(***************************************************************************)
(* runner.py: CommandRunner.run().  One command runs in a process group of *)
(* its own, its two output pipes are read without blocking, and whatever   *)
(* the command does (fork, close its pipes early, ignore SIGTERM, hang in  *)
(* the kernel) the runner ends its group and returns within its bounds.    *)
(*                                                                         *)
(* Time is the bounds that have passed.  A signal reaches every member of  *)
(* the group (no member runs as somebody else).                            *)
(***************************************************************************)
EXTENDS Naturals, FiniteSets

CONSTANTS Streams,   \* stdout and stderr
          Limit,     \* how much of a stream is kept
          MaxOutput  \* bound: how much a command writes to a stream

ASSUME RunnerAssumption == Limit \in Nat /\ MaxOutput \in Nat

VARIABLES
  leader,   \* the command: running, zombie or reaped
  code,     \* how it ended: ok, bad (an exit code), signal, or none yet
  kin,      \* a process it forked, in its group or escaped from it by setsid
  doomed,   \* who has been sent a signal it does not survive
  manners,  \* how the command takes SIGTERM, and whether it hangs in the kernel
  holds,    \* who has which pipe open for writing
  written,  \* stream -> units written
  pending,  \* stream -> units written and not read
  late,     \* which bound has passed: none, deadline, grace, reap
  run       \* the runner's local state

command == <<leader, code, kin, doomed, manners, holds, written, pending>>
vars == <<command, late, run>>

Members == {"leader", "kin"}
PCs == {"register", "loop", "select", "read", "final", "reap", "wait", "done"}

EmptyGroup == leader = "reaped" /\ kin # "alive"

Begin == [pc |-> "register", open |-> Streams, broken |-> {}, ready |-> {},
          captured |-> [s \in Streams |-> 0], discarded |-> [s \in Streams |-> 0],
          termed |-> FALSE, killed |-> FALSE, finalized |-> FALSE, unclean |-> FALSE,
          stray |-> FALSE]

------------------------------------------------------------------------------
(* The command, and what it leaves behind. *)

CommandStep == UNCHANGED <<late, run>>
Running(m) == IF m = "leader" THEN leader = "running" ELSE kin \in {"alive", "escaped"}
Able(m) == Running(m) /\ ~(m \in doomed)

Write(m, s) ==
  /\ CommandStep /\ Able(m)
  /\ s \in holds[m] /\ written[s] < MaxOutput
  /\ written' = [written EXCEPT ![s] = @ + 1]
  /\ pending' = [pending EXCEPT ![s] = @ + 1]
  /\ UNCHANGED <<leader, code, kin, doomed, manners, holds>>

CloseEnd(m, s) ==
  /\ CommandStep /\ Able(m)
  /\ s \in holds[m]
  /\ holds' = [holds EXCEPT ![m] = @ \ {s}]
  /\ UNCHANGED <<leader, code, kin, doomed, manners, written, pending>>

Fork ==
  /\ CommandStep /\ Able("leader") /\ kin = "none"
  /\ kin' \in {"alive", "escaped"}
  /\ holds' = [holds EXCEPT !["kin"] = holds["leader"]]
  /\ UNCHANGED <<leader, code, doomed, manners, written, pending>>

End(m, how) ==
  /\ CommandStep
  /\ holds' = [holds EXCEPT ![m] = {}]
  /\ IF m = "leader" THEN leader' = "zombie" /\ code' = how /\ UNCHANGED kin
                     ELSE kin' = "gone" /\ UNCHANGED <<leader, code>>
  /\ UNCHANGED <<doomed, manners, written, pending>>

Exit(m) == Able(m) /\ \E how \in {"ok", "bad"} : End(m, how)
Die(m) == Running(m) /\ m \in doomed /\ End(m, "signal")

------------------------------------------------------------------------------
(* Time passes.  Each bound starts to run when the one before it was acted on. *)

Passes ==
  /\ late' = CASE late = "none" -> "deadline"
               [] late = "deadline" /\ run.termed -> "grace"
               [] late = "grace" /\ run.killed -> "reap"
               [] OTHER -> late
  /\ late' # late
  /\ run.pc \notin {"final", "reap", "wait", "done"}
  /\ UNCHANGED <<command, run>>

------------------------------------------------------------------------------
(* The runner. *)

(* _signal_process_group: whoever is in the group; an empty group is no error.
   stray: the number of the group may by now be somebody else's. *)
Group == {m \in Members : m = "leader" \/ kin = "alive"}
Signal(hit, r) ==
  /\ doomed' = IF hit THEN doomed \cup Group ELSE doomed
  /\ run' = [r EXCEPT !.stray = @ \/ EmptyGroup]

Unharmed(r) == run' = r /\ UNCHANGED doomed
Others == UNCHANGED <<kin, manners, holds, written, late>>

(* SIGKILL to the group unless that was done before. *)
Finalize(r) ==
  IF run.finalized THEN Unharmed(r)
  ELSE Signal(TRUE, [r EXCEPT !.finalized = TRUE])

(* set_blocking or the selector may refuse a stream. *)
Register ==
  /\ run.pc = "register"
  /\ \E refused \in SUBSET Streams :
       LET r == [run EXCEPT !.pc = "loop", !.open = Streams \ refused, !.broken = refused]
       IN IF r.open = {} THEN Finalize(r) ELSE Unharmed(r)
  /\ UNCHANGED <<leader, code, pending>> /\ Others

(* The loop's condition: poll() is asked, and reaps, only when no pipe is
   open. *)
LoopEndsWithLeader ==  \* mutant: the exit of the command ends the loop
  /\ run.pc = "loop" /\ leader # "running"
  /\ Finalize([run EXCEPT !.pc = "final"])
  /\ leader' = "reaped"
  /\ UNCHANGED <<code, pending>> /\ Others

LoopEnds ==
  /\ run.pc = "loop" /\ run.open = {} /\ leader # "running"
  /\ Unharmed([run EXCEPT !.pc = "final"])
  /\ leader' = "reaped"
  /\ UNCHANGED <<code, pending>> /\ Others

Looping == run.pc = "loop" /\ (run.open # {} \/ leader = "running")
Quiet == UNCHANGED <<leader, code, pending>> /\ Others

AtDeadline == ~run.termed /\ late # "none"
AfterGrace == run.termed /\ ~run.killed /\ late \in {"grace", "reap"}
AfterReap == run.killed /\ late = "reap"

Terminate ==
  /\ Looping /\ AtDeadline
  /\ Signal(~manners.ignores, [run EXCEPT !.termed = TRUE, !.pc = "select"])
  /\ Quiet

KillGroup ==
  /\ Looping /\ AfterGrace
  /\ Signal(TRUE, [run EXCEPT !.killed = TRUE, !.finalized = TRUE, !.pc = "select"])
  /\ Quiet

GiveUpNever == FALSE /\ UNCHANGED vars  \* mutant: the pipes are waited for
GiveUp ==
  /\ Looping /\ AfterReap
  /\ Unharmed([run EXCEPT !.open = {}, !.pc = "final"])
  /\ Quiet

Wait ==
  /\ Looping /\ ~AtDeadline /\ ~AfterGrace /\ ~AfterReap
  /\ Unharmed([run EXCEPT !.pc = "select"])
  /\ Quiet

(* What select() reports: data, or that no writer is left. *)
AtEOF(s) == pending[s] = 0 /\ \A m \in Members : s \notin holds[m]
Readable == {s \in run.open : pending[s] > 0 \/ AtEOF(s)}

Select ==
  /\ run.pc = "select"
  /\ IF Readable = {} THEN Unharmed([run EXCEPT !.pc = "loop"])
     ELSE \E some \in (SUBSET Readable) \ {{}} :
            Unharmed([run EXCEPT !.ready = some, !.pc = "read"])
  /\ Quiet

(* OSError other than EINTR: every stream is given up. *)
SelectFails ==
  /\ run.pc = "select"
  /\ Finalize([run EXCEPT !.broken = @ \cup run.open, !.open = {}, !.pc = "loop"])
  /\ Quiet

After(s, r) == [r EXCEPT !.ready = @ \ {s}, !.pc = IF run.ready = {s} THEN "loop" ELSE "read"]

(* _StreamAccumulator.add *)
Keep(s, n) ==
  LET room == Limit - run.captured[s]
      kept == IF n <= room THEN n ELSE room
  IN [run EXCEPT !.captured[s] = @ + kept, !.discarded[s] = @ + (n - kept)]

ReadChunk(s) ==
  /\ run.pc = "read" /\ s \in run.ready
  /\ \E n \in 1..pending[s] :
       /\ pending' = [pending EXCEPT ![s] = @ - n]
       /\ Unharmed(After(s, Keep(s, n)))
  /\ UNCHANGED <<leader, code>> /\ Others

Closed(s) == After(s, [run EXCEPT !.open = @ \ {s}])

(* The last pipe is closed: nobody of the group is left to run. *)
LastEOFIgnored(s) ==  \* mutant: the group is taken to have ended with its output
  /\ run.pc = "read" /\ s \in run.ready /\ AtEOF(s)
  /\ Unharmed([Closed(s) EXCEPT !.finalized = run.open = {s}])
  /\ Quiet

ReadEOF(s) ==
  /\ run.pc = "read" /\ s \in run.ready /\ AtEOF(s)
  /\ IF run.open = {s} THEN Finalize(Closed(s)) ELSE Unharmed(Closed(s))
  /\ Quiet

(* _close_stream_after_error; the group is not finalized here. *)
ReadFails(s) ==
  /\ run.pc = "read" /\ s \in run.ready
  /\ Unharmed([Closed(s) EXCEPT !.broken = @ \cup {s}])
  /\ Quiet

FinalKillAgain ==  \* mutant: the group is killed once more when it is done with
  /\ run.pc = "final"
  /\ Signal(TRUE, [run EXCEPT !.pc = "reap", !.finalized = TRUE])
  /\ Quiet

FinalKill ==
  /\ run.pc = "final"
  /\ Finalize([run EXCEPT !.pc = "reap"])
  /\ Quiet

(* _reap_process *)
Reap ==
  /\ run.pc = "reap"
  /\ IF leader = "running"
     THEN Signal(TRUE, [run EXCEPT !.pc = "wait"]) /\ UNCHANGED leader
     ELSE Unharmed([run EXCEPT !.pc = "done"]) /\ leader' = "reaped"
  /\ UNCHANGED <<code, pending>> /\ Others

Waited ==
  /\ run.pc = "wait" /\ leader # "running"
  /\ Unharmed([run EXCEPT !.pc = "done"]) /\ leader' = "reaped"
  /\ UNCHANGED <<code, pending>> /\ Others

WaitForgiven ==  \* mutant: a command that does not die is not reported
  /\ run.pc = "wait" /\ leader = "running"
  /\ Unharmed([run EXCEPT !.pc = "done"])
  /\ Quiet

WaitExpires ==
  /\ run.pc = "wait" /\ leader = "running"
  /\ Unharmed([run EXCEPT !.pc = "done", !.unclean = TRUE])
  /\ Quiet

------------------------------------------------------------------------------
(* _classify_outcome *)
Outcome ==
  CASE run.termed -> "timeout"
    [] ~run.termed /\ run.broken # {} -> "io_error"
    [] ~run.termed /\ run.broken = {} /\ run.unclean -> "cleanup_error"
    [] OTHER -> [none |-> "spawn_error", ok |-> "success",
                 bad |-> "nonzero", signal |-> "signaled"][code]

Init ==
  /\ leader = "running" /\ code = "none" /\ kin = "none" /\ doomed = {}
  /\ manners \in [ignores : BOOLEAN, hangs : BOOLEAN]
  /\ holds = [m \in Members |-> IF m = "leader" THEN Streams ELSE {}]
  /\ written = [s \in Streams |-> 0]
  /\ pending = [s \in Streams |-> 0]
  /\ late = "none"
  /\ run = Begin

CommandNext ==
  \/ \E m \in Members : Exit(m) \/ Die(m) \/ \E s \in Streams : Write(m, s) \/ CloseEnd(m, s)
  \/ Fork

RunnerNext ==
  \/ Register \/ LoopEnds \/ Terminate \/ KillGroup \/ GiveUp \/ Wait
  \/ Select \/ SelectFails \/ FinalKill \/ Reap \/ Waited \/ WaitExpires
  \/ \E s \in Streams : ReadChunk(s) \/ ReadEOF(s) \/ ReadFails(s)

Next == CommandNext \/ RunnerNext \/ Passes

(* The clock runs and so does the runner.  Of the command, only that a process
   killed outside the kernel dies; it owes nobody an exit. *)
Spec ==
  /\ Init /\ [][Next]_vars
  /\ WF_vars(RunnerNext) /\ WF_vars(Passes)
  /\ WF_vars(~manners.hangs /\ Die("leader"))

------------------------------------------------------------------------------
(* Properties. *)

Done == run.pc = "done"

(* What run() keeps of the command it runs. *)
Runs == [pc : PCs, open : SUBSET Streams, broken : SUBSET Streams, ready : SUBSET Streams,
         captured : [Streams -> 0..Limit], discarded : [Streams -> 0..MaxOutput],
         termed : BOOLEAN, killed : BOOLEAN, finalized : BOOLEAN, unclean : BOOLEAN,
         stray : BOOLEAN]

(* Every variable keeps its shape; what select() reported is still open. *)
TypeOK ==
  /\ leader \in {"running", "zombie", "reaped"}
  /\ code \in {"none", "ok", "bad", "signal"}
  /\ kin \in {"none", "alive", "escaped", "gone"}
  /\ doomed \subseteq Members
  /\ manners \in [ignores : BOOLEAN, hangs : BOOLEAN]
  /\ holds \in [Members -> SUBSET Streams]
  /\ written \in [Streams -> 0..MaxOutput]
  /\ pending \in [Streams -> 0..MaxOutput]
  /\ late \in {"none", "deadline", "grace", "reap"}
  /\ run \in Runs /\ run.ready \subseteq run.open

(* success is never said of a command that was cut short: everything it and
   its children wrote to either pipe was read, kept or counted as discarded, and
   nobody is left who could write more. *)
SuccessIsComplete ==
  Done /\ Outcome = "success" =>
    \A s \in Streams :
      /\ run.captured[s] + run.discarded[s] = written[s]
      /\ \A m \in Members : s \notin holds[m]

(* "The dedicated process group is never allowed to outlive this invocation":
   when run() returns, every process of the group has been sent SIGKILL or has
   ended. *)
GroupIsGone == Done => (kin = "alive" => "kin" \in doomed)

(* "always reaps children": a command that could not be reaped is reported. *)
LeaderIsReaped == Done => leader = "reaped" \/ run.unclean

(* Nothing of a command outlives run() without being reported. *)
NothingOutlives == GroupIsGone /\ LeaderIsReaped

(* No signal is sent to a process group after its leader was reaped and its last
   member ended, when its number may belong to strangers.  Only after a stream
   broke does the code take that chance. *)
NoStraySignal == run.stray => run.broken # {}

(* run() returns, whatever the command does: pipes held open by a child that
   left the group, SIGTERM ignored, a process that hangs in the kernel. *)
RunReturns == <>Done
==============================================================================

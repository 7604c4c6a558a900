----------------------------- MODULE RunnerProofs -----------------------------
(***************************************************************************)
(* What CommandRunner.run() promises of any command, however many streams  *)
(* it has, however much it writes and however much of it is kept: nothing  *)
(* of it outlives run() unreported, success means that all was read, and a *)
(* process group is signalled only while it is the command's.              *)
(***************************************************************************)
EXTENDS Runner, TLAPS

------------------------------------------------------------------------------
(* The inductive invariant. *)

(* Every unit that was written is kept, counted as discarded, or in the pipe. *)
Conserved ==
  \A s \in Streams : run.captured[s] + run.discarded[s] + pending[s] = written[s]

(* A stream that is neither watched nor broken has reached its end, unless the
   command was cut short. *)
ClosedIsAtEnd ==
  ~run.termed => \A s \in Streams \ (run.open \cup run.broken) : AtEOF(s)

(* The loop is left, and the group given up, in the order of the code. *)
InOrder ==
  /\ run.pc \in {"final", "reap", "wait", "done"} => run.open = {}
  /\ run.ready # {} <=> run.pc = "read"
  /\ run.pc = "register" => run.broken = {}
  /\ run.killed => run.termed /\ run.finalized
  /\ run.pc \in {"reap", "wait", "done"} => run.finalized
  /\ run.pc # "register" /\ run.open = {} => run.finalized \/ run.broken # {}
  /\ leader = "reaped" => run.pc \in {"final", "reap", "done"}
  /\ Done => leader = "reaped" \/ run.unclean

(* Who has been sent SIGKILL forks no more, and nobody of the group was missed. *)
GroupIsDoomed ==
  run.finalized => "leader" \in doomed /\ (kin = "alive" => "kin" \in doomed)

IInv == TypeOK /\ Conserved /\ ClosedIsAtEnd /\ InOrder /\ GroupIsDoomed /\ NoStraySignal

------------------------------------------------------------------------------
(* Lemmas about the operators the runner is built from. *)

(* A chunk that is read is kept or discarded, and no more is kept than allowed. *)
LEMMA KeepAccounts ==
  ASSUME TypeOK, NEW s \in run.ready, NEW n \in 1..pending[s], Conserved
  PROVE  LET r == Keep(s, n)
         IN /\ r = [run EXCEPT !.captured = r.captured, !.discarded = r.discarded]
            /\ r.captured \in [Streams -> 0..Limit] /\ r.discarded \in [Streams -> 0..MaxOutput]
            /\ r.captured[s] + r.discarded[s] = run.captured[s] + run.discarded[s] + n
            /\ \A t \in Streams \ {s} : /\ r.captured[t] = run.captured[t]
                                        /\ r.discarded[t] = run.discarded[t]
<1> DEFINE room == Limit - run.captured[s]
           kept == IF n <= room THEN n ELSE room
           c == [run.captured EXCEPT ![s] = @ + kept]
           d == [run.discarded EXCEPT ![s] = @ + (n - kept)]
<1>1. /\ s \in Streams /\ run \in Runs
      /\ run.captured \in [Streams -> 0..Limit] /\ run.discarded \in [Streams -> 0..MaxOutput]
      /\ pending[s] \in 0..MaxOutput /\ written[s] \in 0..MaxOutput
  BY DEF TypeOK, Runs
<1>2. /\ run.captured[s] \in 0..Limit /\ run.discarded[s] \in 0..MaxOutput
      /\ run.captured[s] + run.discarded[s] + pending[s] = written[s]
  BY <1>1 DEF Conserved
<1>3. kept \in 0..n /\ run.captured[s] + kept \in 0..Limit
  BY <1>1, <1>2, RunnerAssumption
<1>4. run.discarded[s] + (n - kept) \in 0..MaxOutput
  BY <1>1, <1>2, <1>3, RunnerAssumption
<1>5. /\ c \in [Streams -> 0..Limit] /\ d \in [Streams -> 0..MaxOutput]
      /\ c[s] + d[s] = run.captured[s] + run.discarded[s] + n
      /\ \A t \in Streams \ {s} : c[t] = run.captured[t] /\ d[t] = run.discarded[t]
  BY <1>1, <1>2, <1>3, <1>4
<1>6. Keep(s, n) = [run EXCEPT !.captured = c, !.discarded = d]
  BY <1>1 DEF Keep, Runs
<1> HIDE DEF c, d
<1>7. Keep(s, n).captured = c /\ Keep(s, n).discarded = d
  BY <1>1, <1>6 DEF Runs
<1>8. QED BY <1>5, <1>6, <1>7

(* What is left as it was of the runner's state by a step that looks at signals,
   pipes or the loop only. *)
SameCounts(r) ==
  r.captured = run.captured /\ r.discarded = run.discarded

(* A signal is recorded, and reaches whoever is in the group. *)
LEMMA SignalSets ==
  ASSUME NEW r \in Runs, NEW hit \in BOOLEAN, Signal(hit, r)
  PROVE  /\ run' \in Runs
         /\ run'.pc = r.pc /\ run'.open = r.open /\ run'.broken = r.broken
         /\ run'.ready = r.ready /\ run'.captured = r.captured
         /\ run'.discarded = r.discarded /\ run'.termed = r.termed
         /\ run'.killed = r.killed /\ run'.finalized = r.finalized
         /\ run'.unclean = r.unclean /\ run'.stray = (r.stray \/ EmptyGroup)
         /\ doomed' = IF hit THEN doomed \cup Group ELSE doomed
  BY DEF Signal, Runs, EmptyGroup

(* However it is reached, _finalize leaves the group doomed, and it strays only
   when the group was empty and never finalized before. *)
LEMMA FinalizeSets ==
  ASSUME NEW r \in Runs, r.finalized = run.finalized, GroupIsDoomed, doomed \subseteq Members,
         Finalize(r), kin' = kin
  PROVE  /\ run' \in Runs
         /\ run'.pc = r.pc /\ run'.open = r.open /\ run'.broken = r.broken
         /\ run'.ready = r.ready /\ run'.captured = r.captured
         /\ run'.discarded = r.discarded /\ run'.termed = r.termed
         /\ run'.killed = r.killed /\ run'.finalized
         /\ run'.unclean = r.unclean
         /\ run'.stray => r.stray \/ (EmptyGroup /\ ~run.finalized)
         /\ doomed' \subseteq Members /\ GroupIsDoomed'
<1>1. CASE run.finalized
  BY <1>1 DEF Finalize, Unharmed, GroupIsDoomed
<1>2. CASE ~run.finalized
  <2> DEFINE q == [r EXCEPT !.finalized = TRUE]
  <2>1. /\ q \in Runs /\ q.finalized /\ q.pc = r.pc /\ q.open = r.open /\ q.broken = r.broken
        /\ q.ready = r.ready /\ q.captured = r.captured /\ q.discarded = r.discarded
        /\ q.termed = r.termed /\ q.killed = r.killed /\ q.unclean = r.unclean
        /\ q.stray = r.stray
    BY DEF Runs
  <2>2. Signal(TRUE, q)
    BY <1>2 DEF Finalize
  <2> HIDE DEF q
  <2>3. /\ run' \in Runs /\ run'.pc = q.pc /\ run'.open = q.open /\ run'.broken = q.broken
        /\ run'.ready = q.ready /\ run'.captured = q.captured /\ run'.discarded = q.discarded
        /\ run'.termed = q.termed /\ run'.killed = q.killed /\ run'.finalized = q.finalized
        /\ run'.unclean = q.unclean /\ run'.stray = (q.stray \/ EmptyGroup)
        /\ doomed' = doomed \cup Group
    BY <2>1, <2>2, SignalSets
  <2>4. GroupIsDoomed' /\ doomed' \subseteq Members
    BY <2>3 DEF GroupIsDoomed, Group, Members
  <2>5. QED BY <1>2, <2>1, <2>3, <2>4
<1>3. QED BY <1>1, <1>2

------------------------------------------------------------------------------
(* The command's own steps. *)

(* A write stays accounted for, and nobody writes to a pipe that was at its end. *)
LEMMA WritePreserves ==
  ASSUME IInv, NEW m \in Members, NEW s \in Streams, Write(m, s)
  PROVE  IInv'
<1>1. UNCHANGED <<leader, code, kin, doomed, manners, holds, late, run>>
  BY DEF Write, CommandStep
<1>2. /\ run.captured[s] \in Nat /\ run.discarded[s] \in Nat
      /\ pending[s] \in 0..MaxOutput /\ written[s] \in 0..MaxOutput
      /\ run.captured[s] + run.discarded[s] + pending[s] = written[s]
  BY RunnerAssumption DEF IInv, TypeOK, Runs, Conserved
<1>3. written[s] + 1 \in 0..MaxOutput /\ pending[s] + 1 \in 0..MaxOutput
  BY <1>2, RunnerAssumption DEF Write
<1>4. TypeOK'
  BY <1>1, <1>3 DEF IInv, TypeOK, Write
<1>5. Conserved'
  BY <1>1, <1>2 DEF IInv, TypeOK, Conserved, Write
<1>6. ClosedIsAtEnd'
  BY <1>1 DEF IInv, TypeOK, ClosedIsAtEnd, AtEOF, Write
<1>7. InOrder' /\ GroupIsDoomed' /\ NoStraySignal'
  BY <1>1 DEF IInv, InOrder, Done, GroupIsDoomed, NoStraySignal
<1>8. QED BY <1>4, <1>5, <1>6, <1>7 DEF IInv

(* A process that closes a pipe, or ends, only takes writers away. *)
LEMMA FewerWriters ==
  ASSUME IInv, NEW m \in Members, NEW left \in SUBSET holds[m],
         holds' = [holds EXCEPT ![m] = left],
         UNCHANGED <<doomed, manners, written, pending, late, run>>,
         leader' \in {leader, "zombie"}, leader = "reaped" => leader' = leader,
         kin' \in {kin, "gone"}, code' \in {"none", "ok", "bad", "signal"}
  PROVE  IInv'
<1>1. TypeOK'
  BY DEF IInv, TypeOK
<1>2. Conserved'
  BY DEF IInv, Conserved
<1>3. ClosedIsAtEnd'
  BY DEF IInv, TypeOK, ClosedIsAtEnd, AtEOF
<1>4. InOrder' /\ GroupIsDoomed' /\ NoStraySignal'
  BY DEF IInv, InOrder, Done, GroupIsDoomed, NoStraySignal
<1>5. QED BY <1>1, <1>2, <1>3, <1>4 DEF IInv

(* The command may do anything that is left to it. *)
LEMMA CommandPreserves == ASSUME IInv, CommandNext PROVE IInv'
<1>1. ASSUME NEW m \in Members, NEW s \in Streams, CloseEnd(m, s)
      PROVE  IInv'
  <2>1. holds[m] \ {s} \in SUBSET holds[m] /\ holds' = [holds EXCEPT ![m] = holds[m] \ {s}]
    BY <1>1 DEF CloseEnd
  <2>2. QED BY <1>1, <2>1, FewerWriters DEF CloseEnd, CommandStep, IInv, TypeOK
<1>2. ASSUME NEW m \in Members, NEW how \in {"ok", "bad", "signal"}, Running(m), End(m, how)
      PROVE  IInv'
  BY <1>2, FewerWriters DEF End, CommandStep, Running, IInv, TypeOK
<1>3. ASSUME NEW m \in Members, Exit(m) \/ Die(m)
      PROVE  IInv'
  BY <1>2, <1>3 DEF Exit, Die, Able
<1>4. ASSUME Fork
      PROVE  IInv'
  <2>1. UNCHANGED <<leader, code, doomed, manners, written, pending, late, run>>
    BY <1>4 DEF Fork, CommandStep
  <2>2. TypeOK' /\ Conserved' /\ NoStraySignal'
    BY <1>4, <2>1 DEF Fork, IInv, TypeOK, Conserved, NoStraySignal, Members
  <2>3. ClosedIsAtEnd'
    BY <1>4, <2>1 DEF Fork, IInv, TypeOK, ClosedIsAtEnd, AtEOF, Members
  <2>4. InOrder'
    BY <2>1 DEF IInv, InOrder, Done
  <2>5. GroupIsDoomed'  \* the leader forks, so it was not killed
    BY <1>4, <2>1 DEF Fork, Able, IInv, GroupIsDoomed
  <2>6. QED BY <2>2, <2>3, <2>4, <2>5 DEF IInv
<1>5. QED BY <1>1, <1>3, <1>4, WritePreserves DEF CommandNext

------------------------------------------------------------------------------
(* The runner's steps. *)

(* A step that reads nothing: no pipe loses a watcher before its end, and the
   order of the code is kept. *)
LEMMA QuietPreserves ==
  ASSUME IInv, Others, code' = code, pending' = pending,
         leader' \in {leader, "reaped"}, doomed' \subseteq Members,
         run' \in Runs, SameCounts(run'), run'.ready \subseteq run'.open,
         run.termed => run'.termed,
         ~run'.termed => \A s \in run.open \cup run.broken :
                           s \in run'.open \cup run'.broken \/ AtEOF(s),
         InOrder', GroupIsDoomed', NoStraySignal'
  PROVE  IInv'
<1>1. TypeOK'
  BY DEF IInv, TypeOK, Others
<1>2. Conserved'
  BY DEF IInv, Conserved, Others, SameCounts
<1>3. ClosedIsAtEnd'
  BY DEF IInv, TypeOK, ClosedIsAtEnd, AtEOF, Others
<1>4. QED BY <1>1, <1>2, <1>3 DEF IInv

(* A stream that cannot be watched is broken; without any, the group is killed. *)
LEMMA RegisterPreserves == ASSUME IInv, Register PROVE IInv'
<1> PICK refused \in SUBSET Streams :
      LET r == [run EXCEPT !.pc = "loop", !.open = Streams \ refused, !.broken = refused]
      IN IF r.open = {} THEN Finalize(r) ELSE Unharmed(r)
  BY DEF Register
<1> DEFINE r == [run EXCEPT !.pc = "loop", !.open = Streams \ refused, !.broken = refused]
<1>1. run \in Runs /\ run.pc = "register" /\ UNCHANGED <<leader, code, pending>> /\ Others
  BY DEF Register, IInv, TypeOK
<1>2. /\ r \in Runs /\ r.pc = "loop" /\ r.open = Streams \ refused /\ r.broken = refused
      /\ r.ready = run.ready /\ SameCounts(r) /\ r.termed = run.termed /\ r.killed = run.killed
      /\ r.finalized = run.finalized /\ r.unclean = run.unclean /\ r.stray = run.stray
      /\ run.open \subseteq Streams
  BY <1>1 DEF Runs, PCs, SameCounts
<1>3. IF r.open = {} THEN Finalize(r) ELSE Unharmed(r)
  OBVIOUS
<1> HIDE DEF r
<1>4. run.ready = {} /\ run.broken = {} /\ leader # "reaped" /\ ~run.stray
  BY <1>1 DEF IInv, InOrder, NoStraySignal
<1>5. CASE r.open = {}
  <2>1. /\ run' \in Runs /\ run'.pc = r.pc /\ run'.open = r.open /\ run'.broken = r.broken
        /\ run'.ready = r.ready /\ SameCounts(run') /\ run'.termed = r.termed
        /\ run'.killed = r.killed /\ run'.finalized /\ run'.unclean = r.unclean
        /\ ~run'.stray /\ doomed' \subseteq Members /\ GroupIsDoomed'
    BY <1>1, <1>2, <1>3, <1>4, <1>5, FinalizeSets
       DEF IInv, TypeOK, Others, SameCounts, EmptyGroup
  <2>2. InOrder' /\ NoStraySignal'
    BY <1>1, <1>2, <1>4, <1>5, <2>1 DEF IInv, InOrder, Done, NoStraySignal
  <2>3. QED BY <1>1, <1>2, <1>4, <2>1, <2>2, QuietPreserves DEF SameCounts
<1>6. CASE r.open # {}
  <2>1. run' = r /\ doomed' = doomed
    BY <1>3, <1>6 DEF Unharmed
  <2>2. InOrder' /\ NoStraySignal' /\ GroupIsDoomed' /\ doomed' \subseteq Members
    BY <1>1, <1>2, <1>4, <1>6, <2>1
       DEF IInv, TypeOK, InOrder, Done, NoStraySignal, GroupIsDoomed, Others
  <2>3. QED BY <1>1, <1>2, <1>4, <2>1, <2>2, QuietPreserves DEF SameCounts
<1>7. QED BY <1>5, <1>6

(* A step that signals nobody, finalizes nothing and takes no stream from those
   that are watched. *)
LEMMA UnharmedPreserves ==
  ASSUME IInv, Others, code' = code, pending' = pending, leader' \in {leader, "reaped"},
         NEW r \in Runs, Unharmed(r), SameCounts(r), r.ready \subseteq r.open,
         r.termed = run.termed, r.killed = run.killed, r.finalized = run.finalized,
         r.stray = run.stray, run.broken \subseteq r.broken,
         ~run.termed => \A s \in run.open : s \in r.open \cup r.broken \/ AtEOF(s),
         InOrder'
  PROVE  IInv'
<1>1. run' = r /\ doomed' = doomed
  BY DEF Unharmed
<1>2. GroupIsDoomed' /\ NoStraySignal' /\ doomed' \subseteq Members
  BY <1>1 DEF IInv, TypeOK, GroupIsDoomed, NoStraySignal, Others
<1>3. run' \in Runs /\ SameCounts(run') /\ run'.ready \subseteq run'.open
      /\ (run.termed => run'.termed)
      /\ (~run'.termed => \A s \in run.open \cup run.broken :
                             s \in run'.open \cup run'.broken \/ AtEOF(s))
  BY <1>1
<1>4. QED BY <1>1, <1>2, <1>3, QuietPreserves

(* A step that moves on only. *)
LEMMA PcPreserves ==
  ASSUME IInv, Others, code' = code, pending' = pending, leader' \in {leader, "reaped"},
         NEW pc \in PCs, NEW u \in BOOLEAN, NEW ready \in SUBSET run.open,
         Unharmed([run EXCEPT !.pc = pc, !.ready = ready, !.unclean = u]),
         run.pc # "register", pc # "register",
         pc = "read" <=> ready # {},
         pc \in {"final", "reap", "wait", "done"} => run.open = {},
         pc \in {"reap", "wait", "done"} => run.finalized,
         leader' = "reaped" => pc \in {"final", "reap", "done"},
         pc = "done" => leader' = "reaped" \/ u
  PROVE  IInv'
<1> DEFINE r == [run EXCEPT !.pc = pc, !.ready = ready, !.unclean = u]
<1>1. run \in Runs
  BY DEF IInv, TypeOK
<1>2. /\ r \in Runs /\ r.pc = pc /\ r.ready = ready /\ r.unclean = u
      /\ r.open = run.open /\ r.broken = run.broken /\ SameCounts(r)
      /\ r.termed = run.termed /\ r.killed = run.killed /\ r.finalized = run.finalized
      /\ r.stray = run.stray
  BY <1>1 DEF Runs, SameCounts
<1>3. Unharmed(r)
  OBVIOUS
<1> HIDE DEF r
<1>4. InOrder'
  BY <1>2, <1>3 DEF Unharmed, IInv, InOrder, Done
<1>5. QED BY <1>2, <1>3, <1>4, UnharmedPreserves

(* The steps that only look: the end of the loop, a wait, a select() that reports,
   the reaping. *)
LEMMA LookingPreserves ==
  ASSUME IInv, LoopEnds \/ Wait \/ Select \/ Waited \/ WaitExpires
  PROVE  IInv'
<1> DEFINE Moved(pc, ready, u) == [run EXCEPT !.pc = pc, !.ready = ready, !.unclean = u]
<1>1. /\ run \in Runs /\ run.ready \subseteq run.open /\ run.open \subseteq Streams
      /\ run.unclean \in BOOLEAN /\ (run.ready # {} <=> run.pc = "read")
      /\ (run.pc \in {"final", "reap", "wait", "done"} => run.open = {})
      /\ (run.pc \in {"reap", "wait", "done"} => run.finalized)
      /\ (leader = "reaped" => run.pc \in {"final", "reap", "done"})
  BY DEF IInv, TypeOK, Runs, InOrder
<1>2. \A pc \in PCs : run.ready = {} => [run EXCEPT !.pc = pc] = Moved(pc, {}, run.unclean)
  BY <1>1 DEF Runs
<1>3. CASE LoopEnds
  <2>1. Unharmed(Moved("final", {}, run.unclean))
    BY <1>1, <1>2, <1>3 DEF LoopEnds, PCs
  <2> HIDE DEF Moved
  <2>2. QED BY <1>1, <1>3, <2>1, PcPreserves DEF LoopEnds, Others, PCs, Moved
<1>4. CASE Wait
  <2>1. Unharmed(Moved("select", {}, run.unclean))
    BY <1>1, <1>2, <1>4 DEF Wait, Looping, PCs
  <2> HIDE DEF Moved
  <2>2. QED BY <1>1, <1>4, <2>1, PcPreserves DEF Wait, Looping, Quiet, PCs, Moved
<1>5. CASE Select
  <2>1. CASE Readable = {}
    <3>1. Unharmed(Moved("loop", {}, run.unclean))
      BY <1>1, <1>2, <1>5, <2>1 DEF Select, PCs
    <3> HIDE DEF Moved
    <3>2. QED BY <1>1, <1>5, <3>1, PcPreserves DEF Select, Quiet, PCs, Moved
  <2>2. CASE Readable # {}
    <3>1. PICK some \in (SUBSET Readable) \ {{}} :
            Unharmed([run EXCEPT !.ready = some, !.pc = "read"])
      BY <1>5, <2>2 DEF Select
    <3>2. Unharmed(Moved("read", some, run.unclean)) /\ some \in SUBSET run.open /\ some # {}
      BY <1>1, <3>1 DEF Readable, Runs
    <3> HIDE DEF Moved
    <3>3. QED BY <1>1, <1>5, <3>2, PcPreserves DEF Select, Quiet, PCs, Moved
  <2>3. QED BY <2>1, <2>2
<1>6. CASE Waited
  <2>1. Unharmed(Moved("done", {}, run.unclean))
    BY <1>1, <1>2, <1>6 DEF Waited, PCs
  <2> HIDE DEF Moved
  <2>2. QED BY <1>1, <1>6, <2>1, PcPreserves DEF Waited, Others, PCs, Moved
<1>7. CASE WaitExpires
  <2>1. Unharmed(Moved("done", {}, TRUE))
    BY <1>1, <1>7 DEF WaitExpires, Runs
  <2> HIDE DEF Moved
  <2>2. QED BY <1>1, <1>7, <2>1, PcPreserves DEF WaitExpires, Quiet, PCs, Moved
<1>8. QED BY <1>3, <1>4, <1>5, <1>6, <1>7

(* The bounds: SIGTERM at the deadline, SIGKILL after the grace period, and the
   pipes are given up when even that does not close them. *)
LEMMA BoundsPreserve ==
  ASSUME IInv, Terminate \/ KillGroup \/ GiveUp
  PROVE  IInv'
<1>1. /\ run \in Runs /\ Quiet /\ Looping /\ run.ready = {} /\ leader # "reaped"
      /\ manners.ignores \in BOOLEAN
  BY DEF IInv, TypeOK, InOrder, Terminate, KillGroup, GiveUp, Looping
<1>2. CASE Terminate
  <2> DEFINE r == [run EXCEPT !.termed = TRUE, !.pc = "select"]
  <2>1. /\ r \in Runs /\ r.pc = "select" /\ r.open = run.open /\ r.broken = run.broken
        /\ r.ready = {} /\ SameCounts(r) /\ r.termed /\ r.killed = run.killed
        /\ r.finalized = run.finalized /\ r.unclean = run.unclean /\ r.stray = run.stray
    BY <1>1 DEF Runs, PCs, SameCounts
  <2>2. Signal(~manners.ignores, r)
    BY <1>2 DEF Terminate
  <2> HIDE DEF r
  <2>3. /\ run' \in Runs /\ run'.pc = r.pc /\ run'.open = r.open /\ run'.broken = r.broken
        /\ run'.ready = r.ready /\ SameCounts(run') /\ run'.termed = r.termed
        /\ run'.killed = r.killed /\ run'.finalized = r.finalized
        /\ run'.unclean = r.unclean /\ (run'.stray => r.stray)
        /\ doomed \subseteq doomed' /\ doomed' \subseteq Members
    BY <1>1, <2>1, <2>2, SignalSets
       DEF IInv, TypeOK, SameCounts, EmptyGroup, Group, Members
  <2>4. InOrder' /\ NoStraySignal' /\ GroupIsDoomed'
    BY <1>1, <2>1, <2>3
       DEF IInv, InOrder, Done, Quiet, Others, Looping, NoStraySignal, GroupIsDoomed
  <2>5. QED BY <1>1, <2>1, <2>3, <2>4, QuietPreserves DEF Quiet, SameCounts
<1>3. CASE KillGroup
  <2> DEFINE r == [run EXCEPT !.killed = TRUE, !.finalized = TRUE, !.pc = "select"]
  <2>1. /\ r \in Runs /\ r.pc = "select" /\ r.open = run.open /\ r.broken = run.broken
        /\ r.ready = {} /\ SameCounts(r) /\ r.termed = run.termed /\ r.killed
        /\ r.finalized /\ r.unclean = run.unclean /\ r.stray = run.stray
    BY <1>1 DEF Runs, PCs, SameCounts
  <2>2. Signal(TRUE, r) /\ run.termed
    BY <1>3 DEF KillGroup, AfterGrace
  <2> HIDE DEF r
  <2>3. /\ run' \in Runs /\ run'.pc = r.pc /\ run'.open = r.open /\ run'.broken = r.broken
        /\ run'.ready = r.ready /\ SameCounts(run') /\ run'.termed = r.termed
        /\ run'.killed = r.killed /\ run'.finalized = r.finalized
        /\ run'.unclean = r.unclean /\ (run'.stray => r.stray)
        /\ doomed' = doomed \cup Group /\ doomed' \subseteq Members
    BY <1>1, <2>1, <2>2, SignalSets
       DEF IInv, TypeOK, SameCounts, EmptyGroup, Group, Members
  <2>4. InOrder' /\ NoStraySignal' /\ GroupIsDoomed'
    BY <1>1, <2>1, <2>2, <2>3
       DEF IInv, InOrder, Done, Quiet, Others, Looping, NoStraySignal, GroupIsDoomed, Group, Members
  <2>5. QED BY <1>1, <2>1, <2>3, <2>4, QuietPreserves DEF Quiet, SameCounts
<1>4. CASE GiveUp
  <2> DEFINE r == [run EXCEPT !.open = {}, !.pc = "final"]
  <2>1. /\ r \in Runs /\ r.pc = "final" /\ r.open = {} /\ r.broken = run.broken
        /\ r.ready = {} /\ SameCounts(r) /\ r.termed = run.termed /\ r.killed = run.killed
        /\ r.finalized = run.finalized /\ r.unclean = run.unclean /\ r.stray = run.stray
    BY <1>1 DEF Runs, PCs, SameCounts
  <2>2. Unharmed(r) /\ run.termed /\ run.finalized  \* the group was killed before
    BY <1>4 DEF GiveUp, AfterReap, IInv, InOrder
  <2> HIDE DEF r
  <2>3. InOrder'
    BY <1>1, <2>1, <2>2 DEF Unharmed, IInv, InOrder, Done, Quiet, Others, Looping
  <2>4. QED BY <1>1, <2>1, <2>2, <2>3, UnharmedPreserves DEF Quiet
<1>5. QED BY <1>2, <1>3, <1>4

(* A step that finalizes the group, with streams given up or at their end: a
   signal that could stray means that a stream broke before. *)
LEMMA FinalizePreserves ==
  ASSUME IInv, Quiet, NEW r \in Runs, Finalize(r), SameCounts(r), r.ready \subseteq r.open,
         r.termed = run.termed, r.killed = run.killed, r.finalized = run.finalized,
         r.unclean = run.unclean, r.stray = run.stray, run.broken \subseteq r.broken,
         ~run.termed => \A s \in run.open : s \in r.open \cup r.broken \/ AtEOF(s),
         run.pc # "register", r.pc \in {"loop", "read", "reap"},
         r.ready # {} <=> r.pc = "read",
         r.pc = "reap" => r.open = {}, leader = "reaped" => r.pc = "reap"
  PROVE  IInv'
<1>1. /\ run \in Runs /\ doomed \subseteq Members /\ GroupIsDoomed /\ kin' = kin
      /\ Others /\ UNCHANGED <<leader, code, pending>>
  BY DEF IInv, TypeOK, Quiet, Others
<1>2. /\ run' \in Runs /\ run'.pc = r.pc /\ run'.open = r.open /\ run'.broken = r.broken
      /\ run'.ready = r.ready /\ SameCounts(run') /\ run'.termed = r.termed
      /\ run'.killed = r.killed /\ run'.finalized /\ run'.unclean = r.unclean
      /\ (run'.stray => r.stray \/ (EmptyGroup /\ ~run.finalized))
      /\ doomed' \subseteq Members /\ GroupIsDoomed'
  BY <1>1, FinalizeSets DEF SameCounts
<1>3. EmptyGroup /\ ~run.finalized => run.broken # {}
  BY DEF EmptyGroup, IInv, InOrder
<1>4. NoStraySignal'
  BY <1>2, <1>3 DEF IInv, NoStraySignal
<1>5. InOrder'
  BY <1>1, <1>2 DEF IInv, InOrder, Done
<1>6. QED BY <1>1, <1>2, <1>4, <1>5, QuietPreserves

(* select() fails: every stream is broken. *)
LEMMA SelectFailsPreserves == ASSUME IInv, SelectFails PROVE IInv'
<1> DEFINE r == [run EXCEPT !.broken = @ \cup run.open, !.open = {}, !.pc = "loop"]
<1>1. run \in Runs /\ run.pc = "select" /\ run.ready = {} /\ leader # "reaped" /\ Quiet
  BY DEF SelectFails, IInv, TypeOK, InOrder
<1>2. /\ r \in Runs /\ r.pc = "loop" /\ r.open = {} /\ r.broken = run.broken \cup run.open
      /\ r.ready = {} /\ SameCounts(r) /\ r.termed = run.termed /\ r.killed = run.killed
      /\ r.finalized = run.finalized /\ r.unclean = run.unclean /\ r.stray = run.stray
  BY <1>1 DEF Runs, PCs, SameCounts
<1>3. Finalize(r)
  BY DEF SelectFails
<1> HIDE DEF r
<1>4. QED BY <1>1, <1>2, <1>3, FinalizePreserves

(* The kill that leaves nobody behind: a group that was not finalized before is one
   whose streams broke. *)
LEMMA FinalKillPreserves == ASSUME IInv, FinalKill PROVE IInv'
<1> DEFINE r == [run EXCEPT !.pc = "reap"]
<1>1. run \in Runs /\ run.pc = "final" /\ run.ready = {} /\ run.open = {} /\ Quiet
  BY DEF FinalKill, IInv, TypeOK, InOrder
<1>2. /\ r \in Runs /\ r.pc = "reap" /\ r.open = run.open /\ r.broken = run.broken
      /\ r.ready = {} /\ SameCounts(r) /\ r.termed = run.termed /\ r.killed = run.killed
      /\ r.finalized = run.finalized /\ r.unclean = run.unclean /\ r.stray = run.stray
  BY <1>1 DEF Runs, PCs, SameCounts
<1>3. Finalize(r)
  BY DEF FinalKill
<1> HIDE DEF r
<1>4. QED BY <1>1, <1>2, <1>3, FinalizePreserves

(* A leader that still runs is signalled, and is not yet reaped: no stray signal. *)
LEMMA ReapPreserves == ASSUME IInv, Reap PROVE IInv'
<1>1. /\ run \in Runs /\ run.pc = "reap" /\ run.ready = {} /\ run.open = {} /\ run.finalized
      /\ Others /\ UNCHANGED <<code, pending>>
  BY DEF Reap, IInv, TypeOK, InOrder
<1>2. CASE leader = "running"
  <2> DEFINE r == [run EXCEPT !.pc = "wait"]
  <2>1. /\ r \in Runs /\ r.pc = "wait" /\ r.open = {} /\ r.broken = run.broken
        /\ r.ready = {} /\ SameCounts(r) /\ r.termed = run.termed /\ r.killed = run.killed
        /\ r.finalized = run.finalized /\ r.unclean = run.unclean /\ r.stray = run.stray
    BY <1>1 DEF Runs, PCs, SameCounts
  <2>2. Signal(TRUE, r) /\ leader' = leader
    BY <1>2 DEF Reap
  <2> HIDE DEF r
  <2>3. /\ run' \in Runs /\ run'.pc = r.pc /\ run'.open = r.open /\ run'.broken = r.broken
        /\ run'.ready = r.ready /\ SameCounts(run') /\ run'.termed = r.termed
        /\ run'.killed = r.killed /\ run'.finalized = r.finalized
        /\ run'.unclean = r.unclean /\ (run'.stray => r.stray)
        /\ doomed' = doomed \cup Group /\ doomed' \subseteq Members
    BY <1>2, <2>1, <2>2, SignalSets DEF IInv, TypeOK, SameCounts, EmptyGroup, Group, Members
  <2>4. InOrder' /\ NoStraySignal' /\ GroupIsDoomed'
    BY <1>1, <1>2, <2>1, <2>2, <2>3
       DEF IInv, InOrder, Done, Others, NoStraySignal, GroupIsDoomed
  <2>5. QED BY <1>1, <2>1, <2>2, <2>3, <2>4, QuietPreserves
<1>3. CASE leader # "running"
  <2>1. [run EXCEPT !.pc = "done"] =
        [run EXCEPT !.pc = "done", !.ready = {}, !.unclean = run.unclean]
    BY <1>1 DEF Runs
  <2>2. Unharmed([run EXCEPT !.pc = "done", !.ready = {}, !.unclean = run.unclean])
        /\ leader' = "reaped" /\ run.unclean \in BOOLEAN
    BY <1>1, <1>3, <2>1 DEF Reap, Runs
  <2>3. QED BY <1>1, <2>2, PcPreserves DEF PCs
<1>4. QED BY <1>2, <1>3

------------------------------------------------------------------------------
(* Reading. *)

(* Handling one of the streams select() reported. *)
LEMMA AfterSets ==
  ASSUME NEW r \in Runs, NEW s \in Streams, r.ready = run.ready, s \in run.ready
  PROVE  LET q == After(s, r)
         IN /\ q \in Runs /\ q.ready = run.ready \ {s} /\ q.pc \in {"loop", "read"}
            /\ (q.ready # {} <=> q.pc = "read")
            /\ q.open = r.open /\ q.broken = r.broken /\ q.captured = r.captured
            /\ q.discarded = r.discarded /\ q.termed = r.termed /\ q.killed = r.killed
            /\ q.finalized = r.finalized /\ q.unclean = r.unclean /\ q.stray = r.stray
  BY DEF After, Runs, PCs

(* A chunk moves from the pipe to what is kept or counted. *)
LEMMA ReadChunkPreserves ==
  ASSUME IInv, NEW s \in Streams, ReadChunk(s)
  PROVE  IInv'
<1> PICK n \in 1..pending[s] :
      pending' = [pending EXCEPT ![s] = @ - n] /\ Unharmed(After(s, Keep(s, n)))
  BY DEF ReadChunk
<1> DEFINE k == Keep(s, n)
           q == After(s, k)
<1>1. /\ run \in Runs /\ s \in run.ready /\ run.pc = "read" /\ run' = q /\ doomed' = doomed
      /\ UNCHANGED <<leader, code>> /\ Others /\ TypeOK /\ Conserved
      /\ run.ready \subseteq run.open /\ leader # "reaped"
  BY DEF ReadChunk, Unharmed, IInv, TypeOK, InOrder
<1>2. /\ k = [run EXCEPT !.captured = k.captured, !.discarded = k.discarded]
      /\ k.captured \in [Streams -> 0..Limit] /\ k.discarded \in [Streams -> 0..MaxOutput]
      /\ k.captured[s] + k.discarded[s] = run.captured[s] + run.discarded[s] + n
      /\ \A t \in Streams \ {s} : /\ k.captured[t] = run.captured[t]
                                  /\ k.discarded[t] = run.discarded[t]
  BY <1>1, KeepAccounts
<1> HIDE DEF k
<1>3. /\ k \in Runs /\ k.ready = run.ready /\ k.open = run.open /\ k.broken = run.broken
      /\ k.termed = run.termed /\ k.killed = run.killed /\ k.finalized = run.finalized
      /\ k.unclean = run.unclean /\ k.stray = run.stray
  BY <1>1, <1>2 DEF Runs
<1>4. /\ q \in Runs /\ q.ready = run.ready \ {s} /\ q.pc \in {"loop", "read"}
      /\ (q.ready # {} <=> q.pc = "read")
      /\ q.open = k.open /\ q.broken = k.broken /\ q.captured = k.captured
      /\ q.discarded = k.discarded /\ q.termed = k.termed /\ q.killed = k.killed
      /\ q.finalized = k.finalized /\ q.unclean = k.unclean /\ q.stray = k.stray
  BY <1>1, <1>3, AfterSets
<1> HIDE DEF q
<1>5. pending[s] \in 0..MaxOutput /\ pending[s] - n \in 0..MaxOutput
  BY RunnerAssumption DEF IInv, TypeOK
<1>6. TypeOK'
  BY <1>1, <1>3, <1>4, <1>5 DEF TypeOK, Others
<1>7. Conserved'
  <2> SUFFICES ASSUME NEW t \in Streams
               PROVE  q.captured[t] + q.discarded[t] + pending'[t] = written[t]
    BY <1>1 DEF Conserved, Others
  <2>1. /\ run.captured[t] \in Nat /\ run.discarded[t] \in Nat /\ pending[t] \in Nat
        /\ run.captured[t] + run.discarded[t] + pending[t] = written[t]
        /\ k.captured[t] \in Nat /\ k.discarded[t] \in Nat
    BY <1>1, <1>2, RunnerAssumption DEF TypeOK, Runs, Conserved
  <2>2. pending'[t] = IF t = s THEN pending[t] - n ELSE pending[t]
    BY <1>1 DEF TypeOK
  <2>3. CASE t = s BY <1>2, <1>4, <2>1, <2>2, <2>3
  <2>4. CASE t # s BY <1>2, <1>4, <2>1, <2>2, <2>4
  <2>5. QED BY <2>3, <2>4
<1>8. ClosedIsAtEnd'  \* what was empty stays empty
  BY <1>1, <1>3, <1>4 DEF IInv, TypeOK, ClosedIsAtEnd, AtEOF, Others
<1>9. InOrder' /\ GroupIsDoomed' /\ NoStraySignal'
  BY <1>1, <1>3, <1>4 DEF IInv, InOrder, Done, GroupIsDoomed, NoStraySignal, Others
<1>10. QED BY <1>6, <1>7, <1>8, <1>9 DEF IInv

(* A stream is closed at its end, and with the last one the group is killed. *)
LEMMA ReadEOFPreserves ==
  ASSUME IInv, NEW s \in Streams, ReadEOF(s) \/ ReadFails(s)
  PROVE  IInv'
<1> DEFINE k == [run EXCEPT !.open = @ \ {s}]
           q == After(s, k)
           b == [q EXCEPT !.broken = @ \cup {s}]
<1>1. /\ run \in Runs /\ s \in run.ready /\ run.pc = "read" /\ Quiet
      /\ run.ready \subseteq run.open /\ leader # "reaped"
  BY DEF ReadEOF, ReadFails, IInv, TypeOK, InOrder
<1>2. /\ k \in Runs /\ k.open = run.open \ {s} /\ k.ready = run.ready /\ k.broken = run.broken
      /\ SameCounts(k) /\ k.termed = run.termed /\ k.killed = run.killed
      /\ k.finalized = run.finalized /\ k.unclean = run.unclean /\ k.stray = run.stray
  BY <1>1 DEF Runs, SameCounts
<1>3. Closed(s) = q
  BY DEF Closed
<1> HIDE DEF k
<1>4. /\ q \in Runs /\ q.ready = run.ready \ {s} /\ q.pc \in {"loop", "read"}
      /\ (q.ready # {} <=> q.pc = "read")
      /\ q.open = run.open \ {s} /\ q.broken = run.broken /\ SameCounts(q)
      /\ q.termed = run.termed /\ q.killed = run.killed
      /\ q.finalized = run.finalized /\ q.unclean = run.unclean /\ q.stray = run.stray
  BY <1>1, <1>2, AfterSets DEF SameCounts
<1> HIDE DEF q
<1>5. /\ b \in Runs /\ b.ready = q.ready /\ b.pc = q.pc /\ b.open = q.open
      /\ b.broken = run.broken \cup {s} /\ SameCounts(b)
      /\ b.termed = run.termed /\ b.killed = run.killed
      /\ b.finalized = run.finalized /\ b.unclean = run.unclean /\ b.stray = run.stray
  BY <1>4 DEF Runs, SameCounts
<1> HIDE DEF b
<1>6. CASE ReadEOF(s) /\ run.open = {s}
  BY <1>1, <1>3, <1>4, <1>6, FinalizePreserves DEF ReadEOF
<1>7. CASE ReadEOF(s) /\ run.open # {s}
  <2>1. Unharmed(q) /\ AtEOF(s)
    BY <1>3, <1>7 DEF ReadEOF
  <2>2. q.open # {}
    BY <1>1, <1>4, <1>7
  <2>3. InOrder'
    BY <1>1, <1>4, <2>1, <2>2 DEF Unharmed, IInv, InOrder, Done, Quiet, Others
  <2>4. QED BY <1>1, <1>4, <2>1, <2>3, UnharmedPreserves DEF Quiet
<1>8. CASE ReadFails(s)
  <2>1. Unharmed(b)
    BY <1>3, <1>8 DEF ReadFails, b
  <2>2. InOrder'
    BY <1>1, <1>4, <1>5, <2>1 DEF Unharmed, IInv, InOrder, Done, Quiet, Others
  <2>3. QED BY <1>1, <1>4, <1>5, <2>1, <2>2, UnharmedPreserves DEF Quiet
<1>9. QED BY <1>6, <1>7, <1>8

------------------------------------------------------------------------------
(* The inductive invariant. *)

(* Nothing is written, closed or killed before the command starts. *)
LEMMA InitIsIInv == ASSUME Init PROVE IInv
<1>1. Begin \in Runs
  BY RunnerAssumption DEF Begin, Runs, PCs
<1>2. TypeOK
  BY <1>1, RunnerAssumption DEF Init, TypeOK, Members, Begin
<1>3. Conserved /\ ClosedIsAtEnd
  BY RunnerAssumption DEF Init, Conserved, ClosedIsAtEnd, Begin
<1>4. InOrder /\ GroupIsDoomed /\ NoStraySignal
  BY DEF Init, InOrder, Done, GroupIsDoomed, NoStraySignal, Begin
<1>5. QED BY <1>2, <1>3, <1>4 DEF IInv

(* Time takes nothing back. *)
LEMMA PassesPreserves == ASSUME IInv, Passes PROVE IInv'
<1>1. UNCHANGED <<leader, code, kin, doomed, manners, holds, written, pending, run>>
  BY DEF Passes, command
<1>2. late' \in {"none", "deadline", "grace", "reap"}
  BY DEF Passes, IInv, TypeOK
<1>3. TypeOK' /\ Conserved' /\ ClosedIsAtEnd'
  BY <1>1, <1>2 DEF IInv, TypeOK, Conserved, ClosedIsAtEnd, AtEOF
<1>4. InOrder' /\ GroupIsDoomed' /\ NoStraySignal'
  BY <1>1 DEF IInv, InOrder, Done, GroupIsDoomed, NoStraySignal
<1>5. QED BY <1>3, <1>4 DEF IInv

(* Every step of the command, the runner and the clock preserves it. *)
LEMMA NextPreserves == ASSUME IInv, [Next]_vars PROVE IInv'
<1>1. CASE CommandNext BY <1>1, CommandPreserves
<1>2. CASE RunnerNext
  BY <1>2, RegisterPreserves, LookingPreserves, BoundsPreserve, SelectFailsPreserves,
     FinalKillPreserves, ReapPreserves, ReadChunkPreserves, ReadEOFPreserves DEF RunnerNext
<1>3. CASE Passes BY <1>3, PassesPreserves
<1>4. CASE UNCHANGED vars
  BY <1>4 DEF vars, command, IInv, TypeOK, Conserved, ClosedIsAtEnd, AtEOF, InOrder, Done,
              GroupIsDoomed, NoStraySignal
<1>5. QED BY <1>1, <1>2, <1>3, <1>4 DEF Next

(* Whatever the command does, the accounts of what it wrote balance, and the loop
   is left and the group killed in the order of the code. *)
THEOREM Invariance == Spec => []IInv
<1>1. Init => IInv BY InitIsIInv
<1>2. IInv /\ [Next]_vars => IInv' BY NextPreserves
<1>3. QED BY <1>1, <1>2, PTL DEF Spec

(* Every variable keeps its shape, and what select() reported is still watched. *)
THEOREM TypeCorrectness == Spec => []TypeOK
<1>1. IInv => TypeOK BY DEF IInv
<1>2. QED BY <1>1, Invariance, PTL

(* run() never says success of a command whose output was cut short or that left
   somebody behind who could write more. *)
THEOREM SuccessMeansComplete == Spec => []SuccessIsComplete
<1>1. ASSUME IInv, Done, Outcome = "success"
      PROVE  ~run.termed /\ run.broken = {}
  BY <1>1 DEF Outcome
<1>2. ASSUME IInv, Done, Outcome = "success", NEW s \in Streams
      PROVE  /\ run.captured[s] + run.discarded[s] = written[s]
             /\ \A m \in Members : s \notin holds[m]
  <2>1. AtEOF(s)
    BY <1>1, <1>2 DEF IInv, ClosedIsAtEnd, InOrder, Done
  <2>2. /\ run.captured[s] \in Nat /\ run.discarded[s] \in Nat
        /\ run.captured[s] + run.discarded[s] + pending[s] = written[s]
    BY <1>2, RunnerAssumption DEF IInv, TypeOK, Runs, Conserved
  <2>3. QED BY <2>1, <2>2 DEF AtEOF
<1>3. IInv => SuccessIsComplete
  BY <1>2 DEF SuccessIsComplete
<1>4. QED BY <1>3, Invariance, PTL

(* When run() returns, its group has been killed or has ended, and a command that
   was not reaped is reported. *)
THEOREM NobodyOutlivesRun == Spec => []NothingOutlives
<1>1. IInv => NothingOutlives
  BY DEF IInv, InOrder, GroupIsDoomed, Done, NothingOutlives, GroupIsGone, LeaderIsReaped
<1>2. QED BY <1>1, Invariance, PTL

(* No signal is sent to a group whose number may be somebody else's by now, unless
   a stream broke. *)
THEOREM SignalsStayInTheGroup == Spec => []NoStraySignal
<1>1. IInv => NoStraySignal BY DEF IInv
<1>2. QED BY <1>1, Invariance, PTL
==============================================================================

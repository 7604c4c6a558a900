------------------------------- MODULE DryRun -------------------------------
(***************************************************************************)
(* cli.main for the read-only commands: "kitdev doctor", "kitdev install   *)
(* --dry-run" and the same with "--phase identity-access".  Each is a      *)
(* process of its own that starts from collect_host_facts; they share the  *)
(* host and no memory, so a behaviour follows one command (identity-access *)
(* as often as its operator repeats it).                                   *)
(***************************************************************************)
EXTENDS IdentityPlan, InstallPlan

CONSTANT Hosts   \* bound: the platforms that the identity phase is tried on
ASSUME HostsAssumption == Hosts \subseteq Platforms

dryRunVars == <<vars, installVars>>

IdentityEligibleOld(p) ==  \* mutant: an end-of-life release too
  /\ p.release \in {"25.04", "26.04"} /\ p.mode = "production"
  /\ p.architecture \in {"x86_64", "amd64"}

\* The identity phase takes Ubuntu 26.04 in production on x86-64, of the same host
\* facts; it reads no other.
IdentityEligible(p) ==
  p.release = "26.04" /\ p.mode = "production" /\ p.architecture \in {"x86_64", "amd64"}

DryRunInit ==
  /\ Init /\ InstallInit
  /\ command \in {"doctor", "install", "identity-access"}
  /\ eligible = IdentityEligible(platform)
  /\ command = "identity-access" => platform \in Hosts /\ owned = {}
  /\ command # "identity-access" => gates = [g \in Gates |-> "verified"]
                                    /\ accounts["operator"].gids = {OperatorId, SudoGid}

DryRunNext ==
  \/ command = "identity-access" /\ Next /\ UNCHANGED installVars
  \/ command \in {"doctor", "install"} /\ InstallNext /\ UNCHANGED vars

DryRunSpec == DryRunInit /\ [][DryRunNext]_dryRunVars

-----------------------------------------------------------------------------

\* The identity phase plans for no host that preflight refuses, taken at its word:
\* it reads neither KVM, systemd, cgroups nor the CPU, and calls amd64 x86-64.
IdentityPassesGate == (plan # None /\ plan.exit # 3) => GateFailures(platform) = {}

\* What the two rules do share: of what the identity phase reads, preflight refuses
\* nothing that it accepts, but for the name amd64.
UnreadChecks == {"kvm"} \cup Probed
IdentityAgreesWithGate ==
  (plan # None /\ plan.exit # 3) =>
    GateFailures(platform) \subseteq
      UnreadChecks \cup (IF platform.architecture = "amd64" THEN {"architecture"} ELSE {})

\* Three rules of platforms, written apart, agree so far about which hosts may be
\* planned for; and "install" collects nothing on any other (the identity phase
\* collects before it judges, whatever the host).
GatesAgree == PlannerAgreesWithGate /\ IdentityAgreesWithGate /\ IneligibleIsLeftAlone
=============================================================================

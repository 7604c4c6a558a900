------------------------------ MODULE MCDryRun ------------------------------
EXTENDS DryRun
MCServiceNames == <<"proxy", "worker">>

\* Eligible; refused by preflight alone, for KVM, the CPU and the name amd64; and
\* refused by the identity phase too, for the release or the architecture.
Eligible2604 == [release |-> "26.04", mode |-> "production", architecture |-> "x86_64",
                 probes |-> [id \in Probed |-> "pass"], kvm |-> "ok"]
MCHosts ==
  {Eligible2604,
   [Eligible2604 EXCEPT !.architecture = "amd64", !.kvm = "absent",
                        !.probes = [id \in Probed |-> "fail"]],
   [Eligible2604 EXCEPT !.release = "25.04"],
   [Eligible2604 EXCEPT !.architecture = "other"]}

\* No lookup fails; one does, which need not be of the proxy's name; or both that
\* show the worker.
MCOutages ==
  {{}} \cup {{lookup} : lookup \in {l \in Lookups : l[3] # "proxy"}}
       \cup {{<<"any", "passwd", "worker">>, <<"any", "group", "worker">>}}
=============================================================================

------------------------------ MODULE MCFirewall ------------------------------
(* Firewall with an IPv4 address, the broad block around it, and an IPv6 block
   that is not public. *)
EXTENDS Firewall

Host == [family |-> 4, first |-> 0, last |-> 0]
Net4 == [family |-> 4, first |-> 0, last |-> 1]
Private6 == [family |-> 6, first |-> 0, last |-> 0]

MCCidrs == {Host, Net4, Private6}
MCNonPublic == {Private6}
==============================================================================

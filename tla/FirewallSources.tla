---------------------------- MODULE FirewallSources ----------------------------
(***************************************************************************)
(* The ownership manifest of the ingress firewall, as the two programs     *)
(* that read it understand it: firewall_source_state.py, which keeps it    *)
(* for the shell back end, and firewall_sources.py, the CLI that checks    *)
(* what the back end prints.  A CIDR block is its family and the addresses *)
(* it spans; what the registries say of an address is abstracted to a set  *)
(* of blocks that are not public, what is broad to a number of addresses.  *)
(***************************************************************************)
EXTENDS Naturals, Sequences, FiniteSets

CONSTANTS Cidrs,       \* the blocks: [family, first, last]
          NonPublic,   \* those that are not globally routable
          BroadSize    \* from how many addresses on a block is broad

ASSUME FirewallSourcesAssumption ==
  /\ Cidrs \subseteq [family : {4, 6}, first : Nat, last : Nat] /\ IsFiniteSet(Cidrs)
  /\ \A c \in Cidrs : c.first <= c.last
  /\ NonPublic \subseteq Cidrs
  /\ BroadSize \in Nat

FirewallModes == {"closed", "public", "restricted"}

IsBroad(c) == c.last - c.first + 1 >= BroadSize
Overlaps(c, d) == c.family = d.family /\ c.first <= d.last /\ d.first <= c.last

(* (version, network_address, prefixlen): smaller prefixes first. *)
Before(c, d) ==
  \/ c.family < d.family
  \/ c.family = d.family /\ c.first < d.first
  \/ c.family = d.family /\ c.first = d.first /\ c.last > d.last

(* A source as the manifest writes it, with the overrides it needed. *)
Item(c) == [cidr |-> c, nonPublic |-> c \in NonPublic, broad |-> IsBroad(c)]
Rank(c, sources) == Cardinality({d \in sources : Before(d, c)})
Sorted(sources) ==
  [i \in 1..Cardinality(sources) |-> CHOOSE c \in sources : Rank(c, sources) = i - 1]
Items(sources) == [i \in 1..Cardinality(sources) |-> Item(Sorted(sources)[i])]

(* normalize_cidr and normalize_source_cidr. *)
Admissible(c, allowNonPublic, allowBroad) ==
  /\ c \in NonPublic => allowNonPublic
  /\ IsBroad(c) => allowBroad

(* validate_document: overrides exactly as needed, no overlap, strict order. *)
ValidDocumentOverlapping(items) ==  \* mutant: only neighbours are kept apart
  /\ \A i \in DOMAIN items : items[i] = Item(items[i].cidr)
  /\ \A i, j \in DOMAIN items : i < j => Before(items[i].cidr, items[j].cidr)

ValidDocument(items) ==
  /\ \A i \in DOMAIN items : items[i] = Item(items[i].cidr)
  /\ \A i, j \in DOMAIN items : i < j =>
       Before(items[i].cidr, items[j].cidr) /\ ~Overlaps(items[i].cidr, items[j].cidr)

(* _run_backend: what the CLI believes of what the back end printed. *)
Believable(items) ==
  \A i \in DOMAIN items :
    LET c == items[i].cidr
    IN /\ Admissible(c, items[i].nonPublic, items[i].broad)
       /\ items[i].nonPublic = (c \in NonPublic) /\ items[i].broad = IsBroad(c)
       /\ \A j \in 1..(i - 1) : ~Overlaps(items[j].cidr, c) /\ ~Before(c, items[j].cidr)
==============================================================================

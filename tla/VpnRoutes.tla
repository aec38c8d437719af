----------------------------- MODULE VpnRoutes ------------------------------
(***************************************************************************)
(* VpnManager.applyVpnRoutes below API 33: the default route minus the LAN *)
(* ranges and the bypass routes, computed by CIDR subtraction.             *)
(*                                                                         *)
(* Addresses have Width bits (32 in the code).  A call of subtractCidr is  *)
(* a round: Begin, one step for each route and for each child that         *)
(* splitExcluding looks at, and Return.  The calls of splitExcluding that  *)
(* are under way are the children they still have to look at.              *)
(***************************************************************************)
EXTENDS Naturals, Sequences

CONSTANTS
  Width,          \* bits of an address
  MaxExclusions   \* bound on the blocks excluded

ASSUME WidthAssumption == Width \in Nat /\ MaxExclusions \in Nat

VARIABLES
  routes,     \* the CIDR blocks routed; in a round, those not looked at yet
  result,     \* the list the round puts together
  pending,    \* children in the calls of splitExcluding under way
  from, to,   \* subtractStart and subtractEnd
  busy,       \* in a round
  excluded,   \* every address some round excludes
  rounds      \* rounds begun

vars == <<routes, result, pending, from, to, busy, excluded, rounds>>

\* 1L << n.
Shl[n \in Nat] == IF n = 0 THEN 1 ELSE 2 * Shl[n - 1]

Addresses == 0 .. Shl[Width] - 1
PrefixLengths == 0 .. Width

\* A child half one address short.
SizeMutant(prefix) == Shl[Width - prefix] - 1

\* childSize: the number of addresses of a block.
Size(prefix) == Shl[Width - prefix]

\* The mask is not applied.
StartMutant(ip, prefix) == ip

\* ip & prefixToMask(prefix): the first address of the block that holds ip.
Start(ip, prefix) == ip - (ip % Shl[Width - prefix])

\* start | ~prefixToMask(prefix): its last address.
End(ip, prefix) == Start(ip, prefix) + Shl[Width - prefix] - 1

Block(start, prefix) == [start |-> start, prefix |-> prefix]

\* The excluded range does not overlap [lo, hi].
Apart(lo, hi) == from > hi \/ to < lo

\* It covers [lo, hi].
Covered(lo, hi) == ~Apart(lo, hi) /\ from <= lo /\ to >= hi

Overlapped(lo, hi) == ~Apart(lo, hi) /\ ~Covered(lo, hi)

\* The two children a call of splitExcluding looks at, in address order.
Children(blockStart, blockPrefix) ==
  LET child == blockPrefix + 1
  IN  IF child > Width THEN << >>
      ELSE << Block(blockStart, child), Block(blockStart + Size(child), child) >>

Init ==
  /\ routes = << Block(0, 0) >>    \* routes.add({0, 0}): the default route
  /\ result = << >> /\ pending = << >>
  /\ from = 0 /\ to = 0
  /\ busy = FALSE
  /\ excluded = {}
  /\ rounds = 0

\* subtractCidr is called for a LAN range or a bypass route.
Begin(ip, prefix) ==
  /\ ~busy /\ rounds < MaxExclusions
  /\ busy' = TRUE
  /\ rounds' = rounds + 1
  /\ from' = Start(ip, prefix) /\ to' = End(ip, prefix)
  /\ excluded' = excluded \cup {a \in Addresses : a \div Shl[Width - prefix]
                                                  = ip \div Shl[Width - prefix]}
  /\ UNCHANGED <<routes, result, pending>>

-----------------------------------------------------------------------------
(* The loop of subtractCidr. *)

\* The loop is at a route.
AtRoute == busy /\ pending = << >> /\ routes # << >>

RouteStart == Start(Head(routes).start, Head(routes).prefix)
RouteEnd == End(Head(routes).start, Head(routes).prefix)

NextRoute ==
  /\ routes' = Tail(routes)
  /\ UNCHANGED <<from, to, busy, excluded, rounds>>

KeepRoute ==
  /\ AtRoute /\ Apart(RouteStart, RouteEnd)
  /\ result' = Append(result, Head(routes))
  /\ NextRoute /\ UNCHANGED pending

RemoveRoute ==
  /\ AtRoute /\ Covered(RouteStart, RouteEnd)
  /\ NextRoute /\ UNCHANGED <<result, pending>>

\* Routes that do not overlap the range are split too.
SplitRouteMutant ==
  /\ AtRoute /\ ~Covered(RouteStart, RouteEnd)
  /\ pending' = Children(RouteStart, Head(routes).prefix)
  /\ NextRoute /\ UNCHANGED result

SplitRoute ==
  /\ AtRoute /\ Overlapped(RouteStart, RouteEnd)
  /\ pending' = Children(RouteStart, Head(routes).prefix)
  /\ NextRoute /\ UNCHANGED result

-----------------------------------------------------------------------------
(* The loop of splitExcluding. *)

\* The innermost call is at a child.
AtChild == busy /\ pending # << >>

ChildStart == Head(pending).start
ChildEnd == ChildStart + Size(Head(pending).prefix) - 1

KeepChild ==
  /\ AtChild /\ Apart(ChildStart, ChildEnd)
  /\ result' = Append(result, Head(pending))
  /\ pending' = Tail(pending)
  /\ UNCHANGED <<routes, from, to, busy, excluded, rounds>>

SkipChild ==
  /\ AtChild /\ Covered(ChildStart, ChildEnd)
  /\ pending' = Tail(pending)
  /\ UNCHANGED <<routes, result, from, to, busy, excluded, rounds>>

\* The recursive call.
SplitChild ==
  /\ AtChild /\ Overlapped(ChildStart, ChildEnd)
  /\ pending' = Children(ChildStart, Head(pending).prefix) \o Tail(pending)
  /\ UNCHANGED <<routes, result, from, to, busy, excluded, rounds>>

-----------------------------------------------------------------------------
\* routes = subtractCidr(...).
Return ==
  /\ busy /\ pending = << >> /\ routes = << >>
  /\ busy' = FALSE
  /\ routes' = result /\ result' = << >>
  /\ UNCHANGED <<pending, from, to, excluded, rounds>>

Next ==
  \/ \E ip \in Addresses, prefix \in PrefixLengths : Begin(ip, prefix)
  \/ KeepRoute \/ RemoveRoute \/ SplitRoute
  \/ KeepChild \/ SkipChild \/ SplitChild
  \/ Return

Spec == Init /\ [][Next]_vars
-----------------------------------------------------------------------------
(* Properties.  They are about the list that a round leaves, which in the  *)
(* end is given to VpnService.Builder.addRoute.                            *)

Blocks == [start : Addresses, prefix : PrefixLengths]

TypeOK ==
  /\ routes \in Seq(Blocks) /\ result \in Seq(Blocks) /\ pending \in Seq(Blocks)
  /\ from \in Addresses /\ to \in Addresses
  /\ busy \in BOOLEAN
  /\ excluded \subseteq Addresses
  /\ rounds \in 0..MaxExclusions

\* The addresses of a block.
AddressesOf(b) == b.start .. (b.start + Shl[Width - b.prefix] - 1)

\* Every block is one VpnService.Builder.addRoute accepts: a prefix length in
\* range and no host bit set in the address.
WellFormed ==
  ~busy =>
  \A i \in 1..Len(routes) :
    /\ routes[i].prefix \in PrefixLengths
    /\ routes[i].start \in Addresses
    /\ routes[i].start % Shl[Width - routes[i].prefix] = 0

\* The blocks together are exactly the addresses no exclusion names, whatever
\* the exclusions and their order, nested and overlapping ones included: no
\* bypassed address is routed into the VPN, and no other one leaks past it.
RoutesExactlyTheRest ==
  ~busy =>
  /\ UNION {AddressesOf(routes[i]) : i \in 1..Len(routes)} = Addresses \ excluded
  /\ \A i, j \in 1..Len(routes) :
       i < j => \A a \in AddressesOf(routes[i]), b \in AddressesOf(routes[j]) : a < b

\* "the largest possible sub-blocks": no two routes are the halves of one
\* larger block, so the list is the shortest there is.
LargestBlocks ==
  ~busy =>
  \A i, j \in 1..Len(routes) :
    (i # j /\ routes[i].prefix = routes[j].prefix /\ routes[i].prefix > 0)
    => Start(routes[i].start, routes[i].prefix - 1)
         # Start(routes[j].start, routes[j].prefix - 1)
=============================================================================

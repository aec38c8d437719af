--------------------------- MODULE MCControllers ----------------------------
(***************************************************************************)
(* Controllers for TLC: a user with and one without the smart chain, and   *)
(* two regions.                                                            *)
(***************************************************************************)
EXTENDS Controllers

User(protocol, beast, smart, region) ==
  [protocol |-> protocol, beast |-> beast, smart |-> smart, region |-> region]

MCRegions == {"any", "US"}

MCUserSettings ==
  {User("direct", FALSE, FALSE, "US"), User("cdn_fronting", TRUE, TRUE, "any")}
=============================================================================

----------------------------- MODULE MCSlateRoom -----------------------------
(* SlateRoom on small instances: so many events, short writes, starts of the *)
(* bridge and posts at once; the room refuses the third event, and the fourth *)
(* has its id (an id is cut from the ts and the first letters of the kind).  *)
EXTENDS SlateRoom

CONSTANTS MaxEvents, MaxShort, MaxBoots, MaxPosts
ASSUME BoundsAssumption ==
  MaxEvents \in Nat /\ MaxShort \in Nat /\ MaxBoots \in Nat /\ MaxPosts \in Nat

IdDef(e) == IF e = 4 THEN 3 ELSE e
RefusedDef(e) == e = 3

MCNext ==
  /\ SlateNext
  /\ published' <= MaxEvents
  /\ Cardinality(halves') <= MaxShort
  /\ bridge'.boot <= MaxBoots
  /\ Cardinality(posts') <= MaxPosts
  /\ sub'.pc # "out" => bridge'.boot = 0

MCSpec == SlateInit /\ [][MCNext]_slateVars
=============================================================================

----------------------------- MODULE MCRoomPolicy -----------------------------
(* RoomPolicy on small instances.                                           *)
EXTENDS RoomPolicy

CONSTANTS c1, c2, i1, p1, p0, doc, good, bad

MCChainOf == [c \in Card |-> IF c \in Founder THEN <<c>> ELSE <<c, i1>>]
MCPolicyOf == [a \in Address |-> IF a \in Card THEN p1 ELSE p0]
MCFieldAtFirst == [a \in Address |-> IF a \in Founder THEN bad ELSE good]
MCEntries == [d \in Document |-> {[policy |-> p1, fields |-> {good}]}]
=============================================================================

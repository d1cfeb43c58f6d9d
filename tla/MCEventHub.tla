------------------------------ MODULE MCEventHub ------------------------------
(* Instances of the event hub: order o1 belongs to strategy st, o2 to none; *)
(* client s1 asks for everything or for one order, s2 for the strategy.     *)
EXTENDS EventHub, TLC

CONSTANTS o1, o2, s1, s2, st

Owner == o1 :> st @@ o2 :> NULL
Anyone == [s \in Sub |-> NULL]
ByStrategy == s2 :> st
AnyCid == [s \in Sub |-> NULL]
ByCid == s1 :> o2

=============================================================================

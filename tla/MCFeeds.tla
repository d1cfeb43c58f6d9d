-------------------------------- MODULE MCFeeds --------------------------------
(* The parts of the node whose liveness is at stake and which share no      *)
(* state, checked side by side: a behaviour is one of the order stream, of  *)
(* the order-book feed or of the windowed risk caps.                        *)
EXTENDS MCEventHub, OrderBook, RiskWindows

CONSTANTS k1, k2, k3, x, y, SET

VARIABLE part
feedVars == <<part, vars, bookVars, riskVars>>

(* Two streams of symbol x and one of y. *)
Streams == k1 :> <<x, SET>> @@ k2 :> <<x, SET>> @@ k3 :> <<y, SET>>
Frames == x :> 3 @@ y :> 1
(* Two orders are economically identical, one is not. *)
Fingerprints == 1 :> "f" @@ 2 :> "f" @@ 3 :> "g"

FeedsInit ==
  /\ part \in {"hub", "book", "risk"}
  /\ Init /\ BookInit
  /\ RiskInit /\ (part # "risk" => ~risk.live_stage /\ ~risk.guard_on)

FeedsNext ==
  /\ UNCHANGED part
  /\ \/ part = "hub" /\ Next /\ UNCHANGED <<bookVars, riskVars>>
     \/ part = "book" /\ BookNext /\ UNCHANGED <<vars, riskVars>>
     \/ part = "risk" /\ RiskNext /\ UNCHANGED <<vars, bookVars>>

(* Nothing the other parts owe is enabled in their initial states but tick. *)
FeedsFairness ==
  /\ HubFairness /\ BookFairness
  /\ WF_riskVars(part = "risk" /\ tick)
  /\ \A c \in Submit : WF_riskVars(incr_burst(c)) /\ WF_riskVars(expire(c))

FeedsSpec == FeedsInit /\ [][FeedsNext]_feedVars /\ FeedsFairness
=============================================================================

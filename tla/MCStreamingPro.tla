---------------------------- MODULE MCStreamingPro ----------------------------
(* Instances of the Streaming Pro adapter and reconciler. *)
EXTENDS StreamingPro, TLC

Quantities == 1 .. OrderQty
FillIds == Cid \X Quantities
Twins == {k \in Cid \X Cid : k[1] # k[2]}

CONSTANT Second   \* the twin of the other order

(* Both on one market, or the first on the other. *)
OneOrTwo == {[c \in Cid |-> "SET"], [c \in Cid |-> IF c = Second THEN "SET" ELSE "TFEX"]}

(* Every fault meets the first order on its own on SET, though not an         *)
(* unreadable book and a crash in one behaviour; on TFEX only a cancel and an *)
(* unreadable book do.  Once the other order is submitted too, the venue only *)
(* takes the orders, acks may be lost, one of two books may be unreadable,    *)
(* and one of two orders like each other may be cancelled when both are bound. *)
Scope ==
  LET apart == \E c \in Cid : market[c] # market[Second]
      only_taken == \A c \in Cid :
        /\ venue[c].matched = 0
        /\ venue[c].state \in {"none", "resting"} \/ \E k \in cancels : k[2] = c
        /\ proc[Submit(c)].pc = "done" => venue[c].state # "none"
      cancelling(c) == proc[Cancel(c)].pc # "start"
  IN /\ crashed => outages = 0
     /\ \/ proc[Submit(Second)].pc = "start" /\ (apart => only_taken /\ ~crashed)
        \/ /\ only_taken /\ ~crashed
           /\ IF apart THEN \A c \in Cid : ~cancelling(c)
              ELSE /\ outages = 0
                   /\ \A c \in Cid : cancelling(c) =>
                        c # Second /\ \A d \in Cid : StatusOf(d) # "PENDING_NEW"
=============================================================================

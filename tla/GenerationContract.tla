------------------------- MODULE GenerationContract -------------------------
(***************************************************************************)
(* What a generation promises to the account that pays for it, whatever    *)
(* the order of commits and tasks: a deal is paid once, and a paid deal    *)
(* ends once, in a track or in a refund.  The only other end is forfeit: a *)
(* kill or a failed commit ended the work on the deal, or nobody is left   *)
(* to refund.  Several deals may be forfeited at once.                     *)
(***************************************************************************)
CONSTANTS Deals

VARIABLE deal

DealStates == {"open", "paid", "delivered", "refunded", "forfeited"}

Init == deal = [d \in Deals |-> "open"]

Move(d, from, to) ==
    /\ deal[d] = from
    /\ deal' = [deal EXCEPT ![d] = to]

Forfeit(ds) ==
    /\ \A d \in ds : deal[d] = "paid"
    /\ deal' = [d \in Deals |-> IF d \in ds THEN "forfeited" ELSE deal[d]]

Next ==
    \/ \E d \in Deals : \/ Move(d, "open", "paid")
                        \/ Move(d, "paid", "delivered")
                        \/ Move(d, "paid", "refunded")
    \/ \E ds \in SUBSET Deals : Forfeit(ds)

Spec == Init /\ [][Next]_deal

(* A paid deal does not stay paid.                                         *)
Ends == \A d \in Deals : deal[d] = "paid" ~> deal[d] # "paid"
=============================================================================

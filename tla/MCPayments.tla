------------------------------ MODULE MCPayments ------------------------------
(* Coupons and single payments for TLC: a behaviour is one of the coupons of   *)
(* the checkout, or one of the webhook queue.  They share no table beyond      *)
(* those each models, so checking them side by side loses nothing.             *)
EXTENDS Coupons, PaymentEvents, TLC

CONSTANTS half, gift, u1, u2, c1, c2, i1, i2, i3,
          p1, p2, p3, w1, w2, e1, e2

VARIABLE focus

MCCap == [k \in {half, gift} |-> 2]
Symmetry == Permutations({u1, u2}) \cup Permutations({c1, c2})
            \cup Permutations({w1, w2}) \cup Permutations({e1, e2}) \cup Permutations({p1, p2})

PaymentsInit == focus \in {"coupons", "queue"} /\ Init /\ EventsInit
PaymentsNext ==
  \/ focus = "coupons" /\ Next /\ UNCHANGED <<focus, eventVars>>
  \/ focus = "queue" /\ EventsNext /\ UNCHANGED <<focus, vars>>
PaymentsSpec == PaymentsInit /\ [][PaymentsNext]_<<focus, vars, eventVars>>
=============================================================================

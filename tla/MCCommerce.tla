----------------------------- MODULE MCCommerce -----------------------------
(* Small instances of Commerce: which seat each order buys, on which course,
   through which gateway.                                                   *)
EXTENDS Commerce, TLC

CONSTANTS o1, o2, o3, s1, c1, k1, k2

OneSeat   == [o \in Orders |-> s1]
OneCourse == [s \in Seats |-> c1]

AllFake   == [o \in Orders |-> "fake"]
AllStripe == [o \in Orders |-> "stripe"]
OneOfEach == (o1 :> "fake") @@ (o2 :> "bkash") @@ (o3 :> "sslcommerz")
=============================================================================

-------------------------------- MODULE Shop --------------------------------
(***************************************************************************)
(* What selling a place promises, without gateways, calls or tables.       *)
(*                                                                         *)
(* An order's sale is decided once, and a sold one can be returned.  A     *)
(* sale and the access it buys are one step, and so are a return and the   *)
(* access it takes away.  A learner may be let onto a course in other      *)
(* ways, and may leave one they never bought.                              *)
(***************************************************************************)
EXTENDS TLAPS

CONSTANTS Orders, Seats, SeatOf

VARIABLES sale, access, bought
shop == <<sale, access, bought>>

Sold(o)      == sale[o] = "sold"
EverSold(o)  == sale[o] \in {"sold", "returned"}

Init ==
    /\ sale = [o \in Orders |-> "open"]
    /\ access = {}
    /\ bought = {}

Sell(o) ==
    /\ sale[o] = "open"
    /\ sale' = [sale EXCEPT ![o] = "sold"]
    /\ access' = access \cup {SeatOf[o]}
    /\ bought' = bought \cup {SeatOf[o]}

Void(o) ==
    /\ sale[o] = "open"
    /\ sale' = [sale EXCEPT ![o] = "void"]
    /\ UNCHANGED <<access, bought>>

Return(o) ==
    /\ Sold(o)
    /\ SeatOf[o] \in access
    /\ sale' = [sale EXCEPT ![o] = "returned"]
    /\ access' = access \ {SeatOf[o]}
    /\ bought' = bought

Admit(s) ==
    /\ access' = access \cup {s}
    /\ UNCHANGED <<sale, bought>>

Leave(s) ==
    /\ s \in access \ bought
    /\ access' = access \ {s}
    /\ UNCHANGED <<sale, bought>>

Next ==
    \/ \E o \in Orders : Sell(o) \/ Void(o) \/ Return(o)
    \/ \E s \in Seats : Admit(s) \/ Leave(s)

Spec == Init /\ [][Next]_shop

(* The only order ever sold for a seat keeps its buyer in. *)
BuyerIsIn ==
    \A o \in Orders :
        /\ Sold(o)
        /\ \A p \in Orders \ {o} : SeatOf[p] = SeatOf[o] => ~EverSold(p)
        => SeatOf[o] \in access

(* A place that was bought is taken away only by the return of a sale of it. *)
TakenBackByReturn ==
    \A s \in (access \cap bought) \ access' :
        \E o \in Orders : SeatOf[o] = s /\ Sold(o) /\ sale'[o] = "returned"

-----------------------------------------------------------------------------
(* Inductive: a seat ever sold is marked bought, so its buyer cannot leave it,
   and only the return of a sale of that seat takes the access away.        *)
Kept ==
    /\ sale \in [Orders -> {"open", "sold", "void", "returned"}]
    /\ \A o \in Orders : EverSold(o) => SeatOf[o] \in bought
    /\ BuyerIsIn

LEMMA KeptInit == Init => Kept
BY DEF Init, Kept, BuyerIsIn, Sold, EverSold

LEMMA KeptStep == Kept /\ [Next]_shop => Kept'
<1> SUFFICES ASSUME Kept, [Next]_shop PROVE Kept'
  OBVIOUS
<1>1. CASE UNCHANGED shop
  BY <1>1 DEF Kept, BuyerIsIn, Sold, EverSold, shop
<1>2. ASSUME NEW o \in Orders, Sell(o) PROVE Kept'
  BY <1>2 DEF Kept, BuyerIsIn, Sold, EverSold, Sell
<1>3. ASSUME NEW o \in Orders, Void(o) PROVE Kept'
  BY <1>3 DEF Kept, BuyerIsIn, Sold, EverSold, Void
<1>4. ASSUME NEW o \in Orders, Return(o) PROVE Kept'
  BY <1>4 DEF Kept, BuyerIsIn, Sold, EverSold, Return
<1>5. ASSUME NEW s \in Seats, Admit(s) PROVE Kept'
  BY <1>5 DEF Kept, BuyerIsIn, Sold, EverSold, Admit
<1>6. ASSUME NEW s \in Seats, Leave(s) PROVE Kept'
  BY <1>6 DEF Kept, BuyerIsIn, Sold, EverSold, Leave
<1> QED BY <1>1, <1>2, <1>3, <1>4, <1>5, <1>6 DEF Next

(* Whoever is the only one ever sold a place is in, until it is returned. *)
THEOREM BuyerStaysIn == Spec => []BuyerIsIn
<1>1. Kept => BuyerIsIn
  BY DEF Kept
<1> QED BY <1>1, KeptInit, KeptStep, PTL DEF Spec

(* No step but the return of a sale takes a bought place away. *)
THEOREM BoughtIsKept == Spec => [][TakenBackByReturn]_shop
<1>1. Kept /\ [Next]_shop => [TakenBackByReturn]_shop
  <2> SUFFICES ASSUME Kept, Next PROVE TakenBackByReturn
    OBVIOUS
  <2>1. ASSUME NEW o \in Orders, Return(o) PROVE TakenBackByReturn
    BY <2>1 DEF Return, TakenBackByReturn, Kept
  <2>2. ASSUME NEW o \in Orders, Sell(o) \/ Void(o) PROVE TakenBackByReturn
    BY <2>2 DEF Sell, Void, TakenBackByReturn
  <2>3. ASSUME NEW s \in Seats, Admit(s) \/ Leave(s) PROVE TakenBackByReturn
    BY <2>3 DEF Admit, Leave, TakenBackByReturn
  <2> QED BY <2>1, <2>2, <2>3 DEF Next
<1> QED BY <1>1, KeptInit, KeptStep, PTL DEF Spec
=============================================================================

--------------------------- MODULE MCPaperTrading ---------------------------
(* Instances of PaperTrading for TLC. *)
EXTENDS PaperTrading

Two == {"btc", "xau"}
BtcShorts == [s \in Two |-> IF s = "btc" THEN {"long", "short"} ELSE {"long"}]

\* A partial take-profit alone, below a ladder, and beside a fixed one.
ThreeExits ==
  {[profit |-> 0, partial |-> 50, ladder |-> <<>>],
   [profit |-> 0, partial |-> 50,
    ladder |-> <<[age |-> 0, roi |-> 100], [age |-> 1, roi |-> 40]>>],
   [profit |-> 100, partial |-> 50, ladder |-> <<>>]}
=============================================================================

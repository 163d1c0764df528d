--------------------------- MODULE MCTradingDesk ---------------------------
(* Instances of TradingDesk for TLC. *)
EXTENDS TradingDesk

Two == {"btc", "xau"}
InOrder == <<"btc", "xau">>
ThreeRegimes == {"up", "side", "down"}
TwoStrategies == {"trend", "range"}
Mapping == [g \in ThreeRegimes |->
              CASE g = "up" -> "trend" [] g = "side" -> "range" [] OTHER -> None]
Trend == [s \in Two |-> "trend"]
TwoKeys == {"key 1", "key 2"}
OneOrder == {"order"}

BtcShorts == [s \in Two |-> IF s = "btc" THEN {"long", "short"} ELSE {"long"}]

\* Three confirm requests, two of them at a time; a crash and a reload under
\* routing; routing with a request; the semi-automatic mode with routing.
FourDesks ==
  {[mode |-> "full_auto", routed |-> {}, clicks |-> 3, upsets |-> 1],
   [mode |-> "full_auto", routed |-> {"btc"}, clicks |-> 0, upsets |-> 2],
   [mode |-> "full_auto", routed |-> {"btc"}, clicks |-> 1, upsets |-> 0],
   [mode |-> "semi_auto", routed |-> {"btc"}, clicks |-> 0, upsets |-> 1]}
=============================================================================

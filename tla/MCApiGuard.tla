----------------------------- MODULE MCApiGuard -----------------------------
(* Instances of ApiGuard for TLC and the mutants of its definitions. *)
EXTENDS ApiGuard

\* The engine thread polls, trades and cancels; the other two only read.
MCThreads == {"engine", "balance", "candles"}
MCUses == [t \in MCThreads |->
             CASE t = "engine" -> {"fetch_ohlcv", "create_order",
                                   "cancel_order", "cancel_algos"}
               [] t = "balance" -> {"fetch_balance"}
               [] t = "candles" -> {"fetch_ohlcv"}]

\* DEFAULT_ALWAYS_ALLOW; cancel_all_orders is never called by the client.
DefaultAllow == {"create_order", "cancel_order"}
=============================================================================

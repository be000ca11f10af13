----------------------------- MODULE MCBackends -----------------------------
(* Small instances of Backends for TLC.                                    *)
EXTENDS Backends

SmallFees == {0, 2}
SmallAmounts == {1, 3}
SmallBalances == {4, 12, 14, 100}
SmallPrices == {1, 2}
=============================================================================

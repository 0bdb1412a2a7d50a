--------------------------- MODULE MCOrderPipeline --------------------------
(* Small instances of OrderPipeline for TLC.                                 *)
EXTENDS OrderPipeline

CONSTANTS pa, pb

\* Two products; 100 -> 104 is below the threshold, 100 -> 120 above it.
Prices == {100, 104, 120}
TwoPrices == {100, 120}
PriceOf == [p \in Product |-> IF p = pa THEN 100 ELSE 120]
StockOf == [p \in Product |-> 3]

\* Every kind of message while nothing else changes; or changes at every moment,
\* two kinds at a time, while customers change the order or bargain.
Quiet == [kinds |-> AllKinds, env |-> {}]
SomeWorlds == { Quiet,
                [kinds |-> {"nego", "product"}, env |-> {"sell", "risk"}],
                [kinds |-> {"nego"}, env |-> {"price", "sell"}],
                [kinds |-> {"product"}, env |-> {"price", "risk"}],
                [kinds |-> {"qty", "nego"}, env |-> {"cost"}] }
\* One thing at a time.
OneThing == {[kinds |-> {k}, env |-> {}] : k \in {"qty", "addon"}}
            \cup {[kinds |-> {}, env |-> {e}] : e \in {"risk", "price"}}
=============================================================================

----------------------------- MODULE MCExchange -----------------------------
(* Instances of Exchange for TLC. *)
EXTENDS ExchangeMarket

(* Traders are interchangeable. *)
Symmetry == Permutations(Traders)
=============================================================================

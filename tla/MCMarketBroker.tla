------------------------------ MODULE MCMarketBroker ------------------------------
(* The broker for TLC: clients are interchangeable, and a behaviour has at  *)
(* most three subscription messages and openings of the market together.    *)
EXTENDS MarketBroker, TLC

ClientSymmetry == Permutations(Clients)

FewChanges == requests + flips <= 3
==============================================================================

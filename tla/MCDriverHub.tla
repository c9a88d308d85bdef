---------------------------- MODULE MCDriverHub ----------------------------
(* Three merchants, so that two changes can race and a third be selected *)
(* while both are in flight.  Merchants are interchangeable.             *)
EXTENDS DriverHub, TLC

CONSTANTS h1, h2, h3

MCMerchants == {h1, h2, h3}
MCSymmetry == Permutations(MCMerchants)
=============================================================================

------------------------- MODULE MCGroupManager -------------------------
(* Three roles cover the backend's answers: r1 enables both selects, r2  *)
(* disables the sub-brand select, r3 disables both.                      *)
EXTENDS GroupManager, TLC

CONSTANTS r1, r2, r3, m1, m2

MCRoles == {r1, r2, r3}
MCMerchants == {m1, m2}
MCMerchantDisabledFor == (r1 :> FALSE) @@ (r2 :> FALSE) @@ (r3 :> TRUE)
MCSubBrandDisabledFor == (r1 :> FALSE) @@ (r2 :> TRUE) @@ (r3 :> TRUE)
MCMerchantsFor == (r1 :> {m1, m2}) @@ (r2 :> {m1}) @@ (r3 :> {})
=============================================================================

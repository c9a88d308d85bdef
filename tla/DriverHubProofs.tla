---------------------------- MODULE DriverHubProofs ----------------------------
(***************************************************************************)
(* Proof about DriverHub for every set of merchants and every bound: the   *)
(* type invariant, whatever order the answers arrive in.                   *)
(***************************************************************************)
EXTENDS DriverHub, TLAPS

USE DriverHubAssumption

LEMMA InitTypeOK == Init => TypeOK
  BY DEF Init, TypeOK

\* The type is inductive as it stands: the callback refills both selects
\* from the merchant of a well-formed request.
LEMMA NextTypeOK == TypeOK /\ [Next]_vars => TypeOK'
  <1> SUFFICES ASSUME TypeOK, [Next]_vars PROVE TypeOK'
    OBVIOUS
  <1>1. ASSUME NEW m \in Merchants, ChangeMerchant(m) PROVE TypeOK'
    BY <1>1 DEF ChangeMerchant, TypeOK, Request
  <1>2. ASSUME NEW q \in pending, Respond(q) PROVE TypeOK'
    <2>1. q.merchant \in Merchants
      BY DEF TypeOK, Request
    <2>2. QED
      BY <1>2, <2>1 DEF Respond, Success, TypeOK
  <1>3. ASSUME NEW q \in pending, Fail(q) PROVE TypeOK'
    BY <1>3 DEF Fail, TypeOK
  <1>4. CASE UNCHANGED vars
    BY <1>4 DEF vars, TypeOK
  <1>5. QED
    BY <1>1, <1>2, <1>3, <1>4 DEF Next

(***************************************************************************)
(* Whatever merchants are changed to and whichever requests are answered   *)
(* or lost, the form stays well typed: each select lists the records of    *)
(* some merchant, the one of the answer applied last (lines 14-25).        *)
(***************************************************************************)
THEOREM TypeCorrect == Spec => []TypeOK
  BY InitTypeOK, NextTypeOK, PTL DEF Spec
=============================================================================

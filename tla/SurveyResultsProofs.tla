------------------------- MODULE SurveyResultsProofs -------------------------
(***************************************************************************)
(* Proofs about SurveyResults for every set of surveys and merchants and   *)
(* every backend: the form's type invariant, which includes that the       *)
(* merchants selected are always options of the merchant select.           *)
(***************************************************************************)
EXTENDS SurveyResults, TLAPS

USE SurveyResultsAssumption

\* The merchants an answer lists are merchants of the page.
LEMMA OptionsType ==
    ASSUME NEW opts \in Surveys \cup {Cleared}
    PROVE  OptionsOf(opts) \subseteq Merchants
  BY DEF OptionsOf

LEMMA InitTypeOK == Init => TypeOK
  <1> SUFFICES ASSUME Init PROVE TypeOK
    OBVIOUS
  <1>1. subBrandOpts \in SubBrandList
    BY Zenon DEF Init, SubBrandList
  <1>2. /\ loaded = FALSE /\ survey \in Surveys /\ merchantOpts \in Surveys
        /\ merchantSel = {} /\ pending = {} /\ sent = 0
    BY DEF Init
  <1>3. sent \in 0 .. MaxRequests
    BY <1>2
  <1>4. QED
    BY <1>1, <1>2, <1>3, Zenon DEF TypeOK

LEMMA NextTypeOK == TypeOK /\ [Next]_vars => TypeOK'
  <1> SUFFICES ASSUME TypeOK, [Next]_vars PROVE TypeOK'
    OBVIOUS
  <1>1. CASE WindowLoad
    BY <1>1 DEF WindowLoad, TypeOK, OptionsOf
  <1>2. ASSUME NEW s \in Surveys, ChangeSurvey(s) PROVE TypeOK'
    BY <1>2 DEF ChangeSurvey, Send, TypeOK, Request, OptionsOf
  <1>3. ASSUME NEW ms \in SUBSET Merchants, ChangeMerchants(ms) PROVE TypeOK'
    BY <1>3 DEF ChangeMerchants, Send, TypeOK, Request
  <1>4. ASSUME NEW q \in pending, Respond(q) PROVE TypeOK'
    <2>1. q \in Request
      BY DEF TypeOK
    <2>2. /\ pending' \subseteq Request
          /\ UNCHANGED <<loaded, survey, sent>>
      BY <1>4 DEF Respond, TypeOK
    <2>3. CASE q.kind = "survey"
      <3>1. SurveySuccess(q)
        BY <1>4, <2>3 DEF Respond
      <3>2. subBrandOpts' \in SubBrandList
        BY <2>1, <3>1, Zenon DEF SurveySuccess, Request, SubBrandList
      <3>3. merchantOpts' \in Surveys /\ merchantSel' = {}
        BY <2>1, <3>1 DEF SurveySuccess, Request
      <3>4. QED
        BY <2>2, <3>2, <3>3 DEF TypeOK, OptionsOf
    <2>4. CASE q.kind # "survey"
      <3>1. MerchantsSuccess(q)
        BY <1>4, <2>4 DEF Respond
      <3>2. subBrandOpts' \in SubBrandList
        BY <2>1, <3>1, Zenon DEF MerchantsSuccess, Request, SubBrandList
      <3>3. UNCHANGED <<merchantOpts, merchantSel>>
        BY <3>1 DEF MerchantsSuccess
      <3>4. QED
        BY <2>2, <3>2, <3>3 DEF TypeOK, OptionsOf
    <2>5. QED
      BY <2>3, <2>4
  <1>5. ASSUME NEW q \in pending, Fail(q) PROVE TypeOK'
    BY <1>5 DEF Fail, TypeOK, OptionsOf
  <1>6. CASE UNCHANGED vars
    BY <1>6 DEF vars, TypeOK, OptionsOf
  <1>7. QED
    BY <1>1, <1>2, <1>3, <1>4, <1>5, <1>6 DEF Next

(***************************************************************************)
(* Whatever order the survey and merchants answers arrive in, and whether  *)
(* window.load fires before or after them, the form stays well typed: in   *)
(* particular the merchants selected in #id_merchant are always options it *)
(* lists (the survey callback empties the selection with the options,      *)
(* lines 20-21, and a change can only pick listed options).                *)
(***************************************************************************)
THEOREM TypeCorrect == Spec => []TypeOK
  BY InitTypeOK, NextTypeOK, PTL DEF Spec
=============================================================================

---------------------------- MODULE SurveyResults ----------------------------
(***************************************************************************)
(* The survey-results admin form,                                          *)
(* src/merchant_extension/static/survey/surveyResultsAdmin.js.  A change   *)
(* of the survey asks /admin/survey-merchants for the survey's merchants   *)
(* and sub-brands; a change of the merchants asks for the sub-brands of    *)
(* the survey read from #id_survey and the chosen merchants; window.load   *)
(* empties both selects.  The merchant select's options are abstracted to  *)
(* the survey they were answered for (Cleared: emptied), the sub-brand     *)
(* select's to the (survey, merchants)                                     *)
(* pair asked for (filtered = FALSE for a survey-only answer).  Answers   *)
(* arrive in any order, or never: there is no error callback.              *)
(***************************************************************************)
EXTENDS Naturals

CONSTANTS
    Surveys,       \* the surveys the select offers
    Merchants,     \* every merchant
    MerchantsOf,   \* the backend: the merchants of each survey
    Cleared,       \* a select emptied and not refilled
    LossyNetwork,  \* whether a request may fail
    MaxRequests    \* bound on the number of user changes

ASSUME SurveyResultsAssumption ==
    /\ MerchantsOf \in [Surveys -> SUBSET Merchants]
    /\ Cleared \notin Surveys
    /\ LossyNetwork \in BOOLEAN
    /\ MaxRequests \in Nat

VARIABLES
    loaded,       \* the window's load event has fired
    survey,       \* $('#id_survey').val()
    merchantOpts, \* whose merchants #id_merchant lists
    merchantSel,  \* $('#id_merchant').val()
    subBrandOpts, \* what the #id_sub_brand options were asked for
    pending,      \* requests sent whose callback has not run
    sent          \* requests sent so far

vars == <<loaded, survey, merchantOpts, merchantSel, subBrandOpts, pending, sent>>

Request == [id : Nat, kind : {"survey", "merchants"}, survey : Surveys,
            merchants : SUBSET Merchants]

SubBrandList == [survey : Surveys, filtered : BOOLEAN, merchants : SUBSET Merchants]

\* The merchants the user can pick from the select's options.
OptionsOf(opts) == IF opts = Cleared THEN {} ELSE MerchantsOf[opts]

Send(kind, s, ms) ==
    /\ sent < MaxRequests
    /\ pending' = pending \cup
                  {[id |-> sent + 1, kind |-> kind, survey |-> s, merchants |-> ms]}
    /\ sent' = sent + 1

\* The form as rendered: its selects consistent with the survey shown.
Init ==
    /\ loaded = FALSE
    /\ survey \in Surveys
    /\ merchantOpts = survey
    /\ merchantSel = {}
    /\ subBrandOpts = [survey |-> survey, filtered |-> FALSE, merchants |-> {}]
    /\ pending = {}
    /\ sent = 0

\* $(window).load(...), lines 7-11, registered by the ready handler: it
\* fires once, whenever the page's resources are in.
WindowLoad ==
    /\ ~loaded
    /\ loaded' = TRUE
    /\ merchantOpts' = Cleared
    /\ merchantSel' = {}
    /\ subBrandOpts' = Cleared
    /\ UNCHANGED <<survey, pending, sent>>

\* The change handler of #id_survey, lines 12-18.
ChangeSurvey(s) ==
    /\ s # survey
    /\ survey' = s
    /\ Send("survey", s, {})
    /\ UNCHANGED <<loaded, merchantOpts, merchantSel, subBrandOpts>>

\* The change handler of #id_merchant, lines 35-43: the chosen merchants
\* and the survey now in #id_survey.
ChangeMerchants(ms) ==
    /\ ms \subseteq OptionsOf(merchantOpts)
    /\ ms # merchantSel
    /\ merchantSel' = ms
    /\ Send("merchants", survey, ms)
    /\ UNCHANGED <<loaded, survey, merchantOpts, subBrandOpts>>

\* Mutant: line 20 appends without .empty(): the merchant select lists the
\* old options and the answer's, and keeps its selection.
SurveySuccessNoEmpty(q) ==
    /\ merchantOpts' = {merchantOpts, q.survey}
    /\ UNCHANGED merchantSel
    /\ subBrandOpts' = [survey |-> q.survey, filtered |-> FALSE, merchants |-> {}]

\* The survey request's success callback, lines 19-30: empty both selects
\* and append the answer's merchants and sub-brands.
SurveySuccess(q) ==
    /\ merchantOpts' = q.survey
    /\ merchantSel' = {}
    /\ subBrandOpts' = [survey |-> q.survey, filtered |-> FALSE, merchants |-> {}]

\* The merchants request's success callback, lines 44-50.
MerchantsSuccess(q) ==
    /\ subBrandOpts' = [survey |-> q.survey, filtered |-> TRUE,
                         merchants |-> q.merchants]
    /\ UNCHANGED <<merchantOpts, merchantSel>>

Respond(q) ==
    /\ pending' = pending \ {q}
    /\ IF q.kind = "survey" THEN SurveySuccess(q) ELSE MerchantsSuccess(q)
    /\ UNCHANGED <<loaded, survey, sent>>

Fail(q) ==
    /\ LossyNetwork
    /\ pending' = pending \ {q}
    /\ UNCHANGED <<loaded, survey, merchantOpts, merchantSel, subBrandOpts, sent>>

Next ==
    \/ WindowLoad
    \/ \E s \in Surveys : ChangeSurvey(s)
    \/ \E ms \in SUBSET Merchants : ChangeMerchants(ms)
    \/ \E q \in pending : Respond(q) \/ Fail(q)

Spec == Init /\ [][Next]_vars

-----------------------------------------------------------------------------
TypeOK ==
    /\ loaded \in BOOLEAN
    /\ survey \in Surveys
    /\ merchantOpts \in Surveys \cup {Cleared}
    /\ merchantSel \subseteq OptionsOf(merchantOpts)
    /\ subBrandOpts \in SubBrandList \cup {Cleared}
    /\ pending \subseteq Request
    /\ sent \in 0 .. MaxRequests

(***************************************************************************)
(* The sub-brands listed are those of merchants the merchant select lists: *)
(* a merchants answer is never applied to a merchant list it was not asked *)
(* from, whatever order the survey and merchants answers arrive in.        *)
(***************************************************************************)
SubBrandsOfListedMerchants ==
    subBrandOpts \in SubBrandList /\ subBrandOpts.filtered =>
        subBrandOpts.merchants \subseteq OptionsOf(merchantOpts)

=============================================================================

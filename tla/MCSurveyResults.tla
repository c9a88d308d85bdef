--------------------------- MODULE MCSurveyResults ---------------------------
(* Two surveys whose merchant lists differ, so that merchants picked     *)
(* from one list can be sent with, or shown beside, the other survey.    *)
EXTENDS SurveyResults, TLC

CONSTANTS s1, s2, m1, m2

MCSurveys == {s1, s2}
MCMerchants == {m1, m2}
MCMerchantsOf == (s1 :> {m1, m2}) @@ (s2 :> {m2})
=============================================================================

------------------------- MODULE GroupManagerProofs -------------------------
(***************************************************************************)
(* Proofs about the group-manager dropdown controller: its type, the two-  *)
(* state form of the merchant select and the show-only checkbox tracking   *)
(* the sub-brand select hold in every state, for every backend policy and  *)
(* every order in which the callbacks run.                                 *)
(***************************************************************************)
EXTENDS GroupManager, TLAPS

USE GroupManagerAssumption

\* The inductive invariant: the type together with the two safety
\* invariants.  Each is needed for the others' preservation only through
\* the type, but both must hold before a step for them to hold after it.
IInv == TypeOK /\ MerchantTwoState /\ ShowOnlyFollowsSubBrand

\* The selects of the rendered form: enabled, listing the role's merchants.
LEMMA InitIInv == Init => IInv
<1> SUFFICES ASSUME Init PROVE IInv
  OBVIOUS
<1>1. merchantSel \subseteq OptionsOf(merchantOpts)
  BY DEF Init, OptionsOf
<1>2. merchantSel \subseteq Merchants
  BY DEF Init
<1>3. subBrandOpts \in SubBrandList
  BY <1>2 DEF Init, SubBrandList
<1>4. TypeOK
  <2>1. ready \in BOOLEAN /\ merchantDisabled \in BOOLEAN
        /\ subBrandDisabled \in BOOLEAN /\ showOnlyDisabled \in BOOLEAN
    BY DEF Init
  <2>2. role \in Roles /\ merchantOpts \in Roles \cup {NoOptions}
    BY DEF Init
  <2>3. pending \subseteq Request /\ sent \in 0 .. MaxRequests
    BY DEF Init
  <2>4. QED
    BY <1>1, <1>3, <2>1, <2>2, <2>3 DEF TypeOK
<1>5. QED
  BY <1>4 DEF Init, IInv, MerchantTwoState, ShowOnlyFollowsSubBrand

\* The options of a select are merchants the backend knows.
LEMMA OptionsType ==
    ASSUME NEW o \in Roles \cup {NoOptions}
    PROVE  OptionsOf(o) \subseteq Merchants
BY DEF OptionsOf

\* A request sent by a handler is a well-formed Request.
LEMMA SendType ==
    ASSUME TypeOK, NEW kind \in Kinds, NEW r \in Roles,
           NEW ms \in SUBSET Merchants, Send(kind, r, ms)
    PROVE  pending' \subseteq Request /\ sent' \in 0 .. MaxRequests
BY DEF Send, TypeOK, Request

\* The merchant select after a callback that either disables it or leaves
\* it alone (the document-ready callback, lines 19-21).
LEMMA DisableOrKeepMerchants ==
    ASSUME IInv, NEW b \in BOOLEAN,
           IF b THEN DisableMerchantMultiselect ELSE MerchantsUnchanged
    PROVE  /\ merchantOpts' \in Roles \cup {NoOptions}
           /\ merchantSel' \subseteq OptionsOf(merchantOpts')
           /\ merchantDisabled' \in BOOLEAN
           /\ merchantDisabled' => merchantOpts' = NoOptions /\ merchantSel' = {}
<1>1. CASE b
  BY <1>1 DEF DisableMerchantMultiselect
<1>2. CASE ~b
  BY <1>2 DEF MerchantsUnchanged, IInv, TypeOK, MerchantTwoState
<1>3. QED
  BY <1>1, <1>2

\* The callbacks: each leaves the merchant select either as it was or
\* disabled and emptied or enabled with a fresh list and nothing selected,
\* and moves the sub-brand select and the checkbox together.
LEMMA RespondIInv ==
    ASSUME IInv, NEW q \in pending, Respond(q)
    PROVE  IInv'
<1>1. q \in Request /\ pending' \subseteq Request
  BY DEF Respond, IInv, TypeOK
<1>2. UNCHANGED <<ready, role, sent>> /\ TypeOK
  BY DEF Respond, IInv
<1>3. MerchantDisabledFor[q.role] \in BOOLEAN /\ SubBrandDisabledFor[q.role] \in BOOLEAN
  BY <1>1 DEF Request
<1>4. CASE q.kind = "load"
  <2>1. LoadSuccess(q)
    BY <1>4 DEF Respond
  <2>2. /\ merchantOpts' \in Roles \cup {NoOptions}
        /\ merchantSel' \subseteq OptionsOf(merchantOpts')
        /\ merchantDisabled' \in BOOLEAN
        /\ merchantDisabled' => merchantOpts' = NoOptions /\ merchantSel' = {}
    BY <2>1, <1>3, DisableOrKeepMerchants DEF LoadSuccess
  <2>3. /\ subBrandOpts' \in SubBrandList \cup {NoOptions}
        /\ subBrandDisabled' \in BOOLEAN
        /\ showOnlyDisabled' = subBrandDisabled'
    <3>1. CASE SubBrandDisabledFor[q.role]
      BY <2>1, <3>1 DEF LoadSuccess, DisableSubBrandMultiselect
    <3>2. CASE ~SubBrandDisabledFor[q.role]
      BY <2>1, <3>2, <1>1 DEF LoadSuccess, FillSubBrandings, SubBrandList,
         Request, IInv, TypeOK, ShowOnlyFollowsSubBrand
    <3>3. QED
      BY <3>1, <3>2
  <2>4. QED
    BY <1>1, <1>2, <2>2, <2>3 DEF IInv, TypeOK, MerchantTwoState,
       ShowOnlyFollowsSubBrand
<1>5. CASE q.kind = "role"
  <2>1. RoleSuccess(q)
    BY <1>5 DEF Respond
  <2>2. /\ merchantOpts' \in Roles \cup {NoOptions}
        /\ merchantSel' \subseteq OptionsOf(merchantOpts')
        /\ merchantDisabled' \in BOOLEAN
        /\ merchantDisabled' => merchantOpts' = NoOptions /\ merchantSel' = {}
    <3>1. CASE MerchantDisabledFor[q.role]
      BY <2>1, <3>1 DEF RoleSuccess, DisableMerchantMultiselect
    <3>2. CASE ~MerchantDisabledFor[q.role]
      BY <2>1, <3>2, <1>1 DEF RoleSuccess, Request
    <3>3. QED
      BY <3>1, <3>2
  <2>3. /\ subBrandOpts' \in SubBrandList \cup {NoOptions}
        /\ subBrandDisabled' \in BOOLEAN
        /\ showOnlyDisabled' = subBrandDisabled'
    <3>1. CASE SubBrandDisabledFor[q.role]
      BY <2>1, <3>1 DEF RoleSuccess, DisableSubBrandMultiselect
    <3>2. CASE ~SubBrandDisabledFor[q.role]
      <4>1. /\ showOnlyDisabled' = FALSE /\ subBrandDisabled' = FALSE
            /\ FillSubBrandings(q)
        BY <2>1, <3>2 DEF RoleSuccess
      <4>2. subBrandOpts' \in SubBrandList
        BY <4>1, <1>1 DEF FillSubBrandings, SubBrandList, Request
      <4>3. QED
        BY <4>1, <4>2
    <3>3. QED
      BY <3>1, <3>2
  <2>4. QED
    BY <1>1, <1>2, <2>2, <2>3 DEF IInv, TypeOK, MerchantTwoState,
       ShowOnlyFollowsSubBrand
<1>6. CASE q.kind = "merchants"
  BY <1>1, <1>6 DEF Respond, MerchantsSuccess, FillSubBrandings,
     MerchantsUnchanged, SubBrandList, Request, IInv, TypeOK,
     MerchantTwoState, ShowOnlyFollowsSubBrand
<1>7. QED
  BY <1>1, <1>4, <1>5, <1>6 DEF Request, Kinds

LEMMA NextIInv == IInv /\ [Next]_vars => IInv'
<1> SUFFICES ASSUME IInv, [Next]_vars PROVE IInv'
  OBVIOUS
<1> USE DEF IInv, TypeOK, MerchantTwoState, ShowOnlyFollowsSubBrand
<1>1. CASE DocumentReady
  <2>0. merchantSel \in SUBSET Merchants
    BY OptionsType
  <2>1. pending' \subseteq Request /\ sent' \in 0 .. MaxRequests
    BY <1>1, <2>0, SendType DEF DocumentReady, Kinds
  <2>2. QED
    BY <1>1, <2>1 DEF DocumentReady
<1>2. ASSUME NEW r \in Roles, ChangeRole(r) PROVE IInv'
  <2>1. pending' \subseteq Request /\ sent' \in 0 .. MaxRequests
    BY <1>2, SendType DEF ChangeRole, Kinds
  <2>2. QED
    BY <1>2, <2>1 DEF ChangeRole
<1>3. ASSUME NEW ms \in SUBSET Merchants, ChangeMerchants(ms) PROVE IInv'
  <2>1. pending' \subseteq Request /\ sent' \in 0 .. MaxRequests
    BY <1>3, SendType DEF ChangeMerchants, Kinds
  <2>2. QED
    BY <1>3, <2>1 DEF ChangeMerchants
<1>4. ASSUME NEW q \in pending, Respond(q) PROVE IInv'
  BY <1>4, RespondIInv
<1>5. ASSUME NEW q \in pending, Fail(q) PROVE IInv'
  BY <1>5 DEF Fail
<1>6. CASE UNCHANGED vars
  BY <1>6 DEF vars
<1>7. QED
  BY <1>1, <1>2, <1>3, <1>4, <1>5, <1>6 DEF Next

\* Every reachable state of the form is well typed; in particular the
\* selected merchants are always options of the merchant select.
THEOREM TypeCorrect == Spec => []TypeOK
<1>1. Init => IInv
  BY InitIInv
<1>2. IInv /\ [Next]_vars => IInv'
  BY NextIInv
<1>3. IInv => TypeOK
  BY DEF IInv
<1>4. QED
  BY <1>1, <1>2, <1>3, PTL DEF Spec

\* Whatever order the load, role and merchants answers arrive in, and
\* whichever are lost, a disabled merchant select is empty (lines 39-47,
\* 79-81: every path that disables it empties it).
THEOREM MerchantSelectTwoState == Spec => []MerchantTwoState
<1>1. IInv => MerchantTwoState
  BY DEF IInv
<1>2. QED
  BY InitIInv, NextIInv, <1>1, PTL DEF Spec

\* The show-only checkbox is disabled exactly when the sub-brand select is
\* (lines 49-55 and 83-86 set the two together).
THEOREM ShowOnlyTracksSubBrand == Spec => []ShowOnlyFollowsSubBrand
<1>1. IInv => ShowOnlyFollowsSubBrand
  BY DEF IInv
<1>2. QED
  BY InitIInv, NextIInv, <1>1, PTL DEF Spec
=============================================================================

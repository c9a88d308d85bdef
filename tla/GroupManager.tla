---------------------------- MODULE GroupManager ----------------------------
(***************************************************************************)
(* The dropdown controller of the group-manager admin form                 *)
(* (src/base/static/js/groupManagerAdmin.js).                              *)
(*                                                                         *)
(* On document ready the page sends one request with the current role and  *)
(* merchants; a change of #id_role or #id_merchants sends another.  Every  *)
(* request is an asynchronous $.ajax call with only a success callback:    *)
(* responses may come back in any order, and a failed request never calls *)
(* back.  The callbacks run one at a time on the UI thread, so each one is *)
(* an atomic step.                                                         *)
(*                                                                         *)
(* The backend is abstracted to three functions of the role: whether it    *)
(* disables the merchant select, whether it disables the sub-brand select, *)
(* and the merchants it offers.  An option list is abstracted to the       *)
(* request it was computed for: the merchant select holds "the merchants   *)
(* of role r", the sub-brand select "the sub-brands for role r and         *)
(* merchants M", or NoOptions once emptied.                                *)
(***************************************************************************)
EXTENDS Naturals, FiniteSets

CONSTANTS
    Roles,               \* the choices of #id_role
    Merchants,           \* the merchants the backend knows
    MerchantDisabledFor, \* role -> the response's merchant_select_disabled
    SubBrandDisabledFor, \* role -> the response's sub_brand_select_disabled
    MerchantsFor,        \* role -> the response's merchants
    NoOptions,           \* an emptied select
    LossyNetwork,        \* whether a request may fail (no callback)
    MaxRequests          \* bound on the requests the page sends

ASSUME GroupManagerAssumption ==
    /\ Roles # {}
    /\ MerchantDisabledFor \in [Roles -> BOOLEAN]
    /\ SubBrandDisabledFor \in [Roles -> BOOLEAN]
    /\ MerchantsFor \in [Roles -> SUBSET Merchants]
    /\ NoOptions \notin Roles
    /\ LossyNetwork \in BOOLEAN
    /\ MaxRequests \in Nat \ {0}

VARIABLES
    ready,            \* $(document).ready has run
    role,             \* the value of #id_role
    merchantOpts,     \* the option list of #id_merchants
    merchantSel,      \* the selected merchants, $('#id_merchants').val()
    merchantDisabled, \* #id_merchants disabled
    subBrandOpts,     \* the option list of #id_sub_brandings
    subBrandDisabled, \* #id_sub_brandings disabled
    showOnlyDisabled, \* #id_show_only_sub_branding_jobs disabled
    pending,          \* requests sent whose callback has not run
    sent              \* requests sent so far

vars == <<ready, role, merchantOpts, merchantSel, merchantDisabled,
          subBrandOpts, subBrandDisabled, showOnlyDisabled, pending, sent>>

Kinds == {"load", "role", "merchants"}

Request == [id : Nat, kind : Kinds, role : Roles, merchants : SUBSET Merchants]

SubBrandList == [role : Roles, merchants : SUBSET Merchants]

\* The merchants the user can pick from the select's current options.
OptionsOf(opts) == IF opts = NoOptions THEN {} ELSE MerchantsFor[opts]

\* $.ajax(...): the request is in flight.
Send(kind, r, ms) ==
    /\ sent < MaxRequests
    /\ pending' = pending \cup
                  {[id |-> sent + 1, kind |-> kind, role |-> r, merchants |-> ms]}
    /\ sent' = sent + 1

\* Mutant: the select is disabled without .empty().
DisableMerchantNoEmpty ==
    /\ UNCHANGED <<merchantOpts, merchantSel>>
    /\ merchantDisabled' = TRUE

\* disable_merchant_multiselect(), lines 79-81.
DisableMerchantMultiselect ==
    /\ merchantOpts' = NoOptions
    /\ merchantSel' = {}
    /\ merchantDisabled' = TRUE

\* disable_sub_brand_multiselect(), lines 83-86.
DisableSubBrandMultiselect ==
    /\ subBrandOpts' = NoOptions
    /\ subBrandDisabled' = TRUE
    /\ showOnlyDisabled' = TRUE

\* fill_sub_brandings(data), lines 88-95: empty, then append the response's
\* sub-brands; the disabled attribute is left alone.
FillSubBrandings(q) ==
    subBrandOpts' = [role |-> q.role, merchants |-> q.merchants]

MerchantsUnchanged == UNCHANGED <<merchantOpts, merchantSel, merchantDisabled>>

Init ==
    /\ ready = FALSE
    /\ role \in Roles
    /\ merchantOpts = role
    /\ merchantSel \in SUBSET MerchantsFor[role]
    /\ merchantDisabled = FALSE
    /\ subBrandOpts = [role |-> role, merchants |-> merchantSel]
    /\ subBrandDisabled = FALSE
    /\ showOnlyDisabled = FALSE
    /\ pending = {}
    /\ sent = 0

\* $(document).ready, lines 2-29: send the current role and merchants.
DocumentReady ==
    /\ ~ready
    /\ ready' = TRUE
    /\ Send("load", role, merchantSel)
    /\ UNCHANGED <<role, merchantOpts, merchantSel, merchantDisabled,
                   subBrandOpts, subBrandDisabled, showOnlyDisabled>>

\* The change handler of #id_role, lines 31-37: send the new role alone.
ChangeRole(r) ==
    /\ ready
    /\ r # role
    /\ role' = r
    /\ Send("role", r, {})
    /\ UNCHANGED <<ready, merchantOpts, merchantSel, merchantDisabled,
                   subBrandOpts, subBrandDisabled, showOnlyDisabled>>

\* The change handler of #id_merchants, lines 60-70: send the role read
\* from #id_role and the new selection.  A disabled select takes no input.
ChangeMerchants(ms) ==
    /\ ready
    /\ ~merchantDisabled
    /\ ms \subseteq OptionsOf(merchantOpts)
    /\ ms # merchantSel
    /\ merchantSel' = ms
    /\ Send("merchants", role, ms)
    /\ UNCHANGED <<ready, role, merchantOpts, merchantDisabled,
                   subBrandOpts, subBrandDisabled, showOnlyDisabled>>

\* The success callback of the document-ready request, lines 18-28.
LoadSuccess(q) ==
    /\ IF MerchantDisabledFor[q.role] THEN DisableMerchantMultiselect
                                      ELSE MerchantsUnchanged
    /\ IF SubBrandDisabledFor[q.role]
       THEN DisableSubBrandMultiselect
       ELSE FillSubBrandings(q) /\ UNCHANGED <<subBrandDisabled, showOnlyDisabled>>

\* Mutant: line 52, re-enabling the show-only checkbox, is left out.
RoleSuccessNoShowOnly(q) ==
    /\ IF MerchantDisabledFor[q.role]
       THEN DisableMerchantMultiselect
       ELSE /\ merchantOpts' = q.role
            /\ merchantSel' = {}
            /\ merchantDisabled' = FALSE
    /\ IF SubBrandDisabledFor[q.role]
       THEN DisableSubBrandMultiselect
       ELSE /\ UNCHANGED showOnlyDisabled
            /\ subBrandDisabled' = FALSE
            /\ FillSubBrandings(q)

\* Mutant: line 42 appends without .empty(): the select lists the options
\* of the previous and of the new role, and keeps its selection.
RoleSuccessNoEmpty(q) ==
    /\ IF MerchantDisabledFor[q.role]
       THEN DisableMerchantMultiselect
       ELSE /\ merchantOpts' = {merchantOpts, q.role}
            /\ UNCHANGED merchantSel
            /\ merchantDisabled' = FALSE
    /\ IF SubBrandDisabledFor[q.role]
       THEN DisableSubBrandMultiselect
       ELSE /\ showOnlyDisabled' = FALSE
            /\ subBrandDisabled' = FALSE
            /\ FillSubBrandings(q)

\* The success callback of a role change, lines 38-56.
RoleSuccess(q) ==
    /\ IF MerchantDisabledFor[q.role]
       THEN DisableMerchantMultiselect
       ELSE /\ merchantOpts' = q.role
            /\ merchantSel' = {}
            /\ merchantDisabled' = FALSE
    /\ IF SubBrandDisabledFor[q.role]
       THEN DisableSubBrandMultiselect
       ELSE /\ showOnlyDisabled' = FALSE
            /\ subBrandDisabled' = FALSE
            /\ FillSubBrandings(q)

\* The success callback of a merchants change, lines 71-75.
MerchantsSuccess(q) ==
    /\ MerchantsUnchanged
    /\ IF SubBrandDisabledFor[q.role]
       THEN UNCHANGED <<subBrandOpts, subBrandDisabled, showOnlyDisabled>>
       ELSE FillSubBrandings(q) /\ UNCHANGED <<subBrandDisabled, showOnlyDisabled>>

\* A response arrives and its success callback runs.
Respond(q) ==
    /\ pending' = pending \ {q}
    /\ CASE q.kind = "load"      -> LoadSuccess(q)
         [] q.kind = "role"      -> RoleSuccess(q)
         [] q.kind = "merchants" -> MerchantsSuccess(q)
    /\ UNCHANGED <<ready, role, sent>>

\* A request fails: $.ajax has no error callback, nothing changes on the page.
Fail(q) ==
    /\ LossyNetwork
    /\ pending' = pending \ {q}
    /\ UNCHANGED <<ready, role, merchantOpts, merchantSel, merchantDisabled,
                   subBrandOpts, subBrandDisabled, showOnlyDisabled, sent>>

Next ==
    \/ DocumentReady
    \/ \E r \in Roles : ChangeRole(r)
    \/ \E ms \in SUBSET Merchants : ChangeMerchants(ms)
    \/ \E q \in pending : Respond(q) \/ Fail(q)

Spec == Init /\ [][Next]_vars

-----------------------------------------------------------------------------
TypeOK ==
    /\ ready \in BOOLEAN
    /\ role \in Roles
    /\ merchantOpts \in Roles \cup {NoOptions}
    /\ merchantSel \subseteq OptionsOf(merchantOpts)
    /\ merchantDisabled \in BOOLEAN
    /\ subBrandOpts \in SubBrandList \cup {NoOptions}
    /\ subBrandDisabled \in BOOLEAN
    /\ showOnlyDisabled \in BOOLEAN
    /\ pending \subseteq Request
    /\ sent \in 0 .. MaxRequests

(***************************************************************************)
(* Spec 4.4, the merchant select: whatever order the responses of the      *)
(* load, role and merchants requests arrive in, a disabled merchant select *)
(* is empty and has nothing selected.                                      *)
(***************************************************************************)
MerchantTwoState ==
    merchantDisabled => merchantOpts = NoOptions /\ merchantSel = {}

(***************************************************************************)
(* The "show only sub-branding jobs" checkbox is disabled exactly when the *)
(* sub-brand select is, after any interleaving of the three callbacks.     *)
(***************************************************************************)
ShowOnlyFollowsSubBrand ==
    showOnlyDisabled = subBrandDisabled

(***************************************************************************)
(* Spec 4.4, the sub-brand select: it is either enabled, or disabled and   *)
(* emptied.                                                                *)
(***************************************************************************)
SubBrandTwoState ==
    subBrandDisabled => subBrandOpts = NoOptions

(***************************************************************************)
(* Spec 4.4 and 8.2: once every response has been handled, the merchant    *)
(* select is in the state the backend prescribes for the role selected:    *)
(* disabled if it disables it, else holding that role's merchants.         *)
(***************************************************************************)
SettledMerchantsMatchRole ==
    (ready /\ pending = {}) =>
        IF MerchantDisabledFor[role] THEN merchantDisabled
        ELSE ~merchantDisabled /\ merchantOpts = role
=============================================================================

------------------------------ MODULE DriverHub ------------------------------
(***************************************************************************)
(* The driver-hub admin form, src/merchant/static/hub/driverHubAdmin.js.   *)
(* A change of the merchant select sends the merchant to /admin/driverhubs *)
(* and the success callback refills the hub and the driver selects from    *)
(* the answer.  A select's options are abstracted to the set of merchants  *)
(* whose hubs (drivers) it lists.  Requests in flight are answered in any  *)
(* order, or fail silently: the $.ajax call has no error callback.         *)
(***************************************************************************)
EXTENDS Naturals

CONSTANTS
    Merchants,      \* the merchants the select offers
    LossyNetwork,   \* whether a request may fail
    MaxRequests     \* bound on the number of merchant changes

ASSUME DriverHubAssumption ==
    /\ Merchants # {}
    /\ LossyNetwork \in BOOLEAN
    /\ MaxRequests \in Nat

VARIABLES
    merchant,   \* $('#id_merchant').val()
    hubs,       \* whose hubs the #id_hub options are
    drivers,    \* whose drivers the #id_driver options are
    pending,    \* requests sent whose callback has not run
    sent        \* requests sent so far

vars == <<merchant, hubs, drivers, pending, sent>>

Request == [id : Nat, merchant : Merchants]

\* The form as Django renders it: a merchant chosen and the hubs and
\* drivers it renders, either those of every merchant or of that merchant.
Init ==
    /\ merchant \in Merchants
    /\ hubs \in {Merchants, {merchant}}
    /\ drivers = hubs
    /\ pending = {}
    /\ sent = 0

\* The change handler of #id_merchant, lines 6-13: send the new merchant.
ChangeMerchant(m) ==
    /\ m # merchant
    /\ sent < MaxRequests
    /\ merchant' = m
    /\ pending' = pending \cup {[id |-> sent + 1, merchant |-> m]}
    /\ sent' = sent + 1
    /\ UNCHANGED <<hubs, drivers>>

\* Mutant: the hubs are read from a misspelt key (data.hub); $.each over
\* undefined appends nothing and #id_hub is left empty.
SuccessWrongKey(q) ==
    /\ hubs' = {}
    /\ drivers' = {q.merchant}

\* The success callback, lines 14-25: empty #id_hub and append the answer's
\* hubs, then empty #id_driver and append its drivers.
Success(q) ==
    /\ hubs' = {q.merchant}
    /\ drivers' = {q.merchant}

\* The answer to q arrives and its success callback runs.
Respond(q) ==
    /\ pending' = pending \ {q}
    /\ Success(q)
    /\ UNCHANGED <<merchant, sent>>

\* q fails: there is no error callback, the page does not change.
Fail(q) ==
    /\ LossyNetwork
    /\ pending' = pending \ {q}
    /\ UNCHANGED <<merchant, hubs, drivers, sent>>

Next ==
    \/ \E m \in Merchants : ChangeMerchant(m)
    \/ \E q \in pending : Respond(q) \/ Fail(q)

Spec == Init /\ [][Next]_vars

-----------------------------------------------------------------------------
(***************************************************************************)
(* The form's type: in particular each of the hub and driver selects lists *)
(* the records of some merchant (the answer's), whatever was answered or   *)
(* lost; a merchant without hubs still gives an empty list of options.    *)
(***************************************************************************)
TypeOK ==
    /\ merchant \in Merchants
    /\ hubs \in (SUBSET Merchants) \ {{}}
    /\ drivers \in (SUBSET Merchants) \ {{}}
    /\ pending \subseteq Request
    /\ sent \in 0 .. MaxRequests

=============================================================================

------------------------------- MODULE MCTenant -------------------------------
(***************************************************************************)
(* What a tenant administers and that shares no state: the two trees, accounts,   *)
(* identity providers and the throttle of logins.  The initial state chooses one   *)
(* of them; the others rest.                                                 *)
(***************************************************************************)
EXTENDS SpatialTree, ScimProvisioning, ProviderAdmin, LoginThrottle

VARIABLE tenantPart

tenantVars == <<tenantPart, treeVars, scimVars, adminVars, throttleVars>>

(* Two roots, one with a child, the other in another facility; two files whose  *)
(* rows come before their parents.                                           *)
ThreeRoots == <<[site |-> "f", parent |-> 0, path |-> <<"a">>],
                [site |-> "g", parent |-> 0, path |-> <<"b">>],
                [site |-> "f", parent |-> 1, path |-> <<"a", "c">>]>>
TwoFiles ==
  {<<<<"e", "d">>, <<"d", "c">>>>, <<<<"d", "e">>, <<"e", "d">>, <<"c", "">>>>}

(* What requests name of a provider: another issuer, another directory, a blank    *)
(* issuer, no issuer, and two that rotate the token: while SCIM is turned on, and     *)
(* while the provider is disabled.                                          *)
SixPatches ==
  {[issuer |-> "text", client_id |-> "text"], [ldap_host |-> "text", ldap_base_dn |-> "blank"],
   [issuer |-> "blank", client_id |-> "text"], [issuer |-> "null"],
   [scim |-> "on", rotate |-> "on"],
   [status |-> "DISABLED", rotate |-> "on", client_id |-> "text"]}

(* Two ways to type one name, and another name.                                *)
Folded == [Ann |-> "ann", ann |-> "ann", bob |-> "bob"]

-----------------------------------------------------------------------------
TenantInit ==
  /\ tenantPart \in {"tree", "accounts", "provider", "login"}
  /\ TreeInit /\ (tenantPart # "tree" => forest = "org")
  /\ AdminInit /\ (tenantPart # "provider" => provider = NoProvider)
  /\ ScimInit /\ ThrottleInit

TreePart == TreeNext /\ UNCHANGED <<scimVars, adminVars, throttleVars>>
AccountsPart == ScimNext /\ UNCHANGED <<treeVars, adminVars, throttleVars>>
ProviderPart == AdminNext /\ UNCHANGED <<treeVars, scimVars, throttleVars>>
LoginPart == ThrottleNext /\ UNCHANGED <<treeVars, scimVars, adminVars>>

TenantNext ==
  /\ UNCHANGED tenantPart
  /\ \/ tenantPart = "tree" /\ TreePart
     \/ tenantPart = "accounts" /\ AccountsPart
     \/ tenantPart = "provider" /\ ProviderPart
     \/ tenantPart = "login" /\ LoginPart

TenantSpec == TenantInit /\ [][TenantNext]_tenantVars

(* Every part's variables have their types.                                  *)
TenantTypesOK == TreeTypeOK /\ ScimTypeOK /\ AdminTypeOK /\ ThrottleTypeOK

(* Who may come in: accounts follow what their provider reported, the providers    *)
(* what administrators ordered, and nobody is kept out of a login but by failures    *)
(* of his own name within the window.                                         *)
IdentityIsSound == ProvisioningIsSound /\ AdminIsSound /\ ThrottleIsFair
=============================================================================

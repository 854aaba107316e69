----------------------------- MODULE MCServices ------------------------------
(***************************************************************************)
(* The instances of Secrets, Tokens and Http that TLC checks.  They share   *)
(* no state (Tokens reaches the secrets through SecretsMap), so one run     *)
(* explores them beside each other instead of their product: `focus` is     *)
(* chosen at the start, and only that component moves.                      *)
(***************************************************************************)
EXTENDS Secrets, Tokens, Http, TLC

CONSTANTS
    Focuses,    \* the components explored
    v1, v2, s1

\* One credential is granted a scope, the other none.
MCGranted == v1 :> {s1} @@ v2 :> {}

VARIABLE focus

servicesVars == <<focus, secretsVars, tokenVars, httpVars>>

\* The components that do not move stay in one initial state.
ServicesInit ==
    /\ focus \in Focuses
    /\ SecretsInit /\ (focus = "secrets" \/ file = NoFile)
    /\ TokensInit /\ (focus = "tokens" \/ ~rotates)
    /\ HttpInit

ServicesNext ==
    \/ focus = "secrets" /\ SecretsNext /\ UNCHANGED <<focus, tokenVars, httpVars>>
    \/ focus = "tokens" /\ TokensNext /\ UNCHANGED <<focus, secretsVars, httpVars>>
    \/ focus = "http" /\ HttpNext /\ UNCHANGED <<focus, secretsVars, tokenVars>>

\* HttpFairness, when that component moves.
ServicesFairness ==
    /\ \A r \in Requests :
        WF_servicesVars(focus = "http" /\ HttpWork(r) /\ UNCHANGED <<focus, secretsVars, tokenVars>>)
    /\ WF_servicesVars(focus = "http" /\ Tick /\ UNCHANGED <<focus, secretsVars, tokenVars>>)

ServicesSpec == ServicesInit /\ [][ServicesNext]_servicesVars /\ ServicesFairness

\* Every variable of the three components has its type.
ServicesTypeOK == SecretsTypeOK /\ TokensTypeOK /\ HttpTypeOK
=============================================================================

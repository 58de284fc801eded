------------------------------ MODULE MCGovernance ------------------------------
(***************************************************************************)
(* The announced changes of the contracts and the calls back into a vault. *)
(* The three modules share no state: each behaviour studies one of them,   *)
(* so that TLC adds their state spaces instead of multiplying them.  The   *)
(* calls are studied twice: with money and three calls deep while foreign  *)
(* code only calls back, and with an empty ledger and two calls deep while *)
(* it writes where it can.                                                 *)
(***************************************************************************)
EXTENDS GovernanceProps, CallStackProps, TLC

VARIABLE studied

MCInit ==
  /\ studied \in {"registry", "timelocks", "calls", "meddling"}
  /\ RegistryInit /\ TimelocksInit /\ CallInit

MCNext ==
  /\ \/ studied = "registry" /\ RegistryNext /\ UNCHANGED <<lockVars, callVars>>
     \/ studied = "timelocks" /\ TimelocksNext /\ UNCHANGED <<registryVars, callVars>>
     \/ /\ CallNext
        /\ \/ studied = "calls" /\ ~ state'.meddled
           \/ studied = "meddling" /\ state'.balance = 0 /\ Len(stack') <= 2
        /\ UNCHANGED <<registryVars, lockVars>>
  /\ UNCHANGED studied

\* A revert leads back to the state its call was made in, which TLC has been in before: states
\* that differ only in what their open calls would go back to need not be told apart.
Saveless == [n \in DOMAIN stack |-> [stack[n] EXCEPT !.saved = 0]]
MCView == <<studied, registryVars, lockVars, state, Saveless>>

MCSpec == MCInit /\ [][MCNext]_<<studied, registryVars, lockVars, callVars>>
===============================================================================

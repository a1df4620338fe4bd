------------------------------ MODULE Requests ------------------------------
(***************************************************************************)
(* The calls in flight at the control plane, of operators and of agents,   *)
(* and the value that stands where no call, object or expectation does.    *)
(***************************************************************************)
EXTENDS Naturals

CONSTANTS
    Clients,    \* calls in flight: sessions, tokens, the command line, agents
    None

\* None is no call and no version.
ASSUME NoneAssumption == None \notin Clients /\ None \notin Nat
=============================================================================

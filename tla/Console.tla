------------------------------ MODULE Console -------------------------------
(***************************************************************************)
(* A tab that shows the hub, the arenas or the models page.  The pages     *)
(* share no state that one of them changes and another one reads, so a tab *)
(* is followed on one of them.                                             *)
(***************************************************************************)
EXTENDS GymHub, Arenas, Models

VARIABLE page

consoleVars == <<hubVars, arenaVars, modelVars, page>>

Init == /\ page \in {"hub", "arenas", "models"}
        /\ HubInit /\ ArenasInit /\ ModelsInit
        /\ page # "hub" => budget = CHOOSE b \in Budgets : TRUE

Next == /\ \/ page = "hub" /\ HubNext /\ UNCHANGED <<arenaVars, modelVars>>
           \/ page = "arenas" /\ ArenasNext /\ UNCHANGED <<hubVars, modelVars>>
           \/ page = "models" /\ ModelsNext /\ UNCHANGED <<hubVars, arenaVars>>
        /\ UNCHANGED page

\* A call of the models page ends, with an answer or an error; nothing else need happen.
Spec == /\ Init /\ [][Next]_consoleVars
        /\ WF_consoleVars(page = "models" /\ MergeStep
                            /\ UNCHANGED <<hubVars, arenaVars, page>>)
=============================================================================

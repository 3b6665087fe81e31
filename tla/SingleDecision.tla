---------------------------- MODULE SingleDecision ----------------------------
(***************************************************************************)
(* What several parties that may each end the same thing promise together,  *)
(* without rows, locks, retries or crashes: whatever is ended is ended      *)
(* once, and everybody who is ever told how learns that one outcome.        *)
(***************************************************************************)
CONSTANTS Item,     \* what is to be decided
          Outcome,  \* how it may end
          Open      \* not decided yet

VARIABLES outcome,  \* an item's outcome, or Open
          told      \* the outcomes of an item that somebody was told

decisionVars == <<outcome, told>>

DecisionInit ==
  /\ outcome = [i \in Item |-> Open]
  /\ told = [i \in Item |-> {}]

Stays(i) == outcome'[i] = outcome[i]
Decides(i) == outcome[i] = Open /\ outcome'[i] \in Outcome

Silent(i) == told'[i] = told[i]
Answers(i) == outcome'[i] \in Outcome /\ told'[i] = told[i] \cup {outcome'[i]}

\* One transaction may decide several items; an item may be decided and somebody
\* told of it at once.
DecisionNext ==
  /\ outcome' \in [Item -> Outcome \cup {Open}]
  /\ told' \in [Item -> SUBSET Outcome]
  /\ \A i \in Item : Stays(i) \/ Decides(i)
  /\ \A i \in Item : Silent(i) \/ Answers(i)

DecisionSpec == DecisionInit /\ [][DecisionNext]_decisionVars
=============================================================================

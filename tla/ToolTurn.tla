------------------------------ MODULE ToolTurn ------------------------------
(***************************************************************************)
(* What the runtime promises for one assistant turn: every tool_use block  *)
(* is answered exactly once, and the calls behave as if they had run one   *)
(* after another in the order the model wrote them.  Two calls commute     *)
(* when both declare themselves concurrency-safe; only such calls may be   *)
(* in progress together or out of order.  The agent loop relies on nothing *)
(* else about the orchestrator.                                            *)
(***************************************************************************)
EXTENDS Naturals

CONSTANT N  \* number of tool_use blocks in the turn

Slot == 1 .. N

VARIABLES
  safe,      \* the slots whose call declares itself concurrency-safe
  active,    \* the slots being worked on
  answered   \* the slots that have their tool_result

turnVars == <<safe, active, answered>>

TurnTypeOK ==
  /\ safe \subseteq Slot
  /\ active \subseteq Slot
  /\ answered \subseteq Slot

Commute(k, m) == k \in safe /\ m \in safe

TurnInit ==
  /\ safe \in SUBSET Slot
  /\ active = {}
  /\ answered = {}

(* Some unanswered calls begin: nothing they do not commute with may be    *)
(* unanswered before them in the turn, nor begin with them.                *)
Begin(S) ==
  /\ S # {}
  /\ S \cap (active \cup answered) = {}
  /\ \A k \in S : \A m \in 1 .. (k - 1) : Commute(k, m) \/ m \in answered
  /\ active' = active \cup S
  /\ UNCHANGED <<safe, answered>>

Answer(k) ==
  /\ k \in active
  /\ active' = active \ {k}
  /\ answered' = answered \cup {k}
  /\ UNCHANGED safe

TurnNext ==
  \/ \E S \in SUBSET Slot : Begin(S)
  \/ \E k \in Slot : Answer(k)

TurnSpec == TurnInit /\ [][TurnNext]_turnVars
=============================================================================

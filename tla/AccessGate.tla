----------------------------- MODULE AccessGate -----------------------------
(***************************************************************************)
(* What the login of an incoming connection promises the owner of the      *)
(* machine, and nothing of how it is done: the gate of a connection opens  *)
(* at most once, only for a viewer who proved a password, redeemed a       *)
(* Switch Sides token or was let in by the owner, and only when the second *)
(* factor was not asked for or was given.                                  *)
(***************************************************************************)
CONSTANT Conns

VARIABLES
    gate,    \* "shut" before the session, "open" during it, "closed" for ever
    basis,   \* what the viewer may come in on
    factor,  \* the state of the second factor
    agreed   \* the connections whose viewer the owner has agreed to

gateVars == <<gate, basis, factor, agreed>>

Init ==
    /\ gate = [c \in Conns |-> "shut"]
    /\ basis = [c \in Conns |-> "none"]
    /\ factor = [c \in Conns |-> "unread"]
    /\ agreed = {}

OwnerAgrees(c) ==
    /\ agreed' = agreed \cup {c}
    /\ UNCHANGED <<gate, basis, factor>>

Admit(c) ==
    /\ gate[c] = "shut"
    /\ basis[c] = "none"
    /\ \E b \in {"password", "switch", "approved"} :
          /\ b = "approved" => c \in agreed
          /\ basis' = [basis EXCEPT ![c] = b]
    /\ UNCHANGED <<gate, factor, agreed>>

AskFactor(c) ==
    /\ gate[c] = "shut"
    /\ basis[c] # "none"
    /\ factor[c] = "unread"
    /\ factor' \in {[factor EXCEPT ![c] = f] : f \in {"off", "required"}}
    /\ UNCHANGED <<gate, basis, agreed>>

ProveFactor(c) ==
    /\ gate[c] = "shut"
    /\ factor[c] = "required"
    /\ factor' = [factor EXCEPT ![c] = "verified"]
    /\ UNCHANGED <<gate, basis, agreed>>

Open(c) ==
    /\ gate[c] = "shut"
    /\ basis[c] # "none"
    /\ factor[c] \in {"off", "verified"}
    /\ gate' = [gate EXCEPT ![c] = "open"]
    /\ UNCHANGED <<basis, factor, agreed>>

\* Any set of gates at once: the process behind them may die.
Close ==
    /\ \E cs \in SUBSET Conns :
          gate' = [c \in Conns |-> IF c \in cs THEN "closed" ELSE gate[c]]
    /\ UNCHANGED <<basis, factor, agreed>>

Next ==
    \/ Close
    \/ \E c \in Conns :
          OwnerAgrees(c) \/ Admit(c) \/ AskFactor(c) \/ ProveFactor(c) \/ Open(c)

Spec == Init /\ [][Next]_gateVars
=============================================================================

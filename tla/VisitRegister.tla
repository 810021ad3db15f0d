---------------------------- MODULE VisitRegister ----------------------------
(***************************************************************************)
(* What the visitor service promises: a register of visits with room for   *)
(* MaxActiveVisits at a time, at most MaxRedemptionsPerCode check-ins per  *)
(* code however long the service runs, and visits that only the holder of  *)
(* their receipt can end.                                                  *)
(***************************************************************************)
EXTENDS Naturals, FiniteSets

CONSTANTS VisitId, Code, MaxActiveVisits, MaxRedemptionsPerCode

VARIABLES
    open,    \* visits in progress
    closed,  \* visits that ended
    held,    \* visits whose receipt is in their visitor's hands
    used     \* check-ins made with each code

registerVars == <<open, closed, held, used>>

Init ==
    /\ open = {}
    /\ closed = {}
    /\ held = {}
    /\ used = [c \in Code |-> 0]

Admit(v, c) ==
    /\ v \notin open \cup closed
    /\ Cardinality(open) < MaxActiveVisits
    /\ used[c] < MaxRedemptionsPerCode
    /\ open' = open \cup {v}
    /\ used' = [used EXCEPT ![c] = @ + 1]
    /\ UNCHANGED <<closed, held>>

HandOver(v) ==
    /\ v \in open \ held
    /\ held' = held \cup {v}
    /\ UNCHANGED <<open, closed, used>>

Leave(v) ==
    /\ v \in open \cap held
    /\ open' = open \ {v}
    /\ closed' = closed \cup {v}
    /\ UNCHANGED <<held, used>>

Next ==
    \E v \in VisitId :
        \/ \E c \in Code : Admit(v, c)
        \/ HandOver(v)
        \/ Leave(v)

Spec == Init /\ [][Next]_registerVars
=============================================================================

---------------------------- MODULE MCLongHorizon ---------------------------
(* Two users; small instances of LongHorizon.                              *)
EXTENDS LongHorizon

CONSTANTS u1, u2

MCUser == {u1, u2}

\* Goals of one user, an input of another that cannot be one, other messages.
MCMessage == {[user |-> u1, goal |-> TRUE], [user |-> u2, goal |-> FALSE],
              [user |-> None, goal |-> FALSE]}

\* The contract changes with a completion that is refused for it.
MCDecision ==
  {[next |-> "cli", contract |-> FALSE], [next |-> "ask", contract |-> FALSE],
   [next |-> "done", contract |-> TRUE], [next |-> "done", contract |-> FALSE]}
=============================================================================

---------------------------- MODULE TaskExecution ----------------------------
(***************************************************************************)
(* What the client of a task graph is promised, whatever goes on inside:   *)
(* an executor is called at most once for an attempt, attempts follow one  *)
(* another, a node is neither called nor answered for before enough of its *)
(* inputs are there, a result stays, a node given up is left alone, and    *)
(* the outcome of the task is "done" only with every result, and is final  *)
(* unless the user's answer to an approval came when the task was ending.  *)
(* It knows of no leases, retries, runs or crashes; TaskGraphProperties    *)
(* states how TaskGraphRuntime implements it.                              *)
(***************************************************************************)
EXTENDS Naturals, FiniteSets

CONSTANTS
  Nodes, Attempts,
  Inputs,          \* node -> nodes it takes input from
  Least,           \* node -> number of its inputs it cannot do without
  Approvals        \* may the user answer a node that waits for an approval?

VARIABLES
  calls,           \* [node][attempt] -> calls of the executor
  results,         \* nodes that have a result
  abandoned,       \* nodes that were given up
  outcome          \* of the task

vars == <<calls, results, abandoned, outcome>>

Init ==
  /\ calls = [n \in Nodes |-> [a \in Attempts |-> 0]]
  /\ results = {} /\ abandoned = {}
  /\ outcome = "open"

Supplied(n) == Cardinality(Inputs[n] \cap results) >= Least[n]

Call(n, a) ==
  /\ n \notin results \cup abandoned /\ outcome = "open" /\ Supplied(n)
  /\ \A b \in Attempts : b >= a => calls[n][b] = 0
  /\ calls' = [calls EXCEPT ![n][a] = 1]
  /\ UNCHANGED <<results, abandoned, outcome>>

\* A result of the last call, or one that stands in for it (a downgrade).
Answer(n) ==
  /\ n \notin results \cup abandoned /\ outcome = "open" /\ Supplied(n)
  /\ results' = results \cup {n}
  /\ UNCHANGED <<calls, abandoned, outcome>>

GiveUp(n) ==
  /\ n \notin results \cup abandoned /\ outcome = "open"
  /\ \E a \in Attempts : calls[n][a] > 0
  /\ abandoned' = abandoned \cup {n}
  /\ UNCHANGED <<calls, results, outcome>>

End(o) ==
  /\ outcome = "open"
  /\ o = "done" => results = Nodes
  /\ outcome' = o
  /\ UNCHANGED <<calls, results, abandoned>>

Reopen ==
  /\ Approvals /\ outcome # "open"
  /\ outcome' = "open"
  /\ UNCHANGED <<calls, results, abandoned>>

Next ==
  \/ Reopen
  \/ \E n \in Nodes : Answer(n) \/ GiveUp(n) \/ \E a \in Attempts : Call(n, a)
  \/ \E o \in {"done", "failed"} : End(o)

Spec == Init /\ [][Next]_vars
=============================================================================

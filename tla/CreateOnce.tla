------------------------------ MODULE CreateOnce ------------------------------
(***************************************************************************)
(* What the host execution registry promises for one stable dispatch       *)
(* effect, stated without processes, claims, leases or messages: there is  *)
(* one right to create, spending it yields at most one execution, a spent  *)
(* right comes back only while nothing was made from it, and once the      *)
(* execution is bound to the effect the fact is final.                     *)
(***************************************************************************)
CONSTANTS Effects,      \* stable dispatch effect ids
          Executions    \* identities the platform may give an execution

VARIABLES right,        \* effect -> where its one create right is
          made          \* effect -> the executions the platform holds for it

vars == <<right, made>>

Init ==
  /\ right = [e \in Effects |-> "free"]
  /\ made = [e \in Effects |-> {}]

\* The right leaves the registry: some process may now hand the request over.
Spend(e) ==
  /\ right[e] = "free"
  /\ made[e] = {}
  /\ right' = [right EXCEPT ![e] = "spent"]
  /\ UNCHANGED made

\* The platform makes the one execution of a spent right.
Make(e, x) ==
  /\ right[e] = "spent"
  /\ made[e] = {}
  /\ made' = [made EXCEPT ![e] = {x}]
  /\ UNCHANGED right

\* A right from which nothing was made may be spent again.
GiveBack(e) ==
  /\ right[e] = "spent"
  /\ made[e] = {}
  /\ right' = [right EXCEPT ![e] = "free"]
  /\ UNCHANGED made

\* The effect is bound to the execution that was made; nothing follows.
Bind(e) ==
  /\ right[e] = "spent"
  /\ made[e] # {}
  /\ right' = [right EXCEPT ![e] = "bound"]
  /\ UNCHANGED made

Next ==
  \E e \in Effects :
    \/ Spend(e)
    \/ \E x \in Executions : Make(e, x)
    \/ GiveBack(e)
    \/ Bind(e)

Spec == Init /\ [][Next]_vars
===============================================================================

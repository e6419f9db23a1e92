---------------------------- MODULE AttemptFates ----------------------------
(***************************************************************************)
(* What the ledger of a graph promises about its attempts, stated without  *)
(* processes, calls, snapshots, effects or credentials: an attempt comes   *)
(* into being once, for one node of one run; while its run is the current  *)
(* one it is accepted, stopped or replaced; an accepted one stays          *)
(* accepted and a replaced one replaced; a node has one undecided attempt  *)
(* at most; and a run is followed by another only when nothing of it is    *)
(* open.                                                                   *)
(***************************************************************************)
EXTENDS Naturals

CONSTANTS Nodes,      \* positions in the compiled plan
          Attempts    \* attempt numbers

VARIABLES run,        \* the current run, 0 before the first
          runOf,      \* attempt -> its run, 0 if there is no such attempt yet
          nodeOf,     \* attempt -> its node
          fate        \* attempt -> "none", "open", "stopped", "replaced" or "accepted"

vars == <<run, runOf, nodeOf, fate>>

Init ==
    /\ run = 0
    /\ runOf = [a \in Attempts |-> 0]
    /\ nodeOf = [a \in Attempts |-> 0]
    /\ fate = [a \in Attempts |-> "none"]

Of(r) == {a \in Attempts : runOf[a] = r}

(* No result is bound to the attempt and no other took its place. *)
Undecided(a) == fate[a] \in {"open", "stopped"}

(* The attempts that `place' sends to nodes, each to one of its own, come  *)
(* into being in run r, and `ended' is what became of the others.          *)
Dispatch(r, place, ended) ==
    /\ \A a \in DOMAIN place : fate[a] = "none"
    /\ \A a, b \in DOMAIN place : place[a] = place[b] => a = b
    /\ runOf' = [a \in Attempts |-> IF a \in DOMAIN place THEN r ELSE runOf[a]]
    /\ nodeOf' = [a \in Attempts |-> IF a \in DOMAIN place THEN place[a] ELSE nodeOf[a]]
    /\ fate' = [a \in Attempts |-> IF a \in DOMAIN place THEN "open" ELSE ended[a]]

(* The first run, or the re-execution of a run in which nothing is open. *)
Begin(place) ==
    /\ \A a \in Of(run) : fate[a] # "open"
    /\ DOMAIN place # {}
    /\ run' = run + 1
    /\ Dispatch(run + 1, place, fate)

(* An open attempt's result is accepted, and nodes without an undecided    *)
(* attempt are dispatched.                                                 *)
Accept(a, place) ==
    /\ a \in Of(run)
    /\ fate[a] = "open"
    /\ \A b \in DOMAIN place : \A c \in Of(run) \ {a} :
          nodeOf[c] = place[b] => ~ Undecided(c)
    /\ Dispatch(run, place, [fate EXCEPT ![a] = "accepted"])
    /\ UNCHANGED run

(* A command ends open attempts of the current run. *)
Stop(A) ==
    /\ A \subseteq Of(run)
    /\ \A a \in A : fate[a] = "open"
    /\ fate' = [a \in Attempts |-> IF a \in A THEN "stopped" ELSE fate[a]]
    /\ UNCHANGED <<run, runOf, nodeOf>>

(* A retry: b takes over the node of a. *)
Replace(a, b) ==
    /\ a \in Of(run)
    /\ Undecided(a)
    /\ Dispatch(run, [c \in {b} |-> nodeOf[a]], [fate EXCEPT ![a] = "replaced"])
    /\ UNCHANGED run

Placements == UNION {[A -> Nodes] : A \in SUBSET Attempts}

Next ==
    \/ \E place \in Placements : Begin(place)
    \/ \E a \in Attempts, place \in Placements : Accept(a, place)
    \/ \E A \in SUBSET Attempts : Stop(A)
    \/ \E a, b \in Attempts : Replace(a, b)

Spec == Init /\ [][Next]_vars
=============================================================================

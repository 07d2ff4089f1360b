------------------------------ MODULE BatchMap ------------------------------
(***************************************************************************)
(* What a caller of process_items (util.py) is promised, whatever the way  *)
(* the items are run: the function is begun at most once on each item, an  *)
(* answer is delivered once and only after the call that produced it has   *)
(* ended, the call returns only with an answer for every item, and neither *)
(* returning nor raising leaves a call of the function in flight.          *)
(***************************************************************************)
EXTENDS Naturals

CONSTANT Universe       \* everything that can be an item of a batch

VARIABLES
    items,              \* the items of this batch
    begun,              \* the items the function was called on
    inflight,           \* the items the function is being called on
    answered,           \* the items whose result the caller will get
    outcome             \* "running", "returned" or "raised"

vars == <<items, begun, inflight, answered, outcome>>

Init ==
    /\ items \in SUBSET Universe
    /\ begun = {}
    /\ inflight = {}
    /\ answered = {}
    /\ outcome = "running"

Begin(i) ==
    /\ outcome = "running"
    /\ i \in items \ begun
    /\ begun' = begun \cup {i}
    /\ inflight' = inflight \cup {i}
    /\ UNCHANGED <<items, answered, outcome>>

(***************************************************************************)
(* Calls end: one by one when they return or raise, several at once when   *)
(* the processes that run them are killed.                                 *)
(***************************************************************************)
End(S) ==
    /\ outcome = "running"
    /\ S # {}
    /\ S \subseteq inflight
    /\ inflight' = inflight \ S
    /\ UNCHANGED <<items, begun, answered, outcome>>

Answer(i) ==
    /\ outcome = "running"
    /\ i \in begun \ (inflight \cup answered)
    /\ answered' = answered \cup {i}
    /\ UNCHANGED <<items, begun, inflight, outcome>>

Return ==
    /\ outcome = "running"
    /\ answered = items
    /\ inflight = {}
    /\ outcome' = "returned"
    /\ UNCHANGED <<items, begun, inflight, answered>>

Raise ==
    /\ outcome = "running"
    /\ inflight = {}
    /\ outcome' = "raised"
    /\ UNCHANGED <<items, begun, inflight, answered>>

Next ==
    \/ \E i \in items : Begin(i) \/ Answer(i)
    \/ \E S \in SUBSET inflight : End(S)
    \/ Return
    \/ Raise

Spec == Init /\ [][Next]_vars
=============================================================================

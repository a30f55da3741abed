-------------------------- MODULE EvidencePromise --------------------------
(***************************************************************************)
(* What the header of agents/executor.py promises whoever answers one      *)
(* question with the deterministic tools, with no key, no index and no     *)
(* ledger: only which operations have been performed.                      *)
(*                                                                         *)
(*   - an operation is performed at most once; asking for it again, in     *)
(*     other words too, gives what the first performance gave;             *)
(*   - an operation that has been performed never fails afterwards;        *)
(*   - a failure establishes nothing, so that the operation may be tried   *)
(*     again.                                                              *)
(***************************************************************************)
CONSTANT Operations     \* a tool and the clubs, not the words, it is about

VARIABLES
    performed,  \* the operations performed so far
    told        \* the outcome of the latest call

vars == <<performed, told>>

Init ==
    /\ performed = {}
    /\ told = [kind |-> "none"]

Perform(op) ==
    /\ op \notin performed
    /\ performed' = performed \cup {op}
    /\ told' = [kind |-> "evidence", about |-> op]

Reuse(op) ==
    /\ op \in performed
    /\ told' = [kind |-> "evidence", about |-> op]
    /\ UNCHANGED performed

Fail(op) ==
    /\ op \notin performed
    /\ told' = [kind |-> "failure", about |-> op]
    /\ UNCHANGED performed

Crash(op) ==
    /\ op \notin performed
    /\ told' = [kind |-> "crash", about |-> op]
    /\ UNCHANGED performed

\* The call names no operation.
Refuse ==
    /\ told' = [kind |-> "refusal"]
    /\ UNCHANGED performed

Next ==
    \/ \E op \in Operations : Perform(op) \/ Reuse(op) \/ Fail(op) \/ Crash(op)
    \/ Refuse

Spec == Init /\ [][Next]_vars
=============================================================================

------------------------------ MODULE OnceEach ------------------------------
(****************************************************************************)
(* What a task promises of its units when it acts on them through an API    *)
(* that may lose, delay or repeat what is said: a unit takes effect at most *)
(* once, is known only after it did, and the task is complete only once     *)
(* every unit is known.                                                     *)
(****************************************************************************)
EXTENDS Naturals

CONSTANTS Units

VARIABLES applied,   \* how often each unit took effect
          known,     \* the units recorded as done
          complete   \* the task completed

vars == <<applied, known, complete>>

Init == applied = [u \in Units |-> 0] /\ known = {} /\ complete = FALSE

Apply(S) == /\ S # {} /\ \A u \in S : applied[u] = 0
            /\ applied' = [u \in Units |-> IF u \in S THEN 1 ELSE applied[u]]
            /\ UNCHANGED <<known, complete>>

Learn(u) == /\ applied[u] = 1 /\ u \notin known
            /\ known' = known \cup {u}
            /\ UNCHANGED <<applied, complete>>

Complete == /\ known = Units /\ complete' = TRUE
            /\ UNCHANGED <<applied, known>>

Next == \/ \E S \in SUBSET Units : Apply(S)
        \/ \E u \in Units : Learn(u)
        \/ Complete

Spec == Init /\ [][Next]_vars
=============================================================================

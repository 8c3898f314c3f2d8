------------------------------- MODULE OnceOnly -------------------------------
(***************************************************************************)
(* What a call that may be sent any number of times promises its callers:  *)
(* it is decided at most once, and whoever is told an outcome is told that *)
(* one.  A caller may also be put off, and ask again.  This is the promise *)
(* of an Idempotency-Key (http/idempotency.ts) and of a queue entry's id   *)
(* (modules/sync/handlers.ts).                                             *)
(***************************************************************************)
CONSTANTS Callers, Results, None, PutOff
VARIABLES result, told

Init == result = None /\ told = [c \in Callers |-> None]

Decide == /\ result = None
          /\ result' \in Results
          /\ UNCHANGED told

Tell(c) == /\ told[c] = None /\ result # None
           /\ told' = [told EXCEPT ![c] = result]
           /\ UNCHANGED result

Defer(c) == /\ told[c] = None
            /\ told' = [told EXCEPT ![c] = PutOff]
            /\ UNCHANGED result

Next == Decide \/ \E c \in Callers : Tell(c) \/ Defer(c)

Spec == Init /\ [][Next]_<<result, told>>
=============================================================================

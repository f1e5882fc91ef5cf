--------------------------- MODULE DispatchPromise ---------------------------
(***************************************************************************)
(* What the dispatch runner promises (src/runtime/runner.py, module        *)
(* docstring): every event that is delivered is settled, once and for all, *)
(* as completed or as dead_lettered, and it is completed only if its       *)
(* handler ran to the end.                                                 *)
(***************************************************************************)
CONSTANT Events

VARIABLES fate,      \* Events -> "open", "completed" or "dead_lettered"
          handled    \* events whose handler has run to the end

vars == <<fate, handled>>

Init == /\ fate = [e \in Events |-> "open"]
        /\ handled = {}

Handle(e) ==
  /\ handled' = handled \cup {e}
  /\ UNCHANGED fate

Settle(e, verdict) ==
  /\ fate[e] = "open"
  /\ fate' = [fate EXCEPT ![e] = verdict]
  /\ UNCHANGED handled

Complete(e) == e \in handled /\ Settle(e, "completed")
Bury(e)     == Settle(e, "dead_lettered")

Next == \E e \in Events : Handle(e) \/ Complete(e) \/ Bury(e)

Spec == Init /\ [][Next]_vars /\ \A e \in Events : WF_vars(Complete(e) \/ Bury(e))
=============================================================================

---------------------------- MODULE ApprovalGate ----------------------------
(***************************************************************************)
(* What the negotiation component promises (src/agents/negotiation/        *)
(* drafts.py, module docstring): a draft moves                             *)
(*                                                                         *)
(*     draft -> pending_approval -> approved -> send_logged                *)
(*                                                                         *)
(* along no other edge, and carries the name of the human who approved it  *)
(* from the approval on.  Each promise is one atomic step; the component   *)
(* that keeps it (Negotiation) takes several.                              *)
(***************************************************************************)
CONSTANTS Drafts,   \* stable draft ids, one per (deal, finding, kind)
          Users,    \* humans who may approve
          None      \* "no draft", "no approver"

VARIABLE draft      \* Drafts -> a draft record, or None before it exists

\* The edges of the state machine.
NextState == [draft            |-> "pending_approval",
              pending_approval |-> "approved",
              approved         |-> "send_logged"]

Init == draft = [d \in Drafts |-> None]

Open(d) ==
  /\ draft[d] = None
  /\ draft' = [draft EXCEPT ![d] = [state |-> "draft", approvedBy |-> None]]

Move(d, from, approver) ==
  /\ draft[d] # None
  /\ draft[d].state = from
  /\ draft' = [draft EXCEPT ![d] = [state |-> NextState[from], approvedBy |-> approver]]

Submit(d)     == Move(d, "draft", None)
Approve(d, u) == Move(d, "pending_approval", u)
Send(d)       == Move(d, "approved", draft[d].approvedBy)

Next == \E d \in Drafts :
          \/ Open(d)
          \/ Submit(d)
          \/ \E u \in Users : Approve(d, u)
          \/ Send(d)

Spec == Init /\ [][Next]_draft
=============================================================================

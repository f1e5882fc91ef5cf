----------------------------- MODULE Negotiation -----------------------------
(***************************************************************************)
(* Negotiation drafts behind the human approval gate:                      *)
(* src/agents/negotiation/drafts.py and store.py, called from the dashboard*)
(* endpoints of src/dashboard/api/app.py.                                  *)
(*                                                                         *)
(* The endpoints are plain functions, so the server runs them in a pool of *)
(* threads: a worker serves one request at a time, and requests of several *)
(* workers interleave at every Firestore call.  No call of this component  *)
(* is transactional: a transition is a get, a check and a later set of the *)
(* whole document, followed by the append of its audit event.              *)
(***************************************************************************)
EXTENDS Naturals, Sequences

CONSTANTS Drafts,       \* stable draft ids: one per (deal, finding, kind)
          Users,        \* humans who approve
          Workers,      \* threads that serve requests
          None,         \* "no document", "no approver", "no snapshot"
          MaxRequests   \* bound: requests served in one behaviour

ASSUME RequestsAssumption == MaxRequests \in Nat

VARIABLES
  finding,    \* Drafts -> the finding behind the draft, by its confidence
  docs,       \* Drafts -> deals/{deal}/negotiations/{draft}, None if absent
  log,        \* Drafts -> the negotiation.transition events, in seq order
  pc,         \* Workers -> the next Firestore call of the request
  job,        \* Workers -> the request: draft, target state, approver
  snap,       \* Workers -> the document _transition read, None for create
  served,     \* requests accepted so far
  asked       \* history: <<draft, user>> for every approve request posted

vars == <<finding, docs, log, pc, job, snap, served, asked>>

-----------------------------------------------------------------------------
States == {"draft", "pending_approval", "approved", "send_logged"}

\* Mutants: a draft may leave without approval; a sent one may be approved again.
AllowedUnapprovedSend == {<<"draft", "pending_approval">>,
                          <<"pending_approval", "approved">>,
                          <<"pending_approval", "send_logged">>,
                          <<"approved", "send_logged">>}
AllowedReapproval == {<<"draft", "pending_approval">>,
                      <<"pending_approval", "approved">>,
                      <<"approved", "send_logged">>,
                      <<"send_logged", "approved">>}

\* _ALLOWED_NEXT: the only edge out of each state; send_logged has none.
Allowed == {<<"draft", "pending_approval">>,
            <<"pending_approval", "approved">>,
            <<"approved", "send_logged">>}

Confidence == {"absent", "below", "above"}   \* against the 0.75 threshold

Doc   == [state : States, approvedBy : Users \cup {None}]
Event == [from : States \cup {None}, to : States, actor : Users \cup {None}]

ASSUME NoneAssumption == None \notin Users \cup Doc

Job   == [draft : Drafts, target : States, approver : Users \cup {None}]

Steps == {"idle", "finding", "lookup", "create", "get", "write", "emit"}

TypeOK ==
  /\ finding \in [Drafts -> Confidence]
  /\ docs \in [Drafts -> Doc \cup {None}]
  /\ log \in [Drafts -> Seq(Event)]
  /\ pc \in [Workers -> Steps]
  /\ job \in [Workers -> Job \cup {None}]
  /\ snap \in [Workers -> Doc \cup {None}]
  /\ served \in Nat
  /\ asked \subseteq Drafts \X Users

Init ==
  /\ finding = [d \in Drafts |-> "absent"]
  /\ docs = [d \in Drafts |-> None]
  /\ log = [d \in Drafts |-> << >>]
  /\ pc = [w \in Workers |-> "idle"]
  /\ job = [w \in Workers |-> None]
  /\ snap = [w \in Workers |-> None]
  /\ served = 0
  /\ asked = {}

-----------------------------------------------------------------------------
(* The specialists write findings while requests run (FindingsStore.create)*)
CreateFinding(d, c) ==
  /\ finding[d] = "absent"
  /\ finding' = [finding EXCEPT ![d] = c]
  /\ UNCHANGED <<docs, log, pc, job, snap, served, asked>>

(* A free worker takes a request; the endpoint's first call comes next.    *)
Accept(w, step, d, target, approver) ==
  /\ pc[w] = "idle"
  /\ served < MaxRequests
  /\ served' = served + 1
  /\ pc' = [pc EXCEPT ![w] = step]
  /\ job' = [job EXCEPT ![w] = [draft |-> d, target |-> target, approver |-> approver]]
  /\ UNCHANGED <<finding, docs, log, snap>>

PostDraft(w, d)      == Accept(w, "finding", d, "draft", None) /\ UNCHANGED asked
PostApprove(w, d, u) == Accept(w, "get", d, "approved", u) /\ asked' = asked \cup {<<d, u>>}
PostSend(w, d)       == Accept(w, "get", d, "send_logged", None) /\ UNCHANGED asked

\* The request ends, with an answer or with an exception.
Return(w) ==
  /\ pc' = [pc EXCEPT ![w] = "idle"]
  /\ job' = [job EXCEPT ![w] = None]
  /\ snap' = [snap EXCEPT ![w] = None]

Goto(w, step) == pc' = [pc EXCEPT ![w] = step]

\* Mutant: the gate compares with the wrong side of the threshold.
ReadFindingNoGate(w) ==
  /\ pc[w] = "finding"
  /\ IF finding[job[w].draft] # "absent"
     THEN Goto(w, "lookup") /\ UNCHANGED <<job, snap>>
     ELSE Return(w)
  /\ UNCHANGED <<finding, docs, log, served, asked>>

(* generate_draft, first call: the finding, and the confidence gate.       *)
ReadFinding(w) ==
  /\ pc[w] = "finding"
  /\ IF finding[job[w].draft] = "above"
     THEN Goto(w, "lookup") /\ UNCHANGED <<job, snap>>
     ELSE Return(w)                     \* FindingNotFound or DraftRefused
  /\ UNCHANGED <<finding, docs, log, served, asked>>

\* Mutant: regeneration does not look for the stored draft.
LookupRegenerates(w) ==
  /\ pc[w] = "lookup"
  /\ Goto(w, "create")
  /\ UNCHANGED <<finding, docs, log, job, snap, served, asked>>

(* generate_draft, second call: a stored draft is returned as it is, and   *)
(* the endpoint submits it if it is still in state draft.                  *)
Lookup(w) ==
  LET doc == docs[job[w].draft] IN
  /\ pc[w] = "lookup"
  /\ \/ /\ doc = None
        /\ Goto(w, "create")
        /\ UNCHANGED <<job, snap>>
     \/ /\ doc # None
        /\ doc.state = "draft"
        /\ Goto(w, "get")
        /\ job' = [job EXCEPT ![w].target = "pending_approval"]
        /\ UNCHANGED snap
     \/ /\ doc # None
        /\ doc.state # "draft"
        /\ Return(w)
  /\ UNCHANGED <<finding, docs, log, served, asked>>

(* NegotiationStore.create: an unconditional set.                          *)
Create(w) ==
  /\ pc[w] = "create"
  /\ docs' = [docs EXCEPT ![job[w].draft] = [state |-> "draft", approvedBy |-> None]]
  /\ Goto(w, "emit")
  /\ UNCHANGED <<finding, log, job, snap, served, asked>>

(* _transition, first call: the document, and the edge it allows.          *)
Get(w) ==
  LET doc == docs[job[w].draft] IN
  /\ pc[w] = "get"
  /\ \/ /\ doc # None
        /\ <<doc.state, job[w].target>> \in Allowed
        /\ snap' = [snap EXCEPT ![w] = doc]
        /\ Goto(w, "write")
        /\ UNCHANGED job
     \/ /\ \/ doc = None                \* DraftNotFound
           \/ doc # None /\ <<doc.state, job[w].target>> \notin Allowed
        /\ Return(w)
  /\ UNCHANGED <<finding, docs, log, served, asked>>

\* Mutant: the approver of this request replaces the recorded one, even by none.
AdvancedForgets(doc, target, approver) == [state |-> target, approvedBy |-> approver]

\* replace(draft, state=target, approved_by=...): from the snapshot, not
\* from the document as it is when the write happens.
Advanced(doc, target, approver) ==
  [state |-> target,
   approvedBy |-> IF approver # None THEN approver ELSE doc.approvedBy]

(* NegotiationStore.update: documents are never deleted, so its check that *)
(* the document exists always passes and the set is unconditional.         *)
Write(w) ==
  /\ pc[w] = "write"
  /\ docs' = [docs EXCEPT ![job[w].draft] = Advanced(snap[w], job[w].target, job[w].approver)]
  /\ Goto(w, "emit")
  /\ UNCHANGED <<finding, log, job, snap, served, asked>>

\* The audit event of the request's transition; a new draft comes from None.
TransitionEvent(w) ==
  [from  |-> IF snap[w] = None THEN None ELSE snap[w].state,
   to    |-> job[w].target,
   actor |-> job[w].approver]

(* _emit_transition, then the end of the request: the endpoint that has    *)
(* just created a draft goes on to submit it.                              *)
Emit(w) ==
  /\ pc[w] = "emit"
  /\ log' = [log EXCEPT ![job[w].draft] = Append(@, TransitionEvent(w))]
  /\ IF job[w].target = "draft"
     THEN /\ Goto(w, "get")
          /\ job' = [job EXCEPT ![w].target = "pending_approval"]
          /\ UNCHANGED snap
     ELSE Return(w)
  /\ UNCHANGED <<finding, docs, served, asked>>

(* A Firestore call raises, or the process dies: the request is gone and   *)
(* whatever it already wrote stays.                                        *)
Abort(w) ==
  /\ pc[w] # "idle"
  /\ Return(w)
  /\ UNCHANGED <<finding, docs, log, served, asked>>

Step(w) == ReadFinding(w) \/ Lookup(w) \/ Create(w) \/ Get(w) \/ Write(w) \/ Emit(w)

Next ==
  \/ \E d \in Drafts, c \in {"below", "above"} : CreateFinding(d, c)
  \/ \E w \in Workers :
       \/ \E d \in Drafts :
            \/ PostDraft(w, d)
            \/ \E u \in Users : PostApprove(w, d, u)
            \/ PostSend(w, d)
       \/ Step(w)
       \/ Abort(w)

Spec == Init /\ [][Next]_vars

-----------------------------------------------------------------------------
(* PROPERTIES                                                              *)

(* Whatever the interleaving, a document that says approved or send_logged *)
(* names a human, and that human did post an approval of this very draft:  *)
(* a stale snapshot may move a document back and forth, but it never makes *)
(* an approval up and never loses the approver (_transition copies the     *)
(* approver from the document it read).                                    *)
HumanApproval ==
  \A d \in Drafts :
    docs[d] # None /\ docs[d].state \in {"approved", "send_logged"}
      => <<d, docs[d].approvedBy>> \in asked

(* A draft exists only for a finding at or above the candidate threshold,  *)
(* with the finding written by specialists while requests are running.     *)
ConfidenceGate == \A d \in Drafts : docs[d] # None => finding[d] = "above"

(* The audit trail does not lie: an approval event names a human who asked *)
(* for it, and a send event is of a draft some human approved before.      *)
AuditTruthful ==
  \A d \in Drafts : \A i \in DOMAIN log[d] :
    /\ log[d][i].to = "approved" => <<d, log[d][i].actor>> \in asked
    /\ log[d][i].to = "send_logged" => \E u \in Users : <<d, u>> \in asked

(* With requests served one at a time the component is the approval gate,  *)
(* also when a request dies between two calls.                             *)
Gate == INSTANCE ApprovalGate WITH draft <- docs
GateSpec == Gate!Spec

(* With requests served one at a time the transition events of a draft are *)
(* in the order of the state machine, each at most once, whichever of them *)
(* a crash between the write and the append has lost.                      *)
Rank == [draft |-> 1, pending_approval |-> 2, approved |-> 3, send_logged |-> 4]
AuditInOrder ==
  \A d \in Drafts : \A i, j \in DOMAIN log[d] :
    i < j => Rank[log[d][i].to] < Rank[log[d][j].to]

=============================================================================

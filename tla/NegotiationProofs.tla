-------------------------- MODULE NegotiationProofs --------------------------
(***************************************************************************)
(* Proofs about Negotiation, for any sets of drafts, humans and workers.   *)
(*                                                                         *)
(* What a document says is safe because everything that may become a       *)
(* document is: the invariant below says of every snapshot and of every    *)
(* request in flight what HumanApproval says of the documents.             *)
(***************************************************************************)
EXTENDS Negotiation, TLAPS

-----------------------------------------------------------------------------
(* TYPE CORRECTNESS                                                        *)

(* A request in flight has a job, and the call it is about to make has the *)
(* data it needs: what makes the types inductive.                          *)
JobInFlight ==
  \A w \in Workers :
    /\ pc[w] # "idle" => job[w] \in Job
    /\ pc[w] = "write" => snap[w] \in Doc

(* The initial state is well typed.                                        *)
LEMMA InitTypes == Init => TypeOK /\ JobInFlight
  BY DEF Init, TypeOK, JobInFlight, Confidence, Steps

(* Every action keeps the types. *)
LEMMA NextTypes == TypeOK /\ JobInFlight /\ [Next]_vars => TypeOK' /\ JobInFlight'
<1> SUFFICES ASSUME TypeOK, JobInFlight, [Next]_vars
             PROVE  TypeOK' /\ JobInFlight'
  OBVIOUS
<1> USE DEF TypeOK, JobInFlight, Confidence, Steps
<1>1. ASSUME NEW d \in Drafts, NEW c \in {"below", "above"}, CreateFinding(d, c)
      PROVE  TypeOK' /\ JobInFlight'
  BY <1>1 DEF CreateFinding
<1>2. ASSUME NEW w \in Workers, NEW d \in Drafts, PostDraft(w, d)
      PROVE  TypeOK' /\ JobInFlight'
  BY <1>2 DEF PostDraft, Accept, Job, States
<1>3. ASSUME NEW w \in Workers, NEW d \in Drafts, NEW u \in Users, PostApprove(w, d, u)
      PROVE  TypeOK' /\ JobInFlight'
  BY <1>3 DEF PostApprove, Accept, Job, States
<1>4. ASSUME NEW w \in Workers, NEW d \in Drafts, PostSend(w, d)
      PROVE  TypeOK' /\ JobInFlight'
  BY <1>4 DEF PostSend, Accept, Job, States
<1>5. ASSUME NEW w \in Workers, ReadFinding(w)
      PROVE  TypeOK' /\ JobInFlight'
  BY <1>5 DEF ReadFinding, Goto, Return
<1>6. ASSUME NEW w \in Workers, Lookup(w)
      PROVE  TypeOK' /\ JobInFlight'
  <2>1. job[w] \in Job
    BY <1>6 DEF Lookup
  <2>2. [job[w] EXCEPT !.target = "pending_approval"] \in Job
    BY <2>1 DEF Job, States
  <2>3. job' \in [Workers -> Job \cup {None}] /\ (pc'[w] # "idle" => job'[w] \in Job)
    BY <1>6, <2>1, <2>2 DEF Lookup, Goto, Return
  <2> QED BY <1>6, <2>3 DEF Lookup, Goto, Return
<1>7. ASSUME NEW w \in Workers, Create(w)
      PROVE  TypeOK' /\ JobInFlight'
  BY <1>7 DEF Create, Goto, Job, Doc, States
<1>8. ASSUME NEW w \in Workers, Get(w)
      PROVE  TypeOK' /\ JobInFlight'
  <2>1. job[w] \in Job /\ docs[job[w].draft] \in Doc \cup {None}
    BY <1>8 DEF Get, Job
  <2> QED BY <1>8, <2>1 DEF Get, Goto, Return
<1>9. ASSUME NEW w \in Workers, Write(w)
      PROVE  TypeOK' /\ JobInFlight'
  <2>1. Advanced(snap[w], job[w].target, job[w].approver) \in Doc
    BY <1>9 DEF Write, Advanced, Job, Doc
  <2> QED BY <1>9, <2>1 DEF Write, Goto, Job
<1>10. ASSUME NEW w \in Workers, Emit(w)
       PROVE  TypeOK' /\ JobInFlight'
  <2>1. job[w] \in Job
    BY <1>10 DEF Emit
  <2>2. TransitionEvent(w) \in Event
    BY <2>1 DEF TransitionEvent, Job, Event, Doc
  <2>3. log' \in [Drafts -> Seq(Event)]
    BY <1>10, <2>1, <2>2 DEF Emit, Job
  <2>4. [job[w] EXCEPT !.target = "pending_approval"] \in Job
    BY <2>1 DEF Job, States
  <2>5. job' \in [Workers -> Job \cup {None}] /\ (pc'[w] # "idle" => job'[w] \in Job)
    BY <1>10, <2>1, <2>4 DEF Emit, Goto, Return
  <2> QED BY <1>10, <2>3, <2>5 DEF Emit, Goto, Return
<1>11. ASSUME NEW w \in Workers, Abort(w)
       PROVE  TypeOK' /\ JobInFlight'
  BY <1>11 DEF Abort, Return
<1>12. CASE UNCHANGED vars
  BY <1>12 DEF vars
<1> QED
  BY <1>1, <1>2, <1>3, <1>4, <1>5, <1>6, <1>7, <1>8, <1>9, <1>10, <1>11, <1>12
     DEF Next, Step

(* The types hold always, and so does JobInFlight.                         *)
LEMMA TypesHold == Spec => [](TypeOK /\ JobInFlight)
  BY InitTypes, NextTypes, PTL DEF Spec

(* The negotiation component is type correct: documents, audit events,     *)
(* snapshots and requests have the shape the code gives them, always.      *)
THEOREM TypeCorrect == Spec => []TypeOK
  BY TypesHold, PTL

-----------------------------------------------------------------------------
(* THE APPROVAL IS A HUMAN'S                                               *)

(* A draft exists, or is about to be created or rewritten, only above the *)
(* threshold.                                                              *)
AboveThreshold ==
  /\ \A d \in Drafts : docs[d] # None => finding[d] = "above"
  /\ \A w \in Workers :
       /\ pc[w] \in {"lookup", "create"} => finding[job[w].draft] = "above"
       /\ pc[w] = "write" => docs[job[w].draft] # None

(* A request passes the confidence gate once, and a finding keeps its      *)
(* confidence.                                                             *)
LEMMA NextAboveThreshold == TypeOK /\ JobInFlight /\ AboveThreshold /\ [Next]_vars => AboveThreshold'
<1> SUFFICES ASSUME TypeOK, JobInFlight, AboveThreshold, [Next]_vars
             PROVE  AboveThreshold'
  OBVIOUS
<1> USE DEF TypeOK, JobInFlight, AboveThreshold
<1>1. ASSUME NEW d \in Drafts, NEW c \in {"below", "above"}, CreateFinding(d, c)
      PROVE  AboveThreshold'
  BY <1>1 DEF CreateFinding
<1>2. ASSUME NEW w \in Workers, NEW d \in Drafts, PostDraft(w, d)
      PROVE  AboveThreshold'
  BY <1>2 DEF PostDraft, Accept
<1>3. ASSUME NEW w \in Workers, NEW d \in Drafts, NEW u \in Users, PostApprove(w, d, u)
      PROVE  AboveThreshold'
  BY <1>3 DEF PostApprove, Accept
<1>4. ASSUME NEW w \in Workers, NEW d \in Drafts, PostSend(w, d)
      PROVE  AboveThreshold'
  BY <1>4 DEF PostSend, Accept
<1>5. ASSUME NEW w \in Workers, ReadFinding(w)
      PROVE  AboveThreshold'
  BY <1>5 DEF ReadFinding, Goto, Return, Job
<1>6. ASSUME NEW w \in Workers, Lookup(w)
      PROVE  AboveThreshold'
  BY <1>6 DEF Lookup, Goto, Return, Job
<1>7. ASSUME NEW w \in Workers, Create(w)
      PROVE  AboveThreshold'
  <2>1. job[w] \in Job /\ [state |-> "draft", approvedBy |-> None] # None
    BY <1>7, NoneAssumption DEF Create, Doc, States
  <2> QED BY <1>7, <2>1 DEF Create, Goto, Job
<1>8. ASSUME NEW w \in Workers, Get(w)
      PROVE  AboveThreshold'
  BY <1>8 DEF Get, Goto, Return, Job
<1>9. ASSUME NEW w \in Workers, Write(w)
      PROVE  AboveThreshold'
  <2>1. job[w] \in Job /\ Advanced(snap[w], job[w].target, job[w].approver) # None
    BY <1>9, NoneAssumption DEF Write, Advanced, Job, Doc
  <2> QED BY <1>9, <2>1 DEF Write, Goto, Job
<1>10. ASSUME NEW w \in Workers, Emit(w)
      PROVE  AboveThreshold'
  BY <1>10 DEF Emit, Goto, Return, Job
<1>11. ASSUME NEW w \in Workers, Abort(w)
      PROVE  AboveThreshold'
  BY <1>11 DEF Abort, Return
<1>12. CASE UNCHANGED vars
  BY <1>12 DEF vars
<1> QED
  BY <1>1, <1>2, <1>3, <1>4, <1>5, <1>6, <1>7, <1>8, <1>9, <1>10, <1>11, <1>12
     DEF Next, Step

(* Only approve requests carry a name, and it is that of the human who     *)
(* posted them; a request that may still create the draft targets draft.   *)
RequestsBacked ==
  \A w \in Workers : pc[w] # "idle" =>
    /\ job[w].target = "approved" => <<job[w].draft, job[w].approver>> \in asked
    /\ job[w].target # "approved" => job[w].approver = None
    /\ pc[w] \in {"finding", "lookup", "create"} => job[w].target = "draft"

(* A request is posted with its approver on record, and only its target    *)
(* changes on the way.                                                     *)
LEMMA NextRequestsBacked == TypeOK /\ JobInFlight /\ RequestsBacked /\ [Next]_vars => RequestsBacked'
<1> SUFFICES ASSUME TypeOK, JobInFlight, RequestsBacked, [Next]_vars
             PROVE  RequestsBacked'
  OBVIOUS
<1> USE DEF TypeOK, JobInFlight, RequestsBacked
<1>1. ASSUME NEW d \in Drafts, NEW c \in {"below", "above"}, CreateFinding(d, c)
      PROVE  RequestsBacked'
  BY <1>1 DEF CreateFinding
<1>2. ASSUME NEW w \in Workers, NEW d \in Drafts, PostDraft(w, d)
      PROVE  RequestsBacked'
  BY <1>2 DEF PostDraft, Accept
<1>3. ASSUME NEW w \in Workers, NEW d \in Drafts, NEW u \in Users, PostApprove(w, d, u)
      PROVE  RequestsBacked'
  BY <1>3 DEF PostApprove, Accept
<1>4. ASSUME NEW w \in Workers, NEW d \in Drafts, PostSend(w, d)
      PROVE  RequestsBacked'
  BY <1>4 DEF PostSend, Accept
<1>5. ASSUME NEW w \in Workers, ReadFinding(w)
      PROVE  RequestsBacked'
  BY <1>5 DEF ReadFinding, Goto, Return
<1>6. ASSUME NEW w \in Workers, Lookup(w)
      PROVE  RequestsBacked'
  BY <1>6 DEF Lookup, Goto, Return, Job
<1>7. ASSUME NEW w \in Workers, Create(w)
      PROVE  RequestsBacked'
  BY <1>7 DEF Create, Goto
<1>8. ASSUME NEW w \in Workers, Get(w)
      PROVE  RequestsBacked'
  BY <1>8 DEF Get, Goto, Return
<1>9. ASSUME NEW w \in Workers, Write(w)
      PROVE  RequestsBacked'
  BY <1>9 DEF Write, Goto
<1>10. ASSUME NEW w \in Workers, Emit(w)
      PROVE  RequestsBacked'
  <2>1. CASE job[w].target = "draft"
    <3>1. job[w] \in Job /\ job[w].approver = None
      BY <1>10, <2>1 DEF Emit
    <3>2. job'[w].target = "pending_approval" /\ job'[w].approver = None
      BY <1>10, <2>1, <3>1 DEF Emit, Job
    <3> QED BY <1>10, <2>1, <3>2 DEF Emit, Goto
  <2>2. CASE job[w].target # "draft"
    BY <1>10, <2>2 DEF Emit, Return
  <2> QED BY <2>1, <2>2
<1>11. ASSUME NEW w \in Workers, Abort(w)
      PROVE  RequestsBacked'
  BY <1>11 DEF Abort, Return
<1>12. CASE UNCHANGED vars
  BY <1>12 DEF vars
<1> QED
  BY <1>1, <1>2, <1>3, <1>4, <1>5, <1>6, <1>7, <1>8, <1>9, <1>10, <1>11, <1>12
     DEF Next, Step

(* The approver a document claims is among those asked for that draft. *)
Backed(a, d, doc) ==
  doc # None /\ doc.state \in {"approved", "send_logged"} => <<d, doc.approvedBy>> \in a

(* More approvals asked for do not discredit a document.                   *)
LEMMA BackedGrows ==
  ASSUME NEW a, NEW b, a \subseteq b, NEW d, NEW doc, Backed(a, d, doc)
  PROVE  Backed(b, d, doc)
  BY DEF Backed

DocsBacked == \A d \in Drafts : Backed(asked, d, docs[d])

(* Snapshots are as good as the documents they were read from, however old *)
(* they are; only a request about to write, or about to report its write,  *)
(* holds one, and it allows the request's edge.                            *)
Licensed(a, step, j, s) ==
  /\ s # None => /\ step \in {"write", "emit"}
                 /\ <<s.state, j.target>> \in Allowed
                 /\ Backed(a, j.draft, s)
  /\ step = "write" => s # None
  /\ step = "emit" /\ s = None => j.target = "draft"

SnapsBacked == \A w \in Workers : Licensed(asked, pc[w], job[w], snap[w])

(* Nor a snapshot.                                                         *)
LEMMA LicensedGrows ==
  ASSUME NEW a, NEW b, a \subseteq b, NEW step, NEW j, NEW s, Licensed(a, step, j, s)
  PROVE  Licensed(b, step, j, s)
  BY BackedGrows DEF Licensed

(* A request that is before its read needs no licence.                     *)
LEMMA LicensedWithout ==
  ASSUME NEW a, NEW j, NEW step \in Steps \ {"write", "emit"}
  PROVE  Licensed(a, step, j, None)
  BY DEF Licensed

(* A document is written from a licensed snapshot and by a backed request, *)
(* or made new, and so stays backed.                                       *)
LEMMA NextDocsBacked == TypeOK /\ JobInFlight /\ RequestsBacked /\ SnapsBacked /\ DocsBacked /\ [Next]_vars => DocsBacked'
<1> SUFFICES ASSUME TypeOK, JobInFlight, RequestsBacked, SnapsBacked, DocsBacked, [Next]_vars
             PROVE  DocsBacked'
  OBVIOUS
<1> USE DEF TypeOK, JobInFlight, DocsBacked
<1>1. ASSUME NEW d \in Drafts, NEW c \in {"below", "above"}, CreateFinding(d, c)
      PROVE  DocsBacked'
  BY <1>1 DEF CreateFinding
<1>2. ASSUME NEW w \in Workers, NEW d \in Drafts, PostDraft(w, d)
      PROVE  DocsBacked'
  BY <1>2 DEF PostDraft, Accept
<1>3. ASSUME NEW w \in Workers, NEW d \in Drafts, NEW u \in Users, PostApprove(w, d, u)
      PROVE  DocsBacked'
  <2>1. asked \subseteq asked'
    BY <1>3 DEF PostApprove
  <2> QED BY <1>3, <2>1, BackedGrows DEF PostApprove, Accept
<1>4. ASSUME NEW w \in Workers, NEW d \in Drafts, PostSend(w, d)
      PROVE  DocsBacked'
  BY <1>4 DEF PostSend, Accept
<1>5. ASSUME NEW w \in Workers, ReadFinding(w)
      PROVE  DocsBacked'
  BY <1>5 DEF ReadFinding, Goto, Return
<1>6. ASSUME NEW w \in Workers, Lookup(w)
      PROVE  DocsBacked'
  BY <1>6 DEF Lookup, Goto, Return
<1>7. ASSUME NEW w \in Workers, Create(w)
      PROVE  DocsBacked'
  <2>1. Backed(asked, job[w].draft, [state |-> "draft", approvedBy |-> None])
    BY DEF Backed
  <2> QED BY <1>7, <2>1 DEF Create, Job
<1>8. ASSUME NEW w \in Workers, Get(w)
      PROVE  DocsBacked'
  BY <1>8 DEF Get, Goto, Return
<1>9. ASSUME NEW w \in Workers, Write(w)
      PROVE  DocsBacked'
  <2>1. job[w] \in Job /\ snap[w] \in Doc
    BY <1>9 DEF Write
  <2>2. <<snap[w].state, job[w].target>> \in Allowed /\ Backed(asked, job[w].draft, snap[w])
    BY <1>9, <2>1, NoneAssumption DEF Write, SnapsBacked, Licensed
  <2>3. CASE job[w].target = "approved"
    <3>1. <<job[w].draft, job[w].approver>> \in asked /\ job[w].approver # None
      BY <1>9, <2>3, NoneAssumption DEF Write, RequestsBacked
    <3>2. Backed(asked, job[w].draft, Advanced(snap[w], job[w].target, job[w].approver))
      BY <3>1 DEF Backed, Advanced
    <3> QED BY <1>9, <2>1, <3>2 DEF Write, Job
  <2>4. CASE job[w].target # "approved"
    <3>1. job[w].approver = None
      BY <1>9, <2>4 DEF Write, RequestsBacked
    <3>2. job[w].target = "send_logged" => snap[w] # None /\ snap[w].state = "approved"
      BY <2>1, <2>2, NoneAssumption DEF Allowed
    <3>3. Backed(asked, job[w].draft, Advanced(snap[w], job[w].target, job[w].approver))
      BY <2>2, <2>4, <3>1, <3>2 DEF Backed, Advanced
    <3> QED BY <1>9, <2>1, <3>3 DEF Write, Job
  <2> QED BY <2>3, <2>4
<1>10. ASSUME NEW w \in Workers, Emit(w)
      PROVE  DocsBacked'
  BY <1>10 DEF Emit, Goto, Return
<1>11. ASSUME NEW w \in Workers, Abort(w)
      PROVE  DocsBacked'
  BY <1>11 DEF Abort, Return
<1>12. CASE UNCHANGED vars
  BY <1>12 DEF vars
<1> QED
  BY <1>1, <1>2, <1>3, <1>4, <1>5, <1>6, <1>7, <1>8, <1>9, <1>10, <1>11, <1>12
     DEF Next, Step

(* A snapshot is taken of a backed document, along an allowed edge, and    *)
(* does not change.                                                        *)
LEMMA NextSnapsBacked ==
  TypeOK /\ JobInFlight /\ RequestsBacked /\ DocsBacked /\ SnapsBacked /\ [Next]_vars
    => SnapsBacked'
<1> SUFFICES ASSUME TypeOK, JobInFlight, RequestsBacked, DocsBacked, SnapsBacked, [Next]_vars
             PROVE  SnapsBacked'
  OBVIOUS
<1> USE DEF TypeOK, SnapsBacked
<1>0. ASSUME NEW w \in Workers, pc[w] \notin {"write", "emit"}
      PROVE  snap[w] = None
  BY <1>0 DEF Licensed
<1>1. ASSUME NEW d \in Drafts, NEW c \in {"below", "above"}, CreateFinding(d, c)
      PROVE  SnapsBacked'
  BY <1>1 DEF CreateFinding
<1>2. ASSUME NEW w \in Workers, NEW d \in Drafts, PostDraft(w, d)
      PROVE  SnapsBacked'
  <2>1. snap[w] = None /\ Licensed(asked, "finding", job'[w], None)
    BY <1>0, <1>2, LicensedWithout DEF PostDraft, Accept, Steps
  <2> QED BY <1>2, <2>1 DEF PostDraft, Accept
<1>3. ASSUME NEW w \in Workers, NEW d \in Drafts, NEW u \in Users, PostApprove(w, d, u)
      PROVE  SnapsBacked'
  <2>1. snap[w] = None /\ Licensed(asked', "get", job'[w], None)
    BY <1>0, <1>3, LicensedWithout DEF PostApprove, Accept, Steps
  <2>2. asked \subseteq asked'
    BY <1>3 DEF PostApprove
  <2>3. \A v \in Workers : Licensed(asked', pc[v], job[v], snap[v])
    BY <2>2, LicensedGrows
  <2> QED BY <1>3, <2>1, <2>3 DEF PostApprove, Accept
<1>4. ASSUME NEW w \in Workers, NEW d \in Drafts, PostSend(w, d)
      PROVE  SnapsBacked'
  <2>1. snap[w] = None /\ Licensed(asked, "get", job'[w], None)
    BY <1>0, <1>4, LicensedWithout DEF PostSend, Accept, Steps
  <2> QED BY <1>4, <2>1 DEF PostSend, Accept
<1>5. ASSUME NEW w \in Workers, Return(w), UNCHANGED asked
      PROVE  SnapsBacked'
  <2>1. Licensed(asked, "idle", None, None)
    BY LicensedWithout DEF Steps
  <2> QED BY <1>5, <2>1 DEF Return
<1>6. ASSUME NEW w \in Workers, NEW step \in Steps \ {"write", "emit"},
             pc[w] \notin {"write", "emit"}, Goto(w, step),
             \A v \in Workers \ {w} : job'[v] = job[v], UNCHANGED <<snap, asked>>
      PROVE  SnapsBacked'
  <2>1. snap[w] = None /\ Licensed(asked, step, job'[w], None)
    BY <1>0, <1>6, LicensedWithout
  <2> QED BY <1>6, <2>1 DEF Goto
<1>7. ASSUME NEW w \in Workers, ReadFinding(w)
      PROVE  SnapsBacked'
  BY <1>5, <1>6, <1>7 DEF ReadFinding, Steps
<1>8. ASSUME NEW w \in Workers, Lookup(w)
      PROVE  SnapsBacked'
  BY <1>5, <1>6, <1>8 DEF Lookup, Steps
<1>9. ASSUME NEW w \in Workers, Create(w)
      PROVE  SnapsBacked'
  <2>1. snap[w] = None /\ job[w].target = "draft"
    BY <1>0, <1>9 DEF Create, RequestsBacked
  <2>2. Licensed(asked, "emit", job[w], snap[w])
    BY <2>1 DEF Licensed
  <2> QED BY <1>9, <2>2 DEF Create, Goto
<1>10. ASSUME NEW w \in Workers, Get(w)
       PROVE  SnapsBacked'
  <2>1. CASE Goto(w, "write")
    <3>1. job[w].draft \in Drafts
      BY <1>10 DEF Get, JobInFlight, Job
    <3>2. Licensed(asked, "write", job[w], snap'[w])
      BY <1>10, <2>1, <3>1 DEF Get, Goto, Return, Licensed, DocsBacked
    <3> QED BY <1>10, <2>1, <3>2 DEF Get, Goto, Return
  <2>2. CASE Return(w)
    BY <1>5, <1>10, <2>2 DEF Get
  <2> QED BY <1>10, <2>1, <2>2 DEF Get
<1>11. ASSUME NEW w \in Workers, Write(w)
       PROVE  SnapsBacked'
  <2>1. Licensed(asked, "emit", job[w], snap[w])
    BY <1>11 DEF Write, Licensed
  <2> QED BY <1>11, <2>1 DEF Write, Goto
<1>12. ASSUME NEW w \in Workers, Emit(w)
       PROVE  SnapsBacked'
  <2>1. CASE job[w].target = "draft"
    <3>1. snap[w] = None
      BY <1>12, <2>1 DEF Emit, Licensed, Allowed
    <3>2. Licensed(asked, "get", job'[w], None)
      BY LicensedWithout DEF Steps
    <3> QED BY <1>12, <2>1, <3>1, <3>2 DEF Emit, Goto
  <2>2. CASE job[w].target # "draft"
    BY <1>5, <1>12, <2>2 DEF Emit
  <2> QED BY <2>1, <2>2
<1>13. ASSUME NEW w \in Workers, Abort(w)
       PROVE  SnapsBacked'
  BY <1>5, <1>13 DEF Abort
<1>14. CASE UNCHANGED vars
  BY <1>14 DEF vars
<1> QED
  BY <1>1, <1>2, <1>3, <1>4, <1>7, <1>8, <1>9, <1>10, <1>11, <1>12, <1>13, <1>14
     DEF Next, Step

(* The audit trail: only Emit appends to it, and asked only grows. *)
LEMMA NextAuditTruthful ==
  TypeOK /\ JobInFlight /\ RequestsBacked /\ SnapsBacked /\ AuditTruthful /\ [Next]_vars
    => AuditTruthful'
<1> SUFFICES ASSUME TypeOK, JobInFlight, RequestsBacked, SnapsBacked, AuditTruthful,
                    [Next]_vars
             PROVE  AuditTruthful'
  OBVIOUS
<1>1. ASSUME UNCHANGED log, asked \subseteq asked'
      PROVE  AuditTruthful'
  BY <1>1 DEF AuditTruthful
<1>2. ASSUME NEW w \in Workers, Emit(w)
      PROVE  AuditTruthful'
  <2> DEFINE e == TransitionEvent(w)
             d == job[w].draft
  <2>1. job[w] \in Job /\ d \in Drafts /\ log[d] \in Seq(Event) /\ snap[w] \in Doc \cup {None}
    BY <1>2 DEF Emit, TypeOK, JobInFlight, Job
  <2>2. e.to = job[w].target /\ e.actor = job[w].approver /\ e \in Event
    BY <2>1 DEF TransitionEvent, Job, Event, Doc
  <2>3. e.to = "approved" => <<d, e.actor>> \in asked
    BY <1>2, <2>2 DEF Emit, RequestsBacked
  <2>4. e.to = "send_logged" => <<d, snap[w].approvedBy>> \in asked
    BY <1>2, <2>1, <2>2, NoneAssumption
       DEF Emit, SnapsBacked, Licensed, Allowed, Backed
  <2>5. e.to = "send_logged" => \E u \in Users : <<d, u>> \in asked
    BY <2>4 DEF TypeOK
  <2>6. asked' = asked /\ log' = [log EXCEPT ![d] = Append(@, e)]
    BY <1>2 DEF Emit
  <2> HIDE DEF e, d
  <2>7. ASSUME NEW c \in Drafts, NEW i \in DOMAIN log'[c]
        PROVE  \/ i \in DOMAIN log[c] /\ log'[c][i] = log[c][i]
               \/ c = d /\ log'[c][i] = e
    BY <2>1, <2>2, <2>6, <2>7 DEF TypeOK
  <2>8. ASSUME NEW c \in Drafts, NEW i \in DOMAIN log'[c]
        PROVE  /\ log'[c][i].to = "approved" => <<c, log'[c][i].actor>> \in asked
               /\ log'[c][i].to = "send_logged" => \E u \in Users : <<c, u>> \in asked
    <3>1. CASE i \in DOMAIN log[c] /\ log'[c][i] = log[c][i]
      BY <2>8, <3>1 DEF AuditTruthful
    <3>2. CASE c = d /\ log'[c][i] = e
      BY <2>3, <2>5, <3>2
    <3> QED BY <2>7, <2>8, <3>1, <3>2
  <2> QED BY <2>6, <2>8 DEF AuditTruthful
<1>3. ASSUME NEW w \in Workers, NEW d \in Drafts, NEW u \in Users, PostApprove(w, d, u)
      PROVE  AuditTruthful'
  BY <1>1, <1>3 DEF PostApprove, Accept
<1>4. CASE UNCHANGED <<log, asked>>
  BY <1>1, <1>4
<1> QED
  BY <1>2, <1>3, <1>4
     DEF Next, Step, vars, CreateFinding, PostDraft, PostSend, Accept, ReadFinding, Lookup,
         Create, Get, Write, Abort

-----------------------------------------------------------------------------
(* THEOREMS                                                                *)

IInv ==
  /\ TypeOK
  /\ JobInFlight
  /\ AboveThreshold
  /\ RequestsBacked
  /\ DocsBacked
  /\ SnapsBacked
  /\ AuditTruthful

(* The invariant is inductive.                                             *)
LEMMA IInvHolds == Spec => []IInv
<1>1. Init => IInv
  <2> SUFFICES ASSUME Init PROVE IInv
    OBVIOUS
  <2>1. TypeOK /\ JobInFlight
    BY InitTypes
  <2>2. \A w \in Workers : Licensed(asked, pc[w], job[w], snap[w])
    BY LicensedWithout DEF Init, Steps
  <2> QED
    BY <2>1, <2>2 DEF Init, IInv, AboveThreshold, RequestsBacked, DocsBacked, SnapsBacked,
                      AuditTruthful, Backed
<1>2. IInv /\ [Next]_vars => IInv'
  BY NextTypes, NextAboveThreshold, NextRequestsBacked, NextDocsBacked, NextSnapsBacked,
     NextAuditTruthful DEF IInv
<1> QED
  BY <1>1, <1>2, PTL DEF Spec

(* Nobody's approval is made up or lost: for any number of drafts, humans  *)
(* and overlapping requests, and whatever requests die half-way, a document*)
(* in state approved or send_logged names a human who approved that draft. *)
THEOREM ApprovalIsHuman == Spec => []HumanApproval
<1>1. IInv => HumanApproval
  BY DEF IInv, DocsBacked, Backed, HumanApproval
<1> QED
  BY <1>1, IInvHolds, PTL

(* No draft for a finding below the candidate threshold, ever.             *)
THEOREM ConfidenceGated == Spec => []ConfidenceGate
<1>1. IInv => ConfidenceGate
  BY DEF IInv, AboveThreshold, ConfidenceGate
<1> QED
  BY <1>1, IInvHolds, PTL

(* No audit event claims an approval nobody gave, or a send without one.   *)
THEOREM AuditIsTruthful == Spec => []AuditTruthful
  BY IInvHolds, PTL DEF IInv

-----------------------------------------------------------------------------
(* REFINEMENT: one request at a time                                       *)

OneWorker == \A v, w \in Workers : v = w

(* What a single worker decided on is still so when it writes; and nobody  *)
(* is named before the approval.                                           *)
Fresh ==
  \A w \in Workers :
    /\ pc[w] = "write" => snap[w] = docs[job[w].draft]
    /\ pc[w] = "create" => docs[job[w].draft] = None
Unnamed ==
  \A d \in Drafts :
    docs[d] # None /\ docs[d].state \in {"draft", "pending_approval"} => docs[d].approvedBy = None

SerialInv == IInv /\ Fresh /\ Unnamed

(* The write of a single worker is one of the three moves of the gate.     *)
LEMMA WriteIsMove ==
  ASSUME SerialInv, NEW w \in Workers, Write(w)
  PROVE  /\ job[w] \in Job /\ docs[job[w].draft] = snap[w] /\ snap[w] \in Doc
         /\ \/ /\ job[w].target = "pending_approval" /\ snap[w].state = "draft"
               /\ docs'[job[w].draft] = [state |-> "pending_approval", approvedBy |-> None]
            \/ /\ job[w].target = "approved" /\ snap[w].state = "pending_approval"
               /\ job[w].approver \in Users
               /\ docs'[job[w].draft] = [state |-> "approved", approvedBy |-> job[w].approver]
            \/ /\ job[w].target = "send_logged" /\ snap[w].state = "approved"
               /\ docs'[job[w].draft] = [state |-> "send_logged", approvedBy |-> snap[w].approvedBy]
<1>1. job[w] \in Job /\ snap[w] \in Doc /\ snap[w] # None /\ docs[job[w].draft] = snap[w]
  BY NoneAssumption DEF SerialInv, IInv, JobInFlight, Fresh, Write
<1>2. docs'[job[w].draft] = Advanced(snap[w], job[w].target, job[w].approver)
  BY <1>1 DEF Write, SerialInv, IInv, TypeOK, Job
<1>3. <<snap[w].state, job[w].target>> \in Allowed
  BY <1>1 DEF SerialInv, IInv, SnapsBacked, Licensed
<1>4. CASE job[w].target = "approved"
  <2>1. <<job[w].draft, job[w].approver>> \in asked
    BY <1>4 DEF Write, SerialInv, IInv, RequestsBacked
  <2>2. job[w].approver \in Users /\ job[w].approver # None
    BY <2>1, NoneAssumption DEF SerialInv, IInv, TypeOK
  <2> QED BY <1>1, <1>2, <1>3, <1>4, <2>2 DEF Advanced, Allowed
<1>5. CASE job[w].target # "approved"
  <2>1. job[w].approver = None
    BY <1>5 DEF Write, SerialInv, IInv, RequestsBacked
  <2>2. snap[w].state = "draft" => snap[w].approvedBy = None
    BY <1>1 DEF SerialInv, Unnamed, Job
  <2> QED BY <1>1, <1>2, <1>3, <1>5, <2>1, <2>2 DEF Advanced, Allowed
<1> QED
  BY <1>4, <1>5

(* A single worker's decision is not overtaken.                            *)
LEMMA NextFresh ==
  ASSUME OneWorker, SerialInv, [Next]_vars
  PROVE  Fresh'
<1> USE DEF OneWorker, Fresh
<1>1. ASSUME NEW w \in Workers, pc'[w] \notin {"write", "create"}
      PROVE  Fresh'
  BY <1>1
<1>2. ASSUME NEW w \in Workers, ReadFinding(w)
      PROVE  Fresh'
  BY <1>2 DEF ReadFinding, Goto, Return, SerialInv, IInv, JobInFlight, TypeOK, Job
<1>3. ASSUME NEW w \in Workers, Lookup(w)
      PROVE  Fresh'
  BY <1>3 DEF Lookup, Goto, Return, SerialInv, IInv, TypeOK
<1>4. ASSUME NEW w \in Workers, Get(w)
      PROVE  Fresh'
  BY <1>4 DEF Get, Goto, Return, SerialInv, IInv, TypeOK
<1>5. ASSUME NEW w \in Workers, Create(w) \/ Write(w) \/ Emit(w) \/ Abort(w)
      PROVE  Fresh'
  BY <1>1, <1>5 DEF Create, Write, Emit, Abort, Goto, Return, SerialInv, IInv, TypeOK
<1>6. ASSUME NEW w \in Workers, NEW d \in Drafts,
             \/ PostDraft(w, d)
             \/ PostSend(w, d)
             \/ \E u \in Users : PostApprove(w, d, u)
      PROVE  Fresh'
  BY <1>1, <1>6 DEF PostDraft, PostSend, PostApprove, Accept, SerialInv, IInv, TypeOK
<1>7. ASSUME UNCHANGED <<docs, pc, job, snap>>
      PROVE  Fresh'
  BY <1>7 DEF SerialInv
<1> QED
  BY <1>2, <1>3, <1>4, <1>5, <1>6, <1>7 DEF Next, Step, vars, CreateFinding

(* A step of the component moves its documents by a step of the gate, or   *)
(* leaves them alone, and names nobody before the approval.                *)
LEMMA StepRefines ==
  ASSUME SerialInv, [Next]_vars
  PROVE  [Gate!Next]_docs /\ Unnamed'
<1>1. ASSUME NEW w \in Workers, Create(w)
      PROVE  Gate!Next /\ Unnamed'
  <2>1. job[w].draft \in Drafts /\ docs[job[w].draft] = None
    BY <1>1 DEF Create, SerialInv, IInv, JobInFlight, Job, Fresh
  <2>2. Gate!Open(job[w].draft)
    BY <1>1, <2>1 DEF Create, Gate!Open
  <2>3. Unnamed'
    BY <1>1, <2>1 DEF Create, SerialInv, IInv, TypeOK, Unnamed
  <2> QED BY <2>1, <2>2, <2>3 DEF Gate!Next
<1>2. ASSUME NEW w \in Workers, Write(w)
      PROVE  Gate!Next /\ Unnamed'
  <2> DEFINE d   == job[w].draft
             new == Advanced(snap[w], job[w].target, job[w].approver)
  <2>1. /\ d \in Drafts /\ docs[d] = snap[w] /\ snap[w] \in Doc /\ docs[d] # None
        /\ \/ /\ job[w].target = "pending_approval" /\ snap[w].state = "draft"
              /\ docs'[d] = [state |-> "pending_approval", approvedBy |-> None]
           \/ /\ job[w].target = "approved" /\ snap[w].state = "pending_approval"
              /\ job[w].approver \in Users
              /\ docs'[d] = [state |-> "approved", approvedBy |-> job[w].approver]
           \/ /\ job[w].target = "send_logged" /\ snap[w].state = "approved"
              /\ docs'[d] = [state |-> "send_logged", approvedBy |-> snap[w].approvedBy]
    BY <1>2, WriteIsMove, NoneAssumption DEF Job
  <2>2. docs' = [docs EXCEPT ![d] = new] /\ new = docs'[d]
    BY <1>2, <2>1 DEF Write, SerialInv, IInv, TypeOK
  <2> HIDE DEF d, new
  <2>3. Gate!Submit(d) \/ (\E u \in Users : Gate!Approve(d, u)) \/ Gate!Send(d)
    <3>1. CASE docs'[d] = [state |-> "pending_approval", approvedBy |-> None]
               /\ docs[d].state = "draft"
      BY <2>1, <2>2, <3>1 DEF Gate!Submit, Gate!Move, Gate!NextState
    <3>2. CASE /\ job[w].approver \in Users
               /\ docs'[d] = [state |-> "approved", approvedBy |-> job[w].approver]
               /\ docs[d].state = "pending_approval"
      BY <2>1, <2>2, <3>2 DEF Gate!Approve, Gate!Move, Gate!NextState
    <3>3. CASE docs'[d] = [state |-> "send_logged", approvedBy |-> docs[d].approvedBy]
               /\ docs[d].state = "approved"
      BY <2>1, <2>2, <3>3 DEF Gate!Send, Gate!Move, Gate!NextState
    <3> QED BY <2>1, <3>1, <3>2, <3>3
  <2>4. ASSUME NEW c \in Drafts, docs'[c] # None,
               docs'[c].state \in {"draft", "pending_approval"}
        PROVE  docs'[c].approvedBy = None
    <3>1. CASE c = d
      BY <2>1, <2>4, <3>1
    <3>2. CASE c # d
      <4>1. docs'[c] = docs[c]
        BY <2>2, <3>2 DEF SerialInv, IInv, TypeOK
      <4> QED BY <2>4, <4>1 DEF SerialInv, Unnamed
    <3> QED BY <3>1, <3>2
  <2>5. Unnamed'
    BY <2>4 DEF Unnamed
  <2> QED BY <2>1, <2>3, <2>5 DEF Gate!Next
<1>3. CASE UNCHANGED docs
  BY <1>3 DEF SerialInv, Unnamed
<1> QED
  BY <1>1, <1>2, <1>3
     DEF Next, Step, vars, CreateFinding, PostDraft, PostApprove, PostSend, Accept,
         ReadFinding, Lookup, Get, Emit, Abort

(* With one worker the component is the approval gate: every behaviour,    *)
(* also those in which requests die between two calls, is a behaviour of   *)
(* ApprovalGate.                                                           *)
THEOREM SerialRefinement ==
  ASSUME OneWorker
  PROVE  Spec => GateSpec
<1>1. Init => Gate!Init /\ Fresh /\ Unnamed
  BY DEF Init, Gate!Init, Fresh, Unnamed
<1>2. IInv /\ Fresh /\ Unnamed /\ [Next]_vars => [Gate!Next]_docs /\ Fresh' /\ Unnamed'
  BY NextFresh, StepRefines DEF SerialInv
<1> QED
  BY <1>1, <1>2, IInvHolds, PTL DEF Spec, GateSpec, Gate!Spec
-----------------------------------------------------------------------------
(* THE AUDIT TRAIL IN ORDER: one request at a time                         *)

InOrder(trail) == \A i, j \in DOMAIN trail : i < j => Rank[trail[i].to] < Rank[trail[j].to]

Below(trail, r) == \A i \in DOMAIN trail : Rank[trail[i].to] < r

\* How far a draft has come.
Reached(d) == IF docs[d] = None THEN 0 ELSE Rank[docs[d].state]

(* The trail runs behind the document, never ahead of it; and a transition *)
(* that is written and not yet in the trail is above all that are.         *)
Trailing ==
  /\ \A d \in Drafts : InOrder(log[d]) /\ Below(log[d], Reached(d) + 1)
  /\ \A w \in Workers : pc[w] = "emit" =>
       /\ Reached(job[w].draft) = Rank[job[w].target]
       /\ Below(log[job[w].draft], Rank[job[w].target])

(* The edges of the state machine lead upwards.                            *)
LEMMA EdgesRise ==
  /\ \A s \in States : Rank[s] \in 1 .. 4
  /\ \A s, t \in States : <<s, t>> \in Allowed => Rank[s] < Rank[t]
  BY DEF States, Allowed, Rank

(* A trail stays in order when what is appended is above all of it.        *)
LEMMA AppendInOrder ==
  ASSUME NEW trail \in Seq(Event), NEW e \in Event, InOrder(trail), Below(trail, Rank[e.to])
  PROVE  InOrder(Append(trail, e)) /\ Below(Append(trail, e), Rank[e.to] + 1)
<1> DEFINE longer == Append(trail, e)
<1>1. /\ \A i \in DOMAIN longer :
           \/ i \in DOMAIN trail /\ longer[i] = trail[i]
           \/ i = Len(trail) + 1 /\ longer[i] = e
      /\ \A i \in DOMAIN trail : i < Len(trail) + 1
      /\ Len(trail) \in Nat /\ DOMAIN longer \subseteq Nat
  OBVIOUS
<1>2. \A i \in DOMAIN trail : Rank[trail[i].to] \in 1 .. 4
  <2> SUFFICES ASSUME NEW i \in DOMAIN trail PROVE Rank[trail[i].to] \in 1 .. 4
    OBVIOUS
  <2>1. trail[i] \in Event
    OBVIOUS
  <2> QED BY <2>1, EdgesRise DEF Event
<1>3. Rank[e.to] \in 1 .. 4
  BY EdgesRise DEF Event
<1> HIDE DEF longer
<1>4. Below(longer, Rank[e.to] + 1)
  BY <1>1, <1>2, <1>3 DEF Below
<1>5. ASSUME NEW i \in DOMAIN longer, NEW j \in DOMAIN longer, i < j
      PROVE  Rank[longer[i].to] < Rank[longer[j].to]
  <2>1. i \in DOMAIN trail /\ longer[i] = trail[i]
    <3>1. CASE i = Len(trail) + 1
      <4>1. j \in DOMAIN trail \/ j = Len(trail) + 1
        BY <1>1
      <4>2. j < Len(trail) + 1 \/ j = Len(trail) + 1
        BY <1>1, <4>1
      <4> QED BY <1>1, <1>5, <3>1, <4>2
    <3> QED BY <1>1, <3>1
  <2>2. CASE j \in DOMAIN trail /\ longer[j] = trail[j]
    BY <1>5, <2>1, <2>2 DEF InOrder
  <2>3. CASE longer[j] = e
    BY <2>1, <2>3 DEF Below
  <2> QED BY <1>1, <2>2, <2>3
<1> QED BY <1>4, <1>5 DEF InOrder, longer

(* What is below a rank is below a higher one.                             *)
LEMMA BelowHigher ==
  ASSUME NEW trail \in Seq(Event), NEW r \in Nat, NEW s \in Nat, Below(trail, r), r <= s
  PROVE  Below(trail, s)
<1> SUFFICES ASSUME NEW i \in DOMAIN trail PROVE Rank[trail[i].to] < s
  BY DEF Below
<1>1. trail[i] \in Event
  OBVIOUS
<1>2. Rank[trail[i].to] \in Nat
  BY <1>1, EdgesRise DEF Event
<1> QED BY <1>2 DEF Below

(* A request's write raises its draft, past all its trail.                 *)
LEMMA WriteRises ==
  ASSUME SerialInv, NEW w \in Workers, Create(w) \/ Write(w)
  PROVE  /\ job[w].draft \in Drafts
         /\ Reached(job[w].draft) \in Nat /\ Rank[job[w].target] \in Nat
         /\ Reached(job[w].draft) + 1 <= Rank[job[w].target]
         /\ Reached(job[w].draft)' = Rank[job[w].target]
<1> DEFINE d == job[w].draft
<1>1. job[w] \in Job /\ d \in Drafts /\ job[w].target \in States /\ job' = job
  BY DEF Create, Write, SerialInv, IInv, JobInFlight, Job
<1>2. CASE Create(w)
  <2>1. docs[d] = None /\ job[w].target = "draft"
    BY <1>2 DEF Create, SerialInv, IInv, Fresh, RequestsBacked
  <2>2. docs'[d] = [state |-> "draft", approvedBy |-> None]
    BY <1>1, <1>2 DEF Create, SerialInv, IInv, TypeOK
  <2>3. docs'[d] # None /\ docs'[d].state = "draft"
    BY <2>2, NoneAssumption DEF Doc, States
  <2>4. Reached(d) = 0 /\ Reached(d)' = Rank["draft"]
    BY <1>1, <2>1, <2>3 DEF Reached
  <2> QED BY <1>1, <2>1, <2>4 DEF Rank
<1>3. CASE Write(w)
  <2>1. docs[d] = snap[w] /\ snap[w] \in Doc /\ <<snap[w].state, job[w].target>> \in Allowed
    BY <1>3, WriteIsMove DEF Allowed
  <2>2. docs'[d] \in Doc /\ docs'[d].state = job[w].target
    <3>1. docs'[d] = Advanced(snap[w], job[w].target, job[w].approver)
      BY <1>1, <1>3 DEF Write, SerialInv, IInv, TypeOK
    <3> QED BY <1>1, <2>1, <3>1 DEF Advanced, Doc, Job
  <2>3. Reached(d) = Rank[snap[w].state] /\ Reached(d)' = Rank[job[w].target]
    BY <1>1, <2>1, <2>2, NoneAssumption DEF Reached
  <2>4. snap[w].state \in States
    BY <2>1 DEF Doc
  <2>5. /\ Rank[snap[w].state] \in 1 .. 4 /\ Rank[job[w].target] \in 1 .. 4
        /\ Rank[snap[w].state] < Rank[job[w].target]
    BY <1>1, <2>1, <2>4, EdgesRise
  <2> QED BY <1>1, <2>3, <2>5
<1> QED BY <1>2, <1>3

(* Only Emit adds to a trail, and only after Create or Write has raised the*)
(* document above it.                                                      *)
LEMMA NextTrailing ==
  ASSUME OneWorker, SerialInv, Trailing, [Next]_vars
  PROVE  Trailing'
<1>1. ASSUME UNCHANGED <<docs, log>>, \A w \in Workers : pc'[w] # "emit"
      PROVE  Trailing'
  BY <1>1 DEF Trailing, Reached
<1>2. ASSUME NEW w \in Workers, UNCHANGED <<docs, log>>, pc'[w] # "emit"
      PROVE  Trailing'
  BY <1>1, <1>2 DEF OneWorker
<1>3. ASSUME NEW w \in Workers, Create(w) \/ Write(w)
      PROVE  Trailing'
  <2> DEFINE d == job[w].draft
  <2>1. /\ d \in Drafts /\ Reached(d) \in Nat /\ Rank[job[w].target] \in Nat
        /\ Reached(d) + 1 <= Rank[job[w].target]
        /\ Reached(d)' = Rank[job[w].target]
    BY <1>3, WriteRises
  <2>2. /\ UNCHANGED <<log, job>>
        /\ \A c \in Drafts : c # d => docs'[c] = docs[c]
        /\ \A v \in Workers : v = w
    BY <1>3 DEF Create, Write, OneWorker, SerialInv, IInv, TypeOK
  <2>3. log[d] \in Seq(Event) /\ Below(log[d], Reached(d) + 1)
    BY <2>1 DEF Trailing, SerialInv, IInv, TypeOK
  <2>4. Below(log[d], Rank[job[w].target])
    BY <2>1, <2>3, BelowHigher
  <2>5. Below(log[d], Rank[job[w].target] + 1)
    BY <2>1, <2>3, <2>4, BelowHigher
  <2>6. ASSUME NEW c \in Drafts
        PROVE  InOrder(log'[c]) /\ Below(log'[c], Reached(c)' + 1)
    <3>1. InOrder(log[c]) /\ Below(log[c], Reached(c) + 1)
      BY DEF Trailing
    <3>2. CASE c = d
      BY <2>1, <2>2, <2>5, <3>1, <3>2
    <3>3. CASE c # d
      <4>1. Reached(c)' = Reached(c)
        BY <2>2, <3>3 DEF Reached
      <4> QED BY <2>2, <3>1, <4>1
    <3> QED BY <3>2, <3>3
  <2>7. Reached(job[w].draft)' = Rank[job'[w].target] /\ Below(log'[job'[w].draft], Rank[job'[w].target])
    BY <2>1, <2>2, <2>4
  <2> HIDE DEF d
  <2> QED BY <2>2, <2>6, <2>7 DEF Trailing, InOrder
<1>4. ASSUME NEW w \in Workers, Emit(w)
      PROVE  Trailing'
  <2> DEFINE d == job[w].draft
             e == TransitionEvent(w)
  <2>1. job[w] \in Job /\ d \in Drafts /\ log[d] \in Seq(Event) /\ snap[w] \in Doc \cup {None}
    BY <1>4 DEF Emit, SerialInv, IInv, TypeOK, JobInFlight, Job
  <2>2. e \in Event /\ e.to = job[w].target
    BY <2>1 DEF TransitionEvent, Job, Event, Doc
  <2>3. InOrder(log[d]) /\ Reached(d) = Rank[e.to] /\ Below(log[d], Rank[e.to])
    BY <1>4, <2>1, <2>2 DEF Emit, Trailing
  <2>4. UNCHANGED docs /\ log' = [log EXCEPT ![d] = Append(@, e)]
    BY <1>4 DEF Emit
  <2>5. \A v \in Workers : pc'[v] # "emit"
    BY <1>4 DEF Emit, Goto, Return, OneWorker, SerialInv, IInv, TypeOK
  <2> HIDE DEF e, d
  <2>6. InOrder(Append(log[d], e)) /\ Below(Append(log[d], e), Rank[e.to] + 1)
    BY <2>1, <2>2, <2>3, AppendInOrder
  <2>7. ASSUME NEW c \in Drafts
        PROVE  InOrder(log'[c]) /\ Below(log'[c], Reached(c)' + 1)
    <3>1. Reached(c)' = Reached(c)
      BY <2>4 DEF Reached
    <3>2. CASE c = d
      <4>1. log'[d] = Append(log[d], e)
        BY <2>1, <2>4 DEF SerialInv, IInv, TypeOK
      <4> QED BY <2>3, <2>6, <3>1, <3>2, <4>1
    <3>3. CASE c # d
      <4>1. log'[c] = log[c]
        BY <2>4, <3>3 DEF SerialInv, IInv, TypeOK
      <4> QED BY <3>1, <4>1 DEF Trailing
    <3> QED BY <3>2, <3>3
  <2> QED BY <2>5, <2>7 DEF Trailing
<1>5. ASSUME NEW w \in Workers, ReadFinding(w) \/ Lookup(w) \/ Get(w) \/ Abort(w)
      PROVE  Trailing'
  <2>1. UNCHANGED <<docs, log>> /\ pc'[w] # "emit"
    BY <1>5 DEF ReadFinding, Lookup, Get, Abort, Goto, Return, SerialInv, IInv, TypeOK
  <2> QED BY <1>2, <2>1
<1>6. ASSUME NEW w \in Workers, NEW d \in Drafts,
             \/ PostDraft(w, d)
             \/ PostSend(w, d)
             \/ \E u \in Users : PostApprove(w, d, u)
      PROVE  Trailing'
  <2>1. UNCHANGED <<docs, log>> /\ pc'[w] # "emit"
    BY <1>6 DEF PostDraft, PostSend, PostApprove, Accept, SerialInv, IInv, TypeOK
  <2> QED BY <1>2, <2>1
<1>7. ASSUME UNCHANGED <<docs, log, pc, job>>
      PROVE  Trailing'
  BY <1>7 DEF Trailing, Reached
<1> QED
  BY <1>3, <1>4, <1>5, <1>6, <1>7 DEF Next, Step, vars, CreateFinding

(* With requests served one at a time the audit trail of a draft follows   *)
(* the state machine, no transition twice, whatever a crash has lost of it.*)
THEOREM AuditIsInOrder == ASSUME OneWorker PROVE Spec => []AuditInOrder
<1>1. Init => Fresh /\ Unnamed /\ Trailing
  BY DEF Init, Fresh, Unnamed, Trailing, InOrder, Below
<1>2. ASSUME IInv, Fresh, Unnamed, Trailing, [Next]_vars
      PROVE  Fresh' /\ Unnamed' /\ Trailing'
  BY <1>2, NextFresh, StepRefines, NextTrailing DEF SerialInv
<1>3. Trailing => AuditInOrder
  BY DEF Trailing, InOrder, AuditInOrder
<1> QED
  BY <1>1, <1>2, <1>3, IInvHolds, PTL DEF Spec
=============================================================================

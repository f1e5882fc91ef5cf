---------------------------- MODULE CaseworkProofs ----------------------------
(***************************************************************************)
(* Proofs about Casework, for any plan of claims, readings and syntheses,  *)
(* any number of required workstreams, any set of workers that execute the *)
(* run, and any number of crashes and amendments.                          *)
(***************************************************************************)
EXTENDS Casework, FiniteSetTheorems, WellFoundedInduction, TLAPS

-----------------------------------------------------------------------------
(* THE INVARIANT                                                           *)

(* What the tool has let through: its evidence is in order and cites       *)
(* documents of its own workstream only.                                   *)
Accepted(c) == WellFormed(c) /\ AuthorizeEvidence(c) = "authorized"

(* The finding that finding_create stores for a claim, under its n-th id.  *)
FindingOf(c, n) ==
  [id |-> {<<c.name, n>>}, ws |-> c.ws, entities |-> c.entities, critical |-> c.critical,
   open |-> c.sure, coordinator |-> FALSE, from |-> {}]

(* Offline claims have the stable id, the others one of the uuids drawn.   *)
ClaimedBy(f, c) == \E n \in 0..uuids : f = FindingOf(c, n) /\ c.offline = (n = 0)

Claimed(f) == \E c \in Claims : Accepted(c) /\ ClaimedBy(f, c)

(* Stored claims of every required workstream, all of them about e.        *)
Converging(e, F) ==
  /\ F \subseteq findings
  /\ \A g \in F : Claimed(g) /\ e \in g.entities
  /\ {g.ws : g \in F} = Workstreams

Synthesized(f) ==
  f.coordinator /\ \E F \in SUBSET findings : \E e \in f.entities :
                     f = SynthesisOf(e, F) /\ Converging(e, F)

Sourced(f) == Claimed(f) \/ Synthesized(f)

(* Every finding comes from a claim or from a convergence of claims, and   *)
(* no two findings share an id.                                            *)
StoreInv ==
  /\ \A f \in findings : Sourced(f)
  /\ \A f, g \in findings : f.id = g.id => f = g

Holding == {"lookup", "set", "remember", "announce", "partition", "inbox", "notify"}
Stored  == {"remember", "announce", "partition", "inbox", "notify"}

\* The stage belongs to the step, and has what it goes on with.
StageInv(w) ==
  /\ pc[w] = "read" => CallOf(w) \in Readings
  /\ pc[w] \in {"extract", "submit"} => CallOf(w) \in Claims
  /\ pc[w] \in {"converge", "collect", "verify"} => CallOf(w) = Synthesize
  /\ pc[w] \in {"collect", "verify"} => Least(job[w].common) \in Nat
  /\ pc[w] \in Holding => InHand(w) \in Finding /\ CallOf(w) \in Claims \cup {Synthesize}

\* The finding in hand is the one of the step.
Backed(w) ==
  \/ CallOf(w) = Synthesize /\ Synthesized(InHand(w))
  \/ \E c \in Claims : CallOf(w) = c /\ Accepted(c) /\ ClaimedBy(InHand(w), c)

\* The finding in hand, and what has become of it so far.
HandInv(w) ==
  LET f == InHand(w) IN
  /\ pc[w] \in Holding => Backed(w)
  /\ pc[w] \in Stored => \E g \in findings : g.id = f.id
  /\ pc[w] \in {"inbox", "notify"} => Escalable(f) /\ ItemOf(f) \in items
  /\ pc[w] = "notify" => f.id \in inbox

\* The contributors that a synthesis has collected are still there.
LinkInv(w) ==
  LET j == job[w] IN
  /\ pc[w] \in {"check", "converge"} => j.linked = {}
  /\ pc[w] \in {"collect", "verify"} =>
       /\ j.linked \subseteq findings
       /\ \A g \in j.linked : Claimed(g) /\ Least(j.common) \in g.entities
  /\ pc[w] = "collect" => \A i \in 1..(j.k - 1) : \E g \in j.linked : g.ws = Required[i]
  /\ pc[w] = "verify" => \A i \in DOMAIN Required : \E g \in j.linked : g.ws = Required[i]

\* What the checkpoint of step i promises.
Kept(i) ==
  /\ Plan[i] \in Claims /\ Plan[i].offline =>
       \E f \in findings : /\ f.id = StableId(Plan[i])
                           /\ <<Plan[i].ws, f.id>> \in items
                           /\ Escalable(f) => f.id \in inbox
  /\ Plan[i] # Synthesize /\ Refused(Plan[i]) =>
       <<"security.event", {<<Plan[i].name, 0>>}>> \in published

CheckpointInv ==
  /\ \A i \in recorded : Kept(i)
  /\ \A w \in Workers : pc[w] = "record" => Kept(job[w].step)

TypeInv == TypeOK /\ \A w \in Workers : StageInv(w)

CaseInv ==
  /\ TypeInv
  /\ StoreInv
  /\ \A w \in Workers : HandInv(w) /\ LinkInv(w)
  /\ InboxTruthful
  /\ CheckpointInv

(* A finding is carried by the worker that goes on with it after storing   *)
(* it; one that is to be escalated, and that nobody carries, is an orphan. *)
Carried(f) ==
  \E w \in Workers : pc[w] \in {"remember", "announce", "partition", "inbox"} /\ InHand(w) = f

Orphans == {f \in findings : Escalable(f) /\ f.id \notin inbox /\ ~Carried(f)}

LossInv == IsFiniteSet(findings) /\ Cardinality(Orphans) <= crashes

(* Of the passes of a worker through a step that makes the claim: before   *)
(* it is stored, and after.                                                *)
Before(w, i) == pc[w] \in {"extract", "submit", "lookup", "set"} /\ job[w].step = i
After(w, i)  == pc[w] \in Stored \cup {"record"} /\ job[w].step = i

\* Passes that have been made; the next one of that worker would need a crash.
Made(c) ==
  {p \in StepsOf(c) \X Workers : \/ After(p[2], p[1])
                                 \/ p[1] \in recorded /\ ~Before(p[2], p[1])}

CopiesInv == \A c \in Claims : Cardinality(Copies(c)) <= Cardinality(Made(c)) + crashes

-----------------------------------------------------------------------------
(* OPERATORS                                                               *)

(* The least of some numbers is one of them.                               *)
LEMMA LeastIn ==
  ASSUME NEW S \in SUBSET Nat, S # {}
  PROVE  Least(S) \in S
<1>1. \E x \in S : \A y \in S : ~(<<y, x>> \in OpToRel(<, Nat))
  BY NatLessThanWellFounded, WFMin
<1>2. \E x \in S : \A y \in S : ~(y < x)
  BY <1>1 DEF OpToRel
<1>3. \E x \in S : \A y \in S : x <= y
  BY <1>2
<1> QED BY <1>3 DEF Least

(* The first of the required workstreams, and the last.                    *)
LEMMA RequiredTypes ==
  /\ Len(Required) \in Nat \ {0}
  /\ DOMAIN Required = 1..Len(Required)
  /\ \A k \in DOMAIN Required : Required[k] \in Workstreams
<1>1. Required \in Seq(STRING) /\ Required # << >>
  BY PlanAssumption
<1>2. Len(Required) # 0
  BY <1>1
<1> QED BY <1>1, <1>2 DEF Workstreams

(* The calls of a plan, by kind.                                           *)
LEMMA PlanTypes ==
  /\ Len(Plan) \in Nat
  /\ DOMAIN Plan = 1..Len(Plan)
  /\ \A i \in DOMAIN Plan : Plan[i] \in Claims \cup Readings \cup {Synthesize}
  /\ \A c \in Claims : c \in Claim /\ c # Synthesize /\ c.kind = "claim"
  /\ \A c \in Readings : c \in Reading /\ c # Synthesize /\ c.kind = "reading"
<1>1. Plan \in Seq(Calls \cup {Synthesize})
  BY PlanAssumption
<1>2. \A i \in DOMAIN Plan : Plan[i] \in Calls \cup {Synthesize}
  BY <1>1
<1>3. Synthesize \notin Calls /\ Claims \subseteq Calls /\ Readings \subseteq Calls
      /\ Calls = Claims \cup Readings
  BY DEF Calls, Claims, Readings
<1>4. \A c \in Claims : c \in Claim /\ c.kind = "claim"
  BY PlanAssumption DEF Claims
<1>5. \A c \in Readings : c \in Reading /\ c.kind = "reading"
  BY PlanAssumption DEF Reading
<1> QED BY <1>1, <1>2, <1>3, <1>4, <1>5

(* A fresh job of step s.                                                  *)
LEMMA NewJobType ==
  ASSUME NEW s \in DOMAIN Plan
  PROVE  NewJob(s) \in Job /\ NewJob(s) # None /\ NewJob(s).step = s /\ NewJob(s).f = None
<1>1. 1 \in DOMAIN Required
  BY RequiredTypes
<1> QED BY <1>1, NoneAssumption DEF NewJob, Job

-----------------------------------------------------------------------------
(* TYPE CORRECTNESS                                                        *)

(* What an action of w leaves of the workers.                              *)
Moved(w) ==
  /\ pc' \in [Workers -> Steps]
  /\ job' \in [Workers -> Job \cup {None}]
  /\ \A v \in Workers : v # w => pc'[v] = pc[v] /\ job'[v] = job[v]
  /\ (pc'[w] = "idle") = (job'[w] = None)
  /\ StageInv(w)'

(* Whoever runs has a job.                                                 *)
LEMMA BusyHasJob ==
  ASSUME TypeOK, NEW w \in Workers, pc[w] # "idle"
  PROVE  /\ job[w] \in Job /\ job[w] # None
         /\ job[w].step \in DOMAIN Plan
         /\ CallOf(w) = Plan[job[w].step]
         /\ CallOf(w) \in Claims \cup Readings \cup {Synthesize}
  BY PlanTypes DEF TypeOK, Job, CallOf

(* A worker that leaves the run is idle and holds nothing.                 *)
LEMMA LeaveEffect ==
  ASSUME TypeOK, NEW w \in Workers, Leave(w)
  PROVE  Moved(w) /\ pc'[w] = "idle" /\ job'[w] = None
  BY DEF TypeOK, Leave, Goto, Moved, StageInv, Steps, Holding

(* A worker that goes to its next call keeps its job.                      *)
LEMMA GotoEffect ==
  ASSUME TypeOK, NEW w \in Workers, pc[w] # "idle", UNCHANGED job,
         NEW step \in Steps \ {"idle"}, Goto(w, step)
  PROVE  /\ pc' \in [Workers -> Steps] /\ pc'[w] = step /\ job'[w] = job[w]
         /\ \A v \in Workers : v # w => pc'[v] = pc[v] /\ job'[v] = job[v]
         /\ CallOf(w)' = CallOf(w) /\ InHand(w)' = InHand(w)
         /\ StageInv(w)' => Moved(w)
  BY DEF TypeOK, Goto, Moved, CallOf, InHand

(* A worker is done with its step: it checks the next, or leaves the run at*)
(* the end of the plan.                                                    *)
LEMMA AdvanceEffect ==
  ASSUME TypeOK, NEW w \in Workers, pc[w] # "idle", Advance(w)
  PROVE  /\ Moved(w) /\ pc'[w] \in {"idle", "check"}
         /\ pc'[w] = "check" => job'[w] = NewJob(job[w].step + 1)
<1>1. CASE job[w].step < Len(Plan)
  <2>1. job[w].step + 1 \in DOMAIN Plan
    BY <1>1, BusyHasJob, PlanTypes
  <2>2. Goto(w, "check") /\ job' = [job EXCEPT ![w] = NewJob(job[w].step + 1)]
    BY <1>1 DEF Advance
  <2> QED BY <2>1, <2>2, NewJobType DEF TypeOK, Goto, Moved, StageInv, Steps, Holding
<1>2. CASE ~(job[w].step < Len(Plan))
  BY <1>2, LeaveEffect DEF Advance
<1> QED BY <1>1, <1>2
(* The types of everything that is not a worker's.                         *)
StoreTypes ==
  /\ findings \subseteq Finding
  /\ items \subseteq Workstreams \X Id /\ inbox \subseteq Id
  /\ memory \subseteq Nat
  /\ published \subseteq EventTypes \X Id
  /\ recorded \subseteq DOMAIN Plan
  /\ texts \in [Documents -> Texts]
  /\ uuids \in Nat
  /\ crashes \in 0..MaxCrashes

\* An action of worker w.
Act(w) == Start(w) \/ Step(w) \/ Crash(w)

(* The step of one worker leaves the others at the stage they had.         *)
LEMMA TypesMoved ==
  ASSUME NEW w \in Workers, TypeInv, Moved(w), StoreTypes'
  PROVE  TypeInv'
<1>1. \A v \in Workers : v # w => (CallOf(v)' = CallOf(v) /\ InHand(v)' = InHand(v))
  BY DEF Moved, CallOf, InHand
<1>2. \A v \in Workers : StageInv(v)'
  BY <1>1 DEF TypeInv, Moved, StageInv
<1>3. \A v \in Workers : (pc'[v] = "idle") = (job'[v] = None)
  BY DEF TypeInv, TypeOK, Moved
<1> QED BY <1>2, <1>3 DEF TypeInv, TypeOK, StoreTypes, Moved

(* The finding of an accepted claim, and a synthesis, are findings.        *)
LEMMA FindingTypes ==
  /\ \A c \in Claims : \A n \in Nat : FindingOf(c, n) \in Finding
  /\ \A e \in Nat : \A F \in SUBSET Finding : SynthesisOf(e, F) \in Finding
<1>1. ASSUME NEW c \in Claims, NEW n \in Nat
      PROVE  FindingOf(c, n) \in Finding
  <2>1. c \in Claim
    BY PlanTypes
  <2>2. {<<c.name, n>>} \in Id
    BY <2>1 DEF Claim, Id
  <2> QED BY <2>1, <2>2 DEF FindingOf, Finding, Claim
<1>2. ASSUME NEW e \in Nat, NEW F \in SUBSET Finding
      PROVE  SynthesisOf(e, F) \in Finding
  <2>1. \A f \in F : f.id \in Id
    BY DEF Finding
  <2>2. SynthesisId(e, F) \in Id
    <3> DEFINE U == UNION {f.id : f \in F}
               p == <<0, e>>
    <3>1. U \subseteq Nat \X Nat /\ p \in Nat \X Nat
      BY <2>1 DEF Id
    <3>2. SynthesisId(e, F) = U \cup {p}
      BY DEF SynthesisId
    <3> HIDE DEF U, p
    <3> QED BY <3>1, <3>2 DEF Id
  <2>3. Required[1] \in Workstreams
    BY RequiredTypes
  <2> QED BY <2>1, <2>2, <2>3 DEF SynthesisOf, Finding
<1> QED BY <1>1, <1>2

(* The id under which a denied call is published.                          *)
LEMMA CallIds ==
  ASSUME NEW c \in Claims \cup Readings
  PROVE  {<<c.name, 0>>} \in Id
  BY PlanTypes DEF Id, Claim, Reading

(* What the steps publish.                                                 *)
LEMMA PublishTypes ==
  ASSUME published \subseteq EventTypes \X Id, NEW c \in Claims \cup Readings,
         Denial(c) \/ Publish("evidence.rejected", StableId(c)) \/ UNCHANGED published
  PROVE  published' \subseteq EventTypes \X Id
<1> DEFINE id == {<<c.name, 0>>}
<1>1. id \in Id
  BY CallIds
<1>2. \/ published' = published \cup {<<"security.event", id>>}
      \/ published' = published \cup {<<"evidence.rejected", id>>}
      \/ published' = published
  BY DEF Denial, Publish, StableId
<1> HIDE DEF id
<1> QED BY <1>1, <1>2 DEF EventTypes

(* The control of a step.                                                  *)
LEMMA ControlTypes ==
  ASSUME TypeInv, NEW w \in Workers, Start(w) \/ Check(w) \/ Record(w) \/ Crash(w)
  PROVE  TypeInv'
<1> USE DEF TypeInv, TypeOK, StoreTypes, stores
<1>1. CASE Start(w)
  <2>1. 1 \in DOMAIN Plan
    BY <1>1, PlanTypes DEF Start
  <2>2. /\ job' = [job EXCEPT ![w] = NewJob(1)] /\ pc' = [pc EXCEPT ![w] = "check"]
        /\ NewJob(1) \in Job /\ NewJob(1) # None
    BY <1>1, <2>1, NewJobType DEF Start, Goto
  <2>3. Moved(w)
    BY <2>2 DEF Moved, StageInv, Steps, Holding
  <2> QED BY <1>1, <2>3, TypesMoved DEF Start
<1>2. CASE Check(w)
  <2>0. pc[w] = "check" /\ StoreTypes'
    BY <1>2 DEF Check, At
  <2>1. CASE Advance(w)
    BY <2>0, <2>1, AdvanceEffect, TypesMoved
  <2>2. CASE UNCHANGED job
    <3> DEFINE step == IF CallOf(w) = Synthesize THEN "converge"
                       ELSE IF CallOf(w).kind = "reading" THEN "read"
                       ELSE IF CallOf(w).offline THEN "extract" ELSE "submit"
    <3>1. CallOf(w) \in Claims \cup Readings \cup {Synthesize}
      BY <2>0, BusyHasJob
    <3>2. /\ step \in Steps \ {"idle"}
          /\ step = "read" => CallOf(w) \in Readings
          /\ step \in {"extract", "submit"} => CallOf(w) \in Claims
          /\ step \in {"converge", "collect", "verify"} => CallOf(w) = Synthesize
          /\ step \notin {"collect", "verify"} \cup Holding
      BY <3>1, PlanTypes DEF Steps, Holding
    <3>3. Goto(w, step) \/ Advance(w)
      BY <1>2 DEF Check
    <3> HIDE DEF step
    <3>4. ASSUME Goto(w, step) PROVE Moved(w)
      BY <2>0, <2>2, <3>2, <3>4, GotoEffect DEF StageInv
    <3> QED BY <2>0, <2>1, <3>3, <3>4, TypesMoved
  <2> QED BY <1>2, <2>1, <2>2 DEF Check
<1>3. CASE Record(w)
  <2>1. pc[w] = "record" /\ Advance(w)
    BY <1>3 DEF Record, At
  <2>2. StoreTypes'
    BY <1>3, <2>1, BusyHasJob DEF Record
  <2> QED BY <2>1, <2>2, AdvanceEffect, TypesMoved
<1>4. CASE Crash(w)
  <2>1. StoreTypes'
    BY <1>4, PlanAssumption DEF Crash
  <2> QED BY <1>4, <2>1, LeaveEffect, TypesMoved DEF Crash
<1> QED BY <1>1, <1>2, <1>3, <1>4

(* A step that the worker leaves or goes on from with the same job, to a   *)
(* stage that asks for nothing more.                                       *)
LEMMA PlainMove ==
  ASSUME TypeInv, NEW w \in Workers, pc[w] # "idle",
         NEW step \in {"record", "extract", "submit", "converge", "set", "remember", "announce",
                       "partition", "inbox", "notify"},
         Leave(w) \/ (Goto(w, step) /\ UNCHANGED job),
         step \in {"extract", "submit"} => CallOf(w) \in Claims,
         step = "converge" => CallOf(w) = Synthesize,
         step \in Holding => pc[w] \in Holding
  PROVE  Moved(w)
<1>1. CASE Leave(w)
  BY <1>1, LeaveEffect DEF TypeInv
<1>2. CASE Goto(w, step) /\ UNCHANGED job
  <2>1. step \in Steps \ {"idle"}
    BY DEF Steps
  <2>2. StageInv(w)'
    BY <1>2, <2>1, GotoEffect DEF TypeInv, StageInv, Holding
  <2> QED BY <1>2, <2>1, <2>2, GotoEffect DEF TypeInv
<1> QED BY <1>1, <1>2

(* The tools of the agents.                                                *)
LEMMA ToolTypes ==
  ASSUME TypeInv, NEW w \in Workers, Read(w) \/ Extract(w) \/ Reject(w) \/ Accept(w)
  PROVE  TypeInv'
<1>1. CASE Read(w)
  <2>1. pc[w] = "read" /\ CallOf(w) \in Readings
    BY <1>1 DEF Read, At, TypeInv, StageInv
  <2>2. StoreTypes'
    <3>1. Denial(CallOf(w)) \/ UNCHANGED published
      BY <1>1 DEF Read
    <3>2. published' \subseteq EventTypes \X Id
      BY <2>1, <3>1, PublishTypes DEF TypeInv, TypeOK
    <3> QED BY <1>1, <3>2 DEF Read, StoreTypes, TypeInv, TypeOK
  <2>3. Leave(w) \/ (Goto(w, "record") /\ UNCHANGED job)
    BY <1>1 DEF Read
  <2>4. Moved(w)
    BY <2>1, <2>3, PlainMove DEF Holding
  <2> QED BY <2>2, <2>4, TypesMoved
<1>2. CASE Extract(w)
  <2>1. pc[w] = "extract" /\ CallOf(w) \in Claims
    BY <1>2 DEF Extract, At, TypeInv, StageInv
  <2>2. StoreTypes'
    BY <1>2 DEF Extract, stores, StoreTypes, TypeInv, TypeOK
  <2>3. Leave(w) \/ (Goto(w, "submit") /\ UNCHANGED job)
    BY <1>2 DEF Extract
  <2>4. Moved(w)
    BY <2>1, <2>3, PlainMove DEF Holding
  <2> QED BY <2>2, <2>4, TypesMoved
<1>3. CASE Reject(w)
  <2>1. pc[w] = "submit" /\ CallOf(w) \in Claims
    BY <1>3 DEF Reject, At, TypeInv, StageInv
  <2>2. StoreTypes'
    <3>1. \/ Denial(CallOf(w)) \/ UNCHANGED published
          \/ Publish("evidence.rejected", StableId(CallOf(w)))
      BY <1>3 DEF Reject
    <3>2. published' \subseteq EventTypes \X Id
      BY <2>1, <3>1, PublishTypes DEF TypeInv, TypeOK
    <3> QED BY <1>3, <3>2 DEF Reject, StoreTypes, TypeInv, TypeOK
  <2>3. Leave(w) \/ (Goto(w, "record") /\ UNCHANGED job)
    BY <1>3 DEF Reject, Rejected
  <2>4. Moved(w)
    BY <2>1, <2>3, PlainMove DEF Holding
  <2> QED BY <2>2, <2>4, TypesMoved
<1>4. CASE Accept(w)
  <2> DEFINE n == IF CallOf(w).offline THEN 0 ELSE uuids + 1
             f == FindingOf(CallOf(w), n)
  <2>1. pc[w] = "submit" /\ CallOf(w) \in Claims /\ job[w] \in Job
    BY <1>4, BusyHasJob DEF Accept, At, TypeInv, StageInv
  <2>2. f \in Finding
    BY <2>1, FindingTypes DEF TypeInv, TypeOK
  <2>3. job' = [job EXCEPT ![w].f = f] /\ pc' = [pc EXCEPT ![w] = "lookup"]
    BY <1>4 DEF Accept, Goto, FindingOf, StableId
  <2> HIDE DEF f
  <2>4. /\ job'[w] \in Job /\ job'[w].f = f /\ job'[w].step = job[w].step
        /\ job' \in [Workers -> Job \cup {None}]
    BY <2>1, <2>2, <2>3 DEF TypeInv, TypeOK, Job
  <2>5. Moved(w)
    BY <2>1, <2>2, <2>3, <2>4, NoneAssumption
    DEF Moved, StageInv, Holding, Steps, CallOf, InHand, TypeInv, TypeOK
  <2>6. StoreTypes'
    BY <1>4 DEF Accept, stores, StoreTypes, TypeInv, TypeOK
  <2> QED BY <2>5, <2>6, TypesMoved
<1> QED BY <1>1, <1>2, <1>3, <1>4
(* What the tools share.                                                   *)
LEMMA SharedTypes ==
  ASSUME TypeInv, NEW w \in Workers,
         \/ Lookup(w) \/ Set(w) \/ Remember(w) \/ Announce(w)
         \/ Partition(w) \/ Inbox(w) \/ Notify(w)
  PROVE  TypeInv'
<1>1. /\ pc[w] \in Holding /\ pc[w] # "idle" /\ CallOf(w) \in Claims \cup {Synthesize}
      /\ InHand(w) \in Finding /\ InHand(w).id \in Id
      /\ InHand(w).entities \subseteq Nat /\ ItemOf(InHand(w)) \in Workstreams \X Id
  <2>1. pc[w] \in Holding /\ pc[w] # "idle"
    BY DEF Lookup, Set, Remember, Announce, Partition, Inbox, Notify, At, Holding
  <2>2. InHand(w) \in Finding /\ CallOf(w) \in Claims \cup {Synthesize}
    BY <2>1 DEF TypeInv, StageInv
  <2> QED BY <2>1, <2>2 DEF Finding, ItemOf
<1>2. Moved(w)
  <2>1. CASE Lookup(w)
    <3>1. \/ Leave(w) \/ (Goto(w, "record") /\ UNCHANGED job)
          \/ (Goto(w, "set") /\ UNCHANGED job)
      BY <2>1 DEF Lookup, Rejected
    <3> QED BY <1>1, <3>1, PlainMove DEF Holding
  <2>2. CASE Set(w)
    <3>1. (Goto(w, "remember") \/ Goto(w, "partition")) /\ UNCHANGED job
      BY <2>2 DEF Set
    <3> QED BY <1>1, <3>1, PlainMove DEF Holding
  <2>3. CASE Remember(w) \/ Announce(w)
    <3>1. (Goto(w, "announce") \/ Goto(w, "partition")) /\ UNCHANGED job
      BY <2>3 DEF Remember, Announce
    <3> QED BY <1>1, <3>1, PlainMove DEF Holding
  <2>4. CASE Partition(w) \/ Inbox(w) \/ Notify(w)
    <3>1. (Goto(w, "inbox") \/ Goto(w, "record") \/ Goto(w, "notify")) /\ UNCHANGED job
      BY <2>4 DEF Partition, Inbox, Notify
    <3> QED BY <1>1, <3>1, PlainMove DEF Holding
  <2> QED BY <2>1, <2>2, <2>3, <2>4
<1>3. StoreTypes'
  <2> USE DEF StoreTypes, TypeInv, TypeOK
  <2>1. CASE Lookup(w)
    BY <2>1 DEF Lookup, stores
  <2>2. CASE Set(w)
    BY <1>1, <2>2 DEF Set
  <2>3. CASE Remember(w)
    BY <1>1, <2>3 DEF Remember, BankOutcomes
  <2>4. CASE Announce(w)
    BY <1>1, <2>4 DEF Announce, Publish, EventTypes
  <2>5. CASE Partition(w)
    BY <1>1, <2>5 DEF Partition
  <2>6. CASE Inbox(w)
    BY <1>1, <2>6 DEF Inbox
  <2>7. CASE Notify(w)
    BY <1>1, <2>7 DEF Notify, Publish, EventTypes
  <2> QED BY <2>1, <2>2, <2>3, <2>4, <2>5, <2>6, <2>7
<1> QED BY <1>2, <1>3, TypesMoved

(* The reads of a synthesis.                                               *)
LEMMA SynthesisTypes ==
  ASSUME TypeInv, NEW w \in Workers, Converge(w) \/ Collect(w) \/ Verify(w)
  PROVE  TypeInv'
<1>1. /\ pc[w] \in {"converge", "collect", "verify"} /\ pc[w] # "idle"
      /\ CallOf(w) = Synthesize /\ job[w] \in Job
      /\ TypeOK
  BY BusyHasJob DEF Converge, Collect, Verify, At, TypeInv, StageInv
<1>2. StoreTypes'
  BY <1>1 DEF Converge, Collect, Verify, stores, TypeOK, StoreTypes
<1>3. ASSUME NEW step \in {"converge", "collect", "verify", "lookup"},
             NEW j \in Job, job' = [job EXCEPT ![w] = j], pc' = [pc EXCEPT ![w] = step],
             j.step = job[w].step,
             step \in {"collect", "verify"} => Least(j.common) \in Nat,
             step = "lookup" => j.f \in Finding
      PROVE  Moved(w)
  <2>1. /\ pc'[w] = step /\ job'[w] = j /\ step \in Steps \ {"idle"}
        /\ job' \in [Workers -> Job \cup {None}] /\ pc' \in [Workers -> Steps]
    BY <1>1, <1>3 DEF TypeOK, Steps
  <2>2. CallOf(w)' = CallOf(w) /\ InHand(w)' = j.f
    BY <1>3, <2>1 DEF CallOf, InHand
  <2>3. StageInv(w)'
    BY <1>1, <1>3, <2>1, <2>2 DEF StageInv, Holding
  <2> QED BY <1>1, <1>3, <2>1, <2>3, NoneAssumption DEF Moved, TypeOK
<1>4. CASE Converge(w)
  <2> DEFINE j == job[w]
             entities == UNION {f.entities : f \in Of(Required[j.k])}
             common == IF j.k = 1 THEN entities ELSE j.common \cap entities
  <2>1. j \in Job /\ j.k \in 1..Len(Required) /\ Len(Required) \in Nat
    BY <1>1, RequiredTypes DEF Job
  <2>2. common \in SUBSET Nat
    <3>1. Of(Required[j.k]) \subseteq Finding
      BY <1>1 DEF Of, TypeOK
    <3>2. entities \subseteq Nat
      BY <3>1 DEF Finding
    <3> QED BY <2>1, <3>2 DEF Job
  <2> HIDE DEF common
  <2>3. ASSUME common = {} /\ Goto(w, "record") /\ UNCHANGED job
      PROVE  Moved(w)
    BY <1>1, <2>3, PlainMove DEF Holding
  <2>4. ASSUME /\ common # {} /\ j.k < Len(Required)
               /\ job' = [job EXCEPT ![w].common = common, ![w].k = j.k + 1]
               /\ UNCHANGED pc
      PROVE  Moved(w)
    <3> DEFINE r == [j EXCEPT !.common = common, !.k = j.k + 1]
    <3>1. j.k + 1 \in DOMAIN Required
      BY <2>1, <2>4, RequiredTypes
    <3>2. r \in Job /\ r.step = j.step /\ job' = [job EXCEPT ![w] = r]
      BY <1>1, <2>1, <2>2, <2>4, <3>1 DEF Job, TypeOK
    <3>3. pc[w] = "converge" /\ pc' = [pc EXCEPT ![w] = "converge"]
      BY <1>1, <1>4, <2>4 DEF Converge, At, TypeOK
    <3> HIDE DEF r, j
    <3> QED BY <1>3, <3>2, <3>3 DEF j
  <2>5. ASSUME /\ common # {} /\ j.k = Len(Required)
               /\ job' = [job EXCEPT ![w].common = {Least(common)}, ![w].k = 1]
               /\ Goto(w, "collect")
      PROVE  Moved(w)
    <3> DEFINE r == [j EXCEPT !.common = {Least(common)}, !.k = 1]
    <3>1. Least(common) \in Nat /\ {Least(common)} \in SUBSET Nat /\ {Least(common)} # {}
      BY <2>2, <2>5, LeastIn
    <3>2. Least({Least(common)}) \in Nat
      BY <3>1, LeastIn
    <3>3. /\ r \in Job /\ r.step = j.step /\ job' = [job EXCEPT ![w] = r]
          /\ r.common = {Least(common)}
      <4>1. 1 \in DOMAIN Required
        BY RequiredTypes
      <4> QED BY <1>1, <2>1, <2>5, <3>1, <4>1 DEF Job, TypeOK
    <3>4. pc' = [pc EXCEPT ![w] = "collect"]
      BY <2>5 DEF Goto
    <3> HIDE DEF r, j
    <3> QED BY <1>3, <3>2, <3>3, <3>4 DEF j
  <2>6. Moved(w)
    BY <1>4, <2>3, <2>4, <2>5 DEF Converge, common
  <2> QED BY <1>2, <2>6, TypesMoved
<1>5. CASE Collect(w)
  <2> DEFINE j == job[w]
             found == Convergent(Required[j.k], Least(j.common))
             k == IF j.k < Len(Required) THEN j.k + 1 ELSE j.k
             r == [j EXCEPT !.linked = j.linked \cup found, !.k = k]
             step == IF j.k < Len(Required) THEN "collect" ELSE "verify"
  <2>1. /\ j \in Job /\ j.k \in 1..Len(Required) /\ Len(Required) \in Nat
        /\ Least(j.common) \in Nat
    BY <1>1, <1>5, RequiredTypes DEF Job, Collect, At, TypeInv, StageInv
  <2>2. found \subseteq Finding /\ k \in DOMAIN Required
    BY <1>1, <2>1, RequiredTypes DEF Convergent, Of, TypeOK
  <2> HIDE DEF found, k
  <2>3. ASSUME found = {} /\ Goto(w, "record") /\ UNCHANGED job
      PROVE  Moved(w)
    BY <1>1, <2>3, PlainMove DEF Holding
  <2>4. ASSUME /\ job' = [job EXCEPT ![w].linked = @ \cup found, ![w].k = k]
               /\ Goto(w, step)
      PROVE  Moved(w)
    <3>1. r \in Job /\ r.step = j.step /\ r.common = j.common /\ job' = [job EXCEPT ![w] = r]
      BY <1>1, <2>1, <2>2, <2>4 DEF Job, TypeOK
    <3>2. pc' = [pc EXCEPT ![w] = step] /\ step \in {"collect", "verify"}
      BY <2>4 DEF Goto
    <3> HIDE DEF r, step
    <3> QED BY <1>3, <2>1, <3>1, <3>2
  <2>5. Moved(w)
    BY <1>5, <2>3, <2>4 DEF Collect, found, k
  <2> QED BY <1>2, <2>5, TypesMoved
<1>6. CASE Verify(w)
  <2> DEFINE j == job[w]
             f == SynthesisOf(Least(j.common), j.linked)
             r == [j EXCEPT !.f = f]
  <2>1. j \in Job /\ j.linked \in SUBSET Finding /\ Least(j.common) \in Nat
    BY <1>1, <1>6 DEF Job, Verify, At, TypeInv, StageInv
  <2>2. f \in Finding
    BY <2>1, FindingTypes
  <2> HIDE DEF f
  <2>3. ASSUME job' = [job EXCEPT ![w].f = f] /\ Goto(w, "lookup")
      PROVE  Moved(w)
    <3>1. r \in Job /\ r.step = j.step /\ r.f = f /\ job' = [job EXCEPT ![w] = r]
      BY <1>1, <2>1, <2>2, <2>3 DEF Job, TypeOK
    <3>2. pc' = [pc EXCEPT ![w] = "lookup"]
      BY <2>3 DEF Goto
    <3> HIDE DEF r, j
    <3> QED BY <1>3, <2>2, <3>1, <3>2 DEF j
  <2>4. ASSUME Leave(w) \/ (Goto(w, "record") /\ UNCHANGED job)
      PROVE  Moved(w)
    BY <1>1, <2>4, PlainMove DEF Holding
  <2>5. Moved(w)
    BY <1>6, <2>3, <2>4 DEF Verify, f
  <2> QED BY <1>2, <2>5, TypesMoved
<1> QED BY <1>4, <1>5, <1>6

(* The initial state is well typed.                                        *)
LEMMA InitTypes == Init => TypeInv
<1> SUFFICES ASSUME Init PROVE TypeInv
  OBVIOUS
<1>1. TypeOK
  BY PlanAssumption DEF Init, TypeOK, Steps, Texts
<1>2. \A w \in Workers : StageInv(w)
  BY DEF Init, StageInv, Holding
<1> QED BY <1>1, <1>2 DEF TypeInv

(* A worker's step keeps the types.                                        *)
LEMMA ActTypes ==
  ASSUME TypeInv, NEW w \in Workers, Act(w)
  PROVE  TypeInv'
  BY ControlTypes, ToolTypes, SharedTypes, SynthesisTypes DEF Act, Step

(* An amendment, and a stuttering step, leave all but the documents alone. *)
LEMMA AmendTypes ==
  ASSUME TypeInv, UNCHANGED vars \/ \E d \in Documents : \E text \in Texts : Amend(d, text)
  PROVE  TypeInv'
<1>1. UNCHANGED <<stores, recorded, uuids, pc, job, crashes>> /\ texts' \in [Documents -> Texts]
  BY DEF Amend, vars, stores, TypeInv, TypeOK
<1>2. \A w \in Workers : StageInv(w)'
  BY <1>1 DEF TypeInv, StageInv, CallOf, InHand
<1> QED BY <1>1, <1>2 DEF TypeInv, TypeOK, stores

(* Every step keeps the types.                                             *)
LEMMA NextTypes == TypeInv /\ [Next]_vars => TypeInv'
  BY ActTypes, AmendTypes DEF Next, Act

(* The types hold always, with the stages.                                 *)
LEMMA TypesAlways == Spec => []TypeInv
  BY InitTypes, NextTypes, PTL DEF Spec

(* The casework is type correct: no worker runs without a step, none goes  *)
(* on with a finding it does not have.                                     *)
THEOREM TypeCorrect == Spec => []TypeOK
<1>1. TypeInv => TypeOK
  BY DEF TypeInv
<1> QED BY <1>1, TypesAlways, PTL
-----------------------------------------------------------------------------
(* WHAT AN ID SAYS                                                         *)

(* What the id and the fields of a claimed finding say.                    *)
LEMMA ClaimedFields ==
  ASSUME NEW f, NEW c \in Claims, ClaimedBy(f, c), uuids \in Nat
  PROVE  /\ \E n \in 0..uuids : f.id = {<<c.name, n>>} /\ c.offline = (n = 0)
         /\ Evidence(f) = {c.name}
         /\ f.ws = c.ws /\ f.entities = c.entities /\ ~f.coordinator
         /\ f.critical = c.critical /\ f.open = c.sure
         /\ c.name \in Nat \ {0}
<1>1. PICK n \in 0..uuids : f = FindingOf(c, n) /\ c.offline = (n = 0)
  BY DEF ClaimedBy
<1>2. c.name \in Nat \ {0}
  BY PlanTypes DEF Claim
<1>3. f.id = {<<c.name, n>>}
  BY <1>1 DEF FindingOf
<1>4. {part[1] : part \in f.id} = {c.name}
  BY <1>3
<1> QED BY <1>1, <1>2, <1>3, <1>4 DEF FindingOf, Evidence

(* Of claims, the id is the whole finding.                                 *)
LEMMA ClaimsById ==
  ASSUME NEW f, NEW g, Claimed(f), Claimed(g), f.id = g.id, uuids \in Nat
  PROVE  f = g
<1>1. PICK c \in Claims, m \in 0..uuids : f = FindingOf(c, m)
  BY DEF Claimed, ClaimedBy
<1>2. PICK d \in Claims, n \in 0..uuids : g = FindingOf(d, n)
  BY DEF Claimed, ClaimedBy
<1>3. {<<c.name, m>>} = {<<d.name, n>>}
  BY <1>1, <1>2 DEF FindingOf
<1>4. c.name = d.name /\ m = n
  <2>1. <<c.name, m>> = <<d.name, n>>
    BY <1>3, Zenon
  <2> QED BY <2>1
<1>5. c = d
  BY <1>4, PlanAssumption DEF Claims
<1> QED BY <1>1, <1>2, <1>4, <1>5

(* What those of a synthesis say.                                          *)
LEMMA SynthesizedFields ==
  ASSUME NEW f, Synthesized(f)
  PROVE  /\ f.coordinator /\ Escalable(f)
         /\ \E e : <<0, e>> \in f.id
<1>1. PICK F \in SUBSET findings, e \in f.entities : f = SynthesisOf(e, F)
  BY DEF Synthesized
<1>2. f.critical /\ f.open /\ f.id = SynthesisId(e, F)
  BY <1>1 DEF SynthesisOf
<1> QED BY <1>2 DEF Escalable, SynthesisId, Synthesized

(* The id tells a synthesis from a claim, and what of it escalates.        *)
LEMMA SameId ==
  ASSUME NEW f, NEW g, Sourced(f), Sourced(g), f.id = g.id, uuids \in Nat
  PROVE  /\ Escalable(f) = Escalable(g)
         /\ Claimed(f) \/ Claimed(g) => f = g
<1>1. ASSUME NEW x, NEW y, Claimed(x), Synthesized(y)
      PROVE  x.id # y.id
  <2>1. PICK c \in Claims : ClaimedBy(x, c)
    BY <1>1 DEF Claimed
  <2>2. PICK n : x.id = {<<c.name, n>>} /\ c.name # 0
    BY <2>1, ClaimedFields
  <2>3. PICK e : <<0, e>> \in y.id
    BY <1>1, SynthesizedFields
  <2> QED BY <2>2, <2>3
<1>2. CASE Claimed(f) /\ Claimed(g)
  BY <1>2, ClaimsById
<1>3. CASE Synthesized(f) /\ Synthesized(g)
  <2>1. ~Claimed(f) /\ ~Claimed(g)
    BY <1>1, <1>3
  <2>2. Escalable(f) /\ Escalable(g)
    BY <1>3, SynthesizedFields
  <2> QED BY <2>1, <2>2
<1> QED BY <1>1, <1>2, <1>3 DEF Sourced

(* A finding is a claim's or the coordinator's, never both.                *)
LEMMA ClaimsOrSyntheses ==
  ASSUME NEW f, Sourced(f), uuids \in Nat
  PROVE  Claimed(f) <=> ~f.coordinator
<1>1. CASE Claimed(f)
  <2>1. PICK c \in Claims : ClaimedBy(f, c)
    BY <1>1 DEF Claimed
  <2> QED BY <1>1, <2>1, ClaimedFields
<1>2. CASE Synthesized(f)
  <2>1. f.coordinator
    BY <1>2, SynthesizedFields
  <2>2. ASSUME Claimed(f) PROVE FALSE
    <3>1. PICK c \in Claims : ClaimedBy(f, c)
      BY <2>2 DEF Claimed
    <3>2. ~f.coordinator
      BY <3>1, ClaimedFields
    <3> QED BY <2>1, <3>2
  <2> QED BY <2>1, <2>2
<1> QED BY <1>1, <1>2 DEF Sourced

-----------------------------------------------------------------------------
(* WHAT A STEP LEAVES                                                      *)

(* Claims that are stored stay as they are; of any finding the id stays,   *)
(* and whether it escalates; the other stores only grow.                   *)
Grows ==
  /\ uuids \in Nat /\ uuids' \in Nat /\ uuids <= uuids'
  /\ \A f \in findings : Claimed(f) => f \in findings'
  /\ \A f \in findings : \E g \in findings' : g.id = f.id /\ Escalable(g) = Escalable(f)
  /\ items \subseteq items' /\ inbox \subseteq inbox' /\ published \subseteq published'
  /\ recorded \subseteq recorded'

(* A finding that comes from a claim does so for good.                     *)
LEMMA ClaimedStays ==
  ASSUME Grows, NEW f
  PROVE  /\ \A c \in Claims : ClaimedBy(f, c) => ClaimedBy(f, c)'
         /\ Claimed(f) => Claimed(f)'
<1>1. \A n \in 0..uuids : n \in 0..uuids'
  BY DEF Grows
<1>2. \A c \in Claims : ClaimedBy(f, c) => ClaimedBy(f, c)'
  BY <1>1 DEF ClaimedBy
<1> QED BY <1>2 DEF Claimed

(* So does one that comes from anywhere.                                   *)
LEMMA SourcedStays ==
  ASSUME Grows, NEW f
  PROVE  /\ Synthesized(f) => Synthesized(f)'
         /\ Sourced(f) => Sourced(f)'
<1>1. ASSUME Synthesized(f) PROVE Synthesized(f)'
  <2>1. PICK F \in SUBSET findings, e \in f.entities :
          f = SynthesisOf(e, F) /\ Converging(e, F)
    BY <1>1 DEF Synthesized
  <2>2. \A g \in F : Claimed(g) /\ Claimed(g)' /\ g \in findings'
    BY <2>1, ClaimedStays DEF Converging, Grows
  <2>3. F \in SUBSET findings' /\ Converging(e, F)'
    BY <2>1, <2>2 DEF Converging
  <2> QED BY <1>1, <2>1, <2>3 DEF Synthesized
<1> QED BY <1>1, ClaimedStays DEF Sourced

(* Only one call writes findings.                                          *)
LEMMA StoreSteps ==
  ASSUME NEW w \in Workers, Act(w), ~Set(w)
  PROVE  UNCHANGED findings
  BY DEF Act, Start, Crash, Step, Check, Record, Read, Extract, Reject, Accept, Lookup, Remember,
         Announce, Partition, Inbox, Notify, Converge, Collect, Verify, stores

(* No worker takes anything back.                                          *)
LEMMA ActGrows ==
  ASSUME CaseInv, NEW w \in Workers, Act(w)
  PROVE  Grows
<1>1. uuids \in Nat
  BY DEF CaseInv, TypeInv, TypeOK
<1>2. uuids' \in {uuids, uuids + 1}
  BY DEF Act, Start, Crash, Step, Check, Record, Read, Extract, Reject, Accept, Lookup, Set, Remember,
         Announce, Partition, Inbox, Notify, Converge, Collect, Verify
<1>3. recorded \subseteq recorded'
  BY DEF Act, Start, Crash, Step, Check, Record, Read, Extract, Reject, Accept, Lookup, Set, Remember,
         Announce, Partition, Inbox, Notify, Converge, Collect, Verify
<1>4. items \subseteq items' /\ inbox \subseteq inbox'
  BY DEF Act, Start, Crash, Step, Check, Record, Read, Extract, Reject, Accept, Lookup, Set, Remember,
         Announce, Partition, Inbox, Notify, Converge, Collect, Verify, stores
<1>5. published \subseteq published'
  BY DEF Act, Start, Crash, Step, Check, Record, Read, Extract, Reject, Accept, Lookup, Set, Remember,
         Announce, Partition, Inbox, Notify, Converge, Collect, Verify, stores, Denial, Publish
<1>6. CASE Set(w)
  <2> DEFINE h == InHand(w)
  <2>1. findings' = {f \in findings : f.id # h.id} \cup {h}
    BY <1>6 DEF Set
  <2>2. Sourced(h) /\ \A f \in findings : Sourced(f)
    <3>1. pc[w] \in Holding
      BY <1>6 DEF Set, At, Holding
    <3> QED BY <3>1 DEF CaseInv, HandInv, Backed, Sourced, Claimed, StoreInv
  <2>3. \A f \in findings : f.id = h.id => Escalable(f) = Escalable(h) /\ (Claimed(f) => f = h)
    BY <1>1, <2>2, SameId
  <2> HIDE DEF h
  <2>4. /\ \A f \in findings : Claimed(f) => f \in findings'
        /\ \A f \in findings : \E g \in findings' : g.id = f.id /\ Escalable(g) = Escalable(f)
    BY <2>1, <2>3
  <2> QED BY <1>1, <1>2, <1>3, <1>4, <1>5, <2>4 DEF Grows
<1>7. CASE ~Set(w)
  <2>1. findings' = findings
    BY <1>7, StoreSteps
  <2> QED BY <1>1, <1>2, <1>3, <1>4, <1>5, <2>1 DEF Grows
<1> QED BY <1>6, <1>7

(* The finding in hand of a step that goes on stays what it was.           *)
LEMMA BackedStays ==
  ASSUME Grows, NEW v \in Workers, job'[v] = job[v], Backed(v)
  PROVE  Backed(v)'
<1>1. InHand(v)' = InHand(v) /\ CallOf(v)' = CallOf(v)
  BY DEF InHand, CallOf
<1>2. ASSUME NEW f, f = InHand(v)
      PROVE  Backed(v)'
  <2>1. CASE CallOf(v) = Synthesize /\ Synthesized(f)
    <3>1. Synthesized(f)'
      BY <2>1, SourcedStays
    <3> QED BY <1>1, <1>2, <2>1, <3>1 DEF Backed
  <2>2. ASSUME NEW c \in Claims, c = CallOf(v), Accepted(c), ClaimedBy(f, c)
        PROVE  Backed(v)'
    <3>1. ClaimedBy(f, c)'
      BY <2>2, ClaimedStays
    <3> QED BY <1>1, <1>2, <2>2, <3>1 DEF Backed
  <2> QED BY <1>2, <2>1, <2>2 DEF Backed
<1> QED BY <1>2

(* What a worker that does not move knows stays true.                      *)
LEMMA OthersKeep ==
  ASSUME Grows, NEW v \in Workers, pc'[v] = pc[v], job'[v] = job[v]
  PROVE  (HandInv(v) => HandInv(v)') /\ (LinkInv(v) => LinkInv(v)')
<1>1. InHand(v)' = InHand(v) /\ CallOf(v)' = CallOf(v)
  BY DEF InHand, CallOf
<1>2. ASSUME HandInv(v) PROVE HandInv(v)'
  <2>1. pc[v] \in Stored => \E g \in findings' : g.id = InHand(v).id
    BY <1>2 DEF HandInv, Grows
  <2>2. pc[v] \in Holding => Backed(v)'
    BY <1>2, BackedStays DEF HandInv
  <2> QED BY <1>1, <1>2, <2>1, <2>2 DEF HandInv, Grows
<1>3. ASSUME LinkInv(v) PROVE LinkInv(v)'
  <2>1. ASSUME pc[v] \in {"collect", "verify"}
        PROVE  /\ job[v].linked \subseteq findings'
               /\ \A g \in job[v].linked : Claimed(g)' /\ Least(job[v].common) \in g.entities
    BY <1>3, <2>1, ClaimedStays DEF LinkInv, Grows
  <2> QED BY <1>3, <2>1 DEF LinkInv
<1> QED BY <1>2, <1>3

(* A promise of a checkpoint stays kept.                                   *)
LEMMA KeptStays ==
  ASSUME Grows, NEW i \in DOMAIN Plan, Kept(i)
  PROVE  Kept(i)'
<1>1. ASSUME NEW f \in findings, f.id = StableId(Plan[i]), <<Plan[i].ws, f.id>> \in items,
             Escalable(f) => f.id \in inbox
      PROVE  \E g \in findings' : /\ g.id = StableId(Plan[i])
                                  /\ <<Plan[i].ws, g.id>> \in items'
                                  /\ Escalable(g) => g.id \in inbox'
  BY <1>1 DEF Grows
<1>2. Plan[i] # Synthesize /\ Refused(Plan[i]) =>
        <<"security.event", {<<Plan[i].name, 0>>}>> \in published'
  BY DEF Kept, Grows
<1> QED BY <1>1, <1>2 DEF Kept
-----------------------------------------------------------------------------
(* WHAT A WORKER KNOWS AFTER ITS STEP                                      *)

(* A verified claim has been accepted.                                     *)
LEMMA VerifiedAccepted ==
  ASSUME NEW c \in Claims, Verdict(c) = "verified"
  PROVE  Accepted(c)
  BY DEF Verdict, Accepted, AuthorizeEvidence

(* The tool lets through the finding of the step's claim.                  *)
LEMMA AcceptHand ==
  ASSUME CaseInv, NEW w \in Workers, Accept(w)
  PROVE  pc'[w] = "lookup" /\ Backed(w)'
<1> DEFINE c == CallOf(w)
           n == IF c.offline THEN 0 ELSE uuids + 1
<1>1. /\ pc[w] = "submit" /\ c \in Claims /\ job[w] \in Job /\ uuids \in Nat
      /\ job \in [Workers -> Job \cup {None}] /\ pc \in [Workers -> Steps]
  BY BusyHasJob DEF Accept, At, CaseInv, TypeInv, TypeOK, StageInv
<1>2. job' = [job EXCEPT ![w].f = FindingOf(c, n)] /\ pc' = [pc EXCEPT ![w] = "lookup"]
  BY DEF Accept, Goto, FindingOf, StableId
<1>3. job'[w].f = FindingOf(c, n) /\ job'[w].step = job[w].step
  BY <1>1, <1>2 DEF Job
<1>4. CallOf(w)' = c /\ InHand(w)' = FindingOf(c, n)
  BY <1>3 DEF CallOf, InHand
<1>5. n \in 0..uuids' /\ c.offline = (n = 0)
  <2>1. c.offline \in BOOLEAN
    BY <1>1, PlanTypes DEF Claim
  <2>2. uuids' = IF c.offline THEN uuids ELSE uuids + 1
    BY DEF Accept
  <2> QED BY <1>1, <2>1, <2>2
<1>6. Accepted(c)
  BY <1>1, VerifiedAccepted DEF Accept
<1> HIDE DEF c, n
<1>7. \E m \in 0..uuids' : FindingOf(c, n) = FindingOf(c, m) /\ c.offline = (m = 0)
  BY <1>5
<1> QED BY <1>1, <1>2, <1>4, <1>6, <1>7 DEF Backed, ClaimedBy, c

(* The synthesis verified is the one of the findings collected.            *)
LEMMA VerifyHand ==
  ASSUME CaseInv, NEW w \in Workers, Verify(w), pc'[w] = "lookup"
  PROVE  Backed(w)'
<1> SUFFICES ASSUME NEW j, NEW e, NEW F, j = job[w], e = Least(j.common), F = j.linked
             PROVE  Backed(w)'
  OBVIOUS
<1>1. /\ pc[w] = "verify" /\ CallOf(w) = Synthesize /\ j \in Job /\ e \in Nat
      /\ job \in [Workers -> Job \cup {None}] /\ pc \in [Workers -> Steps]
      /\ UNCHANGED <<findings, uuids>> /\ findings \subseteq Finding
  BY BusyHasJob DEF Verify, At, CaseInv, TypeInv, TypeOK, StageInv, stores
<1>2. job' = [job EXCEPT ![w].f = SynthesisOf(e, F)]
  BY <1>1 DEF Verify, Leave, Goto
<1>3. job'[w].f = SynthesisOf(e, F) /\ job'[w].step = j.step
  BY <1>1, <1>2 DEF Job
<1>4. CallOf(w)' = Synthesize /\ InHand(w)' = SynthesisOf(e, F)
  BY <1>1, <1>3 DEF CallOf, InHand
<1>5. /\ F \subseteq findings
      /\ \A g \in F : Claimed(g) /\ e \in g.entities
      /\ \A i \in DOMAIN Required : \E g \in F : g.ws = Required[i]
  BY <1>1 DEF CaseInv, LinkInv
<1>6. {g.ws : g \in F} = Workstreams
  <2>1. \A g \in F : g.ws \in Workstreams
    BY <1>1, <1>5 DEF Finding
  <2> QED BY <1>5, <2>1 DEF Workstreams
<1>7. Converging(e, F)'
  BY <1>1, <1>5, <1>6 DEF Converging, Claimed, ClaimedBy
<1>8. /\ SynthesisOf(e, F).coordinator
      /\ e \in SynthesisOf(e, F).entities
  BY DEF SynthesisOf
<1>9. Synthesized(SynthesisOf(e, F))'
  BY <1>1, <1>5, <1>7, <1>8 DEF Synthesized
<1> QED BY <1>4, <1>9 DEF Backed

(* A worker knows what has become of its finding.                          *)
LEMMA SelfHand ==
  ASSUME CaseInv, NEW w \in Workers, Act(w), Moved(w)
  PROVE  HandInv(w)'
<1>1. /\ Grows /\ TypeOK /\ HandInv(w)
      /\ pc \in [Workers -> Steps] /\ pc' \in [Workers -> Steps]
  BY ActGrows DEF CaseInv, TypeInv, TypeOK, Moved
<1>2. ASSUME pc'[w] \notin Holding PROVE HandInv(w)'
  BY <1>2 DEF HandInv, Holding, Stored
<1>3. ASSUME Accept(w) \/ (Verify(w) /\ pc'[w] = "lookup")
      PROVE  HandInv(w)'
  BY <1>3, AcceptHand, VerifyHand DEF HandInv, Stored, Holding, Verify, Leave, Goto
<1>4. ASSUME \/ Lookup(w) \/ Set(w) \/ Remember(w) \/ Announce(w)
             \/ Partition(w) \/ Inbox(w) \/ Notify(w),
             pc'[w] \in Holding
      PROVE  HandInv(w)'
  <2>1. pc[w] \in Holding /\ Backed(w)
    BY <1>1, <1>4 DEF HandInv, Lookup, Set, Remember, Announce, Partition, Inbox, Notify, At, Holding
  <2>2. job'[w] = job[w]
    BY <1>1, <1>4 DEF Lookup, Set, Remember, Announce, Partition, Inbox, Notify, Rejected, Leave,
       Goto, Holding
  <2>3. InHand(w)' = InHand(w) /\ Backed(w)'
    BY <1>1, <2>1, <2>2, BackedStays DEF InHand
  <2>4. CASE Lookup(w)
    <3>1. pc'[w] = "set"
      BY <1>1, <1>4, <2>4 DEF Lookup, Rejected, Leave, Goto, Holding
    <3> QED BY <2>3, <3>1 DEF HandInv, Stored
  <2>5. CASE Set(w)
    <3>1. InHand(w) \in findings' /\ pc'[w] \in {"remember", "partition"}
      BY <1>1, <2>5 DEF Set, Goto
    <3> QED BY <2>3, <3>1 DEF HandInv
  <2>6. CASE Remember(w) \/ Announce(w)
    <3>1. pc[w] \in Stored /\ pc'[w] \in {"announce", "partition"} /\ findings' = findings
      BY <1>1, <2>6 DEF Remember, Announce, Goto, At, Stored
    <3> QED BY <1>1, <2>3, <3>1 DEF HandInv
  <2>7. CASE Partition(w)
    <3>1. /\ pc[w] \in Stored /\ pc'[w] = "inbox" /\ findings' = findings
          /\ Escalable(InHand(w)) /\ ItemOf(InHand(w)) \in items'
      BY <1>1, <1>4, <2>7 DEF Partition, Goto, At, Stored, Holding
    <3> QED BY <1>1, <2>3, <3>1 DEF HandInv
  <2>8. CASE Inbox(w)
    <3>1. /\ pc[w] = "inbox" /\ pc'[w] = "notify" /\ findings' = findings
          /\ InHand(w).id \in inbox' /\ items' = items
      BY <1>1, <1>4, <2>8 DEF Inbox, Goto, At, Holding
    <3>2. \E g \in findings : g.id = InHand(w).id
      BY <1>1, <3>1 DEF HandInv, Stored
    <3> QED BY <1>1, <2>3, <3>1, <3>2 DEF HandInv
  <2>9. CASE Notify(w)
    BY <1>1, <1>4, <2>9 DEF Notify, Goto, Holding
  <2> QED BY <1>4, <2>4, <2>5, <2>6, <2>7, <2>8, <2>9
<1>5. ASSUME Start(w) \/ Crash(w) \/ Check(w) \/ Record(w) \/ Read(w) \/ Extract(w) \/ Reject(w)
             \/ Converge(w) \/ Collect(w) \/ (Verify(w) /\ pc'[w] # "lookup")
      PROVE  pc'[w] \notin Holding
  <2>1. CASE Start(w) \/ Crash(w)
    BY <1>1, <2>1 DEF Start, Crash, Leave, Goto, Holding
  <2>2. CASE Check(w) \/ Record(w)
    <3>1. CASE Advance(w)
      BY <1>1, <2>2, <3>1, AdvanceEffect DEF Check, Record, At, Holding
    <3>2. CASE ~Advance(w)
      BY <1>1, <2>2, <3>2 DEF Check, Record, Goto, Holding
    <3> QED BY <3>1, <3>2
  <2>3. CASE Read(w) \/ Extract(w) \/ Reject(w)
    BY <1>1, <2>3 DEF Read, Extract, Reject, Rejected, Leave, Goto, Holding
  <2>4. CASE Converge(w) \/ Collect(w) \/ (Verify(w) /\ pc'[w] # "lookup")
    BY <1>1, <2>4 DEF Converge, Collect, Verify, Leave, Goto, Holding, At
  <2> QED BY <1>5, <2>1, <2>2, <2>3, <2>4
<1> QED BY <1>2, <1>3, <1>4, <1>5 DEF Act, Step
(* What a synthesis has collected by then.                                 *)
LEMMA CollectLinks ==
  ASSUME CaseInv, NEW w \in Workers, Collect(w), pc'[w] # "record"
  PROVE  LinkInv(w)'
<1> SUFFICES ASSUME NEW j, NEW e, NEW found, j = job[w], e = Least(j.common),
                    found = Convergent(Required[j.k], e)
             PROVE  LinkInv(w)'
  OBVIOUS
<1> DEFINE k == IF j.k < Len(Required) THEN j.k + 1 ELSE j.k
<1>1. /\ pc[w] = "collect" /\ j \in Job /\ j.k \in 1..Len(Required) /\ Len(Required) \in Nat
      /\ job \in [Workers -> Job \cup {None}] /\ pc \in [Workers -> Steps]
      /\ UNCHANGED <<findings, uuids>> /\ uuids \in Nat /\ DOMAIN Required = 1..Len(Required)
  BY BusyHasJob, RequiredTypes DEF Collect, At, CaseInv, TypeInv, TypeOK, stores, Job
<1>2. /\ found # {}
      /\ job' = [job EXCEPT ![w].linked = @ \cup found, ![w].k = k]
      /\ pc' = [pc EXCEPT ![w] = IF j.k < Len(Required) THEN "collect" ELSE "verify"]
  BY <1>1 DEF Collect, Goto
<1>3. /\ job'[w].linked = j.linked \cup found /\ job'[w].k = k /\ job'[w].common = j.common
      /\ pc'[w] = IF j.k < Len(Required) THEN "collect" ELSE "verify"
  BY <1>1, <1>2 DEF Job
<1>4. /\ j.linked \subseteq findings
      /\ \A g \in j.linked : Claimed(g) /\ e \in g.entities
      /\ \A i \in 1..(j.k - 1) : \E g \in j.linked : g.ws = Required[i]
  BY <1>1 DEF CaseInv, LinkInv
<1>5. \A g \in found : /\ g \in findings /\ g.ws = Required[j.k] /\ e \in g.entities
                       /\ Claimed(g)
  <2>1. ASSUME NEW g \in found
        PROVE  g \in findings /\ g.ws = Required[j.k] /\ e \in g.entities /\ ~g.coordinator
    BY DEF Convergent, Of
  <2>2. ASSUME NEW g \in found PROVE Claimed(g)
    BY <1>1, <2>1, <2>2, ClaimsOrSyntheses DEF CaseInv, StoreInv
  <2> QED BY <2>1, <2>2
<1>6. /\ job'[w].linked \subseteq findings'
      /\ \A g \in job'[w].linked : Claimed(g)' /\ e \in g.entities
  BY <1>1, <1>3, <1>4, <1>5 DEF Claimed, ClaimedBy
<1>7. \A i \in 1..j.k : \E g \in job'[w].linked : g.ws = Required[i]
  <2>1. ASSUME NEW i \in 1..j.k PROVE \E g \in job'[w].linked : g.ws = Required[i]
    <3>1. CASE i \in 1..(j.k - 1)
      BY <1>3, <1>4, <3>1
    <3>2. CASE i = j.k
      BY <1>2, <1>3, <1>5, <3>2
    <3> QED BY <1>1, <2>1, <3>1, <3>2
  <2> QED BY <2>1
<1>8. Least(job'[w].common) = e
  BY <1>3
<1>9. CASE j.k < Len(Required)
  <2>1. 1..(job'[w].k - 1) = 1..j.k /\ pc'[w] = "collect"
    BY <1>1, <1>3, <1>9
  <2> QED BY <1>6, <1>7, <1>8, <2>1 DEF LinkInv
<1>10. CASE ~(j.k < Len(Required))
  <2>1. 1..j.k = DOMAIN Required /\ pc'[w] = "verify"
    BY <1>1, <1>3, <1>10
  <2> QED BY <1>6, <1>7, <1>8, <2>1 DEF LinkInv
<1> QED BY <1>9, <1>10

(* A worker knows what it has collected.                                   *)
LEMMA SelfLinks ==
  ASSUME CaseInv, NEW w \in Workers, Act(w)
  PROVE  LinkInv(w)'
<1>1. /\ TypeOK /\ LinkInv(w) /\ pc \in [Workers -> Steps] /\ job \in [Workers -> Job \cup {None}]
  BY DEF CaseInv, TypeInv, TypeOK
<1>2. ASSUME pc'[w] \notin {"check", "converge", "collect", "verify"} PROVE LinkInv(w)'
  BY <1>2 DEF LinkInv
<1>3. ASSUME NEW s \in DOMAIN Plan, pc'[w] = "check", job'[w] = NewJob(s) PROVE LinkInv(w)'
  BY <1>3 DEF LinkInv, NewJob
<1>4. CASE Start(w)
  <2>1. 1 \in DOMAIN Plan
    BY <1>4, PlanTypes DEF Start
  <2> QED BY <1>1, <1>3, <1>4, <2>1 DEF Start, Goto
<1>5. CASE Check(w) \/ Record(w)
  <2>1. pc[w] # "idle"
    BY <1>5 DEF Check, Record, At
  <2>2. CASE Advance(w)
    <3>1. pc'[w] = "check" => job[w].step + 1 \in DOMAIN Plan
      BY <1>1, <2>1, <2>2, BusyHasJob, PlanTypes DEF Advance, Leave, Goto
    <3> QED BY <1>1, <1>2, <1>3, <2>1, <2>2, <3>1, AdvanceEffect
  <2>3. CASE ~Advance(w)
    <3>1. pc[w] = "check" /\ pc'[w] \in {"converge", "read", "extract", "submit"} /\ job' = job
      BY <1>1, <1>5, <2>3 DEF Check, Record, At, Goto
    <3> QED BY <1>1, <3>1 DEF LinkInv
  <2> QED BY <2>2, <2>3
<1>6. CASE Converge(w) /\ pc'[w] # "record"
  <2>1. pc[w] = "converge" /\ job[w] \in Job /\ job[w].linked = {}
    BY <1>1, <1>6, BusyHasJob DEF Converge, At, LinkInv
  <2>2. job'[w].linked = {}
    BY <1>1, <1>6, <2>1 DEF Converge, Job, Goto
  <2>3. pc'[w] \in {"converge", "collect"} /\ (pc'[w] = "collect" => job'[w].k = 1)
    BY <1>1, <1>6, <2>1 DEF Converge, Job, Goto
  <2> QED BY <2>2, <2>3 DEF LinkInv
<1>7. CASE Collect(w) /\ pc'[w] # "record"
  BY <1>7, CollectLinks
<1>8. ASSUME \/ Crash(w) \/ Read(w) \/ Extract(w) \/ Reject(w) \/ Accept(w)
             \/ Lookup(w) \/ Set(w) \/ Remember(w) \/ Announce(w)
             \/ Partition(w) \/ Inbox(w) \/ Notify(w) \/ Verify(w)
      PROVE  pc'[w] \notin {"check", "converge", "collect", "verify"}
  BY <1>1, <1>8 DEF Crash, Read, Extract, Reject, Rejected, Accept, Lookup, Set, Remember, Announce,
     Partition, Inbox, Notify, Verify, Leave, Goto
<1> QED BY <1>2, <1>4, <1>5, <1>6, <1>7, <1>8 DEF Act, Step

-----------------------------------------------------------------------------
(* WHAT A STEP HAS DONE WHEN IT RETURNS                                    *)

(* What a claim's verdict has to do with its refusal.                      *)
LEMMA RefusedVerdict ==
  ASSUME NEW c \in Claims, Refused(c)
  PROVE  Verdict(c) = "evidence_unauthorized" /\ ~Accepted(c)
<1>1. c \notin Readings
  BY DEF Readings
<1> QED BY <1>1 DEF Refused, Verdict, Accepted

(* A stored claim has its checkpoint's promise, once it is filed.          *)
LEMMA FiledKept ==
  ASSUME CaseInv, NEW w \in Workers, pc[w] \in Stored, Grows, NEW i, i = job[w].step,
         ItemOf(InHand(w)) \in items',
         Escalable(InHand(w)) => InHand(w).id \in inbox'
  PROVE  Kept(i)'
<1>1. HandInv(w) /\ Backed(w) /\ uuids \in Nat /\ i \in DOMAIN Plan /\ CallOf(w) = Plan[i]
  BY BusyHasJob DEF CaseInv, TypeInv, TypeOK, HandInv, Stored, Holding
<1>2. CASE CallOf(w) = Synthesize
  BY <1>1, <1>2, PlanTypes DEF Kept
<1>3. ASSUME NEW c \in Claims, c = CallOf(w), Accepted(c), ClaimedBy(InHand(w), c)
      PROVE  Kept(i)'
  <2>1. ~Refused(c)
    BY <1>3, RefusedVerdict
  <2>2. PICK g \in findings : g.id = InHand(w).id
    BY <1>1 DEF HandInv
  <2>3. Sourced(g) /\ Sourced(InHand(w)) /\ Claimed(InHand(w))
    BY <1>3 DEF CaseInv, StoreInv, Sourced, Claimed
  <2>4. g = InHand(w)
    BY <1>1, <2>2, <2>3, SameId
  <2>5. PICK h \in findings' : h.id = g.id /\ Escalable(h) = Escalable(g)
    BY DEF Grows
  <2>6. c.offline => g.id = StableId(c)
    <3>1. PICK n \in 0..uuids : g.id = {<<c.name, n>>} /\ c.offline = (n = 0)
      BY <1>1, <1>3, <2>4, ClaimedFields
    <3> QED BY <3>1 DEF StableId
  <2>7. g.ws = c.ws
    BY <1>1, <1>3, <2>4, ClaimedFields
  <2>8. <<c.ws, h.id>> \in items' /\ (Escalable(h) => h.id \in inbox')
    BY <2>4, <2>5, <2>7 DEF ItemOf
  <2> QED BY <1>1, <1>3, <2>1, <2>5, <2>6, <2>8 DEF Kept
<1> QED BY <1>1, <1>2, <1>3 DEF Backed

(* Who comes to the checkpoint has done what it promises.                  *)
LEMMA SelfKept ==
  ASSUME CaseInv, NEW w \in Workers, Act(w), pc'[w] = "record"
  PROVE  Kept(job[w].step)'
<1> SUFFICES ASSUME NEW i, i = job[w].step
             PROVE  job' = job /\ Kept(i)'
  OBVIOUS
<1>1. /\ Grows /\ TypeOK /\ HandInv(w) /\ StageInv(w)
      /\ pc \in [Workers -> Steps] /\ job \in [Workers -> Job \cup {None}]
  BY ActGrows DEF CaseInv, TypeInv, TypeOK
<1>2. /\ pc[w] \notin {"idle", "check", "record"} /\ job' = job
      /\ \/ Read(w) \/ Reject(w) \/ Lookup(w)
         \/ Partition(w) \/ Inbox(w) \/ Notify(w) \/ Converge(w) \/ Collect(w) \/ Verify(w)
  <2>1. ~Start(w) /\ ~Crash(w) /\ ~Extract(w) /\ ~Accept(w) /\ ~Set(w) /\ ~Remember(w) /\ ~Announce(w)
    BY <1>1 DEF Start, Crash, Extract, Accept, Set, Remember, Announce, Leave, Goto
  <2>2. ~Check(w) /\ ~Record(w)
    <3>1. ASSUME Check(w) \/ Record(w) PROVE FALSE
      <4>1. pc[w] # "idle"
        BY <3>1 DEF Check, Record, At
      <4>2. ~Advance(w)
        BY <1>1, <4>1, AdvanceEffect
      <4> QED BY <1>1, <3>1, <4>2 DEF Check, Record, Goto
    <3> QED BY <3>1
  <2>3. \/ Read(w) \/ Reject(w) \/ Lookup(w)
        \/ Partition(w) \/ Inbox(w) \/ Notify(w) \/ Converge(w) \/ Collect(w) \/ Verify(w)
    BY <2>1, <2>2 DEF Act, Step
  <2>4. job' = job
    <3>1. ~Leave(w) /\ ~Goto(w, "lookup") /\ ~Goto(w, "collect") /\ ~Goto(w, "verify")
      BY <1>1 DEF Leave, Goto
    <3>2. CASE Read(w) \/ Reject(w) \/ Lookup(w)
      BY <3>1, <3>2 DEF Read, Reject, Rejected, Lookup
    <3>3. CASE Partition(w) \/ Inbox(w) \/ Notify(w)
      BY <3>3 DEF Partition, Inbox, Notify
    <3>4. CASE Converge(w)
      BY <1>1, <3>1, <3>4 DEF Converge, At
    <3>5. CASE Collect(w) \/ Verify(w)
      BY <3>1, <3>5 DEF Collect, Verify
    <3> QED BY <2>3, <3>2, <3>3, <3>4, <3>5
  <2>5. pc[w] \notin {"idle", "check", "record"}
    BY <2>3 DEF Read, Reject, Lookup, Partition, Inbox, Notify, Converge, Collect, Verify, At
  <2> QED BY <2>3, <2>4, <2>5
<1>3. i \in DOMAIN Plan /\ CallOf(w) = Plan[i]
  BY <1>1, <1>2, BusyHasJob
<1>4. CASE Read(w)
  <2>1. Plan[i] \in Readings
    BY <1>3, <1>4 DEF Read, At, CaseInv, TypeInv, StageInv
  <2>2. Plan[i] \notin Claims
    BY <2>1 DEF Readings
  <2>3. Refused(Plan[i]) => Denial(Plan[i])
    BY <1>3, <1>4, <2>2 DEF Read, Refused
  <2> QED BY <1>2, <2>2, <2>3 DEF Kept, Denial, Publish
<1>5. CASE Reject(w)
  <2>1. Plan[i] \in Claims /\ ~Plan[i].offline
    BY <1>1, <1>2, <1>3, <1>5
    DEF Reject, Rejected, At, Leave, Goto, CaseInv, TypeInv, StageInv, Verdict, VerifySpans
  <2>2. Refused(Plan[i]) => Denial(Plan[i])
    BY <1>3, <1>5, <2>1, RefusedVerdict DEF Reject
  <2> QED BY <1>2, <2>1, <2>2 DEF Kept, Denial, Publish
<1>6. CASE Lookup(w)
  <2>1. Backed(w) /\ uuids \in Nat
    BY <1>1, <1>6 DEF Lookup, At, HandInv, Holding, TypeOK
  <2>2. CASE CallOf(w) = Synthesize
    BY <1>2, <1>3, <2>2, PlanTypes DEF Kept
  <2>3. ASSUME NEW c \in Claims, c = CallOf(w), Accepted(c), ClaimedBy(InHand(w), c)
        PROVE  Kept(i)'
    <3>1. ~Refused(c) /\ ~InHand(w).coordinator
      BY <2>1, <2>3, RefusedVerdict, ClaimedFields
    <3>2. ~c.offline
      BY <1>1, <1>6, <2>3, <3>1 DEF Lookup, Rejected, Leave, Goto
    <3> QED BY <1>3, <2>3, <3>1, <3>2 DEF Kept
  <2> QED BY <1>2, <2>1, <2>2, <2>3 DEF Backed
<1>7. CASE Partition(w) \/ Inbox(w) \/ Notify(w)
  <2>1. pc[w] \in Stored
    BY <1>7 DEF Partition, Inbox, Notify, At, Stored
  <2>2. ItemOf(InHand(w)) \in items'
    BY <1>1, <1>7 DEF Partition, Inbox, Notify, At, HandInv
  <2>3. Escalable(InHand(w)) => InHand(w).id \in inbox'
    BY <1>1, <1>7 DEF Partition, Inbox, Notify, At, HandInv, Goto
  <2> QED BY <1>1, <1>2, <2>1, <2>2, <2>3, FiledKept
<1>8. CASE Converge(w) \/ Collect(w) \/ Verify(w)
  <2>1. Plan[i] = Synthesize
    BY <1>1, <1>3, <1>8 DEF Converge, Collect, Verify, At, StageInv
  <2> QED BY <1>2, <2>1, PlanTypes DEF Kept
<1> QED BY <1>2, <1>4, <1>5, <1>6, <1>7, <1>8
-----------------------------------------------------------------------------
(* THE INVARIANT IS INDUCTIVE                                              *)

(* Findings are stored with a source and under an id of their own.         *)
LEMMA StoreKept ==
  ASSUME CaseInv, NEW w \in Workers, Act(w)
  PROVE  StoreInv'
<1>1. Grows /\ StoreInv
  BY ActGrows DEF CaseInv
<1>2. CASE Set(w)
  <2>1. Backed(w) /\ findings' = {f \in findings : f.id # InHand(w).id} \cup {InHand(w)}
    BY <1>2 DEF Set, At, CaseInv, HandInv, Holding
  <2>2. ASSUME NEW h, h = InHand(w)
        PROVE  StoreInv'
    <3>1. Sourced(h)
      BY <2>1, <2>2 DEF Backed, Sourced, Claimed
    <3>2. \A f \in findings' : Sourced(f)'
      BY <1>1, <2>1, <2>2, <3>1, SourcedStays DEF StoreInv
    <3>3. \A f, g \in findings' : f.id = g.id => f = g
      BY <1>1, <2>1 DEF StoreInv
    <3> QED BY <3>2, <3>3 DEF StoreInv
  <2> QED BY <2>2
<1>3. CASE ~Set(w)
  <2>1. findings' = findings
    BY <1>3, StoreSteps
  <2>2. \A f \in findings' : Sourced(f)'
    BY <1>1, <2>1, SourcedStays DEF StoreInv
  <2> QED BY <1>1, <2>1, <2>2 DEF StoreInv
<1> QED BY <1>2, <1>3

(* The inbox and the escalations, element by element.                      *)
InboxSays ==
  /\ \A id \in inbox : \E f \in findings : f.id = id /\ Escalable(f)
  /\ \A p \in published : p[1] = "finding.escalated" => p[2] \in inbox

(* InboxTruthful, spelled out.                                             *)
LEMMA InboxForm == InboxTruthful <=> InboxSays
  BY DEF InboxTruthful, InboxSays

(* Publishing adds one event to the feed.                                  *)
LEMMA PublishAdds ==
  ASSUME NEW type, NEW id, Publish(type, id), NEW p \in published'
  PROVE  p \in published \/ (p[1] = type /\ p[2] = id)
<1>1. p \in published \/ p = <<type, id>>
  BY DEF Publish
<1> QED BY <1>1

(* The inbox gets what was stored, and the feed tells of what the inbox    *)
(* has.                                                                    *)
LEMMA InboxKept ==
  ASSUME CaseInv, NEW w \in Workers, Act(w)
  PROVE  InboxTruthful'
<1>1. /\ Grows /\ InboxSays /\ HandInv(w) /\ StoreInv /\ uuids \in Nat
      /\ inbox \subseteq inbox'
  BY ActGrows, InboxForm DEF CaseInv, TypeInv, TypeOK, Grows
<1>2. \A id \in inbox' : id \in inbox \/ (Inbox(w) /\ id = InHand(w).id)
  BY DEF Act, Start, Crash, Step, Check, Record, Read, Extract, Reject, Accept, Lookup, Set, Remember,
         Announce, Partition, Inbox, Notify, Converge, Collect, Verify, stores
<1>3. \A p \in published' : \/ p \in published
                            \/ p[1] # "finding.escalated"
                            \/ Notify(w) /\ p[2] = InHand(w).id
  <2>1. CASE Notify(w)
    BY <2>1, PublishAdds DEF Notify
  <2>2. CASE Announce(w)
    BY <2>2, PublishAdds DEF Announce
  <2>3. CASE Read(w) \/ Reject(w)
    <3>1. \/ UNCHANGED published \/ Denial(CallOf(w))
          \/ Publish("evidence.rejected", StableId(CallOf(w)))
      BY <2>3 DEF Read, Reject
    <3>2. Denial(CallOf(w)) = Publish("security.event", {<<CallOf(w).name, 0>>})
      BY DEF Denial
    <3> QED BY <3>1, <3>2, PublishAdds
  <2>4. CASE UNCHANGED published
    BY <2>4
  <2> QED
    BY <2>1, <2>2, <2>3, <2>4
    DEF Act, Start, Crash, Step, Check, Record, Extract, Accept, Lookup, Set, Remember, Partition,
        Inbox, Converge, Collect, Verify, stores
<1>4. ASSUME Inbox(w) PROVE \E f \in findings : f.id = InHand(w).id /\ Escalable(f)
  <2>1. Backed(w) /\ Escalable(InHand(w)) /\ \E g \in findings : g.id = InHand(w).id
    BY <1>1, <1>4 DEF Inbox, At, HandInv, Holding, Stored
  <2>2. Sourced(InHand(w))
    BY <2>1 DEF Backed, Sourced, Claimed
  <2> QED BY <1>1, <2>1, <2>2, SameId DEF StoreInv
<1>5. \A id \in inbox' : \E f \in findings' : f.id = id /\ Escalable(f)
  BY <1>1, <1>2, <1>4 DEF InboxSays, Grows
<1>6. \A p \in published' : p[1] = "finding.escalated" => p[2] \in inbox'
  <2>1. Notify(w) => InHand(w).id \in inbox
    BY <1>1 DEF Notify, At, HandInv
  <2> QED BY <1>1, <1>3, <2>1 DEF InboxSays
<1> QED BY <1>5, <1>6 DEF InboxTruthful

(* A checkpoint is written with what it promises done, and that stays done.*)
LEMMA CheckpointsKept ==
  ASSUME CaseInv, NEW w \in Workers, Act(w), Moved(w)
  PROVE  CheckpointInv'
<1>1. Grows /\ TypeOK /\ CheckpointInv
  BY ActGrows DEF CaseInv, TypeInv
<1>2. \A i \in recorded' : i \in recorded \/ (pc[w] = "record" /\ i = job[w].step)
  BY DEF Act, Start, Crash, Step, Check, Record, Read, Extract, Reject, Accept, Lookup, Set, Remember,
         Announce, Partition, Inbox, Notify, Converge, Collect, Verify, At
<1>3. \A i \in recorded' : i \in DOMAIN Plan /\ Kept(i)
  BY <1>1, <1>2, BusyHasJob DEF CheckpointInv, TypeOK
<1>4. \A i \in recorded' : Kept(i)'
  BY <1>1, <1>3, KeptStays
<1>5. ASSUME NEW v \in Workers, pc'[v] = "record" PROVE Kept(job[v].step)'
  <2>1. CASE v = w
    BY <1>5, <2>1, SelfKept
  <2>2. ASSUME v # w, NEW i, i = job[v].step PROVE Kept(i)' /\ job'[v] = job[v]
    <3>1. pc[v] = "record" /\ job'[v] = job[v]
      BY <1>5, <2>2 DEF Moved
    <3>2. i \in DOMAIN Plan /\ Kept(i)
      BY <1>1, <2>2, <3>1, BusyHasJob DEF CheckpointInv
    <3> QED BY <1>1, <3>1, <3>2, KeptStays
  <2> QED BY <2>1, <2>2
<1> QED BY <1>4, <1>5 DEF CheckpointInv

(* An action of w leaves the other workers where they are.                 *)
LEMMA ActMoves ==
  ASSUME TypeInv, NEW w \in Workers, Act(w)
  PROVE  Moved(w)
<1>1. TypeInv'
  BY ActTypes
<1>2. \A v \in Workers : v # w => pc'[v] = pc[v] /\ job'[v] = job[v]
  <2> USE DEF Goto, Leave, Advance, TypeInv, TypeOK
  <2>1. CASE Start(w) \/ Crash(w) \/ Check(w) \/ Record(w)
    BY <2>1 DEF Start, Crash, Check, Record
  <2>2. CASE Read(w) \/ Extract(w) \/ Reject(w) \/ Accept(w)
    BY <2>2 DEF Read, Extract, Reject, Rejected, Accept
  <2>3. CASE \/ Lookup(w) \/ Set(w) \/ Remember(w) \/ Announce(w)
             \/ Partition(w) \/ Inbox(w) \/ Notify(w)
    BY <2>3 DEF Lookup, Rejected, Set, Remember, Announce, Partition, Inbox, Notify
  <2>4. CASE Converge(w) \/ Collect(w) \/ Verify(w)
    BY <2>4 DEF Converge, Collect, Verify
  <2> QED BY <2>1, <2>2, <2>3, <2>4 DEF Act, Step
<1> QED BY <1>1, <1>2 DEF TypeInv, TypeOK, Moved

(* A worker's step keeps the invariant.                                    *)
LEMMA ActCase ==
  ASSUME CaseInv, NEW w \in Workers, Act(w)
  PROVE  CaseInv'
<1>1. Moved(w) /\ Grows /\ TypeInv'
  BY ActMoves, ActGrows, ActTypes DEF CaseInv
<1>2. ASSUME NEW v \in Workers PROVE (HandInv(v) /\ LinkInv(v))'
  <2>1. CASE v = w
    BY <1>1, <2>1, SelfHand, SelfLinks
  <2>2. CASE v # w
    <3>1. pc'[v] = pc[v] /\ job'[v] = job[v] /\ HandInv(v) /\ LinkInv(v)
      BY <2>2, <1>1 DEF Moved, CaseInv
    <3> QED BY <1>1, <3>1, OthersKeep
  <2> QED BY <2>1, <2>2
<1> QED BY <1>1, <1>2, StoreKept, InboxKept, CheckpointsKept DEF CaseInv

(* Amendments touch the documents only.                                    *)
LEMMA AmendCase ==
  ASSUME CaseInv, UNCHANGED vars \/ \E d \in Documents : \E text \in Texts : Amend(d, text)
  PROVE  CaseInv' /\ UNCHANGED <<stores, recorded, uuids, pc, job, crashes>>
<1>1. UNCHANGED <<stores, recorded, uuids, pc, job, crashes>>
  BY DEF Amend, vars, stores
<1>2. UNCHANGED <<findings, items, inbox, memory, published, recorded, uuids, pc, job>>
  BY <1>1 DEF stores
<1>3. Grows
  BY <1>2 DEF Grows, CaseInv, TypeInv, TypeOK
<1>4. StoreInv'
  BY <1>2, <1>3, SourcedStays DEF CaseInv, StoreInv
<1>5. \A v \in Workers : HandInv(v)' /\ LinkInv(v)'
  BY <1>2, <1>3, OthersKeep DEF CaseInv
<1>6. InboxTruthful'
  BY <1>2 DEF CaseInv, InboxTruthful
<1>7. CheckpointInv'
  BY <1>2 DEF CaseInv, CheckpointInv, Kept
<1> QED BY <1>1, <1>4, <1>5, <1>6, <1>7, AmendTypes DEF CaseInv

(* The invariant holds at first.                                           *)
LEMMA InitCase == Init => CaseInv
<1> SUFFICES ASSUME Init PROVE CaseInv
  OBVIOUS
<1>1. TypeInv
  BY InitTypes
<1>2. StoreInv /\ InboxTruthful /\ CheckpointInv
  BY DEF Init, StoreInv, InboxTruthful, CheckpointInv
<1>3. \A w \in Workers : HandInv(w) /\ LinkInv(w)
  BY DEF Init, HandInv, LinkInv, Holding, Stored
<1> QED BY <1>1, <1>2, <1>3 DEF CaseInv

(* The invariant is inductive.                                             *)
LEMMA NextCase == CaseInv /\ [Next]_vars => CaseInv'
  BY ActCase, AmendCase DEF Next, Act

(* The inductive invariant behind what findings, syntheses, the inbox and  *)
(* the checkpoints say.                                                    *)
THEOREM CaseAlways == Spec => []CaseInv
  BY InitCase, NextCase, PTL DEF Spec

-----------------------------------------------------------------------------
(* WHAT THE FINDINGS SAY                                                   *)

(* A name belongs to one claim.                                            *)
LEMMA ClaimNames ==
  ASSUME NEW c \in Claims
  PROVE  ClaimNamed(c.name) = c
<1>1. \A d \in Claims : d.name = c.name => d = c
  BY PlanAssumption DEF Claims
<1> QED BY <1>1 DEF ClaimNamed

(* Of an accepted claim, every document is one of its own workstream's.    *)
LEMMA AcceptedGated ==
  ASSUME NEW c \in Claims, Accepted(c)
  PROVE  /\ WellFormed(c)
         /\ \A i \in DOMAIN c.cites : Known(c.cites[i]) /\ Can(c.ws, c.cites[i])
<1>1. {i \in DOMAIN c.cites : Known(c.cites[i]) => ~Can(c.ws, c.cites[i])} = {}
  BY DEF Accepted, AuthorizeEvidence
<1> QED BY <1>1 DEF Accepted

(* The invariant has the gate of the evidence in it.                       *)
LEMMA EvidenceGated == CaseInv => EvidenceGate
<1> SUFFICES ASSUME CaseInv, NEW f \in findings, NEW n \in Evidence(f)
             PROVE  LET c == ClaimNamed(n) IN
                    /\ WellFormed(c)
                    /\ \A i \in DOMAIN c.cites : Known(c.cites[i]) /\ Can(c.ws, c.cites[i])
  BY DEF EvidenceGate
<1>1. Sourced(f) /\ uuids \in Nat
  BY DEF CaseInv, StoreInv, TypeInv, TypeOK
<1>2. \E c \in Claims : Accepted(c) /\ n = c.name
  <2>1. CASE Claimed(f)
    <3>1. PICK c \in Claims : Accepted(c) /\ ClaimedBy(f, c)
      BY <2>1 DEF Claimed
    <3> QED BY <1>1, <3>1, ClaimedFields
  <2>2. CASE Synthesized(f)
    <3>1. PICK F \in SUBSET findings, e \in f.entities :
            f = SynthesisOf(e, F) /\ Converging(e, F)
      BY <2>2 DEF Synthesized
    <3>2. f.id = SynthesisId(e, F)
      BY <3>1 DEF SynthesisOf
    <3>3. PICK part \in SynthesisId(e, F) : n = part[1] /\ n # 0
      BY <3>2 DEF Evidence
    <3>4. PICK g \in F : part \in g.id
      BY <3>3 DEF SynthesisId
    <3>5. n \in Evidence(g) /\ Claimed(g)
      BY <3>1, <3>3, <3>4 DEF Evidence, Converging
    <3>6. PICK c \in Claims : Accepted(c) /\ ClaimedBy(g, c)
      BY <3>5 DEF Claimed
    <3> QED BY <1>1, <3>5, <3>6, ClaimedFields
  <2> QED BY <1>1, <2>1, <2>2 DEF Sourced
<1> QED BY <1>2, ClaimNames, AcceptedGated

(* The evidence gate: what any finding says, the coordinator's included,   *)
(* was said by well-formed claims that cite their own workstream only.     *)
THEOREM EvidenceIsGated == Spec => []EvidenceGate
  BY EvidenceGated, CaseAlways, PTL

(* The invariant has the soundness of the syntheses in it.                 *)
LEMMA SynthesesSound == CaseInv => SynthesisSound
<1> SUFFICES ASSUME CaseInv, NEW s \in findings, s.coordinator
             PROVE  LET linked == {f \in findings : f.id \in s.from} IN
                    /\ {f.id : f \in linked} = s.from
                    /\ \A f \in linked : ~f.coordinator /\ s.entities \subseteq f.entities
                    /\ {f.ws : f \in linked} = Workstreams
  BY DEF SynthesisSound
<1> DEFINE linked == {f \in findings : f.id \in s.from}
<1>1. uuids \in Nat /\ StoreInv /\ Sourced(s)
  BY DEF CaseInv, StoreInv, TypeInv, TypeOK
<1>2. Synthesized(s)
  BY <1>1, ClaimsOrSyntheses DEF Sourced
<1>3. PICK F \in SUBSET findings, e \in s.entities : s = SynthesisOf(e, F) /\ Converging(e, F)
  BY <1>2 DEF Synthesized
<1>4. s.entities = {e} /\ s.from = {f.id : f \in F}
  BY <1>3 DEF SynthesisOf
<1>5. linked = F
  BY <1>1, <1>4 DEF StoreInv
<1>6. \A f \in F : ~f.coordinator /\ e \in f.entities
  BY <1>1, <1>3, ClaimsOrSyntheses DEF Converging, Sourced
<1>7. {f.ws : f \in F} = Workstreams
  BY <1>3 DEF Converging
<1> HIDE DEF linked
<1>8. /\ {f.id : f \in linked} = s.from
      /\ \A f \in linked : ~f.coordinator /\ s.entities \subseteq f.entities
      /\ {f.ws : f \in linked} = Workstreams
  BY <1>4, <1>5, <1>6, <1>7
<1> QED BY <1>8 DEF linked

(* A synthesis always rests on stored findings of every required           *)
(* workstream, all about its entity and none of them a synthesis.          *)
THEOREM SynthesisIsSound == Spec => []SynthesisSound
  BY SynthesesSound, CaseAlways, PTL

(* The inbox and the escalation events are about stored findings that are  *)
(* critical and open, and no event precedes its entry.                     *)
THEOREM InboxIsTruthful == Spec => []InboxTruthful
<1>1. CaseInv => InboxTruthful
  BY DEF CaseInv
<1> QED BY <1>1, CaseAlways, PTL
-----------------------------------------------------------------------------
(* WHAT A CRASH COSTS                                                      *)

(* Sets that shrink, or grow by one element.                               *)
LEMMA CountSubset ==
  ASSUME NEW S, NEW T, IsFiniteSet(S), T \subseteq S
  PROVE  /\ IsFiniteSet(T) /\ Cardinality(T) \in Nat /\ Cardinality(S) \in Nat
         /\ Cardinality(T) <= Cardinality(S)
  BY FS_Subset, FS_CardinalityType

(* One element more makes a set larger by one at most.                     *)
LEMMA CountOneMore ==
  ASSUME NEW S, NEW T, NEW x, IsFiniteSet(S), T \subseteq S \cup {x}
  PROVE  /\ IsFiniteSet(T) /\ Cardinality(T) \in Nat /\ Cardinality(S) \in Nat
         /\ Cardinality(T) <= Cardinality(S) + 1
<1>1. IsFiniteSet(S \cup {x}) /\ Cardinality(S \cup {x}) <= Cardinality(S) + 1
  <2>1. Cardinality(S) \in Nat
    BY FS_CardinalityType
  <2>2. /\ IsFiniteSet(S \cup {x})
        /\ Cardinality(S \cup {x}) =
             IF x \in S THEN Cardinality(S) ELSE Cardinality(S) + 1
    BY FS_AddElement
  <2> QED BY <2>1, <2>2
<1>2. /\ IsFiniteSet(T) /\ Cardinality(T) \in Nat
      /\ Cardinality(T) <= Cardinality(S \cup {x}) /\ Cardinality(S \cup {x}) \in Nat
  BY <1>1, CountSubset
<1> QED BY <1>1, <1>2, FS_CardinalityType

(* A step stores one finding at most.                                      *)
LEMMA FiniteFindings ==
  ASSUME NEW w \in Workers, Act(w), IsFiniteSet(findings)
  PROVE  IsFiniteSet(findings')
<1>1. CASE Set(w)
  <2>1. findings' \subseteq findings \cup {InHand(w)}
    BY <1>1 DEF Set
  <2> QED BY <2>1, CountOneMore
<1>2. CASE ~Set(w)
  BY <1>2, StoreSteps
<1> QED BY <1>1, <1>2

(* Only a crash makes orphans: whoever has stored a finding carries it     *)
(* until it is in the inbox.                                               *)
LEMMA StepOrphans ==
  ASSUME CaseInv, NEW w \in Workers, Start(w) \/ Step(w)
  PROVE  Orphans' \subseteq Orphans /\ crashes' = crashes
<1>1. Moved(w) /\ TypeOK /\ inbox \subseteq inbox' /\ pc \in [Workers -> Steps]
  BY ActMoves, ActGrows DEF CaseInv, TypeInv, TypeOK, Act, Grows
<1>2. crashes' = crashes
  BY DEF Start, Step, Check, Record, Read, Extract, Reject, Accept, Lookup, Set, Remember,
         Announce, Partition, Inbox, Notify, Converge, Collect, Verify
<1>3. ASSUME NEW f \in Orphans' PROVE f \in Orphans
  <2>1. f \in findings' /\ Escalable(f) /\ f.id \notin inbox' /\ ~Carried(f)'
    BY <1>3 DEF Orphans
  <2>2. \A v \in Workers :
          ~(pc'[v] \in {"remember", "announce", "partition", "inbox"} /\ job'[v].f = f)
    BY <2>1 DEF Carried, InHand
  <2>3. f \in findings
    <3>1. CASE Set(w)
      <4>1. pc'[w] \in {"remember", "partition"} /\ job'[w] = job[w]
        BY <1>1, <3>1 DEF Set, Goto
      <4>2. f # InHand(w)
        BY <2>2, <4>1 DEF InHand
      <4> QED BY <2>1, <3>1, <4>2 DEF Set
    <3>2. CASE ~Set(w)
      BY <2>1, <3>2, StoreSteps DEF Act
    <3> QED BY <3>1, <3>2
  <2>4. ASSUME NEW v \in Workers, pc[v] \in {"remember", "announce", "partition", "inbox"},
               InHand(v) = f
        PROVE  FALSE
    <3>1. CASE v # w
      BY <1>1, <2>2, <2>4, <3>1 DEF Moved, InHand
    <3>2. CASE v = w
      <4>1. Remember(w) \/ Announce(w) \/ Partition(w) \/ Inbox(w)
        BY <2>4, <3>2 DEF Start, Step, Check, Record, Read, Extract, Reject, Accept, Lookup, Set,
           Remember, Announce, Partition, Inbox, Notify, Converge, Collect, Verify, At
      <4>2. job'[w] = job[w]
        BY <4>1 DEF Remember, Announce, Partition, Inbox
      <4>3. CASE Remember(w) \/ Announce(w)
        <5>1. pc'[w] \in {"announce", "partition"}
          BY <1>1, <4>3 DEF Remember, Announce, Goto
        <5> QED BY <2>2, <2>4, <3>2, <4>2, <5>1 DEF InHand
      <4>4. CASE Partition(w)
        <5>1. pc'[w] = "inbox"
          BY <1>1, <2>1, <2>4, <3>2, <4>4 DEF Partition, Goto
        <5> QED BY <2>2, <2>4, <3>2, <4>2, <5>1 DEF InHand
      <4>5. CASE Inbox(w)
        BY <2>1, <2>4, <3>2, <4>5 DEF Inbox
      <4> QED BY <4>1, <4>3, <4>4, <4>5
    <3> QED BY <3>1, <3>2
  <2>5. ~Carried(f)
    BY <2>4 DEF Carried
  <2> QED BY <1>1, <2>1, <2>3, <2>5 DEF Orphans
<1> QED BY <1>2, <1>3

(* A crash orphans the finding in hand at most.                            *)
LEMMA CrashOrphans ==
  ASSUME CaseInv, NEW w \in Workers, Crash(w)
  PROVE  Orphans' \subseteq Orphans \cup {InHand(w)} /\ crashes' = crashes + 1
<1>1. /\ Moved(w) /\ UNCHANGED <<findings, inbox>> /\ crashes' = crashes + 1
  BY ActMoves DEF CaseInv, Act, Crash, stores
<1>2. ASSUME NEW f \in Orphans', f # InHand(w) PROVE f \in Orphans
  <2>1. f \in findings /\ Escalable(f) /\ f.id \notin inbox /\ ~Carried(f)'
    BY <1>1, <1>2 DEF Orphans
  <2>2. ~Carried(f)
    BY <1>1, <1>2, <2>1 DEF Carried, InHand, Moved
  <2> QED BY <2>1, <2>2 DEF Orphans
<1> QED BY <1>1, <1>2

(* The orphans are never more than the crashes.                            *)
LEMMA NextLoss == CaseInv /\ LossInv /\ [Next]_vars => LossInv'
<1> SUFFICES ASSUME CaseInv, LossInv, [Next]_vars PROVE LossInv'
  OBVIOUS
<1>1. IsFiniteSet(Orphans) /\ Cardinality(Orphans) \in Nat /\ crashes \in Nat
  BY CountSubset DEF LossInv, Orphans, CaseInv, TypeInv, TypeOK
<1>2. ASSUME NEW w \in Workers, Act(w) PROVE LossInv'
  <2>1. IsFiniteSet(findings')
    BY <1>2, FiniteFindings DEF LossInv
  <2>2. CASE Start(w) \/ Step(w)
    <3>1. Orphans' \subseteq Orphans /\ crashes' = crashes
      BY <2>2, StepOrphans
    <3>2. Cardinality(Orphans') <= Cardinality(Orphans) /\ Cardinality(Orphans') \in Nat
      BY <1>1, <3>1, CountSubset
    <3> QED BY <1>1, <2>1, <3>1, <3>2 DEF LossInv
  <2>3. CASE Crash(w)
    <3>1. Orphans' \subseteq Orphans \cup {InHand(w)} /\ crashes' = crashes + 1
      BY <2>3, CrashOrphans
    <3>2. Cardinality(Orphans') <= Cardinality(Orphans) + 1 /\ Cardinality(Orphans') \in Nat
      BY <1>1, <3>1, CountOneMore
    <3> QED BY <1>1, <2>1, <3>1, <3>2 DEF LossInv
  <2> QED BY <1>2, <2>2, <2>3 DEF Act
<1>3. CASE UNCHANGED vars \/ \E d \in Documents : \E text \in Texts : Amend(d, text)
  <2>1. UNCHANGED <<findings, inbox, pc, job, crashes>>
    BY <1>3, AmendCase DEF stores
  <2> QED BY <2>1 DEF LossInv, Orphans, Carried, InHand
<1> QED BY <1>2, <1>3 DEF Next, Act

(* There are no orphans at first.                                          *)
LEMMA InitLoss == Init => LossInv
<1> SUFFICES ASSUME Init PROVE LossInv
  OBVIOUS
<1>1. Orphans = {} /\ findings = {} /\ crashes = 0
  BY DEF Init, Orphans
<1> QED BY <1>1, FS_EmptySet DEF LossInv

(* The inductive invariant behind lost escalations, and behind the copies  *)
(* below: the store is finite, and orphans have been paid for.             *)
THEOREM LossAlways == Spec => []LossInv
  BY InitLoss, NextLoss, CaseAlways, PTL DEF Spec

(* A finding without its escalation that nobody has in hand is an orphan.  *)
LEMMA UnescalatedOrphans == CaseInv /\ LossInv => LossNeedsCrash
<1> SUFFICES ASSUME CaseInv, LossInv PROVE LossNeedsCrash
  OBVIOUS
<1>1. Unescalated \subseteq Orphans
  <2>1. ASSUME NEW f \in Unescalated PROVE ~Carried(f)
    <3>1. ~InFlight(f.id)
      BY <2>1 DEF Unescalated
    <3>2. \A w \in Workers : pc[w] \in Holding => job[w] # None /\ job[w].f \in Finding
      BY BusyHasJob DEF CaseInv, TypeInv, StageInv, Holding, InHand
    <3> QED BY <3>1, <3>2, NoneAssumption DEF Carried, InFlight, InHand, Holding
  <2> QED BY <2>1 DEF Unescalated, Orphans
<1>2. IsFiniteSet(Orphans) /\ crashes \in Nat
  BY CountSubset DEF LossInv, Orphans, CaseInv, TypeInv, TypeOK
<1>3. Cardinality(Unescalated) <= Cardinality(Orphans) /\ Cardinality(Unescalated) \in Nat
      /\ Cardinality(Orphans) \in Nat
  BY <1>1, <1>2, CountSubset
<1> QED BY <1>2, <1>3 DEF LossInv, LossNeedsCrash

(* Races alone lose no escalation: of the critical findings, at most one   *)
(* for each crash never reaches the deal lead.                             *)
THEOREM LossIsPaidFor == Spec => []LossNeedsCrash
  BY UnescalatedOrphans, CaseAlways, LossAlways, PTL

-----------------------------------------------------------------------------
(* HOW OFTEN A CLAIM IS STORED                                             *)

(* The passes that have been made can be counted.                          *)
LEMMA MadeFinite ==
  ASSUME NEW c
  PROVE  /\ IsFiniteSet(StepsOf(c) \X Workers) /\ Made(c) \subseteq StepsOf(c) \X Workers
         /\ IsFiniteSet(Made(c)) /\ Cardinality(Made(c)) \in Nat
         /\ Cardinality(StepsOf(c) \X Workers) \in Nat
         /\ Cardinality(Made(c)) <= Cardinality(StepsOf(c) \X Workers)
<1>1. IsFiniteSet(DOMAIN Plan) /\ StepsOf(c) \subseteq DOMAIN Plan
  BY PlanTypes, FS_Interval DEF StepsOf
<1>2. IsFiniteSet(StepsOf(c))
  BY <1>1, CountSubset
<1>3. IsFiniteSet(StepsOf(c) \X Workers)
  BY <1>2, FS_Product, PlanAssumption
<1>4. Made(c) \subseteq StepsOf(c) \X Workers
  BY DEF Made
<1> QED BY <1>3, <1>4, CountSubset

(* A copy of a claim is made by the step that makes the claim.             *)
LEMMA CopiesSteps ==
  ASSUME CaseInv, NEW w \in Workers, Act(w), NEW c \in Claims
  PROVE  \/ Copies(c)' \subseteq Copies(c)
         \/ /\ Set(w) /\ CallOf(w) = c
            /\ Copies(c)' \subseteq Copies(c) \cup {InHand(w)}
<1>1. CASE ~Set(w)
  <2>1. findings' = findings
    BY <1>1, StoreSteps
  <2> QED BY <2>1 DEF Copies
<1>2. CASE Set(w)
  <2>1. Backed(w) /\ uuids \in Nat /\ findings' \subseteq findings \cup {InHand(w)}
    BY <1>2 DEF Set, At, CaseInv, TypeInv, TypeOK, HandInv, Holding
  <2>2. Copies(c)' \subseteq Copies(c) \cup {InHand(w)}
    BY <2>1 DEF Copies
  <2>3. ASSUME InHand(w) \in Copies(c)' PROVE CallOf(w) = c
    <3>1. ~InHand(w).coordinator /\ Evidence(InHand(w)) = {c.name}
      <4>1. \A f \in Copies(c)' : ~f.coordinator /\ Evidence(f) = {c.name}
        BY DEF Copies
      <4> QED BY <2>3, <4>1
    <3>2. ~Synthesized(InHand(w))
      BY <3>1, SynthesizedFields
    <3>3. PICK d \in Claims : CallOf(w) = d /\ ClaimedBy(InHand(w), d)
      BY <2>1, <3>2 DEF Backed
    <3>4. {d.name} = {c.name}
      BY <2>1, <3>1, <3>3, ClaimedFields
    <3>5. d = c
      BY <3>4, PlanAssumption DEF Claims
    <3> QED BY <3>3, <3>5
  <2> QED BY <1>2, <2>2, <2>3
<1> QED BY <1>1, <1>2

(* A pass that has been made stays made, but for a crash.                  *)
LEMMA MadeStays ==
  ASSUME CaseInv, NEW w \in Workers, Start(w) \/ Step(w), NEW c \in Claims, NEW p \in Made(c)
  PROVE  p \in Made(c)'
<1> DEFINE i == p[1]
           v == p[2]
<1>1. /\ Moved(w) /\ TypeOK /\ recorded \subseteq recorded' /\ pc \in [Workers -> Steps]
      /\ v \in Workers /\ i \in StepsOf(c) /\ p \in StepsOf(c) \X Workers
  BY ActMoves, ActGrows DEF CaseInv, TypeInv, TypeOK, Act, Grows, Made
<1>2. After(v, i) \/ (i \in recorded /\ ~Before(v, i))
  BY DEF Made
<1>3. ASSUME NEW n, NEW x \in Workers, n = i, x = v,
             After(x, n)' \/ (n \in recorded' /\ ~Before(x, n)')
      PROVE  p \in Made(c)'
  BY <1>1, <1>3 DEF Made, After, Before
<1>4. SUFFICES ASSUME NEW n, NEW x \in Workers, n = i, x = v
      PROVE  After(x, n)' \/ (n \in recorded' /\ ~Before(x, n)')
  BY <1>1, <1>3
<1>5. CASE x # w
  <2>1. pc'[x] = pc[x] /\ job'[x] = job[x]
    BY <1>1, <1>5 DEF Moved
  <2> QED BY <1>1, <1>2, <1>4, <2>1 DEF After, Before
<1>6. CASE x = w /\ After(w, n)
  <2>1. pc[w] \in Stored \cup {"record"} /\ job[w].step = n
    BY <1>6 DEF After
  <2>2. \/ Remember(w) \/ Announce(w) \/ Partition(w) \/ Inbox(w) \/ Notify(w) \/ Record(w)
    BY <2>1 DEF Stored, Start, Step, Check, Record, Read, Extract, Reject, Accept, Lookup, Set,
       Remember, Announce, Partition, Inbox, Notify, Converge, Collect, Verify, At
  <2>3. CASE Record(w)
    <3>1. pc'[w] \in {"idle", "check"}
      BY <2>3, <1>1, AdvanceEffect DEF Record, At
    <3> QED BY <1>6, <2>1, <2>3, <3>1 DEF Record, Before
  <2>4. CASE Remember(w) \/ Announce(w) \/ Partition(w) \/ Inbox(w) \/ Notify(w)
    <3>1. job' = job /\ pc'[w] \in Stored \cup {"record"}
      BY <1>1, <2>4 DEF Remember, Announce, Partition, Inbox, Notify, Goto, Stored
    <3> QED BY <1>6, <2>1, <3>1 DEF After
  <2> QED BY <2>2, <2>3, <2>4
<1>7. CASE x = w /\ n \in recorded /\ ~Before(w, n)
  <2>1. ASSUME Before(w, n)' PROVE FALSE
    <3>1. pc'[w] \in {"extract", "submit", "lookup", "set"} /\ job'[w].step = n
      BY <2>1 DEF Before
    <3>2. \/ Check(w) /\ job[w].step \notin recorded /\ job' = job
          \/ Extract(w) /\ job' = job
          \/ Accept(w) \/ Verify(w)
          \/ Lookup(w) /\ job' = job
      <4>1. ~Start(w) /\ ~Record(w)
        <5>1. ~Start(w)
          BY <1>1, <3>1 DEF Start, Goto
        <5>2. ~Record(w)
          BY <1>1, <3>1, AdvanceEffect DEF Record, At
        <5> QED BY <5>1, <5>2
      <4>2. Check(w) => job[w].step \notin recorded /\ job' = job
        BY <1>1, <3>1, AdvanceEffect DEF Check, At
      <4>3. ~Leave(w)
        BY <1>1, <3>1 DEF Leave, Goto
      <4>4. ~Read(w) /\ ~Reject(w) /\ ~Set(w) /\ ~Remember(w) /\ ~Announce(w) /\ ~Partition(w)
            /\ ~Inbox(w) /\ ~Notify(w) /\ ~Converge(w) /\ ~Collect(w)
        BY <1>1, <3>1, <4>3 DEF Read, Reject, Rejected, Set, Remember, Announce, Partition, Inbox,
           Notify, Converge, Collect, Goto, At
      <4>5. (Extract(w) \/ Lookup(w)) => job' = job
        BY <4>3 DEF Extract, Lookup, Rejected
      <4> QED BY <4>1, <4>2, <4>4, <4>5 DEF Step
    <3>3. CASE Check(w) /\ job[w].step \notin recorded /\ job' = job
      BY <1>7, <3>1, <3>3
    <3>4. CASE (Extract(w) \/ Lookup(w)) /\ job' = job
      BY <1>7, <3>1, <3>4 DEF Extract, Lookup, At, Before
    <3>5. CASE Accept(w)
      <4>1. pc[w] = "submit" /\ job[w] \in Job
        BY <1>1, <3>5, BusyHasJob DEF Accept, At
      <4>2. job'[w].step = job[w].step
        BY <1>1, <3>5, <4>1 DEF Accept, Job, TypeOK
      <4> QED BY <1>7, <3>1, <4>1, <4>2 DEF Before
    <3>6. CASE Verify(w)
      <4>1. pc[w] = "verify" /\ job[w] \in Job /\ CallOf(w) = Synthesize
        BY <1>1, <3>6, BusyHasJob DEF Verify, At, CaseInv, TypeInv, StageInv
      <4>2. job'[w].step = job[w].step
        BY <1>1, <3>1, <3>6, <4>1 DEF Verify, Leave, Goto, Job, TypeOK
      <4>3. Plan[n] = Synthesize /\ Plan[n] = c
        BY <1>1, <1>4, <3>1, <4>1, <4>2 DEF StepsOf, CallOf
      <4> QED BY <4>3, PlanTypes
    <3> QED BY <3>2, <3>3, <3>4, <3>5, <3>6
  <2> QED BY <1>1, <1>7, <2>1
<1> QED BY <1>2, <1>4, <1>5, <1>6, <1>7

(* Storing a finding makes a pass that was not made before.                *)
LEMMA SetMakes ==
  ASSUME CaseInv, NEW w \in Workers, Set(w), NEW c \in Claims, CallOf(w) = c
  PROVE  <<job[w].step, w>> \in Made(c)' /\ <<job[w].step, w>> \notin Made(c)
<1> DEFINE i == job[w].step
<1>1. /\ pc[w] = "set" /\ job' = job /\ pc'[w] \in {"remember", "partition"}
      /\ i \in StepsOf(c)
  BY BusyHasJob DEF Set, At, Goto, CaseInv, TypeInv, TypeOK, StepsOf
<1>2. ASSUME NEW n, n = i PROVE <<n, w>> \in Made(c)'
  BY <1>1, <1>2 DEF Made, After, Stored
<1>3. <<i, w>> \notin Made(c)
  BY <1>1 DEF Made, After, Before, Stored
<1> QED BY <1>2, <1>3

(* A crash takes back at most the pass that it ends.                       *)
LEMMA CrashMade ==
  ASSUME CaseInv, NEW w \in Workers, Crash(w), NEW c \in Claims
  PROVE  /\ Made(c) \subseteq Made(c)' \cup {<<job[w].step, w>>}
         /\ Copies(c)' = Copies(c) /\ crashes' = crashes + 1
<1>1. /\ Moved(w) /\ UNCHANGED <<findings, recorded>> /\ crashes' = crashes + 1
      /\ pc'[w] = "idle"
  BY ActMoves DEF CaseInv, TypeInv, TypeOK, Act, Crash, Leave, Goto, stores
<1>2. ASSUME NEW n \in StepsOf(c), NEW v \in Workers, <<n, v>> \in Made(c),
             ~(n = job[w].step /\ v = w)
      PROVE  <<n, v>> \in Made(c)'
  <2>1. After(v, n) \/ (n \in recorded /\ ~Before(v, n))
    BY <1>2 DEF Made
  <2>2. CASE v # w
    BY <1>1, <2>1, <2>2 DEF Made, After, Before, Moved
  <2>3. CASE v = w
    <3>1. n \in recorded
      BY <1>2, <2>1, <2>3 DEF After
    <3> QED BY <1>1, <2>3, <3>1 DEF Made, Before
  <2> QED BY <2>2, <2>3
<1>3. Made(c) \subseteq StepsOf(c) \X Workers
  BY DEF Made
<1> QED BY <1>1, <1>2, <1>3 DEF Copies

(* A copy takes a pass that had not been made, and passes are unmade by    *)
(* crashes only, one by each.                                              *)
LEMMA NextCopies ==
  CaseInv /\ IsFiniteSet(findings) /\ CopiesInv /\ [Next]_vars => CopiesInv'
<1> SUFFICES ASSUME CaseInv, IsFiniteSet(findings), CopiesInv, [Next]_vars, NEW c \in Claims
             PROVE  Cardinality(Copies(c)') <= Cardinality(Made(c)') + crashes'
  BY DEF CopiesInv
<1>1. /\ IsFiniteSet(Copies(c)) /\ Cardinality(Copies(c)) \in Nat /\ crashes \in Nat
      /\ Cardinality(Copies(c)) <= Cardinality(Made(c)) + crashes
  BY CountSubset DEF Copies, CopiesInv, CaseInv, TypeInv, TypeOK
<1>2. IsFiniteSet(Made(c)) /\ Cardinality(Made(c)) \in Nat
  BY MadeFinite
<1>3. IsFiniteSet(Made(c)') /\ Cardinality(Made(c)') \in Nat
  <2>1. Made(c)' \subseteq StepsOf(c) \X Workers
    BY DEF Made
  <2> QED BY <2>1, MadeFinite, CountSubset
<1>4. ASSUME NEW w \in Workers, Start(w) \/ Step(w)
      PROVE  Cardinality(Copies(c)') <= Cardinality(Made(c)') + crashes'
  <2>1. Made(c) \subseteq Made(c)' /\ crashes' = crashes
    BY <1>4, MadeStays, StepOrphans
  <2>2. CASE Copies(c)' \subseteq Copies(c)
    <3>1. /\ Cardinality(Copies(c)') \in Nat
          /\ Cardinality(Copies(c)') <= Cardinality(Copies(c))
      BY <1>1, <2>2, CountSubset
    <3>2. Cardinality(Made(c)) <= Cardinality(Made(c)')
      BY <1>3, <2>1, CountSubset
    <3> QED BY <1>1, <1>2, <1>3, <2>1, <3>1, <3>2
  <2>3. CASE Set(w) /\ CallOf(w) = c /\ Copies(c)' \subseteq Copies(c) \cup {InHand(w)}
    <3> DEFINE p == <<job[w].step, w>>
    <3>1. /\ Cardinality(Copies(c)') \in Nat
          /\ Cardinality(Copies(c)') <= Cardinality(Copies(c)) + 1
      BY <1>1, <2>3, CountOneMore
    <3>2. p \in Made(c)' /\ p \notin Made(c)
      BY <2>3, SetMakes
    <3>3. Cardinality(Made(c) \cup {p}) = Cardinality(Made(c)) + 1
      BY <1>2, <3>2, FS_AddElement
    <3>4. Cardinality(Made(c) \cup {p}) <= Cardinality(Made(c)')
      BY <1>3, <2>1, <3>2, CountSubset
    <3> QED BY <1>1, <1>2, <1>3, <2>1, <3>1, <3>3, <3>4
  <2> QED BY <1>4, <2>2, <2>3, CopiesSteps DEF Act
<1>5. ASSUME NEW w \in Workers, Crash(w)
      PROVE  Cardinality(Copies(c)') <= Cardinality(Made(c)') + crashes'
  <2>1. /\ Made(c) \subseteq Made(c)' \cup {<<job[w].step, w>>}
        /\ Copies(c)' = Copies(c) /\ crashes' = crashes + 1
    BY <1>5, CrashMade
  <2>2. Cardinality(Made(c)) <= Cardinality(Made(c)') + 1
    BY <1>3, <2>1, CountOneMore
  <2> QED BY <1>1, <1>2, <1>3, <2>1, <2>2
<1>6. CASE UNCHANGED vars \/ \E d \in Documents : \E text \in Texts : Amend(d, text)
  <2>1. UNCHANGED <<findings, recorded, pc, job, crashes>>
    BY <1>6, AmendCase DEF stores
  <2>2. Copies(c)' = Copies(c) /\ Made(c)' = Made(c)
    BY <2>1 DEF Copies, Made, After, Before
  <2> QED BY <1>1, <2>1, <2>2
<1> QED BY <1>4, <1>5, <1>6 DEF Next

(* There are no copies at first.                                           *)
LEMMA InitCopies == Init => CopiesInv
<1> SUFFICES ASSUME Init, NEW c \in Claims
             PROVE  Cardinality(Copies(c)) <= Cardinality(Made(c)) + crashes
  BY DEF CopiesInv
<1>1. Copies(c) = {} /\ crashes = 0
  BY DEF Init, Copies
<1>2. Cardinality(Copies(c)) = 0 /\ Cardinality(Made(c)) \in Nat
  BY <1>1, MadeFinite, FS_EmptySet
<1> QED BY <1>1, <1>2

(* The inductive invariant behind repeated findings: every copy of a claim *)
(* is a pass through a step that makes it, or has been paid for.           *)
THEOREM CopiesAlways == Spec => []CopiesInv
<1>1. LossInv => IsFiniteSet(findings)
  BY DEF LossInv
<1> QED BY <1>1, InitCopies, NextCopies, CaseAlways, LossAlways, PTL DEF Spec

\* An offline claim has one id, and so is stored once.

(* An offline claim has one id and so one copy.                            *)
LEMMA OfflineOnce ==
  ASSUME CaseInv, NEW c \in Claims, c.offline
  PROVE  Cardinality(Copies(c)) <= 1
<1>1. ASSUME NEW f \in Copies(c) PROVE f = FindingOf(c, 0)
  <2>1. Sourced(f) /\ uuids \in Nat /\ ~f.coordinator /\ Evidence(f) = {c.name}
    BY DEF Copies, CaseInv, StoreInv, TypeInv, TypeOK
  <2>2. PICK d \in Claims : ClaimedBy(f, d)
    BY <2>1, ClaimsOrSyntheses DEF Claimed
  <2>3. {d.name} = {c.name}
    BY <2>1, <2>2, ClaimedFields
  <2>4. d = c
    BY <2>3, PlanAssumption DEF Claims
  <2> QED BY <2>2, <2>4 DEF ClaimedBy
<1>2. Copies(c) \subseteq {FindingOf(c, 0)}
  BY <1>1
<1>3. IsFiniteSet({FindingOf(c, 0)}) /\ Cardinality({FindingOf(c, 0)}) = 1
  BY FS_Singleton
<1> QED BY <1>2, <1>3, CountSubset

(* The invariants have the truth of the checkpoints in them.               *)
LEMMA CheckpointsTruthful ==
  CaseInv /\ IsFiniteSet(findings) /\ CopiesInv => CheckpointTruthful
<1> SUFFICES ASSUME CaseInv, IsFiniteSet(findings), CopiesInv PROVE CheckpointTruthful
  OBVIOUS
<1>1. \A i \in recorded : Kept(i)
  BY DEF CaseInv, CheckpointInv
<1>2. ASSUME NEW c \in Claims
      PROVE  Cardinality(Copies(c)) <=
               IF c.offline THEN 1 ELSE Cardinality(StepsOf(c) \X Workers) + crashes
  <2>1. CASE c.offline
    BY <2>1, OfflineOnce
  <2>2. CASE ~c.offline
    <3>1. Cardinality(Copies(c)) <= Cardinality(Made(c)) + crashes /\ crashes \in Nat
      BY DEF CopiesInv, CaseInv, TypeInv, TypeOK
    <3>2. Cardinality(Copies(c)) \in Nat
      BY CountSubset DEF Copies
    <3> QED BY <2>2, <3>1, <3>2, MadeFinite
  <2> QED BY <2>1, <2>2
<1> QED BY <1>1, <1>2 DEF CheckpointTruthful, Kept

(* Whatever the run has recorded is true of the stores, and no claim is    *)
(* stored more often than its steps, its workers and the crashes account   *)
(* for.                                                                    *)
THEOREM CheckpointIsTruthful == Spec => []CheckpointTruthful
<1>1. LossInv => IsFiniteSet(findings)
  BY DEF LossInv
<1> QED BY <1>1, CheckpointsTruthful, CaseAlways, LossAlways, CopiesAlways, PTL

=============================================================================

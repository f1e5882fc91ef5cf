------------------------------ MODULE Casework ------------------------------
(***************************************************************************)
(* Findings, from an agent's claim to the deal lead's inbox:               *)
(* src/agents/tools/finding_create.py over src/memory/findings.py, with    *)
(* the authorization of src/identity/authz.py, which                       *)
(* src/agents/tools/data_room_read.py enforces as well,                    *)
(* src/coordination/escalation.py, src/agents/coordinator/synthesize.py    *)
(* and the offline producers of src/agents/fleet.py, run as the steps of   *)
(* src/runtime/checkpoint.py.                                              *)
(*                                                                         *)
(* Workers execute one and the same run: a worker that died starts the run *)
(* again, and two may do so at once.  Every read and every write of        *)
(* Firestore is a step, and no two of them are in one transaction.         *)
(***************************************************************************)
EXTENDS Naturals, Sequences, FiniteSets

CONSTANTS Workers,        \* processes that execute the run
          Plan,           \* the run: a sequence of claims, readings and Synthesize
          Synthesize,     \* the step that calls synthesize_critical
          Required,       \* REQUIRED_CONTRIBUTORS, in order
          Owner,          \* CATEGORY_OWNERS: category -> workstream
          Documents,      \* the files of the data room
          None,           \* no finding in hand
          MaxCrashes,     \* bound: processes that die
          MaxAmendments   \* bound: documents that are replaced

VARIABLES
  findings,    \* the documents under deals/{deal}/findings
  items,       \* <<workstream, id>> of the documents in the partitions
  inbox,       \* ids of the documents under deals/{deal}/inbox
  memory,      \* entities published to Memory Bank
  published,   \* <<event type, id>> handed to the publisher
  recorded,    \* steps with a checkpoint event in the log
  texts,       \* Documents -> what has become of the cited spans
  uuids,       \* ids drawn from uuid4
  pc, job,     \* Workers -> next call; the step, and what it has read
  crashes

stores == <<findings, items, inbox, memory, published>>
vars   == <<findings, items, inbox, memory, published, recorded, texts, uuids,
            pc, job, crashes>>

-----------------------------------------------------------------------------
Workstreams == {Required[k] : k \in DOMAIN Required}

(* A document is cited under a category, which is what is authorized; one  *)
(* that the ACL matrix does not have makes no Resource.                    *)
Categories == DOMAIN Owner \cup {"unknown"}
Citation   == [category : Categories, document : Documents]

(* What finding_create is called with: contract says whether the fields    *)
(* other than the evidence are in order, sure whether confidence reaches   *)
(* 0.75.  An offline claim comes from fleet.run_workstream_offline: its id *)
(* is derived from the content, there is no publisher, and a rejection     *)
(* raises.                                                                 *)
Claim == [kind : {"claim"}, name : Nat \ {0}, ws : Workstreams, entities : SUBSET Nat,
          critical : BOOLEAN, sure : BOOLEAN, offline : BOOLEAN,
          contract : BOOLEAN, cites : Seq(Citation)]

\* What data_room_read is called with.
Reading == [kind : {"reading"}, name : Nat \ {0}, ws : Workstreams, cite : Citation]

Calls    == {Plan[i] : i \in DOMAIN Plan} \ {Synthesize}
Claims   == {c \in Calls : c.kind = "claim"}
Readings == Calls \ Claims

ASSUME PlanAssumption ==
  /\ IsFiniteSet(Workers)
  /\ Plan \in Seq(Calls \cup {Synthesize})
  /\ Required \in Seq(STRING)
  /\ Required # << >>
  /\ Owner \in [DOMAIN Owner -> STRING]
  /\ Claims \subseteq Claim
  /\ Readings \subseteq Reading
  /\ \A c, d \in Calls : c.name = d.name => c = d
  /\ MaxCrashes \in Nat
  /\ MaxAmendments \in Nat

(* An id is a digest, or random: it is modelled by the set of what went    *)
(* into it.  <<name, 0>> is the content of a claim, <<name, n>> the n-th   *)
(* uuid, <<0, e>> the entity of a synthesis.                               *)
StableId(c)       == {<<c.name, 0>>}
SynthesisId(e, F) == (UNION {f.id : f \in F}) \cup {<<0, e>>}

Id == SUBSET (Nat \X Nat)

Finding == [id : Id, ws : Workstreams, entities : SUBSET Nat, critical : BOOLEAN,
            open : BOOLEAN, coordinator : BOOLEAN, from : SUBSET Id]

\* Names of the claims whose evidence a finding carries.
Evidence(f) == {part[1] : part \in f.id} \ {0}

Escalable(f) == f.critical /\ f.open

Steps == {"idle", "check", "read", "extract", "submit", "lookup", "set", "remember", "announce",
          "partition", "inbox", "notify", "converge", "collect", "verify", "record"}

\* original: the spans are in the text; revised: they are not, or the document
\* is gone, or it has no text; unreadable: no format that the parser knows.
Texts == {"original", "revised", "unreadable"}

\* The types of the events that the tools publish.
EventTypes == {"security.event", "evidence.rejected", "finding.created", "finding.escalated"}

\* What synthesize_critical has read so far: workstreams, common entities, contributors.
Job == [step : DOMAIN Plan, f : Finding \cup {None}, k : DOMAIN Required,
        common : SUBSET Nat, linked : SUBSET Finding]

ASSUME NoneAssumption == None \notin Finding \cup Job

NewJob(s) == [step |-> s, f |-> None, k |-> 1, common |-> {}, linked |-> {}]

TypeOK ==
  /\ findings \subseteq Finding
  /\ items \subseteq Workstreams \X Id /\ inbox \subseteq Id
  /\ memory \subseteq Nat
  /\ published \subseteq EventTypes \X Id
  /\ recorded \subseteq DOMAIN Plan
  /\ texts \in [Documents -> Texts]
  /\ uuids \in Nat
  /\ pc \in [Workers -> Steps]
  /\ job \in [Workers -> Job \cup {None}]
  /\ \A w \in Workers : (pc[w] = "idle") = (job[w] = None)
  /\ crashes \in 0..MaxCrashes

Init ==
  /\ findings = {} /\ items = {} /\ inbox = {} /\ memory = {} /\ published = {}
  /\ recorded = {} /\ texts = [d \in Documents |-> "original"] /\ uuids = 0
  /\ pc = [w \in Workers |-> "idle"]
  /\ job = [w \in Workers |-> None]
  /\ crashes = 0

-----------------------------------------------------------------------------
At(w, step)   == pc[w] = step
Goto(w, step) == pc' = [pc EXCEPT ![w] = step]
Leave(w)      == Goto(w, "idle") /\ job' = [job EXCEPT ![w] = None]
InHand(w)     == job[w].f
CallOf(w)     == Plan[job[w].step]

(* run_with_checkpoints is called, for the first time or again.            *)
Start(w) ==
  /\ At(w, "idle")
  /\ Plan # << >>
  /\ Goto(w, "check")
  /\ job' = [job EXCEPT ![w] = NewJob(1)]
  /\ UNCHANGED <<stores, recorded, texts, uuids, crashes>>

\* The loop goes to the next step of the run, or the run returns its report.
Advance(w) ==
  IF job[w].step < Len(Plan)
  THEN Goto(w, "check") /\ job' = [job EXCEPT ![w] = NewJob(job[w].step + 1)]
  ELSE Leave(w)

(* is_completed: a step with a checkpoint is skipped.                      *)
Check(w) ==
  /\ At(w, "check")
  /\ \/ job[w].step \in recorded /\ Advance(w)
     \/ /\ job[w].step \notin recorded
        /\ Goto(w, IF CallOf(w) = Synthesize THEN "converge"
                   ELSE IF CallOf(w).kind = "reading" THEN "read"
                   ELSE IF CallOf(w).offline THEN "extract" ELSE "submit")
        /\ UNCHANGED job
  /\ UNCHANGED <<stores, recorded, texts, uuids, crashes>>

\* Mutant: only a step that made a finding is checkpointed.
RecordCreated(w) ==
  /\ At(w, "record")
  /\ recorded' = recorded \cup (IF job[w].f = None THEN {} ELSE {job[w].step})
  /\ Advance(w)
  /\ UNCHANGED <<stores, texts, uuids, crashes>>

(* The checkpoint event, once the step has returned.                       *)
Record(w) ==
  /\ At(w, "record")
  /\ recorded' = recorded \cup {job[w].step}
  /\ Advance(w)
  /\ UNCHANGED <<stores, texts, uuids, crashes>>

-----------------------------------------------------------------------------
(* AUTHORIZATION                                                           *)

Publish(type, id) == published' = published \cup {<<type, id>>}

\* The category makes a Resource.
Known(cite) == cite.category \in DOMAIN Owner

\* can(): of the two reasons for a denial only the workstream boundary is left,
\* both tools addressing resources of their principal's own deal.
Can(ws, cite) == Owner[cite.category] = ws

\* denial_envelope, published under the call that was denied.
Denial(c) == Publish("security.event", {<<c.name, 0>>})

(* data_room_read: an unknown category is denied without an event, any     *)
(* other denial is published by authorize; a document that the parser does *)
(* not know raises.  The agent gets text and chunks, no store changes.     *)
Read(w) ==
  LET c == CallOf(w) IN
  /\ At(w, "read")
  /\ IF Known(c.cite) /\ ~Can(c.ws, c.cite) THEN Denial(c) ELSE UNCHANGED published
  /\ IF /\ Known(c.cite) /\ Can(c.ws, c.cite)
        /\ texts[c.cite.document] = "unreadable"
     THEN Leave(w)
     ELSE Goto(w, "record") /\ UNCHANGED job
  /\ UNCHANGED <<findings, items, inbox, memory, recorded, texts, uuids, crashes>>

-----------------------------------------------------------------------------
(* finding_create                                                          *)

Least(S) == CHOOSE e \in S : \A d \in S : e <= d

(* The offline producer reads its document first, and makes its fact of    *)
(* the text; what it does not find, it raises.                             *)
Extract(w) ==
  /\ At(w, "extract")
  /\ IF \A i \in DOMAIN CallOf(w).cites : texts[CallOf(w).cites[i].document] = "original"
     THEN Goto(w, "submit") /\ UNCHANGED job
     ELSE Leave(w)
  /\ UNCHANGED <<stores, recorded, texts, uuids, crashes>>

\* An entry without span, document or category spoils all: they come as none.
StructuralEvidence(c) == c.cites # << >>

WellFormed(c) == c.contract /\ StructuralEvidence(c)

(* The first citation that is not in order decides.                        *)
AuthorizeEvidence(c) ==
  LET bad == {i \in DOMAIN c.cites : Known(c.cites[i]) => ~Can(c.ws, c.cites[i])} IN
  IF bad = {} THEN "authorized"
  ELSE IF Known(c.cites[Least(bad)]) THEN "evidence_unauthorized" ELSE "invalid_category"

VerifySpans(c) ==
  LET bad == {i \in DOMAIN c.cites : texts[c.cites[i].document] # "original"} IN
  IF bad = {} THEN "verified"
  ELSE IF texts[c.cites[Least(bad)].document] = "revised" THEN "evidence_unresolvable"
       ELSE "raises"

\* Mutant: the authorization of the cited documents is forgotten.
VerdictUnauthorized(c) ==
  IF ~WellFormed(c) THEN "invalid_contract" ELSE VerifySpans(c)

(* Contract, authorization, spans, in this order.                          *)
Verdict(c) ==
  IF ~WellFormed(c) THEN "invalid_contract"
  ELSE IF AuthorizeEvidence(c) # "authorized" THEN AuthorizeEvidence(c)
  ELSE VerifySpans(c)

\* A rejection: the agent's tool returns it, the offline producer raises.
Rejected(w) ==
  IF CallOf(w).offline THEN Leave(w) ELSE Goto(w, "record") /\ UNCHANGED job

(* The publisher of an agent hears of denials and of unresolvable spans; a *)
(* document that the parser does not know raises past the tool.            *)
Reject(w) ==
  LET c == CallOf(w)  verdict == Verdict(c) IN
  /\ At(w, "submit")
  /\ verdict # "verified"
  /\ IF c.offline \/ verdict \notin {"evidence_unauthorized", "evidence_unresolvable"}
     THEN UNCHANGED published
     ELSE IF verdict = "evidence_unauthorized" THEN Denial(c)
          ELSE Publish("evidence.rejected", StableId(c))
  /\ IF verdict = "raises" THEN Leave(w) ELSE Rejected(w)
  /\ UNCHANGED <<findings, items, inbox, memory, recorded, texts, uuids, crashes>>

(* The finding to store: confidence below 0.75 caps it at candidate, and   *)
(* a claim that requests no id gets a fresh one.                           *)
Accept(w) ==
  LET c == CallOf(w) IN
  /\ At(w, "submit")
  /\ Verdict(c) = "verified"
  /\ uuids' = IF c.offline THEN uuids ELSE uuids + 1
  /\ job' = [job EXCEPT ![w].f =
       [id |-> IF c.offline THEN StableId(c) ELSE {<<c.name, uuids + 1>>},
        ws |-> c.ws, entities |-> c.entities, critical |-> c.critical,
        open |-> c.sure, coordinator |-> FALSE, from |-> {}]]
  /\ Goto(w, "lookup")
  /\ UNCHANGED <<stores, recorded, texts, crashes>>

-----------------------------------------------------------------------------
(* The calls finding_create and synthesize_critical share                  *)

\* Mutant: the offline producer takes a duplicate for a success.
LookupSwallows(w) ==
  /\ At(w, "lookup")
  /\ Goto(w, IF \E f \in findings : f.id = InHand(w).id THEN "record" ELSE "set")
  /\ UNCHANGED job
  /\ UNCHANGED <<stores, recorded, texts, uuids, crashes>>

(* FindingsStore.create, first call.  A taken id ends a synthesis with the *)
(* existing id and a finding_create with a rejection.                      *)
Lookup(w) ==
  /\ At(w, "lookup")
  /\ IF \E f \in findings : f.id = InHand(w).id
     THEN IF InHand(w).coordinator
          THEN Goto(w, "record") /\ UNCHANGED job
          ELSE Rejected(w)
     ELSE Goto(w, "set") /\ UNCHANGED job
  /\ UNCHANGED <<stores, recorded, texts, uuids, crashes>>

(* FindingsStore.create, second call: an unconditional set.                *)
Set(w) ==
  /\ At(w, "set")
  /\ findings' = {f \in findings : f.id # InHand(w).id} \cup {InHand(w)}
  /\ Goto(w, IF InHand(w).coordinator THEN "remember" ELSE "partition")
  /\ UNCHANGED <<items, inbox, memory, published, recorded, texts, uuids, job, crashes>>

\* What a LiveMemoryBank that is disabled, fails, or works makes of the memory.
BankOutcomes(entities) == {memory, memory \cup entities}

(* _remember_entity: whether the write succeeds nobody hears.              *)
Remember(w) ==
  /\ At(w, "remember")
  /\ memory' \in BankOutcomes(InHand(w).entities)
  /\ Goto(w, "announce")
  /\ UNCHANGED <<findings, items, inbox, published, recorded, texts, uuids, job, crashes>>

Announce(w) ==
  /\ At(w, "announce")
  /\ Publish("finding.created", InHand(w).id)
  /\ Goto(w, "partition")
  /\ UNCHANGED <<findings, items, inbox, memory, recorded, texts, uuids, job, crashes>>

\* The path of a partition document: the workstream is part of it.
ItemOf(f) == <<f.ws, f.id>>

\* Mutant: candidates escalate as well.
PartitionThenEscalate(w) ==
  /\ At(w, "partition")
  /\ items' = items \cup {ItemOf(InHand(w))}
  /\ Goto(w, IF InHand(w).critical THEN "inbox" ELSE "record")
  /\ UNCHANGED <<findings, inbox, memory, published, recorded, texts, uuids, job, crashes>>

\* Mutant: what has no publisher does not escalate.
PartitionPublishedOnly(w) ==
  /\ At(w, "partition")
  /\ items' = items \cup {ItemOf(InHand(w))}
  /\ Goto(w, IF /\ Escalable(InHand(w))
                /\ CallOf(w) = Synthesize \/ ~CallOf(w).offline
             THEN "inbox" ELSE "record")
  /\ UNCHANGED <<findings, inbox, memory, published, recorded, texts, uuids, job, crashes>>

(* The partition document; after it only critical open findings go on.     *)
Partition(w) ==
  /\ At(w, "partition")
  /\ items' = items \cup {ItemOf(InHand(w))}
  /\ Goto(w, IF Escalable(InHand(w)) THEN "inbox" ELSE "record")
  /\ UNCHANGED <<findings, inbox, memory, published, recorded, texts, uuids, job, crashes>>

(* escalate_critical: the inbox entry, then the event for those who have a *)
(* publisher.                                                              *)
Inbox(w) ==
  /\ At(w, "inbox")
  /\ inbox' = inbox \cup {InHand(w).id}
  /\ Goto(w, IF CallOf(w) # Synthesize /\ CallOf(w).offline THEN "record" ELSE "notify")
  /\ UNCHANGED <<findings, items, memory, published, recorded, texts, uuids, job, crashes>>

Notify(w) ==
  /\ At(w, "notify")
  /\ Publish("finding.escalated", InHand(w).id)
  /\ Goto(w, "record")
  /\ UNCHANGED <<findings, items, inbox, memory, recorded, texts, uuids, job, crashes>>

-----------------------------------------------------------------------------
(* synthesize_critical                                                     *)

Of(ws) == {f \in findings : f.ws = ws}

(* _convergence_entity: one query for each required workstream.  Without a *)
(* common entity the synthesis refuses and the step is over.               *)
Converge(w) ==
  LET j        == job[w]
      entities == UNION {f.entities : f \in Of(Required[j.k])}
      common   == IF j.k = 1 THEN entities ELSE j.common \cap entities
  IN
  /\ At(w, "converge")
  /\ \/ /\ common = {}
        /\ Goto(w, "record")
        /\ UNCHANGED job
     \/ /\ common # {} /\ j.k < Len(Required)
        /\ job' = [job EXCEPT ![w].common = common, ![w].k = j.k + 1]
        /\ UNCHANGED pc
     \/ /\ common # {} /\ j.k = Len(Required)
        /\ job' = [job EXCEPT ![w].common = {Least(common)}, ![w].k = 1]
        /\ Goto(w, "collect")
  /\ UNCHANGED <<stores, recorded, texts, uuids, crashes>>

\* Mutant: the coordinator counts its own findings as contributions.
Contributions(ws, e) == {f \in Of(ws) : e \in f.entities}

\* The findings of a workstream that flag the entity, the coordinator's apart.
Convergent(ws, e) == {f \in Of(ws) : e \in f.entities /\ ~f.coordinator}

(* _synthesize, second pass: the contributors, again one query for each    *)
(* required workstream.                                                    *)
Collect(w) ==
  LET j     == job[w]
      found == Convergent(Required[j.k], Least(j.common))
  IN
  /\ At(w, "collect")
  /\ \/ /\ found = {}
        /\ Goto(w, "record")
        /\ UNCHANGED job
     \/ /\ found # {}
        /\ job' = [job EXCEPT ![w].linked = @ \cup found,
                              ![w].k = IF @ < Len(Required) THEN @ + 1 ELSE @]
        /\ Goto(w, IF j.k < Len(Required) THEN "collect" ELSE "verify")
  /\ UNCHANGED <<stores, recorded, texts, uuids, crashes>>

ClaimNamed(n) == CHOOSE c \in Claims : c.name = n

\* The documents that the evidence of the linked findings cites.
Inherited(F) ==
  UNION {{c.cites[i].document : i \in DOMAIN c.cites} :
           c \in {ClaimNamed(n) : n \in UNION {Evidence(f) : f \in F}}}

\* Mutant: the synthesis is filed under the coordinator, not under its anchor.
SynthesisUnanchored(e, F) ==
  [id |-> SynthesisId(e, F), ws |-> "coordinator", entities |-> {e}, critical |-> TRUE,
   open |-> TRUE, coordinator |-> TRUE, from |-> {f.id : f \in F}]

SynthesisOf(e, F) ==
  [id |-> SynthesisId(e, F), ws |-> Required[1], entities |-> {e}, critical |-> TRUE,
   open |-> TRUE, coordinator |-> TRUE, from |-> {f.id : f \in F}]

(* The inherited evidence is verified once more, in the order of the       *)
(* digests: one span that is gone refuses the synthesis, one document that *)
(* cannot be parsed raises.  The CRITICAL finding goes the way of all.     *)
Verify(w) ==
  LET j     == job[w]
      found == {texts[d] : d \in Inherited(j.linked)}
  IN
  /\ At(w, "verify")
  /\ \/ /\ found = {"original"}
        /\ job' = [job EXCEPT ![w].f = SynthesisOf(Least(j.common), j.linked)]
        /\ Goto(w, "lookup")
     \/ "revised" \in found /\ Goto(w, "record") /\ UNCHANGED job
     \/ "unreadable" \in found /\ Leave(w)
  /\ UNCHANGED <<stores, recorded, texts, uuids, crashes>>

-----------------------------------------------------------------------------
(* The process dies, or a call raises.                                     *)
Crash(w) ==
  /\ pc[w] # "idle"
  /\ crashes < MaxCrashes
  /\ crashes' = crashes + 1
  /\ Leave(w)
  /\ UNCHANGED <<stores, recorded, texts, uuids>>

Amended == {d \in Documents : texts[d] # "original"}

(* A document is replaced by one without the spans, or by no document.     *)
Amend(d, text) ==
  /\ text # texts[d]
  /\ Cardinality(Amended \cup {d}) <= MaxAmendments
  /\ texts' = [texts EXCEPT ![d] = text]
  /\ UNCHANGED <<stores, recorded, uuids, pc, job, crashes>>

Step(w) ==
  \/ Check(w) \/ Record(w)
  \/ Read(w) \/ Extract(w) \/ Reject(w) \/ Accept(w)
  \/ Lookup(w) \/ Set(w) \/ Remember(w) \/ Announce(w)
  \/ Partition(w) \/ Inbox(w) \/ Notify(w)
  \/ Converge(w) \/ Collect(w) \/ Verify(w)

Next ==
  \/ \E w \in Workers : Start(w) \/ Step(w) \/ Crash(w)
  \/ \E d \in Documents : \E text \in Texts \ {"original"} : Amend(d, text)

Spec == Init /\ [][Next]_vars

(* A process that runs goes on, and a run that ended is started again.     *)
FairSpec == Spec /\ \A w \in Workers : WF_vars(Start(w)) /\ WF_vars(Step(w))

-----------------------------------------------------------------------------
(* PROPERTIES                                                              *)

(* Whatever a finding says is said by well-formed claims that cite every   *)
(* document under a category of their author's own: the coordinator, which *)
(* bypasses the tool and its authorization, only inherits what the tool    *)
(* let through.                                                            *)
EvidenceGate ==
  \A f \in findings : \A n \in Evidence(f) :
    LET c == ClaimNamed(n) IN
    /\ WellFormed(c)
    /\ \A i \in DOMAIN c.cites : Known(c.cites[i]) /\ Can(c.ws, c.cites[i])

(* The removal-proof of synthesize.py: a synthesis links findings of every *)
(* required workstream, all of them stored, all flagging its entity, none  *)
(* a synthesis itself, although the workstreams are read one by one and    *)
(* twice while others write, and the syntheses are filed in one of them.   *)
SynthesisSound ==
  \A s \in findings : s.coordinator =>
    LET linked == {f \in findings : f.id \in s.from} IN
    /\ {f.id : f \in linked} = s.from
    /\ \A f \in linked : ~f.coordinator /\ s.entities \subseteq f.entities
    /\ {f.ws : f \in linked} = Workstreams

(* The deal lead's inbox and the escalation events speak of stored         *)
(* findings that are critical and not capped at candidate, and the event   *)
(* never comes before the entry.                                           *)
InboxTruthful ==
  /\ inbox \subseteq {f.id : f \in {g \in findings : Escalable(g)}}
  /\ {p[2] : p \in {q \in published : q[1] = "finding.escalated"}} \subseteq inbox

InFlight(id) == \E w \in Workers : job[w] # None /\ job[w].f # None /\ job[w].f.id = id

Unescalated == {f \in findings : /\ Escalable(f)
                                 /\ f.id \notin inbox
                                 /\ ~InFlight(f.id)}

(* A critical finding of which the deal lead is never told has been paid   *)
(* for by a crash of its own: its id is taken, so nobody ever escalates it *)
(* again.  Races alone lose no escalation.                                 *)
LossNeedsCrash == Cardinality(Unescalated) <= crashes

StepsOf(c) == {i \in DOMAIN Plan : Plan[i] = c}

Copies(c) == {f \in findings : ~f.coordinator /\ Evidence(f) = {c.name}}

Refused(c) ==
  \/ c \in Readings /\ Known(c.cite) /\ ~Can(c.ws, c.cite)
  \/ c \in Claims /\ WellFormed(c) /\ AuthorizeEvidence(c) = "evidence_unauthorized"

(* checkpoint.py:3-6: no finding is created twice and no work is lost.     *)
(* The checkpoint of an offline claim stands for its finding, its document *)
(* in its workstream's partition and its escalation, and such a claim is   *)
(* stored once; a claim with a fresh id may be stored once for every step  *)
(* that makes it and every worker that runs the step, and once more for    *)
(* every crash before a checkpoint.  The checkpoint of a step that was     *)
(* denied a document stands for the security event.                        *)
CheckpointTruthful ==
  /\ \A i \in recorded :
       Plan[i] \in Claims /\ Plan[i].offline =>
         \E f \in findings : /\ f.id = StableId(Plan[i])
                             /\ <<Plan[i].ws, f.id>> \in items
                             /\ Escalable(f) => f.id \in inbox
  /\ \A i \in recorded :
       Plan[i] # Synthesize /\ Refused(Plan[i]) =>
         <<"security.event", {<<Plan[i].name, 0>>}>> \in published
  /\ \A c \in Claims :
       Cardinality(Copies(c)) <=
         IF c.offline THEN 1 ELSE Cardinality(StepsOf(c) \X Workers) + crashes

AllRecorded == recorded = DOMAIN Plan

(* Without crashes and amendments the run completes, also when two workers *)
(* execute it at once and one of them is turned away by the duplicate      *)
(* guard at every step.                                                    *)
CompletesUndisturbed == <>(AllRecorded \/ crashes > 0 \/ Amended # {})

(* checkpoint.py: a killed run, started again, resumes from its last       *)
(* checkpoint.  After a crash between the finding and its checkpoint every *)
(* restart is turned away by the finding that its predecessor stored.      *)
CompletesAfterCrash == <>AllRecorded

=============================================================================

----------------------------- MODULE Ingestion -----------------------------
(***************************************************************************)
(* The ingestion pipeline: ingest_blob of src/ingestion/pipeline.py with   *)
(* the lineage registry (lineage.py), the screening layers (sentinel.py,   *)
(* src/armor) and the quarantine store (src/armor/quarantine.py).          *)
(*                                                                         *)
(* Registration, quarantine, lineage mark, publication and log are single  *)
(* calls on separate documents.  The same bucket notification may arrive   *)
(* twice, two revisions may be ingested at once, link_supersedes may run   *)
(* in between, and a worker may die or a call raise anywhere.              *)
(*                                                                         *)
(* What the layers decide is in Screening.                                 *)
(***************************************************************************)
EXTENDS Screening, Naturals, FiniteSets

CONSTANTS Docs,          \* document ids, which are the logical keys too
          Workers,
          MaxJobs,       \* bound: ingestions and links started
          MaxFailures    \* bound: calls that raise, workers that die

ASSUME IngestionAssumption ==
  /\ None \notin Docs \cup Workers
  /\ MaxJobs \in Nat /\ MaxFailures \in Nat

VARIABLES
  documents,     \* Docs -> documents/{id}, None if absent
  quarantined,   \* Docs -> quarantined/{id}, None if absent
  published,     \* events handed to the bus
  log,           \* events in the canonical log
  pc, job,       \* Workers -> next call; the ingestion or link in hand
  started, failures,
  registered,    \* history: the registrations written, as headers of events
  raced          \* history: documents written from a read no longer current

vars == <<documents, quarantined, published, log, pc, job, started, failures,
          registered, raced>>

stores == <<documents, quarantined, published, log, registered, raced>>

-----------------------------------------------------------------------------
Version == Nat \ {0}
Ids     == 1..MaxJobs

\* supersedes is the previous id, the document's own in a chain of revisions.
Document == [content : Contents, version : Version, supersedes : Docs \cup {None},
             secure : BOOLEAN]       \* secure: no security_status "quarantined"

Quarantine == [content : Contents, version : Version]

Header == [id : Ids, doc : Docs, content : Contents, version : Version]

EventTypes == {"parsed", "security", "routed"}
Event == [type : EventTypes, header : Header, route : Workstreams \cup {None}]

\* seen is the document as the job read it; version the one to be written;
\* route what the classifier said.
Job == [id : Ids, doc : Docs, content : Contents \cup {None}, prior : Docs \cup {None},
        seen : Document \cup {None}, version : Nat, event : EventTypes \cup {None},
        route : Workstreams \cup {None}]

ASSUME NoneAssumption == None \notin Document \cup Quarantine \cup Job

Steps == {"idle", "lookup", "register", "parse", "publish", "append", "sentinel",
          "classify", "armor", "quarantine", "mark", "prior", "current", "link"}

TypeOK ==
  /\ documents \in [Docs -> Document \cup {None}]
  /\ quarantined \in [Docs -> Quarantine \cup {None}]
  /\ published \subseteq Event /\ log \subseteq published
  /\ pc \in [Workers -> Steps]
  /\ job \in [Workers -> Job \cup {None}]
  /\ \A w \in Workers : (pc[w] = "idle") = (job[w] = None)
  /\ started \in 0..MaxJobs /\ failures \in 0..MaxFailures
  /\ registered \subseteq Header
  /\ raced \subseteq Docs

Init ==
  /\ documents = [d \in Docs |-> None] /\ quarantined = [d \in Docs |-> None]
  /\ published = {} /\ log = {}
  /\ pc = [w \in Workers |-> "idle"] /\ job = [w \in Workers |-> None]
  /\ started = 0 /\ failures = 0
  /\ registered = {} /\ raced = {}

-----------------------------------------------------------------------------
(* STEPS *)

Goto(w, step) == pc' = [pc EXCEPT ![w] = step]
Return(w)     == Goto(w, "idle") /\ job' = [job EXCEPT ![w] = None]
HeaderOf(w)   == [id |-> job[w].id, doc |-> job[w].doc, content |-> job[w].content,
                  version |-> job[w].version]
EventOf(w)    == [type |-> job[w].event, header |-> HeaderOf(w), route |-> job[w].route]
Emit(w, type) == Goto(w, "publish") /\ job' = [job EXCEPT ![w].event = type]

Larger(m, n) == IF m > n THEN m ELSE n

Start(w, step, d, c, prior) ==
  /\ pc[w] = "idle"
  /\ started < MaxJobs
  /\ started' = started + 1
  /\ job' = [job EXCEPT ![w] = [id |-> started + 1, doc |-> d, content |-> c, prior |-> prior,
                                seen |-> None, version |-> 0, event |-> None,
                                route |-> None]]
  /\ Goto(w, step)
  /\ UNCHANGED <<stores, failures>>

Ingest(w, d, c) == Start(w, "lookup", d, c, None)

LinkSupersedes(w, d, p) == d # p /\ Start(w, "prior", d, None, p)

\* Mutant: the version is the number of records found, plus one.
LookupCounting(w) ==
  LET j == job[w]  found == documents[j.doc] IN
  /\ pc[w] = "lookup"
  /\ IF found # None /\ found.content = j.content
     THEN Return(w)
     ELSE /\ job' = [job EXCEPT ![w].seen = found,
                                ![w].version = IF found = None THEN 1 ELSE 2]
          /\ Goto(w, "register")
  /\ UNCHANGED <<stores, started, failures>>

(* register_document reads the records of the key, of which the pipeline   *)
(* has one: the document itself.  An identical checksum is SUPPRESSED.     *)
Lookup(w) ==
  LET j == job[w]  found == documents[j.doc] IN
  /\ pc[w] = "lookup"
  /\ IF found # None /\ found.content = j.content
     THEN Return(w)
     ELSE /\ job' = [job EXCEPT ![w].seen = found,
                                ![w].version = IF found = None THEN 1 ELSE found.version + 1]
          /\ Goto(w, "register")
  /\ UNCHANGED <<stores, started, failures>>

\* A write of a document that was read some calls ago.
WriteDocument(d, seen, record) ==
  /\ documents' = [documents EXCEPT ![d] = record]
  /\ raced' = IF documents[d] = None \/ seen = None
              THEN raced \cup (IF documents[d] = seen THEN {} ELSE {d})
              ELSE raced \cup (IF /\ documents[d].content = seen.content
                                  /\ documents[d].version = seen.version THEN {} ELSE {d})

\* What a merge leaves alone.
SecureNow(d) == documents[d] = None \/ documents[d].secure

\* Mutant: a plain set, which forgets the security status.
RegisterReplacing(w) ==
  LET j == job[w] IN
  /\ pc[w] = "register"
  /\ WriteDocument(j.doc, j.seen,
       [content |-> j.content, version |-> j.version, secure |-> TRUE,
        supersedes |-> IF j.seen = None THEN None ELSE j.doc])
  /\ registered' = registered \cup {HeaderOf(w)}
  /\ Goto(w, "parse")
  /\ UNCHANGED <<quarantined, published, log, job, started, failures>>

(* Then it sets the record, merging: security_status is none of its        *)
(* fields.  What a revision supersedes is the document it was read from.   *)
Register(w) ==
  LET j == job[w] IN
  /\ pc[w] = "register"
  /\ WriteDocument(j.doc, j.seen,
       [content |-> j.content, version |-> j.version, secure |-> SecureNow(j.doc),
        supersedes |-> IF j.seen = None THEN None ELSE j.doc])
  /\ registered' = registered \cup {HeaderOf(w)}
  /\ Goto(w, "parse")
  /\ UNCHANGED <<quarantined, published, log, job, started, failures>>

(* An unknown format raises UnsupportedFormatError, after the registration *)
(* that suppresses every further attempt.                                  *)
Parse(w) ==
  /\ pc[w] = "parse"
  /\ IF Unsupported(job[w].content) THEN Return(w) ELSE Emit(w, "parsed")
  /\ UNCHANGED <<stores, started, failures>>

Publish(w) ==
  /\ pc[w] = "publish"
  /\ published' = published \cup {EventOf(w)}
  /\ Goto(w, "append")
  /\ UNCHANGED <<documents, quarantined, log, registered, raced, job, started, failures>>

(* emit's second half.  After DOCUMENT_PARSED a document without text      *)
(* needs OCR and is done, any other goes to the sentinel.                  *)
Append(w) ==
  /\ pc[w] = "append"
  /\ log' = log \cup {EventOf(w)}
  /\ IF job[w].event = "parsed" /\ HasText(job[w].content)
     THEN Goto(w, "sentinel") /\ UNCHANGED job
     ELSE Return(w)
  /\ UNCHANGED <<documents, quarantined, published, registered, raced, started, failures>>

Sentinel(w) ==
  /\ pc[w] = "sentinel"
  /\ \E tripped \in {Tripwire(job[w].content, answer) : answer \in SentinelAnswers} :
       Goto(w, IF tripped THEN "quarantine" ELSE "classify")
  /\ UNCHANGED <<stores, job, started, failures>>

(* The classifier only fills in the payload of the routing event.          *)
Classify(w) ==
  /\ pc[w] = "classify"
  /\ \E route \in {Route(job[w].content, answer) : answer \in Workstreams \cup {None}} :
       job' = [job EXCEPT ![w].route = route]
  /\ Goto(w, "armor")
  /\ UNCHANGED <<stores, started, failures>>

(* Armor decides whether there is one; a blocked document loses its route. *)
Armor(w) ==
  /\ pc[w] = "armor"
  /\ \E blocked \in Verdicts(job[w].content) :
       IF blocked
       THEN Goto(w, "quarantine") /\ job' = [job EXCEPT ![w].route = None]
       ELSE Emit(w, "routed")
  /\ UNCHANGED <<stores, started, failures>>

SetQuarantined(w) ==
  /\ pc[w] = "quarantine"
  /\ quarantined' = [quarantined EXCEPT ![job[w].doc] =
                       [content |-> job[w].content, version |-> job[w].version]]
  /\ Goto(w, "mark")
  /\ UNCHANGED <<documents, published, log, registered, raced, job, started, failures>>

\* Mutant: a document that is marked already is not announced again.
MarkOnce(w) ==
  LET d == job[w].doc IN
  /\ pc[w] = "mark"
  /\ documents' = [documents EXCEPT ![d].secure = FALSE]
  /\ IF documents[d].secure THEN Emit(w, "security") ELSE Return(w)
  /\ UNCHANGED <<quarantined, published, log, registered, raced, started, failures>>

(* The lineage document gains security_status, whatever version it has by  *)
(* now, and the pipeline emits the SECURITY_EVENT itself.                  *)
Mark(w) ==
  /\ pc[w] = "mark"
  /\ documents' = [documents EXCEPT ![job[w].doc].secure = FALSE]
  /\ Emit(w, "security")
  /\ UNCHANGED <<quarantined, published, log, registered, raced, started, failures>>

-----------------------------------------------------------------------------
(* link_supersedes *)

ReadPrior(w) ==
  LET prior == documents[job[w].prior] IN
  /\ pc[w] = "prior"
  /\ IF prior = None
     THEN Return(w)
     ELSE job' = [job EXCEPT ![w].version = prior.version + 1] /\ Goto(w, "current")
  /\ UNCHANGED <<stores, started, failures>>

ReadCurrent(w) ==
  LET current == documents[job[w].doc] IN
  /\ pc[w] = "current"
  /\ IF current = None
     THEN Return(w)
     ELSE job' = [job EXCEPT ![w].seen = current] /\ Goto(w, "link")
  /\ UNCHANGED <<stores, started, failures>>

(* Every lineage field is written back as it was read, but for the version *)
(* and what it supersedes; a registration in between is undone.            *)
WriteLink(w) ==
  LET j == job[w] IN
  /\ pc[w] = "link"
  /\ WriteDocument(j.doc, j.seen,
       [content |-> j.seen.content, version |-> Larger(j.seen.version, j.version),
        supersedes |-> j.prior, secure |-> SecureNow(j.doc)])
  /\ Return(w)
  /\ UNCHANGED <<quarantined, published, log, registered, started, failures>>

-----------------------------------------------------------------------------
(* A call raises (the store, the bus, a model, a parser) or the worker     *)
(* dies; nothing it wrote is taken back.                                   *)
Fail(w) ==
  /\ pc[w] # "idle"
  /\ failures < MaxFailures
  /\ failures' = failures + 1
  /\ Return(w)
  /\ UNCHANGED <<stores, started>>

Step(w) ==
  \/ Lookup(w) \/ Register(w) \/ Parse(w) \/ Publish(w) \/ Append(w)
  \/ Sentinel(w) \/ Classify(w) \/ Armor(w) \/ SetQuarantined(w) \/ Mark(w)
  \/ ReadPrior(w) \/ ReadCurrent(w) \/ WriteLink(w)

Next == \E w \in Workers :
  \/ \E d \in Docs, c \in Contents : Ingest(w, d, c)
  \/ \E d, p \in Docs : LinkSupersedes(w, d, p)
  \/ Step(w)
  \/ Fail(w)

Spec == Init /\ [][Next]_vars

-----------------------------------------------------------------------------
(* PROPERTIES *)

\* What the sentinel condemns by itself, and what some layer does, whatever
\* the models answer.
Poisoned(c)  == Marked(c) \/ (Live /\ Traits[c].long)
Condemned(c) == Poisoned(c) \/ Ruled(c)

(* No routing event ever reaches the bus for a condemned content: no order *)
(* of answers, revisions or retries gets one past both layers, neither     *)
(* layer's verdict replaces the other's, and a poisoned text has not even  *)
(* been shown to the classifier or to the managed armor.                   *)
RoutedClean ==
  /\ \A e \in published : e.type = "routed" =>
       ~Condemned(e.header.content) /\ HasText(e.header.content)
  /\ \A w \in Workers : pc[w] \in {"classify", "armor"} => ~Poisoned(job[w].content)

(* By the time anybody hears that a document was blocked, it is in the     *)
(* quarantine and marked in the lineage; and the mark outlives every later *)
(* revision and link, those that overwrite the lineage from an old read    *)
(* included.                                                               *)
QuarantineHolds ==
  /\ \A e \in published : e.type = "security" => ~SecureNow(e.header.doc)
  /\ \A d \in Docs : ~SecureNow(d) => quarantined[d] # None

Settled(h) ==
  \/ Unsupported(h.content)
  \/ \E e \in log : /\ e.header = h
                    /\ e.type = "parsed" => ~HasText(h.content)

InHand(h) == \E w \in Workers : job[w] # None /\ job[w].id = h.id

(* Every registered revision gets its verdict into the canonical log,      *)
(* unless a call failed: one failure, one verdict.  Nothing repairs the    *)
(* loss, the same bytes being suppressed from then on.                     *)
VerdictLossNeedsFailure ==
  Cardinality({h \in registered : ~Settled(h) /\ ~InHand(h)}) <= failures

(* A version names one revision: unless writes of the document have raced, *)
(* two ingestions that were carried out have different versions, with      *)
(* links and failures in between too.                                      *)
VersionsDistinct ==
  \A g, h \in registered :
    g.doc = h.doc /\ g.version = h.version /\ g.doc \notin raced => g = h
=============================================================================

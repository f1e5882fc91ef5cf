-------------------------- MODULE IngestionProofs --------------------------
(***************************************************************************)
(* Proofs about Ingestion, for any documents, contents and workers and any *)
(* number of ingestions, links and failures.                               *)
(***************************************************************************)
EXTENDS Ingestion, FiniteSetTheorems, TLAPS

USE DEF Steps, EventTypes

-----------------------------------------------------------------------------
(* TYPE CORRECTNESS                                                        *)

Ingesting  == {"lookup", "register", "parse", "publish", "append", "sentinel",
               "classify", "armor", "quarantine", "mark"}
Registered == Ingesting \ {"lookup", "register"}
Linking    == {"prior", "current", "link"}

(* What a job at hand has got, by the call it has come to.                 *)
Ready(w) ==
  /\ pc[w] \in Ingesting => job[w].content \in Contents
  /\ pc[w] \in Ingesting \ {"lookup"} => job[w].version \in Version
  /\ pc[w] \in Registered => documents[job[w].doc] # None
  /\ pc[w] \in {"publish", "append"} => job[w].event \in EventTypes
  /\ pc[w] = "append" => EventOf(w) \in published
  /\ pc[w] \in Linking => job[w].prior \in Docs
  /\ pc[w] = "link" => job[w].seen \in Document

TypeInv == TypeOK /\ \A w \in Workers : Ready(w)

(* A busy worker has a job in hand.                                        *)
LEMMA BusyHasJob ==
  ASSUME TypeOK, NEW w \in Workers, pc[w] # "idle"
  PROVE  job[w] \in Job
  BY DEF TypeOK

(* Nothing is in hand, nothing is stored.                                  *)
LEMMA InitTypes == Init => TypeInv
<1> SUFFICES ASSUME Init PROVE TypeInv
  OBVIOUS
<1>1. TypeOK
  BY IngestionAssumption DEF Init, TypeOK
<1>2. \A w \in Workers : Ready(w)
  BY DEF Init, Ready, Ingesting, Registered, Linking
<1> QED BY <1>1, <1>2 DEF TypeInv

(* A job that begins.                                                      *)
LEMMA StartTypes ==
  ASSUME TypeInv, NEW w \in Workers, NEW d \in Docs, NEW c \in Contents \cup {None},
         NEW p \in Docs \cup {None}, NEW step \in {"lookup", "prior"},
         step = "lookup" => c \in Contents, step = "prior" => p \in Docs,
         Start(w, step, d, c, p)
  PROVE  TypeInv'
<1> DEFINE j == [id |-> started + 1, doc |-> d, content |-> c, prior |-> p,
                 seen |-> None, version |-> 0, event |-> None, route |-> None]
<1>1. started + 1 \in Ids /\ started + 1 \in 0..MaxJobs
  BY IngestionAssumption DEF TypeInv, TypeOK, Start, Ids
<1>2. j \in Job
  BY <1>1 DEF Job
<1>3. /\ pc' = [pc EXCEPT ![w] = step] /\ job' = [job EXCEPT ![w] = j]
      /\ started' = started + 1 /\ UNCHANGED <<stores, failures>>
  BY DEF Start, Goto
<1> HIDE DEF j
<1>4. TypeOK'
  BY <1>1, <1>2, <1>3, NoneAssumption DEF TypeInv, TypeOK, stores
<1>5. ASSUME NEW v \in Workers PROVE Ready(v)'
  <2>1. CASE v # w
    BY <1>3, <2>1 DEF TypeInv, TypeOK, Ready, EventOf, HeaderOf, stores
  <2>2. CASE v = w
    BY <1>3, <2>2 DEF TypeInv, TypeOK, Ready, stores, j, Ingesting, Registered, Linking
  <2> QED BY <2>1, <2>2
<1> QED BY <1>4, <1>5 DEF TypeInv

(* A worker is as ready as before when others wrote: a document is never   *)
(* deleted and the bus takes nothing back.                                 *)
LEMMA OthersStayReady ==
  ASSUME NEW v \in Workers, TypeOK, Ready(v), pc'[v] = pc[v], job'[v] = job[v],
         published \subseteq published',
         \A d \in Docs : documents[d] # None => documents'[d] # None
  PROVE  Ready(v)'
<1>1. CASE pc[v] = "idle"
  BY <1>1 DEF Ready, Ingesting, Registered, Linking
<1>2. CASE pc[v] # "idle"
  <2>1. job[v].doc \in Docs
    BY <1>2, BusyHasJob DEF Job
  <2> QED BY <2>1 DEF Ready, EventOf, HeaderOf
<1> QED BY <1>1, <1>2

(* So a step of one worker is about that worker.                           *)
LEMMA StepTypes ==
  ASSUME TypeInv, NEW w \in Workers, NEW p \in Steps, NEW j \in Job \cup {None},
         pc' = [pc EXCEPT ![w] = p], job' = [job EXCEPT ![w] = j],
         (p = "idle") = (j = None),
         published \subseteq published',
         \A d \in Docs : documents[d] # None => documents'[d] # None,
         documents' \in [Docs -> Document \cup {None}],
         quarantined' \in [Docs -> Quarantine \cup {None}],
         published' \subseteq Event, log' \subseteq published',
         started' = started, failures' \in 0..MaxFailures,
         registered' \subseteq Header, raced' \subseteq Docs,
         Ready(w)'
  PROVE  TypeInv'
<1>1. TypeOK'
  BY DEF TypeInv, TypeOK
<1>2. ASSUME NEW v \in Workers PROVE Ready(v)'
  <2>1. CASE v = w
    BY <2>1
  <2>2. CASE v # w
    <3>1. pc'[v] = pc[v] /\ job'[v] = job[v] /\ TypeOK /\ Ready(v)
      BY <2>2 DEF TypeInv, TypeOK
    <3> QED BY <3>1, OthersStayReady
  <2> QED BY <2>1, <2>2
<1> QED BY <1>1, <1>2 DEF TypeInv

(* The calls that only read, and those that only write stores.             *)
LEMMA ReturnTypes ==
  ASSUME TypeInv, NEW w \in Workers, Return(w), UNCHANGED <<stores, started>>,
         failures' \in 0..MaxFailures
  PROVE  TypeInv'
<1>1. pc' = [pc EXCEPT ![w] = "idle"] /\ job' = [job EXCEPT ![w] = None]
  BY DEF Return, Goto
<1>2. Ready(w)'
  BY <1>1 DEF TypeInv, TypeOK, Ready, Ingesting, Registered, Linking
<1>3. None \in Job \cup {None} /\ "idle" \in Steps
  OBVIOUS
<1>4. /\ UNCHANGED <<documents, quarantined, published, log, registered, raced, started>>
      /\ documents \in [Docs -> Document \cup {None}]
      /\ quarantined \in [Docs -> Quarantine \cup {None}]
      /\ published \subseteq Event /\ log \subseteq published
      /\ registered \subseteq Header /\ raced \subseteq Docs
  BY DEF stores, TypeInv, TypeOK
<1> QED BY <1>1, <1>2, <1>3, <1>4, StepTypes

(* A write of a read record keeps the documents in type, and deletes none. *)
LEMMA WriteTypes ==
  ASSUME TypeOK, NEW d \in Docs, NEW seen, NEW record \in Document,
         WriteDocument(d, seen, record)
  PROVE  /\ documents' \in [Docs -> Document \cup {None}]
         /\ \A e \in Docs : documents'[e] = IF e = d THEN record ELSE documents[e]
         /\ \A e \in Docs : documents[e] # None => documents'[e] # None
         /\ documents'[d] # None
         /\ raced \subseteq raced' /\ raced' \subseteq Docs
  BY NoneAssumption DEF TypeOK, WriteDocument

(* The registered document of a worker past the registration.              *)
LEMMA HeaderTypes ==
  ASSUME TypeInv, NEW w \in Workers, pc[w] \in Ingesting \ {"lookup"}
  PROVE  /\ HeaderOf(w) \in Header
         /\ job[w] \in Job /\ job[w].doc \in Docs /\ job[w].content \in Contents
         /\ job[w].version \in Version
<1>1. job[w] \in Job
  BY BusyHasJob DEF TypeInv, Ingesting
<1>2. Ready(w)
  BY DEF TypeInv
<1> QED BY <1>1, <1>2 DEF Ready, Job, Header, HeaderOf

(* The part of the state that a step which writes nothing leaves in type.  *)
LEMMA StoresTypes ==
  ASSUME TypeInv, UNCHANGED stores
  PROVE  /\ documents' \in [Docs -> Document \cup {None}]
         /\ quarantined' \in [Docs -> Quarantine \cup {None}]
         /\ published' \subseteq Event /\ log' \subseteq published'
         /\ registered' \subseteq Header /\ raced' \subseteq Docs
         /\ published' = published /\ documents' = documents
  BY DEF TypeInv, TypeOK, stores

(* A step that only moves on, one that fills in or drops the route, and    *)
(* one that turns to emitting an event.                                    *)
LEMMA GotoTypes ==
  ASSUME TypeInv, NEW w \in Workers, NEW p \in Registered \ {"publish", "append"},
         pc[w] \in Registered, pc' = [pc EXCEPT ![w] = p],
         UNCHANGED <<stores, job, started, failures>>
  PROVE  TypeInv'
<1>1. /\ TypeOK /\ Ready(w) /\ failures \in 0..MaxFailures
      /\ pc \in [Workers -> Steps] /\ job \in [Workers -> Job \cup {None}]
  BY DEF TypeInv, TypeOK
<1>2. /\ job' = [job EXCEPT ![w] = job[w]] /\ job[w] \in Job /\ job[w] # None
      /\ p \in Steps /\ p # "idle"
  BY <1>1, BusyHasJob, NoneAssumption DEF Registered, Ingesting
<1>3. Ready(w)'
  BY <1>1 DEF Ready, Registered, Ingesting, Linking, stores
<1> QED BY <1>1, <1>2, <1>3, StoresTypes, StepTypes

(* A worker that goes on with a route is well typed.                       *)
LEMMA RouteTypes ==
  ASSUME TypeInv, NEW w \in Workers, NEW p \in Registered \ {"publish", "append"},
         NEW route \in Workstreams \cup {None},
         pc[w] \in Registered, pc' = [pc EXCEPT ![w] = p],
         job' = [job EXCEPT ![w] = [job[w] EXCEPT !.route = route]],
         UNCHANGED <<stores, started, failures>>
  PROVE  TypeInv'
<1> DEFINE n == [job[w] EXCEPT !.route = route]
<1>1. /\ TypeOK /\ Ready(w) /\ failures \in 0..MaxFailures
      /\ pc \in [Workers -> Steps] /\ job \in [Workers -> Job \cup {None}]
  BY DEF TypeInv, TypeOK
<1>2. job[w] \in Job /\ p \in Steps /\ p # "idle"
  BY <1>1, BusyHasJob DEF Registered, Ingesting
<1>3. /\ n \in Job /\ n.content = job[w].content /\ n.version = job[w].version
      /\ n.doc = job[w].doc
  BY <1>2 DEF Job
<1>4. job' = [job EXCEPT ![w] = n] /\ n # None
  BY <1>3, NoneAssumption
<1> HIDE DEF n
<1>5. Ready(w)'
  BY <1>1, <1>3, <1>4 DEF Ready, Registered, Ingesting, Linking, stores
<1> QED BY <1>1, <1>2, <1>3, <1>4, <1>5, StoresTypes, StepTypes

(* A worker that publishes and goes on to the append is well typed.        *)
LEMMA EmitTypes ==
  ASSUME TypeInv, NEW w \in Workers, NEW type \in EventTypes,
         pc[w] \in Registered, Emit(w, type),
         UNCHANGED <<quarantined, published, log, registered, raced, started, failures>>,
         documents' \in [Docs -> Document \cup {None}],
         \A d \in Docs : documents[d] # None => documents'[d] # None
  PROVE  TypeInv'
<1> DEFINE n == [job[w] EXCEPT !.event = type]
<1>1. /\ TypeOK /\ Ready(w) /\ failures \in 0..MaxFailures
      /\ pc \in [Workers -> Steps] /\ job \in [Workers -> Job \cup {None}]
  BY DEF TypeInv, TypeOK
<1>2. job[w] \in Job /\ pc' = [pc EXCEPT ![w] = "publish"] /\ job' = [job EXCEPT ![w] = n]
  BY <1>1, BusyHasJob DEF Emit, Goto, Registered, Ingesting
<1>3. /\ n \in Job /\ n.content = job[w].content /\ n.version = job[w].version
      /\ n.doc = job[w].doc /\ n.doc \in Docs /\ n.event \in EventTypes
  BY <1>2 DEF Job
<1> HIDE DEF n
<1>4. Ready(w)'
  BY <1>1, <1>2, <1>3 DEF Ready, Registered, Ingesting, Linking
<1>5. /\ published' \subseteq Event /\ log' \subseteq published' /\ published \subseteq published'
      /\ quarantined' \in [Docs -> Quarantine \cup {None}]
      /\ registered' \subseteq Header /\ raced' \subseteq Docs
  BY <1>1 DEF TypeOK
<1>6. "publish" \in Steps /\ n # None
  BY <1>3, NoneAssumption
<1> QED BY <1>1, <1>2, <1>3, <1>4, <1>5, <1>6, StepTypes

(* Every step of a job keeps every worker ready for its next call.         *)
LEMMA JobTypes ==
  ASSUME TypeInv, NEW w \in Workers, Step(w) \/ Fail(w)
  PROVE  TypeInv'
<1> DEFINE j == job[w]
<1>a. /\ TypeOK /\ Ready(w) /\ failures \in 0..MaxFailures
      /\ pc \in [Workers -> Steps] /\ job \in [Workers -> Job \cup {None}]
  BY DEF TypeInv, TypeOK
<1>b. pc[w] # "idle"
  BY DEF Step, Fail, Lookup, Register, Parse, Publish, Append, Sentinel, Classify, Armor,
         SetQuarantined, Mark, ReadPrior, ReadCurrent, WriteLink
<1>c. /\ j \in Job /\ j # None /\ j.doc \in Docs
      /\ documents[j.doc] \in Document \cup {None}
  BY <1>a, <1>b, BusyHasJob, NoneAssumption DEF Job, TypeOK
<1>d. job = [job EXCEPT ![w] = j]
  BY <1>a
<1>1. CASE Lookup(w)
  <2>1. CASE Return(w)
    BY <1>1, <2>1, <1>a, ReturnTypes DEF Lookup
  <2>2. CASE ~Return(w)
    <3> DEFINE found == documents[j.doc]
               next == IF found = None THEN 1 ELSE found.version + 1
               n == [j EXCEPT !.seen = found, !.version = next]
    <3>1. /\ job' = [job EXCEPT ![w] = n] /\ pc' = [pc EXCEPT ![w] = "register"]
          /\ UNCHANGED <<stores, started, failures>> /\ pc[w] = "lookup"
      BY <1>1, <2>2 DEF Lookup, Goto
    <3>2. next \in Version
      BY <1>c DEF Version, Document
    <3>3. j.content \in Contents /\ found \in Document \cup {None}
      BY <1>a, <1>c, <3>1 DEF Ready, Ingesting
    <3> HIDE DEF found, next
    <3>4. n \in Job /\ n.version \in Version /\ n.content \in Contents
      BY <1>c, <3>2, <3>3 DEF Job, Version
    <3> HIDE DEF n
    <3>5. Ready(w)'
      BY <1>a, <3>1, <3>4 DEF Ready, Registered, Linking
    <3>6. "register" \in Steps /\ n \in Job \cup {None} /\ n # None
      BY <3>4, NoneAssumption
    <3> QED BY <3>1, <3>5, <3>6, <1>a, StoresTypes, StepTypes
  <2> QED BY <2>1, <2>2
<1>2. CASE Register(w)
  <2>1. HeaderOf(w) \in Header /\ j.content \in Contents /\ j.version \in Version
    BY <1>2, HeaderTypes DEF Register, Ingesting
  <2> DEFINE record == [content |-> j.content, version |-> j.version,
                        secure |-> SecureNow(j.doc),
                        supersedes |-> IF j.seen = None THEN None ELSE j.doc]
  <2>2. record \in Document
    BY <2>1, <1>c DEF Document, SecureNow
  <2>3. WriteDocument(j.doc, j.seen, record)
    BY <1>2 DEF Register
  <2> HIDE DEF record
  <2>4. /\ documents' \in [Docs -> Document \cup {None}]
        /\ \A e \in Docs : documents[e] # None => documents'[e] # None
        /\ documents'[j.doc] # None
        /\ raced' \subseteq Docs
    BY <2>2, <2>3, <1>a, <1>c, WriteTypes
  <2>5. /\ pc' = [pc EXCEPT ![w] = "parse"] /\ job' = [job EXCEPT ![w] = j]
        /\ UNCHANGED <<quarantined, published, log, started, failures>>
        /\ registered' \subseteq Header
    BY <1>2, <1>a, <1>d, <2>1 DEF Register, Goto, TypeOK
  <2>6. Ready(w)'
    BY <1>a, <2>1, <2>4, <2>5 DEF Ready, Linking
  <2>7. "parse" \in Steps /\ j \in Job \cup {None}
    BY <1>c
  <2>8. /\ quarantined \in [Docs -> Quarantine \cup {None}]
        /\ published \subseteq Event /\ log \subseteq published
    BY <1>a DEF TypeOK
  <2> QED BY <1>a, <1>c, <2>4, <2>5, <2>6, <2>7, <2>8, StepTypes
<1>3. CASE Parse(w)
  <2>1. CASE Return(w)
    BY <1>3, <2>1, <1>a, ReturnTypes DEF Parse
  <2>2. CASE Emit(w, "parsed")
    <3>1. pc[w] \in Registered /\ UNCHANGED <<stores, started, failures>>
      BY <1>3 DEF Parse, Registered, Ingesting
    <3>2. UNCHANGED <<documents, quarantined, published, log, registered, raced>>
      BY <3>1 DEF stores
    <3>3. "parsed" \in EventTypes
      OBVIOUS
    <3> QED BY <2>2, <3>1, <3>2, <3>3, StoresTypes, EmitTypes
  <2> QED BY <1>3, <2>1, <2>2 DEF Parse
<1>4. CASE Publish(w)
  <2> DEFINE e == EventOf(w)
  <2>1. /\ HeaderOf(w) \in Header /\ j.event \in EventTypes
        /\ j.content \in Contents /\ j.version \in Version
        /\ documents[j.doc] # None
    BY <1>4, <1>a, HeaderTypes DEF Publish, Ingesting, Registered, Ready
  <2>2. e \in Event
    BY <2>1, <1>c DEF Event, EventOf, Job
  <2>3. /\ pc' = [pc EXCEPT ![w] = "append"] /\ job' = [job EXCEPT ![w] = j]
        /\ published' = published \cup {e}
        /\ UNCHANGED <<documents, quarantined, log, registered, raced, started, failures>>
    BY <1>4, <1>d DEF Publish, Goto
  <2>4. /\ pc'[w] = "append" /\ job'[w] = j /\ EventOf(w)' = EventOf(w)
    BY <2>3, <1>a DEF EventOf, HeaderOf
  <2> HIDE DEF e
  <2>5. EventOf(w)' \in published'
    BY <2>3, <2>4 DEF e
  <2>6. Ready(w)'
    BY <2>1, <2>3, <2>4, <2>5 DEF Ready, Linking
  <2>7. /\ published' \subseteq Event /\ log' \subseteq published' /\ published \subseteq published'
        /\ documents' \in [Docs -> Document \cup {None}]
        /\ quarantined' \in [Docs -> Quarantine \cup {None}]
        /\ registered' \subseteq Header /\ raced' \subseteq Docs
    BY <2>2, <2>3, <1>a DEF TypeOK
  <2>8. "append" \in Steps /\ j \in Job \cup {None}
    BY <1>c
  <2> QED BY <1>a, <1>c, <2>3, <2>6, <2>7, <2>8, StepTypes
<1>5. CASE Append(w)
  <2>1. EventOf(w) \in published
    BY <1>5, <1>a DEF Append, Ready
  <2>2. PICK p \in {"sentinel", "idle"}, n \in {j, None} :
          /\ pc' = [pc EXCEPT ![w] = p] /\ job' = [job EXCEPT ![w] = n]
          /\ (p = "idle") = (n = None)
    BY <1>5, <1>c, <1>d DEF Append, Goto, Return
  <2>3. Ready(w)'
    BY <1>5, <1>a, <1>c, <2>2 DEF Append, Ready, Registered, Ingesting, Linking
  <2>4. /\ published' \subseteq Event /\ log' \subseteq published' /\ published \subseteq published'
        /\ documents' \in [Docs -> Document \cup {None}] /\ documents' = documents
        /\ quarantined' \in [Docs -> Quarantine \cup {None}]
        /\ registered' \subseteq Header /\ raced' \subseteq Docs
        /\ started' = started /\ failures' = failures
    BY <1>5, <1>a, <2>1 DEF TypeOK, Append
  <2>5. p \in Steps /\ n \in Job \cup {None}
    BY <1>c, <2>2
  <2> QED BY <1>a, <2>2, <2>3, <2>4, <2>5, StepTypes
<1>6. CASE Sentinel(w)
  <2>1. PICK p \in {"quarantine", "classify"} : pc' = [pc EXCEPT ![w] = p]
    BY <1>6 DEF Sentinel, Goto
  <2>2. pc[w] = "sentinel" /\ UNCHANGED <<stores, job, started, failures>>
    BY <1>6 DEF Sentinel
  <2> QED BY <2>1, <2>2, GotoTypes DEF Registered, Ingesting
<1>7. CASE Armor(w)
  <2>1. pc[w] = "armor" /\ UNCHANGED <<stores, started, failures>>
    BY <1>7 DEF Armor
  <2>2. \/ /\ pc' = [pc EXCEPT ![w] = "quarantine"]
           /\ job' = [job EXCEPT ![w] = [j EXCEPT !.route = None]]
        \/ Emit(w, "routed")
    BY <1>7 DEF Armor, Goto
  <2>3. CASE /\ pc' = [pc EXCEPT ![w] = "quarantine"]
             /\ job' = [job EXCEPT ![w] = [j EXCEPT !.route = None]]
    BY <2>1, <2>3, RouteTypes DEF Registered, Ingesting
  <2>4. CASE Emit(w, "routed")
    <3>1. pc[w] \in Registered
      BY <2>1 DEF Registered, Ingesting
    <3>2. UNCHANGED <<documents, quarantined, published, log, registered, raced>>
      BY <2>1 DEF stores
    <3>3. "routed" \in EventTypes
      OBVIOUS
    <3> QED BY <2>1, <2>4, <3>1, <3>2, <3>3, StoresTypes, EmitTypes
  <2> QED BY <2>2, <2>3, <2>4
<1>7a. CASE Classify(w)
  <2>1. /\ pc[w] = "classify" /\ pc' = [pc EXCEPT ![w] = "armor"]
        /\ UNCHANGED <<stores, started, failures>>
    BY <1>7a DEF Classify, Goto
  <2>2. PICK answer \in Workstreams \cup {None} :
          job' = [job EXCEPT ![w] = [j EXCEPT !.route = Route(j.content, answer)]]
    BY <1>7a DEF Classify
  <2>3. Route(j.content, answer) \in Workstreams \cup {None}
    <3>1. j.content \in Contents
      BY <1>a, <2>1 DEF Ready, Ingesting
    <3> QED BY <3>1, ScreeningAssumption DEF Route, ModelRoute, KeywordRoute, Topic, Trait
  <2> QED BY <2>1, <2>2, <2>3, RouteTypes DEF Registered, Ingesting
<1>8. CASE SetQuarantined(w)
  <2> DEFINE q == [content |-> j.content, version |-> j.version]
  <2>1. /\ j.content \in Contents /\ j.version \in Version /\ documents[j.doc] # None
    BY <1>8, <1>a DEF SetQuarantined, Ready, Ingesting, Registered
  <2>2. q \in Quarantine
    BY <2>1 DEF Quarantine
  <2>3. /\ quarantined' = [quarantined EXCEPT ![j.doc] = q] /\ pc[w] = "quarantine"
        /\ pc' = [pc EXCEPT ![w] = "mark"] /\ job' = [job EXCEPT ![w] = j] /\ job' = job
        /\ UNCHANGED <<documents, published, log, registered, raced, started, failures>>
    BY <1>8, <1>d DEF SetQuarantined, Goto
  <2> HIDE DEF q
  <2>4. Ready(w)'
    BY <2>1, <2>3, <1>a DEF Ready, Linking
  <2>5. /\ quarantined' \in [Docs -> Quarantine \cup {None}]
        /\ published' \subseteq Event /\ log' \subseteq published' /\ published \subseteq published'
        /\ documents' \in [Docs -> Document \cup {None}]
        /\ registered' \subseteq Header /\ raced' \subseteq Docs
    BY <2>2, <2>3, <1>a DEF TypeOK
  <2>6. "mark" \in Steps /\ j \in Job \cup {None}
    BY <1>c
  <2> QED BY <1>a, <1>c, <2>3, <2>4, <2>5, <2>6, StepTypes
<1>9. CASE Mark(w)
  <2> DEFINE r == [documents[j.doc] EXCEPT !.secure = FALSE]
  <2>1. /\ documents[j.doc] # None
    BY <1>9, <1>a DEF Mark, Ready, Ingesting, Registered
  <2>2. r \in Document
    BY <2>1, <1>c DEF Document
  <2>3. /\ documents' = [documents EXCEPT ![j.doc] = r]
        /\ pc[w] = "mark" /\ Emit(w, "security")
        /\ UNCHANGED <<quarantined, published, log, registered, raced, started, failures>>
    BY <1>9 DEF Mark
  <2> HIDE DEF r
  <2>4. documents' \in [Docs -> Document \cup {None}]
    BY <2>2, <2>3, <1>a, <1>c DEF TypeOK
  <2>5. \A e \in Docs : documents[e] # None => documents'[e] # None
    BY <2>2, <2>3, <1>a, <1>c, NoneAssumption DEF TypeOK
  <2> QED BY <2>3, <2>4, <2>5, EmitTypes, "security" \in EventTypes DEF Registered, Ingesting
<1>10. CASE ReadPrior(w)
  <2>1. CASE Return(w)
    BY <1>10, <2>1, <1>a, ReturnTypes DEF ReadPrior
  <2>2. CASE ~Return(w)
    <3> DEFINE prior == documents[j.prior]
               n == [j EXCEPT !.version = prior.version + 1]
    <3>1. /\ job' = [job EXCEPT ![w] = n] /\ pc' = [pc EXCEPT ![w] = "current"]
          /\ UNCHANGED <<stores, started, failures>> /\ pc[w] = "prior" /\ prior # None
      BY <1>10, <2>2 DEF ReadPrior, Goto
    <3>2. j.prior \in Docs /\ prior \in Document
      BY <1>a, <3>1 DEF Ready, Linking, TypeOK
    <3>3. n \in Job /\ n.prior \in Docs
      BY <1>c, <3>2 DEF Job, Document, Version
    <3> HIDE DEF n, prior
    <3>4. Ready(w)'
      BY <1>a, <3>1, <3>3 DEF Ready, Registered, Ingesting
    <3>5. "current" \in Steps /\ n \in Job \cup {None} /\ n # None
      BY <3>3, NoneAssumption
    <3> QED BY <3>1, <3>4, <3>5, <1>a, StoresTypes, StepTypes
  <2> QED BY <2>1, <2>2
<1>11. CASE ReadCurrent(w)
  <2>1. CASE Return(w)
    BY <1>11, <2>1, <1>a, ReturnTypes DEF ReadCurrent
  <2>2. CASE ~Return(w)
    <3> DEFINE current == documents[j.doc]
               n == [j EXCEPT !.seen = current]
    <3>1. /\ job' = [job EXCEPT ![w] = n] /\ pc' = [pc EXCEPT ![w] = "link"]
          /\ UNCHANGED <<stores, started, failures>> /\ pc[w] = "current" /\ current # None
      BY <1>11, <2>2 DEF ReadCurrent, Goto
    <3>2. j.prior \in Docs /\ current \in Document
      BY <1>a, <1>c, <3>1 DEF Ready, Linking
    <3>3. n \in Job /\ n.prior \in Docs /\ n.seen \in Document
      BY <1>c, <3>2 DEF Job
    <3> HIDE DEF n, current
    <3>4. Ready(w)'
      BY <1>a, <3>1, <3>3 DEF Ready, Registered, Ingesting
    <3>5. "link" \in Steps /\ n \in Job \cup {None} /\ n # None
      BY <3>3, NoneAssumption
    <3> QED BY <3>1, <3>4, <3>5, <1>a, StoresTypes, StepTypes
  <2> QED BY <2>1, <2>2
<1>12. CASE WriteLink(w)
  <2> DEFINE record == [content |-> j.seen.content,
                        version |-> Larger(j.seen.version, j.version),
                        supersedes |-> j.prior, secure |-> SecureNow(j.doc)]
  <2>1. j.seen \in Document /\ j.prior \in Docs
    BY <1>12, <1>a DEF WriteLink, Ready, Linking
  <2>2. record \in Document
    <3>1. SecureNow(j.doc) \in BOOLEAN
      BY <1>c DEF SecureNow, Document
    <3>2. Larger(j.seen.version, j.version) \in Version
      BY <2>1, <1>c DEF Larger, Document, Version, Job
    <3> QED BY <2>1, <3>1, <3>2 DEF Document
  <2>3. WriteDocument(j.doc, j.seen, record) /\ Return(w)
        /\ UNCHANGED <<quarantined, published, log, registered, started, failures>>
    BY <1>12 DEF WriteLink
  <2> HIDE DEF record
  <2>4. /\ documents' \in [Docs -> Document \cup {None}]
        /\ \A e \in Docs : documents[e] # None => documents'[e] # None
        /\ raced' \subseteq Docs
    BY <2>2, <2>3, <1>a, <1>c, WriteTypes
  <2>5. /\ pc' = [pc EXCEPT ![w] = "idle"] /\ job' = [job EXCEPT ![w] = None]
    BY <2>3 DEF Return, Goto
  <2>6. Ready(w)'
    BY <1>a, <2>5 DEF Ready, Ingesting, Registered, Linking
  <2>7. /\ quarantined' \in [Docs -> Quarantine \cup {None}]
        /\ published' \subseteq Event /\ log' \subseteq published' /\ registered' \subseteq Header
        /\ published \subseteq published'
    BY <1>a, <2>3 DEF TypeOK
  <2> QED BY <1>a, <2>3, <2>4, <2>5, <2>6, <2>7, StepTypes
<1>13. CASE Fail(w)
  <2>1. failures' \in 0..MaxFailures
    BY <1>13, <1>a, IngestionAssumption DEF Fail
  <2> QED BY <1>13, <2>1, ReturnTypes DEF Fail
<1> QED BY <1>1, <1>2, <1>3, <1>4, <1>5, <1>6, <1>7, <1>7a, <1>8, <1>9, <1>10, <1>11, <1>12, <1>13
        DEF Step

(* Every step keeps every worker ready.                                    *)
LEMMA NextTypes == TypeInv /\ [Next]_vars => TypeInv'
<1> SUFFICES ASSUME TypeInv, [Next]_vars PROVE TypeInv'
  OBVIOUS
<1>1. ASSUME NEW w \in Workers, NEW d \in Docs, NEW c \in Contents, Ingest(w, d, c)
      PROVE  TypeInv'
  BY <1>1, StartTypes DEF Ingest
<1>2. ASSUME NEW w \in Workers, NEW d \in Docs, NEW p \in Docs, LinkSupersedes(w, d, p)
      PROVE  TypeInv'
  BY <1>2, StartTypes DEF LinkSupersedes
<1>3. ASSUME NEW w \in Workers, Step(w) \/ Fail(w) PROVE TypeInv'
  BY <1>3, JobTypes
<1>4. CASE UNCHANGED vars
  BY <1>4 DEF vars, TypeInv, TypeOK, Ready, EventOf, HeaderOf
<1> QED BY <1>1, <1>2, <1>3, <1>4 DEF Next

(* The types, and what a worker knows by the call it has come to.          *)
THEOREM TypesAlways == Spec => []TypeInv
  BY InitTypes, NextTypes, PTL DEF Spec

(* Every variable stays in its type, and only a busy worker holds a job,   *)
(* with any number of workers, documents and failures.                     *)
THEOREM TypeCorrect == Spec => []TypeOK
<1>1. TypeInv => TypeOK
  BY DEF TypeInv
<1> QED BY <1>1, TypesAlways, PTL

-----------------------------------------------------------------------------
(* WHAT IS ROUTED IS CLEAN                                                 *)

Act(w) ==
  \/ \E d \in Docs, c \in Contents : Ingest(w, d, c)
  \/ \E d, p \in Docs : LinkSupersedes(w, d, p)
  \/ Step(w)
  \/ Fail(w)

(* A worker's step leaves the others where they are.                       *)
LEMMA OthersStay ==
  ASSUME TypeInv, NEW w \in Workers, Act(w), NEW v \in Workers, v # w
  PROVE  pc'[v] = pc[v] /\ job'[v] = job[v]
<1>1. pc \in [Workers -> Steps] /\ job \in [Workers -> Job \cup {None}]
  BY DEF TypeInv, TypeOK
<1> QED
  BY <1>1 DEF Act, Ingest, LinkSupersedes, Start, Step, Fail, Lookup, Register, Parse, Publish,
     Append, Sentinel, Classify, Armor, SetQuarantined, Mark, ReadPrior, ReadCurrent, WriteLink,
     Goto, Return, Emit

(* What the layers have established of the content in hand, by the call    *)
(* the job has come to.                                                    *)
Screened(w) ==
  /\ pc[w] \in {"sentinel", "classify", "armor"} => HasText(job[w].content)
  /\ pc[w] \in {"classify", "armor"} => ~Poisoned(job[w].content)
  /\ pc[w] = "publish" /\ job[w].event = "routed" =>
       ~Condemned(job[w].content) /\ HasText(job[w].content)

ScreenInv == RoutedClean /\ \A w \in Workers : Screened(w)

(* Nothing is routed at first.                                             *)
LEMMA InitScreened == Init => ScreenInv
  BY DEF Init, ScreenInv, RoutedClean, Screened

(* One worker's step keeps its own job screened.                           *)
LEMMA SelfScreened ==
  ASSUME TypeInv, ScreenInv, NEW w \in Workers, Act(w)
  PROVE  Screened(w)'
<1>1. /\ pc \in [Workers -> Steps] /\ job \in [Workers -> Job \cup {None}]
      /\ Screened(w)
  BY DEF TypeInv, TypeOK, ScreenInv
<1>2. CASE \/ \E d \in Docs, c \in Contents : Ingest(w, d, c)
           \/ \E d, p \in Docs : LinkSupersedes(w, d, p)
  BY <1>1, <1>2 DEF Ingest, LinkSupersedes, Start, Goto, Screened
<1>3. CASE Return(w) \/ \E step \in {"register", "parse", "append", "mark"} : Goto(w, step)
  BY <1>1, <1>3 DEF Return, Goto, Screened
<1>3a. CASE Parse(w)
  <2>1. CASE Emit(w, "parsed")
    <3>1. job[w] \in Job
      BY <1>3a, BusyHasJob DEF TypeInv, Parse
    <3> QED BY <1>1, <2>1, <3>1 DEF Emit, Goto, Screened, Job
  <2> QED BY <1>3, <1>3a, <2>1 DEF Parse
<1>4. CASE Append(w)
  <2>1. CASE Return(w)
    BY <1>1, <2>1 DEF Return, Goto, Screened
  <2>2. CASE HasText(job[w].content) /\ Goto(w, "sentinel") /\ UNCHANGED job
    BY <1>1, <2>2 DEF Goto, Screened
  <2> QED BY <1>4, <2>1, <2>2 DEF Append
<1>5. CASE Sentinel(w)
  BY <1>1, <1>5 DEF Sentinel, Goto, Screened, Tripwire, Poisoned
<1>6. CASE Classify(w)
  <2>1. job[w] \in Job
    BY <1>6, BusyHasJob DEF TypeInv, Classify
  <2> QED BY <1>1, <1>6, <2>1 DEF Classify, Goto, Screened, Job
<1>7. CASE Armor(w)
  <2>1. job[w] \in Job /\ pc[w] = "armor"
    BY <1>7, BusyHasJob DEF TypeInv, Armor
  <2>2. PICK managed \in BOOLEAN, response \in ArmorResponse \cup {None} :
          IF RunArmor(job[w].content, managed, response)
          THEN Goto(w, "quarantine") ELSE Emit(w, "routed")
    BY <1>7 DEF Armor, Verdicts
  <2>3. CASE Goto(w, "quarantine")
    BY <1>1, <2>3 DEF Screened, Goto
  <2>4. CASE ~Ruled(job[w].content) /\ Emit(w, "routed")
    BY <1>1, <2>1, <2>4 DEF Emit, Goto, Screened, Condemned, Job
  <2> QED BY <2>2, <2>3, <2>4 DEF RunArmor
<1>8. CASE Mark(w)
  BY <1>1, <1>8 DEF Mark, Goto, Emit, Screened
<1>9. CASE ReadPrior(w) \/ ReadCurrent(w) \/ WriteLink(w)
  BY <1>1, <1>9 DEF ReadPrior, ReadCurrent, WriteLink, Goto, Return, Screened
<1> QED
  BY <1>2, <1>3, <1>3a, <1>4, <1>5, <1>6, <1>7, <1>8, <1>9
  DEF Act, Step, Lookup, Register, Publish, SetQuarantined, Fail

(* Who routes a text has passed every screen of it.                        *)
LEMMA NextScreened == TypeInv /\ ScreenInv /\ [Next]_vars => ScreenInv'
<1> SUFFICES ASSUME TypeInv, ScreenInv, [Next]_vars PROVE ScreenInv'
  OBVIOUS
<1>1. ASSUME NEW w \in Workers, Act(w) PROVE ScreenInv'
  <2>1. \A v \in Workers : Screened(v)'
    <3>1. Screened(w)'
      BY <1>1, SelfScreened
    <3>2. ASSUME NEW v \in Workers, v # w PROVE Screened(v)'
      BY <1>1, <3>2, OthersStay DEF ScreenInv, Screened
    <3> QED BY <3>1, <3>2
  <2>2. \A e \in published' : e.type = "routed" =>
           ~Condemned(e.header.content) /\ HasText(e.header.content)
    <3>1. CASE Publish(w)
      BY <3>1 DEF Publish, ScreenInv, Screened, RoutedClean, EventOf, HeaderOf
    <3>2. CASE ~Publish(w)
      <4>1. published' = published
        BY <1>1, <3>2 DEF Act, Ingest, LinkSupersedes, Start, Step, Fail, Lookup, Register, Parse,
           Append, Sentinel, Classify, Armor, SetQuarantined, Mark, ReadPrior, ReadCurrent,
           WriteLink, stores
      <4> QED BY <4>1 DEF ScreenInv, RoutedClean
    <3> QED BY <3>1, <3>2
  <2> QED BY <2>1, <2>2 DEF ScreenInv, RoutedClean, Screened
<1>2. CASE UNCHANGED vars
  BY <1>2 DEF vars, ScreenInv, RoutedClean, Screened
<1> QED BY <1>1, <1>2 DEF Next, Act

(* No condemned content is ever routed, and no poisoned one is shown to    *)
(* the classifier or to armor: for any contents, any number of workers,    *)
(* any answers of the models, with the live clients or without them.       *)
THEOREM RoutedIsClean == Spec => []RoutedClean
<1>1. Init => ScreenInv
  BY InitScreened
<1>2. TypeInv /\ ScreenInv /\ [Next]_vars => ScreenInv'
  BY NextScreened
<1>3. ScreenInv => RoutedClean
  BY DEF ScreenInv
<1> QED BY <1>1, <1>2, <1>3, TypesAlways, PTL DEF Spec

-----------------------------------------------------------------------------
(* THE MARK OUTLIVES EVERYTHING                                            *)

(* What a worker has written on its way to the announcement.               *)
Sealed(w) ==
  /\ pc[w] = "mark" => quarantined[job[w].doc] # None
  /\ pc[w] = "publish" /\ job[w].event = "security" => ~SecureNow(job[w].doc)

SealInv == QuarantineHolds /\ \A w \in Workers : Sealed(w)

(* Nothing is announced at first.                                          *)
LEMMA InitSealed == Init => SealInv
  BY DEF Init, SealInv, QuarantineHolds, Sealed, SecureNow

(* No step clears a mark or empties the quarantine: every write of a       *)
(* lineage document carries the security status it finds.                  *)
LEMMA MarksStay ==
  ASSUME TypeInv, NEW w \in Workers, Act(w), NEW d \in Docs
  PROVE  /\ ~SecureNow(d) => ~SecureNow(d)'
         /\ quarantined[d] # None => quarantined'[d] # None
         /\ ~SecureNow(d)' /\ SecureNow(d) => pc[w] = "mark" /\ d = job[w].doc
<1>1. /\ documents \in [Docs -> Document \cup {None}]
      /\ quarantined \in [Docs -> Quarantine \cup {None}]
      /\ TypeOK /\ Ready(w)
  BY DEF TypeInv, TypeOK
<1>2. CASE Register(w) \/ WriteLink(w)
  <2>1. /\ job[w] \in Job /\ job[w].doc \in Docs
    BY <1>1, <1>2, BusyHasJob DEF Register, WriteLink, Job
  <2>2. PICK record :
          /\ documents' = [documents EXCEPT ![job[w].doc] = record]
          /\ record.secure = SecureNow(job[w].doc) /\ record \in Document
    <3>1. CASE Register(w)
      <4>1. job[w].content \in Contents /\ job[w].version \in Version
        BY <1>1, <3>1 DEF Register, Ready, Ingesting
      <4>2. SecureNow(job[w].doc) \in BOOLEAN
        BY <1>1, <2>1 DEF SecureNow, Document
      <4> DEFINE r == [content |-> job[w].content, version |-> job[w].version,
                       secure |-> SecureNow(job[w].doc),
                       supersedes |-> IF job[w].seen = None THEN None ELSE job[w].doc]
      <4>3. r \in Document /\ r.secure = SecureNow(job[w].doc)
        BY <2>1, <4>1, <4>2 DEF Document
      <4>4. documents' = [documents EXCEPT ![job[w].doc] = r]
        BY <3>1 DEF Register, WriteDocument
      <4> HIDE DEF r
      <4> QED BY <4>3, <4>4
    <3>2. CASE WriteLink(w)
      <4>1. job[w].seen \in Document /\ job[w].prior \in Docs
        BY <1>1, <3>2 DEF WriteLink, Ready, Linking
      <4>2. SecureNow(job[w].doc) \in BOOLEAN
        BY <1>1, <2>1 DEF SecureNow, Document
      <4>3. Larger(job[w].seen.version, job[w].version) \in Version
        BY <2>1, <4>1 DEF Larger, Document, Version, Job
      <4> DEFINE r == [content |-> job[w].seen.content,
                       version |-> Larger(job[w].seen.version, job[w].version),
                       supersedes |-> job[w].prior, secure |-> SecureNow(job[w].doc)]
      <4>4. r \in Document /\ r.secure = SecureNow(job[w].doc)
        BY <2>1, <4>1, <4>2, <4>3 DEF Document
      <4>5. documents' = [documents EXCEPT ![job[w].doc] = r]
        BY <3>2 DEF WriteLink, WriteDocument
      <4> HIDE DEF r
      <4> QED BY <4>4, <4>5
    <3> QED BY <1>2, <3>1, <3>2
  <2>3. UNCHANGED quarantined
    BY <1>2 DEF Register, WriteLink
  <2> QED BY <1>1, <2>1, <2>2, <2>3, NoneAssumption DEF SecureNow
<1>3. CASE SetQuarantined(w)
  <2>1. /\ job[w] \in Job /\ job[w].doc \in Docs /\ job[w].content \in Contents
        /\ job[w].version \in Version
    BY <1>3, HeaderTypes DEF SetQuarantined, Ingesting
  <2>2. [content |-> job[w].content, version |-> job[w].version] \in Quarantine
    BY <2>1 DEF Quarantine
  <2> QED BY <1>1, <1>3, <2>1, <2>2, NoneAssumption DEF SetQuarantined, SecureNow
<1>4. CASE Mark(w)
  <2>1. documents[job[w].doc] \in Document /\ job[w].doc \in Docs
    <3>1. job[w].doc \in Docs
      BY <1>4, HeaderTypes DEF Mark, Ingesting
    <3>2. documents[job[w].doc] # None
      BY <1>1, <1>4 DEF Mark, Ready, Registered, Ingesting
    <3> QED BY <1>1, <3>1, <3>2
  <2> DEFINE r == [documents[job[w].doc] EXCEPT !.secure = FALSE]
  <2>2. r \in Document /\ r.secure = FALSE
    BY <2>1 DEF Document
  <2>3. /\ documents' = [documents EXCEPT ![job[w].doc] = r]
        /\ UNCHANGED quarantined /\ pc[w] = "mark"
    BY <1>4 DEF Mark
  <2> HIDE DEF r
  <2> QED BY <1>1, <2>1, <2>2, <2>3, NoneAssumption DEF SecureNow
<1>5. CASE UNCHANGED <<documents, quarantined>>
  BY <1>5 DEF SecureNow
<1> QED
  BY <1>2, <1>3, <1>4, <1>5
  DEF Act, Ingest, LinkSupersedes, Start, Step, Fail, Lookup, Parse, Publish, Append, Sentinel,
      Classify, Armor, ReadPrior, ReadCurrent, stores

(* One worker's step keeps what it needs for its own announcement.         *)
LEMMA SelfSealed ==
  ASSUME TypeInv, SealInv, NEW w \in Workers, Act(w)
  PROVE  Sealed(w)'
<1>1. /\ pc \in [Workers -> Steps] /\ job \in [Workers -> Job \cup {None}]
      /\ documents \in [Docs -> Document \cup {None}]
      /\ quarantined \in [Docs -> Quarantine \cup {None}]
      /\ Sealed(w)
  BY DEF TypeInv, TypeOK, SealInv
<1>2. CASE \/ \E d \in Docs, c \in Contents : Ingest(w, d, c)
           \/ \E d, p \in Docs : LinkSupersedes(w, d, p)
  BY <1>1, <1>2 DEF Ingest, LinkSupersedes, Start, Goto, Sealed
<1>3. CASE Return(w) \/ \E step \in Steps \ {"publish", "mark"} : Goto(w, step)
  BY <1>1, <1>3 DEF Return, Goto, Sealed
<1>4. CASE Parse(w) \/ Armor(w)
  <2>1. job[w] \in Job
    BY <1>4, BusyHasJob DEF TypeInv, Parse, Armor
  <2>2. CASE \E type \in {"parsed", "routed"} : Emit(w, type)
    BY <1>1, <2>1, <2>2 DEF Emit, Goto, Sealed, Job
  <2> QED BY <1>3, <1>4, <2>2 DEF Parse, Armor
<1>5. CASE SetQuarantined(w)
  <2>1. /\ job[w] \in Job /\ job[w].doc \in Docs /\ job[w].content \in Contents
        /\ job[w].version \in Version
    BY <1>5, HeaderTypes DEF SetQuarantined, Ingesting
  <2>2. [content |-> job[w].content, version |-> job[w].version] \in Quarantine
    BY <2>1 DEF Quarantine
  <2> QED BY <1>1, <1>5, <2>1, <2>2, NoneAssumption DEF SetQuarantined, Goto, Sealed
<1>6. CASE Mark(w)
  <2> DEFINE d == job[w].doc
             n == [job[w] EXCEPT !.event = "security"]
             r == [documents[d] EXCEPT !.secure = FALSE]
  <2>1. job[w] \in Job /\ d \in Docs
    BY <1>6, HeaderTypes DEF Mark, Ingesting
  <2>2. documents[d] # None /\ documents[d] \in Document
    BY <1>1, <1>6, <2>1 DEF Mark, TypeInv, Ready, Registered, Ingesting
  <2>3. /\ documents' = [documents EXCEPT ![d] = r]
        /\ pc' = [pc EXCEPT ![w] = "publish"] /\ job' = [job EXCEPT ![w] = n]
    BY <1>6 DEF Mark, Emit, Goto
  <2>4. n.doc = d
    BY <2>1 DEF Job
  <2>5. r \in Document /\ r.secure = FALSE
    BY <2>2 DEF Document
  <2> HIDE DEF n, r
  <2>6. documents'[d] # None /\ documents'[d].secure = FALSE
    BY <1>1, <2>1, <2>2, <2>3, <2>5, NoneAssumption
  <2>7. job'[w].doc = d /\ pc'[w] = "publish"
    BY <1>1, <2>3, <2>4
  <2> QED BY <2>6, <2>7 DEF Sealed, SecureNow
<1> QED
  BY <1>2, <1>3, <1>4, <1>5, <1>6
  DEF Act, Step, Lookup, Register, Publish, Append, Sentinel, Classify, ReadPrior, ReadCurrent,
      WriteLink, Fail

(* An announcement comes after the writes it speaks of, and no step undoes *)
(* those.                                                                  *)
LEMMA NextSealed == TypeInv /\ SealInv /\ [Next]_vars => SealInv'
<1> SUFFICES ASSUME TypeInv, SealInv, [Next]_vars PROVE SealInv'
  OBVIOUS
<1>1. ASSUME NEW w \in Workers, Act(w) PROVE SealInv'
  <2>1. ASSUME NEW v \in Workers PROVE Sealed(v)'
    <3>1. CASE v = w
      BY <1>1, <3>1, SelfSealed
    <3>2. CASE v # w
      <4>1. pc'[v] = pc[v] /\ job'[v] = job[v] /\ Sealed(v)
        BY <1>1, <3>2, OthersStay DEF SealInv
      <4>2. CASE pc[v] = "idle"
        BY <4>1, <4>2 DEF Sealed
      <4>3. CASE pc[v] # "idle"
        <5>1. job[v].doc \in Docs
          BY <4>3, BusyHasJob DEF TypeInv, Job
        <5> QED BY <1>1, <4>1, <5>1, MarksStay DEF Sealed, SecureNow
      <4> QED BY <4>2, <4>3
    <3> QED BY <3>1, <3>2
  <2>2. ASSUME NEW d \in Docs, ~SecureNow(d)' PROVE quarantined'[d] # None
    <3>1. quarantined[d] # None
      BY <1>1, <2>2, MarksStay DEF SealInv, QuarantineHolds, Sealed
    <3> QED BY <1>1, <3>1, MarksStay
  <2>3. ASSUME NEW e \in published', e.type = "security" PROVE ~SecureNow(e.header.doc)'
    <3>1. published' \subseteq Event
      BY <1>1, NextTypes DEF Next, Act, TypeInv, TypeOK
    <3>2. e.header.doc \in Docs
      BY <3>1 DEF Event, Header
    <3>3. ~SecureNow(e.header.doc)
      <4>1. CASE Publish(w)
        BY <2>3, <4>1 DEF Publish, SealInv, QuarantineHolds, Sealed, EventOf, HeaderOf
      <4>2. CASE ~Publish(w)
        <5>1. published' = published
          BY <1>1, <4>2 DEF Act, Ingest, LinkSupersedes, Start, Step, Fail, Lookup, Register,
             Parse, Append, Sentinel, Classify, Armor, SetQuarantined, Mark, ReadPrior,
             ReadCurrent, WriteLink, stores
        <5> QED BY <2>3, <5>1 DEF SealInv, QuarantineHolds
      <4> QED BY <4>1, <4>2
    <3> QED BY <1>1, <3>2, <3>3, MarksStay
  <2> QED BY <2>1, <2>2, <2>3 DEF SealInv, QuarantineHolds
<1>2. CASE UNCHANGED vars
  BY <1>2 DEF vars, SealInv, QuarantineHolds, Sealed, SecureNow
<1> QED BY <1>1, <1>2 DEF Next, Act

(* A blocked document is in quarantine and marked before anybody hears of  *)
(* it, and no revision, link or failure ever takes the mark back.          *)
THEOREM QuarantineIsKept == Spec => []QuarantineHolds
<1>1. Init => SealInv
  BY InitSealed
<1>2. TypeInv /\ SealInv /\ [Next]_vars => SealInv'
  BY NextSealed
<1>3. SealInv => QuarantineHolds
  BY DEF SealInv
<1> QED BY <1>1, <1>2, <1>3, TypesAlways, PTL DEF Spec

-----------------------------------------------------------------------------
(* A VERSION NAMES ONE REVISION                                            *)

(* The version to be registered is the one after what was read.            *)
Numbered(w) ==
  pc[w] = "register" =>
    \/ job[w].seen = None /\ job[w].version = 1
    \/ job[w].seen \in Document /\ job[w].version = job[w].seen.version + 1

(* What is registered of a document never exceeds what it has come to,     *)
(* unless writes have raced.                                               *)
Below(h) ==
  /\ documents[h.doc] # None
  /\ h.doc \notin raced => h.version <= documents[h.doc].version

OrderInv ==
  /\ VersionsDistinct
  /\ \A h \in registered : Below(h)
  /\ \A w \in Workers : Numbered(w)

(* No version is registered at first.                                      *)
LEMMA InitOrdered == Init => OrderInv
  BY DEF Init, OrderInv, VersionsDistinct, Numbered

(* The version a worker is about to register is one more than what it read.*)
LEMMA SelfNumbered ==
  ASSUME TypeInv, OrderInv, NEW w \in Workers, Act(w)
  PROVE  Numbered(w)'
<1>1. /\ pc \in [Workers -> Steps] /\ job \in [Workers -> Job \cup {None}]
      /\ documents \in [Docs -> Document \cup {None}]
  BY DEF TypeInv, TypeOK
<1>2. CASE Lookup(w)
  <2> DEFINE found == documents[job[w].doc]
             n == [job[w] EXCEPT !.seen = found,
                                 !.version = IF found = None THEN 1 ELSE found.version + 1]
  <2>1. job[w] \in Job /\ job[w].doc \in Docs
    BY <1>2, BusyHasJob DEF TypeInv, Lookup, Job
  <2>2. CASE Return(w)
    BY <1>1, <2>2 DEF Return, Goto, Numbered
  <2>3. CASE job' = [job EXCEPT ![w] = n]
    <3>1. /\ found \in Document \cup {None} /\ n.seen = found
          /\ n.version = IF found = None THEN 1 ELSE found.version + 1
      BY <1>1, <2>1 DEF Job
    <3>2. job'[w] = n
      BY <1>1, <2>3
    <3> HIDE DEF n
    <3> QED BY <3>1, <3>2 DEF Numbered
  <2> QED BY <1>2, <2>2, <2>3 DEF Lookup
<1>3. CASE ~Lookup(w)
  <2>1. pc'[w] # "register"
    BY <1>1, <1>3 DEF Act, Ingest, LinkSupersedes, Start, Step, Fail, Register, Parse, Publish,
       Append, Sentinel, Classify, Armor, SetQuarantined, Mark, ReadPrior, ReadCurrent, WriteLink,
       Goto, Return, Emit
  <2> QED BY <2>1 DEF Numbered
<1> QED BY <1>2, <1>3

(* The registration of a document whose read was still current takes a     *)
(* number no registered revision of it has.                                *)
LEMMA RegisterOrdered ==
  ASSUME TypeInv, OrderInv, NEW w \in Workers, Register(w)
  PROVE  VersionsDistinct' /\ \A h \in registered' : Below(h)'
<1> DEFINE j == job[w]
           record == [content |-> j.content, version |-> j.version,
                      secure |-> SecureNow(j.doc),
                      supersedes |-> IF j.seen = None THEN None ELSE j.doc]
<1>1. /\ HeaderOf(w) \in Header /\ j \in Job /\ j.doc \in Docs /\ j.content \in Contents
      /\ j.version \in Version
  BY HeaderTypes DEF Register, Ingesting
<1>2. /\ documents \in [Docs -> Document \cup {None}] /\ registered \subseteq Header
      /\ TypeOK
  BY DEF TypeInv, TypeOK
<1>3. record \in Document /\ record.version = j.version
  BY <1>1, <1>2 DEF Document, SecureNow
<1>4. WriteDocument(j.doc, j.seen, record) /\ registered' = registered \cup {HeaderOf(w)}
      /\ Numbered(w) /\ pc[w] = "register"
  BY DEF Register, OrderInv
<1> HIDE DEF record
<1>5. /\ documents' = [documents EXCEPT ![j.doc] = record]
      /\ raced \subseteq raced' /\ raced' \subseteq Docs
      /\ documents' \in [Docs -> Document \cup {None}]
  BY <1>1, <1>2, <1>3, <1>4, WriteTypes DEF WriteDocument
<1>6. ASSUME j.doc \notin raced', NEW h \in registered, h.doc = j.doc
      PROVE  h.version < j.version
  <2>1. h \in Header /\ h.version \in Nat /\ j.version \in Nat
    BY <1>1, <1>2, <1>6 DEF Header, Version
  <2>2. documents[j.doc] \in Document /\ h.version <= documents[j.doc].version
    BY <1>1, <1>2, <1>5, <1>6 DEF OrderInv, Below
  <2>3. documents[j.doc] # None /\ j.seen # None /\ documents[j.doc].version = j.seen.version
    BY <1>4, <1>6, <2>2, NoneAssumption DEF WriteDocument
  <2>4. j.version = documents[j.doc].version + 1 /\ documents[j.doc].version \in Nat
    BY <1>4, <2>2, <2>3 DEF Numbered, Document, Version
  <2> QED BY <2>1, <2>2, <2>4
<1>7. /\ HeaderOf(w).doc = j.doc /\ HeaderOf(w).version = j.version
  BY DEF HeaderOf
<1>8. VersionsDistinct'
  <2> SUFFICES ASSUME NEW g \in registered', NEW h \in registered',
                      g.doc = h.doc, g.version = h.version, g.doc \notin raced'
               PROVE  g = h
    BY DEF VersionsDistinct
  <2>1. CASE g \in registered /\ h \in registered
    BY <1>5, <2>1 DEF OrderInv, VersionsDistinct
  <2>2. CASE g = HeaderOf(w) /\ h \in registered
    BY <1>6, <1>7, <2>2, <1>1 DEF Version
  <2>3. CASE g \in registered /\ h = HeaderOf(w)
    BY <1>6, <1>7, <2>3, <1>1 DEF Version
  <2> QED BY <1>4, <2>1, <2>2, <2>3
<1>9. ASSUME NEW h \in registered' PROVE Below(h)'
  <2>1. h \in Header /\ h.doc \in Docs /\ h.version \in Nat
    BY <1>1, <1>2, <1>4 DEF Header, Version
  <2>2. CASE h.doc # j.doc
    BY <1>4, <1>5, <1>7, <2>1, <2>2, <1>2 DEF OrderInv, Below
  <2>3. CASE h.doc = j.doc
    <3>1. documents'[h.doc] = record /\ record # None
      BY <1>2, <1>3, <1>5, <2>1, <2>3, NoneAssumption
    <3>2. h.doc \notin raced' => h.version <= j.version
      <4>1. CASE h = HeaderOf(w)
        BY <1>1, <1>7, <4>1 DEF Version
      <4>2. CASE h \in registered
        BY <1>1, <1>6, <2>1, <2>3, <4>2 DEF Version
      <4> QED BY <1>4, <4>1, <4>2
    <3> QED BY <1>3, <3>1, <3>2 DEF Below
  <2> QED BY <2>2, <2>3
<1> QED BY <1>8, <1>9

(* Links and marks keep a document at its version or raise it; a link that *)
(* has lost a race says so.                                                *)
LEMMA RewriteOrdered ==
  ASSUME TypeInv, OrderInv, NEW w \in Workers, WriteLink(w) \/ Mark(w)
  PROVE  VersionsDistinct' /\ \A h \in registered' : Below(h)'
<1> DEFINE d == job[w].doc
<1>1. /\ documents \in [Docs -> Document \cup {None}] /\ registered \subseteq Header
      /\ TypeOK /\ Ready(w) /\ registered' = registered
  BY DEF TypeInv, TypeOK, WriteLink, Mark
<1>2. job[w] \in Job /\ d \in Docs
  BY <1>1, BusyHasJob DEF WriteLink, Mark, Job
<1>3. PICK record \in Document :
        /\ documents' = [documents EXCEPT ![d] = record]
        /\ raced \subseteq raced'
        /\ d \notin raced' /\ documents[d] # None => documents[d].version <= record.version
  <2>1. CASE WriteLink(w)
    <3> DEFINE r == [content |-> job[w].seen.content,
                     version |-> Larger(job[w].seen.version, job[w].version),
                     supersedes |-> job[w].prior, secure |-> SecureNow(job[w].doc)]
    <3>1. job[w].seen \in Document /\ job[w].prior \in Docs
      BY <1>1, <2>1 DEF WriteLink, Ready, Linking
    <3>2. /\ Larger(job[w].seen.version, job[w].version) \in Version
          /\ job[w].seen.version <= Larger(job[w].seen.version, job[w].version)
      BY <1>2, <3>1 DEF Larger, Document, Version, Job
    <3>3. r \in Document /\ job[w].seen.version <= r.version
      BY <1>1, <1>2, <3>1, <3>2 DEF Document, SecureNow
    <3>4. WriteDocument(d, job[w].seen, r)
      BY <2>1 DEF WriteLink
    <3> HIDE DEF r
    <3>5. raced \subseteq raced' /\ documents' = [documents EXCEPT ![d] = r]
      BY <3>4 DEF WriteDocument
    <3>6. d \notin raced' /\ documents[d] # None => documents[d].version = job[w].seen.version
      BY <3>1, <3>4, NoneAssumption DEF WriteDocument
    <3> QED BY <3>3, <3>5, <3>6
  <2>2. CASE Mark(w)
    <3> DEFINE r == [documents[d] EXCEPT !.secure = FALSE]
    <3>1. documents[d] \in Document
      BY <1>1, <1>2, <2>2 DEF Mark, Ready, Registered, Ingesting
    <3>2. r \in Document /\ documents[d].version <= r.version
      <4>1. r \in Document /\ r.version = documents[d].version
        BY <3>1 DEF Document
      <4>2. documents[d].version \in Nat
        BY <3>1 DEF Document, Version
      <4> HIDE DEF r
      <4> QED BY <4>1, <4>2
    <3>3. documents' = [documents EXCEPT ![d] = r] /\ raced \subseteq raced'
      BY <2>2 DEF Mark
    <3> HIDE DEF r
    <3> QED BY <3>2, <3>3
  <2> QED BY <2>1, <2>2
<1>4. VersionsDistinct'
  BY <1>1, <1>3 DEF OrderInv, VersionsDistinct
<1>5. ASSUME NEW h \in registered PROVE Below(h)'
  <2>1. h.doc \in Docs /\ h.version \in Nat /\ Below(h)
    BY <1>1 DEF Header, Version, OrderInv
  <2>2. CASE h.doc # d
    BY <1>1, <1>2, <1>3, <2>1, <2>2 DEF Below
  <2>3. CASE h.doc = d
    <3>1. documents[d] \in Document /\ documents'[d] = record
      BY <1>1, <1>2, <1>3, <2>1, <2>3 DEF Below
    <3>2. record # None /\ record.version \in Nat /\ documents[d].version \in Nat
      BY <3>1, NoneAssumption DEF Document, Version
    <3>3. h.doc \notin raced' => h.version <= record.version
      BY <1>3, <2>1, <2>3, <3>1, <3>2, NoneAssumption DEF Below
    <3>4. documents'[h.doc] = record
      BY <2>3, <3>1
    <3> QED BY <3>2, <3>3, <3>4 DEF Below
  <2> QED BY <2>2, <2>3
<1> QED BY <1>1, <1>4, <1>5

(* A registered version is new to its document unless writes have raced.   *)
LEMMA NextOrdered == TypeInv /\ OrderInv /\ [Next]_vars => OrderInv'
<1> SUFFICES ASSUME TypeInv, OrderInv, [Next]_vars PROVE OrderInv'
  OBVIOUS
<1>1. ASSUME NEW w \in Workers, Act(w) PROVE OrderInv'
  <2>1. \A v \in Workers : Numbered(v)'
    <3>1. Numbered(w)'
      BY <1>1, SelfNumbered
    <3>2. ASSUME NEW v \in Workers, v # w PROVE Numbered(v)'
      BY <1>1, <3>2, OthersStay DEF OrderInv, Numbered
    <3> QED BY <3>1, <3>2
  <2>2. VersionsDistinct' /\ \A h \in registered' : Below(h)'
    <3>1. CASE Register(w)
      BY <3>1, RegisterOrdered
    <3>2. CASE WriteLink(w) \/ Mark(w)
      BY <3>2, RewriteOrdered
    <3>3. CASE UNCHANGED <<documents, registered, raced>>
      BY <3>3 DEF OrderInv, VersionsDistinct, Below
    <3> QED
      BY <1>1, <3>1, <3>2, <3>3
      DEF Act, Ingest, LinkSupersedes, Start, Step, Fail, Lookup, Parse, Publish, Append,
          Sentinel, Classify, Armor, SetQuarantined, ReadPrior, ReadCurrent, stores
  <2> QED BY <2>1, <2>2 DEF OrderInv
<1>2. CASE UNCHANGED vars
  BY <1>2 DEF vars, OrderInv, VersionsDistinct, Below, Numbered
<1> QED BY <1>1, <1>2 DEF Next, Act

(* Two registrations of a document share a version only when a write of it *)
(* has raced: whatever failures, links and marks come in between.          *)
THEOREM RevisionsAreDistinct == Spec => []VersionsDistinct
<1>1. Init => OrderInv
  BY InitOrdered
<1>2. TypeInv /\ OrderInv /\ [Next]_vars => OrderInv'
  BY NextOrdered
<1>3. OrderInv => VersionsDistinct
  BY DEF OrderInv
<1> QED BY <1>1, <1>2, <1>3, TypesAlways, PTL DEF Spec

-----------------------------------------------------------------------------
(* WHAT A FAILURE COSTS                                                    *)

(* An id is handed out once, and the registration that bears it is the one *)
(* of the job.                                                             *)
Traced(w) == job[w] # None =>
  /\ job[w].id <= started
  /\ \A h \in registered : h.id = job[w].id => pc[w] \in Registered /\ h = HeaderOf(w)
  /\ \A v \in Workers : v # w /\ job[v] # None => job[v].id # job[w].id

\* Registered, without a verdict, and nobody is about to give one.
Lost == {h \in registered : ~Settled(h) /\ ~InHand(h)}

LossInv ==
  /\ \A w \in Workers : Traced(w)
  /\ \A h \in registered : h.id <= started
  /\ IsFiniteSet(registered)
  /\ Cardinality(Lost) <= failures

(* Sets that shrink, or grow by one element.                               *)
LEMMA CountSubset ==
  ASSUME NEW S, NEW T, IsFiniteSet(S), T \subseteq S
  PROVE  /\ IsFiniteSet(T) /\ Cardinality(T) \in Nat /\ Cardinality(S) \in Nat
         /\ Cardinality(T) <= Cardinality(S)
  BY FS_Subset, FS_CardinalityType

(* One element more makes a set larger by one at most.                     *)
LEMMA CountOneMore ==
  ASSUME NEW S, NEW T, NEW x, IsFiniteSet(S), T \subseteq S \cup {x}
  PROVE  /\ IsFiniteSet(T) /\ Cardinality(T) \in Nat /\ Cardinality(S) \in Nat
         /\ Cardinality(T) <= Cardinality(S) + 1
<1>1. Cardinality(S) \in Nat
  BY FS_CardinalityType
<1>2. /\ IsFiniteSet(S \cup {x})
      /\ Cardinality(S \cup {x}) = IF x \in S THEN Cardinality(S) ELSE Cardinality(S) + 1
  BY FS_AddElement
<1>3. /\ IsFiniteSet(T) /\ Cardinality(T) \in Nat
      /\ Cardinality(T) <= Cardinality(S \cup {x}) /\ Cardinality(S \cup {x}) \in Nat
  BY <1>2, CountSubset
<1> QED BY <1>1, <1>2, <1>3

(* No verdict is lost at first.                                            *)
LEMMA InitLoss == Init => LossInv
<1> SUFFICES ASSUME Init PROVE LossInv
  OBVIOUS
<1>1. registered = {} /\ failures = 0 /\ Lost = {}
  BY DEF Init, Lost
<1>2. \A w \in Workers : Traced(w)
  BY DEF Init, Traced
<1> QED BY <1>1, <1>2, FS_EmptySet DEF LossInv

(* A job keeps its id to its end, and its header from its registration on. *)
Fresh(w) ==
  /\ job[w] = None /\ job'[w] # None /\ pc'[w] \notin Registered
  /\ job'[w].id = started + 1 /\ started' = started + 1
  /\ UNCHANGED <<registered, failures, log>>

Kept(w) ==
  /\ job[w] # None /\ job'[w] # None /\ job'[w].id = job[w].id
  /\ pc[w] \in Registered => pc'[w] \in Registered /\ HeaderOf(w)' = HeaderOf(w)
  /\ UNCHANGED <<registered, started, failures>>

Gone(w) ==
  /\ job[w] # None /\ job'[w] = None
  /\ UNCHANGED <<registered, started>>

Entered(w) ==
  /\ job[w] # None /\ pc[w] \notin Registered
  /\ job'[w] = job[w] /\ pc'[w] \in Registered
  /\ registered' = registered \cup {HeaderOf(w)}
  /\ UNCHANGED <<started, failures>>

(* What a step changes of the job in hand leaves its id, and what it       *)
(* changes after the registration leaves the header.                       *)
LEMMA KeptBy ==
  ASSUME TypeInv, NEW w \in Workers, pc[w] # "idle", NEW n \in Job, NEW step \in Steps,
         pc' = [pc EXCEPT ![w] = step], job' = [job EXCEPT ![w] = n],
         n.id = job[w].id,
         pc[w] \in Registered =>
           /\ step \in Registered /\ n.doc = job[w].doc
           /\ n.content = job[w].content /\ n.version = job[w].version,
         UNCHANGED <<registered, started, failures>>
  PROVE  Kept(w)
<1>1. /\ pc \in [Workers -> Steps] /\ job \in [Workers -> Job \cup {None}]
      /\ job[w] # None
  BY DEF TypeInv, TypeOK
<1>2. n # None /\ job'[w] = n /\ pc'[w] = step
  BY <1>1, NoneAssumption
<1> QED BY <1>1, <1>2 DEF Kept, HeaderOf

(* What a step of a worker does to its job: it takes a new one, goes on    *)
(* with it, lets go of it as it is gone, or registers it.                  *)
LEMMA JobSteps ==
  ASSUME TypeInv, NEW w \in Workers, Act(w)
  PROVE  /\ Fresh(w) \/ Kept(w) \/ (Gone(w) /\ Return(w)) \/ (Entered(w) /\ Register(w))
         /\ log \subseteq log'
<1> DEFINE j == job[w]
<1>1. /\ pc \in [Workers -> Steps] /\ job \in [Workers -> Job \cup {None}]
      /\ documents \in [Docs -> Document \cup {None}]
      /\ (pc[w] = "idle") = (j = None) /\ Ready(w)
  BY DEF TypeInv, TypeOK
<1>2. pc[w] # "idle" => j \in Job /\ j # None
  BY <1>1
<1>t. TypeInv'
  BY NextTypes DEF Act, Next
<1>3. log \subseteq log'
  BY DEF Act, Ingest, LinkSupersedes, Start, Step, Fail, Lookup, Register, Parse, Publish,
     Append, Sentinel, Classify, Armor, SetQuarantined, Mark, ReadPrior, ReadCurrent, WriteLink,
     stores
<1>4. CASE \/ \E d \in Docs, c \in Contents : Ingest(w, d, c)
           \/ \E d, p \in Docs : LinkSupersedes(w, d, p)
  <2>1. PICK step \in {"lookup", "prior"}, d \in Docs, c \in Contents \cup {None},
               p \in Docs \cup {None} : Start(w, step, d, c, p)
    BY <1>4 DEF Ingest, LinkSupersedes
  <2> DEFINE n == [id |-> started + 1, doc |-> d, content |-> c, prior |-> p, seen |-> None,
                   version |-> 0, event |-> None, route |-> None]
  <2>2. /\ pc[w] = "idle" /\ job' = [job EXCEPT ![w] = n] /\ pc' = [pc EXCEPT ![w] = step]
        /\ started' = started + 1 /\ UNCHANGED <<registered, failures, log>>
    BY <2>1 DEF Start, Goto, stores
  <2>3. n.id = started + 1
    OBVIOUS
  <2> HIDE DEF n
  <2>4. job'[w] = n /\ pc'[w] = step
    BY <1>1, <2>2
  <2>5. job'[w] # None
    BY <1>t, <2>4 DEF TypeInv, TypeOK
  <2> QED BY <1>1, <1>3, <2>2, <2>3, <2>4, <2>5 DEF Fresh, Registered, Ingesting
<1>5. CASE Return(w) /\ pc[w] # "idle" /\ UNCHANGED <<registered, started>>
  BY <1>1, <1>2, <1>3, <1>5 DEF Gone, Return, Goto
<1>6. CASE Fail(w)
  BY <1>5, <1>6 DEF Fail, stores
<1>7. CASE Register(w)
  <2>1. /\ pc[w] = "register" /\ pc' = [pc EXCEPT ![w] = "parse"] /\ job' = job
        /\ registered' = registered \cup {HeaderOf(w)} /\ UNCHANGED <<started, failures>>
    BY <1>7 DEF Register, Goto
  <2> QED BY <1>1, <1>2, <1>3, <1>7, <2>1 DEF Entered, Registered, Ingesting
<1>8. CASE Publish(w) \/ Append(w) \/ Sentinel(w) \/ SetQuarantined(w)
  <2>1. /\ pc[w] \in Registered /\ UNCHANGED <<registered, started, failures>>
    BY <1>8 DEF Publish, Append, Sentinel, SetQuarantined, stores, Registered, Ingesting
  <2>2. \/ Return(w)
        \/ /\ job' = [job EXCEPT ![w] = j]
           /\ \E step \in {"append", "sentinel", "quarantine", "classify", "mark"} :
                pc' = [pc EXCEPT ![w] = step]
    BY <1>1, <1>8 DEF Publish, Append, Sentinel, SetQuarantined, Goto
  <2>3. CASE /\ job' = [job EXCEPT ![w] = j]
             /\ \E step \in {"append", "sentinel", "quarantine", "classify", "mark"} :
                  pc' = [pc EXCEPT ![w] = step]
    <3>1. PICK step \in {"append", "sentinel", "quarantine", "classify", "mark"} :
            pc' = [pc EXCEPT ![w] = step]
      BY <2>3
    <3>2. step \in Registered /\ step \in Steps /\ pc[w] # "idle"
      BY <2>1 DEF Registered, Ingesting
    <3> QED BY <1>2, <1>3, <2>1, <2>3, <3>1, <3>2, KeptBy
  <2> QED BY <1>5, <2>1, <2>2, <2>3 DEF Registered, Ingesting
<1>9. ASSUME NEW type \in EventTypes, Emit(w, type), pc[w] \in Registered,
             UNCHANGED <<registered, started, failures>>
      PROVE  Kept(w)
  <2> DEFINE n == [j EXCEPT !.event = type]
  <2>1. pc' = [pc EXCEPT ![w] = "publish"] /\ job' = [job EXCEPT ![w] = n] /\ j \in Job
    BY <1>2, <1>9 DEF Emit, Goto, Registered, Ingesting
  <2>2. /\ n \in Job /\ n.id = j.id /\ n.doc = j.doc /\ n.content = j.content
        /\ n.version = j.version
    BY <2>1 DEF Job
  <2>3. "publish" \in Registered /\ "publish" \in Steps /\ pc[w] # "idle"
    BY <1>9 DEF Registered, Ingesting
  <2> HIDE DEF n
  <2> QED BY <1>9, <2>1, <2>2, <2>3, KeptBy
<1>10. ASSUME NEW route \in Workstreams \cup {None}, NEW step \in {"armor", "quarantine"},
              pc' = [pc EXCEPT ![w] = step], job' = [job EXCEPT ![w].route = route],
              pc[w] \in Registered, UNCHANGED <<registered, started, failures>>
       PROVE  Kept(w)
  <2> DEFINE n == [j EXCEPT !.route = route]
  <2>1. job' = [job EXCEPT ![w] = n] /\ j \in Job
    BY <1>2, <1>10 DEF Registered, Ingesting
  <2>2. /\ n \in Job /\ n.id = j.id /\ n.doc = j.doc /\ n.content = j.content
        /\ n.version = j.version
    BY <2>1 DEF Job
  <2>3. step \in Registered /\ step \in Steps /\ pc[w] # "idle"
    BY <1>10 DEF Registered, Ingesting
  <2> HIDE DEF n
  <2> QED BY <1>10, <2>1, <2>2, <2>3, KeptBy
<1>11. CASE Parse(w) \/ Armor(w) \/ Mark(w) \/ Classify(w)
  <2>1. /\ pc[w] \in Registered /\ pc[w] # "idle" /\ UNCHANGED <<registered, started, failures>>
    BY <1>11 DEF Parse, Armor, Mark, Classify, stores, Registered, Ingesting
  <2>2. \/ Return(w) \/ \E type \in EventTypes : Emit(w, type)
        \/ \E route \in Workstreams \cup {None}, step \in {"armor", "quarantine"} :
             pc' = [pc EXCEPT ![w] = step] /\ job' = [job EXCEPT ![w].route = route]
    <3>1. CASE Parse(w) \/ Mark(w)
      BY <3>1 DEF Parse, Mark
    <3>2. CASE Armor(w)
      BY <3>2 DEF Armor, Goto
    <3>3. CASE Classify(w)
      <4>1. PICK answer \in Workstreams \cup {None} :
              job' = [job EXCEPT ![w].route = Route(j.content, answer)]
        BY <3>3 DEF Classify
      <4>2. Route(j.content, answer) \in Workstreams \cup {None}
        <5>1. j.content \in Contents
          BY <1>1, <3>3 DEF Classify, Ready, Ingesting
        <5> QED BY <5>1, ScreeningAssumption DEF Route, ModelRoute, KeywordRoute, Topic, Trait
      <4> QED BY <3>3, <4>1, <4>2 DEF Classify, Goto
    <3> QED BY <1>11, <3>1, <3>2, <3>3
  <2> QED BY <1>3, <1>5, <1>9, <1>10, <2>1, <2>2
<1>12. CASE Lookup(w) \/ ReadPrior(w) \/ ReadCurrent(w)
  <2>1. /\ pc[w] \notin Registered /\ pc[w] # "idle" /\ UNCHANGED <<registered, started, failures>>
    BY <1>12 DEF Lookup, ReadPrior, ReadCurrent, stores, Registered, Ingesting
  <2>2. CASE ~Return(w)
    <3>1. PICK n : job' = [job EXCEPT ![w] = n] /\ n.id = j.id
      <4> DEFINE found == documents[j.doc]
                 prior == documents[j.prior]
                 next == IF found = None THEN 1 ELSE found.version + 1
                 l == [j EXCEPT !.seen = found, !.version = next]
                 q == [j EXCEPT !.version = prior.version + 1]
                 r == [j EXCEPT !.seen = found]
      <4>1. l.id = j.id /\ q.id = j.id /\ r.id = j.id
        BY <1>2, <2>1 DEF Job
      <4>2. \/ job' = [job EXCEPT ![w] = l]
            \/ job' = [job EXCEPT ![w] = q]
            \/ job' = [job EXCEPT ![w] = r]
        <5>1. CASE Lookup(w)
          BY <2>2, <5>1 DEF Lookup
        <5>2. CASE ReadPrior(w)
          BY <2>2, <5>2 DEF ReadPrior
        <5>3. CASE ReadCurrent(w)
          BY <2>2, <5>3 DEF ReadCurrent
        <5> QED BY <1>12, <5>1, <5>2, <5>3
      <4> HIDE DEF l, q, r
      <4> QED BY <4>1, <4>2
    <3>2. PICK step \in {"register", "current", "link"} : pc' = [pc EXCEPT ![w] = step]
      BY <1>12, <2>2 DEF Lookup, ReadPrior, ReadCurrent, Goto
    <3>3. job'[w] = n /\ pc'[w] = step
      BY <1>1, <3>1, <3>2
    <3>4. job'[w] # None
      BY <1>t, <3>3 DEF TypeInv, TypeOK
    <3> QED BY <1>2, <1>3, <2>1, <3>1, <3>3, <3>4 DEF Kept
  <2> QED BY <1>5, <2>1, <2>2
<1>13. CASE WriteLink(w)
  BY <1>5, <1>13 DEF WriteLink
<1> QED BY <1>4, <1>6, <1>7, <1>8, <1>11, <1>12, <1>13 DEF Act, Step

(* A job in hand stays traced to its registration, and only jobs that were *)
(* begun are registered.                                                   *)
LEMMA TracedStays ==
  ASSUME TypeInv, LossInv, NEW w \in Workers, Act(w)
  PROVE  /\ \A v \in Workers : Traced(v)'
         /\ \A h \in registered' : h.id <= started'
<1>1. /\ \A v \in Workers : Traced(v) /\ \A h \in registered : h.id <= started
      /\ started \in Nat
      /\ \A v \in Workers : job[v] # None => job[v].id \in Nat
      /\ \A h \in registered : h.id \in Nat
  <2>1. registered \subseteq Header /\ \A v \in Workers : job[v] # None => job[v] \in Job
    BY DEF TypeInv, TypeOK
  <2> QED BY <2>1, IngestionAssumption DEF LossInv, TypeInv, TypeOK, Header, Job, Ids
<1>2. \A v \in Workers : v # w => pc'[v] = pc[v] /\ job'[v] = job[v] /\ HeaderOf(v)' = HeaderOf(v)
  BY OthersStay DEF HeaderOf
<1>3. CASE Fresh(w)
  <2>1. ASSUME NEW v \in Workers PROVE Traced(v)'
    <3>1. CASE v = w
      BY <1>1, <1>2, <1>3, <3>1 DEF Fresh, Traced
    <3>2. CASE v # w
      BY <1>1, <1>2, <1>3, <3>2 DEF Fresh, Traced
    <3> QED BY <3>1, <3>2
  <2> QED BY <1>1, <1>3, <2>1 DEF Fresh
<1>4. CASE Kept(w) \/ Gone(w)
  <2>1. ASSUME NEW v \in Workers PROVE Traced(v)'
    <3>1. CASE v = w
      BY <1>1, <1>2, <1>4, <3>1 DEF Kept, Gone, Traced
    <3>2. CASE v # w
      BY <1>1, <1>2, <1>4, <3>2 DEF Kept, Gone, Traced
    <3> QED BY <3>1, <3>2
  <2> QED BY <1>1, <1>4, <2>1 DEF Kept, Gone
<1>5. CASE Entered(w)
  <2>1. HeaderOf(w).id = job[w].id /\ HeaderOf(w)' = HeaderOf(w)
    BY <1>5 DEF Entered, HeaderOf
  <2>2. ASSUME NEW v \in Workers PROVE Traced(v)'
    <3>1. CASE v = w
      BY <1>1, <1>2, <1>5, <2>1, <3>1 DEF Entered, Traced
    <3>2. CASE v # w
      BY <1>1, <1>2, <1>5, <2>1, <3>2 DEF Entered, Traced
    <3> QED BY <3>1, <3>2
  <2>3. \A h \in registered' : h.id <= started'
    BY <1>1, <1>5, <2>1 DEF Entered, Traced
  <2> QED BY <2>2, <2>3
<1> QED BY <1>3, <1>4, <1>5, JobSteps

(* A job that returns after its registration has given its verdict.        *)
LEMMA ReturnSettles ==
  ASSUME TypeInv, NEW w \in Workers, Step(w), Return(w), pc[w] \in Registered,
         NEW h, h = HeaderOf(w)
  PROVE  Settled(h)'
<1>1. /\ pc \in [Workers -> Steps] /\ job[w] # None /\ pc'[w] = "idle"
      /\ h.content = job[w].content
  BY BusyHasJob DEF TypeInv, TypeOK, Return, Goto, Registered, Ingesting, HeaderOf
<1>2. Parse(w) \/ Append(w)
  BY <1>1 DEF Step, Lookup, Register, Publish, Sentinel, Classify, Armor, SetQuarantined, Mark,
     ReadPrior, ReadCurrent, WriteLink, Goto, Emit, Registered, Ingesting
<1>3. CASE Parse(w)
  <2>1. Unsupported(h.content)
    BY <1>1, <1>3 DEF Parse, Emit, Goto
  <2> QED BY <2>1 DEF Settled
<1>4. CASE Append(w)
  <2>1. /\ EventOf(w) \in log' /\ EventOf(w).header = h /\ EventOf(w).type = job[w].event
    BY <1>4 DEF Append, EventOf
  <2>2. job[w].event = "parsed" => ~HasText(h.content)
    BY <1>1, <1>4 DEF Append, Goto
  <2> QED BY <2>1, <2>2 DEF Settled
<1> QED BY <1>2, <1>3, <1>4

(* A step loses at most the verdict in hand, and then it is a failure.     *)
LEMMA ActLost ==
  ASSUME TypeInv, LossInv, NEW w \in Workers, Act(w)
  PROVE  \/ Lost' \subseteq Lost /\ failures' = failures
         \/ Lost' \subseteq Lost \cup {HeaderOf(w)} /\ failures' = failures + 1
<1>1. \A v \in Workers : v # w => job'[v] = job[v]
  BY OthersStay
<1>2. ASSUME NEW h \in Lost', ~(Fail(w) /\ h = HeaderOf(w)) PROVE h \in Lost
  <2>1. /\ h \in registered' /\ ~Settled(h)'
        /\ \A v \in Workers : ~(job'[v] # None /\ job'[v].id = h.id)
    BY <1>2 DEF Lost, InHand
  <2>2. ~Settled(h)
    BY <2>1, JobSteps DEF Settled
  <2>3. h \in registered
    <3>1. CASE Entered(w)
      BY <2>1, <3>1 DEF Entered, HeaderOf
    <3> QED BY <2>1, <3>1, JobSteps DEF Fresh, Kept, Gone
  <2>4. ASSUME NEW v \in Workers, job[v] # None, job[v].id = h.id PROVE FALSE
    <3>1. v = w
      BY <1>1, <2>1, <2>4
    <3>2. Gone(w) /\ Return(w)
      BY <2>1, <2>4, <3>1, JobSteps DEF Fresh, Kept, Entered
    <3>3. pc[w] \in Registered /\ h = HeaderOf(w)
      BY <2>3, <2>4, <3>1 DEF LossInv, Traced
    <3>4. Step(w)
      BY <1>2, <3>1, <3>2, <3>3, <2>4 DEF Act, Ingest, LinkSupersedes, Start, Registered, Ingesting
    <3> QED BY <2>1, <3>2, <3>3, <3>4, ReturnSettles
  <2> QED BY <2>2, <2>3, <2>4 DEF Lost, InHand
<1>3. failures' = IF Fail(w) THEN failures + 1 ELSE failures
  BY DEF Act, Ingest, LinkSupersedes, Start, Step, Fail, Lookup, Register, Parse, Publish,
     Append, Sentinel, Classify, Armor, SetQuarantined, Mark, ReadPrior, ReadCurrent, WriteLink
<1> QED BY <1>2, <1>3

(* The verdicts lost are never more than the failures.                     *)
LEMMA NextLoss == TypeInv /\ LossInv /\ [Next]_vars => LossInv'
<1> SUFFICES ASSUME TypeInv, LossInv, [Next]_vars PROVE LossInv'
  OBVIOUS
<1>1. ASSUME NEW w \in Workers, Act(w) PROVE LossInv'
  <2>1. IsFiniteSet(registered')
    <3>1. CASE Entered(w)
      BY <3>1, CountOneMore DEF Entered, LossInv
    <3> QED BY <1>1, <3>1, JobSteps DEF Fresh, Kept, Gone, LossInv
  <2>2. /\ IsFiniteSet(Lost) /\ Cardinality(Lost) \in Nat /\ failures \in Nat
        /\ Cardinality(Lost) <= failures
    BY CountSubset, IngestionAssumption DEF Lost, LossInv, TypeInv, TypeOK
  <2>3. Cardinality(Lost') <= failures'
    <3>1. CASE Lost' \subseteq Lost /\ failures' = failures
      <4>1. Cardinality(Lost') <= Cardinality(Lost) /\ Cardinality(Lost') \in Nat
        BY <2>2, <3>1, CountSubset
      <4> QED BY <2>2, <3>1, <4>1
    <3>2. CASE Lost' \subseteq Lost \cup {HeaderOf(w)} /\ failures' = failures + 1
      <4>1. Cardinality(Lost') <= Cardinality(Lost) + 1 /\ Cardinality(Lost') \in Nat
        BY <2>2, <3>2, CountOneMore
      <4> QED BY <2>2, <3>2, <4>1
    <3> QED BY <1>1, <3>1, <3>2, ActLost
  <2> QED BY <1>1, <2>1, <2>3, TracedStays DEF LossInv
<1>2. CASE UNCHANGED vars
  BY <1>2 DEF vars, LossInv, Traced, HeaderOf, Lost, Settled, InHand
<1> QED BY <1>1, <1>2 DEF Next, Act

(* One failure, one verdict: whatever is registered gets its verdict into  *)
(* the log, but for as many revisions as calls have failed.                *)
THEOREM VerdictLossIsPaidFor == Spec => []VerdictLossNeedsFailure
<1>1. LossInv => VerdictLossNeedsFailure
  BY DEF LossInv, Lost, VerdictLossNeedsFailure
<1> QED BY <1>1, InitLoss, NextLoss, TypesAlways, PTL DEF Spec

=============================================================================

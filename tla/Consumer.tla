------------------------------- MODULE Consumer -------------------------------
(***************************************************************************)
(* The bucket-notification consumer: src/runtime/consumer.py, with the     *)
(* notification parser of src/runtime/bucket_notify.py and the append of   *)
(* src/memory/event_log.py.                                                *)
(*                                                                         *)
(* A consumer pulls a batch of notifications from the deal-events          *)
(* subscription, processes them one after the other and acknowledges the   *)
(* batch as a whole.  Processing one notification is a query for its       *)
(* dedupe key, the append to the event log (a transaction of its own), the *)
(* ingestion hook, the call of the agent and the update of the deal's      *)
(* counters: several calls, with nothing that undoes the earlier ones when *)
(* a later one fails.  Several consumers may run; Pub/Sub delivers at      *)
(* least once and hands a message out again when its lease has expired.    *)
(***************************************************************************)
EXTENDS Naturals, Sequences, FiniteSets

CONSTANTS Objects,        \* object names in the data-room bucket of one deal
          MaxGenerations, \* bound: uploads under one name
          Strays,         \* notifications parse_notification refuses
          Consumers,
          None,           \* "no message"
          BatchSize,      \* max_messages of a pull
          MaxFaults       \* bound: crashes and failing calls

ASSUME SizesAssumption ==
  MaxGenerations \in Nat /\ BatchSize \in Nat \ {0} /\ MaxFaults \in Nat
ASSUME ConsumersAssumption == IsFiniteSet(Consumers)

\* The OBJECT_FINALIZE notification of one upload.
Upload == [object : Objects, generation : 1 .. MaxGenerations]
Message == Upload \cup Strays

ASSUME MessagesAssumption == Upload \cap Strays = {} /\ None \notin Message

VARIABLES
  uploads,      \* Objects -> generations uploaded so far
  unacked,      \* messages of the subscription not acknowledged
  leased,       \* those of them that are out with a consumer
  log,          \* the document.ingested events of deals/{deal}/events, in seq order
  hooked,       \* uploads given to the ingestion hook
  invoked,      \* agent calls that returned
  counter,      \* documents_ingested of deals/{deal}
  provisioned,  \* whether the document deals/{deal} exists
  pc, todo, done, msg,   \* Consumers -> next call, rest of the batch, its ack ids, message
  faults

local == <<pc, todo, done, msg>>
deal  == <<log, hooked, invoked, counter>>
vars  == <<uploads, unacked, leased, deal, provisioned, local, faults>>

-----------------------------------------------------------------------------
Calls == {"pull", "batch", "find", "append", "ingest", "invoke", "count"}

TypeOK ==
  /\ uploads \in [Objects -> 0 .. MaxGenerations]
  /\ unacked \subseteq Message /\ leased \subseteq unacked
  /\ log \in Seq(Upload)
  /\ hooked \in Seq(Upload)
  /\ invoked \in Nat /\ counter \in Nat
  /\ provisioned \in BOOLEAN
  /\ pc \in [Consumers -> Calls]
  /\ todo \in [Consumers -> SUBSET Message]
  /\ done \in [Consumers -> SUBSET Message]
  /\ msg \in [Consumers -> Upload \cup {None}]
  /\ faults \in Nat

Init ==
  /\ uploads = [o \in Objects |-> 0]
  /\ unacked = Strays /\ leased = {}
  /\ log = << >> /\ hooked = << >> /\ invoked = 0 /\ counter = 0
  /\ provisioned = FALSE
  /\ pc = [c \in Consumers |-> "pull"]
  /\ todo = [c \in Consumers |-> {}]
  /\ done = [c \in Consumers |-> {}]
  /\ msg = [c \in Consumers |-> None]
  /\ faults = 0

\* parse_notification puts the object's name, bucket and content type in the
\* payload, and compute_dedupe_key hashes deal, actor, type and payload: the
\* key tells objects apart, not generations.
DedupeKey(m) == m.object

\* _find_duplicate
Logged(key) == \E i \in DOMAIN log : DedupeKey(log[i]) = key

-----------------------------------------------------------------------------
(* An object is uploaded, or uploaded again under its name.                *)
UploadObject(o) ==
  /\ uploads[o] < MaxGenerations
  /\ uploads' = [uploads EXCEPT ![o] = @ + 1]
  /\ unacked' = unacked \cup {[object |-> o, generation |-> uploads[o] + 1]}
  /\ UNCHANGED <<leased, deal, provisioned, local, faults>>

(* provision_deal: refuses a deal that exists.                             *)
Provision ==
  /\ ~provisioned
  /\ provisioned' = TRUE
  /\ UNCHANGED <<uploads, unacked, leased, deal, local, faults>>

(* The acknowledgement deadline passes, be the consumer at work or dead.   *)
Expire(m) ==
  /\ m \in leased
  /\ leased' = leased \ {m}
  /\ UNCHANGED <<uploads, unacked, deal, provisioned, local, faults>>

-----------------------------------------------------------------------------
Goto(c, call) == pc' = [pc EXCEPT ![c] = call]

\* process_notification returns to the loop over the batch; the generator
\* takes note of the ack id.
NextMessage(c) ==
  /\ Goto(c, "batch")
  /\ done' = [done EXCEPT ![c] = @ \cup {msg[c]}]
  /\ msg' = [msg EXCEPT ![c] = None]

\* The consumer's batch is gone, acknowledged or not.
NewBatch(c) ==
  /\ Goto(c, "pull")
  /\ todo' = [todo EXCEPT ![c] = {}]
  /\ done' = [done EXCEPT ![c] = {}]
  /\ msg' = [msg EXCEPT ![c] = None]

\* Mutant: a batch is acknowledged when it is received.
PullAcknowledges(c, batch) ==
  /\ pc[c] = "pull"
  /\ batch # {}
  /\ Cardinality(batch) <= BatchSize
  /\ unacked' = unacked \ batch
  /\ Goto(c, "batch")
  /\ todo' = [todo EXCEPT ![c] = batch]
  /\ UNCHANGED <<uploads, leased, deal, provisioned, done, msg, faults>>

Pull(c, batch) ==
  /\ pc[c] = "pull"
  /\ batch # {}
  /\ Cardinality(batch) <= BatchSize
  /\ leased' = leased \cup batch
  /\ Goto(c, "batch")
  /\ todo' = [todo EXCEPT ![c] = batch]
  /\ UNCHANGED <<uploads, unacked, deal, provisioned, done, msg, faults>>

\* Mutant: the ack id of a skipped message is not kept.
ParseLosesStray(c, m) ==
  /\ pc[c] = "batch"
  /\ m \in todo[c]
  /\ todo' = [todo EXCEPT ![c] = @ \ {m}]
  /\ IF m \in Strays
     THEN UNCHANGED <<pc, msg>>
     ELSE Goto(c, "find") /\ msg' = [msg EXCEPT ![c] = m]
  /\ UNCHANGED <<uploads, unacked, leased, deal, provisioned, done, faults>>

(* parse_notification: what is no OBJECT_FINALIZE of a data-room bucket is *)
(* skipped, and acknowledged with the batch.                               *)
Parse(c, m) ==
  /\ pc[c] = "batch"
  /\ m \in todo[c]
  /\ todo' = [todo EXCEPT ![c] = @ \ {m}]
  /\ IF m \in Strays
     THEN done' = [done EXCEPT ![c] = @ \cup {m}] /\ UNCHANGED <<pc, msg>>
     ELSE Goto(c, "find") /\ msg' = [msg EXCEPT ![c] = m] /\ UNCHANGED done
  /\ UNCHANGED <<uploads, unacked, leased, deal, provisioned, faults>>

\* Mutants: the check does not look at the log; a new key goes straight to the hook.
FindNoDuplicate(c) ==
  /\ pc[c] = "find"
  /\ Goto(c, "append")
  /\ UNCHANGED <<uploads, unacked, leased, deal, provisioned, todo, done, msg, faults>>
FindDuplicateThenIngest(c) ==
  /\ pc[c] = "find"
  /\ \/ Logged(DedupeKey(msg[c])) /\ NextMessage(c)
     \/ ~Logged(DedupeKey(msg[c])) /\ Goto(c, "ingest") /\ UNCHANGED <<done, msg>>
  /\ UNCHANGED <<uploads, unacked, leased, deal, provisioned, todo, faults>>

(* A notification whose key is logged returns at once as DUPLICATE.        *)
FindDuplicate(c) ==
  /\ pc[c] = "find"
  /\ \/ Logged(DedupeKey(msg[c])) /\ NextMessage(c)
     \/ ~Logged(DedupeKey(msg[c])) /\ Goto(c, "append") /\ UNCHANGED <<done, msg>>
  /\ UNCHANGED <<uploads, unacked, leased, deal, provisioned, todo, faults>>

(* EventLog.append: a transaction that assigns the next seq.  Its own test *)
(* for duplicates is on the event_id, which is fresh on every delivery.    *)
AppendEvent(c) ==
  /\ pc[c] = "append"
  /\ log' = Append(log, msg[c])
  /\ Goto(c, "ingest")
  /\ UNCHANGED <<uploads, unacked, leased, hooked, invoked, counter, provisioned, todo, done,
                 msg, faults>>

Ingest(c) ==
  /\ pc[c] = "ingest"
  /\ hooked' = Append(hooked, msg[c])
  /\ Goto(c, "invoke")
  /\ UNCHANGED <<uploads, unacked, leased, log, invoked, counter, provisioned, todo, done,
                 msg, faults>>

Invoke(c) ==
  /\ pc[c] = "invoke"
  /\ invoked' = invoked + 1
  /\ Goto(c, "count")
  /\ UNCHANGED <<uploads, unacked, leased, log, hooked, counter, provisioned, todo, done,
                 msg, faults>>

(* The update of the deal document, an atomic Increment.                   *)
Count(c) ==
  /\ pc[c] = "count"
  /\ provisioned
  /\ counter' = counter + 1
  /\ NextMessage(c)
  /\ UNCHANGED <<uploads, unacked, leased, log, hooked, invoked, provisioned, todo, faults>>

(* Without a deal document the update raises NotFound and ends the run.    *)
CountRaises(c) ==
  /\ pc[c] = "count"
  /\ ~provisioned
  /\ NewBatch(c)
  /\ UNCHANGED <<uploads, unacked, leased, deal, provisioned, faults>>

(* The whole batch is consumed, and acknowledged.                          *)
Acknowledge(c) ==
  /\ pc[c] = "batch"
  /\ todo[c] = {}
  /\ unacked' = unacked \ done[c]
  /\ leased' = leased \ done[c]
  /\ NewBatch(c)
  /\ UNCHANGED <<uploads, deal, provisioned, faults>>

(* A call raises or the process dies; the batch stays unacknowledged, and  *)
(* the consumer is started again.                                          *)
Fail(c) ==
  /\ pc[c] # "pull"
  /\ faults < MaxFaults
  /\ faults' = faults + 1
  /\ NewBatch(c)
  /\ UNCHANGED <<uploads, unacked, leased, deal, provisioned>>

-----------------------------------------------------------------------------
Step(c) ==
  \/ \E m \in todo[c] : Parse(c, m)
  \/ FindDuplicate(c) \/ AppendEvent(c) \/ Ingest(c) \/ Invoke(c)
  \/ Count(c) \/ CountRaises(c) \/ Acknowledge(c)

Next ==
  \/ \E o \in Objects : UploadObject(o)
  \/ Provision
  \/ \E m \in leased : Expire(m)
  \/ \E c \in Consumers :
       \/ \E batch \in SUBSET (unacked \ leased) : Pull(c, batch)
       \/ Step(c)
       \/ Fail(c)

(* A running consumer goes on; it pulls while there is something to pull;  *)
(* the lease of a message ends.                                            *)
Fairness ==
  /\ \A c \in Consumers :
       /\ WF_vars(Step(c))
       /\ WF_vars(\E batch \in SUBSET (unacked \ leased) : Pull(c, batch))
  /\ \A m \in Message : WF_vars(Expire(m))

Spec     == Init /\ [][Next]_vars
FairSpec == Spec /\ Fairness

-----------------------------------------------------------------------------
(* PROPERTIES                                                              *)

(* Every stage follows the one before it: an upload reaches the hook only  *)
(* after its audit event, the agent after the hook, and the deal's counter *)
(* never runs ahead of any of them, whichever consumer failed where.       *)
StageOrder ==
  /\ counter <= invoked /\ invoked <= Len(hooked) /\ Len(hooked) <= Len(log)
  /\ \A i \in DOMAIN hooked : \E j \in DOMAIN log : log[j] = hooked[i]

(* An acknowledged notification is on record: an upload that is no longer  *)
(* in the subscription has an event under its key in the log.              *)
AckedIsLogged ==
  \A o \in Objects : \A g \in 1 .. uploads[o] :
    [object |-> o, generation |-> g] \notin unacked => Logged(o)

(* The duplicate check is a query before a separate append, so consumers   *)
(* may race; but a key gets at most one event per consumer, over all       *)
(* redeliveries and restarts.  With one consumer it gets exactly one.      *)
Entries(o) == {i \in DOMAIN log : DedupeKey(log[i]) = o}
EntriesBounded ==
  \A o \in Objects : Cardinality(Entries(o)) <= Cardinality(Consumers)

(* Every notification is acknowledged in the end, whatever fails a bounded *)
(* number of times on the way, and never comes back.                       *)
Drained == \A m \in Message : m \in unacked ~> m \notin unacked

(* consumer.py:82-85: a batch that failed is replayed safely.  After a     *)
(* fault behind the append the replay is taken for a duplicate: the        *)
(* notification is acknowledged and its document never ingested.           *)
Acked(m) == m.generation <= uploads[m.object] /\ m \notin unacked
ReplayedSafely ==
  \A m \in Upload : Acked(m) => \E i \in DOMAIN hooked : hooked[i].object = m.object
=============================================================================

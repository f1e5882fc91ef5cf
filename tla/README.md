# Diligence Room: models, checks and proofs

Diligence Room is a Python system of cooperating agents that review the
documents of an M&A deal. Its state is in Firestore, its triggers come through
Pub/Sub, and almost none of its multi-call operations is a transaction. This
directory models the parts where that matters: TLA+ modules translated from the
source, TLC configurations that explore small instances, and theorems that the
TLA+ proof system checks for every value of the constants. `PROJECT.json` lists
the components, runs, mutants, hazards, findings and theorems, and maps every
definition to the source lines it stands for.

    tlc -workers 2 -config MCRunner_fleet.cfg MCRunner     # model-check one run
    tlapm RunnerProofs.tla                                 # check the proofs of a module

## 1. Inventory

### The parts and how they interact

    data-room bucket --notification--> Pub/Sub --pull--> consumer
         consumer --> event log (append), ingestion hook, agent, deal document
         ingestion --> lineage registry, sentinel, classifier / armor --> quarantine, log
    events --> dispatch runner --> handler | dead-letter queue <-- operators (redrive)
    checkpointed run --> agents' claims --> finding_create --> findings, partitions, inbox
                     --> synthesis of converging findings (the same stores)
    agents --> gateway_query --> gateway (policy, rate budget, audit) --> answer
    humans --> dashboard API --> negotiation drafts (approval gate) --> event log
           --> registry API --> agent registry --> agents built, catalogue published
    operators --> infra scripts --> cloud project, data room, cost cap, agent engine

| component (src/) | state it keeps | operations | hard behaviour | what makes it correct | module |
|---|---|---|---|---|---|
| negotiation drafts (`agents/negotiation`, endpoints in `dashboard/api/app.py`) | `deals/{deal}/negotiations/{draft}`: state, approver; transition events | generate, submit, approve, record_send; the endpoints | requests overlap in a thread pool; get, check and set are separate; the audit append follows the write; a request may die between calls | only a human's approval leads to `approved`; the approver is never lost; no draft under the confidence threshold; the log does not lie | Negotiation, ApprovalGate |
| dispatch runner (`runtime/runner.py`) | `runner_state/{dedupe_key}` marker | check, bounded attempts, dead letter, marker | crash between handler and marker; redelivery while another dispatcher works | no event dropped; settled once; completed only if handled; reruns only for crashes and rivals; every event settled | Runner, DispatchPromise |
| dead-letter queue (`runtime/dlq.py`) | the stored records, the report in the event log | dead_letter, redrive, list | record and report are two calls; two operators redrive one record | a record leaves only after a successful redrive; counts are real; reports are backed | Runner |
| event consumer (`runtime/consumer.py`, `bucket_notify.py`) | the pulled batch; deal counters; the subscription | pull, process_notification, acknowledge | at-least-once delivery, expiring leases, several consumers, a failure after any call | stages in order; nothing acknowledged without its event; races bounded; the subscription drains | Consumer |
| event log (`memory/event_log.py`, `gateway/audit.py`) | `events` by seq | transactional append | idempotence on an event_id that is always fresh | one atomic append | in every writer |
| deal workspace (`runtime/deal_workspace.py`) | `deals/{deal}` | provision | check and set are separate | one provisioning wins | Consumer, in one step |
| checkpoints (`runtime/checkpoint.py`) | checkpoint events of a run | run, resume | crash between step and checkpoint; two executors of a run | a checkpoint stands for its step's effects; a step is repeated only for a crash or a rival | Casework |
| findings, partitions, escalation (`memory`, `agents/tools/finding_create.py`, `coordination`) | findings, partition documents, inbox | validate, authorize, verify spans, create, partition, escalate | create is check-then-set; separate calls; a retry is a duplicate | findings rest on authorized evidence; the inbox tells the truth; an escalation is lost only to a crash | Casework |
| coordinator synthesis (`agents/coordinator`) | the synthesis among the findings; Memory Bank | two passes of queries, verification, creation | findings written between the queries | links stored findings of every workstream on one entity, never a synthesis | Casework |
| ingestion (`ingestion`, `armor`) | lineage documents, quarantine, events, log | register, parse, screen, classify, quarantine, mark; link_supersedes | registered before screened; two registrations at once; a link writes old fields back | nothing condemned is routed; a quarantine is announced after it is on record and outlives revisions; versions are distinct | Screening, Ingestion |
| agent registry (`registry`, `infra/agent_registry.py`, `agents/base_agent.py`) | manifests, version documents, catalogue, built agents | create, publish, approve, rollback, seed, publish cards, build | two-document updates without a transaction; a crash in between; approvals that do not look at the version | the manifest points at a version that exists; only vetted versions are built; names were current once | Registry |
| gateway (`gateway`, `agents/tools/gateway_query.py`) | rules, rate counters, audit log | decide, ask_agent, upsert, seed | budget, audit and answer are separate; rules replaced meanwhile; the hour ends | the hourly budget holds; every slot is accounted for; an answer follows a rule and the log shows it | Gateway |
| infrastructure scripts (`infra`) | the cloud project, `agent_engine_state.json` | bootstrap, data room, guardrails, deploy, delete | get-or-create without a transaction; unchecked lookups; delete-then-create; others at the console | reruns are idempotent; the cost cap stays; no policy change is lost; the state file names a live engine | Provision |
| loop guard, risk score, identity predicates, negotiation templates | none | pure functions | none | | with their callers, or not modelled (section 7) |
| dashboard data and web client, observability, compliance, replay, evals, redteam, scripts | none, or files | read, render, plan | none | | not modelled (section 7) |

The hazards of this code, each at its line, are in `PROJECT.json` with the
properties that would catch them; a hazard without a property has a note that
says why.

## 2. Plan

In order of importance, each step a module with its instance, runs and proofs:

1. **Negotiation** (the human gate), **Runner** (event processing under
   crashes), **Consumer** (the entry of every document): done, proved.
2. **Casework** (from a claim to the inbox, under checkpoints): done, proved.
3. **Screening** and **Ingestion** (what may reach an agent): done, proved.
4. **Registry** (which agent runs) and **Gateway** (what crosses a corridor):
   done, proved.
5. **Provision** (the project all of it runs in): done, proved.
6. Left: the composition of Consumer and Ingestion (the consumer's hook is one
   call that may fail), and the two calls of `provision_deal`. Every safety
   invariant that a run checks is proved; what the prover cannot reach is listed
   at the end of section 6.

Two promises are stated as abstract specifications and refined:
`ApprovalGate` by Negotiation and `DispatchPromise` by Runner. The other
components promise invariants and not a behaviour of their own, so their
promises are stated as invariants over the detailed model. No module that is
proved about declares a RECURSIVE operator; each constant's assumption is
named; each action is one call of the code.

## 3. Modules

An operator commented "Mutant" is an action or helper with a plausible bug, used
only to confirm that a property notices it. `MC<module>` instantiates a module
for TLC, `<module>Proofs` holds its theorems. A worker, operator or consumer in
these modules is a thread or a process; `pc` is the call it is about to make and
`job` (or `held`, `snap`, `seen`) what its local variables hold. A crash, or an
exception, ends the work at any call and undoes nothing.

### Negotiation, ApprovalGate

`Negotiation` has one worker per thread of the server. Each action is one
Firestore call with the Python around it: `ReadFinding` and `Lookup` are the
reads of `generate_draft`, `Create` its set, `Get`/`Write`/`Emit` the three calls
of `_transition`; `job` holds the locals of the request, `snap` the document
`_transition` read, and `Write` computes the new document from `snap`, as
`replace(draft, ...)` does. POST /drafts generates and then submits, which is why
`Emit` of a new draft and `Lookup` of one still in state draft go on to `Get`.
`Abort` ends a request at any call (an exception or the end of the process) and
undoes nothing. The stable draft id is a hash of deal, finding and kind, so one
model value stands for it; the draft's text, timestamps and the reason of a
refusal are left out. `asked` is a history variable: who posted an approval.

`ApprovalGate` is the promise of the module docstring, one atomic step per
transition. `GateSpec` is the refinement (`draft <- docs`).

### Runner, DispatchPromise

`Runner` models `dispatch_event` call by call. `marker` is the document under the
event's dedupe key; `inbox` is what has been delivered and not acknowledged, so
an event may be held by two dispatchers, or come again after its
acknowledgement (`Redeliver`). `dlq` keeps every letter ever stored, with
`stored` turned off by a delete, so that properties can speak of removed letters;
`redriven` and `failures` are history. A redrive carries the attempt count it
read in `seen` and writes `seen + 1`, as the code does, and the update of a
letter that is gone raises and changes nothing. The length of the backoff, error
texts and timestamps are left out. `dispatch_event` is called with an envelope by
its environment: in this repository only tests call it, so delivery is modelled
from its contract (at-least-once, acknowledged on return) and marked external.

`DispatchPromise` says: every event is settled once, as completed or
dead_lettered, and completed only if its handler ended well.

### Consumer

`Consumer` has several consumer processes on one subscription. `Pull` leases a
batch, `Parse` takes its next message (a notification the parser refuses is
skipped but acknowledged with the batch), `FindDuplicate` queries the log,
`AppendEvent` is the transaction of `EventLog.append`, then `Ingest`, `Invoke` and
`Count`; `Acknowledge` acknowledges the whole batch. `Expire` ends a lease at any
time, also under a consumer that is still at work. `Fail` is an exception or the
end of the process: the batch is gone, the messages stay unacknowledged.
`CountRaises` is the update of a deal document that does not exist. The dedupe key
hashes deal, actor, type and payload, and the payload has the object's name but
not its generation: `DedupeKey(m) == m.object`. The order in which a batch is
processed is left open (Pub/Sub promises none).

The model is the consumer with an ingestion hook, as the class is built for;
the command line's `main` builds one without, to which `Ingest` is a step that
does nothing. The ingestion hook and the agent are single calls here, which return or fail;
the module Ingestion opens the first. A message that is not JSON at all is
not modelled: it would raise inside the generator on every delivery (a hazard in
`PROJECT.json`).

### Casework

One run of `run_with_checkpoints` over a plan of claims, readings and the
synthesis, executed by workers that restart it after a crash and may execute it
at the same time. `Check` and `Record` are the checkpointer, `Read` is
`data_room_read`, `Extract` the reading of the offline producer in `fleet.py`,
`Reject` and `Accept` the contract, authorization and span checks of
`finding_create` (`Verdict`), `Lookup` and `Set` the two calls of
`FindingsStore.create`, `Partition`, `Inbox` and `Notify` the writes after it, and
`Converge`, `Collect`, `Verify`, `Remember`, `Announce` the passes of
`synthesize_critical`, which then goes the way of every finding. Ids are digests
or uuids; the model keeps the set of what went into them, so two ids are equal
when their sources are. The category of a citation is what the caller declares,
and the authorization is about that category, as in the code. `texts` says what
has become of the documents, which are replaced (`Amend`) while the run goes on.

### Screening, Ingestion

`Screening` has no state: it translates the decisions about one document - the
format by magic bytes and content, whether a parser yields text, the tripwire,
the route and the armor verdict - over contents that differ in what those
decisions look at. With `Live` clients the answer of a model is any of the
shapes the code distinguishes, malformed and missing ones included; without,
every decision is a function of the content. `Ingestion` extends it with
`ingest_blob` call by call: `Lookup` and `Register` of the lineage, `Parse`,
`Publish` and `Append` of its events, `Sentinel`, `Classify`, `Armor`,
`SetQuarantined` and `Mark`; `ReadPrior`, `ReadCurrent` and `WriteLink` are
`link_supersedes`, which writes every field back as it read it. `raced` is the
history of documents of which two such writes overlapped.

### Registry

Manifests and version documents are separate, and each operation is its reads
and writes: `GetManifest`, `Create`, `GetVersion`, `Register` and `Point` serve
creation, `publish_version` and rollback, `Approve` the PATCH endpoint, `Skip`
and `NextSeed` the loop of the seed, `ListManifests` and `CreateService` the
publication of agent cards (an existing service counts as published), `Build`
and `BuildAgent` the construction of an agent. `pointed`, `named` and `posted`
are history: versions a manifest has pointed at, rollback targets named by
approvals, and agents made through the API, which get no version document.

### Gateway

`decide` as the tool and the route call it: `Screen` for a raw artifact in the
question, `Evaluate` reads the rule, `Consume` is the rate transaction of the
corridor's clock-hour counter, `AuditVerdict` the event, `Respond`, `Filter`
(which reads the rule again) and `Block` the answer. Rules are replaced, seeded
and removed at any time, hours pass under a request, and a request may die at
any call. `granted` remembers the rules a corridor has had, `spent` the slots
taken, `overtaken` the corridors in which a request stamped in a past hour took
a slot after one of a later hour, which resets the counter in the code.

### Provision

The scripts of `infra/` that change the cloud: a run walks its plan with `Look`
(describe or list) and `Make` (create); the bootstrap goes on to the cost cap
(`FindBudget` to `UpdateCap`) and its verification; guardrails read, merge and
set the IAM policy; the agent engine is created and its name written to the
state file, or loaded, deleted and unlinked. Lookups whose failure the code does
not check may fail and pass for an absence (`LookFails`, `FindMisses`, branches of
`DescribeBudget` and the verifications). What the provider demands (`Needs`,
`Refused`), its names and its etag check (`Commit`) are external. `overlapped`,
`glitched` and `cut` are history and say which circumstances a promise is
conditional on.

## 4. Runs

| run | instance | shows |
|---|---|---|
| neg_contended | 2 threads, 2 users, 1 draft, 6 requests | `HumanApproval`, `ConfidenceGate`, `AuditTruthful` under every overlap |
| neg_serial | 1 thread, 2 drafts, 2 users, 6 requests | implements `ApprovalGate` (`GateSpec`); `AuditInOrder`, though a crash may lose an event |
| runner_fleet | 2 dispatchers, 2 operators, 1 event, 2 attempts, 1 crash, 1 redelivery, 3 redrives | `NothingDropped`, `RemovedOnSuccess`, `DeadLetterReported`, `AttemptsReal`, `RerunsBounded` |
| runner_single | 1 dispatcher, 2 events, 2 crashes, 1 redelivery, 1 redrive | `PromiseSpec`, liveness included |
| consumer_fleet | 2 consumers, 1 object, 1 stray message, batches of 2, 2 faults | `StageOrder`, `AckedIsLogged`, `EntriesBounded`, and `Drained` under fairness |
| consumer_replay | 1 consumer, 1 upload, 1 fault | **violation** of `ReplayedSafely` |
| casework_team | 2 workers, plan of 3 claims, 1 reading and the synthesis, 1 crash, 1 amended document | `EvidenceGate`, `SynthesisSound`, `InboxTruthful`, `LossNeedsCrash`, `CheckpointTruthful`, and `CompletesUndisturbed` under fairness |
| casework_resume | 1 worker, 2 offline claims and the synthesis, 1 crash | **violation** of `CompletesAfterCrash` |
| ingestion_bucket | 2 workers, 2 documents, 5 contents, 3 jobs, 1 failure, live clients | `RoutedClean`, `QuarantineHolds`, `VerdictLossNeedsFailure`, `VersionsDistinct` |
| registry_fleet | 2 workers, 2 agents, 2 versions, 4 requests, 1 crash | `VersionRegistered`, `StrandedNeedsCrash`, `NamesWereCurrent`, `BuiltWereVetted` |
| gateway_corridor | 2 workers, 1 corridor, 4 rules, 3 requests, 2 hours, 2 policy changes, 1 crash | `BudgetHolds`, `SlotsAccounted`, `AnswersGoverned` |
| provision_project | 2 operators, 3 script runs, 2 faults, 2 outside changes, 3 budgets, 2 engines | `CapHeld`, `Idempotent`, `FileNamesLive`, and `PolicyKept` as an action property |

The last four and casework_team check `TypeOK` too, except ingestion_bucket. The
types of Negotiation, Runner, Consumer and Ingestion are proved and not run.
Every property of a passing run has a mutant of the code that TLC finds to break
it. The largest instances have about 2.5 million distinct states
(ingestion_bucket, two minutes on two cores).

### Bounds, and why they are enough

- `MaxRequests` (Negotiation): one full life of a draft is three requests; six
  are two overlapping lives, so every pair of calls of two requests on one
  draft meets in every order.
- `MaxAttempts = 2` tells the first attempt from the last, with both off-by-one
  neighbours of the last. `MaxCrashes`, `MaxRedeliveries` and `MaxRedrives` bound the
  environment: three redrives let two operators overlap on a letter after a
  third has already changed it.
- `MaxFaults = 2` (Consumer) covers one failure in the first pass and another in
  its replay. `MaxGenerations = 1`: a second generation has the same key and so
  behaves to the consumer as a redelivered message, which leases already give.
- Casework: the plan has an offline claim of two entities, a claim that cites
  what its workstream does not own, a denied reading, a candidate that converges
  with the first, and the synthesis, so that every branch of `finding_create` and
  of the synthesis is taken. Two workers give every overlap of two executions;
  one crash is enough to lose an escalation. `LossNeedsCrash` and
  `CheckpointTruthful` count crashes; the latter allows a live claim one copy for
  every step that makes it and every worker, and one for every crash.
- Ingestion: each layer has a content that only it condemns, and there is one
  without text and one of no format; three jobs are two revisions of a document
  and a link in every overlap.
- Registry: four requests are a publish, an approval, a rollback and a
  publication or a build around them. Gateway: limits 1 and "none", an open and
  a closed corridor; three requests in two hours overrun a limit of one twice.
- Provision: three runs are a first one, a rerun and a rival; two faults cut a
  run short and make a lookup of the rerun fail.
- The theorems hold with none of these instances: for any sets, any bounds.

Symmetry is used only in runs that check invariants or action properties, never
with liveness. Deadlock checking is off where the system may come to rest
because the budget of requests, crashes or uploads is spent; casework restarts
its run for ever and is checked for deadlock.

### Fairness

- `Runner!Fairness`: a dispatcher that is not killed goes on (its loop is plain
  sequential code), and an unacknowledged event is delivered, which is what
  at-least-once delivery means. Operators are under no obligation. Nothing
  assumes that handlers succeed: success and failure of an attempt are one
  disjunction, `Handle`, and the bounded loop alone brings the end. Crashes are
  bounded because a process killed at every dispatch settles nothing.
- `Consumer!Fairness`: a running consumer goes on, pulls while there is something
  to pull, and a lease ends. A consumer process stops when it has drained the
  subscription, at its deadline or at an exception (`run` in consumer.py), and the
  repository has no supervisor: `Drained` is a statement about a subscription for
  which a consumer is run again as long as messages wait.
  Nothing assumes that the deal is ever provisioned: `Drained` holds without,
  because the replay of a notification whose counter raised is a duplicate.
- `Casework!FairSpec`: a process that runs goes on, and a run that ended without
  its report is started again, which is what checkpoints are for.
- Negotiation, Ingestion, Registry, Gateway and Provision have no liveness
  property: their requests are one-shot, nothing in the code retries them, and
  humans need not act. What a request that died leaves behind is a safety
  property of theirs (`VerdictLossNeedsFailure`, `StrandedNeedsCrash`,
  `SlotsAccounted`, `Idempotent`).

## 5. Findings

Two have a run that exhibits them:

1. **consumer_replay** - "the idempotent dedupe path replays it safely"
   (consumer.py:82-85): after a failure behind the append the replay is a
   duplicate, so the notification is acknowledged and the document never ingested.
2. **casework_resume** - "no finding is created twice and no work is lost"
   (checkpoint.py:3-6): after a crash between a stored finding and its
   checkpoint, the resumed run derives the same id, is refused as a duplicate and
   raises, at every further attempt; the partition document and the escalation
   may be missing for good.

Disagreements met while modelling, visible in the models and without a run:

- Negotiation moves a draft "along no other edge" (drafts.py:9-11), but
  `_transition` (drafts.py:241) sets the document from the snapshot it read, and
  the creation is an unconditional set: overlapping requests can take a draft
  back, from pending_approval to draft for instance. What survives the race is
  proved: `HumanApproval`, `AuditTruthful`.
- Both runner statuses are "terminal" (runner.py:11-12), but two dispatchers that
  passed the check overwrite each other's marker (runner.py:89). With one
  dispatcher it is proved that this cannot happen (`TerminalAlone`).
- Revised versions are to be recognised (lineage.py:3-5), but the second upload
  under a name has the dedupe key of the first (bucket_notify.py:50) and is
  dropped before the lineage registry sees it.
- The consumer's `main` passes no ingestion hook, so the deployed consumer never
  ingests. The agent is invoked whatever the hook answers, and `data_room_read`
  does not ask the quarantine, although README.md:107, README.md:241 and
  docs/submission.md:22 say that quarantined documents never reach an agent.
- The catalogue and the registry "cannot drift" (infra/agent_registry.py:17-18),
  but a service that exists counts as published (lines 152-153), so a newer
  version never reaches the catalogue.
- Nothing but the seed sets the approved flag of a version document, so an
  upgraded agent can never be built, approved or not (base_agent.py:107;
  store.py:195-203 speaks of a gate that promotes it).
- `_verify_spans` documents that an unparseable document yields None
  (finding_create.py:125-134); `LocalParser` raises past the tool.
- `seed_defaults` is "idempotent" (policy.py:106-121) and overwrites a rule that
  was restricted since, which reopens the corridor.
- The rolling hour of policy.py:107-109 is a clock hour in decide.py: twice the
  limit fits into sixty minutes across the boundary, and a request stamped in a
  past hour resets the counter.
- A replay is to be reproducible (replay.py:12-15); a second replay into the same
  registry raises at its upgrade, the version being there.
- In the scripts: a failed and unchecked describe has a good budget deleted and
  recreated, or a second one made; a deployment overwrites the name of the engine
  before it, which is orphaned; a deletion by explicit name unlinks the file of
  another engine; a deletion that was cut before its unlink is refused when
  repeated; a failing listing of keys counts as no keys; uploads between the
  notification and the subscription are lost.

## 6. Proofs

All theorems hold for arbitrary sets of drafts, users, workers, events,
operators, objects, documents, corridors and consumers, and arbitrary bounds,
under the named assumptions of the modules: `None` is not a value of the other
kind, the numeric bounds are naturals, `MaxAttempts` and `BatchSize` are positive,
the sets of dispatchers, consumers and workers of a run are finite (their
cardinality is counted), and the tables of an instance (rules, contents, plan)
are of their types; a plan is a sequence of claims, readings and syntheses. TLC
evaluates every assumption in the runs of its module.

**NegotiationProofs.** Types need `JobInFlight` (a busy worker has a request).
`HumanApproval` is not inductive: a write takes the approver from a snapshot. The
invariant `IInv` adds that every stored document is backed by `asked`
(`DocsBacked`), that every approval request in flight is (`RequestsBacked`), that
every snapshot is and its next state is licensed by an allowed edge
(`SnapsBacked`), and that whoever is past the confidence gate has a finding above
the threshold (`AboveThreshold`). From `IInv` follow `ApprovalIsHuman`,
`ConfidenceGated` and `AuditIsTruthful`. `SerialRefinement` (ASSUME `OneWorker`) adds
that the snapshot of the one worker is the document itself (`Fresh`) and that a
document not yet approved names nobody (`Unnamed`); then every `Create` and `Write`
is a step of `ApprovalGate` and everything else a stutter. From there
`AuditIsInOrder` needs that the trail runs behind the document (`Trailing`): no
event in it is beyond the document's state, and while a transition is written and
not yet appended all of them are before it. Every write raises the document
(`WriteRises`), so what is appended is above all there is (`AppendInOrder`),
also when earlier events were lost with their requests.

**RunnerProofs.** `Busy` (whoever works has an event or a letter) with `TypeOK`;
`RemovalEarned` (an operator about to delete has seen the redrive succeed) for
`RemovalIsEarned`; `MarkersEarned` (a dispatcher about to write a marker has a run
or a letter to show) for `EventsKept`; `AttemptsBacked` (what an operator has read lies
between the dispatcher's budget and what the failures so far allow, and one that
is about to bump has failed itself) for
`AttemptsAreReal`; `ReportsBacked` (reports written plus reports pending are no
more than the letters) for `ReportsAreBacked`. With ASSUME `OneDispatcher`, `Unsettled`
(the marker of an event at work is still absent) gives `TerminalAlone` and
`PromiseKeptAlone`: the safety part of `DispatchPromise` is implemented step by step.

`RerunsAreBounded` holds for any number of dispatchers. Its invariant `CostInv`
has two halves. While an event has no marker, each of its runs and letters was
a crash's or is that of a dispatcher about to write the marker (`Settling`). From
the marker on the check lets nobody pass, so only the dispatchers that were past
it can add one each (`Due`), and nobody is in both sets (`ManyAsWorkers`).
`DispatchEnds` is the variant behind the liveness of the promise: the calls a
dispatch has left (`CallsLeft`) are a natural number that each of its calls
lowers and that nobody else raises. That it makes its calls at all is fairness,
and stays with TLC.

**ConsumerProofs.** `Holding` (a consumer past parsing holds an upload) with
`TypeOK`; `AcksBacked` (every upload a consumer will acknowledge has its key
logged) for `AcknowledgedIsLogged`; `StagesLead` (each counter plus the consumers
about to raise it is at most the stage before) and `HookedLogged` for
`StagesInOrder`; `RacesBounded` (the entries of a key plus the consumers about to
append one are at most the number of consumers: a first entry shuts the check for
everyone who has not passed it yet) for `RacesAreBounded`.

**IngestionProofs.** `Ready` (what a worker holds by the call it has come to) with
the types. `RoutedIsClean` strengthens with what a worker past a screen has
passed: past the tripwire the content is not poisoned, past armor not
condemned; the answers of the models are arbitrary throughout.
`QuarantineIsKept` adds what a worker has written on its way to the announcement
(`Sealed`), and that no step takes a mark back (`MarksStay`).
`RevisionsAreDistinct` adds that the version about to be registered is the one after
what was read (`Numbered`) and that no registered version exceeds the document's,
unless writes have raced (`Below`).
`VerdictLossIsPaidFor` traces every job to its registration (`Traced`: ids are
handed out once, and the registration under the job's id is the one it has in
hand). A job that returns after registering has its verdict in the log
(`ReturnSettles`), so only a failure adds to the lost ones, and one at that.

**RegistryProofs.** `SayInv` adds to the three properties what a request knows
from its reads (`Knows`): the version it is about to point at has a document, and
what it will name as rollback target or publish was pointed at once. No read is
assumed to be still true.
`StrandedIsPaidFor` cannot count what the property counts: a request in flight
excuses what another one has stranded, and its end would bring it back. The
invariant `StrandInv` excuses less. A version left behind is excused only by a
request about to point the manifest at that very version (`Pointing`), an agent
without its seeded version only by the seed that created it (`Seeding`); these
counts (`Left`, `Unseeded`) rise with a crash and with nothing else, and bound
the property's.

**GatewayProofs.** `RecordInv` ties a request to the log by the call it has come
to: silent before its audit, an ALLOW without a DENY while it is answered, and a
rule of `granted` behind every step. `BudgetInv` counts (`Counted`): in a
corridor nobody has `overtaken`, the counter is the number of slots taken in its
window, and none is taken in a later hour.
`SlotInv` bounds the slots whose request is gone without an ALLOW by the crashes.

**CaseworkProofs.** The types need the stage of a worker to fit its step of the
plan (`StageInv`). `CaseInv` is one invariant behind four properties, because each
leans on the others: every stored finding is a claim's that the tool let through
or a synthesis of such claims (`Claimed`, `Synthesized`), and ids are not shared
(`StoreInv`); the finding in hand is the one of the step, is stored once its
worker is past the store, is in its partition before the inbox and in the inbox
before the notification (`HandInv`); what a synthesis has collected is stored,
covers the workstreams read so far and flags the entity (`LinkInv`); and a
checkpoint stands for what its step had to leave behind (`CheckpointInv`).
Stability is proved once: no step takes anything back (`Grows`, which speaks of
the id and the severity of a finding, since a stored synthesis may be written
over by one under the same id), so per action only what its own worker knows
is left. `EvidenceIsGated`, `SynthesisIsSound`
and `InboxIsTruthful` follow without counting.
`LossIsPaidFor` counts orphans: findings to be escalated that are not in the
inbox and that nobody carries on from the store to the inbox (`Carried`). A worker
whose id was taken is in flight too, and excuses the property but not the orphan,
so that orphans only come by crashes. `CheckpointIsTruthful` counts copies of a
live claim against the passes of workers through its steps (`Made`): storing uses
up a pass that was not made, and a crash before the checkpoint gives back one.

**ProvisionProofs.** `ControlInv`: a run is at a step of its script, and two runs of
one family are an overlap. `CapHeld` and `FileNamesLive` follow from it with the
engine a deployment is about to write down; `PolicyKept` from `ReadOnce`: a policy
that was read is the current one, or its etag is of the past and the write is
refused. `RerunsAreIdempotent` has the longest argument: resources only come, so
what a run has passed in its plan is there (`Passed`) and what the next creation
needs is met (`NeedsMet`); what it is about to make is missing unless a lookup
failed (`Missing`), since two runs with a plan want different resources
(`WantedApart`); a bootstrap at the cap holds one that is there, or makes one when
there is none (`Capping`, `OneCap`). So nothing is refused, and nothing is doubled.

**Only model-checked.** Every invariant and the action property that a passing
run checks are stated by a theorem, and so are the refinement `GateSpec` and the
safety part of `PromiseSpec`. Liveness under fairness stays with TLC: `Drained`,
`CompletesUndisturbed` and the liveness of `PromiseSpec` would need ENABLED, which
the prover does not reason about; of the latter, `DispatchEnds` proves the part
that does without. `GateSpec`, `AuditInOrder` and the promise are proved for one
worker, as they are checked: with several they do not hold (section 5). The
violations are counterexamples of TLC. Every inductive invariant above was
checked by TLC on the instance of its property before it was proved.

## 7. Limits of the models

Firestore calls are atomic and strongly consistent, as the service documents for
single-document reads and writes, queries and transactions. A call that raises
has no effect in the models; one that takes effect and then raises is the crash
right after it. Texts, timestamps, backoff lengths and tracing are left out: no
property is about them.

Simplifications inside the modelled components:

- Casework: a live agent's finding has a fresh uuid as id. A second critical
  synthesis for an entity appears when a new contributor joins, although the
  docstring speaks of one; the model has it. Two workers may both remember an
  entity. An offline claim whose revised document keeps its marker would be
  another claim and is left out. Memory Bank is a write that may or may not have
  happened. `score_finding` is a pure function without a caller.
- Ingestion: the quarantine status is never cleared by a later clean version, as
  in the code. Personal data spans, class hints and chunks are payload. The
  offline sentinel has no length check; the run uses live clients, whose
  behaviours include those of the offline ones on texts that are not too long.
  That a malformed answer of the sentinel about personal data counts as none
  (sentinel.py) is not modelled, and chunks of spreadsheets with blank rows are
  not substrings of the text (chunking.py:5-6), which no module states.
- Consumer: the hook and the agent are single calls; `provision_deal` is one
  step; a message that is not JSON would raise inside the generator on every
  delivery and is a hazard without a property.
- Gateway: a malformed identity is answered 422 by the route and leaves no trace;
  patterns that recognise raw artifacts decide a Boolean of the request.
- Registry: the existence check that the replay's upgrade makes before publishing
  is left out; it only refuses earlier.
- Provision: the provider's rules are what the scripts rely on; checks that only
  read (credentials, the organization) are left out.

Not modelled, and why:

- Negotiation templates, risk scoring, identity parsing, human roles, the role
  filter: pure functions without state, with unit tests over their inputs.
- Loop guard: counters local to one loop; only its tests call it.
- Replay engine: a script of calls of the modelled components from one process;
  its upgrades, rollbacks and links are inputs of Registry and Ingestion.
- Dashboard data, documents and web client: they read and render; the endpoints
  that change state are those of Negotiation.
- Observability and compliance: spans around the modelled calls, configuration
  builders.
- `cloud_run.py` and `dashboard.py` of the deployment: command lines.
- Evaluation and red-team harness, scripts, data: measurement of the system and
  authoring of its data.

------------------------------ MODULE Gateway ------------------------------
(***************************************************************************)
(* The data gateway of one deal: decide of src/gateway/decide.py over the  *)
(* rules of src/gateway/policy.py, reached through POST /gateway/decide    *)
(* (src/gateway/app.py) or through the ask_agent tool of                   *)
(* src/agents/tools/gateway_query.py, which screens the question, asks the *)
(* responder and filters its answer (src/gateway/aggregate.py).            *)
(*                                                                         *)
(* Requests overlap.  The rate counter is the only transaction: the rule   *)
(* is read before it and, by the tool, once more after the answer, while   *)
(* rules are replaced at any time; the audit event follows the verdict in  *)
(* a call of its own, and a process may die in between.                    *)
(***************************************************************************)
EXTENDS Naturals, FiniteSets

CONSTANTS Corridors,     \* rule ids: a subject workstream and a target
          Rules,         \* the rules that may be stored: [purposes, shape, limit]
          Purposes,
          Corridor, Default,   \* the corridor that seed_defaults opens, and its rule
          Workers, None,
          MaxHour,       \* bound: the clock hours that pass
          MaxRequests,   \* bound: requests submitted
          MaxUpserts,    \* bound: changes of the policy
          MaxCrashes     \* bound: requests that die

Shapes == {"aggregate_only", "none"}
Rule   == [purposes : SUBSET Purposes, shape : Shapes, limit : Nat]

ASSUME GatewayAssumption ==
  /\ Rules \subseteq Rule
  /\ Corridor \in Corridors /\ Default \in Rules
  /\ None \notin Rules
  /\ MaxHour \in Nat /\ MaxRequests \in Nat /\ MaxUpserts \in Nat /\ MaxCrashes \in Nat

VARIABLES
  policy,      \* Corridors -> gateway_policy/{rule_id}, None if absent
  rate,        \* Corridors -> gateway_rate/{rule_id}, None if absent
  log,         \* the gateway.decision events
  hour,        \* the clock, in the hours that _window_start truncates it to
  pc, job,     \* Workers -> next call; the request in hand
  responses,   \* history: what callers were answered
  submitted, upserts, crashes,
  granted,     \* history: the rules each corridor has had
  spent,       \* history: the slots consumed
  overtaken    \* history: corridors whose counter went back to a past hour

vars == <<policy, rate, log, hour, pc, job, responses, submitted, upserts, crashes,
          granted, spent, overtaken>>

-----------------------------------------------------------------------------
Ids      == 1..MaxRequests
Hours    == 0..MaxHour
Verdicts == {"allow", "deny"}

\* tool: through ask_agent; foreign: the sender belongs to another deal;
\* artifact: the question asks for a raw artifact, which only the tool looks at.
Request == [id : Ids, corridor : Corridors, purpose : Purposes, hour : Hours,
            tool : BOOLEAN, foreign : BOOLEAN, artifact : BOOLEAN]

Counter  == [window : Hours, count : Nat]
Event    == [id : Ids, verdict : Verdicts]
Slot     == [id : Ids, corridor : Corridors, hour : Hours]
Job      == [request : Request, rule : Rules \cup {None}, verdict : Verdicts \cup {None},
             raw : BOOLEAN]
Response == [request : Request, verdict : Verdicts, raw : BOOLEAN]

ASSUME NoneAssumption == None \notin Counter \cup Job

Steps == {"idle", "screen", "policy", "consume", "audit", "respond", "filter", "block"}

TypeOK ==
  /\ policy \in [Corridors -> Rules \cup {None}]
  /\ rate \in [Corridors -> Counter \cup {None}]
  /\ log \subseteq Event
  /\ hour \in Hours
  /\ pc \in [Workers -> Steps]
  /\ job \in [Workers -> Job \cup {None}]
  /\ \A w \in Workers : (pc[w] = "idle") = (job[w] = None)
  /\ \A w \in Workers : pc[w] = "consume" => job[w].rule # None
  /\ responses \subseteq Response
  /\ submitted \in 0..MaxRequests /\ upserts \in 0..MaxUpserts /\ crashes \in 0..MaxCrashes
  /\ granted \in [Corridors -> SUBSET Rules]
  /\ spent \subseteq Slot
  /\ overtaken \subseteq Corridors

Init ==
  /\ policy = [c \in Corridors |-> None] /\ rate = [c \in Corridors |-> None]
  /\ log = {} /\ hour = 0
  /\ pc = [w \in Workers |-> "idle"] /\ job = [w \in Workers |-> None]
  /\ responses = {}
  /\ submitted = 0 /\ upserts = 0 /\ crashes = 0
  /\ granted = [c \in Corridors |-> {}] /\ spent = {} /\ overtaken = {}

-----------------------------------------------------------------------------
Goto(w, step) == pc' = [pc EXCEPT ![w] = step]
Drop(w)       == Goto(w, "idle") /\ job' = [job EXCEPT ![w] = None]

Decide(w, verdict) == Goto(w, "audit") /\ job' = [job EXCEPT ![w].verdict = verdict]

\* The request gets its answer; raw says whether it holds a raw artifact.
Answer(w, verdict, raw) ==
  /\ responses' = responses \cup {[request |-> job[w].request, verdict |-> verdict, raw |-> raw]}
  /\ Drop(w)

Audit(w, verdict) == log' = log \cup {[id |-> job[w].request.id, verdict |-> verdict]}

Submit(w, c, p, tool, foreign, artifact) ==
  /\ pc[w] = "idle"
  /\ submitted < MaxRequests
  /\ submitted' = submitted + 1
  /\ job' = [job EXCEPT ![w] =
       [request |-> [id |-> submitted + 1, corridor |-> c, purpose |-> p, hour |-> hour,
                     tool |-> tool, foreign |-> foreign, artifact |-> artifact],
        rule |-> None, verdict |-> None, raw |-> FALSE]]
  /\ Goto(w, IF tool THEN "screen" ELSE "policy")
  /\ UNCHANGED <<policy, rate, log, hour, responses, upserts, crashes, granted, spent, overtaken>>

(* POST /gateway/decide with a sender and a target that parse; any other   *)
(* is answered 422 and leaves no trace.  Nobody looks at its question.     *)
Post(w, c, p, foreign) == Submit(w, c, p, FALSE, foreign, FALSE)

(* The ask_agent tool, bound to a principal and a deal.                    *)
AskAgent(w, c, p, foreign, artifact) == Submit(w, c, p, TRUE, foreign, artifact)

\* screen_question raises ExtractionBlocked, whatever the purpose.
Prohibited(r) == r.artifact

\* enforce_response_shape lets the text of an answer through.
MayCross(rule, raw) == rule.shape # "none" /\ ~raw

(* screen_question, before any policy is read: a question for an artifact  *)
(* is blocked whatever its purpose.                                        *)
Screen(w) ==
  /\ pc[w] = "screen"
  /\ Goto(w, IF Prohibited(job[w].request) THEN "block" ELSE "policy")
  /\ UNCHANGED <<policy, rate, log, hour, job, responses, submitted, upserts, crashes,
                 granted, spent, overtaken>>

\* Mutant: the rule is taken to be there and to fit.
EvaluateUnlooked(w) ==
  LET r == job[w].request  rule == policy[r.corridor] IN
  /\ pc[w] = "policy"
  /\ IF r.foreign
     THEN Decide(w, "deny")
     ELSE Goto(w, "consume") /\ job' = [job EXCEPT ![w].rule = rule]
  /\ UNCHANGED <<policy, rate, log, hour, responses, submitted, upserts, crashes,
                 granted, spent, overtaken>>

(* _evaluate up to the rate limit: cross-deal, no rule, purpose, shape.    *)
(* A rule without a limit needs no slot.                                   *)
Evaluate(w) ==
  LET r == job[w].request  rule == policy[r.corridor] IN
  /\ pc[w] = "policy"
  /\ IF r.foreign \/ rule = None
     THEN Decide(w, "deny")
     ELSE IF r.purpose \notin rule.purposes \/ rule.shape = "none"
          THEN Decide(w, "deny")
          ELSE IF rule.limit = 0
               THEN Decide(w, "allow")
               ELSE Goto(w, "consume") /\ job' = [job EXCEPT ![w].rule = rule]
  /\ UNCHANGED <<policy, rate, log, hour, responses, submitted, upserts, crashes,
                 granted, spent, overtaken>>

\* The slots taken in the window of h, as the counter has it.
Used(c, h) == IF rate[c] # None /\ rate[c].window = h THEN rate[c].count ELSE 0

\* Take a slot of corridor c for the request in hand.
Take(w, c, h) ==
  /\ rate' = [rate EXCEPT ![c] = [window |-> h, count |-> Used(c, h) + 1]]
  /\ spent' = spent \cup {[id |-> job[w].request.id, corridor |-> c, hour |-> h]}
  /\ overtaken' = IF rate[c] # None /\ h < rate[c].window
                  THEN overtaken \cup {c} ELSE overtaken

\* Mutant: one slot too many.
ConsumeInclusive(w) ==
  LET c == job[w].request.corridor  h == job[w].request.hour IN
  /\ pc[w] = "consume"
  /\ IF Used(c, h) > job[w].rule.limit
     THEN Decide(w, "deny") /\ UNCHANGED <<rate, spent, overtaken>>
     ELSE Decide(w, "allow") /\ Take(w, c, h)
  /\ UNCHANGED <<policy, log, hour, responses, submitted, upserts, crashes, granted>>

\* Mutant: the slot is taken before the limit is looked at.
ConsumeFirst(w) ==
  LET c == job[w].request.corridor  h == job[w].request.hour IN
  /\ pc[w] = "consume"
  /\ Take(w, c, h)
  /\ Decide(w, IF Used(c, h) >= job[w].rule.limit THEN "deny" ELSE "allow")
  /\ UNCHANGED <<policy, log, hour, responses, submitted, upserts, crashes, granted>>

(* _consume_rate_budget, a transaction on the counter: the limit is that   *)
(* of the rule as it was read, the window the clock hour of the request's  *)
(* stamp, and a counter of any other hour starts again.                    *)
Consume(w) ==
  LET c == job[w].request.corridor  h == job[w].request.hour IN
  /\ pc[w] = "consume"
  /\ IF Used(c, h) >= job[w].rule.limit
     THEN Decide(w, "deny") /\ UNCHANGED <<rate, spent, overtaken>>
     ELSE Decide(w, "allow") /\ Take(w, c, h)
  /\ UNCHANGED <<policy, log, hour, responses, submitted, upserts, crashes, granted>>

(* _audit, for every verdict; then the HTTP route returns it, and the tool *)
(* goes on only with an ALLOW.                                             *)
AuditVerdict(w) ==
  LET verdict == job[w].verdict IN
  /\ pc[w] = "audit"
  /\ Audit(w, verdict)
  /\ IF job[w].request.tool /\ verdict = "allow"
     THEN Goto(w, "respond") /\ UNCHANGED <<job, responses>>
     ELSE Answer(w, verdict, FALSE)
  /\ UNCHANGED <<policy, rate, hour, submitted, upserts, crashes, granted, spent, overtaken>>

(* The responder of the target answers, or there is none (LookupError), or *)
(* it cannot compute: the ALLOW stands in the log and the slot is gone.    *)
Respond(w) ==
  /\ pc[w] = "respond"
  /\ \/ \E raw \in BOOLEAN :
          Goto(w, "filter") /\ job' = [job EXCEPT ![w].raw = raw]
     \/ Drop(w)
  /\ UNCHANGED <<policy, rate, log, hour, responses, submitted, upserts, crashes,
                 granted, spent, overtaken>>

\* Mutant: the answer is filtered only while the rule is still there.
FilterIfRuled(w) ==
  LET rule == policy[job[w].request.corridor] IN
  /\ pc[w] = "filter"
  /\ IF rule = None \/ MayCross(rule, job[w].raw)
     THEN Answer(w, "allow", job[w].raw)
     ELSE Goto(w, "block") /\ UNCHANGED <<job, responses>>
  /\ UNCHANGED <<policy, rate, log, hour, submitted, upserts, crashes, granted, spent, overtaken>>

(* The rule is read again and its shape enforced, whether or not it is the *)
(* rule that allowed the request: a rule that has vanished raises, a shape *)
(* of none or a raw artifact blocks the answer.                            *)
Filter(w) ==
  LET rule == policy[job[w].request.corridor] IN
  /\ pc[w] = "filter"
  /\ \/ rule = None /\ Drop(w) /\ UNCHANGED responses
     \/ /\ rule # None
        /\ IF MayCross(rule, job[w].raw)
           THEN Answer(w, "allow", job[w].raw)
           ELSE Goto(w, "block") /\ UNCHANGED <<job, responses>>
  /\ UNCHANGED <<policy, rate, log, hour, submitted, upserts, crashes, granted, spent, overtaken>>

\* Mutant: a blocked answer is withheld, and no verdict says so.
BlockSilently(w) ==
  /\ pc[w] = "block"
  /\ Answer(w, "deny", FALSE)
  /\ UNCHANGED <<policy, rate, log, hour, submitted, upserts, crashes, granted, spent, overtaken>>

(* _audit_block: a DENY, the second verdict of a request that was allowed. *)
Block(w) ==
  /\ pc[w] = "block"
  /\ Audit(w, "deny")
  /\ Answer(w, "deny", FALSE)
  /\ UNCHANGED <<policy, rate, hour, submitted, upserts, crashes, granted, spent, overtaken>>

-----------------------------------------------------------------------------
Upsert(c, rule) ==
  /\ upserts < MaxUpserts
  /\ upserts' = upserts + 1
  /\ policy' = [policy EXCEPT ![c] = rule]
  /\ granted' = [granted EXCEPT ![c] = @ \cup {rule}]
  /\ UNCHANGED <<rate, log, hour, pc, job, responses, submitted, crashes, spent, overtaken>>

(* seed_defaults: an upsert like any other, which replaces whatever rule   *)
(* the corridor has been given since.                                      *)
SeedDefaults == Upsert(Corridor, Default)

(* Nothing in the program deletes a rule; somebody may, and ask expects it.*)
Delete(c) ==
  /\ policy[c] # None
  /\ upserts < MaxUpserts
  /\ upserts' = upserts + 1
  /\ policy' = [policy EXCEPT ![c] = None]
  /\ UNCHANGED <<rate, log, hour, pc, job, responses, submitted, crashes, granted, spent, overtaken>>

Tick ==
  /\ hour < MaxHour
  /\ hour' = hour + 1
  /\ UNCHANGED <<policy, rate, log, pc, job, responses, submitted, upserts, crashes,
                 granted, spent, overtaken>>

(* A call raises or the process dies.                                      *)
Crash(w) ==
  /\ pc[w] # "idle"
  /\ crashes < MaxCrashes
  /\ crashes' = crashes + 1
  /\ Drop(w)
  /\ UNCHANGED <<policy, rate, log, hour, responses, submitted, upserts, granted, spent, overtaken>>

Step(w) ==
  \/ Screen(w) \/ Evaluate(w) \/ Consume(w) \/ AuditVerdict(w)
  \/ Respond(w) \/ Filter(w) \/ Block(w)

Next ==
  \/ \E w \in Workers :
       \/ \E c \in Corridors, p \in Purposes, foreign \in BOOLEAN :
            \/ Post(w, c, p, foreign)
            \/ \E artifact \in BOOLEAN : AskAgent(w, c, p, foreign, artifact)
       \/ Step(w)
       \/ Crash(w)
  \/ SeedDefaults
  \/ \E c \in Corridors : Delete(c) \/ \E rule \in Rules : Upsert(c, rule)
  \/ Tick

Spec == Init /\ [][Next]_vars

-----------------------------------------------------------------------------
(* PROPERTIES *)

Taken(c, h) == {s \in spent : s.corridor = c /\ s.hour = h}

(* In one clock hour a corridor allows no more requests than the most      *)
(* generous rule it has had, under overlapping requests and while the      *)
(* limit changes, as long as no request that was stamped in a past hour    *)
(* takes its slot after one of a later hour has.                           *)
BudgetHolds ==
  \A c \in Corridors \ overtaken, h \in Hours :
    Taken(c, h) # {} => \E rule \in granted[c] : Cardinality(Taken(c, h)) <= rule.limit

HeldBy(id) == {w \in Workers : job[w] # None /\ job[w].request.id = id}

(* A slot is spent on an ALLOW that the log shows, or its request is under *)
(* way, or that request has died: one crash, one slot.  A denied request   *)
(* costs the corridor nothing.                                             *)
SlotsAccounted ==
  Cardinality({s \in spent : /\ [id |-> s.id, verdict |-> "allow"] \notin log
                             /\ HeldBy(s.id) = {}}) <= crashes

(* Whatever a caller is told is what the log says last of its request: a   *)
(* DENY has a DENY there, an ALLOW has an ALLOW and no later DENY; and an  *)
(* ALLOW is one that some rule of the corridor grants to a member of the   *)
(* deal, with an answer that holds no raw artifact, although the rule may  *)
(* have been replaced or have vanished between the verdict and the answer. *)
AnswersGoverned ==
  \A a \in responses :
    /\ [id |-> a.request.id, verdict |-> a.verdict] \in log
    /\ a.verdict = "allow" =>
         /\ [id |-> a.request.id, verdict |-> "deny"] \notin log
         /\ ~a.request.foreign /\ ~a.request.artifact /\ ~a.raw
         /\ \E rule \in granted[a.request.corridor] :
              a.request.purpose \in rule.purposes /\ rule.shape # "none"
=============================================================================

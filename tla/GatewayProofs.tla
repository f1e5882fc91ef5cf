---------------------------- MODULE GatewayProofs ----------------------------
(***************************************************************************)
(* Proofs about Gateway, for any corridors, rules, purposes and workers    *)
(* and any number of requests, changes of the policy, hours and crashes.   *)
(***************************************************************************)
EXTENDS Gateway, FiniteSetTheorems, TLAPS

USE DEF Steps, Verdicts

-----------------------------------------------------------------------------
(* TYPE CORRECTNESS                                                        *)

(* What is audited is a verdict.                                           *)
Decided(w) == pc[w] = "audit" => job[w].verdict \in Verdicts

TypeInv == TypeOK /\ \A w \in Workers : Decided(w)

LEMMA InitTypes == Init => TypeInv
<1> SUFFICES ASSUME Init PROVE TypeInv
  OBVIOUS
<1>1. TypeOK
  BY GatewayAssumption DEF Init, TypeOK, Hours
<1> QED BY <1>1 DEF TypeInv, Init, Decided

LEMMA BusyHasJob ==
  ASSUME TypeOK, NEW w \in Workers, pc[w] # "idle"
  PROVE  job[w] \in Job /\ job[w] # None
  BY NoneAssumption DEF TypeOK

(* What every worker may do, and what happens around them.                 *)
Ask(w) ==
  \E c \in Corridors, p \in Purposes, tool \in BOOLEAN, foreign \in BOOLEAN, artifact \in BOOLEAN :
    (tool \/ ~artifact) /\ Submit(w, c, p, tool, foreign, artifact)

Around ==
  \/ \E c \in Corridors : Delete(c) \/ \E rule \in Rules : Upsert(c, rule)
  \/ Tick

LEMMA NextCases ==
  ASSUME Next
  PROVE  (\E w \in Workers : Ask(w) \/ Step(w) \/ Crash(w)) \/ Around
<1>1. ASSUME NEW w \in Workers, NEW c \in Corridors, NEW p \in Purposes, NEW foreign \in BOOLEAN,
             Post(w, c, p, foreign)
      PROVE  Ask(w)
  BY <1>1 DEF Post, Ask
<1>2. ASSUME NEW w \in Workers, NEW c \in Corridors, NEW p \in Purposes, NEW foreign \in BOOLEAN,
             NEW artifact \in BOOLEAN, AskAgent(w, c, p, foreign, artifact)
      PROVE  Ask(w)
  BY <1>2 DEF AskAgent, Ask
<1>3. SeedDefaults => Around
  BY GatewayAssumption DEF SeedDefaults, Around
<1> QED BY <1>1, <1>2, <1>3 DEF Next, Around

(* The next call of a worker and the job it then has are of their types.   *)
Moves(w) ==
  \E p \in Steps, j \in Job \cup {None} :
    /\ pc' = [pc EXCEPT ![w] = p] /\ job' = [job EXCEPT ![w] = j]
    /\ (p = "idle") = (j = None)
    /\ p = "consume" => j.rule # None
    /\ p = "audit" => j.verdict \in Verdicts

LEMMA GoMoves ==
  ASSUME NEW w \in Workers, NEW p \in Steps \ {"idle"}, NEW j \in Job,
         p = "consume" => j.rule # None, p = "audit" => j.verdict \in Verdicts,
         Goto(w, p), job' = [job EXCEPT ![w] = j]
  PROVE  Moves(w)
<1>1. pc' = [pc EXCEPT ![w] = p] /\ p \in Steps /\ j \in Job \cup {None}
  BY DEF Goto
<1>2. (p = "idle") = (j = None)
  BY NoneAssumption
<1> QED BY <1>1, <1>2, ZenonT(30) DEF Moves

LEMMA StayMoves ==
  ASSUME TypeInv, NEW w \in Workers, pc[w] # "idle",
         NEW p \in Steps \ {"idle", "consume", "audit"}, Goto(w, p), UNCHANGED job
  PROVE  Moves(w)
<1>1. job' = [job EXCEPT ![w] = job[w]] /\ job[w] \in Job
  BY BusyHasJob DEF TypeInv, TypeOK
<1> QED BY <1>1, GoMoves

LEMMA DropMoves == ASSUME NEW w \in Workers, Drop(w) PROVE Moves(w)
  BY DEF Drop, Goto, Moves

LEMMA DecideMoves ==
  ASSUME TypeInv, NEW w \in Workers, pc[w] # "idle", NEW verdict \in Verdicts, Decide(w, verdict)
  PROVE  Moves(w)
<1> DEFINE n == [job[w] EXCEPT !.verdict = verdict]
<1>1. job[w] \in Job
  BY BusyHasJob DEF TypeInv
<1>2. n \in Job /\ n.verdict \in Verdicts
  BY <1>1 DEF Job
<1>3. Goto(w, "audit") /\ job' = [job EXCEPT ![w] = n]
  BY DEF Decide
<1> HIDE DEF n
<1> QED BY <1>2, <1>3, GoMoves

LEMMA RuleMoves ==
  ASSUME TypeInv, NEW w \in Workers, pc[w] # "idle", NEW rule \in Rules, Goto(w, "consume"),
         job' = [job EXCEPT ![w].rule = rule]
  PROVE  Moves(w)
<1> DEFINE n == [job[w] EXCEPT !.rule = rule]
<1>1. job[w] \in Job
  BY BusyHasJob DEF TypeInv
<1>2. n \in Job /\ n.rule # None
  BY <1>1, GatewayAssumption DEF Job
<1>3. job' = [job EXCEPT ![w] = n]
  OBVIOUS
<1> HIDE DEF n
<1> QED BY <1>2, <1>3, GoMoves

LEMMA RawMoves ==
  ASSUME TypeInv, NEW w \in Workers, pc[w] # "idle", NEW raw \in BOOLEAN, Goto(w, "filter"),
         job' = [job EXCEPT ![w].raw = raw]
  PROVE  Moves(w)
<1> DEFINE n == [job[w] EXCEPT !.raw = raw]
<1>1. job[w] \in Job
  BY BusyHasJob DEF TypeInv
<1>2. n \in Job
  BY <1>1 DEF Job
<1>3. job' = [job EXCEPT ![w] = n]
  OBVIOUS
<1> HIDE DEF n
<1> QED BY <1>2, <1>3, GoMoves

(* A request in hand, as it is when it arrives.                            *)
NewRequest(c, p, tool, foreign, artifact) ==
  [id |-> submitted + 1, corridor |-> c, purpose |-> p, hour |-> hour,
   tool |-> tool, foreign |-> foreign, artifact |-> artifact]

LEMMA NewRequestTypes ==
  ASSUME TypeOK, submitted < MaxRequests, NEW c \in Corridors, NEW p \in Purposes,
         NEW tool \in BOOLEAN, NEW foreign \in BOOLEAN, NEW artifact \in BOOLEAN
  PROVE  NewRequest(c, p, tool, foreign, artifact) \in Request
<1>1. submitted + 1 \in Ids
  BY GatewayAssumption DEF TypeOK, Ids
<1> QED BY <1>1 DEF NewRequest, Request, TypeOK

NewJob(r) == [request |-> r, rule |-> None, verdict |-> None, raw |-> FALSE]

LEMMA SubmitMoves ==
  ASSUME TypeInv, NEW w \in Workers, NEW c \in Corridors, NEW p \in Purposes,
         NEW tool \in BOOLEAN, NEW foreign \in BOOLEAN, NEW artifact \in BOOLEAN,
         Submit(w, c, p, tool, foreign, artifact)
  PROVE  Moves(w)
<1> DEFINE r == NewRequest(c, p, tool, foreign, artifact)
<1>1. r \in Request
  BY NewRequestTypes DEF TypeInv, Submit
<1>2. job' = [job EXCEPT ![w] = NewJob(r)]
  BY DEF Submit, NewRequest, NewJob
<1>3. Goto(w, "screen") \/ Goto(w, "policy")
  BY DEF Submit
<1> HIDE DEF r
<1>4. NewJob(r) \in Job
  BY <1>1 DEF NewJob, Job
<1> QED BY <1>2, <1>3, <1>4, GoMoves

LEMMA ActMoves ==
  ASSUME TypeInv, NEW w \in Workers, Ask(w) \/ Step(w) \/ Crash(w)
  PROVE  Moves(w)
<1>1. CASE Ask(w)
  BY <1>1, SubmitMoves DEF Ask
<1>2. CASE Screen(w)
  BY <1>2, StayMoves DEF Screen
<1>3. CASE Evaluate(w)
  <2>1. job[w].request.corridor \in Corridors
    BY <1>3, BusyHasJob DEF Evaluate, TypeInv, Job, Request
  <2>2. policy[job[w].request.corridor] \in Rules \cup {None}
    BY <2>1 DEF TypeInv, TypeOK
  <2>3. \/ \E verdict \in Verdicts : Decide(w, verdict)
        \/ /\ policy[job[w].request.corridor] # None
           /\ Goto(w, "consume") /\ job' = [job EXCEPT ![w].rule = policy[job[w].request.corridor]]
    BY <1>3 DEF Evaluate
  <2> QED BY <1>3, <2>2, <2>3, DecideMoves, RuleMoves DEF Evaluate
<1>4. CASE Consume(w)
  BY <1>4, DecideMoves DEF Consume
<1>5. CASE AuditVerdict(w)
  BY <1>5, StayMoves, DropMoves DEF AuditVerdict, Answer
<1>6. CASE Respond(w)
  BY <1>6, RawMoves, DropMoves DEF Respond
<1>7. CASE Filter(w)
  BY <1>7, StayMoves, DropMoves DEF Filter, Answer
<1>8. CASE Block(w) \/ Crash(w)
  BY <1>8, DropMoves DEF Block, Answer, Crash
<1> QED BY <1>1, <1>2, <1>3, <1>4, <1>5, <1>6, <1>7, <1>8 DEF Step

LEMMA OthersStay ==
  ASSUME TypeInv, NEW w \in Workers, Ask(w) \/ Step(w) \/ Crash(w), NEW v \in Workers, v # w
  PROVE  pc'[v] = pc[v] /\ job'[v] = job[v]
<1>1. pc \in [Workers -> Steps] /\ job \in [Workers -> Job \cup {None}]
  BY DEF TypeInv, TypeOK
<1>2. Moves(w)
  BY ActMoves
<1> QED BY <1>1, <1>2 DEF Moves

(* What the request in hand is made of.                                    *)
LEMMA RequestTypes ==
  ASSUME TypeOK, NEW w \in Workers, pc[w] # "idle"
  PROVE  /\ job[w].request \in Request /\ job[w].request.id \in Ids
         /\ job[w].request.corridor \in Corridors /\ job[w].request.hour \in Hours
         /\ job[w].request.tool \in BOOLEAN /\ job[w].raw \in BOOLEAN
         /\ job[w].rule \in Rules \cup {None}
  BY BusyHasJob DEF Job, Request

LEMMA UsedType ==
  ASSUME TypeOK, NEW c \in Corridors, NEW h \in Hours
  PROVE  Used(c, h) \in Nat
<1>1. rate[c] # None => rate[c] \in Counter
  BY DEF TypeOK
<1> QED BY <1>1 DEF Used, Counter

LEMMA TakeTypes ==
  ASSUME TypeInv, NEW w \in Workers, pc[w] = "consume",
         Take(w, job[w].request.corridor, job[w].request.hour)
  PROVE  /\ rate' \in [Corridors -> Counter \cup {None}] /\ spent' \subseteq Slot
         /\ overtaken' \subseteq Corridors
<1> DEFINE c == job[w].request.corridor
           h == job[w].request.hour
           n == [window |-> h, count |-> Used(c, h) + 1]
           s == [id |-> job[w].request.id, corridor |-> c, hour |-> h]
<1>1. c \in Corridors /\ h \in Hours /\ job[w].request.id \in Ids
  BY RequestTypes DEF TypeInv
<1>2. n \in Counter
  BY <1>1, UsedType DEF TypeInv, Counter
<1>3. s \in Slot
  BY <1>1 DEF Slot
<1>4. /\ rate' = [rate EXCEPT ![c] = n] /\ spent' = spent \cup {s}
      /\ overtaken' \in {overtaken, overtaken \cup {c}}
  BY DEF Take
<1> HIDE DEF n, s, c, h
<1> QED BY <1>1, <1>2, <1>3, <1>4 DEF TypeInv, TypeOK

(* The stores and histories stay of their types.                           *)
Stores ==
  /\ policy' \in [Corridors -> Rules \cup {None}]
  /\ rate' \in [Corridors -> Counter \cup {None}]
  /\ log' \subseteq Event /\ hour' \in Hours /\ responses' \subseteq Response
  /\ submitted' \in 0..MaxRequests /\ upserts' \in 0..MaxUpserts /\ crashes' \in 0..MaxCrashes
  /\ granted' \in [Corridors -> SUBSET Rules]
  /\ spent' \subseteq Slot /\ overtaken' \subseteq Corridors

LEMMA AuditTypes ==
  ASSUME TypeInv, NEW w \in Workers, pc[w] # "idle", NEW verdict \in Verdicts, Audit(w, verdict)
  PROVE  log' \subseteq Event
  BY RequestTypes DEF TypeInv, TypeOK, Audit, Event

LEMMA AnswerTypes ==
  ASSUME TypeInv, NEW w \in Workers, pc[w] # "idle", NEW verdict \in Verdicts, NEW raw \in BOOLEAN,
         Answer(w, verdict, raw)
  PROVE  responses' \subseteq Response
  BY RequestTypes DEF TypeInv, TypeOK, Answer, Response

LEMMA ActStores ==
  ASSUME TypeInv, NEW w \in Workers, Ask(w) \/ Step(w) \/ Crash(w)
  PROVE  Stores
<1> USE DEF TypeInv, Stores
<1>1. CASE Ask(w)
  BY <1>1, GatewayAssumption DEF TypeOK, Ask, Submit
<1>2. CASE Screen(w) \/ Evaluate(w) \/ Respond(w)
  BY <1>2 DEF TypeOK, Screen, Evaluate, Respond
<1>3. CASE Consume(w)
  BY <1>3, TakeTypes DEF TypeOK, Consume
<1>4. CASE AuditVerdict(w)
  <2>1. pc[w] # "idle" /\ job[w].verdict \in Verdicts /\ Audit(w, job[w].verdict) /\ FALSE \in BOOLEAN
    BY <1>4 DEF AuditVerdict, Decided
  <2>2. log' \subseteq Event
    BY <2>1, AuditTypes
  <2>3. responses' \subseteq Response
    BY <1>4, <2>1, AnswerTypes DEF AuditVerdict, TypeOK
  <2> QED BY <1>4, <2>2, <2>3 DEF TypeOK, AuditVerdict
<1>5. CASE Filter(w)
  <2>1. pc[w] # "idle" /\ job[w].raw \in BOOLEAN
    BY <1>5, RequestTypes DEF Filter
  <2>2. responses' \subseteq Response
    BY <1>5, <2>1, AnswerTypes DEF Filter, TypeOK
  <2> QED BY <1>5, <2>2 DEF TypeOK, Filter
<1>6. CASE Block(w)
  <2>1. pc[w] # "idle" /\ FALSE \in BOOLEAN /\ "deny" \in Verdicts
    BY <1>6 DEF Block
  <2>2. log' \subseteq Event /\ responses' \subseteq Response
    BY <1>6, <2>1, AuditTypes, AnswerTypes DEF Block
  <2> QED BY <1>6, <2>2 DEF TypeOK, Block
<1>7. CASE Crash(w)
  BY <1>7, GatewayAssumption DEF TypeOK, Crash
<1> QED BY <1>1, <1>2, <1>3, <1>4, <1>5, <1>6, <1>7 DEF Step

LEMMA AroundStores == ASSUME TypeInv, Around PROVE Stores /\ UNCHANGED <<pc, job>>
<1>1. ASSUME NEW c \in Corridors, Delete(c) PROVE Stores
  BY <1>1, GatewayAssumption DEF TypeInv, TypeOK, Delete, Stores
<1>2. ASSUME NEW c \in Corridors, NEW rule \in Rules, Upsert(c, rule) PROVE Stores
  BY <1>2, GatewayAssumption DEF TypeInv, TypeOK, Upsert, Stores
<1>3. CASE Tick
  BY <1>3, GatewayAssumption DEF TypeInv, TypeOK, Tick, Stores, Hours
<1>4. UNCHANGED <<pc, job>>
  BY DEF Around, Delete, Upsert, Tick
<1> QED BY <1>1, <1>2, <1>3, <1>4 DEF Around

LEMMA TypesStep == TypeInv /\ [Next]_vars => TypeInv'
<1> SUFFICES ASSUME TypeInv, [Next]_vars PROVE TypeInv'
  OBVIOUS
<1>1. CASE UNCHANGED vars
  BY <1>1 DEF TypeInv, TypeOK, Decided, vars
<1>2. CASE Around
  BY <1>2, AroundStores DEF TypeInv, TypeOK, Decided, Stores
<1>3. ASSUME NEW w \in Workers, Ask(w) \/ Step(w) \/ Crash(w) PROVE TypeInv'
  <2>1. Moves(w) /\ Stores
    BY <1>3, ActMoves, ActStores
  <2>2. /\ pc' \in [Workers -> Steps] /\ job' \in [Workers -> Job \cup {None}]
        /\ \A v \in Workers :
             /\ (pc'[v] = "idle") = (job'[v] = None)
             /\ pc'[v] = "consume" => job'[v].rule # None
             /\ pc'[v] = "audit" => job'[v].verdict \in Verdicts
    BY <2>1 DEF Moves, TypeInv, TypeOK, Decided
  <2> QED BY <2>1, <2>2 DEF TypeInv, TypeOK, Decided, Stores
<1> QED BY <1>1, <1>2, <1>3, NextCases

(* The types, and what a request has decided by the call it has come to.   *)
THEOREM TypesAlways == Spec => []TypeInv
<1>1. TypeInv /\ [Next]_vars => TypeInv'
  BY TypesStep
<1> QED BY InitTypes, <1>1, PTL DEF Spec

(* Every store, every request under way and every history of the gateway   *)
(* is of its type: no request reaches the rate counter without a rule.     *)
THEOREM TypeCorrect == Spec => []TypeOK
<1>1. TypeInv => TypeOK
  BY DEF TypeInv
<1> QED BY TypesAlways, <1>1, PTL

-----------------------------------------------------------------------------
(* THE RECORD OF A REQUEST                                                 *)

Busy(w) == pc[w] # "idle"
Id(w)   == job[w].request.id

Entry(id, verdict) == [id |-> id, verdict |-> verdict]

(* A rule grants what a request asks for.                                  *)
Grants(rule, r) == r.purpose \in rule.purposes /\ rule.shape # "none"

Granted(r) == ~r.foreign /\ ~r.artifact /\ \E rule \in granted[r.corridor] : Grants(rule, r)

(* A request is one of those submitted, nobody has answered it, and no     *)
(* other worker holds it.                                                  *)
Own(w) ==
  Busy(w) => /\ Id(w) <= submitted
             /\ \A a \in responses : a.request.id # Id(w)
             /\ \A v \in Workers \ {w} : Busy(v) => Id(v) # Id(w)

(* Nothing is in the log before the audit, nothing spent before the        *)
(* counter, and what is spent is about to be logged or has been.           *)
Silent(w) == pc[w] \in {"screen", "policy", "consume", "audit"} => \A e \in log : e.id # Id(w)

Unpaid(w) == pc[w] \in {"screen", "policy", "consume"} => \A s \in spent : s.id # Id(w)

Accounted(w) ==
  Busy(w) /\ (\E s \in spent : s.id = Id(w)) =>
    Entry(Id(w), "allow") \in log \/ (pc[w] = "audit" /\ job[w].verdict = "allow")

(* What is allowed was granted; what is answered was allowed last.         *)
Sifted(w)  == pc[w] \in {"policy", "consume"} => ~job[w].request.artifact
Checked(w) == pc[w] = "consume" => /\ ~job[w].request.foreign
                                   /\ job[w].rule \in granted[job[w].request.corridor]
                                   /\ Grants(job[w].rule, job[w].request)
Upheld(w)  == pc[w] = "audit" /\ job[w].verdict = "allow" => Granted(job[w].request)
Standing(w) == pc[w] \in {"respond", "filter"} =>
  /\ Granted(job[w].request)
  /\ Entry(Id(w), "allow") \in log /\ Entry(Id(w), "deny") \notin log

Tracked(w) ==
  /\ Own(w) /\ Silent(w) /\ Unpaid(w) /\ Accounted(w)
  /\ Sifted(w) /\ Checked(w) /\ Upheld(w) /\ Standing(w)

(* Every record is of a request that was submitted, a rule in force has    *)
(* been granted, and no request has two slots.                             *)
Dated ==
  /\ \A e \in log : e.id <= submitted
  /\ \A s \in spent : s.id <= submitted
  /\ \A a \in responses : a.request.id <= submitted
InForce == \A c \in Corridors : policy[c] # None => policy[c] \in granted[c]
OneSlot == \A s, t \in spent : s.id = t.id => s = t

RecordInv ==
  /\ TypeInv /\ Dated /\ InForce /\ OneSlot /\ AnswersGoverned
  /\ \A w \in Workers : Tracked(w)

(* The counter of a corridor that no late request has set back holds the   *)
(* slots of its window, and no later hour has any.                         *)
Counted(c) ==
  c \notin overtaken =>
    /\ rate[c] = None => \A h \in Hours : Taken(c, h) = {}
    /\ rate[c] # None =>
         /\ Cardinality(Taken(c, rate[c].window)) = rate[c].count
         /\ \A h \in Hours : h > rate[c].window => Taken(c, h) = {}

BudgetInv ==
  /\ RecordInv /\ IsFiniteSet(spent) /\ BudgetHolds /\ \A c \in Corridors : Counted(c)
SlotInv == RecordInv /\ IsFiniteSet(spent) /\ SlotsAccounted

LEMMA InitRecord == Init => RecordInv
<1> SUFFICES ASSUME Init PROVE RecordInv
  OBVIOUS
<1>1. TypeInv
  BY InitTypes
<1>2. Dated /\ InForce /\ OneSlot /\ AnswersGoverned
  BY DEF Init, Dated, InForce, OneSlot, AnswersGoverned
<1>3. ASSUME NEW w \in Workers PROVE Tracked(w)
  BY DEF Init, Tracked, Own, Busy, Silent, Unpaid, Accounted, Sifted, Checked, Upheld, Standing
<1> QED BY <1>1, <1>2, <1>3 DEF RecordInv

(* A step of a worker writes under the id of its request and touches no    *)
(* rule, and the request stays the same until it is dropped.               *)
Writes(w) ==
  /\ log \subseteq log' /\ spent \subseteq spent' /\ responses \subseteq responses'
  /\ \A e \in log' : e \notin log => e.id = Id(w)
  /\ \A s \in spent' : s \notin spent => s.id = Id(w)
  /\ \A a \in responses' : a \notin responses => a.request.id = Id(w)
  /\ UNCHANGED <<policy, granted, submitted>>

LEMMA AuditWrites ==
  ASSUME NEW w \in Workers, NEW verdict, Audit(w, verdict)
  PROVE  log \subseteq log' /\ \A e \in log' : e \notin log => e.id = Id(w)
  BY DEF Audit, Id

LEMMA AnswerWrites ==
  ASSUME NEW w \in Workers, NEW verdict, NEW raw, Answer(w, verdict, raw)
  PROVE  responses \subseteq responses' /\ \A a \in responses' : a \notin responses => a.request.id = Id(w)
  BY DEF Answer, Id

LEMMA TakeWrites ==
  ASSUME NEW w \in Workers, NEW c, NEW h, Take(w, c, h)
  PROVE  spent \subseteq spent' /\ \A s \in spent' : s \notin spent => s.id = Id(w)
  BY DEF Take, Id

LEMMA StepWrites ==
  ASSUME NEW w \in Workers, Step(w) \/ Crash(w)
  PROVE  Writes(w)
<1>1. CASE Screen(w) \/ Evaluate(w) \/ Respond(w) \/ Crash(w)
  BY <1>1 DEF Screen, Evaluate, Respond, Crash, Writes
<1>2. CASE Consume(w)
  BY <1>2, TakeWrites DEF Consume, Writes
<1>3. CASE AuditVerdict(w)
  BY <1>3, AuditWrites, AnswerWrites DEF AuditVerdict, Writes
<1>4. CASE Filter(w)
  BY <1>4, AnswerWrites DEF Filter, Writes
<1>5. CASE Block(w)
  BY <1>5, AuditWrites, AnswerWrites DEF Block, Writes
<1> QED BY <1>1, <1>2, <1>3, <1>4, <1>5 DEF Step

LEMMA StepKeepsRequest ==
  ASSUME TypeInv, NEW w \in Workers, Step(w) \/ Crash(w)
  PROVE  Busy(w) /\ (Busy(w)' => job'[w].request = job[w].request)
<1>1. pc \in [Workers -> Steps] /\ job \in [Workers -> Job \cup {None}]
  BY DEF TypeInv, TypeOK
<1>2. Busy(w)
  BY DEF Step, Crash, Screen, Evaluate, Consume, AuditVerdict, Respond, Filter, Block, Busy
<1>3. job[w] \in Job
  BY <1>2, BusyHasJob DEF TypeInv, Busy
<1>4. ASSUME Drop(w) PROVE ~Busy(w)'
  BY <1>1, <1>4 DEF Drop, Goto, Busy
<1>5. ASSUME NEW verdict, Decide(w, verdict) PROVE job'[w].request = job[w].request
  BY <1>1, <1>3, <1>5 DEF Decide, Job
<1>6. ASSUME NEW rule, job' = [job EXCEPT ![w].rule = rule] PROVE job'[w].request = job[w].request
  BY <1>1, <1>3, <1>6 DEF Job
<1>7. ASSUME NEW raw, job' = [job EXCEPT ![w].raw = raw] PROVE job'[w].request = job[w].request
  BY <1>1, <1>3, <1>7 DEF Job
<1>8. CASE Screen(w)
  BY <1>2, <1>8 DEF Screen
<1>9. CASE Evaluate(w)
  BY <1>2, <1>9, <1>5, <1>6 DEF Evaluate
<1>10. CASE Consume(w)
  BY <1>2, <1>10, <1>5 DEF Consume
<1>11. CASE AuditVerdict(w) \/ Filter(w) \/ Block(w) \/ Crash(w)
  BY <1>2, <1>11, <1>4 DEF AuditVerdict, Filter, Block, Crash, Answer
<1>12. CASE Respond(w)
  BY <1>2, <1>12, <1>4, <1>7 DEF Respond
<1> QED BY <1>8, <1>9, <1>10, <1>11, <1>12 DEF Step

(* So what is tracked of one request is not disturbed by another.          *)
LEMMA OthersTracked ==
  ASSUME RecordInv, NEW w \in Workers, Step(w) \/ Crash(w), NEW v \in Workers, v # w
  PROVE  Tracked(v)'
<1>1. pc'[v] = pc[v] /\ job'[v] = job[v]
  BY OthersStay DEF RecordInv
<1>2. Writes(w) /\ Busy(w) /\ (Busy(w)' => job'[w].request = job[w].request)
  BY StepWrites, StepKeepsRequest DEF RecordInv
<1>3. Tracked(v) /\ Tracked(w)
  BY DEF RecordInv
<1>4. Busy(v) => Id(v) # Id(w)
  BY <1>2, <1>3 DEF Tracked, Own
<1>5. ASSUME NEW u \in Workers \ {v}, Busy(v), Busy(u)' PROVE Id(u)' # Id(v)
  <2>1. CASE u = w
    BY <1>2, <1>4, <1>5, <2>1 DEF Id
  <2>2. CASE u # w
    <3>1. pc'[u] = pc[u] /\ job'[u] = job[u]
      BY <2>2, OthersStay DEF RecordInv
    <3> QED BY <1>3, <1>5, <3>1 DEF Tracked, Own, Busy, Id
  <2> QED BY <2>1, <2>2
<1>6. Busy(v)' = Busy(v) /\ Id(v)' = Id(v)
  BY <1>1 DEF Busy, Id
<1>7. Own(v)'
  BY <1>2, <1>3, <1>4, <1>5, <1>6 DEF Tracked, Own, Writes
<1>8. Silent(v)' /\ Unpaid(v)'
  BY <1>1, <1>2, <1>3, <1>4, <1>6 DEF Tracked, Silent, Unpaid, Writes, Busy
<1>9. Accounted(v)'
  BY <1>1, <1>2, <1>3, <1>4, <1>6 DEF Tracked, Accounted, Writes, Entry
<1>10. Sifted(v)' /\ Checked(v)' /\ Upheld(v)'
  BY <1>1, <1>2, <1>3 DEF Tracked, Sifted, Checked, Upheld, Granted, Grants, Writes
<1>11. Standing(v)'
  BY <1>1, <1>2, <1>3, <1>4, <1>6 DEF Tracked, Standing, Writes, Busy, Granted, Grants, Entry
<1> QED BY <1>7, <1>8, <1>9, <1>10, <1>11 DEF Tracked

(* What a step of the worker makes of its own job.                         *)
LEMMA DropIdles == ASSUME TypeInv, NEW w \in Workers, Drop(w) PROVE ~Busy(w)'
  BY DEF Drop, Goto, Busy, TypeInv, TypeOK

LEMMA GoesTo ==
  ASSUME TypeInv, NEW w \in Workers, NEW p, Goto(w, p)
  PROVE  pc'[w] = p
  BY DEF Goto, TypeInv, TypeOK

LEMMA DecideSets ==
  ASSUME TypeInv, NEW w \in Workers, Busy(w), NEW verdict, Decide(w, verdict)
  PROVE  pc'[w] = "audit" /\ job'[w].verdict = verdict /\ job'[w].request = job[w].request
<1>1. job[w] \in Job /\ pc'[w] = "audit"
  BY BusyHasJob, GoesTo DEF TypeInv, Busy, Decide
<1> QED BY <1>1 DEF Decide, TypeInv, TypeOK, Job

LEMMA RuleSets ==
  ASSUME TypeInv, NEW w \in Workers, Busy(w), NEW rule, job' = [job EXCEPT ![w].rule = rule]
  PROVE  job'[w].rule = rule /\ job'[w].request = job[w].request
<1>1. job[w] \in Job
  BY BusyHasJob DEF TypeInv, Busy
<1> QED BY <1>1 DEF TypeInv, TypeOK, Job

LEMMA OwnKept ==
  ASSUME RecordInv, NEW w \in Workers, Step(w) \/ Crash(w)
  PROVE  Own(w)'
<1> SUFFICES ASSUME Busy(w)' PROVE Own(w)'
  BY DEF Own
<1>1. Writes(w) /\ Busy(w) /\ Id(w)' = Id(w) /\ Own(w)
  BY StepWrites, StepKeepsRequest DEF RecordInv, Id, Tracked
<1>2. ~Drop(w)
  BY DropIdles DEF RecordInv
<1>3. UNCHANGED responses
  BY <1>2 DEF Step, Screen, Evaluate, Consume, AuditVerdict, Respond, Filter, Block, Crash, Answer
<1>4. ASSUME NEW v \in Workers \ {w} PROVE Busy(v)' = Busy(v) /\ Id(v)' = Id(v)
  BY <1>4, OthersStay DEF RecordInv, Busy, Id
<1> QED BY <1>1, <1>3, <1>4 DEF Own, Writes

(* A worker that has returned has nothing to keep track of.                *)
LEMMA IdleTracked == ASSUME NEW w \in Workers, ~Busy(w)' PROVE Tracked(w)'
  BY DEF Tracked, Own, Silent, Unpaid, Accounted, Sifted, Checked, Upheld, Standing, Busy

LEMMA ScreenTracked ==
  ASSUME RecordInv, NEW w \in Workers, Screen(w)
  PROVE  Tracked(w)'
<1>1. Own(w)' /\ Tracked(w) /\ TypeInv
  BY OwnKept DEF RecordInv, Step
<1>2. pc[w] = "screen" /\ UNCHANGED <<job, log, spent, granted>>
  BY DEF Screen
<1>3. pc'[w] = "block" \/ (pc'[w] = "policy" /\ ~job[w].request.artifact)
  BY <1>1, GoesTo DEF Screen, Prohibited
<1>4. Id(w)' = Id(w)
  BY <1>2 DEF Id
<1>5. Silent(w)' /\ Unpaid(w)' /\ Accounted(w)'
  BY <1>1, <1>2, <1>3, <1>4 DEF Tracked, Silent, Unpaid, Accounted, Busy, Entry
<1>6. Sifted(w)' /\ Checked(w)' /\ Upheld(w)' /\ Standing(w)'
  BY <1>2, <1>3 DEF Sifted, Checked, Upheld, Standing
<1> QED BY <1>1, <1>5, <1>6 DEF Tracked

LEMMA EvaluateTracked ==
  ASSUME RecordInv, NEW w \in Workers, Evaluate(w)
  PROVE  Tracked(w)'
<1> DEFINE r == job[w].request
           rule == policy[r.corridor]
<1>1. Own(w)' /\ Tracked(w) /\ TypeInv /\ Busy(w) /\ pc[w] = "policy"
  BY OwnKept DEF RecordInv, Step, Evaluate, Busy
<1>2. UNCHANGED <<log, spent, granted>>
  BY DEF Evaluate
<1>3. rule # None => rule \in granted[r.corridor]
  BY <1>1, RequestTypes DEF RecordInv, TypeInv, Busy, InForce
<1>4. ~r.artifact
  BY <1>1 DEF Tracked, Sifted
<1>5. CASE Decide(w, "deny")
  <2>1. pc'[w] = "audit" /\ job'[w].verdict = "deny" /\ job'[w].request = r
    BY <1>1, <1>5, DecideSets
  <2> QED BY <1>1, <1>2, <2>1 DEF Tracked, Silent, Unpaid, Accounted, Sifted, Checked, Upheld,
                                  Standing, Busy, Id
<1>6. CASE /\ Decide(w, "allow") /\ rule # None
           /\ ~r.foreign /\ r.purpose \in rule.purposes /\ rule.shape # "none"
  <2>1. pc'[w] = "audit" /\ job'[w].verdict = "allow" /\ job'[w].request = r
    BY <1>1, <1>6, DecideSets
  <2>2. rule \in granted'[r.corridor]
    BY <1>1, <1>2, <1>3, <1>4, <1>6
  <2>3. Upheld(w)'
    BY <1>4, <1>6, <2>1, <2>2 DEF Upheld, Granted, Grants
  <2> QED BY <1>1, <1>2, <2>1, <2>3 DEF Tracked, Silent, Unpaid, Accounted, Sifted, Checked,
                                        Standing, Busy, Id
<1>7. CASE /\ Goto(w, "consume") /\ job' = [job EXCEPT ![w].rule = rule] /\ rule # None
           /\ ~r.foreign /\ r.purpose \in rule.purposes /\ rule.shape # "none"
  <2>1. pc'[w] = "consume" /\ job'[w].rule = rule /\ job'[w].request = r
    BY <1>1, <1>7, GoesTo, RuleSets
  <2>2. rule \in granted'[r.corridor]
    BY <1>1, <1>2, <1>3, <1>4, <1>7
  <2>3. Checked(w)' /\ Sifted(w)'
    BY <1>4, <1>7, <2>1, <2>2 DEF Checked, Sifted, Grants
  <2> QED BY <1>1, <1>2, <2>1, <2>3 DEF Tracked, Silent, Unpaid, Accounted, Upheld,
                                        Standing, Busy, Id
<1> QED BY <1>5, <1>6, <1>7 DEF Evaluate

LEMMA ConsumeTracked ==
  ASSUME RecordInv, NEW w \in Workers, Consume(w)
  PROVE  Tracked(w)'
<1>1. Own(w)' /\ Tracked(w) /\ TypeInv /\ Busy(w) /\ pc[w] = "consume"
  BY OwnKept DEF RecordInv, Step, Consume, Busy
<1>2. UNCHANGED <<log, granted>>
  BY DEF Consume
<1>3. ~job[w].request.artifact
  BY <1>1 DEF Tracked, Sifted
<1>4. CASE Decide(w, "deny") /\ UNCHANGED spent
  <2>1. pc'[w] = "audit" /\ job'[w].verdict = "deny" /\ job'[w].request = job[w].request
    BY <1>1, <1>4, DecideSets
  <2> QED BY <1>1, <1>2, <1>4, <2>1 DEF Tracked, Silent, Unpaid, Accounted, Sifted, Checked,
                                        Upheld, Standing, Busy, Id
<1>5. CASE Decide(w, "allow")
  <2>1. pc'[w] = "audit" /\ job'[w].verdict = "allow" /\ job'[w].request = job[w].request
    BY <1>1, <1>5, DecideSets
  <2>2. Upheld(w)'
    BY <1>1, <1>2, <1>3, <2>1 DEF Tracked, Checked, Upheld, Granted
  <2> QED BY <1>1, <1>2, <2>1, <2>2 DEF Tracked, Silent, Unpaid, Accounted, Sifted, Checked,
                                        Standing, Busy, Id
<1> QED BY <1>4, <1>5 DEF Consume

LEMMA AuditTracked ==
  ASSUME RecordInv, NEW w \in Workers, AuditVerdict(w)
  PROVE  Tracked(w)'
<1>1. Own(w)' /\ Tracked(w) /\ TypeInv /\ Busy(w) /\ pc[w] = "audit"
  BY OwnKept DEF RecordInv, Step, AuditVerdict, Busy
<1>2. CASE Drop(w)
  BY <1>1, <1>2, DropIdles, IdleTracked
<1>3. CASE job[w].verdict = "allow" /\ Goto(w, "respond") /\ UNCHANGED job
  <2>1. pc'[w] = "respond" /\ UNCHANGED <<job, granted>>
    BY <1>1, <1>3, GoesTo DEF AuditVerdict
  <2>2. log' = log \cup {Entry(Id(w), "allow")}
    BY <1>3 DEF AuditVerdict, Audit, Entry, Id
  <2>3. Entry(Id(w), "deny") \notin log
    BY <1>1 DEF Tracked, Silent, Entry
  <2>4. Entry(Id(w), "deny") # Entry(Id(w), "allow")
    BY DEF Entry
  <2>5. Entry(Id(w), "allow") \in log' /\ Entry(Id(w), "deny") \notin log'
    BY <2>2, <2>3, <2>4
  <2>6. Granted(job[w].request)
    BY <1>1, <1>3 DEF Tracked, Upheld
  <2>7. Standing(w)'
    BY <2>1, <2>5, <2>6 DEF Standing, Granted, Grants, Id, Entry
  <2>8. Accounted(w)'
    BY <2>1, <2>5 DEF Accounted, Id, Entry
  <2> QED BY <1>1, <2>1, <2>7, <2>8 DEF Tracked, Silent, Unpaid, Sifted, Checked, Upheld
<1> QED BY <1>2, <1>3 DEF AuditVerdict, Answer

LEMMA RespondTracked ==
  ASSUME RecordInv, NEW w \in Workers, Respond(w)
  PROVE  Tracked(w)'
<1>1. Own(w)' /\ Tracked(w) /\ TypeInv /\ Busy(w) /\ pc[w] = "respond"
  BY OwnKept DEF RecordInv, Step, Respond, Busy
<1>2. CASE Drop(w)
  BY <1>1, <1>2, DropIdles, IdleTracked
<1>3. CASE Goto(w, "filter") /\ ~Drop(w)
  <2>1. pc'[w] = "filter" /\ UNCHANGED <<log, spent, granted>>
    BY <1>1, <1>3, GoesTo DEF Respond
  <2>2. job'[w].request = job[w].request
    BY <1>1, <2>1, StepKeepsRequest DEF Step, Busy
  <2>3. Standing(w)'
    BY <1>1, <2>1, <2>2 DEF Tracked, Standing, Granted, Grants, Id, Entry
  <2>4. Accounted(w)'
    BY <2>1, <2>2, <2>3 DEF Accounted, Standing
  <2> QED BY <1>1, <2>1, <2>3, <2>4 DEF Tracked, Silent, Unpaid, Sifted, Checked, Upheld
<1> QED BY <1>2, <1>3 DEF Respond

LEMMA FilterTracked ==
  ASSUME RecordInv, NEW w \in Workers, Filter(w)
  PROVE  Tracked(w)'
<1>1. Own(w)' /\ Tracked(w) /\ TypeInv /\ Busy(w) /\ pc[w] = "filter"
  BY OwnKept DEF RecordInv, Step, Filter, Busy
<1>2. CASE Drop(w)
  BY <1>1, <1>2, DropIdles, IdleTracked
<1>3. CASE Goto(w, "block") /\ UNCHANGED job
  <2>1. pc'[w] = "block" /\ UNCHANGED <<job, log, spent>>
    BY <1>1, <1>3, GoesTo DEF Filter
  <2>2. Accounted(w)'
    BY <1>1, <2>1 DEF Tracked, Standing, Accounted, Id, Entry
  <2> QED BY <1>1, <2>1, <2>2 DEF Tracked, Silent, Unpaid, Sifted, Checked, Upheld, Standing
<1> QED BY <1>2, <1>3 DEF Filter, Answer

LEMMA StepTracked ==
  ASSUME RecordInv, NEW w \in Workers, Step(w) \/ Crash(w)
  PROVE  Tracked(w)'
<1>1. CASE Block(w) \/ Crash(w)
  BY <1>1, DropIdles, IdleTracked DEF Block, Answer, Crash, RecordInv
<1> QED BY <1>1, ScreenTracked, EvaluateTracked, ConsumeTracked, AuditTracked, RespondTracked,
           FilterTracked DEF Step

(* The rest of the invariant, one conjunct at a time.                      *)
LEMMA StepDated ==
  ASSUME RecordInv, NEW w \in Workers, Step(w) \/ Crash(w)
  PROVE  Dated' /\ InForce'
<1>1. Writes(w) /\ Busy(w)
  BY StepWrites, StepKeepsRequest DEF RecordInv
<1>2. Id(w) <= submitted
  BY <1>1 DEF RecordInv, Tracked, Own
<1> QED BY <1>1, <1>2 DEF RecordInv, Dated, InForce, Writes

LEMMA StepOneSlot ==
  ASSUME RecordInv, NEW w \in Workers, Step(w) \/ Crash(w)
  PROVE  OneSlot'
<1>1. CASE UNCHANGED spent
  BY <1>1 DEF RecordInv, OneSlot
<1>2. CASE Consume(w) /\ Take(w, job[w].request.corridor, job[w].request.hour)
  <2> DEFINE s == [id |-> Id(w), corridor |-> job[w].request.corridor, hour |-> job[w].request.hour]
  <2>1. spent' = spent \cup {s} /\ s.id = Id(w)
    BY <1>2 DEF Take, Id
  <2>2. \A t \in spent : t.id # Id(w)
    BY <1>2 DEF RecordInv, Tracked, Unpaid, Consume
  <2> HIDE DEF s
  <2> QED BY <2>1, <2>2 DEF RecordInv, OneSlot
<1> QED
  BY <1>1, <1>2
  DEF Step, Screen, Evaluate, Consume, AuditVerdict, Respond, Filter, Block, Crash

Answered(a) ==
  /\ Entry(a.request.id, a.verdict) \in log
  /\ a.verdict = "allow" => Entry(a.request.id, "deny") \notin log /\ Granted(a.request) /\ ~a.raw

LEMMA GovernedIsAnswered == AnswersGoverned = \A a \in responses : Answered(a)
  BY DEF AnswersGoverned, Answered, Entry, Granted, Grants

LEMMA NewAnswer ==
  ASSUME RecordInv, NEW w \in Workers, NEW verdict, NEW raw, Answer(w, verdict, raw),
         UNCHANGED granted, Entry(Id(w), verdict) \in log',
         verdict = "allow" => Entry(Id(w), "deny") \notin log' /\ Granted(job[w].request) /\ ~raw,
         NEW a \in responses', a \notin responses
  PROVE  Answered(a)'
<1>1. a = [request |-> job[w].request, verdict |-> verdict, raw |-> raw]
  BY DEF Answer
<1>2. a.request = job[w].request /\ a.verdict = verdict /\ a.raw = raw
  BY <1>1
<1>3. Granted(job[w].request) => Granted(a.request)'
  BY <1>2 DEF Granted, Grants
<1>4. Entry(a.request.id, a.verdict)' = Entry(Id(w), verdict)
      /\ Entry(a.request.id, "deny")' = Entry(Id(w), "deny")
  BY <1>2 DEF Entry, Id
<1> QED BY <1>2, <1>3, <1>4 DEF Answered

LEMMA OldAnswer ==
  ASSUME RecordInv, NEW w \in Workers, Step(w) \/ Crash(w), NEW a \in responses
  PROVE  Answered(a)'
<1>1. Writes(w) /\ Busy(w) /\ Answered(a)
  BY StepWrites, StepKeepsRequest, GovernedIsAnswered DEF RecordInv
<1>2. a.request.id # Id(w)
  BY <1>1 DEF RecordInv, Tracked, Own
<1>3. Entry(a.request.id, "deny").id = a.request.id
  BY DEF Entry
<1>4. Entry(a.request.id, "deny") \notin log => Entry(a.request.id, "deny") \notin log'
  BY <1>1, <1>2, <1>3 DEF Writes
<1>5. Granted(a.request)' = Granted(a.request)
  BY <1>1 DEF Granted, Grants, Writes
<1>6. Entry(a.request.id, a.verdict)' = Entry(a.request.id, a.verdict)
      /\ Entry(a.request.id, "deny")' = Entry(a.request.id, "deny")
  BY DEF Entry
<1> QED BY <1>1, <1>4, <1>5, <1>6 DEF Answered, Writes

LEMMA StepGoverned ==
  ASSUME RecordInv, NEW w \in Workers, Step(w) \/ Crash(w)
  PROVE  AnswersGoverned'
<1> SUFFICES ASSUME NEW a \in responses' PROVE Answered(a)'
  BY DEF AnswersGoverned, Answered, Entry, Granted, Grants
<1>1. CASE a \in responses
  BY <1>1, OldAnswer
<1>2. CASE a \notin responses
  <2>1. Tracked(w) /\ TypeInv
    BY DEF RecordInv
  <2>2. UNCHANGED granted
    BY StepWrites DEF Writes
  <2>3. "allow" # "deny"
    OBVIOUS
  <2>4. CASE AuditVerdict(w)
    <3> DEFINE verdict == job[w].verdict
    <3>1. Answer(w, verdict, FALSE) /\ log' = log \cup {Entry(Id(w), verdict)} /\ pc[w] = "audit"
      BY <1>2, <2>4 DEF AuditVerdict, Audit, Entry, Id
    <3>2. Entry(Id(w), "deny") \notin log
      BY <2>1, <3>1 DEF Tracked, Silent, Entry
    <3>3. verdict = "allow" => Entry(Id(w), "deny") # Entry(Id(w), verdict) /\ Granted(job[w].request)
      BY <2>1, <3>1 DEF Tracked, Upheld, Entry
    <3> HIDE DEF verdict
    <3> QED BY <1>2, <2>2, <3>1, <3>2, <3>3, NewAnswer
  <2>5. CASE Filter(w)
    <3>1. Answer(w, "allow", job[w].raw) /\ ~job[w].raw /\ log' = log /\ pc[w] = "filter"
      BY <1>2, <2>5 DEF Filter, MayCross
    <3>2. /\ Entry(Id(w), "allow") \in log' /\ Entry(Id(w), "deny") \notin log'
          /\ Granted(job[w].request)
      BY <2>1, <3>1 DEF Tracked, Standing
    <3> QED BY <1>2, <2>2, <3>1, <3>2, NewAnswer
  <2>6. CASE Block(w)
    <3>1. Answer(w, "deny", FALSE) /\ Entry(Id(w), "deny") \in log'
      BY <2>6 DEF Block, Audit, Entry, Id
    <3> QED BY <1>2, <2>2, <2>3, <3>1, NewAnswer
  <2>7. CASE Screen(w) \/ Evaluate(w) \/ Consume(w) \/ Respond(w) \/ Crash(w)
    BY <1>2, <2>7 DEF Screen, Evaluate, Consume, Respond, Crash
  <2> QED BY <2>4, <2>5, <2>6, <2>7 DEF Step
<1> QED BY <1>1, <1>2

(* A request that arrives is nobody else's and has left no record.         *)
LEMMA AskRecord ==
  ASSUME RecordInv, NEW w \in Workers, Ask(w)
  PROVE  RecordInv'
<1>1. PICK c \in Corridors, p \in Purposes, tool \in BOOLEAN, foreign \in BOOLEAN,
           artifact \in BOOLEAN :
        (tool \/ ~artifact) /\ Submit(w, c, p, tool, foreign, artifact)
  BY DEF Ask
<1>2. /\ submitted' = submitted + 1 /\ submitted \in Nat
      /\ UNCHANGED <<log, spent, responses, policy, granted>>
  BY <1>1, GatewayAssumption DEF Submit, RecordInv, TypeInv, TypeOK
<1>3. job'[w] = NewJob(NewRequest(c, p, tool, foreign, artifact))
  BY <1>1 DEF Submit, NewJob, NewRequest, RecordInv, TypeInv, TypeOK
<1>4. /\ Id(w)' = submitted + 1 /\ job'[w].request.artifact = artifact
  BY <1>3 DEF NewJob, NewRequest, Id
<1>5. pc'[w] = IF tool THEN "screen" ELSE "policy"
  BY <1>1, GoesTo DEF Submit, RecordInv
<1>6. TypeInv'
  BY <1>1, TypesStep, ActStores DEF RecordInv, Next, Ask, Post, AskAgent
<1>7. /\ \A e \in log : e.id <= submitted /\ e.id \in Nat
      /\ \A s \in spent : s.id <= submitted /\ s.id \in Nat
      /\ \A a \in responses : a.request.id <= submitted /\ a.request.id \in Nat
  BY DEF RecordInv, Dated, TypeInv, TypeOK, Event, Slot, Response, Request, Ids
<1>8. ASSUME NEW v \in Workers, v # w
      PROVE  /\ Busy(v)' = Busy(v) /\ Id(v)' = Id(v) /\ pc'[v] = pc[v] /\ job'[v] = job[v]
             /\ Busy(v) => Id(v) <= submitted /\ Id(v) \in Nat
  BY <1>8, OthersStay, RequestTypes DEF RecordInv, TypeInv, Busy, Id, Tracked, Own, Ids
<1>9. ASSUME NEW v \in Workers, v # w PROVE Tracked(v)'
  <2>1. Tracked(v)
    BY DEF RecordInv
  <2>2. Own(v)'
    BY <1>2, <1>4, <1>8, <1>9, <2>1 DEF Tracked, Own
  <2>3. Silent(v)' /\ Unpaid(v)' /\ Accounted(v)'
    BY <1>2, <1>8, <1>9, <2>1 DEF Tracked, Silent, Unpaid, Accounted, Entry
  <2>4. Sifted(v)' /\ Checked(v)' /\ Upheld(v)' /\ Standing(v)'
    BY <1>2, <1>8, <1>9, <2>1
    DEF Tracked, Sifted, Checked, Upheld, Standing, Granted, Grants, Entry
  <2> QED BY <2>2, <2>3, <2>4 DEF Tracked
<1>10. Tracked(w)'
  <2>1. Own(w)'
    BY <1>2, <1>4, <1>7, <1>8 DEF Own
  <2>2. Silent(w)' /\ Unpaid(w)' /\ Accounted(w)'
    BY <1>2, <1>4, <1>7 DEF Silent, Unpaid, Accounted
  <2>3. Sifted(w)' /\ Checked(w)' /\ Upheld(w)' /\ Standing(w)'
    BY <1>1, <1>4, <1>5 DEF Sifted, Checked, Upheld, Standing
  <2> QED BY <2>1, <2>2, <2>3 DEF Tracked
<1>11. Dated'
  BY <1>2, <1>7 DEF Dated
<1>12. InForce' /\ OneSlot' /\ AnswersGoverned'
  BY <1>2 DEF RecordInv, InForce, OneSlot, AnswersGoverned
<1> QED BY <1>6, <1>9, <1>10, <1>11, <1>12 DEF RecordInv

(* A change of the policy forgets nothing that was granted.                *)
LEMMA AroundGrants ==
  ASSUME TypeInv, Around
  PROVE  /\ \A c \in Corridors : granted[c] \subseteq granted'[c]
         /\ UNCHANGED <<log, rate, pc, job, responses, submitted, crashes, spent, overtaken>>
<1>1. ASSUME NEW b \in Corridors, NEW rule \in Rules, Upsert(b, rule), NEW c \in Corridors
      PROVE  granted[c] \subseteq granted'[c]
  BY <1>1 DEF Upsert, TypeInv, TypeOK
<1>2. (Tick \/ \E c \in Corridors : Delete(c)) => UNCHANGED granted
  BY DEF Tick, Delete
<1> QED BY <1>1, <1>2 DEF Around, Delete, Upsert, Tick

LEMMA AroundInForce == ASSUME RecordInv, Around PROVE InForce'
<1>1. ASSUME NEW b \in Corridors, Delete(b) PROVE InForce'
  BY <1>1 DEF Delete, RecordInv, TypeInv, TypeOK, InForce
<1>2. ASSUME NEW b \in Corridors, NEW rule \in Rules, Upsert(b, rule) PROVE InForce'
  BY <1>2 DEF Upsert, RecordInv, TypeInv, TypeOK, InForce
<1>3. CASE Tick
  BY <1>3 DEF Tick, RecordInv, InForce
<1> QED BY <1>1, <1>2, <1>3 DEF Around

LEMMA AroundRecord == ASSUME RecordInv, Around PROVE RecordInv'
<1>1. /\ \A c \in Corridors : granted[c] \subseteq granted'[c]
      /\ UNCHANGED <<log, pc, job, responses, submitted, spent>>
  BY AroundGrants DEF RecordInv
<1>2. TypeInv'
  <2>1. Stores
    BY AroundStores DEF RecordInv
  <2> QED BY <1>1, <2>1 DEF RecordInv, TypeInv, TypeOK, Decided, Stores
<1>3. ASSUME NEW w \in Workers PROVE Tracked(w)'
  <2>1. Tracked(w) /\ (pc[w] # "idle" => job[w].request.corridor \in Corridors)
    BY RequestTypes DEF RecordInv, TypeInv
  <2>2. Own(w)' /\ Silent(w)' /\ Unpaid(w)' /\ Accounted(w)' /\ Sifted(w)'
    BY <1>1, <2>1 DEF Tracked, Own, Silent, Unpaid, Accounted, Sifted, Busy, Id, Entry
  <2>3. Checked(w)' /\ Upheld(w)' /\ Standing(w)'
    BY <1>1, <2>1 DEF Tracked, Checked, Upheld, Standing, Granted, Grants, Id, Entry
  <2> QED BY <2>2, <2>3 DEF Tracked
<1>4. Dated' /\ OneSlot'
  BY <1>1 DEF RecordInv, Dated, OneSlot
<1>5. AnswersGoverned'
  <2>1. \A a \in responses : a.request.corridor \in Corridors
    BY DEF RecordInv, TypeInv, TypeOK, Response, Request
  <2> QED BY <1>1, <2>1 DEF RecordInv, AnswersGoverned
<1> QED BY <1>2, <1>3, <1>4, <1>5, AroundInForce DEF RecordInv

LEMMA RecordStep == RecordInv /\ [Next]_vars => RecordInv'
<1> SUFFICES ASSUME RecordInv, [Next]_vars PROVE RecordInv'
  OBVIOUS
<1>1. CASE UNCHANGED vars
  BY <1>1
  DEF vars, RecordInv, TypeInv, TypeOK, Decided, Dated, InForce, OneSlot, AnswersGoverned, Tracked,
      Own, Busy, Id, Entry, Silent, Unpaid, Accounted, Sifted, Checked, Upheld, Standing, Granted,
      Grants
<1>2. ASSUME NEW w \in Workers, Step(w) \/ Crash(w) PROVE RecordInv'
  <2>1. TypeInv'
    BY TypesStep DEF RecordInv
  <2> QED BY <1>2, <2>1, StepDated, StepOneSlot, StepGoverned, StepTracked, OthersTracked
          DEF RecordInv
<1> QED BY <1>1, <1>2, AskRecord, AroundRecord, NextCases

(* The inductive invariant that ties rules, requests and the audit log.    *)
THEOREM RecordAlways == Spec => []RecordInv
<1>1. RecordInv /\ [Next]_vars => RecordInv'
  BY RecordStep
<1> QED BY InitRecord, <1>1, PTL DEF Spec

(* Whatever a caller is told is what the log says last of its request, and *)
(* an ALLOW is one that some rule of the corridor grants to a member of    *)
(* the deal, without a raw artifact, however often the rule is replaced    *)
(* between verdict and answer.                                             *)
THEOREM AnswersAreGoverned == Spec => []AnswersGoverned
<1>1. RecordInv => AnswersGoverned
  BY DEF RecordInv
<1> QED BY RecordAlways, <1>1, PTL

-----------------------------------------------------------------------------
(* THE BUDGET OF A CORRIDOR                                                *)

(* The slots of a corridor and an hour, in any set of them.                *)
Slots(S, c, h) == {s \in S : s.corridor = c /\ s.hour = h}

LEMMA SlotsFinite ==
  ASSUME NEW S, IsFiniteSet(S), NEW c, NEW h
  PROVE  IsFiniteSet(Slots(S, c, h))
  BY FS_Subset DEF Slots

(* Only Consume spends, and only with a slot left under its rule.          *)
Spends(w) ==
  /\ pc[w] = "consume"
  /\ Take(w, job[w].request.corridor, job[w].request.hour)
  /\ ~(Used(job[w].request.corridor, job[w].request.hour) >= job[w].rule.limit)
  /\ UNCHANGED <<granted, crashes>>

LEMMA OnlySpends ==
  ASSUME NEW w \in Workers, Ask(w) \/ Step(w) \/ Crash(w)
  PROVE  Spends(w) \/ UNCHANGED <<rate, spent, overtaken, granted>>
<1>1. CASE Consume(w)
  BY <1>1 DEF Consume, Spends
<1> QED BY <1>1 DEF Ask, Submit, Step, Screen, Evaluate, AuditVerdict, Respond, Filter, Block, Crash

(* A slot goes to one corridor and one hour.                               *)
LEMMA SlotTaken ==
  ASSUME RecordInv, IsFiniteSet(spent), NEW w \in Workers, Spends(w)
  PROVE  LET b == job[w].request.corridor
             k == job[w].request.hour
         IN /\ IsFiniteSet(spent')
            /\ Cardinality(Slots(spent', b, k)) = Cardinality(Slots(spent, b, k)) + 1
            /\ \A c, h : c # b \/ h # k => Slots(spent', c, h) = Slots(spent, c, h)
<1> DEFINE b == job[w].request.corridor
           k == job[w].request.hour
           s == [id |-> job[w].request.id, corridor |-> b, hour |-> k]
<1>1. spent' = spent \cup {s}
  BY DEF Spends, Take
<1>2. s \notin spent
  <2>1. Unpaid(w) /\ pc[w] = "consume"
    BY DEF RecordInv, Tracked, Spends
  <2> QED BY <2>1 DEF Unpaid, Id
<1>3. s.corridor = b /\ s.hour = k
  OBVIOUS
<1> HIDE DEF s, b, k
<1>4. IsFiniteSet(spent')
  BY <1>1, FS_AddElement
<1>5. Slots(spent', b, k) = Slots(spent, b, k) \cup {s}
  BY <1>1, <1>3 DEF Slots
<1>6. IsFiniteSet(Slots(spent, b, k)) /\ s \notin Slots(spent, b, k)
  <2>1. IsFiniteSet(Slots(spent, b, k))
    BY SlotsFinite
  <2> QED BY <1>2, <2>1 DEF Slots
<1>7. Cardinality(Slots(spent, b, k) \cup {s}) = Cardinality(Slots(spent, b, k)) + 1
  BY <1>6, FS_AddElement
<1>8. \A c, h : c # b \/ h # k => Slots(spent', c, h) = Slots(spent, c, h)
  BY <1>1, <1>3 DEF Slots
<1> QED BY <1>4, <1>5, <1>7, <1>8 DEF b, k

LEMMA InitBudget == Init => BudgetInv
<1> SUFFICES ASSUME Init PROVE BudgetInv
  OBVIOUS
<1>1. spent = {} /\ IsFiniteSet(spent)
  BY FS_EmptySet DEF Init
<1>2. \A c \in Corridors, h \in Hours : Taken(c, h) = {}
  BY <1>1 DEF Taken
<1>3. BudgetHolds /\ \A c \in Corridors : Counted(c)
  BY <1>2 DEF BudgetHolds, Counted, Init
<1> QED BY <1>1, <1>3, InitRecord DEF BudgetInv

(* The limit of the rule that the request was checked against is that of a *)
(* rule the corridor has had, and the counter is where the slots are.      *)
LEMMA SpendCounts ==
  ASSUME BudgetInv, NEW w \in Workers, Spends(w)
  PROVE  LET b == job[w].request.corridor
             k == job[w].request.hour
         IN /\ b \in Corridors /\ k \in Hours
            /\ \A c \in Corridors : c # b => rate'[c] = rate[c]
            /\ \A c : c \notin overtaken' => c \notin overtaken
            /\ rate'[b] # None /\ rate'[b].window = k
            /\ b \notin overtaken' =>
                 /\ Cardinality(Slots(spent', b, k)) = rate'[b].count
                 /\ \A h \in Hours : h > k => Slots(spent', b, h) = {}
            /\ \E rule \in granted[b] : rate'[b].count <= rule.limit
<1> DEFINE b == job[w].request.corridor
           k == job[w].request.hour
           n == Used(b, k) + 1
<1>1. b \in Corridors /\ k \in Hours /\ Busy(w) /\ pc[w] = "consume" /\ TypeOK
  BY RequestTypes DEF BudgetInv, RecordInv, TypeInv, Spends, Busy
<1>2. rate[b] # None => rate[b].window \in Hours /\ rate[b].count \in Nat
  BY <1>1 DEF TypeOK, Counter
<1>3. job[w].rule \in granted[b] /\ job[w].rule.limit \in Nat
  <2>1. Checked(w) /\ granted[b] \subseteq Rule
    BY <1>1, GatewayAssumption DEF BudgetInv, RecordInv, Tracked, TypeOK
  <2> QED BY <1>1, <2>1 DEF Checked, Rule
<1>4. /\ rate'[b] = [window |-> k, count |-> n]
      /\ \A c \in Corridors : c # b => rate'[c] = rate[c]
      /\ \A c : c \notin overtaken' => c \notin overtaken
      /\ b \notin overtaken' /\ rate[b] # None => ~(k < rate[b].window)
  BY <1>1 DEF Spends, Take, TypeOK
<1>5. Used(b, k) \in Nat /\ n <= job[w].rule.limit
  <2>1. Used(b, k) \in Nat
    BY <1>1, UsedType
  <2> QED BY <1>3, <2>1 DEF Spends
<1>6. rate'[b] # None /\ rate'[b].window = k /\ rate'[b].count = n
  <2>1. rate'[b] \in Counter
    BY <1>1, <1>4, <1>5 DEF Counter
  <2> QED BY <1>4, <2>1, NoneAssumption
<1>7. /\ Cardinality(Slots(spent', b, k)) = Cardinality(Slots(spent, b, k)) + 1
      /\ \A c, h : c # b \/ h # k => Slots(spent', c, h) = Slots(spent, c, h)
  BY SlotTaken DEF BudgetInv
<1>8. /\ b \notin overtaken /\ rate[b] = None => \A h \in Hours : Slots(spent, b, h) = {}
      /\ b \notin overtaken /\ rate[b] # None =>
           /\ Cardinality(Slots(spent, b, rate[b].window)) = rate[b].count
           /\ \A h \in Hours : h > rate[b].window => Slots(spent, b, h) = {}
  BY <1>1 DEF BudgetInv, Counted, Taken, Slots
<1>9. Used(b, k) = IF rate[b] # None /\ rate[b].window = k THEN rate[b].count ELSE 0
  BY DEF Used
<1>10. Hours \subseteq Int
  BY GatewayAssumption DEF Hours
<1> HIDE DEF b, k, n
<1>11. ASSUME b \notin overtaken' PROVE Cardinality(Slots(spent, b, k)) = Used(b, k)
  <2>1. CASE rate[b] = None
    BY <1>1, <1>4, <1>8, <1>9, <1>11, <2>1, FS_EmptySet
  <2>2. CASE rate[b] # None /\ rate[b].window = k
    BY <1>4, <1>8, <1>9, <1>11, <2>2
  <2>3. CASE rate[b] # None /\ rate[b].window # k
    <3>1. k > rate[b].window
      BY <1>1, <1>2, <1>4, <1>10, <1>11, <2>3
    <3>2. Slots(spent, b, k) = {}
      BY <1>1, <1>4, <1>8, <1>11, <2>3, <3>1
    <3> QED BY <1>9, <2>3, <3>2, FS_EmptySet
  <2> QED BY <2>1, <2>2, <2>3
<1>12. ASSUME b \notin overtaken', NEW h \in Hours, h > k PROVE Slots(spent', b, h) = {}
  <2>1. Slots(spent', b, h) = Slots(spent, b, h)
    BY <1>1, <1>7, <1>10, <1>12
  <2>2. CASE rate[b] = None
    BY <1>4, <1>8, <1>12, <2>1, <2>2
  <2>3. CASE rate[b] # None
    <3>1. h > rate[b].window
      <4>1. h \in Int /\ k \in Int /\ rate[b].window \in Int
        BY <1>1, <1>2, <1>10, <2>3
      <4>2. ~(k < rate[b].window)
        BY <1>4, <1>12, <2>3
      <4> QED BY <1>12, <4>1, <4>2
    <3> QED BY <1>4, <1>8, <1>12, <2>1, <2>3, <3>1
  <2> QED BY <2>2, <2>3
<1>13. b \notin overtaken' => Cardinality(Slots(spent', b, k)) = n
  BY <1>7, <1>11 DEF n
<1> QED BY <1>1, <1>3, <1>4, <1>5, <1>6, <1>12, <1>13 DEF b, k

LEMMA SpendBudget ==
  ASSUME BudgetInv, NEW w \in Workers, Spends(w)
  PROVE  BudgetHolds' /\ \A c \in Corridors : Counted(c)'
<1> DEFINE b == job[w].request.corridor
           k == job[w].request.hour
<1>1. /\ b \in Corridors /\ k \in Hours
      /\ \A c \in Corridors : c # b => rate'[c] = rate[c]
      /\ \A c : c \notin overtaken' => c \notin overtaken
      /\ rate'[b] # None /\ rate'[b].window = k
      /\ b \notin overtaken' =>
           /\ Cardinality(Slots(spent', b, k)) = rate'[b].count
           /\ \A h \in Hours : h > k => Slots(spent', b, h) = {}
      /\ \E rule \in granted[b] : rate'[b].count <= rule.limit
      /\ \A c, h : c # b \/ h # k => Slots(spent', c, h) = Slots(spent, c, h)
      /\ granted' = granted
  BY SpendCounts, SlotTaken DEF BudgetInv, Spends
<1> HIDE DEF b, k
<1>2. ASSUME NEW c \in Corridors PROVE Counted(c)'
  <2> SUFFICES ASSUME c \notin overtaken'
               PROVE  /\ rate'[c] = None => \A h \in Hours : Slots(spent', c, h) = {}
                      /\ rate'[c] # None =>
                           /\ Cardinality(Slots(spent', c, rate'[c].window)) = rate'[c].count
                           /\ \A h \in Hours : h > rate'[c].window => Slots(spent', c, h) = {}
    BY DEF Counted, Taken, Slots
  <2>1. CASE c = b
    BY <1>1, <2>1
  <2>2. CASE c # b
    <3>1. /\ rate[c] = None => \A h \in Hours : Slots(spent, c, h) = {}
          /\ rate[c] # None =>
               /\ Cardinality(Slots(spent, c, rate[c].window)) = rate[c].count
               /\ \A h \in Hours : h > rate[c].window => Slots(spent, c, h) = {}
      BY <1>1 DEF BudgetInv, Counted, Taken, Slots
    <3> QED BY <1>1, <2>2, <3>1
  <2> QED BY <2>1, <2>2
<1>3. BudgetHolds'
  <2> SUFFICES ASSUME NEW c \in Corridors, c \notin overtaken', NEW h \in Hours,
                      Slots(spent', c, h) # {}
               PROVE  \E rule \in granted'[c] : Cardinality(Slots(spent', c, h)) <= rule.limit
    BY DEF BudgetHolds, Taken, Slots
  <2>1. CASE c = b /\ h = k
    BY <1>1, <2>1
  <2>2. CASE c # b \/ h # k
    <3>1. Slots(spent', c, h) = Slots(spent, c, h) /\ c \notin overtaken
      BY <1>1, <2>2
    <3>2. \E rule \in granted[c] : Cardinality(Slots(spent, c, h)) <= rule.limit
      BY <3>1 DEF BudgetInv, BudgetHolds, Taken, Slots
    <3> QED BY <1>1, <3>1, <3>2
  <2> QED BY <2>1, <2>2
<1> QED BY <1>2, <1>3

LEMMA BudgetStep == BudgetInv /\ [Next]_vars => BudgetInv'
<1> SUFFICES ASSUME BudgetInv, [Next]_vars PROVE BudgetInv'
  OBVIOUS
<1>1. RecordInv'
  BY RecordStep DEF BudgetInv
<1>2. ASSUME UNCHANGED <<rate, spent, overtaken>>,
             \A c \in Corridors : granted[c] \subseteq granted'[c]
      PROVE  BudgetInv'
  <2>1. IsFiniteSet(spent)' /\ \A c \in Corridors : Counted(c)'
    BY <1>2 DEF BudgetInv, Counted, Taken
  <2>2. BudgetHolds'
    BY <1>2 DEF BudgetInv, BudgetHolds, Taken
  <2> QED BY <1>1, <2>1, <2>2 DEF BudgetInv
<1>3. CASE UNCHANGED vars
  BY <1>2, <1>3 DEF vars
<1>4. CASE Around
  BY <1>2, <1>4, AroundGrants DEF BudgetInv, RecordInv
<1>5. ASSUME NEW w \in Workers, Spends(w) PROVE BudgetInv'
  <2>1. IsFiniteSet(spent')
    BY <1>5, SlotTaken DEF BudgetInv
  <2> QED BY <1>1, <1>5, <2>1, SpendBudget DEF BudgetInv
<1> QED BY <1>2, <1>3, <1>4, <1>5, NextCases, OnlySpends

(* In one clock hour a corridor that no late request has set back allows   *)
(* no more requests than the most generous rule it has had, whatever       *)
(* overlaps and however the limits change meanwhile.                       *)
THEOREM BudgetIsHeld == Spec => []BudgetHolds
<1>1. BudgetInv => BudgetHolds
  BY DEF BudgetInv
<1>2. BudgetInv /\ [Next]_vars => BudgetInv'
  BY BudgetStep
<1> QED BY InitBudget, <1>1, <1>2, PTL DEF Spec

-----------------------------------------------------------------------------
(* THE ACCOUNT OF THE SLOTS                                                *)

(* A slot nobody will account for any more.                                *)
Lost(s) == Entry(s.id, "allow") \notin log /\ \A v \in Workers : Busy(v) => Id(v) # s.id

LostSlots == {s \in spent : Lost(s)}

LEMMA AccountedIsLost == ASSUME TypeInv PROVE SlotsAccounted = (Cardinality(LostSlots) <= crashes)
<1>1. \A w \in Workers : Busy(w) = (job[w] # None)
  BY DEF TypeInv, TypeOK, Busy
<1>2. \A s \in spent : Lost(s) = ([id |-> s.id, verdict |-> "allow"] \notin log /\ HeldBy(s.id) = {})
  BY <1>1 DEF Lost, Entry, HeldBy, Id
<1> QED BY <1>2 DEF SlotsAccounted, LostSlots

(* No step but a crash loses one.                                          *)
LEMMA StepLoses ==
  ASSUME RecordInv, NEW w \in Workers, Step(w)
  PROVE  LostSlots' \subseteq LostSlots
<1> SUFFICES ASSUME NEW s \in spent', Lost(s)' PROVE s \in spent /\ Lost(s)
  BY DEF LostSlots
<1>1. Writes(w) /\ Busy(w) /\ Tracked(w) /\ (Busy(w)' => Id(w)' = Id(w))
  BY StepWrites, StepKeepsRequest DEF RecordInv, Id
<1>2. s \in spent
  <2> SUFFICES ASSUME s \notin spent PROVE FALSE
    OBVIOUS
  <2>1. s.id = Id(w) /\ Consume(w)
    BY <1>1 DEF Writes, Step, Screen, Evaluate, AuditVerdict, Respond, Filter, Block
  <2>2. Busy(w)'
    BY <2>1, <1>1, DecideSets DEF Consume, Busy, RecordInv
  <2> QED BY <1>1, <2>1, <2>2 DEF Lost
<1>3. Entry(s.id, "allow") \notin log' /\ \A v \in Workers : Busy(v)' => Id(v)' # s.id
  BY DEF Lost, Entry
<1>4. ASSUME NEW v \in Workers, Busy(v), Id(v) = s.id PROVE FALSE
  <2>1. CASE v # w
    BY <1>3, <1>4, <2>1, OthersStay DEF RecordInv, Busy, Id
  <2>2. CASE v = w
    <3>1. pc[w] = "audit" /\ job[w].verdict = "allow"
      BY <1>1, <1>2, <1>3, <1>4, <2>2 DEF Tracked, Accounted, Writes
    <3>2. Entry(Id(w), "allow") \in log'
      BY <3>1 DEF Step, Screen, Evaluate, Consume, AuditVerdict, Respond, Filter, Block, Audit,
                  Entry, Id
    <3> QED BY <1>3, <1>4, <2>2, <3>2
  <2> QED BY <2>1, <2>2
<1> QED BY <1>1, <1>2, <1>3, <1>4 DEF Lost, Writes

(* A crash loses at most the slot of the request that dies.                *)
LEMMA CrashLoses ==
  ASSUME RecordInv, NEW w \in Workers, Crash(w)
  PROVE  LostSlots' \subseteq LostSlots \/ \E t : LostSlots' \subseteq LostSlots \cup {t}
<1>1. UNCHANGED <<log, spent>> /\ OneSlot
  BY DEF Crash, RecordInv
<1>2. ASSUME NEW s \in LostSlots', s \notin LostSlots PROVE s \in spent /\ s.id = Id(w)
  <2>1. Entry(s.id, "allow") \notin log /\ s \in spent /\ \A v \in Workers : Busy(v)' => Id(v)' # s.id
    BY <1>1, <1>2 DEF LostSlots, Lost, Entry
  <2>2. PICK v \in Workers : Busy(v) /\ Id(v) = s.id
    BY <1>2, <2>1 DEF LostSlots, Lost
  <2>3. v = w
    BY <2>1, <2>2, OthersStay DEF RecordInv, Busy, Id
  <2> QED BY <2>1, <2>2, <2>3
<1>3. CASE \E t \in spent : t.id = Id(w)
  <2>1. PICK t \in spent : t.id = Id(w)
    BY <1>3
  <2>2. LostSlots' \subseteq LostSlots \cup {t}
    BY <1>1, <1>2, <2>1 DEF OneSlot
  <2> QED BY <2>2
<1>4. CASE ~\E t \in spent : t.id = Id(w)
  BY <1>2, <1>4
<1> QED BY <1>3, <1>4

LEMMA AskLoses ==
  ASSUME RecordInv, NEW w \in Workers, Ask(w)
  PROVE  LostSlots' \subseteq LostSlots
<1> SUFFICES ASSUME NEW s \in spent', Lost(s)' PROVE s \in spent /\ Lost(s)
  BY DEF LostSlots
<1>1. UNCHANGED <<log, spent>> /\ ~Busy(w)
  BY DEF Ask, Submit, Busy
<1>2. Entry(s.id, "allow") \notin log /\ \A v \in Workers : Busy(v)' => Id(v)' # s.id
  BY <1>1 DEF Lost, Entry
<1>3. ASSUME NEW v \in Workers, Busy(v) PROVE Id(v) # s.id
  BY <1>1, <1>2, <1>3, OthersStay DEF RecordInv, Busy, Id
<1> QED BY <1>1, <1>2, <1>3 DEF Lost

LEMMA SlotStep == SlotInv /\ [Next]_vars => SlotInv'
<1> SUFFICES ASSUME SlotInv, [Next]_vars PROVE SlotInv'
  OBVIOUS
<1>1. RecordInv /\ RecordInv' /\ TypeInv /\ TypeInv'
  BY RecordStep DEF SlotInv, RecordInv
<1>2. crashes \in Nat /\ IsFiniteSet(LostSlots) /\ Cardinality(LostSlots) \in Nat
  <2>1. IsFiniteSet(LostSlots)
    BY FS_Subset DEF SlotInv, LostSlots
  <2> QED BY <1>1, <2>1, FS_CardinalityType DEF TypeInv, TypeOK
<1>3. Cardinality(LostSlots) <= crashes
  BY <1>1, AccountedIsLost DEF SlotInv
<1>4. IsFiniteSet(spent')
  <2>1. \/ UNCHANGED spent
        \/ \E w \in Workers : Spends(w)
    BY NextCases, OnlySpends, AroundGrants, <1>1 DEF vars
  <2> QED BY <1>1, <2>1, SlotTaken DEF SlotInv
<1>5. SUFFICES Cardinality(LostSlots') <= crashes'
  <2>1. SlotsAccounted' = (Cardinality(LostSlots') <= crashes')
    <3>1. \A w \in Workers : Busy(w)' = (job'[w] # None)
      BY <1>1 DEF TypeInv, TypeOK, Busy
    <3>2. \A s \in spent' :
            Lost(s)' = ([id |-> s.id, verdict |-> "allow"] \notin log' /\ HeldBy(s.id)' = {})
      BY <3>1 DEF Lost, Entry, HeldBy, Id
    <3> QED BY <3>2 DEF SlotsAccounted, LostSlots
  <2> QED BY <1>1, <1>4, <1>5, <2>1 DEF SlotInv
<1>6. ASSUME LostSlots' \subseteq LostSlots, crashes' = crashes
      PROVE  Cardinality(LostSlots') <= crashes'
  <2>1. Cardinality(LostSlots') <= Cardinality(LostSlots) /\ Cardinality(LostSlots') \in Nat
    BY <1>2, <1>6, FS_Subset, FS_CardinalityType
  <2> QED BY <1>2, <1>3, <1>6, <2>1
<1>7. CASE UNCHANGED vars \/ Around
  <2>1. UNCHANGED <<log, pc, job, spent, crashes>>
    BY <1>1, <1>7, AroundGrants DEF vars
  <2> QED BY <1>6, <2>1 DEF LostSlots, Lost, Busy, Id
<1>8. ASSUME NEW w \in Workers, Ask(w) \/ Step(w) PROVE Cardinality(LostSlots') <= crashes'
  <2>1. crashes' = crashes
    BY <1>8 DEF Ask, Submit, Step, Screen, Evaluate, Consume, AuditVerdict, Respond, Filter, Block
  <2> QED BY <1>1, <1>6, <1>8, <2>1, AskLoses, StepLoses
<1>9. ASSUME NEW w \in Workers, Crash(w) PROVE Cardinality(LostSlots') <= crashes'
  <2>1. crashes' = crashes + 1
    BY <1>9 DEF Crash
  <2>2. PICK t : LostSlots' \subseteq LostSlots \cup {t}
    BY <1>1, <1>9, CrashLoses
  <2>3. /\ IsFiniteSet(LostSlots \cup {t})
        /\ Cardinality(LostSlots \cup {t}) <= Cardinality(LostSlots) + 1
    <3>1. Cardinality(LostSlots \cup {t}) \in {Cardinality(LostSlots), Cardinality(LostSlots) + 1}
      BY <1>2, FS_AddElement
    <3>2. IsFiniteSet(LostSlots \cup {t})
      BY <1>2, FS_AddElement
    <3> QED BY <1>2, <3>1, <3>2
  <2>4. Cardinality(LostSlots') <= Cardinality(LostSlots \cup {t})
    BY <2>2, <2>3, FS_Subset
  <2>5. Cardinality(LostSlots') \in Nat /\ Cardinality(LostSlots \cup {t}) \in Nat
    BY <2>2, <2>3, FS_Subset, FS_CardinalityType
  <2> QED BY <1>2, <1>3, <2>1, <2>3, <2>4, <2>5
<1> QED BY <1>7, <1>8, <1>9, NextCases

(* A slot is spent on an ALLOW that the log shows, or its request is under *)
(* way, or that request has died: one crash, one slot.                     *)
THEOREM SlotsAreAccounted == Spec => []SlotsAccounted
<1>1. ASSUME Init PROVE SlotInv
  <2>1. RecordInv /\ TypeInv /\ spent = {} /\ crashes = 0
    BY <1>1, InitRecord, InitTypes DEF Init
  <2>2. LostSlots = {}
    BY <2>1 DEF LostSlots
  <2>3. Cardinality(LostSlots) <= crashes /\ IsFiniteSet(spent)
    BY <2>1, <2>2, FS_EmptySet
  <2> QED BY <2>1, <2>3, AccountedIsLost DEF SlotInv
<1>2. SlotInv => SlotsAccounted
  BY DEF SlotInv
<1>3. SlotInv /\ [Next]_vars => SlotInv'
  BY SlotStep
<1> QED BY <1>1, <1>2, <1>3, PTL DEF Spec

=============================================================================

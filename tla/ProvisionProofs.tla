--------------------------- MODULE ProvisionProofs ---------------------------
(***************************************************************************)
(* Proofs about Provision, for any operators, names of budgets and of      *)
(* engines, and any number of runs, faults and changes from the console.   *)
(***************************************************************************)
EXTENDS Provision, FiniteSetTheorems, TLAPS

USE DEF Step, Script, cloud, past, bounds

-----------------------------------------------------------------------------
(* THE PLANS                                                               *)

LEMMA PlanLengths == Len(Plan("bootstrap")) = 4 /\ Len(Plan("dataroom")) = 7
  BY DEF Plan, Bootstrap, DataRoom

LEMMA BootstrapPlan ==
  /\ Plan("bootstrap")[1] = "project" /\ Plan("bootstrap")[2] = "billing"
  /\ Plan("bootstrap")[3] = "services" /\ Plan("bootstrap")[4] = "staging"
  BY DEF Plan, Bootstrap

LEMMA DataRoomPlan ==
  /\ Plan("dataroom")[1] = "topic" /\ Plan("dataroom")[2] = "us" /\ Plan("dataroom")[3] = "eu"
  /\ Plan("dataroom")[4] = "grant" /\ Plan("dataroom")[5] = "us_note"
  /\ Plan("dataroom")[6] = "eu_note" /\ Plan("dataroom")[7] = "subscription"
  BY DEF Plan, DataRoom

Basics == {"project", "billing", "services", "staging"}
Rooms  == {"topic", "us", "eu", "grant", "us_note", "eu_note", "subscription"}

LEMMA PlanIs ==
  /\ \A i \in 1 .. 4 : Plan("bootstrap")[i] \in Basics
  /\ \A i \in 1 .. 7 : Plan("dataroom")[i] \in Rooms
<1>1. \A i \in 1 .. 4 : i = 1 \/ i = 2 \/ i = 3 \/ i = 4
  OBVIOUS
<1>2. \A i \in 1 .. 7 : i = 1 \/ i = 2 \/ i = 3 \/ i = 4 \/ i = 5 \/ i = 6 \/ i = 7
  OBVIOUS
<1> QED BY <1>1, <1>2, BootstrapPlan, DataRoomPlan DEF Basics, Rooms

LEMMA ResourceIs == Resource = Basics \cup Rooms
<1>1. Resource \subseteq Basics \cup Rooms
  BY PlanIs DEF Resource, Plan
<1>2. Basics \cup Rooms \subseteq Resource
  BY BootstrapPlan, DataRoomPlan DEF Resource, Plan, Basics, Rooms
<1> QED BY <1>1, <1>2

-----------------------------------------------------------------------------
(* TYPE CORRECTNESS                                                        *)

Holdable == Budget \cup Engine \cup Policy \cup {None}

(* A run that is at a call has what the call is about.                     *)
InPlan(p, j, n) ==
  p \in {"look", "make"} => j \in {"bootstrap", "dataroom"} /\ n \in 1 .. Len(Plan(j))
Holds(p, v) ==
  /\ p \in {"describe", "remove", "update"} => v \in Budget
  /\ p \in {"write", "destroy"} => v \in Engine
  /\ p = "set" => v \in Policy

RunsOK ==
  /\ job \in [Operator -> Script \cup {None}] /\ pc \in [Operator -> Step]
  /\ pos \in [Operator -> Nat] /\ held \in [Operator -> Holdable]
  /\ \A o \in Operator : /\ pc[o] = "idle" <=> job[o] = None
                         /\ InPlan(pc[o], job[o], pos[o]) /\ Holds(pc[o], held[o])

CloudOK ==
  /\ count \in [Resource -> Nat] /\ budgets \in [Budget -> BudgetState] /\ policy \in Policy
  /\ engines \in [Engine -> EngineState] /\ stateFile \in Engine \cup {None}
  /\ done \subseteq Script /\ refused \subseteq Script /\ cut \subseteq Step

FlagsOK == keys \in BOOLEAN /\ capped \in BOOLEAN /\ overlapped \in BOOLEAN /\ glitched \in BOOLEAN

TallyOK == runs \in Nat /\ faults \in Nat /\ outside \in Nat

LEMMA TypeIs == TypeOK <=> RunsOK /\ CloudOK /\ FlagsOK /\ TallyOK
  BY DEF TypeOK, RunsOK, CloudOK, FlagsOK, TallyOK, Holdable, InPlan, Holds

LEMMA TypeIsPrime == TypeOK' <=> RunsOK' /\ CloudOK' /\ FlagsOK' /\ TallyOK'
  BY DEF TypeOK, RunsOK, CloudOK, FlagsOK, TallyOK, Holdable, InPlan, Holds

LEMMA InitTypes == Init => TypeOK
<1> SUFFICES ASSUME Init PROVE TypeOK
  OBVIOUS
<1>1. policy \in Policy
  BY DEF Init, Policy
<1>2. RunsOK
  BY DEF Init, RunsOK, Holdable, InPlan, Holds
<1>3. CloudOK /\ FlagsOK /\ TallyOK
  BY <1>1 DEF Init, CloudOK, FlagsOK, TallyOK, BudgetState, EngineState
<1> QED BY <1>2, <1>3, TypeIs

(* The turn of an operator sets nothing but its own run.                   *)
LEMMA Turn ==
  ASSUME RunsOK, NEW o \in Operator, NEW p \in Step, NEW j \in Script \cup {None}, NEW n \in Nat,
         NEW v \in Holdable,
         pc' = [pc EXCEPT ![o] = p], job' = [job EXCEPT ![o] = j], pos' = [pos EXCEPT ![o] = n],
         held' = [held EXCEPT ![o] = v],
         p = "idle" <=> j = None, InPlan(p, j, n), Holds(p, v)
  PROVE  RunsOK'
<1>1. /\ job' \in [Operator -> Script \cup {None}] /\ pc' \in [Operator -> Step]
      /\ pos' \in [Operator -> Nat] /\ held' \in [Operator -> Holdable]
  BY DEF RunsOK
<1>2. /\ pc'[o] = p /\ job'[o] = j /\ pos'[o] = n /\ held'[o] = v
      /\ \A q \in Operator : q # o =>
           pc'[q] = pc[q] /\ job'[q] = job[q] /\ pos'[q] = pos[q] /\ held'[q] = held[q]
  BY DEF RunsOK
<1>3. ASSUME NEW q \in Operator
      PROVE  /\ pc'[q] = "idle" <=> job'[q] = None
             /\ InPlan(pc'[q], job'[q], pos'[q]) /\ Holds(pc'[q], held'[q])
  BY <1>2 DEF RunsOK
<1> QED BY <1>1, <1>3 DEF RunsOK, InPlan, Holds, Holdable, Policy

LEMMA ExitTurn == ASSUME RunsOK, NEW o \in Operator, Exit(o) PROVE RunsOK'
<1>1. "idle" \in Step /\ None \in Script \cup {None} /\ 0 \in Nat /\ None \in Holdable
  BY DEF Holdable
<1>2. InPlan("idle", None, 0) /\ Holds("idle", None)
  BY DEF InPlan, Holds
<1> QED BY <1>1, <1>2, Turn DEF Exit, Goto, Keep

LEMMA BusyRun ==
  ASSUME RunsOK, NEW o \in Operator, pc[o] # "idle"
  PROVE  /\ job[o] \in Script /\ job[o] # None /\ pos[o] \in Nat /\ held[o] \in Holdable
         /\ job' = [job EXCEPT ![o] = job[o]] <=> job' = job
  BY DEF RunsOK

LEMMA KeepTurn ==
  ASSUME RunsOK, NEW o \in Operator, pc[o] # "idle", NEW p \in Step \ {"idle", "look", "make"},
         NEW v \in Holdable, Continue(o, p), Keep(o, v), Holds(p, v)
  PROVE  RunsOK'
<1>1. job[o] \in Script /\ job[o] # None /\ pos[o] \in Nat
  BY BusyRun
<1>2. job' = [job EXCEPT ![o] = job[o]] /\ pos' = [pos EXCEPT ![o] = pos[o]]
  BY DEF Continue, RunsOK
<1>3. InPlan(p, job[o], pos[o])
  BY DEF InPlan
<1> QED BY <1>1, <1>2, <1>3, Turn DEF Continue, Goto, Keep

LEMMA StayTurn ==
  ASSUME RunsOK, NEW o \in Operator, pc[o] # "idle", NEW p \in Step \ {"idle", "look", "make"},
         Continue(o, p), UNCHANGED held, Holds(p, held[o])
  PROVE  RunsOK'
<1>1. held[o] \in Holdable /\ held' = [held EXCEPT ![o] = held[o]]
  BY DEF RunsOK
<1> QED BY <1>1, KeepTurn DEF Keep

LEMMA MakeTurn ==
  ASSUME RunsOK, NEW o \in Operator, pc[o] = "look", Continue(o, "make"), UNCHANGED held
  PROVE  RunsOK'
<1>1. /\ job[o] \in Script /\ job[o] # None /\ pos[o] \in Nat /\ held[o] \in Holdable
      /\ InPlan("look", job[o], pos[o])
  BY BusyRun DEF RunsOK
<1>2. /\ job' = [job EXCEPT ![o] = job[o]] /\ pos' = [pos EXCEPT ![o] = pos[o]]
      /\ held' = [held EXCEPT ![o] = held[o]] /\ pc' = [pc EXCEPT ![o] = "make"]
  BY DEF Continue, Goto, RunsOK
<1>3. InPlan("make", job[o], pos[o]) /\ Holds("make", held[o])
  BY <1>1 DEF InPlan, Holds
<1> QED BY <1>1, <1>2, <1>3, Turn

LEMMA OnwardTurn ==
  ASSUME RunsOK, NEW o \in Operator, pc[o] \in {"look", "make"}, Onward(o)
  PROVE  RunsOK'
<1>1. /\ job[o] \in Script /\ job[o] # None /\ pos[o] \in Nat /\ held[o] \in Holdable
      /\ job[o] \in {"bootstrap", "dataroom"} /\ pos[o] \in 1 .. Len(Plan(job[o]))
  BY BusyRun DEF RunsOK, InPlan
<1>2. CASE pos[o] < Len(Plan(job[o]))
  <2>1. /\ job' = [job EXCEPT ![o] = job[o]] /\ pos' = [pos EXCEPT ![o] = pos[o] + 1]
        /\ held' = [held EXCEPT ![o] = held[o]] /\ pc' = [pc EXCEPT ![o] = "look"]
    BY <1>2 DEF Onward, Goto, RunsOK
  <2>2. InPlan("look", job[o], pos[o] + 1) /\ Holds("look", held[o])
    BY <1>1, <1>2, PlanLengths DEF InPlan, Holds
  <2>3. pos[o] + 1 \in Nat /\ ("look" = "idle" <=> job[o] = None) /\ "look" \in Step
    BY <1>1
  <2>4. job[o] \in Script \cup {None}
    BY <1>1
  <2> DEFINE j == job[o]
             n == pos[o] + 1
  <2> HIDE DEF j, n
  <2> QED BY <1>1, <2>1, <2>2, <2>3, <2>4, Turn DEF j, n
<1>3. CASE ~(pos[o] < Len(Plan(job[o]))) /\ job[o] = "bootstrap"
  <2>1. Continue(o, "find") /\ UNCHANGED held /\ Holds("find", held[o])
    BY <1>3 DEF Onward, Holds
  <2> QED BY <2>1, StayTurn
<1>4. CASE ~(pos[o] < Len(Plan(job[o]))) /\ job[o] # "bootstrap"
  BY <1>4, ExitTurn DEF Onward, Succeed
<1> QED BY <1>2, <1>3, <1>4

(* What an operator may do, after the beginning.                           *)
Act(o) ==
  \/ CutShort(o) \/ Look(o) \/ LookFails(o) \/ Make(o) \/ FindBudget(o) \/ FindMisses(o)
  \/ CreateCap(o) \/ DescribeBudget(o) \/ RemoveCap(o) \/ UpdateCap(o) \/ VerifyBootstrap(o)
  \/ ReadPolicy(o) \/ SetPolicy(o) \/ VerifyGuardrails(o) \/ CreateEngine(o) \/ WriteState(o)
  \/ LoadName(o) \/ DestroyEngine(o) \/ UnlinkState(o)

LEMMA BeginTurn ==
  ASSUME RunsOK, NEW o \in Operator, NEW s \in Script, Begin(o, s)
  PROVE  RunsOK'
<1> DEFINE p == CASE s \in {"bootstrap", "dataroom"} -> "look"
                  [] s = "guardrails" -> "read"
                  [] s = "deploy" -> "create"
                  [] s = "delete" -> "load"
<1>1. p \in Step /\ p # "idle" /\ Holds(p, held[o])
  BY DEF Holds
<1>2. InPlan(p, s, 1)
  <2>1. CASE s \in {"bootstrap", "dataroom"}
    <3>1. 1 \in 1 .. 4 /\ 1 \in 1 .. 7
      OBVIOUS
    <3>2. 1 \in 1 .. Len(Plan(s))
      BY <2>1, <3>1, PlanLengths
    <3> QED BY <2>1, <3>2 DEF InPlan
  <2>2. CASE s \in {"guardrails", "deploy", "delete"}
    BY <2>2 DEF InPlan
  <2> QED BY <2>1, <2>2
<1>3. /\ pc' = [pc EXCEPT ![o] = p] /\ job' = [job EXCEPT ![o] = s] /\ pos' = [pos EXCEPT ![o] = 1]
      /\ held' = [held EXCEPT ![o] = held[o]] /\ held[o] \in Holdable
  BY DEF Begin, Goto, RunsOK
<1>4. p = "idle" <=> s = None
  BY <1>1, NoneAssumption
<1> HIDE DEF p
<1> QED BY <1>1, <1>2, <1>3, <1>4, Turn

LEMMA ActTurn ==
  ASSUME TypeOK, NEW o \in Operator, Act(o)
  PROVE  RunsOK'
<1> USE DEF Succeed, Stop
<1>0. RunsOK /\ Holds(pc[o], held[o]) /\ CloudOK /\ None \in Holdable
  BY TypeIs DEF RunsOK, Holdable
<1>1. CASE CutShort(o)
  BY <1>0, <1>1, ExitTurn DEF CutShort
<1>2. CASE Look(o) \/ LookFails(o)
  BY <1>0, <1>2, OnwardTurn, MakeTurn DEF Look, LookFails
<1>3. CASE Make(o)
  BY <1>0, <1>3, OnwardTurn, ExitTurn DEF Make
<1>4. CASE FindBudget(o)
  <2>1. ASSUME NEW b \in Budget, Keep(o, b), Continue(o, "describe") PROVE RunsOK'
    <3>1. b \in Holdable /\ Holds("describe", b)
      BY DEF Holdable, Holds
    <3> QED BY <1>0, <1>4, <2>1, <3>1, KeepTurn DEF FindBudget
  <2>2. ASSUME Keep(o, None), Continue(o, "create_cap") PROVE RunsOK'
    BY <1>0, <1>4, <2>2, KeepTurn DEF FindBudget, Holds
  <2> QED BY <1>4, <2>1, <2>2 DEF FindBudget, Caps
<1>5. CASE FindMisses(o)
  BY <1>0, <1>5, KeepTurn DEF FindMisses, Holds
<1>6. CASE CreateCap(o)
  BY <1>0, <1>6, KeepTurn DEF CreateCap, Holds
<1>7. CASE DescribeBudget(o)
  <2>1. pc[o] = "describe" /\ held[o] \in Budget /\ UNCHANGED held
    BY <1>0, <1>7 DEF DescribeBudget, Holds
  <2>2. \A p \in {"verify", "update", "remove"} : Holds(p, held[o])
    BY <2>1 DEF Holds
  <2>3. \E p \in {"verify", "update", "remove"} : Continue(o, p)
    BY <1>7 DEF DescribeBudget, Remedy
  <2> QED BY <1>0, <2>1, <2>2, <2>3, StayTurn
<1>8. CASE RemoveCap(o)
  BY <1>0, <1>8, StayTurn, ExitTurn DEF RemoveCap, Holds
<1>9. CASE UpdateCap(o)
  BY <1>0, <1>9, StayTurn, ExitTurn DEF UpdateCap, Holds
<1>10. CASE VerifyBootstrap(o) \/ VerifyGuardrails(o) \/ WriteState(o) \/ UnlinkState(o)
  BY <1>0, <1>10, ExitTurn DEF VerifyBootstrap, VerifyGuardrails, WriteState, UnlinkState
<1>11. CASE ReadPolicy(o)
  <2>1. policy \in Holdable /\ \A p \in {"inspect", "set"} : Holds(p, policy)
    BY <1>0 DEF CloudOK, Holdable, Holds
  <2>2. Continue(o, "inspect") \/ Continue(o, "set")
    BY <1>11 DEF ReadPolicy
  <2> QED BY <1>0, <1>11, <2>1, <2>2, KeepTurn DEF ReadPolicy
<1>12. CASE SetPolicy(o)
  BY <1>0, <1>12, KeepTurn, ExitTurn DEF SetPolicy, Holds
<1>13. CASE CreateEngine(o)
  <2>1. PICK e \in Engine : Keep(o, e)
    BY <1>13 DEF CreateEngine
  <2>2. e \in Holdable /\ Holds("write", e)
    BY DEF Holdable, Holds
  <2> QED BY <1>0, <1>13, <2>1, <2>2, KeepTurn DEF CreateEngine
<1>14. CASE LoadName(o)
  <2>1. ASSUME NEW e \in Engine, Keep(o, e), Continue(o, "destroy") PROVE RunsOK'
    <3>1. e \in Holdable /\ Holds("destroy", e)
      BY DEF Holdable, Holds
    <3> QED BY <1>0, <1>14, <2>1, <3>1, KeepTurn DEF LoadName
  <2>2. stateFile # None => stateFile \in Engine
    BY <1>0 DEF CloudOK
  <2> QED BY <1>0, <1>14, <2>1, <2>2, ExitTurn DEF LoadName, Live
<1>15. CASE DestroyEngine(o)
  BY <1>0, <1>15, StayTurn, ExitTurn DEF DestroyEngine, Holds
<1> QED BY <1>1, <1>2, <1>3, <1>4, <1>5, <1>6, <1>7, <1>8, <1>9, <1>10, <1>11, <1>12, <1>13,
           <1>14, <1>15 DEF Act

(* The provider's side, and what is remembered.                            *)
LEMMA ExitKeeps ==
  ASSUME CloudOK, NEW o \in Operator, RunsOK, pc[o] # "idle", Succeed(o) \/ Stop(o)
  PROVE  done' \subseteq Script /\ refused' \subseteq Script
  BY BusyRun DEF CloudOK, Succeed, Stop

LEMMA WantedIs ==
  ASSUME RunsOK, NEW o \in Operator, pc[o] \in {"look", "make"}
  PROVE  /\ job[o] \in {"bootstrap", "dataroom"} /\ pos[o] \in 1 .. Len(Plan(job[o]))
         /\ job[o] = "bootstrap" => Wanted(o) \in Basics
         /\ job[o] = "dataroom" => Wanted(o) \in Rooms
         /\ Wanted(o) \in Resource
<1>1. job[o] \in {"bootstrap", "dataroom"} /\ pos[o] \in 1 .. Len(Plan(job[o]))
  BY DEF RunsOK, InPlan
<1> QED BY <1>1, PlanLengths, PlanIs, ResourceIs DEF Wanted

LEMMA CommitGrows ==
  ASSUME NEW q \in Policy
  PROVE  /\ Commit(q) \in Policy /\ Commit(q).etag = q.etag + 1
         /\ Commit(q).bindings = q.bindings /\ Commit(q).audits = q.audits
<1>1. q.etag + 1 \in Nat /\ q.bindings \in SUBSET Member /\ q.audits \in SUBSET Audit
  BY DEF Policy
<1>2. Commit(q) = [bindings |-> q.bindings, audits |-> q.audits, etag |-> q.etag + 1]
  BY DEF Commit, Policy
<1> HIDE DEF Commit
<1> QED BY <1>1, <1>2 DEF Policy

LEMMA MergeGrows ==
  ASSUME NEW q \in Policy
  PROVE  /\ Merge(q) \in Policy /\ Merge(q).etag = q.etag
         /\ q.bindings = Merge(q).bindings /\ q.audits \subseteq Merge(q).audits
  BY DEF Policy, Merge, Audit

LEMMA OthersGrow ==
  ASSUME NEW q \in Policy
  PROVE  /\ [q EXCEPT !.audits = @ \cup {"other"}] \in Policy
         /\ \A m \in Member : [q EXCEPT !.bindings = @ \cup {m}] \in Policy
  BY DEF Policy, Audit

LEMMA ActCloud ==
  ASSUME TypeOK, NEW o \in Operator, Act(o)
  PROVE  CloudOK'
<1>0. RunsOK /\ CloudOK /\ Holds(pc[o], held[o])
  BY TypeIs DEF RunsOK
<1> USE DEF CloudOK
<1>1. CASE CutShort(o)
  BY <1>0, <1>1 DEF CutShort, Exit, RunsOK
<1>2. CASE Look(o) \/ LookFails(o)
  BY <1>0, <1>2, ExitKeeps DEF Look, LookFails, Onward, Continue
<1>3. CASE Make(o)
  <2>1. Wanted(o) \in Resource
    BY <1>0, <1>3, WantedIs DEF Make
  <2>2. count' \in [Resource -> Nat]
    BY <1>0, <1>3, <2>1 DEF Make
  <2> QED BY <1>0, <1>3, <2>2, ExitKeeps DEF Make, Onward, Continue
<1>4. CASE FindBudget(o) \/ FindMisses(o)
  BY <1>0, <1>4 DEF FindBudget, FindMisses, Continue
<1>5. CASE CreateCap(o)
  BY <1>0, <1>5 DEF CreateCap, Continue, BudgetState
<1>6. CASE DescribeBudget(o)
  BY <1>0, <1>6 DEF DescribeBudget, Continue
<1>7. CASE RemoveCap(o) \/ UpdateCap(o)
  <2>1. budgets' \in [Budget -> BudgetState]
    BY <1>0, <1>7 DEF RemoveCap, UpdateCap, BudgetState
  <2> QED BY <1>0, <1>7, <2>1, ExitKeeps DEF RemoveCap, UpdateCap, Continue
<1>8. CASE VerifyBootstrap(o) \/ VerifyGuardrails(o)
  BY <1>0, <1>8, ExitKeeps DEF VerifyBootstrap, VerifyGuardrails
<1>9. CASE ReadPolicy(o)
  BY <1>0, <1>9 DEF ReadPolicy, Continue
<1>10. CASE SetPolicy(o)
  <2>1. policy' \in Policy
    <3>1. ASSUME NEW q \in Policy PROVE Commit(Merge(q)) \in Policy
      BY <3>1, CommitGrows, MergeGrows
    <3> QED BY <1>0, <1>10, <3>1 DEF SetPolicy, Holds
  <2> QED BY <1>0, <1>10, <2>1, ExitKeeps DEF SetPolicy, Continue
<1>11. CASE CreateEngine(o) \/ DestroyEngine(o)
  <2>1. engines' \in [Engine -> EngineState]
    BY <1>0, <1>11 DEF CreateEngine, DestroyEngine, EngineState
  <2> QED BY <1>0, <1>11, <2>1, ExitKeeps DEF CreateEngine, DestroyEngine, Continue
<1>12. CASE WriteState(o)
  BY <1>0, <1>12, ExitKeeps DEF WriteState, Holds
<1>13. CASE LoadName(o) \/ UnlinkState(o)
  BY <1>0, <1>13, ExitKeeps DEF LoadName, UnlinkState, Continue
<1> QED BY <1>1, <1>2, <1>3, <1>4, <1>5, <1>6, <1>7, <1>8, <1>9, <1>10, <1>11, <1>12, <1>13 DEF Act

Console == DriftBudget \/ Administer \/ CreateKey

(* Flags are raised, tallies go up by one.                                 *)
LEMMA ActFlags ==
  ASSUME FlagsOK, NEW o \in Operator, Act(o)
  PROVE  FlagsOK'
<1>1. /\ glitched' = glitched \/ glitched' = TRUE
      /\ capped' = capped \/ capped' = TRUE
      /\ keys' = keys /\ overlapped' = overlapped
  BY DEF Act, CutShort, Look, LookFails, Make, FindBudget, FindMisses, CreateCap, DescribeBudget,
         RemoveCap, UpdateCap, VerifyBootstrap, ReadPolicy, SetPolicy, VerifyGuardrails,
         CreateEngine, WriteState, LoadName, DestroyEngine, UnlinkState
<1> QED BY <1>1, ZenonT(30) DEF FlagsOK

LEMMA ActTally ==
  ASSUME TallyOK, NEW o \in Operator, Act(o)
  PROVE  TallyOK'
<1>1. runs' = runs /\ outside' = outside /\ (faults' = faults \/ faults' = faults + 1)
  BY DEF Act, CutShort, Look, LookFails, Make, FindBudget, FindMisses, CreateCap, DescribeBudget,
         RemoveCap, UpdateCap, VerifyBootstrap, ReadPolicy, SetPolicy, VerifyGuardrails,
         CreateEngine, WriteState, LoadName, DestroyEngine, UnlinkState
<1> QED BY <1>1 DEF TallyOK

LEMMA ConsoleTypes ==
  ASSUME TypeOK, Console
  PROVE  TypeOK' /\ UNCHANGED <<job, pc, pos, held, count, engines, stateFile, done, past, refused>>
<1>0. RunsOK /\ CloudOK /\ FlagsOK /\ TallyOK
  BY TypeIs
<1>1. UNCHANGED <<job, pc, pos, held, count, engines, stateFile, done, past, refused>>
  BY DEF Console, DriftBudget, Administer, CreateKey
<1>2. RunsOK'
  BY <1>0, <1>1 DEF RunsOK
<1>3. budgets' \in [Budget -> BudgetState]
  BY <1>0 DEF Console, DriftBudget, Administer, CreateKey, CloudOK, Caps, BudgetState
<1>4. policy' \in Policy
  <2>1. ASSUME NEW m \in Member
        PROVE  Commit([policy EXCEPT !.bindings = @ \cup {m}]) \in Policy
    BY <1>0, CommitGrows, OthersGrow DEF CloudOK
  <2>2. Commit([policy EXCEPT !.audits = @ \cup {"other"}]) \in Policy
    BY <1>0, CommitGrows, OthersGrow DEF CloudOK
  <2> QED BY <1>0, <2>1, <2>2 DEF Console, DriftBudget, Administer, CreateKey, CloudOK
<1>5. CloudOK'
  BY <1>0, <1>1, <1>3, <1>4 DEF CloudOK
<1>6. keys' = keys \/ keys' = TRUE
  BY DEF Console, DriftBudget, Administer, CreateKey
<1>7. FlagsOK'
  BY <1>0, <1>1, <1>6, ZenonT(30) DEF FlagsOK
<1>8. outside' = outside + 1 /\ UNCHANGED <<runs, faults>>
  BY DEF Console, DriftBudget, Administer, CreateKey, Outside
<1>9. TallyOK'
  BY <1>0, <1>8 DEF TallyOK
<1> QED BY <1>1, <1>2, <1>5, <1>7, <1>9, TypeIsPrime

LEMMA NextCases ==
  ASSUME Next
  PROVE  \/ \E o \in Operator : (\E s \in Script : Begin(o, s)) \/ Act(o)
         \/ Console
  BY DEF Next, Act, Console

LEMMA TypesStep == TypeOK /\ [Next]_vars => TypeOK'
<1> SUFFICES ASSUME TypeOK, [Next]_vars PROVE TypeOK'
  OBVIOUS
<1>0. RunsOK /\ CloudOK /\ FlagsOK /\ TallyOK
  BY TypeIs
<1>1. CASE UNCHANGED vars
  BY <1>1 DEF vars, TypeOK
<1>2. ASSUME NEW o \in Operator, NEW s \in Script, Begin(o, s) PROVE TypeOK'
  <2>1. CloudOK' /\ TallyOK'
    BY <1>0, <1>2 DEF Begin, CloudOK, TallyOK
  <2>2. FlagsOK'
    BY <1>0, <1>2, ZenonT(30) DEF Begin, FlagsOK
  <2> QED BY <1>0, <1>2, <2>1, <2>2, BeginTurn, TypeIsPrime
<1>3. ASSUME NEW o \in Operator, Act(o) PROVE TypeOK'
  BY <1>0, <1>3, ActTurn, ActCloud, ActFlags, ActTally, TypeIsPrime
<1> QED BY <1>1, <1>2, <1>3, NextCases, ConsoleTypes

(* The cloud, the runs under way and the histories are of their types: no  *)
(* run is at a call without what that call is about.                       *)
THEOREM TypeCorrect == Spec => []TypeOK
<1>1. TypeOK /\ [Next]_vars => TypeOK'
  BY TypesStep
<1> QED BY InitTypes, <1>1, PTL DEF Spec

-----------------------------------------------------------------------------
(* CONTROL                                                                 *)

(* A run leaves the others alone and keeps its script until it is over.    *)
LEMMA OthersStay ==
  ASSUME TypeOK, NEW o \in Operator, Act(o) \/ (\E s \in Script : Begin(o, s)),
         NEW q \in Operator, q # o
  PROVE  pc'[q] = pc[q] /\ job'[q] = job[q] /\ pos'[q] = pos[q] /\ held'[q] = held[q]
<1>0. RunsOK
  BY TypeIs
<1> USE <1>0 DEF RunsOK
<1>1. ASSUME Exit(o) PROVE pc'[q] = pc[q] /\ job'[q] = job[q] /\ pos'[q] = pos[q] /\ held'[q] = held[q]
  BY <1>1 DEF Exit, Goto, Keep
<1>2. ASSUME NEW p, Continue(o, p)
      PROVE  pc'[q] = pc[q] /\ job'[q] = job[q] /\ pos'[q] = pos[q]
  BY <1>2 DEF Continue, Goto
<1>3. ASSUME NEW v, Keep(o, v) PROVE held'[q] = held[q]
  BY <1>3 DEF Keep
<1>4. ASSUME Onward(o)
      PROVE  pc'[q] = pc[q] /\ job'[q] = job[q] /\ pos'[q] = pos[q] /\ held'[q] = held[q]
  BY <1>1, <1>2, <1>4 DEF Onward, Succeed, Goto
<1>5. CASE \E s \in Script : Begin(o, s)
  BY <1>5 DEF Begin, Goto
<1>6. CASE CutShort(o) \/ Look(o) \/ LookFails(o) \/ Make(o)
  BY <1>1, <1>2, <1>4, <1>6 DEF CutShort, Look, LookFails, Make, Stop
<1>7. CASE FindBudget(o) \/ FindMisses(o) \/ CreateCap(o) \/ DescribeBudget(o) \/ ReadPolicy(o)
           \/ CreateEngine(o)
  BY <1>2, <1>3, <1>7 DEF FindBudget, FindMisses, CreateCap, DescribeBudget, ReadPolicy, CreateEngine
<1>8. CASE RemoveCap(o) \/ UpdateCap(o) \/ SetPolicy(o) \/ LoadName(o) \/ DestroyEngine(o)
  BY <1>1, <1>2, <1>3, <1>8 DEF RemoveCap, UpdateCap, SetPolicy, LoadName, DestroyEngine, Stop
<1>9. CASE VerifyBootstrap(o) \/ VerifyGuardrails(o) \/ WriteState(o) \/ UnlinkState(o)
  BY <1>1, <1>9 DEF VerifyBootstrap, VerifyGuardrails, WriteState, UnlinkState, Succeed, Stop
<1> QED BY <1>5, <1>6, <1>7, <1>8, <1>9 DEF Act

(* The histories only grow.                                                *)
LEMMA HistoryGrows ==
  ASSUME NEW o \in Operator, Act(o) \/ (\E s \in Script : Begin(o, s))
  PROVE  (~overlapped' => ~overlapped) /\ (~glitched' => ~glitched) /\ cut \subseteq cut'
<1>1. ASSUME NEW s \in Script, Begin(o, s)
      PROVE  (~overlapped' => ~overlapped) /\ glitched' = glitched /\ cut' = cut
  BY <1>1, ZenonT(30) DEF Begin
<1>2. ASSUME Act(o)
      PROVE  /\ overlapped' = overlapped /\ (glitched' = glitched \/ glitched' = TRUE)
             /\ cut \subseteq cut'
  BY <1>2 DEF Act, CutShort, Look, LookFails, Make, FindBudget, FindMisses, CreateCap,
     DescribeBudget, RemoveCap, UpdateCap, VerifyBootstrap, ReadPolicy, SetPolicy, VerifyGuardrails,
     CreateEngine, WriteState, LoadName, DestroyEngine, UnlinkState
<1>3. CASE Act(o)
  <2>1. /\ overlapped' = overlapped /\ (glitched' = glitched \/ glitched' = TRUE)
        /\ cut \subseteq cut'
    BY <1>2, <1>3
  <2>2. ~glitched' => ~glitched
    BY <2>1
  <2>3. ~overlapped' => ~overlapped
    BY <2>1
  <2> QED BY <2>1, <2>2, <2>3
<1> QED BY <1>1, <1>3

LEMMA ExitIdles ==
  ASSUME TypeOK, NEW o \in Operator, Exit(o)
  PROVE  pc'[o] = "idle" /\ job'[o] = None
  BY TypeIs DEF RunsOK, Exit, Goto, Keep

LEMMA ContinueGoes ==
  ASSUME TypeOK, NEW o \in Operator, NEW p, Continue(o, p)
  PROVE  /\ pc'[o] = p /\ job'[o] = job[o] /\ pos'[o] = pos[o]
         /\ UNCHANGED <<job, pos, done, refused>>
  BY TypeIs DEF RunsOK, Continue, Goto

LEMMA KeepHolds == ASSUME TypeOK, NEW o \in Operator, NEW v, Keep(o, v) PROVE held'[o] = v
  BY TypeIs DEF RunsOK, Keep

(* The call a run comes to, from the one it made.                          *)
LEMMA ActGoes ==
  ASSUME TypeOK, NEW o \in Operator, Act(o)
  PROVE  \/ Exit(o) /\ pc'[o] = "idle" /\ job'[o] = None
         \/ /\ job'[o] = job[o]
            /\ \/ pc[o] \in {"look", "make"} /\ pc'[o] \in {"look", "make"}
               \/ pc[o] \in {"look", "make"} /\ pc'[o] = "find" /\ job[o] = "bootstrap"
               \/ pc[o] = "find" /\ pc'[o] \in {"describe", "create_cap"}
               \/ pc[o] \in {"create_cap", "recreate"} /\ pc'[o] = "verify"
               \/ pc[o] = "describe" /\ pc'[o] \in {"verify", "update", "remove"}
               \/ pc[o] = "remove" /\ pc'[o] = "recreate"
               \/ pc[o] = "update" /\ pc'[o] = "verify"
               \/ pc[o] = "read" /\ pc'[o] \in {"inspect", "set"}
               \/ pc[o] = "set" /\ pc'[o] = "inspect"
               \/ pc[o] = "create" /\ pc'[o] = "write"
               \/ pc[o] = "load" /\ pc'[o] = "destroy"
               \/ pc[o] = "destroy" /\ pc'[o] = "unlink"
<1> USE ExitIdles, ContinueGoes DEF Succeed, Stop
<1>1. CASE CutShort(o) \/ VerifyBootstrap(o) \/ VerifyGuardrails(o) \/ WriteState(o) \/ UnlinkState(o)
  BY <1>1 DEF CutShort, VerifyBootstrap, VerifyGuardrails, WriteState, UnlinkState
<1>2. ASSUME Onward(o)
      PROVE  \/ Exit(o) /\ pc'[o] = "idle" /\ job'[o] = None
             \/ job'[o] = job[o] /\ pc'[o] = "look"
             \/ job'[o] = job[o] /\ pc'[o] = "find" /\ job[o] = "bootstrap"
  BY <1>2, TypeIs DEF Onward, RunsOK, Goto
<1>3. CASE Look(o) \/ LookFails(o) \/ Make(o)
  BY <1>2, <1>3 DEF Look, LookFails, Make
<1>4. CASE FindBudget(o) \/ FindMisses(o) \/ CreateCap(o)
  BY <1>4 DEF FindBudget, FindMisses, CreateCap
<1>5. CASE DescribeBudget(o)
  BY <1>5 DEF DescribeBudget, Remedy
<1>6. CASE RemoveCap(o) \/ UpdateCap(o)
  BY <1>6 DEF RemoveCap, UpdateCap
<1>7. CASE ReadPolicy(o) \/ SetPolicy(o) \/ CreateEngine(o) \/ LoadName(o) \/ DestroyEngine(o)
  BY <1>7 DEF ReadPolicy, SetPolicy, CreateEngine, LoadName, DestroyEngine
<1> QED BY <1>1, <1>3, <1>4, <1>5, <1>6, <1>7 DEF Act

(* The steps of each script.                                               *)
StepsOf(s) ==
  CASE s = "bootstrap" -> {"look", "make", "find", "describe", "remove", "recreate", "update",
                           "create_cap", "verify"}
    [] s = "dataroom" -> {"look", "make"}
    [] s = "guardrails" -> {"read", "set", "inspect"}
    [] s = "deploy" -> {"create", "write"}
    [] s = "delete" -> {"load", "destroy", "unlink"}

OnScript(o) == job[o] # None => pc[o] \in StepsOf(job[o])

(* Two runs of one family are an overlap.                                  *)
Alone ==
  ~overlapped =>
    \A o, p \in Operator : o # p /\ job[o] # None => job[p] \notin Family(job[o])

ControlInv == TypeOK /\ Alone /\ \A o \in Operator : OnScript(o)

LEMMA FamilyIs ==
  /\ \A s \in Script : \A t : t \in Family(s) => t \in Script /\ s \in Family(t)
  /\ \A s \in Script : s \in Family(s)
  BY DEF Family

LEMMA ActControl ==
  ASSUME ControlInv, NEW o \in Operator, Act(o)
  PROVE  Alone' /\ \A q \in Operator : OnScript(q)'
<1>1. TypeOK /\ job[o] \in Script \cup {None} /\ OnScript(o) /\ overlapped' = overlapped
  BY TypeIs DEF ControlInv, RunsOK, Act, CutShort, Look, LookFails, Make, FindBudget, FindMisses,
     CreateCap, DescribeBudget, RemoveCap, UpdateCap, VerifyBootstrap, ReadPolicy, SetPolicy,
     VerifyGuardrails, CreateEngine, WriteState, LoadName, DestroyEngine, UnlinkState
<1>2. OnScript(o)'
  <2>1. CASE job'[o] = None
    BY <2>1 DEF OnScript
  <2>2. CASE job'[o] = job[o] /\ job[o] # None
    <3>1. pc[o] \in StepsOf(job[o])
      BY <1>1, <2>2 DEF OnScript
    <3>2. job[o] \in Script
      BY <1>1, <2>2
    <3>3. pc'[o] \in StepsOf(job[o])
      BY <1>1, <2>2, <3>1, <3>2, NoneAssumption, ActGoes DEF StepsOf
    <3> QED BY <2>2, <3>3 DEF OnScript
  <2> QED BY <1>1, <2>1, <2>2, ActGoes
<1>3. \A q \in Operator : q # o => job'[q] = job[q] /\ pc'[q] = pc[q]
  BY <1>1, OthersStay
<1>4. job'[o] = None \/ job'[o] = job[o]
  BY <1>1, ActGoes
<1>5. Alone'
  <2> SUFFICES ASSUME ~overlapped', NEW q \in Operator, NEW p \in Operator, q # p, job'[q] # None
               PROVE  job'[p] \notin Family(job'[q])
    BY DEF Alone
  <2>1. job'[q] = job[q] /\ job[q] # None
    BY <1>3, <1>4
  <2>2. job[p] \notin Family(job[q])
    BY <1>1, <2>1 DEF ControlInv, Alone
  <2>3. None \notin Family(job[q])
    <3>1. job[q] \in Script
      BY <1>1, <2>1, TypeIs DEF RunsOK
    <3> QED BY <3>1, FamilyIs, NoneAssumption
  <2> QED BY <1>3, <1>4, <2>1, <2>2, <2>3
<1> QED BY <1>2, <1>3, <1>5 DEF ControlInv, OnScript

LEMMA BeginControl ==
  ASSUME ControlInv, NEW o \in Operator, NEW s \in Script, Begin(o, s)
  PROVE  Alone' /\ \A q \in Operator : OnScript(q)'
<1>1. TypeOK /\ RunsOK
  BY TypeIs DEF ControlInv
<1>2. job'[o] = s /\ s # None
  BY <1>1, NoneAssumption DEF Begin, RunsOK
<1>3. pc'[o] = CASE s \in {"bootstrap", "dataroom"} -> "look"
                 [] s = "guardrails" -> "read"
                 [] s = "deploy" -> "create"
                 [] s = "delete" -> "load"
  BY <1>1 DEF Begin, RunsOK, Goto
<1>4. OnScript(o)'
  BY <1>2, <1>3 DEF OnScript, StepsOf
<1>5. \A q \in Operator : q # o => job'[q] = job[q] /\ pc'[q] = pc[q]
  BY <1>1, OthersStay
<1>6. ASSUME ~overlapped' PROVE ~overlapped /\ \A p \in Operator \ {o} : job[p] \notin Family(s)
  BY <1>6 DEF Begin
<1>7. Alone'
  <2> SUFFICES ASSUME ~overlapped', NEW q \in Operator, NEW p \in Operator, q # p, job'[q] # None
               PROVE  job'[p] \notin Family(job'[q])
    BY DEF Alone
  <2>1. job[q] \in Script \cup {None}
    BY <1>1 DEF RunsOK
  <2>2. CASE q = o
    BY <1>2, <1>5, <1>6, <2>2
  <2>3. CASE p = o
    BY <1>2, <1>5, <1>6, <2>1, <2>3, FamilyIs
  <2>4. CASE q # o /\ p # o
    BY <1>5, <1>6, <2>4 DEF ControlInv, Alone
  <2> QED BY <2>2, <2>3, <2>4
<1> QED BY <1>4, <1>5, <1>7 DEF ControlInv, OnScript

LEMMA ControlStep == ControlInv /\ [Next]_vars => ControlInv'
<1> SUFFICES ASSUME ControlInv, [Next]_vars PROVE ControlInv'
  OBVIOUS
<1>1. TypeOK /\ TypeOK'
  BY TypesStep DEF ControlInv
<1>2. CASE UNCHANGED vars
  BY <1>1, <1>2 DEF vars, ControlInv, Alone, OnScript
<1>3. CASE Console
  <2>1. UNCHANGED <<job, pc, overlapped>>
    BY <1>1, <1>3, ConsoleTypes
  <2> QED BY <1>1, <2>1 DEF ControlInv, Alone, OnScript
<1> QED BY <1>1, <1>2, <1>3, NextCases, ActControl, BeginControl DEF ControlInv

-----------------------------------------------------------------------------
(* THE COST CAP                                                            *)

(* Only two calls change which caps there are.                             *)
LEMMA ConsoleCaps == ASSUME TypeOK, Console PROVE Caps' = Caps /\ capped' = capped
<1>1. CloudOK
  BY TypeIs
<1>2. \A b \in Budget : budgets'[b] \in LiveBudget <=> budgets[b] \in LiveBudget
  BY <1>1 DEF Console, DriftBudget, Administer, CreateKey, CloudOK, LiveBudget, Caps
<1> QED BY <1>2, ConsoleTypes DEF Caps

LEMMA CapsStay ==
  ASSUME TypeOK, NEW o \in Operator, Act(o) \/ (\E s \in Script : Begin(o, s)),
         ~CreateCap(o), ~RemoveCap(o)
  PROVE  Caps' = Caps /\ capped' = capped
<1>1. CloudOK
  BY TypeIs
<1>2. CASE UpdateCap(o)
  <2>1. \A b \in Budget : budgets'[b] \in LiveBudget <=> budgets[b] \in LiveBudget
    BY <1>1, <1>2 DEF UpdateCap, CloudOK, LiveBudget
  <2> QED BY <1>2, <2>1 DEF Caps, UpdateCap
<1>3. CASE UNCHANGED <<budgets, capped>>
  BY <1>3 DEF Caps
<1> QED
  BY <1>2, <1>3
  DEF Act, CutShort, Look, LookFails, Make, FindBudget, FindMisses, DescribeBudget, VerifyBootstrap,
      ReadPolicy, SetPolicy, VerifyGuardrails, CreateEngine, WriteState, LoadName, DestroyEngine,
      UnlinkState, Begin

LEMMA CreateCapAdds ==
  ASSUME TypeOK, NEW o \in Operator, CreateCap(o)
  PROVE  \E b \in Budget \ Caps : Caps' = Caps \cup {b}
<1>1. PICK b \in Budget : budgets[b] = "unborn" /\ budgets' = [budgets EXCEPT ![b] = "right"]
  BY DEF CreateCap
<1>2. b \notin Caps /\ Caps' = Caps \cup {b}
  BY <1>1, TypeIs DEF Caps, LiveBudget, CloudOK
<1> QED BY <1>2

LEMMA RemoveCapRemoves ==
  ASSUME TypeOK, NEW o \in Operator, RemoveCap(o)
  PROVE  \/ held[o] \in Caps /\ Caps' = Caps \ {held[o]} /\ Continue(o, "recreate")
         \/ held[o] \notin Caps /\ Caps' = Caps /\ Stop(o)
<1>1. CASE held[o] \in Caps
  <2>1. budgets' = [budgets EXCEPT ![held[o]] = "gone"] /\ Continue(o, "recreate")
    BY <1>1 DEF RemoveCap
  <2>2. Caps' = Caps \ {held[o]}
    BY <1>1, <2>1, TypeIs DEF Caps, LiveBudget, CloudOK
  <2> QED BY <1>1, <2>1, <2>2
<1>2. CASE held[o] \notin Caps
  BY <1>2 DEF RemoveCap, Caps
<1> QED BY <1>1, <1>2

LEMMA CapStep == TypeOK /\ CapHeld /\ [Next]_vars => CapHeld'
<1> SUFFICES ASSUME TypeOK, CapHeld, [Next]_vars PROVE CapHeld'
  OBVIOUS
<1>1. CASE UNCHANGED vars
  BY <1>1 DEF vars, CapHeld, Caps
<1>2. CASE Console
  <2>1. UNCHANGED <<pc, cut>>
    BY <1>2, ConsoleTypes
  <2> QED BY <1>2, <2>1, ConsoleCaps DEF CapHeld
<1>3. ASSUME NEW o \in Operator, Act(o) \/ (\E s \in Script : Begin(o, s)) PROVE CapHeld'
  <2>1. CASE CreateCap(o)
    BY <2>1, CreateCapAdds DEF CapHeld
  <2>2. CASE RemoveCap(o)
    <3>1. CASE Continue(o, "recreate")
      BY <3>1, ContinueGoes DEF CapHeld
    <3>2. CASE held[o] \notin Caps /\ Caps' = Caps /\ Stop(o)
      <4>1. \A q \in Operator : pc[q] = "recreate" => pc'[q] = "recreate"
        BY <1>3, <2>2, OthersStay DEF RemoveCap
      <4>2. UNCHANGED <<capped, cut>>
        BY <2>2 DEF RemoveCap
      <4> QED BY <3>2, <4>1, <4>2 DEF CapHeld
    <3> QED BY <2>2, <3>1, <3>2, RemoveCapRemoves
  <2>3. CASE ~CreateCap(o) /\ ~RemoveCap(o)
    <3>1. Caps' = Caps /\ capped' = capped
      BY <1>3, <2>3, CapsStay
    <3>2. CASE \E q \in Operator \ {o} : pc[q] = "recreate"
      BY <1>3, <3>2, OthersStay DEF CapHeld
    <3>3. CASE pc[o] = "recreate"
      <4>1. CutShort(o)
        BY <1>3, <2>3, <3>3
        DEF Act, Begin, Look, LookFails, Make, FindBudget, FindMisses, DescribeBudget, UpdateCap,
            VerifyBootstrap, ReadPolicy, SetPolicy, VerifyGuardrails, CreateEngine, WriteState,
            LoadName, DestroyEngine, UnlinkState
      <4> QED BY <3>3, <4>1 DEF CutShort, CapHeld
    <3>4. CASE "recreate" \in cut
      <4>1. cut \subseteq cut'
        BY <1>3
        DEF Act, CutShort, Begin, Look, LookFails, Make, FindBudget, FindMisses, CreateCap,
            DescribeBudget, RemoveCap, UpdateCap, VerifyBootstrap, ReadPolicy, SetPolicy,
            VerifyGuardrails, CreateEngine, WriteState, LoadName, DestroyEngine, UnlinkState
      <4> QED BY <3>4, <4>1 DEF CapHeld
    <3> QED BY <3>1, <3>2, <3>3, <3>4 DEF CapHeld
  <2> QED BY <2>1, <2>2, <2>3
<1> QED BY <1>1, <1>2, <1>3, NextCases

(* A project that has had a cost cap is without one only while a run is    *)
(* between the two halves of a recreation, or after one was cut there.     *)
THEOREM CapIsHeld == Spec => []CapHeld
<1>1. Init => CapHeld
  BY DEF Init, CapHeld
<1>2. TypeOK /\ CapHeld /\ [Next]_vars => CapHeld'
  BY CapStep
<1> QED BY <1>1, <1>2, TypeCorrect, PTL DEF Spec

-----------------------------------------------------------------------------
(* THE POLICY                                                              *)

(* A policy that was read is the policy, or has an etag of the past.       *)
ReadOnce(o) ==
  pc[o] = "set" => /\ held[o].etag <= policy.etag
                   /\ held[o].etag = policy.etag => held[o] = policy

PolicyInv == TypeOK /\ \A o \in Operator : ReadOnce(o)

(* It stays, or it grows under a new etag.                                 *)
PolicyMoves ==
  \/ policy' = policy
  \/ /\ policy'.etag = policy.etag + 1
     /\ policy.bindings \subseteq policy'.bindings /\ policy.audits \subseteq policy'.audits

LEMMA SetPolicyMoves ==
  ASSUME PolicyInv, NEW o \in Operator, SetPolicy(o)
  PROVE  PolicyMoves
<1>1. policy \in Policy /\ pc[o] = "set" /\ ReadOnce(o)
  BY TypeIs DEF PolicyInv, CloudOK, SetPolicy
<1>2. CASE held[o].etag = policy.etag
  <2>1. policy' = Commit(Merge(policy))
    BY <1>1, <1>2 DEF SetPolicy, ReadOnce
  <2> QED BY <1>1, <2>1, MergeGrows, CommitGrows DEF PolicyMoves
<1>3. CASE held[o].etag # policy.etag
  BY <1>3 DEF SetPolicy, PolicyMoves
<1> QED BY <1>2, <1>3

LEMMA AdministerMoves == ASSUME TypeOK, Administer PROVE PolicyMoves
<1>1. policy \in Policy
  BY TypeIs DEF CloudOK
<1>2. ASSUME NEW m \in Member, policy' = Commit([policy EXCEPT !.bindings = @ \cup {m}])
      PROVE  PolicyMoves
  <2> DEFINE q == [policy EXCEPT !.bindings = @ \cup {m}]
  <2>1. /\ q \in Policy /\ q.etag = policy.etag /\ policy.bindings \subseteq q.bindings
        /\ q.audits = policy.audits /\ policy' = Commit(q)
    BY <1>1, <1>2, OthersGrow DEF Policy
  <2> HIDE DEF q
  <2> QED BY <2>1, CommitGrows DEF PolicyMoves
<1>3. ASSUME policy' = Commit([policy EXCEPT !.audits = @ \cup {"other"}])
      PROVE  PolicyMoves
  <2> DEFINE q == [policy EXCEPT !.audits = @ \cup {"other"}]
  <2>1. /\ q \in Policy /\ q.etag = policy.etag /\ policy.bindings = q.bindings
        /\ policy.audits \subseteq q.audits /\ policy' = Commit(q)
    BY <1>1, <1>3, OthersGrow DEF Policy
  <2> HIDE DEF q
  <2> QED BY <2>1, CommitGrows DEF PolicyMoves
<1> QED BY <1>2, <1>3 DEF Administer

LEMMA NextPolicyMoves == ASSUME PolicyInv, [Next]_vars PROVE PolicyMoves
<1>1. ASSUME NEW o \in Operator, Act(o), ~SetPolicy(o) PROVE policy' = policy
  BY <1>1 DEF Act, CutShort, Look, LookFails, Make, FindBudget, FindMisses, CreateCap,
     DescribeBudget, RemoveCap, UpdateCap, VerifyBootstrap, ReadPolicy, VerifyGuardrails,
     CreateEngine, WriteState, LoadName, DestroyEngine, UnlinkState
<1>2. ASSUME NEW o \in Operator, NEW s \in Script, Begin(o, s) PROVE policy' = policy
  BY <1>2 DEF Begin
<1>3. DriftBudget \/ CreateKey \/ UNCHANGED vars => policy' = policy
  BY DEF DriftBudget, CreateKey, vars
<1> QED BY <1>1, <1>2, <1>3, NextCases, SetPolicyMoves, AdministerMoves DEF Console, PolicyMoves,
        PolicyInv

LEMMA PolicyStep == PolicyInv /\ [Next]_vars => PolicyInv'
<1> SUFFICES ASSUME PolicyInv, [Next]_vars PROVE PolicyInv'
  OBVIOUS
<1>1. TypeOK /\ TypeOK' /\ PolicyMoves
  BY TypesStep, NextPolicyMoves DEF PolicyInv
<1>2. policy \in Policy /\ policy' \in Policy
  BY <1>1, TypeIs, TypeIsPrime DEF CloudOK
<1>3. policy.etag \in Nat /\ policy'.etag \in Nat
  BY <1>2 DEF Policy
<1>4. ASSUME NEW q \in Operator, pc[q] = "set", held'[q] = held[q] PROVE ReadOnce(q)'
  <2>1. held[q] \in Policy /\ ReadOnce(q)
    BY <1>1, <1>4, TypeIs DEF RunsOK, Holds, PolicyInv
  <2>2. held[q].etag \in Nat
    BY <2>1 DEF Policy
  <2> QED BY <1>1, <1>3, <1>4, <2>1, <2>2 DEF ReadOnce, PolicyMoves
<1>5. CASE UNCHANGED vars \/ Console
  <2>1. UNCHANGED <<pc, held>>
    BY <1>1, <1>5, ConsoleTypes DEF vars
  <2>2. ASSUME NEW q \in Operator PROVE ReadOnce(q)'
    BY <1>4, <2>1 DEF ReadOnce
  <2> QED BY <1>1, <2>2 DEF PolicyInv
<1>6. ASSUME NEW o \in Operator, Act(o) \/ (\E s \in Script : Begin(o, s)) PROVE PolicyInv'
  <2>1. ASSUME NEW q \in Operator, q # o PROVE ReadOnce(q)'
    <3>1. pc'[q] = pc[q] /\ held'[q] = held[q]
      BY <1>1, <1>6, <2>1, OthersStay
    <3> QED BY <1>4, <3>1 DEF ReadOnce
  <2>2. ReadOnce(o)'
    <3>1. CASE pc'[o] # "set"
      BY <3>1 DEF ReadOnce
    <3>2. CASE ReadPolicy(o)
      <4>1. held'[o] = policy /\ policy' = policy
        BY <1>1, <3>2, KeepHolds DEF ReadPolicy
      <4> QED BY <1>3, <4>1 DEF ReadOnce
    <3>3. CASE pc'[o] = "set" /\ ~ReadPolicy(o)
      <4>1. ASSUME NEW s \in Script, Begin(o, s) PROVE FALSE
        BY <1>1, <3>3, <4>1, TypeIs DEF Begin, Goto, RunsOK
      <4>2. pc[o] = "read"
        BY <1>1, <1>6, <3>3, <4>1, ActGoes
      <4>3. CutShort(o)
        BY <1>6, <3>3, <4>1, <4>2
        DEF Act, Look, LookFails, Make, FindBudget, FindMisses, CreateCap, DescribeBudget, RemoveCap,
            UpdateCap, VerifyBootstrap, SetPolicy, VerifyGuardrails, CreateEngine, WriteState,
            LoadName, DestroyEngine, UnlinkState
      <4> QED BY <1>1, <3>3, <4>3, ExitIdles DEF CutShort
    <3> QED BY <3>1, <3>2, <3>3
  <2> QED BY <1>1, <2>1, <2>2 DEF PolicyInv
<1> QED BY <1>5, <1>6, NextCases

(* What others write into the policy between a script's read and its write *)
(* is not lost: the write back is refused unless it is of the policy as it *)
(* stands.                                                                 *)
THEOREM PolicyIsKept == Spec => PolicyKept
<1>1. Init => PolicyInv
  BY InitTypes DEF PolicyInv, Init, ReadOnce
<1>2. PolicyInv /\ [Next]_vars => PolicyInv'
  BY PolicyStep
<1>3. PolicyInv /\ [Next]_vars =>
        [policy.bindings \subseteq policy'.bindings /\ policy.audits \subseteq policy'.audits]_vars
  BY NextPolicyMoves DEF PolicyMoves
<1> QED BY <1>1, <1>2, <1>3, PTL DEF Spec, PolicyKept

-----------------------------------------------------------------------------
(* THE STATE FILE                                                          *)

(* An engine that waits for its name to be written lives.                  *)
EngineWaits(o) == pc[o] = "write" /\ ~overlapped => held[o] \in Live

FileInv == ControlInv /\ FileNamesLive /\ \A o \in Operator : EngineWaits(o)

(* The engines that live change in two calls, of one family of scripts.    *)
LEMMA LiveStays ==
  ASSUME NEW o \in Operator, Act(o) \/ (\E s \in Script : Begin(o, s)), ~CreateEngine(o),
         ~DestroyEngine(o)
  PROVE  engines' = engines /\ Live' = Live
<1>1. engines' = engines
  BY DEF Act, CutShort, Begin, Look, LookFails, Make, FindBudget, FindMisses, CreateCap,
     DescribeBudget, RemoveCap, UpdateCap, VerifyBootstrap, ReadPolicy, SetPolicy, VerifyGuardrails,
     WriteState, LoadName, UnlinkState
<1> QED BY <1>1 DEF Live

LEMMA EngineChanges ==
  ASSUME TypeOK, NEW o \in Operator
  PROVE  /\ CreateEngine(o) => Live \subseteq Live' /\ held'[o] \in Live'
         /\ DestroyEngine(o) => Live' = Live \/ pc'[o] = "unlink"
<1>1. ASSUME CreateEngine(o) PROVE Live \subseteq Live' /\ held'[o] \in Live'
  <2>1. PICK e \in Engine : engines[e] = "unborn" /\ engines' = [engines EXCEPT ![e] = "live"] /\ Keep(o, e)
    BY <1>1 DEF CreateEngine
  <2> QED BY <2>1, KeepHolds, TypeIs DEF Live, CloudOK
<1>2. ASSUME DestroyEngine(o) PROVE Live' = Live \/ pc'[o] = "unlink"
  BY <1>2, ContinueGoes DEF DestroyEngine, Live
<1> QED BY <1>1, <1>2

LEMMA FilePhases ==
  ASSUME ControlInv, NEW o \in Operator
  PROVE  /\ pc[o] \in {"create", "write"} => job[o] = "deploy"
         /\ pc[o] \in {"load", "destroy", "unlink"} => job[o] = "delete"
<1>1. OnScript(o) /\ RunsOK
  BY TypeIs DEF ControlInv
<1>2. pc[o] # "idle" => job[o] \in Script /\ job[o] # None
  BY <1>1 DEF RunsOK
<1> QED BY <1>1, <1>2 DEF OnScript, StepsOf

LEMMA FileAlone ==
  ASSUME ControlInv, ~overlapped, NEW o \in Operator, NEW q \in Operator, o # q,
         job[o] \in {"deploy", "delete"}
  PROVE  job[q] \notin {"deploy", "delete"}
  BY NoneAssumption DEF ControlInv, Alone, Family

LEMMA ActWaits ==
  ASSUME FileInv, NEW o \in Operator, Act(o) \/ (\E s \in Script : Begin(o, s)),
         NEW q \in Operator
  PROVE  EngineWaits(q)'
<1> SUFFICES ASSUME pc'[q] = "write", ~overlapped' PROVE held'[q] \in Live'
  BY DEF EngineWaits
<1>1. TypeOK /\ ControlInv /\ ~overlapped
  BY HistoryGrows DEF FileInv, ControlInv
<1>2. CASE q = o
  <2>1. Act(o) /\ pc[o] = "create"
    <3>1. ASSUME NEW s \in Script, Begin(o, s) PROVE FALSE
      BY <1>1, <1>2, <3>1, TypeIs DEF Begin, Goto, RunsOK
    <3> QED BY <1>1, <1>2, <3>1, ActGoes
  <2>2. CutShort(o) \/ CreateEngine(o)
    BY <2>1
    DEF Act, Look, LookFails, Make, FindBudget, FindMisses, CreateCap, DescribeBudget, RemoveCap,
        UpdateCap, VerifyBootstrap, ReadPolicy, SetPolicy, VerifyGuardrails, WriteState,
        LoadName, DestroyEngine, UnlinkState
  <2>3. ~CutShort(o)
    BY <1>1, <1>2, ExitIdles DEF CutShort
  <2> QED BY <1>1, <1>2, <2>2, <2>3, EngineChanges
<1>3. CASE q # o
  <2>1. pc[q] = "write" /\ held'[q] = held[q]
    BY <1>1, <1>3, OthersStay
  <2>2. held[q] \in Live
    BY <1>1, <2>1 DEF FileInv, EngineWaits
  <2>3. ~DestroyEngine(o)
    BY <1>1, <1>3, <2>1, FilePhases, FileAlone DEF DestroyEngine
  <2> QED BY <1>1, <2>1, <2>2, <2>3, LiveStays, EngineChanges
<1> QED BY <1>2, <1>3

LEMMA ActFile ==
  ASSUME FileInv, NEW o \in Operator, Act(o) \/ (\E s \in Script : Begin(o, s))
  PROVE  FileNamesLive'
<1> SUFFICES ASSUME ~overlapped', stateFile' # None, "unlink" \notin cut',
                    \A q \in Operator : pc'[q] # "unlink"
             PROVE  stateFile' \in Live'
  BY DEF FileNamesLive
<1>1. TypeOK /\ ControlInv
  BY DEF FileInv, ControlInv
<1>2. ~overlapped /\ cut \subseteq cut'
  BY HistoryGrows
<1>3. CASE WriteState(o)
  BY <1>1, <1>2, <1>3 DEF WriteState, FileInv, EngineWaits, Live
<1>4. CASE UnlinkState(o)
  BY <1>4 DEF UnlinkState
<1>5. CASE ~WriteState(o) /\ ~UnlinkState(o)
  <2>1. stateFile' = stateFile
    BY <1>5 DEF Act, CutShort, Begin, Look, LookFails, Make, FindBudget, FindMisses,
       CreateCap, DescribeBudget, RemoveCap, UpdateCap, VerifyBootstrap, ReadPolicy, SetPolicy,
       VerifyGuardrails, CreateEngine, LoadName, DestroyEngine
  <2>2. ASSUME NEW q \in Operator, pc[q] = "unlink" PROVE FALSE
    <3>1. CASE q # o
      BY <1>1, <2>2, <3>1, OthersStay
    <3>2. CASE q = o
      <4>1. CutShort(o)
        BY <1>5, <2>2, <3>2 DEF Act, Begin, Look, LookFails, Make, FindBudget, FindMisses,
           CreateCap, DescribeBudget, RemoveCap, UpdateCap, VerifyBootstrap, ReadPolicy, SetPolicy,
           VerifyGuardrails, CreateEngine, LoadName, DestroyEngine
      <4> QED BY <2>2, <3>2, <4>1 DEF CutShort
    <3> QED BY <3>1, <3>2
  <2>3. stateFile \in Live
    BY <1>2, <2>1, <2>2 DEF FileInv, FileNamesLive
  <2> QED BY <1>1, <2>1, <2>3, LiveStays, EngineChanges
<1> QED BY <1>3, <1>4, <1>5

LEMMA FileStep == FileInv /\ [Next]_vars => FileInv'
<1> SUFFICES ASSUME FileInv, [Next]_vars PROVE FileInv'
  OBVIOUS
<1>1. ControlInv' /\ TypeOK
  BY ControlStep DEF FileInv, ControlInv
<1>2. CASE UNCHANGED vars \/ Console
  <2>1. UNCHANGED <<pc, held, engines, stateFile, overlapped, cut>>
    BY <1>1, <1>2, ConsoleTypes DEF vars
  <2> QED BY <1>1, <2>1 DEF FileInv, FileNamesLive, EngineWaits, Live
<1> QED BY <1>1, <1>2, NextCases, ActWaits, ActFile DEF FileInv

(* While nobody else deploys or deletes, the state file names an engine    *)
(* that lives, except between its deletion and the unlink.                 *)
THEOREM FileIsLive == Spec => []FileNamesLive
<1>1. Init => FileInv
  BY InitTypes DEF Init, FileInv, ControlInv, Alone, OnScript, FileNamesLive, EngineWaits
<1>2. FileInv /\ [Next]_vars => FileInv'
  BY FileStep
<1>3. FileInv => FileNamesLive
  BY DEF FileInv
<1> QED BY <1>1, <1>2, <1>3, PTL DEF Spec

-----------------------------------------------------------------------------
(* IDEMPOTENCE                                                             *)

(* What a script has passed in its plan is there.                          *)
Built(s) == \A i \in 1 .. Len(Plan(s)) : count[Plan(s)[i]] > 0

Passed(o) ==
  /\ pc[o] \in {"look", "make"} =>
       \A i \in 1 .. Len(Plan(job[o])) : i < pos[o] => count[Plan(job[o])[i]] > 0
  /\ job[o] = "bootstrap" /\ pc[o] \notin {"look", "make"} => Built("bootstrap")
  /\ job[o] = "dataroom" /\ ~overlapped => Built("bootstrap")

(* What it is about to make is missing, unless a lookup failed.            *)
Missing(o) ==
  pc[o] = "make" /\ ~overlapped /\ (~glitched \/ Wanted(o) \in Notification) => count[Wanted(o)] = 0

Single == ~overlapped => \A n \in Notification : count[n] <= 1

(* The cap that a bootstrap holds is there, and it makes one when there is *)
(* none.                                                                   *)
Capping(o) ==
  ~overlapped /\ ~glitched =>
    /\ pc[o] \in {"describe", "remove", "update"} => held[o] \in Caps
    /\ pc[o] \in {"create_cap", "recreate"} => Caps = {}
    /\ pc[o] = "verify" => Caps # {}

OneCap == ~overlapped /\ ~glitched => \A b, c \in Caps : b = c
Smooth == ~overlapped /\ ~glitched => refused \cap {"bootstrap", "dataroom"} = {}
Finished == "bootstrap" \in done => Built("bootstrap")

RerunInv ==
  /\ ControlInv /\ Single /\ OneCap /\ Smooth /\ Finished
  /\ \A o \in Operator : Passed(o) /\ Missing(o) /\ Capping(o)

Moves(o) == Act(o) \/ \E s \in Script : Begin(o, s)

LEMMA InitRerun == Init => RerunInv
<1> SUFFICES ASSUME Init PROVE RerunInv
  OBVIOUS
<1>1. ControlInv
  BY InitTypes DEF Init, ControlInv, Alone, OnScript
<1>2. Notification \subseteq Resource
  BY ResourceIs DEF Notification, Rooms
<1>3. Single /\ OneCap /\ Smooth /\ Finished
  BY <1>2 DEF Init, Single, OneCap, Smooth, Finished, Caps, LiveBudget
<1>4. ASSUME NEW o \in Operator PROVE Passed(o) /\ Missing(o) /\ Capping(o)
  BY NoneAssumption DEF Init, Passed, Missing, Capping
<1> QED BY <1>1, <1>3, <1>4 DEF RerunInv

(* Resources only come; a script makes the one it wants.                   *)
LEMMA CountMoves ==
  ASSUME TypeOK, NEW o \in Operator, Moves(o)
  PROVE  \/ count' = count
         \/ /\ Make(o) /\ ~Refused(Wanted(o)) /\ Wanted(o) \in Resource
            /\ count' = [count EXCEPT ![Wanted(o)] = IF Wanted(o) \in Notification THEN @ + 1 ELSE 1]
<1>1. CASE Make(o)
  BY <1>1, WantedIs, TypeIs DEF Make
<1>2. CASE ~Make(o)
  BY <1>2 DEF Moves, Act, CutShort, Begin, Look, LookFails, FindBudget, FindMisses, CreateCap,
     DescribeBudget, RemoveCap, UpdateCap, VerifyBootstrap, ReadPolicy, SetPolicy, VerifyGuardrails,
     CreateEngine, WriteState, LoadName, DestroyEngine, UnlinkState
<1> QED BY <1>1, <1>2

LEMMA CountGrows ==
  ASSUME TypeOK, NEW o \in Operator, Moves(o), NEW r \in Resource
  PROVE  /\ count[r] \in Nat /\ (count[r] > 0 => count'[r] > 0)
         /\ Make(o) /\ ~Refused(Wanted(o)) /\ r = Wanted(o) =>
              count'[r] > 0 /\ (count[r] = 0 => count'[r] <= 1)
<1>1. count \in [Resource -> Nat]
  BY TypeIs DEF CloudOK
<1>2. Make(o) /\ ~Refused(Wanted(o)) =>
        count' = [count EXCEPT ![Wanted(o)] = IF Wanted(o) \in Notification THEN @ + 1 ELSE 1]
  BY DEF Make
<1> QED BY <1>1, <1>2, CountMoves

LEMMA PlanResources ==
  ASSUME NEW s \in {"bootstrap", "dataroom"}, NEW i \in 1 .. Len(Plan(s))
  PROVE  Plan(s)[i] \in Resource
  BY PlanLengths, PlanIs, ResourceIs

LEMMA BuiltStays ==
  ASSUME TypeOK, NEW o \in Operator, Moves(o), Built("bootstrap")
  PROVE  Built("bootstrap")'
<1> SUFFICES ASSUME NEW i \in 1 .. Len(Plan("bootstrap")) PROVE count'[Plan("bootstrap")[i]] > 0
  BY DEF Built
<1> QED BY CountGrows, PlanResources DEF Built

(* On past a resource that is there.                                       *)
LEMMA OnwardGoes ==
  ASSUME TypeOK, NEW o \in Operator, pc[o] \in {"look", "make"}, Onward(o)
  PROVE  \/ /\ pc'[o] = "look" /\ pos'[o] = pos[o] + 1 /\ job'[o] = job[o]
            /\ UNCHANGED <<done, refused>>
         \/ /\ pc'[o] = "find" /\ pos[o] = Len(Plan(job[o])) /\ job'[o] = job[o]
            /\ job[o] = "bootstrap" /\ UNCHANGED <<done, refused>>
         \/ /\ pc'[o] = "idle" /\ job'[o] = None /\ job[o] = "dataroom" /\ Succeed(o)
<1>1. /\ RunsOK /\ pos[o] \in Nat /\ Len(Plan(job[o])) \in Nat
      /\ job[o] \in {"bootstrap", "dataroom"} /\ pos[o] \in 1 .. Len(Plan(job[o]))
  BY TypeIs, WantedIs, PlanLengths DEF RunsOK
<1>2. CASE pos[o] < Len(Plan(job[o]))
  BY <1>1, <1>2 DEF Onward, Goto, RunsOK
<1>3. CASE ~(pos[o] < Len(Plan(job[o]))) /\ job[o] = "bootstrap"
  BY <1>1, <1>3, ContinueGoes DEF Onward
<1>4. CASE ~(pos[o] < Len(Plan(job[o]))) /\ job[o] # "bootstrap"
  BY <1>1, <1>4, ExitIdles DEF Onward, Succeed
<1> QED BY <1>2, <1>3, <1>4

(* The plan of a run, as far as it has come.                               *)
LEMMA OnwardPassed ==
  ASSUME RerunInv, NEW o \in Operator, Moves(o), pc[o] \in {"look", "make"}, Onward(o),
         count'[Wanted(o)] > 0
  PROVE  Passed(o)'
<1>1. /\ TypeOK /\ Passed(o) /\ job[o] \in {"bootstrap", "dataroom"} /\ pos[o] \in Nat
      /\ (~overlapped' => ~overlapped)
  BY WantedIs, TypeIs, HistoryGrows DEF RerunInv, ControlInv, Moves, RunsOK
<1>2. ASSUME NEW i \in 1 .. Len(Plan(job[o])), i <= pos[o] PROVE count'[Plan(job[o])[i]] > 0
  <2>1. CASE i = pos[o]
    BY <2>1 DEF Wanted
  <2>2. CASE i # pos[o]
    <3>1. i < pos[o]
      BY <1>1, <1>2, <2>2
    <3>2. count[Plan(job[o])[i]] > 0
      BY <1>1, <3>1 DEF Passed
    <3> QED BY <1>1, <3>2, CountGrows, PlanResources
  <2> QED BY <2>1, <2>2
<1>3. job[o] = "dataroom" /\ ~overlapped' => Built("bootstrap")'
  BY <1>1, BuiltStays DEF Passed
<1>4. CASE pc'[o] = "look" /\ pos'[o] = pos[o] + 1 /\ job'[o] = job[o]
  <2>1. \A i \in 1 .. Len(Plan(job[o])) : i < pos'[o] => count'[Plan(job[o])[i]] > 0
    BY <1>1, <1>2, <1>4, PlanLengths
  <2> QED BY <1>3, <1>4, <2>1 DEF Passed, Plan
<1>5. CASE pc'[o] = "find" /\ pos[o] = Len(Plan(job[o])) /\ job'[o] = job[o] /\ job[o] = "bootstrap"
  <2>1. Built("bootstrap")'
    BY <1>2, <1>5, PlanLengths DEF Built
  <2> QED BY <1>3, <1>5, <2>1 DEF Passed
<1>6. CASE pc'[o] = "idle" /\ job'[o] = None
  BY <1>6, NoneAssumption DEF Passed
<1> QED BY <1>1, <1>4, <1>5, <1>6, OnwardGoes

LEMMA PassedKept ==
  ASSUME RerunInv, NEW o \in Operator, Moves(o), NEW q \in Operator
  PROVE  Passed(q)'
<1>1. TypeOK /\ Passed(q) /\ (~overlapped' => ~overlapped)
  BY HistoryGrows DEF RerunInv, ControlInv, Moves
<1>2. ASSUME pc'[q] = pc[q] \/ (pc[q] \in {"look", "make"} /\ pc'[q] \in {"look", "make"})
                            \/ (pc[q] \notin {"look", "make"} /\ pc'[q] \notin {"look", "make"}),
             job'[q] = job[q], pos'[q] = pos[q]
      PROVE  Passed(q)'
  <2>1. pc'[q] \in {"look", "make"} =>
          \A i \in 1 .. Len(Plan(job[q])) : i < pos[q] => count'[Plan(job[q])[i]] > 0
    <3> SUFFICES ASSUME pc'[q] \in {"look", "make"}, NEW i \in 1 .. Len(Plan(job[q])), i < pos[q]
                 PROVE  count'[Plan(job[q])[i]] > 0
      OBVIOUS
    <3>1. pc[q] \in {"look", "make"} /\ job[q] \in {"bootstrap", "dataroom"}
      BY <1>1, <1>2, TypeIs, WantedIs
    <3>2. count[Plan(job[q])[i]] > 0
      BY <1>1, <3>1 DEF Passed
    <3> QED BY <1>1, <3>1, <3>2, CountGrows, PlanResources
  <2>2. job[q] = "bootstrap" /\ pc'[q] \notin {"look", "make"} => Built("bootstrap")'
    BY <1>1, <1>2, BuiltStays DEF Passed
  <2>3. job[q] = "dataroom" /\ ~overlapped' => Built("bootstrap")'
    BY <1>1, BuiltStays DEF Passed
  <2> QED BY <1>2, <2>1, <2>2, <2>3 DEF Passed, Plan
<1>3. CASE q # o
  BY <1>1, <1>2, <1>3, OthersStay DEF Moves
<1>4. CASE q = o /\ \E s \in Script : Begin(o, s)
  <2>1. PICK s \in Script : Begin(o, s)
    BY <1>4
  <2>2. job'[o] = s /\ pos'[o] = 1 /\ (s \in {"bootstrap", "dataroom"} => pc'[o] = "look")
    BY <1>1, <2>1, TypeIs DEF Begin, RunsOK, Goto
  <2>3. s = "dataroom" /\ ~overlapped' => Built("bootstrap")'
    BY <1>1, <2>1, BuiltStays DEF Begin, RerunInv, Finished
  <2>4. \A i \in 1 .. Len(Plan(job'[o])) : ~(i < pos'[o])
    BY <2>2
  <2>5. pc'[o] \in {"look", "make"} =>
          \A i \in 1 .. Len(Plan(job'[o])) : i < pos'[o] => count'[Plan(job'[o])[i]] > 0
    BY <2>4
  <2> QED BY <1>4, <2>2, <2>3, <2>5 DEF Passed, Plan
<1>5. CASE q = o /\ Act(o)
  <2>1. CASE job'[o] = None /\ pc'[o] = "idle"
    BY <1>5, <2>1, NoneAssumption DEF Passed
  <2>2. CASE Look(o) \/ LookFails(o) \/ Make(o)
    <3>1. pc[o] \in {"look", "make"} /\ Wanted(o) \in Resource
      BY <1>1, <2>2, TypeIs, WantedIs DEF Look, LookFails, Make
    <3>2. CASE Look(o) /\ count[Wanted(o)] > 0
      BY <1>5, <3>1, <3>2, OnwardPassed DEF Look
    <3>3. CASE (Look(o) /\ ~(count[Wanted(o)] > 0)) \/ LookFails(o)
      <4>1. pc[o] = "look" /\ Continue(o, "make")
        BY <3>3 DEF Look, LookFails
      <4> QED BY <1>1, <1>2, <1>5, <4>1, ContinueGoes
    <3>4. CASE Make(o) /\ Refused(Wanted(o))
      BY <1>1, <2>1, <3>4, ExitIdles DEF Make, Stop
    <3>5. CASE Make(o) /\ ~Refused(Wanted(o))
      <4>1. Onward(o) /\ count'[Wanted(o)] > 0
        BY <1>1, <1>5, <3>1, <3>5, CountGrows DEF Make
      <4> QED BY <1>5, <3>1, <4>1, OnwardPassed
    <3> QED BY <2>2, <3>2, <3>3, <3>4, <3>5
  <2>3. CASE ~Look(o) /\ ~LookFails(o) /\ ~Make(o)
    <3>1. ASSUME pc[o] \in {"look", "make"} PROVE CutShort(o)
      BY <1>5, <2>3, <3>1
      DEF Act, FindBudget, FindMisses, CreateCap, DescribeBudget, RemoveCap, UpdateCap,
          VerifyBootstrap, ReadPolicy, SetPolicy, VerifyGuardrails, CreateEngine, WriteState,
          LoadName, DestroyEngine, UnlinkState
    <3>2. CASE CutShort(o)
      BY <1>1, <1>5, <2>1, <3>2, ExitIdles DEF CutShort
    <3>3. CASE pc[o] \notin {"look", "make"} /\ job'[o] = job[o] /\ pc'[o] \notin {"look", "make"}
      <4>1. job[o] = "bootstrap" /\ pc'[o] \notin {"look", "make"} => Built("bootstrap")'
        BY <1>1, <1>5, <3>3, BuiltStays DEF Passed
      <4>2. job[o] = "dataroom" /\ ~overlapped' => Built("bootstrap")'
        BY <1>1, <1>5, BuiltStays DEF Passed
      <4> QED BY <1>5, <3>3, <4>1, <4>2 DEF Passed
    <3> QED BY <1>1, <1>5, <2>1, <3>1, <3>2, <3>3, ActGoes
  <2> QED BY <2>2, <2>3
<1> QED BY <1>3, <1>4, <1>5 DEF Moves

(* Two scripts with a plan want different resources.                       *)
LEMMA WantedApart ==
  ASSUME ControlInv, ~overlapped, NEW o \in Operator, NEW q \in Operator, o # q,
         pc[o] = "make", pc[q] = "make"
  PROVE  Wanted(o) # Wanted(q)
<1>1. /\ job[o] \in {"bootstrap", "dataroom"} /\ job[q] \in {"bootstrap", "dataroom"}
      /\ job[o] = "bootstrap" => Wanted(o) \in Basics
      /\ job[o] = "dataroom" => Wanted(o) \in Rooms
      /\ job[q] = "bootstrap" => Wanted(q) \in Basics
      /\ job[q] = "dataroom" => Wanted(q) \in Rooms
  BY TypeIs, WantedIs DEF ControlInv
<1>2. job[q] # job[o]
  BY <1>1, NoneAssumption DEF ControlInv, Alone, Family
<1>3. Basics \cap Rooms = {}
  BY DEF Basics, Rooms
<1> QED BY <1>1, <1>2, <1>3

(* A run comes to a creation by a lookup.                                  *)
LEMMA ComesToMake ==
  ASSUME TypeOK, NEW o \in Operator, Moves(o), pc'[o] = "make"
  PROVE  /\ pc[o] = "look" /\ Continue(o, "make") /\ UNCHANGED count
         /\ \/ count[Wanted(o)] = 0
            \/ Wanted(o) \in Unchecked /\ glitched'
<1>1. ASSUME NEW s \in Script, Begin(o, s) PROVE FALSE
  BY <1>1, TypeIs DEF Begin, Goto, RunsOK
<1>2. Act(o) /\ pc[o] \in {"look", "make"}
  BY <1>1, ActGoes DEF Moves
<1>3. ~CutShort(o)
  BY ExitIdles DEF CutShort
<1>4. Look(o) \/ LookFails(o) \/ Make(o)
  BY <1>2, <1>3
  DEF Act, FindBudget, FindMisses, CreateCap, DescribeBudget, RemoveCap, UpdateCap,
      VerifyBootstrap, ReadPolicy, SetPolicy, VerifyGuardrails, CreateEngine, WriteState,
      LoadName, DestroyEngine, UnlinkState
<1>5. ~Onward(o) /\ ~Stop(o)
  BY <1>2, OnwardGoes, ExitIdles DEF Stop
<1>6. count[Wanted(o)] \in Nat
  BY <1>2, TypeIs, WantedIs DEF CloudOK
<1>7. CASE Look(o)
  BY <1>5, <1>6, <1>7 DEF Look
<1>8. CASE LookFails(o)
  BY <1>8 DEF LookFails
<1>9. CASE Make(o)
  BY <1>5, <1>9 DEF Make
<1> QED BY <1>4, <1>7, <1>8, <1>9

LEMMA MissingKept ==
  ASSUME RerunInv, NEW o \in Operator, Moves(o), NEW q \in Operator
  PROVE  Missing(q)'
<1>1. TypeOK /\ Missing(q) /\ (~overlapped' => ~overlapped) /\ (~glitched' => ~glitched) /\ ControlInv
  BY HistoryGrows DEF RerunInv, ControlInv, Moves
<1>2. SUFFICES ASSUME pc'[q] = "make", ~overlapped',
                      ~glitched' \/ Plan(job'[q])[pos'[q]] \in Notification
               PROVE  count'[Plan(job'[q])[pos'[q]]] = 0
  BY DEF Missing, Wanted, Plan
<1>3. CASE q # o
  <2>1. pc'[q] = pc[q] /\ job'[q] = job[q] /\ pos'[q] = pos[q]
    BY <1>1, <1>3, OthersStay DEF Moves
  <2>2. count[Wanted(q)] = 0
    BY <1>1, <1>2, <2>1 DEF Missing, Wanted
  <2>3. count'[Wanted(q)] = count[Wanted(q)]
    <3>1. CASE count' = count
      BY <3>1
    <3>2. CASE /\ Make(o) /\ Wanted(o) \in Resource
               /\ count' = [count EXCEPT ![Wanted(o)] = IF Wanted(o) \in Notification THEN @ + 1 ELSE 1]
      <4>1. Wanted(o) # Wanted(q)
        BY <1>1, <1>2, <1>3, <2>1, <3>2, WantedApart DEF Make
      <4>2. Wanted(q) \in Resource
        BY <1>1, <1>2, <2>1, TypeIs, WantedIs
      <4> QED BY <1>1, <3>2, <4>1, <4>2, TypeIs DEF CloudOK
    <3> QED BY <1>1, <3>1, <3>2, CountMoves
  <2> QED BY <2>1, <2>2, <2>3 DEF Wanted
<1>4. CASE q = o
  <2>1. /\ pc[o] = "look" /\ Continue(o, "make") /\ UNCHANGED count
        /\ \/ count[Wanted(o)] = 0
           \/ Wanted(o) \in Unchecked /\ glitched'
    BY <1>1, <1>2, <1>4, ComesToMake
  <2>2. job'[o] = job[o] /\ pos'[o] = pos[o]
    BY <1>1, <2>1, ContinueGoes
  <2>3. Unchecked \cap Notification = {}
    BY DEF Unchecked, Notification
  <2> QED BY <1>2, <1>4, <2>1, <2>2, <2>3 DEF Wanted
<1> QED BY <1>3, <1>4

LEMMA SingleKept ==
  ASSUME RerunInv, NEW o \in Operator, Moves(o)
  PROVE  Single'
<1>1. TypeOK /\ (~overlapped' => ~overlapped) /\ Missing(o)
  BY HistoryGrows DEF RerunInv, ControlInv, Moves
<1>2. SUFFICES ASSUME ~overlapped', NEW n \in Notification PROVE count'[n] <= 1
  BY DEF Single
<1>3. n \in Resource
  BY ResourceIs DEF Notification, Rooms
<1>4. CASE count' = count
  BY <1>1, <1>2, <1>4 DEF RerunInv, Single
<1>5. CASE Make(o) /\ ~Refused(Wanted(o)) /\ n = Wanted(o)
  <2>1. count[n] = 0
    BY <1>1, <1>2, <1>5 DEF Missing, Make
  <2> QED BY <1>1, <1>3, <1>5, <2>1, CountGrows
<1>6. CASE /\ n # Wanted(o) /\ Wanted(o) \in Resource
           /\ count' = [count EXCEPT ![Wanted(o)] = IF Wanted(o) \in Notification THEN @ + 1 ELSE 1]
  <2>1. count'[n] = count[n]
    BY <1>1, <1>3, <1>6, TypeIs DEF CloudOK
  <2> QED BY <1>1, <1>2, <2>1 DEF RerunInv, Single
<1> QED BY <1>1, <1>4, <1>5, <1>6, CountMoves

(* What ends as a success or is refused.                                   *)
LEMMA EndsOf ==
  ASSUME TypeOK, NEW o \in Operator, Moves(o)
  PROVE  \/ UNCHANGED <<done, refused>>
         \/ /\ done' = done \cup {job[o]} /\ UNCHANGED refused
            /\ job[o] = "bootstrap" => pc[o] \notin {"look", "make"}
         \/ /\ UNCHANGED done /\ refused' = refused \cup {job[o]}
            /\ \/ Make(o) /\ Refused(Wanted(o))
               \/ (RemoveCap(o) \/ UpdateCap(o)) /\ held[o] \notin Caps
               \/ /\ VerifyBootstrap(o)
                  /\ glitched' \/ ~(count["services"] > 0 /\ Caps # {} /\ count["billing"] > 0)
               \/ pc[o] \in {"set", "inspect", "load", "destroy"}
<1>1. CASE Look(o) \/ Make(o)
  <2>1. ASSUME Onward(o) PROVE \/ UNCHANGED <<done, refused>>
                               \/ /\ done' = done \cup {job[o]} /\ UNCHANGED refused
                                  /\ job[o] # "bootstrap"
    BY <2>1 DEF Onward, Succeed, Continue
  <2> QED BY <1>1, <2>1 DEF Look, Make, Stop, Continue
<1>2. CASE RemoveCap(o) \/ UpdateCap(o)
  BY <1>2 DEF RemoveCap, UpdateCap, Continue, Stop
<1>3. CASE VerifyBootstrap(o)
  BY <1>3 DEF VerifyBootstrap, Succeed, Stop
<1>4. CASE SetPolicy(o) \/ VerifyGuardrails(o)
  BY <1>4 DEF SetPolicy, VerifyGuardrails, Continue, Succeed, Stop
<1>5. CASE LoadName(o) \/ DestroyEngine(o)
  BY <1>5 DEF LoadName, DestroyEngine, Continue, Stop
<1>6. CASE UnlinkState(o) \/ WriteState(o)
  BY <1>6 DEF UnlinkState, WriteState, Succeed
<1>7. CASE \/ \E s \in Script : Begin(o, s)
           \/ CutShort(o) \/ LookFails(o) \/ FindBudget(o) \/ FindMisses(o) \/ CreateCap(o)
           \/ DescribeBudget(o) \/ ReadPolicy(o) \/ CreateEngine(o)
  BY <1>7 DEF Begin, CutShort, LookFails, FindBudget, FindMisses, CreateCap, DescribeBudget,
     ReadPolicy, CreateEngine, Continue
<1> QED BY <1>1, <1>2, <1>3, <1>4, <1>5, <1>6, <1>7 DEF Moves, Act

LEMMA FinishedKept ==
  ASSUME RerunInv, NEW o \in Operator, Moves(o)
  PROVE  Finished'
<1>1. TypeOK /\ Passed(o)
  BY DEF RerunInv, ControlInv
<1>2. "bootstrap" \in done' => Built("bootstrap")
  BY <1>1, EndsOf DEF RerunInv, Finished, Passed
<1> QED BY <1>1, <1>2, BuiltStays DEF Finished

CapSteps == {"find", "describe", "remove", "recreate", "update", "create_cap", "verify"}

(* Only a bootstrap is at the cap, and only one of them.                   *)
LEMMA CapAlone ==
  ASSUME ControlInv, NEW o \in Operator, pc[o] \in CapSteps
  PROVE  /\ job[o] = "bootstrap"
         /\ ~overlapped => \A q \in Operator : q # o => pc[q] \notin CapSteps
<1>1. ASSUME NEW q \in Operator, pc[q] \in CapSteps PROVE job[q] = "bootstrap"
  <2>1. job[q] \in Script \cup {None} /\ job[q] # None /\ OnScript(q)
    BY <1>1, TypeIs DEF ControlInv, RunsOK, CapSteps
  <2> QED BY <1>1, <2>1 DEF OnScript, StepsOf, CapSteps
<1>2. ~overlapped => \A q \in Operator : q # o => job[q] # "bootstrap"
  BY <1>1, NoneAssumption DEF ControlInv, Alone, Family
<1> QED BY <1>1, <1>2

(* The call that comes after, at the cap.                                  *)
LEMMA CapGoes ==
  ASSUME ControlInv, NEW o \in Operator, Act(o), ~glitched', Capping(o), OneCap, ~overlapped
  PROVE  /\ pc'[o] \in {"describe", "remove", "update"} => held'[o] \in Caps'
         /\ pc'[o] \in {"create_cap", "recreate"} => Caps' = {}
         /\ pc'[o] = "verify" => Caps' # {}
<1>1. TypeOK /\ ~glitched
  BY HistoryGrows DEF ControlInv
<1> USE <1>1, ExitIdles, ContinueGoes
<1>2. CASE FindBudget(o)
  <2>1. Caps' = Caps
    BY <1>2 DEF FindBudget, Caps
  <2>2. CASE \E b \in Caps : Keep(o, b) /\ Continue(o, "describe")
    BY <2>1, <2>2, KeepHolds
  <2>3. CASE Caps = {} /\ Continue(o, "create_cap")
    BY <2>1, <2>3
  <2> QED BY <1>2, <2>2, <2>3 DEF FindBudget
<1>3. CASE CreateCap(o)
  <2>1. pc'[o] = "verify" /\ Caps' # {}
    BY <1>3, CreateCapAdds DEF CreateCap
  <2> QED BY <2>1
<1>4. CASE DescribeBudget(o)
  <2>1. Caps' = Caps /\ held' = held /\ held[o] \in Caps
    BY <1>4 DEF DescribeBudget, Caps, Capping
  <2>2. pc'[o] \in {"verify", "update", "remove"}
    BY <1>4 DEF DescribeBudget, Remedy
  <2> QED BY <2>1, <2>2
<1>5. CASE RemoveCap(o)
  <2>1. held[o] \in Caps
    BY <1>5 DEF RemoveCap, Capping
  <2>2. Caps' = Caps \ {held[o]} /\ pc'[o] = "recreate"
    BY <1>5, <2>1, RemoveCapRemoves
  <2> QED BY <2>1, <2>2 DEF OneCap
<1>6. CASE UpdateCap(o)
  <2>1. held[o] \in Caps /\ pc'[o] = "verify"
    BY <1>6 DEF UpdateCap, Capping
  <2>2. Caps' = Caps
    BY <1>6, CapsStay DEF UpdateCap, CreateCap, RemoveCap
  <2> QED BY <2>1, <2>2
<1>7. CASE ~(FindBudget(o) \/ CreateCap(o) \/ DescribeBudget(o) \/ RemoveCap(o) \/ UpdateCap(o))
  <2>1. ~FindMisses(o)
    BY DEF FindMisses
  <2>2. ASSUME pc[o] \in CapSteps PROVE CutShort(o) \/ VerifyBootstrap(o)
    BY <1>7, <2>1, <2>2
    DEF CapSteps, Act, Look, LookFails, Make, ReadPolicy, SetPolicy, VerifyGuardrails, CreateEngine,
        WriteState, LoadName, DestroyEngine, UnlinkState
  <2>3. CASE CutShort(o) \/ VerifyBootstrap(o)
    <3>1. pc'[o] = "idle"
      BY <2>3 DEF CutShort, VerifyBootstrap, Succeed, Stop
    <3> QED BY <3>1
  <2>4. CASE pc[o] \notin CapSteps
    <3>1. pc'[o] \notin {"describe", "remove", "update", "create_cap", "recreate", "verify"}
      BY <2>4, ActGoes DEF CapSteps
    <3> QED BY <3>1
  <2> QED BY <2>2, <2>3, <2>4
<1> QED BY <1>2, <1>3, <1>4, <1>5, <1>6, <1>7

LEMMA CappingKept ==
  ASSUME RerunInv, NEW o \in Operator, Moves(o), NEW q \in Operator
  PROVE  Capping(q)'
<1>1. /\ TypeOK /\ ControlInv /\ Capping(q) /\ Capping(o) /\ OneCap
      /\ (~overlapped' => ~overlapped) /\ (~glitched' => ~glitched)
  BY HistoryGrows DEF RerunInv, ControlInv, Moves
<1>2. SUFFICES ASSUME ~overlapped', ~glitched'
               PROVE  /\ pc'[q] \in {"describe", "remove", "update"} => held'[q] \in Caps'
                      /\ pc'[q] \in {"create_cap", "recreate"} => Caps' = {}
                      /\ pc'[q] = "verify" => Caps' # {}
  BY DEF Capping
<1>3. CASE q # o
  <2>1. pc'[q] = pc[q] /\ held'[q] = held[q]
    BY <1>1, <1>3, OthersStay DEF Moves
  <2>2. CASE pc[q] \in CapSteps
    <3>1. pc[o] \notin CapSteps
      BY <1>1, <1>2, <1>3, <2>2, CapAlone
    <3>2. Caps' = Caps
      BY <1>1, <3>1, CapsStay DEF Moves, CreateCap, RemoveCap, CapSteps
    <3> QED BY <1>1, <1>2, <2>1, <3>2 DEF Capping
  <2>3. CASE pc[q] \notin CapSteps
    BY <2>1, <2>3 DEF CapSteps
  <2> QED BY <2>2, <2>3
<1>4. CASE q = o /\ Act(o)
  BY <1>1, <1>2, <1>4, CapGoes
<1>5. CASE q = o /\ \E s \in Script : Begin(o, s)
  <2>1. pc'[o] \in {"look", "read", "create", "load"}
    BY <1>1, <1>5, TypeIs DEF Begin, Goto, RunsOK
  <2> QED BY <1>5, <2>1
<1> QED BY <1>3, <1>4, <1>5 DEF Moves

LEMMA OneCapKept ==
  ASSUME RerunInv, NEW o \in Operator, Moves(o)
  PROVE  OneCap'
<1>1. /\ TypeOK /\ Capping(o) /\ OneCap
      /\ (~overlapped' => ~overlapped) /\ (~glitched' => ~glitched)
  BY HistoryGrows DEF RerunInv, ControlInv, Moves
<1>2. SUFFICES ASSUME ~overlapped', ~glitched' PROVE \A b, c \in Caps' : b = c
  BY DEF OneCap
<1>3. CASE CreateCap(o)
  <2>1. Caps = {}
    BY <1>1, <1>2, <1>3 DEF CreateCap, Capping
  <2> QED BY <1>1, <1>3, <2>1, CreateCapAdds
<1>4. CASE RemoveCap(o)
  BY <1>1, <1>2, <1>4, RemoveCapRemoves DEF OneCap
<1>5. CASE ~CreateCap(o) /\ ~RemoveCap(o)
  BY <1>1, <1>2, <1>5, CapsStay DEF Moves, OneCap
<1> QED BY <1>3, <1>4, <1>5

LEMMA NeedsOf ==
  /\ Needs("project") = {} /\ Needs("billing") = {"project"}
  /\ Needs("services") = {"project", "billing"} /\ Needs("staging") = {"project", "billing"}
  /\ \A r \in {"topic", "us", "eu"} : Needs(r) = {"project", "billing", "services"}
  /\ Needs("grant") = {"topic"} /\ Needs("subscription") = {"topic"}
  /\ Needs("us_note") = {"us", "topic", "grant"} /\ Needs("eu_note") = {"eu", "topic", "grant"}
  BY DEF Needs

(* What the provider wants to see has been passed.                         *)
LEMMA NeedsMet ==
  ASSUME RerunInv, ~overlapped, NEW o \in Operator, pc[o] = "make"
  PROVE  \A n \in Needs(Wanted(o)) : count[n] > 0
<1>1. /\ job[o] \in {"bootstrap", "dataroom"} /\ pos[o] \in 1 .. Len(Plan(job[o]))
      /\ \A i \in 1 .. Len(Plan(job[o])) : i < pos[o] => count[Plan(job[o])[i]] > 0
      /\ job[o] = "dataroom" => Built("bootstrap")
  BY TypeIs, WantedIs DEF RerunInv, ControlInv, Passed
<1>2. CASE job[o] = "bootstrap"
  <2>0. pos[o] \in 1 .. 4
    BY <1>1, <1>2, PlanLengths
  <2>1. pos[o] = 1 \/ pos[o] = 2 \/ pos[o] = 3 \/ pos[o] = 4
    BY <2>0
  <2>2. \A i \in 1 .. 4 : i < pos[o] => count[Plan("bootstrap")[i]] > 0
    BY <1>1, <1>2, PlanLengths
  <2>3. Wanted(o) = Plan("bootstrap")[pos[o]]
    BY <1>2 DEF Wanted
  <2>4. /\ pos[o] > 1 => count["project"] > 0
        /\ pos[o] > 2 => count["billing"] > 0
    BY <2>1, <2>2, BootstrapPlan
  <2>5. CASE pos[o] = 1
    BY <2>3, <2>5, BootstrapPlan, NeedsOf
  <2>6. CASE pos[o] = 2
    BY <2>3, <2>4, <2>6, BootstrapPlan, NeedsOf
  <2>7. CASE pos[o] = 3 \/ pos[o] = 4
    BY <2>3, <2>4, <2>7, BootstrapPlan, NeedsOf
  <2> QED BY <2>1, <2>5, <2>6, <2>7
<1>3. CASE job[o] = "dataroom"
  <2>0. pos[o] \in 1 .. 7
    BY <1>1, <1>3, PlanLengths
  <2>1. pos[o] = 1 \/ pos[o] = 2 \/ pos[o] = 3 \/ pos[o] = 4 \/ pos[o] = 5 \/ pos[o] = 6 \/ pos[o] = 7
    BY <2>0
  <2>2. \A i \in 1 .. 7 : i < pos[o] => count[Plan("dataroom")[i]] > 0
    BY <1>1, <1>3, PlanLengths
  <2>3. Wanted(o) = Plan("dataroom")[pos[o]]
    BY <1>3 DEF Wanted
  <2>4. /\ pos[o] > 1 => count["topic"] > 0
        /\ pos[o] > 2 => count["us"] > 0
        /\ pos[o] > 3 => count["eu"] > 0
        /\ pos[o] > 4 => count["grant"] > 0
    BY <2>1, <2>2, DataRoomPlan
  <2>5. count["project"] > 0 /\ count["billing"] > 0 /\ count["services"] > 0
    BY <1>1, <1>3, BootstrapPlan, PlanLengths DEF Built
  <2>6. CASE pos[o] = 1 \/ pos[o] = 2 \/ pos[o] = 3
    BY <2>3, <2>5, <2>6, DataRoomPlan, NeedsOf
  <2>7. CASE pos[o] = 4 \/ pos[o] = 7
    BY <2>3, <2>4, <2>7, DataRoomPlan, NeedsOf
  <2>8. CASE pos[o] = 5
    BY <2>3, <2>4, <2>8, DataRoomPlan, NeedsOf
  <2>9. CASE pos[o] = 6
    BY <2>3, <2>4, <2>9, DataRoomPlan, NeedsOf
  <2> QED BY <2>1, <2>6, <2>7, <2>8, <2>9
<1> QED BY <1>1, <1>2, <1>3

LEMMA SmoothKept ==
  ASSUME RerunInv, NEW o \in Operator, Moves(o)
  PROVE  Smooth'
<1>1. /\ TypeOK /\ ControlInv /\ Capping(o) /\ Missing(o) /\ Passed(o) /\ Smooth /\ RunsOK
      /\ (~overlapped' => ~overlapped) /\ (~glitched' => ~glitched)
  BY HistoryGrows, TypeIs DEF RerunInv, ControlInv, Moves
<1>2. SUFFICES ASSUME ~overlapped', ~glitched' PROVE refused' \cap {"bootstrap", "dataroom"} = {}
  BY DEF Smooth
<1>3. refused \cap {"bootstrap", "dataroom"} = {} /\ ~overlapped /\ ~glitched
  BY <1>1, <1>2 DEF Smooth
<1>4. CASE Make(o) /\ Refused(Wanted(o))
  <2>1. pc[o] = "make" /\ count[Wanted(o)] = 0
    BY <1>1, <1>3, <1>4 DEF Make, Missing
  <2>2. \E n \in Needs(Wanted(o)) : count[n] = 0
    BY <1>4, <2>1 DEF Refused
  <2> QED BY <1>3, <2>1, <2>2, NeedsMet
<1>5. ~((RemoveCap(o) \/ UpdateCap(o)) /\ held[o] \notin Caps)
  BY <1>1, <1>3 DEF RemoveCap, UpdateCap, Capping
<1>6. CASE VerifyBootstrap(o) /\ (glitched' \/ ~(count["services"] > 0 /\ Caps # {} /\ count["billing"] > 0))
  <2>1. pc[o] = "verify" /\ Caps # {}
    BY <1>1, <1>3, <1>6 DEF VerifyBootstrap, Capping
  <2>2. Built("bootstrap")
    BY <1>1, <2>1, CapAlone DEF Passed, CapSteps
  <2>3. count["services"] > 0 /\ count["billing"] > 0
    BY <2>2, BootstrapPlan, PlanLengths DEF Built
  <2> QED BY <1>2, <1>6, <2>1, <2>3
<1>7. CASE refused' = refused \cup {job[o]} /\ pc[o] \in {"set", "inspect", "load", "destroy"}
  <2>1. job[o] \in Script /\ pc[o] \in StepsOf(job[o])
    BY <1>1, <1>7 DEF ControlInv, OnScript, RunsOK
  <2>2. job[o] \notin {"bootstrap", "dataroom"}
    BY <1>7, <2>1 DEF StepsOf
  <2> QED BY <1>3, <1>7, <2>2
<1> QED BY <1>1, <1>3, <1>4, <1>5, <1>6, <1>7, EndsOf

LEMMA RerunStep == RerunInv /\ [Next]_vars => RerunInv'
<1> SUFFICES ASSUME RerunInv, [Next]_vars PROVE RerunInv'
  OBVIOUS
<1>1. ControlInv' /\ TypeOK
  BY ControlStep DEF RerunInv, ControlInv
<1>2. CASE UNCHANGED vars \/ Console
  <2>1. /\ UNCHANGED <<job, pc, pos, held, count, done, overlapped, glitched, refused>>
        /\ Caps' = Caps
    BY <1>1, <1>2, ConsoleTypes, ConsoleCaps DEF vars, Caps
  <2>2. Single' /\ OneCap' /\ Smooth' /\ Finished'
    BY <2>1 DEF RerunInv, Single, OneCap, Smooth, Finished, Built
  <2>3. ASSUME NEW q \in Operator PROVE Passed(q)' /\ Missing(q)' /\ Capping(q)'
    BY <2>1 DEF RerunInv, Passed, Missing, Capping, Built, Wanted, Plan
  <2> QED BY <1>1, <2>2, <2>3 DEF RerunInv
<1>3. ASSUME NEW o \in Operator, Moves(o) PROVE RerunInv'
  BY <1>1, <1>3, SingleKept, OneCapKept, SmoothKept, FinishedKept, PassedKept, MissingKept,
     CappingKept DEF RerunInv
<1> QED BY <1>1, <1>2, <1>3, NextCases DEF Moves

(* A bootstrap or a data room that is run again, whatever was cut short    *)
(* before it, is not stopped, and leaves one cap and one notification of   *)
(* each bucket, when runs keep apart and no failed lookup passes for an    *)
(* absence.                                                                *)
THEOREM RerunsAreIdempotent == Spec => []Idempotent
<1>1. RerunInv /\ [Next]_vars => RerunInv'
  BY RerunStep
<1>2. ASSUME RerunInv PROVE Idempotent
  <2>1. ~overlapped /\ ~glitched => Cardinality(Caps) <= 1
    <3> SUFFICES ASSUME ~overlapped, ~glitched PROVE Cardinality(Caps) <= 1
      OBVIOUS
    <3>1. CASE Caps = {}
      BY <3>1, FS_EmptySet
    <3>2. CASE \E b : b \in Caps
      <4>1. PICK b : b \in Caps
        BY <3>2
      <4>2. Caps = {b}
        BY <1>2, <4>1 DEF RerunInv, OneCap
      <4>3. Cardinality(Caps) = 1
        BY <4>2, FS_Singleton
      <4> QED BY <4>3
    <3> QED BY <3>1, <3>2
  <2> QED BY <1>2, <2>1 DEF RerunInv, Single, Smooth, Idempotent
<1> QED BY InitRerun, <1>1, <1>2, PTL DEF Spec
=============================================================================

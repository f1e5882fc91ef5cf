--------------------------- MODULE RegistryProofs ---------------------------
(***************************************************************************)
(* Proofs about Registry, for any agents, versions and workers and any     *)
(* number of requests and crashes.                                         *)
(***************************************************************************)
EXTENDS Registry, FiniteSetTheorems, TLAPS

USE DEF Steps, Ops

-----------------------------------------------------------------------------
(* TYPE CORRECTNESS                                                        *)

(* An approval is written into a manifest that is there: none is deleted.  *)
Ready(w) == pc[w] = "approve" => manifest[job[w].agent] # None

TypeInv == TypeOK /\ \A w \in Workers : Ready(w)

LEMMA BusyHasJob ==
  ASSUME TypeOK, NEW w \in Workers, pc[w] # "idle"
  PROVE  job[w] \in Job /\ job[w] # None
  BY NoneAssumption DEF TypeOK

LEMMA InitTypes == Init => TypeInv
<1> SUFFICES ASSUME Init PROVE TypeInv
  OBVIOUS
<1>1. NoCards \in Cards
  BY DEF NoCards, Cards
<1>2. TypeOK
  BY <1>1, RegistryAssumption DEF Init, TypeOK
<1> QED BY <1>2 DEF TypeInv, Init, Ready

(* What every worker may do.                                               *)
Act(w) == Request(w) \/ Step(w) \/ Crash(w)

LEMMA OthersStay ==
  ASSUME TypeInv, NEW w \in Workers, Act(w), NEW v \in Workers, v # w
  PROVE  pc'[v] = pc[v] /\ job'[v] = job[v]
<1>1. pc \in [Workers -> Steps] /\ job \in [Workers -> Job \cup {None}]
  BY DEF TypeInv, TypeOK
<1> QED
  BY <1>1
  DEF Act, Request, SeedRegistry, PublishCatalogue, CreateAgent, PublishVersion, Rollback, Build,
      PatchApproval, Accept, Step, Skip, GetManifest, Create, GetVersion, Register, Point, Approve,
      ListManifests, CreateService, BuildAgent, Crash, Goto, Return, NextSeed

(* The next call of a worker and the job it then has are of their types.   *)
Moves(w) ==
  \E p \in Steps, j \in Job \cup {None} :
    /\ pc' = [pc EXCEPT ![w] = p] /\ job' = [job EXCEPT ![w] = j]
    /\ (p = "idle") = (j = None)

LEMMA GoMoves ==
  ASSUME NEW w \in Workers, NEW p \in Steps \ {"idle"}, NEW j \in Job,
         Goto(w, p), job' = [job EXCEPT ![w] = j]
  PROVE  Moves(w)
<1>1. pc' = [pc EXCEPT ![w] = p] /\ p \in Steps /\ j \in Job \cup {None}
  BY DEF Goto
<1>2. (p = "idle") = (j = None)
  BY NoneAssumption
<1> QED BY <1>1, <1>2, ZenonT(30) DEF Moves

LEMMA StayMoves ==
  ASSUME TypeInv, NEW w \in Workers, pc[w] # "idle", NEW p \in Steps \ {"idle"}, Goto(w, p),
         UNCHANGED job
  PROVE  Moves(w)
<1>1. job' = [job EXCEPT ![w] = job[w]] /\ job[w] \in Job /\ job[w] # None
  BY BusyHasJob DEF TypeInv, TypeOK
<1> QED BY <1>1, GoMoves

LEMMA ReturnMoves == ASSUME NEW w \in Workers, Return(w) PROVE Moves(w)
  BY DEF Return, Goto, Moves

(* The loops over the agents stay among them.                              *)
LEMMA AgentMoves ==
  ASSUME TypeInv, NEW w \in Workers, pc[w] # "idle", job[w].agent < NumAgents,
         NEW p \in Steps \ {"idle"}, Goto(w, p), job' = [job EXCEPT ![w].agent = @ + 1]
  PROVE  Moves(w)
<1> DEFINE n == [job[w] EXCEPT !.agent = @ + 1]
<1>1. job[w] \in Job
  BY BusyHasJob DEF TypeInv
<1>2. job[w].agent + 1 \in Agents
  BY <1>1, RegistryAssumption DEF Job, Agents
<1>3. n \in Job
  BY <1>1, <1>2 DEF Job
<1>4. job' = [job EXCEPT ![w] = n]
  OBVIOUS
<1> HIDE DEF n
<1> QED BY <1>3, <1>4, GoMoves

LEMMA SeedMoves ==
  ASSUME TypeInv, NEW w \in Workers, pc[w] # "idle", NextSeed(w)
  PROVE  Moves(w)
<1>1. CASE AgentOf(w) < NumAgents
  BY <1>1, AgentMoves DEF NextSeed, AgentOf
<1>2. CASE ~(AgentOf(w) < NumAgents)
  BY <1>2, ReturnMoves DEF NextSeed
<1> QED BY <1>1, <1>2

(* What a read puts into the job.                                          *)
LEMMA SeenMoves ==
  ASSUME TypeInv, NEW w \in Workers, pc[w] # "idle", NEW p \in Steps \ {"idle"}, Goto(w, p),
         NEW v \in Versions, job' = [job EXCEPT ![w].seen = v]
  PROVE  Moves(w)
<1> DEFINE n == [job[w] EXCEPT !.seen = v]
<1>1. job[w] \in Job
  BY BusyHasJob DEF TypeInv
<1>2. n \in Job
  BY <1>1 DEF Job
<1>3. job' = [job EXCEPT ![w] = n]
  OBVIOUS
<1> HIDE DEF n
<1> QED BY <1>2, <1>3, GoMoves

LEMMA CardMoves ==
  ASSUME TypeInv, NEW w \in Workers, pc[w] # "idle", NEW p \in Steps \ {"idle"}, Goto(w, p),
         NEW c \in Cards, job' = [job EXCEPT ![w].cards = c]
  PROVE  Moves(w)
<1> DEFINE n == [job[w] EXCEPT !.cards = c]
<1>1. job[w] \in Job
  BY BusyHasJob DEF TypeInv
<1>2. n \in Job
  BY <1>1 DEF Job
<1>3. job' = [job EXCEPT ![w] = n]
  OBVIOUS
<1> HIDE DEF n
<1> QED BY <1>2, <1>3, GoMoves

LEMMA AcceptMoves ==
  ASSUME TypeInv, NEW w \in Workers, NEW op \in Ops, NEW a \in Agents, NEW v \in Versions,
         NEW ok \in BOOLEAN, NEW t \in Versions \cup {None}, Accept(w, op, a, v, ok, t)
  PROVE  Moves(w)
<1> DEFINE j == [op |-> op, agent |-> a, version |-> v, approved |-> ok,
                 target |-> t, seen |-> None, cards |-> NoCards]
           p == CASE op = "seed" -> "skip" [] op = "catalogue" -> "list" [] OTHER -> "manifest"
<1>1. j \in Job /\ j # None
  BY NoneAssumption DEF Job, NoCards, Cards
<1>2. p \in Steps \ {"idle"}
  OBVIOUS
<1>3. pc' = [pc EXCEPT ![w] = p] /\ job' = [job EXCEPT ![w] = j]
  BY DEF Accept, Goto
<1> HIDE DEF j, p
<1> QED BY <1>1, <1>2, <1>3 DEF Moves

(* The requests are all accepted in the same way.                          *)
LEMMA RequestAccepts ==
  ASSUME NEW w \in Workers, Request(w)
  PROVE  \E op \in Ops, a \in Agents, v \in Versions, ok \in BOOLEAN,
            t \in Versions \cup {None} :
           Accept(w, op, a, v, ok, t) /\ (op = "seed" => v = SeedVersion)
<1>1. SeedVersion \in Versions /\ 1 \in Agents /\ TRUE \in BOOLEAN /\ FALSE \in BOOLEAN
  BY RegistryAssumption DEF Agents
<1> QED
  BY <1>1 DEF Request, SeedRegistry, PublishCatalogue, CreateAgent, PublishVersion, Rollback,
              Build, PatchApproval

LEMMA ActMoves ==
  ASSUME TypeInv, NEW w \in Workers, Act(w)
  PROVE  Moves(w)
<1>1. CASE Request(w)
  BY <1>1, RequestAccepts, AcceptMoves
<1>2. CASE Skip(w)
  BY <1>2, SeedMoves, StayMoves DEF Skip
<1>3. CASE GetManifest(w)
  <2>1. pc[w] = "manifest" /\ job[w].agent \in Agents
    BY <1>3, BusyHasJob DEF GetManifest, TypeInv, Job
  <2>2. Current(w) # None => Current(w).version \in Versions
    BY <2>1 DEF TypeInv, TypeOK, Current, AgentOf, Manifest
  <2>3. CASE Return(w)
    BY <2>3, ReturnMoves
  <2>4. CASE \E p \in {"create", "approve"} : Goto(w, p) /\ UNCHANGED job
    BY <2>1, <2>4, StayMoves
  <2>5. CASE \E p \in {"version", "build"} :
               Goto(w, p) /\ Current(w) # None /\ job' = [job EXCEPT ![w].seen = Current(w).version]
    BY <2>1, <2>2, <2>5, SeenMoves
  <2> QED BY <1>3, <2>3, <2>4, <2>5 DEF GetManifest
<1>4. CASE Create(w)
  BY <1>4, StayMoves, ReturnMoves DEF Create
<1>5. CASE GetVersion(w)
  BY <1>5, StayMoves, ReturnMoves DEF GetVersion
<1>6. CASE Register(w)
  BY <1>6, StayMoves, SeedMoves DEF Register
<1>7. CASE Point(w) \/ Approve(w) \/ BuildAgent(w) \/ Crash(w)
  BY <1>7, ReturnMoves DEF Point, Approve, BuildAgent, Crash
<1>8. CASE ListManifests(w)
  <2>1. [a \in Agents |-> Card(manifest[a])] \in Cards
    BY DEF TypeInv, TypeOK, Cards, Card, Manifest
  <2> QED BY <1>8, <2>1, CardMoves, ReturnMoves DEF ListManifests
<1>9. CASE CreateService(w)
  BY <1>9, AgentMoves, ReturnMoves DEF CreateService, AgentOf
<1> QED BY <1>1, <1>2, <1>3, <1>4, <1>5, <1>6, <1>7, <1>8, <1>9 DEF Act, Step

(* The stores stay in type and only grow.                                  *)
Grows ==
  /\ manifest' \in [Agents -> Manifest \cup {None}]
  /\ versions' \in [Agents -> SUBSET Versions] /\ vetted' \in [Agents -> SUBSET Versions]
  /\ pointed' \in [Agents -> SUBSET Versions] /\ named' \in [Agents -> SUBSET Versions]
  /\ posted' \subseteq Agents /\ posted \subseteq posted'
  /\ \A a \in Agents :
       /\ manifest[a] # None => manifest'[a] # None
       /\ versions[a] \subseteq versions'[a] /\ vetted[a] \subseteq vetted'[a]
       /\ pointed[a] \subseteq pointed'[a] /\ named[a] \subseteq named'[a]

LEMMA WriteGrows ==
  ASSUME TypeOK, NEW a \in Agents, NEW m \in Manifest, Write(a, m)
  PROVE  /\ manifest' \in [Agents -> Manifest \cup {None}]
         /\ pointed' \in [Agents -> SUBSET Versions]
         /\ \A b \in Agents : /\ manifest[b] # None => manifest'[b] # None
                              /\ pointed[b] \subseteq pointed'[b]
         /\ \A b \in Agents : manifest'[b] = IF b = a THEN m ELSE manifest[b]
         /\ m.version \in pointed'[a]
<1>1. m.version \in Versions /\ m # None
  BY NoneAssumption DEF Manifest
<1> QED BY <1>1 DEF TypeOK, Write

LEMMA ActGrows ==
  ASSUME TypeInv, NEW w \in Workers, Act(w)
  PROVE  Grows
<1> DEFINE a == job[w].agent
<1>1. /\ TypeOK /\ Ready(w)
      /\ manifest \in [Agents -> Manifest \cup {None}]
      /\ versions \in [Agents -> SUBSET Versions] /\ vetted \in [Agents -> SUBSET Versions]
      /\ pointed \in [Agents -> SUBSET Versions] /\ named \in [Agents -> SUBSET Versions]
      /\ posted \subseteq Agents
  BY DEF TypeInv, TypeOK
<1>2. CASE Create(w) \/ Point(w)
  <2>1. job[w] \in Job /\ a \in Agents
    BY <1>1, <1>2, BusyHasJob DEF Create, Point, Job
  <2>2. PICK m \in Manifest : Write(a, m)
    <3>1. CASE Create(w)
      <4>1. [version |-> job[w].version, approved |-> job[w].approved, rollback |-> None] \in Manifest
        BY <2>1 DEF Manifest, Job
      <4> QED BY <3>1, <4>1 DEF Create, AgentOf
    <3>2. CASE Point(w)
      <4>1. [version |-> job[w].version, approved |-> job[w].op = "rollback",
             rollback |-> job[w].seen] \in Manifest
        BY <2>1 DEF Manifest, Job
      <4> QED BY <3>2, <4>1 DEF Point, AgentOf
    <3> QED BY <1>2, <3>1, <3>2
  <2>3. /\ UNCHANGED <<versions, vetted, named>> /\ posted \subseteq posted' /\ posted' \subseteq Agents
    BY <1>1, <1>2, <2>1 DEF Create, Point, AgentOf
  <2> QED BY <1>1, <2>1, <2>2, <2>3, WriteGrows DEF Grows
<1>3. CASE Register(w)
  <2>1. job[w] \in Job /\ a \in Agents /\ job[w].version \in Versions
    BY <1>1, <1>3, BusyHasJob DEF Register, Job
  <2>2. /\ versions' = [versions EXCEPT ![a] = @ \cup {job[w].version}]
        /\ vetted' = [vetted EXCEPT ![a] = @ \cup {job[w].version}] \/ vetted' = vetted
        /\ UNCHANGED <<manifest, pointed, posted, named>>
    BY <1>3 DEF Register, AgentOf
  <2> QED BY <1>1, <2>1, <2>2 DEF Grows
<1>4. CASE Approve(w)
  <2>1. job[w] \in Job /\ a \in Agents /\ manifest[a] \in Manifest
    BY <1>1, <1>4, BusyHasJob DEF Approve, Job, Ready
  <2> DEFINE m == [manifest[a] EXCEPT !.approved = job[w].approved, !.rollback = job[w].target]
  <2>2. m \in Manifest
    BY <2>1 DEF Manifest, Job
  <2>3. manifest' = [manifest EXCEPT ![a] = m]
    BY <1>1, <1>4, <2>1 DEF Approve, AgentOf
  <2>4. /\ named' = [named EXCEPT ![a] = @ \cup ({job[w].target} \ {None})]
        /\ {job[w].target} \ {None} \subseteq Versions
        /\ UNCHANGED <<versions, vetted, pointed, posted>>
    BY <1>4, <2>1 DEF Approve, AgentOf, Job
  <2> HIDE DEF m
  <2> QED BY <1>1, <2>1, <2>2, <2>3, <2>4, NoneAssumption DEF Grows
<1>5. CASE UNCHANGED <<manifest, versions, vetted, pointed, posted, named>>
  BY <1>1, <1>5 DEF Grows
<1> QED
  BY <1>2, <1>3, <1>4, <1>5
  DEF Act, Request, SeedRegistry, PublishCatalogue, CreateAgent, PublishVersion, Rollback, Build,
      PatchApproval, Accept, Step, Skip, GetManifest, GetVersion, ListManifests, CreateService,
      BuildAgent, Crash

(* Catalogue and fleet take what a job brings.                             *)
LEMMA ActBuilds ==
  ASSUME TypeInv, NEW w \in Workers, Act(w)
  PROVE  /\ catalogue' \in Cards /\ fleet' \in [Agents -> SUBSET Versions]
         /\ served' \in 0..MaxRequests /\ crashes' \in 0..MaxCrashes
<1>1. /\ catalogue \in [Agents -> Versions \cup {None}] /\ fleet \in [Agents -> SUBSET Versions]
      /\ vetted \in [Agents -> SUBSET Versions]
      /\ served \in 0..MaxRequests /\ crashes \in 0..MaxCrashes
  BY DEF TypeInv, TypeOK, Cards
<1>2. CASE Request(w)
  <2>1. UNCHANGED <<catalogue, fleet, crashes>> /\ served' = served + 1 /\ served < MaxRequests
    BY <1>2 DEF Request, SeedRegistry, PublishCatalogue, CreateAgent, PublishVersion, Rollback,
       Build, PatchApproval, Accept
  <2> QED BY <1>1, <2>1, RegistryAssumption DEF Cards
<1>3. CASE CreateService(w)
  <2>1. job[w] \in Job
    BY <1>3, BusyHasJob DEF TypeInv, CreateService
  <2>2. job[w].agent \in Agents /\ job[w].cards[job[w].agent] \in Versions \cup {None}
    BY <2>1 DEF Job, Cards
  <2>3. \/ catalogue' = [catalogue EXCEPT ![job[w].agent] = job[w].cards[job[w].agent]]
        \/ catalogue' = catalogue
    BY <1>3 DEF CreateService, AgentOf
  <2>4. UNCHANGED <<fleet, served>> /\ crashes' \in 0..MaxCrashes
    BY <1>1, <1>3, RegistryAssumption DEF CreateService
  <2> QED BY <1>1, <2>2, <2>3, <2>4 DEF Cards
<1>4. CASE BuildAgent(w)
  <2>1. job[w] \in Job /\ job[w].agent \in Agents
    BY <1>4, BusyHasJob DEF TypeInv, BuildAgent, Job
  <2> QED BY <1>1, <1>4, <2>1 DEF BuildAgent, AgentOf, Cards
<1>5. CASE Crash(w)
  BY <1>1, <1>5, RegistryAssumption DEF Crash, Cards
<1>6. CASE UNCHANGED <<catalogue, fleet, served, crashes>>
  BY <1>1, <1>6 DEF Cards
<1> QED
  BY <1>2, <1>3, <1>4, <1>5, <1>6
  DEF Act, Step, Skip, GetManifest, Create, GetVersion, Register, Point, Approve, ListManifests

(* Only a manifest that was found is turned to for approval.               *)
LEMMA SelfReady ==
  ASSUME TypeInv, NEW w \in Workers, Act(w)
  PROVE  Ready(w)'
<1>1. pc \in [Workers -> Steps] /\ job \in [Workers -> Job \cup {None}]
  BY DEF TypeInv, TypeOK
<1>2. CASE GetManifest(w)
  BY <1>1, <1>2 DEF GetManifest, Ready, Goto, Return, Current, AgentOf
<1>3. CASE ~GetManifest(w)
  <2>1. pc'[w] # "approve"
    BY <1>1, <1>3 DEF Act, Request, SeedRegistry, PublishCatalogue, CreateAgent, PublishVersion,
       Rollback, Build, PatchApproval, Accept, Step, Skip, Create, GetVersion, Register, Point,
       Approve, ListManifests, CreateService, BuildAgent, Crash, Goto, Return, NextSeed
  <2> QED BY <2>1 DEF Ready
<1> QED BY <1>2, <1>3

LEMMA NextTypes == TypeInv /\ [Next]_vars => TypeInv'
<1> SUFFICES ASSUME TypeInv, [Next]_vars PROVE TypeInv'
  OBVIOUS
<1>1. ASSUME NEW w \in Workers, Act(w) PROVE TypeInv'
  <2>1. /\ pc' \in [Workers -> Steps] /\ job' \in [Workers -> Job \cup {None}]
        /\ \A v \in Workers : (pc'[v] = "idle") = (job'[v] = None)
    BY <1>1, ActMoves DEF Moves, TypeInv, TypeOK
  <2>2. TypeOK'
    BY <1>1, <2>1, ActGrows, ActBuilds DEF TypeOK, Grows
  <2>3. ASSUME NEW v \in Workers PROVE Ready(v)'
    <3>1. CASE v = w
      BY <1>1, <3>1, SelfReady
    <3>2. CASE v # w
      <4>1. pc'[v] = pc[v] /\ job'[v] = job[v] /\ Ready(v)
        BY <1>1, <3>2, OthersStay DEF TypeInv
      <4>2. pc[v] = "approve" => job[v].agent \in Agents
        BY BusyHasJob DEF TypeInv, Job
      <4> QED BY <1>1, <4>1, <4>2, ActGrows DEF Grows, Ready
    <3> QED BY <3>1, <3>2
  <2> QED BY <2>2, <2>3 DEF TypeInv
<1>2. CASE UNCHANGED vars
  BY <1>2 DEF vars, TypeInv, TypeOK, Ready
<1> QED BY <1>1, <1>2 DEF Next, Act

(* The types, split by variable as the steps preserve them.                *)
THEOREM TypesAlways == Spec => []TypeInv
  BY InitTypes, NextTypes, PTL DEF Spec

(* Every variable stays in its type: the loops over the seeds and over the *)
(* cards never leave the agents, an approval never lands on nothing.       *)
THEOREM TypeCorrect == Spec => []TypeOK
<1>1. TypeInv => TypeOK
  BY DEF TypeInv
<1> QED BY <1>1, TypesAlways, PTL

-----------------------------------------------------------------------------
(* WHAT MANIFEST, CATALOGUE AND FLEET SAY                                  *)

(* A request holds versions that were current when it read them, and the   *)
(* one it will point at is registered by then.                             *)
Knows(w) ==
  LET j == job[w] IN
  /\ pc[w] # "idle" =>
       /\ j.op = "seed" => j.version = SeedVersion
       /\ \A a \in Agents : j.cards[a] \in pointed[a] \cup {None}
  /\ pc[w] = "create" => j.op \in {"create", "seed"}
  /\ pc[w] \in {"version", "register", "point"} => j.op \in {"seed", "publish", "rollback"}
  /\ pc[w] = "point" => j.op # "seed" /\ j.version \in versions[j.agent]
  /\ pc[w] \in {"version", "register", "point"} /\ j.op # "seed" => j.seen \in pointed[j.agent]
  /\ pc[w] = "build" => j.seen \in pointed[j.agent]

\* What the history says of the version that is current, and who vets.
Recorded ==
  \A a \in Agents :
    /\ manifest[a] # None => manifest[a].version \in pointed[a]
    /\ vetted[a] \subseteq {SeedVersion} \cap versions[a]

SayInv ==
  /\ VersionRegistered /\ NamesWereCurrent /\ BuiltWereVetted /\ Recorded
  /\ \A w \in Workers : Knows(w)

LEMMA InitSays == Init => SayInv
<1> SUFFICES ASSUME Init PROVE SayInv
  OBVIOUS
<1>1. \A w \in Workers : pc[w] = "idle"
  BY DEF Init
<1>2. \A a \in Agents : /\ manifest[a] = None /\ vetted[a] = {} /\ fleet[a] = {}
                       /\ catalogue[a] = None
  BY DEF Init, NoCards
<1>3. \A w \in Workers : Knows(w)
  BY <1>1 DEF Knows
<1> QED BY <1>2, <1>3 DEF SayInv, VersionRegistered, NamesWereCurrent, BuiltWereVetted, Recorded

(* What an operation knows survives what others write.                     *)
LEMMA OthersKnow ==
  ASSUME TypeInv, NEW v \in Workers, Knows(v), pc'[v] = pc[v], job'[v] = job[v], Grows
  PROVE  Knows(v)'
<1>1. CASE pc[v] = "idle"
  BY <1>1 DEF Knows
<1>2. CASE pc[v] # "idle"
  <2>1. job[v] \in Job /\ job[v].agent \in Agents
    BY <1>2, BusyHasJob DEF TypeInv, Job
  <2> QED BY <2>1 DEF Knows, Grows
<1> QED BY <1>1, <1>2

(* The loops over the agents carry on what they hold.                      *)
LEMMA LoopKnows ==
  ASSUME TypeInv, NEW w \in Workers, pc[w] # "idle", Knows(w), Grows,
         NEW p \in {"skip", "service"}, Goto(w, p), job' = [job EXCEPT ![w].agent = @ + 1]
  PROVE  Knows(w)'
<1> DEFINE n == [job[w] EXCEPT !.agent = @ + 1]
<1>1. job[w] \in Job /\ pc \in [Workers -> Steps] /\ job \in [Workers -> Job \cup {None}]
  BY BusyHasJob DEF TypeInv, TypeOK
<1>2. n.op = job[w].op /\ n.version = job[w].version /\ n.cards = job[w].cards
  BY <1>1 DEF Job
<1>3. job'[w] = n /\ pc'[w] = p
  BY <1>1 DEF Goto
<1> HIDE DEF n
<1> QED BY <1>2, <1>3 DEF Knows, Grows

LEMMA ReturnKnows ==
  ASSUME TypeInv, NEW w \in Workers, Return(w) PROVE Knows(w)'
  BY DEF TypeInv, TypeOK, Return, Goto, Knows

LEMMA SeedKnows ==
  ASSUME TypeInv, NEW w \in Workers, pc[w] # "idle", Knows(w), Grows, NextSeed(w)
  PROVE  Knows(w)'
  BY LoopKnows, ReturnKnows DEF NextSeed

(* A call that leaves the job as it is.                                    *)
LEMMA StayKnows ==
  ASSUME TypeInv, NEW w \in Workers, pc[w] # "idle", Knows(w), Grows,
         NEW p \in {"manifest", "create", "version", "register", "point", "approve"},
         Goto(w, p), UNCHANGED job,
         p = "create" => job[w].op \in {"create", "seed"},
         p \in {"version", "register"} => \/ job[w].op = "seed"
                                          \/ pc[w] \in {"version", "register"},
         p = "point" => /\ pc[w] \in {"version", "register"} /\ job[w].op # "seed"
                        /\ job[w].version \in versions'[job[w].agent]
  PROVE  Knows(w)'
<1>1. job[w] \in Job /\ job[w].agent \in Agents /\ pc'[w] = p /\ job'[w] = job[w]
  BY BusyHasJob DEF TypeInv, TypeOK, Job, Goto
<1> QED BY <1>1 DEF Knows, Grows

LEMMA SelfKnows ==
  ASSUME TypeInv, SayInv, NEW w \in Workers, Act(w)
  PROVE  Knows(w)'
<1>1. /\ pc \in [Workers -> Steps] /\ job \in [Workers -> Job \cup {None}]
      /\ Knows(w) /\ Grows
  BY ActGrows DEF TypeInv, TypeOK, SayInv
<1>2. CASE Request(w)
  <2>1. PICK op \in Ops, a \in Agents, v \in Versions, ok \in BOOLEAN, t \in Versions \cup {None} :
          Accept(w, op, a, v, ok, t) /\ (op = "seed" => v = SeedVersion)
    BY <1>2, RequestAccepts
  <2>2. /\ job'[w] = [op |-> op, agent |-> a, version |-> v, approved |-> ok, target |-> t,
                      seen |-> None, cards |-> NoCards]
        /\ pc'[w] \in {"skip", "list", "manifest"}
    BY <1>1, <2>1 DEF Accept, Goto
  <2> QED BY <2>1, <2>2 DEF Knows, NoCards
<1>3. CASE Skip(w)
  <2>1. CASE NextSeed(w)
    BY <1>1, <1>3, <2>1, SeedKnows DEF Skip
  <2>2. CASE Goto(w, "manifest") /\ UNCHANGED job
    BY <1>1, <1>3, <2>2, StayKnows DEF Skip
  <2> QED BY <1>3, <2>1, <2>2 DEF Skip
<1>4. CASE GetManifest(w)
  <2>1. CASE Return(w)
    BY <2>1, ReturnKnows
  <2>2. CASE job[w].op \in {"create", "seed"} /\ Goto(w, "create") /\ UNCHANGED job
    BY <1>1, <1>4, <2>2, StayKnows DEF GetManifest
  <2>3. CASE Goto(w, "approve") /\ UNCHANGED job
    BY <1>1, <1>4, <2>3, StayKnows DEF GetManifest
  <2>4. CASE \E p \in {"version", "build"} :
               /\ p = "version" => job[w].op \in {"publish", "rollback"}
               /\ Goto(w, p) /\ Current(w) # None
               /\ job' = [job EXCEPT ![w].seen = Current(w).version]
    <3> DEFINE n == [job[w] EXCEPT !.seen = Current(w).version]
    <3>1. job[w] \in Job /\ job[w].agent \in Agents
      BY <1>4, BusyHasJob DEF GetManifest, TypeInv, Job
    <3>2. /\ n.op = job[w].op /\ n.version = job[w].version /\ n.cards = job[w].cards
          /\ n.agent = job[w].agent /\ n.seen = Current(w).version
      BY <3>1 DEF Job
    <3>3. /\ job'[w] = n /\ pc'[w] \in {"version", "build"} /\ pc[w] # "idle"
          /\ pc'[w] = "version" => job[w].op \in {"publish", "rollback"}
      BY <1>1, <1>4, <2>4 DEF Goto, GetManifest
    <3>4. Current(w).version \in pointed[job[w].agent]
      BY <2>4, <3>1 DEF SayInv, Recorded, Current, AgentOf
    <3> HIDE DEF n
    <3> QED BY <1>1, <3>1, <3>2, <3>3, <3>4 DEF Knows, Grows
  <2> QED BY <1>4, <2>1, <2>2, <2>3, <2>4 DEF GetManifest
<1>5. CASE Create(w)
  <2>1. CASE Return(w)
    BY <2>1, ReturnKnows
  <2>2. CASE job[w].op = "seed" /\ Goto(w, "version") /\ UNCHANGED job
    BY <1>1, <1>5, <2>2, StayKnows DEF Create
  <2> QED BY <1>5, <2>1, <2>2 DEF Create
<1>6. CASE GetVersion(w)
  <2>1. CASE Return(w)
    BY <2>1, ReturnKnows
  <2>2. CASE ~Return(w)
    <3>1. pc[w] = "version" /\ UNCHANGED job /\ UNCHANGED versions
      BY <1>6, <2>2 DEF GetVersion
    <3>2. CASE Goto(w, "point") /\ job[w].version \in versions[AgentOf(w)] /\ job[w].op = "rollback"
      BY <1>1, <3>1, <3>2, StayKnows DEF AgentOf
    <3>3. CASE Goto(w, "register")
      BY <1>1, <3>1, <3>3, StayKnows
    <3> QED BY <1>6, <2>2, <3>2, <3>3 DEF GetVersion
  <2> QED BY <2>1, <2>2
<1>7. CASE Register(w)
  <2>1. job[w].agent \in Agents /\ versions \in [Agents -> SUBSET Versions]
    BY <1>7, BusyHasJob DEF Register, TypeInv, TypeOK, Job
  <2>2. CASE NextSeed(w)
    BY <1>1, <1>7, <2>2, SeedKnows DEF Register
  <2>3. CASE job[w].op # "seed" /\ Goto(w, "point") /\ UNCHANGED job
    <3>1. job[w].version \in versions'[job[w].agent]
      BY <1>7, <2>1 DEF Register, AgentOf
    <3> QED BY <1>1, <1>7, <2>3, <3>1, StayKnows DEF Register
  <2> QED BY <1>7, <2>2, <2>3 DEF Register
<1>8. CASE Point(w) \/ Approve(w) \/ BuildAgent(w) \/ Crash(w)
  BY <1>8, ReturnKnows DEF Point, Approve, BuildAgent, Crash
<1>9. CASE ListManifests(w)
  <2>1. CASE Return(w)
    BY <2>1, ReturnKnows
  <2>2. CASE ~Return(w)
    <3> DEFINE c == [a \in Agents |-> Card(manifest[a])]
               n == [job[w] EXCEPT !.cards = c]
    <3>1. job[w] \in Job /\ pc[w] # "idle"
      BY <1>9, BusyHasJob DEF ListManifests, TypeInv
    <3>2. job'[w] = n /\ pc'[w] = "service"
      BY <1>1, <1>9, <2>2 DEF ListManifests, Goto
    <3>3. n.op = job[w].op /\ n.version = job[w].version /\ n.cards = c
      BY <3>1 DEF Job
    <3>4. \A a \in Agents : c[a] \in pointed[a] \cup {None}
      BY DEF SayInv, Recorded, Card
    <3> HIDE DEF n, c
    <3> QED BY <1>1, <3>1, <3>2, <3>3, <3>4 DEF Knows, Grows
  <2> QED BY <2>1, <2>2
<1>10. CASE CreateService(w)
  BY <1>1, <1>10, LoopKnows, ReturnKnows DEF CreateService
<1> QED BY <1>2, <1>3, <1>4, <1>5, <1>6, <1>7, <1>8, <1>9, <1>10 DEF Act, Step

(* The manifest: only a creation, a pointing and an approval write it.     *)
LEMMA ManifestSays ==
  ASSUME TypeInv, SayInv, NEW w \in Workers, Act(w), NEW a \in Agents, manifest'[a] # None
  PROVE  /\ manifest'[a].version \in pointed'[a]
         /\ manifest'[a].version \in versions'[a] \cup CreatedWith(a)'
         /\ manifest'[a].rollback \in pointed'[a] \cup named'[a] \cup {None}
<1>1. Grows /\ TypeOK /\ Knows(w)
  BY ActGrows DEF TypeInv, SayInv
<1>2. \A b \in Agents : CreatedWith(b) \subseteq CreatedWith(b)'
  BY <1>1, RegistryAssumption DEF CreatedWith, Grows
<1>3. CASE manifest'[a] = manifest[a]
  <2>1. /\ manifest[a].version \in pointed[a]
        /\ manifest[a].version \in versions[a] \cup CreatedWith(a)
        /\ manifest[a].rollback \in pointed[a] \cup named[a] \cup {None}
    BY <1>3 DEF SayInv, Recorded, VersionRegistered, NamesWereCurrent
  <2> QED BY <1>1, <1>2, <1>3, <2>1 DEF Grows
<1>4. CASE Create(w) /\ a = job[w].agent
  <2> DEFINE m == [version |-> job[w].version, approved |-> job[w].approved, rollback |-> None]
  <2>1. job[w] \in Job /\ pc[w] = "create" /\ job[w].version \in Versions
    BY <1>4, BusyHasJob DEF Create, TypeInv, Job
  <2>2. m \in Manifest /\ m.version = job[w].version /\ m.rollback = None
    BY <2>1 DEF Manifest, Job
  <2>3. Write(a, m)
    BY <1>4 DEF Create, AgentOf
  <2> HIDE DEF m
  <2>4. manifest'[a] = m /\ m.version \in pointed'[a]
    BY <1>1, <2>2, <2>3, WriteGrows
  <2>5. m.version \in CreatedWith(a)'
    <3>1. CASE job[w].op = "seed"
      BY <1>1, <2>1, <2>2, <3>1, RegistryAssumption DEF Knows, CreatedWith
    <3>2. CASE job[w].op # "seed"
      BY <1>4, <2>1, <2>2, <3>2 DEF CreatedWith, Create, AgentOf
    <3> QED BY <3>1, <3>2
  <2> QED BY <2>2, <2>4, <2>5
<1>5. CASE Point(w) /\ a = job[w].agent
  <2> DEFINE m == [version |-> job[w].version, approved |-> job[w].op = "rollback",
                   rollback |-> job[w].seen]
  <2>1. job[w] \in Job /\ pc[w] = "point"
    BY <1>5, BusyHasJob DEF Point, TypeInv
  <2>2. m \in Manifest /\ m.version = job[w].version /\ m.rollback = job[w].seen
    BY <2>1 DEF Manifest, Job
  <2>3. Write(a, m) /\ versions' = versions
    BY <1>5 DEF Point, AgentOf
  <2> HIDE DEF m
  <2>4. manifest'[a] = m /\ m.version \in pointed'[a]
    BY <1>1, <2>2, <2>3, WriteGrows
  <2>5. m.version \in versions[a] /\ m.rollback \in pointed[a]
    BY <1>1, <1>5, <2>1, <2>2 DEF Knows
  <2> QED BY <1>1, <2>3, <2>4, <2>5 DEF Grows
<1>6. CASE Approve(w) /\ a = job[w].agent
  <2>1. job[w] \in Job /\ manifest[a] \in Manifest
    BY <1>6, BusyHasJob DEF Approve, TypeInv, TypeOK, Ready, Job
  <2> DEFINE m == [manifest[a] EXCEPT !.approved = job[w].approved, !.rollback = job[w].target]
  <2>2. m.version = manifest[a].version /\ m.rollback = job[w].target
    BY <2>1 DEF Manifest
  <2>3. manifest'[a] = m
    BY <1>1, <1>6, <2>1 DEF Approve, AgentOf, TypeOK
  <2>4. job[w].target \in named'[a] \cup {None}
    BY <1>1, <1>6 DEF Approve, AgentOf, TypeOK
  <2>5. /\ manifest[a].version \in pointed[a]
        /\ manifest[a].version \in versions[a] \cup CreatedWith(a)
    BY <2>1, NoneAssumption DEF SayInv, Recorded, VersionRegistered
  <2> HIDE DEF m
  <2> QED BY <1>1, <1>2, <2>2, <2>3, <2>4, <2>5 DEF Grows
<1>7. CASE manifest'[a] # manifest[a]
  <2>1. Create(w) \/ Point(w) \/ Approve(w)
    BY <1>7 DEF Act, Request, SeedRegistry, PublishCatalogue, CreateAgent, PublishVersion, Rollback,
       Build, PatchApproval, Accept, Step, Skip, GetManifest, GetVersion, Register, ListManifests,
       CreateService, BuildAgent, Crash
  <2>2. a = job[w].agent
    BY <1>1, <1>7, <2>1 DEF Create, Point, Approve, Write, AgentOf, TypeOK
  <2> QED BY <1>4, <1>5, <1>6, <2>1, <2>2
<1> QED BY <1>3, <1>7

(* The other stores.                                                       *)
LEMMA StoresSay ==
  ASSUME TypeInv, SayInv, NEW w \in Workers, Act(w), NEW a \in Agents
  PROVE  /\ vetted'[a] \subseteq {SeedVersion} \cap versions'[a]
         /\ catalogue'[a] \in pointed'[a] \cup {None}
         /\ fleet'[a] # {} =>
              fleet'[a] = {SeedVersion} /\ SeedVersion \in pointed'[a] \cap versions'[a]
<1>1. /\ Grows /\ TypeOK /\ Knows(w)
      /\ vetted[a] \subseteq {SeedVersion} \cap versions[a]
      /\ catalogue[a] \in pointed[a] \cup {None}
      /\ fleet[a] # {} => fleet[a] = {SeedVersion} /\ SeedVersion \in pointed[a] \cap versions[a]
  BY ActGrows DEF TypeInv, SayInv, Recorded, NamesWereCurrent, BuiltWereVetted
<1>2. CASE Register(w)
  <2>1. job[w].agent \in Agents /\ pc[w] = "register"
    BY <1>2, BusyHasJob DEF Register, TypeInv, Job
  <2>2. vetted'[a] \subseteq {SeedVersion} \cap versions'[a]
    BY <1>1, <1>2, <2>1 DEF Register, AgentOf, Knows, TypeOK
  <2> QED BY <1>1, <1>2, <2>2 DEF Register, Grows
<1>3. CASE CreateService(w)
  <2>1. job[w].agent \in Agents /\ pc[w] = "service"
    BY <1>3, BusyHasJob DEF CreateService, TypeInv, Job
  <2>2. catalogue'[a] \in {catalogue[a], job[w].cards[a]}
    BY <1>1, <1>3, <2>1 DEF CreateService, AgentOf, TypeOK, Cards
  <2> QED BY <1>1, <1>3, <2>1, <2>2 DEF CreateService, Grows, Knows
<1>4. CASE BuildAgent(w)
  <2>1. job[w].agent \in Agents /\ pc[w] = "build"
    BY <1>4, BusyHasJob DEF BuildAgent, TypeInv, Job
  <2>2. UNCHANGED <<vetted, versions, pointed, catalogue>>
    BY <1>4 DEF BuildAgent
  <2>3. CASE fleet'[a] = fleet[a]
    BY <1>1, <2>2, <2>3
  <2>4. CASE fleet'[a] # fleet[a]
    <3>1. /\ a = job[w].agent /\ job[w].seen \in vetted[a]
          /\ fleet'[a] = fleet[a] \cup {job[w].seen}
      BY <1>1, <1>4, <2>1, <2>4 DEF BuildAgent, AgentOf, TypeOK
    <3>2. job[w].seen = SeedVersion /\ SeedVersion \in pointed[a] \cap versions[a]
      BY <1>1, <2>1, <3>1 DEF Knows
    <3> QED BY <1>1, <2>2, <3>1, <3>2
  <2> QED BY <2>3, <2>4
<1>5. CASE UNCHANGED <<vetted, catalogue, fleet>>
  BY <1>1, <1>5 DEF Grows
<1> QED
  BY <1>2, <1>3, <1>4, <1>5
  DEF Act, Request, SeedRegistry, PublishCatalogue, CreateAgent, PublishVersion, Rollback, Build,
      PatchApproval, Accept, Step, Skip, GetManifest, Create, GetVersion, Point, Approve,
      ListManifests, Crash

LEMMA NextSays == TypeInv /\ SayInv /\ [Next]_vars => SayInv'
<1> SUFFICES ASSUME TypeInv, SayInv, [Next]_vars PROVE SayInv'
  OBVIOUS
<1>1. ASSUME NEW w \in Workers, Act(w) PROVE SayInv'
  <2>1. ASSUME NEW v \in Workers PROVE Knows(v)'
    <3>1. CASE v = w
      BY <1>1, <3>1, SelfKnows
    <3>2. CASE v # w
      <4>1. pc'[v] = pc[v] /\ job'[v] = job[v] /\ Knows(v) /\ Grows
        BY <1>1, <3>2, OthersStay, ActGrows DEF SayInv
      <4> QED BY <4>1, OthersKnow
    <3> QED BY <3>1, <3>2
  <2>2. VersionRegistered' /\ NamesWereCurrent' /\ BuiltWereVetted' /\ Recorded'
    BY <1>1, ManifestSays, StoresSay
    DEF VersionRegistered, NamesWereCurrent, BuiltWereVetted, Recorded
  <2> QED BY <2>1, <2>2 DEF SayInv
<1>2. CASE UNCHANGED vars
  BY <1>2 DEF vars, SayInv, VersionRegistered, NamesWereCurrent, BuiltWereVetted, Recorded, Knows,
     CreatedWith
<1> QED BY <1>1, <1>2 DEF Next, Act

(* The inductive invariant behind what manifests, rollbacks and cards say. *)
THEOREM SaysAlways == Spec => []SayInv
<1>1. Init => SayInv
  BY InitSays
<1>2. TypeInv /\ SayInv /\ [Next]_vars => SayInv'
  BY NextSays
<1> QED BY <1>1, <1>2, TypesAlways, PTL DEF Spec

(* No order of creations, upgrades, rollbacks, approvals and crashes makes *)
(* a manifest point at a version without a document, unless it was created *)
(* with it.                                                                *)
THEOREM PointsAtRegistered == Spec => []VersionRegistered
<1>1. SayInv => VersionRegistered
  BY DEF SayInv
<1> QED BY <1>1, SaysAlways, PTL

(* Rollback targets and cards may be stale, and are never made up.         *)
THEOREM NamesAreReal == Spec => []NamesWereCurrent
<1>1. SayInv => NamesWereCurrent
  BY DEF SayInv
<1> QED BY <1>1, SaysAlways, PTL

(* Only the version the seed vetted is ever built, whatever approvals say. *)
THEOREM BuiltAreVetted == Spec => []BuiltWereVetted
<1>1. SayInv => BuiltWereVetted
  BY DEF SayInv
<1> QED BY <1>1, SaysAlways, PTL

-----------------------------------------------------------------------------
(* WHAT A CRASH LEAVES BEHIND                                              *)

(* The workers that will make good what is open: one that is about to      *)
(* point at a version, and a seed between the manifest and its version.    *)
Pointing(w, a, v) == pc[w] = "point" /\ job[w].agent = a /\ job[w].version = v
Seeding(w, a)     == /\ pc[w] \in {"version", "register"} /\ job[w].op = "seed"
                     /\ job[w].agent = a

\* What nobody is about to make good; fewer excuses than a request in flight.
Left ==
  {p \in Agents \X Versions : /\ p[2] \in versions[p[1]] \ pointed[p[1]]
                              /\ \A w \in Workers : ~Pointing(w, p[1], p[2])}

Unseeded ==
  {a \in Agents \ posted : /\ manifest[a] # None
                           /\ manifest[a].version \notin versions[a]
                           /\ \A w \in Workers : ~Seeding(w, a)}

StrandInv ==
  /\ \A w \in Workers, a \in Agents : Seeding(w, a) => SeedVersion \in pointed[a]
  /\ IsFiniteSet(Left)
  /\ Cardinality(Unseeded) + Cardinality(Left) <= crashes

(* Sets that shrink, or grow by one element.                               *)
LEMMA CountSubset ==
  ASSUME NEW S, NEW T, IsFiniteSet(S), T \subseteq S
  PROVE  /\ IsFiniteSet(T) /\ Cardinality(T) \in Nat /\ Cardinality(S) \in Nat
         /\ Cardinality(T) <= Cardinality(S)
  BY FS_Subset, FS_CardinalityType

LEMMA CountOneMore ==
  ASSUME NEW S, NEW T, NEW x, IsFiniteSet(S), T \subseteq S \cup {x}
  PROVE  /\ IsFiniteSet(T) /\ Cardinality(T) \in Nat /\ Cardinality(S) \in Nat
         /\ Cardinality(T) <= Cardinality(S) + 1
<1>1. Cardinality(S) \in Nat
  BY FS_CardinalityType
<1>2. /\ IsFiniteSet(S \cup {x})
      /\ Cardinality(S \cup {x}) = IF x \in S THEN Cardinality(S) ELSE Cardinality(S) + 1
  BY FS_AddElement
<1>3. /\ IsFiniteSet(T) /\ Cardinality(T) \in Nat
      /\ Cardinality(T) <= Cardinality(S \cup {x}) /\ Cardinality(S \cup {x}) \in Nat
  BY <1>2, CountSubset
<1> QED BY <1>1, <1>2, <1>3

LEMMA UnseededFinite == IsFiniteSet(Agents) /\ Unseeded \subseteq Agents
<1>1. IsFiniteSet(Agents)
  BY FS_Interval, RegistryAssumption DEF Agents
<1> QED BY <1>1 DEF Unseeded

LEMMA InitStranded == Init => StrandInv
<1> SUFFICES ASSUME Init PROVE StrandInv
  OBVIOUS
<1>1. Left = {} /\ Unseeded = {} /\ crashes = 0
  BY DEF Init, Left, Unseeded
<1>2. \A w \in Workers, a \in Agents : ~Seeding(w, a)
  BY DEF Init, Seeding
<1>3. IsFiniteSet({}) /\ Cardinality({}) = 0
  BY FS_EmptySet
<1> QED BY <1>1, <1>2, <1>3 DEF StrandInv

(* A seed has created the manifest by the time it turns to the version.    *)
LEMMA SeedingPointed ==
  ASSUME TypeInv, SayInv, StrandInv, NEW w \in Workers, Act(w),
         NEW v \in Workers, NEW a \in Agents, Seeding(v, a)'
  PROVE  SeedVersion \in pointed'[a]
<1>1. Grows /\ TypeOK /\ Knows(w)
  BY ActGrows DEF TypeInv, SayInv
<1>2. CASE Seeding(v, a)
  BY <1>1, <1>2 DEF StrandInv, Grows
<1>3. CASE ~Seeding(v, a)
  <2>1. v = w
    BY <1>3, OthersStay DEF Seeding
  <2>2. Create(w) \/ GetVersion(w) \/ GetManifest(w)
    BY <1>1, <2>1 DEF Seeding, TypeOK, Act, Request, SeedRegistry, PublishCatalogue, CreateAgent,
       PublishVersion, Rollback, Build, PatchApproval, Accept, Step, Skip, Register, Point, Approve,
       ListManifests, CreateService, BuildAgent, Crash, Goto, Return, NextSeed
  <2>3. CASE Create(w)
    <3>1. job[w] \in Job /\ pc[w] = "create" /\ pc'[w] \in {"version", "register"}
      BY <1>1, <2>1, <2>3, BusyHasJob DEF Create, Seeding
    <3>2. job' = job
      BY <1>1, <2>3, <3>1 DEF Create, Return, Goto, TypeOK
    <3>3. job[w].agent = a /\ job[w].version = SeedVersion
      BY <1>1, <2>1, <3>1, <3>2 DEF Seeding, Knows
    <3> QED BY <1>1, <2>3, <3>3 DEF Create, Write, AgentOf, TypeOK
  <2>4. CASE GetVersion(w)
    BY <1>1, <1>3, <2>1, <2>4 DEF GetVersion, Seeding, Return, Goto, TypeOK
  <2>5. CASE GetManifest(w)
    <3>1. pc'[w] \in {"version", "register"} /\ job[w] \in Job /\ pc[w] = "manifest"
      BY <1>1, <2>1, <2>5, BusyHasJob DEF GetManifest, Seeding
    <3>2. job[w].op \in {"publish", "rollback"} /\ job' = [job EXCEPT ![w].seen = Current(w).version]
      BY <1>1, <2>5, <3>1 DEF GetManifest, Goto, Return, TypeOK
    <3>3. job'[w].op = job[w].op
      BY <1>1, <3>1, <3>2 DEF Job, TypeOK
    <3> QED BY <2>1, <3>2, <3>3 DEF Seeding
  <2> QED BY <2>2, <2>3, <2>4, <2>5
<1> QED BY <1>2, <1>3

(* Only the crash of a seed that was about to register its version leaves  *)
(* an agent without it.                                                    *)
LEMMA UnseededSteps ==
  ASSUME TypeInv, SayInv, NEW w \in Workers, Act(w), NEW a \in Unseeded', a \notin Unseeded
  PROVE  Crash(w) /\ pc[w] # "point" /\ a = AgentOf(w)
<1>1. /\ Grows /\ TypeOK /\ Knows(w)
      /\ a \in Agents /\ a \notin posted' /\ a \notin posted
      /\ manifest'[a] # None /\ manifest'[a].version \notin versions'[a]
  BY ActGrows DEF TypeInv, SayInv, Unseeded, Grows
<1>2. manifest'[a].version = SeedVersion
  BY <1>1, ManifestSays DEF CreatedWith
<1>3. \A v \in Workers : ~Seeding(v, a)'
  <2>1. ASSUME NEW b, b = a PROVE \A v \in Workers : ~Seeding(v, b)'
    BY <2>1 DEF Unseeded, Seeding
  <2> QED BY <2>1
<1>4. CASE Create(w) /\ a = job[w].agent
  <2>1. job[w].op = "seed" /\ pc'[w] = "version" /\ job' = job
    BY <1>1, <1>4 DEF Create, AgentOf, Goto, TypeOK
  <2> QED BY <1>3, <1>4, <2>1 DEF Seeding
<1>5. CASE Point(w) /\ a = job[w].agent
  <2>1. manifest'[a].version = job[w].version /\ job[w].version \in versions[a]
    BY <1>1, <1>5 DEF Point, Write, AgentOf, TypeOK, Knows
  <2> QED BY <1>1, <2>1 DEF Grows
<1>6. CASE ~((Create(w) \/ Point(w)) /\ a = job[w].agent)
  <2>1. manifest[a] # None /\ manifest[a].version = manifest'[a].version
    <3>1. CASE Approve(w)
      <4>1. job[w].agent \in Agents /\ manifest[job[w].agent] \in Manifest
        BY <1>1, <3>1, BusyHasJob DEF Approve, TypeInv, TypeOK, Ready, Job
      <4> DEFINE m == [manifest[job[w].agent] EXCEPT !.approved = job[w].approved,
                                                     !.rollback = job[w].target]
      <4>2. manifest' = [manifest EXCEPT ![job[w].agent] = m]
        BY <1>1, <3>1, <4>1 DEF Approve, AgentOf, TypeOK
      <4>3. m.version = manifest[job[w].agent].version
        BY <4>1 DEF Manifest
      <4> HIDE DEF m
      <4> QED BY <1>1, <4>1, <4>2, <4>3, NoneAssumption DEF TypeOK
    <3>2. CASE Create(w) \/ Point(w)
      BY <1>1, <1>6, <3>2 DEF Create, Point, Write, AgentOf, TypeOK
    <3>3. CASE UNCHANGED manifest
      BY <1>1, <3>3
    <3> QED
      BY <3>1, <3>2, <3>3
      DEF Act, Request, SeedRegistry, PublishCatalogue, CreateAgent, PublishVersion, Rollback,
          Build, PatchApproval, Accept, Step, Skip, GetManifest, GetVersion, Register, ListManifests,
          CreateService, BuildAgent, Crash
  <2>2. manifest[a].version \notin versions[a]
    BY <1>1, <2>1 DEF Grows
  <2>3. PICK v \in Workers : Seeding(v, a)
    BY <1>1, <2>1, <2>2 DEF Unseeded
  <2>4. v = w
    BY <1>3, <2>3, OthersStay DEF Seeding
  <2>5. /\ pc[w] \in {"version", "register"} /\ job[w].op = "seed" /\ job[w].agent = a
        /\ job[w].version = SeedVersion
    BY <1>1, <2>3, <2>4 DEF Seeding, Knows
  <2>6. GetVersion(w) \/ Register(w) \/ Crash(w)
    BY <2>5 DEF Act, Request, SeedRegistry, PublishCatalogue, CreateAgent, PublishVersion, Rollback,
       Build, PatchApproval, Accept, Step, Skip, GetManifest, Create, Point, Approve, ListManifests,
       CreateService, BuildAgent
  <2>7. ~GetVersion(w)
    <3>1. SUFFICES ASSUME GetVersion(w) PROVE FALSE
      OBVIOUS
    <3>2. SeedVersion \notin versions[a]
      BY <1>2, <2>1, <2>2
    <3>3. pc'[w] = "register" /\ job' = job
      BY <1>1, <2>5, <3>1, <3>2 DEF GetVersion, AgentOf, Goto, TypeOK
    <3> QED BY <1>3, <2>5, <3>3 DEF Seeding
  <2>8. ~Register(w)
    BY <1>1, <1>2, <2>5 DEF Register, AgentOf, TypeOK
  <2> QED BY <2>5, <2>6, <2>7, <2>8 DEF AgentOf
<1> QED BY <1>4, <1>5, <1>6

(* Only the crash of a publish or a rollback that was about to point at a  *)
(* version leaves one behind that no manifest ever had.                    *)
LEMMA LeftSteps ==
  ASSUME TypeInv, SayInv, StrandInv, NEW w \in Workers, Act(w), NEW p \in Left', p \notin Left
  PROVE  Crash(w) /\ pc[w] = "point" /\ p = <<AgentOf(w), job[w].version>>
<1> DEFINE a == p[1]
           x == p[2]
<1>1. /\ Grows /\ TypeOK /\ Knows(w)
      /\ a \in Agents /\ x \in Versions /\ p = <<a, x>>
      /\ x \in versions'[a] /\ x \notin pointed'[a] /\ x \notin pointed[a]
  <2>1. Grows /\ TypeOK /\ Knows(w)
    BY ActGrows DEF TypeInv, SayInv
  <2>2. /\ p \in Agents \X Versions /\ a \in Agents /\ x \in Versions /\ p = <<a, x>>
        /\ x \in versions'[a] /\ x \notin pointed'[a]
    BY DEF Left
  <2> QED BY <2>1, <2>2 DEF Grows
<1>2. \A v \in Workers : ~(pc'[v] = "point" /\ job'[v].agent = a /\ job'[v].version = x)
  BY DEF Left, Pointing
<1> HIDE DEF a, x
<1>3. x \in versions[a]
  <2>1. SUFFICES ASSUME x \notin versions[a] PROVE FALSE
    OBVIOUS
  <2>2. Register(w)
    BY <1>1, <2>1 DEF Act, Request, SeedRegistry, PublishCatalogue, CreateAgent, PublishVersion,
       Rollback, Build, PatchApproval, Accept, Step, Skip, GetManifest, Create, GetVersion, Point,
       Approve, ListManifests, CreateService, BuildAgent, Crash
  <2>3. pc[w] = "register" /\ a = job[w].agent /\ x = job[w].version
    BY <1>1, <2>1, <2>2 DEF Register, AgentOf, TypeOK
  <2>4. CASE job[w].op = "seed"
    <3>1. x = SeedVersion /\ Seeding(w, a)
      BY <1>1, <2>3, <2>4 DEF Knows, Seeding
    <3> QED BY <1>1, <3>1 DEF StrandInv
  <2>5. CASE job[w].op # "seed"
    <3>1. pc'[w] = "point" /\ job' = job
      BY <1>1, <2>2, <2>5 DEF Register, Goto, TypeOK
    <3> QED BY <1>2, <2>3, <3>1
  <2> QED BY <2>4, <2>5
<1>4. PICK v \in Workers : Pointing(v, a, x)
  BY <1>1, <1>3 DEF Left
<1>5. v = w /\ pc[w] = "point" /\ job[w].agent = a /\ job[w].version = x
  BY <1>2, <1>4, OthersStay DEF Pointing
<1>6. Point(w) \/ Crash(w)
  BY <1>5 DEF Act, Request, SeedRegistry, PublishCatalogue, CreateAgent, PublishVersion, Rollback,
     Build, PatchApproval, Accept, Step, Skip, GetManifest, Create, GetVersion, Register, Approve,
     ListManifests, CreateService, BuildAgent
<1>7. ~Point(w)
  BY <1>1, <1>5 DEF Point, Write, AgentOf, TypeOK
<1> QED BY <1>1, <1>5, <1>6, <1>7 DEF AgentOf

LEMMA NextStranded == TypeInv /\ SayInv /\ StrandInv /\ [Next]_vars => StrandInv'
<1> SUFFICES ASSUME TypeInv, SayInv, StrandInv, [Next]_vars PROVE StrandInv'
  OBVIOUS
<1>1. ASSUME NEW w \in Workers, Act(w) PROVE StrandInv'
  <2>1. /\ IsFiniteSet(Left) /\ Cardinality(Left) \in Nat
        /\ IsFiniteSet(Unseeded) /\ Cardinality(Unseeded) \in Nat
        /\ crashes \in Nat /\ crashes' \in Nat
        /\ Cardinality(Unseeded) + Cardinality(Left) <= crashes
    <3>1. crashes' \in 0..MaxCrashes
      BY <1>1, ActBuilds
    <3>2. MaxCrashes \in Nat /\ crashes \in 0..MaxCrashes
      BY RegistryAssumption DEF TypeInv, TypeOK
    <3> QED BY <3>1, <3>2, UnseededFinite, CountSubset, FS_CardinalityType DEF StrandInv
  <2>2. \A v \in Workers, a \in Agents : Seeding(v, a)' => SeedVersion \in pointed'[a]
    BY <1>1, SeedingPointed
  <2>3. CASE Crash(w) /\ pc[w] # "point"
    <3>1. Left' \subseteq Left /\ Unseeded' \subseteq Unseeded \cup {AgentOf(w)}
      BY <1>1, <2>3, UnseededSteps, LeftSteps
    <3>2. IsFiniteSet(Left') /\ Cardinality(Left') <= Cardinality(Left) /\ Cardinality(Left') \in Nat
      BY <2>1, <3>1, CountSubset
    <3>3. Cardinality(Unseeded') <= Cardinality(Unseeded) + 1 /\ Cardinality(Unseeded') \in Nat
      BY <2>1, <3>1, CountOneMore
    <3>4. crashes' = crashes + 1
      BY <2>3 DEF Crash
    <3> QED BY <2>1, <2>2, <3>2, <3>3, <3>4 DEF StrandInv
  <2>4. CASE Crash(w) /\ pc[w] = "point"
    <3>1. Unseeded' \subseteq Unseeded /\ Left' \subseteq Left \cup {<<AgentOf(w), job[w].version>>}
      BY <1>1, <2>4, UnseededSteps, LeftSteps
    <3>2. Cardinality(Unseeded') <= Cardinality(Unseeded) /\ Cardinality(Unseeded') \in Nat
      BY <2>1, <3>1, CountSubset
    <3>3. /\ IsFiniteSet(Left') /\ Cardinality(Left') <= Cardinality(Left) + 1
          /\ Cardinality(Left') \in Nat
      BY <2>1, <3>1, CountOneMore
    <3>4. crashes' = crashes + 1
      BY <2>4 DEF Crash
    <3> QED BY <2>1, <2>2, <3>2, <3>3, <3>4 DEF StrandInv
  <2>5. CASE ~Crash(w)
    <3>1. Unseeded' \subseteq Unseeded /\ Left' \subseteq Left
      BY <1>1, <2>5, UnseededSteps, LeftSteps
    <3>2. /\ Cardinality(Unseeded') <= Cardinality(Unseeded) /\ Cardinality(Unseeded') \in Nat
          /\ IsFiniteSet(Left') /\ Cardinality(Left') <= Cardinality(Left)
          /\ Cardinality(Left') \in Nat
      BY <2>1, <3>1, CountSubset
    <3>3. crashes' = crashes \/ crashes' = crashes + 1
      BY <1>1 DEF Act, Request, SeedRegistry, PublishCatalogue, CreateAgent, PublishVersion, Rollback,
         Build, PatchApproval, Accept, Step, Skip, GetManifest, Create, GetVersion, Register, Point,
         Approve, ListManifests, CreateService, BuildAgent, Crash
    <3> QED BY <2>1, <2>2, <3>2, <3>3 DEF StrandInv
  <2> QED BY <2>3, <2>4, <2>5
<1>2. CASE UNCHANGED vars
  BY <1>2 DEF vars, StrandInv, Left, Unseeded, Pointing, Seeding
<1> QED BY <1>1, <1>2 DEF Next, Act

(* The inductive invariant behind what is left behind.                     *)
THEOREM StrandAlways == Spec => []StrandInv
  BY InitStranded, NextStranded, TypesAlways, SaysAlways, PTL DEF Spec

LEMMA StrandedCounted == TypeInv /\ StrandInv => StrandedNeedsCrash
<1> SUFFICES ASSUME TypeInv, StrandInv PROVE StrandedNeedsCrash
  OBVIOUS
<1> DEFINE orphans == UNION {{a} \X Orphans(a) : a \in Agents}
<1>1. \A w \in Workers : pc[w] # "idle" => job[w] # None
  BY BusyHasJob DEF TypeInv
<1>2. Unversioned \subseteq Unseeded
  BY <1>1 DEF Unversioned, Unseeded, InFlight, Seeding
<1>3. orphans \subseteq Left
  <2>1. ASSUME NEW a \in Agents, NEW v \in Orphans(a) PROVE <<a, v>> \in Left
    <3>1. v \in Versions /\ v \in versions[a] \ pointed[a]
      BY DEF Orphans, TypeInv, TypeOK
    <3>2. \A w \in Workers : ~Pointing(w, a, v)
      BY <1>1 DEF Orphans, Pointing
    <3> QED BY <3>1, <3>2 DEF Left
  <2> QED BY <2>1
<1>4. /\ Cardinality(Unversioned) <= Cardinality(Unseeded) /\ Cardinality(Unversioned) \in Nat
      /\ Cardinality(Unseeded) \in Nat
  BY <1>2, UnseededFinite, CountSubset
<1> HIDE DEF orphans
<1>5. /\ Cardinality(orphans) <= Cardinality(Left) /\ Cardinality(orphans) \in Nat
      /\ Cardinality(Left) \in Nat
  BY <1>3, CountSubset DEF StrandInv
<1>6. crashes \in Nat
  BY RegistryAssumption DEF TypeInv, TypeOK
<1>7. Cardinality(Unversioned) + Cardinality(orphans) <= crashes
  BY <1>4, <1>5, <1>6 DEF StrandInv
<1> QED BY <1>7 DEF StrandedNeedsCrash, orphans

(* Requests that overlap strand nothing: every version that no manifest    *)
(* ever had and every seeded agent without its version has cost a request  *)
(* that died.                                                              *)
THEOREM StrandedIsPaidFor == Spec => []StrandedNeedsCrash
  BY StrandedCounted, TypesAlways, StrandAlways, PTL

=============================================================================

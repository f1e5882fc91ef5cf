------------------------------ MODULE Registry ------------------------------
(***************************************************************************)
(* The agent registry: src/registry/store.py under the endpoints of        *)
(* src/registry/api.py, the seed of src/registry/seed.py, the upgrade and  *)
(* rollback events of src/runtime/replay_engine.py, the publication of the *)
(* manifests in the platform's catalogue by infra/agent_registry.py, and   *)
(* the factory of src/agents/base_agent.py, which builds what is approved. *)
(*                                                                         *)
(* A manifest and its versions are separate documents, an operation is a   *)
(* handful of gets followed by a set or an update, and nothing holds them  *)
(* together: requests overlap, and a process may die between two calls.    *)
(***************************************************************************)
EXTENDS Naturals, FiniteSets

CONSTANTS NumAgents,     \* the agents of the seed, in its order: 1..NumAgents
          Versions,
          SeedVersion,   \* the version every seeded manifest declares
          Workers,       \* threads of the API, the seed script, the replay
          None,
          MaxRequests,   \* bound: requests served
          MaxCrashes     \* bound: requests that die

ASSUME RegistryAssumption ==
  /\ NumAgents \in Nat \ {0}
  /\ SeedVersion \in Versions
  /\ None \notin Versions
  /\ MaxRequests \in Nat /\ MaxCrashes \in Nat

Agents == 1..NumAgents

VARIABLES
  manifest,   \* Agents -> agents/{agent_id}, None if absent
  versions,   \* Agents -> ids of the documents under agents/{agent_id}/versions
  vetted,     \* Agents -> those among them whose document says approved
  catalogue,  \* Agents -> version on the card of its service, None if absent
  fleet,      \* Agents -> versions of the agents built from the manifest
  pc, job,    \* Workers -> next call; the request with the version it read
  served, crashes,
  pointed,    \* history: the versions the manifest has had
  posted,     \* history: Agents created through the API
  named       \* history: the rollback targets that approvals named

vars == <<manifest, versions, vetted, catalogue, fleet, pc, job, served, crashes, pointed, posted, named>>

-----------------------------------------------------------------------------
Manifest == [version : Versions, approved : BOOLEAN, rollback : Versions \cup {None}]

Ops == {"create", "seed", "approve", "publish", "rollback", "catalogue",
        "build"}

\* Agents -> version on its card, None for agents without a manifest.
Cards == [Agents -> Versions \cup {None}]
NoCards == [a \in Agents |-> None]

\* version, approved and target are inputs; seen and cards were read meanwhile.
Job == [op : Ops, agent : Agents, version : Versions, approved : BOOLEAN,
        target : Versions \cup {None}, seen : Versions \cup {None}, cards : Cards]

ASSUME NoneAssumption == None \notin Manifest \cup Job

Steps == {"idle", "skip", "manifest", "create", "version", "register", "point", "approve",
          "list", "service", "build"}

TypeOK ==
  /\ manifest \in [Agents -> Manifest \cup {None}]
  /\ versions \in [Agents -> SUBSET Versions]
  /\ vetted \in [Agents -> SUBSET Versions]
  /\ catalogue \in Cards
  /\ fleet \in [Agents -> SUBSET Versions]
  /\ pc \in [Workers -> Steps]
  /\ job \in [Workers -> Job \cup {None}]
  /\ \A w \in Workers : (pc[w] = "idle") = (job[w] = None)
  /\ served \in 0..MaxRequests
  /\ crashes \in 0..MaxCrashes
  /\ pointed \in [Agents -> SUBSET Versions]
  /\ posted \subseteq Agents
  /\ named \in [Agents -> SUBSET Versions]

Init ==
  /\ manifest = [a \in Agents |-> None]
  /\ versions = [a \in Agents |-> {}]
  /\ vetted = [a \in Agents |-> {}]
  /\ catalogue = NoCards
  /\ fleet = [a \in Agents |-> {}]
  /\ pc = [w \in Workers |-> "idle"]
  /\ job = [w \in Workers |-> None]
  /\ served = 0 /\ crashes = 0
  /\ pointed = [a \in Agents |-> {}]
  /\ posted = {}
  /\ named = [a \in Agents |-> {}]

-----------------------------------------------------------------------------
Goto(w, step) == pc' = [pc EXCEPT ![w] = step]
Return(w)     == Goto(w, "idle") /\ job' = [job EXCEPT ![w] = None]
AgentOf(w)    == job[w].agent
Current(w)    == manifest[AgentOf(w)]

Accept(w, op, a, v, ok, target) ==
  /\ pc[w] = "idle"
  /\ served < MaxRequests
  /\ served' = served + 1
  /\ job' = [job EXCEPT ![w] = [op |-> op, agent |-> a, version |-> v, approved |-> ok,
                                target |-> target, seen |-> None, cards |-> NoCards]]
  /\ Goto(w, CASE op = "seed" -> "skip"
               [] op = "catalogue" -> "list"
               [] OTHER -> "manifest")
  /\ UNCHANGED <<manifest, versions, vetted, catalogue, fleet, crashes, pointed, posted, named>>

CreateAgent(w, a, v) == Accept(w, "create", a, v, FALSE, None)

SeedRegistry(w) == Accept(w, "seed", 1, SeedVersion, TRUE, None)

PatchApproval(w, a, ok, target) == Accept(w, "approve", a, SeedVersion, ok, target)

PublishVersion(w, a, v) == Accept(w, "publish", a, v, FALSE, None)

Rollback(w, a, v) == Accept(w, "rollback", a, v, TRUE, None)

PublishCatalogue(w) == Accept(w, "catalogue", 1, SeedVersion, FALSE, None)

Build(w, a) == Accept(w, "build", a, SeedVersion, TRUE, None)

\* Mutant: the loop over the seeds runs one agent too far.
NextSeedUnbounded(w) == Goto(w, "skip") /\ job' = [job EXCEPT ![w].agent = @ + 1]

\* The seed's loop takes the next agent, or the seed is done.
NextSeed(w) ==
  IF AgentOf(w) < NumAgents
  THEN Goto(w, "skip") /\ job' = [job EXCEPT ![w].agent = @ + 1]
  ELSE Return(w)

(* seed_registry: an agent that is already there is skipped.               *)
Skip(w) ==
  /\ pc[w] = "skip"
  /\ IF Current(w) # None THEN NextSeed(w) ELSE Goto(w, "manifest") /\ UNCHANGED job
  /\ UNCHANGED <<manifest, versions, vetted, catalogue, fleet, served, crashes, pointed, posted, named>>

(* The first call of every operation: the manifest.  To create it, it must *)
(* be absent (DuplicateAgentError); the others need it                     *)
(* (AgentNotFoundError), and publish and rollback remember its version; so *)
(* does the factory, unless the manifest is not approved.                  *)
GetManifest(w) ==
  LET op == job[w].op IN
  /\ pc[w] = "manifest"
  /\ \/ /\ (Current(w) = None) # (op \in {"create", "seed"})
        /\ Return(w)
     \/ /\ Current(w) = None /\ op \in {"create", "seed"}
        /\ Goto(w, "create") /\ UNCHANGED job
     \/ /\ Current(w) # None /\ op = "approve"
        /\ Goto(w, "approve") /\ UNCHANGED job
     \/ /\ Current(w) # None /\ op \in {"publish", "rollback"}
        /\ job' = [job EXCEPT ![w].seen = Current(w).version]
        /\ Goto(w, "version")
     \/ /\ Current(w) # None /\ op = "build"
        /\ IF Current(w).approved
           THEN Goto(w, "build") /\ job' = [job EXCEPT ![w].seen = Current(w).version]
           ELSE Return(w)
  /\ UNCHANGED <<manifest, versions, vetted, catalogue, fleet, served, crashes, pointed, posted, named>>

\* A write of the manifest, with its history.
Write(a, m) ==
  /\ manifest' = [manifest EXCEPT ![a] = m]
  /\ pointed' = [pointed EXCEPT ![a] = @ \cup {m.version}]

\* Mutant: the seed leaves the version to somebody else.
CreateManifestOnly(w) ==
  /\ pc[w] = "create"
  /\ Write(AgentOf(w), [version |-> job[w].version, approved |-> job[w].approved,
                        rollback |-> None])
  /\ IF job[w].op = "seed"
     THEN NextSeed(w) /\ UNCHANGED posted
     ELSE Return(w) /\ posted' = posted \cup {AgentOf(w)}
  /\ UNCHANGED <<versions, vetted, catalogue, fleet, served, crashes, named>>

(* create_manifest: an unconditional set; the seed declares its manifests  *)
(* approved and registers their version next.                              *)
Create(w) ==
  /\ pc[w] = "create"
  /\ Write(AgentOf(w), [version |-> job[w].version, approved |-> job[w].approved,
                        rollback |-> None])
  /\ IF job[w].op = "seed"
     THEN Goto(w, "version") /\ UNCHANGED <<job, posted>>
     ELSE Return(w) /\ posted' = posted \cup {AgentOf(w)}
  /\ UNCHANGED <<versions, vetted, catalogue, fleet, served, crashes, named>>

\* Mutant: rollback trusts the caller that the version is there.
GetVersionTrusting(w) ==
  LET rollback == job[w].op = "rollback" IN
  /\ pc[w] = "version"
  /\ IF job[w].version \in versions[AgentOf(w)] /\ ~rollback
     THEN Return(w)
     ELSE Goto(w, IF rollback THEN "point" ELSE "register") /\ UNCHANGED job
  /\ UNCHANGED <<manifest, versions, vetted, catalogue, fleet, served, crashes, pointed, posted, named>>

(* add_version must find the id free, rollback must find the version.  The *)
(* agent's own document, which add_version gets too, is never deleted.     *)
GetVersion(w) ==
  LET registered == job[w].version \in versions[AgentOf(w)] IN
  /\ pc[w] = "version"
  /\ IF registered # (job[w].op = "rollback")
     THEN Return(w)                 \* DuplicateAgentError, AgentNotFoundError
     ELSE Goto(w, IF registered THEN "point" ELSE "register") /\ UNCHANGED job
  /\ UNCHANGED <<manifest, versions, vetted, catalogue, fleet, served, crashes, pointed, posted, named>>

(* add_version: the seed declares its version approved, an upgrade does    *)
(* not, and nothing ever changes the flag of a version.                    *)
Register(w) ==
  /\ pc[w] = "register"
  /\ versions' = [versions EXCEPT ![AgentOf(w)] = @ \cup {job[w].version}]
  /\ vetted' = IF job[w].op = "seed"
               THEN [vetted EXCEPT ![AgentOf(w)] = @ \cup {job[w].version}] ELSE vetted
  /\ IF job[w].op = "seed" THEN NextSeed(w) ELSE Goto(w, "point") /\ UNCHANGED job
  /\ UNCHANGED <<manifest, catalogue, fleet, served, crashes, pointed, posted, named>>

\* Mutant: the target is some other registered version, whether or not it
\* was ever current.
PointAtSibling(w) ==
  LET others == versions[AgentOf(w)] \ {job[w].version} IN
  /\ pc[w] = "point"
  /\ Write(AgentOf(w), [version |-> job[w].version, approved |-> job[w].op = "rollback",
                        rollback |-> IF others = {} THEN None ELSE CHOOSE v \in others : TRUE])
  /\ Return(w)
  /\ UNCHANGED <<versions, vetted, catalogue, fleet, served, crashes, posted, named>>

(* publish_version and rollback, last write: the update names the version  *)
(* read at the start, which need not be current any more.                  *)
Point(w) ==
  /\ pc[w] = "point"
  /\ Write(AgentOf(w), [version |-> job[w].version, approved |-> job[w].op = "rollback",
                        rollback |-> job[w].seen])
  /\ Return(w)
  /\ UNCHANGED <<versions, vetted, catalogue, fleet, served, crashes, posted, named>>

(* update_approval: whatever version the manifest points at by now, and an *)
(* omitted rollback_target erases the recorded one.                        *)
Approve(w) ==
  LET a == AgentOf(w) IN
  /\ pc[w] = "approve"
  /\ manifest' = [manifest EXCEPT ![a].approved = job[w].approved,
                                  ![a].rollback = job[w].target]
  /\ named' = [named EXCEPT ![a] = @ \cup ({job[w].target} \ {None})]
  /\ Return(w)
  /\ UNCHANGED <<versions, vetted, catalogue, fleet, served, crashes, pointed, posted>>

\* build_agent_card: every field of a card derives from the manifest.
Card(m) == IF m = None THEN None ELSE m.version

(* The publication lists the manifests, refuses an empty registry, and     *)
(* writes all the cards before it registers the first of them.             *)
ListManifests(w) ==
  /\ pc[w] = "list"
  /\ IF \A a \in Agents : manifest[a] = None
     THEN Return(w)
     ELSE /\ job' = [job EXCEPT ![w].cards = [a \in Agents |-> Card(manifest[a])]]
          /\ Goto(w, "service")
  /\ UNCHANGED <<manifest, versions, vetted, catalogue, fleet, served, crashes, pointed, posted, named>>

(* services create, one agent after the other: a service that exists keeps *)
(* the card it has, and the script counts that as success.  A failing call *)
(* is counted and the loop goes on.                                        *)
CreateService(w) ==
  LET a == AgentOf(w)
      card == job[w].cards[a]
  IN
  /\ pc[w] = "service"
  /\ IF a < NumAgents THEN Goto(w, "service") /\ job' = [job EXCEPT ![w].agent = @ + 1]
                      ELSE Return(w)
  /\ \/ /\ catalogue' = IF catalogue[a] = None THEN [catalogue EXCEPT ![a] = card] ELSE catalogue
        /\ UNCHANGED crashes
     \/ /\ card # None /\ crashes < MaxCrashes
        /\ crashes' = crashes + 1
        /\ UNCHANGED catalogue
  /\ UNCHANGED <<manifest, versions, vetted, fleet, served, pointed, posted, named>>

\* Mutant: the approval of the manifest is taken to cover its version.
BuildAgentOnManifest(w) ==
  LET a == AgentOf(w)  v == job[w].seen IN
  /\ pc[w] = "build"
  /\ fleet' = IF v \in versions[a] THEN [fleet EXCEPT ![a] = @ \cup {v}] ELSE fleet
  /\ Return(w)
  /\ UNCHANGED <<manifest, versions, vetted, catalogue, served, crashes, pointed, posted, named>>

\* bind_manifest refuses the identity, which only the API leaves to a caller.
Misbound(a) == a \in posted

(* build_agent_from_manifest, second read: the version must be there and   *)
(* be approved by itself.                                                  *)
BuildAgent(w) ==
  LET a == AgentOf(w)  v == job[w].seen IN
  /\ pc[w] = "build"
  /\ \/ v \in vetted[a] /\ fleet' = [fleet EXCEPT ![a] = @ \cup {v}]
     \/ (v \notin vetted[a] \/ Misbound(a)) /\ UNCHANGED fleet
  /\ Return(w)
  /\ UNCHANGED <<manifest, versions, vetted, catalogue, served, crashes, pointed, posted, named>>

(* A call raises, or the process dies.                                     *)
Crash(w) ==
  /\ pc[w] # "idle"
  /\ crashes < MaxCrashes
  /\ crashes' = crashes + 1
  /\ Return(w)
  /\ UNCHANGED <<manifest, versions, vetted, catalogue, fleet, served, pointed, posted, named>>

Step(w) ==
  \/ Skip(w) \/ GetManifest(w) \/ Create(w) \/ GetVersion(w)
  \/ Register(w) \/ Point(w) \/ Approve(w) \/ ListManifests(w) \/ CreateService(w)
  \/ BuildAgent(w)

Request(w) ==
  \/ SeedRegistry(w) \/ PublishCatalogue(w)
  \/ \E a \in Agents, v \in Versions :
       CreateAgent(w, a, v) \/ PublishVersion(w, a, v) \/ Rollback(w, a, v)
  \/ \E a \in Agents : Build(w, a)
  \/ \E a \in Agents, ok \in BOOLEAN, t \in Versions \cup {None} : PatchApproval(w, a, ok, t)

Next == \E w \in Workers : Request(w) \/ Step(w) \/ Crash(w)

Spec == Init /\ [][Next]_vars

-----------------------------------------------------------------------------
(* PROPERTIES                                                              *)

InFlight(a, op) == \E w \in Workers : job[w] # None /\ job[w].agent = a /\ job[w].op \in op

(* The registry never points at a version that a publish or a rollback     *)
(* merely mentioned: a version without a document is one that the manifest *)
(* was created with, and only its creation leaves the document behind.     *)
CreatedWith(a) == IF a \in posted THEN Versions ELSE {SeedVersion}
VersionRegistered ==
  \A a \in Agents : manifest[a] # None =>
    manifest[a].version \in versions[a] \cup CreatedWith(a)

Orphans(a) == {v \in versions[a] \ pointed[a] :
                 \A w \in Workers :
                   ~(job[w] # None /\ job[w].agent = a /\ job[w].version = v)}

Unversioned == {a \in Agents \ posted : /\ manifest[a] # None
                                        /\ manifest[a].version \notin versions[a]
                                        /\ ~InFlight(a, {"seed"})}

(* Two things are beyond repair: a version that is registered and never    *)
(* becomes the manifest's, since every further publish of it is a          *)
(* duplicate, and a seeded agent without its version, since the next seed  *)
(* skips it.  Requests that merely overlap leave neither behind: each one  *)
(* has cost a request that died.                                           *)
StrandedNeedsCrash ==
  Cardinality(Unversioned) + Cardinality(UNION {{a} \X Orphans(a) : a \in Agents}) <= crashes

(* The declared rollback target is a version this agent really had, or one *)
(* that an approval named, and the card in the catalogue is one that the   *)
(* manifest really had: what was read at the start of a publish or of a    *)
(* publication may be stale, but it is never made up.                      *)
NamesWereCurrent ==
  \A a \in Agents :
    /\ manifest[a] # None => manifest[a].rollback \in pointed[a] \cup named[a] \cup {None}
    /\ catalogue[a] \in pointed[a] \cup {None}

(* An approval reaches whatever version the manifest points at by the time *)
(* it is written, so the manifest alone vouches for nothing.  All the same *)
(* no order of upgrades, approvals and rollbacks gets a version run that   *)
(* the seed has not vetted and registered for this very agent.             *)
BuiltWereVetted ==
  \A a \in Agents :
    fleet[a] # {} => fleet[a] = {SeedVersion} /\ SeedVersion \in pointed[a] \cap versions[a]
=============================================================================

------------------------------ MODULE Provision ------------------------------
(***************************************************************************)
(* The scripts of infra/ that build the cloud project a deal room runs in: *)
(* the bootstrap (project, billing, services, staging bucket, cost cap),   *)
(* the data room of a deal, the audit guardrails, and the deployment and   *)
(* deletion of the agent engine.  Every call of gcloud or of the client    *)
(* library is a step: operators run the scripts at the same time, a run    *)
(* may be cut short before any call, a lookup whose failure the code does  *)
(* not check may fail and is then read as "missing", and people change     *)
(* budgets and policies from the console.  What the provider does with a   *)
(* call is external and written down in Needs, Refused and Commit.         *)
(***************************************************************************)
EXTENDS Naturals, Sequences, FiniteSets

CONSTANTS
    Operator,     \* people or jobs that run the scripts
    Budget,       \* names the provider gives to budgets, never reused
    Engine,       \* names the provider gives to agent engines, never reused
    Member,       \* members somebody may add to the project's policy
    None,         \* no value
    MaxRuns,      \* bound: scripts started
    MaxFaults,    \* bound: runs cut short, and lookups that fail unnoticed
    MaxOutside    \* bound: changes made from the console

(* The resources a script gets or creates, in the order of its main().     *)
Bootstrap == <<"project", "billing", "services", "staging">>
DataRoom == <<"topic", "us", "eu", "grant", "us_note", "eu_note", "subscription">>
Resource == {Bootstrap[i] : i \in 1 .. 4} \cup {DataRoom[i] : i \in 1 .. 7}
Script == {"bootstrap", "dataroom", "guardrails", "deploy", "delete"}
Plan(s) == IF s = "bootstrap" THEN Bootstrap ELSE DataRoom

(* A second creation changes nothing for these, adds a copy for the        *)
(* notifications, and is refused for every other resource.                 *)
Repeatable == {"billing", "services", "grant"}
Notification == {"us_note", "eu_note"}

(* Lookups run with check=False, whose failure is taken for an absence.    *)
Unchecked == {"project", "billing", "staging", "topic", "us", "eu", "subscription"}

(* What the provider wants to see before it creates a resource.            *)
Needs(r) ==
    CASE r = "project" -> {}
      [] r = "billing" -> {"project"}
      [] r \in {"services", "staging"} -> {"project", "billing"}
      [] r \in {"topic", "us", "eu"} -> {"project", "billing", "services"}
      [] r \in {"grant", "subscription"} -> {"topic"}
      [] r = "us_note" -> {"us", "topic", "grant"}
      [] r = "eu_note" -> {"eu", "topic", "grant"}

BudgetState == {"unborn", "right", "amount", "rules", "gone"}
LiveBudget == {"right", "amount", "rules"}
EngineState == {"unborn", "live", "gone"}
Audit == {"target", "other"}
Policy == [bindings : SUBSET Member, audits : SUBSET Audit, etag : Nat]
Step == {"idle", "look", "make", "find", "describe", "remove", "recreate", "update",
         "create_cap", "verify", "read", "set", "inspect", "create", "write", "load",
         "destroy", "unlink"}

ASSUME NoneAssumption == None \notin Script \cup Engine

VARIABLES
    count,        \* copies of each resource at the provider
    budgets,      \* the cost caps of this project and display name
    policy,       \* the project's IAM policy
    keys,         \* some service account has a user-managed key
    engines,      \* the agent engines
    stateFile,    \* agent_engine_state.json
    job,          \* the script each operator runs
    pc,           \* and the call it is about to make
    pos,          \* and how far it is in Plan
    held,         \* what its last lookup returned
    done,         \* scripts that have reported success at least once
    capped,       \* history: the project has had a cost cap
    overlapped,   \* history: two runs touched the same resources at once, or
                  \* a data room was begun before a bootstrap had succeeded
    glitched,     \* history: an unchecked lookup failed
    cut,          \* history: the steps at which runs were cut short
    refused,      \* history: scripts the provider or a verification stopped
    runs, faults, outside

vars == <<count, budgets, policy, keys, engines, stateFile, job, pc, pos, held, done,
          capped, overlapped, glitched, cut, refused, runs, faults, outside>>
cloud == <<count, budgets, policy, keys, engines, stateFile>>
past == <<capped, overlapped, glitched, cut>>
bounds == <<runs, faults, outside>>

Caps == {b \in Budget : budgets[b] \in LiveBudget}
Live == {e \in Engine : engines[e] = "live"}

TypeOK ==
    /\ count \in [Resource -> Nat]
    /\ budgets \in [Budget -> BudgetState]
    /\ policy \in Policy
    /\ keys \in BOOLEAN
    /\ engines \in [Engine -> EngineState]
    /\ stateFile \in Engine \cup {None}
    /\ job \in [Operator -> Script \cup {None}]
    /\ pc \in [Operator -> Step]
    /\ pos \in [Operator -> Nat]
    /\ \A o \in Operator :
         /\ pc[o] = "idle" <=> job[o] = None
         /\ pc[o] \in {"look", "make"} =>
              job[o] \in {"bootstrap", "dataroom"} /\ pos[o] \in 1 .. Len(Plan(job[o]))
    /\ held \in [Operator -> Budget \cup Engine \cup Policy \cup {None}]
    /\ \A o \in Operator :
         /\ pc[o] \in {"describe", "remove", "update"} => held[o] \in Budget
         /\ pc[o] \in {"write", "destroy"} => held[o] \in Engine
         /\ pc[o] = "set" => held[o] \in Policy
    /\ done \subseteq Script /\ refused \subseteq Script /\ cut \subseteq Step
    /\ capped \in BOOLEAN /\ overlapped \in BOOLEAN /\ glitched \in BOOLEAN
    /\ runs \in Nat /\ faults \in Nat /\ outside \in Nat

Init ==
    /\ count = [r \in Resource |-> 0]
    /\ budgets = [b \in Budget |-> "unborn"]
    /\ policy = [bindings |-> {}, audits |-> {}, etag |-> 0]
    /\ keys = FALSE
    /\ engines = [e \in Engine |-> "unborn"]
    /\ stateFile = None
    /\ job = [o \in Operator |-> None]
    /\ pc = [o \in Operator |-> "idle"]
    /\ pos = [o \in Operator |-> 0]
    /\ held = [o \in Operator |-> None]
    /\ done = {} /\ refused = {} /\ cut = {}
    /\ capped = FALSE /\ overlapped = FALSE /\ glitched = FALSE
    /\ runs = 0 /\ faults = 0 /\ outside = 0

-----------------------------------------------------------------------------
(* Control of one run.                                                     *)

Goto(o, p) == pc' = [pc EXCEPT ![o] = p]
Keep(o, v) == held' = [held EXCEPT ![o] = v]

(* A run is over: the operator is free and what it knew is forgotten.      *)
Exit(o) ==
    /\ Goto(o, "idle")
    /\ job' = [job EXCEPT ![o] = None]
    /\ pos' = [pos EXCEPT ![o] = 0]
    /\ Keep(o, None)

Succeed(o) == Exit(o) /\ done' = done \cup {job[o]} /\ UNCHANGED refused
Stop(o) == Exit(o) /\ refused' = refused \cup {job[o]} /\ UNCHANGED done
Continue(o, p) == Goto(o, p) /\ UNCHANGED <<job, pos, done, refused>>

Family(s) == IF s \in {"deploy", "delete"} THEN {"deploy", "delete"} ELSE {s}

(* main() of each script, up to its first call.                            *)
Begin(o, s) ==
    /\ pc[o] = "idle" /\ runs < MaxRuns
    /\ runs' = runs + 1
    /\ job' = [job EXCEPT ![o] = s]
    /\ pos' = [pos EXCEPT ![o] = 1]
    /\ Goto(o, CASE s \in {"bootstrap", "dataroom"} -> "look"
                 [] s = "guardrails" -> "read"
                 [] s = "deploy" -> "create"
                 [] s = "delete" -> "load")
    /\ overlapped' = \/ overlapped
                     \/ \E p \in Operator \ {o} : job[p] \in Family(s)
                     \/ s = "dataroom" /\ "bootstrap" \notin done
    /\ UNCHANGED <<cloud, held, done, refused, capped, glitched, cut, faults, outside>>

(* The process dies, or a checked call raises, before its call took effect. *)
CutShort(o) ==
    /\ pc[o] # "idle" /\ faults < MaxFaults
    /\ faults' = faults + 1
    /\ cut' = cut \cup {pc[o]}
    /\ Exit(o)
    /\ UNCHANGED <<cloud, done, refused, capped, overlapped, glitched, runs, outside>>

-----------------------------------------------------------------------------
(* ensure_project .. ensure_staging_bucket, ensure_topic .. ensure_subscription *)

Wanted(o) == Plan(job[o])[pos[o]]

(* On to the next resource, or past the last one of the plan.              *)
Onward(o) ==
    IF pos[o] < Len(Plan(job[o]))
    THEN /\ Goto(o, "look") /\ pos' = [pos EXCEPT ![o] = pos[o] + 1]
         /\ UNCHANGED <<job, held, done, refused>>
    ELSE IF job[o] = "bootstrap"
    THEN Continue(o, "find") /\ UNCHANGED held
    ELSE Succeed(o)

(* Mutant: the listing of notifications never matches.                     *)
LookUnfiltered(o) ==
    /\ pc[o] = "look"
    /\ IF count[Wanted(o)] > 0 /\ Wanted(o) \notin Notification
       THEN Onward(o) ELSE Continue(o, "make") /\ UNCHANGED held
    /\ UNCHANGED <<cloud, past, bounds>>

(* The describe or list call of an ensure_ function.                       *)
Look(o) ==
    /\ pc[o] = "look"
    /\ IF count[Wanted(o)] > 0 THEN Onward(o)
                               ELSE Continue(o, "make") /\ UNCHANGED held
    /\ UNCHANGED <<cloud, past, bounds>>

(* It fails, and the code reads the failure as an absence.                 *)
LookFails(o) ==
    /\ pc[o] = "look" /\ Wanted(o) \in Unchecked /\ faults < MaxFaults
    /\ faults' = faults + 1 /\ glitched' = TRUE
    /\ Continue(o, "make")
    /\ UNCHANGED <<cloud, held, capped, overlapped, cut, runs, outside>>

Refused(r) ==
    \/ \E n \in Needs(r) : count[n] = 0
    \/ count[r] > 0 /\ r \notin Repeatable \cup Notification

(* The create call of an ensure_ function; a refusal ends the script.      *)
Make(o) ==
    /\ pc[o] = "make"
    /\ LET r == Wanted(o) IN
       IF Refused(r)
       THEN Stop(o) /\ UNCHANGED count
       ELSE /\ count' = [count EXCEPT ![r] = IF r \in Notification THEN @ + 1 ELSE 1]
            /\ Onward(o)
    /\ UNCHANGED <<budgets, policy, keys, engines, stateFile, past, bounds>>

-----------------------------------------------------------------------------
(* ensure_budget and verify of the bootstrap                               *)

(* find_budget: any budget of the display name, None when there is none.   *)
FindBudget(o) ==
    /\ pc[o] = "find"
    /\ \/ \E b \in Caps : Keep(o, b) /\ Continue(o, "describe")
       \/ Caps = {} /\ Keep(o, None) /\ Continue(o, "create_cap")
    /\ UNCHANGED <<cloud, past, bounds>>

(* Its describe calls are unchecked: a budget they miss is not found.      *)
FindMisses(o) ==
    /\ pc[o] = "find" /\ Caps # {} /\ faults < MaxFaults
    /\ faults' = faults + 1 /\ glitched' = TRUE
    /\ Keep(o, None) /\ Continue(o, "create_cap")
    /\ UNCHANGED <<cloud, capped, overlapped, cut, runs, outside>>

(* build_budget_args and the create call, new or in place of a removed cap. *)
CreateCap(o) ==
    /\ pc[o] \in {"create_cap", "recreate"}
    /\ \E b \in Budget : /\ budgets[b] = "unborn"
                         /\ budgets' = [budgets EXCEPT ![b] = "right"]
    /\ capped' = TRUE
    /\ Continue(o, "verify") /\ Keep(o, None)
    /\ UNCHANGED <<count, policy, keys, engines, stateFile, overlapped, glitched, cut, bounds>>

(* describe_budget and budget_matches_desired: what to do about the cap.   *)
(* A describe that fails returns None, which counts as drifted thresholds. *)
Remedy(state) == CASE state = "right" -> "verify"
                   [] state = "amount" -> "update"
                   [] OTHER -> "remove"

DescribeBudget(o) ==
    /\ pc[o] = "describe"
    /\ \/ Continue(o, Remedy(budgets[held[o]])) /\ UNCHANGED <<glitched, faults>>
       \/ /\ faults < MaxFaults
          /\ faults' = faults + 1 /\ glitched' = TRUE
          /\ Continue(o, Remedy("gone"))
    /\ UNCHANGED <<cloud, held, capped, overlapped, cut, runs, outside>>

(* Mutant: the cap is deleted and not created again.                       *)
RemoveCapOnly(o) ==
    /\ pc[o] = "remove"
    /\ IF held[o] \in Caps
       THEN /\ budgets' = [budgets EXCEPT ![held[o]] = "gone"]
            /\ Continue(o, "verify") /\ UNCHANGED held
       ELSE Stop(o) /\ UNCHANGED budgets
    /\ UNCHANGED <<count, policy, keys, engines, stateFile, past, bounds>>

(* The thresholds cannot be updated in place: delete, then create again.   *)
RemoveCap(o) ==
    /\ pc[o] = "remove"
    /\ IF held[o] \in Caps
       THEN /\ budgets' = [budgets EXCEPT ![held[o]] = "gone"]
            /\ Continue(o, "recreate") /\ UNCHANGED held
       ELSE Stop(o) /\ UNCHANGED budgets
    /\ UNCHANGED <<count, policy, keys, engines, stateFile, past, bounds>>

(* The update call writes the amount and leaves the thresholds.            *)
UpdateCap(o) ==
    /\ pc[o] = "update"
    /\ IF held[o] \in Caps
       THEN /\ budgets' = [budgets EXCEPT ![held[o]] = IF @ = "amount" THEN "right" ELSE @]
            /\ Continue(o, "verify") /\ UNCHANGED held
       ELSE Stop(o) /\ UNCHANGED budgets
    /\ UNCHANGED <<count, policy, keys, engines, stateFile, past, bounds>>

(* verify(): services enabled, a budget found, billing linked; an          *)
(* unchecked lookup that fails here stops the script.                      *)
VerifyBootstrap(o) ==
    /\ pc[o] = "verify"
    /\ \/ /\ IF count["services"] > 0 /\ Caps # {} /\ count["billing"] > 0
             THEN Succeed(o) ELSE Stop(o)
          /\ UNCHANGED <<glitched, faults>>
       \/ /\ faults < MaxFaults
          /\ faults' = faults + 1 /\ glitched' = TRUE
          /\ Stop(o)
    /\ UNCHANGED <<cloud, capped, overlapped, cut, runs, outside>>

-----------------------------------------------------------------------------
(* guardrails: read the policy, merge the audit configuration, write it    *)

(* merge_audit_configs keeps bindings, foreign configurations and the etag. *)
Merge(p) == [p EXCEPT !.audits = @ \cup {"target"}]

(* set-iam-policy refuses a policy read before the last change.            *)
Commit(p) == [p EXCEPT !.etag = @ + 1]

ReadPolicy(o) ==
    /\ pc[o] = "read"
    /\ Keep(o, policy)
    /\ Continue(o, IF Merge(policy) = policy THEN "inspect" ELSE "set")
    /\ UNCHANGED <<cloud, past, bounds>>

(* Mutant: the policy is written back without its etag.                    *)
SetPolicyBlind(o) ==
    /\ pc[o] = "set"
    /\ policy' = [Commit(Merge(held[o])) EXCEPT !.etag = policy.etag + 1]
    /\ Continue(o, "inspect") /\ Keep(o, None)
    /\ UNCHANGED <<count, budgets, keys, engines, stateFile, past, bounds>>

SetPolicy(o) ==
    /\ pc[o] = "set"
    /\ IF held[o].etag = policy.etag
       THEN /\ policy' = Commit(Merge(held[o]))
            /\ Continue(o, "inspect") /\ Keep(o, None)
       ELSE Stop(o) /\ UNCHANGED policy
    /\ UNCHANGED <<count, budgets, keys, engines, stateFile, past, bounds>>

(* verify(): the audit configuration is there and no user-managed key is;  *)
(* a listing of keys that fails counts as none.                            *)
VerifyGuardrails(o) ==
    /\ pc[o] = "inspect"
    /\ \/ /\ IF "target" \in policy.audits /\ ~keys THEN Succeed(o) ELSE Stop(o)
          /\ UNCHANGED <<glitched, faults>>
       \/ /\ keys /\ faults < MaxFaults
          /\ faults' = faults + 1 /\ glitched' = TRUE
          /\ IF "target" \in policy.audits THEN Succeed(o) ELSE Stop(o)
    /\ UNCHANGED <<cloud, capped, overlapped, cut, runs, outside>>

-----------------------------------------------------------------------------
(* agent_engine: deploy and delete                                         *)

CreateEngine(o) ==
    /\ pc[o] = "create"
    /\ \E e \in Engine : /\ engines[e] = "unborn"
                         /\ engines' = [engines EXCEPT ![e] = "live"]
                         /\ Keep(o, e)
    /\ Continue(o, "write")
    /\ UNCHANGED <<count, budgets, policy, keys, stateFile, past, bounds>>

(* The state file is overwritten, whatever it named before.                *)
WriteState(o) ==
    /\ pc[o] = "write"
    /\ stateFile' = held[o]
    /\ Succeed(o)
    /\ UNCHANGED <<count, budgets, policy, keys, engines, past, bounds>>

(* Mutant: nobody looks whether there is a state file.                     *)
LoadNameUnchecked(o) ==
    /\ pc[o] = "load"
    /\ Keep(o, stateFile) /\ Continue(o, "destroy")
    /\ UNCHANGED <<cloud, past, bounds>>

(* load_resource_name: the name on the command line, or else of the file.  *)
LoadName(o) ==
    /\ pc[o] = "load"
    /\ \/ \E e \in Live : Keep(o, e) /\ Continue(o, "destroy")
       \/ stateFile # None /\ Keep(o, stateFile) /\ Continue(o, "destroy")
       \/ stateFile = None /\ Stop(o)
    /\ UNCHANGED <<cloud, past, bounds>>

(* Mutant: the state file stays when its engine goes.                      *)
DestroyEngineOnly(o) ==
    /\ pc[o] = "destroy"
    /\ IF held[o] \in Live
       THEN engines' = [engines EXCEPT ![held[o]] = "gone"] /\ Succeed(o)
       ELSE Stop(o) /\ UNCHANGED engines
    /\ UNCHANGED <<count, budgets, policy, keys, stateFile, past, bounds>>

DestroyEngine(o) ==
    /\ pc[o] = "destroy"
    /\ IF held[o] \in Live
       THEN /\ engines' = [engines EXCEPT ![held[o]] = "gone"]
            /\ Continue(o, "unlink") /\ UNCHANGED held
       ELSE Stop(o) /\ UNCHANGED engines
    /\ UNCHANGED <<count, budgets, policy, keys, stateFile, past, bounds>>

(* The file goes, even when it named another engine.                       *)
UnlinkState(o) ==
    /\ pc[o] = "unlink"
    /\ stateFile' = None
    /\ Succeed(o)
    /\ UNCHANGED <<count, budgets, policy, keys, engines, past, bounds>>

-----------------------------------------------------------------------------
(* Changes from the console                                                *)

Outside == outside < MaxOutside /\ outside' = outside + 1

DriftBudget ==
    /\ Outside
    /\ \E b \in Caps, d \in {"amount", "rules"} : budgets' = [budgets EXCEPT ![b] = d]
    /\ UNCHANGED <<count, policy, keys, engines, stateFile, job, pc, pos, held, done,
                   past, refused, runs, faults>>

Administer ==
    /\ Outside
    /\ \/ \E m \in Member : policy' = Commit([policy EXCEPT !.bindings = @ \cup {m}])
       \/ policy' = Commit([policy EXCEPT !.audits = @ \cup {"other"}])
    /\ UNCHANGED <<count, budgets, keys, engines, stateFile, job, pc, pos, held, done,
                   past, refused, runs, faults>>

CreateKey ==
    /\ Outside /\ ~keys
    /\ keys' = TRUE
    /\ UNCHANGED <<count, budgets, policy, engines, stateFile, job, pc, pos, held, done,
                   past, refused, runs, faults>>

Next ==
    \/ \E o \in Operator :
         \/ \E s \in Script : Begin(o, s)
         \/ CutShort(o) \/ Look(o) \/ LookFails(o) \/ Make(o)
         \/ FindBudget(o) \/ FindMisses(o) \/ CreateCap(o) \/ DescribeBudget(o)
         \/ RemoveCap(o) \/ UpdateCap(o) \/ VerifyBootstrap(o)
         \/ ReadPolicy(o) \/ SetPolicy(o) \/ VerifyGuardrails(o)
         \/ CreateEngine(o) \/ WriteState(o) \/ LoadName(o) \/ DestroyEngine(o)
         \/ UnlinkState(o)
    \/ DriftBudget \/ Administer \/ CreateKey

Spec == Init /\ [][Next]_vars

-----------------------------------------------------------------------------
(* Properties                                                              *)

(* A project that has had a cost cap is without one only while a run is    *)
(* between the two halves of the recreation, or after a run was cut short  *)
(* there (ensure_budget deletes before it creates).                        *)
CapHeld ==
    capped /\ Caps = {} => "recreate" \in cut \/ \E o \in Operator : pc[o] = "recreate"

(* Scripts are idempotent, as bootstrap_gcp.py says of itself: whatever    *)
(* was cut short before, a bootstrap or a data room is stopped only if     *)
(* runs overlapped, came in the wrong order, or took a failed lookup for   *)
(* an absence; and neither leaves a second cap, or a second notification,  *)
(* which would deliver every upload twice.                                 *)
Idempotent ==
    ~overlapped =>
        /\ \A n \in Notification : count[n] <= 1
        /\ ~glitched => /\ refused \cap {"bootstrap", "dataroom"} = {}
                        /\ Cardinality(Caps) <= 1

(* guardrails.py promises that its merge never drops bindings: what others *)
(* write into the policy between its read and its write is not lost.       *)
PolicyKept ==
    [][policy.bindings \subseteq policy'.bindings /\ policy.audits \subseteq policy'.audits]_vars

(* With one operator at a time, the state file names an engine that lives, *)
(* except between its deletion and the unlink, or when a run was cut there. *)
FileNamesLive ==
    ~overlapped /\ stateFile # None =>
        \/ stateFile \in Live
        \/ "unlink" \in cut
        \/ \E o \in Operator : pc[o] = "unlink"
=============================================================================

-------------------------------- MODULE Runner --------------------------------
(***************************************************************************)
(* The dispatch runner and its dead-letter queue: src/runtime/runner.py    *)
(* and src/runtime/dlq.py.                                                 *)
(*                                                                         *)
(* dispatch_event reads the state marker of the event's dedupe key, runs   *)
(* the handler up to max_attempts times, and then writes the marker; an    *)
(* event that exhausts its attempts is first stored in the dead-letter     *)
(* queue and reported to the event log.  Each of these is a separate       *)
(* Firestore call, none of them is conditional on what the marker was, and *)
(* a process may die between any two.  redrive, run by an operator, handles*)
(* a stored event again and removes its record on success.                 *)
(*                                                                         *)
(* Events are delivered at least once: an event stays in the inbox until   *)
(* its dispatch returns, and may be delivered again while another          *)
(* dispatcher still works on it, or after it was acknowledged.             *)
(***************************************************************************)
EXTENDS Naturals, Sequences, FiniteSets

CONSTANTS Events,           \* events, by dedupe key
          Workers,          \* dispatchers
          Operators,        \* operators who redrive dead letters
          None,             \* "no marker", "no event"
          MaxAttempts,      \* RunnerConfig.max_attempts
          MaxCrashes,       \* bound: crashes of dispatchers
          MaxRedeliveries,  \* bound: deliveries after the acknowledgement
          MaxRedrives       \* bound: redrive calls

\* RunnerConfig.__post_init__ refuses max_attempts < 1.
ASSUME AttemptsAssumption == MaxAttempts \in Nat \ {0}
ASSUME WorkersAssumption == IsFiniteSet(Workers)
ASSUME BoundsAssumption == MaxCrashes \in Nat /\ MaxRedeliveries \in Nat /\ MaxRedrives \in Nat
ASSUME NoneAssumption == None \notin Events \cup {"completed", "dead_lettered"}

VARIABLES
  inbox,        \* events delivered and not acknowledged
  marker,       \* Events -> status of runner_state/{dedupe_key}, or None
  dlq,          \* the dead letters ever stored, by age; stored = FALSE once removed
  audits,       \* Events -> number of runner.dead_lettered events in the log
  runs,         \* Events -> handler runs of dispatchers that ended well
  pc, event, attempt,      \* Workers -> next call, the envelope, the attempt
  opc, letter, seen,       \* Operators -> next call, the dead letter, attempts read
  crashes, redeliveries, redrives

dispatch == <<pc, event, attempt>>
operator == <<opc, letter, seen>>
budget   == <<crashes, redeliveries, redrives>>
vars     == <<inbox, marker, dlq, audits, runs, dispatch, operator, budget>>

-----------------------------------------------------------------------------
\* A dead letter.  redriven and failures are history: whether a redrive of
\* it succeeded, and how many failed.
Letter == [event : Events, attempts : Nat, stored : BOOLEAN,
           redriven : BOOLEAN, failures : Nat]

Calls  == {"idle", "check", "handle", "store", "report", "bury", "complete"}
OCalls == {"idle", "handle", "delete", "bump"}

TypeOK ==
  /\ inbox \subseteq Events
  /\ marker \in [Events -> {"completed", "dead_lettered", None}]
  /\ dlq \in Seq(Letter)
  /\ audits \in [Events -> Nat]
  /\ runs \in [Events -> Nat]
  /\ pc \in [Workers -> Calls]
  /\ event \in [Workers -> Events \cup {None}]
  /\ attempt \in [Workers -> 0 .. MaxAttempts]
  /\ opc \in [Operators -> OCalls]
  /\ letter \in [Operators -> Nat]
  /\ seen \in [Operators -> Nat]
  /\ crashes \in Nat /\ redeliveries \in Nat /\ redrives \in Nat

Init ==
  /\ inbox = Events
  /\ marker = [e \in Events |-> None]
  /\ dlq = << >>
  /\ audits = [e \in Events |-> 0]
  /\ runs = [e \in Events |-> 0]
  /\ pc = [w \in Workers |-> "idle"]
  /\ event = [w \in Workers |-> None]
  /\ attempt = [w \in Workers |-> 0]
  /\ opc = [o \in Operators |-> "idle"]
  /\ letter = [o \in Operators |-> 0]
  /\ seen = [o \in Operators |-> 0]
  /\ crashes = 0 /\ redeliveries = 0 /\ redrives = 0

-----------------------------------------------------------------------------
(* DISPATCH                                                                *)

Goto(w, call) == pc' = [pc EXCEPT ![w] = call]

\* The dispatcher is free again.
Free(w) ==
  /\ Goto(w, "idle")
  /\ event' = [event EXCEPT ![w] = None]
  /\ attempt' = [attempt EXCEPT ![w] = 0]

\* dispatch_event returns and its event is acknowledged.
Return(w) == Free(w) /\ inbox' = inbox \ {event[w]}

(* dispatch_event is called with a delivered envelope.                     *)
Deliver(w, e) ==
  /\ pc[w] = "idle"
  /\ e \in inbox
  /\ Goto(w, "check")
  /\ event' = [event EXCEPT ![w] = e]
  /\ UNCHANGED <<inbox, marker, dlq, audits, runs, attempt, operator, budget>>

\* Mutants: only one of the two statuses ends the dispatch.
CheckUnless(w, status) ==
  /\ pc[w] = "check"
  /\ \/ /\ marker[event[w]] \notin {None, status}
        /\ Return(w)
     \/ /\ marker[event[w]] \in {None, status}
        /\ Goto(w, "handle")
        /\ attempt' = [attempt EXCEPT ![w] = 1]
        /\ UNCHANGED <<inbox, event>>
  /\ UNCHANGED <<marker, dlq, audits, runs, operator, budget>>
CheckCompletedOnly(w)    == CheckUnless(w, "dead_lettered")
CheckDeadLetteredOnly(w) == CheckUnless(w, "completed")

(* A marker, of either status, ends the dispatch.                          *)
Check(w) ==
  /\ pc[w] = "check"
  /\ \/ /\ marker[event[w]] # None
        /\ Return(w)
     \/ /\ marker[event[w]] = None
        /\ Goto(w, "handle")
        /\ attempt' = [attempt EXCEPT ![w] = 1]
        /\ UNCHANGED <<inbox, event>>
  /\ UNCHANGED <<marker, dlq, audits, runs, operator, budget>>

HandleSucceeds(w) ==
  /\ pc[w] = "handle"
  /\ runs' = [runs EXCEPT ![event[w]] = @ + 1]
  /\ Goto(w, "complete")
  /\ UNCHANGED <<inbox, marker, dlq, audits, event, attempt, operator, budget>>

\* Mutants: the budget is one short, or its end skips the queue.
HandleFailsAt(w, last, next) ==
  /\ pc[w] = "handle"
  /\ IF attempt[w] = last
     THEN Goto(w, next) /\ UNCHANGED attempt
     ELSE attempt' = [attempt EXCEPT ![w] = @ + 1] /\ UNCHANGED pc
  /\ UNCHANGED <<inbox, marker, dlq, audits, runs, event, operator, budget>>
HandleFailsEarly(w)    == HandleFailsAt(w, MaxAttempts - 1, "store")
HandleFailsSilently(w) == HandleFailsAt(w, MaxAttempts, "bury")

(* A failure backs off and tries again, until the attempts are used up.    *)
HandleFails(w) ==
  /\ pc[w] = "handle"
  /\ IF attempt[w] = MaxAttempts
     THEN Goto(w, "store") /\ UNCHANGED attempt
     ELSE attempt' = [attempt EXCEPT ![w] = @ + 1] /\ UNCHANGED pc
  /\ UNCHANGED <<inbox, marker, dlq, audits, runs, event, operator, budget>>

\* Mutant: the letter is not reported.
StoreLetterUnreported(w) ==
  /\ pc[w] = "store"
  /\ dlq' = Append(dlq, [event |-> event[w], attempts |-> attempt[w], stored |-> TRUE,
                         redriven |-> FALSE, failures |-> 0])
  /\ Goto(w, "bury")
  /\ UNCHANGED <<inbox, marker, audits, runs, event, attempt, operator, budget>>

(* dead_letter, first call: the record, under a fresh id.                  *)
StoreLetter(w) ==
  /\ pc[w] = "store"
  /\ dlq' = Append(dlq, [event |-> event[w], attempts |-> attempt[w], stored |-> TRUE,
                         redriven |-> FALSE, failures |-> 0])
  /\ Goto(w, "report")
  /\ UNCHANGED <<inbox, marker, audits, runs, event, attempt, operator, budget>>

(* dead_letter, second call: the runner.dead_lettered event.               *)
Report(w) ==
  /\ pc[w] = "report"
  /\ audits' = [audits EXCEPT ![event[w]] = @ + 1]
  /\ Goto(w, "bury")
  /\ UNCHANGED <<inbox, marker, dlq, runs, event, attempt, operator, budget>>

\* _write_state: an unconditional set, whatever the marker is by now.
WriteState(w, status) ==
  /\ marker' = [marker EXCEPT ![event[w]] = status]
  /\ Return(w)
  /\ UNCHANGED <<dlq, audits, runs, operator, budget>>

Bury(w)     == pc[w] = "bury" /\ WriteState(w, "dead_lettered")
Complete(w) == pc[w] = "complete" /\ WriteState(w, "completed")

(* The process dies, or a Firestore call raises: the event stays           *)
(* unacknowledged.                                                         *)
Crash(w) ==
  /\ pc[w] # "idle"
  /\ crashes < MaxCrashes
  /\ crashes' = crashes + 1
  /\ Free(w)
  /\ UNCHANGED <<inbox, marker, dlq, audits, runs, operator, redeliveries, redrives>>

(* At-least-once delivery: an acknowledged event may come again.           *)
Redeliver(e) ==
  /\ e \notin inbox
  /\ redeliveries < MaxRedeliveries
  /\ redeliveries' = redeliveries + 1
  /\ inbox' = inbox \cup {e}
  /\ UNCHANGED <<marker, dlq, audits, runs, dispatch, operator, crashes, redrives>>

-----------------------------------------------------------------------------
(* REDRIVE                                                                 *)

OGoto(o, call) == opc' = [opc EXCEPT ![o] = call]

OFree(o) ==
  /\ OGoto(o, "idle")
  /\ letter' = [letter EXCEPT ![o] = 0]
  /\ seen' = [seen EXCEPT ![o] = 0]

(* redrive reads a stored record (an id that is gone is a KeyError and     *)
(* changes nothing).                                                       *)
Redrive(o, i) ==
  /\ opc[o] = "idle"
  /\ dlq[i].stored
  /\ redrives < MaxRedrives
  /\ redrives' = redrives + 1
  /\ OGoto(o, "handle")
  /\ letter' = [letter EXCEPT ![o] = i]
  /\ seen' = [seen EXCEPT ![o] = dlq[i].attempts]
  /\ UNCHANGED <<inbox, marker, dlq, audits, runs, dispatch, crashes, redeliveries>>

RedriveSucceeds(o) ==
  /\ opc[o] = "handle"
  /\ dlq' = [dlq EXCEPT ![letter[o]].redriven = TRUE]
  /\ OGoto(o, "delete")
  /\ UNCHANGED <<inbox, marker, audits, runs, dispatch, letter, seen, budget>>

\* Mutant: the record goes whatever the handler did.
RedriveFailsDrops(o) ==
  /\ opc[o] = "handle"
  /\ dlq' = [dlq EXCEPT ![letter[o]].failures = @ + 1]
  /\ OGoto(o, "delete")
  /\ UNCHANGED <<inbox, marker, audits, runs, dispatch, letter, seen, budget>>

RedriveFails(o) ==
  /\ opc[o] = "handle"
  /\ dlq' = [dlq EXCEPT ![letter[o]].failures = @ + 1]
  /\ OGoto(o, "bump")
  /\ UNCHANGED <<inbox, marker, audits, runs, dispatch, letter, seen, budget>>

(* Deleting a record that is already gone is not an error.                 *)
DeleteLetter(o) ==
  /\ opc[o] = "delete"
  /\ dlq' = [dlq EXCEPT ![letter[o]].stored = FALSE]
  /\ OFree(o)
  /\ UNCHANGED <<inbox, marker, audits, runs, dispatch, budget>>

(* The count is the one read before the handler ran, plus one; a record    *)
(* deleted meanwhile makes the update raise NotFound.                      *)
BumpAttempts(o) ==
  /\ opc[o] = "bump"
  /\ dlq' = IF dlq[letter[o]].stored
            THEN [dlq EXCEPT ![letter[o]].attempts = seen[o] + 1]
            ELSE dlq
  /\ OFree(o)
  /\ UNCHANGED <<inbox, marker, audits, runs, dispatch, budget>>

OCrash(o) ==
  /\ opc[o] # "idle"
  /\ OFree(o)
  /\ UNCHANGED <<inbox, marker, dlq, audits, runs, dispatch, budget>>

-----------------------------------------------------------------------------
Handle(w) == HandleSucceeds(w) \/ HandleFails(w)
Step(w)   == Check(w) \/ Handle(w) \/ StoreLetter(w) \/ Report(w) \/ Bury(w) \/ Complete(w)
OStep(o)  == RedriveSucceeds(o) \/ RedriveFails(o) \/ DeleteLetter(o) \/ BumpAttempts(o)

Next ==
  \/ \E w \in Workers : \/ \E e \in Events : Deliver(w, e)
                        \/ Step(w)
                        \/ Crash(w)
  \/ \E e \in Events : Redeliver(e)
  \/ \E o \in Operators : \/ \E i \in DOMAIN dlq : Redrive(o, i)
                          \/ OStep(o)
                          \/ OCrash(o)

(* A dispatcher that is not killed goes on, and an event that is not       *)
(* acknowledged is delivered.  Operators need not act.                     *)
Fairness ==
  /\ \A w \in Workers : WF_vars(Step(w))
  /\ \A e \in Events : WF_vars(\E w \in Workers : Deliver(w, e))

Spec     == Init /\ [][Next]_vars
FairSpec == Spec /\ Fairness

-----------------------------------------------------------------------------
(* PROPERTIES                                                              *)

(* An event is never dropped: once marked, of either status and by         *)
(* whichever dispatcher, its handler has run to the end or the event is in *)
(* the dead-letter queue, from where only a successful redrive takes it.   *)
NothingDropped ==
  \A e \in Events : marker[e] # None =>
    \/ runs[e] > 0
    \/ \E i \in DOMAIN dlq : dlq[i].event = e /\ (dlq[i].stored \/ dlq[i].redriven)

(* A record leaves the queue only after a redrive of it succeeded, also    *)
(* when operators redrive the same letter at once or die half-way.         *)
RemovedOnSuccess == \A i \in DOMAIN dlq : ~dlq[i].stored => dlq[i].redriven

(* The log reports no dead letter that is not in the queue's history, and  *)
(* a dead_lettered marker is never written ahead of its report.            *)
LettersOf(e) == {i \in DOMAIN dlq : dlq[i].event = e}
DeadLetterReported ==
  \A e \in Events :
    /\ audits[e] <= Cardinality(LettersOf(e))
    /\ marker[e] = "dead_lettered" => audits[e] > 0

(* The attempts a record shows are real: the dispatcher's whole budget     *)
(* and no more redrives than failed (overlapping redrives of one letter    *)
(* may count once for several).                                            *)
AttemptsReal ==
  \A i \in DOMAIN dlq :
    dlq[i].attempts \in MaxAttempts .. (MaxAttempts + dlq[i].failures)

(* With one dispatcher, delivered events keep the promise: each is settled *)
(* once and for all, and every one is settled in the end.                  *)
Promise == INSTANCE DispatchPromise
  WITH fate <- [e \in Events |-> IF marker[e] = None THEN "open" ELSE marker[e]],
       handled <- {e \in Events : runs[e] > 0}
PromiseSpec == Promise!Spec

(* A handler that has run to the end runs again, and an event is stored    *)
(* twice in the queue, only because another dispatcher was past the check  *)
(* or because a crash hit the gap before the marker was written: however   *)
(* often it is delivered again, an event costs no more runs and letters    *)
(* than there are dispatchers and crashes.                                 *)
RerunsBounded ==
  \A e \in Events : runs[e] + Cardinality(LettersOf(e)) <= Cardinality(Workers) + crashes

(* runner.py:11-12 calls the statuses terminal.  Two dispatchers that hold *)
(* the same redelivered event overwrite each other's.                      *)
MarkerIsTerminal ==
  [][\A e \in Events : marker[e] # None => marker'[e] = marker[e]]_marker
=============================================================================

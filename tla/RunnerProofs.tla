---------------------------- MODULE RunnerProofs ----------------------------
(***************************************************************************)
(* Proofs about Runner, for any sets of events, dispatchers and operators, *)
(* any attempt budget and any number of crashes, redeliveries and redrives.*)
(***************************************************************************)
EXTENDS Runner, FiniteSetTheorems, TLAPS

-----------------------------------------------------------------------------
(* TYPE CORRECTNESS                                                        *)

(* Whoever is busy has something to be busy with.                          *)
Busy ==
  /\ \A w \in Workers : pc[w] # "idle" => event[w] \in Events
  /\ \A o \in Operators : opc[o] # "idle" => letter[o] \in DOMAIN dlq

(* A changed letter leaves the queue a sequence of letters.                *)
LEMMA LetterChanged ==
  ASSUME dlq \in Seq(Letter), NEW i \in DOMAIN dlq, NEW r \in Letter
  PROVE  /\ [dlq EXCEPT ![i] = r] \in Seq(Letter)
         /\ DOMAIN [dlq EXCEPT ![i] = r] = DOMAIN dlq
  OBVIOUS

(* The fields an operator writes keep a letter a letter.                   *)
LEMMA FieldChanged ==
  ASSUME NEW r \in Letter, NEW n \in Nat
  PROVE  /\ [r EXCEPT !.redriven = TRUE] \in Letter
         /\ [r EXCEPT !.stored = FALSE] \in Letter
         /\ [r EXCEPT !.failures = n] \in Letter
         /\ [r EXCEPT !.attempts = n] \in Letter
  BY DEF Letter

(* What an operator does to the letter in hand.                            *)
LEMMA OperatorsTypes ==
  ASSUME TypeOK, Busy, NEW o \in Operators, OStep(o)
  PROVE  dlq' \in Seq(Letter) /\ DOMAIN dlq' = DOMAIN dlq
<1> DEFINE i == letter[o]
<1>1. i \in DOMAIN dlq /\ dlq[i] \in Letter /\ dlq \in Seq(Letter) /\ seen[o] \in Nat
  BY DEF TypeOK, Busy, OStep, RedriveSucceeds, RedriveFails, DeleteLetter, BumpAttempts
<1> HIDE DEF i
<1>2. dlq[i].failures + 1 \in Nat /\ seen[o] + 1 \in Nat
  BY <1>1 DEF Letter
<1>3. /\ [dlq[i] EXCEPT !.redriven = TRUE] \in Letter
      /\ [dlq[i] EXCEPT !.failures = @ + 1] \in Letter
      /\ [dlq[i] EXCEPT !.stored = FALSE] \in Letter
      /\ [dlq[i] EXCEPT !.attempts = seen[o] + 1] \in Letter
  BY <1>1, <1>2, FieldChanged
<1>4. CASE RedriveSucceeds(o)
  BY <1>1, <1>3, <1>4, LetterChanged DEF RedriveSucceeds, i
<1>5. CASE RedriveFails(o)
  BY <1>1, <1>3, <1>5, LetterChanged DEF RedriveFails, i
<1>6. CASE DeleteLetter(o)
  BY <1>1, <1>3, <1>6, LetterChanged DEF DeleteLetter, i
<1>7. CASE BumpAttempts(o)
  BY <1>1, <1>3, <1>7, LetterChanged DEF BumpAttempts, i
<1> QED BY <1>4, <1>5, <1>6, <1>7 DEF OStep

(* A dispatcher's dead letter.                                             *)
LEMMA StoreLetterTypes ==
  ASSUME TypeOK, Busy, NEW w \in Workers, StoreLetter(w)
  PROVE  /\ dlq' \in Seq(Letter)
         /\ DOMAIN dlq' = DOMAIN dlq \cup {Len(dlq) + 1}
         /\ \A i \in DOMAIN dlq : dlq'[i] = dlq[i]
         /\ dlq'[Len(dlq) + 1] =
              [event |-> event[w], attempts |-> attempt[w], stored |-> TRUE,
               redriven |-> FALSE, failures |-> 0]
<1>1. [event |-> event[w], attempts |-> attempt[w], stored |-> TRUE,
       redriven |-> FALSE, failures |-> 0] \in Letter
  BY AttemptsAssumption DEF TypeOK, Busy, StoreLetter, Letter
<1> QED BY <1>1 DEF TypeOK, StoreLetter

(* The initial state is well typed.                                        *)
LEMMA InitTypes == Init => TypeOK /\ Busy
  BY AttemptsAssumption DEF Init, TypeOK, Busy, Calls, OCalls

(* Every action keeps the types.                                           *)
LEMMA NextTypes == TypeOK /\ Busy /\ [Next]_vars => TypeOK' /\ Busy'
<1> SUFFICES ASSUME TypeOK, Busy, [Next]_vars
             PROVE  TypeOK' /\ Busy'
  OBVIOUS
<1> USE DEF TypeOK, Busy, Calls, OCalls
<1>0. {0, 1} \subseteq 0 .. MaxAttempts
  BY AttemptsAssumption
<1>1. ASSUME NEW w \in Workers, NEW e \in Events, Deliver(w, e)
      PROVE  TypeOK' /\ Busy'
  BY <1>1 DEF Deliver, Goto, operator, budget
<1>2. ASSUME NEW w \in Workers, Check(w)
      PROVE  TypeOK' /\ Busy'
  <2>1. attempt' \in [Workers -> 0 .. MaxAttempts]
    BY <1>0, <1>2 DEF Check, Return, Free
  <2>2. pc' \in [Workers -> Calls] /\ event' \in [Workers -> Events \cup {None}]
        /\ inbox' \subseteq inbox
    BY <1>2 DEF Check, Return, Free, Goto
  <2>3. \A v \in Workers : pc'[v] # "idle" => event'[v] \in Events
    BY <1>2 DEF Check, Return, Free, Goto
  <2>4. UNCHANGED <<marker, dlq, audits, runs, opc, letter, seen, crashes, redeliveries, redrives>>
    BY <1>2 DEF Check, operator, budget
  <2> QED BY <2>1, <2>2, <2>3, <2>4
<1>3. ASSUME NEW w \in Workers, HandleSucceeds(w)
      PROVE  TypeOK' /\ Busy'
  BY <1>3 DEF HandleSucceeds, Goto, operator, budget
<1>4. ASSUME NEW w \in Workers, HandleFails(w)
      PROVE  TypeOK' /\ Busy'
  <2>1. attempt[w] # MaxAttempts => attempt[w] + 1 \in 0 .. MaxAttempts
    BY AttemptsAssumption
  <2>2. attempt' \in [Workers -> 0 .. MaxAttempts]
    BY <1>4, <2>1 DEF HandleFails
  <2> QED BY <1>4, <2>2 DEF HandleFails, Goto, operator, budget
<1>5. ASSUME NEW w \in Workers, StoreLetter(w)
      PROVE  TypeOK' /\ Busy'
  <2>1. dlq' \in Seq(Letter) /\ DOMAIN dlq \subseteq DOMAIN dlq'
    BY <1>5, StoreLetterTypes
  <2> QED BY <1>5, <2>1 DEF StoreLetter, Goto, operator, budget
<1>6. ASSUME NEW w \in Workers, Report(w)
      PROVE  TypeOK' /\ Busy'
  BY <1>6 DEF Report, Goto, operator, budget
<1>7. ASSUME NEW w \in Workers, Bury(w) \/ Complete(w)
      PROVE  TypeOK' /\ Busy'
  <2>0. Return(w)
    BY <1>7 DEF Bury, Complete, WriteState
  <2>1. attempt' \in [Workers -> 0 .. MaxAttempts] /\ inbox' \subseteq inbox
    BY <1>0, <2>0 DEF Return, Free
  <2>2. marker' \in [Events -> {"completed", "dead_lettered", None}]
    BY <1>7 DEF Bury, Complete, WriteState
  <2>3. UNCHANGED <<dlq, audits, runs, opc, letter, seen, crashes, redeliveries, redrives>>
    BY <1>7 DEF Bury, Complete, WriteState, operator, budget
  <2> QED BY <2>0, <2>1, <2>2, <2>3 DEF Return, Free, Goto
<1>8. ASSUME NEW w \in Workers, Crash(w)
      PROVE  TypeOK' /\ Busy'
  BY <1>0, <1>8 DEF Crash, Free, Goto, operator, budget
<1>9. ASSUME NEW e \in Events, Redeliver(e)
      PROVE  TypeOK' /\ Busy'
  BY <1>9 DEF Redeliver, dispatch, operator
<1>10. ASSUME NEW o \in Operators, NEW i \in DOMAIN dlq, Redrive(o, i)
       PROVE  TypeOK' /\ Busy'
  <2>1. dlq[i] \in Letter /\ i \in Nat
    OBVIOUS
  <2>2. dlq[i].attempts \in Nat
    BY <2>1 DEF Letter
  <2>3. /\ opc' \in [Operators -> OCalls] /\ letter' \in [Operators -> Nat]
        /\ seen' \in [Operators -> Nat] /\ redrives' \in Nat
    BY <1>10, <2>1, <2>2 DEF Redrive, OGoto
  <2>4. \A p \in Operators : opc'[p] # "idle" => letter'[p] \in DOMAIN dlq
    BY <1>10 DEF Redrive, OGoto
  <2> QED BY <1>10, <2>3, <2>4 DEF Redrive, dispatch
<1>11. ASSUME NEW o \in Operators, OStep(o)
       PROVE  TypeOK' /\ Busy'
  <2>1. dlq' \in Seq(Letter) /\ DOMAIN dlq' = DOMAIN dlq
    BY <1>11, OperatorsTypes
  <2>2. UNCHANGED <<inbox, marker, audits, runs, dispatch, budget>>
    BY <1>11 DEF OStep, RedriveSucceeds, RedriveFails, DeleteLetter, BumpAttempts
  <2>3. CASE RedriveSucceeds(o) \/ RedriveFails(o)
    BY <2>1, <2>2, <2>3 DEF RedriveSucceeds, RedriveFails, OGoto, dispatch, budget
  <2>4. CASE DeleteLetter(o) \/ BumpAttempts(o)
    <3>1. OFree(o)
      BY <2>4 DEF DeleteLetter, BumpAttempts
    <3> QED BY <2>1, <2>2, <3>1 DEF OFree, OGoto, dispatch, budget
  <2> QED BY <1>11, <2>3, <2>4 DEF OStep
<1>12. ASSUME NEW o \in Operators, OCrash(o)
       PROVE  TypeOK' /\ Busy'
  BY <1>12 DEF OCrash, OFree, OGoto, dispatch, budget
<1>13. CASE UNCHANGED vars
  BY <1>13 DEF vars, dispatch, operator, budget
<1> QED
  BY <1>1, <1>2, <1>3, <1>4, <1>5, <1>6, <1>7, <1>8, <1>9, <1>10, <1>11, <1>12, <1>13
     DEF Next, Step, Handle

(* The types hold always, and so does Busy.                                *)
LEMMA TypesHold == Spec => [](TypeOK /\ Busy)
  BY InitTypes, NextTypes, PTL DEF Spec

(* The runner is type correct: no attempt beyond the budget, no dispatch   *)
(* without an event, no redrive without a letter.                          *)
THEOREM TypeCorrect == Spec => []TypeOK
  BY TypesHold, PTL

-----------------------------------------------------------------------------
(* THE QUEUE'S HISTORY                                                     *)

(* What a step does to the queue: a dispatcher adds a fresh letter, an     *)
(* operator changes the one in hand, and nothing else touches it.          *)
LEMMA QueueSteps ==
  ASSUME [Next]_vars
  PROVE  \/ UNCHANGED dlq
         \/ \E w \in Workers : StoreLetter(w)
         \/ \E o \in Operators : OStep(o)
<1>1. ASSUME NEW w \in Workers, Step(w)
      PROVE  UNCHANGED dlq \/ StoreLetter(w)
  BY <1>1 DEF Step, Handle, Check, HandleSucceeds, HandleFails, Report, Bury, Complete, WriteState
<1>2. ASSUME NEW w \in Workers, Crash(w) \/ \E e \in Events : Deliver(w, e)
      PROVE  UNCHANGED dlq
  BY <1>2 DEF Crash, Deliver
<1>3. ASSUME NEW e \in Events, Redeliver(e)
      PROVE  UNCHANGED dlq
  BY <1>3 DEF Redeliver
<1>4. ASSUME NEW o \in Operators, OCrash(o) \/ \E i \in DOMAIN dlq : Redrive(o, i)
      PROVE  UNCHANGED dlq
  BY <1>4 DEF OCrash, Redrive
<1> QED BY <1>1, <1>2, <1>3, <1>4 DEF Next, vars

(* The letter in hand of an operator's step, before and after.             *)
LEMMA OperatorsLetter ==
  ASSUME TypeOK, Busy, NEW o \in Operators, OStep(o), NEW l, l = letter[o]
  PROVE  /\ l \in DOMAIN dlq
         /\ \A i \in DOMAIN dlq : i # l => dlq'[i] = dlq[i]
         /\ dlq'[l].event = dlq[l].event
         /\ dlq[l].redriven \/ RedriveSucceeds(o) => dlq'[l].redriven
         /\ dlq'[l].stored \/ ~dlq[l].stored \/ opc[o] = "delete"
         /\ dlq'[l].failures =
              IF RedriveFails(o) THEN dlq[l].failures + 1 ELSE dlq[l].failures
         /\ dlq'[l].attempts \in {dlq[l].attempts} \cup
              (IF BumpAttempts(o) THEN {seen[o] + 1} ELSE {})
<1>1. l \in DOMAIN dlq /\ dlq[l] \in Letter
  BY DEF TypeOK, Busy, OStep, RedriveSucceeds, RedriveFails, DeleteLetter, BumpAttempts
<1>2. CASE RedriveSucceeds(o)
  BY <1>1, <1>2 DEF RedriveSucceeds, RedriveFails, BumpAttempts, Letter
<1>3. CASE RedriveFails(o)
  BY <1>1, <1>3 DEF RedriveSucceeds, RedriveFails, BumpAttempts, OGoto, TypeOK, Letter
<1>4. CASE DeleteLetter(o)
  BY <1>1, <1>4 DEF DeleteLetter, RedriveSucceeds, RedriveFails, BumpAttempts, Letter
<1>5. CASE BumpAttempts(o)
  <2>1. ~RedriveSucceeds(o) /\ ~RedriveFails(o)
    BY <1>5 DEF BumpAttempts, RedriveSucceeds, RedriveFails
  <2>2. CASE dlq[l].stored
    BY <1>1, <1>5, <2>1, <2>2 DEF BumpAttempts, Letter
  <2>3. CASE ~dlq[l].stored
    BY <1>1, <1>5, <2>1, <2>3 DEF BumpAttempts
  <2> QED BY <2>2, <2>3
<1> QED BY <1>2, <1>3, <1>4, <1>5 DEF OStep

(* Letters stay, keep their event, and their history grows.                *)
LEMMA LettersLast ==
  ASSUME TypeOK, Busy, [Next]_vars, NEW i \in DOMAIN dlq
  PROVE  /\ i \in DOMAIN dlq'
         /\ dlq'[i].event = dlq[i].event
         /\ dlq[i].redriven => dlq'[i].redriven
         /\ dlq'[i].failures >= dlq[i].failures
<1>0. dlq[i].failures \in Nat
  <2>1. dlq[i] \in Letter
    BY DEF TypeOK
  <2> QED BY <2>1 DEF Letter
<1>1. CASE UNCHANGED dlq
  BY <1>0, <1>1
<1>2. ASSUME NEW w \in Workers, StoreLetter(w)
      PROVE  i \in DOMAIN dlq' /\ dlq'[i] = dlq[i]
  BY <1>2, StoreLetterTypes
<1>3. ASSUME NEW o \in Operators, OStep(o)
      PROVE  /\ i \in DOMAIN dlq'
             /\ dlq'[i].event = dlq[i].event
             /\ dlq[i].redriven => dlq'[i].redriven
             /\ dlq'[i].failures >= dlq[i].failures
  <2>1. DOMAIN dlq' = DOMAIN dlq
    BY <1>3, OperatorsTypes
  <2>2. CASE i = letter[o]
    <3>1. /\ dlq'[i].event = dlq[i].event
          /\ dlq[i].redriven => dlq'[i].redriven
          /\ dlq'[i].failures = IF RedriveFails(o) THEN dlq[i].failures + 1 ELSE dlq[i].failures
      BY <1>3, <2>2, OperatorsLetter
    <3> QED BY <1>0, <2>1, <3>1
  <2>3. CASE i # letter[o]
    BY <1>0, <1>3, <2>1, <2>3, OperatorsLetter
  <2> QED BY <2>2, <2>3
<1> QED BY <1>0, <1>1, <1>2, <1>3, QueueSteps

-----------------------------------------------------------------------------
(* A RECORD LEAVES THE QUEUE AFTER A SUCCESS                               *)

(* An operator about to delete has redriven the letter with success.       *)
RemovalEarned ==
  /\ RemovedOnSuccess
  /\ \A o \in Operators : opc[o] = "delete" => dlq[letter[o]].redriven

(* An operator comes to the deletion from a success, with the same letter. *)
LEMMA DeleteSteps ==
  ASSUME TypeOK, [Next]_vars, NEW p \in Operators, opc'[p] = "delete"
  PROVE  letter'[p] = letter[p] /\ (opc[p] = "delete" \/ RedriveSucceeds(p))
<1>1. ASSUME NEW w \in Workers, Step(w) \/ Crash(w) \/ \E e \in Events : Deliver(w, e)
      PROVE  UNCHANGED operator
  BY <1>1 DEF Step, Handle, Check, HandleSucceeds, HandleFails, StoreLetter, Report, Bury,
              Complete, WriteState, Crash, Deliver
<1>2. ASSUME NEW e \in Events, Redeliver(e)
      PROVE  UNCHANGED operator
  BY <1>2 DEF Redeliver
<1>3. ASSUME NEW o \in Operators, NEW i \in DOMAIN dlq, Redrive(o, i)
      PROVE  letter'[p] = letter[p] /\ opc[p] = "delete"
  BY <1>3 DEF TypeOK, Redrive, OGoto
<1>4. ASSUME NEW o \in Operators, RedriveSucceeds(o) \/ RedriveFails(o)
      PROVE  letter'[p] = letter[p] /\ (opc[p] = "delete" \/ RedriveSucceeds(p))
  BY <1>4 DEF TypeOK, RedriveSucceeds, RedriveFails, OGoto
<1>5. ASSUME NEW o \in Operators, DeleteLetter(o) \/ BumpAttempts(o) \/ OCrash(o)
      PROVE  letter'[p] = letter[p] /\ opc[p] = "delete"
  BY <1>5 DEF TypeOK, DeleteLetter, BumpAttempts, OCrash, OFree, OGoto
<1> QED BY <1>1, <1>2, <1>3, <1>4, <1>5 DEF Next, OStep, vars, operator

(* Deleting is an operator's step of its own, and its licence is kept by   *)
(* every other step.                                                       *)
LEMMA NextRemovalEarned == TypeOK /\ Busy /\ RemovalEarned /\ [Next]_vars => RemovalEarned'
<1> SUFFICES ASSUME TypeOK, Busy, RemovalEarned, [Next]_vars
             PROVE  RemovalEarned'
  OBVIOUS
<1>1. ASSUME NEW o \in Operators, opc'[o] = "delete"
      PROVE  dlq'[letter'[o]].redriven
  <2>1. letter'[o] = letter[o] /\ (opc[o] = "delete" \/ RedriveSucceeds(o))
    BY <1>1, DeleteSteps
  <2>2. CASE opc[o] = "delete"
    <3>1. letter[o] \in DOMAIN dlq /\ dlq[letter[o]].redriven
      BY <2>2 DEF Busy, RemovalEarned
    <3> QED BY <2>1, <3>1, LettersLast
  <2>3. CASE RedriveSucceeds(o)
    BY <2>1, <2>3, OperatorsLetter DEF OStep
  <2> QED BY <2>1, <2>2, <2>3
<1>2. ASSUME NEW i \in DOMAIN dlq', ~dlq'[i].stored
      PROVE  dlq'[i].redriven
  <2>1. CASE UNCHANGED dlq
    BY <1>2, <2>1 DEF RemovalEarned, RemovedOnSuccess
  <2>2. ASSUME NEW w \in Workers, StoreLetter(w)
        PROVE  dlq'[i].redriven
    <3>1. /\ DOMAIN dlq' = DOMAIN dlq \cup {Len(dlq) + 1}
          /\ \A j \in DOMAIN dlq : dlq'[j] = dlq[j]
          /\ dlq'[Len(dlq) + 1] =
               [event |-> event[w], attempts |-> attempt[w], stored |-> TRUE,
                redriven |-> FALSE, failures |-> 0]
      BY <2>2, StoreLetterTypes
    <3>2. dlq'[Len(dlq) + 1].stored
      BY <3>1
    <3>3. i \in DOMAIN dlq /\ dlq'[i] = dlq[i]
      BY <1>2, <3>1, <3>2
    <3> QED BY <1>2, <3>3 DEF RemovalEarned, RemovedOnSuccess
  <2>3. ASSUME NEW o \in Operators, OStep(o)
        PROVE  dlq'[i].redriven
    <3>1. i \in DOMAIN dlq
      BY <1>2, <2>3, OperatorsTypes
    <3>2. ~dlq[i].stored \/ (i = letter[o] /\ opc[o] = "delete")
      BY <1>2, <2>3, <3>1, OperatorsLetter
    <3>3. dlq[i].redriven
      BY <3>1, <3>2 DEF RemovalEarned, RemovedOnSuccess
    <3> QED BY <3>1, <3>3, LettersLast
  <2> QED BY <2>1, <2>2, <2>3, QueueSteps
<1> QED BY <1>1, <1>2 DEF RemovalEarned, RemovedOnSuccess

(* A dead letter is removed only after a redrive of it succeeded, however  *)
(* many operators redrive it at once and wherever they die.                *)
THEOREM RemovalIsEarned == Spec => []RemovedOnSuccess
<1>1. Init => RemovalEarned
  BY DEF Init, RemovalEarned, RemovedOnSuccess
<1>2. Spec => []RemovalEarned
  BY <1>1, TypesHold, NextRemovalEarned, PTL DEF Spec
<1>3. RemovalEarned => RemovedOnSuccess
  BY DEF RemovalEarned
<1> QED BY <1>2, <1>3, PTL

-----------------------------------------------------------------------------
(* NOTHING IS DROPPED                                                      *)

InQueue(e) == \E i \in DOMAIN dlq : dlq[i].event = e

(* A dispatcher about to write a marker has what the marker stands for.    *)
MarkersEarned ==
  /\ \A e \in Events : marker[e] # None => runs[e] > 0 \/ InQueue(e)
  /\ \A w \in Workers :
       /\ pc[w] = "complete" => runs[event[w]] > 0
       /\ pc[w] \in {"report", "bury"} => InQueue(event[w])

(* An event that has a letter keeps one.                                   *)
LEMMA QueueGrows ==
  ASSUME TypeOK, Busy, [Next]_vars, NEW e, InQueue(e)
  PROVE  InQueue(e)'
  BY LettersLast DEF InQueue

(* Steps of others leave a dispatcher where it is.                         *)
LEMMA OthersSteps ==
  ASSUME NEW o \in Operators, OStep(o) \/ OCrash(o) \/ \E i \in DOMAIN dlq : Redrive(o, i)
  PROVE  UNCHANGED <<marker, runs, audits, dispatch>>
  BY DEF OStep, RedriveSucceeds, RedriveFails, DeleteLetter, BumpAttempts, OCrash, Redrive

(* A marker is written by a dispatcher that has a run or a letter to show, *)
(* and neither goes away.                                                  *)
LEMMA NextMarkersEarned == TypeOK /\ Busy /\ MarkersEarned /\ [Next]_vars => MarkersEarned'
<1> SUFFICES ASSUME TypeOK, Busy, MarkersEarned, [Next]_vars
             PROVE  MarkersEarned'
  OBVIOUS
<1> USE DEF MarkersEarned
<1>0. \A e \in Events : InQueue(e) => InQueue(e)'
  BY QueueGrows
<1> USE DEF TypeOK
<1>1. ASSUME NEW w \in Workers, NEW e \in Events, Deliver(w, e)
      PROVE  MarkersEarned'
  BY <1>0, <1>1 DEF Deliver, Goto, Busy
<1>2. ASSUME NEW w \in Workers, Check(w)
      PROVE  MarkersEarned'
  BY <1>0, <1>2 DEF Check, Return, Free, Goto, Busy
<1>3. ASSUME NEW w \in Workers, HandleSucceeds(w)
      PROVE  MarkersEarned'
  BY <1>0, <1>3 DEF HandleSucceeds, Goto, Busy
<1>4. ASSUME NEW w \in Workers, HandleFails(w)
      PROVE  MarkersEarned'
  BY <1>0, <1>4 DEF HandleFails, Goto, Busy
<1>5. ASSUME NEW w \in Workers, StoreLetter(w)
      PROVE  MarkersEarned'
  <2>1. InQueue(event[w])'
    <3>0. /\ DOMAIN dlq' = DOMAIN dlq \cup {Len(dlq) + 1}
          /\ dlq'[Len(dlq) + 1] =
               [event |-> event[w], attempts |-> attempt[w], stored |-> TRUE,
                redriven |-> FALSE, failures |-> 0]
      BY <1>5, StoreLetterTypes
    <3>1. Len(dlq) + 1 \in DOMAIN dlq' /\ dlq'[Len(dlq) + 1].event = event[w]
      BY <3>0
    <3>2. event'[w] = event[w]
      BY <1>5 DEF StoreLetter
    <3> QED BY <3>1, <3>2 DEF InQueue
  <2> QED BY <1>0, <1>5, <2>1 DEF StoreLetter, Goto, Busy
<1>6. ASSUME NEW w \in Workers, Report(w)
      PROVE  MarkersEarned'
  BY <1>0, <1>6 DEF Report, Goto, Busy
<1>7. ASSUME NEW w \in Workers, Bury(w) \/ Complete(w)
      PROVE  MarkersEarned'
  <2>1. runs[event[w]] > 0 \/ InQueue(event[w])
    BY <1>7 DEF Bury, Complete
  <2>2. Free(w) /\ UNCHANGED runs /\ event[w] \in Events
    BY <1>7 DEF Bury, Complete, WriteState, Return, Busy
  <2>3. \A e \in Events : marker'[e] # None => runs'[e] > 0 \/ InQueue(e)'
    BY <1>0, <1>7, <2>1, <2>2 DEF Bury, Complete, WriteState
  <2>4. \A v \in Workers :
          /\ pc'[v] = "complete" => runs'[event'[v]] > 0
          /\ pc'[v] \in {"report", "bury"} => InQueue(event[v])' /\ event[v] = event'[v]
    BY <1>0, <2>2 DEF Free, Goto, Busy, InQueue
  <2> QED BY <2>3, <2>4 DEF InQueue
<1>8. ASSUME NEW w \in Workers, Crash(w)
      PROVE  MarkersEarned'
  BY <1>0, <1>8 DEF Crash, Free, Goto, Busy
<1>9. ASSUME NEW e \in Events, Redeliver(e)
      PROVE  MarkersEarned'
  BY <1>0, <1>9 DEF Redeliver, dispatch, Busy
<1>10. ASSUME NEW o \in Operators,
              OStep(o) \/ OCrash(o) \/ \E i \in DOMAIN dlq : Redrive(o, i)
       PROVE  MarkersEarned'
  <2>1. UNCHANGED <<marker, runs, dispatch>>
    BY <1>10, OthersSteps
  <2> QED BY <1>0, <2>1 DEF dispatch, Busy
<1>11. CASE UNCHANGED vars
  BY <1>0, <1>11 DEF vars, dispatch, Busy
<1> QED
  BY <1>1, <1>2, <1>3, <1>4, <1>5, <1>6, <1>7, <1>8, <1>9, <1>10, <1>11
     DEF Next, Step, Handle

(* An event with a marker of either status was handled to the end or is in *)
(* the dead-letter queue until a redrive of it succeeds, whichever of the  *)
(* dispatchers that held it wrote last and wherever one of them died.      *)
THEOREM EventsKept == Spec => []NothingDropped
<1>1. Init => RemovalEarned /\ MarkersEarned
  BY DEF Init, RemovalEarned, RemovedOnSuccess, MarkersEarned
<1>2. Spec => [](RemovalEarned /\ MarkersEarned)
  BY <1>1, TypesHold, NextRemovalEarned, NextMarkersEarned, PTL DEF Spec
<1>3. RemovalEarned /\ MarkersEarned => NothingDropped
  BY DEF RemovalEarned, RemovedOnSuccess, MarkersEarned, InQueue, NothingDropped
<1> QED BY <1>2, <1>3, PTL

-----------------------------------------------------------------------------
(* THE ATTEMPTS OF A LETTER ARE REAL                                       *)

(* What an operator read is between the dispatcher's budget and what the   *)
(* failures so far allow; about to bump, its own failure is one of them.   *)
AttemptsBacked ==
  /\ AttemptsReal
  /\ \A w \in Workers : pc[w] = "store" => attempt[w] = MaxAttempts
  /\ \A o \in Operators :
       /\ opc[o] = "handle" => seen[o] \in MaxAttempts .. (MaxAttempts + dlq[letter[o]].failures)
       /\ opc[o] = "bump" => seen[o] + 1 \in MaxAttempts .. (MaxAttempts + dlq[letter[o]].failures)

(* A dispatcher comes to the queue after its last attempt.                 *)
LEMMA StoreSteps ==
  ASSUME TypeOK, [Next]_vars, NEW v \in Workers, pc'[v] = "store"
  PROVE  attempt'[v] = attempt[v] /\ (pc[v] = "store" \/ attempt[v] = MaxAttempts)
<1> USE DEF TypeOK
<1>1. ASSUME NEW w \in Workers, NEW e \in Events, Deliver(w, e)
      PROVE  attempt'[v] = attempt[v] /\ pc[v] = "store"
  BY <1>1 DEF Deliver, Goto
<1>2. ASSUME NEW w \in Workers, Check(w)
      PROVE  attempt'[v] = attempt[v] /\ pc[v] = "store"
  BY <1>2 DEF Check, Return, Free, Goto
<1>3. ASSUME NEW w \in Workers, HandleFails(w)
      PROVE  attempt'[v] = attempt[v] /\ (pc[v] = "store" \/ attempt[v] = MaxAttempts)
  BY <1>3 DEF HandleFails, Goto
<1>4. ASSUME NEW w \in Workers, HandleSucceeds(w) \/ StoreLetter(w) \/ Report(w)
      PROVE  attempt'[v] = attempt[v] /\ pc[v] = "store"
  BY <1>4 DEF HandleSucceeds, StoreLetter, Report, Goto
<1>5. ASSUME NEW w \in Workers, Bury(w) \/ Complete(w) \/ Crash(w)
      PROVE  attempt'[v] = attempt[v] /\ pc[v] = "store"
  <2>1. Free(w)
    BY <1>5 DEF Bury, Complete, WriteState, Return, Crash
  <2> QED BY <2>1 DEF Free, Goto
<1>6. ASSUME NEW e \in Events, Redeliver(e)
      PROVE  UNCHANGED dispatch
  BY <1>6 DEF Redeliver
<1>7. ASSUME NEW o \in Operators,
             OStep(o) \/ OCrash(o) \/ \E i \in DOMAIN dlq : Redrive(o, i)
      PROVE  UNCHANGED dispatch
  BY <1>7, OthersSteps
<1> QED BY <1>1, <1>2, <1>3, <1>4, <1>5, <1>6, <1>7 DEF Next, Step, Handle, vars, dispatch

(* How an operator comes to handle a letter and to bump its count.         *)
LEMMA OperatorsSteps ==
  ASSUME TypeOK, [Next]_vars, NEW p \in Operators, opc'[p] \in {"handle", "bump"}
  PROVE  \/ UNCHANGED <<opc[p], letter[p], seen[p]>>
         \/ opc[p] = "handle" /\ RedriveFails(p) /\ UNCHANGED <<letter[p], seen[p]>>
         \/ /\ opc'[p] = "handle" /\ UNCHANGED dlq
            /\ letter'[p] \in DOMAIN dlq /\ seen'[p] = dlq[letter'[p]].attempts
<1> USE DEF TypeOK
<1>1. ASSUME NEW w \in Workers, Step(w) \/ Crash(w) \/ \E e \in Events : Deliver(w, e)
      PROVE  UNCHANGED operator
  BY <1>1 DEF Step, Handle, Check, HandleSucceeds, HandleFails, StoreLetter, Report, Bury,
              Complete, WriteState, Crash, Deliver
<1>2. ASSUME NEW e \in Events, Redeliver(e)
      PROVE  UNCHANGED operator
  BY <1>2 DEF Redeliver
<1>3. ASSUME NEW o \in Operators, NEW i \in DOMAIN dlq, Redrive(o, i)
      PROVE  \/ UNCHANGED <<opc[p], letter[p], seen[p]>>
             \/ /\ opc'[p] = "handle" /\ UNCHANGED dlq
                /\ letter'[p] \in DOMAIN dlq /\ seen'[p] = dlq[letter'[p]].attempts
  BY <1>3 DEF Redrive, OGoto
<1>4. ASSUME NEW o \in Operators, RedriveSucceeds(o)
      PROVE  UNCHANGED <<opc[p], letter[p], seen[p]>>
  BY <1>4 DEF RedriveSucceeds, OGoto
<1>5. ASSUME NEW o \in Operators, RedriveFails(o)
      PROVE  \/ UNCHANGED <<opc[p], letter[p], seen[p]>>
             \/ opc[p] = "handle" /\ RedriveFails(p) /\ UNCHANGED <<letter[p], seen[p]>>
  <2>1. CASE o = p
    BY <1>5, <2>1 DEF RedriveFails
  <2>2. CASE o # p
    BY <1>5, <2>2 DEF RedriveFails, OGoto
  <2> QED BY <2>1, <2>2
<1>6. ASSUME NEW o \in Operators, DeleteLetter(o) \/ BumpAttempts(o) \/ OCrash(o)
      PROVE  UNCHANGED <<opc[p], letter[p], seen[p]>>
  <2>1. OFree(o)
    BY <1>6 DEF DeleteLetter, BumpAttempts, OCrash
  <2> QED BY <2>1 DEF OFree, OGoto
<1> QED BY <1>1, <1>2, <1>3, <1>4, <1>5, <1>6 DEF Next, OStep, vars, operator

(* What a letter counts, and what an operator has read of it, stays within *)
(* what was tried.                                                         *)
LEMMA NextAttemptsBacked == TypeOK /\ Busy /\ AttemptsBacked /\ [Next]_vars => AttemptsBacked'
<1> SUFFICES ASSUME TypeOK, Busy, AttemptsBacked, [Next]_vars
             PROVE  AttemptsBacked'
  OBVIOUS
<1>0. /\ MaxAttempts \in Nat
      /\ \A i \in DOMAIN dlq : dlq[i].failures \in Nat /\ dlq[i].attempts \in Nat
      /\ \A o \in Operators : seen[o] \in Nat
  <2>1. \A i \in DOMAIN dlq : dlq[i] \in Letter
    BY DEF TypeOK
  <2> QED BY <2>1, AttemptsAssumption DEF TypeOK, Letter
<1>1. \A w \in Workers : pc'[w] = "store" => attempt'[w] = MaxAttempts
  BY StoreSteps DEF AttemptsBacked
<1>2. ASSUME NEW i \in DOMAIN dlq'
      PROVE  dlq'[i].attempts \in MaxAttempts .. (MaxAttempts + dlq'[i].failures)
  <2>1. CASE UNCHANGED dlq
    BY <1>2, <2>1 DEF AttemptsBacked, AttemptsReal
  <2>2. ASSUME NEW w \in Workers, StoreLetter(w)
        PROVE  dlq'[i].attempts \in MaxAttempts .. (MaxAttempts + dlq'[i].failures)
    <3>1. attempt[w] = MaxAttempts
      BY <2>2 DEF StoreLetter, AttemptsBacked
    <3>2. /\ DOMAIN dlq' = DOMAIN dlq \cup {Len(dlq) + 1}
          /\ \A j \in DOMAIN dlq : dlq'[j] = dlq[j]
          /\ dlq'[Len(dlq) + 1] =
               [event |-> event[w], attempts |-> attempt[w], stored |-> TRUE,
                redriven |-> FALSE, failures |-> 0]
      BY <2>2, StoreLetterTypes
    <3>3. /\ dlq'[Len(dlq) + 1].attempts = MaxAttempts
          /\ dlq'[Len(dlq) + 1].failures = 0
      BY <3>1, <3>2
    <3>4. CASE i = Len(dlq) + 1
      BY <1>0, <3>3, <3>4
    <3>5. CASE i \in DOMAIN dlq
      BY <3>2, <3>5 DEF AttemptsBacked, AttemptsReal
    <3> QED BY <1>2, <3>2, <3>4, <3>5
  <2>3. ASSUME NEW o \in Operators, OStep(o)
        PROVE  dlq'[i].attempts \in MaxAttempts .. (MaxAttempts + dlq'[i].failures)
    <3>1. i \in DOMAIN dlq
      BY <1>2, <2>3, OperatorsTypes
    <3>2. dlq[i].attempts \in MaxAttempts .. (MaxAttempts + dlq[i].failures)
      BY <3>1 DEF AttemptsBacked, AttemptsReal
    <3>3. dlq'[i].failures >= dlq[i].failures /\ dlq'[i].failures \in Nat
      <4>1. dlq'[i] \in Letter
        BY <1>2, <2>3, OperatorsTypes
      <4> QED BY <3>1, <4>1, LettersLast DEF Letter
    <3>4. CASE dlq'[i].attempts = dlq[i].attempts
      BY <1>0, <3>1, <3>2, <3>3, <3>4
    <3>5. CASE i = letter[o] /\ BumpAttempts(o) /\ dlq'[i].attempts = seen[o] + 1
      <4>1. seen[o] + 1 \in MaxAttempts .. (MaxAttempts + dlq[i].failures)
        BY <3>5 DEF BumpAttempts, AttemptsBacked
      <4> QED BY <1>0, <3>1, <3>3, <3>5, <4>1
    <3>6. \/ dlq'[i].attempts = dlq[i].attempts
          \/ i = letter[o] /\ BumpAttempts(o) /\ dlq'[i].attempts = seen[o] + 1
      BY <2>3, <3>1, OperatorsLetter
    <3> QED BY <3>4, <3>5, <3>6
  <2> QED BY <2>1, <2>2, <2>3, QueueSteps
<1>3. ASSUME NEW o \in Operators
      PROVE  /\ opc'[o] = "handle" =>
                  seen'[o] \in MaxAttempts .. (MaxAttempts + dlq'[letter'[o]].failures)
             /\ opc'[o] = "bump" =>
                  seen'[o] + 1 \in MaxAttempts .. (MaxAttempts + dlq'[letter'[o]].failures)
  <2> SUFFICES ASSUME opc'[o] \in {"handle", "bump"}
               PROVE  /\ opc'[o] = "handle" =>
                           seen'[o] \in MaxAttempts .. (MaxAttempts + dlq'[letter'[o]].failures)
                      /\ opc'[o] = "bump" =>
                           seen'[o] + 1 \in MaxAttempts .. (MaxAttempts + dlq'[letter'[o]].failures)
    OBVIOUS
  <2>1. CASE UNCHANGED <<opc[o], letter[o], seen[o]>>
    <3>1. letter[o] \in DOMAIN dlq
      BY <2>1 DEF Busy
    <3>2. dlq'[letter[o]].failures >= dlq[letter[o]].failures /\ dlq'[letter[o]].failures \in Nat
      <4>1. letter[o] \in DOMAIN dlq'
        BY <3>1, LettersLast
      <4>2. dlq'[letter[o]] \in Letter
        BY <4>1, NextTypes DEF TypeOK
      <4> QED BY <3>1, <4>2, LettersLast DEF Letter
    <3> QED BY <1>0, <2>1, <3>1, <3>2 DEF AttemptsBacked
  <2>2. CASE opc[o] = "handle" /\ RedriveFails(o) /\ UNCHANGED <<letter[o], seen[o]>>
    <3>1. letter[o] \in DOMAIN dlq /\ opc'[o] = "bump"
      BY <2>2 DEF Busy, RedriveFails, OGoto, TypeOK
    <3>2. dlq'[letter[o]].failures = dlq[letter[o]].failures + 1
      BY <2>2, OperatorsLetter DEF OStep
    <3>3. seen[o] \in MaxAttempts .. (MaxAttempts + dlq[letter[o]].failures)
      BY <2>2 DEF AttemptsBacked
    <3> QED BY <1>0, <2>2, <3>1, <3>2, <3>3
  <2>3. CASE /\ opc'[o] = "handle" /\ UNCHANGED dlq
             /\ letter'[o] \in DOMAIN dlq /\ seen'[o] = dlq[letter'[o]].attempts
    BY <2>3 DEF AttemptsBacked, AttemptsReal
  <2> QED BY <2>1, <2>2, <2>3, OperatorsSteps
<1> QED BY <1>1, <1>2, <1>3 DEF AttemptsBacked, AttemptsReal

(* The attempts of a dead letter are the dispatcher's whole budget and at  *)
(* most one more per failed redrive, for any overlap of redrives.          *)
THEOREM AttemptsAreReal == Spec => []AttemptsReal
<1>1. Init => AttemptsBacked
  BY DEF Init, AttemptsBacked, AttemptsReal
<1>2. Spec => []AttemptsBacked
  BY <1>1, TypesHold, NextAttemptsBacked, PTL DEF Spec
<1>3. AttemptsBacked => AttemptsReal
  BY DEF AttemptsBacked
<1> QED BY <1>2, <1>3, PTL

-----------------------------------------------------------------------------
(* DEAD LETTERS AND THEIR REPORTS                                          *)

\* Dispatchers that have stored a letter for the event and not reported it.
Reporting(e) == {w \in Workers : pc[w] = "report" /\ event[w] = e}

(* Reports made and reports due do not outnumber the letters; who is about *)
(* to bury an event has reported it.                                       *)
ReportsBacked ==
  /\ \A e \in Events : audits[e] + Cardinality(Reporting(e)) <= Cardinality(LettersOf(e))
  /\ \A w \in Workers : pc[w] = "bury" => audits[event[w]] > 0
  /\ \A e \in Events : marker[e] = "dead_lettered" => audits[e] > 0

(* The dispatchers that have a report to make can be counted.              *)
LEMMA ReportingFinite ==
  ASSUME NEW e
  PROVE  IsFiniteSet(Reporting(e)) /\ Cardinality(Reporting(e)) \in Nat
<1>1. Reporting(e) \in SUBSET Workers
  BY DEF Reporting
<1>2. IsFiniteSet(Reporting(e))
  BY <1>1, WorkersAssumption, FS_Subset
<1> QED BY <1>2, FS_CardinalityType

(* The letters of an event can be counted.                                 *)
LEMMA LettersFinite ==
  ASSUME TypeOK, NEW e
  PROVE  IsFiniteSet(LettersOf(e)) /\ Cardinality(LettersOf(e)) \in Nat
<1>1. DOMAIN dlq = 1 .. Len(dlq) /\ Len(dlq) \in Nat
  BY DEF TypeOK
<1>2. IsFiniteSet(1 .. Len(dlq))
  BY <1>1, FS_Interval
<1>3. LettersOf(e) \in SUBSET (1 .. Len(dlq))
  BY <1>1 DEF LettersOf
<1>4. IsFiniteSet(LettersOf(e))
  BY <1>2, <1>3, FS_Subset
<1> QED BY <1>4, FS_CardinalityType

(* The letters of an event never get fewer.                                *)
LEMMA LettersGrow ==
  ASSUME TypeOK, Busy, [Next]_vars, NEW e
  PROVE  /\ Cardinality(LettersOf(e)) <= Cardinality(LettersOf(e)')
         /\ Cardinality(LettersOf(e)') \in Nat
<1>1. LettersOf(e) \in SUBSET LettersOf(e)'
  BY LettersLast DEF LettersOf
<1>2. TypeOK'
  BY NextTypes
<1>3. IsFiniteSet(LettersOf(e)') /\ Cardinality(LettersOf(e)') \in Nat
  <2>1. DOMAIN dlq' = 1 .. Len(dlq') /\ Len(dlq') \in Nat
    BY <1>2 DEF TypeOK
  <2>2. IsFiniteSet(1 .. Len(dlq'))
    BY <2>1, FS_Interval
  <2>3. LettersOf(e)' \in SUBSET (1 .. Len(dlq'))
    BY <2>1 DEF LettersOf
  <2>4. IsFiniteSet(LettersOf(e)')
    BY <2>2, <2>3, FS_Subset
  <2> QED BY <2>4, FS_CardinalityType
<1> QED BY <1>1, <1>3, FS_Subset

(* Who reports for an event, and what is reported, changes only when one   *)
(* of its letters is stored or reported.                                   *)
LEMMA ReportSteps ==
  ASSUME TypeOK, [Next]_vars, NEW e \in Events
  PROVE  \/ audits'[e] = audits[e] /\ Reporting(e)' \subseteq Reporting(e)
         \/ \E w \in Workers : StoreLetter(w) /\ event[w] = e
         \/ \E w \in Workers : Report(w) /\ event[w] = e
<1> DEFINE Quiet == audits'[e] = audits[e] /\ Reporting(e)' \subseteq Reporting(e)
<1> USE DEF TypeOK, Reporting
<1>1. ASSUME NEW w \in Workers, NEW f \in Events, Deliver(w, f)
      PROVE  Quiet
  BY <1>1 DEF Deliver, Goto
<1>2. ASSUME NEW w \in Workers, Check(w)
      PROVE  Quiet
  BY <1>2 DEF Check, Return, Free, Goto
<1>3. ASSUME NEW w \in Workers, HandleSucceeds(w) \/ HandleFails(w)
      PROVE  Quiet
  BY <1>3 DEF HandleSucceeds, HandleFails, Goto
<1>4. ASSUME NEW w \in Workers, StoreLetter(w) \/ Report(w), event[w] # e
      PROVE  Quiet
  BY <1>4 DEF StoreLetter, Report, Goto
<1>5. ASSUME NEW w \in Workers, Bury(w) \/ Complete(w) \/ Crash(w)
      PROVE  Quiet
  <2>1. Free(w) /\ UNCHANGED audits
    BY <1>5 DEF Bury, Complete, WriteState, Return, Crash
  <2> QED BY <2>1 DEF Free, Goto
<1>6. ASSUME NEW f \in Events, Redeliver(f)
      PROVE  Quiet
  BY <1>6 DEF Redeliver, dispatch
<1>7. ASSUME NEW o \in Operators,
             OStep(o) \/ OCrash(o) \/ \E i \in DOMAIN dlq : Redrive(o, i)
      PROVE  Quiet
  BY <1>7, OthersSteps DEF dispatch
<1>8. ASSUME UNCHANGED vars
      PROVE  Quiet
  BY <1>8 DEF vars, dispatch
<1> HIDE DEF Quiet, TypeOK, Reporting
<1>9. ASSUME NEW w \in Workers, Step(w)
      PROVE  Quiet \/ ((StoreLetter(w) \/ Report(w)) /\ event[w] = e)
  <2>1. CASE StoreLetter(w) \/ Report(w)
    BY <1>4, <2>1
  <2> QED BY <1>2, <1>3, <1>5, <1>9, <2>1 DEF Step, Handle
<1>10. Quiet \/ \E w \in Workers : (StoreLetter(w) \/ Report(w)) /\ event[w] = e
  <2>1. CASE \E w \in Workers : Step(w)
    BY <1>9, <2>1
  <2>2. CASE \E w \in Workers : Crash(w) \/ \E f \in Events : Deliver(w, f)
    BY <1>1, <1>5, <2>2
  <2>3. CASE \E f \in Events : Redeliver(f)
    BY <1>6, <2>3
  <2>4. CASE \E o \in Operators :
               OStep(o) \/ OCrash(o) \/ \E i \in DOMAIN dlq : Redrive(o, i)
    BY <1>7, <2>4
  <2> QED BY <1>8, <2>1, <2>2, <2>3, <2>4 DEF Next
<1> QED BY <1>10 DEF Quiet

(* Storing a letter makes a report due, reporting it pays for it, and      *)
(* nothing else changes either count.                                      *)
LEMMA NextReportsBacked == TypeOK /\ Busy /\ ReportsBacked /\ [Next]_vars => ReportsBacked'
<1> SUFFICES ASSUME TypeOK, Busy, ReportsBacked, [Next]_vars
             PROVE  ReportsBacked'
  OBVIOUS
<1>1. ASSUME NEW e \in Events
      PROVE  audits'[e] + Cardinality(Reporting(e)') <= Cardinality(LettersOf(e)')
  <2> DEFINE due == Cardinality(Reporting(e))
             due2 == Cardinality(Reporting(e)')
             have == Cardinality(LettersOf(e))
             have2 == Cardinality(LettersOf(e)')
  <2>1. /\ audits[e] \in Nat /\ due \in Nat /\ have \in Nat /\ have2 \in Nat
        /\ have <= have2 /\ audits[e] + due <= have
    <3>1. audits[e] \in Nat
      BY DEF TypeOK
    <3>2. due \in Nat /\ have \in Nat
      BY ReportingFinite, LettersFinite
    <3>3. have2 \in Nat /\ have <= have2
      BY LettersGrow
    <3>4. audits[e] + due <= have
      BY DEF ReportsBacked
    <3> QED BY <3>1, <3>2, <3>3, <3>4
  <2>2. IsFiniteSet(Reporting(e)') /\ due2 \in Nat
    <3>1. Reporting(e)' \in SUBSET Workers
      BY DEF Reporting
    <3>2. IsFiniteSet(Reporting(e)')
      BY <3>1, WorkersAssumption, FS_Subset
    <3> QED BY <3>2, FS_CardinalityType
  <2>3. CASE audits'[e] = audits[e] /\ Reporting(e)' \subseteq Reporting(e)
    <3>1. due2 <= due
      BY <2>3, ReportingFinite, FS_Subset
    <3> HIDE DEF due, due2, have, have2
    <3>2. audits'[e] + due2 <= have2
      BY <2>1, <2>2, <2>3, <3>1
    <3> QED BY <3>2 DEF due2, have2
  <2>4. ASSUME NEW w \in Workers, StoreLetter(w), event[w] = e
        PROVE  audits'[e] + due2 <= have2
    <3>1. audits'[e] = audits[e] /\ Reporting(e)' = Reporting(e) \cup {w} /\ w \notin Reporting(e)
      BY <2>4 DEF StoreLetter, Goto, Reporting, TypeOK
    <3>2. due2 = due + 1
      BY <3>1, ReportingFinite, FS_AddElement
    <3>3. /\ DOMAIN dlq' = DOMAIN dlq \cup {Len(dlq) + 1}
          /\ \A j \in DOMAIN dlq : dlq'[j] = dlq[j]
          /\ dlq'[Len(dlq) + 1] =
               [event |-> event[w], attempts |-> attempt[w], stored |-> TRUE,
                redriven |-> FALSE, failures |-> 0]
      BY <2>4, StoreLetterTypes
    <3>4. dlq'[Len(dlq) + 1].event = e
      BY <2>4, <3>3
    <3>5. LettersOf(e)' = LettersOf(e) \cup {Len(dlq) + 1}
      BY <3>3, <3>4 DEF LettersOf
    <3>6. Len(dlq) + 1 \notin LettersOf(e)
      BY DEF LettersOf, TypeOK
    <3>7. have2 = have + 1
      BY <3>5, <3>6, LettersFinite, FS_AddElement
    <3> HIDE DEF due, due2, have, have2
    <3> QED BY <2>1, <3>1, <3>2, <3>7
  <2>5. ASSUME NEW w \in Workers, Report(w), event[w] = e
        PROVE  audits'[e] + due2 <= have2
    <3>1. audits'[e] = audits[e] + 1 /\ Reporting(e)' = Reporting(e) \ {w} /\ w \in Reporting(e)
      BY <2>5 DEF Report, Goto, Reporting, TypeOK
    <3>2. due2 = due - 1
      BY <3>1, ReportingFinite, FS_RemoveElement
    <3> HIDE DEF due, due2, have, have2
    <3> QED BY <2>1, <3>1, <3>2
  <2> QED BY <2>3, <2>4, <2>5, ReportSteps
<1>2. /\ \A w \in Workers : pc'[w] = "bury" => audits'[event'[w]] > 0
      /\ \A e \in Events : marker'[e] = "dead_lettered" => audits'[e] > 0
  <2> USE DEF TypeOK, Busy, ReportsBacked
  <2>1. ASSUME NEW w \in Workers, Step(w) \/ Crash(w) \/ \E e \in Events : Deliver(w, e)
        PROVE  /\ \A v \in Workers : pc'[v] = "bury" => audits'[event'[v]] > 0
               /\ \A e \in Events : marker'[e] = "dead_lettered" => audits'[e] > 0
    <3>1. CASE Check(w) \/ HandleSucceeds(w) \/ HandleFails(w) \/ StoreLetter(w)
      BY <3>1 DEF Check, HandleSucceeds, HandleFails, StoreLetter, Return, Free, Goto
    <3>2. CASE Report(w)
      BY <3>2 DEF Report, Goto
    <3>3. CASE Bury(w) \/ Complete(w)
      <4>1. Free(w) /\ UNCHANGED audits /\ event[w] \in Events
        BY <3>3 DEF Bury, Complete, WriteState, Return
      <4>2. \A e \in Events : marker'[e] = "dead_lettered" => audits'[e] > 0
        BY <3>3, <4>1 DEF Bury, Complete, WriteState
      <4> QED BY <4>1, <4>2 DEF Free, Goto
    <3>4. CASE Crash(w) \/ \E e \in Events : Deliver(w, e)
      BY <3>4 DEF Crash, Free, Deliver, Goto
    <3> QED BY <2>1, <3>1, <3>2, <3>3, <3>4 DEF Step, Handle
  <2>2. ASSUME NEW e \in Events, Redeliver(e)
        PROVE  UNCHANGED <<marker, audits, dispatch>>
    BY <2>2 DEF Redeliver
  <2>3. ASSUME NEW o \in Operators,
               OStep(o) \/ OCrash(o) \/ \E i \in DOMAIN dlq : Redrive(o, i)
        PROVE  UNCHANGED <<marker, audits, dispatch>>
    BY <2>3, OthersSteps
  <2>4. CASE UNCHANGED <<marker, audits, dispatch>>
    BY <2>4 DEF dispatch
  <2> QED BY <2>1, <2>2, <2>3, <2>4 DEF Next, vars
<1> QED BY <1>1, <1>2 DEF ReportsBacked

(* The log reports no more dead letters than were stored, and no event is  *)
(* marked dead_lettered before one was reported.                           *)
THEOREM ReportsAreBacked == Spec => []DeadLetterReported
<1>1. Init => ReportsBacked
  <2> SUFFICES ASSUME Init PROVE ReportsBacked
    OBVIOUS
  <2>1. ASSUME NEW e \in Events
        PROVE  Reporting(e) = {} /\ LettersOf(e) = {} /\ audits[e] = 0
    BY DEF Init, Reporting, LettersOf
  <2>2. Cardinality({}) = 0
    BY FS_EmptySet
  <2>3. \A e \in Events : audits[e] + Cardinality(Reporting(e)) <= Cardinality(LettersOf(e))
    <3> SUFFICES ASSUME NEW e \in Events
                 PROVE  audits[e] + Cardinality(Reporting(e)) <= Cardinality(LettersOf(e))
      OBVIOUS
    <3>1. audits[e] = 0 /\ Cardinality(Reporting(e)) = 0 /\ Cardinality(LettersOf(e)) = 0
      BY <2>1, <2>2
    <3> QED BY <3>1
  <2> QED BY <2>3, NoneAssumption DEF Init, ReportsBacked
<1>2. Spec => []ReportsBacked
  BY <1>1, TypesHold, NextReportsBacked, PTL DEF Spec
<1>3. TypeOK /\ ReportsBacked => DeadLetterReported
  <2> SUFFICES ASSUME TypeOK, ReportsBacked, NEW e \in Events
               PROVE  /\ audits[e] <= Cardinality(LettersOf(e))
                      /\ marker[e] = "dead_lettered" => audits[e] > 0
    BY DEF DeadLetterReported
  <2> QED BY ReportingFinite, LettersFinite DEF TypeOK, ReportsBacked
<1> QED BY <1>2, <1>3, TypesHold, PTL

-----------------------------------------------------------------------------
(* ONE DISPATCHER KEEPS THE PROMISE                                        *)

OneDispatcher == \A v, w \in Workers : v = w

(* Behind the check the marker is still absent, and a dispatcher about to  *)
(* complete an event has handled it.                                       *)
Unsettled ==
  \A w \in Workers :
    /\ pc[w] \notin {"idle", "check"} => marker[event[w]] = None
    /\ pc[w] = "complete" => runs[event[w]] > 0

(* Only the dispatcher itself could mark the event it has at work.         *)
LEMMA NextUnsettled ==
  ASSUME OneDispatcher, TypeOK, Busy, Unsettled, [Next]_vars
  PROVE  Unsettled'
<1> USE DEF Unsettled, TypeOK, Busy
<1>1. ASSUME NEW w \in Workers, NEW e \in Events, Deliver(w, e)
      PROVE  Unsettled'
  BY <1>1 DEF Deliver, Goto
<1>2. ASSUME NEW w \in Workers, Check(w)
      PROVE  Unsettled'
  BY <1>2 DEF Check, Return, Free, Goto
<1>3. ASSUME NEW w \in Workers, HandleSucceeds(w) \/ HandleFails(w)
      PROVE  Unsettled'
  <2>1. CASE HandleSucceeds(w)
    <3>1. event[w] \in Events /\ runs[event[w]] \in Nat
      BY <2>1 DEF HandleSucceeds
    <3>2. runs'[event[w]] > 0 /\ UNCHANGED <<marker, event>> /\ pc[w] = "handle"
      BY <2>1, <3>1 DEF HandleSucceeds
    <3> QED BY <3>2 DEF OneDispatcher
  <2>2. CASE HandleFails(w)
    BY <2>2 DEF HandleFails, Goto
  <2> QED BY <1>3, <2>1, <2>2
<1>4. ASSUME NEW w \in Workers, StoreLetter(w) \/ Report(w)
      PROVE  Unsettled'
  BY <1>4 DEF StoreLetter, Report, Goto
<1>5. ASSUME NEW w \in Workers, Bury(w) \/ Complete(w) \/ Crash(w)
      PROVE  Unsettled'
  <2>1. Free(w)
    BY <1>5 DEF Bury, Complete, WriteState, Return, Crash
  <2> QED BY <2>1 DEF Free, Goto, OneDispatcher
<1>6. ASSUME NEW e \in Events, Redeliver(e)
      PROVE  Unsettled'
  BY <1>6 DEF Redeliver, dispatch
<1>7. ASSUME NEW o \in Operators,
             OStep(o) \/ OCrash(o) \/ \E i \in DOMAIN dlq : Redrive(o, i)
      PROVE  Unsettled'
  BY <1>7, OthersSteps DEF dispatch
<1>8. CASE UNCHANGED vars
  BY <1>8 DEF vars, dispatch
<1> HIDE DEF Unsettled, TypeOK, Busy
<1> QED BY <1>1, <1>2, <1>3, <1>4, <1>5, <1>6, <1>7, <1>8 DEF Next, Step, Handle

(* With one dispatcher an event at work has no marker.                     *)
LEMMA UnsettledHolds == ASSUME OneDispatcher PROVE Spec => []Unsettled
<1>1. Init => Unsettled
  BY DEF Init, Unsettled
<1>2. Unsettled /\ TypeOK /\ Busy /\ [Next]_vars => Unsettled'
  BY NextUnsettled
<1> QED BY <1>1, <1>2, TypesHold, PTL DEF Spec

(* Only a dispatcher's last call changes a marker or what was handled.     *)
LEMMA PromiseSteps ==
  ASSUME TypeOK, Busy, [Next]_vars
  PROVE  \/ UNCHANGED <<marker, runs>>
         \/ \E w \in Workers : HandleSucceeds(w) \/ Bury(w) \/ Complete(w)
<1>1. ASSUME NEW w \in Workers, Step(w) \/ Crash(w) \/ \E e \in Events : Deliver(w, e)
      PROVE  \/ UNCHANGED <<marker, runs>>
             \/ HandleSucceeds(w) \/ Bury(w) \/ Complete(w)
  BY <1>1 DEF Step, Handle, Check, HandleFails, StoreLetter, Report, Crash, Deliver
<1>2. ASSUME NEW e \in Events, Redeliver(e)
      PROVE  UNCHANGED <<marker, runs>>
  BY <1>2 DEF Redeliver
<1>3. ASSUME NEW o \in Operators,
             OStep(o) \/ OCrash(o) \/ \E i \in DOMAIN dlq : Redrive(o, i)
      PROVE  UNCHANGED <<marker, runs>>
  BY <1>3, OthersSteps
<1> QED BY <1>1, <1>2, <1>3 DEF Next, vars

(* One dispatcher never changes a marker it has written: the statuses are  *)
(* terminal, which two dispatchers break.                                  *)
THEOREM TerminalAlone == ASSUME OneDispatcher PROVE Spec => MarkerIsTerminal
<1>1. ASSUME TypeOK, Busy, Unsettled, [Next]_vars
      PROVE  [\A e \in Events : marker[e] # None => marker'[e] = marker[e]]_marker
  <2>1. ASSUME NEW w \in Workers, Bury(w) \/ Complete(w), NEW e \in Events, marker[e] # None
        PROVE  marker'[e] = marker[e]
    <3>1. marker[event[w]] = None
      BY <1>1, <2>1 DEF Unsettled, Bury, Complete
    <3> QED BY <1>1, <2>1, <3>1 DEF Bury, Complete, WriteState, TypeOK
  <2>2. ASSUME NEW w \in Workers, HandleSucceeds(w)
        PROVE  UNCHANGED marker
    BY <2>2 DEF HandleSucceeds
  <2> QED BY <1>1, <2>1, <2>2, PromiseSteps
<1> QED BY <1>1, TypesHold, UnsettledHolds, PTL DEF Spec, MarkerIsTerminal

(* One dispatcher implements DispatchPromise, its liveness aside: an event *)
(* is settled at most once, and completed only after its handler ended.    *)
PromiseSafety == Promise!Init /\ [][Promise!Next]_Promise!vars

THEOREM PromiseKeptAlone == ASSUME OneDispatcher PROVE Spec => PromiseSafety
<1> DEFINE fate == [e \in Events |-> IF marker[e] = None THEN "open" ELSE marker[e]]
           handled == {e \in Events : runs[e] > 0}
<1>1. Init => Promise!Init
  BY DEF Init, Promise!Init
<1>2. ASSUME TypeOK, Busy, Unsettled, [Next]_vars
      PROVE  [Promise!Next]_Promise!vars
  <2>1. CASE UNCHANGED <<marker, runs>>
    BY <2>1 DEF Promise!vars
  <2>2. ASSUME NEW w \in Workers, HandleSucceeds(w)
        PROVE  Promise!Handle(event[w]) /\ event[w] \in Events
    <3>1. event[w] \in Events /\ UNCHANGED marker
      BY <1>2, <2>2 DEF Busy, HandleSucceeds
    <3>2. handled' = handled \cup {event[w]}
      BY <1>2, <2>2, <3>1 DEF HandleSucceeds, TypeOK
    <3> QED BY <3>1, <3>2 DEF Promise!Handle
  <2>3. ASSUME NEW w \in Workers, Bury(w)
        PROVE  Promise!Bury(event[w]) /\ event[w] \in Events
    <3>1. event[w] \in Events /\ marker[event[w]] = None /\ UNCHANGED runs
      BY <1>2, <2>3 DEF Busy, Unsettled, Bury, WriteState
    <3>2. fate' = [fate EXCEPT ![event[w]] = "dead_lettered"]
      BY <1>2, <2>3, <3>1, NoneAssumption DEF Bury, WriteState, TypeOK
    <3> QED BY <3>1, <3>2 DEF Promise!Bury, Promise!Settle
  <2>4. ASSUME NEW w \in Workers, Complete(w)
        PROVE  Promise!Complete(event[w]) /\ event[w] \in Events
    <3>1. /\ event[w] \in Events /\ marker[event[w]] = None /\ UNCHANGED runs
          /\ runs[event[w]] > 0
      BY <1>2, <2>4 DEF Busy, Unsettled, Complete, WriteState
    <3>2. fate' = [fate EXCEPT ![event[w]] = "completed"]
      BY <1>2, <2>4, <3>1, NoneAssumption DEF Complete, WriteState, TypeOK
    <3> QED BY <3>1, <3>2 DEF Promise!Complete, Promise!Settle
  <2>5. ASSUME NEW w \in Workers, HandleSucceeds(w) \/ Bury(w) \/ Complete(w)
        PROVE  Promise!Next
    <3>1. /\ event[w] \in Events
          /\ Promise!Handle(event[w]) \/ Promise!Complete(event[w]) \/ Promise!Bury(event[w])
      BY <2>2, <2>3, <2>4, <2>5
    <3> QED BY <3>1 DEF Promise!Next, Promise!Handle, Promise!Complete, Promise!Bury, Promise!Settle
  <2> QED BY <1>2, <2>1, <2>5, PromiseSteps
<1> QED BY <1>1, <1>2, TypesHold, UnsettledHolds, PTL DEF Spec, PromiseSafety

-----------------------------------------------------------------------------
(* WHAT A SECOND RUN COSTS                                                 *)

\* Dispatchers past the check that have neither handled nor stored the event,
\* and those that have and still have to mark it.
Due(e)      == {w \in Workers : event[w] = e /\ pc[w] \in {"handle", "store"}}
Settling(e) == {w \in Workers : event[w] = e /\ pc[w] \in {"complete", "report", "bury"}}

\* Handler runs that ended well, and letters.
Spent(e) == runs[e] + Cardinality(LettersOf(e))

(* While an event is not marked, every run and letter of it is a crash's   *)
(* or belongs to a dispatcher about to mark it; from the mark on only the  *)
(* dispatchers that were past the check can add to them, once each.        *)
CostInv ==
  \A e \in Events :
    /\ marker[e] = None => Spent(e) <= crashes + Cardinality(Settling(e))
    /\ marker[e] # None =>
         Spent(e) + Cardinality(Due(e)) <= crashes + Cardinality(Workers)

(* Sets of dispatchers can be counted and compared.                        *)
LEMMA SomeWorkers ==
  ASSUME NEW A \in SUBSET Workers
  PROVE  /\ IsFiniteSet(A) /\ Cardinality(A) \in Nat /\ Cardinality(Workers) \in Nat
         /\ Cardinality(A) <= Cardinality(Workers)
         /\ \A B \in SUBSET A : Cardinality(B) \in Nat /\ Cardinality(B) <= Cardinality(A)
<1>1. IsFiniteSet(A)
  BY WorkersAssumption, FS_Subset
<1> QED BY <1>1, WorkersAssumption, FS_Subset, FS_CardinalityType

(* A dispatcher does one thing at a time.                                  *)
LEMMA ManyAsWorkers ==
  ASSUME NEW e
  PROVE  Cardinality(Settling(e)) + Cardinality(Due(e)) <= Cardinality(Workers)
<1>1. Settling(e) \in SUBSET Workers /\ Due(e) \in SUBSET Workers
  BY DEF Settling, Due
<1>2. Settling(e) \cap Due(e) = {}
  BY DEF Settling, Due
<1>3. Cardinality(Settling(e) \cup Due(e)) = Cardinality(Settling(e)) + Cardinality(Due(e))
  <2>1. Cardinality(Settling(e) \cup Due(e)) =
          Cardinality(Settling(e)) + Cardinality(Due(e)) - Cardinality(Settling(e) \cap Due(e))
    BY <1>1, SomeWorkers, FS_Union
  <2>2. Cardinality(Settling(e) \cap Due(e)) = 0
    BY <1>2, FS_EmptySet
  <2> QED BY <1>1, <2>1, <2>2, SomeWorkers
<1>4. Settling(e) \cup Due(e) \in SUBSET Workers
  BY <1>1
<1> QED BY <1>3, <1>4, SomeWorkers

\* Nothing is run or stored of the event; nobody else gets to its handler
\* once it is marked, and nobody about to mark it gives up.
CostsNothing(e) ==
  /\ runs'[e] = runs[e] /\ LettersOf(e)' = LettersOf(e) /\ crashes' = crashes
  /\ marker'[e] = marker[e]
  /\ Settling(e) \subseteq Settling(e)'
  /\ marker[e] # None => Due(e)' \subseteq Due(e)

(* The operators' steps leave an event's letters its letters.              *)
LEMMA OperatorsKeepLetters ==
  ASSUME TypeOK, Busy, [Next]_vars, NEW e, NEW o \in Operators,
         OStep(o) \/ OCrash(o) \/ \E i \in DOMAIN dlq : Redrive(o, i)
  PROVE  LettersOf(e)' = LettersOf(e)
<1>1. DOMAIN dlq' = DOMAIN dlq
  <2>1. CASE OStep(o)
    BY <2>1, OperatorsTypes
  <2>2. CASE OCrash(o) \/ \E i \in DOMAIN dlq : Redrive(o, i)
    BY <2>2 DEF OCrash, Redrive
  <2> QED BY <2>1, <2>2
<1> QED BY <1>1, LettersLast DEF LettersOf

(* Storing a letter adds a letter of the event in hand and no other.       *)
LEMMA StoreAdds ==
  ASSUME TypeOK, Busy, NEW w \in Workers, StoreLetter(w)
  PROVE  /\ DOMAIN dlq' = DOMAIN dlq \cup {Len(dlq) + 1}
         /\ \A i \in DOMAIN dlq : dlq'[i] = dlq[i]
         /\ dlq'[Len(dlq) + 1].event = event[w]
<1>1. dlq'[Len(dlq) + 1] =
        [event |-> event[w], attempts |-> attempt[w], stored |-> TRUE,
         redriven |-> FALSE, failures |-> 0]
  BY StoreLetterTypes
<1>2. dlq'[Len(dlq) + 1].event = event[w]
  BY <1>1
<1> QED BY <1>2, StoreLetterTypes

(* A dispatcher's step costs nothing unless it runs, stores or marks the   *)
(* event, or is the crash of whoever has it.                               *)
LEMMA DispatcherCosts ==
  ASSUME TypeOK, Busy, NEW e \in Events, NEW w \in Workers,
         Step(w) \/ Crash(w) \/ \E f \in Events : Deliver(w, f)
  PROVE  \/ CostsNothing(e)
         \/ /\ HandleSucceeds(w) \/ StoreLetter(w) \/ Bury(w) \/ Complete(w)
            /\ event[w] = e
         \/ Crash(w)
<1> USE DEF CostsNothing, Due, Settling, LettersOf, TypeOK, Goto
<1>1. CASE \E f \in Events : Deliver(w, f)
  BY <1>1 DEF Deliver, budget
<1>2. CASE Check(w)
  BY <1>2 DEF Check, Return, Free, budget
<1>3. CASE HandleFails(w)
  BY <1>3 DEF HandleFails, budget
<1>4. CASE HandleSucceeds(w) /\ event[w] # e
  BY <1>4 DEF HandleSucceeds, budget
<1>5. CASE StoreLetter(w) /\ event[w] # e
  <2>1. LettersOf(e)' = LettersOf(e)
    <3> HIDE DEF TypeOK, Goto
    <3>1. /\ DOMAIN dlq' = DOMAIN dlq \cup {Len(dlq) + 1}
          /\ \A i \in DOMAIN dlq : dlq'[i] = dlq[i]
          /\ dlq'[Len(dlq) + 1].event = event[w]
      BY <1>5, StoreAdds
    <3> QED BY <1>5, <3>1
  <2>2. UNCHANGED <<runs, crashes, marker>> /\ Due(e)' = Due(e) /\ Settling(e)' = Settling(e)
    BY <1>5 DEF StoreLetter, budget
  <2> QED BY <2>1, <2>2
<1>6. CASE Report(w)
  BY <1>6 DEF Report, budget
<1>7. CASE (Bury(w) \/ Complete(w)) /\ event[w] # e
  <2>1. UNCHANGED <<runs, dlq, crashes>>
    BY <1>7 DEF Bury, Complete, WriteState, budget
  <2>2. marker'[e] = marker[e] /\ Free(w)
    BY <1>7 DEF Bury, Complete, WriteState, Return
  <2>3. \A v \in Workers : v # w => pc'[v] = pc[v] /\ event'[v] = event[v]
    BY <2>2 DEF Free
  <2>4. pc'[w] = "idle"
    BY <2>2 DEF Free
  <2> QED BY <1>7, <2>1, <2>2, <2>3, <2>4
<1> HIDE DEF CostsNothing, Due, Settling, LettersOf, TypeOK, Goto
<1> QED BY <1>1, <1>2, <1>3, <1>4, <1>5, <1>6, <1>7 DEF Step, Handle

(* Every step costs nothing but such a dispatcher's.                       *)
LEMMA CostSteps ==
  ASSUME TypeOK, Busy, [Next]_vars, NEW e \in Events
  PROVE  \/ CostsNothing(e)
         \/ \E w \in Workers :
              \/ /\ HandleSucceeds(w) \/ StoreLetter(w) \/ Bury(w) \/ Complete(w)
                 /\ event[w] = e
              \/ Crash(w)
<1>1. CASE \E w \in Workers : Step(w) \/ Crash(w) \/ \E f \in Events : Deliver(w, f)
  BY <1>1, DispatcherCosts
<1>2. ASSUME NEW o \in Operators,
             OStep(o) \/ OCrash(o) \/ \E i \in DOMAIN dlq : Redrive(o, i)
      PROVE  CostsNothing(e)
  <2>1. LettersOf(e)' = LettersOf(e)
    BY <1>2, OperatorsKeepLetters
  <2>2. UNCHANGED <<marker, runs, dispatch, crashes>>
    BY <1>2 DEF OStep, RedriveSucceeds, RedriveFails, DeleteLetter, BumpAttempts, OCrash,
                Redrive, budget
  <2> QED BY <2>1, <2>2 DEF CostsNothing, Due, Settling, dispatch
<1>3. CASE \E f \in Events : Redeliver(f)
  BY <1>3 DEF Redeliver, CostsNothing, Due, Settling, LettersOf, dispatch
<1>4. CASE UNCHANGED vars
  BY <1>4 DEF vars, CostsNothing, Due, Settling, LettersOf, dispatch, budget
<1> QED BY <1>1, <1>2, <1>3, <1>4 DEF Next

(* A run or a letter is one more, by a dispatcher that owed it and now has *)
(* to mark the event.                                                      *)
LEMMA RunCosts ==
  ASSUME TypeOK, Busy, NEW e \in Events, NEW w \in Workers,
         HandleSucceeds(w) \/ StoreLetter(w), event[w] = e
  PROVE  /\ Spent(e)' = Spent(e) + 1
         /\ marker'[e] = marker[e] /\ crashes' = crashes
         /\ w \notin Settling(e) /\ Settling(e)' = Settling(e) \cup {w}
         /\ w \in Due(e) /\ Due(e)' = Due(e) \ {w}
<1>1. Cardinality(LettersOf(e)) \in Nat /\ runs[e] \in Nat
  BY LettersFinite DEF TypeOK
<1>2. Spent(e)' = Spent(e) + 1
  <2>1. CASE HandleSucceeds(w)
    <3>1. runs'[e] = runs[e] + 1 /\ LettersOf(e)' = LettersOf(e)
      BY <2>1 DEF HandleSucceeds, LettersOf, TypeOK
    <3> QED BY <1>1, <3>1 DEF Spent
  <2>2. CASE StoreLetter(w)
    <3>1. /\ DOMAIN dlq' = DOMAIN dlq \cup {Len(dlq) + 1}
          /\ \A i \in DOMAIN dlq : dlq'[i] = dlq[i]
          /\ dlq'[Len(dlq) + 1].event = e
      BY <2>2, StoreAdds
    <3>2. LettersOf(e)' = LettersOf(e) \cup {Len(dlq) + 1}
      BY <3>1 DEF LettersOf
    <3>3. Len(dlq) + 1 \notin LettersOf(e)
      BY DEF LettersOf, TypeOK
    <3>4. Cardinality(LettersOf(e)') = Cardinality(LettersOf(e)) + 1
      BY <3>2, <3>3, LettersFinite, FS_AddElement
    <3>5. runs'[e] = runs[e]
      BY <2>2 DEF StoreLetter
    <3> QED BY <1>1, <3>4, <3>5 DEF Spent
  <2> QED BY <2>1, <2>2
<1> QED BY <1>2 DEF HandleSucceeds, StoreLetter, Goto, Settling, Due, TypeOK, budget

(* No step makes an event cost more than is allowed for: a run or a letter *)
(* moves its dispatcher from the due to the settling, a mark ends the      *)
(* latter, and a crash raises the allowance by the one it takes away.      *)
LEMMA NextCost ==
  ASSUME TypeOK, Busy, CostInv, [Next]_vars
  PROVE  CostInv'
<1> DEFINE Open(e)   == marker'[e] = None => Spent(e)' <= crashes' + Cardinality(Settling(e)')
           Marked(e) == marker'[e] # None =>
                          Spent(e)' + Cardinality(Due(e)') <= crashes' + Cardinality(Workers)
<1> SUFFICES ASSUME NEW e \in Events
             PROVE  Open(e) /\ Marked(e)
  BY DEF CostInv
<1>1. /\ Spent(e) \in Nat /\ crashes \in Nat
      /\ Cardinality(Settling(e)) \in Nat /\ Cardinality(Due(e)) \in Nat
      /\ Cardinality(Workers) \in Nat
      /\ Cardinality(Settling(e)) + Cardinality(Due(e)) <= Cardinality(Workers)
  <2>1. Settling(e) \in SUBSET Workers /\ Due(e) \in SUBSET Workers
    BY DEF Settling, Due
  <2>2. Spent(e) \in Nat
    BY LettersFinite DEF Spent, TypeOK
  <2> QED BY <2>1, <2>2, SomeWorkers, ManyAsWorkers DEF TypeOK
<1>2. /\ Settling(e) \in SUBSET Workers /\ Settling(e)' \in SUBSET Workers
      /\ Due(e) \in SUBSET Workers /\ Due(e)' \in SUBSET Workers
  BY DEF Settling, Due
<1>3. /\ Cardinality(Settling(e)') \in Nat /\ Cardinality(Due(e)') \in Nat
      /\ IsFiniteSet(Settling(e)) /\ IsFiniteSet(Due(e))
      /\ Settling(e) \subseteq Settling(e)' => Cardinality(Settling(e)) <= Cardinality(Settling(e)')
      /\ Due(e)' \subseteq Due(e) => Cardinality(Due(e)') <= Cardinality(Due(e))
  BY <1>2, SomeWorkers
<1>4. /\ marker[e] = None => Spent(e) <= crashes + Cardinality(Settling(e))
      /\ marker[e] # None => Spent(e) + Cardinality(Due(e)) <= crashes + Cardinality(Workers)
  BY DEF CostInv
<1>5. CASE CostsNothing(e)
  <2>1. Spent(e)' = Spent(e)
    BY <1>5 DEF CostsNothing, Spent
  <2>2. /\ marker'[e] = marker[e] /\ crashes' = crashes
        /\ Cardinality(Settling(e)) <= Cardinality(Settling(e)')
        /\ marker[e] # None => Cardinality(Due(e)') <= Cardinality(Due(e))
    BY <1>3, <1>5 DEF CostsNothing
  <2> QED BY <1>1, <1>3, <1>4, <2>1, <2>2
<1>6. ASSUME NEW w \in Workers, HandleSucceeds(w) \/ StoreLetter(w), event[w] = e
      PROVE  Open(e) /\ Marked(e)
  <2>1. /\ Spent(e)' = Spent(e) + 1
        /\ marker'[e] = marker[e] /\ crashes' = crashes
        /\ w \notin Settling(e) /\ Settling(e)' = Settling(e) \cup {w}
        /\ w \in Due(e) /\ Due(e)' = Due(e) \ {w}
    BY <1>6, RunCosts
  <2>2. Cardinality(Settling(e)') = Cardinality(Settling(e)) + 1
    BY <1>3, <2>1, FS_AddElement
  <2>3. Cardinality(Due(e)') = Cardinality(Due(e)) - 1
    BY <1>3, <2>1, FS_RemoveElement
  <2> QED BY <1>1, <1>3, <1>4, <2>1, <2>2, <2>3
<1>7. ASSUME NEW w \in Workers, Bury(w) \/ Complete(w), event[w] = e
      PROVE  Open(e) /\ Marked(e)
  <2>1. UNCHANGED <<runs, dlq, crashes>> /\ marker'[e] # None
    BY <1>7, NoneAssumption DEF Bury, Complete, WriteState, TypeOK, budget
  <2>2. Spent(e)' = Spent(e)
    BY <2>1 DEF Spent, LettersOf
  <2>3. Due(e)' \subseteq Due(e)
    <3>1. Free(w)
      BY <1>7 DEF Bury, Complete, WriteState, Return
    <3> QED BY <3>1 DEF Free, Goto, Due, TypeOK
  <2> QED BY <1>1, <1>3, <1>4, <2>1, <2>2, <2>3
<1>8. ASSUME NEW w \in Workers, Crash(w)
      PROVE  Open(e) /\ Marked(e)
  <2>1. UNCHANGED <<runs, dlq, marker>> /\ crashes' = crashes + 1 /\ Free(w)
    BY <1>8 DEF Crash
  <2>2. Spent(e)' = Spent(e)
    BY <2>1 DEF Spent, LettersOf
  <2>3. Due(e)' \subseteq Due(e) /\ Settling(e) \ {w} \subseteq Settling(e)'
    BY <2>1 DEF Free, Goto, Due, Settling, TypeOK
  <2>4. Cardinality(Settling(e)) <= Cardinality(Settling(e)') + 1
    <3>1. /\ Cardinality(Settling(e) \ {w}) \in Nat
          /\ Cardinality(Settling(e) \ {w}) <= Cardinality(Settling(e)')
      BY <1>2, <2>3, SomeWorkers
    <3>2. CASE w \in Settling(e)
      <4>1. Cardinality(Settling(e) \ {w}) = Cardinality(Settling(e)) - 1
        BY <1>3, <3>2, FS_RemoveElement
      <4> QED BY <1>1, <1>3, <3>1, <4>1
    <3>3. CASE w \notin Settling(e)
      <4>1. Settling(e) \ {w} = Settling(e)
        BY <3>3
      <4> QED BY <1>1, <1>3, <3>1, <4>1
    <3> QED BY <3>2, <3>3
  <2> QED BY <1>1, <1>3, <1>4, <2>1, <2>2, <2>3, <2>4
<1> HIDE DEF Open, Marked
<1> QED BY <1>5, <1>6, <1>7, <1>8, CostSteps

(* However many dispatchers race, however often events are delivered again *)
(* and letters redriven: an event is run to its end or buried once per     *)
(* crash and once per dispatcher at most, and just once where a single     *)
(* dispatcher never crashes.                                               *)
THEOREM RerunsAreBounded == Spec => []RerunsBounded
<1>1. Init => CostInv
  <2> SUFFICES ASSUME Init, NEW e \in Events
               PROVE  Spent(e) <= crashes + Cardinality(Settling(e))
    BY DEF CostInv, Init
  <2>1. LettersOf(e) = {} /\ Settling(e) = {} /\ runs[e] = 0 /\ crashes = 0
    BY DEF Init, LettersOf, Settling
  <2>2. Cardinality(LettersOf(e)) = 0 /\ Cardinality(Settling(e)) = 0
    BY <2>1, FS_EmptySet
  <2> QED BY <2>1, <2>2 DEF Spent
<1>2. CostInv /\ TypeOK /\ Busy /\ [Next]_vars => CostInv'
  BY NextCost
<1>3. CostInv /\ TypeOK => RerunsBounded
  <2> SUFFICES ASSUME CostInv, TypeOK, NEW e \in Events
               PROVE  Spent(e) <= Cardinality(Workers) + crashes
    BY DEF RerunsBounded, Spent
  <2>1. Spent(e) \in Nat /\ crashes \in Nat
    BY LettersFinite DEF Spent, TypeOK
  <2>2. Settling(e) \in SUBSET Workers /\ Due(e) \in SUBSET Workers
    BY DEF Settling, Due
  <2>3. /\ Cardinality(Settling(e)) \in Nat /\ Cardinality(Due(e)) \in Nat
        /\ Cardinality(Workers) \in Nat
        /\ Cardinality(Settling(e)) <= Cardinality(Workers)
    BY <2>2, SomeWorkers
  <2>4. /\ marker[e] = None => Spent(e) <= crashes + Cardinality(Settling(e))
        /\ marker[e] # None => Spent(e) + Cardinality(Due(e)) <= crashes + Cardinality(Workers)
    BY DEF CostInv
  <2> QED BY <2>1, <2>3, <2>4
<1> QED BY <1>1, <1>2, <1>3, TypesHold, PTL DEF Spec

-----------------------------------------------------------------------------
(* EVERY DISPATCH ENDS                                                     *)

\* The calls a dispatch has before it, at the most.
CallsLeft(w) ==
  CASE pc[w] = "check"                -> MaxAttempts + 4
    [] pc[w] = "handle"               -> (MaxAttempts - attempt[w]) + 4
    [] pc[w] = "store"                -> 3
    [] pc[w] = "report"               -> 2
    [] pc[w] \in {"bury", "complete"} -> 1
    [] pc[w] = "idle"                 -> 0

(* A dispatcher in the handler has made its first attempt.                 *)
Attempting == \A w \in Workers : pc[w] = "handle" => attempt[w] \in 1 .. MaxAttempts

(* What a dispatcher does brings it nearer to its end; what others do does *)
(* not set it back.                                                        *)
Nearer ==
  \A w \in Workers :
    /\ Step(w) => CallsLeft(w)' < CallsLeft(w)
    /\ CallsLeft(w)' <= CallsLeft(w) \/ \E e \in Events : Deliver(w, e)

(* Attempts are counted from one to the budget.                            *)
LEMMA NextAttempting ==
  ASSUME TypeOK, Busy, Attempting, [Next]_vars
  PROVE  Attempting'
<1> USE DEF Attempting, TypeOK, Goto
<1>0. 1 \in 1 .. MaxAttempts
  BY AttemptsAssumption
<1>1. ASSUME NEW w \in Workers, Step(w) \/ Crash(w) \/ \E e \in Events : Deliver(w, e)
      PROVE  Attempting'
  <2>1. CASE Check(w)
    BY <1>0, <2>1 DEF Check, Return, Free
  <2>2. CASE HandleFails(w)
    <3>1. pc[w] = "handle" /\ attempt[w] \in 1 .. MaxAttempts
      BY <2>2 DEF HandleFails
    <3>2. attempt[w] # MaxAttempts => attempt[w] + 1 \in 1 .. MaxAttempts
      BY <3>1, AttemptsAssumption
    <3>3. attempt'[w] \in 1 .. MaxAttempts
      BY <2>2, <3>1, <3>2 DEF HandleFails
    <3>4. \A v \in Workers : v # w => pc'[v] = pc[v] /\ attempt'[v] = attempt[v]
      BY <2>2 DEF HandleFails
    <3> QED BY <3>3, <3>4
  <2>3. CASE HandleSucceeds(w) \/ StoreLetter(w) \/ Report(w) \/ \E e \in Events : Deliver(w, e)
    BY <2>3 DEF HandleSucceeds, StoreLetter, Report, Deliver
  <2>4. CASE Bury(w) \/ Complete(w) \/ Crash(w)
    BY <2>4 DEF Bury, Complete, WriteState, Return, Crash, Free
  <2> QED BY <1>1, <2>1, <2>2, <2>3, <2>4 DEF Step, Handle
<1>2. CASE UNCHANGED dispatch
  BY <1>2 DEF dispatch
<1>3. ASSUME NEW o \in Operators,
             OStep(o) \/ OCrash(o) \/ \E i \in DOMAIN dlq : Redrive(o, i)
      PROVE  UNCHANGED dispatch
  BY <1>3, OthersSteps DEF dispatch
<1>4. ASSUME NEW e \in Events, Redeliver(e)
      PROVE  UNCHANGED dispatch
  BY <1>4 DEF Redeliver, dispatch
<1> QED BY <1>1, <1>2, <1>3, <1>4 DEF Next, vars

(* How many calls are left where.                                          *)
LEMMA LeftAt ==
  ASSUME NEW w
  PROVE  /\ pc[w] = "check" => CallsLeft(w) = MaxAttempts + 4
         /\ pc[w] = "handle" => CallsLeft(w) = (MaxAttempts - attempt[w]) + 4
         /\ pc[w] = "store" => CallsLeft(w) = 3
         /\ pc[w] = "report" => CallsLeft(w) = 2
         /\ pc[w] \in {"bury", "complete"} => CallsLeft(w) = 1
         /\ pc[w] = "idle" => CallsLeft(w) = 0
  BY DEF CallsLeft

(* The same after a step.                                                  *)
LEMMA LeftAfter ==
  ASSUME NEW w
  PROVE  /\ pc'[w] = "handle" => CallsLeft(w)' = (MaxAttempts - attempt'[w]) + 4
         /\ pc'[w] = "store" => CallsLeft(w)' = 3
         /\ pc'[w] = "report" => CallsLeft(w)' = 2
         /\ pc'[w] \in {"bury", "complete"} => CallsLeft(w)' = 1
         /\ pc'[w] = "idle" => CallsLeft(w)' = 0
  BY DEF CallsLeft

(* Every call of a dispatch leaves fewer.                                  *)
LEMMA StepsNearer ==
  ASSUME TypeOK, Busy, Attempting, NEW w \in Workers, Step(w)
  PROVE  CallsLeft(w)' < CallsLeft(w)
<1>0. MaxAttempts \in Nat /\ attempt[w] \in 0 .. MaxAttempts
      /\ (pc[w] = "handle" => attempt[w] \in 1 .. MaxAttempts)
  BY AttemptsAssumption DEF TypeOK, Attempting
<1>1. CASE Check(w)
  <2>1. \/ pc'[w] = "idle"
        \/ pc'[w] = "handle" /\ attempt'[w] = 1
    BY <1>1 DEF Check, Return, Free, Goto, TypeOK
  <2> QED BY <1>0, <1>1, <2>1, LeftAt, LeftAfter DEF Check
<1>2. CASE HandleFails(w)
  <2>1. \/ pc'[w] = "store" /\ attempt[w] = MaxAttempts
        \/ pc'[w] = "handle" /\ attempt'[w] = attempt[w] + 1
    BY <1>2 DEF HandleFails, Goto, TypeOK
  <2>2. pc[w] = "handle"
    BY <1>2 DEF HandleFails
  <2> QED BY <1>0, <2>1, <2>2, LeftAt, LeftAfter
<1>3. CASE HandleSucceeds(w)
  <2>1. pc[w] = "handle" /\ pc'[w] = "complete"
    BY <1>3 DEF HandleSucceeds, Goto, TypeOK
  <2> QED BY <1>0, <2>1, LeftAt, LeftAfter
<1>4. CASE StoreLetter(w) \/ Report(w)
  <2>1. \/ pc[w] = "store" /\ pc'[w] = "report"
        \/ pc[w] = "report" /\ pc'[w] = "bury"
    BY <1>4 DEF StoreLetter, Report, Goto, TypeOK
  <2> QED BY <2>1, LeftAt, LeftAfter
<1>5. CASE Bury(w) \/ Complete(w)
  <2>1. pc[w] \in {"bury", "complete"} /\ pc'[w] = "idle"
    BY <1>5 DEF Bury, Complete, WriteState, Return, Free, Goto, TypeOK
  <2> QED BY <2>1, LeftAt, LeftAfter
<1> QED BY <1>1, <1>2, <1>3, <1>4, <1>5 DEF Step, Handle

(* Every dispatch ends: the calls left to a dispatcher are finitely many   *)
(* and get fewer with each it makes, whatever others do meanwhile, until a *)
(* new event is delivered to it.  What is left of the promise's liveness   *)
(* is that the dispatcher goes on at all, which is fairness.               *)
THEOREM DispatchEnds ==
  Spec => /\ [](\A w \in Workers : CallsLeft(w) \in Nat)
          /\ [][Nearer]_vars
<1>1. Init => Attempting
  BY DEF Init, Attempting
<1>2. Attempting /\ TypeOK /\ Busy /\ [Next]_vars => Attempting'
  BY NextAttempting
<1>3. TypeOK => \A w \in Workers : CallsLeft(w) \in Nat
  <2> SUFFICES ASSUME TypeOK, NEW w \in Workers PROVE CallsLeft(w) \in Nat
    OBVIOUS
  <2>1. pc[w] \in Calls /\ attempt[w] \in 0 .. MaxAttempts /\ MaxAttempts \in Nat
    BY AttemptsAssumption DEF TypeOK
  <2> QED BY <2>1, LeftAt DEF Calls
<1>4. ASSUME TypeOK, Busy, Attempting, [Next]_vars
      PROVE  [Nearer]_vars
  <2> SUFFICES ASSUME NEW w \in Workers, ~ UNCHANGED vars
               PROVE  /\ Step(w) => CallsLeft(w)' < CallsLeft(w)
                      /\ CallsLeft(w)' <= CallsLeft(w) \/ \E e \in Events : Deliver(w, e)
    BY DEF Nearer
  <2>1. CallsLeft(w) \in Nat
    BY <1>3, <1>4
  <2>2. CallsLeft(w)' \in Nat
    <3>1. TypeOK'
      BY <1>4, NextTypes
    <3>2. pc'[w] \in Calls /\ attempt'[w] \in 0 .. MaxAttempts /\ MaxAttempts \in Nat
      BY <3>1, AttemptsAssumption DEF TypeOK
    <3> QED BY <3>2, LeftAfter DEF Calls, CallsLeft
  <2>3. CASE Step(w)
    BY <1>4, <2>1, <2>2, <2>3, StepsNearer
  <2>4. CASE \E e \in Events : Deliver(w, e)
    <3>1. ~ Step(w)
      BY <2>4 DEF Deliver, Step, Handle, Check, HandleSucceeds, HandleFails, StoreLetter,
                  Report, Bury, Complete
    <3> QED BY <2>4, <3>1
  <2>5. CASE Crash(w) /\ ~ Step(w)
    <3>1. pc'[w] = "idle"
      BY <1>4, <2>5 DEF Crash, Free, Goto, TypeOK
    <3>2. CallsLeft(w)' = 0
      BY <3>1, LeftAfter
    <3> QED BY <2>1, <2>5, <3>2
  <2>6. CASE /\ ~ Step(w)
             /\ pc'[w] = pc[w] /\ attempt'[w] = attempt[w]
    <3>1. CallsLeft(w)' = CallsLeft(w)
      BY <2>6 DEF CallsLeft
    <3> QED BY <2>1, <2>6, <3>1
  <2>7. \/ Step(w) \/ Crash(w) \/ \E e \in Events : Deliver(w, e)
        \/ pc'[w] = pc[w] /\ attempt'[w] = attempt[w]
    <3>1. ASSUME NEW v \in Workers, v # w,
                 Step(v) \/ Crash(v) \/ \E e \in Events : Deliver(v, e)
          PROVE  pc'[w] = pc[w] /\ attempt'[w] = attempt[w]
      BY <1>4, <3>1 DEF Step, Handle, Check, HandleSucceeds, HandleFails, StoreLetter, Report,
                        Bury, Complete, WriteState, Return, Free, Crash, Deliver, Goto, TypeOK
    <3>2. ASSUME NEW o \in Operators,
                 OStep(o) \/ OCrash(o) \/ \E i \in DOMAIN dlq : Redrive(o, i)
          PROVE  pc'[w] = pc[w] /\ attempt'[w] = attempt[w]
      BY <3>2, OthersSteps DEF dispatch
    <3>3. ASSUME NEW e \in Events, Redeliver(e)
          PROVE  pc'[w] = pc[w] /\ attempt'[w] = attempt[w]
      BY <3>3 DEF Redeliver, dispatch
    <3> QED BY <1>4, <3>1, <3>2, <3>3 DEF Next
  <2> QED BY <2>3, <2>4, <2>5, <2>6, <2>7
<1> QED BY <1>1, <1>2, <1>3, <1>4, TypesHold, PTL DEF Spec
=============================================================================

--------------------------- MODULE ConsumerProofs ---------------------------
(***************************************************************************)
(* Proofs about Consumer, for any objects, generations, stray messages and *)
(* consumers, any batch size and any number of faults.                     *)
(***************************************************************************)
EXTENDS Consumer, FiniteSetTheorems, TLAPS

-----------------------------------------------------------------------------
(* TYPE CORRECTNESS                                                        *)

(* A consumer at work on a message holds one.                              *)
Holding ==
  \A c \in Consumers :
    pc[c] \in {"find", "append", "ingest", "invoke", "count"} => msg[c] \in Upload

(* The initial state is well typed.                                        *)
LEMMA InitTypes == Init => TypeOK /\ Holding
<1> SUFFICES ASSUME Init PROVE TypeOK /\ Holding
  OBVIOUS
<1>1. uploads \in [Objects -> 0 .. MaxGenerations]
  BY SizesAssumption DEF Init
<1>2. unacked \subseteq Message /\ leased \subseteq unacked
  BY DEF Init, Message
<1>3. /\ pc \in [Consumers -> Calls] /\ todo \in [Consumers -> SUBSET Message]
      /\ done \in [Consumers -> SUBSET Message] /\ msg \in [Consumers -> Upload \cup {None}]
  BY DEF Init, Calls
<1>4. log \in Seq(Upload) /\ hooked \in Seq(Upload) /\ Holding
  BY DEF Init, Holding
<1> QED BY <1>1, <1>2, <1>3, <1>4 DEF Init, TypeOK

(* The end of a message and the end of a batch keep the consumer's types.  *)
LEMMA LocalTypes ==
  ASSUME TypeOK, Holding, NEW c \in Consumers,
         (NextMessage(c) /\ msg[c] \in Upload /\ UNCHANGED todo) \/ NewBatch(c)
  PROVE  /\ pc' \in [Consumers -> Calls]
         /\ todo' \in [Consumers -> SUBSET Message]
         /\ done' \in [Consumers -> SUBSET Message]
         /\ msg' \in [Consumers -> Upload \cup {None}]
         /\ Holding'
<1>1. CASE NextMessage(c) /\ msg[c] \in Upload /\ UNCHANGED todo
  BY <1>1 DEF NextMessage, Goto, TypeOK, Holding, Calls, Message
<1>2. CASE NewBatch(c)
  BY <1>2 DEF NewBatch, Goto, TypeOK, Holding, Calls
<1> QED BY <1>1, <1>2

(* Every action keeps the types.                                           *)
LEMMA NextTypes == TypeOK /\ Holding /\ [Next]_vars => TypeOK' /\ Holding'
<1> SUFFICES ASSUME TypeOK, Holding, [Next]_vars
             PROVE  TypeOK' /\ Holding'
  OBVIOUS
<1> USE DEF TypeOK, Holding, Calls
<1>1. ASSUME NEW o \in Objects, UploadObject(o)
      PROVE  TypeOK' /\ Holding'
  <2>1. uploads[o] + 1 \in 1 .. MaxGenerations
    BY <1>1, SizesAssumption DEF UploadObject
  <2>2. [object |-> o, generation |-> uploads[o] + 1] \in Upload
    BY <2>1 DEF Upload
  <2>3. uploads' \in [Objects -> 0 .. MaxGenerations]
    BY <1>1, <2>1, SizesAssumption DEF UploadObject
  <2> QED BY <1>1, <2>2, <2>3 DEF UploadObject, Message, deal, local
<1>2. CASE Provision
  BY <1>2 DEF Provision, deal, local
<1>3. ASSUME NEW m \in leased, Expire(m)
      PROVE  TypeOK' /\ Holding'
  BY <1>3 DEF Expire, deal, local
<1>4. ASSUME NEW c \in Consumers, NEW batch \in SUBSET (unacked \ leased), Pull(c, batch)
      PROVE  TypeOK' /\ Holding'
  <2>1. todo' \in [Consumers -> SUBSET Message] /\ leased' \subseteq unacked
    BY <1>4 DEF Pull
  <2> QED BY <1>4, <2>1 DEF Pull, Goto, deal
<1>5. ASSUME NEW c \in Consumers, NEW m \in todo[c], Parse(c, m)
      PROVE  TypeOK' /\ Holding'
  <2>1. m \in Message /\ todo' \in [Consumers -> SUBSET Message]
    BY <1>5 DEF Parse
  <2>2. CASE m \in Strays
    <3>1. done' \in [Consumers -> SUBSET Message]
      BY <1>5, <2>1, <2>2 DEF Parse
    <3> QED BY <1>5, <2>1, <2>2, <3>1 DEF Parse, deal
  <2>3. CASE m \notin Strays
    <3>1. m \in Upload
      BY <2>1, <2>3 DEF Message
    <3> QED BY <1>5, <2>1, <2>3, <3>1 DEF Parse, Goto, deal
  <2> QED BY <2>2, <2>3
<1>6. ASSUME NEW c \in Consumers, FindDuplicate(c)
      PROVE  TypeOK' /\ Holding'
  <2>1. CASE NextMessage(c)
    <3>1. msg[c] \in Upload /\ UNCHANGED todo
      BY <1>6 DEF FindDuplicate
    <3>2. /\ pc' \in [Consumers -> Calls] /\ todo' \in [Consumers -> SUBSET Message]
          /\ done' \in [Consumers -> SUBSET Message]
          /\ msg' \in [Consumers -> Upload \cup {None}]
          /\ Holding'
      BY <2>1, <3>1, LocalTypes
    <3> QED BY <1>6, <3>2 DEF FindDuplicate, deal
  <2>2. CASE Goto(c, "append") /\ UNCHANGED <<done, msg>>
    BY <1>6, <2>2 DEF FindDuplicate, Goto, deal
  <2> QED BY <1>6, <2>1, <2>2 DEF FindDuplicate
<1>7. ASSUME NEW c \in Consumers, AppendEvent(c)
      PROVE  TypeOK' /\ Holding'
  BY <1>7 DEF AppendEvent, Goto
<1>8. ASSUME NEW c \in Consumers, Ingest(c)
      PROVE  TypeOK' /\ Holding'
  BY <1>8 DEF Ingest, Goto
<1>9. ASSUME NEW c \in Consumers, Invoke(c)
      PROVE  TypeOK' /\ Holding'
  BY <1>9 DEF Invoke, Goto
<1>10. ASSUME NEW c \in Consumers, Count(c) \/ CountRaises(c) \/ Acknowledge(c) \/ Fail(c)
       PROVE  TypeOK' /\ Holding'
  <2>1. (NextMessage(c) /\ msg[c] \in Upload /\ UNCHANGED todo) \/ NewBatch(c)
    BY <1>10 DEF Count, CountRaises, Acknowledge, Fail
  <2>2. /\ pc' \in [Consumers -> Calls] /\ todo' \in [Consumers -> SUBSET Message]
        /\ done' \in [Consumers -> SUBSET Message]
        /\ msg' \in [Consumers -> Upload \cup {None}]
        /\ Holding'
    BY <2>1, LocalTypes
  <2> QED BY <1>10, <2>2 DEF Count, CountRaises, Acknowledge, Fail, deal
<1>11. CASE UNCHANGED vars
  BY <1>11 DEF vars, deal, local
<1> HIDE DEF TypeOK, Holding, Calls
<1> QED
  BY <1>1, <1>2, <1>3, <1>4, <1>5, <1>6, <1>7, <1>8, <1>9, <1>10, <1>11 DEF Next, Step

LEMMA TypesHold == Spec => [](TypeOK /\ Holding)
  BY InitTypes, NextTypes, PTL DEF Spec

(* The consumer is type correct; in particular only unacknowledged         *)
(* messages are ever out with a consumer.                                  *)
THEOREM TypeCorrect == Spec => []TypeOK
  BY TypesHold, PTL

-----------------------------------------------------------------------------
(* WHAT IS ACKNOWLEDGED IS LOGGED                                          *)

(* Behind the append the message of a consumer is logged, and so is every  *)
(* message it is going to acknowledge.                                     *)
AcksBacked ==
  /\ AckedIsLogged
  /\ \A c \in Consumers :
       /\ pc[c] \in {"ingest", "invoke", "count"} => Logged(msg[c].object)
       /\ \A m \in done[c] : m \in Upload => Logged(m.object)

(* The log only grows, at its end.                                         *)
LEMMA LogSteps ==
  ASSUME TypeOK, Holding, [Next]_vars
  PROVE  \/ UNCHANGED log
         \/ \E c \in Consumers : AppendEvent(c)
<1>1. ASSUME NEW c \in Consumers, Step(c)
      PROVE  UNCHANGED log \/ AppendEvent(c)
  BY <1>1 DEF Step, Parse, FindDuplicate, Ingest, Invoke, Count, CountRaises, Acknowledge, deal
<1>2. ASSUME NEW c \in Consumers, Fail(c) \/ \E batch \in SUBSET (unacked \ leased) : Pull(c, batch)
      PROVE  UNCHANGED log
  BY <1>2 DEF Fail, Pull, deal
<1>3. ASSUME \/ \E o \in Objects : UploadObject(o)
             \/ Provision
             \/ \E m \in leased : Expire(m)
      PROVE  UNCHANGED log
  BY <1>3 DEF UploadObject, Provision, Expire, deal
<1> QED BY <1>1, <1>2, <1>3 DEF Next, vars, deal

LEMMA AppendedLog ==
  ASSUME TypeOK, Holding, NEW c \in Consumers, AppendEvent(c)
  PROVE  /\ msg[c] \in Upload
         /\ DOMAIN log' = DOMAIN log \cup {Len(log) + 1}
         /\ Len(log') = Len(log) + 1
         /\ \A i \in DOMAIN log : log'[i] = log[i]
         /\ log'[Len(log) + 1] = msg[c]
  BY DEF AppendEvent, TypeOK, Holding

LEMMA LoggedGrows ==
  ASSUME TypeOK, Holding, [Next]_vars, NEW o, Logged(o)
  PROVE  Logged(o)'
<1>1. CASE UNCHANGED log
  BY <1>1 DEF Logged, DedupeKey
<1>2. ASSUME NEW c \in Consumers, AppendEvent(c)
      PROVE  Logged(o)'
  BY <1>2, AppendedLog DEF Logged, DedupeKey
<1> QED BY <1>1, <1>2, LogSteps

LEMMA NextAcksBacked == TypeOK /\ Holding /\ AcksBacked /\ [Next]_vars => AcksBacked'
<1> SUFFICES ASSUME TypeOK, Holding, AcksBacked, [Next]_vars
             PROVE  AcksBacked'
  OBVIOUS
<1> USE DEF AcksBacked, AckedIsLogged
<1>0. \A o : Logged(o) => Logged(o)'
  BY LoggedGrows
<1> USE DEF TypeOK, Holding
<1>1. ASSUME NEW o \in Objects, UploadObject(o)
      PROVE  AcksBacked'
  <2>1. ASSUME NEW p \in Objects, NEW g \in 1 .. uploads'[p],
               [object |-> p, generation |-> g] \notin unacked'
        PROVE  Logged(p)
    <3>1. [object |-> p, generation |-> g] \notin unacked
      BY <1>1, <2>1 DEF UploadObject
    <3>2. g \in 1 .. uploads[p]
      BY <1>1, <2>1, SizesAssumption DEF UploadObject
    <3> QED BY <3>1, <3>2
  <2> QED BY <1>0, <1>1, <2>1 DEF UploadObject, local
<1>2. ASSUME Provision \/ \E m \in leased : Expire(m)
      PROVE  AcksBacked'
  BY <1>0, <1>2 DEF Provision, Expire, local
<1>3. ASSUME NEW c \in Consumers, NEW batch \in SUBSET (unacked \ leased), Pull(c, batch)
      PROVE  AcksBacked'
  BY <1>0, <1>3 DEF Pull, Goto
<1>4. ASSUME NEW c \in Consumers, NEW m \in todo[c], Parse(c, m)
      PROVE  AcksBacked'
  <2>1. CASE m \in Strays
    BY <1>0, <1>4, <2>1, MessagesAssumption DEF Parse
  <2>2. CASE m \notin Strays
    BY <1>0, <1>4, <2>2 DEF Parse, Goto
  <2> QED BY <2>1, <2>2
<1>5. ASSUME NEW c \in Consumers, FindDuplicate(c)
      PROVE  AcksBacked'
  <2>1. CASE Logged(DedupeKey(msg[c])) /\ NextMessage(c)
    BY <1>0, <1>5, <2>1 DEF FindDuplicate, NextMessage, Goto, DedupeKey
  <2>2. CASE Goto(c, "append") /\ UNCHANGED <<done, msg>>
    BY <1>0, <1>5, <2>2 DEF FindDuplicate, Goto
  <2> QED BY <1>5, <2>1, <2>2 DEF FindDuplicate
<1>6. ASSUME NEW c \in Consumers, AppendEvent(c)
      PROVE  AcksBacked'
  <2>1. Logged(msg[c].object)'
    <3>1. Len(log) + 1 \in DOMAIN log' /\ log'[Len(log) + 1] = msg[c] /\ msg'[c] = msg[c]
      BY <1>6, AppendedLog DEF AppendEvent
    <3> QED BY <3>1 DEF Logged, DedupeKey
  <2> QED BY <1>0, <1>6, <2>1 DEF AppendEvent, Goto
<1>7. ASSUME NEW c \in Consumers, Ingest(c) \/ Invoke(c)
      PROVE  AcksBacked'
  BY <1>0, <1>7 DEF Ingest, Invoke, Goto
<1>8. ASSUME NEW c \in Consumers, Count(c)
      PROVE  AcksBacked'
  BY <1>0, <1>8 DEF Count, NextMessage, Goto
<1>9. ASSUME NEW c \in Consumers, CountRaises(c) \/ Fail(c)
      PROVE  AcksBacked'
  <2>1. NewBatch(c) /\ UNCHANGED <<uploads, unacked>>
    BY <1>9 DEF CountRaises, Fail
  <2> QED BY <1>0, <2>1 DEF NewBatch, Goto
<1>10. ASSUME NEW c \in Consumers, Acknowledge(c)
       PROVE  AcksBacked'
  <2>1. ASSUME NEW p \in Objects, NEW g \in 1 .. uploads'[p],
               [object |-> p, generation |-> g] \notin unacked'
        PROVE  Logged(p)
    <3>1. CASE [object |-> p, generation |-> g] \in done[c]
      <4>1. g \in 1 .. MaxGenerations
        BY <1>10, SizesAssumption DEF Acknowledge
      <4>2. [object |-> p, generation |-> g] \in Upload
        BY <4>1 DEF Upload
      <4> QED BY <3>1, <4>2
    <3>2. CASE [object |-> p, generation |-> g] \notin done[c]
      BY <1>10, <2>1, <3>2 DEF Acknowledge
    <3> QED BY <3>1, <3>2
  <2> QED BY <1>0, <1>10, <2>1 DEF Acknowledge, NewBatch, Goto
<1>11. CASE UNCHANGED vars
  BY <1>0, <1>11 DEF vars, local
<1> HIDE DEF TypeOK, Holding, AcksBacked, AckedIsLogged
<1> QED
  BY <1>1, <1>2, <1>3, <1>4, <1>5, <1>6, <1>7, <1>8, <1>9, <1>10, <1>11 DEF Next, Step

(* No notification of an upload is acknowledged before an event with its   *)
(* key is in the log, whichever consumer acknowledges a batch and when.    *)
THEOREM AcknowledgedIsLogged == Spec => []AckedIsLogged
<1>1. Init => AcksBacked
  BY DEF Init, AcksBacked, AckedIsLogged
<1>2. Spec => []AcksBacked
  BY <1>1, TypesHold, NextAcksBacked, PTL DEF Spec
<1>3. AcksBacked => AckedIsLogged
  BY DEF AcksBacked
<1> QED BY <1>2, <1>3, PTL

-----------------------------------------------------------------------------
(* COUNTING CONSUMERS                                                      *)

\* The consumers before a call, and those of them at work on an object.
At(call) == {c \in Consumers : pc[c] = call}
AtOn(call, o) == {c \in At(call) : msg[c].object = o}

LEMMA AtFinite ==
  ASSUME NEW S \in SUBSET Consumers
  PROVE  IsFiniteSet(S) /\ Cardinality(S) \in Nat /\ Cardinality(S) <= Cardinality(Consumers)
<1>1. IsFiniteSet(S) /\ Cardinality(S) <= Cardinality(Consumers)
  BY ConsumersAssumption, FS_Subset
<1> QED BY <1>1, FS_CardinalityType

(* A set of consumers that one consumer leaves, or joins.                  *)
LEMMA OneLess ==
  ASSUME NEW S \in SUBSET Consumers, NEW c \in S
  PROVE  Cardinality(S \ {c}) = Cardinality(S) - 1
  BY AtFinite, FS_RemoveElement

LEMMA OneMore ==
  ASSUME NEW S \in SUBSET Consumers, NEW c \in Consumers, c \notin S
  PROVE  Cardinality(S \cup {c}) = Cardinality(S) + 1
  BY AtFinite, FS_AddElement

(* Who is before a call that makes up the stages' lead over each other     *)
(* changes only with the steps in and out of it.                           *)
LEMMA StageSteps ==
  ASSUME TypeOK, Holding, [Next]_vars
  PROVE  \/ /\ UNCHANGED <<Len(log), Len(hooked), invoked, counter>>
            /\ At("ingest")' \subseteq At("ingest")
            /\ At("invoke")' \subseteq At("invoke")
            /\ At("count")' \subseteq At("count")
         \/ \E c \in Consumers : AppendEvent(c) \/ Ingest(c) \/ Invoke(c) \/ Count(c)
<1> DEFINE Quiet == /\ UNCHANGED <<Len(log), Len(hooked), invoked, counter>>
                    /\ At("ingest")' \subseteq At("ingest")
                    /\ At("invoke")' \subseteq At("invoke")
                    /\ At("count")' \subseteq At("count")
<1> USE DEF TypeOK, At
<1>1. ASSUME \/ \E o \in Objects : UploadObject(o)
             \/ Provision
             \/ \E m \in leased : Expire(m)
      PROVE  Quiet
  BY <1>1 DEF UploadObject, Provision, Expire, local, deal
<1>2. ASSUME NEW c \in Consumers, NEW batch \in SUBSET (unacked \ leased), Pull(c, batch)
      PROVE  Quiet
  BY <1>2 DEF Pull, Goto, deal
<1>3. ASSUME NEW c \in Consumers, NEW m \in todo[c], Parse(c, m)
      PROVE  Quiet
  BY <1>3 DEF Parse, Goto, deal
<1>4. ASSUME NEW c \in Consumers, FindDuplicate(c)
      PROVE  Quiet
  BY <1>4 DEF FindDuplicate, NextMessage, Goto, deal
<1>5. ASSUME NEW c \in Consumers, CountRaises(c) \/ Acknowledge(c) \/ Fail(c)
      PROVE  Quiet
  <2>1. NewBatch(c) /\ UNCHANGED deal
    BY <1>5 DEF CountRaises, Acknowledge, Fail
  <2> QED BY <2>1 DEF NewBatch, Goto, deal
<1>6. ASSUME UNCHANGED vars
      PROVE  Quiet
  BY <1>6 DEF vars, local, deal
<1> HIDE DEF Quiet, TypeOK, At
<1>7. ASSUME NEW c \in Consumers, Step(c)
      PROVE  Quiet \/ AppendEvent(c) \/ Ingest(c) \/ Invoke(c) \/ Count(c)
  BY <1>3, <1>4, <1>5, <1>7 DEF Step
<1>8. Quiet \/ \E c \in Consumers : AppendEvent(c) \/ Ingest(c) \/ Invoke(c) \/ Count(c)
  BY <1>1, <1>2, <1>5, <1>6, <1>7 DEF Next
<1> QED BY <1>8 DEF Quiet

-----------------------------------------------------------------------------
(* THE STAGES KEEP THEIR ORDER                                             *)

(* Every stage is ahead of the next by at least the consumers in between.  *)
StagesLead ==
  /\ Len(hooked) + Cardinality(At("ingest")) <= Len(log)
  /\ invoked + Cardinality(At("invoke")) <= Len(hooked)
  /\ counter + Cardinality(At("count")) <= invoked

LEMMA NextStagesLead == TypeOK /\ Holding /\ StagesLead /\ [Next]_vars => StagesLead'
<1> SUFFICES ASSUME TypeOK, Holding, StagesLead, [Next]_vars
             PROVE  StagesLead'
  OBVIOUS
<1> DEFINE i == Cardinality(At("ingest"))    i2 == Cardinality(At("ingest")')
           v == Cardinality(At("invoke"))    v2 == Cardinality(At("invoke")')
           n == Cardinality(At("count"))     n2 == Cardinality(At("count")')
<1>1. /\ At("ingest") \in SUBSET Consumers /\ At("ingest")' \in SUBSET Consumers
      /\ At("invoke") \in SUBSET Consumers /\ At("invoke")' \in SUBSET Consumers
      /\ At("count") \in SUBSET Consumers /\ At("count")' \in SUBSET Consumers
  BY DEF At
<1>2. i \in Nat /\ i2 \in Nat /\ v \in Nat /\ v2 \in Nat /\ n \in Nat /\ n2 \in Nat
  BY <1>1, AtFinite
<1>3. Len(log) \in Nat /\ Len(hooked) \in Nat /\ invoked \in Nat /\ counter \in Nat
  BY DEF TypeOK
<1>4. Len(hooked) + i <= Len(log) /\ invoked + v <= Len(hooked) /\ counter + n <= invoked
  BY DEF StagesLead
<1> SUFFICES /\ Len(hooked') + i2 <= Len(log')
             /\ invoked' + v2 <= Len(hooked')
             /\ counter' + n2 <= invoked'
  BY DEF StagesLead
<1>5. CASE /\ UNCHANGED <<Len(log), Len(hooked), invoked, counter>>
           /\ At("ingest")' \subseteq At("ingest")
           /\ At("invoke")' \subseteq At("invoke")
           /\ At("count")' \subseteq At("count")
  <2>1. i2 <= i /\ v2 <= v /\ n2 <= n
    BY <1>1, <1>5, AtFinite, FS_Subset
  <2> HIDE DEF i, i2, v, v2, n, n2
  <2> QED BY <1>2, <1>3, <1>4, <1>5, <2>1
<1>6. ASSUME NEW c \in Consumers, AppendEvent(c)
      PROVE  /\ Len(hooked') + i2 <= Len(log')
             /\ invoked' + v2 <= Len(hooked')
             /\ counter' + n2 <= invoked'
  <2>1. /\ c \notin At("ingest") /\ At("ingest")' = At("ingest") \cup {c}
        /\ At("invoke")' = At("invoke") /\ At("count")' = At("count")
    BY <1>6 DEF AppendEvent, Goto, At, TypeOK
  <2>2. i2 = i + 1 /\ v2 = v /\ n2 = n
    BY <1>1, <2>1, OneMore
  <2>3. Len(log') = Len(log) + 1 /\ UNCHANGED <<hooked, invoked, counter>>
    BY <1>6, AppendedLog DEF AppendEvent
  <2> HIDE DEF i, i2, v, v2, n, n2
  <2> QED BY <1>2, <1>3, <1>4, <2>2, <2>3
<1>7. ASSUME NEW c \in Consumers, Ingest(c)
      PROVE  /\ Len(hooked') + i2 <= Len(log')
             /\ invoked' + v2 <= Len(hooked')
             /\ counter' + n2 <= invoked'
  <2>1. /\ c \in At("ingest") /\ At("ingest")' = At("ingest") \ {c}
        /\ c \notin At("invoke") /\ At("invoke")' = At("invoke") \cup {c}
        /\ At("count")' = At("count")
    BY <1>7 DEF Ingest, Goto, At, TypeOK
  <2>2. i2 = i - 1 /\ v2 = v + 1 /\ n2 = n
    BY <1>1, <2>1, OneMore, OneLess
  <2>3. Len(hooked') = Len(hooked) + 1 /\ UNCHANGED <<log, invoked, counter>>
    BY <1>7 DEF Ingest, TypeOK, Holding
  <2> HIDE DEF i, i2, v, v2, n, n2
  <2> QED BY <1>2, <1>3, <1>4, <2>2, <2>3
<1>8. ASSUME NEW c \in Consumers, Invoke(c)
      PROVE  /\ Len(hooked') + i2 <= Len(log')
             /\ invoked' + v2 <= Len(hooked')
             /\ counter' + n2 <= invoked'
  <2>1. /\ c \in At("invoke") /\ At("invoke")' = At("invoke") \ {c}
        /\ c \notin At("count") /\ At("count")' = At("count") \cup {c}
        /\ At("ingest")' = At("ingest")
    BY <1>8 DEF Invoke, Goto, At, TypeOK
  <2>2. i2 = i /\ v2 = v - 1 /\ n2 = n + 1
    BY <1>1, <2>1, OneMore, OneLess
  <2>3. invoked' = invoked + 1 /\ UNCHANGED <<log, hooked, counter>>
    BY <1>8 DEF Invoke
  <2> HIDE DEF i, i2, v, v2, n, n2
  <2> QED BY <1>2, <1>3, <1>4, <2>2, <2>3
<1>9. ASSUME NEW c \in Consumers, Count(c)
      PROVE  /\ Len(hooked') + i2 <= Len(log')
             /\ invoked' + v2 <= Len(hooked')
             /\ counter' + n2 <= invoked'
  <2>1. /\ c \in At("count") /\ At("count")' = At("count") \ {c}
        /\ At("ingest")' = At("ingest") /\ At("invoke")' = At("invoke")
    BY <1>9 DEF Count, NextMessage, Goto, At, TypeOK
  <2>2. i2 = i /\ v2 = v /\ n2 = n - 1
    BY <1>1, <2>1, OneLess
  <2>3. counter' = counter + 1 /\ UNCHANGED <<log, hooked, invoked>>
    BY <1>9 DEF Count
  <2> HIDE DEF i, i2, v, v2, n, n2
  <2> QED BY <1>2, <1>3, <1>4, <2>2, <2>3
<1> HIDE DEF i, i2, v, v2, n, n2
<1> QED BY <1>5, <1>6, <1>7, <1>8, <1>9, StageSteps

InLog(m) == \E j \in DOMAIN log : log[j] = m

(* The upload a consumer is about to ingest is in the log, with its own    *)
(* event.                                                                  *)
HookedLogged ==
  /\ \A i \in DOMAIN hooked : InLog(hooked[i])
  /\ \A c \in Consumers : pc[c] = "ingest" => InLog(msg[c])

LEMMA InLogLasts ==
  ASSUME TypeOK, Holding, [Next]_vars, NEW m, InLog(m)
  PROVE  InLog(m)'
<1>1. CASE UNCHANGED log
  BY <1>1 DEF InLog
<1>2. ASSUME NEW c \in Consumers, AppendEvent(c)
      PROVE  InLog(m)'
  BY <1>2, AppendedLog DEF InLog
<1> QED BY <1>1, <1>2, LogSteps

LEMMA NextHookedLogged == TypeOK /\ Holding /\ HookedLogged /\ [Next]_vars => HookedLogged'
<1> SUFFICES ASSUME TypeOK, Holding, HookedLogged, [Next]_vars
             PROVE  HookedLogged'
  OBVIOUS
<1>0. \A m : InLog(m) => InLog(m)'
  BY InLogLasts
<1> USE DEF HookedLogged, TypeOK, Holding
<1>1. ASSUME NEW c \in Consumers, AppendEvent(c)
      PROVE  HookedLogged'
  <2>1. InLog(msg[c])' /\ UNCHANGED <<hooked, msg>>
    <3>1. Len(log) + 1 \in DOMAIN log' /\ log'[Len(log) + 1] = msg[c] /\ UNCHANGED <<hooked, msg>>
      BY <1>1, AppendedLog DEF AppendEvent
    <3> QED BY <3>1 DEF InLog
  <2>2. \A i \in DOMAIN hooked' : InLog(hooked[i])'
    BY <1>0, <2>1 DEF InLog
  <2>3. ASSUME NEW d \in Consumers, pc'[d] = "ingest"
        PROVE  InLog(msg[d])'
    <3>1. CASE d = c
      BY <2>1, <3>1
    <3>2. CASE d # c
      <4>1. pc[d] = "ingest" /\ msg'[d] = msg[d]
        BY <1>1, <2>1, <2>3, <3>2 DEF AppendEvent, Goto
      <4>2. InLog(msg[d])
        BY <4>1
      <4> QED BY <1>0, <4>1, <4>2 DEF InLog
    <3> QED BY <3>1, <3>2
  <2> QED BY <2>2, <2>3
<1>2. ASSUME NEW c \in Consumers, Ingest(c)
      PROVE  HookedLogged'
  <2>1. InLog(msg[c])'
    BY <1>0, <1>2 DEF Ingest, InLog
  <2>2. /\ DOMAIN hooked' = DOMAIN hooked \cup {Len(hooked) + 1}
        /\ \A i \in DOMAIN hooked : hooked'[i] = hooked[i]
        /\ hooked'[Len(hooked) + 1] = msg[c]
    BY <1>2 DEF Ingest
  <2>3. \A i \in DOMAIN hooked' : \E j \in DOMAIN log' : log'[j] = hooked'[i]
    BY <1>0, <1>2, <2>1, <2>2 DEF Ingest, InLog
  <2>4. \A d \in Consumers : pc'[d] = "ingest" => InLog(msg[d])'
    BY <1>0, <1>2 DEF Ingest, Goto, InLog
  <2> QED BY <2>3, <2>4 DEF InLog
<1>3. ASSUME NEW c \in Consumers,
             FindDuplicate(c) \/ Invoke(c) \/ Count(c) \/ CountRaises(c)
               \/ Acknowledge(c) \/ Fail(c)
               \/ (\E m \in todo[c] : Parse(c, m))
               \/ (\E batch \in SUBSET (unacked \ leased) : Pull(c, batch))
      PROVE  HookedLogged'
  <2>1. UNCHANGED <<log, hooked>>
    BY <1>3 DEF Parse, FindDuplicate, Invoke, Count, CountRaises, Acknowledge, Fail, Pull, deal
  <2>2. \A d \in Consumers : pc'[d] = "ingest" => pc[d] = "ingest" /\ msg'[d] = msg[d]
    BY <1>3 DEF Parse, FindDuplicate, Invoke, Count, CountRaises, Acknowledge, Fail, Pull,
                NextMessage, NewBatch, Goto
  <2> QED BY <2>1, <2>2 DEF InLog
<1>4. ASSUME UNCHANGED <<log, hooked, pc, msg>>
      PROVE  HookedLogged'
  BY <1>4 DEF InLog
<1> HIDE DEF HookedLogged, TypeOK, Holding
<1>5. ASSUME \/ \E o \in Objects : UploadObject(o)
             \/ Provision
             \/ \E m \in leased : Expire(m)
             \/ UNCHANGED vars
      PROVE  HookedLogged'
  BY <1>4, <1>5 DEF UploadObject, Provision, Expire, vars, local, deal
<1> QED BY <1>1, <1>2, <1>3, <1>5 DEF Next, Step

(* The ingestion hook never gets an upload without its event, the agent    *)
(* never runs ahead of the hook, nor the deal's counter of the agent.      *)
THEOREM StagesInOrder == Spec => []StageOrder
<1>1. Init => StagesLead /\ HookedLogged
  <2> SUFFICES ASSUME Init PROVE StagesLead /\ HookedLogged
    OBVIOUS
  <2>1. At("ingest") = {} /\ At("invoke") = {} /\ At("count") = {}
    BY DEF Init, At
  <2>2. Cardinality({}) = 0
    BY FS_EmptySet
  <2>3. Cardinality(At("ingest")) = 0 /\ Cardinality(At("invoke")) = 0 /\ Cardinality(At("count")) = 0
    BY <2>1, <2>2
  <2> QED BY <2>3 DEF Init, StagesLead, HookedLogged
<1>2. Spec => [](StagesLead /\ HookedLogged)
  BY <1>1, TypesHold, NextStagesLead, NextHookedLogged, PTL DEF Spec
<1>3. TypeOK /\ StagesLead /\ HookedLogged => StageOrder
  <2> SUFFICES ASSUME TypeOK, StagesLead, HookedLogged PROVE StageOrder
    OBVIOUS
  <2>1. /\ Cardinality(At("ingest")) \in Nat /\ Cardinality(At("invoke")) \in Nat
        /\ Cardinality(At("count")) \in Nat
    BY AtFinite DEF At
  <2>2. counter <= invoked /\ invoked <= Len(hooked) /\ Len(hooked) <= Len(log)
    BY <2>1 DEF TypeOK, StagesLead
  <2> QED BY <2>2 DEF HookedLogged, InLog, StageOrder
<1> QED BY <1>2, <1>3, TypesHold, PTL

-----------------------------------------------------------------------------
(* A KEY HAS AT MOST ONE EVENT PER CONSUMER                                *)

(* Events of a key, and consumers past the duplicate check with it.        *)
RacesBounded ==
  \A o \in Objects :
    Cardinality(Entries(o)) + Cardinality(AtOn("append", o)) <= Cardinality(Consumers)

LEMMA EntriesFinite ==
  ASSUME TypeOK, NEW o
  PROVE  IsFiniteSet(Entries(o)) /\ Cardinality(Entries(o)) \in Nat
<1>1. DOMAIN log = 1 .. Len(log) /\ Len(log) \in Nat
  BY DEF TypeOK
<1>2. IsFiniteSet(1 .. Len(log))
  BY <1>1, FS_Interval
<1>3. Entries(o) \in SUBSET (1 .. Len(log))
  BY <1>1 DEF Entries
<1>4. IsFiniteSet(Entries(o))
  BY <1>2, <1>3, FS_Subset
<1> QED BY <1>4, FS_CardinalityType

(* A consumer passes the check only while its key has no event.            *)
LEMMA RaceSteps ==
  ASSUME TypeOK, Holding, [Next]_vars, NEW o \in Objects
  PROVE  \/ Entries(o)' = Entries(o) /\ AtOn("append", o)' \subseteq AtOn("append", o)
         \/ Entries(o)' = Entries(o) /\ Entries(o) = {}
         \/ \E c \in Consumers : AppendEvent(c) /\ msg[c].object = o
<1> DEFINE Quiet == Entries(o)' = Entries(o) /\ AtOn("append", o)' \subseteq AtOn("append", o)
           Raced == Entries(o)' = Entries(o) /\ Entries(o) = {}
<1>0. ASSUME UNCHANGED log PROVE Entries(o)' = Entries(o)
  BY <1>0 DEF Entries, DedupeKey
<1> USE DEF TypeOK, Holding, At, AtOn
<1>1. ASSUME \/ \E p \in Objects : UploadObject(p)
             \/ Provision
             \/ \E m \in leased : Expire(m)
             \/ UNCHANGED vars
      PROVE  Quiet
  BY <1>0, <1>1 DEF UploadObject, Provision, Expire, vars, local, deal
<1>2. ASSUME NEW c \in Consumers,
             (\E m \in todo[c] : Parse(c, m)) \/ Ingest(c) \/ Invoke(c) \/ Count(c)
               \/ CountRaises(c) \/ Acknowledge(c) \/ Fail(c)
               \/ (\E batch \in SUBSET (unacked \ leased) : Pull(c, batch))
      PROVE  Quiet
  <2>1. UNCHANGED log
    BY <1>2 DEF Parse, Ingest, Invoke, Count, CountRaises, Acknowledge, Fail, Pull, deal
  <2>2. \A d \in Consumers : pc'[d] = "append" => pc[d] = "append" /\ msg'[d] = msg[d]
    BY <1>2 DEF Parse, Ingest, Invoke, Count, CountRaises, Acknowledge, Fail, Pull,
                NextMessage, NewBatch, Goto
  <2> QED BY <1>0, <2>1, <2>2
<1>3. ASSUME NEW c \in Consumers, FindDuplicate(c)
      PROVE  Quiet \/ Raced
  <2>1. Entries(o)' = Entries(o)
    BY <1>0, <1>3 DEF FindDuplicate, deal
  <2>2. CASE NextMessage(c)
    BY <1>3, <2>1, <2>2 DEF NextMessage, Goto
  <2>3. CASE ~Logged(DedupeKey(msg[c])) /\ Goto(c, "append") /\ UNCHANGED msg /\ msg[c].object = o
    BY <2>1, <2>3 DEF Logged, Entries, DedupeKey
  <2>4. CASE Goto(c, "append") /\ UNCHANGED msg /\ msg[c].object # o
    BY <2>1, <2>4 DEF Goto
  <2> QED BY <1>3, <2>2, <2>3, <2>4 DEF FindDuplicate
<1>4. ASSUME NEW c \in Consumers, AppendEvent(c), msg[c].object # o
      PROVE  Quiet
  <2>1. Entries(o)' = Entries(o)
    BY <1>4, AppendedLog DEF Entries, DedupeKey
  <2> QED BY <1>4, <2>1 DEF AppendEvent, Goto
<1> HIDE DEF Quiet, Raced, TypeOK, Holding, At, AtOn
<1>5. ASSUME NEW c \in Consumers, Step(c)
      PROVE  Quiet \/ Raced \/ (AppendEvent(c) /\ msg[c].object = o)
  <2>1. CASE AppendEvent(c)
    BY <1>4, <2>1
  <2> QED BY <1>2, <1>3, <1>5, <2>1 DEF Step
<1>6. Quiet \/ Raced \/ \E c \in Consumers : AppendEvent(c) /\ msg[c].object = o
  BY <1>1, <1>2, <1>5 DEF Next
<1> QED BY <1>6 DEF Quiet, Raced

LEMMA NextRacesBounded == TypeOK /\ Holding /\ RacesBounded /\ [Next]_vars => RacesBounded'
<1> SUFFICES ASSUME TypeOK, Holding, RacesBounded, [Next]_vars, NEW o \in Objects
             PROVE  Cardinality(Entries(o)') + Cardinality(AtOn("append", o)') <= Cardinality(Consumers)
  BY DEF RacesBounded
<1> DEFINE e == Cardinality(Entries(o))         e2 == Cardinality(Entries(o)')
           a == Cardinality(AtOn("append", o))  a2 == Cardinality(AtOn("append", o)')
           all == Cardinality(Consumers)
<1>1. AtOn("append", o) \in SUBSET Consumers /\ AtOn("append", o)' \in SUBSET Consumers
  BY DEF AtOn, At
<1>2. a \in Nat /\ a2 \in Nat /\ a2 <= all /\ e \in Nat /\ all \in Nat /\ e + a <= all
  BY <1>1, AtFinite, EntriesFinite DEF RacesBounded
<1>3. CASE Entries(o)' = Entries(o) /\ AtOn("append", o)' \subseteq AtOn("append", o)
  <2>1. a2 <= a /\ e2 = e
    BY <1>1, <1>3, AtFinite, FS_Subset
  <2> HIDE DEF e, e2, a, a2, all
  <2>2. e2 + a2 <= all
    BY <1>2, <2>1
  <2> QED BY <2>2 DEF e2, a2, all
<1>4. CASE Entries(o)' = Entries(o) /\ Entries(o) = {}
  <2>1. e2 = 0
    BY <1>4, FS_EmptySet
  <2> HIDE DEF e, e2, a, a2, all
  <2>2. e2 + a2 <= all
    BY <1>2, <2>1
  <2> QED BY <2>2 DEF e2, a2, all
<1>5. ASSUME NEW c \in Consumers, AppendEvent(c), msg[c].object = o
      PROVE  e2 + a2 <= all
  <2>1. c \in AtOn("append", o) /\ AtOn("append", o)' = AtOn("append", o) \ {c}
    BY <1>5 DEF AppendEvent, Goto, AtOn, At, TypeOK
  <2>2. a2 = a - 1
    BY <1>1, <2>1, OneLess
  <2>3. Entries(o)' = Entries(o) \cup {Len(log) + 1}
    BY <1>5, AppendedLog DEF Entries, DedupeKey
  <2>4. Len(log) + 1 \notin Entries(o)
    BY DEF Entries, TypeOK
  <2>5. e2 = e + 1
    BY <2>3, <2>4, EntriesFinite, FS_AddElement
  <2> HIDE DEF e, e2, a, a2, all
  <2> QED BY <1>2, <2>2, <2>5
<1> QED BY <1>3, <1>4, <1>5, RaceSteps

(* However often a notification is delivered and its processing fails, its *)
(* key gets at most one event per consumer; with one consumer, at most one.*)
THEOREM RacesAreBounded == Spec => []EntriesBounded
<1>1. Init => RacesBounded
  <2> SUFFICES ASSUME Init, NEW o \in Objects
               PROVE  Cardinality(Entries(o)) + Cardinality(AtOn("append", o)) <= Cardinality(Consumers)
    BY DEF RacesBounded
  <2>1. Entries(o) = {} /\ AtOn("append", o) = {}
    BY DEF Init, Entries, AtOn, At
  <2>2. Cardinality(Entries(o)) = 0 /\ Cardinality(AtOn("append", o)) = 0
    BY <2>1, FS_EmptySet
  <2>3. Cardinality(Consumers) \in Nat
    BY AtFinite
  <2> QED BY <2>2, <2>3
<1>2. Spec => []RacesBounded
  BY <1>1, TypesHold, NextRacesBounded, PTL DEF Spec
<1>3. TypeOK /\ RacesBounded => EntriesBounded
  <2> SUFFICES ASSUME TypeOK, RacesBounded, NEW o \in Objects
               PROVE  Cardinality(Entries(o)) <= Cardinality(Consumers)
    BY DEF EntriesBounded
  <2>1. Cardinality(AtOn("append", o)) \in Nat /\ Cardinality(Entries(o)) \in Nat
    BY AtFinite, EntriesFinite DEF AtOn, At
  <2>2. Cardinality(Consumers) \in Nat
    BY AtFinite
  <2> QED BY <2>1, <2>2 DEF RacesBounded
<1> QED BY <1>2, <1>3, TypesHold, PTL
=============================================================================

-------------------------- MODULE TxnBuilderTheorems -------------------------
(***************************************************************************)
(* What the proofs about BuilderClient and TxnPipeline share: the types of *)
(* the builder's variables, how many payloads of a known type lie in a     *)
(* range, and the queue of payloads between the caller and the builder.    *)
(***************************************************************************)
EXTENDS TxnBuilder, GoChannelTheorems, FiniteSetTheorems

-----------------------------------------------------------------------------
(* Types.                                                                   *)

\* The initial states of the builder and its caller are well typed.
LEMMA BuilderInitTypes == BuilderInit => BuilderTypeOK
<1> SUFFICES ASSUME BuilderInit
             PROVE  BuilderTypeOK
  OBVIOUS
<1>1. payloads \in ChannelOf(Ids) /\ built \in ChannelOf(BuildResponse)
  BY NewChannelProperties DEF BuilderInit
<1> QED BY <1>1, BuilderAssumption DEF BuilderInit, BuilderTypeOK, BuildResponse

\* The caller's producer sends payload names only.
LEMMA ProducerKeepsTypes ==
  ASSUME BuilderTypeOK, Producer
  PROVE  BuilderTypeOK'
<1>1. CASE SendPayload
  <2>1. sent + 1 \in Ids
    BY <1>1, BuilderAssumption DEF SendPayload, BuilderTypeOK, Ids
  <2>2. payloads' \in ChannelOf(Ids)
    BY <1>1, <2>1, SentProperties DEF SendPayload, BuilderTypeOK
  <2> QED BY <1>1, <2>1, <2>2 DEF SendPayload, BuilderTypeOK, builderVars, Ids
<1>2. CASE ClosePayloads
  <2>1. payloads' \in ChannelOf(Ids)
    BY <1>2, ClosedProperties DEF ClosePayloads, BuilderTypeOK
  <2> QED BY <1>2, <2>1 DEF ClosePayloads, BuilderTypeOK, builderVars, callerVars
<1> QED BY <1>1, <1>2 DEF Producer

\* What the builder receives is a payload, and what it makes of it a response.
LEMMA TakePayloadTypes ==
  ASSUME BuilderTypeOK, HasMessage(payloads)
  PROVE  /\ NextMessage(payloads) \in Ids
         /\ Received(payloads) \in ChannelOf(Ids)
         /\ \A err \in BOOLEAN :
              [id |-> NextMessage(payloads), seq |-> snt, err |-> err] \in BuildResponse
<1>1. NextMessage(payloads) \in Ids /\ Received(payloads) \in ChannelOf(Ids)
  BY ReceivedProperties DEF BuilderTypeOK
<1> QED BY <1>1 DEF BuilderTypeOK, BuildResponse

\* The producer and the builder goroutine keep the types.
LEMMA BuilderKeepsTypes ==
  ASSUME BuilderTypeOK, Producer \/ Builder
  PROVE  BuilderTypeOK'
<1>1. CASE AccountFetched
  BY <1>1, BuilderAssumption DEF AccountFetched, BuilderTypeOK, callerVars
<1>2. CASE AccountFails
  BY <1>2 DEF AccountFails, BuilderTypeOK, callerVars, BuildResponse
<1>3. CASE SkipPayload
  BY <1>3, TakePayloadTypes DEF SkipPayload, BuilderTypeOK, callerVars
<1>4. CASE TakePayload
  <2>1. PICK err \in MayFail("build") :
          building' = [id |-> NextMessage(payloads), seq |-> snt, err |-> err]
    BY <1>4 DEF TakePayload
  <2>2. err \in BOOLEAN
    BY DEF MayFail
  <2>3. building' \in BuildResponse /\ payloads' \in ChannelOf(Ids)
    BY <1>4, <2>1, <2>2, TakePayloadTypes DEF TakePayload
  <2> QED BY <1>4, <2>3 DEF TakePayload, BuilderTypeOK, callerVars
<1>5. CASE SendBuilt
  <2>1. built' \in ChannelOf(BuildResponse)
    BY <1>5, SentProperties DEF SendBuilt, BuilderTypeOK
  <2> QED BY <1>5, <2>1 DEF SendBuilt, BuilderTypeOK, callerVars
<1>6. CASE CloseBuilt
  <2>1. built' \in ChannelOf(BuildResponse)
    BY <1>6, ClosedProperties DEF CloseBuilt, BuilderTypeOK
  <2> QED BY <1>6, <2>1 DEF CloseBuilt, BuilderTypeOK, callerVars
<1> QED BY <1>1, <1>2, <1>3, <1>4, <1>5, <1>6, ProducerKeepsTypes DEF Builder

-----------------------------------------------------------------------------
(* Counting the payloads that consume a sequence number.                    *)

\* Payloads a .. b of a known type.
Known(a, b) == Cardinality({i \in a .. b : kind[i] # "other"})

\* A range holds finitely many.
LEMMA KnownFinite ==
  ASSUME NEW a \in Nat, NEW b \in Int
  PROVE  IsFiniteSet({i \in a .. b : kind[i] # "other"})
<1> DEFINE S == {i \in a .. b : kind[i] # "other"}
<1>1. IsFiniteSet(a .. b)
  BY FS_Interval
<1>2. S \in SUBSET (a .. b)
  OBVIOUS
<1> HIDE DEF S
<1>3. IsFiniteSet(S)
  BY <1>1, <1>2, FS_Subset
<1> QED BY <1>3 DEF S

\* Their number is a natural number.
LEMMA KnownType ==
  ASSUME NEW a \in Nat, NEW b \in Int
  PROVE  Known(a, b) \in Nat
BY KnownFinite, FS_CardinalityType DEF Known

\* In an empty range there is none.
LEMMA KnownEmpty ==
  ASSUME NEW a \in Nat, NEW b \in Int, b < a
  PROVE  Known(a, b) = 0
<1>1. {i \in a .. b : kind[i] # "other"} = {}
  OBVIOUS
<1> QED BY <1>1, FS_EmptySet DEF Known

\* The next payload counts if its type is known.
LEMMA KnownNext ==
  ASSUME NEW a \in Nat, NEW b \in Int, a <= b + 1
  PROVE  Known(a, b + 1) = Known(a, b) + (IF kind[b + 1] = "other" THEN 0 ELSE 1)
<1> DEFINE S == {i \in a .. b : kind[i] # "other"}
           T == {i \in a .. b + 1 : kind[i] # "other"}
<1>1. IsFiniteSet(S)
  BY KnownFinite
<1>2. b + 1 \notin S
  OBVIOUS
<1>3. T = IF kind[b + 1] = "other" THEN S ELSE S \union {b + 1}
  OBVIOUS
<1>4. Cardinality(S \union {b + 1}) = Cardinality(S) + 1
  BY <1>1, <1>2, FS_AddElement
<1>5. Cardinality(S) \in Nat
  BY KnownType DEF Known
<1>6. Known(a, b) = Cardinality(S) /\ Known(a, b + 1) = Cardinality(T)
  BY DEF Known
<1> HIDE DEF S, T
<1> QED BY <1>3, <1>4, <1>5, <1>6

-----------------------------------------------------------------------------
(* The queue of payloads.                                                   *)

\* What is in the payloads channel are the payloads sent and not yet received,
\* in the order of their names: the next one to receive is taken + 1.
QueueInOrder == /\ taken + Len(payloads.buf) = sent
                /\ \A k \in DOMAIN payloads.buf : payloads.buf[k] = taken + k

\* At first nothing is sent.
LEMMA QueueInit == BuilderInit => QueueInOrder
<1> SUFFICES ASSUME BuilderInit
             PROVE  QueueInOrder
  OBVIOUS
<1>1. payloads.buf = <<>> /\ taken = 0 /\ sent = 0
  BY NewChannelProperties DEF BuilderInit
<1> QED BY <1>1 DEF QueueInOrder

\* The payload the builder receives next.
LEMMA QueueHead ==
  ASSUME BuilderTypeOK, QueueInOrder, HasMessage(payloads)
  PROVE  /\ NextMessage(payloads) = taken + 1
         /\ taken + 1 \in Ids
<1>1. /\ payloads.buf \in Seq(Ids) /\ payloads.buf # <<>>
      /\ NextMessage(payloads) = Head(payloads.buf)
  BY ReceivedProperties DEF BuilderTypeOK
<1>2. 1 \in DOMAIN payloads.buf /\ Head(payloads.buf) = payloads.buf[1]
      /\ Head(payloads.buf) \in Ids
  BY <1>1, TailProperties
<1> QED BY <1>1, <1>2 DEF QueueInOrder

\* Sending adds the next name at the end.
LEMMA QueueSend ==
  ASSUME BuilderTypeOK, QueueInOrder, SendPayload
  PROVE  QueueInOrder'
<1>1. sent + 1 \in Ids /\ sent' = sent + 1 /\ taken' = taken
  BY BuilderAssumption DEF SendPayload, BuilderTypeOK, Ids, builderVars
<1>2. /\ payloads.buf \in Seq(Ids)
      /\ payloads'.buf = Append(payloads.buf, sent + 1)
  BY <1>1, SentProperties DEF SendPayload, BuilderTypeOK
<1>3. /\ Len(payloads.buf) \in Nat
      /\ Len(payloads'.buf) = Len(payloads.buf) + 1
      /\ DOMAIN payloads.buf = 1 .. Len(payloads.buf)
      /\ DOMAIN payloads'.buf = 1 .. Len(payloads.buf) + 1
      /\ \A i \in DOMAIN payloads.buf : payloads'.buf[i] = payloads.buf[i]
      /\ payloads'.buf[Len(payloads.buf) + 1] = sent + 1
  BY <1>1, <1>2, AppendFacts
<1>4. taken + Len(payloads.buf) = sent /\ taken \in Nat
  BY DEF QueueInOrder, BuilderTypeOK
<1>5. \A k \in DOMAIN payloads'.buf : payloads'.buf[k] = taken + k
  <2>1. \A k \in DOMAIN payloads'.buf :
          k \in DOMAIN payloads.buf \/ k = Len(payloads.buf) + 1
    BY <1>3
  <2>2. \A k \in DOMAIN payloads.buf : payloads'.buf[k] = taken + k
    BY <1>3 DEF QueueInOrder
  <2> QED BY <1>3, <1>4, <2>1, <2>2
<1> QED BY <1>1, <1>3, <1>4, <1>5 DEF QueueInOrder

\* Receiving removes the first.
LEMMA QueueReceive ==
  ASSUME BuilderTypeOK, QueueInOrder, HasMessage(payloads),
         payloads' = Received(payloads), taken' = taken + 1, sent' = sent
  PROVE  QueueInOrder'
<1>1. /\ payloads.buf \in Seq(Ids) /\ payloads.buf # <<>>
      /\ payloads'.buf = Tail(payloads.buf)
  BY ReceivedProperties DEF BuilderTypeOK
<1>2. /\ Len(payloads.buf) \in Nat
      /\ Len(payloads'.buf) = Len(payloads.buf) - 1
      /\ DOMAIN payloads'.buf \subseteq Nat
      /\ \A i \in DOMAIN payloads'.buf :
           i + 1 \in DOMAIN payloads.buf /\ payloads'.buf[i] = payloads.buf[i + 1]
  BY <1>1, TailProperties
<1>3. taken + Len(payloads.buf) = sent /\ taken \in Nat /\ sent \in Nat
  BY DEF QueueInOrder, BuilderTypeOK
<1>4. taken' + Len(payloads'.buf) = sent'
  <2> DEFINE m == Len(payloads.buf)
             n == Len(payloads'.buf)
  <2>1. m \in Nat /\ n = m - 1 /\ taken + m = sent
    BY <1>2, <1>3
  <2> HIDE DEF m, n
  <2>2. taken' + n = sent'
    BY <1>3, <2>1
  <2> QED BY <2>2 DEF n
<1>5. ASSUME NEW k \in DOMAIN payloads'.buf
      PROVE  payloads'.buf[k] = taken' + k
  <2>1. payloads'.buf[k] = taken + (k + 1) /\ k \in Nat
    BY <1>2, <1>5 DEF QueueInOrder
  <2> QED BY <1>3, <2>1
<1> QED BY <1>4, <1>5 DEF QueueInOrder

\* No other step touches the queue.
LEMMA QueueStep ==
  ASSUME BuilderTypeOK, QueueInOrder, Producer \/ Builder
  PROVE  QueueInOrder'
<1>1. CASE SendPayload
  BY <1>1, QueueSend
<1>2. CASE ClosePayloads
  <2>1. payloads'.buf = payloads.buf
    BY <1>2, ClosedProperties DEF ClosePayloads, BuilderTypeOK
  <2> QED BY <1>2, <2>1 DEF ClosePayloads, builderVars, callerVars, QueueInOrder
<1>3. CASE SkipPayload \/ TakePayload
  BY <1>3, QueueReceive DEF SkipPayload, TakePayload, callerVars
<1>4. CASE AccountFetched \/ AccountFails \/ SendBuilt \/ CloseBuilt
  BY <1>4 DEF AccountFetched, AccountFails, SendBuilt, CloseBuilt, callerVars, QueueInOrder
<1> QED BY <1>1, <1>2, <1>3, <1>4 DEF Producer, Builder

\* Receiving a payload accepts it if its type is known, and else changes nothing.
LEMMA AcceptedNext ==
  ASSUME BuilderTypeOK, QueueInOrder, HasMessage(payloads),
         taken' = taken + 1, kind' = kind
  PROVE  /\ Accepted' = IF kind[NextMessage(payloads)] = "other" THEN Accepted
                        ELSE Accepted \union {taken + 1}
         /\ taken + 1 \notin Accepted
<1>1. NextMessage(payloads) = taken + 1 /\ taken \in Nat
  BY QueueHead DEF BuilderTypeOK
<1> QED BY <1>1 DEF Accepted
==============================================================================

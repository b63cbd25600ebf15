------------------------- MODULE BuilderClientProofs -------------------------
(***************************************************************************)
(* Proofs about BuilderClient for any number of payloads, any capacities,  *)
(* any account number, any faults and any numbers the caller may set.      *)
(***************************************************************************)
EXTENDS BuilderClient, TxnBuilderTheorems

clientVars == <<outputs, overrides, lastSet>>

-----------------------------------------------------------------------------
(* Type correctness.                                                        *)

\* Every variable keeps its type in every step of the builder and its caller.
THEOREM ClientTypeOK == Spec => []TypeOK
<1>1. Init => TypeOK
  BY BuilderInitTypes, BuilderAssumption, ClientAssumption DEF Init, TypeOK
<1>2. TypeOK /\ [Next]_vars => TypeOK'
  <2> SUFFICES ASSUME TypeOK, [Next]_vars
               PROVE  TypeOK'
    OBVIOUS
  <2>1. CASE (Producer \/ Builder) /\ UNCHANGED clientVars
    BY <2>1, BuilderKeepsTypes DEF TypeOK, clientVars
  <2>2. ASSUME NEW n \in NewNumbers, SetSequenceNumber(n)
        PROVE  TypeOK'
    BY <2>2, ClientAssumption DEF SetSequenceNumber, TypeOK, BuilderTypeOK, callerVars
  <2>3. CASE TakeBuilt
    <3>1. /\ NextMessage(built) \in BuildResponse
          /\ built' \in ChannelOf(BuildResponse)
      BY <2>3, ReceivedProperties DEF TakeBuilt, TypeOK, BuilderTypeOK
    <3>2. outputs' \in Seq(BuildResponse)
      BY <2>3, <3>1, AppendFacts DEF TakeBuilt, TypeOK
    <3> QED BY <2>3, <3>1, <3>2 DEF TakeBuilt, TypeOK, BuilderTypeOK, callerVars
  <2>4. CASE UNCHANGED vars
    BY <2>4 DEF vars, TypeOK, BuilderTypeOK, callerVars, builderVars
  <2> QED BY <2>1, <2>2, <2>3, <2>4 DEF Next, Finished, clientVars
<1> QED BY <1>1, <1>2, PTL DEF Spec

-----------------------------------------------------------------------------
(* What the builder has produced.                                           *)

Pending == IF builder \in {"send", "abort"} THEN <<building>> ELSE <<>>

\* Produced is a sequence of responses, in three parts.
LEMMA ProducedType ==
  ASSUME TypeOK
  PROVE  /\ outputs \in Seq(BuildResponse)
         /\ built.buf \in Seq(BuildResponse)
         /\ building \in BuildResponse
         /\ outputs \o built.buf \in Seq(BuildResponse)
         /\ Produced \in Seq(BuildResponse)
         /\ Produced = (outputs \o built.buf) \o Pending
<1>1. /\ outputs \in Seq(BuildResponse) /\ built.buf \in Seq(BuildResponse)
      /\ building \in BuildResponse
  BY DEF TypeOK, BuilderTypeOK, ChannelOf
<1>2. outputs \o built.buf \in Seq(BuildResponse) /\ Pending \in Seq(BuildResponse)
  BY <1>1, ConcatAppend DEF Pending
<1>3. (outputs \o built.buf) \o Pending \in Seq(BuildResponse)
  BY <1>2, ConcatAppend
<1> QED BY <1>1, <1>2, <1>3 DEF Produced, Pending

\* A response that the builder has just made comes last.
LEMMA ProducedNext ==
  ASSUME TypeOK, TypeOK', builder \notin {"send", "abort"}, builder' \in {"send", "abort"},
         built'.buf = built.buf, outputs' = outputs
  PROVE  Produced' = Append(Produced, building')
<1>1. Produced = outputs \o built.buf
  BY ProducedType, ConcatShort DEF Pending
<1>2. Produced' = (outputs \o built.buf) \o <<building'>>
  BY DEF Produced
<1>3. outputs \o built.buf \in Seq(BuildResponse) /\ building' \in BuildResponse
  BY ProducedType DEF TypeOK, BuilderTypeOK
<1> QED BY <1>1, <1>2, <1>3, ConcatShort

\* Sending a response on the channel keeps what was produced.
LEMMA ProducedSent ==
  ASSUME TypeOK, SendBuilt, outputs' = outputs
  PROVE  Produced' = Produced
<1>1. built'.buf = Append(built.buf, building)
  BY SentProperties DEF SendBuilt, TypeOK, BuilderTypeOK
<1>2. outputs \o Append(built.buf, building) = Append(outputs \o built.buf, building)
  BY ProducedType, ConcatAppend
<1>3. Pending = <<building>> /\ Pending' = <<>>
  BY DEF SendBuilt, Pending
<1>4. Append(outputs \o built.buf, building) = (outputs \o built.buf) \o <<building>>
  BY ProducedType, ConcatShort
<1>5. Append(outputs \o built.buf, building) \in Seq(BuildResponse)
  BY ProducedType, AppendFacts
<1>6. Append(outputs \o built.buf, building) \o <<>> = Append(outputs \o built.buf, building)
  BY <1>5, ConcatShort
<1> QED BY <1>1, <1>2, <1>3, <1>4, <1>6 DEF Produced, Pending

\* Receiving one takes it from the channel to the end of what was received.
LEMMA ProducedReceived ==
  ASSUME TypeOK, TakeBuilt
  PROVE  Produced' = Produced
<1>1. /\ built.buf \in Seq(BuildResponse) /\ built.buf # <<>>
      /\ built'.buf = Tail(built.buf) /\ outputs' = Append(outputs, Head(built.buf))
  BY ReceivedProperties DEF TakeBuilt, TypeOK, BuilderTypeOK
<1>2. outputs' \o built'.buf = outputs \o built.buf
  BY <1>1, ProducedType, ConcatHeadTail
<1>3. builder' = builder /\ building' = building
  BY DEF TakeBuilt
<1> QED BY <1>2, <1>3 DEF Produced

-----------------------------------------------------------------------------
(* The order of the responses.                                              *)

Ascending(s) == \A i, j \in DOMAIN s : i < j => s[i].id < s[j].id

\* One response for each accepted payload, in order; or the account error alone.
ProducedInOrder == \/ /\ builder \in {"init", "select", "send", "done"}
                      /\ Ascending(Produced)
                      /\ {Produced[i].id : i \in DOMAIN Produced} = Accepted
                   \/ /\ builder \in {"abort", "close", "done"}
                      /\ Produced = <<AccountError>>

OrderInv == /\ QueueInOrder
            /\ builder = "init" => taken = 0
            /\ ProducedInOrder

\* What a step that produces nothing has to leave alone.
LEMMA OrderStays ==
  ASSUME OrderInv, QueueInOrder', Produced' = Produced, Accepted' = Accepted,
         \/ builder' = builder /\ taken' = taken
         \/ builder' \in {"select", "done"} /\ builder \in {"init", "select", "send"}
         \/ builder' \in {"close", "done"} /\ builder \in {"abort", "close"}
  PROVE  OrderInv'
BY DEF OrderInv, ProducedInOrder, Ascending

\* Responses are made in the order of the payloads.
LEMMA OrderStep ==
  ASSUME TypeOK, TypeOK', OrderInv, [Next]_vars
  PROVE  OrderInv'
<1>1. CASE (Producer \/ Builder) /\ UNCHANGED clientVars
  <2>1. QueueInOrder' /\ outputs' = outputs
    BY <1>1, QueueStep DEF TypeOK, OrderInv, clientVars
  <2>2. CASE Producer \/ AccountFetched \/ CloseBuilt
    <3>1. UNCHANGED <<kind, taken>>
      BY <2>2 DEF Producer, SendPayload, ClosePayloads, AccountFetched, CloseBuilt,
         callerVars, builderVars
    <3>2. built'.buf = built.buf
      BY <2>2, ClosedProperties
         DEF Producer, SendPayload, ClosePayloads, AccountFetched, CloseBuilt, builderVars,
             TypeOK, BuilderTypeOK
    <3>3. \/ UNCHANGED <<builder, building>>
          \/ builder = "init" /\ builder' = "select"
          \/ builder \in {"select", "close"} /\ builder' = "done"
      BY <2>2 DEF Producer, SendPayload, ClosePayloads, AccountFetched, CloseBuilt, builderVars
    <3>4. Produced' = Produced
      BY <2>1, <3>2, <3>3 DEF Produced
    <3>5. Accepted' = Accepted
      BY <3>1 DEF Accepted
    <3> QED BY <2>1, <3>1, <3>3, <3>4, <3>5, OrderStays
  <2>3. CASE AccountFails
    <3>1. /\ builder = "init" /\ builder' = "abort" /\ building' = AccountError
          /\ built' = built /\ UNCHANGED <<kind, taken>>
      BY <2>3 DEF AccountFails, callerVars
    <3>2. Produced' = Append(Produced, AccountError)
      BY <2>1, <3>1, ProducedNext
    <3>3. Accepted = {}
      BY <3>1 DEF OrderInv, Accepted
    <3>4. Produced = <<>>
      <4>1. DOMAIN Produced = {}
        BY <3>1, <3>3 DEF OrderInv, ProducedInOrder
      <4> QED BY <4>1, ProducedType
    <3>5. Produced' = <<AccountError>>
      BY <3>2, <3>4
    <3> QED BY <2>1, <3>1, <3>5 DEF OrderInv, ProducedInOrder
  <2>4. CASE SkipPayload
    <3>1. /\ UNCHANGED <<builder, building, built, kind>> /\ builder = "select"
          /\ Accepted' = Accepted
      BY <2>4, AcceptedNext DEF SkipPayload, OrderInv, TypeOK, callerVars
    <3>2. Produced' = Produced
      BY <2>1, <3>1 DEF Produced
    <3> QED BY <2>1, <3>1, <3>2, OrderStays
  <2>5. CASE TakePayload
    <3>1. /\ builder = "select" /\ builder' = "send" /\ built' = built
          /\ building'.id = NextMessage(payloads)
      BY <2>5 DEF TakePayload
    <3>2. NextMessage(payloads) = taken + 1
      BY <2>5, QueueHead DEF TakePayload, OrderInv, TypeOK
    <3>3. Accepted' = Accepted \union {taken + 1} /\ \A i \in Accepted : i < taken + 1
      <4>1. Accepted' = Accepted \union {taken + 1}
        BY <2>5, <3>2, AcceptedNext DEF TakePayload, OrderInv, TypeOK, callerVars
      <4>2. \A i \in Accepted : i < taken + 1
        BY DEF Accepted, TypeOK, BuilderTypeOK
      <4> QED BY <4>1, <4>2
    <3>4. Produced' = Append(Produced, building')
      BY <2>1, <3>1, ProducedNext
    <3>5. /\ DOMAIN Produced = 1 .. Len(Produced) /\ Len(Produced) \in Nat
          /\ DOMAIN Produced' = 1 .. Len(Produced) + 1
          /\ \A i \in DOMAIN Produced : Produced'[i] = Produced[i]
          /\ Produced'[Len(Produced) + 1] = building'
      <4>1. Produced \in Seq(BuildResponse) /\ building' \in BuildResponse
        BY ProducedType DEF TypeOK, BuilderTypeOK
      <4> QED BY <3>4, <4>1, AppendFacts
    <3>6. /\ Ascending(Produced)
          /\ {Produced[i].id : i \in DOMAIN Produced} = Accepted
      BY <3>1 DEF OrderInv, ProducedInOrder
    <3> DEFINE last == Len(Produced) + 1
    <3>7. /\ DOMAIN Produced' = DOMAIN Produced \union {last}
          /\ Produced'[last].id = taken + 1
          /\ \A i \in DOMAIN Produced : Produced'[i].id = Produced[i].id
          /\ \A i \in DOMAIN Produced : ~(last < i)
          /\ ~(last < last)
      BY <3>1, <3>2, <3>5
    <3> HIDE DEF last
    <3>8. {Produced'[i].id : i \in DOMAIN Produced'} = Accepted'
      BY <3>3, <3>6, <3>7
    <3>9. \A i, j \in DOMAIN Produced' : i < j => Produced'[i].id < Produced'[j].id
      <4>1. \A i \in DOMAIN Produced : Produced[i].id < taken + 1
        BY <3>3, <3>6
      <4> QED BY <3>6, <3>7, <4>1 DEF Ascending
    <3> QED BY <2>1, <3>1, <3>8, <3>9 DEF OrderInv, ProducedInOrder, Ascending
  <2>6. CASE SendBuilt
    <3>1. UNCHANGED <<kind, taken>> /\ Produced' = Produced
      BY <2>1, <2>6, ProducedSent DEF SendBuilt, callerVars
    <3>2. \/ builder = "send" /\ builder' = "select"
          \/ builder = "abort" /\ builder' = "close"
      BY <2>6 DEF SendBuilt
    <3>3. Accepted' = Accepted
      BY <3>1 DEF Accepted
    <3> QED BY <2>1, <3>1, <3>2, <3>3, OrderStays
  <2> QED BY <1>1, <2>2, <2>3, <2>4, <2>5, <2>6 DEF Builder
<1>2. CASE TakeBuilt \/ UNCHANGED vars \/ \E n \in NewNumbers : SetSequenceNumber(n)
  <2>1. UNCHANGED <<kind, taken, builder, sent, payloads>>
    BY <1>2 DEF TakeBuilt, SetSequenceNumber, vars, callerVars, builderVars
  <2>2. Produced' = Produced
    <3>1. CASE TakeBuilt
      BY <3>1, ProducedReceived
    <3>2. CASE UNCHANGED vars \/ \E n \in NewNumbers : SetSequenceNumber(n)
      BY <3>2 DEF SetSequenceNumber, vars, builderVars, Produced
    <3> QED BY <1>2, <3>1, <3>2
  <2>3. QueueInOrder' /\ Accepted' = Accepted
    BY <2>1 DEF OrderInv, QueueInOrder, Accepted
  <2> QED BY <2>1, <2>2, <2>3, OrderStays
<1> QED BY <1>1, <1>2 DEF Next, Finished, clientVars

\* At first nothing was produced.
LEMMA InitOrder == Init => OrderInv
<1> SUFFICES ASSUME Init
             PROVE  OrderInv
  OBVIOUS
<1>1. built.buf = <<>> /\ outputs = <<>> /\ builder = "init" /\ taken = 0
  BY NewChannelProperties DEF Init, BuilderInit
<1>2. Produced = <<>>
  BY <1>1 DEF Produced
<1>3. Accepted = {}
  BY <1>1 DEF Accepted
<1>4. QueueInOrder
  BY QueueInit DEF Init
<1> QED BY <1>1, <1>2, <1>3, <1>4 DEF OrderInv, ProducedInOrder, Ascending

\* The invariant behind AnsweredInOrder, which also covers the states in between.
THEOREM ClientOrder == Spec => []OrderInv
<1>1. TypeOK /\ TypeOK' /\ OrderInv /\ [Next]_vars => OrderInv'
  BY OrderStep
<1> QED BY <1>1, InitOrder, ClientTypeOK, PTL DEF Spec

\* Whatever the capacity of the channel and however the reader is scheduled, the
\* built transactions come in the order of their payloads, one for each payload of
\* a known type: a caller may match them by position.
THEOREM ClientAnsweredInOrder == Spec => []AnsweredInOrder
<1>1. OrderInv => AnsweredInOrder
  BY DEF OrderInv, ProducedInOrder, AnsweredInOrder, Ascending
<1> QED BY <1>1, ClientOrder, PTL

-----------------------------------------------------------------------------
(* The sequence numbers.                                                    *)

\* The number that a payload at place i gets, counted from the last number set.
NumberAt(i) == lastSet.number + Known(lastSet.after + 1, i - 1)

\* The tracker counts on from the last number set, the account's own at first.
OverrideInv ==
  /\ lastSet.after <= taken
  /\ builder = "init" => lastSet = [number |-> StartNumber, after |-> 0]
  /\ builder \in {"select", "send"} => snt = NumberAt(taken + 1)
  /\ \A k \in DOMAIN Produced :
       Produced[k].id > lastSet.after => Produced[k].seq = NumberAt(Produced[k].id)

\* Counting from the place where the number was set gives the number itself.
LEMMA NumberAtStart ==
  ASSUME TypeOK
  PROVE  NumberAt(lastSet.after + 1) = lastSet.number
<1> DEFINE after == lastSet.after
<1>1. after \in Nat /\ lastSet.number \in Nat
  BY DEF TypeOK
<1> HIDE DEF after
<1>2. Known(after + 1, (after + 1) - 1) = 0
  BY <1>1, KnownEmpty
<1> QED BY <1>1, <1>2 DEF NumberAt, after

\* Each payload of a known type after it moves the number on by one.
LEMMA NumberAtNext ==
  ASSUME TypeOK, lastSet.after <= taken
  PROVE  NumberAt(taken + 1 + 1)
           = NumberAt(taken + 1) + (IF kind[taken + 1] = "other" THEN 0 ELSE 1)
<1> DEFINE after == lastSet.after
           i == taken
<1>1. after + 1 \in Nat /\ lastSet.number \in Nat /\ i \in Nat /\ after + 1 <= i + 1
  BY DEF TypeOK, BuilderTypeOK
<1> HIDE DEF after, i
<1>2. (i + 1) - 1 = i /\ (i + 1 + 1) - 1 = i + 1 /\ i \in Int
  BY <1>1
<1>3. Known(after + 1, i + 1) = Known(after + 1, i) + (IF kind[i + 1] = "other" THEN 0 ELSE 1)
  BY <1>1, <1>2, KnownNext
<1>4. Known(after + 1, i) \in Nat
  BY <1>1, <1>2, KnownType
<1>5. NumberAt(i + 1) = lastSet.number + Known(after + 1, i)
  BY <1>2 DEF NumberAt, after
<1>6. NumberAt(i + 1 + 1) = lastSet.number + Known(after + 1, i + 1)
  BY <1>2 DEF NumberAt, after
<1> QED BY <1>1, <1>3, <1>4, <1>5, <1>6 DEF i

\* A response is about a payload received, or about the account.
LEMMA ProducedIds ==
  ASSUME TypeOK, OrderInv
  PROVE  \A k \in DOMAIN Produced : Produced[k].id <= taken
<1>1. taken \in Nat
  BY DEF TypeOK, BuilderTypeOK
<1>2. \A i \in Accepted : i <= taken
  BY <1>1 DEF Accepted
<1>3. CASE {Produced[i].id : i \in DOMAIN Produced} = Accepted
  BY <1>2, <1>3
<1>4. CASE Produced = <<AccountError>>
  <2>1. \A k \in DOMAIN Produced : Produced[k] = AccountError
    BY <1>4
  <2> QED BY <1>1, <2>1 DEF AccountError
<1> QED BY <1>3, <1>4 DEF OrderInv, ProducedInOrder

\* At first the account's number is the last number set.
LEMMA InitOverride == Init => OverrideInv
<1> SUFFICES ASSUME Init
             PROVE  OverrideInv
  OBVIOUS
<1>1. built.buf = <<>> /\ outputs = <<>> /\ builder = "init" /\ taken = 0
  BY NewChannelProperties DEF Init, BuilderInit
<1>2. Produced = <<>>
  BY <1>1 DEF Produced
<1>3. lastSet = [number |-> StartNumber, after |-> 0]
  BY DEF Init
<1> QED BY <1>1, <1>2, <1>3 DEF OverrideInv

\* A step that neither takes a payload nor sets a number.
LEMMA OverrideStays ==
  ASSUME OverrideInv, Produced' = Produced, UNCHANGED <<kind, taken, lastSet>>,
         \/ UNCHANGED <<builder, snt>>
         \/ builder = "send" /\ snt' = snt /\ builder' # "init"
         \/ builder' \in {"abort", "close", "done"}
  PROVE  OverrideInv'
<1>1. \A i : NumberAt(i)' = NumberAt(i)
  BY DEF NumberAt, Known
<1> QED BY <1>1 DEF OverrideInv

\* A number set replaces the tracker's, and no response is yet counted from it.
LEMMA SetNumberStep ==
  ASSUME TypeOK, TypeOK', OrderInv, OverrideInv, NEW n \in NewNumbers, SetSequenceNumber(n)
  PROVE  OverrideInv'
<1>1. /\ snt' = n /\ lastSet' = [number |-> n, after |-> taken]
      /\ UNCHANGED <<builder, taken, building, built, outputs>> /\ builder = "select"
  BY DEF SetSequenceNumber
<1>2. Produced' = Produced
  BY <1>1 DEF Produced
<1>3. \A i : NumberAt(i)' = n + Known(taken + 1, i - 1)
  BY <1>1 DEF SetSequenceNumber, callerVars, NumberAt, Known
<1>4. snt' = NumberAt(taken + 1)'
  <2>1. taken \in Nat /\ n \in Nat
    BY ClientAssumption DEF TypeOK, BuilderTypeOK
  <2>2. Known(taken + 1, (taken + 1) - 1) = 0
    BY <2>1, KnownEmpty
  <2>3. NumberAt(taken + 1)' = n + 0
    BY <1>1, <1>3, <2>2
  <2> QED BY <1>1, <2>1, <2>3
<1>5. \A k \in DOMAIN Produced' : ~(Produced'[k].id > lastSet'.after)
  <2>1. \A k \in DOMAIN Produced : Produced[k].id <= taken
    BY ProducedIds
  <2>2. \A k \in DOMAIN Produced : Produced[k].id \in Nat
    <3>1. \A k \in DOMAIN Produced : Produced[k] \in BuildResponse
      BY ProducedType
    <3> QED BY <3>1 DEF BuildResponse, AccountError, Ids
  <2>3. lastSet'.after = taken /\ taken \in Nat
    BY <1>1 DEF TypeOK, BuilderTypeOK
  <2> QED BY <1>2, <2>1, <2>2, <2>3
<1> QED BY <1>1, <1>4, <1>5 DEF OverrideInv, TypeOK, BuilderTypeOK

\* The number of a payload is the tracker's, which moves on for known types only.
LEMMA PayloadStep ==
  ASSUME TypeOK, TypeOK', OrderInv, OverrideInv, SkipPayload \/ TakePayload, UNCHANGED clientVars
  PROVE  OverrideInv'
<1>1. /\ builder = "select" /\ taken' = taken + 1 /\ taken \in Nat /\ lastSet.after \in Nat
      /\ NextMessage(payloads) = taken + 1 /\ kind' = kind /\ built' = built
  BY QueueHead DEF SkipPayload, TakePayload, callerVars, TypeOK, BuilderTypeOK, OrderInv
<1>2. lastSet' = lastSet /\ outputs' = outputs
  BY DEF clientVars
<1>3. \A i : NumberAt(i)' = NumberAt(i)
  BY <1>1, <1>2 DEF NumberAt, Known
<1>4. snt = NumberAt(taken + 1) /\ lastSet.after <= taken
  BY <1>1 DEF OverrideInv
<1>5. lastSet'.after <= taken'
  BY <1>1, <1>2, <1>4
<1>6. NumberAt(taken + 1 + 1)
        = NumberAt(taken + 1) + (IF kind[taken + 1] = "other" THEN 0 ELSE 1)
  BY <1>4, NumberAtNext
<1>7. CASE SkipPayload
  <2>1. /\ kind[taken + 1] = "other" /\ UNCHANGED <<builder, snt, building>>
        /\ snt \in Nat
    BY <1>1, <1>7 DEF SkipPayload, TypeOK, BuilderTypeOK
  <2>2. Produced' = Produced
    BY <1>1, <1>2, <2>1 DEF Produced
  <2>3. snt' = NumberAt(taken + 1)'
    BY <1>1, <1>3, <1>4, <1>6, <2>1
  <2> QED BY <1>1, <1>2, <1>3, <1>5, <2>1, <2>2, <2>3 DEF OverrideInv
<1>8. CASE TakePayload
  <2>1. /\ kind[taken + 1] # "other" /\ builder' = "send" /\ snt' = snt + 1
        /\ building'.id = taken + 1 /\ building'.seq = snt
    BY <1>1, <1>8 DEF TakePayload
  <2>2. snt' = NumberAt(taken + 1)'
    BY <1>1, <1>3, <1>4, <1>6, <2>1
  <2>3. Produced' = Append(Produced, building')
    BY <1>1, <1>2, <2>1, ProducedNext
  <2>4. Produced \in Seq(BuildResponse) /\ building' \in BuildResponse
    BY ProducedType DEF TypeOK, BuilderTypeOK
  <2>5. \A k \in DOMAIN Produced' :
          \/ k \in DOMAIN Produced /\ Produced'[k] = Produced[k]
          \/ Produced'[k] = building'
    BY <2>3, <2>4, AppendFacts
  <2>6. \A k \in DOMAIN Produced' :
          Produced'[k].id > lastSet'.after => Produced'[k].seq = NumberAt(Produced[k].id)'
    BY <1>2, <1>3, <1>4, <2>1, <2>5 DEF OverrideInv
  <2> QED BY <1>5, <2>1, <2>2, <2>6 DEF OverrideInv
<1> QED BY <1>7, <1>8

\* Every step keeps the count.
LEMMA OverrideStep ==
  ASSUME TypeOK, TypeOK', OrderInv, OverrideInv, [Next]_vars
  PROVE  OverrideInv'
<1>1. CASE (SkipPayload \/ TakePayload) /\ UNCHANGED clientVars
  BY <1>1, PayloadStep
<1>2. CASE AccountFetched /\ UNCHANGED clientVars
  <2>1. /\ builder = "init" /\ builder' = "select" /\ snt' = StartNumber
        /\ UNCHANGED <<kind, taken, built, outputs, lastSet>> /\ taken = 0
    BY <1>2 DEF AccountFetched, callerVars, clientVars, OrderInv
  <2>2. Produced' = Produced
    BY <2>1 DEF Produced
  <2>3. NumberAt(lastSet.after + 1) = lastSet.number
    BY NumberAtStart
  <2>4. lastSet.after = 0 /\ lastSet.number = StartNumber
    BY <2>1 DEF OverrideInv
  <2>5. snt' = NumberAt(taken + 1)
    BY <2>1, <2>3, <2>4
  <2>6. \A i : NumberAt(i)' = NumberAt(i)
    BY <2>1 DEF NumberAt, Known
  <2> QED BY <2>1, <2>2, <2>5, <2>6 DEF OverrideInv
<1>3. CASE AccountFails /\ UNCHANGED clientVars
  <2>1. /\ builder = "init" /\ builder' = "abort" /\ building' = AccountError
        /\ UNCHANGED <<kind, taken, built, outputs, lastSet>>
    BY <1>3 DEF AccountFails, callerVars, clientVars
  <2>2. Produced' = Append(Produced, AccountError)
    BY <2>1, ProducedNext
  <2>3. Produced \in Seq(BuildResponse) /\ AccountError \in BuildResponse
    BY ProducedType DEF BuildResponse
  <2>4. \A k \in DOMAIN Produced' :
          \/ k \in DOMAIN Produced /\ Produced'[k] = Produced[k]
          \/ Produced'[k] = AccountError
    BY <2>2, <2>3, AppendFacts
  <2>5. AccountError.id = 0 /\ lastSet.after \in Nat
    BY DEF AccountError, TypeOK
  <2>6. \A i : NumberAt(i)' = NumberAt(i)
    BY <2>1 DEF NumberAt, Known
  <2> QED BY <2>1, <2>4, <2>5, <2>6 DEF OverrideInv
<1>4. CASE (Producer \/ SendBuilt \/ CloseBuilt) /\ UNCHANGED clientVars
  <2>1. UNCHANGED <<kind, taken, lastSet, outputs, snt, building>>
    BY <1>4 DEF Producer, SendPayload, ClosePayloads, SendBuilt, CloseBuilt, callerVars,
       builderVars, clientVars
  <2>2. \/ builder' = builder
        \/ builder = "send" /\ builder' = "select"
        \/ builder' \in {"close", "done"}
    BY <1>4 DEF Producer, SendPayload, ClosePayloads, SendBuilt, CloseBuilt, builderVars
  <2>3. Produced' = Produced
    <3>1. CASE SendBuilt
      BY <2>1, <3>1, ProducedSent
    <3>2. CASE CloseBuilt
      <4>1. built'.buf = built.buf
        BY <3>2, ClosedProperties DEF CloseBuilt, TypeOK, BuilderTypeOK
      <4> QED BY <2>1, <3>2, <4>1 DEF CloseBuilt, Produced
    <3>3. CASE Producer
      BY <2>1, <3>3 DEF Producer, SendPayload, ClosePayloads, builderVars, Produced
    <3> QED BY <1>4, <3>1, <3>2, <3>3
  <2> QED BY <2>1, <2>2, <2>3, OverrideStays
<1>5. ASSUME NEW n \in NewNumbers, SetSequenceNumber(n)
      PROVE  OverrideInv'
  BY <1>5, SetNumberStep
<1>6. CASE TakeBuilt \/ UNCHANGED vars
  <2>1. UNCHANGED <<kind, taken, lastSet, builder, snt>>
    BY <1>6 DEF TakeBuilt, vars, callerVars, builderVars
  <2>2. Produced' = Produced
    <3>1. CASE UNCHANGED vars
      BY <3>1 DEF vars, builderVars, Produced
    <3> QED BY <1>6, <3>1, ProducedReceived
  <2> QED BY <2>1, <2>2, OverrideStays
<1> QED BY <1>1, <1>2, <1>3, <1>4, <1>5, <1>6 DEF Next, Finished, Builder, clientVars

\* The invariant behind NumbersFollowOverride: the tracker itself counts on from
\* the last number set.
THEOREM ClientOverride == Spec => []OverrideInv
<1>1. TypeOK /\ TypeOK' /\ OrderInv /\ OverrideInv /\ [Next]_vars => OverrideInv'
  BY OverrideStep
<1> QED BY <1>1, InitOverride, ClientTypeOK, ClientOrder, PTL DEF Spec

\* At whatever moment the caller sets the sequence number, the payloads received
\* after it are numbered from there on, without a gap and without a repetition.
THEOREM ClientNumbersFollowOverride == Spec => []NumbersFollowOverride
<1>1. OverrideInv => NumbersFollowOverride
  BY DEF OverrideInv, NumbersFollowOverride, NumberAt, Known
<1> QED BY <1>1, ClientOverride, PTL
====

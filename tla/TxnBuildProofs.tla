---------------------------- MODULE TxnBuildProofs ---------------------------
(***************************************************************************)
(* Proofs about TxnBuild for any set of concurrent calls, any options and  *)
(* any behaviour of the node.                                              *)
(***************************************************************************)
EXTENDS TxnBuild, GoChannelTheorems

\* What a goroutine reports, and what its variable may hold.
Reports == {"ok", "error"}
AllValues == {Default, Option, Node} \union (0 .. MaxAccountNumber)
FetcherStates == {"none", "running", "asking", "ok", "error", "ended"}
Txns == [fields : [Fields -> AllValues], expires : Nat]

\* Changing one entry of a table with a row for each call.
LEMMA UpdateEntry ==
  ASSUME NEW S, NEW F, NEW V, NEW m \in [S -> [F -> V]],
         NEW c \in S, NEW f \in F, NEW v \in V
  PROVE  /\ [m EXCEPT ![c][f] = v] \in [S -> [F -> V]]
         /\ [m EXCEPT ![c][f] = v][c][f] = v
         /\ \A d \in S, g \in F : d # c \/ g # f => [m EXCEPT ![c][f] = v][d][g] = m[d][g]
OBVIOUS

\* Changing one row of it.
LEMMA UpdateRow ==
  ASSUME NEW S, NEW V, NEW m \in [S -> V], NEW c \in S, NEW v \in V
  PROVE  /\ [m EXCEPT ![c] = v] \in [S -> V]
         /\ [m EXCEPT ![c] = v][c] = v
         /\ \A d \in S : d # c => [m EXCEPT ![c] = v][d] = m[d]
OBVIOUS

-----------------------------------------------------------------------------
(* Type correctness.                                                        *)

\* The types of all the variables: TypeOK leaves out those that no property
\* depends on.
Types == /\ TypeOK
         /\ expiration \in [Calls -> Expirations \union {NoOption}]
         /\ badOption \in [Calls -> BOOLEAN]
         /\ errs \in [Calls -> [Fields -> ChannelOf(Reports)]]
         /\ local \in [Calls -> [Fields -> AllValues]]
         /\ expires \in [Calls -> Nat]
         /\ txn \in [Calls -> Txns \union {NoTxn}]

\* A field's variable holds a number only if it is the sequence number.
LEMMA LocalTypes ==
  ASSUME Types
  PROVE  \A c \in Calls, f \in Fields :
           local[c][f] \in {Default, Option}
                             \union (IF f = "account" THEN 0 .. MaxAccountNumber ELSE {Node})
BY DEF Types, TypeOK

\* Initial states are well typed.
LEMMA InitTypes == Init => Types
<1> SUFFICES ASSUME Init
             PROVE  Types
  OBVIOUS
<1>1. errs \in [Calls -> [Fields -> ChannelOf(Reports)]]
  BY NewChannelProperties DEF Init
<1>2. \A c \in Calls, f \in Fields : errs[c][f] \in ChannelOf({"ok", "error"})
  BY <1>1 DEF Reports
<1>3. local \in [Calls -> [Fields -> AllValues]]
  BY DEF Init, AllValues
<1>4. \A c \in Calls, f \in Fields : local[c][f] = Default
  BY DEF Init
<1>5. MaxAccountNumber \in Nat
  BY BuildAssumption
<1>6. TypeOK
  BY <1>2, <1>4, <1>5 DEF Init, TypeOK
<1> QED BY <1>1, <1>3, <1>6 DEF Init, Types

\* The call itself: its options, its goroutines, and what it returns.
LEMMA CallTypes ==
  ASSUME Types, NEW c \in Calls, Call(c)
  PROVE  Types'
<1>1. CASE RejectOptions(c)
  BY <1>1 DEF RejectOptions, Types, TypeOK, inputs
<1>2. CASE Begin(c)
  <2> DEFINE row == [f \in Fields |-> IF f \in given[c] THEN Option
                                      ELSE IF f = "chain" /\ ~Fetches(c, f) THEN chainId
                                      ELSE Default]
             started == [f \in Fields |-> IF Fetches(c, f) THEN "running" ELSE "none"]
  <2>1. /\ local' = [local EXCEPT ![c] = row]
        /\ fetcher' = [fetcher EXCEPT ![c] = started]
        /\ UNCHANGED <<given, expiration, badOption, chainId, accountNumber, errs, txn>>
    BY <1>2 DEF Begin, inputs
  <2>2. /\ row \in [Fields -> AllValues]
        /\ \A f \in Fields : row[f] \in {Default, Option}
                               \union (IF f = "account" THEN 0 .. MaxAccountNumber ELSE {Node})
    BY DEF Types, TypeOK, AllValues
  <2>3. started \in [Fields -> FetcherStates]
    BY DEF FetcherStates
  <2>4. pc' \in [Calls -> Fields \union {"start", "returned", "failed"}]
    BY <1>2 DEF Begin, Types, TypeOK, Fields
  <2>5. Timestamp(c) \in Nat
    <3>1. Now \in Nat /\ DefaultExpirationSeconds \in Nat
      BY BuildAssumption
    <3>2. Now + DefaultExpirationSeconds \in Nat
      BY <3>1
    <3>3. expiration[c] \in Nat \/ expiration[c] = NoOption
      BY BuildAssumption DEF Types
    <3> QED BY <3>2, <3>3 DEF Timestamp
  <2>6. expires' \in [Calls -> Nat]
    BY <1>2, <2>5 DEF Begin, Types
  <2>7. startNumber' \in [Calls -> 0 .. MaxAccountNumber]
    BY <1>2 DEF Begin, Types, TypeOK
  <2> HIDE DEF row, started
  <2>8. local' \in [Calls -> [Fields -> AllValues]]
    BY <2>1, <2>2 DEF Types
  <2>9. fetcher' \in [Calls -> [Fields -> FetcherStates]]
    BY <2>1, <2>3 DEF Types, TypeOK, FetcherStates
  <2>10. \A d \in Calls, f \in Fields :
           local'[d][f] \in {Default, Option}
                              \union (IF f = "account" THEN 0 .. MaxAccountNumber ELSE {Node})
    <3>1. \A d \in Calls : local'[d] = IF d = c THEN row ELSE local[d]
      BY <2>1 DEF Types
    <3> QED BY <2>2, <3>1, LocalTypes
  <2>11. TypeOK'
    BY <2>1, <2>4, <2>7, <2>9, <2>10 DEF Types, TypeOK, FetcherStates
  <2> QED BY <2>1, <2>6, <2>8, <2>11 DEF Types
<1>3. ASSUME NEW f \in Fields, WaitFor(c, f)
      PROVE  Types'
  <2>1. UNCHANGED <<given, expiration, badOption, chainId, accountNumber, fetcher, local,
                    expires, startNumber>>
    BY <1>3 DEF WaitFor, inputs
  <2>2. Assembled(c) \in Txns
    BY DEF Assembled, Txns, Types
  <2>3. After(f) \in Fields \union {"start", "returned", "failed"}
    BY DEF After, Fields
  <2>4. Proceed(c, f) \/ (pc' = [pc EXCEPT ![c] = "failed"] /\ txn' = txn)
    BY <1>3 DEF WaitFor
  <2>5. /\ pc' \in [Calls -> Fields \union {"start", "returned", "failed"}]
        /\ txn' \in [Calls -> Txns \union {NoTxn}]
    BY <2>2, <2>3, <2>4 DEF Proceed, Types, TypeOK
  <2>6. errs' \in [Calls -> [Fields -> ChannelOf(Reports)]]
    <3>1. CASE errs' = errs
      BY <3>1 DEF Types
    <3>2. CASE HasMessage(errs[c][f]) /\ errs' = [errs EXCEPT ![c][f] = Received(@)]
      <4>1. errs[c][f] \in ChannelOf(Reports)
        BY DEF Types
      <4>2. Received(errs[c][f]) \in ChannelOf(Reports)
        BY <3>2, <4>1, ReceivedProperties
      <4> QED BY <3>2, <4>2 DEF Types
    <3> QED BY <1>3, <3>1, <3>2 DEF WaitFor
  <2>7. \A d \in Calls, g \in Fields : errs'[d][g] \in ChannelOf({"ok", "error"})
    BY <2>6 DEF Reports
  <2>8. TypeOK'
    BY <2>1, <2>5, <2>7 DEF Types, TypeOK
  <2> QED BY <2>1, <2>5, <2>6, <2>8 DEF Types
<1> QED BY <1>1, <1>2, <1>3 DEF Call

\* What a goroutine writes is a value of its field, and what it reports a report.
LEMMA FetcherTypes ==
  ASSUME Types, NEW c \in Calls, NEW f \in Fields, Fetcher(c, f)
  PROVE  Types'
<1>1. /\ UNCHANGED <<given, expiration, badOption, accountNumber, pc, expires, txn, startNumber>>
      /\ chainId' \in {Default, Node}
  BY DEF Fetcher, ReadCache, MissCache, InfoAnswers, NodeAnswers, NodeFails, Report, inputs,
     Types, TypeOK
<1>2. PICK state \in FetcherStates : fetcher' = [fetcher EXCEPT ![c][f] = state]
  BY DEF Fetcher, ReadCache, MissCache, InfoAnswers, NodeAnswers, NodeFails, Report,
     FetcherStates
<1>3. fetcher' \in [Calls -> [Fields -> FetcherStates]]
  BY <1>2, UpdateEntry DEF Types, TypeOK, FetcherStates
<1>4. \/ local' = local
      \/ \E v \in {Default} \union (IF f = "account" THEN 0 .. MaxAccountNumber ELSE {Node}) :
           local' = [local EXCEPT ![c][f] = v]
  <2>1. CASE f = "chain" /\ (ReadCache(c) \/ InfoAnswers(c))
    BY <2>1 DEF ReadCache, InfoAnswers, Types, TypeOK
  <2>2. CASE NodeAnswers(c, f)
    BY <2>2 DEF NodeAnswers, Types, TypeOK
  <2>3. CASE local' = local
    BY <2>3
  <2> QED BY <2>1, <2>2, <2>3 DEF Fetcher, MissCache, NodeFails, Report
<1>5. /\ local' \in [Calls -> [Fields -> AllValues]]
      /\ \A d \in Calls, g \in Fields :
           local'[d][g] \in {Default, Option}
                              \union (IF g = "account" THEN 0 .. MaxAccountNumber ELSE {Node})
  <2>1. CASE local' = local
    BY <2>1, LocalTypes DEF Types
  <2>2. CASE local' # local
    <3>1. PICK v \in {Default} \union (IF f = "account" THEN 0 .. MaxAccountNumber ELSE {Node}) :
            local' = [local EXCEPT ![c][f] = v]
      BY <1>4, <2>2
    <3>2. v \in AllValues /\ local \in [Calls -> [Fields -> AllValues]]
      BY DEF AllValues, Types
    <3>3. /\ local' \in [Calls -> [Fields -> AllValues]]
          /\ local'[c][f] = v
          /\ \A d \in Calls, g \in Fields : d # c \/ g # f => local'[d][g] = local[d][g]
      BY <3>1, <3>2, UpdateEntry
    <3> QED BY <3>3, LocalTypes
  <2> QED BY <2>1, <2>2
<1>6. errs' \in [Calls -> [Fields -> ChannelOf(Reports)]]
  <2>1. CASE Report(c, f)
    <3>1. errs[c][f] \in ChannelOf(Reports) /\ fetcher[c][f] \in Reports
      BY <2>1 DEF Report, Types, Reports
    <3>2. Closed(Sent(errs[c][f], fetcher[c][f])) \in ChannelOf(Reports)
      BY <3>1, SentProperties, ClosedProperties
    <3>3. errs' = [errs EXCEPT ![c][f] = Closed(Sent(errs[c][f], fetcher[c][f]))]
      BY <2>1 DEF Report, Types
    <3> QED BY <3>2, <3>3 DEF Types
  <2>2. CASE errs' = errs
    BY <2>2 DEF Types
  <2> QED BY <2>1, <2>2 DEF Fetcher, ReadCache, MissCache, InfoAnswers, NodeAnswers, NodeFails
<1>7. \A d \in Calls, g \in Fields : errs'[d][g] \in ChannelOf({"ok", "error"})
  BY <1>6 DEF Reports
<1>8. TypeOK'
  BY <1>1, <1>3, <1>5, <1>7 DEF Types, TypeOK, FetcherStates
<1> QED BY <1>1, <1>5, <1>6, <1>8 DEF Types

\* Every variable keeps its type.
THEOREM BuildTypes == Spec => []Types
<1>1. Types /\ [Next]_vars => Types'
  <2>1. ASSUME Types, AccountAdvances
        PROVE  Types'
    <3>1. accountNumber' \in 0 .. MaxAccountNumber
      BY <2>1, BuildAssumption DEF AccountAdvances, Types, TypeOK
    <3>2. UNCHANGED <<given, expiration, badOption, chainId, pc, fetcher, errs, local,
                      expires, txn, startNumber>>
      BY <2>1 DEF AccountAdvances, inputs
    <3> QED BY <2>1, <3>1, <3>2 DEF Types, TypeOK
  <2>2. ASSUME Types, UNCHANGED vars
        PROVE  Types'
    BY <2>2 DEF vars, inputs, Types, TypeOK
  <2> QED BY <2>1, <2>2, CallTypes, FetcherTypes DEF Next, Progress, Finished
<1> QED BY <1>1, InitTypes, PTL DEF Spec

\* In particular those the runs check.
THEOREM BuildTypeOK == Spec => []TypeOK
<1>1. Types => TypeOK
  BY DEF Types
<1> QED BY <1>1, BuildTypes, PTL

-----------------------------------------------------------------------------
(* What the variable of a field holds when the call uses it.                *)

\* The option's value, a sequence number the account had while the call ran, or
\* what the node gave.
Held(c, f) == local[c][f] \in IF f \in given[c] THEN {Option}
                              ELSE IF f = "account" THEN startNumber[c] .. accountNumber
                              ELSE {Node}

\* The call has waited for field f.
Passed(c, f) == \/ pc[c] = "returned"
                \/ pc[c] = "account" /\ f = "chain"
                \/ pc[c] = "gas" /\ f \in {"chain", "account"}

\* A call without a goroutine for f, or with one that reported success, holds f;
\* and when it has passed f, no goroutine is left that could write the variable.
FieldInv(c, f) ==
  /\ pc[c] = "start" \/ f \in given[c] => fetcher[c][f] = "none"
  /\ errs[c][f].buf \in (IF fetcher[c][f] = "ended" THEN {<<>>, <<"ok">>, <<"error">>}
                         ELSE {<<>>})
  /\ fetcher[c][f] = "ok" \/ errs[c][f].buf = <<"ok">> => Held(c, f)
  /\ fetcher[c][f] = "none" /\ pc[c] \notin {"start", "failed"} => Held(c, f)
  /\ Passed(c, f) => Held(c, f) /\ fetcher[c][f] \in {"none", "ended"}

\* The account's number never decreases, and a transaction returned is made of
\* the variables as they still are.
CallInv(c) == /\ startNumber[c] <= accountNumber
              /\ txn[c] # NoTxn => pc[c] = "returned" /\ txn[c].fields = local[c]

BuildInv == \A c \in Calls : CallInv(c) /\ \A f \in Fields : FieldInv(c, f)

\* A field none of whose variables a step touches.
LEMMA FieldStays ==
  ASSUME NEW c \in Calls, NEW f \in Fields, FieldInv(c, f), Types, accountNumber' \in Nat,
         accountNumber <= accountNumber',
         UNCHANGED <<given, pc[c], fetcher[c][f], errs[c][f], local[c][f], startNumber[c]>>
  PROVE  FieldInv(c, f)'
<1>1. startNumber[c] \in Nat /\ accountNumber \in Nat
  BY BuildAssumption DEF Types, TypeOK
<1>2. Held(c, f) => Held(c, f)'
  BY <1>1 DEF Held
<1>3. Passed(c, f)' <=> Passed(c, f)
  BY DEF Passed
<1> QED BY <1>2, <1>3 DEF FieldInv

\* At first no call has begun.
LEMMA InitBuild == Init => BuildInv
<1> SUFFICES ASSUME Init, NEW c \in Calls
             PROVE  CallInv(c) /\ \A f \in Fields : FieldInv(c, f)
  BY DEF BuildInv
<1>1. pc[c] = "start" /\ txn[c] = NoTxn /\ startNumber[c] = 0 /\ accountNumber = 0
  BY DEF Init
<1>2. \A f \in Fields : fetcher[c][f] = "none" /\ errs[c][f].buf = <<>>
  BY NewChannelProperties DEF Init
<1>3. \A f \in Fields : FieldInv(c, f)
  BY <1>1, <1>2 DEF FieldInv, Passed
<1> QED BY <1>1, <1>3 DEF CallInv

\* A call that begins has every field for which it starts no goroutine.
LEMMA BeginBuild ==
  ASSUME Types, BuildInv, NEW c \in Calls, Begin(c)
  PROVE  BuildInv'
<1> USE DEF BuildInv
<1>1. UNCHANGED <<given, chainId, accountNumber, errs, txn>>
  BY DEF Begin, inputs
<1>2. /\ pc[c] = "start" /\ pc'[c] = "chain"
      /\ \A d \in Calls : d # c => UNCHANGED <<pc[d], fetcher[d], local[d], startNumber[d]>>
      /\ \A f \in Fields : fetcher'[c][f] = IF Fetches(c, f) THEN "running" ELSE "none"
      /\ \A f \in Fields : local'[c][f] =
           IF f \in given[c] THEN Option
           ELSE IF f = "chain" /\ ~Fetches(c, f) THEN chainId ELSE Default
      /\ startNumber'[c] = accountNumber
  BY DEF Begin, Types, TypeOK
<1>3. ASSUME NEW f \in Fields
      PROVE  FieldInv(c, f)'
  <2>1. fetcher[c][f] = "none" /\ errs'[c][f].buf = <<>>
    BY <1>1, <1>2 DEF FieldInv
  <2>2. ~Passed(c, f)'
    BY <1>2 DEF Passed
  <2>3. ~Fetches(c, f) => Held(c, f)'
    BY <1>1, <1>2 DEF Fetches, Held, Types, TypeOK, Fields
  <2>4. fetcher'[c][f] \in {"running", "none"} /\ (f \in given[c] => ~Fetches(c, f))
    BY <1>2 DEF Fetches
  <2> QED BY <1>1, <1>2, <2>1, <2>2, <2>3, <2>4 DEF FieldInv
<1>4. ASSUME NEW d \in Calls, NEW f \in Fields, d # c
      PROVE  FieldInv(d, f)'
  <2>1. accountNumber \in Nat
    BY BuildAssumption DEF Types, TypeOK
  <2> QED BY <1>1, <1>2, <1>4, <2>1, FieldStays
<1>5. ASSUME NEW d \in Calls
      PROVE  CallInv(d)'
  <2>1. accountNumber <= accountNumber
    BY BuildAssumption DEF Types, TypeOK
  <2> QED BY <1>1, <1>2, <2>1 DEF CallInv
<1> QED BY <1>3, <1>4, <1>5

\* A call that rejects its options has started nothing.
LEMMA RejectBuild ==
  ASSUME Types, BuildInv, NEW c \in Calls, RejectOptions(c)
  PROVE  BuildInv'
<1> USE DEF BuildInv
<1>1. UNCHANGED <<given, accountNumber, fetcher, errs, local, txn, startNumber>>
  BY DEF RejectOptions, inputs
<1>2. /\ pc[c] = "start" /\ pc'[c] = "failed"
      /\ \A d \in Calls : d # c => pc'[d] = pc[d]
  BY DEF RejectOptions, Types, TypeOK
<1>3. ASSUME NEW f \in Fields
      PROVE  FieldInv(c, f)'
  <2>1. ~Passed(c, f)' /\ (Held(c, f)' <=> Held(c, f))
    BY <1>1, <1>2 DEF Passed, Held
  <2> QED BY <1>1, <1>2, <2>1 DEF FieldInv
<1>4. ASSUME NEW d \in Calls, NEW f \in Fields, d # c
      PROVE  FieldInv(d, f)'
  <2>1. accountNumber \in Nat
    BY BuildAssumption DEF Types, TypeOK
  <2> QED BY <1>1, <1>2, <1>4, <2>1, FieldStays
<1>5. ASSUME NEW d \in Calls
      PROVE  CallInv(d)'
  BY <1>1, <1>2 DEF CallInv
<1> QED BY <1>3, <1>4, <1>5

\* A call goes past a field only if it holds it, and returns only past the last.
LEMMA WaitBuild ==
  ASSUME Types, BuildInv, NEW c \in Calls, NEW f \in Fields, WaitFor(c, f)
  PROVE  BuildInv'
<1> USE DEF BuildInv
<1>1. UNCHANGED <<given, accountNumber, fetcher, local, startNumber>>
  BY DEF WaitFor, inputs
<1>2. /\ pc[c] = f
      /\ pc'[c] \in {After(f), "failed"}
      /\ \A d \in Calls : d # c => pc'[d] = pc[d] /\ txn'[d] = txn[d]
  BY DEF WaitFor, Proceed, Types, TypeOK
<1>3. /\ errs'[c][f].buf \in {errs[c][f].buf, <<>>}
      /\ \A d \in Calls, g \in Fields : d # c \/ g # f => errs'[d][g] = errs[d][g]
  <2>1. CASE errs' = errs
    BY <2>1
  <2>2. CASE HasMessage(errs[c][f]) /\ errs' = [errs EXCEPT ![c][f] = Received(@)]
    <3>1. errs[c][f] \in ChannelOf(Reports)
      BY DEF Types
    <3>2. /\ Received(errs[c][f]) \in ChannelOf(Reports)
          /\ Received(errs[c][f]).buf = Tail(errs[c][f].buf)
      BY <2>2, <3>1, ReceivedProperties
    <3>3. errs[c][f].buf \in {<<"ok">>, <<"error">>}
      BY <2>2 DEF HasMessage, FieldInv
    <3>4. Tail(<<"ok">>) = <<>> /\ Tail(<<"error">>) = <<>>
      OBVIOUS
    <3>5. errs' = [errs EXCEPT ![c][f] = Received(errs[c][f])]
      BY <2>2 DEF Types
    <3>6. /\ errs'[c][f] = Received(errs[c][f])
          /\ \A d \in Calls, g \in Fields : d # c \/ g # f => errs'[d][g] = errs[d][g]
      BY <3>2, <3>5, UpdateEntry DEF Types
    <3> QED BY <3>2, <3>3, <3>4, <3>6
  <2> QED BY <2>1, <2>2 DEF WaitFor
<1>4. pc'[c] # "failed" => Held(c, f) /\ fetcher[c][f] \in {"none", "ended"}
  <2>1. CASE fetcher[c][f] = "none"
    BY <1>2, <2>1 DEF FieldInv, Fields
  <2>2. CASE fetcher[c][f] # "none"
    <3>1. HasMessage(errs[c][f])
      BY <2>2 DEF WaitFor
    <3>2. pc'[c] # "failed" => NextMessage(errs[c][f]) # "error"
      BY <2>2 DEF WaitFor, Types, TypeOK
    <3>3. fetcher[c][f] = "ended" /\ errs[c][f].buf \in {<<"ok">>, <<"error">>}
      BY <3>1 DEF HasMessage, FieldInv
    <3>4. Head(<<"error">>) = "error"
      OBVIOUS
    <3>5. pc'[c] # "failed" => errs[c][f].buf = <<"ok">>
      BY <3>2, <3>3, <3>4 DEF NextMessage
    <3> QED BY <3>3, <3>5 DEF FieldInv
  <2> QED BY <2>1, <2>2
<1>5. \A d \in Calls, g \in Fields : Held(d, g)' <=> Held(d, g)
  BY <1>1 DEF Held
<1>6. \A g \in Fields : Passed(c, g)' => Passed(c, g) \/ (g = f /\ pc'[c] # "failed")
  BY <1>2 DEF Passed, After, Fields
<1>7. ASSUME NEW g \in Fields
      PROVE  FieldInv(c, g)'
  <2>1. Passed(c, g)' => Held(c, g) /\ fetcher[c][g] \in {"none", "ended"}
    BY <1>4, <1>6 DEF FieldInv
  <2>2. pc'[c] # "start" /\ pc[c] \notin {"start", "failed"}
    BY <1>2 DEF After, Fields
  <2>3. errs'[c][g].buf \in {errs[c][g].buf, <<>>}
    BY <1>3
  <2>4. <<>> # <<"ok">>
    OBVIOUS
  <2> QED BY <1>1, <1>5, <2>1, <2>2, <2>3, <2>4 DEF FieldInv
<1>8. ASSUME NEW d \in Calls, NEW g \in Fields, d # c
      PROVE  FieldInv(d, g)'
  <2>1. accountNumber \in Nat
    BY BuildAssumption DEF Types, TypeOK
  <2> QED BY <1>1, <1>2, <1>3, <1>8, <2>1, FieldStays
<1>9. ASSUME NEW d \in Calls
      PROVE  CallInv(d)'
  <2>1. CASE d # c
    BY <1>1, <1>2, <2>1 DEF CallInv
  <2>2. CASE d = c
    <3>1. pc[c] # "returned"
      BY <1>2 DEF Fields
    <3>2. txn'[c] = txn[c] \/ (pc'[c] = "returned" /\ txn'[c].fields = local[c])
      BY DEF WaitFor, Proceed, After, Assembled, Types, TypeOK
    <3> QED BY <1>1, <2>2, <3>1, <3>2 DEF CallInv
  <2> QED BY <2>1, <2>2
<1> QED BY <1>7, <1>8, <1>9

\* A goroutine writes its variable before it reports success, and only while its
\* call has not passed the field.
LEMMA FetcherBuild ==
  ASSUME Types, BuildInv, NEW c \in Calls, NEW f \in Fields, Fetcher(c, f)
  PROVE  BuildInv'
<1> USE DEF BuildInv
<1>1. UNCHANGED <<given, accountNumber, pc, txn, startNumber>>
  BY DEF Fetcher, ReadCache, MissCache, InfoAnswers, NodeAnswers, NodeFails, Report, inputs
<1>2. PICK state \in {"asking", "ok", "error", "ended"} :
        fetcher' = [fetcher EXCEPT ![c][f] = state]
  BY DEF Fetcher, ReadCache, MissCache, InfoAnswers, NodeAnswers, NodeFails, Report
<1>3. /\ fetcher'[c][f] = state
      /\ \A d \in Calls, g \in Fields : d # c \/ g # f => fetcher'[d][g] = fetcher[d][g]
  BY <1>2, UpdateEntry DEF Types, TypeOK, FetcherStates
<1>4. /\ fetcher[c][f] \in {"running", "asking", "ok", "error"}
      /\ errs[c][f].buf = <<>> /\ ~Passed(c, f) /\ f \notin given[c] /\ pc[c] # "start"
  <2>1. fetcher[c][f] \in {"running", "asking", "ok", "error"}
    BY DEF Fetcher, ReadCache, MissCache, InfoAnswers, NodeAnswers, NodeFails, Report
  <2> QED BY <2>1 DEF FieldInv
<1>5. /\ \A d \in Calls, g \in Fields : d # c \/ g # f => local'[d][g] = local[d][g]
      /\ \A d \in Calls : d # c => local'[d] = local[d]
  BY DEF Fetcher, ReadCache, MissCache, InfoAnswers, NodeAnswers, NodeFails, Report, Types
<1>6. \A d \in Calls, g \in Fields : d # c \/ g # f => errs'[d][g] = errs[d][g]
  BY DEF Fetcher, ReadCache, MissCache, InfoAnswers, NodeAnswers, NodeFails, Report, Types
<1>7. /\ errs'[c][f].buf \in (IF state = "ended" THEN {<<"ok">>, <<"error">>} ELSE {<<>>})
      /\ state = "ok" \/ errs'[c][f].buf = <<"ok">> => Held(c, f)'
  <2>1. CASE Report(c, f)
    <3>1. errs[c][f] \in ChannelOf(Reports) /\ fetcher[c][f] \in Reports
      BY <2>1 DEF Report, Types, Reports
    <3>2. /\ Sent(errs[c][f], fetcher[c][f]) \in ChannelOf(Reports)
          /\ Sent(errs[c][f], fetcher[c][f]).buf = Append(errs[c][f].buf, fetcher[c][f])
      <4>1. \A ch \in ChannelOf(Reports), m \in Reports :
              Sent(ch, m) \in ChannelOf(Reports) /\ Sent(ch, m).buf = Append(ch.buf, m)
        BY SentProperties
      <4> QED BY <3>1, <4>1
    <3>3. Closed(Sent(errs[c][f], fetcher[c][f])).buf = <<fetcher[c][f]>>
      <4>1. Append(<<>>, fetcher[c][f]) = <<fetcher[c][f]>>
        OBVIOUS
      <4>2. \A ch \in ChannelOf(Reports) : Closed(ch).buf = ch.buf
        BY ClosedProperties
      <4> QED BY <1>4, <3>2, <4>1, <4>2
    <3>4. errs'[c][f].buf = <<fetcher[c][f]>>
      BY <2>1, <3>3 DEF Report, Types
    <3>5. local' = local /\ state = "ended"
      BY <1>3, <2>1 DEF Report, Types, TypeOK
    <3>6. Held(c, f)' <=> Held(c, f)
      BY <1>1, <3>5 DEF Held
    <3>7. <<fetcher[c][f]>> = <<"ok">> => fetcher[c][f] = "ok"
      OBVIOUS
    <3>8. <<fetcher[c][f]>> \in {<<"ok">>, <<"error">>}
      BY <3>1 DEF Reports
    <3> QED BY <3>4, <3>5, <3>6, <3>7, <3>8 DEF FieldInv
  <2>2. CASE f = "chain" /\ (ReadCache(c) \/ InfoAnswers(c))
    <3>1. local'[c][f] = Node
      BY <2>2 DEF ReadCache, InfoAnswers, Types, TypeOK
    <3>2. state = "ok" /\ errs' = errs
      BY <1>3, <2>2 DEF ReadCache, InfoAnswers, Types, TypeOK
    <3>3. Held(c, f)'
      BY <1>1, <1>4, <2>2, <3>1 DEF Held
    <3> QED BY <1>4, <3>2, <3>3
  <2>3. CASE NodeAnswers(c, f)
    <3>1. local'[c][f] = IF f = "gas" THEN Node ELSE accountNumber
      BY <2>3 DEF NodeAnswers, Types
    <3>2. state = "ok" /\ errs' = errs /\ f \in {"gas", "account"}
      BY <1>3, <2>3 DEF NodeAnswers, Types, TypeOK
    <3>3. startNumber[c] <= accountNumber
      BY DEF CallInv
    <3>4. startNumber[c] \in Nat /\ accountNumber \in Nat
      BY BuildAssumption DEF Types, TypeOK
    <3>5. accountNumber \in startNumber[c] .. accountNumber
      BY <3>3, <3>4
    <3>6. Held(c, f)'
      BY <1>1, <1>4, <3>1, <3>2, <3>5 DEF Held
    <3> QED BY <1>4, <3>2, <3>6
  <2>4. CASE (f = "chain" /\ MissCache(c)) \/ NodeFails(c, f)
    <3>1. state \in {"asking", "error"} /\ errs' = errs
      BY <1>3, <2>4 DEF MissCache, NodeFails, Types, TypeOK
    <3>2. <<>> # <<"ok">>
      OBVIOUS
    <3> QED BY <1>4, <3>1, <3>2
  <2> QED BY <2>1, <2>2, <2>3, <2>4 DEF Fetcher
<1>8. FieldInv(c, f)'
  <2>1. ~Passed(c, f)'
    BY <1>1, <1>4 DEF Passed
  <2> QED BY <1>1, <1>3, <1>4, <1>7, <2>1 DEF FieldInv
<1>9. ASSUME NEW d \in Calls, NEW g \in Fields, d # c \/ g # f
      PROVE  FieldInv(d, g)'
  <2>1. accountNumber \in Nat
    BY BuildAssumption DEF Types, TypeOK
  <2> QED BY <1>1, <1>3, <1>5, <1>6, <1>9, <2>1, FieldStays
<1>10. ASSUME NEW d \in Calls
       PROVE  CallInv(d)'
  <2>1. d = c => pc[c] # "returned"
    BY <1>4 DEF Passed
  <2> QED BY <1>1, <1>5, <2>1 DEF CallInv
<1> QED BY <1>8, <1>9, <1>10

\* The account's own transactions only make its number grow.
LEMMA AdvanceBuild ==
  ASSUME Types, BuildInv, AccountAdvances
  PROVE  BuildInv'
<1>1. UNCHANGED <<given, pc, fetcher, errs, local, txn, startNumber>>
  BY DEF AccountAdvances, inputs
<1>2. /\ accountNumber \in Nat
      /\ accountNumber' = accountNumber + 1
      /\ \A c \in Calls : startNumber[c] \in Nat
  BY BuildAssumption DEF AccountAdvances, Types, TypeOK
<1>3. accountNumber' \in Nat /\ accountNumber <= accountNumber'
  BY <1>2
<1>4. \A c \in Calls, f \in Fields : FieldInv(c, f)'
  BY <1>1, <1>3, FieldStays DEF BuildInv
<1>5. \A c \in Calls : CallInv(c)'
  BY <1>1, <1>2 DEF BuildInv, CallInv
<1> QED BY <1>4, <1>5 DEF BuildInv

\* A step that changes nothing.
LEMMA StutterBuild ==
  ASSUME BuildInv, UNCHANGED vars
  PROVE  BuildInv'
BY DEF vars, inputs, BuildInv, CallInv, FieldInv, Held, Passed

\* Every call holds the fields it has passed, and its goroutines no longer touch
\* them.
THEOREM BuildFields == Spec => []BuildInv
<1>1. Types /\ BuildInv /\ [Next]_vars => BuildInv'
  BY BeginBuild, RejectBuild, WaitBuild, FetcherBuild, AdvanceBuild, StutterBuild
     DEF Next, Progress, Finished, Call
<1> QED BY <1>1, InitBuild, BuildTypes, PTL DEF Spec

\* What a call returns is complete, however its goroutines, those of the other
\* calls and the node's answers interleave.
THEOREM BuildReturnedIsComplete == Spec => []ReturnedIsComplete
<1>1. Types /\ BuildInv => ReturnedIsComplete
  <2> SUFFICES ASSUME Types, BuildInv, NEW c \in Calls, txn[c] # NoTxn, NEW f \in Fields
               PROVE  IF f \in given[c] THEN txn[c].fields[f] = Option
                                        ELSE txn[c].fields[f] # Default
    BY DEF ReturnedIsComplete
  <2>1. CallInv(c) /\ FieldInv(c, f)
    BY DEF BuildInv
  <2>2. Held(c, f) /\ txn[c].fields = local[c]
    BY <2>1 DEF CallInv, FieldInv, Passed
  <2>3. startNumber[c] .. accountNumber \subseteq Nat
    BY BuildAssumption DEF Types, TypeOK
  <2>4. Default \notin Nat /\ Default # Node
    BY BuildAssumption
  <2> QED BY <2>2, <2>3, <2>4 DEF Held
<1> QED BY <1>1, BuildTypes, BuildFields, PTL

\* A sequence number fetched for a call is one the account had while it ran.
THEOREM BuildNumberWasCurrent == Spec => []NumberWasCurrent
<1>1. Types /\ BuildInv => NumberWasCurrent
  <2> SUFFICES ASSUME BuildInv, NEW c \in Calls, txn[c] # NoTxn, "account" \notin given[c]
               PROVE  txn[c].fields["account"] \in startNumber[c] .. accountNumber
    BY DEF NumberWasCurrent
  <2>1. CallInv(c) /\ FieldInv(c, "account")
    BY DEF BuildInv, Fields
  <2>2. Held(c, "account") /\ txn[c].fields = local[c]
    BY <2>1 DEF CallInv, FieldInv, Passed
  <2> QED BY <2>2 DEF Held
<1> QED BY <1>1, BuildTypes, BuildFields, PTL
==============================================================================

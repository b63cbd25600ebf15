-------------------------- MODULE TxnPipelineProofs --------------------------
(***************************************************************************)
(* Proofs about TxnPipeline for any number of payloads, any capacities,    *)
(* any account number and any set of faults.                               *)
(***************************************************************************)
EXTENDS TxnPipeline, TxnBuilderTheorems

-----------------------------------------------------------------------------
(* Type correctness.                                                        *)

\* The initial states are well typed.
LEMMA InitTypeOK == Init => TypeOK
<1> SUFFICES ASSUME Init
             PROVE  TypeOK
  OBVIOUS
<1>1. requests \in ChannelOf(Txn) /\ responses \in ChannelOf(Response)
  BY NewChannelProperties DEF Init
<1>2. BuilderTypeOK
  BY BuilderInitTypes DEF Init
<1> QED
  BY <1>1, <1>2, BuilderAssumption DEF Init, TypeOK, Response, Results

\* The caller's producer and the builder goroutine keep the types.
LEMMA BuilderStepTypeOK ==
  ASSUME TypeOK, Producer \/ Builder, UNCHANGED pipelineVars
  PROVE  TypeOK'
<1>1. BuilderTypeOK'
  BY BuilderKeepsTypes DEF TypeOK
<1> QED BY <1>1 DEF TypeOK, pipelineVars, signVars, submitVars, readVars

\* Sending a response keeps the responses channel and the record well typed.
LEMMA RespondTypes ==
  ASSUME TypeOK, NEW r \in Response, Respond(r)
  PROVE  /\ responses' \in ChannelOf(Response)
         /\ responses'.closed = responses.closed
         /\ answers' \in [0 .. NumPayloads -> Seq(Results)]
<1>1. responses' \in ChannelOf(Response) /\ responses'.closed = responses.closed
  BY SentProperties DEF Respond, TypeOK
<1>2. r.id \in 0 .. NumPayloads /\ r.result \in Results
  BY DEF Response
<1>3. Append(answers[r.id], r.result) \in Seq(Results)
  BY <1>2, AppendFacts DEF TypeOK
<1> QED BY <1>1, <1>2, <1>3 DEF Respond, TypeOK

\* What the loop receives: the account error, or something about a payload.
LEMMA TakeBuiltTypes ==
  ASSUME TypeOK, HasMessage(built)
  PROVE  /\ NextMessage(built) \in BuildResponse
         /\ NextMessage(built).id \in 0 .. NumPayloads
         /\ ~NextMessage(built).err =>
              NextMessage(built).id \in Ids /\ NextMessage(built).seq \in Nat
         /\ Received(built) \in ChannelOf(BuildResponse)
         /\ Received(built).closed = built.closed
<1>1. /\ NextMessage(built) \in BuildResponse
      /\ Received(built) \in ChannelOf(BuildResponse)
      /\ Received(built).closed = built.closed
  BY ReceivedProperties DEF TypeOK, BuilderTypeOK
<1> QED BY <1>1, BuilderAssumption DEF BuildResponse, AccountError, Ids

\* The loop over buildResponses keeps the types.
LEMMA MainTypeOK ==
  ASSUME TypeOK, Main
  PROVE  TypeOK'
<1> USE BuilderAssumption
<1>1. CASE MainTakesError
  <2>1. BuilderTypeOK'
    BY <1>1, TakeBuiltTypes DEF MainTakesError, TypeOK, BuilderTypeOK, callerVars
  <2>2. reporting' \in Response
    BY <1>1, TakeBuiltTypes DEF MainTakesError, Response, Results
  <2> QED BY <1>1, <2>1, <2>2 DEF MainTakesError, TypeOK, submitVars, readVars
<1>2. CASE MainReports
  <2>1. BuilderTypeOK'
    BY <1>2 DEF MainReports, TypeOK, BuilderTypeOK, callerVars, builderVars
  <2>2. responses' \in ChannelOf(Response) /\ answers' \in [0 .. NumPayloads -> Seq(Results)]
    BY <1>2, RespondTypes DEF MainReports, TypeOK
  <2> QED BY <1>2, <2>1, <2>2 DEF MainReports, TypeOK, submitVars, readVars
<1>3. CASE MainStartsSigner
  <2>1. BuilderTypeOK'
    BY <1>3, TakeBuiltTypes DEF MainStartsSigner, TypeOK, BuilderTypeOK, callerVars
  <2>2. signers' \subseteq Signer
    BY <1>3, TakeBuiltTypes DEF MainStartsSigner, TypeOK, Signer, Txn
  <2> QED BY <1>3, <2>1, <2>2 DEF MainStartsSigner, TypeOK, submitVars, readVars
<1>4. CASE MainLeavesLoop
  <2>1. BuilderTypeOK'
    BY <1>4 DEF MainLeavesLoop, TypeOK, BuilderTypeOK, callerVars, builderVars
  <2> QED BY <1>4, <2>1 DEF MainLeavesLoop, TypeOK, submitVars, readVars
<1>5. CASE MainCloses
  <2>1. BuilderTypeOK'
    BY <1>5 DEF MainCloses, TypeOK, BuilderTypeOK, callerVars, builderVars
  <2>2. requests' \in ChannelOf(Txn)
    BY <1>5, ClosedProperties DEF MainCloses, TypeOK
  <2> QED BY <1>5, <2>1, <2>2 DEF MainCloses, TypeOK, readVars
<1> QED BY <1>1, <1>2, <1>3, <1>4, <1>5 DEF Main

\* A signing goroutine keeps the types.
LEMMA SignerTypeOK ==
  ASSUME TypeOK, NEW s \in signers, SignerStep(s)
  PROVE  TypeOK'
<1>1. /\ s \in Signer /\ s.txn \in Txn /\ s.txn.id \in Ids
      /\ [s EXCEPT !.pc = "request"] \in Signer
      /\ [s EXCEPT !.pc = "report"] \in Signer
  BY DEF TypeOK, Signer, Txn
<1>2. BuilderTypeOK'
  BY DEF SignerStep, SignSucceeds, SignFails, SignerReports, SignerRequests,
     TypeOK, BuilderTypeOK, callerVars, builderVars
<1>3. CASE SignSucceeds(s)
  BY <1>1, <1>2, <1>3 DEF SignSucceeds, TypeOK, submitVars, readVars
<1>4. CASE SignFails(s)
  BY <1>1, <1>2, <1>4 DEF SignFails, TypeOK, submitVars, readVars
<1>5. CASE SignerReports(s)
  <2>1. [id |-> s.txn.id, result |-> "sign"] \in Response
    BY <1>1, BuilderAssumption DEF Response, Results, Ids
  <2>2. responses' \in ChannelOf(Response) /\ answers' \in [0 .. NumPayloads -> Seq(Results)]
    BY <1>5, <2>1, RespondTypes DEF SignerReports
  <2> QED BY <1>2, <1>5, <2>2 DEF SignerReports, TypeOK, submitVars, readVars
<1>6. CASE SignerRequests(s)
  <2>1. requests' \in ChannelOf(Txn)
    BY <1>1, <1>6, SentProperties DEF SignerRequests, TypeOK
  <2> QED BY <1>2, <1>6, <2>1 DEF SignerRequests, TypeOK, readVars
<1> QED BY <1>3, <1>4, <1>5, <1>6 DEF SignerStep

\* SubmitTransactions keeps the types.
LEMMA SubmitterTypeOK ==
  ASSUME TypeOK, Submitter
  PROVE  TypeOK'
<1> USE BuilderAssumption
<1>1. BuilderTypeOK'
  BY DEF Submitter, Submit, SubmitterResponds, SubmitterCloses, TypeOK, BuilderTypeOK,
     callerVars, builderVars
<1>2. CASE Submit
  <2>1. NextMessage(requests) \in Txn /\ requests' \in ChannelOf(Txn)
    BY <1>2, ReceivedProperties DEF Submit, TypeOK
  <2>2. NextMessage(requests).id \in 0 .. NumPayloads /\ NextMessage(requests).seq \in Nat
    BY <2>1 DEF Txn, Ids
  <2>3. \A o \in Outcomes : o.result \in Results
    BY DEF Outcomes, Results
  <2>4. response' \in Response
    BY <1>2, <2>2, <2>3 DEF Submit, Response
  <2>5. node' \in Seq(Nat)
    BY <1>2, <2>2, AppendFacts DEF Submit, TypeOK
  <2> QED BY <1>1, <1>2, <2>1, <2>4, <2>5 DEF Submit, TypeOK, signVars, readVars
<1>3. CASE SubmitterResponds
  <2>1. responses' \in ChannelOf(Response) /\ answers' \in [0 .. NumPayloads -> Seq(Results)]
    BY <1>3, RespondTypes DEF SubmitterResponds, TypeOK
  <2> QED BY <1>1, <1>3, <2>1 DEF SubmitterResponds, TypeOK, signVars, readVars
<1>4. CASE SubmitterCloses
  <2>1. responses' \in ChannelOf(Response)
    BY <1>4, ClosedProperties DEF SubmitterCloses, TypeOK
  <2> QED BY <1>1, <1>4, <2>1 DEF SubmitterCloses, TypeOK, signVars, readVars
<1> QED BY <1>2, <1>3, <1>4 DEF Submitter

\* The caller's reader keeps the types.
LEMMA ConsumerTypeOK ==
  ASSUME TypeOK, Consumer
  PROVE  TypeOK'
<1>1. BuilderTypeOK'
  BY DEF Consumer, ReadResponse, ReadEnd, TypeOK, BuilderTypeOK, callerVars, builderVars
<1>2. CASE ReadResponse
  <2>1. responses' \in ChannelOf(Response)
    BY <1>2, ReceivedProperties DEF ReadResponse, TypeOK
  <2> QED BY <1>1, <1>2, <2>1 DEF ReadResponse, TypeOK, signVars, submitVars, readVars
<1>3. CASE ReadEnd
  BY <1>1, <1>3 DEF ReadEnd, TypeOK, signVars, submitVars, readVars
<1> QED BY <1>2, <1>3 DEF Consumer

\* So does a step in which nothing moves.
LEMMA StutterTypeOK ==
  ASSUME TypeOK, UNCHANGED vars
  PROVE  TypeOK'
<1>1. BuilderTypeOK'
  BY DEF vars, TypeOK, BuilderTypeOK, callerVars, builderVars
<1> QED BY <1>1 DEF vars, TypeOK, signVars, submitVars, readVars

\* Every variable keeps its type in every step of every goroutine.
THEOREM PipelineTypeOK == Spec => []TypeOK
<1>1. TypeOK /\ [Next]_vars => TypeOK'
  BY BuilderStepTypeOK, MainTypeOK, SignerTypeOK, SubmitterTypeOK,
     ConsumerTypeOK, StutterTypeOK DEF Next, Finished
<1> QED BY <1>1, InitTypeOK, PTL DEF Spec

-----------------------------------------------------------------------------
(* The order of shutdown.                                                   *)

\* Each channel is closed exactly when the goroutine that owns it is done, and
\* that goroutine is done only once what feeds it is: the builder closes built,
\* the loop leaves when built is drained and closes requests when no signer is
\* left, the submitter leaves when requests is drained and closes responses.
ShutdownOrder == /\ built.closed <=> builder = "done"
                 /\ main \in {"wait", "done"} => Drained(built)
                 /\ requests.closed <=> main = "done"
                 /\ main = "done" => signers = {}
                 /\ responses.closed <=> submitter = "done"
                 /\ submitter = "done" => Drained(requests)

\* At first every goroutine runs and every channel is open.
LEMMA InitShutdownOrder == Init => ShutdownOrder
BY NewChannelProperties DEF Init, BuilderInit, ShutdownOrder

\* The builder closes its channel when it is done, and sends no more.
LEMMA BuilderShutdownOrder ==
  ASSUME TypeOK, ShutdownOrder, Producer \/ Builder, UNCHANGED pipelineVars
  PROVE  ShutdownOrder'
<1>1. UNCHANGED <<main, signers, requests, submitter, responses>>
  BY DEF pipelineVars, signVars, submitVars
<1>2. CASE UNCHANGED <<builder, built>>
  BY <1>1, <1>2 DEF ShutdownOrder, Drained
<1>3. CASE AccountFetched \/ AccountFails \/ TakePayload
  BY <1>1, <1>3 DEF AccountFetched, AccountFails, TakePayload, ShutdownOrder, Drained
<1>4. CASE SendBuilt
  <2>1. built'.closed = built.closed
    BY <1>4, SentProperties DEF SendBuilt, TypeOK, BuilderTypeOK
  <2> QED BY <1>1, <1>4, <2>1 DEF SendBuilt, ShutdownOrder, Drained
<1>5. CASE CloseBuilt
  <2>1. built'.closed /\ built'.buf = built.buf
    BY <1>5, ClosedProperties DEF CloseBuilt, TypeOK, BuilderTypeOK
  <2> QED BY <1>1, <1>5, <2>1 DEF CloseBuilt, ShutdownOrder, Drained
<1> QED BY <1>2, <1>3, <1>4, <1>5 DEF Producer, SendPayload, ClosePayloads, Builder,
            SkipPayload, builderVars

\* The loop ends with built, and closes requests without a signer left.
LEMMA MainShutdownOrder ==
  ASSUME TypeOK, ShutdownOrder, Main
  PROVE  ShutdownOrder'
<1>1. CASE MainTakesError \/ MainStartsSigner
  <2>1. built'.closed = built.closed /\ main = "loop" /\ main' \in {"loop", "report"}
    BY <1>1, TakeBuiltTypes DEF MainTakesError, MainStartsSigner
  <2> QED BY <1>1, <2>1 DEF MainTakesError, MainStartsSigner, submitVars, ShutdownOrder, Drained
<1>2. CASE MainReports
  <2>1. responses'.closed = responses.closed
    BY <1>2, RespondTypes DEF MainReports, TypeOK
  <2> QED BY <1>2, <2>1 DEF MainReports, builderVars, submitVars, ShutdownOrder, Drained
<1>3. CASE MainLeavesLoop
  BY <1>3 DEF MainLeavesLoop, builderVars, submitVars, ShutdownOrder, Drained
<1>4. CASE MainCloses
  <2>1. requests'.closed /\ requests'.buf = requests.buf
    BY <1>4, ClosedProperties DEF MainCloses, TypeOK
  <2> QED BY <1>4, <2>1 DEF MainCloses, builderVars, ShutdownOrder, Drained
<1> QED BY <1>1, <1>2, <1>3, <1>4 DEF Main

\* While a signer runs neither the loop nor the submitter is done.
LEMMA SignerShutdownOrder ==
  ASSUME TypeOK, ShutdownOrder, NEW s \in signers, SignerStep(s)
  PROVE  ShutdownOrder'
<1>1. main # "done" /\ submitter # "done"
  BY DEF ShutdownOrder, Drained
<1>2. UNCHANGED <<main, submitter, builder, built>>
  BY DEF SignerStep, SignSucceeds, SignFails, SignerReports, SignerRequests, builderVars,
     submitVars
<1>3. responses'.closed = responses.closed
  <2>1. CASE SignerReports(s)
    <3>1. [id |-> s.txn.id, result |-> "sign"] \in Response
      BY BuilderAssumption DEF TypeOK, Signer, Txn, Ids, Response, Results
    <3> QED BY <2>1, <3>1, RespondTypes DEF SignerReports
  <2> QED BY <2>1 DEF SignerStep, SignSucceeds, SignFails, SignerRequests
<1>4. requests'.closed = requests.closed
  <2>1. CASE SignerRequests(s)
    BY <2>1, SentProperties DEF SignerRequests, TypeOK, Signer
  <2> QED BY <2>1 DEF SignerStep, SignSucceeds, SignFails, SignerReports, submitVars
<1> QED BY <1>1, <1>2, <1>3, <1>4 DEF ShutdownOrder, Drained

\* SubmitTransactions closes responses once requests is drained.
LEMMA SubmitterShutdownOrder ==
  ASSUME TypeOK, ShutdownOrder, Submitter
  PROVE  ShutdownOrder'
<1>1. UNCHANGED <<main, signers, builder, built>>
  BY DEF Submitter, Submit, SubmitterResponds, SubmitterCloses, signVars, builderVars
<1>2. CASE Submit
  <2>1. requests'.closed = requests.closed /\ submitter # "done" /\ submitter' # "done"
    BY <1>2, ReceivedProperties DEF Submit, TypeOK
  <2> QED BY <1>1, <1>2, <2>1 DEF Submit, ShutdownOrder, Drained
<1>3. CASE SubmitterResponds
  <2>1. responses'.closed = responses.closed
    BY <1>3, RespondTypes DEF SubmitterResponds, TypeOK
  <2> QED BY <1>1, <1>3, <2>1 DEF SubmitterResponds, ShutdownOrder, Drained
<1>4. CASE SubmitterCloses
  <2>1. responses'.closed
    BY <1>4, ClosedProperties DEF SubmitterCloses, TypeOK
  <2> QED BY <1>1, <1>4, <2>1 DEF SubmitterCloses, ShutdownOrder, Drained
<1> QED BY <1>2, <1>3, <1>4 DEF Submitter

\* The caller closes no channel of the pipeline.
LEMMA RestShutdownOrder ==
  ASSUME TypeOK, ShutdownOrder, Consumer \/ UNCHANGED vars
  PROVE  ShutdownOrder'
<1>1. CASE ReadResponse
  <2>1. responses'.closed = responses.closed
    BY <1>1, ReceivedProperties DEF ReadResponse, TypeOK
  <2> QED BY <1>1, <2>1 DEF ReadResponse, builderVars, signVars, submitVars,
          ShutdownOrder, Drained
<1>2. CASE ReadEnd \/ UNCHANGED vars
  BY <1>2 DEF ReadEnd, vars, builderVars, signVars, submitVars, ShutdownOrder, Drained
<1> QED BY <1>1, <1>2 DEF Consumer

\* The goroutines of the pipeline end in the order that its channels chain them.
THEOREM PipelineShutdownOrder == Spec => []ShutdownOrder
<1>1. TypeOK /\ ShutdownOrder /\ [Next]_vars => ShutdownOrder'
  BY BuilderShutdownOrder, MainShutdownOrder, SignerShutdownOrder, SubmitterShutdownOrder,
     RestShutdownOrder DEF Next, Finished
<1> QED BY <1>1, InitShutdownOrder, PipelineTypeOK, PTL DEF Spec

\* Whatever the number of goroutines, none of them sends on or closes a channel
\* that is already closed.
THEOREM PipelineNeverPanics == Spec => []NoSendOnClosedChannel
<1>1. TypeOK /\ ShutdownOrder => NoSendOnClosedChannel
  BY DEF TypeOK, ShutdownOrder, NoSendOnClosedChannel, Drained
<1> QED BY <1>1, PipelineTypeOK, PipelineShutdownOrder, PTL

\* The end of responses is the end of every goroutine of the pipeline.
THEOREM PipelineLeavesNothing == Spec => []NothingLeftBehind
<1>1. TypeOK /\ ShutdownOrder => NothingLeftBehind
  BY DEF TypeOK, ShutdownOrder, NothingLeftBehind, Drained
<1> QED BY <1>1, PipelineTypeOK, PipelineShutdownOrder, PTL

-----------------------------------------------------------------------------
(* Sequence numbers on their way to the node.                               *)

\* The numbers the signers hold, the numbers of the requests, and those the
\* node was given.
SignerNumbers  == {s.txn.seq : s \in signers}
RequestNumbers == {requests.buf[k].seq : k \in DOMAIN requests.buf}
NodeNumbers    == {node[k] : k \in DOMAIN node}

\* Every number that has left the builder's channel is below n.
Behind(n) == \A m \in SignerNumbers \union RequestNumbers \union NodeNumbers : m < n

\* A transaction at place k of the builder's channel.
BuiltTxn(k) == k \in DOMAIN built.buf /\ ~built.buf[k].err

\* What is in the builder's channel ascends, and is above all that has left it.
BuiltAscends ==
  /\ \A k \in DOMAIN built.buf : BuiltTxn(k) => Behind(built.buf[k].seq)
  /\ \A k, l \in DOMAIN built.buf :
       BuiltTxn(k) /\ BuiltTxn(l) /\ k < l => built.buf[k].seq < built.buf[l].seq

\* Everything made so far is below n.
AllBelow(n) == /\ Behind(n)
               /\ \A k \in DOMAIN built.buf : BuiltTxn(k) => built.buf[k].seq < n

\* The tracker is above all the numbers it gave out; so is the transaction the
\* builder is about to send above all the others.
TrackerAhead ==
  /\ builder = "init" => snt = 0
  /\ builder = "abort" => building.err
  /\ AllBelow(snt)
  /\ builder = "send" => AllBelow(building.seq) /\ building.seq < snt

\* A number is in one place only: with one signer, in one request or at the
\* node, and there only once.
OnePlace ==
  /\ \A s, t \in signers : s.txn.seq = t.txn.seq => s = t
  /\ \A k, l \in DOMAIN requests.buf : requests.buf[k].seq = requests.buf[l].seq => k = l
  /\ NoNumberSubmittedTwice
  /\ SignerNumbers \intersect RequestNumbers = {}
  /\ SignerNumbers \intersect NodeNumbers = {}
  /\ RequestNumbers \intersect NodeNumbers = {}

NumbersInv == BuiltAscends /\ TrackerAhead /\ OnePlace

\* What is in flight carries numbers.
LEMMA NumbersAreNaturals ==
  ASSUME TypeOK
  PROVE  /\ SignerNumbers \subseteq Nat
         /\ RequestNumbers \subseteq Nat
         /\ NodeNumbers \subseteq Nat
         /\ \A k \in DOMAIN built.buf : BuiltTxn(k) => built.buf[k].seq \in Nat
         /\ snt \in Nat /\ building.seq \in Nat
<1>1. SignerNumbers \subseteq Nat
  BY DEF TypeOK, Signer, Txn, SignerNumbers
<1>2. RequestNumbers \subseteq Nat
  <2>1. requests.buf \in Seq(Txn)
    BY DEF TypeOK, ChannelOf
  <2>2. \A k \in DOMAIN requests.buf : requests.buf[k] \in Txn
    BY <2>1
  <2> QED BY <2>2 DEF RequestNumbers, Txn
<1>3. NodeNumbers \subseteq Nat
  BY DEF TypeOK, NodeNumbers
<1>4. built.buf \in Seq(BuildResponse) /\ building \in BuildResponse /\ snt \in Nat
  BY DEF TypeOK, BuilderTypeOK, ChannelOf
<1>5. \A b \in BuildResponse : b.seq \in Nat
  BY DEF BuildResponse, AccountError
<1> QED BY <1>1, <1>2, <1>3, <1>4, <1>5 DEF BuiltTxn

\* What lets the builder's half of the invariant survive a step downstream of
\* it: no number appears there, and the builder and its channel stand still.
LEMMA DownstreamStep ==
  ASSUME NumbersInv, built'.buf = built.buf, UNCHANGED <<builder, snt, building>>,
         (SignerNumbers \union RequestNumbers \union NodeNumbers)'
           \subseteq SignerNumbers \union RequestNumbers \union NodeNumbers
  PROVE  BuiltAscends' /\ TrackerAhead'
<1>1. \A n : Behind(n) => Behind(n)'
  BY DEF Behind
<1>2. \A k : BuiltTxn(k)' <=> BuiltTxn(k)
  BY DEF BuiltTxn
<1>3. BuiltAscends'
  BY <1>1, <1>2 DEF NumbersInv, BuiltAscends
<1>4. \A n : AllBelow(n) => AllBelow(n)'
  BY <1>1, <1>2 DEF AllBelow
<1>5. AllBelow(snt)' /\ (builder' = "send" => AllBelow(building.seq)')
  BY <1>4 DEF NumbersInv, TrackerAhead
<1> QED BY <1>3, <1>5 DEF NumbersInv, TrackerAhead

\* A step that moves no transaction.
LEMMA QuietStep ==
  ASSUME NumbersInv, built'.buf = built.buf, requests'.buf = requests.buf,
         UNCHANGED <<builder, snt, building, signers, node>>
  PROVE  NumbersInv'
<1>1. /\ SignerNumbers' = SignerNumbers
      /\ RequestNumbers' = RequestNumbers
      /\ NodeNumbers' = NodeNumbers
  BY DEF SignerNumbers, RequestNumbers, NodeNumbers
<1>2. OnePlace'
  BY <1>1 DEF NumbersInv, OnePlace, NoNumberSubmittedTwice
<1> QED BY <1>1, <1>2, DownstreamStep DEF NumbersInv

\* At first no number is in flight.
LEMMA InitNumbers == Init => NumbersInv
<1> SUFFICES ASSUME Init
             PROVE  NumbersInv
  OBVIOUS
<1>1. built.buf = <<>> /\ requests.buf = <<>> /\ signers = {} /\ node = <<>>
  BY NewChannelProperties DEF Init, BuilderInit
<1>2. SignerNumbers = {} /\ RequestNumbers = {} /\ NodeNumbers = {}
  BY <1>1 DEF SignerNumbers, RequestNumbers, NodeNumbers
<1>3. builder = "init" /\ snt = 0
  BY DEF Init, BuilderInit
<1> QED BY <1>1, <1>2, <1>3 DEF NumbersInv, BuiltAscends, TrackerAhead, OnePlace, AllBelow,
           Behind, NoNumberSubmittedTwice

\* The builder gives each transaction a number above all before it.
LEMMA BuilderNumbers ==
  ASSUME TypeOK, NumbersInv, Producer \/ Builder, UNCHANGED pipelineVars
  PROVE  NumbersInv'
<1>1. UNCHANGED <<signers, requests, node>>
  BY DEF pipelineVars, signVars, submitVars
<1>2. /\ SignerNumbers' = SignerNumbers
      /\ RequestNumbers' = RequestNumbers
      /\ NodeNumbers' = NodeNumbers
  BY <1>1 DEF SignerNumbers, RequestNumbers, NodeNumbers
<1>3. OnePlace'
  BY <1>1, <1>2 DEF NumbersInv, OnePlace, NoNumberSubmittedTwice
<1>4. \A n : Behind(n)' <=> Behind(n)
  BY <1>2 DEF Behind
<1>5. ASSUME built'.buf = built.buf
      PROVE  BuiltAscends' /\ \A n : AllBelow(n)' <=> AllBelow(n)
  BY <1>4, <1>5 DEF NumbersInv, BuiltAscends, AllBelow, BuiltTxn
<1>6. CASE UNCHANGED <<builder, snt, building, built>>
  BY <1>1, <1>6, QuietStep
<1>7. CASE AccountFetched
  <2>1. AllBelow(0)
    BY <1>7 DEF AccountFetched, NumbersInv, TrackerAhead
  <2>2. AllBelow(StartNumber)
    BY <2>1, NumbersAreNaturals, BuilderAssumption DEF AllBelow, Behind
  <2> QED BY <1>3, <1>5, <1>7, <2>2 DEF AccountFetched, NumbersInv, TrackerAhead
<1>8. CASE AccountFails
  BY <1>3, <1>5, <1>8 DEF AccountFails, AccountError, NumbersInv, TrackerAhead
<1>9. CASE TakePayload
  <2>1. snt' = snt + 1 /\ building'.seq = snt /\ builder' = "send" /\ built' = built
    BY <1>9 DEF TakePayload
  <2>2. AllBelow(snt) /\ AllBelow(snt + 1)
    BY NumbersAreNaturals DEF NumbersInv, TrackerAhead, AllBelow, Behind
  <2>3. snt < snt + 1
    BY NumbersAreNaturals
  <2>4. TrackerAhead'
    BY <1>5, <2>1, <2>2, <2>3 DEF TrackerAhead
  <2> QED BY <1>3, <1>5, <2>1, <2>4 DEF NumbersInv
<1>10. CASE SendBuilt
  <2> DEFINE last == Len(built.buf) + 1
  <2>1. /\ built'.buf = Append(built.buf, building)
        /\ built.buf \in Seq(BuildResponse) /\ building \in BuildResponse
    BY <1>10, SentProperties DEF SendBuilt, TypeOK, BuilderTypeOK
  <2>2. /\ last \in Nat
        /\ DOMAIN built.buf = 1 .. last - 1
        /\ DOMAIN built'.buf = 1 .. last
        /\ \A k \in DOMAIN built.buf : built'.buf[k] = built.buf[k]
        /\ built'.buf[last] = building
    BY <2>1, AppendFacts
  <2>3. \A k \in DOMAIN built'.buf : k = last \/ (k \in DOMAIN built.buf /\ k < last)
    BY <2>2
  <2>4. ~building.err => builder = "send" /\ AllBelow(building.seq) /\ building.seq < snt
    BY <1>10 DEF SendBuilt, NumbersInv, TrackerAhead
  <2>5. \A k : BuiltTxn(k)' <=> BuiltTxn(k) \/ (k = last /\ ~building.err)
    BY <2>2, <2>3 DEF BuiltTxn
  <2>6. ASSUME NEW k \in DOMAIN built'.buf, BuiltTxn(k)'
        PROVE  Behind(built.buf[k].seq)'
    <3>1. Behind(built'.buf[k].seq)
      BY <2>2, <2>3, <2>4, <2>5, <2>6 DEF NumbersInv, BuiltAscends, AllBelow, BuiltTxn
    <3> QED BY <1>2, <3>1 DEF Behind
  <2>7. ASSUME NEW k \in DOMAIN built'.buf, NEW l \in DOMAIN built'.buf,
               BuiltTxn(k)', BuiltTxn(l)', k < l
        PROVE  built'.buf[k].seq < built'.buf[l].seq
    <3>1. k \in DOMAIN built.buf /\ k # last
      BY <2>2, <2>3, <2>7
    <3>2. BuiltTxn(k) /\ built'.buf[k] = built.buf[k]
      BY <2>2, <2>5, <2>7, <3>1
    <3>3. CASE l = last
      BY <2>2, <2>4, <2>5, <2>7, <3>1, <3>2, <3>3 DEF AllBelow, BuiltTxn
    <3>4. CASE l # last
      <4>1. l \in DOMAIN built.buf /\ BuiltTxn(l) /\ built'.buf[l] = built.buf[l]
        BY <2>2, <2>3, <2>5, <2>7, <3>4
      <4> QED BY <2>7, <3>1, <3>2, <4>1 DEF NumbersInv, BuiltAscends
    <3> QED BY <3>3, <3>4
  <2>8. BuiltAscends'
    BY <2>6, <2>7 DEF BuiltAscends
  <2>9. AllBelow(snt)'
    <3>1. AllBelow(snt) /\ snt' = snt
      BY <1>10 DEF SendBuilt, NumbersInv, TrackerAhead
    <3> QED BY <1>4, <2>2, <2>4, <2>5, <3>1 DEF AllBelow, BuiltTxn
  <2> QED BY <1>3, <1>10, <2>8, <2>9 DEF SendBuilt, NumbersInv, TrackerAhead
<1>11. CASE CloseBuilt
  <2>1. built'.buf = built.buf
    BY <1>11, ClosedProperties DEF CloseBuilt, TypeOK, BuilderTypeOK
  <2> QED BY <1>3, <1>5, <1>11, <2>1 DEF CloseBuilt, NumbersInv, TrackerAhead
<1> QED BY <1>6, <1>7, <1>8, <1>9, <1>10, <1>11 DEF Producer, SendPayload, ClosePayloads,
           Builder, SkipPayload, builderVars

\* A transaction leaves the channel with the smallest number in it, which no
\* signer, request or submission has.
LEMMA MainNumbers ==
  ASSUME TypeOK, NumbersInv, Main
  PROVE  NumbersInv'
<1>1. CASE MainReports \/ MainLeavesLoop
  BY <1>1, QuietStep DEF MainReports, MainLeavesLoop, builderVars, submitVars
<1>2. CASE MainCloses
  <2>1. requests'.buf = requests.buf
    BY <1>2, ClosedProperties DEF MainCloses, TypeOK
  <2> QED BY <1>2, <2>1, QuietStep DEF MainCloses, builderVars
<1>3. CASE MainTakesError \/ MainStartsSigner
  <2> DEFINE head == built.buf[1]
  <2>1. /\ built'.buf = Tail(built.buf)
        /\ NextMessage(built) = Head(built.buf)
        /\ built.buf \in Seq(BuildResponse) /\ built.buf # <<>>
    BY <1>3, ReceivedProperties DEF MainTakesError, MainStartsSigner, TypeOK, BuilderTypeOK
  <2>2. /\ Head(built.buf) = head
        /\ 1 \in DOMAIN built.buf
        /\ DOMAIN built.buf \subseteq Nat \ {0}
        /\ \A k \in DOMAIN built'.buf : k + 1 \in DOMAIN built.buf /\ built'.buf[k] = built.buf[k + 1]
        /\ DOMAIN built'.buf \subseteq Nat \ {0}
    BY <2>1, TailProperties
  <2> HIDE DEF head
  <2>3. UNCHANGED <<builder, snt, building, requests, node>>
    BY <1>3 DEF MainTakesError, MainStartsSigner, submitVars
  <2>4. \A k : BuiltTxn(k)' => BuiltTxn(k + 1) /\ k + 1 \in DOMAIN built.buf /\ k > 0 /\ k \in Nat
    BY <2>2 DEF BuiltTxn
  <2>5. RequestNumbers' = RequestNumbers /\ NodeNumbers' = NodeNumbers
    BY <2>3 DEF RequestNumbers, NodeNumbers
  <2>6. \A k, l \in DOMAIN built'.buf :
          BuiltTxn(k)' /\ BuiltTxn(l)' /\ k < l => built'.buf[k].seq < built'.buf[l].seq
    BY <2>2, <2>4 DEF NumbersInv, BuiltAscends
  <2>7. CASE MainTakesError
    <3>1. signers' = signers /\ SignerNumbers' = SignerNumbers
      BY <2>7 DEF MainTakesError, SignerNumbers
    <3>2. \A n : Behind(n)' <=> Behind(n)
      BY <2>5, <3>1 DEF Behind
    <3>3. \A n : AllBelow(n) => AllBelow(n)'
      BY <2>2, <2>4, <3>2 DEF AllBelow
    <3>4. TrackerAhead'
      BY <2>3, <3>3 DEF NumbersInv, TrackerAhead
    <3>5. ASSUME NEW k \in DOMAIN built'.buf, BuiltTxn(k)'
          PROVE  Behind(built.buf[k].seq)'
      <4>1. Behind(built'.buf[k].seq)
        BY <2>2, <2>4, <3>5 DEF NumbersInv, BuiltAscends
      <4> QED BY <2>5, <3>1, <4>1 DEF Behind
    <3>6. BuiltAscends'
      BY <2>6, <3>5 DEF BuiltAscends
    <3>7. OnePlace'
      BY <2>3, <2>5, <3>1 DEF NumbersInv, OnePlace, NoNumberSubmittedTwice
    <3> QED BY <3>4, <3>6, <3>7 DEF NumbersInv
  <2>8. CASE MainStartsSigner
    <3> DEFINE new == [txn |-> [id |-> head.id, seq |-> head.seq], pc |-> "sign"]
    <3>1. signers' = signers \union {new} /\ ~head.err
      BY <2>1, <2>2, <2>8 DEF MainStartsSigner
    <3>2. new.txn.seq = head.seq
      OBVIOUS
    <3> HIDE DEF new
    <3>3. SignerNumbers' = SignerNumbers \union {head.seq}
      BY <3>1, <3>2 DEF SignerNumbers
    <3>4. BuiltTxn(1) /\ Behind(head.seq)
      BY <2>2, <3>1 DEF BuiltTxn, NumbersInv, BuiltAscends, head
    <3>5. head.seq \in Nat /\ \A m \in SignerNumbers \union RequestNumbers \union NodeNumbers : m \in Nat
      BY <2>2, <3>4, NumbersAreNaturals DEF head
    <3>6. head.seq \notin SignerNumbers \union RequestNumbers \union NodeNumbers
      BY <3>4, <3>5 DEF Behind
    <3>7. \A n : Behind(n) /\ head.seq < n => Behind(n)'
      BY <2>5, <3>3 DEF Behind
    <3>8. \A n : AllBelow(n) => AllBelow(n)'
      <4>1. \A n : AllBelow(n) => head.seq < n
        BY <2>2, <3>4 DEF AllBelow, head
      <4> QED BY <2>2, <2>4, <3>7, <4>1 DEF AllBelow
    <3>9. TrackerAhead'
      BY <2>3, <3>8 DEF NumbersInv, TrackerAhead
    <3>10. ASSUME NEW k \in DOMAIN built'.buf, BuiltTxn(k)'
           PROVE  Behind(built.buf[k].seq)'
      <4>1. BuiltTxn(k + 1) /\ k + 1 \in DOMAIN built.buf /\ 1 < k + 1
            /\ built'.buf[k] = built.buf[k + 1]
        BY <2>2, <2>4, <3>10
      <4>2. Behind(built'.buf[k].seq) /\ head.seq < built'.buf[k].seq
        BY <2>2, <3>4, <4>1 DEF NumbersInv, BuiltAscends, head
      <4> QED BY <2>5, <3>3, <4>2 DEF Behind
    <3>11. BuiltAscends'
      BY <2>6, <3>10 DEF BuiltAscends
    <3>12. \A s, t \in signers' : s.txn.seq = t.txn.seq => s = t
      BY <3>1, <3>2, <3>6 DEF NumbersInv, OnePlace, SignerNumbers
    <3>13. OnePlace'
      BY <2>3, <2>5, <3>3, <3>6, <3>12 DEF NumbersInv, OnePlace, NoNumberSubmittedTwice
    <3> QED BY <3>9, <3>11, <3>13 DEF NumbersInv
  <2> QED BY <1>3, <2>7, <2>8
<1> QED BY <1>1, <1>2, <1>3 DEF Main

\* A signer drops its number or hands it on to one request.
LEMMA SignerNumbersInv ==
  ASSUME TypeOK, NumbersInv, NEW s \in signers, SignerStep(s)
  PROVE  NumbersInv'
<1>1. UNCHANGED <<builder, snt, building, built, node>> /\ NodeNumbers' = NodeNumbers
  BY DEF SignerStep, SignSucceeds, SignFails, SignerReports, SignerRequests, builderVars,
     submitVars, NodeNumbers
<1>2. s \in Signer /\ s.txn.seq \in SignerNumbers
  BY DEF TypeOK, SignerNumbers
<1>3. CASE SignSucceeds(s) \/ SignFails(s)
  <2>1. PICK p \in {"request", "report"} :
          signers' = (signers \ {s}) \union {[s EXCEPT !.pc = p]}
    BY <1>3 DEF SignSucceeds, SignFails
  <2>2. [s EXCEPT !.pc = p].txn = s.txn
    BY <1>2 DEF Signer
  <2>3. PICK t : /\ signers' = (signers \ {s}) \union {t}
                 /\ t.txn = s.txn
    BY <2>1, <2>2
  <2>4. SignerNumbers' = SignerNumbers
    BY <2>3 DEF SignerNumbers
  <2>5. requests' = requests /\ RequestNumbers' = RequestNumbers
    BY <1>3 DEF SignSucceeds, SignFails, submitVars, RequestNumbers
  <2>6. \A u, v \in signers' : u.txn.seq = v.txn.seq => u = v
    BY <2>3 DEF NumbersInv, OnePlace
  <2>7. OnePlace'
    BY <1>1, <2>4, <2>5, <2>6 DEF NumbersInv, OnePlace, NoNumberSubmittedTwice
  <2> QED BY <1>1, <2>4, <2>5, <2>7, DownstreamStep DEF NumbersInv
<1>4. CASE SignerReports(s)
  <2>1. signers' = signers \ {s} /\ SignerNumbers' \subseteq SignerNumbers
    BY <1>4 DEF SignerReports, SignerNumbers
  <2>2. requests' = requests /\ RequestNumbers' = RequestNumbers
    BY <1>4 DEF SignerReports, submitVars, RequestNumbers
  <2>3. OnePlace'
    BY <1>1, <2>1, <2>2 DEF NumbersInv, OnePlace, NoNumberSubmittedTwice
  <2> QED BY <1>1, <2>1, <2>2, <2>3, DownstreamStep DEF NumbersInv
<1>5. CASE SignerRequests(s)
  <2> DEFINE last == Len(requests.buf) + 1
  <2>1. /\ requests'.buf = Append(requests.buf, s.txn)
        /\ requests.buf \in Seq(Txn) /\ s.txn \in Txn
    <3>1. s.txn \in Txn /\ requests \in ChannelOf(Txn) /\ requests' = Sent(requests, s.txn)
      BY <1>2, <1>5 DEF SignerRequests, TypeOK, Signer
    <3>2. \A t \in Txn : /\ Sent(requests, t).buf = Append(requests.buf, t)
                          /\ requests.buf \in Seq(Txn)
      BY <3>1, SentProperties
    <3> QED BY <3>1, <3>2
  <2>2. /\ DOMAIN requests.buf = 1 .. last - 1
        /\ last \in Nat
        /\ DOMAIN requests'.buf = 1 .. last
        /\ \A k \in DOMAIN requests.buf : requests'.buf[k] = requests.buf[k]
        /\ requests'.buf[last] = s.txn
    BY <2>1, AppendFacts
  <2>3. DOMAIN requests'.buf = DOMAIN requests.buf \union {last} /\ last \notin DOMAIN requests.buf
    BY <2>2
  <2>4. RequestNumbers' = RequestNumbers \union {s.txn.seq}
    BY <2>2, <2>3 DEF RequestNumbers
  <2>5. signers' = signers \ {s}
    BY <1>5 DEF SignerRequests
  <2>6. SignerNumbers' \subseteq SignerNumbers /\ s.txn.seq \notin SignerNumbers'
    BY <2>5 DEF SignerNumbers, NumbersInv, OnePlace
  <2>7. s.txn.seq \notin RequestNumbers /\ s.txn.seq \notin NodeNumbers
    BY <1>2 DEF NumbersInv, OnePlace
  <2>8. \A k, l \in DOMAIN requests'.buf : requests'.buf[k].seq = requests'.buf[l].seq => k = l
    BY <2>2, <2>3, <2>7 DEF NumbersInv, OnePlace, RequestNumbers
  <2>9. \A u, v \in signers' : u.txn.seq = v.txn.seq => u = v
    BY <2>5 DEF NumbersInv, OnePlace
  <2>10. OnePlace'
    BY <1>1, <2>4, <2>6, <2>7, <2>8, <2>9 DEF NumbersInv, OnePlace, NoNumberSubmittedTwice
  <2> QED BY <1>1, <1>2, <2>4, <2>6, <2>10, DownstreamStep DEF NumbersInv
<1> QED BY <1>3, <1>4, <1>5 DEF SignerStep

\* A request's number goes to the node, or nowhere.
LEMMA SubmitterNumbers ==
  ASSUME TypeOK, NumbersInv, Submitter
  PROVE  NumbersInv'
<1>1. CASE SubmitterResponds \/ SubmitterCloses
  BY <1>1, QuietStep DEF SubmitterResponds, SubmitterCloses, builderVars, signVars
<1>2. CASE Submit
  <2> DEFINE head == requests.buf[1].seq
  <2>1. /\ requests'.buf = Tail(requests.buf)
        /\ NextMessage(requests) = Head(requests.buf)
        /\ requests.buf \in Seq(Txn) /\ requests.buf # <<>>
    BY <1>2, ReceivedProperties DEF Submit, TypeOK
  <2>2. /\ Head(requests.buf) = requests.buf[1]
        /\ 1 \in DOMAIN requests.buf
        /\ DOMAIN requests'.buf \subseteq Nat \ {0}
        /\ \A k \in DOMAIN requests'.buf :
             k + 1 \in DOMAIN requests.buf /\ requests'.buf[k] = requests.buf[k + 1]
    BY <2>1, TailProperties
  <2>3. UNCHANGED <<builder, snt, building, built, signers>> /\ SignerNumbers' = SignerNumbers
    BY <1>2 DEF Submit, builderVars, signVars, SignerNumbers
  <2>4. /\ head \in RequestNumbers /\ head \notin NodeNumbers /\ head \notin SignerNumbers
        /\ head \in Nat
    BY <2>2, NumbersAreNaturals DEF RequestNumbers, NumbersInv, OnePlace
  <2>5. RequestNumbers' \subseteq RequestNumbers /\ head \notin RequestNumbers'
    <3>1. \A k \in DOMAIN requests'.buf : k + 1 # 1
      BY <2>2
    <3> QED BY <2>2, <3>1 DEF RequestNumbers, NumbersInv, OnePlace
  <2>6. \A k, l \in DOMAIN requests'.buf : requests'.buf[k].seq = requests'.buf[l].seq => k = l
    <3>1. \A k, l \in DOMAIN requests'.buf : k + 1 = l + 1 => k = l
      BY <2>2
    <3> QED BY <2>2, <3>1 DEF NumbersInv, OnePlace
  <2>7. node' = node \/ node' = Append(node, head)
    BY <1>2, <2>1, <2>2 DEF Submit
  <2> HIDE DEF head
  <2>8. NodeNumbers' \subseteq NodeNumbers \union {head} /\ NoNumberSubmittedTwice'
    <3>1. CASE node' = node
      BY <3>1 DEF NodeNumbers, NumbersInv, OnePlace, NoNumberSubmittedTwice
    <3>2. CASE node' = Append(node, head)
      <4> DEFINE last == Len(node) + 1
      <4>1. /\ DOMAIN node = 1 .. last - 1
            /\ last \in Nat
            /\ DOMAIN node' = 1 .. last
            /\ \A k \in DOMAIN node : node'[k] = node[k]
            /\ node'[last] = head
        BY <2>4, <3>2, AppendFacts DEF TypeOK
      <4>2. DOMAIN node' = DOMAIN node \union {last}
        BY <4>1
      <4> HIDE DEF last
      <4> QED BY <2>4, <4>1, <4>2 DEF NodeNumbers, NumbersInv, OnePlace, NoNumberSubmittedTwice
    <3> QED BY <2>7, <3>1, <3>2
  <2>9. \A u, v \in signers' : u.txn.seq = v.txn.seq => u = v
    BY <2>3 DEF NumbersInv, OnePlace
  <2>10. OnePlace'
    <3>1. (SignerNumbers \intersect RequestNumbers)' = {}
      BY <2>3, <2>5 DEF NumbersInv, OnePlace
    <3>2. (SignerNumbers \intersect NodeNumbers)' = {}
      BY <2>3, <2>4, <2>8 DEF NumbersInv, OnePlace
    <3>3. (RequestNumbers \intersect NodeNumbers)' = {}
      BY <2>5, <2>8 DEF NumbersInv, OnePlace
    <3> QED BY <2>6, <2>8, <2>9, <3>1, <3>2, <3>3 DEF OnePlace
  <2> QED BY <2>3, <2>4, <2>5, <2>8, <2>10, DownstreamStep DEF NumbersInv
<1> QED BY <1>1, <1>2 DEF Submitter

\* The caller moves no transaction.
LEMMA RestNumbers ==
  ASSUME NumbersInv, Consumer \/ UNCHANGED vars
  PROVE  NumbersInv'
BY QuietStep DEF Consumer, ReadResponse, ReadEnd, vars, builderVars, signVars, submitVars

\* Sequence numbers ascend up to the signers and stay apart from there on.
THEOREM PipelineNumbers == Spec => []NumbersInv
<1>1. TypeOK /\ NumbersInv /\ [Next]_vars => NumbersInv'
  BY BuilderNumbers, MainNumbers, SignerNumbersInv, SubmitterNumbers, RestNumbers
     DEF Next, Finished
<1> QED BY <1>1, InitNumbers, PipelineTypeOK, PTL DEF Spec

\* However signers overtake one another, the node is never given a sequence
\* number twice.
THEOREM PipelineUniqueNumbers == Spec => []NoNumberSubmittedTwice
<1>1. NumbersInv => NoNumberSubmittedTwice
  BY DEF NumbersInv, OnePlace
<1> QED BY <1>1, PipelineNumbers, PTL

-----------------------------------------------------------------------------
(* Every accepted payload is in one place, from its acceptance to its       *)
(* answer.                                                                  *)

\* The payloads named in a queue of messages, and that none is named twice.
IdsOf(s) == {s[k].id : k \in DOMAIN s}
NoIdTwice(s) == \A k, l \in DOMAIN s : s[k].id = s[l].id => k = l

\* Where a payload may be on its way to its answer; 0 is the account error.
BuildingIds == IF builder \in {"send", "abort"} THEN {building.id} ELSE {}
BuiltIds    == IdsOf(built.buf)
ReportIds   == IF main = "report" THEN {reporting.id} ELSE {}
SignerIds   == {s.txn.id : s \in signers}
RequestIds  == IdsOf(requests.buf)
ResponseIds == IF submitter = "send" THEN {response.id} ELSE {}
AnsweredIds == {i \in 0 .. NumPayloads : answers[i] # <<>>}

AllIds == BuildingIds \union BuiltIds \union ReportIds \union SignerIds
            \union RequestIds \union ResponseIds \union AnsweredIds

\* No two places hold the same payload, and no place holds one twice.
OnlyOnePlace ==
  /\ BuildingIds \intersect (BuiltIds \union ReportIds \union SignerIds \union RequestIds
                               \union ResponseIds \union AnsweredIds) = {}
  /\ BuiltIds \intersect (ReportIds \union SignerIds \union RequestIds
                            \union ResponseIds \union AnsweredIds) = {}
  /\ ReportIds \intersect (SignerIds \union RequestIds \union ResponseIds
                             \union AnsweredIds) = {}
  /\ SignerIds \intersect (RequestIds \union ResponseIds \union AnsweredIds) = {}
  /\ RequestIds \intersect (ResponseIds \union AnsweredIds) = {}
  /\ ResponseIds \intersect AnsweredIds = {}
  /\ NoIdTwice(built.buf)
  /\ \A s, t \in signers : s.txn.id = t.txn.id => s = t
  /\ NoIdTwice(requests.buf)

\* What the account error, if there is one, keeps the builder from.
CalledOffAtOnce == /\ 0 \in AllIds => taken = 0 /\ builder \in {"abort", "close", "done"}
                   /\ builder = "init" => taken = 0
                   /\ builder = "abort" => building = AccountError

\* The payloads on their way or answered are the accepted ones.
Accounted == /\ QueueInOrder
             /\ OnlyOnePlace
             /\ AllIds \ {0} = Accepted
             /\ CalledOffAtOnce

\* What sending a message does to the names in a queue.
LEMMA IdsAppend ==
  ASSUME NEW M, NEW s \in Seq(M), NEW e \in M
  PROVE  /\ IdsOf(Append(s, e)) = IdsOf(s) \union {e.id}
         /\ NoIdTwice(s) /\ e.id \notin IdsOf(s) => NoIdTwice(Append(s, e))
<1> DEFINE t == Append(s, e)
           last == Len(s) + 1
<1>1. /\ DOMAIN t = DOMAIN s \union {last}
      /\ \A k \in DOMAIN s : t[k] = s[k]
      /\ t[last] = e
      /\ last \notin DOMAIN s
  BY AppendFacts
<1> HIDE DEF t, last
<1>2. IdsOf(t) = IdsOf(s) \union {e.id}
  BY <1>1 DEF IdsOf
<1>3. NoIdTwice(s) /\ e.id \notin IdsOf(s) => NoIdTwice(t)
  BY <1>1 DEF IdsOf, NoIdTwice
<1> QED BY <1>2, <1>3 DEF t

\* What receiving one does.
LEMMA IdsTail ==
  ASSUME NEW M, NEW s \in Seq(M), s # <<>>
  PROVE  /\ IdsOf(s) = IdsOf(Tail(s)) \union {Head(s).id}
         /\ NoIdTwice(s) => NoIdTwice(Tail(s)) /\ Head(s).id \notin IdsOf(Tail(s))
<1> DEFINE t == Tail(s)
<1>1. /\ Head(s) = s[1]
      /\ 1 \in DOMAIN s
      /\ \A k \in DOMAIN t : k + 1 \in DOMAIN s /\ t[k] = s[k + 1] /\ k + 1 # 1
      /\ \A k \in DOMAIN s : k = 1 \/ (k - 1 \in DOMAIN t /\ (k - 1) + 1 = k)
      /\ \A k, l \in DOMAIN t : k + 1 = l + 1 => k = l
  BY TailProperties
<1> HIDE DEF t
<1>2. IdsOf(s) = IdsOf(t) \union {Head(s).id}
  <2>1. \A k \in DOMAIN s : s[k].id \in IdsOf(t) \union {Head(s).id}
    BY <1>1 DEF IdsOf
  <2>2. \A k \in DOMAIN t : t[k].id \in IdsOf(s)
    BY <1>1 DEF IdsOf
  <2>3. Head(s).id \in IdsOf(s)
    BY <1>1 DEF IdsOf
  <2> QED BY <2>1, <2>2, <2>3 DEF IdsOf
<1>3. NoIdTwice(s) => NoIdTwice(t) /\ Head(s).id \notin IdsOf(t)
  BY <1>1 DEF IdsOf, NoIdTwice
<1> QED BY <1>2, <1>3 DEF t

\* An answer for payload i, which had none, is its only one.
LEMMA RespondIds ==
  ASSUME TypeOK, NEW r \in Response, Respond(r), r.id \notin AnsweredIds
  PROVE  /\ AnsweredIds' = AnsweredIds \union {r.id}
         /\ answers' = [answers EXCEPT ![r.id] = <<r.result>>]
<1>1. r.id \in 0 .. NumPayloads /\ answers[r.id] = <<>>
  BY DEF Response, AnsweredIds
<1>2. Append(answers[r.id], r.result) = <<r.result>>
  BY <1>1
<1>3. answers' = [answers EXCEPT ![r.id] = <<r.result>>]
  BY <1>2 DEF Respond
<1>4. AnsweredIds' = AnsweredIds \union {r.id}
  BY <1>1, <1>3 DEF AnsweredIds, TypeOK
<1> QED BY <1>3, <1>4

\* A step that only moves payloads from one place to another.
LEMMA MovedOn ==
  ASSUME Accounted, UNCHANGED <<kind, taken, payloads, sent, builder, building>>,
         AllIds' = AllIds, OnlyOnePlace'
  PROVE  Accounted'
<1>1. QueueInOrder' /\ Accepted' = Accepted
  BY DEF Accounted, QueueInOrder, Accepted
<1> QED BY <1>1 DEF Accounted, CalledOffAtOnce

\* A step that moves none.
LEMMA StaysPut ==
  ASSUME OnlyOnePlace, UNCHANGED <<signers, answers>>,
         built'.buf = built.buf, requests'.buf = requests.buf,
         BuildingIds' = BuildingIds, ReportIds' = ReportIds, ResponseIds' = ResponseIds
  PROVE  AllIds' = AllIds /\ OnlyOnePlace'
<1>1. /\ BuiltIds' = BuiltIds
      /\ SignerIds' = SignerIds
      /\ RequestIds' = RequestIds
      /\ AnsweredIds' = AnsweredIds
  BY DEF BuiltIds, SignerIds, RequestIds, AnsweredIds
<1>2. AllIds' = AllIds
  BY <1>1 DEF AllIds
<1> QED BY <1>1, <1>2 DEF OnlyOnePlace

\* At first no payload is accepted.
LEMMA InitAccounted == Init => Accounted
<1> SUFFICES ASSUME Init
             PROVE  Accounted
  OBVIOUS
<1>1. built.buf = <<>> /\ requests.buf = <<>> /\ taken = 0 /\ signers = {}
  BY NewChannelProperties DEF Init, BuilderInit
<1>2. /\ BuildingIds = {} /\ ReportIds = {} /\ ResponseIds = {}
      /\ builder = "init"
  BY DEF Init, BuilderInit, BuildingIds, ReportIds, ResponseIds
<1>3. AnsweredIds = {}
  BY BuilderAssumption DEF Init, AnsweredIds
<1>4. BuiltIds = {} /\ RequestIds = {} /\ SignerIds = {}
  BY <1>1 DEF BuiltIds, RequestIds, SignerIds, IdsOf
<1>5. OnlyOnePlace /\ AllIds = {}
  BY <1>1, <1>2, <1>3, <1>4 DEF OnlyOnePlace, AllIds, NoIdTwice
<1>6. Accepted = {}
  BY <1>1 DEF Accepted
<1>7. QueueInOrder
  BY QueueInit DEF Init
<1> QED BY <1>1, <1>2, <1>5, <1>6, <1>7 DEF Accounted, CalledOffAtOnce

\* The builder accepts the next payload, and passes it on.
LEMMA BuilderAccounted ==
  ASSUME TypeOK, Accounted, Producer \/ Builder, UNCHANGED pipelineVars
  PROVE  Accounted'
<1>1. UNCHANGED <<main, reporting, signers, requests, submitter, response, answers>>
  BY DEF pipelineVars, signVars, submitVars
<1>2. /\ ReportIds' = ReportIds
      /\ SignerIds' = SignerIds
      /\ RequestIds' = RequestIds
      /\ ResponseIds' = ResponseIds
      /\ AnsweredIds' = AnsweredIds
  BY <1>1 DEF ReportIds, SignerIds, RequestIds, ResponseIds, AnsweredIds
<1>3. QueueInOrder'
  BY QueueStep DEF Accounted, TypeOK
<1>4. ASSUME built'.buf = built.buf
      PROVE  BuiltIds' = BuiltIds /\ NoIdTwice(built'.buf)
  BY <1>4 DEF BuiltIds, Accounted, OnlyOnePlace
<1>5. CASE Producer
  <2>1. UNCHANGED <<kind, taken, builder, building, built>>
    BY <1>5 DEF Producer, SendPayload, ClosePayloads, builderVars, callerVars
  <2>2. BuildingIds' = BuildingIds
    BY <2>1 DEF BuildingIds
  <2>3. AllIds' = AllIds /\ OnlyOnePlace'
    BY <1>1, <1>2, <2>1, <2>2, StaysPut DEF Accounted
  <2> QED BY <1>3, <2>1, <2>3 DEF Accounted, CalledOffAtOnce, Accepted
<1>6. CASE AccountFetched
  <2>1. BuildingIds' = BuildingIds /\ UNCHANGED <<kind, taken, built>>
    BY <1>6 DEF AccountFetched, BuildingIds, callerVars
  <2>2. AllIds' = AllIds /\ OnlyOnePlace'
    BY <1>1, <1>2, <2>1, StaysPut DEF Accounted
  <2>3. 0 \notin AllIds /\ builder' = "select"
    BY <1>6 DEF AccountFetched, Accounted, CalledOffAtOnce
  <2> QED BY <1>3, <2>1, <2>2, <2>3 DEF Accounted, CalledOffAtOnce, Accepted
<1>7. CASE AccountFails
  <2>1. BuildingIds = {} /\ BuildingIds' = {0} /\ UNCHANGED <<kind, taken, built>>
    BY <1>7 DEF AccountFails, BuildingIds, AccountError, callerVars
  <2>2. 0 \notin AllIds /\ builder' = "abort" /\ building' = AccountError /\ taken = 0
    BY <1>7 DEF AccountFails, Accounted, CalledOffAtOnce
  <2>3. AllIds' = AllIds \union {0}
    BY <1>2, <1>4, <2>1 DEF AllIds
  <2>4. OnlyOnePlace'
    BY <1>1, <1>2, <1>4, <2>1, <2>2 DEF Accounted, OnlyOnePlace, AllIds
  <2> QED BY <1>3, <2>1, <2>2, <2>3, <2>4 DEF Accounted, CalledOffAtOnce, Accepted
<1>8. CASE SkipPayload
  <2>1. BuildingIds' = BuildingIds /\ UNCHANGED <<kind, built, builder>> /\ builder = "select"
    BY <1>8 DEF SkipPayload, BuildingIds, callerVars
  <2>2. AllIds' = AllIds /\ OnlyOnePlace'
    BY <1>1, <1>2, <2>1, StaysPut DEF Accounted
  <2>3. 0 \notin AllIds
    BY <2>1 DEF Accounted, CalledOffAtOnce
  <2>4. Accepted' = Accepted
    BY <1>8, AcceptedNext DEF SkipPayload, Accounted, TypeOK, callerVars
  <2> QED BY <1>3, <2>1, <2>2, <2>3, <2>4 DEF Accounted, CalledOffAtOnce
<1>9. CASE TakePayload
  <2>1. /\ BuildingIds = {} /\ BuildingIds' = {NextMessage(payloads)}
        /\ UNCHANGED <<kind, built>>
        /\ builder = "select" /\ builder' = "send"
    BY <1>9 DEF TakePayload, BuildingIds, callerVars
  <2>2. NextMessage(payloads) = taken + 1 /\ taken + 1 # 0
    BY <1>9, QueueHead DEF TakePayload, Accounted, TypeOK, Ids
  <2>3. Accepted' = Accepted \union {taken + 1} /\ taken + 1 \notin Accepted
    BY <1>9, AcceptedNext DEF TakePayload, Accounted, TypeOK, callerVars
  <2>4. taken + 1 \notin AllIds /\ 0 \notin AllIds
    BY <2>1, <2>2, <2>3 DEF Accounted, CalledOffAtOnce
  <2>5. AllIds' = AllIds \union {taken + 1}
    BY <1>2, <1>4, <2>1, <2>2 DEF AllIds
  <2>6. OnlyOnePlace'
    BY <1>1, <1>2, <1>4, <2>1, <2>2, <2>4 DEF Accounted, OnlyOnePlace, AllIds
  <2> QED BY <1>3, <2>1, <2>2, <2>3, <2>4, <2>5, <2>6 DEF Accounted, CalledOffAtOnce
<1>10. CASE SendBuilt
  <2>1. /\ built.buf \in Seq(BuildResponse) /\ building \in BuildResponse
        /\ built'.buf = Append(built.buf, building)
    BY <1>10, SentProperties DEF SendBuilt, TypeOK, BuilderTypeOK
  <2>2. BuildingIds = {building.id} /\ BuildingIds' = {} /\ UNCHANGED <<kind, taken>>
    BY <1>10 DEF SendBuilt, BuildingIds, callerVars
  <2>3. BuiltIds' = BuiltIds \union {building.id}
    BY <2>1, IdsAppend DEF BuiltIds
  <2>4. NoIdTwice(built'.buf)
    BY <2>1, <2>2, IdsAppend DEF BuiltIds, Accounted, OnlyOnePlace
  <2>5. AllIds' = AllIds
    BY <1>2, <2>2, <2>3 DEF AllIds
  <2>6. OnlyOnePlace'
    BY <1>1, <1>2, <2>2, <2>3, <2>4 DEF Accounted, OnlyOnePlace
  <2>7. \/ builder = "abort" /\ builder' = "close"
        \/ builder = "send" /\ builder' = "select"
    BY <1>10 DEF SendBuilt
  <2> QED BY <1>3, <2>2, <2>5, <2>6, <2>7 DEF Accounted, CalledOffAtOnce, Accepted
<1>11. CASE CloseBuilt
  <2>1. built'.buf = built.buf
    BY <1>11, ClosedProperties DEF CloseBuilt, TypeOK, BuilderTypeOK
  <2>2. BuildingIds' = BuildingIds /\ UNCHANGED <<kind, taken>> /\ builder' = "done"
    BY <1>11 DEF CloseBuilt, BuildingIds, callerVars
  <2>3. AllIds' = AllIds /\ OnlyOnePlace'
    BY <1>1, <1>2, <2>1, <2>2, StaysPut DEF Accounted
  <2> QED BY <1>3, <2>2, <2>3 DEF Accounted, CalledOffAtOnce, Accepted
<1> QED BY <1>5, <1>6, <1>7, <1>8, <1>9, <1>10, <1>11 DEF Builder

\* The loop takes a payload from the channel and reports it or starts a signer.
LEMMA MainAccounted ==
  ASSUME TypeOK, Accounted, Main
  PROVE  Accounted'
<1>1. UNCHANGED <<kind, taken, payloads, sent, builder, building>>
  BY DEF Main, MainTakesError, MainReports, MainStartsSigner, MainLeavesLoop, MainCloses,
     callerVars, builderVars
<1>2. BuildingIds' = BuildingIds
  BY <1>1 DEF BuildingIds
<1>3. UNCHANGED <<submitter, response>> /\ ResponseIds' = ResponseIds
  BY DEF Main, MainTakesError, MainReports, MainStartsSigner, MainLeavesLoop, MainCloses,
     submitVars, ResponseIds
<1>4. CASE MainTakesError \/ MainStartsSigner
  <2> DEFINE head == NextMessage(built).id
  <2>1. /\ built.buf \in Seq(BuildResponse) /\ built.buf # <<>>
        /\ built'.buf = Tail(built.buf)
        /\ head = Head(built.buf).id
    BY <1>4, ReceivedProperties DEF MainTakesError, MainStartsSigner, TypeOK, BuilderTypeOK
  <2>2. /\ BuiltIds = BuiltIds' \union {head}
        /\ head \notin BuiltIds'
        /\ NoIdTwice(built'.buf)
    BY <2>1, IdsTail DEF BuiltIds, Accounted, OnlyOnePlace
  <2>3. UNCHANGED <<requests, answers>> /\ ReportIds = {}
    BY <1>4 DEF MainTakesError, MainStartsSigner, submitVars, ReportIds
  <2>4. RequestIds' = RequestIds /\ AnsweredIds' = AnsweredIds
    BY <2>3 DEF RequestIds, AnsweredIds
  <2>5. CASE MainTakesError
    <3>1. ReportIds' = {head} /\ signers' = signers
      BY <2>5 DEF MainTakesError, ReportIds
    <3>2. SignerIds' = SignerIds
      BY <3>1 DEF SignerIds
    <3> HIDE DEF head
    <3>3. AllIds' = AllIds
      BY <1>2, <1>3, <2>2, <2>3, <2>4, <3>1, <3>2 DEF AllIds
    <3>4. OnlyOnePlace'
      BY <1>2, <1>3, <2>2, <2>3, <2>4, <3>1, <3>2 DEF Accounted, OnlyOnePlace
    <3> QED BY <1>1, <3>3, <3>4, MovedOn
  <2>6. CASE MainStartsSigner
    <3> DEFINE new == [txn |-> [id |-> head, seq |-> NextMessage(built).seq], pc |-> "sign"]
    <3>1. ReportIds' = {} /\ signers' = signers \union {new}
      BY <2>6 DEF MainStartsSigner, ReportIds
    <3>2. new.txn.id = head
      OBVIOUS
    <3> HIDE DEF new, head
    <3>3. SignerIds' = SignerIds \union {head}
      BY <3>1, <3>2 DEF SignerIds
    <3>4. head \notin SignerIds
      BY <2>2 DEF Accounted, OnlyOnePlace
    <3>5. \A s, t \in signers' : s.txn.id = t.txn.id => s = t
      BY <3>1, <3>2, <3>4 DEF Accounted, OnlyOnePlace, SignerIds
    <3>6. AllIds' = AllIds
      BY <1>2, <1>3, <2>2, <2>3, <2>4, <3>1, <3>3 DEF AllIds
    <3>7. OnlyOnePlace'
      BY <1>2, <1>3, <2>2, <2>3, <2>4, <3>1, <3>3, <3>4, <3>5 DEF Accounted, OnlyOnePlace
    <3> QED BY <1>1, <3>6, <3>7, MovedOn
  <2> QED BY <1>4, <2>5, <2>6
<1>5. CASE MainReports
  <2>1. /\ ReportIds = {reporting.id} /\ ReportIds' = {}
        /\ UNCHANGED <<built, signers, requests>>
    BY <1>5 DEF MainReports, ReportIds, builderVars, submitVars
  <2>2. reporting \in Response /\ Respond(reporting)
    BY <1>5 DEF MainReports, TypeOK
  <2>3. reporting.id \notin AnsweredIds
    BY <2>1 DEF Accounted, OnlyOnePlace
  <2>4. AnsweredIds' = AnsweredIds \union {reporting.id}
    BY <2>2, <2>3, RespondIds
  <2>5. BuiltIds' = BuiltIds /\ SignerIds' = SignerIds /\ RequestIds' = RequestIds
    BY <2>1 DEF BuiltIds, SignerIds, RequestIds
  <2>6. AllIds' = AllIds
    BY <1>2, <1>3, <2>1, <2>4, <2>5 DEF AllIds
  <2>7. OnlyOnePlace'
    BY <1>2, <1>3, <2>1, <2>4, <2>5 DEF Accounted, OnlyOnePlace
  <2> QED BY <1>1, <2>6, <2>7, MovedOn
<1>6. CASE MainLeavesLoop \/ MainCloses
  <2>1. requests'.buf = requests.buf
    BY <1>6, ClosedProperties DEF MainLeavesLoop, MainCloses, TypeOK, submitVars
  <2>2. UNCHANGED <<built, signers, answers>> /\ ReportIds' = ReportIds
    BY <1>6 DEF MainLeavesLoop, MainCloses, builderVars, ReportIds
  <2>3. AllIds' = AllIds /\ OnlyOnePlace'
    BY <1>2, <1>3, <2>1, <2>2, StaysPut DEF Accounted
  <2> QED BY <1>1, <2>3, MovedOn
<1> QED BY <1>4, <1>5, <1>6 DEF Main

\* A signer answers its payload or passes it on.
LEMMA SignerAccounted ==
  ASSUME TypeOK, Accounted, NEW s \in signers, SignerStep(s)
  PROVE  Accounted'
<1>1. UNCHANGED <<kind, taken, payloads, sent, builder, building>>
  BY DEF SignerStep, SignSucceeds, SignFails, SignerReports, SignerRequests,
     callerVars, builderVars
<1>2. UNCHANGED <<built, main, reporting, submitter, response>>
  BY DEF SignerStep, SignSucceeds, SignFails, SignerReports, SignerRequests,
     builderVars, submitVars
<1>3. /\ BuildingIds' = BuildingIds
      /\ BuiltIds' = BuiltIds
      /\ ReportIds' = ReportIds
      /\ ResponseIds' = ResponseIds
  BY <1>1, <1>2 DEF BuildingIds, BuiltIds, ReportIds, ResponseIds
<1>4. s \in Signer /\ s.txn.id \in SignerIds
  BY DEF TypeOK, SignerIds
<1>5. CASE SignSucceeds(s) \/ SignFails(s)
  <2>1. PICK p \in {"request", "report"} :
          signers' = (signers \ {s}) \union {[s EXCEPT !.pc = p]}
    BY <1>5 DEF SignSucceeds, SignFails
  <2>2. [s EXCEPT !.pc = p].txn = s.txn
    BY <1>4 DEF Signer
  <2>3. PICK t : /\ signers' = (signers \ {s}) \union {t}
                 /\ t.txn = s.txn
    BY <2>1, <2>2
  <2>4. SignerIds' = SignerIds
    BY <2>3 DEF SignerIds
  <2>5. \A u, v \in signers' : u.txn.id = v.txn.id => u = v
    BY <2>3 DEF Accounted, OnlyOnePlace
  <2>6. UNCHANGED <<requests, answers>>
    BY <1>5 DEF SignSucceeds, SignFails, submitVars
  <2>7. RequestIds' = RequestIds /\ AnsweredIds' = AnsweredIds
    BY <2>6 DEF RequestIds, AnsweredIds
  <2>8. AllIds' = AllIds /\ OnlyOnePlace'
    BY <1>2, <1>3, <2>4, <2>5, <2>6, <2>7 DEF Accounted, AllIds, OnlyOnePlace
  <2> QED BY <1>1, <2>8, MovedOn
<1>6. CASE SignerReports(s) \/ SignerRequests(s)
  <2>1. signers' = signers \ {s}
    BY <1>6 DEF SignerReports, SignerRequests
  <2>2. SignerIds = SignerIds' \union {s.txn.id} /\ s.txn.id \notin SignerIds'
    BY <2>1 DEF SignerIds, Accounted, OnlyOnePlace
  <2>3. \A u, v \in signers' : u.txn.id = v.txn.id => u = v
    BY <2>1 DEF Accounted, OnlyOnePlace
  <2>4. CASE SignerReports(s)
    <3> DEFINE r == [id |-> s.txn.id, result |-> "sign"]
    <3>1. r \in Response /\ r.id = s.txn.id
      BY <1>4, BuilderAssumption DEF Signer, Txn, Ids, Response, Results
    <3>2. Respond(r) /\ requests' = requests
      BY <2>4 DEF SignerReports, submitVars
    <3>3. r.id \notin AnsweredIds
      BY <1>4, <3>1 DEF Accounted, OnlyOnePlace
    <3>4. AnsweredIds' = AnsweredIds \union {s.txn.id}
      BY <3>1, <3>2, <3>3, RespondIds
    <3>5. RequestIds' = RequestIds
      BY <3>2 DEF RequestIds
    <3>6. AllIds' = AllIds
      BY <1>3, <2>2, <3>4, <3>5 DEF AllIds
    <3>7. OnlyOnePlace'
      BY <1>2, <1>3, <2>2, <2>3, <3>2, <3>4, <3>5 DEF Accounted, OnlyOnePlace
    <3> QED BY <1>1, <3>6, <3>7, MovedOn
  <2>5. CASE SignerRequests(s)
    <3>1. s.txn \in Txn /\ requests \in ChannelOf(Txn) /\ requests' = Sent(requests, s.txn)
      BY <1>4, <2>5 DEF SignerRequests, TypeOK, Signer
    <3>2. requests'.buf = Append(requests.buf, s.txn) /\ requests.buf \in Seq(Txn)
      <4>1. \A t \in Txn : /\ Sent(requests, t).buf = Append(requests.buf, t)
                            /\ requests.buf \in Seq(Txn)
        BY <3>1, SentProperties
      <4> QED BY <3>1, <4>1
    <3>3. RequestIds' = RequestIds \union {s.txn.id}
      BY <3>1, <3>2, IdsAppend DEF RequestIds
    <3>4. NoIdTwice(requests'.buf)
      BY <1>4, <3>1, <3>2, IdsAppend DEF RequestIds, Accounted, OnlyOnePlace
    <3>5. AnsweredIds' = AnsweredIds
      BY <2>5 DEF SignerRequests, AnsweredIds
    <3>6. AllIds' = AllIds
      BY <1>3, <2>2, <3>3, <3>5 DEF AllIds
    <3>7. OnlyOnePlace'
      BY <1>2, <1>3, <2>2, <2>3, <3>3, <3>4, <3>5 DEF Accounted, OnlyOnePlace
    <3> QED BY <1>1, <3>6, <3>7, MovedOn
  <2> QED BY <1>6, <2>4, <2>5
<1> QED BY <1>5, <1>6 DEF SignerStep

\* SubmitTransactions answers each request it takes.
LEMMA SubmitterAccounted ==
  ASSUME TypeOK, Accounted, Submitter
  PROVE  Accounted'
<1>1. UNCHANGED <<kind, taken, payloads, sent, builder, building>>
  BY DEF Submitter, Submit, SubmitterResponds, SubmitterCloses, callerVars, builderVars
<1>2. UNCHANGED <<built, main, reporting, signers>>
  BY DEF Submitter, Submit, SubmitterResponds, SubmitterCloses, builderVars, signVars
<1>3. /\ BuildingIds' = BuildingIds
      /\ BuiltIds' = BuiltIds
      /\ ReportIds' = ReportIds
      /\ SignerIds' = SignerIds
  BY <1>1, <1>2 DEF BuildingIds, BuiltIds, ReportIds, SignerIds
<1>4. CASE Submit
  <2> DEFINE head == NextMessage(requests).id
  <2>1. /\ requests.buf \in Seq(Txn) /\ requests.buf # <<>>
        /\ requests'.buf = Tail(requests.buf)
        /\ head = Head(requests.buf).id
    BY <1>4, ReceivedProperties DEF Submit, TypeOK
  <2>2. /\ RequestIds = RequestIds' \union {head}
        /\ head \notin RequestIds'
        /\ NoIdTwice(requests'.buf)
    BY <2>1, IdsTail DEF RequestIds, Accounted, OnlyOnePlace
  <2>3. ResponseIds = {} /\ ResponseIds' = {head} /\ answers' = answers
    BY <1>4 DEF Submit, ResponseIds
  <2>4. AnsweredIds' = AnsweredIds
    BY <2>3 DEF AnsweredIds
  <2> HIDE DEF head
  <2>5. AllIds' = AllIds
    BY <1>3, <2>2, <2>3, <2>4 DEF AllIds
  <2>6. OnlyOnePlace'
    BY <1>2, <1>3, <2>2, <2>3, <2>4 DEF Accounted, OnlyOnePlace
  <2> QED BY <1>1, <2>5, <2>6, MovedOn
<1>5. CASE SubmitterResponds
  <2>1. ResponseIds = {response.id} /\ ResponseIds' = {} /\ requests' = requests
    BY <1>5 DEF SubmitterResponds, ResponseIds
  <2>2. response \in Response /\ Respond(response)
    BY <1>5 DEF SubmitterResponds, TypeOK
  <2>3. response.id \notin AnsweredIds
    BY <2>1 DEF Accounted, OnlyOnePlace
  <2>4. AnsweredIds' = AnsweredIds \union {response.id}
    BY <2>2, <2>3, RespondIds
  <2>5. RequestIds' = RequestIds
    BY <2>1 DEF RequestIds
  <2>6. AllIds' = AllIds
    BY <1>3, <2>1, <2>4, <2>5 DEF AllIds
  <2>7. OnlyOnePlace'
    BY <1>2, <1>3, <2>1, <2>4, <2>5 DEF Accounted, OnlyOnePlace
  <2> QED BY <1>1, <2>6, <2>7, MovedOn
<1>6. CASE SubmitterCloses
  <2>1. UNCHANGED <<requests, answers>> /\ ResponseIds' = ResponseIds
    BY <1>6 DEF SubmitterCloses, ResponseIds
  <2>2. AllIds' = AllIds /\ OnlyOnePlace'
    BY <1>2, <1>3, <2>1, StaysPut DEF Accounted
  <2> QED BY <1>1, <2>2, MovedOn
<1> QED BY <1>4, <1>5, <1>6 DEF Submitter

\* The caller's reader moves no payload: the record is of what was sent.
LEMMA RestAccounted ==
  ASSUME TypeOK, Accounted, Consumer \/ UNCHANGED vars
  PROVE  Accounted'
<1>1. /\ UNCHANGED <<kind, taken, payloads, sent, builder, building>>
      /\ UNCHANGED <<built, main, reporting, signers, requests, submitter, response, answers>>
  BY DEF Consumer, ReadResponse, ReadEnd, vars, callerVars, builderVars, signVars, submitVars
<1>2. BuildingIds' = BuildingIds /\ ReportIds' = ReportIds /\ ResponseIds' = ResponseIds
  BY <1>1 DEF BuildingIds, ReportIds, ResponseIds
<1>3. AllIds' = AllIds /\ OnlyOnePlace'
  BY <1>1, <1>2, StaysPut DEF Accounted
<1> QED BY <1>1, <1>3, MovedOn

\* No accepted payload is lost, none is duplicated, and nothing else is answered
\* but a failure to fetch the account, before any payload is received.
THEOREM PipelineAccounted == Spec => []Accounted
<1>1. TypeOK /\ Accounted /\ [Next]_vars => Accounted'
  BY BuilderAccounted, MainAccounted, SignerAccounted, SubmitterAccounted, RestAccounted
     DEF Next, Finished
<1> QED BY <1>1, InitAccounted, PipelineTypeOK, PTL DEF Spec

-----------------------------------------------------------------------------
(* The pipeline implements SubmissionService.                               *)

\* A step that neither accepts nor answers nor ends is none of the service's.
LEMMA ServiceStutters ==
  ASSUME UNCHANGED <<kind, taken, answers>>, responses'.closed = responses.closed
  PROVE  UNCHANGED Service!vars
BY DEF Service!vars, Accepted

\* Answering a payload that is still on its way is an answer of the service, or
\* the single error that calls it off.
LEMMA ServiceAnswers ==
  ASSUME TypeOK, Accounted, NEW r \in Response, Respond(r),
         r.id \in AllIds, r.id \notin AnsweredIds, ~responses.closed,
         UNCHANGED <<kind, taken>>
  PROVE  Service!Next
<1>1. /\ answers' = [answers EXCEPT ![r.id] = <<r.result>>]
      /\ responses'.closed = responses.closed
      /\ Accepted' = Accepted
  BY RespondIds, RespondTypes DEF Accepted
<1>2. r.id \in 0 .. NumPayloads /\ r.result \in Results /\ answers[r.id] = <<>>
  BY DEF Response, AnsweredIds
<1>3. CASE r.id = 0
  <2>1. Accepted = {}
    BY <1>3 DEF Accounted, CalledOffAtOnce, Accepted
  <2>2. Service!CallOff(r.result)
    BY <1>1, <1>2, <1>3, <2>1 DEF Service!CallOff, Service!CalledOff
  <2> QED BY <1>2, <2>2 DEF Service!Next
<1>4. CASE r.id # 0
  <2>1. r.id \in Accepted /\ r.id \in 1 .. NumPayloads
    BY <1>2, <1>4, BuilderAssumption DEF Accounted
  <2>2. Service!Answer(r.id, r.result)
    BY <1>1, <1>2, <2>1 DEF Service!Answer
  <2> QED BY <1>2, <2>1, <2>2 DEF Service!Next
<1> QED BY <1>3, <1>4

\* The initial states of the pipeline are initial states of the service.
LEMMA ServiceInit == Init => Service!Init
<1> SUFFICES ASSUME Init
             PROVE  Service!Init
  OBVIOUS
<1>1. taken = 0 /\ ~responses.closed
  BY NewChannelProperties DEF Init, BuilderInit
<1>2. Accepted = {}
  BY <1>1 DEF Accepted
<1> QED BY <1>1, <1>2, NewChannelProperties DEF Init, Service!Init

\* A step of the builder is an acceptance or nothing to the service.
LEMMA BuilderServes ==
  ASSUME TypeOK, Accounted, ShutdownOrder, Producer \/ Builder, UNCHANGED pipelineVars
  PROVE  [Service!Next]_(Service!vars)
<1>1. UNCHANGED <<answers, responses>>
  BY DEF pipelineVars
<1>2. CASE SkipPayload
  <2>1. Accepted' = Accepted
    BY <1>2, AcceptedNext DEF SkipPayload, Accounted, TypeOK, callerVars
  <2> QED BY <1>1, <2>1 DEF Service!vars
<1>3. CASE TakePayload
  <2>1. NextMessage(payloads) = taken + 1 /\ taken + 1 \in 1 .. NumPayloads
    BY <1>3, QueueHead DEF TakePayload, Accounted, TypeOK, Ids
  <2>2. Accepted' = Accepted \union {taken + 1} /\ taken + 1 \notin Accepted
    BY <1>3, AcceptedNext DEF TakePayload, Accounted, TypeOK, callerVars
  <2>3. answers[0] = <<>>
    BY <1>3, BuilderAssumption
       DEF TakePayload, Accounted, CalledOffAtOnce, AllIds, AnsweredIds
  <2>4. ~responses.closed
    BY <1>3 DEF TakePayload, TypeOK, ShutdownOrder, Drained
  <2>5. Service!Accept(taken + 1)
    BY <1>1, <2>2, <2>3, <2>4 DEF Service!Accept, Service!CalledOff
  <2> QED BY <2>1, <2>5 DEF Service!Next
<1>4. CASE Producer \/ AccountFetched \/ AccountFails \/ SendBuilt \/ CloseBuilt
  <2>1. UNCHANGED <<kind, taken>>
    BY <1>4 DEF Producer, SendPayload, ClosePayloads, AccountFetched, AccountFails,
       SendBuilt, CloseBuilt, callerVars, builderVars
  <2> QED BY <1>1, <2>1, ServiceStutters
<1> QED BY <1>2, <1>3, <1>4 DEF Builder

\* A step of the loop is the answer to a payload that did not build, the error
\* that calls the service off, or nothing to the service.
LEMMA MainServes ==
  ASSUME TypeOK, Accounted, ShutdownOrder, Main
  PROVE  [Service!Next]_(Service!vars)
<1>1. UNCHANGED <<kind, taken>>
  BY DEF Main, MainTakesError, MainReports, MainStartsSigner, MainLeavesLoop, MainCloses,
     callerVars, builderVars
<1>2. CASE MainReports
  <2>1. reporting \in Response /\ Respond(reporting)
    BY <1>2 DEF MainReports, TypeOK
  <2>2. reporting.id \in ReportIds
    BY <1>2 DEF MainReports, ReportIds
  <2>3. reporting.id \in AllIds /\ reporting.id \notin AnsweredIds
    BY <2>2 DEF AllIds, Accounted, OnlyOnePlace
  <2>4. ~responses.closed
    BY <1>2 DEF MainReports, ShutdownOrder, Drained
  <2> QED BY <1>1, <2>1, <2>3, <2>4, ServiceAnswers
<1>3. CASE MainTakesError \/ MainStartsSigner \/ MainLeavesLoop \/ MainCloses
  <2>1. UNCHANGED <<answers, responses>>
    BY <1>3 DEF MainTakesError, MainStartsSigner, MainLeavesLoop, MainCloses
  <2> QED BY <1>1, <2>1, ServiceStutters
<1> QED BY <1>2, <1>3 DEF Main

\* A step of a signer is the answer to a payload that was not signed, or nothing.
LEMMA SignerServes ==
  ASSUME TypeOK, Accounted, ShutdownOrder, NEW s \in signers, SignerStep(s)
  PROVE  [Service!Next]_(Service!vars)
<1>1. UNCHANGED <<kind, taken>>
  BY DEF SignerStep, SignSucceeds, SignFails, SignerReports, SignerRequests,
     callerVars, builderVars
<1>2. CASE SignerReports(s)
  <2> DEFINE r == [id |-> s.txn.id, result |-> "sign"]
  <2>1. r \in Response /\ r.id = s.txn.id
    BY BuilderAssumption DEF TypeOK, Signer, Txn, Ids, Response, Results
  <2>2. Respond(r)
    BY <1>2 DEF SignerReports
  <2> HIDE DEF r
  <2>3. r.id \in SignerIds
    BY <2>1 DEF SignerIds
  <2>4. r.id \in AllIds /\ r.id \notin AnsweredIds
    BY <2>3 DEF AllIds, Accounted, OnlyOnePlace
  <2>5. ~responses.closed
    BY DEF ShutdownOrder, Drained
  <2> QED BY <1>1, <2>1, <2>2, <2>4, <2>5, ServiceAnswers
<1>3. CASE SignSucceeds(s) \/ SignFails(s) \/ SignerRequests(s)
  <2>1. UNCHANGED <<answers, responses>>
    BY <1>3 DEF SignSucceeds, SignFails, SignerRequests
  <2> QED BY <1>1, <2>1, ServiceStutters
<1> QED BY <1>2, <1>3 DEF SignerStep

\* When SubmitTransactions is about to close responses, every payload accepted
\* is answered: there is no other place left for one.
LEMMA AllAnsweredAtEnd ==
  ASSUME TypeOK, Accounted, ShutdownOrder, Drained(requests), submitter # "send"
  PROVE  Accepted \subseteq AnsweredIds
<1>1. /\ main = "done" /\ signers = {} /\ builder = "done"
      /\ built.buf = <<>> /\ requests.buf = <<>>
  BY DEF TypeOK, ShutdownOrder, Drained
<1>2. /\ BuildingIds = {} /\ BuiltIds = {} /\ ReportIds = {}
      /\ SignerIds = {} /\ RequestIds = {} /\ ResponseIds = {}
  BY <1>1 DEF BuildingIds, BuiltIds, ReportIds, SignerIds, RequestIds, ResponseIds, IdsOf
<1> QED BY <1>2 DEF AllIds, Accounted

\* A step of the submitter is the answer to a request, the end of the service,
\* or nothing to it.
LEMMA SubmitterServes ==
  ASSUME TypeOK, Accounted, ShutdownOrder, Submitter
  PROVE  [Service!Next]_(Service!vars)
<1>1. UNCHANGED <<kind, taken>>
  BY DEF Submitter, Submit, SubmitterResponds, SubmitterCloses, callerVars, builderVars
<1>2. ~responses.closed
  BY DEF Submitter, Submit, SubmitterResponds, SubmitterCloses, ShutdownOrder
<1>3. CASE Submit
  BY <1>1, <1>3, ServiceStutters DEF Submit
<1>4. CASE SubmitterResponds
  <2>1. response \in Response /\ Respond(response)
    BY <1>4 DEF SubmitterResponds, TypeOK
  <2>2. response.id \in ResponseIds
    BY <1>4 DEF SubmitterResponds, ResponseIds
  <2>3. response.id \in AllIds /\ response.id \notin AnsweredIds
    BY <2>2 DEF AllIds, Accounted, OnlyOnePlace
  <2> QED BY <1>1, <1>2, <2>1, <2>3, ServiceAnswers
<1>5. CASE SubmitterCloses
  <2>1. Accepted \subseteq AnsweredIds
    BY <1>5, AllAnsweredAtEnd DEF SubmitterCloses
  <2>2. responses'.closed = TRUE
    BY <1>5, ClosedProperties DEF SubmitterCloses, TypeOK
  <2>3. \A i \in Accepted : answers[i] # <<>>
    BY <2>1 DEF AnsweredIds
  <2>4. answers' = answers /\ Accepted' = Accepted
    BY <1>1, <1>5 DEF SubmitterCloses, Accepted
  <2>5. Service!End
    BY <1>2, <2>2, <2>3, <2>4 DEF Service!End
  <2> QED BY <2>5 DEF Service!Next
<1> QED BY <1>3, <1>4, <1>5 DEF Submitter

\* The reader's steps are nothing to the service.
LEMMA RestServes ==
  ASSUME TypeOK, Consumer \/ UNCHANGED vars
  PROVE  UNCHANGED Service!vars
<1>1. UNCHANGED <<kind, taken, answers>>
  BY DEF Consumer, ReadResponse, ReadEnd, vars, callerVars, builderVars
<1>2. CASE ReadResponse
  <2>1. responses'.closed = responses.closed
    BY <1>2, ReceivedProperties DEF ReadResponse, TypeOK
  <2> QED BY <1>1, <2>1, ServiceStutters
<1>3. CASE ReadEnd \/ UNCHANGED vars
  BY <1>1, <1>3, ServiceStutters DEF ReadEnd, vars
<1> QED BY <1>2, <1>3 DEF Consumer

\* Each payload of a known type is answered exactly once, with an error or a
\* submission, before responses is closed; or a single error calls it all off.
THEOREM PipelineAnswersOnce == Spec => AnswersEachPayloadOnce
<1>1. TypeOK /\ Accounted /\ ShutdownOrder /\ [Next]_vars => [Service!Next]_(Service!vars)
  BY BuilderServes, MainServes, SignerServes, SubmitterServes, RestServes
     DEF Next, Finished
<1> QED BY <1>1, ServiceInit, PipelineTypeOK, PipelineAccounted, PipelineShutdownOrder, PTL
        DEF Spec, AnswersEachPayloadOnce, Service!Spec

-----------------------------------------------------------------------------
(* The number of a transaction follows from the name of its payload.        *)

\* The sequence number payload i consumes: one for each known payload before it.
SeqOf(i) == StartNumber + Known(1, i - 1)

\* The tracker counts the known payloads received, and each number it gave out
\* belongs to one of them.
TrackerCounts == /\ builder = "init" => snt = 0
                 /\ builder \in {"select", "send"} => snt = SeqOf(taken + 1)
                 /\ \A n \in Consumed : \E i \in Accepted : SeqOf(i) = n

\* Whatever carries a payload's transaction carries its number.
CarriedNumbers ==
  /\ builder = "send" => building.seq = SeqOf(building.id)
  /\ \A k \in DOMAIN built.buf : BuiltTxn(k) => built.buf[k].seq = SeqOf(built.buf[k].id)
  /\ \A s \in signers : s.txn.seq = SeqOf(s.txn.id)
  /\ \A k \in DOMAIN requests.buf : requests.buf[k].seq = SeqOf(requests.buf[k].id)

\* A success is reported only for a payload whose number the node was given.
SuccessesAreGiven ==
  /\ main = "report" => reporting.result # "ok"
  /\ submitter = "send" /\ response.result = "ok" => SeqOf(response.id) \in NodeNumbers
  /\ \A i \in Ids : answers[i] = <<"ok">> => SeqOf(i) \in NodeNumbers

NumberedByPayload == TrackerCounts /\ CarriedNumbers /\ SuccessesAreGiven

\* At first no number is given out.
LEMMA InitNumbered == Init => NumberedByPayload
<1> SUFFICES ASSUME Init
             PROVE  NumberedByPayload
  OBVIOUS
<1>1. built.buf = <<>> /\ requests.buf = <<>> /\ signers = {} /\ snt = 0
  BY NewChannelProperties DEF Init, BuilderInit
<1>2. builder = "init" /\ main = "loop" /\ submitter = "receive"
  BY DEF Init, BuilderInit
<1>3. Consumed = {}
  BY <1>1, BuilderAssumption DEF Consumed
<1>4. \A i \in Ids : answers[i] # <<"ok">>
  BY BuilderAssumption DEF Init, Ids
<1> QED BY <1>1, <1>2, <1>3, <1>4
        DEF NumberedByPayload, TrackerCounts, CarriedNumbers, SuccessesAreGiven, BuiltTxn

\* The first payload gets the account's number on chain.
LEMMA SeqOfFirst == SeqOf(0 + 1) = StartNumber
<1>1. Known(1, 0) = 0
  BY KnownEmpty
<1>2. (0 + 1) - 1 = 0 /\ StartNumber + 0 = StartNumber
  BY BuilderAssumption
<1> QED BY <1>1, <1>2 DEF SeqOf

\* Each payload of a known type moves the number on by one.
LEMMA SeqOfNext ==
  ASSUME NEW i \in Nat
  PROVE  /\ SeqOf(i + 1) \in Nat
         /\ SeqOf(i + 1 + 1) = SeqOf(i + 1) + (IF kind[i + 1] = "other" THEN 0 ELSE 1)
<1>1. (i + 1) - 1 = i /\ (i + 1 + 1) - 1 = i + 1
  OBVIOUS
<1>2. Known(1, i + 1) = Known(1, i) + (IF kind[i + 1] = "other" THEN 0 ELSE 1)
  BY KnownNext
<1>3. Known(1, i) \in Nat
  BY KnownType
<1>4. SeqOf(i + 1) = StartNumber + Known(1, i)
  BY <1>1 DEF SeqOf
<1>5. SeqOf(i + 1 + 1) = StartNumber + Known(1, i + 1)
  BY <1>1 DEF SeqOf
<1> QED BY <1>2, <1>3, <1>4, <1>5, BuilderAssumption

\* The kinds of the payloads do not change, and so neither do their numbers.
LEMMA SeqOfUnchanged ==
  ASSUME kind' = kind
  PROVE  \A i : SeqOf(i)' = SeqOf(i)
BY DEF SeqOf, Known

\* The builder stands still and nothing more is accepted: its tracker counts on.
LEMMA TrackerStays ==
  ASSUME TrackerCounts, UNCHANGED <<kind, taken, builder, snt>>
  PROVE  TrackerCounts'
<1>1. Accepted' = Accepted /\ Consumed' = Consumed
  BY DEF Accepted, Consumed
<1> QED BY <1>1, SeqOfUnchanged DEF TrackerCounts

\* A step after which no answer says "ok" that did not before.
LEMMA SuccessesStay ==
  ASSUME SuccessesAreGiven, kind' = kind, NodeNumbers \subseteq NodeNumbers',
         UNCHANGED <<main, reporting, submitter, response>>,
         \A i \in Ids : answers'[i] = <<"ok">> => answers[i] = <<"ok">>
  PROVE  SuccessesAreGiven'
BY SeqOfUnchanged DEF SuccessesAreGiven

\* The builder numbers a payload by the known ones before it.
LEMMA BuilderNumbered ==
  ASSUME TypeOK, Accounted, NumbersInv, NumberedByPayload, Producer \/ Builder,
         UNCHANGED pipelineVars
  PROVE  NumberedByPayload'
<1>1. UNCHANGED <<main, reporting, signers, requests, submitter, response, node, answers, kind>>
  BY DEF pipelineVars, signVars, submitVars, Producer, SendPayload, ClosePayloads, Builder,
     AccountFetched, AccountFails, SkipPayload, TakePayload, SendBuilt, CloseBuilt, callerVars
<1>2. SuccessesAreGiven'
  BY <1>1, SuccessesStay DEF NumberedByPayload, NodeNumbers
<1>3. ASSUME built'.buf = built.buf, builder' = "send" => building'.seq = SeqOf(building.id)'
      PROVE  CarriedNumbers'
  BY <1>1, <1>3, SeqOfUnchanged DEF NumberedByPayload, CarriedNumbers, BuiltTxn
<1>4. CASE Producer
  <2>1. UNCHANGED <<taken, builder, snt, building, built>>
    BY <1>4 DEF Producer, SendPayload, ClosePayloads, builderVars
  <2>2. CarriedNumbers'
    BY <1>1, <1>3, <2>1, SeqOfUnchanged DEF NumberedByPayload, CarriedNumbers
  <2> QED BY <1>1, <1>2, <2>1, <2>2, TrackerStays DEF NumberedByPayload
<1>5. CASE AccountFetched
  <2>1. builder' = "select" /\ snt' = StartNumber /\ UNCHANGED <<taken, built>>
    BY <1>5 DEF AccountFetched
  <2>2. Consumed' = {}
    BY <2>1, BuilderAssumption DEF Consumed
  <2>3. SeqOf(taken + 1) = StartNumber
    BY <1>5, SeqOfFirst DEF AccountFetched, Accounted, CalledOffAtOnce
  <2>4. TrackerCounts'
    BY <1>1, <2>1, <2>2, <2>3, SeqOfUnchanged DEF TrackerCounts
  <2> QED BY <1>2, <1>3, <2>1, <2>4 DEF NumberedByPayload
<1>6. CASE AccountFails \/ CloseBuilt
  <2>1. builder' \in {"abort", "done"} /\ UNCHANGED <<taken, snt>>
    BY <1>6 DEF AccountFails, CloseBuilt
  <2>2. built'.buf = built.buf
    BY <1>6, ClosedProperties DEF AccountFails, CloseBuilt, TypeOK, BuilderTypeOK
  <2>3. Consumed' = Consumed /\ Accepted' = Accepted
    BY <1>1, <2>1 DEF Consumed, Accepted
  <2>4. TrackerCounts'
    BY <1>1, <2>1, <2>3, SeqOfUnchanged DEF NumberedByPayload, TrackerCounts
  <2> QED BY <1>2, <1>3, <2>1, <2>2, <2>4 DEF NumberedByPayload
<1>7. CASE SkipPayload
  <2>1. /\ builder = "select" /\ taken' = taken + 1 /\ taken \in Nat
        /\ UNCHANGED <<builder, snt, building, built>>
    BY <1>7 DEF SkipPayload, TypeOK, BuilderTypeOK
  <2>2. kind[taken + 1] = "other"
    BY <1>7, QueueHead DEF SkipPayload, TypeOK, Accounted
  <2>3. SeqOf(taken + 1 + 1) = SeqOf(taken + 1)
    BY <2>1, <2>2, SeqOfNext
  <2>4. Accepted' = Accepted /\ Consumed' = Consumed
    BY <1>1, <1>7, <2>1, AcceptedNext DEF SkipPayload, TypeOK, Accounted, Consumed
  <2>5. TrackerCounts'
    BY <1>1, <2>1, <2>3, <2>4, SeqOfUnchanged DEF NumberedByPayload, TrackerCounts
  <2> QED BY <1>2, <1>3, <2>1, <2>5 DEF NumberedByPayload
<1>8. CASE TakePayload
  <2>1. /\ builder = "select" /\ builder' = "send" /\ taken' = taken + 1 /\ taken \in Nat
        /\ snt' = snt + 1 /\ snt \in Nat /\ built' = built
        /\ building'.id = NextMessage(payloads) /\ building'.seq = snt
    BY <1>8 DEF TakePayload, TypeOK, BuilderTypeOK
  <2>2. NextMessage(payloads) = taken + 1 /\ kind[taken + 1] # "other"
    BY <1>8, QueueHead DEF TakePayload, TypeOK, Accounted
  <2>3. snt = SeqOf(taken + 1)
    BY <2>1 DEF NumberedByPayload, TrackerCounts
  <2>4. SeqOf(taken + 1 + 1) = SeqOf(taken + 1) + 1
    BY <2>1, <2>2, SeqOfNext
  <2>5. Accepted' = Accepted \union {taken + 1}
    BY <1>1, <1>8, <2>1, <2>2, AcceptedNext DEF TakePayload, TypeOK, Accounted
  <2>6. Consumed' \subseteq Consumed \union {snt}
    BY <2>1, BuilderAssumption DEF Consumed
  <2>7. TrackerCounts'
    BY <1>1, <2>1, <2>3, <2>4, <2>5, <2>6, SeqOfUnchanged
       DEF NumberedByPayload, TrackerCounts
  <2>8. building'.seq = SeqOf(building.id)'
    BY <1>1, <2>1, <2>2, <2>3, SeqOfUnchanged
  <2> QED BY <1>2, <1>3, <2>1, <2>7, <2>8 DEF NumberedByPayload
<1>9. CASE SendBuilt
  <2>1. /\ builder' \in {"select", "close"}
        /\ builder' = "select" => builder = "send"
        /\ UNCHANGED <<taken, snt>>
    BY <1>9 DEF SendBuilt
  <2>2. Consumed' = Consumed /\ Accepted' = Accepted
    BY <1>1, <2>1 DEF Consumed, Accepted
  <2>3. TrackerCounts'
    BY <1>1, <2>1, <2>2, SeqOfUnchanged DEF NumberedByPayload, TrackerCounts
  <2>4. /\ built.buf \in Seq(BuildResponse) /\ building \in BuildResponse
        /\ built'.buf = Append(built.buf, building)
    BY <1>9, SentProperties DEF SendBuilt, TypeOK, BuilderTypeOK
  <2>5. \A k \in DOMAIN built'.buf :
          \/ k \in DOMAIN built.buf /\ built'.buf[k] = built.buf[k]
          \/ built'.buf[k] = building
    BY <2>4, AppendFacts
  <2>6. ~building.err => building.seq = SeqOf(building.id)
    BY <1>9 DEF SendBuilt, NumbersInv, TrackerAhead, NumberedByPayload, CarriedNumbers
  <2>7. CarriedNumbers'
    BY <1>1, <2>1, <2>5, <2>6, SeqOfUnchanged DEF NumberedByPayload, CarriedNumbers, BuiltTxn
  <2> QED BY <1>2, <2>3, <2>7 DEF NumberedByPayload
<1> QED BY <1>4, <1>5, <1>6, <1>7, <1>8, <1>9 DEF Builder

\* A transaction takes its number along to its signer.
LEMMA MainNumbered ==
  ASSUME TypeOK, Accounted, NumberedByPayload, Main
  PROVE  NumberedByPayload'
<1>1. UNCHANGED <<kind, taken, builder, snt, building, submitter, response, node>>
  BY DEF Main, MainTakesError, MainReports, MainStartsSigner, MainLeavesLoop, MainCloses,
     callerVars, builderVars, submitVars
<1>2. TrackerCounts'
  BY <1>1, TrackerStays DEF NumberedByPayload
<1>3. NodeNumbers' = NodeNumbers
  BY <1>1 DEF NodeNumbers
<1>4. CASE MainTakesError \/ MainStartsSigner
  <2>1. /\ built'.buf = Tail(built.buf) /\ NextMessage(built) = Head(built.buf)
        /\ built.buf \in Seq(BuildResponse) /\ built.buf # <<>>
    BY <1>4, ReceivedProperties DEF MainTakesError, MainStartsSigner, TypeOK, BuilderTypeOK
  <2>2. /\ Head(built.buf) = built.buf[1] /\ 1 \in DOMAIN built.buf
        /\ \A k \in DOMAIN built'.buf : k + 1 \in DOMAIN built.buf /\ built'.buf[k] = built.buf[k + 1]
    BY <2>1, TailProperties
  <2>3. \A k \in DOMAIN built'.buf : BuiltTxn(k)' => built'.buf[k].seq = SeqOf(built'.buf[k].id)
    BY <2>2 DEF NumberedByPayload, CarriedNumbers, BuiltTxn
  <2>4. UNCHANGED <<requests, answers>>
    BY <1>4 DEF MainTakesError, MainStartsSigner, submitVars
  <2>5. \A s \in signers' : s.txn.seq = SeqOf(s.txn.id)
    <3>1. CASE MainTakesError
      BY <3>1 DEF MainTakesError, NumberedByPayload, CarriedNumbers
    <3>2. CASE MainStartsSigner
      <4> DEFINE new == [txn |-> [id |-> built.buf[1].id, seq |-> built.buf[1].seq], pc |-> "sign"]
      <4>1. signers' = signers \union {new} /\ ~built.buf[1].err
        BY <2>1, <2>2, <3>2 DEF MainStartsSigner
      <4>2. built.buf[1].seq = SeqOf(built.buf[1].id)
        BY <2>2, <4>1 DEF NumberedByPayload, CarriedNumbers, BuiltTxn
      <4>3. new.txn.seq = built.buf[1].seq /\ new.txn.id = built.buf[1].id
        OBVIOUS
      <4> HIDE DEF new
      <4> QED BY <4>1, <4>2, <4>3 DEF NumberedByPayload, CarriedNumbers
    <3> QED BY <1>4, <3>1, <3>2
  <2>6. CarriedNumbers'
    BY <1>1, <2>3, <2>4, <2>5, SeqOfUnchanged DEF NumberedByPayload, CarriedNumbers
  <2>7. main' = "report" => reporting'.result # "ok"
    BY <1>4 DEF MainTakesError, MainStartsSigner, NumberedByPayload, SuccessesAreGiven
  <2>8. SuccessesAreGiven'
    BY <1>1, <1>3, <2>4, <2>7, SeqOfUnchanged DEF NumberedByPayload, SuccessesAreGiven
  <2> QED BY <1>2, <2>6, <2>8 DEF NumberedByPayload
<1>5. CASE MainReports \/ MainLeavesLoop \/ MainCloses
  <2>1. requests'.buf = requests.buf /\ UNCHANGED <<built, signers>>
    BY <1>5, ClosedProperties DEF MainReports, MainLeavesLoop, MainCloses, TypeOK,
       submitVars, builderVars
  <2>2. CarriedNumbers'
    BY <1>1, <2>1, SeqOfUnchanged DEF NumberedByPayload, CarriedNumbers, BuiltTxn
  <2>3. \A i \in Ids : answers'[i] = <<"ok">> => answers[i] = <<"ok">>
    <3>1. CASE MainReports
      <4>1. reporting \in Response /\ Respond(reporting) /\ reporting.result # "ok"
        BY <3>1 DEF MainReports, TypeOK, NumberedByPayload, SuccessesAreGiven
      <4>2. reporting.id \notin AnsweredIds
        BY <3>1 DEF MainReports, ReportIds, Accounted, OnlyOnePlace
      <4>3. answers' = [answers EXCEPT ![reporting.id] = <<reporting.result>>]
        BY <4>1, <4>2, RespondIds
      <4>4. <<reporting.result>> # <<"ok">>
        BY <4>1
      <4> QED BY <4>3, <4>4, BuilderAssumption DEF TypeOK, Ids
    <3>2. CASE MainLeavesLoop \/ MainCloses
      BY <3>2 DEF MainLeavesLoop, MainCloses
    <3> QED BY <1>5, <3>1, <3>2
  <2>4. main' # "report"
    BY <1>5 DEF MainReports, MainLeavesLoop, MainCloses
  <2>5. SuccessesAreGiven'
    BY <1>1, <1>3, <2>3, <2>4, SeqOfUnchanged DEF NumberedByPayload, SuccessesAreGiven
  <2> QED BY <1>2, <2>2, <2>5 DEF NumberedByPayload
<1> QED BY <1>4, <1>5 DEF Main

\* A signer hands the number on, and never reports a success.
LEMMA SignerNumbered ==
  ASSUME TypeOK, Accounted, NumberedByPayload, NEW s \in signers, SignerStep(s)
  PROVE  NumberedByPayload'
<1>1. /\ UNCHANGED <<kind, taken, builder, snt, building, submitter, response, node>>
      /\ UNCHANGED <<built, main, reporting>>
  BY DEF SignerStep, SignSucceeds, SignFails, SignerReports, SignerRequests,
     callerVars, builderVars, submitVars
<1>2. TrackerCounts'
  BY <1>1, TrackerStays DEF NumberedByPayload
<1>3. NodeNumbers' = NodeNumbers
  BY <1>1 DEF NodeNumbers
<1>4. s \in Signer /\ s.txn \in Txn /\ s.txn.seq = SeqOf(s.txn.id)
  BY DEF TypeOK, Signer, NumberedByPayload, CarriedNumbers
<1>5. \A t \in signers' : t.txn.seq = SeqOf(t.txn.id)
  <2>1. CASE SignSucceeds(s) \/ SignFails(s)
    <3>1. PICK p \in {"request", "report"} :
            signers' = (signers \ {s}) \union {[s EXCEPT !.pc = p]}
      BY <2>1 DEF SignSucceeds, SignFails
    <3>2. [s EXCEPT !.pc = p].txn = s.txn
      BY <1>4 DEF Signer
    <3> QED BY <1>4, <3>1, <3>2 DEF NumberedByPayload, CarriedNumbers
  <2>2. CASE SignerReports(s) \/ SignerRequests(s)
    BY <2>2 DEF SignerReports, SignerRequests, NumberedByPayload, CarriedNumbers
  <2> QED BY <2>1, <2>2 DEF SignerStep
<1>6. \A k \in DOMAIN requests'.buf : requests'.buf[k].seq = SeqOf(requests'.buf[k].id)
  <2>1. CASE SignerRequests(s)
    <3>1. requests \in ChannelOf(Txn) /\ requests' = Sent(requests, s.txn)
      BY <2>1 DEF SignerRequests, TypeOK
    <3>2. requests'.buf = Append(requests.buf, s.txn) /\ requests.buf \in Seq(Txn)
      <4>1. \A t \in Txn : /\ Sent(requests, t).buf = Append(requests.buf, t)
                            /\ requests.buf \in Seq(Txn)
        BY <3>1, SentProperties
      <4> QED BY <1>4, <3>1, <4>1
    <3>3. \A k \in DOMAIN requests'.buf :
            \/ k \in DOMAIN requests.buf /\ requests'.buf[k] = requests.buf[k]
            \/ requests'.buf[k] = s.txn
      BY <1>4, <3>2, AppendFacts
    <3> QED BY <1>4, <3>3 DEF NumberedByPayload, CarriedNumbers
  <2>2. CASE requests' = requests
    BY <2>2 DEF NumberedByPayload, CarriedNumbers
  <2> QED BY <2>1, <2>2 DEF SignerStep, SignSucceeds, SignFails, SignerReports, submitVars
<1>7. CarriedNumbers'
  BY <1>1, <1>5, <1>6, SeqOfUnchanged DEF NumberedByPayload, CarriedNumbers, BuiltTxn
<1>8. \A i \in Ids : answers'[i] = <<"ok">> => answers[i] = <<"ok">>
  <2>1. CASE SignerReports(s)
    <3> DEFINE r == [id |-> s.txn.id, result |-> "sign"]
    <3>1. r \in Response /\ r.id = s.txn.id /\ <<r.result>> # <<"ok">>
      BY <1>4, BuilderAssumption DEF Txn, Ids, Response, Results
    <3>2. Respond(r)
      BY <2>1 DEF SignerReports
    <3> HIDE DEF r
    <3>3. r.id \notin AnsweredIds
      BY <3>1 DEF SignerIds, Accounted, OnlyOnePlace
    <3>4. answers' = [answers EXCEPT ![r.id] = <<r.result>>]
      BY <3>1, <3>2, <3>3, RespondIds
    <3> QED BY <3>1, <3>4, BuilderAssumption DEF TypeOK, Ids
  <2>2. CASE answers' = answers
    BY <2>2
  <2> QED BY <2>1, <2>2 DEF SignerStep, SignSucceeds, SignFails, SignerRequests
<1>9. SuccessesAreGiven'
  BY <1>1, <1>3, <1>8, SuccessesStay DEF NumberedByPayload
<1> QED BY <1>2, <1>7, <1>9 DEF NumberedByPayload

\* The node is given a request's number before its success is reported.
LEMMA SubmitterNumbered ==
  ASSUME TypeOK, Accounted, NumberedByPayload, Submitter
  PROVE  NumberedByPayload'
<1>1. /\ UNCHANGED <<kind, taken, builder, snt, building>>
      /\ UNCHANGED <<built, main, reporting, signers>>
  BY DEF Submitter, Submit, SubmitterResponds, SubmitterCloses, callerVars, builderVars,
     signVars
<1>2. TrackerCounts'
  BY <1>1, TrackerStays DEF NumberedByPayload
<1>3. CASE Submit
  <2>1. /\ requests'.buf = Tail(requests.buf)
        /\ NextMessage(requests) = Head(requests.buf)
        /\ requests.buf \in Seq(Txn) /\ requests.buf # <<>>
    BY <1>3, ReceivedProperties DEF Submit, TypeOK
  <2>2. /\ Head(requests.buf) = requests.buf[1]
        /\ 1 \in DOMAIN requests.buf
        /\ \A k \in DOMAIN requests'.buf :
             k + 1 \in DOMAIN requests.buf /\ requests'.buf[k] = requests.buf[k + 1]
    BY <2>1, TailProperties
  <2>3. CarriedNumbers'
    BY <1>1, <2>2, SeqOfUnchanged DEF NumberedByPayload, CarriedNumbers, BuiltTxn
  <2> DEFINE head == requests.buf[1]
  <2>4. head \in Txn /\ head.seq = SeqOf(head.id) /\ head.seq \in Nat
    <3>1. head \in Txn
      BY <2>1, <2>2, TailProperties
    <3>2. head.seq = SeqOf(head.id)
      BY <2>2 DEF NumberedByPayload, CarriedNumbers
    <3> QED BY <3>1, <3>2 DEF Txn
  <2>5. PICK o \in Outcomes :
          /\ response' = [id |-> head.id, result |-> o.result]
          /\ node' = IF o.given THEN Append(node, head.seq) ELSE node
    BY <1>3, <2>1, <2>2 DEF Submit
  <2>6. o.result = "ok" => o.given
    BY DEF Outcomes
  <2> HIDE DEF head
  <2>7. /\ NodeNumbers \subseteq NodeNumbers'
        /\ o.given => head.seq \in NodeNumbers'
    <3>1. CASE node' = node
      BY <3>1, <2>5 DEF NodeNumbers, TypeOK
    <3>2. CASE node' = Append(node, head.seq)
      <4>1. /\ DOMAIN node' = 1 .. Len(node) + 1
            /\ DOMAIN node = 1 .. Len(node) /\ Len(node) \in Nat
            /\ \A k \in DOMAIN node : node'[k] = node[k]
            /\ node'[Len(node) + 1] = head.seq
        BY <2>4, <3>2, AppendFacts DEF TypeOK
      <4> QED BY <4>1 DEF NodeNumbers
    <3> QED BY <2>5, <3>1, <3>2
  <2>8. response'.id = head.id /\ response'.result = o.result /\ answers' = answers
    BY <1>3, <2>5 DEF Submit
  <2>9. response'.result = "ok" => SeqOf(response'.id) \in NodeNumbers'
    BY <2>4, <2>6, <2>7, <2>8
  <2>10. SuccessesAreGiven'
    BY <1>1, <2>7, <2>8, <2>9, SeqOfUnchanged DEF NumberedByPayload, SuccessesAreGiven
  <2> QED BY <1>2, <2>3, <2>10 DEF NumberedByPayload
<1>4. CASE SubmitterResponds \/ SubmitterCloses
  <2>1. UNCHANGED <<requests, response, node>> /\ NodeNumbers' = NodeNumbers
    BY <1>4 DEF SubmitterResponds, SubmitterCloses, NodeNumbers
  <2>2. CarriedNumbers'
    BY <1>1, <2>1, SeqOfUnchanged DEF NumberedByPayload, CarriedNumbers, BuiltTxn
  <2>3. submitter' # "send"
    BY <1>4 DEF SubmitterResponds, SubmitterCloses
  <2>4. \A i \in Ids : answers'[i] = <<"ok">> => SeqOf(i) \in NodeNumbers
    <3>1. CASE SubmitterResponds
      <4>1. response \in Response /\ Respond(response) /\ submitter = "send"
        BY <3>1 DEF SubmitterResponds, TypeOK
      <4>2. response.id \notin AnsweredIds
        BY <4>1 DEF ResponseIds, Accounted, OnlyOnePlace
      <4>3. answers' = [answers EXCEPT ![response.id] = <<response.result>>]
        BY <4>1, <4>2, RespondIds
      <4>4. <<response.result>> = <<"ok">> => response.result = "ok"
        OBVIOUS
      <4>5. ASSUME NEW i \in Ids, answers'[i] = <<"ok">>
            PROVE  SeqOf(i) \in NodeNumbers
        <5>1. CASE i = response.id
          <6>1. answers'[i] = <<response.result>>
            BY <4>3, <5>1, BuilderAssumption DEF TypeOK, Ids
          <6> QED BY <4>1, <4>4, <4>5, <5>1, <6>1 DEF NumberedByPayload, SuccessesAreGiven
        <5>2. CASE i # response.id
          <6>1. answers'[i] = answers[i]
            BY <4>3, <5>2, BuilderAssumption DEF TypeOK, Ids
          <6> QED BY <4>5, <6>1 DEF NumberedByPayload, SuccessesAreGiven
        <5> QED BY <5>1, <5>2
      <4> QED BY <4>5
    <3>2. CASE SubmitterCloses
      BY <3>2 DEF SubmitterCloses, NumberedByPayload, SuccessesAreGiven
    <3> QED BY <1>4, <3>1, <3>2
  <2>5. SuccessesAreGiven'
    BY <1>1, <2>1, <2>3, <2>4, SeqOfUnchanged DEF NumberedByPayload, SuccessesAreGiven
  <2> QED BY <1>2, <2>2, <2>5 DEF NumberedByPayload
<1> QED BY <1>3, <1>4 DEF Submitter

\* The reader has no part in it.
LEMMA RestNumbered ==
  ASSUME NumberedByPayload, Consumer \/ UNCHANGED vars
  PROVE  NumberedByPayload'
<1>1. /\ UNCHANGED <<kind, taken, builder, snt, building, submitter, response, node>>
      /\ UNCHANGED <<built, main, reporting, signers, requests, answers>>
  BY DEF Consumer, ReadResponse, ReadEnd, vars, callerVars, builderVars, signVars, submitVars
<1>2. TrackerCounts'
  BY <1>1, TrackerStays DEF NumberedByPayload
<1>3. CarriedNumbers'
  BY <1>1, SeqOfUnchanged DEF NumberedByPayload, CarriedNumbers, BuiltTxn
<1>4. SuccessesAreGiven'
  BY <1>1, SuccessesStay DEF NumberedByPayload, NodeNumbers
<1> QED BY <1>2, <1>3, <1>4 DEF NumberedByPayload

\* The builder's tracker, and all that carries a transaction, number the payloads
\* of known types consecutively from the account's number on chain.
THEOREM PipelineNumberedByPayload == Spec => []NumberedByPayload
<1>1. TypeOK /\ Accounted /\ NumbersInv /\ NumberedByPayload /\ [Next]_vars => NumberedByPayload'
  BY BuilderNumbered, MainNumbered, SignerNumbered, SubmitterNumbered, RestNumbered
     DEF Next, Finished
<1> QED BY <1>1, InitNumbered, PipelineTypeOK, PipelineAccounted, PipelineNumbers, PTL DEF Spec

\* At the end, a number the node was not given belongs to a payload answered with
\* an error, and different numbers to different payloads.
LEMMA GapsAreFailures ==
  ASSUME TypeOK, Accounted, ShutdownOrder, NumberedByPayload
  PROVE  NoSilentGap
<1> SUFFICES ASSUME responses.closed
             PROVE  Cardinality({n \in Consumed : \A i \in DOMAIN node : node[i] # n})
                      <= Cardinality(Failures)
  BY DEF NoSilentGap
<1> DEFINE Gaps == {n \in Consumed : \A i \in DOMAIN node : node[i] # n}
           owner == [n \in Gaps |-> CHOOSE i \in Accepted : SeqOf(i) = n]
<1>1. \A n \in Gaps : owner[n] \in Accepted /\ SeqOf(owner[n]) = n
  BY DEF NumberedByPayload, TrackerCounts
<1>2. Accepted \subseteq AnsweredIds
  BY AllAnsweredAtEnd DEF ShutdownOrder
<1>3. \A n \in Gaps : n \notin NodeNumbers
  BY DEF NodeNumbers
<1>4. \A n \in Gaps : owner[n] \in Failures
  <2>1. Accepted \subseteq Ids
    BY <1>2, BuilderAssumption DEF AnsweredIds, Accepted, Ids
  <2> HIDE DEF Gaps, owner
  <2> QED BY <1>1, <1>2, <1>3, <2>1
          DEF AnsweredIds, Failures, NumberedByPayload, SuccessesAreGiven
<1>5. owner \in [Gaps -> Failures]
  BY <1>4
<1> HIDE DEF Gaps, owner
<1>6. owner \in Injection(Gaps, Failures)
  BY <1>1, <1>5 DEF Injection, IsInjective
<1>7. IsFiniteSet(Failures)
  <2>1. IsFiniteSet(Ids)
    BY FS_Interval, BuilderAssumption DEF Ids
  <2>2. Failures \in SUBSET Ids
    BY DEF Failures
  <2> QED BY <2>1, <2>2, FS_Subset
<1>8. Cardinality(Gaps) <= Cardinality(Failures)
  BY <1>6, <1>7, FS_Injection
<1> QED BY <1>8 DEF Gaps

\* A caller that reads the responses learns of each hole in the numbers that the
\* node was given.
THEOREM PipelineNoSilentGap == Spec => []NoSilentGap
BY GapsAreFailures, PipelineTypeOK, PipelineAccounted, PipelineShutdownOrder,
   PipelineNumberedByPayload, PTL
==============================================================================

----------------------------- MODULE TxnPipeline -----------------------------
(***************************************************************************)
(* BuildSignAndSubmitTransactionsWithSignFunction of                       *)
(* transactionSubmission.go: the builder goroutine (TxnBuilder), the loop  *)
(* over what it builds, one signing goroutine for each transaction, the    *)
(* goroutine running SubmitTransactions, and the caller, which sends       *)
(* payloads and reads responses.  The loop, every signer and the submitter *)
(* write to the caller's responses channel; the submitter closes it.       *)
(*                                                                         *)
(* Outside the program: the sign function and the node, both of which may  *)
(* fail.  A node may also have taken a transaction whose answer was lost.  *)
(***************************************************************************)
EXTENDS TxnBuilder

CONSTANTS RequestCap,   \* capacity of submissionRequests (20)
          ResponseCap,  \* capacity of the caller's responses channel
          Signable      \* kinds of transaction the sign function can sign

ASSUME PipelineAssumption == /\ RequestCap \in Nat \ {0}
                             /\ ResponseCap \in Nat \ {0}
                             /\ Signable \subseteq Kinds

VARIABLES readsEarly,  \* whether the caller reads responses while it sends
                       \* payloads, or only after it has closed them
          main,        \* where the loop over buildResponses is
          reporting,   \* the build error it is about to report
          signers,     \* the signing goroutines wg counts
          requests,    \* the submissionRequests channel
          submitter,   \* where the SubmitTransactions goroutine is
          response,    \* the response it is about to send
          responses,   \* the caller's responses channel
          node,        \* outside: the sequence numbers the node was given
          consumer,    \* whether the caller has seen the end of responses
          answers      \* history: everything sent on responses, by payload

signVars   == <<main, reporting, signers>>
submitVars == <<requests, submitter, response, node>>
readVars   == <<readsEarly, consumer>>
vars == <<callerVars, payloads, builderVars, signVars, submitVars, responses,
          readVars, answers>>

\* What a response says: the submission went through, or which step failed.
Results == {"ok", "account", "build", "sign", "submit"}

Txn == [id : Ids, seq : Nat]

\* A signing goroutine: its transaction and what it does next.
Signer == [txn : Txn, pc : {"sign", "report", "request"}]

Response == [id : 0 .. NumPayloads, result : Results]

Init == /\ BuilderInit
        /\ readsEarly \in BOOLEAN
        /\ main = "loop"
        /\ reporting = [id |-> 0, result |-> "account"]
        /\ signers = {}
        /\ requests = NewChannel
        /\ submitter = "receive"
        /\ response = [id |-> 0, result |-> "ok"]
        /\ responses = NewChannel
        /\ node = <<>>
        /\ consumer = "reading"
        /\ answers = [i \in 0 .. NumPayloads |-> <<>>]

\* Sending r on responses, and the record of it.
Respond(r) == /\ HasRoom(responses, ResponseCap)
              /\ responses' = Sent(responses, r)
              /\ answers' = [answers EXCEPT ![r.id] = Append(@, r.result)]

-----------------------------------------------------------------------------
(* The loop over buildResponses.                                            *)

\* Mutant: a build error is logged and dropped.
MainDropsError == /\ main = "loop"
                  /\ HasMessage(built)
                  /\ NextMessage(built).err
                  /\ built' = Received(built)
                  /\ UNCHANGED <<callerVars, payloads, builder, snt, building, taken,
                                 main, reporting, signers, submitVars, responses,
                                 readVars, answers>>

\* The next build response is an error.
MainTakesError ==
  /\ main = "loop"
  /\ HasMessage(built)
  /\ NextMessage(built).err
  /\ built' = Received(built)
  /\ main' = "report"
  /\ reporting' = [id |-> NextMessage(built).id,
                   result |-> IF NextMessage(built).id = 0 THEN "account" ELSE "build"]
  /\ UNCHANGED <<callerVars, payloads, builder, snt, building, taken, signers,
                 submitVars, responses, readVars, answers>>

\* It is passed on, which blocks the loop while responses is full.
MainReports == /\ main = "report"
               /\ Respond(reporting)
               /\ main' = "loop"
               /\ UNCHANGED <<callerVars, payloads, builderVars, reporting, signers,
                              submitVars, readVars>>

\* Mutant: a pool of one signing goroutine.
MainStartsOnlySigner ==
  /\ main = "loop"
  /\ HasMessage(built)
  /\ ~NextMessage(built).err
  /\ signers = {}
  /\ built' = Received(built)
  /\ signers' = {[txn |-> [id |-> NextMessage(built).id, seq |-> NextMessage(built).seq],
                  pc |-> "sign"]}
  /\ UNCHANGED <<callerVars, payloads, builder, snt, building, taken, main,
                 reporting, submitVars, responses, readVars, answers>>

\* The next build response is a transaction: wg.Add(1) and a goroutine.
MainStartsSigner ==
  /\ main = "loop"
  /\ HasMessage(built)
  /\ ~NextMessage(built).err
  /\ built' = Received(built)
  /\ signers' = signers \union
       {[txn |-> [id |-> NextMessage(built).id, seq |-> NextMessage(built).seq],
         pc |-> "sign"]}
  /\ UNCHANGED <<callerVars, payloads, builder, snt, building, taken, main,
                 reporting, submitVars, responses, readVars, answers>>

\* buildResponses is closed and empty: the loop ends.
MainLeavesLoop == /\ main = "loop"
                  /\ Drained(built)
                  /\ main' = "wait"
                  /\ UNCHANGED <<callerVars, payloads, builderVars, reporting, signers,
                                 submitVars, responses, readVars, answers>>

\* Mutant: the requests are closed without waiting for the signers.
MainClosesEarly == /\ main = "wait"
                   /\ requests' = Closed(requests)
                   /\ main' = "done"
                   /\ UNCHANGED <<callerVars, payloads, builderVars, reporting, signers,
                                  submitter, response, node, responses, readVars, answers>>

\* wg.Wait() returns; close(submissionRequests).
MainCloses == /\ main = "wait"
              /\ signers = {}
              /\ requests' = Closed(requests)
              /\ main' = "done"
              /\ UNCHANGED <<callerVars, payloads, builderVars, reporting, signers,
                             submitter, response, node, responses, readVars, answers>>

Main == \/ MainTakesError \/ MainReports \/ MainStartsSigner
        \/ MainLeavesLoop \/ MainCloses

-----------------------------------------------------------------------------
(* A signing goroutine.  Its last send and the deferred wg.Done are one     *)
(* step: nothing but wg.Wait can tell them apart.                           *)

\* singleSigner signs a plain RawTransaction only; a caller's own sign function
\* may know other kinds.
CanSign(txn) == kind[txn.id] \in Signable

\* sign returns a signed transaction.
SignSucceeds(s) == /\ s.pc = "sign"
                   /\ CanSign(s.txn)
                   /\ signers' = (signers \ {s}) \union {[s EXCEPT !.pc = "request"]}
                   /\ UNCHANGED <<callerVars, payloads, builderVars, main, reporting,
                                  submitVars, responses, readVars, answers>>

\* sign returns an error: always for a kind it does not know.
SignFails(s) == /\ s.pc = "sign"
                /\ "sign" \in Faults \/ ~CanSign(s.txn)
                /\ signers' = (signers \ {s}) \union {[s EXCEPT !.pc = "report"]}
                /\ UNCHANGED <<callerVars, payloads, builderVars, main, reporting,
                               submitVars, responses, readVars, answers>>

\* Mutant: the error is reported and the transaction is submitted all the same.
SignerReportsAndGoesOn(s) ==
  /\ s.pc = "report"
  /\ Respond([id |-> s.txn.id, result |-> "sign"])
  /\ signers' = (signers \ {s}) \union {[s EXCEPT !.pc = "request"]}
  /\ UNCHANGED <<callerVars, payloads, builderVars, main, reporting, submitVars, readVars>>

\* responses <- the error, then wg.Done()
SignerReports(s) == /\ s.pc = "report"
                    /\ Respond([id |-> s.txn.id, result |-> "sign"])
                    /\ signers' = signers \ {s}
                    /\ UNCHANGED <<callerVars, payloads, builderVars, main, reporting,
                                   submitVars, readVars>>

\* submissionRequests <- the signed transaction, then wg.Done()
SignerRequests(s) == /\ s.pc = "request"
                     /\ HasRoom(requests, RequestCap)
                     /\ requests' = Sent(requests, s.txn)
                     /\ signers' = signers \ {s}
                     /\ UNCHANGED <<callerVars, payloads, builderVars, main, reporting,
                                    submitter, response, node, responses, readVars, answers>>

SignerStep(s) == SignSucceeds(s) \/ SignFails(s) \/ SignerReports(s) \/ SignerRequests(s)

-----------------------------------------------------------------------------
(* SubmitTransactions.                                                      *)

\* What a call of SubmitTransaction may come to: the result, and whether the
\* node was given the transaction.
Outcomes == {[result |-> "ok", given |-> TRUE]}
              \union (IF "submit" \in Faults
                      THEN {[result |-> "submit", given |-> FALSE]} ELSE {})
              \union (IF "lost" \in Faults
                      THEN {[result |-> "submit", given |-> TRUE]} ELSE {})

\* Receive a request and submit its transaction.
Submit == /\ submitter = "receive"
          /\ HasMessage(requests)
          /\ requests' = Received(requests)
          /\ \E o \in Outcomes :
               /\ response' = [id |-> NextMessage(requests).id, result |-> o.result]
               /\ node' = IF o.given THEN Append(node, NextMessage(requests).seq) ELSE node
          /\ submitter' = "send"
          /\ UNCHANGED <<callerVars, payloads, builderVars, signVars, responses,
                         readVars, answers>>

\* responses <- the outcome
SubmitterResponds == /\ submitter = "send"
                     /\ Respond(response)
                     /\ submitter' = "receive"
                     /\ UNCHANGED <<callerVars, payloads, builderVars, signVars, requests,
                                    response, node, readVars>>

\* Mutant: the goroutine stops at the close, whatever is still buffered.
SubmitterStopsAtClose == /\ submitter = "receive"
                         /\ requests.closed
                         /\ responses' = Closed(responses)
                         /\ submitter' = "done"
                         /\ UNCHANGED <<callerVars, payloads, builderVars, signVars, requests,
                                        response, node, readVars, answers>>

\* requests is closed and empty: the deferred close(responses) runs.
SubmitterCloses == /\ submitter = "receive"
                   /\ Drained(requests)
                   /\ responses' = Closed(responses)
                   /\ submitter' = "done"
                   /\ UNCHANGED <<callerVars, payloads, builderVars, signVars, requests,
                                  response, node, readVars, answers>>

Submitter == Submit \/ SubmitterResponds \/ SubmitterCloses

-----------------------------------------------------------------------------
(* The caller's reader.                                                     *)

Reading == /\ consumer = "reading"
           /\ readsEarly \/ payloads.closed

ReadResponse == /\ Reading
                /\ HasMessage(responses)
                /\ responses' = Received(responses)
                /\ UNCHANGED <<callerVars, payloads, builderVars, signVars, submitVars,
                               readVars, answers>>

ReadEnd == /\ Reading
           /\ Drained(responses)
           /\ consumer' = "done"
           /\ UNCHANGED <<callerVars, payloads, builderVars, signVars, submitVars,
                          responses, readsEarly, answers>>

Consumer == ReadResponse \/ ReadEnd

-----------------------------------------------------------------------------

AccountFailed == answers[0] # <<>>

\* The caller cannot send its next payload: nobody receives any more.
PayloadsStuck == /\ AccountFailed
                 /\ ~payloads.closed
                 /\ ~HasRoom(payloads, PayloadCap)

\* A caller that reads only after sending everything is blocked on payloads,
\* while the loop is blocked on reporting a build error to it.
CallerStuck == /\ ~readsEarly /\ ~payloads.closed
               /\ main = "report"
               /\ ~HasRoom(responses, ResponseCap)
               /\ ~HasRoom(payloads, PayloadCap)

\* The states in which the program may rest.
Finished == /\ \/ consumer = "done" /\ (payloads.closed \/ PayloadsStuck)
               \/ ~readsEarly /\ PayloadsStuck
               \/ CallerStuck
            /\ UNCHANGED vars

pipelineVars == <<signVars, submitVars, responses, readVars, answers>>

Next == \/ (Producer \/ Builder) /\ UNCHANGED pipelineVars
        \/ Main
        \/ \E s \in signers : SignerStep(s)
        \/ Submitter
        \/ Consumer
        \/ Finished

\* The Go scheduler runs every runnable goroutine, sign and the node's HTTP
\* calls return (the client has a timeout), and the caller keeps sending and
\* reading.
Fairness == /\ WF_vars(Producer /\ UNCHANGED pipelineVars)
            /\ WF_vars(Builder /\ UNCHANGED pipelineVars)
            /\ WF_vars(Main)
            /\ \A i \in Ids : WF_vars(\E s \in signers : s.txn.id = i /\ SignerStep(s))
            /\ WF_vars(Submitter)
            /\ WF_vars(Consumer)

Spec == Init /\ [][Next]_vars /\ Fairness

-----------------------------------------------------------------------------

TypeOK == /\ BuilderTypeOK
          /\ readsEarly \in BOOLEAN
          /\ main \in {"loop", "report", "wait", "done"}
          /\ reporting \in Response
          /\ signers \subseteq Signer
          /\ requests \in ChannelOf(Txn)
          /\ submitter \in {"receive", "send", "done"}
          /\ response \in Response
          /\ responses \in ChannelOf(Response)
          /\ node \in Seq(Nat)
          /\ consumer \in {"reading", "done"}
          /\ answers \in [0 .. NumPayloads -> Seq(Results)]

\* No goroutine ever finds closed a channel it is about to send on or to close,
\* which would panic: the loop waits for every signer before it closes
\* submissionRequests, and responses, which three kinds of goroutine write to,
\* is closed only after all of them have written.
NoSendOnClosedChannel ==
  /\ builder # "done" => ~built.closed
  /\ main \in {"loop", "report", "wait"} \/ signers # {} =>
       ~requests.closed /\ ~responses.closed
  /\ submitter # "done" => ~responses.closed

\* When responses is closed, no goroutine of the pipeline is left and nothing
\* is left in its channels: the builder, every signer and the submitter exit.
NothingLeftBehind ==
  responses.closed =>
    /\ builder = "done" /\ main = "done" /\ submitter = "done"
    /\ signers = {} /\ Drained(built) /\ Drained(requests)

\* No sequence number is submitted twice, although signers overtake each other.
NoNumberSubmittedTwice == \A i, j \in DOMAIN node : node[i] = node[j] => i = j

\* The numbers handed to transactions, and the payloads answered with an error.
Consumed == StartNumber .. snt - 1
Failures == {i \in Ids : answers[i] # <<>> /\ answers[i] # <<"ok">>}

\* A number the node never got leaves a hole that blocks all later
\* transactions of the account.  Each hole has its own error among the
\* responses, so a caller that reads them knows.
NoSilentGap ==
  responses.closed =>
    Cardinality({n \in Consumed : \A i \in DOMAIN node : node[i] # n})
      <= Cardinality(Failures)

\* The doc comment: "Closes output chan `responses` on completion of input
\* chan `payloads`."
ClosedOnCompletionOfPayloads == responses.closed => Drained(payloads)

\* Each payload of a known type is answered exactly once, with an error or a
\* submission, before responses is closed; or a single error calls it all off.
Service == INSTANCE SubmissionService
             WITH accepted <- Accepted, ended <- responses.closed
AnswersEachPayloadOnce == Service!Spec

\* The caller that keeps reading sees the end of responses.
ResponsesEnd == readsEarly => <>(consumer = "done")

\* A caller gets all its payloads through, even one that reads nothing until it
\* has sent everything and whatever the capacity of its responses channel:
\* each transaction waits in a goroutine of its own.  Only a build error that
\* the loop itself has to report when responses and payloads are both full can
\* block a caller that does not read; only a failure to fetch the account one
\* that does.
EveryPayloadIsSent ==
  <>(payloads.closed \/ AccountFailed \/ CallerStuck)
==============================================================================

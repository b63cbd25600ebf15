----------------------------- MODULE BatchSubmit -----------------------------
(***************************************************************************)
(* BatchSubmitTransactions of transactionSubmission.go: requests are       *)
(* gathered in an array of BatchSize slots that is submitted whenever its  *)
(* last slot is filled.  The array, the slot index and the loops over the  *)
(* index are those of the code, the reset of the index before the loops    *)
(* included.                                                               *)
(***************************************************************************)
EXTENDS Naturals, Sequences, FiniteSets, GoChannel

CONSTANTS NumRequests,  \* requests the caller sends, named 1 .. NumRequests
          BatchSize,    \* slots in the array (20)
          RequestCap,   \* capacity of the requests channel
          ResponseCap   \* capacity of the responses channel

VARIABLES sent,       \* requests the caller has sent
          requests,   \* the requests channel
          slots,      \* inputs and ids; 0 is an empty slot (a nil *SignedTransaction)
          i,          \* the slot index
          pc,         \* where the goroutine is
          outcome,    \* what the last BatchSubmitTransaction returned
          j,          \* index of the loop over the responses
          responses,  \* the responses channel
          submitted,  \* history: the batches submitted
          answered    \* history: the requests answered

vars == <<sent, requests, slots, i, pc, outcome, j, responses, submitted, answered>>

RequestIds == 1 .. NumRequests
Slots == 0 .. BatchSize - 1

\* BatchSubmitTransaction fails as a whole, or lists the slots that failed.
Outcomes == [err : BOOLEAN, failures : SUBSET Slots]

Init == /\ sent = 0
        /\ requests = NewChannel
        /\ slots = [s \in Slots |-> 0]
        /\ i = 0
        /\ pc = "receive"
        /\ outcome = [err |-> FALSE, failures |-> {}]
        /\ j = 0
        /\ responses = NewChannel
        /\ submitted = <<>>
        /\ answered = <<>>

SendRequest == /\ sent < NumRequests
               /\ HasRoom(requests, RequestCap)
               /\ requests' = Sent(requests, sent + 1)
               /\ sent' = sent + 1
               /\ UNCHANGED <<slots, i, pc, outcome, j, responses, submitted, answered>>

CloseRequests == /\ sent = NumRequests
                 /\ ~requests.closed
                 /\ requests' = Closed(requests)
                 /\ UNCHANGED <<sent, slots, i, pc, outcome, j, responses, submitted, answered>>

\* A request goes into slot i; the last slot triggers a submission.
Receive == /\ pc = "receive"
           /\ HasMessage(requests)
           /\ requests' = Received(requests)
           /\ slots' = [slots EXCEPT ![i] = NextMessage(requests)]
           /\ IF i >= BatchSize - 1
              THEN pc' = "submit" /\ UNCHANGED i
              ELSE i' = i + 1 /\ UNCHANGED pc
           /\ UNCHANGED <<sent, outcome, j, responses, submitted, answered>>

\* i = 0, then BatchSubmitTransaction(inputs)
SubmitBatch == /\ pc = "submit"
               /\ i' = 0
               /\ submitted' = Append(submitted, slots)
               /\ outcome' \in Outcomes
               /\ j' = 0
               /\ pc' = "respond"
               /\ UNCHANGED <<sent, requests, slots, responses, answered>>

\* for j := 0; j < i; j++ sends one response for each slot: an error where the
\* whole batch failed, and none where the slot itself did.
Respond == /\ pc = "respond"
           /\ j < i
           /\ outcome.err \/ j \in outcome.failures
           /\ HasRoom(responses, ResponseCap)
           /\ responses' = Sent(responses, [id |-> slots[j], err |-> outcome.err])
           /\ answered' = Append(answered, slots[j])
           /\ j' = j + 1
           /\ UNCHANGED <<sent, requests, slots, i, pc, outcome, submitted>>

\* For a slot that did not fail the failures are indexed with -1.
RespondPanics == /\ pc = "respond"
                 /\ j < i
                 /\ ~outcome.err /\ j \notin outcome.failures
                 /\ pc' = "panic"
                 /\ UNCHANGED <<sent, requests, slots, i, outcome, j, responses, submitted, answered>>

\* The loop is over: i++ and back to the requests.
NextRound == /\ pc = "respond"
             /\ j >= i
             /\ i' = i + 1
             /\ pc' = "receive"
             /\ UNCHANGED <<sent, requests, slots, outcome, j, responses, submitted, answered>>

\* The requests are closed and empty: the deferred close(responses) runs.
CloseResponses == /\ pc = "receive"
                  /\ Drained(requests)
                  /\ responses' = Closed(responses)
                  /\ pc' = "done"
                  /\ UNCHANGED <<sent, requests, slots, i, outcome, j, submitted, answered>>

ReadResponse == /\ HasMessage(responses)
                /\ responses' = Received(responses)
                /\ UNCHANGED <<sent, requests, slots, i, pc, outcome, j, submitted, answered>>

Finished == /\ pc = "panic" \/ (pc = "done" /\ responses.buf = <<>>)
            /\ UNCHANGED vars

Next == \/ SendRequest \/ CloseRequests
        \/ Receive \/ SubmitBatch \/ Respond \/ RespondPanics \/ NextRound \/ CloseResponses
        \/ ReadResponse
        \/ Finished

Spec == Init /\ [][Next]_vars

\* The doc comment: "consumes signed transactions, submits to endless-node,
\* yields responses."  When the function has closed responses, every request
\* was submitted and answered exactly once.
EachRequestAnsweredOnce ==
  pc = "done" =>
    \A r \in RequestIds :
      /\ Cardinality({p \in (DOMAIN submitted) \X Slots : submitted[p[1]][p[2]] = r}) = 1
      /\ Cardinality({k \in DOMAIN answered : answered[k] = r}) = 1
==============================================================================

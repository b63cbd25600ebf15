------------------------------ MODULE TxnBuilder -----------------------------
(***************************************************************************)
(* BuildTransactions of transactionSubmission.go: a goroutine that         *)
(* receives payloads, gives each the next sequence number, builds its      *)
(* transaction and sends it on; and the caller that feeds it payloads.     *)
(* BuilderClient completes it with a caller that reads the transactions,   *)
(* TxnPipeline with the signing and submission that consume them.          *)
(*                                                                         *)
(* A payload is named by its position, 1 .. NumPayloads.  The id in a      *)
(* response is that name, for the properties only: the code's responses    *)
(* carry no Id (it stays 0).                                               *)
(***************************************************************************)
EXTENDS Naturals, Sequences, FiniteSets, GoChannel

CONSTANTS NumPayloads,  \* payloads the caller sends before it closes its channel
          PayloadKinds, \* the types of payload it sends
          PayloadCap,   \* capacity of the caller's payloads channel
          BuildCap,     \* capacity of the channel of built transactions (20)
          StartNumber,  \* the account's sequence number on chain
          Faults        \* what may go wrong: see FaultKinds

FaultKinds == {"account", "build", "sign", "submit", "lost"}

\* "other" stands for every value of the type that is not one of the two.
Kinds == {"single", "multiAgent", "other"}

ASSUME BuilderAssumption == /\ NumPayloads \in Nat
                            /\ PayloadKinds \subseteq Kinds
                            /\ PayloadCap \in Nat \ {0}
                            /\ BuildCap \in Nat \ {0}
                            /\ StartNumber \in Nat
                            /\ Faults \subseteq FaultKinds

VARIABLES kind,      \* kind[i], the TransactionSubmissionType of payload i
          sent,      \* payloads the caller has sent
          payloads,  \* the payloads channel
          builder,   \* where the builder goroutine is
          snt,       \* its SequenceNumberTracker
          building,  \* the response it is about to send
          built,     \* the channel of built transactions
          taken      \* history: payloads it has received

callerVars  == <<kind, sent>>
builderVars == <<builder, snt, building, built, taken>>

Ids == 1 .. NumPayloads

\* Whether a step that can meet fault f fails.
MayFail(f) == IF f \in Faults THEN BOOLEAN ELSE {FALSE}

\* A built transaction, or an error (id 0: the account could not be fetched).
AccountError == [id |-> 0, seq |-> 0, err |-> TRUE]

BuildResponse == [id : Ids, seq : Nat, err : BOOLEAN] \union {AccountError}

\* The payloads received so far that have to be answered.
Accepted == {i \in 1 .. taken : kind[i] # "other"}

BuilderInit == /\ kind \in [Ids -> PayloadKinds]
               /\ sent = 0
               /\ payloads = NewChannel
               /\ builder = "init"
               /\ snt = 0
               /\ building = AccountError
               /\ built = NewChannel
               /\ taken = 0

-----------------------------------------------------------------------------
(* The caller's producer.                                                   *)

SendPayload == /\ sent < NumPayloads
               /\ HasRoom(payloads, PayloadCap)
               /\ payloads' = Sent(payloads, sent + 1)
               /\ sent' = sent + 1
               /\ UNCHANGED <<kind, builderVars>>

ClosePayloads == /\ sent = NumPayloads
                 /\ ~payloads.closed
                 /\ payloads' = Closed(payloads)
                 /\ UNCHANGED <<callerVars, builderVars>>

Producer == SendPayload \/ ClosePayloads

-----------------------------------------------------------------------------
(* The builder goroutine.                                                   *)

\* rc.Account and account.SequenceNumber succeed.
AccountFetched == /\ builder = "init"
                  /\ builder' = "select"
                  /\ snt' = StartNumber
                  /\ UNCHANGED <<callerVars, payloads, building, built, taken>>

\* One of them fails: report it, close the output, read no payload.
AccountFails == /\ builder = "init"
                /\ "account" \in Faults
                /\ builder' = "abort"
                /\ building' = AccountError
                /\ UNCHANGED <<callerVars, payloads, snt, built, taken>>

\* A payload of neither known type is dropped without a response.
SkipPayload == /\ builder = "select"
               /\ HasMessage(payloads)
               /\ kind[NextMessage(payloads)] = "other"
               /\ payloads' = Received(payloads)
               /\ taken' = taken + 1
               /\ UNCHANGED <<callerVars, builder, snt, building, built>>

\* Mutant: the number is taken without advancing the tracker.
TakePayloadKeepingNumber ==
  /\ builder = "select"
  /\ HasMessage(payloads)
  /\ kind[NextMessage(payloads)] # "other"
  /\ payloads' = Received(payloads)
  /\ taken' = taken + 1
  /\ \E err \in MayFail("build") :
       building' = [id |-> NextMessage(payloads), seq |-> snt, err |-> err]
  /\ builder' = "send"
  /\ UNCHANGED <<callerVars, snt, built>>

\* Mutant: the tracker is read before it holds the account's next number.
TakePayloadOneEarlier ==
  /\ builder = "select"
  /\ HasMessage(payloads)
  /\ kind[NextMessage(payloads)] # "other"
  /\ payloads' = Received(payloads)
  /\ taken' = taken + 1
  /\ snt' = snt + 1
  /\ building' = [id |-> NextMessage(payloads), seq |-> snt - 1, err |-> FALSE]
  /\ builder' = "send"
  /\ UNCHANGED <<callerVars, built>>

\* Mutant: a payload that does not build is skipped like one of unknown type.
TakePayloadDroppingErrors ==
  /\ builder = "select"
  /\ HasMessage(payloads)
  /\ kind[NextMessage(payloads)] # "other"
  /\ payloads' = Received(payloads)
  /\ taken' = taken + 1
  /\ snt' = snt + 1
  /\ \E err \in MayFail("build") :
       /\ building' = [id |-> NextMessage(payloads), seq |-> snt, err |-> err]
       /\ builder' = IF err THEN "select" ELSE "send"
  /\ UNCHANGED <<callerVars, built>>

\* A payload of a known type consumes a sequence number, then
\* BuildTransaction (or BuildTransactionMultiAgent) succeeds or fails: the
\* number is consumed either way.
TakePayload ==
  /\ builder = "select"
  /\ HasMessage(payloads)
  /\ kind[NextMessage(payloads)] # "other"
  /\ payloads' = Received(payloads)
  /\ taken' = taken + 1
  /\ snt' = snt + 1
  /\ \E err \in MayFail("build") :
       building' = [id |-> NextMessage(payloads), seq |-> snt, err |-> err]
  /\ builder' = "send"
  /\ UNCHANGED <<callerVars, built>>

\* The response goes out; after an account error only the close is left.
SendBuilt == /\ builder \in {"send", "abort"}
             /\ HasRoom(built, BuildCap)
             /\ built' = Sent(built, building)
             /\ builder' = IF builder = "abort" THEN "close" ELSE "select"
             /\ UNCHANGED <<callerVars, payloads, snt, building, taken>>

\* Mutant: after an account error the goroutine returns without the close.
CloseBuiltOnlyAtEnd == /\ builder = "select" /\ Drained(payloads)
                       /\ built' = Closed(built)
                       /\ builder' = "done"
                       /\ UNCHANGED <<callerVars, payloads, snt, building, taken>>

\* The caller closed payloads and all of them were received, or the account
\* could not be fetched.
CloseBuilt == /\ \/ builder = "select" /\ Drained(payloads)
                 \/ builder = "close"
              /\ built' = Closed(built)
              /\ builder' = "done"
              /\ UNCHANGED <<callerVars, payloads, snt, building, taken>>

Builder == \/ AccountFetched \/ AccountFails
           \/ SkipPayload \/ TakePayload
           \/ SendBuilt \/ CloseBuilt

-----------------------------------------------------------------------------

BuilderTypeOK == /\ kind \in [Ids -> PayloadKinds]
                 /\ sent \in 0 .. NumPayloads
                 /\ payloads \in ChannelOf(Ids)
                 /\ builder \in {"init", "select", "send", "abort", "close", "done"}
                 /\ snt \in Nat
                 /\ building \in BuildResponse
                 /\ built \in ChannelOf(BuildResponse)
                 /\ taken \in Nat
==============================================================================

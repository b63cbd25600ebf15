---------------------------- MODULE BuilderClient ----------------------------
(***************************************************************************)
(* BuildTransactions used on its own: beside sending payloads, a caller    *)
(* reads the built transactions and may set the sequence number at any     *)
(* time through the setSequenceNumber channel.                             *)
(***************************************************************************)
EXTENDS TxnBuilder

CONSTANTS NewNumbers,   \* numbers a caller may send on setSequenceNumber
          MaxOverrides  \* bound: how often it does

ASSUME ClientAssumption == NewNumbers \subseteq Nat /\ MaxOverrides \in Nat

VARIABLES outputs,    \* the responses the caller has received, in order
          overrides,  \* how often it has set the sequence number
          lastSet     \* history: the last number set, and how many payloads
                      \* the builder had received by then

vars == <<callerVars, payloads, builderVars, outputs, overrides, lastSet>>

Init == /\ BuilderInit
        /\ outputs = <<>>
        /\ overrides = 0
        /\ lastSet = [number |-> StartNumber, after |-> 0]

\* Mutant: an update is added to the tracker instead of replacing it.
SetByAdding(n) ==
  /\ overrides < MaxOverrides
  /\ builder = "select"
  /\ snt' = snt + n
  /\ overrides' = overrides + 1
  /\ lastSet' = [number |-> n, after |-> taken]
  /\ UNCHANGED <<callerVars, payloads, builder, building, built, taken, outputs>>

\* The select of the builder receives from setSequenceNumber, an unbuffered
\* channel: the caller's send and the builder's receive are one step.
SetSequenceNumber(n) ==
  /\ overrides < MaxOverrides
  /\ builder = "select"
  /\ snt' = n
  /\ overrides' = overrides + 1
  /\ lastSet' = [number |-> n, after |-> taken]
  /\ UNCHANGED <<callerVars, payloads, builder, building, built, taken, outputs>>

TakeBuilt == /\ HasMessage(built)
             /\ outputs' = Append(outputs, NextMessage(built))
             /\ built' = Received(built)
             /\ UNCHANGED <<callerVars, payloads, builder, snt, building, taken,
                            overrides, lastSet>>

\* The caller saw the end of the transactions.  After an account error it may
\* still be blocked on a payload that nobody will receive.
Finished == /\ Drained(built)
            /\ payloads.closed \/ ~HasRoom(payloads, PayloadCap)
            /\ UNCHANGED vars

Next == \/ (Producer \/ Builder) /\ UNCHANGED <<outputs, overrides, lastSet>>
        \/ \E n \in NewNumbers : SetSequenceNumber(n)
        \/ TakeBuilt
        \/ Finished

\* Runnable goroutines run; setting the sequence number is optional.
Spec == /\ Init
        /\ [][Next]_vars
        /\ WF_vars(Producer /\ UNCHANGED <<outputs, overrides, lastSet>>)
        /\ WF_vars(Builder /\ UNCHANGED <<outputs, overrides, lastSet>>)
        /\ WF_vars(TakeBuilt)

-----------------------------------------------------------------------------

TypeOK == /\ BuilderTypeOK
          /\ outputs \in Seq(BuildResponse)
          /\ overrides \in 0 .. MaxOverrides
          /\ lastSet \in [number : Nat, after : Nat]

\* Everything the builder has produced so far, oldest first.
Produced == outputs \o built.buf
              \o (IF builder \in {"send", "abort"} THEN <<building>> ELSE <<>>)

\* Responses leave the builder in the order of their payloads, one for each
\* payload of a known type: the position is the only way a caller has to match
\* them, since BuildTransactions drops the payload's Id.
AnsweredInOrder ==
  builder \in {"select", "send", "done"} /\ Produced # <<AccountError>> =>
    /\ \A i, j \in DOMAIN Produced : i < j => Produced[i].id < Produced[j].id
    /\ {Produced[i].id : i \in DOMAIN Produced} = Accepted

\* A payload received after the sequence number was set to n gets n plus the
\* number of known payloads received in between, whether or not they built:
\* skipped payloads consume no number, failed ones do.
NumbersFollowOverride ==
  \A k \in DOMAIN Produced :
    LET r == Produced[k] IN
    r.id > lastSet.after =>
      r.seq = lastSet.number
                + Cardinality({i \in lastSet.after + 1 .. r.id - 1 : kind[i] # "other"})

\* The output channel is closed in the end, as SubmitTransactions and
\* BuildSignAndSubmitTransactions rely on to stop.
BuilderCloses == <>built.closed
==============================================================================

-------------------------- MODULE SubmissionService --------------------------
(***************************************************************************)
(* What BuildSignAndSubmitTransactions promises its caller, whatever the   *)
(* goroutines inside do: each payload it takes on is answered exactly      *)
(* once, or the whole service is called off with a single error; and the   *)
(* stream of answers ends only when nothing is left to answer.             *)
(***************************************************************************)
EXTENDS Naturals, Sequences

CONSTANTS NumPayloads,  \* payloads are named 1 .. NumPayloads
          Results       \* what an answer may say

VARIABLES accepted,     \* payloads taken on
          answers,      \* answers[i], the answers sent for payload i; those
                        \* for 0 concern no payload
          ended         \* whether the stream of answers was closed

vars == <<accepted, answers, ended>>

CalledOff == answers[0] # <<>>

Init == /\ accepted = {}
        /\ answers = [i \in 0 .. NumPayloads |-> <<>>]
        /\ ended = FALSE

Accept(i) == /\ ~ended /\ ~CalledOff
             /\ i \notin accepted
             /\ accepted' = accepted \union {i}
             /\ UNCHANGED <<answers, ended>>

Answer(i, r) == /\ ~ended
                /\ i \in accepted
                /\ answers[i] = <<>>
                /\ answers' = [answers EXCEPT ![i] = <<r>>]
                /\ UNCHANGED <<accepted, ended>>

CallOff(r) == /\ ~ended /\ ~CalledOff
              /\ accepted = {}
              /\ answers' = [answers EXCEPT ![0] = <<r>>]
              /\ UNCHANGED <<accepted, ended>>

End == /\ ~ended
       /\ \A i \in accepted : answers[i] # <<>>
       /\ ended' = TRUE
       /\ UNCHANGED <<accepted, answers>>

Next == \/ \E i \in 1 .. NumPayloads : Accept(i)
        \/ \E i \in 1 .. NumPayloads, r \in Results : Answer(i, r)
        \/ \E r \in Results : CallOff(r)
        \/ End

Spec == Init /\ [][Next]_vars
==============================================================================

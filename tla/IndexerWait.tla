----------------------------- MODULE IndexerWait ----------------------------
(***************************************************************************)
(* WaitOnIndexer of indexerClient.go: asks for the version a processor has *)
(* reached until it is the requested one or the time is up.                *)
(*                                                                         *)
(* Outside the program: the indexer, whose processor may not exist, whose  *)
(* version grows, and whose answers may fail.                              *)
(***************************************************************************)
EXTENDS Naturals

CONSTANTS IndexerTimeout, SleepTime, \* constants of WaitOnIndexer
          HttpTimeout,  \* longest time a request takes
          Versions      \* bound: the versions a processor goes through

VARIABLES now, pc, result, wake, sentAt, \* the clock and the caller
          processor,  \* the version the processor has reached
          exists,     \* whether there is such a processor
          requested,  \* the version waited for
          start,      \* when the wait began
          seen        \* history: the version in the last answer

clock == <<now, wake, sentAt>>
indexerVars == <<processor, exists, requested, start, seen>>

IndexerInit == /\ processor \in Versions
               /\ exists \in BOOLEAN
               /\ requested \in Versions
               /\ start = 0
               /\ seen = 0

Return(r) == pc' = "returned" /\ result' = r

\* GetProcessorStatus asks for the processor's row.
AskStatus == /\ pc = "status"
             /\ pc' = "statusAsked"
             /\ sentAt' = now
             /\ UNCHANGED <<now, wake, result, indexerVars>>

\* The first error ends the wait.
StatusFails == /\ pc = "statusAsked"
               /\ Return("error")
               /\ UNCHANGED <<clock, indexerVars>>

\* The row is taken without a look at how many there are.
NoRow == /\ pc = "statusAsked" /\ ~exists
         /\ Return("panic")
         /\ UNCHANGED <<clock, indexerVars>>

Answered == pc = "statusAsked" /\ exists /\ seen' = processor

\* Caught up, too late, or sleep and ask again.
StatusAnswers ==
  /\ Answered
  /\ IF processor >= requested THEN Return("ok") /\ UNCHANGED wake
     ELSE IF now > start + IndexerTimeout THEN Return("timeout") /\ UNCHANGED wake
     ELSE pc' = "statusSleep" /\ wake' = now + SleepTime /\ UNCHANGED result
  /\ UNCHANGED <<now, sentAt, processor, exists, requested, start>>

StatusWakes == /\ pc = "statusSleep" /\ now >= wake
               /\ pc' = "status"
               /\ UNCHANGED <<clock, result, indexerVars>>

WaitOnIndexer == AskStatus \/ StatusAnswers \/ StatusWakes

ProcessorAdvances == /\ processor + 1 \in Versions
                     /\ processor' = processor + 1
                     /\ UNCHANGED <<clock, pc, result, exists, requested, start, seen>>

StatusTick == /\ \/ pc = "statusSleep" /\ now < wake
                 \/ pc = "statusAsked" /\ now < sentAt + HttpTimeout
              /\ now' = now + 1
              /\ UNCHANGED <<pc, wake, sentAt, result, indexerVars>>

IndexerTypeOK == /\ {now, wake, sentAt, start} \subseteq Nat
                 /\ processor \in Versions /\ requested \in Versions
                 /\ exists \in BOOLEAN
                 /\ result \in {"none", "ok", "error", "timeout", "panic"}
==============================================================================

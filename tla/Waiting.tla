------------------------------- MODULE Waiting ------------------------------
(***************************************************************************)
(* A caller waits for the chain, or for the indexer that follows it, in    *)
(* one of the SDK's waiting routines.  What a caller builds on is the same *)
(* in all: ok means it has happened, a timeout means it was given its      *)
(* time and was not seen, and one of the two comes soon after the time is  *)
(* up.                                                                     *)
(***************************************************************************)
EXTENDS TxnPolling

CONSTANTS IndexerTimeout, SleepTime, Versions

ASSUME WaitingAssumption == {IndexerTimeout, SleepTime} \union Versions \subseteq Nat

VARIABLES processor, exists, requested, start, seen

Indexer == INSTANCE IndexerWait

indexer == <<processor, exists, requested, start, seen>>
vars == <<pollVars, indexer>>

\* The indexer is looked at only by the routine that waits for it, and the
\* chain only by the others: the other side stays as it was at first.
Init == /\ PollInit
        /\ \/ /\ PollForTransactionsInit \/ FaucetInit
              /\ processor = 0 /\ exists = TRUE /\ requested = 0 /\ start = 0 /\ seen = 0
           \/ /\ routine = "WaitOnIndexer"
              /\ asked = <<>>
              /\ chain = [h \in Hashes |-> "absent"]
              /\ variant = [h \in Hashes |-> "user"] /\ success = [h \in Hashes |-> TRUE]
              /\ pc = "status"
              /\ Indexer!IndexerInit

Unwatched == UNCHANGED indexer
NotPolling == UNCHANGED <<node, call, deadline, pos, pending, answer, history>>

Poll == Loop /\ Unwatched
Fund == Faucet /\ Unwatched
NodeStep == routine # "WaitOnIndexer" /\ Node /\ Unwatched
AnswerStep == Answer /\ Unwatched
Clock == \/ Tick /\ Unwatched
         \/ Indexer!StatusTick /\ NotPolling
Wait == Indexer!WaitOnIndexer /\ NotPolling
WaitFails == NotPolling /\ (Indexer!StatusFails \/ Indexer!NoRow)
Advance == routine = "WaitOnIndexer" /\ Indexer!ProcessorAdvances /\ NotPolling

\* The caller has its result and the world need not go on.
Finished == pc = "returned" /\ UNCHANGED vars

Next == Poll \/ Fund \/ NodeStep \/ AnswerStep \/ Clock \/ Wait \/ WaitFails \/ Advance \/ Finished

\* The caller's goroutine is scheduled, time passes, and a request that is
\* under way ends, with an answer or by the HTTP client's timeout.  Nothing is
\* assumed of the node beyond that: no transaction need ever be committed.
Fairness == /\ WF_vars(Poll \/ Fund \/ Wait)
            /\ WF_vars(Clock \/ AnswerStep \/ WaitFails)

Spec == Init /\ [][Next]_vars /\ Fairness

-----------------------------------------------------------------------------
(* Properties.                                                              *)

\* Every variable has its type, of whichever routine runs.
TypeOK == IF routine = "WaitOnIndexer" THEN Indexer!IndexerTypeOK ELSE PollTypeOK

\* ok means that all that was waited for has happened: every listed hash is a
\* committed user transaction, whichever rounds its requests failed in and
\* however often it is listed; Faucet's has succeeded, too; the indexer has
\* processed the requested version.
OkMeansDone ==
  result = "ok" =>
    CASE routine = "WaitOnIndexer" -> processor >= requested
      [] routine = "Faucet" -> asked[1] \in Committed /\ success[asked[1]]
      [] OTHER -> \A h \in Range(asked) : h \in Committed /\ variant[h] = "user"

\* A timeout comes after the deadline, and is not a missed answer: a hash still
\* waited for was not a committed user transaction when the last round began,
\* or its request in that round failed.  The indexer's last answer was short of
\* the requested version.
TimeoutIsJustified ==
  result = "timeout" =>
    IF routine = "WaitOnIndexer"
    THEN now > start + IndexerTimeout /\ seen < requested
    ELSE /\ now > deadline
         /\ pending # {}
         /\ \A h \in pending : \/ h \notin doneAtRound
                               \/ variant[h] # "user"
                               \/ h \in failedInRound

\* A routine is over soon after its time is up: the deadline is tested between
\* rounds only, so that a round begun in time, with its sleep and one request
\* for each place of the list, is the most it takes beyond.
OvershootIsOneRound ==
  pc \notin {"options", "build", "submit"} =>
    now <= IF routine = "WaitOnIndexer"
           THEN start + IndexerTimeout + SleepTime + HttpTimeout
           ELSE deadline + Period + Len(asked) * HttpTimeout

\* Every routine returns, even if no transaction is ever committed and the
\* indexer never moves.
Returns == <>(pc = "returned")
==============================================================================

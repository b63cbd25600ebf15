----------------------------- MODULE TxnPolling -----------------------------
(***************************************************************************)
(* Waiting for transactions: PollForTransaction (alias WaitForTransaction) *)
(* and PollForTransactions of nodeClient.go, and Faucet, which submits one *)
(* transaction and waits for it.  PollForTransaction is the loop of        *)
(* PollForTransactions for one hash.  Requests take time, up to the HTTP   *)
(* client's timeout, and any of them may fail; the caller's own steps take *)
(* none.                                                                   *)
(*                                                                         *)
(* Outside the program: the node, which has not seen a transaction, holds  *)
(* it in its mempool, has dropped it or has committed it.                  *)
(***************************************************************************)
EXTENDS Naturals, Sequences, Functions

CONSTANTS Hashes,       \* transactions
          AskedLists,   \* lists of hashes PollForTransactions may be given
          Timeouts,     \* values of its timeout
          Period,       \* time between two rounds
          HttpTimeout,  \* longest time a request takes
          NoAnswer      \* no request is under way, or its answer is not there

\* The variants of api.Transaction that polling tells apart: a user
\* transaction, any other committed one, and none for a failed request.
Variants == {"user", "other"}
Answers == Variants \union {"pending", "error"}

ASSUME PollingAssumption ==
  /\ AskedLists \subseteq Seq(Hashes)
  /\ Timeouts \subseteq Nat
  /\ {Period, HttpTimeout} \subseteq Nat \ {0}
  /\ NoAnswer \notin Answers

VARIABLES now,       \* the clock
          chain,     \* chain[h]: absent, pending, dropped or committed
          variant,   \* variant[h], its type
          success,   \* success[h], whether it executes successfully
          routine,   \* the routine the caller runs
          asked,     \* the hashes it waits for
          pc,        \* what it does next
          deadline,  \* when it gives up
          wake,      \* when its sleep ends
          pos,       \* the position it has reached in asked
          pending,   \* hashSet: those it still waits for
          sentAt,    \* when its request was sent
          answer,    \* what the node has said to it
          result,    \* what it returns
          doneAtRound,   \* history: what was committed when the round began
          failedInRound  \* history: the hashes whose request failed in it

node == <<chain, variant, success>>
call == <<routine, asked>>
request == <<sentAt, answer>>
history == <<doneAtRound, failedInRound>>
pollVars == <<now, node, call, pc, deadline, wake, pos, pending, request, result, history>>

PollRoutines == {"PollForTransactions", "Faucet"}

PollInit ==
  /\ now = 0
  /\ variant \in [Hashes -> Variants]
  /\ pos = 1
  /\ deadline = 0 /\ wake = 0 /\ sentAt = 0
  /\ pending = {}
  /\ answer = NoAnswer
  /\ result = "none"
  /\ doneAtRound = {} /\ failedInRound = {}

\* PollForTransactions is called for transactions that were submitted, and does
\* not look at how they execute; Faucet submits its own, a user transaction.
PollForTransactionsInit == /\ routine = "PollForTransactions"
                           /\ asked \in AskedLists
                           /\ chain \in [Hashes -> {"absent", "pending"}]
                           /\ success = [h \in Hashes |-> TRUE]
                           /\ pc = "options"

FaucetInit == /\ routine = "Faucet"
              /\ asked \in {l \in AskedLists : Len(l) = 1 /\ variant[l[1]] = "user"}
              /\ success \in [Hashes -> BOOLEAN]
              /\ chain = [h \in Hashes |-> "absent"]
              /\ pc = "build"

-----------------------------------------------------------------------------
(* The loop.                                                                *)

Return(r) == pc' = "returned" /\ result' = r

\* An option of a type that is neither PollPeriod nor PollTimeout.
BadOption == /\ pc = "options" /\ routine = "PollForTransactions"
             /\ Return("error")
             /\ UNCHANGED <<now, node, call, deadline, wake, pos, pending, request, history>>

TakeOptions == /\ pc = "options"
               /\ \E timeout \in Timeouts : deadline' = now + timeout
               /\ pending' = Range(asked)
               /\ pc' = "check"
               /\ UNCHANGED <<now, node, call, wake, pos, request, result, history>>

\* Mutant: the deadline is not looked at while hashes are pending.
CheckWithoutDeadline ==
  /\ pc = "check"
  /\ IF pending = {} THEN Return("ok") /\ UNCHANGED wake
     ELSE pc' = "sleep" /\ wake' = now + Period /\ UNCHANGED result
  /\ UNCHANGED <<now, node, call, deadline, pos, pending, request, history>>

\* Mutant: the timeout is noted and the loop goes on.
CheckWithoutReturn ==
  /\ pc = "check"
  /\ IF pending = {} THEN Return("ok") /\ UNCHANGED wake
     ELSE /\ pc' = "sleep" /\ wake' = now + Period
          /\ result' = IF now > deadline THEN "timeout" ELSE result
  /\ UNCHANGED <<now, node, call, deadline, pos, pending, request, history>>

\* The head of the loop: nothing left, too late, or sleep before the next
\* round.  In Faucet the transaction found decides the result.
Check ==
  /\ pc = "check"
  /\ IF pending = {}
     THEN /\ Return(IF routine = "Faucet" /\ ~success[asked[1]] THEN "error" ELSE "ok")
          /\ UNCHANGED wake
     ELSE IF now > deadline THEN Return("timeout") /\ UNCHANGED wake
     ELSE pc' = "sleep" /\ wake' = now + Period /\ UNCHANGED result
  /\ UNCHANGED <<now, node, call, deadline, pos, pending, request, history>>

Committed == {h \in Hashes : chain[h] = "committed"}

BeginRound == /\ pc = "sleep"
              /\ now >= wake
              /\ pc' = "ask"
              /\ pos' = 1
              /\ doneAtRound' = Committed
              /\ failedInRound' = {}
              /\ UNCHANGED <<now, node, call, deadline, wake, pending, request, result>>

EndRound == /\ pc = "ask"
            /\ pos > Len(asked)
            /\ pc' = "check"
            /\ UNCHANGED <<now, node, call, deadline, wake, pos, pending, request, result,
                           history>>

\* Mutant: the loop over the hashes does not step over one that is done.
StayAtDone == /\ pc = "ask"
              /\ pos <= Len(asked) /\ asked[pos] \notin pending
              /\ UNCHANGED pollVars

\* A hash that is done is not asked for again.
SkipDone == /\ pc = "ask"
            /\ pos <= Len(asked) /\ asked[pos] \notin pending
            /\ pos' = pos + 1
            /\ UNCHANGED <<now, node, call, pc, deadline, wake, pending, request, result,
                           history>>

\* TransactionByHash.
Ask == /\ pc = "ask"
       /\ pos <= Len(asked) /\ asked[pos] \in pending
       /\ pc' = "asking"
       /\ sentAt' = now
       /\ UNCHANGED <<now, node, call, deadline, wake, pos, pending, answer, result, history>>

\* Mutant: whatever is not pending is taken for done, an error too.
HearNotPending ==
  /\ pc = "asking" /\ answer # NoAnswer
  /\ pending' = IF answer = "pending" THEN pending ELSE pending \ {asked[pos]}
  /\ failedInRound' = failedInRound
  /\ answer' = NoAnswer
  /\ pc' = "ask" /\ pos' = pos + 1
  /\ UNCHANGED <<now, node, call, deadline, wake, sentAt, result, doneAtRound>>

\* Mutant: an answer ends the round, as if asked were one hash.
HearAndEndRound ==
  /\ pc = "asking" /\ answer # NoAnswer
  /\ pending' = IF answer = "user" THEN pending \ {asked[pos]} ELSE pending
  /\ failedInRound' = failedInRound \union (IF answer = "error" THEN {asked[pos]} ELSE {})
  /\ answer' = NoAnswer
  /\ pc' = "check" /\ UNCHANGED pos
  /\ UNCHANGED <<now, node, call, deadline, wake, sentAt, result, doneAtRound>>

\* Only a committed user transaction is done: an error is passed over, and a
\* committed transaction of another type is waited for as if it were pending.
Hear ==
  /\ pc = "asking" /\ answer # NoAnswer
  /\ pending' = IF answer = "user" THEN pending \ {asked[pos]} ELSE pending
  /\ failedInRound' = failedInRound \union (IF answer = "error" THEN {asked[pos]} ELSE {})
  /\ answer' = NoAnswer
  /\ pc' = "ask" /\ pos' = pos + 1
  /\ UNCHANGED <<now, node, call, deadline, wake, sentAt, result, doneAtRound>>

Loop == BadOption \/ TakeOptions \/ Check \/ BeginRound \/ EndRound \/ SkipDone \/ Ask \/ Hear

-----------------------------------------------------------------------------
(* Faucet: build, sign, verify, submit; then the loop with its defaults.    *)

FaucetFails == /\ pc \in {"build", "submit"}
               /\ Return("error")
               /\ UNCHANGED <<now, node, call, deadline, wake, pos, pending, request, history>>

FaucetBuilds == /\ pc = "build"
                /\ pc' = "submit"
                /\ UNCHANGED <<now, node, call, deadline, wake, pos, pending, request, result,
                               history>>

\* The node accepts the transaction; the answer may be lost all the same.
FaucetSubmits ==
  /\ pc = "submit"
  /\ chain' = [chain EXCEPT ![asked[1]] = "pending"]
  /\ \/ pc' = "options" /\ UNCHANGED result
     \/ Return("error")
  /\ UNCHANGED <<now, variant, success, call, deadline, wake, pos, pending, request, history>>

Faucet == FaucetFails \/ FaucetBuilds \/ FaucetSubmits

-----------------------------------------------------------------------------
(* The node and the clock.                                                  *)

Submitted(h) == routine = "Faucet" => chain[h] # "absent"

Move(h, from, to) == /\ chain[h] = from
                     /\ Submitted(h)
                     /\ chain' = [chain EXCEPT ![h] = to]
                     /\ UNCHANGED <<now, variant, success, call, pc, deadline, wake, pos, pending,
                                    request, result, history>>

Node == \E h \in Hashes : \/ Move(h, "absent", "pending")
                          \/ Move(h, "pending", "committed")
                          \/ Move(h, "pending", "dropped")

\* What the node says of a transaction: not found is a 404, hence an error.
Reply(h) == CASE chain[h] = "committed" -> variant[h]
              [] chain[h] = "pending" -> "pending"
              [] OTHER -> "error"

Answer == /\ pc = "asking" /\ answer = NoAnswer
          /\ answer' \in {Reply(asked[pos]), "error"}
          /\ UNCHANGED <<now, node, call, pc, deadline, wake, pos, pending, sentAt, result,
                         history>>

\* Time passes while the caller sleeps, and while a request is under way and
\* the HTTP client's own timeout has not ended it.
Tick == /\ \/ pc = "sleep" /\ now < wake
           \/ pc = "asking" /\ answer = NoAnswer /\ now < sentAt + HttpTimeout
        /\ now' = now + 1
        /\ UNCHANGED <<node, call, pc, deadline, wake, pos, pending, request, result, history>>

-----------------------------------------------------------------------------
(* Properties.                                                              *)

PollTypeOK ==
  /\ {now, deadline, wake, sentAt, pos} \subseteq Nat
  /\ chain \in [Hashes -> {"absent", "pending", "dropped", "committed"}]
  /\ pending \subseteq Range(asked)
  /\ answer \in Answers \union {NoAnswer}
  /\ result \in {"none", "ok", "error", "timeout"}
  /\ result = "none" <=> pc # "returned"
==============================================================================

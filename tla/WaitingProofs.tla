---------------------------- MODULE WaitingProofs ---------------------------
(***************************************************************************)
(* Proofs about Waiting for any lists of hashes, any timeouts and periods, *)
(* any length of requests and any versions of the indexer.                 *)
(***************************************************************************)
EXTENDS Waiting, TLAPS

Polling == routine # "WaitOnIndexer"

\* Where each routine can be, and the types of what all of them share.
Places ==
  /\ routine \in PollRoutines \union {"WaitOnIndexer"}
  /\ Polling => pc \in {"options", "build", "submit", "check", "sleep", "ask", "asking", "returned"}
  /\ ~Polling => pc \in {"status", "statusAsked", "statusSleep", "returned"}
  /\ result = "none" <=> pc # "returned"
  /\ Polling => result \in {"none", "ok", "error", "timeout"}
  /\ result \in {"none", "ok", "error", "timeout", "panic"}

Types ==
  /\ now \in Nat /\ deadline \in Nat /\ wake \in Nat /\ sentAt \in Nat
  /\ pos \in Nat \ {0}
  /\ pc = "ask" => pos <= Len(asked) + 1
  /\ pc = "asking" => pos <= Len(asked)
  /\ start \in Nat /\ processor \in Nat /\ requested \in Nat /\ seen \in Nat
  /\ exists \in BOOLEAN
  /\ ~Polling => processor \in Versions /\ requested \in Versions
  /\ asked \in Seq(Hashes)
  /\ pending \subseteq Range(asked)
  /\ chain \in [Hashes -> {"absent", "pending", "dropped", "committed"}]
  /\ variant \in [Hashes -> Variants]
  /\ answer \in Answers \union {NoAnswer}

TypesInv == Places /\ Types

\* What the node's reply says of a transaction.
LEMMA ReplyMeans ==
  ASSUME Types, NEW h \in Hashes
  PROVE  /\ Reply(h) \in Answers
         /\ Reply(h) = "user" => chain[h] = "committed" /\ variant[h] = "user"
         /\ Reply(h) = "other" => variant[h] = "other"
         /\ Reply(h) = "pending" => chain[h] = "pending"
<1>1. variant[h] \in {"user", "other"}
  BY DEF Types, Variants
<1>2. CASE chain[h] = "committed"
  <2>1. Reply(h) = variant[h]
    BY <1>2, Zenon DEF Reply
  <2> QED BY <1>1, <1>2, <2>1 DEF Answers, Variants
<1>3. CASE chain[h] = "pending"
  <2>1. Reply(h) = "pending"
    BY <1>3, Zenon DEF Reply
  <2> QED BY <1>3, <2>1 DEF Answers, Variants
<1>4. CASE chain[h] \notin {"committed", "pending"}
  <2>1. Reply(h) = "error"
    BY <1>4, Zenon DEF Reply
  <2> QED BY <2>1 DEF Answers, Variants
<1> QED BY <1>2, <1>3, <1>4

LEMMA TypesInit == Init => TypesInv
<1> USE PollingAssumption, WaitingAssumption
<1> SUFFICES ASSUME Init PROVE TypesInv
  OBVIOUS
<1>1. CASE PollForTransactionsInit \/ FaucetInit
  <2>1. asked \in Seq(Hashes)
    BY <1>1 DEF PollForTransactionsInit, FaucetInit
  <2>2. Places
    BY <1>1 DEF Init, PollInit, PollForTransactionsInit, FaucetInit, Places, Polling, PollRoutines
  <2>3. /\ processor = 0 /\ exists = TRUE /\ requested = 0 /\ start = 0 /\ seen = 0
        /\ routine # "WaitOnIndexer"
        /\ pc \in {"options", "build"}
        /\ chain \in [Hashes -> {"absent", "pending", "dropped", "committed"}]
    BY <1>1 DEF Init, PollForTransactionsInit, FaucetInit
  <2> QED BY <2>1, <2>2, <2>3 DEF Init, PollInit, TypesInv, Types, Polling
<1>2. CASE routine = "WaitOnIndexer"
  BY <1>2 DEF Init, PollInit, PollForTransactionsInit, FaucetInit, TypesInv, Places, Types,
              Polling, PollRoutines, Answers, Variants, Indexer!IndexerInit
<1> QED BY <1>1, <1>2 DEF Init

LEMMA TypesStep == TypesInv /\ [Next]_vars => TypesInv'
<1> USE PollingAssumption, WaitingAssumption
<1> SUFFICES ASSUME TypesInv, [Next]_vars PROVE TypesInv'
  OBVIOUS
<1> USE DEF TypesInv, Places, Types, Polling
<1>1. CASE Poll
  <2> USE DEF Unwatched, indexer, node, call, request, history, Return
  <2>1. CASE BadOption
    BY <1>1, <2>1 DEF Poll, BadOption
  <2>2. CASE TakeOptions
    BY <1>1, <2>2 DEF Poll, TakeOptions, PollRoutines
  <2>3. CASE Check
    BY <1>1, <2>3 DEF Poll, Check
  <2>4. CASE BeginRound
    BY <1>1, <2>4 DEF Poll, BeginRound
  <2>5. CASE EndRound
    BY <1>1, <2>5 DEF Poll, EndRound
  <2>6. CASE SkipDone
    BY <1>1, <2>6 DEF Poll, SkipDone
  <2>7. CASE Ask
    BY <1>1, <2>7 DEF Poll, Ask
  <2>8. CASE Hear
    BY <1>1, <2>8 DEF Poll, Hear
  <2> QED BY <1>1, <2>1, <2>2, <2>3, <2>4, <2>5, <2>6, <2>7, <2>8 DEF Poll, Loop
<1>2. CASE Fund
  <2> USE DEF Unwatched, indexer, node, call, request, history, Return
  <2>1. CASE FaucetFails
    BY <1>2, <2>1 DEF Fund, FaucetFails
  <2>2. CASE FaucetBuilds
    BY <1>2, <2>2 DEF Fund, FaucetBuilds
  <2>3. CASE FaucetSubmits
    BY <1>2, <2>3 DEF Fund, FaucetSubmits
  <2> QED BY <1>2, <2>1, <2>2, <2>3 DEF Fund, Faucet
<1>3. CASE NodeStep
  BY <1>3 DEF NodeStep, Node, Move, Unwatched, indexer, call, request, history
<1>4. CASE AnswerStep
  <2>1. answer' \in Answers
    BY <1>4, ReplyMeans DEF AnswerStep, Answer, Answers
  <2> QED BY <1>4, <2>1 DEF AnswerStep, Answer, Unwatched, indexer, node, call, history
<1>5. CASE Clock
  <2>1. CASE Tick /\ Unwatched
    BY <2>1 DEF Tick, Unwatched, indexer, node, call, request, history
  <2>2. CASE Indexer!StatusTick /\ NotPolling
    BY <2>2 DEF Indexer!StatusTick, NotPolling, node, call, history, Indexer!indexerVars
  <2> QED BY <1>5, <2>1, <2>2 DEF Clock
<1>6. CASE Wait
  <2> USE DEF NotPolling, node, call, history
  <2>1. CASE Indexer!AskStatus
    BY <1>6, <2>1 DEF Wait, Indexer!AskStatus, Indexer!indexerVars
  <2>2. CASE Indexer!StatusAnswers
    <3>1. SleepTime \in Nat
      OBVIOUS
    <3>2. /\ pc = "statusAsked" /\ seen' = processor
          /\ UNCHANGED <<now, sentAt, processor, exists, requested, start>>
          /\ \/ pc' = "returned" /\ result' \in {"ok", "timeout"} /\ UNCHANGED wake
             \/ pc' = "statusSleep" /\ wake' = now + SleepTime /\ UNCHANGED result
      BY <2>2 DEF Indexer!StatusAnswers, Indexer!Answered, Indexer!Return
    <3> QED BY <1>6, <3>1, <3>2 DEF Wait
  <2>3. CASE Indexer!StatusWakes
    BY <1>6, <2>3 DEF Wait, Indexer!StatusWakes, Indexer!indexerVars, Indexer!clock
  <2> QED BY <1>6, <2>1, <2>2, <2>3 DEF Wait, Indexer!WaitOnIndexer
<1>7. CASE WaitFails
  BY <1>7 DEF WaitFails, NotPolling, node, call, history, Indexer!StatusFails, Indexer!NoRow,
              Indexer!Return, Indexer!indexerVars, Indexer!clock
<1>8. CASE Advance
  BY <1>8 DEF Advance, NotPolling, node, call, history, Indexer!ProcessorAdvances,
              Indexer!clock
<1>9. CASE UNCHANGED vars
  BY <1>9 DEF vars, pollVars, indexer, node, call, request, history
<1> QED BY <1>1, <1>2, <1>3, <1>4, <1>5, <1>6, <1>7, <1>8, <1>9 DEF Next, Finished

\* Every variable has its type, whichever routine runs.
THEOREM WaitingTypeOK == Spec => []TypeOK
<1>1. TypesInv => TypeOK
  BY DEF TypesInv, Places, Types, Polling, TypeOK, PollTypeOK, Indexer!IndexerTypeOK
<1> QED BY <1>1, TypesInit, TypesStep, PTL DEF Spec

-----------------------------------------------------------------------------
(* ok means done.                                                           *)

Done(h) == chain[h] = "committed" /\ variant[h] = "user"

\* Past its options a poll waits for all of its hashes that are not done; an
\* answer that is still to be heard is true, as a committed transaction stays.
Settled ==
  /\ Polling /\ (pc \in {"check", "sleep", "ask", "asking"} \/ result = "ok") =>
       \A h \in Range(asked) : h \notin pending => Done(h)
  /\ pc = "asking" /\ answer = "user" => Done(asked[pos])
  /\ pc # "asking" => answer = NoAnswer
  /\ Polling /\ result = "ok" => pending = {}
  /\ routine = "Faucet" => Len(asked) = 1
  /\ routine = "Faucet" /\ result = "ok" => success[asked[1]]
  /\ ~Polling /\ result = "ok" => processor >= requested

LEMMA SettledInit == Init => Settled
  BY DEF Init, PollInit, PollForTransactionsInit, FaucetInit, Settled, Polling

\* A committed transaction stays committed, so what is settled stays so.
LEMMA SettledStep == TypesInv /\ Settled /\ [Next]_vars => Settled'
<1> USE PollingAssumption, WaitingAssumption
<1> SUFFICES ASSUME TypesInv, Settled, [Next]_vars PROVE Settled'
  OBVIOUS
<1> USE DEF TypesInv, Places, Settled, Polling, Done
<1>1. CASE Poll
  <2> USE DEF Unwatched, indexer, node, call, request, history, Return
  <2>1. CASE BadOption
    BY <1>1, <2>1 DEF Poll, BadOption
  <2>2. CASE TakeOptions
    BY <1>1, <2>2 DEF Poll, TakeOptions
  <2>3. CASE Check
    <3>1. CASE pending = {}
      <4>1. /\ UNCHANGED <<chain, variant, success, routine, asked, pending, answer,
                          processor, requested>>
            /\ pc = "check" /\ pc' = "returned"
        BY <1>1, <2>3, <3>1 DEF Poll, Check
      <4>2. routine = "Faucet" /\ result' = "ok" => success[asked[1]]
        BY <2>3, <3>1, Zenon DEF Check
      <4>3. \A h \in Range(asked) : Done(h)
        BY <3>1, <4>1
      <4>4. pc' # "asking" /\ Polling
        BY <4>1
      <4>5. routine = "Faucet" => Len(asked) = 1
        OBVIOUS
      <4> QED BY <3>1, <4>1, <4>2, <4>3, <4>4, <4>5
    <3>2. CASE pending # {}
      BY <1>1, <2>3, <3>2 DEF Poll, Check
    <3> QED BY <3>1, <3>2
  <2>4. CASE BeginRound
    BY <1>1, <2>4 DEF Poll, BeginRound
  <2>5. CASE EndRound
    BY <1>1, <2>5 DEF Poll, EndRound
  <2>6. CASE SkipDone
    BY <1>1, <2>6 DEF Poll, SkipDone
  <2>7. CASE Ask
    <3>1. answer' # "user"
      BY <2>7 DEF Ask, Answers, Variants
    <3> QED BY <1>1, <2>7, <3>1 DEF Poll, Ask
  <2>8. CASE Hear
    BY <1>1, <2>8 DEF Poll, Hear
  <2> QED BY <1>1, <2>1, <2>2, <2>3, <2>4, <2>5, <2>6, <2>7, <2>8 DEF Poll, Loop
<1>2. CASE Fund
  <2> USE DEF Unwatched, indexer, node, call, request, history, Return
  <2>1. CASE FaucetFails
    BY <1>2, <2>1 DEF Fund, FaucetFails
  <2>2. CASE FaucetBuilds
    BY <1>2, <2>2 DEF Fund, FaucetBuilds
  <2>3. CASE FaucetSubmits
    BY <1>2, <2>3 DEF Fund, FaucetSubmits
  <2> QED BY <1>2, <2>1, <2>2, <2>3 DEF Fund, Faucet
<1>3. CASE NodeStep
  <2>1. \A h \in Hashes : Done(h) => Done(h)'
    BY <1>3 DEF NodeStep, Node, Move, Types
  <2>2. Range(asked) \subseteq Hashes /\ (pc = "asking" => asked[pos] \in Hashes)
    BY DEF Types, Range
  <2>3. UNCHANGED <<routine, asked, pc, answer, pos, pending, result, success, indexer>>
    BY <1>3 DEF NodeStep, Node, Move, Unwatched, call, request
  <2> QED BY <2>1, <2>2, <2>3 DEF indexer
<1>4. CASE AnswerStep
  <2>1. pc = "asking" /\ answer' = "user" => Done(asked[pos])
    BY <1>4, ReplyMeans DEF AnswerStep, Answer, Types
  <2> QED BY <1>4, <2>1 DEF AnswerStep, Answer, Unwatched, indexer, node, call
<1>5. CASE Clock
  BY <1>5 DEF Clock, Tick, Indexer!StatusTick, Unwatched, indexer, NotPolling, node, call,
              request, Indexer!indexerVars
<1>6. CASE Wait
  <2> USE DEF NotPolling, node, call
  <2>1. CASE Indexer!AskStatus
    BY <1>6, <2>1 DEF Wait, Indexer!AskStatus, Indexer!indexerVars
  <2>2. CASE Indexer!StatusAnswers
    BY <1>6, <2>2 DEF Wait, Indexer!StatusAnswers, Indexer!Answered, Indexer!Return
  <2>3. CASE Indexer!StatusWakes
    BY <1>6, <2>3 DEF Wait, Indexer!StatusWakes, Indexer!indexerVars, Indexer!clock
  <2> QED BY <1>6, <2>1, <2>2, <2>3 DEF Wait, Indexer!WaitOnIndexer
<1>7. CASE WaitFails
  BY <1>7 DEF WaitFails, NotPolling, node, call, Indexer!StatusFails, Indexer!NoRow,
              Indexer!Return, Indexer!indexerVars, Indexer!clock
<1>8. CASE Advance
  BY <1>8 DEF Advance, NotPolling, node, call, Indexer!ProcessorAdvances, Indexer!clock, Types
<1>9. CASE UNCHANGED vars
  BY <1>9 DEF vars, pollVars, indexer, node, call, request
<1> QED BY <1>1, <1>2, <1>3, <1>4, <1>5, <1>6, <1>7, <1>8, <1>9 DEF Next, Finished

\* A caller that is told ok can build on it: all that it waited for is done,
\* whichever requests failed and however often a hash was listed.
THEOREM WaitingOkMeansDone == Spec => []OkMeansDone
<1>1. TypesInv /\ Settled => OkMeansDone
  <2> SUFFICES ASSUME TypesInv, Settled, result = "ok" PROVE OkMeansDone
    BY DEF OkMeansDone
  <2>1. Range(asked) \subseteq Hashes
    BY DEF TypesInv, Types, Range
  <2>2. CASE routine = "WaitOnIndexer"
    BY <2>2, Zenon DEF OkMeansDone, Settled, Polling
  <2>3. CASE routine # "WaitOnIndexer"
    <3>1. \A h \in Range(asked) : h \in Committed /\ variant[h] = "user"
      BY <2>1, <2>3 DEF Settled, Polling, Done, Committed
    <3>2. CASE routine = "Faucet"
      <4>1. asked[1] \in Range(asked)
        BY <3>2 DEF Settled, TypesInv, Types, Range
      <4>2. asked[1] \in Committed /\ success[asked[1]]
        BY <3>1, <3>2, <4>1 DEF Settled
      <4> QED BY <3>2, <4>2 DEF OkMeansDone
    <3>3. CASE routine = "PollForTransactions"
      BY <3>1, <3>3 DEF OkMeansDone
    <3> QED BY <2>3, <3>2, <3>3 DEF TypesInv, Places, PollRoutines
  <2> QED BY <2>2, <2>3
<1> QED BY <1>1, TypesInit, TypesStep, SettledInit, SettledStep, PTL DEF Spec

-----------------------------------------------------------------------------
(* A timeout is justified.                                                  *)

Missed(h) == h \notin doneAtRound \/ variant[h] # "user" \/ h \in failedInRound

\* What the rounds leave pending they have missed: the places gone through so
\* far, and when the round is over all of it. An answer other than user says
\* why its hash will be missed.
Accounted ==
  /\ Polling => doneAtRound \subseteq Committed
  /\ pc = "asking" => /\ answer = "pending" => asked[pos] \notin doneAtRound
                      /\ answer = "other" => variant[asked[pos]] # "user"
  /\ pc # "asking" => answer = NoAnswer
  /\ pc \in {"ask", "asking"} =>
       \A i \in 1 .. pos - 1 : i <= Len(asked) /\ asked[i] \in pending => Missed(asked[i])
  /\ pc \in {"options", "build", "submit"} => doneAtRound = {}
  /\ pc = "check" \/ (Polling /\ result = "timeout") => \A h \in pending : Missed(h)
  /\ Polling /\ result = "timeout" => now > deadline /\ pending # {}
  /\ ~Polling /\ result = "timeout" => now > start + IndexerTimeout /\ seen < requested

LEMMA AccountedInit == Init => Accounted
  BY DEF Init, PollInit, PollForTransactionsInit, FaucetInit, Accounted, Polling, PollRoutines

LEMMA AccountedStep == TypesInv /\ Accounted /\ [Next]_vars => Accounted'
<1> USE PollingAssumption, WaitingAssumption
<1> SUFFICES ASSUME TypesInv, Accounted, [Next]_vars PROVE Accounted'
  OBVIOUS
<1> USE DEF TypesInv, Places, Accounted, Polling, Missed
<1>1. CASE Poll
  <2> USE DEF Unwatched, indexer, node, call, request, history, Return, Committed
  <2>1. CASE BadOption
    BY <1>1, <2>1 DEF Poll, BadOption
  <2>2. CASE TakeOptions
    BY <1>1, <2>2 DEF Poll, TakeOptions
  <2>3. CASE Check
    <3>1. CASE pending = {}
      <4>1. /\ UNCHANGED <<chain, variant, routine, doneAtRound, answer>>
            /\ pc = "check" /\ pc' = "returned" /\ result' # "timeout"
        BY <1>1, <2>3, <3>1 DEF Poll, Check
      <4> QED BY <4>1
    <3>2. CASE pending # {}
      BY <1>1, <2>3, <3>2 DEF Poll, Check
    <3> QED BY <3>1, <3>2
  <2>4. CASE BeginRound
    BY <1>1, <2>4 DEF Poll, BeginRound
  <2>5. CASE EndRound
    <3>1. \A h \in pending : \E i \in 1 .. Len(asked) : h = asked[i]
      BY DEF Types, Range
    <3>2. \A i \in 1 .. Len(asked) : i \in 1 .. pos - 1
      BY <2>5 DEF EndRound, Types
    <3>3. \A h \in pending : Missed(h)
      BY <2>5, <3>1, <3>2 DEF EndRound
    <3> QED BY <1>1, <2>5, <3>3 DEF Poll, EndRound
  <2>6. CASE SkipDone
    <3>1. \A i \in 1 .. pos' - 1 : i \in 1 .. pos - 1 \/ i = pos
      BY <2>6 DEF SkipDone, Types
    <3> QED BY <1>1, <2>6, <3>1 DEF Poll, SkipDone
  <2>7. CASE Ask
    BY <1>1, <2>7 DEF Poll, Ask, Answers, Variants
  <2>8. CASE Hear
    <3>1. \A i \in 1 .. pos' - 1 : i \in 1 .. pos - 1 \/ i = pos
      BY <2>8 DEF Hear, Types
    <3>2. pending' \subseteq pending /\ failedInRound \subseteq failedInRound'
      BY <2>8 DEF Hear
    <3>3. \A h \in pending' : h = asked[pos] => Missed(h)'
      BY <2>8 DEF Hear, Types, Answers, Variants
    <3>4. /\ pc' = "ask" /\ answer' = NoAnswer
          /\ UNCHANGED <<chain, variant, asked, routine, doneAtRound, result>>
      BY <2>8 DEF Hear
    <3>5. pc = "asking" /\ result = "none"
      BY <2>8 DEF Hear
    <3>6. \A i \in 1 .. pos' - 1 :
            i <= Len(asked') /\ asked'[i] \in pending' =>
              \/ asked[i] \notin doneAtRound'
              \/ variant'[asked[i]] # "user"
              \/ asked[i] \in failedInRound'
      BY <3>1, <3>2, <3>3, <3>4, <3>5
    <3> QED BY <1>1, <3>4, <3>5, <3>6
  <2> QED BY <1>1, <2>1, <2>2, <2>3, <2>4, <2>5, <2>6, <2>7, <2>8 DEF Poll, Loop
<1>2. CASE Fund
  <2> USE DEF Unwatched, indexer, node, call, request, history, Return
  <2>1. CASE FaucetFails
    BY <1>2, <2>1 DEF Fund, FaucetFails
  <2>2. CASE FaucetBuilds
    BY <1>2, <2>2 DEF Fund, FaucetBuilds
  <2>3. CASE FaucetSubmits
    BY <1>2, <2>3 DEF Fund, FaucetSubmits
  <2> QED BY <1>2, <2>1, <2>2, <2>3 DEF Fund, Faucet
<1>3. CASE NodeStep
  <2>1. Committed \subseteq Committed'
    BY <1>3 DEF NodeStep, Node, Move, Types, Committed
  <2>2. UNCHANGED <<routine, asked, pc, answer, pos, pending, result, variant, now, deadline,
                    doneAtRound, failedInRound, indexer>>
    BY <1>3 DEF NodeStep, Node, Move, Unwatched, call, request, history
  <2> QED BY <2>1, <2>2 DEF indexer
<1>4. CASE AnswerStep
  <2>1. asked[pos] \in Hashes /\ pc = "asking"
    BY <1>4 DEF AnswerStep, Answer, Types
  <2>2. answer' = "pending" => asked[pos] \notin doneAtRound
    BY <1>4, <2>1, ReplyMeans DEF AnswerStep, Answer, Committed
  <2>3. answer' = "other" => variant[asked[pos]] # "user"
    BY <1>4, <2>1, ReplyMeans DEF AnswerStep, Answer
  <2> QED BY <1>4, <2>1, <2>2, <2>3
          DEF AnswerStep, Answer, Unwatched, indexer, node, call, history, Committed
<1>5. CASE Clock
  <2>1. CASE Tick /\ Unwatched
    BY <2>1 DEF Tick, Unwatched, indexer, node, call, request, history, Committed
  <2>2. CASE Indexer!StatusTick /\ NotPolling
    BY <2>2 DEF Indexer!StatusTick, NotPolling, node, call, history, Indexer!indexerVars, Committed
  <2> QED BY <1>5, <2>1, <2>2 DEF Clock
<1>6. CASE Wait
  <2> USE DEF NotPolling, node, call, history, Committed
  <2>1. CASE Indexer!AskStatus
    BY <1>6, <2>1 DEF Wait, Indexer!AskStatus, Indexer!indexerVars
  <2>2. CASE Indexer!StatusAnswers
    <3>1. result' = "timeout" => now' > start' + IndexerTimeout /\ seen' < requested'
      BY <2>2 DEF Indexer!StatusAnswers, Indexer!Answered, Indexer!Return, Types
    <3>2. pc = "statusAsked" /\ pc' \in {"returned", "statusSleep"}
      BY <2>2 DEF Indexer!StatusAnswers, Indexer!Answered, Indexer!Return
    <3> QED BY <1>6, <3>1, <3>2 DEF Wait
  <2>3. CASE Indexer!StatusWakes
    BY <1>6, <2>3 DEF Wait, Indexer!StatusWakes, Indexer!indexerVars, Indexer!clock
  <2> QED BY <1>6, <2>1, <2>2, <2>3 DEF Wait, Indexer!WaitOnIndexer
<1>7. CASE WaitFails
  BY <1>7 DEF WaitFails, NotPolling, node, call, history, Committed, Indexer!StatusFails,
              Indexer!NoRow, Indexer!Return, Indexer!indexerVars, Indexer!clock
<1>8. CASE Advance
  BY <1>8 DEF Advance, NotPolling, node, call, history, Committed, Indexer!ProcessorAdvances,
              Indexer!clock
<1>9. CASE UNCHANGED vars
  BY <1>9 DEF vars, pollVars, indexer, node, call, request, history, Committed
<1> QED BY <1>1, <1>2, <1>3, <1>4, <1>5, <1>6, <1>7, <1>8, <1>9 DEF Next, Finished

\* A timeout is no missed answer: what was still waited for was not there when
\* the last round began, or its request in that round failed.
THEOREM WaitingTimeoutIsJustified == Spec => []TimeoutIsJustified
<1>1. TypesInv /\ Accounted => TimeoutIsJustified
  BY DEF TypesInv, Places, Accounted, Missed, Polling, TimeoutIsJustified
<1> QED BY <1>1, TypesInit, TypesStep, AccountedInit, AccountedStep, PTL DEF Spec

-----------------------------------------------------------------------------
(* The overshoot is a round.                                                *)

\* The latest that the first places of a round can be done with, for a round
\* that begins in time; and the latest that the indexer's next status is asked.
DoneBy(places) == deadline + Period + places * HttpTimeout
LastAsk == start + IndexerTimeout + SleepTime

Timely ==
  /\ pc \in {"options", "build", "submit"} => now = 0
  /\ Polling /\ pc \in {"check", "returned"} => now <= DoneBy(Len(asked))
  /\ pc = "sleep" => now <= wake /\ wake <= deadline + Period
  /\ pc = "ask" => now <= DoneBy(pos - 1)
  /\ pc = "asking" => sentAt <= DoneBy(pos - 1) /\ now <= sentAt + HttpTimeout
  /\ pc = "status" => now <= LastAsk
  /\ pc = "statusAsked" => sentAt <= LastAsk /\ now <= sentAt + HttpTimeout
  /\ pc = "statusSleep" => now <= wake /\ wake <= LastAsk
  /\ ~Polling /\ pc = "returned" => now <= LastAsk + HttpTimeout

\* Each place of the list is given the time of one request.
LEMMA OnePlaceMore ==
  ASSUME Types, NEW n \in Nat
  PROVE  /\ DoneBy(n) \in Nat /\ deadline + Period <= DoneBy(n)
         /\ DoneBy(n + 1) = DoneBy(n) + HttpTimeout
         /\ LastAsk \in Nat
<1>1. Period \in Nat /\ HttpTimeout \in Nat /\ IndexerTimeout \in Nat /\ SleepTime \in Nat
  BY PollingAssumption, WaitingAssumption
<1>2. deadline \in Nat /\ start \in Nat
  BY DEF Types
<1>3. n * HttpTimeout \in Nat /\ (n + 1) * HttpTimeout = n * HttpTimeout + HttpTimeout
  BY <1>1
<1> QED BY <1>1, <1>2, <1>3 DEF DoneBy, LastAsk

LEMMA TimelyInit == Init => Timely
<1> SUFFICES ASSUME Init PROVE Timely
  OBVIOUS
<1>1. IndexerTimeout \in Nat /\ SleepTime \in Nat
  BY WaitingAssumption
<1> QED BY <1>1 DEF Init, PollInit, PollForTransactionsInit, FaucetInit, Timely, Polling,
                    PollRoutines, LastAsk, Indexer!IndexerInit

LEMMA TimelyStep == TypesInv /\ Timely /\ [Next]_vars => Timely'
<1> SUFFICES ASSUME TypesInv, Timely, [Next]_vars PROVE Timely'
  OBVIOUS
<1>a. /\ Period \in Nat /\ HttpTimeout \in Nat /\ IndexerTimeout \in Nat /\ SleepTime \in Nat
      /\ Timeouts \subseteq Nat
  BY PollingAssumption, WaitingAssumption
<1>b. Len(asked) \in Nat /\ pos - 1 \in Nat /\ 0 \in Nat /\ (pos - 1) + 1 = pos
  BY DEF TypesInv, Types
<1>c. /\ DoneBy(Len(asked)) \in Nat /\ deadline + Period <= DoneBy(Len(asked))
      /\ DoneBy(pos - 1) \in Nat /\ deadline + Period <= DoneBy(pos - 1)
      /\ DoneBy(pos) = DoneBy(pos - 1) + HttpTimeout
      /\ deadline + Period <= DoneBy(0)
  BY <1>b, OnePlaceMore DEF TypesInv
<1>d. UNCHANGED <<deadline, asked>> => \A n \in Nat : DoneBy(n)' = DoneBy(n)
  BY DEF DoneBy
<1> USE DEF TypesInv, Places, Types, Timely, Polling
<1>1. CASE Poll
  <2>0. /\ UNCHANGED <<now, start, asked, routine>>
        /\ pc \notin {"status", "statusAsked", "statusSleep"}
    BY <1>1 DEF Poll, Loop, BadOption, TakeOptions, Check, BeginRound, EndRound, SkipDone, Ask,
                Hear, Unwatched, indexer, call
  <2> USE <2>0
  <2>1. CASE BadOption
    <3>1. /\ pc' = "returned" /\ now = 0 /\ routine = "PollForTransactions"
          /\ UNCHANGED deadline
      BY <2>1 DEF BadOption, Return
    <3>2. now <= DoneBy(Len(asked))'
      BY <1>a, <1>b, <1>c, <1>d, <3>1
    <3> QED BY <3>1, <3>2
  <2>2. CASE TakeOptions
    <3>1. pc' = "check" /\ now = 0 /\ deadline' \in Nat
      BY <1>a, <2>2 DEF TakeOptions
    <3>2. Len(asked) * HttpTimeout \in Nat
      BY <1>a, <1>b
    <3>3. now <= DoneBy(Len(asked))'
      BY <1>a, <1>b, <3>1, <3>2 DEF DoneBy
    <3> QED BY <3>1, <3>3
  <2>3. CASE Check
    <3>1. pc = "check" /\ UNCHANGED deadline /\ now <= DoneBy(Len(asked))
      BY <2>3 DEF Check
    <3>2. \/ pc' = "returned"
          \/ pc' = "sleep" /\ wake' = now + Period /\ now <= deadline
      BY <2>3 DEF Check, Return
    <3> QED BY <1>a, <1>b, <1>d, <3>1, <3>2
  <2>4. CASE BeginRound
    <3>1. pc = "sleep" /\ pc' = "ask" /\ pos' - 1 = 0 /\ UNCHANGED deadline
      BY <2>4 DEF BeginRound
    <3>2. now <= deadline + Period
      BY <1>a, <3>1
    <3>3. DoneBy(0)' = DoneBy(0) /\ DoneBy(0) \in Nat
      BY <1>b, <1>d, <3>1, OnePlaceMore DEF TypesInv
    <3>4. now <= DoneBy(0)
      BY <1>a, <1>c, <3>2, <3>3
    <3>5. DoneBy(pos - 1)' = DoneBy(0)'
      BY <3>1 DEF DoneBy
    <3>6. now' <= DoneBy(pos - 1)'
      BY <3>3, <3>4, <3>5
    <3> QED BY <3>1, <3>6
  <2>5. CASE EndRound
    <3>1. pc = "ask" /\ pc' = "check" /\ pos - 1 = Len(asked) /\ UNCHANGED deadline
      BY <2>5 DEF EndRound
    <3> QED BY <1>b, <1>d, <3>1
  <2>6. CASE SkipDone
    <3>1. pc = "ask" /\ pc' = "ask" /\ pos' - 1 = pos /\ UNCHANGED deadline
      BY <2>6 DEF SkipDone
    <3> QED BY <1>a, <1>c, <1>d, <3>1
  <2>7. CASE Ask
    <3>1. pc = "ask" /\ pc' = "asking" /\ sentAt' = now /\ UNCHANGED <<deadline, pos>>
      BY <2>7 DEF Ask
    <3> QED BY <1>a, <1>b, <1>d, <3>1
  <2>8. CASE Hear
    <3>1. pc = "asking" /\ pc' = "ask" /\ pos' - 1 = pos /\ UNCHANGED deadline
      BY <2>8 DEF Hear
    <3> QED BY <1>a, <1>c, <1>d, <3>1
  <2> QED BY <1>1, <2>1, <2>2, <2>3, <2>4, <2>5, <2>6, <2>7, <2>8 DEF Poll, Loop
<1>2. CASE Fund
  <2>1. /\ pc \in {"build", "submit"} /\ pc' \in {"submit", "options", "returned"}
        /\ UNCHANGED <<now, deadline, asked, routine>>
    BY <1>2 DEF Fund, Faucet, FaucetFails, FaucetBuilds, FaucetSubmits, Return, call
  <2>2. routine # "WaitOnIndexer" /\ now' = 0
    BY <2>1
  <2>3. DoneBy(Len(asked))' \in Nat
    BY <1>b, <1>c, <1>d, <2>1
  <2>4. now' <= DoneBy(Len(asked))'
    BY <2>2, <2>3
  <2> QED BY <2>1, <2>2, <2>4
<1>3. CASE NodeStep
  <2>1. UNCHANGED <<now, deadline, wake, sentAt, pos, pc, asked, routine, start>>
    BY <1>3 DEF NodeStep, Node, Move, Unwatched, indexer, call, request
  <2> QED BY <2>1 DEF DoneBy, LastAsk
<1>4. CASE AnswerStep
  <2>1. UNCHANGED <<now, deadline, wake, sentAt, pos, pc, asked, routine, start>>
    BY <1>4 DEF AnswerStep, Answer, Unwatched, indexer, call
  <2> QED BY <2>1 DEF DoneBy, LastAsk
<1>5. CASE Clock
  <2>1. /\ UNCHANGED <<deadline, wake, sentAt, pos, pc, asked, routine, start>>
        /\ now' = now + 1
        /\ \/ pc \in {"sleep", "statusSleep"} /\ now < wake
           \/ pc \in {"asking", "statusAsked"} /\ now < sentAt + HttpTimeout
    BY <1>5 DEF Clock, Tick, Indexer!StatusTick, Unwatched, indexer, NotPolling, call, request,
                Indexer!indexerVars
  <2> QED BY <1>a, <2>1 DEF DoneBy, LastAsk
<1>6. CASE Wait
  <2>1. UNCHANGED <<now, start, routine, asked, deadline, pos>> /\ LastAsk \in Nat
    BY <1>6, <1>b, OnePlaceMore DEF Wait, NotPolling, call, Indexer!WaitOnIndexer,
       Indexer!AskStatus, Indexer!StatusAnswers, Indexer!Answered, Indexer!StatusWakes,
       Indexer!Return, Indexer!indexerVars, Indexer!clock
  <2>2. LastAsk' = LastAsk
    BY <2>1 DEF LastAsk
  <2>3. CASE Indexer!AskStatus
    BY <1>a, <2>1, <2>2, <2>3 DEF Indexer!AskStatus
  <2>4. CASE Indexer!StatusAnswers
    <3>1. /\ pc = "statusAsked"
          /\ \/ pc' = "returned"
             \/ pc' = "statusSleep" /\ wake' = now + SleepTime /\ now <= start + IndexerTimeout
      BY <1>a, <2>4 DEF Indexer!StatusAnswers, Indexer!Answered, Indexer!Return
    <3>2. pc' = "statusSleep" => now <= wake' /\ wake' <= LastAsk
      BY <1>a, <3>1 DEF LastAsk
    <3>3. now <= LastAsk + HttpTimeout
      BY <1>a, <2>1, <3>1
    <3> QED BY <2>1, <2>2, <3>1, <3>2, <3>3
  <2>5. CASE Indexer!StatusWakes
    <3>1. pc = "statusSleep" /\ pc' = "status"
      BY <2>5 DEF Indexer!StatusWakes
    <3> QED BY <2>1, <2>2, <3>1
  <2> QED BY <1>6, <2>3, <2>4, <2>5 DEF Wait, Indexer!WaitOnIndexer
<1>7. CASE WaitFails
  <2>1. /\ pc = "statusAsked" /\ pc' = "returned" /\ LastAsk \in Nat
        /\ UNCHANGED <<now, start, routine>>
    BY <1>7, <1>b, OnePlaceMore DEF WaitFails, NotPolling, call, Indexer!StatusFails,
       Indexer!NoRow, Indexer!Return, Indexer!indexerVars, Indexer!clock
  <2>2. LastAsk' = LastAsk
    BY <2>1 DEF LastAsk
  <2> QED BY <1>a, <2>1, <2>2
<1>8. CASE Advance
  <2>1. UNCHANGED <<now, deadline, wake, sentAt, pos, pc, asked, routine, start>>
    BY <1>8 DEF Advance, NotPolling, call, Indexer!ProcessorAdvances, Indexer!clock
  <2> QED BY <2>1 DEF DoneBy, LastAsk
<1>9. CASE UNCHANGED vars
  BY <1>9 DEF vars, pollVars, indexer, call, request, DoneBy, LastAsk
<1> QED BY <1>1, <1>2, <1>3, <1>4, <1>5, <1>6, <1>7, <1>8, <1>9 DEF Next, Finished

\* No routine is longer past its deadline than a round begun in time takes: its
\* sleep, and one request for each place of the list.
THEOREM WaitingOvershootIsOneRound == Spec => []OvershootIsOneRound
<1>1. TypesInv /\ Timely => OvershootIsOneRound
  <2> SUFFICES ASSUME TypesInv, Timely, pc \notin {"options", "build", "submit"}
               PROVE  OvershootIsOneRound
    BY DEF OvershootIsOneRound
  <2>1. Period \in Nat /\ HttpTimeout \in Nat /\ IndexerTimeout \in Nat /\ SleepTime \in Nat
    BY PollingAssumption, WaitingAssumption
  <2>2. CASE routine = "WaitOnIndexer"
    <3>1. LastAsk \in Nat
      BY OnePlaceMore, 0 \in Nat DEF TypesInv
    <3>2. now <= LastAsk + HttpTimeout
      BY <2>1, <2>2, <3>1 DEF TypesInv, Places, Types, Polling, Timely
    <3> QED BY <2>2, <3>2 DEF OvershootIsOneRound, LastAsk
  <2>3. CASE routine # "WaitOnIndexer"
    <3> SUFFICES now <= DoneBy(Len(asked))
      BY <2>3 DEF OvershootIsOneRound, DoneBy
    <3>1. Len(asked) \in Nat /\ pos - 1 \in Nat /\ (pos - 1) + 1 = pos
      BY DEF TypesInv, Types
    <3>2. /\ DoneBy(Len(asked)) \in Nat /\ deadline + Period <= DoneBy(Len(asked))
          /\ DoneBy(pos - 1) \in Nat /\ DoneBy(pos) = DoneBy(pos - 1) + HttpTimeout
      BY <3>1, OnePlaceMore DEF TypesInv
    <3>3. \A n, m \in Nat : n <= m => DoneBy(n) <= DoneBy(m)
      <4> SUFFICES ASSUME NEW n \in Nat, NEW m \in Nat, n <= m
                   PROVE  n * HttpTimeout <= m * HttpTimeout
        BY <2>1 DEF DoneBy, TypesInv, Types
      <4>1. m * HttpTimeout = n * HttpTimeout + (m - n) * HttpTimeout
        BY <2>1
      <4>2. (m - n) * HttpTimeout \in Nat
        BY <2>1
      <4> QED BY <2>1, <4>1, <4>2
    <3>4. CASE pc \in {"check", "returned"}
      BY <2>3, <3>4 DEF Timely, Polling
    <3>5. CASE pc = "sleep"
      BY <2>1, <3>2, <3>5 DEF Timely, TypesInv, Types
    <3>6. CASE pc = "ask"
      <4>1. pos - 1 <= Len(asked)
        BY <3>6 DEF TypesInv, Types
      <4>2. DoneBy(pos - 1) <= DoneBy(Len(asked))
        BY <3>1, <3>3, <4>1
      <4> QED BY <3>2, <3>6, <4>2 DEF Timely, TypesInv, Types
    <3>7. CASE pc = "asking"
      <4>1. pos <= Len(asked) /\ pos \in Nat
        BY <3>7 DEF TypesInv, Types
      <4>2. DoneBy(pos) <= DoneBy(Len(asked))
        BY <3>1, <3>3, <4>1
      <4> QED BY <2>1, <3>2, <3>7, <4>2 DEF Timely, TypesInv, Types
    <3> QED BY <2>3, <3>4, <3>5, <3>6, <3>7 DEF TypesInv, Places, Polling
  <2> QED BY <2>2, <2>3
<1> QED BY <1>1, TypesInit, TypesStep, TimelyInit, TimelyStep, PTL DEF Spec
==============================================================================

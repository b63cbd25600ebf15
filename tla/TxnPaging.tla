------------------------------ MODULE TxnPaging -----------------------------
(***************************************************************************)
(* Reading many transactions: Transactions, AccountTransactions and the    *)
(* transactions of a block, of nodeClient.go.  handleTransactions asks for *)
(* one page, or has transactionsConcurrent ask for all the pages at once,  *)
(* each in a goroutine that reports on a channel of capacity 1, while the  *)
(* ledger grows and any request may fail.                                  *)
(***************************************************************************)
EXTENDS Ledger, GoChannel

CONSTANTS PageSize,    \* transactionsPageSize
          Modulus,     \* of uint64 arithmetic
          Starts, Limits, \* arguments: numbers or None
          Blocks,      \* first and last versions of a block
          Ledgers,     \* what the ledger may be when the call begins
          MaxLength    \* bound: the ledger grows up to this length

ASSUME PagingAssumption == /\ PageSize \in Nat \ {0}
                           /\ Modulus \in Nat \ {0}
                           /\ MaxLength \in Nat /\ MaxLength < Modulus
                           /\ Starts \union Limits \subseteq (0 .. Modulus - 1) \union {None}
                           /\ \A b \in Blocks : b \in [first : Nat, last : Nat] /\ b.first <= b.last
                           /\ \A l \in Ledgers : l \in Seq(BOOLEAN) /\ Len(l) <= MaxLength

VARIABLES ledger,    \* the node's
          routine,   \* which function is called
          start, limit, \* its arguments
          block,     \* the block asked for
          pc,        \* what the caller does next
          held,      \* txns of the first page, or block.Transactions
          from, count, \* arguments of transactionsConcurrent
          worker,    \* worker[i], the goroutine of page i
          channels,  \* the channel it reports on
          collected, \* how many pages have been collected
          responses, \* the transactions of those pages
          result,    \* what the call returns
          seenLength,  \* history: the ledger's length when the call began
          heldLength,  \* history: how many the first answer held
          failed     \* history: the requests that failed

inputs == <<routine, start, limit, block>>
pages == <<from, count, worker, channels, collected, responses>>
history == <<seenLength, heldLength>>
vars == <<ledger, inputs, pc, held, pages, result, history, failed>>

NoResult == [kind |-> "none", data |-> <<>>]
Account == routine = "AccountTransactions"

Init ==
  /\ ledger \in Ledgers
  /\ seenLength = Len(ledger)
  /\ \/ /\ routine \in {"Transactions", "AccountTransactions"}
        /\ start \in Starts /\ limit \in Limits
        /\ block = [first |-> 0, last |-> 0]
     \/ /\ routine = "Block"
        /\ start = None /\ limit = None
        /\ block \in {b \in Blocks : b.last < Len(ledger)}
  /\ pc = "call"
  /\ held = <<>> /\ heldLength = 0
  /\ from = 0 /\ count = 0
  /\ worker = <<>> /\ channels = <<>> /\ collected = 0 /\ responses = <<>>
  /\ result = NoResult
  /\ failed = {}

-----------------------------------------------------------------------------
(* handleTransactions: a call with both arguments goes to the pages at      *)
(* once, any other to one request.                                          *)

Return(kind, data) == pc' = "returned" /\ result' = [kind |-> kind, data |-> data]

ConcurrentFrom(f, c) == pc' = "concurrent" /\ from' = f /\ count' = c

HandleTransactions ==
  /\ pc = "call" /\ routine # "Block"
  /\ IF start # None /\ limit # None
     THEN ConcurrentFrom(start, limit)
     ELSE pc' = "first" /\ UNCHANGED <<from, count>>
  /\ UNCHANGED <<ledger, inputs, held, worker, channels, collected, responses,
                 result, history, failed>>

\* Mutant: the number before 0 is not brought into uint64.
GetNextBelow(txns) == IF Account THEN SequenceNumber(ledger, txns[1]) - 1 ELSE Last(txns)

\* Mutant: an account's next page begins with the number already held.
GetNextOfFirst(txns) == IF Account THEN SequenceNumber(ledger, txns[1]) ELSE Last(txns)

\* Where the missing ones are asked for: the last version of the page, or one
\* before the first sequence number, in uint64.
GetNext(txns) == IF Account THEN (SequenceNumber(ledger, txns[1]) + Modulus - 1) % Modulus
                 ELSE Last(txns)

\* The first page is enough, or the missing transactions are asked for next.
\* An empty page has no first and no last transaction.
FirstAnswers ==
  /\ pc = "first" /\ Found(ledger, Account, start)
  /\ LET txns == PageOf(ledger, Account, start, limit)
     IN  /\ heldLength' = Len(txns)
         /\ held' = txns
         /\ IF limit = None \/ Len(txns) >= limit
            THEN Return("ok", txns) /\ UNCHANGED <<from, count>>
            ELSE IF txns = <<>>
            THEN Return("panic", <<>>) /\ UNCHANGED <<from, count>>
            ELSE ConcurrentFrom(GetNext(txns), limit - Len(txns)) /\ UNCHANGED result
  /\ UNCHANGED <<ledger, inputs, worker, channels, collected, responses, seenLength, failed>>

FirstFails == /\ pc = "first"
              /\ failed' = failed \union {"first"}
              /\ Return("error", <<>>)
              /\ UNCHANGED <<ledger, inputs, held, pages, history>>

-----------------------------------------------------------------------------
(* transactionsConcurrent.                                                  *)

NumPages == count \div PageSize + (IF count % PageSize > 0 THEN 1 ELSE 0)
PageStart(i) == (from + i * PageSize) % Modulus

\* Mutant: each page asks for a full page.
FullPageLimit(i) == PageSize

PageLimit(i) == Least(PageSize, count - i * PageSize)

\* More than a page is asked for by one goroutine for each page.  Those that an
\* earlier round of a block's loop left behind are not followed further: they
\* can only fill their own channels.
StartPages == /\ pc = "concurrent"
              /\ IF count > PageSize
                 THEN /\ pc' = "collect"
                      /\ worker' = [i \in 0 .. NumPages - 1 |-> "running"]
                      /\ channels' = [i \in 0 .. NumPages - 1 |-> NewChannel]
                 ELSE pc' = "single" /\ UNCHANGED <<worker, channels>>
              /\ collected' = 0 /\ responses' = <<>>
              /\ UNCHANGED <<ledger, inputs, held, from, count, result, history, failed>>

\* Mutant: an unbuffered channel, on which a send waits for the receiver.
CanReportUnbuffered(i) == pc = "collect" /\ i = collected

CanReport(i) == HasRoom(channels[i], 1)

Report(i, err, data) ==
  /\ worker[i] = "running"
  /\ CanReport(i)
  /\ worker' = [worker EXCEPT ![i] = "ended"]
  /\ channels' = [channels EXCEPT ![i] = Sent(@, [err |-> err, data |-> data])]
  /\ UNCHANGED <<ledger, inputs, pc, held, from, count, collected, responses, result, history>>

\* fetch: the goroutine's request, and its report.
PageAnswers(i) == /\ Found(ledger, Account, PageStart(i))
                  /\ Report(i, FALSE, PageOf(ledger, Account, PageStart(i), PageLimit(i)))
                  /\ UNCHANGED failed

PageFails(i) == /\ Report(i, TRUE, <<>>)
                /\ failed' = failed \union {"page"}

\* Back to whoever called transactionsConcurrent: the block's loop, which adds
\* what it got, or handleTransactions, which puts it before the first page.
Continue(data) ==
  IF routine = "Block"
  THEN pc' = "fill" /\ held' = held \o data /\ UNCHANGED result
  ELSE Return("ok", data \o held) /\ UNCHANGED held

\* Mutant: a page that failed is taken for an empty one.
CollectPassingFailed(i) ==
  /\ pc = "collect" /\ i = collected
  /\ HasMessage(channels[i])
  /\ channels' = [channels EXCEPT ![i] = Closed(Received(@))]
  /\ collected' = collected + 1
  /\ responses' = responses \o NextMessage(channels[i]).data
  /\ UNCHANGED <<ledger, inputs, pc, held, from, count, worker, result, history, failed>>

\* Page i is received in its turn.  If it failed the loop returns nil data and
\* the function's own err, which nobody has set.
Collect(i) ==
  /\ pc = "collect" /\ i = collected
  /\ HasMessage(channels[i])
  /\ IF NextMessage(channels[i]).err
     THEN /\ Continue(<<>>)
          /\ channels' = [channels EXCEPT ![i] = Received(@)]
          /\ UNCHANGED <<collected, responses>>
     ELSE /\ collected' = collected + 1
          /\ responses' = responses \o NextMessage(channels[i]).data
          /\ channels' = [channels EXCEPT ![i] = Closed(Received(@))]
          /\ UNCHANGED <<pc, held, result>>
  /\ UNCHANGED <<ledger, inputs, from, count, worker, history, failed>>

\* What sort.Slice may make of a list: its elements in order of their versions.
Sortings(list) ==
  LET places == DOMAIN list
  IN  {sorted \in {[i \in places |-> list[p[i]]] : p \in Bijection(places, places)} :
         \A i, j \in places : i < j => sorted[i] <= sorted[j]}

PagesCollected == /\ pc = "collect" /\ collected = NumPages
                  /\ \E data \in Sortings(responses) : Continue(data)
                  /\ UNCHANGED <<ledger, inputs, pages, history, failed>>

\* One page is enough: a single request in the caller's goroutine.
SingleAnswers == /\ pc = "single" /\ Found(ledger, Account, from)
                 /\ Continue(PageOf(ledger, Account, from, count))
                 /\ UNCHANGED <<ledger, inputs, pages, history, failed>>

\* Its error is returned, with the block as far as it was filled.
SingleFails == /\ pc = "single"
               /\ failed' = failed \union {"single"}
               /\ Return("error", IF routine = "Block" THEN held ELSE <<>>)
               /\ UNCHANGED <<ledger, inputs, held, pages, history>>

-----------------------------------------------------------------------------
(* getBlockCommon.                                                          *)

NumTransactions == block.last - block.first + 1

\* The block comes with as many of its transactions as the node gives in one
\* answer, or with null, which the code makes an empty slice before it looks
\* at its last element.
BlockAnswers ==
  /\ pc = "call" /\ routine = "Block"
  /\ \/ /\ held' = SubSeq(Versions(ledger), block.first + 1,
                          block.first + Least(NumTransactions, NodeMax))
        /\ pc' = "fill" /\ UNCHANGED result
     \/ held' = <<>> /\ Return("panic", <<>>)
  /\ heldLength' = Len(held')
  /\ UNCHANGED <<ledger, inputs, pages, seenLength, failed>>

BlockFails == /\ pc = "call" /\ routine = "Block"
              /\ failed' = failed \union {"first"}
              /\ Return("error", <<>>)
              /\ UNCHANGED <<ledger, inputs, held, pages, history>>

\* Mutant: the missing ones are counted from the block's first version.
FillFromFirst ==
  /\ pc = "fill"
  /\ IF Len(held) < NumTransactions
     THEN ConcurrentFrom(block.first, NumTransactions) /\ UNCHANGED result
     ELSE Return("ok", held) /\ UNCHANGED <<from, count>>
  /\ UNCHANGED <<ledger, inputs, held, worker, channels, collected, responses, history,
                 failed>>

\* As many as are missing are asked for, from the last version held on.
Fill ==
  /\ pc = "fill"
  /\ IF Len(held) < NumTransactions
     THEN ConcurrentFrom(Last(held), NumTransactions - Len(held)) /\ UNCHANGED result
     ELSE Return("ok", held) /\ UNCHANGED <<from, count>>
  /\ UNCHANGED <<ledger, inputs, held, worker, channels, collected, responses, history,
                 failed>>

-----------------------------------------------------------------------------

LedgerGrows == /\ pc # "returned" /\ Len(ledger) < MaxLength
               /\ \E own \in BOOLEAN : ledger' = Append(ledger, own)
               /\ UNCHANGED <<inputs, pc, held, pages, result, history, failed>>

\* What the caller itself does, and its requests.
Caller == \/ HandleTransactions \/ FirstAnswers \/ FirstFails
          \/ StartPages \/ PagesCollected \/ SingleAnswers \/ SingleFails
          \/ BlockAnswers \/ BlockFails \/ Fill
          \/ \E i \in DOMAIN channels : Collect(i)
Goroutine(i) == PageAnswers(i) \/ PageFails(i)

AllEnded == \A i \in DOMAIN worker : worker[i] = "ended"
Finished == pc = "returned" /\ AllEnded /\ UNCHANGED vars

Next == \/ Caller
        \/ \E i \in DOMAIN worker : Goroutine(i)
        \/ LedgerGrows
        \/ Finished

\* Goroutines are scheduled, and a request ends, with an answer or an error.
Fairness == /\ WF_vars(Caller)
            /\ \A i \in 0 .. Modulus - 1 : WF_vars(i \in DOMAIN worker /\ Goroutine(i))

Spec == Init /\ [][Next]_vars /\ Fairness

-----------------------------------------------------------------------------
(* Properties.                                                              *)

TypeOK == /\ from \in 0 .. Modulus - 1
          /\ count \in Nat
          /\ Range(held) \subseteq 0 .. Len(ledger) - 1
          /\ DOMAIN worker = DOMAIN channels
          /\ collected <= Cardinality(DOMAIN channels)
          /\ result.kind \in {"none", "ok", "error", "panic"}
          /\ result.kind = "none" <=> pc # "returned"

Ascending(s) == \A i \in 1 .. Len(s) - 1 : s[i] < s[i + 1]
Ok == result.kind = "ok"

\* What a call with both arguments asks for: so many places from start on of the
\* list, which for all transactions are versions and for an account's are
\* sequence numbers, although the docs call both starts a version number.
Asked == LET list == IF Account THEN Own(ledger) ELSE Versions(ledger)
         IN  {list[i] : i \in {j \in DOMAIN list : start < j /\ j <= start + limit}}

\* With start and limit known, the pages make one answer: ascending, nothing
\* twice, nothing that was not asked for, and all of it that existed when the
\* call began if the node answers whole pages, although each page was read at
\* another moment of a growing ledger and the pages came in any order.  The end
\* of the range asked for has to be within uint64, as the code does not check.
\* An account's start is taken as a sequence number, as getNext computes one; a
\* caller who passes a version number, which the docs say it is (nodeClient.go:455
\* and client.go:589), gets other transactions than those from there on.
KnownStartIsExact ==
  Ok /\ start # None /\ limit # None /\ start + limit <= Modulus /\ failed = {} =>
    /\ Ascending(result.data)
    /\ Range(result.data) \subseteq Asked
    /\ PageSize <= NodeMax => {v \in Asked : v < seenLength} \subseteq Range(result.data)

\* If the request of one page fails the call gives none of the pages: only
\* what it held before.  It is no error to the caller.
PageFailureIsAllOrNothing ==
  Ok /\ routine # "Block" /\ "page" \in failed => result.data = held

\* Without a start, an answer that one page did not fill repeats transactions:
\* the rest is asked for from the newest version on, which is the page's own
\* last.  For an account the rest precedes the page, and is right if it is one.
NoStartFillsOnlyOnePage ==
  Ok /\ start = None /\ limit # None /\ failed = {} =>
    IF routine = "Transactions"
    THEN IsInjective(result.data) <=> heldLength >= limit
    ELSE heldLength >= limit - 1 /\ held # <<>> /\ SequenceNumber(ledger, held[1]) > 0 =>
           Ascending(result.data) /\ Len(result.data) = limit

\* A block is returned with the right number of transactions, but they are all
\* of the block's only if the first answer held them all: each further request
\* begins with the last one held.
BlockIsWholeOrRepeats ==
  Ok /\ routine = "Block" =>
    /\ Len(result.data) = NumTransactions
    /\ Range(result.data) = block.first .. block.last <=> heldLength = NumTransactions

\* Every call returns and leaves no goroutine waiting, also those whose page
\* nobody collects any more; only a block's loop goes on as long as its pages
\* keep failing.
CallsEnd == \/ <>(pc = "returned" /\ AllEnded)
            \/ []<><<\E i \in DOMAIN worker : PageFails(i)>>_vars
==============================================================================

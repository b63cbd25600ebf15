# A verification model of endless-go-sdk

TLA+ models of the parts of the SDK whose correctness depends on the order in
which things happen: TLC checks them on small instances, TLAPS proves the most
important properties for every instance. `src/` below is the repository;
`PROJECT.json` maps every definition to the lines it translates.

## 1. The system

The SDK is a Go client for an Endless node. Most of it is straight-line: it
builds payloads, encodes them (BCS), signs them and talks JSON or BCS over HTTP.
Its state and concurrency are in the parallel submission of transactions, in the
calls that wait for the node or fetch from it page by page, and in the collection
of signatures; its algorithms are the codecs, the signatures of several keys, the
type tag parser and the conversion of arguments.

| component | source | state | operations |
|---|---|---|---|
| Sequence number tracker | `transactionSubmission.go:44-61` | an `atomic.Uint64` | `Increment` (load and compare-and-swap loop), `Update` |
| Transaction builder | `transactionSubmission.go:69-124` | tracker, options slice, three channels | receive a payload, take a number, build, send; overwrite the number; give up when the account cannot be fetched |
| Submission pipeline | `transactionSubmission.go:128-144, 197-393` | five kinds of goroutine, a wait group, four channels | build, sign in one goroutine for each transaction, submit one by one, report, shut down |
| Batch submission | `transactionSubmission.go:148-193` | an array of 20 slots and an index | gather, submit, answer |
| Transaction construction | `nodeClient.go:707-717, 751-986` | the client's chain id cache; three goroutines and their channels for each call | fetch gas price, chain id and account concurrently; stop at the first error |
| Polling | `nodeClient.go:339-436, 1095-1170`, `indexerClient.go:68-110` | a deadline, the set of pending hashes | poll until committed or timed out; fund an account and wait for it |
| Paging | `nodeClient.go:258-337, 438-605, 1300-1336` | channels of pages | fetch pages concurrently, merge and sort; complete a block |
| Keys, signatures, authenticators | `crypto/`, `transactionAuthenticator.go`, `signedTransaction.go`, `rawTransaction.go` | bitmaps and lists of keys, a draft that may change | sign, put together, verify against a threshold |
| BCS codec | `bcs/` | the bytes left, a sticky error | write and read integers, bytes, sequences, structs |
| Type tags, ABI arguments | `typetag.go`, `typeConversion.go` | position in the input, stack of open types | parse, print, convert one argument for each parameter |
| Payloads | `transactionPayload.go`, `script.go`, `coinPayloads.go`, `commonPayloads.go`, `multisig.go`, `code.go` | none | build and encode |
| REST types, HTTP, `Client` | `api/`, `http.go`, `client.go`, `nodeInfo.go` | none, or a header map | I/O, JSON, delegation |

How they interact: the pipeline starts the builder and the submitter as
goroutines and is joined to them by channels only. The builder calls
`BuildTransaction`, which calls the node. All goroutines of a client share one
`NodeClient`, and through it the cached chain id. The caller owns the channels
`payloads` (which it closes) and `responses` (which the submitter closes).

What is hard in it, and what each component must guarantee:

* **Tracker**: interleaved increments, an overwrite between load and swap,
  wraparound. No number twice and none skipped; every call returns.
* **Builder**: failures that have already consumed a number, a number set in
  mid-stream, early returns. One response for each known payload, in order;
  numbers that follow the last one set; the output is always closed.
* **Pipeline**: three kinds of sender on a channel that a fourth goroutine
  closes, signers that overtake each other, answers lost on the way, callers
  that read late. No send on a closed channel, nothing left behind, no number
  submitted twice, one answer for each payload, no hole in the numbers without
  an error that tells of it, and an end.
* **Batches**: index arithmetic across iterations. Each request submitted and
  answered once.
* **Construction**: goroutines that write variables of a call that may already
  have returned. Complete transactions, no goroutine left blocked.
* **Polling**: a deadline racing a late answer, requests that fail in some rounds,
  a hash listed twice. An answer is true, a timeout is deserved and not much
  late, and every call returns.
* **Paging**: pages that overtake each other or fail while the ledger grows, a
  start that is not known, a block completed in steps. What was asked for, once
  and in order, or no transactions at all; no goroutine left behind.
* **Signatures**: a draft that changes between two signatures, thresholds and
  bitmap arithmetic, a message that differs with the kind of transaction. What
  Verify accepts was signed, what everybody signed is accepted.
* **Codecs**: round trips, boundary values, bytes that are cut.
* **Parser and conversion**: a stack machine with state left over from closed
  brackets; numbers that change width and sign on the way. No name lost, no
  value changed.

`PROJECT.json` lists the single hazards, each at its line, with the properties
that would catch it.

## 2. Modules

`GoChannel` states what Go's runtime does with a buffered channel (a queue and a
closed flag); it is external code. `X <- Y` below reads "X extends Y".

| module | models | role |
|---|---|---|
| `SequenceCounter` | what a tracker promises | abstract: taking a number and replacing it are indivisible |
| `SequenceNumberTracker` | `Increment`, `Update` | one action for each atomic access of the code; implements `SequenceCounter` |
| `TxnBuilder <- GoChannel` | `NodeClient.BuildTransactions` and its caller's producer | component, completed by the next two |
| `BuilderClient <- TxnBuilder` | the builder used alone, with `setSequenceNumber` | composition with a reading caller |
| `TxnPipeline <- TxnBuilder` | `BuildSignAndSubmitTransactionsWithSignFunction`, `SubmitTransactions`, `singleSigner` | composition of builder, loop, signers, submitter, caller |
| `SubmissionService` | what the pipeline promises its caller | abstract; `TxnPipeline` implements it |
| `BatchSubmit <- GoChannel` | `BatchSubmitTransactions` | component |
| `TxnBuild <- GoChannel` | `BuildTransaction`, `BuildTransactionMultiAgent`, `buildTransactionInner`, `GetChainId`, `Info` | component |
| `TxnPolling` | `PollForTransaction(s)`, `WaitForTransaction`, `Faucet`, and the node as they see it | component, completed by `Waiting` |
| `IndexerWait` | `GetProcessorStatus`, `WaitOnIndexer` | component |
| `Waiting <- TxnPolling` | both (`INSTANCE IndexerWait`) on one clock | composition; `MCWaiting` |
| `Ledger` | the node's transactions and accounts, by version | external |
| `TxnPaging <- Ledger` | `Transactions`, `AccountTransactions`, `transactionsConcurrent`, `fetch`, `getBlockCommon` | component; `MCTxnPaging` |
| `Bcs` | serializer and deserializer | operators over bytes of `Base` values |
| `TypeTags <- Bcs` | addresses, type tags and their codec | operators |
| `Payloads <- TypeTags` | module ids, entry functions, scripts, multisig payloads and their codecs | operators |
| `Keys <- Payloads` | single keys and signatures, hashing | operators |
| `KeyBitmap` | `MultiKeyBitmap` | operators |
| `Authenticators <- Keys, KeyBitmap` | account authenticators of five kinds, authentication keys, `Verify` | operators |
| `SignedTransactions <- Authenticators` | raw transactions, transaction authenticators, signing messages, `Verify` | operators |
| `PayloadBuilders <- Keys` | the functions that build payloads | operators |
| `Signing <- SignedTransactions, PayloadBuilders` | one transaction from its draft to the reader of its bytes | composition; `MCSigning` |
| `TypeTagParser <- TypeTags` | `ParseTypeTag` and `String` | component, one action for each case of the loop |
| `TypeConversion <- TypeTags` | `ConvertArg` and what it calls | operators |
| `AbiArguments <- TypeTagParser, TypeConversion` | `EntryFunctionFromAbi` | composition; `MCAbiArguments` |
| `GoChannelTheorems` | | lemmas on sequences and channels |
| `TxnBuilderTheorems <- TxnBuilder, GoChannelTheorems` | | lemmas on the builder, for both modules that complete it |
| `SequenceNumberTrackerProofs`, `BuilderClientProofs`, `TxnPipelineProofs`, `TxnBuildProofs`, `WaitingProofs`, `TxnPagingProofs` | | theorems of the module each is named after |

Operators marked `Mutant` in a comment are single faults a programmer could have
made (a dropped comparison, a missing close, a wait left out). No action uses
them: each replaces the definition after it in a run that must then fail, which
shows that the property checked depends on that piece of code.

### How state and actions correspond to the code

* **Goroutines.** Each has a variable for its place in the code: `builder`,
  `main`, `submitter`; signers are a set of records, one for each goroutine that
  `wg` counts. An action is the code between two operations other goroutines can
  see: channel operations, atomic accesses, shared variables.
* **Channels.** A receive that leads to a send is two actions (`TakePayload` then
  `SendBuilt`, `Submit` then `SubmitterResponds`), because the goroutine can
  block in between and other goroutines run. A signer's last send and its
  `wg.Done` are one action: only `wg.Wait` tells them apart, and it comes later
  either way.
* **Payloads and numbers.** A payload is its position in the caller's sequence. A
  transaction is its payload and its sequence number. The responses of the code
  carry no payload `Id` (`BuildTransactions` never copies it); the ids in the
  models' messages are what the properties speak about, and no guard reads them
  except to name the payload's type, which the code has in the transaction
  itself.
* **Failures.** `Faults` says what may go wrong: fetching the account, building,
  signing, submitting, and an answer lost after the node took the transaction.
  Each failure is a nondeterministic outcome of the action that makes the call.
* **The caller** follows `examples/sending_concurrent_transactions/main.go`, which
  reads while it sends, and `client_test.go:549-568`, which reads only after it
  has closed `payloads`: `readsEarly` chooses.
* **History variables** (`taken`, `answers`, `node`, `epoch`, `base`, `returned`,
  `lastSet`, `startNumber`) record what the properties refer to. No guard of an
  action of the code reads them.
* **`TxnBuild`** keeps a variable for each of the three values that a goroutine
  fetches, with `Default` for what was there before it was written. The values
  that no other goroutine touches (gas limit, payload, signers) are left out.
* **Polling.** One routine is called in a behaviour, chosen in `Init`; time is a
  counter that moves while the call sleeps or waits for an answer. A round's
  requests are one action each, since the node moves between them. `doneAtRound`
  and `failedInRound` are history.
* **Paging.** A transaction is its version. Each fetching goroutine is an entry
  of `worker`, its channel one of `channels`; the collecting loop takes them in
  order, `collected` being its index and `responses` the flat list it appends
  each page to. `sort.Slice` promises a list in order and no more, so its outcome is any
  member of `Sortings(responses)`. `Ledger` has an account's
  transactions by their sequence numbers. `failed`, `seenLength` and `heldLength`
  are history.
* **Bytes.** A byte has `Base` values (16 in the runs) and an integer type has as
  many bytes as keeps the types apart (`Width`), so that overflow, ULEB128
  continuation and truncation happen with small numbers. Names of Move code are
  byte sequences that differ. A signature is a function of key and message that
  differs where they do, as far as its few bytes can; hashing likewise.
* **Deserializer.** A record of the source, the position, the error and the value
  read last; a panic is an error of its own that nothing recovers from. `First`
  and `And` read fields in a row and collect them, `Make` builds the value out of
  them, and `Then` decides on what was read.
* **Signing.** A draft is its number and whether its fee payer is known; the
  transaction, its payload and its bytes follow from it and the plan. A signer
  signs what it reads from the draft's bytes. `held[i].on` is history.
* **Type strings** are sequences of tokens, a name being one token: the parser
  never looks inside a name except for its first character, which `parses`
  stands for. A Go value is its type and what it holds; a string is what it can
  be read as.

## 3. Runs

Every passing run also checks for deadlock; the `Finished` actions say where the
program may rest, and nowhere else may it.

| run | bounds | checks |
|---|---|---|
| `tracker` | 3 goroutines, 2 calls each, 1 update, numbers 0..2 | type; no number twice or skipped in an epoch; it is an atomic counter; every call returns |
| `builder_client` | 4 payloads of all types, channels of 2 and 1, numbers set twice, to 0 or 6 | type; one response for each known payload, in order; numbers follow the last one set; the output is closed |
| `pipeline` | 3 payloads of all types, channels of 1, all faults | type; no send on a closed channel; nothing left behind; no number twice; no silent gap; implements `SubmissionService`; responses end |
| `pipeline_slow_reader` | 6 payloads that the signer rejects, channels of 1, build errors | a caller gets all payloads through, build errors apart |
| `txn_build` | 2 calls that fetch all three fields or one, the account advances once | type; complete transactions; a number that was current; no goroutine leaks |
| `waiting` | 1 hash, or 3 places for 2 hashes; timeouts 0 and 2, period 1, requests of up to 2; indexer timeout 3, versions 0..2 | type; ok is true; a timeout is deserved; overshoot of one round at most; every call returns |
| `paging` | pages of 2 (a node that answers 1 or 2), limits from 0 to 5, starts 0, 1, 4 and the last number before wrapping (15), ledgers of 2 and 5 that grow to 6, blocks of 2, 3 and 5 | type; exact with a start; all or nothing when a page fails; without a start, one page only; blocks; calls end |
| `signing` | 18 plans, 3 signatures, 2 drafts, the first of them cut at every byte | type; intact bytes are read; cut bytes are refused; accepted means signed; honest means accepted |
| `abi` | all strings of up to 4 of 9 tokens, the printed forms of 204 tags, 24 Go values | printed tags are parsed back; nothing is lost; converted arguments are read back |
| `pipeline_account_error` | 2 payloads, account errors | violated: responses is closed before payloads is done |
| `batch_submit` | 3 requests, batches of 2 | violated: requests are not answered |
| `txn_build_expiration` | 1 call with `ExpirationSeconds(60)` | violated: the expiration is not relative |

Why these bounds are enough. The tracker needs three goroutines for a swap to
fail because of a call that itself follows an overwritten number, and the numbers
0..2 to wrap within six calls. In the pipeline a channel of capacity 1 is full
and empty within two messages; three payloads put one in each of two signers and
a third in the builder's channel, so that signers overtake each other while the
loop is blocked. In `pipeline_slow_reader` the payloads must outnumber what fits
in flight without signers of their own (five with these capacities), hence six.
Two builds are the least that share the chain id cache. Three requests in batches
of two fill an array, reuse it, and leave a remainder.

`waiting`: a request may take longer than the whole timeout (2 and 0), a round
of three requests outlasts it in the middle, and a hash listed twice is found
done at its second place. `paging`: limits of 3 and 5 over pages of 2 make two
and three goroutines with a last page that is not full; a ledger of 2 is too
short for all of them and grows into the range while they run; a node that
answers less than a page makes a block need several requests; from start 15 the
second page wraps around (an account has nothing there, and for all transactions the
request cannot succeed); limit 0 is a call with no page at all. `signing`: there
is a plan for every kind of sender and every form of transaction, and each
payload builder is in at least one; the multi-key sender has five owners, because a
byte has four bits in the run: the fourth is the last of its byte, whose signature
is looked at, and the fifth comes after it in the next byte; the byte strings of
one plan have 7, 8, 63, 64 and 127 bytes, the lengths at which a ULEB128 number
grows by a byte and the greatest one; two
drafts and three signatures let one signature be older than the others; only what
is assembled from the first draft is also cut short (`MaxCut`), as a later draft
differs from it in its number alone. The readers meet what the SDK writes and its
prefixes, so the reading of overlong numbers, of variants beyond a byte (which are
truncated) and of compressed keys is modelled but not exercised. `abi`:
four tokens open, fill and close a bracket; deeper nesting comes from the printed
tags, which are nested three deep with one and two parameters.

The code's capacities are 20 (`buildResponses`, `submissionRequests`) and the
caller's choice for its own channels. An unbuffered `responses` or `payloads` is
not a value of the models (capacities are at least 1): an unbuffered channel
allows fewer interleavings, each of which a buffered one has too with a send and
its receive back to back, so the safety properties carry over, the liveness
properties do not by themselves.

### Fairness

Weak fairness on each goroutine: the Go scheduler runs every runnable goroutine.
For a goroutine that calls the node or the sign function it also says that the
call returns, with an answer or an error: the HTTP client has a timeout, a sign
function is the caller's. The caller's producer and reader are fair in
`TxnPipeline` and `BuilderClient`, which is an assumption on the caller and the
reason why `ResponsesEnd` is stated for one that reads while it sends. Setting
the sequence number, `Update` and the account's own progress are never fair. In
`TxnBuild` one weak fairness for all goroutines together is enough, since none
loops. In `Waiting` the caller, its requests and the clock are fair (a request ends
because the HTTP client has a timeout, which bounds a request in the model, too);
the node and the indexer are not: a call returns although they never move. In
`TxnPaging` each goroutine and the caller are fair, the ledger is not. `Signing`
and `AbiArguments` state safety only. `Increment` needs no more than weak fairness because calls and updates are
bounded there; in the code an endless stream of successful calls could starve one
loser, as in any compare-and-swap loop.

### What the violations show

* `pipeline_account_error`: the doc comment says that responses is closed on
  completion of payloads. When the account cannot be fetched it is closed at
  once, and a producer that keeps sending blocks for good on a full channel. The
  `Finished` action of `TxnPipeline` admits this rest state (`PayloadsStuck`).
* `batch_submit` (exactly one submission and one answer for each request is what
  is violated): `i` is reset before the loops that use it as their bound, so
  neither loop runs; the increment after it makes the next batch start in slot 1,
  with the previous batch's first transaction still in slot 0; a partly filled
  array is dropped at the end.
* `txn_build_expiration`: only the default value of the option is added to the
  clock.

### What the passing runs say of the code

Where the code does not do what its comments say, the property of a passing run
states what it does instead, and the exceptions in it are the finding
(`PROJECT.json` quotes the lines):

* `OkMeansDone`, `TimeoutIsJustified`, `OvershootIsOneRound`: a committed
  transaction that is not a user's is polled until the timeout; the deadline
  passes unnoticed within a round; an indexer without a row for the processor
  makes the call panic.
* `KnownStartIsExact`: the start of `AccountTransactions` is taken for a sequence
  number, because the code continues from `SequenceNumber - 1`; both doc comments
  call it a version number, and a caller who passes one is answered from another
  place of the account's list.
* `PageFailureIsAllOrNothing`: a page that fails is not reported. The error
  variable that is returned is another one, and nil.
* `NoStartFillsOnlyOnePage`, `BlockIsWholeOrRepeats`: what is missing after the
  first page is asked for from the last version that is there already, forward.
  An account's answer is right if it needs no more than one page, a block if its
  first answer was whole.
* `AcceptedWasSigned`, `HonestIsAccepted`: of a multi-key sender's signatures only
  that of the last key in each byte of the bitmap is looked at; a multi-ed25519
  sender with fewer signatures than keys panics; a sponsored transaction is
  refused even if all have signed it, since Verify rebuilds another message
  (`AcceptedWasSigned` therefore says nothing of sponsored ones).
* `IntactIsRead`, `TruncatedIsRefused`: a multi-ed25519 sender's transaction is
  written with a variant that is not read, and panics when its signature is cut;
  coin amounts above 2^63 become their distance to 2^64.
* `PrintedParsesBack`, `NothingIsLost`, `ConvertedReadsBack`: a struct at an
  address that begins with a T is taken for a generic; a trailing space panics;
  what follows the type arguments of a struct is joined to its name; generics
  stand for the wrong types, and one that stands for itself is converted without
  end; a number beyond 64 bits or below zero changes its value or panics.

One more rest state the code really has is `CallerStuck`: a caller that reads
only after sending, with more build errors than the channels hold, is blocked on
`payloads` while the loop is blocked on `responses`. No property counts this
deadlock as an error. `EveryPayloadIsSent` exempts exactly it (and an account that
could not be fetched) and says that nothing else blocks such a caller, in particular no number of failing
signatures, because each signer waits in a goroutine of its own; the TODO in the
code that would put a bound on the signers would change that, and the mutant of
this property is such a pool.

## 4. Proofs

The theorems hold for all values of the constants that the named assumptions
allow (`TrackerAssumption`, `BuilderAssumption`, `ClientAssumption`,
`PipelineAssumption`, `BuildAssumption`, `PollingAssumption`,
`WaitingAssumption`, `LedgerAssumption`, `PagingAssumption`). These say what
kind of value each constant is and little more. In `PagingAssumption` arguments
are below `Modulus` because they are `uint64`, and the ledger stays below it
because versions are, too; a block's last version is not before its first. In `BuildAssumption`, `Default`,
`Option` and `Node` mark where a value comes from; that the first and the last
differ says, of the chain id, that the node's is not 0, which the code takes for
"not fetched yet". TLC evaluates the assumptions on the runs.

| theorem | states, for every instance |
|---|---|
| `TrackerTypeOK`, `TrackerUnique`, `TrackerGapless`, `TrackerIsAtomicCounter` | the safety properties of `tracker` and its refinement of `SequenceCounter` |
| `ClientTypeOK`, `ClientAnsweredInOrder`, `ClientNumbersFollowOverride` | the safety properties of `builder_client` |
| `PipelineTypeOK`, `PipelineNeverPanics`, `PipelineLeavesNothing`, `PipelineUniqueNumbers`, `PipelineNoSilentGap`, `PipelineAnswersOnce` | the safety properties of `pipeline` and its refinement of `SubmissionService` |
| `BuildTypeOK`, `BuildReturnedIsComplete`, `BuildNumberWasCurrent` | the safety properties of `txn_build` |
| `WaitingTypeOK`, `WaitingOkMeansDone`, `WaitingTimeoutIsJustified`, `WaitingOvershootIsOneRound` | the safety properties of `waiting` |
| `PagingTypeOK`, `PagingKnownStartIsExact`, `PagingFailureIsAllOrNothing`, `PagingNoStartFillsOnlyOnePage`, `PagingBlockIsWholeOrRepeats` | the safety properties of `paging` |
| `PagingNeverStuck`, `PagingPagesTile` | the safety half of its liveness property, and the arithmetic of its pages |

Hardly any of these properties is inductive. What was added, and why:

**Tracker** (`SequenceNumberTrackerProofs`). For `TrackerUnique` and
`TrackerGapless` the invariant is `UniqueInv`: the numbers
handed out in the current epoch are exactly those from `base` to the counter,
each once, and no entry of the history has a later epoch. `UniqueWithinEpoch`
alone does not say that the counter is still unused.
`TrackerIsAtomicCounter` maps a successful swap to `TakeNumber`, an update to
`Replace`, and every other step to a stutter.

**Builder** (`TxnBuilderTheorems`). What its steps do to the queue of payloads
and to the number of accepted payloads, proved once and used in both
compositions. `QueueInOrder` says that the queue holds the payloads from `taken`
to `sent`, in order. `Known(i, n)` counts the payloads of a known type among
those from `i` to `n`; only they get a number.

**Builder with its client** (`BuilderClientProofs`).

* `ClientAnsweredInOrder` from `OrderInv`. The property speaks of what the caller
  has received; the invariant of that together with the channel and the response
  the builder is about to send (`Produced`), one sequence that a hand-over does
  not change.
* `ClientNumbersFollowOverride` from `OverrideInv`: the tracker stands at the last
  number set plus the known payloads taken since. A payload taken before the
  override but sent after it keeps its number, hence the condition on the place.

**Pipeline** (`TxnPipelineProofs`).

* `PipelineTypeOK`: one lemma for each goroutine, one step for each action.
* `PipelineShutdownOrder`: each channel is closed exactly when the goroutine that
  owns it is done, and that goroutine is done only when the channel feeding it
  is drained (and, for the loop, no signer is left). From it follow
  `PipelineNeverPanics` and `PipelineLeavesNothing`: both speak of the end, and
  the invariant of how it is reached.
* `PipelineUniqueNumbers`: the invariant `NumbersInv` says that the numbers in
  the builder's channel ascend and are above every number that has left it, that
  the tracker is above them all, and that a number downstream is in one place
  only (one signer, one request or the node). Signers may finish in any order:
  the order is lost when a transaction leaves the builder's channel, the
  uniqueness is not.
* `PipelineAnswersOnce`, the refinement: `Accounted` says that each accepted
  payload is in exactly one place (the builder, its channel, the loop, a signer, a
  request, a response) or answered, and that nothing else is (`OnlyOnePlace`). A receive by the caller is then the abstract
  answer, since what it receives is in the channel and so not answered before;
  when `responses` is closed `NothingLeftBehind` leaves no place but the answers,
  which is the abstract end. All other steps stutter or accept a payload.
* `PipelineNoSilentGap` needs to know whose number each is. `NumberedByPayload`
  says that a transaction of payload `i` carries the start number plus the known
  payloads before `i`, wherever it is, that the tracker has counted exactly the
  payloads taken, and that a success is reported only for a number the node has.
  So the consumed numbers the node never got belong to different payloads, each
  answered (`Accounted`) with an error: an injection into the failures.

**Transaction construction** (`TxnBuildProofs`).

* `BuildInv`, for each call and field: a goroutine that reports success has
  written a right value (`Held`: the option's, the node's, or a sequence number
  the account had since the call began); a field without a goroutine has one as
  soon as the call begins; and a field the call has passed has one, with no
  goroutine left that could still write it. The last part is what makes
  the transaction, put together later from variables that goroutines share,
  complete; `ReturnedIsComplete` and `NumberWasCurrent` say nothing before the
  return. The proof has one lemma for each kind of step; `FieldStays` covers the
  fields and calls that a step does not touch, among them those of the calls
  whose chain id another call has cached meanwhile.

**Waiting** (`WaitingProofs`). Each property from an invariant beside `TypesInv`
(where each routine can be, and the types).

* `WaitingOkMeansDone` from `Settled`: a hash that is no longer in `pending` is a
  committed user transaction, and an answer that says so is
  true when it arrives. The property speaks of the result only; the invariant holds
  in every round, whichever requests failed.
* `WaitingTimeoutIsJustified` from `Accounted`: in the middle of a round, a
  place already passed whose hash is still pending was missed for a reason (the
  hash was not committed when the round began, is no user transaction, or its
  request failed). At the end all places are passed, and `pending` is within the
  list, which is part of `Types`.
* `WaitingOvershootIsOneRound` from `Timely`: a bound on the clock for each place
  the routine can be at, `DoneBy(n)` being the latest that the first `n` requests
  of a round begun in time can end. The bound at the end of a round is inductive
  only together with those inside it.

**Paging** (`TxnPagingProofs`).

`PagingInvariant` establishes `PagingInv`, from which all but one of the theorems
follow. TLC checked it, too, on the instance of `paging`. Its parts:

* `Types`: what the variables hold. It is stronger than `TypeOK`: what goroutines
  and the caller carry are sequences of versions that exist.
* `HandOverInv`: a goroutine that runs has a channel nobody has used; one that
  ended has its message there until the loop comes to it. Hence
  `PagingNeverStuck`: no goroutine is held up, whether or not its page is ever
  collected, and the loop waits for no page that nobody brings. This is the
  safety half of `CallsEnd`.
* `PagesInv`: a page waiting in its channel is a part of the list from its own
  place on (`IsPart`: not more than it asked for, without a gap, and with all that
  was there when the call began). The pages collected so far are exactly the
  places they reach over, in some order (`IsExact`), up to `Offset`, unless the
  range wraps around.
* `CallerInv`: what is held when the pages are asked for, and that `from` and
  `count` follow from it: for a known start they are the arguments; without one,
  `from` is the last version held, or precedes the first sequence number held; of
  a block, either the first answer is held unchanged or some version is held twice.

Why it is needed, and the argument of each theorem:

* The ledger grows between the requests, so each fact about a page must survive
  that. `ListGrows` says that the old list, of all versions or of an account's, is
  a prefix of the new one; from it `PartStays` and `ExactStays`. Only
  `seenLength`, not the present length, bounds what must be in an answer: the
  property with the present length is false.
* `PagingKnownStartIsExact`: the collecting loop extends an exact list by the next
  part (`ExactExtends`), which by `Offsets` begins right behind it;
  at the end the list is exact from `start` to `start + limit`, and sorting what
  holds each place once puts the places in order (`SortedIsExact`). What is
  needed of the sort is that it permutes and orders its list
  (`SortingProperties`); no induction over sequences is used. The property has two
  hypotheses the code does not check: the range ends within `uint64`
  (`start + i*100` may wrap), and, for completeness only, the node answers whole
  pages.
* `PagingNoStartFillsOnlyOnePage`: for all transactions the second request
  begins at the last version held, so its first transaction is a repetition
  (the part of `PagesInv` that says some page begins with `from`). For an account
  with one transaction missing, the request from one before the first number
  gives exactly that one (`MissingOne`).
* `PagingBlockIsWholeOrRepeats`: every request for the rest of a block begins
  with a version held, so once something was added some version is there twice;
  a list as long as the block with a version twice lacks another (`TwiceLacks`,
  by the pigeonhole principle from `FiniteSetTheorems`).
* `PagingFailureIsAllOrNothing` from `FailureInv` (theorem `PagingFailures`): while
  pages are collected, one that failed is still to come, so the loop cannot reach
  the end; and when it has reached it all goroutines have ended, so none can fail
  afterwards.
* `PagingPagesTile`: the pages make up what was asked for without gap or overlap,
  for any size of a page (`PagesTile`, from the properties of quotient and
  remainder).

### Only model-checked

* Liveness (`EveryCallReturns` and the others): fairness and ENABLED are beyond the
  prover.
* The properties of `Signing` and `AbiArguments`: their readers and printers are
  recursive operators, or fold over data. What they return for every input is
  known by induction over it only, and the prover can use no induction theorem.
* The violations: a counterexample is enough.

## 5. Not modelled

* `Client.BuildTransactions` (`transactionSubmission.go:64-66`) calls itself
  without end; it has no state to check. Its `NodeClient` namesake is modelled.
* The options slice of `BuildTransactions` is shared with the caller when it has
  spare capacity; two builders given the same slice overwrite each other's
  number. The models give each builder its own.
* `RawTransactionPrehash` and the chain id cache are written without a lock. For
  the chain id, a byte, the model has every value a read can see; for the
  prehash, a slice, every writer stores the same bytes.
* REST types and HTTP (`api/`, `http.go`, `nodeInfo.go`): JSON layout and I/O. A
  request is an action that answers or fails; what is in the answer is a choice.
* `Client` delegates to `NodeClient` and `IndexerClient`; its methods have no state
  of their own beyond those modelled.
* Key generation, hex and base58 text, private key strings, and the on-chain side
  of the multisig and coin examples. Signing and hashing are functions that
  differ where their arguments do, as far as the small bytes allow.
* Simulation, view functions and event queries: one request each.

## 6. Plan

Modelled and checked: all components of section 1 but REST and HTTP. Proved: every
safety property of the tracker, the builder, the pipeline, the construction of
transactions, the waiting calls and paging. What is left, in this order:

1. `KeyBitmap`: which indices a bitmap contains after `AddKey`. It rests on
   powers of two, of which the prover knows none but by cases of a fixed `Bits`.
2. `TypeTagParser`: type correctness of the stack machine, once what it builds on
   is written without recursive operators.
3. `PagingBlockIsWholeOrRepeats` is about a call that returns. That a block's loop
   makes progress unless its pages fail is a part of `CallsEnd`, which only TLC
   checks.

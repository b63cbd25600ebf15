------------------------------- MODULE TxnBuild ------------------------------
(***************************************************************************)
(* BuildTransaction and BuildTransactionMultiAgent of nodeClient.go.  A    *)
(* call reads its options, then buildTransactionInner starts one goroutine *)
(* for each of the gas price, the chain id and the account's sequence      *)
(* number that no option gives, waits for them one after the other and     *)
(* returns at the first error, leaving the other goroutines to end by      *)
(* themselves.  Calls of several goroutines share the client, which caches *)
(* the chain id.  A goroutine writes a local variable of its call and then *)
(* sends its error, or nil, on a channel of capacity 1.                    *)
(*                                                                         *)
(* Outside the program: the node, which answers or fails, and the          *)
(* account's sequence number, which other transactions advance.            *)
(***************************************************************************)
EXTENDS Naturals, GoChannel

CONSTANTS Calls,          \* concurrent calls on one client
          GivenSets,      \* for which fields a call may give an option
          Expirations,    \* values a call may give for ExpirationSeconds
          NoOption,       \* ... or none
          Default,        \* the value of a variable that nobody wrote,
          Option,         \* one that an option gave,
          Node,           \* and one the node gave (a sequence number is a number)
          NoTxn,          \* a call has not returned a transaction
          Now,            \* the clock, in seconds
          DefaultExpirationSeconds,  \* 300
          MaxAccountNumber  \* bound: the account's last sequence number

Fields == {"chain", "account", "gas"}

ASSUME BuildAssumption == /\ GivenSets \subseteq SUBSET Fields
                          /\ Expirations \subseteq Nat
                          /\ NoOption \notin Nat
                          /\ {Default, Option, Node} \intersect Nat = {}
                          /\ Default # Node
                          /\ {Now, DefaultExpirationSeconds, MaxAccountNumber} \subseteq Nat

VARIABLES given,      \* given[c], the fields call c has an option for
          expiration, \* expiration[c], its ExpirationSeconds option
          badOption,  \* whether it has a negative or an unknown option too
          chainId,    \* rc.chainId: Default, or what Info found
          accountNumber, \* the account's sequence number on chain
          pc,         \* what each call waits for, or how it ended
          fetcher,    \* fetcher[c][f], the goroutine fetching field f
          errs,       \* errs[c][f], the channel it reports on
          local,      \* local[c][f], the variable it writes
          expires,    \* expires[c], the timestamp the call computed
          txn,        \* txn[c], the transaction returned
          startNumber \* history: the account's number when the call began

inputs == <<given, expiration, badOption>>
vars == <<inputs, chainId, accountNumber, pc, fetcher, errs, local, expires, txn, startNumber>>

\* The order in which buildTransactionInner waits.
After(f) == CASE f = "chain" -> "account"
              [] f = "account" -> "gas"
              [] f = "gas" -> "returned"

Init == /\ given \in [Calls -> GivenSets]
        /\ expiration \in [Calls -> Expirations \union {NoOption}]
        /\ badOption \in [Calls -> BOOLEAN]
        /\ chainId = Default
        /\ accountNumber = 0
        /\ pc = [c \in Calls |-> "start"]
        /\ fetcher = [c \in Calls |-> [f \in Fields |-> "none"]]
        /\ errs = [c \in Calls |-> [f \in Fields |-> NewChannel]]
        /\ local = [c \in Calls |-> [f \in Fields |-> Default]]
        /\ expires = [c \in Calls |-> 0]
        /\ txn = [c \in Calls |-> NoTxn]
        /\ startNumber = [c \in Calls |-> 0]

-----------------------------------------------------------------------------
(* The call.                                                                *)

\* A negative ExpirationSeconds, or an option of an unknown type.
RejectOptions(c) == /\ pc[c] = "start"
                    /\ badOption[c]
                    /\ pc' = [pc EXCEPT ![c] = "failed"]
                    /\ UNCHANGED <<inputs, chainId, accountNumber, fetcher, errs, local,
                                   expires, txn, startNumber>>

\* Only the default, given or not, is counted from the current time: any
\* other value is used as the timestamp itself.
Timestamp(c) ==
  IF expiration[c] \in {NoOption, DefaultExpirationSeconds}
  THEN Now + DefaultExpirationSeconds
  ELSE expiration[c]

\* Whether the call starts a goroutine for field f.
Fetches(c, f) == f \notin given[c] /\ (f = "chain" => chainId = Default)

\* The options are read and the goroutines started.
Begin(c) ==
  /\ pc[c] = "start"
  /\ ~badOption[c]
  /\ pc' = [pc EXCEPT ![c] = "chain"]
  /\ expires' = [expires EXCEPT ![c] = Timestamp(c)]
  /\ fetcher' = [fetcher EXCEPT ![c] =
                   [f \in Fields |-> IF Fetches(c, f) THEN "running" ELSE "none"]]
  /\ local' = [local EXCEPT ![c] =
                 [f \in Fields |-> IF f \in given[c] THEN Option
                                   ELSE IF f = "chain" /\ ~Fetches(c, f) THEN chainId
                                   ELSE Default]]
  /\ startNumber' = [startNumber EXCEPT ![c] = accountNumber]
  /\ UNCHANGED <<inputs, chainId, accountNumber, errs, txn>>

\* The transaction made of the call's variables.
Assembled(c) == [fields |-> local[c], expires |-> expires[c]]

Proceed(c, f) == /\ pc' = [pc EXCEPT ![c] = After(f)]
                 /\ txn' = IF f = "gas" THEN [txn EXCEPT ![c] = Assembled(c)] ELSE txn

\* Mutant: the wait for the account's number is missing.
WaitNotForAccount(c, f) ==
  /\ pc[c] = f
  /\ IF fetcher[c][f] = "none" \/ f = "account"
     THEN Proceed(c, f) /\ UNCHANGED errs
     ELSE /\ HasMessage(errs[c][f])
          /\ errs' = [errs EXCEPT ![c][f] = Received(@)]
          /\ IF NextMessage(errs[c][f]) = "error"
             THEN pc' = [pc EXCEPT ![c] = "failed"] /\ UNCHANGED txn
             ELSE Proceed(c, f)
  /\ UNCHANGED <<inputs, chainId, accountNumber, fetcher, local, expires, startNumber>>

\* Nothing to wait for, or the goroutine's report has come: an error ends the
\* call, otherwise it goes on to the next field and at last returns.
WaitFor(c, f) ==
  /\ pc[c] = f
  /\ IF fetcher[c][f] = "none"
     THEN Proceed(c, f) /\ UNCHANGED errs
     ELSE /\ HasMessage(errs[c][f])
          /\ errs' = [errs EXCEPT ![c][f] = Received(@)]
          /\ IF NextMessage(errs[c][f]) = "error"
             THEN pc' = [pc EXCEPT ![c] = "failed"] /\ UNCHANGED txn
             ELSE Proceed(c, f)
  /\ UNCHANGED <<inputs, chainId, accountNumber, fetcher, local, expires, startNumber>>

Call(c) == RejectOptions(c) \/ Begin(c) \/ \E f \in Fields : WaitFor(c, f)

-----------------------------------------------------------------------------
(* The goroutines of a call.                                                *)

\* GetChainId looks at the cache again before it asks the node.
ReadCache(c) == /\ fetcher[c]["chain"] = "running"
                /\ chainId # Default
                /\ local' = [local EXCEPT ![c]["chain"] = chainId]
                /\ fetcher' = [fetcher EXCEPT ![c]["chain"] = "ok"]
                /\ UNCHANGED <<inputs, chainId, accountNumber, pc, errs, expires, txn,
                               startNumber>>

MissCache(c) == /\ fetcher[c]["chain"] = "running"
                /\ chainId = Default
                /\ fetcher' = [fetcher EXCEPT ![c]["chain"] = "asking"]
                /\ UNCHANGED <<inputs, chainId, accountNumber, pc, errs, local, expires,
                               txn, startNumber>>

\* Info answers and caches the chain id.
InfoAnswers(c) == /\ fetcher[c]["chain"] = "asking"
                  /\ chainId' = Node
                  /\ local' = [local EXCEPT ![c]["chain"] = Node]
                  /\ fetcher' = [fetcher EXCEPT ![c]["chain"] = "ok"]
                  /\ UNCHANGED <<inputs, accountNumber, pc, errs, expires, txn, startNumber>>

\* Mutant: the account is read ahead of its last committed transaction.
NodeAnswersAhead(c, f) ==
  /\ f \in {"gas", "account"}
  /\ fetcher[c][f] = "running"
  /\ local' = [local EXCEPT ![c][f] = IF f = "gas" THEN Node ELSE accountNumber + 1]
  /\ fetcher' = [fetcher EXCEPT ![c][f] = "ok"]
  /\ UNCHANGED <<inputs, chainId, accountNumber, pc, errs, expires, txn, startNumber>>

\* EstimateGasPrice or Account answers.
NodeAnswers(c, f) ==
  /\ f \in {"gas", "account"}
  /\ fetcher[c][f] = "running"
  /\ local' = [local EXCEPT ![c][f] = IF f = "gas" THEN Node ELSE accountNumber]
  /\ fetcher' = [fetcher EXCEPT ![c][f] = "ok"]
  /\ UNCHANGED <<inputs, chainId, accountNumber, pc, errs, expires, txn, startNumber>>

\* The node fails: the variable keeps its default.
NodeFails(c, f) == /\ fetcher[c][f] = IF f = "chain" THEN "asking" ELSE "running"
                   /\ fetcher' = [fetcher EXCEPT ![c][f] = "error"]
                   /\ UNCHANGED <<inputs, chainId, accountNumber, pc, errs, local, expires,
                                  txn, startNumber>>

\* Mutant: an unbuffered channel, on which a send waits for the receiver.
CanReportUnbuffered(c, f) == pc[c] = f

\* The goroutine's channel has room for the one message it will carry.
CanReport(c, f) == HasRoom(errs[c][f], 1)

\* The error or nil is sent and the channel closed.
Report(c, f) == /\ fetcher[c][f] \in {"ok", "error"}
                /\ CanReport(c, f)
                /\ errs' = [errs EXCEPT ![c][f] = Closed(Sent(@, fetcher[c][f]))]
                /\ fetcher' = [fetcher EXCEPT ![c][f] = "ended"]
                /\ UNCHANGED <<inputs, chainId, accountNumber, pc, local, expires, txn,
                               startNumber>>

Fetcher(c, f) == \/ f = "chain" /\ (ReadCache(c) \/ MissCache(c) \/ InfoAnswers(c))
                 \/ NodeAnswers(c, f) \/ NodeFails(c, f) \/ Report(c, f)

-----------------------------------------------------------------------------

\* Another transaction of the account is executed.
AccountAdvances == /\ accountNumber < MaxAccountNumber
                   /\ accountNumber' = accountNumber + 1
                   /\ UNCHANGED <<inputs, chainId, pc, fetcher, errs, local, expires, txn,
                                  startNumber>>

AllDone == /\ \A c \in Calls : pc[c] \in {"returned", "failed"}
           /\ \A c \in Calls, f \in Fields : fetcher[c][f] \in {"none", "ended"}

Finished == AllDone /\ UNCHANGED vars

Progress == \E c \in Calls : Call(c) \/ \E f \in Fields : Fetcher(c, f)

Next == \/ Progress
        \/ AccountAdvances
        \/ Finished

\* As long as some goroutine can run, one does; and the node's HTTP calls
\* return, with an answer or not.
Spec == Init /\ [][Next]_vars /\ WF_vars(Progress)

-----------------------------------------------------------------------------

TypeOK == /\ given \in [Calls -> GivenSets]
          /\ chainId \in {Default, Node}
          /\ accountNumber \in 0 .. MaxAccountNumber
          /\ pc \in [Calls -> Fields \union {"start", "returned", "failed"}]
          /\ fetcher \in [Calls -> [Fields ->
                           {"none", "running", "asking", "ok", "error", "ended"}]]
          /\ \A c \in Calls, f \in Fields :
               /\ errs[c][f] \in ChannelOf({"ok", "error"})
               /\ local[c][f] \in {Default, Option}
                                  \union (IF f = "account" THEN 0 .. MaxAccountNumber ELSE {Node})
          /\ startNumber \in [Calls -> 0 .. MaxAccountNumber]

\* A returned transaction holds, for every field, the option's value or one the
\* node gave: never the default of a variable read before its goroutine wrote
\* it, and never a field whose fetch failed.
ReturnedIsComplete ==
  \A c \in Calls : txn[c] # NoTxn =>
    \A f \in Fields :
      IF f \in given[c] THEN txn[c].fields[f] = Option ELSE txn[c].fields[f] # Default

\* A sequence number that no option gave is one the account had while the call
\* ran.
NumberWasCurrent ==
  \A c \in Calls : txn[c] # NoTxn /\ "account" \notin given[c] =>
    txn[c].fields["account"] \in startNumber[c] .. accountNumber

\* Every call returns, and every goroutine it started ends, also when the call
\* returned early because another one failed.
NoGoroutineLeaks == <>AllDone

\* The doc comment: "ExpirationSeconds will set the number of seconds from the
\* current time to expire a transaction".
ExpirationIsRelative ==
  \A c \in Calls : txn[c] # NoTxn /\ expiration[c] # NoOption =>
    txn[c].expires = Now + expiration[c]
==============================================================================

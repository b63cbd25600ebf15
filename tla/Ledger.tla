-------------------------------- MODULE Ledger ------------------------------
(***************************************************************************)
(* The node's ledger as the paging requests of the REST API show it.  A    *)
(* transaction is its version; some are of the account asked for, where    *)
(* they are counted by sequence number, and so is the start of a request   *)
(* for them: AccountTransactions counts on from SequenceNumber - 1.  A     *)
(* request answers at most NodeMax transactions, NodeDefault if it gives   *)
(* no limit, in ascending order.                                           *)
(***************************************************************************)
EXTENDS Naturals, Sequences, FiniteSets, SequencesExt

CONSTANTS NodeMax, NodeDefault, None

ASSUME LedgerAssumption == /\ NodeMax \in Nat /\ NodeDefault \in 1 .. NodeMax
                           /\ None \notin Nat

\* ledger[v + 1] says whether the transaction of version v is the account's.
Versions(ledger) == [i \in 1 .. Len(ledger) |-> i - 1]
OwnVersions(ledger) == {v \in 0 .. Len(ledger) - 1 : ledger[v + 1]}
SequenceNumber(ledger, v) == Cardinality({w \in OwnVersions(ledger) : w < v})

\* The account's transactions by sequence number.
Own(ledger) == [n \in 1 .. Cardinality(OwnVersions(ledger)) |->
                  CHOOSE v \in OwnVersions(ledger) : SequenceNumber(ledger, v) = n - 1]

Least(a, b) == IF a < b THEN a ELSE b
PageLength(limit) == IF limit = None THEN NodeDefault ELSE Least(limit, NodeMax)

\* The newest of a list, or those from a position on.
Page(list, start, limit) ==
  LET n == PageLength(limit)
      first == IF start # None THEN start + 1
               ELSE IF Len(list) > n THEN Len(list) - n + 1 ELSE 1
  IN  SubSeq(list, first, Least(first + n - 1, Len(list)))

\* A version above the newest is not found; a sequence number above the
\* account's last has an empty page.
Found(ledger, account, start) ==
  IF account \/ start = None THEN TRUE ELSE start < Len(ledger)
PageOf(ledger, account, start, limit) ==
  Page(IF account THEN Own(ledger) ELSE Versions(ledger), start, limit)
==============================================================================

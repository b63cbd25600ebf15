------------------------ MODULE SequenceNumberTracker ------------------------
(***************************************************************************)
(* SequenceNumberTracker of transactionSubmission.go: an atomic.Uint64     *)
(* that several goroutines advance with a load / compare-and-swap loop     *)
(* (Increment) while others overwrite it (Update).                         *)
(*                                                                         *)
(* An epoch is a stretch in which the number was neither overwritten nor   *)
(* wrapped around: within one, every number must be handed out once.       *)
(* The variables epoch, base and returned are history: the code does not   *)
(* keep them and no guard reads them.                                      *)
(***************************************************************************)
EXTENDS Naturals, Sequences

CONSTANTS Procs,         \* goroutines that call Increment
          MaxUint64,     \* largest value of the counter
          NoNumber,      \* result of a goroutine before its first call returns
          CallsPerProc,  \* bound: calls of Increment each goroutine makes
          MaxUpdates     \* bound: calls of Update

ASSUME TrackerAssumption == /\ MaxUint64 \in Nat
                            /\ CallsPerProc \in Nat
                            /\ MaxUpdates \in Nat
                            /\ NoNumber \notin 0 .. MaxUint64

VARIABLES counter,   \* snt.SequenceNumber
          pc,        \* "idle", or where the goroutine is inside Increment
          loaded,    \* seqNumber, the local of Increment
          result,    \* what the goroutine's last call returned
          calls,     \* calls each goroutine has made
          updates,   \* calls of Update made
          epoch,     \* history: overwrites and wraparounds so far
          base,      \* history: the counter when the epoch began
          returned   \* history: every number handed out, with its epoch

callVars == <<calls, updates>>
history  == <<epoch, base, returned>>
vars     == <<counter, pc, loaded, result, callVars, history>>

Numbers == 0 .. MaxUint64

\* An entry of the history: a number and the epoch it was handed out in.
Entry == [epoch : Nat, number : Numbers]

\* Mutant: the sum never wraps.
SuccessorUnbounded(n) == n + 1

\* seqNumber + 1 in uint64 arithmetic
Successor(n) == IF n = MaxUint64 THEN 0 ELSE n + 1

Init == /\ counter \in Numbers
        /\ pc = [g \in Procs |-> "idle"]
        /\ loaded = [g \in Procs |-> 0]
        /\ result = [g \in Procs |-> NoNumber]
        /\ calls = [g \in Procs |-> 0]
        /\ updates = 0
        /\ epoch = 0
        /\ base = counter
        /\ returned = <<>>

\* Increment is called.
Call(g) == /\ pc[g] = "idle"
           /\ calls[g] < CallsPerProc
           /\ pc' = [pc EXCEPT ![g] = "load"]
           /\ calls' = [calls EXCEPT ![g] = @ + 1]
           /\ UNCHANGED <<counter, loaded, result, updates, history>>

\* seqNumber := snt.SequenceNumber.Load()
Load(g) == /\ pc[g] = "load"
           /\ loaded' = [loaded EXCEPT ![g] = counter]
           /\ pc' = [pc EXCEPT ![g] = "cas"]
           /\ UNCHANGED <<counter, result, callVars, history>>

\* Mutant: the counter is stored without comparing it to what was loaded.
SwapWithoutCompare(g) ==
  /\ pc[g] = "cas"
  /\ counter' = Successor(loaded[g])
  /\ result' = [result EXCEPT ![g] = loaded[g]]
  /\ pc' = [pc EXCEPT ![g] = "idle"]
  /\ returned' = Append(returned, [epoch |-> epoch, number |-> loaded[g]])
  /\ UNCHANGED <<loaded, callVars, epoch, base>>

\* Mutant: the new number is returned in place of the old one.
SwapReturnsNext(g) ==
  /\ pc[g] = "cas"
  /\ counter = loaded[g]
  /\ counter' = Successor(loaded[g])
  /\ result' = [result EXCEPT ![g] = counter']
  /\ pc' = [pc EXCEPT ![g] = "idle"]
  /\ returned' = Append(returned, [epoch |-> epoch, number |-> counter'])
  /\ epoch' = IF loaded[g] = MaxUint64 THEN epoch + 1 ELSE epoch
  /\ base' = IF loaded[g] = MaxUint64 THEN 0 ELSE base
  /\ UNCHANGED <<loaded, callVars>>

\* The swap succeeds and the old number is returned.
SwapSucceeds(g) ==
  /\ pc[g] = "cas"
  /\ counter = loaded[g]
  /\ counter' = Successor(loaded[g])
  /\ result' = [result EXCEPT ![g] = loaded[g]]
  /\ pc' = [pc EXCEPT ![g] = "idle"]
  /\ returned' = Append(returned, [epoch |-> epoch, number |-> loaded[g]])
  /\ epoch' = IF loaded[g] = MaxUint64 THEN epoch + 1 ELSE epoch
  /\ base' = IF loaded[g] = MaxUint64 THEN 0 ELSE base
  /\ UNCHANGED <<loaded, callVars>>

\* Mutant: the loop retries with the number it loaded before.
RetryWithoutLoad(g) == /\ pc[g] = "cas"
                       /\ counter # loaded[g]
                       /\ UNCHANGED vars

\* Somebody moved the counter since the load: go round the loop again.
SwapFails(g) == /\ pc[g] = "cas"
                /\ counter # loaded[g]
                /\ pc' = [pc EXCEPT ![g] = "load"]
                /\ UNCHANGED <<counter, loaded, result, callVars, history>>

\* Update(next) replaces whatever number the tracker had reached.
Update(next) == /\ updates < MaxUpdates
                /\ updates' = updates + 1
                /\ counter' = next
                /\ epoch' = epoch + 1
                /\ base' = next
                /\ UNCHANGED <<pc, loaded, result, calls, returned>>

Increment(g) == Call(g) \/ Load(g) \/ SwapSucceeds(g) \/ SwapFails(g)

\* Every call has returned: nothing is left to do.
AllReturned == \A g \in Procs : pc[g] = "idle" /\ calls[g] = CallsPerProc

Finished == AllReturned /\ UNCHANGED vars

Next == \/ \E g \in Procs : Increment(g)
        \/ \E next \in Numbers : Update(next)
        \/ Finished

\* The Go scheduler runs every runnable goroutine; nobody has to call Update.
Spec == /\ Init
        /\ [][Next]_vars
        /\ \A g \in Procs : WF_vars(Increment(g))

-----------------------------------------------------------------------------

TypeOK == /\ counter \in Numbers
          /\ pc \in [Procs -> {"idle", "load", "cas"}]
          /\ loaded \in [Procs -> Numbers]
          /\ result \in [Procs -> Numbers \union {NoNumber}]
          /\ calls \in [Procs -> 0 .. CallsPerProc]
          /\ updates \in 0 .. MaxUpdates
          /\ epoch \in Nat
          /\ base \in Numbers
          /\ returned \in Seq(Entry)

\* Two calls of Increment never return the same number unless the counter was
\* overwritten (Update) or wrapped around between them: the compare-and-swap
\* loop loses no increment, however the calls interleave.
UniqueWithinEpoch == \A i, j \in DOMAIN returned :
                       returned[i] = returned[j] => i = j

\* Within an epoch the numbers handed out are exactly those from where the
\* epoch began up to the counter: Increment skips none, so transactions built
\* with them leave no hole in the account's sequence.
GaplessWithinEpoch ==
  {returned[i].number : i \in {j \in DOMAIN returned : returned[j].epoch = epoch}}
     = base .. (counter - 1)

\* Every call of Increment returns: a failed swap means that another call or an
\* update succeeded, and the loop reads the counter again before it retries.
EveryCallReturns == <>[]AllReturned

\* Load followed by a successful compare-and-swap acts as one indivisible
\* increment, and Update as one indivisible replacement.
Counter == INSTANCE SequenceCounter
AtomicCounter == Counter!Spec
==============================================================================

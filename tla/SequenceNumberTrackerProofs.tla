--------------------- MODULE SequenceNumberTrackerProofs ---------------------
(***************************************************************************)
(* Proofs about SequenceNumberTracker for any set of goroutines, any       *)
(* counter width and any number of calls.                                  *)
(***************************************************************************)
EXTENDS SequenceNumberTracker, GoChannelTheorems

\* Every variable keeps its type, the wraparound of the counter included.
THEOREM TrackerTypeOK == Spec => []TypeOK
<1> USE TrackerAssumption DEF Numbers, Successor
<1>1. Init => TypeOK
  BY DEF Init, TypeOK
<1>2. TypeOK /\ [Next]_vars => TypeOK'
  <2> SUFFICES ASSUME TypeOK, [Next]_vars
               PROVE  TypeOK'
    OBVIOUS
  <2> USE DEF TypeOK
  <2>1. ASSUME NEW g \in Procs, Call(g)
        PROVE  TypeOK'
    BY <2>1 DEF Call, history
  <2>2. ASSUME NEW g \in Procs, Load(g)
        PROVE  TypeOK'
    BY <2>2 DEF Load, callVars, history
  <2>3. ASSUME NEW g \in Procs, SwapSucceeds(g)
        PROVE  TypeOK'
    <3>1. returned' \in Seq(Entry)
      BY <2>3 DEF SwapSucceeds, Entry
    <3> QED BY <2>3, <3>1 DEF SwapSucceeds, callVars
  <2>4. ASSUME NEW g \in Procs, SwapFails(g)
        PROVE  TypeOK'
    BY <2>4 DEF SwapFails, callVars, history
  <2>5. ASSUME NEW next \in Numbers, Update(next)
        PROVE  TypeOK'
    BY <2>5 DEF Update
  <2>6. CASE UNCHANGED vars
    BY <2>6 DEF vars, callVars, history
  <2> QED
    BY <2>1, <2>2, <2>3, <2>4, <2>5, <2>6 DEF Next, Increment, Finished
<1> QED BY <1>1, <1>2, PTL DEF Spec

-----------------------------------------------------------------------------

\* The numbers of an epoch lie between where it began and the counter, so the
\* next number handed out, the counter itself, is new to the epoch.
EpochRange ==
  /\ base <= counter
  /\ \A i \in DOMAIN returned :
       /\ returned[i].epoch <= epoch
       /\ returned[i].epoch = epoch =>
            base <= returned[i].number /\ returned[i].number < counter

\* Every number between the two has been handed out.
EpochFilled ==
  \A n \in base .. (counter - 1) :
    \E i \in DOMAIN returned : returned[i] = [epoch |-> epoch, number |-> n]

UniqueInv == TypeOK /\ EpochRange /\ EpochFilled /\ UniqueWithinEpoch

\* The history starts empty and the epoch at the counter.
LEMMA UniqueInvInit == Init => UniqueInv
BY TrackerAssumption DEF Init, UniqueInv, TypeOK, EpochRange, EpochFilled,
   UniqueWithinEpoch, Numbers

\* Steps that leave the counter and the history alone preserve the invariant.
LEMMA UniqueInvFrame ==
  ASSUME UniqueInv, TypeOK', UNCHANGED <<counter, history>>
  PROVE  UniqueInv'
BY DEF UniqueInv, EpochRange, EpochFilled, UniqueWithinEpoch, history

\* The fields of a history entry.
LEMMA EntryFields ==
  ASSUME TypeOK
  PROVE  \A i \in DOMAIN returned :
           /\ returned[i] \in Entry
           /\ returned[i].epoch \in Nat
           /\ returned[i].number \in Numbers
           /\ returned[i].number \in Nat
<1>1. \A i \in DOMAIN returned : returned[i] \in Entry
  BY DEF TypeOK
<1>2. \A e \in Entry : e.epoch \in Nat /\ e.number \in Numbers
  BY DEF Entry
<1>3. Numbers \subseteq Nat
  BY TrackerAssumption DEF Numbers
<1> QED BY <1>1, <1>2, <1>3

\* A successful swap hands out the counter, which is new to its epoch.
LEMMA UniqueInvSwap ==
  ASSUME UniqueInv, TypeOK', NEW g \in Procs, SwapSucceeds(g)
  PROVE  UniqueInv'
<1> USE TrackerAssumption DEF Numbers, Successor
<1> DEFINE new == [epoch |-> epoch, number |-> counter]
<1>1. /\ returned' = Append(returned, new)
      /\ counter \in Numbers /\ base \in Numbers /\ epoch \in Nat
      /\ returned \in Seq(Entry)
  BY DEF SwapSucceeds, UniqueInv, TypeOK
<1>2. /\ DOMAIN returned' = 1 .. Len(returned) + 1
      /\ DOMAIN returned = 1 .. Len(returned)
      /\ \A i \in DOMAIN returned : /\ returned'[i] = returned[i]
                                    /\ returned[i].epoch \in Nat
                                    /\ returned[i].number \in Numbers
      /\ returned'[Len(returned) + 1] = new
      /\ Len(returned) \in Nat
  <2>1. new \in Entry
    BY <1>1 DEF Entry
  <2>2. TypeOK
    BY DEF UniqueInv
  <2> HIDE DEF new
  <2> QED BY <1>1, <2>1, <2>2, AppendFacts, EntryFields
<1>3. \A i \in DOMAIN returned : returned[i] # new
  BY <1>1, <1>2 DEF UniqueInv, EpochRange
<1>4. UniqueWithinEpoch'
  BY <1>2, <1>3 DEF UniqueInv, UniqueWithinEpoch
<1>5. CASE counter = MaxUint64
  <2>1. counter' = 0 /\ base' = 0 /\ epoch' = epoch + 1
    BY <1>5 DEF SwapSucceeds
  <2>2. EpochRange'
    BY <2>1, <1>1, <1>2 DEF UniqueInv, EpochRange
  <2>3. EpochFilled'
    BY <2>1 DEF EpochFilled
  <2> QED BY <2>2, <2>3, <1>4 DEF UniqueInv
<1>6. CASE counter # MaxUint64
  <2>1. counter' = counter + 1 /\ base' = base /\ epoch' = epoch
    BY <1>6 DEF SwapSucceeds
  <2>2. EpochRange'
    BY <2>1, <1>1, <1>2 DEF UniqueInv, EpochRange
  <2>3. EpochFilled'
    <3> SUFFICES ASSUME NEW n \in base .. counter
                 PROVE  \E i \in DOMAIN returned' : returned'[i] = [epoch |-> epoch, number |-> n]
      BY <2>1, <1>1 DEF EpochFilled
    <3>1. CASE n = counter
      BY <3>1, <1>2
    <3>2. CASE n # counter
      <4>1. n \in base .. (counter - 1)
        BY <3>2, <1>1
      <4>2. PICK i \in DOMAIN returned : returned[i] = [epoch |-> epoch, number |-> n]
        BY <4>1 DEF UniqueInv, EpochFilled
      <4> QED BY <4>2, <1>2
    <3> QED BY <3>1, <3>2
  <2> QED BY <2>2, <2>3, <1>4 DEF UniqueInv
<1> QED BY <1>5, <1>6

\* An update begins an epoch with no number handed out.
LEMMA UniqueInvUpdate ==
  ASSUME UniqueInv, TypeOK', NEW next \in Numbers, Update(next)
  PROVE  UniqueInv'
<1>1. /\ counter' = next /\ base' = next /\ epoch' = epoch + 1
      /\ returned' = returned
  BY DEF Update
<1>2. epoch \in Nat /\ next \in Nat
      /\ \A i \in DOMAIN returned : returned[i].epoch \in Nat
  BY TrackerAssumption, EntryFields DEF UniqueInv, TypeOK, Numbers
<1>3. EpochRange'
  BY <1>1, <1>2 DEF UniqueInv, EpochRange
<1>4. EpochFilled'
  BY <1>1, <1>2 DEF EpochFilled
<1>5. UniqueWithinEpoch'
  BY <1>1 DEF UniqueInv, UniqueWithinEpoch
<1> QED BY <1>3, <1>4, <1>5 DEF UniqueInv

\* The invariant from which uniqueness and gaplessness follow.
LEMMA UniqueInvariant == Spec => []UniqueInv
<1>1. UniqueInv /\ TypeOK' /\ [Next]_vars => UniqueInv'
  <2> SUFFICES ASSUME UniqueInv, TypeOK', [Next]_vars
               PROVE  UniqueInv'
    OBVIOUS
  <2>1. ASSUME NEW g \in Procs, SwapSucceeds(g)
        PROVE  UniqueInv'
    BY <2>1, UniqueInvSwap
  <2>2. ASSUME NEW next \in Numbers, Update(next)
        PROVE  UniqueInv'
    BY <2>2, UniqueInvUpdate
  <2>3. ASSUME NEW g \in Procs, Call(g) \/ Load(g) \/ SwapFails(g)
        PROVE  UniqueInv'
    BY <2>3, UniqueInvFrame DEF Call, Load, SwapFails, history
  <2>4. CASE UNCHANGED vars
    BY <2>4, UniqueInvFrame DEF vars, history
  <2> QED
    BY <2>1, <2>2, <2>3, <2>4 DEF Next, Increment, Finished
<1> QED BY <1>1, UniqueInvInit, TrackerTypeOK, PTL DEF Spec

\* No number is handed out twice within an epoch.
THEOREM TrackerUnique == Spec => []UniqueWithinEpoch
<1>1. UniqueInv => UniqueWithinEpoch
  BY DEF UniqueInv
<1> QED BY <1>1, UniqueInvariant, PTL

\* No number of an epoch is skipped.
THEOREM TrackerGapless == Spec => []GaplessWithinEpoch
<1>1. ASSUME UniqueInv
      PROVE  GaplessWithinEpoch
  <2> DEFINE handedOut == {returned[i].number :
                 i \in {j \in DOMAIN returned : returned[j].epoch = epoch}}
  <2>1. /\ base \in Nat /\ counter \in Nat
        /\ \A i \in DOMAIN returned : returned[i].number \in Nat
    BY <1>1, TrackerAssumption, EntryFields DEF UniqueInv, TypeOK, Numbers
  <2>2. ASSUME NEW n \in handedOut
        PROVE  n \in base .. (counter - 1)
    BY <1>1, <2>1 DEF UniqueInv, EpochRange
  <2>3. ASSUME NEW n \in base .. (counter - 1)
        PROVE  n \in handedOut
    <3>1. PICK i \in DOMAIN returned : returned[i] = [epoch |-> epoch, number |-> n]
      BY <1>1 DEF UniqueInv, EpochFilled
    <3> QED BY <3>1
  <2> QED BY <2>2, <2>3 DEF GaplessWithinEpoch
<1> QED BY <1>1, UniqueInvariant, PTL

-----------------------------------------------------------------------------

\* The load / compare-and-swap loop implements a counter with indivisible
\* increments: only a successful swap is visible, and it returns the number
\* the counter has at that very moment.
THEOREM TrackerIsAtomicCounter == Spec => AtomicCounter
<1> USE DEF Counter!Numbers, Numbers, Counter!Successor, Successor
<1>1. Init => Counter!Init
  BY DEF Init, Counter!Init
<1>2. [Next]_vars => [Counter!Next]_<<counter, result>>
  <2> SUFFICES ASSUME [Next]_vars
               PROVE  Counter!Next \/ UNCHANGED <<counter, result>>
    OBVIOUS
  <2>1. ASSUME NEW g \in Procs, SwapSucceeds(g)
        PROVE  Counter!TakeNumber(g)
    BY <2>1 DEF SwapSucceeds, Counter!TakeNumber
  <2>2. ASSUME NEW next \in Numbers, Update(next)
        PROVE  Counter!Replace(next)
    BY <2>2 DEF Update, Counter!Replace
  <2>3. ASSUME NEW g \in Procs, Call(g) \/ Load(g) \/ SwapFails(g)
        PROVE  UNCHANGED <<counter, result>>
    BY <2>3 DEF Call, Load, SwapFails
  <2>4. CASE UNCHANGED vars
    BY <2>4 DEF vars
  <2> QED
    BY <2>1, <2>2, <2>3, <2>4 DEF Next, Increment, Finished, Counter!Next
<1> QED BY <1>1, <1>2, PTL DEF Spec, AtomicCounter, Counter!Spec
==============================================================================

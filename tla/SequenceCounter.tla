--------------------------- MODULE SequenceCounter ---------------------------
(***************************************************************************)
(* What a sequence number tracker promises: a counter whose increment and  *)
(* whose update each happen in one indivisible step.  Goroutines of Procs  *)
(* share it; result[g] is the number the last call of g returned.          *)
(***************************************************************************)
EXTENDS Naturals

CONSTANTS Procs,      \* the goroutines that share the counter
          MaxUint64,  \* the largest value of the counter, after which it wraps
          NoNumber    \* the result of a goroutine that has had no number yet

VARIABLES counter,    \* the next number to hand out
          result      \* result[g], the last number handed to g

Numbers == 0 .. MaxUint64

\* Go's unsigned addition wraps around.
Successor(n) == IF n = MaxUint64 THEN 0 ELSE n + 1

Init == /\ counter \in Numbers
        /\ result = [g \in Procs |-> NoNumber]

\* One indivisible read-and-advance.
TakeNumber(g) == /\ result' = [result EXCEPT ![g] = counter]
                 /\ counter' = Successor(counter)

\* One indivisible replacement.
Replace(n) == /\ counter' = n
              /\ UNCHANGED result

Next == \/ \E g \in Procs : TakeNumber(g)
        \/ \E n \in Numbers : Replace(n)

Spec == Init /\ [][Next]_<<counter, result>>
==============================================================================

--------------------------- MODULE TxnPagingProofs --------------------------
(***************************************************************************)
(* Proofs about TxnPaging for any ledger, any page size, any number of     *)
(* pages and any failures: what the caller gets for what it asks for, how  *)
(* the goroutines of the pages and the caller that collects them hand      *)
(* over, and what becomes of a page that failed.                           *)
(***************************************************************************)
EXTENDS TxnPaging, GoChannelTheorems, FiniteSetTheorems, SequenceTheorems

-----------------------------------------------------------------------------
(* The lists of the ledger.                                                 *)

\* What is asked for, of the account's transactions or of all.
ListOf(account, l) == IF account THEN Own(l) ELSE Versions(l)

\* The account's versions are a finite set, which a version's sequence number
\* counts up to it: the numbers are in the order of the versions and below the
\* number of them all.
LEMMA SequenceNumbers ==
  ASSUME NEW l \in Seq(BOOLEAN)
  PROVE  /\ IsFiniteSet(OwnVersions(l)) /\ Cardinality(OwnVersions(l)) \in Nat
         /\ \A v \in OwnVersions(l) :
              SequenceNumber(l, v) \in 0 .. Cardinality(OwnVersions(l)) - 1
         /\ \A v, w \in OwnVersions(l) : v < w => SequenceNumber(l, v) < SequenceNumber(l, w)
<1> DEFINE O == OwnVersions(l)
           below(v) == {w \in O : w < v}
<1>1. Len(l) \in Nat /\ O \subseteq 0 .. Len(l) - 1 /\ 0 .. Len(l) - 1 \subseteq Nat
  BY DEF OwnVersions
<1>2. IsFiniteSet(0 .. Len(l) - 1)
  BY <1>1, FS_Interval
<1>3. IsFiniteSet(O) /\ Cardinality(O) \in Nat
  BY <1>1, <1>2, FS_Subset, FS_CardinalityType
<1>4. \A v \in O : below(v) \in SUBSET O /\ v \notin below(v)
                   /\ below(v) \union {v} \in SUBSET O
  <2>1. \A v \in O : ~(v < v)
    BY <1>1
  <2> QED BY <2>1
<1>5. \A v, w \in O : v < w => below(v) \union {v} \in SUBSET below(w)
  <2>1. \A u, v, w \in O : u < v /\ v < w => u < w
    BY <1>1
  <2> QED BY <2>1
<1>6. \A v : SequenceNumber(l, v) = Cardinality(below(v))
  BY DEF SequenceNumber
<1> HIDE DEF O, below
<1>7. ASSUME NEW v \in O
      PROVE  /\ IsFiniteSet(below(v)) /\ Cardinality(below(v)) \in Nat
             /\ Cardinality(below(v) \union {v}) = Cardinality(below(v)) + 1
  <2>1. IsFiniteSet(below(v)) /\ Cardinality(below(v)) \in Nat
    BY <1>3, <1>4, FS_Subset, FS_CardinalityType
  <2> QED BY <1>4, <2>1, FS_AddElement
<1>8. ASSUME NEW v \in O
      PROVE  Cardinality(below(v)) \in 0 .. Cardinality(O) - 1
  <2>1. Cardinality(below(v) \union {v}) <= Cardinality(O)
    BY <1>3, <1>4, FS_Subset
  <2> QED BY <1>3, <1>7, <2>1
<1>9. ASSUME NEW v \in O, NEW w \in O, v < w
      PROVE  Cardinality(below(v)) < Cardinality(below(w))
  <2>1. Cardinality(below(v) \union {v}) <= Cardinality(below(w))
    BY <1>5, <1>7, <1>9, FS_Subset
  <2>2. /\ Cardinality(below(v)) \in Nat /\ Cardinality(below(w)) \in Nat
        /\ Cardinality(below(v) \union {v}) = Cardinality(below(v)) + 1
    BY <1>7
  <2> QED BY <2>1, <2>2
<1> QED BY <1>3, <1>6, <1>8, <1>9 DEF O

\* There is a version for each of the numbers, and only one.
LEMMA OwnOf ==
  ASSUME NEW l \in Seq(BOOLEAN), NEW n \in 1 .. Cardinality(OwnVersions(l))
  PROVE  /\ Own(l)[n] \in OwnVersions(l)
         /\ SequenceNumber(l, Own(l)[n]) = n - 1
         /\ \A v \in OwnVersions(l) : SequenceNumber(l, v) = n - 1 => v = Own(l)[n]
<1> DEFINE O == OwnVersions(l)
           N == 0 .. Cardinality(O) - 1
           f == [v \in O |-> SequenceNumber(l, v)]
<1>1. /\ IsFiniteSet(O) /\ Cardinality(O) \in Nat
      /\ \A v \in O : SequenceNumber(l, v) \in N
      /\ \A v, w \in O : v < w => SequenceNumber(l, v) < SequenceNumber(l, w)
  BY SequenceNumbers
<1>2. \A v \in O : v \in Nat /\ SequenceNumber(l, v) \in Nat
  BY <1>1 DEF OwnVersions
<1>3. IsFiniteSet(N) /\ Cardinality(N) = Cardinality(O)
  <2>1. \A c \in Nat : IsFiniteSet(0 .. c - 1) /\ Cardinality(0 .. c - 1) = c
    <3>1. \A c \in Nat : c - 1 \in Int /\ (IF 0 > c - 1 THEN 0 ELSE c - 1 - 0 + 1) = c
      OBVIOUS
    <3> QED BY <3>1, FS_Interval
  <2> QED BY <1>1, <2>1
<1> HIDE DEF O, N
<1>4. ASSUME NEW v \in O, NEW w \in O, SequenceNumber(l, v) = SequenceNumber(l, w)
      PROVE  v = w
  <2>1. v < w \/ w < v => SequenceNumber(l, v) # SequenceNumber(l, w)
    <3>1. \A a \in Nat : ~(a < a)
      OBVIOUS
    <3> QED BY <1>1, <1>2, <3>1
  <2> QED BY <1>2, <1>4, <2>1
<1>5. f \in [O -> N] /\ IsInjective(f)
  BY <1>1, <1>4 DEF IsInjective
<1>6. f \in Surjection(O, N)
  BY <1>3, <1>5, FS_Injection DEF Injection
<1>7. n - 1 \in N
  BY <1>1 DEF N, O
<1>8. \E v \in O : SequenceNumber(l, v) = n - 1
  BY <1>6, <1>7 DEF Surjection
<1>9. Own(l)[n] = CHOOSE v \in O : SequenceNumber(l, v) = n - 1
  BY DEF Own, O
<1> QED BY <1>4, <1>8, <1>9 DEF O

\* Either list holds versions of the ledger in ascending order.
LEMMA ListProperties ==
  ASSUME NEW account \in BOOLEAN, NEW l \in Seq(BOOLEAN)
  PROVE  LET list == ListOf(account, l)
         IN  /\ list \in Seq(0 .. Len(l) - 1) /\ Len(list) \in Nat
             /\ DOMAIN list = 1 .. Len(list)
             /\ \A j, k \in 1 .. Len(list) : j < k => list[j] < list[k]
<1> DEFINE C == Cardinality(OwnVersions(l))
<1>1. CASE account
  <2>1. C \in Nat /\ ListOf(account, l) = Own(l)
    BY <1>1, SequenceNumbers DEF ListOf
  <2>2. /\ DOMAIN Own(l) = 1 .. C
        /\ Own(l) = [n \in 1 .. C |-> Own(l)[n]]
    BY DEF Own
  <2>3. \A n \in 1 .. C : Own(l)[n] \in 0 .. Len(l) - 1
    BY OwnOf DEF OwnVersions
  <2> HIDE DEF C
  <2>4. Own(l) \in Seq(0 .. Len(l) - 1) /\ Len(Own(l)) = C
    <3>1. \A S, s : s = [n \in 1 .. C |-> s[n]] /\ (\A n \in 1 .. C : s[n] \in S)
                    => s \in Seq(S) /\ Len(s) = C
      BY <2>1
    <3> QED BY <2>2, <2>3, <3>1
  <2>5. ASSUME NEW j \in 1 .. C, NEW k \in 1 .. C, j < k
        PROVE  Own(l)[j] < Own(l)[k]
    <3>1. /\ Own(l)[j] \in OwnVersions(l) /\ SequenceNumber(l, Own(l)[j]) = j - 1
          /\ Own(l)[k] \in OwnVersions(l) /\ SequenceNumber(l, Own(l)[k]) = k - 1
      BY OwnOf DEF C
    <3>2. ~(Own(l)[k] < Own(l)[j]) /\ Own(l)[k] # Own(l)[j]
      <4>1. j - 1 < k - 1 /\ ~(k - 1 < j - 1) /\ j - 1 # k - 1
        BY <2>5
      <4> QED BY <3>1, <4>1, SequenceNumbers
    <3> QED BY <2>3, <3>2
  <2> QED BY <2>1, <2>2, <2>4, <2>5
<1>2. CASE ~account
  BY <1>2 DEF ListOf, Versions
<1> QED BY <1>1, <1>2

\* Position p of the list of all is version p - 1.
LEMMA VersionsProperties ==
  ASSUME NEW l \in Seq(BOOLEAN)
  PROVE  /\ Len(Versions(l)) = Len(l)
         /\ \A p \in 1 .. Len(l) : Versions(l)[p] = p - 1
BY DEF Versions

\* A version below the end of a ledger keeps its sequence number when the
\* ledger grows.
LEMMA SequenceNumberStays ==
  ASSUME NEW l \in Seq(BOOLEAN), NEW b \in BOOLEAN, NEW v \in 0 .. Len(l)
  PROVE  SequenceNumber(Append(l, b), v) = SequenceNumber(l, v)
<1> DEFINE m == Append(l, b)
<1>1. Len(l) \in Nat /\ Len(m) = Len(l) + 1 /\ \A i \in 1 .. Len(l) : m[i] = l[i]
  OBVIOUS
<1> HIDE DEF m
<1>2. {w \in OwnVersions(m) : w < v} = {w \in OwnVersions(l) : w < v}
  <2>1. ASSUME NEW w \in 0 .. Len(l) - 1
        PROVE  w \in OwnVersions(m) <=> w \in OwnVersions(l)
    <3>1. w + 1 \in 1 .. Len(l) /\ w \in 0 .. Len(m) - 1
      BY <1>1
    <3> QED BY <1>1, <3>1 DEF OwnVersions
  <2>2. /\ \A w \in OwnVersions(m) : w < v => w \in 0 .. Len(l) - 1
        /\ \A w \in OwnVersions(l) : w \in 0 .. Len(l) - 1
    BY <1>1 DEF OwnVersions
  <2> QED BY <2>1, <2>2
<1> QED BY <1>2 DEF SequenceNumber, m

\* A ledger that grows by a transaction adds it to the end of the lists it is
\* in, and changes no other place of them.
LEMMA ListGrows ==
  ASSUME NEW account \in BOOLEAN, NEW l \in Seq(BOOLEAN), NEW b \in BOOLEAN
  PROVE  LET old == ListOf(account, l)
             new == ListOf(account, Append(l, b))
         IN  /\ Len(old) <= Len(new)
             /\ \A p \in 1 .. Len(old) : new[p] = old[p]
             /\ \A p \in Len(old) + 1 .. Len(new) : new[p] = Len(l)
<1> DEFINE m == Append(l, b)
<1>1. /\ Len(l) \in Nat /\ m \in Seq(BOOLEAN) /\ Len(m) = Len(l) + 1
      /\ \A i \in 1 .. Len(l) : m[i] = l[i]
      /\ m[Len(l) + 1] = b
  OBVIOUS
<1> HIDE DEF m
<1>2. CASE ~account
  <2>1. ListOf(account, l) = Versions(l) /\ ListOf(account, m) = Versions(m)
    BY <1>2 DEF ListOf
  <2>2. /\ Len(Versions(l)) = Len(l) /\ \A p \in 1 .. Len(l) : Versions(l)[p] = p - 1
        /\ Len(Versions(m)) = Len(m) /\ \A p \in 1 .. Len(m) : Versions(m)[p] = p - 1
    BY <1>1, VersionsProperties
  <2> QED BY <1>1, <2>1, <2>2 DEF m
<1>3. CASE account
  <2> DEFINE O == OwnVersions(l)
             P == OwnVersions(m)
             c == Cardinality(O)
             d == Cardinality(P)
  <2>1. /\ IsFiniteSet(O) /\ c \in Nat /\ d \in Nat
        /\ ListOf(account, l) = Own(l) /\ ListOf(account, m) = Own(m)
    BY <1>1, <1>3, SequenceNumbers DEF ListOf
  <2>2. Len(Own(l)) = c /\ Len(Own(m)) = d
    BY <2>1 DEF Own
  <2>3. O \subseteq 0 .. Len(l) - 1 /\ Len(l) \notin O
    BY <1>1 DEF OwnVersions
  <2>4. \A w : w \in P <=> w \in O \/ (w = Len(l) /\ b)
    <3>1. ASSUME NEW w \in 0 .. Len(l) - 1
          PROVE  w \in P <=> w \in O
      <4>1. w + 1 \in 1 .. Len(l) /\ w \in 0 .. Len(m) - 1
        BY <1>1
      <4> QED BY <1>1, <4>1 DEF OwnVersions
    <3>2. \A w \in P : w \in 0 .. Len(l) - 1 \/ w = Len(l)
      BY <1>1 DEF OwnVersions
    <3>3. Len(l) \in P <=> b
      BY <1>1 DEF OwnVersions
    <3> QED BY <2>3, <3>1, <3>2, <3>3
  <2>5. d = IF b THEN c + 1 ELSE c
    <3>1. P = IF b THEN O \union {Len(l)} ELSE O
      BY <2>4
    <3> QED BY <2>1, <2>3, <3>1, FS_AddElement
  <2>6. ASSUME NEW p \in 1 .. c
        PROVE  Own(m)[p] = Own(l)[p]
    <3>1. Own(l)[p] \in O /\ SequenceNumber(l, Own(l)[p]) = p - 1
      BY OwnOf
    <3>2. Own(l)[p] \in P /\ Own(l)[p] \in 0 .. Len(l)
      BY <1>1, <2>3, <2>4, <3>1
    <3>3. SequenceNumber(m, Own(l)[p]) = p - 1
      BY <3>1, <3>2, SequenceNumberStays DEF m
    <3>4. p \in 1 .. d
      BY <2>1, <2>5
    <3> QED BY <1>1, <3>2, <3>3, <3>4, OwnOf
  <2>7. ASSUME NEW p \in c + 1 .. d
        PROVE  Own(m)[p] = Len(l)
    <3>1. b /\ p = c + 1 /\ p \in 1 .. d
      BY <2>1, <2>5
    <3>2. Len(l) \in P /\ Len(l) \in 0 .. Len(l)
      BY <1>1, <2>4, <3>1
    <3>3. {w \in O : w < Len(l)} = O
      BY <1>1, <2>3
    <3>4. SequenceNumber(l, Len(l)) = c
      BY <3>3 DEF SequenceNumber
    <3>5. SequenceNumber(m, Len(l)) = p - 1
      <4>1. SequenceNumber(m, Len(l)) = SequenceNumber(l, Len(l))
        BY <3>2, SequenceNumberStays DEF m
      <4> QED BY <2>1, <3>1, <3>4, <4>1
    <3> QED BY <1>1, <3>1, <3>2, <3>5, OwnOf
  <2> HIDE DEF O, P, c, d
  <2>8. c <= d
    BY <2>1, <2>5
  <2> QED BY <2>1, <2>2, <2>6, <2>7, <2>8 DEF m
<1> QED BY <1>2, <1>3

-----------------------------------------------------------------------------
(* Parts of a list.                                                         *)

\* Data are places first + 1, first + 2, ... of a list, at most so many of them,
\* and if the node answers whole pages all that were there when it was short.
IsPart(list, short, data, first, most) ==
  /\ Len(data) <= most
  /\ \A k \in 1 .. Len(data) : first + k <= Len(list) /\ data[k] = list[first + k]
  /\ PageSize <= NodeMax =>
       \A p \in first + 1 .. first + most :
         p <= Len(list) /\ list[p] < short => p <= first + Len(data)

\* Data have the same places, in any order.
IsExact(list, short, data, first, most) ==
  /\ \A j, k \in 1 .. Len(data) : data[j] = data[k] => j = k
  /\ \A k \in 1 .. Len(data) :
       \E p \in first + 1 .. first + most : p <= Len(list) /\ data[k] = list[p]
  /\ PageSize <= NodeMax =>
       \A p \in first + 1 .. first + most :
         p <= Len(list) /\ list[p] < short => \E k \in 1 .. Len(data) : data[k] = list[p]

Ascends(list) == \A j, k \in 1 .. Len(list) : j < k => list[j] < list[k]

\* What a step of the ledger does to a list.
Grows(old, new, version) ==
  /\ Len(old) <= Len(new)
  /\ \A p \in 1 .. Len(old) : new[p] = old[p]
  /\ \A p \in Len(old) + 1 .. Len(new) : new[p] = version

\* A stretch of a list.
LEMMA Stretch ==
  ASSUME NEW S, NEW list \in Seq(S), NEW a \in Nat, NEW b \in 0 .. Len(list)
  PROVE  LET part == SubSeq(list, a + 1, b)
         IN  /\ part \in Seq(S)
             /\ Len(part) = IF a <= b THEN b - a ELSE 0
             /\ \A k \in 1 .. b - a : part[k] = list[a + k]
<1> DEFINE c == a + 1
           part == SubSeq(list, c, b)
<1>1. c \in Int /\ b \in Int /\ Len(list) \in Nat /\ \A i \in c .. b : list[i] \in S
  OBVIOUS
<1>2. b - c + 1 = b - a /\ (c <= b <=> a + 1 <= b) /\ \A k \in 1 .. b - a : c + k - 1 = a + k
  OBVIOUS
<1>3. (IF a + 1 <= b THEN b - a ELSE 0) = IF a <= b THEN b - a ELSE 0
  OBVIOUS
<1> HIDE DEF c
<1>4. /\ part \in Seq(S) /\ Len(part) = IF c <= b THEN b - c + 1 ELSE 0
      /\ \A i \in 1 .. b - c + 1 : part[i] = list[c + i - 1]
  BY <1>1, SubSeqProperties
<1> HIDE DEF part
<1>5. \A k \in 1 .. b - a : part[k] = list[a + k]
  BY <1>2, <1>4
<1>6. Len(part) = IF a <= b THEN b - a ELSE 0
  BY <1>2, <1>3, <1>4
<1> QED BY <1>4, <1>5, <1>6 DEF part, c

\* A page from a position on is the part asked for, and not an empty one if
\* there is anything to give.
LEMMA PageFromPosition ==
  ASSUME NEW n \in Nat, NEW list \in Seq(0 .. n - 1), NEW short,
         NEW first \in Nat, NEW most \in 0 .. PageSize
  PROVE  LET page == Page(list, first, most)
         IN  /\ page \in Seq(0 .. n - 1) /\ Len(page) \in Nat
             /\ IsPart(list, short, page, first, most)
             /\ most > 0 /\ first < Len(list) => Len(page) > 0
<1> DEFINE l == PageLength(most)
           b == Least(first + l, Len(list))
           page == Page(list, first, most)
<1>1. /\ l \in Nat /\ l <= most /\ (most > 0 => l > 0) /\ (PageSize <= NodeMax => l = most)
      /\ most \in Nat /\ PageSize \in Nat /\ NodeMax \in Nat /\ Len(list) \in Nat
  BY LedgerAssumption, PagingAssumption DEF PageLength, Least
<1>2. b \in Nat /\ b <= first + l /\ b <= Len(list) /\ (b = first + l \/ b = Len(list))
  BY <1>1 DEF Least
<1>3. page = SubSeq(list, first + 1, b)
  <2>1. first + 1 + l - 1 = first + l /\ first # None
    BY <1>1, LedgerAssumption
  <2> QED BY <2>1 DEF Page
<1> HIDE DEF l, b, page
<1>4. /\ page \in Seq(0 .. n - 1)
      /\ Len(page) = IF first <= b THEN b - first ELSE 0
      /\ \A k \in 1 .. b - first : page[k] = list[first + k]
  <2>1. b \in 0 .. Len(list)
    BY <1>1, <1>2
  <2> QED BY <1>3, <2>1, Stretch
<1>5. Len(page) \in Nat /\ Len(page) <= most /\ (most > 0 /\ first < Len(list) => Len(page) > 0)
  BY <1>1, <1>2, <1>4
<1>6. ASSUME NEW k \in 1 .. Len(page)
      PROVE  first + k <= Len(list) /\ page[k] = list[first + k]
  BY <1>1, <1>2, <1>4
<1>7. ASSUME PageSize <= NodeMax, NEW p \in first + 1 .. first + most, p <= Len(list)
      PROVE  p <= first + Len(page)
  BY <1>1, <1>2, <1>4, <1>7
<1> QED BY <1>4, <1>5, <1>6, <1>7 DEF IsPart, page

\* A page without a position is the end of the list.
LEMMA PageOfNewest ==
  ASSUME NEW n \in Nat, NEW list \in Seq(0 .. n - 1), NEW most \in Nat \union {None}
  PROVE  LET page == Page(list, None, most)
         IN  /\ page \in Seq(0 .. n - 1) /\ Len(page) \in Nat
             /\ most # None => Len(page) <= most
             /\ \E before \in Nat :
                  /\ before + Len(page) = Len(list)
                  /\ \A k \in 1 .. Len(page) : page[k] = list[before + k]
<1> DEFINE l == PageLength(most)
           a == IF Len(list) > l THEN Len(list) - l ELSE 0
           page == Page(list, None, most)
<1>1. l \in Nat /\ Len(list) \in Nat /\ (most # None => most \in Nat /\ l <= most)
  BY LedgerAssumption DEF PageLength, Least
<1>2. a \in Nat /\ a <= Len(list) /\ Len(list) - a <= l
  BY <1>1
<1>3. page = SubSeq(list, a + 1, Len(list))
  <2>1. (IF Len(list) > l THEN Len(list) - l + 1 ELSE 1) = a + 1
    BY <1>1
  <2>2. Least(a + 1 + l - 1, Len(list)) = Len(list)
    BY <1>1, <1>2 DEF Least
  <2> QED BY <2>1, <2>2 DEF Page
<1> HIDE DEF l, a, page
<1>4. /\ page \in Seq(0 .. n - 1)
      /\ Len(page) = Len(list) - a
      /\ \A k \in 1 .. Len(list) - a : page[k] = list[a + k]
  <2>1. Len(list) \in 0 .. Len(list)
    BY <1>1
  <2> QED BY <1>2, <1>3, <2>1, Stretch
<1>5. Len(page) \in Nat /\ (most # None => Len(page) <= most) /\ a + Len(page) = Len(list)
  BY <1>1, <1>2, <1>4
<1>6. \A k \in 1 .. Len(page) : page[k] = list[a + k]
  BY <1>4
<1> QED BY <1>2, <1>4, <1>5, <1>6 DEF page

\* A page without a limit has as many as the node likes.
LEMMA PageUnlimited ==
  ASSUME NEW n \in Nat, NEW list \in Seq(0 .. n - 1), NEW first \in Nat
  PROVE  Page(list, first, None) \in Seq(0 .. n - 1)
<1> DEFINE b == Least(first + 1 + NodeDefault - 1, Len(list))
<1>1. b \in Int /\ b <= Len(list) /\ Len(list) \in Nat
  BY LedgerAssumption DEF Least
<1>2. Page(list, first, None) = SubSeq(list, first + 1, b)
  BY LedgerAssumption DEF Page, PageLength
<1> HIDE DEF b
<1>3. \A i \in first + 1 .. b : list[i] \in 0 .. n - 1
  BY <1>1
<1> QED BY <1>1, <1>2, <1>3, SubSeqProperties

\* A part stays one while the list grows: what is new was not there when the
\* list was short.
LEMMA PartStays ==
  ASSUME NEW n \in Nat, NEW short \in 0 .. n, NEW old \in Seq(Nat), NEW new \in Seq(Nat),
         Grows(old, new, n), NEW first \in Nat, NEW most \in Nat, NEW data,
         IsPart(old, short, data, first, most)
  PROVE  IsPart(new, short, data, first, most)
<1>1. Len(old) \in Nat /\ Len(new) \in Nat /\ Len(old) <= Len(new)
  BY DEF Grows
<1>2. ASSUME NEW k \in 1 .. Len(data)
      PROVE  first + k <= Len(new) /\ data[k] = new[first + k]
  <2>1. first + k <= Len(old) /\ data[k] = old[first + k] /\ first + k \in 1 .. Len(old)
    BY <1>1 DEF IsPart
  <2>2. new[first + k] = old[first + k]
    BY <2>1 DEF Grows
  <2> QED BY <1>1, <2>1, <2>2
<1>3. ASSUME PageSize <= NodeMax, NEW p \in first + 1 .. first + most,
             p <= Len(new), new[p] < short
      PROVE  p <= first + Len(data)
  <2>1. p \in 1 .. Len(old)
    <3>1. ~(n < short)
      OBVIOUS
    <3> QED BY <1>1, <1>3, <3>1 DEF Grows
  <2>2. new[p] = old[p]
    BY <2>1 DEF Grows
  <2> QED BY <1>3, <2>1, <2>2 DEF IsPart
<1> QED BY <1>2, <1>3 DEF IsPart

\* So do data in any order.
LEMMA ExactStays ==
  ASSUME NEW n \in Nat, NEW short \in 0 .. n, NEW old \in Seq(Nat), NEW new \in Seq(Nat),
         Grows(old, new, n), NEW first \in Nat, NEW most \in Nat, NEW data,
         IsExact(old, short, data, first, most)
  PROVE  IsExact(new, short, data, first, most)
<1>1. Len(old) \in Nat /\ Len(new) \in Nat /\ Len(old) <= Len(new)
  BY DEF Grows
<1>2. ASSUME NEW k \in 1 .. Len(data)
      PROVE  \E p \in first + 1 .. first + most : p <= Len(new) /\ data[k] = new[p]
  <2>1. PICK p \in first + 1 .. first + most : p <= Len(old) /\ data[k] = old[p]
    BY DEF IsExact
  <2>2. p \in 1 .. Len(old) /\ p <= Len(new)
    BY <1>1, <2>1
  <2>3. new[p] = old[p]
    BY <2>2 DEF Grows
  <2> QED BY <2>1, <2>2, <2>3
<1>3. ASSUME PageSize <= NodeMax, NEW p \in first + 1 .. first + most,
             p <= Len(new), new[p] < short
      PROVE  \E k \in 1 .. Len(data) : data[k] = new[p]
  <2>1. p \in 1 .. Len(old)
    <3>1. ~(n < short)
      OBVIOUS
    <3> QED BY <1>1, <1>3, <3>1 DEF Grows
  <2>2. new[p] = old[p]
    BY <2>1 DEF Grows
  <2> QED BY <1>3, <2>1, <2>2 DEF IsExact
<1> QED BY <1>2, <1>3 DEF IsExact

\* Nothing is exactly no places.
LEMMA ExactNothing ==
  ASSUME NEW list, NEW short, NEW first \in Nat
  PROVE  IsExact(list, short, <<>>, first, 0)
BY DEF IsExact

\* The places collected, and the next of them.
LEMMA ExactExtends ==
  ASSUME NEW n \in Nat, NEW list \in Seq(0 .. n - 1), Ascends(list), NEW short,
         NEW first \in Nat, NEW most \in Nat, NEW more \in Nat,
         NEW data \in Seq(Nat), NEW part \in Seq(Nat),
         IsExact(list, short, data, first, most),
         IsPart(list, short, part, first + most, more)
  PROVE  IsExact(list, short, data \o part, first, most + more)
<1> DEFINE both == data \o part
           d == Len(data)
           e == Len(part)
           mid == first + most
<1>1. d \in Nat /\ e \in Nat /\ mid \in Nat /\ Len(list) \in Nat /\ e <= more
  BY DEF IsPart
<1>2. /\ Len(both) = d + e
      /\ \A k \in 1 .. d : both[k] = data[k]
      /\ \A k \in 1 .. e : both[d + k] = part[k]
  OBVIOUS
<1>3. \A k \in 1 .. d : \E p \in first + 1 .. mid : p <= Len(list) /\ both[k] = list[p]
  BY <1>2 DEF IsExact
<1>4. \A k \in 1 .. e : /\ mid + k <= Len(list) /\ both[d + k] = list[mid + k]
                        /\ mid + k \in mid + 1 .. mid + more /\ mid + k \in 1 .. Len(list)
  BY <1>1, <1>2 DEF IsPart
<1> HIDE DEF both, d, e, mid
<1>5. \A k \in 1 .. d + e : k \in 1 .. d \/ \E i \in 1 .. e : k = d + i
  <2>1. ASSUME NEW k \in 1 .. d + e, k \notin 1 .. d
        PROVE  k - d \in 1 .. e /\ k = d + (k - d)
    BY <1>1, <2>1
  <2> QED BY <2>1
<1>6. first + (most + more) = mid + more /\ first <= mid
  BY DEF mid
<1>7. \A j, k \in 1 .. Len(list) : list[j] = list[k] => j = k
  <2>1. \A k \in 1 .. Len(list) : list[k] \in Nat
    BY <1>1
  <2>2. \A j, k \in 1 .. Len(list) : j < k \/ k < j \/ j = k
    OBVIOUS
  <2>3. \A j, k \in 1 .. Len(list) : j < k => list[j] # list[k]
    BY <2>1 DEF Ascends
  <2> QED BY <2>2, <2>3
<1>8. ASSUME NEW j \in 1 .. d, NEW k \in 1 .. e
      PROVE  both[j] # both[d + k]
  <2>1. PICK p \in first + 1 .. mid : p <= Len(list) /\ both[j] = list[p]
    BY <1>3
  <2>2. p \in 1 .. Len(list) /\ mid + k \in 1 .. Len(list) /\ p # mid + k
    <3>1. mid + k \in 1 .. Len(list)
      BY <1>4
    <3> QED BY <1>1, <2>1, <3>1
  <2> QED BY <1>4, <1>7, <2>1, <2>2
<1>9. ASSUME NEW j \in 1 .. e, NEW k \in 1 .. e, both[d + j] = both[d + k]
      PROVE  j = k
  <2>1. mid + j \in 1 .. Len(list) /\ mid + k \in 1 .. Len(list)
    BY <1>4
  <2>2. mid + j = mid + k
    BY <1>4, <1>7, <1>9, <2>1
  <2> QED BY <1>1, <2>2
<1>10. \A j, k \in 1 .. d : both[j] = both[k] => j = k
  BY <1>2 DEF IsExact, d
<1>11. ASSUME NEW j \in 1 .. Len(both), NEW k \in 1 .. Len(both), both[j] = both[k]
       PROVE  j = k
  <2>1. /\ j \in 1 .. d \/ \E i \in 1 .. e : j = d + i
        /\ k \in 1 .. d \/ \E i \in 1 .. e : k = d + i
    BY <1>2, <1>5
  <2> QED BY <1>8, <1>9, <1>10, <1>11, <2>1
<1>12. ASSUME NEW k \in 1 .. Len(both)
       PROVE  \E p \in first + 1 .. first + (most + more) : p <= Len(list) /\ both[k] = list[p]
  <2>1. CASE k \in 1 .. d
    <3>1. \A p \in first + 1 .. mid : p \in first + 1 .. mid + more
      BY <1>1
    <3> QED BY <1>3, <1>6, <2>1, <3>1
  <2>2. CASE \E i \in 1 .. e : k = d + i
    <3>1. \A p \in mid + 1 .. mid + more : p \in first + 1 .. mid + more
      BY <1>1, <1>6
    <3> QED BY <1>4, <1>6, <2>2, <3>1
  <2> QED BY <1>2, <1>5, <2>1, <2>2
<1>13. ASSUME PageSize <= NodeMax, NEW p \in first + 1 .. first + (most + more),
              p <= Len(list), list[p] < short
       PROVE  \E k \in 1 .. Len(both) : both[k] = list[p]
  <2>1. CASE p \in first + 1 .. mid
    <3>1. PICK k \in 1 .. d : data[k] = list[p]
      BY <1>13, <2>1 DEF IsExact, d, mid
    <3>2. k \in 1 .. Len(both)
      BY <1>1, <1>2
    <3>3. both[k] = list[p]
      BY <1>2, <3>1
    <3> QED BY <3>2, <3>3
  <2>2. CASE p \notin first + 1 .. mid
    <3>1. p \in mid + 1 .. mid + more /\ p \in Nat
      BY <1>1, <1>6, <2>2
    <3>2. p <= mid + e
      BY <1>13, <3>1 DEF IsPart, e, mid
    <3>3. p - mid \in 1 .. e /\ mid + (p - mid) = p
      BY <1>1, <3>1, <3>2
    <3>4. both[d + (p - mid)] = list[p]
      BY <1>4, <3>3
    <3>5. d + (p - mid) \in 1 .. Len(both)
      BY <1>1, <1>2, <3>3
    <3> QED BY <3>4, <3>5
  <2> QED BY <2>1, <2>2
<1> QED BY <1>11, <1>12, <1>13 DEF IsExact, both

\* A part is exact, and in order.
LEMMA PartIsExact ==
  ASSUME NEW n \in Nat, NEW list \in Seq(0 .. n - 1), Ascends(list), NEW short,
         NEW first \in Nat, NEW most \in Nat, NEW data \in Seq(Nat),
         IsPart(list, short, data, first, most)
  PROVE  IsExact(list, short, data, first, most) /\ Ascends(data)
<1>1. /\ Len(list) \in Nat /\ Len(data) \in Nat /\ Len(data) <= most
      /\ \A k \in 1 .. Len(list) : list[k] \in Nat
      /\ \A k \in 1 .. Len(data) :
           first + k \in 1 .. Len(list) /\ first + k \in first + 1 .. first + most
           /\ data[k] = list[first + k]
  BY DEF IsPart
<1>2. \A j, k \in 1 .. Len(data) : j < k => data[j] < data[k]
  <2>1. \A j, k \in 1 .. Len(data) : j < k => first + j < first + k
    BY <1>1
  <2> QED BY <1>1, <2>1 DEF Ascends
<1>3. \A j, k \in 1 .. Len(data) : data[j] = data[k] => j = k
  <2>1. ASSUME NEW j \in 1 .. Len(data), NEW k \in 1 .. Len(data), j < k
        PROVE  data[j] # data[k]
    <3>1. data[j] \in Nat /\ data[k] \in Nat
      OBVIOUS
    <3>2. data[j] < data[k]
      BY <2>1, <1>2
    <3> QED BY <3>1, <3>2
  <2>2. \A j, k \in 1 .. Len(data) : j < k \/ k < j \/ j = k
    BY <1>1
  <2> QED BY <2>1, <2>2
<1>4. ASSUME PageSize <= NodeMax, NEW p \in first + 1 .. first + most,
             p <= Len(list), list[p] < short
      PROVE  \E k \in 1 .. Len(data) : data[k] = list[p]
  <2>1. p <= first + Len(data)
    BY <1>4 DEF IsPart
  <2>2. p - first \in 1 .. Len(data) /\ first + (p - first) = p
    BY <1>1, <2>1
  <2> QED BY <1>1, <2>2
<1> QED BY <1>1, <1>2, <1>3, <1>4 DEF IsExact, Ascends

\* What a list is sorted to has the same elements, as often, and no element
\* before a smaller one.
LEMMA SortingProperties ==
  ASSUME NEW S, NEW list \in Seq(S), NEW data \in Sortings(list)
  PROVE  /\ data \in Seq(S) /\ Len(data) = Len(list) /\ Len(list) \in Nat
         /\ \A j, k \in 1 .. Len(list) : j < k => data[j] <= data[k]
         /\ \E p \in [1 .. Len(list) -> 1 .. Len(list)] :
              /\ \A j, k \in 1 .. Len(list) : p[j] = p[k] => j = k
              /\ \A i \in 1 .. Len(list) : \E k \in 1 .. Len(list) : p[k] = i
              /\ \A k \in 1 .. Len(list) : data[k] = list[p[k]]
<1> DEFINE P == 1 .. Len(list)
<1>1. DOMAIN list = P /\ Len(list) \in Nat /\ \A i \in P : list[i] \in S
  OBVIOUS
<1>2. PICK p \in Bijection(P, P) : data = [i \in P |-> list[p[i]]]
  BY <1>1 DEF Sortings
<1>3. \A j, k \in P : j < k => data[j] <= data[k]
  BY <1>1 DEF Sortings
<1>4. /\ p \in [P -> P]
      /\ \A j, k \in P : p[j] = p[k] => j = k
      /\ \A i \in P : \E k \in P : p[k] = i
  BY DEF Bijection, Injection, Surjection, IsInjective
<1>5. \A k \in P : data[k] = list[p[k]]
  BY <1>2
<1>6. data \in Seq(S) /\ Len(data) = Len(list)
  <2>1. \A i \in P : list[p[i]] \in S
    BY <1>1, <1>4
  <2> QED BY <1>1, <1>2, <2>1
<1> QED BY <1>1, <1>3, <1>4, <1>5, <1>6

\* Sorting what has every place once puts the places in order.
LEMMA SortedIsExact ==
  ASSUME NEW list, NEW short, NEW first \in Nat, NEW most \in Nat,
         NEW data \in Seq(Nat), IsExact(list, short, data, first, most),
         NEW sorted \in Sortings(data)
  PROVE  IsExact(list, short, sorted, first, most) /\ Ascends(sorted)
<1> DEFINE P == 1 .. Len(data)
<1>1. /\ sorted \in Seq(Nat) /\ Len(sorted) = Len(data)
      /\ \A j, k \in P : j < k => sorted[j] <= sorted[k]
  BY SortingProperties
<1>2. PICK p \in [P -> P] : /\ \A j, k \in P : p[j] = p[k] => j = k
                            /\ \A i \in P : \E k \in P : p[k] = i
                            /\ \A k \in P : sorted[k] = data[p[k]]
  BY SortingProperties
<1>3. ASSUME NEW j \in P, NEW k \in P, sorted[j] = sorted[k]
      PROVE  j = k
  <2>1. p[j] \in P /\ p[k] \in P /\ data[p[j]] = data[p[k]]
    BY <1>2, <1>3
  <2>2. p[j] = p[k]
    BY <2>1 DEF IsExact
  <2> QED BY <1>2, <2>2
<1>4. \A j, k \in P : j < k => sorted[j] < sorted[k]
  <2>1. \A j, k \in P : j < k => j # k
    OBVIOUS
  <2>2. \A k \in P : sorted[k] \in Nat
    BY <1>1
  <2> QED BY <1>1, <1>3, <2>1, <2>2
<1>5. ASSUME NEW k \in P
      PROVE  \E q \in first + 1 .. first + most : q <= Len(list) /\ sorted[k] = list[q]
  <2>1. p[k] \in P /\ sorted[k] = data[p[k]]
    BY <1>2
  <2> QED BY <2>1 DEF IsExact
<1>6. ASSUME PageSize <= NodeMax, NEW q \in first + 1 .. first + most,
             q <= Len(list), list[q] < short
      PROVE  \E k \in P : sorted[k] = list[q]
  <2>1. PICK i \in P : data[i] = list[q]
    BY <1>6 DEF IsExact
  <2>2. PICK k \in P : p[k] = i
    BY <1>2
  <2>3. sorted[k] = list[q]
    BY <1>2, <2>1, <2>2
  <2> QED BY <2>3
<1> QED BY <1>1, <1>3, <1>4, <1>5, <1>6 DEF IsExact, Ascends

-----------------------------------------------------------------------------
(* The invariant.                                                           *)

List == ListOf(Account, ledger)
Stored == 0 .. Len(ledger) - 1
Messages == [err : BOOLEAN, data : Seq(Stored)]

\* What the variables hold.
Types ==
  /\ ledger \in Seq(BOOLEAN) /\ Len(ledger) <= MaxLength /\ seenLength \in 0 .. Len(ledger)
  /\ routine \in {"Transactions", "AccountTransactions", "Block"}
  /\ {start, limit} \subseteq (0 .. Modulus - 1) \union {None}
  /\ block.first \in Nat /\ block.last \in Nat /\ block.first <= block.last
  /\ block.last < Len(ledger) \/ routine # "Block"
  /\ pc \in {"call", "first", "concurrent", "single", "collect", "fill", "returned"}
  /\ held \in Seq(Stored) /\ heldLength \in Nat
  /\ from \in 0 .. Modulus - 1 /\ count \in Nat
  /\ collected \in Nat /\ responses \in Seq(Stored)
  /\ IsFiniteSet(DOMAIN channels) /\ collected <= Cardinality(DOMAIN channels)
  /\ result.kind \in {"none", "ok", "error", "panic"} /\ result.data \in Seq(Stored)
  /\ result.kind = "none" <=> pc # "returned"

\* A goroutine that still runs has a channel nobody has used; one that ended
\* has left its message there until the caller collects it, page by page.
PageInv(i) ==
  /\ worker[i] = "running" => channels[i] = NewChannel
  /\ pc = "collect" /\ i < collected => worker[i] # "running"
  /\ pc = "collect" /\ i >= collected /\ worker[i] # "running" =>
       /\ channels[i] = [buf |-> <<NextMessage(channels[i])>>, closed |-> FALSE]
       /\ NextMessage(channels[i]) \in Messages

HandOverInv ==
  /\ DOMAIN channels = DOMAIN worker
  /\ pc = "collect" => DOMAIN worker = 0 .. NumPages - 1 /\ collected <= NumPages
  /\ \A i \in DOMAIN worker : PageInv(i)

\* How far the pages collected reach.
Offset == Least(collected * PageSize, count)

\* A page that waits to be collected has failed or is the part it asks for.
PageRead(i) ==
  LET message == NextMessage(channels[i])
  IN  IF message.err THEN failed # {}
      ELSE /\ IsPart(List, seenLength, message.data, PageStart(i), PageLimit(i))
           /\ ~Account => Len(message.data) > 0 /\ message.data[1] = PageStart(i)

\* The pages collected are exactly what they reach over, unless the numbers
\* wrap around; they begin with the version asked for.
PagesInv == pc = "collect" =>
  /\ count > PageSize
  /\ \A i \in DOMAIN worker : i >= collected /\ worker[i] # "running" => PageRead(i)
  /\ Len(responses) <= Offset
  /\ ~Account /\ collected > 0 => \E k \in 1 .. Len(responses) : responses[k] = from
  /\ from + count <= Modulus => IsExact(List, seenLength, responses, from, Offset)

Fetching == pc \in {"concurrent", "single", "collect"}
Known == routine # "Block" /\ start # None /\ limit # None

\* What is held of a block are its first versions, as long as nothing was added
\* to the first answer; after that some version is held twice.
HeldOfBlock ==
  /\ Len(held) > 0 /\ Len(held) <= NumTransactions /\ heldLength <= Len(held)
  /\ heldLength = Len(held) => \A k \in 1 .. Len(held) : held[k] = block.first + k - 1
  /\ heldLength < Len(held) =>
       \E j, k \in 1 .. Len(held) : j # k /\ held[j] = held[k]

\* What is held of an account follows the number its pages are asked for from.
HeldOfAccount ==
  LET before == SequenceNumber(ledger, held[1])
  IN  /\ from = (before + Modulus - 1) % Modulus
      /\ \A k \in 1 .. Len(held) : before + k <= Len(List) /\ held[k] = List[before + k]

\* What the caller asks for, and what it holds while it does.
CallerInv ==
  /\ routine = "Block" => start = None /\ limit = None
  /\ pc = "call" => held = <<>>
  /\ pc = "first" => routine # "Block" /\ ~Known
  /\ pc = "single" => count <= PageSize
  /\ pc = "fill" => routine = "Block" /\ HeldOfBlock
  /\ Fetching /\ Known => from = start /\ count = limit /\ held = <<>>
  /\ Fetching /\ ~Known =>
       /\ Len(held) > 0 /\ count > 0
       /\ routine = "Block" => HeldOfBlock /\ count = NumTransactions - Len(held)
       /\ routine # "Block" => /\ start = None /\ limit # None
                               /\ heldLength = Len(held) /\ count = limit - Len(held)
       /\ Account => HeldOfAccount
       /\ ~Account => from = held[Len(held)]

PagingInv == Types /\ HandOverInv /\ PagesInv /\ CallerInv

-----------------------------------------------------------------------------
(* Facts about it.                                                          *)

\* The list asked for.
LEMMA ListFacts ==
  ASSUME Types
  PROVE  /\ Len(ledger) \in Nat /\ Stored \subseteq Nat /\ Account \in BOOLEAN
         /\ List \in Seq(Stored) /\ List \in Seq(Nat) /\ Len(List) \in Nat /\ Ascends(List)
         /\ ~Account => /\ Len(List) = Len(ledger)
                        /\ \A p \in 1 .. Len(List) : List[p] = p - 1
         /\ \A s, l : PageOf(ledger, Account, s, l) = Page(List, s, l)
<1>1. ledger \in Seq(BOOLEAN) /\ Len(ledger) \in Nat /\ Account \in BOOLEAN
  BY DEF Types, Account
<1>2. Stored \subseteq Nat
  BY <1>1 DEF Stored
<1>3. List \in Seq(Stored) /\ Len(List) \in Nat /\ Ascends(List)
  BY <1>1, ListProperties DEF List, Stored, Ascends
<1>4. List \in Seq(Nat)
  <2>1. \A S, T, s : S \subseteq T /\ s \in Seq(S) => s \in Seq(T)
    OBVIOUS
  <2> QED BY <1>2, <1>3, <2>1
<1>5. ~Account => /\ Len(List) = Len(ledger)
                  /\ \A p \in 1 .. Len(List) : List[p] = p - 1
  BY <1>1, VersionsProperties DEF List, ListOf
<1>6. \A s, l : PageOf(ledger, Account, s, l) = Page(List, s, l)
  BY DEF PageOf, List, ListOf
<1> QED BY <1>1, <1>2, <1>3, <1>4, <1>5, <1>6

\* The page of a caller that does not know both of its arguments.
LEMMA FirstPage ==
  ASSUME Types, pc = "first", start = None \/ limit = None
  PROVE  LET txns == PageOf(ledger, Account, start, limit)
         IN  /\ txns \in Seq(Stored) /\ Len(txns) \in Nat
             /\ start = None =>
                  /\ limit # None => Len(txns) <= limit
                  /\ \E before \in Nat :
                       /\ before + Len(txns) = Len(List)
                       /\ \A k \in 1 .. Len(txns) : txns[k] = List[before + k]
<1>1. /\ Len(ledger) \in Nat /\ List \in Seq(0 .. Len(ledger) - 1)
      /\ PageOf(ledger, Account, start, limit) = Page(List, start, limit)
  BY ListFacts DEF Stored
<1>2. {start, limit} \subseteq Nat \union {None}
  BY DEF Types
<1>3. CASE start = None
  <2> DEFINE page == Page(List, None, limit)
  <2>1. /\ page \in Seq(0 .. Len(ledger) - 1) /\ Len(page) \in Nat
        /\ limit # None => Len(page) <= limit
        /\ \E before \in Nat :
             /\ before + Len(page) = Len(List)
             /\ \A k \in 1 .. Len(page) : page[k] = List[before + k]
    BY <1>1, <1>2, PageOfNewest
  <2> HIDE DEF page
  <2>2. PageOf(ledger, Account, start, limit) = page
    BY <1>1, <1>3 DEF page
  <2> QED BY <2>1, <2>2 DEF Stored
<1>4. CASE start # None
  <2>1. start \in Nat /\ limit = None
    BY <1>2, <1>4
  <2>2. Page(List, start, limit) \in Seq(0 .. Len(ledger) - 1)
    BY <1>1, <2>1, PageUnlimited
  <2>3. \A S, s : s \in Seq(S) => Len(s) \in Nat
    OBVIOUS
  <2> QED BY <1>1, <1>4, <2>2, <2>3 DEF Stored
<1> QED BY <1>3, <1>4

\* The page a request for at most a page of transactions gives.
LEMMA PartAsked ==
  ASSUME Types, NEW first \in Nat, NEW most \in 0 .. PageSize, Found(ledger, Account, first)
  PROVE  LET page == PageOf(ledger, Account, first, most)
         IN  /\ page \in Seq(Stored) /\ Len(page) \in Nat
             /\ IsPart(List, seenLength, page, first, most)
             /\ most > 0 /\ first < Len(List) => Len(page) > 0
             /\ ~Account /\ most > 0 => Len(page) > 0 /\ page[1] = first
<1> DEFINE page == Page(List, first, most)
<1>1. /\ Len(ledger) \in Nat /\ List \in Seq(0 .. Len(ledger) - 1)
      /\ PageOf(ledger, Account, first, most) = page
      /\ ~Account => /\ Len(List) = Len(ledger)
                     /\ \A p \in 1 .. Len(List) : List[p] = p - 1
  BY ListFacts DEF Stored
<1>2. /\ page \in Seq(0 .. Len(ledger) - 1) /\ Len(page) \in Nat
      /\ IsPart(List, seenLength, page, first, most)
      /\ most > 0 /\ first < Len(List) => Len(page) > 0
  BY <1>1, PageFromPosition
<1> HIDE DEF page
<1>3. ASSUME ~Account, most > 0
      PROVE  Len(page) > 0 /\ page[1] = first
  <2>1. first < Len(ledger)
    BY <1>3, LedgerAssumption DEF Found
  <2>2. Len(page) > 0 /\ Len(List) = Len(ledger)
    BY <1>1, <1>2, <1>3, <2>1
  <2>3. 1 \in 1 .. Len(page) /\ first + 1 \in 1 .. Len(List)
    BY <1>1, <1>2, <2>1, <2>2
  <2>4. page[1] = List[first + 1] /\ List[first + 1] = first + 1 - 1
    BY <1>1, <1>2, <1>3, <2>3 DEF IsPart
  <2> QED BY <2>2, <2>4
<1> QED BY <1>1, <1>2, <1>3 DEF Stored

\* Nothing is an answer that any variable may hold.
LEMMA NothingTyped == <<>> \in Seq(Stored) /\ Len(<<>>) = 0
OBVIOUS

\* An answer before what is held, or after it.
LEMMA HeldTyped ==
  ASSUME Types, NEW data \in Seq(Stored)
  PROVE  /\ data \o held \in Seq(Stored) /\ held \o data \in Seq(Stored)
         /\ Len(data) \in Nat /\ Len(held) \in Nat
         /\ <<>> \o held = held /\ held \o <<>> = held
         /\ Len(data \o held) = Len(data) + Len(held)
         /\ Len(held \o data) = Len(held) + Len(data)
         /\ \A k \in 1 .. Len(held) :
              (held \o data)[k] = held[k] /\ (data \o held)[Len(data) + k] = held[k]
         /\ \A k \in 1 .. Len(data) :
              (held \o data)[Len(held) + k] = data[k] /\ (data \o held)[k] = data[k]
<1>1. held \in Seq(Stored)
  BY DEF Types
<1> HIDE DEF Stored
<1> QED BY <1>1

-----------------------------------------------------------------------------
(* What the pages ask for.                                                  *)

\* How many pages a request is split into.
LEMMA PagesNumber ==
  ASSUME count \in Nat
  PROVE  NumPages \in Nat
<1>1. PageSize \in Nat \ {0}
  BY PagingAssumption
<1>2. \A c \in Nat, p \in Nat \ {0} : c \div p \in Nat
  OBVIOUS
<1> QED BY <1>1, <1>2 DEF NumPages

\* Page i asks for the k-th of the transactions asked for.
Covers(i, k) == i * PageSize <= k /\ k < i * PageSize + PageLimit(i)

\* Each of the transactions asked for is asked for by one page, and no other.
PagesTile ==
  /\ \A i \in 0 .. NumPages - 1 :
       /\ PageLimit(i) \in 1 .. PageSize
       /\ \A k \in Nat : Covers(i, k) => k < count
  /\ \A k \in 0 .. count - 1 :
       \E i \in 0 .. NumPages - 1 :
         Covers(i, k) /\ \A j \in 0 .. NumPages - 1 : Covers(j, k) => j = i

\* Quotient and remainder.
LEMMA DivisionProperties ==
  ASSUME NEW c \in Nat, NEW p \in Nat \ {0}
  PROVE  /\ c \div p \in Nat
         /\ c % p \in 0 .. p - 1
         /\ c = (c \div p) * p + (c % p)
OBVIOUS

\* Multiples are ordered, and one step of the factor is one page.
LEMMA MultipleProperties ==
  ASSUME NEW i \in Nat, NEW j \in Nat, NEW p \in Nat
  PROVE  /\ i * p \in Nat
         /\ (i + 1) * p = i * p + p
         /\ i < j => (i + 1) * p <= j * p
         /\ i <= j => i * p <= j * p
OBVIOUS

\* The number of pages is the quotient rounded up.
LEMMA PagesEnough ==
  ASSUME count \in Nat
  PROVE  /\ count <= NumPages * PageSize
         /\ \A i \in 0 .. NumPages - 1 : i * PageSize < count
<1> DEFINE q == count \div PageSize
           r == count % PageSize
<1>1. PageSize \in Nat \ {0}
  BY PagingAssumption
<1>2. q \in Nat /\ r \in 0 .. PageSize - 1 /\ count = q * PageSize + r
  BY <1>1, DivisionProperties
<1>3. NumPages = q + (IF r > 0 THEN 1 ELSE 0)
  BY DEF NumPages
<1> HIDE DEF q, r
<1>4. CASE r > 0
  <2>1. NumPages = q + 1 /\ (q + 1) * PageSize = q * PageSize + PageSize
    BY <1>1, <1>2, <1>3, <1>4, MultipleProperties
  <2>2. q * PageSize \in Nat
    BY <1>1, <1>2, MultipleProperties
  <2>3. ASSUME NEW i \in 0 .. NumPages - 1
        PROVE  i * PageSize < count
    <3>1. i \in Nat /\ i <= q
      BY <1>2, <2>1
    <3>2. i * PageSize \in Nat /\ i * PageSize <= q * PageSize
      BY <1>1, <1>2, <3>1, MultipleProperties
    <3> QED BY <1>2, <1>4, <2>2, <3>2
  <2>4. count <= (q + 1) * PageSize
    BY <1>1, <1>2, <2>1, <2>2
  <2> QED BY <2>1, <2>3, <2>4
<1>5. CASE ~(r > 0)
  <2>1. NumPages = q /\ count = q * PageSize /\ q * PageSize \in Nat
    BY <1>1, <1>2, <1>3, <1>5, MultipleProperties
  <2>2. ASSUME NEW i \in 0 .. NumPages - 1
        PROVE  i * PageSize < count
    <3>1. i \in Nat /\ i < q
      BY <1>2, <2>1
    <3>2. /\ i * PageSize \in Nat
          /\ (i + 1) * PageSize = i * PageSize + PageSize
          /\ (i + 1) * PageSize <= q * PageSize
      BY <1>1, <1>2, <3>1, MultipleProperties
    <3> QED BY <1>1, <2>1, <3>2
  <2> QED BY <2>1, <2>2
<1> QED BY <1>4, <1>5

\* A page has something to ask for, and stays within what was asked for.
LEMMA PageBounds ==
  ASSUME count \in Nat, NEW i \in 0 .. NumPages - 1
  PROVE  /\ i \in Nat /\ i * PageSize \in Nat
         /\ PageLimit(i) \in 1 .. PageSize
         /\ i * PageSize + PageLimit(i) <= count
         /\ PageLimit(i) = PageSize \/ i * PageSize + PageLimit(i) = count
<1>1. PageSize \in Nat \ {0} /\ i \in Nat
  BY PagingAssumption, PagesNumber
<1>2. i * PageSize \in Nat
  BY <1>1, MultipleProperties
<1>3. i * PageSize < count
  BY PagesEnough
<1> QED BY <1>1, <1>2, <1>3 DEF PageLimit, Least

\* The page of the k-th is its quotient by the size of a page.
LEMMA PagesCover ==
  ASSUME count \in Nat, NEW k \in 0 .. count - 1
  PROVE  k \div PageSize \in 0 .. NumPages - 1 /\ Covers(k \div PageSize, k)
<1> DEFINE i == k \div PageSize
<1>1. PageSize \in Nat \ {0} /\ k \in Nat /\ k < count
  BY PagingAssumption
<1>2. i \in Nat /\ k % PageSize \in 0 .. PageSize - 1 /\ k = i * PageSize + (k % PageSize)
  BY <1>1, DivisionProperties
<1> HIDE DEF i
<1>3. i * PageSize \in Nat /\ i * PageSize <= k /\ k < i * PageSize + PageSize
  BY <1>1, <1>2, MultipleProperties
<1>4. i < NumPages
  <2>1. NumPages \in Nat
    BY PagesNumber
  <2>2. NumPages <= i => NumPages * PageSize <= i * PageSize
    BY <1>1, <1>2, <2>1, MultipleProperties
  <2>3. count <= NumPages * PageSize /\ NumPages * PageSize \in Nat
    BY <1>1, <2>1, PagesEnough, MultipleProperties
  <2> QED BY <1>1, <1>2, <1>3, <2>1, <2>2, <2>3
<1>5. i \in 0 .. NumPages - 1
  BY <1>2, <1>4, PagesNumber
<1>6. /\ PageLimit(i) \in 1 .. PageSize
      /\ PageLimit(i) = PageSize \/ i * PageSize + PageLimit(i) = count
  BY <1>5, PageBounds
<1>7. Covers(i, k)
  BY <1>1, <1>3, <1>6 DEF Covers
<1> QED BY <1>5, <1>7 DEF i

\* Two pages do not overlap.
LEMMA PagesApart ==
  ASSUME count \in Nat, NEW i \in 0 .. NumPages - 1, NEW j \in 0 .. NumPages - 1, NEW k \in Nat,
         Covers(i, k), Covers(j, k)
  PROVE  i = j
<1>1. \A a, b \in 0 .. NumPages - 1 : Covers(a, k) /\ Covers(b, k) => ~(a < b)
  <2> SUFFICES ASSUME NEW a \in 0 .. NumPages - 1, NEW b \in 0 .. NumPages - 1,
                      Covers(a, k), Covers(b, k), a < b
               PROVE  FALSE
    OBVIOUS
  <2>1. /\ a \in Nat /\ a * PageSize \in Nat /\ PageLimit(a) \in 1 .. PageSize
        /\ b \in Nat /\ b * PageSize \in Nat
    BY PageBounds
  <2>2. (a + 1) * PageSize = a * PageSize + PageSize /\ (a + 1) * PageSize <= b * PageSize
    BY <2>1, MultipleProperties, PagingAssumption
  <2>3. k < a * PageSize + PageLimit(a) /\ b * PageSize <= k
    BY DEF Covers
  <2> QED BY <2>1, <2>2, <2>3, PagingAssumption
<1>2. i \in Nat /\ j \in Nat
  BY PageBounds
<1> QED BY <1>1, <1>2

\* The places collected when the pages before i are.
LEMMA Offsets ==
  ASSUME count \in Nat
  PROVE  /\ \A i \in 0 .. NumPages - 1 : Least(i * PageSize, count) = i * PageSize
         /\ \A i \in 0 .. NumPages - 1 :
              Least((i + 1) * PageSize, count) = i * PageSize + PageLimit(i)
         /\ Least(NumPages * PageSize, count) = count
<1>1. PageSize \in Nat \ {0}
  BY PagingAssumption
<1>2. ASSUME NEW i \in 0 .. NumPages - 1
      PROVE  /\ Least(i * PageSize, count) = i * PageSize
             /\ Least((i + 1) * PageSize, count) = i * PageSize + PageLimit(i)
  <2>1. i \in Nat /\ i * PageSize \in Nat /\ i * PageSize < count
    BY PageBounds, PagesEnough
  <2>2. (i + 1) * PageSize = i * PageSize + PageSize
    BY <1>1, <2>1, MultipleProperties
  <2> QED BY <1>1, <2>1, <2>2 DEF Least, PageLimit
<1>3. Least(NumPages * PageSize, count) = count
  BY <1>1, PagesEnough, PagesNumber, MultipleProperties DEF Least
<1> QED BY <1>2, <1>3

\* Where a page starts, in uint64.
LEMMA PageStarts ==
  ASSUME count \in Nat, from \in 0 .. Modulus - 1, NEW i \in 0 .. NumPages - 1
  PROVE  /\ PageStart(i) \in 0 .. Modulus - 1
         /\ i = 0 => PageStart(i) = from
         /\ from + count <= Modulus => PageStart(i) = from + i * PageSize
<1>1. Modulus \in Nat \ {0} /\ from \in Nat /\ from < Modulus
  BY PagingAssumption
<1>2. /\ i * PageSize \in Nat /\ i * PageSize < count
      /\ i = 0 => i * PageSize = 0
  <2>1. \A p \in Nat : 0 * p = 0
    OBVIOUS
  <2>2. PageSize \in Nat
    BY PagingAssumption
  <2> QED BY <2>1, <2>2, PageBounds, PagesEnough
<1> DEFINE x == from + i * PageSize
<1>3. x \in Nat /\ (i = 0 => x = from) /\ (from + count <= Modulus => x < Modulus)
  BY <1>1, <1>2
<1>4. PageStart(i) = x % Modulus
  BY DEF PageStart
<1> HIDE DEF x
<1>5. \A y \in Nat, m \in Nat \ {0} : y % m \in 0 .. m - 1 /\ (y < m => y % m = y)
  OBVIOUS
<1> QED BY <1>1, <1>3, <1>4, <1>5 DEF x

-----------------------------------------------------------------------------
(* Every step keeps the invariant.                                          *)

\* What a step that is not of the pages has to see to.
LEMMA CallerTypes ==
  ASSUME Types, UNCHANGED <<ledger, inputs, collected, responses, seenLength>>,
         DOMAIN channels' = DOMAIN channels,
         pc' \in {"call", "first", "concurrent", "single", "collect", "fill", "returned"},
         held' \in Seq(Stored), heldLength' \in Nat,
         from' \in 0 .. Modulus - 1, count' \in Nat,
         \/ result' = result /\ pc # "returned" /\ pc' # "returned"
         \/ /\ pc' = "returned" /\ result'.data \in Seq(Stored)
            /\ result'.kind \in {"ok", "error", "panic"}
  PROVE  Types' /\ Stored' = Stored /\ List' = List /\ Account' = Account
<1>1. Stored' = Stored /\ Account' = Account /\ List' = List
  BY DEF Stored, Account, List, inputs
<1>2. /\ result'.kind \in {"none", "ok", "error", "panic"} /\ result'.data \in Seq(Stored)
      /\ result'.kind = "none" <=> pc' # "returned"
  BY DEF Types
<1>3. UNCHANGED <<routine, start, limit, block>>
  BY DEF inputs
<1> HIDE DEF Stored
<1> QED BY <1>1, <1>2, <1>3 DEF Types

\* Steps that neither start nor follow pages.
LEMMA CallerPages ==
  ASSUME HandOverInv, pc' # "collect", UNCHANGED <<worker, channels>>
  PROVE  HandOverInv' /\ PagesInv'
BY DEF HandOverInv, PageInv, PagesInv

\* A call that returned has nothing more to keep.
LEMMA ReturnedCaller ==
  ASSUME CallerInv, pc' = "returned", UNCHANGED inputs
  PROVE  CallerInv'
BY DEF CallerInv, Fetching, inputs

\* Before the call.
LEMMA InitPaging == Init => PagingInv
<1> SUFFICES ASSUME Init
             PROVE  PagingInv
  OBVIOUS
<1>1. /\ pc = "call" /\ held = <<>> /\ heldLength = 0 /\ from = 0 /\ count = 0
      /\ worker = <<>> /\ channels = <<>> /\ collected = 0 /\ responses = <<>>
      /\ result = NoResult /\ ledger \in Ledgers /\ seenLength = Len(ledger)
  BY DEF Init
<1>2. /\ ledger \in Seq(BOOLEAN) /\ Len(ledger) <= MaxLength /\ seenLength \in 0 .. Len(ledger)
  BY <1>1, PagingAssumption
<1>3. /\ routine \in {"Transactions", "AccountTransactions", "Block"}
      /\ {start, limit} \subseteq (0 .. Modulus - 1) \union {None}
      /\ block.first \in Nat /\ block.last \in Nat /\ block.first <= block.last
      /\ block.last < Len(ledger) \/ routine # "Block"
      /\ routine = "Block" => start = None /\ limit = None
  <2>1. CASE /\ routine \in {"Transactions", "AccountTransactions"}
             /\ start \in Starts /\ limit \in Limits
             /\ block = [first |-> 0, last |-> 0]
    BY <2>1, PagingAssumption
  <2>2. CASE /\ routine = "Block" /\ start = None /\ limit = None
             /\ block \in {b \in Blocks : b.last < Len(ledger)}
    BY <2>2, PagingAssumption
  <2> QED BY <2>1, <2>2 DEF Init
<1>4. IsFiniteSet({}) /\ Cardinality({}) = 0 /\ DOMAIN <<>> = {}
  BY FS_EmptySet
<1>5. Modulus \in Nat \ {0}
  BY PagingAssumption
<1>6. Types
  <2>1. held \in Seq(Stored) /\ responses \in Seq(Stored)
        /\ result.data \in Seq(Stored) /\ result.kind = "none"
    BY <1>1, NothingTyped DEF NoResult
  <2>2. from \in 0 .. Modulus - 1 /\ collected <= Cardinality(DOMAIN channels)
        /\ IsFiniteSet(DOMAIN channels)
    BY <1>1, <1>4, <1>5
  <2> HIDE DEF Stored
  <2> QED BY <1>1, <1>2, <1>3, <2>1, <2>2 DEF Types
<1>7. HandOverInv /\ PagesInv
  BY <1>1, <1>4 DEF HandOverInv, PagesInv
<1>8. CallerInv
  BY <1>1, <1>3 DEF CallerInv, Fetching
<1> QED BY <1>6, <1>7, <1>8 DEF PagingInv

\* A call with both arguments asks for all of it at once.
LEMMA HandlePaging ==
  ASSUME PagingInv, HandleTransactions
  PROVE  PagingInv'
<1>1. /\ pc = "call" /\ routine # "Block"
      /\ UNCHANGED <<ledger, inputs, held, worker, channels, collected, responses,
                     result, history>>
  BY DEF HandleTransactions
<1>2. \/ /\ start # None /\ limit # None /\ pc' = "concurrent" /\ from' = start /\ count' = limit
      \/ /\ start = None \/ limit = None
         /\ pc' = "first" /\ UNCHANGED <<from, count>>
  BY DEF HandleTransactions, ConcurrentFrom
<1>3. /\ {start, limit} \subseteq (0 .. Modulus - 1) \union {None}
      /\ from \in 0 .. Modulus - 1 /\ count \in Nat /\ held \in Seq(Stored) /\ heldLength \in Nat
  BY DEF PagingInv, Types
<1>4. from' \in 0 .. Modulus - 1 /\ count' \in Nat
  BY <1>2, <1>3
<1>5. Types'
  BY <1>1, <1>2, <1>3, <1>4, CallerTypes DEF PagingInv, history
<1>6. HandOverInv' /\ PagesInv'
  BY <1>1, <1>2, CallerPages DEF PagingInv
<1>7. held = <<>>
  BY <1>1 DEF PagingInv, CallerInv
<1>8. CallerInv'
  <2>1. CASE pc' = "first"
    BY <1>1, <1>2, <2>1 DEF CallerInv, Fetching, Known, PagingInv, inputs
  <2>2. CASE pc' = "concurrent"
    BY <1>1, <1>2, <1>7, <2>2 DEF CallerInv, Fetching, Known, PagingInv, inputs
  <2> QED BY <1>2, <2>1, <2>2
<1> QED BY <1>5, <1>6, <1>8 DEF PagingInv

\* The numbers of versions and of transactions are of uint64.
LEMMA NumbersFit ==
  ASSUME Types
  PROVE  /\ Stored \subseteq 0 .. Modulus - 1
         /\ \A n \in Nat : (n + Modulus - 1) % Modulus \in 0 .. Modulus - 1
<1>1. Len(ledger) \in Nat /\ Len(ledger) <= MaxLength /\ MaxLength \in Nat
      /\ MaxLength < Modulus /\ Modulus \in Nat \ {0}
  BY PagingAssumption DEF Types
<1>2. ASSUME NEW n \in Nat
      PROVE  (n + Modulus - 1) % Modulus \in 0 .. Modulus - 1
  <2>1. n + Modulus - 1 \in Nat
    BY <1>1
  <2> QED BY <1>1, <2>1, DivisionProperties
<1> QED BY <1>1, <1>2 DEF Stored

\* The sequence number of what is n-th of an account.
LEMMA SequenceNumberOf ==
  ASSUME Types, Account, NEW p \in 1 .. Len(List)
  PROVE  SequenceNumber(ledger, List[p]) = p - 1
<1>1. ledger \in Seq(BOOLEAN) /\ List = Own(ledger)
  BY DEF Types, List, ListOf
<1>2. Len(List) = Cardinality(OwnVersions(ledger))
  BY <1>1, SequenceNumbers DEF Own
<1> QED BY <1>1, <1>2, OwnOf

\* The first page is the answer, or is held while what precedes an account's
\* page, or follows the newest version, is asked for.
LEMMA FirstPaging ==
  ASSUME PagingInv, FirstAnswers
  PROVE  PagingInv'
<1> DEFINE txns == PageOf(ledger, Account, start, limit)
<1>1. /\ pc = "first" /\ held' = txns /\ heldLength' = Len(txns)
      /\ UNCHANGED <<ledger, inputs, worker, channels, collected, responses, seenLength, failed>>
  BY DEF FirstAnswers
<1>2. Types /\ HandOverInv /\ CallerInv /\ routine # "Block" /\ (start = None \/ limit = None)
  BY <1>1 DEF PagingInv, CallerInv, Known
<1>3. /\ txns \in Seq(Stored) /\ Len(txns) \in Nat
      /\ start = None =>
           /\ limit # None => Len(txns) <= limit
           /\ \E before \in Nat :
                /\ before + Len(txns) = Len(List)
                /\ \A k \in 1 .. Len(txns) : txns[k] = List[before + k]
  BY <1>1, <1>2, FirstPage
<1>4. \/ pc' = "returned" /\ result'.kind \in {"ok", "panic"}
         /\ result'.data \in {<<>>, txns} /\ UNCHANGED <<from, count>>
      \/ /\ limit # None /\ ~(Len(txns) >= limit) /\ txns # <<>>
         /\ pc' = "concurrent" /\ from' = GetNext(txns) /\ count' = limit - Len(txns)
         /\ result' = result
  BY DEF FirstAnswers, Return, ConcurrentFrom
<1> HIDE DEF txns
<1>5. /\ from \in 0 .. Modulus - 1 /\ count \in Nat /\ limit \in Nat \union {None}
      /\ Stored \subseteq 0 .. Modulus - 1
  <2>1. from \in 0 .. Modulus - 1 /\ count \in Nat /\ limit \in Nat \union {None}
    BY <1>2 DEF Types
  <2> QED BY <1>2, <2>1, NumbersFit
<1>6. CASE pc' = "returned"
  <2>1. result'.data \in Seq(Stored)
    BY <1>3, <1>4, <1>6, NothingTyped
  <2>2. Types'
    BY <1>1, <1>2, <1>3, <1>4, <1>5, <1>6, <2>1, CallerTypes
  <2> QED BY <1>1, <1>2, <1>6, <2>2, CallerPages, ReturnedCaller DEF PagingInv
<1>7. CASE pc' # "returned"
  <2>1. /\ limit \in Nat /\ Len(txns) < limit /\ pc' = "concurrent" /\ result' = result
        /\ from' = GetNext(txns) /\ count' = limit - Len(txns) /\ start = None
        /\ Len(txns) > 0 /\ count' \in Nat /\ count' > 0
    BY <1>2, <1>3, <1>4, <1>5, <1>7
  <2>2. txns[1] \in Stored /\ txns[Len(txns)] \in Stored
    BY <1>3, <2>1
  <2>3. /\ routine' # "Block" /\ start' = None /\ limit' = limit /\ limit # None /\ ~Known'
        /\ held' = txns /\ heldLength' = Len(txns)
    <3>1. limit # None
      BY <2>1, LedgerAssumption
    <3> QED BY <1>1, <1>2, <2>1, <3>1 DEF Known, inputs
  <2>4. CASE ~Account
    <3>1. from' = txns[Len(txns)]
      BY <2>1, <2>4 DEF GetNext, Last
    <3>2. from' \in 0 .. Modulus - 1
      BY <1>5, <2>2, <3>1
    <3>3. Types' /\ ~Account'
      BY <1>1, <1>2, <1>3, <2>1, <2>4, <3>2, CallerTypes
    <3>4. CallerInv'
      BY <2>1, <2>3, <2>4, <3>1, <3>3 DEF CallerInv
    <3> QED BY <1>1, <1>2, <2>1, <3>3, <3>4, CallerPages DEF PagingInv
  <2>5. CASE Account
    <3> DEFINE number == SequenceNumber(ledger, txns[1])
    <3>1. PICK before \in Nat : /\ before + Len(txns) = Len(List)
                                /\ \A k \in 1 .. Len(txns) : txns[k] = List[before + k]
      BY <1>3, <2>1
    <3>2. Len(List) \in Nat
      BY <1>2, ListFacts
    <3>3. 1 \in 1 .. Len(txns) /\ before + 1 \in 1 .. Len(List)
      BY <1>3, <2>1, <3>1, <3>2
    <3>4. number = before
      <4>1. txns[1] = List[before + 1]
        BY <3>1, <3>3
      <4>2. SequenceNumber(ledger, List[before + 1]) = before + 1 - 1
        BY <1>2, <2>5, <3>3, SequenceNumberOf
      <4> QED BY <4>1, <4>2
    <3>5. from' = (before + Modulus - 1) % Modulus
      BY <2>1, <2>5, <3>4 DEF GetNext
    <3>6. from' \in 0 .. Modulus - 1
      BY <1>2, <3>5, NumbersFit
    <3>7. Types' /\ Account' = Account /\ List' = List
      BY <1>1, <1>2, <1>3, <2>1, <3>6, CallerTypes
    <3>8. HeldOfAccount'
      <4>1. SequenceNumber(ledger', held'[1]) = before
        BY <1>1, <3>4
      <4>2. \A k \in 1 .. Len(txns) : before + k <= Len(List)
        BY <1>3, <3>1, <3>2
      <4> QED BY <1>1, <3>1, <3>5, <3>7, <4>1, <4>2 DEF HeldOfAccount
    <3>9. CallerInv'
      BY <2>1, <2>3, <2>5, <3>7, <3>8 DEF CallerInv
    <3> QED BY <1>1, <1>2, <2>1, <3>7, <3>9, CallerPages DEF PagingInv
  <2> QED BY <2>4, <2>5
<1> QED BY <1>6, <1>7

\* A request of the caller's own that fails ends the call.
LEMMA FailsPaging ==
  ASSUME PagingInv, FirstFails \/ BlockFails \/ SingleFails
  PROVE  PagingInv'
<1>1. /\ pc' = "returned" /\ result'.kind = "error" /\ result'.data \in {<<>>, held}
      /\ UNCHANGED <<ledger, inputs, held, pages, history>>
  BY DEF FirstFails, BlockFails, SingleFails, Return
<1>2. Types /\ HandOverInv /\ CallerInv
  BY DEF PagingInv
<1>3. held \in Seq(Stored) /\ heldLength \in Nat /\ from \in 0 .. Modulus - 1 /\ count \in Nat
  BY <1>2 DEF Types
<1>4. result'.data \in Seq(Stored)
  BY <1>1, <1>3, NothingTyped
<1>5. UNCHANGED <<from, count, worker, channels, collected, responses, seenLength, heldLength>>
  BY <1>1 DEF pages, history
<1>6. Types'
  BY <1>1, <1>2, <1>3, <1>4, <1>5, CallerTypes
<1> QED BY <1>1, <1>2, <1>5, <1>6, CallerPages, ReturnedCaller DEF PagingInv

\* A block comes with its first transactions, or with none.
LEMMA BlockPaging ==
  ASSUME PagingInv, BlockAnswers
  PROVE  PagingInv'
<1> DEFINE some == block.first + Least(NumTransactions, NodeMax)
           first == SubSeq(Versions(ledger), block.first + 1, some)
<1>1. /\ pc = "call" /\ routine = "Block" /\ heldLength' = Len(held')
      /\ UNCHANGED <<ledger, inputs, pages, seenLength, failed>>
      /\ \/ held' = first /\ pc' = "fill" /\ result' = result
         \/ held' = <<>> /\ pc' = "returned" /\ result' = [kind |-> "panic", data |-> <<>>]
  BY DEF BlockAnswers, Return
<1>2. Types /\ HandOverInv /\ CallerInv
  BY DEF PagingInv
<1>3. /\ block.first \in Nat /\ block.last \in Nat /\ block.first <= block.last
      /\ block.last < Len(ledger) /\ Len(ledger) \in Nat /\ ledger \in Seq(BOOLEAN)
      /\ from \in 0 .. Modulus - 1 /\ count \in Nat
  BY <1>1, <1>2 DEF Types
<1>4. UNCHANGED <<from, count, worker, channels, collected, responses>>
  BY <1>1 DEF pages
<1>5. some \in 0 .. Len(Versions(ledger)) /\ block.first < some
      /\ some - block.first <= NumTransactions /\ NumTransactions \in Nat
  <2>1. Len(Versions(ledger)) = Len(ledger)
    BY <1>3, VersionsProperties
  <2>2. NumTransactions = block.last - block.first + 1 /\ NodeMax \in Nat \ {0}
    BY LedgerAssumption DEF NumTransactions
  <2> QED BY <1>3, <2>1, <2>2 DEF Least
<1>6. Versions(ledger) \in Seq(Stored) /\ \A p \in 1 .. Len(ledger) : Versions(ledger)[p] = p - 1
  <2>1. ListOf(FALSE, ledger) \in Seq(0 .. Len(ledger) - 1)
    BY <1>3, ListProperties
  <2> QED BY <1>3, <2>1, VersionsProperties DEF ListOf, Stored
<1> HIDE DEF some
<1>7. /\ first \in Seq(Stored) /\ Len(first) = some - block.first
      /\ \A k \in 1 .. some - block.first : first[k] = Versions(ledger)[block.first + k]
  <2>1. block.first <= some
    BY <1>3, <1>5
  <2> QED BY <1>3, <1>5, <1>6, <2>1, Stretch
<1> HIDE DEF first
<1>8. Len(first) \in Nat /\ Len(first) > 0 /\ Len(first) <= NumTransactions
  BY <1>3, <1>5, <1>7
<1>9. CASE pc' = "returned"
  <2>1. held' = <<>> /\ result'.data = <<>> /\ result'.kind = "panic" /\ heldLength' = Len(<<>>)
    BY <1>1, <1>9
  <2>2. Types'
    BY <1>1, <1>2, <1>3, <1>4, <1>9, <2>1, NothingTyped, CallerTypes
  <2> QED BY <1>1, <1>2, <1>4, <1>9, <2>2, CallerPages, ReturnedCaller DEF PagingInv
<1>10. CASE pc' # "returned"
  <2>1. held' = first /\ pc' = "fill" /\ result' = result /\ heldLength' = Len(first)
    BY <1>1, <1>10
  <2>2. Types'
    BY <1>1, <1>2, <1>3, <1>4, <1>7, <1>8, <2>1, CallerTypes
  <2>3. \A k \in 1 .. Len(first) : first[k] = block.first + k - 1
    <3>1. ASSUME NEW k \in 1 .. Len(first)
          PROVE  first[k] = block.first + k - 1
      <4>1. Len(Versions(ledger)) = Len(ledger)
        BY <1>3, VersionsProperties
      <4>2. k \in 1 .. some - block.first /\ block.first + k \in 1 .. Len(ledger)
        BY <1>3, <1>5, <1>7, <4>1
      <4>3. first[k] = Versions(ledger)[block.first + k]
        BY <1>7, <4>2
      <4>4. Versions(ledger)[block.first + k] = (block.first + k) - 1
        BY <1>6, <4>2
      <4> QED BY <1>3, <4>3, <4>4
    <3> QED BY <3>1
  <2>4. HeldOfBlock'
    <3>1. NumTransactions' = NumTransactions /\ block' = block
      BY <1>1 DEF NumTransactions, inputs
    <3> QED BY <1>8, <2>1, <2>3, <3>1 DEF HeldOfBlock
  <2>5. CallerInv'
    BY <1>1, <1>2, <2>1, <2>4 DEF CallerInv, Fetching, Known, inputs
  <2> QED BY <1>2, <1>4, <2>1, <2>2, <2>5, CallerPages DEF PagingInv
<1> QED BY <1>9, <1>10

\* A block's loop returns, or asks for what is missing.
LEMMA FillPaging ==
  ASSUME PagingInv, Fill
  PROVE  PagingInv'
<1>1. /\ pc = "fill"
      /\ UNCHANGED <<ledger, inputs, held, worker, channels, collected, responses, history, failed>>
      /\ \/ /\ Len(held) < NumTransactions /\ pc' = "concurrent" /\ result' = result
            /\ from' = Last(held) /\ count' = NumTransactions - Len(held)
         \/ pc' = "returned" /\ result' = [kind |-> "ok", data |-> held] /\ UNCHANGED <<from, count>>
  BY DEF Fill, Return, ConcurrentFrom
<1>2. Types /\ HandOverInv /\ CallerInv /\ routine = "Block" /\ HeldOfBlock
  BY <1>1 DEF PagingInv, CallerInv
<1>3. held \in Seq(Stored) /\ heldLength \in Nat /\ from \in 0 .. Modulus - 1 /\ count \in Nat
  BY <1>2 DEF Types
<1>4. CASE pc' = "returned"
  <2>1. result'.data = held /\ result'.kind = "ok" /\ UNCHANGED <<from, count>>
    BY <1>1, <1>4
  <2>2. Types'
    BY <1>1, <1>2, <1>3, <1>4, <2>1, CallerTypes DEF history
  <2> QED BY <1>1, <1>2, <1>4, <2>2, CallerPages, ReturnedCaller DEF PagingInv
<1>5. CASE pc' # "returned"
  <2>1. /\ Len(held) < NumTransactions /\ pc' = "concurrent" /\ result' = result
        /\ from' = held[Len(held)] /\ count' = NumTransactions - Len(held)
    BY <1>1, <1>5 DEF Last
  <2>2. Len(held) \in Nat /\ Len(held) > 0 /\ NumTransactions \in Int
    BY <1>2, <1>3 DEF HeldOfBlock, NumTransactions, Types
  <2>3. from' \in 0 .. Modulus - 1 /\ count' \in Nat /\ count' > 0
    <3>1. held[Len(held)] \in Stored
      BY <1>3, <2>2
    <3>2. from' \in 0 .. Modulus - 1
      BY <1>2, <2>1, <3>1, NumbersFit
    <3> QED BY <2>1, <2>2, <3>2
  <2>4. Types'
    BY <1>1, <1>2, <1>3, <2>1, <2>3, CallerTypes DEF history
  <2>5. HeldOfBlock' /\ NumTransactions' = NumTransactions
    BY <1>1, <1>2 DEF HeldOfBlock, NumTransactions, inputs, history
  <2>6. ~Account' /\ ~Known' /\ routine' = "Block"
    BY <1>1, <1>2 DEF Account, Known, inputs
  <2>7. CallerInv'
    BY <1>1, <1>2, <2>1, <2>2, <2>3, <2>5, <2>6 DEF CallerInv, Fetching, inputs
  <2> QED BY <1>1, <1>2, <2>1, <2>4, <2>7, CallerPages DEF PagingInv
<1> QED BY <1>4, <1>5

\* Each page gets a goroutine and a fresh channel.
LEMMA StartPaging ==
  ASSUME PagingInv, StartPages
  PROVE  PagingInv'
<1>1. /\ pc = "concurrent" /\ collected' = 0 /\ responses' = <<>>
      /\ UNCHANGED <<ledger, inputs, held, from, count, result, history, failed>>
  BY DEF StartPages
<1>2. \/ /\ count > PageSize /\ pc' = "collect"
         /\ worker' = [i \in 0 .. NumPages - 1 |-> "running"]
         /\ channels' = [i \in 0 .. NumPages - 1 |-> NewChannel]
      \/ ~(count > PageSize) /\ pc' = "single" /\ UNCHANGED <<worker, channels>>
  BY DEF StartPages
<1>3. Types /\ HandOverInv /\ CallerInv
  BY DEF PagingInv
<1>4. count \in Nat /\ NumPages \in Nat /\ NumPages' = NumPages /\ PageSize \in Nat \ {0}
  BY <1>1, <1>3, PagesNumber, PagingAssumption DEF Types, NumPages
<1>5. UNCHANGED <<routine, start, limit, block, seenLength, heldLength>>
  BY <1>1 DEF inputs, history
<1>6. Stored' = Stored /\ List' = List /\ Account' = Account
  BY <1>1, <1>5 DEF Stored, List, Account
<1>7. IsFiniteSet(DOMAIN channels') /\ collected' <= Cardinality(DOMAIN channels')
  <2>1. IsFiniteSet(DOMAIN channels')
    <3>1. IsFiniteSet(0 .. NumPages - 1)
      BY <1>4, FS_Interval
    <3> QED BY <1>2, <1>3, <3>1 DEF Types
  <2>2. Cardinality(DOMAIN channels') \in Nat
    BY <2>1, FS_CardinalityType
  <2> QED BY <1>1, <2>1, <2>2
<1>8. Types'
  <2>1. responses' \in Seq(Stored) /\ collected' \in Nat
    BY <1>1, NothingTyped
  <2>2. /\ pc' \in {"call", "first", "concurrent", "single", "collect", "fill", "returned"}
        /\ result'.kind = "none" <=> pc' # "returned"
    BY <1>1, <1>2, <1>3 DEF Types
  <2> HIDE DEF Stored
  <2> QED BY <1>1, <1>3, <1>5, <1>6, <1>7, <2>1, <2>2 DEF Types
<1>9. CallerInv'
  <2>1. HeldOfBlock' = HeldOfBlock /\ HeldOfAccount' = HeldOfAccount /\ Known' = Known
    BY <1>1, <1>5, <1>6 DEF HeldOfBlock, HeldOfAccount, Known, NumTransactions
  <2>2. Fetching /\ Fetching' /\ pc' \notin {"first", "call", "fill"}
    BY <1>1, <1>2 DEF Fetching
  <2>3. pc' = "single" => count <= PageSize
    BY <1>2, <1>4
  <2>4. NumTransactions' = NumTransactions
    BY <1>5 DEF NumTransactions
  <2> QED BY <1>1, <1>3, <1>5, <1>6, <2>1, <2>2, <2>3, <2>4 DEF CallerInv
<1>10. CASE pc' = "single"
  <2>1. UNCHANGED <<worker, channels>>
    BY <1>2, <1>10
  <2> QED BY <1>3, <1>8, <1>9, <1>10, <2>1, CallerPages DEF PagingInv
<1>11. CASE pc' = "collect"
  <2>1. /\ count > PageSize
        /\ worker' = [i \in 0 .. NumPages - 1 |-> "running"]
        /\ channels' = [i \in 0 .. NumPages - 1 |-> NewChannel]
    BY <1>2, <1>11
  <2>2. \A i \in DOMAIN worker' :
          i \in Nat /\ worker'[i] = "running" /\ channels'[i] = NewChannel
    BY <1>4, <2>1
  <2>3. HandOverInv'
    <3>1. ASSUME NEW i \in DOMAIN worker'
          PROVE  PageInv(i)'
      <4>1. ~(i < collected')
        BY <1>1, <2>2
      <4> QED BY <2>2, <4>1 DEF PageInv
    <3> QED BY <1>1, <1>4, <2>1, <3>1 DEF HandOverInv
  <2>4. Offset' = 0
    <3>1. 0 * PageSize = 0
      BY <1>4
    <3> QED BY <1>1, <1>4, <3>1 DEF Offset, Least
  <2>5. IsExact(List', seenLength', responses', from', Offset')
    <3>1. from \in Nat
      BY <1>3, PagingAssumption DEF Types
    <3> QED BY <1>1, <2>4, <3>1, ExactNothing
  <2>6. PagesInv'
    <3>1. Len(responses') = 0 /\ ~(collected' > 0)
      BY <1>1
    <3>2. Len(responses') <= Offset' /\ count' > PageSize
      BY <1>1, <2>1, <2>4, <3>1
    <3> QED BY <2>2, <2>5, <3>1, <3>2 DEF PagesInv
  <2> QED BY <1>8, <1>9, <2>3, <2>6 DEF PagingInv
<1> QED BY <1>2, <1>10, <1>11

\* A step of a goroutine sends one message into a channel nobody has used: its
\* page, if its request is answered.
LEMMA GoroutineReports ==
  ASSUME PagingInv, NEW i \in DOMAIN worker, Goroutine(i)
  PROVE  /\ worker[i] = "running"
         /\ DOMAIN worker' = DOMAIN worker /\ DOMAIN channels' = DOMAIN channels
         /\ worker'[i] = "ended"
         /\ channels'[i] = [buf |-> <<NextMessage(channels'[i])>>, closed |-> FALSE]
         /\ \A j \in DOMAIN worker : j # i => worker'[j] = worker[j] /\ channels'[j] = channels[j]
         /\ pc = "collect" => NextMessage(channels'[i]) \in Messages /\ PageRead(i)'
         /\ failed' = failed \/ (failed' = failed \union {"page"} /\ NextMessage(channels'[i]).err)
         /\ UNCHANGED <<ledger, inputs, pc, held, from, count, collected, responses, result,
                        history>>
<1>1. PICK m : /\ worker[i] = "running"
               /\ worker' = [worker EXCEPT ![i] = "ended"]
               /\ channels' = [channels EXCEPT ![i] = Sent(@, m)]
               /\ \/ /\ failed' = failed /\ Found(ledger, Account, PageStart(i))
                     /\ m = [err |-> FALSE,
                             data |-> PageOf(ledger, Account, PageStart(i), PageLimit(i))]
                  \/ /\ failed' = failed \union {"page"}
                     /\ m = [err |-> TRUE, data |-> <<>>]
  BY DEF Goroutine, PageAnswers, PageFails, Report
<1>2. UNCHANGED <<ledger, inputs, pc, held, from, count, collected, responses, result, history>>
  BY DEF Goroutine, PageAnswers, PageFails, Report
<1>3. channels[i] = NewChannel /\ i \in DOMAIN channels
  BY <1>1 DEF PagingInv, HandOverInv, PageInv
<1>4. Sent(NewChannel, m) = [buf |-> <<m>>, closed |-> FALSE]
  <2>1. Append(<<>>, m) = <<m>>
    OBVIOUS
  <2>2. NewChannel.buf = <<>>
    BY DEF NewChannel
  <2>3. Sent(NewChannel, m) = [NewChannel EXCEPT !.buf = <<m>>]
    BY <2>1, <2>2 DEF Sent
  <2> QED BY <2>3 DEF NewChannel
<1>5. /\ DOMAIN worker' = DOMAIN worker /\ DOMAIN channels' = DOMAIN channels
      /\ worker'[i] = "ended" /\ channels'[i] = [buf |-> <<m>>, closed |-> FALSE]
      /\ \A j \in DOMAIN worker : j # i => worker'[j] = worker[j] /\ channels'[j] = channels[j]
  BY <1>1, <1>3, <1>4 DEF PagingInv, HandOverInv
<1>6. NextMessage(channels'[i]) = m
  <2>1. Head(<<m>>) = m
    OBVIOUS
  <2> QED BY <1>5, <2>1 DEF NextMessage
<1>7. ASSUME pc = "collect"
      PROVE  m \in Messages /\ PageRead(i)'
  <2>1. /\ i \in 0 .. NumPages - 1 /\ count \in Nat /\ from \in 0 .. Modulus - 1 /\ Types
    BY <1>7 DEF PagingInv, HandOverInv, Types
  <2>2. PageStart(i) \in Nat /\ PageLimit(i) \in 0 .. PageSize /\ PageLimit(i) > 0
    <3>1. PageStart(i) \in 0 .. Modulus - 1 /\ PageLimit(i) \in 1 .. PageSize
      BY <2>1, PageStarts, PageBounds
    <3> QED BY <3>1, PagingAssumption
  <2>3. /\ PageStart(i)' = PageStart(i) /\ PageLimit(i)' = PageLimit(i)
        /\ List' = List /\ Account' = Account /\ seenLength' = seenLength
    BY <1>2 DEF PageStart, PageLimit, List, Account, inputs, history
  <2>4. CASE m = [err |-> TRUE, data |-> <<>>] /\ failed' = failed \union {"page"}
    <3>1. m \in Messages
      BY <2>4, NothingTyped DEF Messages
    <3>2. m.err /\ failed' # {}
      BY <2>4
    <3> QED BY <1>6, <3>1, <3>2 DEF PageRead
  <2>5. CASE ~(m = [err |-> TRUE, data |-> <<>>] /\ failed' = failed \union {"page"})
    <3> DEFINE page == PageOf(ledger, Account, PageStart(i), PageLimit(i))
    <3>1. Found(ledger, Account, PageStart(i)) /\ m = [err |-> FALSE, data |-> page]
      BY <1>1, <2>5
    <3>2. /\ page \in Seq(Stored)
          /\ IsPart(List, seenLength, page, PageStart(i), PageLimit(i))
          /\ ~Account => Len(page) > 0 /\ page[1] = PageStart(i)
      BY <2>1, <2>2, <3>1, PartAsked
    <3> HIDE DEF page
    <3>3. m \in Messages /\ ~m.err /\ m.data = page
      BY <3>1, <3>2 DEF Messages
    <3> QED BY <1>6, <2>3, <3>2, <3>3 DEF PageRead
  <2> QED BY <2>4, <2>5
<1>8. failed' = failed \/ (failed' = failed \union {"page"} /\ m.err)
  BY <1>1
<1> QED BY <1>1, <1>2, <1>5, <1>6, <1>7, <1>8

\* A page is reported once, as what it was asked for.
LEMMA GoroutinePaging ==
  ASSUME PagingInv, NEW i \in DOMAIN worker, Goroutine(i)
  PROVE  PagingInv'
<1>1. Types /\ HandOverInv /\ PagesInv /\ CallerInv
  BY DEF PagingInv
<1>2. /\ DOMAIN worker' = DOMAIN worker /\ DOMAIN channels' = DOMAIN channels
      /\ worker'[i] = "ended"
      /\ channels'[i] = [buf |-> <<NextMessage(channels'[i])>>, closed |-> FALSE]
      /\ \A j \in DOMAIN worker : j # i => worker'[j] = worker[j] /\ channels'[j] = channels[j]
      /\ pc = "collect" => NextMessage(channels'[i]) \in Messages /\ PageRead(i)'
      /\ failed' = failed \/ failed' = failed \union {"page"}
      /\ UNCHANGED <<ledger, inputs, pc, held, from, count, collected, responses, result, history>>
  BY GoroutineReports
<1>3. UNCHANGED <<routine, start, limit, block, seenLength, heldLength>>
  BY <1>2 DEF inputs, history
<1>4. /\ Stored' = Stored /\ List' = List /\ Account' = Account /\ Messages' = Messages
      /\ NumPages' = NumPages /\ Offset' = Offset
      /\ \A j : PageStart(j)' = PageStart(j) /\ PageLimit(j)' = PageLimit(j)
  BY <1>2, <1>3 DEF Stored, List, Account, Messages, NumPages, Offset, PageStart, PageLimit
<1>5. Types'
  <2> HIDE DEF Stored
  <2> QED BY <1>1, <1>2, <1>3, <1>4 DEF Types
<1>6. CallerInv'
  <2>1. /\ HeldOfBlock' = HeldOfBlock /\ HeldOfAccount' = HeldOfAccount /\ Known' = Known
        /\ NumTransactions' = NumTransactions /\ Fetching' = Fetching
    BY <1>2, <1>3, <1>4 DEF HeldOfBlock, HeldOfAccount, Known, NumTransactions, Fetching
  <2> QED BY <1>1, <1>2, <1>3, <1>4, <2>1 DEF CallerInv
<1>7. ASSUME NEW j \in DOMAIN worker
      PROVE  PageInv(j)'
  <2>1. CASE j = i
    BY <1>2, <1>4, <2>1 DEF PageInv
  <2>2. CASE j # i
    BY <1>1, <1>2, <1>4, <2>2 DEF HandOverInv, PageInv
  <2> QED BY <2>1, <2>2
<1>8. HandOverInv'
  BY <1>1, <1>2, <1>4, <1>7 DEF HandOverInv
<1>9. ASSUME pc = "collect", NEW j \in DOMAIN worker, j >= collected, worker'[j] # "running"
      PROVE  PageRead(j)'
  <2>1. CASE j = i
    BY <1>2, <1>9, <2>1
  <2>2. CASE j # i
    <3>1. PageRead(j)
      BY <1>1, <1>2, <1>9, <2>2 DEF PagesInv
    <3>2. failed # {} => failed' # {}
      BY <1>2
    <3> QED BY <1>2, <1>3, <1>4, <2>2, <3>1, <3>2 DEF PageRead
  <2> QED BY <2>1, <2>2
<1>10. PagesInv'
  BY <1>1, <1>2, <1>3, <1>4, <1>9 DEF PagesInv
<1> QED BY <1>5, <1>6, <1>8, <1>10 DEF PagingInv

\* What the caller gets for what it asked for.
Answer(data) ==
  /\ data \in Seq(Stored) /\ Len(data) <= count
  /\ ~Account /\ count > 0 => \E k \in 1 .. Len(data) : data[k] = from
  /\ from + count <= Modulus => IsExact(List, seenLength, data, from, count) /\ Ascends(data)
  /\ count = 1 /\ from < Len(List) => Len(data) = 1 /\ data[1] = List[from + 1]

\* A single request answers.
LEMMA SingleAnswer ==
  ASSUME PagingInv, SingleAnswers
  PROVE  Answer(PageOf(ledger, Account, from, count))
<1> DEFINE page == PageOf(ledger, Account, from, count)
<1>1. pc = "single" /\ Found(ledger, Account, from)
  BY DEF SingleAnswers
<1>2. Types /\ from \in Nat /\ count \in 0 .. PageSize /\ count \in Nat
  BY <1>1, PagingAssumption DEF PagingInv, CallerInv, Types
<1>3. /\ page \in Seq(Stored) /\ Len(page) \in Nat
      /\ IsPart(List, seenLength, page, from, count)
      /\ count > 0 /\ from < Len(List) => Len(page) > 0
      /\ ~Account /\ count > 0 => Len(page) > 0 /\ page[1] = from
  BY <1>1, <1>2, PartAsked
<1> HIDE DEF page
<1>4. IsExact(List, seenLength, page, from, count) /\ Ascends(page)
  <2>1. /\ Len(ledger) \in Nat /\ List \in Seq(0 .. Len(ledger) - 1) /\ Ascends(List)
    BY <1>2, ListFacts DEF Stored
  <2>2. page \in Seq(Nat)
    <3>1. \A S, T, s : S \subseteq T /\ s \in Seq(S) => s \in Seq(T)
      OBVIOUS
    <3> QED BY <1>2, <1>3, <3>1, ListFacts
  <2> QED BY <1>2, <1>3, <2>1, <2>2, PartIsExact
<1>5. Len(page) <= count
  BY <1>3 DEF IsPart
<1>6. ~Account /\ count > 0 => \E k \in 1 .. Len(page) : page[k] = from
  <2>1. Len(page) > 0 => 1 \in 1 .. Len(page)
    BY <1>3
  <2> QED BY <1>3, <2>1
<1>7. ASSUME count = 1, from < Len(List)
      PROVE  Len(page) = 1 /\ page[1] = List[from + 1]
  <2>1. Len(page) = 1 /\ 1 \in 1 .. Len(page)
    <3>1. Len(page) > 0
      BY <1>3, <1>7
    <3>2. Len(page) <= 1 /\ Len(page) \in Nat
      BY <1>3, <1>5, <1>7
    <3>3. \A n \in Nat : n > 0 /\ n <= 1 => n = 1 /\ 1 \in 1 .. n
      OBVIOUS
    <3> QED BY <3>1, <3>2, <3>3
  <2> QED BY <1>3, <2>1 DEF IsPart
<1> QED BY <1>3, <1>4, <1>5, <1>6, <1>7 DEF Answer, page

\* The pages collected to the end answer, in whatever way they are sorted.
LEMMA CollectedAnswer ==
  ASSUME PagingInv, PagesCollected, NEW data \in Sortings(responses)
  PROVE  Answer(data)
<1>1. pc = "collect" /\ collected = NumPages
  BY DEF PagesCollected
<1>2. Types /\ HandOverInv /\ PagesInv
  BY DEF PagingInv
<1>3. /\ from \in Nat /\ count \in Nat /\ responses \in Seq(Stored) /\ Stored \subseteq Nat
      /\ PageSize \in Nat \ {0} /\ NumPages \in Nat
  BY <1>2, ListFacts, PagesNumber, PagingAssumption DEF Types
<1>4. Offset = count
  BY <1>1, <1>3, Offsets DEF Offset
<1>5. count > 1 /\ NumPages > 0
  <2>1. count > PageSize
    BY <1>1, <1>2 DEF PagesInv
  <2>2. count <= NumPages * PageSize
    BY <1>3, PagesEnough
  <2>3. 0 * PageSize = 0
    BY <1>3
  <2> QED BY <1>3, <2>1, <2>2, <2>3
<1>6. /\ data \in Seq(Stored) /\ Len(data) = Len(responses) /\ Len(responses) \in Nat
      /\ \E p \in [1 .. Len(responses) -> 1 .. Len(responses)] :
           /\ \A i \in 1 .. Len(responses) : \E k \in 1 .. Len(responses) : p[k] = i
           /\ \A k \in 1 .. Len(responses) : data[k] = responses[p[k]]
  <2> HIDE DEF Stored
  <2> QED BY <1>3, SortingProperties
<1>7. Len(data) <= count
  BY <1>1, <1>2, <1>4, <1>6 DEF PagesInv
<1>8. ASSUME ~Account
      PROVE  \E k \in 1 .. Len(data) : data[k] = from
  <2>1. PICK i \in 1 .. Len(responses) : responses[i] = from
    BY <1>1, <1>2, <1>5, <1>8 DEF PagesInv
  <2>2. PICK p \in [1 .. Len(responses) -> 1 .. Len(responses)] :
           /\ \A j \in 1 .. Len(responses) : \E k \in 1 .. Len(responses) : p[k] = j
           /\ \A k \in 1 .. Len(responses) : data[k] = responses[p[k]]
    BY <1>6
  <2>3. PICK k \in 1 .. Len(responses) : p[k] = i
    BY <2>2
  <2> QED BY <1>6, <2>1, <2>2, <2>3
<1>9. ASSUME from + count <= Modulus
      PROVE  IsExact(List, seenLength, data, from, count) /\ Ascends(data)
  <2>1. IsExact(List, seenLength, responses, from, count)
    BY <1>1, <1>2, <1>4, <1>9 DEF PagesInv
  <2>2. responses \in Seq(Nat)
    <3>1. \A S, T, s : S \subseteq T /\ s \in Seq(S) => s \in Seq(T)
      OBVIOUS
    <3> QED BY <1>3, <3>1
  <2> QED BY <1>3, <2>1, <2>2, SortedIsExact
<1> QED BY <1>5, <1>6, <1>7, <1>8, <1>9 DEF Answer

\* An answer, or none, goes to a block's loop or ends the call.
LEMMA ContinuePaging ==
  ASSUME PagingInv, pc \in {"single", "collect"}, NEW data, Answer(data) \/ data = <<>>,
         Continue(data), DOMAIN channels' = DOMAIN channels,
         UNCHANGED <<ledger, inputs, from, count, collected, responses, history>>
  PROVE  Types' /\ CallerInv' /\ pc' \in {"fill", "returned"}
<1>1. Types /\ CallerInv /\ held \in Seq(Stored) /\ heldLength \in Nat
      /\ from \in 0 .. Modulus - 1 /\ count \in Nat
  BY DEF PagingInv, Types
<1>2. data \in Seq(Stored)
  BY NothingTyped DEF Answer
<1>3. /\ data \o held \in Seq(Stored) /\ held \o data \in Seq(Stored)
      /\ Len(data) \in Nat /\ Len(held) \in Nat
      /\ Len(held \o data) = Len(held) + Len(data)
      /\ \A k \in 1 .. Len(held) : (held \o data)[k] = held[k]
      /\ \A k \in 1 .. Len(data) : (held \o data)[Len(held) + k] = data[k]
  BY <1>1, <1>2, HeldTyped
<1>4. CASE routine # "Block"
  <2>1. pc' = "returned" /\ result' = [kind |-> "ok", data |-> data \o held] /\ held' = held
    BY <1>4 DEF Continue, Return
  <2>2. result'.kind = "ok" /\ result'.data \in Seq(Stored)
    BY <1>3, <2>1
  <2>3. Types'
    BY <1>1, <2>1, <2>2, CallerTypes DEF history
  <2> QED BY <1>1, <2>1, <2>3, ReturnedCaller
<1>5. CASE routine = "Block"
  <2>1. pc' = "fill" /\ held' = held \o data /\ result' = result /\ pc # "returned"
    BY <1>5 DEF Continue
  <2>2. Types' /\ Account' = Account
    BY <1>1, <1>3, <2>1, CallerTypes DEF history
  <2>3. /\ ~Account /\ HeldOfBlock /\ count = NumTransactions - Len(held) /\ count > 0
        /\ from = held[Len(held)]
    BY <1>1, <1>5 DEF CallerInv, Fetching, Known, Account
  <2>4. NumTransactions' = NumTransactions /\ heldLength' = heldLength /\ block' = block
        /\ routine' = routine /\ start' = start /\ limit' = limit
    BY DEF NumTransactions, inputs, history
  <2>5. HeldOfBlock'
    <3>1. CASE data = <<>>
      <4>1. held' = held
        <5>1. \A S : \A s \in Seq(S) : s \o <<>> = s
          OBVIOUS
        <5> QED BY <1>1, <2>1, <3>1, <5>1
      <4> QED BY <2>3, <2>4, <4>1 DEF HeldOfBlock
    <3>2. CASE Answer(data)
      <4>1. PICK k \in 1 .. Len(data) : data[k] = from
        BY <2>3, <3>2 DEF Answer
      <4>2. /\ Len(held) \in 1 .. Len(held') /\ Len(held) + k \in 1 .. Len(held')
            /\ Len(held) # Len(held) + k /\ Len(held) < Len(held')
        BY <1>3, <2>1, <2>3, <4>1 DEF HeldOfBlock
      <4>3. held'[Len(held)] = from /\ held'[Len(held) + k] = from
        <5>1. Len(held) \in 1 .. Len(held)
          BY <1>3, <2>3 DEF HeldOfBlock
        <5> QED BY <1>3, <2>1, <2>3, <4>1, <5>1
      <4>4. NumTransactions \in Int /\ Len(data) <= count
        BY <1>1, <3>2 DEF NumTransactions, Types, Answer
      <4>5. Len(held') > 0 /\ Len(held') <= NumTransactions /\ heldLength < Len(held')
        BY <1>1, <1>3, <2>1, <2>3, <4>2, <4>4 DEF HeldOfBlock
      <4>6. heldLength' # Len(held')
        BY <1>1, <1>3, <2>1, <2>4, <4>5
      <4>7. \E a, b \in 1 .. Len(held') : a # b /\ held'[a] = held'[b]
        BY <4>2, <4>3
      <4>8. heldLength' <= Len(held')
        BY <1>1, <1>3, <2>1, <2>4, <4>5
      <4> QED BY <2>4, <4>5, <4>6, <4>7, <4>8 DEF HeldOfBlock
    <3> QED BY <3>1, <3>2
  <2>6. CallerInv'
    BY <1>1, <1>5, <2>1, <2>2, <2>4, <2>5 DEF CallerInv, Fetching
  <2> QED BY <2>1, <2>2, <2>6
<1> QED BY <1>4, <1>5

\* The answer of one request, or of the pages.
LEMMA AnswersPaging ==
  ASSUME PagingInv, SingleAnswers \/ PagesCollected
  PROVE  PagingInv'
<1>1. PICK data : Answer(data) /\ Continue(data)
  <2>1. CASE SingleAnswers
    BY <2>1, SingleAnswer DEF SingleAnswers
  <2>2. CASE PagesCollected
    BY <2>2, CollectedAnswer DEF PagesCollected
  <2> QED BY <2>1, <2>2
<1>2. pc \in {"single", "collect"} /\ UNCHANGED <<ledger, inputs, pages, history>>
  BY DEF SingleAnswers, PagesCollected
<1>3. UNCHANGED <<from, count, worker, channels, collected, responses>>
  BY <1>2 DEF pages
<1>4. Types' /\ CallerInv' /\ pc' \in {"fill", "returned"}
  BY <1>1, <1>2, <1>3, ContinuePaging
<1> QED BY <1>3, <1>4, CallerPages DEF PagingInv

\* The page whose turn it is.
LEMMA CollectedPage ==
  ASSUME PagingInv, NEW i \in DOMAIN channels, Collect(i)
  PROVE  /\ pc = "collect" /\ i = collected /\ i \in 0 .. NumPages - 1 /\ i \in DOMAIN worker
         /\ worker[i] # "running" /\ PageRead(i) /\ NextMessage(channels[i]) \in Messages
         /\ DOMAIN channels' = DOMAIN channels
         /\ \A j \in DOMAIN channels : j # i => channels'[j] = channels[j]
         /\ UNCHANGED <<ledger, inputs, from, count, worker, history, failed>>
<1>1. /\ pc = "collect" /\ i = collected /\ HasMessage(channels[i])
      /\ UNCHANGED <<ledger, inputs, from, count, worker, history, failed>>
  BY DEF Collect
<1>2. /\ i \in DOMAIN worker /\ i \in 0 .. NumPages - 1 /\ PageInv(i)
  BY <1>1 DEF PagingInv, HandOverInv
<1>3. worker[i] # "running"
  BY <1>1, <1>2 DEF PageInv, HasMessage, NewChannel
<1>4. collected \in Nat /\ i >= collected
  BY <1>1 DEF PagingInv, Types
<1>5. PageRead(i) /\ NextMessage(channels[i]) \in Messages
  BY <1>1, <1>2, <1>3, <1>4 DEF PagingInv, PagesInv, PageInv
<1>6. /\ DOMAIN channels' = DOMAIN channels
      /\ \A j \in DOMAIN channels : j # i => channels'[j] = channels[j]
  BY DEF Collect
<1> QED BY <1>1, <1>2, <1>3, <1>5, <1>6

\* A page that failed ends the collection with nothing.
LEMMA CollectFailed ==
  ASSUME PagingInv, NEW i \in DOMAIN channels, Collect(i), NextMessage(channels[i]).err
  PROVE  PagingInv' /\ failed' # {}
<1>1. /\ pc = "collect" /\ i \in DOMAIN worker /\ worker[i] # "running" /\ PageRead(i)
      /\ DOMAIN channels' = DOMAIN channels
      /\ \A j \in DOMAIN channels : j # i => channels'[j] = channels[j]
      /\ UNCHANGED <<ledger, inputs, from, count, worker, history, failed>>
  BY CollectedPage
<1>2. Continue(<<>>) /\ UNCHANGED <<collected, responses>>
  BY DEF Collect
<1>3. Types' /\ CallerInv' /\ pc' \in {"fill", "returned"}
  BY <1>1, <1>2, ContinuePaging
<1>4. HandOverInv' /\ PagesInv'
  BY <1>1, <1>3 DEF PagingInv, HandOverInv, PageInv, PagesInv
<1> QED BY <1>1, <1>3, <1>4 DEF PagingInv, PageRead

\* Any other page is added to those before it.
LEMMA CollectNext ==
  ASSUME PagingInv, NEW i \in DOMAIN channels, Collect(i), ~NextMessage(channels[i]).err
  PROVE  PagingInv'
<1> DEFINE data == NextMessage(channels[i]).data
<1>1. /\ pc = "collect" /\ i = collected /\ i \in 0 .. NumPages - 1 /\ i \in DOMAIN worker
      /\ worker[i] # "running" /\ PageRead(i) /\ NextMessage(channels[i]) \in Messages
      /\ DOMAIN channels' = DOMAIN channels
      /\ \A j \in DOMAIN channels : j # i => channels'[j] = channels[j]
      /\ UNCHANGED <<ledger, inputs, from, count, worker, history, failed>>
  BY CollectedPage
<1>2. /\ collected' = collected + 1 /\ responses' = responses \o data
      /\ UNCHANGED <<pc, held, result>>
  BY DEF Collect
<1>3. Types /\ HandOverInv /\ PagesInv /\ CallerInv
  BY DEF PagingInv
<1>4. UNCHANGED <<routine, start, limit, block, seenLength, heldLength>>
  BY <1>1 DEF inputs, history
<1>5. /\ Stored' = Stored /\ List' = List /\ Account' = Account /\ Messages' = Messages
      /\ NumPages' = NumPages
      /\ \A j : PageStart(j)' = PageStart(j) /\ PageLimit(j)' = PageLimit(j)
  BY <1>1, <1>4 DEF Stored, List, Account, Messages, NumPages, PageStart, PageLimit
<1>6. /\ data \in Seq(Stored) /\ responses \in Seq(Stored) /\ Stored \subseteq Nat
      /\ IsPart(List, seenLength, data, PageStart(i), PageLimit(i))
      /\ ~Account => Len(data) > 0 /\ data[1] = PageStart(i)
  <2>1. data \in Seq(Stored)
    BY <1>1 DEF Messages
  <2>2. responses \in Seq(Stored) /\ Stored \subseteq Nat
    BY <1>3, ListFacts DEF Types
  <2> QED BY <1>1, <2>1, <2>2 DEF PageRead
<1> HIDE DEF data
<1>7. /\ responses' \in Seq(Stored) /\ Len(responses') = Len(responses) + Len(data)
      /\ Len(responses) \in Nat /\ Len(data) \in Nat
      /\ \A k \in 1 .. Len(responses) : responses'[k] = responses[k]
      /\ \A k \in 1 .. Len(data) : responses'[Len(responses) + k] = data[k]
  <2> HIDE DEF Stored
  <2> QED BY <1>2, <1>6
<1>8. /\ count \in Nat /\ from \in 0 .. Modulus - 1 /\ from \in Nat /\ NumPages \in Nat
      /\ i \in Nat /\ collected \in Nat
  BY <1>1, <1>3, PagesNumber, PagingAssumption DEF Types
<1>9. /\ Offset = i * PageSize /\ Offset' = i * PageSize + PageLimit(i)
      /\ i * PageSize \in Nat /\ PageLimit(i) \in Nat
  <2>1. Offset' = Least((i + 1) * PageSize, count) /\ Offset = Least(i * PageSize, count)
    BY <1>1, <1>2 DEF Offset
  <2>2. i * PageSize \in Nat /\ PageLimit(i) \in Nat
    BY <1>1, <1>8, PageBounds, PagingAssumption
  <2> QED BY <1>1, <1>8, <2>1, <2>2, Offsets
<1>10. Types'
  <2>1. collected' \in Nat /\ collected' <= Cardinality(DOMAIN channels')
    <3>1. DOMAIN channels = 0 .. NumPages - 1
      BY <1>1, <1>3 DEF HandOverInv
    <3>2. Cardinality(0 .. NumPages - 1) = NumPages
      <4>1. /\ 0 \in Int /\ NumPages - 1 \in Int
            /\ (IF 0 > NumPages - 1 THEN 0 ELSE NumPages - 1 - 0 + 1) = NumPages
        BY <1>8
      <4> QED BY <4>1, FS_Interval
    <3> QED BY <1>1, <1>2, <1>8, <3>1, <3>2
  <2> HIDE DEF Stored
  <2> QED BY <1>1, <1>2, <1>3, <1>4, <1>5, <1>7, <2>1 DEF Types
<1>11. CallerInv'
  <2>1. /\ HeldOfBlock' = HeldOfBlock /\ HeldOfAccount' = HeldOfAccount /\ Known' = Known
        /\ NumTransactions' = NumTransactions /\ Fetching' = Fetching
    BY <1>1, <1>2, <1>4, <1>5 DEF HeldOfBlock, HeldOfAccount, Known, NumTransactions, Fetching
  <2> QED BY <1>1, <1>2, <1>3, <1>4, <1>5, <2>1 DEF CallerInv
<1>12. HandOverInv'
  <2>1. collected' <= NumPages
    BY <1>1, <1>2, <1>8
  <2>2. ASSUME NEW j \in DOMAIN worker
        PROVE  PageInv(j)'
    <3>1. j \in Int
      BY <1>1, <1>3, <1>8 DEF HandOverInv
    <3>2. CASE j = i
      <4>1. ~(j >= collected')
        BY <1>1, <1>2, <1>8, <3>2
      <4> QED BY <1>1, <3>2, <4>1 DEF PageInv
    <3>3. CASE j # i
      <4>1. (j < collected' => j < collected) /\ (j >= collected' => j >= collected)
        BY <1>1, <1>2, <1>8, <3>1, <3>3
      <4>2. channels'[j] = channels[j] /\ PageInv(j)
        BY <1>1, <1>3, <3>3 DEF HandOverInv
      <4> QED BY <1>1, <1>2, <1>5, <4>1, <4>2 DEF PageInv
    <3> QED BY <3>2, <3>3
  <2> QED BY <1>1, <1>2, <1>3, <1>5, <2>1, <2>2 DEF HandOverInv
<1>13. PagesInv'
  <2>1. ASSUME NEW j \in DOMAIN worker, j >= collected', worker[j] # "running"
        PROVE  PageRead(j)'
    <3>1. j \in Int
      BY <1>1, <1>3, <1>8 DEF HandOverInv
    <3>2. j # i /\ j >= collected
      BY <1>1, <1>2, <1>8, <2>1, <3>1
    <3>3. channels'[j] = channels[j] /\ PageRead(j)
      BY <1>1, <1>3, <2>1, <3>2 DEF HandOverInv, PagesInv
    <3> QED BY <1>1, <1>4, <1>5, <3>3 DEF PageRead
  <2>2. Len(responses') <= Offset'
    <3>1. Len(responses) <= Offset
      BY <1>1, <1>3 DEF PagesInv
    <3>2. Len(data) <= PageLimit(i)
      BY <1>6 DEF IsPart
    <3> QED BY <1>7, <1>9, <3>1, <3>2
  <2>3. ASSUME ~Account
        PROVE  \E k \in 1 .. Len(responses') : responses'[k] = from
    <3>1. CASE i = 0
      <4>1. Len(data) > 0 /\ data[1] = from
        BY <1>1, <1>6, <1>8, <2>3, <3>1, PageStarts
      <4>2. 1 \in 1 .. Len(data) /\ Len(responses) + 1 \in 1 .. Len(responses')
        BY <1>7, <4>1
      <4> QED BY <1>7, <4>1, <4>2
    <3>2. CASE i # 0
      <4>1. collected > 0
        BY <1>1, <1>8, <3>2
      <4>2. PICK k \in 1 .. Len(responses) : responses[k] = from
        BY <1>1, <1>3, <2>3, <4>1 DEF PagesInv
      <4>3. k \in 1 .. Len(responses')
        BY <1>7
      <4> QED BY <1>7, <4>2, <4>3
    <3> QED BY <3>1, <3>2
  <2>4. ASSUME from + count <= Modulus
        PROVE  IsExact(List, seenLength, responses', from, Offset')
    <3>1. IsExact(List, seenLength, responses, from, Offset)
      BY <1>1, <1>3, <2>4 DEF PagesInv
    <3>2. PageStart(i) = from + Offset
      BY <1>1, <1>8, <1>9, <2>4, PageStarts
    <3>3. data \in Seq(Nat) /\ responses \in Seq(Nat)
      <4>1. \A S, T, s : S \subseteq T /\ s \in Seq(S) => s \in Seq(T)
        OBVIOUS
      <4> QED BY <1>6, <4>1
    <3>4. Len(ledger) \in Nat /\ List \in Seq(0 .. Len(ledger) - 1) /\ Ascends(List)
      BY <1>3, ListFacts DEF Stored
    <3>5. IsPart(List, seenLength, data, from + Offset, PageLimit(i))
      BY <1>6, <3>2
    <3>6. Offset \in Nat /\ PageLimit(i) \in Nat /\ Offset' = Offset + PageLimit(i)
      BY <1>9
    <3>7. IsExact(List, seenLength, responses \o data, from, Offset + PageLimit(i))
      BY <1>8, <3>1, <3>3, <3>4, <3>5, <3>6, ExactExtends
    <3> QED BY <1>2, <3>6, <3>7
  <2>5. count' > PageSize
    BY <1>1, <1>3 DEF PagesInv
  <2> QED BY <1>1, <1>2, <1>4, <1>5, <2>1, <2>2, <2>3, <2>4, <2>5 DEF PagesInv
<1> QED BY <1>10, <1>11, <1>12, <1>13 DEF PagingInv

\* The ledger grows at the end of every list, so that all that was read, or is
\* held, keeps its place.
LEMMA GrowPaging ==
  ASSUME PagingInv, LedgerGrows
  PROVE  PagingInv'
<1>1. /\ pc # "returned" /\ Len(ledger) < MaxLength
      /\ UNCHANGED <<inputs, pc, held, pages, result, history, failed>>
  BY DEF LedgerGrows
<1>2. PICK own \in BOOLEAN : ledger' = Append(ledger, own)
  BY DEF LedgerGrows
<1>3. Types /\ HandOverInv /\ PagesInv /\ CallerInv
  BY DEF PagingInv
<1>4. UNCHANGED <<routine, start, limit, block, from, count, worker, channels, collected,
                  responses, seenLength, heldLength>>
  BY <1>1 DEF inputs, pages, history
<1>5. /\ ledger \in Seq(BOOLEAN) /\ Len(ledger) \in Nat /\ seenLength \in 0 .. Len(ledger)
      /\ MaxLength \in Nat /\ Account \in BOOLEAN
  BY <1>3, PagingAssumption, ListFacts DEF Types
<1>6. ledger' \in Seq(BOOLEAN) /\ Len(ledger') = Len(ledger) + 1
  BY <1>2, <1>5
<1>7. /\ Stored \subseteq Stored' /\ Account' = Account /\ NumPages' = NumPages
      /\ Offset' = Offset
      /\ \A j : PageStart(j)' = PageStart(j) /\ PageLimit(j)' = PageLimit(j)
  BY <1>4, <1>5, <1>6 DEF Stored, Account, NumPages, Offset, PageStart, PageLimit
<1>8. \A s \in Seq(Stored) : s \in Seq(Stored')
  <2> DEFINE S == Stored
             T == Stored'
  <2>1. S \subseteq T
    BY <1>7
  <2> HIDE DEF S, T
  <2>2. \A s \in Seq(S) : s \in Seq(T)
    BY <2>1
  <2> QED BY <2>2 DEF S, T
<1>9. Types'
  <2>1. /\ held' \in Seq(Stored') /\ responses' \in Seq(Stored') /\ result'.data \in Seq(Stored')
    BY <1>1, <1>3, <1>4, <1>8 DEF Types
  <2>2. Len(ledger') <= MaxLength /\ seenLength' \in 0 .. Len(ledger')
        /\ (block'.last < Len(ledger') \/ routine' # "Block")
    <3>1. block.last \in Nat /\ (block.last < Len(ledger) \/ routine # "Block")
      BY <1>3 DEF Types
    <3> QED BY <1>1, <1>4, <1>5, <1>6, <3>1
  <2> HIDE DEF Stored
  <2> QED BY <1>1, <1>3, <1>4, <1>6, <2>1, <2>2 DEF Types
<1>10. /\ Grows(List, List', Len(ledger)) /\ List \in Seq(Nat) /\ List' \in Seq(Nat)
       /\ Len(List) \in Nat /\ Len(List') \in Nat
  <2>1. Grows(List, List', Len(ledger))
    BY <1>2, <1>5, <1>7, ListGrows DEF List, Grows
  <2>2. List \in Seq(Nat) /\ Len(List) \in Nat
    BY <1>3, ListFacts
  <2>3. List' \in Seq(Nat)
    <3>1. ListOf(Account, ledger') \in Seq(0 .. Len(ledger') - 1)
      BY <1>5, <1>6, ListProperties
    <3>2. 0 .. Len(ledger') - 1 \subseteq Nat
      BY <1>5, <1>6
    <3>3. \A S, T, s : S \subseteq T /\ s \in Seq(S) => s \in Seq(T)
      OBVIOUS
    <3>4. ListOf(Account, ledger') \in Seq(Nat)
      BY <3>1, <3>2, <3>3
    <3> QED BY <1>7, <3>4 DEF List
  <2>4. Len(List') \in Nat
    BY <2>3
  <2> QED BY <2>1, <2>2, <2>3, <2>4
<1>11. HandOverInv'
  <2>1. \A m \in Messages : m \in Messages'
    BY <1>8 DEF Messages
  <2> QED BY <1>1, <1>3, <1>4, <1>7, <2>1 DEF HandOverInv, PageInv
<1>12. PagesInv'
  <2>1. ASSUME pc = "collect"
        PROVE  /\ from \in Nat /\ Offset \in Nat
               /\ \A i \in DOMAIN worker : PageStart(i) \in Nat /\ PageLimit(i) \in Nat
    <3>1. count \in Nat /\ from \in 0 .. Modulus - 1 /\ DOMAIN worker = 0 .. NumPages - 1
          /\ PageSize \in Nat /\ collected \in Nat /\ Modulus \in Nat
      BY <1>3, <2>1, PagingAssumption DEF Types, HandOverInv
    <3>2. ASSUME NEW i \in DOMAIN worker
          PROVE  PageStart(i) \in Nat /\ PageLimit(i) \in Nat
      <4>1. PageStart(i) \in 0 .. Modulus - 1 /\ PageLimit(i) \in 1 .. PageSize
        BY <3>1, PageStarts, PageBounds
      <4> QED BY <3>1, <4>1
    <3>3. collected * PageSize \in Nat
      BY <3>1, MultipleProperties
    <3> QED BY <3>1, <3>2, <3>3 DEF Offset, Least
  <2>2. ASSUME pc = "collect", NEW i \in DOMAIN worker, PageRead(i)
        PROVE  PageRead(i)'
    <3> DEFINE data == NextMessage(channels[i]).data
    <3>1. PageStart(i) \in Nat /\ PageLimit(i) \in Nat
      BY <2>1, <2>2
    <3>2. IsPart(List, seenLength, data, PageStart(i), PageLimit(i))
            => IsPart(List', seenLength, data, PageStart(i), PageLimit(i))
      BY <1>5, <1>10, <3>1, PartStays
    <3> QED BY <1>1, <1>4, <1>7, <2>2, <3>2 DEF PageRead
  <2>3. ASSUME pc = "collect", IsExact(List, seenLength, responses, from, Offset)
        PROVE  IsExact(List', seenLength, responses, from, Offset)
    BY <1>5, <1>10, <2>1, <2>3, ExactStays
  <2> QED BY <1>1, <1>3, <1>4, <1>7, <2>2, <2>3 DEF PagesInv
<1>13. ASSUME Fetching, ~Known, Account
       PROVE  HeldOfAccount'
  <2>1. /\ Len(held) > 0 /\ HeldOfAccount /\ held \in Seq(Stored) /\ held' = held
    BY <1>1, <1>3, <1>13 DEF CallerInv, Types
  <2>2. held[1] \in 0 .. Len(ledger)
    <3>1. held[1] \in Stored
      <4> HIDE DEF Stored
      <4> QED BY <2>1
    <3> QED BY <1>5, <3>1 DEF Stored
  <2> DEFINE before == SequenceNumber(ledger, held[1])
  <2>3. SequenceNumber(ledger', held'[1]) = before
    BY <1>2, <1>5, <2>1, <2>2, SequenceNumberStays
  <2>4. before \in Nat
    <3>1. OwnVersions(ledger) \subseteq 0 .. Len(ledger) - 1
      BY DEF OwnVersions
    <3>2. {w \in OwnVersions(ledger) : w < held[1]} \in SUBSET OwnVersions(ledger)
      OBVIOUS
    <3> QED BY <1>5, <3>2, SequenceNumbers, FS_Subset, FS_CardinalityType DEF SequenceNumber
  <2> HIDE DEF before
  <2>5. \A k \in 1 .. Len(held) : before + k <= Len(List) /\ held[k] = List[before + k]
    BY <2>1 DEF HeldOfAccount, before
  <2>6. ASSUME NEW k \in 1 .. Len(held)
        PROVE  before + k <= Len(List') /\ held[k] = List'[before + k]
    <3>1. before + k \in 1 .. Len(List)
      BY <1>10, <2>4, <2>5
    <3> QED BY <1>10, <2>5, <3>1 DEF Grows
  <2>7. from' = (before + Modulus - 1) % Modulus
    BY <1>4, <2>1 DEF HeldOfAccount, before
  <2> QED BY <2>1, <2>3, <2>6, <2>7 DEF HeldOfAccount
<1>14. CallerInv'
  <2>1. /\ HeldOfBlock' = HeldOfBlock /\ Known' = Known
        /\ NumTransactions' = NumTransactions /\ Fetching' = Fetching
    BY <1>1, <1>4 DEF HeldOfBlock, Known, NumTransactions, Fetching
  <2> QED BY <1>1, <1>3, <1>4, <1>7, <1>13, <2>1 DEF CallerInv
<1> QED BY <1>9, <1>11, <1>12, <1>14 DEF PagingInv

-----------------------------------------------------------------------------
(* The theorems.                                                            *)

\* Every step keeps all of it.
THEOREM PagingInvariant == Spec => []PagingInv
<1>1. PagingInv /\ [Next]_vars => PagingInv'
  <2>1. ASSUME PagingInv, UNCHANGED vars
        PROVE  PagingInv'
    <3>1. UNCHANGED <<ledger, routine, start, limit, block, pc, held, from, count, worker, channels,
                      collected, responses, result, seenLength, heldLength, failed>>
      BY <2>1 DEF vars, inputs, pages, history
    <3>2. /\ Stored' = Stored /\ List' = List /\ Account' = Account /\ Messages' = Messages
          /\ NumPages' = NumPages /\ Offset' = Offset /\ Known' = Known /\ Fetching' = Fetching
          /\ HeldOfBlock' = HeldOfBlock /\ HeldOfAccount' = HeldOfAccount
          /\ NumTransactions' = NumTransactions
          /\ \A j : PageInv(j)' = PageInv(j) /\ PageRead(j)' = PageRead(j)
      BY <3>1 DEF Stored, List, Account, Messages, NumPages, Offset, Known, Fetching, HeldOfBlock,
                  HeldOfAccount, NumTransactions, PageInv, PageRead, PageStart, PageLimit
    <3>3. Types'
      <4> HIDE DEF Stored
      <4> QED BY <2>1, <3>1, <3>2 DEF PagingInv, Types
    <3>4. HandOverInv' /\ PagesInv'
      BY <2>1, <3>1, <3>2 DEF PagingInv, HandOverInv, PagesInv
    <3>5. CallerInv'
      BY <2>1, <3>1, <3>2 DEF PagingInv, CallerInv
    <3> QED BY <3>3, <3>4, <3>5 DEF PagingInv
  <2>2. ASSUME PagingInv, NEW i \in DOMAIN channels, Collect(i)
        PROVE  PagingInv'
    BY <2>2, CollectFailed, CollectNext
  <2> QED BY <2>1, <2>2, HandlePaging, FirstPaging, FailsPaging, StartPaging, AnswersPaging,
             BlockPaging, FillPaging, GoroutinePaging, GrowPaging DEF Next, Caller, Finished
<1> QED BY <1>1, InitPaging, PTL DEF Spec

\* What the variables hold, and that the caller never collects more pages than
\* it started: the indices and the numbers stay in range whatever happens.
THEOREM PagingTypeOK == Spec => []TypeOK
<1>1. PagingInv => TypeOK
  <2> SUFFICES ASSUME PagingInv
               PROVE  TypeOK
    OBVIOUS
  <2>1. Types /\ DOMAIN worker = DOMAIN channels
    BY DEF PagingInv, HandOverInv
  <2>2. Range(held) \subseteq 0 .. Len(ledger) - 1
    <3>1. held \in Seq(Stored)
      BY <2>1 DEF Types
    <3>2. \A S : \A s \in Seq(S) : \A i \in DOMAIN s : s[i] \in S
      OBVIOUS
    <3>3. \A i \in DOMAIN held : held[i] \in Stored
      BY <3>1, <3>2
    <3> QED BY <3>3 DEF Range, Stored
  <2> QED BY <2>1, <2>2 DEF TypeOK, Types
<1> QED BY <1>1, PagingInvariant, PTL

\* The account's list is no longer than the ledger.
LEMMA OwnLength ==
  ASSUME Types
  PROVE  Len(List) <= Len(ledger)
<1>1. ledger \in Seq(BOOLEAN) /\ Len(ledger) \in Nat /\ Account \in BOOLEAN
      /\ (~Account => Len(List) = Len(ledger))
  BY ListFacts DEF Types
<1>2. ASSUME Account
      PROVE  Len(List) <= Len(ledger)
  <2>1. Len(List) = Cardinality(OwnVersions(ledger))
    BY <1>1, <1>2, SequenceNumbers DEF List, ListOf, Own
  <2>2. OwnVersions(ledger) \in SUBSET (0 .. Len(ledger) - 1)
    BY DEF OwnVersions
  <2>3. IsFiniteSet(0 .. Len(ledger) - 1) /\ Cardinality(0 .. Len(ledger) - 1) = Len(ledger)
    <3>1. /\ 0 \in Int /\ Len(ledger) - 1 \in Int
          /\ (IF 0 > Len(ledger) - 1 THEN 0 ELSE Len(ledger) - 1 - 0 + 1) = Len(ledger)
      BY <1>1
    <3> QED BY <3>1, FS_Interval
  <2> QED BY <2>1, <2>2, <2>3, FS_Subset
<1> QED BY <1>1, <1>2

\* After a call has returned only goroutines nobody waits for take steps.
LEMMA ReturnedStays ==
  ASSUME PagingInv, [Next]_vars, pc = "returned"
  PROVE  UNCHANGED <<ledger, inputs, pc, held, result, history>> /\ failed \subseteq failed'
<1>1. CASE UNCHANGED vars
  BY <1>1 DEF vars
<1>2. ASSUME NEW i \in DOMAIN worker, Goroutine(i)
      PROVE  UNCHANGED <<ledger, inputs, pc, held, result, history>> /\ failed \subseteq failed'
  BY <1>2, GoroutineReports
<1>3. ~Caller /\ ~LedgerGrows
  BY DEF Caller, LedgerGrows, HandleTransactions, FirstAnswers, FirstFails, StartPages,
         PagesCollected, SingleAnswers, SingleFails, BlockAnswers, BlockFails, Fill, Collect
<1> QED BY <1>1, <1>2, <1>3 DEF Next, Finished

\* The steps that return an answer.
LEMMA Returns ==
  ASSUME PagingInv, [Next]_vars, pc # "returned", Ok'
  PROVE  /\ UNCHANGED <<ledger, inputs>>
         /\ \/ /\ FirstAnswers /\ result'.data = held'
               /\ limit = None \/ Len(held') >= limit
            \/ Fill /\ result'.data = held /\ ~(Len(held) < NumTransactions)
            \/ /\ Fetching /\ routine # "Block" /\ UNCHANGED <<held, history>>
               /\ failed' # {} \/ \E data : Answer(data) /\ result'.data = data \o held
<1>1. result.kind # "ok" /\ result'.kind = "ok"
  BY DEF PagingInv, Types, Ok
<1>2. CASE FirstAnswers
  BY <1>1, <1>2 DEF FirstAnswers, Return, ConcurrentFrom
<1>3. CASE Fill
  BY <1>1, <1>3 DEF Fill, Return, ConcurrentFrom
<1>4. ASSUME pc \in {"single", "collect"}, NEW data, Continue(data),
             UNCHANGED <<ledger, inputs, history>>
      PROVE  /\ Fetching /\ routine # "Block" /\ UNCHANGED <<held, history>>
             /\ result'.data = data \o held
  BY <1>1, <1>4 DEF Continue, Return, Fetching
<1>5. CASE SingleAnswers
  BY <1>4, <1>5, SingleAnswer DEF SingleAnswers
<1>6. CASE PagesCollected
  <2>1. PICK data \in Sortings(responses) : Continue(data)
    BY <1>6 DEF PagesCollected
  <2> QED BY <1>4, <1>6, <2>1, CollectedAnswer DEF PagesCollected
<1>7. ASSUME NEW i \in DOMAIN channels, Collect(i)
      PROVE  /\ UNCHANGED <<ledger, inputs>>
             /\ Fetching /\ routine # "Block" /\ UNCHANGED <<held, history>> /\ failed' # {}
  <2>1. pc = "collect" /\ UNCHANGED <<ledger, inputs, history>>
    BY <1>7 DEF Collect
  <2>2. NextMessage(channels[i]).err
    BY <1>1, <1>7 DEF Collect
  <2>3. Continue(<<>>)
    BY <1>7, <2>2 DEF Collect
  <2>4. failed' # {}
    BY <1>7, <2>2, CollectFailed
  <2> QED BY <1>4, <2>1, <2>3, <2>4
<1>8. ~(\/ HandleTransactions \/ FirstFails \/ StartPages \/ SingleFails \/ BlockAnswers \/ BlockFails
        \/ LedgerGrows \/ UNCHANGED vars)
  BY <1>1 DEF HandleTransactions, FirstFails, StartPages, SingleFails, BlockAnswers, BlockFails,
              LedgerGrows, Return, ConcurrentFrom, vars
<1>9. ASSUME NEW i \in DOMAIN worker
      PROVE  ~Goroutine(i)
  BY <1>1, <1>9, GoroutineReports
<1>10. UNCHANGED <<ledger, inputs>>
  BY <1>2, <1>3, <1>5, <1>6, <1>7, <1>8, <1>9 DEF Next, Caller, Finished, FirstAnswers, Fill,
     SingleAnswers, PagesCollected
<1> QED BY <1>2, <1>3, <1>5, <1>6, <1>7, <1>8, <1>9, <1>10 DEF Next, Caller, Finished

\* With start and limit known the answer is the range asked for and nothing
\* else, in order, however the pages came in and the ledger grew.
THEOREM PagingKnownStartIsExact == Spec => []KnownStartIsExact
<1>1. Init => KnownStartIsExact
  BY DEF Init, NoResult, KnownStartIsExact, Ok
<1>2. PagingInv /\ KnownStartIsExact /\ [Next]_vars => KnownStartIsExact'
  <2> SUFFICES ASSUME PagingInv, KnownStartIsExact, [Next]_vars, Ok',
                      start' # None, limit' # None, start' + limit' <= Modulus, failed' = {}
               PROVE  /\ Ascending(result'.data)
                      /\ Range(result'.data) \subseteq Asked'
                      /\ PageSize <= NodeMax =>
                           {v \in Asked' : v < seenLength'} \subseteq Range(result'.data)
    BY DEF KnownStartIsExact
  <2>1. CASE pc = "returned"
    <3>1. UNCHANGED <<ledger, inputs, pc, held, result, history>> /\ failed \subseteq failed'
      BY <2>1, ReturnedStays
    <3>2. /\ UNCHANGED <<routine, start, limit, seenLength>> /\ failed = {} /\ Ok
      BY <3>1 DEF inputs, history, Ok
    <3>3. Asked' = Asked
      BY <3>1, <3>2 DEF Asked, Account
    <3> QED BY <3>1, <3>2, <3>3 DEF KnownStartIsExact
  <2>2. CASE pc # "returned"
    <3>1. UNCHANGED <<ledger, inputs>> /\ Types /\ CallerInv
      BY <2>2, Returns DEF PagingInv
    <3>2. start # None /\ limit # None /\ start + limit <= Modulus /\ UNCHANGED <<routine, start, limit>>
      BY <3>1 DEF inputs
    <3>3. ~FirstAnswers /\ ~Fill
      BY <3>1, <3>2 DEF FirstAnswers, Fill, CallerInv, Known
    <3>4. PICK data : /\ Fetching /\ routine # "Block" /\ UNCHANGED <<held, history>>
                      /\ Answer(data) /\ result'.data = data \o held
      BY <2>2, <3>3, Returns
    <3>5. from = start /\ count = limit /\ held = <<>>
      BY <3>1, <3>2, <3>4 DEF CallerInv, Known
    <3>6. result'.data = data /\ data \in Seq(Stored)
      <4>1. \A S : \A s \in Seq(S) : s \o <<>> = s
        OBVIOUS
      <4>2. data \in Seq(Stored)
        BY <3>4 DEF Answer
      <4> QED BY <3>4, <3>5, <4>1, <4>2
    <3>7. IsExact(List, seenLength, data, start, limit) /\ Ascends(data)
      BY <3>2, <3>4, <3>5 DEF Answer
    <3>8. /\ DOMAIN data = 1 .. Len(data) /\ Len(data) \in Nat
          /\ DOMAIN List = 1 .. Len(List) /\ Len(List) \in Nat
          /\ start \in Nat /\ limit \in Nat /\ \A k \in 1 .. Len(List) : List[k] \in Nat
      <4>1. /\ List \in Seq(Nat) /\ start \in Nat /\ limit \in Nat
        BY <3>1, <3>2, ListFacts, PagingAssumption DEF Types
      <4>2. \A S : \A s \in Seq(S) : DOMAIN s = 1 .. Len(s) /\ Len(s) \in Nat
                                     /\ \A k \in 1 .. Len(s) : s[k] \in S
        OBVIOUS
      <4> QED BY <3>6, <4>1, <4>2
    <3>9. Asked' = {List[p] : p \in {j \in DOMAIN List : start < j /\ j <= start + limit}}
      BY <3>1, <3>2 DEF Asked, Account, List, ListOf
    <3>10. \A p : p \in start + 1 .. start + limit /\ p <= Len(List)
                  <=> p \in DOMAIN List /\ start < p /\ p <= start + limit
      BY <3>8
    <3>11. Ascending(data)
      <4>1. \A k \in 1 .. Len(data) - 1 : k \in 1 .. Len(data) /\ k + 1 \in 1 .. Len(data) /\ k < k + 1
        BY <3>8
      <4> QED BY <3>7, <4>1 DEF Ascending, Ascends
    <3>12. Range(data) \subseteq Asked'
      <4>1. ASSUME NEW k \in 1 .. Len(data)
            PROVE  data[k] \in Asked'
        <5>1. PICK p \in start + 1 .. start + limit : p <= Len(List) /\ data[k] = List[p]
          BY <3>7 DEF IsExact
        <5>2. p \in {j \in DOMAIN List : start < j /\ j <= start + limit}
          BY <3>10, <5>1
        <5> QED BY <3>9, <5>1, <5>2
      <4> QED BY <3>8, <4>1 DEF Range
    <3>13. ASSUME PageSize <= NodeMax
           PROVE  {v \in Asked' : v < seenLength} \subseteq Range(data)
      <4>1. ASSUME NEW v \in Asked', v < seenLength
            PROVE  v \in Range(data)
        <5>1. PICK p \in {j \in DOMAIN List : start < j /\ j <= start + limit} : v = List[p]
          BY <3>9
        <5>2. p \in start + 1 .. start + limit /\ p <= Len(List) /\ List[p] < seenLength
          BY <3>10, <4>1, <5>1
        <5>3. PICK k \in 1 .. Len(data) : data[k] = List[p]
          BY <3>7, <3>13, <5>2 DEF IsExact
        <5> QED BY <3>8, <5>1, <5>3 DEF Range
      <4> QED BY <4>1
    <3>14. seenLength' = seenLength
      BY <3>4 DEF history
    <3> QED BY <3>6, <3>11, <3>12, <3>13, <3>14
  <2> QED BY <2>1, <2>2
<1> QED BY <1>1, <1>2, PagingInvariant, PTL DEF Spec

\* Nothing is held twice of a list whose places are held once.
LEMMA PlacesOnce ==
  ASSUME NEW list \in Seq(Nat), Ascends(list), NEW before \in Nat, NEW data, NEW n \in Nat,
         \A k \in 1 .. n : before + k <= Len(list) /\ data[k] = list[before + k]
  PROVE  /\ \A j, k \in 1 .. n : data[j] = data[k] => j = k
         /\ \A k \in 1 .. n - 1 : data[k] < data[k + 1]
<1>1. Len(list) \in Nat /\ \A p \in 1 .. Len(list) : list[p] \in Nat
  OBVIOUS
<1>2. \A k \in 1 .. n : before + k \in 1 .. Len(list) /\ data[k] = list[before + k]
  BY <1>1
<1>3. \A j, k \in 1 .. n : j < k => data[j] < data[k]
  <2>1. \A j, k \in 1 .. n : j < k => before + j < before + k
    OBVIOUS
  <2> QED BY <1>2, <2>1 DEF Ascends
<1>4. \A k \in 1 .. n : data[k] \in Nat
  BY <1>1, <1>2
<1>5. \A j, k \in 1 .. n : data[j] = data[k] => j = k
  <2>1. \A j, k \in 1 .. n : j < k => data[j] # data[k]
    BY <1>3, <1>4
  <2>2. \A j, k \in 1 .. n : j < k \/ k < j \/ j = k
    OBVIOUS
  <2> QED BY <2>1, <2>2
<1>6. \A k \in 1 .. n - 1 : k \in 1 .. n /\ k + 1 \in 1 .. n /\ k < k + 1
  OBVIOUS
<1> QED BY <1>3, <1>5, <1>6

\* What an answer is without a start, when one page was not enough: for an
\* account the one transaction missing, if it is one, is before the page.
LEMMA MissingOne ==
  ASSUME PagingInv, Fetching, ~Known, Account, count = 1,
         SequenceNumber(ledger, held[1]) > 0, NEW data, Answer(data)
  PROVE  Ascending(data \o held) /\ Len(data \o held) = 1 + Len(held)
<1> DEFINE before == SequenceNumber(ledger, held[1])
           all == data \o held
<1>1. /\ Types /\ HeldOfAccount /\ Len(held) > 0 /\ held \in Seq(Stored) /\ data \in Seq(Stored)
  BY DEF PagingInv, CallerInv, Types, Answer
<1>2. Len(List) \in Nat /\ Len(ledger) \in Nat /\ Len(List) <= Len(ledger) /\ List \in Seq(Nat)
      /\ Ascends(List)
  BY <1>1, ListFacts, OwnLength
<1>3. MaxLength \in Nat /\ MaxLength < Modulus /\ Modulus \in Nat \ {0} /\ Len(ledger) <= MaxLength
  BY <1>1, PagingAssumption DEF Types
<1>4. /\ Len(data) \in Nat /\ Len(held) \in Nat /\ Len(all) = Len(data) + Len(held)
      /\ \A k \in 1 .. Len(held) : all[Len(data) + k] = held[k]
      /\ \A k \in 1 .. Len(data) : all[k] = data[k]
  BY <1>1, HeldTyped
<1>5. before \in Nat /\ before > 0
  <2>1. ledger \in Seq(BOOLEAN)
    BY <1>1 DEF Types
  <2>2. {w \in OwnVersions(ledger) : w < held[1]} \in SUBSET OwnVersions(ledger)
    OBVIOUS
  <2> QED BY <2>1, <2>2, SequenceNumbers, FS_Subset, FS_CardinalityType DEF SequenceNumber
<1> HIDE DEF before, all
<1>6. /\ from = (before + Modulus - 1) % Modulus
      /\ \A k \in 1 .. Len(held) : before + k <= Len(List) /\ held[k] = List[before + k]
  BY <1>1 DEF HeldOfAccount, before
<1>7. before + 1 <= Len(List)
  <2>1. 1 \in 1 .. Len(held)
    BY <1>1, <1>4
  <2> QED BY <1>6, <2>1
<1>8. from = before - 1
  <2>1. before - 1 \in 0 .. Modulus - 1 /\ before + Modulus - 1 = (before - 1) + Modulus
    BY <1>2, <1>3, <1>5, <1>7
  <2>2. \A m \in Nat \ {0} : \A a \in 0 .. m - 1 : (a + m) % m = a
    OBVIOUS
  <2> QED BY <1>3, <1>6, <2>1, <2>2
<1>9. Len(data) = 1 /\ data[1] = List[before]
  <2>1. from < Len(List) /\ from + 1 = before
    BY <1>2, <1>5, <1>7, <1>8
  <2> QED BY <2>1 DEF Answer
<1> DEFINE b == before - 1
           n == 1 + Len(held)
<1>10. b \in Nat /\ n \in Nat /\ Len(all) = n
  BY <1>4, <1>5, <1>9
<1>11. ASSUME NEW k \in 1 .. n
       PROVE  b + k <= Len(List) /\ all[k] = List[b + k]
  <2>1. CASE k = 1
    <3>1. 1 \in 1 .. Len(data) /\ b + 1 = before
      BY <1>5, <1>9
    <3> QED BY <1>2, <1>4, <1>5, <1>7, <1>9, <2>1, <3>1
  <2>2. CASE k # 1
    <3>1. k - 1 \in 1 .. Len(held) /\ 1 + (k - 1) = k /\ b + k = before + (k - 1)
      BY <1>4, <1>5, <2>2
    <3>2. all[1 + (k - 1)] = held[k - 1]
      BY <1>4, <1>9, <3>1
    <3> QED BY <1>6, <3>1, <3>2
  <2> QED BY <2>1, <2>2
<1> HIDE DEF b, n
<1>12. \A k \in 1 .. n - 1 : all[k] < all[k + 1]
  BY <1>2, <1>10, <1>11, PlacesOnce
<1> QED BY <1>10, <1>12 DEF Ascending, all, n

\* An answer that one page did not fill repeats a transaction, or precedes the
\* page of an account by exactly the one that was missing.
THEOREM PagingNoStartFillsOnlyOnePage == Spec => []NoStartFillsOnlyOnePage
<1>1. Init => NoStartFillsOnlyOnePage
  BY DEF Init, NoResult, NoStartFillsOnlyOnePage, Ok
<1>2. PagingInv /\ NoStartFillsOnlyOnePage /\ [Next]_vars => NoStartFillsOnlyOnePage'
  <2> DEFINE data == result'.data
  <2> SUFFICES ASSUME PagingInv, NoStartFillsOnlyOnePage, [Next]_vars, Ok',
                      start' = None, limit' # None, failed' = {}
               PROVE  IF routine' = "Transactions"
                      THEN IsInjective(data) <=> heldLength' >= limit'
                      ELSE (heldLength' >= limit' - 1 /\ held' # <<>>
                              /\ SequenceNumber(ledger', held'[1]) > 0)
                             => (Ascending(data) /\ Len(data) = limit')
    BY DEF NoStartFillsOnlyOnePage
  <2>1. CASE pc = "returned"
    <3>1. UNCHANGED <<ledger, inputs, pc, held, result, history>> /\ failed \subseteq failed'
      BY <2>1, ReturnedStays
    <3>2. UNCHANGED <<routine, start, limit, heldLength>> /\ failed = {} /\ Ok
      BY <3>1 DEF inputs, history, Ok
    <3>3. IF routine = "Transactions"
          THEN IsInjective(result.data) <=> heldLength >= limit
          ELSE (heldLength >= limit - 1 /\ held # <<>> /\ SequenceNumber(ledger, held[1]) > 0)
                 => (Ascending(result.data) /\ Len(result.data) = limit)
      BY <3>1, <3>2 DEF NoStartFillsOnlyOnePage
    <3> QED BY <3>1, <3>2, <3>3
  <2>2. CASE pc # "returned"
    <3>1. UNCHANGED <<ledger, inputs>> /\ Types /\ CallerInv
      BY <2>2, Returns DEF PagingInv
    <3>2. start = None /\ limit # None /\ UNCHANGED <<routine, start, limit>> /\ limit \in Nat
      <4>1. limit \in (0 .. Modulus - 1) \union {None}
        BY <3>1 DEF Types
      <4> QED BY <3>1, <4>1, PagingAssumption DEF inputs
    <3>3. List \in Seq(Nat) /\ Ascends(List)
      BY <3>1, ListFacts
    <3>4. CASE FirstAnswers /\ data = held' /\ (limit = None \/ Len(held') >= limit)
      <4> DEFINE txns == PageOf(ledger, Account, start, limit)
      <4>1. held' = txns /\ heldLength' = Len(txns) /\ pc = "first"
        BY <3>4 DEF FirstAnswers
      <4>2. /\ txns \in Seq(Stored) /\ Len(txns) \in Nat /\ Len(txns) <= limit
            /\ \E before \in Nat :
                 /\ before + Len(txns) = Len(List)
                 /\ \A k \in 1 .. Len(txns) : txns[k] = List[before + k]
        BY <3>1, <3>2, <4>1, FirstPage
      <4> HIDE DEF txns
      <4>3. data = txns /\ Len(txns) = limit
        BY <3>2, <3>4, <4>1, <4>2
      <4>4. PICK before \in Nat : /\ before + Len(txns) = Len(List)
                                  /\ \A k \in 1 .. Len(txns) : txns[k] = List[before + k]
        BY <4>2
      <4>5. \A k \in 1 .. Len(txns) : before + k <= Len(List) /\ txns[k] = List[before + k]
        <5>1. \A k \in 1 .. Len(txns) : before + k <= before + Len(txns)
          BY <4>2
        <5> QED BY <4>4, <5>1
      <4>6. /\ \A j, k \in 1 .. Len(txns) : txns[j] = txns[k] => j = k
            /\ \A k \in 1 .. Len(txns) - 1 : txns[k] < txns[k + 1]
        BY <3>3, <4>2, <4>5, PlacesOnce
      <4>7. DOMAIN txns = 1 .. Len(txns)
        <5>1. \A S : \A s \in Seq(S) : DOMAIN s = 1 .. Len(s)
          OBVIOUS
        <5> QED BY <4>2, <5>1
      <4>8. IsInjective(txns) /\ Ascending(txns)
        BY <4>6, <4>7 DEF IsInjective, Ascending
      <4> QED BY <3>2, <4>1, <4>2, <4>3, <4>8
    <3>5. ~Fill
      BY <3>1, <3>2 DEF Fill, CallerInv
    <3>6. CASE /\ Fetching /\ routine # "Block" /\ UNCHANGED <<held, history>>
               /\ \E d : Answer(d) /\ data = d \o held
      <4>1. PICK d : Answer(d) /\ data = d \o held
        BY <3>6
      <4>2. /\ Len(held) > 0 /\ heldLength = Len(held) /\ count = limit - Len(held) /\ count > 0
            /\ ~Known /\ heldLength' = heldLength /\ held' = held
            /\ ~Account => from = held[Len(held)]
        BY <3>1, <3>2, <3>6 DEF CallerInv, Known, history
      <4>3. /\ d \in Seq(Stored) /\ data \in Seq(Stored)
            /\ Len(d) \in Nat /\ Len(held) \in Nat /\ Len(data) = Len(d) + Len(held)
            /\ \A k \in 1 .. Len(held) : data[Len(d) + k] = held[k]
            /\ \A k \in 1 .. Len(d) : data[k] = d[k]
        BY <3>1, <4>1, HeldTyped DEF Answer
      <4>4. CASE routine = "Transactions"
        <5>1. ~Account
          BY <4>4 DEF Account
        <5>2. PICK k \in 1 .. Len(d) : d[k] = held[Len(held)]
          BY <4>1, <4>2, <5>1 DEF Answer
        <5>3. Len(held) \in 1 .. Len(held) /\ k # Len(d) + Len(held)
          BY <4>2, <4>3
        <5>4. data[k] = data[Len(d) + Len(held)]
          BY <4>3, <5>2, <5>3
        <5>5. k \in DOMAIN data /\ Len(d) + Len(held) \in DOMAIN data
          <6>1. \A S : \A s \in Seq(S) : DOMAIN s = 1 .. Len(s)
            OBVIOUS
          <6>2. DOMAIN data = 1 .. Len(data)
            BY <4>3, <6>1
          <6> QED BY <4>2, <4>3, <6>2
        <5>6. ~IsInjective(data)
          BY <5>3, <5>4, <5>5 DEF IsInjective
        <5>7. ~(heldLength' >= limit')
          BY <3>2, <4>2, <4>3
        <5> QED BY <3>2, <4>4, <5>6, <5>7
      <4>5. CASE routine # "Transactions"
        <5>1. Account
          BY <3>1, <3>6, <4>5 DEF Account, Types
        <5>2. ASSUME heldLength' >= limit' - 1, SequenceNumber(ledger', held'[1]) > 0
              PROVE  Ascending(data) /\ Len(data) = limit'
          <6>1. count = 1 /\ limit = 1 + Len(held)
            BY <3>2, <4>2, <4>3, <5>2
          <6>2. SequenceNumber(ledger, held[1]) > 0
            BY <3>1, <4>2, <5>2
          <6>3. Ascending(d \o held) /\ Len(d \o held) = 1 + Len(held)
            BY <3>6, <4>1, <4>2, <5>1, <6>1, <6>2, MissingOne
          <6> QED BY <3>2, <4>1, <6>1, <6>3
        <5> QED BY <3>2, <4>5, <5>2
      <4> QED BY <4>4, <4>5
    <3> QED BY <2>2, <3>4, <3>5, <3>6, Returns
  <2> QED BY <2>1, <2>2
<1> QED BY <1>1, <1>2, PagingInvariant, PTL DEF Spec

\* What holds as many transactions as the block has, one of them twice, lacks
\* another.
LEMMA TwiceLacks ==
  ASSUME NEW a \in Nat, NEW b \in Nat, a <= b, NEW data \in Seq(Nat), Len(data) = b - a + 1,
         Range(data) = a .. b
  PROVE  \A j, k \in 1 .. Len(data) : data[j] = data[k] => j = k
<1> DEFINE D == 1 .. Len(data)
           T == a .. b
<1>1. Len(data) \in Nat /\ DOMAIN data = D
  OBVIOUS
<1>2. /\ IsFiniteSet(D) /\ Cardinality(D) = Len(data)
      /\ IsFiniteSet(T) /\ Cardinality(T) = Len(data)
  <2>1. /\ 1 \in Int /\ Len(data) \in Int
        /\ (IF 1 > Len(data) THEN 0 ELSE Len(data) - 1 + 1) = Len(data)
    BY <1>1
  <2>2. (IF a > b THEN 0 ELSE b - a + 1) = Len(data)
    OBVIOUS
  <2> QED BY <2>1, <2>2, FS_Interval
<1>3. data \in Surjection(D, T)
  <2>1. data = [i \in D |-> data[i]]
    BY <1>1
  <2>2. \A i \in D : data[i] \in Range(data)
    BY <1>1 DEF Range
  <2>3. data \in [D -> T]
    BY <2>1, <2>2
  <2>4. \A t \in T : \E i \in D : data[i] = t
    BY <1>1 DEF Range
  <2> QED BY <2>3, <2>4 DEF Surjection
<1> HIDE DEF D, T
<1>4. data \in Injection(D, T)
  BY <1>2, <1>3, FS_SurjSameCardinalityImpliesInj
<1> QED BY <1>1, <1>4 DEF Injection, IsInjective, D

\* A block is returned with as many transactions as it has, and with all of
\* them only if the first answer had them all.
THEOREM PagingBlockIsWholeOrRepeats == Spec => []BlockIsWholeOrRepeats
<1>1. Init => BlockIsWholeOrRepeats
  BY DEF Init, NoResult, BlockIsWholeOrRepeats, Ok
<1>2. PagingInv /\ BlockIsWholeOrRepeats /\ [Next]_vars => BlockIsWholeOrRepeats'
  <2> SUFFICES ASSUME PagingInv, BlockIsWholeOrRepeats, [Next]_vars, Ok', routine' = "Block"
               PROVE  /\ Len(result'.data) = NumTransactions'
                      /\ Range(result'.data) = block'.first .. block'.last
                           <=> heldLength' = NumTransactions'
    BY DEF BlockIsWholeOrRepeats
  <2>1. CASE pc = "returned"
    <3>1. UNCHANGED <<ledger, inputs, pc, held, result, history>>
      BY <2>1, ReturnedStays
    <3>2. UNCHANGED <<routine, block, heldLength>> /\ NumTransactions' = NumTransactions /\ Ok
      BY <3>1 DEF inputs, history, Ok, NumTransactions
    <3> QED BY <3>1, <3>2 DEF BlockIsWholeOrRepeats
  <2>2. CASE pc # "returned"
    <3>1. UNCHANGED <<ledger, inputs>> /\ Types /\ CallerInv
      BY <2>2, Returns DEF PagingInv
    <3>2. routine = "Block" /\ block' = block /\ NumTransactions' = NumTransactions
      BY <3>1 DEF inputs, NumTransactions
    <3>3. Fill /\ result'.data = held /\ ~(Len(held) < NumTransactions)
      <4>1. ~FirstAnswers
        BY <3>1, <3>2 DEF FirstAnswers, CallerInv
      <4> QED BY <2>2, <3>2, <4>1, Returns
    <3>4. HeldOfBlock /\ heldLength' = heldLength
      BY <3>1, <3>3 DEF Fill, CallerInv, history
    <3>5. /\ block.first \in Nat /\ block.last \in Nat /\ block.first <= block.last
          /\ held \in Seq(Nat) /\ Len(held) \in Nat /\ heldLength \in Nat /\ DOMAIN held = 1 .. Len(held)
      <4>1. \A S, T, s : S \subseteq T /\ s \in Seq(S) => s \in Seq(T)
        OBVIOUS
      <4>2. held \in Seq(Nat)
        BY <3>1, <4>1, ListFacts DEF Types
      <4> QED BY <3>1, <4>2 DEF Types
    <3>6. Len(held) = NumTransactions /\ NumTransactions = block.last - block.first + 1
      <4>1. NumTransactions = block.last - block.first + 1 /\ NumTransactions \in Int
        BY <3>5 DEF NumTransactions
      <4>2. Len(held) <= NumTransactions
        BY <3>4 DEF HeldOfBlock
      <4> QED BY <3>3, <3>5, <4>1, <4>2
    <3>7. ASSUME heldLength = NumTransactions
          PROVE  Range(held) = block.first .. block.last
      <4>1. \A k \in 1 .. Len(held) : held[k] = block.first + k - 1
        BY <3>4, <3>6, <3>7 DEF HeldOfBlock
      <4>2. \A k \in 1 .. Len(held) : held[k] \in block.first .. block.last
        BY <3>5, <3>6, <4>1
      <4>3. ASSUME NEW v \in block.first .. block.last
            PROVE  \E k \in 1 .. Len(held) : held[k] = v
        <5>1. v - block.first + 1 \in 1 .. Len(held)
              /\ block.first + (v - block.first + 1) - 1 = v
          BY <3>5, <3>6
        <5> QED BY <4>1, <5>1
      <4> QED BY <3>5, <4>2, <4>3 DEF Range
    <3>8. ASSUME Range(held) = block.first .. block.last
          PROVE  heldLength = NumTransactions
      <4>1. \A j, k \in 1 .. Len(held) : held[j] = held[k] => j = k
        <5> DEFINE a == block.first
                   b == block.last
        <5>1. a \in Nat /\ b \in Nat /\ a <= b
          BY <3>5
        <5>2. held \in Seq(Nat) /\ Len(held) = b - a + 1 /\ Range(held) = a .. b
          BY <3>5, <3>6, <3>8
        <5> HIDE DEF a, b
        <5> QED BY <5>1, <5>2, TwiceLacks
      <4>2. ~(heldLength < Len(held))
        BY <3>4, <4>1 DEF HeldOfBlock
      <4> QED BY <3>4, <3>5, <3>6, <4>2 DEF HeldOfBlock
    <3> QED BY <3>2, <3>3, <3>4, <3>6, <3>7, <3>8
  <2> QED BY <2>1, <2>2
<1> QED BY <1>1, <1>2, PagingInvariant, PTL DEF Spec

\* No goroutine of the pages waits to report, whether or not somebody will
\* ever collect its page, and the caller waits for no page that nobody brings.
NeverStuck ==
  /\ \A i \in DOMAIN worker : worker[i] = "running" => CanReport(i)
  /\ pc = "collect" /\ collected < NumPages =>
       /\ collected \in DOMAIN worker
       /\ worker[collected] = "running" \/ HasMessage(channels[collected])

\* No goroutine is ever held up by a caller that stopped collecting, and the
\* caller never waits for a page that will not come: what CallsEnd rests on.
THEOREM PagingNeverStuck == Spec => []NeverStuck
<1>1. PagingInv => NeverStuck
  <2> SUFFICES ASSUME PagingInv
               PROVE  NeverStuck
    OBVIOUS
  <2>1. ASSUME NEW i \in DOMAIN worker, worker[i] = "running"
        PROVE  CanReport(i)
    BY <2>1 DEF PagingInv, HandOverInv, PageInv, CanReport, HasRoom, NewChannel
  <2>2. ASSUME pc = "collect", collected < NumPages
        PROVE  /\ collected \in DOMAIN worker
               /\ worker[collected] = "running" \/ HasMessage(channels[collected])
    <3>1. collected \in Nat /\ NumPages \in Nat
      BY PagesNumber DEF PagingInv, Types
    <3>2. collected \in DOMAIN worker
      BY <2>2, <3>1 DEF PagingInv, HandOverInv
    <3>3. collected >= collected
      BY <3>1
    <3>4. ASSUME worker[collected] # "running"
          PROVE  HasMessage(channels[collected])
      <4>1. channels[collected] = [buf |-> <<NextMessage(channels[collected])>>, closed |-> FALSE]
        BY <2>2, <3>2, <3>3, <3>4 DEF PagingInv, HandOverInv, PageInv
      <4>2. \A m : <<m>> # <<>>
        OBVIOUS
      <4> QED BY <4>1, <4>2 DEF HasMessage
    <3> QED BY <3>2, <3>4
  <2> QED BY <2>1, <2>2 DEF NeverStuck
<1> QED BY <1>1, PagingInvariant, PTL

\* The pages asked for at once make up what was asked for, without gap or
\* overlap, whatever the size of a page.
THEOREM PagingPagesTile == Spec => []PagesTile
<1>1. PagingInv => PagesTile
  <2> SUFFICES ASSUME count \in Nat
               PROVE  PagesTile
    BY DEF PagingInv, Types
  <2>1. ASSUME NEW i \in 0 .. NumPages - 1
        PROVE  /\ PageLimit(i) \in 1 .. PageSize
               /\ \A k \in Nat : Covers(i, k) => k < count
    <3>1. /\ i * PageSize \in Nat /\ PageLimit(i) \in 1 .. PageSize
          /\ i * PageSize + PageLimit(i) <= count
      BY PageBounds
    <3> QED BY <3>1, PagingAssumption DEF Covers
  <2>2. ASSUME NEW k \in 0 .. count - 1
        PROVE  \E i \in 0 .. NumPages - 1 :
                 Covers(i, k) /\ \A j \in 0 .. NumPages - 1 : Covers(j, k) => j = i
    <3>1. k \in Nat
      OBVIOUS
    <3>2. k \div PageSize \in 0 .. NumPages - 1 /\ Covers(k \div PageSize, k)
      BY PagesCover
    <3> QED BY <3>1, <3>2, PagesApart
  <2> QED BY <2>1, <2>2 DEF PagesTile
<1> QED BY <1>1, PagingInvariant, PTL

-----------------------------------------------------------------------------
(* A page that failed.                                                      *)

\* Until the pages are asked for none has failed; while they are collected one
\* that failed is still to be collected, so that the collection cannot end; and
\* when the caller has returned what it collected, no page is left to fail.
FailureInv ==
  routine # "Block" =>
    /\ pc \notin {"collect", "returned"} => DOMAIN worker = {} /\ "page" \notin failed
    /\ pc = "collect" /\ "page" \in failed =>
         \E i \in DOMAIN worker :
           i >= collected /\ worker[i] # "running" /\ NextMessage(channels[i]).err
    /\ Ok => \/ result.data = held
             \/ "page" \notin failed /\ \A i \in DOMAIN worker : worker[i] # "running"

\* Before a call nothing has failed.
LEMMA InitFailure == Init => FailureInv
<1> SUFFICES ASSUME Init
             PROVE  FailureInv
  OBVIOUS
<1>1. pc = "call" /\ worker = <<>> /\ failed = {} /\ result.kind = "none"
  BY DEF Init, NoResult
<1>2. DOMAIN <<>> = {}
  OBVIOUS
<1> QED BY <1>1, <1>2 DEF FailureInv, Ok

\* Before the pages are asked for there are no goroutines, and no page fails.
LEMMA EarlyFailure ==
  ASSUME PagingInv, FailureInv, routine # "Block",
         \/ HandleTransactions \/ FirstAnswers \/ FirstFails \/ StartPages
         \/ SingleAnswers \/ SingleFails
  PROVE  FailureInv'
<1>1. UNCHANGED routine /\ pc \notin {"collect", "returned"}
  BY DEF HandleTransactions, FirstAnswers, FirstFails, StartPages, SingleAnswers, SingleFails, inputs
<1>2. DOMAIN worker = {} /\ "page" \notin failed /\ ~Ok
  BY <1>1 DEF PagingInv, Types, FailureInv, Ok
<1>3. "page" \notin failed'
  BY <1>2 DEF HandleTransactions, FirstAnswers, FirstFails, StartPages, SingleAnswers, SingleFails
<1>4. CASE StartPages
  <2>1. result' = result /\ (pc' = "collect" \/ worker' = worker)
    BY <1>4 DEF StartPages
  <2> QED BY <1>2, <1>3, <2>1 DEF FailureInv, Ok
<1>5. CASE ~StartPages
  <2>1. worker' = worker /\ pc' # "collect"
    BY <1>5 DEF HandleTransactions, FirstAnswers, FirstFails, SingleAnswers, SingleFails, pages,
                Continue, Return, ConcurrentFrom
  <2> QED BY <1>2, <1>3, <2>1 DEF FailureInv
<1> QED BY <1>4, <1>5

\* A page reports its failure before anybody can know of it.
LEMMA GoroutineFailure ==
  ASSUME PagingInv, FailureInv, routine # "Block", NEW i \in DOMAIN worker, Goroutine(i)
  PROVE  FailureInv'
<1>1. /\ worker[i] = "running" /\ worker'[i] = "ended"
      /\ DOMAIN worker' = DOMAIN worker
      /\ \A j \in DOMAIN worker : j # i => worker'[j] = worker[j] /\ channels'[j] = channels[j]
      /\ failed' = failed \/ (failed' = failed \union {"page"} /\ NextMessage(channels'[i]).err)
      /\ UNCHANGED <<inputs, pc, held, collected, result>>
  BY GoroutineReports
<1>2. routine' = routine
  BY <1>1 DEF inputs
<1>3. pc \in {"collect", "returned"}
  BY DEF FailureInv
<1>4. pc = "collect" => i >= collected
  <2>1. pc = "collect" => i \in Int /\ collected \in Nat /\ ~(i < collected)
    BY <1>1, PagesNumber DEF PagingInv, Types, HandOverInv, PageInv
  <2> QED BY <2>1
<1>5. ASSUME pc = "collect", "page" \in failed'
      PROVE  \E j \in DOMAIN worker' :
               j >= collected' /\ worker'[j] # "running" /\ NextMessage(channels'[j]).err
  <2>1. CASE "page" \in failed
    <3>1. PICK j \in DOMAIN worker :
                 j >= collected /\ worker[j] # "running" /\ NextMessage(channels[j]).err
      BY <1>5, <2>1 DEF FailureInv
    <3>2. worker'[j] = worker[j] /\ channels'[j] = channels[j]
      BY <1>1, <3>1
    <3> QED BY <1>1, <3>1, <3>2
  <2>2. CASE "page" \notin failed
    <3>1. NextMessage(channels'[i]).err /\ i >= collected'
      BY <1>1, <1>4, <1>5, <2>2
    <3> QED BY <1>1, <3>1
  <2> QED BY <2>1, <2>2
<1>6. Ok' => result'.data = held'
  BY <1>1 DEF FailureInv, Ok
<1> QED BY <1>1, <1>3, <1>5, <1>6 DEF FailureInv

\* A page that failed ends the collection with what was held before; one that
\* did not leaves the failed one to come.
LEMMA CollectFailure ==
  ASSUME PagingInv, FailureInv, routine # "Block", NEW i \in DOMAIN channels, Collect(i)
  PROVE  FailureInv'
<1>1. /\ pc = "collect" /\ i = collected /\ DOMAIN worker = 0 .. NumPages - 1
      /\ DOMAIN channels = DOMAIN worker
      /\ \A j \in DOMAIN channels : j # i => channels'[j] = channels[j]
      /\ UNCHANGED <<inputs, worker, failed>>
  BY CollectedPage DEF PagingInv, HandOverInv
<1>2. /\ routine' = routine /\ ~Ok /\ collected \in Nat /\ NumPages \in Nat /\ held \in Seq(Stored)
  BY <1>1, PagesNumber DEF PagingInv, Types, Ok, inputs
<1>3. CASE NextMessage(channels[i]).err
  <2>1. pc' = "returned" /\ result'.data = <<>> \o held /\ held' = held
    BY <1>3 DEF Collect, Continue, Return
  <2>2. \A S : \A s \in Seq(S) : <<>> \o s = s
    OBVIOUS
  <2> QED BY <1>1, <1>2, <2>1, <2>2 DEF FailureInv
<1>4. CASE ~NextMessage(channels[i]).err
  <2>1. UNCHANGED <<pc, held, result>> /\ collected' = collected + 1
    BY <1>4 DEF Collect
  <2>2. ASSUME "page" \in failed
        PROVE  \E j \in DOMAIN worker :
                 j >= collected' /\ worker[j] # "running" /\ NextMessage(channels'[j]).err
    <3>1. PICK j \in DOMAIN worker :
                 j >= collected /\ worker[j] # "running" /\ NextMessage(channels[j]).err
      BY <1>1, <2>2 DEF FailureInv
    <3>2. j # i
      BY <1>4, <3>1
    <3>3. j >= collected' /\ channels'[j] = channels[j]
      BY <1>1, <1>2, <2>1, <3>1, <3>2
    <3> QED BY <3>1, <3>3
  <2> QED BY <1>1, <1>2, <2>1, <2>2 DEF FailureInv, Ok
<1> QED BY <1>3, <1>4

\* What was collected to the end was collected without a failure, from
\* goroutines that have all ended.
LEMMA CollectedFailure ==
  ASSUME PagingInv, FailureInv, routine # "Block", PagesCollected
  PROVE  FailureInv'
<1>1. /\ pc = "collect" /\ collected = NumPages /\ pc' = "returned"
      /\ UNCHANGED <<routine, worker, failed>>
  BY DEF PagesCollected, inputs, pages, Continue, Return
<1>2. \A i \in DOMAIN worker : i < collected /\ ~(i >= collected)
  BY <1>1, PagesNumber DEF PagingInv, Types, HandOverInv
<1>3. "page" \notin failed /\ \A i \in DOMAIN worker : worker[i] # "running"
  BY <1>1, <1>2 DEF PagingInv, HandOverInv, PageInv, FailureInv
<1> QED BY <1>1, <1>3 DEF FailureInv

\* Every page that failed is accounted for.
THEOREM PagingFailures == Spec => []FailureInv
<1>1. PagingInv /\ FailureInv /\ [Next]_vars => FailureInv'
  <2> SUFFICES ASSUME PagingInv, FailureInv, [Next]_vars, routine # "Block"
               PROVE  FailureInv'
    <3>1. [Next]_vars => routine' = routine
      BY DEF Next, Caller, Goroutine, Finished, vars, inputs, HandleTransactions, FirstAnswers,
             FirstFails, StartPages, PagesCollected, SingleAnswers, SingleFails, BlockAnswers,
             BlockFails, Fill, Collect, PageAnswers, PageFails, Report, LedgerGrows
    <3> QED BY <3>1 DEF FailureInv
  <2>1. CASE BlockAnswers \/ BlockFails \/ Fill
    BY <2>1 DEF BlockAnswers, BlockFails, Fill, PagingInv, CallerInv
  <2>2. CASE LedgerGrows \/ UNCHANGED vars
    BY <2>2 DEF LedgerGrows, vars, inputs, pages, FailureInv, Ok
  <2> QED BY <2>1, <2>2, EarlyFailure, GoroutineFailure, CollectFailure, CollectedFailure
          DEF Next, Caller, Finished
<1> QED BY <1>1, InitFailure, PagingInvariant, PTL DEF Spec

\* If one page fails the call gives none of them, whichever page it is and
\* whatever the others had already brought.
THEOREM PagingFailureIsAllOrNothing == Spec => []PageFailureIsAllOrNothing
<1>1. FailureInv => PageFailureIsAllOrNothing
  BY DEF FailureInv, PageFailureIsAllOrNothing
<1> QED BY <1>1, PagingFailures, PTL
==============================================================================

------------------------ MODULE PaymentReaderProofs ------------------------
(***************************************************************************)
(* Proofs that paging misses nothing and invents nothing, for every page   *)
(* size, every number of references and every interference between pages. *)
(***************************************************************************)
EXTENDS PaymentReader, SettlementSafetyProofs

-----------------------------------------------------------------------------
(* Enumerating positions.                                                   *)

\* Nth enumerates a finite set of positions completely and in order.
LEMMA NthEnumerates ==
    ASSUME NEW P \in SUBSET Nat, IsFiniteSet(P)
    PROVE  /\ Cardinality(P) \in Nat
           /\ \A k \in 1..Cardinality(P) : Nth(P, k) \in P
           /\ \A j, k \in 1..Cardinality(P) : j < k => Nth(P, j) < Nth(P, k)
           /\ \A i \in P : \E k \in 1..Cardinality(P) : Nth(P, k) = i
<1> DEFINE Below(i) == {j \in P : j <= i}
           rank(i) == Cardinality(Below(i))
           N == Cardinality(P)
           R == {rank(i) : i \in P}
<1>1. N \in Nat
  BY FS_CardinalityType
<1>2. ASSUME NEW i \in P
      PROVE  IsFiniteSet(Below(i)) /\ rank(i) \in 1..N
  <2>1. IsFiniteSet(Below(i)) /\ rank(i) <= N
    BY FS_Subset
  <2>2. rank(i) \in Nat
    BY <2>1, FS_CardinalityType
  <2>3. i \in Below(i)
    OBVIOUS
  <2>4. rank(i) # 0
    BY <2>1, <2>3, FS_EmptySet
  <2> HIDE DEF rank, N
  <2> QED
    BY <1>1, <2>1, <2>2, <2>4
<1>3. ASSUME NEW i \in P, NEW j \in P, i < j
      PROVE  rank(i) < rank(j)
  <2>1. Below(i) \in SUBSET Below(j)
    <3>1. \A x \in Nat : x <= i => x <= j
      <4>1. i \in Nat /\ j \in Nat
        OBVIOUS
      <4> QED
        BY <1>3, <4>1
    <3> QED
      BY <3>1
  <2>2. j \in Below(j) /\ j \notin Below(i)
    <3>1. i \in Nat /\ j \in Nat
      OBVIOUS
    <3> QED
      BY <1>3, <3>1
  <2>3. rank(i) <= rank(j) /\ (rank(j) = rank(i) => Below(j) = Below(i))
    BY <1>2, <2>1, FS_Subset
  <2>4. rank(i) # rank(j)
    <3>1. Below(j) # Below(i)
      BY <2>2
    <3> QED
      BY <2>3, <3>1
  <2>5. rank(i) \in Nat /\ rank(j) \in Nat
    BY <1>1, <1>2
  <2> HIDE DEF rank
  <2> QED
    BY <2>3, <2>4, <2>5
<1> HIDE DEF rank
<1>4. \A i, j \in P : rank(i) = rank(j) => i = j
  <2> SUFFICES ASSUME NEW i \in P, NEW j \in P, rank(i) = rank(j) PROVE i = j
    OBVIOUS
  <2>1. rank(i) \in Nat /\ rank(j) \in Nat
    <3>1. rank(i) \in 1..N /\ rank(j) \in 1..N
      BY <1>2
    <3> HIDE DEF N
    <3> QED
      BY <1>1, <3>1
  <2>2. ~(i < j) /\ ~(j < i)
    BY <1>3, <2>1
  <2>3. i \in Nat /\ j \in Nat
    OBVIOUS
  <2> QED
    BY <2>2, <2>3
<1>5. R = 1..N
  <2>1. R \in SUBSET (1..N)
    BY <1>2
  <2>2. IsFiniteSet(1..N) /\ Cardinality(1..N) = N
    BY <1>1, FS_Interval
  <2>3. /\ IsFiniteSet(R) /\ Cardinality(R) <= N
        /\ N = Cardinality(R) => 1..N = R
    BY <2>1, <2>2, FS_Subset
  <2>4. N <= Cardinality(R)
    <3> DEFINE f == [i \in P |-> rank(i)]
    <3>1. f \in Injection(P, R)
      BY <1>4 DEF Injection, IsInjective
    <3> QED
      BY <2>3, <3>1, FS_Injection
  <2>5. Cardinality(R) \in Nat
    BY <2>3, FS_CardinalityType
  <2> HIDE DEF N, R
  <2> QED
    BY <1>1, <2>3, <2>4, <2>5
<1>6. ASSUME NEW k \in 1..N
      PROVE  Nth(P, k) \in P /\ rank(Nth(P, k)) = k
  <2>1. \E i \in P : rank(i) = k
    BY <1>5
  <2> QED
    BY <2>1 DEF Nth, rank
<1>7. \A j, k \in 1..N : j < k => Nth(P, j) < Nth(P, k)
  <2> SUFFICES ASSUME NEW j \in 1..N, NEW k \in 1..N, j < k PROVE Nth(P, j) < Nth(P, k)
    OBVIOUS
  <2>1. Nth(P, j) \in Nat /\ Nth(P, k) \in Nat
    BY <1>6
  <2>2. Nth(P, j) # Nth(P, k)
    BY <1>6
  <2>3. ~(Nth(P, k) < Nth(P, j))
    <3>1. rank(Nth(P, j)) = j /\ rank(Nth(P, k)) = k /\ Nth(P, j) \in P /\ Nth(P, k) \in P
      BY <1>6
    <3>2. ~(k < j)
      BY <1>1
    <3> QED
      BY <1>3, <3>1, <3>2
  <2> QED
    BY <2>1, <2>2, <2>3
<1>8. \A i \in P : \E k \in 1..N : Nth(P, k) = i
  <2> SUFFICES ASSUME NEW i \in P PROVE \E k \in 1..N : Nth(P, k) = i
    OBVIOUS
  <2>1. rank(i) \in 1..N
    BY <1>2
  <2> QED
    BY <1>4, <1>6, <2>1
<1> QED
  BY <1>1, <1>6, <1>7, <1>8
-----------------------------------------------------------------------------
(* Lists of records.                                                        *)

\* A list of later positions can be appended to one of earlier positions.
LEMMA ListsConcat ==
    ASSUME NEW s \in Seq(PaymentRecord), NEW t \in Seq(PaymentRecord),
           NEW P \in SUBSET Nat, NEW Q \in SUBSET Nat, \A p \in P, q \in Q : p < q,
           Lists(s, P), Lists(t, Q)
    PROVE  Lists(s \o t, P \cup Q)
<1>1. PICK f \in [DOMAIN s -> P] :
         /\ \A j, k \in DOMAIN s : j < k => f[j] < f[k]
         /\ Range(f) = P
         /\ \A k \in DOMAIN s : s[k] = payments[Reader][Wanted[f[k]]]
  BY DEF Lists
<1>2. PICK g \in [DOMAIN t -> Q] :
         /\ \A j, k \in DOMAIN t : j < k => g[j] < g[k]
         /\ Range(g) = Q
         /\ \A k \in DOMAIN t : t[k] = payments[Reader][Wanted[g[k]]]
  BY DEF Lists
<1> DEFINE m == Len(s)
           n == Len(t)
           at == [k \in 1..(m + n) |-> IF k <= m THEN f[k] ELSE g[k - m]]
<1>3. m \in Nat /\ n \in Nat /\ DOMAIN s = 1..m /\ DOMAIN t = 1..n
  OBVIOUS
<1>4. /\ DOMAIN (s \o t) = 1..(m + n)
      /\ \A k \in 1..(m + n) : (s \o t)[k] = IF k <= m THEN s[k] ELSE t[k - m]
  OBVIOUS
<1> HIDE DEF m, n
<1>5. \A k \in 1..(m + n) : (k <= m => k \in 1..m) /\ (~(k <= m) => k - m \in 1..n)
  BY <1>3
<1>6. at \in [1..(m + n) -> P \cup Q]
  BY <1>1, <1>2, <1>3, <1>5
<1>7. ASSUME NEW j \in 1..(m + n), NEW k \in 1..(m + n), j < k
      PROVE  at[j] < at[k]
  <2>1. CASE k <= m
    BY <1>1, <1>3, <1>5, <1>7, <2>1
  <2>2. CASE j <= m /\ ~(k <= m)
    BY <1>1, <1>2, <1>3, <1>5, <2>2
  <2>3. CASE ~(j <= m) /\ ~(k <= m)
    <3>1. j - m \in 1..n /\ k - m \in 1..n /\ j - m < k - m
      BY <1>3, <1>5, <1>7, <2>3
    <3>2. at[j] = g[j - m] /\ at[k] = g[k - m]
      BY <2>3
    <3> QED
      BY <1>2, <1>3, <3>1, <3>2
  <2> QED
    BY <1>3, <1>7, <2>1, <2>2, <2>3
<1>8. Range(at) = P \cup Q
  <2>1. ASSUME NEW p \in P PROVE p \in Range(at)
    <3>1. PICK k \in 1..m : f[k] = p
      BY <1>1, <1>3 DEF Range
    <3>2. k \in 1..(m + n) /\ at[k] = p
      BY <1>3, <3>1
    <3> QED
      BY <3>2 DEF Range
  <2>2. ASSUME NEW q \in Q PROVE q \in Range(at)
    <3>1. PICK k \in 1..n : g[k] = q
      BY <1>2, <1>3 DEF Range
    <3>2. k + m \in 1..(m + n) /\ ~(k + m <= m) /\ (k + m) - m = k
      BY <1>3
    <3>3. at[k + m] = q
      BY <3>1, <3>2
    <3> QED
      BY <3>2, <3>3 DEF Range
  <2>3. Range(at) \subseteq P \cup Q
    BY <1>6 DEF Range
  <2> QED
    BY <2>1, <2>2, <2>3
<1>9. \A k \in 1..(m + n) : (s \o t)[k] = payments[Reader][Wanted[at[k]]]
  BY <1>1, <1>2, <1>3, <1>4, <1>5
<1> HIDE DEF at
<1>10. /\ at \in [DOMAIN (s \o t) -> P \cup Q]
       /\ \A j, k \in DOMAIN (s \o t) : j < k => at[j] < at[k]
       /\ \A k \in DOMAIN (s \o t) : (s \o t)[k] = payments[Reader][Wanted[at[k]]]
  BY <1>4, <1>6, <1>7, <1>9, Zenon
<1> QED
  BY <1>8, <1>10, Zenon DEF Lists

\* A list contains every record at its positions, and as many as there are.
LEMMA ListsAll ==
    ASSUME NEW s \in Seq(PaymentRecord), NEW P \in SUBSET Nat, Lists(s, P)
    PROVE  /\ \A i \in P : payments[Reader][Wanted[i]] \in Range(s)
           /\ IsFiniteSet(P) /\ Cardinality(P) = Len(s)
<1>1. PICK at \in [DOMAIN s -> P] :
         /\ \A j, k \in DOMAIN s : j < k => at[j] < at[k]
         /\ Range(at) = P
         /\ \A k \in DOMAIN s : s[k] = payments[Reader][Wanted[at[k]]]
  BY DEF Lists
<1>2. Len(s) \in Nat /\ DOMAIN s = 1..Len(s)
  OBVIOUS
<1>3. \A i \in P : payments[Reader][Wanted[i]] \in Range(s)
  <2> SUFFICES ASSUME NEW i \in P PROVE payments[Reader][Wanted[i]] \in Range(s)
    OBVIOUS
  <2>1. PICK k \in DOMAIN s : at[k] = i
    BY <1>1 DEF Range
  <2> QED
    BY <1>1, <2>1 DEF Range
<1>4. at \in Bijection(1..Len(s), P)
  <2>1. \A p \in P : \E k \in 1..Len(s) : at[k] = p
    BY <1>1, <1>2 DEF Range
  <2>2. ASSUME NEW j \in 1..Len(s), NEW k \in 1..Len(s), at[j] = at[k] PROVE j = k
    <3>1. \A x, y \in 1..Len(s) : x < y => at[x] < at[y]
      BY <1>1, <1>2
    <3>2. ~(at[j] < at[k]) /\ ~(at[k] < at[j])
      <4>1. at[j] \in Nat /\ at[k] \in Nat
        BY <1>1, <1>2
      <4> QED
        BY <2>2, <4>1
    <3>3. j \in Nat /\ k \in Nat
      OBVIOUS
    <3> QED
      BY <3>1, <3>2, <3>3
  <2> QED
    BY <1>1, <1>2, <2>1, <2>2 DEF Bijection, Injection, Surjection, IsInjective
<1>5. ASSUME NEW n \in Nat PROVE IsFiniteSet(1..n) /\ Cardinality(1..n) = n
  BY FS_Interval
<1> QED
  BY <1>2, <1>3, <1>4, <1>5, FS_Bijection DEF ExistsBijection
-----------------------------------------------------------------------------
(* A page.                                                                  *)

\* The positions from a to b with a record.
PresentIn(a, b) == {i \in a..b : Present(Wanted[i])}

\* The references of a page are the next ones wanted: MAX_PAYMENTS_BATCH of
\* them, or the rest.
LEMMA PageRefs ==
    ASSUME NEW c \in 0..Len(Wanted)
    PROVE  /\ page_refs(c) \in Seq(REF)
           /\ c + Len(page_refs(c)) <= Len(Wanted)
           /\ Len(page_refs(c)) # MAX_PAYMENTS_BATCH => c + Len(page_refs(c)) = Len(Wanted)
           /\ \A i \in 1..Len(page_refs(c)) : page_refs(c)[i] = Wanted[c + i]
<1> DEFINE last == IF c + MAX_PAYMENTS_BATCH < Len(Wanted)
                   THEN c + MAX_PAYMENTS_BATCH ELSE Len(Wanted)
<1>1. Wanted \in Seq(REF) /\ Len(Wanted) \in Nat /\ MAX_PAYMENTS_BATCH \in Nat
  BY ReaderAssumption
<1>2. last \in Nat /\ c <= last /\ last <= Len(Wanted) /\ c \in Nat
      /\ (last - c # MAX_PAYMENTS_BATCH => last = Len(Wanted))
  BY <1>1
<1>3. page_refs(c) = SubSeq(Wanted, c + 1, last)
  BY DEF page_refs
<1> HIDE DEF last
<1>4. c + 1 \in Nat /\ c + 1 <= last + 1 /\ last - c \in Nat
  BY <1>2
<1>5. SubSeq(Wanted, c + 1, last) \in Seq(REF)
  BY <1>1, <1>2, <1>4
<1>6. Len(SubSeq(Wanted, c + 1, last)) = last - c
  BY <1>1, <1>2, <1>4
<1>7. \A i \in 1..(last - c) : SubSeq(Wanted, c + 1, last)[i] = Wanted[c + i]
  BY <1>1, <1>2, <1>4
<1> QED
  BY <1>1, <1>2, <1>3, <1>5, <1>6, <1>7

\* The page at c lists the records of its references, and its next_cursor is
\* where they end, or None once all that is wanted was sent.
LEMMA Page ==
    ASSUME TypeOK, NEW c \in 0..Len(Wanted)
    PROVE  LET page == payments_page(Reader, page_refs(c), c)
               n == Len(page_refs(c))
           IN /\ n \in Nat /\ c + n <= Len(Wanted)
              /\ page.records \in Seq(PaymentRecord)
              /\ Lists(page.records, PresentIn(c + 1, c + n))
              /\ page.next_cursor \in {c + n, None}
              /\ page.next_cursor = None => c + n = Len(Wanted)
<1> DEFINE refs == page_refs(c)
           n == Len(refs)
           found == {i \in DOMAIN refs : payments[Reader][refs[i]] # None}
           N == Cardinality(found)
           records == [k \in 1..N |-> payments[Reader][refs[Nth(found, k)]]]
           page == payments_page(Reader, refs, c)
<1>1. /\ refs \in Seq(REF) /\ n \in Nat /\ c + n <= Len(Wanted) /\ c \in Nat
      /\ Len(Wanted) \in Nat /\ DOMAIN refs = 1..n
      /\ n # MAX_PAYMENTS_BATCH => c + n = Len(Wanted)
      /\ \A i \in 1..n : refs[i] = Wanted[c + i]
  BY PageRefs, ReaderAssumption
<1>2. page.records = records /\ page.next_cursor = next_cursor(refs, c, records)
  BY DEF payments_page
<1>3. page.next_cursor \in {c + n, None} /\ (page.next_cursor = None => c + n = Len(Wanted))
  <2>1. c + n # None
    BY <1>1, FeeAssumption
  <2> QED
    BY <1>1, <1>2, <2>1 DEF next_cursor
<1> HIDE DEF refs, n, page
<1>4. found \in SUBSET Nat /\ found \in SUBSET (1..n) /\ IsFiniteSet(found)
  <2>1. found \in SUBSET (1..n) /\ 1..n \in SUBSET Nat
    BY <1>1
  <2>2. IsFiniteSet(1..n)
    BY <1>1, FS_Interval
  <2> HIDE DEF found
  <2> QED
    BY <2>1, <2>2, FS_Subset
<1>5. /\ N \in Nat
      /\ \A k \in 1..N : Nth(found, k) \in found
      /\ \A j, k \in 1..N : j < k => Nth(found, j) < Nth(found, k)
      /\ \A i \in found : \E k \in 1..N : Nth(found, k) = i
  BY <1>4, NthEnumerates
<1>6. payments[Reader] \in [REF -> PaymentRecord \cup {None}]
  BY ReaderAssumption, InputAssumption DEF TypeOK, PayType
<1>7. \A i \in found : /\ i \in 1..n /\ refs[i] \in REF /\ refs[i] = Wanted[c + i]
                       /\ payments[Reader][refs[i]] \in PaymentRecord
                       /\ c + i \in PresentIn(c + 1, c + n)
  BY <1>1, <1>6 DEF PresentIn, Present
<1>8. \A p \in PresentIn(c + 1, c + n) : p - c \in found
  <2> SUFFICES ASSUME NEW p \in PresentIn(c + 1, c + n) PROVE p - c \in found
    OBVIOUS
  <2>1. p \in (c + 1)..(c + n) /\ Present(Wanted[p])
    BY DEF PresentIn
  <2>2. p - c \in 1..n /\ c + (p - c) = p
    BY <1>1, <2>1
  <2> QED
    BY <1>1, <2>1, <2>2 DEF Present
<1> HIDE DEF found, N
<1>9. records \in Seq(PaymentRecord) /\ DOMAIN records = 1..N
  BY <1>5, <1>7
<1>10. Lists(records, PresentIn(c + 1, c + n))
  <2> DEFINE at == [k \in 1..N |-> c + Nth(found, k)]
             P == PresentIn(c + 1, c + n)
  <2>1. at \in [1..N -> P]
    BY <1>5, <1>7
  <2>2. \A k \in 1..N : Nth(found, k) \in Nat
    BY <1>4, <1>5
  <2>3. \A j, k \in 1..N : j < k => at[j] < at[k]
    BY <1>1, <1>5, <2>2
  <2>4. ASSUME NEW p \in P PROVE p \in Range(at)
    <3>1. PICK k \in 1..N : Nth(found, k) = p - c
      BY <1>5, <1>8
    <3>2. p \in Nat
      BY <1>1 DEF PresentIn
    <3>3. at[k] = p
      BY <1>1, <3>1, <3>2
    <3> QED
      BY <3>3 DEF Range
  <2>5. Range(at) = P
    BY <2>1, <2>4 DEF Range
  <2>6. \A k \in 1..N : records[k] = payments[Reader][Wanted[at[k]]]
    BY <1>5, <1>7
  <2> HIDE DEF at, P, records
  <2>7. /\ at \in [DOMAIN records -> P]
        /\ \A j, k \in DOMAIN records : j < k => at[j] < at[k]
        /\ \A k \in DOMAIN records : records[k] = payments[Reader][Wanted[at[k]]]
    BY <1>9, <2>1, <2>3, <2>6, Zenon
  <2>8. Lists(records, P)
    BY <2>5, <2>7, Zenon DEF Lists
  <2> QED
    BY <2>8 DEF P
<1> QED
  BY <1>1, <1>2, <1>3, <1>9, <1>10 DEF refs, n, page
-----------------------------------------------------------------------------
(* The walk.                                                                *)

\* Other calls and the indexer's own are behaviours of the settlement contract.
LEMMA ReaderStep ==
    ASSUME [ReadNext]_<<vars, readerVars>>
    PROVE  [Next]_vars
  BY DEF ReadNext, StartWalk, ReadPage, Meanwhile

\* Everything proved of the contract holds while the indexer reads.
LEMMA ReaderImplements == ReaderSpec => Spec
<1>1. ReaderInit => Init
  BY DEF ReaderInit
<1> QED
  BY <1>1, ReaderStep, PTL DEF ReaderSpec, Spec

\* The indexer knows every reference under which the merchant has a record:
\* storing takes a reference other than the zero one.
Known == \A r \in REF : Present(r) => r \in Range(Wanted)

LEMMA NextKnown == ASSUME TypeOK, Known, [Next]_vars PROVE Known'
<1> USE InputAssumption, ReaderAssumption
<1>1. CASE UNCHANGED payVars
  BY <1>1 DEF Known, Present, payVars
<1>2. ASSUME NEW m \in MerchantInputs, NEW a \in Amounts, NEW q \in RefInputs,
             store_payment_reference(m, q, a)
      PROVE  Known'
  <2>1. q # ZeroRef /\ payments' = [payments EXCEPT ![m][q] = payment_record(a, effective_rule(m))]
    BY <1>2 DEF store_payment_reference, fresh_reference
  <2> HIDE DEF payment_record, effective_rule
  <2>2. \A r \in REF : r # q => payments'[Reader][r] = payments[Reader][r]
    BY <2>1 DEF TypeOK, PayType
  <2> QED
    BY <2>1, <2>2 DEF Known, Present
<1>3. ASSUME NEW s \in SignerVecs, NEW n \in MerchantInputs,
             \/ \E q \in RefInputs : prune_payment(s, n, q)
             \/ \E refs \in RefBatches : prune_payments(s, n, refs)
      PROVE  Known'
  BY <1>3, PruneKeeps DEF Known, Present
<1>4. CASE PaymentStep
  BY <1>1, <1>2, <1>3, <1>4 DEF PaymentStep, calculate_fee_split
<1> QED
  BY <1>1, <1>4, PaymentFootprint

\* How far the walk has come.
Walked == IF cursor = None THEN Len(Wanted) ELSE cursor

ReaderType == /\ cursor \in 0..Len(Wanted) \cup {None}
              /\ got \in Seq(PaymentRecord)
              /\ steady \subseteq Range(Wanted)

\* Received so far: every record that stayed in place before the cursor, and
\* exactly those when nothing was disturbed.
Received ==
    /\ \A i \in 1..Walked : Wanted[i] \in steady /\ Present(Wanted[i]) =>
          payments[Reader][Wanted[i]] \in Range(got)
    /\ steady = Range(Wanted) =>
          /\ Lists(got, PresentIn(1, Walked))
          /\ counted = Cardinality(RecordsOf(Reader))

WalkInv == Known /\ ReaderType /\ Received

\* The empty list.
LEMMA ListsNothing == Lists(<<>>, {})
<1> DEFINE at == [k \in {} |-> k]
<1>1. DOMAIN (<<>>) = {} /\ at \in [{} -> {}] /\ Range(at) = {}
  BY DEF Range
<1> QED
  BY <1>1 DEF Lists

\* Before the first walk nothing is steady.
LEMMA InitWalk == ASSUME ReaderInit PROVE WalkInv
<1> USE InputAssumption, ReaderAssumption
<1>1. /\ \A r \in REF : payments[Reader][r] = None
      /\ cursor = None /\ got = <<>> /\ counted = 0 /\ steady = {}
  BY DEF ReaderInit, Init
<1>2. Known /\ ReaderType
  BY <1>1 DEF Known, Present, ReaderType
<1>3. ASSUME steady = Range(Wanted)
      PROVE  Lists(got, PresentIn(1, Walked)) /\ counted = Cardinality(RecordsOf(Reader))
  <2>1. Range(Wanted) = {} /\ Len(Wanted) \in Nat /\ DOMAIN Wanted = 1..Len(Wanted)
    BY <1>1, <1>3
  <2>2. PresentIn(1, Walked) = {}
    BY <1>1, <2>1 DEF PresentIn, Walked, Range
  <2>3. RecordsOf(Reader) = {}
    BY <1>1 DEF RecordsOf
  <2> QED
    BY <1>1, <2>2, <2>3, ListsNothing, FS_EmptySet
<1> QED
  BY <1>1, <1>2, <1>3 DEF WalkInv, Received

\* A walk starts with everything wanted ahead of it, and its count is right.
LEMMA StartWalkInv ==
    ASSUME PaymentCountExact, WalkInv, NEW s \in SignerVecs, StartWalk(s)
    PROVE  WalkInv'
<1> USE InputAssumption, ReaderAssumption
<1>1. /\ cursor' = 0 /\ got' = <<>> /\ counted' = payCount[Reader] /\ steady' = Range(Wanted)
      /\ UNCHANGED payments /\ cursor' # None
  BY FeeAssumption DEF StartWalk, vars, payVars
<1>2. Known' /\ ReaderType'
  BY <1>1 DEF WalkInv, Known, Present, ReaderType
<1>3. Walked' = 0 /\ PresentIn(1, Walked)' = {} /\ 1..0 = {}
  BY <1>1 DEF Walked, PresentIn
<1>4. Lists(got, PresentIn(1, Walked))'
  BY <1>1, <1>3, ListsNothing DEF Lists
<1>5. counted' = Cardinality(RecordsOf(Reader))'
  <2>1. RecordsOf(Reader)' = RecordsOf(Reader)
    BY <1>1 DEF RecordsOf
  <2>2. payCount[Reader] = Cardinality(RecordsOf(Reader))
    BY DEF PaymentCountExact, RecordsOf
  <2> QED
    BY <1>1, <2>1, <2>2
<1> QED
  BY <1>2, <1>3, <1>4, <1>5 DEF WalkInv, Received
\* A page continues the list where the walk had come to.
LEMMA ReadPageInv ==
    ASSUME TypeOK, WalkInv, NEW s \in SignerVecs, ReadPage(s)
    PROVE  WalkInv'
<1> USE InputAssumption, ReaderAssumption
<1> DEFINE page == payments_page(Reader, page_refs(cursor), cursor)
           n == Len(page_refs(cursor))
           before == PresentIn(1, cursor)
           now_read == PresentIn(cursor + 1, cursor + n)
<1>1. /\ cursor # None /\ cursor' = page.next_cursor /\ got' = got \o page.records
      /\ UNCHANGED <<counted, steady, payments>>
  BY DEF ReadPage, vars, payVars
<1>2. cursor \in 0..Len(Wanted) /\ got \in Seq(PaymentRecord)
  BY <1>1 DEF WalkInv, ReaderType
<1>3. /\ n \in Nat /\ cursor + n <= Len(Wanted)
      /\ page.records \in Seq(PaymentRecord)
      /\ Lists(page.records, now_read)
      /\ page.next_cursor \in {cursor + n, None}
      /\ page.next_cursor = None => cursor + n = Len(Wanted)
  BY <1>2, Page
<1> DEFINE recs == page.records
<1> HIDE DEF page, n, recs
<1>4. Len(Wanted) \in Nat /\ cursor \in Nat
  BY <1>2
<1>5. Walked = cursor /\ Walked' = cursor + n
  BY <1>1, <1>3 DEF Walked
<1>6. ReaderType' /\ Known'
  <2>1. cursor' \in 0..Len(Wanted) \cup {None}
    BY <1>1, <1>3, <1>4
  <2>2. got' \in Seq(PaymentRecord)
    BY <1>1, <1>2, <1>3
  <2> QED
    BY <1>1, <2>1, <2>2 DEF WalkInv, Known, Present, ReaderType
<1>8. /\ before \in SUBSET Nat /\ now_read \in SUBSET Nat
      /\ \A p \in before, q \in now_read : p < q
      /\ PresentIn(1, cursor + n) = before \cup now_read
  BY <1>3, <1>4 DEF PresentIn
<1>9. PresentIn(1, Walked)' = PresentIn(1, cursor + n)
  BY <1>1, <1>5 DEF PresentIn, Present
<1> HIDE DEF before, now_read
<1>10. Range(got') = Range(got) \cup Range(page.records)
  <2>1. /\ DOMAIN got' = 1..(Len(got) + Len(page.records))
        /\ \A k \in 1..Len(got) : got'[k] = got[k]
        /\ \A k \in 1..Len(page.records) : got'[k + Len(got)] = page.records[k]
        /\ \A k \in DOMAIN got' : k \in 1..Len(got) \/ k - Len(got) \in 1..Len(page.records)
    BY <1>1, <1>2, <1>3
  <2>2. /\ Len(got) \in Nat /\ Len(page.records) \in Nat
        /\ DOMAIN got = 1..Len(got) /\ DOMAIN page.records = 1..Len(page.records)
    BY <1>2, <1>3
  <2>3. \A k \in 1..Len(got) : k \in DOMAIN got'
    BY <2>1, <2>2
  <2>4. \A k \in 1..Len(page.records) : k + Len(got) \in DOMAIN got'
    BY <2>1, <2>2
  <2>5. \A k \in DOMAIN got' : k - Len(got) \in 1..Len(page.records) =>
           got'[k] = page.records[k - Len(got)]
    <3> SUFFICES ASSUME NEW k \in DOMAIN got', k - Len(got) \in 1..Len(page.records)
                 PROVE  got'[k] = page.records[k - Len(got)]
      OBVIOUS
    <3>1. (k - Len(got)) + Len(got) = k
      BY <2>1, <2>2
    <3> QED
      BY <2>1, <3>1
  <2>6. \A x \in Range(got) : x \in Range(got')
    BY <2>1, <2>2, <2>3 DEF Range
  <2>7. \A x \in Range(page.records) : x \in Range(got')
    BY <2>1, <2>2, <2>4 DEF Range
  <2>8. \A x \in Range(got') : x \in Range(got) \/ x \in Range(page.records)
    <3> SUFFICES ASSUME NEW k \in DOMAIN got'
                 PROVE  got'[k] \in Range(got) \/ got'[k] \in Range(page.records)
      BY DEF Range
    <3>1. CASE k \in 1..Len(got)
      BY <2>1, <2>2, <3>1 DEF Range
    <3>2. CASE k - Len(got) \in 1..Len(page.records)
      BY <2>2, <2>5, <3>2 DEF Range
    <3> QED
      BY <2>1, <3>1, <3>2
  <2> QED
    BY <2>6, <2>7, <2>8
<1>11. ASSUME NEW i \in 1..(cursor + n), Wanted[i] \in steady, Present(Wanted[i])
       PROVE  payments[Reader][Wanted[i]] \in Range(got')
  <2>1. CASE i \in 1..cursor
    BY <1>5, <1>10, <1>11, <2>1 DEF WalkInv, Received
  <2>2. CASE i \notin 1..cursor
    <3>1. i \in now_read
      BY <1>3, <1>4, <1>11, <2>2 DEF now_read, PresentIn
    <3>2. payments[Reader][Wanted[i]] \in Range(page.records)
      BY <1>3, <1>8, <3>1, ListsAll
    <3> QED
      BY <1>10, <3>2
  <2> QED
    BY <2>1, <2>2
<1>12. ASSUME steady = Range(Wanted)
       PROVE  Lists(got, PresentIn(1, Walked))' /\ (counted = Cardinality(RecordsOf(Reader)))'
  <2>1. Lists(got, before) /\ counted = Cardinality(RecordsOf(Reader))
    BY <1>5, <1>12 DEF WalkInv, Received, before
  <2>2. Lists(got', before \cup now_read)
    BY <1>1, <1>2, <1>3, <1>8, <2>1, ListsConcat
  <2>3. RecordsOf(Reader)' = RecordsOf(Reader)
    BY <1>1 DEF RecordsOf
  <2> DEFINE P == before \cup now_read
  <2>4. PICK at \in [DOMAIN got' -> P] :
           /\ \A j, k \in DOMAIN got' : j < k => at[j] < at[k]
           /\ Range(at) = P
           /\ \A k \in DOMAIN got' : got'[k] = payments[Reader][Wanted[at[k]]]
    BY <2>2 DEF Lists
  <2>5. PresentIn(1, Walked)' = P
    BY <1>8, <1>9
  <2> HIDE DEF P
  <2>6. Lists(got, PresentIn(1, Walked))'
    <3>1. \A k \in DOMAIN got' : got'[k] = payments'[Reader][Wanted[at[k]]]
      BY <1>1, <2>4
    <3> QED
      BY <2>4, <2>5, <3>1 DEF Lists
  <2> QED
    BY <1>1, <2>1, <2>3, <2>6
<1> QED
  BY <1>1, <1>5, <1>6, <1>11, <1>12 DEF WalkInv, Received, Present

\* What happens between two pages makes the records it touches unsteady.
LEMMA MeanwhileInv ==
    ASSUME TypeOK, WalkInv, Meanwhile
    PROVE  WalkInv'
<1> USE InputAssumption, ReaderAssumption
<1>1. /\ steady' = {r \in steady : payments'[Reader][r] = payments[Reader][r]}
      /\ UNCHANGED <<cursor, got, counted>>
  BY DEF Meanwhile
<1>2. Known' /\ ReaderType'
  BY <1>1, NextKnown DEF Meanwhile, WalkInv, ReaderType
<1>3. Walked' = Walked
  BY <1>1 DEF Walked
<1>4. \A i \in 1..Walked : Wanted[i] \in steady' /\ Present(Wanted[i])' =>
         payments'[Reader][Wanted[i]] \in Range(got)
  BY <1>1 DEF WalkInv, Received, Present
<1>5. ASSUME steady' = Range(Wanted)
      PROVE  Lists(got, PresentIn(1, Walked))' /\ (counted = Cardinality(RecordsOf(Reader)))'
  <2>1. steady = Range(Wanted)
        /\ \A r \in Range(Wanted) : payments'[Reader][r] = payments[Reader][r]
    BY <1>1, <1>5 DEF WalkInv, ReaderType
  <2>2. Lists(got, PresentIn(1, Walked)) /\ counted = Cardinality(RecordsOf(Reader))
    BY <2>1 DEF WalkInv, Received
  <2>3. RecordsOf(Reader)' = RecordsOf(Reader)
    BY <1>2, <2>1 DEF RecordsOf, WalkInv, Known, Present
  <2>4. \A i \in 1..Walked : Wanted[i] \in Range(Wanted)
    BY DEF WalkInv, ReaderType, Walked, Range
  <2>5. PresentIn(1, Walked)' = PresentIn(1, Walked)
    BY <1>3, <2>1, <2>4 DEF PresentIn, Present
  <2> DEFINE P == PresentIn(1, Walked)
  <2>6. PICK at \in [DOMAIN got -> P] :
           /\ \A j, k \in DOMAIN got : j < k => at[j] < at[k]
           /\ Range(at) = P
           /\ \A k \in DOMAIN got : got[k] = payments[Reader][Wanted[at[k]]]
    BY <2>2 DEF Lists
  <2>7. \A k \in DOMAIN got : got[k] = payments'[Reader][Wanted[at[k]]]
    <3>1. \A i \in P : Wanted[i] \in Range(Wanted)
      BY <2>4 DEF PresentIn
    <3> QED
      BY <2>1, <2>6, <3>1
  <2>8. Lists(got, PresentIn(1, Walked))'
    BY <1>1, <2>5, <2>6, <2>7 DEF Lists
  <2> QED
    BY <1>1, <2>2, <2>3, <2>8
<1> QED
  BY <1>1, <1>2, <1>3, <1>4, <1>5 DEF WalkInv, Received

\* The invariant of the walk holds throughout.
LEMMA WalkInvCorrect == ReaderSpec => []WalkInv
<1>1. ASSUME TypeOK, PaymentCountExact, WalkInv, [ReadNext]_<<vars, readerVars>>
      PROVE  WalkInv'
  <2>1. CASE UNCHANGED <<vars, readerVars>>
    <3>1. UNCHANGED <<payments, cursor, got, counted, steady>>
      BY <2>1 DEF vars, payVars, readerVars
    <3> QED
      BY <1>1, <3>1
      DEF WalkInv, Known, ReaderType, Received, Walked, Present, PresentIn, RecordsOf, Lists
  <2> QED
    BY <1>1, <2>1, StartWalkInv, ReadPageInv, MeanwhileInv DEF ReadNext
<1>2. ReaderSpec => []TypeOK /\ []PaymentCountExact
  BY ReaderImplements, TypeCorrect, PaymentCountCorrect, PTL
<1> QED
  BY <1>1, <1>2, InitWalk, PTL DEF ReaderSpec

\* A walk that has ended missed no record that stayed in place.
THEOREM WalkCompleteCorrect == ReaderSpec => []WalkComplete
<1>1. ASSUME WalkInv PROVE WalkComplete
  <2>1. SUFFICES ASSUME cursor = None, NEW r \in steady, Present(r)
                 PROVE  payments[Reader][r] \in Range(got)
    BY DEF WalkComplete
  <2>2. PICK i \in 1..Len(Wanted) : Wanted[i] = r
    BY <1>1, ReaderAssumption DEF WalkInv, ReaderType, Range
  <2> QED
    BY <1>1, <2>1, <2>2 DEF WalkInv, Received, Walked
<1> QED
  BY <1>1, WalkInvCorrect, PTL

\* An undisturbed walk lists the records exactly, as many as were announced:
\* positions and references correspond one to one because no reference is
\* wanted twice and none with a record is missing.
THEOREM UndisturbedWalkExactCorrect == ReaderSpec => []UndisturbedWalkExact
<1>1. ASSUME WalkInv PROVE UndisturbedWalkExact
  <2> DEFINE P == {i \in DOMAIN Wanted : Present(Wanted[i])}
  <2>1. SUFFICES ASSUME cursor = None, steady = Range(Wanted)
                 PROVE  Lists(got, P) /\ Len(got) = counted
    BY DEF UndisturbedWalkExact
  <2>2. DOMAIN Wanted = 1..Len(Wanted) /\ Wanted \in Seq(REF) /\ Len(Wanted) \in Nat
    BY ReaderAssumption
  <2>3. P = PresentIn(1, Walked) /\ P \in SUBSET Nat
    BY <2>1, <2>2 DEF PresentIn, Walked
  <2>4. Lists(got, P) /\ counted = Cardinality(RecordsOf(Reader)) /\ got \in Seq(PaymentRecord)
    BY <1>1, <2>1, <2>3 DEF WalkInv, Received, ReaderType
  <2>5. IsFiniteSet(P) /\ Cardinality(P) = Len(got)
    BY <2>3, <2>4, ListsAll
  <2>6. Cardinality(RecordsOf(Reader)) = Cardinality(P)
    <3> DEFINE f == [i \in P |-> Wanted[i]]
    <3>1. \A i \in P : f[i] \in RecordsOf(Reader)
      BY <2>2 DEF RecordsOf, Present
    <3>2. \A i, j \in P : f[i] = f[j] => i = j
      BY ReaderAssumption DEF Distinct
    <3>3. \A r \in RecordsOf(Reader) : \E i \in P : f[i] = r
      BY <1>1 DEF WalkInv, Known, RecordsOf, Range, Present
    <3>4. f \in Bijection(P, RecordsOf(Reader))
      BY <3>1, <3>2, <3>3 DEF Bijection, Injection, Surjection, IsInjective
    <3> QED
      BY <2>5, <3>4, FS_Bijection DEF ExistsBijection
  <2> QED
    BY <2>4, <2>5, <2>6
<1> QED
  BY <1>1, WalkInvCorrect, PTL

-----------------------------------------------------------------------------
(* The walk makes progress.                                                 *)

readerAll == <<vars, readerVars>>

\* A page read at a cursor ends the walk or moves the cursor on by a full page,
\* never past the references; no other call moves it or touches what was read.
WalkAdvances ==
    [][cursor # None =>
          IF \E s \in SignerVecs : ReadPage(s)
          THEN cursor' = None \/ (cursor' = cursor + MAX_PAYMENTS_BATCH /\ cursor' <= Len(Wanted))
          ELSE UNCHANGED <<cursor, got>>]_readerAll

\* What one page does to the cursor.
LEMMA PageMovesCursor ==
    ASSUME TypeOK, WalkInv, NEW s \in SignerVecs, ReadPage(s)
    PROVE  cursor' = None \/ (cursor' = cursor + MAX_PAYMENTS_BATCH /\ cursor' <= Len(Wanted))
<1> DEFINE refs == page_refs(cursor)
<1>1. cursor \in 0..Len(Wanted)
  BY DEF WalkInv, ReaderType, ReadPage
<1>2. cursor + Len(refs) <= Len(Wanted)
  BY <1>1, PageRefs
<1>3. cursor' = IF Len(refs) = MAX_PAYMENTS_BATCH THEN cursor + Len(refs) ELSE None
  BY DEF ReadPage, payments_page, next_cursor
<1> QED
  BY <1>2, <1>3

\* The safety half of WalkEnds: pages follow one another without gap, overlap
\* or repetition, whatever is stored, pruned or unregistered in between, so with
\* a batch size above zero a walk has at most
\* Len(Wanted) \div MAX_PAYMENTS_BATCH + 1 of them.
THEOREM WalkAdvancesCorrect == ReaderSpec => WalkAdvances
<1>1. ASSUME TypeOK, WalkInv, [ReadNext]_readerAll, cursor # None
      PROVE  IF \E s \in SignerVecs : ReadPage(s)
             THEN cursor' = None \/ (cursor' = cursor + MAX_PAYMENTS_BATCH /\ cursor' <= Len(Wanted))
             ELSE UNCHANGED <<cursor, got>>
  BY <1>1, PageMovesCursor DEF ReadNext, StartWalk, Meanwhile, readerAll, readerVars
<1>2. ReaderSpec => []TypeOK
  BY ReaderImplements, TypeCorrect, PTL
<1>3. [ReadNext]_<<vars, readerVars>> => [ReadNext]_readerAll
  BY DEF readerAll
<1> QED
  BY <1>1, <1>2, <1>3, WalkInvCorrect, PTL DEF ReaderSpec, WalkAdvances

\* A page can be read: the merchant is registered and can sign for itself.
PageReadable == cursor # None /\ assert_payments_readable(Reader) /\ Reader \in signing

\* No pruning, re-registration or loss of the admins' keys refuses the next
\* page to a registered merchant, whose own authority is enough: moving on by
\* what payments_page answers, and leaving the contract alone, is a ReadPage.
THEOREM NextPageAnswered ==
    ASSUME WalkInv, PageReadable, Len(Wanted) <= U32_MAX,
           cursor' = payments_page(Reader, page_refs(cursor), cursor).next_cursor,
           got' = got \o payments_page(Reader, page_refs(cursor), cursor).records,
           UNCHANGED <<vars, counted, steady>>
    PROVE  ReadPage(<<>>)
<1>1. cursor \in 0..Len(Wanted)
  BY DEF WalkInv, ReaderType, PageReadable
<1>2. Len(page_refs(cursor)) \in Nat /\ cursor + Len(page_refs(cursor)) <= Len(Wanted)
  BY <1>1, PageRefs
<1>3. Len(page_refs(cursor)) <= MAX_PAYMENTS_BATCH
  BY <1>1, ReaderAssumption DEF page_refs
<1>4. cursor + Len(page_refs(cursor)) <= U32_MAX
  BY <1>1, <1>2, StorageAssumption, ReaderAssumption
<1> QED
  BY <1>3, <1>4 DEF ReadPage, get_payments, assert_read_authorized, PageReadable, require_auth

\* One page of WalkEnds: a walk that stands at cursor c gets its next page, or
\* ends, or finds its merchant not registered or unable to sign.  That a page
\* can be read is a hypothesis, since the prover takes ENABLED as an opaque
\* predicate; NextPageAnswered exhibits the step.
THEOREM PageEventuallyRead ==
    ASSUME NEW CONSTANT c \in Nat
    PROVE  ReaderSpec
           /\ [](PageReadable => ENABLED <<\E s \in SignerVecs : ReadPage(s)>>_<<vars, readerVars>>)
              => (cursor = c ~> \/ cursor \in {None, c + MAX_PAYMENTS_BATCH}
                                \/ ~assert_payments_readable(Reader) \/ Reader \notin signing)
<1> DEFINE P == cursor = c
           Q == cursor \in {None, c + MAX_PAYMENTS_BATCH}
           R == assert_payments_readable(Reader) /\ Reader \in signing
           Fetch == \E s \in SignerVecs : ReadPage(s)
<1>1. c # None
  BY FeeAssumption
<1>2. ASSUME TypeOK, WalkInv, [ReadNext]_<<vars, readerVars>>, P PROVE P' \/ Q'
  BY <1>1, <1>2, PageMovesCursor DEF ReadNext, StartWalk, Meanwhile, readerVars
<1>3. ASSUME TypeOK, WalkInv, P, <<Fetch>>_<<vars, readerVars>> PROVE Q'
  BY <1>3, PageMovesCursor
<1>4. P /\ R => PageReadable
  BY <1>1 DEF PageReadable
<1>5. ReaderSpec => []TypeOK
  BY ReaderImplements, TypeCorrect, PTL
<1>6. ReaderSpec => WF_<<vars, readerVars>>(Fetch) /\ [][ReadNext]_<<vars, readerVars>>
  BY PTL DEF ReaderSpec
<1> HIDE DEF P, Q, R, Fetch
<1>7. ReaderSpec /\ [](PageReadable => ENABLED <<Fetch>>_<<vars, readerVars>>)
         => (P ~> Q \/ ~R)
  BY <1>2, <1>3, <1>4, <1>5, <1>6, WalkInvCorrect, PTL
<1>8. (Q \/ ~R) <=> (\/ cursor \in {None, c + MAX_PAYMENTS_BATCH}
                     \/ ~assert_payments_readable(Reader) \/ Reader \notin signing)
  BY DEF Q, R
<1> QED
  BY <1>7, <1>8, PTL DEF P, Fetch
=============================================================================

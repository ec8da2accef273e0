----------------------- MODULE HourlyHistogramProofs -----------------------
(***************************************************************************)
(* For every capacity, any number of hours, bytes, restarts and steps of   *)
(* the clock, and any ambiguous hours: the histogram loses and invents no  *)
(* byte, no hour is counted twice after restarts, every hour has one       *)
(* bucket, the ring mirrors the histogram in memory, and what the API      *)
(* answers from it adds up.                                                *)
(*                                                                         *)
(* The sums and the kept buckets are defined by recursion over sequences   *)
(* of any length.  The library's induction theorems take operators, which  *)
(* no installed prover instantiates, so induction is stated here for sets  *)
(* and recursion for functions; both follow from the least-number          *)
(* principle.                                                              *)
(***************************************************************************)
EXTENDS HistogramQueries, SequenceTheorems, WellFoundedInduction, TLAPS

\* A set of natural numbers that is not empty has a least element.
LEMMA LeastNumber ==
  ASSUME NEW T \in SUBSET Nat, T # {}
  PROVE  \E x \in T : \A y \in T : x <= y
<1> DEFINE R == OpToRel(<, Nat)
<1>1. IsWellFoundedOn(R, Nat)
  BY NatLessThanWellFounded
<1> HIDE DEF R
<1>2. PICK x \in T : \A y \in T : ~(<<y, x>> \in R)
  BY <1>1, WFMin
<1>3. \A y \in T : y < x => <<y, x>> \in R
  BY DEF R, OpToRel
<1>4. \A y \in T : ~(y < x)
  BY <1>2, <1>3
<1> QED BY ONLY <1>4, x \in T, T \in SUBSET Nat

\* Induction, for the members of a set.
LEMMA Induction ==
  ASSUME NEW n \in Nat, NEW S, 0 \in S,
         \A i \in 0..n : i \in S /\ i < n => i + 1 \in S
  PROVE  \A i \in 0..n : i \in S
<1> SUFFICES ASSUME (0..n) \ S # {} PROVE FALSE
  OBVIOUS
<1>1. PICK x \in (0..n) \ S : \A y \in (0..n) \ S : x <= y
  <2> DEFINE T == (0..n) \ S
  <2>1. T \in SUBSET Nat /\ T # {}
    OBVIOUS
  <2> HIDE DEF T
  <2>2. \E x \in T : \A y \in T : x <= y
    BY <2>1, LeastNumber
  <2> QED BY <2>2 DEF T
<1>2. x - 1 \in 0..n /\ x - 1 \in S
  BY <1>1
<1> QED BY <1>1, <1>2

\* f[i] is what the first i steps make of a.
StepsOf(S, n) == [1..n -> [S -> S]]
Run(f, S, n, a, step) ==
  /\ f \in [0..n -> S] /\ f[0] = a
  /\ \A i \in 1..n : f[i] = step[i][f[i - 1]]

\* Recursion: n steps have a run.
LEMMA RunExists ==
  ASSUME NEW n \in Nat, NEW S, NEW a \in S, NEW step, step \in StepsOf(S, n)
  PROVE  \E f : Run(f, S, n, a, step)
<1> USE DEF StepsOf
<1> DEFINE Ms == {m \in 0..n : \E f : Run(f, S, m, a, step)}
<1>1. 0 \in Ms
  <2> DEFINE f0 == [i \in 0..0 |-> a]
  <2>1. Run(f0, S, 0, a, step)
    BY DEF Run
  <2> QED BY <2>1
<1>2. ASSUME NEW m \in 0..n, m \in Ms, m < n
      PROVE  m + 1 \in Ms
  <2>1. PICK f : Run(f, S, m, a, step)
    BY <1>2
  <2>0. f \in [0..m -> S] /\ f[0] = a /\ \A i \in 1..m : f[i] = step[i][f[i - 1]]
    BY <2>1 DEF Run
  <2> DEFINE g == [i \in 0..(m + 1) |-> IF i <= m THEN f[i] ELSE step[i][f[i - 1]]]
  <2>2. g \in [0..(m + 1) -> S]
    <3>1. ASSUME NEW i \in 0..(m + 1) PROVE g[i] \in S
      <4>1. CASE i <= m
        BY <2>0, <4>1
      <4>2. CASE ~(i <= m)
        <5>1. i = m + 1 /\ i \in 1..n /\ f[i - 1] \in S
          BY <4>2, <1>2, <2>0
        <5> QED BY <5>1, <4>2
      <4> QED BY <4>1, <4>2
    <3> QED BY <3>1
  <2>3. g[0] = a
    BY <2>0
  <2>4. ASSUME NEW i \in 1..(m + 1) PROVE g[i] = step[i][g[i - 1]]
    <3>1. i - 1 \in 0..m /\ g[i - 1] = f[i - 1]
      OBVIOUS
    <3>2. CASE i <= m
      BY <3>1, <3>2, <2>0
    <3>3. CASE ~(i <= m)
      BY <3>1, <3>3
    <3> QED BY <3>2, <3>3
  <2> HIDE DEF g
  <2>5. Run(g, S, m + 1, a, step)
    BY <2>2, <2>3, <2>4 DEF Run
  <2> QED BY <1>2, <2>5
<1> HIDE DEF Ms
<1>3. \A i \in 0..n : i \in Ms
  BY <1>1, <1>2, Induction
<1>4. n \in Ms
  BY <1>3
<1> QED BY <1>4 DEF Ms

-----------------------------------------------------------------------------
(* The bytes of a sequence of buckets.                                     *)

\* Bytes is the last of the partial sums.
LEMMA BytesSums ==
  ASSUME NEW s \in Seq(Bucket)
  PROVE  \E f \in [0..Len(s) -> Nat] :
           /\ Bytes(s) = f[Len(s)] /\ f[0] = 0
           /\ \A i \in 1..Len(s) : f[i] = f[i - 1] + s[i].bytes
<1> DEFINE n == Len(s)
           step == [i \in 1..n |-> [x \in Nat |-> x + s[i].bytes]]
           Is(f) == f = [i \in 0..n |-> IF i = 0 THEN 0 ELSE f[i - 1] + s[i].bytes]
           sum == CHOOSE f : Is(f)
<1>0. n \in Nat /\ \A i \in 1..n : s[i] \in Bucket
  OBVIOUS
<1>1. \A i \in 1..n : s[i].bytes \in Nat
  BY <1>0 DEF Bucket
<1>2. step \in [1..n -> [Nat -> Nat]]
  BY <1>1
<1> HIDE DEF n
<1>3. PICK f \in [0..n -> Nat] : f[0] = 0 /\ \A i \in 1..n : f[i] = step[i][f[i - 1]]
  <2> HIDE DEF step
  <2>1. step \in StepsOf(Nat, n)
    BY <1>2 DEF StepsOf
  <2>2. \E f : Run(f, Nat, n, 0, step)
    BY <1>0, <2>1, RunExists
  <2> QED BY <2>2 DEF Run
<1>4. \A i \in 1..n : f[i - 1] \in Nat
  BY <1>0
<1>5. \A i \in 1..n : f[i] = f[i - 1] + s[i].bytes
  BY <1>3, <1>4
<1>6. Is(f)
  BY <1>0, <1>3, <1>5
<1>7. Is(sum)
  <2> HIDE DEF Is
  <2> QED BY <1>6
<1>8. Bytes(s) = sum[n]
  BY DEF Bytes, n
<1> HIDE DEF sum
<1>9. \A i \in 0..n : i \in {j \in 0..n : sum[j] = f[j]}
  <2>1. 0 \in {j \in 0..n : sum[j] = f[j]}
    BY <1>0, <1>6, <1>7
  <2>2. ASSUME NEW i \in 0..n, sum[i] = f[i], i < n PROVE i + 1 \in 0..n /\ sum[i + 1] = f[i + 1]
    <3>1. i + 1 \in 1..n /\ i + 1 - 1 = i
      BY <1>0, <2>2
    <3>2. sum[i + 1] = sum[i] + s[i + 1].bytes
      BY <3>1, <1>7
    <3> QED BY <3>1, <3>2, <2>2, <1>5
  <2> QED BY <2>1, <2>2, <1>0, Induction
<1> QED BY <1>3, <1>5, <1>8, <1>9 DEF n

LEMMA BytesNat ==
  ASSUME NEW s \in Seq(Bucket)
  PROVE  Bytes(s) \in Nat
BY BytesSums

LEMMA BytesEmpty == Bytes(<<>>) = 0
<1>1. <<>> \in Seq(Bucket) /\ Len(<<>>) = 0
  OBVIOUS
<1> QED BY <1>1, BytesSums

\* One more bucket adds its bytes.
LEMMA BytesAppend ==
  ASSUME NEW s \in Seq(Bucket), NEW b \in Bucket
  PROVE  Bytes(Append(s, b)) = Bytes(s) + b.bytes
<1> DEFINE t == Append(s, b)
           n == Len(s)
<1>1. /\ t \in Seq(Bucket) /\ n \in Nat /\ Len(t) = n + 1
      /\ t[n + 1] = b /\ \A i \in 1..n : t[i] = s[i]
  OBVIOUS
<1> HIDE DEF t
<1>2. PICK f \in [0..n -> Nat] :
        /\ Bytes(s) = f[n] /\ f[0] = 0
        /\ \A i \in 1..n : f[i] = f[i - 1] + s[i].bytes
  BY BytesSums
<1>3. PICK g \in [0..(n + 1) -> Nat] :
        /\ Bytes(t) = g[n + 1] /\ g[0] = 0
        /\ \A i \in 1..(n + 1) : g[i] = g[i - 1] + t[i].bytes
  <2>1. \E g \in [0..Len(t) -> Nat] :
           /\ Bytes(t) = g[Len(t)] /\ g[0] = 0
           /\ \A i \in 1..Len(t) : g[i] = g[i - 1] + t[i].bytes
    BY <1>1, BytesSums
  <2> HIDE DEF n
  <2> QED BY <1>1, <2>1, Zenon
<1> HIDE DEF n
<1> DEFINE Same == {i \in 0..n : g[i] = f[i]}
<1>4. 0 \in Same
  BY <1>1, <1>2, <1>3
<1>5. ASSUME NEW i \in 0..n, i \in Same, i < n
      PROVE  i + 1 \in Same
  <2>1. i + 1 \in 1..n /\ i + 1 \in 1..(n + 1) /\ i + 1 \in 0..n /\ (i + 1) - 1 = i
    BY <1>1, <1>5
  <2>2. f[i + 1] = f[i] + s[i + 1].bytes /\ g[i + 1] = g[i] + t[i + 1].bytes
    BY <2>1, <1>2, <1>3
  <2> QED BY <2>1, <2>2, <1>1, <1>5
<1> HIDE DEF Same
<1>6. \A i \in 0..n : i \in Same
  BY <1>1, <1>4, <1>5, Induction
<1>7. g[n] = f[n]
  BY <1>1, <1>6 DEF Same
<1>8. n + 1 \in 1..(n + 1) /\ (n + 1) - 1 = n
  BY <1>1
<1>9. g[n + 1] = g[n] + t[n + 1].bytes
  BY <1>3, <1>8
<1> QED BY <1>1, <1>2, <1>3, <1>7, <1>9 DEF t

LEMMA BytesOne ==
  ASSUME NEW b \in Bucket
  PROVE  Bytes(<<b>>) = b.bytes
<1>1. <<b>> = Append(<<>>, b) /\ <<>> \in Seq(Bucket)
  OBVIOUS
<1>2. b.bytes \in Nat
  BY DEF Bucket
<1>3. Bytes(<<b>>) = Bytes(<<>>) + b.bytes
  BY <1>1, BytesAppend
<1> QED BY <1>2, <1>3, BytesEmpty

\* t is s without its first d elements.
Drops(s, t, d) ==
  /\ d \in 0..Len(s) /\ Len(t) = Len(s) - d
  /\ \A i \in 1..Len(t) : t[i] = s[d + i]

\* Dropping buckets at the front adds no bytes.
LEMMA BytesDrops ==
  ASSUME NEW s \in Seq(Bucket), NEW t \in Seq(Bucket), NEW d, Drops(s, t, d)
  PROVE  Bytes(t) <= Bytes(s)
<1> DEFINE n == Len(s)
           m == Len(t)
<1>1. /\ n \in Nat /\ m \in Nat /\ d \in 0..n /\ m = n - d
      /\ \A i \in 1..m : t[i] = s[d + i] /\ s[d + i] \in Bucket
  <2>1. n \in Nat /\ m \in Nat /\ d \in 0..n /\ m = n - d /\ \A i \in 1..m : t[i] = s[d + i]
    BY DEF Drops
  <2>2. \A i \in 1..m : d + i \in 1..n
    BY <2>1
  <2> QED BY <2>1, <2>2
<1>2. PICK f \in [0..n -> Nat] :
        /\ Bytes(s) = f[n] /\ f[0] = 0
        /\ \A i \in 1..n : f[i] = f[i - 1] + s[i].bytes
  BY BytesSums
<1>3. PICK g \in [0..m -> Nat] :
        /\ Bytes(t) = g[m] /\ g[0] = 0
        /\ \A i \in 1..m : g[i] = g[i - 1] + t[i].bytes
  BY BytesSums
<1> HIDE DEF n, m
<1> DEFINE Split == {i \in 0..m : f[d + i] = f[d] + g[i]}
<1>4. 0 \in Split
  BY <1>1, <1>2, <1>3
<1>5. ASSUME NEW i \in 0..m, i \in Split, i < m
      PROVE  i + 1 \in Split
  <2>1. /\ i + 1 \in 1..m /\ i + 1 \in 0..m /\ (i + 1) - 1 = i
        /\ d + (i + 1) \in 1..n /\ (d + (i + 1)) - 1 = d + i /\ d + i \in 0..n
    BY <1>1, <1>5
  <2>2. f[d + (i + 1)] = f[d + i] + s[d + (i + 1)].bytes
    BY <2>1, <1>2
  <2>3. g[i + 1] = g[i] + t[i + 1].bytes
    BY <2>1, <1>3
  <2>4. t[i + 1] = s[d + (i + 1)] /\ t[i + 1].bytes \in Nat
    BY <2>1, <1>1 DEF Bucket
  <2>5. f[d] \in Nat /\ g[i] \in Nat /\ f[d + i] = f[d] + g[i]
    BY <1>1, <1>5, <1>2, <1>3
  <2>6. f[d + (i + 1)] = f[d] + g[i + 1]
    BY <2>2, <2>3, <2>4, <2>5
  <2> QED BY <2>1, <2>6
<1> HIDE DEF Split
<1>6. \A i \in 0..m : i \in Split
  BY <1>1, <1>4, <1>5, Induction
<1>7. f[d + m] = f[d] + g[m] /\ d + m = n
  BY <1>1, <1>6 DEF Split
<1>8. f[d] \in Nat /\ g[m] \in Nat
  BY <1>1, <1>2, <1>3
<1> QED BY <1>2, <1>3, <1>7, <1>8

-----------------------------------------------------------------------------
(* Trimming.                                                               *)

\* Trim drops elements at the front, and only what is over the capacity.
LEMMA TrimDrops ==
  ASSUME NEW S, NEW s \in Seq(S)
  PROVE  /\ Trim(s) \in Seq(S) /\ Len(Trim(s)) <= max_hours
         /\ Len(Trim(s)) = IF Len(s) > max_hours THEN max_hours ELSE Len(s)
         /\ Drops(s, Trim(s), Len(s) - Len(Trim(s)))
<1> DEFINE d == IF Len(s) > max_hours THEN Len(s) - max_hours ELSE 0
<1>0. max_hours \in Nat /\ Len(s) \in Nat
  BY MaxHoursAssumption
<1>1. d \in 0..Len(s) /\ Trim(s) = SubSeq(s, d + 1, Len(s))
  BY <1>0 DEF Trim
<1>2. d = Len(s) - (IF Len(s) > max_hours THEN max_hours ELSE Len(s))
  BY <1>0
<1> HIDE DEF d
<1>3. Trim(s) \in Seq(S) /\ Len(Trim(s)) = Len(s) - d
  BY <1>1
<1>4. ASSUME NEW i \in 1..(Len(s) - d)
      PROVE  Trim(s)[i] = s[d + i]
  <2>1. SubSeq(s, d + 1, Len(s))[i] = s[d + i]
    BY <1>1
  <2> QED BY <1>1, <2>1
<1>5. Len(s) - Len(Trim(s)) = d
  BY <1>0, <1>1, <1>3
<1>6. Drops(s, Trim(s), Len(s) - Len(Trim(s)))
  BY <1>1, <1>3, <1>4, <1>5 DEF Drops
<1> QED BY <1>0, <1>2, <1>3, <1>6

LEMMA TrimFits ==
  ASSUME NEW S, NEW s \in Seq(S), Len(s) <= max_hours
  PROVE  Trim(s) = s
<1>1. Trim(s) \in Seq(S) /\ Len(Trim(s)) = Len(s) /\ Drops(s, Trim(s), 0)
  BY TrimDrops, MaxHoursAssumption
<1>2. \A i \in 1..Len(s) : Trim(s)[i] = s[i]
  BY <1>1 DEF Drops
<1> QED BY <1>1, <1>2, SeqEqual

LEMMA FunctionSeq ==
  ASSUME NEW n \in Nat, NEW S, NEW f \in [1..n -> S]
  PROVE  f \in Seq(S) /\ Len(f) = n
OBVIOUS

-----------------------------------------------------------------------------
(* The steps that move buckets.                                            *)

\* What completing a bucket does, when the tick before has appended its own.
LEMMA CompleteFacts ==
  ASSUME TypeOK, NEW b \in Bucket, Complete(b)
  PROVE  /\ completed' = Trim(Append(completed, b)) /\ completed' \in Seq(Bucket)
         /\ Len(completed') <= max_hours
         /\ written' = Trim(Append(written, TRUE)) /\ written' \in Seq(BOOLEAN)
         /\ Len(written') = Len(completed')
         /\ trimmed' \in Nat
         /\ trimmed' + Bytes(completed') = trimmed + Bytes(completed) + b.bytes
         /\ to_append' = <<b>> /\ to_append' \in Seq(Bucket)
<1> DEFINE all == Append(completed, b)
           allw == Append(written, TRUE)
<1>1. all \in Seq(Bucket) /\ allw \in Seq(BOOLEAN) /\ Len(all) = Len(allw)
  BY DEF TypeOK
<1>2. /\ completed' = Trim(all) /\ written' = Trim(allw)
      /\ trimmed' = trimmed + Bytes(all) - Bytes(Trim(all)) /\ to_append' = <<b>>
  BY DEF Complete
<1>3. Bytes(all) = Bytes(completed) + b.bytes
  BY BytesAppend DEF TypeOK
<1>4. Bytes(completed) \in Nat /\ b.bytes \in Nat
  BY BytesNat DEF TypeOK, Bucket
<1> HIDE DEF all, allw
<1>5. /\ Trim(all) \in Seq(Bucket) /\ Len(Trim(all)) <= max_hours
      /\ Len(Trim(all)) = IF Len(all) > max_hours THEN max_hours ELSE Len(all)
      /\ Drops(all, Trim(all), Len(all) - Len(Trim(all)))
  BY <1>1, TrimDrops
<1>6. /\ Trim(allw) \in Seq(BOOLEAN)
      /\ Len(Trim(allw)) = IF Len(allw) > max_hours THEN max_hours ELSE Len(allw)
  BY <1>1, TrimDrops
<1>7. Bytes(Trim(all)) <= Bytes(all) /\ Bytes(Trim(all)) \in Nat
  BY <1>1, <1>5, BytesDrops, BytesNat
<1>8. trimmed \in Nat
  BY DEF TypeOK
<1>9. trimmed' \in Nat /\ trimmed' + Bytes(Trim(all)) = trimmed + Bytes(completed) + b.bytes
  BY <1>2, <1>3, <1>4, <1>7, <1>8
<1>10. Len(Trim(allw)) = Len(Trim(all))
  BY <1>1, <1>5, <1>6
<1>11. <<b>> \in Seq(Bucket)
  OBVIOUS
<1> QED BY <1>2, <1>5, <1>6, <1>9, <1>10, <1>11 DEF all, allw

LEMMA OneBucket ==
  ASSUME NEW s \in Seq(Bucket), Len(s) <= 1, s # <<>>
  PROVE  Len(s) = 1 /\ s[1] \in Bucket /\ s = <<s[1]>>
<1>1. Len(s) \in Nat \ {0}
  BY EmptySeq, Zenon
<1>2. Len(s) = 1
  BY <1>1
<1>3. s[1] \in Bucket
  BY <1>2
<1>4. <<s[1]>> \in Seq(Bucket) /\ Len(<<s[1]>>) = 1 /\ <<s[1]>>[1] = s[1]
  BY <1>3
<1>5. s = <<s[1]>>
  BY <1>2, <1>4, SeqEqual
<1> QED BY <1>2, <1>3, <1>5

\* The bucket of the current hour, if there is one.
LEMMA CurrentBucket ==
  ASSUME TypeOK, current # <<>>
  PROVE  current[1] \in Bucket /\ current = <<current[1]>>
BY OneBucket DEF TypeOK

\* What a restart restores, and what it leaves of the files.
LEMMA RestartFacts ==
  ASSUME TypeOK, Restart
  PROVE  /\ restored' \in BOOLEAN /\ (restored' => completed' = ring /\ ring' = ring)
         /\ completed' = ring \/ completed' = <<>>
         /\ ring' = ring \/ ring' = <<>>
         /\ ~restored' => completed' = <<>>
         /\ current' = hour_file \/ current' = <<>>
         /\ current' # <<>> => hour_file # <<>> /\ hour_file[1].start = hour
         /\ UNCHANGED fileVars \/ (hour_file' = <<>> /\ file_exists' = FALSE)
         /\ completed' \in Seq(Bucket) /\ Len(completed') <= max_hours
         /\ written' \in Seq(BOOLEAN) /\ Len(written') = Len(completed')
         /\ \A i \in 1..Len(completed') : written'[i] = TRUE
         /\ cumulative' = Bytes(completed') + Bytes(current')
<1>1. ring \in Seq(Bucket) /\ Len(ring) <= max_hours
  BY DEF TypeOK
<1>2. Trim(ring) = ring
  BY <1>1, TrimFits
<1>3. PICK in_topology \in BOOLEAN, reads_ring \in BOOLEAN, reads_hour \in BOOLEAN :
        LoadRing(in_topology, reads_ring) /\ LoadCurrentHour(in_topology, reads_hour)
  BY Zenon DEF Restart
<1>4. /\ restored' \in BOOLEAN
      /\ restored' => completed' = ring /\ ring' = ring
      /\ ~restored' => completed' = <<>>
  <2>1. restored' = (in_topology /\ reads_ring)
    BY <1>3, Zenon DEF LoadRing
  <2>2. restored' \in BOOLEAN
    BY <2>1, Zenon
  <2>3. ASSUME in_topology /\ reads_ring PROVE completed' = ring /\ ring' = ring
    BY <1>2, <1>3, <2>3 DEF LoadRing
  <2>4. ASSUME ~(in_topology /\ reads_ring) PROVE completed' = <<>>
    BY <1>3, <2>4 DEF LoadRing
  <2> QED BY <2>1, <2>2, <2>3, <2>4, Zenon
<1>5. ring' = ring \/ ring' = <<>>
  BY <1>3 DEF LoadRing
<1>6. /\ current' = hour_file \/ current' = <<>>
      /\ current' # <<>> => hour_file # <<>> /\ hour_file[1].start = hour
      /\ UNCHANGED fileVars \/ (hour_file' = <<>> /\ file_exists' = FALSE)
  <2>1. current' = IF in_topology /\ reads_hour /\ hour_file # <<>> /\ SameHour(hour_file[1])
                   THEN hour_file ELSE <<>>
    BY <1>3, Zenon DEF LoadCurrentHour
  <2>2. UNCHANGED fileVars \/ (hour_file' = <<>> /\ file_exists' = FALSE)
    BY <1>3, Zenon DEF LoadCurrentHour
  <2>3. CASE in_topology /\ reads_hour /\ hour_file # <<>> /\ SameHour(hour_file[1])
    BY <2>1, <2>2, <2>3 DEF SameHour
  <2>4. CASE ~(in_topology /\ reads_hour /\ hour_file # <<>> /\ SameHour(hour_file[1]))
    BY <2>1, <2>2, <2>4
  <2> QED BY <2>3, <2>4, Zenon
<1>7. completed' = ring \/ completed' = <<>>
  BY <1>4
<1>8. completed' \in Seq(Bucket) /\ Len(completed') <= max_hours /\ Len(completed') \in Nat
  <2>1. <<>> \in Seq(Bucket) /\ Len(<<>>) <= max_hours /\ Len(<<>>) \in Nat
    BY MaxHoursAssumption
  <2>2. CASE completed' = ring
    <3>1. Len(ring) \in Nat
      BY <1>1
    <3> QED BY <1>1, <2>2, <3>1, Zenon
  <2>3. CASE completed' = <<>>
    BY <2>1, <2>3, Zenon
  <2> QED BY <1>7, <2>2, <2>3, Zenon
<1>9. written' = [i \in 1..Len(completed') |-> TRUE]
  <2>1. DOMAIN completed' = 1..Len(completed')
    BY <1>8
  <2> QED BY <2>1, Zenon DEF Restart
<1>10. written' \in Seq(BOOLEAN) /\ Len(written') = Len(completed')
  <2>1. written' \in [1..Len(completed') -> BOOLEAN]
    BY <1>9, Zenon
  <2> QED BY <1>8, <2>1, FunctionSeq
<1>11. \A i \in 1..Len(completed') : written'[i] = TRUE
  BY <1>9
<1>12. cumulative' = Bytes(completed') + Bytes(current')
  BY DEF Restart
<1> QED BY <1>4, <1>5, <1>6, <1>7, <1>8, <1>10, <1>11, <1>12, Zenon

-----------------------------------------------------------------------------
LEMMA TypeInit == Init => TypeOK
<1> SUFFICES ASSUME Init PROVE TypeOK
  OBVIOUS
<1>1. <<>> \in Seq(Bucket) /\ <<>> \in Seq(BOOLEAN) /\ Len(<<>>) = 0
  OBVIOUS
<1>2. panicked \in BOOLEAN /\ file_exists \in BOOLEAN
  BY Zenon DEF Init
<1> QED BY <1>1, <1>2, BoundsAssumption, MaxHoursAssumption DEF Init, TypeOK

LEMMA TypeNext == TypeOK /\ [Next]_vars => TypeOK'
<1> SUFFICES ASSUME TypeOK, [Next]_vars PROVE TypeOK'
  OBVIOUS
\* A step of the histogram leaves clock, files and restarts alone.
<1>0. ASSUME UNCHANGED <<clockVars, ring, fileVars, startVars>>,
             current' \in Seq(Bucket), Len(current') <= 1,
             \/ NotComplete
             \/ \E b \in Bucket : Complete(b),
             cumulative' \in Nat, total' \in Nat, lost' \in Nat, panicked' \in BOOLEAN
      PROVE  TypeOK'
  <2>1. CASE NotComplete
    BY <1>0, <2>1 DEF NotComplete, clockVars, fileVars, startVars, TypeOK
  <2>2. ASSUME NEW b \in Bucket, Complete(b) PROVE TypeOK'
    <3>1. /\ completed' \in Seq(Bucket) /\ Len(completed') <= max_hours
          /\ written' \in Seq(BOOLEAN) /\ Len(written') = Len(completed')
          /\ trimmed' \in Nat
          /\ to_append' = <<b>> /\ to_append' \in Seq(Bucket)
      BY <2>2, CompleteFacts
    <3>2. Len(to_append') <= 1
      BY <3>1
    <3> QED BY <1>0, <3>1, <3>2 DEF clockVars, fileVars, startVars, TypeOK
  <2> QED BY <1>0, <2>1, <2>2
<1>1. ASSUME NEW bytes \in {0, 1}, Ingest(bytes) PROVE TypeOK'
  <2>1. cumulative' \in Nat /\ total' \in Nat
    BY <1>1 DEF Ingest, BookBytes, TypeOK
  <2>2. CASE current # <<>> /\ ~HourIsOver(current[1])
    <3>1. current' = <<[current[1] EXCEPT !.bytes = @ + bytes]>> /\ NotComplete
      BY <1>1, <2>2 DEF Ingest
    <3>2. current[1] \in Bucket
      BY <2>2, CurrentBucket
    <3>3. [current[1] EXCEPT !.bytes = @ + bytes] \in Bucket
      BY <3>2 DEF Bucket
    <3>4. current' \in Seq(Bucket) /\ Len(current') <= 1
      BY <3>1, <3>3
    <3> QED BY <1>0, <1>1, <2>1, <3>1, <3>4 DEF Ingest, TypeOK
  <2>3. CASE ~(current # <<>> /\ ~HourIsOver(current[1]))
    <3>1. /\ current' = <<[start |-> hour, bytes |-> bytes]>>
          /\ \/ NotComplete
             \/ current # <<>> /\ Complete(current[1])
      BY <1>1, <2>3 DEF Ingest
    <3>2. [start |-> hour, bytes |-> bytes] \in Bucket
      BY DEF TypeOK, Bucket
    <3>3. current' \in Seq(Bucket) /\ Len(current') <= 1
      BY <3>1, <3>2
    <3>4. NotComplete \/ \E b \in Bucket : Complete(b)
      BY <3>1, CurrentBucket
    <3> QED BY <1>0, <1>1, <2>1, <3>3, <3>4 DEF Ingest, TypeOK
  <2> QED BY <2>2, <2>3
<1>2. ASSUME NEW bytes \in {0, 1}, IngestPanics(bytes) PROVE TypeOK'
  <2>1. cumulative' \in Nat /\ total' \in Nat /\ lost' \in Nat
    BY <1>2 DEF IngestPanics, BookBytes, TypeOK
  <2>2. panicked' \in BOOLEAN
    BY <1>2, Zenon DEF IngestPanics
  <2> QED BY <1>0, <1>2, <2>1, <2>2 DEF IngestPanics, TypeOK
<1>3. CASE IngestOffline
  <2>1. current[1] \in Bucket /\ Complete(current[1])
    BY <1>3, CurrentBucket DEF IngestOffline
  <2>2. current' \in Seq(Bucket) /\ Len(current') <= 1
    BY <1>3 DEF IngestOffline
  <2> QED BY <1>0, <1>3, <2>1, <2>2 DEF IngestOffline, TypeOK
<1>4. CASE AppendBucket
  <2>1. ring \o to_append \in Seq(Bucket)
    BY DEF TypeOK
  <2>2. ring' \in Seq(Bucket) /\ Len(ring') <= max_hours
    BY <1>4, <2>1, TrimDrops DEF AppendBucket
  <2>3. to_append' \in Seq(Bucket) /\ Len(to_append') <= 1
    BY <1>4 DEF AppendBucket
  <2> QED BY <1>4, <2>2, <2>3 DEF AppendBucket, clockVars, memVars, fileVars, startVars, TypeOK
<1>5. CASE AppendFails
  <2>1. to_append' \in Seq(Bucket) /\ Len(to_append') <= 1
    BY <1>5 DEF AppendFails
  <2>2. written' = [written EXCEPT ![Len(written)] = FALSE]
    BY <1>5 DEF AppendFails
  <2>3. written' \in Seq(BOOLEAN) /\ Len(written') = Len(written)
    <3>1. Len(written) \in Nat /\ written \in [1..Len(written) -> BOOLEAN]
      BY DEF TypeOK
    <3>2. written' \in [1..Len(written) -> BOOLEAN]
      BY <2>2, <3>1, Zenon
    <3> QED BY <3>1, <3>2, FunctionSeq
  <2> QED BY <1>5, <2>1, <2>3 DEF AppendFails, clockVars, fileVars, startVars, TypeOK
<1>6. CASE SaveCurrentHour
  <2>1. file_exists' \in BOOLEAN
    BY <1>6, Zenon DEF SaveCurrentHour
  <2>2. hour_file' \in Seq(Bucket) /\ Len(hour_file') <= 1
    <3>1. <<>> \in Seq(Bucket) /\ Len(<<>>) <= 1
      OBVIOUS
    <3>2. hour_file' = current \/ hour_file' = <<>>
      BY <1>6 DEF SaveCurrentHour
    <3> QED BY <3>1, <3>2 DEF TypeOK
  <2> QED BY <1>6, <2>1, <2>2 DEF SaveCurrentHour, clockVars, memVars, startVars, TypeOK
<1>7. CASE Restart
  <2> DEFINE empty == <<>>
  <2>1. empty \in Seq(Bucket) /\ Len(empty) <= 1 /\ Len(empty) <= max_hours
    BY MaxHoursAssumption
  <2>2. /\ current' = hour_file \/ current' = empty
        /\ ring' = ring \/ ring' = empty
        /\ UNCHANGED fileVars \/ (hour_file' = empty /\ file_exists' = FALSE)
        /\ completed' \in Seq(Bucket) /\ Len(completed') <= max_hours
        /\ written' \in Seq(BOOLEAN) /\ Len(written') = Len(completed')
        /\ cumulative' = Bytes(completed') + Bytes(current')
        /\ restored' \in BOOLEAN
    BY <1>7, RestartFacts
  <2>3. to_append' = empty /\ trimmed' = 0 /\ lost' = 0 /\ UNCHANGED <<hour, steps_back, total>>
    BY <1>7 DEF Restart, clockVars
  <2> HIDE DEF empty
  <2>4. current' \in Seq(Bucket) /\ Len(current') <= 1
    BY <2>1, <2>2 DEF TypeOK
  <2>5. ring' \in Seq(Bucket) /\ Len(ring') <= max_hours
    BY <2>1, <2>2 DEF TypeOK
  <2>6. hour_file' \in Seq(Bucket) /\ Len(hour_file') <= 1
    BY <2>1, <2>2 DEF fileVars, TypeOK
  <2>7. file_exists' \in BOOLEAN
    <3>1. file_exists \in BOOLEAN /\ FALSE \in BOOLEAN
      BY Zenon DEF TypeOK
    <3>2. file_exists' = file_exists \/ file_exists' = FALSE
      BY <2>2 DEF fileVars
    <3> QED BY <3>1, <3>2, Zenon
  <2>8. cumulative' \in Nat
    BY <2>2, <2>4, BytesNat
  <2>9. panicked' \in BOOLEAN
    BY <1>7, Zenon DEF Restart
  <2>10. restarts' \in 0..Restarts
    BY <1>7, BoundsAssumption DEF Restart, TypeOK
  <2> QED BY <2>1, <2>2, <2>3, <2>4, <2>5, <2>6, <2>7, <2>8, <2>9, <2>10 DEF TypeOK
<1>8. CASE HourPasses
  BY <1>8, BoundsAssumption DEF HourPasses, memVars, fileVars, startVars, TypeOK
<1>9. CASE ClockSetBack
  BY <1>9, BoundsAssumption DEF ClockSetBack, memVars, fileVars, startVars, TypeOK
<1>10. CASE UNCHANGED vars
  BY <1>10 DEF vars, clockVars, memVars, fileVars, startVars, TypeOK
<1> QED
  BY <1>1, <1>2, <1>3, <1>4, <1>5, <1>6, <1>7, <1>8, <1>9, <1>10 DEF Next

\* Every reachable state is well typed: buckets have hours of the clock, both
\* lists stay within the capacity, and no sum goes below zero.
THEOREM TypeCorrect == Spec => []TypeOK
  BY TypeInit, TypeNext, PTL DEF Spec

-----------------------------------------------------------------------------
(* Conserved is inductive.                                                 *)

LEMMA ConservedNext == TypeOK /\ Conserved /\ [Next]_vars => Conserved'
<1> SUFFICES ASSUME TypeOK, Conserved, [Next]_vars PROVE Conserved'
  OBVIOUS
<1>0. /\ Bytes(completed) \in Nat /\ Bytes(current) \in Nat /\ trimmed \in Nat /\ lost \in Nat
      /\ cumulative \in Nat
      /\ cumulative = Bytes(completed) + Bytes(current) + trimmed + lost
  BY BytesNat DEF TypeOK, Conserved
<1>1. ASSUME NEW bytes \in {0, 1}, Ingest(bytes) PROVE Conserved'
  <2>1. cumulative' = cumulative + bytes /\ lost' = lost
    BY <1>1 DEF Ingest, BookBytes
  <2>2. CASE current # <<>> /\ ~HourIsOver(current[1])
    <3> DEFINE b == [current[1] EXCEPT !.bytes = @ + bytes]
    <3>1. current' = <<b>> /\ completed' = completed /\ trimmed' = trimmed
      BY <1>1, <2>2 DEF Ingest, NotComplete
    <3>2. current[1] \in Bucket /\ Bytes(current) = current[1].bytes
      BY <2>2, CurrentBucket, BytesOne
    <3>3. b \in Bucket /\ b.bytes = current[1].bytes + bytes
      BY <3>2 DEF Bucket
    <3>4. Bytes(<<b>>) = Bytes(current) + bytes
      BY <3>2, <3>3, BytesOne
    <3> HIDE DEF b
    <3>5. Bytes(current') = Bytes(current) + bytes /\ Bytes(completed') = Bytes(completed)
      BY <3>1, <3>4
    <3> QED BY <1>0, <2>1, <3>1, <3>5 DEF Conserved
  <2>3. CASE ~(current # <<>> /\ ~HourIsOver(current[1]))
    <3> DEFINE b == [start |-> hour, bytes |-> bytes]
    <3>1. current' = <<b>> /\ IF current = <<>> THEN NotComplete ELSE Complete(current[1])
      BY <1>1, <2>3 DEF Ingest
    <3>2. b \in Bucket /\ b.bytes = bytes
      BY DEF TypeOK, Bucket
    <3>3. Bytes(<<b>>) = bytes
      BY <3>2, BytesOne
    <3> HIDE DEF b
    <3>4. Bytes(current') = bytes
      BY <3>1, <3>3
    <3>5. CASE current = <<>>
      <4>1. Bytes(current) = 0
        BY <3>5, BytesEmpty
      <4>2. Bytes(completed') = Bytes(completed) /\ trimmed' = trimmed
        BY <3>1, <3>5 DEF NotComplete
      <4> QED BY <1>0, <2>1, <3>4, <4>1, <4>2 DEF Conserved
    <3>6. CASE current # <<>>
      <4>1. current[1] \in Bucket /\ Bytes(current) = current[1].bytes
        BY <3>6, CurrentBucket, BytesOne
      <4>2. /\ trimmed' \in Nat /\ completed' \in Seq(Bucket)
            /\ trimmed' + Bytes(completed') = trimmed + Bytes(completed) + current[1].bytes
        BY <3>1, <3>6, <4>1, CompleteFacts
      <4>3. Bytes(completed') \in Nat
        BY <4>2, BytesNat
      <4>4. trimmed' + Bytes(completed') = trimmed + Bytes(completed) + Bytes(current)
        BY <4>1, <4>2
      <4>5. cumulative + bytes = Bytes(completed') + bytes + trimmed' + lost
        <5> DEFINE k == Bytes(completed)
                   u == Bytes(current)
                   k2 == Bytes(completed')
                   t2 == trimmed'
        <5>1. /\ k \in Nat /\ u \in Nat /\ k2 \in Nat /\ t2 \in Nat
              /\ trimmed \in Nat /\ lost \in Nat /\ bytes \in Nat
              /\ cumulative = k + u + trimmed + lost /\ t2 + k2 = trimmed + k + u
          BY <1>0, <4>2, <4>3, <4>4
        <5> HIDE DEF k, u, k2, t2
        <5>2. cumulative + bytes = k2 + bytes + t2 + lost
          BY ONLY <5>1
        <5> QED BY <5>2 DEF k2, t2
      <4> QED BY <2>1, <3>4, <4>5 DEF Conserved
    <3> QED BY <3>5, <3>6
  <2> QED BY <2>2, <2>3
<1>2. ASSUME NEW bytes \in {0, 1}, IngestPanics(bytes) PROVE Conserved'
  <2>1. /\ cumulative' = cumulative + bytes /\ lost' = lost + bytes
        /\ completed' = completed /\ current' = current /\ trimmed' = trimmed
    BY <1>2 DEF IngestPanics, BookBytes, NotComplete
  <2>2. Bytes(completed') = Bytes(completed) /\ Bytes(current') = Bytes(current)
    BY <2>1
  <2> QED BY <1>0, <2>1, <2>2 DEF Conserved
<1>3. CASE IngestOffline
  <2>1. /\ current # <<>> /\ current' = <<>> /\ Complete(current[1])
        /\ cumulative' = cumulative /\ lost' = lost
    BY <1>3 DEF IngestOffline
  <2>2. current[1] \in Bucket /\ Bytes(current) = current[1].bytes
    BY <2>1, CurrentBucket, BytesOne
  <2>3. /\ trimmed' \in Nat /\ completed' \in Seq(Bucket)
        /\ trimmed' + Bytes(completed') = trimmed + Bytes(completed) + current[1].bytes
    BY <2>1, <2>2, CompleteFacts
  <2>4. Bytes(current') = 0 /\ Bytes(completed') \in Nat
    BY <2>1, <2>3, BytesEmpty, BytesNat
  <2> QED BY <1>0, <2>1, <2>2, <2>3, <2>4 DEF Conserved
<1>4. CASE Restart
  <2>1. cumulative' = Bytes(completed') + Bytes(current') /\ completed' \in Seq(Bucket)
    BY <1>4, RestartFacts
  <2>2. trimmed' = 0 /\ lost' = 0
    BY <1>4 DEF Restart
  <2>3. (current' = hour_file \/ current' = <<>>) /\ <<>> \in Seq(Bucket)
    BY <1>4, RestartFacts
  <2>4. Bytes(completed') \in Nat /\ Bytes(current') \in Nat
    BY <2>1, <2>3, BytesNat DEF TypeOK
  <2> QED BY <2>1, <2>2, <2>4 DEF Conserved
<1>5. ASSUME UNCHANGED <<cumulative, completed, current, trimmed, lost>> PROVE Conserved'
  <2>1. Bytes(completed') = Bytes(completed) /\ Bytes(current') = Bytes(current)
    BY <1>5
  <2> QED BY <1>5, <2>1 DEF Conserved
<1>6. CASE AppendBucket
  BY <1>5, <1>6 DEF AppendBucket, memVars
<1>7. CASE AppendFails
  BY <1>5, <1>7 DEF AppendFails
<1>8. CASE SaveCurrentHour
  BY <1>5, <1>8 DEF SaveCurrentHour, memVars
<1>9. CASE HourPasses \/ ClockSetBack
  BY <1>5, <1>9 DEF HourPasses, ClockSetBack, memVars
<1>10. CASE UNCHANGED vars
  BY <1>5, <1>10 DEF vars, memVars
<1> QED
  BY <1>1, <1>2, <1>3, <1>4, <1>6, <1>7, <1>8, <1>9, <1>10 DEF Next

\* The cumulative counter and the histogram tell the same story, for every
\* capacity and whatever the clock does: a rollover, an offline flush, a
\* failed append and a restart neither lose nor invent a byte
\* (ingest_device, cumulative_from_all).
THEOREM ConservedHolds == Spec => []Conserved
<1>1. Init => Conserved
  <2> SUFFICES ASSUME Init PROVE Conserved
    OBVIOUS
  <2>1. Bytes(completed) = 0 /\ Bytes(current) = 0
    BY BytesEmpty DEF Init
  <2> QED BY <2>1 DEF Init, Conserved
<1> QED BY <1>1, TypeInit, TypeNext, ConservedNext, PTL DEF Spec

-----------------------------------------------------------------------------
(* While the clock is not set back.                                        *)

Sorted(s) == \A i, j \in DOMAIN s : i < j => s[i].start < s[j].start
Before(s, h) == \A i \in DOMAIN s : s[i].start < h

\* Completed buckets are older than the one to append, which is older than
\* the current one, which is not of a later hour than the clock.
InOrder ==
  /\ Sorted(completed) /\ Before(completed, hour)
  /\ Sorted(ring) /\ Before(ring, hour)
  /\ Before(to_append, hour)
  /\ to_append # <<>> => Before(ring, to_append[1].start)
  /\ current # <<>> =>
       /\ current[1].start <= hour
       /\ Before(completed, current[1].start) /\ Before(ring, current[1].start)
       /\ Before(to_append, current[1].start)

\* The ring, what is to be appended and the current bucket hold no byte
\* twice.  Nor do the first two and a saved bucket of this hour, which is an
\* earlier state of the current one unless a start went on without it.
FilesOnce ==
  /\ Bytes(ring) + Bytes(to_append) + Bytes(current) <= total
  /\ hour_file # <<>> => hour_file[1].start <= hour
  /\ hour_file # <<>> /\ hour_file[1].start = hour =>
       /\ current # <<>> => current[1].start = hour
       /\ Bytes(ring) + Bytes(to_append) + Bytes(hour_file) <= total

ClockInv == steps_back = 0 => InOrder /\ FilesOnce

LEMMA StartInt == \A b \in Bucket : b.start \in Int
BY BoundsAssumption DEF Bucket

LEMMA BeforeLater ==
  ASSUME NEW s \in Seq(Bucket), NEW g \in Int, NEW h \in Int, Before(s, g), g <= h
  PROVE  Before(s, h)
<1>1. \A i \in DOMAIN s : s[i].start \in Int
  BY StartInt
<1> QED BY <1>1 DEF Before

LEMMA BeforeEmpty == \A h : Before(<<>>, h)
BY DEF Before

LEMMA BeforeOne ==
  ASSUME NEW b \in Bucket, NEW h \in Int, b.start < h
  PROVE  Before(<<b>>, h)
BY DEF Before

\* A bucket that is later than all others is completed in order.
LEMMA TrimSorted ==
  ASSUME NEW s \in Seq(Bucket), NEW b \in Bucket, Sorted(s), Before(s, b.start)
  PROVE  /\ Sorted(Trim(Append(s, b)))
         /\ \A h \in Int : b.start < h => Before(Trim(Append(s, b)), h)
<1> DEFINE t == Append(s, b)
           u == Trim(t)
           d == Len(t) - Len(u)
<1>1. t \in Seq(Bucket) /\ Len(t) = Len(s) + 1 /\ t[Len(s) + 1] = b
      /\ (\A i \in 1..Len(s) : t[i] = s[i])
  OBVIOUS
<1>2. \A i \in 1..Len(t) : t[i].start \in Int /\ t[i].start <= b.start
  <2>1. \A i \in 1..Len(s) : s[i].start \in Int /\ s[i].start < b.start
    BY StartInt DEF Before
  <2>2. b.start \in Int
    BY StartInt
  <2> QED BY <1>1, <2>1, <2>2
<1>3. \A i, j \in 1..Len(t) : i < j => t[i].start < t[j].start
  <2> SUFFICES ASSUME NEW i \in 1..Len(t), NEW j \in 1..Len(t), i < j
               PROVE  t[i].start < t[j].start
    OBVIOUS
  <2>1. i \in 1..Len(s) /\ t[i] = s[i]
    BY <1>1
  <2>2. CASE j = Len(s) + 1
    BY <1>1, <2>1, <2>2 DEF Before
  <2>3. CASE j # Len(s) + 1
    BY <1>1, <2>1, <2>3 DEF Sorted
  <2> QED BY <2>2, <2>3
<1> HIDE DEF t
<1>4. u \in Seq(Bucket) /\ Drops(t, u, d)
  BY <1>1, TrimDrops
<1>5. /\ d \in 0..Len(t) /\ Len(u) = Len(t) - d /\ DOMAIN u = 1..Len(u)
      /\ \A i \in 1..Len(u) : u[i] = t[d + i]
  BY <1>4 DEF Drops
<1> HIDE DEF u, d
<1>6. \A i \in 1..Len(u) : d + i \in 1..Len(t)
  BY <1>1, <1>5
<1>7. Sorted(u)
  <2> SUFFICES ASSUME NEW i \in 1..Len(u), NEW j \in 1..Len(u), i < j
               PROVE  u[i].start < u[j].start
    BY <1>5 DEF Sorted
  <2>1. d + i < d + j
    BY <1>5
  <2> QED BY <1>3, <1>5, <1>6, <2>1
<1>8. ASSUME NEW h \in Int, b.start < h PROVE Before(u, h)
  <2> SUFFICES ASSUME NEW i \in 1..Len(u) PROVE u[i].start < h
    BY <1>5 DEF Before
  <2>1. u[i].start \in Int /\ u[i].start <= b.start
    BY <1>2, <1>5, <1>6
  <2>2. b.start \in Int
    BY DEF Bucket
  <2> QED BY <1>8, <2>1, <2>2
<1> QED BY <1>7, <1>8 DEF t, u

\* Completing the current bucket once its hour is over keeps the order.
LEMMA CompleteInOrder ==
  ASSUME TypeOK, InOrder, current # <<>>, current[1].start < hour, Complete(current[1]),
         UNCHANGED <<hour, ring>>, current' # <<>> => current'[1].start = hour
  PROVE  InOrder'
<1> DEFINE b == current[1]
<1>1. b \in Bucket /\ b.start \in Int /\ hour \in Int /\ b.start < hour
  BY CurrentBucket, StartInt DEF TypeOK
<1>2. /\ Sorted(completed) /\ Before(completed, b.start) /\ Before(ring, b.start)
      /\ Sorted(ring) /\ Before(ring, hour)
  BY DEF InOrder
<1>3. completed' = Trim(Append(completed, b)) /\ to_append' = <<b>>
  BY <1>1, CompleteFacts
<1> HIDE DEF b
<1>4. Sorted(completed') /\ Before(completed', hour)
  BY <1>1, <1>2, <1>3, TrimSorted DEF TypeOK
<1>5. Before(to_append', hour) /\ to_append'[1] = b
  BY <1>1, <1>3, BeforeOne
<1>6. current' # <<>> => current'[1].start <= hour /\ current'[1].start = hour
  BY <1>1
<1> QED BY <1>2, <1>4, <1>5, <1>6 DEF InOrder

\* A step that completes nothing.
LEMMA StaysInOrder ==
  ASSUME TypeOK, InOrder, UNCHANGED <<hour, completed, ring, to_append>>,
         current' # <<>> =>
           \/ current'[1].start = hour
           \/ current # <<>> /\ current'[1].start = current[1].start
  PROVE  InOrder'
<1>1. /\ Sorted(completed) /\ Before(completed, hour)
      /\ Sorted(ring) /\ Before(ring, hour) /\ Before(to_append, hour)
      /\ to_append # <<>> => Before(ring, to_append[1].start)
  BY DEF InOrder
<1>2. current' # <<>> =>
        /\ current'[1].start <= hour
        /\ Before(completed, current'[1].start) /\ Before(ring, current'[1].start)
        /\ Before(to_append, current'[1].start)
  BY DEF InOrder, TypeOK
<1> QED BY <1>1, <1>2 DEF InOrder

\* A tick that adds bytes to the current bucket, or begins a new one.
LEMMA IngestOnce ==
  ASSUME TypeOK, InOrder, FilesOnce, NEW bytes \in {0, 1}, Ingest(bytes)
  PROVE  InOrder' /\ FilesOnce'
<1>0. /\ to_append = <<>> /\ total' = total + bytes
      /\ UNCHANGED <<hour, ring, hour_file>> /\ total \in Nat /\ hour \in Int
  BY DEF Ingest, TickBegins, BookBytes, clockVars, fileVars, TypeOK
<1>1. Bytes(ring) \in Nat /\ Bytes(current) \in Nat /\ Bytes(to_append) = 0
      /\ Bytes(ring') = Bytes(ring)
  BY <1>0, BytesNat, BytesEmpty DEF TypeOK
<1>2. Bytes(ring) + Bytes(current) <= total
  BY <1>1 DEF FilesOnce
<1>3. CASE current # <<>> /\ ~HourIsOver(current[1])
  <2> DEFINE b == [current[1] EXCEPT !.bytes = @ + bytes]
  <2>1. current' = <<b>> /\ UNCHANGED <<completed, to_append>>
    BY <1>3 DEF Ingest, NotComplete
  <2>2. current[1] \in Bucket /\ Bytes(current) = current[1].bytes
    BY <1>3, CurrentBucket, BytesOne
  <2>3. b \in Bucket /\ b.bytes = current[1].bytes + bytes /\ b.start = current[1].start
        /\ current[1].bytes \in Nat
    BY <2>2 DEF Bucket
  <2>4. Bytes(<<b>>) = Bytes(current) + bytes
    BY <2>2, <2>3, BytesOne
  <2> HIDE DEF b
  <2>5. current' # <<>> /\ current'[1] = b
    BY <2>1
  <2>6. InOrder'
    BY <1>0, <1>3, <2>1, <2>3, <2>5, StaysInOrder
  <2>7. Bytes(current') = Bytes(current) + bytes /\ Bytes(to_append') = 0
    BY <1>1, <2>1, <2>4
  <2>8. Bytes(ring') + Bytes(to_append') + Bytes(current') <= total'
    BY <1>0, <1>1, <1>2, <2>7
  <2>9. /\ hour_file # <<>> => hour_file[1].start <= hour
        /\ hour_file # <<>> /\ hour_file[1].start = hour =>
             /\ current' # <<>> => current'[1].start = hour
             /\ Bytes(ring') + Bytes(to_append') + Bytes(hour_file) <= total'
    <3>1. Bytes(hour_file) \in Nat
      BY BytesNat DEF TypeOK
    <3>2. current'[1].start = hour
      BY <1>3, <2>3, <2>5 DEF HourIsOver
    <3> QED BY <1>0, <1>1, <2>7, <3>1, <3>2 DEF FilesOnce
  <2> QED BY <1>0, <2>6, <2>8, <2>9 DEF FilesOnce
<1>4. CASE ~(current # <<>> /\ ~HourIsOver(current[1]))
  <2> DEFINE b == [start |-> hour, bytes |-> bytes]
  <2>1. current' = <<b>> /\ IF current = <<>> THEN NotComplete ELSE Complete(current[1])
    BY <1>4 DEF Ingest
  <2>2. b \in Bucket /\ b.bytes = bytes /\ b.start = hour
    BY DEF TypeOK, Bucket
  <2>3. Bytes(<<b>>) = bytes
    BY <2>2, BytesOne
  <2> HIDE DEF b
  <2>4. current' # <<>> /\ current'[1].start = hour /\ Bytes(current') = bytes
    BY <2>1, <2>2, <2>3
  \* A saved bucket of this hour would be one of the current bucket.
  <2>5. /\ hour_file # <<>> => hour_file[1].start <= hour
        /\ hour_file # <<>> /\ current # <<>> => hour_file[1].start # hour
    BY <1>4 DEF FilesOnce, HourIsOver
  <2>6. CASE current = <<>>
    <3>1. UNCHANGED <<completed, to_append>>
      BY <2>1, <2>6 DEF NotComplete
    <3>2. InOrder'
      BY <1>0, <2>4, <3>1, StaysInOrder
    <3>3. Bytes(ring') + Bytes(to_append') + Bytes(current') <= total'
      BY <1>0, <1>1, <1>2, <2>4, <3>1
    <3>4. hour_file # <<>> /\ hour_file[1].start = hour =>
            Bytes(ring') + Bytes(to_append') + Bytes(hour_file) <= total'
      <4>1. Bytes(hour_file) \in Nat
        BY BytesNat DEF TypeOK
      <4> QED BY <1>0, <1>1, <3>1, <4>1 DEF FilesOnce
    <3> QED BY <1>0, <2>4, <2>5, <3>2, <3>3, <3>4 DEF FilesOnce
  <2>7. CASE current # <<>>
    <3>1. current[1] \in Bucket /\ Bytes(current) = current[1].bytes /\ current[1].start \in Int
      BY <2>7, CurrentBucket, BytesOne, StartInt
    <3>2. current[1].start < hour
      BY <1>0, <1>4, <2>7, <3>1 DEF InOrder, HourIsOver
    <3>3. InOrder'
      BY <1>0, <2>1, <2>4, <2>7, <3>2, CompleteInOrder
    <3>4. to_append' = <<current[1]>>
      BY <2>1, <2>7, <3>1, CompleteFacts
    <3>5. Bytes(to_append') = Bytes(current)
      BY <3>1, <3>4, BytesOne
    <3>6. Bytes(ring') + Bytes(to_append') + Bytes(current') <= total'
      BY <1>0, <1>1, <1>2, <2>4, <3>5
    <3> QED BY <1>0, <2>5, <2>7, <3>3, <3>6 DEF FilesOnce
  <2> QED BY <2>6, <2>7
<1> QED BY <1>3, <1>4

LEMMA OfflineOnce ==
  ASSUME TypeOK, InOrder, FilesOnce, IngestOffline
  PROVE  InOrder' /\ FilesOnce'
<1>0. /\ to_append = <<>> /\ current # <<>> /\ current[1].start < hour
      /\ current' = <<>> /\ Complete(current[1])
      /\ UNCHANGED <<hour, ring, hour_file, total>> /\ hour \in Int /\ total \in Nat
  BY DEF IngestOffline, TickBegins, Ended, clockVars, fileVars, TypeOK
<1>1. current[1] \in Bucket /\ Bytes(current) = current[1].bytes /\ current[1].start \in Int
  BY <1>0, CurrentBucket, BytesOne, StartInt
<1>2. InOrder'
  BY <1>0, CompleteInOrder
<1>3. to_append' = <<current[1]>>
  BY <1>0, <1>1, CompleteFacts
<1>4. Bytes(to_append') = Bytes(current) /\ Bytes(current') = 0 /\ Bytes(to_append) = 0
      /\ Bytes(ring) \in Nat /\ Bytes(current) \in Nat /\ Bytes(ring') = Bytes(ring)
  BY <1>0, <1>1, <1>3, BytesOne, BytesEmpty, BytesNat DEF TypeOK
<1>5. Bytes(ring') + Bytes(to_append') + Bytes(current') <= total'
  BY <1>0, <1>4 DEF FilesOnce
<1>6. hour_file # <<>> => hour_file[1].start <= hour /\ hour_file[1].start # hour
  BY <1>0, <1>1 DEF FilesOnce
<1> QED BY <1>0, <1>2, <1>5, <1>6 DEF FilesOnce

LEMMA AppendOnce ==
  ASSUME TypeOK, InOrder, FilesOnce, AppendBucket
  PROVE  InOrder' /\ FilesOnce'
<1> DEFINE b == to_append[1]
<1>0. /\ to_append # <<>> /\ ring' = Trim(ring \o to_append) /\ to_append' = <<>>
      /\ UNCHANGED <<hour, completed, current, hour_file, total>>
      /\ hour \in Int /\ total \in Nat
  BY DEF AppendBucket, memVars, clockVars, fileVars, TypeOK
<1>1. b \in Bucket /\ to_append = <<b>> /\ b.start \in Int
  BY <1>0, OneBucket, StartInt DEF TypeOK
<1>2. ring \o <<b>> = Append(ring, b) /\ Append(ring, b) \in Seq(Bucket) /\ ring \in Seq(Bucket)
  BY <1>1 DEF TypeOK
<1>3. ring' = Trim(Append(ring, b))
  BY <1>0, <1>1, <1>2
<1>4. Sorted(ring) /\ Before(ring, b.start)
  BY <1>0 DEF InOrder
<1>5. /\ b.start < hour
      /\ current # <<>> => b.start < current[1].start /\ current[1].start \in Int
  <2>1. 1 \in DOMAIN to_append
    BY <1>1
  <2> HIDE DEF b
  <2>2. b.start < hour /\ (current # <<>> => b.start < current[1].start)
    BY <2>1 DEF InOrder, Before, b
  <2>3. current # <<>> => current[1].start \in Int
    BY CurrentBucket, StartInt
  <2> QED BY <2>2, <2>3
<1> HIDE DEF b
<1>6. Sorted(ring') /\ \A h \in Int : b.start < h => Before(ring', h)
  BY <1>1, <1>2, <1>3, <1>4, TrimSorted
<1>7. Before(ring', hour) /\ (current # <<>> => Before(ring', current[1].start))
  BY <1>0, <1>5, <1>6
<1>8. InOrder'
  BY <1>0, <1>6, <1>7, BeforeEmpty DEF InOrder
<1>9. Bytes(ring') <= Bytes(ring) + b.bytes /\ ring' \in Seq(Bucket)
  <2>1. Trim(Append(ring, b)) \in Seq(Bucket)
        /\ Drops(Append(ring, b), Trim(Append(ring, b)),
                 Len(Append(ring, b)) - Len(Trim(Append(ring, b))))
    BY <1>2, TrimDrops
  <2>2. Bytes(Trim(Append(ring, b))) <= Bytes(Append(ring, b))
    BY <1>2, <2>1, BytesDrops
  <2>3. Bytes(Append(ring, b)) = Bytes(ring) + b.bytes
    BY <1>1, <1>2, BytesAppend
  <2> QED BY <1>3, <2>1, <2>2, <2>3
<1>10. Bytes(to_append) = b.bytes /\ b.bytes \in Nat /\ Bytes(to_append') = 0
       /\ Bytes(ring) \in Nat /\ Bytes(ring') \in Nat /\ Bytes(current) \in Nat
       /\ Bytes(current') = Bytes(current)
  BY <1>0, <1>1, <1>2, <1>9, BytesOne, BytesEmpty, BytesNat DEF TypeOK, Bucket
<1>11. Bytes(ring') + Bytes(to_append') + Bytes(current') <= total'
  <2>1. Bytes(ring) + b.bytes + Bytes(current) <= total
    BY <1>10 DEF FilesOnce
  <2> QED BY <1>0, <1>9, <1>10, <2>1
<1>12. hour_file # <<>> /\ hour_file[1].start = hour =>
         Bytes(ring') + Bytes(to_append') + Bytes(hour_file) <= total'
  <2>1. Bytes(hour_file) \in Nat
    BY BytesNat DEF TypeOK
  <2> QED BY <1>0, <1>9, <1>10, <2>1 DEF FilesOnce
<1> QED BY <1>0, <1>8, <1>11, <1>12 DEF FilesOnce

LEMMA RestartOnce ==
  ASSUME TypeOK, InOrder, FilesOnce, Restart
  PROVE  InOrder' /\ FilesOnce' /\ cumulative' <= total'
<1>0. /\ to_append' = <<>> /\ UNCHANGED <<hour, total>>
      /\ hour \in Int /\ total \in Nat
  BY DEF Restart, clockVars, TypeOK
<1>1. /\ completed' = ring \/ completed' = <<>>
      /\ ring' = ring \/ ring' = <<>>
      /\ current' = hour_file \/ current' = <<>>
      /\ current' # <<>> => hour_file # <<>> /\ hour_file[1].start = hour
      /\ hour_file' = hour_file \/ hour_file' = <<>>
      /\ cumulative' = Bytes(completed') + Bytes(current')
  BY RestartFacts DEF fileVars
<1>2. Sorted(ring) /\ Before(ring, hour) /\ Sorted(<<>>) /\ Before(<<>>, hour)
  BY BeforeEmpty DEF InOrder, Sorted
<1>3. current' # <<>> => current'[1].start <= hour /\ current'[1].start = hour
  BY <1>0, <1>1
<1>4. InOrder'
  <2>1. Sorted(completed') /\ Before(completed', hour) /\ Sorted(ring') /\ Before(ring', hour)
    BY <1>1, <1>2, Zenon
  <2>2. to_append' = <<>> /\ Before(to_append', hour) /\ hour' = hour
    BY <1>0, BeforeEmpty
  <2> QED BY <1>3, <2>1, <2>2 DEF InOrder
<1>5. /\ Bytes(ring) \in Nat /\ Bytes(to_append) \in Nat /\ Bytes(current) \in Nat
      /\ Bytes(to_append') = 0 /\ Bytes(<<>>) = 0 /\ Bytes(hour_file) \in Nat
      /\ Bytes(ring) + Bytes(to_append) + Bytes(current) <= total
  BY <1>0, BytesNat, BytesEmpty DEF TypeOK, FilesOnce
<1>6. /\ Bytes(ring') \in Nat /\ Bytes(ring') <= Bytes(ring)
      /\ Bytes(completed') \in Nat /\ Bytes(completed') <= Bytes(ring)
  <2>1. Bytes(ring') = Bytes(ring) \/ Bytes(ring') = 0
    BY <1>1, <1>5
  <2>2. Bytes(completed') = Bytes(ring) \/ Bytes(completed') = 0
    BY <1>1, <1>5
  <2> QED BY <1>5, <2>1, <2>2
<1>7. Bytes(current') \in Nat /\ Bytes(ring) + Bytes(current') <= total
  <2>1. CASE current' = <<>>
    <3>1. Bytes(current') = 0
      BY <2>1, BytesEmpty, Zenon
    <3> QED BY <1>0, <1>5, <3>1 DEF TypeOK
  <2>2. CASE current' # <<>>
    <3>1. current' = hour_file /\ hour_file # <<>> /\ hour_file[1].start = hour
      BY <1>1, <2>2
    <3>2. Bytes(ring) + Bytes(to_append) + Bytes(hour_file) <= total
      BY <3>1 DEF FilesOnce
    <3> QED BY <1>0, <1>5, <3>1, <3>2
  <2> QED BY <2>1, <2>2
<1>8. Bytes(ring') + Bytes(to_append') + Bytes(current') <= total' /\ cumulative' <= total'
  BY <1>0, <1>1, <1>5, <1>6, <1>7
<1>9. /\ hour_file' # <<>> => hour_file'[1].start <= hour
      /\ hour_file' # <<>> /\ hour_file'[1].start = hour =>
           /\ current' # <<>> => current'[1].start = hour
           /\ Bytes(ring') + Bytes(to_append') + Bytes(hour_file') <= total'
  <2>1. hour_file' # <<>> => hour_file' = hour_file
    BY <1>1
  <2>2. hour_file # <<>> /\ hour_file[1].start = hour =>
          Bytes(ring) + Bytes(to_append) + Bytes(hour_file) <= total
    BY DEF FilesOnce
  <2>3. hour_file # <<>> /\ hour_file[1].start = hour =>
          Bytes(ring') + Bytes(to_append') + Bytes(hour_file) <= total'
    BY <1>0, <1>5, <1>6, <2>2
  <2>4. hour_file # <<>> => hour_file[1].start <= hour
    BY DEF FilesOnce
  <2> QED BY <1>3, <2>1, <2>3, <2>4
<1> QED BY <1>0, <1>4, <1>8, <1>9 DEF FilesOnce

LEMMA ClockNext ==
  TypeOK /\ ClockInv /\ NeverCountedTwice /\ [Next]_vars => ClockInv' /\ NeverCountedTwice'
<1> SUFFICES ASSUME TypeOK, ClockInv, NeverCountedTwice, [Next]_vars, steps_back' = 0
             PROVE  InOrder' /\ FilesOnce' /\ cumulative' <= total'
  BY DEF ClockInv, NeverCountedTwice
<1>0. steps_back = 0
  BY DEF Next, Ingest, IngestPanics, IngestOffline, AppendBucket, AppendFails,
     SaveCurrentHour, Restart, HourPasses, ClockSetBack, clockVars, vars, TypeOK
<1>1. InOrder /\ FilesOnce /\ cumulative <= total /\ cumulative \in Nat /\ total \in Nat
      /\ hour \in Int
  BY <1>0 DEF ClockInv, NeverCountedTwice, TypeOK
<1>2. ASSUME NEW bytes \in {0, 1}, Ingest(bytes)
      PROVE  InOrder' /\ FilesOnce' /\ cumulative' <= total'
  <2>1. cumulative' <= total'
    BY <1>1, <1>2 DEF Ingest, BookBytes
  <2> QED BY <1>1, <1>2, <2>1, IngestOnce
\* A step that moves no bucket.
<1>3. ASSUME UNCHANGED <<hour, completed, current, ring, to_append>>,
             \/ hour_file' = hour_file
             \/ hour_file' = current
             \/ hour_file' = <<>>,
             total <= total', total' \in Nat
      PROVE  InOrder' /\ FilesOnce'
  <2>1. InOrder'
    BY <1>1, <1>3, StaysInOrder
  <2>2. /\ Bytes(ring') = Bytes(ring) /\ Bytes(to_append') = Bytes(to_append)
        /\ Bytes(current') = Bytes(current)
        /\ Bytes(ring) \in Nat /\ Bytes(to_append) \in Nat /\ Bytes(current) \in Nat
    BY <1>3, BytesNat DEF TypeOK
  <2>3. Bytes(ring') + Bytes(to_append') + Bytes(current') <= total'
    <3>1. Bytes(ring) + Bytes(to_append) + Bytes(current) <= total
      BY <1>1 DEF FilesOnce
    <3> QED BY <1>1, <1>3, <2>2, <3>1
  <2>4. current # <<>> => current[1].start <= hour /\ current[1].bytes \in Nat
    BY <1>1, CurrentBucket DEF InOrder, Bucket
  <2>5. CASE hour_file' = hour_file
    <3>1. Bytes(hour_file) \in Nat
      BY BytesNat DEF TypeOK
    <3>2. hour_file # <<>> /\ hour_file[1].start = hour =>
            Bytes(ring') + Bytes(to_append') + Bytes(hour_file) <= total'
      BY <1>1, <1>3, <2>2, <3>1 DEF FilesOnce
    <3> QED BY <1>1, <1>3, <2>1, <2>3, <2>5, <3>2 DEF FilesOnce
  <2>6. CASE hour_file' = current
    BY <1>3, <2>1, <2>3, <2>4, <2>6 DEF FilesOnce
  <2>7. CASE hour_file' = <<>>
    BY <2>1, <2>3, <2>7 DEF FilesOnce
  <2> QED BY <1>3, <2>5, <2>6, <2>7
<1>4. ASSUME NEW bytes \in {0, 1}, IngestPanics(bytes)
      PROVE  InOrder' /\ FilesOnce' /\ cumulative' <= total'
  <2>1. cumulative' <= total' /\ total <= total' /\ total' \in Nat
    BY <1>1, <1>4 DEF IngestPanics, BookBytes
  <2> QED
    BY <1>3, <1>4, <2>1 DEF IngestPanics, NotComplete, clockVars, fileVars
<1>5. CASE IngestOffline
  BY <1>1, <1>5, OfflineOnce DEF IngestOffline
<1>6. CASE AppendBucket
  BY <1>1, <1>6, AppendOnce DEF AppendBucket, memVars
<1>7. CASE AppendFails
  <2>1. /\ to_append' = <<>>
        /\ UNCHANGED <<hour, completed, current, ring, hour_file, total, cumulative>>
    BY <1>7 DEF AppendFails, clockVars, fileVars
  <2>2. InOrder'
    BY <1>1, <2>1, BeforeEmpty DEF InOrder
  <2>3. /\ Bytes(ring') = Bytes(ring) /\ Bytes(to_append') = 0
        /\ Bytes(current') = Bytes(current)
        /\ Bytes(ring) \in Nat /\ Bytes(to_append) \in Nat /\ Bytes(current) \in Nat
    BY <2>1, BytesNat, BytesEmpty DEF TypeOK
  <2>4. Bytes(ring') + Bytes(to_append') + Bytes(current') <= total'
    <3>1. Bytes(ring) + Bytes(to_append) + Bytes(current) <= total
      BY <1>1 DEF FilesOnce
    <3> QED BY <1>1, <2>1, <2>3, <3>1
  <2>5. hour_file # <<>> /\ hour_file[1].start = hour =>
          Bytes(ring') + Bytes(to_append') + Bytes(hour_file) <= total'
    <3>1. Bytes(hour_file) \in Nat
      BY BytesNat DEF TypeOK
    <3> QED BY <1>1, <2>1, <2>3, <3>1 DEF FilesOnce
  <2> QED BY <1>1, <2>1, <2>2, <2>4, <2>5 DEF FilesOnce
<1>8. CASE SaveCurrentHour
  <2>1. /\ UNCHANGED <<hour, completed, current, ring, to_append, total, cumulative>>
        /\ hour_file' = current \/ hour_file' = <<>>
    BY <1>8 DEF SaveCurrentHour, clockVars, memVars
  <2> QED BY <1>1, <1>3, <2>1
<1>9. CASE Restart
  BY <1>1, <1>9, RestartOnce
<1>10. CASE HourPasses
  <2>1. /\ hour' = hour + 1
        /\ UNCHANGED <<completed, current, ring, to_append, hour_file, total, cumulative>>
    BY <1>10 DEF HourPasses, memVars, fileVars
  <2>2. Before(completed, hour') /\ Before(ring, hour') /\ Before(to_append, hour')
    <3>1. hour' \in Int /\ hour <= hour'
      BY <1>1, <2>1
    <3> QED BY <1>1, <3>1, BeforeLater DEF InOrder, TypeOK
  <2>3. current # <<>> => current[1].start <= hour'
    BY <1>1, <2>1, CurrentBucket, StartInt DEF InOrder
  <2>4. InOrder'
    BY <1>1, <2>1, <2>2, <2>3 DEF InOrder
  <2>5. hour_file # <<>> => hour_file[1].start <= hour' /\ hour_file[1].start # hour'
    <3>1. hour_file # <<>> => hour_file[1].start \in Int
      BY OneBucket, StartInt DEF TypeOK
    <3> QED BY <1>1, <2>1, <3>1 DEF FilesOnce
  <2>6. Bytes(ring') + Bytes(to_append') + Bytes(current') <= total'
    BY <1>1, <2>1 DEF FilesOnce
  <2> QED BY <1>1, <2>1, <2>4, <2>5, <2>6 DEF FilesOnce
<1>11. CASE ClockSetBack
  BY <1>0, <1>11 DEF ClockSetBack
<1>12. CASE UNCHANGED vars
  BY <1>1, <1>3, <1>12 DEF vars, clockVars, memVars, fileVars
<1> QED
  BY <1>2, <1>4, <1>5, <1>6, <1>7, <1>8, <1>9, <1>10, <1>11, <1>12 DEF Next

LEMMA ClockInit == Init => ClockInv /\ NeverCountedTwice
<1> SUFFICES ASSUME Init PROVE InOrder /\ FilesOnce /\ cumulative <= total
  BY DEF ClockInv, NeverCountedTwice
<1>1. InOrder
  BY BeforeEmpty DEF Init, InOrder, Sorted
<1>2. Bytes(ring) = 0 /\ Bytes(to_append) = 0 /\ Bytes(current) = 0
  BY BytesEmpty DEF Init
<1>3. FilesOnce
  BY <1>2 DEF Init, FilesOnce
<1> QED BY <1>1, <1>3 DEF Init

\* While the clock is not set back no hour is restored from both files: what
\* the service shows never exceeds the traffic there was, after any number of
\* restarts at any point (load_current_hour_histogram, cumulative_from_all).
THEOREM NeverCountedTwiceHolds == Spec => []NeverCountedTwice
BY TypeInit, TypeNext, ClockInit, ClockNext, PTL DEF Spec

\* While the clock is not set back each hour has one bucket, in order.
THEOREM OneBucketPerHourHolds == Spec => []OneBucketPerHour
<1>1. TypeOK /\ ClockInv => OneBucketPerHour
  <2> SUFFICES ASSUME TypeOK, InOrder,
                      NEW i \in DOMAIN (completed \o current),
                      NEW j \in DOMAIN (completed \o current), i < j
               PROVE  (completed \o current)[i].start < (completed \o current)[j].start
    BY DEF OneBucketPerHour, ClockInv
  <2>1. CASE current = <<>>
    <3>1. completed \o current = completed
      BY <2>1, ConcatEmptySeq DEF TypeOK
    <3> QED BY <3>1 DEF InOrder, Sorted
  <2>2. CASE current # <<>>
    <3>1. current[1] \in Bucket /\ Len(current) = 1
      BY <2>2, OneBucket DEF TypeOK
    <3>2. /\ Len(completed) \in Nat /\ i \in 1..(Len(completed) + 1) /\ j \in 1..(Len(completed) + 1)
          /\ \A k \in 1..Len(completed) : (completed \o current)[k] = completed[k]
          /\ (completed \o current)[Len(completed) + 1] = current[1]
      <4> DEFINE c == current[1]
      <4>1. completed \in Seq(Bucket) /\ Len(completed) \in Nat /\ c \in Bucket /\ current = <<c>>
        BY <2>2, CurrentBucket DEF TypeOK
      <4> HIDE DEF c
      <4>2. completed \o current = Append(completed, c)
        BY <4>1
      <4>3. /\ DOMAIN Append(completed, c) = 1..(Len(completed) + 1)
            /\ Append(completed, c)[Len(completed) + 1] = c
            /\ \A k \in 1..Len(completed) : Append(completed, c)[k] = completed[k]
        BY <4>1
      <4> QED BY <4>1, <4>2, <4>3 DEF c
    <3>3. i \in 1..Len(completed)
      BY <3>2
    <3>4. CASE j = Len(completed) + 1
      BY <2>2, <3>2, <3>3, <3>4 DEF InOrder, Before, TypeOK
    <3>5. CASE j \in 1..Len(completed)
      BY <3>2, <3>3, <3>5 DEF InOrder, Sorted, TypeOK
    <3> QED BY <3>2, <3>4, <3>5
  <2> QED BY <2>1, <2>2
<1> QED BY <1>1, TypeInit, TypeNext, ClockInit, ClockNext, PTL DEF Spec

-----------------------------------------------------------------------------
(* The ring and the histogram in memory.                                   *)

\* What the tick is about to append is the last completed bucket.
MirrorInv ==
  /\ to_append # <<>> =>
       /\ completed # <<>> /\ written[Len(completed)]
       /\ completed[Len(completed)] = to_append[1]
  /\ RingMirrorsMemory

\* t ends with s.
EndsWith(t, s) == Drops(t, s, Len(t) - Len(s))

LEMMA SuffixElements ==
  ASSUME NEW S, NEW s \in Seq(S), NEW t \in Seq(S)
  PROVE  IsSuffix(s, t) <=> EndsWith(t, s)
<1> DEFINE r == Reverse(s)
           q == Reverse(t)
           n == Len(s)
           m == Len(t)
<1>0. n \in Nat /\ m \in Nat
  OBVIOUS
<1>1. /\ r \in Seq(S) /\ Len(r) = n /\ (\A i \in 1..n : r[i] = s[(n - i) + 1])
      /\ q \in Seq(S) /\ Len(q) = m /\ (\A i \in 1..m : q[i] = t[(m - i) + 1])
  <2>1. r = [i \in 1..n |-> s[(n - i) + 1]] /\ q = [i \in 1..m |-> t[(m - i) + 1]]
    BY DEF Reverse
  <2>2. r \in [1..n -> S] /\ q \in [1..m -> S]
    BY <1>0, <2>1
  <2> QED BY <1>0, <2>1, <2>2, FunctionSeq
<1>2. IsSuffix(s, t) <=> n <= m /\ SubSeq(r, 1, n) = SubSeq(q, 1, n)
  BY <1>1 DEF IsSuffix, IsPrefix
<1> HIDE DEF r, q
<1>3. n <= m => /\ SubSeq(r, 1, n) \in Seq(S) /\ Len(SubSeq(r, 1, n)) = n
                /\ SubSeq(q, 1, n) \in Seq(S) /\ Len(SubSeq(q, 1, n)) = n
                /\ \A i \in 1..n : SubSeq(r, 1, n)[i] = r[i] /\ SubSeq(q, 1, n)[i] = q[i]
  BY <1>0, <1>1
<1>4. ASSUME n <= m
      PROVE  SubSeq(r, 1, n) = SubSeq(q, 1, n) <=> \A i \in 1..n : s[(n - i) + 1] = t[(m - i) + 1]
  <2>1. \A i \in 1..n : r[i] = s[(n - i) + 1] /\ q[i] = t[(m - i) + 1]
    BY <1>0, <1>1, <1>4
  <2>2. SubSeq(r, 1, n) = SubSeq(q, 1, n) => \A i \in 1..n : r[i] = q[i]
    BY <1>3, <1>4
  <2>3. (\A i \in 1..n : r[i] = q[i]) => SubSeq(r, 1, n) = SubSeq(q, 1, n)
    BY <1>3, <1>4, SeqEqual
  <2> QED BY <2>1, <2>2, <2>3
<1>5. ASSUME n <= m
      PROVE  (\A i \in 1..n : s[(n - i) + 1] = t[(m - i) + 1]) <=> \A i \in 1..n : s[i] = t[(m - n) + i]
  <2>1. ASSUME \A i \in 1..n : s[(n - i) + 1] = t[(m - i) + 1], NEW i \in 1..n
        PROVE  s[i] = t[(m - n) + i]
    <3>1. (n - i) + 1 \in 1..n /\ (n - ((n - i) + 1)) + 1 = i /\ (m - ((n - i) + 1)) + 1 = (m - n) + i
      BY <1>0
    <3> QED BY <2>1, <3>1
  <2>2. ASSUME \A i \in 1..n : s[i] = t[(m - n) + i], NEW i \in 1..n
        PROVE  s[(n - i) + 1] = t[(m - i) + 1]
    <3>1. (n - i) + 1 \in 1..n /\ (m - n) + ((n - i) + 1) = (m - i) + 1
      BY <1>0
    <3> QED BY <2>2, <3>1
  <2> QED BY <2>1, <2>2
<1>6. EndsWith(t, s) <=> n <= m /\ \A i \in 1..n : s[i] = t[(m - n) + i]
  <2>1. m - n \in 0..m <=> n <= m
    BY <1>0
  <2>2. n = m - (m - n)
    BY <1>0
  <2> QED BY <2>1, <2>2 DEF EndsWith, Drops
<1> QED BY <1>2, <1>4, <1>5, <1>6

\* One bucket more.
Keep(c, w, i, kept) == IF w[i] THEN Append(kept, c[i]) ELSE kept

\* Kept is the last of the kept prefixes.
LEMMA KeptRun ==
  ASSUME NEW c \in Seq(Bucket), NEW w
  PROVE  \E f \in [0..Len(c) -> Seq(Bucket)] :
           /\ Kept(c, w) = f[Len(c)] /\ f[0] = <<>>
           /\ \A i \in 1..Len(c) : f[i] = Keep(c, w, i, f[i - 1])
<1> DEFINE n == Len(c)
           B == Seq(Bucket)
           step == [i \in 1..n |-> [x \in B |-> Keep(c, w, i, x)]]
           Is(f) == f = [i \in 0..n |-> IF i = 0 THEN <<>> ELSE Keep(c, w, i, f[i - 1])]
           kept == CHOOSE f : Is(f)
<1>0. n \in Nat /\ \A i \in 1..n : c[i] \in Bucket
  OBVIOUS
<1>1. \A i \in 1..n, x \in B : Keep(c, w, i, x) \in B
  BY <1>0 DEF Keep
<1>2. <<>> \in B
  OBVIOUS
<1> HIDE DEF n, B
<1>3. step \in StepsOf(B, n)
  BY <1>1 DEF StepsOf
<1>4. PICK f \in [0..n -> B] : f[0] = <<>> /\ \A i \in 1..n : f[i] = step[i][f[i - 1]]
  <2> HIDE DEF step
  <2>1. \E f : Run(f, B, n, <<>>, step)
    BY <1>0, <1>2, <1>3, RunExists
  <2> QED BY <2>1 DEF Run
<1>5. \A i \in 1..n : f[i - 1] \in B
  BY <1>0
<1>6. \A i \in 1..n : f[i] = Keep(c, w, i, f[i - 1])
  BY <1>4, <1>5
<1>7. Is(f)
  BY <1>0, <1>4, <1>6
<1>8. Is(kept)
  <2> HIDE DEF Is
  <2> QED BY <1>7
<1>9. Kept(c, w) = kept[n]
  BY DEF Kept, Keep, n
<1> HIDE DEF kept
<1> DEFINE Same == {j \in 0..n : kept[j] = f[j]}
<1>10. 0 \in Same
  BY <1>0, <1>7, <1>8
<1>11. ASSUME NEW i \in 0..n, i \in Same, i < n PROVE i + 1 \in Same
  <2>1. i + 1 \in 1..n /\ i + 1 \in 0..n /\ (i + 1) - 1 = i
    BY <1>0, <1>11
  <2>2. kept[i + 1] = Keep(c, w, i + 1, kept[i])
    BY <2>1, <1>8
  <2>3. f[i + 1] = Keep(c, w, i + 1, f[i])
    BY <2>1, <1>6
  <2> QED BY <2>1, <2>2, <2>3, <1>11
<1> HIDE DEF Same
<1>12. \A i \in 0..n : i \in Same
  BY <1>0, <1>10, <1>11, Induction
<1>13. kept[n] = f[n]
  BY <1>0, <1>12 DEF Same
<1> QED BY <1>4, <1>6, <1>9, <1>13 DEF n, B

LEMMA KeptType ==
  ASSUME NEW c \in Seq(Bucket), NEW w
  PROVE  Kept(c, w) \in Seq(Bucket) /\ Len(Kept(c, w)) <= Len(c)
<1> DEFINE n == Len(c)
<1>0. n \in Nat /\ \A i \in 1..n : c[i] \in Bucket
  OBVIOUS
<1>1. PICK f \in [0..n -> Seq(Bucket)] :
        /\ Kept(c, w) = f[n] /\ f[0] = <<>>
        /\ \A i \in 1..n : f[i] = Keep(c, w, i, f[i - 1])
  BY KeptRun
<1> HIDE DEF n
<1> DEFINE Short == {i \in 0..n : Len(f[i]) <= i}
<1>2. 0 \in Short
  BY <1>0, <1>1
<1>3. ASSUME NEW i \in 0..n, i \in Short, i < n PROVE i + 1 \in Short
  <2>1. i + 1 \in 1..n /\ i + 1 \in 0..n /\ (i + 1) - 1 = i
    BY <1>0, <1>3
  <2>2. f[i + 1] = Keep(c, w, i + 1, f[i])
    BY <1>1, <2>1
  <2>3. f[i] \in Seq(Bucket) /\ c[i + 1] \in Bucket /\ Len(f[i]) <= i
    BY <1>0, <1>3, <2>1
  <2>4. Len(Keep(c, w, i + 1, f[i])) <= i + 1
    BY <2>3 DEF Keep
  <2> QED BY <2>1, <2>2, <2>4
<1> HIDE DEF Short
<1>4. \A i \in 0..n : i \in Short
  BY <1>0, <1>2, <1>3, Induction
<1>5. Len(f[n]) <= n /\ f[n] \in Seq(Bucket)
  BY <1>0, <1>4 DEF Short
<1> QED BY <1>1, <1>5 DEF n

\* d and v are c and w with one more element.
OneMore(c, w, d, v) ==
  Len(d) = Len(c) + 1 /\ \A i \in 1..Len(c) : d[i] = c[i] /\ v[i] = w[i]

LEMMA KeptStep ==
  ASSUME NEW c \in Seq(Bucket), NEW d \in Seq(Bucket), NEW w, NEW v,
         OneMore(c, w, d, v)
  PROVE  Kept(d, v) = Keep(d, v, Len(d), Kept(c, w))
<1> DEFINE n == Len(c)
<1>0. n \in Nat /\ Len(d) = n + 1
  BY DEF OneMore
<1>1. PICK f \in [0..n -> Seq(Bucket)] :
        /\ Kept(c, w) = f[n] /\ f[0] = <<>>
        /\ \A i \in 1..n : f[i] = Keep(c, w, i, f[i - 1])
  BY KeptRun
<1>2. PICK g \in [0..(n + 1) -> Seq(Bucket)] :
        /\ Kept(d, v) = g[n + 1] /\ g[0] = <<>>
        /\ \A i \in 1..(n + 1) : g[i] = Keep(d, v, i, g[i - 1])
  <2>1. \E g \in [0..Len(d) -> Seq(Bucket)] :
           /\ Kept(d, v) = g[Len(d)] /\ g[0] = <<>>
           /\ \A i \in 1..Len(d) : g[i] = Keep(d, v, i, g[i - 1])
    BY KeptRun
  <2> HIDE DEF n
  <2> QED BY <1>0, <2>1, Zenon
<1>3. \A i \in 1..n : \A x : Keep(d, v, i, x) = Keep(c, w, i, x)
  BY DEF Keep, OneMore
<1> HIDE DEF n
<1> DEFINE Same == {i \in 0..n : g[i] = f[i]}
<1>4. 0 \in Same
  BY <1>0, <1>1, <1>2
<1>5. ASSUME NEW i \in 0..n, i \in Same, i < n PROVE i + 1 \in Same
  <2>1. i + 1 \in 1..n /\ i + 1 \in 1..(n + 1) /\ i + 1 \in 0..n /\ (i + 1) - 1 = i
    BY <1>0, <1>5
  <2>2. f[i + 1] = Keep(c, w, i + 1, f[i]) /\ g[i + 1] = Keep(d, v, i + 1, g[i])
    BY <1>1, <1>2, <2>1
  <2> QED BY <1>3, <1>5, <2>1, <2>2
<1> HIDE DEF Same
<1>6. \A i \in 0..n : i \in Same
  BY <1>0, <1>4, <1>5, Induction
<1>7. g[n] = f[n]
  BY <1>0, <1>6 DEF Same
<1>8. n + 1 \in 1..(n + 1) /\ (n + 1) - 1 = n
  BY <1>0
<1>9. g[n + 1] = Keep(d, v, n + 1, g[n])
  BY <1>2, <1>8
<1> QED BY <1>0, <1>1, <1>2, <1>7, <1>9

\* If no append failed all buckets are kept.
LEMMA KeptAll ==
  ASSUME NEW c \in Seq(Bucket), NEW w, \A i \in 1..Len(c) : w[i]
  PROVE  Kept(c, w) = c
<1> DEFINE n == Len(c)
<1>0. n \in Nat /\ \A i \in 1..n : c[i] \in Bucket
  OBVIOUS
<1>1. PICK f \in [0..n -> Seq(Bucket)] :
        /\ Kept(c, w) = f[n] /\ f[0] = <<>>
        /\ \A i \in 1..n : f[i] = Keep(c, w, i, f[i - 1])
  BY KeptRun
<1>2. \A i \in 1..n : \A x : Keep(c, w, i, x) = Append(x, c[i])
  BY DEF Keep
<1> HIDE DEF n
<1> DEFINE Whole == {i \in 0..n : Len(f[i]) = i /\ \A j \in 1..i : f[i][j] = c[j]}
<1>3. 0 \in Whole
  BY <1>0, <1>1
<1>4. ASSUME NEW i \in 0..n, i \in Whole, i < n PROVE i + 1 \in Whole
  <2>1. i + 1 \in 1..n /\ i + 1 \in 0..n /\ (i + 1) - 1 = i
    BY <1>0, <1>4
  <2>2. f[i + 1] = Append(f[i], c[i + 1])
    BY <1>1, <1>2, <2>1
  <2>3. /\ f[i] \in Seq(Bucket) /\ c[i + 1] \in Bucket /\ Len(f[i]) = i
        /\ \A j \in 1..i : f[i][j] = c[j]
    BY <1>0, <1>4, <2>1
  <2> DEFINE x == f[i]
  <2> HIDE DEF x
  <2>4. /\ Len(Append(x, c[i + 1])) = i + 1
        /\ \A j \in 1..(i + 1) : Append(x, c[i + 1])[j] = c[j]
    BY <2>3 DEF x
  <2> QED BY <2>1, <2>2, <2>4 DEF x
<1> HIDE DEF Whole
<1>5. \A i \in 0..n : i \in Whole
  BY <1>0, <1>3, <1>4, Induction
<1>6. f[n] \in Seq(Bucket) /\ Len(f[n]) = n /\ \A j \in 1..n : f[n][j] = c[j]
  BY <1>0, <1>5 DEF Whole
<1>7. f[n] = c
  BY <1>6, SeqEqual DEF n
<1> QED BY <1>1, <1>7

LEMMA EndsWithElements ==
  ASSUME NEW S, NEW s \in Seq(S), NEW t \in Seq(S)
  PROVE  EndsWith(t, s) <=>
           Len(s) <= Len(t) /\ \A i \in 1..Len(s) : s[i] = t[(Len(t) - Len(s)) + i]
<1>0. Len(s) \in Nat /\ Len(t) \in Nat
  OBVIOUS
<1>1. Len(t) - Len(s) \in 0..Len(t) <=> Len(s) <= Len(t)
  BY <1>0
<1>2. Len(s) = Len(t) - (Len(t) - Len(s))
  BY <1>0
<1> QED BY <1>1, <1>2 DEF EndsWith, Drops

LEMMA EndsWithEmpty ==
  ASSUME NEW S, NEW t \in Seq(S)
  PROVE  EndsWith(t, <<>>)
<1>1. <<>> \in Seq(S) /\ Len(<<>>) = 0 /\ Len(t) \in Nat
  OBVIOUS
<1>2. Len(<<>>) <= Len(t)
  BY <1>1
<1>3. \A i \in 1..Len(<<>>) : <<>>[i] = t[(Len(t) - Len(<<>>)) + i]
  BY <1>1
<1> QED BY <1>1, <1>2, <1>3, EndsWithElements, Zenon

LEMMA EndsWithItself ==
  ASSUME NEW S, NEW s \in Seq(S)
  PROVE  EndsWith(s, s)
<1>1. \A i \in 1..Len(s) : (Len(s) - Len(s)) + i = i
  OBVIOUS
<1> QED BY <1>1, EndsWithElements

LEMMA EndsWithTransitive ==
  ASSUME NEW S, NEW s \in Seq(S), NEW t \in Seq(S), NEW u \in Seq(S),
         EndsWith(t, s), EndsWith(u, t)
  PROVE  EndsWith(u, s)
<1> DEFINE a == Len(s)
           b == Len(t)
           c == Len(u)
<1>1. /\ a \in Nat /\ b \in Nat /\ c \in Nat /\ a <= b /\ b <= c
      /\ \A i \in 1..a : s[i] = t[(b - a) + i]
      /\ \A i \in 1..b : t[i] = u[(c - b) + i]
  BY EndsWithElements
<1>2. ASSUME NEW i \in 1..a PROVE s[i] = u[(c - a) + i]
  <2>1. (b - a) + i \in 1..b /\ (c - b) + ((b - a) + i) = (c - a) + i
    BY <1>1
  <2> QED BY <1>1, <2>1
<1>3. a <= c
  BY <1>1
<1> QED BY <1>2, <1>3, EndsWithElements

LEMMA EndsWithAppend ==
  ASSUME NEW S, NEW s \in Seq(S), NEW t \in Seq(S), NEW x \in S
  PROVE  EndsWith(Append(t, x), Append(s, x)) <=> EndsWith(t, s)
<1> DEFINE p == Append(s, x)
           q == Append(t, x)
           a == Len(s)
           b == Len(t)
<1>1. /\ a \in Nat /\ b \in Nat /\ p \in Seq(S) /\ q \in Seq(S)
      /\ Len(p) = a + 1 /\ Len(q) = b + 1 /\ p[a + 1] = x /\ q[b + 1] = x
      /\ (\A i \in 1..a : p[i] = s[i]) /\ (\A i \in 1..b : q[i] = t[i])
  OBVIOUS
<1> HIDE DEF p, q
<1>2. EndsWith(q, p) <=>
        a + 1 <= b + 1 /\ \A i \in 1..(a + 1) : p[i] = q[((b + 1) - (a + 1)) + i]
  <2>1. EndsWith(q, p) <=>
          Len(p) <= Len(q) /\ \A i \in 1..Len(p) : p[i] = q[(Len(q) - Len(p)) + i]
    BY <1>1, EndsWithElements
  <2> HIDE DEF a, b
  <2> QED BY <1>1, <2>1, Zenon
<1>3. EndsWith(t, s) <=> a <= b /\ \A i \in 1..a : s[i] = t[(b - a) + i]
  BY EndsWithElements
<1> HIDE DEF a, b
<1>4. \A i : i \in 1..a /\ a <= b =>
        /\ (b + 1) - (a + 1) + i = (b - a) + i /\ (b - a) + i \in 1..b
        /\ p[i] = s[i] /\ q[(b - a) + i] = t[(b - a) + i] /\ i \in 1..(a + 1)
  BY <1>1
<1>5. a <= b => (b + 1) - (a + 1) + (a + 1) = b + 1
  BY <1>1
<1>6. \A i \in 1..(a + 1) : i \in 1..a \/ i = a + 1
  BY <1>1
<1>7. a + 1 <= b + 1 <=> a <= b
  BY <1>1
<1>8. ASSUME a <= b
      PROVE  (\A i \in 1..(a + 1) : p[i] = q[((b + 1) - (a + 1)) + i])
               <=> \A i \in 1..a : s[i] = t[(b - a) + i]
  <2>1. ASSUME \A i \in 1..(a + 1) : p[i] = q[((b + 1) - (a + 1)) + i], NEW i \in 1..a
        PROVE  s[i] = t[(b - a) + i]
    BY <1>4, <1>8, <2>1
  <2>2. ASSUME \A i \in 1..a : s[i] = t[(b - a) + i], NEW i \in 1..(a + 1)
        PROVE  p[i] = q[((b + 1) - (a + 1)) + i]
    <3>1. CASE i \in 1..a
      BY <1>4, <1>8, <2>2, <3>1
    <3>2. CASE i = a + 1
      BY <1>1, <1>5, <1>8, <3>2
    <3> QED BY <1>6, <3>1, <3>2
  <2> QED BY <2>1, <2>2
<1> QED BY <1>2, <1>3, <1>7, <1>8 DEF p, q

LEMMA EndsWithWhole ==
  ASSUME NEW S, NEW s \in Seq(S), NEW t \in Seq(S), EndsWith(t, s), Len(t) <= Len(s)
  PROVE  s = t
<1>1. Len(s) = Len(t) /\ \A i \in 1..Len(s) : s[i] = t[(Len(t) - Len(s)) + i]
  <2>1. Len(s) <= Len(t) /\ \A i \in 1..Len(s) : s[i] = t[(Len(t) - Len(s)) + i]
    BY EndsWithElements
  <2> QED BY <2>1
<1>2. \A i \in 1..Len(s) : (Len(t) - Len(s)) + i = i
  BY <1>1
<1> QED BY <1>1, <1>2, SeqEqual

\* A suffix that fits survives trimming.
LEMMA EndsWithTrim ==
  ASSUME NEW S, NEW t \in Seq(S)
  PROVE  /\ EndsWith(t, Trim(t))
         /\ \A s \in Seq(S) : EndsWith(t, s) /\ Len(s) <= max_hours => EndsWith(Trim(t), s)
<1> DEFINE u == Trim(t)
           b == Len(t)
           c == Len(u)
<1>1. u \in Seq(S) /\ c = (IF b > max_hours THEN max_hours ELSE b) /\ EndsWith(t, u)
  BY TrimDrops DEF EndsWith
<1>2. max_hours \in Nat /\ b \in Nat
  BY MaxHoursAssumption
<1> HIDE DEF u
<1>3. c \in Nat /\ c <= b /\ \A i \in 1..c : u[i] = t[(b - c) + i]
  BY <1>1, EndsWithElements
<1>4. ASSUME NEW s \in Seq(S), EndsWith(t, s), Len(s) <= max_hours PROVE EndsWith(u, s)
  <2> DEFINE a == Len(s)
  <2>1. a \in Nat /\ a <= b /\ \A i \in 1..a : s[i] = t[(b - a) + i]
    BY <1>4, EndsWithElements
  <2>2. a <= c
    BY <1>1, <1>2, <1>4, <2>1
  <2>3. ASSUME NEW i \in 1..a PROVE s[i] = u[(c - a) + i]
    <3>1. (c - a) + i \in 1..c /\ (b - c) + ((c - a) + i) = (b - a) + i
      BY <1>2, <1>3, <2>1, <2>2
    <3> QED BY <1>3, <2>1, <3>1
  <2> QED BY <1>1, <2>2, <2>3, EndsWithElements
<1> QED BY <1>1, <1>4 DEF u

\* d and v are c and w without the first element.
OneLess(c, w, d, v) ==
  Len(c) = Len(d) + 1 /\ \A i \in 1..Len(d) : d[i] = c[i + 1] /\ v[i] = w[i + 1]

\* Without the first bucket, what is kept is the same less that bucket.
LEMMA KeptDropsFirst ==
  ASSUME NEW c \in Seq(Bucket), NEW w, NEW d \in Seq(Bucket), NEW v, OneLess(c, w, d, v)
  PROVE  EndsWith(Kept(c, w), Kept(d, v))
<1> DEFINE n == Len(d)
           B == Seq(Bucket)
<1>0. n \in Nat /\ Len(c) = n + 1 /\ \A i \in 1..n : d[i] \in Bucket
  BY DEF OneLess
<1>1. PICK g \in [0..n -> B] :
        /\ Kept(d, v) = g[n] /\ g[0] = <<>>
        /\ \A i \in 1..n : g[i] = Keep(d, v, i, g[i - 1])
  BY KeptRun
<1>2. PICK f \in [0..(n + 1) -> B] :
        /\ Kept(c, w) = f[n + 1]
        /\ \A i \in 1..(n + 1) : f[i] = Keep(c, w, i, f[i - 1])
  <2>1. \E f \in [0..Len(c) -> B] :
           /\ Kept(c, w) = f[Len(c)] /\ f[0] = <<>>
           /\ \A i \in 1..Len(c) : f[i] = Keep(c, w, i, f[i - 1])
    BY KeptRun
  <2> HIDE DEF n
  <2> QED BY <1>0, <2>1, Zenon
<1>3. \A i \in 1..n : \A x : Keep(c, w, i + 1, x) = Keep(d, v, i, x)
  BY DEF Keep, OneLess
<1> HIDE DEF n
<1> DEFINE Ends == {i \in 0..n : EndsWith(f[i + 1], g[i])}
<1>4. 0 \in Ends
  <2>1. f[1] \in Seq(Bucket) /\ g[0] = <<>> /\ <<>> \in Seq(Bucket)
    BY <1>0, <1>1
  <2> DEFINE x == f[1]
  <2>2. EndsWith(x, <<>>)
    <3>1. x \in Seq(Bucket) /\ Len(x) \in Nat /\ Len(<<>>) = 0
      BY <2>1
    <3> HIDE DEF x
    <3>2. Len(<<>>) <= Len(x) /\ \A i \in 1..Len(<<>>) : <<>>[i] = x[(Len(x) - Len(<<>>)) + i]
      BY <3>1
    <3> QED BY <2>1, <3>1, <3>2, EndsWithElements
  <2> QED BY <1>0, <2>1, <2>2
<1>5. ASSUME NEW i \in 0..n, i \in Ends, i < n PROVE i + 1 \in Ends
  <2>1. /\ i + 1 \in 1..n /\ i + 1 \in 0..n /\ (i + 1) - 1 = i
        /\ (i + 1) + 1 \in 1..(n + 1) /\ ((i + 1) + 1) - 1 = i + 1 /\ i + 1 \in 0..(n + 1)
    BY <1>0, <1>5
  <2> DEFINE x == f[i + 1]
             y == g[i]
  <2>2. g[i + 1] = Keep(d, v, i + 1, y) /\ f[(i + 1) + 1] = Keep(d, v, i + 1, x)
    BY <1>1, <1>2, <1>3, <2>1
  <2>3. x \in Seq(Bucket) /\ y \in Seq(Bucket) /\ d[i + 1] \in Bucket /\ EndsWith(x, y)
    BY <1>0, <1>5, <2>1
  <2> HIDE DEF x, y
  <2>4. EndsWith(Append(x, d[i + 1]), Append(y, d[i + 1]))
    BY <2>3, EndsWithAppend
  <2>5. EndsWith(Keep(d, v, i + 1, x), Keep(d, v, i + 1, y))
    BY <2>3, <2>4 DEF Keep
  <2> QED BY <2>1, <2>2, <2>5
<1> HIDE DEF Ends
<1>6. \A i \in 0..n : i \in Ends
  BY <1>0, <1>4, <1>5, Induction
<1>7. EndsWith(f[n + 1], g[n])
  BY <1>0, <1>6 DEF Ends
<1> QED BY <1>1, <1>2, <1>7

AllWritten(c, w) == \A i \in 1..Len(c) : w[i]

\* The property, element by element; whole: a start read the ring.
Mirrors(whole, c, w, t) ==
  /\ EndsWith(t, Kept(c, w))
  /\ whole /\ AllWritten(c, w) => Kept(c, w) = t

LEMMA MirrorsMeans ==
  ASSUME NEW whole \in BOOLEAN, NEW c \in Seq(Bucket), NEW w \in Seq(BOOLEAN), Len(w) = Len(c),
         NEW t \in Seq(Bucket)
  PROVE  Mirrors(whole, c, w, t) <=>
           /\ IsSuffix(Kept(c, w), t)
           /\ whole /\ (\A i \in DOMAIN w : w[i]) => Kept(c, w) = t
<1>1. Kept(c, w) \in Seq(Bucket)
  BY KeptType
<1>2. IsSuffix(Kept(c, w), t) <=> EndsWith(t, Kept(c, w))
  BY <1>1, SuffixElements
<1>3. DOMAIN w = 1..Len(c)
  OBVIOUS
<1>4. AllWritten(c, w) <=> \A i \in DOMAIN w : w[i]
  BY <1>3, Zenon DEF AllWritten
<1> QED BY <1>2, <1>4, Zenon DEF Mirrors

LEMMA AppendFacts ==
  ASSUME NEW S, NEW s \in Seq(S), NEW x \in S
  PROVE  /\ Append(s, x) \in Seq(S) /\ Len(Append(s, x)) = Len(s) + 1
         /\ Append(s, x)[Len(s) + 1] = x
         /\ \A i \in 1..Len(s) : Append(s, x)[i] = s[i]
OBVIOUS

\* Trimming keeps the last element.
LastKept(s) == Len(Trim(s)) > 0 /\ Trim(s)[Len(Trim(s))] = s[Len(s)]

LEMMA TrimKeepsLast ==
  ASSUME NEW S, NEW s \in Seq(S), Len(s) > 0
  PROVE  LastKept(s)
<1> DEFINE u == Trim(s)
<1>1. /\ u \in Seq(S) /\ Len(u) = (IF Len(s) > max_hours THEN max_hours ELSE Len(s))
      /\ Drops(s, u, Len(s) - Len(u))
  BY TrimDrops
<1>2. max_hours \in Nat /\ max_hours > 0 /\ Len(s) \in Nat
  BY MaxHoursAssumption
<1> HIDE DEF u
<1>3. Len(u) \in 1..Len(u) /\ Len(u) > 0 /\ (Len(s) - Len(u)) + Len(u) = Len(s)
  BY <1>1, <1>2
<1>4. u[Len(u)] = s[(Len(s) - Len(u)) + Len(u)]
  BY <1>1, <1>3 DEF Drops
<1> QED BY <1>3, <1>4 DEF LastKept, u

\* A bucket is completed and is to be appended to the ring.
LEMMA CompleteMirrors ==
  ASSUME NEW whole \in BOOLEAN, NEW c \in Seq(Bucket), NEW w \in Seq(BOOLEAN),
         Len(w) = Len(c), Len(c) <= max_hours,
         NEW t \in Seq(Bucket), NEW b \in Bucket, Mirrors(whole, c, w, t)
  PROVE  Mirrors(whole, Trim(Append(c, b)), Trim(Append(w, TRUE)), Trim(Append(t, b)))
<1> DEFINE c2 == Append(c, b)
           w2 == Append(w, TRUE)
           t2 == Append(t, b)
           k == Kept(c, w)
<1>1. /\ c2 \in Seq(Bucket) /\ w2 \in Seq(BOOLEAN) /\ t2 \in Seq(Bucket)
      /\ Len(c2) = Len(c) + 1 /\ Len(w2) = Len(c) + 1 /\ Len(c) \in Nat
      /\ c2[Len(c) + 1] = b /\ w2[Len(c) + 1] = TRUE
      /\ \A i \in 1..Len(c) : c2[i] = c[i] /\ w2[i] = w[i]
  <2>1. /\ c2 \in Seq(Bucket) /\ Len(c2) = Len(c) + 1 /\ c2[Len(c) + 1] = b /\ Len(c) \in Nat
        /\ \A i \in 1..Len(c) : c2[i] = c[i]
    OBVIOUS
  <2> DEFINE y == TRUE
  <2>2. y \in BOOLEAN
    BY Zenon
  <2>3. /\ w2 \in Seq(BOOLEAN) /\ Len(w2) = Len(w) + 1 /\ w2[Len(w) + 1] = TRUE
        /\ \A i \in 1..Len(w) : w2[i] = w[i]
    <3> HIDE DEF y
    <3>1. /\ Append(w, y) \in Seq(BOOLEAN) /\ Len(Append(w, y)) = Len(w) + 1
          /\ Append(w, y)[Len(w) + 1] = y /\ \A i \in 1..Len(w) : Append(w, y)[i] = w[i]
      BY <2>2, AppendFacts
    <3> QED BY <3>1, Zenon DEF y
  <2>4. t2 \in Seq(Bucket)
    OBVIOUS
  <2> HIDE DEF c2, w2, t2
  <2>5. Len(w2) = Len(c) + 1 /\ w2[Len(c) + 1] = TRUE /\ \A i \in 1..Len(c) : w2[i] = w[i]
    BY <2>3, Zenon
  <2> QED BY <2>1, <2>3, <2>4, <2>5, Zenon
<1>2. max_hours \in Nat /\ max_hours # 0
  BY MaxHoursAssumption
<1>3. k \in Seq(Bucket) /\ EndsWith(t, k)
  BY KeptType DEF Mirrors
<1>4. EndsWith(t2, Append(k, b)) /\ Append(k, b) \in Seq(Bucket)
  BY <1>3, EndsWithAppend
<1> HIDE DEF c2, w2, t2, k
<1>5. Kept(c2, w2) = Append(k, b)
  <2>1. OneMore(c, w, c2, w2)
    BY <1>1 DEF OneMore
  <2>2. Kept(c2, w2) = Keep(c2, w2, Len(c2), k)
    BY <1>1, <2>1, KeptStep DEF k
  <2> QED BY <1>1, <2>2 DEF Keep
<1>6. CASE Len(c) < max_hours
  <2>1. Trim(c2) = c2 /\ Trim(w2) = w2
    BY <1>1, <1>2, <1>6, TrimFits
  <2>2. Len(Append(k, b)) <= max_hours
    <3>1. Len(Kept(c2, w2)) <= Len(c2) /\ Len(Kept(c2, w2)) \in Nat
      BY <1>1, KeptType
    <3> QED BY <1>1, <1>2, <1>5, <1>6, <3>1
  <2>3. EndsWith(Trim(t2), Append(k, b))
    BY <1>1, <1>4, <2>2, EndsWithTrim
  <2>4. ASSUME whole, AllWritten(c2, w2) PROVE Append(k, b) = Trim(t2)
    <3>1. AllWritten(c, w)
      <4>1. 1..Len(c) \subseteq 1..Len(c2)
        <5> HIDE DEF AllWritten
        <5> QED BY <1>1
      <4>2. \A i \in 1..Len(c) : w2[i] = w[i]
        BY <1>1, Zenon
      <4> QED BY <2>4, <4>1, <4>2, Zenon DEF AllWritten
    <3>2. k = t
      BY <2>4, <3>1 DEF Mirrors, k
    <3>3. Append(k, b) = t2
      BY <3>2 DEF t2
    <3> QED BY <1>1, <2>2, <3>3, TrimFits
  <2>5. Mirrors(whole, c2, w2, Trim(t2))
    BY <1>5, <2>3, <2>4 DEF Mirrors
  <2> QED BY <2>1, <2>5 DEF c2, w2, t2
<1>7. CASE ~(Len(c) < max_hours)
  <2> DEFINE c3 == Trim(c2)
             w3 == Trim(w2)
             t3 == Trim(t2)
             k3 == Kept(c3, w3)
  <2>1. Len(c) = max_hours
    BY <1>1, <1>2, <1>7
  <2>2. /\ c3 \in Seq(Bucket) /\ Len(c3) = max_hours
        /\ \A i \in 1..max_hours : c3[i] = c2[1 + i]
    <3>1. /\ c3 \in Seq(Bucket) /\ Len(c3) = IF Len(c2) > max_hours THEN max_hours ELSE Len(c2)
          /\ Drops(c2, c3, Len(c2) - Len(c3))
      BY <1>1, TrimDrops
    <3>2. Len(c3) = max_hours /\ Len(c2) - Len(c3) = 1
      BY <1>1, <1>2, <2>1, <3>1
    <3> QED BY <3>1, <3>2 DEF Drops
  <2>3. \A i \in 1..max_hours : w3[i] = w2[1 + i]
    <3>1. /\ Len(w3) = (IF Len(w2) > max_hours THEN max_hours ELSE Len(w2))
          /\ Drops(w2, w3, Len(w2) - Len(w3))
      BY <1>1, TrimDrops
    <3>2. Len(w3) = max_hours /\ Len(w2) - Len(w3) = 1
      BY <1>1, <1>2, <2>1, <3>1
    <3> QED BY <3>1, <3>2 DEF Drops
  <2>4. t3 \in Seq(Bucket) /\ Len(t3) <= max_hours
    BY <1>1, TrimDrops
  <2> HIDE DEF c3, w3, t3
  <2>5. OneLess(c2, w2, c3, w3)
    <3>1. \A i \in 1..max_hours : 1 + i = i + 1
      BY <1>2
    <3> QED BY <1>1, <2>1, <2>2, <2>3, <3>1 DEF OneLess
  <2>6. k3 \in Seq(Bucket) /\ Len(k3) <= max_hours /\ EndsWith(Append(k, b), k3)
    BY <1>1, <1>5, <2>2, <2>5, KeptType, KeptDropsFirst
  <2>7. EndsWith(t2, k3)
    BY <1>1, <1>4, <2>6, EndsWithTransitive
  <2>8. EndsWith(t3, k3)
    BY <1>1, <2>6, <2>7, EndsWithTrim DEF t3
  <2>9. ASSUME AllWritten(c3, w3) PROVE k3 = t3
    <3>1. k3 = c3
      BY <2>2, <2>9, KeptAll DEF AllWritten
    <3>2. Len(t3) <= Len(k3)
      BY <2>2, <2>4, <3>1
    <3> QED BY <2>4, <2>6, <2>8, <3>2, EndsWithWhole
  <2>10. Mirrors(whole, c3, w3, t3)
    BY <2>8, <2>9 DEF Mirrors
  <2> QED BY <2>10 DEF c2, w2, t2, c3, w3, t3
<1> QED BY <1>6, <1>7

\* The append of the last completed bucket failed.
LEMMA FailureMirrors ==
  ASSUME NEW whole \in BOOLEAN, NEW c \in Seq(Bucket), NEW w \in Seq(BOOLEAN),
         Len(w) = Len(c), c # <<>>,
         w[Len(c)], NEW t \in Seq(Bucket), Mirrors(whole, c, w, Trim(Append(t, c[Len(c)])))
  PROVE  Mirrors(whole, c, [w EXCEPT ![Len(w)] = FALSE], t)
<1> DEFINE n == Len(c)
           b == c[n]
           v == [w EXCEPT ![n] = FALSE]
           c0 == SubSeq(c, 1, n - 1)
           k0 == Kept(c0, w)
<1>1. n \in Nat \ {0}
  BY EmptySeq, Zenon
<1>2. b \in Bucket /\ c0 \in Seq(Bucket) /\ Len(c0) = n - 1
      /\ \A i \in 1..(n - 1) : c0[i] = c[i]
  BY <1>1
<1>3. n \in DOMAIN w /\ v[n] = FALSE /\ \A i \in 1..(n - 1) : v[i] = w[i]
  <2>1. n \in 1..Len(w) /\ (\A i \in 1..(n - 1) : i \in 1..Len(w) /\ i # n)
    BY <1>1
  <2>2. DOMAIN w = 1..Len(w)
    OBVIOUS
  <2> HIDE DEF n
  <2> QED BY <2>1, <2>2, Zenon
<1> HIDE DEF v, c0
<1>4. OneMore(c0, w, c, w) /\ OneMore(c0, w, c, v)
  BY <1>1, <1>2, <1>3 DEF OneMore
<1> HIDE DEF b
<1>5. k0 \in Seq(Bucket)
  BY <1>2, KeptType
<1>6. Kept(c, w) = Append(k0, b)
  <2>1. Kept(c, w) = Keep(c, w, n, k0)
    BY <1>2, <1>4, KeptStep
  <2> QED BY <2>1 DEF Keep, b
<1>7. Kept(c, v) = k0
  <2>1. Kept(c, v) = Keep(c, v, n, k0)
    BY <1>2, <1>4, KeptStep
  <2> QED BY <1>3, <2>1 DEF Keep
<1> HIDE DEF k0
<1>8. EndsWith(Trim(Append(t, b)), Append(k0, b))
  BY <1>6 DEF Mirrors, b
<1>9. /\ Append(t, b) \in Seq(Bucket) /\ Append(k0, b) \in Seq(Bucket)
      /\ Trim(Append(t, b)) \in Seq(Bucket) /\ EndsWith(Append(t, b), Trim(Append(t, b)))
  <2>1. Append(t, b) \in Seq(Bucket) /\ Append(k0, b) \in Seq(Bucket)
    BY <1>2, <1>5
  <2> QED BY <2>1, TrimDrops, EndsWithTrim
<1>10. EndsWith(Append(t, b), Append(k0, b))
  BY <1>8, <1>9, EndsWithTransitive
<1>11. EndsWith(t, k0)
  BY <1>2, <1>5, <1>10, EndsWithAppend
<1>12. ~AllWritten(c, v)
  BY <1>1, <1>3 DEF AllWritten
<1> QED BY <1>7, <1>11, <1>12 DEF Mirrors, v

Durable == Trim(ring \o to_append)

MirrorMeans ==
  /\ RingMirrorsMemory <=> Mirrors(restored, completed, written, Durable)
  /\ to_append = <<>> => Durable = ring
  /\ to_append # <<>> => Durable = Trim(Append(ring, to_append[1]))

LEMMA MirrorInvMeans == TypeOK => MirrorMeans
<1> SUFFICES ASSUME TypeOK PROVE MirrorMeans
  OBVIOUS
<1>1. ring \in Seq(Bucket) /\ to_append \in Seq(Bucket) /\ Len(ring) <= max_hours
  BY DEF TypeOK
<1>2. ring \o to_append \in Seq(Bucket)
  BY <1>1
<1>3. Durable \in Seq(Bucket)
  BY <1>2, TrimDrops DEF Durable
<1>4. RingMirrorsMemory <=> Mirrors(restored, completed, written, Durable)
  BY <1>3, MirrorsMeans DEF TypeOK, RingMirrorsMemory, Durable
<1>5. to_append = <<>> => Durable = ring
  BY <1>1, ConcatEmptySeq, TrimFits DEF Durable
<1>6. ASSUME to_append # <<>> PROVE Durable = Trim(Append(ring, to_append[1]))
  <2> DEFINE b == to_append[1]
  <2>1. to_append = <<b>> /\ b \in Bucket
    BY <1>6, OneBucket DEF TypeOK
  <2> HIDE DEF b
  <2>2. ring \o <<b>> = Append(ring, b)
    BY <1>1, <2>1
  <2> QED BY <2>1, <2>2 DEF Durable, b
<1> QED BY <1>4, <1>5, <1>6 DEF MirrorMeans

LEMMA MirrorNext == TypeOK /\ TypeOK' /\ MirrorInv /\ [Next]_vars => MirrorInv'
<1> SUFFICES ASSUME TypeOK, TypeOK', MirrorInv, [Next]_vars PROVE MirrorInv'
  OBVIOUS
<1>0. /\ Mirrors(restored, completed, written, Durable)
      /\ to_append = <<>> => Durable = ring
      /\ to_append # <<>> => Durable = Trim(Append(ring, to_append[1]))
  BY MirrorInvMeans DEF MirrorInv, MirrorMeans
<1>1. /\ RingMirrorsMemory' <=> Mirrors(restored', completed', written', Durable')
      /\ to_append' = <<>> => Durable' = ring'
      /\ to_append' # <<>> => Durable' = Trim(Append(ring', to_append'[1]))
  <2>1. MirrorMeans'
    BY MirrorInvMeans, PTL
  <2> QED BY <2>1 DEF MirrorMeans
\* A step that completes the current bucket.
<1>2. ASSUME to_append = <<>>, ring' = ring, restored' = restored, NEW b \in Bucket, Complete(b)
      PROVE  MirrorInv'
  <2>1. /\ completed' = Trim(Append(completed, b)) /\ written' = Trim(Append(written, TRUE))
        /\ to_append' = <<b>>
    BY <1>2, CompleteFacts
  <2>2. Mirrors(restored, completed, written, ring)
    BY <1>0, <1>2
  <2>3. Mirrors(restored, completed', written', Trim(Append(ring, b)))
    BY <2>1, <2>2, CompleteMirrors DEF TypeOK
  <2>4. to_append' # <<>> /\ to_append'[1] = b
    BY <2>1
  <2>5. RingMirrorsMemory'
    BY <1>1, <1>2, <2>3, <2>4
  <2>6. completed' # <<>> /\ written'[Len(completed')] /\ completed'[Len(completed')] = b
    <3> DEFINE c2 == Append(completed, b)
               w2 == Append(written, TRUE)
               y == TRUE
    <3>1. c2 \in Seq(Bucket) /\ Len(c2) = Len(completed) + 1 /\ c2[Len(completed) + 1] = b
          /\ Len(completed) \in Nat
      <4>1. completed \in Seq(Bucket)
        BY DEF TypeOK
      <4> QED BY <4>1
    <3>2. /\ w2 \in Seq(BOOLEAN) /\ Len(w2) = Len(completed) + 1
          /\ w2[Len(completed) + 1] = TRUE
      <4>1. y \in BOOLEAN
        BY Zenon
      <4>2. written \in Seq(BOOLEAN) /\ Len(written) = Len(completed)
        BY DEF TypeOK
      <4> HIDE DEF y
      <4>3. /\ Append(written, y) \in Seq(BOOLEAN) /\ Len(Append(written, y)) = Len(written) + 1
            /\ Append(written, y)[Len(written) + 1] = y
        BY <4>1, <4>2, AppendFacts
      <4> QED BY <4>2, <4>3, Zenon DEF y
    <3> HIDE DEF c2, w2
    <3>3. LastKept(c2) /\ LastKept(w2)
      BY <3>1, <3>2, TrimKeepsLast
    <3>4. completed' = Trim(c2) /\ written' = Trim(w2)
      BY <2>1 DEF c2, w2
    <3>5. Len(written') = Len(completed')
      BY DEF TypeOK
    <3>6. Len(completed') > 0 /\ completed'[Len(completed')] = b
      BY <3>1, <3>3, <3>4 DEF LastKept
    <3>7. written'[Len(written')] = TRUE
      BY <3>2, <3>3, <3>4, Zenon DEF LastKept
    <3>8. completed' # <<>>
      BY <3>6
    <3> QED BY <3>5, <3>6, <3>7, <3>8, Zenon
  <2> QED BY <2>4, <2>5, <2>6 DEF MirrorInv
\* A step that leaves all of it alone.
<1>3. ASSUME UNCHANGED <<completed, written, to_append, ring, restored>> PROVE MirrorInv'
  <2>1. Durable' = Durable
    BY <1>3 DEF Durable
  <2>2. RingMirrorsMemory'
    BY <1>0, <1>1, <1>3, <2>1
  <2> QED BY <1>3, <2>2 DEF MirrorInv
<1>4. ASSUME NEW bytes \in {0, 1}, Ingest(bytes) PROVE MirrorInv'
  <2>1. to_append = <<>> /\ ring' = ring /\ restored' = restored
    BY <1>4 DEF Ingest, TickBegins, startVars
  <2>2. CASE NotComplete
    BY <1>3, <2>1, <2>2 DEF NotComplete
  <2>3. CASE current # <<>> /\ Complete(current[1])
    BY <1>2, <2>1, <2>3, CurrentBucket
  <2> QED BY <1>4, <2>2, <2>3 DEF Ingest
<1>5. ASSUME NEW bytes \in {0, 1}, IngestPanics(bytes) PROVE MirrorInv'
  BY <1>3, <1>5 DEF IngestPanics, NotComplete, startVars
<1>6. CASE IngestOffline
  BY <1>2, <1>6, CurrentBucket DEF IngestOffline, TickBegins, startVars
<1>7. CASE AppendBucket
  <2>1. ring' = Durable /\ to_append' = <<>> /\ UNCHANGED <<completed, written, restored>>
    BY <1>7 DEF AppendBucket, Durable, memVars, startVars
  <2>2. RingMirrorsMemory'
    BY <1>0, <1>1, <2>1
  <2> QED BY <2>1, <2>2 DEF MirrorInv
<1>8. CASE AppendFails
  <2>1. /\ to_append # <<>> /\ to_append' = <<>> /\ UNCHANGED <<completed, ring, restored>>
        /\ written' = [written EXCEPT ![Len(written)] = FALSE]
    BY <1>8 DEF AppendFails, startVars
  <2>2. /\ completed # <<>> /\ written[Len(completed)]
        /\ completed[Len(completed)] = to_append[1]
    BY <2>1 DEF MirrorInv
  <2>3. Mirrors(restored, completed, written, Trim(Append(ring, completed[Len(completed)])))
    BY <1>0, <2>1, <2>2
  <2>4. /\ completed \in Seq(Bucket) /\ written \in Seq(BOOLEAN)
        /\ Len(written) = Len(completed) /\ ring \in Seq(Bucket) /\ restored \in BOOLEAN
    BY DEF TypeOK
  <2>5. Mirrors(restored, completed, [written EXCEPT ![Len(written)] = FALSE], ring)
    BY <2>2, <2>3, <2>4, FailureMirrors
  <2>6. RingMirrorsMemory'
    BY <1>1, <2>1, <2>5
  <2> QED BY <2>1, <2>6 DEF MirrorInv
<1>9. CASE SaveCurrentHour
  BY <1>3, <1>9 DEF SaveCurrentHour, memVars, startVars
<1>10. CASE Restart
  <2>1. /\ restored' => completed' = ring'
        /\ ~restored' => completed' = <<>>
        /\ \A i \in 1..Len(completed') : written'[i]
    BY <1>10, RestartFacts
  <2>2. to_append' = <<>>
    BY <1>10 DEF Restart
  <2>3. completed' \in Seq(Bucket) /\ ring' \in Seq(Bucket)
    BY DEF TypeOK
  <2>4. Kept(completed', written') = completed'
    BY <2>1, <2>3, KeptAll
  <2>5. Mirrors(restored', completed', written', ring')
    <3>1. CASE restored'
      <4>1. EndsWith(ring', ring')
        BY <2>3, EndsWithItself
      <4> QED BY <2>1, <2>4, <3>1, <4>1, Zenon DEF Mirrors
    <3>2. CASE ~restored'
      <4>1. EndsWith(ring', <<>>)
        BY <2>3, EndsWithEmpty
      <4> QED BY <2>1, <2>4, <3>2, <4>1, Zenon DEF Mirrors
    <3> QED BY <3>1, <3>2
  <2>6. RingMirrorsMemory'
    BY <1>1, <2>2, <2>5
  <2> QED BY <2>2, <2>6 DEF MirrorInv
<1>11. CASE HourPasses \/ ClockSetBack
  BY <1>3, <1>11 DEF HourPasses, ClockSetBack, memVars, startVars
<1>12. CASE UNCHANGED vars
  BY <1>3, <1>12 DEF vars, memVars, startVars
<1> QED
  BY <1>4, <1>5, <1>6, <1>7, <1>8, <1>9, <1>10, <1>11, <1>12 DEF Next

LEMMA MirrorInit == Init => MirrorInv
<1> SUFFICES ASSUME Init PROVE MirrorInv
  OBVIOUS
<1>1. /\ TypeOK /\ completed = <<>> /\ written = <<>> /\ ring = <<>> /\ to_append = <<>>
      /\ restored = TRUE
  BY TypeInit DEF Init
<1>2. <<>> \in Seq(Bucket) /\ \A i \in 1..Len(<<>>) : <<>>[i]
  OBVIOUS
<1>3. Kept(<<>>, <<>>) = <<>>
  BY <1>2, KeptAll
<1>4. Mirrors(TRUE, <<>>, <<>>, <<>>)
  BY <1>2, <1>3, EndsWithItself DEF Mirrors
<1>5. RingMirrorsMemory
  BY <1>1, <1>4, MirrorInvMeans DEF MirrorMeans
<1> QED BY <1>1, <1>5 DEF MirrorInv

\* For every capacity the ring ends with the completed buckets of the
\* histogram less those whose append failed, and holds no other once a start
\* has read it and no append has failed since: a failed append, which is not
\* tried again, loses that hour and no other, and a start that skips the ring
\* or cannot read it moves and repeats none (append_device_bucket,
\* restore_device_bucket, load_device_ring).
THEOREM RingMirrorsMemoryHolds == Spec => []RingMirrorsMemory
<1>1. MirrorInv => RingMirrorsMemory
  BY DEF MirrorInv
<1> QED BY <1>1, TypeInit, TypeNext, MirrorInit, MirrorNext, PTL DEF Spec

-----------------------------------------------------------------------------
(* The answers of the API.                                                 *)

\* Induction over sequences, from the empty one and one more at the end.
LEMMA SequenceInduction ==
  ASSUME NEW S, NEW P, <<>> \in P,
         \A s \in Seq(S) : \A b \in S : s \in P => Append(s, b) \in P
  PROVE  \A s \in Seq(S) : s \in P
<1> SUFFICES ASSUME NEW s \in Seq(S) PROVE s \in P
  OBVIOUS
<1> DEFINE n == Len(s)
           Q == {i \in 0..n : SubSeq(s, 1, i) \in P}
<1>1. n \in Nat /\ SubSeq(s, 1, n) = s /\ SubSeq(s, 1, 0) = <<>>
  OBVIOUS
<1>2. ASSUME NEW i \in 0..n, i < n
      PROVE  /\ SubSeq(s, 1, i) \in Seq(S) /\ s[i + 1] \in S
             /\ SubSeq(s, 1, i + 1) = Append(SubSeq(s, 1, i), s[i + 1])
  <2>1. i \in Nat /\ i + 1 \in 1..n
    BY <1>2
  <2>2. s[i + 1] \in S
    BY <2>1
  <2> DEFINE p == SubSeq(s, 1, i)
             q == SubSeq(s, 1, i + 1)
  <2>3. p \in Seq(S) /\ Len(p) = i /\ \A j \in 1..i : p[j] = s[j]
    BY <2>1
  <2>4. q \in Seq(S) /\ Len(q) = i + 1 /\ \A j \in 1..(i + 1) : q[j] = s[j]
    BY <2>1
  <2> HIDE DEF p, q
  <2> DEFINE r == Append(p, s[i + 1])
  <2>5. r \in Seq(S) /\ Len(r) = i + 1 /\ r[i + 1] = s[i + 1] /\ \A j \in 1..i : r[j] = p[j]
    BY <2>1, <2>2, <2>3
  <2> HIDE DEF r
  <2>6. \A j \in 1..(i + 1) : q[j] = r[j]
    BY <2>1, <2>3, <2>4, <2>5
  <2>7. q = r
    BY <2>4, <2>5, <2>6, SeqEqual
  <2> QED BY <2>2, <2>3, <2>7 DEF p, q, r
<1> HIDE DEF n
<1>3. 0 \in Q
  <2>1. SubSeq(s, 1, 0) \in P
    BY <1>1, Zenon
  <2>2. 0 \in 0..n
    BY <1>1
  <2> QED BY <2>1, <2>2, Zenon
<1>4. ASSUME NEW i \in 0..n, i \in Q, i < n PROVE i + 1 \in Q
  <2>1. SubSeq(s, 1, i + 1) \in P
    BY <1>2, <1>4
  <2>2. i + 1 \in 0..n
    BY <1>1, <1>4
  <2> QED BY <2>1, <2>2
<1> HIDE DEF Q
<1>5. n \in Q
  <2>1. \A i \in 0..n : i \in Q
    BY <1>1, <1>3, <1>4, Induction
  <2> QED BY <1>1, <2>1
<1> QED BY <1>1, <1>5 DEF Q

Buckets == Seq(Bucket)

\* A bucket more, when its hour is one of these.
WithinNext(s, hours, b) == IF b.start \in hours THEN Append(s, b) ELSE s

LEMMA WithinRun ==
  ASSUME NEW s \in Buckets, NEW hours
  PROVE  \E f \in [0..Len(s) -> Buckets] :
           /\ Within(s, hours) = f[Len(s)] /\ f[0] = <<>>
           /\ \A i \in 1..Len(s) : f[i] = WithinNext(f[i - 1], hours, s[i])
<1> DEFINE n == Len(s)
           step == [i \in 1..n |-> [x \in Buckets |-> WithinNext(x, hours, s[i])]]
           Is(f) == f = [i \in 0..n |-> IF i = 0 THEN <<>> ELSE WithinNext(f[i - 1], hours, s[i])]
           within == CHOOSE f : Is(f)
<1>0. n \in Nat /\ \A i \in 1..n : s[i] \in Bucket
  BY DEF Buckets
<1>1. \A i \in 1..n, x \in Buckets : WithinNext(x, hours, s[i]) \in Buckets
  BY <1>0 DEF WithinNext, Buckets
<1>2. <<>> \in Buckets
  BY DEF Buckets
<1> HIDE DEF n
<1>3. step \in StepsOf(Buckets, n)
  BY <1>1 DEF StepsOf
<1>4. PICK f \in [0..n -> Buckets] : f[0] = <<>> /\ \A i \in 1..n : f[i] = step[i][f[i - 1]]
  <2> HIDE DEF step
  <2>1. \E f : Run(f, Buckets, n, <<>>, step)
    BY <1>0, <1>2, <1>3, RunExists
  <2> QED BY <2>1 DEF Run
<1>5. \A i \in 1..n : f[i - 1] \in Buckets
  BY <1>0
<1>6. \A i \in 1..n : f[i] = WithinNext(f[i - 1], hours, s[i])
  BY <1>4, <1>5
<1>7. Is(f)
  BY <1>0, <1>4, <1>6
<1>8. Is(within)
  <2> HIDE DEF Is
  <2> QED BY <1>7
<1>9. Within(s, hours) = within[n]
  BY DEF Within, WithinNext, n
<1> HIDE DEF within
<1> DEFINE Same == {j \in 0..n : within[j] = f[j]}
<1>10. 0 \in Same
  BY <1>0, <1>7, <1>8
<1>11. ASSUME NEW i \in 0..n, i \in Same, i < n PROVE i + 1 \in Same
  <2>1. i + 1 \in 1..n /\ i + 1 \in 0..n /\ (i + 1) - 1 = i
    BY <1>0, <1>11
  <2>2. within[i + 1] = WithinNext(within[i], hours, s[i + 1])
    BY <2>1, <1>8
  <2>3. f[i + 1] = WithinNext(f[i], hours, s[i + 1])
    BY <2>1, <1>6
  <2> QED BY <2>1, <2>2, <2>3, <1>11
<1> HIDE DEF Same
<1>12. \A i \in 0..n : i \in Same
  BY <1>0, <1>10, <1>11, Induction
<1>13. within[n] = f[n]
  BY <1>0, <1>12 DEF Same
<1> QED BY <1>4, <1>6, <1>9, <1>13 DEF n

LEMMA WithinEmpty ==
  ASSUME NEW hours
  PROVE  Within(<<>>, hours) = <<>>
<1>1. <<>> \in Buckets /\ Len(<<>>) = 0
  BY DEF Buckets
<1> QED BY <1>1, WithinRun

LEMMA WithinType ==
  ASSUME NEW s \in Buckets, NEW hours
  PROVE  Within(s, hours) \in Buckets
<1>1. Len(s) \in Nat
  BY DEF Buckets
<1> QED BY <1>1, WithinRun

LEMMA WithinAppend ==
  ASSUME NEW s \in Buckets, NEW b \in Bucket, NEW hours
  PROVE  Within(Append(s, b), hours) = WithinNext(Within(s, hours), hours, b)
<1> DEFINE t == Append(s, b)
           n == Len(s)
<1>1. /\ t \in Buckets /\ n \in Nat /\ Len(t) = n + 1
      /\ t[n + 1] = b /\ \A i \in 1..n : t[i] = s[i]
  BY DEF Buckets
<1> HIDE DEF t
<1>2. PICK f \in [0..n -> Buckets] :
        /\ Within(s, hours) = f[n] /\ f[0] = <<>>
        /\ \A i \in 1..n : f[i] = WithinNext(f[i - 1], hours, s[i])
  BY WithinRun
<1>3. PICK g \in [0..(n + 1) -> Buckets] :
        /\ Within(t, hours) = g[n + 1] /\ g[0] = <<>>
        /\ \A i \in 1..(n + 1) : g[i] = WithinNext(g[i - 1], hours, t[i])
  <2>0. t \in Buckets
    BY <1>1
  <2>1. \E g \in [0..Len(t) -> Buckets] :
           /\ Within(t, hours) = g[Len(t)] /\ g[0] = <<>>
           /\ \A i \in 1..Len(t) : g[i] = WithinNext(g[i - 1], hours, t[i])
    BY <2>0, WithinRun, Zenon
  <2>2. Len(t) = n + 1
    BY <1>1
  <2> HIDE DEF n
  <2> QED BY <2>1, <2>2, Zenon
<1> HIDE DEF n
<1> DEFINE Same == {i \in 0..n : g[i] = f[i]}
<1>4. 0 \in Same
  BY <1>1, <1>2, <1>3
<1>5. ASSUME NEW i \in 0..n, i \in Same, i < n
      PROVE  i + 1 \in Same
  <2>1. i + 1 \in 1..n /\ i + 1 \in 1..(n + 1) /\ i + 1 \in 0..n /\ (i + 1) - 1 = i
    BY <1>1, <1>5
  <2>2. /\ f[i + 1] = WithinNext(f[i], hours, s[i + 1])
        /\ g[i + 1] = WithinNext(g[i], hours, t[i + 1])
    BY <2>1, <1>2, <1>3
  <2> QED BY <2>1, <2>2, <1>1, <1>5
<1> HIDE DEF Same
<1>6. \A i \in 0..n : i \in Same
  BY <1>1, <1>4, <1>5, Induction
<1>7. g[n] = f[n]
  BY <1>1, <1>6 DEF Same
<1>8. n + 1 \in 1..(n + 1) /\ (n + 1) - 1 = n
  BY <1>1
<1>9. g[n + 1] = WithinNext(g[n], hours, t[n + 1])
  BY <1>3, <1>8
<1> QED BY <1>1, <1>2, <1>3, <1>7, <1>9 DEF t

\* Append at the end of a concatenation.
LEMMA ConcatAppend ==
  ASSUME NEW s \in Buckets, NEW t \in Buckets, NEW b \in Bucket
  PROVE  /\ Append(t, b) \in Buckets /\ s \o t \in Buckets
         /\ s \o Append(t, b) = Append(s \o t, b)
BY DEF Buckets

LEMMA ConcatEmpty ==
  ASSUME NEW s \in Buckets
  PROVE  s \o <<>> = s /\ <<>> \o s = s /\ <<>> \in Buckets
BY DEF Buckets

LEMMA ConcatType ==
  ASSUME NEW s \in Buckets, NEW t \in Buckets
  PROVE  s \o t \in Buckets
BY DEF Buckets

LEMMA BytesConcat ==
  ASSUME NEW s \in Buckets, NEW t \in Buckets
  PROVE  Bytes(s \o t) = Bytes(s) + Bytes(t)
<1> DEFINE P == {u \in Buckets : Bytes(s \o u) = Bytes(s) + Bytes(u)}
<1>1. <<>> \in P
  <2>1. s \o <<>> = s /\ <<>> \in Buckets
    BY ConcatEmpty
  <2>2. Bytes(s) \in Nat
    BY BytesNat DEF Buckets
  <2> QED BY <2>1, <2>2, BytesEmpty
<1>2. ASSUME NEW u \in Buckets, NEW b \in Bucket, u \in P PROVE Append(u, b) \in P
  <2>1. /\ Append(u, b) \in Buckets /\ s \o u \in Buckets
        /\ s \o Append(u, b) = Append(s \o u, b)
    BY ConcatAppend
  <2>2. Bytes(Append(u, b)) = Bytes(u) + b.bytes
    BY BytesAppend DEF Buckets
  <2>3. Bytes(Append(s \o u, b)) = Bytes(s \o u) + b.bytes
    BY <2>1, BytesAppend DEF Buckets
  <2>4. Bytes(s \o u) = Bytes(s) + Bytes(u)
    BY <1>2
  <2>5. Bytes(s) \in Nat /\ Bytes(u) \in Nat /\ b.bytes \in Nat
    BY BytesNat DEF Buckets, Bucket
  <2>6. Bytes(s \o Append(u, b)) = Bytes(s) + Bytes(Append(u, b))
    BY <2>1, <2>2, <2>3, <2>4, <2>5
  <2> QED BY <2>1, <2>6
<1> HIDE DEF P
<1>3. \A u \in Buckets : u \in P
  BY <1>1, <1>2, SequenceInduction DEF Buckets
<1> QED BY <1>3 DEF P

LEMMA WithinConcat ==
  ASSUME NEW s \in Buckets, NEW t \in Buckets, NEW hours
  PROVE  Within(s \o t, hours) = Within(s, hours) \o Within(t, hours)
<1> DEFINE P == {u \in Buckets : Within(s \o u, hours) = Within(s, hours) \o Within(u, hours)}
<1>0. Within(s, hours) \in Buckets
  BY WithinType
<1>1. <<>> \in P
  <2>1. s \o <<>> = s /\ <<>> \in Buckets /\ Within(s, hours) \o <<>> = Within(s, hours)
    BY <1>0, ConcatEmpty
  <2> QED BY <2>1, WithinEmpty
<1>2. ASSUME NEW u \in Buckets, NEW b \in Bucket, u \in P PROVE Append(u, b) \in P
  <2>1. /\ Append(u, b) \in Buckets /\ s \o u \in Buckets
        /\ s \o Append(u, b) = Append(s \o u, b)
    BY ConcatAppend
  <2>2. Within(Append(u, b), hours) = WithinNext(Within(u, hours), hours, b)
    BY WithinAppend
  <2>3. Within(Append(s \o u, b), hours) = WithinNext(Within(s \o u, hours), hours, b)
    BY <2>1, WithinAppend
  <2>4. Within(s \o u, hours) = Within(s, hours) \o Within(u, hours) /\ Within(u, hours) \in Buckets
    BY <1>2, WithinType
  <2>5. Within(s, hours) \o Append(Within(u, hours), b)
          = Append(Within(s, hours) \o Within(u, hours), b)
    BY <1>0, <2>4, ConcatAppend
  <2>6. Within(s \o Append(u, b), hours) = Within(s, hours) \o Within(Append(u, b), hours)
    BY <2>1, <2>2, <2>3, <2>4, <2>5, Zenon DEF WithinNext
  <2> QED BY <2>1, <2>6
<1> HIDE DEF P
<1>3. \A u \in Buckets : u \in P
  BY <1>1, <1>2, SequenceInduction DEF Buckets
<1> QED BY <1>3 DEF P

\* Every bucket of s is of one of these hours.
StartsIn(s, hours) == \A i \in DOMAIN s : s[i].start \in hours

LEMMA StartsInEmpty == \A hours : StartsIn(<<>>, hours)
BY DEF StartsIn

LEMMA StartsInAppend ==
  ASSUME NEW s \in Buckets, NEW b \in Bucket, NEW hours
  PROVE  StartsIn(Append(s, b), hours) <=> StartsIn(s, hours) /\ b.start \in hours
<1> DEFINE t == Append(s, b)
           n == Len(s)
<1>1. /\ n \in Nat /\ DOMAIN s = 1..n /\ DOMAIN t = 1..(n + 1)
      /\ t[n + 1] = b /\ \A i \in 1..n : t[i] = s[i]
  BY DEF Buckets
<1> HIDE DEF t, n
<1>2. StartsIn(t, hours) <=> \A i \in 1..(n + 1) : t[i].start \in hours
  BY <1>1 DEF StartsIn
<1>3. StartsIn(s, hours) <=> \A i \in 1..n : s[i].start \in hours
  BY <1>1 DEF StartsIn
<1>4. (\A i \in 1..(n + 1) : t[i].start \in hours) <=>
        (\A i \in 1..n : s[i].start \in hours) /\ b.start \in hours
  <2>1. ASSUME \A i \in 1..(n + 1) : t[i].start \in hours
        PROVE  (\A i \in 1..n : s[i].start \in hours) /\ b.start \in hours
    <3>1. ASSUME NEW i \in 1..n PROVE s[i].start \in hours
      <4>1. i \in 1..(n + 1) /\ t[i] = s[i]
        BY <1>1
      <4> QED BY <2>1, <4>1, Zenon
    <3>2. n + 1 \in 1..(n + 1) /\ t[n + 1] = b
      BY <1>1
    <3>3. b.start \in hours
      BY <2>1, <3>2, Zenon
    <3> QED BY <3>1, <3>3
  <2>2. ASSUME \A i \in 1..n : s[i].start \in hours, b.start \in hours, NEW i \in 1..(n + 1)
        PROVE  t[i].start \in hours
    <3>1. CASE i = n + 1
      BY <1>1, <2>2, <3>1
    <3>2. CASE i # n + 1
      <4>1. i \in 1..n
        BY <1>1, <3>2
      <4>2. t[i] = s[i]
        BY <1>1, <4>1
      <4> QED BY <2>2, <4>1, <4>2, Zenon
    <3> QED BY <3>1, <3>2
  <2> QED BY <2>1, <2>2, Zenon
<1> QED BY <1>2, <1>3, <1>4, Zenon DEF t

LEMMA StartsInConcat ==
  ASSUME NEW s \in Buckets, NEW t \in Buckets, NEW hours, StartsIn(s, hours), StartsIn(t, hours)
  PROVE  StartsIn(s \o t, hours)
<1> DEFINE n == Len(s)
           m == Len(t)
           u == s \o t
<1>1. /\ n \in Nat /\ m \in Nat /\ DOMAIN s = 1..n /\ DOMAIN t = 1..m /\ DOMAIN u = 1..(n + m)
      /\ \A i \in 1..(n + m) : u[i] = IF i <= n THEN s[i] ELSE t[i - n]
  BY DEF Buckets
<1> HIDE DEF n, m, u
<1>2. ASSUME NEW i \in 1..(n + m) PROVE u[i].start \in hours
  <2>1. CASE i <= n
    <3>1. i \in DOMAIN s /\ u[i] = s[i]
      BY <1>1, <2>1
    <3> QED BY <3>1, Zenon DEF StartsIn
  <2>2. CASE ~(i <= n)
    <3>1. i - n \in DOMAIN t /\ u[i] = t[i - n]
      BY <1>1, <2>2
    <3> QED BY <3>1, Zenon DEF StartsIn
  <2> QED BY <2>1, <2>2
<1> QED BY <1>1, <1>2, Zenon DEF StartsIn, u

LEMMA StartsInSubset ==
  ASSUME NEW s, NEW hours, NEW others, StartsIn(s, hours), hours \subseteq others
  PROVE  StartsIn(s, others)
BY DEF StartsIn

LEMMA BucketsStart ==
  ASSUME NEW s \in Buckets
  PROVE  StartsIn(s, 0..MaxHour)
<1>1. \A i \in DOMAIN s : s[i] \in Bucket
  BY DEF Buckets
<1> QED BY <1>1 DEF StartsIn, Bucket

\* The buckets of some hours are of these hours, and of the hours they were.
LEMMA WithinStarts ==
  ASSUME NEW s \in Buckets, NEW hours, NEW others, StartsIn(s, others)
  PROVE  StartsIn(Within(s, hours), hours \cap others)
<1> DEFINE P == {u \in Buckets : StartsIn(u, others) => StartsIn(Within(u, hours), hours \cap others)}
<1>1. <<>> \in P
  BY WithinEmpty, StartsInEmpty, ConcatEmpty DEF Buckets
<1>2. ASSUME NEW u \in Buckets, NEW b \in Bucket, u \in P PROVE Append(u, b) \in P
  <2>1. Append(u, b) \in Buckets
    BY DEF Buckets
  <2>2. Within(Append(u, b), hours) = WithinNext(Within(u, hours), hours, b)
        /\ Within(u, hours) \in Buckets
    BY WithinAppend, WithinType
  <2>3. ASSUME StartsIn(Append(u, b), others)
        PROVE  StartsIn(Within(Append(u, b), hours), hours \cap others)
    <3>1. StartsIn(u, others) /\ b.start \in others
      BY <2>3, StartsInAppend
    <3>2. StartsIn(Within(u, hours), hours \cap others)
      BY <1>2, <3>1
    <3>3. CASE b.start \in hours
      <4>1. StartsIn(Append(Within(u, hours), b), hours \cap others)
        BY <2>2, <3>1, <3>2, <3>3, StartsInAppend
      <4> QED BY <2>2, <3>3, <4>1, Zenon DEF WithinNext
    <3>4. CASE b.start \notin hours
      BY <2>2, <3>2, <3>4, Zenon DEF WithinNext
    <3> QED BY <3>3, <3>4
  <2> QED BY <2>1, <2>3
<1> HIDE DEF P
<1>3. \A u \in Buckets : u \in P
  BY <1>1, <1>2, SequenceInduction DEF Buckets
<1> QED BY <1>3 DEF P

LEMMA WithinAll ==
  ASSUME NEW s \in Buckets, NEW hours, StartsIn(s, hours)
  PROVE  Within(s, hours) = s
<1> DEFINE P == {u \in Buckets : StartsIn(u, hours) => Within(u, hours) = u}
<1>1. <<>> \in P
  BY WithinEmpty DEF Buckets
<1>2. ASSUME NEW u \in Buckets, NEW b \in Bucket, u \in P PROVE Append(u, b) \in P
  <2>1. Append(u, b) \in Buckets
    BY DEF Buckets
  <2>2. Within(Append(u, b), hours) = WithinNext(Within(u, hours), hours, b)
    BY WithinAppend
  <2>3. ASSUME StartsIn(Append(u, b), hours)
        PROVE  Within(Append(u, b), hours) = Append(u, b)
    <3>1. StartsIn(u, hours) /\ b.start \in hours
      BY <2>3, StartsInAppend
    <3>2. Within(u, hours) = u
      BY <1>2, <3>1
    <3> QED BY <2>2, <3>1, <3>2, Zenon DEF WithinNext
  <2> QED BY <2>1, <2>3
<1> HIDE DEF P
<1>3. \A u \in Buckets : u \in P
  BY <1>1, <1>2, SequenceInduction DEF Buckets
<1> QED BY <1>3 DEF P

LEMMA WithinNone ==
  ASSUME NEW s \in Buckets, NEW hours, NEW others, StartsIn(s, others), hours \cap others = {}
  PROVE  Within(s, hours) = <<>>
<1> DEFINE P == {u \in Buckets : StartsIn(u, others) => Within(u, hours) = <<>>}
<1>1. <<>> \in P
  BY WithinEmpty DEF Buckets
<1>2. ASSUME NEW u \in Buckets, NEW b \in Bucket, u \in P PROVE Append(u, b) \in P
  <2>1. Append(u, b) \in Buckets
    BY DEF Buckets
  <2>2. Within(Append(u, b), hours) = WithinNext(Within(u, hours), hours, b)
    BY WithinAppend
  <2>3. ASSUME StartsIn(Append(u, b), others)
        PROVE  Within(Append(u, b), hours) = <<>>
    <3>1. StartsIn(u, others) /\ b.start \notin hours
      BY <2>3, StartsInAppend
    <3>2. Within(u, hours) = <<>>
      BY <1>2, <3>1
    <3> QED BY <2>2, <3>1, <3>2, Zenon DEF WithinNext
  <2> QED BY <2>1, <2>3
<1> HIDE DEF P
<1>3. \A u \in Buckets : u \in P
  BY <1>1, <1>2, SequenceInduction DEF Buckets
<1> QED BY <1>3 DEF P

LEMMA WithinWithin ==
  ASSUME NEW s \in Buckets, NEW hours, NEW others
  PROVE  Within(Within(s, hours), others) = Within(s, hours \cap others)
<1> DEFINE P == {u \in Buckets : Within(Within(u, hours), others) = Within(u, hours \cap others)}
<1>1. <<>> \in P
  BY WithinEmpty DEF Buckets
<1>2. ASSUME NEW u \in Buckets, NEW b \in Bucket, u \in P PROVE Append(u, b) \in P
  <2>1. Append(u, b) \in Buckets
    BY DEF Buckets
  <2>2. /\ Within(Append(u, b), hours) = WithinNext(Within(u, hours), hours, b)
        /\ Within(Append(u, b), hours \cap others)
             = WithinNext(Within(u, hours \cap others), hours \cap others, b)
        /\ Within(u, hours) \in Buckets
    BY WithinAppend, WithinType
  <2>3. Within(Within(u, hours), others) = Within(u, hours \cap others)
    BY <1>2
  <2>4. CASE b.start \in hours
    <3>1. Within(Append(u, b), hours) = Append(Within(u, hours), b)
      BY <2>2, <2>4, Zenon DEF WithinNext
    <3>2. Within(Append(Within(u, hours), b), others)
            = WithinNext(Within(Within(u, hours), others), others, b)
      BY <2>2, WithinAppend
    <3>3. b.start \in hours \cap others <=> b.start \in others
      BY <2>4
    <3>4. WithinNext(Within(u, hours \cap others), hours \cap others, b)
            = WithinNext(Within(u, hours \cap others), others, b)
      BY <3>3, Zenon DEF WithinNext
    <3> QED BY <2>1, <2>2, <2>3, <3>1, <3>2, <3>4
  <2>5. CASE b.start \notin hours
    <3>1. Within(Append(u, b), hours) = Within(u, hours)
      BY <2>2, <2>5, Zenon DEF WithinNext
    <3>2. b.start \notin hours \cap others
      BY <2>5
    <3>3. Within(Append(u, b), hours \cap others) = Within(u, hours \cap others)
      BY <2>2, <3>2, Zenon DEF WithinNext
    <3> QED BY <2>1, <2>3, <3>1, <3>3
  <2> QED BY <2>4, <2>5
<1> HIDE DEF P
<1>3. \A u \in Buckets : u \in P
  BY <1>1, <1>2, SequenceInduction DEF Buckets
<1> QED BY <1>3 DEF P

\* The bytes of some hours and of other hours.
LEMMA BytesSplit ==
  ASSUME NEW s \in Buckets, NEW hours, NEW others, hours \cap others = {}
  PROVE  Bytes(Within(s, hours \cup others)) = Bytes(Within(s, hours)) + Bytes(Within(s, others))
<1> DEFINE B(u, hs) == Bytes(Within(u, hs))
           P == {u \in Buckets : B(u, hours \cup others) = B(u, hours) + B(u, others)}
<1>0. ASSUME NEW u \in Buckets, NEW b \in Bucket, NEW hs
      PROVE  /\ B(u, hs) \in Nat /\ b.bytes \in Nat
             /\ B(Append(u, b), hs) = B(u, hs) + (IF b.start \in hs THEN b.bytes ELSE 0)
  <2>1. Within(Append(u, b), hs) = WithinNext(Within(u, hs), hs, b) /\ Within(u, hs) \in Buckets
    BY WithinAppend, WithinType
  <2>2. B(u, hs) \in Nat /\ b.bytes \in Nat
    BY <2>1, BytesNat DEF Buckets, Bucket
  <2>3. Bytes(Append(Within(u, hs), b)) = Bytes(Within(u, hs)) + b.bytes
    BY <2>1, BytesAppend DEF Buckets
  <2>4. CASE b.start \in hs
    <3>1. Within(Append(u, b), hs) = Append(Within(u, hs), b)
      BY <2>1, <2>4, Zenon DEF WithinNext
    <3> QED BY <2>2, <2>3, <2>4, <3>1
  <2>5. CASE b.start \notin hs
    <3>1. Within(Append(u, b), hs) = Within(u, hs)
      BY <2>1, <2>5, Zenon DEF WithinNext
    <3> QED BY <2>2, <2>5, <3>1
  <2> QED BY <2>4, <2>5
<1>1. <<>> \in P
  BY WithinEmpty, BytesEmpty DEF Buckets
<1> HIDE DEF B
<1>2. ASSUME NEW u \in Buckets, NEW b \in Bucket, u \in P PROVE Append(u, b) \in P
  <2>1. Append(u, b) \in Buckets
    BY DEF Buckets
  <2>2. /\ B(u, hours \cup others) \in Nat /\ B(u, hours) \in Nat /\ B(u, others) \in Nat
        /\ b.bytes \in Nat
    BY <1>0
  <2>3. /\ B(Append(u, b), hours \cup others) = B(u, hours \cup others)
             + (IF b.start \in hours \cup others THEN b.bytes ELSE 0)
        /\ B(Append(u, b), hours) = B(u, hours) + (IF b.start \in hours THEN b.bytes ELSE 0)
        /\ B(Append(u, b), others) = B(u, others) + (IF b.start \in others THEN b.bytes ELSE 0)
    BY <1>0
  <2>4. B(u, hours \cup others) = B(u, hours) + B(u, others)
    BY <1>2
  <2>5. B(Append(u, b), hours \cup others) = B(Append(u, b), hours) + B(Append(u, b), others)
    BY <2>2, <2>3, <2>4
  <2> QED BY <2>1, <2>5
<1> HIDE DEF P
<1>3. \A u \in Buckets : u \in P
  BY <1>1, <1>2, SequenceInduction DEF Buckets
<1> QED BY <1>3 DEF P, B

\* f[n] is what the first n hours put in order.
HourByHour(f, s) ==
  /\ f \in [0..(MaxHour + 1) -> Buckets] /\ f[0] = <<>>
  /\ \A n \in 1..(MaxHour + 1) : f[n] = f[n - 1] \o Within(s, {n - 1})

LEMMA ByStartRun ==
  ASSUME NEW s \in Buckets
  PROVE  \E f : HourByHour(f, s) /\ ByStart(s) = f[MaxHour + 1]
<1> DEFINE N == MaxHour + 1
           step == [n \in 1..N |-> [x \in Buckets |-> x \o Within(s, {n - 1})]]
           Is(f) == f = [n \in 0..N |-> IF n = 0 THEN <<>> ELSE f[n - 1] \o Within(s, {n - 1})]
           sorted == CHOOSE f : Is(f)
<1>0. N \in Nat
  BY BoundsAssumption
<1>1. \A n \in 1..N, x \in Buckets : x \o Within(s, {n - 1}) \in Buckets
  <2>1. \A n \in 1..N : Within(s, {n - 1}) \in Buckets
    BY WithinType
  <2> QED BY <2>1, ConcatType
<1>2. <<>> \in Buckets
  BY DEF Buckets
<1>3. ByStart(s) = sorted[N]
  BY DEF ByStart
<1> HIDE DEF N
<1>4. step \in StepsOf(Buckets, N)
  BY <1>1 DEF StepsOf
<1>5. PICK f : f \in [0..N -> Buckets] /\ f[0] = <<>> /\ \A n \in 1..N : f[n] = step[n][f[n - 1]]
  <2> HIDE DEF step
  <2>1. \E f : Run(f, Buckets, N, <<>>, step)
    BY <1>0, <1>2, <1>4, RunExists
  <2> QED BY <2>1 DEF Run
<1>6. \A n \in 1..N : f[n - 1] \in Buckets
  BY <1>0, <1>5
<1>7. \A n \in 1..N : f[n] = f[n - 1] \o Within(s, {n - 1})
  BY <1>5, <1>6
<1>8. Is(f)
  <2> DEFINE next(n) == IF n = 0 THEN <<>> ELSE f[n - 1] \o Within(s, {n - 1})
  <2>1. ASSUME NEW n \in 0..N PROVE f[n] = next(n)
    <3>1. CASE n = 0
      BY <1>5, <3>1
    <3>2. CASE n # 0
      <4>1. n \in 1..N
        BY <1>0, <3>2
      <4> QED BY <1>7, <3>2, <4>1, Zenon
    <3> QED BY <3>1, <3>2
  <2> HIDE DEF next
  <2>2. f = [n \in 0..N |-> next(n)]
    BY <1>5, <2>1
  <2> QED BY <2>2 DEF next
<1>9. Is(sorted)
  <2> HIDE DEF Is
  <2> QED BY <1>8
<1> HIDE DEF sorted
<1> DEFINE Same == {n \in 0..N : sorted[n] = f[n]}
<1>10. 0 \in Same
  BY <1>0, <1>5, <1>9
<1>11. ASSUME NEW n \in 0..N, n \in Same, n < N PROVE n + 1 \in Same
  <2>1. n + 1 \in 1..N /\ n + 1 \in 0..N /\ (n + 1) - 1 = n /\ n + 1 # 0
    BY <1>0, <1>11
  <2>2. sorted[n + 1] = sorted[n] \o Within(s, {n})
    BY <2>1, <1>9
  <2>3. f[n + 1] = f[n] \o Within(s, {n})
    BY <2>1, <1>7
  <2> QED BY <2>1, <2>2, <2>3, <1>11
<1> HIDE DEF Same
<1>12. \A n \in 0..N : n \in Same
  BY <1>0, <1>10, <1>11, Induction
<1>13. sorted[N] = f[N]
  BY <1>0, <1>12 DEF Same
<1>14. HourByHour(f, s)
  BY <1>5, <1>7 DEF HourByHour, N
<1> QED BY <1>3, <1>13, <1>14 DEF N

\* Sorting keeps the bytes and the hours.
LEMMA ByStartKeeps ==
  ASSUME NEW s \in Buckets
  PROVE  /\ ByStart(s) \in Buckets /\ Bytes(ByStart(s)) = Bytes(s)
         /\ \A hours : StartsIn(s, hours) => StartsIn(ByStart(s), hours)
<1> DEFINE N == MaxHour + 1
<1>0. N \in Nat /\ N = MaxHour + 1 /\ MaxHour \in Nat
  BY BoundsAssumption
<1>1. PICK f : HourByHour(f, s) /\ ByStart(s) = f[N]
  BY ByStartRun
<1>2. /\ f \in [0..N -> Buckets] /\ f[0] = <<>>
      /\ \A n \in 1..N : f[n] = f[n - 1] \o Within(s, {n - 1})
  BY <1>1, Zenon DEF HourByHour
<1> HIDE DEF N
<1> DEFINE P == {n \in 0..N : Bytes(f[n]) = Bytes(Within(s, 0..(n - 1)))}
<1>3. 0 \in P
  <2>1. 0..(0 - 1) = {}
    OBVIOUS
  <2>2. Within(s, {}) = <<>>
    BY BucketsStart, WithinNone
  <2>3. Bytes(f[0]) = Bytes(Within(s, 0..(0 - 1)))
    BY <1>2, <2>1, <2>2, Zenon
  <2> QED BY <1>0, <2>3
<1>4. ASSUME NEW n \in 0..N, n \in P, n < N PROVE n + 1 \in P
  <2>1. n + 1 \in 1..N /\ n + 1 \in 0..N /\ (n + 1) - 1 = n
    BY <1>0, <1>4
  <2>2. f[n + 1] = f[n] \o Within(s, {n}) /\ f[n] \in Buckets /\ Within(s, {n}) \in Buckets
    BY <1>2, <2>1, WithinType
  <2>3. Bytes(f[n + 1]) = Bytes(f[n]) + Bytes(Within(s, {n}))
    BY <2>2, BytesConcat
  <2>4. 0..n = (0..(n - 1)) \cup {n} /\ (0..(n - 1)) \cap {n} = {}
    BY <1>0
  <2>5. Bytes(Within(s, (0..(n - 1)) \cup {n}))
          = Bytes(Within(s, 0..(n - 1))) + Bytes(Within(s, {n}))
    BY <2>4, BytesSplit
  <2>6. Bytes(f[n]) = Bytes(Within(s, 0..(n - 1)))
    BY <1>4
  <2>7. Bytes(f[n + 1]) = Bytes(Within(s, 0..((n + 1) - 1)))
    BY <2>1, <2>3, <2>4, <2>5, <2>6, Zenon
  <2> QED BY <2>1, <2>7
<1> HIDE DEF P
<1>5. Bytes(f[N]) = Bytes(s)
  <2>1. \A n \in 0..N : n \in P
    BY <1>0, <1>3, <1>4, Induction
  <2>2. Bytes(f[N]) = Bytes(Within(s, 0..(N - 1)))
    BY <1>0, <2>1 DEF P
  <2>3. Within(s, 0..(N - 1)) = s
    <3>1. 0..(N - 1) = 0..MaxHour
      BY <1>0
    <3> QED BY <3>1, BucketsStart, WithinAll
  <2> QED BY <2>2, <2>3
<1>6. ASSUME NEW hours, StartsIn(s, hours) PROVE StartsIn(f[N], hours)
  <2> DEFINE Q == {n \in 0..N : StartsIn(f[n], hours)}
  <2>1. 0 \in Q
    BY <1>0, <1>2, StartsInEmpty
  <2>2. ASSUME NEW n \in 0..N, n \in Q, n < N PROVE n + 1 \in Q
    <3>1. n + 1 \in 1..N /\ n + 1 \in 0..N /\ (n + 1) - 1 = n
      BY <1>0, <2>2
    <3>2. f[n + 1] = f[n] \o Within(s, {n}) /\ f[n] \in Buckets /\ Within(s, {n}) \in Buckets
      BY <1>2, <3>1, WithinType
    <3>3. StartsIn(Within(s, {n}), hours)
      BY <1>6, WithinStarts, StartsInSubset
    <3>4. StartsIn(f[n], hours)
      BY <2>2
    <3>5. StartsIn(f[n] \o Within(s, {n}), hours)
      BY <3>2, <3>3, <3>4, StartsInConcat
    <3> QED BY <3>1, <3>2, <3>5
  <2> HIDE DEF Q
  <2>3. \A n \in 0..N : n \in Q
    BY <1>0, <2>1, <2>2, Induction
  <2> QED BY <1>0, <2>3 DEF Q
<1>7. f[N] \in Buckets
  BY <1>0, <1>2
<1> QED BY <1>1, <1>5, <1>6, <1>7

\* What starts before h comes before what starts later.
LEMMA ByStartSplits ==
  ASSUME NEW s \in Buckets, NEW h \in 0..(MaxHour + 1)
  PROVE  ByStart(Within(s, 0..(h - 1))) \o ByStart(Within(s, h..MaxHour))
           = ByStart(Within(s, 0..MaxHour))
<1> DEFINE N == MaxHour + 1
           young == Within(s, h..MaxHour)
           old == Within(s, 0..(h - 1))
           whole == Within(s, 0..MaxHour)
<1>0. N \in Nat /\ h \in 0..N /\ MaxHour \in Nat /\ N = MaxHour + 1
  BY BoundsAssumption
<1>1. old \in Buckets /\ young \in Buckets /\ whole \in Buckets
  BY WithinType
<1>2. ASSUME NEW n \in 0..MaxHour
      PROVE  /\ Within(whole, {n}) = Within(s, {n})
             /\ n < h => Within(old, {n}) = Within(s, {n}) /\ Within(young, {n}) = <<>>
             /\ h <= n => Within(young, {n}) = Within(s, {n}) /\ Within(old, {n}) = <<>>
  <2>1. /\ Within(whole, {n}) = Within(s, (0..MaxHour) \cap {n})
        /\ Within(old, {n}) = Within(s, (0..(h - 1)) \cap {n})
        /\ Within(young, {n}) = Within(s, (h..MaxHour) \cap {n})
    <3>1. \A hours : Within(Within(s, hours), {n}) = Within(s, hours \cap {n})
      BY WithinWithin
    <3> QED BY <3>1
  <2>2. Within(s, {}) = <<>>
    BY BucketsStart, WithinNone
  <2>3. /\ (0..MaxHour) \cap {n} = {n}
        /\ n < h => (0..(h - 1)) \cap {n} = {n} /\ (h..MaxHour) \cap {n} = {}
        /\ h <= n => (h..MaxHour) \cap {n} = {n} /\ (0..(h - 1)) \cap {n} = {}
    BY <1>0
  <2> HIDE DEF whole, old, young
  <2> QED BY <2>1, <2>2, <2>3, Zenon
<1> HIDE DEF whole, old, young
<1>3. PICK f : HourByHour(f, old) /\ ByStart(old) = f[N]
  BY <1>1, ByStartRun
<1>4. PICK g : HourByHour(g, young) /\ ByStart(young) = g[N]
  BY <1>1, ByStartRun
<1>5. PICK k : HourByHour(k, whole) /\ ByStart(whole) = k[N]
  BY <1>1, ByStartRun
<1>6. /\ f \in [0..N -> Buckets] /\ f[0] = <<>>
      /\ \A n \in 1..N : f[n] = f[n - 1] \o Within(old, {n - 1})
  BY <1>3, Zenon DEF HourByHour
<1>7. /\ g \in [0..N -> Buckets] /\ g[0] = <<>>
      /\ \A n \in 1..N : g[n] = g[n - 1] \o Within(young, {n - 1})
  BY <1>4, Zenon DEF HourByHour
<1>8. /\ k \in [0..N -> Buckets] /\ k[0] = <<>>
      /\ \A n \in 1..N : k[n] = k[n - 1] \o Within(whole, {n - 1})
  BY <1>5, Zenon DEF HourByHour
<1> HIDE DEF N
<1> DEFINE P == {n \in 0..N : k[n] = f[n] \o g[n] /\ (n <= h => g[n] = <<>>)}
<1>9. 0 \in P
  <2>1. <<>> \o <<>> = <<>>
    BY ConcatEmpty DEF Buckets
  <2>2. k[0] = f[0] \o g[0] /\ g[0] = <<>>
    BY <1>6, <1>7, <1>8, <2>1, Zenon
  <2>3. 0 \in 0..N
    BY <1>0
  <2> QED BY <2>2, <2>3, Zenon
<1>10. ASSUME NEW n \in 0..N, n \in P, n < N PROVE n + 1 \in P
  <2>1. n + 1 \in 1..N /\ n + 1 \in 0..N /\ (n + 1) - 1 = n /\ n \in 0..MaxHour
    BY <1>0, <1>10
  <2>2. /\ f[n + 1] = f[n] \o Within(old, {n}) /\ g[n + 1] = g[n] \o Within(young, {n})
        /\ k[n + 1] = k[n] \o Within(whole, {n})
    BY <1>6, <1>7, <1>8, <2>1
  <2>3. f[n] \in Buckets /\ g[n] \in Buckets /\ Within(s, {n}) \in Buckets
    BY <1>6, <1>7, WithinType
  <2>4. k[n] = f[n] \o g[n] /\ (n <= h => g[n] = <<>>)
    BY <1>10
  <2>5. f[n] \o <<>> = f[n] /\ g[n] \o <<>> = g[n]
    BY <2>3, ConcatEmpty
  <2>6. CASE n < h
    <3>1. g[n] = <<>>
      BY <1>0, <2>4, <2>6
    <3>2. Within(old, {n}) = Within(s, {n}) /\ Within(young, {n}) = <<>>
          /\ Within(whole, {n}) = Within(s, {n})
      BY <1>2, <2>1, <2>6
    <3>3. g[n + 1] = <<>>
      BY <2>2, <2>5, <3>1, <3>2, Zenon
    <3>4. f[n + 1] \in Buckets
      BY <1>6, <2>1
    <3>5. k[n + 1] = f[n + 1] \o g[n + 1]
      <4>1. k[n + 1] = f[n + 1]
        BY <2>2, <2>4, <2>5, <3>1, <3>2, Zenon
      <4>2. f[n + 1] \o <<>> = f[n + 1]
        BY <3>4, ConcatEmpty
      <4> QED BY <3>3, <4>1, <4>2, Zenon
    <3> QED BY <2>1, <3>3, <3>5, Zenon
  <2>7. CASE ~(n < h)
    <3>1. h <= n /\ ~(n + 1 <= h)
      BY <1>0, <2>7
    <3>2. Within(young, {n}) = Within(s, {n}) /\ Within(old, {n}) = <<>>
          /\ Within(whole, {n}) = Within(s, {n})
      BY <1>2, <2>1, <3>1
    <3>3. (f[n] \o g[n]) \o Within(s, {n}) = f[n] \o (g[n] \o Within(s, {n}))
      <4> DEFINE a == f[n]
                 b == g[n]
                 c == Within(s, {n})
      <4>1. a \in Buckets /\ b \in Buckets /\ c \in Buckets
        BY <2>3
      <4> HIDE DEF a, b, c
      <4>2. (a \o b) \o c = a \o (b \o c)
        BY <4>1 DEF Buckets
      <4> QED BY <4>2 DEF a, b, c
    <3>4. k[n + 1] = f[n + 1] \o g[n + 1]
      BY <2>2, <2>4, <2>5, <3>2, <3>3, Zenon
    <3>5. n + 1 <= h => g[n + 1] = <<>>
      BY <3>1
    <3> QED BY <2>1, <3>4, <3>5, Zenon
  <2> QED BY <2>6, <2>7
<1> HIDE DEF P
<1>11. k[N] = f[N] \o g[N]
  <2>1. \A n \in 0..N : n \in P
    BY <1>0, <1>9, <1>10, Induction
  <2>2. N \in 0..N
    BY <1>0
  <2> QED BY <2>1, <2>2, Zenon DEF P
<1> QED BY <1>3, <1>4, <1>5, <1>11, Zenon DEF old, young, whole

\* The day of the last hour is the last one.
LEMMA DaysCover ==
  /\ Days \in Nat /\ MaxHour < Days * HoursPerDay
  /\ \A d \in 0..(Days - 1) : d \in 0..MaxHour
<1> DEFINE H == HoursPerDay
           q == MaxHour \div H
<1>1. MaxHour \in Nat /\ H \in Nat \ {0}
  BY BoundsAssumption, HoursPerDayAssumption
<1>2. q \in Nat /\ q * H <= MaxHour /\ MaxHour < q * H + H
  BY <1>1
<1>3. q <= q * H
  BY <1>1, <1>2
<1>4. Days = q + 1
  BY DEF Days
<1>5. (q + 1) * H = q * H + H
  BY <1>1, <1>2
<1> HIDE DEF q, H
<1>6. q * H \in Nat
  BY <1>1, <1>2
<1>7. q <= MaxHour
  BY <1>1, <1>2, <1>3, <1>6
<1>8. MaxHour < (q + 1) * H
  BY <1>2, <1>5
<1>9. \A d \in 0..((q + 1) - 1) : d \in 0..MaxHour
  BY <1>1, <1>2, <1>7
<1> QED BY <1>2, <1>4, <1>8, <1>9 DEF H

LEMMA DayStarts ==
  ASSUME NEW d \in Nat, NEW e \in Nat
  PROVE  /\ d * HoursPerDay \in Nat /\ (d + 1) * HoursPerDay = d * HoursPerDay + HoursPerDay
         /\ d <= e => d * HoursPerDay <= e * HoursPerDay
<1>1. HoursPerDay \in Nat \ {0}
  BY HoursPerDayAssumption
<1>2. d * HoursPerDay \in Nat /\ e * HoursPerDay \in Nat
  BY <1>1
<1>3. (d + 1) * HoursPerDay = d * HoursPerDay + HoursPerDay
  BY <1>1
<1>4. ASSUME d <= e PROVE d * HoursPerDay <= e * HoursPerDay
  <2>1. PICK c \in Nat : e = d + c
    <3>1. e - d \in Nat /\ e = d + (e - d)
      BY <1>4
    <3> QED BY <3>1
  <2>2. e * HoursPerDay = d * HoursPerDay + c * HoursPerDay /\ c * HoursPerDay \in Nat
    BY <1>1, <2>1
  <2> QED BY <1>2, <2>2
<1> QED BY <1>2, <1>3, <1>4

\* The bucket of a day is added when there is one.
DayBucket(s, d) == [start |-> d, bytes |-> Bytes(Within(s, DayHours(d)))]
MergeNext(x, s, d) ==
  IF Within(s, DayHours(d)) = <<>> THEN x ELSE Append(x, DayBucket(s, d))

DayByDay(f, s) ==
  /\ f \in [0..Days -> Buckets] /\ f[0] = <<>>
  /\ \A n \in 1..Days : f[n] = MergeNext(f[n - 1], s, n - 1)

LEMMA DayBucketType ==
  ASSUME NEW s \in Buckets, NEW d \in 0..(Days - 1)
  PROVE  DayBucket(s, d) \in Bucket
<1>1. Bytes(Within(s, DayHours(d))) \in Nat
  BY WithinType, BytesNat DEF Buckets
<1>2. d \in 0..MaxHour
  BY DaysCover
<1> QED BY <1>1, <1>2 DEF Bucket, DayBucket

LEMMA MergeRun ==
  ASSUME NEW s \in Buckets
  PROVE  \E f : DayByDay(f, s) /\ merge_hourly_to_daily(s) = f[Days]
<1> DEFINE N == Days
           step == [n \in 1..N |-> [x \in Buckets |-> MergeNext(x, s, n - 1)]]
           Is(f) == f = [n \in 0..N |-> IF n = 0 THEN <<>>
                           ELSE IF Within(s, DayHours(n - 1)) = <<>> THEN f[n - 1]
                           ELSE Append(f[n - 1], [start |-> n - 1,
                                                  bytes |-> Bytes(Within(s, DayHours(n - 1)))])]
           merged == CHOOSE f : Is(f)
<1>0. N \in Nat
  BY DaysCover
<1>1. \A n \in 1..N, x \in Buckets : MergeNext(x, s, n - 1) \in Buckets
  <2> SUFFICES ASSUME NEW n \in 1..N, NEW x \in Buckets PROVE MergeNext(x, s, n - 1) \in Buckets
    OBVIOUS
  <2>1. n - 1 \in 0..(Days - 1)
    BY <1>0
  <2>2. DayBucket(s, n - 1) \in Bucket
    BY <2>1, DayBucketType
  <2>3. Append(x, DayBucket(s, n - 1)) \in Buckets
    BY <2>2 DEF Buckets
  <2> QED BY <2>3, Zenon DEF MergeNext
<1>2. <<>> \in Buckets
  BY DEF Buckets
<1>3. merge_hourly_to_daily(s) = merged[N]
  BY DEF merge_hourly_to_daily
<1> HIDE DEF N
<1>4. step \in StepsOf(Buckets, N)
  BY <1>1 DEF StepsOf
<1>5. PICK f : f \in [0..N -> Buckets] /\ f[0] = <<>> /\ \A n \in 1..N : f[n] = step[n][f[n - 1]]
  <2> HIDE DEF step
  <2>1. \E f : Run(f, Buckets, N, <<>>, step)
    BY <1>0, <1>2, <1>4, RunExists
  <2> QED BY <2>1 DEF Run
<1>6. \A n \in 1..N : f[n - 1] \in Buckets
  BY <1>0, <1>5
<1>7. \A n \in 1..N : f[n] = MergeNext(f[n - 1], s, n - 1)
  BY <1>5, <1>6
<1> DEFINE next(g, n) == IF n = 0 THEN <<>>
                         ELSE IF Within(s, DayHours(n - 1)) = <<>> THEN g[n - 1]
                         ELSE Append(g[n - 1], [start |-> n - 1,
                                                bytes |-> Bytes(Within(s, DayHours(n - 1)))])
<1>8. \A g, n : n # 0 => next(g, n) = MergeNext(g[n - 1], s, n - 1)
  BY Zenon DEF MergeNext, DayBucket
<1>9. Is(f)
  <2>1. ASSUME NEW n \in 0..N PROVE f[n] = next(f, n)
    <3>1. CASE n = 0
      BY <1>5, <3>1, Zenon
    <3>2. CASE n # 0
      <4>1. n \in 1..N
        BY <1>0, <3>2
      <4> QED BY <1>7, <1>8, <3>2, <4>1, Zenon
    <3> QED BY <3>1, <3>2
  <2> HIDE DEF next
  <2>2. f = [n \in 0..N |-> next(f, n)]
    BY <1>5, <2>1
  <2> QED BY <2>2 DEF next
<1>10. Is(merged)
  <2> HIDE DEF Is
  <2> QED BY <1>9
<1> HIDE DEF merged
<1>11. \A n \in 0..N : merged[n] = next(merged, n)
  BY <1>10
<1> HIDE DEF next
<1> DEFINE Same == {n \in 0..N : merged[n] = f[n]}
<1>12. 0 \in Same
  <2>1. 0 \in 0..N
    BY <1>0
  <2>2. merged[0] = <<>>
    BY <1>11, <2>1, Zenon DEF next
  <2> QED BY <1>5, <2>1, <2>2
<1>13. ASSUME NEW n \in 0..N, n \in Same, n < N PROVE n + 1 \in Same
  <2>1. n + 1 \in 1..N /\ n + 1 \in 0..N /\ (n + 1) - 1 = n /\ n + 1 # 0
    BY <1>0, <1>13
  <2>2. merged[n + 1] = MergeNext(merged[n], s, n)
    BY <1>8, <1>11, <2>1
  <2>3. f[n + 1] = MergeNext(f[n], s, n)
    BY <2>1, <1>7
  <2> QED BY <2>1, <2>2, <2>3, <1>13
<1> HIDE DEF Same
<1>14. \A n \in 0..N : n \in Same
  BY <1>0, <1>12, <1>13, Induction
<1>15. merged[N] = f[N]
  BY <1>0, <1>14 DEF Same
<1>16. DayByDay(f, s)
  BY <1>5, <1>7, Zenon DEF DayByDay, N
<1> QED BY <1>3, <1>15, <1>16, Zenon DEF N

\* Merging by day keeps the bytes.
LEMMA MergeKeeps ==
  ASSUME NEW s \in Buckets
  PROVE  Bytes(merge_hourly_to_daily(s)) = Bytes(s)
<1> DEFINE H == HoursPerDay
<1>0. Days \in Nat /\ H \in Nat \ {0} /\ MaxHour \in Nat /\ MaxHour < Days * H
  BY DaysCover, HoursPerDayAssumption, BoundsAssumption
<1>1. PICK f : DayByDay(f, s) /\ merge_hourly_to_daily(s) = f[Days]
  BY MergeRun
<1>2. /\ f \in [0..Days -> Buckets] /\ f[0] = <<>>
      /\ \A n \in 1..Days : f[n] = MergeNext(f[n - 1], s, n - 1)
  BY <1>1, Zenon DEF DayByDay
<1> DEFINE P == {n \in 0..Days : Bytes(f[n]) = Bytes(Within(s, 0..(n * H - 1)))}
<1>3. 0 \in P
  <2>1. 0..(0 * H - 1) = {}
    BY <1>0
  <2>2. Within(s, {}) = <<>>
    BY BucketsStart, WithinNone
  <2>3. Bytes(f[0]) = Bytes(Within(s, 0..(0 * H - 1)))
    BY <1>2, <2>1, <2>2, Zenon
  <2>4. 0 \in 0..Days
    BY <1>0
  <2> QED BY <2>3, <2>4, Zenon
<1>4. ASSUME NEW n \in 0..Days, n \in P, n < Days PROVE n + 1 \in P
  <2> DEFINE a == n * H
             new == Within(s, DayHours(n))
  <2>1. n + 1 \in 1..Days /\ n + 1 \in 0..Days /\ (n + 1) - 1 = n /\ n \in Nat
        /\ n \in 0..(Days - 1)
    BY <1>0, <1>4
  <2>2. f[n + 1] = MergeNext(f[n], s, n) /\ f[n] \in Buckets
    BY <1>2, <2>1
  <2>3. Bytes(f[n]) = Bytes(Within(s, 0..(a - 1)))
    BY <1>4, Zenon
  <2>4. a \in Nat /\ (n + 1) * H = a + H
    BY <2>1, DayStarts
  <2>5. DayHours(n) = a..(a + H - 1)
    BY Zenon DEF DayHours
  <2> HIDE DEF a, P, H
  <2>6. 0..((n + 1) * H - 1) = (0..(a - 1)) \cup DayHours(n) /\ (0..(a - 1)) \cap DayHours(n) = {}
    BY <1>0, <2>4, <2>5
  <2>7. Bytes(Within(s, 0..((n + 1) * H - 1))) = Bytes(Within(s, 0..(a - 1))) + Bytes(new)
    <3>1. Bytes(Within(s, (0..(a - 1)) \cup DayHours(n))) = Bytes(Within(s, 0..(a - 1))) + Bytes(new)
      BY <2>6, BytesSplit
    <3> QED BY <2>6, <3>1, Zenon
  <2>8. new \in Buckets /\ Bytes(new) \in Nat /\ Bytes(f[n]) \in Nat
    BY <2>2, WithinType, BytesNat DEF Buckets
  <2>9. Bytes(f[n + 1]) = Bytes(f[n]) + Bytes(new)
    <3>1. CASE new = <<>>
      <4>1. f[n + 1] = f[n]
        BY <2>2, <3>1, Zenon DEF MergeNext
      <4>2. Bytes(new) = 0
        BY <3>1, BytesEmpty
      <4> QED BY <2>8, <4>1, <4>2
    <3>2. CASE new # <<>>
      <4>1. f[n + 1] = Append(f[n], DayBucket(s, n))
        BY <2>2, <3>2, Zenon DEF MergeNext
      <4>2. DayBucket(s, n) \in Bucket
        BY <2>1, DayBucketType
      <4>3. Bytes(f[n + 1]) = Bytes(f[n]) + DayBucket(s, n).bytes
        BY <2>2, <4>1, <4>2, BytesAppend DEF Buckets
      <4>4. DayBucket(s, n).bytes = Bytes(new)
        BY DEF DayBucket
      <4> QED BY <4>3, <4>4
    <3> QED BY <3>1, <3>2
  <2>10. Bytes(f[n + 1]) = Bytes(Within(s, 0..((n + 1) * H - 1)))
    BY <2>3, <2>7, <2>9, Zenon
  <2> QED BY <2>1, <2>10, Zenon DEF P
<1> HIDE DEF P
<1>5. Bytes(f[Days]) = Bytes(Within(s, 0..(Days * H - 1)))
  <2>1. \A n \in 0..Days : n \in P
    BY <1>0, <1>3, <1>4, Induction
  <2>2. Days \in 0..Days
    BY <1>0
  <2> QED BY <2>1, <2>2, Zenon DEF P
<1>6. Within(s, 0..(Days * H - 1)) = s
  <2>1. Days * H \in Nat
    BY <1>0, DayStarts
  <2>2. 0..MaxHour \subseteq 0..(Days * H - 1)
    BY <1>0, <2>1
  <2>3. StartsIn(s, 0..(Days * H - 1))
    <3>1. StartsIn(s, 0..MaxHour)
      BY BucketsStart
    <3> QED BY <2>2, <3>1 DEF StartsIn
  <2> QED BY <2>3, WithinAll
<1> QED BY <1>1, <1>5, <1>6

\* Days that end before h come before the other ones.
LEMMA MergeSplits ==
  ASSUME NEW s \in Buckets, NEW t \in Buckets, NEW D \in 0..Days,
         StartsIn(s, 0..(D * HoursPerDay - 1)), StartsIn(t, (D * HoursPerDay)..MaxHour)
  PROVE  merge_hourly_to_daily(s) \o merge_hourly_to_daily(t) = merge_hourly_to_daily(s \o t)
<1> DEFINE H == HoursPerDay
           u == s \o t
<1>0. Days \in Nat /\ D \in Nat /\ H \in Nat \ {0} /\ MaxHour \in Nat
  BY DaysCover, HoursPerDayAssumption, BoundsAssumption
<1>1. D * H \in Nat
  BY <1>0, DayStarts
<1>2. StartsIn(s, 0..(D * H - 1)) /\ StartsIn(t, (D * H)..MaxHour)
  OBVIOUS
<1>3. ASSUME NEW n \in 0..(Days - 1)
      PROVE  /\ n < D => Within(t, DayHours(n)) = <<>> /\ Within(u, DayHours(n)) = Within(s, DayHours(n))
             /\ D <= n => Within(s, DayHours(n)) = <<>> /\ Within(u, DayHours(n)) = Within(t, DayHours(n))
  <2>1. /\ Within(u, DayHours(n)) = Within(s, DayHours(n)) \o Within(t, DayHours(n))
        /\ Within(s, DayHours(n)) \in Buckets /\ Within(t, DayHours(n)) \in Buckets
    BY WithinConcat, WithinType
  <2>2. /\ Within(s, DayHours(n)) \o <<>> = Within(s, DayHours(n))
        /\ <<>> \o Within(t, DayHours(n)) = Within(t, DayHours(n))
    BY <2>1, ConcatEmpty
  <2>3. n \in Nat
    BY <1>0
  <2>4. n * H \in Nat /\ (n + 1) * H = n * H + H
    BY <2>3, DayStarts
  <2>5. DayHours(n) = (n * H)..(n * H + H - 1)
    BY Zenon DEF DayHours
  <2>6. CASE n < D
    <3>1. (n + 1) * H <= D * H
      BY <1>0, <2>3, <2>6, DayStarts
    <3>2. DayHours(n) \cap ((D * H)..MaxHour) = {}
      <4> HIDE DEF H
      <4> QED BY <1>0, <1>1, <2>4, <2>5, <3>1
    <3>3. Within(t, DayHours(n)) = <<>>
      BY <1>2, <3>2, WithinNone
    <3>4. Within(u, DayHours(n)) = Within(s, DayHours(n))
      BY <2>1, <2>2, <3>3, Zenon
    <3>5. ~(D <= n)
      BY <1>0, <2>3, <2>6
    <3> QED BY <3>3, <3>4, <3>5, Zenon
  <2>7. CASE ~(n < D)
    <3>1. D * H <= n * H
      BY <1>0, <2>3, <2>7, DayStarts
    <3>2. DayHours(n) \cap (0..(D * H - 1)) = {}
      <4> HIDE DEF H
      <4> QED BY <1>0, <1>1, <2>4, <2>5, <3>1
    <3>3. Within(s, DayHours(n)) = <<>>
      BY <1>2, <3>2, WithinNone
    <3>4. Within(u, DayHours(n)) = Within(t, DayHours(n))
      BY <2>1, <2>2, <3>3, Zenon
    <3> QED BY <2>7, <3>3, <3>4, Zenon
  <2> QED BY <2>6, <2>7
<1>4. u \in Buckets
  BY ConcatType
<1> HIDE DEF u, H
<1>5. PICK f : DayByDay(f, s) /\ merge_hourly_to_daily(s) = f[Days]
  BY MergeRun
<1>6. PICK g : DayByDay(g, t) /\ merge_hourly_to_daily(t) = g[Days]
  BY MergeRun
<1>7. PICK k : DayByDay(k, u) /\ merge_hourly_to_daily(u) = k[Days]
  BY <1>4, MergeRun
<1>8. /\ f \in [0..Days -> Buckets] /\ f[0] = <<>>
      /\ \A n \in 1..Days : f[n] = MergeNext(f[n - 1], s, n - 1)
  BY <1>5, Zenon DEF DayByDay
<1>9. /\ g \in [0..Days -> Buckets] /\ g[0] = <<>>
      /\ \A n \in 1..Days : g[n] = MergeNext(g[n - 1], t, n - 1)
  BY <1>6, Zenon DEF DayByDay
<1>10. /\ k \in [0..Days -> Buckets] /\ k[0] = <<>>
       /\ \A n \in 1..Days : k[n] = MergeNext(k[n - 1], u, n - 1)
  BY <1>7, Zenon DEF DayByDay
<1> DEFINE P == {n \in 0..Days : k[n] = f[n] \o g[n] /\ (n <= D => g[n] = <<>>)}
<1>11. 0 \in P
  <2>1. <<>> \o <<>> = <<>>
    BY ConcatEmpty DEF Buckets
  <2>2. k[0] = f[0] \o g[0] /\ g[0] = <<>>
    BY <1>8, <1>9, <1>10, <2>1, Zenon
  <2>3. 0 \in 0..Days
    BY <1>0
  <2> QED BY <2>2, <2>3, Zenon
<1>12. ASSUME NEW n \in 0..Days, n \in P, n < Days PROVE n + 1 \in P
  <2>1. n + 1 \in 1..Days /\ n + 1 \in 0..Days /\ (n + 1) - 1 = n /\ n \in 0..(Days - 1)
    BY <1>0, <1>12
  <2>2. /\ f[n + 1] = MergeNext(f[n], s, n) /\ g[n + 1] = MergeNext(g[n], t, n)
        /\ k[n + 1] = MergeNext(k[n], u, n)
    BY <1>8, <1>9, <1>10, <2>1
  <2>3. f[n] \in Buckets /\ g[n] \in Buckets /\ f[n + 1] \in Buckets
    BY <1>8, <1>9, <2>1
  <2>4. k[n] = f[n] \o g[n] /\ (n <= D => g[n] = <<>>)
    BY <1>12, Zenon
  <2>5. f[n] \o <<>> = f[n] /\ f[n + 1] \o <<>> = f[n + 1]
    BY <2>3, ConcatEmpty
  <2>6. CASE n < D
    <3>1. g[n] = <<>>
      BY <1>0, <2>4, <2>6
    <3>2. Within(t, DayHours(n)) = <<>> /\ Within(u, DayHours(n)) = Within(s, DayHours(n))
      BY <1>3, <2>1, <2>6
    <3>3. g[n + 1] = <<>>
      BY <2>2, <3>1, <3>2, Zenon DEF MergeNext
    <3>4. k[n + 1] = f[n + 1]
      BY <2>2, <2>4, <2>5, <3>1, <3>2, Zenon DEF MergeNext, DayBucket
    <3>5. k[n + 1] = f[n + 1] \o g[n + 1]
      BY <2>5, <3>3, <3>4, Zenon
    <3> QED BY <2>1, <3>3, <3>5, Zenon
  <2>7. CASE ~(n < D)
    <3>1. D <= n /\ ~(n + 1 <= D)
      BY <1>0, <2>7
    <3>2. Within(s, DayHours(n)) = <<>> /\ Within(u, DayHours(n)) = Within(t, DayHours(n))
      BY <1>3, <2>1, <3>1
    <3>3. f[n + 1] = f[n]
      BY <2>2, <3>2, Zenon DEF MergeNext
    <3>4. k[n + 1] = f[n + 1] \o g[n + 1]
      <4>1. CASE Within(t, DayHours(n)) = <<>>
        <5>1. g[n + 1] = g[n] /\ k[n + 1] = k[n]
          BY <2>2, <3>2, <4>1, Zenon DEF MergeNext
        <5> QED BY <2>4, <3>3, <5>1, Zenon
      <4>2. CASE Within(t, DayHours(n)) # <<>>
        <5> DEFINE b == DayBucket(t, n)
        <5>1. g[n + 1] = Append(g[n], b)
          BY <2>2, <4>2, Zenon DEF MergeNext
        <5>2. k[n + 1] = Append(k[n], b)
          BY <2>2, <3>2, <4>2, Zenon DEF MergeNext, DayBucket
        <5>3. b \in Bucket
          BY <2>1, DayBucketType
        <5> HIDE DEF b
        <5>4. f[n] \o Append(g[n], b) = Append(f[n] \o g[n], b)
          BY <2>3, <5>3, ConcatAppend
        <5> QED BY <2>4, <3>3, <5>1, <5>2, <5>4, Zenon
      <4> QED BY <4>1, <4>2
    <3>5. n + 1 <= D => g[n + 1] = <<>>
      BY <3>1
    <3> QED BY <2>1, <3>4, <3>5, Zenon
  <2> QED BY <2>6, <2>7
<1> HIDE DEF P
<1>13. k[Days] = f[Days] \o g[Days]
  <2>1. \A n \in 0..Days : n \in P
    BY <1>0, <1>11, <1>12, Induction
  <2>2. Days \in 0..Days
    BY <1>0
  <2> QED BY <2>1, <2>2, Zenon DEF P
<1> QED BY <1>5, <1>6, <1>7, <1>13, Zenon DEF u

-----------------------------------------------------------------------------
All == completed \o current

LEMMA AllBuckets == TypeOK => All \in Buckets /\ completed \in Buckets /\ current \in Buckets
BY DEF TypeOK, All, Buckets

LEMMA HourlyType ==
  ASSUME TypeOK, NEW from, NEW to
  PROVE  /\ query_device_hourly(from, to) \in Buckets
         /\ StartsIn(query_device_hourly(from, to), Overlaps(from, to))
         /\ Bytes(query_device_hourly(from, to)) = Bytes(Within(All, Overlaps(from, to)))
         /\ query_device_hourly(from, to) = ByStart(Within(All, Overlaps(from, to)))
<1> DEFINE s == Within(All, Overlaps(from, to))
<1>1. query_device_hourly(from, to) = ByStart(s)
  BY Zenon DEF query_device_hourly, All
<1>2. s \in Buckets
  BY AllBuckets, WithinType
<1>3. StartsIn(s, Overlaps(from, to))
  <2>1. StartsIn(s, Overlaps(from, to) \cap (0..MaxHour))
    BY AllBuckets, BucketsStart, WithinStarts
  <2> QED BY <2>1 DEF StartsIn
<1> QED BY <1>1, <1>2, <1>3, ByStartKeeps

LEMMA PartitionHolds == TypeOK => RangesPartition
<1> SUFFICES ASSUME TypeOK, NEW h \in 1..MaxHour
             PROVE  LET end == 2 * MaxHour + 1
                        before(bucket) == query_aggregate(0, 2 * h - 1, bucket)
                        after(bucket) == query_aggregate(2 * h, end, bucket)
                    IN  /\ before("Hourly") \o after("Hourly") = query_aggregate(0, end, "Hourly")
                        /\ h % HoursPerDay = 0 =>
                             before("Daily") \o after("Daily") = query_aggregate(0, end, "Daily")
  BY Zenon DEF RangesPartition
<1> DEFINE end == 2 * MaxHour + 1
           s == query_device_hourly(0, 2 * h - 1)
           t == query_device_hourly(2 * h, end)
           u == query_device_hourly(0, end)
<1>0. MaxHour \in Nat /\ h \in Nat /\ h \in 0..(MaxHour + 1)
  BY BoundsAssumption
<1>1. /\ Overlaps(0, 2 * h - 1) = 0..(h - 1) /\ Overlaps(2 * h, end) = h..MaxHour
      /\ Overlaps(0, end) = 0..MaxHour
  BY <1>0 DEF Overlaps, start_ts, end_ts
<1>2. s \in Buckets /\ t \in Buckets /\ StartsIn(s, 0..(h - 1)) /\ StartsIn(t, h..MaxHour)
  BY <1>1, HourlyType, Zenon
<1>3. s \o t = u
  <2>1. /\ s = ByStart(Within(All, 0..(h - 1))) /\ t = ByStart(Within(All, h..MaxHour))
        /\ u = ByStart(Within(All, 0..MaxHour))
    BY <1>1, HourlyType, Zenon
  <2>2. ByStart(Within(All, 0..(h - 1))) \o ByStart(Within(All, h..MaxHour))
          = ByStart(Within(All, 0..MaxHour))
    BY <1>0, AllBuckets, ByStartSplits
  <2> QED BY <2>1, <2>2, Zenon
<1>4. \A from, to :
        /\ query_aggregate(from, to, "Hourly") = query_device_hourly(from, to)
        /\ query_aggregate(from, to, "Daily") = merge_hourly_to_daily(query_device_hourly(from, to))
  BY DEF query_aggregate
<1> HIDE DEF s, t, u
<1>5. ASSUME h % HoursPerDay = 0
      PROVE  merge_hourly_to_daily(s) \o merge_hourly_to_daily(t) = merge_hourly_to_daily(u)
  <2>1. HoursPerDay \in Nat \ {0} /\ Days \in Nat /\ MaxHour < Days * HoursPerDay
    BY HoursPerDayAssumption, DaysCover
  <2> DEFINE D == h \div HoursPerDay
  <2>2. D \in Nat /\ D * HoursPerDay = h
    BY <1>0, <1>5, <2>1
  <2> HIDE DEF D
  <2>3. D <= Days
    <3> SUFFICES ASSUME Days <= D PROVE D <= Days
      BY <2>1, <2>2
    <3>1. Days * HoursPerDay <= D * HoursPerDay
      BY <2>1, <2>2, DayStarts
    <3>2. Days * HoursPerDay \in Nat
      BY <2>1, DayStarts
    <3> QED BY <1>0, <2>1, <2>2, <3>1, <3>2
  <2>4. StartsIn(s, 0..(D * HoursPerDay - 1))
    BY <1>2, <2>2, Zenon
  <2>5. StartsIn(t, (D * HoursPerDay)..MaxHour)
    BY <1>2, <2>2, Zenon
  <2>6. D \in 0..Days
    BY <2>1, <2>2, <2>3
  <2> QED BY <1>2, <1>3, <2>4, <2>5, <2>6, MergeSplits, Zenon
<1> QED BY <1>3, <1>4, <1>5, Zenon DEF s, t, u

LEMMA SameTotalHolds == TypeOK => SameTotal
<1> SUFFICES ASSUME TypeOK, NEW from \in 0..(2 * hour)
             PROVE  Bytes(query_aggregate(from, 2 * hour, "Daily")) = PeriodBytes(from, 2 * hour)
  BY Zenon DEF SameTotal
<1> DEFINE hourly == query_device_hourly(from, 2 * hour)
<1>1. query_aggregate(from, 2 * hour, "Daily") = merge_hourly_to_daily(hourly)
      /\ PeriodBytes(from, 2 * hour) = Bytes(hourly)
  BY DEF query_aggregate, PeriodBytes
<1>2. hourly \in Buckets
  BY HourlyType
<1> QED BY <1>1, <1>2, MergeKeeps

LEMMA PeriodHolds == TypeOK /\ ClockInv /\ Conserved => PeriodShowsCumulative
<1> SUFFICES ASSUME TypeOK, InOrder, Conserved, NEW now \in {2 * hour, 2 * hour + 1}
             PROVE  PeriodBytes(0, now) + trimmed + lost = cumulative
  BY Zenon DEF PeriodShowsCumulative, ClockInv
<1>0. hour \in 0..MaxHour /\ MaxHour \in Nat
  BY BoundsAssumption DEF TypeOK
<1>1. \A h \in 0..MaxHour : h <= hour => h \in Overlaps(0, now)
  BY <1>0 DEF Overlaps, start_ts, end_ts
<1>2. All \in Buckets /\ completed \in Buckets /\ current \in Buckets
  BY AllBuckets
<1>3. StartsIn(completed, Overlaps(0, now))
  <2>1. ASSUME NEW i \in DOMAIN completed PROVE completed[i].start \in Overlaps(0, now)
    <3>1. completed[i].start \in 0..MaxHour
      BY <1>2, BucketsStart DEF StartsIn
    <3>2. completed[i].start < hour
      BY DEF InOrder, Before
    <3> QED BY <1>0, <1>1, <3>1, <3>2
  <2> QED BY <2>1, Zenon DEF StartsIn
<1>4. StartsIn(current, Overlaps(0, now))
  <2>1. ASSUME NEW i \in DOMAIN current PROVE current[i].start \in Overlaps(0, now)
    <3>1. current[i].start \in 0..MaxHour
      BY <1>2, BucketsStart DEF StartsIn
    <3>2. i = 1 /\ current # <<>>
      BY DEF TypeOK
    <3>3. current[i].start <= hour
      BY <3>2 DEF InOrder
    <3> QED BY <1>0, <1>1, <3>1, <3>3
  <2> QED BY <2>1, Zenon DEF StartsIn
<1>5. Within(All, Overlaps(0, now)) = All
  <2>1. StartsIn(All, Overlaps(0, now))
    BY <1>2, <1>3, <1>4, StartsInConcat DEF All
  <2> QED BY <1>2, <2>1, WithinAll
<1>6. PeriodBytes(0, now) = Bytes(All)
  <2>1. query_aggregate(0, now, "Hourly") = query_device_hourly(0, now)
    BY DEF query_aggregate
  <2>2. Bytes(query_device_hourly(0, now)) = Bytes(Within(All, Overlaps(0, now)))
    BY HourlyType
  <2> QED BY <1>5, <2>1, <2>2, Zenon DEF PeriodBytes
<1>7. Bytes(All) = Bytes(completed) + Bytes(current)
  BY <1>2, BytesConcat DEF All
<1> QED BY <1>6, <1>7 DEF Conserved

\* For every capacity, length of a day and number of hours: whatever the
\* collector, restarts and the clock do, adjacent ranges partition the answers
\* by hour and by day, merging by day keeps the total, and while the clock was
\* not set back a period that covers the histogram shows the cumulative
\* counter less what was dropped (query_aggregate, merge_hourly_to_daily,
\* cumulative_from_buckets).
THEOREM QueriesAddUpHolds == Spec => []QueriesAddUp
<1>1. TypeOK /\ ClockInv /\ Conserved => QueriesAddUp
  BY PartitionHolds, SameTotalHolds, PeriodHolds DEF QueriesAddUp
<1> QED BY <1>1, TypeInit, TypeNext, ClockInit, ClockNext, ConservedHolds, PTL DEF Spec
=============================================================================

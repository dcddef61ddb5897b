---------------------------- MODULE OplogProofs ----------------------------
(***************************************************************************)
(* Proofs about modules Oplog and Tailer, for any number of segments and   *)
(* entries and any record kinds: what an announced rev is worth, that the  *)
(* segmented log implements DurableLog, and that a Tailer reading it while *)
(* it is written, rolled and compacted misses nothing.                     *)
(***************************************************************************)
EXTENDS OplogImplements, Tailer, SequenceTheorems, WellFoundedInduction, TLAPS

(* The faults the results are about.  A write_all that fails part-way and a *)
(* directory entry that was never fsynced are not among them, and compact() *)
(* (which trusts a checkpoint that may not be synced) runs where the host   *)
(* does not lose power: each of these three breaks what is proved here.  A  *)
(* directory fsync that fails is among them: see Orderly.                   *)
Sane ==
  /\ "torn_write" \notin Env /\ "dir_loss" \notin Env
  /\ "compact" \notin Env \/ "power_loss" \notin Env

(* Nothing removes a file, and no record goes behind a newer one: after a   *)
(* failed directory fsync a short record may still fit the old segment,     *)
(* unsynced, and a reopen resumes in the newer one (append.rs:219-222).     *)
Orderly == "compact" \notin Env /\ "dirsync_error" \notin Env

(* No power loss can take such a record from in front of an announced one.  *)
Gapless == "power_loss" \notin Env \/ "dirsync_error" \notin Env

At(e, i) == \E k \in 1..Len(data[i]) : data[i][k] = e
InFiles(e) == \E i \in live : At(e, i)
OnStable(e) == \E i \in live : \E k \in 1..synced[i] : data[i][k] = e
Subsumed(e) ==
  \E i \in live : \E k \in 1..Len(data[i]) : IsCheckpoint(data[i][k]) /\ data[i][k].rev > e.rev

(* The entry outlives whatever may still happen. *)
Safe(e) == OnStable(e) \/ ("compact" \in Env /\ (InFiles(e) \/ Subsumed(e)))

Known(e) == \E k \in 1..Len(history) : history[k] = e
Empty(i) == Len(data[i]) = 0

(* Revs increase along the history and along the files. *)
Sorted == \A a, b \in 1..Len(history) : a < b => history[a].rev < history[b].rev

InOrder ==
  \A i, j \in live : \A a \in 1..Len(data[i]), b \in 1..Len(data[j]) :
    i < j \/ (i = j /\ a < b) => data[i][a].rev < data[j][b].rev

AllKnown ==
  /\ \A i \in live : \A k \in 1..Len(data[i]) : Known(data[i][k])
  /\ \A e \in pending \cup announced : Known(e)

(* The last entry written is the last of some file. *)
HeadInFile ==
  history # <<>> =>
    \E i \in live : Len(data[i]) # 0 /\ data[i][Len(data[i])] = history[Len(history)]

NextRevIs == next_rev = IF history = <<>> THEN 0 ELSE history[Len(history)].rev + 1

WriterPlaced ==
  pc # "closed" =>
    /\ index \in live /\ ~torn[index] /\ NextRevIs
    /\ \A i \in live : i <= index + 1 /\ (i > index => Empty(i))

Stages ==
  /\ pc = "created" => index + 1 \in live /\ ~torn[index + 1]
  /\ pc = "forced" =>
       history # <<>> /\ Len(data[index]) # 0 /\ data[index][Len(data[index])] = history[Len(history)]
  /\ pc \in {"rolled", "stamped"} => \A i \in live : i <= index
  /\ pc \in {"ready", "forced"} => "dirsync_error" \in Env \/ \A i \in live : i <= index

AnnouncedSafe == \A e \in announced : Safe(e)
PendingSafe ==
  /\ pc = "closed" => pending = {}
  /\ \A e \in pending : Safe(e) \/ (At(e, index) /\ pc # "created")

Compacting ==
  cut # None =>
    "compact" \in Env /\ cut \in live /\ Len(data[cut]) # 0 /\ IsCheckpoint(data[cut][1])

NothingUnlinked == "compact" \notin Env => linked \subseteq live

(* Then no record is missing, and none but those of the newest file wait    *)
(* for a sync.                                                              *)
RecordsInFiles ==
  Orderly =>
    \A k \in 1..Len(history) : IsCheckpoint(history[k]) \/ InFiles(history[k])
UnsyncedInNewest ==
  Orderly =>
    \A i \in live : \A k \in 1..Len(data[i]) :
      k <= synced[i] \/ IsCheckpoint(data[i][k]) \/ \A j \in live : j <= i

Barrier ==
  Orderly =>
    \A e \in announced : \A k \in 1..Len(history) :
      history[k].rev <= e.rev => IsCheckpoint(history[k]) \/ OnStable(history[k])

Files ==
  Sorted /\ AllKnown /\ InOrder /\ HeadInFile /\ AnnouncedSafe
    /\ RecordsInFiles /\ UnsyncedInNewest /\ Barrier
Writer == WriterPlaced /\ Stages /\ PendingSafe
Directory == Compacting /\ NothingUnlinked

IInv == TypeOK /\ Files /\ Writer /\ Directory
-----------------------------------------------------------------------------
(* Facts about finite sets of numbers and about logs *)

LEMMA LeastNumber ==
  ASSUME NEW S, S \subseteq Nat, S # {}
  PROVE  Min(S) \in S /\ \A y \in S : Min(S) <= y
PROOF
  <1>1. PICK x \in S : \A y \in S : ~(<<y, x>> \in OpToRel(<, Nat))
    BY NatLessThanWellFounded, WFMin
  <1>2. ASSUME NEW y \in S, y < x
        PROVE  <<y, x>> \in OpToRel(<, Nat)
    <2>1. <<y, x>> \in Nat \X Nat /\ <<y, x>>[1] = y /\ <<y, x>>[2] = x
      OBVIOUS
    <2> QED BY ONLY <2>1, <1>2, Zenon DEF OpToRel
  <1>3. \A y \in S : ~(y < x)
    BY ONLY <1>1, <1>2, Zenon
  <1>4. \A y \in S : x <= y
    BY ONLY <1>3, S \subseteq Nat, x \in S
  <1> QED
    BY ONLY <1>4, x \in S DEF Min

LEMMA GreatestNumber ==
  ASSUME NEW N \in Nat, NEW S, S \subseteq 0..N, S # {}
  PROVE  Max(S) \in S /\ \A y \in S : Max(S) >= y
PROOF
  <1> DEFINE R == {N - x : x \in S}
  <1>1. \A x \in S : x \in Int /\ x <= N /\ N - x \in Nat
    OBVIOUS
  <1>a. R \subseteq Nat /\ R # {}
    BY <1>1, Zenon
  <1>2. Min(R) \in R /\ \A y \in R : Min(R) <= y
    <2> HIDE DEF R
    <2> QED BY <1>a, LeastNumber
  <1>3. PICK x \in S : Min(R) = N - x
    BY <1>2
  <1>4. ASSUME NEW y \in S
        PROVE  x >= y
    <2>1. N - y \in R
      BY Zenon
    <2> HIDE DEF R
    <2> QED BY <2>1, <1>1, <1>2, <1>3
  <1> QED
    BY <1>4 DEF Max

LEMMA LogShape ==
  ASSUME NEW s, IsLog(s)
  PROVE  /\ Len(s) \in Nat /\ DOMAIN s = 1..Len(s)
         /\ s = <<>> <=> Len(s) = 0
         /\ \A k \in 1..Len(s) : s[k].rev \in Nat
PROOF
  <1>1. s \in Seq(Range(s))
    BY DEF IsLog
  <1>2. Len(s) \in Nat /\ DOMAIN s = 1..Len(s)
    BY <1>1, LenProperties
  <1>3. s = <<>> <=> Len(s) = 0
    BY <1>1, EmptySeq
  <1> QED
    BY <1>2, <1>3 DEF IsLog

LEMMA LogFromElements ==
  ASSUME NEW S, NEW s \in Seq(S), \A k \in 1..Len(s) : s[k].rev \in Nat
  PROVE  IsLog(s)
PROOF
  <1>1. Len(s) \in Nat /\ s \in [1..Len(s) -> S] /\ DOMAIN s = 1..Len(s)
    BY LenProperties
  <1>2. \A k \in 1..Len(s) : s[k] \in Range(s)
    BY <1>1 DEF Range
  <1>3. s \in [1..Len(s) -> Range(s)]
    BY <1>1, <1>2
  <1>4. s \in Seq(Range(s))
    BY <1>1, <1>3, SeqDef
  <1> QED
    BY <1>4 DEF IsLog

LEMMA HeadOfLog ==
  ASSUME NEW s, IsLog(s), s # <<>>
  PROVE  Head(s) = s[1]
PROOF
  <1>1. s \in Seq(Range(s))
    BY DEF IsLog
  <1> QED
    BY <1>1

LEMMA LogEmpty == IsLog(<<>>) /\ Len(<<>>) = 0
PROOF
  <1>1. <<>> \in Seq({}) /\ Len(<<>>) = 0
    BY EmptySeq
  <1>2. \A k \in 1..0 : <<>>[k].rev \in Nat
    OBVIOUS
  <1>3. \A k \in 1..Len(<<>>) : <<>>[k].rev \in Nat
    BY ONLY <1>1, <1>2, Zenon
  <1>4. IsLog(<<>>)
    BY ONLY <1>1, <1>3, LogFromElements, Zenon
  <1> QED
    BY <1>1, <1>4, Zenon

LEMMA LogAppend ==
  ASSUME NEW s, IsLog(s), NEW e, e.rev \in Nat
  PROVE  /\ IsLog(Append(s, e)) /\ Len(Append(s, e)) = Len(s) + 1
         /\ \A k \in 1..Len(s) : Append(s, e)[k] = s[k]
         /\ Append(s, e)[Len(s) + 1] = e
PROOF
  <1> DEFINE S == Range(s) \cup {e}
             t == Append(s, e)
  <1>1. s \in Seq(S) /\ e \in S
    BY SeqMonotonic DEF IsLog
  <1>2. /\ t \in Seq(S) /\ Len(t) = Len(s) + 1
        /\ \A k \in 1..Len(s) : t[k] = s[k]
        /\ t[Len(s) + 1] = e
    <2> HIDE DEF S
    <2> QED BY <1>1, AppendProperties
  <1>3. \A k \in 1..Len(t) : t[k].rev \in Nat
    <2> HIDE DEF t
    <2> QED BY <1>2, LogShape
  <1>4. IsLog(t)
    <2> HIDE DEF t, S
    <2> QED BY <1>2, <1>3, LogFromElements
  <1> QED
    BY <1>2, <1>4

LEMMA LogPrefix ==
  ASSUME NEW s, IsLog(s), NEW n \in 0..Len(s)
  PROVE  /\ IsLog(SubSeq(s, 1, n)) /\ Len(SubSeq(s, 1, n)) = n
         /\ \A k \in 1..n : SubSeq(s, 1, n)[k] = s[k]
PROOF
  <1> DEFINE S == Range(s)
             t == SubSeq(s, 1, n)
  <1>1. /\ Len(s) \in Nat /\ DOMAIN s = 1..Len(s)
        /\ \A k \in 1..Len(s) : s[k].rev \in Nat
    BY LogShape
  <1>2. \A k \in 1..n : s[k] \in S
    BY <1>1 DEF Range
  <1>3. n \in Int /\ n >= 0 /\ n <= Len(s)
    BY <1>1
  <1>4. /\ t \in Seq(S) /\ Len(t) = n
        /\ \A k \in 1..n : t[k] = s[k]
    <2> HIDE DEF S
    <2>1. /\ t \in Seq(S) /\ Len(t) = IF 1 <= n THEN n - 1 + 1 ELSE 0
          /\ \A k \in 1..n - 1 + 1 : t[k] = s[1 + k - 1]
      BY <1>2, <1>3, SubSeqProperties
    <2> HIDE DEF t
    <2> QED BY <2>1, <1>3
  <1>5. \A k \in 1..Len(t) : t[k].rev \in Nat
    <2> HIDE DEF t
    <2> QED BY <1>1, <1>3, <1>4
  <1>6. IsLog(t)
    <2> HIDE DEF t, S
    <2> QED BY <1>4, <1>5, LogFromElements
  <1> QED
    BY <1>4, <1>6

(* What UpTo keeps: the entries up to a rev, and no others. *)
LEMMA PrefixUpTo ==
  ASSUME NEW s, IsLog(s), NEW r \in Int,
         \A a, b \in 1..Len(s) : a < b => s[a].rev < s[b].rev
  PROVE  LET h == UpTo(s, r) IN
         /\ IsLog(h) /\ Len(h) <= Len(s) /\ h = SubSeq(s, 1, Len(h))
         /\ \A k \in 1..Len(h) : h[k] = s[k]
         /\ \A k \in 1..Len(s) : s[k].rev <= r <=> k <= Len(h)
PROOF
  <1> DEFINE K == {0} \cup {k \in 1..Len(s) : s[k].rev <= r}
             m == Max(K)
             h == SubSeq(s, 1, m)
  <1>1. Len(s) \in Nat /\ \A k \in 1..Len(s) : s[k].rev \in Nat
    BY LogShape
  <1>2. m \in K /\ \A k \in K : m >= k
    <2>1. K \subseteq 0..Len(s) /\ K # {}
      BY <1>1
    <2> HIDE DEF K
    <2> QED BY <2>1, <1>1, GreatestNumber
  <1>3. m \in 0..Len(s)
    <2> HIDE DEF m
    <2> QED BY <1>1, <1>2
  <1>4. IsLog(h) /\ Len(h) = m /\ \A k \in 1..m : h[k] = s[k]
    <2> HIDE DEF m
    <2> QED BY <1>3, LogPrefix
  <1>5. ASSUME NEW k \in 1..Len(s)
        PROVE  s[k].rev <= r <=> k <= m
    <2>1. s[k].rev <= r => k <= m
      <3>1. s[k].rev <= r => k \in K
        OBVIOUS
      <3> HIDE DEF K, m
      <3> QED BY <3>1, <1>1, <1>2, <1>3
    <2>2. k <= m => s[k].rev <= r
      <3>1. m # 0 => m \in 1..Len(s) /\ s[m].rev <= r
        <4> HIDE DEF m
        <4> QED BY <1>2
      <3> HIDE DEF K, m
      <3> QED BY <3>1, <1>1, <1>3
    <2> QED BY <2>1, <2>2
  <1>6. UpTo(s, r) = h
    BY DEF UpTo
  <1>7. h = SubSeq(s, 1, Len(h))
    BY <1>4
  <1> HIDE DEF m
  <1> QED
    BY <1>1, <1>3, <1>4, <1>5, <1>6, <1>7

(* The rev of the last entry of the newest file that has any is the        *)
(* highest of all.                                                         *)
HeadOf(L, D) ==
  IF {i \in L : D[i] # <<>>} = {} THEN None ELSE Last(D[Max({i \in L : D[i] # <<>>})]).rev

LEMMA HighestRev ==
  ASSUME NEW L, L \subseteq Index, NEW D, \A i \in L : IsLog(D[i]),
         \A i, j \in L : \A a \in 1..Len(D[i]), b \in 1..Len(D[j]) :
           i < j \/ (i = j /\ a < b) => D[i][a].rev < D[j][b].rev
  PROVE  /\ HeadOf(L, D) \in Int
         /\ (\A i \in L : Len(D[i]) = 0) => HeadOf(L, D) = None
         /\ (\E i \in L : Len(D[i]) # 0) =>
              \E i \in L : /\ Len(D[i]) # 0 /\ HeadOf(L, D) = D[i][Len(D[i])].rev
                           /\ \A j \in L : j > i => Len(D[j]) = 0
                           /\ \A j \in L : \A k \in 1..Len(D[j]) :
                                D[j][k].rev <= HeadOf(L, D)
PROOF
  <1> DEFINE N == {i \in L : D[i] # <<>>}
             m == Max(N)
             h == HeadOf(L, D)
  <1>0. \A i \in L : i \in Nat
    BY ONLY L \subseteq Index, BoundsAssumption DEF Index
  <1>1. \A i \in L : /\ Len(D[i]) \in Nat /\ D[i] = <<>> <=> Len(D[i]) = 0
                     /\ \A k \in 1..Len(D[i]) : D[i][k].rev \in Nat
    BY LogShape
  <1>2. \A i \in L : i \in N <=> Len(D[i]) # 0
    BY <1>1
  <1>3. CASE N = {}
    <2>1. h = None
      BY <1>3 DEF HeadOf
    <2> QED BY <2>1, <1>2, <1>3 DEF None
  <1>4. CASE N # {}
    <2>1. m \in N /\ \A j \in N : m >= j
      <3>1. N \subseteq 0..MaxSegment
        BY DEF Index
      <3> HIDE DEF N
      <3> QED BY <3>1, <1>4, BoundsAssumption, GreatestNumber
    <2>2. m \in L /\ Len(D[m]) # 0 /\ Len(D[m]) \in 1..Len(D[m]) /\ m \in Nat
      <3>1. m \in L /\ m \in Nat
        <4>1. \A i \in N : i \in L /\ i \in Nat
          BY <1>0, Zenon
        <4> HIDE DEF N, m
        <4> QED BY <2>1, <4>1
      <3>2. Len(D[m]) # 0 /\ Len(D[m]) \in Nat
        <4> HIDE DEF N, m
        <4> QED BY <2>1, <3>1, <1>1, <1>2
      <3> HIDE DEF m
      <3> QED BY ONLY <3>1, <3>2
    <2>3. h = D[m][Len(D[m])].rev
      BY <1>4, Zenon DEF HeadOf, Last
    <2>4. \A j \in L : j \in Nat /\ (j > m => Len(D[j]) = 0)
      <3> HIDE DEF m, N
      <3> SUFFICES ASSUME NEW j \in L PROVE j \in Nat /\ (j > m => Len(D[j]) = 0)
        OBVIOUS
      <3>1. j \in Nat
        BY <1>0, Zenon
      <3>2. Len(D[j]) # 0 => m >= j
        <4>1. Len(D[j]) # 0 => j \in N
          BY <1>2, Zenon
        <4> QED BY ONLY <2>1, <4>1, Zenon
      <3> QED BY ONLY <3>1, <3>2, <2>2
    <2>5. ASSUME NEW j \in L, NEW k \in 1..Len(D[j])
          PROVE  D[j][k].rev <= h
      <3>1. j < m \/ j = m
        <4> HIDE DEF m
        <4>1. Len(D[j]) \in Nat
          BY <1>1
        <4>2. Len(D[j]) # 0
          BY ONLY <4>1, k \in 1..Len(D[j])
        <4>3. j \in Nat /\ m \in Nat /\ ~(j > m)
          BY <4>2, <2>2, <2>4
        <4> QED BY ONLY <4>3
      <3>2. CASE j = m /\ k = Len(D[m])
        <4> HIDE DEF m
        <4> QED BY <3>2, <2>3, <2>2, <1>1
      <3>3. CASE ~(j = m /\ k = Len(D[m]))
        <4>1. j < m \/ (j = m /\ k < Len(D[m]))
          <5> HIDE DEF m
          <5> QED BY <3>1, <3>3, <1>1
        <4>2. D[j][k].rev < D[m][Len(D[m])].rev
          <5> HIDE DEF m
          <5> QED BY <4>1, <2>2
        <4> HIDE DEF m
        <4> QED BY <4>2, <2>3, <2>2, <1>1
      <3> QED BY <3>2, <3>3
    <2>6. h \in Int
      <3> HIDE DEF m
      <3> QED BY <2>2, <2>3, <1>1
    <2> HIDE DEF m
    <2> QED BY <2>2, <2>3, <2>4, <2>5, <2>6
  <1> QED
    BY <1>3, <1>4

(* What the type invariant says of lengths and revs. *)
Shape ==
  /\ live \subseteq Index /\ linked \subseteq Index
  /\ \A i \in Index : /\ i \in Nat /\ Len(data[i]) \in Nat
                       /\ synced[i] \in Nat /\ synced[i] <= Len(data[i])
                       /\ \A k \in 1..Len(data[i]) : data[i][k].rev \in Nat
  /\ Len(history) \in Nat /\ (history = <<>> <=> Len(history) = 0)
  /\ \A k \in 1..Len(history) : history[k].rev \in Nat
  /\ index \in Index /\ index \in Nat /\ next_rev \in Nat /\ segment_bytes \in Nat

LEMMA Shapes == TypeOK => Shape
PROOF
  <1> SUFFICES ASSUME TypeOK PROVE Shape
    OBVIOUS
  <1>1. \A i \in Index : Len(data[i]) \in Nat /\ \A k \in 1..Len(data[i]) : data[i][k].rev \in Nat
    BY LogShape DEF TypeOK
  <1>2. /\ Len(history) \in Nat /\ (history = <<>> <=> Len(history) = 0)
        /\ \A k \in 1..Len(history) : history[k].rev \in Nat
    BY LogShape DEF TypeOK
  <1>3. Index \subseteq Nat
    BY BoundsAssumption DEF Index
  <1> QED
    BY <1>1, <1>2, <1>3 DEF TypeOK, Shape

LEMMA NextShapes == TypeOK' => Shape'
PROOF
  <1> SUFFICES ASSUME TypeOK' PROVE Shape'
    OBVIOUS
  <1>1. \A i \in Index :
          Len(data'[i]) \in Nat /\ \A k \in 1..Len(data'[i]) : data'[i][k].rev \in Nat
    BY LogShape DEF TypeOK
  <1>2. /\ Len(history') \in Nat /\ (history' = <<>> <=> Len(history') = 0)
        /\ \A k \in 1..Len(history') : history'[k].rev \in Nat
    BY LogShape DEF TypeOK
  <1>3. Index \subseteq Nat
    BY BoundsAssumption DEF Index
  <1> QED
    BY <1>1, <1>2, <1>3 DEF TypeOK, Shape

LEMMA NewestFile ==
  ASSUME Shape, live # {}
  PROVE  Newest \in live /\ \A j \in live : j <= Newest
PROOF
  <1>1. live \subseteq 0..MaxSegment
    BY DEF Shape, Index
  <1>2. Max(live) \in live /\ \A j \in live : Max(live) >= j
    BY <1>1, BoundsAssumption, GreatestNumber
  <1>3. \A j \in live : j \in Nat
    BY DEF Shape
  <1> QED
    BY <1>2, <1>3 DEF Newest

(* Replay reports the rev of the last entry written. *)
LEMMA RevHeadIsLast ==
  ASSUME TypeOK, Shape, Files
  PROVE  RevHead = IF Len(history) = 0 THEN None ELSE history[Len(history)].rev
PROOF
  <1>1. RevHead = HeadOf(live, data)
    BY DEF RevHead, HeadOf, NonEmpty
  <1>2. /\ HeadOf(live, data) \in Int
        /\ (\A i \in live : Len(data[i]) = 0) => HeadOf(live, data) = None
        /\ (\E i \in live : Len(data[i]) # 0) =>
             \E i \in live : /\ Len(data[i]) # 0 /\ HeadOf(live, data) = data[i][Len(data[i])].rev
                             /\ \A j \in live : j > i => Len(data[j]) = 0
                             /\ \A j \in live : \A k \in 1..Len(data[j]) :
                                  data[j][k].rev <= HeadOf(live, data)
    <2>1. live \subseteq Index /\ \A i \in live : IsLog(data[i])
      BY DEF TypeOK
    <2>2. \A i, j \in live : \A a \in 1..Len(data[i]), b \in 1..Len(data[j]) :
            i < j \/ (i = j /\ a < b) => data[i][a].rev < data[j][b].rev
      BY DEF Files, InOrder
    <2> QED BY <2>1, <2>2, HighestRev
  <1>3. CASE Len(history) = 0
    <2>1. \A i \in live : \A k \in 1..Len(data[i]) : FALSE
      BY <1>3 DEF Files, AllKnown, Known
    <2>2. \A i \in live : Len(data[i]) = 0
      BY <2>1 DEF Shape
    <2> QED BY <2>2, <1>1, <1>2, <1>3
  <1>4. CASE Len(history) # 0
    <2>1. PICK i \in live : Len(data[i]) # 0 /\ data[i][Len(data[i])] = history[Len(history)]
      BY <1>4 DEF Files, HeadInFile, Shape
    <2>2. PICK t \in live : /\ Len(data[t]) # 0 /\ RevHead = data[t][Len(data[t])].rev
                           /\ \A j \in live : \A k \in 1..Len(data[j]) : data[j][k].rev <= RevHead
      BY <1>1, <1>2, <2>1
    <2>3. Len(data[i]) \in 1..Len(data[i]) /\ Len(data[t]) \in 1..Len(data[t])
      BY <2>1, <2>2 DEF Shape
    <2>4. history[Len(history)].rev <= RevHead
      BY <2>1, <2>2, <2>3
    <2>5. PICK k \in 1..Len(history) : history[k] = data[t][Len(data[t])]
      BY <2>3 DEF Files, AllKnown, Known
    <2>6. k = Len(history) \/ history[k].rev < history[Len(history)].rev
      BY <1>4 DEF Files, Sorted, Shape
    <2>7. /\ Len(history) \in 1..Len(history) /\ history[k].rev \in Nat
          /\ history[Len(history)].rev \in Nat
      BY <1>4 DEF Shape
    <2>8. RevHead = history[k].rev
      BY <2>2, <2>5
    <2> QED BY <2>4, <2>6, <2>7, <2>8, <1>4
  <1> QED
    BY <1>3, <1>4
-----------------------------------------------------------------------------
(* Steps that leave the files and the history alone *)

Quiet ==
  /\ live' = live /\ data' = data /\ history' = history
  /\ \A i \in Index : synced[i] <= synced'[i]

LEMMA SyncedMore ==
  ASSUME TypeOK, Shape
  PROVE  /\ SyncedFile \in [Index -> Nat] /\ SyncedFile[index] = Len(data[index])
         /\ \A i \in Index : synced[i] <= SyncedFile[i] /\ SyncedFile[i] <= Len(data[i])
         /\ \A i \in Index \ {index} : SyncedFile[i] = synced[i]
PROOF
  <1>1. synced \in [Index -> Nat] /\ index \in Index
    BY DEF TypeOK
  <1>2. \A i \in Index : synced[i] \in Nat /\ Len(data[i]) \in Nat /\ synced[i] <= Len(data[i])
    BY DEF Shape
  <1>3. /\ SyncedFile \in [Index -> Nat] /\ SyncedFile[index] = Len(data[index])
        /\ \A i \in Index \ {index} : SyncedFile[i] = synced[i]
    BY <1>1, <1>2 DEF SyncedFile
  <1>4. ASSUME NEW i \in Index
        PROVE  synced[i] <= SyncedFile[i] /\ SyncedFile[i] <= Len(data[i])
    <2>1. CASE i = index
      BY <2>1, <1>1, <1>2, <1>3
    <2>2. CASE i # index
      BY <2>2, <1>2, <1>3
    <2> QED BY <2>1, <2>2
  <1> QED
    BY <1>3, <1>4

LEMMA QuietSafe ==
  ASSUME Shape, Shape', Quiet, NEW e
  PROVE  (OnStable(e) => OnStable(e)') /\ (Safe(e) => Safe(e)') /\ (Known(e) => Known(e)')
PROOF
  <1>1. ASSUME OnStable(e)
        PROVE  OnStable(e)'
    <2>1. PICK i \in live : \E k \in 1..synced[i] : data[i][k] = e
      BY <1>1 DEF OnStable
    <2>2. PICK k \in 1..synced[i] : data[i][k] = e
      BY <2>1
    <2>3. k \in 1..synced'[i] /\ i \in live' /\ data'[i][k] = e
      BY <2>2 DEF Quiet, Shape
    <2> QED BY <2>3 DEF OnStable
  <1>2. (InFiles(e) => InFiles(e)') /\ (Subsumed(e) => Subsumed(e)') /\ (Known(e) => Known(e)')
    BY DEF InFiles, At, Subsumed, Known, Quiet
  <1> QED
    BY <1>1, <1>2 DEF Safe

AllStable == \A k \in 1..Len(history) : IsCheckpoint(history[k]) \/ OnStable(history[k])

LEMMA QuietFiles ==
  ASSUME Shape, Shape', Quiet, Files, \A e \in pending' : e \in pending,
         \A e \in announced' : \/ e \in announced
                               \/ Known(e) /\ Safe(e)' /\ (Orderly => AllStable')
  PROVE  Files'
PROOF
  <1>1. Sorted' /\ InOrder' /\ HeadInFile'
    BY DEF Quiet, Files, Sorted, InOrder, HeadInFile
  <1>2. AllKnown'
    <2>1. \A i \in live' : \A k \in 1..Len(data'[i]) : Known(data[i][k])'
      BY DEF Quiet, Files, AllKnown, Known
    <2> QED BY <2>1, QuietSafe DEF Quiet, Files, AllKnown
  <1>3. AnnouncedSafe'
    BY QuietSafe DEF Files, AnnouncedSafe
  <1>4. RecordsInFiles'
    BY DEF Quiet, Files, RecordsInFiles, InFiles, At
  <1>5. UnsyncedInNewest'
    <2>1. \A i \in live : \A k \in 1..Len(data[i]) : k <= synced[i] => k <= synced'[i]
      BY DEF Quiet, Shape
    <2> QED BY <2>1 DEF Quiet, Files, UnsyncedInNewest
  <1>6. Barrier'
    <2> SUFFICES ASSUME Orderly, NEW e \in announced', NEW k \in 1..Len(history'),
                        history'[k].rev <= e.rev
                 PROVE  IsCheckpoint(history[k])' \/ OnStable(history[k])'
      BY DEF Barrier
    <2>1. AllStable' \/ IsCheckpoint(history[k]) \/ OnStable(history[k])
      BY DEF Files, Barrier, Quiet
    <2> DEFINE f == history[k]
    <2>2. \A g : OnStable(g) => OnStable(g)'
      BY QuietSafe
    <2>3. f' = f /\ (OnStable(f) => OnStable(f)')
      BY <2>2 DEF Quiet, OnStable
    <2>4. CASE AllStable'
      BY <2>4 DEF AllStable
    <2> QED BY <2>1, <2>3, <2>4 DEF IsCheckpoint, Quiet
  <1> QED
    BY <1>1, <1>2, <1>3, <1>4, <1>5, <1>6 DEF Files

-----------------------------------------------------------------------------
(* The type invariant *)

LEMMA FileWritten ==
  ASSUME TypeOK, Shape, ~torn[index], NEW kind, NEW is_record, WriteRecord(kind, is_record)
  PROVE  LET e == Entry(next_rev, kind) IN
         /\ data' = [i \in Index |-> data'[i]] /\ IsLog(history') /\ IsLog(data'[index])
         /\ \A i \in Index \ {index} : data'[i] = data[i]
         /\ Len(data'[index]) = Len(data[index]) + 1
         /\ \A k \in 1..Len(data[index]) : data'[index][k] = data[index][k]
         /\ data'[index][Len(data[index]) + 1] = e
         /\ Len(history') = Len(history) + 1
         /\ \A k \in 1..Len(history) : history'[k] = history[k]
         /\ history'[Len(history) + 1] = e
         /\ e.rev = next_rev /\ e.kind = kind
PROOF
  <1> DEFINE e == Entry(next_rev, kind)
  <1>1. e.rev = next_rev /\ e.kind = kind /\ e.rev \in Nat
    BY DEF Entry, Shape
  <1>2. /\ data' = [data EXCEPT ![index] = Append(@, e)]
        /\ history' = Append(history, e)
    BY DEF WriteRecord
  <1>3. index \in Index /\ data = [i \in Index |-> data[i]] /\ IsLog(data[index]) /\ IsLog(history)
    BY DEF TypeOK
  <1>4. data'[index] = Append(data[index], e)
    BY <1>2, <1>3
  <1>5. \A i \in Index \ {index} : data'[i] = data[i]
    BY <1>2, <1>3
  <1>6. data' = [i \in Index |-> data'[i]]
    BY <1>2, <1>3
  <1> HIDE DEF e
  <1>7. /\ IsLog(data'[index]) /\ Len(data'[index]) = Len(data[index]) + 1
        /\ \A k \in 1..Len(data[index]) : data'[index][k] = data[index][k]
        /\ data'[index][Len(data[index]) + 1] = e
    BY <1>1, <1>3, <1>4, LogAppend
  <1>8. /\ IsLog(history') /\ Len(history') = Len(history) + 1
        /\ \A k \in 1..Len(history) : history'[k] = history[k]
        /\ history'[Len(history) + 1] = e
    BY <1>1, <1>2, <1>3, LogAppend
  <1> QED
    BY <1>1, <1>5, <1>6, <1>7, <1>8 DEF e

LEMMA FileCreated ==
  ASSUME TypeOK, Shape, NEW i \in Index, NEW durable \in [Index -> Nat], CreateFile(i, durable)
  PROVE  /\ data' = [j \in Index |-> data'[j]] /\ data'[i] = <<>> /\ Len(data'[i]) = 0
         /\ \A j \in Index \ {i} : data'[j] = data[j]
         /\ \A j \in Index : IsLog(data'[j])
         /\ synced' \in [Index -> Nat] /\ synced'[i] = 0
         /\ \A j \in Index \ {i} : synced'[j] = durable[j]
         /\ torn' \in [Index -> BOOLEAN] /\ ~torn'[i]
         /\ \A j \in Index \ {i} : torn'[j] = torn[j]
PROOF
  <1>1. /\ data' = [data EXCEPT ![i] = <<>>]
        /\ torn' = [torn EXCEPT ![i] = FALSE]
        /\ synced' = [durable EXCEPT ![i] = 0]
    BY DEF CreateFile
  <1>2. /\ data = [j \in Index |-> data[j]] /\ torn \in [Index -> BOOLEAN]
        /\ \A j \in Index : IsLog(data[j])
    BY DEF TypeOK
  <1>3. /\ synced' \in [Index -> Nat] /\ synced'[i] = 0
        /\ \A j \in Index \ {i} : synced'[j] = durable[j]
    BY <1>1
  <1>4. /\ torn' \in [Index -> BOOLEAN] /\ ~torn'[i]
        /\ \A j \in Index \ {i} : torn'[j] = torn[j]
    BY <1>1, <1>2
  <1>5. /\ data' = [j \in Index |-> data'[j]] /\ data'[i] = <<>>
        /\ \A j \in Index \ {i} : data'[j] = data[j]
    BY <1>1, <1>2
  <1>6. Len(data'[i]) = 0 /\ \A j \in Index : IsLog(data'[j])
    BY <1>2, <1>5, LogEmpty
  <1> QED
    BY <1>3, <1>4, <1>5, <1>6

LEMMA FilesCut ==
  ASSUME Sane, TypeOK, Shape, Directory, PowerLoss
  PROVE  /\ "compact" \notin Env /\ live' = live /\ linked' = live
         /\ data' = [j \in Index |-> data'[j]] /\ \A j \in Index : IsLog(data'[j])
         /\ \A i \in live : /\ synced[i] <= synced'[i] /\ synced'[i] = Len(data'[i])
                            /\ Len(data'[i]) \in Nat /\ Len(data'[i]) <= Len(data[i])
                            /\ \A k \in 1..Len(data'[i]) : data'[i][k] = data[i][k]
         /\ \A i \in Index \ live : data'[i] = data[i] /\ synced'[i] = synced[i]
         /\ synced' \in [Index -> Nat] /\ torn' \in [Index -> BOOLEAN]
PROOF
  <1>1. "compact" \notin Env /\ "dir_loss" \notin Env
    BY DEF Sane, PowerLoss
  <1>2. PICK files \in SurvivingFiles, kept \in [live -> 0..MaxEntries] :
          /\ \A i \in live : synced[i] <= kept[i] /\ kept[i] <= Len(data[i])
          /\ live' = files /\ linked' = files
          /\ data' = [i \in Index |-> IF i \in live THEN SubSeq(data[i], 1, kept[i]) ELSE data[i]]
          /\ synced' = [i \in Index |-> IF i \in live THEN kept[i] ELSE synced[i]]
    BY DEF PowerLoss
  <1>3. files = live
    BY <1>1, <1>2 DEF SurvivingFiles, Directory, NothingUnlinked
  <1>4. \A i \in live : i \in Index /\ kept[i] \in Nat /\ kept[i] \in 0..Len(data[i])
    BY <1>2, BoundsAssumption DEF Shape
  <1>5. \A i \in live : data'[i] = SubSeq(data[i], 1, kept[i]) /\ synced'[i] = kept[i]
    BY <1>2, <1>4
  <1>6. ASSUME NEW i \in live
        PROVE  /\ IsLog(data'[i]) /\ Len(data'[i]) = kept[i]
               /\ \A k \in 1..Len(data'[i]) : data'[i][k] = data[i][k]
    <2>1. IsLog(data[i])
      BY <1>4 DEF TypeOK
    <2>2. kept[i] \in 0..Len(data[i]) /\ data'[i] = SubSeq(data[i], 1, kept[i])
      BY <1>4, <1>5
    <2> DEFINE s == data[i]
               t == SubSeq(s, 1, kept[i])
    <2>3. IsLog(t) /\ Len(t) = kept[i] /\ \A k \in 1..kept[i] : t[k] = s[k]
      <3> HIDE DEF s
      <3>1. IsLog(s) /\ kept[i] \in 0..Len(s)
        BY <2>1, <2>2 DEF s
      <3> QED BY ONLY <3>1, LogPrefix
    <2>4. data'[i] = t
      BY <2>2
    <2> HIDE DEF t
    <2> QED BY ONLY <2>3, <2>4 DEF s
  <1>7. \A i \in Index \ live : data'[i] = data[i] /\ synced'[i] = synced[i]
    BY <1>2
  <1>8. data' = [j \in Index |-> data'[j]]
    BY <1>2
  <1>9. \A j \in Index : IsLog(data'[j])
    BY <1>6, <1>7 DEF TypeOK
  <1>10. synced' \in [Index -> Nat]
    BY <1>2, <1>4 DEF TypeOK
  <1>11. torn' \in [Index -> BOOLEAN]
    BY DEF PowerLoss, TypeOK
  <1>12. \A i \in live : /\ synced[i] <= synced'[i] /\ synced'[i] = Len(data'[i])
                         /\ Len(data'[i]) \in Nat /\ Len(data'[i]) <= Len(data[i])
                         /\ \A k \in 1..Len(data'[i]) : data'[i][k] = data[i][k]
    BY <1>2, <1>4, <1>5, <1>6
  <1> QED
    BY <1>1, <1>2, <1>3, <1>7, <1>8, <1>9, <1>10, <1>11, <1>12

(* What a power loss leaves of the history: the entries up to the highest  *)
(* rev in the files, and the last of them is the last of a file.           *)
LEMMA HistoryCut ==
  ASSUME Sane, TypeOK, Shape, Files, Directory, PowerLoss
  PROVE  /\ IsLog(history') /\ Len(history') <= Len(history)
         /\ history' = SubSeq(history, 1, Len(history'))
         /\ \A k \in 1..Len(history') : history'[k] = history[k]
         /\ \A i \in live : \A a \in 1..Len(data'[i]) :
              \E k \in 1..Len(history') : history'[k] = data'[i][a]
         /\ Len(history') # 0 =>
              \E i \in live : /\ Len(data'[i]) # 0
                              /\ data'[i][Len(data'[i])] = history'[Len(history')]
PROOF
  <1>1. /\ live' = live /\ \A j \in Index : IsLog(data'[j])
        /\ \A i \in live : /\ Len(data'[i]) \in Nat /\ Len(data'[i]) <= Len(data[i])
                           /\ \A k \in 1..Len(data'[i]) : data'[i][k] = data[i][k]
    BY FilesCut
  <1>2. live \subseteq Index /\ \A i \in live : Len(data[i]) \in Nat
    BY DEF Shape
  <1>3. RevHead' = HeadOf(live, data')
    BY <1>1 DEF RevHead, HeadOf, NonEmpty
  <1> DEFINE h == HeadOf(live, data')
  <1>4. /\ h \in Int
        /\ (\A i \in live : Len(data'[i]) = 0) => h = None
        /\ (\E i \in live : Len(data'[i]) # 0) =>
             \E i \in live : /\ Len(data'[i]) # 0 /\ h = data'[i][Len(data'[i])].rev
                             /\ \A j \in live : j > i => Len(data'[j]) = 0
                             /\ \A j \in live : \A k \in 1..Len(data'[j]) : data'[j][k].rev <= h
    <2>1. ASSUME NEW i \in live, NEW j \in live,
                 NEW a \in 1..Len(data'[i]), NEW b \in 1..Len(data'[j]), i < j \/ (i = j /\ a < b)
          PROVE  data'[i][a].rev < data'[j][b].rev
      <3>1. a \in 1..Len(data[i]) /\ data'[i][a] = data[i][a]
        BY <1>1, <1>2
      <3>2. b \in 1..Len(data[j]) /\ data'[j][b] = data[j][b]
        BY <1>1, <1>2
      <3> QED BY <2>1, <3>1, <3>2 DEF Files, InOrder
    <2> QED BY <2>1, <1>1, <1>2, HighestRev
  <1>5. history' = UpTo(history, h)
    BY <1>3 DEF PowerLoss
  <1> HIDE DEF h
  <1>6. /\ IsLog(history') /\ Len(history') <= Len(history)
        /\ history' = SubSeq(history, 1, Len(history'))
        /\ \A k \in 1..Len(history') : history'[k] = history[k]
        /\ \A k \in 1..Len(history) : history[k].rev <= h <=> k <= Len(history')
    <2>1. IsLog(history) /\ \A a, b \in 1..Len(history) : a < b => history[a].rev < history[b].rev
      BY DEF TypeOK, Files, Sorted
    <2> QED BY <2>1, <1>4, <1>5, PrefixUpTo
  <1>7. Len(history') \in Nat /\ Len(history) \in Nat
    BY <1>6, LogShape DEF Shape
  <1>8. ASSUME NEW i \in live, NEW a \in 1..Len(data'[i])
        PROVE  \E k \in 1..Len(history') : history'[k] = data'[i][a]
    <2>1. a \in 1..Len(data[i]) /\ data'[i][a] = data[i][a]
      BY <1>1, <1>2
    <2>2. PICK k \in 1..Len(history) : history[k] = data[i][a]
      BY <2>1 DEF Files, AllKnown, Known
    <2>3. Len(data'[i]) # 0
      BY <1>1
    <2>4. data'[i][a].rev <= h
      BY <1>4, <2>3
    <2>5. k <= Len(history')
      BY <2>1, <2>2, <2>4, <1>6
    <2> QED BY <2>1, <2>2, <2>5, <1>6, <1>7
  <1>9. ASSUME Len(history') # 0
        PROVE  \E i \in live : /\ Len(data'[i]) # 0
                               /\ data'[i][Len(data'[i])] = history'[Len(history')]
    <2>1. 1 \in 1..Len(history) /\ 1 <= Len(history')
      BY <1>6, <1>7, <1>9
    <2>2. history[1].rev <= h /\ history[1].rev \in Nat
      BY <2>1, <1>6 DEF Shape
    <2>3. PICK i \in live : Len(data'[i]) # 0 /\ h = data'[i][Len(data'[i])].rev
      BY <2>2, <1>4 DEF None
    <2>4. Len(data'[i]) \in 1..Len(data'[i])
      BY <2>3, <1>1
    <2>5. PICK k \in 1..Len(history') : history'[k] = data'[i][Len(data'[i])]
      BY <2>4, <1>8
    <2>6. Len(history') \in 1..Len(history) /\ k \in 1..Len(history)
      BY <1>6, <1>7, <1>9
    <2>7. history[Len(history')].rev <= h
      BY <2>6, <1>6
    <2>8. history[k].rev = h
      BY <2>3, <2>5, <1>6
    <2>9. k = Len(history') \/ history[k].rev < history[Len(history')].rev
      BY <2>6, <1>7 DEF Files, Sorted
    <2>10. k = Len(history')
      BY <2>6, <2>7, <2>8, <2>9 DEF Shape
    <2> QED BY <2>3, <2>5, <2>10
  <1> QED
    BY <1>6, <1>8, <1>9

LEMMA Induct ==
  ASSUME NEW S, S \subseteq Nat, 0 \in S, \A k \in S : k + 1 \in S
  PROVE  S = Nat
PROOF
  <1> SUFFICES ASSUME Nat \ S # {} PROVE FALSE
    OBVIOUS
  <1> DEFINE T == Nat \ S
             m == Min(T)
  <1>1. m \in T /\ \A y \in T : m <= y
    <2>1. T \subseteq Nat /\ T # {}
      OBVIOUS
    <2> HIDE DEF T
    <2> QED BY <2>1, LeastNumber
  <1> HIDE DEF m
  <1>2. m # 0 /\ m - 1 \in Nat /\ m - 1 \notin T /\ (m - 1) + 1 = m
    BY <1>1
  <1> QED BY <1>1, <1>2

LEMMA FrameIsNat ==
  ASSUME NEW kind
  PROVE  EncodedLen(kind) \in Nat
PROOF
  BY FramesAssumption DEF EncodedLen

ByteSum(s, n, f) ==
  f = [k \in 0..n |-> IF k = 0 THEN 0 ELSE f[k - 1] + EncodedLen(s[k].kind)]

(* The bytes a scan finds valid are a number. *)
LEMMA ValidIsNat ==
  ASSUME NEW s, Len(s) \in Nat
  PROVE  ValidLen(s) \in Nat
PROOF
  <1> DEFINE S == {k \in Nat : \E f : ByteSum(s, k, f)}
  <1>1. 0 \in S
    <2> DEFINE z == [k \in 0..0 |-> 0]
    <2>1. ByteSum(s, 0, z)
      BY DEF ByteSum
    <2> HIDE DEF z
    <2> QED BY <2>1
  <1>2. ASSUME NEW k \in S PROVE k + 1 \in S
    <2>1. PICK f : ByteSum(s, k, f)
      OBVIOUS
    <2>0. k \in Nat
      OBVIOUS
    <2> HIDE DEF S
    <2>2. PICK last : last = f[k] + EncodedLen(s[k + 1].kind)
      OBVIOUS
    <2> DEFINE g == [j \in 0..k + 1 |-> IF j = k + 1 THEN last ELSE f[j]]
    <2>3. ASSUME NEW j \in 0..k + 1
          PROVE  g[j] = IF j = 0 THEN 0 ELSE g[j - 1] + EncodedLen(s[j].kind)
      <3>1. CASE j = k + 1
        <4>1. j - 1 = k /\ j # 0 /\ k \in 0..k + 1 /\ k # k + 1
          BY <2>0, <3>1
        <4>2. g[j] = last /\ g[j - 1] = f[k]
          BY <3>1, <4>1
        <4> QED BY <2>2, <3>1, <4>1, <4>2
      <3>2. CASE j = 0
        <4>1. g[j] = f[0] /\ f[0] = 0
          BY <2>0, <3>2, <2>1 DEF ByteSum
        <4> QED BY <3>2, <4>1
      <3>3. CASE j \in 1..k
        <4>1. j # k + 1 /\ j - 1 # k + 1 /\ j - 1 \in 0..k + 1 /\ j # 0 /\ j \in 0..k
          BY <2>0, <3>3
        <4>2. g[j] = f[j] /\ g[j - 1] = f[j - 1]
          BY <4>1
        <4>3. f[j] = f[j - 1] + EncodedLen(s[j].kind)
          BY <2>1, <4>1 DEF ByteSum
        <4> QED BY <4>1, <4>2, <4>3
      <3> QED BY <2>0, <3>1, <3>2, <3>3
    <2>4. ByteSum(s, k + 1, g)
      BY <2>3 DEF ByteSum
    <2> QED BY <2>0, <2>4 DEF S
  <1>3. S = Nat
    <2>1. S \subseteq Nat
      OBVIOUS
    <2> HIDE DEF S
    <2> QED BY <1>1, <1>2, <2>1, Induct
  <1> DEFINE sum == CHOOSE f : ByteSum(s, Len(s), f)
             T == {k \in Nat : k <= Len(s) => sum[k] \in Nat}
  <1>4. ValidLen(s) = sum[Len(s)]
    BY DEF ValidLen, ByteSum
  <1>5. ByteSum(s, Len(s), sum)
    <2>1. Len(s) \in S
      BY <1>3
    <2> QED BY <2>1
  <1> HIDE DEF S, sum
  <1>6. 0 \in T
    BY <1>5 DEF ByteSum
  <1>7. ASSUME NEW k \in T PROVE k + 1 \in T
    <2> SUFFICES ASSUME k + 1 <= Len(s) PROVE sum[k + 1] \in Nat
      OBVIOUS
    <2>1. k \in Nat /\ sum[k] \in Nat /\ k + 1 \in 0..Len(s) /\ k + 1 # 0 /\ (k + 1) - 1 = k
      OBVIOUS
    <2>2. sum[k + 1] = sum[k] + EncodedLen(s[k + 1].kind)
      BY ONLY <1>5, <2>1 DEF ByteSum
    <2> QED BY <2>1, <2>2, FrameIsNat
  <1>8. T = Nat
    <2>1. T \subseteq Nat
      OBVIOUS
    <2> HIDE DEF T
    <2> QED BY <1>6, <1>7, <2>1, Induct
  <1> QED BY <1>4, <1>8

LEMMA TypeStep ==
  ASSUME Sane, IInv, Next
  PROVE  TypeOK'
PROOF
  <1> USE DEF IInv
  <1>s. Shape
    BY Shapes
  <1>b. Index \subseteq Nat /\ 0 \in Index /\ Index = 0..MaxSegment /\ MaxSegment \in Nat
    BY BoundsAssumption DEF Index
  <1>n. SyncedFile \in [Index -> Nat] /\ \A i \in Index : SyncedFile[i] <= Len(data[i])
    BY <1>s, SyncedMore
  <1>w. ASSUME NEW kind, NEW is_record \in BOOLEAN, WriteRecord(kind, is_record), ~torn[index],
               pc' \in {"ready", "stamped", "forced"}, job' \in {job, NoJob}, cut' = cut
        PROVE  TypeOK'
    <2>1. /\ data' = [i \in Index |-> data'[i]] /\ IsLog(history') /\ IsLog(data'[index])
          /\ \A i \in Index \ {index} : data'[i] = data[i]
          /\ Len(data'[index]) = Len(data[index]) + 1
      BY <1>s, <1>w, FileWritten
    <2>2. ASSUME NEW i \in Index
          PROVE  IsLog(data'[i]) /\ synced[i] <= Len(data'[i])
      <3>1. IsLog(data[i]) /\ synced[i] \in Nat /\ Len(data[i]) \in Nat /\ synced[i] <= Len(data[i])
        BY <1>s DEF TypeOK, Shape
      <3>2. CASE i = index
        BY <3>1, <3>2, <2>1
      <3>3. CASE i # index
        BY <3>1, <3>3, <2>1
      <3> QED BY <3>2, <3>3
    <2>3. /\ state' = FoldEntry(state, Entry(next_rev, kind))
          /\ next_rev' = next_rev + 1 /\ segment_bytes' = segment_bytes + EncodedLen(kind)
          /\ segment_has_record' \in BOOLEAN
          /\ UNCHANGED <<live, synced, torn, linked, index>>
      BY <1>w DEF WriteRecord, TypeOK
    <2>4. segment_bytes' \in Nat
      BY <2>3, FrameIsNat DEF TypeOK
    <2> QED BY <2>1, <2>2, <2>3, <2>4, <1>w DEF TypeOK
  <1>c. ASSUME NEW i \in Index, NEW durable \in {synced, SyncedFile}, CreateFile(i, durable)
        PROVE  /\ live' \subseteq Index /\ data' = [j \in Index |-> data'[j]]
               /\ synced' \in [Index -> Nat] /\ torn' \in [Index -> BOOLEAN]
               /\ \A j \in Index : IsLog(data'[j]) /\ synced'[j] <= Len(data'[j])
    <2>1. durable \in [Index -> Nat] /\ \A j \in Index : durable[j] <= Len(data[j])
      BY <1>n DEF TypeOK
    <2>2. /\ data' = [j \in Index |-> data'[j]] /\ data'[i] = <<>> /\ Len(data'[i]) = 0
          /\ \A j \in Index \ {i} : data'[j] = data[j]
          /\ \A j \in Index : IsLog(data'[j])
          /\ synced' \in [Index -> Nat] /\ synced'[i] = 0
          /\ \A j \in Index \ {i} : synced'[j] = durable[j]
          /\ torn' \in [Index -> BOOLEAN]
      BY <2>1, <1>s, <1>c, FileCreated
    <2>3. live' \subseteq Index
      BY <1>c DEF CreateFile, TypeOK
    <2>4. ASSUME NEW j \in Index
          PROVE  synced'[j] <= Len(data'[j])
      <3>1. CASE j = i
        BY <3>1, <2>2
      <3>2. CASE j # i
        BY <3>2, <2>1, <2>2
      <3> QED BY <3>1, <3>2
    <2> QED BY <2>2, <2>3, <2>4
  <1>r. RevHead + 1 \in Nat
    <2>1. RevHead = IF Len(history) = 0 THEN None ELSE history[Len(history)].rev
      BY <1>s, RevHeadIsLast
    <2>2. Len(history) # 0 => Len(history) \in 1..Len(history)
      BY <1>s DEF Shape
    <2> QED BY <2>1, <2>2, <1>s DEF Shape, None
  <1>1. CASE OpenFresh
    <2>1. CreateFile(0, synced) /\ linked' = {0}
      BY <1>1 DEF OpenFresh
    <2>2. /\ live' \subseteq Index /\ data' = [j \in Index |-> data'[j]]
          /\ synced' \in [Index -> Nat] /\ torn' \in [Index -> BOOLEAN]
          /\ \A j \in Index : IsLog(data'[j]) /\ synced'[j] <= Len(data'[j])
      BY <2>1, <1>b, <1>c
    <2> QED BY <2>1, <2>2, <1>1, <1>b, <1>r DEF OpenFresh, TypeOK
  <1>2. CASE OpenFreshFails
    <2>1. CreateFile(0, synced)
      BY <1>2 DEF OpenFreshFails
    <2>2. /\ live' \subseteq Index /\ data' = [j \in Index |-> data'[j]]
          /\ synced' \in [Index -> Nat] /\ torn' \in [Index -> BOOLEAN]
          /\ \A j \in Index : IsLog(data'[j]) /\ synced'[j] <= Len(data'[j])
      BY <2>1, <1>b, <1>c
    <2> QED BY <2>2, <1>2 DEF OpenFreshFails, TypeOK, writerVars
  <1>3. CASE OpenExisting
    <2>1. Newest \in Index
      BY <1>3, <1>s, NewestFile DEF OpenExisting, Shape
    <2>2. Len(data[Newest]) \in Nat
      BY <2>1, <1>s DEF Shape
    <2>3. /\ synced' \in [Index -> Nat] /\ torn' \in [Index -> BOOLEAN]
          /\ \A i \in Index : synced'[i] <= Len(data[i])
      BY <2>1, <2>2, <1>3 DEF OpenExisting, TruncateTail, TypeOK
    <2>4. segment_has_record' \in BOOLEAN
      BY <1>3 DEF OpenExisting
    <2>5. segment_bytes' \in Nat
      BY <2>2, <1>3, ValidIsNat DEF OpenExisting
    <2> QED BY <2>1, <2>2, <2>3, <2>4, <2>5, <1>3, <1>r DEF OpenExisting, TypeOK
  <1>4. ASSUME NEW kind \in Kinds, AppendBuffered(kind)
        PROVE  TypeOK'
    <2>1. WriteRecord(kind, TRUE) /\ ~torn[index]
      BY <1>4 DEF AppendBuffered, Writer, WriterPlaced
    <2> QED BY <2>1, <1>4, <1>w DEF AppendBuffered
  <1>5. ASSUME NEW kind \in Kinds, Roll(kind)
        PROVE  TypeOK'
    <2>1. CreateFile(index + 1, SyncedFile) /\ index + 1 \in Index
      BY <1>5 DEF Roll
    <2>2. /\ live' \subseteq Index /\ data' = [j \in Index |-> data'[j]]
          /\ synced' \in [Index -> Nat] /\ torn' \in [Index -> BOOLEAN]
          /\ \A j \in Index : IsLog(data'[j]) /\ synced'[j] <= Len(data'[j])
      BY <2>1, <1>c
    <2> QED BY <2>2, <1>5 DEF Roll, TypeOK, writerVars
  <1>6. CASE SwitchSegment
    <2>1. index + 1 \in Index
      BY <1>6, <1>s DEF SwitchSegment, Writer, Stages, Shape
    <2> QED BY <2>1, <1>6 DEF SwitchSegment, TypeOK
  <1>7. CASE StampCheckpoint
    <2>1. WriteRecord(CheckpointKind(state), FALSE) /\ ~torn[index]
      BY <1>7 DEF StampCheckpoint, Writer, WriterPlaced
    <2> QED BY <2>1, <1>7, <1>w DEF StampCheckpoint
  <1>8. CASE AppendAfterRoll
    <2>1. WriteRecord(job, TRUE) /\ ~torn[index]
      BY <1>8 DEF AppendAfterRoll, Writer, WriterPlaced
    <2> QED BY <2>1, <1>8, <1>w DEF AppendAfterRoll
  <1>9. CASE ForceCheckpoint
    <2>1. WriteRecord(CheckpointKind(state), FALSE) /\ ~torn[index]
      BY <1>9 DEF ForceCheckpoint, Writer, WriterPlaced
    <2> QED BY <2>1, <1>9, <1>w DEF ForceCheckpoint
  <1>10. CASE CompactBegin
    <2>1. CheckpointSegments \subseteq 0..MaxSegment /\ CheckpointSegments # {}
      BY <1>10, <1>b DEF CompactBegin, CheckpointSegments, TypeOK
    <2>2. Max(CheckpointSegments) \in Index
      BY <2>1, <1>b, GreatestNumber
    <2> QED BY <2>2, <1>10 DEF CompactBegin, TypeOK, diskVars, writerVars
  <1>11. CASE Kill
    <2>1. torn' \in [Index -> BOOLEAN]
      BY <1>11 DEF Kill, TypeOK
    <2> QED BY <2>1, <1>11, <1>b DEF Kill, ProcessDies, TypeOK
  <1>12. CASE PowerLoss
    <2>1. /\ live' = live /\ linked' = live
          /\ data' = [j \in Index |-> data'[j]] /\ \A j \in Index : IsLog(data'[j])
          /\ \A i \in live : synced'[i] = Len(data'[i]) /\ Len(data'[i]) \in Nat
          /\ \A i \in Index \ live : data'[i] = data[i] /\ synced'[i] = synced[i]
          /\ synced' \in [Index -> Nat] /\ torn' \in [Index -> BOOLEAN]
      BY <1>12, <1>s, FilesCut
    <2>2. IsLog(history')
      BY <1>12, <1>s, HistoryCut
    <2>3. \A i \in Index : synced'[i] <= Len(data'[i])
      BY <2>1, <1>s DEF Shape
    <2>4. ProcessDies
      BY <1>12 DEF PowerLoss
    <2> QED BY <2>1, <2>2, <2>3, <2>4, <1>b DEF ProcessDies, TypeOK
  <1>13. CASE AppendFails
    BY <1>13 DEF AppendFails, TypeOK, WriteFails, Sane, writerVars
  <1>14. CASE RollFails
    BY <1>n, <1>14 DEF RollFails, TypeOK, writerVars
  <1>15. CASE SwitchFails
    BY <1>15 DEF SwitchFails, TypeOK, writerVars, diskVars
  <1>16. CASE StampFails
    BY <1>16 DEF StampFails, TypeOK, WriteFails, Sane, writerVars
  <1>17. CASE AppendAfterRollFails
    BY <1>17 DEF AppendAfterRollFails, TypeOK, WriteFails, Sane, writerVars
  <1>18. CASE Sync
    BY <1>n, <1>18 DEF Sync, TypeOK, writerVars
  <1>19. CASE SyncFails
    BY <1>19 DEF SyncFails, TypeOK, writerVars, diskVars
  <1>20. CASE SyncForced
    BY <1>n, <1>20 DEF SyncForced, TypeOK, writerVars
  <1>21. CASE SyncForcedFails
    BY <1>21 DEF SyncForcedFails, TypeOK, writerVars, diskVars
  <1>22. CASE CompactEnd
    BY <1>22 DEF CompactEnd, TypeOK, writerVars
  <1>23. CASE CompactRemove
    BY <1>23 DEF CompactRemove, TypeOK, writerVars
  <1> QED
    BY <1>1, <1>2, <1>3, <1>4, <1>5, <1>6, <1>7, <1>8, <1>9, <1>10, <1>11, <1>12, <1>13, <1>14, <1>15, <1>16, <1>17, <1>18, <1>19, <1>20, <1>21, <1>22, <1>23 DEF Next

-----------------------------------------------------------------------------
(* Steps that announce nothing and leave the files and the history alone *)

LEMMA QuietSteps ==
  ASSUME Sane, IInv, TypeOK',
         \/ OpenExisting \/ AppendFails \/ RollFails \/ SwitchSegment \/ SwitchFails
         \/ StampFails \/ AppendAfterRollFails \/ SyncFails \/ SyncForcedFails
         \/ CompactBegin \/ CompactEnd \/ Kill \/ UNCHANGED vars
  PROVE  IInv'
PROOF
  <1> USE DEF IInv
  <1>s. Shape /\ Shape'
    BY Shapes, NextShapes
  <1>n. \A i \in Index : synced[i] <= SyncedFile[i]
    BY <1>s, SyncedMore
  <1>q. ASSUME Quiet, announced' = announced, \A e \in pending' : e \in pending,
               Writer', Directory'
        PROVE  IInv'
    BY <1>s, <1>q, QuietFiles
  <1>p. ASSUME Quiet, \A e \in pending' : e \in pending, pc # "closed", pc' # "closed",
               index' = index, pc' # "created" \/ pc = "created"
        PROVE  PendingSafe'
    <2>1. ASSUME NEW e \in pending'
          PROVE  Safe(e)' \/ (At(e, index)' /\ pc' # "created")
      <3>1. Safe(e) \/ (At(e, index) /\ pc # "created")
        BY <1>p DEF Writer, PendingSafe
      <3>2. CASE Safe(e)
        BY <3>2, <1>s, <1>p, QuietSafe
      <3>3. CASE At(e, index) /\ pc # "created"
        BY <3>3, <1>p DEF At, Quiet
      <3> QED BY <3>1, <3>2, <3>3
    <2> QED BY <2>1, <1>p DEF PendingSafe
  <1>1. CASE OpenExisting
    <2>1. Newest \in live /\ \A j \in live : j <= Newest
      BY <1>1, <1>s, NewestFile DEF OpenExisting
    <2>2. Quiet
      <3>1. \A i \in Index : synced[i] <= synced'[i]
        <4>1. synced' = [synced EXCEPT ![Newest] = IF torn[Newest] THEN Len(data[Newest]) ELSE @]
          BY <1>1 DEF OpenExisting, TruncateTail
        <4>2. synced \in [Index -> Nat] /\ Newest \in Index
          BY <2>1 DEF TypeOK
        <4>3. /\ synced[Newest] <= Len(data[Newest]) /\ Len(data[Newest]) \in Nat
              /\ \A i \in Index : synced[i] \in Nat
          BY <4>2, <1>s DEF Shape
        <4>4. /\ synced'[Newest] = IF torn[Newest] THEN Len(data[Newest]) ELSE synced[Newest]
              /\ \A i \in Index \ {Newest} : synced'[i] = synced[i]
          BY <4>1, <4>2
        <4> QED BY <4>2, <4>3, <4>4
      <3> QED BY <3>1, <1>1 DEF OpenExisting, Quiet
    <2>3. pending = {} /\ pending' = {} /\ announced' = announced
      BY <1>1 DEF OpenExisting, Writer, PendingSafe
    <2>4. ~torn'[Newest]
      BY <1>1, <1>s, <2>1 DEF OpenExisting, TruncateTail, TypeOK, Shape
    <2>5. next_rev' = IF history = <<>> THEN 0 ELSE history[Len(history)].rev + 1
      <3>1. RevHead = IF Len(history) = 0 THEN None ELSE history[Len(history)].rev
        BY <1>s, RevHeadIsLast
      <3> QED BY <3>1, <1>1, <1>s DEF OpenExisting, Shape, None
    <2>6. WriterPlaced'
      <3>1. \A i \in live' : i <= index' + 1 /\ ~(i > index')
        BY <2>1, <1>1, <1>s DEF OpenExisting, Shape
      <3>2. index' \in live' /\ ~torn'[index'] /\ history' = history
        BY <2>1, <2>4, <1>1 DEF OpenExisting
      <3> QED BY <3>1, <3>2, <2>5 DEF WriterPlaced, NextRevIs
    <2>7. Stages'
      <3>1. \A i \in live' : i <= index'
        BY <2>1, <1>1 DEF OpenExisting
      <3> QED BY <3>1, <1>1 DEF OpenExisting, Stages
    <2>8. PendingSafe'
      BY <2>3 DEF PendingSafe
    <2>9. Directory'
      BY <1>1 DEF OpenExisting, Directory, Compacting, NothingUnlinked
    <2> QED BY <1>q, <2>2, <2>3, <2>6, <2>7, <2>8, <2>9 DEF Writer
  <1>2. CASE SwitchSegment
    <2>1. Quiet /\ pending' = pending /\ announced' = announced /\ index' = index + 1
      BY <1>2, <1>s DEF SwitchSegment, Quiet, Shape
    <2>2. WriterPlaced' /\ Stages'
      BY <1>2, <1>s DEF SwitchSegment, Writer, WriterPlaced, Stages, NextRevIs, Shape
    <2>3. PendingSafe'
      <3>1. \A e \in pending' : Safe(e)
        BY <2>1, <1>2 DEF SwitchSegment, Writer, PendingSafe
      <3>2. \A e \in pending' : Safe(e)'
        BY <3>1, <2>1, <1>s, QuietSafe
      <3> QED BY <3>2, <1>2 DEF SwitchSegment, PendingSafe
    <2>4. Directory'
      BY <1>2 DEF SwitchSegment, Directory, Compacting, NothingUnlinked
    <2> QED BY <1>q, <2>1, <2>2, <2>3, <2>4 DEF Writer
  <1>3. CASE CompactBegin
    <2>1. Quiet /\ pending' = pending /\ announced' = announced /\ index' = index
      BY <1>3, <1>s DEF CompactBegin, Quiet, Shape, diskVars, writerVars
    <2>2. WriterPlaced' /\ Stages'
      BY <1>3 DEF CompactBegin, Writer, WriterPlaced, Stages, NextRevIs, Empty, diskVars,
                  writerVars
    <2>3. PendingSafe'
      <3>1. CASE pc = "closed"
        BY <3>1, <1>3 DEF CompactBegin, Writer, PendingSafe
      <3>2. CASE pc # "closed"
        BY <3>2, <1>3, <1>p, <2>1 DEF CompactBegin
      <3> QED BY <3>1, <3>2
    <2>4. Directory'
      <3>1. CheckpointSegments \subseteq 0..MaxSegment /\ CheckpointSegments # {}
        BY <1>3, <1>s DEF CompactBegin, CheckpointSegments, Shape, Index
      <3>2. Max(CheckpointSegments) \in CheckpointSegments
        BY <3>1, BoundsAssumption, GreatestNumber
      <3>3. ASSUME NEW i \in CheckpointSegments
            PROVE  i \in live /\ Len(data[i]) # 0 /\ IsCheckpoint(data[i][1])
        <4>1. i \in live /\ data[i] # <<>> /\ IsCheckpoint(Head(data[i])) /\ IsLog(data[i])
          BY DEF CheckpointSegments, StartsWithCheckpoint, TypeOK
        <4>2. Len(data[i]) # 0
          BY <4>1, LogShape
        <4>3. Head(data[i]) = data[i][1]
          BY <4>1, HeadOfLog
        <4> QED BY <4>1, <4>2, <4>3
      <3>4. cut' \in live /\ Len(data[cut']) # 0 /\ IsCheckpoint(data[cut'][1])
        BY <3>2, <3>3, <1>3 DEF CompactBegin
      <3> QED BY <3>4, <1>3 DEF CompactBegin, Directory, Compacting, NothingUnlinked, diskVars
    <2> QED BY <1>q, <2>1, <2>2, <2>3, <2>4 DEF Writer
  <1>4. CASE Kill
    <2>1. Quiet /\ pending' = {} /\ announced' = announced /\ pc' = "closed" /\ cut' = None
      BY <1>4, <1>s DEF Kill, ProcessDies, Quiet, Shape
    <2>2. Writer'
      BY <2>1 DEF Writer, WriterPlaced, Stages, PendingSafe
    <2>3. Directory'
      BY <2>1, <1>4 DEF Kill, Directory, Compacting, NothingUnlinked
    <2> QED BY <1>q, <2>1, <2>2, <2>3
  <1>5. CASE UNCHANGED vars
    <2>1. Quiet /\ pending' = pending /\ announced' = announced /\ index' = index
      BY <1>5, <1>s DEF Quiet, Shape, vars, diskVars, writerVars
    <2>2. WriterPlaced' /\ Stages'
      BY <1>5 DEF Writer, WriterPlaced, Stages, NextRevIs, Empty, vars, diskVars, writerVars
    <2>3. PendingSafe'
      <3>1. CASE pc = "closed"
        BY <3>1, <1>5 DEF vars, Writer, PendingSafe
      <3>2. CASE pc # "closed"
        BY <3>2, <1>5, <1>p, <2>1 DEF vars
      <3> QED BY <3>1, <3>2
    <2>4. Directory'
      BY <1>5 DEF vars, diskVars, Directory, Compacting, NothingUnlinked
    <2> QED BY <1>q, <2>1, <2>2, <2>3, <2>4 DEF Writer
  <1>6. CASE AppendFails
    <2>1. Quiet /\ (pending' = pending \/ pending' = {}) /\ announced' = announced /\ index' = index
      BY <1>6, <1>s DEF AppendFails, Quiet, Shape, WriteFails, Sane, writerVars
    <2>2. WriterPlaced' /\ Stages'
      BY <1>6 DEF AppendFails, Writer, WriterPlaced, Stages, NextRevIs, Empty, WriteFails, Sane, writerVars
    <2>3. PendingSafe'
      BY <1>6, <1>p, <2>1 DEF AppendFails
    <2>4. Directory'
      BY <1>6 DEF AppendFails, Directory, Compacting, NothingUnlinked, WriteFails, Sane, writerVars
    <2> QED BY <1>q, <2>1, <2>2, <2>3, <2>4 DEF Writer
  <1>7. CASE RollFails
    <2>1. Quiet /\ (pending' = pending \/ pending' = {}) /\ announced' = announced /\ index' = index
      BY <1>n, <1>7, <1>s DEF RollFails, Quiet, Shape, writerVars
    <2>2. WriterPlaced' /\ Stages'
      BY <1>7 DEF RollFails, Writer, WriterPlaced, Stages, NextRevIs, Empty, writerVars
    <2>3. PendingSafe'
      BY <1>7, <1>p, <2>1 DEF RollFails
    <2>4. Directory'
      BY <1>7 DEF RollFails, Directory, Compacting, NothingUnlinked, writerVars
    <2> QED BY <1>q, <2>1, <2>2, <2>3, <2>4 DEF Writer
  <1>8. CASE SwitchFails
    <2>1. Quiet /\ (pending' = pending \/ pending' = {}) /\ announced' = announced /\ index' = index
      BY <1>8, <1>s DEF SwitchFails, Quiet, Shape, diskVars, writerVars
    <2>2. WriterPlaced' /\ Stages'
      BY <1>8 DEF SwitchFails, Writer, WriterPlaced, Stages, NextRevIs, Empty, diskVars, writerVars
    <2>3. PendingSafe'
      BY <1>8, <1>p, <2>1 DEF SwitchFails
    <2>4. Directory'
      BY <1>8 DEF SwitchFails, Directory, Compacting, NothingUnlinked, diskVars, writerVars
    <2> QED BY <1>q, <2>1, <2>2, <2>3, <2>4 DEF Writer
  <1>9. CASE StampFails
    <2>1. Quiet /\ (pending' = pending \/ pending' = {}) /\ announced' = announced /\ index' = index
      BY <1>9, <1>s DEF StampFails, Quiet, Shape, WriteFails, Sane, writerVars
    <2>2. WriterPlaced' /\ Stages'
      BY <1>9 DEF StampFails, Writer, WriterPlaced, Stages, NextRevIs, Empty, WriteFails, Sane, writerVars
    <2>3. PendingSafe'
      BY <1>9, <1>p, <2>1 DEF StampFails
    <2>4. Directory'
      BY <1>9 DEF StampFails, Directory, Compacting, NothingUnlinked, WriteFails, Sane, writerVars
    <2> QED BY <1>q, <2>1, <2>2, <2>3, <2>4 DEF Writer
  <1>10. CASE AppendAfterRollFails
    <2>1. Quiet /\ (pending' = pending \/ pending' = {}) /\ announced' = announced /\ index' = index
      BY <1>10, <1>s DEF AppendAfterRollFails, Quiet, Shape, WriteFails, Sane, writerVars
    <2>2. WriterPlaced' /\ Stages'
      BY <1>10 DEF AppendAfterRollFails, Writer, WriterPlaced, Stages, NextRevIs, Empty, WriteFails, Sane, writerVars
    <2>3. PendingSafe'
      BY <1>10, <1>p, <2>1 DEF AppendAfterRollFails
    <2>4. Directory'
      BY <1>10 DEF AppendAfterRollFails, Directory, Compacting, NothingUnlinked, WriteFails, Sane, writerVars
    <2> QED BY <1>q, <2>1, <2>2, <2>3, <2>4 DEF Writer
  <1>11. CASE SyncFails
    <2>1. Quiet /\ (pending' = pending \/ pending' = {}) /\ announced' = announced /\ index' = index
      BY <1>11, <1>s DEF SyncFails, Quiet, Shape, diskVars, writerVars
    <2>2. WriterPlaced' /\ Stages'
      BY <1>11 DEF SyncFails, Writer, WriterPlaced, Stages, NextRevIs, Empty, diskVars, writerVars
    <2>3. PendingSafe'
      BY <1>11, <1>p, <2>1 DEF SyncFails
    <2>4. Directory'
      BY <1>11 DEF SyncFails, Directory, Compacting, NothingUnlinked, diskVars, writerVars
    <2> QED BY <1>q, <2>1, <2>2, <2>3, <2>4 DEF Writer
  <1>12. CASE SyncForcedFails
    <2>1. Quiet /\ (pending' = pending \/ pending' = {}) /\ announced' = announced /\ index' = index
      BY <1>12, <1>s DEF SyncForcedFails, Quiet, Shape, diskVars, writerVars
    <2>2. WriterPlaced' /\ Stages'
      BY <1>12 DEF SyncForcedFails, Writer, WriterPlaced, Stages, NextRevIs, Empty, diskVars, writerVars
    <2>3. PendingSafe'
      BY <1>12, <1>p, <2>1 DEF SyncForcedFails
    <2>4. Directory'
      BY <1>12 DEF SyncForcedFails, Directory, Compacting, NothingUnlinked, diskVars, writerVars
    <2> QED BY <1>q, <2>1, <2>2, <2>3, <2>4 DEF Writer
  <1>13. CASE CompactEnd
    <2>1. Quiet /\ (pending' = pending \/ pending' = {}) /\ announced' = announced /\ index' = index
      BY <1>13, <1>s DEF CompactEnd, Quiet, Shape, writerVars
    <2>2. WriterPlaced' /\ Stages'
      BY <1>13 DEF CompactEnd, Writer, WriterPlaced, Stages, NextRevIs, Empty, writerVars
    <2>3. PendingSafe'
      <3>1. CASE pc = "closed"
        BY <3>1, <1>13 DEF CompactEnd, Writer, PendingSafe
      <3>2. CASE pc # "closed"
        BY <3>2, <1>13, <1>p, <2>1 DEF CompactEnd
      <3> QED BY <3>1, <3>2
    <2>4. Directory'
      BY <1>13 DEF CompactEnd, Directory, Compacting, NothingUnlinked, writerVars
    <2> QED BY <1>q, <2>1, <2>2, <2>3, <2>4 DEF Writer
  <1> QED
    BY <1>1, <1>2, <1>3, <1>4, <1>5, <1>6, <1>7, <1>8, <1>9, <1>10, <1>11, <1>12, <1>13

-----------------------------------------------------------------------------
(* Steps that sync the current file and announce *)

(* A sync of the current file leaves no record waiting for one. *)
LEMMA SyncReachesAll ==
  ASSUME IInv, Shape, pc # "closed", Orderly,
         synced' = SyncedFile, live' = live, data' = data, history' = history
  PROVE  AllStable'
PROOF
  <1> USE DEF IInv
  <1> SUFFICES ASSUME NEW k \in 1..Len(history), ~IsCheckpoint(history[k])
               PROVE  \E i \in live : \E a \in 1..SyncedFile[i] : data[i][a] = history[k]
    BY DEF AllStable, OnStable
  <1>1. PICK i \in live : \E a \in 1..Len(data[i]) : data[i][a] = history[k]
    BY DEF Files, RecordsInFiles, InFiles, At
  <1>2. PICK a \in 1..Len(data[i]) : data[i][a] = history[k]
    BY <1>1
  <1>3. a <= synced[i] \/ \A j \in live : j <= i
    BY <1>2 DEF Files, UnsyncedInNewest
  <1>4. CASE a <= synced[i]
    <2>1. a \in 1..SyncedFile[i]
      <3>1. i \in Index /\ synced[i] \in Nat
        BY DEF Shape
      <3>2. synced[i] <= SyncedFile[i] /\ SyncedFile[i] \in Nat
        BY <3>1, SyncedMore
      <3> QED BY <3>1, <3>2, <1>4
    <2> QED BY <2>1, <1>2
  <1>5. CASE \A j \in live : j <= i
    <2>1. index \in live /\ (i > index => Len(data[i]) = 0)
      BY DEF Writer, WriterPlaced, Empty
    <2>2. Len(data[i]) # 0 /\ i \in Nat /\ index \in Nat
      BY DEF Shape
    <2>3. i = index
      BY <2>1, <2>2, <1>5
    <2>4. a \in 1..SyncedFile[i]
      BY <2>3, SyncedMore
    <2> QED BY <2>4, <1>2
  <1> QED
    BY <1>3, <1>4, <1>5

LEMMA AnnouncingSteps ==
  ASSUME IInv, TypeOK', Sync \/ SyncForced
  PROVE  IInv'
PROOF
  <1> USE DEF IInv
  <1>s. Shape /\ Shape'
    BY Shapes, NextShapes
  <1>1. /\ synced' = SyncedFile /\ live' = live /\ data' = data /\ history' = history
        /\ pc \in {"ready", "forced"} /\ pc' = "ready" /\ index' = index
        /\ segment_bytes' = segment_bytes /\ segment_has_record' = segment_has_record
        /\ next_rev' = next_rev /\ torn' = torn /\ linked' = linked /\ cut' = cut
    BY DEF Sync, SyncForced, writerVars
  <1>2. Quiet
    BY <1>1, <1>s, SyncedMore DEF Quiet
  <1>3. Orderly => AllStable'
    BY <1>1, <1>s, SyncReachesAll
  <1>4. ASSUME NEW e, At(e, index)
        PROVE  OnStable(e)'
    <2>1. PICK k \in 1..Len(data[index]) : data[index][k] = e
      BY <1>4 DEF At
    <2>2. index \in live /\ SyncedFile[index] = Len(data[index])
      BY <1>1, <1>s, SyncedMore DEF Writer, WriterPlaced
    <2> QED BY <2>1, <2>2, <1>1 DEF OnStable
  <1>5. ASSUME NEW e \in pending
        PROVE  Known(e) /\ Safe(e)'
    <2>1. Known(e)
      BY DEF Files, AllKnown
    <2>2. Safe(e) \/ At(e, index)
      BY DEF Writer, PendingSafe
    <2>3. Safe(e) => Safe(e)'
      BY <1>s, <1>2, QuietSafe
    <2> QED BY <2>1, <2>2, <2>3, <1>4 DEF Safe
  <1>6. pc = "forced" => Known(Last(history)) /\ Safe(Last(history))'
    <2> DEFINE e == history[Len(history)]
    <2> SUFFICES ASSUME pc = "forced" PROVE Known(e) /\ Safe(e)'
      BY <1>1 DEF Last, Safe, OnStable, InFiles, At, Subsumed
    <2>1. Len(history) \in 1..Len(history) /\ e = e' /\ Len(data[index]) \in 1..Len(data[index])
      BY <1>1, <1>s DEF Writer, Stages, Shape
    <2>2. Known(e)
      BY <2>1 DEF Known
    <2>3. At(e, index)
      BY <2>1 DEF At, Writer, Stages
    <2>4. \A g : At(g, index) => OnStable(g)'
      BY <1>4
    <2>5. OnStable(e)'
      BY <2>1, <2>3, <2>4 DEF OnStable
    <2> QED BY <2>2, <2>5 DEF Safe
  <1>7. \A e \in announced' : \/ e \in announced
                              \/ Known(e) /\ Safe(e)' /\ (Orderly => AllStable')
    <2>1. CASE Sync
      BY <2>1, <1>3, <1>5 DEF Sync
    <2>2. CASE SyncForced
      <3>1. announced' = announced \cup {Last(history)} /\ pc = "forced"
        BY <2>2 DEF SyncForced
      <3>2. Known(Last(history)) /\ Safe(Last(history))'
        BY <3>1, <1>6
      <3>3. ASSUME NEW g, g = Last(history)
            PROVE  Known(g) /\ Safe(g)'
        <4>1. Last(history)' = Last(history)
          BY <1>1 DEF Last
        <4> QED BY <3>2, <3>3, <4>1 DEF Known, Safe, OnStable, InFiles, At, Subsumed
      <3> QED BY <3>1, <3>3, <1>3
    <2> QED BY <2>1, <2>2
  <1>8. \A e \in pending' : e \in pending
    BY DEF Sync, SyncForced
  <1>9. Files'
    BY <1>s, <1>2, <1>7, <1>8, QuietFiles
  <1>10. WriterPlaced' /\ Stages'
    BY <1>1 DEF Writer, WriterPlaced, Stages, NextRevIs, Empty
  <1>11. PendingSafe'
    BY <1>1, <1>5, <1>8 DEF PendingSafe
  <1>12. Directory'
    BY <1>1 DEF Directory, Compacting, NothingUnlinked
  <1> QED
    BY <1>9, <1>10, <1>11, <1>12 DEF Writer

-----------------------------------------------------------------------------
(* Steps that create a file or write a record *)

Kept ==
  \A i \in live : Len(data[i]) # 0 =>
    /\ i \in live' /\ Len(data[i]) <= Len(data'[i]) /\ synced[i] <= synced'[i]
    /\ \A k \in 1..Len(data[i]) : data'[i][k] = data[i][k]

LEMMA KeptSafe ==
  ASSUME Shape, Shape', Kept, NEW e
  PROVE  /\ OnStable(e) => OnStable(e)'
         /\ InFiles(e) => InFiles(e)'
         /\ Safe(e) => Safe(e)'
PROOF
  <1>k. ASSUME NEW i \in live, NEW k \in 1..Len(data[i])
        PROVE  i \in live' /\ k \in 1..Len(data'[i]) /\ data'[i][k] = data[i][k]
    <2>1. Len(data[i]) # 0 /\ i \in Index /\ Len(data[i]) \in Nat
      BY DEF Shape
    <2>2. i \in live' /\ Len(data[i]) <= Len(data'[i]) /\ data'[i][k] = data[i][k]
      BY <2>1 DEF Kept
    <2>3. Len(data'[i]) \in Nat
      BY <2>1 DEF Shape
    <2> QED BY <2>1, <2>2, <2>3
  <1>1. ASSUME OnStable(e)
        PROVE  OnStable(e)'
    <2>1. PICK i \in live : \E k \in 1..synced[i] : data[i][k] = e
      BY <1>1 DEF OnStable
    <2>2. PICK k \in 1..synced[i] : data[i][k] = e
      BY <2>1
    <2>3. k \in 1..Len(data[i]) /\ Len(data[i]) # 0 /\ i \in Index /\ synced[i] \in Nat
      BY DEF Shape
    <2>4. i \in live' /\ synced[i] <= synced'[i] /\ data'[i][k] = e
      BY <2>2, <2>3 DEF Kept
    <2>5. k \in 1..synced'[i]
      BY <2>3, <2>4 DEF Shape
    <2> QED BY <2>4, <2>5 DEF OnStable
  <1>2. InFiles(e) => InFiles(e)'
    BY <1>k DEF InFiles, At
  <1>3. Subsumed(e) => Subsumed(e)'
    BY <1>k DEF Subsumed
  <1> QED
    BY <1>1, <1>2, <1>3 DEF Safe

LEMMA OpeningSteps ==
  ASSUME IInv, TypeOK', OpenFresh \/ OpenFreshFails
  PROVE  IInv'
PROOF
  <1> USE DEF IInv
  <1>s. Shape /\ Shape'
    BY Shapes, NextShapes
  <1>b. 0 \in Index
    BY BoundsAssumption DEF Index
  <1>1. live = {} /\ pc = "closed" /\ CreateFile(0, synced) /\ live' = {0}
    BY DEF OpenFresh, OpenFreshFails, CreateFile
  <1>2. Len(history) = 0 /\ history = <<>> /\ history' = <<>> /\ Len(history') = 0
    BY <1>1, <1>s DEF Files, HeadInFile, Shape, OpenFresh, OpenFreshFails
  <1>3. announced' = {} /\ pending' = {}
    <2>1. announced = {}
      BY <1>1 DEF Files, AnnouncedSafe, Safe, OnStable, InFiles, Subsumed
    <2> QED BY <2>1, <1>1 DEF OpenFresh, OpenFreshFails, Writer, PendingSafe
  <1>4. Len(data'[0]) = 0 /\ ~torn'[0]
    <2>1. synced \in [Index -> Nat]
      BY DEF TypeOK
    <2> QED BY <2>1, <1>1, <1>b, <1>s, FileCreated
  <1>5. \A i \in live' : Len(data'[i]) = 0 /\ i = 0
    BY <1>1, <1>4
  <1>6. Sorted' /\ AllKnown' /\ HeadInFile' /\ AnnouncedSafe' /\ Barrier' /\ RecordsInFiles'
    BY <1>2, <1>3, <1>5
       DEF Sorted, AllKnown, HeadInFile, AnnouncedSafe, Barrier, RecordsInFiles
  <1>7. InOrder' /\ UnsyncedInNewest'
    BY <1>5 DEF InOrder, UnsyncedInNewest
  <1>8. Directory'
    <2>1. cut = None /\ cut' = None
      BY <1>1 DEF Directory, Compacting, OpenFresh, OpenFreshFails
    <2>2. "compact" \notin Env => linked' \subseteq live'
      BY <1>1 DEF Directory, NothingUnlinked, OpenFresh, OpenFreshFails
    <2> QED BY <2>1, <2>2 DEF Directory, Compacting, NothingUnlinked
  <1>9. Writer'
    <2>1. CASE OpenFresh
      <3>1. index' = 0 /\ pc' = "ready"
        BY <2>1 DEF OpenFresh
      <3>2. RevHead = None
        BY <1>1 DEF RevHead, NonEmpty
      <3>3. next_rev' = 0
        BY <2>1, <3>2 DEF OpenFresh, None
      <3> QED BY <3>1, <3>3, <1>1, <1>2, <1>3, <1>4, <1>5
              DEF Writer, WriterPlaced, NextRevIs, Stages, PendingSafe
    <2>2. CASE OpenFreshFails
      BY <2>2, <1>1, <1>3 DEF OpenFreshFails, Writer, WriterPlaced, Stages, PendingSafe
    <2> QED BY <2>1, <2>2
  <1> QED
    BY <1>6, <1>7, <1>8, <1>9 DEF Files

LEMMA RollStep ==
  ASSUME IInv, TypeOK', NEW kind, Roll(kind)
  PROVE  IInv'
PROOF
  <1> USE DEF IInv
  <1>s. Shape /\ Shape'
    BY Shapes, NextShapes
  <1> DEFINE new == index + 1
  <1>1. /\ pc = "ready" /\ new \in Index /\ live' = live \cup {new}
        /\ CreateFile(new, SyncedFile) /\ pc' = "created" /\ linked' = linked /\ cut' = cut
        /\ pending' = pending /\ announced' = announced /\ history' = history
        /\ index' = index /\ segment_bytes' = segment_bytes
        /\ segment_has_record' = segment_has_record /\ next_rev' = next_rev
    BY DEF Roll, CreateFile, writerVars
  <1>2. /\ Len(data'[new]) = 0 /\ ~torn'[new]
        /\ \A j \in Index \ {new} : /\ data'[j] = data[j] /\ torn'[j] = torn[j]
                                     /\ synced'[j] = SyncedFile[j]
    <2>1. SyncedFile \in [Index -> Nat]
      BY <1>s, SyncedMore
    <2> HIDE DEF new
    <2> QED BY <2>1, <1>1, <1>s, FileCreated
  <1>3. /\ index \in live /\ index \in Nat /\ index \in Index /\ index # new
        /\ \A i \in live : i \in Index /\ i \in Nat /\ i <= new /\ (i > index => Len(data[i]) = 0)
    BY <1>1, <1>s DEF Writer, WriterPlaced, Empty, Shape
  <1>4. \A i \in live : Len(data[i]) # 0 => i # new /\ i <= index
    BY <1>3
  <1>5. /\ SyncedFile[index] = Len(data[index])
        /\ \A i \in Index : synced[i] <= SyncedFile[i]
    BY <1>s, SyncedMore
  <1> HIDE DEF new
  <1>6. Kept
    BY <1>1, <1>2, <1>3, <1>4, <1>5, <1>s DEF Kept, Shape
  <1>7. ASSUME NEW i \in live', NEW k \in 1..Len(data'[i])
        PROVE  /\ i \in live /\ i # new /\ i <= index /\ data'[i] = data[i]
               /\ k \in 1..Len(data[i])
    <2>1. i # new
      BY <1>2
    <2>2. i \in live /\ i \in Index
      BY <2>1, <1>1, <1>3
    <2>3. data'[i] = data[i]
      BY <2>1, <2>2, <1>2
    <2>4. Len(data[i]) # 0
      BY <2>2, <2>3, <1>s DEF Shape
    <2> QED BY <2>1, <2>2, <2>3, <2>4, <1>4
  <1>8. Sorted'
    BY <1>1 DEF Files, Sorted
  <1>9. AllKnown'
    BY <1>1, <1>7 DEF Files, AllKnown, Known
  <1>10. InOrder'
    <2> SUFFICES ASSUME NEW i \in live', NEW j \in live',
                        NEW a \in 1..Len(data'[i]), NEW b \in 1..Len(data'[j]),
                        i < j \/ (i = j /\ a < b)
                 PROVE  data'[i][a].rev < data'[j][b].rev
      BY DEF InOrder
    <2>1. i \in live /\ data'[i] = data[i] /\ a \in 1..Len(data[i])
      BY <1>7
    <2>2. j \in live /\ data'[j] = data[j] /\ b \in 1..Len(data[j])
      BY <1>7
    <2> QED BY <2>1, <2>2 DEF Files, InOrder
  <1>11. HeadInFile'
    BY <1>1, <1>2, <1>3, <1>4 DEF Files, HeadInFile
  <1>12. AnnouncedSafe'
    BY <1>1, <1>6, <1>s, KeptSafe DEF Files, AnnouncedSafe
  <1>13. ASSUME NEW k \in 1..Len(history)
         PROVE  /\ InFiles(history[k]) => InFiles(history[k])'
                /\ OnStable(history[k]) => OnStable(history[k])'
    <2>1. \A g : (InFiles(g) => InFiles(g)') /\ (OnStable(g) => OnStable(g)')
      BY <1>6, <1>s, KeptSafe
    <2>2. PICK e : e = history[k] /\ e = history'[k]
      BY <1>1
    <2>3. (InFiles(e) => InFiles(e)') /\ (OnStable(e) => OnStable(e)')
      BY ONLY <2>1
    <2>4. (InFiles(e) = InFiles(history[k])) /\ (OnStable(e) = OnStable(history[k]))
      BY ONLY <2>2
    <2>5. InFiles(e)' = InFiles(history[k])'
      BY ONLY <2>2 DEF InFiles, At
    <2>6. OnStable(e)' = OnStable(history[k])'
      BY ONLY <2>2 DEF OnStable, At
    <2> QED BY ONLY <2>3, <2>4, <2>5, <2>6
  <1>14. RecordsInFiles' /\ Barrier'
    BY <1>1, <1>13 DEF Files, RecordsInFiles, Barrier, IsCheckpoint
  <1>15. UnsyncedInNewest'
    <2> SUFFICES ASSUME Orderly, NEW i \in live', NEW k \in 1..Len(data'[i]),
                        ~IsCheckpoint(data'[i][k])
                 PROVE  k <= synced'[i]
      BY DEF UnsyncedInNewest, IsCheckpoint
    <2>1. i \in live /\ i # new /\ i <= index /\ data'[i] = data[i] /\ k \in 1..Len(data[i])
      BY <1>7
    <2>2. synced'[i] = SyncedFile[i] /\ synced[i] <= SyncedFile[i]
      BY <2>1, <1>2, <1>3, <1>5
    <2>3. CASE i = index
      BY <2>1, <2>2, <2>3, <1>5
    <2>4. CASE i # index
      <3>1. k <= synced[i]
        BY <2>1, <2>4, <1>3 DEF Files, UnsyncedInNewest
      <3>2. i \in Index /\ synced[i] \in Nat /\ synced'[i] \in Nat
        BY <2>1, <1>s DEF Shape
      <3> QED BY <3>1, <3>2, <2>2
    <2> QED BY <2>3, <2>4
  <1>16. WriterPlaced' /\ Stages'
    <2>1. index' \in live' /\ ~torn'[index']
      BY <1>1, <1>2, <1>3 DEF Writer, WriterPlaced
    <2>2. \A i \in live' : i <= index' + 1 /\ (i > index' => Len(data'[i]) = 0)
      BY <1>1, <1>2, <1>3 DEF new
    <2>3. NextRevIs'
      BY <1>1 DEF Writer, WriterPlaced, NextRevIs
    <2>4. index' + 1 \in live' /\ ~torn'[index' + 1]
      BY <1>1, <1>2 DEF new
    <2> QED BY <2>1, <2>2, <2>3, <2>4, <1>1 DEF WriterPlaced, Empty, Stages
  <1>17. PendingSafe'
    <2>1. ASSUME NEW e \in pending
          PROVE  Safe(e)'
      <3>1. Safe(e) \/ At(e, index)
        BY DEF Writer, PendingSafe
      <3>2. CASE Safe(e)
        BY <3>2, <1>6, <1>s, KeptSafe
      <3>3. CASE At(e, index)
        <4>1. PICK k \in 1..Len(data[index]) : data[index][k] = e
          BY <3>3 DEF At
        <4>2. k \in 1..synced'[index] /\ data'[index][k] = e /\ index \in live'
          BY <4>1, <1>1, <1>2, <1>3, <1>5
        <4> QED BY <4>2 DEF Safe, OnStable
      <3> QED BY <3>1, <3>2, <3>3
    <2> QED BY <2>1, <1>1 DEF PendingSafe
  <1>18. Directory'
    <2>1. ASSUME cut # None
          PROVE  /\ "compact" \in Env /\ cut \in live'
                 /\ Len(data'[cut]) # 0 /\ IsCheckpoint(data'[cut][1])
      <3>1. "compact" \in Env /\ cut \in live /\ Len(data[cut]) # 0 /\ IsCheckpoint(data[cut][1])
        BY <2>1 DEF Directory, Compacting
      <3>2. data'[cut] = data[cut]
        BY <3>1, <1>2, <1>3, <1>4
      <3> QED BY <3>1, <3>2, <1>1
    <2>2. Compacting'
      BY <2>1, <1>1 DEF Compacting, IsCheckpoint
    <2>3. NothingUnlinked'
      BY <1>1 DEF Directory, NothingUnlinked
    <2> QED BY <2>2, <2>3 DEF Directory
  <1> QED
    BY <1>8, <1>9, <1>10, <1>11, <1>12, <1>14, <1>15, <1>16, <1>17, <1>18 DEF Files, Writer

(* write_record behind a whole file: the entry has a rev above all others  *)
(* and waits for its sync in the newest file, unless it is a checkpoint.   *)
LEMMA WriteStep ==
  ASSUME IInv, TypeOK', NEW kind, NEW is_record, WriteRecord(kind, is_record),
         pc # "closed", pc # "created", pc' # "closed", pc' # "created",
         cut' = cut, announced' = announced,
         \A e \in pending' : e \in pending \/ e = Entry(next_rev, kind),
         \/ "dirsync_error" \in Env \/ IsCheckpoint(Entry(next_rev, kind))
         \/ \A j \in live : j <= index
  PROVE  Files' /\ WriterPlaced' /\ PendingSafe' /\ Directory'
PROOF
  <1> USE DEF IInv
  <1>s. Shape /\ Shape'
    BY Shapes, NextShapes
  <1>0. PICK entry : entry = Entry(next_rev, kind)
    OBVIOUS
  <1> DEFINE last == Len(data[index]) + 1
  <1>t. ~torn[index]
    BY DEF Writer, WriterPlaced
  <1>1. /\ \A i \in Index \ {index} : data'[i] = data[i]
        /\ Len(data'[index]) = last
        /\ \A k \in 1..Len(data[index]) : data'[index][k] = data[index][k]
        /\ data'[index][last] = entry
        /\ Len(history') = Len(history) + 1
        /\ \A k \in 1..Len(history) : history'[k] = history[k]
        /\ history'[Len(history) + 1] = entry
        /\ entry.rev = next_rev
    BY <1>0, <1>s, <1>t, FileWritten
  <1>2. /\ live' = live /\ synced' = synced /\ torn' = torn /\ linked' = linked /\ index' = index
        /\ next_rev' = next_rev + 1
    BY DEF WriteRecord
  <1>c. /\ "dirsync_error" \in Env \/ IsCheckpoint(entry) \/ \A j \in live : j <= index
        /\ \A e \in pending' : e \in pending \/ e = entry
    BY <1>0
  <1>3. /\ index \in live /\ index \in Nat /\ index \in Index /\ NextRevIs
        /\ \A i \in live : i \in Index /\ i \in Nat /\ i <= index + 1 /\ (i > index => Len(data[i]) = 0)
    BY <1>s DEF Writer, WriterPlaced, Empty, Shape
  <1>4. /\ Len(history) \in Nat /\ Len(data[index]) \in Nat /\ last \in Nat /\ last \in 1..last
        /\ Len(history') \in Nat
    <2>1. Len(history) \in Nat /\ Len(data[index]) \in Nat
      BY ONLY <1>s, <1>3 DEF Shape
    <2> QED BY ONLY <2>1, <1>1
  <1> HIDE DEF last
  <1>5. \A k \in 1..Len(history) : history[k].rev < next_rev /\ history[k].rev \in Nat
    <2> SUFFICES ASSUME NEW k \in 1..Len(history)
                 PROVE  history[k].rev < next_rev /\ history[k].rev \in Nat
      OBVIOUS
    <2>1. Len(history) \in 1..Len(history) /\ history # <<>>
      BY <1>4, <1>s DEF Shape
    <2>2. next_rev = history[Len(history)].rev + 1
      BY <2>1, <1>3 DEF NextRevIs
    <2>3. history[k].rev \in Nat /\ history[Len(history)].rev \in Nat
      BY <2>1, <1>s DEF Shape
    <2>4. k = Len(history) \/ history[k].rev < history[Len(history)].rev
      BY <2>1, <1>4 DEF Files, Sorted
    <2> QED BY <2>2, <2>3, <2>4
  <1>6. ASSUME NEW k \in 1..Len(history')
        PROVE  \/ k = Len(history) + 1 /\ history'[k] = entry
               \/ k \in 1..Len(history) /\ history'[k] = history[k]
    <2>1. k = Len(history) + 1 \/ k \in 1..Len(history)
      BY <1>1, <1>4
    <2> QED BY <2>1, <1>1
  <1>7. ASSUME NEW i \in live, NEW k \in 1..Len(data'[i])
        PROVE  \/ i = index /\ k = last /\ data'[i][k] = entry
               \/ k \in 1..Len(data[i]) /\ data'[i][k] = data[i][k] /\ ~(i = index /\ k = last)
    <2>1. CASE i = index
      BY <2>1, <1>1, <1>4 DEF last
    <2>2. CASE i # index
      BY <2>2, <1>1, <1>3
    <2> QED BY <2>1, <2>2
  <1>8. ASSUME NEW e, Known(e)
        PROVE  Known(e)' /\ e.rev < next_rev
    <2>1. PICK k \in 1..Len(history) : history[k] = e
      BY <1>8 DEF Known
    <2>2. k \in 1..Len(history') /\ history'[k] = e
      BY <2>1, <1>1, <1>4
    <2> QED BY <2>1, <2>2, <1>5 DEF Known
  <1>9. Known(entry)'
    <2>1. Len(history) + 1 \in 1..Len(history')
      BY <1>1, <1>4
    <2>2. \E k \in 1..Len(history') : history'[k] = entry
      BY <2>1, <1>1
    <2> QED BY <2>2 DEF Known
  <1>10. Kept
    <2>1. \A i \in live : Len(data[i]) <= Len(data'[i]) /\ synced[i] <= synced'[i]
      <3> SUFFICES ASSUME NEW i \in live
                   PROVE  Len(data[i]) <= Len(data'[i]) /\ synced[i] <= synced'[i]
        OBVIOUS
      <3>1. Len(data[i]) \in Nat /\ synced[i] \in Nat /\ synced'[i] = synced[i] /\ i \in Index
        BY <1>2, <1>3, <1>s DEF Shape
      <3>2. CASE i = index
        BY <3>1, <3>2, <1>1, <1>4 DEF last
      <3>3. CASE i # index
        BY <3>1, <3>3, <1>1
      <3> QED BY <3>2, <3>3
    <2> QED BY <2>1, <1>1, <1>2, <1>3 DEF Kept
  <1>11. Sorted'
    <2> SUFFICES ASSUME NEW a \in 1..Len(history'), NEW b \in 1..Len(history'), a < b
                 PROVE  history'[a].rev < history'[b].rev
      BY DEF Sorted
    <2>1. a \in 1..Len(history) /\ history'[a] = history[a]
      BY <1>1, <1>4, <1>6
    <2>2. CASE b = Len(history) + 1 /\ history'[b] = entry
      BY <2>1, <2>2, <1>1, <1>5
    <2>3. CASE b \in 1..Len(history) /\ history'[b] = history[b]
      BY <2>1, <2>3 DEF Files, Sorted
    <2> QED BY <2>2, <2>3, <1>6
  <1>12. AllKnown'
    <2>1. ASSUME NEW i \in live, NEW k \in 1..Len(data'[i])
          PROVE  Known(data[i][k])'
      <3>1. ASSUME NEW g, g = data'[i][k]
            PROVE  Known(g)'
        <4>1. CASE g = entry
          BY <4>1, <1>9
        <4>2. CASE k \in 1..Len(data[i]) /\ g = data[i][k]
          BY <4>2, <1>8 DEF Files, AllKnown
        <4> QED BY <3>1, <4>1, <4>2, <1>7
      <3> QED BY <3>1 DEF Known
    <2>2. ASSUME NEW e \in pending' \cup announced'
          PROVE  Known(e)'
      <3>1. e \in pending \cup announced \/ e = entry
        BY <1>c
      <3> QED BY <3>1, <1>8, <1>9 DEF Files, AllKnown
    <2> QED BY <2>1, <2>2, <1>2 DEF AllKnown
  <1>13. InOrder'
    <2> SUFFICES ASSUME NEW i \in live, NEW j \in live,
                        NEW a \in 1..Len(data'[i]), NEW b \in 1..Len(data'[j]),
                        i < j \/ (i = j /\ a < b)
                 PROVE  data'[i][a].rev < data'[j][b].rev
      BY <1>2 DEF InOrder
    <2>1. ~(i = index /\ a = last)
      <3> SUFFICES ASSUME i = index, a = last PROVE FALSE
        OBVIOUS
      <3>1. CASE i < j
        BY <3>1, <1>1, <1>3
      <3>2. CASE i = j /\ a < b
        BY <3>2, <1>1, <1>4
      <3> QED BY <3>1, <3>2
    <2>2. a \in 1..Len(data[i]) /\ data'[i][a] = data[i][a]
      BY <2>1, <1>7
    <2>3. data[i][a].rev < next_rev
      BY <2>2, <1>8 DEF Files, AllKnown
    <2>4. CASE data'[j][b] = entry
      BY <2>2, <2>3, <2>4, <1>1
    <2>5. CASE b \in 1..Len(data[j]) /\ data'[j][b] = data[j][b]
      BY <2>2, <2>5 DEF Files, InOrder
    <2> QED BY <2>4, <2>5, <1>7
  <1>14. HeadInFile'
    <2>1. index \in live' /\ Len(data'[index]) # 0
      BY <1>1, <1>2, <1>3, <1>4
    <2>2. data'[index][Len(data'[index])] = history'[Len(history')]
      BY <1>1
    <2> QED BY <2>1, <2>2 DEF HeadInFile
  <1>15. AnnouncedSafe'
    BY <1>10, <1>s, KeptSafe DEF Files, AnnouncedSafe
  <1>16. At(entry, index)' /\ InFiles(entry)'
    <2>1. last \in 1..Len(data'[index])
      BY <1>1, <1>4
    <2>2. \E k \in 1..Len(data'[index']) : data'[index'][k] = entry
      BY <2>1, <1>1, <1>2
    <2> QED BY <2>2, <1>2, <1>3 DEF At, InFiles
  <1>17. RecordsInFiles'
    <2> SUFFICES ASSUME Orderly, NEW k \in 1..Len(history')
                 PROVE  (IsCheckpoint(history[k]) \/ InFiles(history[k]))'
      BY DEF RecordsInFiles
    <2>1. ASSUME NEW g, g = history'[k]
          PROVE  IsCheckpoint(g) \/ InFiles(g)'
      <3>1. CASE g = entry
        BY <3>1, <1>16
      <3>2. CASE k \in 1..Len(history) /\ g = history[k]
        <4>1. IsCheckpoint(g) \/ InFiles(g)
          BY <3>2 DEF Files, RecordsInFiles
        <4> QED BY <4>1, <1>10, <1>s, KeptSafe
      <3> QED BY <2>1, <3>1, <3>2, <1>6
    <2> QED BY <2>1 DEF IsCheckpoint, InFiles, At
  <1>18. UnsyncedInNewest'
    <2> SUFFICES ASSUME Orderly, NEW i \in live, NEW k \in 1..Len(data'[i]),
                        ~IsCheckpoint(data'[i][k])
                 PROVE  k <= synced[i] \/ \A j \in live : j <= i
      BY <1>2 DEF UnsyncedInNewest, IsCheckpoint
    <2>1. CASE i = index /\ data'[i][k] = entry
      BY <2>1, <1>c DEF Orderly
    <2>2. CASE k \in 1..Len(data[i]) /\ data'[i][k] = data[i][k]
      BY <2>2 DEF Files, UnsyncedInNewest
    <2> QED BY <2>1, <2>2, <1>7
  <1>19. Barrier'
    <2> SUFFICES ASSUME Orderly, NEW e \in announced, NEW k \in 1..Len(history'),
                        history'[k].rev <= e.rev
                 PROVE  (IsCheckpoint(history[k]) \/ OnStable(history[k]))'
      BY DEF Barrier
    <2>1. PICK m \in 1..Len(history) : history[m] = e
      BY DEF Files, AllKnown, Known
    <2>2. e.rev < next_rev /\ e.rev \in Nat /\ next_rev \in Nat
      BY <2>1, <1>5, <1>s DEF Shape
    <2>3. k \in 1..Len(history) /\ history'[k] = history[k]
      BY <2>2, <1>1, <1>6
    <2>4. ASSUME NEW g, g = history[k]
          PROVE  IsCheckpoint(g) \/ OnStable(g)'
      <3>1. IsCheckpoint(g) \/ OnStable(g)
        BY <2>3, <2>4 DEF Files, Barrier
      <3> QED BY <3>1, <1>10, <1>s, KeptSafe
    <2> QED BY <2>3, <2>4 DEF IsCheckpoint, OnStable
  <1>20. WriterPlaced'
    <2>1. ASSUME NEW i \in live
          PROVE  i <= index + 1 /\ (i > index => Len(data'[i]) = 0)
      <3>1. i \in Index /\ i <= index + 1 /\ (i > index => Len(data[i]) = 0 /\ i # index)
        BY ONLY <1>3, i \in live
      <3>2. i # index => data'[i] = data[i]
        BY ONLY <3>1, <1>1
      <3> QED BY ONLY <3>1, <3>2
    <2>2. NextRevIs'
      <3>1. history' # <<>>
        BY <1>1, <1>4, <1>s DEF Shape
      <3> QED BY <3>1, <1>1, <1>2 DEF NextRevIs
    <2> QED BY <2>1, <2>2, <1>2, <1>3, <1>t DEF WriterPlaced, Empty
  <1>21. PendingSafe'
    <2>1. ASSUME NEW e \in pending'
          PROVE  Safe(e)' \/ At(e, index)'
      <3>1. e = entry \/ Safe(e) \/ At(e, index)
        BY <1>c DEF Writer, PendingSafe
      <3>2. CASE At(e, index)
        <4>1. PICK k \in 1..Len(data[index]) : data[index][k] = e
          BY <3>2 DEF At
        <4>2. k \in 1..Len(data'[index']) /\ data'[index'][k] = e
          BY <4>1, <1>1, <1>2, <1>4 DEF last
        <4> QED BY <4>2 DEF At
      <3>3. CASE Safe(e)
        BY <3>3, <1>10, <1>s, KeptSafe
      <3> QED BY <3>1, <3>2, <3>3, <1>16
    <2> QED BY <2>1 DEF PendingSafe
  <1>22. Directory'
    <2>1. ASSUME cut # None
          PROVE  /\ "compact" \in Env /\ cut \in live'
                 /\ Len(data'[cut]) # 0 /\ IsCheckpoint(data'[cut][1])
      <3>1. "compact" \in Env /\ cut \in live /\ Len(data[cut]) # 0 /\ IsCheckpoint(data[cut][1])
        BY <2>1 DEF Directory, Compacting
      <3>2. 1 \in 1..Len(data[cut])
        BY <3>1, <1>s DEF Shape
      <3>3. Len(data'[cut]) # 0 /\ data'[cut][1] = data[cut][1]
        <4>1. CASE cut = index
          <5>1. 1 \in 1..Len(data[index]) /\ last # 0
            BY ONLY <4>1, <3>2, <1>4 DEF last
          <5> QED BY ONLY <4>1, <5>1, <1>1
        <4>2. CASE cut # index
          BY ONLY <4>2, <3>1, <1>1, <1>3
        <4> QED BY <4>1, <4>2
      <3> QED BY <3>1, <3>3, <1>2
    <2>2. Compacting'
      BY <2>1 DEF Compacting, IsCheckpoint
    <2>3. NothingUnlinked'
      BY <1>2 DEF Directory, NothingUnlinked
    <2> QED BY <2>2, <2>3 DEF Directory
  <1> QED
    BY <1>11, <1>12, <1>13, <1>14, <1>15, <1>17, <1>18, <1>19, <1>20, <1>21, <1>22 DEF Files

LEMMA WritingSteps ==
  ASSUME IInv, TypeOK',
         \/ \E kind \in Kinds : AppendBuffered(kind)
         \/ AppendAfterRoll \/ StampCheckpoint \/ ForceCheckpoint
  PROVE  IInv'
PROOF
  <1> USE DEF IInv
  <1>s. Shape /\ Shape'
    BY Shapes, NextShapes
  <1>1. ASSUME NEW kind \in Kinds, AppendBuffered(kind)
        PROVE  IInv'
    <2>1. /\ WriteRecord(kind, TRUE) /\ cut' = cut /\ announced' = announced
          /\ pc \notin {"closed", "created"} /\ pc' \notin {"closed", "created"}
          /\ \A e \in pending' : e \in pending \/ e = Entry(next_rev, kind)
      BY <1>1 DEF AppendBuffered
    <2>2. "dirsync_error" \in Env \/ \A j \in live : j <= index
      BY <1>1 DEF AppendBuffered, Writer, Stages
    <2>3. Files' /\ WriterPlaced' /\ PendingSafe' /\ Directory'
      BY <2>1, <2>2, WriteStep
    <2>4. Stages'
      <3>1. live' = live /\ index' = index
        BY <2>1 DEF WriteRecord
      <3>2. "dirsync_error" \in Env \/ \A i \in live' : i <= index'
        BY <2>2, <3>1
      <3> QED BY <3>2, <1>1 DEF AppendBuffered, Stages
    <2> QED BY <2>3, <2>4 DEF Writer
  <1>2. CASE AppendAfterRoll
    <2>1. /\ WriteRecord(job, TRUE) /\ cut' = cut /\ announced' = announced
          /\ pc \notin {"closed", "created"} /\ pc' \notin {"closed", "created"}
          /\ \A e \in pending' : e \in pending \/ e = Entry(next_rev, job)
      BY <1>2 DEF AppendAfterRoll
    <2>2. \A j \in live : j <= index
      BY <1>2 DEF AppendAfterRoll, Writer, Stages
    <2>3. Files' /\ WriterPlaced' /\ PendingSafe' /\ Directory'
      BY <2>1, <2>2, WriteStep
    <2>4. Stages'
      <3>1. live' = live /\ index' = index
        BY <2>1 DEF WriteRecord
      <3>2. \A i \in live' : i <= index'
        BY <2>2, <3>1, <1>2 DEF AppendAfterRoll, Writer, Stages
      <3> QED BY <3>2, <1>2 DEF AppendAfterRoll, Stages
    <2> QED BY <2>3, <2>4 DEF Writer
  <1>3. CASE StampCheckpoint
    <2>1. /\ WriteRecord(CheckpointKind(state), FALSE) /\ cut' = cut /\ announced' = announced
          /\ pc \notin {"closed", "created"} /\ pc' \notin {"closed", "created"}
          /\ \A e \in pending' : e \in pending \/ e = Entry(next_rev, CheckpointKind(state))
      BY <1>3 DEF StampCheckpoint
    <2>2. IsCheckpoint(Entry(next_rev, CheckpointKind(state)))
      BY DEF IsCheckpoint, Entry, CheckpointKind
    <2>3. Files' /\ WriterPlaced' /\ PendingSafe' /\ Directory'
      BY <2>1, <2>2, WriteStep
    <2>4. Stages'
      <3>1. live' = live /\ index' = index
        BY <2>1 DEF WriteRecord
      <3>2. \A i \in live' : i <= index'
        BY <3>1, <1>3 DEF StampCheckpoint, Writer, Stages
      <3> QED BY <3>2, <1>3 DEF StampCheckpoint, Stages
    <2> QED BY <2>3, <2>4 DEF Writer
  <1>4. CASE ForceCheckpoint
    <2>1. /\ WriteRecord(CheckpointKind(state), FALSE) /\ cut' = cut /\ announced' = announced
          /\ pc \notin {"closed", "created"} /\ pc' \notin {"closed", "created"}
          /\ \A e \in pending' : e \in pending \/ e = Entry(next_rev, CheckpointKind(state))
      BY <1>4 DEF ForceCheckpoint
    <2>2. IsCheckpoint(Entry(next_rev, CheckpointKind(state)))
      BY DEF IsCheckpoint, Entry, CheckpointKind
    <2>3. Files' /\ WriterPlaced' /\ PendingSafe' /\ Directory'
      BY <2>1, <2>2, WriteStep
    <2>4. Stages'
      <3>1. live' = live /\ index' = index
        BY <2>1 DEF WriteRecord
      <3>3. "dirsync_error" \in Env \/ \A i \in live' : i <= index'
        BY <3>1, <1>4 DEF ForceCheckpoint, Writer, Stages
      <3>4. /\ history' # <<>> /\ Len(data'[index']) # 0
            /\ data'[index'][Len(data'[index'])] = history'[Len(history')]
        <4>1. ~torn[index]
          BY <2>1 DEF Writer, WriterPlaced
        <4>2. /\ Len(data'[index]) = Len(data[index]) + 1
              /\ data'[index][Len(data[index]) + 1] = Entry(next_rev, CheckpointKind(state))
              /\ Len(history') = Len(history) + 1
              /\ history'[Len(history) + 1] = Entry(next_rev, CheckpointKind(state))
          BY <2>1, <4>1, <1>s, FileWritten
        <4> QED BY <4>2, <3>1, <1>s DEF Shape
      <3> QED BY <3>3, <3>4, <1>4 DEF ForceCheckpoint, Stages
    <2> QED BY <2>3, <2>4 DEF Writer
  <1> QED
    BY <1>1, <1>2, <1>3, <1>4

-----------------------------------------------------------------------------
(* The steps that lose something: a compaction and a power loss *)

(* The file compact() removes is older than the checkpoint it keeps. *)
LEMMA CompactStep ==
  ASSUME IInv, TypeOK', CompactRemove
  PROVE  IInv'
PROOF
  <1> USE DEF IInv
  <1>s. Shape /\ Shape'
    BY Shapes, NextShapes
  <1>0. PICK m : m = Min(live)
    OBVIOUS
  <1>1. /\ cut # None /\ m < cut /\ live' = live \ {m} /\ cut' = cut /\ pc' = pc
        /\ data' = data /\ synced' = synced /\ torn' = torn /\ linked' = linked /\ index' = index
        /\ history' = history /\ announced' = announced /\ pending' = pending
        /\ next_rev' = next_rev /\ segment_bytes' = segment_bytes
        /\ segment_has_record' = segment_has_record
    BY <1>0 DEF CompactRemove, writerVars
  <1>2. "compact" \in Env /\ cut \in live /\ Len(data[cut]) # 0 /\ IsCheckpoint(data[cut][1])
    BY <1>1 DEF Directory, Compacting
  <1>3. m \in live
    <2>1. live \subseteq Nat /\ live # {}
      BY <1>2, <1>s DEF Shape
    <2> QED BY <2>1, <1>0, LeastNumber
  <1>4. m \in Nat /\ cut \in Nat /\ cut # m /\ cut \in live' /\ 1 \in 1..Len(data[cut])
    BY <1>1, <1>2, <1>3, <1>s DEF Shape
  <1>c. PICK c : c = data[cut][1]
    OBVIOUS
  <1>5. ASSUME NEW k \in 1..Len(data[m])
        PROVE  data[m][k].rev < c.rev /\ data[m][k].rev \in Nat /\ c.rev \in Nat
    BY <1>1, <1>2, <1>3, <1>4, <1>c, <1>s DEF Files, InOrder, Shape
  <1>6. ASSUME NEW e, e.rev < c.rev
        PROVE  Safe(e)'
    <2>1. Subsumed(e)'
      BY <1>6, <1>1, <1>2, <1>4, <1>c DEF Subsumed
    <2> QED BY <2>1, <1>2 DEF Safe
  <1>7. ASSUME NEW e, e.rev \in Nat, Safe(e)
        PROVE  Safe(e)'
    <2>1. CASE OnStable(e) \/ InFiles(e)
      <3>1. PICK i \in live : \E k \in 1..Len(data[i]) : data[i][k] = e
        BY <2>1, <1>s DEF OnStable, InFiles, At, Shape
      <3>2. CASE i = m
        BY <3>1, <3>2, <1>5, <1>6
      <3>3. CASE i # m
        <4>1. InFiles(e)'
          BY <3>1, <3>3, <1>1 DEF InFiles, At
        <4> QED BY <4>1, <1>2 DEF Safe
      <3> QED BY <3>2, <3>3
    <2>2. CASE Subsumed(e)
      <3>1. PICK i \in live : \E k \in 1..Len(data[i]) :
              IsCheckpoint(data[i][k]) /\ data[i][k].rev > e.rev
        BY <2>2 DEF Subsumed
      <3>2. CASE i = m
        BY <3>1, <3>2, <1>5, <1>6, <1>7
      <3>3. CASE i # m
        <4>1. Subsumed(e)'
          BY <3>1, <3>3, <1>1 DEF Subsumed
        <4> QED BY <4>1, <1>2 DEF Safe
      <3> QED BY <3>2, <3>3
    <2> QED BY <1>7, <2>1, <2>2 DEF Safe
  <1>8. \A e \in pending \cup announced : e.rev \in Nat
    BY <1>s DEF Files, AllKnown, Known, Shape
  <1>9. Sorted' /\ AllKnown' /\ InOrder'
    BY <1>1 DEF Files, Sorted, AllKnown, Known, InOrder
  <1>10. HeadInFile'
    <2> SUFFICES ASSUME history # <<>>
                 PROVE  \E i \in live' : /\ Len(data[i]) # 0
                                         /\ data[i][Len(data[i])] = history[Len(history)]
      BY <1>1 DEF HeadInFile
    <2>1. PICK i \in live : Len(data[i]) # 0 /\ data[i][Len(data[i])] = history[Len(history)]
      BY DEF Files, HeadInFile
    <2>2. Len(history) \in 1..Len(history) /\ Len(data[i]) \in 1..Len(data[i])
      BY <2>1, <1>s DEF Shape
    <2>3. PICK k \in 1..Len(history) : history[k] = c
      BY <1>2, <1>4, <1>c DEF Files, AllKnown, Known
    <2>4. k = Len(history) \/ history[k].rev < history[Len(history)].rev
      BY <2>2 DEF Files, Sorted
    <2>5. i # m
      <3> SUFFICES ASSUME i = m PROVE FALSE
        OBVIOUS
      <3>1. history[Len(history)].rev < c.rev /\ history[Len(history)].rev \in Nat /\ c.rev \in Nat
        BY <2>1, <2>2, <1>5
      <3> QED BY <3>1, <2>3, <2>4
    <2> QED BY <2>1, <2>5, <1>1
  <1>11. AnnouncedSafe'
    BY <1>1, <1>7, <1>8 DEF Files, AnnouncedSafe
  <1>12. RecordsInFiles' /\ UnsyncedInNewest' /\ Barrier'
    BY <1>2 DEF Orderly, RecordsInFiles, UnsyncedInNewest, Barrier
  <1>13. pc # "closed" => m < index
    <2> SUFFICES ASSUME pc # "closed" PROVE m < index
      OBVIOUS
    <2>1. ~(cut > index)
      BY <1>2 DEF Writer, WriterPlaced, Empty
    <2> QED BY <2>1, <1>1, <1>4, <1>s DEF Shape
  <1>14. WriterPlaced'
    BY <1>1, <1>13, <1>s DEF Writer, WriterPlaced, NextRevIs, Empty, Shape
  <1>15. Stages'
    <2>1. pc = "created" => index + 1 \in live'
      BY <1>1, <1>4, <1>13, <1>s DEF Writer, Stages, Shape
    <2> QED BY <2>1, <1>1 DEF Writer, Stages
  <1>16. PendingSafe'
    BY <1>1, <1>7, <1>8 DEF Writer, PendingSafe, At
  <1>17. Directory'
    BY <1>1, <1>2, <1>4 DEF Directory, Compacting, NothingUnlinked
  <1> QED
    BY <1>9, <1>10, <1>11, <1>12, <1>14, <1>15, <1>16, <1>17 DEF Files, Writer

(* What a power loss takes was behind the last sync of its file: of the     *)
(* newest one, where appends are orderly.                                   *)
LEMMA PowerLossStep ==
  ASSUME Sane, IInv, TypeOK', PowerLoss
  PROVE  IInv'
PROOF
  <1> USE DEF IInv
  <1>s. Shape /\ Shape'
    BY Shapes, NextShapes
  <1>1. /\ "compact" \notin Env /\ live' = live /\ linked' = live
        /\ \A i \in live : /\ synced[i] <= synced'[i] /\ synced'[i] = Len(data'[i])
                           /\ Len(data'[i]) \in Nat /\ Len(data'[i]) <= Len(data[i])
                           /\ \A k \in 1..Len(data'[i]) : data'[i][k] = data[i][k]
    BY <1>s, FilesCut
  <1>2. /\ Len(history') <= Len(history)
        /\ \A k \in 1..Len(history') : history'[k] = history[k]
        /\ \A i \in live : \A a \in 1..Len(data'[i]) :
             \E k \in 1..Len(history') : history'[k] = data'[i][a]
        /\ Len(history') # 0 =>
             \E i \in live : /\ Len(data'[i]) # 0
                             /\ data'[i][Len(data'[i])] = history'[Len(history')]
    BY <1>s, HistoryCut
  <1>3. /\ announced' = announced /\ pending' = {} /\ pc' = "closed" /\ cut' = None
    BY DEF PowerLoss, ProcessDies
  <1>4. /\ Len(history) \in Nat /\ Len(history') \in Nat
        /\ \A k \in 1..Len(history') : k \in 1..Len(history)
        /\ \A i \in live : i \in Index /\ i \in Nat /\ Len(data[i]) \in Nat /\ synced[i] \in Nat
    BY <1>2, <1>s DEF Shape
  <1>5. ASSUME NEW i \in live, NEW k \in 1..Len(data'[i])
        PROVE  k \in 1..Len(data[i]) /\ data'[i][k] = data[i][k]
    BY <1>1, <1>4
  <1>6. ASSUME NEW e, OnStable(e)
        PROVE  OnStable(e)' /\ Known(e)'
    <2>1. PICK i \in live : \E k \in 1..synced[i] : data[i][k] = e
      BY <1>6 DEF OnStable
    <2>2. PICK k \in 1..synced[i] : data[i][k] = e
      BY <2>1
    <2>3. k \in 1..synced'[i] /\ k \in 1..Len(data'[i]) /\ data'[i][k] = e
      <3>1. /\ synced[i] \in Nat /\ synced[i] <= synced'[i] /\ synced'[i] = Len(data'[i])
            /\ Len(data'[i]) \in Nat
        BY <1>1, <1>4
      <3>2. k \in 1..synced'[i] /\ k \in 1..Len(data'[i])
        BY ONLY <3>1, k \in 1..synced[i]
      <3> QED BY <3>2, <2>2, <1>1
    <2> QED BY <2>3, <1>1, <1>2 DEF OnStable, Known
  <1>7. \A e \in announced : OnStable(e)
    BY <1>1 DEF Files, AnnouncedSafe, Safe
  <1>8. Sorted'
    BY <1>2, <1>4 DEF Files, Sorted
  <1>9. AllKnown'
    <2>1. \A i \in live' : \A k \in 1..Len(data'[i]) : Known(data[i][k])'
      BY <1>1, <1>2 DEF Known
    <2> QED BY <2>1, <1>3, <1>6, <1>7 DEF AllKnown
  <1>10. InOrder'
    <2> SUFFICES ASSUME NEW i \in live, NEW j \in live,
                        NEW a \in 1..Len(data'[i]), NEW b \in 1..Len(data'[j]),
                        i < j \/ (i = j /\ a < b)
                 PROVE  data'[i][a].rev < data'[j][b].rev
      BY <1>1 DEF InOrder
    <2>1. a \in 1..Len(data[i]) /\ data'[i][a] = data[i][a]
      BY <1>5
    <2>2. b \in 1..Len(data[j]) /\ data'[j][b] = data[j][b]
      BY <1>5
    <2> QED BY <2>1, <2>2 DEF Files, InOrder
  <1>11. HeadInFile'
    BY <1>1, <1>2, <1>s DEF HeadInFile, Shape
  <1>12. AnnouncedSafe'
    BY <1>3, <1>6, <1>7 DEF AnnouncedSafe, Safe
  <1>13. RecordsInFiles'
    <2> SUFFICES ASSUME Orderly, NEW k \in 1..Len(history'), ~IsCheckpoint(history[k])'
                 PROVE  InFiles(history[k])'
      BY DEF RecordsInFiles
    <2>0. ~IsCheckpoint(history[k])
      BY <1>2 DEF IsCheckpoint
    <2>1. k \in 1..Len(history) /\ history'[k] = history[k]
      BY <1>2, <1>4
    <2> SUFFICES \E i \in live : \E a \in 1..Len(data'[i]) : data'[i][a] = history[k]
      <3>1. live' = live
        BY <1>1
      <3>2. (\E i \in live' : \E a \in 1..Len(data'[i]) : data'[i][a] = history'[k]) => InFiles(history[k])'
        BY DEF InFiles, At
      <3> QED BY <2>1, <3>1, <3>2
    <2>2. PICK i \in live : \E a \in 1..Len(data[i]) : data[i][a] = history[k]
      BY <2>0, <2>1, <1>1 DEF Files, RecordsInFiles, InFiles, At
    <2>3. PICK a \in 1..Len(data[i]) : data[i][a] = history[k]
      BY <2>2
    <2>4. CASE a <= Len(data'[i])
      BY <2>3, <2>4, <1>1, <1>4
    <2>5. CASE ~(a <= Len(data'[i]))
      <3>1. ~(a <= synced[i])
        BY <2>5, <1>1, <1>4
      <3>2. \A j \in live : j <= i
        BY <3>1, <2>0, <2>3, <1>1 DEF Files, UnsyncedInNewest
      <3>3. PICK t \in live : /\ Len(data'[t]) # 0
                             /\ data'[t][Len(data'[t])] = history'[Len(history')]
        BY <1>2, <1>4
      <3>4. Len(data'[t]) \in 1..Len(data'[t])
        BY <3>3, <1>1
      <3>5. Len(data'[t]) \in 1..Len(data[t]) /\ data[t][Len(data'[t])] = history'[Len(history')]
        BY <3>3, <3>4, <1>5
      <3>6. t < i \/ (t = i /\ Len(data'[t]) < a)
        BY <3>2, <2>5, <1>1, <1>4
      <3>7. history'[Len(history')].rev < history'[k].rev
        BY <3>5, <3>6, <2>1, <2>3 DEF Files, InOrder
      <3>8. Len(history') \in 1..Len(history') /\ (k = Len(history') \/ k < Len(history'))
        BY <1>4
      <3>9. k = Len(history') \/ history'[k].rev < history'[Len(history')].rev
        BY <3>8, <1>8 DEF Sorted
      <3>10. history'[k].rev \in Nat /\ history'[Len(history')].rev \in Nat
        BY <3>8, <1>s DEF Shape
      <3> QED BY <3>7, <3>9, <3>10
    <2> QED BY <2>4, <2>5
  <1>14. UnsyncedInNewest'
    BY <1>1, <1>4 DEF UnsyncedInNewest
  <1>15. Barrier'
    <2> SUFFICES ASSUME Orderly, NEW e \in announced, NEW k \in 1..Len(history'),
                        history'[k].rev <= e.rev
                 PROVE  (IsCheckpoint(history[k]) \/ OnStable(history[k]))'
      BY <1>3 DEF Barrier
    <2>1. k \in 1..Len(history) /\ history'[k] = history[k]
      BY <1>2, <1>4
    <2>2. ASSUME NEW g, g = history[k]
          PROVE  IsCheckpoint(g) \/ OnStable(g)'
      <3>1. IsCheckpoint(g) \/ OnStable(g)
        BY <2>1, <2>2, <1>1 DEF Files, Barrier
      <3> QED BY <3>1, <1>6
    <2> QED BY <2>1, <2>2 DEF IsCheckpoint, OnStable
  <1>16. Writer' /\ Directory'
    BY <1>1, <1>3 DEF Writer, WriterPlaced, Stages, PendingSafe, Directory, Compacting, NothingUnlinked
  <1> QED
    BY <1>8, <1>9, <1>10, <1>11, <1>12, <1>13, <1>14, <1>15, <1>16 DEF Files

-----------------------------------------------------------------------------
(* The theorems *)

LEMMA InitIInv == Init => IInv
PROOF
  <1> SUFFICES ASSUME Init PROVE IInv
    OBVIOUS
  <1>b. 0 \in Index /\ Len(<<>>) = 0 /\ IsLog(<<>>)
    BY BoundsAssumption, LogEmpty DEF Index
  <1>1. TypeOK
    BY <1>b DEF Init, TypeOK
  <1>2. Files
    BY <1>b DEF Init, Files, Sorted, AllKnown, InOrder, HeadInFile, AnnouncedSafe, RecordsInFiles,
                UnsyncedInNewest, Barrier
  <1>3. Writer /\ Directory
    BY DEF Init, Writer, WriterPlaced, Stages, PendingSafe, Directory, Compacting, NothingUnlinked
  <1> QED
    BY <1>1, <1>2, <1>3 DEF IInv

LEMMA NextIInv ==
  ASSUME Sane, IInv, [Next]_vars
  PROVE  IInv'
PROOF
  <1>1. TypeOK'
    <2>1. CASE Next
      BY <2>1, TypeStep
    <2>2. CASE UNCHANGED vars
      BY <2>2 DEF IInv, TypeOK, vars, diskVars, writerVars
    <2> QED BY <2>1, <2>2
  <1>2. CASE UNCHANGED vars
    BY <1>1, <1>2, QuietSteps
  <1>3. CASE Next
    <2>1. ASSUME NEW kind \in Kinds, Roll(kind)
          PROVE  IInv'
      BY <2>1, <1>1, RollStep
    <2>2. ASSUME NEW kind \in Kinds, AppendBuffered(kind)
          PROVE  IInv'
      BY <2>2, <1>1, WritingSteps
    <2> QED
      BY <1>1, <1>3, <2>1, <2>2, QuietSteps, AnnouncingSteps, OpeningSteps, WritingSteps,
         CompactStep, PowerLossStep DEF Next
  <1> QED
    BY <1>2, <1>3

(* The invariant that carries the results below: what every file, the      *)
(* writer and a compaction under way may rely on between two steps of      *)
(* append.rs, compact.rs and a crash.                                      *)
THEOREM InductiveInvariant ==
  ASSUME Sane
  PROVE  Spec => []IInv
PROOF
  <1>1. IInv /\ [Next]_vars => IInv'
    BY NextIInv
  <1> QED
    BY <1>1, InitIInv, PTL DEF Spec

(* The shape of the disk and of the writer's fields, in every state. *)
THEOREM TypeCorrect ==
  ASSUME Sane
  PROVE  Spec => []TypeOK
PROOF
  <1>1. IInv => TypeOK
    BY DEF IInv
  <1> QED
    BY <1>1, InductiveInvariant, PTL

LEMMA InFilesOnDisk ==
  ASSUME TypeOK, NEW i \in live, NEW k \in 1..Len(data[i])
  PROVE  data[i][k] \in OnDisk
PROOF
  <1>1. DOMAIN data[i] = 1..Len(data[i])
    BY LogShape DEF TypeOK
  <1>2. data[i][k] \in Range(data[i])
    BY <1>1 DEF Range
  <1> QED
    BY <1>2 DEF OnDisk

(* append.rs announce-after-durable: a rev handed to a caller is still     *)
(* there after any kill, failed sync and power loss, or any compaction, as *)
(* its record or subsumed by a later checkpoint.                           *)
THEOREM AnnouncedAreSafe ==
  ASSUME Sane
  PROVE  Spec => []AnnouncedSurvives
PROOF
  <1>1. IInv => AnnouncedSurvives
    <2> SUFFICES ASSUME IInv, NEW e \in announced
                 PROVE  e \in OnDisk \/ \E c \in OnDisk : IsCheckpoint(c) /\ c.rev > e.rev
      BY DEF AnnouncedSurvives
    <2>s. TypeOK /\ Shape
      BY Shapes DEF IInv
    <2>1. OnStable(e) \/ InFiles(e) \/ Subsumed(e)
      BY DEF IInv, Files, AnnouncedSafe, Safe
    <2>2. CASE OnStable(e)
      <3>1. PICK i \in live : \E k \in 1..synced[i] : data[i][k] = e
        BY <2>2 DEF OnStable
      <3>2. \A k \in 1..synced[i] : k \in 1..Len(data[i])
        <4>1. i \in Index
          BY <2>s DEF Shape
        <4>2. synced[i] \in Nat /\ Len(data[i]) \in Nat /\ synced[i] <= Len(data[i])
          BY <4>1, <2>s DEF Shape
        <4> QED BY <4>2
      <3> QED BY <3>1, <3>2, <2>s, InFilesOnDisk
    <2>3. CASE InFiles(e)
      BY <2>3, <2>s, InFilesOnDisk DEF InFiles, At
    <2>4. CASE Subsumed(e)
      BY <2>4, <2>s, InFilesOnDisk DEF Subsumed
    <2> QED BY <2>1, <2>2, <2>3, <2>4
  <1> QED
    BY <1>1, InductiveInvariant, PTL

(* append.rs open: revs are never reused - no two records are announced    *)
(* under one rev, and an open writer is past all announced ones.           *)
THEOREM NoRevTwice ==
  ASSUME Sane
  PROVE  Spec => []RevsNeverReused
PROOF
  <1>1. IInv => RevsNeverReused
    <2> SUFFICES ASSUME IInv PROVE RevsNeverReused
      OBVIOUS
    <2>s. Shape /\ Files
      BY Shapes DEF IInv
    <2>1. \A e \in announced : \E k \in 1..Len(history) : history[k] = e
      BY <2>s DEF Files, AllKnown, Known
    <2>2. ASSUME NEW e \in announced, NEW f \in announced, e.rev = f.rev
          PROVE  e = f
      <3>1. PICK k \in 1..Len(history) : history[k] = e
        BY <2>1
      <3>2. PICK m \in 1..Len(history) : history[m] = f
        BY <2>1
      <3>3. k = m \/ k < m \/ m < k
        OBVIOUS
      <3>4. history[k].rev \in Nat
        BY <2>s DEF Shape
      <3>5. k = m
        BY <2>2, <3>1, <3>2, <3>3, <3>4, <2>s DEF Files, Sorted
      <3> QED BY <3>1, <3>2, <3>5
    <2>3. ASSUME pc # "closed", NEW e \in announced
          PROVE  e.rev < next_rev
      <3>1. PICK k \in 1..Len(history) : history[k] = e
        BY <2>1
      <3>2. Len(history) \in 1..Len(history) /\ history # <<>>
        BY <2>s DEF Shape
      <3>3. next_rev = history[Len(history)].rev + 1
        BY <2>3, <3>2 DEF IInv, Writer, WriterPlaced, NextRevIs
      <3>4. k = Len(history) \/ history[k].rev < history[Len(history)].rev
        BY <3>2, <2>s DEF Files, Sorted
      <3> QED BY <3>1, <3>2, <3>3, <3>4, <2>s DEF Shape
    <2> QED BY <2>2, <2>3 DEF RevsNeverReused
  <1> QED
    BY <1>1, InductiveInvariant, PTL

(* Revs increase strictly along the segment files, whatever was rolled,    *)
(* compacted, lost or reopened: the order a tailer relies on.              *)
THEOREM FilesInOrder ==
  ASSUME Sane
  PROVE  Spec => []RevsOrdered
PROOF
  <1>1. IInv => RevsOrdered
    <2> SUFFICES ASSUME IInv PROVE RevsOrdered
      OBVIOUS
    <2>1. \A i \in live : DOMAIN data[i] = 1..Len(data[i])
      BY LogShape DEF IInv, TypeOK
    <2> QED BY <2>1 DEF IInv, Files, InOrder, RevsOrdered
  <1> QED
    BY <1>1, InductiveInvariant, PTL

(* service.rs: where nothing compacts the log and no directory fsync fails,*)
(* an announced rev is a flush barrier - every record written before it is *)
(* on stable storage.                                                      *)
THEOREM AnnouncedIsBarrier ==
  ASSUME Sane, Orderly
  PROVE  Spec => []FlushBarrier
PROOF
  <1>1. IInv => FlushBarrier
    <2> SUFFICES ASSUME IInv, NEW e \in announced, NEW f \in Range(history),
                        f.rev <= e.rev, ~IsCheckpoint(f)
                 PROVE  f \in Durable
      BY DEF FlushBarrier
    <2>1. DOMAIN history = 1..Len(history)
      BY LogShape DEF IInv, TypeOK
    <2>2. PICK k \in 1..Len(history) : history[k] = f
      BY <2>1 DEF Range
    <2>3. OnStable(f)
      BY <2>2 DEF IInv, Files, Barrier
    <2> QED BY <2>3 DEF OnStable, Durable
  <1> QED
    BY <1>1, InductiveInvariant, PTL

(* lib.rs durability contract, but for what a replay folds to: every step  *)
(* of the writer, of recovery, of compaction and of a crash is an append   *)
(* under the next rev, the announcement of written entries, or the loss of *)
(* a tail with nothing announced in it.                                    *)
LogStep == Abstract!Extend \/ Abstract!Announce \/ Abstract!Lose

LEMMA WriteExtends ==
  ASSUME IInv, NEW kind, NEW is_record, WriteRecord(kind, is_record), pc # "closed",
         announced' = announced
  PROVE  Abstract!Extend
PROOF
  <1>s. TypeOK /\ Shape /\ ~torn[index] /\ NextRevIs
    BY Shapes DEF IInv, Writer, WriterPlaced
  <1>1. /\ IsLog(history) /\ IsLog(history') /\ Len(history') = Len(history) + 1
        /\ \A k \in 1..Len(history) : history'[k] = history[k]
        /\ history'[Len(history) + 1].rev = next_rev
    BY <1>s, FileWritten DEF TypeOK
  <1>2. Len(history) \in Nat
    BY <1>s DEF Shape
  <1>3. history = SubSeq(history', 1, Len(history))
    <2>1. PICK p : p = SubSeq(history', 1, Len(history))
      OBVIOUS
    <2>2. Len(history) \in 0..Len(history')
      BY <1>1, <1>2
    <2>3. IsLog(p) /\ Len(p) = Len(history) /\ \A k \in 1..Len(history) : p[k] = history'[k]
      BY <2>1, <2>2, <1>1, LogPrefix
    <2>4. history \in Seq(Range(history) \cup Range(p)) /\ p \in Seq(Range(history) \cup Range(p))
      BY <2>3, <1>1, SeqMonotonic DEF IsLog
    <2>5. \A k \in 1..Len(history) : history[k] = p[k]
      BY <2>3, <1>1
    <2>6. history = p
      BY <2>3, <2>4, <2>5, SeqEqual
    <2> QED BY <2>1, <2>6
  <1>4. history'[Len(history')].rev = Abstract!NextRev
    BY <1>1, <1>s DEF Abstract!Last, Abstract!NextRev, NextRevIs
  <1> QED
    BY <1>1, <1>3, <1>4 DEF Abstract!Extend, Abstract!Last

THEOREM ImplementsLogSteps ==
  ASSUME Sane, Gapless
  PROVE  Spec => history = <<>> /\ announced = {} /\ [][LogStep]_<<history, announced>>
PROOF
  <1>1. Init => history = <<>> /\ announced = {}
    BY DEF Init
  <1>2. ASSUME IInv, [Next]_vars
        PROVE  [LogStep]_<<history, announced>>
    <2>s. TypeOK /\ Shape /\ Files /\ Directory
      BY <1>2, Shapes DEF IInv
    <2>k. /\ \A e : Known(e) => e \in Range(history)
          /\ IInv'
      <3>1. DOMAIN history = 1..Len(history)
        BY <2>s, LogShape DEF TypeOK
      <3> QED BY <3>1, <1>2, NextIInv DEF Known, Range
    <2>1. ASSUME NEW kind \in Kinds, AppendBuffered(kind)
          PROVE  LogStep
      BY <2>1, <1>2, WriteExtends DEF AppendBuffered, LogStep
    <2>2. CASE StampCheckpoint
      BY <2>2, <1>2, WriteExtends DEF StampCheckpoint, LogStep
    <2>3. CASE AppendAfterRoll
      BY <2>3, <1>2, WriteExtends DEF AppendAfterRoll, LogStep
    <2>4. CASE ForceCheckpoint
      BY <2>4, <1>2, WriteExtends DEF ForceCheckpoint, LogStep
    <2>5. CASE Sync
      <3>1. pending \subseteq Range(history)
        BY <2>s, <2>k DEF Files, AllKnown
      <3> QED BY <3>1, <2>5 DEF Sync, LogStep, Abstract!Announce, Abstract!Range, Range
    <2>6. CASE SyncForced
      <3>1. Len(history) \in DOMAIN history
        BY <2>6, <2>s, <1>2, LogShape DEF SyncForced, IInv, Writer, Stages, TypeOK, Shape
      <3>2. Last(history) \in Range(history)
        BY <3>1 DEF Last, Range
      <3> QED BY <3>2, <2>6 DEF SyncForced, LogStep, Abstract!Announce, Abstract!Range, Range
    <2>7. CASE PowerLoss
      <3>1. history' = SubSeq(history, 1, Len(history')) /\ announced' = announced
        BY <2>7, <2>s, HistoryCut DEF PowerLoss
      <3>2. DOMAIN history' = 1..Len(history')
        BY <2>k, LogShape DEF IInv, TypeOK
      <3>3. announced \subseteq Range(history')
        BY <2>k, <3>1, <3>2 DEF IInv, Files, AllKnown, Known, Range
      <3> QED BY <3>1, <3>3 DEF LogStep, Abstract!Lose, Abstract!Range, Range
    <2>8. ASSUME NEW kind \in Kinds, Roll(kind)
          PROVE  UNCHANGED <<history, announced>>
      BY <2>8 DEF Roll
    <2>9. CASE \/ OpenFresh \/ OpenFreshFails \/ OpenExisting \/ AppendFails \/ RollFails
               \/ SwitchSegment \/ SwitchFails \/ StampFails \/ AppendAfterRollFails \/ SyncFails
               \/ SyncForcedFails \/ CompactBegin \/ CompactRemove \/ CompactEnd \/ Kill
               \/ UNCHANGED vars
      BY <2>9 DEF OpenFresh, OpenFreshFails, OpenExisting, AppendFails, RollFails, SwitchSegment,
           SwitchFails, StampFails, AppendAfterRollFails, WriteFails, SyncFails, SyncForcedFails,
           CompactBegin, CompactRemove, CompactEnd, Kill, vars
    <2> QED
      BY <1>2, <2>1, <2>2, <2>3, <2>4, <2>5, <2>6, <2>7, <2>8, <2>9 DEF Next
  <1>3. IInv /\ [Next]_vars => [LogStep]_<<history, announced>>
    BY <1>2
  <1> QED
    BY <1>1, <1>3, InductiveInvariant, PTL DEF Spec
-----------------------------------------------------------------------------
(* Folds: the function behind each of them, and what one more entry does   *)

EntryFold(base, s, n, f) ==
  f = [k \in 0..n |-> IF k = 0 THEN base ELSE FoldEntry(f[k - 1], s[k])]

LEMMA EntryFoldExists ==
  ASSUME NEW base, NEW s, NEW n \in Nat
  PROVE  \E f : EntryFold(base, s, n, f)
PROOF
  <1> DEFINE S == {k \in Nat : \E f : EntryFold(base, s, k, f)}
  <1>1. 0 \in S
    <2>1. EntryFold(base, s, 0, [k \in 0..0 |-> base])
      BY DEF EntryFold
    <2> QED BY <2>1
  <1>2. ASSUME NEW k \in S PROVE k + 1 \in S
    <2>1. PICK f : EntryFold(base, s, k, f)
      OBVIOUS
    <2> DEFINE last == FoldEntry(f[k], s[k + 1])
               g == [j \in 0..k + 1 |-> IF j = k + 1 THEN last ELSE f[j]]
    <2>2. ASSUME NEW j \in 0..k + 1
          PROVE  g[j] = IF j = 0 THEN base ELSE FoldEntry(g[j - 1], s[j])
      <3> HIDE DEF S
      <3>0. k \in Nat
        BY <1>2 DEF S
      <3>1. CASE j = k + 1
        <4>1. j - 1 = k /\ j # 0 /\ k \in 0..k + 1 /\ k # k + 1
          BY <3>0, <3>1
        <4>2. g[j] = last /\ g[j - 1] = f[k]
          BY <3>1, <4>1
        <4> QED BY <3>1, <4>1, <4>2
      <3>2. CASE j = 0
        <4>1. g[j] = f[0] /\ f[0] = base
          BY <3>0, <3>2, <2>1 DEF EntryFold
        <4> QED BY <3>2, <4>1
      <3>3. CASE j \in 1..k
        <4>1. j # k + 1 /\ j - 1 # k + 1 /\ j - 1 \in 0..k + 1 /\ j # 0 /\ j \in 0..k
          BY <3>0, <3>3
        <4>2. g[j] = f[j] /\ g[j - 1] = f[j - 1]
          BY <4>1
        <4>3. f[j] = FoldEntry(f[j - 1], s[j])
          BY <2>1, <4>1 DEF EntryFold
        <4> QED BY <4>1, <4>2, <4>3
      <3> QED BY <3>0, <3>1, <3>2, <3>3
    <2>3. EntryFold(base, s, k + 1, g)
      <3> HIDE DEF last
      <3> QED BY <2>2 DEF EntryFold
    <2> QED BY <2>3
  <1>3. S = Nat
    <2>1. S \subseteq Nat
      OBVIOUS
    <2> HIDE DEF S
    <2> QED BY <1>1, <1>2, <2>1, Induct
  <1> QED BY <1>3

(* FoldEntries is the last value of a function that starts at the base and *)
(* folds one entry at a time.                                              *)
LEMMA FoldEntriesIs ==
  ASSUME NEW base, NEW s, Len(s) \in Nat
  PROVE  \E f : /\ f[0] = base
                /\ \A k \in 1..Len(s) : f[k] = FoldEntry(f[k - 1], s[k])
                /\ FoldEntries(base, s) = f[Len(s)]
PROOF
  <1> DEFINE f == CHOOSE g : EntryFold(base, s, Len(s), g)
  <1>1. FoldEntries(base, s) = f[Len(s)]
    BY DEF FoldEntries, EntryFold
  <1>2. EntryFold(base, s, Len(s), f)
    BY EntryFoldExists
  <1> HIDE DEF f
  <1>3. f[0] = base
    BY <1>2 DEF EntryFold
  <1>4. ASSUME NEW k \in 1..Len(s) PROVE f[k] = FoldEntry(f[k - 1], s[k])
    <2>1. k \in 0..Len(s) /\ k # 0
      OBVIOUS
    <2> QED BY <1>2, <2>1 DEF EntryFold
  <1> QED BY <1>1, <1>3, <1>4

SegmentFold(n, f) ==
  f = [k \in 0..n |-> IF k = 0 THEN EmptySnapshot
                      ELSE IF k - 1 \in live THEN FoldEntries(f[k - 1], data[k - 1]) ELSE f[k - 1]]

LEMMA SegmentFoldExists ==
  ASSUME NEW n \in Nat
  PROVE  \E f : SegmentFold(n, f)
PROOF
  <1> DEFINE S == {k \in Nat : \E f : SegmentFold(k, f)}
  <1>1. 0 \in S
    <2>1. SegmentFold(0, [k \in 0..0 |-> EmptySnapshot])
      BY DEF SegmentFold
    <2> QED BY <2>1
  <1>2. ASSUME NEW k \in S PROVE k + 1 \in S
    <2>1. PICK f : SegmentFold(k, f)
      OBVIOUS
    <2> DEFINE last == IF (k + 1) - 1 \in live THEN FoldEntries(f[k], data[(k + 1) - 1]) ELSE f[k]
               g == [j \in 0..k + 1 |-> IF j = k + 1 THEN last ELSE f[j]]
    <2>2. ASSUME NEW j \in 0..k + 1
          PROVE  g[j] = IF j = 0 THEN EmptySnapshot
                        ELSE IF j - 1 \in live THEN FoldEntries(g[j - 1], data[j - 1]) ELSE g[j - 1]
      <3> HIDE DEF S
      <3>0. k \in Nat
        BY <1>2 DEF S
      <3>1. CASE j = k + 1
        <4>1. j - 1 = k /\ j # 0 /\ k \in 0..k + 1 /\ k # k + 1
          BY <3>0, <3>1
        <4>2. g[j] = last /\ g[j - 1] = f[k]
          BY <3>1, <4>1
        <4> QED BY <3>1, <4>1, <4>2
      <3>2. CASE j = 0
        <4>1. g[j] = f[0] /\ f[0] = EmptySnapshot
          BY <3>0, <3>2, <2>1 DEF SegmentFold
        <4> QED BY <3>2, <4>1
      <3>3. CASE j \in 1..k
        <4>1. j # k + 1 /\ j - 1 # k + 1 /\ j - 1 \in 0..k + 1 /\ j # 0 /\ j \in 0..k
          BY <3>0, <3>3
        <4>2. g[j] = f[j] /\ g[j - 1] = f[j - 1]
          BY <4>1
        <4>3. f[j] = IF j - 1 \in live THEN FoldEntries(f[j - 1], data[j - 1]) ELSE f[j - 1]
          BY <2>1, <4>1 DEF SegmentFold
        <4> QED BY <4>1, <4>2, <4>3
      <3> QED BY <3>0, <3>1, <3>2, <3>3
    <2>3. SegmentFold(k + 1, g)
      <3> HIDE DEF last
      <3> QED BY <2>2 DEF SegmentFold
    <2> QED BY <2>3
  <1>3. S = Nat
    <2>1. S \subseteq Nat
      OBVIOUS
    <2> HIDE DEF S
    <2> QED BY <1>1, <1>2, <2>1, Induct
  <1> QED BY <1>3

(* The same of replay_full, which folds one segment at a time. *)
LEMMA ReplayFullIs ==
  ASSUME TRUE
  PROVE  \E f : /\ f[0] = EmptySnapshot
                /\ \A k \in 1..(MaxSegment + 1) :
                     f[k] = IF k - 1 \in live THEN FoldEntries(f[k - 1], data[k - 1]) ELSE f[k - 1]
                /\ ReplayFull = f[(MaxSegment + 1)]
PROOF
  <1> DEFINE f == CHOOSE g : SegmentFold((MaxSegment + 1), g)
  <1>1. ReplayFull = f[(MaxSegment + 1)]
    BY DEF ReplayFull, SegmentFold
  <1>2. SegmentFold((MaxSegment + 1), f)
    BY SegmentFoldExists, BoundsAssumption
  <1> HIDE DEF f
  <1>3. f[0] = EmptySnapshot
    BY <1>2, BoundsAssumption DEF SegmentFold
  <1>4. ASSUME NEW k \in 1..(MaxSegment + 1)
        PROVE  f[k] = IF k - 1 \in live THEN FoldEntries(f[k - 1], data[k - 1]) ELSE f[k - 1]
    <2>1. k \in 0..(MaxSegment + 1) /\ k # 0
      OBVIOUS
    <2> QED BY <1>2, <2>1 DEF SegmentFold
  <1> QED BY <1>1, <1>3, <1>4

(* The abstract specification folds entries as replay.rs does. *)
LEMMA AbstractFold ==
  ASSUME NEW s, NEW e
  PROVE  Abstract!FoldEntry(s, e) = FoldEntry(s, e) /\ Abstract!IsCheckpoint(e) = IsCheckpoint(e)
PROOF
  BY Zenon DEF Abstract!FoldEntry, FoldEntry, Abstract!IsCheckpoint, IsCheckpoint,
     Abstract!FoldHeads, FoldHeads,
     Abstract!FoldRoster, FoldRoster, Abstract!Mark, Mark, Abstract!FoldCreated, FoldCreated,
     Abstract!OnPresent, OnPresent, Abstract!FoldArchived, FoldArchived, Abstract!FoldPaused,
     FoldPaused,
     Abstract!FoldStatus, FoldStatus, Abstract!FoldMessage, FoldMessage, Abstract!FoldDeleted,
     FoldDeleted

RecordFold(s, n, f) ==
  f = [k \in 0..n |-> IF k = 0 THEN Abstract!EmptySnapshot
                      ELSE IF Abstract!IsCheckpoint(s[k]) THEN f[k - 1]
                      ELSE Abstract!FoldEntry(f[k - 1], s[k])]

LEMMA RecordFoldExists ==
  ASSUME NEW s, NEW n \in Nat
  PROVE  \E f : RecordFold(s, n, f)
PROOF
  <1> DEFINE S == {k \in Nat : \E f : RecordFold(s, k, f)}
  <1>1. 0 \in S
    <2>1. RecordFold(s, 0, [k \in 0..0 |-> Abstract!EmptySnapshot])
      BY DEF RecordFold
    <2> QED BY <2>1
  <1>2. ASSUME NEW k \in S PROVE k + 1 \in S
    <2>1. PICK f : RecordFold(s, k, f)
      OBVIOUS
    <2> DEFINE last == IF Abstract!IsCheckpoint(s[k + 1]) THEN f[k]
                       ELSE Abstract!FoldEntry(f[k], s[k + 1])
               g == [j \in 0..k + 1 |-> IF j = k + 1 THEN last ELSE f[j]]
    <2>2. ASSUME NEW j \in 0..k + 1
          PROVE  g[j] = IF j = 0 THEN Abstract!EmptySnapshot
                        ELSE IF Abstract!IsCheckpoint(s[j]) THEN g[j - 1]
                        ELSE Abstract!FoldEntry(g[j - 1], s[j])
      <3> HIDE DEF S
      <3>0. k \in Nat
        BY <1>2 DEF S
      <3>1. CASE j = k + 1
        <4>1. j - 1 = k /\ j # 0 /\ k \in 0..k + 1 /\ k # k + 1
          BY <3>0, <3>1
        <4>2. g[j] = last /\ g[j - 1] = f[k]
          BY <3>1, <4>1
        <4> QED BY <3>1, <4>1, <4>2
      <3>2. CASE j = 0
        <4>1. g[j] = f[0] /\ f[0] = Abstract!EmptySnapshot
          BY <3>0, <3>2, <2>1 DEF RecordFold
        <4> QED BY <3>2, <4>1
      <3>3. CASE j \in 1..k
        <4>1. j # k + 1 /\ j - 1 # k + 1 /\ j - 1 \in 0..k + 1 /\ j # 0 /\ j \in 0..k
          BY <3>0, <3>3
        <4>2. g[j] = f[j] /\ g[j - 1] = f[j - 1]
          BY <4>1
        <4>3. f[j] = IF Abstract!IsCheckpoint(s[j]) THEN f[j - 1]
                     ELSE Abstract!FoldEntry(f[j - 1], s[j])
          BY <2>1, <4>1 DEF RecordFold
        <4> QED BY <4>1, <4>2, <4>3
      <3> QED BY <3>0, <3>1, <3>2, <3>3
    <2>3. RecordFold(s, k + 1, g)
      <3> HIDE DEF last
      <3> QED BY <2>2 DEF RecordFold
    <2> QED BY <2>3
  <1>3. S = Nat
    <2>1. S \subseteq Nat
      OBVIOUS
    <2> HIDE DEF S
    <2> QED BY <1>1, <1>2, <2>1, Induct
  <1> QED BY <1>3

(* The same of the fold of the records alone. *)
LEMMA AbstractRecordsIs ==
  ASSUME NEW s, Len(s) \in Nat
  PROVE  \E f : /\ f[0] = Abstract!EmptySnapshot
                /\ \A k \in 1..Len(s) :
                     f[k] = IF Abstract!IsCheckpoint(s[k]) THEN f[k - 1] ELSE Abstract!FoldEntry(f[k - 1], s[k])
                /\ Abstract!FoldRecords(s) = f[Len(s)]
PROOF
  <1> DEFINE f == CHOOSE g : RecordFold(s, Len(s), g)
  <1>1. Abstract!FoldRecords(s) = f[Len(s)]
    BY DEF Abstract!FoldRecords, RecordFold
  <1>2. RecordFold(s, Len(s), f)
    BY RecordFoldExists
  <1> HIDE DEF f
  <1>3. f[0] = Abstract!EmptySnapshot
    BY <1>2 DEF RecordFold
  <1>4. ASSUME NEW k \in 1..Len(s)
        PROVE  f[k] = IF Abstract!IsCheckpoint(s[k]) THEN f[k - 1] ELSE Abstract!FoldEntry(f[k - 1], s[k])
    <2>1. k \in 0..Len(s) /\ k # 0
      OBVIOUS
    <2> QED BY <1>2, <2>1 DEF RecordFold
  <1> QED BY <1>1, <1>3, <1>4

LEMMA FoldRecordsIs ==
  ASSUME NEW s, Len(s) \in Nat
  PROVE  \E f : /\ f[0] = EmptySnapshot
                /\ \A k \in 1..Len(s) :
                     f[k] = IF IsCheckpoint(s[k]) THEN f[k - 1] ELSE FoldEntry(f[k - 1], s[k])
                /\ Abstract!FoldRecords(s) = f[Len(s)]
PROOF
  <1>1. PICK f : /\ f[0] = Abstract!EmptySnapshot
                 /\ \A k \in 1..Len(s) :
                      f[k] = IF Abstract!IsCheckpoint(s[k]) THEN f[k - 1] ELSE Abstract!FoldEntry(f[k - 1], s[k])
                 /\ Abstract!FoldRecords(s) = f[Len(s)]
    BY AbstractRecordsIs
  <1>2. f[0] = EmptySnapshot
    BY <1>1 DEF Abstract!EmptySnapshot, EmptySnapshot
  <1>3. ASSUME NEW k \in 1..Len(s)
        PROVE  f[k] = IF IsCheckpoint(s[k]) THEN f[k - 1] ELSE FoldEntry(f[k - 1], s[k])
    BY <1>1, AbstractFold
  <1> QED BY <1>1, <1>2, <1>3

(* One more entry. *)
LEMMA RecordStep ==
  ASSUME NEW s, NEW t, NEW n \in Nat, Len(s) = n, Len(t) = n + 1, \A k \in 1..n : s[k] = t[k]
  PROVE  Abstract!FoldRecords(t) = IF IsCheckpoint(t[n + 1]) THEN Abstract!FoldRecords(s)
                                   ELSE FoldEntry(Abstract!FoldRecords(s), t[n + 1])
PROOF
  <1>1. PICK f : /\ f[0] = EmptySnapshot
                 /\ \A k \in 1..n :
                      f[k] = IF IsCheckpoint(s[k]) THEN f[k - 1] ELSE FoldEntry(f[k - 1], s[k])
                 /\ Abstract!FoldRecords(s) = f[n]
    BY FoldRecordsIs
  <1>0. Len(t) \in Nat
    OBVIOUS
  <1>2. PICK g : /\ g[0] = EmptySnapshot
                 /\ \A k \in 1..n + 1 :
                      g[k] = IF IsCheckpoint(t[k]) THEN g[k - 1] ELSE FoldEntry(g[k - 1], t[k])
                 /\ Abstract!FoldRecords(t) = g[n + 1]
    BY <1>0, FoldRecordsIs
  <1> DEFINE S == {k \in Nat : k <= n => f[k] = g[k]}
  <1>3. 0 \in S
    BY <1>1, <1>2
  <1>4. ASSUME NEW k \in S PROVE k + 1 \in S
    <2> SUFFICES ASSUME k + 1 <= n PROVE f[k + 1] = g[k + 1]
      OBVIOUS
    <2>1. k + 1 \in 1..n /\ k + 1 \in 1..n + 1 /\ (k + 1) - 1 = k /\ f[k] = g[k]
      OBVIOUS
    <2>2. s[k + 1] = t[k + 1]
      BY <2>1
    <2>3. /\ f[k + 1] = IF IsCheckpoint(s[k + 1]) THEN f[k] ELSE FoldEntry(f[k], s[k + 1])
          /\ g[k + 1] = IF IsCheckpoint(t[k + 1]) THEN g[k] ELSE FoldEntry(g[k], t[k + 1])
      BY ONLY <1>1, <1>2, <2>1
    <2> QED BY ONLY <2>1, <2>2, <2>3
  <1>5. S = Nat
    <2>1. S \subseteq Nat
      OBVIOUS
    <2> HIDE DEF S
    <2> QED BY <1>3, <1>4, <2>1, Induct
  <1>6. f[n] = g[n]
    BY <1>5
  <1>7. g[n + 1] = IF IsCheckpoint(t[n + 1]) THEN g[n] ELSE FoldEntry(g[n], t[n + 1])
    <2>1. n + 1 \in 1..n + 1 /\ (n + 1) - 1 = n
      OBVIOUS
    <2> QED BY ONLY <1>2, <2>1
  <1> QED BY <1>1, <1>2, <1>6, <1>7

LEMMA SamePrefix ==
  ASSUME NEW s, NEW t, IsLog(s), IsLog(t), NEW n \in 0..Len(s), n <= Len(t),
         \A k \in 1..n : s[k] = t[k]
  PROVE  SubSeq(s, 1, n) = SubSeq(t, 1, n)
PROOF
  <1>0. Len(s) \in Nat /\ Len(t) \in Nat /\ n \in 0..Len(t)
    BY LogShape
  <1>1. PICK p : p = SubSeq(s, 1, n)
    OBVIOUS
  <1>2. PICK q : q = SubSeq(t, 1, n)
    OBVIOUS
  <1>3. IsLog(p) /\ Len(p) = n /\ \A k \in 1..n : p[k] = s[k]
    BY <1>1, LogPrefix
  <1>4. IsLog(q) /\ Len(q) = n /\ \A k \in 1..n : q[k] = t[k]
    BY <1>0, <1>2, LogPrefix
  <1>5. p \in Seq(Range(p) \cup Range(q)) /\ q \in Seq(Range(p) \cup Range(q))
    BY <1>3, <1>4, SeqMonotonic DEF IsLog
  <1>6. \A k \in 1..n : p[k] = q[k]
    BY <1>3, <1>4
  <1>7. p = q
    BY <1>3, <1>4, <1>5, <1>6, SeqEqual
  <1> QED BY <1>1, <1>2, <1>7
-----------------------------------------------------------------------------
(* What a replay recovers *)

(* The fold of the records among the first k entries of the history. *)
Folded(h, k) == Abstract!FoldRecords(SubSeq(h, 1, k))
After(k) == Folded(history, k)

(* A checkpoint holds the fold of what was written before it; a record not *)
(* in the files is behind a checkpoint that is; an open writer's state is  *)
(* the fold of the whole history.                                          *)
Stamped ==
  \A k \in 1..Len(history) : IsCheckpoint(history[k]) => history[k].kind.snapshot = After(k - 1)

Complete ==
  \A k \in 1..Len(history) :
    IsCheckpoint(history[k]) \/ InFiles(history[k]) \/ Subsumed(history[k])

StateIs == pc # "closed" => state = After(Len(history))

Content == Stamped /\ Complete /\ StateIs

LEMMA AfterZero ==
  ASSUME TypeOK
  PROVE  After(0) = EmptySnapshot
PROOF
  <1>1. IsLog(history) /\ Len(history) \in Nat
    BY LogShape DEF TypeOK
  <1>2. PICK p : p = SubSeq(history, 1, 0)
    OBVIOUS
  <1>3. Len(p) = 0
    BY <1>1, <1>2, LogPrefix
  <1>4. Abstract!FoldRecords(p) = EmptySnapshot
    BY <1>3, FoldRecordsIs
  <1> QED BY <1>2, <1>4 DEF After, Folded

LEMMA FoldedStep ==
  ASSUME NEW h, IsLog(h), NEW k \in 1..Len(h)
  PROVE  Folded(h, k) = IF IsCheckpoint(h[k]) THEN Folded(h, k - 1)
                        ELSE FoldEntry(Folded(h, k - 1), h[k])
PROOF
  <1>1. Len(h) \in Nat
    BY LogShape
  <1>2. PICK n \in Nat : n = k - 1
    BY <1>1
  <1>3. PICK p : p = SubSeq(h, 1, n)
    OBVIOUS
  <1>4. PICK q : q = SubSeq(h, 1, k)
    OBVIOUS
  <1>5. Len(p) = n /\ \A j \in 1..n : p[j] = h[j]
    BY <1>1, <1>2, <1>3, LogPrefix
  <1>6. Len(q) = n + 1 /\ \A j \in 1..n + 1 : q[j] = h[j]
    <2>1. k = n + 1 /\ k \in 0..Len(h)
      BY <1>1, <1>2
    <2> QED BY <2>1, <1>1, <1>4, LogPrefix
  <1>7. (\A j \in 1..n : p[j] = q[j]) /\ q[n + 1] = h[k]
    BY <1>2, <1>5, <1>6
  <1>8. Abstract!FoldRecords(q) = IF IsCheckpoint(q[n + 1]) THEN Abstract!FoldRecords(p)
                                  ELSE FoldEntry(Abstract!FoldRecords(p), q[n + 1])
    BY <1>5, <1>6, <1>7, RecordStep
  <1> QED BY <1>2, <1>3, <1>4, <1>7, <1>8 DEF Folded

LEMMA AfterStep ==
  ASSUME TypeOK, NEW k \in 1..Len(history)
  PROVE  After(k) = IF IsCheckpoint(history[k]) THEN After(k - 1)
                    ELSE FoldEntry(After(k - 1), history[k])
PROOF
  BY FoldedStep DEF After, TypeOK

LEMMA AfterAll ==
  ASSUME TypeOK
  PROVE  After(Len(history)) = Abstract!FoldRecords(history)
PROOF
  <1>1. IsLog(history) /\ Len(history) \in Nat
    BY LogShape DEF TypeOK
  <1>2. PICK p : p = SubSeq(history, 1, Len(history))
    OBVIOUS
  <1>3. IsLog(p) /\ Len(p) = Len(history) /\ \A k \in 1..Len(history) : p[k] = history[k]
    BY <1>1, <1>2, LogPrefix
  <1>4. p \in Seq(Range(p) \cup Range(history)) /\ history \in Seq(Range(p) \cup Range(history))
    BY <1>1, <1>3, SeqMonotonic DEF IsLog
  <1>5. p = history
    BY <1>3, <1>4, SeqEqual
  <1> QED BY <1>2, <1>5 DEF After, Folded

(* Entries that a step leaves in place fold to the same. *)
LEMMA AfterKept ==
  ASSUME TypeOK, TypeOK', NEW n \in 0..Len(history), n <= Len(history'),
         \A k \in 1..n : history'[k] = history[k]
  PROVE  \A k \in 0..n : After(k)' = After(k)
PROOF
  <1>1. IsLog(history) /\ IsLog(history') /\ Len(history) \in Nat /\ Len(history') \in Nat
    BY LogShape DEF TypeOK
  <1> SUFFICES ASSUME NEW k \in 0..n PROVE After(k)' = After(k)
    OBVIOUS
  <1>2. k \in 0..Len(history) /\ k <= Len(history') /\ \A j \in 1..k : history[j] = history'[j]
    BY <1>1
  <1>3. SubSeq(history, 1, k) = SubSeq(history', 1, k)
    BY <1>1, <1>2, SamePrefix
  <1> QED BY <1>3 DEF After, Folded

(* Checkpoints add nothing to the fold. *)
LEMMA AfterSkip ==
  ASSUME TypeOK, NEW p \in 0..Len(history), NEW q \in 0..Len(history), p <= q,
         \A k \in 1..Len(history) : p < k /\ k <= q => IsCheckpoint(history[k])
  PROVE  After(q) = After(p)
PROOF
  <1>0. Len(history) \in Nat
    BY LogShape DEF TypeOK
  <1> DEFINE S == {d \in Nat : p + d <= q => After(p + d) = After(p)}
  <1>1. 0 \in S
    <2>1. p + 0 = p
      OBVIOUS
    <2> QED BY <2>1, Zenon
  <1>2. ASSUME NEW d \in S PROVE d + 1 \in S
    <2> SUFFICES ASSUME p + (d + 1) <= q PROVE After(p + (d + 1)) = After(p)
      OBVIOUS
    <2>1. PICK k \in 1..Len(history) : k = p + (d + 1)
      BY <1>0
    <2>2. p < k /\ k <= q /\ k - 1 = p + d /\ p + d <= q /\ d \in Nat
      BY <2>1, <1>0
    <2>3. After(k) = After(k - 1)
      BY <2>2, AfterStep
    <2>4. After(p + d) = After(p)
      BY <2>2
    <2> QED BY <2>1, <2>2, <2>3, <2>4
  <1>3. S = Nat
    <2>1. S \subseteq Nat
      OBVIOUS
    <2> HIDE DEF S
    <2> QED BY <1>1, <1>2, <2>1, Induct
  <1>4. q - p \in S
    <2>1. q - p \in Nat
      BY <1>0
    <2> HIDE DEF S
    <2> QED BY <1>3, <2>1
  <1>5. p + (q - p) = q /\ q <= q
    BY <1>0
  <1> QED BY <1>4, <1>5

(* In a sorted history the place of an entry is the place of its rev. *)
LEMMA Places ==
  ASSUME Shape, Sorted, NEW q \in 1..Len(history), NEW r \in 1..Len(history)
  PROVE  /\ history[r].rev < history[q].rev <=> r < q
         /\ history[r].rev = history[q].rev <=> r = q
PROOF
  <1>1. history[r].rev \in Nat /\ history[q].rev \in Nat
    BY DEF Shape
  <1>2. r < q => history[r].rev < history[q].rev
    BY DEF Sorted
  <1>3. q < r => history[q].rev < history[r].rev
    BY DEF Sorted
  <1>4. r < q \/ q < r \/ r = q
    OBVIOUS
  <1> QED BY ONLY <1>1, <1>2, <1>3, <1>4, q \in 1..Len(history), r \in 1..Len(history)

(* A replay that has folded the files before n and k frames of file n: p   *)
(* tells those frames from the others, and the result so far is the fold   *)
(* of the first p entries unless a checkpoint is still to come.            *)
Before(i, a, n, k) == i < n \/ (i = n /\ a <= k)

Split(n, k, p) ==
  \A i \in live : \A a \in 1..Len(data[i]) : \A q \in 1..Len(history) :
    history[q] = data[i][a] => (q <= p <=> Before(i, a, n, k))

ToCome(n, k) ==
  \E i \in live : \E a \in 1..Len(data[i]) : ~Before(i, a, n, k) /\ IsCheckpoint(data[i][a])

Good(acc, n, k) == \E p \in 0..Len(history) : Split(n, k, p) /\ (acc = After(p) \/ ToCome(n, k))

LEMMA SplitAt ==
  ASSUME Shape, Files, NEW n \in live, NEW k \in 1..Len(data[n]),
         NEW q \in 1..Len(history), history[q] = data[n][k]
  PROVE  Split(n, k, q)
PROOF
  <1> SUFFICES ASSUME NEW i \in live, NEW a \in 1..Len(data[i]), NEW r \in 1..Len(history),
                      history[r] = data[i][a]
               PROVE  r <= q <=> Before(i, a, n, k)
    BY DEF Split
  <1>0. /\ i \in Nat /\ n \in Nat /\ Len(data[i]) \in Nat /\ Len(data[n]) \in Nat
        /\ Len(history) \in Nat
        /\ history[r].rev \in Nat /\ history[q].rev \in Nat
    BY DEF Shape
  <1>1. /\ history[r].rev < history[q].rev <=> r < q
        /\ history[q].rev < history[r].rev <=> q < r
        /\ history[r].rev = history[q].rev <=> r = q
    BY Places DEF Files
  <1>2. i < n \/ (i = n /\ a < k) => history[r].rev < history[q].rev
    BY DEF Files, InOrder
  <1>3. n < i \/ (n = i /\ k < a) => history[q].rev < history[r].rev
    BY DEF Files, InOrder
  <1>4. i = n /\ a = k => history[r].rev = history[q].rev
    OBVIOUS
  <1> QED BY ONLY <1>0, <1>1, <1>2, <1>3, <1>4, a \in 1..Len(data[i]), k \in 1..Len(data[n]),
             r \in 1..Len(history), q \in 1..Len(history) DEF Before

LEMMA GoodStep ==
  ASSUME TypeOK, Shape, Files, Stamped, Complete, NEW n \in live, NEW k \in Nat,
         k + 1 <= Len(data[n]), NEW acc, Good(acc, n, k)
  PROVE  Good(FoldEntry(acc, data[n][k + 1]), n, k + 1)
PROOF
  <1>0. /\ n \in Nat /\ Len(data[n]) \in Nat /\ k + 1 \in 1..Len(data[n]) /\ Len(history) \in Nat
        /\ \A i \in live : i \in Nat /\ Len(data[i]) \in Nat
    BY DEF Shape
  <1>1. PICK p \in 0..Len(history) : Split(n, k, p) /\ (acc = After(p) \/ ToCome(n, k))
    BY DEF Good
  <1>2. PICK q \in 1..Len(history) : history[q] = data[n][k + 1]
    BY <1>0 DEF Files, AllKnown, Known
  <1>3. Split(n, k + 1, q)
    BY <1>0, <1>2, SplitAt
  <1>4. p < q
    <2>1. ~Before(n, k + 1, n, k)
      BY <1>0 DEF Before
    <2>2. ~(q <= p)
      BY <2>1, <1>0, <1>1, <1>2 DEF Split
    <2> QED BY <2>2, <1>0
  <1> DEFINE e == data[n][k + 1]
  <1>5. SUFFICES FoldEntry(acc, e) = After(q) \/ ToCome(n, k + 1)
    <2>1. q \in 0..Len(history)
      BY <1>0
    <2> QED BY <2>1, <1>3, <1>5 DEF Good
  <1>6. CASE IsCheckpoint(e)
    <2>1. FoldEntry(acc, e) = e.kind.snapshot
      BY <1>6 DEF FoldEntry
    <2>2. e.kind.snapshot = After(q - 1) /\ After(q) = After(q - 1)
      BY <1>2, <1>6, AfterStep DEF Stamped
    <2> QED BY <2>1, <2>2
  <1>7. CASE ~IsCheckpoint(e) /\ ~ToCome(n, k + 1)
    <2>1. ~ToCome(n, k)
      <3> SUFFICES ASSUME NEW i \in live, NEW a \in 1..Len(data[i]), ~Before(i, a, n, k),
                          IsCheckpoint(data[i][a])
                   PROVE  FALSE
        BY DEF ToCome
      <3>1. Before(i, a, n, k + 1)
        BY <1>7 DEF ToCome
      <3>2. i = n /\ a = k + 1
        BY <3>1, <1>0 DEF Before
      <3> QED BY <3>2, <1>7
    <2>2. acc = After(p)
      BY <2>1, <1>1
    <2>3. ASSUME NEW m \in 1..Len(history), p < m, m <= q - 1, ~IsCheckpoint(history[m])
          PROVE  FALSE
      <3>1. CASE InFiles(history[m])
        <4>0. PICK i \in live : \E a \in 1..Len(data[i]) : data[i][a] = history[m]
          BY <3>1 DEF InFiles, At
        <4>1. PICK a \in 1..Len(data[i]) : data[i][a] = history[m]
          BY <4>0
        <4>2. ~Before(i, a, n, k)
          BY <4>1, <2>3, <1>0, <1>1 DEF Split
        <4>3. Before(i, a, n, k + 1)
          BY <4>1, <2>3, <1>0, <1>3 DEF Split
        <4>4. i = n /\ a = k + 1
          BY <4>2, <4>3, <1>0 DEF Before
        <4>5. history[m] = history[q]
          BY <4>1, <4>4, <1>2
        <4>6. m = q
          BY <4>5, Places DEF Files
        <4> QED BY <4>6, <2>3, <1>0
      <3>2. CASE Subsumed(history[m])
        <4>0. PICK i \in live : \E a \in 1..Len(data[i]) :
                IsCheckpoint(data[i][a]) /\ data[i][a].rev > history[m].rev
          BY <3>2 DEF Subsumed
        <4>1. PICK a \in 1..Len(data[i]) :
                 IsCheckpoint(data[i][a]) /\ data[i][a].rev > history[m].rev
          BY <4>0
        <4>2. PICK r \in 1..Len(history) : history[r] = data[i][a]
          BY DEF Files, AllKnown, Known
        <4>3. m < r
          <5>1. history[m].rev \in Nat /\ history[r].rev \in Nat /\ history[r].rev > history[m].rev
            BY <4>1, <4>2 DEF Shape
          <5>2. history[m].rev < history[r].rev
            BY ONLY <5>1
          <5> QED BY <5>2, Places DEF Files
        <4>4. ~(r <= p)
          BY <4>3, <2>3, <1>0
        <4>5. ~Before(i, a, n, k)
          BY <4>2, <4>4, <1>1 DEF Split
        <4> QED BY <4>1, <4>5, <2>1 DEF ToCome
      <3> QED BY <3>1, <3>2, <2>3 DEF Complete
    <2>4. After(q - 1) = After(p)
      <3>1. q - 1 \in 0..Len(history) /\ p <= q - 1
        BY <1>0, <1>4
      <3> QED BY <3>1, <2>3, AfterSkip
    <2>5. After(q) = FoldEntry(After(q - 1), e)
      BY <1>2, <1>7, AfterStep
    <2> QED BY <2>2, <2>4, <2>5
  <1> QED BY <1>6, <1>7

LEMMA GoodSegment ==
  ASSUME TypeOK, Shape, Files, Stamped, Complete, NEW n \in live, NEW acc, Good(acc, n, 0)
  PROVE  Good(FoldEntries(acc, data[n]), n + 1, 0)
PROOF
  <1>0. /\ n \in Nat /\ Len(data[n]) \in Nat
        /\ \A i \in live : i \in Nat /\ Len(data[i]) \in Nat
    BY DEF Shape
  <1>1. PICK f : /\ f[0] = acc /\ \A k \in 1..Len(data[n]) : f[k] = FoldEntry(f[k - 1], data[n][k])
                 /\ FoldEntries(acc, data[n]) = f[Len(data[n])]
    BY <1>0, FoldEntriesIs
  <1> DEFINE S == {k \in Nat : k <= Len(data[n]) => Good(f[k], n, k)}
  <1>2. 0 \in S
    BY <1>1
  <1>3. ASSUME NEW k \in S PROVE k + 1 \in S
    <2> SUFFICES ASSUME k + 1 <= Len(data[n]) PROVE Good(f[k + 1], n, k + 1)
      OBVIOUS
    <2>1. k \in Nat /\ k + 1 \in 1..Len(data[n]) /\ (k + 1) - 1 = k /\ Good(f[k], n, k)
      BY <1>0
    <2>2. f[k + 1] = FoldEntry(f[k], data[n][k + 1])
      BY ONLY <2>1, <1>1
    <2>3. Good(FoldEntry(f[k], data[n][k + 1]), n, k + 1)
      BY <2>1, GoodStep
    <2> QED BY <2>2, <2>3
  <1>4. S = Nat
    <2>1. S \subseteq Nat
      OBVIOUS
    <2> HIDE DEF S
    <2> QED BY <1>2, <1>3, <2>1, Induct
  <1>5. Good(f[Len(data[n])], n, Len(data[n]))
    <2>1. Len(data[n]) \in S /\ Len(data[n]) <= Len(data[n])
      BY <1>0, <1>4
    <2> QED BY <2>1
  <1>6. \A i \in live : \A a \in 1..Len(data[i]) :
          Before(i, a, n, Len(data[n])) <=> Before(i, a, n + 1, 0)
    BY <1>0 DEF Before
  <1>7. ASSUME NEW x, Good(x, n, Len(data[n])) PROVE Good(x, n + 1, 0)
    <2>1. ToCome(n, Len(data[n])) => ToCome(n + 1, 0)
      BY <1>6 DEF ToCome
    <2>2. \A p : Split(n, Len(data[n]), p) => Split(n + 1, 0, p)
      BY <1>6 DEF Split
    <2> QED BY <1>7, <2>1, <2>2 DEF Good
  <1> QED BY <1>1, <1>5, <1>7

LEMMA GoodGap ==
  ASSUME Shape, NEW n \in Nat, n \notin live, NEW acc, Good(acc, n, 0)
  PROVE  Good(acc, n + 1, 0)
PROOF
  <1>0. \A i \in live : i \in Nat /\ Len(data[i]) \in Nat /\ i # n
    BY DEF Shape
  <1>6. \A i \in live : \A a \in 1..Len(data[i]) : Before(i, a, n, 0) <=> Before(i, a, n + 1, 0)
    BY <1>0 DEF Before
  <1>1. ToCome(n, 0) => ToCome(n + 1, 0)
    BY <1>6 DEF ToCome
  <1>2. \A p : Split(n, 0, p) => Split(n + 1, 0, p)
    BY <1>6 DEF Split
  <1> QED BY <1>1, <1>2 DEF Good

LEMMA GoodEnd ==
  ASSUME Shape, Files, NEW n \in Nat, \A i \in live : i < n \/ Len(data[i]) = 0, NEW acc,
         Good(acc, n, 0)
  PROVE  acc = After(Len(history))
PROOF
  <1>0. /\ Len(history) \in Nat /\ (history = <<>> <=> Len(history) = 0)
        /\ \A i \in live : i \in Nat /\ Len(data[i]) \in Nat
    BY DEF Shape
  <1>1. PICK p \in 0..Len(history) : Split(n, 0, p) /\ (acc = After(p) \/ ToCome(n, 0))
    BY DEF Good
  <1>2. \A i \in live : \A a \in 1..Len(data[i]) : Before(i, a, n, 0)
    BY <1>0 DEF Before
  <1>3. ~ToCome(n, 0)
    BY <1>2 DEF ToCome
  <1>4. p = Len(history)
    <2>1. CASE Len(history) = 0
      BY <2>1
    <2>2. CASE Len(history) # 0
      <3>1. PICK i \in live : Len(data[i]) # 0 /\ data[i][Len(data[i])] = history[Len(history)]
        BY <2>2, <1>0 DEF Files, HeadInFile
      <3>2. Len(data[i]) \in 1..Len(data[i]) /\ Len(history) \in 1..Len(history)
        BY <3>1, <2>2, <1>0
      <3>3. Len(history) <= p
        BY <3>1, <3>2, <1>1, <1>2 DEF Split
      <3> QED BY <3>3, <1>0
    <2> QED BY <2>1, <2>2
  <1> QED BY <1>1, <1>3, <1>4

(* replay_fast and replay_full alike recover the fold of every record of   *)
(* the history.                                                            *)
LEMMA ReplayIs ==
  ASSUME TypeOK, Shape, Files, Stamped, Complete
  PROVE  Replay = After(Len(history))
PROOF
  <1>0. /\ live \subseteq 0..MaxSegment /\ Len(history) \in Nat
        /\ \A i \in live : i \in Nat /\ Len(data[i]) \in Nat /\ IsLog(data[i])
    BY DEF Shape, Index, TypeOK
  <1>1. CASE NonEmpty # {} /\ StartsWithCheckpoint(Max(NonEmpty))
    <2> DEFINE m == Max(NonEmpty)
    <2>1. m \in NonEmpty /\ \A i \in NonEmpty : m >= i
      <3>1. NonEmpty \subseteq 0..MaxSegment
        BY <1>0 DEF NonEmpty
      <3> QED BY <3>1, <1>1, BoundsAssumption, GreatestNumber
    <2> HIDE DEF m
    <2>2. m \in live /\ data[m] # <<>> /\ m \in Nat /\ IsLog(data[m])
      BY <2>1, <1>0 DEF NonEmpty
    <2>3. Len(data[m]) # 0 /\ 1 \in 1..Len(data[m]) /\ Head(data[m]) = data[m][1]
      BY <2>2, <1>0, LogShape, HeadOfLog
    <2>4. IsCheckpoint(data[m][1])
      BY <2>3, <1>1 DEF StartsWithCheckpoint, m
    <2>5. PICK q \in 1..Len(history) : history[q] = data[m][1]
      BY <2>2, <2>3 DEF Files, AllKnown, Known
    <2>6. Split(m, 1, q)
      BY <2>2, <2>3, <2>5, SplitAt
    <2>7. Split(m, 0, q - 1)
      <3> SUFFICES ASSUME NEW i \in live, NEW a \in 1..Len(data[i]), NEW r \in 1..Len(history),
                          history[r] = data[i][a]
                   PROVE  r <= q - 1 <=> Before(i, a, m, 0)
        BY DEF Split
      <3>1. r <= q <=> Before(i, a, m, 1)
        BY <2>6 DEF Split
      <3>2. i = m /\ a = 1 => r = q
        BY <2>5, Places DEF Files
      <3>3. r = q => i = m /\ a = 1
        <4>1. i \in Nat /\ Len(data[i]) \in Nat /\ history[q].rev \in Nat
          BY <1>0 DEF Shape
        <4>2. i < m => history[r].rev < history[q].rev
          BY <2>2, <2>3, <2>5 DEF Files, InOrder
        <4>3. m < i \/ (m = i /\ 1 < a) => history[q].rev < history[r].rev
          BY <2>2, <2>3, <2>5 DEF Files, InOrder
        <4> QED BY <4>1, <4>2, <4>3, <2>2
      <3> QED BY <3>1, <3>2, <3>3, <1>0, <2>2 DEF Before
    <2>8. ToCome(m, 0)
      <3>1. ~Before(m, 1, m, 0)
        BY <2>2 DEF Before
      <3> QED BY <3>1, <2>2, <2>3, <2>4 DEF ToCome
    <2>9. Good(EmptySnapshot, m, 0)
      <3>1. q - 1 \in 0..Len(history)
        BY <1>0
      <3> QED BY <3>1, <2>7, <2>8 DEF Good
    <2>10. Good(FoldEntries(EmptySnapshot, data[m]), m + 1, 0)
      BY <2>2, <2>9, GoodSegment
    <2>11. ASSUME NEW i \in live PROVE i < m + 1 \/ Len(data[i]) = 0
      <3>1. Len(data[i]) # 0 => i \in NonEmpty
        BY <1>0, LogShape DEF NonEmpty
      <3> QED BY <3>1, <2>1, <2>2, <1>0
    <2>12. m + 1 \in Nat
      BY <2>2
    <2>13. FoldEntries(EmptySnapshot, data[m]) = After(Len(history))
      BY <2>10, <2>11, <2>12, GoodEnd
    <2> QED BY <2>13, <1>1 DEF Replay, m
  <1>2. CASE ~(NonEmpty # {} /\ StartsWithCheckpoint(Max(NonEmpty)))
    <2>1. PICK f : /\ f[0] = EmptySnapshot
                   /\ \A k \in 1..(MaxSegment + 1) :
                        f[k] = IF k - 1 \in live THEN FoldEntries(f[k - 1], data[k - 1])
                               ELSE f[k - 1]
                   /\ ReplayFull = f[(MaxSegment + 1)]
      BY ReplayFullIs
    <2> DEFINE S == {k \in Nat : k <= MaxSegment + 1 => Good(f[k], k, 0)}
    <2>2. 0 \in S
      <3>1. \A i \in live : \A a \in 1..Len(data[i]) : ~Before(i, a, 0, 0)
        BY <1>0 DEF Before
      <3>2. Split(0, 0, 0)
        BY <3>1 DEF Split
      <3>3. f[0] = After(0) /\ 0 \in 0..Len(history)
        BY <2>1, <1>0, AfterZero
      <3>4. Good(f[0], 0, 0)
        BY <3>2, <3>3 DEF Good
      <3> QED BY <3>4
    <2>3. ASSUME NEW k \in S PROVE k + 1 \in S
      <3> SUFFICES ASSUME k + 1 <= MaxSegment + 1 PROVE Good(f[k + 1], k + 1, 0)
        OBVIOUS
      <3>1. k \in Nat /\ k + 1 \in 1..(MaxSegment + 1) /\ (k + 1) - 1 = k /\ Good(f[k], k, 0)
        BY BoundsAssumption
      <3>2. f[k + 1] = IF k \in live THEN FoldEntries(f[k], data[k]) ELSE f[k]
        BY ONLY <3>1, <2>1
      <3>3. CASE k \in live
        BY <3>1, <3>2, <3>3, GoodSegment
      <3>4. CASE k \notin live
        BY <3>1, <3>2, <3>4, GoodGap
      <3> QED BY <3>3, <3>4
    <2>4. S = Nat
      <3>1. S \subseteq Nat
        OBVIOUS
      <3> HIDE DEF S
      <3> QED BY <2>2, <2>3, <3>1, Induct
    <2>5. Good(f[MaxSegment + 1], MaxSegment + 1, 0)
      <3>1. MaxSegment + 1 \in S /\ MaxSegment + 1 <= MaxSegment + 1
        BY <2>4, BoundsAssumption
      <3> QED BY <3>1
    <2>6. MaxSegment + 1 \in Nat /\ \A i \in live : i < MaxSegment + 1
      BY <1>0, BoundsAssumption
    <2>7. f[MaxSegment + 1] = After(Len(history))
      BY <2>5, <2>6, GoodEnd
    <2> QED BY <2>1, <2>7, <1>2 DEF Replay
  <1> QED BY <1>1, <1>2
-----------------------------------------------------------------------------
(* The content of the log is kept by every step *)

LEMMA StampedKept ==
  ASSUME history' = history, Stamped
  PROVE  Stamped' /\ \A x : (x = After(Len(history)) => x = After(Len(history))')
PROOF
  <1>1. Stamped'
    BY DEF Stamped, After
  <1> QED BY <1>1 DEF After

(* Files that lose nothing keep the history complete. *)
LEMMA CompleteKept ==
  ASSUME history' = history, Complete, Shape,
         \A e : InFiles(e) => (InFiles(e) \/ Subsumed(e))',
         \A e : e.rev \in Nat /\ Subsumed(e) => Subsumed(e)'
  PROVE  Complete'
PROOF
  <1> SUFFICES ASSUME NEW k \in 1..Len(history), NEW e, e = history[k]
               PROVE  IsCheckpoint(e) \/ (InFiles(e) \/ Subsumed(e))'
    BY DEF Complete, InFiles, At, Subsumed, IsCheckpoint
  <1>1. e.rev \in Nat /\ (IsCheckpoint(e) \/ InFiles(e) \/ Subsumed(e))
    BY DEF Complete, Shape
  <1> QED BY <1>1

LEMMA ContentQuiet ==
  ASSUME live' = live, data' = data, history' = history, Content, Shape,
         \/ pc' = "closed"
         \/ pc # "closed" /\ state' = state
         \/ \A x : x = After(Len(history)) => state' = x
  PROVE  Content'
PROOF
  <1>1. Stamped' /\ \A x : (x = After(Len(history)) => x = After(Len(history))')
    BY StampedKept DEF Content
  <1>2. Complete'
    <2>1. \A e : InFiles(e) => (InFiles(e) \/ Subsumed(e))'
      BY DEF InFiles, At
    <2>2. \A e : Subsumed(e) => Subsumed(e)'
      BY DEF Subsumed
    <2> QED BY <2>1, <2>2, CompleteKept DEF Content
  <1>3. StateIs'
    BY <1>1 DEF Content, StateIs
  <1> QED BY <1>1, <1>2, <1>3 DEF Content

LEMMA ContentWritten ==
  ASSUME IInv, IInv', Content, pc # "closed", NEW kind, NEW is_record, WriteRecord(kind, is_record),
         kind.type = "Checkpoint" => kind.snapshot = state
  PROVE  Content'
PROOF
  <1>s. TypeOK /\ TypeOK' /\ Shape /\ ~torn[index] /\ index \in live /\ index \in Index
    BY Shapes DEF IInv, Writer, WriterPlaced, Shape
  <1> DEFINE e == Entry(next_rev, kind)
             n == Len(history)
  <1>1. /\ \A i \in Index \ {index} : data'[i] = data[i]
        /\ Len(data'[index]) = Len(data[index]) + 1
        /\ \A k \in 1..Len(data[index]) : data'[index][k] = data[index][k]
        /\ data'[index][Len(data[index]) + 1] = e
        /\ Len(history') = n + 1
        /\ \A k \in 1..n : history'[k] = history[k]
        /\ history'[n + 1] = e
        /\ e.kind = kind
    BY <1>s, FileWritten
  <1> HIDE DEF e
  <1>2. n \in Nat /\ live \subseteq Index /\ \A i \in Index : Len(data[i]) \in Nat
    BY <1>s DEF Shape
  <1>3. live' = live /\ state' = FoldEntry(state, e)
    BY DEF WriteRecord, e
  <1>4. \A k \in 0..n : After(k)' = After(k)
    <2>1. n \in 0..Len(history) /\ n <= Len(history')
      BY <1>1, <1>2
    <2> QED BY <1>1, <1>s, <2>1, AfterKept
  <1>5. state = After(n)
    BY DEF Content, StateIs
  <1>6. Folded(history', n + 1) = IF IsCheckpoint(e) THEN After(n) ELSE FoldEntry(After(n), e)
    <2>1. IsLog(history') /\ n + 1 \in 1..Len(history') /\ (n + 1) - 1 = n /\ n \in 0..n
      BY <1>s, <1>1, <1>2 DEF TypeOK
    <2>2. Folded(history', n) = After(n)
      BY <2>1, <1>4 DEF After
    <2> HIDE DEF n
    <2> QED BY <2>1, <2>2, <1>1, FoldedStep
  <1>7. state' = Folded(history', n + 1)
    BY <1>1, <1>3, <1>5, <1>6 DEF FoldEntry, IsCheckpoint
  <1>8. StateIs'
    BY <1>1, <1>7 DEF StateIs, After
  <1>9. Stamped'
    <2> SUFFICES ASSUME NEW k \in 1..n + 1, IsCheckpoint(history'[k])
                 PROVE  history'[k].kind.snapshot = Folded(history', k - 1)
      BY <1>1 DEF Stamped, After, IsCheckpoint
    <2>1. CASE k \in 1..n
      <3>1. k - 1 \in 0..n /\ history'[k] = history[k]
        BY <2>1, <1>1, <1>2
      <3>2. history[k].kind.snapshot = After(k - 1)
        BY <2>1, <3>1 DEF Content, Stamped
      <3>3. Folded(history', k - 1) = After(k - 1)
        BY <3>1, <1>4 DEF After
      <3> QED BY <3>1, <3>2, <3>3
    <2>2. CASE k = n + 1
      <3>1. k - 1 = n /\ n \in 0..n
        BY <2>2, <1>2
      <3>2. Folded(history', n) = After(n)
        BY <3>1, <1>4 DEF After
      <3>3. history'[k].kind.snapshot = state
        BY <2>2, <1>1 DEF IsCheckpoint
      <3> QED BY <3>1, <3>2, <3>3, <1>5
    <2> QED BY <2>1, <2>2, <1>2
  <1>10. ASSUME NEW i \in live, NEW a \in 1..Len(data[i])
         PROVE  i \in live' /\ a \in 1..Len(data'[i]) /\ data'[i][a] = data[i][a]
    <2>1. CASE i = index
      BY <2>1, <1>1, <1>2, <1>3
    <2>2. CASE i # index
      BY <2>2, <1>1, <1>2, <1>3
    <2> QED BY <2>1, <2>2
  <1>11. \A x : (InFiles(x) => InFiles(x)') /\ (Subsumed(x) => Subsumed(x)')
    BY <1>10 DEF InFiles, At, Subsumed
  <1>12. Complete'
    <2> SUFFICES ASSUME NEW k \in 1..n + 1, NEW x, x = history'[k]
                 PROVE  IsCheckpoint(x) \/ InFiles(x)' \/ Subsumed(x)'
      BY <1>1 DEF Complete, InFiles, At, Subsumed, IsCheckpoint
    <2>1. CASE k \in 1..n
      <3>1. IsCheckpoint(x) \/ InFiles(x) \/ Subsumed(x)
        BY <2>1, <1>1 DEF Content, Complete
      <3> QED BY <3>1, <1>11
    <2>2. CASE k = n + 1
      <3>1. x = data'[index][Len(data[index]) + 1] /\ Len(data[index]) + 1 \in 1..Len(data'[index])
        BY <2>2, <1>1, <1>2, <1>s
      <3> QED BY <3>1, <1>3, <1>s DEF InFiles, At
    <2> QED BY <2>1, <2>2, <1>2
  <1> QED BY <1>8, <1>9, <1>12 DEF Content

(* A file that is created over an empty one, or none. *)
LEMMA ContentCreated ==
  ASSUME IInv, Content, NEW i \in Index, NEW durable \in [Index -> Nat], CreateFile(i, durable),
         i \in live => Len(data[i]) = 0, history' = history,
         \/ pc' = "closed"
         \/ pc # "closed" /\ state' = state
         \/ \A x : x = After(Len(history)) => state' = x
  PROVE  Content'
PROOF
  <1>s. TypeOK /\ Shape
    BY Shapes DEF IInv
  <1>1. /\ \A j \in Index \ {i} : data'[j] = data[j] 
        /\ live' = live \cup {i}
    BY <1>s, FileCreated DEF CreateFile
  <1>2. \A j \in live : j \in Index /\ Len(data[j]) \in Nat
    BY <1>s DEF Shape
  <1>3. ASSUME NEW j \in live, NEW a \in 1..Len(data[j])
        PROVE  j \in live' /\ a \in 1..Len(data'[j]) /\ data'[j][a] = data[j][a]
    <2>1. j # i
      BY <1>2
    <2> QED BY <2>1, <1>1, <1>2
  <1>4. \A x : (InFiles(x) => InFiles(x)') /\ (Subsumed(x) => Subsumed(x)')
    BY <1>3 DEF InFiles, At, Subsumed
  <1>5. Complete'
    BY <1>4, <1>s, CompleteKept DEF Content
  <1>6. Stamped' /\ \A x : (x = After(Len(history)) => x = After(Len(history))')
    BY StampedKept DEF Content
  <1>7. StateIs'
    BY <1>6 DEF Content, StateIs
  <1> QED BY <1>5, <1>6, <1>7 DEF Content

LEMMA ContentCompacted ==
  ASSUME IInv, Content, CompactRemove
  PROVE  Content'
PROOF
  <1>s. TypeOK /\ Shape /\ Files /\ Compacting
    BY Shapes DEF IInv, Directory
  <1> DEFINE m == Min(live)
  <1>1. /\ cut # None /\ m < cut /\ live' = live \ {m} /\ data' = data /\ history' = history
        /\ pc' = pc /\ state' = state
    BY DEF CompactRemove, writerVars
  <1>2. m \in live /\ m \in Nat /\ \A i \in live : i \in Nat /\ Len(data[i]) \in Nat
    <2>1. live \subseteq Nat /\ live # {}
      BY <1>s DEF Shape, CompactRemove
    <2>2. m \in live
      BY <2>1, LeastNumber
    <2> QED BY <2>1, <2>2, <1>s DEF Shape
  <1> HIDE DEF m
  <1>3. /\ cut \in live' /\ 1 \in 1..Len(data'[cut]) /\ IsCheckpoint(data'[cut][1])
        /\ cut \in live /\ 1 \in 1..Len(data[cut]) /\ data'[cut] = data[cut]
    BY <1>1, <1>2, <1>s DEF Compacting
  <1>4. ASSUME NEW a \in 1..Len(data[m]) PROVE data[m][a].rev < data'[cut][1].rev
    BY <1>1, <1>2, <1>3, <1>s DEF Files, InOrder
  <1>5. \A i \in live : \A a \in 1..Len(data[i]) : data[i][a].rev \in Nat
    BY <1>s DEF Shape
  <1>6. ASSUME NEW e, InFiles(e) PROVE (InFiles(e) \/ Subsumed(e))'
    <2>1. PICK i \in live : \E a \in 1..Len(data[i]) : data[i][a] = e
      BY <1>6 DEF InFiles, At
    <2>2. PICK a \in 1..Len(data[i]) : data[i][a] = e
      BY <2>1
    <2>3. CASE i # m
      BY <2>2, <2>3, <1>1 DEF InFiles, At
    <2>4. CASE i = m
      <3>1. e.rev < data'[cut][1].rev /\ e.rev \in Nat /\ data'[cut][1].rev \in Nat
        BY <2>2, <2>4, <1>2, <1>3, <1>4, <1>5
      <3>2. data'[cut][1].rev > e.rev
        BY ONLY <3>1
      <3> QED BY <3>2, <1>3 DEF Subsumed
    <2> QED BY <2>3, <2>4
  <1>7. ASSUME NEW e, e.rev \in Nat, Subsumed(e) PROVE Subsumed(e)'
    <2>1. PICK i \in live : \E a \in 1..Len(data[i]) :
             IsCheckpoint(data[i][a]) /\ data[i][a].rev > e.rev
      BY <1>7 DEF Subsumed
    <2>2. PICK a \in 1..Len(data[i]) : IsCheckpoint(data[i][a]) /\ data[i][a].rev > e.rev
      BY <2>1
    <2>3. CASE i # m
      BY <2>2, <2>3, <1>1 DEF Subsumed
    <2>4. CASE i = m
      <3> SUFFICES data'[cut][1].rev > e.rev
        BY <1>3 DEF Subsumed
      <3>1. data[m][a].rev < data'[cut][1].rev /\ data[m][a].rev > e.rev
        BY <2>2, <2>4, <1>4
      <3>2. data[m][a].rev \in Nat /\ data'[cut][1].rev \in Nat
        BY <2>4, <1>2, <1>3, <1>5
      <3> QED BY ONLY <3>1, <3>2, <1>7
    <2> QED BY <2>3, <2>4
  <1>8. Complete'
    BY <1>1, <1>6, <1>7, <1>s, CompleteKept DEF Content
  <1>9. Stamped' /\ \A x : (x = After(Len(history)) => x = After(Len(history))')
    BY <1>1, StampedKept DEF Content
  <1>10. StateIs'
    BY <1>1, <1>9 DEF Content, StateIs
  <1> QED BY <1>8, <1>9, <1>10 DEF Content

LEMMA ContentLost ==
  ASSUME Sane, Gapless, IInv, IInv', Content, PowerLoss
  PROVE  Content'
PROOF
  <1>s. TypeOK /\ TypeOK' /\ Shape /\ Files /\ Directory
    BY Shapes DEF IInv
  <1>1. /\ "compact" \notin Env /\ pc' = "closed"
        /\ Len(history') <= Len(history) /\ \A k \in 1..Len(history') : history'[k] = history[k]
    BY <1>s, FilesCut, HistoryCut DEF PowerLoss, ProcessDies
  <1>2. Len(history) \in Nat /\ Len(history') \in Nat
    BY <1>s, LogShape DEF TypeOK
  <1>3. \A k \in 0..Len(history') : Folded(history', k) = After(k)
    <2>1. PICK n : n = Len(history')
      OBVIOUS
    <2>2. n \in 0..Len(history) /\ n <= Len(history') /\ \A k \in 1..n : history'[k] = history[k]
      BY <2>1, <1>1, <1>2
    <2>3. \A k \in 0..n : After(k)' = After(k)
      BY <2>2, <1>s, AfterKept
    <2> QED BY <2>1, <2>3 DEF After
  <1>4. Stamped'
    <2> SUFFICES ASSUME NEW k \in 1..Len(history'), IsCheckpoint(history'[k])
                 PROVE  history'[k].kind.snapshot = Folded(history', k - 1)
      BY DEF Stamped, After, IsCheckpoint
    <2>1. k \in 1..Len(history) /\ k - 1 \in 0..Len(history') /\ history'[k] = history[k]
      BY <1>1, <1>2
    <2>2. history[k].kind.snapshot = After(k - 1)
      BY <2>1 DEF Content, Stamped
    <2> QED BY <2>1, <2>2, <1>3
  <1>5. Complete'
    <2>1. Orderly
      BY <1>1 DEF Orderly, Gapless, PowerLoss
    <2> QED BY <2>1 DEF IInv, Files, RecordsInFiles, Complete
  <1> QED BY <1>1, <1>4, <1>5 DEF Content, StateIs

LEMMA ContentInit == Init => Content
PROOF
  <1> SUFFICES ASSUME Init PROVE Content
    OBVIOUS
  <1>1. \A k \in 1..Len(history) : FALSE
    BY LogEmpty DEF Init
  <1> QED BY <1>1 DEF Init, Content, Stamped, Complete, StateIs

(* Every step but a power loss. *)
Powered ==
  \/ OpenFresh \/ OpenFreshFails \/ OpenExisting
  \/ \E kind \in Kinds : AppendBuffered(kind) \/ Roll(kind)
  \/ AppendFails \/ RollFails \/ SwitchSegment \/ SwitchFails
  \/ StampCheckpoint \/ StampFails \/ AppendAfterRoll \/ AppendAfterRollFails
  \/ Sync \/ SyncFails \/ ForceCheckpoint \/ SyncForced \/ SyncForcedFails
  \/ CompactBegin \/ CompactRemove \/ CompactEnd \/ Kill

LEMMA ContentStep ==
  ASSUME Sane, IInv, Content, \/ UNCHANGED vars \/ Powered \/ (PowerLoss /\ Gapless)
  PROVE  Content'
PROOF
  <1>n. [Next]_vars
    BY DEF Powered, Next
  <1>s. TypeOK /\ Shape /\ Files /\ Stamped /\ Complete /\ IInv'
    BY <1>n, Shapes, NextIInv DEF IInv, Content
  <1>r. Replay = After(Len(history))
    BY <1>s, ReplayIs
  <1>k. \A kind \in Kinds \cup {NoJob} : kind.type # "Checkpoint"
    BY KindsAssumption DEF RecordKind, NoJob
  <1>c. /\ 0 \in Index /\ synced \in [Index -> Nat] /\ SyncedFile \in [Index -> Nat]
        /\ job \in Kinds \cup {NoJob}
    <2>1. 0 \in Index
      BY ONLY BoundsAssumption DEF Index
    <2>2. synced \in [Index -> Nat] /\ job \in Kinds \cup {NoJob}
      BY ONLY <1>s DEF TypeOK
    <2> QED BY ONLY <2>1, <2>2, <1>s, SyncedMore
  <1>1. ASSUME NEW kind \in Kinds, AppendBuffered(kind) PROVE Content'
    BY <1>1, <1>s, <1>k, ContentWritten DEF AppendBuffered
  <1>2. ASSUME NEW kind \in Kinds, Roll(kind) PROVE Content'
    <2>1. /\ index + 1 \in Index /\ CreateFile(index + 1, SyncedFile) /\ history' = history
          /\ pc # "closed" /\ state' = state
      BY <1>2 DEF Roll, writerVars
    <2>2. index + 1 \in live => Len(data[index + 1]) = 0
      <3>1. index + 1 > index
        BY <1>s DEF Shape
      <3> QED BY <3>1, <2>1 DEF IInv, Writer, WriterPlaced, Empty
    <2> QED BY <2>1, <2>2, <1>c, ContentCreated
  <1>3. CASE StampCheckpoint \/ ForceCheckpoint
    <2>1. CheckpointKind(state).snapshot = state
      BY DEF CheckpointKind
    <2> QED BY <2>1, <1>3, <1>s, ContentWritten DEF StampCheckpoint, ForceCheckpoint
  <1>4. CASE AppendAfterRoll
    BY <1>4, <1>s, <1>k, <1>c, ContentWritten DEF AppendAfterRoll
  <1>5. CASE OpenFresh
    <2>1. CreateFile(0, synced) /\ history' = history /\ state' = Replay /\ 0 \notin live
      BY <1>5 DEF OpenFresh
    <2> QED BY <2>1, <1>c, <1>r, ContentCreated
  <1>6. CASE OpenFreshFails
    <2>1. CreateFile(0, synced) /\ history' = history /\ pc' = "closed" /\ 0 \notin live
      BY <1>6 DEF OpenFreshFails
    <2> QED BY <2>1, <1>c, ContentCreated
  <1>7. CASE OpenExisting
    BY <1>7, <1>r, <1>s, ContentQuiet DEF OpenExisting
  <1>8. CASE CompactRemove
    BY <1>8, ContentCompacted
  <1>9. CASE PowerLoss /\ Gapless
    BY <1>9, <1>s, ContentLost
  <1>10. CASE Kill
    BY <1>10, <1>s, ContentQuiet DEF Kill, ProcessDies
  <1>11. CASE \/ AppendFails \/ RollFails \/ SwitchSegment \/ SwitchFails \/ StampFails
              \/ AppendAfterRollFails \/ Sync \/ SyncFails \/ SyncForced \/ SyncForcedFails
    <2>1. live' = live /\ data' = data /\ history' = history /\ state' = state /\ pc # "closed"
      BY <1>11 DEF AppendFails, RollFails, SwitchSegment, SwitchFails, StampFails,
         AppendAfterRollFails, Sync, SyncFails, SyncForced, SyncForcedFails, WriteFails, writerVars,
         diskVars
    <2> QED BY <2>1, <1>s, ContentQuiet
  <1>12. CASE CompactBegin \/ CompactEnd \/ UNCHANGED vars
    <2>1. live' = live /\ data' = data /\ history' = history /\ state' = state /\ pc' = pc
      BY <1>12 DEF CompactBegin, CompactEnd, vars, writerVars, diskVars
    <2> QED BY <2>1, <1>s, ContentQuiet
  <1> QED
    BY <1>1, <1>2, <1>3, <1>4, <1>5, <1>6, <1>7, <1>8, <1>9, <1>10, <1>11, <1>12 DEF Powered

(* Every checkpoint on record holds the fold of the records before it, every *)
(* record is in a file or under a later checkpoint, and the writer's running *)
(* state is the fold of all records: what append.rs keeps between steps.     *)
THEOREM ContentInvariant ==
  ASSUME Sane, Gapless
  PROVE  Spec => [](IInv /\ Content)
PROOF
  <1>1. Init => IInv /\ Content
    BY InitIInv, ContentInit
  <1>2. (IInv /\ Content) /\ [Next]_vars => (IInv /\ Content)'
    <2>1. Next => Powered \/ PowerLoss
      BY DEF Next, Powered
    <2> QED BY <2>1, NextIInv, ContentStep
  <1> QED BY <1>1, <1>2, PTL DEF Spec

(* append.rs open and fold: the running state an open writer would stamp into *)
(* its next checkpoint, and the rev it assigns next, are those a reopen would *)
(* find, through rolls, failed syncs, compaction, kills and power losses.     *)
THEOREM RunningStateIsReplay ==
  ASSUME Sane, Gapless
  PROVE  Spec => []WriterMatchesDisk
PROOF
  <1>1. IInv /\ Content => WriterMatchesDisk
    <2> SUFFICES ASSUME IInv, Content, pc # "closed"
                 PROVE  state = Replay /\ next_rev = RevHead + 1
      BY DEF WriterMatchesDisk
    <2>s. TypeOK /\ Shape /\ Files /\ NextRevIs
      BY Shapes DEF IInv, Writer, WriterPlaced
    <2>1. state = Replay
      BY <2>s, ReplayIs DEF Content, StateIs
    <2>2. RevHead = IF Len(history) = 0 THEN None ELSE history[Len(history)].rev
      BY <2>s, RevHeadIsLast
    <2>3. next_rev = RevHead + 1
      BY <2>2, <2>s DEF NextRevIs, Shape, None
    <2> QED BY <2>1, <2>3
  <1> QED BY <1>1, ContentInvariant, PTL

(* The segmented log implements DurableLog: an append-only log that a crash   *)
(* cuts behind the last announced rev, and whose running state is the fold of *)
(* its records, which compaction does not change.  Directory fsyncs may fail, *)
(* or the host may lose power, but not both: see Gapless.                     *)
THEOREM Refinement ==
  ASSUME Sane, Gapless
  PROVE  Spec => ImplementsDurableLog
PROOF
  <1> DEFINE Same == Replay = Abstract!FoldRecords(history)
  <1>1. IInv /\ Content => Same
    <2> SUFFICES ASSUME IInv, Content PROVE Same
      OBVIOUS
    <2>s. TypeOK /\ Shape /\ Files
      BY Shapes DEF IInv
    <2> QED BY <2>s, ReplayIs, AfterAll DEF Content
  <1>2. Same /\ history = <<>> /\ announced = {} => Abstract!Init
    <2> SUFFICES ASSUME Same, history = <<>>, announced = {} PROVE Abstract!Init
      OBVIOUS
    <2>1. Len(history) = 0
      BY LogEmpty
    <2>2. Abstract!FoldRecords(history) = EmptySnapshot
      BY <2>1, FoldRecordsIs
    <2> QED BY <2>2 DEF Abstract!Init, Abstract!EmptySnapshot, EmptySnapshot
  <1>3. Same /\ Same' /\ [LogStep]_<<history, announced>> => [Abstract!Next]_Abstract!vars
    <2> SUFFICES ASSUME Same, Same', [LogStep]_<<history, announced>>
                 PROVE  [Abstract!Next]_Abstract!vars
      OBVIOUS
    <2>1. CASE LogStep
      BY <2>1 DEF LogStep, Abstract!Next
    <2>2. CASE UNCHANGED <<history, announced>>
      BY <2>2 DEF Abstract!vars
    <2> QED BY <2>1, <2>2
  <1> HIDE DEF Same
  <1> QED
    BY <1>1, <1>2, <1>3, ContentInvariant, ImplementsLogSteps, PTL DEF ImplementsDurableLog,
       Abstract!Spec
-----------------------------------------------------------------------------
(* The Tailer: the folds it is made of *)

ViewFold(v, s, n, f) ==
  f = [k \in 0..n |-> IF k = 0 THEN v ELSE ApplyEntry(f[k - 1], s[k])]

LEMMA ViewFoldExists ==
  ASSUME NEW v, NEW s, NEW n \in Nat
  PROVE  \E f : ViewFold(v, s, n, f)
PROOF
  <1> DEFINE S == {k \in Nat : \E f : ViewFold(v, s, k, f)}
  <1>1. 0 \in S
    <2>1. ViewFold(v, s, 0, [k \in 0..0 |-> v])
      BY DEF ViewFold
    <2> QED BY <2>1
  <1>2. ASSUME NEW k \in S PROVE k + 1 \in S
    <2>1. PICK f : ViewFold(v, s, k, f)
      OBVIOUS
    <2> DEFINE last == ApplyEntry(f[k], s[k + 1])
               g == [j \in 0..k + 1 |-> IF j = k + 1 THEN last ELSE f[j]]
    <2>2. ASSUME NEW j \in 0..k + 1
          PROVE  g[j] = IF j = 0 THEN v ELSE ApplyEntry(g[j - 1], s[j])
      <3> HIDE DEF S
      <3>0. k \in Nat
        BY <1>2 DEF S
      <3>1. CASE j = k + 1
        <4>1. j - 1 = k /\ j # 0 /\ k \in 0..k + 1 /\ k # k + 1
          BY <3>0, <3>1
        <4>2. g[j] = last /\ g[j - 1] = f[k]
          BY <3>1, <4>1
        <4> QED BY <3>1, <4>1, <4>2
      <3>2. CASE j = 0
        <4>1. g[j] = f[0] /\ f[0] = v
          BY <3>0, <3>2, <2>1 DEF ViewFold
        <4> QED BY <3>2, <4>1
      <3>3. CASE j \in 1..k
        <4>1. j # k + 1 /\ j - 1 # k + 1 /\ j - 1 \in 0..k + 1 /\ j # 0 /\ j \in 0..k
          BY <3>0, <3>3
        <4>2. g[j] = f[j] /\ g[j - 1] = f[j - 1]
          BY <4>1
        <4>3. f[j] = ApplyEntry(f[j - 1], s[j])
          BY <2>1, <4>1 DEF ViewFold
        <4> QED BY <4>1, <4>2, <4>3
      <3> QED BY <3>0, <3>1, <3>2, <3>3
    <2>3. ViewFold(v, s, k + 1, g)
      <3> HIDE DEF last
      <3> QED BY <2>2 DEF ViewFold
    <2> QED BY <2>3
  <1>3. S = Nat
    <2>1. S \subseteq Nat
      OBVIOUS
    <2> HIDE DEF S
    <2> QED BY <1>1, <1>2, <2>1, Induct
  <1> QED BY <1>3

(* The view after a batch is the last value of a function that applies one *)
(* entry at a time.                                                        *)
LEMMA ApplyAllIs ==
  ASSUME NEW v, NEW s, Len(s) \in Nat
  PROVE  \E f : /\ f[0] = v
                /\ \A k \in 1..Len(s) : f[k] = ApplyEntry(f[k - 1], s[k])
                /\ ApplyAll(v, s) = f[Len(s)]
PROOF
  <1> DEFINE f == CHOOSE g : ViewFold(v, s, Len(s), g)
  <1>1. ApplyAll(v, s) = f[Len(s)]
    BY DEF ApplyAll, ViewFold
  <1>2. ViewFold(v, s, Len(s), f)
    BY ViewFoldExists
  <1> HIDE DEF f
  <1>3. f[0] = v
    BY <1>2 DEF ViewFold
  <1>4. ASSUME NEW k \in 1..Len(s) PROVE f[k] = ApplyEntry(f[k - 1], s[k])
    <2>1. k \in 0..Len(s) /\ k # 0
      OBVIOUS
    <2> QED BY <1>2, <2>1 DEF ViewFold
  <1> QED BY <1>1, <1>3, <1>4

KeptFold(s, n, f) ==
  f = [k \in 0..n |-> IF k = 0 THEN <<>>
                      ELSE IF s[k].rev > last_rev THEN Append(f[k - 1], s[k]) ELSE f[k - 1]]

LEMMA KeptFoldExists ==
  ASSUME NEW s, NEW n \in Nat
  PROVE  \E f : KeptFold(s, n, f)
PROOF
  <1> DEFINE S == {k \in Nat : \E f : KeptFold(s, k, f)}
  <1>1. 0 \in S
    <2>1. KeptFold(s, 0, [k \in 0..0 |-> <<>>])
      BY DEF KeptFold
    <2> QED BY <2>1
  <1>2. ASSUME NEW k \in S PROVE k + 1 \in S
    <2>1. PICK f : KeptFold(s, k, f)
      OBVIOUS
    <2> DEFINE last == IF s[k + 1].rev > last_rev THEN Append(f[k], s[k + 1]) ELSE f[k]
               g == [j \in 0..k + 1 |-> IF j = k + 1 THEN last ELSE f[j]]
    <2>2. ASSUME NEW j \in 0..k + 1
          PROVE  g[j] = IF j = 0 THEN <<>>
                        ELSE IF s[j].rev > last_rev THEN Append(g[j - 1], s[j]) ELSE g[j - 1]
      <3> HIDE DEF S
      <3>0. k \in Nat
        BY <1>2 DEF S
      <3>1. CASE j = k + 1
        <4>1. j - 1 = k /\ j # 0 /\ k \in 0..k + 1 /\ k # k + 1
          BY <3>0, <3>1
        <4>2. g[j] = last /\ g[j - 1] = f[k]
          BY <3>1, <4>1
        <4> QED BY <3>1, <4>1, <4>2
      <3>2. CASE j = 0
        <4>1. g[j] = f[0] /\ f[0] = <<>>
          BY <3>0, <3>2, <2>1 DEF KeptFold
        <4> QED BY <3>2, <4>1
      <3>3. CASE j \in 1..k
        <4>1. j # k + 1 /\ j - 1 # k + 1 /\ j - 1 \in 0..k + 1 /\ j # 0 /\ j \in 0..k
          BY <3>0, <3>3
        <4>2. g[j] = f[j] /\ g[j - 1] = f[j - 1]
          BY <4>1
        <4>3. f[j] = IF s[j].rev > last_rev THEN Append(f[j - 1], s[j]) ELSE f[j - 1]
          BY <2>1, <4>1 DEF KeptFold
        <4> QED BY <4>1, <4>2, <4>3
      <3> QED BY <3>0, <3>1, <3>2, <3>3
    <2>3. KeptFold(s, k + 1, g)
      <3> HIDE DEF last
      <3> QED BY <2>2 DEF KeptFold
    <2> QED BY <2>3
  <1>3. S = Nat
    <2>1. S \subseteq Nat
      OBVIOUS
    <2> HIDE DEF S
    <2> QED BY <1>1, <1>2, <2>1, Induct
  <1> QED BY <1>3

(* The filter of poll, one entry at a time. *)
LEMMA UndominatedIs ==
  ASSUME NEW s, Len(s) \in Nat
  PROVE  \E f : /\ f[0] = <<>>
                /\ \A k \in 1..Len(s) :
                     f[k] = IF s[k].rev > last_rev THEN Append(f[k - 1], s[k]) ELSE f[k - 1]
                /\ Undominated(s) = f[Len(s)]
PROOF
  <1> DEFINE f == CHOOSE g : KeptFold(s, Len(s), g)
  <1>1. Undominated(s) = f[Len(s)]
    BY DEF Undominated, KeptFold
  <1>2. KeptFold(s, Len(s), f)
    BY KeptFoldExists
  <1> HIDE DEF f
  <1>3. f[0] = <<>>
    BY <1>2 DEF KeptFold
  <1>4. ASSUME NEW k \in 1..Len(s)
        PROVE  f[k] = IF s[k].rev > last_rev THEN Append(f[k - 1], s[k]) ELSE f[k - 1]
    <2>1. k \in 0..Len(s) /\ k # 0
      OBVIOUS
    <2> QED BY <1>2, <2>1 DEF KeptFold
  <1> QED BY <1>1, <1>3, <1>4

(* Two logs in a row. *)
LEMMA LogConcat ==
  ASSUME NEW s, NEW t, IsLog(s), IsLog(t)
  PROVE  /\ IsLog(s \o t) /\ Len(s \o t) = Len(s) + Len(t)
         /\ \A k \in 1..Len(s) : (s \o t)[k] = s[k]
         /\ \A k \in 1..Len(t) : (s \o t)[Len(s) + k] = t[k]
PROOF
  <1> DEFINE S == Range(s) \cup Range(t)
  <1>1. s \in Seq(S) /\ t \in Seq(S)
    BY SeqMonotonic DEF IsLog
  <1>2. /\ Len(s) \in Nat /\ Len(t) \in Nat
        /\ \A k \in 1..Len(s) : s[k].rev \in Nat
        /\ \A k \in 1..Len(t) : t[k].rev \in Nat
    BY LogShape
  <1>3. PICK u : u = s \o t
    OBVIOUS
  <1>4. /\ u \in Seq(S) /\ Len(u) = Len(s) + Len(t)
        /\ \A i \in 1 .. Len(s) + Len(t) : u[i] = IF i <= Len(s) THEN s[i] ELSE t[i - Len(s)]
    <2> HIDE DEF S
    <2> QED BY <1>1, <1>3, ConcatProperties
  <1>5. \A k \in 1..Len(s) : u[k] = s[k]
    BY <1>2, <1>4
  <1>6. ASSUME NEW k \in 1..Len(t) PROVE u[Len(s) + k] = t[k]
    <2>1. Len(s) + k \in 1..Len(s) + Len(t) /\ ~(Len(s) + k <= Len(s)) /\ (Len(s) + k) - Len(s) = k
      BY <1>2
    <2> QED BY <2>1, <1>4
  <1>7. ASSUME NEW k \in 1..Len(u) PROVE u[k].rev \in Nat
    <2>1. CASE k <= Len(s)
      BY <2>1, <1>2, <1>4
    <2>2. CASE ~(k <= Len(s))
      <3>1. k - Len(s) \in 1..Len(t)
        BY <2>2, <1>2, <1>4
      <3> QED BY <3>1, <2>2, <1>2, <1>4
    <2> QED BY <2>1, <2>2
  <1>8. IsLog(u)
    <2> HIDE DEF S
    <2> QED BY <1>4, <1>7, LogFromElements
  <1> QED BY <1>3, <1>4, <1>5, <1>6, <1>8

(* The frames of a file behind an offset. *)
LEMMA LogRest ==
  ASSUME NEW s, IsLog(s), NEW b \in 0..Len(s)
  PROVE  /\ IsLog(SubSeq(s, b + 1, Len(s))) /\ Len(SubSeq(s, b + 1, Len(s))) = Len(s) - b
         /\ \A k \in 1..(Len(s) - b) : SubSeq(s, b + 1, Len(s))[k] = s[b + k]
PROOF
  <1>1. /\ Len(s) \in Nat /\ DOMAIN s = 1..Len(s)
        /\ \A k \in 1..Len(s) : s[k].rev \in Nat
    BY LogShape
  <1>2. \A k \in (b + 1)..Len(s) : s[k] \in Range(s)
    BY <1>1 DEF Range
  <1>3. PICK t : t = SubSeq(s, b + 1, Len(s))
    OBVIOUS
  <1>4. /\ t \in Seq(Range(s)) /\ Len(t) = (IF b + 1 <= Len(s) THEN Len(s) - (b + 1) + 1 ELSE 0)
        /\ \A k \in 1..(Len(s) - (b + 1) + 1) : t[k] = s[(b + 1) + k - 1]
    <2>1. b + 1 \in Int /\ Len(s) \in Int
      BY <1>1
    <2> QED BY <2>1, <1>2, <1>3, SubSeqProperties
  <1>5. Len(t) = Len(s) - b
    <2>1. CASE b + 1 <= Len(s)
      <3>1. Len(t) = Len(s) - (b + 1) + 1
        BY ONLY <1>4, <2>1
      <3> QED BY ONLY <3>1, <1>1, b \in 0..Len(s)
    <2>2. CASE ~(b + 1 <= Len(s))
      <3>1. Len(t) = 0
        BY ONLY <1>4, <2>2
      <3> QED BY ONLY <3>1, <2>2, <1>1, b \in 0..Len(s)
    <2> QED BY <2>1, <2>2
  <1>6. ASSUME NEW k \in 1..(Len(s) - b) PROVE t[k] = s[b + k]
    <2>1. k \in 1..(Len(s) - (b + 1) + 1) /\ (b + 1) + k - 1 = b + k
      BY <1>1
    <2> QED BY <2>1, <1>4
  <1>7. ASSUME NEW k \in 1..Len(t) PROVE t[k].rev \in Nat
    <2>1. k \in 1..(Len(s) - b) /\ b + k \in 1..Len(s)
      BY <1>1, <1>5
    <2> QED BY <2>1, <1>1, <1>6
  <1>8. IsLog(t)
    BY <1>4, <1>7, LogFromElements
  <1> QED BY <1>3, <1>5, <1>6, <1>8

(* A filter that nothing fails keeps everything. *)
LEMMA UndominatedAll ==
  ASSUME NEW s, IsLog(s), \A k \in 1..Len(s) : s[k].rev > last_rev
  PROVE  /\ IsLog(Undominated(s)) /\ Len(Undominated(s)) = Len(s)
         /\ \A k \in 1..Len(s) : Undominated(s)[k] = s[k]
PROOF
  <1>1. Len(s) \in Nat /\ \A k \in 1..Len(s) : s[k].rev \in Nat
    BY LogShape
  <1>2. PICK f : /\ f[0] = <<>>
                 /\ \A k \in 1..Len(s) :
                      f[k] = IF s[k].rev > last_rev THEN Append(f[k - 1], s[k]) ELSE f[k - 1]
                 /\ Undominated(s) = f[Len(s)]
    BY <1>1, UndominatedIs
  <1> DEFINE S == {k \in Nat : k <= Len(s) =>
                      IsLog(f[k]) /\ Len(f[k]) = k /\ \A j \in 1..k : f[k][j] = s[j]}
  <1>3. 0 \in S
    BY <1>2, LogEmpty
  <1>4. ASSUME NEW k \in S PROVE k + 1 \in S
    <2> SUFFICES ASSUME k + 1 <= Len(s)
                 PROVE  IsLog(f[k + 1]) /\ Len(f[k + 1]) = k + 1 /\ \A j \in 1..k + 1 :
                          f[k + 1][j] = s[j]
      OBVIOUS
    <2>1. /\ k \in Nat /\ k + 1 \in 1..Len(s) /\ (k + 1) - 1 = k
          /\ IsLog(f[k]) /\ Len(f[k]) = k /\ \A j \in 1..k : f[k][j] = s[j]
      BY <1>1
    <2> HIDE DEF S
    <2>2. f[k + 1] = Append(f[k], s[k + 1]) /\ s[k + 1].rev \in Nat
      BY <2>1, <1>1, <1>2
    <2>3. PICK u : u = Append(f[k], s[k + 1])
      OBVIOUS
    <2>4. /\ IsLog(u) /\ Len(u) = k + 1 /\ u[k + 1] = s[k + 1]
          /\ \A j \in 1..k : u[j] = f[k][j]
      BY <2>1, <2>2, <2>3, LogAppend
    <2>5. \A j \in 1..k + 1 : u[j] = s[j]
      BY <2>1, <2>4
    <2> QED BY <2>2, <2>3, <2>4, <2>5
  <1>5. S = Nat
    <2>1. S \subseteq Nat
      OBVIOUS
    <2> HIDE DEF S
    <2> QED BY <1>3, <1>4, <2>1, Induct
  <1>6. Len(s) \in S /\ Len(s) <= Len(s)
    BY <1>1, <1>5
  <1> QED BY <1>2, <1>6
-----------------------------------------------------------------------------
(* What a reader of the directory sees of a writer step: nothing, a new    *)
(* empty file behind all others, a frame at the end of a file, or the      *)
(* removal of the oldest file, before one that starts with a checkpoint.   *)
FilesSame == live' = live /\ data' = data /\ history' = history

FileAdded(i) ==
  /\ i \in Index /\ live' = live \cup {i} /\ history' = history
  /\ \A j \in live : j <= i
  /\ i # 0 => i - 1 \in live
  /\ i \in live => Len(data[i]) = 0
  /\ Len(data'[i]) = 0
  /\ \A j \in live : j # i => data'[j] = data[j]

FrameAdded(i, e) ==
  /\ i \in live /\ live' = live
  /\ Len(data'[i]) = Len(data[i]) + 1
  /\ \A k \in 1..Len(data[i]) : data'[i][k] = data[i][k]
  /\ data'[i][Len(data[i]) + 1] = e
  /\ \A j \in live : j # i => data'[j] = data[j]
  /\ Len(history') = Len(history) + 1
  /\ \A k \in 1..Len(history) : history'[k] = history[k]
  /\ history'[Len(history) + 1] = e
  /\ "dirsync_error" \in Env \/ IsCheckpoint(e) \/ \A j \in live : j <= i

StartsStamped(c) == Len(data[c]) # 0 /\ IsCheckpoint(data[c][1])

FileRemoved(m) ==
  /\ m \in live /\ live' = live \ {m} /\ data' = data /\ history' = history
  /\ \A j \in live : m <= j
  /\ \E c \in live : c > m /\ StartsStamped(c)

Seen ==
  \/ FilesSame
  \/ \E i : FileAdded(i)
  \/ \E i, e : FrameAdded(i, e)
  \/ \E m : FileRemoved(m)

LEMMA FrameWritten ==
  ASSUME IInv, pc # "closed", NEW kind, NEW is_record, WriteRecord(kind, is_record),
         "dirsync_error" \in Env \/ kind.type = "Checkpoint" \/ \A j \in live : j <= index
  PROVE  Seen
PROOF
  <1>s. TypeOK /\ Shape /\ index \in live /\ ~torn[index]
    BY Shapes DEF IInv, Writer, WriterPlaced
  <1> DEFINE e == Entry(next_rev, kind)
  <1>1. /\ \A i \in Index \ {index} : data'[i] = data[i]
        /\ Len(data'[index]) = Len(data[index]) + 1
        /\ \A k \in 1..Len(data[index]) : data'[index][k] = data[index][k]
        /\ data'[index][Len(data[index]) + 1] = e
        /\ Len(history') = Len(history) + 1
        /\ \A k \in 1..Len(history) : history'[k] = history[k]
        /\ history'[Len(history) + 1] = e
        /\ e.kind = kind
    BY <1>s, FileWritten
  <1>2. live' = live /\ live \subseteq Index
    BY <1>s DEF WriteRecord, Shape
  <1>3. "dirsync_error" \in Env \/ IsCheckpoint(e) \/ \A j \in live : j <= index
    BY <1>1 DEF IsCheckpoint
  <1> HIDE DEF e
  <1>4. FrameAdded(index, e)
    BY <1>s, <1>1, <1>2, <1>3 DEF FrameAdded
  <1> QED BY <1>4 DEF Seen

LEMMA FileCreatedSeen ==
  ASSUME IInv, NEW i \in Index, NEW durable \in [Index -> Nat], CreateFile(i, durable),
         history' = history, \A j \in live : j <= i, i # 0 => i - 1 \in live,
         i \in live => Len(data[i]) = 0
  PROVE  Seen
PROOF
  <1>s. TypeOK /\ Shape
    BY Shapes DEF IInv
  <1>1. /\ Len(data'[i]) = 0 /\ \A j \in Index \ {i} : data'[j] = data[j]
    BY <1>s, FileCreated
  <1>2. live' = live \cup {i} /\ live \subseteq Index
    BY <1>s DEF CreateFile, Shape
  <1>3. FileAdded(i)
    BY <1>1, <1>2 DEF FileAdded
  <1> QED BY <1>3 DEF Seen

LEMMA WriterSeen ==
  ASSUME IInv, WriterStep
  PROVE  Seen
PROOF
  <1>s. TypeOK /\ Shape /\ Writer /\ Directory
    BY Shapes DEF IInv
  <1>1. CASE \/ OpenExisting \/ SwitchSegment \/ SwitchFails \/ SyncForced
             \/ CompactBegin \/ CompactEnd \/ Kill
    <2>1. FilesSame
      BY <1>1 DEF OpenExisting, SwitchSegment, SwitchFails, SyncForced, CompactBegin, CompactEnd,
         Kill,
           FilesSame, diskVars
    <2> QED BY <2>1 DEF Seen
  <1>2. CASE OpenFresh \/ OpenFreshFails
    <2>1. CreateFile(0, synced) /\ history' = history /\ live = {}
      BY <1>2 DEF OpenFresh, OpenFreshFails
    <2>2. 0 \in Index /\ synced \in [Index -> Nat]
      BY <1>s, BoundsAssumption DEF Index, TypeOK
    <2> QED BY <2>1, <2>2, FileCreatedSeen
  <1>3. ASSUME NEW kind \in Kinds, Roll(kind) PROVE Seen
    <2>1. /\ index + 1 \in Index /\ CreateFile(index + 1, SyncedFile) /\ history' = history
            /\ pc = "ready"
      BY <1>3 DEF Roll
    <2>2. SyncedFile \in [Index -> Nat]
      BY <1>s, SyncedMore
    <2>3. /\ \A j \in live : j <= index + 1 /\ index \in live
          /\ index + 1 \in live => Len(data[index + 1]) = 0
      BY <1>s, <2>1 DEF Writer, WriterPlaced, Empty, Shape
    <2>4. (index + 1) - 1 = index
      BY <1>s DEF Shape
    <2>5. index \in live
      BY <1>s, <2>1 DEF Writer, WriterPlaced
    <2> QED BY <2>1, <2>2, <2>3, <2>4, <2>5, FileCreatedSeen
  <1>4. ASSUME NEW kind \in Kinds, AppendBuffered(kind) PROVE Seen
    <2>1. pc = "ready" /\ WriteRecord(kind, TRUE)
      BY <1>4 DEF AppendBuffered
    <2>2. "dirsync_error" \in Env \/ \A j \in live : j <= index
      BY <1>s, <2>1 DEF Writer, Stages
    <2> QED BY <2>1, <2>2, FrameWritten
  <1>5. CASE AppendAfterRoll
    <2>1. pc = "stamped" /\ WriteRecord(job, TRUE)
      BY <1>5 DEF AppendAfterRoll
    <2>2. \A j \in live : j <= index
      BY <1>s, <2>1 DEF Writer, Stages
    <2> QED BY <2>1, <2>2, FrameWritten
  <1>6. CASE StampCheckpoint \/ ForceCheckpoint
    <2>1. pc # "closed" /\ WriteRecord(CheckpointKind(state), FALSE)
      BY <1>6 DEF StampCheckpoint, ForceCheckpoint
    <2>2. CheckpointKind(state).type = "Checkpoint"
      BY DEF CheckpointKind
    <2> QED BY <2>1, <2>2, FrameWritten
  <1>7. CASE CompactRemove
    <2>1. /\ cut # None /\ live # {} /\ Min(live) < cut /\ live' = live \ {Min(live)}
          /\ data' = data /\ history' = history
      BY <1>7 DEF CompactRemove
    <2>2. Min(live) \in live /\ \A j \in live : Min(live) <= j
      <3>1. live \subseteq Nat
        BY <1>s DEF Shape
      <3> QED BY <3>1, <2>1, LeastNumber
    <2>3. PICK m : m = Min(live)
      OBVIOUS
    <2>4. cut \in live /\ cut > m /\ StartsStamped(cut)
      <3>1. cut \in live /\ Len(data[cut]) # 0 /\ IsCheckpoint(data[cut][1])
        BY <2>1, <1>s DEF Directory, Compacting
      <3>2. cut \in Nat /\ m \in Nat
        BY <3>1, <2>2, <2>3, <1>s DEF Shape
      <3> QED BY <3>1, <3>2, <2>1, <2>3 DEF StartsStamped
    <2>5. FileRemoved(m)
      BY <2>1, <2>2, <2>3, <2>4 DEF FileRemoved
    <2> QED BY <2>5 DEF Seen
  <1> QED
    BY <1>1, <1>2, <1>3, <1>4, <1>5, <1>6, <1>7 DEF WriterStep
-----------------------------------------------------------------------------
(* The Tailer: what it holds, and what it has got so far *)

got == delivered \o new_entries

TailShape ==
  /\ last_index \in Index \cup {None} /\ last_offset \in Nat /\ last_rev \in Nat \cup {None}
  /\ todo \subseteq Index /\ IsLog(delivered) /\ IsLog(new_entries)
  /\ ~polling => todo = {} /\ new_entries = <<>>
  /\ ~known => ~polling /\ delivered = <<>>

(* The cursor and the segments of the poll under way are not behind the    *)
(* newest file; the cursor is inside its file.                             *)
CursorPlaced ==
  /\ last_index # None => \E j \in live : last_index <= j
  /\ last_index \in live => last_offset <= Len(data[last_index])
  /\ last_rev = IF Len(delivered) = 0 THEN None ELSE delivered[Len(delivered)].rev
  /\ \A i \in todo : last_index <= i /\ \E j \in live : i <= j

(* A file ahead of the cursor is still to be visited, or was created after *)
(* the listing, behind all that was listed.                                *)
ListedInOrder == \A j \in live : j > last_index => j \in todo \/ \A i \in todo : i < j

GotSorted == \A a, b \in 1..Len(got) : a < b => got[a].rev < got[b].rev
GotKnown == \A k \in 1..Len(got) : Known(got[k])

(* The frames ahead of the cursor are newer than all that was got. *)
Past(j, a) == j > last_index \/ (j = last_index /\ a > last_offset)
AheadNewer ==
  \A k \in 1..Len(got) : \A j \in live : \A a \in 1..Len(data[j]) :
    Past(j, a) => got[k].rev < data[j][a].rev

TailOrder == TailShape /\ CursorPlaced /\ ListedInOrder /\ GotSorted /\ GotKnown /\ AheadNewer

LEMMA GotShape ==
  ASSUME TailShape
  PROVE  /\ IsLog(got) /\ Len(got) \in Nat /\ Len(got) = Len(delivered) + Len(new_entries)
         /\ Len(delivered) \in Nat /\ Len(new_entries) \in Nat
         /\ \A k \in 1..Len(got) : got[k].rev \in Nat
         /\ \A k \in 1..Len(delivered) : got[k] = delivered[k]
         /\ \A k \in 1..Len(new_entries) : got[Len(delivered) + k] = new_entries[k]
PROOF
  <1>1. IsLog(delivered) /\ IsLog(new_entries)
    BY DEF TailShape
  <1>2. Len(delivered) \in Nat /\ Len(new_entries) \in Nat
    BY <1>1, LogShape
  <1>3. /\ IsLog(got) /\ Len(got) = Len(delivered) + Len(new_entries)
        /\ \A k \in 1..Len(delivered) : got[k] = delivered[k]
        /\ \A k \in 1..Len(new_entries) : got[Len(delivered) + k] = new_entries[k]
    BY <1>1, LogConcat DEF got
  <1>4. Len(got) \in Nat /\ \A k \in 1..Len(got) : got[k].rev \in Nat
    BY <1>3, LogShape
  <1> QED BY <1>2, <1>3, <1>4

(* A visit of the next listed file: its frames behind the cursor are got,  *)
(* in order, and the cursor is at its end.                                 *)
Visited(m) ==
  /\ m \in todo /\ m \in live /\ \A i \in todo : m <= i
  /\ UNCHANGED vars /\ FilesSame
  /\ last_index' = m /\ last_offset' = Len(data[m]) /\ last_rev' = last_rev
  /\ todo' = todo \ {m} /\ polling /\ polling' /\ known' = known
  /\ delivered' = delivered /\ view' = view
  /\ BaseOffset(m) \in 0..Len(data[m]) /\ IsLog(new_entries')
  /\ Len(new_entries') = Len(new_entries) + (Len(data[m]) - BaseOffset(m))
  /\ \A k \in 1..Len(new_entries) : new_entries'[k] = new_entries[k]
  /\ \A k \in 1..(Len(data[m]) - BaseOffset(m)) :
       new_entries'[Len(new_entries) + k] = data[m][BaseOffset(m) + k]

LEMMA VisitIs ==
  ASSUME IInv, TailOrder, SkipIdle \/ ReadTail
  PROVE  Visited(Min(todo))
PROOF
  <1>s. TypeOK /\ Shape /\ TailShape
    BY Shapes DEF IInv, TailOrder
  <1>1. PICK m : m = Min(todo)
    OBVIOUS
  <1>2. m \in todo /\ \A i \in todo : m <= i
    <2>1. todo \subseteq Nat /\ todo # {}
      BY <1>s DEF TailShape, Index, SkipIdle, ReadTail
    <2> QED BY <2>1, <1>1, LeastNumber
  <1>3. /\ m \in live /\ m \in Nat /\ m \in Index /\ IsLog(data[m]) /\ Len(data[m]) \in Nat
        /\ last_offset \in Nat /\ last_index \in Int
    BY <1>s, <1>1 DEF SkipIdle, ReadTail, Shape, TypeOK, TailShape, None, Index
  <1>4. PICK b : b = BaseOffset(m)
    OBVIOUS
  <1>5. b \in 0..Len(data[m])
    <2>1. CASE m = last_index
      BY <1>3, <1>4, <2>1 DEF BaseOffset, TailOrder, CursorPlaced
    <2>2. CASE m # last_index
      BY <1>3, <1>4, <2>2 DEF BaseOffset
    <2> QED BY <2>1, <2>2
  <1>6. FileLen(m) \in Nat /\ FileLen(m) >= Len(data[m])
    <2>2. CASE torn[m]
      <3>1. FileLen(m) = Len(data[m]) + 1
        BY ONLY <2>2 DEF FileLen
      <3> QED BY ONLY <3>1, <1>3
    <2>3. CASE ~torn[m]
      <3>1. FileLen(m) = Len(data[m]) + 0
        BY ONLY <2>3 DEF FileLen
      <3> QED BY ONLY <3>1, <1>3
    <2> QED BY <2>2, <2>3
  <1>7. /\ UNCHANGED vars /\ FilesSame
        /\ last_index' = m /\ last_rev' = last_rev
        /\ todo' = todo \ {m} /\ polling /\ polling' /\ known' = known
        /\ delivered' = delivered /\ view' = view
    BY <1>1 DEF SkipIdle, ReadTail, FilesSame, vars, diskVars
  <1>8. /\ last_offset' = Len(data[m])
        /\ IsLog(new_entries')
        /\ Len(new_entries') = Len(new_entries) + (Len(data[m]) - b)
        /\ \A k \in 1..Len(new_entries) : new_entries'[k] = new_entries[k]
        /\ \A k \in 1..(Len(data[m]) - b) : new_entries'[Len(new_entries) + k] = data[m][b + k]
    <2>n. IsLog(new_entries) /\ Len(new_entries) \in Nat
      BY <1>s, LogShape DEF TailShape
    <2>1. CASE SkipIdle
      <3>1. FileLen(m) <= b /\ last_offset' = (IF m = last_index THEN last_offset ELSE 0)
            /\ new_entries' = new_entries
        BY <2>1, <1>1, <1>4 DEF SkipIdle
      <3>2. b = Len(data[m])
        BY <3>1, <1>3, <1>5, <1>6
      <3>3. last_offset' = b
        BY <3>1, <1>4 DEF BaseOffset
      <3>4. Len(data[m]) - b = 0
        BY <3>2, <1>3
      <3> QED BY <3>1, <3>2, <3>3, <3>4, <2>n
    <2>2. CASE ReadTail
      <3>1. last_offset' = Len(data[m]) /\ new_entries' = new_entries \o Fresh(m)
        BY <2>2, <1>1 DEF ReadTail
      <3>2. PICK t : t = SubSeq(data[m], b + 1, Len(data[m]))
        OBVIOUS
      <3>3. /\ IsLog(t) /\ Len(t) = Len(data[m]) - b
            /\ \A k \in 1..(Len(data[m]) - b) : t[k] = data[m][b + k]
        BY <3>2, <1>3, <1>5, LogRest
      <3>4. ASSUME NEW k \in 1..Len(t) PROVE t[k].rev > last_rev
        <4>1. b + k \in 1..Len(data[m]) /\ t[k] = data[m][b + k] /\ b + k > b
          BY <3>3, <1>3, <1>5
        <4>2. t[k].rev \in Nat
          BY <4>1, <1>3, <1>s DEF Shape
        <4>3. CASE Len(delivered) = 0
          BY <4>3, <4>2 DEF TailOrder, CursorPlaced, None
        <4>4. CASE Len(delivered) # 0
          <5>1. /\ Len(delivered) \in 1..Len(got) /\ got[Len(delivered)] = delivered[Len(delivered)]
                /\ got[Len(delivered)].rev \in Nat
            BY <4>4, <1>s, GotShape
          <5>2. last_rev = got[Len(delivered)].rev
            BY <4>4, <5>1 DEF TailOrder, CursorPlaced
          <5>3. Past(m, b + k)
            <6>1. last_index <= m
              BY <1>2 DEF TailOrder, CursorPlaced
            <6>2. m = last_index => b = last_offset
              BY <1>4 DEF BaseOffset
            <6> QED BY <6>1, <6>2, <4>1, <1>3 DEF Past
          <5>4. got[Len(delivered)].rev < data[m][b + k].rev
            BY <5>1, <5>3, <4>1, <1>3 DEF TailOrder, AheadNewer
          <5> QED BY <5>1, <5>2, <5>4, <4>1, <4>2
        <4> QED BY <4>3, <4>4
      <3>5. PICK u : u = Undominated(t)
        OBVIOUS
      <3>6. IsLog(u) /\ Len(u) = Len(t) /\ \A k \in 1..Len(t) : u[k] = t[k]
        BY <3>3, <3>4, <3>5, UndominatedAll
      <3>7. Fresh(m) = u
        BY <3>2, <3>5, <1>4 DEF Fresh
      <3>8. PICK w : w = new_entries \o u
        OBVIOUS
      <3>a. IsLog(new_entries) /\ IsLog(u)
        BY ONLY <2>n, <3>6
      <3>9. /\ IsLog(w) /\ Len(w) = Len(new_entries) + Len(u)
            /\ \A k \in 1..Len(new_entries) : w[k] = new_entries[k]
            /\ \A k \in 1..Len(u) : w[Len(new_entries) + k] = u[k]
        BY ONLY <3>a, <3>8, LogConcat
      <3>10. new_entries' = w
        BY <3>1, <3>7, <3>8
      <3> QED BY <3>1, <3>3, <3>6, <3>9, <3>10
    <2> QED BY <2>1, <2>2
  <1>9. Visited(m)
    BY <1>2, <1>3, <1>4, <1>5, <1>7, <1>8 DEF Visited
  <1> QED BY <1>1, <1>9

LEMMA GotVisited ==
  ASSUME Shape, TailShape, NEW m, Visited(m)
  PROVE  LET b == BaseOffset(m) IN
         /\ IsLog(got') /\ Len(got') = Len(got) + (Len(data[m]) - b)
         /\ \A k \in 1..Len(got) : got'[k] = got[k]
         /\ \A k \in 1..(Len(data[m]) - b) : got'[Len(got) + k] = data[m][b + k]
PROOF
  <1>1. PICK b : b = BaseOffset(m)
    OBVIOUS
  <1>2. /\ Len(data[m]) \in Nat /\ b \in 0..Len(data[m]) /\ IsLog(new_entries') /\ IsLog(delivered)
        /\ Len(new_entries') = Len(new_entries) + (Len(data[m]) - b)
        /\ \A k \in 1..Len(new_entries) : new_entries'[k] = new_entries[k]
        /\ \A k \in 1..(Len(data[m]) - b) : new_entries'[Len(new_entries) + k] = data[m][b + k]
    BY <1>1 DEF Visited, Shape, TailShape
  <1>3. PICK n : n = new_entries'
    OBVIOUS
  <1>4. PICK w : w = delivered \o n
    OBVIOUS
  <1>5. got' = w
    BY <1>3, <1>4 DEF got, Visited
  <1>6. /\ IsLog(w) /\ Len(w) = Len(delivered) + Len(n)
        /\ \A k \in 1..Len(delivered) : w[k] = delivered[k]
        /\ \A k \in 1..Len(n) : w[Len(delivered) + k] = n[k]
    BY <1>2, <1>3, <1>4, LogConcat
  <1>7. /\ Len(got) \in Nat /\ Len(got) = Len(delivered) + Len(new_entries)
        /\ Len(delivered) \in Nat /\ Len(new_entries) \in Nat
        /\ \A k \in 1..Len(delivered) : got[k] = delivered[k]
        /\ \A k \in 1..Len(new_entries) : got[Len(delivered) + k] = new_entries[k]
    BY GotShape
  <1>8. Len(w) = Len(got) + (Len(data[m]) - b)
    <2>1. Len(n) = Len(new_entries) + (Len(data[m]) - b)
      BY ONLY <1>2, <1>3
    <2>2. /\ Len(w) = Len(delivered) + Len(n) /\ Len(got) = Len(delivered) + Len(new_entries)
          /\ Len(delivered) \in Nat /\ Len(new_entries) \in Nat
          /\ Len(data[m]) \in Nat /\ b \in 0..Len(data[m])
      BY ONLY <1>2, <1>6, <1>7
    <2>3. ASSUME NEW x \in Nat, NEW y \in Nat, NEW L \in Nat, NEW c \in 0..L
          PROVE  x + (y + (L - c)) = (x + y) + (L - c)
      OBVIOUS
    <2>4. Len(w) = Len(delivered) + (Len(new_entries) + (Len(data[m]) - b))
      BY ONLY <2>1, <2>2
    <2>5. Len(delivered) + (Len(new_entries) + (Len(data[m]) - b))
            = (Len(delivered) + Len(new_entries)) + (Len(data[m]) - b)
      BY ONLY <2>2, <2>3
    <2> QED BY ONLY <2>2, <2>4, <2>5
  <1>9. ASSUME NEW k \in 1..Len(got) PROVE w[k] = got[k]
    <2>1. CASE k <= Len(delivered)
      BY <2>1, <1>6, <1>7
    <2>2. CASE k > Len(delivered)
      <3>1. PICK i : i = k - Len(delivered)
        OBVIOUS
      <3>2. i \in 1..Len(new_entries) /\ i \in 1..Len(n) /\ k = Len(delivered) + i
        BY <3>1, <2>2, <1>2, <1>3, <1>7
      <3> QED BY <3>2, <1>2, <1>3, <1>6, <1>7
    <2> QED BY <2>1, <2>2, <1>7
  <1>10. ASSUME NEW k \in 1..(Len(data[m]) - b) PROVE w[Len(got) + k] = data[m][b + k]
    <2>1. Len(new_entries) + k \in 1..Len(n)
            /\ Len(got) + k = Len(delivered) + (Len(new_entries) + k)
      <3>1. /\ Len(n) = Len(new_entries) + (Len(data[m]) - b) /\ b \in 0..Len(data[m])
            /\ Len(data[m]) \in Nat /\ Len(new_entries) \in Nat /\ Len(delivered) \in Nat
            /\ Len(got) = Len(delivered) + Len(new_entries)
        BY ONLY <1>2, <1>3, <1>7
      <3>2. k \in Nat /\ k >= 1 /\ k <= Len(data[m]) - b
        BY ONLY <3>1, k \in 1..(Len(data[m]) - b)
      <3> QED BY ONLY <3>1, <3>2
    <2>2. w[Len(delivered) + (Len(new_entries) + k)] = n[Len(new_entries) + k]
      BY <2>1, <1>6
    <2> QED BY <2>1, <2>2, <1>2, <1>3
  <1> QED BY <1>1, <1>5, <1>6, <1>8, <1>9, <1>10

(* What was got after a visit: what was got before, and the frames of the  *)
(* file behind the cursor.                                                 *)
LEMMA GotFrom ==
  ASSUME Shape, TailShape, NEW m, Visited(m)
  PROVE  /\ \A k \in 1..Len(got') :
              \/ k \in 1..Len(got) /\ got'[k] = got[k]
              \/ \E a \in 1..Len(data[m]) :
                   /\ a > BaseOffset(m) /\ k > Len(got) /\ got'[k] = data[m][a]
                   /\ a = BaseOffset(m) + (k - Len(got))
         /\ \A k \in 1..Len(got) : k \in 1..Len(got') /\ got'[k] = got[k]
         /\ \A a \in 1..Len(data[m]) :
              a > BaseOffset(m) => \E k \in 1..Len(got') : got'[k] = data[m][a]
PROOF
  <1>1. PICK b : b = BaseOffset(m)
    OBVIOUS
  <1>2. PICK g : g = got'
    OBVIOUS
  <1>3. /\ Len(g) = Len(got) + (Len(data[m]) - b)
        /\ \A k \in 1..Len(got) : g[k] = got[k]
        /\ \A k \in 1..(Len(data[m]) - b) : g[Len(got) + k] = data[m][b + k]
    BY <1>1, <1>2, GotVisited
  <1>4. Len(data[m]) \in Nat /\ b \in 0..Len(data[m]) /\ Len(got) \in Nat
    BY <1>1, GotShape DEF Visited, Shape
  <1>5. ASSUME NEW k \in 1..Len(g), k > Len(got)
        PROVE  \E a \in 1..Len(data[m]) : a > b /\ g[k] = data[m][a] /\ a = b + (k - Len(got))
    <2>1. PICK i : i = k - Len(got)
      OBVIOUS
    <2>2. i \in 1..(Len(data[m]) - b) /\ k = Len(got) + i /\ b + i \in 1..Len(data[m]) /\ b + i > b
      BY <2>1, <1>3, <1>4, <1>5
    <2>3. g[k] = data[m][b + i]
      BY <2>2, <1>3
    <2> QED BY <2>1, <2>2, <2>3
  <1>6. ASSUME NEW k \in 1..Len(got) PROVE k \in 1..Len(g) /\ g[k] = got[k]
    BY <1>3, <1>4
  <1>7. ASSUME NEW a \in 1..Len(data[m]), a > b PROVE \E k \in 1..Len(g) : g[k] = data[m][a]
    <2>1. PICK i : i = a - b
      OBVIOUS
    <2>2. i \in 1..(Len(data[m]) - b) /\ a = b + i /\ Len(got) + i \in 1..Len(g)
      BY <2>1, <1>3, <1>4, <1>7
    <2>3. g[Len(got) + i] = data[m][a]
      BY <2>2, <1>3
    <2> QED BY <2>2, <2>3
  <1>8. ASSUME NEW k \in 1..Len(g)
        PROVE  \/ k \in 1..Len(got) /\ g[k] = got[k]
               \/ \E a \in 1..Len(data[m]) : a > b /\ k > Len(got) /\ g[k] = data[m][a]
                 /\ a = b + (k - Len(got))
    <2>1. CASE k <= Len(got)
      BY <2>1, <1>3, <1>4
    <2>2. CASE k > Len(got)
      BY <2>2, <1>5
    <2> QED BY <2>1, <2>2, <1>4
  <1> QED BY <1>1, <1>2, <1>6, <1>7, <1>8

LEMMA SeenKept ==
  ASSUME Shape, Seen
  PROVE  /\ Len(history) <= Len(history')
         /\ \A k \in 1..Len(history) : history'[k] = history[k]
         /\ \A e : Known(e) => Known(e)'
PROOF
  <1>1. CASE FilesSame
    BY <1>1 DEF FilesSame, Shape, Known
  <1>2. ASSUME NEW i, FileAdded(i)
        PROVE  history' = history
    BY <1>2 DEF FileAdded
  <1>3. ASSUME NEW i, FileRemoved(i)
        PROVE  history' = history
    BY <1>3 DEF FileRemoved
  <1>4. ASSUME NEW i, NEW e, FrameAdded(i, e)
        PROVE  Len(history') = Len(history) + 1 /\ \A k \in 1..Len(history) :
                 history'[k] = history[k]
    BY <1>4 DEF FrameAdded
  <1>5. Len(history) \in Nat
    BY DEF Shape
  <1>6. /\ Len(history) <= Len(history')
        /\ \A k \in 1..Len(history) : history'[k] = history[k]
    <2>1. CASE history' = history
      BY <2>1, <1>5
    <2>2. CASE Len(history') = Len(history) + 1
            /\ \A k \in 1..Len(history) : history'[k] = history[k]
      BY <2>2, <1>5
    <2> QED BY <2>1, <2>2, <1>1, <1>2, <1>3, <1>4 DEF Seen, FilesSame
  <1>7. Len(history') \in Nat
    BY <1>1, <1>2, <1>3, <1>4, <1>5 DEF Seen, FilesSame
  <1>8. ASSUME NEW e, Known(e) PROVE Known(e)'
    <2>1. PICK k \in 1..Len(history) : history[k] = e
      BY <1>8 DEF Known
    <2>2. k \in 1..Len(history') /\ history'[k] = e
      BY <2>1, <1>5, <1>6, <1>7
    <2> QED BY <2>2 DEF Known
  <1> QED BY <1>6, <1>8

(* The order of what was got, step by step *)

LEMMA OrderSeen ==
  ASSUME IInv, IInv', TailOrder, Seen, UNCHANGED tailVars
  PROVE  TailOrder'
PROOF
  <1>s. Shape /\ Shape' /\ TailShape
    BY Shapes, NextShapes DEF IInv, TailOrder
  <1>t. /\ known' = known /\ last_index' = last_index /\ last_offset' = last_offset
        /\ last_rev' = last_rev /\ polling' = polling /\ todo' = todo
        /\ new_entries' = new_entries /\ view' = view /\ delivered' = delivered
    BY DEF tailVars, cursor, pollVars
  <1>g. got' = got
    BY <1>t DEF got
  <1>n. /\ last_index \in Int /\ last_offset \in Nat /\ todo \subseteq Nat
        /\ live \subseteq Nat /\ live' \subseteq Nat
    BY <1>s DEF TailShape, Index, None, Shape
  <1>1. TailShape'
    BY <1>s, <1>t DEF TailShape
  <1>2. GotSorted'
    BY <1>g DEF TailOrder, GotSorted
  <1>3. GotKnown'
    <2>1. \A e : Known(e) => Known(e)'
      BY <1>s, SeenKept
    <2> QED BY <1>g, <2>1 DEF TailOrder, GotKnown
  <1>4. CASE FilesSame
    BY <1>1, <1>2, <1>3, <1>4, <1>t, <1>g DEF FilesSame, TailOrder, CursorPlaced, ListedInOrder,
       AheadNewer, Past
  <1>5. ASSUME NEW i, FileAdded(i)
        PROVE  CursorPlaced' /\ ListedInOrder' /\ AheadNewer'
    <2>1. /\ i \in Nat /\ live' = live \cup {i} /\ \A j \in live : j <= i
          /\ i \in live => Len(data[i]) = 0
          /\ Len(data'[i]) = 0 /\ \A j \in live : j # i => data'[j] = data[j]
      BY <1>5 DEF FileAdded, Index
    <2>2. last_index \in live' => last_offset <= Len(data'[last_index])
      <3>1. CASE last_index = i
        <4>1. last_index # None
          BY <3>1, <2>1 DEF None
        <4>2. PICK j \in live : last_index <= j
          BY <4>1 DEF TailOrder, CursorPlaced
        <4>3. j = i
          BY <4>2, <3>1, <2>1, <1>n
        <4>4. last_offset <= Len(data[i])
          BY <4>2, <4>3, <3>1 DEF TailOrder, CursorPlaced
        <4> QED BY <4>2, <4>3, <4>4, <3>1, <2>1
      <3>2. CASE last_index # i
        BY <3>2, <2>1 DEF TailOrder, CursorPlaced
      <3> QED BY <3>1, <3>2
    <2>3. CursorPlaced'
      BY <2>1, <2>2, <1>t DEF TailOrder, CursorPlaced
    <2>4. ListedInOrder'
      <3> SUFFICES ASSUME NEW j \in live', j > last_index, j \notin todo
                   PROVE  \A t \in todo : t < j
        BY <1>t DEF ListedInOrder
      <3>1. CASE j \in live
        BY <3>1 DEF TailOrder, ListedInOrder
      <3>2. CASE j \notin live
        <4>1. j = i
          BY <3>2, <2>1
        <4> SUFFICES ASSUME NEW t \in todo PROVE t < i
          BY <4>1
        <4>2. PICK x \in live : t <= x
          BY DEF TailOrder, CursorPlaced
        <4>3. x <= i /\ x # i
          BY <2>1, <3>2, <4>1
        <4> QED BY <4>2, <4>3, <2>1, <1>n
      <3> QED BY <3>1, <3>2
    <2>5. AheadNewer'
      <3> SUFFICES ASSUME NEW k \in 1..Len(got), NEW j \in live', NEW a \in 1..Len(data'[j]),
                          Past(j, a)
                   PROVE  got[k].rev < data'[j][a].rev
        BY <1>t, <1>g DEF AheadNewer, Past
      <3>1. j # i
        BY <2>1
      <3> QED BY <3>1, <2>1 DEF TailOrder, AheadNewer
    <2> QED BY <2>3, <2>4, <2>5
  <1>6. ASSUME NEW i, NEW e, FrameAdded(i, e)
        PROVE  CursorPlaced' /\ ListedInOrder' /\ AheadNewer'
    <2>1. /\ i \in live /\ live' = live
          /\ Len(data'[i]) = Len(data[i]) + 1
          /\ \A k \in 1..Len(data[i]) : data'[i][k] = data[i][k]
          /\ data'[i][Len(data[i]) + 1] = e
          /\ \A j \in live : j # i => data'[j] = data[j]
          /\ Len(history') = Len(history) + 1
          /\ \A k \in 1..Len(history) : history'[k] = history[k]
          /\ history'[Len(history) + 1] = e
      BY <1>6 DEF FrameAdded
    <2>2. \A j \in live : Len(data[j]) \in Nat /\ Len(data[j]) <= Len(data'[j])
      <3>1. \A j \in live : Len(data[j]) \in Nat
        BY ONLY <1>s DEF Shape
      <3> QED BY ONLY <2>1, <3>1
    <2>3. last_index \in live => last_offset <= Len(data'[last_index])
      <3> SUFFICES ASSUME last_index \in live PROVE last_offset <= Len(data'[last_index])
        OBVIOUS
      <3>1. last_offset <= Len(data[last_index]) /\ Len(data'[last_index]) \in Nat
        BY <2>1, <2>2, <1>s DEF TailOrder, CursorPlaced, Shape
      <3> QED BY <3>1, <2>2, <1>n
    <2>4. CursorPlaced'
      BY <2>1, <2>3, <1>t DEF TailOrder, CursorPlaced
    <2>5. ListedInOrder'
      BY <2>1, <1>t DEF TailOrder, ListedInOrder
    <2>6. AheadNewer'
      <3> SUFFICES ASSUME NEW k \in 1..Len(got), NEW j \in live, NEW a \in 1..Len(data'[j]),
                          Past(j, a)
                   PROVE  got[k].rev < data'[j][a].rev
        BY <1>t, <1>g, <2>1 DEF AheadNewer, Past
      <3>1. CASE j = i /\ a = Len(data[i]) + 1
        <4>1. PICK q \in 1..Len(history) : history[q] = got[k]
          BY DEF TailOrder, GotKnown, Known
        <4>2. /\ Len(history) \in Nat /\ q < Len(history) + 1 /\ q \in 1..Len(history')
              /\ Len(history) + 1 \in 1..Len(history')
          BY <2>1, <1>s DEF Shape
        <4>3. history'[q].rev < history'[Len(history) + 1].rev
          BY <4>2 DEF IInv, Files, Sorted
        <4> QED BY <4>1, <4>3, <3>1, <2>1
      <3>2. CASE ~(j = i /\ a = Len(data[i]) + 1)
        <4>1. a \in 1..Len(data[j]) /\ data'[j][a] = data[j][a]
          BY <3>2, <2>1, <2>2
        <4> QED BY <4>1 DEF TailOrder, AheadNewer
      <3> QED BY <3>1, <3>2
    <2> QED BY <2>4, <2>5, <2>6
  <1>7. ASSUME NEW m, FileRemoved(m)
        PROVE  CursorPlaced' /\ ListedInOrder' /\ AheadNewer'
    <2>1. /\ m \in live /\ live' = live \ {m} /\ data' = data /\ \A j \in live : m <= j
      BY <1>7 DEF FileRemoved
    <2>2. PICK c \in live : c > m
      BY <1>7 DEF FileRemoved
    <2>3. c \in live'
      BY <2>1, <2>2, <1>n
    <2>4. ASSUME NEW x \in Int, NEW j \in live, x <= j
          PROVE  \E y \in live' : x <= y
      <3>1. CASE j = m
        BY <3>1, <2>2, <2>3, <2>4, <1>n
      <3>2. CASE j # m
        BY <3>2, <2>1, <2>4
      <3> QED BY <3>1, <3>2
    <2>5. last_index # None => \E j \in live' : last_index <= j
      BY <2>4, <1>n DEF TailOrder, CursorPlaced
    <2>6. ASSUME NEW t \in todo PROVE last_index <= t /\ \E j \in live' : t <= j
      <3>1. t \in Int
        BY <1>n
      <3>2. PICK j \in live : t <= j
        BY DEF TailOrder, CursorPlaced
      <3>3. \E y \in live' : t <= y
        BY <3>1, <3>2, <2>4
      <3> QED BY <3>3 DEF TailOrder, CursorPlaced
    <2>7. CursorPlaced'
      BY <2>1, <2>5, <2>6, <1>t DEF TailOrder, CursorPlaced
    <2>8. ListedInOrder'
      BY <2>1, <1>t DEF TailOrder, ListedInOrder
    <2>9. AheadNewer'
      BY <2>1, <1>t, <1>g DEF TailOrder, AheadNewer, Past
    <2> QED BY <2>7, <2>8, <2>9
  <1>8. CursorPlaced' /\ ListedInOrder' /\ AheadNewer'
    BY <1>4, <1>5, <1>6, <1>7 DEF Seen, TailOrder
  <1> QED BY <1>1, <1>2, <1>3, <1>8 DEF TailOrder

(* A listing, or a fresh Tailer. *)
LEMMA OrderReset ==
  ASSUME IInv, TailOrder, Appear \/ Disappear
  PROVE  TailOrder'
PROOF
  <1>1. /\ live' = live /\ data' = data /\ history' = history
        /\ last_index' = None /\ last_offset' = 0 /\ last_rev' = None
        /\ ~polling' /\ todo' = {} /\ new_entries' = <<>> /\ delivered' = <<>>
    BY DEF Appear, Disappear, NewTailer, vars, diskVars
  <1>2. IsLog(<<>>) /\ Len(<<>>) = 0
    BY LogEmpty
  <1>3. got' = <<>> \o <<>>
    BY <1>1 DEF got
  <1>4. Len(got') = 0
    <2>1. Len(<<>> \o <<>>) = Len(<<>>) + Len(<<>>)
      BY <1>2, LogConcat
    <2> QED BY <2>1, <1>2, <1>3
  <1>5. TailShape'
    BY <1>1, <1>2 DEF TailShape
  <1>6. CursorPlaced'
    <2>1. None \notin live
      BY DEF IInv, TypeOK, Index, None
    <2> QED BY <1>1, <1>2, <2>1 DEF CursorPlaced
  <1>7. ListedInOrder'
    BY <1>1 DEF ListedInOrder
  <1>8. GotSorted' /\ GotKnown' /\ AheadNewer'
    BY <1>4 DEF GotSorted, GotKnown, AheadNewer
  <1> QED BY <1>5, <1>6, <1>7, <1>8 DEF TailOrder

LEMMA OrderBegin ==
  ASSUME IInv, TailOrder, PollBegin
  PROVE  TailOrder'
PROOF
  <1>1. /\ live' = live /\ data' = data /\ history' = history
        /\ last_index' = last_index /\ last_offset' = last_offset /\ last_rev' = last_rev
        /\ known /\ known' = known /\ ~polling /\ polling' /\ todo' = {i \in live : i >= last_index}
        /\ new_entries' = <<>> /\ delivered' = delivered
    BY DEF PollBegin, vars, diskVars, cursor
  <1>2. new_entries = <<>>
    BY <1>1 DEF TailOrder, TailShape
  <1>3. got' = got
    BY <1>1, <1>2 DEF got
  <1>4. live \subseteq Index /\ last_index \in Int /\ live \subseteq Nat
    BY DEF IInv, TypeOK, TailOrder, TailShape, Index, None
  <1>5. TailShape'
    BY <1>1, <1>4, LogEmpty DEF TailOrder, TailShape
  <1>6. CursorPlaced'
    <2>1. ASSUME NEW t \in todo' PROVE last_index <= t /\ \E j \in live : t <= j
      BY <1>1, <1>4
    <2> QED BY <1>1, <2>1 DEF TailOrder, CursorPlaced
  <1>7. ListedInOrder'
    BY <1>1, <1>4 DEF ListedInOrder
  <1>8. GotSorted' /\ GotKnown' /\ AheadNewer'
    BY <1>1, <1>3 DEF TailOrder, GotSorted, GotKnown, AheadNewer, Past, Known
  <1> QED BY <1>5, <1>6, <1>7, <1>8 DEF TailOrder

LEMMA OrderVisited ==
  ASSUME IInv, TailOrder, NEW m, Visited(m)
  PROVE  TailOrder'
PROOF
  <1>s. Shape /\ TailShape
    BY Shapes DEF IInv, TailOrder
  <1>1. /\ live' = live /\ data' = data /\ history' = history
        /\ m \in todo /\ m \in live /\ \A i \in todo : m <= i
        /\ last_index' = m /\ last_offset' = Len(data[m]) /\ last_rev' = last_rev
        /\ todo' = todo \ {m} /\ polling /\ polling' /\ known' = known
        /\ delivered' = delivered /\ IsLog(new_entries')
    BY DEF Visited, FilesSame
  <1>n. /\ last_index \in Int /\ last_offset \in Nat /\ todo \subseteq Nat
        /\ live \subseteq Nat /\ m \in Nat /\ m \in Index /\ Len(data[m]) \in Nat /\ last_index <= m
        /\ Len(got) \in Nat
    BY <1>s, <1>1, GotShape DEF TailShape, Index, None, Shape, TailOrder, CursorPlaced
  <1>2. TailShape'
    BY <1>1, <1>n, <1>s DEF TailShape
  <1>3. CursorPlaced'
    BY <1>1, <1>n DEF TailOrder, CursorPlaced
  <1>4. ListedInOrder'
    <2> SUFFICES ASSUME NEW j \in live', j > last_index'
                 PROVE  j \in todo' \/ \A t \in todo' : t < j
      BY DEF ListedInOrder
    <2>1. j \in live /\ j > last_index /\ j # m
      BY <1>1, <1>n
    <2>2. j \in todo \/ \A t \in todo : t < j
      BY <2>1 DEF TailOrder, ListedInOrder
    <2> QED BY <2>1, <2>2, <1>1
  <1>5. PICK g : g = got'
    OBVIOUS
  <1>6. \A k \in 1..Len(g) :
           \/ k \in 1..Len(got) /\ g[k] = got[k]
           \/ \E a \in 1..Len(data[m]) :
                /\ a > BaseOffset(m) /\ k > Len(got) /\ g[k] = data[m][a]
                /\ a = BaseOffset(m) + (k - Len(got))
    BY <1>s, <1>5, GotFrom
  <1>7. ASSUME NEW a \in 1..Len(data[m]), a > BaseOffset(m) PROVE Past(m, a)
    BY <1>7, <1>n DEF Past, BaseOffset
  <1>b. BaseOffset(m) \in Nat
    BY <1>n DEF BaseOffset
  <1>8. GotSorted'
    <2> SUFFICES ASSUME NEW x \in 1..Len(g), NEW y \in 1..Len(g), x < y PROVE g[x].rev < g[y].rev
      BY <1>5 DEF GotSorted
    <2>1. CASE y \in 1..Len(got) /\ g[y] = got[y]
      <3>1. x \in 1..Len(got) /\ g[x] = got[x]
        BY <2>1, <1>6, <1>n
      <3> QED BY <3>1, <2>1 DEF TailOrder, GotSorted
    <2>2. ASSUME NEW b \in 1..Len(data[m]), b > BaseOffset(m), y > Len(got), g[y] = data[m][b],
                 b = BaseOffset(m) + (y - Len(got))
          PROVE  g[x].rev < g[y].rev
      <3>1. CASE x \in 1..Len(got) /\ g[x] = got[x]
        BY <3>1, <2>2, <1>7, <1>1 DEF TailOrder, AheadNewer
      <3>2. ASSUME NEW a \in 1..Len(data[m]), g[x] = data[m][a], a = BaseOffset(m) + (x - Len(got))
            PROVE  g[x].rev < g[y].rev
        <4>1. a < b
          BY <3>2, <2>2, <1>n, <1>b
        <4> QED BY <4>1, <3>2, <2>2, <1>1 DEF IInv, Files, InOrder
      <3> QED BY <3>1, <3>2, <1>6
    <2> QED BY <2>1, <2>2, <1>6
  <1>9. GotKnown'
    <2> SUFFICES ASSUME NEW k \in 1..Len(g) PROVE Known(g[k])
      BY <1>5, <1>1 DEF GotKnown, Known
    <2>1. CASE k \in 1..Len(got) /\ g[k] = got[k]
      BY <2>1 DEF TailOrder, GotKnown
    <2>2. ASSUME NEW a \in 1..Len(data[m]), g[k] = data[m][a] PROVE Known(g[k])
      BY <2>2, <1>1 DEF IInv, Files, AllKnown
    <2> QED BY <2>1, <2>2, <1>6
  <1>10. AheadNewer'
    <2> SUFFICES ASSUME NEW k \in 1..Len(g), NEW j \in live, NEW a \in 1..Len(data[j]),
                        j > m \/ (j = m /\ a > Len(data[m]))
                 PROVE  g[k].rev < data[j][a].rev
      BY <1>5, <1>1 DEF AheadNewer, Past
    <2>1. j > m /\ j \in Nat
      BY <1>n
    <2>2. CASE k \in 1..Len(got) /\ g[k] = got[k]
      <3>1. Past(j, a)
        BY <2>1, <1>n DEF Past
      <3> QED BY <3>1, <2>2 DEF TailOrder, AheadNewer
    <2>3. ASSUME NEW b \in 1..Len(data[m]), g[k] = data[m][b] PROVE g[k].rev < data[j][a].rev
      BY <2>1, <2>3, <1>1 DEF IInv, Files, InOrder
    <2> QED BY <2>2, <2>3, <1>6
  <1> QED BY <1>2, <1>3, <1>4, <1>8, <1>9, <1>10 DEF TailOrder

LEMMA OrderFailed ==
  ASSUME IInv, TailOrder, PollError
  PROVE  TailOrder'
PROOF
  <1>s. TailShape
    BY DEF TailOrder
  <1>1. /\ live' = live /\ data' = data /\ history' = history
        /\ last_index' = last_index /\ last_offset' = last_offset /\ last_rev' = last_rev
        /\ known' = known /\ polling /\ ~polling' /\ todo' = {} /\ new_entries' = <<>>
          /\ delivered' = delivered
    BY DEF PollError, vars, diskVars, cursor
  <1>2. TailShape'
    BY <1>1, <1>s, LogEmpty DEF TailShape
  <1>3. CursorPlaced'
    BY <1>1 DEF TailOrder, CursorPlaced
  <1>4. ListedInOrder'
    BY <1>1 DEF ListedInOrder
  <1>5. PICK g : g = got'
    OBVIOUS
  <1>6. \A k \in 1..Len(g) : k \in 1..Len(got) /\ g[k] = got[k]
    <2>1. g = delivered \o <<>>
      BY <1>1, <1>5 DEF got
    <2>2. IsLog(delivered) /\ IsLog(<<>>) /\ Len(<<>>) = 0
      BY <1>s, LogEmpty DEF TailShape
    <2>3. Len(g) = Len(delivered) + Len(<<>>) /\ \A k \in 1..Len(delivered) : g[k] = delivered[k]
      BY ONLY <2>1, <2>2, LogConcat
    <2>4. /\ Len(got) \in Nat /\ Len(got) = Len(delivered) + Len(new_entries)
          /\ Len(delivered) \in Nat /\ Len(new_entries) \in Nat
          /\ \A k \in 1..Len(delivered) : got[k] = delivered[k]
      BY <1>s, GotShape
    <2>5. Len(g) = Len(delivered)
      BY ONLY <2>2, <2>3, <2>4
    <2> QED BY ONLY <2>3, <2>4, <2>5
  <1>7. GotSorted' /\ GotKnown' /\ AheadNewer'
    <2>1. GotSorted'
      BY <1>5, <1>6 DEF TailOrder, GotSorted
    <2>2. GotKnown'
      BY <1>1, <1>5, <1>6 DEF TailOrder, GotKnown, Known
    <2>3. AheadNewer'
      BY <1>1, <1>5, <1>6 DEF TailOrder, AheadNewer, Past
    <2> QED BY <2>1, <2>2, <2>3
  <1> QED BY <1>2, <1>3, <1>4, <1>7 DEF TailOrder

(* The end of a poll hands over what it got. *)
LEMMA GotKept ==
  ASSUME TailShape, delivered' = delivered \o new_entries, new_entries' = <<>>
  PROVE  got' = got /\ delivered' = got /\ IsLog(delivered')
PROOF
  <1>1. PICK S : got \in Seq(S)
    BY GotShape DEF IsLog
  <1>2. got \o <<>> = got
    BY <1>1, ConcatEmptySeq
  <1> QED BY <1>2, GotShape DEF got

LEMMA OrderEnd ==
  ASSUME IInv, TailOrder, PollEnd
  PROVE  TailOrder'
PROOF
  <1>s. TailShape
    BY DEF TailOrder
  <1>1. /\ live' = live /\ data' = data /\ history' = history
        /\ last_index' = last_index /\ last_offset' = last_offset
        /\ last_rev' = IF new_entries = <<>> THEN last_rev ELSE Last(new_entries).rev
        /\ known' = known /\ polling /\ ~polling' /\ todo = {} /\ todo' = {} /\ new_entries' = <<>>
        /\ delivered' = delivered \o new_entries
    BY DEF PollEnd, vars, diskVars
  <1>2. got' = got /\ delivered' = got /\ IsLog(delivered')
    BY <1>1, <1>s, GotKept
  <1>g. /\ Len(got) \in Nat /\ Len(got) = Len(delivered) + Len(new_entries)
        /\ Len(delivered) \in Nat /\ Len(new_entries) \in Nat
        /\ \A k \in 1..Len(got) : got[k].rev \in Nat
        /\ \A k \in 1..Len(delivered) : got[k] = delivered[k]
        /\ \A k \in 1..Len(new_entries) : got[Len(delivered) + k] = new_entries[k]
    BY <1>s, GotShape
  <1>e. new_entries = <<>> <=> Len(new_entries) = 0
    BY <1>s, LogShape DEF TailShape
  <1>3. last_rev' = IF Len(got) = 0 THEN None ELSE got[Len(got)].rev
    <2>1. CASE new_entries = <<>>
      <3>1. last_rev' = last_rev /\ Len(got) = Len(delivered)
        BY <2>1, <1>1, <1>g, <1>e
      <3>2. CASE Len(delivered) = 0
        BY <3>1, <3>2 DEF TailOrder, CursorPlaced
      <3>3. CASE Len(delivered) # 0
        <4>1. Len(delivered) \in 1..Len(delivered)
          BY <3>3, <1>g
        <4>2. got[Len(delivered)] = delivered[Len(delivered)]
          BY <4>1, <1>g
        <4>3. last_rev = delivered[Len(delivered)].rev
          BY <3>3 DEF TailOrder, CursorPlaced
        <4> QED BY <3>1, <3>3, <4>2, <4>3
      <3> QED BY <3>2, <3>3
    <2>2. CASE new_entries # <<>>
      <3>1. Len(new_entries) \in 1..Len(new_entries) /\ Len(got) # 0
        BY <2>2, <1>g, <1>e
      <3>2. got[Len(got)] = new_entries[Len(new_entries)]
        BY <3>1, <1>g
      <3> QED BY <3>1, <3>2, <2>2, <1>1 DEF Last
    <2> QED BY <2>1, <2>2
  <1>4. TailShape'
    <2>1. last_rev' \in Nat \cup {None}
      <3>1. CASE Len(got) = 0
        BY <3>1, <1>3
      <3>2. CASE Len(got) # 0
        <4>1. Len(got) \in 1..Len(got)
          BY <3>2, <1>g
        <4> QED BY <4>1, <3>2, <1>3, <1>g
      <3> QED BY <3>1, <3>2
    <2>2. ~known' => delivered' = <<>>
      BY <1>1, <1>s DEF TailShape
    <2> QED BY <1>1, <1>2, <1>s, <2>1, <2>2, LogEmpty DEF TailShape
  <1>5. CursorPlaced'
    BY <1>1, <1>2, <1>3 DEF TailOrder, CursorPlaced
  <1>6. ListedInOrder'
    BY <1>1 DEF ListedInOrder
  <1>7. GotSorted' /\ GotKnown' /\ AheadNewer'
    BY <1>1, <1>2 DEF TailOrder, GotSorted, GotKnown, AheadNewer, Past, Known
  <1> QED BY <1>4, <1>5, <1>6, <1>7 DEF TailOrder

LEMMA TailQuiet ==
  ASSUME Appear \/ Disappear \/ Poll \/ UNCHANGED allVars
  PROVE  UNCHANGED vars
PROOF
  BY DEF Appear, Disappear, Poll, PollBegin, SkipIdle, ReadTail, PollError, PollEnd, allVars

LEMMA TailWriter ==
  ASSUME [TailNext]_allVars
  PROVE  [Next]_vars /\ (UNCHANGED vars \/ Powered)
PROOF
  <1>1. WriterStep => Powered
    BY DEF WriterStep, Powered
  <1>2. Powered => Next
    BY DEF Powered, Next
  <1> QED BY <1>1, <1>2, TailQuiet DEF TailNext

LEMMA OrderStep ==
  ASSUME IInv, IInv', TailOrder, [TailNext]_allVars
  PROVE  TailOrder'
PROOF
  <1>1. CASE WriterStep /\ UNCHANGED tailVars
    BY <1>1, WriterSeen, OrderSeen
  <1>2. CASE UNCHANGED allVars
    <2>1. Seen /\ UNCHANGED tailVars
      BY <1>2 DEF allVars, vars, diskVars, Seen, FilesSame
    <2> QED BY <2>1, OrderSeen
  <1>3. CASE Appear \/ Disappear
    BY <1>3, OrderReset
  <1>4. CASE SkipIdle \/ ReadTail
    BY <1>4, VisitIs, OrderVisited
  <1>5. CASE PollBegin \/ PollError \/ PollEnd
    BY <1>5, OrderBegin, OrderFailed, OrderEnd
  <1> QED BY <1>1, <1>2, <1>3, <1>4, <1>5 DEF TailNext, Poll

LEMMA OrderInit ==
  ASSUME TailInit
  PROVE  TailOrder
PROOF
  <1>1. /\ live = {} /\ known = FALSE /\ last_index = None /\ last_offset = 0 /\ last_rev = None
        /\ ~polling /\ todo = {} /\ new_entries = <<>> /\ delivered = <<>>
    BY DEF TailInit, Init
  <1>2. IsLog(<<>>) /\ Len(<<>>) = 0
    BY LogEmpty
  <1>3. TailShape
    BY <1>1, <1>2 DEF TailShape
  <1>4. Len(got) = 0
    <2>1. Len(got) = Len(delivered) + Len(new_entries)
      BY <1>3, GotShape
    <2> QED BY <2>1, <1>1, <1>2
  <1>5. CursorPlaced /\ ListedInOrder
    BY <1>1, <1>2 DEF CursorPlaced, ListedInOrder
  <1>6. GotSorted /\ GotKnown /\ AheadNewer
    BY <1>4 DEF GotSorted, GotKnown, AheadNewer
  <1> QED BY <1>3, <1>5, <1>6 DEF TailOrder

(* The writer keeps its own invariants whoever reads, and the cursor of a  *)
(* Tailer (tailer.rs) never runs past a frame it has not returned, whatever*)
(* the writer does between two reads of a poll and whichever reads fail.   *)
THEOREM TailOrderInvariant ==
  ASSUME Sane
  PROVE  TailSpec => [](IInv /\ Content /\ TailOrder)
PROOF
  <1>1. TailInit => IInv /\ Content /\ TailOrder
    BY InitIInv, ContentInit, OrderInit DEF TailInit
  <1>2. (IInv /\ Content /\ TailOrder) /\ [TailNext]_allVars => (IInv /\ Content /\ TailOrder)'
    <2> SUFFICES ASSUME IInv, Content, TailOrder, [TailNext]_allVars
                 PROVE  (IInv /\ Content /\ TailOrder)'
      OBVIOUS
    <2>1. IInv' /\ Content'
      BY TailWriter, NextIInv, ContentStep
    <2>2. TailOrder'
      BY <2>1, OrderStep
    <2> QED BY <2>1, <2>2
  <1> QED BY <1>1, <1>2, PTL DEF TailSpec

(* tailer.rs: "exactly-once delivery" - the revs a Tailer returns increase  *)
(* strictly, across rolls, compaction, restarts of the agent, and reads that*)
(* fail half-way through a poll.                                            *)
THEOREM RevsDeliveredOnce ==
  ASSUME Sane
  PROVE  TailSpec => []ExactlyOnce
PROOF
  <1>1. TailOrder => ExactlyOnce
    <2> SUFFICES ASSUME TailOrder, NEW k \in 1..(Len(delivered) - 1)
                 PROVE  delivered[k].rev < delivered[k + 1].rev
      BY DEF ExactlyOnce
    <2>1. /\ Len(got) \in Nat /\ Len(got) = Len(delivered) + Len(new_entries)
          /\ Len(delivered) \in Nat /\ Len(new_entries) \in Nat
          /\ \A i \in 1..Len(delivered) : got[i] = delivered[i]
      BY GotShape DEF TailOrder
    <2>2. k \in 1..Len(got) /\ k + 1 \in 1..Len(got) /\ k < k + 1
            /\ k + 1 \in 1..Len(delivered) /\ k \in 1..Len(delivered)
      BY <2>1
    <2>3. got[k].rev < got[k + 1].rev
      BY <2>2 DEF TailOrder, GotSorted
    <2> QED BY <2>1, <2>2, <2>3
  <1> QED BY <1>1, TailOrderInvariant, PTL
-----------------------------------------------------------------------------
(* No record is passed over.  The frames a poll can still reach are those  *)
(* ahead of the cursor, unless the poll has left their file behind.        *)
Reach(j, a) ==
  \/ j > last_index
  \/ j = last_index /\ a > last_offset /\ (todo = {} \/ last_index \in todo)

(* The entry delivers the record: it is it, or a checkpoint behind it. *)
Stands(x, e) == x = e \/ (IsCheckpoint(x) /\ x.rev > e.rev)

GotFor(e) == \E k \in 1..Len(got) : Stands(got[k], e)
WaitsAt(j, e) == \E a \in 1..Len(data[j]) : Reach(j, a) /\ Stands(data[j][a], e)
LiesAt(j, e) == \E a \in 1..Len(data[j]) : Reach(j, a) /\ data[j][a] = e
NewerThanGot(e) == \A k \in 1..Len(got) : got[k].rev < e.rev

(* Where files are missing, a later one starts with a checkpoint. *)
GapsStamped ==
  \A i \in Index \ live : (\E j \in live : j > i) => \E j \in live : j > i /\ StartsStamped(j)

(* Every record is got or can still be. *)
Covered ==
  \A k \in 1..Len(history) :
    \/ IsCheckpoint(history[k]) \/ GotFor(history[k])
    \/ \E j \in live : WaitsAt(j, history[k])

(* While a poll runs and none of its files is gone, a record is got, in a  *)
(* file the poll has still to visit, or newer than all it will get.        *)
PollCovered ==
  polling /\ todo \subseteq live =>
    \A k \in 1..Len(history) :
      \/ IsCheckpoint(history[k]) \/ GotFor(history[k])
      \/ \E j \in todo : WaitsAt(j, history[k])
      \/ \E j \in live \ todo : LiesAt(j, history[k])
      \/ todo = {} /\ NewerThanGot(history[k])

(* The view is the fold of the history up to the last entry delivered. *)
ViewOf(s) == [heads |-> s.heads, roster |-> s.roster]
Placed(p, s, n) ==
  IF n = 0 THEN p = 0 ELSE n \in 1..Len(s) /\ p \in 1..Len(history) /\ history[p] = s[n]
ViewFolded ==
  \E p \in 0..Len(history) : Placed(p, delivered, Len(delivered)) /\ view = ViewOf(After(p))

TailCover == GapsStamped /\ Covered /\ PollCovered /\ NoRecordSkipped /\ ViewFolded

LEMMA GapsKept ==
  ASSUME IInv, Seen, GapsStamped
  PROVE  GapsStamped'
PROOF
  <1>s. Shape
    BY Shapes DEF IInv
  <1>n. live \subseteq Nat /\ Index \subseteq Nat /\ \A j \in live : Len(data[j]) \in Nat
    BY <1>s DEF Shape
  <1>1. CASE FilesSame
    BY <1>1 DEF FilesSame, GapsStamped, StartsStamped
  <1>2. ASSUME NEW x, FileAdded(x)
        PROVE  GapsStamped'
    <2>1. /\ x \in Index /\ live' = live \cup {x} /\ \A j \in live : j <= x
          /\ x # 0 => x - 1 \in live
          /\ x \in live => Len(data[x]) = 0
          /\ \A j \in live : j # x => data'[j] = data[j]
      BY <1>2 DEF FileAdded
    <2> SUFFICES ASSUME NEW i \in Index, i \notin live', NEW j \in live', j > i
                 PROVE  \E c \in live' : c > i /\ StartsStamped(c)'
      BY DEF GapsStamped
    <2>2. \E y \in live : y > i
      <3>1. CASE j \in live
        BY <3>1
      <3>2. CASE j \notin live
        <4>1. j = x /\ x # 0 /\ i \in Nat /\ x \in Nat
          BY <3>2, <2>1, <1>n
        <4>2. x - 1 \in live /\ i # x - 1
          BY <4>1, <2>1
        <4> QED BY <4>1, <4>2, <1>n
      <3> QED BY <3>1, <3>2
    <2>3. PICK c \in live : c > i /\ StartsStamped(c)
      BY <2>1, <2>2 DEF GapsStamped
    <2>4. c # x
      BY <2>1, <2>3 DEF StartsStamped
    <2>5. StartsStamped(c)'
      BY <2>1, <2>3, <2>4 DEF StartsStamped
    <2> QED BY <2>1, <2>3, <2>5
  <1>3. ASSUME NEW x, NEW e, FrameAdded(x, e)
        PROVE  GapsStamped'
    <2>1. /\ x \in live /\ live' = live /\ Len(data'[x]) = Len(data[x]) + 1
          /\ \A k \in 1..Len(data[x]) : data'[x][k] = data[x][k]
          /\ \A j \in live : j # x => data'[j] = data[j]
      BY <1>3 DEF FrameAdded
    <2>2. ASSUME NEW c \in live, StartsStamped(c) PROVE StartsStamped(c)'
      <3>1. CASE c = x
        <4>1. Len(data[x]) \in Nat /\ Len(data[x]) # 0 /\ IsCheckpoint(data[x][1])
          BY <3>1, <2>2, <1>n DEF StartsStamped
        <4>2. 1 \in 1..Len(data[x]) /\ Len(data'[x]) # 0
          BY <4>1, <2>1
        <4>3. data'[x][1] = data[x][1]
          BY <4>2, <2>1
        <4> QED BY <3>1, <4>1, <4>2, <4>3 DEF StartsStamped
      <3>2. CASE c # x
        BY <3>2, <2>1, <2>2 DEF StartsStamped
      <3> QED BY <3>1, <3>2
    <2> QED BY <2>1, <2>2 DEF GapsStamped
  <1>4. ASSUME NEW m, FileRemoved(m)
        PROVE  GapsStamped'
    <2>1. m \in live /\ live' = live \ {m} /\ data' = data /\ \A j \in live : m <= j
      BY <1>4 DEF FileRemoved
    <2>2. PICK c \in live : c > m /\ StartsStamped(c)
      BY <1>4 DEF FileRemoved
    <2> SUFFICES ASSUME NEW i \in Index, i \notin live', NEW j \in live', j > i
                 PROVE  \E y \in live' : y > i /\ StartsStamped(y)
      BY <2>1 DEF GapsStamped, StartsStamped
    <2>3. CASE i \in live
      <3>1. i = m /\ c \in live'
        BY <2>1, <2>2, <2>3, <1>n
      <3> QED BY <3>1, <2>2
    <2>4. CASE i \notin live
      <3>1. PICK y \in live : y > i /\ StartsStamped(y)
        BY <2>1, <2>4 DEF GapsStamped
      <3>2. CASE y = m
        <4>1. c > i /\ c \in live'
          BY <3>1, <3>2, <2>1, <2>2, <1>n
        <4> QED BY <4>1, <2>2
      <3>3. CASE y # m
        BY <3>1, <3>3, <2>1
      <3> QED BY <3>2, <3>3
    <2> QED BY <2>3, <2>4
  <1> QED BY <1>1, <1>2, <1>3, <1>4 DEF Seen

(* A step that removes no frame leaves every record where it waits. *)
FramesKept ==
  \A j \in live : /\ j \in live'
                  /\ \A a \in 1..Len(data[j]) : a \in 1..Len(data'[j]) /\ data'[j][a] = data[j][a]

LEMMA AddedKept ==
  ASSUME Shape, NEW i, FileAdded(i)
  PROVE  FramesKept
PROOF
  <1>1. /\ live' = live \cup {i} /\ (i \in live => Len(data[i]) = 0)
        /\ \A j \in live : j # i => data'[j] = data[j]
    BY DEF FileAdded
  <1> SUFFICES ASSUME NEW j \in live
               PROVE  j \in live' /\ \A a \in 1..Len(data[j]) :
                        a \in 1..Len(data'[j]) /\ data'[j][a] = data[j][a]
    BY DEF FramesKept
  <1>2. CASE j = i
    BY <1>1, <1>2
  <1>3. CASE j # i
    BY <1>1, <1>3
  <1> QED BY <1>2, <1>3

LEMMA WrittenKept ==
  ASSUME Shape, NEW i, NEW e, FrameAdded(i, e)
  PROVE  FramesKept
PROOF
  <1>1. /\ i \in live /\ live' = live
        /\ Len(data'[i]) = Len(data[i]) + 1
        /\ \A k \in 1..Len(data[i]) : data'[i][k] = data[i][k]
        /\ \A j \in live : j # i => data'[j] = data[j]
        /\ Len(data[i]) \in Nat
    BY DEF FrameAdded, Shape
  <1> SUFFICES ASSUME NEW j \in live
               PROVE  j \in live' /\ \A a \in 1..Len(data[j]) :
                        a \in 1..Len(data'[j]) /\ data'[j][a] = data[j][a]
    BY DEF FramesKept
  <1>2. CASE j = i
    BY <1>1, <1>2
  <1>3. CASE j # i
    BY <1>1, <1>3
  <1> QED BY <1>2, <1>3

LEMMA WaitsKept ==
  ASSUME FramesKept, UNCHANGED tailVars, NEW e, NEW j \in live
  PROVE  /\ j \in live'
         /\ WaitsAt(j, e) => WaitsAt(j, e)'
         /\ LiesAt(j, e) => LiesAt(j, e)'
PROOF
  <1>1. last_index' = last_index /\ last_offset' = last_offset /\ todo' = todo
    BY DEF tailVars, cursor, pollVars
  <1>2. \A a : Reach(j, a)' <=> Reach(j, a)
    BY <1>1 DEF Reach
  <1>3. j \in live' /\ \A a \in 1..Len(data[j]) : a \in 1..Len(data'[j]) /\ data'[j][a] = data[j][a]
    BY DEF FramesKept
  <1>4. ASSUME WaitsAt(j, e) PROVE WaitsAt(j, e)'
    <2>1. PICK a \in 1..Len(data[j]) : Reach(j, a) /\ Stands(data[j][a], e)
      BY <1>4 DEF WaitsAt
    <2>2. a \in 1..Len(data'[j]) /\ Reach(j, a)' /\ Stands(data'[j][a], e)
      BY <2>1, <1>2, <1>3
    <2> QED BY <2>2 DEF WaitsAt
  <1>5. ASSUME LiesAt(j, e) PROVE LiesAt(j, e)'
    <2>1. PICK a \in 1..Len(data[j]) : Reach(j, a) /\ data[j][a] = e
      BY <1>5 DEF LiesAt
    <2>2. a \in 1..Len(data'[j]) /\ Reach(j, a)' /\ data'[j][a] = e
      BY <2>1, <1>2, <1>3
    <2> QED BY <2>2 DEF LiesAt
  <1> QED BY <1>3, <1>4, <1>5

LEMMA GotForKept ==
  ASSUME UNCHANGED tailVars, NEW e
  PROVE  (GotFor(e) <=> GotFor(e)') /\ (NewerThanGot(e) <=> NewerThanGot(e)')
PROOF
  <1>1. got' = got
    BY DEF tailVars, pollVars, got
  <1> QED BY <1>1 DEF GotFor, NewerThanGot

(* A record just written lies ahead of the cursor. *)
LEMMA WrittenLies ==
  ASSUME "dirsync_error" \notin Env, Shape, TailOrder, UNCHANGED tailVars, NEW i, NEW e,
         FrameAdded(i, e), ~IsCheckpoint(e)
  PROVE  i \in live' /\ LiesAt(i, e)' /\ WaitsAt(i, e)'
PROOF
  <1>1. /\ i \in live /\ live' = live /\ Len(data'[i]) = Len(data[i]) + 1 /\ Len(data[i]) \in Nat
        /\ data'[i][Len(data[i]) + 1] = e /\ \A j \in live : j <= i
    BY DEF FrameAdded, Shape
  <1>t. last_index' = last_index /\ last_offset' = last_offset /\ todo' = todo
    BY DEF tailVars, cursor, pollVars
  <1>a. live \subseteq Nat
    BY DEF Shape
  <1>n. live \subseteq Nat /\ todo \subseteq Nat /\ last_index \in Int /\ last_offset \in Nat
          /\ i \in Nat
    <2>1. todo \subseteq Nat /\ last_index \in Int /\ last_offset \in Nat
      BY DEF TailOrder, TailShape, Index, None
    <2> QED BY ONLY <1>1, <1>a, <2>1
  <1>2. last_index <= i
    <2>1. CASE last_index = None
      BY <2>1, <1>n DEF None
    <2>2. CASE last_index # None
      <3>1. PICK j \in live : last_index <= j
        BY <2>2 DEF TailOrder, CursorPlaced
      <3> QED BY <3>1, <1>1, <1>n
    <2> QED BY <2>1, <2>2
  <1>3. Reach(i, Len(data[i]) + 1)
    <2>1. CASE last_index < i
      BY <2>1 DEF Reach
    <2>2. CASE last_index = i
      <3>1. last_offset <= Len(data[i])
        BY <2>2, <1>1 DEF TailOrder, CursorPlaced
      <3>2. \A t \in todo : t = i
        <4> SUFFICES ASSUME NEW t \in todo PROVE t = i
          OBVIOUS
        <4>1. PICK j \in live : t <= j
          BY DEF TailOrder, CursorPlaced
        <4>2. last_index <= t
          BY DEF TailOrder, CursorPlaced
        <4> QED BY <4>1, <4>2, <2>2, <1>1, <1>n
      <3> QED BY <3>1, <3>2, <2>2, <1>1, <1>n DEF Reach
    <2> QED BY <2>1, <2>2, <1>2, <1>n
  <1>4. PICK a : a = Len(data[i]) + 1
    OBVIOUS
  <1>5. a \in 1..Len(data'[i]) /\ data'[i][a] = e /\ Reach(i, a)
    BY <1>1, <1>3, <1>4
  <1>6. Reach(i, a)'
    BY <1>5, <1>t DEF Reach
  <1>7. Stands(data'[i][a], e)
    BY <1>5 DEF Stands
  <1> QED BY <1>1, <1>5, <1>6, <1>7 DEF LiesAt, WaitsAt

LEMMA CoverSeen ==
  ASSUME "dirsync_error" \notin Env, IInv, TailOrder, Seen, UNCHANGED tailVars, Covered, PollCovered
  PROVE  Covered' /\ PollCovered'
PROOF
  <1>s. Shape /\ TailShape
    BY Shapes DEF IInv, TailOrder
  <1>t. last_index' = last_index /\ last_offset' = last_offset /\ todo' = todo /\ polling' = polling
    BY DEF tailVars, cursor, pollVars
  <1>n. live \subseteq Nat /\ todo \subseteq Nat /\ last_index \in Int /\ last_offset \in Nat
    BY <1>s DEF Shape, TailShape, Index, None
  <1>1. ASSUME FramesKept, history' = history, todo' \subseteq live' => todo \subseteq live
        PROVE  Covered' /\ PollCovered'
    <2>1. Covered'
      <3> SUFFICES ASSUME NEW k \in 1..Len(history)
                   PROVE  \/ IsCheckpoint(history[k]) \/ GotFor(history[k])'
                          \/ \E j \in live' : WaitsAt(j, history[k])'
        BY <1>1 DEF Covered
      <3>1. PICK e : e = history[k]
        OBVIOUS
      <3>2. IsCheckpoint(e) \/ GotFor(e) \/ \E j \in live : WaitsAt(j, e)
        BY <3>1 DEF Covered
      <3>3. GotFor(e) => GotFor(e)'
        BY GotForKept
      <3>4. ASSUME NEW j \in live, WaitsAt(j, e) PROVE j \in live' /\ WaitsAt(j, e)'
        BY <3>4, <1>1, WaitsKept
      <3>5. IsCheckpoint(e) \/ GotFor(e)' \/ \E j \in live' : WaitsAt(j, e)'
        BY <3>2, <3>3, <3>4
      <3> QED BY <3>1, <3>5, <1>1
    <2>2. PollCovered'
      <3> SUFFICES ASSUME polling, todo \subseteq live, NEW k \in 1..Len(history), NEW e,
                          e = history[k]
                   PROVE  \/ IsCheckpoint(e) \/ GotFor(e)'
                          \/ \E j \in todo : WaitsAt(j, e)'
                          \/ \E j \in live' \ todo : LiesAt(j, e)'
                          \/ todo = {} /\ NewerThanGot(e)'
        BY <1>1, <1>t DEF PollCovered
      <3>2. \/ IsCheckpoint(e) \/ GotFor(e)
            \/ \E j \in todo : WaitsAt(j, e)
            \/ \E j \in live \ todo : LiesAt(j, e)
            \/ todo = {} /\ NewerThanGot(e)
        BY DEF PollCovered
      <3>3. (GotFor(e) => GotFor(e)') /\ (NewerThanGot(e) => NewerThanGot(e)')
        BY GotForKept
      <3>4. ASSUME NEW j \in live
            PROVE  j \in live' /\ (WaitsAt(j, e) => WaitsAt(j, e)') /\ (LiesAt(j, e) => LiesAt(j, e)')
        BY <1>1, WaitsKept
      <3> QED BY <3>2, <3>3, <3>4
    <2> QED BY <2>1, <2>2
  <1>2. CASE FilesSame
    <2>1. FramesKept /\ history' = history /\ live' = live
      BY <1>2, <1>s DEF FilesSame, FramesKept
    <2> QED BY <2>1, <1>1, <1>t
  <1>3. ASSUME NEW i, FileAdded(i)
        PROVE  Covered' /\ PollCovered'
    <2>1. FramesKept
      BY <1>3, <1>s, AddedKept
    <2>2. /\ live' = live \cup {i} /\ history' = history /\ \A j \in live : j <= i
      BY <1>3 DEF FileAdded
    <2>3. ASSUME todo' \subseteq live', NEW t \in todo PROVE t \in live
      <3>1. PICK j \in live : t <= j
        BY DEF TailOrder, CursorPlaced
      <3>2. t \in live \/ t = i
        BY <2>2, <2>3, <1>t
      <3>3. t = i => j = i
        BY <3>1, <2>2, <1>n
      <3> QED BY <3>1, <3>2, <3>3
    <2> QED BY <2>1, <2>2, <2>3, <1>1
  <1>4. ASSUME NEW i, NEW x, FrameAdded(i, x)
        PROVE  Covered' /\ PollCovered'
    <2>1. FramesKept
      BY <1>4, <1>s, WrittenKept
    <2>2. /\ live' = live /\ Len(history') = Len(history) + 1 /\ Len(history) \in Nat
          /\ \A k \in 1..Len(history) : history'[k] = history[k]
          /\ history'[Len(history) + 1] = x
      BY <1>4, <1>s DEF FrameAdded, Shape
    <2>3. ~IsCheckpoint(x) => i \in live' /\ LiesAt(i, x)' /\ WaitsAt(i, x)'
      BY <1>4, <1>s, WrittenLies
    <2>4. Covered'
      <3> SUFFICES ASSUME NEW k \in 1..Len(history'), NEW e, e = history'[k]
                   PROVE  IsCheckpoint(e) \/ GotFor(e)' \/ \E j \in live' : WaitsAt(j, e)'
        BY DEF Covered
      <3>1. CASE k = Len(history) + 1
        BY <3>1, <2>2, <2>3
      <3>2. CASE k \in 1..Len(history)
        <4>1. e = history[k]
          BY <3>2, <2>2
        <4>2. IsCheckpoint(e) \/ GotFor(e) \/ \E j \in live : WaitsAt(j, e)
          BY <3>2, <4>1 DEF Covered
        <4>3. GotFor(e) => GotFor(e)'
          BY GotForKept
        <4>4. ASSUME NEW j \in live, WaitsAt(j, e) PROVE j \in live' /\ WaitsAt(j, e)'
          BY <4>4, <2>1, WaitsKept
        <4> QED BY <4>2, <4>3, <4>4
      <3> QED BY <3>1, <3>2, <2>2
    <2>5. PollCovered'
      <3> SUFFICES ASSUME polling, todo \subseteq live, NEW k \in 1..Len(history'), NEW e,
                          e = history'[k]
                   PROVE  \/ IsCheckpoint(e) \/ GotFor(e)'
                          \/ \E j \in todo : WaitsAt(j, e)'
                          \/ \E j \in live' \ todo : LiesAt(j, e)'
                          \/ todo = {} /\ NewerThanGot(e)'
        BY <2>2, <1>t DEF PollCovered
      <3>1. CASE k = Len(history) + 1
        <4>1. e = x
          BY <3>1, <2>2
        <4> QED BY <4>1, <2>3
      <3>2. CASE k \in 1..Len(history)
        <4>1. e = history[k]
          BY <3>2, <2>2
        <4>2. \/ IsCheckpoint(e) \/ GotFor(e)
              \/ \E j \in todo : WaitsAt(j, e)
              \/ \E j \in live \ todo : LiesAt(j, e)
              \/ todo = {} /\ NewerThanGot(e)
          BY <3>2, <4>1 DEF PollCovered
        <4>3. (GotFor(e) => GotFor(e)') /\ (NewerThanGot(e) => NewerThanGot(e)')
          BY GotForKept
        <4>4. ASSUME NEW j \in live
              PROVE  j \in live' /\ (WaitsAt(j, e) => WaitsAt(j, e)') /\ (LiesAt(j, e) => LiesAt(j, e)')
          BY <2>1, WaitsKept
        <4> QED BY <4>2, <4>3, <4>4
      <3> QED BY <3>1, <3>2, <2>2
    <2> QED BY <2>4, <2>5
  <1>5. ASSUME NEW m, FileRemoved(m)
        PROVE  Covered' /\ PollCovered'
    <2>1. /\ m \in live /\ live' = live \ {m} /\ data' = data /\ history' = history
          /\ \A j \in live : m <= j
      BY <1>5 DEF FileRemoved
    <2>2. PICK c \in live : c > m /\ StartsStamped(c)
      BY <1>5 DEF FileRemoved
    <2>3. c \in live' /\ 1 \in 1..Len(data[c]) /\ IsCheckpoint(data[c][1]) /\ m \in Nat /\ c \in Nat
      BY <2>1, <2>2, <1>n, <1>s DEF StartsStamped, Shape
    <2>4. ASSUME NEW j, NEW e
          PROVE  (WaitsAt(j, e) => WaitsAt(j, e)') /\ (LiesAt(j, e) => LiesAt(j, e)')
      <3>1. \A a : Reach(j, a)' <=> Reach(j, a)
        BY <1>t DEF Reach
      <3> QED BY <3>1, <2>1 DEF WaitsAt, LiesAt
    <2>5. ASSUME NEW e, e.rev \in Nat, WaitsAt(m, e) PROVE WaitsAt(c, e)
      <3>1. PICK a \in 1..Len(data[m]) : Reach(m, a) /\ Stands(data[m][a], e)
        BY <2>5 DEF WaitsAt
      <3>2. Reach(c, 1)
        BY <3>1, <2>2, <2>3, <1>n DEF Reach
      <3>3. data[m][a].rev < data[c][1].rev
        BY <2>1, <2>2, <2>3 DEF IInv, Files, InOrder
      <3>4. data[m][a].rev \in Nat /\ data[c][1].rev \in Nat
        BY <2>1, <2>3, <1>s DEF Shape
      <3>5. data[m][a] = e \/ data[m][a].rev > e.rev
        BY ONLY <3>1 DEF Stands
      <3>6. e.rev \in Nat
        BY <2>5
      <3>7. data[c][1].rev > e.rev
        BY ONLY <3>3, <3>4, <3>5, <3>6
      <3>8. Stands(data[c][1], e)
        BY ONLY <3>7, <2>3 DEF Stands
      <3> QED BY <3>2, <3>8, <2>3 DEF WaitsAt
    <2>6. Covered'
      <3> SUFFICES ASSUME NEW k \in 1..Len(history), NEW e, e = history[k]
                   PROVE  IsCheckpoint(e) \/ GotFor(e)' \/ \E j \in live' : WaitsAt(j, e)'
        BY <2>1 DEF Covered
      <3>1. e.rev \in Nat
        BY <1>s DEF Shape
      <3>2. IsCheckpoint(e) \/ GotFor(e) \/ \E j \in live : WaitsAt(j, e)
        BY DEF Covered
      <3>3. GotFor(e) => GotFor(e)'
        BY GotForKept
      <3>4. ASSUME NEW j \in live, WaitsAt(j, e) PROVE \E y \in live' : WaitsAt(y, e)
        <4>1. CASE j = m
          BY <4>1, <3>1, <3>4, <2>3, <2>5
        <4>2. CASE j # m
          BY <4>2, <3>4, <2>1
        <4> QED BY <4>1, <4>2
      <3> QED BY <3>2, <3>3, <3>4, <2>4
    <2>7. PollCovered'
      <3> SUFFICES ASSUME polling, todo \subseteq live', NEW k \in 1..Len(history), NEW e,
                          e = history[k]
                   PROVE  \/ IsCheckpoint(e) \/ GotFor(e)'
                          \/ \E j \in todo : WaitsAt(j, e)'
                          \/ \E j \in live' \ todo : LiesAt(j, e)'
                          \/ todo = {} /\ NewerThanGot(e)'
        BY <2>1, <1>t DEF PollCovered
      <3>1. \/ IsCheckpoint(e) \/ GotFor(e)
            \/ \E j \in todo : WaitsAt(j, e)
            \/ \E j \in live \ todo : LiesAt(j, e)
            \/ todo = {} /\ NewerThanGot(e)
        BY <2>1 DEF PollCovered
      <3>2. (GotFor(e) => GotFor(e)') /\ (NewerThanGot(e) => NewerThanGot(e)')
        BY GotForKept
      <3>3. ASSUME LiesAt(m, e) PROVE todo = {} /\ NewerThanGot(e)
        <4>1. PICK a \in 1..Len(data[m]) : Reach(m, a) /\ data[m][a] = e
          BY <3>3 DEF LiesAt
        <4>2. todo = {}
          <5> SUFFICES ASSUME NEW t \in todo PROVE FALSE
            OBVIOUS
          <5>1. t \in live /\ t # m /\ m <= t /\ t \in Nat
            BY <2>1, <1>n
          <5>2. CASE m > last_index
            <6>1. m \in todo \/ t < m
              BY <5>2, <2>1 DEF TailOrder, ListedInOrder
            <6> QED BY <6>1, <5>1, <2>1, <2>3
          <5>3. CASE ~(m > last_index)
            BY <5>3, <4>1, <2>1 DEF Reach
          <5> QED BY <5>2, <5>3
        <4>3. Past(m, a)
          BY <4>1 DEF Reach, Past
        <4>4. NewerThanGot(e)
          BY <4>1, <4>3, <2>1 DEF NewerThanGot, TailOrder, AheadNewer
        <4> QED BY <4>2, <4>4
      <3>4. ASSUME NEW j \in live \ todo, LiesAt(j, e)
            PROVE  (\E y \in live' \ todo : LiesAt(y, e)') \/ (todo = {} /\ NewerThanGot(e)')
        <4>1. CASE j = m
          BY <4>1, <3>2, <3>3, <3>4
        <4>2. CASE j # m
          BY <4>2, <3>4, <2>1, <2>4
        <4> QED BY <4>1, <4>2
      <3> QED BY <3>1, <3>2, <3>4, <2>4
    <2> QED BY <2>6, <2>7
  <1> QED BY <1>2, <1>3, <1>4, <1>5 DEF Seen

(* The same along the steps of the Tailer *)

LEMMA CoverReset ==
  ASSUME IInv, Content, TailOrder, Appear \/ Disappear
  PROVE  Covered' /\ PollCovered' /\ NoRecordSkipped'
PROOF
  <1>1. /\ live' = live /\ data' = data /\ history' = history
        /\ last_index' = None /\ ~polling' /\ delivered' = <<>>
    BY DEF Appear, Disappear, NewTailer, vars, diskVars
  <1>2. \A j \in live : j > None
    BY DEF IInv, TypeOK, Index, None
  <1>3. Covered'
    <2> SUFFICES ASSUME NEW k \in 1..Len(history), NEW e, e = history[k], ~IsCheckpoint(e)
                 PROVE  \E j \in live : WaitsAt(j, e)'
      BY <1>1 DEF Covered
    <2>1. InFiles(e) \/ Subsumed(e)
      BY DEF Content, Complete
    <2>2. PICK j \in live : \E a \in 1..Len(data[j]) : Stands(data[j][a], e)
      BY <2>1 DEF InFiles, At, Subsumed, Stands
    <2>3. PICK a \in 1..Len(data[j]) : Stands(data[j][a], e)
      BY <2>2
    <2>4. Reach(j, a)'
      BY <1>1, <1>2 DEF Reach
    <2>5. WaitsAt(j, e)'
      BY <1>1, <2>3, <2>4 DEF WaitsAt
    <2> QED BY <2>5
  <1>4. PollCovered' /\ NoRecordSkipped'
    BY <1>1 DEF PollCovered, NoRecordSkipped
  <1> QED BY <1>3, <1>4

LEMMA CoverBegin ==
  ASSUME IInv, TailOrder, PollBegin, Covered, NoRecordSkipped
  PROVE  Covered' /\ PollCovered' /\ NoRecordSkipped'
PROOF
  <1>1. /\ live' = live /\ data' = data /\ history' = history
        /\ last_index' = last_index /\ last_offset' = last_offset
        /\ ~polling /\ todo' = {i \in live : i >= last_index}
        /\ new_entries' = <<>> /\ delivered' = delivered
    BY DEF PollBegin, vars, diskVars, cursor
  <1>2. new_entries = <<>> /\ live \subseteq Nat /\ last_index \in Int
    BY <1>1 DEF TailOrder, TailShape, IInv, TypeOK, Index, None
  <1>3. got' = got
    BY <1>1, <1>2 DEF got
  <1>4. \A e : GotFor(e)' <=> GotFor(e)
    BY <1>3 DEF GotFor
  <1>5. ASSUME NEW e, NEW j \in live, WaitsAt(j, e) PROVE j \in todo' /\ WaitsAt(j, e)'
    <2>1. PICK a \in 1..Len(data[j]) : Reach(j, a) /\ Stands(data[j][a], e)
      BY <1>5 DEF WaitsAt
    <2>2. j >= last_index
      BY <2>1, <1>2 DEF Reach
    <2>3. j \in todo'
      BY <2>2, <1>1
    <2>4. Reach(j, a)'
      <3>1. CASE j > last_index
        BY <3>1, <1>1 DEF Reach
      <3>2. CASE j = last_index /\ a > last_offset
        BY <3>2, <2>3, <1>1 DEF Reach
      <3> QED BY <3>1, <3>2, <2>1 DEF Reach
    <2>5. WaitsAt(j, e)'
      BY <2>1, <2>4, <1>1 DEF WaitsAt
    <2> QED BY <2>3, <2>5
  <1>6. ASSUME NEW k \in 1..Len(history), NEW e, e = history[k]
        PROVE  IsCheckpoint(e) \/ GotFor(e)' \/ \E j \in live : j \in todo' /\ WaitsAt(j, e)'
    <2>1. IsCheckpoint(e) \/ GotFor(e) \/ \E j \in live : WaitsAt(j, e)
      BY <1>6 DEF Covered
    <2> QED BY <2>1, <1>4, <1>5
  <1>7. Covered'
    BY <1>1, <1>6 DEF Covered
  <1>8. PollCovered'
    BY <1>1, <1>6 DEF PollCovered
  <1>9. NoRecordSkipped'
    BY <1>1 DEF NoRecordSkipped
  <1> QED BY <1>7, <1>8, <1>9

LEMMA VisitedWaits ==
  ASSUME IInv, TailOrder, NEW m, Visited(m), NEW e, NEW j \in live, NEW a \in 1..Len(data[j]),
         Reach(j, a), Stands(data[j][a], e)
  PROVE  \/ GotFor(e)'
         \/ j > m /\ Reach(j, a)'
PROOF
  <1>s. Shape /\ TailShape
    BY Shapes DEF IInv, TailOrder
  <1>1. /\ data' = data /\ m \in todo /\ m \in live /\ \A i \in todo : m <= i
        /\ last_index' = m
    BY DEF Visited, FilesSame
  <1>n. live \subseteq Nat /\ last_index \in Int /\ last_offset \in Nat /\ m \in Nat /\ j \in Nat
    <2>1. live \subseteq Nat
      BY <1>s DEF Shape
    <2>2. last_index \in Int /\ last_offset \in Nat
      BY <1>s DEF TailShape, Index, None
    <2> QED BY <1>1, <2>1, <2>2
  <1>2. CASE j > m
    BY <1>2, <1>1 DEF Reach
  <1>3. CASE j = m
    <2>1. a > BaseOffset(m)
      <3>1. CASE m = last_index
        BY <3>1, <1>3, <1>n DEF Reach, BaseOffset
      <3>2. CASE m # last_index
        BY <3>2, <1>3, <1>n DEF BaseOffset
      <3> QED BY <3>1, <3>2
    <2>2. PICK g : g = got'
      OBVIOUS
    <2>3. PICK k \in 1..Len(g) : g[k] = data[m][a]
      BY <2>1, <2>2, <1>3, <1>s, GotFrom
    <2> QED BY <2>2, <2>3, <1>3 DEF GotFor
  <1>4. CASE j < m
    <2>1. CASE j > last_index
      <3>1. j \in todo \/ m < j
        BY <2>1, <1>1 DEF TailOrder, ListedInOrder
      <3> QED BY <3>1, <1>1, <1>4, <1>n
    <2>2. CASE ~(j > last_index)
      <3>1. j \in todo
        BY <2>2, <1>1 DEF Reach
      <3> QED BY <3>1, <1>1, <1>4, <1>n
    <2> QED BY <2>1, <2>2
  <1> QED BY <1>2, <1>3, <1>4, <1>n

LEMMA CoverVisited ==
  ASSUME IInv, TailOrder, NEW m, Visited(m), Covered, PollCovered, NoRecordSkipped
  PROVE  Covered' /\ PollCovered' /\ NoRecordSkipped'
PROOF
  <1>s. Shape /\ TailShape
    BY Shapes DEF IInv, TailOrder
  <1>1. /\ live' = live /\ data' = data /\ history' = history
        /\ m \in todo /\ m \in live /\ todo' = todo \ {m} /\ polling
        /\ delivered' = delivered
    BY DEF Visited, FilesSame
  <1>n. live \subseteq Nat
    BY <1>s DEF Shape
  <1>2. ASSUME NEW e, GotFor(e) PROVE GotFor(e)'
    <2>1. PICK k \in 1..Len(got) : Stands(got[k], e)
      BY <1>2 DEF GotFor
    <2>2. PICK g : g = got'
      OBVIOUS
    <2>3. k \in 1..Len(g) /\ g[k] = got[k]
      BY <2>2, <1>s, GotFrom
    <2> QED BY <2>1, <2>2, <2>3 DEF GotFor
  <1>3. ASSUME NEW e, NEW j \in live, WaitsAt(j, e) PROVE GotFor(e)' \/ (j > m /\ WaitsAt(j, e)')
    <2>1. PICK a \in 1..Len(data[j]) : Reach(j, a) /\ Stands(data[j][a], e)
      BY <1>3 DEF WaitsAt
    <2>2. GotFor(e)' \/ (j > m /\ Reach(j, a)')
      BY <2>1, VisitedWaits
    <2> QED BY <2>1, <2>2, <1>1 DEF WaitsAt
  <1>4. ASSUME NEW e, NEW j \in live, LiesAt(j, e) PROVE GotFor(e)' \/ (j > m /\ LiesAt(j, e)')
    <2>1. PICK a \in 1..Len(data[j]) : Reach(j, a) /\ data[j][a] = e
      BY <1>4 DEF LiesAt
    <2>2. Stands(data[j][a], e)
      BY <2>1 DEF Stands
    <2>3. GotFor(e)' \/ (j > m /\ Reach(j, a)')
      BY <2>1, <2>2, VisitedWaits
    <2> QED BY <2>1, <2>3, <1>1 DEF LiesAt
  <1>5. Covered'
    <2> SUFFICES ASSUME NEW k \in 1..Len(history), NEW e, e = history[k]
                 PROVE  IsCheckpoint(e) \/ GotFor(e)' \/ \E j \in live : WaitsAt(j, e)'
      BY <1>1 DEF Covered
    <2>1. IsCheckpoint(e) \/ GotFor(e) \/ \E j \in live : WaitsAt(j, e)
      BY DEF Covered
    <2> QED BY <2>1, <1>2, <1>3
  <1>6. PollCovered'
    <2> SUFFICES ASSUME todo' \subseteq live', NEW k \in 1..Len(history), NEW e, e = history[k]
                 PROVE  \/ IsCheckpoint(e) \/ GotFor(e)'
                        \/ \E j \in todo' : WaitsAt(j, e)'
                        \/ \E j \in live' \ todo' : LiesAt(j, e)'
      BY <1>1 DEF PollCovered
    <2>1. todo \subseteq live
      BY <1>1
    <2>2. \/ IsCheckpoint(e) \/ GotFor(e)
          \/ \E j \in todo : WaitsAt(j, e)
          \/ \E j \in live \ todo : LiesAt(j, e)
      BY <1>1, <2>1 DEF PollCovered
    <2>3. ASSUME NEW j \in todo, WaitsAt(j, e) PROVE GotFor(e)' \/ (j \in todo' /\ WaitsAt(j, e)')
      BY <2>1, <2>3, <1>1, <1>3, <1>n
    <2>4. ASSUME NEW j \in live \ todo, LiesAt(j, e)
          PROVE  GotFor(e)' \/ (j \in live' \ todo' /\ LiesAt(j, e)')
      BY <2>4, <1>1, <1>4
    <2> QED BY <2>2, <2>3, <2>4, <1>2
  <1>7. NoRecordSkipped'
    BY <1>1 DEF NoRecordSkipped
  <1> QED BY <1>5, <1>6, <1>7

(* A poll that meets a file removed under it drops what it got: it waits   *)
(* under the checkpoint of a file further on.                              *)
LEMMA CoverFailed ==
  ASSUME IInv, TailOrder, PollError, ~ReadErrors, GapsStamped, Covered, NoRecordSkipped
  PROVE  Covered' /\ PollCovered' /\ NoRecordSkipped'
PROOF
  <1>s. Shape /\ TailShape
    BY Shapes DEF IInv, TailOrder
  <1>1. /\ live' = live /\ data' = data /\ history' = history
        /\ last_index' = last_index /\ last_offset' = last_offset
        /\ ~polling' /\ todo # {} /\ todo' = {} /\ delivered' = delivered /\ Min(todo) \notin live
    BY DEF PollError, vars, diskVars, cursor
  <1>n. live \subseteq Nat /\ todo \subseteq Index /\ todo \subseteq Nat /\ last_index \in Int
    BY <1>s DEF Shape, TailShape, Index, None
  <1>2. PICK t \in todo : t \notin live
    BY <1>1, <1>n, LeastNumber
  <1>3. \E j \in live : j > t
    <2>1. PICK j \in live : t <= j
      BY DEF TailOrder, CursorPlaced
    <2>2. t # j
      BY <1>2
    <2> QED BY <2>1, <2>2, <1>n
  <1>4. PICK c \in live : c > t /\ StartsStamped(c)
    BY <1>2, <1>3, <1>n DEF GapsStamped
  <1>5. /\ 1 \in 1..Len(data[c]) /\ IsCheckpoint(data[c][1]) /\ data[c][1].rev \in Nat
        /\ c > last_index
    <2>1. Len(data[c]) \in Nat /\ Len(data[c]) # 0 /\ IsCheckpoint(data[c][1])
      BY <1>4, <1>s DEF StartsStamped, Shape
    <2>2. 1 \in 1..Len(data[c])
      BY <2>1
    <2>3. data[c][1].rev \in Nat
      BY <2>2, <1>4, <1>s DEF Shape
    <2>4. last_index <= t
      BY <1>2 DEF TailOrder, CursorPlaced
    <2> QED BY <2>1, <2>2, <2>3, <2>4, <1>4, <1>n
  <1>6. ASSUME NEW e, e.rev \in Nat, GotFor(e) PROVE WaitsAt(c, e)'
    <2>1. PICK k \in 1..Len(got) : Stands(got[k], e)
      BY <1>6 DEF GotFor
    <2>2. Past(c, 1)
      BY <1>5 DEF Past
    <2>3. got[k].rev < data[c][1].rev /\ got[k].rev \in Nat
      BY <2>2, <1>4, <1>5, <1>s, GotShape DEF TailOrder, AheadNewer
    <2>4. Stands(data[c][1], e)
      BY <2>1, <2>3, <1>5, <1>6 DEF Stands
    <2>5. Reach(c, 1)'
      BY <1>1, <1>5 DEF Reach
    <2> QED BY <2>4, <2>5, <1>1, <1>5 DEF WaitsAt
  <1>7. ASSUME NEW e, NEW j \in live, WaitsAt(j, e) PROVE WaitsAt(j, e)'
    <2>1. PICK a \in 1..Len(data[j]) : Reach(j, a) /\ Stands(data[j][a], e)
      BY <1>7 DEF WaitsAt
    <2>2. Reach(j, a)'
      BY <2>1, <1>1 DEF Reach
    <2> QED BY <2>1, <2>2, <1>1 DEF WaitsAt
  <1>8. Covered'
    <2> SUFFICES ASSUME NEW k \in 1..Len(history), NEW e, e = history[k]
                 PROVE  IsCheckpoint(e) \/ GotFor(e)' \/ \E j \in live : WaitsAt(j, e)'
      BY <1>1 DEF Covered
    <2>1. IsCheckpoint(e) \/ GotFor(e) \/ \E j \in live : WaitsAt(j, e)
      BY DEF Covered
    <2>2. e.rev \in Nat
      BY <1>s DEF Shape
    <2> QED BY <2>1, <2>2, <1>4, <1>6, <1>7
  <1>9. PollCovered' /\ NoRecordSkipped'
    BY <1>1 DEF PollCovered, NoRecordSkipped
  <1> QED BY <1>8, <1>9

(* At the end of a poll every record is got, under a checkpoint that is,   *)
(* or newer than all of it.                                                *)
Settled(e) == IsCheckpoint(e) \/ GotFor(e) \/ NewerThanGot(e)

LEMMA PollSettles ==
  ASSUME TailOrder, PollCovered, polling, todo = {}
  PROVE  \A k \in 1..Len(history) : Settled(history[k])
PROOF
  <1> SUFFICES ASSUME NEW k \in 1..Len(history), NEW e, e = history[k] PROVE Settled(e)
    OBVIOUS
  <1>1. \/ IsCheckpoint(e) \/ GotFor(e)
        \/ \E j \in live : LiesAt(j, e)
        \/ NewerThanGot(e)
    BY DEF PollCovered
  <1>2. ASSUME NEW j \in live, LiesAt(j, e) PROVE NewerThanGot(e)
    <2>1. PICK a \in 1..Len(data[j]) : Reach(j, a) /\ data[j][a] = e
      BY <1>2 DEF LiesAt
    <2>2. Past(j, a)
      BY <2>1 DEF Reach, Past
    <2> QED BY <2>1, <2>2 DEF NewerThanGot, TailOrder, AheadNewer
  <1> QED BY <1>1, <1>2 DEF Settled

LEMMA CoverEnd ==
  ASSUME IInv, TailOrder, PollEnd, Covered, PollCovered
  PROVE  Covered' /\ PollCovered' /\ NoRecordSkipped'
PROOF
  <1>s. Shape /\ TailShape
    BY Shapes DEF IInv, TailOrder
  <1>1. /\ live' = live /\ data' = data /\ history' = history
        /\ last_index' = last_index /\ last_offset' = last_offset
        /\ polling /\ ~polling' /\ todo = {} /\ todo' = {} /\ new_entries' = <<>>
        /\ delivered' = delivered \o new_entries
    BY DEF PollEnd, vars, diskVars
  <1>2. got' = got /\ delivered' = got
    BY <1>1, <1>s, GotKept
  <1>3. Covered'
    <2>1. \A e : GotFor(e)' <=> GotFor(e)
      BY <1>2 DEF GotFor
    <2>2. \A j, e : WaitsAt(j, e)' <=> WaitsAt(j, e)
      BY <1>1 DEF WaitsAt, Reach
    <2> QED BY <1>1, <2>1, <2>2 DEF Covered
  <1>4. PollCovered'
    BY <1>1 DEF PollCovered
  <1>5. NoRecordSkipped'
    <2>1. Len(got) \in Nat /\ DOMAIN got = 1..Len(got) /\ (got = <<>> <=> Len(got) = 0)
      BY <1>s, GotShape, LogShape
    <2>2. DOMAIN history = 1..Len(history)
      BY LogShape DEF IInv, TypeOK
    <2> SUFFICES ASSUME got # <<>>, NEW k \in 1..Len(history), NEW e, e = history[k]
                 PROVE  \/ e.rev > Last(got).rev
                        \/ IsCheckpoint(e)
                        \/ \E d \in 1..Len(got) : got[d] = e \/ (IsCheckpoint(got[d])
                          /\ got[d].rev > e.rev)
      BY <1>1, <1>2, <2>1, <2>2 DEF NoRecordSkipped
    <2>3. Settled(e)
      BY <1>1, PollSettles
    <2>4. NewerThanGot(e) => e.rev > Last(got).rev
      <3>1. Len(got) \in 1..Len(got)
        BY <2>1
      <3>2. got[Len(got)].rev \in Nat /\ e.rev \in Nat
        BY <3>1, <1>s, GotShape DEF Shape
      <3> QED BY <3>1, <3>2 DEF NewerThanGot, Last
    <2> QED BY <2>3, <2>4 DEF Settled, GotFor, Stands
  <1> QED BY <1>3, <1>4, <1>5

LEMMA SkippedSeen ==
  ASSUME IInv, IInv', TailOrder, Seen, UNCHANGED tailVars, NoRecordSkipped
  PROVE  NoRecordSkipped'
PROOF
  <1>s. Shape /\ Shape' /\ TailShape
    BY Shapes, NextShapes DEF IInv, TailOrder
  <1>t. delivered' = delivered
    BY DEF tailVars
  <1>1. CASE history' = history
    BY <1>1, <1>t DEF NoRecordSkipped
  <1>2. ASSUME NEW i, NEW e, FrameAdded(i, e)
        PROVE  NoRecordSkipped'
    <2>1. /\ Len(history') = Len(history) + 1 /\ Len(history) \in Nat
          /\ \A k \in 1..Len(history) : history'[k] = history[k]
      BY <1>2, <1>s DEF FrameAdded, Shape
    <2>2. DOMAIN history = 1..Len(history) /\ DOMAIN history' = 1..Len(history')
      BY LogShape DEF IInv, TypeOK
    <2> SUFFICES ASSUME delivered # <<>>, NEW k \in 1..Len(history')
                 PROVE  \/ history'[k].rev > Last(delivered).rev
                        \/ IsCheckpoint(history'[k])
                        \/ \E d \in DOMAIN delivered :
                             \/ delivered[d] = history'[k]
                             \/ IsCheckpoint(delivered[d]) /\ delivered[d].rev > history'[k].rev
      BY <2>2, <1>t DEF NoRecordSkipped
    <2>3. CASE k \in 1..Len(history)
      BY <2>1, <2>2, <2>3 DEF NoRecordSkipped
    <2>4. CASE k = Len(history) + 1
      <3>1. Len(delivered) \in 1..Len(got) /\ got[Len(delivered)] = Last(delivered)
        <4>1. Len(delivered) \in Nat /\ Len(delivered) # 0
          BY <1>s, LogShape DEF TailShape
        <4>2. Len(delivered) \in 1..Len(delivered)
          BY <4>1
        <4> QED BY <4>1, <4>2, <1>s, GotShape DEF Last
      <3>2. PICK q \in 1..Len(history) : history[q] = Last(delivered)
        BY <3>1 DEF TailOrder, GotKnown, Known
      <3>3. q \in 1..Len(history') /\ q < k /\ history'[q] = history[q]
        BY <2>1, <2>4
      <3>4. history'[q].rev < history'[k].rev
        BY <3>3 DEF IInv, Files, Sorted
      <3>5. history'[q].rev \in Nat /\ history'[k].rev \in Nat
        BY <3>3, <1>s DEF Shape
      <3> QED BY <3>2, <3>3, <3>4, <3>5
    <2> QED BY <2>1, <2>3, <2>4
  <1> QED BY <1>1, <1>2 DEF Seen, FilesSame, FileAdded, FileRemoved

LEMMA ViewKept ==
  ASSUME TypeOK, TypeOK', Len(history) <= Len(history'),
         \A k \in 1..Len(history) : history'[k] = history[k],
         view' = view, delivered' = delivered, ViewFolded
  PROVE  ViewFolded'
PROOF
  <1>1. Len(history) \in Nat /\ Len(history') \in Nat
    BY LogShape DEF TypeOK
  <1>2. PICK p \in 0..Len(history) : Placed(p, delivered, Len(delivered)) /\ view = ViewOf(After(p))
    BY DEF ViewFolded
  <1>3. Len(history) \in 0..Len(history)
    BY <1>1
  <1>4. After(p)' = After(p)
    BY <1>3, AfterKept
  <1>5. p \in 0..Len(history') /\ view' = ViewOf(After(p)')
    BY <1>1, <1>2, <1>4
  <1>6. Placed(p, delivered, Len(delivered))'
    <2>1. CASE Len(delivered) = 0
      <3>1. p = 0
        BY <2>1, <1>2 DEF Placed
      <3> QED BY <3>1, <2>1 DEF Placed
    <2>2. CASE Len(delivered) # 0
      <3>1. Len(delivered) \in 1..Len(delivered) /\ p \in 1..Len(history)
              /\ history[p] = delivered[Len(delivered)]
        BY <2>2, <1>2 DEF Placed
      <3>2. p \in 1..Len(history') /\ history'[p] = delivered[Len(delivered)]
        BY <3>1, <1>1
      <3> QED BY <3>1, <3>2, <2>2 DEF Placed
    <2> QED BY <2>1, <2>2
  <1> QED BY <1>5, <1>6 DEF ViewFolded

LEMMA ViewReset ==
  ASSUME IInv, IInv', TailOrder, ViewFolded, Appear \/ Disappear
  PROVE  ViewFolded'
PROOF
  <1>1. history' = history /\ delivered' = <<>>
    BY DEF Appear, Disappear, NewTailer, vars
  <1>2. Len(<<>>) = 0 /\ Len(history) \in Nat /\ TypeOK /\ TypeOK'
    BY LogEmpty, LogShape DEF IInv, TypeOK
  <1>3. After(0) = EmptySnapshot
    BY <1>2, AfterZero
  <1>4. After(0)' = After(0)
    <2>1. Len(history) \in 0..Len(history) /\ Len(history) <= Len(history')
          /\ \A k \in 1..Len(history) : history'[k] = history[k] /\ 0 \in 0..Len(history)
      BY <1>1, <1>2
    <2>2. 0 \in 0..Len(history)
      BY <1>2
    <2> QED BY <2>1, <2>2, <1>2, AfterKept
  <1>5. view' = ViewOf(After(0))
    <2>1. CASE Disappear
      BY <2>1, <1>3 DEF Disappear, EmptyView, ViewOf, EmptySnapshot
    <2>2. CASE Appear
      <3>1. view' = view /\ delivered = <<>>
        BY <2>2 DEF Appear, TailOrder, TailShape
      <3>2. PICK p \in 0..Len(history) : Placed(p, delivered, Len(delivered))
              /\ view = ViewOf(After(p))
        BY DEF ViewFolded
      <3>3. p = 0
        BY <3>1, <3>2, <1>2 DEF Placed
      <3> QED BY <3>1, <3>2, <3>3
    <2> QED BY <2>1, <2>2
  <1>6. 0 \in 0..Len(history') /\ view' = ViewOf(After(0)')
    BY <1>1, <1>2, <1>4, <1>5
  <1>7. Placed(0, delivered, Len(delivered))'
    BY <1>1, <1>2 DEF Placed
  <1> QED BY <1>6, <1>7 DEF ViewFolded

(* apply and fold_entry agree on heads and roster. *)
LEMMA ApplyIsFold ==
  ASSUME NEW s, NEW e, ~IsCheckpoint(e)
  PROVE  ApplyEntry(ViewOf(s), e) = ViewOf(FoldEntry(s, e))
PROOF
  <1>1. ApplyEntry(ViewOf(s), e) = [heads |-> FoldHeads(ViewOf(s).heads, e.kind),
                                    roster |-> FoldRoster(ViewOf(s).roster, e.kind)]
    BY DEF ApplyEntry
  <1>2. ViewOf(s).heads = s.heads /\ ViewOf(s).roster = s.roster
    BY DEF ViewOf
  <1>3. /\ FoldEntry(s, e).heads = FoldHeads(s.heads, e.kind)
        /\ FoldEntry(s, e).roster = FoldRoster(s.roster, e.kind)
    BY DEF FoldEntry
  <1> QED BY <1>1, <1>2, <1>3 DEF ViewOf

(* One more entry of the batch: the view is right up to it, or a checkpoint *)
(* that sets it right is still to come.                                     *)
Later(k) == \E s \in 1..Len(got) : s > k /\ IsCheckpoint(got[s])

LEMMA ViewStep ==
  ASSUME IInv, Stamped, TailOrder, \A x \in 1..Len(history) : Settled(history[x]),
         NEW k \in Nat, k + 1 <= Len(got), NEW q \in 0..Len(history), Placed(q, got, k),
         NEW v, v = ViewOf(After(q)) \/ Later(k)
  PROVE  \E r \in 0..Len(history) :
           Placed(r, got, k + 1) /\ (ApplyEntry(v, got[k + 1]) = ViewOf(After(r)) \/ Later(k + 1))
PROOF
  <1>s. TypeOK /\ Shape /\ Sorted /\ TailShape /\ GotSorted /\ GotKnown
    BY Shapes DEF IInv, Files, TailOrder
  <1>g. Len(got) \in Nat /\ Len(history) \in Nat /\ \A s \in 1..Len(got) : got[s].rev \in Nat
    BY <1>s, GotShape DEF Shape
  <1>1. k + 1 \in 1..Len(got) /\ k + 1 # 0 /\ k < k + 1
    BY <1>g
  <1>2. PICK r \in 1..Len(history) : history[r] = got[k + 1]
    BY <1>s, <1>1 DEF GotKnown, Known
  <1>3. PICK e : e = got[k + 1]
    OBVIOUS
  <1>4. r \in 0..Len(history) /\ Placed(r, got, k + 1)
    BY <1>1, <1>2, <1>g DEF Placed
  <1>5. CASE Later(k + 1)
    BY <1>4, <1>5
  <1>6. CASE IsCheckpoint(e)
    <2>1. e.kind.snapshot = After(r - 1) /\ After(r) = After(r - 1)
      <3>1. IsCheckpoint(history[r]) /\ history[r] = e
        BY <1>2, <1>3, <1>6
      <3>2. history[r].kind.snapshot = After(r - 1)
        BY <3>1 DEF Stamped
      <3>3. After(r) = After(r - 1)
        BY <3>1, <1>s, AfterStep
      <3> QED BY <3>1, <3>2, <3>3
    <2>2. ApplyEntry(v, e) = ViewOf(After(r))
      BY <1>6, <2>1 DEF ApplyEntry, ViewOf
    <2> QED BY <2>2, <1>3, <1>4
  <1>7. CASE ~IsCheckpoint(e) /\ ~Later(k + 1)
    <2>1. v = ViewOf(After(q))
      <3>1. ~Later(k)
        BY <1>3, <1>7, <1>g DEF Later
      <3> QED BY <3>1
    <2>2. ASSUME NEW s \in 1..Len(got), s <= k
          PROVE  k \in 1..Len(got) /\ q \in 1..Len(history) /\ history[q] = got[k]
                   /\ got[s].rev <= history[q].rev
      <3>1. k # 0 /\ k \in 1..Len(got)
        BY <2>2, <1>g
      <3>2. q \in 1..Len(history) /\ history[q] = got[k]
        BY <3>1 DEF Placed
      <3>3. s = k \/ s < k
        BY <2>2
      <3>4. s < k => got[s].rev < got[k].rev
        BY <3>1, <1>s DEF GotSorted
      <3> QED BY <3>1, <3>2, <3>3, <3>4, <1>g
    <2>3. q < r
      <3>1. CASE k = 0
        BY <3>1 DEF Placed
      <3>2. CASE k # 0
        <4>1. k \in 1..Len(got) /\ k <= k
          BY <3>2, <1>g
        <4>2. q \in 1..Len(history) /\ history[q] = got[k]
          BY <4>1, <2>2
        <4>3. got[k].rev < got[k + 1].rev
          BY <4>1, <1>1, <1>s DEF GotSorted
        <4>4. history[q].rev < history[r].rev
          BY <4>2, <4>3, <1>2
        <4> QED BY <4>2, <4>4, <1>s, Places
      <3> QED BY <3>1, <3>2
    <2>4. ASSUME NEW x \in 1..Len(history), q < x, x <= r - 1, ~IsCheckpoint(history[x])
          PROVE  FALSE
      <3>1. x < r /\ x # r
        BY <2>4
      <3>2. history[x].rev < history[r].rev /\ history[x].rev \in Nat /\ history[r].rev \in Nat
        BY <3>1, <1>s, Places DEF Shape
      <3>3. ~NewerThanGot(history[x])
        BY <3>2, <1>1, <1>2 DEF NewerThanGot
      <3>4. PICK s \in 1..Len(got) : Stands(got[s], history[x])
        BY <2>4, <3>3 DEF Settled, GotFor
      <3>5. CASE s <= k
        <4>1. q \in 1..Len(history) /\ got[s].rev <= history[q].rev
          BY <3>5, <2>2
        <4>2. history[q].rev < history[x].rev
          BY <4>1, <2>4, <1>s, Places
        <4>3. history[q].rev \in Nat /\ got[s].rev \in Nat
          BY <4>1, <1>s, <1>g DEF Shape
        <4> QED BY ONLY <4>1, <4>2, <4>3, <3>2, <3>4 DEF Stands
      <3>6. CASE s = k + 1
        BY <3>2, <3>4, <3>6, <1>2, <1>3, <1>7 DEF Stands
      <3>7. CASE s > k + 1
        <4>1. got[k + 1].rev < got[s].rev
          BY <3>7, <1>1, <1>s DEF GotSorted
        <4>2. ~IsCheckpoint(got[s])
          BY <3>7, <1>7 DEF Later
        <4>3. got[s] = history[x]
          BY ONLY <4>2, <3>4 DEF Stands
        <4>4. got[k + 1].rev = history[r].rev
          BY ONLY <1>2
        <4> QED BY ONLY <4>1, <4>3, <4>4, <3>2
      <3> QED BY <3>5, <3>6, <3>7, <1>g
    <2>5. After(r - 1) = After(q)
      <3>1. r - 1 \in 0..Len(history) /\ q <= r - 1
        BY <2>3, <1>g
      <3>2. \A x \in 1..Len(history) : q < x /\ x <= r - 1 => IsCheckpoint(history[x])
        BY <2>4
      <3> QED BY <3>1, <3>2, <1>s, AfterSkip
    <2>6. After(r) = FoldEntry(After(r - 1), e)
      BY <1>2, <1>3, <1>7, <1>s, AfterStep
    <2>7. ApplyEntry(v, e) = ViewOf(After(r))
      BY <2>1, <2>5, <2>6, <1>7, ApplyIsFold
    <2> QED BY <2>7, <1>3, <1>4
  <1> QED BY <1>5, <1>6, <1>7

LEMMA ViewEnd ==
  ASSUME IInv, IInv', Content, TailOrder, PollCovered, ViewFolded, PollEnd
  PROVE  ViewFolded'
PROOF
  <1>s. TypeOK /\ TypeOK' /\ Shape /\ TailShape /\ Stamped
    BY Shapes DEF IInv, TailOrder, Content
  <1>1. /\ history' = history /\ polling /\ todo = {} /\ new_entries' = <<>>
        /\ delivered' = delivered \o new_entries /\ view' = ApplyAll(view, new_entries)
    BY DEF PollEnd, vars
  <1>2. delivered' = got
    BY <1>1, <1>s, GotKept
  <1>g. /\ Len(got) \in Nat /\ Len(got) = Len(delivered) + Len(new_entries)
        /\ Len(delivered) \in Nat /\ Len(new_entries) \in Nat /\ Len(history) \in Nat
        /\ \A k \in 1..Len(delivered) : got[k] = delivered[k]
        /\ \A k \in 1..Len(new_entries) : got[Len(delivered) + k] = new_entries[k]
    BY <1>s, GotShape DEF Shape
  <1>3. PICK f : /\ f[0] = view
                 /\ \A k \in 1..Len(new_entries) : f[k] = ApplyEntry(f[k - 1], new_entries[k])
                 /\ ApplyAll(view, new_entries) = f[Len(new_entries)]
    <2>1. Len(new_entries) \in Nat
      BY ONLY <1>g
    <2>2. \E f : /\ f[0] = view
                 /\ \A k \in 1..Len(new_entries) : f[k] = ApplyEntry(f[k - 1], new_entries[k])
                 /\ ApplyAll(view, new_entries) = f[Len(new_entries)]
      BY ONLY <2>1, ApplyAllIs
    <2> QED BY ONLY <2>2
  <1>4. \A x \in 1..Len(history) : Settled(history[x])
    BY <1>1, PollSettles
  <1> DEFINE d == Len(delivered)
             S == {k \in Nat : k <= Len(new_entries) =>
                     \E q \in 0..Len(history) :
                       Placed(q, got, d + k) /\ (f[k] = ViewOf(After(q)) \/ Later(d + k))}
  <1>5. 0 \in S
    <2>1. PICK p \in 0..Len(history) : Placed(p, delivered, Len(delivered))
            /\ view = ViewOf(After(p))
      BY DEF ViewFolded
    <2>2. Placed(p, got, Len(delivered))
      <3>1. CASE Len(delivered) = 0
        BY <3>1, <2>1 DEF Placed
      <3>2. CASE Len(delivered) # 0
        <4>1. Len(delivered) \in 1..Len(delivered) /\ Len(delivered) \in 1..Len(got)
          BY <3>2, <1>g
        <4> QED BY <4>1, <3>2, <2>1, <1>g DEF Placed
      <3> QED BY <3>1, <3>2
    <2>3. d + 0 = Len(delivered)
      BY <1>g
    <2> QED BY <2>1, <2>2, <2>3, <1>3
  <1>6. ASSUME NEW k \in S PROVE k + 1 \in S
    <2> SUFFICES ASSUME k + 1 <= Len(new_entries)
                 PROVE  \E q \in 0..Len(history) :
                          Placed(q, got, d + (k + 1))
                            /\ (f[k + 1] = ViewOf(After(q)) \/ Later(d + (k + 1)))
      OBVIOUS
    <2>1. k \in Nat /\ k <= Len(new_entries) /\ k + 1 \in 1..Len(new_entries) /\ (k + 1) - 1 = k
      BY <1>g
    <2>2. PICK q \in 0..Len(history) :
            Placed(q, got, d + k) /\ (f[k] = ViewOf(After(q)) \/ Later(d + k))
      BY <2>1
    <2>3. PICK x : x = d + k
      OBVIOUS
    <2> HIDE DEF S
    <2>4. x \in Nat /\ x + 1 <= Len(got) /\ x + 1 = d + (k + 1) /\ got[x + 1] = new_entries[k + 1]
      BY <2>1, <2>3, <1>g
    <2>5. f[k + 1] = ApplyEntry(f[k], got[x + 1])
      BY <2>1, <2>4, <1>3
    <2>6. \E r \in 0..Len(history) :
            Placed(r, got, x + 1)
              /\ (ApplyEntry(f[k], got[x + 1]) = ViewOf(After(r)) \/ Later(x + 1))
      BY <2>2, <2>3, <2>4, <1>4, <1>s, ViewStep
    <2> QED BY <2>4, <2>5, <2>6
  <1>7. S = Nat
    <2>1. S \subseteq Nat
      OBVIOUS
    <2> HIDE DEF S
    <2> QED BY <1>5, <1>6, <2>1, Induct
  <1>8. PICK q \in 0..Len(history) :
          Placed(q, got, Len(got)) /\ (view' = ViewOf(After(q)) \/ Later(Len(got)))
    <2>1. Len(new_entries) \in S /\ d + Len(new_entries) = Len(got)
      BY <1>7, <1>g
    <2>2. \E q \in 0..Len(history) :
            /\ Placed(q, got, d + Len(new_entries))
            /\ f[Len(new_entries)] = ViewOf(After(q)) \/ Later(d + Len(new_entries))
      BY <2>1, <1>g
    <2> QED BY <2>1, <2>2, <1>1, <1>3
  <1>9. view' = ViewOf(After(q))
    <2>1. ~Later(Len(got))
      BY <1>g DEF Later
    <2> QED BY <2>1, <1>8
  <1>10. After(q)' = After(q)
    <2>1. Len(history) \in 0..Len(history) /\ Len(history) <= Len(history')
          /\ \A k \in 1..Len(history) : history'[k] = history[k]
      BY <1>1, <1>g
    <2> QED BY <2>1, <1>s, AfterKept
  <1>11. Placed(q, delivered, Len(delivered))'
    BY <1>1, <1>2, <1>8 DEF Placed
  <1>12. q \in 0..Len(history') /\ view' = ViewOf(After(q)')
    BY <1>1, <1>9, <1>10
  <1> QED BY <1>11, <1>12 DEF ViewFolded

LEMMA CoverStep ==
  ASSUME "dirsync_error" \notin Env, ~ReadErrors,
         IInv, IInv', Content, TailOrder, TailCover, [TailNext]_allVars
  PROVE  TailCover'
PROOF
  <1>s. TypeOK /\ TypeOK' /\ Shape /\ Len(history) \in Nat
    BY Shapes DEF IInv, Shape
  <1>c. GapsStamped /\ Covered /\ PollCovered /\ NoRecordSkipped /\ ViewFolded
    BY DEF TailCover
  <1>1. ASSUME Seen, UNCHANGED tailVars PROVE TailCover'
    <2>1. GapsStamped'
      BY <1>1, <1>c, GapsKept
    <2>2. Covered' /\ PollCovered'
      BY <1>1, <1>c, CoverSeen
    <2>3. NoRecordSkipped'
      BY <1>1, <1>c, SkippedSeen
    <2>4. ViewFolded'
      <3>1. view' = view /\ delivered' = delivered
        BY <1>1 DEF tailVars
      <3>2. Len(history) <= Len(history') /\ \A k \in 1..Len(history) : history'[k] = history[k]
        BY <1>1, <1>s, SeenKept
      <3> QED BY <3>1, <3>2, <1>s, <1>c, ViewKept
    <2> QED BY <2>1, <2>2, <2>3, <2>4 DEF TailCover
  <1>2. CASE WriterStep /\ UNCHANGED tailVars
    BY <1>1, <1>2, WriterSeen
  <1>3. CASE UNCHANGED allVars
    <2>1. Seen /\ UNCHANGED tailVars
      BY <1>3 DEF allVars, vars, diskVars, Seen, FilesSame
    <2> QED BY <2>1, <1>1
  <1>4. ASSUME UNCHANGED vars PROVE GapsStamped' /\ history' = history
    <2>1. Seen /\ history' = history
      BY <1>4 DEF vars, diskVars, Seen, FilesSame
    <2> QED BY <2>1, <1>c, GapsKept
  <1>5. ASSUME UNCHANGED vars, view' = view, delivered' = delivered
        PROVE  GapsStamped' /\ ViewFolded'
    <2>1. GapsStamped' /\ history' = history
      BY <1>4, <1>5
    <2>2. Len(history) <= Len(history') /\ \A k \in 1..Len(history) : history'[k] = history[k]
      BY <2>1, <1>s
    <2> QED BY <2>1, <2>2, <1>5, <1>s, <1>c, ViewKept
  <1>6. CASE Appear \/ Disappear
    <2>1. UNCHANGED vars
      BY <1>6, TailQuiet
    <2>2. Covered' /\ PollCovered' /\ NoRecordSkipped'
      BY <1>6, CoverReset
    <2>3. ViewFolded'
      BY <1>6, <1>c, ViewReset
    <2> QED BY <2>1, <2>2, <2>3, <1>4 DEF TailCover
  <1>7. CASE PollBegin
    <2>1. UNCHANGED vars /\ view' = view /\ delivered' = delivered
      BY <1>7 DEF PollBegin
    <2>2. Covered' /\ PollCovered' /\ NoRecordSkipped'
      BY <1>7, <1>c, CoverBegin
    <2> QED BY <2>1, <2>2, <1>5 DEF TailCover
  <1>8. CASE SkipIdle \/ ReadTail
    <2>1. PICK m : Visited(m)
      BY <1>8, VisitIs
    <2>2. UNCHANGED vars /\ view' = view /\ delivered' = delivered
      BY <2>1 DEF Visited
    <2>3. Covered' /\ PollCovered' /\ NoRecordSkipped'
      BY <2>1, <1>c, CoverVisited
    <2> QED BY <2>2, <2>3, <1>5 DEF TailCover
  <1>9. CASE PollError
    <2>1. UNCHANGED vars /\ view' = view /\ delivered' = delivered
      BY <1>9 DEF PollError
    <2>2. Covered' /\ PollCovered' /\ NoRecordSkipped'
      BY <1>9, <1>c, CoverFailed
    <2> QED BY <2>1, <2>2, <1>5 DEF TailCover
  <1>10. CASE PollEnd
    <2>1. UNCHANGED vars
      BY <1>10 DEF PollEnd
    <2>2. Covered' /\ PollCovered' /\ NoRecordSkipped'
      BY <1>10, <1>c, CoverEnd
    <2>3. ViewFolded'
      BY <1>10, <1>c, ViewEnd
    <2> QED BY <2>1, <2>2, <2>3, <1>4 DEF TailCover
  <1> QED BY <1>2, <1>3, <1>6, <1>7, <1>8, <1>9, <1>10 DEF TailNext, Poll

LEMMA CoverInit ==
  ASSUME TailInit
  PROVE  TailCover
PROOF
  <1>1. /\ live = {} /\ history = <<>> /\ delivered = <<>> /\ polling = FALSE /\ view = EmptyView
    BY DEF TailInit, Init
  <1>2. Len(<<>>) = 0 /\ TypeOK
    BY LogEmpty, InitIInv DEF TailInit, IInv
  <1>3. GapsStamped /\ Covered /\ PollCovered /\ NoRecordSkipped
    BY <1>1, <1>2 DEF GapsStamped, Covered, PollCovered, NoRecordSkipped
  <1>4. ViewFolded
    <2>1. After(0) = EmptySnapshot
      BY <1>2, AfterZero
    <2>2. view = ViewOf(After(0))
      BY <2>1, <1>1 DEF ViewOf, EmptyView, EmptySnapshot
    <2>3. Placed(0, delivered, Len(delivered)) /\ 0 \in 0..Len(history)
      BY <1>1, <1>2 DEF Placed
    <2> QED BY <2>2, <2>3 DEF ViewFolded
  <1> QED BY <1>3, <1>4 DEF TailCover

(* Where listed segments can be read, or are gone because compact() removed*)
(* them, and no directory fsync of a roll fails, every record is delivered *)
(* or still ahead of the cursor, and the view is the fold of the log up to *)
(* the last entry delivered.                                               *)
THEOREM TailCoverInvariant ==
  ASSUME Sane, "dirsync_error" \notin Env, ~ReadErrors
  PROVE  TailSpec => [](IInv /\ Content /\ TailOrder /\ TailCover)
PROOF
  <1>1. TailInit => TailCover
    BY CoverInit
  <1>2. (IInv /\ Content /\ TailOrder) /\ (IInv /\ Content /\ TailOrder)' /\ TailCover
          /\ [TailNext]_allVars
          => TailCover'
    BY CoverStep
  <1> QED BY <1>1, <1>2, TailOrderInvariant, PTL DEF TailSpec

(* tailer.rs: "no entry is skipped" - a record older than the last entry    *)
(* delivered was delivered, or a checkpoint that contains it was, whatever  *)
(* was appended, rolled or compacted between two reads of a poll, unless the*)
(* directory fsync of a roll failed (a record may then go behind the newer  *)
(* file, where the cursor no longer looks).                                 *)
THEOREM NothingSkipped ==
  ASSUME Sane, "dirsync_error" \notin Env, ~ReadErrors
  PROVE  TailSpec => []NoRecordSkipped
PROOF
  <1>1. TailCover => NoRecordSkipped
    BY DEF TailCover
  <1> QED BY <1>1, TailCoverInvariant, PTL

(* materialized_view: "this fold and the agent's replay fold stay identical"*)
(* - the view of a Tailer that has consumed the log is what a replay of the *)
(* log would recover, unless the directory fsync of a roll failed.          *)
THEOREM ViewAgreesWithReplay ==
  ASSUME Sane, "dirsync_error" \notin Env, ~ReadErrors
  PROVE  TailSpec => []ViewIsReplay
PROOF
  <1>1. IInv /\ Content /\ TailOrder /\ TailCover => ViewIsReplay
    <2> SUFFICES ASSUME IInv, Content, TailOrder, TailCover, CaughtUp
                 PROVE  view = [heads |-> Replay.heads, roster |-> Replay.roster]
      BY DEF ViewIsReplay
    <2>s. TypeOK /\ Shape /\ Files /\ Sorted /\ TailShape /\ Stamped /\ Complete
      BY Shapes DEF IInv, Files, TailOrder, Content
    <2>1. /\ live # {} /\ ~polling /\ last_index = Newest /\ last_offset = Len(data[Newest])
      BY DEF CaughtUp
    <2>2. Newest \in live /\ \A j \in live : j <= Newest
      BY <2>1, <2>s, NewestFile
    <2>3. new_entries = <<>> /\ Len(<<>>) = 0
      BY <2>1, <2>s, LogEmpty DEF TailShape
    <2>g. /\ Len(got) = Len(delivered) /\ Len(got) \in Nat
          /\ \A k \in 1..Len(got) : got[k] = delivered[k] /\ got[k].rev \in Nat
      BY <2>3, <2>s, GotShape
    <2>4. ASSUME NEW j \in live, NEW a \in 1..Len(data[j]), Reach(j, a) PROVE FALSE
      <3>1. j \in Nat /\ Newest \in Nat /\ Len(data[j]) \in Nat
        BY <2>2, <2>s DEF Shape
      <3> QED BY <3>1, <2>1, <2>2, <2>4 DEF Reach
    <2>5. ASSUME NEW k \in 1..Len(history) PROVE IsCheckpoint(history[k]) \/ GotFor(history[k])
      BY <2>4 DEF TailCover, Covered, WaitsAt
    <2>6. PICK p \in 0..Len(history) : Placed(p, delivered, Len(delivered))
            /\ view = ViewOf(After(p))
      BY DEF TailCover, ViewFolded
    <2>7. ASSUME NEW x \in 1..Len(history), p < x, ~IsCheckpoint(history[x]) PROVE FALSE
      <3>1. PICK s \in 1..Len(got) : Stands(got[s], history[x])
        BY <2>5, <2>7 DEF GotFor
      <3>2. Len(got) \in 1..Len(got) /\ Len(got) # 0
        BY <2>g
      <3>3. p \in 1..Len(history) /\ history[p] = got[Len(got)]
        BY <2>6, <2>g, <3>2 DEF Placed
      <3>4. history[p].rev < history[x].rev
        BY <2>7, <3>3, <2>s, Places
      <3>5. got[s].rev <= got[Len(got)].rev
        <4>1. s = Len(got) \/ s < Len(got)
          BY <2>g
        <4>2. s < Len(got) => got[s].rev < got[Len(got)].rev
          BY <3>2 DEF TailOrder, GotSorted
        <4> QED BY <4>1, <4>2, <3>2, <2>g
      <3>6. history[p].rev \in Nat /\ history[x].rev \in Nat /\ got[s].rev \in Nat
        BY <3>3, <2>s, <2>g DEF Shape
      <3> QED BY ONLY <3>1, <3>3, <3>4, <3>5, <3>6 DEF Stands
    <2>8. After(Len(history)) = After(p)
      <3>1. Len(history) \in Nat /\ Len(history) \in 0..Len(history) /\ p <= Len(history)
        BY <2>s DEF Shape
      <3>2. \A x \in 1..Len(history) : p < x /\ x <= Len(history) => IsCheckpoint(history[x])
        BY <2>7
      <3> QED BY <3>1, <3>2, <2>s, AfterSkip
    <2>9. Replay = After(Len(history))
      BY <2>s, ReplayIs
    <2> QED BY <2>6, <2>8, <2>9 DEF ViewOf
  <1> QED BY <1>1, TailCoverInvariant, PTL
=============================================================================

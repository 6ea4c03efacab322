------------------------ MODULE SessionDispatchProofs ------------------------
(***************************************************************************)
(* Proofs about SessionDispatch for any calls, sessions, histories and     *)
(* limits, under any failures and crashes: the locks, the checkpoint rows  *)
(* and the snapshots the goroutines work on satisfy DispatchInv, from      *)
(* which the safety properties and the refinement of SessionHistory        *)
(* follow.                                                                 *)
(***************************************************************************)
EXTENDS SessionDispatch, FiniteSetTheorems, SequenceTheorems, TLAPS

\* The proofs about the lock, for the goroutines and sessions of Dispatch.
LP == INSTANCE SessionLockProofs WITH Procs <- Goroutines, Keys <- Sessions

Hists == Seq(SUBSET Turns)

(***************************************************************************)
(* The newest row of a set of rows, in the order LoadLatest sorts by.      *)
(***************************************************************************)
Top(r, R) == r \in R /\ \A s \in R \ {r} : Newer(r, s)

\* Places between Lock and Unlock.
Inside == {"load", "create", "run", "save", "budget", "summarise", "publish", "meta"}

\* A goroutine inside Dispatch or the worker holds the session lock, and a call
\* that waits for the lock has loaded nothing.
Sections ==
  /\ \A p \in Goroutines : pc[p] \in Inside => lpc[p] = "locked"
  /\ \A c \in Calls : lpc[turn(c)] \in {"waiting", "taken"} => pc[turn(c)] = "locking"

\* A thread with a saved turn has a newest row, and unless the operator cleared
\* the thread it is the row saved last.
NewestRow ==
  \A k \in Sessions :
    /\ lastId[k] > 0 => rows[k] # {}
    /\ rows[k] # {} => \E r \in rows[k] : /\ Top(r, rows[k])
                                          /\ clears[k] = 0 => r.id = lastId[k]
    /\ thread[k] = "completed" => clears[k] > 0

\* Nothing to resume: what CreateThread starts from.
Blank(k) == rows[k] = {} \/ clears[k] > 0

\* The snapshot is the one a load would return now.
Current(k, s) ==
  rows[k] # {} /\ s.iter = Latest(rows[k]).iter /\ s.hist = CurrentHist(k)

\* What a call works on is what the store holds.
TurnWork(c) ==
  LET p == turn(c)
      k == SessionOf[c]
      s == snap[p]
  IN /\ pc[p] \in {"idle", "locking", "load", "create"} => s = NoSnap
     /\ pc[p] = "create" => Blank(k)
     /\ pc[p] = "run" => (s = NoSnap /\ Blank(k)) \/ Current(k, s)
     /\ pc[p] = "save" =>
          \/ Blank(k) /\ s = [iter |-> 0, hist |-> <<{c}>>, drop |-> {}]
          \/ /\ rows[k] # {} /\ s.iter = Latest(rows[k]).iter
             /\ \E g \in prepareHistory(CurrentHist(k)) :
                  s.hist = Append(g, {c}) /\ s.drop = Told(CurrentHist(k)) \ Told(g)

\* What a worker is about to publish summarises what the store holds.
WorkerWork(c) ==
  LET p == worker(c)
      k == SessionOf[c]
      s == snap[p]
  IN /\ pc[p] = "summarise" => Current(k, s) /\ Len(s.hist) > SummaryTurns
     /\ pc[p] = "publish" =>
          /\ rows[k] # {} /\ s.iter = Latest(rows[k]).iter
          /\ \E n \in 1 .. Len(CurrentHist(k)) :
               s.hist = <<Told(SubSeq(CurrentHist(k), 1, n))>> \o Suffix(CurrentHist(k), n)
     /\ pc[p] = "meta" => k \in published

DispatchInv ==
  /\ TypeOK
  /\ LP!LockInv
  /\ Sections
  /\ NewestRow
  /\ \A c \in Calls : TurnWork(c) /\ WorkerWork(c)
  /\ MetadataAfterSnapshot
  /\ AckedDurable
-----------------------------------------------------------------------------
LEMMA LockAssumptions ==
  LP!ProcsAssumption /\ LP!KeyOfAssumption /\ LP!NoLockAssumption
<1>1. IsFiniteSet(Goroutines)
  <2>1. IsFiniteSet({"turn", "compact"})
    <3>1. {"turn", "compact"} = {"turn"} \union {"compact"}
      OBVIOUS
    <3>2. IsFiniteSet({"turn"}) /\ IsFiniteSet({"compact"})
      BY FS_Singleton
    <3>3. IsFiniteSet({"turn"} \union {"compact"})
      BY <3>2, FS_Union
    <3> QED BY <3>1, <3>3
  <2> QED
    BY <2>1, CallsAssumption, FS_Product DEF Goroutines
<1>2. LP!ProcsAssumption
  BY <1>1 DEF LP!ProcsAssumption, LP!IsFiniteSet, IsFiniteSet
<1>3. KeyOf \in [Goroutines -> Sessions]
  BY SessionOfAssumption DEF KeyOf, Goroutines
<1> QED
  BY <1>2, <1>3, LockIdsAssumption

LEMMA LockInitHolds == L!LockInit => LP!LockInv
<1>1. L!LockInit => LP!LockInit
  BY DEF L!LockInit, LP!LockInit
<1> QED BY <1>1, LockAssumptions, LP!LockInitInv

LEMMA LockStepsHold ==
  ASSUME LP!LockInv, NEW p \in Goroutines,
         \/ L!acquireLock(p) \/ L!LockTake(p) \/ L!LockRecord(p) \/ L!LockFail(p)
         \/ L!UnlockRecord(p) \/ L!UnlockSend(p) \/ L!release(p)
  PROVE  LP!LockInv'
<1>1. CASE L!acquireLock(p)
  <2>1. LP!acquireLock(p) /\ (LP!FindLock(p) \/ LP!CreateLock(p))
    BY <1>1 DEF L!acquireLock, LP!acquireLock, L!FindLock, LP!FindLock, L!CreateLock,
                LP!CreateLock, L!Unreferenced, LP!Unreferenced
  <2>2. CASE LP!FindLock(p)
    BY <2>1, <2>2, LockAssumptions, LP!FindInv
  <2>3. CASE LP!CreateLock(p)
    BY <2>1, <2>3, LockAssumptions, LP!CreateInv
  <2> QED BY <2>1, <2>2, <2>3
<1>2. CASE L!LockTake(p)
  <2>1. LP!LockTake(p)
    BY <1>2 DEF L!LockTake, LP!LockTake
  <2> QED BY <2>1, LockAssumptions, LP!LockTakeInv
<1>3. CASE L!LockRecord(p)
  <2>1. LP!LockRecord(p)
    BY <1>3 DEF L!LockRecord, LP!LockRecord
  <2> QED BY <2>1, LockAssumptions, LP!LockRecordInv
<1>4. CASE L!LockFail(p)
  <2>1. LP!LockFail(p)
    BY <1>4 DEF L!LockFail, LP!LockFail
  <2> QED BY <2>1, LockAssumptions, LP!LockFailInv
<1>5. CASE L!UnlockRecord(p)
  <2>1. LP!UnlockRecord(p)
    BY <1>5 DEF L!UnlockRecord, LP!UnlockRecord
  <2> QED BY <2>1, LockAssumptions, LP!UnlockRecordInv
<1>6. CASE L!UnlockSend(p)
  <2>1. LP!UnlockSend(p)
    BY <1>6 DEF L!UnlockSend, LP!UnlockSend
  <2> QED BY <2>1, LockAssumptions, LP!UnlockSendInv
<1>7. CASE L!release(p)
  <2>1. LP!release(p)
    BY <1>7 DEF L!release, LP!release
  <2> QED BY <2>1, LockAssumptions, LP!ReleaseInv
<1> QED BY <1>1, <1>2, <1>3, <1>4, <1>5, <1>6, <1>7

LEMMA LockIdle == ASSUME LP!LockInv, LocksUnchanged PROVE LP!LockInv'
BY DEF LocksUnchanged, LP!LockInv, LP!LockTypeOK, LP!PointersAgree, LP!ObjectsDistinct,
       LP!RefCountExact, LP!Users, LP!TokenOut, LP!MutualExclusion, LP!MetricsHaveHolder,
       LP!Holds
LEMMA LockFacts ==
  ASSUME LP!LockInv
  PROVE  /\ L!LockTypeOK
         /\ \A p, q \in Goroutines :
              p # q /\ SessionOf[p[1]] = SessionOf[q[1]] /\ lpc[p] = "locked"
                => lpc[q] # "locked"
BY DEF LP!LockInv, LP!LockTypeOK, L!LockTypeOK, LP!LockPcs, L!LockPcs, LP!MutualExclusion,
       LP!Holds, KeyOf, Goroutines
-----------------------------------------------------------------------------
LEMMA LatestTop ==
  ASSUME NEW R \in SUBSET Rows, NEW r, Top(r, R)
  PROVE  Latest(R) = r
<1>1. \A s \in R : (\A t \in R \ {s} : Newer(s, t)) => s = r
  BY DEF Top, Newer, Rows
<1> QED
  BY <1>1 DEF Top, Latest

LEMMA SaveTop ==
  ASSUME NEW R \in SUBSET Rows, NEW n \in Nat, \A r \in R : r.id \in 1 .. n,
         NEW i \in Nat, NEW h \in Hists,
         R = {} \/ \E t : Top(t, R) /\ i >= t.iter
  PROVE  Top([id |-> n + 1, iter |-> i, hist |-> h],
             Retained(R \union {[id |-> n + 1, iter |-> i, hist |-> h]}))
<1> DEFINE new == [id |-> n + 1, iter |-> i, hist |-> h]
           S == R \union {new}
<1>1. new \in Rows /\ new.id = n + 1 /\ new.iter = i
  BY DEF Rows, Hists
<1>2. \A s \in R : Newer(new, s) /\ ~Newer(s, new)
  BY SMTT(30), <1>1 DEF Top, Newer, Rows
<1>3. ~Newer(new, new)
  BY <1>1 DEF Newer
<1>4. {s \in S : Newer(s, new)} = {}
  BY <1>2, <1>3
<1>5. new \in Retained(S)
  <2> HIDE DEF new
  <2>1. Cardinality({s \in S : Newer(s, new)}) < MaxCheckpoints
    BY SMTT(30), <1>4, FS_EmptySet, BoundsAssumption
  <2> QED BY <2>1 DEF Retained
<1> QED
  BY <1>2, <1>5 DEF Top, Retained

LEMMA SaveBelow ==
  ASSUME NEW R \in SUBSET Rows, NEW n \in Nat,
         NEW i \in Nat, NEW h \in Hists, NEW t, Top(t, R), i < t.iter
  PROVE  Top(t, Retained(R \union {[id |-> n + 1, iter |-> i, hist |-> h]}))
<1> DEFINE new == [id |-> n + 1, iter |-> i, hist |-> h]
           S == R \union {new}
<1>1. new \in Rows /\ new.iter = i /\ t \in Rows
  BY DEF Rows, Hists, Top
<1>2. \A s \in S \ {t} : Newer(t, s) /\ ~Newer(s, t)
  BY <1>1 DEF Top, Newer, Rows
<1>3. ~Newer(t, t)
  BY <1>1 DEF Newer, Rows
<1>4. {s \in S : Newer(s, t)} = {}
  BY <1>2, <1>3
<1>5. t \in Retained(S)
  BY <1>4, FS_EmptySet, BoundsAssumption DEF Retained, Top
<1> QED
  BY <1>2, <1>5 DEF Top, Retained

LEMMA RetainedIn == \A R : Retained(R) \subseteq R
BY DEF Retained
-----------------------------------------------------------------------------
LEMMA SuffixType ==
  ASSUME NEW h \in Hists, NEW n \in 0 .. Len(h)
  PROVE  /\ Suffix(h, n) \in Hists
         /\ Len(Suffix(h, n)) = Len(h) - n
         /\ \A i \in 1 .. Len(h) - n : Suffix(h, n)[i] = h[n + i]
<1>1. \A i \in n + 1 .. Len(h) : h[i] \in SUBSET Turns
  BY DEF Hists
<1>2. Len(h) \in Nat
  BY DEF Hists
<1> QED
  BY <1>1, <1>2, SubSeqProperties DEF Hists, Suffix

LEMMA PrefixType ==
  ASSUME NEW h \in Hists, NEW m \in 0 .. Len(h), NEW n \in 0 .. Len(h)
  PROVE  /\ SubSeq(h, m + 1, n) \in Hists
         /\ Len(SubSeq(h, m + 1, n)) = IF m <= n THEN n - m ELSE 0
         /\ \A i \in 1 .. n - m : SubSeq(h, m + 1, n)[i] = h[m + i]
<1>1. \A i \in m + 1 .. n : h[i] \in SUBSET Turns
  BY DEF Hists
<1>2. Len(h) \in Nat
  BY DEF Hists
<1> QED
  BY <1>1, <1>2, SubSeqProperties DEF Hists

LEMMA ToldIn == \A h \in Hists : Told(h) \subseteq Turns
BY DEF Hists, Told, ToSet

LEMMA ToldMember ==
  ASSUME NEW h \in Hists, NEW x
  PROVE  x \in Told(h) <=> \E i \in 1 .. Len(h) : x \in h[i]
BY DEF Hists, Told, ToSet

LEMMA Headed ==
  ASSUME NEW S \in SUBSET Turns, NEW h \in Hists
  PROVE  /\ <<S>> \o h \in Hists
         /\ Len(<<S>> \o h) = Len(h) + 1
         /\ (<<S>> \o h)[1] = S
         /\ \A i \in 1 .. Len(h) : (<<S>> \o h)[i + 1] = h[i]
<1>1. <<S>> \in Seq(SUBSET Turns) /\ Len(<<S>>) = 1 /\ Len(h) \in Nat
  BY DEF Hists
<1> QED
  BY <1>1, ConcatProperties DEF Hists

LEMMA ToldAppend ==
  ASSUME NEW h \in Hists, NEW c \in Turns
  PROVE  /\ Append(h, {c}) \in Hists
         /\ Told(Append(h, {c})) = Told(h) \union {c}
<1>1. /\ Append(h, {c}) \in Hists
      /\ Len(Append(h, {c})) = Len(h) + 1
      /\ Append(h, {c})[Len(h) + 1] = {c}
      /\ \A i \in 1 .. Len(h) : Append(h, {c})[i] = h[i]
      /\ Len(h) \in Nat
  BY DEF Hists
<1>2. \A x : x \in Told(Append(h, {c})) <=> x \in Told(h) \union {c}
  <2> TAKE x
  <2>1. x \in Told(Append(h, {c})) <=> \E i \in 1 .. Len(h) + 1 : x \in Append(h, {c})[i]
    BY <1>1, ToldMember
  <2>2. x \in Told(h) <=> \E i \in 1 .. Len(h) : x \in h[i]
    BY ToldMember
  <2> QED BY <1>1, <2>1, <2>2
<1> QED BY <1>1, <1>2

\* The first n messages.
LEMMA HeadOf ==
  ASSUME NEW h \in Hists, NEW n \in 0 .. Len(h)
  PROVE  /\ SubSeq(h, 1, n) \in Hists
         /\ Len(SubSeq(h, 1, n)) = n
         /\ \A i \in 1 .. n : SubSeq(h, 1, n)[i] = h[i]
<1> DEFINE p == SubSeq(h, 1, n)
<1>1. Len(h) \in Nat /\ \A i \in 1 .. n : h[i] \in SUBSET Turns
  BY DEF Hists
<1>2. n \in Nat /\ n - 1 + 1 = n /\ (~(1 <= n) => n = 0)
  BY <1>1
<1>3. \A i \in 1 .. n : 1 + i - 1 = i
  BY <1>2
<1>4. /\ p \in Seq(SUBSET Turns)
      /\ Len(p) = IF 1 <= n THEN n - 1 + 1 ELSE 0
      /\ \A i \in 1 .. n - 1 + 1 : p[i] = h[1 + i - 1]
  BY <1>1, <1>2, SubSeqProperties
<1> QED BY <1>1, <1>2, <1>3, <1>4 DEF Hists

LEMMA ToldSummary ==
  ASSUME NEW h \in Hists, NEW n \in 0 .. Len(h)
  PROVE  /\ <<Told(SubSeq(h, 1, n))>> \o Suffix(h, n) \in Hists
         /\ Told(<<Told(SubSeq(h, 1, n))>> \o Suffix(h, n)) = Told(h)
<1> DEFINE p == SubSeq(h, 1, n)
           s == Suffix(h, n)
           g == <<Told(p)>> \o s
<1>1. /\ p \in Hists /\ Len(p) = n /\ \A i \in 1 .. n : p[i] = h[i]
      /\ Len(h) \in Nat
  BY HeadOf DEF Hists
<1>2. s \in Hists /\ Len(s) = Len(h) - n /\ \A i \in 1 .. Len(h) - n : s[i] = h[n + i]
  BY SuffixType
<1>3. Told(p) \in SUBSET Turns
  BY <1>1, ToldIn
<1> HIDE DEF p, s
<1>4. /\ g \in Hists /\ Len(g) = Len(h) - n + 1 /\ g[1] = Told(p)
      /\ \A i \in 1 .. Len(h) - n : g[i + 1] = s[i]
  BY <1>2, <1>3, Headed
<1>5. \A x : x \in Told(g) <=> x \in Told(h)
  <2> TAKE x
  <2>1. x \in Told(g) <=> \E i \in 1 .. Len(g) : x \in g[i]
    BY <1>4, ToldMember
  <2>2. x \in Told(h) <=> \E i \in 1 .. Len(h) : x \in h[i]
    BY ToldMember
  <2>3. x \in Told(p) <=> \E i \in 1 .. n : x \in h[i]
    BY <1>1, ToldMember
  <2>4. ASSUME NEW i \in 1 .. Len(g), x \in g[i] PROVE \E j \in 1 .. Len(h) : x \in h[j]
    <3>1. CASE i = 1
      BY <1>1, <1>4, <2>3, <2>4, <3>1
    <3>2. CASE i # 1
      <4>1. i - 1 \in 1 .. Len(h) - n /\ (i - 1) + 1 = i
        BY <1>1, <1>4, <3>2
      <4>2. x \in h[n + (i - 1)]
        BY <1>2, <1>4, <2>4, <4>1
      <4> QED BY <1>1, <4>1, <4>2
    <3> QED BY <3>1, <3>2
  <2>5. ASSUME NEW j \in 1 .. Len(h), x \in h[j] PROVE \E i \in 1 .. Len(g) : x \in g[i]
    <3>1. CASE j <= n
      <4>1. x \in g[1]
        BY <1>4, <2>3, <2>5, <3>1
      <4> QED BY <1>1, <1>4, <4>1
    <3>2. CASE j > n
      <4>1. j - n \in 1 .. Len(h) - n /\ n + (j - n) = j
        BY <1>1, <3>2
      <4>2. x \in g[(j - n) + 1]
        BY <1>2, <1>4, <2>5, <4>1
      <4>3. (j - n) + 1 \in 1 .. Len(g)
        BY <1>1, <1>4, <4>1
      <4> QED BY <4>2, <4>3
    <3> QED BY <1>1, <3>1, <3>2
  <2> QED BY <2>1, <2>2, <2>4, <2>5
<1> QED BY <1>4, <1>5 DEF p, s

LEMMA SuffixOfSuffix ==
  ASSUME NEW h \in Hists, NEW m \in 0 .. Len(h), NEW n \in 0 .. Len(h) - m
  PROVE  /\ m + n \in 0 .. Len(h)
         /\ Suffix(Suffix(h, m), n) = Suffix(h, m + n)
<1>1. Len(h) \in Nat /\ m + n \in 0 .. Len(h)
  BY DEF Hists
<1>2. /\ Suffix(h, m) \in Hists
      /\ Len(Suffix(h, m)) = Len(h) - m
      /\ \A i \in 1 .. Len(h) - m : Suffix(h, m)[i] = h[m + i]
  BY SuffixType
<1>3. /\ Suffix(h, m + n) \in Hists
      /\ Len(Suffix(h, m + n)) = Len(h) - (m + n)
      /\ \A i \in 1 .. Len(h) - (m + n) : Suffix(h, m + n)[i] = h[(m + n) + i]
  BY <1>1, SuffixType
<1> DEFINE f == Suffix(h, m)
<1> HIDE DEF f
<1>4. /\ Suffix(f, n) \in Hists
      /\ Len(Suffix(f, n)) = (Len(h) - m) - n
      /\ \A i \in 1 .. (Len(h) - m) - n : Suffix(f, n)[i] = f[n + i]
  BY <1>2, SuffixType DEF f
<1>5. \A i \in 1 .. (Len(h) - m) - n : Suffix(f, n)[i] = Suffix(h, m + n)[i]
  <2> SUFFICES ASSUME NEW i \in 1 .. (Len(h) - m) - n
               PROVE  Suffix(f, n)[i] = Suffix(h, m + n)[i]
    OBVIOUS
  <2>1. n + i \in 1 .. Len(h) - m /\ i \in 1 .. Len(h) - (m + n) /\ m + (n + i) = (m + n) + i
    BY <1>1
  <2> QED BY <1>2, <1>3, <1>4, <2>1 DEF f
<1>6. Len(Suffix(f, n)) = Len(Suffix(h, m + n))
  BY <1>1, <1>3, <1>4
<1>7. Suffix(f, n) = Suffix(h, m + n)
  BY <1>3, <1>4, <1>5, <1>6, SeqEqual DEF Hists
<1> QED BY <1>1, <1>7 DEF f

LEMMA PrefixOfSuffix ==
  ASSUME NEW h \in Hists, NEW m \in 0 .. Len(h), NEW n \in 0 .. Len(h) - m
  PROVE  SubSeq(Suffix(h, m), 1, n) = SubSeq(h, m + 1, m + n)
<1>1. Len(h) \in Nat /\ m + n \in 0 .. Len(h)
  BY DEF Hists
<1>2. /\ Suffix(h, m) \in Hists
      /\ Len(Suffix(h, m)) = Len(h) - m
      /\ \A i \in 1 .. Len(h) - m : Suffix(h, m)[i] = h[m + i]
  BY SuffixType
<1>3. /\ SubSeq(h, m + 1, m + n) \in Hists
      /\ Len(SubSeq(h, m + 1, m + n)) = n
      /\ \A i \in 1 .. n : SubSeq(h, m + 1, m + n)[i] = h[m + i]
  BY <1>1, PrefixType
<1> DEFINE f == Suffix(h, m)
<1> HIDE DEF f
<1>4. /\ SubSeq(f, 1, n) \in Hists
      /\ Len(SubSeq(f, 1, n)) = n
      /\ \A i \in 1 .. n : SubSeq(f, 1, n)[i] = f[i]
  <2>1. n \in 0 .. Len(f) /\ f \in Hists
    BY <1>1, <1>2 DEF f
  <2> QED BY <2>1, HeadOf
<1>5. \A i \in 1 .. n : SubSeq(f, 1, n)[i] = SubSeq(h, m + 1, m + n)[i]
  <2>1. \A i \in 1 .. n : i \in 1 .. Len(h) - m
    BY <1>1
  <2> QED BY <1>2, <1>3, <1>4, <2>1 DEF f
<1>7. SubSeq(f, 1, n) = SubSeq(h, m + 1, m + n)
  BY <1>3, <1>4, <1>5, SeqEqual DEF Hists
<1> QED BY <1>7 DEF f

\* What SessionHistory lets a turn start from (its Prepared).
MayStartFrom(h, g) ==
  \/ \E n \in 0 .. Len(h) : g = Suffix(h, n)
  \/ \E m, n \in 0 .. Len(h) : g = <<Told(SubSeq(h, m + 1, n))>> \o Suffix(h, n)

LEMMA KeepBounds == SummarizationKeepN \in Nat \ {0} /\ CompactionKeepN \in Nat \ {0}
BY BoundsAssumption DEF SummarizationKeepN, CompactionKeepN, DefaultKeep

LEMMA PreparedType ==
  ASSUME NEW h \in Hists, NEW g, MayStartFrom(h, g)
  PROVE  g \in Hists
<1>1. CASE \E n \in 0 .. Len(h) : g = Suffix(h, n)
  BY <1>1, SuffixType
<1>2. ASSUME NEW m \in 0 .. Len(h), NEW n \in 0 .. Len(h),
             g = <<Told(SubSeq(h, m + 1, n))>> \o Suffix(h, n)
      PROVE  g \in Hists
  <2>1. Told(SubSeq(h, m + 1, n)) \in SUBSET Turns
    BY PrefixType, ToldIn
  <2>2. Suffix(h, n) \in Hists
    BY SuffixType
  <2> QED BY <1>2, <2>1, <2>2, Headed
<1> QED BY <1>1, <1>2 DEF MayStartFrom

LEMMA PruneSuffix ==
  ASSUME NEW h \in Hists, NEW f \in PruneMessages(h)
  PROVE  \E n \in 0 .. Len(h) : f = Suffix(h, n)
<1>1. Len(h) \in Nat /\ h = Suffix(h, 0)
  BY SubSeqFull DEF Suffix, Hists
<1> QED BY <1>1 DEF PruneMessages

LEMMA SummariseForm ==
  ASSUME NEW h \in Hists, NEW m \in 0 .. Len(h), NEW g \in summarizeHistoryIfNeeded(Suffix(h, m))
  PROVE  \/ g = Suffix(h, m)
         \/ \E n \in 0 .. Len(h) : g = <<Told(SubSeq(h, m + 1, n))>> \o Suffix(h, n)
<1> DEFINE f == Suffix(h, m)
           K == SummarizationKeepN
<1>1. f \in Hists /\ Len(f) = Len(h) - m /\ Len(h) \in Nat /\ Len(f) \in Nat
  BY SuffixType DEF Hists
<1>2. K \in Nat
  BY KeepBounds
<1>3. CASE g = f
  BY <1>3
<1>4. CASE /\ Len(f) > K
           /\ g = <<Told(SubSeq(f, 1, Len(f) - K))>> \o LastN(f, K)
  <2> DEFINE n == Len(f) - K
  <2>1. n \in 0 .. Len(h) - m /\ n \in 0 .. Len(f)
    BY <1>1, <1>2, <1>4
  <2>2. LastN(f, K) = Suffix(f, n)
    BY <1>1, <1>2, <1>4 DEF LastN
  <2> HIDE DEF n
  <2>3. SubSeq(f, 1, n) = SubSeq(h, m + 1, m + n)
    BY <2>1, PrefixOfSuffix
  <2>4. Suffix(f, n) = Suffix(h, m + n) /\ m + n \in 0 .. Len(h)
    BY <2>1, SuffixOfSuffix
  <2>5. g = <<Told(SubSeq(f, 1, n))>> \o Suffix(f, n)
    BY <1>4, <2>2 DEF n
  <2> QED BY <2>3, <2>4, <2>5
<1> QED BY <1>3, <1>4 DEF summarizeHistoryIfNeeded

LEMMA SuffixOfHeaded ==
  ASSUME NEW S \in SUBSET Turns, NEW h \in Hists, NEW j \in 1 .. Len(<<S>> \o h)
  PROVE  /\ j - 1 \in 0 .. Len(h)
         /\ Suffix(<<S>> \o h, j) = Suffix(h, j - 1)
<1> DEFINE g == <<S>> \o h
<1>1. /\ g \in Hists /\ Len(g) = Len(h) + 1 /\ Len(h) \in Nat
      /\ \A i \in 1 .. Len(h) : g[i + 1] = h[i]
  BY Headed DEF Hists
<1> HIDE DEF g
<1>2. j - 1 \in 0 .. Len(h) /\ j \in 0 .. Len(g)
  BY <1>1 DEF g
<1>3. /\ Suffix(g, j) \in Hists /\ Len(Suffix(g, j)) = Len(g) - j
      /\ \A i \in 1 .. Len(g) - j : Suffix(g, j)[i] = g[j + i]
  BY <1>1, <1>2, SuffixType
<1> DEFINE q == j - 1
<1>4. q \in 0 .. Len(h) /\ j = q + 1
  BY <1>2
<1> HIDE DEF q
<1>5. /\ Suffix(h, q) \in Hists /\ Len(Suffix(h, q)) = Len(h) - q
      /\ \A i \in 1 .. Len(h) - q : Suffix(h, q)[i] = h[q + i]
  BY <1>4, SuffixType
<1>6. Len(g) - j = Len(h) - q
  BY <1>1, <1>4
<1>7. \A i \in 1 .. Len(h) - q : Suffix(g, j)[i] = Suffix(h, q)[i]
  <2> SUFFICES ASSUME NEW i \in 1 .. Len(h) - q
               PROVE  Suffix(g, j)[i] = Suffix(h, q)[i]
    OBVIOUS
  <2>1. q + i \in 1 .. Len(h) /\ j + i = (q + i) + 1 /\ i \in 1 .. Len(g) - j
    BY <1>1, <1>4, <1>6
  <2> QED BY <1>1, <1>3, <1>5, <2>1
<1>8. Suffix(g, j) = Suffix(h, q)
  BY <1>3, <1>5, <1>6, <1>7, SeqEqual DEF Hists
<1> QED BY <1>2, <1>8 DEF g, q

LEMMA PreparedForm ==
  ASSUME NEW h \in Hists, NEW g \in prepareHistory(h)
  PROVE  MayStartFrom(h, g)
<1>0. Len(h) \in Nat
  BY DEF Hists
<1>1. PICK f \in PruneMessages(h) : \E e \in summarizeHistoryIfNeeded(f) : g = CompactMessages(e)
  BY DEF prepareHistory
<1>2. PICK m \in 0 .. Len(h) : f = Suffix(h, m)
  BY PruneSuffix
<1>3. PICK e \in summarizeHistoryIfNeeded(Suffix(h, m)) : g = CompactMessages(e)
  BY <1>1, <1>2
<1>4. MayStartFrom(h, e)
  BY <1>0, SummariseForm DEF MayStartFrom
<1>5. e \in Hists /\ Len(e) \in Nat
  BY SMTT(30), <1>4, PreparedType DEF Hists
<1>6. CASE Len(e) <= MemoryWindow
  BY <1>3, <1>4, <1>6 DEF CompactMessages
<1>7. CASE ~(Len(e) <= MemoryWindow)
  <2>1. PICK j \in 1 .. Len(e) : g = Suffix(e, j)
    <3>1. MemoryWindow \in Nat \ {0} /\ CompactionKeepN \in Nat /\ CompactionKeepN <= MemoryWindow
      BY BoundsAssumption DEF CompactionKeepN, DefaultKeep
    <3>2. g = LastN(e, CompactionKeepN)
      BY <1>3, <1>7 DEF CompactMessages
    <3>3. ~(Len(e) <= CompactionKeepN)
      BY <1>5, <1>7, <3>1
    <3> QED BY <1>5, <3>1, <3>2, <3>3 DEF LastN
  <2>2. CASE e = Suffix(h, m)
    <3>1. Len(e) = Len(h) - m
      BY <2>2, SuffixType
    <3> QED BY <1>0, <2>1, <2>2, <3>1, SuffixOfSuffix DEF MayStartFrom
  <2>3. ASSUME NEW n \in 0 .. Len(h), e = <<Told(SubSeq(h, m + 1, n))>> \o Suffix(h, n)
        PROVE  MayStartFrom(h, g)
    <3>1. Told(SubSeq(h, m + 1, n)) \in SUBSET Turns
      BY PrefixType, ToldIn
    <3>2. Suffix(h, n) \in Hists /\ Len(Suffix(h, n)) = Len(h) - n
      BY SuffixType
    <3>3. Suffix(e, j) = Suffix(Suffix(h, n), j - 1) /\ j - 1 \in 0 .. Len(h) - n
      BY <1>0, <2>3, <3>1, <3>2, SuffixOfHeaded
    <3>4. n + (j - 1) \in 0 .. Len(h) /\ g = Suffix(h, n + (j - 1))
      BY <2>1, <3>3, SuffixOfSuffix
    <3> QED BY <3>4 DEF MayStartFrom
  <2> QED BY <1>0, <2>2, <2>3, SummariseForm
<1> QED BY <1>6, <1>7

LEMMA PreparedEmpty == ASSUME NEW g \in prepareHistory(<< >>) PROVE g = << >>
<1>1. << >> \in Hists /\ Len(<< >>) = 0
  BY DEF Hists
<1>3. \A f \in PruneMessages(<< >>) : f = << >>
  <2>1. Suffix(<< >>, 0) = << >>
    BY SubSeqEmpty DEF Suffix
  <2> QED BY <1>1, <2>1 DEF PruneMessages
<1>4. \A e \in summarizeHistoryIfNeeded(<< >>) : e = << >>
  BY <1>1, BoundsAssumption DEF summarizeHistoryIfNeeded
<1>5. CompactMessages(<< >>) = << >>
  BY <1>1, BoundsAssumption DEF CompactMessages
<1> QED BY <1>3, <1>4, <1>5 DEF prepareHistory
-----------------------------------------------------------------------------
(***************************************************************************)
(* Goroutines and rows.                                                    *)
(***************************************************************************)
LEMMA Names ==
  /\ \A c \in Calls : turn(c) \in Goroutines /\ worker(c) \in Goroutines
  /\ \A c \in Calls : turn(c)[1] = c /\ worker(c)[1] = c /\ turn(c)[2] = "turn" /\ worker(c)[2] = "compact"
  /\ \A c, d : turn(c) # worker(d)
  /\ \A c, d : (turn(c) = turn(d) => c = d) /\ (worker(c) = worker(d) => c = d)
  /\ \A c \in Calls : SessionOf[c] \in Sessions
  /\ \A p \in Goroutines : \E c \in Calls : p \in {turn(c), worker(c)} /\ p[1] = c
BY SessionOfAssumption DEF turn, worker, Goroutines

LEMMA NewestFacts ==
  ASSUME TypeOK, NewestRow, NEW k \in Sessions
  PROVE  /\ rows[k] # {} => /\ Latest(rows[k]) \in Rows
                            /\ Top(Latest(rows[k]), rows[k])
                            /\ clears[k] = 0 => Latest(rows[k]).id = lastId[k]
         /\ CurrentHist(k) \in Hists
<1>1. rows[k] \in SUBSET Rows
  BY DEF TypeOK
<1>2. CASE rows[k] = {}
  BY <1>2 DEF CurrentHist, Hists
<1>3. CASE rows[k] # {}
  <2>1. PICK r \in rows[k] : Top(r, rows[k]) /\ (clears[k] = 0 => r.id = lastId[k])
    BY <1>3 DEF NewestRow
  <2>2. Latest(rows[k]) = r
    BY <1>1, <2>1, LatestTop
  <2>3. r \in Rows /\ r.hist \in Hists
    BY <1>1 DEF Rows, Hists
  <2> QED BY <1>3, <2>1, <2>2, <2>3 DEF CurrentHist
<1> QED BY <1>2, <1>3

\* A save makes its row the newest one, unless it restarts a cleared session
\* beside rows with higher iterations; then the newest row stays.
LEMMA SaveStep ==
  ASSUME TypeOK, NewestRow, NEW k \in Sessions, NEW i \in Nat, NEW h \in Hists,
         SaveSnapshot(k, i, h), UNCHANGED <<thread, clears>>,
         rows[k] = {} \/ i >= Latest(rows[k]).iter \/ clears[k] > 0
  PROVE  /\ rows' \in [Sessions -> SUBSET Rows]
         /\ lastId' \in [Sessions -> Nat]
         /\ \A j \in Sessions : \A r \in rows'[j] : r.id \in 1 .. lastId'[j]
         /\ NewestRow'
         /\ \A j \in Sessions \ {k} : rows'[j] = rows[j]
         /\ rows'[k] # {}
         /\ CurrentHist(k)' = IF rows[k] = {} \/ i >= Latest(rows[k]).iter
                              THEN h ELSE CurrentHist(k)
<1> DEFINE R == rows[k]
           n == lastId[k]
           new == [id |-> n + 1, iter |-> i, hist |-> h]
           S == Retained(R \union {new})
<1>1. /\ R \in SUBSET Rows /\ n \in Nat /\ new \in Rows /\ new.id = n + 1 /\ new.hist = h
      /\ \A r \in R : r.id \in 1 .. n
  BY DEF TypeOK, Rows, Hists
<1>2. /\ rows' = [rows EXCEPT ![k] = S]
      /\ lastId' = [lastId EXCEPT ![k] = n + 1]
  BY DEF SaveSnapshot
<1> HIDE DEF new
<1>3. S \in SUBSET Rows /\ \A r \in S : r.id \in 1 .. n + 1
  BY <1>1, RetainedIn
<1> HIDE DEF S
<1>4. /\ rows' \in [Sessions -> SUBSET Rows] /\ rows'[k] = S
      /\ lastId' \in [Sessions -> Nat] /\ lastId'[k] = n + 1
      /\ \A j \in Sessions \ {k} : rows'[j] = rows[j] /\ lastId'[j] = lastId[j]
  BY <1>1, <1>2, <1>3 DEF TypeOK
<1>5. \A j \in Sessions : \A r \in rows'[j] : r.id \in 1 .. lastId'[j]
  BY <1>3, <1>4 DEF TypeOK
<1>6. R # {} => Latest(R) \in Rows /\ Top(Latest(R), R)
  BY NewestFacts
<1>7. \A j \in Sessions \ {k} :
        /\ lastId'[j] > 0 => rows'[j] # {}
        /\ rows'[j] # {} => \E r \in rows'[j] : /\ Top(r, rows'[j])
                                                /\ clears'[j] = 0 => r.id = lastId'[j]
  BY <1>4 DEF NewestRow
<1>8. CASE R = {} \/ i >= Latest(R).iter
  <2>1. Top(new, S)
    BY <1>1, <1>6, <1>8, SaveTop DEF new, S
  <2>2. Latest(S) = new /\ new \in S
    BY <1>3, <2>1, LatestTop DEF Top
  <2>3. NewestRow'
    BY <1>1, <1>4, <1>7, <2>1, <2>2 DEF NewestRow
  <2>4. CurrentHist(k)' = h
    BY <1>1, <1>4, <2>2 DEF CurrentHist
  <2> QED BY <1>4, <1>5, <1>8, <2>2, <2>3, <2>4
<1>9. CASE ~(R = {} \/ i >= Latest(R).iter)
  <2>1. i < Latest(R).iter /\ clears[k] > 0 /\ R # {}
    BY <1>6, <1>9 DEF Rows
  <2>2. Top(Latest(R), S)
    BY <1>1, <1>6, <2>1, SaveBelow DEF new, S
  <2>3. Latest(S) = Latest(R) /\ Latest(R) \in S
    BY <1>3, <2>2, LatestTop DEF Top
  <2>4. NewestRow'
    BY <1>1, <1>4, <1>7, <2>1, <2>2, <2>3 DEF NewestRow
  <2>5. CurrentHist(k)' = CurrentHist(k)
    BY <1>4, <2>1, <2>3 DEF CurrentHist
  <2> QED BY <1>4, <1>5, <1>9, <2>3, <2>4, <2>5
<1> QED BY <1>8, <1>9

-----------------------------------------------------------------------------
(***************************************************************************)
(* What steps leave alone.                                                 *)
(***************************************************************************)
LEMMA TurnStays ==
  ASSUME NEW c \in Calls, TurnWork(c),
         pc'[turn(c)] = pc[turn(c)], snap'[turn(c)] = snap[turn(c)],
         \/ pc[turn(c)] \notin Inside
         \/ /\ rows'[SessionOf[c]] = rows[SessionOf[c]]
            /\ clears[SessionOf[c]] > 0 => clears'[SessionOf[c]] > 0
  PROVE  TurnWork(c)'
<1>1. CASE pc[turn(c)] \notin Inside
  BY <1>1 DEF TurnWork, Inside
<1>2. CASE /\ rows'[SessionOf[c]] = rows[SessionOf[c]]
           /\ clears[SessionOf[c]] > 0 => clears'[SessionOf[c]] > 0
  BY <1>2 DEF TurnWork, Blank, Current, CurrentHist
<1> QED BY <1>1, <1>2

LEMMA WorkerStays ==
  ASSUME NEW c \in Calls, WorkerWork(c),
         pc'[worker(c)] = pc[worker(c)], snap'[worker(c)] = snap[worker(c)],
         \/ pc[worker(c)] \notin Inside
         \/ /\ rows'[SessionOf[c]] = rows[SessionOf[c]]
            /\ SessionOf[c] \in published => SessionOf[c] \in published'
  PROVE  WorkerWork(c)'
<1>1. CASE pc[worker(c)] \notin Inside
  BY <1>1 DEF WorkerWork, Inside
<1>2. CASE /\ rows'[SessionOf[c]] = rows[SessionOf[c]]
           /\ SessionOf[c] \in published => SessionOf[c] \in published'
  BY <1>2 DEF WorkerWork, Current, CurrentHist
<1> QED BY <1>1, <1>2

LEMMA NewestStays ==
  ASSUME NewestRow, UNCHANGED <<rows, lastId>>,
         \A j \in Sessions : thread'[j] = "completed" => thread[j] = "completed" \/ clears'[j] > 0,
         \A j \in Sessions : clears'[j] = clears[j] \/ clears'[j] > 0
  PROVE  NewestRow'
BY DEF NewestRow

LEMMA AckedStays ==
  ASSUME AckedDurable, UNCHANGED <<rows, clears>>, dropped \subseteq dropped',
         \A c \in Calls : outcome'[c] = "ok" => outcome[c] = "ok"
  PROVE  AckedDurable'
BY DEF AckedDurable, CurrentHist

\* A step of one goroutine inside its section: it holds the lock, so whoever
\* else is inside works on another session.
LEMMA WorkMove ==
  ASSUME DispatchInv, NEW p \in Goroutines, pc[p] \in Inside, LocksUnchanged,
         clears' = clears, pc'[p] \in Inside \union {"exit"},
         \A q \in Goroutines \ {p} : pc'[q] = pc[q] /\ snap'[q] = snap[q],
         \A k \in Sessions \ {SessionOf[p[1]]} :
           rows'[k] = rows[k] /\ (k \in published => k \in published')
  PROVE  /\ LP!LockInv' /\ L!LockTypeOK'
         /\ Sections'
         /\ \A c \in Calls : /\ turn(c) # p => TurnWork(c)'
                             /\ worker(c) # p => WorkerWork(c)'
<1>1. LP!LockInv' /\ L!LockTypeOK'
  <2>1. LP!LockInv'
    BY LockIdle DEF DispatchInv
  <2>2. L!LockTypeOK
    BY LockFacts DEF DispatchInv
  <2> QED BY <2>1, <2>2 DEF LocksUnchanged, L!LockTypeOK
<1>2. lpc' = lpc /\ lpc[p] = "locked"
  BY DEF LocksUnchanged, DispatchInv, Sections
<1>3. Sections'
  <2>1. \A q \in Goroutines : pc'[q] \in Inside => lpc'[q] = "locked"
    BY <1>2 DEF DispatchInv, Sections
  <2>2. \A c \in Calls : lpc'[turn(c)] \in {"waiting", "taken"} => pc'[turn(c)] = "locking"
    BY <1>2, Names DEF DispatchInv, Sections
  <2> QED BY <2>1, <2>2 DEF Sections
<1>4. \A q \in Goroutines \ {p} : SessionOf[q[1]] = SessionOf[p[1]] => pc[q] \notin Inside
  BY <1>2, LockFacts DEF DispatchInv, Sections
<1>5. ASSUME NEW c \in Calls, turn(c) # p PROVE TurnWork(c)'
  <2>1. turn(c) \in Goroutines \ {p} /\ turn(c)[1] = c /\ SessionOf[c] \in Sessions
    BY <1>5, Names
  <2> QED BY <1>4, <2>1, TurnStays DEF DispatchInv
<1>6. ASSUME NEW c \in Calls, worker(c) # p PROVE WorkerWork(c)'
  <2>1. worker(c) \in Goroutines \ {p} /\ worker(c)[1] = c /\ SessionOf[c] \in Sessions
    BY <1>6, Names
  <2> QED BY <1>4, <2>1, WorkerStays DEF DispatchInv
<1> QED BY <1>1, <1>3, <1>5, <1>6

\* A step of the locking protocol: nothing but the goroutine's place changes,
\* and the snapshot it drops when it returns.
LEMMA LockMove ==
  ASSUME DispatchInv, NEW p \in Goroutines, LP!LockInv',
         NEW v \in {"idle", "waiting", "taken", "locked", "unlocking", "unlocked", "failed"},
         NEW w \in {"locking", "load", "exit", "done"},
         lpc' = [lpc EXCEPT ![p] = v], pc' = [pc EXCEPT ![p] = w],
         w = "load" => v = "locked", v \in {"waiting", "taken"} => w = "locking",
         w \in {"locking", "load"} =>
           snap' = snap /\ (p[2] = "turn" => pc[p] \in {"idle", "locking"}),
         snap' = snap \/ snap' = [snap EXCEPT ![p] = NoSnap],
         outcome' = outcome \/ \E c \in Calls : outcome' = [outcome EXCEPT ![c] = "error"],
         stateless' \subseteq stateless,
         UNCHANGED <<storeVars, ghostVars, crashes, clears>>
  PROVE  DispatchInv'
<1>0. /\ UNCHANGED <<thread, rows, lastId, tokens, compactedAt, dropped, published, cleared,
                     crashes, clears>>
      /\ L!LockTypeOK'
  <2>1. UNCHANGED <<thread, rows, lastId, tokens, compactedAt, dropped, published, cleared,
                    crashes, clears>>
    BY DEF storeVars, ghostVars
  <2>2. L!LockTypeOK'
    BY DEF LP!LockInv, LP!LockTypeOK, L!LockTypeOK, LP!LockPcs, L!LockPcs
  <2> QED BY <2>1, <2>2
<1>1. TypeOK'
  <2>1. pc' \in [Goroutines -> {"idle", "spawned", "locking", "load", "create", "run", "save",
                                "budget", "summarise", "publish", "meta", "exit", "done"}]
    BY DEF DispatchInv, TypeOK
  <2>2. snap' \in [Goroutines -> Snapshots]
    <3>1. NoSnap \in Snapshots
      BY DEF NoSnap, Snapshots
    <3> QED BY <3>1 DEF DispatchInv, TypeOK
  <2>3. outcome' \in [Calls -> {"none", "ok", "warned", "error"}]
    BY DEF DispatchInv, TypeOK
  <2>4. stateless' \subseteq Calls
    BY DEF DispatchInv, TypeOK
  <2> QED BY <1>0, <2>1, <2>2, <2>3, <2>4 DEF DispatchInv, TypeOK
<1>2. lpc \in [Goroutines -> L!LockPcs] /\ pc \in [Goroutines -> {"idle", "spawned",
        "locking", "load", "create", "run", "save", "budget", "summarise", "publish", "meta",
        "exit", "done"}] /\ DOMAIN snap = Goroutines
  BY DEF DispatchInv, TypeOK, L!LockTypeOK
<1>3. /\ pc'[p] = w /\ lpc'[p] = v
      /\ \A q \in Goroutines \ {p} : pc'[q] = pc[q] /\ lpc'[q] = lpc[q] /\ snap'[q] = snap[q]
  BY <1>2
<1>4. Sections'
  <2>1. \A q \in Goroutines : pc'[q] \in Inside => lpc'[q] = "locked"
    BY <1>3 DEF DispatchInv, Sections, Inside
  <2>2. \A c \in Calls : lpc'[turn(c)] \in {"waiting", "taken"} => pc'[turn(c)] = "locking"
    BY <1>3, Names DEF DispatchInv, Sections
  <2> QED BY <2>1, <2>2 DEF Sections
<1>5. NewestRow'
  BY <1>0 DEF DispatchInv, NewestRow
<1>6. ASSUME NEW c \in Calls PROVE TurnWork(c)'
  <2>1. CASE turn(c) # p
    BY <1>0, <1>3, <2>1, Names, TurnStays DEF DispatchInv
  <2>2. CASE turn(c) = p
    BY <1>3, <2>2, Names DEF DispatchInv, TurnWork
  <2> QED BY <2>1, <2>2
<1>7. ASSUME NEW c \in Calls PROVE WorkerWork(c)'
  <2>1. CASE worker(c) # p
    BY <1>0, <1>3, <2>1, Names, WorkerStays DEF DispatchInv
  <2>2. CASE worker(c) = p
    BY <1>3, <2>2 DEF WorkerWork
  <2> QED BY <2>1, <2>2
<1>8. MetadataAfterSnapshot'
  BY <1>0 DEF DispatchInv, MetadataAfterSnapshot
<1>9. AckedDurable'
  <2>1. \A c \in Calls : outcome'[c] = "ok" => outcome[c] = "ok"
    BY DEF DispatchInv, TypeOK
  <2> QED BY <1>0, <2>1, AckedStays DEF DispatchInv
<1> QED BY <1>1, <1>4, <1>5, <1>6, <1>7, <1>8, <1>9 DEF DispatchInv
-----------------------------------------------------------------------------
(***************************************************************************)
(* The steps.                                                              *)
(***************************************************************************)
LEMMA InitHolds == Init => DispatchInv
<1> SUFFICES ASSUME Init PROVE DispatchInv
  OBVIOUS
<1>0. PICK saved \in [Sessions -> 0 .. Len(Earlier)] :
        /\ thread = [k \in Sessions |-> IF saved[k] = 0 THEN "none" ELSE "active"]
        /\ rows = [k \in Sessions |-> Retained({EarlierRow(n) : n \in 1 .. saved[k]})]
        /\ lastId = saved
        /\ tokens = saved
  BY DEF Init, InitStore
<1>1. LP!LockInv
  BY LockInitHolds DEF Init
<1>2. Len(Earlier) \in Nat /\ \A n \in 1 .. Len(Earlier) : Earlier[n] \in Turns
  BY EarlierAssumption DEF Turns
<1>3. \A n \in 1 .. Len(Earlier) :
        EarlierRow(n) \in Rows /\ EarlierRow(n).id = n /\ EarlierRow(n).iter = n
  <2> SUFFICES ASSUME NEW n \in 1 .. Len(Earlier)
               PROVE  EarlierRow(n) \in Rows /\ EarlierRow(n).id = n /\ EarlierRow(n).iter = n
    OBVIOUS
  <2>1. [i \in 1 .. n |-> {Earlier[i]}] \in [1 .. n -> SUBSET Turns]
    BY <1>2
  <2>2. [i \in 1 .. n |-> {Earlier[i]}] \in Seq(SUBSET Turns)
    BY <1>2, <2>1
  <2>3. n \in Nat
    BY <1>2
  <2> QED BY <2>2, <2>3 DEF EarlierRow, Rows
<1>4. ASSUME NEW k \in Sessions
      PROVE  /\ rows[k] \in SUBSET Rows
             /\ \A r \in rows[k] : r.id \in 1 .. lastId[k]
             /\ lastId[k] > 0 => rows[k] # {}
             /\ rows[k] # {} => \E r \in rows[k] : Top(r, rows[k]) /\ r.id = lastId[k]
  <2> DEFINE R == {EarlierRow(n) : n \in 1 .. saved[k]}
             t == EarlierRow(saved[k])
  <2>1. rows[k] = Retained(R) /\ lastId[k] = saved[k] /\ saved[k] \in 0 .. Len(Earlier)
    BY <1>0
  <2>2. R \subseteq Rows /\ \A r \in R : r.id \in 1 .. saved[k] /\ r.iter = r.id
    BY <1>2, <1>3, <2>1
  <2>3. Retained(R) \subseteq R
    BY RetainedIn
  <2>4. CASE saved[k] = 0
    <3>1. R = {}
      BY <2>4
    <3> QED BY <2>1, <2>3, <2>4, <3>1
  <2>5. CASE saved[k] # 0
    <3>1. t \in R /\ t.id = saved[k] /\ t.iter = saved[k] /\ saved[k] \in Nat
      BY <1>2, <1>3, <2>1, <2>5
    <3>2. \A s \in R \ {t} : Newer(t, s) /\ ~Newer(s, t)
      <4> SUFFICES ASSUME NEW n \in 1 .. saved[k], EarlierRow(n) # t
                   PROVE  Newer(t, EarlierRow(n)) /\ ~Newer(EarlierRow(n), t)
        OBVIOUS
      <4>1. n # saved[k] /\ n \in 1 .. Len(Earlier) /\ n < saved[k]
        BY <1>2, <2>1
      <4>2. EarlierRow(n).iter = n
        BY <1>3, <4>1
      <4> QED BY <1>2, <3>1, <4>1, <4>2 DEF Newer
    <3> HIDE DEF R, t
    <3>3. ~Newer(t, t)
      BY <3>1 DEF Newer
    <3> DEFINE above == {s \in R : Newer(s, t)}
    <3>4. above = {}
      BY <3>2, <3>3
    <3> HIDE DEF above
    <3>5. Cardinality(above) < MaxCheckpoints
      BY <3>4, FS_EmptySet, BoundsAssumption
    <3>6. t \in Retained(R)
      BY <3>1, <3>5 DEF Retained, above
    <3> QED BY <2>1, <2>2, <2>3, <3>1, <3>2, <3>6 DEF Top
  <2> QED BY <2>4, <2>5
<1>5. TypeOK
  <2>1. L!LockTypeOK
    BY <1>1, LockFacts
  <2>2. rows \in [Sessions -> SUBSET Rows] /\ \A k \in Sessions : \A r \in rows[k] : r.id \in 1 .. lastId[k]
    BY <1>0, <1>4
  <2>3. /\ thread \in [Sessions -> {"none", "active", "completed"}]
        /\ lastId \in [Sessions -> Nat] /\ tokens \in [Sessions -> Nat]
    BY <1>0, <1>2
  <2>4. NoSnap \in Snapshots
    BY DEF NoSnap, Snapshots
  <2> QED BY <2>1, <2>2, <2>3, <2>4, BoundsAssumption DEF Init, TypeOK
<1>6. NewestRow
  BY <1>0, <1>4 DEF NewestRow, Init
<1>7. Sections
  BY Names DEF Sections, Init, Inside, L!LockInit
<1>8. \A c \in Calls : TurnWork(c) /\ WorkerWork(c)
  BY Names DEF TurnWork, WorkerWork, Init
<1>9. MetadataAfterSnapshot /\ AckedDurable
  BY DEF MetadataAfterSnapshot, AckedDurable, Init
<1> QED BY <1>1, <1>5, <1>6, <1>7, <1>8, <1>9 DEF DispatchInv

LEMMA BeginHolds ==
  ASSUME DispatchInv, NEW c \in Calls, Begin(c) \/ BeginCompaction(c)
  PROVE  DispatchInv'
<1>1. PICK p \in {turn(c), worker(c)} :
        /\ p = turn(c) => pc[p] = "idle"
        /\ L!acquireLock(p) /\ LockingOnly(p, "locking")
  BY Names DEF Begin, BeginCompaction
<1>2. p \in Goroutines /\ (p[2] = "turn" => p = turn(c))
  BY <1>1, Names
<1>3. LP!LockInv'
  BY <1>1, <1>2, LockStepsHold DEF DispatchInv
<1>4. lpc' = [lpc EXCEPT ![p] = "waiting"]
  BY <1>1 DEF L!acquireLock
<1> QED
  BY <1>1, <1>2, <1>3, <1>4, LockMove DEF LockingOnly, Goto, BoundsUnchanged

LEMMA LockHolds ==
  ASSUME DispatchInv, NEW p \in Goroutines, Lock(p)
  PROVE  DispatchInv'
<1>1. p[2] = "turn" => \E c \in Calls : p = turn(c)
  BY DEF Goroutines, turn
<1>2. lpc[p] \in {"waiting", "taken"}
  BY DEF Lock, L!LockTake, L!LockRecord
<1>3. p[2] = "turn" => pc[p] = "locking"
  BY <1>1, <1>2 DEF DispatchInv, Sections
<1>4. LP!LockInv'
  BY LockStepsHold DEF DispatchInv, Lock
<1>5. CASE L!LockTake(p) /\ LockingOnly(p, "locking")
  <2>1. lpc' = [lpc EXCEPT ![p] = "taken"]
    BY <1>5 DEF L!LockTake
  <2> QED BY <1>3, <1>4, <1>5, <2>1, LockMove DEF LockingOnly, Goto, BoundsUnchanged
<1>6. CASE L!LockRecord(p) /\ LockingOnly(p, "load")
  <2>1. lpc' = [lpc EXCEPT ![p] = "locked"]
    BY <1>6 DEF L!LockRecord
  <2> QED BY <1>3, <1>4, <1>6, <2>1, LockMove DEF LockingOnly, Goto, BoundsUnchanged
<1> QED BY <1>5, <1>6 DEF Lock

LEMMA LockFailedHolds ==
  ASSUME DispatchInv, NEW p \in Goroutines, LockFailed(p)
  PROVE  DispatchInv'
<1>1. LP!LockInv' /\ lpc' = [lpc EXCEPT ![p] = "failed"]
  BY LockStepsHold DEF DispatchInv, LockFailed, L!LockFail
<1>2. outcome' = outcome \/ \E c \in Calls : outcome' = [outcome EXCEPT ![c] = "error"]
  BY DEF LockFailed, Return, Goroutines
<1>3. /\ pc' = [pc EXCEPT ![p] = "exit"]
      /\ UNCHANGED <<storeVars, ghostVars, snap, stateless, crashes, clears>>
  BY DEF LockFailed, Goto, BoundsUnchanged
<1> QED BY <1>1, <1>2, <1>3, LockMove

LEMMA LeaveHolds ==
  ASSUME DispatchInv, NEW p \in Goroutines, Leave(p)
  PROVE  DispatchInv'
<1>1. CASE Unlock(p)
  <2>1. LP!LockInv' /\ LockingOnly(p, "exit")
    BY <1>1, LockStepsHold DEF DispatchInv, Unlock
  <2>2. PICK v \in {"unlocking", "unlocked"} : lpc' = [lpc EXCEPT ![p] = v]
    BY <1>1 DEF Unlock, L!UnlockRecord, L!UnlockSend
  <2> QED BY <2>1, <2>2, LockMove DEF LockingOnly, Goto, BoundsUnchanged
<1>2. CASE Depart(p)
  <2>1. LP!LockInv' /\ lpc' = [lpc EXCEPT ![p] = "idle"]
    BY <1>2, LockStepsHold DEF DispatchInv, Depart, L!release
  <2>2. /\ pc' = [pc EXCEPT ![p] = "done"] /\ snap' = [snap EXCEPT ![p] = NoSnap]
        /\ stateless' \subseteq stateless
        /\ UNCHANGED <<storeVars, ghostVars, outcome, crashes, clears>>
    BY <1>2 DEF Depart, Goto, BoundsUnchanged
  <2> QED BY <2>1, <2>2, LockMove
<1> QED BY <1>1, <1>2 DEF Leave

LEMMA CrashHolds == ASSUME DispatchInv, Crash PROVE DispatchInv'
<1>0. /\ UNCHANGED <<thread, rows, lastId, tokens, compactedAt, dropped, published, cleared,
                     outcome, clears>>
      /\ \A p \in Goroutines : /\ lpc'[p] = "idle" /\ snap'[p] = NoSnap
                               /\ pc'[p] \in {"idle", "done"}
  BY DEF Crash, storeVars, ghostVars
<1>1. LP!LockInv'
  BY LockAssumptions
     DEF Crash, LP!LockInv, LP!LockTypeOK, LP!LockPcs, LP!PointersAgree, LP!ObjectsDistinct,
         LP!RefCountExact, LP!TokenOut, LP!MutualExclusion, LP!MetricsHaveHolder, LP!Holds
<1>2. TypeOK'
  <2>1. L!LockTypeOK'
    BY <1>1 DEF LP!LockInv, LP!LockTypeOK, L!LockTypeOK, LP!LockPcs, L!LockPcs
  <2>2. NoSnap \in Snapshots
    BY DEF NoSnap, Snapshots
  <2>3. /\ pc' \in [Goroutines -> {"idle", "spawned", "locking", "load", "create", "run", "save",
                                   "budget", "summarise", "publish", "meta", "exit", "done"}]
        /\ snap' \in [Goroutines -> Snapshots] /\ stateless' = {}
        /\ crashes' \in 0 .. MaxCrashes
    BY <2>2, BoundsAssumption DEF Crash, DispatchInv, TypeOK
  <2> QED BY <1>0, <2>1, <2>3 DEF DispatchInv, TypeOK
<1>3. Sections'
  BY <1>0, Names DEF Sections, Inside
<1>4. NewestRow'
  BY <1>0 DEF DispatchInv, NewestRow
<1>5. \A c \in Calls : TurnWork(c)' /\ WorkerWork(c)'
  BY <1>0, Names DEF TurnWork, WorkerWork
<1>6. MetadataAfterSnapshot'
  BY <1>0 DEF DispatchInv, MetadataAfterSnapshot
<1>7. AckedDurable'
  BY <1>0, AckedStays DEF DispatchInv
<1> QED BY <1>1, <1>2, <1>3, <1>4, <1>5, <1>6, <1>7 DEF DispatchInv

LEMMA CompleteHolds ==
  ASSUME DispatchInv, NEW k \in Sessions, CompleteThread(k)
  PROVE  DispatchInv'
<1>0. /\ UNCHANGED <<rows, lastId, tokens, compactedAt, dropped, published, pc, snap,
                     stateless, outcome, crashes>>
      /\ LocksUnchanged
      /\ clears' = [clears EXCEPT ![k] = @ + 1] /\ clears[k] < MaxClears
      /\ thread' = [thread EXCEPT ![k] = "completed"]
      /\ cleared' = [cleared EXCEPT ![k] = Told(CurrentHist(k))]
  BY DEF CompleteThread, callVars
<1>1. LP!LockInv' /\ Sections'
  <2>1. LP!LockInv'
    BY <1>0, LockIdle DEF DispatchInv
  <2> QED BY <1>0, <2>1 DEF DispatchInv, Sections, LocksUnchanged
<1>2. clears \in [Sessions -> 0 .. MaxClears] /\ thread \in [Sessions -> {"none", "active", "completed"}]
      /\ cleared \in [Sessions -> SUBSET Turns]
  BY DEF DispatchInv, TypeOK
<1>3. TypeOK'
  <2>1. L!LockTypeOK'
    BY <1>1 DEF LP!LockInv, LP!LockTypeOK, L!LockTypeOK, LP!LockPcs, L!LockPcs
  <2>2. clears' \in [Sessions -> 0 .. MaxClears]
    BY <1>0, <1>2, BoundsAssumption
  <2>3. cleared' \in [Sessions -> SUBSET Turns]
    <3>1. Told(CurrentHist(k)) \in SUBSET Turns
      BY NewestFacts, ToldIn DEF DispatchInv
    <3> QED BY <1>0, <1>2, <3>1
  <2>4. thread' \in [Sessions -> {"none", "active", "completed"}]
    BY <1>0, <1>2
  <2> QED BY <1>0, <2>1, <2>2, <2>3, <2>4 DEF DispatchInv, TypeOK
<1>4. \A j \in Sessions : /\ clears'[j] = clears[j] \/ clears'[j] > 0
                          /\ clears[j] > 0 => clears'[j] > 0
                          /\ clears'[j] = 0 => clears[j] = 0
                          /\ thread'[j] = "completed" => thread[j] = "completed" \/ clears'[j] > 0
  BY <1>0, <1>2, BoundsAssumption
<1>5. NewestRow'
  BY <1>0, <1>4, NewestStays DEF DispatchInv
<1>6. \A c \in Calls : TurnWork(c)' /\ WorkerWork(c)'
  BY <1>0, <1>4, Names, TurnStays, WorkerStays DEF DispatchInv
<1>7. MetadataAfterSnapshot'
  BY <1>0 DEF DispatchInv, MetadataAfterSnapshot
<1>8. AckedDurable'
  BY <1>0, <1>4, Names DEF DispatchInv, AckedDurable, CurrentHist
<1> QED BY <1>1, <1>3, <1>5, <1>6, <1>7, <1>8 DEF DispatchInv

Places == {"idle", "spawned", "locking", "load", "create", "run", "save", "budget",
           "summarise", "publish", "meta", "exit", "done"}

\* A step inside a section that writes neither rows nor thread status.
LEMMA QuietWork ==
  ASSUME DispatchInv, NEW p \in Goroutines, pc[p] \in Inside, LocksUnchanged, BoundsUnchanged,
         NEW w \in Inside \union {"exit"}, Goto(p, w),
         snap' = snap \/ \E s \in Snapshots : snap' = [snap EXCEPT ![p] = s],
         outcome' = outcome \/
           \E c \in Calls, o \in {"warned", "error"} : outcome' = [outcome EXCEPT ![c] = o],
         stateless' \subseteq Calls,
         tokens' \in [Sessions -> Nat], compactedAt' \in [Sessions -> BOOLEAN],
         UNCHANGED <<thread, rows, lastId, ghostVars>>,
         \A k \in Sessions : compactedAt'[k] => compactedAt[k] \/ k \in published,
         \A c \in Calls : turn(c) = p => TurnWork(c)',
         \A c \in Calls : worker(c) = p => WorkerWork(c)'
  PROVE  DispatchInv'
<1>0. /\ UNCHANGED <<dropped, published, cleared, crashes, clears>>
      /\ pc' = [pc EXCEPT ![p] = w]
  BY DEF ghostVars, BoundsUnchanged, Goto
<1>1. pc \in [Goroutines -> Places] /\ snap \in [Goroutines -> Snapshots]
  BY DEF DispatchInv, TypeOK, Places
<1>2. /\ pc'[p] = w
      /\ \A q \in Goroutines \ {p} : pc'[q] = pc[q] /\ snap'[q] = snap[q]
  BY <1>0, <1>1
<1>3. /\ LP!LockInv' /\ L!LockTypeOK' /\ Sections'
      /\ \A c \in Calls : TurnWork(c)' /\ WorkerWork(c)'
  BY <1>0, <1>2, WorkMove
<1>4. TypeOK'
  <2>1. pc' \in [Goroutines -> Places] /\ snap' \in [Goroutines -> Snapshots]
    BY <1>0, <1>1 DEF Places, Inside
  <2>2. outcome' \in [Calls -> {"none", "ok", "warned", "error"}]
    BY DEF DispatchInv, TypeOK
  <2> QED BY <1>0, <1>3, <2>1, <2>2 DEF DispatchInv, TypeOK, Places
<1>5. NewestRow'
  BY <1>0 DEF DispatchInv, NewestRow
<1>6. MetadataAfterSnapshot'
  BY <1>0 DEF DispatchInv, MetadataAfterSnapshot
<1>7. AckedDurable'
  <2>1. \A c \in Calls : outcome'[c] = "ok" => outcome[c] = "ok"
    BY DEF DispatchInv, TypeOK
  <2> QED BY <1>0, <2>1, AckedStays DEF DispatchInv
<1> QED BY <1>3, <1>4, <1>5, <1>6, <1>7 DEF DispatchInv

LEMMA LoadHolds ==
  ASSUME DispatchInv, NEW c \in Calls, loadHistory(c)
  PROVE  DispatchInv'
<1> DEFINE p == turn(c)
           k == SessionOf[c]
<1>0. /\ p \in Goroutines /\ k \in Sessions /\ pc[p] = "load" /\ pc[p] \in Inside
      /\ \A d \in Calls : (turn(d) = p => d = c) /\ worker(d) # p
      /\ LocksUnchanged /\ BoundsUnchanged /\ UNCHANGED <<storeVars, ghostVars, stateless>>
  BY Names DEF loadHistory, Inside
<1>1. /\ UNCHANGED <<thread, rows, lastId, tokens, compactedAt, clears>>
      /\ stateless' \subseteq Calls
      /\ tokens' \in [Sessions -> Nat] /\ compactedAt' \in [Sessions -> BOOLEAN]
  BY <1>0 DEF storeVars, BoundsUnchanged, DispatchInv, TypeOK
<1>2. snap[p] = NoSnap /\ DOMAIN pc = Goroutines /\ DOMAIN snap = Goroutines
  BY <1>0 DEF DispatchInv, TurnWork, TypeOK
<1>3. CASE Goto(p, "exit") /\ Return(c, "error") /\ UNCHANGED snap
  <2>1. TurnWork(c)'
    BY <1>0, <1>2, <1>3 DEF TurnWork, Goto
  <2> QED BY <1>0, <1>1, <1>3, <2>1, QuietWork DEF Return
<1>4. CASE /\ rows[k] # {}
           /\ LET r == Latest(rows[k]) IN
                snap' = [snap EXCEPT ![p] = [iter |-> r.iter, hist |-> r.hist, drop |-> {}]]
           /\ Goto(p, "run") /\ UNCHANGED outcome
  <2> DEFINE r == Latest(rows[k])
             s == [iter |-> r.iter, hist |-> r.hist, drop |-> {}]
  <2>1. r \in Rows
    BY <1>0, <1>4, NewestFacts DEF DispatchInv
  <2>2. s \in Snapshots /\ s.iter = r.iter /\ s.hist = r.hist
    BY <2>1 DEF Rows, Snapshots
  <2>3. snap' = [snap EXCEPT ![p] = s] /\ snap'[p] = s /\ pc'[p] = "run"
    BY <1>0, <1>2, <1>4 DEF Goto
  <2>4. rows'[k] # {} /\ s.iter = Latest(rows'[k]).iter /\ s.hist = CurrentHist(k)'
    BY <1>1, <1>4, <2>2 DEF CurrentHist
  <2> HIDE DEF s
  <2>5. TurnWork(c)'
    BY <2>3, <2>4 DEF TurnWork, Current
  <2> QED BY <1>0, <1>1, <1>4, <2>2, <2>3, <2>5, QuietWork DEF Inside
<1>5. CASE /\ rows[k] = {} \/ thread[k] = "completed"
           /\ Goto(p, "create") /\ UNCHANGED <<snap, outcome>>
  <2>1. Blank(k)
    BY <1>0, <1>5 DEF DispatchInv, NewestRow, Blank
  <2>2. pc'[p] = "create" /\ snap'[p] = NoSnap /\ Blank(k)'
    BY <1>0, <1>1, <1>2, <1>5, <2>1 DEF Goto, Blank
  <2>3. TurnWork(c)'
    BY <2>2 DEF TurnWork
  <2> QED BY <1>0, <1>1, <1>5, <2>3, QuietWork DEF Inside
<1> QED BY <1>3, <1>4, <1>5 DEF loadHistory, HasSnapshot

LEMMA CreateHolds ==
  ASSUME DispatchInv, NEW c \in Calls, createThread(c)
  PROVE  DispatchInv'
<1> DEFINE p == turn(c)
           k == SessionOf[c]
<1>0. /\ p \in Goroutines /\ k \in Sessions /\ pc[p] = "create" /\ pc[p] \in Inside
      /\ p[1] = c
      /\ \A d \in Calls : (turn(d) = p => d = c) /\ worker(d) # p
      /\ LocksUnchanged /\ BoundsUnchanged /\ Goto(p, "run")
      /\ UNCHANGED <<rows, lastId, snap, outcome, dropped, cleared, clears, crashes>>
  BY Names DEF createThread, Inside, BoundsUnchanged
<1>1. /\ pc \in [Goroutines -> Places] /\ pc' = [pc EXCEPT ![p] = "run"] /\ pc'[p] = "run"
      /\ \A q \in Goroutines \ {p} : pc'[q] = pc[q] /\ snap'[q] = snap[q]
  BY <1>0 DEF DispatchInv, TypeOK, Places, Goto
<1>2. TurnWork(c)'
  <2>1. snap[p] = NoSnap /\ Blank(k)
    BY <1>0 DEF DispatchInv, TurnWork
  <2> QED BY <1>0, <1>1, <2>1 DEF TurnWork, Blank
<1>3. CASE /\ thread' = [thread EXCEPT ![k] = "active"]
           /\ tokens' = [tokens EXCEPT ![k] = 0]
           /\ compactedAt' = [compactedAt EXCEPT ![k] = FALSE]
           /\ published' = published \ {k}
           /\ UNCHANGED stateless
  <2>1. /\ LP!LockInv' /\ L!LockTypeOK' /\ Sections'
        /\ \A d \in Calls : TurnWork(d)' /\ WorkerWork(d)'
    BY <1>0, <1>1, <1>2, <1>3, WorkMove DEF Inside
  <2>2. TypeOK'
    <3>1. pc' \in [Goroutines -> Places]
      BY <1>1 DEF Places
    <3>2. /\ thread' \in [Sessions -> {"none", "active", "completed"}]
          /\ tokens' \in [Sessions -> Nat] /\ compactedAt' \in [Sessions -> BOOLEAN]
          /\ published' \subseteq Sessions
      BY <1>3 DEF DispatchInv, TypeOK
    <3> QED BY <1>0, <1>3, <2>1, <3>1, <3>2 DEF DispatchInv, TypeOK, Places
  <2>3. \A j \in Sessions : thread'[j] = "completed" => thread[j] = "completed"
    BY <1>3 DEF DispatchInv, TypeOK
  <2>4. NewestRow'
    BY <1>0, <2>3, NewestStays DEF DispatchInv
  <2>5. MetadataAfterSnapshot'
    BY <1>3 DEF DispatchInv, MetadataAfterSnapshot, TypeOK
  <2>6. AckedDurable'
    BY <1>0, AckedStays DEF DispatchInv
  <2> QED BY <2>1, <2>2, <2>4, <2>5, <2>6 DEF DispatchInv
<1>4. CASE /\ stateless' = stateless \union {c}
           /\ UNCHANGED <<thread, tokens, compactedAt, published>>
  <2>1. /\ stateless' \subseteq Calls /\ tokens' \in [Sessions -> Nat]
        /\ compactedAt' \in [Sessions -> BOOLEAN]
    BY <1>4 DEF DispatchInv, TypeOK
  <2> QED BY <1>0, <1>2, <1>4, <2>1, QuietWork DEF ghostVars, Inside
<1> QED BY <1>3, <1>4 DEF createThread

LEMMA SnapshotsEqual ==
  ASSUME NEW r \in Snapshots, NEW s \in Snapshots,
         r.iter = s.iter, r.hist = s.hist, r.drop = s.drop
  PROVE  r = s
BY DEF Snapshots

LEMMA RunHolds ==
  ASSUME DispatchInv, NEW c \in Calls, runTurn(c)
  PROVE  DispatchInv'
<1> DEFINE p == turn(c)
           k == SessionOf[c]
           h == snap[p].hist
<1>0. /\ p \in Goroutines /\ k \in Sessions /\ pc[p] = "run" /\ pc[p] \in Inside
      /\ \A d \in Calls : (turn(d) = p => d = c) /\ worker(d) # p
      /\ LocksUnchanged /\ BoundsUnchanged /\ UNCHANGED <<storeVars, ghostVars, stateless>>
      /\ c \in Turns
  BY Names DEF runTurn, Inside, Turns
<1>1. /\ UNCHANGED <<thread, rows, lastId, tokens, compactedAt, clears>>
      /\ stateless' \subseteq Calls
      /\ tokens' \in [Sessions -> Nat] /\ compactedAt' \in [Sessions -> BOOLEAN]
  BY <1>0 DEF storeVars, BoundsUnchanged, DispatchInv, TypeOK
<1>2. DOMAIN pc = Goroutines /\ snap \in [Goroutines -> Snapshots]
  BY DEF DispatchInv, TypeOK
<1>3. CASE Goto(p, "exit") /\ Return(c, "error") /\ UNCHANGED snap
  <2>1. TurnWork(c)'
    BY <1>0, <1>2, <1>3 DEF TurnWork, Goto
  <2> QED BY <1>0, <1>1, <1>3, <2>1, QuietWork DEF Return
<1>4. ASSUME NEW g \in prepareHistory(h),
             snap' = [snap EXCEPT ![p].hist = Append(g, {c}), ![p].drop = Told(h) \ Told(g)],
             IF c \in stateless THEN Goto(p, "exit") /\ Return(c, "warned")
                                ELSE Goto(p, "save") /\ UNCHANGED outcome
      PROVE  DispatchInv'
  <2> DEFINE s == [iter |-> snap[p].iter, hist |-> Append(g, {c}), drop |-> Told(h) \ Told(g)]
  <2>1. h \in Hists /\ snap[p].iter \in Nat
    BY <1>0, <1>2 DEF Snapshots, Hists
  <2>2. g \in Hists
    BY <2>1, PreparedForm, PreparedType
  <2>3. s \in Snapshots
    <3>1. Append(g, {c}) \in Hists
      BY <1>0, <2>2, ToldAppend
    <3>2. Told(h) \ Told(g) \subseteq Turns
      BY <2>1, ToldIn
    <3> QED BY <2>1, <3>1, <3>2 DEF Snapshots, Hists
  <2>4. snap' = [snap EXCEPT ![p] = s] /\ snap'[p] = s
    <3> DEFINE q == [snap[p] EXCEPT !.hist = Append(g, {c}), !.drop = Told(h) \ Told(g)]
    <3>1. /\ q \in Snapshots
          /\ q.iter = snap[p].iter /\ q.hist = Append(g, {c}) /\ q.drop = Told(h) \ Told(g)
      <4>1. snap[p] \in Snapshots
        BY <1>0, <1>2
      <4>2. Append(g, {c}) \in Seq(SUBSET Turns) /\ Told(h) \ Told(g) \in SUBSET Turns
        BY <2>3 DEF Snapshots
      <4> HIDE DEF h
      <4> QED BY <4>1, <4>2 DEF Snapshots
    <3>2. q = s
      <4>1. s.iter = snap[p].iter /\ s.hist = Append(g, {c}) /\ s.drop = Told(h) \ Told(g)
        OBVIOUS
      <4> HIDE DEF q, s
      <4> QED BY <2>3, <3>1, <4>1, SnapshotsEqual
    <3>3. snap' = [snap EXCEPT ![p] = q]
      BY <1>0, <1>2, <1>4
    <3> QED BY <1>0, <1>2, <3>2, <3>3
  <2>5. CASE c \in stateless
    <3>1. TurnWork(c)'
      BY <1>0, <1>2, <1>4, <2>5 DEF TurnWork, Goto
    <3> QED BY <1>0, <1>1, <1>4, <2>3, <2>4, <2>5, <3>1, QuietWork DEF Return
  <2>6. CASE c \notin stateless
    <3>1. pc'[p] = "save"
      BY <1>0, <1>2, <1>4, <2>6 DEF Goto
    <3>2. \/ Blank(k) /\ s = [iter |-> 0, hist |-> <<{c}>>, drop |-> {}]
          \/ /\ rows[k] # {} /\ s.iter = Latest(rows[k]).iter
             /\ \E f \in prepareHistory(CurrentHist(k)) :
                  s.hist = Append(f, {c}) /\ s.drop = Told(CurrentHist(k)) \ Told(f)
      <4>1. CASE snap[p] = NoSnap /\ Blank(k)
        <5>1. h = << >> /\ snap[p].iter = 0
          BY <4>1 DEF NoSnap
        <5>2. g = << >>
          BY <5>1, PreparedEmpty
        <5>3. Append(g, {c}) = <<{c}>> /\ Told(h) \ Told(g) = {}
          BY <5>1, <5>2
        <5> QED BY <4>1, <5>1, <5>3
      <4>2. CASE Current(k, snap[p])
        BY <4>2 DEF Current
      <4> QED BY <1>0, <4>1, <4>2 DEF DispatchInv, TurnWork
    <3> HIDE DEF s
    <3>3. TurnWork(c)'
      BY <1>1, <2>4, <3>1, <3>2 DEF TurnWork, Blank, CurrentHist
    <3> QED BY <1>0, <1>1, <1>4, <2>3, <2>4, <2>6, <3>3, QuietWork DEF Inside
  <2> QED BY <2>5, <2>6
<1> QED BY <1>3, <1>4 DEF runTurn

\* What a saved turn does to the session's history.
LEMMA PersistEffect ==
  ASSUME TypeOK, NewestRow, NEW c \in Calls, TurnWork(c), pc[turn(c)] = "save",
         SaveSnapshot(SessionOf[c], NextIteration(snap[turn(c)].iter), snap[turn(c)].hist),
         UNCHANGED <<thread, clears>>
  PROVE  LET k == SessionOf[c]
             drop == snap[turn(c)].drop
         IN /\ rows' \in [Sessions -> SUBSET Rows]
            /\ lastId' \in [Sessions -> Nat]
            /\ \A j \in Sessions : \A r \in rows'[j] : r.id \in 1 .. lastId'[j]
            /\ NewestRow'
            /\ \A j \in Sessions \ {k} : rows'[j] = rows[j]
            /\ \/ \E g : /\ MayStartFrom(CurrentHist(k), g)
                         /\ CurrentHist(k)' = Append(g, {c})
                         /\ drop = Told(CurrentHist(k)) \ Told(g)
               \/ clears[k] > 0 /\ CurrentHist(k)' = <<{c}>> /\ drop = {}
               \/ clears[k] > 0 /\ CurrentHist(k)' = CurrentHist(k) /\ drop = {}
<1> DEFINE p == turn(c)
           k == SessionOf[c]
           i == NextIteration(snap[p].iter)
           h == snap[p].hist
<1>1. /\ k \in Sessions /\ i \in Nat /\ h \in Hists /\ i = snap[p].iter + 1
      /\ snap[p].iter \in Nat
  <2>1. k \in Sessions /\ snap[p] \in Snapshots
    BY Names DEF TypeOK
  <2>2. snap[p].iter \in Nat /\ h \in Hists
    BY <2>1 DEF Snapshots, Hists
  <2> QED BY <2>1, <2>2 DEF NextIteration
<1>2. rows[k] # {} => Latest(rows[k]) \in Rows /\ Latest(rows[k]).iter \in Nat
  BY <1>1, NewestFacts DEF Rows
<1>3. CurrentHist(k) \in Hists
  BY <1>1, NewestFacts
<1>4. CASE Blank(k) /\ snap[p] = [iter |-> 0, hist |-> <<{c}>>, drop |-> {}]
  <2>1. h = <<{c}>> /\ snap[p].drop = {}
    BY <1>4
  <2>2. rows[k] = {} \/ i >= Latest(rows[k]).iter \/ clears[k] > 0
    BY <1>4 DEF Blank
  <2>3. /\ rows' \in [Sessions -> SUBSET Rows]
        /\ lastId' \in [Sessions -> Nat]
        /\ \A j \in Sessions : \A r \in rows'[j] : r.id \in 1 .. lastId'[j]
        /\ NewestRow'
        /\ \A j \in Sessions \ {k} : rows'[j] = rows[j]
        /\ CurrentHist(k)' = IF rows[k] = {} \/ i >= Latest(rows[k]).iter
                             THEN h ELSE CurrentHist(k)
    BY <1>1, <2>2, SaveStep
  <2>4. CASE rows[k] = {}
    <3>1. CurrentHist(k) = << >> /\ CurrentHist(k)' = <<{c}>>
      BY <2>1, <2>3, <2>4 DEF CurrentHist
    <3>2. << >> = Suffix(<< >>, 0) /\ Len(<< >>) = 0
      BY SubSeqEmpty DEF Suffix
    <3>3. MayStartFrom(CurrentHist(k), << >>)
      BY <3>1, <3>2 DEF MayStartFrom
    <3>4. CurrentHist(k)' = Append(<< >>, {c})
      BY <3>1
    <3>5. snap[p].drop = Told(CurrentHist(k)) \ Told(<< >>)
      BY <2>1, <3>1
    <3> QED BY <2>3, <3>3, <3>4, <3>5
  <2>5. CASE rows[k] # {}
    BY <1>4, <2>1, <2>3, <2>5 DEF Blank
  <2> QED BY <2>4, <2>5
<1>5. CASE /\ rows[k] # {} /\ snap[p].iter = Latest(rows[k]).iter
           /\ \E g \in prepareHistory(CurrentHist(k)) :
                h = Append(g, {c}) /\ snap[p].drop = Told(CurrentHist(k)) \ Told(g)
  <2>1. PICK g \in prepareHistory(CurrentHist(k)) :
          h = Append(g, {c}) /\ snap[p].drop = Told(CurrentHist(k)) \ Told(g)
    BY <1>5
  <2>2. i >= Latest(rows[k]).iter
    BY <1>1, <1>2, <1>5
  <2>3. /\ rows' \in [Sessions -> SUBSET Rows]
        /\ lastId' \in [Sessions -> Nat]
        /\ \A j \in Sessions : \A r \in rows'[j] : r.id \in 1 .. lastId'[j]
        /\ NewestRow'
        /\ \A j \in Sessions \ {k} : rows'[j] = rows[j]
        /\ CurrentHist(k)' = h
    BY <1>1, <2>2, SaveStep
  <2>4. MayStartFrom(CurrentHist(k), g)
    BY <1>3, PreparedForm
  <2> QED BY <2>1, <2>3, <2>4
<1> QED BY <1>4, <1>5 DEF TurnWork

LEMMA PersistHolds ==
  ASSUME DispatchInv, NEW c \in Calls, persistResult(c)
  PROVE  DispatchInv'
<1> DEFINE p == turn(c)
           k == SessionOf[c]
<1>0. /\ p \in Goroutines /\ k \in Sessions /\ pc[p] = "save" /\ pc[p] \in Inside
      /\ p[1] = c /\ c \in Turns
      /\ \A d \in Calls : (turn(d) = p => d = c) /\ worker(d) # p
      /\ LocksUnchanged /\ BoundsUnchanged /\ UNCHANGED <<crashes, clears>>
      /\ UNCHANGED <<thread, tokens, compactedAt, published, cleared, snap, stateless>>
  BY Names DEF persistResult, Inside, BoundsUnchanged, Turns
<1>1. /\ pc \in [Goroutines -> Places] /\ snap \in [Goroutines -> Snapshots]
      /\ outcome \in [Calls -> {"none", "ok", "warned", "error"}]
      /\ stateless' \subseteq Calls
      /\ tokens' \in [Sessions -> Nat] /\ compactedAt' \in [Sessions -> BOOLEAN]
  BY <1>0 DEF DispatchInv, TypeOK, Places
<1>2. CASE /\ SaveSnapshot(k, NextIteration(snap[p].iter), snap[p].hist)
           /\ dropped' = dropped \union snap[p].drop
           /\ Return(c, "ok")
           /\ Goto(p, "budget")
  <2>1. /\ rows' \in [Sessions -> SUBSET Rows]
        /\ lastId' \in [Sessions -> Nat]
        /\ \A j \in Sessions : \A r \in rows'[j] : r.id \in 1 .. lastId'[j]
        /\ NewestRow'
        /\ \A j \in Sessions \ {k} : rows'[j] = rows[j]
    BY <1>0, <1>2, PersistEffect DEF DispatchInv
  <2>2. \/ \E g : /\ MayStartFrom(CurrentHist(k), g)
                  /\ CurrentHist(k)' = Append(g, {c})
                  /\ snap[p].drop = Told(CurrentHist(k)) \ Told(g)
        \/ clears[k] > 0
    BY <1>0, <1>2, PersistEffect DEF DispatchInv
  <2>3. /\ pc' = [pc EXCEPT ![p] = "budget"] /\ pc'[p] = "budget"
        /\ \A q \in Goroutines \ {p} : pc'[q] = pc[q] /\ snap'[q] = snap[q]
    BY <1>0, <1>1, <1>2 DEF Goto
  <2>4. TurnWork(c)'
    BY <2>3 DEF TurnWork
  <2>5. /\ LP!LockInv' /\ L!LockTypeOK' /\ Sections'
        /\ \A d \in Calls : TurnWork(d)' /\ WorkerWork(d)'
    BY <1>0, <2>1, <2>3, <2>4, WorkMove DEF Inside
  <2>6. outcome' \in [Calls -> {"none", "ok", "warned", "error"}]
        /\ \A d \in Calls \ {c} : outcome'[d] = outcome[d]
    BY <1>1, <1>2 DEF Return
  <2>7. TypeOK'
    <3>1. pc' \in [Goroutines -> Places]
      BY <1>1, <2>3 DEF Places
    <3>2. dropped' \subseteq Turns
      <4>1. snap[p].drop \in SUBSET Turns
        BY <1>0, <1>1 DEF Snapshots
      <4> QED BY <1>2, <4>1 DEF DispatchInv, TypeOK
    <3> QED BY <1>0, <2>1, <2>5, <2>6, <3>1, <3>2 DEF DispatchInv, TypeOK, Places
  <2>8. MetadataAfterSnapshot'
    BY <1>0 DEF DispatchInv, MetadataAfterSnapshot
  <2>9. AckedDurable'
    <3> SUFFICES ASSUME NEW d \in Calls, outcome'[d] = "ok", clears'[SessionOf[d]] = 0
                 PROVE  d \in Told(CurrentHist(SessionOf[d])') \union dropped'
      BY DEF AckedDurable
    <3>1. d = c \/ d \in Told(CurrentHist(SessionOf[d])) \union dropped
      BY <1>0, <2>6 DEF DispatchInv, AckedDurable
    <3>2. CASE SessionOf[d] # k
      <4>1. SessionOf[d] \in Sessions
        BY Names
      <4>2. CurrentHist(SessionOf[d])' = CurrentHist(SessionOf[d])
        BY <2>1, <3>2, <4>1 DEF CurrentHist
      <4> QED BY <1>2, <3>1, <3>2, <4>2
    <3>3. CASE SessionOf[d] = k
      <4>1. PICK g : /\ MayStartFrom(CurrentHist(k), g)
                     /\ CurrentHist(k)' = Append(g, {c})
                     /\ snap[p].drop = Told(CurrentHist(k)) \ Told(g)
        BY <1>0, <2>2, <3>3
      <4>2. g \in Hists
        BY <1>0, <4>1, NewestFacts, PreparedType DEF DispatchInv
      <4>3. Told(CurrentHist(k)') = Told(g) \union {c}
        BY <1>0, <4>1, <4>2, ToldAppend
      <4> QED BY <1>2, <3>1, <3>3, <4>1, <4>3
    <3> QED BY <3>2, <3>3
  <2> QED BY <2>1, <2>5, <2>7, <2>8, <2>9 DEF DispatchInv
<1>3. CASE /\ Return(c, "warned") /\ Goto(p, "exit") /\ UNCHANGED <<rows, lastId, dropped>>
  <2>1. TurnWork(c)'
    BY <1>0, <1>1, <1>3 DEF TurnWork, Goto
  <2> QED BY <1>0, <1>1, <1>3, <2>1, QuietWork DEF Return, ghostVars
<1> QED BY <1>2, <1>3 DEF persistResult

LEMMA UpdateTokens ==
  ASSUME TypeOK, NEW k \in Sessions, NEW n \in Nat, NEW b \in BOOLEAN,
         UpdateSessionTokens(k, n, b)
  PROVE  /\ tokens' \in [Sessions -> Nat] /\ compactedAt' \in [Sessions -> BOOLEAN]
         /\ \A j \in Sessions : compactedAt'[j] => compactedAt[j] \/ (j = k /\ b)
BY DEF TypeOK, UpdateSessionTokens

LEMMA BudgetHolds ==
  ASSUME DispatchInv, NEW c \in Calls, updateTokenBudget(c)
  PROVE  DispatchInv'
<1> DEFINE p == turn(c)
           k == SessionOf[c]
           n == Len(snap[p].hist)
<1>0. /\ p \in Goroutines /\ worker(c) \in Goroutines /\ p # worker(c)
      /\ k \in Sessions /\ pc[p] = "budget" /\ pc[p] \in Inside
      /\ p[1] = c
      /\ \A d \in Calls : (turn(d) = p => d = c) /\ worker(d) # p
      /\ LocksUnchanged /\ BoundsUnchanged /\ UNCHANGED <<crashes, clears>>
      /\ UNCHANGED <<thread, rows, lastId, ghostVars, snap, stateless, outcome>>
      /\ UNCHANGED <<dropped, published, cleared>>
  BY Names DEF updateTokenBudget, Inside, BoundsUnchanged, ghostVars
<1>1. /\ pc \in [Goroutines -> Places] /\ n \in Nat /\ compactedAt[k] \in BOOLEAN
      /\ stateless' \subseteq Calls
  BY <1>0 DEF DispatchInv, TypeOK, Places, Snapshots
<1>2. /\ tokens' \in [Sessions -> Nat] /\ compactedAt' \in [Sessions -> BOOLEAN]
      /\ \A j \in Sessions : compactedAt'[j] => compactedAt[j]
  <2>1. CASE UpdateSessionTokens(k, n, compactedAt[k])
    BY <1>0, <1>1, <2>1, UpdateTokens DEF DispatchInv
  <2>2. CASE UNCHANGED <<tokens, compactedAt>>
    BY <2>2 DEF DispatchInv, TypeOK
  <2> QED BY <2>1, <2>2 DEF updateTokenBudget
<1>3. CASE Goto(p, "exit")
  <2>1. TurnWork(c)'
    BY <1>0, <1>1, <1>3 DEF TurnWork, Goto
  <2> QED BY <1>0, <1>1, <1>2, <1>3, <2>1, QuietWork
<1>4. CASE pc' = [pc EXCEPT ![p] = "exit", ![worker(c)] = "spawned"]
  <2>1. /\ pc' \in [Goroutines -> Places] /\ pc'[p] = "exit" /\ pc'[worker(c)] = "spawned"
        /\ \A q \in Goroutines \ {p, worker(c)} : pc'[q] = pc[q]
    BY <1>0, <1>1, <1>4 DEF Places
  <2>2. LP!LockInv' /\ L!LockTypeOK' /\ lpc' = lpc
    <3>1. LP!LockInv'
      BY <1>0, LockIdle DEF DispatchInv
    <3> QED BY <1>0, <3>1 DEF LocksUnchanged, LP!LockInv, LP!LockTypeOK, L!LockTypeOK,
                              LP!LockPcs, L!LockPcs
  <2>3. Sections'
    <3>1. \A q \in Goroutines : pc'[q] \in Inside => lpc'[q] = "locked"
      BY <2>1, <2>2 DEF DispatchInv, Sections, Inside
    <3>2. \A d \in Calls : lpc'[turn(d)] \in {"waiting", "taken"} => pc'[turn(d)] = "locking"
      <4> SUFFICES ASSUME NEW d \in Calls, lpc[turn(d)] \in {"waiting", "taken"}
                   PROVE  pc'[turn(d)] = "locking"
        BY <2>2
      <4>1. pc[turn(d)] = "locking"
        BY DEF DispatchInv, Sections
      <4>2. turn(d) \in Goroutines \ {p, worker(c)}
        BY <1>0, <4>1, Names
      <4> QED BY <2>1, <4>1, <4>2
    <3> QED BY <3>1, <3>2 DEF Sections
  <2>4. TypeOK'
    BY <1>0, <1>1, <1>2, <2>1, <2>2 DEF DispatchInv, TypeOK, Places
  <2>5. NewestRow'
    BY <1>0 DEF DispatchInv, NewestRow
  <2>6. ASSUME NEW d \in Calls PROVE TurnWork(d)'
    <3>1. CASE turn(d) = p
      BY <2>1, <3>1 DEF TurnWork
    <3>2. CASE turn(d) # p
      BY <1>0, <2>1, <3>2, Names, TurnStays DEF DispatchInv
    <3> QED BY <3>1, <3>2
  <2>7. ASSUME NEW d \in Calls PROVE WorkerWork(d)'
    <3>1. CASE worker(d) = worker(c)
      BY <2>1, <3>1 DEF WorkerWork
    <3>2. CASE worker(d) # worker(c)
      BY <1>0, <2>1, <3>2, Names, WorkerStays DEF DispatchInv
    <3> QED BY <3>1, <3>2
  <2>8. MetadataAfterSnapshot'
    BY <1>0, <1>2 DEF DispatchInv, MetadataAfterSnapshot
  <2>9. AckedDurable'
    BY <1>0, AckedStays DEF DispatchInv
  <2> QED BY <2>2, <2>3, <2>4, <2>5, <2>6, <2>7, <2>8, <2>9 DEF DispatchInv
<1> QED BY <1>3, <1>4 DEF updateTokenBudget

LEMMA LoadCompactionHolds ==
  ASSUME DispatchInv, NEW c \in Calls, loadCompactionSnapshot(c)
  PROVE  DispatchInv'
<1> DEFINE p == worker(c)
           k == SessionOf[c]
           r == Latest(rows[k])
           n == Len(r.hist)
<1>0. /\ p \in Goroutines /\ k \in Sessions /\ pc[p] = "load" /\ pc[p] \in Inside
      /\ \A d \in Calls : (worker(d) = p => d = c) /\ turn(d) # p
      /\ LocksUnchanged /\ BoundsUnchanged
      /\ UNCHANGED <<thread, rows, lastId, ghostVars, stateless, outcome>>
  BY Names DEF loadCompactionSnapshot, Inside
<1>1. /\ stateless' \subseteq Calls /\ DOMAIN pc = Goroutines /\ DOMAIN snap = Goroutines
      /\ tokens \in [Sessions -> Nat] /\ compactedAt \in [Sessions -> BOOLEAN]
  BY <1>0 DEF DispatchInv, TypeOK
<1>2. CASE Goto(p, "exit") /\ UNCHANGED <<tokens, compactedAt, snap>>
  <2>1. WorkerWork(c)'
    BY <1>0, <1>1, <1>2 DEF WorkerWork, Goto
  <2> QED BY <1>0, <1>1, <1>2, <2>1, QuietWork
<1>3. CASE /\ rows[k] # {} /\ UpdateSessionTokens(k, n, compactedAt[k])
           /\ \/ n > TokenBudget /\ n > SummaryTurns
                 /\ snap' = [snap EXCEPT ![p] =
                               [iter |-> r.iter, hist |-> r.hist, drop |-> {}]]
                 /\ Goto(p, "summarise")
              \/ Goto(p, "exit") /\ UNCHANGED snap
  <2>1. r \in Rows /\ n \in Nat /\ compactedAt[k] \in BOOLEAN
    BY <1>0, <1>1, <1>3, NewestFacts DEF DispatchInv, Rows
  <2>2. /\ tokens' \in [Sessions -> Nat] /\ compactedAt' \in [Sessions -> BOOLEAN]
        /\ \A j \in Sessions : compactedAt'[j] => compactedAt[j]
    BY <1>0, <1>3, <2>1, UpdateTokens DEF DispatchInv
  <2>3. CASE Goto(p, "exit") /\ UNCHANGED snap
    <3>1. WorkerWork(c)'
      BY <1>0, <1>1, <2>3 DEF WorkerWork, Goto
    <3> QED BY <1>0, <1>1, <2>2, <2>3, <3>1, QuietWork
  <2>4. CASE /\ n > SummaryTurns
             /\ snap' = [snap EXCEPT ![p] = [iter |-> r.iter, hist |-> r.hist, drop |-> {}]]
             /\ Goto(p, "summarise")
    <3> DEFINE s == [iter |-> r.iter, hist |-> r.hist, drop |-> {}]
    <3>1. s \in Snapshots /\ s.iter = r.iter /\ s.hist = r.hist
      BY <2>1 DEF Rows, Snapshots
    <3>2. snap' = [snap EXCEPT ![p] = s] /\ snap'[p] = s /\ pc'[p] = "summarise"
      BY <1>0, <1>1, <2>4 DEF Goto
    <3>3. /\ rows'[k] # {} /\ s.iter = Latest(rows'[k]).iter /\ s.hist = CurrentHist(k)'
          /\ Len(s.hist) > SummaryTurns
      BY <1>0, <1>3, <2>4, <3>1 DEF CurrentHist
    <3> HIDE DEF s
    <3>4. WorkerWork(c)'
      BY <3>2, <3>3 DEF WorkerWork, Current
    <3> QED BY <1>0, <1>1, <2>2, <2>4, <3>1, <3>2, <3>4, QuietWork DEF Inside
  <2> QED BY <1>3, <2>3, <2>4
<1> QED BY <1>2, <1>3 DEF loadCompactionSnapshot, HasSnapshot

LEMMA SummaryHolds ==
  ASSUME DispatchInv, NEW c \in Calls, buildCompactionSummary(c)
  PROVE  DispatchInv'
<1> DEFINE p == worker(c)
           k == SessionOf[c]
           h == snap[p].hist
           n == Len(h) - SummaryTurns
           g == <<Told(SubSeq(h, 1, n))>> \o LastN(h, SummaryTurns)
<1>0. /\ p \in Goroutines /\ k \in Sessions /\ pc[p] = "summarise" /\ pc[p] \in Inside
      /\ \A d \in Calls : (worker(d) = p => d = c) /\ turn(d) # p
      /\ LocksUnchanged /\ BoundsUnchanged
      /\ UNCHANGED <<storeVars, ghostVars, stateless, outcome>>
  BY Names DEF buildCompactionSummary, Inside
<1>1. /\ UNCHANGED <<thread, rows, lastId, tokens, compactedAt, clears>>
      /\ stateless' \subseteq Calls
      /\ tokens' \in [Sessions -> Nat] /\ compactedAt' \in [Sessions -> BOOLEAN]
  BY <1>0 DEF storeVars, BoundsUnchanged, DispatchInv, TypeOK
<1>2. DOMAIN pc = Goroutines /\ snap \in [Goroutines -> Snapshots]
  BY DEF DispatchInv, TypeOK
<1>3. CASE Goto(p, "exit") /\ UNCHANGED snap
  <2>1. WorkerWork(c)'
    BY <1>0, <1>2, <1>3 DEF WorkerWork, Goto
  <2> QED BY <1>0, <1>1, <1>3, <2>1, QuietWork
<1>4. CASE snap' = [snap EXCEPT ![p].hist = g] /\ Goto(p, "publish")
  <2>1. snap[p] \in Snapshots
    BY <1>0, <1>2
  <2>2. h \in Hists /\ Len(h) \in Nat
    BY <2>1 DEF Snapshots, Hists
  <2>3. Current(k, snap[p]) /\ Len(h) > SummaryTurns
    BY <1>0 DEF DispatchInv, WorkerWork
  <2>4. n \in 1 .. Len(h) /\ n \in 0 .. Len(h)
    BY <2>2, <2>3, BoundsAssumption
  <2>5. g = <<Told(SubSeq(h, 1, n))>> \o Suffix(h, n)
    BY <2>2, <2>3, BoundsAssumption DEF LastN
  <2> HIDE DEF n
  <2>6. g \in Hists
    BY <2>2, <2>4, <2>5, ToldSummary
  <2> HIDE DEF g
  <2> DEFINE q == [snap[p] EXCEPT !.hist = g]
  <2>7. q \in Snapshots /\ q.iter = snap[p].iter /\ q.hist = g
    BY <2>1, <2>6 DEF Snapshots, Hists
  <2>8. snap' = [snap EXCEPT ![p] = q] /\ snap'[p] = q /\ pc'[p] = "publish"
    BY <1>0, <1>2, <1>4 DEF Goto
  <2>9. h = CurrentHist(k) /\ rows[k] # {} /\ snap[p].iter = Latest(rows[k]).iter
    BY <2>3 DEF Current
  <2>10. /\ rows'[k] # {} /\ q.iter = Latest(rows'[k]).iter
         /\ \E m \in 1 .. Len(CurrentHist(k)') :
              q.hist = <<Told(SubSeq(CurrentHist(k)', 1, m))>> \o Suffix(CurrentHist(k)', m)
    <3>1. CurrentHist(k)' = CurrentHist(k)
      BY <1>1 DEF CurrentHist
    <3>2. \E m \in 1 .. Len(CurrentHist(k)) :
            g = <<Told(SubSeq(CurrentHist(k), 1, m))>> \o Suffix(CurrentHist(k), m)
      BY <2>4, <2>5, <2>9
    <3> HIDE DEF q
    <3> QED BY <1>1, <2>7, <2>9, <3>1, <3>2
  <2> HIDE DEF q
  <2>11. WorkerWork(c)'
    BY <2>8, <2>10 DEF WorkerWork
  <2> QED BY <1>0, <1>1, <1>4, <2>7, <2>8, <2>11, QuietWork DEF Inside
<1> QED BY <1>3, <1>4 DEF buildCompactionSummary

\* What a published compaction does to the session's history.
LEMMA PublishEffect ==
  ASSUME TypeOK, NewestRow, NEW c \in Calls, WorkerWork(c), pc[worker(c)] = "publish",
         SaveSnapshot(SessionOf[c], snap[worker(c)].iter, snap[worker(c)].hist),
         UNCHANGED <<thread, clears>>
  PROVE  LET k == SessionOf[c]
         IN /\ rows' \in [Sessions -> SUBSET Rows]
            /\ lastId' \in [Sessions -> Nat]
            /\ \A j \in Sessions : \A r \in rows'[j] : r.id \in 1 .. lastId'[j]
            /\ NewestRow'
            /\ \A j \in Sessions \ {k} : rows'[j] = rows[j]
            /\ CurrentHist(k) \in Hists
            /\ \E n \in 1 .. Len(CurrentHist(k)) :
                 CurrentHist(k)' = <<Told(SubSeq(CurrentHist(k), 1, n))>>
                                     \o Suffix(CurrentHist(k), n)
<1> DEFINE p == worker(c)
           k == SessionOf[c]
<1>1. p \in Goroutines /\ k \in Sessions
  BY Names
<1>2. snap[p] \in Snapshots
  BY <1>1 DEF TypeOK
<1>3. snap[p].iter \in Nat /\ snap[p].hist \in Hists
  BY <1>2 DEF Snapshots, Hists
<1>4. /\ rows[k] # {} /\ snap[p].iter = Latest(rows[k]).iter
      /\ \E n \in 1 .. Len(CurrentHist(k)) :
           snap[p].hist = <<Told(SubSeq(CurrentHist(k), 1, n))>> \o Suffix(CurrentHist(k), n)
  BY DEF WorkerWork
<1>5. snap[p].iter >= Latest(rows[k]).iter
  BY <1>3, <1>4
<1>6. CurrentHist(k) \in Hists
  BY <1>1, NewestFacts
<1> QED BY <1>1, <1>3, <1>4, <1>5, <1>6, SaveStep

LEMMA PublishHolds ==
  ASSUME DispatchInv, NEW c \in Calls, publishCompaction(c)
  PROVE  DispatchInv'
<1> DEFINE p == worker(c)
           k == SessionOf[c]
<1>0. /\ p \in Goroutines /\ k \in Sessions /\ pc[p] = "publish" /\ pc[p] \in Inside
      /\ p[1] = c
      /\ \A d \in Calls : (worker(d) = p => d = c) /\ turn(d) # p
      /\ LocksUnchanged /\ BoundsUnchanged /\ UNCHANGED <<crashes, clears>>
      /\ UNCHANGED <<thread, tokens, compactedAt, snap, stateless, outcome, dropped, cleared>>
  BY Names DEF publishCompaction, Inside, BoundsUnchanged
<1>1. /\ pc \in [Goroutines -> Places] /\ stateless' \subseteq Calls
      /\ tokens' \in [Sessions -> Nat] /\ compactedAt' \in [Sessions -> BOOLEAN]
  BY <1>0 DEF DispatchInv, TypeOK, Places
<1>2. CASE /\ SaveSnapshot(k, snap[p].iter, snap[p].hist)
           /\ published' = published \union {k}
           /\ Goto(p, "meta")
  <2>1. /\ rows' \in [Sessions -> SUBSET Rows]
        /\ lastId' \in [Sessions -> Nat]
        /\ \A j \in Sessions : \A r \in rows'[j] : r.id \in 1 .. lastId'[j]
        /\ NewestRow'
        /\ \A j \in Sessions \ {k} : rows'[j] = rows[j]
        /\ CurrentHist(k) \in Hists
    BY <1>0, <1>2, PublishEffect DEF DispatchInv
  <2>2. PICK n \in 1 .. Len(CurrentHist(k)) :
          CurrentHist(k)' = <<Told(SubSeq(CurrentHist(k), 1, n))>> \o Suffix(CurrentHist(k), n)
    BY <1>0, <1>2, PublishEffect DEF DispatchInv
  <2>3. /\ pc' = [pc EXCEPT ![p] = "meta"] /\ pc'[p] = "meta"
        /\ \A q \in Goroutines \ {p} : pc'[q] = pc[q] /\ snap'[q] = snap[q]
    BY <1>0, <1>1, <1>2 DEF Goto
  <2>4. WorkerWork(c)'
    BY <1>2, <2>3 DEF WorkerWork
  <2>5. /\ LP!LockInv' /\ L!LockTypeOK' /\ Sections'
        /\ \A d \in Calls : TurnWork(d)' /\ WorkerWork(d)'
    BY <1>0, <1>2, <2>1, <2>3, <2>4, WorkMove DEF Inside
  <2>6. TypeOK'
    <3>1. pc' \in [Goroutines -> Places]
      BY <1>1, <2>3 DEF Places
    <3>2. published' \subseteq Sessions
      BY <1>0, <1>2 DEF DispatchInv, TypeOK
    <3> QED BY <1>0, <2>1, <2>5, <3>1, <3>2 DEF DispatchInv, TypeOK, Places
  <2>7. MetadataAfterSnapshot'
    BY <1>0, <1>2 DEF DispatchInv, MetadataAfterSnapshot
  <2>8. AckedDurable'
    <3> SUFFICES ASSUME NEW d \in Calls, outcome'[d] = "ok", clears'[SessionOf[d]] = 0
                 PROVE  d \in Told(CurrentHist(SessionOf[d])') \union dropped'
      BY DEF AckedDurable
    <3>1. d \in Told(CurrentHist(SessionOf[d])) \union dropped
      BY <1>0 DEF DispatchInv, AckedDurable
    <3>2. CASE SessionOf[d] # k
      <4>1. SessionOf[d] \in Sessions
        BY Names
      <4>2. CurrentHist(SessionOf[d])' = CurrentHist(SessionOf[d])
        BY <2>1, <3>2, <4>1 DEF CurrentHist
      <4> QED BY <1>0, <3>1, <4>2
    <3>3. CASE SessionOf[d] = k
      <4>1. n \in 0 .. Len(CurrentHist(k))
        BY <2>1 DEF Hists
      <4>2. Told(CurrentHist(k)') = Told(CurrentHist(k))
        BY <2>1, <2>2, <4>1, ToldSummary
      <4> QED BY <1>0, <3>1, <3>3, <4>2
    <3> QED BY <3>2, <3>3
  <2> QED BY <2>1, <2>5, <2>6, <2>7, <2>8 DEF DispatchInv
<1>3. CASE Goto(p, "exit") /\ UNCHANGED <<rows, lastId, published>>
  <2>1. WorkerWork(c)'
    BY <1>0, <1>1, <1>3 DEF WorkerWork, Goto
  <2> QED BY <1>0, <1>1, <1>3, <2>1, QuietWork DEF ghostVars
<1> QED BY <1>2, <1>3 DEF publishCompaction

LEMMA MetadataHolds ==
  ASSUME DispatchInv, NEW c \in Calls, publishMetadata(c)
  PROVE  DispatchInv'
<1> DEFINE p == worker(c)
           k == SessionOf[c]
           n == Len(snap[p].hist)
<1>0. /\ p \in Goroutines /\ k \in Sessions /\ pc[p] = "meta" /\ pc[p] \in Inside
      /\ \A d \in Calls : (worker(d) = p => d = c) /\ turn(d) # p
      /\ LocksUnchanged /\ BoundsUnchanged /\ Goto(p, "exit")
      /\ UNCHANGED <<thread, rows, lastId, ghostVars, snap, stateless, outcome>>
  BY Names DEF publishMetadata, Inside
<1>1. /\ pc \in [Goroutines -> Places] /\ n \in Nat /\ stateless' \subseteq Calls
      /\ k \in published
  BY <1>0 DEF DispatchInv, TypeOK, Places, Snapshots, WorkerWork
<1>2. /\ tokens' \in [Sessions -> Nat] /\ compactedAt' \in [Sessions -> BOOLEAN]
      /\ \A j \in Sessions : compactedAt'[j] => compactedAt[j] \/ j \in published
  <2>1. CASE UpdateSessionTokens(k, n, TRUE)
    BY <1>0, <1>1, <2>1, UpdateTokens DEF DispatchInv
  <2>2. CASE UNCHANGED <<tokens, compactedAt>>
    BY <2>2 DEF DispatchInv, TypeOK
  <2> QED BY <2>1, <2>2 DEF publishMetadata
<1>3. WorkerWork(c)'
  BY <1>0, <1>1 DEF WorkerWork, Goto
<1> QED BY <1>0, <1>1, <1>2, <1>3, QuietWork
-----------------------------------------------------------------------------
LEMMA NextHolds == DispatchInv /\ [Next]_vars => DispatchInv'
<1> SUFFICES ASSUME DispatchInv, [Next]_vars PROVE DispatchInv'
  OBVIOUS
<1>1. CASE Next
  <2>1. ASSUME NEW c \in Calls, Begin(c) \/ TurnStep(c) \/ WorkerStep(c) PROVE DispatchInv'
    BY <2>1, BeginHolds, LoadHolds, CreateHolds, RunHolds, PersistHolds, BudgetHolds,
       LoadCompactionHolds, SummaryHolds, PublishHolds, MetadataHolds
       DEF TurnStep, WorkerStep
  <2>2. ASSUME NEW p \in Goroutines, Lock(p) \/ LockFailed(p) \/ Leave(p) PROVE DispatchInv'
    BY <2>2, LockHolds, LockFailedHolds, LeaveHolds
  <2> QED BY <1>1, <2>1, <2>2, CompleteHolds, CrashHolds DEF Next
<1>2. CASE UNCHANGED vars
  <2>1. /\ UNCHANGED <<thread, rows, lastId, tokens, compactedAt, pc, snap, stateless, outcome,
                       dropped, published, cleared, crashes, clears>>
        /\ LocksUnchanged
    BY <1>2 DEF vars, storeVars, callVars, ghostVars, LocksUnchanged
  <2>2. LP!LockInv'
    BY <2>1, LockIdle DEF DispatchInv
  <2>3. TypeOK' /\ Sections' /\ NewestRow'
    BY <2>1 DEF DispatchInv, TypeOK, L!LockTypeOK, Sections, NewestRow, LocksUnchanged
  <2>4. \A c \in Calls : TurnWork(c)' /\ WorkerWork(c)'
    BY <2>1, TurnStays, WorkerStays DEF DispatchInv
  <2>5. MetadataAfterSnapshot' /\ AckedDurable'
    BY <2>1, AckedStays DEF DispatchInv, MetadataAfterSnapshot
  <2> QED BY <2>2, <2>3, <2>4, <2>5 DEF DispatchInv
<1> QED BY <1>1, <1>2

(***************************************************************************)
(* The invariant holds in every reachable state: whoever is inside Dispatch*)
(* or the compaction worker holds the session lock and works on the        *)
(* snapshot the store would load now, whatever failed or crashed before.   *)
(***************************************************************************)
THEOREM DispatchInvariant == Spec => []DispatchInv
BY InitHolds, NextHolds, PTL DEF Spec

(***************************************************************************)
(* A turn Dispatch answered without a warning stays in the session's       *)
(* history unless it was pruned on purpose or the operator cleared the     *)
(* session, for any number of concurrent calls, workers and crashes.       *)
(***************************************************************************)
THEOREM DispatchAckedDurable == Spec => []AckedDurable
<1>1. DispatchInv => AckedDurable
  BY DEF DispatchInv
<1> QED BY <1>1, DispatchInvariant, PTL

(***************************************************************************)
(* LoadLatest returns the row SaveSnapshot inserted last, also when        *)
(* compaction reuses an iteration, and pruning never deletes that row.     *)
(***************************************************************************)
THEOREM DispatchLatestIsNewest == Spec => []LatestIsNewest
<1>1. DispatchInv => LatestIsNewest
  BY NewestFacts DEF DispatchInv, LatestIsNewest, NewestRow
<1> QED BY <1>1, DispatchInvariant, PTL

(***************************************************************************)
(* publishCompaction sets last_compacted_at only once the compacted        *)
(* snapshot is durable, whatever fails or crashes in between.              *)
(***************************************************************************)
THEOREM DispatchMetadataAfterSnapshot == Spec => []MetadataAfterSnapshot
<1>1. DispatchInv => MetadataAfterSnapshot
  BY DEF DispatchInv
<1> QED BY <1>1, DispatchInvariant, PTL
-----------------------------------------------------------------------------
(***************************************************************************)
(* The refinement of SessionHistory, step by step.                         *)
(***************************************************************************)
Histories == [k \in Sessions |-> CurrentHist(k)]

ClearedSessions == {k \in Sessions : clears[k] > 0}

LEMMA HistoryFrame ==
  ASSUME UNCHANGED <<rows, dropped, clears>>
  PROVE  UNCHANGED History!historyVars
BY DEF History!historyVars, CurrentHist

LEMMA PreparedMeans ==
  ASSUME NEW h, NEW g, MayStartFrom(h, g)
  PROVE  g \in History!Prepared(h)
<1>1. \A s : History!Told(s) = Told(s)
  BY DEF History!Told, History!ToSet, Told, ToSet
<1>2. \A s, n : History!Suffix(s, n) = Suffix(s, n)
  BY DEF History!Suffix, Suffix
<1>3. CASE \E n \in 0 .. Len(h) : g = Suffix(h, n)
  <2>1. g \in {History!Suffix(h, n) : n \in 0 .. Len(h)}
    BY <1>2, <1>3
  <2> QED BY <2>1 DEF History!Prepared
<1>4. ASSUME NEW m \in 0 .. Len(h), NEW n \in 0 .. Len(h),
             g = <<Told(SubSeq(h, m + 1, n))>> \o Suffix(h, n)
      PROVE  g \in History!Prepared(h)
  <2>1. g = <<History!Told(SubSeq(h, m + 1, n))>> \o History!Suffix(h, n)
    BY <1>1, <1>2, <1>4
  <2> QED BY SMTT(30), <2>1 DEF History!Prepared
<1> QED BY <1>3, <1>4 DEF MayStartFrom

LEMMA PersistRefines ==
  ASSUME DispatchInv, NEW c \in Calls, persistResult(c)
  PROVE  [History!HistoryNext]_(History!historyVars)
<1> DEFINE p == turn(c)
           k == SessionOf[c]
<1>0. /\ k \in Sessions /\ pc[p] = "save" /\ c \in Turns
      /\ UNCHANGED <<thread, clears>>
  BY Names DEF persistResult, BoundsUnchanged, Turns
<1>1. CASE /\ SaveSnapshot(k, NextIteration(snap[p].iter), snap[p].hist)
           /\ dropped' = dropped \union snap[p].drop
  <2>1. /\ \A j \in Sessions \ {k} : rows'[j] = rows[j]
        /\ \/ \E g : /\ MayStartFrom(CurrentHist(k), g)
                     /\ CurrentHist(k)' = Append(g, {c})
                     /\ snap[p].drop = Told(CurrentHist(k)) \ Told(g)
           \/ clears[k] > 0 /\ CurrentHist(k)' = <<{c}>> /\ snap[p].drop = {}
           \/ clears[k] > 0 /\ CurrentHist(k)' = CurrentHist(k) /\ snap[p].drop = {}
    BY <1>0, <1>1, PersistEffect DEF DispatchInv
  <2>2. \A j \in Sessions \ {k} : CurrentHist(j)' = CurrentHist(j)
    BY <2>1 DEF CurrentHist
  <2>3. \A h : CurrentHist(k)' = h => Histories' = [Histories EXCEPT ![k] = h]
    BY <1>0, <2>2 DEF Histories
  <2>4. Histories[k] = CurrentHist(k) /\ ClearedSessions' = ClearedSessions
    BY <1>0 DEF Histories, ClearedSessions
  <2>5. ASSUME NEW g, MayStartFrom(CurrentHist(k), g), CurrentHist(k)' = Append(g, {c}),
               snap[p].drop = Told(CurrentHist(k)) \ Told(g)
        PROVE  History!HistoryNext
    <3>1. g \in History!Prepared(Histories[k])
      BY <2>4, <2>5, PreparedMeans
    <3>2. Histories' = [Histories EXCEPT ![k] = Append(g, {c})]
      BY <2>3, <2>5
    <3>3. dropped' = dropped \union (History!Told(Histories[k]) \ History!Told(g))
      BY <1>1, <2>4, <2>5 DEF Told, ToSet, History!Told, History!ToSet
    <3>4. History!AppendTurn(k, c)
      BY <2>4, <3>1, <3>2, <3>3 DEF History!AppendTurn, Histories, ClearedSessions
    <3> QED BY <1>0, <3>4 DEF History!HistoryNext
  <2>6. ASSUME clears[k] > 0, CurrentHist(k)' = <<{c}>>, snap[p].drop = {}
        PROVE  History!HistoryNext
    <3>1. Histories' = [Histories EXCEPT ![k] = <<{c}>>] /\ dropped' = dropped
      BY <1>1, <2>3, <2>6
    <3>2. k \in ClearedSessions
      BY <1>0, <2>6 DEF ClearedSessions
    <3>3. History!Restart(k, c)
      BY <2>4, <3>1, <3>2 DEF History!Restart, Histories, ClearedSessions
    <3> QED BY <1>0, <3>3 DEF History!HistoryNext
  <2>7. ASSUME CurrentHist(k)' = CurrentHist(k), snap[p].drop = {}
        PROVE  UNCHANGED History!historyVars
    <3>1. Histories' = Histories
      BY <2>2, <2>7 DEF Histories
    <3> QED BY <1>1, <2>4, <2>7, <3>1 DEF History!historyVars, Histories, ClearedSessions
  <2> QED BY <2>1, <2>5, <2>6, <2>7
<1>2. CASE UNCHANGED <<rows, lastId, dropped>>
  BY <1>0, <1>2, HistoryFrame
<1> QED BY <1>1, <1>2 DEF persistResult

LEMMA PublishRefines ==
  ASSUME DispatchInv, NEW c \in Calls, publishCompaction(c)
  PROVE  [History!HistoryNext]_(History!historyVars)
<1> DEFINE p == worker(c)
           k == SessionOf[c]
<1>0. /\ k \in Sessions /\ pc[p] = "publish"
      /\ UNCHANGED <<thread, clears, dropped>>
  BY Names DEF publishCompaction, BoundsUnchanged
<1>1. CASE SaveSnapshot(k, snap[p].iter, snap[p].hist)
  <2>1. /\ \A j \in Sessions \ {k} : rows'[j] = rows[j]
        /\ \E n \in 1 .. Len(CurrentHist(k)) :
             CurrentHist(k)' = <<Told(SubSeq(CurrentHist(k), 1, n))>> \o Suffix(CurrentHist(k), n)
    BY <1>0, <1>1, PublishEffect DEF DispatchInv
  <2>2. \A j \in Sessions \ {k} : CurrentHist(j)' = CurrentHist(j)
    BY <2>1 DEF CurrentHist
  <2>3. \A h : CurrentHist(k)' = h => Histories' = [Histories EXCEPT ![k] = h]
    BY <1>0, <2>2 DEF Histories
  <2>4. Histories[k] = CurrentHist(k) /\ ClearedSessions' = ClearedSessions
    BY <1>0 DEF Histories, ClearedSessions
  <2>5. PICK n \in 1 .. Len(Histories[k]) :
          CurrentHist(k)' = <<Told(SubSeq(Histories[k], 1, n))>> \o Suffix(Histories[k], n)
    BY <2>1, <2>4
  <2>6. Histories' = [Histories EXCEPT ![k] = <<History!Told(SubSeq(Histories[k], 1, n))>>
                                                \o History!Suffix(Histories[k], n)]
    BY <2>3, <2>5 DEF Told, ToSet, Suffix, History!Told, History!ToSet, History!Suffix
  <2>7. History!Summarise(k)
    BY <1>0, <2>4, <2>6 DEF History!Summarise, Histories, ClearedSessions
  <2> QED BY <1>0, <2>7 DEF History!HistoryNext
<1>2. CASE UNCHANGED <<rows, lastId, published>>
  BY <1>0, <1>2, HistoryFrame
<1> QED BY <1>1, <1>2 DEF publishCompaction

LEMMA ClearRefines ==
  ASSUME DispatchInv, NEW k \in Sessions, CompleteThread(k)
  PROVE  History!HistoryNext
<1>1. Histories' = Histories /\ dropped' = dropped
  BY DEF CompleteThread, Histories, CurrentHist
<1>2. clears \in [Sessions -> Nat] /\ clears' = [clears EXCEPT ![k] = @ + 1]
  BY BoundsAssumption DEF CompleteThread, DispatchInv, TypeOK
<1>3. ClearedSessions' = ClearedSessions \union {k}
  BY <1>2 DEF ClearedSessions
<1>4. History!Clear(k)
  BY <1>1, <1>3 DEF History!Clear, Histories, ClearedSessions
<1> QED BY <1>4 DEF History!HistoryNext

LEMMA StepRefines ==
  DispatchInv /\ [Next]_vars => [History!HistoryNext]_(History!historyVars)
<1> SUFFICES ASSUME DispatchInv, [Next]_vars
             PROVE  [History!HistoryNext]_(History!historyVars)
  OBVIOUS
<1>1. ASSUME NEW c \in Calls, Begin(c) \/ TurnStep(c) \/ WorkerStep(c)
      PROVE  [History!HistoryNext]_(History!historyVars)
  <2>1. CASE persistResult(c)
    BY <2>1, PersistRefines
  <2>2. CASE publishCompaction(c)
    BY <2>2, PublishRefines
  <2>3. CASE Begin(c) \/ BeginCompaction(c)
    BY <2>3, HistoryFrame
       DEF Begin, BeginCompaction, LockingOnly, storeVars, ghostVars, BoundsUnchanged
  <2>4. CASE loadHistory(c) \/ createThread(c) \/ runTurn(c)
    BY <2>4, HistoryFrame
       DEF loadHistory, createThread, runTurn, storeVars, ghostVars, BoundsUnchanged
  <2>5. CASE updateTokenBudget(c) \/ loadCompactionSnapshot(c) \/ buildCompactionSummary(c)
               \/ publishMetadata(c)
    BY <2>5, HistoryFrame
       DEF updateTokenBudget, loadCompactionSnapshot, buildCompactionSummary, publishMetadata,
           storeVars, ghostVars, BoundsUnchanged
  <2> QED BY <1>1, <2>1, <2>2, <2>3, <2>4, <2>5 DEF TurnStep, WorkerStep
<1>2. ASSUME NEW p \in Goroutines, Lock(p) \/ LockFailed(p) \/ Leave(p)
      PROVE  UNCHANGED History!historyVars
  BY <1>2, HistoryFrame
     DEF Lock, LockFailed, Leave, Unlock, Depart, LockingOnly, storeVars, ghostVars,
         BoundsUnchanged
<1>3. ASSUME Crash \/ UNCHANGED vars PROVE UNCHANGED History!historyVars
  BY <1>3, HistoryFrame DEF Crash, vars, storeVars, ghostVars
<1> QED BY <1>1, <1>2, <1>3, ClearRefines DEF Next

LEMMA InitRefines == Init => History!HistoryInit
<1> SUFFICES ASSUME Init PROVE History!HistoryInit
  OBVIOUS
<1>1. DispatchInv
  BY InitHolds
<1>2. Histories \in [Sessions -> Seq(SUBSET Turns)]
  BY <1>1, NewestFacts DEF DispatchInv, Histories, Hists
<1>3. ClearedSessions = {} /\ dropped = {}
  BY DEF Init, ClearedSessions
<1> QED BY <1>2, <1>3 DEF History!HistoryInit, Histories, ClearedSessions

(***************************************************************************)
(* The checkpoint store under Dispatch implements SessionHistory: every    *)
(* save appends its turn to the history as it is at that moment or         *)
(* summarises a prefix of it, and no step of another call, a worker, a     *)
(* failure or a crash changes a history in any other way.                  *)
(***************************************************************************)
THEOREM DispatchNoLostUpdate == Spec => NoLostUpdate
<1>1. Spec => []DispatchInv
  BY DispatchInvariant
<1> QED
  BY <1>1, InitRefines, StepRefines, PTL DEF Spec, NoLostUpdate, History!HistorySpec
=============================================================================

-------------------------- MODULE HeaderSyncProofs --------------------------
(***************************************************************************)
(* Proofs about HeaderSync, and at the end about LightSync, which works on *)
(* the same chain store.  One fact carries all of them: whatever           *)
(* answers were mixed with whatever resumes, the kept headers lie on one   *)
(* branch of the tree, each at its own height, and so do the header the    *)
(* locator names and the one in the file.                                  *)
(***************************************************************************)
EXTENDS HeaderSync, LightSync, SequenceTheorems, WellFoundedInduction, TLAPS

IsRecord(c) == c = [at |-> c.at, height |-> c.height, tip |-> c.tip, work |-> c.work]

\* The kept heights have no gap.
Unbroken(c) ==
  \/ c.tip = -1 /\ Kept(c) = {}
  \/ c.tip \in Nat /\ \E f \in 0..c.tip : Kept(c) = f..c.tip

\* Height n is the (n + 2)nd block of a branch: the genesis block is never kept.
Lies(c, b) == \A n \in Kept(c) : n + 2 \in DOMAIN b /\ b[n + 2] = c.at[n]

OnBranch(c) == \E b \in Branches : Lies(c, b)

\* The two maps of the store are each other's inverse.
Inverses(c) ==
  /\ \A n \in Kept(c) : c.at[n] \in DOMAIN c.height /\ c.height[c.at[n]] = n
  /\ \A h \in DOMAIN c.height : c.height[h] \in Kept(c) /\ c.at[c.height[h]] = h

Line(c) ==
  /\ IsRecord(c) /\ IsChain(c)
  /\ Unbroken(c) /\ OnBranch(c) /\ Inverses(c) /\ Validated(c)

LocatorOf(c) == IF c.tip = -1 THEN NoHeader ELSE c.at[c.tip]

LocatorIsTip == locator = LocatorOf(chain)

\* While a sync runs, the tip it was resumed from is still in its chain.
ResumedFrom ==
  phase # "idle" /\ file # NoFile =>
    file.height \in Kept(chain) /\ chain.at[file.height] = file.hdr

FileStands ==
  /\ file # NoFile => StandsAt(file.hdr, file.height + 1)
  /\ file.height > CpHeight => file.hdr \in Good

IInv ==
  /\ TypeOK
  /\ phase = "read" => attempt < MaxAttempts
  /\ Line(chain) /\ Line(gchain)
  /\ LocatorIsTip /\ ResumedFrom /\ FileStands

----------------------------------------------------------------------------
(* Induction and the recursion over the headers of an answer.              *)

\* Induction over the natural numbers, for a set.
LEMMA NatSetInduction ==
  ASSUME NEW S, 0 \in S, \A n \in Nat : n \in S => n + 1 \in S
  PROVE  Nat \subseteq S
<1> DEFINE T == {n \in Nat : n \notin S}
<1>1. SUFFICES ASSUME T # {} PROVE FALSE
  OBVIOUS
<1>2. PICK x \in T : \A y \in T : ~(<<y, x>> \in OpToRel(<, Nat))
  BY <1>1, WFMin, NatLessThanWellFounded
<1>3. x # 0 /\ x - 1 \in Nat
  OBVIOUS
<1>4. <<x - 1, x>> \in OpToRel(<, Nat)
  BY <1>3 DEF OpToRel
<1>5. x - 1 \in S
  BY <1>2, <1>3, <1>4
<1>6. QED
  BY <1>3, <1>5

\* The recursive function in AcceptAll exists: AcceptAll is what is left after
\* the last of the steps.
LEMMA AcceptAllSteps ==
  ASSUME NEW c, NEW hs \in Seq(Header)
  PROVE  \E after :
           /\ after[0] = [chain |-> c, ok |-> TRUE]
           /\ \A i \in 1..Len(hs) : after[i] = Accept(after[i - 1], hs[i])
           /\ \A k \in 0..Len(hs) : AcceptAll(c, hs, k) = after[k]
<1> DEFINE start == [chain |-> c, ok |-> TRUE]
           Def(f, n) == f = [i \in 0..n |-> IF i = 0 THEN start ELSE Accept(f[i - 1], hs[i])]
           S == {n \in Nat : \E f : Def(f, n)}
<1> HIDE DEF start
<1>1. 0 \in S
  <2>1. Def([i \in 0..0 |-> start], 0)
    OBVIOUS
  <2>2. QED
    BY <2>1
<1>2. ASSUME NEW n \in Nat, n \in S
      PROVE  n + 1 \in S
  <2>1. PICK f : Def(f, n)
    BY <1>2
  <2> DEFINE g == [i \in 0..n + 1 |-> IF i = n + 1 THEN Accept(f[n], hs[n + 1]) ELSE f[i]]
  <2>2. Def(g, n + 1)
    <3>1. ASSUME NEW i \in 0..n + 1
          PROVE  g[i] = IF i = 0 THEN start ELSE Accept(g[i - 1], hs[i])
      <4>1. CASE i = n + 1
        BY <4>1
      <4>2. CASE i \in 0..n
        <5>1. f[i] = IF i = 0 THEN start ELSE Accept(f[i - 1], hs[i])
          BY <2>1, <4>2
        <5>2. i # 0 => g[i - 1] = f[i - 1]
          BY <4>2
        <5>3. QED
          BY <5>1, <5>2, <4>2
      <4>3. QED
        BY <4>1, <4>2
    <3>2. QED
      BY <3>1
  <2> HIDE DEF Def, g
  <2>3. QED
    BY <2>2
<1>3. Len(hs) \in S
  <2> HIDE DEF S
  <2>1. Nat \subseteq S
    BY <1>1, <1>2, NatSetInduction
  <2>2. QED
    BY <2>1, LenProperties
<1> DEFINE after == CHOOSE f : Def(f, Len(hs))
<1>4. Def(after, Len(hs))
  BY <1>3
<1>5. ASSUME NEW k \in 0..Len(hs) PROVE AcceptAll(c, hs, k) = after[k]
  BY DEF AcceptAll, start
<1> HIDE DEF after
<1>6. after[0] = start /\ \A i \in 1..Len(hs) : after[i] = Accept(after[i - 1], hs[i])
  BY <1>4, LenProperties
<1>7. QED
  BY <1>5, <1>6 DEF start

----------------------------------------------------------------------------
(* The tree.                                                               *)

\* A block stands at one place: branches that share it share all before it.
LEMMA SameDepth ==
  ASSUME NEW b \in Branches, NEW c \in Branches, NEW i \in DOMAIN b, NEW j \in DOMAIN c,
         b[i] = c[j]
  PROVE  i = j /\ \A k \in 1..i : b[k] = c[k]
<1>0. b \in Seq(Header) /\ c \in Seq(Header) /\ IsInjective(b) /\ IsInjective(c) /\ b[1] = c[1]
  BY TreeAssumption
<1>1. DOMAIN b = 1..Len(b) /\ Len(b) \in Nat /\ DOMAIN c = 1..Len(c) /\ Len(c) \in Nat
  BY <1>0
<1> DEFINE S == {d \in Nat : d < i /\ d < j => b[i - d] = c[j - d]}
<1>2. Nat \subseteq S
  <2>1. 0 \in S
    BY <1>1
  <2>2. ASSUME NEW d \in Nat, d \in S
        PROVE  d + 1 \in S
    <3>1. SUFFICES ASSUME d + 1 < i, d + 1 < j
                   PROVE  b[i - (d + 1)] = c[j - (d + 1)]
      OBVIOUS
    <3>2. b[i - d] = c[j - d]
      BY <2>2, <3>1, <1>1
    <3> DEFINE p == i - d
               q == j - d
    <3>3. p \in DOMAIN b /\ p > 1 /\ q \in DOMAIN c /\ q > 1
      BY <3>1, <1>1
    <3>4. p - 1 = i - (d + 1) /\ q - 1 = j - (d + 1)
      BY <1>1
    <3>5. b[p] = c[q]
      BY <3>2
    <3> HIDE DEF p, q
    <3>6. Prev[b[p]] = b[p - 1] /\ Prev[c[q]] = c[q - 1]
      BY <3>3, TreeAssumption
    <3>7. QED
      BY <3>4, <3>5, <3>6
  <2> HIDE DEF S
  <2>3. QED
    BY <2>1, <2>2, NatSetInduction
<1>3. i = j
  <2>1. CASE i <= j
    <3>1. b[i - (i - 1)] = c[j - (i - 1)]
      BY <1>1, <1>2, <2>1
    <3>2. c[1] = c[j - i + 1] /\ 1 \in DOMAIN c /\ j - i + 1 \in DOMAIN c
      BY <3>1, <1>0, <1>1, <2>1
    <3>3. 1 = j - i + 1
      BY <3>2, <1>0 DEF IsInjective
    <3>4. QED
      BY <3>3, <1>1
  <2>2. CASE j <= i
    <3>1. b[i - (j - 1)] = c[j - (j - 1)]
      BY <1>1, <1>2, <2>2
    <3>2. b[1] = b[i - j + 1] /\ 1 \in DOMAIN b /\ i - j + 1 \in DOMAIN b
      BY <3>1, <1>0, <1>1, <2>2
    <3>3. 1 = i - j + 1
      BY <3>2, <1>0 DEF IsInjective
    <3>4. QED
      BY <3>3, <1>1
  <2>3. QED
    BY <2>1, <2>2, <1>1
<1>4. ASSUME NEW k \in 1..i
      PROVE  b[k] = c[k]
  BY <1>1, <1>2, <1>3
<1>5. QED
  BY <1>3, <1>4

----------------------------------------------------------------------------
(* The store.                                                              *)

With(c, h, n) == AddWork(AddHeader(c, h, n), h)

\* What AddHeader and AddWork leave, field by field.
LEMMA WithFields ==
  ASSUME NEW c, NEW h, NEW n
  PROVE  /\ IsRecord(With(c, h, n))
         /\ Kept(With(c, h, n)) = Kept(c) \cup {n}
         /\ With(c, h, n).at[n] = h
         /\ \A k \in Kept(c) : k # n => With(c, h, n).at[k] = c.at[k]
         /\ DOMAIN With(c, h, n).height = DOMAIN c.height \cup {h}
         /\ With(c, h, n).height[h] = n
         /\ \A x \in DOMAIN c.height : x # h => With(c, h, n).height[x] = c.height[x]
         /\ With(c, h, n).tip = IF n > c.tip THEN n ELSE c.tip
         /\ With(c, h, n).work = c.work + Work[h]
<1> DEFINE a == Put(c.at, n, h)
           b == Put(c.height, h, n)
           t == IF n > c.tip THEN n ELSE c.tip
<1>1. AddHeader(c, h, n) = [at |-> a, height |-> b, tip |-> t, work |-> c.work]
  BY DEF AddHeader
<1>2. /\ DOMAIN a = Kept(c) \cup {n} /\ a[n] = h
      /\ \A k \in Kept(c) : k # n => a[k] = c.at[k]
  BY DEF Put, Kept
<1>3. /\ DOMAIN b = DOMAIN c.height \cup {h} /\ b[h] = n
      /\ \A x \in DOMAIN c.height : x # h => b[x] = c.height[x]
  BY DEF Put
<1>4. t = IF n > c.tip THEN n ELSE c.tip
  OBVIOUS
<1> HIDE DEF a, b, t
<1>5. With(c, h, n) = [at |-> a, height |-> b, tip |-> t, work |-> c.work + Work[h]]
  BY <1>1 DEF With, AddWork
<1>6. QED
  BY <1>2, <1>3, <1>4, <1>5 DEF IsRecord, Kept

Extends(c, d) == \A n \in Kept(c) : n \in Kept(d) /\ d.at[n] = c.at[n]

\* Heights of a line: none above the tip, and the tip among them.
LEMMA Heights ==
  ASSUME NEW c, Line(c)
  PROVE  /\ c.tip \in Int /\ c.tip + 1 \in Nat /\ c.tip + 1 \notin Kept(c)
         /\ \A n \in Kept(c) : n \in Nat /\ n <= c.tip
         /\ c.tip # -1 => c.tip \in Nat /\ c.tip \in Kept(c)
         /\ c.tip = -1 => Kept(c) = {}
BY DEF Line, IsChain, Unbroken

\* The median of a height depends on that height and those below it alone: a
\* header added above leaves it.
LEMMA MedianStays ==
  ASSUME NEW c, NEW d, NEW n \in Nat, NEW m \in Nat, m < n,
         Kept(c) \subseteq Nat, Kept(d) = Kept(c) \cup {n},
         \A k \in Kept(c) : d.at[k] = c.at[k],
         \A k \in Kept(c) : k < n
  PROVE  MedianTimePast(d, m) = MedianTimePast(c, m)
<1>1. Recent(d, m) = Recent(c, m)
  <2>1. ASSUME NEW k \in Nat, k <= m
        PROVE  k..m \subseteq Kept(d) <=> k..m \subseteq Kept(c)
    BY <2>1
  <2>2. \A k \in Kept(d) : k \in Nat /\ (k <= m => k \in Kept(c))
    OBVIOUS
  <2>3. \A k : k \in Recent(d, m) => k \in Recent(c, m)
    BY <2>1, <2>2 DEF Recent
  <2>4. \A k : k \in Recent(c, m) => k \in Recent(d, m)
    BY <2>1, <2>2 DEF Recent
  <2> QED
    BY <2>3, <2>4
<1>2. \A k \in Recent(c, m) : d.at[k] = c.at[k]
  BY DEF Recent
<1>3. [k \in Recent(d, m) |-> Time[d.at[k]]] = [k \in Recent(c, m) |-> Time[c.at[k]]]
  BY <1>1, <1>2
<1> QED
  BY <1>3 DEF MedianTimePast

\* The step of the proof: a header of any branch that passes ValidateHeader
\* above the tip continues the line, on that branch.
LEMMA LineGrows ==
  ASSUME NEW c, Line(c), NEW b \in Branches, NEW j \in DOMAIN b, j > 1,
         ValidateHeader(c, b[j], c.tip + 1),
         c.tip = -1 => j = 2
  PROVE  LET d == With(c, b[j], c.tip + 1)
         IN  Line(d) /\ Extends(c, d) /\ d.tip = c.tip + 1
<1> DEFINE h == b[j]
           n == c.tip + 1
           d == With(c, h, n)
<1>0. /\ b \in Seq(Header) /\ IsInjective(b) /\ h \in Header
      /\ DOMAIN b = 1..Len(b) /\ Len(b) \in Nat /\ j \in Nat
      /\ Prev[h] = b[j - 1]
  BY TreeAssumption, ElementOfSeq
<1>1. /\ n \in Nat /\ n \notin Kept(c) /\ c.tip \in Int
      /\ \A k \in Kept(c) : k \in Nat /\ k < n
  BY Heights
<1>2. Lies(c, b) /\ j = n + 2
  <2>1. CASE c.tip = -1
    BY <2>1, Heights DEF Lies
  <2>2. CASE c.tip # -1
    <3>1. c.tip \in Kept(c) /\ c.tip \in Nat
      BY <2>2, Heights
    <3>2. PICK o \in Branches : Lies(c, o)
      BY DEF Line, OnBranch
    <3>3. c.tip + 2 \in DOMAIN o /\ o[c.tip + 2] = c.at[c.tip]
      BY <3>1, <3>2 DEF Lies
    <3>4. Prev[h] = c.at[c.tip]
      BY <3>1 DEF ValidateHeader, Linked
    <3> DEFINE p == j - 1
               q == c.tip + 2
    <3>5. p \in DOMAIN b /\ q \in DOMAIN o /\ b[p] = o[q]
      BY <1>0, <3>3, <3>4
    <3> HIDE DEF p, q
    <3>6. j - 1 = c.tip + 2 /\ \A k \in 1..(j - 1) : b[k] = o[k]
      BY <3>5, SameDepth DEF p, q
    <3>7. \A k \in Kept(c) : k + 2 \in 1..(j - 1)
      BY <1>1, <3>6
    <3>8. QED
      BY <3>2, <3>6, <3>7, <1>0, <1>1 DEF Lies
  <2>3. QED
    BY <2>1, <2>2
<1>3. /\ IsRecord(d) /\ Kept(d) = Kept(c) \cup {n}
      /\ d.at[n] = h /\ \A k \in Kept(c) : d.at[k] = c.at[k]
      /\ DOMAIN d.height = DOMAIN c.height \cup {h}
      /\ d.height[h] = n /\ \A x \in DOMAIN c.height : x # h => d.height[x] = c.height[x]
      /\ d.tip = n /\ d.work = c.work + Work[h]
  BY <1>1, WithFields
<1> HIDE DEF n, d, h
<1>4. OnBranch(d)
  <2>1. Lies(d, b)
    BY <1>2, <1>3 DEF Lies, h
  <2>2. QED
    BY <2>1 DEF OnBranch
<1>5. \A k \in Kept(c) : c.at[k] # h
  <2>1. SUFFICES ASSUME NEW k \in Kept(c), c.at[k] = h PROVE FALSE
    OBVIOUS
  <2>2. k + 2 \in DOMAIN b /\ b[k + 2] = b[j]
    BY <2>1, <1>2 DEF Lies, h
  <2>3. k + 2 = j
    BY <2>2, <1>0 DEF IsInjective
  <2>4. QED
    BY <2>3, <1>1, <1>2
<1>6. Inverses(d)
  BY <1>3, <1>5, <1>1 DEF Inverses, Line
<1>7. Unbroken(d)
  <2>1. CASE c.tip = -1
    <3>1. Kept(d) = 0..0 /\ d.tip = 0
      BY <2>1, <1>3, Heights DEF n
    <3>2. QED
      BY <3>1 DEF Unbroken
  <2>2. CASE c.tip # -1
    <3>1. PICK f \in 0..c.tip : Kept(c) = f..c.tip
      BY <2>2 DEF Line, Unbroken
    <3>2. Kept(d) = f..n /\ f \in 0..n
      BY <3>1, <1>1, <1>3 DEF n
    <3>3. QED
      BY <3>2, <1>1, <1>3 DEF Unbroken
  <2>3. QED
    BY <2>1, <2>2
<1>8. IsChain(d)
  <2>1. Work[h] \in Nat
    BY <1>0, HeaderChainAssumption
  <2>2. QED
    BY <2>1, <1>0, <1>1, <1>3 DEF Line, IsChain
<1>9. Validated(d)
  <2>1. n > CpHeight => h \in Good /\ Time[h] > MedianTimePast(c, n - 1)
    BY <1>1, HeaderChainAssumption DEF ValidateHeader, Historical, n, h
  <2>2. ASSUME NEW k \in Kept(d), k > CpHeight, k - 1 \in Kept(d)
        PROVE  MedianTimePast(d, k - 1) = MedianTimePast(c, k - 1)
    <3>1. k \in Nat /\ k <= n
      BY <1>1, <1>3
    <3>2. k - 1 \in Nat /\ k - 1 < n
      BY <2>2, <3>1, <1>1, HeaderChainAssumption
    <3>3. Kept(c) \subseteq Nat
      BY <1>1
    <3> QED
      BY <1>1, <1>3, <3>2, <3>3, MedianStays
  <2>3. ASSUME NEW k \in Kept(d), k > CpHeight
        PROVE  /\ d.at[k] \in Good
               /\ k - 1 \in Kept(d) => Time[d.at[k]] > MedianTimePast(d, k - 1)
    <3>1. CASE k = n
      BY <2>1, <2>2, <2>3, <3>1, <1>3
    <3>2. CASE k # n
      <4>1. k \in Kept(c) /\ (k - 1 \in Kept(d) => k - 1 \in Kept(c))
        BY <1>1, <1>3, <3>2
      <4>2. d.at[k] = c.at[k]
        BY <4>1, <1>3
      <4> QED
        BY <2>2, <2>3, <4>1, <4>2 DEF Line, Validated
    <3> QED
      BY <3>1, <3>2
  <2> QED
    BY <2>3 DEF Validated
<1>10. Line(d) /\ Extends(c, d) /\ d.tip = n
  BY <1>3, <1>4, <1>6, <1>7, <1>8, <1>9 DEF Line, Extends
<1>11. QED
  BY <1>10 DEF n, d, h

----------------------------------------------------------------------------
(* An answer.                                                              *)

\* After(b, i) is a stretch of the branch.
LEMMA AfterIsStretch ==
  ASSUME NEW b \in Branches, NEW i \in DOMAIN b
  PROVE  /\ After(b, i) \in Seq(Header)
         /\ \A j \in 1..Len(After(b, i)) : i + j \in DOMAIN b /\ After(b, i)[j] = b[i + j]
<1> DEFINE m == Min({i + BatchMax, Len(b)})
<1>1. /\ b \in Seq(Header) /\ DOMAIN b = 1..Len(b) /\ Len(b) \in Nat
      /\ i \in Nat /\ i >= 1
  BY TreeAssumption
<1>2. m \in Int /\ m <= Len(b)
  <2>1. i + BatchMax \in Int /\ Len(b) \in Int
    BY <1>1, TreeAssumption
  <2>2. \A p, q \in Int : Min({p, q}) \in Int /\ Min({p, q}) <= q
    BY DEF Min
  <2>3. QED
    BY <2>1, <2>2
<1> HIDE DEF m
<1>3. \A k \in (i + 1)..m : b[k] \in Header
  BY <1>1, <1>2, ElementOfSeq
<1>4. After(b, i) = SubSeq(b, i + 1, m)
  BY DEF After, m
<1>5. /\ After(b, i) \in Seq(Header)
      /\ Len(After(b, i)) = IF i + 1 <= m THEN m - (i + 1) + 1 ELSE 0
      /\ \A j \in 1..(m - (i + 1) + 1) : After(b, i)[j] = b[i + 1 + j - 1]
  BY <1>1, <1>2, <1>3, <1>4, SubSeqProperties
<1>6. ASSUME NEW j \in 1..Len(After(b, i))
      PROVE  i + j \in DOMAIN b /\ After(b, i)[j] = b[i + j]
  <2>1. j \in Nat /\ i + 1 <= m
    BY <1>1, <1>2, <1>5
  <2>2. j <= m - (i + 1) + 1
    BY <1>5, <2>1
  <2>3. j \in 1..(m - (i + 1) + 1) /\ i + j \in 1..Len(b) /\ i + 1 + j - 1 = i + j
    BY <1>1, <1>2, <2>1, <2>2
  <2>4. QED
    BY <1>1, <1>5, <2>3
<1>7. QED
  BY <1>5, <1>6

\* An answer is a stretch of the node's branch above the genesis block, and
\* starts right above it for a locator that is no header.
LEMMA AnswerIsStretch ==
  ASSUME NEW loc, NEW b \in Branches, NEW hs \in Answers(loc, b)
  PROVE  /\ hs \in Seq(Header)
         /\ \E i \in DOMAIN b :
              /\ \A j \in 1..Len(hs) : i + j \in DOMAIN b /\ hs[j] = b[i + j]
              /\ loc \notin Header => i = 1
<1>1. b \in Seq(Header) /\ DOMAIN b = 1..Len(b) /\ Len(b) \in Nat /\ 1 \in DOMAIN b
  BY TreeAssumption, EmptySeq
<1>2. ASSUME NEW i \in DOMAIN b
      PROVE  /\ After(b, i) \in Seq(Header)
             /\ \A j \in 1..Len(After(b, i)) : i + j \in DOMAIN b /\ After(b, i)[j] = b[i + j]
  BY AfterIsStretch
<1>3. CASE Contains(b, loc)
  <2>1. PICK i \in DOMAIN b : b[i] = loc
    BY <1>1, <1>3 DEF Contains
  <2> DEFINE k == CHOOSE l \in DOMAIN b : b[l] = loc
  <2>2. k \in DOMAIN b
    BY <2>1
  <2>3. loc \in Header
    BY <1>1, <2>1, ElementOfSeq
  <2>4. hs = After(b, k)
    BY <1>3 DEF Answers
  <2> HIDE DEF k
  <2>5. QED
    BY <1>2, <2>2, <2>3, <2>4
<1>4. CASE ~Contains(b, loc)
  <2>1. hs = After(b, 1) \/ hs = <<>>
    BY <1>4 DEF Answers
  <2>2. CASE hs = After(b, 1)
    BY <1>1, <1>2, <2>2
  <2>3. CASE hs = <<>>
    BY <1>1, <2>3
  <2>4. QED
    BY <2>1, <2>2, <2>3
<1>5. QED
  BY <1>3, <1>4

\* However many of the headers of an answer are taken before one is refused,
\* the chain stays a line and keeps what it had.
LEMMA AcceptAllKeepsLine ==
  ASSUME NEW c, Line(c), NEW b \in Branches, NEW hs \in Answers(LocatorOf(c), b),
         NEW m \in 0..Len(hs)
  PROVE  LET r == AcceptAll(c, hs, m)
         IN  /\ Line(r.chain) /\ Extends(c, r.chain) /\ r.ok \in BOOLEAN
             /\ hs = <<>> \/ r.chain.tip = -1 => r.chain = c
<1>1. PICK i \in DOMAIN b :
        /\ \A j \in 1..Len(hs) : i + j \in DOMAIN b /\ hs[j] = b[i + j]
        /\ LocatorOf(c) \notin Header => i = 1
  BY AnswerIsStretch
<1>2. hs \in Seq(Header) /\ Len(hs) \in Nat /\ i \in Nat /\ i >= 1
  BY AnswerIsStretch, LenProperties, TreeAssumption
<1>3. c.tip = -1 => i = 1
  BY <1>1, HeaderSyncAssumption DEF LocatorOf
<1>4. PICK after :
        /\ after[0] = [chain |-> c, ok |-> TRUE]
        /\ \A k \in 1..Len(hs) : after[k] = Accept(after[k - 1], hs[k])
        /\ AcceptAll(c, hs, m) = after[m]
  BY <1>2, AcceptAllSteps
<1> DEFINE Fine(a, k) ==
             /\ a = [chain |-> a.chain, ok |-> a.ok] /\ a.ok \in BOOLEAN
             /\ Line(a.chain) /\ Extends(c, a.chain)
             /\ a.chain.tip = -1 => k = 0 /\ a.ok /\ c.tip = -1
             /\ k = 0 => a.chain = c
           S == {k \in Nat : k <= Len(hs) => Fine(after[k], k)}
<1>5. 0 \in S
  <2>1. after[0].chain = c /\ after[0].ok = TRUE
    BY <1>4
  <2>2. Extends(c, c)
    BY DEF Extends
  <2>3. c.tip = -1 => c.tip = -1
    OBVIOUS
  <2>4. QED
    BY <1>4, <2>1, <2>2
<1>6. ASSUME NEW k \in Nat, k \in S
      PROVE  k + 1 \in S
  <2> SUFFICES ASSUME k + 1 <= Len(hs)
               PROVE  Fine(after[k + 1], k + 1)
    OBVIOUS
  <2> DEFINE a == after[k]
             h == hs[k + 1]
             n == a.chain.tip + 1
  <2>1. Fine(a, k)
    BY <1>2, <1>6
  <2>2. after[k + 1] = Accept(a, h)
    BY <1>2, <1>4
  <2>3. i + (k + 1) \in DOMAIN b /\ h = b[i + (k + 1)] /\ i + (k + 1) > 1
    BY <1>1, <1>2
  <2>4. a.chain.tip = -1 => i + (k + 1) = 2
    BY <1>3, <2>1
  <2> HIDE DEF a, h
  <2>5. CASE a.ok /\ ValidateHeader(a.chain, h, n)
    <3> DEFINE d == With(a.chain, h, n)
    <3>1. Line(d) /\ Extends(a.chain, d) /\ d.tip = n
      BY <2>1, <2>3, <2>4, <2>5, LineGrows
    <3>2. after[k + 1] = [chain |-> d, ok |-> a.ok]
      <4>1. Accept(a, h) = [a EXCEPT !.chain = d]
        BY <2>5 DEF Accept, With
      <4> HIDE DEF d
      <4>2. QED
        BY <2>1, <2>2, <4>1
    <3>3. d.tip # -1
      BY <2>1, <3>1, Heights
    <3>4. Extends(c, d)
      BY <2>1, <3>1 DEF Extends
    <3> HIDE DEF d, n
    <3>5. after[k + 1].chain = d /\ after[k + 1].ok = a.ok
      BY <3>2
    <3>6. QED
      BY <2>1, <3>1, <3>2, <3>3, <3>4, <3>5
  <2>6. CASE ~(a.ok /\ ValidateHeader(a.chain, h, n))
    <3>1. a.chain.tip # -1
      <4>1. SUFFICES ASSUME a.chain.tip = -1 PROVE FALSE
        OBVIOUS
      <4>2. a.ok /\ n = 0
        BY <2>1, <4>1
      <4>3. ValidateHeader(a.chain, h, n)
        BY <4>2, HeaderChainAssumption DEF ValidateHeader, Linked, Historical
      <4>4. QED
        BY <2>6, <4>2, <4>3
    <3>2. Accept(a, h) = [a EXCEPT !.ok = FALSE]
      BY <2>6 DEF Accept
    <3>3. after[k + 1] = [chain |-> a.chain, ok |-> FALSE]
      BY <2>1, <2>2, <3>2
    <3>4. after[k + 1].chain = a.chain /\ after[k + 1].ok = FALSE
      BY <3>3
    <3>5. QED
      BY <2>1, <3>1, <3>3, <3>4
  <2>7. QED
    BY <2>5, <2>6
<1>7. Fine(AcceptAll(c, hs, m), m)
  <2> HIDE DEF Fine
  <2>1. m \in S
    <3> HIDE DEF S
    <3>1. QED
      BY <1>2, <1>5, <1>6, NatSetInduction
  <2>2. QED
    BY <1>2, <1>4, <2>1
<1>8. hs = <<>> <=> Len(hs) = 0
  BY <1>2, EmptySeq
<1>9. QED
  BY <1>2, <1>7, <1>8

----------------------------------------------------------------------------
(* The invariant.                                                          *)

LEMMA EmptyLine ==
  ASSUME NEW b \in Branches
  PROVE  Line(EmptyChain) /\ EmptyChain.tip = -1
<1>1. /\ EmptyChain.at = <<>> /\ EmptyChain.height = <<>>
      /\ EmptyChain.tip = -1 /\ EmptyChain.work = 0 /\ IsRecord(EmptyChain)
  BY DEF EmptyChain, IsRecord
<1>2. Kept(EmptyChain) = {} /\ DOMAIN EmptyChain.height = {}
  BY <1>1 DEF Kept
<1> HIDE DEF EmptyChain
<1>3. QED
  BY <1>1, <1>2
  DEF Line, IsChain, Unbroken, OnBranch, Lies, Inverses, Validated

\* What is read from the file is a line of one header.
LEMMA ResumedLine ==
  ASSUME FileStands, file \in [hdr : Header, height : Nat], file # NoFile
  PROVE  /\ Line(Resumed) /\ Resumed.tip = file.height
         /\ file.height \in Kept(Resumed) /\ Resumed.at[file.height] = file.hdr
<1> DEFINE h == file.hdr
           n == file.height
           d == With(EmptyChain, h, n)
<1>0. h \in Header /\ n \in Nat
  OBVIOUS
<1>1. PICK b \in Branches : n + 2 \in DOMAIN b /\ b[n + 2] = h
  BY DEF FileStands, StandsAt
<1>2. Line(EmptyChain) /\ EmptyChain.tip = -1
  BY EmptyLine
<1>3. Kept(EmptyChain) = {} /\ DOMAIN EmptyChain.height = {}
  BY <1>2, Heights DEF Line, Inverses
<1>4. /\ IsRecord(d) /\ Kept(d) = {n} /\ d.at[n] = h
      /\ DOMAIN d.height = {h} /\ d.height[h] = n
      /\ d.tip = n /\ d.work = EmptyChain.work + Work[h]
  BY <1>0, <1>2, <1>3, WithFields
<1>5. EmptyChain.work \in Nat /\ Work[h] \in Nat
  BY <1>0, <1>2, HeaderChainAssumption DEF Line, IsChain
<1>6. n > CpHeight => h \in Good
  BY DEF FileStands
<1>7. Resumed = d
  BY DEF Resumed, With
<1> HIDE DEF d, n, h
<1>8. Lies(d, b)
  BY <1>1, <1>4 DEF Lies
<1>9. Unbroken(d)
  <2>1. Kept(d) = n..d.tip /\ n \in 0..d.tip
    BY <1>0, <1>4
  <2>2. QED
    BY <1>0, <1>4, <2>1 DEF Unbroken
<1>10. IsChain(d) /\ OnBranch(d) /\ Inverses(d) /\ Validated(d)
  BY <1>0, <1>4, <1>5, <1>6, <1>8 DEF IsChain, OnBranch, Inverses, Validated
<1>11. QED
  BY <1>4, <1>7, <1>9, <1>10 DEF Line, n, h

\* Above the resumed height the tip stands higher on the same branch.
LEMMA TipIsAbove ==
  ASSUME NEW c, Line(c), NEW n \in Kept(c)
  PROVE  /\ Below(c.at[n], c.at[c.tip])
         /\ StandsAt(c.at[n], n + 1)
<1>1. n \in Nat /\ c.tip \in Nat /\ c.tip \in Kept(c) /\ n <= c.tip
  BY Heights
<1>2. PICK b \in Branches : Lies(c, b)
  BY DEF Line, OnBranch
<1>3. /\ n + 2 \in DOMAIN b /\ b[n + 2] = c.at[n]
      /\ c.tip + 2 \in DOMAIN b /\ b[c.tip + 2] = c.at[c.tip]
  BY <1>1, <1>2 DEF Lies
<1>4. n + 2 <= c.tip + 2 /\ (n + 1) + 1 = n + 2
  BY <1>1
<1>5. QED
  BY <1>3, <1>4 DEF Below, StandsAt

LEMMA InitIInv == Init => IInv
<1> SUFFICES ASSUME Init PROVE IInv
  OBVIOUS
<1>1. Line(EmptyChain) /\ EmptyChain.tip = -1
  BY EmptyLine DEF Init
<1>2. file.hdr = NoHeader /\ file.height = -1
  BY DEF Init, NoFile
<1>3. TypeOK
  <2>1. IsChain(chain) /\ IsChain(gchain)
    BY <1>1 DEF Init, Line
  <2>2. batch \in 0..MaxBatches /\ attempt \in 0..MaxAttempts
    BY HeaderSyncAssumption DEF Init
  <2>3. QED
    BY <2>1, <2>2 DEF Init, TypeOK
<1>4. FileStands
  BY <1>2, HeaderChainAssumption DEF FileStands, Init
<1>5. QED
  BY <1>1, <1>3, <1>4 DEF Init, IInv, LocatorIsTip, LocatorOf, ResumedFrom

LEMMA NextIInv == IInv /\ [Next]_vars => IInv'
<1> SUFFICES ASSUME IInv, [Next]_vars
             PROVE  IInv'
  OBVIOUS
<1> USE HeaderSyncAssumption, TreeAssumption
<1>0. /\ TypeOK /\ Line(chain) /\ Line(gchain) /\ LocatorIsTip /\ ResumedFrom /\ FileStands
      /\ phase = "read" => attempt < MaxAttempts
  BY DEF IInv
<1>held. held' \in BOOLEAN
  BY <1>0 DEF Next, CallBlocks, CallReturns, vars, TypeOK
<1>file. file # NoFile => file \in [hdr : Header, height : Nat]
  BY <1>0 DEF TypeOK
<1>1. ASSUME NEW connect \in BOOLEAN, StartSync(connect)
      PROVE  IInv'
  <2>1. Line(EmptyChain) /\ EmptyChain.tip = -1
    BY <1>0, EmptyLine DEF TypeOK
  <2>0. /\ 0 \in 0..MaxBatches /\ 0 \in 0..MaxAttempts /\ 0 < MaxAttempts
        /\ reached' \in BOOLEAN /\ anchored' \in BOOLEAN
    BY <1>1, HeaderChainAssumption DEF StartSync
  <2>2. CASE file = NoFile
    <3>1. file.hdr = NoHeader
      BY <2>2 DEF NoFile
    <3>2. chain' = EmptyChain /\ locator' = NoHeader /\ gchain' = gchain
      BY <1>1, <2>2, <3>1 DEF StartSync
    <3>3. Line(chain)' /\ Line(gchain)' /\ LocatorIsTip' /\ ResumedFrom' /\ FileStands'
      BY <1>0, <1>1, <2>1, <2>2, <3>2
      DEF StartSync, LocatorIsTip, LocatorOf, ResumedFrom, FileStands
    <3>4. IsChain(chain)' /\ IsChain(gchain)'
      BY <3>3 DEF Line
    <3>5. TypeOK'
      BY <1>0, <1>held, <1>1, <2>0, <3>2, <3>4 DEF StartSync, TypeOK
    <3>6. QED
      BY <1>1, <3>3, <3>5 DEF IInv, StartSync
  <2>3. CASE file # NoFile
    <3>1. /\ Line(Resumed) /\ Resumed.tip = file.height
          /\ file.height \in Kept(Resumed) /\ Resumed.at[file.height] = file.hdr
      BY <1>0, <1>file, <2>3, ResumedLine
    <3>2. chain' = Resumed /\ locator' = file.hdr /\ gchain' = Resumed /\ file' = file
      BY <1>1, <2>3 DEF StartSync
    <3>3. file.height \in Nat /\ file.hdr \in Header
      BY <1>file, <2>3
    <3> HIDE DEF Resumed
    <3>4. Line(chain)' /\ Line(gchain)' /\ LocatorIsTip' /\ ResumedFrom' /\ FileStands'
      BY <1>0, <3>1, <3>2, <3>3
      DEF LocatorIsTip, LocatorOf, ResumedFrom, FileStands
    <3>5. IsChain(chain)' /\ IsChain(gchain)'
      BY <3>4 DEF Line
    <3>6. TypeOK'
      BY <1>0, <1>held, <1>1, <2>0, <3>2, <3>3, <3>5 DEF StartSync, TypeOK
    <3>7. QED
      BY <1>1, <3>4, <3>6 DEF IInv, StartSync
  <2>4. QED
    BY <2>2, <2>3
<1>2. CASE MakeGetHeaders
  <2>1. chain' = chain /\ gchain' = gchain /\ locator' = locator /\ file' = file /\ phase # "idle"
    BY <1>2 DEF MakeGetHeaders
  <2>2. Line(chain)' /\ Line(gchain)' /\ LocatorIsTip' /\ ResumedFrom' /\ FileStands'
    BY <1>0, <2>1 DEF LocatorIsTip, ResumedFrom, FileStands
  <2>3. TypeOK'
    BY <1>0, <1>held, <1>2 DEF MakeGetHeaders, LoopEnds, TypeOK
  <2>4. (phase = "read" => attempt < MaxAttempts)'
    BY <1>2 DEF MakeGetHeaders, LoopEnds
  <2>5. QED
    BY <2>2, <2>3, <2>4 DEF IInv
<1>3. CASE ReadOther
  <2>1. chain' = chain /\ gchain' = gchain /\ locator' = locator /\ file' = file /\ phase # "idle"
    BY <1>3 DEF ReadOther
  <2>2. Line(chain)' /\ Line(gchain)' /\ LocatorIsTip' /\ ResumedFrom' /\ FileStands'
    BY <1>0, <2>1 DEF LocatorIsTip, ResumedFrom, FileStands
  <2>3. attempt' \in 0..MaxAttempts
    BY <1>0, <1>3 DEF ReadOther, TypeOK
  <2>4. TypeOK'
    BY <1>0, <1>held, <1>3, <2>3 DEF ReadOther, LoopEnds, TypeOK
  <2>5. (phase = "read" => attempt < MaxAttempts)'
    BY <1>3, <2>3 DEF ReadOther, LoopEnds
  <2>6. QED
    BY <2>2, <2>4, <2>5 DEF IInv
<1>4. ASSUME NEW hs \in Answers(locator, net), NEW k \in 0..Len(hs), ReadHeaders(hs, k)
      PROVE  IInv'
  <2> DEFINE r == AcceptAll(chain, hs, k)
  <2>1. /\ Line(r.chain) /\ Extends(chain, r.chain) /\ r.ok \in BOOLEAN
        /\ hs = <<>> \/ r.chain.tip = -1 => r.chain = chain
    BY <1>0, AcceptAllKeepsLine DEF LocatorIsTip, TypeOK
  <2> HIDE DEF r
  <2>2. /\ phase = "read" /\ chain' = r.chain /\ gchain' = r.chain
        /\ failed' = (failed \/ ~r.ok \/ k < Len(hs))
        /\ locator' = IF r.chain.tip >= 0 /\ hs # <<>> THEN r.chain.at[r.chain.tip] ELSE locator
        /\ reached' = (reached \/ (chain.tip < CpHeight /\ CpHeight <= r.chain.tip))
        /\ anchored' = (anchored \/ ((reached' \/ r.chain.tip >= CpHeight)
                                      /\ CheckCheckpoint(r.chain)))
        /\ phase' \in {"save", "steady", "ask"}
        /\ UNCHANGED <<batch, attempt, file, net>>
    BY <1>4 DEF ReadHeaders, r
  <2>3. Line(chain)' /\ Line(gchain)'
    BY <2>1, <2>2
  <2>4. ResumedFrom' /\ FileStands'
    BY <1>0, <2>1, <2>2 DEF ResumedFrom, FileStands, Extends
  <2>5. LocatorIsTip'
    <3>1. CASE hs = <<>> \/ r.chain.tip = -1
      BY <1>0, <2>1, <2>2, <3>1 DEF LocatorIsTip
    <3>2. CASE hs # <<>> /\ r.chain.tip # -1
      <4>1. r.chain.tip \in Nat
        BY <2>1, <3>2, Heights
      <4>2. QED
        BY <2>2, <3>2, <4>1 DEF LocatorIsTip, LocatorOf
    <3>3. QED
      BY <3>1, <3>2
  <2>6. locator' \in Header \cup {NoHeader}
    <3>1. r.chain.tip # -1 => r.chain.at[r.chain.tip] \in Header
      BY <2>1, Heights DEF Line, IsChain
    <3>2. QED
      BY <2>2, <2>5, <3>1 DEF LocatorIsTip, LocatorOf
  <2>7. failed' \in BOOLEAN /\ reached' \in BOOLEAN /\ anchored' \in BOOLEAN
    <3>1. failed \in BOOLEAN /\ reached \in BOOLEAN /\ anchored \in BOOLEAN
      BY <1>0 DEF TypeOK
    <3>2. failed' \in BOOLEAN /\ reached' \in BOOLEAN
      BY <2>2, <3>1
    <3>3. anchored' \in BOOLEAN
      BY <2>2, <3>1
    <3>4. QED
      BY <3>2, <3>3
  <2>8. TypeOK'
    BY <1>0, <1>held, <2>2, <2>3, <2>6, <2>7 DEF TypeOK, Line
  <2>9. QED
    BY <2>2, <2>3, <2>4, <2>5, <2>8 DEF IInv
<1>5. CASE StopsEarly
  BY <1>0, <1>held, <1>5
  DEF StopsEarly, runVars, IInv, TypeOK, LocatorIsTip, ResumedFrom, FileStands
<1>6. CASE Save
  <2>1. FileStands' /\ (file' = NoFile \/ file' \in [hdr : Header, height : Nat])
    <3>1. CASE file' = file
      BY <1>0, <3>1 DEF FileStands, TypeOK
    <3>2. CASE file' = NoFile
      <4>1. file'.hdr = NoHeader /\ file'.height = -1
        BY <3>2 DEF NoFile
      <4>2. QED
        BY <3>2, <4>1, HeaderChainAssumption DEF FileStands
    <3>3. CASE chain.tip >= 0 /\ file' = Tip(chain)
      <4>1. file'.hdr = chain.at[chain.tip] /\ file'.height = chain.tip
        BY <3>3 DEF Tip
      <4>2. chain.tip \in Kept(chain) /\ chain.tip \in Nat
        BY <1>0, <3>3, Heights
      <4>3. chain.at[chain.tip] \in Header
        BY <1>0, <4>2 DEF Line, IsChain
      <4>4. StandsAt(chain.at[chain.tip], chain.tip + 1)
        BY <1>0, <4>2, TipIsAbove
      <4>5. chain.tip > CpHeight => chain.at[chain.tip] \in Good
        BY <1>0, <4>2 DEF Line, Validated
      <4>6. Tip(chain) \in [hdr : Header, height : Nat]
        BY <4>2, <4>3 DEF Tip
      <4>7. QED
        BY <3>3, <4>1, <4>4, <4>5, <4>6 DEF FileStands
    <3>4. QED
      BY <1>6, <3>1, <3>2, <3>3 DEF Save
  <2>2. TypeOK'
    BY <1>0, <1>held, <1>6, <2>1 DEF Save, TypeOK, runVars
  <2>3. QED
    BY <1>0, <1>6, <2>1, <2>2 DEF Save, runVars, IInv, LocatorIsTip, ResumedFrom
<1>7. CASE Reset
  <2>1. file' = NoFile /\ file'.hdr = NoHeader /\ file'.height = -1
    BY <1>7 DEF Reset, NoFile
  <2>2. FileStands' /\ ResumedFrom'
    BY <2>1, HeaderChainAssumption DEF FileStands, ResumedFrom
  <2>3. TypeOK'
    BY <1>0, <1>held, <1>7, <2>1 DEF Reset, runVars, TypeOK
  <2>4. QED
    BY <1>0, <1>7, <2>2, <2>3 DEF Reset, runVars, IInv, LocatorIsTip
<1>8. CASE Crash
  <2>1. Line(EmptyChain) /\ EmptyChain.tip = -1
    BY <1>0, EmptyLine DEF TypeOK
  <2>2. file' = file \/ file' = NoFile
    BY <1>8 DEF Crash
  <2>3. FileStands'
    <3>1. CASE file' = file
      BY <1>0, <3>1 DEF FileStands
    <3>2. CASE file' = NoFile
      <4>1. file'.hdr = NoHeader /\ file'.height = -1
        BY <3>2 DEF NoFile
      <4>2. QED
        BY <3>2, <4>1, HeaderChainAssumption DEF FileStands
    <3>3. QED
      BY <2>2, <3>1, <3>2
  <2>4. Line(chain)' /\ Line(gchain)' /\ LocatorIsTip' /\ ResumedFrom'
    BY <1>8, <2>1 DEF Crash, LocatorIsTip, LocatorOf, ResumedFrom
  <2>5. TypeOK'
    <3>1. IsChain(chain)' /\ IsChain(gchain)'
      BY <2>4 DEF Line
    <3>2. 0 \in 0..MaxBatches /\ 0 \in 0..MaxAttempts
      OBVIOUS
    <3>3. QED
      BY <1>0, <1>held, <1>8, <2>2, <3>1, <3>2 DEF Crash, TypeOK
  <2>6. QED
    BY <1>8, <2>3, <2>4, <2>5 DEF IInv, Crash
<1>9. CASE NetMoves
  BY <1>0, <1>held, <1>9
  DEF NetMoves, runVars, IInv, TypeOK, LocatorIsTip, ResumedFrom, FileStands
<1>10. CASE UNCHANGED vars \/ CallBlocks \/ CallReturns
  BY <1>0, <1>10, <1>held
  DEF vars, CallBlocks, CallReturns, runVars, IInv, TypeOK, LocatorIsTip, ResumedFrom, FileStands
<1>11. QED
  BY <1>1, <1>2, <1>3, <1>4, <1>5, <1>6, <1>7, <1>8, <1>9, <1>10
  DEF Next, SyncStep, HeaderStep

----------------------------------------------------------------------------
(* The results.                                                            *)

\* Type correctness, of the chain that RunSyncCore builds and of the copy
\* other threads read.
THEOREM TypeCorrect == Spec => []TypeOK
<1>1. IInv => TypeOK
  BY DEF IInv
<1>2. QED
  BY <1>1, InitIInv, NextIInv, PTL DEF Spec

\* A line is sound in the sense of the runs.
LEMMA LineIsSound ==
  ASSUME NEW c, Line(c)
  PROVE  Sound(c)
<1>1. PICK b \in Branches : Lies(c, b)
  BY DEF Line, OnBranch
<1>2. ASSUME NEW n \in Kept(c), n < c.tip
      PROVE  n + 1 \in Kept(c) /\ Prev[c.at[n + 1]] = c.at[n]
  <2>1. PICK f \in 0..c.tip : c.tip \in Nat /\ Kept(c) = f..c.tip
    BY DEF Line, Unbroken
  <2>2. n \in Nat /\ n + 1 \in Kept(c)
    BY <1>2, <2>1
  <2>3. n + 2 \in DOMAIN b /\ b[n + 2] = c.at[n]
    BY <1>1 DEF Lies
  <2>4. (n + 1) + 2 \in DOMAIN b /\ b[(n + 1) + 2] = c.at[n + 1]
    BY <1>1, <2>2 DEF Lies
  <2> DEFINE p == (n + 1) + 2
  <2>5. p \in DOMAIN b /\ p > 1 /\ p - 1 = n + 2 /\ b[p] = c.at[n + 1]
    BY <2>2, <2>4
  <2> HIDE DEF p
  <2>6. Prev[b[p]] = b[p - 1]
    BY <2>5, TreeAssumption
  <2>7. QED
    BY <2>2, <2>3, <2>5, <2>6
<1>3. QED
  BY <1>2, Heights DEF Sound, Line, Inverses

\* The store of headers is one unbroken line in both copies, for any tree,
\* any behaviour of the node and any number of resumes, resets and crashes.
THEOREM ChainStaysSound == Spec => []ChainIsSound
<1>1. IInv => ChainIsSound
  BY LineIsSound DEF IInv, ChainIsSound
<1>2. QED
  BY <1>1, InitIInv, NextIInv, PTL DEF Spec

\* A block has the same height in every session: the checkpoint is looked up
\* by height, so that a chain of wrong heights would be compared at the wrong
\* block.
THEOREM HeightsStayTrue == Spec => []HeightsAgree
<1>1. IInv => HeightsAgree
  <2> SUFFICES ASSUME IInv PROVE HeightsAgree
    OBVIOUS
  <2>1. Line(chain) /\ Line(gchain) /\ FileStands
    BY DEF IInv
  <2>2. ASSUME NEW c \in {chain, gchain}, NEW n \in Kept(c)
        PROVE  StandsAt(c.at[n], n + 1)
    BY <2>1, TipIsAbove
  <2>3. QED
    BY <2>1, <2>2 DEF HeightsAgree, FileStands
<1>2. QED
  BY <1>1, InitIInv, NextIInv, PTL DEF Spec

\* No header above the checkpoint that fails ValidateHeader is kept or saved: for
\* any tree, window and size of batch its hash is at most the target it names
\* and its time above the median of the kept headers below it.  That nBits is
\* the expected one does not follow, see NewSegmentFullyChecked.
THEOREM NewSegmentIsChecked == Spec => []NewSegmentChecked
<1>1. IInv => NewSegmentChecked
  BY DEF IInv, Line, FileStands, NewSegmentChecked
<1>2. QED
  BY <1>1, InitIInv, NextIInv, PTL DEF Spec

\* The saved tip is only replaced by one of its descendants: whatever a
\* session has accepted, the header it was resumed from is still below it.
THEOREM SavedTipExtends == Spec => SavedTipOnlyExtends
<1>1. ASSUME IInv, [Next]_vars, file # NoFile, file' # NoFile
      PROVE  Below(file.hdr, file'.hdr)
  <2>1. ASSUME file' = file
        PROVE  Below(file.hdr, file'.hdr)
    <3>1. StandsAt(file.hdr, file.height + 1)
      BY <1>1 DEF IInv, FileStands
    <3>2. file.height \in Nat
      BY <1>1 DEF IInv, TypeOK
    <3>3. QED
      BY <2>1, <3>1, <3>2, TreeAssumption DEF StandsAt, Below
  <2>2. CASE Save
    <3>1. CASE file' = file
      BY <2>1, <3>1
    <3>2. CASE file' = Tip(chain)
      <4>1. file'.hdr = chain.at[chain.tip] /\ phase # "idle"
        BY <2>2, <3>2 DEF Save, Tip
      <4>2. file.height \in Kept(chain) /\ chain.at[file.height] = file.hdr /\ Line(chain)
        BY <1>1, <4>1 DEF IInv, ResumedFrom
      <4>3. QED
        BY <4>1, <4>2, TipIsAbove
    <3>3. QED
      BY <1>1, <2>2, <3>1, <3>2 DEF Save
  <2>3. CASE ~Save
    <3>1. file' = file
      BY <1>1, <2>3
      DEF Next, SyncStep, HeaderStep, CallBlocks, CallReturns, vars, StartSync, MakeGetHeaders, ReadOther, ReadHeaders,
          StopsEarly, Reset, Crash, NetMoves
    <3>2. QED
      BY <2>1, <3>1
  <2>4. QED
    BY <2>2, <2>3
<1>2. IInv /\ [Next]_vars =>
        [file # NoFile /\ file' # NoFile => Below(file.hdr, file'.hdr)]_vars
  BY <1>1
<1>3. QED
  BY <1>2, InitIInv, NextIInv, PTL DEF Spec, SavedTipOnlyExtends

----------------------------------------------------------------------------
(* The synchroniser of the SDK, on the same store.                         *)

\* The recursive function in WorkOf exists.
LEMMA WorkOfSteps ==
  ASSUME NEW c, c.tip + 1 \in Nat
  PROVE  \E below :
           /\ below[0] = 0
           /\ \A n \in 1..(c.tip + 1) : below[n] = below[n - 1] + Work[c.at[n - 1]]
           /\ WorkOf(c) = below[c.tip + 1]
<1> DEFINE Def(f, n) ==
             f = [i \in 0..n |-> IF i = 0 THEN 0 ELSE f[i - 1] + Work[c.at[i - 1]]]
           S == {n \in Nat : \E f : Def(f, n)}
<1>1. 0 \in S
  <2>1. Def([i \in 0..0 |-> 0], 0)
    OBVIOUS
  <2>2. QED
    BY <2>1
<1>2. ASSUME NEW n \in Nat, n \in S
      PROVE  n + 1 \in S
  <2>1. PICK f : Def(f, n)
    BY <1>2
  <2> DEFINE g == [i \in 0..n + 1 |-> IF i = n + 1 THEN f[n] + Work[c.at[n]] ELSE f[i]]
  <2>2. Def(g, n + 1)
    <3>1. ASSUME NEW i \in 0..n + 1
          PROVE  g[i] = IF i = 0 THEN 0 ELSE g[i - 1] + Work[c.at[i - 1]]
      <4>1. CASE i = n + 1
        BY <4>1
      <4>2. CASE i \in 0..n
        <5>1. f[i] = IF i = 0 THEN 0 ELSE f[i - 1] + Work[c.at[i - 1]]
          BY <2>1, <4>2
        <5>2. i # 0 => g[i - 1] = f[i - 1]
          BY <4>2
        <5>3. QED
          BY <5>1, <5>2, <4>2
      <4>3. QED
        BY <4>1, <4>2
    <3>2. QED
      BY <3>1
  <2> HIDE DEF Def, g
  <2>3. QED
    BY <2>2
<1>3. c.tip + 1 \in S
  <2> HIDE DEF S
  <2>1. Nat \subseteq S
    BY <1>1, <1>2, NatSetInduction
  <2>2. QED
    BY <2>1
<1> DEFINE below == CHOOSE f : Def(f, c.tip + 1)
<1>4. Def(below, c.tip + 1)
  BY <1>3
<1>5. WorkOf(c) = below[c.tip + 1]
  BY DEF WorkOf
<1> HIDE DEF below
<1>6. below[0] = 0 /\ \A n \in 1..(c.tip + 1) : below[n] = below[n - 1] + Work[c.at[n - 1]]
  BY <1>4
<1>7. QED
  BY <1>5, <1>6

\* A header more is its work more.
LEMMA WorkOfWith ==
  ASSUME NEW c, NEW h, c.tip \in Int, c.tip + 1 \in Nat, Kept(c) = 0..c.tip
  PROVE  WorkOf(With(c, h, c.tip + 1)) = WorkOf(c) + Work[h]
<1> DEFINE n == c.tip + 1
           d == With(c, h, n)
<1>1. d.tip = n /\ d.at[n] = h /\ \A k \in 0..c.tip : d.at[k] = c.at[k]
  BY WithFields
<1> HIDE DEF d
<1>2. PICK w :
        /\ w[0] = 0
        /\ \A k \in 1..(c.tip + 1) : w[k] = w[k - 1] + Work[c.at[k - 1]]
        /\ WorkOf(c) = w[c.tip + 1]
  BY WorkOfSteps
<1>3. PICK v :
        /\ v[0] = 0
        /\ \A k \in 1..(d.tip + 1) : v[k] = v[k - 1] + Work[d.at[k - 1]]
        /\ WorkOf(d) = v[d.tip + 1]
  <2>1. d.tip + 1 \in Nat
    BY <1>1
  <2>2. QED
    BY <2>1, WorkOfSteps
<1> DEFINE S == {k \in Nat : k <= n => v[k] = w[k]}
<1>4. 0 \in S
  BY <1>2, <1>3
<1>5. ASSUME NEW k \in Nat, k \in S
      PROVE  k + 1 \in S
  <2>1. SUFFICES ASSUME k + 1 <= n
                 PROVE  v[k + 1] = w[k + 1]
    OBVIOUS
  <2>2. v[k] = w[k] /\ d.at[k] = c.at[k]
    BY <1>1, <1>5, <2>1
  <2>3. w[k + 1] = w[k] + Work[c.at[k]]
    <3>1. k + 1 \in 1..(c.tip + 1) /\ (k + 1) - 1 = k
      BY <2>1
    <3>2. QED
      BY <1>2, <3>1
  <2>4. v[k + 1] = v[k] + Work[d.at[k]]
    <3>1. k + 1 \in 1..(d.tip + 1) /\ (k + 1) - 1 = k
      BY <1>1, <2>1
    <3>2. QED
      BY <1>3, <3>1
  <2>5. QED
    BY <2>2, <2>3, <2>4
<1>6. v[n] = w[n]
  <2> HIDE DEF S
  <2>1. Nat \subseteq S
    BY <1>4, <1>5, NatSetInduction
  <2>2. QED
    BY <2>1 DEF S
<1>7. v[n + 1] = v[n] + Work[h]
  <2>1. n + 1 \in 1..(d.tip + 1) /\ (n + 1) - 1 = n
    BY <1>1
  <2>2. QED
    BY <1>1, <1>3, <2>1
<1>8. QED
  BY <1>1, <1>2, <1>3, <1>6, <1>7 DEF d

\* The recursive function in AcceptAll of the SDK exists.
LEMMA SdkAcceptAllSteps ==
  ASSUME NEW c, NEW start, NEW hs \in Seq(Header)
  PROVE  \E after :
           /\ after[0] = [store |-> c, ok |-> TRUE, next |-> start]
           /\ \A i \in 1..Len(hs) : after[i] = ProcessHeader(after[i - 1], hs[i])
           /\ ProcessAll(c, start, hs) = after[Len(hs)]
<1> DEFINE first == [store |-> c, ok |-> TRUE, next |-> start]
           Def(f, n) ==
             f = [i \in 0..n |-> IF i = 0 THEN first ELSE ProcessHeader(f[i - 1], hs[i])]
           S == {n \in Nat : \E f : Def(f, n)}
<1> HIDE DEF first
<1>1. 0 \in S
  <2>1. Def([i \in 0..0 |-> first], 0)
    OBVIOUS
  <2>2. QED
    BY <2>1
<1>2. ASSUME NEW n \in Nat, n \in S
      PROVE  n + 1 \in S
  <2>1. PICK f : Def(f, n)
    BY <1>2
  <2> DEFINE g == [i \in 0..n + 1 |-> IF i = n + 1 THEN ProcessHeader(f[n], hs[n + 1]) ELSE f[i]]
  <2>2. Def(g, n + 1)
    <3>1. ASSUME NEW i \in 0..n + 1
          PROVE  g[i] = IF i = 0 THEN first ELSE ProcessHeader(g[i - 1], hs[i])
      <4>1. CASE i = n + 1
        BY <4>1
      <4>2. CASE i \in 0..n
        <5>1. f[i] = IF i = 0 THEN first ELSE ProcessHeader(f[i - 1], hs[i])
          BY <2>1, <4>2
        <5>2. i # 0 => g[i - 1] = f[i - 1]
          BY <4>2
        <5>3. QED
          BY <5>1, <5>2, <4>2
      <4>3. QED
        BY <4>1, <4>2
    <3>2. QED
      BY <3>1
  <2> HIDE DEF Def, g
  <2>3. QED
    BY <2>2
<1>3. Len(hs) \in S
  <2> HIDE DEF S
  <2>1. Nat \subseteq S
    BY <1>1, <1>2, NatSetInduction
  <2>2. QED
    BY <2>1, LenProperties
<1> DEFINE after == CHOOSE f : Def(f, Len(hs))
<1>4. Def(after, Len(hs))
  BY <1>3
<1>5. ProcessAll(c, start, hs) = after[Len(hs)]
  BY DEF ProcessAll, first
<1> HIDE DEF after
<1>6. after[0] = first /\ \A i \in 1..Len(hs) : after[i] = ProcessHeader(after[i - 1], hs[i])
  BY <1>4, LenProperties
<1>7. QED
  BY <1>5, <1>6 DEF first

\* The store of the SDK starts at height 0 and has no gap.
OneLine(c) ==
  /\ IsRecord(c)
  /\ c.tip \in Nat \cup {-1} /\ Kept(c) = 0..c.tip
  /\ \A n \in Kept(c) : n > 0 => Prev[c.at[n]] = c.at[n - 1]
  /\ \A n \in Kept(c) : n > CpHeight => c.at[n] \in Good \cap Expected
  /\ c.work = WorkOf(c)

SdkInv == OneLine(store) /\ answer \in Seq(Header)

\* One header of an answer.
LEMMA OneLineGrows ==
  ASSUME NEW c, OneLine(c), NEW h,
         ValidateHeader(c, h, c.tip + 1), Historical(c.tip + 1) \/ h \in Expected
  PROVE  OneLine(With(c, h, c.tip + 1)) /\ With(c, h, c.tip + 1).tip = c.tip + 1
<1> DEFINE n == c.tip + 1
           d == With(c, h, n)
<1>1. /\ c.tip \in Int /\ n \in Nat /\ Kept(c) = 0..c.tip /\ CpHeight \in Nat
      /\ \A k \in Kept(c) : k # n /\ k - 1 # n
  BY HeaderChainAssumption DEF OneLine
<1>2. /\ IsRecord(d) /\ Kept(d) = Kept(c) \cup {n}
      /\ d.at[n] = h /\ \A k \in Kept(c) : d.at[k] = c.at[k]
      /\ d.tip = n /\ d.work = c.work + Work[h]
  BY <1>1, WithFields
<1>3. Linked(c, h, n) /\ (n > CpHeight => h \in Good \cap Expected)
  <2>1. Linked(c, h, n) /\ (~Historical(n) => h \in Good) /\ (Historical(n) \/ h \in Expected)
    BY DEF ValidateHeader
  <2>2. QED
    BY <1>1, <2>1 DEF Historical
<1>4. d.work = WorkOf(d)
  <2>1. WorkOf(d) = WorkOf(c) + Work[h]
    BY <1>1, WorkOfWith
  <2>2. QED
    BY <1>2, <2>1 DEF OneLine
<1> HIDE DEF d
<1>5. Kept(d) = 0..d.tip /\ d.tip \in Nat
  BY <1>1, <1>2
<1>6. ASSUME NEW k \in Kept(d), k > 0
      PROVE  Prev[d.at[k]] = d.at[k - 1]
  <2>1. CASE k = n
    <3>1. n - 1 \in Kept(c) /\ Prev[h] = c.at[n - 1]
      BY <1>3, <1>6, <2>1 DEF Linked
    <3>2. QED
      BY <1>2, <2>1, <3>1
  <2>2. CASE k \in Kept(c)
    <3>1. k - 1 \in Kept(c)
      BY <1>1, <1>6, <2>2
    <3>2. QED
      BY <1>2, <1>6, <2>2, <3>1 DEF OneLine
  <2>3. QED
    BY <1>2, <2>1, <2>2
<1>7. \A k \in Kept(d) : k > CpHeight => d.at[k] \in Good \cap Expected
  BY <1>2, <1>3 DEF OneLine
<1>8. OneLine(d) /\ d.tip = n
  BY <1>2, <1>4, <1>5, <1>6, <1>7 DEF OneLine
<1>9. QED
  BY <1>8 DEF d

\* However many headers of an answer are taken.
LEMMA SdkAcceptAllKeeps ==
  ASSUME NEW c, OneLine(c), NEW hs \in Seq(Header)
  PROVE  OneLine(ProcessAll(c, c.tip + 1, hs).store)
<1>1. PICK after :
        /\ after[0] = [store |-> c, ok |-> TRUE, next |-> c.tip + 1]
        /\ \A k \in 1..Len(hs) : after[k] = ProcessHeader(after[k - 1], hs[k])
        /\ ProcessAll(c, c.tip + 1, hs) = after[Len(hs)]
  BY SdkAcceptAllSteps
<1>2. Len(hs) \in Nat
  BY LenProperties
<1> DEFINE Fine(a) ==
             /\ a = [store |-> a.store, ok |-> a.ok, next |-> a.next] /\ OneLine(a.store)
             /\ a.ok => a.next = a.store.tip + 1
           S == {k \in Nat : k <= Len(hs) => Fine(after[k])}
<1>3. 0 \in S
  <2>1. after[0].store = c /\ after[0].next = c.tip + 1
    BY <1>1
  <2>2. QED
    BY <1>1, <2>1
<1>4. ASSUME NEW k \in Nat, k \in S
      PROVE  k + 1 \in S
  <2> SUFFICES ASSUME k + 1 <= Len(hs)
               PROVE  Fine(after[k + 1])
    OBVIOUS
  <2> DEFINE a == after[k]
             h == hs[k + 1]
             n == a.next
             d == AddWork(AddHeader(a.store, h, n), h)
             taken == /\ a.ok /\ ValidateHeader(a.store, h, n)
                      /\ Historical(n) \/ h \in Expected
  <2>1. Fine(a)
    BY <1>2, <1>4
  <2>2. after[k + 1] = ProcessHeader(a, h)
    BY <1>1, <1>2
  <2> HIDE DEF a, h
  <2>3. CASE taken
    <3>1. n = a.store.tip + 1
      BY <2>1, <2>3
    <3>2. d = With(a.store, h, n)
      BY DEF With
    <3>3. OneLine(d) /\ d.tip = n
      <4> DEFINE t == a.store.tip + 1
      <4>1. ValidateHeader(a.store, h, t) /\ (Historical(t) \/ h \in Expected)
        BY <2>3, <3>1
      <4>2. OneLine(With(a.store, h, t)) /\ With(a.store, h, t).tip = t
        BY <2>1, <4>1, OneLineGrows
      <4> HIDE DEF t, d
      <4>3. QED
        BY <3>1, <3>2, <4>2 DEF t
    <3>4. ProcessHeader(a, h) = [a EXCEPT !.store = d, !.next = n + 1]
      BY <2>3 DEF ProcessHeader
    <3> HIDE DEF d, n, taken
    <3>5. after[k + 1] = [store |-> d, ok |-> a.ok, next |-> n + 1]
      BY <2>1, <2>2, <3>4
    <3>6. /\ after[k + 1].store = d /\ after[k + 1].ok = a.ok
          /\ after[k + 1].next = n + 1
      BY <3>5
    <3>7. QED
      BY <3>3, <3>5, <3>6
  <2>4. CASE ~taken
    <3>1. ProcessHeader(a, h) = [a EXCEPT !.ok = FALSE]
      BY <2>4 DEF ProcessHeader
    <3>2. after[k + 1] = [store |-> a.store, ok |-> FALSE, next |-> a.next]
      BY <2>1, <2>2, <3>1
    <3>3. after[k + 1].store = a.store /\ after[k + 1].ok = FALSE
          /\ after[k + 1].next = a.next
      BY <3>2
    <3>4. QED
      BY <2>1, <3>2, <3>3
  <2>5. QED
    BY <2>3, <2>4
<1>5. Fine(after[Len(hs)])
  <2> HIDE DEF Fine
  <2>1. Len(hs) \in S
    <3> HIDE DEF S
    <3>1. QED
      BY <1>2, <1>3, <1>4, NatSetInduction
  <2>2. QED
    BY <1>2, <2>1
<1>6. QED
  BY <1>1, <1>5

\* What a node answers is a sequence of headers.
LEMMA SdkAnswers ==
  ASSUME SendGetHeaders
  PROVE  answer' \in Seq(Header) /\ store' = store
<1>1. ASSUME NEW b \in Branches
      PROVE  Answer(b) \in Seq(Header)
  <2>1. b \in Seq(Header) /\ DOMAIN b = 1..Len(b) /\ 1 \in DOMAIN b
    BY TreeAssumption, EmptySeq
  <2>2. CASE Contains(b, Locator)
    <3> DEFINE l == CHOOSE k \in DOMAIN b : b[k] = Locator
    <3>1. l \in DOMAIN b
      BY <2>1, <2>2 DEF Contains
    <3>2. Answer(b) = After(b, l)
      BY <2>2 DEF Answer
    <3> HIDE DEF l
    <3>3. QED
      BY <3>1, <3>2, AfterIsStretch
  <2>3. CASE ~Contains(b, Locator)
    <3>1. Answer(b) = After(b, 1)
      BY <2>3 DEF Answer
    <3>2. QED
      BY <2>1, <3>1, AfterIsStretch
  <2>4. QED
    BY <2>2, <2>3
<1>2. \A h, k \in Header : <<h, k>> \in Seq(Header)
  OBVIOUS
<1>3. QED
  BY <1>1, <1>2 DEF SendGetHeaders

LEMMA SdkInitInv == SyncInit => SdkInv
<1> SUFFICES ASSUME SyncInit PROVE SdkInv
  OBVIOUS
<1> DEFINE e == EmptyChain
<1>1. store = e /\ answer = <<>>
  BY DEF SyncInit, NoAnswer
<1>2. /\ e.at = <<>> /\ e.tip = -1 /\ e.work = 0 /\ IsRecord(e)
  BY DEF EmptyChain, IsRecord
<1>3. Kept(e) = {}
  BY <1>2 DEF Kept
<1> HIDE DEF e
<1>4. WorkOf(e) = 0
  <2>1. e.tip + 1 = 0
    BY <1>2
  <2>2. QED
    BY <2>1, WorkOfSteps
<1>5. OneLine(e)
  BY <1>2, <1>3, <1>4 DEF OneLine
<1>6. QED
  BY <1>1, <1>5 DEF SdkInv

LEMMA SdkNextInv == SdkInv /\ [SyncNext]_syncVars => SdkInv'
<1> SUFFICES ASSUME SdkInv, [SyncNext]_syncVars
             PROVE  SdkInv'
  OBVIOUS
<1>1. CASE SendGetHeaders
  BY <1>1, SdkAnswers DEF SdkInv
<1>2. CASE ProcessHeaders(store.tip + 1)
  <2>1. answer' = <<>>
    BY <1>2 DEF ProcessHeaders, NoAnswer
  <2>2. OneLine(store)'
    <3>1. CASE UNCHANGED store
      BY <3>1 DEF SdkInv
    <3>2. CASE store' = ProcessAll(store, store.tip + 1, answer).store
      BY <3>2, SdkAcceptAllKeeps DEF SdkInv
    <3>3. QED
      BY <1>2, <3>1, <3>2 DEF ProcessHeaders
  <2>3. QED
    BY <2>1, <2>2 DEF SdkInv
<1>3. CASE UNCHANGED syncVars
  BY <1>3 DEF syncVars, SdkInv
<1>4. QED
  BY <1>1, <1>2, <1>3 DEF SyncNext

\* Whatever nodes answer and whichever read fails, the store of the SDK is one
\* line of checked headers from height 0 on, and its work counts each header
\* once.
THEOREM SdkStoreIsOneLine == SyncSpec => []StoreIsOneLine
<1>1. SdkInv => StoreIsOneLine
  BY DEF SdkInv, OneLine, StoreIsOneLine
<1>2. QED
  BY <1>1, SdkInitInv, SdkNextInv, PTL DEF SyncSpec

=============================================================================

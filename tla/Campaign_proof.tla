------------------------------ MODULE Campaign_proof ------------------------------
(***************************************************************************)
(* What the comparison of the baselines rests on, for every number of      *)
(* sweeps, payloads, routes, horizons, latencies, ramps and recordings.    *)
(***************************************************************************)
EXTENDS Campaign, FiniteSetTheorems, SequenceTheorems, TLAPS

-----------------------------------------------------------------------------
(***************************************************************************)
(* Extremes.  The finite subsets of a set are well-founded under           *)
(* inclusion; the least element of a set is the one with the fewest below. *)
(***************************************************************************)

\* A collection of finite sets has a member that includes no other.
LEMMA HasSmallestMember ==
  ASSUME NEW U, NEW T \in SUBSET FiniteSubsetsOf(U), T # {}
  PROVE  \E t \in T : \A s \in T : s \subseteq t => s = t
  <1>1. IsWellFoundedOn(StrictSubsetOrdering(U), FiniteSubsetsOf(U))
    BY FS_StrictSubsetOrderingWellFounded
  <1>2. PICK t \in T : \A s \in T : ~(<<s, t>> \in StrictSubsetOrdering(U))
    BY <1>1, WFMin
  <1>3. ASSUME NEW s \in T, s \subseteq t PROVE s = t
    <2>1. s \in SUBSET U /\ t \in SUBSET U
      BY DEF FiniteSubsetsOf
    <2> QED
      BY <1>2, <1>3, <2>1 DEF StrictSubsetOrdering
  <1> QED
    BY <1>3

\* A set of natural numbers has a least element.
LEMMA LeastNatural ==
  ASSUME NEW S \in SUBSET Nat, S # {}
  PROVE  Min(S) \in S /\ \A y \in S : Min(S) <= y
  <1>1. IsWellFoundedOn({ss \in Nat \X Nat : ss[1] < ss[2]}, Nat)
    BY NatLessThanWellFounded DEF OpToRel
  <1>2. PICK x \in S : \A y \in S : ~(<<y, x>> \in {ss \in Nat \X Nat : ss[1] < ss[2]})
    BY <1>1, WFMin
  <1>3. \A y \in S : ~(y < x)
    BY <1>2
  <1>4. \A y \in S : x <= y
    BY <1>3
  <1> QED
    BY <1>4 DEF Min

\* A finite set of integers has a least and a greatest element.
LEMMA Extremes ==
  ASSUME NEW S \in SUBSET Int, S # {}, IsFiniteSet(S)
  PROVE  /\ Min(S) \in S /\ \A y \in S : Min(S) <= y
         /\ Max(S) \in S /\ \A y \in S : y <= Max(S)
  <1>1. \E x \in S : \A y \in S : x <= y
    <2> DEFINE Below(x) == {y \in S : y < x}
               T == {Below(x) : x \in S}
    <2>0. \A x \in S : Below(x) \in SUBSET S /\ IsFiniteSet(Below(x))
      <3> TAKE x \in S
      <3>1. Below(x) \in SUBSET S
        OBVIOUS
      <3> QED
        BY <3>1, FS_Subset
    <2>1. T \in SUBSET FiniteSubsetsOf(S) /\ T # {}
      <3> HIDE DEF Below
      <3> QED
        BY <2>0 DEF FiniteSubsetsOf
    <2>2. PICK t \in T : \A s \in T : s \subseteq t => s = t
      <3> HIDE DEF T
      <3> QED
        BY <2>1, HasSmallestMember
    <2>3. PICK x \in S : t = Below(x)
      OBVIOUS
    <2>4. ASSUME NEW y \in S, y < x PROVE FALSE
      <3>1. Below(y) \subseteq Below(x)
        <4>1. \A z \in S : z < y => z < x
          BY <2>4
        <4> QED
          BY <4>1
      <3>0. Below(y) \in T
        OBVIOUS
      <3>2. Below(y) = Below(x) /\ y \in Below(x)
        BY <2>2, <2>3, <2>4, <3>0, <3>1
      <3> QED
        BY <3>2
    <2> QED
      BY <2>4
  <1>2. \E x \in S : \A y \in S : y <= x
    <2> DEFINE Above(x) == {y \in S : x < y}
               T == {Above(x) : x \in S}
    <2>0. \A x \in S : Above(x) \in SUBSET S /\ IsFiniteSet(Above(x))
      <3> TAKE x \in S
      <3>1. Above(x) \in SUBSET S
        OBVIOUS
      <3> QED
        BY <3>1, FS_Subset
    <2>1. T \in SUBSET FiniteSubsetsOf(S) /\ T # {}
      <3> HIDE DEF Above
      <3> QED
        BY <2>0 DEF FiniteSubsetsOf
    <2>2. PICK t \in T : \A s \in T : s \subseteq t => s = t
      <3> HIDE DEF T
      <3> QED
        BY <2>1, HasSmallestMember
    <2>3. PICK x \in S : t = Above(x)
      OBVIOUS
    <2>4. ASSUME NEW y \in S, x < y PROVE FALSE
      <3>1. Above(y) \subseteq Above(x)
        <4>1. \A z \in S : y < z => x < z
          BY <2>4
        <4> QED
          BY <4>1
      <3>0. Above(y) \in T
        OBVIOUS
      <3>2. Above(y) = Above(x) /\ y \in Above(x)
        BY <2>2, <2>3, <2>4, <3>0, <3>1
      <3> QED
        BY <3>2
    <2> QED
      BY <2>4
  <1> QED
    BY <1>1, <1>2 DEF Min, Max

-----------------------------------------------------------------------------
(***************************************************************************)
(* The messages of a bag.                                                  *)
(***************************************************************************)

\* A sequence has finitely many elements.
LEMMA ElementsAreFinite ==
  ASSUME NEW X, NEW s \in Seq(X)
  PROVE  /\ ToSet(s) \subseteq X /\ IsFiniteSet(ToSet(s))
         /\ Len(s) \in Nat /\ DOMAIN s = 1 .. Len(s)
         /\ s = <<>> <=> ToSet(s) = {}
  <1>1. Len(s) \in Nat /\ DOMAIN s = 1 .. Len(s) /\ \A i \in DOMAIN s : s[i] \in X
    OBVIOUS
  <1>2. ToSet(s) \subseteq X
    BY <1>1 DEF ToSet
  <1>3. s \in Surjection(1 .. Len(s), ToSet(s))
    BY <1>1 DEF Surjection, ToSet
  <1>4. IsFiniteSet(1 .. Len(s))
    BY <1>1, FS_Interval
  <1>5. IsFiniteSet(ToSet(s))
    BY <1>3, <1>4, FS_Surjection
  <1>6. s = <<>> <=> ToSet(s) = {}
    <2>1. s = <<>> <=> Len(s) = 0
      OBVIOUS
    <2>2. Len(s) = 0 <=> DOMAIN s = {}
      <3>1. Len(s) # 0 => 1 \in 1 .. Len(s)
        BY <1>1
      <3>2. Len(s) = 0 => 1 .. Len(s) = {}
        OBVIOUS
      <3> QED
        BY <1>1, <3>1, <3>2
    <2> QED
      BY <2>1, <2>2 DEF ToSet
  <1> QED
    BY <1>1, <1>2, <1>5, <1>6

\* A bag with joint states has a last one.
LEMMA FinalIsLast ==
  ASSUME NEW joints \in Seq(JointState), joints # <<>>
  PROVE  /\ Final(joints) \in ToSet(joints)
         /\ \A k \in ToSet(joints) : k.at <= Final(joints).at
  <1> DEFINE S == ToSet(joints)
             f == [j \in S |-> j.at]
             T == {j.at : j \in S}
  <1>1. S \subseteq JointState /\ IsFiniteSet(S) /\ S # {}
    BY ElementsAreFinite
  <1>2. f \in Surjection(S, T)
    BY DEF Surjection
  <1>3. IsFiniteSet(T)
    BY <1>1, <1>2, FS_Surjection
  <1>4. T \in SUBSET Int /\ T # {}
    BY <1>1 DEF JointState
  <1>5. Max(T) \in T /\ \A y \in T : y <= Max(T)
    <2> HIDE DEF T
    <2> QED
      BY <1>3, <1>4, Extremes
  <1>6. PICK j \in S : j.at = Max(T)
    BY <1>5
  <1>7. \A k \in S : k.at <= j.at
    BY <1>5, <1>6
  <1> QED
    BY <1>7 DEF Final

\* Of a set of joint states, when the ones with some property were recorded.
LEMMA TimesAreFinite ==
  ASSUME NEW joints \in Seq(JointState), NEW S \in SUBSET ToSet(joints)
  PROVE  LET T == {j.at : j \in S} IN T \in SUBSET Int /\ IsFiniteSet(T)
  <1> DEFINE f == [j \in S |-> j.at]
             T == {j.at : j \in S}
  <1>1. S \subseteq JointState /\ IsFiniteSet(S)
    BY ElementsAreFinite, FS_Subset
  <1>2. f \in Surjection(S, T)
    BY DEF Surjection
  <1>3. IsFiniteSet(T)
    BY <1>1, <1>2, FS_Surjection
  <1> QED
    BY <1>1, <1>3 DEF JointState

\* A successful run had its last error before the settle window.
LEMMA SustainedSuccess ==
  ASSUME NEW joints \in Seq(JointState), joints # <<>>, TaskSuccess(joints), Settle \in Int, Tolerance \in Int,
         NEW bad \in ToSet(joints), bad.whole, ~(bad.err <= Tolerance)
  PROVE  LastViolation(joints) < Final(joints).at - Settle
  <1> DEFINE S == ToSet(joints)
             wrong == {k \in S : k.whole /\ k.err > Tolerance}
             T == {j.at : j \in wrong}
             all == {j.at : j \in S}
  <1>1. Final(joints) \in S /\ S \subseteq JointState
    BY FinalIsLast, ElementsAreFinite
  <1>2. bad \in wrong /\ wrong \in SUBSET S
    BY <1>1 DEF JointState
  <1>3. ASSUME NEW j \in wrong PROVE j.at \in Int /\ j.at < Final(joints).at - Settle
    <2> DEFINE final == Final(joints)
    <2>1. final.at \in Int /\ j \in ToSet(joints) /\ j.at \in Int /\ j.err \in Int
      BY <1>1 DEF JointState
    <2>2. j.whole /\ j.err > Tolerance
      OBVIOUS
    <2>3. j \notin Window(joints)
      BY <2>1, <2>2 DEF TaskSuccess
    <2>4. ~(j.at >= final.at - Settle)
      BY <2>1, <2>2, <2>3 DEF Window
    <2> HIDE DEF final
    <2>5. j.at < final.at - Settle
      BY <2>1, <2>4
    <2> QED
      BY <2>1, <2>5 DEF final
  <1>4. T \in SUBSET Int /\ IsFiniteSet(T) /\ all \in SUBSET Int /\ IsFiniteSet(all)
    BY <1>2, TimesAreFinite
  <1>5. Min(all) \in all /\ Min(all) <= bad.at
    <2>1. bad.at \in all
      OBVIOUS
    <2> HIDE DEF all
    <2> QED
      BY <1>4, <2>1, Extremes
  <1>6. Min(all) \in Int /\ Min(all) < Final(joints).at - Settle
    <2> DEFINE least == Min(all)
               final == Final(joints)
    <2>1. least \in Int /\ least <= bad.at
      BY <1>4, <1>5
    <2>2. bad.at \in Int /\ bad.at < final.at - Settle
      BY <1>2, <1>3
    <2>3. final.at \in Int
      BY <1>1 DEF JointState
    <2> HIDE DEF least, final
    <2>4. least < final.at - Settle
      BY <2>1, <2>2, <2>3
    <2> QED
      BY <2>1, <2>4 DEF least, final
  <1> DEFINE U == {Min(all)} \cup T
  <1>7. U \in SUBSET Int /\ IsFiniteSet(U) /\ U # {}
    <2> HIDE DEF T, all
    <2>1. IsFiniteSet({Min(all)})
      BY FS_Singleton
    <2> QED
      BY <1>4, <1>6, <2>1, FS_Union
  <1>8. Max(U) \in U
    <2> HIDE DEF U
    <2> QED
      BY <1>7, Extremes
  <1>9. LastViolation(joints) = Max(U)
    BY DEF LastViolation
  <1> QED
    BY <1>3, <1>6, <1>8, <1>9

\* The interval from 1 to n has n elements.
LEMMA IntervalFromOne ==
  ASSUME NEW n \in Nat
  PROVE  IsFiniteSet(1 .. n) /\ Cardinality(1 .. n) = n
  <1>1. IsFiniteSet(1 .. n) /\ Cardinality(1 .. n) = IF 1 > n THEN 0 ELSE n - 1 + 1
    BY FS_Interval
  <1> QED
    BY <1>1

\* The messages, each of which has its rank: the number of those up to its time.
Rank(S, d) == Cardinality({e \in S : e.at <= d.at})

\* Of distinct messages, each rank up to their number is that of exactly one.
LEMMA RanksAreBijective ==
  ASSUME NEW X, \A x \in X : x.at \in Int, NEW s \in Seq(X), Distinct(s)
  PROVE  LET S == ToSet(s)
         IN  /\ Cardinality(S) = Len(s)
             /\ \A d \in S : Rank(S, d) \in 1 .. Len(s)
             /\ \A d, e \in S : Rank(S, d) = Rank(S, e) => d = e
             /\ \A n \in 1 .. Len(s) : \E d \in S : Rank(S, d) = n
  <1> DEFINE S == ToSet(s)
             Upto(d) == {e \in S : e.at <= d.at}
             f == [d \in S |-> Rank(S, d)]
  <1>1. S \subseteq X /\ IsFiniteSet(S) /\ Len(s) \in Nat /\ DOMAIN s = 1 .. Len(s)
    BY ElementsAreFinite
  <1>2. Cardinality(S) = Len(s)
    <2>1. s \in Surjection(1 .. Len(s), S)
      BY <1>1 DEF Surjection, ToSet
    <2>2. IsInjective(s)
      BY <1>1 DEF Distinct, IsInjective
    <2>3. s \in Injection(1 .. Len(s), S)
      BY <2>1, <2>2 DEF Surjection, Injection
    <2>4. IsFiniteSet(1 .. Len(s)) /\ Cardinality(1 .. Len(s)) = Len(s)
      BY <1>1, IntervalFromOne
    <2> HIDE DEF S
    <2>5. Cardinality(S) = Cardinality(1 .. Len(s))
      BY <2>1, <2>3, <2>4, FS_Surjection
    <2> QED
      BY <2>4, <2>5
  <1>3. \A d \in S : Upto(d) \in SUBSET S /\ IsFiniteSet(Upto(d)) /\ d \in Upto(d)
    <2> TAKE d \in S
    <2>1. Upto(d) \in SUBSET S /\ d \in Upto(d)
      BY <1>1
    <2> QED
      BY <1>1, <2>1, FS_Subset
  <1>4. \A d \in S : Rank(S, d) \in 1 .. Len(s)
    <2> TAKE d \in S
    <2>1. Upto(d) \in SUBSET S /\ IsFiniteSet(Upto(d)) /\ Upto(d) # {}
      BY <1>3
    <2> HIDE DEF S
    <2>2. Cardinality(Upto(d)) \in Nat /\ Cardinality(Upto(d)) <= Cardinality(S)
      BY <1>1, <2>1, FS_Subset, FS_CardinalityType
    <2>3. Cardinality(Upto(d)) # 0
      BY <2>1, FS_EmptySet
    <2> QED
      BY <1>1, <1>2, <2>2, <2>3 DEF Rank
  <1>5. \A d, e \in S : Rank(S, d) = Rank(S, e) => d = e
    <2>1. ASSUME NEW d \in S, NEW e \in S, Rank(S, d) = Rank(S, e), d.at <= e.at
          PROVE  d = e
      <3>1. Upto(d) \in SUBSET Upto(e)
        <4>1. d.at \in Int /\ e.at \in Int /\ \A z \in S : z.at \in Int
          BY <1>1
        <4>2. \A z \in S : z.at <= d.at => z.at <= e.at
          BY <2>1, <4>1
        <4> QED
          BY <4>2
      <3>2. IsFiniteSet(Upto(e)) /\ Cardinality(Upto(e)) = Cardinality(Upto(d))
        BY <1>3, <2>1 DEF Rank
      <3>3. Upto(e) = Upto(d)
        BY <3>1, <3>2, FS_Subset
      <3>4. e.at <= d.at
        BY <1>3, <3>3
      <3>5. d.at = e.at
        BY <1>1, <2>1, <3>4
      <3> QED
        BY <1>1, <3>5 DEF Distinct, ToSet
    <2>2. \A d, e \in S : d.at <= e.at \/ e.at <= d.at
      BY <1>1
    <2> HIDE DEF S
    <2> QED
      BY <2>1, <2>2
  <1>6. \A n \in 1 .. Len(s) : \E d \in S : Rank(S, d) = n
    <2> HIDE DEF S
    <2>1. f \in Injection(S, 1 .. Len(s))
      BY <1>4, <1>5 DEF Injection, IsInjective
    <2>2. IsFiniteSet(1 .. Len(s)) /\ Cardinality(1 .. Len(s)) = Len(s)
      BY <1>1, IntervalFromOne
    <2>3. f \in Surjection(S, 1 .. Len(s))
      BY <1>2, <2>1, <2>2, FS_Injection
    <2> QED
      BY <2>3 DEF Surjection
  <1> QED
    BY <1>2, <1>4, <1>5, <1>6

\* Sorting keeps the messages and puts each behind those recorded before it.
LEMMA SortingKeeps ==
  ASSUME NEW X, \A x \in X : x.at \in Int, NEW s \in Seq(X), Distinct(s)
  PROVE  /\ InTime(s) \in Seq(X) /\ Len(InTime(s)) = Len(s)
         /\ DOMAIN InTime(s) = DOMAIN s
         /\ ToSet(InTime(s)) = ToSet(s)
         /\ Distinct(InTime(s))
         /\ \A n \in DOMAIN s : Rank(ToSet(s), InTime(s)[n]) = n
  <1> DEFINE S == ToSet(s)
             t == InTime(s)
  <1>1. S \subseteq X /\ Len(s) \in Nat /\ DOMAIN s = 1 .. Len(s)
    BY ElementsAreFinite
  <1>2. /\ \A d \in S : Rank(S, d) \in 1 .. Len(s)
        /\ \A d, e \in S : Rank(S, d) = Rank(S, e) => d = e
        /\ \A n \in 1 .. Len(s) : \E d \in S : Rank(S, d) = n
    BY RanksAreBijective
  <1>3. t = [n \in DOMAIN s |-> CHOOSE d \in S : Rank(S, d) = n]
    BY DEF InTime, Rank
  <1> HIDE DEF S, t
  <1>4. \A n \in DOMAIN s : t[n] \in S /\ Rank(S, t[n]) = n
    BY <1>1, <1>2, <1>3
  <1>5. DOMAIN t = DOMAIN s /\ t \in [1 .. Len(s) -> X]
    BY <1>1, <1>3, <1>4
  <1>6. t \in Seq(X) /\ Len(t) = Len(s)
    BY <1>1, <1>5
  <1>7. ToSet(t) = S
    <2>1. \A d \in S : d = t[Rank(S, d)]
      BY <1>1, <1>2, <1>4
    <2> QED
      BY <1>1, <1>2, <1>4, <1>5, <2>1 DEF ToSet
  <1>8. Distinct(t)
    <2> SUFFICES ASSUME NEW i \in DOMAIN s, NEW j \in DOMAIN s, t[i].at = t[j].at PROVE i = j
      BY <1>5 DEF Distinct
    <2>1. Rank(S, t[i]) = Rank(S, t[j])
      BY DEF Rank
    <2> QED
      BY <1>4, <2>1
  <1> QED
    BY <1>4, <1>5, <1>6, <1>7, <1>8 DEF S, t

\* Sorting again changes nothing.
LEMMA SortedStays ==
  ASSUME NEW X, \A x \in X : x.at \in Int, NEW s \in Seq(X), Distinct(s)
  PROVE  InTime(InTime(s)) = InTime(s)
  <1>1. DOMAIN InTime(s) = DOMAIN s /\ ToSet(InTime(s)) = ToSet(s)
    BY SortingKeeps
  <1>2. \A r : InTime(r) = [n \in DOMAIN r |-> CHOOSE d \in ToSet(r) : Rank(ToSet(r), d) = n]
    BY DEF InTime, Rank
  <1> DEFINE t == InTime(s)
  <1>3. InTime(t) = [n \in DOMAIN s |-> CHOOSE d \in ToSet(s) : Rank(ToSet(s), d) = n]
    BY <1>1, <1>2
  <1> QED
    BY <1>2, <1>3

\* As many messages act after the sort as before it.
LEMMA SamplesAreKept ==
  ASSUME NEW diag \in Seq(Diagnostic), Distinct(diag)
  PROVE  Samples(diag) = Cardinality({d \in ToSet(diag) : d.acts})
  <1> DEFINE N == {n \in DOMAIN diag : diag[n].acts}
             A == {d \in ToSet(diag) : d.acts}
             f == [n \in N |-> diag[n]]
  <1>1. DOMAIN diag = 1 .. Len(diag) /\ Len(diag) \in Nat
    OBVIOUS
  <1>2. f \in Injection(N, A)
    BY DEF Injection, IsInjective, Distinct, ToSet
  <1>3. f \in Surjection(N, A)
    BY DEF Surjection, ToSet
  <1>4. IsFiniteSet(N)
    <2>1. IsFiniteSet(1 .. Len(diag)) /\ N \in SUBSET (1 .. Len(diag))
      BY <1>1, IntervalFromOne
    <2> QED
      BY <2>1, FS_Subset
  <1> HIDE DEF N, A, f
  <1>5. Cardinality(A) = Cardinality(N)
    BY <1>2, <1>3, <1>4, FS_Surjection
  <1> QED
    BY <1>5 DEF Samples, N, A

\* No result depends on the order of the messages.
LEMMA OrderIsIrrelevant ==
  ASSUME NEW b \in BagSet
  PROVE  LET sorted == [b EXCEPT !.joints = InTime(@), !.diag = InTime(@)]
         IN  /\ Compute(b) = Compute(sorted)
             /\ \A t0 : FirstDetection(b.diag, t0) = FirstDetection(sorted.diag, t0)
  <1> DEFINE sorted == [b EXCEPT !.joints = InTime(@), !.diag = InTime(@)]
             js == InTime(b.joints)
             ds == InTime(b.diag)
  <1>1. /\ b.joints \in Seq(JointState) /\ Distinct(b.joints)
        /\ b.diag \in Seq(Diagnostic) /\ Distinct(b.diag)
    BY DEF BagSet
  <1>2. /\ sorted.joints = js /\ sorted.diag = ds /\ sorted.sent = b.sent
        /\ sorted.routes = b.routes /\ sorted.routed = b.routed
    BY DEF BagSet
  <1>3. ToSet(js) = ToSet(b.joints)
    BY <1>1, SortingKeeps DEF JointState
  <1>4. /\ ds \in Seq(Diagnostic) /\ Distinct(ds) /\ ToSet(ds) = ToSet(b.diag)
        /\ DOMAIN ds = DOMAIN b.diag /\ InTime(ds) = ds /\ Len(ds) = Len(b.diag)
    BY <1>1, SortingKeeps, SortedStays DEF Diagnostic
  <1> HIDE DEF sorted, js, ds
  <1>5. Final(js) = Final(b.joints)
    BY <1>3 DEF Final
  <1>6. TaskSuccess(js) = TaskSuccess(b.joints)
    BY <1>3, <1>5 DEF TaskSuccess, Window
  <1>7. LastViolation(js) = LastViolation(b.joints)
    BY <1>3 DEF LastViolation
  <1>8. PlanningLatency(sorted) = PlanningLatency(b)
    BY <1>2, <1>3 DEF PlanningLatency
  <1>9. ExecutionDuration(sorted) = ExecutionDuration(b)
    BY <1>2, <1>7 DEF ExecutionDuration
  <1>10. MinMargin(ds) = MinMargin(b.diag)
    BY <1>4 DEF MinMargin
  <1>11. ds = <<>> <=> b.diag = <<>>
    BY <1>1, <1>4, ElementsAreFinite
  <1>12. Samples(ds) = Samples(b.diag)
    BY <1>1, <1>4, SamplesAreKept
  <1>13. Episodes(ds) = Episodes(b.diag)
    BY <1>4 DEF Episodes, ds
  <1>14. Compute(sorted) = Compute(b)
    BY <1>2, <1>6, <1>8, <1>9, <1>10, <1>11, <1>12, <1>13 DEF Compute
  <1>15. \A t0 : FirstDetection(b.diag, t0) = FirstDetection(ds, t0)
    BY <1>4 DEF FirstDetection, ds
  <1> QED
    BY <1>2, <1>14, <1>15 DEF sorted

-----------------------------------------------------------------------------
(***************************************************************************)
(* Predictions and their observations.                                     *)
(***************************************************************************)

\* Among finitely many observations there is a nearest one.
LEMMA NearestExists ==
  ASSUME NEW L \in SUBSET Diagnostic, IsFiniteSet(L), L # {}, NEW t \in Int
  PROVE  Nearest(L, t) \in L
  <1> DEFINE D == {Distance(o.stamp, t) : o \in L}
             f == [o \in L |-> Distance(o.stamp, t)]
  <1>0. \A o \in L : o.stamp \in Int /\ Distance(o.stamp, t) \in Int
    BY DEF Diagnostic, Distance
  <1>1. D \in SUBSET Int /\ D # {} /\ IsFiniteSet(D)
    <2>1. f \in Surjection(L, D)
      BY DEF Surjection
    <2>2. IsFiniteSet(D)
      BY <2>1, FS_Surjection
    <2> QED
      BY <1>0, <2>2
  <1>2. Min(D) \in D /\ \A y \in D : Min(D) <= y
    <2> HIDE DEF D
    <2> QED
      BY <1>1, Extremes
  <1> DEFINE C == {o \in L : Distance(o.stamp, t) = Min(D)}
             T == {o.stamp : o \in C}
             g == [o \in C |-> o.stamp]
  <1>3. C \in SUBSET L /\ C # {}
    BY <1>2
  <1>4. T \in SUBSET Int /\ T # {} /\ IsFiniteSet(T)
    <2>1. g \in Surjection(C, T)
      BY DEF Surjection
    <2>2. IsFiniteSet(C)
      BY <1>3, FS_Subset
    <2>3. IsFiniteSet(T)
      BY <2>1, <2>2, FS_Surjection
    <2> QED
      BY <1>0, <1>3, <2>3
  <1>5. Min(T) \in T /\ \A y \in T : Min(T) <= y
    <2> HIDE DEF T
    <2> QED
      BY <1>4, Extremes
  <1>6. PICK o \in C : o.stamp = Min(T)
    BY <1>5
  <1>7. \A p \in L : \/ Distance(o.stamp, t) < Distance(p.stamp, t)
                     \/ Distance(o.stamp, t) = Distance(p.stamp, t) /\ o.stamp <= p.stamp
    <2> TAKE p \in L
    <2>1. Distance(o.stamp, t) = Min(D) /\ Min(D) <= Distance(p.stamp, t)
      BY <1>2, <1>6
    <2>2. CASE Distance(p.stamp, t) = Min(D)
      BY <1>5, <1>6, <2>1, <2>2
    <2> QED
      BY <1>0, <1>1, <1>2, <2>1, <2>2
  <1> QED
    BY <1>3, <1>6, <1>7 DEF Nearest

\* The observation a prediction is validated by is the one it is about.
LEMMA ValidationIsExact ==
  ASSUME NEW diag \in Seq(Diagnostic), Period = 1, NEW pair \in Validated(diag)
  PROVE  pair[2].stamp = pair[1].stamp + pair[1].bind * Period
  <1> DEFINE samples == {d \in ToSet(diag) : d.margin # None}
             Due(d) == d.stamp + d.bind * Period
             Later(d) == {o \in samples : o.stamp > d.stamp}
  <1>1. PICK d \in samples : /\ pair = <<d, Nearest(Later(d), Due(d))>>
                             /\ Later(d) # {}
                             /\ Close(Distance(Nearest(Later(d), Due(d)).stamp, Due(d)))
    BY DEF Validated
  <1>2. ToSet(diag) \subseteq Diagnostic /\ IsFiniteSet(ToSet(diag))
    BY ElementsAreFinite
  <1>3. Later(d) \in SUBSET ToSet(diag) /\ IsFiniteSet(Later(d))
    <2>1. Later(d) \in SUBSET ToSet(diag)
      OBVIOUS
    <2> QED
      BY <1>2, <2>1, FS_Subset
  <1>4. Due(d) \in Int
    BY <1>2 DEF Diagnostic
  <1>5. Nearest(Later(d), Due(d)) \in Diagnostic
    <2> HIDE DEF Later, Due
    <2> QED
      BY <1>1, <1>2, <1>3, <1>4, NearestExists
  <1> DEFINE o == Nearest(Later(d), Due(d))
  <1>6. o.stamp \in Int /\ 2 * Distance(o.stamp, Due(d)) <= 1
    BY <1>1, <1>5 DEF Close, Diagnostic
  <1> HIDE DEF o
  <1>7. o.stamp = Due(d)
    <2> HIDE DEF Due
    <2> QED
      BY <1>4, <1>6 DEF Distance
  <1> QED
    BY <1>1, <1>7 DEF o

-----------------------------------------------------------------------------
(***************************************************************************)
(* What a run of exp3 records.                                             *)
(***************************************************************************)

LEMMA WithoutOne ==
  ASSUME NEW X, NEW s \in Seq(X), NEW n \in 1 .. Len(s)
  PROVE  /\ RemoveAt(s, n) \in Seq(X)
         /\ Len(RemoveAt(s, n)) = Len(s) - 1
         /\ \A i \in 1 .. Len(s) - 1 : RemoveAt(s, n)[i] = IF i < n THEN s[i] ELSE s[i + 1]
  <1> DEFINE a == SubSeq(s, 1, n - 1)
             b == SubSeq(s, n + 1, Len(s))
  <1>1. a \in Seq(X) /\ Len(a) = n - 1 /\ \A i \in 1 .. n - 1 : a[i] = s[i]
    OBVIOUS
  <1>2. b \in Seq(X) /\ Len(b) = Len(s) - n /\ \A i \in 1 .. Len(s) - n : b[i] = s[n + i]
    OBVIOUS
  <1>3. RemoveAt(s, n) = a \o b
    BY DEF RemoveAt
  <1> HIDE DEF a, b
  <1>4. a \o b \in Seq(X) /\ Len(a \o b) = Len(s) - 1
    <2>1. a \o b \in Seq(X) /\ Len(a \o b) = Len(a) + Len(b)
      BY <1>1, <1>2, ConcatProperties
    <2> QED
      BY <1>1, <1>2, <2>1
  <1>5. \A i \in 1 .. Len(s) - 1 : (a \o b)[i] = IF i < n THEN s[i] ELSE s[i + 1]
    <2> TAKE i \in 1 .. Len(s) - 1
    <2>1. CASE i < n
      BY <1>1, <1>2, <2>1
    <2>2. CASE ~(i < n)
      <3>1. (a \o b)[i] = b[i - (n - 1)] /\ i - (n - 1) \in 1 .. Len(s) - n
        BY <1>1, <1>2, <2>2
      <3> QED
        BY <1>2, <2>2, <3>1
    <2> QED
      BY <2>1, <2>2
  <1> QED
    BY <1>3, <1>4, <1>5

\* The reader returns the same messages, in whatever order.
LEMMA ReadingKeeps ==
  ASSUME NEW X, \A x \in X : x.at \in Int, NEW s \in Seq(X), Len(s) >= 1, Distinct(s),
         NEW r \in Read(s)
  PROVE  r \in Seq(X) /\ Len(r) = Len(s) /\ ToSet(r) = ToSet(s) /\ Distinct(r)
  <1>1. CASE r = s
    BY <1>1
  <1>2. CASE r = <<Last(s)>> \o Front(s)
    <2> DEFINE f == Front(s)
               n == Len(s)
    <2>0. n \in Nat /\ n >= 1
      OBVIOUS
    <2>1. f \in Seq(X) /\ Len(f) = n - 1 /\ \A i \in 1 .. n - 1 : f[i] = s[i]
      <3>1. f = SubSeq(s, 1, n - 1)
        BY DEF Front
      <3> HIDE DEF f
      <3>2. f \in Seq(X) /\ Len(f) = n - 1
        <4>1. \A i \in 1 .. n - 1 : s[i] \in X
          BY <2>0
        <4>2. 1 \in Int /\ n - 1 \in Int
          BY <2>0
        <4>3. f \in Seq(X) /\ Len(f) = IF 1 <= n - 1 THEN (n - 1) - 1 + 1 ELSE 0
          BY <3>1, <4>1, <4>2, SubSeqProperties
        <4> HIDE DEF n
        <4> QED
          BY <2>0, <4>3
      <3>3. \A i \in 1 .. n - 1 : f[i] = s[i]
        BY <3>1
      <3> QED
        BY <3>2, <3>3
    <2>2. Last(s) = s[n] /\ s[n] \in X
      BY DEF Last
    <2> HIDE DEF f
    <2>3. r \in Seq(X) /\ Len(r) = n /\ r[1] = s[n] /\ \A i \in 2 .. n : r[i] = s[i - 1]
      <3>1. r = <<s[n]>> \o f
        BY <1>2, <2>2 DEF f
      <3>2. <<s[n]>> \in Seq(X) /\ Len(<<s[n]>>) = 1
        BY <2>2
      <3>3. r \in Seq(X) /\ Len(r) = n /\ r[1] = s[n]
        BY <2>1, <2>2, <3>1, <3>2
      <3>4. \A i \in 2 .. n : r[i] = f[i - 1]
        BY <2>1, <2>2, <3>1, <3>2
      <3> QED
        BY <2>1, <3>3, <3>4
    <2> HIDE DEF n
    <2>4. DOMAIN r = 1 .. n /\ DOMAIN s = 1 .. n
      BY <2>3 DEF n
    <2>5. \A i \in 1 .. n : \E j \in 1 .. n : r[i] = s[j]
      <3> TAKE i \in 1 .. n
      <3>1. CASE i = 1
        <4>1. n \in 1 .. n /\ r[i] = s[n]
          BY <2>0, <2>3, <3>1
        <4> QED
          BY <4>1
      <3>2. CASE i # 1
        <4>1. i \in 2 .. n /\ i - 1 \in 1 .. n
          BY <2>0, <3>2
        <4> QED
          BY <2>3, <4>1
      <3> QED
        BY <3>1, <3>2
    <2>6. \A j \in 1 .. n : \E i \in 1 .. n : r[i] = s[j]
      <3> TAKE j \in 1 .. n
      <3>1. CASE j = n
        <4>1. 1 \in 1 .. n /\ r[1] = s[j]
          BY <2>0, <2>3, <3>1
        <4> QED
          BY <4>1
      <3>2. CASE j # n
        <4>1. j + 1 \in 2 .. n /\ j + 1 \in 1 .. n /\ (j + 1) - 1 = j
          BY <2>0, <3>2
        <4> QED
          BY <2>3, <4>1
      <3> QED
        BY <3>1, <3>2
    <2>7. ToSet(r) = ToSet(s)
      <3>1. ToSet(r) = {r[i] : i \in 1 .. n} /\ ToSet(s) = {s[i] : i \in 1 .. n}
        BY <2>4 DEF ToSet
      <3> QED
        BY <2>5, <2>6, <3>1
    <2>8. Distinct(r)
      <3> SUFFICES ASSUME NEW i \in 1 .. n, NEW j \in 1 .. n, r[i].at = r[j].at PROVE i = j
        BY <2>4 DEF Distinct
      <3> DEFINE h(k) == IF k = 1 THEN n ELSE k - 1
      <3>1. \A k \in 1 .. n : h(k) \in 1 .. n /\ r[k] = s[h(k)]
        BY <2>0, <2>3
      <3>2. h(i) = h(j)
        <4> HIDE DEF h
        <4> QED
          BY <2>4, <3>1 DEF Distinct
      <3> QED
        BY <2>0, <3>2
    <2> QED
      BY <2>3, <2>7, <2>8 DEF n
  <1> QED
    BY <1>1, <1>2 DEF Read

\* A run has left the messages of its cycles, in any order, but for that of one
\* cycle at most.
Recorded(d, name, nodes, latency, heard, hole) ==
  /\ d \in Seq(Diagnostic) /\ Distinct(d) /\ d # <<>>
  /\ hole \in 0 .. Cycles
  /\ ToSet(d) = {Message(name, nodes, latency, heard, k) : k \in (0 .. Cycles - 1) \ {hole}}
  /\ Cycles - Len(d) = IF hole = Cycles THEN 0 ELSE 1

\* A recorded run has the messages of all cycles, or of all but one of them.
LEMMA DiagnosticsAreRecorded ==
  ASSUME NEW name, NEW nodes, NEW latency \in Nat, NEW heard \in BOOLEAN,
         NEW e \in Diagnostics(name, nodes, latency, heard)
  PROVE  Len(e) >= 1 /\ \E hole \in 0 .. Cycles : Recorded(e, name, nodes, latency, heard, hole)
  <1> DEFINE M(k) == Message(name, nodes, latency, heard, k)
             all == [i \in 1 .. Cycles |-> M(i - 1)]
  <1>0. Cycles \in Nat /\ Cycles >= 2
    BY CampaignAssumption
  <1>1. \A k \in 0 .. Cycles - 1 : M(k) \in Diagnostic /\ M(k).at = k
    <2> TAKE k \in 0 .. Cycles - 1
    <2>1. k % HorizonSteps \in Nat
      BY CampaignAssumption
    <2>2. ForceStart + latency + k \in Int
      BY DEF ForceStart
    <2>3. M(k).acts \in BOOLEAN
      BY DEF Message, Acts, Reached
    <2> QED
      BY <2>1, <2>2, <2>3 DEF Message, Diagnostic
  <1>2. e = all \/ \E n \in 1 .. Cycles : e = RemoveAt(all, n)
    BY DEF Diagnostics
  <1> HIDE DEF M
  <1>3. \A i \in 1 .. Cycles : i - 1 \in 0 .. Cycles - 1
    BY <1>0
  <1>4. all \in Seq(Diagnostic) /\ Len(all) = Cycles
    BY <1>0, <1>1, <1>3
  <1>5. ASSUME e = all
        PROVE  /\ e \in Seq(Diagnostic) /\ Len(e) >= 1 /\ Distinct(e)
               /\ \E hole \in 0 .. Cycles :
                    /\ ToSet(e) = {M(k) : k \in (0 .. Cycles - 1) \ {hole}}
                    /\ Cycles - Len(e) = IF hole = Cycles THEN 0 ELSE 1
    <2>1. DOMAIN e = 1 .. Cycles /\ \A i \in 1 .. Cycles : e[i] = M(i - 1)
      BY <1>0, <1>5
    <2>2. Distinct(e)
      BY <1>0, <1>1, <1>3, <2>1 DEF Distinct
    <2>3. ToSet(e) = {M(k) : k \in (0 .. Cycles - 1) \ {Cycles}}
      <3>1. \A k \in 0 .. Cycles - 1 : k + 1 \in 1 .. Cycles /\ (k + 1) - 1 = k /\ k # Cycles
        BY <1>0
      <3>2. ToSet(e) = {e[i] : i \in 1 .. Cycles}
        BY <2>1 DEF ToSet
      <3>3. \A i \in 1 .. Cycles : i - 1 \in (0 .. Cycles - 1) \ {Cycles}
        BY <1>0
      <3>4. \A k \in (0 .. Cycles - 1) \ {Cycles} : e[k + 1] = M(k) /\ k + 1 \in 1 .. Cycles
        BY <2>1, <3>1
      <3> QED
        BY <2>1, <3>2, <3>3, <3>4
    <2>4. Cycles \in 0 .. Cycles /\ Cycles - Len(e) = 0
      BY <1>0, <1>4, <1>5
    <2> QED
      BY <1>0, <1>4, <1>5, <2>2, <2>3, <2>4
  <1>6. ASSUME NEW n \in 1 .. Cycles, e = RemoveAt(all, n)
        PROVE  /\ e \in Seq(Diagnostic) /\ Len(e) = Cycles - 1 /\ Distinct(e)
               /\ ToSet(e) = {M(k) : k \in (0 .. Cycles - 1) \ {n - 1}}
    <2> HIDE DEF all
    <2>1. /\ e \in Seq(Diagnostic) /\ Len(e) = Cycles - 1
          /\ \A i \in 1 .. Cycles - 1 : e[i] = IF i < n THEN all[i] ELSE all[i + 1]
      BY <1>4, <1>6, WithoutOne
    <2> DEFINE h(i) == IF i < n THEN i - 1 ELSE i
    <2>2. \A i \in 1 .. Cycles - 1 : h(i) \in (0 .. Cycles - 1) \ {n - 1} /\ e[i] = M(h(i))
      <3> TAKE i \in 1 .. Cycles - 1
      <3>1. i \in 1 .. Cycles /\ i + 1 \in 1 .. Cycles /\ (i + 1) - 1 = i
        BY <1>0
      <3>2. all[i] = M(i - 1) /\ all[i + 1] = M(i)
        BY <3>1 DEF all
      <3> QED
        BY <1>0, <2>1, <3>2
    <2>3. DOMAIN e = 1 .. Cycles - 1
      BY <1>0, <2>1
    <2>4. Distinct(e)
      <3> SUFFICES ASSUME NEW i \in 1 .. Cycles - 1, NEW j \in 1 .. Cycles - 1, e[i].at = e[j].at
                   PROVE  i = j
        BY <2>3 DEF Distinct
      <3>1. h(i) = h(j)
        <4> HIDE DEF h
        <4> QED
          BY <1>1, <2>2
      <3> QED
        BY <1>0, <3>1
    <2>5. ToSet(e) = {M(k) : k \in (0 .. Cycles - 1) \ {n - 1}}
      <3>1. \A k \in (0 .. Cycles - 1) \ {n - 1} : \E i \in 1 .. Cycles - 1 : h(i) = k
        <4> TAKE k \in (0 .. Cycles - 1) \ {n - 1}
        <4>1. CASE k < n - 1
          <5>1. k + 1 \in 1 .. Cycles - 1 /\ h(k + 1) = k
            BY <1>0, <4>1
          <5> QED
            BY <5>1
        <4>2. CASE ~(k < n - 1)
          <5>1. k \in 1 .. Cycles - 1 /\ h(k) = k
            BY <1>0, <4>2
          <5> QED
            BY <5>1
        <4> QED
          BY <4>1, <4>2
      <3> HIDE DEF h
      <3> QED
        BY <2>2, <2>3, <3>1 DEF ToSet
    <2> QED
      BY <2>1, <2>4, <2>5
  <1>7. ASSUME NEW n \in 1 .. Cycles, e = RemoveAt(all, n)
        PROVE  n - 1 \in 0 .. Cycles /\ n - 1 # Cycles /\ Cycles - Len(e) = 1 /\ Len(e) >= 1
    BY <1>0, <1>6, <1>7
  <1>8. ASSUME NEW n \in 1 .. Cycles, e = RemoveAt(all, n)
        PROVE  /\ e \in Seq(Diagnostic) /\ Len(e) >= 1 /\ Distinct(e)
               /\ \E hole \in 0 .. Cycles :
                    /\ ToSet(e) = {M(k) : k \in (0 .. Cycles - 1) \ {hole}}
                    /\ Cycles - Len(e) = IF hole = Cycles THEN 0 ELSE 1
    <2> HIDE DEF all
    <2> QED
      BY <1>6, <1>7, <1>8
  <1> HIDE DEF all
  <1>9. /\ e \in Seq(Diagnostic) /\ Len(e) >= 1 /\ Distinct(e)
        /\ \E hole \in 0 .. Cycles :
             /\ ToSet(e) = {M(k) : k \in (0 .. Cycles - 1) \ {hole}}
             /\ Cycles - Len(e) = IF hole = Cycles THEN 0 ELSE 1
    BY <1>2, <1>5, <1>8
  <1>10. e # <<>>
    BY <1>9
  <1> QED
    BY <1>9, <1>10 DEF M, Recorded

LogLine == [step : Int, time : Int, margin : Int]

\* The lines of one delivery, and which of them are below the limit.
Delivery(batch, start, beyond) ==
  \A n \in 1 .. Len(batch) : /\ batch[n].step = n - 1 /\ batch[n].time = start + n - 1
                             /\ batch[n].margin < 0 <=> n - 1 \in beyond

\* Of a log that numbers its lines and may start over, the crossing is the first
\* line below the limit before it starts over.
LEMMA FirstLineBelow ==
  ASSUME NEW start \in Int, NEW beyond \in SUBSET Nat,
         NEW batch \in Seq(LogLine), Len(batch) >= 1, Delivery(batch, start, beyond),
         NEW rest \in Seq(LogLine), rest = <<>> \/ (Len(rest) = 1 /\ rest[1].step = 0)
  PROVE  LET t == RouteCrossing(batch \o rest)
         IN \/ t = None
            \/ \E i \in Nat : /\ t = start + i /\ i \in beyond /\ i < Len(batch)
                              /\ \A n \in 0 .. i - 1 : n \notin beyond
  <1> DEFINE log == batch \o rest
             N == Len(batch)
             X == LogLine
  <1>0. /\ N \in Nat /\ N >= 1
        /\ \A n \in 1 .. N : /\ batch[n].step = n - 1 /\ batch[n].time = start + n - 1
                             /\ batch[n].margin < 0 <=> n - 1 \in beyond
    BY DEF Delivery
  <1>1. Len(rest) \in Nat
    OBVIOUS
  <1>2. log \in Seq(X) /\ Len(log) = N + Len(rest)
    BY <1>1, ConcatProperties
  <1>3. \A n \in 1 .. N : log[n] = batch[n]
    BY <1>1, ConcatProperties
  <1>4. \A n \in 1 .. Len(rest) : log[N + n] = rest[n]
    <2> TAKE n \in 1 .. Len(rest)
    <2>1. N + n \in 1 .. N + Len(rest) /\ ~(N + n <= N) /\ (N + n) - N = n
      BY <1>1
    <2> QED
      BY <2>1, ConcatProperties
  <1>5. DOMAIN log = 1 .. N + Len(rest)
    BY <1>2
  <1> USE <1>0
  <1> HIDE DEF log, N
  <1>6. DOMAIN FirstBatch(log) = 1 .. N
    <2> DEFINE restarts == {i \in DOMAIN log : i > 1 /\ log[i].step = 0}
    <2>1. \A n \in 1 .. N : n \notin restarts
      <3> TAKE n \in 1 .. N
      <3>1. log[n].step = n - 1
        BY <1>0, <1>3
      <3> QED
        BY <3>1
    <2>2. CASE rest = <<>>
      <3>1. DOMAIN log = 1 .. N
        BY <1>5, <2>2
      <3>2. restarts = {}
        BY <2>1, <3>1
      <3> QED
        BY <3>1, <3>2 DEF FirstBatch
    <2>3. CASE Len(rest) = 1 /\ rest[1].step = 0
      <3>1. DOMAIN log = 1 .. N + 1
        BY <1>5, <2>3
      <3>2. restarts = {N + 1}
        <4>1. log[N + 1].step = 0
          BY <1>4, <2>3
        <4>2. N + 1 \in restarts
          BY <3>1, <4>1
        <4>3. \A i \in 1 .. N + 1 : i \in 1 .. N \/ i = N + 1
          OBVIOUS
        <4>4. restarts \subseteq 1 .. N + 1
          BY <3>1
        <4> HIDE DEF restarts
        <4> QED
          BY <2>1, <4>2, <4>3, <4>4
      <3>3. Min({N + 1}) = N + 1
        BY DEF Min
      <3>4. FirstBatch(log) = SubSeq(log, 1, N)
        <4>1. (N + 1) - 1 = N
          OBVIOUS
        <4>2. FirstBatch(log) = IF restarts = {} THEN log ELSE SubSeq(log, 1, Min(restarts) - 1)
          BY DEF FirstBatch
        <4> HIDE DEF restarts
        <4>3. restarts # {} /\ Min(restarts) = N + 1
          BY <3>2, <3>3
        <4> QED
          BY <4>1, <4>2, <4>3
      <3>5. DOMAIN SubSeq(log, 1, N) = 1 .. N
        BY <1>2
      <3> QED
        BY <3>4, <3>5
    <2> QED
      BY <2>2, <2>3
  <1> DEFINE below == {n \in 1 .. N : log[n].margin < 0}
  <1>7. RouteCrossing(log) = IF below = {} THEN None ELSE log[Min(below)].time
    BY <1>6 DEF RouteCrossing
  <1>8. \A n \in 1 .. N : n \in below <=> n - 1 \in beyond
    BY <1>0, <1>3
  <1>9. below \in SUBSET (1 .. N)
    OBVIOUS
  <1> HIDE DEF below
  <1>10. CASE below # {}
    <2>1. below \in SUBSET Nat
      BY <1>9
    <2>2. Min(below) \in below /\ \A n \in below : Min(below) <= n
      BY <1>10, <2>1, LeastNatural
    <2> DEFINE m == Min(below)
               i == m - 1
    <2> HIDE DEF m
    <2>3. m \in 1 .. N /\ m \in below /\ (\A n \in below : m <= n)
      BY <1>9, <2>2 DEF m
    <2>4. i \in beyond /\ i \in Nat /\ i < N
      BY <1>8, <2>3
    <2>5. \A n \in 0 .. i - 1 : n \notin beyond
      <3> TAKE n \in 0 .. i - 1
      <3>1. n + 1 \in 1 .. N /\ (n + 1) - 1 = n /\ ~(m <= n + 1)
        BY <2>3
      <3> QED
        BY <1>8, <2>3, <3>1
    <2>6. log[m].time = start + i
      <3>1. log[m] = batch[m] /\ batch[m].time = start + m - 1
        BY <1>0, <1>3, <2>3
      <3> QED
        BY <2>3, <3>1
    <2>7. RouteCrossing(log) = start + i
      BY <1>7, <1>10, <2>6 DEF m
    <2> HIDE DEF i
    <2> QED
      BY <2>4, <2>5, <2>7 DEF log, N
  <1> QED
    BY <1>7, <1>10 DEF log, N

\* The route as pretracked is beyond its limit at schedule time t, and not before.
FirstBeyond(t, stretch, start) ==
  \E i \in Nat :
    /\ t = start + i
    /\ Reached(i \div stretch, start + i, ramp.cross)
    /\ \A n \in 0 .. i - 1 : ~Reached(n \div stretch, start + n, ramp.cross)

\* The crossing read from a log is the first step at which the route as pretracked
\* is beyond its limit; a second delivery of the route is not looked at.
LEMMA CrossingIsFirst ==
  ASSUME NEW nodes, nodes.told.ahead, NEW stretch \in Stretches, NEW start \in Nat, NEW again \in BOOLEAN
  PROVE  LET t == RouteCrossing(RouteLog(nodes, stretch, start, again))
         IN  t = None \/ FirstBeyond(t, stretch, start)
  <1> DEFINE N == stretch * Cycles + Extension
             beyond == {i \in Nat : Reached(i \div stretch, start + i, ramp.cross)}
             Line(i) == [step |-> i, time |-> start + i,
                         margin |-> IF nodes.told.ahead /\ Reached(i \div stretch, start + i, ramp.cross)
                                      THEN -1 ELSE 1]
             X == LogLine
             batch == [n \in 1 .. N |-> Line(n - 1)]
             again0 == [step |-> 0, time |-> 0, margin |-> -1]
             rest == IF again THEN <<again0>> ELSE <<>>
  <1>1. N \in Nat /\ N >= 1
    <2>1. stretch \in Nat /\ stretch >= 1 /\ Cycles \in Nat /\ Cycles >= 2 /\ Extension \in Nat
      BY CampaignAssumption
    <2>2. stretch * Cycles \in Nat /\ stretch * Cycles >= 1
      BY <2>1
    <2> QED
      BY <2>1, <2>2
  <1>2. RouteLog(nodes, stretch, start, again) = batch \o rest
    BY DEF RouteLog
  <1> HIDE DEF N
  <1>3. \A n \in 1 .. N : /\ Line(n - 1) \in X
                          /\ Line(n - 1).step = n - 1 /\ Line(n - 1).time = start + n - 1
                          /\ Line(n - 1).margin < 0 <=> n - 1 \in beyond
    <2> TAKE n \in 1 .. N
    <2>1. n - 1 \in Nat /\ start + (n - 1) = start + n - 1 /\ start + (n - 1) \in Int
      BY <1>1
    <2> DEFINE below == Reached((n - 1) \div stretch, start + (n - 1), ramp.cross)
    <2>2. n - 1 \in beyond <=> below
      BY <2>1
    <2>3. \A m \in {-1, 1} : [step |-> n - 1, time |-> start + (n - 1), margin |-> m] \in X
      BY <2>1 DEF LogLine
    <2>4. Line(n - 1) = [step |-> n - 1, time |-> start + (n - 1), margin |-> IF below THEN -1 ELSE 1]
      OBVIOUS
    <2> HIDE DEF below, beyond, Line, X
    <2> QED
      BY <2>1, <2>2, <2>3, <2>4
  <1>4. /\ batch \in Seq(X) /\ Len(batch) = N
        /\ \A n \in 1 .. N : /\ batch[n].step = n - 1 /\ batch[n].time = start + n - 1
                             /\ batch[n].margin < 0 <=> n - 1 \in beyond
    <2>1. \A n \in 1 .. N : batch[n] = Line(n - 1)
      OBVIOUS
    <2>2. batch \in [1 .. N -> X]
      BY <1>3
    <2> HIDE DEF Line, X, beyond
    <2>3. /\ \A n \in 1 .. N : /\ batch[n].step = n - 1 /\ batch[n].time = start + n - 1
                               /\ batch[n].margin < 0 <=> n - 1 \in beyond
      BY <1>3, <2>1
    <2> HIDE DEF batch
    <2> QED
      BY <1>1, <2>2, <2>3
  <1>5. rest \in Seq(X) /\ (rest = <<>> \/ (Len(rest) = 1 /\ rest[1].step = 0))
    <2>1. again0 \in X /\ again0.step = 0
      BY DEF LogLine
    <2> HIDE DEF again0, X
    <2>2. CASE again
      <3>1. rest = <<again0>>
        BY <2>2
      <3> HIDE DEF rest
      <3> QED
        BY <2>1, <3>1
    <2>3. CASE ~again
      <3>1. rest = <<>>
        BY <2>3
      <3>2. <<>> \in Seq(X)
        OBVIOUS
      <3> HIDE DEF rest
      <3> QED
        BY <3>1, <3>2
    <2> QED
      BY <2>2, <2>3
  <1>6. beyond \in SUBSET Nat
    OBVIOUS
  <1> HIDE DEF beyond, batch, rest
  <1>7. Delivery(batch, start, beyond)
    BY <1>4 DEF Delivery
  <1>8. LET t == RouteCrossing(batch \o rest)
        IN \/ t = None
           \/ \E i \in Nat : /\ t = start + i /\ i \in beyond /\ i < Len(batch)
                             /\ \A n \in 0 .. i - 1 : n \notin beyond
    <2>1. start \in Int /\ Len(batch) >= 1
      BY <1>1, <1>4
    <2> HIDE DEF Line, again0
    <2> QED
      BY <1>4, <1>5, <1>6, <1>7, <2>1, FirstLineBelow
  <1> DEFINE t == RouteCrossing(batch \o rest)
  <1>9. RouteCrossing(RouteLog(nodes, stretch, start, again)) = t
    BY <1>2
  <1> HIDE DEF t
  <1>10. ASSUME NEW i \in Nat, t = start + i, i \in beyond, \A n \in 0 .. i - 1 : n \notin beyond
         PROVE  FirstBeyond(t, stretch, start)
    <2>1. \A n \in 0 .. i - 1 : n \in Nat
      OBVIOUS
    <2> QED
      BY <1>10, <2>1 DEF FirstBeyond, beyond
  <1> QED
    BY <1>8, <1>9, <1>10 DEF t

-----------------------------------------------------------------------------
(***************************************************************************)
(* When an intervention is detected, and from when it is counted.          *)
(***************************************************************************)

\* Of two messages the earlier has the lower rank.
LEMMA EarlierRanksLower ==
  ASSUME NEW S, IsFiniteSet(S), \A x \in S : x.at \in Int, NEW d \in S, NEW e \in S, e.at < d.at
  PROVE  Rank(S, e) < Rank(S, d)
  <1> DEFINE U == {x \in S : x.at <= d.at}
             V == {x \in S : x.at <= e.at}
  <1>1. V \in SUBSET U /\ d \in U /\ d \notin V
    OBVIOUS
  <1>2. IsFiniteSet(U)
    BY FS_Subset
  <1> HIDE DEF U, V
  <1>3. /\ IsFiniteSet(V)
        /\ Cardinality(V) <= Cardinality(U)
        /\ Cardinality(U) = Cardinality(V) => U = V
    BY <1>1, <1>2, FS_Subset
  <1>4. Cardinality(U) \in Nat /\ Cardinality(V) \in Nat
    BY <1>2, <1>3, FS_CardinalityType
  <1>5. Cardinality(V) < Cardinality(U)
    BY <1>1, <1>3, <1>4
  <1> QED
    BY <1>5 DEF U, V, Rank

\* What is detected is the earliest message that intervenes, once the schedule's
\* start is known.
LEMMA DetectionIsEarliest ==
  ASSUME NEW diag \in Seq(Diagnostic), Distinct(diag), NEW t0
  PROVE  \/ FirstDetection(diag, t0) = None
         \/ /\ t0 # None
            /\ \E d \in ToSet(diag) :
                 /\ d.acts /\ FirstDetection(diag, t0) = d.stamp - t0
                 /\ \A e \in ToSet(diag) : e.acts => d.at <= e.at
  <1> DEFINE sorted == InTime(diag)
             S == ToSet(diag)
             acting == {n \in DOMAIN diag : sorted[n].acts}
  <1>1. S \subseteq Diagnostic /\ IsFiniteSet(S) /\ DOMAIN diag = 1 .. Len(diag) /\ Len(diag) \in Nat
    BY ElementsAreFinite
  <1>2. \A x \in Diagnostic : x.at \in Int
    BY DEF Diagnostic
  <1>3. /\ sorted \in Seq(Diagnostic) /\ DOMAIN sorted = DOMAIN diag /\ ToSet(sorted) = S
        /\ \A n \in DOMAIN diag : Rank(S, sorted[n]) = n
    BY <1>2, SortingKeeps
  <1>4. FirstDetection(diag, t0) = IF t0 = None \/ acting = {} THEN None ELSE sorted[Min(acting)].stamp - t0
    BY DEF FirstDetection
  <1>5. \A n \in DOMAIN diag : sorted[n] \in S
    BY <1>3 DEF ToSet
  <1>6. \A e \in S : \E n \in DOMAIN diag : e = sorted[n]
    BY <1>3 DEF ToSet
  <1> HIDE DEF S, sorted
  <1>7. CASE t0 # None /\ acting # {}
    <2> DEFINE m == Min(acting)
               d == sorted[m]
    <2>1. acting \in SUBSET Nat
      BY <1>1
    <2>2. m \in acting /\ \A n \in acting : m <= n
      <3> HIDE DEF acting
      <3> QED
        BY <1>7, <2>1, LeastNatural
    <2>3. d \in S /\ d.acts /\ m \in DOMAIN diag
      BY <1>5, <2>2
    <2>4. FirstDetection(diag, t0) = d.stamp - t0
      BY <1>4, <1>7
    <2> HIDE DEF m
    <2>5. ASSUME NEW e \in S, e.acts PROVE d.at <= e.at
      <3>1. PICK n \in DOMAIN diag : e = sorted[n]
        BY <1>6
      <3>2. m <= n /\ m \in Nat /\ n \in Nat
        BY <1>1, <2>2, <2>3, <2>5, <3>1
      <3>3. Rank(S, e) = n /\ Rank(S, d) = m
        BY <1>3, <2>3, <3>1
      <3>4. e.at \in Int /\ d.at \in Int /\ \A x \in S : x.at \in Int
        BY <1>1, <1>2, <2>3
      <3> HIDE DEF d
      <3>5. CASE e.at < d.at
        <4>1. Rank(S, e) < Rank(S, d)
          BY <1>1, <2>3, <3>4, <3>5, EarlierRanksLower
        <4> QED
          BY <3>2, <3>3, <4>1
      <3> QED
        BY <3>4, <3>5
    <2> QED
      BY <1>7, <2>3, <2>4, <2>5 DEF S
  <1> QED
    BY <1>4, <1>7

\* The first cycle of which there is a message.
Earliest(hole) == IF hole = 0 THEN 1 ELSE 0

LEMMA RunIsRecorded ==
  ASSUME NEW name, NEW nodes, NEW latency \in Nat, NEW heard \in BOOLEAN,
         NEW e \in Diagnostics(name, nodes, latency, heard), NEW d \in Read(e) \cup {e}
  PROVE  \E hole \in 0 .. Cycles : Recorded(d, name, nodes, latency, heard, hole)
  <1>0. Len(e) >= 1 /\ \E hole \in 0 .. Cycles : Recorded(e, name, nodes, latency, heard, hole)
    BY DiagnosticsAreRecorded
  <1>1. e \in Seq(Diagnostic) /\ Len(e) >= 1 /\ Distinct(e)
    BY <1>0 DEF Recorded
  <1>2. d \in Seq(Diagnostic) /\ Len(d) = Len(e) /\ ToSet(d) = ToSet(e) /\ Distinct(d)
    <2>1. CASE d = e
      BY <1>1, <2>1
    <2>2. CASE d \in Read(e)
      <3>1. \A x \in Diagnostic : x.at \in Int
        BY DEF Diagnostic
      <3> QED
        BY <1>1, <2>2, <3>1, ReadingKeeps
    <2> QED
      BY <2>1, <2>2
  <1>3. d # <<>>
    BY <1>1, <1>2
  <1> QED
    BY <1>0, <1>2, <1>3 DEF Recorded

\* Execution starts with the first message there is.
LEMMA StartOfExecution ==
  ASSUME NEW d, NEW name, NEW nodes, NEW latency \in Nat, NEW heard, NEW hole,
         Recorded(d, name, nodes, latency, heard, hole)
  PROVE  ExecutionStart(d, ForceStart) = latency + Earliest(hole) /\ ExecutionStart(d, None) = None
  <1> DEFINE K == (0 .. Cycles - 1) \ {hole}
             T == {m.stamp : m \in ToSet(d)}
             first == ForceStart + latency + Earliest(hole)
  <1>1. Cycles \in Nat /\ Cycles >= 2 /\ None \notin Int
    BY CampaignAssumption
  <1>2. hole \in Int /\ d # <<>>
    BY <1>1 DEF Recorded
  <1>3. Earliest(hole) \in K /\ \A k \in K : Earliest(hole) <= k
    BY <1>1, <1>2 DEF Earliest
  <1>4. T = {ForceStart + latency + k : k \in K}
    <2>1. \A k \in K : Message(name, nodes, latency, heard, k).stamp = ForceStart + latency + k
      BY DEF Message
    <2>2. ToSet(d) = {Message(name, nodes, latency, heard, k) : k \in K}
      BY DEF Recorded
    <2> HIDE DEF K
    <2> QED
      BY <2>1, <2>2
  <1> HIDE DEF T
  <1>5. first \in T /\ first \in Nat /\ \A y \in T : first <= y
    BY <1>3, <1>4 DEF ForceStart
  <1>6. T \in SUBSET Nat /\ T # {}
    BY <1>4, <1>5 DEF ForceStart
  <1> HIDE DEF first
  <1>7. Min(T) = first
    <2> DEFINE m == Min(T)
    <2>1. m \in T /\ \A y \in T : m <= y
      BY <1>6, LeastNatural
    <2> HIDE DEF m
    <2>2. m \in Nat /\ m <= first /\ first <= m
      BY <1>5, <1>6, <2>1
    <2>3. m = first
      BY <1>5, <2>2
    <2> QED
      BY <2>3 DEF m
  <1>8. ExecutionStart(d, ForceStart) = Min(T) - ForceStart /\ ExecutionStart(d, None) = None
    BY <1>1, <1>2 DEF ExecutionStart, T, ForceStart
  <1>9. Earliest(hole) \in Int
    BY DEF Earliest
  <1> QED
    BY <1>7, <1>8, <1>9 DEF first, ForceStart

\* What a cell's result says of the detection.
Detection(d, heard) ==
  LET t0 == IF heard THEN ForceStart ELSE None
  IN Anchored(FirstDetection(d, t0), ExecutionStart(d, t0))

\* Cycle k intervenes, and none before it of which there is a message.
FirstToAct(name, latency, hole, k) ==
  /\ k \in 0 .. Cycles - 1
  /\ Acts(name, k, latency + k, TRUE)
  /\ \A n \in 0 .. k - 1 : n # hole => ~Acts(name, n, latency + n, TRUE)

\* A run detects with the first cycle that intervenes, of those there is a message of,
\* and counts from the first cycle there is a message of.
LEMMA DetectionIsFirst ==
  ASSUME NEW d, NEW name, NEW nodes, NEW latency \in Nat, NEW heard \in BOOLEAN, NEW hole,
         Recorded(d, name, nodes, latency, heard, hole), nodes.told.force # "none"
  PROVE  Detection(d, heard) # None =>
           heard /\ \E k \in Int : FirstToAct(name, latency, hole, k) /\ Detection(d, heard) = k - Earliest(hole)
  <1> DEFINE K == (0 .. Cycles - 1) \ {hole}
             M(k) == Message(name, nodes, latency, heard, k)
             t0 == IF heard THEN ForceStart ELSE None
             t == Detection(d, heard)
  <1>1. Cycles \in Nat /\ None \notin Int
    BY CampaignAssumption
  <1> SUFFICES ASSUME t # None
               PROVE  heard /\ \E k \in Int : FirstToAct(name, latency, hole, k) /\ t = k - Earliest(hole)
    OBVIOUS
  <1>2. FirstDetection(d, t0) # None
    BY DEF Detection, Anchored
  <1>3. /\ t0 # None
        /\ \E m \in ToSet(d) :
             /\ m.acts /\ FirstDetection(d, t0) = m.stamp - t0
             /\ \A e \in ToSet(d) : e.acts => m.at <= e.at
    <2>1. d \in Seq(Diagnostic) /\ Distinct(d)
      BY DEF Recorded
    <2> QED
      BY <1>2, <2>1, DetectionIsEarliest
  <1>4. heard = TRUE /\ t0 = ForceStart
    BY <1>3
  <1>5. PICK m \in ToSet(d) : /\ m.acts /\ FirstDetection(d, ForceStart) = m.stamp - ForceStart
                              /\ \A e \in ToSet(d) : e.acts => m.at <= e.at
    BY <1>3, <1>4
  <1>6. ToSet(d) = {M(k) : k \in K}
    BY DEF Recorded
  <1>7. \A k \in K : /\ M(k).at = k /\ M(k).stamp = ForceStart + latency + k
                     /\ M(k).acts <=> Acts(name, k, latency + k, TRUE)
    BY <1>4 DEF Message
  <1> HIDE DEF M
  <1>8. PICK k \in K : m = M(k)
    BY <1>6
  <1>9. k \in 0 .. Cycles - 1 /\ Acts(name, k, latency + k, TRUE)
    BY <1>5, <1>7, <1>8
  <1>10. ASSUME NEW n \in 0 .. k - 1, n # hole PROVE ~Acts(name, n, latency + n, TRUE)
    <2>1. n \in K /\ ~(k <= n)
      BY <1>1, <1>9, <1>10
    <2>2. M(n) \in ToSet(d) /\ M(n).at = n /\ m.at = k
      BY <1>6, <1>7, <1>8, <2>1
    <2>3. M(n).acts <=> Acts(name, n, latency + n, TRUE)
      BY <1>7, <2>1
    <2> HIDE DEF K
    <2> QED
      BY <1>5, <2>1, <2>2, <2>3
  <1>11. t = k - Earliest(hole)
    <2>1. FirstDetection(d, ForceStart) = latency + k
      <3>1. m.stamp = ForceStart + latency + k
        BY <1>7, <1>8
      <3>2. FirstDetection(d, ForceStart) = m.stamp - ForceStart
        BY <1>5
      <3> QED
        BY <1>9, <3>1, <3>2 DEF ForceStart
    <2>2. ExecutionStart(d, ForceStart) = latency + Earliest(hole) /\ Earliest(hole) \in Int
      BY StartOfExecution DEF Earliest
    <2>3. latency + k # None /\ latency + Earliest(hole) # None
      BY <1>1, <1>9, <2>2
    <2>4. t = (latency + k) - (latency + Earliest(hole))
      BY <1>4, <2>1, <2>2, <2>3 DEF Detection, Anchored
    <2> QED
      BY <1>9, <2>2, <2>4
  <1>12. FirstToAct(name, latency, hole, k)
    BY <1>9, <1>10 DEF FirstToAct
  <1> HIDE DEF t
  <1> QED
    BY <1>4, <1>11, <1>12

-----------------------------------------------------------------------------
(***************************************************************************)
(* The inductive invariant.                                                *)
(***************************************************************************)
Names == {"B1", "B2", "B3"}
Forces == {"none", "ramp", "spring"}

WorldSet == [payload : Int, force : Forces]
ToldSet == [payload : Int, force : Forces, ahead : BOOLEAN]

CellSet ==
  [name : Names, payload : Int, success : BOOLEAN \cup {None}, finished : BOOLEAN,
   detect : Int \cup {None}, latency : Nat, heard : BOOLEAN, lost : Int,
   route : Nat \cup {None}, world : WorldSet, told : ToldSet]

CrossingSet ==
  [time : Int \cup {None}, latency : Latencies, stretch : Stretches,
   heard : {"before", "after", "never"}, lost : {0, 1}, route : Nat \cup {None},
   world : WorldSet]

TypeOK ==
  /\ sweep \in 0 .. MaxSweeps /\ script \in Script
  /\ at \in {"idle", "capturing", "crossing", "cells"}
  /\ disk \in 1 .. sweep \cup {None}
  /\ ramp \in Ramps
  /\ bag = NoBag \/ (bag \in BagSet /\ ~Unusable(bag.joints))
  /\ ledger \in Seq(CellSet)
  /\ crossing \in CrossingSet \cup {None}
  /\ failed \in 0 .. 2

\* Where a script is tells what is on the disk and what it has collected.
Phase ==
  /\ at \in {"idle", "capturing"} => ledger = <<>> /\ crossing = None /\ failed = 0
  /\ at # "idle" => sweep >= 1
  /\ at \in {"crossing", "cells"} => disk = sweep
  /\ at = "crossing" => script = "exp3" /\ failed <= 1

\* The force of a script's cells.
ForceOf(s) == IF s = "exp2" THEN "none" ELSE IF s = "exp3" THEN "ramp" ELSE "spring"

\* What a finished cell ran.
RanAsTold(c) ==
  /\ c.route = sweep
  /\ c.world = [payload |-> c.payload, force |-> ForceOf(script)]
  /\ c.told.payload = c.payload
  /\ c.name # "B1" => c.told.force = ForceOf(script)
  /\ script # "exp2" => c.payload = 0

\* A detection is that of the first cycle of the route at which B2 sees the limit
\* broken, or B3 a step of its horizon below its threshold, but for a lost message.
DetectedFirst(c) ==
  c.detect # None =>
    /\ script = "exp3" /\ c.name # "B1" /\ c.latency \in Latencies
    /\ \E k, f \in 0 .. Cycles - 1 :
         /\ f <= c.lost /\ c.lost <= 1 /\ c.detect = k - f
         /\ c.name = "B2" => Reached(k, c.latency + k, ramp.fail)
         /\ c.name = "B3" =>
              \A x \in Nat : Reached(x, c.latency + x + 1, ramp.warn) =>
                k <= c.lost + IF x < HorizonSteps THEN 0 ELSE x + 1 - HorizonSteps

\* The crossing is that of the first step of the route as pretracked.
CrossedFirst ==
  crossing # None =>
    /\ script = "exp3" /\ crossing.route = sweep
    /\ crossing.world = [payload |-> 0, force |-> "ramp"]
    /\ crossing.time # None /\ crossing.heard = "before" /\ crossing.stretch = 1 =>
         \E i \in Nat, f \in 0 .. 1 :
           /\ f <= crossing.lost /\ crossing.time = i - f
           /\ Reached(i, crossing.latency + i, ramp.cross)
           /\ \A n \in 0 .. i - 1 : ~Reached(n, crossing.latency + n, ramp.cross)

CampaignInv ==
  /\ TypeOK /\ Phase /\ CrossedFirst
  /\ \A n \in DOMAIN ledger : ledger[n].finished => RanAsTold(ledger[n]) /\ DetectedFirst(ledger[n])
  /\ \A n \in DOMAIN ledger : ~ledger[n].finished => ledger[n].detect = None

-----------------------------------------------------------------------------
LEMMA PoseIs ==
  ASSUME NEW k \in Nat
  PROVE  Pose(k) = IF k < Cycles - 1 THEN k ELSE Cycles - 1
  <1> DEFINE S == {k, Cycles - 1}
             m == Min(S)
  <1>1. Cycles \in Nat /\ Cycles >= 2
    BY CampaignAssumption
  <1>2. S \in SUBSET Nat /\ S # {}
    BY <1>1
  <1>3. m \in S /\ \A y \in S : m <= y
    <2> HIDE DEF S
    <2> QED
      BY <1>2, LeastNatural
  <1>4. Pose(k) = m
    BY DEF Pose
  <1> HIDE DEF m
  <1> QED
    BY <1>1, <1>3, <1>4

\* A ramp that is reached stays so, and one that is reached is so for a lower onset.
LEMMA ReachedStays ==
  ASSUME ramp \in Ramps, NEW k \in Nat, NEW n \in Nat, k <= n,
         NEW t \in Int, NEW u \in Int, t <= u, NEW o \in Int, NEW p \in Int, p <= o, Reached(k, t, o)
  PROVE  Reached(n, u, p)
  <1>1. ramp.pose \in Nat /\ Cycles \in Nat
    BY CampaignAssumption
  <1>2. Pose(k) >= ramp.pose /\ t >= o
    BY DEF Reached
  <1>3. Pose(n) >= ramp.pose
    BY <1>1, <1>2, PoseIs
  <1> QED
    BY <1>2, <1>3 DEF Reached

\* The promise of a detection, as DetectedFirst has it, holds of every run of exp3.
LEMMA RunDetectsFirst ==
  ASSUME ramp \in Ramps, NEW name \in {"B2", "B3"}, NEW nodes, nodes.told.force # "none",
         NEW latency \in Nat, NEW heard \in BOOLEAN, NEW d, NEW hole,
         Recorded(d, name, nodes, latency, heard, hole)
  PROVE  LET t == Detection(d, heard)
             lost == Cycles - Len(d)
         IN t # None =>
              \E k, f \in 0 .. Cycles - 1 :
                /\ f <= lost /\ lost <= 1 /\ t = k - f
                /\ name = "B2" => Reached(k, latency + k, ramp.fail)
                /\ name = "B3" =>
                     \A x \in Nat : Reached(x, latency + x + 1, ramp.warn) =>
                       k <= lost + IF x < HorizonSteps THEN 0 ELSE x + 1 - HorizonSteps
  <1> DEFINE t == Detection(d, heard)
             lost == Cycles - Len(d)
             f == Earliest(hole)
  <1>1. Cycles \in Nat /\ Cycles >= 2 /\ HorizonSteps \in Nat /\ HorizonSteps >= 1
    BY CampaignAssumption
  <1>2. hole \in 0 .. Cycles /\ lost = IF hole = Cycles THEN 0 ELSE 1
    BY DEF Recorded
  <1>3. f \in 0 .. Cycles - 1 /\ f <= lost /\ lost \in {0, 1}
    BY <1>1, <1>2 DEF Earliest
  <1>4. t # None => \E k \in Int : FirstToAct(name, latency, hole, k) /\ t = k - f
    BY DetectionIsFirst
  <1> SUFFICES ASSUME t # None
               PROVE  \E k \in 0 .. Cycles - 1 :
                        /\ t = k - f
                        /\ name = "B2" => Reached(k, latency + k, ramp.fail)
                        /\ name = "B3" =>
                             \A x \in Nat : Reached(x, latency + x + 1, ramp.warn) =>
                               k <= lost + IF x < HorizonSteps THEN 0 ELSE x + 1 - HorizonSteps
    BY <1>3
  <1> HIDE DEF t, f, lost
  <1>5. PICK k \in 0 .. Cycles - 1 :
          /\ t = k - f
          /\ Acts(name, k, latency + k, TRUE)
          /\ \A n \in 0 .. k - 1 : n # hole => ~Acts(name, n, latency + n, TRUE)
    BY <1>4 DEF FirstToAct
  <1>6. name = "B2" => Reached(k, latency + k, ramp.fail)
    BY <1>5 DEF Acts
  <1>7. ASSUME name = "B3", NEW x \in Nat, Reached(x, latency + x + 1, ramp.warn)
        PROVE  k <= lost + IF x < HorizonSteps THEN 0 ELSE x + 1 - HorizonSteps
    <2> DEFINE k0 == IF x < HorizonSteps THEN 0 ELSE x + 1 - HorizonSteps
    <2>1. k0 \in Nat /\ x - k0 \in 0 .. HorizonSteps - 1
      BY <1>1
    <2> HIDE DEF k0
    <2>2. Acts(name, k0, latency + k0, TRUE)
      <3>1. k0 + (x - k0) = x /\ (latency + k0) + (x - k0) + 1 = latency + x + 1
        BY <2>1
      <3> QED
        BY <1>7, <2>1, <3>1 DEF Acts
    <2>3. Acts(name, k0 + 1, latency + (k0 + 1), TRUE)
      <3>1. CASE x >= k0 + 1
        <4> DEFINE j == x - k0 - 1
        <4>1. /\ j \in 0 .. HorizonSteps - 1
              /\ k0 + 1 + j = x /\ latency + (k0 + 1) + j + 1 = latency + x + 1
          BY <1>1, <2>1, <3>1
        <4> HIDE DEF j
        <4> QED
          BY <1>7, <4>1 DEF Acts
      <3>2. CASE ~(x >= k0 + 1)
        <4>1. 0 \in 0 .. HorizonSteps - 1 /\ x = k0
          BY <1>1, <2>1, <3>2
        <4>2. ramp.warn \in Int
          BY CampaignAssumption
        <4>3. Reached(k0 + 1 + 0, latency + (k0 + 1) + 0 + 1, ramp.warn)
          <5>1. /\ x <= k0 + 1 + 0 /\ k0 + 1 + 0 \in Nat
                /\ latency + x + 1 <= latency + (k0 + 1) + 0 + 1
                /\ latency + x + 1 \in Int /\ latency + (k0 + 1) + 0 + 1 \in Int
            BY <2>1, <4>1
          <5>2. ramp.warn <= ramp.warn
            BY <4>2
          <5> QED
            BY <1>7, <4>2, <5>1, <5>2, ReachedStays
        <4> QED
          BY <1>7, <4>1, <4>3 DEF Acts
      <3> QED
        BY <3>1, <3>2
    <2>4. ASSUME k > lost + k0 PROVE FALSE
      <3>1. k0 \in 0 .. k - 1
        BY <1>3, <2>1, <2>4
      <3>2. k0 = hole
        BY <1>5, <2>2, <3>1
      <3>3. lost = 1
        BY <1>1, <1>2, <3>1, <3>2
      <3>4. k0 + 1 \in 0 .. k - 1 /\ k0 + 1 # hole
        BY <2>1, <2>4, <3>2, <3>3
      <3> QED
        BY <1>5, <2>3, <3>4
    <2>5. k <= lost + k0
      BY <1>3, <2>1, <2>4
    <2> QED
      BY <2>5 DEF k0
  <1> QED
    BY <1>5, <1>6, <1>7

\* Whatever was recorded, a detection is a time or None, and None without a schedule.
LEMMA DetectionIsTyped ==
  ASSUME NEW d \in Seq(Diagnostic), Distinct(d), NEW t0 \in {None, ForceStart}
  PROVE  LET t == Anchored(FirstDetection(d, t0), ExecutionStart(d, t0))
         IN  t \in Int \cup {None} /\ (t0 = None => t = None)
  <1> DEFINE t == Anchored(FirstDetection(d, t0), ExecutionStart(d, t0))
             T == {m.stamp : m \in ToSet(d)}
  <1>1. None \notin Int
    BY CampaignAssumption
  <1>2. FirstDetection(d, t0) \in Int \cup {None} /\ (t0 = None => FirstDetection(d, t0) = None)
    <2>1. CASE FirstDetection(d, t0) = None
      BY <2>1
    <2>2. CASE /\ t0 # None
               /\ \E m \in ToSet(d) : FirstDetection(d, t0) = m.stamp - t0
      <3>1. ToSet(d) \subseteq Diagnostic
        BY ElementsAreFinite
      <3> QED
        BY <2>2, <3>1 DEF Diagnostic, ForceStart
    <2> QED
      BY <2>1, <2>2, DetectionIsEarliest
  <1>3. ExecutionStart(d, t0) \in Int \cup {None}
    <2>1. CASE t0 # None /\ d # <<>>
      <3>1. ToSet(d) \subseteq Diagnostic /\ IsFiniteSet(ToSet(d)) /\ ToSet(d) # {}
        BY <2>1, ElementsAreFinite
      <3>2. T \in SUBSET Int /\ T # {}
        BY <3>1 DEF Diagnostic
      <3>3. IsFiniteSet(T)
        <4> DEFINE g == [m \in ToSet(d) |-> m.stamp]
        <4>1. g \in Surjection(ToSet(d), T)
          BY DEF Surjection
        <4> QED
          BY <3>1, <4>1, FS_Surjection
      <3>4. Min(T) \in Int
        <4> HIDE DEF T
        <4> QED
          BY <3>2, <3>3, Extremes
      <3>5. ExecutionStart(d, t0) = Min(T) - t0
        BY <2>1 DEF ExecutionStart
      <3> QED
        BY <2>1, <3>4, <3>5 DEF ForceStart
    <2> QED
      BY <2>1 DEF ExecutionStart
  <1> HIDE DEF T
  <1> QED
    BY <1>1, <1>2, <1>3 DEF Anchored

-----------------------------------------------------------------------------
(***************************************************************************)
(* The cells.                                                              *)
(***************************************************************************)
LEMMA DetectionIsTimeOrNone ==
  ASSUME NEW d \in Seq(Diagnostic), Distinct(d), NEW heard \in BOOLEAN
  PROVE  Detection(d, heard) \in Int \cup {None} /\ (~heard => Detection(d, heard) = None)
  <1> DEFINE t0 == IF heard THEN ForceStart ELSE None
  <1>1. t0 \in {None, ForceStart} /\ (~heard => t0 = None)
    OBVIOUS
  <1>2. Detection(d, heard) = Anchored(FirstDetection(d, t0), ExecutionStart(d, t0))
    BY DEF Detection
  <1> HIDE DEF t0
  <1> QED
    BY <1>1, <1>2, DetectionIsTyped

\* The next cell of a sweep has a name and a payload of the script.
LEMMA CellIsTyped ==
  ASSUME TypeOK, Len(ledger) < Cells
  PROVE  Cell.name \in Names /\ Cell.payload \in Int /\ (script # "exp2" => Cell.payload = 0)
  <1>1. Len(ledger) \in Nat
    BY DEF TypeOK
  <1>2. Payloads \in Seq(Int)
    BY CampaignAssumption
  <1>3. Len(Baselines) = 3 /\ \A i \in 1 .. 3 : Baselines[i] \in Names
    BY DEF Baselines, Names
  <1>4. Cell.name \in Names
    <2>1. 1 + (Len(ledger) % 3) \in 1 .. 3
      BY <1>1
    <2> QED
      BY <1>3, <2>1 DEF Cell
  <1>5. CASE script = "exp2"
    <2>1. Len(ledger) < Len(Payloads) * 3
      BY <1>3, <1>5 DEF Cells
    <2>2. 1 + (Len(ledger) \div 3) \in 1 .. Len(Payloads)
      BY <1>1, <1>2, <2>1
    <2>3. Cell.payload = Payloads[1 + (Len(ledger) \div 3)]
      BY <1>3, <1>5 DEF Cell
    <2> QED
      BY <1>2, <1>4, <1>5, <2>2, <2>3
  <1>6. CASE script # "exp2"
    BY <1>4, <1>6 DEF Cell
  <1> QED
    BY <1>5, <1>6

\* What the launch files make of a cell's environment.
LEMMA LaunchedAs ==
  ASSUME script \in Script, NEW c, c.name \in Names, c.payload \in Int, script # "exp2" => c.payload = 0
  PROVE  LET nodes == Launched(c.name, Env(c))
         IN  /\ Plan(nodes) = disk
             /\ nodes.world = [payload |-> c.payload, force |-> ForceOf(script)]
             /\ nodes.world \in WorldSet /\ nodes.told \in ToldSet
             /\ nodes.told.payload = c.payload
             /\ c.name # "B1" => nodes.told.force = ForceOf(script)
  <1> DEFINE env == Env(c)
             nodes == Launched(c.name, env)
  <1>1. /\ env.planner = "replay" /\ env.payload = c.payload /\ env.force = ForceOf(script)
        /\ env.known \in BOOLEAN
    BY DEF Script, Env, Exp2Env, Exp3Env, Exp4Env, Replay, Unset, ForceOf
  <1>2. ForceOf(script) \in Forces
    BY DEF ForceOf, Forces
  <1> HIDE DEF env
  <1>3. nodes.planner = env.planner /\ nodes.world = Simulator(env)
    BY DEF Launched, HybridPlanningDemo, B2Demo, B3Demo, Nodes
  <1>4. /\ nodes.told \in ToldSet /\ nodes.told.payload = env.payload
        /\ c.name # "B1" => nodes.told.force = env.force
    BY <1>1, <1>2 DEF Launched, HybridPlanningDemo, B2Demo, B3Demo, Nodes, Names,
         B1Params, B2Params, B3Params, ToldSet, Forces
  <1> HIDE DEF nodes
  <1>5. Plan(nodes) = disk
    BY <1>1, <1>3 DEF Plan
  <1>6. nodes.world = [payload |-> c.payload, force |-> ForceOf(script)]
    BY <1>1, <1>3 DEF Simulator
  <1> QED
    BY <1>1, <1>2, <1>4, <1>5, <1>6 DEF WorldSet, nodes, env

\* The bag of a run is one compute() may be handed, and in exp3 has the diagnostics
\* of the run.
LEMMA BagIsRecorded ==
  ASSUME NEW c, c.name \in Names, NEW nodes, NEW latency \in Nat, NEW heard \in BOOLEAN,
         NEW b \in BagsOf(c, nodes, latency, heard)
  PROVE  /\ b \in BagSet
         /\ script = "exp3" /\ c.name # "B1" =>
              \E hole \in 0 .. Cycles : Recorded(b.diag, c.name, nodes, latency, heard, hole)
  <1> DEFINE some == CHOOSE r \in Recordings[c.name] : ~Unusable(r.joints)
  <1>1. /\ Recordings[c.name] \subseteq BagSet
        /\ \E r \in Recordings[c.name] : ~Unusable(r.joints)
    BY CampaignAssumption DEF Names
  <1>2. some \in BagSet
    BY <1>1
  <1>3. CASE script # "exp3"
    BY <1>1, <1>3 DEF BagsOf
  <1>4. CASE script = "exp3" /\ c.name = "B1"
    BY <1>2, <1>4 DEF BagsOf
  <1>5. CASE script = "exp3" /\ c.name # "B1"
    <2>1. PICK e \in Diagnostics(c.name, nodes, latency, heard) :
            \E d \in Read(e) : b = [some EXCEPT !.diag = d]
      BY <1>5 DEF BagsOf
    <2>2. PICK d \in Read(e) : b = [some EXCEPT !.diag = d]
      BY <2>1
    <2>3. PICK hole \in 0 .. Cycles : Recorded(d, c.name, nodes, latency, heard, hole)
      BY RunIsRecorded
    <2> HIDE DEF some
    <2>4. d \in Seq(Diagnostic) /\ Distinct(d)
      BY <2>3 DEF Recorded
    <2>5. b \in BagSet /\ b.diag = d
      BY <1>2, <2>2, <2>4 DEF BagSet
    <2> QED
      BY <2>3, <2>5
  <1> QED
    BY <1>3, <1>4, <1>5

-----------------------------------------------------------------------------
(***************************************************************************)
(* The invariant is inductive.                                             *)
(***************************************************************************)
LEMMA InvInit == Init => CampaignInv
  <1> SUFFICES ASSUME Init PROVE CampaignInv
    OBVIOUS
  <1>1. (CHOOSE r \in Ramps : TRUE) \in Ramps
    BY CampaignAssumption
  <1>2. <<>> \in Seq(CellSet)
    OBVIOUS
  <1>3. TypeOK
    BY <1>1, <1>2, CampaignAssumption DEF Init, TypeOK
  <1> QED
    BY <1>3 DEF Init, CampaignInv, Phase, CrossedFirst

\* What has been collected stays true while the sweep, its script and its ramp do.
LEMMA CollectedStays ==
  ASSUME UNCHANGED <<sweep, script, ramp>>,
         \A n \in DOMAIN ledger' :
           /\ ledger'[n].finished => RanAsTold(ledger'[n]) /\ DetectedFirst(ledger'[n])
           /\ ~ledger'[n].finished => ledger'[n].detect = None
  PROVE  /\ (\A n \in DOMAIN ledger : ledger[n].finished => RanAsTold(ledger[n]) /\ DetectedFirst(ledger[n]))'
         /\ (\A n \in DOMAIN ledger : ~ledger[n].finished => ledger[n].detect = None)'
  BY DEF RanAsTold, DetectedFirst, Reached, Pose

LEMMA CrossedStays ==
  ASSUME UNCHANGED <<sweep, script, ramp, crossing>>, CrossedFirst
  PROVE  CrossedFirst'
  BY DEF CrossedFirst, Reached, Pose

\* Steps that collect nothing: those that start, those that forget, and those
\* that only say where the script is.
LEMMA ForgettingKeepsInv ==
  ASSUME CampaignInv, Start \/ End
  PROVE  CampaignInv'
  <1>1. <<>> \in Seq(CellSet)
    OBVIOUS
  <1>2. ledger' = <<>> /\ crossing' = None /\ at' \in {"idle", "capturing"}
    BY DEF Start, End
  <1>3. TypeOK'
    <2>1. CASE Start
      <3>1. sweep' \in 0 .. MaxSweeps /\ 1 .. sweep \subseteq 1 .. sweep'
        BY <2>1, CampaignAssumption DEF Start, CampaignInv, TypeOK
      <3>2. disk' \in 1 .. sweep' \cup {None}
        BY <2>1, <3>1 DEF Start, CampaignInv, TypeOK
      <3>3. bag' = NoBag /\ NoBag' = NoBag
        BY <2>1 DEF Start, NoBag
      <3> QED
        BY <1>1, <2>1, <3>1, <3>2, <3>3 DEF Start, CampaignInv, TypeOK
    <2>2. CASE End
      BY <1>1, <2>2 DEF End, CampaignInv, TypeOK, NoBag
    <2> QED
      BY <2>1, <2>2
  <1>4. Phase'
    <2>1. CASE Start
      BY <1>2, <2>1 DEF Start, CampaignInv, TypeOK, Phase
    <2>2. CASE End
      BY <1>2, <2>2 DEF End, Phase
    <2> QED
      BY <2>1, <2>2
  <1> QED
    BY <1>2, <1>3, <1>4 DEF CampaignInv, CrossedFirst

LEMMA MovingKeepsInv ==
  ASSUME CampaignInv, Capture \/ CaptureFails \/ CrossFails
  PROVE  CampaignInv'
  <1>1. UNCHANGED <<sweep, script, ramp, bag, ledger, crossing>>
    BY DEF Capture, CaptureFails, CrossFails
  <1>2. TypeOK'
    <2>1. CASE Capture
      <3>1. sweep \in 1 .. sweep
        BY <2>1 DEF Capture, CampaignInv, TypeOK, Phase
      <3>2. disk' \in 1 .. sweep' \cup {None} /\ at' \in {"crossing", "cells"} /\ failed' = failed
        BY <1>1, <2>1, <3>1 DEF Capture
      <3> QED
        BY <1>1, <3>2 DEF CampaignInv, TypeOK, NoBag
    <2>2. CASE CaptureFails
      BY <1>1, <2>2 DEF CaptureFails, CampaignInv, TypeOK, NoBag
    <2>3. CASE CrossFails
      <3>1. failed' \in 0 .. 2 /\ at' \in {"crossing", "cells"} /\ disk' = disk
        BY <2>3 DEF CrossFails, CampaignInv, TypeOK, Phase
      <3> QED
        BY <1>1, <3>1 DEF CampaignInv, TypeOK, NoBag
    <2> QED
      BY <2>1, <2>2, <2>3
  <1>3. Phase'
    <2>1. CASE Capture
      BY <1>1, <2>1 DEF Capture, CampaignInv, Phase
    <2>2. CASE CaptureFails
      BY <1>1, <2>2 DEF CaptureFails, CampaignInv, Phase
    <2>3. CASE CrossFails
      <3>1. failed \in Int
        BY DEF CampaignInv, TypeOK
      <3> QED
        BY <1>1, <2>3, <3>1 DEF CrossFails, CampaignInv, TypeOK, Phase
    <2> QED
      BY <2>1, <2>2, <2>3
  <1>4. \A n \in DOMAIN ledger' :
           /\ ledger'[n].finished => RanAsTold(ledger'[n]) /\ DetectedFirst(ledger'[n])
           /\ ~ledger'[n].finished => ledger'[n].detect = None
    BY <1>1 DEF CampaignInv
  <1> QED
    BY <1>1, <1>2, <1>3, <1>4, CollectedStays, CrossedStays DEF CampaignInv

\* A cell is entered in the ledger.
LEMMA EnteringKeepsInv ==
  ASSUME CampaignInv, at = "cells", NEW c \in CellSet, ledger' = Append(ledger, c),
         c.finished => RanAsTold(c) /\ DetectedFirst(c), ~c.finished => c.detect = None,
         bag' = NoBag \/ (bag' \in BagSet /\ ~Unusable(bag'.joints)),
         UNCHANGED <<sweep, script, at, disk, ramp, crossing, failed>>
  PROVE  CampaignInv'
  <1>1. ledger \in Seq(CellSet)
    BY DEF CampaignInv, TypeOK
  <1>2. /\ ledger' \in Seq(CellSet) /\ Len(ledger') = Len(ledger) + 1
        /\ \A n \in 1 .. Len(ledger) : ledger'[n] = ledger[n]
        /\ ledger'[Len(ledger) + 1] = c
        /\ DOMAIN ledger' = 1 .. Len(ledger) + 1
    BY <1>1
  <1>3. TypeOK'
    BY <1>2 DEF CampaignInv, TypeOK, NoBag
  <1>4. Phase'
    BY DEF CampaignInv, Phase
  <1>5. \A n \in DOMAIN ledger' :
           /\ ledger'[n].finished => RanAsTold(ledger'[n]) /\ DetectedFirst(ledger'[n])
           /\ ~ledger'[n].finished => ledger'[n].detect = None
    <2> TAKE n \in DOMAIN ledger'
    <2>1. CASE n \in 1 .. Len(ledger)
      <3>1. n \in DOMAIN ledger /\ ledger'[n] = ledger[n]
        BY <1>1, <1>2, <2>1
      <3> QED
        BY <3>1 DEF CampaignInv
    <2>2. CASE n = Len(ledger) + 1
      BY <1>2, <2>2
    <2> QED
      BY <1>1, <1>2, <2>1, <2>2
  <1> QED
    BY <1>3, <1>4, <1>5, CollectedStays, CrossedStays DEF CampaignInv

LEMMA ResultIsTyped ==
  ASSUME TypeOK, Len(ledger) < Cells, NEW success \in BOOLEAN \cup {None}
  PROVE  LET r == Result(Cell, success) IN r \in CellSet /\ ~r.finished /\ r.detect = None
  <1>1. Cell.name \in Names /\ Cell.payload \in Int
    BY CellIsTyped
  <1>2. Simulator(Unset) \in WorldSet /\ B1Params(Unset) \in ToldSet
    BY DEF Simulator, B1Params, Unset, WorldSet, ToldSet, Forces
  <1> QED
    BY <1>1, <1>2 DEF Result, CellSet

LEMMA CellFailsKeepsInv ==
  ASSUME CampaignInv, CellFails
  PROVE  CampaignInv'
  <1> DEFINE c == Result(Cell, None)
  <1>1. c \in CellSet /\ ~c.finished /\ c.detect = None
    <2>1. TypeOK /\ Len(ledger) < Cells
      BY DEF CellFails, CampaignInv
    <2> QED
      BY <2>1, ResultIsTyped
  <1>2. ledger' = Append(ledger, c) /\ bag' = NoBag
    BY DEF CellFails
  <1>3. at = "cells" /\ UNCHANGED <<sweep, script, at, disk, ramp, crossing, failed>>
    BY DEF CellFails
  <1> HIDE DEF c
  <1> QED
    BY <1>1, <1>2, <1>3, EnteringKeepsInv

LEMMA RunCellKeepsInv ==
  ASSUME CampaignInv, RunCell
  PROVE  CampaignInv'
  <1> DEFINE nodes == Launched(Cell.name, Env(Cell))
             m == Compute(bag')
  <1>1. /\ TypeOK /\ at = "cells" /\ Len(ledger) < Cells /\ disk = sweep
        /\ UNCHANGED <<sweep, script, at, disk, ramp, crossing, failed>>
    BY DEF RunCell, CampaignInv, Phase
  <1>2. /\ Cell.name \in Names /\ Cell.payload \in Int
        /\ script # "exp2" => Cell.payload = 0
    BY <1>1, CellIsTyped
  <1>3. /\ Plan(nodes) = disk
        /\ nodes.world = [payload |-> Cell.payload, force |-> ForceOf(script)]
        /\ nodes.world \in WorldSet /\ nodes.told \in ToldSet
        /\ nodes.told.payload = Cell.payload
        /\ Cell.name # "B1" => nodes.told.force = ForceOf(script)
    BY <1>1, <1>2, LaunchedAs DEF TypeOK
  <1>4. PICK latency \in Latencies, heard \in BOOLEAN :
          /\ script # "exp3" \/ Cell.name = "B1" => ~heard /\ latency = Min(Latencies)
          /\ bag' \in BagsOf(Cell, nodes, latency, heard)
          /\ ~Unusable(bag'.joints)
          /\ LET t0 == IF heard THEN ForceStart ELSE None
             IN ledger' = Append(ledger,
                  [Result(Cell, m.success) EXCEPT
                     !.finished = TRUE,
                     !.detect = Anchored(FirstDetection(bag'.diag, t0),
                                         ExecutionStart(bag'.diag, t0)),
                     !.latency = latency, !.heard = heard,
                     !.lost = IF script = "exp3" THEN Cycles - Len(bag'.diag) ELSE 0,
                     !.route = Plan(nodes),
                     !.world = nodes.world, !.told = nodes.told])
    BY DEF RunCell
  <1>5. latency \in Nat
    BY CampaignAssumption
  <1>6. m.success \in BOOLEAN
    BY DEF Compute, TaskSuccess
  <1> HIDE DEF nodes, m
  <1>7. /\ bag' \in BagSet
        /\ script = "exp3" /\ Cell.name # "B1" =>
             \E hole \in 0 .. Cycles : Recorded(bag'.diag, Cell.name, nodes, latency, heard, hole)
    BY <1>2, <1>4, <1>5, BagIsRecorded
  <1>8. bag'.diag \in Seq(Diagnostic) /\ Distinct(bag'.diag) /\ Len(bag'.diag) \in Nat
    BY <1>7 DEF BagSet
  <1> DEFINE r == Result(Cell, m.success)
             t == Detection(bag'.diag, heard)
             lost == IF script = "exp3" THEN Cycles - Len(bag'.diag) ELSE 0
             c == [r EXCEPT !.finished = TRUE, !.detect = t,
                            !.latency = latency, !.heard = heard, !.lost = lost,
                            !.route = Plan(nodes), !.world = nodes.world, !.told = nodes.told]
  <1>9. ledger' = Append(ledger, c)
    BY <1>4 DEF Detection
  <1>10. t \in Int \cup {None} /\ (~heard => t = None)
    BY <1>8, DetectionIsTimeOrNone
  <1>11. r \in CellSet /\ r.name = Cell.name /\ r.payload = Cell.payload
    BY <1>1, <1>6, ResultIsTyped DEF Result
  <1>12. lost \in Int
    BY <1>8, CampaignAssumption
  <1>13. Plan(nodes) \in Nat
    BY <1>1, <1>3 DEF TypeOK
  <1> HIDE DEF t, r
  <1>14. /\ c \in CellSet /\ c.finished /\ c.name = Cell.name /\ c.payload = Cell.payload
         /\ c.route = Plan(nodes) /\ c.world = nodes.world /\ c.told = nodes.told
         /\ c.detect = t /\ c.latency = latency /\ c.lost = lost
    <2> HIDE DEF lost
    <2> QED
      BY <1>3, <1>5, <1>10, <1>11, <1>12, <1>13 DEF CellSet
  <1> HIDE DEF c
  <1>15. RanAsTold(c)
    BY <1>1, <1>2, <1>3, <1>14 DEF RanAsTold
  <1>16. DetectedFirst(c)
    <2> SUFFICES ASSUME t # None PROVE DetectedFirst(c)
      BY <1>14 DEF DetectedFirst
    <2>1. script = "exp3" /\ Cell.name \in {"B2", "B3"}
      BY <1>2, <1>4, <1>10 DEF Names
    <2>2. PICK hole \in 0 .. Cycles : Recorded(bag'.diag, Cell.name, nodes, latency, heard, hole)
      BY <1>7, <2>1
    <2>3. nodes.told.force # "none" /\ ramp \in Ramps
      BY <1>1, <1>3, <2>1 DEF ForceOf, TypeOK
    <2>4. \E k, f \in 0 .. Cycles - 1 :
            /\ f <= Cycles - Len(bag'.diag) /\ Cycles - Len(bag'.diag) <= 1 /\ t = k - f
            /\ Cell.name = "B2" => Reached(k, latency + k, ramp.fail)
            /\ Cell.name = "B3" =>
                 \A x \in Nat : Reached(x, latency + x + 1, ramp.warn) =>
                   k <= Cycles - Len(bag'.diag) + IF x < HorizonSteps THEN 0 ELSE x + 1 - HorizonSteps
      BY <1>5, <2>1, <2>2, <2>3, RunDetectsFirst DEF t
    <2>5. lost = Cycles - Len(bag'.diag)
      BY <2>1
    <2> HIDE DEF lost
    <2> QED
      BY <1>14, <2>1, <2>4, <2>5 DEF DetectedFirst
  <1> QED
    BY <1>1, <1>4, <1>7, <1>9, <1>14, <1>15, <1>16, EnteringKeepsInv

LEMMA CrossRunKeepsInv ==
  ASSUME CampaignInv, CrossRun
  PROVE  CampaignInv'
  <1> DEFINE nodes == B3Demo(CrossingEnv)
  <1>1. /\ TypeOK /\ at = "crossing" /\ at' = "cells" /\ disk = sweep /\ sweep >= 1 /\ script = "exp3"
        /\ UNCHANGED <<sweep, script, disk, ramp, bag, ledger, failed>>
    BY DEF CrossRun, CampaignInv, Phase
  <1>2. /\ nodes.told.ahead /\ Plan(nodes) = disk
        /\ nodes.world = [payload |-> 0, force |-> "ramp"] /\ nodes.world \in WorldSet
    <2> DEFINE env == CrossingEnv
    <2>1. env.planner = "replay" /\ env.payload = 0 /\ env.force = "ramp" /\ env.known
      BY DEF CrossingEnv, Exp3Env, Replay, Unset
    <2> HIDE DEF env
    <2>2. nodes.planner = env.planner /\ nodes.world = Simulator(env) /\ nodes.told = B3Params(env)
      BY DEF B3Demo, Nodes, env
    <2>3. B3Params(env).ahead = (env.known /\ env.force # "none")
      BY DEF B3Params, B2Params, B1Params
    <2> HIDE DEF nodes
    <2>4. nodes.told.ahead
      BY <2>1, <2>2, <2>3
    <2> QED
      BY <2>1, <2>2, <2>4 DEF Simulator, Plan, WorldSet, Forces
  <1>3. PICK latency \in Latencies, stretch \in Stretches, again \in BOOLEAN,
             heard \in {"before", "after", "never"} :
          \E d \in Diagnostics("B3", nodes, latency, heard # "never") :
            LET log == RouteLog(nodes, stretch, IF heard = "before" THEN latency ELSE 0, again)
                t0 == IF heard = "never" THEN None ELSE ForceStart
            IN crossing' = [time |-> Anchored(RouteCrossing(log), ExecutionStart(d, t0)),
                            latency |-> latency, stretch |-> stretch, heard |-> heard,
                            lost |-> Cycles - Len(d), route |-> Plan(nodes), world |-> nodes.world]
    BY DEF CrossRun
  <1> HIDE DEF nodes
  <1> DEFINE start == IF heard = "before" THEN latency ELSE 0
             log == RouteLog(nodes, stretch, start, again)
             t0 == IF heard = "never" THEN None ELSE ForceStart
             cross == RouteCrossing(log)
  <1>4. PICK d \in Diagnostics("B3", nodes, latency, heard # "never") :
          crossing' = [time |-> Anchored(cross, ExecutionStart(d, t0)),
                       latency |-> latency, stretch |-> stretch, heard |-> heard,
                       lost |-> Cycles - Len(d), route |-> Plan(nodes), world |-> nodes.world]
    BY <1>3
  <1>5. latency \in Nat /\ start \in Nat /\ stretch \in Nat /\ None \notin Int
    BY CampaignAssumption
  <1>6. PICK hole \in 0 .. Cycles : Recorded(d, "B3", nodes, latency, heard # "never", hole)
    BY <1>5, RunIsRecorded
  <1> DEFINE f == Earliest(hole)
             lost == Cycles - Len(d)
  <1>7. f \in 0 .. 1 /\ f <= lost /\ lost \in {0, 1}
    <2>1. lost = IF hole = Cycles THEN 0 ELSE 1
      BY <1>6 DEF Recorded
    <2>2. Cycles # 0
      BY CampaignAssumption
    <2> HIDE DEF lost
    <2> QED
      BY <2>1, <2>2 DEF Earliest
  <1>8. /\ ExecutionStart(d, ForceStart) = latency + f
        /\ ExecutionStart(d, None) = None
    BY <1>5, <1>6, StartOfExecution
  <1>9. cross = None \/ FirstBeyond(cross, stretch, start)
    BY <1>2, <1>5, CrossingIsFirst
  <1> DEFINE time == Anchored(cross, ExecutionStart(d, t0))
  <1>10. crossing' = [time |-> time, latency |-> latency, stretch |-> stretch, heard |-> heard,
                      lost |-> lost, route |-> sweep, world |-> nodes.world]
    BY <1>1, <1>2, <1>4
  <1> HIDE DEF start, log, cross, f, lost
  <1>11. time \in Int \cup {None}
    <2>1. cross \in Int \cup {None}
      BY <1>5, <1>9 DEF FirstBeyond
    <2>2. ExecutionStart(d, t0) \in Int \cup {None}
      BY <1>5, <1>7, <1>8
    <2> HIDE DEF t0
    <2> QED
      BY <1>5, <2>1, <2>2 DEF Anchored
  <1>12. ASSUME time # None, heard = "before", stretch = 1
         PROVE  \E i \in Nat :
                  /\ time = i - f
                  /\ Reached(i, latency + i, ramp.cross)
                  /\ \A n \in 0 .. i - 1 : ~Reached(n, latency + n, ramp.cross)
    <2>1. cross # None
      BY <1>12 DEF Anchored
    <2>2. PICK i \in Nat :
            /\ cross = start + i
            /\ Reached(i \div stretch, start + i, ramp.cross)
            /\ \A n \in 0 .. i - 1 : ~Reached(n \div stretch, start + n, ramp.cross)
      BY <1>9, <2>1 DEF FirstBeyond
    <2>3. start = latency
      BY <1>12 DEF start
    <2>4. time = (latency + i) - (latency + f)
      <3>1. t0 = ForceStart
        BY <1>12
      <3>2. ExecutionStart(d, t0) = latency + f /\ latency + f # None /\ cross = latency + i
        BY <1>5, <1>7, <1>8, <2>2, <2>3, <3>1
      <3> HIDE DEF t0
      <3> QED
        BY <2>1, <3>2 DEF Anchored
    <2>5. \A n \in 0 .. i : n \div stretch = n
      BY <1>12
    <2>6. i \in 0 .. i /\ \A n \in 0 .. i - 1 : n \in 0 .. i
      BY <2>2
    <2>7. time = i - f
      BY <1>5, <1>7, <2>2, <2>4
    <2> HIDE DEF time
    <2> QED
      BY <2>2, <2>3, <2>5, <2>6, <2>7
  <1> HIDE DEF time, t0
  <1>13. crossing' \in CrossingSet
    BY <1>1, <1>2, <1>7, <1>10, <1>11 DEF CrossingSet, TypeOK
  <1>14. TypeOK'
    BY <1>1, <1>13 DEF TypeOK, NoBag
  <1>15. Phase'
    BY <1>1 DEF Phase
  <1>16. CrossedFirst'
    <2> SUFFICES ASSUME time # None, heard = "before", stretch = 1
                 PROVE  \E i \in Nat, g \in 0 .. 1 :
                          /\ g <= lost /\ time = i - g
                          /\ Reached(i, latency + i, ramp.cross)
                          /\ \A n \in 0 .. i - 1 : ~Reached(n, latency + n, ramp.cross)
      BY <1>1, <1>2, <1>10 DEF CrossedFirst, Reached, Pose
    <2> QED
      BY <1>7, <1>12
  <1>17. \A n \in DOMAIN ledger' :
           /\ ledger'[n].finished => RanAsTold(ledger'[n]) /\ DetectedFirst(ledger'[n])
           /\ ~ledger'[n].finished => ledger'[n].detect = None
    BY <1>1 DEF CampaignInv
  <1> QED
    BY <1>1, <1>14, <1>15, <1>16, <1>17, CollectedStays DEF CampaignInv

LEMMA InvNext == CampaignInv /\ [Next]_vars => CampaignInv'
  <1> SUFFICES ASSUME CampaignInv, [Next]_vars PROVE CampaignInv'
    OBVIOUS
  <1>1. CASE Start \/ End
    BY <1>1, ForgettingKeepsInv
  <1>2. CASE Capture \/ CaptureFails \/ CrossFails
    BY <1>2, MovingKeepsInv
  <1>3. CASE CrossRun
    BY <1>3, CrossRunKeepsInv
  <1>4. CASE RunCell
    BY <1>4, RunCellKeepsInv
  <1>5. CASE CellFails
    BY <1>5, CellFailsKeepsInv
  <1>6. CASE UNCHANGED vars
    <2>1. \A n \in DOMAIN ledger' :
             /\ ledger'[n].finished => RanAsTold(ledger'[n]) /\ DetectedFirst(ledger'[n])
             /\ ~ledger'[n].finished => ledger'[n].detect = None
      BY <1>6 DEF vars, CampaignInv
    <2>2. TypeOK' /\ Phase'
      BY <1>6 DEF vars, CampaignInv, TypeOK, Phase, NoBag
    <2>3. UNCHANGED <<sweep, script, ramp, crossing>>
      BY <1>6 DEF vars
    <2> QED
      BY <2>1, <2>2, <2>3, CollectedStays, CrossedStays DEF CampaignInv
  <1> QED
    BY <1>1, <1>2, <1>3, <1>4, <1>5, <1>6 DEF Next

\* The scripts, with every capture, run and retry that fails, keep the invariant.
THEOREM CampaignInvariant == Spec => []CampaignInv
  BY InvInit, InvNext, PTL DEF Spec

\* Type correctness of the scripts' state and of every result they collect.
THEOREM CampaignTypes == Spec => []TypeOK
  <1>1. CampaignInv => TypeOK
    BY DEF CampaignInv
  <1> QED
    BY <1>1, CampaignInvariant, PTL

-----------------------------------------------------------------------------
(***************************************************************************)
(* What the comparison rests on.                                           *)
(***************************************************************************)
LEMMA FinishedRan ==
  ASSUME CampaignInv, NEW c \in Finished
  PROVE  c \in CellSet /\ RanAsTold(c) /\ DetectedFirst(c)
  <1>1. PICK n \in DOMAIN ledger : c = ledger[n] /\ ledger[n].finished
    BY DEF Finished
  <1>2. ledger \in Seq(CellSet)
    BY DEF CampaignInv, TypeOK
  <1> QED
    BY <1>1, <1>2 DEF CampaignInv

\* Whatever is swept, however often a capture or a run fails: every run that enters
\* the tables of a sweep executed the plan that sweep captured, in the physics of
\* its payload, and B2 and B3 were told of the physics that was simulated.
THEOREM ComparisonIsLikeForLike == Spec => []LikeForLike
  <1>1. ASSUME CampaignInv PROVE LikeForLike
    <2>1. \A c \in Finished : RanAsTold(c)
      BY <1>1, FinishedRan
    <2>2. crossing # None =>
            script = "exp3" /\ crossing.route = sweep /\ crossing.world = [payload |-> 0, force |-> "ramp"]
      BY <1>1 DEF CampaignInv, CrossedFirst
    <2>3. ASSUME NEW c \in Finished
          PROVE  /\ c.route = sweep /\ c.told.payload = c.world.payload
                 /\ c.name # "B1" => c.told.force = c.world.force
                 /\ crossing # None => c.world = crossing.world
      <3>1. /\ c.route = sweep /\ c.told.payload = c.payload
            /\ c.world = [payload |-> c.payload, force |-> ForceOf(script)]
            /\ c.name # "B1" => c.told.force = ForceOf(script)
            /\ script # "exp2" => c.payload = 0
        BY <2>1 DEF RanAsTold
      <3>2. c.world.payload = c.payload /\ c.world.force = ForceOf(script)
        BY <3>1
      <3>3. crossing # None => c.payload = 0 /\ ForceOf(script) = "ramp"
        BY <2>2, <3>1 DEF ForceOf
      <3> QED
        BY <2>2, <3>1, <3>2, <3>3
    <2>4. ASSUME NEW c \in Finished, NEW d \in Finished, c.payload = d.payload
          PROVE  c.world = d.world
      BY <2>1, <2>4 DEF RanAsTold
    <2> QED
      BY <2>2, <2>3, <2>4 DEF LikeForLike
  <1> QED
    BY <1>1, CampaignInvariant, PTL

LEMMA LesserOf ==
  ASSUME NEW a \in Int, NEW b \in Int
  PROVE  Min({a, b}) \in Int /\ Min({a, b}) <= a /\ Min({a, b}) <= b
         /\ (Min({a, b}) = a \/ Min({a, b}) = b)
  <1> DEFINE S == {a, b}
  <1>1. IsFiniteSet(S)
    <2>1. IsFiniteSet({a}) /\ S = {a} \cup {b}
      BY FS_Singleton
    <2> HIDE DEF S
    <2> QED
      BY <2>1, FS_AddElement
  <1>2. S \in SUBSET Int /\ S # {} /\ a \in S /\ b \in S
    OBVIOUS
  <1>3. Min(S) \in S /\ \A y \in S : Min(S) <= y
    <2> HIDE DEF S
    <2> QED
      BY <1>1, <1>2, Extremes
  <1> QED
    BY <1>3

\* For every horizon, latency, ramp and route, and whichever cycle the recorder
\* lost: with the route as captured and instants that can be compared, B3 warns a
\* whole horizon before the crossing, or with its first cycle, and B2 not before it.
THEOREM LeadIsTheHorizon == Spec => []LeadsByTheHorizon
  <1>1. ASSUME CampaignInv PROVE LeadsByTheHorizon
    <2> SUFFICES ASSUME NEW c \in Finished, Compared(c), crossing.stretch = 1
                 PROVE  LET warning == crossing.time - c.detect
                        IN IF c.name = "B2" THEN warning <= c.lost
                           ELSE warning >= Min({crossing.time, HorizonSteps - 1}) - c.lost - crossing.lost
      BY DEF LeadsByTheHorizon
    <2>1. c \in CellSet /\ DetectedFirst(c) /\ c.detect # None
      BY <1>1, FinishedRan DEF Compared
    <2>2. /\ c.name \in {"B2", "B3"} /\ c.latency \in Latencies /\ c.lost \in Int
          /\ \E k, f \in 0 .. Cycles - 1 :
               /\ f <= c.lost /\ c.lost <= 1 /\ c.detect = k - f
               /\ c.name = "B2" => Reached(k, c.latency + k, ramp.fail)
               /\ c.name = "B3" =>
                    \A x \in Nat : Reached(x, c.latency + x + 1, ramp.warn) =>
                      k <= c.lost + IF x < HorizonSteps THEN 0 ELSE x + 1 - HorizonSteps
      BY <2>1 DEF DetectedFirst, CellSet, Names
    <2>3. PICK k \in 0 .. Cycles - 1, f \in 0 .. Cycles - 1 :
               /\ f <= c.lost /\ c.lost <= 1 /\ c.detect = k - f
               /\ c.name = "B2" => Reached(k, c.latency + k, ramp.fail)
               /\ c.name = "B3" =>
                    \A x \in Nat : Reached(x, c.latency + x + 1, ramp.warn) =>
                      k <= c.lost + IF x < HorizonSteps THEN 0 ELSE x + 1 - HorizonSteps
      BY <2>2
    <2>4. /\ crossing \in CrossingSet
          /\ \E i \in Nat, g \in 0 .. 1 :
               /\ g <= crossing.lost /\ crossing.time = i - g
               /\ Reached(i, crossing.latency + i, ramp.cross)
               /\ \A n \in 0 .. i - 1 : ~Reached(n, crossing.latency + n, ramp.cross)
      BY <1>1 DEF CampaignInv, TypeOK, CrossedFirst, Compared
    <2>5. PICK i \in Nat, g \in 0 .. 1 :
               /\ g <= crossing.lost /\ crossing.time = i - g
               /\ Reached(i, crossing.latency + i, ramp.cross)
               /\ \A n \in 0 .. i - 1 : ~Reached(n, crossing.latency + n, ramp.cross)
      BY <2>4
    <2>6. /\ ramp \in Ramps /\ ramp.warn \in Nat /\ ramp.cross \in Nat /\ ramp.fail \in Nat
          /\ ramp.warn <= ramp.cross /\ ramp.cross <= ramp.fail
          /\ Cycles \in Nat /\ HorizonSteps \in Nat /\ HorizonSteps >= 1
      BY <1>1, CampaignAssumption DEF CampaignInv, TypeOK
    <2>7. c.latency \in Nat /\ crossing.latency \in Nat /\ crossing.lost \in {0, 1}
      BY <2>2, <2>4, CampaignAssumption DEF CrossingSet
    <2>8. \/ c.latency = crossing.latency
          \/ /\ ramp.warn <= c.latency /\ ramp.cross <= crossing.latency
      <3>1. Min(Latencies) \in Nat /\ \A l \in Latencies : Min(Latencies) <= l
        BY CampaignAssumption, LeastNatural
      <3>2. crossing.latency \in Latencies
        BY <2>4 DEF CrossingSet
      <3> DEFINE least == Min(Latencies)
      <3>3. least \in Nat /\ least <= c.latency /\ least <= crossing.latency
        BY <2>2, <3>1, <3>2
      <3>4. \/ c.latency = crossing.latency
            \/ ramp.warn <= least /\ ramp.cross <= least
        BY DEF Compared
      <3> HIDE DEF least
      <3> QED
        BY <2>6, <2>7, <3>3, <3>4
    <2>9. CASE c.name = "B2"
      <3>1. Reached(k, crossing.latency + k, ramp.cross)
        <4>1. Pose(k) >= ramp.pose /\ c.latency + k >= ramp.fail
          BY <2>3, <2>9 DEF Reached
        <4>2. crossing.latency + k >= ramp.cross
          BY <2>6, <2>7, <2>8, <4>1
        <4> QED
          BY <4>1, <4>2 DEF Reached
      <3>2. i <= k
        BY <2>5, <3>1
      <3> QED
        BY <2>2, <2>3, <2>5, <2>9, <3>2
    <2>10. CASE c.name = "B3"
      <3>1. Reached(i, c.latency + i + 1, ramp.warn)
        <4>1. Pose(i) >= ramp.pose /\ crossing.latency + i >= ramp.cross
          BY <2>5 DEF Reached
        <4>2. c.latency + i + 1 >= ramp.warn
          BY <2>6, <2>7, <2>8, <4>1
        <4> QED
          BY <4>1, <4>2 DEF Reached
      <3>2. k <= c.lost + IF i < HorizonSteps THEN 0 ELSE i + 1 - HorizonSteps
        BY <2>3, <2>10, <3>1
      <3> DEFINE least == Min({crossing.time, HorizonSteps - 1})
      <3>3. least \in Int /\ least <= crossing.time /\ least <= HorizonSteps - 1
        <4>1. crossing.time \in Int /\ HorizonSteps - 1 \in Int
          BY <2>5, <2>6
        <4> QED
          BY <4>1, LesserOf
      <3> HIDE DEF least
      <3>4. crossing.time - c.detect >= least - c.lost - crossing.lost
        BY <2>2, <2>3, <2>5, <2>6, <2>7, <3>2, <3>3
      <3> QED
        BY <2>10, <3>4 DEF least
    <2> QED
      BY <2>2, <2>9, <2>10
  <1> QED
    BY <1>1, CampaignInvariant, PTL

\* Of every recording a cell may leave, in whatever order it is read: a run that is
\* judged a success had its last error before the window it was judged by.
THEOREM SuccessSustained == Spec => []SuccessIsSustained
  <1>1. ASSUME CampaignInv PROVE SuccessIsSustained
    <2> SUFFICES ASSUME bag # NoBag, Compute(bag).success,
                        NEW bad \in ToSet(bag.joints), bad.whole, ~(bad.err <= Tolerance)
                 PROVE  LastViolation(bag.joints) < Final(bag.joints).at - Settle
      BY DEF SuccessIsSustained
    <2>1. bag.joints \in Seq(JointState) /\ bag.joints # <<>>
      BY <1>1 DEF CampaignInv, TypeOK, BagSet, Unusable
    <2>2. TaskSuccess(bag.joints)
      BY DEF Compute
    <2>3. Settle \in Int /\ Tolerance \in Int
      BY CampaignAssumption
    <2> QED
      BY <2>1, <2>2, <2>3, SustainedSuccess
  <1> QED
    BY <1>1, CampaignInvariant, PTL

\* Of every recording a cell may leave: no number in a table depends on the order
\* the messages are returned in.
THEOREM ReadOrderCannotMatter == Spec => []ReadOrderIsIrrelevant
  <1>1. ASSUME CampaignInv PROVE ReadOrderIsIrrelevant
    <2> SUFFICES ASSUME bag # NoBag
                 PROVE  LET sorted == [bag EXCEPT !.joints = InTime(@), !.diag = InTime(@)]
                        IN /\ Compute(bag) = Compute(sorted)
                           /\ FirstDetection(bag.diag, ForceStart) = FirstDetection(sorted.diag, ForceStart)
      BY DEF ReadOrderIsIrrelevant
    <2>1. bag \in BagSet
      BY <1>1 DEF CampaignInv, TypeOK
    <2> QED
      BY <2>1, OrderIsIrrelevant
  <1> QED
    BY <1>1, CampaignInvariant, PTL

\* Of every recording a cell may leave: a prediction is compared with the
\* observation of the very cycle it is about, or with none.
THEOREM ValidationComparesACycleWithItself == Spec => []ValidatesItsOwnCycle
  <1>1. ASSUME CampaignInv PROVE ValidatesItsOwnCycle
    <2>1. bag.diag \in Seq(Diagnostic)
      <3>1. CASE bag = NoBag
        BY <3>1 DEF NoBag
      <3>2. CASE bag # NoBag
        BY <1>1, <3>2 DEF CampaignInv, TypeOK, BagSet
      <3> QED
        BY <3>1, <3>2
    <2>2. Period = 1
      BY CampaignAssumption
    <2> QED
      BY <2>1, <2>2, ValidationIsExact DEF ValidatesItsOwnCycle
  <1> QED
    BY <1>1, CampaignInvariant, PTL
=============================================================================

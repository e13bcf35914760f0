---------------------------- MODULE GroundingProofs ----------------------------
(***************************************************************************)
(* Why an accepted page is grounded, why the arbiter never decides, and     *)
(* what becomes of a query: where its terms come from, what its merged      *)
(* conditions mean and what relaxing them loses.  For all sources, answers, *)
(* policies, configurations, queries and rows.                              *)
(***************************************************************************)
EXTENDS Grounding, FiniteSetTheorems, SequenceTheorems, NaturalsInduction,
        WellFoundedInduction, TLAPS

-----------------------------------------------------------------------------
(* Loops.                                                                  *)

\* A set of numbers has a least one.
LEMMA LeastNatural ==
  ASSUME NEW T, T \subseteq Nat, T # {}
  PROVE  \E x \in T : \A y \in T : x <= y
<1> DEFINE R == OpToRel(<, Nat)
<1>1. IsWellFoundedOn(R, Nat)
  BY NatLessThanWellFounded
<1>2. PICK x \in T : \A y \in T : ~(<<y, x>> \in R)
  <2> HIDE DEF R
  <2> QED BY <1>1, WFMin
<1>3. \A m, n \in Nat : <<m, n>> \in R <=> m < n
  BY DEF OpToRel
<1> HIDE DEF R
<1>4. ASSUME NEW y \in T PROVE x <= y
  <2>1. x \in Nat /\ y \in Nat
    OBVIOUS
  <2>2. ~(y < x)
    BY <1>2, <1>3, <2>1
  <2> QED BY <2>1, <2>2
<1> QED BY <1>4

\* What holds before a loop and is kept by every turn holds all along.
LEMMA Throughout ==
  ASSUME NEW N \in Nat, NEW T, 0 \in T,
         \A n \in 1..N : n - 1 \in T => n \in T
  PROVE  \A n \in 0..N : n \in T
<1> DEFINE bad == {n \in 0..N : n \notin T}
<1> SUFFICES ASSUME bad # {} PROVE FALSE
  OBVIOUS
<1>0. bad \subseteq Nat
  OBVIOUS
<1>1. PICK x \in bad : \A y \in bad : x <= y
  <2> HIDE DEF bad
  <2> QED BY <1>0, LeastNatural
<1>2. x \in 1..N /\ x - 1 \in 0..N
  BY <1>1
<1>3. x - 1 \in T
  BY <1>1, <1>2
<1> QED BY <1>1, <1>2, <1>3

LEMMA MergedSteps ==
  ASSUME NEW list, Len(list) \in Nat
  PROVE  \E f : /\ f = [n \in 0..Len(list) |->
                          IF n = 0 THEN <<>> ELSE PushMerged(f[n - 1], list[n])]
                /\ Merged(list) = f[Len(list)]
<1> DEFINE IsRun(r, n) ==
             r = [k \in 0..n |->
                    IF k = 0 THEN <<>> ELSE PushMerged(r[k - 1], list[k])]
           T == {n \in 0..Len(list) : \E r : IsRun(r, n)}
           after == CHOOSE f : IsRun(f, Len(list))
<1>1. 0 \in T
  <2>1. IsRun([k \in 0..0 |-> <<>>], 0)
    OBVIOUS
  <2> HIDE DEF IsRun
  <2> QED BY <2>1
<1>2. ASSUME NEW n \in 1..Len(list), n - 1 \in T PROVE n \in T
  <2>1. PICK r : IsRun(r, n - 1)
    BY <1>2
  <2> DEFINE q == [k \in 0..n |->
                     IF k = n THEN PushMerged(r[n - 1], list[n]) ELSE r[k]]
  <2>2. ASSUME NEW k \in 0..n
        PROVE  q[k] = IF k = 0 THEN <<>> ELSE PushMerged(q[k - 1], list[k])
    BY <2>1
  <2>3. IsRun(q, n)
    BY <2>2
  <2> HIDE DEF IsRun, q
  <2> QED BY <2>3
<1>3. Len(list) \in T
  <2> HIDE DEF T
  <2>1. \A n \in 1..Len(list) : n - 1 \in T => n \in T
    BY <1>2
  <2>2. \A n \in 0..Len(list) : n \in T
    BY <1>1, <2>1, Throughout
  <2> QED BY <2>2
<1>4. IsRun(after, Len(list))
  BY <1>3
<1>5. Merged(list) = after[Len(list)]
  BY DEF Merged, Loop
<1> QED BY <1>4, <1>5


LEMMA KeptSteps ==
  ASSUME NEW list, Len(list) \in Nat, NEW S
  PROVE  \E f : /\ f = [n \in 0..Len(list) |->
                          IF n = 0 THEN <<>> ELSE PushIf(S, f[n - 1], list[n])]
                /\ Kept(list, S) = f[Len(list)]
<1> DEFINE IsRun(r, n) ==
             r = [k \in 0..n |->
                    IF k = 0 THEN <<>> ELSE PushIf(S, r[k - 1], list[k])]
           T == {n \in 0..Len(list) : \E r : IsRun(r, n)}
           after == CHOOSE f : IsRun(f, Len(list))
<1>1. 0 \in T
  <2>1. IsRun([k \in 0..0 |-> <<>>], 0)
    OBVIOUS
  <2> HIDE DEF IsRun
  <2> QED BY <2>1
<1>2. ASSUME NEW n \in 1..Len(list), n - 1 \in T PROVE n \in T
  <2>1. PICK r : IsRun(r, n - 1)
    BY <1>2
  <2> DEFINE q == [k \in 0..n |->
                     IF k = n THEN PushIf(S, r[n - 1], list[n]) ELSE r[k]]
  <2>2. ASSUME NEW k \in 0..n
        PROVE  q[k] = IF k = 0 THEN <<>> ELSE PushIf(S, q[k - 1], list[k])
    BY <2>1
  <2>3. IsRun(q, n)
    BY <2>2
  <2> HIDE DEF IsRun, q
  <2> QED BY <2>3
<1>3. Len(list) \in T
  <2> HIDE DEF T
  <2>1. \A n \in 1..Len(list) : n - 1 \in T => n \in T
    BY <1>2
  <2>2. \A n \in 0..Len(list) : n \in T
    BY <1>1, <2>1, Throughout
  <2> QED BY <2>2
<1>4. IsRun(after, Len(list))
  BY <1>3
<1>5. Kept(list, S) = after[Len(list)]
  BY DEF Kept, Loop
<1> QED BY <1>4, <1>5


LEMMA UniqueSteps ==
  ASSUME NEW list, Len(list) \in Nat, NEW base
  PROVE  \E f : /\ f = [n \in 0..Len(list) |->
                          IF n = 0 THEN base ELSE PushUnique(f[n - 1], list[n])]
                /\ Loop(PushUnique, base, list) = f[Len(list)]
<1> DEFINE IsRun(r, n) ==
             r = [k \in 0..n |->
                    IF k = 0 THEN base ELSE PushUnique(r[k - 1], list[k])]
           T == {n \in 0..Len(list) : \E r : IsRun(r, n)}
           after == CHOOSE f : IsRun(f, Len(list))
<1>1. 0 \in T
  <2>1. IsRun([k \in 0..0 |-> base], 0)
    OBVIOUS
  <2> HIDE DEF IsRun
  <2> QED BY <2>1
<1>2. ASSUME NEW n \in 1..Len(list), n - 1 \in T PROVE n \in T
  <2>1. PICK r : IsRun(r, n - 1)
    BY <1>2
  <2> DEFINE q == [k \in 0..n |->
                     IF k = n THEN PushUnique(r[n - 1], list[n]) ELSE r[k]]
  <2>2. ASSUME NEW k \in 0..n
        PROVE  q[k] = IF k = 0 THEN base ELSE PushUnique(q[k - 1], list[k])
    BY <2>1
  <2>3. IsRun(q, n)
    BY <2>2
  <2> HIDE DEF IsRun, q
  <2> QED BY <2>3
<1>3. Len(list) \in T
  <2> HIDE DEF T
  <2>1. \A n \in 1..Len(list) : n - 1 \in T => n \in T
    BY <1>2
  <2>2. \A n \in 0..Len(list) : n \in T
    BY <1>1, <2>1, Throughout
  <2> QED BY <2>2
<1>4. IsRun(after, Len(list))
  BY <1>3
<1>5. Loop(PushUnique, base, list) = after[Len(list)]
  BY DEF Loop
<1> QED BY <1>4, <1>5

\* The members of a list with one more member, and of two lists.
LEMMA AppendSet ==
  ASSUME NEW C, NEW s \in Seq(C), NEW x \in C
  PROVE  Append(s, x) \in Seq(C) /\ ToSet(Append(s, x)) = ToSet(s) \cup {x}
<1>1. /\ Append(s, x) \in Seq(C) /\ Len(Append(s, x)) = Len(s) + 1
      /\ \A i \in 1..Len(s) : Append(s, x)[i] = s[i]
      /\ Append(s, x)[Len(s) + 1] = x
  BY AppendProperties
<1>2. Len(s) \in Nat /\ DOMAIN s = 1..Len(s)
      /\ DOMAIN Append(s, x) = 1..(Len(s) + 1)
  BY <1>1, LenProperties
<1> QED BY <1>1, <1>2 DEF ToSet

LEMMA ConcatSet ==
  ASSUME NEW C, NEW s \in Seq(C), NEW t \in Seq(C)
  PROVE  s \o t \in Seq(C) /\ ToSet(s \o t) = ToSet(s) \cup ToSet(t)
<1>1. /\ s \o t \in Seq(C) /\ Len(s \o t) = Len(s) + Len(t)
      /\ \A i \in 1..Len(s) + Len(t) :
           (s \o t)[i] = IF i <= Len(s) THEN s[i] ELSE t[i - Len(s)]
  BY ConcatProperties
<1>2. /\ Len(s) \in Nat /\ DOMAIN s = 1..Len(s)
      /\ Len(t) \in Nat /\ DOMAIN t = 1..Len(t)
      /\ DOMAIN (s \o t) = 1..(Len(s) + Len(t))
  BY <1>1, LenProperties
<1>3. \A i \in 1..Len(t) : (s \o t)[Len(s) + i] = t[i]
  BY <1>1, <1>2
<1>4. ToSet(s \o t) \subseteq ToSet(s) \cup ToSet(t)
  BY <1>1, <1>2 DEF ToSet
<1>5. ToSet(s) \subseteq ToSet(s \o t)
  BY <1>1, <1>2 DEF ToSet
<1>6. ToSet(t) \subseteq ToSet(s \o t)
  <2>1. \A i \in 1..Len(t) : Len(s) + i \in 1..(Len(s) + Len(t))
    BY <1>2
  <2> QED BY <1>2, <1>3, <2>1 DEF ToSet
<1> QED BY <1>1, <1>4, <1>5, <1>6

LEMMA KeptList ==
  ASSUME NEW C, NEW list \in Seq(C), NEW S
  PROVE  Kept(list, S) \in Seq(C) /\ ToSet(Kept(list, S)) = ToSet(list) \cap S
<1>1. Len(list) \in Nat /\ DOMAIN list = 1..Len(list)
      /\ \A n \in 1..Len(list) : list[n] \in C
  BY LenProperties, ElementOfSeq
<1>2. PICK f : /\ f = [n \in 0..Len(list) |->
                        IF n = 0 THEN <<>> ELSE PushIf(S, f[n - 1], list[n])]
               /\ Kept(list, S) = f[Len(list)]
  BY <1>1, KeptSteps
<1> DEFINE Good(n) == /\ f[n] \in Seq(C)
                      /\ ToSet(f[n]) = {list[i] : i \in 1..n} \cap S
           T == {n \in 0..Len(list) : Good(n)}
<1>3. 0 \in T
  <2>1. f[0] = <<>>
    BY <1>1, <1>2
  <2>2. ToSet(<<>>) = {} /\ {list[i] : i \in 1..0} = {}
    BY DEF ToSet
  <2>3. Good(0)
    BY <2>1, <2>2, EmptySeq
  <2> QED BY <1>1, <2>3
<1>4. ASSUME NEW n \in 1..Len(list), n - 1 \in T PROVE n \in T
  <2>1. n \in 0..Len(list) /\ n # 0 /\ list[n] \in C
    BY <1>1
  <2>2. f[n] = PushIf(S, f[n - 1], list[n])
    BY <1>2, <2>1
  <2>3. PICK g : g = f[n - 1]
    OBVIOUS
  <2>4. g \in Seq(C) /\ ToSet(g) = {list[i] : i \in 1..(n - 1)} \cap S
    BY <1>4, <2>3
  <2>5. {list[i] : i \in 1..n} = {list[i] : i \in 1..(n - 1)} \cup {list[n]}
    <3>1. \A i \in Int : i \in 1..n <=> i \in 1..(n - 1) \/ i = n
      BY <2>1
    <3> QED BY <3>1
  <2>6. CASE list[n] \in S
    <3>1. f[n] = Append(g, list[n])
      BY <2>2, <2>3, <2>6 DEF PushIf
    <3>2. f[n] \in Seq(C) /\ ToSet(f[n]) = ToSet(g) \cup {list[n]}
      BY <2>1, <2>4, <3>1, AppendSet
    <3>3. Good(n)
      BY <2>4, <2>5, <2>6, <3>2
    <3> QED BY <2>1, <3>3
  <2>7. CASE list[n] \notin S
    <3>1. Good(n)
      BY <2>2, <2>3, <2>4, <2>5, <2>7 DEF PushIf
    <3> QED BY <2>1, <3>1
  <2> QED BY <2>6, <2>7
<1>5. Good(Len(list))
  <2> HIDE DEF Good
  <2>1. \A n \in 1..Len(list) : n - 1 \in T => n \in T
    BY <1>4
  <2> HIDE DEF T
  <2>2. \A n \in 0..Len(list) : n \in T
    BY <1>1, <1>3, <2>1, Throughout
  <2>3. Len(list) \in T
    BY <1>1, <2>2
  <2> QED BY <2>3 DEF T
<1>6. ToSet(list) = {list[i] : i \in 1..Len(list)}
  BY <1>1 DEF ToSet
<1> HIDE DEF T
<1>7. /\ f[Len(list)] \in Seq(C)
      /\ ToSet(f[Len(list)]) = {list[i] : i \in 1..Len(list)} \cap S
  BY <1>5
<1> HIDE DEF Good
<1> QED BY <1>2, <1>6, <1>7

LEMMA UniqueList ==
  ASSUME NEW C, NEW list \in Seq(C), NEW base \in Seq(C)
  PROVE  LET all == Loop(PushUnique, base, list)
         IN  all \in Seq(C) /\ ToSet(all) = ToSet(base) \cup ToSet(list)
<1>1. Len(list) \in Nat /\ DOMAIN list = 1..Len(list)
      /\ \A n \in 1..Len(list) : list[n] \in C
  BY LenProperties, ElementOfSeq
<1>2. PICK f : /\ f = [n \in 0..Len(list) |->
                        IF n = 0 THEN base ELSE PushUnique(f[n - 1], list[n])]
               /\ Loop(PushUnique, base, list) = f[Len(list)]
  BY <1>1, UniqueSteps
<1> DEFINE Good(n) == /\ f[n] \in Seq(C)
                      /\ ToSet(f[n]) = ToSet(base) \cup {list[i] : i \in 1..n}
           T == {n \in 0..Len(list) : Good(n)}
<1>3. 0 \in T
  <2>1. f[0] = base
    BY <1>1, <1>2
  <2>2. {list[i] : i \in 1..0} = {}
    OBVIOUS
  <2>3. Good(0)
    BY <2>1, <2>2
  <2> QED BY <1>1, <2>3
<1>4. ASSUME NEW n \in 1..Len(list), n - 1 \in T PROVE n \in T
  <2>1. n \in 0..Len(list) /\ n # 0 /\ list[n] \in C
    BY <1>1
  <2>2. f[n] = PushUnique(f[n - 1], list[n])
    BY <1>2, <2>1
  <2>3. PICK g : g = f[n - 1]
    OBVIOUS
  <2>4. /\ g \in Seq(C)
        /\ ToSet(g) = ToSet(base) \cup {list[i] : i \in 1..(n - 1)}
    BY <1>4, <2>3
  <2>5. {list[i] : i \in 1..n} = {list[i] : i \in 1..(n - 1)} \cup {list[n]}
    <3>1. \A i \in Int : i \in 1..n <=> i \in 1..(n - 1) \/ i = n
      BY <2>1
    <3> QED BY <3>1
  <2>6. CASE list[n] \notin ToSet(g)
    <3>1. f[n] = Append(g, list[n])
      BY <2>2, <2>3, <2>6 DEF PushUnique
    <3>2. f[n] \in Seq(C) /\ ToSet(f[n]) = ToSet(g) \cup {list[n]}
      BY <2>1, <2>4, <3>1, AppendSet
    <3>3. Good(n)
      BY <2>4, <2>5, <3>2
    <3> QED BY <2>1, <3>3
  <2>7. CASE list[n] \in ToSet(g)
    <3>1. Good(n)
      BY <2>2, <2>3, <2>4, <2>5, <2>7 DEF PushUnique
    <3> QED BY <2>1, <3>1
  <2> QED BY <2>6, <2>7
<1>5. Good(Len(list))
  <2> HIDE DEF Good
  <2>1. \A n \in 1..Len(list) : n - 1 \in T => n \in T
    BY <1>4
  <2> HIDE DEF T
  <2>2. \A n \in 0..Len(list) : n \in T
    BY <1>1, <1>3, <2>1, Throughout
  <2>3. Len(list) \in T
    BY <1>1, <2>2
  <2> QED BY <2>3 DEF T
<1>6. ToSet(list) = {list[i] : i \in 1..Len(list)}
  BY <1>1 DEF ToSet
<1> HIDE DEF T
<1>7. /\ f[Len(list)] \in Seq(C)
      /\ ToSet(f[Len(list)]) = ToSet(base) \cup {list[i] : i \in 1..Len(list)}
  BY <1>5
<1> HIDE DEF Good
<1> QED BY <1>2, <1>6, <1>7

\* FlattenSeq starts with the first list, if there is one.
LEMMA FlatList ==
  ASSUME NEW C, NEW lists \in Seq(Seq(C))
  PROVE  /\ FlattenSeq(lists) \in Seq(C)
         /\ ToSet(FlattenSeq(lists))
              = UNION {ToSet(lists[i]) : i \in DOMAIN lists}
<1>1. /\ Len(lists) \in Nat /\ DOMAIN lists = 1..Len(lists)
      /\ \A n \in 1..Len(lists) : lists[n] \in Seq(C)
  BY LenProperties, ElementOfSeq
<1>2. CASE Len(lists) = 0
  <2>1. lists = <<>>
    BY <1>2, EmptySeq
  <2>2. FlattenSeq(lists) = <<>>
    BY <1>2, <2>1 DEF FlattenSeq
  <2>3. DOMAIN lists = {} /\ ToSet(<<>>) = {}
    BY <1>1, <1>2 DEF ToSet
  <2> QED BY <2>2, <2>3, EmptySeq
<1>3. CASE Len(lists) # 0
  <2> DEFINE Join(s, t) == s \o t
             IsRun(r, n) ==
               r = [k \in 1..n |->
                      IF k = 1 THEN lists[k] ELSE Join(r[k - 1], lists[k])]
             Good(n) == \A r : IsRun(r, n) =>
                          /\ r[n] \in Seq(C)
                          /\ ToSet(r[n]) = UNION {ToSet(lists[i]) : i \in 1..n}
             Runs(n) == n = 0 \/ \E r : IsRun(r, n)
             T == {n \in 0..Len(lists) : Runs(n)}
             U == {n \in 0..Len(lists) : n = 0 \/ Good(n)}
             after == CHOOSE f : IsRun(f, Len(lists))
  <2>0. \A s, t : Join(s, t) = s \o t
    OBVIOUS
  <2>10. FlattenSeq(lists) = after[Len(lists)]
    BY <1>3 DEF FlattenSeq
  <2> HIDE DEF Join
  <2>1. 0 \in T /\ 0 \in U
    BY <1>1
  <2>2. ASSUME NEW n \in 1..Len(lists), n - 1 \in T PROVE n \in T
    <3>1. CASE n = 1
      <4>1. IsRun([k \in 1..1 |-> lists[1]], 1)
        OBVIOUS
      <4> HIDE DEF IsRun
      <4> QED BY <3>1, <4>1
    <3>2. CASE n # 1
      <4>0. n \in Nat /\ n - 1 # 0 /\ n - 1 \in 1..n
        BY <1>1, <3>2
      <4>1. PICK r : IsRun(r, n - 1)
        <5> HIDE DEF IsRun
        <5> QED BY <2>2, <4>0
      <4> DEFINE q == [k \in 1..n |->
                         IF k = n THEN Join(r[n - 1], lists[n]) ELSE r[k]]
      <4>2. ASSUME NEW k \in 1..n
            PROVE  q[k] = IF k = 1 THEN lists[k] ELSE Join(q[k - 1], lists[k])
        <5> HIDE DEF T
        <5>1. q[k] = IF k = n THEN Join(r[n - 1], lists[n]) ELSE r[k]
          OBVIOUS
        <5>2. CASE k = n
          <6>1. k # 1 /\ k - 1 \in 1..n /\ k - 1 # n
            BY <3>2, <4>0, <5>2
          <6>2. q[k - 1] = r[k - 1]
            BY <6>1
          <6> HIDE DEF q
          <6> QED BY <5>1, <5>2, <6>1, <6>2
        <5>3. CASE k # n
          <6>1. k \in 1..(n - 1)
            BY <4>0, <5>3
          <6>2. r[k] = IF k = 1 THEN lists[k] ELSE Join(r[k - 1], lists[k])
            <7>1. \A x \in 1..(n - 1) :
                    r[x] = IF x = 1 THEN lists[x] ELSE Join(r[x - 1], lists[x])
              BY <4>1
            <7> QED BY <6>1, <7>1
          <6>3. k # 1 => q[k - 1] = r[k - 1]
            BY <4>0, <6>1
          <6> HIDE DEF q
          <6> QED BY <5>1, <5>3, <6>2, <6>3
        <5> QED BY <5>2, <5>3
      <4>3. IsRun(q, n)
        BY <4>2
      <4>4. n \in 0..Len(lists)
        BY <1>1
      <4> HIDE DEF IsRun, q
      <4> QED BY <4>3, <4>4
    <3> QED BY <3>1, <3>2
  <2>3. ASSUME NEW n \in 1..Len(lists), n - 1 \in U PROVE n \in U
    <3> SUFFICES ASSUME NEW r, IsRun(r, n)
                 PROVE  /\ r[n] \in Seq(C)
                        /\ ToSet(r[n]) = UNION {ToSet(lists[i]) : i \in 1..n}
      <4>1. n \in 0..Len(lists)
        BY <1>1
      <4> HIDE DEF IsRun
      <4> QED BY <4>1
    <3>1. CASE n = 1
      <4>1. r[1] = lists[1] /\ 1..1 = {1}
        BY <3>1
      <4> HIDE DEF IsRun
      <4> QED BY <1>1, <3>1, <4>1
    <3>2. CASE n # 1
      <4> DEFINE q == [k \in 1..(n - 1) |-> r[k]]
      <4>0. n \in Nat /\ n > 1
        BY <1>1, <3>2
      <4>1. IsRun(q, n - 1)
        BY <4>0
      <4>2. q[n - 1] = r[n - 1] /\ r[n] = Join(r[n - 1], lists[n])
        BY <4>0
      <4> HIDE DEF IsRun, q
      <4>3. n - 1 # 0 /\ n \in 1..Len(lists)
        BY <1>1, <3>2
      <4>4. /\ q[n - 1] \in Seq(C)
            /\ ToSet(q[n - 1]) = UNION {ToSet(lists[i]) : i \in 1..(n - 1)}
        BY <2>3, <4>1, <4>3
      <4>5. PICK g : g = r[n - 1]
        OBVIOUS
      <4>6. /\ g \o lists[n] \in Seq(C)
            /\ ToSet(g \o lists[n]) = ToSet(g) \cup ToSet(lists[n])
        BY <1>1, <4>2, <4>4, <4>5, ConcatSet
      <4>7. UNION {ToSet(lists[i]) : i \in 1..n}
              = (UNION {ToSet(lists[i]) : i \in 1..(n - 1)}) \cup ToSet(lists[n])
        <5>1. 1..n = (1..(n - 1)) \cup {n}
          BY <1>1, <4>3
        <5> QED BY <5>1
      <4> QED BY <2>0, <4>2, <4>4, <4>5, <4>6, <4>7
    <3> QED BY <3>1, <3>2
  <2> HIDE DEF IsRun
  <2>4. \A n \in 1..Len(lists) : n - 1 \in T => n \in T
    BY <2>2
  <2>5. \A n \in 1..Len(lists) : n - 1 \in U => n \in U
    BY <2>3
  <2> HIDE DEF T, U
  <2>6. Len(lists) \in T
    <3>1. \A n \in 0..Len(lists) : n \in T
      BY <1>1, <2>1, <2>4, Throughout
    <3> QED BY <1>1, <3>1
  <2>7. Len(lists) \in U
    <3>1. \A n \in 0..Len(lists) : n \in U
      BY <1>1, <2>1, <2>5, Throughout
    <3> QED BY <1>1, <3>1
  <2>8. IsRun(after, Len(lists))
    BY <1>3, <2>6 DEF T
  <2>9. Good(Len(lists))
    BY <1>3, <2>7 DEF U
  <2> HIDE DEF after
  <2> QED BY <1>1, <2>8, <2>9, <2>10
<1> QED BY <1>2, <1>3

-----------------------------------------------------------------------------
(* Lists, whatever they hold.                                              *)

LEMMA ListOf == ASSUME NEW C, NEW s \in Seq(C) PROVE IsList(s)
<1>1. Len(s) \in Nat /\ DOMAIN s = 1..Len(s) /\ s = [i \in 1..Len(s) |-> s[i]]
  BY LenProperties, SeqDef
<1>2. \A i \in 1..Len(s) : s[i] \in ToSet(s)
  BY <1>1 DEF ToSet
<1> QED BY <1>1, <1>2, SeqDef DEF IsList

LEMMA WiderList ==
  ASSUME NEW s, IsList(s), NEW C, ToSet(s) \subseteq C
  PROVE  s \in Seq(C)
<1>1. Len(s) \in Nat /\ DOMAIN s = 1..Len(s) /\ s = [i \in 1..Len(s) |-> s[i]]
  BY LenProperties, SeqDef DEF IsList
<1>2. \A i \in 1..Len(s) : s[i] \in C
  BY <1>1 DEF ToSet
<1> QED BY <1>1, <1>2, SeqDef

LEMMA AppendList ==
  ASSUME NEW s, IsList(s), NEW x
  PROVE  IsList(Append(s, x)) /\ ToSet(Append(s, x)) = ToSet(s) \cup {x}
<1>1. PICK C : C = ToSet(s) \cup {x}
  OBVIOUS
<1>2. s \in Seq(C) /\ x \in C
  BY <1>1, WiderList
<1>3. Append(s, x) \in Seq(C) /\ ToSet(Append(s, x)) = ToSet(s) \cup {x}
  BY <1>2, AppendSet
<1> QED BY <1>3, ListOf

LEMMA ConcatList ==
  ASSUME NEW s, IsList(s), NEW t, IsList(t)
  PROVE  IsList(s \o t) /\ ToSet(s \o t) = ToSet(s) \cup ToSet(t)
<1>1. PICK C : C = ToSet(s) \cup ToSet(t)
  OBVIOUS
<1>2. s \in Seq(C) /\ t \in Seq(C)
  BY <1>1, WiderList
<1>3. s \o t \in Seq(C) /\ ToSet(s \o t) = ToSet(s) \cup ToSet(t)
  BY <1>2, ConcatSet
<1>4. IsList(s \o t)
  BY <1>3, ListOf
<1> QED BY <1>3, <1>4

LEMMA KeptOf ==
  ASSUME NEW s, IsList(s), NEW S
  PROVE  IsList(Kept(s, S)) /\ ToSet(Kept(s, S)) = ToSet(s) \cap S
BY KeptList, ListOf DEF IsList

\* A list has finitely many members.
LEMMA ListIsFinite == ASSUME NEW s, IsList(s) PROVE IsFiniteSet(ToSet(s))
<1>1. Len(s) \in Nat /\ DOMAIN s = 1..Len(s) /\ s = [i \in 1..Len(s) |-> s[i]]
  BY LenProperties, SeqDef DEF IsList
<1>2. s \in Surjection(1..Len(s), ToSet(s))
  BY <1>1 DEF Surjection, ToSet
<1>3. ExistsSurjection(1..Len(s), ToSet(s))
  BY <1>2 DEF ExistsSurjection
<1> QED BY <1>1, <1>3, FS_NatSurjection

\* Of finitely many things that are numbered, one has the greatest number and
\* one the least.
LEMMA Extremes ==
  ASSUME NEW S, IsFiniteSet(S), S # {}, NEW v, \A x \in S : v[x] \in Int
  PROVE  /\ \E x \in S : \A y \in S : v[y] <= v[x]
         /\ \E x \in S : \A y \in S : v[x] <= v[y]
<1>1. PICK b : Cardinality(S) \in Nat /\ b \in Bijection(1..Cardinality(S), S)
  BY FS_CardinalityType DEF ExistsBijection
<1> DEFINE N == Cardinality(S)
           Good(n) == n = 0 \/
             /\ \E x \in S : \A i \in 1..n : v[b[i]] <= v[x]
             /\ \E x \in S : \A i \in 1..n : v[x] <= v[b[i]]
           T == {n \in 0..N : Good(n)}
<1>2. /\ \A i \in 1..N : b[i] \in S
      /\ \A x \in S : \E i \in 1..N : b[i] = x
  BY <1>1 DEF Bijection, Injection, Surjection
<1>3. 0 \in T
  BY <1>1
<1>4. ASSUME NEW n \in 1..N, n - 1 \in T PROVE n \in T
  <2>1. n \in Nat /\ n \in 0..N /\ b[n] \in S /\ v[b[n]] \in Int
    BY <1>1, <1>2
  <2>2. CASE n = 1
    <3>1. \A i \in 1..1 : v[b[i]] = v[b[n]]
      BY <2>2
    <3>2. Good(n)
      BY <2>1, <2>2, <3>1
    <3> QED BY <2>1, <3>2
  <2>3. CASE n # 1
    <3>1. Good(n - 1) /\ n - 1 # 0
      BY <1>4, <2>1, <2>3
    <3>2. PICK x \in S : \A i \in 1..(n - 1) : v[b[i]] <= v[x]
      BY <3>1
    <3>3. PICK y \in S : \A i \in 1..(n - 1) : v[y] <= v[b[i]]
      BY <3>1
    <3>4. \A i \in 1..n : i \in 1..(n - 1) \/ i = n
      BY <2>1
    <3>5. \A i \in 1..n : b[i] \in S /\ v[b[i]] \in Int
      BY <1>1, <1>2, <2>1
    <3>6. v[x] \in Int /\ v[y] \in Int
      OBVIOUS
    <3>7. \E z \in S : \A i \in 1..n : v[b[i]] <= v[z]
      <4>1. CASE v[x] <= v[b[n]]
        <5>1. \A i \in 1..n : v[b[i]] <= v[b[n]]
          BY <2>1, <3>2, <3>4, <3>5, <3>6, <4>1
        <5> QED BY <2>1, <5>1
      <4>2. CASE v[b[n]] <= v[x]
        <5>1. \A i \in 1..n : v[b[i]] <= v[x]
          BY <2>1, <3>2, <3>4, <3>5, <3>6, <4>2
        <5> QED BY <5>1
      <4> QED BY <2>1, <3>6, <4>1, <4>2
    <3>8. \E z \in S : \A i \in 1..n : v[z] <= v[b[i]]
      <4>1. CASE v[b[n]] <= v[y]
        <5>1. \A i \in 1..n : v[b[n]] <= v[b[i]]
          BY <2>1, <3>3, <3>4, <3>5, <3>6, <4>1
        <5> QED BY <2>1, <5>1
      <4>2. CASE v[y] <= v[b[n]]
        <5>1. \A i \in 1..n : v[y] <= v[b[i]]
          BY <2>1, <3>3, <3>4, <3>5, <3>6, <4>2
        <5> QED BY <5>1
      <4> QED BY <2>1, <3>6, <4>1, <4>2
    <3> QED BY <2>1, <3>7, <3>8
  <2> QED BY <2>2, <2>3
<1>5. Good(N)
  <2> HIDE DEF Good
  <2>1. \A n \in 1..N : n - 1 \in T => n \in T
    BY <1>4
  <2> HIDE DEF T
  <2>2. \A n \in 0..N : n \in T
    BY <1>1, <1>3, <2>1, Throughout
  <2> QED BY <1>1, <2>2 DEF T
<1>6. N # 0
  BY <1>1, <1>2
<1> QED BY <1>2, <1>5, <1>6

-----------------------------------------------------------------------------
(* Sets of pairs.                                                          *)

LEMMA PairsAreFinite ==
  ASSUME NEW a, NEW D, IsFiniteSet(D) PROVE IsFiniteSet({<<a, d>> : d \in D})
<1> DEFINE f == [d \in D |-> <<a, d>>]
           T == {<<a, d>> : d \in D}
<1>1. f \in Surjection(D, T)
  BY DEF Surjection
<1> HIDE DEF f, T
<1>2. IsFiniteSet(T)
  BY <1>1, FS_Surjection
<1> QED BY <1>2 DEF T

LEMMA UnionIsFinite ==
  ASSUME NEW S, IsFiniteSet(S), NEW f, DOMAIN f = S,
         \A x \in S : IsFiniteSet(f[x])
  PROVE  IsFiniteSet(UNION {f[x] : x \in S})
<1> DEFINE T == {f[x] : x \in S}
           g == [x \in S |-> f[x]]
<1>1. g \in Surjection(S, T)
  BY DEF Surjection
<1>2. \A t \in T : IsFiniteSet(t)
  OBVIOUS
<1> HIDE DEF T, g
<1>3. IsFiniteSet(T)
  BY <1>1, FS_Surjection
<1> QED BY <1>2, <1>3, FS_UNION DEF T

LEMMA PositionsAreFinite ==
  ASSUME NEW s, IsList(s) PROVE IsFiniteSet(DOMAIN s) /\ DOMAIN s \subseteq Nat
<1>1. Len(s) \in Nat /\ DOMAIN s = 1..Len(s)
  BY LenProperties DEF IsList
<1> QED BY <1>1, FS_Interval

\* An answer, in sections that are lists.
IsAnswer(answer) ==
  /\ IsList(answer.sections)
  /\ \A section \in ToSet(answer.sections) :
       /\ IsList(section.refs) /\ IsList(section.assertions)
       /\ \A a \in ToSet(section.assertions) : IsList(a.refs)

LEMMA CountsAreNumbers ==
  ASSUME NEW answer, IsAnswer(answer)
  PROVE  /\ IsFiniteSet(AssertionsOf(answer))
         /\ Cardinality(MarkersOf(answer)) \in Nat
         /\ Cardinality(UnusedOf(answer)) \in Nat
<1> DEFINE sections == answer.sections
           Of(i) == {<<i, j>> : j \in DOMAIN sections[i].assertions}
           f == [i \in DOMAIN sections |-> Of(i)]
           Marks(x) == {<<x, k>> : k \in DOMAIN AssertionAt(answer, x).refs}
           g == [x \in AssertionsOf(answer) |-> Marks(x)]
           Rest(i) == {<<i, n>> : n \in Unused(sections[i])}
           h == [i \in DOMAIN sections |-> Rest(i)]
<1>1. IsFiniteSet(DOMAIN sections)
  BY PositionsAreFinite DEF IsAnswer
<1>2. \A i \in DOMAIN sections :
        /\ IsList(sections[i].refs) /\ IsList(sections[i].assertions)
        /\ \A j \in DOMAIN sections[i].assertions :
             IsList(sections[i].assertions[j].refs)
  BY DEF IsAnswer, ToSet
<1>3. IsFiniteSet(AssertionsOf(answer))
  <2>1. \A i \in DOMAIN sections : IsFiniteSet(Of(i))
    BY <1>2, PositionsAreFinite, PairsAreFinite
  <2>2. AssertionsOf(answer) = UNION {f[i] : i \in DOMAIN sections}
    BY DEF AssertionsOf
  <2> HIDE DEF Of
  <2>3. DOMAIN f = DOMAIN sections
        /\ \A i \in DOMAIN sections : IsFiniteSet(f[i])
    BY <2>1
  <2> HIDE DEF f
  <2> QED BY <1>1, <2>2, <2>3, UnionIsFinite
<1>4. IsFiniteSet(MarkersOf(answer))
  <2>1. \A x \in AssertionsOf(answer) : IsList(AssertionAt(answer, x).refs)
    BY <1>2 DEF AssertionsOf, AssertionAt
  <2>2. \A x \in AssertionsOf(answer) : IsFiniteSet(Marks(x))
    BY <2>1, PositionsAreFinite, PairsAreFinite
  <2>3. MarkersOf(answer) = UNION {g[x] : x \in AssertionsOf(answer)}
    BY DEF MarkersOf
  <2> HIDE DEF Marks
  <2>4. DOMAIN g = AssertionsOf(answer)
        /\ \A x \in AssertionsOf(answer) : IsFiniteSet(g[x])
    BY <2>2
  <2> HIDE DEF g
  <2> QED BY <1>3, <2>3, <2>4, UnionIsFinite
<1>5. IsFiniteSet(UnusedOf(answer))
  <2>1. \A i \in DOMAIN sections : IsFiniteSet(Unused(sections[i]))
    <3> SUFFICES ASSUME NEW i \in DOMAIN sections
                 PROVE  IsFiniteSet(Unused(sections[i]))
      OBVIOUS
    <3>1. Unused(sections[i]) \subseteq DOMAIN sections[i].refs
      BY DEF Unused
    <3> QED BY <1>2, <3>1, PositionsAreFinite, FS_Subset
  <2>2. \A i \in DOMAIN sections : IsFiniteSet(Rest(i))
    BY <2>1, PairsAreFinite
  <2>3. UnusedOf(answer) = UNION {h[i] : i \in DOMAIN sections}
    BY DEF UnusedOf
  <2> HIDE DEF Rest
  <2>4. DOMAIN h = DOMAIN sections
        /\ \A i \in DOMAIN sections : IsFiniteSet(h[i])
    BY <2>2
  <2> HIDE DEF h
  <2> QED BY <1>1, <2>3, <2>4, UnionIsFinite
<1> QED BY <1>3, <1>4, <1>5, FS_CardinalityType

\* Where citation is whole, every assertion is supported.
LEMMA CitationIsWhole ==
  ASSUME NEW source, NEW answer, IsAnswer(answer),
         AtLeast(Citation(source, answer), 100)
  PROVE  SupportedOf(source, answer) = AssertionsOf(answer)
<1> DEFINE all == AssertionsOf(answer)
           supported == SupportedOf(source, answer)
<1>1. PICK m, u : /\ m = Cardinality(MarkersOf(answer)) /\ m \in Nat
                  /\ u = Cardinality(UnusedOf(answer)) /\ u \in Nat
  BY CountsAreNumbers
<1>2. IsFiniteSet(all) /\ supported \subseteq all
  BY CountsAreNumbers DEF SupportedOf
<1>3. PICK s, n : /\ s = Cardinality(supported) /\ s \in Nat
                  /\ n = Cardinality(all) /\ n \in Nat /\ s <= n
  <2> HIDE DEF all, supported
  <2> QED BY <1>2, FS_Subset, FS_CardinalityType
<1>4. ~AtLeast(<<0, 1>>, 100)
  BY DEF AtLeast
<1>5. /\ all # {} /\ m + u # 0
      /\ AtLeast(Lower(Share(s, n), Share(m, m + u)), 100)
  BY <1>1, <1>3, <1>4 DEF Citation
<1>6. n # 0
  <2> HIDE DEF all
  <2> QED BY <1>2, <1>3, <1>5, FS_EmptySet
<1>7. AtLeast(Lower(<<s, n>>, <<m, m + u>>), 100)
  BY <1>5, <1>6 DEF Share
<1>8. s = n
  <2>1. CASE s * (m + u) <= m * n
    <3>1. 100 * s >= 100 * n
      BY <1>7, <2>1 DEF AtLeast, Lower
    <3> QED BY <1>3, <3>1
  <2>2. CASE ~(s * (m + u) <= m * n)
    <3>1. 100 * m >= 100 * (m + u)
      BY <1>7, <2>2 DEF AtLeast, Lower
    <3>2. u = 0 /\ m + u = m
      BY <1>1, <3>1
    <3>3. PICK d : d = n - s /\ d \in Nat /\ n = s + d
      BY <1>3
    <3>4. m * n = s * m + m * d /\ m * d \in Nat /\ s * m \in Nat
      BY <1>1, <1>3, <3>3
    <3> QED BY <2>2, <3>2, <3>4
  <2> QED BY <2>1, <2>2
<1> HIDE DEF all, supported
<1> QED BY <1>2, <1>3, <1>8, FS_Subset DEF all, supported

-----------------------------------------------------------------------------
(* What is known of what is accepted.                                      *)

\* What is known of an accepted page.
SoundPage(e, p) ==
  /\ p.source.entity = e
  /\ RefsAreClean(p.source, p.answer)
  /\ AssertionsAreClean(p.answer, Policy.requireRefs)
  /\ PageIsClean(p.source, p.answer)
  /\ \E n \in 1..MaxRevision :
       p.source = Source(e, n) /\ p.answer \in Answer(Source(e, n))
  /\ IsAnswer(p.answer)
  /\ \A section \in ToSet(p.answer.sections) :
       \A a \in ToSet(section.assertions) : a.refs # <<>>

\* The inductive invariant: accepted pages are sound, and have no score.
JudgementInv ==
  /\ revision \in [Entity -> 1..MaxRevision]
  /\ DOMAIN published = Entity
  /\ DOMAIN failure = Entity
  /\ \A e \in Entity : published[e] # None => SoundPage(e, published[e])
  /\ ArbiterIsSilent

-----------------------------------------------------------------------------
(* The arbiter.                                                            *)

\* What pages of different entities say under a key is one value of one page.
LEMMA OneOccurrence ==
  ASSUME NEW answers, NEW sources, NEW key,
         \A o \in DOMAIN answers :
            /\ sources[o].entity = o
            /\ RefsAreClean(sources[o], answers[o])
  PROVE  Cardinality(Occurrences(answers, key)) \in {0, 1}
<1> DEFINE only == <<key[1], sources[key[1]].fields[key[2]]>>
<1>1. ASSUME NEW occurrence \in Occurrences(answers, key)
      PROVE  occurrence = only
  <2>1. PICK o \in DOMAIN answers : \E r \in Refs(answers[o]) :
          /\ <<r.entity, r.pointer>> = key
          /\ occurrence = <<o, r.value>>
    BY <1>1 DEF Occurrences
  <2>2. PICK r \in Refs(answers[o]) :
          /\ <<r.entity, r.pointer>> = key
          /\ occurrence = <<o, r.value>>
    BY <2>1
  <2>3. PICK x \in Places(answers[o]) : r = RefAt(answers[o], x)
    BY <2>2 DEF Refs
  <2>4. ~Foreign(sources[o], r) /\ Backed(sources[o], r)
    BY <2>3 DEF RefsAreClean
  <2>5. r.entity = o /\ r.value = sources[o].fields[r.pointer]
    BY <2>4 DEF Foreign, Backed
  <2>6. key[1] = r.entity /\ key[2] = r.pointer
    BY <2>2
  <2> QED BY <2>2, <2>5, <2>6
<1>2. Occurrences(answers, key) = {} \/ Occurrences(answers, key) = {only}
  BY <1>1
<1>3. Cardinality({only}) = 1
  BY FS_Singleton
<1>4. Cardinality({}) = 0
  BY FS_EmptySet
<1>5. CASE Occurrences(answers, key) = {}
  BY <1>4, <1>5
<1>6. CASE Occurrences(answers, key) = {only}
  BY <1>3, <1>6
<1> QED BY <1>2, <1>5, <1>6

\* So the arbiter has nothing to compare.
LEMMA NothingCompared ==
  ASSUME NEW answers, NEW sources,
         \A o \in DOMAIN answers :
            /\ sources[o].entity = o
            /\ RefsAreClean(sources[o], answers[o])
  PROVE  ConsistencyOf(answers) = None
<1>1. ASSUME NEW key PROVE ~(Cardinality(Occurrences(answers, key)) > 1)
  <2>1. Cardinality(Occurrences(answers, key)) \in {0, 1}
    BY OneOccurrence
  <2> QED BY <2>1
<1> QED BY <1>1 DEF ConsistencyOf

-----------------------------------------------------------------------------
(* The steps.                                                              *)

LEMMA InitHolds == ASSUME JudgementInit PROVE JudgementInv
<1> USE JudgementAssumption
<1>1. "CONSISTENCY_BELOW_THRESHOLD" # None
  OBVIOUS
<1> QED BY <1>1 DEF JudgementInit, JudgementInv, ArbiterIsSilent

\* What a judged answer is compared with: the candidate of e, and pages that
\* are sound.
LEMMA CleanHasNoScore ==
  ASSUME JudgementInv, NEW e \in Entity, NEW answer,
         NEW related \in SUBSET Others(e), NEW source,
         source.entity = e, Clean(source, answer)
  PROVE  ConsistencyOf([o \in related \cup {e} |->
           IF o = e THEN answer ELSE published[o].answer]) = None
<1> DEFINE answers == [o \in related \cup {e} |->
                         IF o = e THEN answer ELSE published[o].answer]
           sources == [o \in related \cup {e} |->
                         IF o = e THEN source ELSE published[o].source]
<1>1. ASSUME NEW o \in DOMAIN answers
      PROVE  sources[o].entity = o /\ RefsAreClean(sources[o], answers[o])
  <2>1. CASE o = e
    BY <2>1 DEF Clean
  <2>2. CASE o # e
    <3>1. o \in Entity /\ published[o] # None
      BY <1>1, <2>2 DEF Others
    <3>2. SoundPage(o, published[o])
      BY <3>1 DEF JudgementInv
    <3> QED BY <1>1, <2>2, <3>2 DEF SoundPage
  <2> QED BY <2>1, <2>2
<1> HIDE DEF answers, sources
<1>2. ConsistencyOf(answers) = None
  BY <1>1, NothingCompared
<1> QED BY <1>2 DEF answers

LEMMA JudgeKeepsInv ==
  ASSUME JudgementInv, NEW e \in Entity,
         NEW answer \in Answer(Source(e, revision[e])),
         NEW related \in SUBSET Others(e),
         revision[e] \in 1..MaxRevision,
         Judge(e, answer, related)
  PROVE  JudgementInv'
<1> USE JudgementAssumption
<1> DEFINE source == Source(e, revision[e])
           answers == [o \in related \cup {e} |->
                         IF o = e THEN answer ELSE published[o].answer]
           score == ConsistencyOf(answers)
<1>1. source.entity = e
  OBVIOUS
<1>2. Clean(source, answer) => score = None
  BY <1>1, CleanHasNoScore
<1>3. IsAnswer(answer)
  BY DEF IsAnswer
<1> HIDE DEF source, score
<1>4. CASE Decoded(answer) /\ Accepts(source, answer, score)
  <2>1. /\ published' = [published EXCEPT ![e] =
             [source |-> source, answer |-> answer, consistency |-> score]]
        /\ failure' = [failure EXCEPT ![e] = None]
        /\ UNCHANGED revision
    BY <1>4 DEF Judge, source, score
  <2>2. Clean(source, answer)
    BY <1>4 DEF Accepts
  <2>3. SoundPage(e, published'[e]) /\ published'[e].consistency = None
    <3>1. published'[e] = [source |-> source, answer |-> answer, consistency |-> score]
      BY <2>1 DEF JudgementInv
    <3>2. source = Source(e, revision[e])
      BY DEF source
    <3>3. \A section \in ToSet(answer.sections) :
            \A a \in ToSet(section.assertions) : a.refs # <<>>
      <4>1. SupportedOf(source, answer) = AssertionsOf(answer)
        BY <1>3, <1>4, CitationIsWhole DEF Accepts
      <4>2. \A i \in DOMAIN answer.sections :
              \A j \in DOMAIN answer.sections[i].assertions :
                 answer.sections[i].assertions[j].refs # <<>>
        <5> SUFFICES ASSUME NEW i \in DOMAIN answer.sections,
                            NEW j \in DOMAIN answer.sections[i].assertions
                     PROVE  answer.sections[i].assertions[j].refs # <<>>
          OBVIOUS
        <5>1. <<i, j>> \in AssertionsOf(answer)
          BY DEF AssertionsOf
        <5>2. Supported(ValidRefs(source, answer), answer.sections[i],
                        AssertionAt(answer, <<i, j>>))
          BY <4>1, <5>1 DEF SupportedOf
        <5> QED BY <5>2 DEF Supported, AssertionAt
      <4> QED BY <4>2 DEF ToSet
    <3> QED BY <1>1, <1>2, <1>3, <2>2, <3>1, <3>2, <3>3 DEF SoundPage, Clean
  <2>4. \A o \in Entity \ {e} : published'[o] = published[o] /\ failure'[o] = failure[o]
    BY <2>1 DEF JudgementInv
  <2>5. failure'[e] = None
    BY <2>1 DEF JudgementInv
  <2>6. DOMAIN published' = Entity /\ DOMAIN failure' = Entity
    BY <2>1 DEF JudgementInv
  <2>7. \A o \in Entity : published'[o] # None => SoundPage(o, published'[o])
    BY <2>3, <2>4 DEF JudgementInv
  <2>8. ArbiterIsSilent'
    BY <2>3, <2>4, <2>5 DEF JudgementInv, ArbiterIsSilent
  <2> QED BY <2>1, <2>6, <2>7, <2>8 DEF JudgementInv, SoundPage
<1>5. CASE ~(Decoded(answer) /\ Accepts(source, answer, score))
  <2>1. /\ failure' = [failure EXCEPT ![e] = FailureOf(source, answer, score)]
        /\ UNCHANGED <<revision, published>>
    BY <1>5 DEF Judge, source, score
  <2>2. FailureOf(source, answer, score) # "CONSISTENCY_BELOW_THRESHOLD"
    BY <1>2 DEF FailureOf, Disagrees
  <2>3. \A o \in Entity : failure'[o] # "CONSISTENCY_BELOW_THRESHOLD"
    BY <2>1, <2>2 DEF JudgementInv, ArbiterIsSilent
  <2>4. DOMAIN failure' = Entity
    BY <2>1 DEF JudgementInv
  <2> QED BY <2>1, <2>3, <2>4 DEF JudgementInv, ArbiterIsSilent, SoundPage
<1> QED BY <1>4, <1>5

LEMMA ReviseKeepsInv ==
  ASSUME JudgementInv, NEW e \in Entity, Revise(e)
  PROVE  JudgementInv'
<1> USE JudgementAssumption
<1>1. revision' \in [Entity -> 1..MaxRevision]
  BY DEF Revise, JudgementInv
<1>3. ArbiterIsSilent'
  BY DEF Revise, JudgementInv, ArbiterIsSilent
<1> QED BY <1>1, <1>3 DEF Revise, JudgementInv, SoundPage

LEMMA StepKeepsInv ==
  ASSUME JudgementInv, [JudgementNext]_jvars
  PROVE  JudgementInv'
<1>1. CASE UNCHANGED jvars
  BY <1>1 DEF jvars, JudgementInv, SoundPage, ArbiterIsSilent
<1>2. ASSUME NEW e \in Entity, Revise(e) PROVE JudgementInv'
  BY <1>2, ReviseKeepsInv
<1>3. ASSUME NEW e \in Entity, NEW answer \in Answer(Source(e, revision[e])),
             NEW related \in SUBSET Others(e), Judge(e, answer, related)
      PROVE  JudgementInv'
  <2>1. revision[e] \in 1..MaxRevision
    BY DEF JudgementInv
  <2> QED BY <1>3, <2>1, JudgeKeepsInv
<1> QED BY <1>1, <1>2, <1>3 DEF JudgementNext

-----------------------------------------------------------------------------
(* Grounding.                                                              *)

\* In a clean answer a section's ids are unique, so that ref_index finds the
\* one ref with the id.
LEMMA RefOfIsCited ==
  ASSUME NEW e, NEW p, SoundPage(e, p),
         NEW i \in DOMAIN p.answer.sections,
         NEW id \in Ids(ToSet(p.answer.sections[i].refs))
  PROVE  LET r == RefOf(p.answer.sections[i], id)
         IN  /\ r \in ToSet(p.answer.sections[i].refs)
             /\ r.id = id
             /\ ~Foreign(p.source, r)
             /\ Backed(p.source, r)
<1> DEFINE section == p.answer.sections[i]
           at == {n \in DOMAIN section.refs : section.refs[n].id = id}
<1>1. PICK n \in DOMAIN section.refs : section.refs[n].id = id
  BY DEF Ids, ToSet
<1>2. DOMAIN section.refs \subseteq Nat
  BY PositionsAreFinite DEF SoundPage, IsAnswer, ToSet
<1>3. \A m \in DOMAIN section.refs :
        <<i, m>> \in Places(p.answer) /\ RefAt(p.answer, <<i, m>>) = section.refs[m]
  BY DEF Places, RefAt
<1>4. ASSUME NEW m \in DOMAIN section.refs, section.refs[m].id = id
      PROVE  m = n
  <2>1. Numbered(p.answer, <<i, m>>) /\ Numbered(p.answer, <<i, n>>)
    BY <1>3 DEF SoundPage, RefsAreClean
  <2>2. ~Earlier(<<i, m>>, <<i, n>>) /\ ~Earlier(<<i, n>>, <<i, m>>)
    BY <1>1, <1>3, <1>4, <2>1 DEF Numbered
  <2>3. ~(m < n) /\ ~(n < m)
    BY <2>2 DEF Earlier
  <2> QED BY <1>2, <2>3
<1>5. at = {n}
  BY <1>1, <1>4
<1>6. Max(at) = n
  <2>1. n \in Nat
    BY <1>2
  <2>2. \A x \in {n} : x = n
    OBVIOUS
  <2> QED BY <1>5, <2>1, <2>2 DEF Max
<1>7. RefOf(section, id) = section.refs[n]
  BY <1>6 DEF RefOf
<1>8. ~Foreign(p.source, section.refs[n]) /\ Backed(p.source, section.refs[n])
  BY <1>3 DEF SoundPage, RefsAreClean
<1> QED BY <1>1, <1>7, <1>8 DEF ToSet

LEMMA SoundPagesAreGrounded ==
  ASSUME JudgementInv
  PROVE  AcceptedPagesAreGrounded
<1> SUFFICES ASSUME NEW e \in Entity, published[e] # None,
                    NEW section \in ToSet(published[e].answer.sections),
                    NEW a \in ToSet(section.assertions)
             PROVE  /\ a.refs # <<>>
                    /\ \E cited \in [DOMAIN a.refs -> ToSet(section.refs)] :
                         /\ \A k \in DOMAIN a.refs :
                              /\ cited[k].id = a.refs[k]
                              /\ cited[k].entity = e
                              /\ cited[k].revision = published[e].source.revision
                              /\ cited[k].quote \in
                                   {text \in SubSeqs(published[e].source.fields[cited[k].pointer]) :
                                      text # <<>>}
                         /\ a.text = FlattenSeq([k \in DOMAIN a.refs |-> cited[k].quote])
  BY DEF AcceptedPagesAreGrounded
<1> DEFINE page == published[e]
           cited == [k \in DOMAIN a.refs |-> RefOf(section, a.refs[k])]
<1>1. SoundPage(e, page)
  BY DEF JudgementInv
<1>2. PICK i \in DOMAIN page.answer.sections : section = page.answer.sections[i]
  BY DEF ToSet
<1>3. a.refs # <<>> /\ Known(section, a) /\ a.text = Joined(section, a)
  BY <1>1 DEF SoundPage, AssertionsAreClean
<1>4. ASSUME NEW k \in DOMAIN a.refs
      PROVE  /\ cited[k] \in ToSet(section.refs)
             /\ cited[k].id = a.refs[k]
             /\ ~Foreign(page.source, cited[k])
             /\ Backed(page.source, cited[k])
  <2>1. a.refs[k] \in Ids(ToSet(section.refs))
    BY <1>3 DEF Known, ToSet
  <2> QED BY <1>1, <1>2, <2>1, RefOfIsCited
<1>5. cited \in [DOMAIN a.refs -> ToSet(section.refs)]
  BY <1>4
<1>6. a.text = FlattenSeq([k \in DOMAIN a.refs |-> cited[k].quote])
  <2>1. [k \in DOMAIN a.refs |-> cited[k].quote]
          = [k \in DOMAIN a.refs |-> RefOf(section, a.refs[k]).quote]
    OBVIOUS
  <2> QED BY <1>3, <2>1 DEF Joined
<1>7. \A k \in DOMAIN a.refs :
        /\ cited[k].entity = e
        /\ cited[k].revision = page.source.revision
        /\ cited[k].quote \in {text \in SubSeqs(page.source.fields[cited[k].pointer]) :
                                 text # <<>>}
  BY <1>1, <1>4 DEF SoundPage, Foreign, Backed, Within
<1> HIDE DEF cited
<1> QED BY <1>3, <1>4, <1>5, <1>6, <1>7

-----------------------------------------------------------------------------
(* The merge.                                                              *)

Passes(row, c) == Binds(c) => Holds(row, c)

LEMMA SatisfiesAll ==
  ASSUME NEW row, NEW list
  PROVE  Satisfies(row, list) <=> \A c \in ToSet(list) : Passes(row, c)
BY DEF Satisfies, Clauses, Passes, ToSet

\* The tightest bounds are bounds of ranges, if one has any.
LEMMA TightestBounds ==
  ASSUME NEW R, IsFiniteSet(R),
         \A c \in R : c.min \in Int \cup {Nil} /\ c.max \in Int \cup {Nil}
  PROVE  LET t == Tightest(R)
         IN  /\ \/ t.min = Nil /\ \A c \in R : c.min = Nil
                \/ /\ t.min \in Int /\ \E c \in R : c.min = t.min
                   /\ \A c \in R : c.min # Nil => c.min <= t.min
             /\ \/ t.max = Nil /\ \A c \in R : c.max = Nil
                \/ /\ t.max \in Int /\ \E c \in R : c.max = t.max
                   /\ \A c \in R : c.max # Nil => t.max <= c.max
<1> USE NilAssumption
<1> DEFINE mins == {c.min : c \in R} \ {Nil}
           maxs == {c.max : c \in R} \ {Nil}
           t == Tightest(R)
           Highest(m) == \/ m = Nil /\ \A c \in R : c.min = Nil
                         \/ /\ m \in Int /\ \E c \in R : c.min = m
                            /\ \A c \in R : c.min # Nil => c.min <= m
           Lowest(m) == \/ m = Nil /\ \A c \in R : c.max = Nil
                        \/ /\ m \in Int /\ \E c \in R : c.max = m
                           /\ \A c \in R : c.max # Nil => m <= c.max
<1>1. /\ t.min = IF mins = {} THEN Nil ELSE Max(mins)
      /\ t.max = IF maxs = {} THEN Nil ELSE Min(maxs)
  BY DEF Tightest
<1>2. ASSUME mins # {} PROVE Highest(t.min)
  <2> DEFINE L == {c \in R : c.min # Nil}
             v == [c \in R |-> c.min]
  <2>1. IsFiniteSet(L)
    BY FS_Subset
  <2>2. L # {} /\ \A c \in L : v[c] \in Int
    BY <1>2
  <2>3. PICK x \in L : \A y \in L : v[y] <= v[x]
    <3> HIDE DEF L, v
    <3> QED BY <2>1, <2>2, Extremes
  <2>4. x.min \in mins /\ \A m \in mins : x.min >= m /\ m \in Int
    BY <2>2, <2>3
  <2>5. Max(mins) \in mins /\ \A m \in mins : Max(mins) >= m
    <3> HIDE DEF mins
    <3> QED BY <2>4 DEF Max
  <2>6. \A c \in R : c.min # Nil => c.min <= Max(mins)
    <3>1. \A c \in R : c.min # Nil => c.min \in mins
      OBVIOUS
    <3> HIDE DEF mins
    <3> QED BY <2>4, <2>5, <3>1
  <2>7. Max(mins) \in Int /\ \E c \in R : c.min = Max(mins)
    BY <2>4, <2>5
  <2> QED BY <1>1, <1>2, <2>6, <2>7
<1>3. ASSUME maxs # {} PROVE Lowest(t.max)
  <2> DEFINE L == {c \in R : c.max # Nil}
             v == [c \in R |-> c.max]
  <2>1. IsFiniteSet(L)
    BY FS_Subset
  <2>2. L # {} /\ \A c \in L : v[c] \in Int
    BY <1>3
  <2>3. PICK x \in L : \A y \in L : v[x] <= v[y]
    <3> HIDE DEF L, v
    <3> QED BY <2>1, <2>2, Extremes
  <2>4. x.max \in maxs /\ \A m \in maxs : x.max <= m /\ m \in Int
    BY <2>2, <2>3
  <2>5. Min(maxs) \in maxs /\ \A m \in maxs : Min(maxs) <= m
    <3> HIDE DEF maxs
    <3> QED BY <2>4 DEF Min
  <2>6. \A c \in R : c.max # Nil => Min(maxs) <= c.max
    <3>1. \A c \in R : c.max # Nil => c.max \in maxs
      OBVIOUS
    <3> HIDE DEF maxs
    <3> QED BY <2>4, <2>5, <3>1
  <2>7. Min(maxs) \in Int /\ \E c \in R : c.max = Min(maxs)
    BY <2>4, <2>5
  <2> QED BY <1>1, <1>3, <2>6, <2>7
<1>4. ASSUME mins = {} PROVE Highest(t.min)
  BY <1>1, <1>4
<1>5. ASSUME maxs = {} PROVE Lowest(t.max)
  BY <1>1, <1>5
<1>6. Highest(t.min) /\ Lowest(t.max)
  <2> HIDE DEF Highest, Lowest
  <2> QED BY <1>2, <1>3, <1>4, <1>5
<1> QED BY <1>6

\* One range with the tightest bounds is the conjunction of the ranges.
LEMMA RangeMeaning ==
  ASSUME NEW R, IsFiniteSet(R), R # {}, NEW f,
         \A c \in R : IsCondition(c) /\ c.kind = "range" /\ c.field = f
  PROVE  LET t == Tightest(R)
             one == Between(f, t.min, t.max)
         IN  /\ IsCondition(one)
             /\ \A row \in Row : Passes(row, one) <=> \A c \in R : Passes(row, c)
<1> USE NilAssumption
<1> DEFINE t == Tightest(R)
           one == Between(f, t.min, t.max)
<1>1. \A c \in R : c.min \in Int \cup {Nil} /\ c.max \in Int \cup {Nil}
  BY DEF IsCondition, WellFormed, TextIs, AnyOf, NoneOf, Between
<1>2. /\ \/ t.min = Nil /\ \A c \in R : c.min = Nil
         \/ /\ t.min \in Int /\ \E c \in R : c.min = t.min
            /\ \A c \in R : c.min # Nil => c.min <= t.min
      /\ \/ t.max = Nil /\ \A c \in R : c.max = Nil
         \/ /\ t.max \in Int /\ \E c \in R : c.max = t.max
            /\ \A c \in R : c.max # Nil => t.max <= c.max
  BY <1>1, TightestBounds
<1>3. PICK lo, hi : lo = t.min /\ hi = t.max
  OBVIOUS
<1> HIDE DEF t
<1>4. /\ one.kind = "range" /\ one.field = f /\ one.min = lo /\ one.max = hi
      /\ one = Between(one.field, one.min, one.max)
  BY <1>3 DEF Between
<1> HIDE DEF one
<1>5. \A row \in Row : row.num[f] \in Int \cup {Nil}
  BY DEF IsCondition
<1>6. IsCondition(one)
  BY <1>2, <1>3, <1>4, <1>5 DEF IsCondition, WellFormed
<1>7. ASSUME NEW row \in Row
      PROVE  Passes(row, one) <=> \A c \in R : Passes(row, c)
  <2>1. PICK x : x = row.num[f] /\ x \in Int \cup {Nil}
    BY <1>5
  <2>2. Passes(row, one) <=>
          (lo # Nil \/ hi # Nil =>
             x # Nil /\ (lo # Nil => x >= lo) /\ (hi # Nil => x <= hi))
    BY <1>4, <2>1 DEF Passes, Binds, Holds
  <2>3. ASSUME NEW c \in R
        PROVE  Passes(row, c) <=>
          (c.min # Nil \/ c.max # Nil =>
             /\ x # Nil /\ (c.min # Nil => x >= c.min)
             /\ (c.max # Nil => x <= c.max))
    BY <2>1 DEF Passes, Binds, Holds
  <2> QED BY <1>1, <1>2, <1>3, <2>1, <2>2, <2>3
<1> QED BY <1>3, <1>6, <1>7 DEF one, t

\* Being like a condition of the same kind, by kind.
LEMMA Shapes ==
  /\ \A f, v : /\ TextIs(f, v).kind = "text" /\ TextIs(f, v).field = f
               /\ TextIs(f, v).value = v
  /\ \A f, r : /\ AnyOf(f, r).kind = "contains" /\ AnyOf(f, r).field = f
               /\ AnyOf(f, r).refs = r /\ IsCondition(AnyOf(f, r))
  /\ \A f, r : /\ NoneOf(f, r).kind = "excludes" /\ NoneOf(f, r).field = f
               /\ NoneOf(f, r).refs = r /\ IsCondition(NoneOf(f, r))
BY DEF TextIs, AnyOf, NoneOf, IsCondition, WellFormed

LEMMA PassesRefs ==
  ASSUME NEW row, NEW c
  PROVE  /\ c.kind = "contains" =>
              (Passes(row, c) <=> row.refs[c.field] \cap c.refs # {})
         /\ c.kind = "excludes" =>
              (Passes(row, c) <=> row.refs[c.field] \cap c.refs = {})
BY DEF Passes, Binds, Holds

LEMMA SameFieldIs ==
  ASSUME NEW filters, NEW kind, NEW f
  PROVE  /\ SameField(filters, kind, f) \subseteq ToSet(filters)
         /\ \A c \in SameField(filters, kind, f) : c.kind = kind /\ c.field = f
         /\ \A c \in ToSet(filters) :
              c.kind = kind /\ c.field = f => c \in SameField(filters, kind, f)
BY DEF SameField

\* What a row with the references common(f) keeps through the merge.
Keeps(row, common, c) ==
  /\ Passes(row, c)
  /\ c.kind = "contains" => common[c.field] \in row.refs[c.field] \cap c.refs

\* What a push leaves: conditions, that mean no less, and that keep the rows
\* kept so far.
PushIsSound(filters, c, pushed) ==
  /\ AreConditions(pushed)
  /\ \A row \in Row :
       (\A d \in ToSet(pushed) : Passes(row, d)) =>
          Passes(row, c) /\ \A d \in ToSet(filters) : Passes(row, d)
  /\ \A row \in Row : \A common :
       Keeps(row, common, c) /\ (\A d \in ToSet(filters) : Keeps(row, common, d))
         => \A d \in ToSet(pushed) : Keeps(row, common, d)

LEMMA AppendIsSound ==
  ASSUME NEW filters, AreConditions(filters), NEW c, IsCondition(c)
  PROVE  PushIsSound(filters, c, Append(filters, c))
<1>1. /\ IsList(Append(filters, c))
      /\ ToSet(Append(filters, c)) = ToSet(filters) \cup {c}
  BY AppendList DEF AreConditions
<1> QED BY <1>1 DEF AreConditions, PushIsSound

LEMMA PushRangeIsSound ==
  ASSUME NEW filters, AreConditions(filters), NEW c, IsCondition(c),
         c.kind = "range"
  PROVE  PushIsSound(filters, c, PushRange(filters, c))
<1> DEFINE same == SameField(filters, "range", c.field)
           R == same \cup {c}
           t == Tightest(R)
           one == Between(c.field, t.min, t.max)
           kept == Kept(filters, ToSet(filters) \ same)
<1>1. CASE PushRange(filters, c) = Append(filters, c)
  BY <1>1, AppendIsSound
<1>2. CASE PushRange(filters, c) = Append(kept, one)
  <2>1. /\ same \subseteq ToSet(filters)
        /\ \A d \in same : d.kind = "range" /\ d.field = c.field
    BY SameFieldIs
  <2> HIDE DEF same
  <2>2. IsFiniteSet(R)
    <3>1. IsFiniteSet(same)
      BY <2>1, ListIsFinite, FS_Subset DEF AreConditions
    <3> QED BY <3>1, FS_AddElement
  <2>3. \A d \in R : IsCondition(d) /\ d.kind = "range" /\ d.field = c.field
    BY <2>1 DEF AreConditions
  <2>4. R # {}
    OBVIOUS
  <2> HIDE DEF R
  <2>5. /\ IsCondition(one)
        /\ \A row \in Row : Passes(row, one) <=> \A d \in R : Passes(row, d)
    BY <2>2, <2>3, <2>4, RangeMeaning
  <2>6. one.kind = "range"
    BY DEF Between
  <2> HIDE DEF one
  <2>7. IsList(kept) /\ ToSet(kept) = ToSet(filters) \ same
    BY KeptOf DEF AreConditions
  <2> HIDE DEF kept
  <2>8. IsList(Append(kept, one)) /\ ToSet(Append(kept, one)) = ToSet(kept) \cup {one}
    BY <2>7, AppendList
  <2>9. c \in R /\ same \subseteq R /\ R = same \cup {c}
    BY DEF R
  <2> QED BY <1>2, <2>1, <2>5, <2>6, <2>7, <2>8, <2>9
          DEF AreConditions, PushIsSound, Keeps
<1> QED BY <1>1, <1>2 DEF PushRange

LEMMA PushContainsIsSound ==
  ASSUME NEW filters, AreConditions(filters), NEW c, IsCondition(c),
         c.kind = "contains"
  PROVE  PushIsSound(filters, c, PushContains(filters, c))
<1> DEFINE contains == SameField(filters, "contains", c.field)
           excludes == SameField(filters, "excludes", c.field)
           refs == Allowed(contains \cup {c}) \ Refused(excludes)
           one == AnyOf(c.field, refs)
<1>0. PushContains(filters, c) = Append(filters, one)
  BY DEF PushContains
<1>1. /\ IsList(Append(filters, one))
      /\ ToSet(Append(filters, one)) = ToSet(filters) \cup {one}
  BY AppendList DEF AreConditions
<1>2. /\ one.kind = "contains" /\ one.field = c.field /\ one.refs = refs
      /\ IsCondition(one)
  <2> HIDE DEF refs
  <2> QED BY Shapes
<1>3. refs \subseteq c.refs
  BY DEF Allowed
<1>4. /\ contains \subseteq ToSet(filters) /\ excludes \subseteq ToSet(filters)
      /\ \A d \in contains : d.kind = "contains" /\ d.field = c.field
      /\ \A d \in excludes : d.kind = "excludes" /\ d.field = c.field
  BY SameFieldIs
<1>5. \A r : (\A d \in contains \cup {c} : r \in d.refs)
               /\ (\A d \in excludes : r \notin d.refs) => r \in refs
  BY DEF Allowed, Refused
<1> HIDE DEF one, refs, contains, excludes
<1>6. ASSUME NEW row \in Row, NEW common, Keeps(row, common, c),
             \A d \in ToSet(filters) : Keeps(row, common, d)
      PROVE  Keeps(row, common, one)
  <2>1. common[c.field] \in row.refs[c.field] \cap c.refs
    BY <1>6 DEF Keeps
  <2>2. \A d \in contains : common[c.field] \in d.refs
    BY <1>4, <1>6 DEF Keeps
  <2>3. \A d \in excludes : common[c.field] \notin d.refs
    BY <1>4, <1>6, <2>1, PassesRefs DEF Keeps
  <2>4. common[c.field] \in refs
    BY <1>5, <2>1, <2>2, <2>3
  <2> QED BY <1>2, <2>1, <2>4, PassesRefs DEF Keeps
<1>7. \A row \in Row : Passes(row, one) => Passes(row, c)
  BY <1>2, <1>3, PassesRefs
<1> QED BY <1>0, <1>1, <1>2, <1>6, <1>7 DEF AreConditions, PushIsSound

LEMMA PushExcludesIsSound ==
  ASSUME NEW filters, AreConditions(filters), NEW c, IsCondition(c),
         c.kind = "excludes"
  PROVE  PushIsSound(filters, c, PushExcludes(filters, c))
<1> DEFINE contains == SameField(filters, "contains", c.field)
           excludes == SameField(filters, "excludes", c.field)
           kept == Kept(filters, ToSet(filters) \ (contains \cup excludes))
           refused == Refused(excludes \cup {c})
           some == AnyOf(c.field, Allowed(contains) \ refused)
           none == NoneOf(c.field, refused)
           pushed == (IF contains = {} THEN kept ELSE Append(kept, some))
                       \o <<none>>
<1>1. CASE PushExcludes(filters, c) = Append(filters, c)
  BY <1>1, AppendIsSound
<1>2. CASE PushExcludes(filters, c) = pushed
  <2>1. /\ contains \subseteq ToSet(filters) /\ excludes \subseteq ToSet(filters)
        /\ \A d \in contains : d.kind = "contains" /\ d.field = c.field
        /\ \A d \in excludes : d.kind = "excludes" /\ d.field = c.field
    BY SameFieldIs
  <2>2. IsList(kept) /\ ToSet(kept) = ToSet(filters) \ (contains \cup excludes)
    <3> HIDE DEF contains, excludes
    <3> QED BY KeptOf DEF AreConditions
  <2>3. \A r : r \in refused <=> \E d \in excludes \cup {c} : r \in d.refs
    BY DEF Refused
  <2>4. \A r \in Allowed(contains) : \A d \in contains : r \in d.refs
    BY DEF Allowed
  <2>5. \A r : contains # {} /\ (\A d \in contains : r \in d.refs)
                 => r \in Allowed(contains)
    BY DEF Allowed
  <2> HIDE DEF contains, excludes, kept, refused
  <2>6. /\ some.kind = "contains" /\ some.field = c.field
        /\ some.refs = Allowed(contains) \ refused /\ IsCondition(some)
    <3>1. PICK r : r = Allowed(contains) \ refused
      OBVIOUS
    <3> QED BY <3>1, Shapes
  <2>7. /\ none.kind = "excludes" /\ none.field = c.field
        /\ none.refs = refused /\ IsCondition(none)
    BY Shapes
  <2> HIDE DEF some, none
  <2>8. /\ IsList(pushed)
        /\ ToSet(pushed) = ToSet(kept) \cup {none}
             \cup {s \in {some} : contains # {}}
    <3>1. IsList(<<none>>) /\ ToSet(<<none>>) = {none}
      BY DEF IsList, ToSet
    <3>2. /\ IsList(Append(kept, some))
          /\ ToSet(Append(kept, some)) = ToSet(kept) \cup {some}
      BY <2>2, AppendList
    <3>3. CASE contains = {}
      <4>1. pushed = kept \o <<none>>
        BY <3>3
      <4>2. IsList(pushed) /\ ToSet(pushed) = ToSet(kept) \cup {none}
        BY <2>2, <3>1, <4>1, ConcatList
      <4> QED BY <3>3, <4>2
    <3>4. CASE contains # {}
      <4>1. pushed = Append(kept, some) \o <<none>>
        BY <3>4
      <4>2. IsList(pushed) /\ ToSet(pushed) = ToSet(kept) \cup {some} \cup {none}
        BY <3>1, <3>2, <4>1, ConcatList
      <4> QED BY <3>4, <4>2
    <3> QED BY <3>3, <3>4
  <2> HIDE DEF pushed
  <2>9. AreConditions(pushed)
    BY <2>2, <2>6, <2>7, <2>8 DEF AreConditions
  <2>10. ASSUME NEW row \in Row, \A d \in ToSet(pushed) : Passes(row, d)
         PROVE  Passes(row, c) /\ \A d \in ToSet(filters) : Passes(row, d)
    <3>1. row.refs[c.field] \cap refused = {}
      BY <2>7, <2>8, <2>10, PassesRefs
    <3>2. \A d \in excludes \cup {c} : Passes(row, d)
      BY <2>1, <2>3, <3>1, PassesRefs
    <3>3. \A d \in contains : Passes(row, d)
      <4> SUFFICES ASSUME NEW d \in contains PROVE Passes(row, d)
        OBVIOUS
      <4>1. row.refs[c.field] \cap (Allowed(contains) \ refused) # {}
        BY <2>6, <2>8, <2>10, PassesRefs
      <4> QED BY <2>1, <2>4, <4>1, PassesRefs
    <3> QED BY <2>2, <2>8, <2>10, <3>2, <3>3
  <2>11. ASSUME NEW row \in Row, NEW common, Keeps(row, common, c),
                \A d \in ToSet(filters) : Keeps(row, common, d)
         PROVE  \A d \in ToSet(pushed) : Keeps(row, common, d)
    <3>1. \A d \in excludes \cup {c} : row.refs[c.field] \cap d.refs = {}
      BY <2>1, <2>11, PassesRefs DEF Keeps
    <3>2. row.refs[c.field] \cap refused = {}
      BY <2>3, <3>1
    <3>3. Keeps(row, common, none)
      BY <2>7, <3>2, PassesRefs DEF Keeps
    <3>4. contains # {} => Keeps(row, common, some)
      <4> SUFFICES ASSUME contains # {} PROVE Keeps(row, common, some)
        OBVIOUS
      <4>1. \A d \in contains : common[c.field] \in row.refs[c.field] \cap d.refs
        BY <2>1, <2>11 DEF Keeps
      <4>2. common[c.field] \in row.refs[c.field]
        BY <4>1
      <4>3. common[c.field] \in Allowed(contains) \ refused
        BY <2>5, <3>2, <4>1, <4>2
      <4> QED BY <2>6, <4>2, <4>3, PassesRefs DEF Keeps
    <3> QED BY <2>2, <2>8, <2>11, <3>3, <3>4
  <2> QED BY <1>2, <2>9, <2>10, <2>11 DEF PushIsSound
<1> QED BY <1>1, <1>2 DEF PushExcludes

LEMMA PushMergedIsSound ==
  ASSUME NEW filters, AreConditions(filters), NEW c, IsCondition(c)
  PROVE  PushIsSound(filters, c, PushMerged(filters, c))
<1>1. CASE c \in ToSet(filters)
  BY <1>1 DEF PushMerged, PushIsSound
<1>2. CASE c \notin ToSet(filters) /\ c.kind = "range"
  BY <1>2, PushRangeIsSound DEF PushMerged
<1>3. CASE c \notin ToSet(filters) /\ c.kind = "text"
  BY <1>3, AppendIsSound DEF PushMerged
<1>4. CASE c \notin ToSet(filters) /\ c.kind = "contains"
  BY <1>4, PushContainsIsSound DEF PushMerged
<1>5. CASE c \notin ToSet(filters) /\ c.kind = "excludes"
  BY <1>5, PushExcludesIsSound DEF PushMerged
<1> QED BY <1>1, <1>2, <1>3, <1>4, <1>5 DEF IsCondition, WellFormed

\* The merge of any list of conditions (resolve_conflicts): a row that passes
\* what is left passes every one of them, and one that passes them all is
\* kept if the lists of references that it meets have one of its own in
\* common.
THEOREM MergedMeansAll ==
  ASSUME NEW list, AreConditions(list)
  PROVE  /\ AreConditions(Merged(list))
         /\ \A row \in Row :
              /\ Satisfies(row, Merged(list)) => Satisfies(row, list)
              /\ Satisfies(row, list) /\ HaveCommonRef(row, ToSet(list))
                   => Satisfies(row, Merged(list))
<1>1. Len(list) \in Nat /\ DOMAIN list = 1..Len(list)
      /\ \A n \in 1..Len(list) : list[n] \in ToSet(list) /\ IsCondition(list[n])
  <2>1. Len(list) \in Nat /\ DOMAIN list = 1..Len(list)
    BY LenProperties DEF AreConditions, IsList
  <2> QED BY <2>1 DEF AreConditions, ToSet
<1>2. PICK f : /\ f = [n \in 0..Len(list) |->
                        IF n = 0 THEN <<>> ELSE PushMerged(f[n - 1], list[n])]
               /\ Merged(list) = f[Len(list)]
  BY <1>1, MergedSteps
<1> DEFINE Good(n) ==
             /\ AreConditions(f[n])
             /\ \A row \in Row :
                  (\A d \in ToSet(f[n]) : Passes(row, d)) =>
                    \A i \in 1..n : Passes(row, list[i])
             /\ \A row \in Row : \A common :
                  (\A d \in ToSet(list) : Keeps(row, common, d)) =>
                    \A d \in ToSet(f[n]) : Keeps(row, common, d)
           T == {n \in 0..Len(list) : Good(n)}
<1>3. 0 \in T
  <2>1. f[0] = <<>>
    BY <1>1, <1>2
  <2>2. IsList(<<>>) /\ ToSet(<<>>) = {} /\ 1..0 = {}
    BY DEF IsList, ToSet
  <2>3. Good(0)
    BY <2>1, <2>2 DEF AreConditions
  <2> QED BY <1>1, <2>3
<1>4. ASSUME NEW n \in 1..Len(list), n - 1 \in T PROVE n \in T
  <2>1. n \in 0..Len(list) /\ n # 0 /\ IsCondition(list[n])
        /\ list[n] \in ToSet(list)
    BY <1>1
  <2>2. PICK g : g = f[n - 1] /\ f[n] = PushMerged(g, list[n])
    BY <1>2, <2>1
  <2>3. Good(n - 1)
    BY <1>4
  <2>4. PushIsSound(g, list[n], f[n])
    BY <2>1, <2>2, <2>3, PushMergedIsSound
  <2>5. \A i \in 1..n : i \in 1..(n - 1) \/ i = n
    BY <2>1
  <2>6. Good(n)
    BY <2>1, <2>2, <2>3, <2>4, <2>5 DEF PushIsSound
  <2> QED BY <2>1, <2>6
<1>5. Good(Len(list))
  <2> HIDE DEF Good
  <2>1. \A n \in 1..Len(list) : n - 1 \in T => n \in T
    BY <1>4
  <2> HIDE DEF T
  <2>2. \A n \in 0..Len(list) : n \in T
    BY <1>1, <1>3, <2>1, Throughout
  <2>3. Len(list) \in T
    BY <1>1, <2>2
  <2> QED BY <2>3 DEF T
<1>6. ToSet(list) = {list[i] : i \in 1..Len(list)}
  BY <1>1 DEF ToSet
<1>7. \A row \in Row : Satisfies(row, Merged(list)) => Satisfies(row, list)
  BY <1>2, <1>5, <1>6, SatisfiesAll
<1>8. ASSUME NEW row \in Row, Satisfies(row, list),
             HaveCommonRef(row, ToSet(list))
      PROVE  Satisfies(row, Merged(list))
  <2> DEFINE Lists(f1) == {d \in ToSet(list) : d.kind = "contains" /\ d.field = f1}
             Meets(f1, r) == \A d \in Lists(f1) : r \in d.refs
             common == [f1 \in {d.field : d \in ToSet(list)} |->
                          CHOOSE r \in row.refs[f1] : Meets(f1, r)]
  <2>1. ASSUME NEW c \in ToSet(list), c.kind = "contains"
        PROVE  common[c.field] \in row.refs[c.field] \cap c.refs
    <3>1. PICK r \in row.refs[c.field] :
            \A refs \in {d.refs : d \in {e \in ToSet(list) :
                                          e.kind = "contains" /\ e.field = c.field}} :
              r \in refs
      BY <1>8, <2>1 DEF HaveCommonRef
    <3>2. Meets(c.field, r)
      BY <3>1
    <3>3. common[c.field] = CHOOSE r1 \in row.refs[c.field] : Meets(c.field, r1)
      OBVIOUS
    <3>4. c \in Lists(c.field)
      BY <2>1
    <3> HIDE DEF common, Lists
    <3> QED BY <3>2, <3>3, <3>4
  <2>2. \A d \in ToSet(list) : Keeps(row, common, d)
    <3> HIDE DEF common
    <3> QED BY <1>8, <2>1, SatisfiesAll DEF Keeps
  <2> HIDE DEF common
  <2>3. \A d \in ToSet(Merged(list)) : Keeps(row, common, d)
    BY <1>2, <1>5, <2>2
  <2> QED BY <2>3, SatisfiesAll DEF Keeps
<1> QED BY <1>2, <1>5, <1>7, <1>8

-----------------------------------------------------------------------------
(* The relaxation.                                                         *)

\* Without one member a list has the others.
LEMMA RemoveAtSet ==
  ASSUME NEW s, IsList(s), NEW i \in DOMAIN s
  PROVE  /\ ToSet(RemoveAt(s, i)) \subseteq ToSet(s)
         /\ \A j \in DOMAIN s \ {i} : s[j] \in ToSet(RemoveAt(s, i))
<1>1. Len(s) \in Nat /\ DOMAIN s = 1..Len(s) /\ i \in 1..Len(s)
      /\ \A j \in 1..Len(s) : s[j] \in ToSet(s)
  BY LenProperties DEF IsList, ToSet
<1> DEFINE C == ToSet(s)
           a == SubSeq(s, 1, i - 1)
           b == SubSeq(s, i + 1, Len(s))
<1>2. i - 1 \in Nat /\ i + 1 \in Nat /\ i \in Nat
  BY <1>1
<1>3. /\ a \in Seq(C) /\ Len(a) = i - 1
      /\ \A j \in 1..(i - 1) : a[j] = s[j]
  <2>1. \A j \in 1..(i - 1) : s[j] \in C
    BY <1>1, <1>2
  <2> HIDE DEF C
  <2>2. /\ a \in Seq(C)
        /\ Len(a) = IF 1 <= i - 1 THEN i - 1 - 1 + 1 ELSE 0
        /\ \A j \in 1..(i - 1 - 1 + 1) : a[j] = s[1 + j - 1]
    BY <1>2, <2>1, SubSeqProperties
  <2> HIDE DEF a
  <2>3. Len(a) = i - 1
    BY <1>1, <2>2
  <2>4. \A j \in 1..(i - 1) : a[j] = s[j]
    BY <1>2, <2>2
  <2> QED BY <2>2, <2>3, <2>4
<1>4. /\ b \in Seq(C) /\ Len(b) = Len(s) - i
      /\ \A j \in 1..(Len(s) - i) : b[j] = s[i + j]
  <2>1. \A j \in (i + 1)..Len(s) : s[j] \in C
    BY <1>1, <1>2
  <2> HIDE DEF C
  <2>2. /\ b \in Seq(C)
        /\ Len(b) = IF i + 1 <= Len(s) THEN Len(s) - (i + 1) + 1 ELSE 0
        /\ \A j \in 1..(Len(s) - (i + 1) + 1) : b[j] = s[i + 1 + j - 1]
    BY <1>1, <1>2, <2>1, SubSeqProperties
  <2> HIDE DEF b
  <2>3. Len(b) = Len(s) - i
    BY <1>1, <1>2, <2>2
  <2>4. \A j \in 1..(Len(s) - i) : b[j] = s[i + j]
    <3>1. \A j \in 1..(Len(s) - i) : j \in 1..(Len(s) - (i + 1) + 1)
                                     /\ i + 1 + j - 1 = i + j
      BY <1>1, <1>2
    <3> QED BY <2>2, <3>1
  <2> QED BY <2>2, <2>3, <2>4
<1> HIDE DEF a, b
<1>5. RemoveAt(s, i) = a \o b
  BY DEF RemoveAt, a, b
<1>6. ToSet(a \o b) = ToSet(a) \cup ToSet(b)
  BY <1>3, <1>4, ConcatSet
<1>7. DOMAIN a = 1..(i - 1) /\ DOMAIN b = 1..(Len(s) - i)
  BY <1>3, <1>4, LenProperties
<1>8. ToSet(a) \subseteq C
  BY <1>1, <1>2, <1>3, <1>7 DEF ToSet
<1>9. ToSet(b) \subseteq C
  <2>1. \A j \in 1..(Len(s) - i) : i + j \in 1..Len(s)
    BY <1>1
  <2> QED BY <1>1, <1>4, <1>7, <2>1 DEF ToSet
<1>10. ASSUME NEW j \in DOMAIN s \ {i} PROVE s[j] \in ToSet(a) \cup ToSet(b)
  <2>1. j \in Nat /\ j \in 1..Len(s)
    BY <1>1
  <2>2. CASE j < i
    <3>1. j \in 1..(i - 1)
      BY <1>1, <2>1, <2>2
    <3> QED BY <1>3, <1>7, <3>1 DEF ToSet
  <2>3. CASE j > i
    <3>1. j - i \in 1..(Len(s) - i) /\ i + (j - i) = j
      BY <1>1, <2>1, <2>3
    <3>2. b[j - i] = s[j]
      BY <1>4, <3>1
    <3> QED BY <1>7, <3>1, <3>2 DEF ToSet
  <2> QED BY <1>2, <2>1, <2>2, <2>3
<1> QED BY <1>5, <1>6, <1>8, <1>9, <1>10

LEMMA ResolvedFilters ==
  ASSUME NEW db, NEW filters
  PROVE  LET f == Resolved(db, filters).filters
         IN  \/ f = filters
             \/ RelaxOnce(filters) # Nil /\ f = RelaxOnce(filters)
<1> DEFINE relaxed == RelaxOnce(filters)
           retry == IF relaxed = <<>> THEN Everything ELSE Candidates(db, relaxed)
           stay == Candidates(db, filters) # {} \/ relaxed = Nil \/ retry = {}
<1>1. CASE filters = <<>>
  BY <1>1 DEF Resolved
<1>2. CASE filters # <<>> /\ stay
  <2>1. Resolved(db, filters)
          = [filters |-> filters, scope |-> Candidates(db, filters)]
    BY <1>2 DEF Resolved
  <2> QED BY <2>1
<1>3. CASE filters # <<>> /\ ~stay
  <2>1. Resolved(db, filters) = [filters |-> relaxed, scope |-> retry]
    BY <1>3 DEF Resolved
  <2>2. relaxed # Nil
    BY <1>3
  <2> HIDE DEF relaxed, retry
  <2>3. Resolved(db, filters).filters = relaxed
    BY <2>1
  <2> QED BY <2>2, <2>3 DEF relaxed
<1> QED BY <1>1, <1>2, <1>3

\* Relaxing (relax_once) loses no row that passes, and drops nothing but a
\* range.
THEOREM RelaxingWidens ==
  ASSUME NEW filters, AreConditions(filters), NEW relaxed,
         relaxed = RelaxOnce(filters), relaxed # Nil
  PROVE  /\ \A row : Satisfies(row, filters) => Satisfies(row, relaxed)
         /\ \A c \in ToSet(filters) : c.kind # "range" => c \in ToSet(relaxed)
<1> USE NilAssumption
<1> DEFINE At == {n \in DOMAIN filters : Relaxable(filters[n])}
<1>1. Len(filters) \in Nat /\ DOMAIN filters = 1..Len(filters)
  BY LenProperties DEF AreConditions, IsList
<1>2. At # {}
  BY DEF RelaxOnce
<1>3. PICK i : i \in At /\ i = CHOOSE n \in At : \A m \in At : n <= m
  <2>1. At \subseteq Nat
    BY <1>1
  <2> HIDE DEF At
  <2>2. \E n \in At : \A m \in At : n <= m
    BY <1>2, <2>1, LeastNatural
  <2> QED BY <2>2
<1>4. relaxed = IF filters[i].max # Nil THEN [filters EXCEPT ![i].max = Nil]
                ELSE RemoveAt(filters, i)
  BY <1>2, <1>3 DEF RelaxOnce
<1>5. /\ i \in DOMAIN filters /\ filters[i].kind = "range"
      /\ \E f, min, max : filters[i] = Between(f, min, max)
  <2>1. IsCondition(filters[i])
    BY <1>3 DEF AreConditions, ToSet
  <2>2. filters[i].kind = "range"
    BY <1>3 DEF Relaxable
  <2>3. filters[i]
          = Between(filters[i].field, filters[i].min, filters[i].max)
    BY <2>1, <2>2 DEF IsCondition, WellFormed
  <2> QED BY <1>3, <2>2, <2>3
<1> HIDE DEF At
<1>6. CASE filters[i].max # Nil
  <2> DEFINE one == [filters[i] EXCEPT !.max = Nil]
  <2>1. relaxed = [filters EXCEPT ![i] = one]
    BY <1>4, <1>6
  <2>2. PICK f, min, max : filters[i] = Between(f, min, max)
    BY <1>5
  <2>3. one = Between(f, min, Nil)
    BY <2>2 DEF Between
  <2> HIDE DEF one
  <2>4. /\ DOMAIN relaxed = DOMAIN filters /\ relaxed[i] = one
        /\ \A j \in DOMAIN filters \ {i} : relaxed[j] = filters[j]
    BY <1>5, <2>1
  <2>5. ASSUME NEW row, Passes(row, filters[i]) PROVE Passes(row, one)
    <3>1. /\ filters[i].kind = "range" /\ filters[i].field = f
          /\ filters[i].min = min /\ filters[i].max = max
          /\ one.kind = "range" /\ one.field = f /\ one.min = min
          /\ one.max = Nil
      BY <2>2, <2>3 DEF Between
    <3>2. Holds(row, filters[i])
      BY <1>6, <2>5, <3>1 DEF Passes, Binds
    <3>3. Holds(row, one)
      BY <3>1, <3>2 DEF Holds
    <3> QED BY <3>3 DEF Passes
  <2>6. \A row : Satisfies(row, filters) => Satisfies(row, relaxed)
    <3>1. \A d \in ToSet(relaxed) : d = one \/ d \in ToSet(filters)
      BY <2>4 DEF ToSet
    <3>2. filters[i] \in ToSet(filters)
      BY <1>5 DEF ToSet
    <3> QED BY <2>5, <3>1, <3>2, SatisfiesAll
  <2>7. \A c \in ToSet(filters) : c.kind # "range" => c \in ToSet(relaxed)
    BY <1>5, <2>4 DEF ToSet
  <2> QED BY <2>6, <2>7
<1>7. CASE filters[i].max = Nil
  <2>1. relaxed = RemoveAt(filters, i)
    BY <1>4, <1>7
  <2>2. /\ ToSet(relaxed) \subseteq ToSet(filters)
        /\ \A j \in DOMAIN filters \ {i} : filters[j] \in ToSet(relaxed)
    BY <1>5, <2>1, RemoveAtSet DEF AreConditions
  <2>3. \A c \in ToSet(filters) : c.kind # "range" => c \in ToSet(relaxed)
    BY <1>5, <2>2 DEF ToSet
  <2> QED BY <2>2, <2>3, SatisfiesAll
<1> QED BY <1>6, <1>7

-----------------------------------------------------------------------------
(* The graph.                                                              *)

\* A passage of a passage is a passage.
LEMMA PassageOfPassage ==
  ASSUME NEW s, IsList(s), NEW t \in SubSeqs(s), NEW u \in SubSeqs(t)
  PROVE  u \in SubSeqs(s)
<1>1. Len(s) \in Nat /\ s \in Seq(ToSet(s))
      /\ \A k \in 1..Len(s) : s[k] \in ToSet(s)
  BY LenProperties, ElementOfSeq DEF IsList
<1>2. PICK i \in 0..Len(s), j \in 0..Len(s) : t = SubSeq(s, i + 1, j)
  BY DEF SubSeqs
<1>3. PICK m \in 0..Len(t), n \in 0..Len(t) : u = SubSeq(t, m + 1, n)
  BY DEF SubSeqs
<1>4. /\ i \in Nat /\ j \in Nat
      /\ \A k \in (i + 1)..j : s[k] \in ToSet(s)
  BY <1>1
<1>5. Len(t) = IF i + 1 <= j THEN j - (i + 1) + 1 ELSE 0
  BY <1>2, <1>4, SubSeqProperties
<1>6. m \in Nat /\ n \in Nat /\ Len(t) \in Nat
  BY <1>4, <1>5
<1>7. CASE n < m + 1
  <2>1. u = <<>>
    BY <1>3, <1>6, <1>7, SubSeqEmpty
  <2>2. SubSeq(s, 0 + 1, 0) = <<>>
    BY SubSeqEmpty
  <2>3. 0 \in 0..Len(s)
    BY <1>1
  <2>4. PICK i0 : i0 = 0
    OBVIOUS
  <2>5. SubSeq(s, i0 + 1, i0) \in SubSeqs(s)
    <3>1. i0 \in 0..Len(s)
      BY <2>3, <2>4
    <3>2. PICK v : v = SubSeq(s, i0 + 1, i0)
      OBVIOUS
    <3>3. v \in SubSeqs(s)
      BY ONLY <3>1, <3>2 DEF SubSeqs
    <3> QED BY <3>2, <3>3
  <2> QED BY <2>1, <2>2, <2>4, <2>5
<1>8. CASE m + 1 <= n
  <2>1. i + 1 <= j /\ Len(t) = j - (i + 1) + 1
    BY <1>5, <1>6, <1>8
  <2>2. /\ i + 1 \in 1..Len(s) /\ j \in 1..Len(s)
        /\ m + 1 \in 1..(j - (i + 1) + 1) /\ n \in 1..(j - (i + 1) + 1)
    BY <1>1, <1>4, <1>6, <1>8, <2>1
  <2>3. PICK a, b : a = i + 1 /\ b = m + 1
    OBVIOUS
  <2>4. SubSeq(SubSeq(s, a, j), b, n) = SubSeq(s, a + b - 1, a + n - 1)
    BY <1>1, <2>2, <2>3, SubSeqOfSubSeq
  <2>5. u = SubSeq(s, (i + m) + 1, i + n)
    <3>1. a + b - 1 = (i + m) + 1 /\ a + n - 1 = i + n
      BY <1>4, <1>6, <2>3
    <3> QED BY <1>2, <1>3, <2>3, <2>4, <3>1
  <2>6. i + m \in 0..Len(s) /\ i + n \in 0..Len(s)
    BY <1>1, <1>4, <1>6, <1>8, <2>1, <2>2
  <2> QED BY <2>5, <2>6 DEF SubSeqs
<1> QED BY <1>6, <1>7, <1>8

\* SetToSeq lists a finite set.
LEMMA SetToSeqLists ==
  ASSUME NEW S, IsFiniteSet(S)
  PROVE  IsList(SetToSeq(S)) /\ ToSet(SetToSeq(S)) \subseteq S
<1>1. PICK b : Cardinality(S) \in Nat /\ b \in Bijection(1..Cardinality(S), S)
  BY FS_CardinalityType DEF ExistsBijection
<1>2. b \in [1..Cardinality(S) -> S] /\ IsInjective(b)
  BY <1>1 DEF Bijection, Injection
<1>3. SetToSeq(S) \in [1..Cardinality(S) -> S]
  BY <1>2 DEF SetToSeq
<1>4. SetToSeq(S) \in Seq(S)
  BY <1>1, <1>3, SeqDef
<1> QED BY <1>3, <1>4, ListOf DEF ToSet

IsEdge(e) == IsList(e.to) /\ IsList(e.terms) /\ AreConditions(e.conditions)
IsGraph(graph) == IsList(graph) /\ \A e \in ToSet(graph) : IsEdge(e)

\* The phrases of a graph, which are its nodes.
Phrases(graph) == UNION {{e.phrase} \cup ToSet(e.to) : e \in ToSet(graph)}

LEMMA NodesArePhrases ==
  ASSUME NEW graph, IsGraph(graph)
  PROVE  IsList(Nodes(graph)) /\ ToSet(Nodes(graph)) = Phrases(graph)
<1> DEFINE C == Phrases(graph)
           Both(e) == <<e.phrase>> \o e.to
           of == [i \in DOMAIN graph |-> Both(graph[i])]
<1>1. Len(graph) \in Nat /\ DOMAIN graph = 1..Len(graph)
  BY LenProperties DEF IsGraph, IsList
<1>2. ASSUME NEW i \in DOMAIN graph
      PROVE  /\ Both(graph[i]) \in Seq(C)
             /\ ToSet(Both(graph[i])) = {graph[i].phrase} \cup ToSet(graph[i].to)
  <2>1. PICK p, to : p = graph[i].phrase /\ to = graph[i].to
    OBVIOUS
  <2>2. graph[i] \in ToSet(graph)
    BY DEF ToSet
  <2>3. p \in C /\ ToSet(to) \subseteq C
    BY <2>1, <2>2 DEF Phrases
  <2>4. IsList(to)
    BY <2>1, <2>2 DEF IsGraph, IsEdge
  <2>9. <<p>> \in Seq(C) /\ ToSet(<<p>>) = {p}
    BY <2>3 DEF ToSet
  <2>5. PICK s : s = <<p>> /\ s \in Seq(C) /\ ToSet(s) = {p}
    BY <2>9
  <2>6. to \in Seq(C)
    BY <2>3, <2>4, WiderList
  <2> HIDE DEF C
  <2>7. s \o to \in Seq(C) /\ ToSet(s \o to) = ToSet(s) \cup ToSet(to)
    BY <2>5, <2>6, ConcatSet
  <2>8. Both(graph[i]) = s \o to
    BY <2>1, <2>5
  <2> QED BY <2>1, <2>5, <2>7, <2>8
<1>4. Nodes(graph) = Loop(PushUnique, <<>>, FlattenSeq(of))
  BY DEF Nodes
<1> HIDE DEF C, Both
<1>3. /\ of \in Seq(Seq(C))
      /\ DOMAIN of = DOMAIN graph
      /\ \A i \in DOMAIN graph :
           ToSet(of[i]) = {graph[i].phrase} \cup ToSet(graph[i].to)
  BY <1>1, <1>2, SeqDef
<1> HIDE DEF of
<1>5. /\ FlattenSeq(of) \in Seq(C)
      /\ ToSet(FlattenSeq(of)) = UNION {ToSet(of[i]) : i \in DOMAIN of}
  BY <1>3, FlatList
<1>6. PICK none : none = <<>> /\ none \in Seq(C) /\ ToSet(none) = {}
  <2>1. <<>> \in Seq(C) /\ ToSet(<<>>) = {}
    BY EmptySeq DEF ToSet
  <2> QED BY <2>1
<1>7. /\ Nodes(graph) \in Seq(C)
      /\ ToSet(Nodes(graph)) = ToSet(none) \cup ToSet(FlattenSeq(of))
  <2>1. PICK flat : flat = FlattenSeq(of)
    OBVIOUS
  <2>2. /\ Loop(PushUnique, none, flat) \in Seq(C)
        /\ ToSet(Loop(PushUnique, none, flat)) = ToSet(none) \cup ToSet(flat)
    BY <1>5, <1>6, <2>1, UniqueList
  <2> QED BY <1>4, <1>6, <2>1, <2>2
<1>8. UNION {ToSet(of[i]) : i \in DOMAIN of} = C
  <2>1. UNION {ToSet(of[i]) : i \in DOMAIN of}
          = UNION {{graph[i].phrase} \cup ToSet(graph[i].to) : i \in DOMAIN graph}
    BY <1>3
  <2>2. ToSet(graph) = {graph[i] : i \in DOMAIN graph}
    BY DEF ToSet
  <2>3. C = UNION {{graph[i].phrase} \cup ToSet(graph[i].to) : i \in DOMAIN graph}
    BY <2>2 DEF C, Phrases
  <2> QED BY <2>1, <2>3
<1> QED BY <1>5, <1>6, <1>7, <1>8, ListOf DEF C

\* The ranks of the longest matches are theirs alone, and leave no gap.
LEMMA Ranks ==
  ASSUME NEW nodes, IsList(nodes), NEW found \in SUBSET DOMAIN nodes,
         \A n \in DOMAIN nodes : Len(nodes[n]) \in Nat
  PROVE  /\ IsFiniteSet(found) /\ Cardinality(found) \in Nat
         /\ \A n \in found :
              Cardinality(Before(nodes, found, n)) \in 0..(Cardinality(found) - 1)
         /\ \A m, n \in found :
              Cardinality(Before(nodes, found, m))
                = Cardinality(Before(nodes, found, n)) => m = n
         /\ \A k \in 1..Cardinality(found) : \E n \in found :
              Cardinality(Before(nodes, found, n)) = k - 1
<1>1. Len(nodes) \in Nat /\ DOMAIN nodes = 1..Len(nodes)
  BY LenProperties DEF IsList
<1>2. IsFiniteSet(found) /\ Cardinality(found) \in Nat
  <2>1. IsFiniteSet(1..Len(nodes))
    BY <1>1, FS_Interval
  <2> QED BY <1>1, <2>1, FS_Subset, FS_CardinalityType
<1>3. \A n \in found : n \in Nat /\ Len(nodes[n]) \in Nat
  BY <1>1
<1> DEFINE B(n) == Before(nodes, found, n)
           rank == [n \in found |-> Cardinality(B(n))]
           N == Cardinality(found)
<1>4. ASSUME NEW n \in found
      PROVE  /\ B(n) \subseteq found \ {n} /\ IsFiniteSet(B(n))
             /\ Cardinality(B(n)) \in 0..(N - 1)
  <2>1. B(n) \subseteq found \ {n}
    BY <1>3 DEF Before
  <2> HIDE DEF B
  <2>2. IsFiniteSet(found \ {n}) /\ Cardinality(found \ {n}) = N - 1
    BY <1>2, FS_RemoveElement
  <2>3. IsFiniteSet(B(n)) /\ Cardinality(B(n)) <= N - 1
    BY <2>1, <2>2, FS_Subset
  <2>4. Cardinality(B(n)) \in Nat
    BY <2>3, FS_CardinalityType
  <2> QED BY <1>2, <2>1, <2>3, <2>4
<1>5. ASSUME NEW m \in found, NEW n \in found, m \in B(n)
      PROVE  Cardinality(B(m)) # Cardinality(B(n))
  <2>1. B(m) \subseteq B(n)
    BY <1>3, <1>5 DEF Before
  <2>2. m \notin B(m)
    BY <1>4
  <2>3. B(m) # B(n)
    BY <1>5, <2>2
  <2>4. IsFiniteSet(B(n))
    BY <1>4
  <2> HIDE DEF B
  <2> QED BY <2>1, <2>3, <2>4, FS_Subset
<1>6. ASSUME NEW m \in found, NEW n \in found,
             Cardinality(B(m)) = Cardinality(B(n))
      PROVE  m = n
  <2>1. m # n => m \in B(n) \/ n \in B(m)
    BY <1>3 DEF Before
  <2> HIDE DEF B
  <2> QED BY <1>5, <1>6, <2>1
<1>7. \A k \in 1..N : \E n \in found : rank[n] = k - 1
  <2> HIDE DEF B
  <2>1. rank \in [found -> 0..(N - 1)]
    BY <1>4
  <2>2. rank \in Injection(found, 0..(N - 1))
    BY <1>6, <2>1 DEF Injection, IsInjective
  <2>3. IsFiniteSet(0..(N - 1)) /\ Cardinality(0..(N - 1)) = N
    BY <1>2, FS_Interval
  <2> HIDE DEF rank
  <2>4. rank \in Surjection(found, 0..(N - 1))
    BY <2>2, <2>3, FS_Injection
  <2>5. \A k \in 1..N : k - 1 \in 0..(N - 1)
    BY <1>2
  <2> QED BY <2>4, <2>5 DEF Surjection
<1> QED BY <1>2, <1>4, <1>6, <1>7

LEMMA RankedIsTyped ==
  ASSUME NEW graph, IsGraph(graph), NEW text,
         \A p \in Phrases(graph) : Len(p) \in Nat
  PROVE  LET nodes == Nodes(graph)
             found == Longest(nodes, text)
             ranked == Ranked(nodes, text)
         IN  /\ Cardinality(found) \in Nat
             /\ \E N \in Nat : DOMAIN ranked = 1..N
             /\ Cardinality(found) <= MaxMatches =>
                  \A n : n \in found <=> \E k \in DOMAIN ranked : ranked[k] = n
<1> DEFINE nodes == Nodes(graph)
           found == Longest(nodes, text)
           ranked == Ranked(nodes, text)
           R(n) == Cardinality(Before(nodes, found, n))
<1>1. IsList(nodes) /\ ToSet(nodes) = Phrases(graph)
  BY NodesArePhrases
<1>2. found \subseteq DOMAIN nodes
  BY DEF Longest
<1>3. \A n \in DOMAIN nodes : Len(nodes[n]) \in Nat
  BY <1>1 DEF ToSet
<1>4. DOMAIN ranked = 1..Min({MaxMatches, Cardinality(found)})
      /\ \A k \in DOMAIN ranked :
           ranked[k] = CHOOSE n \in found : R(n) = k - 1
  BY DEF Ranked
<1> HIDE DEF nodes, found, ranked
<1>5. PICK N : N = Cardinality(found) /\ N \in Nat
  BY <1>1, <1>2, <1>3, Ranks
<1>6. /\ \A n \in found : R(n) \in 0..(N - 1)
      /\ \A m, n \in found : R(m) = R(n) => m = n
      /\ \A k \in 1..N : \E n \in found : R(n) = k - 1
  BY <1>1, <1>2, <1>3, <1>5, Ranks
<1> HIDE DEF R
<1>7. PICK M : M = Min({MaxMatches, N}) /\ M \in Nat
               /\ (N <= MaxMatches => M = N)
  BY <1>5, RewritingAssumption DEF Min
<1>8. DOMAIN ranked = 1..M
  BY <1>4, <1>5, <1>7
<1>9. ASSUME N <= MaxMatches, NEW k \in DOMAIN ranked
      PROVE  ranked[k] \in found /\ R(ranked[k]) = k - 1
  <2>1. k \in 1..N
    BY <1>7, <1>8, <1>9
  <2>2. \E n \in found : R(n) = k - 1
    BY <1>6, <2>1
  <2> QED BY <1>4, <2>2
<1>10. ASSUME N <= MaxMatches, NEW n \in found
       PROVE  \E k \in DOMAIN ranked : ranked[k] = n
  <2>1. PICK k : k = R(n) + 1 /\ k \in 1..N
    BY <1>5, <1>6
  <2>2. k \in DOMAIN ranked /\ k - 1 = R(n)
    BY <1>5, <1>6, <1>7, <1>8, <1>10, <2>1
  <2>3. ranked[k] \in found /\ R(ranked[k]) = R(n)
    BY <1>9, <1>10, <2>2
  <2> QED BY <1>6, <2>2, <2>3
<1>11. N <= MaxMatches =>
         \A n : n \in found <=> \E k \in DOMAIN ranked : ranked[k] = n
  BY <1>9, <1>10
<1> QED BY <1>5, <1>7, <1>8, <1>11 DEF nodes, found, ranked

\* The edges that a text calls for, by the phrases of a graph.
CalledIn(graph, text) ==
  {e \in ToSet(graph) :
     \E s \in DOMAIN text :
        /\ OccursAt(e.phrase, text, s)
        /\ \A p \in Phrases(graph) : OccursAt(p, text, s) => Len(p) <= Len(e.phrase)}

LEMMA LongestAreCalled ==
  ASSUME NEW graph, IsGraph(graph), NEW text
  PROVE  LET nodes == Nodes(graph)
         IN  \A e \in ToSet(graph) :
               e \in CalledIn(graph, text)
                 <=> \E n \in Longest(nodes, text) : nodes[n] = e.phrase
<1> DEFINE nodes == Nodes(graph)
<1>1. ToSet(nodes) = Phrases(graph)
  BY NodesArePhrases
<1>2. \A e \in ToSet(graph) : e.phrase \in Phrases(graph)
  BY DEF Phrases
<1> HIDE DEF nodes
<1>3. \A e \in ToSet(graph) :
        e \in CalledIn(graph, text)
          <=> \E n \in Longest(nodes, text) : nodes[n] = e.phrase
  BY <1>1, <1>2 DEF CalledIn, Longest, ToSet
<1> QED BY <1>3 DEF nodes

\* With no more matches than are used, the applied edges are those called for.
LEMMA AppliedEdgesAre ==
  ASSUME NEW graph, IsGraph(graph), NEW text,
         \A p \in Phrases(graph) : Len(p) \in Nat
  PROVE  LET edges == AppliedEdges(graph, text)
         IN  /\ IsList(edges) /\ ToSet(edges) \subseteq ToSet(graph)
             /\ Cardinality(Longest(Nodes(graph), text)) <= MaxMatches =>
                  ToSet(edges) = CalledIn(graph, text)
<1> DEFINE nodes == Nodes(graph)
           found == Longest(nodes, text)
           ranked == Ranked(nodes, text)
           C == ToSet(graph)
           lists == [k \in DOMAIN ranked |-> Outgoing(graph, nodes[ranked[k]])]
           edges == AppliedEdges(graph, text)
<1>1. /\ Cardinality(found) \in Nat
      /\ \E N \in Nat : DOMAIN ranked = 1..N
      /\ Cardinality(found) <= MaxMatches =>
           \A n : n \in found <=> \E k \in DOMAIN ranked : ranked[k] = n
  BY RankedIsTyped
<1>2. ASSUME NEW p
      PROVE  /\ Outgoing(graph, p) \in Seq(C)
             /\ ToSet(Outgoing(graph, p)) = {e \in C : e.phrase = p}
  <2> DEFINE S == {e \in C : e.phrase = p}
  <2>1. /\ Kept(graph, S) \in Seq(C) /\ ToSet(Kept(graph, S)) = C \cap S
    BY KeptList DEF IsGraph, IsList
  <2>2. Outgoing(graph, p) = Reverse(Kept(graph, S))
    BY DEF Outgoing
  <2> HIDE DEF S, C
  <2>3. PICK s : s = Kept(graph, S)
    OBVIOUS
  <2>4. Len(s) \in Nat /\ DOMAIN s = 1..Len(s) /\ \A i \in 1..Len(s) : s[i] \in C
    BY <2>1, <2>3, LenProperties, ElementOfSeq
  <2>5. \A i \in 1..Len(s) : (Len(s) - i) + 1 \in 1..Len(s)
                             /\ (Len(s) - ((Len(s) - i) + 1)) + 1 = i
    BY <2>4
  <2>6. Reverse(s) = [i \in 1..Len(s) |-> s[(Len(s) - i) + 1]]
    BY DEF Reverse
  <2>7. Reverse(s) \in Seq(C)
    BY <2>4, <2>5, <2>6, SeqDef
  <2>8. ToSet(Reverse(s)) = ToSet(s)
    <3>1. DOMAIN Reverse(s) = 1..Len(s)
      BY <2>6
    <3>2. \A i \in 1..Len(s) : Reverse(s)[i] = s[(Len(s) - i) + 1]
      BY <2>6
    <3>3. \A i \in 1..Len(s) : Reverse(s)[(Len(s) - i) + 1] = s[i]
      BY <2>5, <3>2
    <3>4. ToSet(Reverse(s)) \subseteq ToSet(s)
      BY <2>4, <2>5, <3>1, <3>2 DEF ToSet
    <3>5. ToSet(s) \subseteq ToSet(Reverse(s))
      BY <2>4, <2>5, <3>1, <3>3 DEF ToSet
    <3> QED BY <3>4, <3>5
  <2>9. C \cap S = S
    BY DEF S
  <2> QED BY <2>1, <2>2, <2>3, <2>7, <2>8, <2>9 DEF S
<1>3. edges = FlattenSeq(lists)
  BY DEF AppliedEdges
<1>4. \A e \in C : e \in CalledIn(graph, text)
                     <=> \E n \in found : nodes[n] = e.phrase
  BY LongestAreCalled
<1>5. CalledIn(graph, text) \subseteq C
  BY DEF CalledIn
<1> HIDE DEF nodes, found, ranked, C, edges
<1>6. lists \in Seq(Seq(C)) /\ DOMAIN lists = DOMAIN ranked
  BY <1>1, <1>2, SeqDef
<1>7. \A k \in DOMAIN ranked :
        ToSet(lists[k]) = {e \in C : e.phrase = nodes[ranked[k]]}
  BY <1>2
<1> HIDE DEF lists
<1>8. edges \in Seq(C) /\ ToSet(edges) = UNION {ToSet(lists[k]) : k \in DOMAIN lists}
  BY <1>3, <1>6, FlatList
<1>9. \A e : e \in ToSet(edges)
               <=> e \in C /\ \E k \in DOMAIN ranked : e.phrase = nodes[ranked[k]]
  BY <1>6, <1>7, <1>8
<1>10. IsList(edges) /\ ToSet(edges) \subseteq C
  BY <1>8, <1>9, ListOf
<1>11. Cardinality(found) <= MaxMatches => ToSet(edges) = CalledIn(graph, text)
  <2> SUFFICES ASSUME Cardinality(found) <= MaxMatches
               PROVE  \A e : e \in ToSet(edges) <=> e \in CalledIn(graph, text)
    OBVIOUS
  <2>1. \A n : n \in found <=> \E k \in DOMAIN ranked : ranked[k] = n
    BY <1>1
  <2>2. \A e \in C : (\E k \in DOMAIN ranked : e.phrase = nodes[ranked[k]])
                       <=> \E n \in found : nodes[n] = e.phrase
    BY <2>1
  <2> QED BY <1>4, <1>5, <1>9, <2>2
<1> QED BY <1>10, <1>11 DEF nodes, found, C, edges

-----------------------------------------------------------------------------
(* The terms and the conditions of a plan.                                 *)

LEMMA TermsAre ==
  ASSUME NEW edges, IsList(edges), \A e \in ToSet(edges) : IsEdge(e), NEW text
  PROVE  \A t \in ToSet(Terms(edges, text)) :
           t = text \/ \E e \in ToSet(edges) : t \in ToSet(e.terms)
<1> DEFINE C == {text} \cup UNION {ToSet(e.terms) : e \in ToSet(edges)}
           lists == [i \in DOMAIN edges |-> edges[i].terms]
           all == Loop(PushUnique, <<text>>, FlattenSeq(lists))
<1>1. /\ Len(edges) \in Nat /\ DOMAIN edges = 1..Len(edges)
      /\ \A i \in DOMAIN edges : edges[i] \in ToSet(edges)
  BY LenProperties DEF IsList, ToSet
<1>2. \A i \in DOMAIN edges : edges[i].terms \in Seq(C)
  <2> SUFFICES ASSUME NEW i \in DOMAIN edges PROVE edges[i].terms \in Seq(C)
    OBVIOUS
  <2>1. IsList(edges[i].terms) /\ ToSet(edges[i].terms) \subseteq C
    BY <1>1 DEF IsEdge
  <2> HIDE DEF C
  <2> QED BY <2>1, WiderList
<1>3. <<text>> \in Seq(C)
  OBVIOUS
<1>4. Terms(edges, text) = UpTo(all, MaxTerms)
  BY DEF Terms
<1> HIDE DEF C
<1>5. lists \in Seq(Seq(C))
  BY <1>1, <1>2, SeqDef
<1> HIDE DEF lists
<1>6. all \in Seq(C)
  <2>1. PICK base, flat : base = <<text>> /\ flat = FlattenSeq(lists)
    OBVIOUS
  <2>2. flat \in Seq(C) /\ base \in Seq(C)
    BY <1>3, <1>5, <2>1, FlatList
  <2>3. Loop(PushUnique, base, flat) \in Seq(C)
    BY <2>2, UniqueList
  <2> QED BY <2>1, <2>3
<1> HIDE DEF all
<1>7. PICK n : n = Min({MaxTerms, Len(all)}) /\ n \in Int /\ n <= Len(all)
  <2>1. Len(all) \in Nat
    BY <1>6, LenProperties
  <2> QED BY <2>1, RewritingAssumption DEF Min
<1>8. \A i \in 1..n : all[i] \in C
  <2>1. Len(all) \in Nat /\ \A i \in 1..Len(all) : all[i] \in C
    BY <1>6, LenProperties, ElementOfSeq
  <2> QED BY <1>7, <2>1
<1>9. SubSeq(all, 1, n) \in Seq(C)
  <2>1. PICK m : m = 1 /\ m \in Int /\ \A i \in m..n : all[i] \in C
    BY <1>8
  <2>2. SubSeq(all, m, n) \in Seq(C)
    BY <1>7, <2>1, SubSeqProperties
  <2> QED BY <2>1, <2>2
<1>10. Terms(edges, text) = SubSeq(all, 1, n)
  BY <1>4, <1>7 DEF UpTo
<1>11. ToSet(Terms(edges, text)) \subseteq C
  <2>1. PICK s : s = SubSeq(all, 1, n)
    OBVIOUS
  <2>2. DOMAIN s = 1..Len(s) /\ \A i \in 1..Len(s) : s[i] \in C
    BY <1>9, <2>1, LenProperties, ElementOfSeq
  <2> QED BY <1>10, <2>1, <2>2 DEF ToSet
<1> QED BY <1>11 DEF C

LEMMA ConditionsAre ==
  ASSUME NEW edges, IsList(edges), \A e \in ToSet(edges) : IsEdge(e),
         NEW filters, AreConditions(filters)
  PROVE  /\ AreConditions(Conditions(edges, filters))
         /\ ToSet(Conditions(edges, filters))
              = ToSet(filters)
                  \cup UNION {ToSet(e.conditions) : e \in ToSet(edges)}
<1> DEFINE added == UNION {ToSet(e.conditions) : e \in ToSet(edges)}
           C == ToSet(filters) \cup added
           lists == [i \in DOMAIN edges |-> edges[i].conditions]
<1>1. /\ Len(edges) \in Nat /\ DOMAIN edges = 1..Len(edges)
      /\ ToSet(edges) = {edges[i] : i \in DOMAIN edges}
  BY LenProperties DEF IsList, ToSet
<1>2. \A i \in DOMAIN edges : edges[i].conditions \in Seq(C)
  <2> SUFFICES ASSUME NEW i \in DOMAIN edges PROVE edges[i].conditions \in Seq(C)
    OBVIOUS
  <2>1. IsList(edges[i].conditions) /\ ToSet(edges[i].conditions) \subseteq C
    BY <1>1 DEF IsEdge, AreConditions
  <2> HIDE DEF C
  <2> QED BY <2>1, WiderList
<1>3. filters \in Seq(C)
  <2>1. ToSet(filters) \subseteq C
    OBVIOUS
  <2> HIDE DEF C
  <2> QED BY <2>1, WiderList DEF AreConditions
<1>4. Conditions(edges, filters) = filters \o FlattenSeq(lists)
  BY DEF Conditions
<1>5. \A c \in C : IsCondition(c)
  BY DEF IsEdge, AreConditions
<1>6. added = UNION {ToSet(lists[i]) : i \in DOMAIN lists}
  BY <1>1
<1> HIDE DEF C
<1>7. lists \in Seq(Seq(C))
  BY <1>1, <1>2, SeqDef
<1> HIDE DEF lists, added
<1>8. /\ FlattenSeq(lists) \in Seq(C) /\ ToSet(FlattenSeq(lists)) = added
  BY <1>6, <1>7, FlatList
<1>9. /\ Conditions(edges, filters) \in Seq(C)
      /\ ToSet(Conditions(edges, filters)) = ToSet(filters) \cup added
  BY <1>3, <1>4, <1>8, ConcatSet
<1>10. ToSet(Conditions(edges, filters)) = C
  BY <1>9 DEF C
<1> QED BY <1>5, <1>9, <1>10, ListOf DEF AreConditions, added

\* A passage is a list.
LEMMA PassageIsList ==
  ASSUME NEW s, IsList(s), NEW t \in SubSeqs(s) PROVE IsList(t)
<1>1. Len(s) \in Nat /\ \A k \in 1..Len(s) : s[k] \in ToSet(s)
  BY LenProperties, ElementOfSeq DEF IsList
<1>2. PICK i \in 0..Len(s), j \in 0..Len(s) : t = SubSeq(s, i + 1, j)
  BY DEF SubSeqs
<1>3. i + 1 \in Int /\ j \in Int /\ \A k \in (i + 1)..j : s[k] \in ToSet(s)
  BY <1>1
<1>4. t \in Seq(ToSet(s))
  BY <1>2, <1>3, SubSeqProperties
<1> QED BY <1>4, ListOf

\* The words of an accepted page are passages of its source.
LEMMA WordsArePassages ==
  ASSUME NEW e \in Entity, NEW p, SoundPage(e, p),
         NEW word \in Words(p.answer)
  PROVE  /\ IsList(word)
         /\ \E pointer \in DOMAIN p.source.fields :
              word \in SubSeqs(p.source.fields[pointer])
<1>1. PICK r \in ValidRefs(p.source, p.answer) : Within(word, r.quote)
  BY DEF SoundPage, PageIsClean
<1>2. Backed(p.source, r)
  BY DEF ValidRefs
<1>3. PICK field : field = p.source.fields[r.pointer] /\ IsList(field)
  <2>1. PICK n \in 1..MaxRevision : p.source = Source(e, n)
    BY DEF SoundPage
  <2> QED BY <1>2, <2>1, GroundingAssumption DEF Backed
<1>4. word \in SubSeqs(field)
  BY <1>1, <1>2, <1>3, PassageOfPassage DEF Backed, Within
<1> QED BY <1>2, <1>3, <1>4, PassageIsList DEF Backed

-----------------------------------------------------------------------------
(* A query.                                                                *)

LEMMA PageEdgesAre ==
  ASSUME NEW answer, IsFiniteSet(answer.aliases), IsFiniteSet(answer.tags)
  PROVE  /\ IsFiniteSet(PageEdges(answer))
         /\ \A e \in PageEdges(answer) :
              /\ IsEdge(e)
              /\ {e.phrase} \cup ToSet(e.to) \subseteq Words(answer)
              /\ ToSet(e.terms) \subseteq Words(answer)
<1> DEFINE A == answer.aliases \ {answer.title}
           T == answer.tags
           OfAlias(a) == Edge(a, <<answer.title>>, <<answer.title>>)
           OfTag(t) == Edge(answer.title, <<t>>, <<answer.title, t>>)
           aliases == {OfAlias(a) : a \in A}
           tags == {OfTag(t) : t \in T}
<1>1. PageEdges(answer) = aliases \cup tags
  BY DEF PageEdges
<1>2. /\ \A x : IsList(<<x>>) /\ ToSet(<<x>>) = {x}
      /\ \A x, y : IsList(<<x, y>>) /\ ToSet(<<x, y>>) = {x, y}
      /\ IsList(<<>>) /\ ToSet(<<>>) = {}
  BY DEF IsList, ToSet
<1>3. AreConditions(<<>>)
  BY <1>2 DEF AreConditions
<1>4. \A e \in aliases \cup tags :
        /\ IsEdge(e)
        /\ {e.phrase} \cup ToSet(e.to) \subseteq Words(answer)
        /\ ToSet(e.terms) \subseteq Words(answer)
  BY <1>2, <1>3 DEF Edge, IsEdge, Words
<1>5. IsFiniteSet(A)
  BY FS_Difference
<1> HIDE DEF OfAlias, OfTag
<1>6. IsFiniteSet(aliases)
  <2> DEFINE f == [a \in A |-> OfAlias(a)]
  <2>1. f \in Surjection(A, aliases)
    BY DEF Surjection
  <2> HIDE DEF f, A, aliases
  <2> QED BY <1>5, <2>1, FS_Surjection
<1>7. IsFiniteSet(tags)
  <2> DEFINE f == [t \in T |-> OfTag(t)]
  <2>1. f \in Surjection(T, tags)
    BY DEF Surjection
  <2> HIDE DEF f, tags
  <2> QED BY <2>1, FS_Surjection
<1> HIDE DEF aliases, tags
<1> QED BY <1>1, <1>4, <1>6, <1>7, FS_Union

\* Every page that a server's graph is of was accepted.
LoadedInv ==
  loaded # None =>
    \A e \in Entity : loaded[e] # None => SoundPage(e, loaded[e])

\* The graph of loaded pages and of a domain.
LEMMA GraphIsSound ==
  ASSUME LoadedInv, loaded # None, domain \in Domain
  PROVE  /\ IsGraph(Graph)
         /\ \A p \in Phrases(Graph) : Len(p) \in Nat
         /\ \A e \in ToSet(Graph) :
              \/ e \in ToSet(domain.intents)
              \/ \E x \in Entity : /\ loaded[x] # None
                                   /\ e \in PageEdges(loaded[x].answer)
<1> USE GroundingAssumption
<1> DEFINE X == {x \in Entity : loaded[x] # None}
           sets == {PageEdges(loaded[x].answer) : x \in X}
           edges == UNION sets
           pages == SetToSeq(edges)
<1>1. ASSUME NEW x \in X
      PROVE  /\ IsFiniteSet(PageEdges(loaded[x].answer))
             /\ \A e \in PageEdges(loaded[x].answer) :
                  /\ IsEdge(e)
                  /\ {e.phrase} \cup ToSet(e.to) \subseteq Words(loaded[x].answer)
             /\ \A w \in Words(loaded[x].answer) : IsList(w)
  <2>1. SoundPage(x, loaded[x])
    BY DEF LoadedInv
  <2>2. /\ IsFiniteSet(loaded[x].answer.aliases)
        /\ IsFiniteSet(loaded[x].answer.tags)
    BY <2>1 DEF SoundPage
  <2>3. \A w \in Words(loaded[x].answer) : IsList(w)
    BY <2>1, WordsArePassages
  <2> QED BY <2>2, <2>3, PageEdgesAre
<1>2. IsFiniteSet(edges)
  <2>1. IsFiniteSet(X)
    BY FS_Subset
  <2> DEFINE f == [x \in X |-> PageEdges(loaded[x].answer)]
  <2>2. f \in Surjection(X, sets)
    BY DEF Surjection
  <2>3. IsFiniteSet(sets)
    <3> HIDE DEF f, X, sets
    <3> QED BY <2>1, <2>2, FS_Surjection
  <2>4. \A S \in sets : IsFiniteSet(S)
    BY <1>1
  <2> HIDE DEF sets
  <2> QED BY <2>3, <2>4, FS_UNION
<1>3. \A e \in edges : \E x \in X : e \in PageEdges(loaded[x].answer)
  OBVIOUS
<1>4. Graph = pages \o domain.intents
  BY DEF Graph
<1>5. IsList(domain.intents)
  OBVIOUS
<1>6. \A e \in ToSet(domain.intents) :
        IsEdge(e) /\ \A p \in {e.phrase} \cup ToSet(e.to) : IsList(p)
  BY DEF ToSet, IsEdge
<1>7. IsList(pages) /\ ToSet(pages) \subseteq edges
  <2> HIDE DEF edges
  <2> QED BY <1>2, SetToSeqLists
<1> HIDE DEF pages, edges
<1>8. IsList(Graph) /\ ToSet(Graph) = ToSet(pages) \cup ToSet(domain.intents)
  BY <1>4, <1>5, <1>7, ConcatList
<1>9. \A e \in ToSet(Graph) :
        IsEdge(e) /\ \A p \in {e.phrase} \cup ToSet(e.to) : IsList(p)
  BY <1>1, <1>3, <1>6, <1>7, <1>8
<1>10. \A p : IsList(p) => Len(p) \in Nat
  BY LenProperties DEF IsList
<1> QED BY <1>3, <1>7, <1>8, <1>9, <1>10 DEF IsGraph, Phrases

\* What the engine searches with, whatever is asked of whatever graph.
LEMMA PlanIsSound ==
  ASSUME NEW graph, IsGraph(graph),
         \A p \in Phrases(graph) : Len(p) \in Nat,
         NEW q, AreConditions(q.filters)
  PROVE  LET p == Plan(graph, q)
             conditions == ToSet(q.filters) \cup
               UNION {ToSet(e.conditions) : e \in CalledIn(graph, q.text)}
         IN  /\ AreConditions(p.filters)
             /\ \A t \in ToSet(p.terms) :
                  t = q.text \/ \E e \in ToSet(graph) : t \in ToSet(e.terms)
             /\ Cardinality(Longest(Nodes(graph), q.text)) <= MaxMatches =>
                  \A row \in Row :
                    LET all == \A c \in conditions : Passes(row, c)
                    IN  /\ Satisfies(row, p.filters) => all
                        /\ all /\ HaveCommonRef(row, conditions)
                             => Satisfies(row, p.filters)
<1> DEFINE p == Plan(graph, q)
           edges == AppliedEdges(graph, q.text)
           called == CalledIn(graph, q.text)
           conditions == ToSet(q.filters) \cup
             UNION {ToSet(e.conditions) : e \in called}
           all == Conditions(edges, q.filters)
           few == Cardinality(Longest(Nodes(graph), q.text)) <= MaxMatches
<1>1. /\ IsList(edges) /\ ToSet(edges) \subseteq ToSet(graph)
      /\ few => ToSet(edges) = called
  BY AppliedEdgesAre
<1>2. \A e \in ToSet(edges) : IsEdge(e)
  BY <1>1 DEF IsGraph
<1> HIDE DEF few
<1>3. /\ Rewritten(graph, q).terms = Terms(edges, q.text)
      /\ Rewritten(graph, q).filters = Merged(all)
  BY DEF Rewritten
<1>4. /\ AreConditions(all)
      /\ ToSet(all) = ToSet(q.filters)
           \cup UNION {ToSet(e.conditions) : e \in ToSet(edges)}
  <2> HIDE DEF edges
  <2> QED BY <1>1, <1>2, ConditionsAre
<1>5. \A t \in ToSet(Terms(edges, q.text)) :
        t = q.text \/ \E e \in ToSet(graph) : t \in ToSet(e.terms)
  <2> HIDE DEF edges
  <2> QED BY <1>1, <1>2, TermsAre
<1>6. few => ToSet(all) = conditions
  BY <1>1, <1>4
<1> HIDE DEF edges, all
<1>7. /\ AreConditions(Merged(all))
      /\ \A row \in Row :
           /\ Satisfies(row, Merged(all)) => Satisfies(row, all)
           /\ Satisfies(row, all) /\ HaveCommonRef(row, ToSet(all))
                => Satisfies(row, Merged(all))
  BY <1>4, MergedMeansAll
<1>8. ASSUME p.filters = Merged(all), few, NEW row \in Row
      PROVE  /\ Satisfies(row, p.filters) => \A c \in conditions : Passes(row, c)
             /\ (\A c \in conditions : Passes(row, c))
                  /\ HaveCommonRef(row, conditions) => Satisfies(row, p.filters)
  <2> HIDE DEF p, conditions
  <2> QED BY <1>6, <1>7, <1>8, SatisfiesAll
<1>9. CASE Changes(graph, q)
  <2>1. p.terms = Terms(edges, q.text) /\ p.filters = Merged(all)
    BY <1>3, <1>9 DEF Plan
  <2> HIDE DEF p, conditions
  <2> QED BY <1>5, <1>7, <1>8, <2>1 DEF p, conditions, few
<1>10. CASE ~Changes(graph, q)
  <2>1. p.terms = <<q.text>> /\ p.filters = q.filters
    BY <1>10 DEF Plan
  <2>2. ToSet(<<q.text>>) = {q.text}
    BY DEF ToSet
  <2>3. CASE called = {}
    <3>1. conditions = ToSet(q.filters)
      BY <2>3
    <3> HIDE DEF p, conditions
    <3>2. \A row \in Row :
            Satisfies(row, p.filters) <=> \A c \in conditions : Passes(row, c)
      BY <2>1, <3>1, SatisfiesAll
    <3> QED BY <2>1, <2>2, <3>2 DEF p, conditions
  <2>4. CASE called # {}
    <3>1. Longest(Nodes(graph), q.text) # {}
      BY <2>4, LongestAreCalled DEF CalledIn
    <3>2. q.text # <<>>
      BY <2>4 DEF CalledIn
    <3>3. p.filters = Merged(all)
      BY <1>3, <1>10, <2>1, <3>1, <3>2 DEF Changes
    <3> HIDE DEF p, conditions
    <3> QED BY <1>8, <2>1, <2>2, <3>3 DEF p, conditions, few
  <2> QED BY <2>3, <2>4
<1> QED BY <1>9, <1>10

-----------------------------------------------------------------------------
(* From sources to searches: the inductive invariant.                      *)

GroundingInv ==
  /\ JudgementInv
  /\ LoadedInv
  /\ domain \in Domain
  /\ MergeIsExact
  /\ RelaxationOnlyWidens
  /\ TermsAreQuoted

LEMMA StartHolds == ASSUME GroundingInit PROVE GroundingInv
BY InitHolds
   DEF GroundingInit, GroundingInv, LoadedInv, MergeIsExact,
       RelaxationOnlyWidens, TermsAreQuoted

LEMMA AskKeepsInv ==
  ASSUME GroundingInv, NEW q \in domain.questions, NEW rows, Ask(q, rows)
  PROVE  GroundingInv'
<1> USE GroundingAssumption
<1> DEFINE graph == IF loaded = None THEN <<>> ELSE Graph
           p == Plan(graph, q)
           r == Resolved(SetToSeq(rows), p.filters)
<1>1. /\ asked' = q
      /\ plan' = [graph |-> graph, terms |-> p.terms, filters |-> p.filters,
                  relaxed |-> r.filters, scope |-> r.scope]
      /\ UNCHANGED <<jvars, domain, loaded>>
  BY DEF Ask
<1>2. /\ IsGraph(graph)
      /\ \A f \in Phrases(graph) : Len(f) \in Nat
      /\ \A e \in ToSet(graph) :
           /\ loaded # None
           /\ \/ e \in ToSet(domain.intents)
              \/ \E x \in Entity : /\ loaded[x] # None
                                   /\ e \in PageEdges(loaded[x].answer)
  <2>1. CASE loaded # None
    BY <2>1, GraphIsSound DEF GroundingInv
  <2>2. CASE loaded = None
    <3>1. graph = <<>> /\ IsList(<<>>) /\ ToSet(<<>>) = {}
      BY <2>2 DEF IsList, ToSet
    <3> HIDE DEF graph
    <3> QED BY <3>1 DEF IsGraph, Phrases
  <2> QED BY <2>1, <2>2
<1>3. AreConditions(q.filters)
  BY DEF GroundingInv
<1> HIDE DEF graph
<1> DEFINE conditions == ToSet(q.filters) \cup
             UNION {ToSet(e.conditions) : e \in CalledIn(graph, q.text)}
<1>4. /\ AreConditions(p.filters)
      /\ \A t \in ToSet(p.terms) :
           t = q.text \/ \E e \in ToSet(graph) : t \in ToSet(e.terms)
      /\ Cardinality(Longest(Nodes(graph), q.text)) <= MaxMatches =>
           \A row \in Row :
             LET all == \A c \in conditions : Passes(row, c)
             IN  /\ Satisfies(row, p.filters) => all
                 /\ all /\ HaveCommonRef(row, conditions)
                      => Satisfies(row, p.filters)
  BY <1>2, <1>3, PlanIsSound
<1>5. /\ plan'.graph = graph /\ plan'.terms = p.terms
      /\ plan'.filters = p.filters /\ plan'.relaxed = r.filters
  BY <1>1
<1> HIDE DEF p
<1>6. \/ r.filters = p.filters
      \/ RelaxOnce(p.filters) # Nil /\ r.filters = RelaxOnce(p.filters)
  <2>1. PICK db, filters : db = SetToSeq(rows) /\ filters = p.filters
    OBVIOUS
  <2>2. \/ Resolved(db, filters).filters = filters
        \/ /\ RelaxOnce(filters) # Nil
           /\ Resolved(db, filters).filters = RelaxOnce(filters)
    BY ResolvedFilters
  <2> QED BY <2>1, <2>2
<1> HIDE DEF r
<1>7. JudgementInv' /\ (domain \in Domain)' /\ LoadedInv'
  BY <1>1 DEF GroundingInv, LoadedInv, jvars, JudgementInv, SoundPage, ArbiterIsSilent
<1>8. RelaxationOnlyWidens'
  <2>1. CASE r.filters = p.filters
    BY <1>5, <2>1 DEF RelaxationOnlyWidens
  <2>2. CASE RelaxOnce(p.filters) # Nil /\ r.filters = RelaxOnce(p.filters)
    <3>1. /\ \A row : Satisfies(row, p.filters) => Satisfies(row, r.filters)
          /\ \A c \in ToSet(p.filters) :
               c.kind # "range" => c \in ToSet(r.filters)
      BY <1>4, <2>2, RelaxingWidens
    <3> QED BY <1>5, <3>1 DEF RelaxationOnlyWidens
  <2> QED BY <1>6, <2>1, <2>2
<1>9. MergeIsExact'
  <2>1. Called' = CalledIn(graph, q.text)
    BY <1>1, <1>5 DEF Called, CalledIn, Phrases
  <2>2. Asked' = conditions
    BY <1>1, <2>1 DEF Asked
  <2> HIDE DEF conditions
  <2>3. \A row, c : Satisfies(row, <<c>>) <=> Passes(row, c)
    <3>1. \A c : ToSet(<<c>>) = {c}
      BY DEF ToSet
    <3> QED BY <3>1, SatisfiesAll
  <2>4. ASSUME Cardinality(Longest(Nodes(graph), q.text)) <= MaxMatches,
               NEW row \in Row
        PROVE  LET all == \A c \in conditions : Satisfies(row, <<c>>)
               IN  /\ Satisfies(row, p.filters) => all
                   /\ all /\ HaveCommonRef(row, conditions)
                        => Satisfies(row, p.filters)
    BY <1>4, <2>3, <2>4
  <2> QED BY <1>1, <1>5, <2>2, <2>4 DEF MergeIsExact
<1>10. TermsAreQuoted'
  <2> SUFFICES ASSUME NEW t \in ToSet(p.terms), t # q.text
               PROVE  /\ loaded # None
                      /\ \/ \E i \in DOMAIN domain.intents :
                              t \in ToSet(domain.intents[i].terms)
                         \/ \E x \in {y \in Entity : loaded[y] # None} :
                            \E f \in DOMAIN loaded[x].source.fields :
                              t \in SubSeqs(loaded[x].source.fields[f])
    BY <1>1, <1>5 DEF TermsAreQuoted, jvars
  <2>1. PICK e \in ToSet(graph) : t \in ToSet(e.terms)
    BY <1>4
  <2>2. ASSUME e \in ToSet(domain.intents)
        PROVE  \E i \in DOMAIN domain.intents : t \in ToSet(domain.intents[i].terms)
    <3>1. PICK i \in DOMAIN domain.intents : e = domain.intents[i]
      BY <2>2 DEF ToSet
    <3> QED BY <2>1, <3>1
  <2>3. ASSUME NEW x \in Entity, loaded # None, loaded[x] # None,
               e \in PageEdges(loaded[x].answer)
        PROVE  \E f \in DOMAIN loaded[x].source.fields :
                 t \in SubSeqs(loaded[x].source.fields[f])
    <3>1. SoundPage(x, loaded[x])
      BY <2>3 DEF GroundingInv, LoadedInv
    <3>2. /\ IsFiniteSet(loaded[x].answer.aliases)
          /\ IsFiniteSet(loaded[x].answer.tags)
      BY <3>1 DEF SoundPage
    <3>3. t \in Words(loaded[x].answer)
      BY <2>1, <2>3, <3>2, PageEdgesAre
    <3> QED BY <3>1, <3>3, WordsArePassages
  <2> QED BY <1>2, <2>1, <2>2, <2>3
<1> QED BY <1>7, <1>8, <1>9, <1>10 DEF GroundingInv

\* What holds of a query being resolved does not depend on the pages.
LEMMA PlanStays ==
  ASSUME GroundingInv, UNCHANGED <<domain, loaded, asked, plan>>
  PROVE  /\ (domain \in Domain)' /\ LoadedInv'
         /\ MergeIsExact' /\ RelaxationOnlyWidens' /\ TermsAreQuoted'
  BY DEF GroundingInv, LoadedInv, SoundPage, MergeIsExact, Asked, Called,
         RelaxationOnlyWidens, TermsAreQuoted

LEMMA LoadKeepsInv ==
  ASSUME GroundingInv, NEW pages, Load(pages), pages \in {published, None}
  PROVE  GroundingInv'
<1>1. JudgementInv'
  BY StepKeepsInv DEF Load, GroundingInv
<1>2. (domain \in Domain)' /\ asked' = None
  BY DEF Load, GroundingInv
<1>3. LoadedInv'
  BY DEF Load, LoadedInv, GroundingInv, JudgementInv
<1> QED BY <1>1, <1>2, <1>3 DEF GroundingInv, MergeIsExact,
           RelaxationOnlyWidens, TermsAreQuoted

LEMMA SearchStepKeepsInv ==
  ASSUME GroundingInv, [GroundingNext]_gvars
  PROVE  GroundingInv'
<1>1. CASE \/ UNCHANGED gvars
           \/ JudgementNext /\ UNCHANGED <<domain, loaded, asked, plan>>
  <2>1. JudgementInv'
    BY <1>1, StepKeepsInv DEF gvars, GroundingInv
  <2>2. UNCHANGED <<domain, loaded, asked, plan>>
    BY <1>1 DEF gvars
  <2> QED BY <2>1, <2>2, PlanStays DEF GroundingInv
<1>2. CASE Load(published) \/ Load(None)
  BY <1>2, LoadKeepsInv
<1>3. CASE \E q \in domain.questions : \E rows \in Stored : Ask(q, rows)
  BY <1>3, AskKeepsInv
<1>4. CASE Answered
  <2>1. JudgementInv'
    BY <1>4, StepKeepsInv DEF Answered, GroundingInv
  <2>2. LoadedInv'
    BY <1>4 DEF Answered, GroundingInv, LoadedInv
  <2> QED BY <1>4, <2>1, <2>2 DEF Answered, GroundingInv, MergeIsExact,
             RelaxationOnlyWidens, TermsAreQuoted
<1> QED BY <1>1, <1>2, <1>3, <1>4 DEF GroundingNext

\* Merging conditions changes nothing that a row passes or not, but for rows
\* that meet two lists of references by different ones (push_merged, rewrite).
THEOREM MergeIsAlwaysExact == GroundingSpec => []MergeIsExact
<1>1. GroundingInit => GroundingInv
  BY StartHolds
<1>2. GroundingInv /\ [GroundingNext]_gvars => GroundingInv'
  BY SearchStepKeepsInv
<1>3. GroundingInv => MergeIsExact
  BY DEF GroundingInv
<1> QED BY <1>1, <1>2, <1>3, PTL DEF GroundingSpec

\* The one relaxation of a search (DefaultFilterRelaxer) loses no row.
THEOREM RelaxationAlwaysWidens == GroundingSpec => []RelaxationOnlyWidens
<1>1. GroundingInit => GroundingInv
  BY StartHolds
<1>2. GroundingInv /\ [GroundingNext]_gvars => GroundingInv'
  BY SearchStepKeepsInv
<1>3. GroundingInv => RelaxationOnlyWidens
  BY DEF GroundingInv
<1> QED BY <1>1, <1>2, <1>3, PTL DEF GroundingSpec

\* No term of a search comes from outside the query, the configuration and the
\* sources whose pages were accepted when the server loaded its graph, however
\* they have been compiled since (validate, derive_page_edges, rewrite).
THEOREM TermsAreAlwaysQuoted == GroundingSpec => []TermsAreQuoted
<1>1. GroundingInit => GroundingInv
  BY StartHolds
<1>2. GroundingInv /\ [GroundingNext]_gvars => GroundingInv'
  BY SearchStepKeepsInv
<1>3. GroundingInv => TermsAreQuoted
  BY DEF GroundingInv
<1> QED BY <1>1, <1>2, <1>3, PTL DEF GroundingSpec

\* The arbiter never decides about a page (process_lease, with pages named
\* after their entity and related pages other entities').
THEOREM ArbiterIsAlwaysSilent == GroundingSpec => []ArbiterIsSilent
<1>1. GroundingInit => GroundingInv
  BY StartHolds
<1>2. GroundingInv /\ [GroundingNext]_gvars => GroundingInv'
  BY SearchStepKeepsInv
<1>3. GroundingInv => ArbiterIsSilent
  BY DEF GroundingInv, JudgementInv
<1> QED BY <1>1, <1>2, <1>3, PTL DEF GroundingSpec

\* Every assertion of an accepted page is put together from passages of the
\* source that the page names.  The gates ask for a citation of one, whatever
\* the policy says of refs.
THEOREM PagesAreAlwaysGrounded ==
  GroundingSpec => []AcceptedPagesAreGrounded
<1>1. GroundingInit => GroundingInv
  BY StartHolds
<1>2. GroundingInv /\ [GroundingNext]_gvars => GroundingInv'
  BY SearchStepKeepsInv
<1>3. GroundingInv => AcceptedPagesAreGrounded
  BY SoundPagesAreGrounded DEF GroundingInv
<1> QED BY <1>1, <1>2, <1>3, PTL DEF GroundingSpec
=============================================================================

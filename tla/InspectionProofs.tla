-------------------------- MODULE InspectionProofs --------------------------
(***************************************************************************)
(* What holds of the targets and the checks of a cycle, for every          *)
(* configuration, every answer of the sources and every certificate.       *)
(***************************************************************************)
EXTENDS Inspection, EngineProofs, FiniteSetTheorems, SequenceTheorems

-----------------------------------------------------------------------------
(* Every nonempty set of naturals has a least element. *)
LEMMA LeastOf ==
  ASSUME NEW T \in SUBSET Nat, T # {}
  PROVE  \E x \in T : \A y \in T : x <= y
<1> DEFINE R == {p \in Nat \X Nat : p[1] < p[2]}
<1>1. IsWellFoundedOn(R, Nat)
  BY NatLessThanWellFounded DEF OpToRel
<1>2. \E x \in T : \A y \in T : ~(<<y, x>> \in R)
  <2> HIDE DEF R
  <2> QED BY <1>1, WFMin
<1>3. ASSUME NEW x \in T, NEW y \in T, ~(<<y, x>> \in R) PROVE x <= y
  <2>1. x \in Nat /\ y \in Nat
    OBVIOUS
  <2>2. ~(y < x)
    BY <1>3, <2>1
  <2>3. QED
    BY <2>1, <2>2
<1>4. QED
  BY <1>2, <1>3

(* g joins the sequences up to each of the first m. *)
Joins(seqs, m, g) ==
  g = [i \in 1..m |-> IF i = 1 THEN seqs[i] ELSE g[i - 1] \o seqs[i]]

(* Joining sequences one after the other ends after the last. *)
LEMMA JoinExists ==
  ASSUME NEW S, NEW seqs \in Seq(Seq(S)), NEW n \in 1..Len(seqs)
  PROVE  \E g \in [1..n -> Seq(S)] : Joins(seqs, n, g)
<1> DEFINE Fails == {m \in 1..Len(seqs) : ~\E g \in [1..m -> Seq(S)] : Joins(seqs, m, g)}
<1>0. Len(seqs) \in Nat /\ \A i \in 1..Len(seqs) : seqs[i] \in Seq(S)
  BY LenProperties, ElementOfSeq
<1>1. ASSUME Fails # {} PROVE FALSE
  <2>1. PICK m \in Fails : \A k \in Fails : m <= k
    <3>1. Fails \in SUBSET Nat
      BY <1>0
    <3> HIDE DEF Fails
    <3>2. QED
      BY <1>1, <3>1, LeastOf
  <2>2. /\ m \in 1..Len(seqs) /\ m \in Nat
        /\ ~\E g \in [1..m -> Seq(S)] : Joins(seqs, m, g)
    BY <1>0
  <2>3. CASE m = 1
    <3> DEFINE g == [i \in 1..1 |-> seqs[i]]
    <3>1. g \in [1..1 -> Seq(S)]
      BY <1>0, <2>2, <2>3
    <3>2. g = [i \in 1..1 |-> IF i = 1 THEN seqs[i] ELSE g[i - 1] \o seqs[i]]
      OBVIOUS
    <3>3. QED
      BY <2>2, <2>3, <3>1, <3>2 DEF Joins
  <2>4. CASE m # 1
    <3>1. m - 1 \in 1..Len(seqs) /\ \E g \in [1..(m - 1) -> Seq(S)] : Joins(seqs, m - 1, g)
      <4>1. m - 1 \in 1..Len(seqs) /\ ~(m <= m - 1)
        BY <1>0, <2>2, <2>4
      <4>2. QED
        BY <2>1, <4>1
    <3>2. PICK g \in [1..(m - 1) -> Seq(S)] : Joins(seqs, m - 1, g)
      BY <3>1
    <3> DEFINE h == [i \in 1..m |-> IF i = m THEN g[m - 1] \o seqs[m] ELSE g[i]]
    <3>3. g = [i \in 1..(m - 1) |-> IF i = 1 THEN seqs[i] ELSE g[i - 1] \o seqs[i]]
      BY <3>2 DEF Joins
    <3>4. g[m - 1] \in Seq(S) /\ seqs[m] \in Seq(S)
      BY <1>0, <2>2, <3>1, <3>2
    <3>5. g[m - 1] \o seqs[m] \in Seq(S)
      BY <3>4, ConcatProperties
    <3>6. h \in [1..m -> Seq(S)]
      <4>1. ASSUME NEW i \in 1..m, i # m PROVE g[i] \in Seq(S)
        <5>1. i \in 1..(m - 1)
          BY <2>2, <4>1
        <5>2. QED
          BY <3>2, <5>1
      <4>2. QED
        BY <3>5, <4>1
    <3>7. ASSUME NEW i \in 1..m
          PROVE  h[i] = IF i = 1 THEN seqs[i] ELSE h[i - 1] \o seqs[i]
      <4>1. CASE i = m
        <5>1. m - 1 \in 1..m /\ m - 1 # m /\ m \in 1..m
          BY <2>2, <2>4
        <5>2. h[m] = g[m - 1] \o seqs[m] /\ h[m - 1] = g[m - 1]
          BY <5>1
        <5>3. QED
          BY <2>4, <4>1, <5>2
      <4>2. CASE i # m
        <5>1. i \in 1..(m - 1) /\ h[i] = g[i]
          BY <1>0, <2>2, <4>2
        <5>2. g[i] = IF i = 1 THEN seqs[i] ELSE g[i - 1] \o seqs[i]
          BY <3>3, <5>1
        <5>3. i # 1 => h[i - 1] = g[i - 1]
          BY <1>0, <2>2, <5>1
        <5>4. QED
          BY <5>1, <5>2, <5>3
      <4>3. QED
        BY <4>1, <4>2
    <3>8. h = [i \in 1..m |-> IF i = 1 THEN seqs[i] ELSE h[i - 1] \o seqs[i]]
      BY <3>7
    <3>9. Joins(seqs, m, h)
      BY <3>8 DEF Joins
    <3>10. QED
      BY <2>2, <3>6, <3>9
  <2>5. QED
    BY <2>3, <2>4
<1>2. QED
  BY <1>1

(* FlattenSeq joins. *)
LEMMA FlattenIsJoin ==
  ASSUME NEW S, NEW seqs \in Seq(Seq(S)), Len(seqs) # 0
  PROVE  \E g \in [1..Len(seqs) -> Seq(S)] :
           FlattenSeq(seqs) = g[Len(seqs)] /\ Joins(seqs, Len(seqs), g)
<1> DEFINE n == Len(seqs)
           flatten[i \in 1..n] == IF i = 1 THEN seqs[i] ELSE flatten[i - 1] \o seqs[i]
<1>0. n \in Nat /\ n \in 1..Len(seqs)
  BY LenProperties
<1>1. FlattenSeq(seqs) = flatten[n]
  BY DEF FlattenSeq
<1>2. PICK g \in [1..n -> Seq(S)] : Joins(seqs, n, g)
  <2> HIDE DEF flatten
  <2> QED BY <1>0, JoinExists
<1>3. flatten = [i \in 1..n |-> IF i = 1 THEN seqs[i] ELSE flatten[i - 1] \o seqs[i]]
  BY <1>2, Zenon DEF Joins
<1> HIDE DEF flatten
<1>4. \A i \in 1..n : flatten[i] = g[i]
  <2> DEFINE Differ == {i \in 1..n : flatten[i] # g[i]}
  <2>1. ASSUME Differ # {} PROVE FALSE
    <3>1. PICK m \in Differ : \A k \in Differ : m <= k
      <4>1. Differ \in SUBSET Nat
        BY <1>0
      <4> HIDE DEF Differ
      <4>2. QED
        BY <2>1, <4>1, LeastOf
    <3>2. m \in 1..n /\ flatten[m] # g[m]
      OBVIOUS
    <3>3. m # 1 => m - 1 \in 1..n /\ m - 1 \notin Differ
      BY <1>0, <3>1, <3>2
    <3>4. m # 1 => flatten[m - 1] = g[m - 1]
      BY <3>3
    <3>5. /\ flatten[m] = IF m = 1 THEN seqs[m] ELSE flatten[m - 1] \o seqs[m]
          /\ g[m] = IF m = 1 THEN seqs[m] ELSE g[m - 1] \o seqs[m]
      <4> HIDE DEF Differ, n
      <4>1. flatten[m] = IF m = 1 THEN seqs[m] ELSE flatten[m - 1] \o seqs[m]
        BY <1>3, <3>2
      <4>2. QED
        BY <1>2, <3>2, <4>1 DEF Joins
    <3>6. QED
      BY <3>2, <3>4, <3>5
  <2>2. QED
    BY <2>1
<1>5. QED
  BY <1>0, <1>1, <1>2, <1>4

(* A concatenation shows what its parts show. *)
LEMMA ConcatElements ==
  ASSUME NEW S, NEW s \in Seq(S), NEW t \in Seq(S)
  PROVE  Range(s \o t) = Range(s) \cup Range(t)
<1> DEFINE a == Len(s)
           b == Len(t)
           st == s \o t
<1>1. a \in Nat /\ b \in Nat /\ DOMAIN s = 1..a /\ DOMAIN t = 1..b
  BY LenProperties
<1>2. /\ DOMAIN st = 1..(a + b)
      /\ \A i \in 1..(a + b) : st[i] = IF i <= a THEN s[i] ELSE t[i - a]
  BY ConcatProperties, LenProperties
<1> HIDE DEF a, b, st
<1>3. ASSUME NEW j \in 1..a PROVE \E i \in 1..(a + b) : st[i] = s[j]
  <2>1. j \in 1..(a + b) /\ j <= a
    BY <1>1
  <2>2. QED
    BY <1>2, <2>1
<1>4. ASSUME NEW j \in 1..b PROVE \E i \in 1..(a + b) : st[i] = t[j]
  <2>1. PICK i \in 1..(a + b) : ~(i <= a) /\ i - a = j
    <3>1. a + j \in 1..(a + b) /\ ~(a + j <= a) /\ (a + j) - a = j
      BY <1>1
    <3>2. QED
      BY <3>1
  <2>2. QED
    BY <1>2, <2>1
<1>5. ASSUME NEW i \in 1..(a + b)
      PROVE  (\E j \in 1..a : st[i] = s[j]) \/ (\E j \in 1..b : st[i] = t[j])
  <2>1. (i <= a /\ i \in 1..a) \/ (~(i <= a) /\ i - a \in 1..b)
    BY <1>1
  <2>2. QED
    BY <1>2, <2>1
<1>6. /\ Range(s) = {s[j] : j \in 1..a} /\ Range(t) = {t[j] : j \in 1..b}
      /\ Range(st) = {st[i] : i \in 1..(a + b)}
  BY <1>1, <1>2 DEF Range
<1>7. Range(st) = Range(s) \cup Range(t)
  BY <1>3, <1>4, <1>5, <1>6
<1>8. QED
  BY <1>7 DEF st

(* A flattened sequence shows what the sequences in it show. *)
LEMMA FlattenElements ==
  ASSUME NEW S, NEW seqs \in Seq(Seq(S))
  PROVE  /\ FlattenSeq(seqs) \in Seq(S)
         /\ \A i \in 1..Len(seqs) : Range(seqs[i]) \subseteq Range(FlattenSeq(seqs))
<1>0. Len(seqs) \in Nat /\ \A i \in 1..Len(seqs) : seqs[i] \in Seq(S)
  BY LenProperties, ElementOfSeq
<1>1. CASE Len(seqs) = 0
  <2>1. seqs = <<>>
    BY <1>1, EmptySeq
  <2>2. FlattenSeq(seqs) = <<>>
    BY <1>1, <2>1 DEF FlattenSeq
  <2>3. QED
    BY <1>1, <2>2
<1>2. CASE Len(seqs) # 0
  <2>1. PICK g \in [1..Len(seqs) -> Seq(S)] :
          FlattenSeq(seqs) = g[Len(seqs)] /\ Joins(seqs, Len(seqs), g)
    BY <1>2, FlattenIsJoin
  <2>2. Len(seqs) \in 1..Len(seqs)
    BY <1>0, <1>2
  <2> DEFINE Covers(m) == \A i \in 1..m : Range(seqs[i]) \subseteq Range(g[m])
             Lacks == {m \in 1..Len(seqs) : ~Covers(m)}
  <2>3. ASSUME Lacks # {} PROVE FALSE
    <3> HIDE DEF Covers
    <3>1. PICK m \in Lacks : \A k \in Lacks : m <= k
      <4>1. Lacks \in SUBSET Nat
        BY <1>0
      <4> HIDE DEF Lacks
      <4>2. QED
        BY <2>3, <4>1, LeastOf
    <3>2. m \in 1..Len(seqs) /\ ~Covers(m) /\ m \in Nat
      BY <1>0
    <3>3. g[m] = IF m = 1 THEN seqs[m] ELSE g[m - 1] \o seqs[m]
      BY <2>1, <3>2 DEF Joins
    <3>4. CASE m = 1
      <4>1. \A i \in 1..1 : i = 1
        OBVIOUS
      <4>2. QED
        BY <3>2, <3>3, <3>4, <4>1 DEF Covers
    <3>5. CASE m # 1
      <4>1. m - 1 \in 1..Len(seqs) /\ ~(m <= m - 1)
        BY <1>0, <3>2, <3>5
      <4>2. Covers(m - 1)
        BY <3>1, <4>1
      <4>3. g[m - 1] \in Seq(S) /\ seqs[m] \in Seq(S)
        BY <1>0, <3>2, <4>1
      <4>4. g[m] = g[m - 1] \o seqs[m]
        BY <3>3, <3>5
      <4>5. Range(g[m]) = Range(g[m - 1]) \cup Range(seqs[m])
        BY <4>3, <4>4, ConcatElements
      <4>6. \A i \in 1..m : i = m \/ i \in 1..(m - 1)
        BY <3>2
      <4>7. QED
        BY <3>2, <4>2, <4>5, <4>6 DEF Covers
    <3>6. QED
      BY <3>4, <3>5
  <2>4. Covers(Len(seqs))
    <3> HIDE DEF Covers
    <3>1. QED
      BY <2>2, <2>3
  <2>5. FlattenSeq(seqs) = g[Len(seqs)] /\ g[Len(seqs)] \in Seq(S)
    BY <2>1, <2>2
  <2>6. QED
    BY <2>4, <2>5
<1>3. QED
  BY <1>1, <1>2

(* The elements of a finite set of numbers, by how many are below. *)
LEMMA Ranking ==
  ASSUME NEW kept \in SUBSET Nat, IsFiniteSet(kept)
  PROVE  LET Nth(i) == CHOOSE p \in kept : Cardinality({q \in kept : q < p}) = i - 1
         IN  /\ Cardinality(kept) \in Nat
             /\ \A i \in 1..Cardinality(kept) :
                  Nth(i) \in kept /\ Cardinality({q \in kept : q < Nth(i)}) = i - 1
             /\ \A p \in kept : \E i \in 1..Cardinality(kept) : Nth(i) = p
             /\ \A i, j \in 1..Cardinality(kept) : i < j => Nth(i) < Nth(j)
<1> DEFINE Below(p) == {q \in kept : q < p}
           Rank(p) == Cardinality(Below(p))
           size == Cardinality(kept)
           Nth(i) == CHOOSE p \in kept : Rank(p) = i - 1
<1>1. size \in Nat
  BY FS_CardinalityType
<1>2. ASSUME NEW p \in kept
      PROVE  /\ IsFiniteSet(Below(p)) /\ Rank(p) \in Nat
             /\ Cardinality(Below(p) \cup {p}) = Rank(p) + 1
             /\ Rank(p) + 1 <= size
  <2>1. Below(p) \in SUBSET kept /\ p \notin Below(p) /\ Below(p) \cup {p} \in SUBSET kept
    OBVIOUS
  <2> HIDE DEF Below
  <2>2. IsFiniteSet(Below(p)) /\ Rank(p) \in Nat
    BY <2>1, FS_Subset, FS_CardinalityType
  <2>3. Cardinality(Below(p) \cup {p}) = Rank(p) + 1
    BY <2>1, <2>2, FS_AddElement
  <2>4. Cardinality(Below(p) \cup {p}) <= size
    BY <2>1, FS_Subset
  <2>5. QED
    BY <2>2, <2>3, <2>4
<1>3. ASSUME NEW p \in kept, NEW r \in kept, p < r
      PROVE  Rank(p) < Rank(r)
  <2>1. Below(p) \cup {p} \in SUBSET Below(r)
    <3>1. \A q \in kept : q < p => q < r
      BY <1>3
    <3>2. QED
      BY <1>3, <3>1
  <2> HIDE DEF Below
  <2>2. Cardinality(Below(p) \cup {p}) <= Rank(r)
    BY <1>2, <2>1, FS_Subset
  <2> HIDE DEF Rank
  <2>3. Rank(p) + 1 <= Rank(r) /\ Rank(p) \in Nat /\ Rank(r) \in Nat
    BY <1>2, <2>2
  <2>4. QED
    BY <2>3
<1> HIDE DEF Below, Rank
<1>4. ASSUME NEW p \in kept, NEW r \in kept, p # r PROVE Rank(p) # Rank(r)
  <2>1. p \in Nat /\ r \in Nat /\ (p < r \/ r < p)
    BY <1>4
  <2>2. Rank(p) \in Nat /\ Rank(r) \in Nat
    BY <1>2
  <2>3. Rank(p) < Rank(r) \/ Rank(r) < Rank(p)
    BY <1>3, <2>1
  <2>4. QED
    BY <2>2, <2>3
<1> DEFINE f == [p \in kept |-> Rank(p)]
           ranks == 0..(size - 1)
<1>5. f \in Injection(kept, ranks)
  <2>1. ASSUME NEW p \in kept PROVE Rank(p) \in ranks
    <3>1. Rank(p) \in Nat /\ Rank(p) + 1 <= size /\ size \in Nat
      BY <1>1, <1>2
    <3> HIDE DEF size
    <3>2. QED
      BY <3>1
  <2>2. f \in [kept -> ranks]
    BY <2>1
  <2>3. IsInjective(f)
    BY <1>4 DEF IsInjective
  <2>4. QED
    BY <2>2, <2>3 DEF Injection
<1>6. IsFiniteSet(ranks) /\ Cardinality(ranks) = size
  <2> HIDE DEF size
  <2>1. 0 \in Int /\ size - 1 \in Int
    BY <1>1
  <2>2. /\ IsFiniteSet(ranks)
        /\ Cardinality(ranks) = IF 0 > size - 1 THEN 0 ELSE size - 1 - 0 + 1
    BY <2>1, FS_Interval
  <2>3. QED
    BY <1>1, <2>2
<1>7. f \in Surjection(kept, ranks)
  <2> HIDE DEF f, ranks
  <2>1. QED
    BY <1>5, <1>6, FS_Injection
<1>8. ASSUME NEW i \in 1..size
      PROVE  Nth(i) \in kept /\ Rank(Nth(i)) = i - 1
  <2>1. i - 1 \in ranks
    BY <1>1
  <2>2. \E p \in kept : f[p] = i - 1
    BY <1>7, <2>1 DEF Surjection
  <2>3. \E p \in kept : Rank(p) = i - 1
    BY <2>2
  <2>4. QED
    BY <2>3
<1>9. ASSUME NEW p \in kept PROVE \E i \in 1..size : Nth(i) = p
  <2>0. Rank(p) \in Nat /\ Rank(p) + 1 <= size
    BY <1>2
  <2> DEFINE i == Rank(p) + 1
  <2>1. i \in 1..size /\ i - 1 = Rank(p)
    <3> HIDE DEF size
    <3>1. QED
      BY <1>1, <2>0
  <2> HIDE DEF Nth, i
  <2>2. Nth(i) \in kept /\ Rank(Nth(i)) = Rank(p)
    BY <1>8, <2>1
  <2>3. QED
    BY <1>4, <2>1, <2>2
<1>10. ASSUME NEW i \in 1..size, NEW j \in 1..size, i < j
       PROVE  Nth(i) < Nth(j)
  <2>1. /\ Nth(i) \in kept /\ Rank(Nth(i)) = i - 1
        /\ Nth(j) \in kept /\ Rank(Nth(j)) = j - 1
    BY <1>8
  <2> HIDE DEF Nth
  <2>2. i \in Nat /\ j \in Nat /\ Nth(i) \in Nat /\ Nth(j) \in Nat
    <3> HIDE DEF size
    <3>1. i \in Nat /\ j \in Nat
      BY <1>1
    <3>2. Nth(i) \in Nat /\ Nth(j) \in Nat
      BY <2>1
    <3>3. QED
      BY <3>1, <3>2
  <2>3. Nth(j) < Nth(i) => j - 1 < i - 1
    BY <1>3, <2>1
  <2>4. Nth(j) = Nth(i) => j = i
    BY <2>1, <2>2
  <2>5. QED
    BY <1>10, <2>2, <2>3, <2>4
<1>11. QED
  BY <1>1, <1>8, <1>9, <1>10 DEF Below, Rank, Nth

(* The sequence made of a finite set shows all its elements. *)
LEMMA SetToSeqElements ==
  ASSUME NEW S, IsFiniteSet(S)
  PROVE  /\ SetToSeq(S) \in Seq(S)
         /\ \A x \in S : \E i \in DOMAIN SetToSeq(S) : SetToSeq(S)[i] = x
<1> DEFINE n == Cardinality(S)
           f == SetToSeq(S)
<1>1. n \in Nat /\ ExistsBijection(1..n, S)
  BY FS_CardinalityType
<1>2. \E g \in [1..n -> S] : IsInjective(g)
  BY <1>1 DEF ExistsBijection, Bijection, Injection
<1>3. f \in [1..n -> S] /\ IsInjective(f)
  BY <1>2 DEF SetToSeq
<1> HIDE DEF f
<1>4. f \in Seq(S)
  BY <1>1, <1>3
<1>5. f \in Injection(1..n, S)
  BY <1>3 DEF Injection
<1>6. Cardinality(1..n) = n
  BY <1>1, FS_Interval
<1>7. f \in Surjection(1..n, S)
  BY <1>5, <1>6, FS_Injection
<1>8. QED
  BY <1>3, <1>4, <1>7 DEF Surjection, f

-----------------------------------------------------------------------------
(* What an entry sets comes first. *)
LEMMA MergedValues ==
  ASSUME NEW defaults, NEW raw
  PROVE  /\ DOMAIN Merged(defaults, raw) = DOMAIN defaults \cup DOMAIN raw
         /\ \A k \in DOMAIN raw : Merged(defaults, raw)[k] = raw[k]
         /\ \A k \in DOMAIN defaults \ DOMAIN raw : Merged(defaults, raw)[k] = defaults[k]
BY DEF Merged

(* The fields of a target that decide on its command line, when not set. *)
LEMMA Defaults ==
  /\ {"host", "file", "verify", "cafile", "capath", "timeout", "connect_timeout",
      "read_timeout", "retries", "require_revocation_check", "profile"} \subseteq TargetKeys
  /\ DefaultTarget["host"] = None /\ DefaultTarget["file"] = None
  /\ DefaultTarget["verify"] = TRUE
  /\ DefaultTarget["cafile"] = None /\ DefaultTarget["capath"] = None
  /\ DefaultTarget["require_revocation_check"] = FALSE
  /\ DefaultTarget["timeout"] = 5 /\ DefaultTarget["retries"] = 0
  /\ DefaultTarget["connect_timeout"] = None /\ DefaultTarget["read_timeout"] = None
  /\ DefaultTarget["profile"] = None
BY DEF DefaultTarget, TargetKeys

(* A target that certinspect takes, but for the known gap, and for which    *)
(* the limit is right.                                                      *)
Runs(t) ==
    DOMAIN t = TargetKeys /\ Timed(t) /\ (Takes(Command(t)) \/ HalfVerified(t))

(* Every option that needs the chain verified is off when `verify` is False,*)
(* and there is a profile of that name.                                     *)
Consistent(t) ==
    /\ t["verify"] \in BOOLEAN \cup {None}
    /\ t["verify"] = FALSE => \A k \in NeedsVerifyKeys : ~Truthy(t[k])
    /\ t["profile"] \in ValidProfiles \cup {None}

(* Then certinspect takes the command line (build_command leaves out what   *)
(* does not apply), unless `verify` is neither True nor False.              *)
LEMMA CommandTaken ==
  ASSUME NEW t, Consistent(t), ~HalfVerified(t)
  PROVE  Takes(Command(t))
<1>0. /\ t["verify"] \in BOOLEAN \cup {None}
      /\ t["verify"] = FALSE => \A k \in NeedsVerifyKeys : ~Truthy(t[k])
      /\ t["profile"] \in ValidProfiles \cup {None}
  BY DEF Consistent
<1> DEFINE given == Options(t)
<1>1. /\ Command(t).source = SourceOf(t)
      /\ Command(t).options =
           [k \in given |-> IF k = "verify" THEN Truthy(t[k]) ELSE t[k]]
  BY DEF Command
<1>2. SourceOf(t) = "file" => given \cap HostOnlyKeys = {}
  <2>1. SourceOf(t) = "file" => t.file # None
    BY DEF SourceOf
  <2>2. QED
    BY <2>1 DEF Options, HostOnlyKeys
<1>3. "verify" \in given
  BY DEF Options
<1>4. ~Truthy(t["verify"]) => given \cap {"cafile", "capath", "require_revocation_check"} = {}
  <2>1. /\ "cafile" \in given => Truthy(t["cafile"])
        /\ "capath" \in given => Truthy(t["capath"])
        /\ "require_revocation_check" \in given => Truthy(t["require_revocation_check"])
    BY DEF Options
  <2>2. ~Truthy(t["verify"]) => t["verify"] = None \/ t["verify"] = FALSE
    BY DEF Truthy
  <2>3. t["verify"] = None => \A k \in NeedsVerifyKeys : ~Truthy(t[k])
    BY DEF HalfVerified
  <2>4. ~Truthy(t["verify"]) => \A k \in NeedsVerifyKeys : ~Truthy(t[k])
    BY <1>0, <2>2, <2>3
  <2>5. QED
    BY <2>1, <2>4 DEF NeedsVerifyKeys
<1>5. ~({"cab_forum", "not_after_max"} \subseteq given)
  <2>1. "cab_forum" \in given => Truthy(t.cab_forum)
    BY DEF Options
  <2>2. "not_after_max" \in given => ~Truthy(t.cab_forum)
    BY DEF Options
  <2>3. QED
    BY <2>1, <2>2
<1>6. "profile" \in given => t["profile"] \in ValidProfiles
  <2>1. "profile" \in given => t["profile"] # None
    BY DEF Options
  <2>2. QED
    BY <1>0, <2>1
<1> HIDE DEF given
<1>7. /\ DOMAIN Command(t).options = given
      /\ Command(t).options.verify = Truthy(t["verify"])
      /\ "profile" \in given => Command(t).options.profile = t["profile"]
  BY <1>1, <1>3
<1>8. QED
  BY <1>1, <1>2, <1>4, <1>5, <1>6, <1>7 DEF Takes

(* The types of settings survive a merge. *)
LEMMA MergedTyped ==
  ASSUME NEW defaults, NEW raw, Typed(defaults), Typed(raw)
  PROVE  Typed(Merged(defaults, raw))
<1> DEFINE merged == Merged(defaults, raw)
<1>0. /\ DOMAIN merged = DOMAIN defaults \cup DOMAIN raw
      /\ \A k \in DOMAIN raw : merged[k] = raw[k]
      /\ \A k \in DOMAIN defaults \ DOMAIN raw : merged[k] = defaults[k]
  BY MergedValues
<1> HIDE DEF merged
<1>1. ASSUME NEW k \in DOMAIN merged
      PROVE  \/ k \in DOMAIN raw /\ merged[k] = raw[k]
             \/ k \in DOMAIN defaults /\ merged[k] = defaults[k]
  BY <1>0
<1>2. ASSUME NEW k \in DOMAIN merged \cap {"timeout", "retries"}
      PROVE  merged[k] \in Nat
  BY <1>1 DEF Typed
<1>3. ASSUME NEW k \in DOMAIN merged \cap {"connect_timeout", "read_timeout"}
      PROVE  merged[k] \in Nat \cup {None}
  BY <1>1 DEF Typed
<1>4. ASSUME NEW k \in DOMAIN merged \cap {"verify"}
      PROVE  merged[k] \in BOOLEAN \cup {None}
  <2>1. CASE k \in DOMAIN raw /\ merged[k] = raw[k]
    <3>1. raw[k] \in BOOLEAN \cup {None}
      BY <2>1 DEF Typed
    <3>2. QED
      BY <2>1, <3>1
  <2>2. CASE k \in DOMAIN defaults /\ merged[k] = defaults[k]
    <3>1. defaults[k] \in BOOLEAN \cup {None}
      BY <2>2 DEF Typed
    <3>2. QED
      BY <2>2, <3>1
  <2>3. QED
    BY <1>1, <2>1, <2>2
<1>5. Typed(merged)
  BY <1>2, <1>3, <1>4 DEF Typed
<1>6. QED
  BY <1>5 DEF merged

(* What a target may be made of: its own settings over its defaults. *)
Admitted(merged) ==
    DOMAIN merged \subseteq TargetKeys /\ Typed(merged) /\ ValidPolicy(merged)

(* Settings that pass _validate_policy_keys make a target that runs. *)
LEMMA AdmittedRuns ==
  ASSUME NEW merged, Admitted(merged)
  PROVE  Runs(Merged(DefaultTarget, merged))
<1> DEFINE t == Merged(DefaultTarget, merged)
<1>1. /\ DOMAIN t = TargetKeys
      /\ \A k \in DOMAIN merged : t[k] = merged[k]
      /\ \A k \in TargetKeys \ DOMAIN merged : t[k] = DefaultTarget[k]
  BY MergedValues DEF Admitted, TargetKeys
<1> HIDE DEF t
<1>2. t["timeout"] \in Nat /\ t["retries"] \in Nat
  BY <1>1, Defaults DEF Admitted, Typed
<1>3. t["connect_timeout"] \in Nat \cup {None} /\ t["read_timeout"] \in Nat \cup {None}
  BY <1>1, Defaults DEF Admitted, Typed
<1>4. t["verify"] \in BOOLEAN \cup {None}
  <2>1. CASE "verify" \in DOMAIN merged
    <3>1. merged["verify"] \in BOOLEAN \cup {None}
      BY <2>1 DEF Admitted, Typed
    <3>2. QED
      BY <1>1, <2>1, <3>1
  <2>2. CASE "verify" \notin DOMAIN merged
    BY <1>1, <2>2, Defaults
  <2>3. QED
    BY <2>1, <2>2
<1>5. ValidPolicy(merged)
  BY DEF Admitted
<1>6. ASSUME t["verify"] = FALSE, NEW k \in NeedsVerifyKeys
      PROVE  ~Truthy(t[k])
  <2>1. "verify" \in DOMAIN merged /\ merged["verify"] = FALSE
    BY <1>1, <1>6, Defaults
  <2>2. Value(merged, "verify") = FALSE
    BY <2>1 DEF Value
  <2>3. ~Truthy(Value(merged, k))
    BY <1>5, <2>2 DEF ValidPolicy
  <2>4. CASE k \in DOMAIN merged
    BY <1>1, <2>3, <2>4 DEF Value
  <2>5. CASE k \notin DOMAIN merged
    <3>1. t[k] = DefaultTarget[k]
      BY <1>1, <2>5, Defaults DEF NeedsVerifyKeys
    <3>2. DefaultTarget[k] = None \/ DefaultTarget[k] = FALSE
      BY Defaults DEF NeedsVerifyKeys
    <3>3. QED
      BY <3>1, <3>2 DEF Truthy
  <2>6. QED
    BY <2>4, <2>5
<1>7. t["profile"] \in ValidProfiles \cup {None}
  <2>1. Value(merged, "profile") \in ValidProfiles \cup {None}
    BY <1>5 DEF ValidPolicy
  <2>2. QED
    BY <1>1, <2>1, Defaults DEF Value
<1>8. Takes(Command(t)) \/ HalfVerified(t)
  BY <1>4, <1>6, <1>7, CommandTaken DEF Consistent
<1>9. Timed(t)
  BY <1>2, <1>3, <1>4 DEF Timed
<1>10. QED
  BY <1>1, <1>8, <1>9 DEF Runs, t

(* The targets of `certminder check` run without any validation. *)
LEMMA CommandLineRuns ==
  ASSUME NEW verify \in BOOLEAN, NEW host, NEW file, NEW port, NEW starttls
  PROVE  /\ Runs([DefaultTarget EXCEPT !.file = file, !.verify = verify])
         /\ Runs([DefaultTarget EXCEPT !.host = host, !.port = port,
                    !.verify = verify, !.starttls = starttls])
<1>1. ASSUME NEW t, DOMAIN t = TargetKeys, t["verify"] \in BOOLEAN,
             \A k \in {"cafile", "capath", "timeout", "connect_timeout", "read_timeout",
                       "retries", "require_revocation_check", "profile"} :
                t[k] = DefaultTarget[k]
      PROVE  Runs(t)
  <2>1. Timed(t)
    BY <1>1, Defaults DEF Timed
  <2>2. \A k \in NeedsVerifyKeys : ~Truthy(t[k])
    BY <1>1, Defaults DEF NeedsVerifyKeys, Truthy
  <2>3. t["profile"] = None
    BY <1>1, Defaults
  <2>4. ~HalfVerified(t)
    BY <2>2 DEF HalfVerified
  <2>5. Takes(Command(t))
    BY <1>1, <2>2, <2>3, <2>4, CommandTaken DEF Consistent
  <2>6. QED
    BY <1>1, <2>1, <2>5 DEF Runs
<1> DEFINE t == [DefaultTarget EXCEPT !.file = file, !.verify = verify]
           u == [DefaultTarget EXCEPT !.host = host, !.port = port,
                    !.verify = verify, !.starttls = starttls]
           kept == {"cafile", "capath", "timeout", "connect_timeout", "read_timeout",
                    "retries", "require_revocation_check", "profile"}
<1>2. DefaultTarget \in [TargetKeys -> {DefaultTarget[k] : k \in TargetKeys}]
  BY DEF DefaultTarget, TargetKeys
<1>3. /\ DOMAIN t = TargetKeys /\ t["verify"] = verify
      /\ \A k \in kept : t[k] = DefaultTarget[k]
  BY <1>2, Defaults DEF DefaultTarget, TargetKeys
<1>4. /\ DOMAIN u = TargetKeys /\ u["verify"] = verify
      /\ \A k \in kept : u[k] = DefaultTarget[k]
  BY <1>2, Defaults DEF DefaultTarget, TargetKeys
<1>5. t["verify"] \in BOOLEAN /\ u["verify"] \in BOOLEAN
  BY <1>3, <1>4
<1> HIDE DEF t, u
<1>6. Runs(t) /\ Runs(u)
  BY <1>1, <1>3, <1>4, <1>5
<1>7. QED
  BY <1>6 DEF t, u

(* A sequence is one of its own elements. *)
LEMMA Elements ==
  ASSUME NEW S, NEW s \in Seq(S)
  PROVE  /\ IsSequence(s) /\ Range(s) \subseteq S
         /\ Len(s) \in Nat /\ DOMAIN s = 1..Len(s)
<1>1. Len(s) \in Nat /\ DOMAIN s = 1..Len(s) /\ \A i \in 1..Len(s) : s[i] \in S
  BY LenProperties, ElementOfSeq
<1>2. s \in [1..Len(s) -> Range(s)] /\ Range(s) \subseteq S
  BY <1>1 DEF Range
<1>3. s \in Seq(Range(s))
  BY <1>1, <1>2
<1>4. QED
  BY <1>1, <1>2, <1>3 DEF IsSequence

(* A concatenation is a sequence of what is in its parts. *)
LEMMA Concatenation ==
  ASSUME NEW s, NEW t, IsSequence(s), IsSequence(t)
  PROVE  IsSequence(s \o t) /\ Range(s \o t) = Range(s) \cup Range(t)
<1> DEFINE S == Range(s) \cup Range(t)
<1>1. s \in Seq(S) /\ t \in Seq(S)
  <2>1. s \in Seq(Range(s)) /\ t \in Seq(Range(t))
    BY DEF IsSequence
  <2>2. /\ Len(s) \in Nat /\ DOMAIN s = 1..Len(s) /\ \A i \in 1..Len(s) : s[i] \in S
        /\ Len(t) \in Nat /\ DOMAIN t = 1..Len(t) /\ \A i \in 1..Len(t) : t[i] \in S
    BY <2>1, LenProperties, ElementOfSeq
  <2>3. s \in [1..Len(s) -> S] /\ t \in [1..Len(t) -> S]
    <3> HIDE DEF S
    <3>1. s = [i \in 1..Len(s) |-> s[i]] /\ t = [i \in 1..Len(t) |-> t[i]]
      BY <2>1, LenProperties
    <3>2. QED
      BY <2>2, <3>1
  <2> HIDE DEF S
  <2>4. QED
    BY <2>2, <2>3
<1> HIDE DEF S
<1>2. Range(s \o t) = Range(s) \cup Range(t)
  BY <1>1, ConcatElements
<1>3. s \o t \in Seq(S)
  BY <1>1, ConcatProperties
<1>4. QED
  BY <1>2, <1>3, Elements

-----------------------------------------------------------------------------
(* The settings validation looks at. *)
PolicyKeys == {"cab_forum", "not_after_max", "verify", "profile", "expect"} \cup NeedsVerifyKeys

(* _validate_policy_keys looks at nothing else. *)
LEMMA PolicyOnly ==
  ASSUME NEW a, NEW b, ValidPolicy(a), \A k \in PolicyKeys : Value(a, k) = Value(b, k)
  PROVE  ValidPolicy(b)
BY DEF ValidPolicy, PolicyKeys

(* What load_config promises run_once: targets that run, sources whose      *)
(* settings make targets that run, and the ranges of the numbers.           *)
Fits(c) ==
    /\ IsSequence(c.targets) /\ \A t \in Range(c.targets) : Runs(t)
    /\ IsSequence(c.sources)
    /\ \A s \in DOMAIN c.sources : Admitted(c.sources[s].settings)
    /\ c.concurrency \in Nat \ {0}
    /\ c.threshold \in Nat \ {0}
    /\ c.renotify \in Int \cup {None}

(* A target that _build_target accepts runs. *)
LEMMA ValidTargetRuns ==
  ASSUME NEW raw, NEW defaults, Typed(raw), Typed(defaults), ValidTarget(raw, defaults)
  PROVE  Runs(Target(raw, defaults))
<1>1. Admitted(Merged(defaults, raw))
  BY MergedTyped DEF ValidTarget, Admitted
<1>2. QED
  BY <1>1, AdmittedRuns DEF Target

(* What a source keeps for its targets is what validation saw, without the  *)
(* settings of the query.                                                   *)
LEMMA ValidSourceAdmits ==
  ASSUME NEW raw, NEW defaults, Typed(raw), Typed(defaults), ValidSource(raw, defaults)
  PROVE  Admitted(Source(raw, defaults).settings)
<1> DEFINE merged == Merged(defaults, raw)
           kept == [k \in DOMAIN merged \ SourceKeys |-> merged[k]]
<1>1. /\ DOMAIN merged \ SourceKeys \subseteq TargetKeys
      /\ ValidPolicy(merged)
  BY DEF ValidSource
<1>2. Typed(merged)
  BY MergedTyped
<1>3. Source(raw, defaults).settings = kept
  BY DEF Source
<1> HIDE DEF merged
<1>4. Typed(kept)
  <2>1. DOMAIN kept \subseteq DOMAIN merged /\ \A k \in DOMAIN kept : kept[k] = merged[k]
    OBVIOUS
  <2> HIDE DEF kept
  <2>2. ASSUME NEW k \in DOMAIN kept \cap {"verify"} PROVE kept[k] \in BOOLEAN \cup {None}
    <3>1. kept[k] = merged[k] /\ merged[k] \in BOOLEAN \cup {None}
      BY <1>2, <2>1 DEF Typed
    <3>2. QED
      BY <3>1
  <2>3. QED
    BY <1>2, <2>1, <2>2 DEF Typed
<1>5. \A k \in PolicyKeys : k \notin SourceKeys
  BY DEF PolicyKeys, SourceKeys, NeedsVerifyKeys
<1>6. \A k \in PolicyKeys : Value(merged, k) = Value(kept, k)
  BY <1>5 DEF Value
<1>7. DOMAIN kept \subseteq TargetKeys
  BY <1>1
<1> HIDE DEF kept
<1>8. ValidPolicy(kept)
  BY <1>1, <1>6, PolicyOnly
<1>9. QED
  BY <1>3, <1>4, <1>7, <1>8 DEF Admitted

(* A target found by discovery runs (resolve_discovered_targets). *)
LEMMA FoundRuns ==
  ASSUME NEW settings, Admitted(settings), NEW h
  PROVE  Runs(Target([host |-> h], settings))
<1> DEFINE entry == [host |-> h]
           merged == Merged(settings, entry)
<1>1. DOMAIN entry = {"host"} /\ entry["host"] = h
  OBVIOUS
<1>2. Typed(entry)
  BY <1>1 DEF Typed
<1>3. Typed(merged)
  BY <1>2, MergedTyped DEF Admitted
<1>4. /\ DOMAIN merged = DOMAIN settings \cup {"host"}
      /\ \A k \in DOMAIN settings \ {"host"} : merged[k] = settings[k]
  BY <1>1, MergedValues
<1> HIDE DEF merged
<1>5. DOMAIN merged \subseteq TargetKeys
  BY <1>4, Defaults DEF Admitted
<1>6. \A k \in PolicyKeys : Value(settings, k) = Value(merged, k)
  BY <1>4 DEF Value, PolicyKeys, NeedsVerifyKeys
<1>7. ValidPolicy(merged)
  BY <1>6, PolicyOnly DEF Admitted
<1>8. Admitted(merged)
  BY <1>3, <1>5, <1>7 DEF Admitted
<1>9. QED
  BY <1>8, AdmittedRuns DEF Target, merged

(* The configuration of a document that load_config accepts fits: the       *)
(* entries of the list and of the groups become targets that run.           *)
LEMMA LoadedFits ==
  ASSUME NEW doc, TypedFile(doc), Valid(doc)
  PROVE  Fits(Loaded(doc))
<1> DEFINE own       == [i \in DOMAIN doc.targets |-> Target(doc.targets[i], doc.defaults)]
           Of(g)     == GroupTargets(doc.groups[g], doc)
           groups    == [g \in DOMAIN doc.groups |-> Of(g)]
           grouped   == UNION {Range(Of(g)) : g \in DOMAIN doc.groups}
           sources   == [i \in DOMAIN doc.discover |-> Source(doc.discover[i], doc.defaults)]
<1>1. /\ Len(doc.targets) \in Nat /\ DOMAIN doc.targets = 1..Len(doc.targets)
      /\ Len(doc.groups) \in Nat /\ DOMAIN doc.groups = 1..Len(doc.groups)
      /\ Len(doc.discover) \in Nat /\ DOMAIN doc.discover = 1..Len(doc.discover)
  BY Elements DEF TypedFile, IsSequence
<1>2. IsSequence(own) /\ \A t \in Range(own) : Runs(t)
  <2>1. ASSUME NEW i \in DOMAIN doc.targets
        PROVE  Runs(Target(doc.targets[i], doc.defaults))
    <3>1. Typed(doc.targets[i]) /\ Typed(doc.defaults)
      BY DEF TypedFile, Range
    <3>2. ValidTarget(doc.targets[i], doc.defaults)
      BY DEF Valid
    <3>3. QED
      BY <3>1, <3>2, ValidTargetRuns
  <2>2. own \in [1..Len(doc.targets) -> Range(own)]
    BY <1>1 DEF Range
  <2>3. own \in Seq(Range(own))
    <3> HIDE DEF own
    <3>1. QED
      BY <1>1, <2>2
  <2>4. QED
    BY <2>1, <2>3 DEF IsSequence, Range
<1>3. ASSUME NEW g \in DOMAIN doc.groups
      PROVE  IsSequence(Of(g)) /\ \A t \in Range(Of(g)) : Runs(t)
  <2> DEFINE group == doc.groups[g]
             of    == GroupTargets(group, doc)
  <2>1. /\ IsSequence(group.targets)
        /\ \A entry \in Range(group.targets) \cup {group.settings} : Typed(entry)
    BY DEF TypedFile, Range
  <2>2. Len(group.targets) \in Nat /\ DOMAIN group.targets = 1..Len(group.targets)
    BY <2>1, Elements DEF IsSequence
  <2>3. Typed(GroupDefaults(group, doc))
    BY <2>1, MergedTyped DEF GroupDefaults, TypedFile
  <2>4. of = [i \in DOMAIN group.targets |->
                Target(group.targets[i], GroupDefaults(group, doc))]
    BY DEF GroupTargets
  <2>5. ASSUME NEW i \in DOMAIN group.targets
        PROVE  Runs(Target(group.targets[i], GroupDefaults(group, doc)))
    <3>1. Typed(group.targets[i])
      BY <2>1 DEF Range
    <3>2. ValidTarget(group.targets[i], GroupDefaults(group, doc))
      BY DEF Valid
    <3>3. QED
      BY <2>3, <3>1, <3>2, ValidTargetRuns
  <2>6. of \in [1..Len(group.targets) -> Range(of)]
    BY <2>2, <2>4 DEF Range
  <2> HIDE DEF of, group
  <2>7. of \in Seq(Range(of))
    BY <2>2, <2>6
  <2>8. \A t \in Range(of) : Runs(t)
    BY <2>4, <2>5 DEF Range
  <2>9. QED
    BY <2>7, <2>8 DEF IsSequence, of, group
<1>4. IsSequence(FlattenSeq(groups)) /\ \A t \in Range(FlattenSeq(groups)) : Runs(t)
  <2> HIDE DEF Of
  <2>1. ASSUME NEW g \in DOMAIN doc.groups PROVE Of(g) \in Seq(grouped)
    <3>1. Of(g) \in Seq(Range(Of(g))) /\ Range(Of(g)) \subseteq grouped
      BY <1>3 DEF IsSequence
    <3> HIDE DEF grouped
    <3>2. QED
      BY <3>1
  <2>2. groups \in [1..Len(doc.groups) -> Seq(grouped)]
    BY <1>1, <2>1
  <2> HIDE DEF groups
  <2>3. groups \in Seq(Seq(grouped))
    BY <1>1, <2>2
  <2>4. FlattenSeq(groups) \in Seq(grouped)
    BY <2>3, FlattenElements
  <2>5. IsSequence(FlattenSeq(groups)) /\ Range(FlattenSeq(groups)) \subseteq grouped
    BY <2>4, Elements
  <2>6. \A t \in grouped : Runs(t)
    BY <1>3
  <2>7. QED
    BY <2>5, <2>6
<1>5. IsSequence(sources) /\ \A s \in DOMAIN sources : Admitted(sources[s].settings)
  <2>1. ASSUME NEW i \in DOMAIN doc.discover
        PROVE  Admitted(Source(doc.discover[i], doc.defaults).settings)
    <3>1. Typed(doc.discover[i]) /\ Typed(doc.defaults)
      BY DEF TypedFile, Range
    <3>2. ValidSource(doc.discover[i], doc.defaults)
      BY DEF Valid
    <3>3. QED
      BY <3>1, <3>2, ValidSourceAdmits
  <2>2. sources \in [1..Len(doc.discover) -> Range(sources)]
    BY <1>1 DEF Range
  <2>3. sources \in Seq(Range(sources))
    <3> HIDE DEF sources
    <3>1. QED
      BY <1>1, <2>2
  <2>4. QED
    BY <2>1, <2>3 DEF IsSequence
<1>6. /\ doc.concurrency \in Nat \ {0}
      /\ (IF doc.threshold >= 1 THEN doc.threshold ELSE 1) \in Nat \ {0}
      /\ (IF doc.renotify = 0 THEN None ELSE doc.renotify) \in Int \cup {None}
  BY DEF TypedFile, Valid
<1>7. Loaded(doc) = [targets     |-> own \o FlattenSeq(groups),
                     sources     |-> sources,
                     concurrency |-> doc.concurrency,
                     threshold   |-> IF doc.threshold >= 1 THEN doc.threshold ELSE 1,
                     renotify    |-> IF doc.renotify = 0 THEN None ELSE doc.renotify]
  BY DEF Loaded
<1> HIDE DEF own, groups, sources
<1>8. /\ IsSequence(own \o FlattenSeq(groups))
      /\ \A t \in Range(own \o FlattenSeq(groups)) : Runs(t)
  BY <1>2, <1>4, Concatenation
<1>9. QED
  BY <1>5, <1>6, <1>7, <1>8 DEF Fits

(* What the queries found: for each host in an inventory the target made of *)
(* it, and nothing else (resolve_discovered_targets).                       *)
LEMMA FoundElements ==
  ASSUME NEW sources, NEW given, IsSequence(sources), DOMAIN given = DOMAIN sources,
         \A s \in DOMAIN given : given[s] \in Answers
  PROVE  LET found == Found(sources, given)
         IN  /\ IsSequence(found)
             /\ \A t \in Range(found) : \E s \in DOMAIN sources, h \in Hosts :
                   t = Target([host |-> h], sources[s].settings)
             /\ \A s \in DOMAIN sources : ~Failed(given[s]) =>
                   \A h \in (UNION given[s].inventory) \cap Hosts :
                      Target([host |-> h], sources[s].settings) \in Range(found)
<1> DEFINE Made(s, h) == Target([host |-> h], sources[s].settings)
           made     == UNION {{Made(s, h) : h \in Hosts} : s \in DOMAIN sources}
           Of(s)    == FoundBy(sources[s], given[s])
           lists    == [s \in DOMAIN sources |-> Of(s)]
<1>1. Len(sources) \in Nat /\ DOMAIN sources = 1..Len(sources)
  BY Elements DEF IsSequence
<1>2. ASSUME NEW s \in DOMAIN sources, NEW h \in Hosts PROVE Made(s, h) \in made
  OBVIOUS
<1>3. ASSUME NEW t \in made PROVE \E s \in DOMAIN sources, h \in Hosts : t = Made(s, h)
  <2> HIDE DEF Made
  <2>1. QED
    OBVIOUS
<1> HIDE DEF made
<1>4. ASSUME NEW s \in DOMAIN sources
      PROVE  /\ Of(s) \in Seq(made)
             /\ ~Failed(given[s]) =>
                  \A h \in (UNION given[s].inventory) \cap Hosts : Made(s, h) \in Range(Of(s))
  <2>1. CASE Failed(given[s])
    <3>1. Of(s) = <<>>
      BY <2>1 DEF FoundBy
    <3>2. QED
      BY <2>1, <3>1
  <2>2. CASE ~Failed(given[s])
    <3> DEFINE hosts == (UNION given[s].inventory) \cap Hosts
               names == SetToSeq(hosts)
               of    == [i \in DOMAIN names |-> Made(s, names[i])]
    <3>1. IsFiniteSet(hosts)
      BY InspectionAssumption, FS_Subset
    <3>2. Of(s) = of
      BY <2>2 DEF FoundBy, Hostnames
    <3>3. hosts \subseteq Hosts
      OBVIOUS
    <3> HIDE DEF hosts
    <3>4. names \in Seq(hosts) /\ \A h \in hosts : \E i \in DOMAIN names : names[i] = h
      BY <3>1, SetToSeqElements
    <3> HIDE DEF names
    <3>5. Len(names) \in Nat /\ DOMAIN names = 1..Len(names) /\ Range(names) \subseteq hosts
      BY <3>4, Elements
    <3>6. \A i \in DOMAIN names : names[i] \in hosts
      BY <3>5 DEF Range
    <3> HIDE DEF Made
    <3>7. of \in [1..Len(names) -> made]
      BY <1>2, <3>3, <3>5, <3>6
    <3>8. \A h \in hosts : Made(s, h) \in Range(of)
      BY <3>4 DEF Range
    <3> HIDE DEF of, Of
    <3>9. of \in Seq(made)
      BY <3>5, <3>7
    <3>10. QED
      BY <3>2, <3>8, <3>9 DEF hosts
  <2>3. QED
    BY <2>1, <2>2
<1> HIDE DEF Of, Made
<1>5. lists \in [1..Len(sources) -> Seq(made)]
  BY <1>1, <1>4
<1>6. \A s \in DOMAIN sources : lists[s] = Of(s)
  OBVIOUS
<1>7. Found(sources, given) = FlattenSeq(lists)
  BY DEF Found, Of
<1> HIDE DEF lists
<1>8. lists \in Seq(Seq(made)) /\ Len(lists) = Len(sources)
  BY <1>1, <1>5
<1>9. /\ FlattenSeq(lists) \in Seq(made)
      /\ \A s \in 1..Len(lists) : Range(lists[s]) \subseteq Range(FlattenSeq(lists))
  BY <1>8, FlattenElements
<1>10. IsSequence(FlattenSeq(lists)) /\ Range(FlattenSeq(lists)) \subseteq made
  BY <1>9, Elements
<1>11. \A t \in Range(FlattenSeq(lists)) :
          \E s \in DOMAIN sources, h \in Hosts : t = Made(s, h)
  BY <1>3, <1>10
<1>12. \A s \in DOMAIN sources : ~Failed(given[s]) =>
          \A h \in (UNION given[s].inventory) \cap Hosts :
             Made(s, h) \in Range(FlattenSeq(lists))
  BY <1>1, <1>4, <1>6, <1>8, <1>9
<1>13. QED
  BY <1>7, <1>10, <1>11, <1>12 DEF Made

(* The list of a cycle, position by position: only targets from the two     *)
(* lists, every name of either, and none twice except among the configured  *)
(* ones (_all_targets).                                                     *)
LEMMA AllTargetsLists ==
  ASSUME NEW targets, NEW found, IsSequence(targets), IsSequence(found)
  PROVE  LET all == AllTargets(targets, found)
         IN  /\ DOMAIN all \subseteq Nat
             /\ \A p \in DOMAIN all : all[p] \in Range(targets) \cup Range(found)
             /\ \A t \in Range(targets) \cup Range(found) :
                   \E p \in DOMAIN all : NameOf(all[p]) = NameOf(t)
             /\ \A p, q \in DOMAIN all :
                   p < q /\ q > Len(targets) => NameOf(all[p]) # NameOf(all[q])
<1> DEFINE both     == targets \o found
           First(p) == \A q \in 1..(p - 1) : NameOf(both[q]) # NameOf(both[p])
           kept     == {p \in DOMAIN both : p <= Len(targets) \/ First(p)}
           size     == Cardinality(kept)
           Nth(i)   == CHOOSE p \in kept : Cardinality({q \in kept : q < p}) = i - 1
           all      == [i \in 1..size |-> both[Nth(i)]]
<1>1. AllTargets(targets, found) = all
  BY DEF AllTargets
<1>2. /\ Len(targets) \in Nat /\ DOMAIN targets = 1..Len(targets)
      /\ Len(found) \in Nat /\ DOMAIN found = 1..Len(found)
  BY Elements DEF IsSequence
<1>3. IsSequence(both) /\ Range(both) = Range(targets) \cup Range(found)
  BY Concatenation
<1>4. DOMAIN both = 1..(Len(targets) + Len(found))
  BY ConcatProperties, LenProperties DEF IsSequence
<1> HIDE DEF both, First
<1>5. kept \in SUBSET Nat /\ IsFiniteSet(kept)
  <2>1. kept \in SUBSET (1..(Len(targets) + Len(found)))
    BY <1>4
  <2> HIDE DEF kept
  <2>2. IsFiniteSet(1..(Len(targets) + Len(found)))
    BY <1>2, FS_Interval
  <2>3. 1..(Len(targets) + Len(found)) \in SUBSET Nat
    BY <1>2
  <2>4. kept \in SUBSET Nat
    BY <2>1, <2>3
  <2>5. IsFiniteSet(kept)
    BY <2>1, <2>2, FS_Subset
  <2>6. QED
    BY <2>4, <2>5
<1>6. \A p \in kept : p \in DOMAIN both /\ (p <= Len(targets) \/ First(p))
  OBVIOUS
<1>7. \A p \in DOMAIN both : p <= Len(targets) \/ First(p) => p \in kept
  OBVIOUS
<1>8. 1..Len(targets) \subseteq kept
  BY <1>2, <1>4, <1>7
<1> HIDE DEF kept
<1>9. /\ size \in Nat
      /\ \A i \in 1..size : Nth(i) \in kept /\ Cardinality({q \in kept : q < Nth(i)}) = i - 1
      /\ \A p \in kept : \E i \in 1..size : Nth(i) = p
      /\ \A i, j \in 1..size : i < j => Nth(i) < Nth(j)
  BY <1>5, Ranking
<1> HIDE DEF size, Nth
<1>10. DOMAIN all = 1..size /\ \A p \in 1..size : all[p] = both[Nth(p)]
  OBVIOUS
<1> HIDE DEF all
<1>11. DOMAIN all \subseteq Nat
  BY <1>9, <1>10
<1>12. ASSUME NEW p \in DOMAIN all
       PROVE  all[p] \in Range(targets) \cup Range(found)
  <2>1. Nth(p) \in DOMAIN both /\ all[p] = both[Nth(p)]
    BY <1>6, <1>9, <1>10
  <2>2. QED
    BY <1>3, <2>1 DEF Range
<1>13. ASSUME NEW t \in Range(targets) \cup Range(found)
       PROVE  \E p \in DOMAIN all : NameOf(all[p]) = NameOf(t)
  <2> DEFINE same == {q \in DOMAIN both : NameOf(both[q]) = NameOf(t)}
  <2>1. same # {}
    BY <1>3 DEF Range
  <2>2. same \in SUBSET Nat
    BY <1>2, <1>4
  <2> HIDE DEF same
  <2>3. PICK q \in same : \A r \in same : q <= r
    BY <2>1, <2>2, LeastOf
  <2>4. q \in DOMAIN both /\ NameOf(both[q]) = NameOf(t) /\ q \in Nat
    BY <2>2 DEF same
  <2>5. ASSUME NEW r \in 1..(q - 1) PROVE NameOf(both[r]) # NameOf(both[q])
    <3>1. r \in DOMAIN both /\ ~(q <= r)
      BY <1>2, <1>4, <2>4
    <3>2. r \notin same
      BY <2>3, <3>1
    <3>3. QED
      BY <2>4, <3>1, <3>2 DEF same
  <2>6. q \in kept
    BY <1>7, <2>4, <2>5 DEF First
  <2>7. PICK i \in 1..size : Nth(i) = q
    BY <1>9, <2>6
  <2>8. QED
    BY <1>10, <2>4, <2>7
<1>14. ASSUME NEW p \in DOMAIN all, NEW q \in DOMAIN all, p < q, q > Len(targets)
       PROVE  NameOf(all[p]) # NameOf(all[q])
  <2>1. /\ p \in 1..size /\ q \in 1..size /\ q \in Nat
        /\ all[p] = both[Nth(p)] /\ all[q] = both[Nth(q)]
    BY <1>9, <1>10
  <2> DEFINE m == Nth(p)
             n == Nth(q)
             before == {r \in kept : r < n}
  <2>2. /\ m \in kept /\ n \in kept /\ m < n
        /\ Cardinality(before) = q - 1
    BY <1>9, <1>14, <2>1
  <2>3. m \in Nat /\ n \in Nat /\ m \in DOMAIN both /\ n \in DOMAIN both
    BY <1>5, <1>6, <2>2
  <2> HIDE DEF m, n
  <2>4. ~(n <= Len(targets))
    <3>1. ASSUME n <= Len(targets) PROVE FALSE
      <4>1. before = 1..(n - 1)
        <5>1. \A r \in kept : r \in Nat /\ r # 0
          BY <1>2, <1>4, <1>5, <1>6
        <5>2. \A r \in 1..(n - 1) : r \in kept /\ r < n
          BY <1>2, <1>8, <2>3, <3>1
        <5>3. QED
          BY <2>3, <5>1, <5>2
      <4> HIDE DEF before
      <4>2. n \in 1..Len(targets)
        BY <1>2, <1>4, <2>3, <3>1
      <4>3. Cardinality(1..(n - 1)) = n - 1
        <5>1. 1 \in Int /\ n - 1 \in Int
          BY <2>3
        <5>2. Cardinality(1..(n - 1)) = IF 1 > n - 1 THEN 0 ELSE (n - 1) - 1 + 1
          BY <5>1, FS_Interval
        <5>3. QED
          BY <1>2, <4>2, <5>2
      <4>4. n - 1 = q - 1
        BY <2>2, <4>1, <4>3
      <4>5. QED
        BY <1>2, <1>14, <2>1, <2>3, <3>1, <4>4
    <3>2. QED
      BY <3>1
  <2>5. First(n)
    BY <1>6, <2>2, <2>4
  <2>6. m \in 1..(n - 1)
    BY <1>2, <1>4, <2>2, <2>3
  <2>7. NameOf(both[m]) # NameOf(both[n])
    BY <2>5, <2>6 DEF First
  <2>8. QED
    BY <2>1, <2>7 DEF m, n
<1>15. QED
  BY <1>1, <1>11, <1>12, <1>13, <1>14

-----------------------------------------------------------------------------
(* The date-based cause is the fault of the dates, when it is one that the  *)
(* exit codes 4 and 6 stand for (_validity_status).                         *)
LEMMA CauseOfDates ==
  ASSUME NEW cmd, NEW P \in Findable(cmd), NEW doc, Says(doc, P), NEW fallback
  PROVE  LET cause == ValidityStatus(doc, fallback)
         IN  \/ cause = "NOT_YET_VALID" /\ "not_yet_valid" \in P
             \/ cause = "EXPIRED" /\ "expired" \in P
             \/ cause = fallback /\ "not_yet_valid" \notin P /\ "expired" \notin P
<1>1. PICK v \in Validity(P) : doc.status = v[1] /\ doc.days_to_expire = v[2]
  BY DEF Says
<1>2. /\ v[1] = "NOT YET VALID" <=> "not_yet_valid" \in P
      /\ v[2] \in Int
      /\ v[2] < 0 <=> "expired" \in P
  BY ValidityWords
<1>3. doc.status = "NOT YET VALID" <=> "not_yet_valid" \in P
  BY <1>1, <1>2
<1>4. doc.days_to_expire \in Int /\ (doc.days_to_expire < 0 <=> "expired" \in P)
  BY <1>1, <1>2
<1>5. doc.days_to_expire # None
  BY <1>4, ModelsAssumption
<1>6. CASE "not_yet_valid" \in P
  BY <1>3, <1>6 DEF ValidityStatus
<1>7. CASE "not_yet_valid" \notin P /\ "expired" \in P
  BY <1>3, <1>4, <1>5, <1>7 DEF ValidityStatus
<1>8. CASE "not_yet_valid" \notin P /\ "expired" \notin P
  BY <1>3, <1>4, <1>5, <1>8 DEF ValidityStatus
<1>9. QED
  BY <1>6, <1>7, <1>8

(* The headline of an answer names one of its faults, or none has an exit   *)
(* code (_status_from).                                                     *)
Headline(status, P) ==
    IF status = "VALID"
    THEN P \subseteq {"weak_crypto", "chain_expiring"}
    ELSE FaultOf[status] \in P

(* The fault each headline stands for. *)
LEMMA FaultNamed ==
  /\ FaultOf["EXPIRED"] = "expired" /\ FaultOf["NOT_YET_VALID"] = "not_yet_valid"
  /\ FaultOf["CRITICAL"] = "critical" /\ FaultOf["EXPIRING"] = "expiring"
  /\ FaultOf["CHAIN_UNTRUSTED"] = "chain_untrusted" /\ FaultOf["REVOKED"] = "revoked"
  /\ FaultOf["HOSTNAME_MISMATCH"] = "hostname_mismatch"
  /\ FaultOf["POLICY_VIOLATION"] = "policy_violation"
BY DEF FaultOf

(* Whichever of its exit codes certinspect chose (_status_from). *)
LEMMA HeadlineOfAnswer ==
  ASSUME NEW cmd, cmd.options.verify \in BOOLEAN, cmd.source \in {"host", "file"},
         NEW P \in Findable(cmd), NEW code \in Codes(P), NEW doc \in Documents(cmd, P)
  PROVE  Headline(StatusFrom(code, doc), P)
<1>1. Says(doc, P)
  BY DocumentSays
<1>2. doc.revocation_status = "REVOKED" <=> "revoked" \in P
  BY <1>1 DEF Says
<1>3. /\ code \in {0, 3, 4, 5, 6, 9}
      /\ code = 0 => P \cap (CriticalKinds \cup {"expiring"}) = {}
      /\ code = 3 => "expiring" \in P
      /\ code = 4 => P \cap {"critical", "expired", "not_yet_valid"} # {}
      /\ code = 5 => "hostname_mismatch" \in P
      /\ code = 6 => P \cap {"chain_untrusted", "revoked"} # {}
      /\ code = 9 => "policy_violation" \in P
  BY CodesOf
<1>4. CASE code = 0
  <2>1. StatusFrom(code, doc) = "VALID"
    BY <1>4 DEF StatusFrom
  <2>2. P \subseteq CriticalKinds \cup WarningKinds
    BY FindableFaults
  <2>3. P \subseteq {"weak_crypto", "chain_expiring"}
    BY <1>3, <1>4, <2>2 DEF WarningKinds
  <2>4. QED
    BY <2>1, <2>3 DEF Headline
<1>5. CASE code = 3
  <2>1. StatusFrom(code, doc) = "EXPIRING"
    BY <1>5 DEF StatusFrom
  <2>2. QED
    BY <1>3, <1>5, <2>1, FaultNamed DEF Headline
<1>6. CASE code = 4
  <2>1. StatusFrom(code, doc) = ValidityStatus(doc, "CRITICAL")
    BY <1>6 DEF StatusFrom
  <2> DEFINE cause == ValidityStatus(doc, "CRITICAL")
  <2>2. \/ cause = "NOT_YET_VALID" /\ "not_yet_valid" \in P
        \/ cause = "EXPIRED" /\ "expired" \in P
        \/ cause = "CRITICAL" /\ "not_yet_valid" \notin P /\ "expired" \notin P
    BY <1>1, CauseOfDates
  <2> HIDE DEF cause
  <2>3. \/ cause = "NOT_YET_VALID" /\ "not_yet_valid" \in P
        \/ cause = "EXPIRED" /\ "expired" \in P
        \/ cause = "CRITICAL" /\ "critical" \in P
    BY <1>3, <1>6, <2>2
  <2>4. Headline(cause, P)
    BY <2>3, FaultNamed DEF Headline
  <2>5. QED
    BY <2>1, <2>4 DEF cause
<1>7. CASE code = 5
  <2>1. StatusFrom(code, doc) = "HOSTNAME_MISMATCH"
    BY <1>7 DEF StatusFrom
  <2>2. QED
    BY <1>3, <1>7, <2>1, FaultNamed DEF Headline
<1>8. CASE code = 6 /\ "revoked" \in P
  <2>1. StatusFrom(code, doc) = "REVOKED"
    BY <1>2, <1>8 DEF StatusFrom
  <2>2. QED
    BY <1>8, <2>1, FaultNamed DEF Headline
<1>9. CASE code = 6 /\ "revoked" \notin P
  <2>1. StatusFrom(code, doc) = ValidityStatus(doc, "CHAIN_UNTRUSTED")
    BY <1>2, <1>9 DEF StatusFrom
  <2> DEFINE cause == ValidityStatus(doc, "CHAIN_UNTRUSTED")
  <2>2. \/ cause = "NOT_YET_VALID" /\ "not_yet_valid" \in P
        \/ cause = "EXPIRED" /\ "expired" \in P
        \/ cause = "CHAIN_UNTRUSTED"
    BY <1>1, CauseOfDates
  <2>3. "chain_untrusted" \in P
    BY <1>3, <1>9
  <2> HIDE DEF cause
  <2>4. Headline(cause, P)
    BY <2>2, <2>3, FaultNamed DEF Headline
  <2>5. QED
    BY <2>1, <2>4 DEF cause
<1>10. CASE code = 9
  <2>1. StatusFrom(code, doc) = "POLICY_VIOLATION"
    BY <1>10 DEF StatusFrom
  <2>2. QED
    BY <1>3, <1>10, <2>1, FaultNamed DEF Headline
<1>11. QED
  BY <1>3, <1>4, <1>5, <1>6, <1>7, <1>8, <1>9, <1>10

(* What every check that ends shows: it was not killed before its time, all *)
(* it found is detected and nothing else, and its headline is one of the    *)
(* faults.                                                                  *)
Right(check) ==
    /\ check.end = "killed" => check.hung
    /\ check.end = "exited" /\ ~check.garbled =>
          DetectProblems(check.result) = check.faults
    /\ check.result.reachable /\ ~check.garbled =>
          Headline(check.result.status, check.faults)
    /\ OutcomeOf(check.result) \in Outcomes

(* A check without an answer. *)
LEMMA NoAnswerRight ==
  ASSUME NEW check, NEW status, NEW code, check.result = NoAnswer(status, code),
         check.end = "killed" => check.hung, check.faults = {}
  PROVE  Right(check)
<1>1. /\ check.result.reachable = FALSE /\ check.result.info = NoInfo
      /\ check.result.info.fingerprint = None
  BY DEF NoAnswer, NoInfo
<1>2. DetectProblems(check.result) = {}
  BY <1>1, NothingDetected
<1>3. OutcomeOf(check.result) =
        [reachable |-> FALSE, problems |-> {}, fingerprint |-> None]
  BY <1>1, <1>2 DEF OutcomeOf
<1>4. OutcomeOf(check.result) \in Outcomes
  BY <1>3 DEF Outcomes
<1>5. QED
  BY <1>1, <1>2, <1>4 DEF Right

(* The ends without an exit. *)
LEMMA EndsRight ==
  /\ Right(NoCheck) /\ Right(Killed(TRUE))
  /\ \A result \in {Missing, NotStarted} :
        Right([NoCheck EXCEPT !.end = "not started", !.result = result])
<1>1. Right(NoCheck)
  <2>1. /\ NoCheck.result = NoAnswer("ERROR", 127) /\ NoCheck.end = "none"
        /\ NoCheck.faults = {}
    BY DEF NoCheck, Missing
  <2>2. QED
    BY <2>1, NoAnswerRight
<1>2. Right(Killed(TRUE))
  <2> DEFINE check == Killed(TRUE)
  <2>1. /\ check.result = NoAnswer("UNREACHABLE", 124) /\ check.hung = TRUE
        /\ check.faults = {}
    BY DEF NoCheck, Killed, TimedOut
  <2> HIDE DEF check
  <2>2. Right(check)
    BY <2>1, NoAnswerRight
  <2>3. QED
    BY <2>2 DEF check
<1>3. ASSUME NEW result \in {Missing, NotStarted}
      PROVE  Right([NoCheck EXCEPT !.end = "not started", !.result = result])
  <2> DEFINE check == [NoCheck EXCEPT !.end = "not started", !.result = result]
  <2>1. check.result = result /\ check.end = "not started" /\ check.faults = {}
    BY DEF NoCheck
  <2>2. result = NoAnswer("ERROR", 127) \/ result = NoAnswer("ERROR", 126)
    BY DEF Missing, NotStarted
  <2> HIDE DEF check
  <2>3. Right(check)
    BY <2>1, <2>2, NoAnswerRight
  <2>4. QED
    BY <2>3 DEF check
<1>4. QED
  BY <1>1, <1>2, <1>3

(* An exit of certinspect by itself. *)
LEMMA ExitsRight ==
  ASSUME NEW t, Runs(t), NEW cmd, cmd = Command(t), NEW check \in Exits(t, cmd)
  PROVE  Right(check)
<1>1. cmd.options.verify \in BOOLEAN /\ cmd.source \in {"host", "file"}
  <2>1. cmd.options["verify"] = Truthy(t["verify"])
    BY OptionsGiven DEF Runs
  <2>2. Truthy(t["verify"]) \in BOOLEAN
    BY DEF Truthy
  <2>3. cmd.options.verify \in BOOLEAN
    BY <2>1, <2>2
  <2>4. cmd.source \in {"host", "file"}
    BY DEF Command, SourceOf
  <2>5. QED
    BY <2>3, <2>4
<1> DEFINE Whole(P)   == {Exit(P, FALSE, w[1], w[2]) : w \in Codes(P) \X Documents(cmd, P)}
           Garbled(P) == {Exit(P, TRUE, c, NoInfo) : c \in Codes(P)}
           faults     == Findable(cmd) \cap Presents[DisplayHost(t)]
<1>2. \/ check = Exit({}, FALSE, 2, NoInfo)
      \/ check = Exit({}, FALSE, 1, NoInfo)
      \/ check \in UNION {Whole(P) \cup Garbled(P) : P \in faults}
  BY DEF Exits
<1>3. ASSUME NEW code \in {1, 2}, check = Exit({}, FALSE, code, NoInfo)
      PROVE  Right(check)
  <2>1. check.result = NoAnswer("UNREACHABLE", code)
    BY <1>3 DEF Exit, Exited, AnalysedCodes
  <2>2. check.end = "exited" /\ check.faults = {}
    BY <1>3 DEF Exit
  <2>3. QED
    BY <2>1, <2>2, NoAnswerRight
<1>4. ASSUME NEW P \in Findable(cmd), NEW code \in Codes(P), NEW doc \in Documents(cmd, P),
             check = Exit(P, FALSE, code, doc)
      PROVE  Right(check)
  <2>1. /\ check.end = "exited" /\ check.garbled = FALSE /\ check.faults = P
        /\ check.result = Exited(code, doc)
    BY <1>4 DEF Exit
  <2>2. Exited(code, doc) = [reachable |-> TRUE, status |-> StatusFrom(code, doc),
                             exit_code |-> code, info |-> doc]
    BY CodesOf DEF Exited, AnalysedCodes
  <2>3. DetectProblems(check.result) = P
    BY <1>1, <2>1, AnswerDetected
  <2>4. Says(doc, P)
    BY <1>1, DocumentSays
  <2>5. Headline(StatusFrom(code, doc), P)
    BY <1>1, HeadlineOfAnswer
  <2>6. check.result.reachable = TRUE /\ check.result.status = StatusFrom(code, doc)
    BY <2>1, <2>2
  <2>7. check.result.info.fingerprint \in Fingerprints
    BY <2>1, <2>2, <2>4 DEF Says
  <2>8. P \in ProblemSets
    BY FindableFaults
  <2>9. OutcomeOf(check.result) \in Outcomes
    BY <2>3, <2>6, <2>7, <2>8 DEF OutcomeOf, Outcomes
  <2>10. QED
    BY <2>1, <2>3, <2>5, <2>6, <2>9 DEF Right
<1>5. ASSUME NEW P \in Findable(cmd), NEW code \in Codes(P), check = Exit(P, TRUE, code, NoInfo)
      PROVE  Right(check)
  <2>1. /\ check.end = "exited" /\ check.garbled = TRUE
        /\ check.result = Exited(code, NoInfo)
    BY <1>5 DEF Exit
  <2>2. Exited(code, NoInfo) = [reachable |-> TRUE, status |-> StatusFrom(code, NoInfo),
                                exit_code |-> code, info |-> NoInfo]
    BY CodesOf DEF Exited, AnalysedCodes
  <2>3. check.result.info = NoInfo /\ check.result.reachable = TRUE
    BY <2>1, <2>2
  <2>4. DetectProblems(check.result) = {}
    BY <2>3, NothingDetected
  <2>5. check.result.info.fingerprint = None
    BY <2>3 DEF NoInfo
  <2>6. {} \in ProblemSets
    BY DEF ProblemSets
  <2>7. OutcomeOf(check.result) \in Outcomes
    BY <2>3, <2>4, <2>5, <2>6 DEF OutcomeOf, Outcomes
  <2>8. QED
    BY <2>1, <2>7 DEF Right
<1>6. ASSUME check \in UNION {Whole(P) \cup Garbled(P) : P \in faults}
      PROVE  Right(check)
  <2>1. PICK P \in Findable(cmd) : check \in Whole(P) \/ check \in Garbled(P)
    <3> HIDE DEF Whole, Garbled
    <3>1. QED
      BY <1>6
  <2>2. CASE check \in Whole(P)
    <3>1. PICK w \in Codes(P) \X Documents(cmd, P) : check = Exit(P, FALSE, w[1], w[2])
      BY <2>2
    <3>2. w[1] \in Codes(P) /\ w[2] \in Documents(cmd, P)
      BY <3>1
    <3>3. QED
      BY <1>4, <3>1, <3>2
  <2>3. CASE check \in Garbled(P)
    <3>1. PICK c \in Codes(P) : check = Exit(P, TRUE, c, NoInfo)
      BY <2>3
    <3>2. QED
      BY <1>5, <3>1
  <2>4. QED
    BY <2>1, <2>2, <2>3
<1>7. QED
  BY <1>2, <1>3, <1>6

-----------------------------------------------------------------------------
(* What is at hand at each stage of a cycle: the configuration that was     *)
(* loaded and the answers to its own sources while they are queried, the    *)
(* targets while they are checked.                                          *)
Stage ==
    /\ phase \in Phases
    /\ phase = "querying" =>
          Fits(config) /\ DOMAIN answers \subseteq DOMAIN config.sources
    /\ phase # "querying" => config = None /\ answers = <<>>
    /\ \A s \in DOMAIN answers : answers[s] \in Answers
    /\ phase # "checking" => DOMAIN roster = {}

(* The pool: targets that run, and not more children than threads. *)
Pool ==
    /\ \A p \in DOMAIN roster : Runs(roster[p])
    /\ running \in [DOMAIN running -> {"working", "hung"}]
    /\ DOMAIN running \subseteq DOMAIN roster
    /\ IsFiniteSet(DOMAIN running)
    /\ workers \in Nat
    /\ Cardinality(DOMAIN running) <= workers

IInv == Stage /\ Pool /\ Right(last)

(* A run that hangs is killed, and one that does not has time to end. *)
LEMMA OutcomesAreExits ==
  ASSUME NEW t, Timed(t), NEW took \in {0, LongestRun(Command(t))},
         NEW check \in Outcome(t, took)
  PROVE  check \in Exits(t, Command(t))
<1>1. /\ LongestRun(Command(t)) <= SubprocessTimeout(t)
      /\ LongestRun(Command(t)) \in Nat /\ SubprocessTimeout(t) \in Nat
  BY LimitIsLongestRun, LimitCoversLongestRun
<1>2. ~(took > SubprocessTimeout(t))
  BY <1>1
<1>3. QED
  BY <1>2 DEF Outcome

(* The targets of a configuration that fits run. *)
LEMMA ListingRuns ==
  ASSUME Fits(config), DOMAIN answers = DOMAIN config.sources,
         \A s \in DOMAIN answers : answers[s] \in Answers
  PROVE  /\ DOMAIN Listing \subseteq Nat
         /\ \A p \in DOMAIN Listing : Runs(Listing[p])
<1> DEFINE found == Found(config.sources, answers)
<1>1. /\ IsSequence(found)
      /\ \A t \in Range(found) : \E s \in DOMAIN config.sources, h \in Hosts :
            t = Target([host |-> h], config.sources[s].settings)
  BY FoundElements DEF Fits
<1>2. ASSUME NEW t \in Range(found) PROVE Runs(t)
  <2>1. PICK s \in DOMAIN config.sources, h \in Hosts :
          t = Target([host |-> h], config.sources[s].settings)
    BY <1>1
  <2>2. Admitted(config.sources[s].settings)
    BY DEF Fits
  <2>3. QED
    BY <2>1, <2>2, FoundRuns
<1>3. IsSequence(config.targets) /\ \A t \in Range(config.targets) : Runs(t)
  BY DEF Fits
<1> HIDE DEF found
<1>4. /\ DOMAIN AllTargets(config.targets, found) \subseteq Nat
      /\ \A p \in DOMAIN AllTargets(config.targets, found) :
            AllTargets(config.targets, found)[p] \in Range(config.targets) \cup Range(found)
  BY <1>1, <1>3, AllTargetsLists
<1>5. QED
  BY <1>2, <1>3, <1>4 DEF Listing, found

(* The end of a check leaves the pool in order. *)
LEMMA EndsInv ==
  ASSUME IInv, phase = "checking", NEW p \in DOMAIN roster, NEW check, Right(check),
         Ends(p, check)
  PROVE  IInv'
<1>1. Stage'
  BY DEF IInv, Stage, Ends
<1>2. /\ DOMAIN roster' = DOMAIN roster \ {p}
      /\ \A q \in DOMAIN roster' : roster'[q] = roster[q]
      /\ DOMAIN running' = DOMAIN running \ {p}
      /\ running' = [q \in DOMAIN running \ {p} |-> running[q]]
      /\ workers' = workers /\ last' = check
  BY DEF Ends, Without
<1>3. /\ IsFiniteSet(DOMAIN running') /\ Cardinality(DOMAIN running') <= workers'
  <2>1. DOMAIN running' \in SUBSET DOMAIN running
    BY <1>2
  <2>2. /\ IsFiniteSet(DOMAIN running')
        /\ Cardinality(DOMAIN running') <= Cardinality(DOMAIN running)
    BY <2>1, FS_Subset DEF IInv, Pool
  <2>3. Cardinality(DOMAIN running') \in Nat /\ Cardinality(DOMAIN running) \in Nat
    BY <2>2, FS_CardinalityType DEF IInv, Pool
  <2>4. QED
    BY <1>2, <2>2, <2>3 DEF IInv, Pool
<1>4. Pool'
  BY <1>2, <1>3 DEF IInv, Pool
<1>5. QED
  BY <1>1, <1>2, <1>4 DEF IInv

(* The invariant holds at first. *)
LEMMA InitInv == Init => IInv
<1> SUFFICES ASSUME Init PROVE IInv
  OBVIOUS
<1>1. DOMAIN <<>> = {}
  OBVIOUS
<1>2. Stage
  BY <1>1 DEF Init, Stage, Phases
<1>3. Pool
  <2>1. running \in [DOMAIN running -> {"working", "hung"}]
    BY DEF Init
  <2>2. IsFiniteSet({}) /\ Cardinality({}) = 0
    BY FS_EmptySet
  <2>3. QED
    BY <1>1, <2>1, <2>2 DEF Init, Pool
<1>4. Right(last)
  BY EndsRight DEF Init
<1>5. QED
  BY <1>2, <1>3, <1>4 DEF IInv

(* Every step keeps the invariant. *)
LEMMA NextInv == IInv /\ [Next]_vars => IInv'
<1> SUFFICES ASSUME IInv, [Next]_vars PROVE IInv'
  OBVIOUS
<1>0. DOMAIN <<>> = {}
  OBVIOUS
<1>1. ASSUME NEW doc \in ConfigFiles, LoadConfig(doc) PROVE IInv'
  <2>1. Fits(config')
    BY <1>1, InspectionAssumption, LoadedFits DEF LoadConfig
  <2>2. Stage'
    BY <1>0, <1>1, <2>1 DEF LoadConfig, IInv, Stage, Phases
  <2>3. QED
    BY <1>1, <2>2 DEF LoadConfig, IInv, Pool
<1>2. ASSUME NEW args \in CheckArgs, CheckCommand(args) PROVE IInv'
  <2> DEFINE t == IF args.file # None
                  THEN [DefaultTarget EXCEPT !.file = args.file, !.verify = args.verify]
                  ELSE [DefaultTarget EXCEPT !.host = args.host, !.port = args.port,
                           !.verify = args.verify, !.starttls = args.starttls]
  <2>1. Runs(t)
    BY InspectionAssumption, CommandLineRuns
  <2>2. roster' = <<t>>
    BY <1>2 DEF CheckCommand
  <2> HIDE DEF t
  <2>3. DOMAIN roster' = 1..1 /\ \A p \in DOMAIN roster' : roster'[p] = t
    BY <2>2
  <2>4. Stage'
    BY <1>2 DEF CheckCommand, IInv, Stage, Phases
  <2>5. DOMAIN running = {}
    BY <1>2 DEF CheckCommand, IInv, Stage, Pool
  <2>6. IsFiniteSet({}) /\ Cardinality({}) = 0
    BY FS_EmptySet
  <2>7. Pool'
    BY <1>2, <2>1, <2>3, <2>5, <2>6 DEF CheckCommand, IInv, Pool
  <2>8. QED
    BY <1>2, <2>4, <2>7 DEF CheckCommand, IInv
<1>3. ASSUME phase = "querying", NEW s \in DOMAIN config.sources, Query(s) PROVE IInv'
  <2>1. PICK a \in Answers : answers' = With(answers, s, a)
    BY <1>3 DEF Query
  <2>2. /\ DOMAIN answers' = DOMAIN answers \cup {s}
        /\ \A r \in DOMAIN answers' : answers'[r] = a \/ (r \in DOMAIN answers /\ answers'[r] = answers[r])
    BY <2>1 DEF With
  <2>3. Stage'
    BY <1>3, <2>2 DEF Query, IInv, Stage
  <2>4. QED
    BY <1>3, <2>3 DEF Query, IInv, Pool
<1>4. ASSUME ListTargets PROVE IInv'
  <2>1. phase = "querying" /\ DOMAIN answers = DOMAIN config.sources
    BY <1>4 DEF ListTargets, AllAnswered
  <2>2. Fits(config) /\ \A s \in DOMAIN answers : answers[s] \in Answers
    BY <2>1 DEF IInv, Stage
  <2>3. \A p \in DOMAIN Listing : Runs(Listing[p])
    BY <2>1, <2>2, ListingRuns
  <2>4. Stage'
    BY <1>0, <1>4 DEF ListTargets, IInv, Stage, Phases
  <2>5. DOMAIN running = {}
    BY <2>1 DEF IInv, Stage, Pool
  <2>6. IsFiniteSet({}) /\ Cardinality({}) = 0
    BY FS_EmptySet
  <2>7. Pool'
    BY <1>4, <2>2, <2>3, <2>5, <2>6 DEF ListTargets, IInv, Pool, Fits
  <2>8. QED
    BY <1>4, <2>4, <2>7 DEF ListTargets, IInv
<1>5. ASSUME DiscoveryFails PROVE IInv'
  <2>1. Stage'
    BY <1>0, <1>5 DEF DiscoveryFails, AllAnswered, IInv, Stage, Phases
  <2>2. QED
    BY <1>5, <2>1 DEF DiscoveryFails, IInv, Pool
<1>6. ASSUME NEW p \in DOMAIN roster, StartCheck(p) PROVE IInv'
  <2>1. PICK how \in {"working", "hung"} : running' = With(running, p, how)
    BY <1>6 DEF StartCheck
  <2>2. /\ DOMAIN running' = DOMAIN running \cup {p}
        /\ running' \in [DOMAIN running' -> {"working", "hung"}]
    BY <2>1 DEF With, IInv, Pool
  <2>3. p \notin DOMAIN running /\ Cardinality(DOMAIN running) < workers
    BY <1>6 DEF StartCheck, Queued
  <2>4. /\ IsFiniteSet(DOMAIN running')
        /\ Cardinality(DOMAIN running') = Cardinality(DOMAIN running) + 1
    BY <2>2, <2>3, FS_AddElement DEF IInv, Pool
  <2>5. Cardinality(DOMAIN running) \in Nat
    BY FS_CardinalityType DEF IInv, Pool
  <2>6. Cardinality(DOMAIN running') <= workers
    BY <2>3, <2>4, <2>5 DEF IInv, Pool
  <2>7. Pool'
    BY <1>6, <2>2, <2>4, <2>6 DEF StartCheck, IInv, Pool
  <2>8. Stage'
    BY <1>6 DEF StartCheck, IInv, Stage
  <2>9. QED
    BY <1>6, <2>7, <2>8 DEF StartCheck, IInv
<1>7. ASSUME NEW p \in DOMAIN roster, NoChild(p) PROVE IInv'
  <2>1. PICK result \in {Missing, NotStarted} :
          Ends(p, [NoCheck EXCEPT !.end = "not started", !.result = result])
    BY <1>7 DEF NoChild
  <2>2. phase = "checking"
    BY <1>7 DEF NoChild
  <2>3. QED
    BY <2>1, <2>2, EndsRight, EndsInv
<1>8. ASSUME NEW p \in DOMAIN roster, Finish(p) PROVE IInv'
  <2>0. PICK took \in {0, LongestRun(Command(roster[p]))} :
          \E check \in Outcome(roster[p], took) : Ends(p, check)
    BY <1>8 DEF Finish
  <2>1. PICK check \in Outcome(roster[p], took) : Ends(p, check)
    BY <2>0
  <2>2. Runs(roster[p]) /\ Timed(roster[p])
    BY DEF IInv, Pool, Runs
  <2>3. check \in Exits(roster[p], Command(roster[p]))
    BY <2>2, OutcomesAreExits
  <2>4. Right(check)
    BY <2>2, <2>3, ExitsRight
  <2>5. phase = "checking"
    BY DEF IInv, Stage
  <2>6. QED
    BY <2>1, <2>4, <2>5, EndsInv
<1>9. ASSUME NEW p \in DOMAIN roster, Kill(p) PROVE IInv'
  <2>1. phase = "checking"
    BY DEF IInv, Stage
  <2>2. QED
    BY <1>9, <2>1, EndsRight, EndsInv DEF Kill
<1>10. CASE Return
  <2>1. DOMAIN roster = {} /\ phase' = "down"
    BY <1>10 DEF Return, IInv, Stage
  <2>2. config = None /\ answers = <<>>
    BY <1>10 DEF Return, IInv, Stage
  <2>3. Stage'
    BY <1>10, <2>1, <2>2 DEF Return, IInv, Stage, Phases
  <2>4. DOMAIN running = {}
    BY <2>1 DEF IInv, Pool
  <2>5. IsFiniteSet({}) /\ Cardinality({}) = 0
    BY FS_EmptySet
  <2>6. Pool'
    BY <1>10, <2>1, <2>4, <2>5 DEF Return, IInv, Pool
  <2>7. Right(last')
    BY <1>10, EndsRight DEF Return
  <2>8. QED
    BY <2>3, <2>6, <2>7 DEF IInv
<1>11. CASE UNCHANGED vars
  BY <1>11 DEF vars, IInv, Stage, Pool
<1>12. QED
  BY <1>1, <1>2, <1>3, <1>4, <1>5, <1>6, <1>7, <1>8, <1>9, <1>10, <1>11 DEF Next

(* The inductive invariant. *)
THEOREM InspectionInvariant == Spec => []IInv
<1>1. QED
  BY InitInv, NextInv, PTL DEF Spec

(* Every variable has its type, and what a check hands to the evaluation is *)
(* an outcome that Monitor allows (load_config, check_target).              *)
THEOREM InspectionTypeCorrect == Spec => []TypeOK
<1>1. ASSUME IInv PROVE TypeOK
  <2>1. config # None => Fits(config)
    BY <1>1 DEF IInv, Stage
  <2>2. DOMAIN answers \subseteq Nat
    <3>1. CASE phase = "querying"
      <4>1. IsSequence(config.sources) /\ DOMAIN answers \subseteq DOMAIN config.sources
        BY <1>1, <3>1 DEF IInv, Stage, Fits
      <4>2. Len(config.sources) \in Nat /\ DOMAIN config.sources = 1..Len(config.sources)
        BY <4>1, Elements DEF IsSequence
      <4>3. QED
        BY <4>1, <4>2
    <3>2. CASE phase # "querying"
      BY <1>1, <3>2 DEF IInv, Stage
    <3>3. QED
      BY <3>1, <3>2
  <2>3. QED
    BY <1>1, <2>1, <2>2 DEF IInv, Stage, Pool, Right, Runs, Fits, TypeOK
<1>2. QED
  BY <1>1, InspectionInvariant, PTL

(* Whatever the document, its defaults and its groups, the sources that are *)
(* queried and the command line of `check`: certinspect takes the options   *)
(* of every target whose `verify` is True or False, and of any other target *)
(* unless it sets something that needs verification (build_command, "config *)
(* validation is expected to reject that combination earlier").             *)
THEOREM RunnableCorrect == Spec => []RunnableTargets
<1>1. IInv => RunnableTargets
  BY DEF IInv, Pool, Runs, RunnableTargets
<1>2. QED
  BY <1>1, InspectionInvariant, PTL

(* Whatever the timeouts and the retries of a target, no check is killed    *)
(* that would have ended by itself (subprocess_timeout, check_target).      *)
THEOREM HealthyNeverKilled == Spec => []NeverKilledEarly
<1>1. IInv => NeverKilledEarly
  BY DEF IInv, Right, NeverKilledEarly
<1>2. QED
  BY <1>1, InspectionInvariant, PTL

(* Exactly the faults certinspect reports are detected, whichever exit code *)
(* it chose for them (detect_problems).                                     *)
THEOREM NothingHiddenCorrect == Spec => []NothingHidden
<1>1. IInv => NothingHidden
  BY DEF IInv, Right, NothingHidden
<1>2. QED
  BY <1>1, InspectionInvariant, PTL

(* The headline status is a fault of the certificate, or VALID when none has*)
(* an exit code (_status_from, _validity_status).                           *)
THEOREM HeadlineCorrect == Spec => []HeadlineIsAFault
<1>1. IInv => HeadlineIsAFault
  BY DEF IInv, Right, Headline, HeadlineIsAFault
<1>2. QED
  BY <1>1, InspectionInvariant, PTL

(* While all have answered, the listing is made of the configured targets   *)
(* and of what was found.                                                   *)
LEMMA ListingIsAll ==
  ASSUME IInv, AllAnswered
  PROVE  LET found == Found(config.sources, answers)
         IN  /\ IsSequence(config.targets) /\ IsSequence(found)
             /\ \A s \in DOMAIN config.sources : ~Failed(answers[s]) =>
                   \A h \in (UNION answers[s].inventory) \cap Hosts :
                      Target([host |-> h], config.sources[s].settings) \in Range(found)
             /\ \A t \in Range(config.targets) \cup Range(found) :
                   \E p \in DOMAIN Listing : NameOf(Listing[p]) = NameOf(t)
             /\ \A p, q \in DOMAIN Listing :
                   p < q /\ q > Len(config.targets) =>
                      NameOf(Listing[p]) # NameOf(Listing[q])
<1> DEFINE found == Found(config.sources, answers)
<1>1. /\ IsSequence(config.targets) /\ IsSequence(config.sources)
      /\ DOMAIN answers = DOMAIN config.sources
      /\ \A s \in DOMAIN answers : answers[s] \in Answers
  BY DEF IInv, Stage, Fits, AllAnswered
<1>2. /\ IsSequence(found)
      /\ \A s \in DOMAIN config.sources : ~Failed(answers[s]) =>
            \A h \in (UNION answers[s].inventory) \cap Hosts :
               Target([host |-> h], config.sources[s].settings) \in Range(found)
  BY <1>1, FoundElements
<1> HIDE DEF found
<1> DEFINE all == AllTargets(config.targets, found)
<1>3. /\ \A t \in Range(config.targets) \cup Range(found) :
            \E p \in DOMAIN all : NameOf(all[p]) = NameOf(t)
      /\ \A p, q \in DOMAIN all :
            p < q /\ q > Len(config.targets) => NameOf(all[p]) # NameOf(all[q])
  BY <1>1, <1>2, AllTargetsLists
<1>4. Listing = all
  BY DEF Listing, found
<1> HIDE DEF all
<1>5. QED
  BY <1>1, <1>2, <1>3, <1>4 DEF found

(* However many configured targets and sources there are, and whichever of  *)
(* the queries fail, no configured target and no host that was found is     *)
(* left out (resolve_discovered_targets, _all_targets).                     *)
THEOREM NothingMissedCorrect == Spec => []NothingFoundIsMissed
<1>1. ASSUME IInv PROVE NothingFoundIsMissed
  <2> SUFFICES ASSUME AllAnswered
               PROVE  LET names == {NameOf(Listing[p]) : p \in DOMAIN Listing}
                      IN  /\ \A i \in DOMAIN config.targets :
                                NameOf(config.targets[i]) \in names
                          /\ \A s \in {r \in DOMAIN answers : ~Failed(answers[r])} :
                                \A h \in (UNION answers[s].inventory) \cap Hosts :
                                   NameOf(Target([host |-> h], config.sources[s].settings))
                                      \in names
    BY DEF NothingFoundIsMissed
  <2> DEFINE found == Found(config.sources, answers)
             listed == {NameOf(Listing[p]) : p \in DOMAIN Listing}
  <2>1. /\ \A s \in DOMAIN config.sources : ~Failed(answers[s]) =>
              \A h \in (UNION answers[s].inventory) \cap Hosts :
                 Target([host |-> h], config.sources[s].settings) \in Range(found)
        /\ \A t \in Range(config.targets) \cup Range(found) :
              \E p \in DOMAIN Listing : NameOf(Listing[p]) = NameOf(t)
    BY <1>1, ListingIsAll
  <2> HIDE DEF found
  <2>2. \A t \in Range(config.targets) \cup Range(found) : NameOf(t) \in listed
    BY <2>1
  <2> HIDE DEF listed
  <2>3. \A i \in DOMAIN config.targets : NameOf(config.targets[i]) \in listed
    BY <2>2 DEF Range
  <2>4. ASSUME NEW s \in {r \in DOMAIN answers : ~Failed(answers[r])},
               NEW h \in (UNION answers[s].inventory) \cap Hosts
        PROVE  NameOf(Target([host |-> h], config.sources[s].settings)) \in listed
    <3>1. s \in DOMAIN config.sources /\ ~Failed(answers[s])
      BY DEF AllAnswered
    <3>2. Target([host |-> h], config.sources[s].settings) \in Range(found)
      BY <2>1, <3>1
    <3>3. QED
      BY <2>2, <3>2
  <2>5. QED
    BY <2>3, <2>4 DEF listed
<1>2. QED
  BY <1>1, InspectionInvariant, PTL

(* However often and by however many sources a name is found, it is listed  *)
(* once, and not again when it is configured (_all_targets).                *)
THEOREM FoundOnceCorrect == Spec => []FoundOnce
<1>1. ASSUME IInv PROVE FoundOnce
  BY <1>1, ListingIsAll DEF FoundOnce
<1>2. QED
  BY <1>1, InspectionInvariant, PTL
=============================================================================

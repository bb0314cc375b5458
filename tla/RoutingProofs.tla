--------------------------- MODULE RoutingProofs ---------------------------
(***************************************************************************)
(* Theorems about the routing of an order, for any manifests, any order    *)
(* and any listing of the directory: match_skill, which scores, sorts and  *)
(* looks for ties, finds the manifest that beats every other.              *)
(***************************************************************************)
EXTENDS SkillRegistry, SequencesExt, FiniteSetTheorems, WellFoundedInduction, TLAPS

-----------------------------------------------------------------------------
(* The order of the matches *)

(* A finite set that is not empty has an element that no other precedes,   *)
(* under a transitive and irreflexive relation: one with the fewest        *)
(* predecessors.                                                           *)
LEMMA MinimalExists ==
  ASSUME NEW S, IsFiniteSet(S), S # {}, NEW R,
         \A x \in S : <<x, x>> \notin R,
         \A x, y, z \in S : <<x, y>> \in R /\ <<y, z>> \in R => <<x, z>> \in R
  PROVE  \E x \in S : \A y \in S : <<y, x>> \notin R
<1> DEFINE Below == [x \in S |-> {y \in S : <<y, x>> \in R}]
           T == {B \in SUBSET S : \E x \in S : B = Below[x]}
<1>1. IsWellFoundedOn(StrictSubsetOrdering(S), FiniteSubsetsOf(S))
  BY FS_StrictSubsetOrderingWellFounded
<1>2. FiniteSubsetsOf(S) = SUBSET S
  BY FS_FiniteSubsetsOfFinite
<1>3. \A x \in S : Below[x] \in T
  OBVIOUS
<1>4. \E U \in T : \A V \in T : <<V, U>> \notin StrictSubsetOrdering(S)
  <2>1. T \subseteq FiniteSubsetsOf(S)
    BY <1>2
  <2>2. T # {}
    BY <1>3
  <2> HIDE DEF T
  <2> QED
    BY <1>1, <2>1, <2>2, WFMin
<1>5. PICK x \in S : \A y \in S : <<Below[y], Below[x]>> \notin StrictSubsetOrdering(S)
  <2>1. PICK U \in T : \A V \in T : <<V, U>> \notin StrictSubsetOrdering(S)
    BY <1>4
  <2>2. PICK x \in S : U = Below[x]
    OBVIOUS
  <2>3. \A y \in S : <<Below[y], Below[x]>> \notin StrictSubsetOrdering(S)
    <3> HIDE DEF T, Below
    <3> QED
      BY <1>3, <2>1, <2>2
  <2> QED
    BY <2>3
<1>6. ASSUME NEW y \in S, <<y, x>> \in R PROVE FALSE
  <2>1. Below[y] \subseteq Below[x] /\ y \in Below[x] /\ y \notin Below[y]
    BY <1>6
  <2>2. <<Below[y], Below[x]>> \in StrictSubsetOrdering(S)
    BY <2>1 DEF StrictSubsetOrdering
  <2> QED
    BY <1>5, <2>2
<1> QED
  BY <1>6

(* Points are natural numbers, positive where there is a criterion.        *)
LEMMA PointsPositive ==
  ASSUME NEW C \in SUBSET Criterion
  PROVE  Points(C) \in Nat /\ (Points(C) > 0 <=> C # {})
<1>1. /\ Weight["scene"] = 10 /\ Weight["audit_point"] = 10
      /\ Weight["certificate_type"] = 10 /\ Weight["industry"] = 5
      /\ Weight["category"] = 5 /\ Weight["business_type"] = 15
  BY DEF Weight, Criterion
<1> DEFINE Given(c, p) == IF c \in C THEN p ELSE 0
<1>2. Points(C) = Given("scene", 10) + Given("audit_point", 10)
        + Given("certificate_type", 10) + Given("industry", 5)
        + Given("category", 5) + Given("business_type", 15)
  BY <1>1 DEF Points
<1>3. C # {} <=> \/ "scene" \in C \/ "audit_point" \in C \/ "certificate_type" \in C
                 \/ "industry" \in C \/ "category" \in C \/ "business_type" \in C
  BY DEF Criterion
<1> QED
  BY <1>2, <1>3

LEMMA ScoreType ==
  ASSUME NEW m, NEW order
  PROVE  Score(m, order) \in Nat
<1>1. Specified(m) \in SUBSET Criterion
  BY DEF Specified
<1> QED
  BY <1>1, PointsPositive DEF Score

(* A loaded manifest scores when it names a criterion and every criterion  *)
(* it names is met.                                                        *)
LEMMA ScoresIfEligible ==
  ASSUME NEW m, NEW order
  PROVE  Eligible(m, order) <=> m.read = "loaded" /\ Score(m, order) > 0
<1>1. Specified(m) \in SUBSET Criterion
  BY DEF Specified
<1>2. Specified(m) # {} <=> \E c \in Criterion : m.match[c] # {}
  BY DEF Specified
<1>3. Specified(m) \subseteq Satisfied(m, order) <=>
        \A c \in Criterion : m.match[c] # {} => \E v \in m.match[c] : v \in order.values[c]
  BY DEF Specified, Satisfied
<1> QED
  BY <1>1, <1>2, <1>3, PointsPositive DEF Score, Eligible

(* How many criteria of a kind a set holds.                                *)
LEMMA CriteriaCounted ==
  ASSUME NEW P
  PROVE  LET One(c) == IF c \in P THEN 1 ELSE 0
         IN  /\ Cardinality({"scene", "audit_point", "certificate_type"} \cap P)
                  = One("scene") + One("audit_point") + One("certificate_type")
             /\ Cardinality({"industry", "category"} \cap P)
                  = One("industry") + One("category")
             /\ Cardinality({"business_type"} \cap P) = One("business_type")
<1>1. ASSUME NEW Q, IsFiniteSet(Q), NEW a, a \notin Q
      PROVE  LET Q1 == Q \cap P
                 Q2 == (Q \cup {a}) \cap P
             IN  /\ IsFiniteSet(Q1) /\ Cardinality(Q1) \in Nat
                 /\ Cardinality(Q2) = Cardinality(Q1) + (IF a \in P THEN 1 ELSE 0)
  <2> DEFINE Q1 == Q \cap P
             Q2 == (Q \cup {a}) \cap P
  <2>1. IsFiniteSet(Q1) /\ Cardinality(Q1) \in Nat
    BY <1>1, FS_Subset, FS_CardinalityType
  <2>2. a \in P => Q2 = Q1 \cup {a} /\ a \notin Q1
    BY <1>1
  <2>3. a \notin P => Q2 = Q1
    OBVIOUS
  <2> QED
    BY <2>1, <2>2, <2>3, FS_AddElement
<1>2. \A a : Cardinality({a} \cap P) = IF a \in P THEN 1 ELSE 0
  <2> TAKE a
  <2>1. IsFiniteSet({}) /\ Cardinality({} \cap P) = 0 /\ {} \cup {a} = {a}
    <3>1. {} \cap P = {}
      OBVIOUS
    <3> QED
      BY <3>1, FS_EmptySet
  <2>2. Cardinality(({} \cup {a}) \cap P)
        = Cardinality({} \cap P) + (IF a \in P THEN 1 ELSE 0)
    BY <1>1, <2>1
  <2> QED
    BY <2>1, <2>2
<1>3. ASSUME NEW a, NEW b, a # b
      PROVE  Cardinality({a, b} \cap P)
             = (IF a \in P THEN 1 ELSE 0) + (IF b \in P THEN 1 ELSE 0)
  <2>1. IsFiniteSet({a}) /\ b \notin {a} /\ {a} \cup {b} = {a, b}
    BY <1>3, FS_Singleton
  <2>2. Cardinality(({a} \cup {b}) \cap P)
        = Cardinality({a} \cap P) + (IF b \in P THEN 1 ELSE 0)
    BY <1>1, <2>1
  <2> QED
    BY <1>2, <2>1, <2>2
<1>4. ASSUME NEW a, NEW b, NEW d, a # b, a # d, b # d
      PROVE  Cardinality({a, b, d} \cap P)
             = (IF a \in P THEN 1 ELSE 0) + (IF b \in P THEN 1 ELSE 0)
               + (IF d \in P THEN 1 ELSE 0)
  <2>1. IsFiniteSet({a, b}) /\ d \notin {a, b} /\ {a, b} \cup {d} = {a, b, d}
    <3>1. IsFiniteSet({a}) /\ {a} \cup {b} = {a, b}
      BY FS_Singleton
    <3> QED
      BY <1>4, <3>1, FS_AddElement
  <2>2. Cardinality(({a, b} \cup {d}) \cap P)
        = Cardinality({a, b} \cap P) + (IF d \in P THEN 1 ELSE 0)
    BY <1>1, <2>1
  <2> QED
    BY <1>3, <1>4, <2>1, <2>2
<1>5. /\ "scene" # "audit_point" /\ "scene" # "certificate_type"
      /\ "audit_point" # "certificate_type" /\ "industry" # "category"
  OBVIOUS
<1> QED
  BY <1>2, <1>3, <1>4, <1>5

(* The score of an eligible manifest is the points of its criteria.        *)
LEMMA ScoreIsSpecificity ==
  ASSUME NEW m, NEW order, Eligible(m, order)
  PROVE  Score(m, order) = Specificity(m)
<1> DEFINE P == Specified(m)
           One(c) == IF c \in P THEN 1 ELSE 0
<1>1. Score(m, order) = Points(P)
  BY DEF Eligible, Score, Specified, Satisfied
<1>2. /\ {c \in {"scene", "audit_point", "certificate_type"} : m.match[c] # {}}
           = {"scene", "audit_point", "certificate_type"} \cap P
      /\ {c \in {"industry", "category"} : m.match[c] # {}}
           = {"industry", "category"} \cap P
      /\ {c \in {"business_type"} : m.match[c] # {}} = {"business_type"} \cap P
  BY DEF Specified, Criterion
<1>3. /\ Cardinality({"scene", "audit_point", "certificate_type"} \cap P)
           = One("scene") + One("audit_point") + One("certificate_type")
      /\ Cardinality({"industry", "category"} \cap P)
           = One("industry") + One("category")
      /\ Cardinality({"business_type"} \cap P) = One("business_type")
  BY CriteriaCounted
<1>4. Specificity(m) = 10 * (One("scene") + One("audit_point") + One("certificate_type"))
        + 5 * (One("industry") + One("category")) + 15 * One("business_type")
  BY <1>2, <1>3 DEF Specificity
<1>5. /\ Weight["scene"] = 10 /\ Weight["audit_point"] = 10
      /\ Weight["certificate_type"] = 10 /\ Weight["industry"] = 5
      /\ Weight["category"] = 5 /\ Weight["business_type"] = 15
  BY DEF Weight, Criterion
<1> QED
  BY <1>1, <1>4, <1>5 DEF Points

-----------------------------------------------------------------------------
(* The listing *)

(* A listing shows every manifest, whatever its order, once.               *)
LEMMA ListingShowsAll ==
  ASSUME NEW M, IsFiniteSet(M), NEW listing \in SetToSeqs(M)
  PROVE  /\ DOMAIN listing = 1 .. Cardinality(M) /\ Cardinality(M) \in Nat
         /\ \A i \in DOMAIN listing : listing[i] \in M
         /\ \A i, j \in DOMAIN listing : listing[i] = listing[j] => i = j
         /\ \A m \in M : \E i \in DOMAIN listing : listing[i] = m
<1> DEFINE D == 1 .. Cardinality(M)
<1>1. Cardinality(M) \in Nat
  BY FS_CardinalityType
<1>2. /\ listing \in [D -> M]
      /\ \A i, j \in D : i # j => listing[i] # listing[j]
  BY DEF SetToSeqs
<1>3. IsFiniteSet(D) /\ Cardinality(D) = Cardinality(M)
  BY <1>1, FS_Interval
<1>4. listing \in Injection(D, M)
  BY <1>2 DEF Injection, IsInjective
<1>5. listing \in Surjection(D, M)
  <2> HIDE DEF D
  <2> QED
    BY <1>3, <1>4, FS_Injection
<1>6. \A m \in M : \E i \in D : listing[i] = m
  BY <1>5 DEF Surjection
<1> QED
  BY <1>1, <1>2, <1>6

(* The first match exists, and no match precedes it.                       *)
LEMMA FirstIsFirst ==
  ASSUME NEW M, IsFiniteSet(M), NEW order,
         \A m \in M : Eligible(m, order) => m.priority \in Int,
         NEW listing \in SetToSeqs(M), Matches(listing, order) # {}
  PROVE  /\ First(listing, order) \in Matches(listing, order)
         /\ \A j \in Matches(listing, order) :
              ~Precedes(listing, order, j, First(listing, order))
<1> DEFINE S == Matches(listing, order)
           R == {pair \in S \X S : Precedes(listing, order, pair[1], pair[2])}
<1>1. /\ DOMAIN listing = 1 .. Cardinality(M) /\ Cardinality(M) \in Nat
      /\ \A i \in DOMAIN listing : listing[i] \in M
  BY ListingShowsAll
<1>2. S \in SUBSET (DOMAIN listing)
  BY DEF Matches
<1>3. IsFiniteSet(S)
  <2> HIDE DEF S
  <2>1. IsFiniteSet(1 .. Cardinality(M))
    BY <1>1, FS_Interval
  <2> QED
    BY <1>1, <1>2, <2>1, FS_Subset
<1>4. \A i \in S : /\ i \in Int /\ listing[i].priority \in Int
                   /\ Score(listing[i], order) \in Int
  BY <1>1, <1>2, ScoreType, ScoresIfEligible DEF Matches
<1>5. \A i, j \in S : <<i, j>> \in R <=> Precedes(listing, order, i, j)
  OBVIOUS
<1>6. \A i \in S : <<i, i>> \notin R
  BY <1>4 DEF Precedes, Before, SameKey
<1>7. \A i, j, k \in S : <<i, j>> \in R /\ <<j, k>> \in R => <<i, k>> \in R
  <2> SUFFICES ASSUME NEW i \in S, NEW j \in S, NEW k \in S,
                      Precedes(listing, order, i, j), Precedes(listing, order, j, k)
               PROVE  Precedes(listing, order, i, k)
    BY <1>5
  <2> HIDE DEF S
  <2> QED
    BY <1>4 DEF Precedes, Before, SameKey
<1>8. \E i \in S : \A j \in S : <<j, i>> \notin R
  <2> HIDE DEF S, R
  <2> QED
    BY <1>3, <1>6, <1>7, MinimalExists DEF S
<1>9. \E i \in S : \A j \in S : ~Precedes(listing, order, j, i)
  BY <1>5, <1>8
<1> QED
  BY <1>9 DEF First

(* One manifest comes before another one, or the other way round, or they  *)
(* tie.                                                                    *)
LEMMA BeforeOrTied ==
  ASSUME NEW m, NEW n, NEW order, m.priority \in Int, n.priority \in Int
  PROVE  /\ Before(m, n, order) \/ Before(n, m, order) \/ SameKey(m, n, order)
         /\ Before(m, n, order) => ~Before(n, m, order) /\ ~SameKey(n, m, order)
BY ScoreType DEF Before, SameKey

(* Among eligible manifests, coming before is beating.                     *)
LEMMA BeforeIsBeating ==
  ASSUME NEW m, NEW n, NEW order, Eligible(m, order), Eligible(n, order)
  PROVE  Before(m, n, order) <=>
           \/ Specificity(m) > Specificity(n)
           \/ Specificity(m) = Specificity(n) /\ m.priority > n.priority
BY ScoreIsSpecificity DEF Before

(* A winner is the first match, and nothing ties with it.                  *)
LEMMA WinnerIsFirst ==
  ASSUME NEW M, IsFiniteSet(M), NEW order,
         \A m \in M : Eligible(m, order) => m.priority \in Int,
         NEW listing \in SetToSeqs(M), NEW m \in Winners(M, order)
  PROVE  /\ Matches(listing, order) # {}
         /\ m = listing[First(listing, order)]
         /\ Tied(listing, order) = {}
<1> DEFINE S == Matches(listing, order)
           f == First(listing, order)
<1>1. /\ \A i \in DOMAIN listing : listing[i] \in M
      /\ \A i, j \in DOMAIN listing : listing[i] = listing[j] => i = j
  BY ListingShowsAll
<1>2. m \in M /\ Eligible(m, order)
  BY DEF Winners
<1>3. PICK i \in DOMAIN listing : listing[i] = m
  BY <1>2, ListingShowsAll
<1>4. i \in S
  BY <1>2, <1>3, ScoresIfEligible DEF Matches
<1>5. f \in S /\ \A j \in S : ~Precedes(listing, order, j, f)
  BY <1>4, FirstIsFirst
<1>6. \A j \in S : j \in DOMAIN listing /\ listing[j] \in M /\ Eligible(listing[j], order)
  BY <1>1, ScoresIfEligible DEF Matches
<1>7. ASSUME NEW j \in S, j # i
      PROVE  Before(m, listing[j], order)
  <2>1. listing[j] \in M \ {m} /\ Eligible(listing[j], order)
    BY <1>1, <1>3, <1>6, <1>7
  <2>2. \/ Specificity(m) > Specificity(listing[j])
        \/ Specificity(m) = Specificity(listing[j]) /\ m.priority > listing[j].priority
    BY <2>1 DEF Winners
  <2> QED
    BY <1>2, <2>1, <2>2, BeforeIsBeating
<1>8. f = i
  <2> SUFFICES ASSUME f # i PROVE FALSE
    OBVIOUS
  <2>1. Precedes(listing, order, i, f)
    BY <1>3, <1>5, <1>7 DEF Precedes
  <2> QED
    BY <1>4, <1>5, <2>1
<1>9. Tied(listing, order) = {}
  <2> SUFFICES ASSUME NEW j \in S, j # f, SameKey(listing[j], listing[f], order)
               PROVE  FALSE
    BY DEF Tied
  <2>1. Before(m, listing[j], order)
    BY <1>7, <1>8
  <2>2. listing[f] = m /\ m.priority \in Int /\ listing[j].priority \in Int
    BY <1>2, <1>3, <1>6, <1>8
  <2> QED
    BY <2>1, <2>2, BeforeOrTied
<1> QED
  BY <1>3, <1>4, <1>8, <1>9

(* The first match, when nothing ties with it, is a winner.                *)
LEMMA UntiedFirstWins ==
  ASSUME NEW M, IsFiniteSet(M), NEW order,
         \A m \in M : Eligible(m, order) => m.priority \in Int,
         NEW listing \in SetToSeqs(M),
         Matches(listing, order) # {}, Tied(listing, order) = {}
  PROVE  listing[First(listing, order)] \in Winners(M, order)
<1> DEFINE S == Matches(listing, order)
           f == First(listing, order)
           best == listing[f]
<1>1. f \in S /\ \A j \in S : ~Precedes(listing, order, j, f)
  BY FirstIsFirst
<1>2. f \in DOMAIN listing /\ best \in M /\ Eligible(best, order)
  BY <1>1, ListingShowsAll, ScoresIfEligible DEF Matches
<1>3. ASSUME NEW n \in M \ {best}, Eligible(n, order)
      PROVE  \/ Specificity(best) > Specificity(n)
             \/ Specificity(best) = Specificity(n) /\ best.priority > n.priority
  <2>1. PICK j \in DOMAIN listing : listing[j] = n
    BY ListingShowsAll
  <2>2. j \in S /\ j # f
    BY <1>3, <2>1, ScoresIfEligible DEF Matches
  <2>3. ~Before(n, best, order)
    BY <1>1, <2>1, <2>2 DEF Precedes
  <2>4. ~SameKey(n, best, order)
    BY <2>1, <2>2 DEF Tied
  <2>5. n.priority \in Int /\ best.priority \in Int
    BY <1>2, <1>3
  <2>6. Before(best, n, order)
    BY <2>3, <2>4, <2>5, BeforeOrTied
  <2> QED
    BY <1>2, <1>3, <2>6, BeforeIsBeating
<1> QED
  BY <1>2, <1>3 DEF Winners

(* A listing cannot be sorted exactly when its manifests cannot be routed. *)
LEMMA UnsortableIfUnroutable ==
  ASSUME NEW M, IsFiniteSet(M), NEW listing \in SetToSeqs(M), NEW order
  PROVE  Unsortable(listing, order) <=> Unroutable(M, order)
<1>1. /\ \A i \in DOMAIN listing : listing[i] \in M
      /\ \A m \in M : \E i \in DOMAIN listing : listing[i] = m
  BY ListingShowsAll
<1>2. \A i \in DOMAIN listing : i \in Matches(listing, order) <=> Eligible(listing[i], order)
  BY ScoresIfEligible DEF Matches
<1>3. Matches(listing, order) \subseteq DOMAIN listing
  BY DEF Matches
<1> QED
  BY <1>1, <1>2, <1>3 DEF Unsortable, Unroutable

(* match_skill, whatever the manifests, the order in which the directory   *)
(* lists them and the order to route: an exception exactly where the order *)
(* has a null list, a manifest cannot be scored, or one the order meets    *)
(* has no number for its priority; otherwise the skill of the one manifest *)
(* that beats every other eligible one, or an exception if its prompt is   *)
(* missing; and no skill when there is none.                               *)
THEOREM BestSkillFound ==
  ASSUME NEW M, IsFiniteSet(M), NEW order,
         \A m \in M : /\ m.ranked \in BOOLEAN /\ m.prompt \in BOOLEAN
                      /\ m.ranked => m.priority \in Int,
         NEW listing \in SetToSeqs(M), NEW noSkill
  PROVE  LET found == MatchSkill(listing, order, noSkill)
         IN  IF Unroutable(M, order)
             THEN found = "raises"
             ELSE \/ found = noSkill /\ Winners(M, order) = {}
                  \/ \E m \in Winners(M, order) :
                       found = IF m.prompt THEN m.skill ELSE "raises"
<1> DEFINE best == listing[First(listing, order)]
           found == MatchSkill(listing, order, noSkill)
<1>1. Unsortable(listing, order) <=> Unroutable(M, order)
  BY UnsortableIfUnroutable
<1>2. CASE Unsortable(listing, order)
  <2>1. found = "raises"
    BY <1>2 DEF MatchSkill
  <2> QED
    BY <1>1, <1>2, <2>1
<1>3. ASSUME ~Unsortable(listing, order)
      PROVE  \A m \in M : Eligible(m, order) => m.priority \in Int
  BY <1>1, <1>3 DEF Unroutable
<1>4. CASE /\ ~Unsortable(listing, order)
           /\ Matches(listing, order) = {} \/ Tied(listing, order) # {}
  <2>1. found = noSkill
    BY <1>4 DEF MatchSkill
  <2>2. Winners(M, order) = {}
    BY <1>3, <1>4, WinnerIsFirst
  <2> QED
    BY <1>1, <1>4, <2>1, <2>2
<1>5. CASE /\ ~Unsortable(listing, order)
           /\ Matches(listing, order) # {} /\ Tied(listing, order) = {}
  <2>1. found = IF best.prompt THEN best.skill ELSE "raises"
    BY <1>5 DEF MatchSkill
  <2>2. best \in Winners(M, order)
    BY <1>3, <1>5, UntiedFirstWins
  <2> QED
    BY <1>1, <1>5, <2>1, <2>2
<1> QED
  BY <1>2, <1>4, <1>5

=============================================================================

------------------------ MODULE TargetTrackingProofs ------------------------
(***************************************************************************)
(* Proofs about TargetTracking, for every number of slots, all scenes of   *)
(* separate clusters and all thresholds.                                   *)
(***************************************************************************)
EXTENDS TargetTracking, FiniteSetTheorems, WellFoundedInduction, TLAPS

-----------------------------------------------------------------------------
(***************************************************************************)
(* Natural numbers: the least of a set, induction over a set, ranks.       *)
(***************************************************************************)
LEMMA LeastOfNat ==
    ASSUME NEW S \in SUBSET Nat, S # {}
    PROVE  \E m \in S : \A n \in S : m <= n
<1> DEFINE R == OpToRel(<, Nat)
<1>1. IsWellFoundedOn(R, Nat)
  BY NatLessThanWellFounded
<1>2. \A m, n \in Nat : <<m, n>> \in R <=> m < n
  BY DEF OpToRel
<1> HIDE DEF R
<1>3. PICK m \in S : \A n \in S : ~(<<n, m>> \in R)
  BY <1>1, WFMin
<1>4. \A n \in S : m <= n
  <2> SUFFICES ASSUME NEW n \in S PROVE m <= n
    OBVIOUS
  <2>1. m \in Nat /\ n \in Nat /\ ~(n < m)
    BY <1>2, <1>3
  <2> QED
    BY <2>1
<1> QED
  BY <1>4

LEMMA SetInduction ==
    ASSUME NEW S \in SUBSET Nat, 0 \in S, \A n \in S : n + 1 \in S
    PROVE  S = Nat
<1> SUFFICES ASSUME Nat \ S # {} PROVE FALSE
  OBVIOUS
<1>1. PICK m \in Nat \ S : \A n \in Nat \ S : m <= n
  BY LeastOfNat
<1>2. m # 0 /\ m - 1 \in Nat /\ m - 1 \in S
  BY <1>1
<1> QED
  BY <1>1, <1>2

\* Two members of a finite set with equally many before them are the same.
LEMMA RankIsUnique ==
    ASSUME NEW S \in SUBSET Int, IsFiniteSet(S), NEW i \in S, NEW j \in S,
           Before(S, i) = Before(S, j)
    PROVE  i = j
<1>1. ASSUME NEW a \in S, NEW b \in S, a < b, Before(S, a) = Before(S, b)
      PROVE  FALSE
  <2> DEFINE A == {m \in S : m < a}
             B == {m \in S : m < b}
  <2>1. a \in Int /\ b \in Int /\ \A m \in S : m \in Int
    OBVIOUS
  <2>2. A \subseteq B /\ a \in B /\ a \notin A
    <3>1. ~(a < a) /\ \A m \in S : m < a => m < b
      BY <1>1, <2>1
    <3> QED
      BY <1>1, <3>1
  <2>3. IsFiniteSet(B)
    BY FS_Subset
  <2>4. Cardinality(A) = Cardinality(B)
    BY <1>1 DEF Before
  <2> HIDE DEF A, B
  <2> QED
    BY <2>2, <2>3, <2>4, FS_Subset
<1>2. ~(i < j)
  BY <1>1
<1>3. ~(j < i)
  BY <1>1
<1> QED
  BY <1>2, <1>3

\* Every number below the cardinality of a set is the rank of a member.
LEMMA RanksAreAll ==
    ASSUME NEW S \in SUBSET Nat, IsFiniteSet(S)
    PROVE  \A r \in Nat : r < Cardinality(S) => \E i \in S : Before(S, i) = r
<1> DEFINE R == {r \in Nat :
                   r < Cardinality(S) => \E i \in S : Before(S, i) = r}
<1>0. Cardinality(S) \in Nat
  BY FS_CardinalityType
<1>1. 0 \in R
  <2> SUFFICES ASSUME 0 < Cardinality(S)
               PROVE  \E i \in S : Before(S, i) = 0
    OBVIOUS
  <2>1. S # {}
    BY FS_EmptySet
  <2>2. PICK i \in S : \A n \in S : i <= n
    BY <2>1, LeastOfNat
  <2>3. {m \in S : m < i} = {}
    <3>1. \A m \in S : ~(m < i)
      <4> TAKE m \in S
      <4>1. i \in Nat /\ m \in Nat /\ i <= m
        BY <2>2
      <4> QED
        BY <4>1
    <3> QED
      BY <3>1
  <2> QED
    BY <2>3, FS_EmptySet DEF Before
<1>2. ASSUME NEW r \in R PROVE r + 1 \in R
  <2> SUFFICES ASSUME r + 1 < Cardinality(S)
               PROVE  \E j \in S : Before(S, j) = r + 1
    OBVIOUS
  <2>1. PICK i \in S : Before(S, i) = r
    BY <1>0
  <2> DEFINE L == {m \in S : m < i}
             U == {m \in S : i < m}
  <2>2. IsFiniteSet(L) /\ Cardinality(L) = r
    BY <2>1, FS_Subset DEF Before
  <2>3. IsFiniteSet(L \cup {i}) /\ Cardinality(L \cup {i}) = r + 1
    <3>1. i \notin L
      OBVIOUS
    <3> HIDE DEF L
    <3> QED
      BY <2>2, <3>1, FS_AddElement
  <2>4. U # {}
    <3> SUFFICES ASSUME U = {} PROVE FALSE
      OBVIOUS
    <3>1. S = L \cup {i}
      <4>1. ASSUME NEW m \in S PROVE m < i \/ m = i
        <5>1. m \in Nat /\ i \in Nat /\ ~(i < m)
          OBVIOUS
        <5> QED
          BY <5>1
      <4> QED
        BY <4>1
    <3> HIDE DEF L
    <3> QED
      BY <1>0, <2>3, <3>1
  <2>5. PICK j \in U : \A n \in U : j <= n
    BY <2>4, LeastOfNat
  <2>6. {m \in S : m < j} = L \cup {i}
    <3>1. j \in S /\ j \in Nat /\ i \in Nat /\ i < j
      OBVIOUS
    <3>2. ASSUME NEW m \in S PROVE m < j <=> m < i \/ m = i
      <4>1. m \in Nat /\ (i < m => j <= m)
        BY <2>5
      <4> QED
        BY <3>1, <4>1
    <3> QED
      BY <3>2
  <2> QED
    BY <2>3, <2>5, <2>6 DEF Before
<1> HIDE DEF R
<1>3. R = Nat
  <2>1. R \subseteq Nat
    BY DEF R
  <2> QED
    BY <1>1, <1>2, <2>1, SetInduction
<1> QED
  BY <1>3 DEF R

\* Counting before a member of a finite set stays below its cardinality.
LEMMA RankIsBelow ==
    ASSUME NEW S, IsFiniteSet(S), NEW i \in S, i \in Int
    PROVE  Before(S, i) \in Nat /\ Before(S, i) < Cardinality(S)
<1> DEFINE L == {m \in S : m < i}
<1>1. L \subseteq S /\ i \notin L
  OBVIOUS
<1>2. IsFiniteSet(L) /\ Cardinality(L) <= Cardinality(S)
      /\ (Cardinality(S) = Cardinality(L) => S = L)
  BY <1>1, FS_Subset
<1>3. Cardinality(L) \in Nat /\ Cardinality(S) \in Nat
  BY <1>2, FS_CardinalityType
<1>4. Cardinality(L) # Cardinality(S)
  BY <1>1, <1>2
<1> QED
  BY <1>2, <1>3, <1>4 DEF Before

-----------------------------------------------------------------------------
(***************************************************************************)
(* The recursion of RemoveDuplicateTargets: the function Left(t) exists.   *)
(***************************************************************************)
LEMMA LeftUnfolds ==
    ASSUME max_num_target \in Nat \ {0}, NEW t
    PROVE  /\ Left(t)[0] = Active(t)
           /\ \A i \in 1 .. LastOuter :
                Left(t)[i] = DropAround(t, Left(t)[i - 1], i)
<1> DEFINE Loop(g, n) ==
             g = [i \in 0 .. n |-> IF i = 0 THEN Active(t)
                                   ELSE DropAround(t, g[i - 1], i)]
           S == {n \in Nat : \E g : Loop(g, n)}
<1>1. 0 \in S
  <2> DEFINE g == [i \in 0 .. 0 |-> Active(t)]
  <2>1. Loop(g, 0)
    OBVIOUS
  <2> QED
    BY <2>1
<1>2. ASSUME NEW n \in S PROVE n + 1 \in S
  <2>1. PICK g : Loop(g, n)
    OBVIOUS
  <2> DEFINE h == [i \in 0 .. n + 1 |-> IF i = n + 1
                                        THEN DropAround(t, g[n], n + 1)
                                        ELSE g[i]]
  <2>2. n \in Nat
    OBVIOUS
  <2>3. \A i \in 0 .. n : g[i] = IF i = 0 THEN Active(t)
                                 ELSE DropAround(t, g[i - 1], i)
    <3> HIDE DEF h
    <3> QED
      BY <2>1
  <2>4. \A i \in 0 .. n + 1 : h[i] = IF i = 0 THEN Active(t)
                                     ELSE DropAround(t, h[i - 1], i)
    <3> SUFFICES ASSUME NEW i \in 0 .. n + 1
                 PROVE  h[i] = IF i = 0 THEN Active(t)
                               ELSE DropAround(t, h[i - 1], i)
      OBVIOUS
    <3>1. CASE i = 0
      BY <2>2, <2>3, <3>1
    <3>2. CASE i \in 1 .. n
      <4>1. h[i] = g[i] /\ h[i - 1] = g[i - 1]
        BY <2>2, <3>2
      <4> HIDE DEF h
      <4> QED
        BY <2>2, <2>3, <3>2, <4>1
    <3>3. CASE i = n + 1
      <4>1. h[i] = DropAround(t, g[n], n + 1) /\ h[i - 1] = g[n]
        BY <2>2, <3>3
      <4> HIDE DEF h
      <4> QED
        BY <2>2, <3>3, <4>1
    <3> QED
      BY <2>2, <3>1, <3>2, <3>3
  <2>5. Loop(h, n + 1)
    <3>1. h = [i \in 0 .. n + 1 |-> h[i]]
      OBVIOUS
    <3> HIDE DEF h
    <3> QED
      BY <2>4, <3>1
  <2> HIDE DEF h, Loop
  <2>6. \E g_1 : Loop(g_1, n + 1)
    BY <2>5
  <2> QED
    BY <2>2, <2>6
<1> HIDE DEF Loop
<1>3. S = Nat
  BY <1>1, <1>2, SetInduction
<1>4. LastOuter \in Nat
  BY DEF LastOuter
<1>5. \E g : Loop(g, LastOuter)
  BY <1>3, <1>4
<1>6. Loop(Left(t), LastOuter)
  <2>1. Left(t) = CHOOSE g : Loop(g, LastOuter)
    BY DEF Left, Loop
  <2> QED
    BY <1>5, <2>1
<1> DEFINE l == Left(t)
<1>7. l = [i \in 0 .. LastOuter |-> IF i = 0 THEN Active(t)
                                    ELSE DropAround(t, l[i - 1], i)]
  BY <1>6 DEF Loop
<1> HIDE DEF l
<1>8. l[0] = Active(t) /\ \A i \in 1 .. LastOuter : l[i] = DropAround(t, l[i - 1], i)
  BY <1>4, <1>7
<1> QED
  BY <1>8 DEF l

LEMMA LeftShrinks ==
    ASSUME max_num_target \in Nat \ {0}, NEW t
    PROVE  /\ \A n \in 0 .. LastOuter : Left(t)[n] \subseteq Active(t)
           /\ \A n \in 0 .. LastOuter, m \in 0 .. LastOuter :
                n <= m => Left(t)[m] \subseteq Left(t)[n]
<1> DEFINE l == Left(t)
           S == {m \in Nat : m <= LastOuter =>
                    \A n \in 0 .. m : l[m] \subseteq l[n]}
<1>0. LastOuter \in Nat
  BY DEF LastOuter
<1>1. l[0] = Active(t) /\ \A i \in 1 .. LastOuter : l[i] = DropAround(t, l[i - 1], i)
  BY LeftUnfolds
<1> HIDE DEF l
<1>2. ASSUME NEW i \in 1 .. LastOuter PROVE l[i] \subseteq l[i - 1]
  BY <1>1 DEF DropAround
<1>3. 0 \in S
  BY <1>0
<1>4. ASSUME NEW m \in S PROVE m + 1 \in S
  <2> SUFFICES ASSUME m + 1 <= LastOuter, NEW n \in 0 .. m + 1
               PROVE  l[m + 1] \subseteq l[n]
    OBVIOUS
  <2>1. m \in Nat /\ m + 1 \in 1 .. LastOuter
    BY <1>0
  <2>2. l[m + 1] \subseteq l[m]
    BY <1>2, <2>1
  <2>3. n \in 0 .. m => l[m] \subseteq l[n]
    BY <1>0, <2>1
  <2>4. n \in 0 .. m \/ n = m + 1
    BY <2>1
  <2> QED
    BY <2>2, <2>3, <2>4
<1> HIDE DEF S
<1>5. S = Nat
  BY <1>3, <1>4, SetInduction DEF S
<1>6. \A n \in 0 .. LastOuter, m \in 0 .. LastOuter :
         n <= m => l[m] \subseteq l[n]
  <2> SUFFICES ASSUME NEW n \in 0 .. LastOuter, NEW m \in 0 .. LastOuter, n <= m
               PROVE  l[m] \subseteq l[n]
    OBVIOUS
  <2>1. m \in S /\ m <= LastOuter /\ n \in 0 .. m
    BY <1>0, <1>5
  <2> QED
    BY <2>1 DEF S
<1>7. \A n \in 0 .. LastOuter : l[n] \subseteq Active(t)
  BY <1>0, <1>1, <1>6
<1> QED
  BY <1>6, <1>7 DEF l

(***************************************************************************)
(* One run of the inner loop, for a slot i that is still there: of every   *)
(* close pair one goes, and whoever goes leaves a close one behind, or was *)
(* dropped by i just before i was.                                         *)
(***************************************************************************)
Kinematic(t) == \A i \in Slots : t[i].x \in Int /\ t[i].v \in Int

LEMMA InnerLoop ==
    ASSUME max_num_target \in Nat \ {0}, NEW t, Kinematic(t),
           NEW alive \in SUBSET Slots, NEW i \in Slots
    PROVE  LET left == DropAround(t, alive, i)
           IN  /\ left \subseteq alive
               /\ i \in left => \A j \in left : j > i => ~Close(t, i, j)
               /\ i \in alive \ left => \E j \in left : Close(t, i, j)
               /\ \A s \in alive \ left : s # i => i \in alive /\ Close(t, i, s)
<1> DEFINE near     == {j \in alive : j > i /\ Close(t, i, j)}
           stronger == {j \in near : Abs(t[j].v) >= Abs(t[i].v)}
           before   == {j \in near : \A k \in stronger : j < k}
           left     == DropAround(t, alive, i)
<1>0. alive \subseteq Nat /\ i \in Nat
  BY DEF Slots
<1>1. CASE i \notin alive
  <2>1. left = alive
    BY <1>1 DEF DropAround
  <2> QED
    BY <1>1, <2>1
<1>2. CASE i \in alive /\ stronger = {}
  <2>1. left = alive \ near
    BY <1>2 DEF DropAround
  <2>2. i \notin near
    BY <1>0
  <2> QED
    BY <1>2, <2>1, <2>2
<1>3. CASE i \in alive /\ stronger # {}
  <2>1. left = alive \ (before \cup {i})
    BY <1>3 DEF DropAround
  <2>2. PICK j \in stronger : \A k \in stronger : j <= k
    <3>1. stronger \in SUBSET Nat
      BY <1>0
    <3> HIDE DEF stronger
    <3> QED
      BY <1>3, <3>1, LeastOfNat
  <2>3. j \in alive /\ j # i /\ Close(t, i, j) /\ j \notin before
    BY <1>0
  <2> QED
    BY <1>3, <2>1, <2>3
<1> QED
  BY <1>1, <1>2, <1>3

-----------------------------------------------------------------------------
(***************************************************************************)
(* Types                                                                   *)
(***************************************************************************)
LEMMA Limits ==
    /\ p_radius \in Nat /\ speed_threhold \in Nat /\ max_speed \in Nat
    /\ max_acceleration \in Nat /\ safe_distance \in Nat
    /\ VesselAt \in Int /\ VesselSpeed \in Int
BY LimitAssumption

LEMMA AbsOfInt ==
    ASSUME NEW n \in Int
    PROVE  /\ Abs(n) \in Nat /\ Abs(-n) = Abs(n)
           /\ Abs(n) = 0 <=> n = 0
BY DEF Abs

\* What RemoveImpossibleRadius leaves of a scene
Detections(found) ==
    /\ DOMAIN found \subseteq Nat \ {0} /\ IsFiniteSet(DOMAIN found)
    /\ \A k \in DOMAIN found : found[k] \in Int
    /\ \A k, l \in DOMAIN found : k # l => Abs(found[k] - found[l]) > p_radius

LEMMA SceneDetections ==
    ASSUME NEW scene \in Scenes
    PROVE  Detections(RemoveImpossibleRadius(scene))
<1> DEFINE found == RemoveImpossibleRadius(scene)
<1>1. /\ scene \in Seq([at : Int, plausible : BOOLEAN])
      /\ \A k, l \in DOMAIN scene :
            k # l => Abs(scene[k].at - scene[l].at) > p_radius
  BY SceneAssumption
<1>2. DOMAIN scene = 1 .. Len(scene) /\ Len(scene) \in Nat
  BY <1>1
<1>3. \A k \in DOMAIN scene : scene[k].at \in Int
  <2> DEFINE C == [at : Int, plausible : BOOLEAN]
  <2>1. \A k \in DOMAIN scene : scene[k] \in C
    <3>1. scene \in Seq(C)
      BY <1>1
    <3> HIDE DEF C
    <3> QED
      BY <3>1
  <2> QED
    BY <2>1
<1>4. DOMAIN found \subseteq DOMAIN scene
      /\ \A k \in DOMAIN found : found[k] = scene[k].at
  BY DEF RemoveImpossibleRadius
<1> HIDE DEF found
<1>5. IsFiniteSet(DOMAIN found)
  <2>1. IsFiniteSet(1 .. Len(scene))
    BY <1>2, FS_Interval
  <2> QED
    BY <1>2, <1>4, <2>1, FS_Subset
<1>6. DOMAIN found \subseteq Nat \ {0}
  BY <1>2, <1>4
<1>7. \A k \in DOMAIN found : found[k] \in Int
  BY <1>3, <1>4
<1>8. \A k, l \in DOMAIN found : k # l => Abs(found[k] - found[l]) > p_radius
  BY <1>1, <1>4
<1> QED
  BY <1>5, <1>6, <1>7, <1>8 DEF Detections, found

LEMMA TargetFields ==
    ASSUME NEW slot \in Targets
    PROVE  /\ slot.state \in {IDLE, ACQUIRING, ACQUIRED}
           /\ slot.x \in Int /\ slot.v \in Int
           /\ IDLE = 0 /\ ACQUIRING = 1 /\ ACQUIRED = 2
BY DEF Targets, IDLE, ACQUIRING, ACQUIRED

LEMMA MissedSlot ==
    ASSUME NEW slot \in Targets
    PROVE  /\ Missed(slot) \in Targets
           /\ Missed(slot).state # ACQUIRED
           /\ Missed(slot).state # IDLE =>
                slot.state = ACQUIRED /\ Missed(slot).x = slot.x + slot.v
<1>0. IDLE # ACQUIRED /\ ACQUIRING # ACQUIRED
  BY DEF IDLE, ACQUIRING, ACQUIRED
<1>1. SpeedFloor(slot.v) \in Int /\ slot.x + slot.v \in Int
  BY TargetFields DEF SpeedFloor
<1>2. CASE slot.state = ACQUIRED
  <2>1. Missed(slot) = [slot EXCEPT !.state = ACQUIRING,
                          !.x = slot.x + slot.v, !.v = SpeedFloor(slot.v)]
    BY <1>2 DEF Missed
  <2> QED
    BY <1>0, <1>1, <1>2, <2>1 DEF Targets
<1>3. CASE slot.state # ACQUIRED
  <2>1. Missed(slot) = [state |-> IDLE, x |-> 0, v |-> 0,
                         intention |-> slot.intention, TCPA |-> slot.TCPA]
    BY <1>3 DEF Missed, Targets
  <2> QED
    BY <1>0, <2>1 DEF Targets
<1> QED
  BY <1>2, <1>3

LEMMA SeenSlot ==
    ASSUME NEW slot \in Targets, NEW at \in Int
    PROVE  /\ Seen(slot, at) \in Targets
           /\ Seen(slot, at).state # IDLE /\ Seen(slot, at).x = at
           /\ Seen(slot, at).state = ACQUIRED => slot.state # IDLE
           /\ Seen(slot, at).v \in {0, at - slot.x}
<1>0. IDLE # ACQUIRED /\ ACQUIRING # ACQUIRED /\ ACQUIRING # IDLE
  BY DEF IDLE, ACQUIRING, ACQUIRED
<1>1. SpeedFloor(at - slot.x) \in Int /\ SpeedFloor(at - slot.x) \in {0, at - slot.x}
  BY TargetFields DEF SpeedFloor
<1>2. CASE slot.state = IDLE
  <2>1. Seen(slot, at) = [state |-> ACQUIRING, x |-> at, v |-> 0,
                           intention |-> slot.intention, TCPA |-> slot.TCPA]
    BY <1>2 DEF Seen, Targets
  <2> QED
    BY <1>0, <2>1 DEF Targets
<1>3. CASE slot.state # IDLE
  <2>1. Seen(slot, at) = [slot EXCEPT !.state = ACQUIRED, !.x = at,
                                      !.v = SpeedFloor(at - slot.x)]
    BY <1>3 DEF Seen
  <2> QED
    BY <1>0, <1>1, <1>3, <2>1 DEF Targets
<1> QED
  BY <1>2, <1>3

LEMMA JudgedSlot ==
    ASSUME NEW slot \in Targets, NEW position \in Int, NEW speed \in Int
    PROVE  /\ Judge(slot, position, speed) \in Targets
           /\ Judge(slot, position, speed).state = slot.state
           /\ Judge(slot, position, speed).x = slot.x
           /\ Judge(slot, position, speed).v = slot.v
BY DEF Judge, Targets, SAFE, DANGEROUS

-----------------------------------------------------------------------------
(***************************************************************************)
(* Matching.  A slot that may match a detection does, and with radii out   *)
(* of play the one with the least loss.                                    *)
(***************************************************************************)
LEMMA SomeIsLeast ==
    ASSUME NEW slot \in Targets, NEW found, Detections(found),
           Admissible(slot, found) # {}
    PROVE  \E k \in Admissible(slot, found) : LeastLoss(slot, found, k)
<1> DEFINE Loss(k) == Abs(found[k] - slot.x - slot.v)
           A == Admissible(slot, found)
           Losses == {Loss(k) : k \in A}
<1>1. A \subseteq DOMAIN found
  BY DEF Admissible
<1>2. \A k \in A : found[k] \in Int /\ k \in Nat
  BY <1>1 DEF Detections
<1>3. \A k \in A : Loss(k) \in Nat
  <2> TAKE k \in A
  <2>1. found[k] - slot.x - slot.v \in Int
    BY <1>2, TargetFields
  <2> QED
    BY <2>1, AbsOfInt
<1>4. \A k \in A : LeastLoss(slot, found, k) <=>
        \A l \in A : Loss(k) < Loss(l) \/ (Loss(k) = Loss(l) /\ k <= l)
  BY DEF LeastLoss
<1>5. A # {}
  OBVIOUS
<1> HIDE DEF Loss, A
<1>6. Losses \in SUBSET Nat /\ Losses # {}
  BY <1>3, <1>5
<1>7. PICK m \in Losses : \A n \in Losses : m <= n
  BY <1>6, LeastOfNat
<1> DEFINE Best == {k \in A : Loss(k) = m}
<1>8. Best \in SUBSET Nat /\ Best # {}
  BY <1>2, <1>7
<1>9. PICK k \in Best : \A l \in Best : k <= l
  BY <1>8, LeastOfNat
<1>10. \A l \in A : Loss(k) < Loss(l) \/ (Loss(k) = Loss(l) /\ k <= l)
  <2> TAKE l \in A
  <2>1. Loss(k) = m /\ m <= Loss(l) /\ m \in Nat /\ Loss(l) \in Nat
    BY <1>3, <1>6, <1>7, <1>9
  <2>2. CASE Loss(l) = m
    BY <1>9, <2>1, <2>2
  <2>3. CASE Loss(l) # m
    BY <2>1, <2>3
  <2> QED
    BY <2>2, <2>3
<1>11. k \in A
  BY <1>9
<1>12. LeastLoss(slot, found, k)
  BY <1>4, <1>10, <1>11
<1> QED
  BY <1>11, <1>12 DEF A

LEMMA BestOfAdmissible ==
    ASSUME NEW slot \in Targets, NEW found, Detections(found),
           NEW k \in BestMatches(slot, found)
    PROVE  /\ k = 0 \/ k \in Admissible(slot, found)
           /\ k = 0 => Admissible(slot, found) = {}
           /\ k # 0 /\ equalRadii => LeastLoss(slot, found, k)
<1> DEFINE best == {l \in Admissible(slot, found) :
                      equalRadii => LeastLoss(slot, found, l)}
<1>1. BestMatches(slot, found) = IF best = {} THEN {0} ELSE best
  BY DEF BestMatches
<1>2. 0 \notin Admissible(slot, found)
  BY DEF Admissible, Detections
<1>3. best = {} => Admissible(slot, found) = {}
  BY SomeIsLeast
<1> QED
  BY <1>1, <1>2, <1>3

LEMMA AdmissibleWithin ==
    ASSUME NEW slot, NEW found, NEW k \in Admissible(slot, found)
    PROVE  k \in DOMAIN found /\ Abs(found[k] - slot.x) <= max_speed
BY DEF Admissible

-----------------------------------------------------------------------------
(***************************************************************************)
(* One revolution: found is what was detected, match the slots' matches,   *)
(* t the slots after SituationAwareness.                                   *)
(***************************************************************************)
Matching(found, matched, match) ==
    /\ Detections(found)
    /\ matched \in [Active(track) -> DOMAIN found \cup {0}]
    /\ \A i \in Active(track) : matched[i] \in BestMatches(track[i], found)
    /\ match = TargetIdentification(track, found, matched)

Judged(found, match) == SituationAwareness(PredictMotion(track, found, match))

LEMMA Revolution ==
    ASSUME NEW scene \in Scenes, LeaveAlarmZone(scene)
    PROVE  /\ UNCHANGED build /\ Detections(detection')
           /\ \E matched, match :
                /\ Matching(detection', matched, match)
                /\ track' = RemoveDuplicateTargets(Judged(detection', match))
BY SceneDetections DEF LeaveAlarmZone, Matching, Judged

LEMMA Matched ==
    ASSUME TypeOK, NEW found, NEW matched, NEW match,
           Matching(found, matched, match)
    PROVE  /\ \A i \in Active(track) : match[i] = matched[i]
           /\ \A i \in Slots : match[i] \in DOMAIN found \cup {0}
<1>1. \A i \in Slots : match[i] =
        LET idle      == Slots \ Active(track)
            unmatched == DOMAIN found \ Range(matched)
            next      == {k \in unmatched :
                            Before(unmatched, k) = Before(idle, i)}
        IN  CASE i \in Active(track) -> matched[i]
              [] i \in idle /\ next # {} -> CHOOSE k \in next : TRUE
              [] OTHER -> 0
  BY DEF Matching, TargetIdentification
<1>2. Active(track) \subseteq Slots
  BY DEF Active
<1>3. \A i \in Active(track) : match[i] = matched[i]
  BY <1>1, <1>2
<1>4. \A i \in Slots \ Active(track) : match[i] \in DOMAIN found \cup {0}
  BY <1>1
<1> QED
  BY <1>2, <1>3, <1>4 DEF Matching

\* What a slot is after a revolution, before the duplicates go
LEMMA JudgedFields ==
    ASSUME TypeOK, NEW found, NEW matched, NEW match,
           Matching(found, matched, match), NEW i \in Slots
    PROVE  LET t == Judged(found, match)
           IN  /\ t[i] \in Targets
               /\ match[i] # 0 => /\ match[i] \in DOMAIN found
                                  /\ t[i].state # IDLE
                                  /\ t[i].x = found[match[i]]
               /\ match[i] = 0 /\ t[i].state # IDLE =>
                    /\ track[i].state = ACQUIRED /\ i \in Active(track)
                    /\ t[i].x = track[i].x + track[i].v
                    /\ Admissible(track[i], found) = {}
               /\ t[i].state = ACQUIRED =>
                    /\ match[i] # 0 /\ i \in Active(track)
                    /\ match[i] \in Admissible(track[i], found)
                    /\ t[i].v \in {0, found[match[i]] - track[i].x}
<1> DEFINE t == Judged(found, match)
           moved == IF match[i] = 0 THEN Missed(track[i])
                                    ELSE Seen(track[i], found[match[i]])
<1>1. track[i] \in Targets
  BY DEF TypeOK
<1>2. match[i] \in DOMAIN found \cup {0} /\ 0 \notin DOMAIN found
  BY Matched DEF Matching, Detections
<1>3. match[i] # 0 => found[match[i]] \in Int
  BY <1>2 DEF Matching, Detections
<1>4. t[i] = Judge(moved, VesselSpeed, VesselSpeed)
  BY DEF Judged, SituationAwareness, PredictMotion
<1>5. moved \in Targets
  BY <1>1, <1>3, MissedSlot, SeenSlot
<1> HIDE DEF t, moved
<1>6. t[i] \in Targets /\ t[i].state = moved.state /\ t[i].x = moved.x
      /\ t[i].v = moved.v
  BY <1>4, <1>5, Limits, JudgedSlot
<1>7. i \in Active(track) => match[i] \in BestMatches(track[i], found)
  BY Matched DEF Matching
<1>8. i \in Active(track) =>
        /\ match[i] = 0 \/ match[i] \in Admissible(track[i], found)
        /\ match[i] = 0 => Admissible(track[i], found) = {}
  BY <1>1, <1>7, BestOfAdmissible DEF Matching
<1>9. i \in Active(track) <=> track[i].state # IDLE
  BY DEF Active
<1>10. ACQUIRED # IDLE
  BY DEF ACQUIRED, IDLE
<1>11. CASE match[i] = 0
  <2>1. moved = Missed(track[i])
    BY <1>11 DEF moved
  <2>2. /\ moved.state # ACQUIRED
        /\ moved.state # IDLE => track[i].state = ACQUIRED
                                 /\ moved.x = track[i].x + track[i].v
    BY <1>1, <2>1, MissedSlot
  <2> QED
    BY <1>6, <1>8, <1>9, <1>10, <1>11, <2>2 DEF t
<1>12. CASE match[i] # 0
  <2>1. moved = Seen(track[i], found[match[i]])
    BY <1>12 DEF moved
  <2>2. /\ moved.state # IDLE /\ moved.x = found[match[i]]
        /\ moved.state = ACQUIRED => track[i].state # IDLE
        /\ moved.v \in {0, found[match[i]] - track[i].x}
    BY <1>1, <1>3, <2>1, <1>12, SeenSlot
  <2> QED
    BY <1>2, <1>6, <1>8, <1>9, <1>12, <2>2 DEF t
<1> QED
  BY <1>11, <1>12

LEMMA ThinnedFields ==
    ASSUME max_num_target \in Nat \ {0}, NEW t, \A i \in Slots : t[i] \in Targets
    PROVE  LET new == RemoveDuplicateTargets(t)
           IN  /\ new \in [Slots -> Targets]
               /\ Active(new) = Left(t)[LastOuter]
               /\ \A i \in Slots : /\ new[i].x = t[i].x /\ new[i].v = t[i].v
                                   /\ new[i].state # IDLE => new[i] = t[i]
<1> DEFINE new == RemoveDuplicateTargets(t)
           l == Left(t)[LastOuter]
<1>1. new = [i \in Slots |-> IF i \in l THEN t[i] ELSE [t[i] EXCEPT !.state = IDLE]]
  BY DEF RemoveDuplicateTargets
<1>2. l \subseteq Active(t)
  BY LeftShrinks DEF LastOuter
<1> HIDE DEF new, l
<1>3. \A i \in Slots : /\ [t[i] EXCEPT !.state = IDLE] \in Targets
                       /\ [t[i] EXCEPT !.state = IDLE].state = IDLE
                       /\ [t[i] EXCEPT !.state = IDLE].x = t[i].x
                       /\ [t[i] EXCEPT !.state = IDLE].v = t[i].v
  BY DEF Targets
<1>4. \A i \in Slots : i \in l => t[i].state # IDLE
  BY <1>2 DEF Active
<1>5. l \subseteq Slots
  BY <1>2 DEF Active
<1>6. Active(new) = l
  BY <1>1, <1>3, <1>4, <1>5 DEF Active
<1>7. new \in [Slots -> Targets]
  BY <1>1, <1>3
<1>8. \A i \in Slots : /\ new[i].x = t[i].x /\ new[i].v = t[i].v
                       /\ new[i].state # IDLE => new[i] = t[i]
  BY <1>1, <1>3
<1> QED
  BY <1>6, <1>7, <1>8 DEF new, l

LEMMA SomeSlots == TypeOK => max_num_target \in Nat \ {0}
BY SlotAssumption DEF TypeOK

-----------------------------------------------------------------------------
(***************************************************************************)
(* The typed state space                                                   *)
(***************************************************************************)
LEMMA TypeAtStart == Init => TypeOK
<1> SUFFICES ASSUME Init PROVE TypeOK
  OBVIOUS
<1>1. NoTarget \in Targets
  BY DEF NoTarget, Targets, IDLE, SAFE, DANGEROUS
<1>2. DOMAIN detection \subseteq Nat /\ Range(detection) \subseteq Int
  <2>1. DOMAIN detection = {}
    BY DEF Init
  <2> QED
    BY <2>1 DEF Range
<1> QED
  BY <1>1, <1>2 DEF Init, TypeOK

LEMMA TypeStep == TypeOK /\ [Next]_vars => TypeOK'
<1> SUFFICES ASSUME TypeOK, [Next]_vars PROVE TypeOK'
  OBVIOUS
<1>1. CASE UNCHANGED vars
  BY <1>1 DEF vars, build, TypeOK, Slots
<1>2. CASE Next
  <2>1. PICK scene \in Scenes : LeaveAlarmZone(scene)
    BY <1>2 DEF Next
  <2>2. /\ UNCHANGED build /\ Detections(detection')
        /\ \E matched, match :
             /\ Matching(detection', matched, match)
             /\ track' = RemoveDuplicateTargets(Judged(detection', match))
    BY <2>1, Revolution
  <2>3. PICK matched, match :
             /\ Matching(detection', matched, match)
             /\ track' = RemoveDuplicateTargets(Judged(detection', match))
    BY <2>2
  <2>4. \A i \in Slots : Judged(detection', match)[i] \in Targets
    BY <2>3, JudgedFields
  <2>5. track' \in [Slots -> Targets]
    BY <2>3, <2>4, SomeSlots, ThinnedFields
  <2>6. DOMAIN detection' \subseteq Nat /\ Range(detection') \subseteq Int
    BY <2>2 DEF Detections, Range
  <2> QED
    BY <2>2, <2>5, <2>6 DEF TypeOK, build, Slots
<1> QED
  BY <1>1, <1>2

THEOREM TypeCorrect == Spec => []TypeOK
<1> QED
  BY TypeAtStart, TypeStep, PTL DEF Spec

-----------------------------------------------------------------------------
(***************************************************************************)
(* No target twice.  A slot that is left at the end was there when its     *)
(* turn in the outer loop came, and so was any other that is left: the     *)
(* inner loop would have dropped one of them had they been close.          *)
(***************************************************************************)
LEMMA KinematicJudged ==
    ASSUME NEW t, \A i \in Slots : t[i] \in Targets
    PROVE  Kinematic(t)
BY TargetFields DEF Kinematic

LEMMA NoneClose ==
    ASSUME max_num_target \in Nat \ {0}, NEW t, Kinematic(t),
           NEW i \in Left(t)[LastOuter], NEW j \in Left(t)[LastOuter], i < j
    PROVE  ~Close(t, i, j)
<1>1. LastOuter \in Nat /\ LastOuter = max_num_target - 1
  BY DEF LastOuter
<1>2. i \in Slots /\ j \in Slots
  BY <1>1, LeftShrinks DEF Active
<1>3. i \in 1 .. LastOuter /\ i - 1 \in 0 .. LastOuter /\ i - 1 <= i
  BY <1>1, <1>2 DEF Slots
<1>4. Left(t)[i] = DropAround(t, Left(t)[i - 1], i)
  BY <1>3, LeftUnfolds
<1>5. i \in Left(t)[i] /\ j \in Left(t)[i]
  <2>1. Left(t)[LastOuter] \subseteq Left(t)[i]
    BY <1>1, <1>3, LeftShrinks
  <2> QED
    BY <2>1
<1>6. Left(t)[i - 1] \subseteq Slots
  BY <1>3, LeftShrinks DEF Active
<1> QED
  BY <1>2, <1>4, <1>5, <1>6, InnerLoop

(***************************************************************************)
(* The picture given to the planner holds no target twice, for any number  *)
(* of slots and whatever the radar sees.                                   *)
(***************************************************************************)
THEOREM TargetsDistinct == Spec => []NoDuplicates
<1>1. Init => NoDuplicates
  BY DEF Init, NoDuplicates, Active, NoTarget, Slots
<1>2. TypeOK /\ NoDuplicates /\ [Next]_vars => NoDuplicates'
  <2> SUFFICES ASSUME TypeOK, NoDuplicates, [Next]_vars PROVE NoDuplicates'
    OBVIOUS
  <2>1. CASE UNCHANGED vars
    BY <2>1 DEF vars, build, NoDuplicates, Active, Slots
  <2>2. CASE Next
    <3>1. PICK scene \in Scenes : LeaveAlarmZone(scene)
      BY <2>2 DEF Next
    <3>2. PICK matched, match :
             /\ Matching(detection', matched, match)
             /\ track' = RemoveDuplicateTargets(Judged(detection', match))
      BY <3>1, Revolution
    <3> DEFINE t == Judged(detection', match)
    <3>3. \A i \in Slots : t[i] \in Targets
      BY <3>2, JudgedFields
    <3>4. max_num_target \in Nat \ {0}
      BY SomeSlots
    <3>5. track' = RemoveDuplicateTargets(t)
      BY <3>2
    <3> HIDE DEF t
    <3>6. /\ Active(track') = Left(t)[LastOuter]
          /\ \A i \in Slots : track'[i].x = t[i].x
      BY <3>3, <3>4, <3>5, ThinnedFields
    <3>7. ASSUME NEW i \in Active(track'), NEW j \in Active(track'), i # j
          PROVE  Abs(t[i].x - t[j].x) > p_radius
      <4>1. Kinematic(t)
        BY <3>3, KinematicJudged
      <4>2. i \in Slots /\ j \in Slots
        BY DEF Active
      <4>3. /\ i \in Int /\ j \in Int /\ t[i].x \in Int /\ t[j].x \in Int
        BY <4>1, <4>2 DEF Slots, Kinematic
      <4>4. ~Close(t, i, j) \/ ~Close(t, j, i)
        BY <3>4, <3>6, <3>7, <4>1, <4>3, NoneClose
      <4> QED
        BY <4>3, <4>4, Limits DEF Close, Abs
    <3>8. \A i \in Active(track') : i \in Slots
      BY DEF Active
    <3>9. Active(track)' = Active(track')
      BY <3>1 DEF LeaveAlarmZone, build, Active, Slots
    <3> QED
      BY <3>6, <3>7, <3>8, <3>9 DEF NoDuplicates
  <2> QED
    BY <2>1, <2>2
<1> QED
  BY <1>1, <1>2, TypeAtStart, TypeStep, PTL DEF Spec

-----------------------------------------------------------------------------
(***************************************************************************)
(* Coasting.  What is ACQUIRED was just seen where it is, no faster than   *)
(* max_speed: so only it can be coasted, and what has been coasted is      *)
(* ACQUIRING, to be seen again or dropped.                                 *)
(***************************************************************************)
AcquiredSeen ==
    \A i \in Slots : track[i].state = ACQUIRED =>
        AtDetection(i) /\ Abs(track[i].v) <= max_speed

LEMMA AcquiredStep == TypeOK /\ AcquiredSeen /\ [Next]_vars => AcquiredSeen'
<1> SUFFICES ASSUME TypeOK, AcquiredSeen, [Next]_vars PROVE AcquiredSeen'
  OBVIOUS
<1>1. CASE UNCHANGED vars
  BY <1>1 DEF vars, build, AcquiredSeen, AtDetection, Slots
<1>2. CASE Next
  <2>1. PICK scene \in Scenes : LeaveAlarmZone(scene)
    BY <1>2 DEF Next
  <2>2. PICK matched, match :
           /\ Matching(detection', matched, match)
           /\ track' = RemoveDuplicateTargets(Judged(detection', match))
    BY <2>1, Revolution
  <2> DEFINE t == Judged(detection', match)
  <2>3. \A i \in Slots : t[i] \in Targets
    BY <2>2, JudgedFields
  <2>4. track' = RemoveDuplicateTargets(t) /\ max_num_target \in Nat \ {0}
    BY <2>2, SomeSlots
  <2>5. Slots' = Slots
    BY <2>1 DEF LeaveAlarmZone, build, Slots
  <2>6. ASSUME NEW i \in Slots, t[i].state = ACQUIRED
        PROVE  t[i].x \in Range(detection') /\ Abs(t[i].v) <= max_speed
    <3>1. /\ match[i] # 0 /\ match[i] \in DOMAIN detection'
          /\ t[i].x = detection'[match[i]]
          /\ match[i] \in Admissible(track[i], detection')
          /\ t[i].v \in {0, detection'[match[i]] - track[i].x}
      BY <2>2, <2>6, JudgedFields
    <3>2. Abs(detection'[match[i]] - track[i].x) <= max_speed /\ Abs(0) <= max_speed
      BY <3>1, AdmissibleWithin, Limits DEF Abs
    <3> QED
      BY <3>1, <3>2 DEF Range
  <2> HIDE DEF t
  <2>7. \A i \in Slots : /\ track'[i].x = t[i].x /\ track'[i].v = t[i].v
                         /\ track'[i].state # IDLE => track'[i] = t[i]
    BY <2>3, <2>4, ThinnedFields
  <2>8. ACQUIRED # IDLE
    BY DEF ACQUIRED, IDLE
  <2> QED
    BY <2>5, <2>6, <2>7, <2>8 DEF AcquiredSeen, AtDetection
<1> QED
  BY <1>1, <1>2

LEMMA AcquiredAtStart == Init => AcquiredSeen
BY DEF Init, AcquiredSeen, NoTarget, IDLE, ACQUIRED

(***************************************************************************)
(* A target is coasted over one missed revolution, never over two.         *)
(***************************************************************************)
THEOREM CoastedOnce == Spec => CoastsOnce
<1>1. TypeOK /\ AcquiredSeen /\ [Next]_vars =>
        [\A i \in Active(track) \cap Active(track') :
            AtDetection(i) \/ AtDetection(i)']_vars
  <2> SUFFICES ASSUME TypeOK, AcquiredSeen, Next,
                      NEW i \in Active(track) \cap Active(track'),
                      ~AtDetection(i)
               PROVE  AtDetection(i)'
    OBVIOUS
  <2>1. PICK scene \in Scenes : LeaveAlarmZone(scene)
    BY DEF Next
  <2>2. PICK matched, match :
           /\ Matching(detection', matched, match)
           /\ track' = RemoveDuplicateTargets(Judged(detection', match))
    BY <2>1, Revolution
  <2> DEFINE t == Judged(detection', match)
  <2>3. \A j \in Slots : t[j] \in Targets
    BY <2>2, JudgedFields
  <2>4. track' = RemoveDuplicateTargets(t) /\ max_num_target \in Nat \ {0}
    BY <2>2, SomeSlots
  <2>5. i \in Slots /\ track'[i].state # IDLE
    BY DEF Active
  <2>6. track[i].state # ACQUIRED
    BY <2>5 DEF AcquiredSeen
  <2>7. t[i].state # IDLE => /\ match[i] # 0 /\ match[i] \in DOMAIN detection'
                             /\ t[i].x = detection'[match[i]]
    BY <2>2, <2>5, <2>6, JudgedFields
  <2> HIDE DEF t
  <2>8. track'[i] = t[i]
    BY <2>3, <2>4, <2>5, ThinnedFields
  <2> QED
    BY <2>5, <2>7, <2>8 DEF AtDetection, Range
<1> QED
  BY <1>1, TypeAtStart, TypeStep, AcquiredAtStart, AcquiredStep, PTL
     DEF Spec, CoastsOnce

-----------------------------------------------------------------------------
(***************************************************************************)
(* Nothing is overlooked.  A target that RemoveDuplicateTargets drops      *)
(* leaves another one at its place, or was close to one elsewhere.         *)
(***************************************************************************)
LEMMA StaysOrNear ==
    ASSUME max_num_target \in Nat \ {0}, NEW t, Kinematic(t), NEW at \in Int,
           \E i \in Active(t) : t[i].x = at
    PROVE  \/ \E i \in Left(t)[LastOuter] : t[i].x = at
           \/ \E j \in Active(t) : t[j].x # at /\ Abs(t[j].x - at) <= p_radius
<1> DEFINE l == Left(t)
           Stays(n) == \E i \in l[n] : t[i].x = at
           Near     == \E j \in Active(t) :
                          t[j].x # at /\ Abs(t[j].x - at) <= p_radius
           S == {n \in Nat : n <= LastOuter => Stays(n) \/ Near}
<1>0. LastOuter \in Nat /\ LastOuter = max_num_target - 1
  BY DEF LastOuter
<1>1. l[0] = Active(t) /\ \A i \in 1 .. LastOuter : l[i] = DropAround(t, l[i - 1], i)
  BY LeftUnfolds
<1>2. \A n \in 0 .. LastOuter : l[n] \subseteq Active(t)
  BY LeftShrinks
<1> HIDE DEF l
<1>3. 0 \in S
  BY <1>1
<1>4. ASSUME NEW n \in S PROVE n + 1 \in S
  <2> SUFFICES ASSUME n + 1 <= LastOuter, ~Near PROVE Stays(n + 1)
    OBVIOUS
  <2>1. n \in Nat /\ n + 1 \in 1 .. LastOuter /\ n \in 0 .. LastOuter
        /\ n + 1 \in 0 .. LastOuter /\ n + 1 \in Slots /\ (n + 1) - 1 = n
    BY <1>0 DEF Slots
  <2>2. PICK s \in l[n] : t[s].x = at
    BY <1>0, <2>1
  <2> DEFINE m == n + 1
  <2>3. l[m] = DropAround(t, l[n], m)
    BY <1>1, <2>1
  <2>4. l[n] \subseteq Slots /\ l[n] \subseteq Active(t) /\ l[m] \subseteq Active(t)
    BY <1>2, <2>1 DEF Active
  <2>5. m \in Slots
    BY <2>1
  <2> HIDE DEF m
  <2>6. /\ m \in l[n] \ l[m] => \E j \in l[m] : Close(t, m, j)
        /\ \A i \in l[n] \ l[m] : i # m => m \in l[n] /\ Close(t, m, i)
    BY <2>3, <2>4, <2>5, InnerLoop
  <2>7. ASSUME NEW i \in Active(t), NEW j \in Active(t), Close(t, i, j),
               t[i].x = at \/ t[j].x = at
        PROVE  t[i].x = at /\ t[j].x = at
    <3>1. i \in Slots /\ j \in Slots
      BY DEF Active
    <3>2. t[i].x \in Int /\ t[j].x \in Int
      BY <3>1 DEF Kinematic
    <3>3. Abs(t[i].x - t[j].x) <= p_radius /\ Abs(t[j].x - t[i].x) <= p_radius
      BY <2>7, <3>2, Limits DEF Close, Abs
    <3> QED
      BY <2>7, <3>3
  <2> HIDE DEF Near
  <2>8. m \in l[n] \ l[m] /\ t[m].x = at => Stays(m)
    BY <2>4, <2>6, <2>7
  <2>9. CASE s \in l[m]
    BY <2>2, <2>9 DEF m
  <2>10. CASE s \notin l[m] /\ s = m
    BY <2>2, <2>8, <2>10 DEF m
  <2>11. CASE s \notin l[m] /\ s # m
    <3>1. m \in l[n] /\ Close(t, m, s)
      BY <2>2, <2>6, <2>11
    <3>2. t[m].x = at
      BY <2>2, <2>4, <2>7, <3>1
    <3>3. Stays(m)
      BY <2>8, <3>1, <3>2
    <3> QED
      BY <3>3 DEF m
  <2> QED
    BY <2>9, <2>10, <2>11
<1> HIDE DEF S
<1>5. S = Nat
  <2>1. S \in SUBSET Nat
    BY DEF S
  <2> QED
    BY <1>3, <1>4, <2>1, SetInduction
<1>6. Stays(LastOuter) \/ Near
  BY <1>0, <1>5 DEF S
<1> QED
  BY <1>6 DEF l

\* What is predicted near a detection without being there was denied them all.
LEMMA OnlyIntrudersAreNear ==
    ASSUME TypeOK, NEW found, NEW matched, NEW match,
           Matching(found, matched, match), NEW k \in DOMAIN found,
           NEW j \in Active(Judged(found, match)),
           Judged(found, match)[j].x # found[k],
           Abs(Judged(found, match)[j].x - found[k]) <= p_radius
    PROVE  /\ j \in Active(track) /\ track[j].state = ACQUIRED
           /\ Admissible(track[j], found) = {}
           /\ Abs(track[j].x + track[j].v - found[k]) <= p_radius
<1> DEFINE t == Judged(found, match)
<1>1. j \in Slots /\ t[j].state # IDLE
  BY DEF Active
<1>2. /\ match[j] # 0 => match[j] \in DOMAIN found /\ t[j].x = found[match[j]]
      /\ match[j] = 0 => /\ track[j].state = ACQUIRED /\ j \in Active(track)
                         /\ t[j].x = track[j].x + track[j].v
                         /\ Admissible(track[j], found) = {}
  BY <1>1, JudgedFields
<1>3. t[j].x # found[k] /\ Abs(t[j].x - found[k]) <= p_radius
  OBVIOUS
<1> HIDE DEF t
<1>4. match[j] = 0
  <2> SUFFICES ASSUME match[j] # 0 PROVE FALSE
    OBVIOUS
  <2>1. match[j] \in DOMAIN found /\ match[j] # k
    BY <1>2, <1>3
  <2>2. Abs(found[match[j]] - found[k]) > p_radius
        /\ found[match[j]] \in Int /\ found[k] \in Int
    BY <2>1 DEF Matching, Detections
  <2>3. Abs(found[match[j]] - found[k]) <= p_radius
    BY <1>2, <1>3
  <2> QED
    BY <2>2, <2>3, AbsOfInt, Limits
<1>5. Abs(track[j].x + track[j].v - found[k]) <= p_radius
  <2>1. t[j].x = track[j].x + track[j].v
    BY <1>2, <1>4
  <2>2. track[j].x \in Int /\ track[j].v \in Int /\ found[k] \in Int
    BY <1>1, TargetFields DEF TypeOK, Matching, Detections
  <2>3. t[j].x - found[k] = track[j].x + track[j].v - found[k]
    BY <2>1, <2>2
  <2> QED
    BY <1>3, <2>3
<1> QED
  BY <1>2, <1>4, <1>5

\* A detection some slot was matched with is in the picture that results.
LEMMA MatchedIsCovered ==
    ASSUME TypeOK, NEW matched, NEW match,
           Matching(detection', matched, match),
           track' = RemoveDuplicateTargets(Judged(detection', match)),
           NEW i \in Slots, match[i] # 0
    PROVE  Covered(track', detection'[match[i]]) \/ Intruded(detection'[match[i]])
<1> DEFINE t == Judged(detection', match)
           at == detection'[match[i]]
<1>1. \A j \in Slots : t[j] \in Targets
  BY JudgedFields
<1>2. match[i] \in DOMAIN detection' /\ t[i].state # IDLE /\ t[i].x = at
  BY JudgedFields
<1>3. at \in Int
  BY <1>2 DEF Matching, Detections
<1>4. max_num_target \in Nat \ {0} /\ track' = RemoveDuplicateTargets(t)
  BY SomeSlots
<1>5. \A j \in Active(t) :
        t[j].x # at /\ Abs(t[j].x - at) <= p_radius
          => /\ j \in Active(track) /\ track[j].state = ACQUIRED
             /\ Admissible(track[j], detection') = {}
             /\ Abs(track[j].x + track[j].v - at) <= p_radius
  BY <1>2, OnlyIntrudersAreNear
<1>6. i \in Active(t)
  BY <1>2 DEF Active
<1> HIDE DEF t, at
<1>7. /\ Active(track') = Left(t)[LastOuter]
      /\ \A j \in Slots : track'[j].x = t[j].x
  BY <1>1, <1>4, ThinnedFields
<1>8. Kinematic(t)
  BY <1>1, KinematicJudged
<1>9. \/ \E j \in Left(t)[LastOuter] : t[j].x = at
      \/ \E j \in Active(t) : t[j].x # at /\ Abs(t[j].x - at) <= p_radius
  BY <1>2, <1>3, <1>4, <1>6, <1>8, StaysOrNear
<1>10. \A j \in Active(track') : j \in Slots
  BY DEF Active
<1>11. Covered(track', at) \/ Intruded(at)
  BY <1>5, <1>7, <1>9, <1>10 DEF Covered, Intruded
<1> QED
  BY <1>11 DEF at

(***************************************************************************)
(* With as many IDLE slots as detections every detection gets a slot: its  *)
(* rank among the unmatched ones is the rank of an IDLE slot, and of no    *)
(* other detection.                                                        *)
(***************************************************************************)
LEMMA EachIsMatched ==
    ASSUME TypeOK, NEW found, NEW matched, NEW match,
           Matching(found, matched, match), NEW k \in DOMAIN found,
           Cardinality(Slots \ Active(track)) >= Cardinality(DOMAIN found)
    PROVE  \E i \in Slots : match[i] = k
<1> DEFINE idle      == Slots \ Active(track)
           unmatched == DOMAIN found \ Range(matched)
           next(i)   == {n \in unmatched : Before(unmatched, n) = Before(idle, i)}
<1>1. CASE k \in Range(matched)
  <2>1. PICK i \in DOMAIN matched : matched[i] = k
    BY <1>1 DEF Range
  <2>2. i \in Active(track) /\ i \in Slots
    BY DEF Matching, Active
  <2>3. match[i] = k
    BY <2>1, <2>2, Matched
  <2> QED
    BY <2>2, <2>3
<1>2. CASE k \notin Range(matched)
  <2>1. IsFiniteSet(DOMAIN found) /\ DOMAIN found \subseteq Nat
    BY DEF Matching, Detections
  <2>2. /\ IsFiniteSet(unmatched) /\ unmatched \subseteq Nat
        /\ Cardinality(unmatched) <= Cardinality(DOMAIN found)
    <3>1. unmatched \subseteq DOMAIN found
      OBVIOUS
    <3> HIDE DEF unmatched
    <3> QED
      BY <2>1, <3>1, FS_Subset
  <2>3. IsFiniteSet(idle) /\ idle \subseteq Nat
    <3>1. max_num_target \in Int
      BY SomeSlots
    <3>2. IsFiniteSet(Slots) /\ Slots \subseteq Nat
      BY <3>1, FS_Interval DEF Slots
    <3> QED
      BY <3>2, FS_Subset
  <2>4. k \in unmatched /\ Cardinality(idle) >= Cardinality(DOMAIN found)
    BY <1>2
  <2>5. \A i \in idle : next(i) # {} => match[i] \in next(i)
    <3> SUFFICES ASSUME NEW i \in idle, next(i) # {} PROVE match[i] \in next(i)
      OBVIOUS
    <3>1. match[i] = CASE i \in Active(track) -> matched[i]
                       [] i \in idle /\ next(i) # {} -> CHOOSE n \in next(i) : TRUE
                       [] OTHER -> 0
      BY DEF Matching, TargetIdentification
    <3>2. match[i] = CHOOSE n \in next(i) : TRUE
      BY <3>1
    <3> QED
      BY <3>2
  <2>6. idle \subseteq Slots
    OBVIOUS
  <2> HIDE DEF idle, unmatched
  <2>7. Before(unmatched, k) \in Nat
        /\ Before(unmatched, k) < Cardinality(unmatched)
    <3>1. k \in unmatched
      BY <2>4
    <3>2. k \in Int
      BY <2>1
    <3>3. IsFiniteSet(unmatched)
      BY <2>2
    <3> HIDE DEF next
    <3> QED
      BY <3>1, <3>2, <3>3, RankIsBelow
  <2>8. /\ Cardinality(unmatched) \in Nat /\ Cardinality(idle) \in Nat
        /\ Cardinality(DOMAIN found) \in Nat
    BY <2>1, <2>2, <2>3, FS_CardinalityType
  <2>9. Before(unmatched, k) < Cardinality(idle)
    BY <2>2, <2>4, <2>7, <2>8
  <2>10. PICK i \in idle : Before(idle, i) = Before(unmatched, k)
    BY <2>3, <2>7, <2>9, RanksAreAll
  <2>11. match[i] \in next(i)
    BY <2>4, <2>5, <2>10
  <2>12. match[i] = k
    <3>1. match[i] \in unmatched
          /\ Before(unmatched, match[i]) = Before(unmatched, k)
      BY <2>10, <2>11
    <3>2. unmatched \in SUBSET Int /\ IsFiniteSet(unmatched)
      BY <2>2
    <3>3. k \in unmatched
      BY <2>4
    <3>4. \A a, b \in unmatched :
             Before(unmatched, a) = Before(unmatched, b) => a = b
      BY <3>2, RankIsUnique
    <3> QED
      BY <3>1, <3>3, <3>4
  <2> QED
    BY <2>6, <2>12
<1> QED
  BY <1>1, <1>2

(***************************************************************************)
(* No plausible cluster is overlooked when the slots suffice, unless a     *)
(* coasted target intrudes.                                                *)
(***************************************************************************)
THEOREM NothingOverlooked == Spec => PictureComplete
<1>1. TypeOK /\ [Next]_vars =>
        [Cardinality(Slots \ Active(track)) >= Cardinality(DOMAIN detection')
           => \A at \in Range(detection') :
                 Covered(track', at) \/ Intruded(at)]_vars
  <2> SUFFICES ASSUME TypeOK, Next,
                      Cardinality(Slots \ Active(track))
                        >= Cardinality(DOMAIN detection'),
                      NEW at \in Range(detection')
               PROVE  Covered(track', at) \/ Intruded(at)
    OBVIOUS
  <2>1. PICK scene \in Scenes : LeaveAlarmZone(scene)
    BY DEF Next
  <2>2. PICK matched, match :
           /\ Matching(detection', matched, match)
           /\ track' = RemoveDuplicateTargets(Judged(detection', match))
    BY <2>1, Revolution
  <2>3. PICK k \in DOMAIN detection' : detection'[k] = at
    BY DEF Range
  <2>4. PICK i \in Slots : match[i] = k
    BY <2>2, EachIsMatched
  <2>5. match[i] # 0
    BY <2>2, <2>4 DEF Matching, Detections
  <2> QED
    BY <2>2, <2>3, <2>4, <2>5, MatchedIsCovered
<1> QED
  BY <1>1, TypeAtStart, TypeStep, PTL DEF Spec, PictureComplete

(***************************************************************************)
(* The match of a target that goes on as predicted: the detection at the   *)
(* predicted place loses nothing, and any other one loses more.            *)
(***************************************************************************)
LEMMA ContinuingMatch ==
    ASSUME NEW slot \in Targets, NEW found, Detections(found), equalRadii,
           Abs(slot.v) <= max_speed, NEW k \in DOMAIN found,
           found[k] = slot.x + slot.v, NEW n \in BestMatches(slot, found)
    PROVE  n = k
<1>1. /\ slot.x \in Int /\ slot.v \in Int /\ found[k] - slot.x = slot.v
      /\ found[k] - slot.x - slot.v = 0 /\ Abs(0) = 0 /\ slot.v * slot.v >= 0
  <2>1. slot.x \in Int /\ slot.v \in Int
    BY TargetFields
  <2>2. slot.v * slot.v >= 0
    <3>1. \A z \in Int : z * z >= 0
      OBVIOUS
    <3> QED
      BY <2>1, <3>1
  <2> QED
    BY <2>1, <2>2 DEF Abs
<1>2. k \in Admissible(slot, found)
  <2>1. slot.v - slot.v = 0 /\ 0 <= max_acceleration
    BY <1>1, Limits
  <2> QED
    BY <1>1, <2>1 DEF Admissible
<1>3. n \in Admissible(slot, found) /\ LeastLoss(slot, found, n)
  <2>1. n # 0
    BY <1>2, BestOfAdmissible
  <2> QED
    BY <2>1, BestOfAdmissible
<1>4. n \in DOMAIN found /\ found[n] \in Int
  BY <1>3 DEF Admissible, Detections
<1>5. Abs(found[n] - slot.x - slot.v) <= 0
  <2>1. \/ Abs(found[n] - slot.x - slot.v) < Abs(found[k] - slot.x - slot.v)
        \/ Abs(found[n] - slot.x - slot.v) = Abs(found[k] - slot.x - slot.v)
    BY <1>2, <1>3 DEF LeastLoss
  <2>2. Abs(found[k] - slot.x - slot.v) = 0
    BY <1>1
  <2>3. Abs(found[n] - slot.x - slot.v) \in Nat
    BY <1>1, <1>4, AbsOfInt
  <2> QED
    BY <2>1, <2>2, <2>3
<1>6. found[n] = found[k]
  <2>1. found[n] - slot.x - slot.v = 0
    BY <1>1, <1>4, <1>5, AbsOfInt
  <2> QED
    BY <1>1, <1>4, <2>1
<1>7. n # k => Abs(found[n] - found[k]) > p_radius
  BY <1>4 DEF Detections
<1>8. found[n] - found[k] = 0
  BY <1>4, <1>6
<1> QED
  BY <1>1, <1>7, <1>8, Limits

(***************************************************************************)
(* An acquired target that goes on as predicted stays in the picture, for  *)
(* any number of slots and of other targets, unless one intrudes.          *)
(***************************************************************************)
THEOREM TargetsGoOn == Spec => ContinuingTargetStays
<1>1. TypeOK /\ AcquiredSeen /\ [Next]_vars =>
        [\A i \in Active(track) :
            LET next == track[i].x + track[i].v
            IN  equalRadii /\ track[i].state = ACQUIRED
                  /\ next \in Range(detection')
                => Covered(track', next) \/ Intruded(next)]_vars
  <2> SUFFICES ASSUME TypeOK, AcquiredSeen, Next, NEW i \in Active(track),
                      equalRadii, track[i].state = ACQUIRED,
                      track[i].x + track[i].v \in Range(detection')
               PROVE  \/ Covered(track', track[i].x + track[i].v)
                      \/ Intruded(track[i].x + track[i].v)
    OBVIOUS
  <2>1. PICK scene \in Scenes : LeaveAlarmZone(scene)
    BY DEF Next
  <2>2. PICK matched, match :
           /\ Matching(detection', matched, match)
           /\ track' = RemoveDuplicateTargets(Judged(detection', match))
    BY <2>1, Revolution
  <2>3. PICK k \in DOMAIN detection' : detection'[k] = track[i].x + track[i].v
    BY DEF Range
  <2>4. i \in Slots /\ track[i] \in Targets
    BY DEF Active, TypeOK
  <2>5. Abs(track[i].v) <= max_speed
    BY <2>4 DEF AcquiredSeen
  <2>6. match[i] \in BestMatches(track[i], detection')
    BY <2>2, Matched DEF Matching
  <2>7. match[i] = k
    BY <2>2, <2>3, <2>4, <2>5, <2>6, ContinuingMatch DEF Matching
  <2>8. match[i] # 0
    BY <2>2, <2>7 DEF Matching, Detections
  <2> QED
    BY <2>2, <2>3, <2>4, <2>7, <2>8, MatchedIsCovered
<1> QED
  BY <1>1, TypeAtStart, TypeStep, AcquiredAtStart, AcquiredStep, PTL
     DEF Spec, ContinuingTargetStays
=============================================================================

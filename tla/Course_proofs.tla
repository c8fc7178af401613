--------------------------- MODULE Course_proofs ---------------------------
(***************************************************************************)
(* What the app promises, for every course, number of people and of         *)
(* overlapping requests: the achievements that people have are those they   *)
(* deserve, what a page says is solved is solved, what a purchase opens is  *)
(* told to nobody else, and nobody's rank or progress ever goes down.  The  *)
(* first part is about the operators of Course (what is owed never shrinks  *)
(* when more is solved), the second about its inductive invariant.  Then   *)
(* come what the payments service keeps of subscriptions (Subscriptions)    *)
(* and reports to Meta (MetaOutbox), whom the routes of the api let through *)
(* (Gateway), what the tools of the agent say (AgentTools), and what people *)
(* are shown of the weekly leagues and of the ranking (Leagues).            *)
(***************************************************************************)
EXTENDS Course, Subscriptions, MetaOutbox, Gateway, AgentTools, Leagues,
        FiniteSetTheorems, FunctionTheorems, WellFoundedInduction, TLAPS

Owed(best) == AchievementsFor(PerLesson(best))
AtLeast(S, T) == Cardinality(T) \in Nat /\ Cardinality(S) \in Nat /\ Cardinality(S) <= Cardinality(T)
Third(n) == IF n < 3 THEN n ELSE 3
Whole(p) == {n \in Lessons : p[n].total > 0 /\ p[n].solved = p[n].total}
Rank(p) == IF Completed(p) < MaxRank THEN Completed(p) ELSE MaxRank

\* A set of positive numbers up to some number has a largest one.
LEMMA Largest ==
  ASSUME NEW M \in Nat, NEW S \in SUBSET (1..M), S # {}
  PROVE  \E m \in S : \A k \in S : k <= m
<1> DEFINE T == {M - k : k \in S}
           R == OpToRel(<, Nat)
<1> HIDE DEF R
<1>1. T \subseteq Nat /\ T # {}
  <2>1. ASSUME NEW k \in S PROVE M - k \in Nat
    OBVIOUS
  <2> QED
    BY <2>1
<1>2. \E x \in T : \A y \in T : <<y, x>> \notin R
  <2>1. IsWellFoundedOn(R, Nat)
    BY NatLessThanWellFounded DEF R
  <2> HIDE DEF T
  <2> QED
    BY <1>1, <2>1, WFMin
<1>3. PICK x \in T : \A y \in T : <<y, x>> \notin R
  BY <1>2
<1>4. PICK m \in S : x = M - m
  BY <1>3
<1>5. ASSUME NEW k \in S PROVE k <= m
  <2>1. M - k \in T
    OBVIOUS
  <2>2. ~(M - k < x)
    BY <1>1, <1>3, <2>1 DEF R, OpToRel
  <2> QED
    BY <1>4, <2>2
<1> QED
  BY <1>5

\* Part of a finite set has no more in it.
LEMMA Smaller ==
  ASSUME NEW T, IsFiniteSet(T), NEW S \in SUBSET T
  PROVE  IsFiniteSet(S) /\ AtLeast(S, T)
BY FS_Subset, FS_CardinalityType DEF AtLeast

\* The lessons and the packs are few.
LEMMA FewLessons == IsFiniteSet(Lessons) /\ IsFiniteSet(Quizzes)
<1>1. IsFiniteSet(Labs) /\ IsFiniteSet(Questions)
  BY CourseAssumption, FS_Subset DEF Labs, Questions
<1>2. IsFiniteSet(Lessons)
  <2> DEFINE f == [i \in Labs |-> Item[i].lesson]
  <2>1. f \in Surjection(Labs, Lessons)
    <3>1. f \in [Labs -> Lessons] /\ \A n \in Lessons : \E i \in Labs : f[i] = n
      BY DEF Lessons
    <3> HIDE DEF f
    <3> QED
      BY <3>1, Fun_IsSurj
  <2> QED
    BY <1>1, <2>1, FS_Surjection
<1>3. IsFiniteSet({Item[q].pack : q \in Questions})
  <2> DEFINE A == {Item[q].pack : q \in Questions}
             f == [q \in Questions |-> Item[q].pack]
  <2>1. f \in Surjection(Questions, A)
    <3>1. f \in [Questions -> A] /\ \A n \in A : \E i \in Questions : f[i] = n
      OBVIOUS
    <3> HIDE DEF f, A
    <3> QED
      BY <3>1, Fun_IsSurj
  <2> QED
    BY <1>1, <2>1, FS_Surjection
<1> QED
  BY <1>2, <1>3, FS_Subset DEF Quizzes

\* The progress of a lesson.
LEMMA ProgressCounts ==
  ASSUME NEW S \in SUBSET Items, NEW n \in Lessons
  PROVE  /\ PerLesson(S)[n].total = Cardinality(LabsOf[n]) /\ Cardinality(LabsOf[n]) \in Nat
         /\ PerLesson(S)[n].solved = Cardinality(S \cap LabsOf[n])
         /\ Cardinality(S \cap LabsOf[n]) \in Nat
         /\ Cardinality(S \cap LabsOf[n]) <= Cardinality(LabsOf[n])
<1>1. LabsOf[n] \in SUBSET Items
  BY DEF LabsOf, Labs
<1>2. IsFiniteSet(LabsOf[n])
  BY <1>1, CourseAssumption, FS_Subset
<1>3. AtLeast(S \cap LabsOf[n], LabsOf[n])
  BY <1>2, Smaller
<1> QED
  BY <1>3 DEF PerLesson, AtLeast

\* What is owed for a progress.
LEMMA OwedAre ==
  ASSUME NEW p
  PROVE  \A c : c \in AchievementsFor(p) <=>
           \/ \E n \in Lessons : \E g \in 1..Third(p[n].solved) : c = <<"leccion", n, g>>
           \/ \E k \in 1..Rank(p) : c = <<"rango", k>>
<1>1. \A c : c \in Grades(p) <=> \E n \in Lessons : \E g \in 1..Third(p[n].solved) : c = <<"leccion", n, g>>
  BY DEF Grades, Third
<1>2. \A c : c \in Ranks(p) <=> \E k \in 1..Rank(p) : c = <<"rango", k>>
  BY DEF Ranks, Rank
<1> QED
  BY <1>1, <1>2 DEF AchievementsFor

LEMMA OwedAreCodes ==
  ASSUME NEW S \in SUBSET Items
  PROVE  Owed(S) \subseteq Codes
<1>1. \A n \in Lessons : PerLesson(S)[n].solved \in Nat
  BY ProgressCounts
<1>2. Completed(PerLesson(S)) \in Nat
  BY FewLessons, FS_Subset, FS_CardinalityType DEF Completed, Whole
<1>3. Rank(PerLesson(S)) \in Nat /\ Rank(PerLesson(S)) <= MaxRank
  BY <1>2, CourseAssumption DEF Rank
<1>4. \A n \in Lessons : Third(PerLesson(S)[n].solved) \in 0..3
  BY <1>1 DEF Third
<1>5. ASSUME NEW c \in Owed(S) PROVE c \in Codes
  <2>1. CASE \E n \in Lessons : \E g \in 1..Third(PerLesson(S)[n].solved) : c = <<"leccion", n, g>>
    BY <1>4, <2>1 DEF Codes
  <2>2. CASE \E k \in 1..Rank(PerLesson(S)) : c = <<"rango", k>>
    BY <1>3, <2>2, CourseAssumption DEF Codes
  <2> QED
    BY <1>5, <2>1, <2>2, OwedAre DEF Owed
<1> QED
  BY <1>5

\* Whoever has solved more is owed more.
LEMMA MoreIsOwed ==
  ASSUME NEW S \in SUBSET Items, NEW T \in SUBSET Items, S \subseteq T
  PROVE  Owed(S) \subseteq Owed(T)
<1> DEFINE p == PerLesson(S)
           q == PerLesson(T)
<1>1. ASSUME NEW n \in Lessons
      PROVE  /\ p[n].total = q[n].total /\ p[n].total \in Nat
             /\ p[n].solved \in Nat /\ q[n].solved \in Nat
             /\ p[n].solved <= q[n].solved /\ q[n].solved <= q[n].total
  <2>1. IsFiniteSet(T \cap LabsOf[n])
    BY CourseAssumption, FS_Subset
  <2>2. AtLeast(S \cap LabsOf[n], T \cap LabsOf[n])
    BY <2>1, Smaller
  <2> QED
    BY <2>2, ProgressCounts DEF AtLeast
<1>2. Completed(p) \in Nat /\ Completed(q) \in Nat
      /\ Completed(p) <= Completed(q)
  <2> HIDE DEF p, q
  <2>1. Whole(p) \subseteq Whole(q)
    BY <1>1 DEF Whole
  <2>2. IsFiniteSet(Whole(q))
    BY FewLessons, FS_Subset DEF Whole
  <2> QED
    BY <2>1, <2>2, Smaller DEF AtLeast, Completed, Whole
<1> HIDE DEF p, q
<1>3. Rank(p) \in Nat /\ Rank(q) \in Nat /\ Rank(p) <= Rank(q)
  BY <1>2, CourseAssumption DEF Rank
<1>4. \A n \in Lessons : /\ Third(p[n].solved) \in Nat /\ Third(q[n].solved) \in Nat
                         /\ Third(p[n].solved) <= Third(q[n].solved)
  BY <1>1 DEF Third
<1>5. ASSUME NEW c, c \in AchievementsFor(p) PROVE c \in AchievementsFor(q)
  <2>1. CASE \E n \in Lessons : \E g \in 1..Third(p[n].solved) : c = <<"leccion", n, g>>
    <3>1. \E n \in Lessons : \E g \in 1..Third(q[n].solved) : c = <<"leccion", n, g>>
      BY <1>4, <2>1
    <3> QED
      BY <3>1, OwedAre
  <2>2. CASE \E k \in 1..Rank(p) : c = <<"rango", k>>
    <3>1. \E k \in 1..Rank(q) : c = <<"rango", k>>
      BY <1>3, <2>2
    <3> QED
      BY <3>1, OwedAre
  <2> QED
    BY <1>5, <2>1, <2>2, OwedAre
<1> QED
  BY <1>5 DEF Owed, p, q

\* An answer to a question earns nothing.
LEMMA OnlyLabsEarn ==
  ASSUME NEW S \in SUBSET Items, NEW i \in Questions
  PROVE  Owed(S \cup {i}) = Owed(S)
<1>1. \A n \in Lessons : (S \cup {i}) \cap LabsOf[n] = S \cap LabsOf[n]
  BY DEF LabsOf, Questions
<1>2. PerLesson(S \cup {i}) = PerLesson(S)
  BY <1>1 DEF PerLesson
<1> QED
  BY <1>2 DEF Owed

\* Whoever has more achievements has no lower a rank.
LEMMA RanksRise ==
  ASSUME NEW A, NEW B, A \subseteq B, B \subseteq Codes
  PROVE  RankLevel(B) >= RankLevel(A)
<1> DEFINE ranks(C) == {c[2] : c \in {d \in C : d[1] = "rango"}}
           high(C) == CHOOSE k \in ranks(C) : \A j \in ranks(C) : j <= k
<1>1. \A d \in Codes : d[1] = "rango" => d[2] \in 1..MaxRank
  BY DEF Codes
<1>2. ASSUME NEW C, C \subseteq Codes, ranks(C) # {}
      PROVE  high(C) \in ranks(C) /\ \A j \in ranks(C) : j <= high(C)
  <2>1. ranks(C) \in SUBSET (1..MaxRank)
    BY <1>1, <1>2
  <2>2. \E k \in ranks(C) : \A j \in ranks(C) : j <= k
    <3> HIDE DEF ranks
    <3> QED
      BY <1>2, <2>1, Largest, CourseAssumption
  <2> QED
    BY <2>2
<1>3. ranks(A) \subseteq ranks(B) /\ ranks(B) \subseteq 1..MaxRank
  BY <1>1
<1>4. \A C : RankLevel(C) = IF ranks(C) = {} THEN 0 ELSE high(C)
  BY DEF RankLevel
<1> HIDE DEF ranks, high
<1>5. CASE ranks(A) = {}
  <2>1. RankLevel(A) = 0
    BY <1>4, <1>5
  <2>2. RankLevel(B) \in Nat
    BY <1>2, <1>3, <1>4
  <2> QED
    BY <2>1, <2>2
<1>6. CASE ranks(A) # {}
  <2>1. high(A) \in ranks(A)
    BY <1>2, <1>6
  <2>2. high(A) <= high(B) /\ high(B) \in ranks(B)
    BY <1>2, <1>3, <2>1
  <2>3. RankLevel(A) = high(A) /\ RankLevel(B) = high(B)
    BY <1>4, <1>6, <1>3
  <2> QED
    BY <1>3, <2>1, <2>2, <2>3
<1> QED
  BY <1>5, <1>6

-----------------------------------------------------------------------------
Stages == {"record", "progress", "codes", "write", "reply", "score", "labs", "questions", "page"}
Hints == {"none", "exact", "hot", "warm", "cold"}
Requests == [at: Stages, u: Users, item: Items \cup {"none"}, correct: BOOLEAN, hint: Hints,
             owed: SUBSET Codes, todo: SUBSET Codes, heals: BOOLEAN,
             page: SUBSET Items, shown: SUBSET Items, began: SUBSET Items]

CourseTyped ==
  /\ paid \in [Users -> BOOLEAN]
  /\ solved \in [Users -> SUBSET Items] /\ tried \in [Users -> SUBSET Items]
  /\ earned \in [Users -> SUBSET Codes]
  /\ req \in [Slots -> {Free} \cup Requests]
  /\ told \subseteq Users \X Items /\ everPaid \subseteq Users /\ missed \subseteq Users
  /\ begun \in 0..MaxRequests /\ faults \in 0..MaxFaults

\* What a request has read so far, against what its person has solved by now.
Holds(r, best) ==
  /\ r.shown \subseteq best
  /\ r.at = "codes" => r.owed \subseteq Owed(best)
  /\ r.todo \subseteq r.owed
  /\ r.at \in {"record", "progress", "codes"} => r.todo = {}
  /\ r.at = "write" => r.todo # {} /\ r.todo \subseteq Owed(best)
  /\ r.at \in {"labs", "questions"} => r.began \subseteq best \cap r.page
  /\ r.at = "questions" => r.began \cap Labs \subseteq r.shown
  /\ r.at = "page" => r.began \subseteq r.shown
  /\ r.at = "record" => r.item \in Items \ Drafts
  /\ r.at = "score" => r.item \in Questions /\ (r.correct => r.item \in best)
  /\ r.at \in {"progress", "codes", "write"} => ~(r.item \in Questions /\ r.correct)
  /\ r.at = "reply" /\ r.item \in Questions /\ r.correct => r.item \in r.shown

\* An item that needs no purchase.
OpenToAll(i) == /\ Item[i].lesson <= FreeLessons
                /\ Item[i].pack \in DOMAIN Exams => Exams[Item[i].pack].to <= FreeLessons
Open(r) == /\ r.item # "none" => OpenToAll(r.item)
           /\ \A i \in r.page : OpenToAll(i)

\* A request that will leave a person with all they are owed.
Repairs(r, u, owed, has) ==
  /\ r # Free /\ r.u = u
  /\ \/ r.at = "progress"
     \/ r.at = "codes" /\ owed \subseteq r.owed \cup has
     \/ r.at = "write" /\ owed \subseteq r.todo \cup has
Heals(r, u) == r # Free /\ r.u = u /\ r.heals
Served(u) == \/ Owed(solved[u]) \subseteq earned[u]
            \/ \E s \in Slots : Repairs(req[s], u, Owed(solved[u]), earned[u])

RequestsHold == \A s \in Slots : req[s] # Free => Holds(req[s], solved[req[s].u])
EarnedIsOwed == \A u \in Users : earned[u] \subseteq Owed(solved[u]) /\ solved[u] \subseteq tried[u]
                                 /\ tried[u] \subseteq Items \ Drafts
OwedIsComing ==
  \A u \in Users :
    u \notin missed \/ (\E s \in Slots : Heals(req[s], u)) => Served(u)
NoneUnpaid ==
  /\ \A u \in Users : paid[u] => u \in everPaid
  /\ \A u \in Users \ (Staff \cup everPaid) :
       /\ \A i \in Items : i \in tried[u] \/ <<u, i>> \in told => OpenToAll(i)
       /\ \A s \in Slots : req[s] # Free /\ req[s].u = u => Open(req[s])

CourseInv == CourseTyped /\ RequestsHold /\ EarnedIsOwed /\ OwedIsComing /\ NoneUnpaid

\* What a slot holds, once it holds something.
LEMMA Slot ==
  ASSUME NEW r \in {Free} \cup Requests
  PROVE  /\ Free.at = "none" /\ Free \notin Requests
         /\ r # Free => r \in Requests
         /\ r.at # "none" => r # Free /\ r \in Requests
         /\ r # Free => /\ r.at \in Stages /\ r.u \in Users /\ r.item \in Items \cup {"none"}
                        /\ r.correct \in BOOLEAN /\ r.heals \in BOOLEAN
                        /\ r.owed \subseteq Codes /\ r.todo \subseteq Codes /\ r.page \subseteq Items
                        /\ r.shown \subseteq Items /\ r.began \subseteq Items
<1>1. Free.at = "none"
  BY DEF Free
<1>2. \A x \in Requests : x.at # "none"
  BY DEF Requests, Stages
<1> QED
  BY <1>1, <1>2 DEF Requests

LEMMA Marks == \A r, u, o, h : Heals(r, u) \in BOOLEAN /\ Repairs(r, u, o, h) \in BOOLEAN
BY DEF Heals, Repairs

\* What was read stays true when more is solved.
LEMMA HoldsOn ==
  ASSUME NEW r \in Requests, NEW S \in SUBSET Items, NEW T \in SUBSET Items, S \subseteq T, Holds(r, S)
  PROVE  Holds(r, T)
<1>1. Owed(S) \subseteq Owed(T)
  BY MoreIsOwed
<1> QED
  BY <1>1 DEF Holds

LEMMA Learning ==
  ASSUME CourseInv, solved' \in [Users -> SUBSET Items], NEW s \in Slots, NEW x \in {Free} \cup Requests,
         req'[s] = x, \A t \in Slots : t # s => req'[t] = req[t],
         \A u \in Users : solved[u] \subseteq solved'[u],
         x # Free => Holds(x, solved'[x.u])
  PROVE  RequestsHold'
<1>1. ASSUME NEW t \in Slots, t # s, req[t] # Free PROVE Holds(req[t], solved'[req[t].u])
  <2>1. req[t] \in Requests /\ req[t].u \in Users
    BY <1>1, Slot DEF CourseInv, CourseTyped
  <2>2. Holds(req[t], solved[req[t].u])
    BY <1>1 DEF CourseInv, RequestsHold
  <2>3. solved[req[t].u] \in SUBSET Items /\ solved'[req[t].u] \in SUBSET Items
    BY <2>1 DEF CourseInv, CourseTyped
  <2> QED
    BY <2>1, <2>2, <2>3, HoldsOn
<1> QED
  BY <1>1 DEF RequestsHold

\* A request moves on while nothing is solved, earned or missed anew.
LEMMA Coming ==
  ASSUME CourseInv, NEW s \in Slots, NEW x \in {Free} \cup Requests,
         req'[s] = x, \A t \in Slots : t # s => req'[t] = req[t],
         solved' = solved, earned' = earned,
         missed' = missed \/ (req[s] # Free /\ req[s].heals /\ missed' = missed \ {req[s].u}),
         \A u \in Users : Repairs(req[s], u, Owed(solved[u]), earned[u]) =>
           Repairs(x, u, Owed(solved[u]), earned[u]) \/ Owed(solved[u]) \subseteq earned[u],
         \A u \in Users : Heals(x, u) =>
           Heals(req[s], u) \/ Repairs(x, u, Owed(solved[u]), earned[u])
  PROVE  OwedIsComing'
<1> SUFFICES ASSUME NEW u \in Users, u \notin missed' \/ \E t \in Slots : Heals(req'[t], u)
             PROVE  Served(u)'
  BY DEF OwedIsComing, Heals
<1>1. CASE Repairs(x, u, Owed(solved[u]), earned[u])
  BY <1>1 DEF Served
<1>2. CASE ~Repairs(x, u, Owed(solved[u]), earned[u])
  <2>1. u \notin missed \/ \E t \in Slots : Heals(req[t], u)
    <3>1. CASE u \notin missed'
      BY <3>1 DEF Heals
    <3>2. CASE \E t \in Slots : Heals(req'[t], u)
      BY <1>2, <3>2
    <3> QED
      BY <3>1, <3>2
  <2>2. Served(u)
    BY <2>1 DEF CourseInv, OwedIsComing
  <2>3. CASE Owed(solved[u]) \subseteq earned[u]
    BY <2>3 DEF Served
  <2>4. ASSUME NEW t \in Slots, Repairs(req[t], u, Owed(solved[u]), earned[u]) PROVE Served(u)'
    BY <1>2, <2>4 DEF Served
  <2> QED
    BY <2>2, <2>3, <2>4 DEF Served
<1> QED
  BY <1>1, <1>2

\* A request moves on, and shows or records no item but its own.
LEMMA Unpaid ==
  ASSUME CourseInv, NEW s \in Slots, NEW x \in {Free} \cup Requests,
         req'[s] = x, \A t \in Slots : t # s => req'[t] = req[t],
         UNCHANGED <<paid, everPaid>>,
         x # Free /\ x.u \notin Staff \cup everPaid => Open(x),
         \A u \in Users : \A i \in Items : i \in tried'[u] \/ <<u, i>> \in told' =>
           \/ i \in tried[u] \/ <<u, i>> \in told
           \/ req[s] # Free /\ req[s].u = u /\ (i = req[s].item \/ i \in req[s].page)
  PROVE  NoneUnpaid'
<1>1. ASSUME NEW u \in Users \ (Staff \cup everPaid), NEW i \in Items, i \in tried'[u] \/ <<u, i>> \in told'
      PROVE  OpenToAll(i)
  <2>1. CASE i \in tried[u] \/ <<u, i>> \in told
    BY <2>1 DEF CourseInv, NoneUnpaid
  <2>2. CASE req[s] # Free /\ req[s].u = u /\ (i = req[s].item \/ i \in req[s].page)
    <3>1. Open(req[s])
      BY <2>2 DEF CourseInv, NoneUnpaid
    <3> QED
      BY <2>2, <3>1, CourseAssumption DEF Open
  <2> QED
    BY <1>1, <2>1, <2>2
<1>2. ASSUME NEW u \in Users \ (Staff \cup everPaid), NEW t \in Slots, req'[t] # Free, req'[t].u = u
      PROVE  Open(req'[t])
  <2>1. CASE t = s
    BY <1>2, <2>1
  <2>2. CASE t # s
    BY <1>2, <2>2 DEF CourseInv, NoneUnpaid
  <2> QED
    BY <2>1, <2>2
<1>3. \A u \in Users : paid'[u] => u \in everPaid'
  BY DEF CourseInv, NoneUnpaid
<1> QED
  BY <1>1, <1>2, <1>3 DEF NoneUnpaid

LEMMA CourseStarts == CourseInit => CourseInv
<1> SUFFICES ASSUME CourseInit PROVE CourseInv
  OBVIOUS
<1>1. CourseTyped
  BY CourseAssumption DEF CourseInit, CourseTyped
<1>2. \A u \in Users : Owed(solved[u]) \subseteq earned[u]
  <2>1. \A n \in Lessons : PerLesson({})[n].solved = 0 /\ PerLesson({})[n].total \in Nat
    <3>1. \A n \in Lessons : {} \cap LabsOf[n] = {}
      OBVIOUS
    <3> QED
      BY <3>1, FS_EmptySet, ProgressCounts DEF PerLesson
  <2>2. Whole(PerLesson({})) = {}
    BY <2>1 DEF Whole
  <2>3. Rank(PerLesson({})) = 0
    <3>1. Completed(PerLesson({})) = 0
      BY <2>2, FS_EmptySet DEF Completed, Whole
    <3> QED
      BY <3>1, CourseAssumption DEF Rank
  <2>4. \A c : c \notin AchievementsFor(PerLesson({}))
    BY <2>1, <2>3, OwedAre DEF Third
  <2> QED
    BY <2>4 DEF CourseInit, Owed
<1> QED
  BY <1>1, <1>2 DEF CourseInit, CourseInv, RequestsHold, EarnedIsOwed, OwedIsComing, Served, NoneUnpaid

LEMMA Moved ==
  ASSUME CourseTyped, NEW s \in Slots, NEW x \in {Free} \cup Requests, Moves(s, x)
  PROVE  req'[s] = x /\ (\A t \in Slots : t # s => req'[t] = req[t])
         /\ req' \in [Slots -> {Free} \cup Requests]
BY DEF Moves, CourseTyped

\* Nothing but the request moves: what it holds fits what is solved, it still repairs what
\* it would have repaired, and shows what may be shown.
LEMMA OnlyTheRequest ==
  ASSUME CourseInv, NEW s \in Slots, NEW x \in {Free} \cup Requests, Moves(s, x),
         UNCHANGED <<paid, solved, tried, earned, everPaid>>,
         told' \subseteq Users \X Items, begun' \in 0..MaxRequests, faults' \in 0..MaxFaults,
         missed' = missed \/ (req[s] # Free /\ req[s].heals /\ missed' = missed \ {req[s].u}),
         x # Free => Holds(x, solved[x.u]),
         x # Free /\ x.u \notin Staff \cup everPaid => Open(x),
         \A u \in Users : Repairs(req[s], u, Owed(solved[u]), earned[u]) =>
           Repairs(x, u, Owed(solved[u]), earned[u]) \/ Owed(solved[u]) \subseteq earned[u],
         \A u \in Users : Heals(x, u) =>
           Heals(req[s], u) \/ Repairs(x, u, Owed(solved[u]), earned[u]),
         \A u \in Users : \A i \in Items : <<u, i>> \in told' =>
           <<u, i>> \in told \/ (req[s] # Free /\ req[s].u = u /\ (i = req[s].item \/ i \in req[s].page))
  PROVE  CourseInv'
<1>0. CourseTyped /\ RequestsHold /\ EarnedIsOwed /\ OwedIsComing /\ NoneUnpaid
  BY DEF CourseInv
<1>1. req'[s] = x /\ (\A t \in Slots : t # s => req'[t] = req[t])
      /\ req' \in [Slots -> {Free} \cup Requests]
  BY <1>0, Moved
<1>2. CourseTyped'
  BY <1>0, <1>1 DEF CourseTyped
<1>3. RequestsHold'
  BY <1>0, <1>1, <1>2, Learning DEF CourseTyped
<1>4. EarnedIsOwed'
  BY <1>0 DEF EarnedIsOwed
<1>5. OwedIsComing'
  BY <1>1, Coming
<1>6. NoneUnpaid'
  BY <1>1, Unpaid
<1> QED
  BY <1>2, <1>3, <1>4, <1>5, <1>6 DEF CourseInv

\* A new request.
LEMMA Fresh ==
  ASSUME NEW u \in Users, NEW i \in Items \cup {"none"}, NEW at \in Stages
  PROVE  /\ [NewReq(u, i) EXCEPT !.at = at] \in Requests
         /\ NewReq(u, i).heals = FALSE /\ NewReq(u, i).u = u /\ NewReq(u, i).item = i
BY DEF NewReq, Requests, Hints

LEMMA GateOpens ==
  ASSUME NEW i \in Items, GateLesson(i) <= FreeLessons
  PROVE  OpenToAll(i)
<1> USE CourseAssumption
<1>1. CASE Item[i].pack \in DOMAIN Exams
  <2>1. i \in Questions
    BY <1>1 DEF Questions, Labs
  <2>2. Item[i].lesson <= Exams[Item[i].pack].to /\ Exams[Item[i].pack].to \in Nat /\ Item[i].lesson \in Nat
    BY <1>1, <2>1
  <2>3. GateLesson(i) = Exams[Item[i].pack].to
    BY <1>1 DEF GateLesson
  <2> QED
    BY <2>2, <2>3 DEF OpenToAll
<1>2. CASE Item[i].pack \notin DOMAIN Exams
  BY <1>2 DEF GateLesson, OpenToAll
<1> QED
  BY <1>1, <1>2

\* Grading says yes or no, and a hint is one of five.
LEMMA Graded ==
  ASSUME NEW i \in Items, NEW a
  PROVE  Grade(i, a) \in BOOLEAN /\ Hint(i, a) \in Hints
<1>1. Grade(i, a) \in BOOLEAN
  <2> DEFINE sol == Item[i].solution
  <2>1. Item[i].kind \in {"choice", "order", "cut", "build", "knob", "hotcold"}
    BY CourseAssumption
  <2>2. Grade(i, a) = CASE Item[i].kind = "choice" -> a.is = "text" /\ a.of = sol.of
       [] Item[i].kind = "order" -> a.is = "list" /\ a.of = sol.of
       [] Item[i].kind = "cut" -> a.is = "list" /\ Norm(a.of) = Norm(sol.of)
       [] Item[i].kind = "build" ->
            a.is = "list" /\ \A k \in DOMAIN sol.of : k \in DOMAIN a.of /\ a.of[k] # ""
       [] Item[i].kind = "knob" -> a.is = "number" /\ a.of >= sol.min /\ a.of <= sol.max
       [] Item[i].kind = "hotcold" -> a.is = "number" /\ a.of = sol.of
    BY DEF Grade
  <2> HIDE DEF sol
  <2> QED
    BY <2>1, <2>2
<1>2. Hint(i, a) \in Hints
  BY DEF Hint, Hints
<1> QED
  BY <1>1, <1>2

LEMMA AttemptKeeps ==
  ASSUME CourseInv, NEW s \in Slots, NEW u \in Users, NEW i \in Items \ Drafts, NEW a, Attempts(s, u, i, a)
  PROVE  CourseInv'
<1> DEFINE x == [NewReq(u, i) EXCEPT !.at = "record", !.correct = Grade(i, a), !.hint = Hint(i, a)]
<1>0. CourseTyped /\ NoneUnpaid
  BY DEF CourseInv
<1>1. x \in Requests /\ x.at = "record" /\ x.u = u /\ x.item = i /\ x.heals = FALSE /\ x.page = {}
      /\ x.shown = {} /\ x.todo = {} /\ x.owed = {} /\ x.began = {} /\ x \in {Free} \cup Requests
  BY Graded DEF NewReq, Requests, Stages
<1>2. Moves(s, x) /\ req[s] = Free /\ begun < MaxRequests /\ begun' = begun + 1 /\ HasAccess(u, i)
      /\ UNCHANGED <<paid, solved, tried, earned, told, everPaid, missed, faults>>
  BY DEF Attempts, Moves
<1> HIDE DEF x
<1>3. begun' \in 0..MaxRequests
  BY <1>0, <1>2, CourseAssumption DEF CourseTyped
<1>4. x # Free
  BY <1>1, Slot
<1>5. Holds(x, solved[x.u])
  BY <1>1 DEF Holds
<1>6. x.u \notin Staff \cup everPaid => Open(x)
  <2>1. ASSUME u \notin Staff \cup everPaid PROVE GateLesson(i) <= FreeLessons
    BY <1>0, <1>2, <2>1 DEF NoneUnpaid, HasAccess
  <2> QED
    BY <1>1, <2>1, GateOpens DEF Open
<1>7. \A v, o, h : ~Repairs(req[s], v, o, h) /\ ~Heals(x, v)
  BY <1>1, <1>2 DEF Repairs, Heals
<1>8. faults' \in 0..MaxFaults /\ told' \subseteq Users \X Items
  BY <1>0, <1>2 DEF CourseTyped
<1> QED
  BY <1>1, <1>2, <1>3, <1>5, <1>6, <1>7, <1>8, OnlyTheRequest

\* A page is asked for.
LEMMA ShowsKeeps ==
  ASSUME CourseInv, NEW s \in Slots, NEW u \in Users, NEW at \in {"labs", "questions"}, NEW page \in SUBSET Items,
         Shows(s, u, at, page), u \notin Staff \cup everPaid => \A i \in page : OpenToAll(i),
         at = "questions" => page \subseteq Questions
  PROVE  CourseInv'
<1> DEFINE x == [NewReq(u, "none") EXCEPT !.at = at, !.page = page, !.began = solved[u] \cap page]
<1>0. CourseTyped /\ NoneUnpaid
  BY DEF CourseInv
<1>1. x \in Requests /\ x.at = at /\ x.u = u /\ x.item = "none" /\ x.heals = FALSE /\ x.page = page
      /\ x.shown = {} /\ x.todo = {} /\ x.owed = {} /\ x.began = solved[u] \cap page /\ x \in {Free} \cup Requests
  BY <1>0 DEF NewReq, Requests, Stages, Hints, CourseTyped
<1>2. Moves(s, x) /\ req[s] = Free /\ begun < MaxRequests /\ begun' = begun + 1
      /\ UNCHANGED <<paid, solved, tried, earned, told, everPaid, missed, faults>>
  BY DEF Shows
<1> HIDE DEF x
<1>3. begun' \in 0..MaxRequests
  BY <1>0, <1>2, CourseAssumption DEF CourseTyped
<1>4. x # Free
  BY <1>1, Slot
<1>5. Holds(x, solved[x.u])
  BY <1>1 DEF Holds, Questions
<1>6. x.u \notin Staff \cup everPaid => Open(x)
  BY <1>1 DEF Open
<1>7. \A v, o, h : ~Repairs(req[s], v, o, h) /\ ~Heals(x, v)
  BY <1>1, <1>2 DEF Repairs, Heals
<1>8. faults' \in 0..MaxFaults /\ told' \subseteq Users \X Items
  BY <1>0, <1>2 DEF CourseTyped
<1> QED
  BY <1>1, <1>2, <1>3, <1>5, <1>6, <1>7, <1>8, OnlyTheRequest

LEMMA OpensKeeps ==
  ASSUME CourseInv, NEW s \in Slots, NEW u \in Users,
         \/ \E n \in Lessons : OpensLesson(s, u, n)
         \/ \E p \in DOMAIN Exams : OpensExam(s, u, p)
  PROVE  CourseInv'
<1> USE CourseAssumption
<1>0. u \notin Staff \cup everPaid => ~paid[u]
  BY DEF CourseInv, NoneUnpaid
<1>1. ASSUME NEW n \in Lessons, OpensLesson(s, u, n) PROVE CourseInv'
  <2> DEFINE page == LabsOf[n] \cup Pack(QuizOf[n])
  <2>1. page \in SUBSET Items
    BY DEF LabsOf, Labs, Pack, Questions
  <2>2. \A i \in page : Item[i].lesson = n /\ Item[i].pack \notin DOMAIN Exams
    <3>1. \A i \in LabsOf[n] : Item[i].lesson = n /\ Item[i].pack \notin DOMAIN Exams
      BY DEF LabsOf, Labs
    <3>2. ASSUME NEW i \in Pack(QuizOf[n]) PROVE Item[i].lesson = n /\ Item[i].pack \notin DOMAIN Exams
      <4>1. i \in Questions /\ Item[i].pack = QuizOf[n]
        BY DEF Pack
      <4> QED
        BY <4>1
    <3> QED
      BY <3>1, <3>2
  <2>3. u \notin Staff \cup everPaid => n <= FreeLessons
    BY <1>0, <1>1 DEF OpensLesson
  <2>4. Shows(s, u, "labs", page)
    BY <1>1 DEF OpensLesson
  <2> HIDE DEF page
  <2> QED
    BY <2>1, <2>2, <2>3, <2>4, ShowsKeeps DEF OpenToAll
<1>2. ASSUME NEW p \in DOMAIN Exams, OpensExam(s, u, p) PROVE CourseInv'
  <2> DEFINE page == Pack(p)
  <2>1. page \in SUBSET Items /\ page \subseteq Questions
    BY DEF Pack, Questions
  <2>2. \A i \in page : Item[i].pack = p /\ Item[i].lesson <= Exams[p].to /\ Item[i].lesson \in Nat
    BY <2>1 DEF Pack
  <2>3. u \notin Staff \cup everPaid => Exams[p].to <= FreeLessons
    BY <1>0, <1>2 DEF OpensExam
  <2>4. Shows(s, u, "questions", page)
    BY <1>2 DEF OpensExam
  <2>5. u \notin Staff \cup everPaid => \A i \in page : OpenToAll(i)
    BY <2>2, <2>3 DEF OpenToAll
  <2> HIDE DEF page
  <2> QED
    BY <2>1, <2>4, <2>5, ShowsKeeps
<1> QED
  BY <1>1, <1>2

LEMMA VisitKeeps ==
  ASSUME CourseInv, NEW s \in Slots, NEW u \in Users, Visits(s, u)
  PROVE  CourseInv'
<1> DEFINE x == [NewReq(u, "none") EXCEPT !.at = "progress"]
<1>0. CourseTyped
  BY DEF CourseInv
<1>1. x \in Requests /\ x.at = "progress" /\ x.u = u /\ x.item = "none" /\ x.heals = FALSE /\ x.page = {}
      /\ x.shown = {} /\ x.todo = {} /\ x.owed = {} /\ x.began = {} /\ x.correct = FALSE /\ x \in {Free} \cup Requests
  BY DEF NewReq, Requests, Stages, Hints
<1>2. Moves(s, x) /\ req[s] = Free /\ begun < MaxRequests /\ begun' = begun + 1
      /\ UNCHANGED <<paid, solved, tried, earned, told, everPaid, missed, faults>>
  BY DEF Visits
<1> HIDE DEF x
<1>3. begun' \in 0..MaxRequests
  BY <1>0, <1>2, CourseAssumption DEF CourseTyped
<1>4. x # Free
  BY <1>1, Slot
<1>5. Holds(x, solved[x.u]) /\ Open(x)
  BY <1>1 DEF Holds, Open
<1>6. \A v, o, h : ~Repairs(req[s], v, o, h) /\ ~Heals(x, v)
  BY <1>1, <1>2 DEF Repairs, Heals
<1>7. faults' \in 0..MaxFaults /\ told' \subseteq Users \X Items
  BY <1>0, <1>2 DEF CourseTyped
<1> QED
  BY <1>1, <1>2, <1>3, <1>5, <1>6, <1>7, OnlyTheRequest

\* A request that reads on behalf of a page or of a score.
LEMMA ReadsOn ==
  ASSUME CourseInv, NEW s \in Slots, req[s].at \notin {"none", "progress", "codes", "write"},
         NEW x \in Requests, Moves(s, x),
         x.u = req[s].u, x.item = req[s].item, x.page = req[s].page, x.heals = req[s].heals,
         Holds(x, solved[x.u]),
         UNCHANGED <<paid, solved, tried, earned, told, everPaid, missed, begun, faults>>
  PROVE  CourseInv'
<1>0. CourseTyped /\ NoneUnpaid
  BY DEF CourseInv
<1>1. req[s] # Free /\ req[s].u \in Users
  BY <1>0, Slot DEF CourseTyped
<1>2. x.u \notin Staff \cup everPaid => Open(x)
  <2>1. req[s].u \notin Staff \cup everPaid => Open(req[s])
    BY <1>0, <1>1 DEF NoneUnpaid
  <2> QED
    BY <2>1 DEF Open
<1>3. \A v, o, h : ~Repairs(req[s], v, o, h) /\ (Heals(x, v) => Heals(req[s], v))
  BY <1>1 DEF Repairs, Heals
<1>4. begun' \in 0..MaxRequests /\ faults' \in 0..MaxFaults /\ told' \subseteq Users \X Items
  BY <1>0 DEF CourseTyped
<1> QED
  BY <1>2, <1>3, <1>4, OnlyTheRequest

LEMMA ReadsKeep ==
  ASSUME CourseInv, NEW s \in Slots, ReadsScore(s) \/ ShowsLabs(s) \/ ShowsQuestions(s)
  PROVE  CourseInv'
<1> DEFINE r == req[s]
           best == solved[req[s].u]
<1>0. CourseTyped
  BY DEF CourseInv
<1>1. r \in Requests /\ r # Free /\ r.u \in Users /\ r.at \in {"score", "labs", "questions"}
  BY <1>0, Slot DEF CourseTyped, ReadsScore, ShowsLabs, ShowsQuestions
<1>2. best \in SUBSET Items /\ Holds(r, best)
  BY <1>0, <1>1 DEF CourseTyped, CourseInv, RequestsHold
<1>3. CASE ReadsScore(s)
  <2> DEFINE x == [r EXCEPT !.at = "reply", !.shown = best \cap Pack(Item[r.item].pack)]
  <2>1. x \in Requests /\ x.u = r.u /\ x.item = r.item /\ x.page = r.page /\ x.heals = r.heals
        /\ x.at = "reply" /\ x.shown = best \cap Pack(Item[r.item].pack) /\ x.correct = r.correct
        /\ x.owed = r.owed /\ x.todo = r.todo /\ x.began = r.began
    BY <1>1, <1>2 DEF Requests, Stages
  <2>2. Moves(s, x) /\ r.at = "score" /\ UNCHANGED <<paid, solved, tried, earned, told, everPaid, missed, begun, faults>>
    BY <1>3 DEF ReadsScore
  <2> HIDE DEF x
  <2>3. Holds(x, best)
    BY <1>2, <2>1, <2>2 DEF Holds, Pack
  <2> QED
    BY <1>1, <2>1, <2>2, <2>3, ReadsOn
<1>4. CASE ShowsLabs(s)
  <2> DEFINE x == [r EXCEPT !.at = "questions", !.shown = PublicLabs(r.u, r.page)]
  <2>1. x \in Requests /\ x.u = r.u /\ x.item = r.item /\ x.page = r.page /\ x.heals = r.heals
        /\ x.at = "questions" /\ x.shown = r.page \cap best \cap Labs /\ x.correct = r.correct
        /\ x.owed = r.owed /\ x.todo = r.todo /\ x.began = r.began
    BY <1>1, <1>2 DEF Requests, Stages, PublicLabs
  <2>2. Moves(s, x) /\ r.at = "labs" /\ UNCHANGED <<paid, solved, tried, earned, told, everPaid, missed, begun, faults>>
    BY <1>4 DEF ShowsLabs
  <2> HIDE DEF x
  <2>3. Holds(x, best)
    BY <1>2, <2>1, <2>2 DEF Holds
  <2> QED
    BY <1>1, <2>1, <2>2, <2>3, ReadsOn
<1>5. CASE ShowsQuestions(s)
  <2> DEFINE x == [r EXCEPT !.at = "page", !.shown = r.shown \cup PublicQuestions(r.u, r.page)]
  <2>1. x \in Requests /\ x.u = r.u /\ x.item = r.item /\ x.page = r.page /\ x.heals = r.heals
        /\ x.at = "page" /\ x.shown = r.shown \cup (r.page \cap best \cap Questions) /\ x.correct = r.correct
        /\ x.owed = r.owed /\ x.todo = r.todo /\ x.began = r.began
    BY <1>1, <1>2 DEF Requests, Stages, PublicQuestions
  <2>2. Moves(s, x) /\ r.at = "questions" /\ UNCHANGED <<paid, solved, tried, earned, told, everPaid, missed, begun, faults>>
    BY <1>5 DEF ShowsQuestions
  <2> HIDE DEF x
  <2>3. Holds(x, best)
    <3>1. r.began \subseteq best \cap r.page /\ r.began \cap Labs \subseteq r.shown /\ r.shown \subseteq best
      BY <1>2, <2>2 DEF Holds
    <3>2. \A i \in best : i \in Labs \/ i \in Questions
      BY <1>2 DEF Questions
    <3> QED
      BY <1>2, <2>1, <2>2, <3>1, <3>2 DEF Holds
  <2> QED
    BY <1>1, <2>1, <2>2, <2>3, ReadsOn
<1> QED
  BY <1>3, <1>4, <1>5

\* A request ends: a page is sent, a reply leaves, a read fails.
LEMMA EndKeeps ==
  ASSUME CourseInv, NEW s \in Slots, SendsPage(s) \/ Replies(s) \/ ReadFails(s)
  PROVE  CourseInv'
<1>0. CourseTyped
  BY DEF CourseInv
<1>1. req[s] \in Requests /\ req[s] # Free /\ req[s].u \in Users /\ req[s].item \in Items \cup {"none"}
      /\ req[s].page \subseteq Items /\ req[s].at \in {"page", "reply", "score", "labs", "questions"}
  BY <1>0, Slot DEF CourseTyped, SendsPage, Replies, ReadFails
<1>2. Moves(s, Free) /\ UNCHANGED <<paid, solved, tried, earned, everPaid, begun>>
      /\ (missed' = missed \/ (req[s].heals /\ missed' = missed \ {req[s].u}))
  BY DEF SendsPage, Replies, ReadFails
<1>3. \A v, o, h : ~Repairs(req[s], v, o, h) /\ ~Heals(Free, v)
  BY <1>1 DEF Repairs, Heals
<1>4. faults' \in 0..MaxFaults
  BY <1>0, CourseAssumption DEF CourseTyped, SendsPage, Replies, ReadFails
<1>5. /\ told' \subseteq Users \X Items
      /\ \A u \in Users : \A i \in Items : <<u, i>> \in told' =>
           <<u, i>> \in told \/ (req[s].u = u /\ (i = req[s].item \/ i \in req[s].page))
  <2>1. told \subseteq Users \X Items
    BY <1>0 DEF CourseTyped
  <2>2. CASE SendsPage(s)
    BY <1>1, <2>1, <2>2 DEF SendsPage
  <2>3. CASE Replies(s)
    BY <1>1, <2>1, <2>3 DEF Replies
  <2>4. CASE ReadFails(s)
    BY <2>1, <2>4 DEF ReadFails
  <2> QED
    BY <2>2, <2>3, <2>4
<1>6. begun' \in 0..MaxRequests
  BY <1>0, <1>2 DEF CourseTyped
<1> QED
  BY <1>1, <1>2, <1>3, <1>4, <1>5, <1>6, OnlyTheRequest

\* syncAchievements reads what is owed, then what is had.
LEMMA SyncKeeps ==
  ASSUME CourseInv, NEW s \in Slots, ReadsProgress(s) \/ ReadsCodes(s)
  PROVE  CourseInv'
<1> DEFINE r == req[s]
           best == solved[req[s].u]
<1>0. CourseTyped /\ NoneUnpaid
  BY DEF CourseInv
<1>1. r \in Requests /\ r # Free /\ r.u \in Users /\ r.at \in {"progress", "codes"} /\ r.item \in Items \cup {"none"}
      /\ r.owed \subseteq Codes
  BY <1>0, Slot DEF CourseTyped, ReadsProgress, ReadsCodes
<1>2. best \in SUBSET Items /\ Holds(r, best) /\ Owed(best) \subseteq Codes
  BY <1>0, <1>1, OwedAreCodes DEF CourseTyped, CourseInv, RequestsHold
<1>3. r.u \notin Staff \cup everPaid => Open(r)
  BY <1>0, <1>1 DEF NoneUnpaid
<1>4. UNCHANGED <<paid, solved, tried, earned, told, everPaid, missed, begun, faults>>
  BY DEF ReadsProgress, ReadsCodes
<1>5. begun' \in 0..MaxRequests /\ faults' \in 0..MaxFaults /\ told' \subseteq Users \X Items
  BY <1>0, <1>4 DEF CourseTyped
<1>6. CASE ReadsProgress(s)
  <2> DEFINE x == [r EXCEPT !.at = "codes", !.heals = TRUE, !.owed = Owed(best)]
  <2>1. Moves(s, x) /\ r.at = "progress"
    BY <1>6 DEF ReadsProgress, Owed
  <2>2. r.todo \subseteq Owed(best)
    BY <1>2, <2>1 DEF Holds
  <2>3. x \in Requests /\ x.u = r.u /\ x.item = r.item /\ x.page = r.page /\ x.heals = TRUE
        /\ x.at = "codes" /\ x.shown = r.shown /\ x.correct = r.correct
        /\ x.owed = Owed(best) /\ x.todo = r.todo /\ x.began = r.began
    BY <1>1, <1>2 DEF Requests, Stages
  <2> HIDE DEF x
  <2>4. Holds(x, best) /\ (x.u \notin Staff \cup everPaid => Open(x)) /\ x # Free
    BY <1>2, <1>3, <2>1, <2>2, <2>3, Slot DEF Holds, Open
  <2>5. \A v \in Users : Heals(x, v) \/ Repairs(r, v, Owed(solved[v]), earned[v]) =>
                           Repairs(x, v, Owed(solved[v]), earned[v])
    BY <2>3, <2>4 DEF Heals, Repairs
  <2> QED
    BY <1>4, <1>5, <2>1, <2>3, <2>4, <2>5, OnlyTheRequest
<1>7. CASE ReadsCodes(s)
  <2> DEFINE new == r.owed \ earned[r.u]
             x == [r EXCEPT !.at = IF new = {} THEN "reply" ELSE "write", !.todo = new]
  <2>1. Moves(s, x) /\ r.at = "codes"
    BY <1>7 DEF ReadsCodes
  <2>2. x \in Requests /\ x.u = r.u /\ x.item = r.item /\ x.page = r.page /\ x.heals = r.heals
        /\ x.at = (IF new = {} THEN "reply" ELSE "write") /\ x.shown = r.shown /\ x.correct = r.correct
        /\ x.owed = r.owed /\ x.todo = new /\ x.began = r.began
    BY <1>1 DEF Requests, Stages
  <2> HIDE DEF x
  <2>3. Holds(x, best) /\ (x.u \notin Staff \cup everPaid => Open(x)) /\ x # Free
    BY <1>2, <1>3, <2>1, <2>2, Slot DEF Holds, Open
  <2>4. \A v : Heals(x, v) => Heals(r, v)
    BY <1>1, <2>2 DEF Heals
  <2>5. ASSUME NEW v \in Users, Repairs(r, v, Owed(solved[v]), earned[v])
        PROVE  Repairs(x, v, Owed(solved[v]), earned[v]) \/ Owed(solved[v]) \subseteq earned[v]
    <3>1. r.u = v /\ Owed(solved[v]) \subseteq r.owed \cup earned[v]
      BY <2>1, <2>5 DEF Repairs
    <3> QED
      BY <2>2, <2>3, <3>1 DEF Repairs
  <2> QED
    BY <1>4, <1>5, <2>1, <2>2, <2>3, <2>4, <2>5, OnlyTheRequest
<1> QED
  BY <1>6, <1>7

\* The answer is recorded: the lab is what its person may be owed for.
LEMMA RecordsKeep ==
  ASSUME CourseInv, NEW s \in Slots, Records(s)
  PROVE  CourseInv'
<1> DEFINE r == req[s]
           u == req[s].u
           x == [r EXCEPT !.at = After(r)]
<1>0. CourseTyped /\ RequestsHold /\ EarnedIsOwed /\ OwedIsComing /\ NoneUnpaid
  BY DEF CourseInv
<1>1. r \in Requests /\ r # Free /\ u \in Users /\ r.at = "record" /\ r.u = u /\ r.page \subseteq Items
  BY <1>0, Slot DEF CourseTyped, Records
<1>2. Holds(r, solved[u]) /\ solved[u] \in SUBSET Items /\ (u \notin Staff \cup everPaid => Open(r))
  BY <1>0, <1>1 DEF CourseTyped, RequestsHold, NoneUnpaid
<1>3. r.item \in Items \ Drafts
  BY <1>1, <1>2 DEF Holds
<1>4. After(r) \in {"score", "progress", "reply"}
      /\ (After(r) = "score" <=> r.item \in Questions) /\ (After(r) = "progress" => r.correct)
      /\ (After(r) = "reply" => ~r.correct)
  BY DEF After
<1>5. x \in Requests /\ x.u = u /\ x.item = r.item /\ x.page = r.page /\ x.heals = r.heals
      /\ x.at = After(r) /\ x.shown = r.shown /\ x.correct = r.correct
      /\ x.owed = r.owed /\ x.todo = r.todo /\ x.began = r.began /\ x # Free
  <2>1. x \in Requests /\ x.u = u /\ x.item = r.item /\ x.page = r.page /\ x.heals = r.heals
        /\ x.at = After(r) /\ x.shown = r.shown /\ x.correct = r.correct
        /\ x.owed = r.owed /\ x.todo = r.todo /\ x.began = r.began
    BY <1>1, <1>4 DEF Requests, Stages
  <2> QED
    BY <2>1, Slot
<1>6. /\ tried' = [tried EXCEPT ![u] = tried[u] \cup {r.item}]
      /\ solved' = [solved EXCEPT ![u] = IF r.correct THEN solved[u] \cup {r.item} ELSE solved[u]]
      /\ Moves(s, x) /\ UNCHANGED <<paid, earned, told, everPaid, missed, begun, faults>>
  BY DEF Records
<1> HIDE DEF x
<1>7. /\ solved'[u] = IF r.correct THEN solved[u] \cup {r.item} ELSE solved[u]
      /\ \A v \in Users : v # u => solved'[v] = solved[v]
      /\ tried'[u] = tried[u] \cup {r.item}
      /\ \A v \in Users : v # u => tried'[v] = tried[v]
      /\ solved' \in [Users -> SUBSET Items] /\ tried' \in [Users -> SUBSET Items]
  BY <1>0, <1>1, <1>2, <1>3, <1>6 DEF CourseTyped
<1>8. req'[s] = x /\ (\A t \in Slots : t # s => req'[t] = req[t])
      /\ req' \in [Slots -> {Free} \cup Requests]
  BY <1>0, <1>5, <1>6, Moved
<1>9. \A v \in Users : solved[v] \subseteq solved'[v] /\ Owed(solved[v]) \subseteq Owed(solved'[v])
  <2>1. \A v \in Users : solved[v] \subseteq solved'[v]
    BY <1>7
  <2> QED
    BY <1>0, <1>7, <2>1, MoreIsOwed DEF CourseTyped
<1>10. CourseTyped'
  BY <1>0, <1>6, <1>7, <1>8 DEF CourseTyped
<1>11. Holds(x, solved'[u])
  BY <1>1, <1>2, <1>3, <1>4, <1>5, <1>7 DEF Holds
<1>12. RequestsHold'
  BY <1>5, <1>7, <1>8, <1>9, <1>11, Learning
<1>13. EarnedIsOwed'
  <2>1. ASSUME NEW v \in Users, v # u
        PROVE  earned'[v] \subseteq Owed(solved'[v]) /\ solved'[v] \subseteq tried'[v]
               /\ tried'[v] \subseteq Items \ Drafts
    BY <1>0, <1>6, <1>7, <2>1 DEF EarnedIsOwed
  <2>2. earned'[u] \subseteq Owed(solved'[u])
    BY <1>0, <1>1, <1>6, <1>9 DEF EarnedIsOwed
  <2>3. solved'[u] \subseteq tried'[u] /\ tried'[u] \subseteq Items \ Drafts
    BY <1>0, <1>1, <1>3, <1>7 DEF EarnedIsOwed
  <2> QED
    BY <2>1, <2>2, <2>3 DEF EarnedIsOwed
<1>14. NoneUnpaid'
  <2>1. x.u \notin Staff \cup everPaid => Open(x)
    BY <1>2, <1>5 DEF Open
  <2>2. \A v \in Users : \A i \in Items : i \in tried'[v] \/ <<v, i>> \in told' =>
           \/ i \in tried[v] \/ <<v, i>> \in told
           \/ req[s] # Free /\ req[s].u = v /\ (i = req[s].item \/ i \in req[s].page)
    BY <1>1, <1>6, <1>7
  <2> QED
    BY <1>5, <1>6, <1>8, <2>1, <2>2, Unpaid
<1>15. OwedIsComing'
  <2> SUFFICES ASSUME NEW v \in Users, v \notin missed' \/ \E t \in Slots : Heals(req'[t], v)
               PROVE  Served(v)'
    BY DEF OwedIsComing, Heals
  <2>1. v \notin missed \/ \E t \in Slots : Heals(req[t], v)
    BY <1>1, <1>5, <1>6, <1>8 DEF Heals
  <2>2. Served(v)
    BY <1>0, <2>1 DEF OwedIsComing
  <2>3. ASSUME Owed(solved'[v]) = Owed(solved[v]) PROVE Served(v)'
    <3>1. CASE Owed(solved[v]) \subseteq earned[v]
      BY <1>6, <2>3, <3>1 DEF Served
    <3>2. ASSUME NEW t \in Slots, Repairs(req[t], v, Owed(solved[v]), earned[v]) PROVE Served(v)'
      <4>1. t # s
        BY <1>1, <3>2 DEF Repairs
      <4> QED
        BY <1>6, <1>8, <2>3, <3>2, <4>1 DEF Served
    <3> QED
      BY <2>2, <3>1, <3>2 DEF Served
  <2>4. CASE v # u \/ ~r.correct
    BY <1>7, <2>3, <2>4
  <2>5. CASE v = u /\ r.correct /\ r.item \in Questions
    BY <1>2, <1>7, <2>3, <2>5, OnlyLabsEarn
  <2>6. CASE v = u /\ r.correct /\ r.item \notin Questions
    <3>1. Repairs(x, v, Owed(solved'[v]), earned'[v])
      BY <1>4, <1>5, <2>6 DEF Repairs
    <3> QED
      BY <1>8, <3>1 DEF Served
  <2> QED
    BY <2>4, <2>5, <2>6
<1> QED
  BY <1>10, <1>12, <1>13, <1>14, <1>15 DEF CourseInv

\* One of the achievements a request found missing is written.
LEMMA WritesKeep ==
  ASSUME CourseInv, NEW s \in Slots, WritesCode(s)
  PROVE  CourseInv'
<1> DEFINE r == req[s]
           u == req[s].u
           c == CHOOSE c \in req[s].todo : TRUE
           x == [r EXCEPT !.todo = r.todo \ {c}, !.at = IF r.todo = {c} THEN "reply" ELSE "write"]
<1>0. CourseTyped /\ RequestsHold /\ EarnedIsOwed /\ OwedIsComing /\ NoneUnpaid
  BY DEF CourseInv
<1>1. r \in Requests /\ r # Free /\ u \in Users /\ r.at = "write" /\ r.u = u /\ r.todo \subseteq Codes
  BY <1>0, Slot DEF CourseTyped, WritesCode
<1>2. Holds(r, solved[u]) /\ solved[u] \in SUBSET Items /\ (u \notin Staff \cup everPaid => Open(r))
  BY <1>0, <1>1 DEF CourseTyped, RequestsHold, NoneUnpaid
<1>3. c \in r.todo
  BY <1>1, <1>2 DEF Holds
<1>4. x \in Requests /\ x.u = u /\ x.item = r.item /\ x.page = r.page /\ x.heals = r.heals
      /\ x.at = (IF r.todo = {c} THEN "reply" ELSE "write") /\ x.shown = r.shown /\ x.correct = r.correct
      /\ x.owed = r.owed /\ x.todo = r.todo \ {c} /\ x.began = r.began
  BY <1>1 DEF Requests, Stages
<1>5. Moves(s, x) /\ earned' = [earned EXCEPT ![u] = earned[u] \cup {c}]
      /\ UNCHANGED <<paid, solved, tried, told, everPaid, missed, begun, faults>>
  BY DEF WritesCode
<1> HIDE DEF x, c
<1>6. x # Free
  BY <1>4, Slot
<1>7. req'[s] = x /\ (\A t \in Slots : t # s => req'[t] = req[t])
      /\ req' \in [Slots -> {Free} \cup Requests]
  BY <1>0, <1>4, <1>5, Moved
<1>8. earned'[u] = earned[u] \cup {c} /\ (\A v \in Users : v # u => earned'[v] = earned[v])
      /\ earned' \in [Users -> SUBSET Codes]
  BY <1>0, <1>1, <1>3, <1>5 DEF CourseTyped
<1>9. CourseTyped'
  BY <1>0, <1>5, <1>7, <1>8 DEF CourseTyped
<1>10. Holds(x, solved[u])
  BY <1>1, <1>2, <1>3, <1>4 DEF Holds
<1>11. RequestsHold'
  BY <1>4, <1>5, <1>7, <1>10, <1>0, Learning DEF CourseTyped
<1>12. EarnedIsOwed'
  <2>1. c \in Owed(solved[u])
    BY <1>1, <1>2, <1>3 DEF Holds
  <2> QED
    BY <1>0, <1>1, <1>5, <1>8, <2>1 DEF EarnedIsOwed
<1>13. NoneUnpaid'
  <2>1. x.u \notin Staff \cup everPaid => Open(x)
    BY <1>2, <1>4 DEF Open
  <2> QED
    BY <1>4, <1>5, <1>7, <2>1, Unpaid
<1>14. OwedIsComing'
  <2> SUFFICES ASSUME NEW v \in Users, v \notin missed' \/ \E t \in Slots : Heals(req'[t], v)
               PROVE  Served(v)'
    BY DEF OwedIsComing, Heals
  <2>1. v \notin missed \/ \E t \in Slots : Heals(req[t], v)
    BY <1>1, <1>4, <1>5, <1>7 DEF Heals
  <2>2. Served(v)
    BY <1>0, <2>1 DEF OwedIsComing
  <2>3. earned[v] \subseteq earned'[v]
    BY <1>8
  <2>4. CASE Owed(solved[v]) \subseteq earned[v]
    BY <1>5, <2>3, <2>4 DEF Served
  <2>5. ASSUME NEW t \in Slots, Repairs(req[t], v, Owed(solved[v]), earned[v]) PROVE Served(v)'
    <3>1. CASE t # s
      <4>1. Repairs(req[t], v, Owed(solved[v]), earned'[v])
        BY <2>3, <2>5 DEF Repairs
      <4> QED
        BY <1>5, <1>7, <3>1, <4>1 DEF Served
    <3>2. CASE t = s
      <4>1. v = u /\ Owed(solved[u]) \subseteq r.todo \cup earned[u]
        BY <1>1, <2>5, <3>2 DEF Repairs
      <4>2. CASE r.todo = {c}
        BY <1>5, <1>8, <4>1, <4>2 DEF Served
      <4>3. CASE r.todo # {c}
        <5>1. Repairs(x, v, Owed(solved[v]), earned'[v])
          BY <1>4, <1>6, <1>8, <4>1, <4>3 DEF Repairs
        <5> QED
          BY <1>5, <1>7, <5>1 DEF Served
      <4> QED
        BY <4>2, <4>3
    <3> QED
      BY <3>1, <3>2
  <2> QED
    BY <2>2, <2>4, <2>5 DEF Served
<1> QED
  BY <1>9, <1>11, <1>12, <1>13, <1>14 DEF CourseInv

\* A request that no longer heals holds what it held.
LEMMA Unhealed ==
  ASSUME NEW r \in Requests
  PROVE  LET y == [r EXCEPT !.heals = FALSE]
         IN /\ y \in Requests /\ y.u = r.u /\ ~y.heals /\ y # Free
            /\ \A best : Holds(r, best) => Holds(y, best)
            /\ Open(r) => Open(y)
            /\ \A v, o, h : Repairs(r, v, o, h) => Repairs(y, v, o, h)
<1> DEFINE y == [r EXCEPT !.heals = FALSE]
<1>1. y \in Requests /\ y.u = r.u /\ y.heals = FALSE /\ y.item = r.item /\ y.page = r.page
      /\ y.at = r.at /\ y.shown = r.shown /\ y.correct = r.correct
      /\ y.owed = r.owed /\ y.todo = r.todo /\ y.began = r.began
  BY DEF Requests
<1> HIDE DEF y
<1>2. y # Free
  BY <1>1, Slot
<1>3. \A best : Holds(r, best) => Holds(y, best)
  BY <1>1 DEF Holds
<1>4. Open(r) => Open(y)
  BY <1>1 DEF Open
<1>5. \A v, o, h : Repairs(r, v, o, h) => Repairs(y, v, o, h)
  BY <1>1, <1>2 DEF Repairs
<1> QED
  BY <1>1, <1>2, <1>3, <1>4, <1>5 DEF y

\* A call fails, before it ran or after.
LEMMA FailKeeps ==
  ASSUME CourseInv, NEW s \in Slots, Fails(s)
  PROVE  CourseInv'
<1> DEFINE r == req[s]
           u == req[s].u
<1>0. CourseTyped /\ RequestsHold /\ EarnedIsOwed /\ OwedIsComing /\ NoneUnpaid
  BY DEF CourseInv
<1>1. r \in Requests /\ r # Free /\ u \in Users /\ r.u = u /\ r.page \subseteq Items
      /\ r.at \in {"record", "progress", "codes", "write"}
  BY <1>0, Slot DEF CourseTyped, Fails
<1>2. solved[u] \in SUBSET Items /\ Holds(r, solved[u]) /\ (u \notin Staff \cup everPaid => Open(r))
  BY <1>0, <1>1 DEF CourseTyped, RequestsHold, NoneUnpaid
<1>3. /\ faults' = faults + 1 /\ faults < MaxFaults /\ missed' = missed \cup {u}
      /\ UNCHANGED <<paid, earned, told, everPaid, begun>>
  BY DEF Fails
<1>4. /\ req'[s] = Free
      /\ \A t \in Slots : t # s /\ req[t] # Free /\ req[t].u = u => req'[t] = [req[t] EXCEPT !.heals = FALSE]
      /\ \A t \in Slots : t # s /\ ~(req[t] # Free /\ req[t].u = u) => req'[t] = req[t]
      /\ req' = [t \in Slots |-> req'[t]]
  BY DEF Fails
<1>5. ASSUME NEW t \in Slots, t # s, req[t] # Free
      PROVE  /\ req'[t] \in Requests /\ req'[t].u = req[t].u /\ req'[t] # Free
             /\ \A best : Holds(req[t], best) => Holds(req'[t], best)
             /\ Open(req[t]) => Open(req'[t])
             /\ \A v, o, h : Repairs(req[t], v, o, h) => Repairs(req'[t], v, o, h)
             /\ \A v : Heals(req'[t], v) => Heals(req[t], v) /\ v # u
  <2>1. req[t] \in Requests
    BY <1>0, <1>5, Slot DEF CourseTyped
  <2>2. CASE req[t].u = u
    <3>1. req'[t] = [req[t] EXCEPT !.heals = FALSE]
      BY <1>4, <1>5, <2>2
    <3> QED
      BY <2>1, <2>2, <3>1, Unhealed DEF Heals
  <2>3. CASE req[t].u # u
    <3>1. req'[t] = req[t]
      BY <1>4, <1>5, <2>3
    <3> QED
      BY <1>5, <2>1, <2>3, <3>1 DEF Heals
  <2> QED
    BY <2>2, <2>3
<1>6. ASSUME NEW t \in Slots, t = s \/ req[t] = Free PROVE req'[t] = Free
  BY <1>4, <1>6
<1>7. \/ solved' = solved /\ tried' = tried
      \/ /\ r.at = "record"
         /\ tried' = [tried EXCEPT ![u] = tried[u] \cup {r.item}]
         /\ solved' = [solved EXCEPT ![u] = IF r.correct THEN solved[u] \cup {r.item} ELSE solved[u]]
  BY DEF Fails
<1>8. r.at = "record" => r.item \in Items \ Drafts
  BY <1>2 DEF Holds
<1>9. /\ solved' \in [Users -> SUBSET Items] /\ tried' \in [Users -> SUBSET Items]
      /\ \A v \in Users : v # u => solved'[v] = solved[v] /\ tried'[v] = tried[v]
      /\ solved[u] \subseteq solved'[u] /\ solved'[u] \subseteq tried'[u]
      /\ \A i \in Items : i \in tried'[u] => i \in tried[u] \/ (i \notin Drafts /\ i = r.item)
  <2>1. solved[u] \subseteq tried[u]
    BY <1>0, <1>1 DEF EarnedIsOwed
  <2>2. CASE solved' = solved /\ tried' = tried
    BY <1>0, <1>1, <2>1, <2>2 DEF CourseTyped
  <2>3. CASE /\ r.at = "record"
             /\ tried' = [tried EXCEPT ![u] = tried[u] \cup {r.item}]
             /\ solved' = [solved EXCEPT ![u] = IF r.correct THEN solved[u] \cup {r.item} ELSE solved[u]]
    BY <1>0, <1>1, <1>8, <2>1, <2>3 DEF CourseTyped
  <2> QED
    BY <1>7, <2>2, <2>3
<1>10. \A v \in Users : solved[v] \subseteq solved'[v] /\ Owed(solved[v]) \subseteq Owed(solved'[v])
  <2>1. \A v \in Users : solved[v] \subseteq solved'[v]
    BY <1>9
  <2> QED
    BY <1>0, <1>9, <2>1, MoreIsOwed DEF CourseTyped
<1>11. CourseTyped'
  <2>1. \A t \in Slots : req'[t] \in {Free} \cup Requests
    BY <1>5, <1>6
  <2>2. req' \in [Slots -> {Free} \cup Requests]
    BY <1>4, <2>1
  <2>3. faults' \in 0..MaxFaults
    BY <1>0, <1>3, CourseAssumption DEF CourseTyped
  <2> QED
    BY <1>0, <1>1, <1>3, <1>9, <2>2, <2>3 DEF CourseTyped
<1>12. RequestsHold'
  <2>1. ASSUME NEW t \in Slots, req'[t] # Free PROVE Holds(req'[t], solved'[req'[t].u])
    <3>1. t # s /\ req[t] # Free
      BY <1>6, <2>1
    <3>2. req[t] \in Requests /\ req[t].u \in Users /\ Holds(req[t], solved[req[t].u])
      BY <1>0, <3>1, Slot DEF CourseTyped, RequestsHold
    <3>3. solved[req[t].u] \in SUBSET Items /\ solved'[req[t].u] \in SUBSET Items
      BY <1>0, <1>9, <3>2 DEF CourseTyped
    <3>4. Holds(req[t], solved'[req[t].u])
      BY <1>10, <3>2, <3>3, HoldsOn
    <3> QED
      BY <1>5, <3>1, <3>4
  <2> QED
    BY <2>1 DEF RequestsHold
<1>13. EarnedIsOwed'
  <2>1. ASSUME NEW v \in Users
        PROVE  earned'[v] \subseteq Owed(solved'[v]) /\ solved'[v] \subseteq tried'[v]
               /\ tried'[v] \subseteq Items \ Drafts
    <3>1. earned[v] \subseteq Owed(solved[v]) /\ solved[v] \subseteq tried[v] /\ tried[v] \subseteq Items \ Drafts
      BY <1>0 DEF EarnedIsOwed
    <3>2. tried'[v] \in SUBSET Items
      BY <1>9
    <3> QED
      BY <1>3, <1>9, <1>10, <3>1, <3>2
  <2> QED
    BY <2>1 DEF EarnedIsOwed
<1>14. NoneUnpaid'
  <2>1. ASSUME NEW v \in Users \ (Staff \cup everPaid), NEW i \in Items, i \in tried'[v] \/ <<v, i>> \in told'
        PROVE  OpenToAll(i)
    <3>1. CASE i \in tried[v] \/ <<v, i>> \in told
      BY <1>0, <3>1 DEF NoneUnpaid
    <3>2. CASE v = u /\ i = r.item
      BY <1>2, <3>2, CourseAssumption DEF Open
    <3> QED
      BY <1>3, <1>9, <2>1, <3>1, <3>2
  <2>2. ASSUME NEW v \in Users \ (Staff \cup everPaid), NEW t \in Slots, req'[t] # Free, req'[t].u = v
        PROVE  Open(req'[t])
    <3>1. t # s /\ req[t] # Free
      BY <1>6, <2>2
    <3>2. Open(req[t])
      BY <1>0, <1>5, <2>2, <3>1 DEF NoneUnpaid
    <3> QED
      BY <1>5, <3>1, <3>2
  <2> QED
    BY <1>0, <1>3, <2>1, <2>2 DEF NoneUnpaid
<1>15. OwedIsComing'
  <2> SUFFICES ASSUME NEW v \in Users, v \notin missed' \/ \E t \in Slots : Heals(req'[t], v)
               PROVE  Served(v)'
    BY DEF OwedIsComing, Heals
  <2>1. ASSUME NEW t \in Slots, Heals(req'[t], v) PROVE v # u /\ Heals(req[t], v)
    <3>1. t # s /\ req[t] # Free
      BY <1>6, <2>1 DEF Heals
    <3> QED
      BY <1>5, <2>1, <3>1
  <2>2. v # u /\ (v \notin missed \/ \E t \in Slots : Heals(req[t], v))
    BY <1>3, <2>1
  <2>3. Served(v) /\ solved'[v] = solved[v]
    BY <1>0, <1>9, <2>2 DEF OwedIsComing
  <2>4. CASE Owed(solved[v]) \subseteq earned[v]
    BY <1>3, <2>3, <2>4 DEF Served
  <2>5. ASSUME NEW t \in Slots, Repairs(req[t], v, Owed(solved[v]), earned[v]) PROVE Served(v)'
    <3>1. t # s /\ req[t] # Free
      BY <1>1, <2>2, <2>5 DEF Repairs
    <3>2. Repairs(req'[t], v, Owed(solved[v]), earned[v])
      BY <1>5, <2>5, <3>1
    <3> QED
      BY <1>3, <2>3, <3>2 DEF Served
  <2> QED
    BY <2>3, <2>4, <2>5 DEF Served
<1> QED
  BY <1>11, <1>12, <1>13, <1>14, <1>15 DEF CourseInv

LEMMA AccessKeeps ==
  ASSUME CourseInv, NEW u \in Users, Access(u)
  PROVE  CourseInv'
<1>0. CourseTyped /\ RequestsHold /\ EarnedIsOwed /\ OwedIsComing /\ NoneUnpaid
  BY DEF CourseInv
<1>1. /\ paid' \in [Users -> BOOLEAN] /\ (\A v \in Users : v # u => paid'[v] = paid[v])
      /\ everPaid' = everPaid \cup {u}
      /\ UNCHANGED <<solved, tried, earned, req, told, missed, begun, faults>>
  BY <1>0 DEF Access, CourseTyped
<1>2. CourseTyped'
  BY <1>0, <1>1 DEF CourseTyped
<1>3. RequestsHold' /\ EarnedIsOwed'
  BY <1>0, <1>1 DEF RequestsHold, EarnedIsOwed
<1>4. OwedIsComing'
  BY <1>0, <1>1 DEF OwedIsComing, Served
<1>5. NoneUnpaid'
  BY <1>0, <1>1 DEF NoneUnpaid
<1> QED
  BY <1>2, <1>3, <1>4, <1>5 DEF CourseInv

LEMMA CourseSteps == CourseInv /\ [CourseNext]_courseVars => CourseInv'
<1> SUFFICES ASSUME CourseInv, [CourseNext]_courseVars PROVE CourseInv'
  OBVIOUS
<1>1. CASE UNCHANGED courseVars
  BY <1>1 DEF courseVars, CourseInv, CourseTyped, RequestsHold, EarnedIsOwed, OwedIsComing, Served, NoneUnpaid
<1>2. ASSUME NEW s \in Slots, NEW u \in Users, Visits(s, u) PROVE CourseInv'
  BY <1>2, VisitKeeps
<1>3. ASSUME NEW s \in Slots, NEW u \in Users, NEW i \in Items, NEW a \in Answers,
             Begins(s, u, i, a) \/ BeginsQuestion(s, u, i, a)
      PROVE  CourseInv'
  <2>1. i \in Items \ Drafts
    BY <1>3, CourseAssumption DEF Begins, BeginsQuestion, Questions
  <2> QED
    BY <1>3, <2>1, AttemptKeeps DEF Begins, BeginsQuestion
<1>4. ASSUME NEW s \in Slots, NEW u \in Users,
             (\E n \in Lessons : OpensLesson(s, u, n)) \/ \E p \in DOMAIN Exams : OpensExam(s, u, p)
      PROVE  CourseInv'
  BY <1>4, OpensKeeps
<1>5. ASSUME NEW s \in Slots, Records(s) \/ ReadsProgress(s) \/ ReadsCodes(s) \/ WritesCode(s) \/ Fails(s)
      PROVE  CourseInv'
  BY <1>5, RecordsKeep, SyncKeeps, WritesKeep, FailKeeps
<1>6. ASSUME NEW s \in Slots, ReadsScore(s) \/ ShowsLabs(s) \/ ShowsQuestions(s) PROVE CourseInv'
  BY <1>6, ReadsKeep
<1>7. ASSUME NEW s \in Slots, SendsPage(s) \/ Replies(s) \/ ReadFails(s) PROVE CourseInv'
  BY <1>7, EndKeeps
<1>8. ASSUME NEW u \in Users, Access(u) PROVE CourseInv'
  BY <1>8, AccessKeeps
<1> QED
  BY <1>1, <1>2, <1>3, <1>4, <1>5, <1>6, <1>7, <1>8 DEF CourseNext

LEMMA CourseHolds == CourseSpec => []CourseInv
BY CourseStarts, CourseSteps, PTL DEF CourseSpec

-----------------------------------------------------------------------------
\* The tables and the requests hold what they are meant to.
THEOREM CourseTypes == CourseSpec => []CourseTypeOK
<1>1. ASSUME CourseInv PROVE CourseTypeOK
  <2>0. CourseTyped /\ RequestsHold /\ EarnedIsOwed
    BY <1>1 DEF CourseInv
  <2>1. ASSUME NEW s \in Slots, req[s] # Free
        PROVE  /\ req[s].at \in {"record", "progress", "codes", "write", "reply", "score", "labs", "questions", "page"}
               /\ req[s].u \in Users
               /\ req[s].item \in Items \cup {"none"} /\ req[s].correct \in BOOLEAN
               /\ req[s].hint \in {"none", "exact", "hot", "warm", "cold"}
               /\ req[s].owed \subseteq Codes /\ req[s].todo \subseteq req[s].owed
               /\ req[s].page \subseteq Items /\ req[s].heals \in BOOLEAN
    <3>1. req[s] \in Requests /\ Holds(req[s], solved[req[s].u])
      BY <2>0, <2>1, Slot DEF CourseTyped, RequestsHold
    <3> QED
      BY <3>1 DEF Requests, Stages, Hints, Holds
  <2>2. \A u \in Users : solved[u] \subseteq tried[u] /\ tried[u] \subseteq Items \ Drafts /\ earned[u] \subseteq Codes
    BY <2>0 DEF CourseTyped, EarnedIsOwed
  <2> QED
    BY <2>0, <2>1, <2>2 DEF CourseTypeOK, CourseTyped
<1> QED
  BY <1>1, CourseHolds, PTL

\* Nobody has an achievement they do not deserve, and who waits for no answer has all they
\* deserve unless a recomputation of theirs was cut short and none has been made since:
\* for every course, however many requests of a person overlap.
THEOREM AchievementsAreKept == CourseSpec => []AchievementsFollow
<1>1. ASSUME CourseInv PROVE AchievementsFollow
  <2> SUFFICES ASSUME NEW u \in Users
               PROVE  /\ earned[u] \subseteq Owed(solved[u])
                      /\ u \notin missed /\ (\A s \in Slots : req[s] = Free \/ req[s].u # u) =>
                           earned[u] = Owed(solved[u])
    BY DEF AchievementsFollow, Owed
  <2>1. earned[u] \subseteq Owed(solved[u])
    BY <1>1 DEF CourseInv, EarnedIsOwed
  <2>2. ASSUME u \notin missed, \A s \in Slots : req[s] = Free \/ req[s].u # u
        PROVE  Owed(solved[u]) \subseteq earned[u]
    <3>1. Served(u)
      BY <1>1, <2>2 DEF CourseInv, OwedIsComing
    <3> QED
      BY <2>2, <3>1 DEF Served, Repairs
  <2> QED
    BY <2>1, <2>2
<1> QED
  BY <1>1, CourseHolds, PTL

\* What a page or a reply says is solved, is, though its parts are read at different times;
\* and what a purchase opens is attempted by and told only to those who have had access.
THEOREM CourseIsTold == CourseSpec => []CourseTells
<1>1. ASSUME CourseInv PROVE ShownIsSolved
  <2>1. ASSUME NEW s \in Slots, req[s] # Free PROVE Holds(req[s], solved[req[s].u])
    BY <1>1, <2>1 DEF CourseInv, RequestsHold
  <2> QED
    BY <2>1 DEF ShownIsSolved, Holds
<1>2. ASSUME CourseInv PROVE PaidStaysPaid
  BY <1>2 DEF CourseInv, NoneUnpaid, PaidStaysPaid, OpenToAll
<1> QED
  BY <1>1, <1>2, CourseHolds, PTL DEF CourseTells

-----------------------------------------------------------------------------
\* Only more is ever solved and earned.
LEMMA OnlyMore ==
  ASSUME CourseInv, [CourseNext]_courseVars
  PROVE  \A u \in Users : solved[u] \subseteq solved'[u] /\ earned[u] \subseteq earned'[u]
<1>0. CourseTyped
  BY DEF CourseInv
<1>1. ASSUME NEW s \in Slots, Records(s)
      PROVE  \A u \in Users : solved[u] \subseteq solved'[u] /\ earned[u] \subseteq earned'[u]
  BY <1>0, <1>1 DEF Records, CourseTyped
<1>2. ASSUME NEW s \in Slots, WritesCode(s)
      PROVE  \A u \in Users : solved[u] \subseteq solved'[u] /\ earned[u] \subseteq earned'[u]
  BY <1>0, <1>2 DEF WritesCode, CourseTyped
<1>3. ASSUME NEW s \in Slots, Fails(s)
      PROVE  \A u \in Users : solved[u] \subseteq solved'[u] /\ earned[u] \subseteq earned'[u]
  BY <1>0, <1>3 DEF Fails, CourseTyped
<1>4. CASE UNCHANGED courseVars
  BY <1>0, <1>4 DEF courseVars
<1>5. ASSUME NEW s \in Slots, NEW u \in Users, Visits(s, u) PROVE solved' = solved /\ earned' = earned
  BY <1>5 DEF Visits
<1>6. ASSUME NEW s \in Slots, NEW u \in Users, NEW i \in Items, NEW a \in Answers,
             Begins(s, u, i, a) \/ BeginsQuestion(s, u, i, a)
      PROVE  solved' = solved /\ earned' = earned
  BY <1>6 DEF Begins, BeginsQuestion, Attempts
<1>7. ASSUME NEW s \in Slots, NEW u \in Users,
             (\E n \in Lessons : OpensLesson(s, u, n)) \/ \E p \in DOMAIN Exams : OpensExam(s, u, p)
      PROVE  solved' = solved /\ earned' = earned
  BY <1>7 DEF OpensLesson, OpensExam, Shows
<1>8. ASSUME NEW s \in Slots,
             \/ ReadsProgress(s) \/ ReadsCodes(s) \/ Replies(s) \/ ReadsScore(s) \/ ShowsLabs(s)
             \/ ShowsQuestions(s) \/ SendsPage(s) \/ ReadFails(s)
      PROVE  solved' = solved /\ earned' = earned
  BY <1>8 DEF ReadsProgress, ReadsCodes, Replies, ReadsScore, ShowsLabs, ShowsQuestions, SendsPage, ReadFails
<1>9. ASSUME NEW u \in Users, Access(u) PROVE solved' = solved /\ earned' = earned
  BY <1>9 DEF Access
<1> QED
  BY <1>1, <1>2, <1>3, <1>4, <1>5, <1>6, <1>7, <1>8, <1>9 DEF CourseNext

LessonsDone(best) == {n \in Lessons : LabsOf[n] \subseteq best}
QuizzesDone(best) == {p \in Quizzes : Pack(p) \subseteq best}
ExamsPassed(best) == {p \in DOMAIN Exams : PackScore(best, p).passed}

\* The parts of a progress never go down when more is solved.
LEMMA MoreIsDone ==
  ASSUME NEW S \in SUBSET Items, NEW T \in SUBSET Items, S \subseteq T
  PROVE  /\ AtLeast(S \cap Labs, T \cap Labs) /\ AtLeast(LessonsDone(S), LessonsDone(T))
         /\ AtLeast(QuizzesDone(S), QuizzesDone(T)) /\ AtLeast(ExamsPassed(S), ExamsPassed(T))
<1>1. IsFiniteSet(T \cap Labs)
  BY CourseAssumption, FS_Subset
<1>2. IsFiniteSet(LessonsDone(T)) /\ LessonsDone(S) \subseteq LessonsDone(T)
  BY FewLessons, FS_Subset DEF LessonsDone
<1>3. IsFiniteSet(QuizzesDone(T)) /\ QuizzesDone(S) \subseteq QuizzesDone(T)
  BY FewLessons, FS_Subset DEF QuizzesDone
<1>4. IsFiniteSet(ExamsPassed(T))
  BY CourseAssumption, FS_Subset DEF ExamsPassed
<1>5. ASSUME NEW p \in ExamsPassed(S) PROVE p \in ExamsPassed(T)
  <2>1. IsFiniteSet(T \cap Pack(p)) /\ IsFiniteSet(Pack(p))
    BY CourseAssumption, FS_Subset DEF Pack, Questions
  <2>2. AtLeast(S \cap Pack(p), T \cap Pack(p)) /\ Cardinality(Pack(p)) \in Nat
    BY <2>1, Smaller, FS_CardinalityType
  <2>3. PassMark(Cardinality(Pack(p))) \in Int
    BY <2>2 DEF PassMark
  <2>4. p \in DOMAIN Exams /\ Cardinality(S \cap Pack(p)) >= PassMark(Cardinality(Pack(p)))
    BY DEF ExamsPassed, PackScore
  <2> QED
    BY <2>2, <2>3, <2>4 DEF AtLeast, ExamsPassed, PackScore
<1> QED
  BY <1>1, <1>2, <1>3, <1>4, <1>5, Smaller

LEMMA Viewed ==
  ASSUME NEW u \in Users
  PROVE  ProgressView(u) = [labs |-> Cardinality(solved[u] \cap Labs),
                            lessons |-> Cardinality(LessonsDone(solved[u])),
                            quizzes |-> Cardinality(QuizzesDone(solved[u])),
                            exams |-> Cardinality(ExamsPassed(solved[u]))]
<1>1. \A p \in DOMAIN Exams : ExamView(u, p).passed = PackScore(solved[u], p).passed
  BY DEF ExamView, PackScore
<1> QED
  BY <1>1 DEF ProgressView, LessonsDone, QuizzesDone, ExamsPassed

\* Nothing a person has achieved is taken away: their rank and their progress only go up,
\* whatever is answered, whoever's access ends and whichever call fails.
THEOREM ProgressOnlyGrows == CourseSpec => NothingIsTakenAway
<1> DEFINE Grows == \A u \in Users :
       /\ RankLevel(earned'[u]) >= RankLevel(earned[u])
       /\ \A k \in {"labs", "lessons", "quizzes", "exams"} :
            ProgressView(u)'[k] >= ProgressView(u)[k]
<1>1. ASSUME CourseInv, CourseInv', [CourseNext]_courseVars PROVE Grows
  <2> SUFFICES ASSUME NEW u \in Users
               PROVE  /\ RankLevel(earned'[u]) >= RankLevel(earned[u])
                      /\ \A k \in {"labs", "lessons", "quizzes", "exams"} :
                           ProgressView(u)'[k] >= ProgressView(u)[k]
    OBVIOUS
  <2>1. solved[u] \subseteq solved'[u] /\ earned[u] \subseteq earned'[u]
    BY <1>1, OnlyMore
  <2>2. solved[u] \in SUBSET Items /\ solved'[u] \in SUBSET Items /\ earned'[u] \subseteq Codes
    <3>1. CourseTyped /\ CourseTyped' /\ EarnedIsOwed'
      BY <1>1 DEF CourseInv
    <3>2. solved[u] \in SUBSET Items /\ solved'[u] \in SUBSET Items
      BY <3>1 DEF CourseTyped, Labs, Questions
    <3>3. Owed(solved'[u]) \subseteq Codes
      BY <3>2, OwedAreCodes
    <3> QED
      BY <3>1, <3>2, <3>3 DEF EarnedIsOwed
  <2>3. RankLevel(earned'[u]) >= RankLevel(earned[u])
    BY <2>1, <2>2, RanksRise
  <2>4. /\ AtLeast(solved[u] \cap Labs, solved'[u] \cap Labs)
        /\ AtLeast(LessonsDone(solved[u]), LessonsDone(solved'[u]))
        /\ AtLeast(QuizzesDone(solved[u]), QuizzesDone(solved'[u]))
        /\ AtLeast(ExamsPassed(solved[u]), ExamsPassed(solved'[u]))
    BY <2>1, <2>2, MoreIsDone
  <2>5. ProgressView(u)' = [labs |-> Cardinality(solved'[u] \cap Labs),
                            lessons |-> Cardinality(LessonsDone(solved'[u])),
                            quizzes |-> Cardinality(QuizzesDone(solved'[u])),
                            exams |-> Cardinality(ExamsPassed(solved'[u]))]
    <3>1. \A p \in DOMAIN Exams : ExamView(u, p)'.passed = PackScore(solved'[u], p).passed
      BY DEF ExamView, PackScore
    <3> QED
      BY <3>1 DEF ProgressView, LessonsDone, QuizzesDone, ExamsPassed
  <2>6. ProgressView(u) = [labs |-> Cardinality(solved[u] \cap Labs),
                           lessons |-> Cardinality(LessonsDone(solved[u])),
                           quizzes |-> Cardinality(QuizzesDone(solved[u])),
                           exams |-> Cardinality(ExamsPassed(solved[u]))]
    BY Viewed
  <2> QED
    BY <2>3, <2>4, <2>5, <2>6 DEF AtLeast
<1> QED
  BY <1>1, CourseHolds, PTL DEF NothingIsTakenAway, CourseSpec

-----------------------------------------------------------------------------
(* What the payments service keeps of subscriptions.  RowsSettle is of a     *)
(* moment when nothing is under way; the invariant says for every moment who *)
(* is on the way with the status of now.                                     *)

\* What a run of processOne or of the cancel route may have in hand.
HandTypes == [of: Checkouts \cup Charges \cup {"nothing"}, late: BOOLEAN, tries: Ladder,
          seen: {"unread", "none", "pending", "authorized", "cancelled", "no row", "row"}]
Statuses == {"none", "pending", "authorized", "cancelled"}
EventTypes == [Checkouts \cup Charges -> [Ladder -> Nat]]

SubTyped ==
  /\ asked \in [Checkouts -> {"new", "refused", "checked", "ordered", "open", "failed"}]
  /\ prov \in [Checkouts -> Statuses] /\ sub \in [Checkouts -> Statuses]
  /\ newest \in [Buyers -> Checkouts \cup {"nothing"}]
  /\ events \in EventTypes
  /\ work \in [Workers -> HandTypes]
  /\ \A w \in Workers : work[w].of \in Checkouts => work[w].seen \in Statuses \cup {"unread"}
  /\ cancel \in [Buyers -> HandTypes]
  /\ \A u \in Buyers :
       cancel[u] # Nothing =>
         /\ cancel[u].of \in Checkouts
         /\ cancel[u].seen \in {"unread", "cancelled"}
         /\ cancel[u].seen = "cancelled" => prov[cancel[u].of] = "cancelled"

\* Of a checkout that is not open nobody has heard.
Unheard(c) ==
  /\ prov[c] = "none" /\ sub[c] = "none" /\ ~EventWaits(c)
  /\ \A w \in Workers : work[w].of # c
  /\ \A u \in Buyers : cancel[u].of # c /\ newest[u] # c
OpenedFirst == \A c \in Checkouts : asked[c] # "open" => Unheard(c)

\* A run that has read a status and has not written it.
Carries(r, c) == r.of = c /\ r.seen # "unread"
\* What is still to tell the table of the status that c has now: an event that waits, a
\* run that is about to read it or has just read it, an answer that is about to be
\* stored; or the hope is given up.
Told(c) ==
  \/ c \in lost \cup crossed \/ EventWaits(c)
  \/ \E w \in Workers : work[w].of = c /\ work[w].seen \in {"unread", prov[c]}
  \/ \E u \in Buyers : Carries(cancel[u], c)

\* A row that is not up to date will be told, and so will a row that somebody is about
\* to overwrite with a status of before.
StaleIsTold ==
  \A c \in Checkouts :
    /\ sub[c] # prov[c] => Told(c)
    /\ \A w \in Workers : Carries(work[w], c) /\ ~work[w].late /\ work[w].seen # prov[c] => Told(c)

SubInv == SubTyped /\ OpenedFirst /\ StaleIsTold

\* No preapproval has been heard of at first.
LEMMA SubscriptionsStart == SubscriptionsInit => SubInv
BY SubscriptionsAssumption
   DEF SubscriptionsInit, SubInv, SubTyped, OpenedFirst, Unheard, StaleIsTold, Told, Carries, HandTypes,
       Statuses, EventTypes, EventWaits, Ladder, Nothing

\* A checkout is no charge, and neither is "nothing".
LEMMA Apart ==
  /\ \A c \in Checkouts : c \notin Charges /\ c # "nothing"
  /\ \A c \in Charges : c # "nothing" /\ Of[c] \in Checkouts
BY SubscriptionsAssumption

\* An event that has just arrived has had no attempt.
LEMMA FirstRung == 0 \in Ladder
BY SubscriptionsAssumption DEF Ladder

\* An idle hand holds nothing and has read nothing.
LEMMA HandIdle == Nothing \in HandTypes /\ Nothing.of = "nothing" /\ Nothing.seen = "unread"
BY SubscriptionsAssumption DEF HandTypes, Nothing, Ladder

\* Who takes an event has read nothing of it yet.
LEMMA HandTaken ==
  ASSUME NEW x \in Checkouts \cup Charges, NEW t \in Ladder
  PROVE  /\ [Nothing EXCEPT !.of = x, !.tries = t] \in HandTypes
         /\ [Nothing EXCEPT !.of = x, !.tries = t].of = x
         /\ [Nothing EXCEPT !.of = x, !.tries = t].seen = "unread"
BY DEF HandTypes, Nothing

\* Neither has who cancels.
LEMMA HandAsked ==
  ASSUME NEW x \in Checkouts
  PROVE  /\ [Nothing EXCEPT !.of = x] \in HandTypes
         /\ [Nothing EXCEPT !.of = x].of = x /\ [Nothing EXCEPT !.of = x].seen = "unread"
BY FirstRung DEF HandTypes, Nothing

\* A reading changes what was seen and nothing else.
LEMMA HandReads ==
  ASSUME NEW r \in HandTypes,
         NEW v \in {"none", "pending", "authorized", "cancelled", "no row", "row"}
  PROVE  /\ [r EXCEPT !.seen = v] \in HandTypes
         /\ [r EXCEPT !.seen = v].of = r.of /\ [r EXCEPT !.seen = v].seen = v
         /\ [r EXCEPT !.seen = v].late = r.late
BY DEF HandTypes

\* A write of somebody else marks those who had read before it, and nobody else.
LEMMA HandOvertaken ==
  ASSUME NEW r \in HandTypes, NEW c
  PROVE  /\ Overtake(r, c) \in HandTypes
         /\ Overtake(r, c).of = r.of /\ Overtake(r, c).seen = r.seen
         /\ Carries(r, c) => Overtake(r, c).late
         /\ ~Carries(r, c) => Overtake(r, c) = r
<1>1. CASE Carries(r, c)
  <2>1. Overtake(r, c) = [r EXCEPT !.late = TRUE]
    BY <1>1 DEF Overtake, Carries
  <2> QED
    BY <2>1, <1>1 DEF HandTypes
<1>2. CASE ~Carries(r, c)
  BY <1>2 DEF Overtake, Carries
<1> QED
  BY <1>1, <1>2

\* The types of the variables, out of the invariant.
LEMMA SubTypes ==
  ASSUME SubInv
  PROVE  /\ prov \in [Checkouts -> Statuses] /\ sub \in [Checkouts -> Statuses]
         /\ newest \in [Buyers -> Checkouts \cup {"nothing"}]
         /\ events \in EventTypes
         /\ work \in [Workers -> HandTypes] /\ cancel \in [Buyers -> HandTypes]
BY DEF SubInv, SubTyped

\* One event more waits, whatever its attempts.
LEMMA WaitsMore ==
  ASSUME SubInv, NEW x \in Checkouts \cup Charges, NEW a \in Ladder, Waits(x, a)
  PROVE  /\ events' \in EventTypes /\ EventWaits(x)'
         /\ \A y \in Checkouts \cup Charges :
              (EventWaits(y) => EventWaits(y)') /\ (y # x => (EventWaits(y)' <=> EventWaits(y)))
<1>1. events' = [events EXCEPT ![x][a] = @ + 1] /\ events \in [Checkouts \cup Charges -> [Ladder -> Nat]]
  BY SubTypes DEF Waits, EventTypes
<1>2. /\ events'[x][a] = events[x][a] + 1 /\ events[x][a] \in Nat
      /\ \A b \in Ladder \ {a} : events'[x][b] = events[x][b]
      /\ \A y \in (Checkouts \cup Charges) \ {x} : events'[y] = events[y]
  BY <1>1
<1>3. EventWaits(x)'
  BY <1>2 DEF EventWaits
<1>4. events' \in EventTypes
  BY <1>1 DEF EventTypes
<1> QED
  BY <1>2, <1>3, <1>4 DEF EventWaits

\* An event that is taken is in the hand of a run that will read the status of now.
LEMMA TakeKeeps ==
  ASSUME SubInv, NEW w \in Workers, NEW x \in Checkouts \cup Charges, Take(w, x) PROVE SubInv'
<1>0. PICK a \in Ladder :
        /\ events[x][a] > 0 /\ events' = [events EXCEPT ![x][a] = @ - 1]
        /\ work' = [work EXCEPT ![w] =
             [Nothing EXCEPT !.of = x, !.tries = IF a = EventAttempts THEN a ELSE a + 1]]
  BY DEF Take
<1> DEFINE t == IF a = EventAttempts THEN a ELSE a + 1
           r == [Nothing EXCEPT !.of = x, !.tries = t]
<1>1. r \in HandTypes /\ r.of = x /\ r.seen = "unread"
  <2>1. t \in Ladder
    BY SubscriptionsAssumption DEF Ladder
  <2> HIDE DEF t
  <2> QED
    BY <2>1, HandTaken
<1>2. /\ work[w] = Nothing /\ work' = [work EXCEPT ![w] = r]
      /\ UNCHANGED <<asked, prov, sub, newest, cancel, lost, crossed>>
  BY <1>0 DEF Take
<1> HIDE DEF r
<1>3. /\ work'[w] = r /\ \A v \in Workers \ {w} : work'[v] = work[v]
      /\ work' \in [Workers -> HandTypes]
  BY <1>1, <1>2 DEF SubInv, SubTyped
<1>4. /\ EventWaits(x)
      /\ \A y \in (Checkouts \cup Charges) \ {x} : EventWaits(y)' <=> EventWaits(y)
      /\ events' \in EventTypes
  <2>1. events \in [Checkouts \cup Charges -> [Ladder -> Nat]]
    BY SubTypes DEF EventTypes
  <2>2. /\ events[x][a] \in Nat /\ events[x][a] - 1 \in Nat
        /\ \A y \in (Checkouts \cup Charges) \ {x} : events'[y] = events[y]
    BY <1>0, <2>1
  <2>3. events' \in EventTypes
    BY <1>0, <2>1, <2>2 DEF EventTypes
  <2> QED
    BY <1>0, <2>2, <2>3 DEF EventWaits
<1>5. SubTyped'
  <2>1. \A v \in Workers : work'[v].of \in Checkouts => work'[v].seen \in Statuses \cup {"unread"}
    BY <1>1, <1>3 DEF SubInv, SubTyped
  <2> QED
    BY <2>1, <1>2, <1>3, <1>4 DEF SubInv, SubTyped
<1>6. OpenedFirst'
  BY <1>1, <1>2, <1>3, <1>4 DEF SubInv, OpenedFirst, Unheard
<1>7. work[w].of \notin Checkouts
  BY <1>2, HandIdle, Apart
<1>8. StaleIsTold'
  <2> SUFFICES ASSUME NEW c \in Checkouts
               PROVE  /\ (sub[c] # prov[c] => Told(c))'
                      /\ \A v \in Workers : (Carries(work[v], c) /\ ~work[v].late /\ work[v].seen # prov[c] => Told(c))'
    BY DEF StaleIsTold
  <2>1. Told(c) => Told(c)'
    BY <1>1, <1>2, <1>3, <1>4, <1>7 DEF Told, Carries
  <2> QED
    BY <2>1, <1>1, <1>2, <1>3 DEF SubInv, StaleIsTold, Carries
<1> QED
  BY <1>5, <1>6, <1>8 DEF SubInv

\* A run that lets its event go leaves it waiting, or the hope for it is given up.
LEMMA LeavesKeeps ==
  ASSUME SubInv, NEW w \in Workers, work[w] # Nothing, work' = [work EXCEPT ![w] = Nothing],
         \/ Waits(work[w].of, work[w].tries) /\ UNCHANGED lost
         \/ lost' = lost \cup {work[w].of} /\ UNCHANGED events,
         UNCHANGED <<asked, prov, sub, newest, cancel, crossed>>
  PROVE  SubInv'
<1>0. PICK x, a : x = work[w].of /\ a = work[w].tries
  OBVIOUS
<1>1. x \in Checkouts \cup Charges \cup {"nothing"} /\ a \in Ladder
  BY <1>0, SubTypes DEF HandTypes
<1>2. /\ work'[w] = Nothing /\ \A v \in Workers \ {w} : work'[v] = work[v]
      /\ work' \in [Workers -> HandTypes]
  BY HandIdle, SubTypes
<1>3. /\ events' \in EventTypes /\ lost \subseteq lost'
      /\ x \in Checkouts => EventWaits(x)' \/ x \in lost'
      /\ \A y \in Checkouts : (EventWaits(y) => EventWaits(y)') /\ (y # x => (EventWaits(y)' <=> EventWaits(y)))
  <2>1. CASE Waits(x, a) /\ UNCHANGED lost
    <3>1. CASE x \in Checkouts \cup Charges
      BY <2>1, <3>1, <1>1, WaitsMore
    <3>2. CASE x = "nothing"
      <4>1. x \notin DOMAIN events
        BY <3>2, SubTypes, SubscriptionsAssumption DEF EventTypes
      <4>2. events' = events
        BY <2>1, <4>1, SubTypes DEF Waits, EventTypes
      <4> QED
        BY <2>1, <3>2, <4>2, SubTypes, Apart DEF EventWaits
    <3> QED
      BY <1>1, <3>1, <3>2
  <2>2. CASE lost' = lost \cup {x} /\ UNCHANGED events
    BY <2>2, SubTypes DEF EventWaits
  <2> QED
    BY <1>0, <2>1, <2>2
<1>4. SubTyped'
  <2>1. \A v \in Workers : work'[v].of \in Checkouts => work'[v].seen \in Statuses \cup {"unread"}
    BY <1>2, HandIdle, Apart DEF SubInv, SubTyped
  <2> QED
    BY <2>1, <1>2, <1>3 DEF SubInv, SubTyped
<1>5. OpenedFirst'
  <2> SUFFICES ASSUME NEW c \in Checkouts, asked[c] # "open" PROVE Unheard(c)'
    BY DEF OpenedFirst
  <2>1. Unheard(c) /\ x # c
    BY <1>0 DEF SubInv, OpenedFirst, Unheard
  <2> QED
    BY <2>1, <1>2, <1>3, HandIdle, Apart DEF Unheard
<1>6. StaleIsTold'
  <2> SUFFICES ASSUME NEW c \in Checkouts
               PROVE  /\ (sub[c] # prov[c] => Told(c))'
                      /\ \A v \in Workers : (Carries(work[v], c) /\ ~work[v].late /\ work[v].seen # prov[c] => Told(c))'
    BY DEF StaleIsTold
  <2>1. Told(c) => Told(c)'
    BY <1>0, <1>2, <1>3 DEF Told, Carries
  <2> QED
    BY <2>1, <1>2, HandIdle DEF SubInv, StaleIsTold, Carries
<1> QED
  BY <1>4, <1>5, <1>6 DEF SubInv

\* A call fails: the event waits for its next attempt, or is dead after the last.
LEMMA RetryKeeps == ASSUME SubInv, NEW w \in Workers, Retry(w) PROVE SubInv'
<1>1. /\ work[w] # Nothing /\ work' = [work EXCEPT ![w] = Nothing]
      /\ \/ Waits(work[w].of, work[w].tries) /\ UNCHANGED lost
         \/ lost' = lost \cup {work[w].of} /\ UNCHANGED events
      /\ UNCHANGED <<asked, prov, sub, newest, cancel, crossed>>
  BY DEF Retry
<1> QED
  BY <1>1, LeavesKeeps

\* The process dies: the event waits, however many attempts it has had.
LEMMA RunDiesKeeps == ASSUME SubInv, NEW w \in Workers, RunDies(w) PROVE SubInv'
<1>1. /\ work[w] # Nothing /\ work' = [work EXCEPT ![w] = Nothing]
      /\ Waits(work[w].of, work[w].tries) /\ UNCHANGED lost
      /\ UNCHANGED <<asked, prov, sub, newest, cancel, crossed>>
  BY DEF RunDies
<1> QED
  BY <1>1, LeavesKeeps

\* A run that has just read knows the status of now.
LEMMA FetchKeeps == ASSUME SubInv, NEW w \in Workers, Fetch(w) PROVE SubInv'
<1> DEFINE r == [work[w] EXCEPT !.seen = prov[work[w].of]]
<1>1. /\ work[w].of \in Checkouts /\ work[w].seen = "unread" /\ work' = [work EXCEPT ![w] = r]
      /\ UNCHANGED <<asked, prov, sub, newest, events, cancel, lost, crossed>>
  BY DEF Fetch
<1>2. r \in HandTypes /\ r.of = work[w].of /\ r.seen = prov[work[w].of] /\ r.late = work[w].late
  <2>1. work[w] \in HandTypes /\ prov[work[w].of] \in {"none", "pending", "authorized", "cancelled"}
    BY <1>1, SubTypes DEF Statuses
  <2> DEFINE s == prov[work[w].of]
  <2>2. /\ s \in {"none", "pending", "authorized", "cancelled", "no row", "row"}
        /\ r = [work[w] EXCEPT !.seen = s]
    BY <2>1
  <2> HIDE DEF s, r
  <2> QED
    BY <2>1, <2>2, HandReads DEF s
<1> HIDE DEF r
<1>3. /\ work'[w] = r /\ \A v \in Workers \ {w} : work'[v] = work[v]
      /\ work' \in [Workers -> HandTypes]
  BY <1>1, <1>2, SubTypes
<1>4. SubTyped'
  <2>1. \A v \in Workers : work'[v].of \in Checkouts => work'[v].seen \in Statuses \cup {"unread"}
    BY <1>1, <1>2, <1>3, SubTypes DEF SubInv, SubTyped
  <2> QED
    BY <2>1, <1>1, <1>3 DEF SubInv, SubTyped
<1>5. OpenedFirst'
  BY <1>1, <1>2, <1>3 DEF SubInv, OpenedFirst, Unheard, EventWaits
<1>6. StaleIsTold'
  BY <1>1, <1>2, <1>3 DEF SubInv, StaleIsTold, Told, EventWaits, Carries
<1> QED
  BY <1>4, <1>5, <1>6 DEF SubInv

\* A run that writes what was so before has been marked, or somebody else is on the way
\* with what is so now.
LEMMA UpsertKeeps == ASSUME SubInv, NEW w \in Workers, Upsert(w) PROVE SubInv'
<1> DEFINE c == work[w].of
           late == work[w].late
           seen == work[w].seen
<1>1. /\ c \in Checkouts /\ seen # "unread"
      /\ sub' = [sub EXCEPT ![c] = seen] /\ newest' = [newest EXCEPT ![Owner[c]] = c]
      /\ crossed' = IF late THEN crossed \cup {c} ELSE crossed
      /\ work' = [v \in Workers |-> IF v = w THEN Nothing ELSE Overtake(work[v], c)]
      /\ cancel' = [u \in Buyers |-> Overtake(cancel[u], c)]
      /\ UNCHANGED <<asked, prov, events, lost>>
  BY DEF Upsert, Writes
<1>2. seen \in Statuses /\ Carries(work[w], c)
  BY <1>1 DEF SubInv, SubTyped, Carries
<1> HIDE DEF c, late, seen
<1>3. /\ work'[w] = Nothing
      /\ \A v \in Workers \ {w} :
           /\ work'[v].of = work[v].of /\ work'[v].seen = work[v].seen
           /\ Carries(work[v], c) => work'[v].late
           /\ ~Carries(work[v], c) => work'[v] = work[v]
      /\ work' \in [Workers -> HandTypes]
  BY <1>1, SubTypes, HandIdle, HandOvertaken
<1>4. /\ \A u \in Buyers : /\ cancel'[u].of = cancel[u].of /\ cancel'[u].seen = cancel[u].seen
                           /\ cancel[u] = Nothing => cancel'[u] = Nothing
      /\ cancel' \in [Buyers -> HandTypes]
  <2>1. \A u \in Buyers : cancel'[u] = Overtake(cancel[u], c) /\ cancel[u] \in HandTypes
    BY <1>1, SubTypes
  <2>2. cancel' \in [Buyers -> HandTypes]
    BY <1>1, <2>1, HandOvertaken
  <2>3. ~Carries(Nothing, c)
    BY HandIdle DEF Carries
  <2> QED
    BY <2>1, <2>2, <2>3, HandOvertaken
<1>5. asked[c] = "open"
  BY <1>1 DEF SubInv, OpenedFirst, Unheard, EventWaits, c
<1>6. SubTyped'
  <2>1. \A u \in Buyers : cancel'[u] # Nothing => cancel[u] # Nothing
    BY <1>4
  <2>2. /\ sub' \in [Checkouts -> Statuses] /\ newest' \in [Buyers -> Checkouts \cup {"nothing"}]
    BY <1>1, <1>2, SubTypes
  <2>3. \A v \in Workers : work'[v].of \in Checkouts => work'[v].seen \in Statuses \cup {"unread"}
    BY <1>3, HandIdle, Apart DEF SubInv, SubTyped
  <2> QED
    BY <2>1, <2>2, <2>3, <1>1, <1>3, <1>4 DEF SubInv, SubTyped
<1>7. OpenedFirst'
  <2> SUFFICES ASSUME NEW d \in Checkouts, asked[d] # "open" PROVE Unheard(d)'
    BY <1>1 DEF OpenedFirst
  <2>1. Unheard(d) /\ d # c
    BY <1>5 DEF SubInv, OpenedFirst
  <2>2. \A u \in Buyers : newest'[u] # d
    BY <2>1, <1>1, SubTypes DEF Unheard, EventWaits
  <2> QED
    BY <2>1, <2>2, <1>1, <1>3, <1>4, HandIdle, Apart, SubTypes DEF Unheard, EventWaits
<1>8. StaleIsTold'
  <2> SUFFICES ASSUME NEW d \in Checkouts
               PROVE  /\ (sub[d] # prov[d] => Told(d))'
                      /\ \A v \in Workers : (Carries(work[v], d) /\ ~work[v].late /\ work[v].seen # prov[d] => Told(d))'
    BY DEF StaleIsTold
  <2>1. CASE d # c
    <3>1. /\ sub'[d] = sub[d] /\ \A v \in Workers \ {w} : Carries(work[v], d) => work'[v] = work[v]
      BY <2>1, <1>1, <1>3, SubTypes DEF Carries
    <3>2. Told(d) => Told(d)'
      BY <2>1, <1>1, <1>3, <1>4 DEF Told, EventWaits, Carries, c
    <3> QED
      BY <3>1, <3>2, <1>1, <1>3, HandIdle DEF SubInv, StaleIsTold, Carries
  <2>2. CASE d = c
    <3>1. \A v \in Workers : Carries(work[v], d)' => work'[v].late
      BY <2>2, <1>3, HandIdle DEF Carries
    <3>2. sub'[d] = seen
      BY <2>2, <1>1, SubTypes
    <3>3. CASE seen # prov[d]
      <4>1. late => Told(d)'
        BY <1>1, <2>2 DEF Told, EventWaits
      <4>2. ~late => Told(d)
        BY <3>3, <1>2, <2>2, <1>1 DEF SubInv, StaleIsTold, c, late, seen
      <4>3. Told(d) => Told(d)'
        BY <3>3, <1>1, <1>2, <1>3, <1>4 DEF Told, EventWaits, Carries, seen
      <4> QED
        BY <4>1, <4>2, <4>3, <3>1
    <3> QED
      BY <3>1, <3>2, <3>3, <1>1
  <2> QED
    BY <2>1, <2>2
<1> QED
  BY <1>6, <1>7, <1>8 DEF SubInv

\* What a run does with a charge concerns no preapproval.
LEMMA OthersHand ==
  ASSUME SubInv, NEW w \in Workers, work[w].of \notin Checkouts, work'[w].of \notin Checkouts,
         \A v \in Workers \ {w} : work'[v] = work[v], work' \in [Workers -> HandTypes],
         UNCHANGED <<asked, prov, sub, newest, events, cancel, lost, crossed>>
  PROVE  SubInv'
<1>1. SubTyped'
  <2>1. \A v \in Workers : work'[v].of \in Checkouts => work'[v].seen \in Statuses \cup {"unread"}
    BY DEF SubInv, SubTyped
  <2> QED
    BY <2>1 DEF SubInv, SubTyped
<1>2. OpenedFirst'
  BY DEF SubInv, OpenedFirst, Unheard, EventWaits
<1>3. StaleIsTold'
  <2> SUFFICES ASSUME NEW c \in Checkouts
               PROVE  /\ (sub[c] # prov[c] => Told(c))'
                      /\ \A v \in Workers : (Carries(work[v], c) /\ ~work[v].late /\ work[v].seen # prov[c] => Told(c))'
    BY DEF StaleIsTold
  <2>1. Told(c) => Told(c)'
    BY DEF Told, EventWaits, Carries
  <2> QED
    BY <2>1 DEF SubInv, StaleIsTold, Carries
<1> QED
  BY <1>1, <1>2, <1>3 DEF SubInv

\* The row of a preapproval is read for one of its charges.
LEMMA ReadsKeeps == ASSUME SubInv, NEW w \in Workers, ReadsSubscription(w) PROVE SubInv'
<1> DEFINE v == IF sub[Of[work[w].of]] = "none" THEN "no row" ELSE "row"
           r == [work[w] EXCEPT !.seen = v]
<1>1. /\ work[w].of \in Charges /\ work' = [work EXCEPT ![w] = r]
      /\ UNCHANGED <<asked, prov, sub, newest, events, cancel, lost, crossed>>
  BY DEF ReadsSubscription
<1>2. r \in HandTypes /\ r.of = work[w].of
  <2>1. work[w] \in HandTypes /\ v \in {"none", "pending", "authorized", "cancelled", "no row", "row"}
    BY SubTypes
  <2> HIDE DEF v
  <2> QED
    BY <2>1, HandReads
<1> HIDE DEF r
<1>3. /\ work'[w] = r /\ \A x \in Workers \ {w} : work'[x] = work[x]
      /\ work' \in [Workers -> HandTypes]
  BY <1>1, <1>2, SubTypes
<1>4. work[w].of \notin Checkouts /\ work'[w].of \notin Checkouts
  BY <1>1, <1>2, <1>3, Apart
<1> QED
  BY <1>1, <1>3, <1>4, OthersHand

\* A charge is written among the payments.
LEMMA SettleKeeps == ASSUME SubInv, NEW w \in Workers, Settle(w) PROVE SubInv'
<1>1. /\ work[w].of \in Charges /\ work' = [work EXCEPT ![w] = Nothing]
      /\ UNCHANGED <<asked, prov, sub, newest, events, cancel, lost, crossed>>
  BY DEF Settle
<1>2. /\ work'[w] = Nothing /\ \A x \in Workers \ {w} : work'[x] = work[x]
      /\ work' \in [Workers -> HandTypes]
  BY <1>1, HandIdle, SubTypes
<1>3. work[w].of \notin Checkouts /\ work'[w].of \notin Checkouts
  BY <1>1, <1>2, HandIdle, Apart
<1> QED
  BY <1>1, <1>2, <1>3, OthersHand

\* A cancel that carries no answer leaves nothing behind.
LEMMA LetsGo ==
  ASSUME SubInv, NEW u \in Buyers, cancel[u].seen = "unread", cancel'[u] = Nothing,
         \A v \in Buyers \ {u} : cancel'[v] = cancel[v], cancel' \in [Buyers -> HandTypes],
         UNCHANGED <<asked, prov, sub, newest, events, work, lost, crossed>>
  PROVE  SubInv'
<1>1. SubTyped'
  BY DEF SubInv, SubTyped
<1>2. OpenedFirst'
  BY HandIdle, Apart DEF SubInv, OpenedFirst, Unheard, EventWaits
<1>3. \A d \in Checkouts : Told(d) => Told(d)'
  BY DEF Told, EventWaits, Carries
<1> QED
  BY <1>1, <1>2, <1>3 DEF SubInv, StaleIsTold

\* A cancel names a preapproval that has been opened.
LEMMA AskCancelKeeps == ASSUME SubInv, NEW u \in Buyers, AskCancel(u) PROVE SubInv'
<1>1. PICK c \in Current(u) : cancel' = [cancel EXCEPT ![u] = [Nothing EXCEPT !.of = c]]
  BY DEF AskCancel
<1> DEFINE r == [Nothing EXCEPT !.of = c]
<1>2. /\ cancel[u] = Nothing /\ cancel' = [cancel EXCEPT ![u] = r]
      /\ UNCHANGED <<asked, prov, sub, newest, events, work, lost, crossed>>
  BY <1>1 DEF AskCancel
<1>3. c \in Checkouts /\ asked[c] = "open"
  BY SubTypes DEF Current, MineOf, SubInv, OpenedFirst, Unheard, EventWaits
<1>4. r \in HandTypes /\ r.of = c /\ r.seen = "unread"
  BY <1>3, HandAsked
<1> HIDE DEF r
<1>5. /\ cancel'[u] = r /\ \A v \in Buyers \ {u} : cancel'[v] = cancel[v]
      /\ cancel' \in [Buyers -> HandTypes]
  BY <1>2, <1>4, SubTypes
<1>6. SubTyped'
  BY <1>2, <1>3, <1>4, <1>5 DEF SubInv, SubTyped
<1>7. OpenedFirst'
  BY <1>2, <1>3, <1>4, <1>5 DEF SubInv, OpenedFirst, Unheard, EventWaits
<1>8. StaleIsTold'
  <2>1. \A d \in Checkouts : Told(d) => Told(d)'
    BY <1>2, <1>5, HandIdle DEF Told, EventWaits, Carries
  <2> QED
    BY <2>1, <1>2 DEF SubInv, StaleIsTold
<1> QED
  BY <1>6, <1>7, <1>8 DEF SubInv

\* Mercado Pago cancels, and the route has the answer to store.
LEMMA CancelThereKeeps == ASSUME SubInv, NEW u \in Buyers, CancelThere(u) PROVE SubInv'
<1>0. PICK c \in Checkouts : c = cancel[u].of
  BY DEF CancelThere, SubInv, SubTyped
<1> DEFINE r == [cancel[u] EXCEPT !.seen = "cancelled"]
<1>1. /\ cancel[u] # Nothing /\ cancel[u].seen = "unread"
      /\ UNCHANGED <<asked, sub, newest, work, lost, crossed>>
  BY DEF CancelThere
<1>2. asked[c] = "open"
  BY <1>0 DEF SubInv, OpenedFirst, Unheard
<1>3. CASE prov[c] = "cancelled"
  <2>1. /\ cancel' = [cancel EXCEPT ![u] = Nothing] /\ UNCHANGED <<prov, events>>
    BY <1>0, <1>3 DEF CancelThere
  <2>2. /\ cancel'[u] = Nothing /\ \A v \in Buyers \ {u} : cancel'[v] = cancel[v]
        /\ cancel' \in [Buyers -> HandTypes]
    BY <2>1, HandIdle, SubTypes
  <2> QED
    BY <1>1, <2>1, <2>2, LetsGo
<1>4. CASE prov[c] # "cancelled"
  <2>1. /\ prov' = [prov EXCEPT ![c] = "cancelled"] /\ cancel' = [cancel EXCEPT ![u] = r]
        /\ Waits(c, 0) \/ events' = events
    BY <1>0, <1>4 DEF CancelThere
  <2>2. r \in HandTypes /\ r.of = c /\ r.seen = "cancelled"
    BY <1>0, HandReads, SubTypes
  <2> HIDE DEF r
  <2>3. /\ cancel'[u] = r /\ \A v \in Buyers \ {u} : cancel'[v] = cancel[v]
        /\ cancel' \in [Buyers -> HandTypes]
    BY <2>1, <2>2, SubTypes
  <2>4. /\ \A d \in Checkouts : prov'[d] = IF d = c THEN "cancelled" ELSE prov[d]
        /\ prov' \in [Checkouts -> Statuses]
    BY <2>1, SubTypes DEF Statuses
  <2>5. /\ \A x \in Checkouts \cup Charges :
             (EventWaits(x) => EventWaits(x)') /\ (x # c => (EventWaits(x)' <=> EventWaits(x)))
        /\ events' \in EventTypes
    <3>1. CASE events' = events
      BY <3>1, SubTypes DEF EventWaits
    <3>2. CASE Waits(c, 0)
      BY <3>2, FirstRung, WaitsMore
    <3> QED
      BY <2>1, <3>1, <3>2
  <2>6. SubTyped'
    BY <1>1, <2>2, <2>3, <2>4, <2>5 DEF SubInv, SubTyped
  <2>7. OpenedFirst'
    BY <1>1, <1>2, <2>2, <2>3, <2>4, <2>5 DEF SubInv, OpenedFirst, Unheard
  <2>8. Told(c)'
    <3>1. Carries(cancel'[u], c)
      BY <2>2, <2>3 DEF Carries
    <3> QED
      BY <3>1 DEF Told, Carries
  <2>9. \A d \in Checkouts : d # c /\ Told(d) => Told(d)'
    BY <1>0, <1>1, <2>3, <2>4, <2>5 DEF Told, Carries
  <2> QED
    <3>1. StaleIsTold'
      BY <2>8, <2>9, <1>1, <2>4 DEF SubInv, StaleIsTold, Carries
    <3> QED
      BY <2>6, <2>7, <3>1 DEF SubInv
<1> QED
  BY <1>3, <1>4

\* An answer that is not stored is lost.
LEMMA CancelFailsKeeps == ASSUME SubInv, NEW u \in Buyers, CancelFails(u) PROVE SubInv'
<1>1. /\ cancel[u] # Nothing /\ cancel' = [cancel EXCEPT ![u] = Nothing]
      /\ lost' = IF cancel[u].seen = "cancelled" THEN lost \cup {cancel[u].of} ELSE lost
      /\ UNCHANGED <<asked, prov, sub, newest, events, work, crossed>>
  BY DEF CancelFails
<1>2. /\ cancel'[u] = Nothing /\ \A v \in Buyers \ {u} : cancel'[v] = cancel[v]
      /\ cancel' \in [Buyers -> HandTypes]
  BY <1>1, HandIdle, SubTypes
<1>3. SubTyped'
  BY <1>1, <1>2 DEF SubInv, SubTyped
<1>4. OpenedFirst'
  BY <1>1, <1>2, HandIdle, Apart DEF SubInv, OpenedFirst, Unheard, EventWaits
<1>5. \A d \in Checkouts : Told(d) => Told(d)'
  <2> SUFFICES ASSUME NEW d \in Checkouts, Told(d) PROVE Told(d)'
    OBVIOUS
  <2>1. CASE Carries(cancel[u], d)
    <3>1. cancel[u].seen = "cancelled"
      BY <1>1, <2>1 DEF SubInv, SubTyped, Carries
    <3> QED
      BY <2>1, <3>1, <1>1 DEF Told, EventWaits, Carries
  <2>2. CASE ~Carries(cancel[u], d)
    BY <2>2, <1>1, <1>2 DEF Told, EventWaits
  <2> QED
    BY <2>1, <2>2
<1> QED
  BY <1>1, <1>3, <1>4, <1>5 DEF SubInv, StaleIsTold

\* The answer is stored: it is the last status there will be.
LEMMA CancelStoredKeeps == ASSUME SubInv, NEW u \in Buyers, CancelStored(u) PROVE SubInv'
<1> DEFINE c == cancel[u].of
<1>1. /\ cancel[u].seen = "cancelled"
      /\ sub' = [sub EXCEPT ![c] = "cancelled"] /\ newest' = [newest EXCEPT ![Owner[c]] = c]
      /\ crossed \subseteq crossed'
      /\ work' = [v \in Workers |-> Overtake(work[v], c)]
      /\ cancel' = [cancel EXCEPT ![u] = Nothing]
      /\ UNCHANGED <<asked, prov, events, lost>>
  BY DEF CancelStored, Writes
<1>2. c \in Checkouts /\ prov[c] = "cancelled" /\ asked[c] = "open"
  BY <1>1, HandIdle DEF SubInv, SubTyped, OpenedFirst, Unheard, EventWaits
<1>3. /\ \A v \in Workers :
           /\ work'[v].of = work[v].of /\ work'[v].seen = work[v].seen
           /\ Carries(work[v], c) => work'[v].late
           /\ ~Carries(work[v], c) => work'[v] = work[v]
      /\ work' \in [Workers -> HandTypes]
  BY <1>1, SubTypes, HandOvertaken
<1>4. /\ cancel'[u] = Nothing /\ \A v \in Buyers \ {u} : cancel'[v] = cancel[v]
      /\ cancel' \in [Buyers -> HandTypes]
  BY <1>1, HandIdle, SubTypes
<1> HIDE DEF c
<1>5. SubTyped'
  <2>1. /\ sub' \in [Checkouts -> Statuses] /\ newest' \in [Buyers -> Checkouts \cup {"nothing"}]
    BY <1>1, <1>2, SubTypes DEF Statuses
  <2>2. \A v \in Workers : work'[v].of \in Checkouts => work'[v].seen \in Statuses \cup {"unread"}
    BY <1>3 DEF SubInv, SubTyped
  <2> QED
    BY <2>1, <2>2, <1>1, <1>3, <1>4 DEF SubInv, SubTyped
<1>6. OpenedFirst'
  <2> SUFFICES ASSUME NEW d \in Checkouts, asked[d] # "open" PROVE Unheard(d)'
    BY <1>1 DEF OpenedFirst
  <2>1. Unheard(d) /\ d # c
    BY <1>2 DEF SubInv, OpenedFirst
  <2>2. \A b \in Buyers : newest'[b] # d
    BY <2>1, <1>1, SubTypes DEF Unheard, EventWaits
  <2> QED
    BY <2>1, <2>2, <1>1, <1>3, <1>4, HandIdle, Apart, SubTypes DEF Unheard, EventWaits
<1>7. StaleIsTold'
  <2> SUFFICES ASSUME NEW d \in Checkouts
               PROVE  /\ (sub[d] # prov[d] => Told(d))'
                      /\ \A v \in Workers : (Carries(work[v], d) /\ ~work[v].late /\ work[v].seen # prov[d] => Told(d))'
    BY DEF StaleIsTold
  <2>1. CASE d # c
    <3>1. Told(d) => Told(d)'
      BY <2>1, <1>1, <1>3, <1>4 DEF Told, EventWaits, Carries, c
    <3>2. sub'[d] = sub[d] /\ \A v \in Workers : Carries(work[v], d) => work'[v] = work[v]
      BY <2>1, <1>1, <1>3, SubTypes DEF Carries
    <3> QED
      BY <3>1, <3>2, <1>1, <1>3 DEF SubInv, StaleIsTold, Carries
  <2>2. CASE d = c
    <3>1. sub'[d] = prov'[d]
      BY <2>2, <1>1, <1>2, SubTypes
    <3>2. \A v \in Workers : Carries(work[v], d)' => work'[v].late
      BY <2>2, <1>3 DEF Carries
    <3> QED
      BY <3>1, <3>2
  <2> QED
    BY <2>1, <2>2
<1> QED
  BY <1>5, <1>6, <1>7 DEF SubInv

\* A change that is announced waits as an event, or is lost.
LEMMA Announced ==
  ASSUME SubInv, NEW x \in Checkouts \cup Charges, Announce(x)
  PROVE  /\ events' \in EventTypes /\ lost \subseteq lost'
         /\ EventWaits(x)' \/ x \in lost'
         /\ \A y \in Checkouts \cup Charges :
              (EventWaits(y) => EventWaits(y)') /\ (y # x => (EventWaits(y)' <=> EventWaits(y)))
<1>1. CASE Waits(x, 0) /\ UNCHANGED lost
  BY <1>1, FirstRung, WaitsMore
<1>2. CASE lost' = lost \cup {x} /\ UNCHANGED events
  BY <1>2, SubTypes DEF EventWaits
<1> QED
  BY <1>1, <1>2 DEF Announce

\* The status of a preapproval changes at Mercado Pago, and it says so or that is lost.
LEMMA AnnouncedKeeps ==
  ASSUME SubInv, NEW c \in Checkouts, Announce(c), asked'[c] = "open",
         \A d \in Checkouts \ {c} : asked'[d] = asked[d] /\ prov'[d] = prov[d],
         asked' \in [Checkouts -> {"new", "refused", "checked", "ordered", "open", "failed"}],
         prov' \in [Checkouts -> Statuses], prov[c] = "cancelled" => prov'[c] = "cancelled",
         UNCHANGED <<sub, newest, work, cancel, crossed>>
  PROVE  SubInv'
<1>1. /\ events' \in EventTypes /\ lost \subseteq lost'
      /\ EventWaits(c)' \/ c \in lost'
      /\ \A x \in Checkouts \cup Charges :
           (EventWaits(x) => EventWaits(x)') /\ (x # c => (EventWaits(x)' <=> EventWaits(x)))
  BY Announced
<1>2. SubTyped'
  BY <1>1 DEF SubInv, SubTyped
<1>3. OpenedFirst'
  BY <1>1 DEF SubInv, OpenedFirst, Unheard
<1>4. Told(c)'
  BY <1>1 DEF Told
<1>5. \A d \in Checkouts \ {c} : Told(d) => Told(d)'
  BY <1>1 DEF Told
<1> QED
  BY <1>2, <1>3, <1>4, <1>5 DEF SubInv, StaleIsTold

\* A charge is announced; that of a preapproval is another event.
LEMMA ChargeKeeps == ASSUME SubInv, NEW x \in Charges, Charge(x) PROVE SubInv'
<1>1. UNCHANGED <<asked, prov, sub, newest, work, cancel, crossed>>
  BY DEF Charge
<1>2. /\ events' \in EventTypes /\ lost \subseteq lost'
      /\ \A c \in Checkouts : EventWaits(c)' <=> EventWaits(c)
  BY Announced, Apart DEF Charge
<1>3. SubTyped'
  BY <1>1, <1>2 DEF SubInv, SubTyped
<1>4. OpenedFirst'
  BY <1>1, <1>2 DEF SubInv, OpenedFirst, Unheard
<1>5. \A d \in Checkouts : Told(d) => Told(d)'
  BY <1>1, <1>2 DEF Told
<1> QED
  BY <1>1, <1>3, <1>4, <1>5 DEF SubInv, StaleIsTold

\* What happens before a preapproval is open is nothing to the table.
LEMMA BeforeKeeps ==
  ASSUME SubInv, NEW c \in Checkouts, asked[c] # "open",
         \A d \in Checkouts \ {c} : asked'[d] = asked[d],
         asked' \in [Checkouts -> {"new", "refused", "checked", "ordered", "open", "failed"}],
         UNCHANGED <<prov, sub, newest, events, work, cancel, lost, crossed>>
  PROVE  SubInv'
<1>1. SubTyped'
  BY DEF SubInv, SubTyped
<1>2. OpenedFirst'
  BY DEF SubInv, OpenedFirst, Unheard, EventWaits
<1>3. \A d \in Checkouts : Told(d) => Told(d)'
  BY DEF Told, EventWaits
<1> QED
  BY <1>1, <1>2, <1>3 DEF SubInv, StaleIsTold

\* The checkout, and what the buyer does at Mercado Pago.
LEMMA CheckoutKeeps ==
  ASSUME SubInv, NEW c \in Checkouts,
         Ask(c) \/ Order(c) \/ Preapprove(c) \/ PreapproveFails(c) \/ Accepts(c) \/ EndsThere(c)
  PROVE  SubInv'
<1> DEFINE Askings == [Checkouts -> {"new", "refused", "checked", "ordered", "open", "failed"}]
<1>1. asked \in Askings
  BY DEF SubInv, SubTyped
<1>2. CASE Ask(c) \/ Order(c) \/ PreapproveFails(c)
  <2>1. /\ asked[c] # "open" /\ asked' \in Askings /\ \A d \in Checkouts \ {c} : asked'[d] = asked[d]
        /\ UNCHANGED <<prov, sub, newest, events, work, cancel, lost, crossed>>
    BY <1>1, <1>2 DEF Ask, Order, PreapproveFails
  <2> QED
    BY <2>1, BeforeKeeps
<1>3. CASE Preapprove(c)
  <2>1. /\ asked' \in Askings /\ asked'[c] = "open" /\ prov[c] # "cancelled"
        /\ prov' \in [Checkouts -> Statuses]
        /\ \A d \in Checkouts \ {c} : asked'[d] = asked[d] /\ prov'[d] = prov[d]
        /\ Announce(c) /\ UNCHANGED <<sub, newest, work, cancel, crossed>>
    BY <1>1, <1>3, SubTypes DEF Preapprove, SubInv, OpenedFirst, Unheard, Statuses
  <2> QED
    BY <2>1, AnnouncedKeeps
<1>4. CASE Accepts(c) \/ EndsThere(c)
  <2>1. /\ asked' \in Askings /\ asked'[c] = "open" /\ prov[c] # "cancelled"
        /\ prov' \in [Checkouts -> Statuses]
        /\ \A d \in Checkouts \ {c} : asked'[d] = asked[d] /\ prov'[d] = prov[d]
        /\ Announce(c) /\ UNCHANGED <<sub, newest, work, cancel, crossed>>
    BY <1>1, <1>4, SubTypes DEF Accepts, EndsThere, SubInv, OpenedFirst, Unheard, Statuses
  <2> QED
    BY <2>1, AnnouncedKeeps
<1> QED
  BY <1>2, <1>3, <1>4

\* Every step keeps the invariant, one lemma for each that changes something.
LEMMA SubscriptionsKept ==
  ASSUME SubInv, [SubscriptionsNext]_subVars
  PROVE  SubInv'
<1>1. ASSUME UNCHANGED subVars PROVE SubInv'
  <2>1. SubTyped'
    BY <1>1 DEF subVars, SubInv, SubTyped
  <2>2. OpenedFirst'
    BY <1>1 DEF subVars, SubInv, OpenedFirst, Unheard, EventWaits
  <2>3. StaleIsTold'
    BY <1>1 DEF subVars, SubInv, StaleIsTold, Told, EventWaits, Carries
  <2> QED
    BY <2>1, <2>2, <2>3 DEF SubInv
<1>2. ASSUME SubscriptionsNext PROVE SubInv'
  BY <1>2, CheckoutKeeps, ChargeKeeps, TakeKeeps, RetryKeeps, RunDiesKeeps, FetchKeeps, UpsertKeeps, ReadsKeeps,
     SettleKeeps, AskCancelKeeps, CancelThereKeeps, CancelFailsKeeps, CancelStoredKeeps
     DEF SubscriptionsNext
<1> QED
  BY <1>1, <1>2

\* Once nothing of a preapproval is under way the table has its status, unless a change
\* of it was lost, its event died at the last attempt or two calls that had read it wrote it
\* in the other order: for any number of checkouts, charges, runs of processOne, attempts,
\* waiting events and failures.
THEOREM RowsAlwaysSettle == SubscriptionsSpec => []RowsSettle
<1>1. SubInv => RowsSettle
  BY DEF SubInv, StaleIsTold, Told, Carries, RowsSettle, AtWork
<1> QED
  BY SubscriptionsStart, SubscriptionsKept, <1>1, PTL DEF SubscriptionsSpec

-----------------------------------------------------------------------------
(* What it reports to Meta.                                                  *)

OutboxTyped ==
  /\ meta \in [Sales -> [state: {"none", "pending", "processing", "sent", "dead"},
                         attempts: Nat, due: BOOLEAN]]
  /\ hand \in [Ticks -> [of: Sales \cup {"nothing"}, attempts: Nat, at: {"idle", "send", "sent", "failed"}]]
  /\ \A t \in Ticks : IF hand[t].at = "idle" THEN hand[t] = Empty ELSE hand[t].of \in Sales

\* A sale whose acceptance may be forgotten is one of the doubled: nobody has it in hand
\* beside another, and nobody is about to send it, or to call it failed, once Meta has it.
HeldOnce ==
  \A s \in Sales \ doubled :
    /\ \A t, v \in Ticks : 
         hand[t].of = s /\ hand[v].of = s /\ hand[t].at # "idle" /\ hand[v].at # "idle" => t = v
    /\ \A t \in Ticks : hand[t].of = s /\ hand[t].at \in {"send", "failed"} => s \notin accepted
\* Who is about to write "sent" has the answer of Meta.
SentByMeta == \A t \in Ticks : hand[t].at = "sent" => hand[t].of \in accepted
\* What Meta has is on the table as sent or about to be.
Remembered ==
  \A s \in accepted \cap Sales :
    \/ meta[s].state = "sent" \/ s \in doubled
    \/ \E t \in Ticks : hand[t].of = s /\ hand[t].at = "sent"
OnlyTaken == \A s \in Sales : meta[s].state = "sent" => s \in accepted

OutboxInv == OutboxTyped /\ HeldOnce /\ SentByMeta /\ Remembered /\ OnlyTaken

\* Nothing has been sold at first.
LEMMA OutboxStarts == OutboxInit => OutboxInv
BY DEF OutboxInit, OutboxInv, OutboxTyped, HeldOnce, SentByMeta, Remembered, OnlyTaken, NoRow, Empty

\* Every step of the webhook and of a delivery keeps the invariant.
LEMMA OutboxKept ==
  ASSUME OutboxInv, [OutboxNext]_outboxVars
  PROVE  OutboxInv'
<1> USE OutboxAssumption DEF OutboxInv
<1>1. ASSUME UNCHANGED outboxVars PROVE OutboxInv'
  BY <1>1 DEF outboxVars, OutboxTyped, HeldOnce, SentByMeta, Remembered, OnlyTaken
<1> DEFINE Table == UNCHANGED <<meta, hand, accepted, doubled>>
<1>2. ASSUME Table PROVE OutboxInv'
  BY <1>2 DEF OutboxTyped, HeldOnce, SentByMeta, Remembered, OnlyTaken
<1>3. ASSUME NEW s \in Sales, NEW c, SaveContext(s, c) PROVE OutboxInv'
  BY <1>2, <1>3 DEF SaveContext
<1>4. ASSUME NEW s \in Sales, Reads(s) PROVE OutboxInv'
  BY <1>2, <1>4 DEF Reads
<1>5. ASSUME NEW s \in Sales, Queues(s) PROVE OutboxInv'
  BY <1>5 DEF Queues, NoRow, OutboxTyped, HeldOnce, SentByMeta, Remembered, OnlyTaken
<1>6. ASSUME NEW s \in Sales, Due(s) PROVE OutboxInv'
  <2>1. /\ UNCHANGED <<hand, accepted, doubled>>
        /\ meta' = [meta EXCEPT ![s].due = TRUE]
    BY <1>6 DEF Due
  <2>2. OutboxTyped'
    BY <2>1 DEF OutboxTyped
  <2>3. \A r \in Sales : meta'[r].state = meta[r].state
    BY <2>1 DEF OutboxTyped
  <2> QED
    BY <2>1, <2>2, <2>3 DEF HeldOnce, SentByMeta, Remembered, OnlyTaken
<1>7. ASSUME NEW s \in Sales, NEW t \in Ticks, TakeSale(t, s) PROVE OutboxInv'
  BY <1>7 DEF TakeSale, Takes, Held, Empty, OutboxTyped, HeldOnce, SentByMeta, Remembered, OnlyTaken
<1>8. ASSUME NEW t \in Ticks, Sends(t) PROVE OutboxInv'
  BY <1>8 DEF Sends, To, Empty, OutboxTyped, HeldOnce, SentByMeta, Remembered, OnlyTaken
<1>9. ASSUME NEW t \in Ticks, SendFails(t) PROVE OutboxInv'
  BY <1>9 DEF SendFails, To, Empty, OutboxTyped, HeldOnce, SentByMeta, Remembered, OnlyTaken
<1>10. ASSUME NEW t \in Ticks, AnswerLost(t) PROVE OutboxInv'
  BY <1>10 DEF AnswerLost, To, Empty, OutboxTyped, HeldOnce, SentByMeta, Remembered, OnlyTaken
<1>11. ASSUME NEW t \in Ticks, Sent(t) PROVE OutboxInv'
  BY <1>11 DEF Sent, Lets, Empty, OutboxTyped, HeldOnce, SentByMeta, Remembered, OnlyTaken
<1>12. ASSUME NEW t \in Ticks, SentUnwritten(t) PROVE OutboxInv'
  BY <1>12 DEF SentUnwritten, To, Empty, OutboxTyped, HeldOnce, SentByMeta, Remembered, OnlyTaken
<1>13. ASSUME NEW t \in Ticks, Failed(t) PROVE OutboxInv'
  <2> DEFINE of == hand[t].of
  <2>1. /\ UNCHANGED <<accepted, doubled>> /\ of \in Sales /\ hand[t].at = "failed"
        /\ hand' = [hand EXCEPT ![t] = Empty]
    BY <1>13 DEF Failed, Lets, OutboxTyped
  <2>2. /\ meta'[of].state \in {"pending", "dead"} /\ \A r \in Sales \ {of} : meta'[r] = meta[r]
        /\ meta' \in [Sales -> [state: {"none", "pending", "processing", "sent", "dead"},
                               attempts: Nat, due: BOOLEAN]]
    <3>1. PICK new \in {"dead", "pending"} : meta' = [meta EXCEPT ![of] = [meta[of] EXCEPT !.state = new, !.due = FALSE]]
      BY <1>13, <2>1 DEF Failed
    <3>2. meta[of] \in [state: {"none", "pending", "processing", "sent", "dead"}, attempts: Nat, due: BOOLEAN]
      BY <2>1 DEF OutboxTyped
    <3> HIDE DEF of
    <3>3. /\ [meta[of] EXCEPT !.state = new, !.due = FALSE]
               \in [state: {"none", "pending", "processing", "sent", "dead"}, attempts: Nat, due: BOOLEAN]
          /\ [meta[of] EXCEPT !.state = new, !.due = FALSE].state = new
      BY <3>2
    <3> QED
      BY <2>1, <3>1, <3>3 DEF OutboxTyped
  <2>3. of \in accepted => of \in doubled
    BY <2>1 DEF HeldOnce
  <2>4. OutboxTyped' /\ HeldOnce' /\ SentByMeta' /\ OnlyTaken'
    BY <2>1, <2>2 DEF Empty, OutboxTyped, HeldOnce, SentByMeta, OnlyTaken
  <2>5. Remembered'
    BY <2>1, <2>2, <2>3 DEF Empty, OutboxTyped, Remembered
  <2> QED
    BY <2>4, <2>5
<1>14. ASSUME NEW t \in Ticks, Dies(t) PROVE OutboxInv'
  BY <1>14 DEF Dies, Lets, Empty, OutboxTyped, HeldOnce, SentByMeta, Remembered, OnlyTaken
<1> QED
  BY <1>1, <1>3, <1>4, <1>5, <1>6, <1>7, <1>8, <1>9, <1>10, <1>11, <1>12, <1>13, <1>14
     DEF OutboxNext, OutboxStep

\* What is on the table as sent was taken by Meta, and what Meta took is on it as sent once

\* nobody has it in hand, but for overlaps and lost answers: for any number of sales, of
\* deliveries at once, of attempts and of failures.
THEOREM SalesAreTold == OutboxSpec => []AcceptedIsSent
<1>1. OutboxInv => AcceptedIsSent
  BY DEF OutboxInv, OutboxTyped, Remembered, OnlyTaken, AcceptedIsSent, Held
<1> QED
  BY OutboxStarts, OutboxKept, <1>1, PTL DEF OutboxSpec
-----------------------------------------------------------------------------
\* The gateway

GatewayTyped ==
  /\ now \in 0..MaxTime
  /\ \A k \in DOMAIN counters : counters[k] \in Nat
  /\ DOMAIN passed = Forms \X Ips \X Windows
  /\ \A f \in Forms, ip \in Ips, b \in Windows : passed[<<f, ip, b>>] \in Nat

\* What was let through was counted, and what was counted in a window that is not over
\* was not swept.
CountedIsKept ==
  \A f \in Forms, ip \in Ips, b \in Windows :
    /\ passed[<<f, ip, b>>] <= Limit[f]
    /\ b >= Bucket => passed[<<f, ip, b>>] <= Before(<<f, ip, b>>)

GatewayInv ==
  GatewayTyped /\ CountedIsKept
  /\ (answer.shows \in DOMAIN AcceptsSecret => answer.to \in AcceptsSecret[answer.shows])

\* Windows follow one another.
LEMMA WindowsFollow ==
  ASSUME NEW w \in Nat \ {0}, NEW a \in Nat, NEW b \in Nat, a <= b
  PROVE  a \div w \in Nat /\ b \div w \in Nat /\ a \div w <= b \div w
<1>1. a \div w \in Nat /\ b \div w \in Nat
  OBVIOUS
<1>2. /\ a = w * (a \div w) + (a % w) /\ a % w \in 0..(w - 1)
      /\ b = w * (b \div w) + (b % w) /\ b % w \in 0..(w - 1)
  OBVIOUS
<1>3. ASSUME NEW x \in Nat, NEW y \in Nat, x < y
      PROVE  w * x + w <= w * y
  <2>1. PICK d \in Nat : y = x + 1 + d
    <3>1. y - x - 1 \in Nat /\ y = x + 1 + (y - x - 1)
      BY <1>3
    <3> QED
      BY <3>1
  <2>2. w * y = w * x + w + w * d
    BY <2>1
  <2>3. w * d \in Nat /\ w * x \in Nat
    OBVIOUS
  <2> QED
    BY <2>2, <2>3
<1>4. ASSUME b \div w < a \div w PROVE FALSE
  <2>1. w * (b \div w) + w <= w * (a \div w)
    BY <1>1, <1>3, <1>4
  <2>2. w * (a \div w) \in Nat /\ w * (b \div w) \in Nat
    BY <1>1
  <2> QED
    BY <1>2, <2>1, <2>2
<1> QED
  BY <1>1, <1>4

\* The clock is always in one of the windows that passes are told apart by.
LEMMA OfAWindow == ASSUME now \in 0..MaxTime PROVE Bucket \in Windows
BY WindowsFollow, GatewayAssumption DEF Bucket, Windows

\* Of the routes for people, none answers what the internal ones do.
LEMMA NoRouteIsInternal ==
  ASSUME NEW r \in Routes, NEW who, NEW up \in BOOLEAN
  PROVE  RouteAnswer(r, who, up).shows \notin DOMAIN AcceptsSecret
<1>1. DOMAIN AcceptsSecret = {"claim", "tool", "catalogue", "entitlements"}
  BY DEF AcceptsSecret
<1>2. ASSUME NEW n PROVE Says(n).shows \notin DOMAIN AcceptsSecret
  BY <1>1 DEF Says
<1>3. ASSUME NEW x, x \notin DOMAIN AcceptsSecret PROVE Showing(x).shows \notin DOMAIN AcceptsSecret
  BY <1>3 DEF Showing
<1>4. ASSUME NEW a, NEW roles, a.shows \notin DOMAIN AcceptsSecret
      PROVE  /\ ForUser(who, a).shows \notin DOMAIN AcceptsSecret
             /\ ForRole(who, roles, a).shows \notin DOMAIN AcceptsSecret
  BY <1>2, <1>4 DEF ForUser, ForRole
<1>5. ASSUME NEW x, x \notin DOMAIN AcceptsSecret PROVE Relay(up, x).shows \notin DOMAIN AcceptsSecret
  BY <1>2, <1>3, <1>5 DEF Relay
<1>6. Cohort(who).shows \notin DOMAIN AcceptsSecret
  <2>1. ASSUME NEW a, a \in {"everyone", "cohort", "nobody"}
        PROVE  ForRole(who, {"tutor", "admin"}, Showing(a)).shows \notin DOMAIN AcceptsSecret
    <3>1. a \notin DOMAIN AcceptsSecret
      BY <1>1, <2>1
    <3>2. Showing(a).shows \notin DOMAIN AcceptsSecret
      BY <1>3, <3>1
    <3> QED
      BY <1>4, <3>2
  <2> QED
    BY <2>1 DEF Cohort
<1>7. ASSUME NEW x \in {"course", "own turns", "checkout", "own subscription", "payments", "received",
                        "a student", "platform", "providers", "available", "unavailable", "calm", "hits"}
      PROVE  Showing(x).shows \notin DOMAIN AcceptsSecret /\ Relay(up, x).shows \notin DOMAIN AcceptsSecret
  <2>1. x \notin DOMAIN AcceptsSecret
    BY <1>1, <1>7
  <2> QED
    BY <1>3, <1>5, <2>1
<1>8. CASE r = "pdf"
  <2> DEFINE a == IF who.paid THEN Relay(up, "course") ELSE Says(402)
  <2>1. a.shows \notin DOMAIN AcceptsSecret
    <3>1. Relay(up, "course").shows \notin DOMAIN AcceptsSecret
      BY <1>7
    <3>2. Says(402).shows \notin DOMAIN AcceptsSecret
      BY <1>2
    <3>3. a = Relay(up, "course") \/ a = Says(402)
      OBVIOUS
    <3> HIDE DEF a
    <3> QED
      BY <3>1, <3>2, <3>3
  <2>2. RouteAnswer(r, who, up) = ForUser(who, a)
    BY <1>8 DEF RouteAnswer
  <2> HIDE DEF a
  <2> QED
    BY <1>4, <2>1, <2>2
<1>9. CASE r = "cohort"
  BY <1>6, <1>9 DEF RouteAnswer
<1>10. CASE r \in {"timeline", "solved", "chatState", "history", "checkout"}
  BY <1>4, <1>7, <1>10 DEF RouteAnswer
<1>11. CASE r \in {"subscription", "adminPayments", "paymentsState", "webhook", "alerts", "version"}
  <2>1. CASE r = "subscription"
    BY <1>4, <1>7, <2>1 DEF RouteAnswer
  <2>2. CASE r = "adminPayments"
    BY <1>4, <1>7, <2>2 DEF RouteAnswer
  <2>3. CASE r = "paymentsState"
    <3>1. RouteAnswer(r, who, up) = Showing("available") \/ RouteAnswer(r, who, up) = Showing("unavailable")
      BY <2>3 DEF RouteAnswer
    <3> QED
      BY <3>1, <1>7
  <2>4. CASE r \in {"webhook", "version"}
    BY <1>7, <2>4 DEF RouteAnswer
  <2>5. CASE r = "alerts"
    <3>1. RouteAnswer(r, who, up) = Showing("calm") \/ RouteAnswer(r, who, up) = Says(503)
      BY <2>5 DEF RouteAnswer
    <3> QED
      BY <3>1, <1>2, <1>7
  <2> QED
    BY <1>11, <2>1, <2>2, <2>3, <2>4, <2>5
<1> QED
  BY <1>8, <1>9, <1>10, <1>11 DEF Routes

\* Nothing was let through yet, and nothing answered.
LEMMA GatewayStarts == GatewayInit => GatewayInv
<1> SUFFICES ASSUME GatewayInit PROVE GatewayInv
  OBVIOUS
<1>1. /\ now = 0 /\ counters = <<>> /\ answer.shows = "nothing"
      /\ passed = [k \in Forms \X Ips \X Windows |-> 0]
  BY DEF GatewayInit
<1>2. \A f \in Forms, ip \in Ips, b \in Windows : passed[<<f, ip, b>>] = 0
  BY <1>1
<1>3. GatewayTyped
  <2>1. DOMAIN counters = {}
    BY <1>1
  <2>2. DOMAIN passed = Forms \X Ips \X Windows
    BY <1>1
  <2> QED
    BY <1>1, <1>2, <2>1, <2>2, GatewayAssumption DEF GatewayTyped
<1>4. CountedIsKept
  <2>1. DOMAIN counters = {}
    BY <1>1
  <2>2. \A k : Before(k) = 0
    BY <2>1 DEF Before
  <2>3. \A f \in Forms : Limit[f] \in Nat
    BY GatewayAssumption
  <2>4. ASSUME NEW f \in Forms, NEW ip \in Ips, NEW b \in Windows
        PROVE  passed[<<f, ip, b>>] <= Limit[f] /\ passed[<<f, ip, b>>] <= Before(<<f, ip, b>>)
    BY <1>2, <2>2, <2>3
  <2> QED
    BY <2>4 DEF CountedIsKept
<1>5. answer.shows \notin DOMAIN AcceptsSecret
  BY <1>1 DEF AcceptsSecret
<1> QED
  BY <1>3, <1>4, <1>5 DEF GatewayInv

\* A form, throttled or let through, is counted before it is swept (brake.ts, countWindow).
LEMMA FormKeeps ==
  ASSUME GatewayInv, NEW v, NEW f \in Forms, NEW ip \in Ips, Form(v, f, ip)
  PROVE  GatewayInv'
<1> DEFINE k == <<f, ip, Bucket>>
<1>0. GatewayTyped /\ CountedIsKept /\ Bucket \in Windows /\ Bucket \in Nat
  <2>1. GatewayTyped /\ CountedIsKept /\ now \in 0..MaxTime
    BY DEF GatewayInv, GatewayTyped
  <2>2. Bucket \in Windows
    BY <2>1, OfAWindow
  <2> QED
    BY <2>1, <2>2 DEF Windows
<1>1. /\ counters' = Swept(Counted(k)) /\ now' = now
      /\ \/ passed' = passed
         \/ ~(Counted(k)[k] > Limit[f]) /\ passed' = [passed EXCEPT ![<<f, ip, Bucket>>] = @ + 1]
      /\ answer'.shows \in {"nothing", "form"}
  BY DEF Form, Key, Reply, AnswersTo, Says, Showing
<1>2. /\ Before(k) \in Nat /\ Counted(k)[k] = Before(k) + 1 /\ k \in DOMAIN Counted(k)
      /\ \A j \in DOMAIN Counted(k) : Counted(k)[j] \in Nat /\ (j # k => j \in DOMAIN counters /\ Counted(k)[j] = counters[j])
      /\ \A j \in DOMAIN counters : j \in DOMAIN Counted(k)
  BY <1>0 DEF GatewayTyped, Counted, Before
<1>3. ASSUME NEW j, j[3] >= Bucket \/ j = k, j \in DOMAIN Counted(k)
      PROVE  j \in DOMAIN counters' /\ counters'[j] = Counted(k)[j]
  <2>1. j[3] >= Bucket
    BY <1>0, <1>3
  <2> QED
    BY <1>1, <1>3, <2>1 DEF Swept
<1>4. \A j \in DOMAIN counters' : counters'[j] \in Nat
  BY <1>1, <1>2 DEF Swept
<1>5. ASSUME NEW g \in Forms, NEW a \in Ips, NEW b \in Windows
      PROVE  /\ passed'[<<g, a, b>>] \in Nat /\ passed'[<<g, a, b>>] <= Limit[g]
             /\ b >= Bucket => passed'[<<g, a, b>>] <= Before(<<g, a, b>>)'
  <2> DEFINE j == <<g, a, b>>
  <2>1. passed[j] \in Nat /\ passed[j] <= Limit[g] /\ Limit[g] \in Nat
        /\ (b >= Bucket => passed[j] <= Before(j))
    BY <1>0, GatewayAssumption DEF GatewayTyped, CountedIsKept
  <2>2. CASE j = k
    <3>1. g = f /\ a = ip /\ b = Bucket
      BY <2>2
    <3>2. Before(j)' = Before(k) + 1
      BY <1>2, <1>3, <2>2 DEF Before
    <3>3. passed'[j] = passed[j] \/ (passed'[j] = passed[j] + 1 /\ ~(Before(k) + 1 > Limit[f]))
      BY <1>0, <1>1, <1>2, <3>1 DEF GatewayTyped
    <3>4. passed[j] <= Before(k)
      BY <1>0, <2>1, <2>2, <3>1
    <3> QED
      BY <1>2, <2>1, <3>1, <3>2, <3>3, <3>4
  <2>3. CASE j # k
    <3>1. passed'[j] = passed[j]
      BY <1>0, <1>1, <2>3 DEF GatewayTyped
    <3>2. ASSUME b >= Bucket PROVE passed'[j] <= Before(j)'
      <4>1. CASE j \in DOMAIN counters
        <5>1. j \in DOMAIN counters' /\ counters'[j] = counters[j]
          BY <1>2, <1>3, <2>3, <3>2, <4>1
        <5> QED
          BY <5>1, <4>1, <3>1, <3>2, <2>1 DEF Before
      <4>2. CASE j \notin DOMAIN counters
        <5>1. passed'[j] = 0
          BY <4>2, <3>1, <3>2, <2>1 DEF Before
        <5>2. Before(j)' \in Nat
          BY <1>4 DEF Before
        <5> QED
          BY <5>1, <5>2
      <4> QED
        BY <4>1, <4>2
    <3> QED
      BY <2>1, <3>1, <3>2
  <2> QED
    BY <2>2, <2>3
<1>6. DOMAIN passed' = DOMAIN passed
  BY <1>1
<1>7. Bucket' = Bucket
  BY <1>1 DEF Bucket
<1>8. answer'.shows \notin DOMAIN AcceptsSecret
  BY <1>1 DEF AcceptsSecret
<1> QED
  BY <1>0, <1>1, <1>4, <1>5, <1>6, <1>7, <1>8 DEF GatewayInv, GatewayTyped, CountedIsKept

\* Time only closes windows; a pass of one that is over needs no counter any more.
LEMMA TickKeeps == ASSUME GatewayInv, Tick PROVE GatewayInv'
<1>1. now \in 0..MaxTime /\ now' = now + 1 /\ now' \in 0..MaxTime /\ UNCHANGED <<counters, answer, passed>>
  BY GatewayAssumption DEF Tick, GatewayInv, GatewayTyped
<1>2. Bucket \in Nat /\ Bucket' \in Nat /\ Bucket <= Bucket'
  BY <1>1, WindowsFollow, GatewayAssumption DEF Bucket
<1>3. Windows \subseteq Nat
  BY DEF Windows
<1>4. CountedIsKept'
  <2>1. ASSUME NEW f \in Forms, NEW ip \in Ips, NEW b \in Windows
        PROVE  /\ passed'[<<f, ip, b>>] <= Limit[f]
               /\ b >= Bucket' => passed'[<<f, ip, b>>] <= Before(<<f, ip, b>>)'
    <3>1. passed' = passed /\ Before(<<f, ip, b>>)' = Before(<<f, ip, b>>) /\ b \in Nat
      BY <1>1, <1>3 DEF Before
    <3>2. b >= Bucket' => b >= Bucket
      BY <1>2, <3>1
    <3>3. passed[<<f, ip, b>>] <= Limit[f] /\ (b >= Bucket => passed[<<f, ip, b>>] <= Before(<<f, ip, b>>))
      BY DEF GatewayInv, CountedIsKept
    <3> QED
      BY <3>1, <3>2, <3>3
  <2> QED
    BY <2>1 DEF CountedIsKept
<1> QED
  BY <1>1, <1>4 DEF GatewayInv, GatewayTyped

\* The other routes touch no counter, and only an internal one shows what a secret opens.
LEMMA RoutesKeep == ASSUME GatewayInv, Unbraked PROVE GatewayInv'
<1>1. UNCHANGED <<now, counters, passed>>
  BY DEF Unbraked, Route, Preflight, Internal
<1>2. answer'.shows \in DOMAIN AcceptsSecret => answer'.to \in AcceptsSecret[answer'.shows]
  <2>1. ASSUME NEW v, NEW r \in Routes, NEW who, NEW up \in BOOLEAN, Route(v, r, who, up)
        PROVE  answer'.shows \notin DOMAIN AcceptsSecret
    <3>1. answer'.shows = RouteAnswer(r, who, up).shows \/ answer'.shows = "nothing"
      BY <2>1 DEF Route, Reply, AnswersTo, Says
    <3>2. "nothing" \notin DOMAIN AcceptsSecret
      BY DEF AcceptsSecret
    <3> QED
      BY <3>1, <3>2, NoRouteIsInternal
  <2>2. ASSUME NEW v, Preflight(v) PROVE answer'.shows \notin DOMAIN AcceptsSecret
    BY <2>2 DEF Preflight, Reply, AnswersTo, Says, AcceptsSecret
  <2>3. ASSUME NEW v, NEW r \in DOMAIN AcceptsSecret, NEW t \in BOOLEAN, NEW x \in Secrets,
               NEW session \in BOOLEAN, Internal(v, r, t, x, session)
        PROVE  answer'.shows \in DOMAIN AcceptsSecret => answer'.to \in AcceptsSecret[answer'.shows]
    <3>1. "nothing" \notin DOMAIN AcceptsSecret
      BY DEF AcceptsSecret
    <3>2. answer'.shows = "nothing" \/ (~t /\ x \in AcceptsSecret[r] /\ answer'.shows = r /\ answer'.to = x)
      BY <2>3 DEF Internal, AnswersTo, Says, Showing, Edge
    <3> QED
      BY <3>1, <3>2
  <2> QED
    BY <2>1, <2>2, <2>3 DEF Unbraked
<1>3. Bucket' = Bucket
  BY <1>1 DEF Bucket
<1> QED
  BY <1>1, <1>2, <1>3 DEF GatewayInv, GatewayTyped, CountedIsKept, Before

\* Every step of the gateway keeps the invariant.
LEMMA GatewayKept == GatewayInv /\ [GatewayNext]_gatewayVars => GatewayInv'
<1> SUFFICES ASSUME GatewayInv, [GatewayNext]_gatewayVars PROVE GatewayInv'
  OBVIOUS
<1>1. CASE UNCHANGED gatewayVars
  BY <1>1 DEF gatewayVars, GatewayInv, GatewayTyped, CountedIsKept, Before, Bucket
<1> QED
  BY <1>1, FormKeeps, TickKeeps, RoutesKeep DEF GatewayNext, Braked

\* However the forms are posted under each prefix, the clock ticks and counters are swept:
\* a brake lets no more than its limit through in a window, and what an internal route
\* shows goes to who holds the secret of that route (server.ts, brake.ts).
THEOREM EveryPrefixIsAlwaysGuarded == GatewaySpec => []EveryPrefixIsGuarded
<1>1. GatewayInv => EveryPrefixIsGuarded
  BY DEF GatewayInv, CountedIsKept, EveryPrefixIsGuarded
<1> QED
  BY GatewayStarts, GatewayKept, <1>1, PTL DEF GatewaySpec
-----------------------------------------------------------------------------
\* The tools of the agent

\* Numbers that there are have a least one.
LEMMA LeastOne == ASSUME NEW S \in SUBSET Nat, S # {} PROVE Min(S) \in S
<1> DEFINE R == OpToRel(<, Nat)
<1>1. IsWellFoundedOn(R, Nat)
  BY NatLessThanWellFounded
<1> HIDE DEF R
<1>2. PICK m \in S : \A k \in S : <<k, m>> \notin R
  BY <1>1, WFMin
<1>3. ASSUME NEW k \in S PROVE m <= k
  <2>1. ~(k < m)
    BY <1>2 DEF R, OpToRel
  <2> QED
    BY <2>1
<1> QED
  BY <1>3 DEF Min

\* What the memo may hold: answers about no person in particular, whole, and, where the
\* paywall is, of what its key says was open.
ArgSet == AllLessons \cup LabSet \cup {"none"}
Plain == [error: {FALSE}, shows: SUBSET AllLessons, searched: SUBSET AllLessons, labs: {{}}, solved: {{}}]
Entries == {e \in [key: Publico \X ArgSet \X SUBSET AllLessons, out: Plain, turn: {NoTurn}] :
              /\ e.key[1] \in Paywalled => e.out.shows \subseteq e.key[3]
              /\ e.key[1] = "buscar_en_curso" => e.out.searched = e.key[3]}
BusesHold ==
  /\ DOMAIN bus = Students
  /\ \A u \in Students : /\ bus[u] = [queue |-> bus[u].queue, stack |-> bus[u].stack, memo |-> bus[u].memo]
                         /\ bus[u].memo \in Seq(Entries)

IsRun(k) ==
  k = [at |-> k.at, u |-> k.u, tool |-> k.tool, arg |-> k.arg, open |-> k.open, mine |-> k.mine,
       padlocks |-> k.padlocks, item |-> k.item, began |-> k.began, out |-> k.out]
\* What an answer tells the one who asked.
TellsRight(k) ==
  /\ k.tool \in Paywalled => k.out.shows \subseteq k.open
  /\ k.tool = "buscar_en_curso" => k.out.searched = k.open
  /\ k.tool \in {"mi_progreso", "mi_panorama"} => k.began \subseteq k.out.solved
  /\ k.tool \in {"mi_siguiente_paso", "mis_pendientes", "mis_errores", "plan_estudio"} =>
       k.out.labs \cap k.began = {}
Fitting(k) ==
  /\ IsRun(k) /\ k.u \in Students /\ k.tool \in ToolNames /\ k.arg \in ArgSet /\ k.open \subseteq AllLessons
  /\ k.began \subseteq finished[k.u]
  /\ k.at \in {"gate", "me", "fn", "read", "effect", "done"}
  /\ k.at \in {"gate", "me", "fn", "read"} => k.out = NoAnswer
  /\ k.at = "fn" => k.tool \in Uncached \ ReadsMe
  /\ k.at \in {"effect", "done"} /\ ~k.out.error => TellsRight(k)
Idle(k) == IsRun(k) /\ k.at = "idle"
RunsFit ==
  /\ DOMAIN run = Calls
  /\ \A c \in Calls : Idle(run[c]) \/ Fitting(run[c])

ToolsInv == BusesHold /\ RunsFit /\ DOMAIN finished = Students

\* A process that has just started holds no bus and runs nothing.
LEMMA ToolsStart == ToolsInit => ToolsInv
<1> SUFFICES ASSUME ToolsInit PROVE ToolsInv
  OBVIOUS
<1>1. BusesHold
  <2>1. DOMAIN bus = Students /\ \A u \in Students : bus[u] = EmptyBus
    BY DEF ToolsInit
  <2>2. EmptyBus = [queue |-> EmptyBus.queue, stack |-> EmptyBus.stack, memo |-> EmptyBus.memo]
        /\ EmptyBus.memo \in Seq(Entries)
    BY DEF EmptyBus
  <2> QED
    BY <2>1, <2>2 DEF BusesHold
<1>2. RunsFit
  <2>1. Idle(NoCall)
    BY DEF Idle, IsRun, NoCall
  <2> QED
    BY <2>1 DEF ToolsInit, RunsFit
<1> QED
  BY <1>1, <1>2 DEF ToolsInit, ToolsInv

\* What is remembered is what a later call of the same key may be given.
LEMMA MemoKeeps ==
  ASSUME NEW m \in Seq(Entries), NEW t, NEW a, NEW open, NEW out,
         t \in Publico /\ ~out.error => [key |-> MemoKey(t, a, open), out |-> out, turn |-> NoTurn] \in Entries
  PROVE  Remember(m, t, a, open, out, NoTurn) \in Seq(Entries)
<1> DEFINE e == [key |-> MemoKey(t, a, open), out |-> out, turn |-> NoTurn]
           at == {i \in DOMAIN m : m[i].key = e.key}
           n == IF at = {} THEN Append(m, e) ELSE [i \in DOMAIN m |-> IF i \in at THEN e ELSE m[i]]
<1>1. Remember(m, t, a, open, out, NoTurn) =
        IF out.error \/ ~Lives(t, NoTurn) THEN m ELSE IF Len(n) > MemoCap THEN Tail(n) ELSE n
  BY DEF Remember
<1>2. CASE out.error \/ ~Lives(t, NoTurn)
  BY <1>1, <1>2
<1>3. CASE ~(out.error \/ ~Lives(t, NoTurn))
  <2>1. e \in Entries
    BY <1>3 DEF Lives
  <2> HIDE DEF e
  <2>2. n \in Seq(Entries)
    <3>1. Append(m, e) \in Seq(Entries)
      BY <2>1
    <3>2. [i \in DOMAIN m |-> IF i \in at THEN e ELSE m[i]] \in Seq(Entries)
      <4>1. DOMAIN m = 1..Len(m) /\ Len(m) \in Nat /\ \A i \in 1..Len(m) : m[i] \in Entries
        OBVIOUS
      <4> HIDE DEF at
      <4> QED
        BY <2>1, <4>1
    <3> QED
      BY <3>1, <3>2
  <2> HIDE DEF n
  <2>3. Len(n) > MemoCap => Tail(n) \in Seq(Entries)
    <3>1. MemoCap \in Nat \ {0} /\ Len(n) \in Nat
      BY <2>2, ToolsAssumption
    <3> QED
      BY <2>2, <3>1
  <2> QED
    BY <1>1, <1>3, <2>2, <2>3
<1> QED
  BY <1>2, <1>3

\* A bus that is found is the one that was kept, or a new one.
LEMMA FoundHolds ==
  ASSUME BusesHold, NEW silent
  PROVE  /\ DOMAIN Found(silent) = Students
         /\ \A u \in Students :
              /\ Found(silent)[u] = [queue |-> Found(silent)[u].queue, stack |-> Found(silent)[u].stack,
                                     memo |-> Found(silent)[u].memo]
              /\ Found(silent)[u].memo \in Seq(Entries)
<1>1. EmptyBus = [queue |-> EmptyBus.queue, stack |-> EmptyBus.stack, memo |-> EmptyBus.memo]
      /\ EmptyBus.memo \in Seq(Entries)
  BY DEF EmptyBus
<1>2. DOMAIN Found(silent) = Students /\ \A u \in Students : Found(silent)[u] = bus[u] \/ Found(silent)[u] = EmptyBus
  BY DEF Found
<1> QED
  BY <1>1, <1>2 DEF BusesHold

\* Losing its bus changes nothing else of a call.
LEMMA KeepingFits ==
  ASSUME RunsFit, NEW u, NEW silent
  PROVE  /\ DOMAIN Keeping(u, silent) = Calls
         /\ \A c \in Calls :
              LET k == Keeping(u, silent)[c]
              IN  /\ Idle(k) \/ Fitting(k)
                  /\ k.at = run[c].at /\ k.u = run[c].u /\ k.tool = run[c].tool /\ k.out = run[c].out
<1>1. DOMAIN Keeping(u, silent) = Calls
  BY DEF Keeping
<1>2. ASSUME NEW c \in Calls
      PROVE  LET k == Keeping(u, silent)[c]
             IN  /\ Idle(k) \/ Fitting(k)
                 /\ k.at = run[c].at /\ k.u = run[c].u /\ k.tool = run[c].tool /\ k.out = run[c].out
  <2>1. PICK x : Keeping(u, silent)[c] = [run[c] EXCEPT !.mine = x]
    BY DEF Keeping
  <2> DEFINE k == [run[c] EXCEPT !.mine = x]
  <2>2. IsRun(run[c])
    BY DEF RunsFit, Idle, Fitting
  <2>3. IsRun(k) /\ k.at = run[c].at /\ k.u = run[c].u /\ k.tool = run[c].tool /\ k.arg = run[c].arg
        /\ k.open = run[c].open /\ k.began = run[c].began /\ k.out = run[c].out
    BY <2>2 DEF IsRun
  <2> HIDE DEF k
  <2>4. Idle(run[c]) => Idle(k)
    BY <2>3 DEF Idle
  <2>5. Fitting(run[c]) => Fitting(k)
    BY <2>3 DEF Fitting, TellsRight
  <2> QED
    BY <2>1, <2>3, <2>4, <2>5 DEF RunsFit, k
<1> QED
  BY <1>1, <1>2

\* One run goes on while the others stay, or lose their bus.
LEMMA OneRunGoes ==
  ASSUME RunsFit, NEW u, NEW silent, NEW c \in Calls, NEW k, finished' = finished, Fitting(k),
         run' = [Keeping(u, silent) EXCEPT ![c] = k] \/ run' = [run EXCEPT ![c] = k]
  PROVE  RunsFit'
<1>1. DOMAIN run' = Calls
  BY KeepingFits DEF RunsFit
<1>2. ASSUME NEW d \in Calls PROVE Idle(run'[d]) \/ Fitting(run'[d])
  <2>1. CASE d = c
    <3>1. run'[d] = k
      BY <2>1, KeepingFits DEF RunsFit
    <3> QED
      BY <3>1
  <2>2. CASE d # c
    <3>1. run'[d] = run[d] \/ run'[d] = Keeping(u, silent)[d]
      BY <2>2, KeepingFits DEF RunsFit
    <3> QED
      BY <3>1, KeepingFits DEF RunsFit
  <2> QED
    BY <2>1, <2>2
<1>3. \A k_1 : Fitting(k_1)' <=> Fitting(k_1)
  BY DEF Fitting
<1> QED
  BY <1>1, <1>2 DEF RunsFit, Fitting

\* What else is set of a run, it stays one.
LEMMA RunIsSet ==
  ASSUME NEW k, IsRun(k), NEW x
  PROVE  /\ IsRun([k EXCEPT !.at = x]) /\ IsRun([k EXCEPT !.u = x])
         /\ IsRun([k EXCEPT !.tool = x]) /\ IsRun([k EXCEPT !.arg = x])
         /\ IsRun([k EXCEPT !.open = x]) /\ IsRun([k EXCEPT !.mine = x])
         /\ IsRun([k EXCEPT !.padlocks = x]) /\ IsRun([k EXCEPT !.item = x])
         /\ IsRun([k EXCEPT !.began = x]) /\ IsRun([k EXCEPT !.out = x])
<1>1. IsRun([k EXCEPT !.at = x])
  BY DEF IsRun
<1>2. IsRun([k EXCEPT !.u = x])
  BY DEF IsRun
<1>3. IsRun([k EXCEPT !.tool = x])
  BY DEF IsRun
<1>4. IsRun([k EXCEPT !.arg = x])
  BY DEF IsRun
<1>5. IsRun([k EXCEPT !.open = x])
  BY DEF IsRun
<1>6. IsRun([k EXCEPT !.mine = x])
  BY DEF IsRun
<1>7. IsRun([k EXCEPT !.padlocks = x])
  BY DEF IsRun
<1>8. IsRun([k EXCEPT !.item = x])
  BY DEF IsRun
<1>9. IsRun([k EXCEPT !.began = x])
  BY DEF IsRun
<1>10. IsRun([k EXCEPT !.out = x])
  BY DEF IsRun
<1> QED
  BY <1>1, <1>2, <1>3, <1>4, <1>5, <1>6, <1>7, <1>8, <1>9, <1>10

\* A tool that has answered keeps whose call it is and what was open to it.
LEMMA EndsIsRun ==
  ASSUME NEW k, IsRun(k), NEW out
  PROVE  LET g == Ends(k, out) IN
         /\ IsRun(g) /\ g.at \in {"effect", "done"} /\ g.u = k.u /\ g.tool = k.tool /\ g.arg = k.arg
         /\ g.open = k.open /\ g.began = k.began /\ g.out = out
<1>1. PICK x \in {"effect", "done"} : Ends(k, out) = [k EXCEPT !.at = x, !.out = out]
  <2>1. CASE HasEffect(k.tool)
    BY <2>1 DEF Ends
  <2>2. CASE ~HasEffect(k.tool)
    BY <2>2 DEF Ends
  <2> QED
    BY <2>1, <2>2
<1> DEFINE g == [k EXCEPT !.at = x, !.out = out]
<1>2. /\ IsRun(g) /\ g.at = x /\ g.u = k.u /\ g.tool = k.tool /\ g.arg = k.arg
      /\ g.open = k.open /\ g.began = k.began /\ g.out = out
  <2>1. g = [[k EXCEPT !.at = x] EXCEPT !.out = out]
    OBVIOUS
  <2>2. IsRun(g)
    BY <2>1, RunIsSet
  <2> QED
    BY <2>2 DEF IsRun
<1> HIDE DEF g
<1>3. /\ IsRun(g) /\ g.at \in {"effect", "done"} /\ g.u = k.u /\ g.tool = k.tool /\ g.arg = k.arg
      /\ g.open = k.open /\ g.began = k.began /\ g.out = out
  BY <1>2
<1> QED
  BY <1>1, <1>3 DEF g

\* A call on its way to the rows has said nothing yet.
LEMMA GoesFits ==
  ASSUME NEW k, IsRun(k), k.u \in Students, k.tool \in ToolNames, k.arg \in ArgSet, k.open \subseteq AllLessons,
         k.began \subseteq finished[k.u], k.out = NoAnswer,
         NEW at \in {"gate", "me", "fn", "read"}, at = "fn" => k.tool \in Uncached \ ReadsMe
  PROVE  Fitting(Goes(k, at))
<1> DEFINE g == Goes(k, at)
<1>1. IsRun(g) /\ g.at = at /\ g.u = k.u /\ g.tool = k.tool /\ g.arg = k.arg
      /\ g.open = k.open /\ g.began = k.began /\ g.out = k.out
  BY DEF IsRun, Goes
<1> HIDE DEF g
<1>2. Fitting(g)
  BY <1>1 DEF Fitting
<1> QED
  BY <1>2 DEF g

\* A call that throws says nothing.
LEMMA FailedFits ==
  ASSUME NEW k, Fitting(k), NEW out, out.error
  PROVE  Fitting([Goes(k, "done") EXCEPT !.out = out])
<1> DEFINE f == Goes(k, "done")
           g == [f EXCEPT !.out = out]
<1>1. IsRun(k)
  BY DEF Fitting
<1>2. IsRun(f) /\ f.u = k.u /\ f.tool = k.tool /\ f.arg = k.arg /\ f.open = k.open /\ f.began = k.began /\ f.at = "done"
  BY <1>1 DEF Goes, IsRun
<1> HIDE DEF f
<1>3. IsRun(g) /\ g.at = "done" /\ g.out = out /\ g.u = k.u /\ g.tool = k.tool /\ g.arg = k.arg
      /\ g.open = k.open /\ g.began = k.began
  <2>1. IsRun(g)
    BY <1>2, RunIsSet
  <2> QED
    BY <1>2, <2>1 DEF IsRun
<1> HIDE DEF g
<1>4. Fitting(g)
  BY <1>3 DEF Fitting
<1> QED
  BY <1>4 DEF f, g

\* The memo only answers with what fits what is open to this call (access.ts, memoKey).
LEMMA ConsultsFits ==
  ASSUME NEW k, IsRun(k), k.u \in Students, k.tool \in ToolNames, k.arg \in ArgSet, k.open \subseteq AllLessons,
         k.began \subseteq finished[k.u], k.out = NoAnswer, NEW m \in Seq(Entries), NEW old \in BOOLEAN
  PROVE  Fitting(Consults(k, m, old))
<1> DEFINE found == IF old THEN {} ELSE Hits(m, k)
<1>2. CASE k.tool \notin Uncached /\ found # {}
  <2>1. PICK i \in DOMAIN m : Consults(k, m, old) = Ends(k, m[i].out) /\ i \in Hits(m, k)
    <3>1. (CHOOSE i \in found : TRUE) \in found /\ found = Hits(m, k)
      BY <1>2
    <3>2. Hits(m, k) \subseteq DOMAIN m
      BY DEF Hits
    <3> QED
      BY <1>2, <3>1, <3>2 DEF Consults
  <2>2. m[i].key = MemoKey(k.tool, k.arg, k.open) /\ k.tool \in Publico
    BY <2>1 DEF Hits, Lives, BridgeTurn
  <2>3. m[i] \in Entries
    BY <2>1
  <2> DEFINE g == Ends(k, m[i].out)
  <2>4. IsRun(g) /\ g.at \in {"effect", "done"} /\ g.u = k.u /\ g.tool = k.tool /\ g.arg = k.arg
        /\ g.open = k.open /\ g.began = k.began /\ g.out = m[i].out
    BY EndsIsRun
  <2>5. /\ k.tool \in Paywalled => m[i].out.shows \subseteq k.open
        /\ k.tool = "buscar_en_curso" => m[i].out.searched = k.open
    <3>1. m[i].key[1] = k.tool /\ (k.tool \in Paywalled => m[i].key[3] = k.open)
      BY <2>2 DEF MemoKey
    <3>2. "buscar_en_curso" \in Paywalled
      BY DEF Paywalled
    <3>3. /\ m[i].key[1] \in Paywalled => m[i].out.shows \subseteq m[i].key[3]
          /\ m[i].key[1] = "buscar_en_curso" => m[i].out.searched = m[i].key[3]
      BY <2>3 DEF Entries
    <3> QED
      BY <3>1, <3>2, <3>3
  <2> HIDE DEF g
  <2>6. TellsRight(g)
    BY <2>2, <2>4, <2>5 DEF TellsRight, Publico
  <2> QED
    BY <2>1, <2>4, <2>6 DEF Fitting, g
<1>3. CASE ~(k.tool \notin Uncached /\ found # {})
  <2>1. \/ k.tool \in ReadsMe /\ Consults(k, m, old) = Goes(k, "me")
        \/ k.tool \notin ReadsMe /\ k.tool \in Uncached /\ Consults(k, m, old) = Goes(k, "fn")
        \/ k.tool \notin ReadsMe /\ k.tool \notin Uncached /\ Consults(k, m, old) = Goes(k, "read")
    BY <1>3 DEF Consults
  <2> QED
    BY <2>1, GoesFits
<1> QED
  BY <1>2, <1>3

\* The first of some labs is one of them.
LEMMA FirstIsOne == ASSUME NEW S \in SUBSET LabSet, S # {} PROVE First(S) \in S
<1> DEFINE I == {i \in DOMAIN LabsInOrder : LabsInOrder[i] \in S}
<1>1. I # {}
  BY DEF LabSet, Range
<1>2. I \subseteq Nat
  BY ToolsAssumption
<1> HIDE DEF I
<1>3. Min(I) \in I
  BY <1>1, <1>2, LeastOne
<1> QED
  BY <1>3 DEF First, I

\* What the steps of a tool read: of the lessons nothing that is not open to the call, of
\* the person what is solved by then.
LEMMA AnswerFits ==
  ASSUME NEW c \in Calls, Fitting(run[c]), run[c].at = "read"
  PROVE  ~Answer(c).error =>
           /\ TellsRight([run[c] EXCEPT !.out = Answer(c)])
           /\ run[c].tool \in Publico =>
                [key |-> MemoKey(run[c].tool, run[c].arg, run[c].open), out |-> Answer(c), turn |-> NoTurn] \in Entries
<1> SUFFICES ASSUME ~Answer(c).error
             PROVE  /\ TellsRight([run[c] EXCEPT !.out = Answer(c)])
                    /\ run[c].tool \in Publico =>
                         [key |-> MemoKey(run[c].tool, run[c].arg, run[c].open), out |-> Answer(c), turn |-> NoTurn] \in Entries
  OBVIOUS
<1> DEFINE t == run[c].tool
           open == run[c].open
           out == Answer(c)
           done == finished[run[c].u]
<1>1. IsRun(run[c]) /\ t \in ToolNames /\ run[c].arg \in ArgSet /\ open \subseteq AllLessons /\ run[c].began \subseteq done
  BY DEF Fitting
<1>2. Error.error = TRUE
  BY DEF Error, NoAnswer
<1>3. /\ t \in Paywalled => out.shows \subseteq open
      /\ t = "buscar_en_curso" => out.searched = open
      /\ t \in {"mi_progreso", "mi_panorama"} => done \subseteq out.solved
      /\ t \in {"mi_siguiente_paso", "mis_pendientes", "mis_errores", "plan_estudio"} => out.labs \cap done = {}
      /\ t \in Publico => out \in Plain
  <2>0. \A u, l : (LabCard(u, l, open).error \/ (LabCard(u, l, open).shows \subseteq open /\ DOMAIN LabCard(u, l, open) = {"error", "shows", "searched", "labs", "solved"}))
    BY <1>2 DEF LabCard, NoAnswer
  <2>1. CASE t = "leccion_texto"
    <3>1. run[c].arg \in open /\ out = [NoAnswer EXCEPT !.shows = {run[c].arg}]
      BY <1>2, <2>1 DEF Answer, LessonText
    <3>2. out = [error |-> FALSE, shows |-> {run[c].arg}, searched |-> {}, labs |-> {}, solved |-> {}]
      BY <3>1 DEF NoAnswer
    <3>3. {run[c].arg} \in SUBSET AllLessons /\ {run[c].arg} \subseteq open
      BY <1>1, <3>1
    <3>4. out \in Plain
      BY <3>2, <3>3 DEF Plain
    <3> HIDE DEF out
    <3>5. out.shows \subseteq open
      BY <3>2, <3>3
    <3> QED
      BY <2>1, <3>4, <3>5
  <2>2. CASE t = "buscar_en_curso"
    <3>1. out = [NoAnswer EXCEPT !.shows = open, !.searched = open]
      BY <2>2 DEF Answer, Search
    <3>2. out = [error |-> FALSE, shows |-> open, searched |-> open, labs |-> {}, solved |-> {}]
      BY <3>1 DEF NoAnswer
    <3> QED
      BY <1>1, <2>2, <3>2 DEF Plain
  <2>3. CASE t \in {"lab_ficha", "mis_intentos"}
    <3>1. out = LabCard(run[c].u, run[c].arg, open)
      BY <2>3 DEF Answer, AttemptsAt
    <3> QED
      BY <2>0, <2>3, <3>1 DEF Publico
  <2>4. CASE t = "examen"
    <3>1. run[c].arg \in open /\ out.shows = {run[c].arg}
      BY <1>2, <2>4 DEF Answer, ExamPaper, NoAnswer
    <3> QED
      BY <2>4, <3>1 DEF Publico
  <2>5. CASE t = "mis_errores"
    <3>1. out = Mistakes(run[c].u, open)
      BY <2>5 DEF Answer
    <3>2. out.shows \subseteq open /\ out.labs \cap done = {}
      BY <3>1 DEF Mistakes, LessonsOf, Stuck, NoAnswer
    <3> QED
      BY <2>5, <3>2 DEF Publico
  <2>6. CASE t = "mis_pendientes"
    <3>1. out.labs = LabSet \ done
      BY <2>6 DEF Answer, Pending, Unsolved, NoAnswer
    <3> QED
      BY <2>6, <3>1 DEF Publico, Paywalled
  <2>7. CASE t = "mi_progreso"
    <3>1. out.solved = done
      BY <2>7 DEF Answer, Progress, NoAnswer
    <3> QED
      BY <2>7, <3>1 DEF Publico, Paywalled
  <2>8. CASE t = "plan_estudio"
    <3>1. out.labs = Openable(run[c].u, run[c].padlocks)
      BY <2>8 DEF Answer, Plan, NoAnswer
    <3> QED
      BY <2>8, <3>1 DEF Openable, Unsolved, Publico, Paywalled
  <2>9. CASE t \in {"mi_siguiente_paso", "mi_panorama"}
    <3> DEFINE ls == Openable(run[c].u, run[c].padlocks)
    <3>1. ls \subseteq LabSet /\ ls \cap done = {}
      BY DEF Openable, Unsolved
    <3> HIDE DEF ls
    <3>2. NextStep(run[c].u, run[c].padlocks).labs \subseteq ls
      <4>1. NextStep(run[c].u, run[c].padlocks).labs = (IF ls = {} THEN {} ELSE {First(ls)})
        BY DEF NextStep, NoAnswer, ls
      <4> QED
        BY <3>1, <4>1, FirstIsOne
    <3>3. t = "mi_siguiente_paso" => out = NextStep(run[c].u, run[c].padlocks)
      BY DEF Answer
    <3>4. t = "mi_panorama" => out.solved = done
      BY DEF Answer, PanoramaOf, NextStep, NoAnswer
    <3> QED
      BY <2>9, <3>1, <3>2, <3>3, <3>4 DEF Publico, Paywalled
  <2>10. CASE t = "cola_siguiente"
    <3>1. out.shows \subseteq open
      <4>1. LessonOf[run[c].item] \in open /\ out = [LabCard(run[c].u, run[c].item, open) EXCEPT !.labs = {run[c].item}]
        BY <1>2, <2>10 DEF Answer, Handed
      <4> QED
        BY <4>1 DEF LabCard, NoAnswer
    <3> QED
      BY <2>10, <3>1 DEF Publico
  <2>11. CASE t \in {"glosario", "mi_acceso", "cola_encolar", "foco_apilar", "foco_volver"}
    <3>1. t = "glosario" => out = NoAnswer
      BY DEF Answer
    <3>2. NoAnswer \in Plain
      BY DEF NoAnswer, Plain
    <3> QED
      BY <2>11, <3>1, <3>2 DEF Publico, Paywalled
  <2> QED
    BY <1>1, <2>1, <2>2, <2>3, <2>4, <2>5, <2>6, <2>7, <2>8, <2>9, <2>10, <2>11 DEF ToolNames
<1> HIDE DEF out, open, done
<1>4. TellsRight([run[c] EXCEPT !.out = out])
  <2> DEFINE k == [run[c] EXCEPT !.out = out]
  <2>1. k.tool = run[c].tool /\ k.open = open /\ k.began = run[c].began /\ k.out = out
    BY <1>1 DEF IsRun, open
  <2> HIDE DEF k
  <2>2. TellsRight(k)
    BY <1>1, <1>3, <2>1 DEF TellsRight
  <2> QED
    BY <2>2 DEF k
<1>5. ASSUME t \in Publico
      PROVE  [key |-> MemoKey(t, run[c].arg, open), out |-> out, turn |-> NoTurn] \in Entries
  <2> DEFINE key == MemoKey(t, run[c].arg, open)
  <2>1. key \in Publico \X ArgSet \X SUBSET AllLessons /\ key[1] = t /\ (t \in Paywalled => key[3] = open)
    BY <1>1, <1>5 DEF MemoKey
  <2>2. "buscar_en_curso" \in Paywalled
    BY DEF Paywalled
  <2> HIDE DEF key
  <2>3. [key |-> key, out |-> out, turn |-> NoTurn] \in [key: Publico \X ArgSet \X SUBSET AllLessons, out: Plain, turn: {NoTurn}]
    BY <1>3, <1>5, <2>1
  <2>4. [key |-> key, out |-> out, turn |-> NoTurn] \in Entries
    BY <1>3, <2>1, <2>2, <2>3 DEF Entries
  <2> QED
    BY <2>4 DEF key
<1> QED
  BY <1>4, <1>5 DEF out, open

\* A bus that one person's call changes, and what the others have.
LEMMA OneBusGoes ==
  ASSUME BusesHold, NEW silent, NEW u \in Students, NEW b,
         IF bus' = [bus EXCEPT ![u] = b] THEN TRUE ELSE bus' = [Found(silent) EXCEPT ![u] = b],
         b = [queue |-> b.queue, stack |-> b.stack, memo |-> b.memo], b.memo \in Seq(Entries)
  PROVE  BusesHold'
<1>1. DOMAIN bus' = Students
  BY FoundHolds DEF BusesHold
<1>2. ASSUME NEW v \in Students
      PROVE  bus'[v] = [queue |-> bus'[v].queue, stack |-> bus'[v].stack, memo |-> bus'[v].memo]
             /\ bus'[v].memo \in Seq(Entries)
  <2>1. bus'[v] = b \/ bus'[v] = bus[v] \/ bus'[v] = Found(silent)[v]
    BY FoundHolds DEF BusesHold
  <2> QED
    BY <2>1, FoundHolds DEF BusesHold
<1> QED
  BY <1>1, <1>2 DEF BusesHold

\* A call begins, on a bus found or made.
LEMMA BeginKeeps ==
  ASSUME ToolsInv, NEW c \in Calls, NEW silent, NEW t \in Asked[c], NEW a \in Args(t), NEW old \in BOOLEAN,
         Begin(c, For[c], t, a, silent, old)
  PROVE  ToolsInv'
<1> DEFINE u == For[c]
           k == [NoCall EXCEPT !.u = u, !.tool = t, !.arg = a, !.mine = TRUE, !.began = finished[u]]
<1>1. BusesHold /\ RunsFit /\ DOMAIN finished = Students
  BY DEF ToolsInv
<1>2. u \in Students /\ t \in ToolNames /\ a \in ArgSet
  <2>1. u \in Students /\ t \in ToolNames
    BY ToolsAssumption
  <2>2. a \in ArgSet
    BY DEF Args, ArgSet
  <2> QED
    BY <2>1, <2>2
<1>3. /\ bus' = Found(silent) /\ finished' = finished
      /\ run' = [Keeping(u, silent) EXCEPT ![c] =
           IF t \in Paywalled THEN Goes(k, "gate") ELSE Consults(k, Found(silent)[u].memo, old)]
  BY DEF Begin
<1>4. k.u = u /\ k.tool = t /\ k.arg = a /\ k.open = {} /\ k.began = finished[u] /\ k.out = NoAnswer
  BY DEF NoCall
<1>5. IsRun(k)
  <2> DEFINE k_1 == [NoCall EXCEPT !.u = u]
             k_2 == [k_1 EXCEPT !.tool = t]
             k_3 == [k_2 EXCEPT !.arg = a]
             k_4 == [k_3 EXCEPT !.mine = TRUE]
  <2>1. IsRun(NoCall)
    BY DEF NoCall, IsRun
  <2>2. k = [k_4 EXCEPT !.began = finished[u]]
    OBVIOUS
  <2>3. IsRun(k_1)
    BY <2>1, RunIsSet
  <2> HIDE DEF k_1
  <2>4. IsRun(k_2)
    BY <2>3, RunIsSet
  <2> HIDE DEF k_2
  <2>5. IsRun(k_3)
    BY <2>4, RunIsSet
  <2> HIDE DEF k_3
  <2>6. IsRun(k_4)
    BY <2>5, RunIsSet
  <2> HIDE DEF k_4, k
  <2> QED
    BY <2>2, <2>6, RunIsSet
<1> HIDE DEF u, k
<1>6. Fitting(Consults(k, Found(silent)[u].memo, old))
  <2>1. Found(silent)[u].memo \in Seq(Entries)
    BY <1>1, <1>2, FoundHolds
  <2> QED
    BY <1>2, <1>4, <1>5, <2>1, ConsultsFits
<1>7. Fitting(Goes(k, "gate"))
  BY <1>2, <1>4, <1>5, GoesFits
<1>8. RunsFit'
  BY <1>1, <1>3, <1>6, <1>7, OneRunGoes
<1>9. BusesHold'
  BY <1>1, <1>3, FoundHolds DEF BusesHold
<1> QED
  BY <1>1, <1>3, <1>8, <1>9 DEF ToolsInv

\* What is open is read once, before the memo is asked.
LEMMA GateKeeps ==
  ASSUME ToolsInv, NEW c \in Calls, NEW old \in BOOLEAN, Gate(c, old)
  PROVE  ToolsInv'
<1> DEFINE k == [run[c] EXCEPT !.open = OpenTo(run[c].u)]
<1>1. BusesHold /\ RunsFit /\ DOMAIN finished = Students
  BY DEF ToolsInv
<1>2. run[c].at = "gate" /\ finished' = finished /\ bus' = bus
  BY DEF Gate
<1>3. Fitting(run[c])
  BY <1>1, <1>2 DEF RunsFit, Idle
<1>4. OpenTo(run[c].u) \subseteq AllLessons
  BY ToolsAssumption DEF OpenTo
<1>5. IsRun(run[c]) /\ IsRun(k) /\ run[c].out = NoAnswer
  BY <1>2, <1>3, RunIsSet DEF Fitting
<1>6. run' = [run EXCEPT ![c] = Consults(k, IF run[c].mine THEN bus[run[c].u].memo ELSE <<>>, old)]
  BY <1>1 DEF Gate, RunsFit
<1>7. IsRun(k) /\ k.u = run[c].u /\ k.tool = run[c].tool /\ k.arg = run[c].arg /\ k.open = OpenTo(run[c].u)
      /\ k.began = run[c].began /\ k.out = NoAnswer
  BY <1>5 DEF IsRun
<1> HIDE DEF k
<1>8. (IF run[c].mine THEN bus[run[c].u].memo ELSE <<>>) \in Seq(Entries)
  BY <1>1, <1>3 DEF BusesHold, Fitting
<1>9. Fitting(Consults(k, IF run[c].mine THEN bus[run[c].u].memo ELSE <<>>, old))
  BY <1>3, <1>4, <1>7, <1>8, ConsultsFits DEF Fitting
<1>10. RunsFit'
  BY <1>1, <1>2, <1>6, <1>9, OneRunGoes
<1> QED
  BY <1>1, <1>2, <1>10 DEF ToolsInv, BusesHold

\* The padlocks are of the moment of the read.
LEMMA MeKeeps == ASSUME ToolsInv, NEW c \in Calls, Me(c) PROVE ToolsInv'
<1> DEFINE k == [run[c] EXCEPT !.padlocks = OpenTo(run[c].u), !.at = "read"]
<1>1. BusesHold /\ RunsFit /\ DOMAIN finished = Students
  BY DEF ToolsInv
<1>2. run[c].at = "me" /\ finished' = finished /\ bus' = bus
  BY DEF Me
<1>3. Fitting(run[c])
  BY <1>1, <1>2 DEF RunsFit, Idle
<1>4. run' = [run EXCEPT ![c] = k]
  BY <1>1 DEF Me, RunsFit
<1>5. IsRun(run[c]) /\ IsRun(k) /\ run[c].out = NoAnswer
  <2>1. IsRun(run[c]) /\ run[c].out = NoAnswer
    BY <1>2, <1>3 DEF Fitting
  <2>2. k = [[run[c] EXCEPT !.padlocks = OpenTo(run[c].u)] EXCEPT !.at = "read"]
    OBVIOUS
  <2> QED
    BY <2>1, <2>2, RunIsSet
<1>6. IsRun(k) /\ k.at = "read" /\ k.u = run[c].u /\ k.tool = run[c].tool /\ k.arg = run[c].arg
      /\ k.open = run[c].open /\ k.began = run[c].began /\ k.out = NoAnswer
  BY <1>5 DEF IsRun
<1> HIDE DEF k
<1>7. Fitting(k)
  BY <1>3, <1>6 DEF Fitting
<1>8. RunsFit'
  BY <1>1, <1>2, <1>4, <1>7, OneRunGoes
<1> QED
  BY <1>1, <1>2, <1>8 DEF ToolsInv, BusesHold

\* The rows are read, and what they gave is remembered.
LEMMA RowsReadKeep == ASSUME ToolsInv, NEW c \in Calls, ReadsRows(c) PROVE ToolsInv'
<1> DEFINE out == Answer(c)
           u == run[c].u
<1>1. BusesHold /\ RunsFit /\ DOMAIN finished = Students
  BY DEF ToolsInv
<1>2. /\ run[c].at = "read" /\ finished' = finished
      /\ bus' = IF run[c].mine /\ run[c].tool \notin Uncached
                THEN [bus EXCEPT ![u].memo = Remember(bus[u].memo, run[c].tool, run[c].arg, run[c].open, out, NoTurn)]
                ELSE bus
      /\ run' = [run EXCEPT ![c] = IF out.error THEN [Goes(run[c], "done") EXCEPT !.out = out] ELSE Ends(run[c], out)]
  BY <1>1 DEF ReadsRows, RunsFit, BridgeTurn, BusesHold
<1>3. Fitting(run[c])
  BY <1>1, <1>2 DEF RunsFit, Idle
<1>4. /\ IsRun(run[c]) /\ u \in Students /\ run[c].tool \in ToolNames /\ run[c].arg \in ArgSet
      /\ run[c].open \subseteq AllLessons /\ run[c].began \subseteq finished[u]
  BY <1>3 DEF Fitting
<1>5. ~out.error =>
        /\ TellsRight([run[c] EXCEPT !.out = out])
        /\ run[c].tool \in Publico =>
             [key |-> MemoKey(run[c].tool, run[c].arg, run[c].open), out |-> out, turn |-> NoTurn] \in Entries
  BY <1>2, <1>3, AnswerFits
<1> HIDE DEF out
<1>6. BusesHold'
  <2>1. CASE bus' = bus
    BY <1>1, <2>1 DEF BusesHold
  <2>2. CASE run[c].mine /\ run[c].tool \notin Uncached
    <3> DEFINE m == Remember(bus[u].memo, run[c].tool, run[c].arg, run[c].open, out, NoTurn)
               b == [bus[u] EXCEPT !.memo = m]
    <3>1. bus[u].memo \in Seq(Entries) /\ bus[u] = [queue |-> bus[u].queue, stack |-> bus[u].stack, memo |-> bus[u].memo]
      BY <1>1, <1>4 DEF BusesHold
    <3>2. m \in Seq(Entries)
      BY <1>5, <3>1, MemoKeeps
    <3>3. bus' = [bus EXCEPT ![u] = b]
      BY <1>2, <2>2
    <3> HIDE DEF m
    <3>4. b = [queue |-> b.queue, stack |-> b.stack, memo |-> b.memo] /\ b.memo \in Seq(Entries)
      BY <3>1, <3>2
    <3> HIDE DEF b
    <3> QED
      BY <1>1, <1>4, <3>3, <3>4, OneBusGoes
  <2> QED
    BY <1>2, <2>1, <2>2
<1>7. CASE ~out.error
  <2> DEFINE g == Ends(run[c], out)
  <2>1. /\ IsRun(g) /\ g.at \in {"effect", "done"} /\ g.u = u /\ g.tool = run[c].tool /\ g.arg = run[c].arg
        /\ g.open = run[c].open /\ g.began = run[c].began /\ g.out = out
    BY <1>4, EndsIsRun
  <2>2. run' = [run EXCEPT ![c] = g]
    BY <1>2, <1>7
  <2> DEFINE k == [run[c] EXCEPT !.out = out]
  <2>3. k.tool = run[c].tool /\ k.open = run[c].open /\ k.began = run[c].began /\ k.out = out
    BY <1>4 DEF IsRun
  <2> HIDE DEF g, k
  <2>4. TellsRight(k)
    BY <1>5, <1>7 DEF k
  <2>5. TellsRight(g)
    BY <2>1, <2>3, <2>4 DEF TellsRight
  <2>6. Fitting(g)
    BY <1>4, <2>1, <2>5 DEF Fitting
  <2>7. RunsFit'
    BY <1>1, <1>2, <2>2, <2>6, OneRunGoes
  <2> QED
    BY <1>1, <1>2, <1>6, <2>7 DEF ToolsInv
<1>8. CASE out.error
  <2>1. run' = [run EXCEPT ![c] = [Goes(run[c], "done") EXCEPT !.out = out]]
    BY <1>2, <1>8
  <2>2. Fitting([Goes(run[c], "done") EXCEPT !.out = out])
    BY <1>3, <1>8, FailedFits
  <2>3. RunsFit'
    BY <1>1, <1>2, <2>1, <2>2, OneRunGoes
  <2> QED
    BY <1>1, <1>2, <1>6, <2>3 DEF ToolsInv
<1> QED
  BY <1>7, <1>8

\* A read that fails says nothing, and leaves the bus as it was.
LEMMA ToolFailsKeeps == ASSUME ToolsInv, NEW c \in Calls, ToolFails(c) PROVE ToolsInv'
<1>1. BusesHold /\ RunsFit /\ DOMAIN finished = Students
  BY DEF ToolsInv
<1>2. /\ run[c].at # "idle" /\ finished' = finished /\ bus' = bus
      /\ run' = [run EXCEPT ![c] = [Goes(run[c], "done") EXCEPT !.out = Error]]
  BY <1>1 DEF ToolFails, RunsFit
<1>3. Fitting(run[c])
  BY <1>1, <1>2 DEF RunsFit, Idle
<1>4. Error.error
  BY DEF Error, NoAnswer
<1>5. Fitting([Goes(run[c], "done") EXCEPT !.out = Error])
  BY <1>3, <1>4, FailedFits
<1>6. RunsFit'
  BY <1>1, <1>2, <1>5, OneRunGoes
<1> QED
  BY <1>1, <1>2, <1>6 DEF ToolsInv, BusesHold

\* A call that is done with an answer that holds says what it should.
LEMMA DoneFits ==
  ASSUME NEW k, Fitting(k), k.at \in {"fn", "effect"}
  PROVE  Fitting(Goes(k, "done"))
<1> DEFINE g == Goes(k, "done")
<1>1. IsRun(k)
  BY DEF Fitting
<1>2. IsRun(g) /\ g.at = "done" /\ g.u = k.u /\ g.tool = k.tool /\ g.arg = k.arg
      /\ g.open = k.open /\ g.began = k.began /\ g.out = k.out
  BY <1>1 DEF Goes, IsRun
<1>3. ~k.out.error => TellsRight(k)
  <2>1. CASE k.at = "effect"
    BY <2>1 DEF Fitting
  <2>2. CASE k.at = "fn"
    <3>1. k.out = NoAnswer /\ k.tool \in Uncached \ ReadsMe
      BY <2>2 DEF Fitting
    <3> QED
      BY <3>1 DEF TellsRight, NoAnswer, Uncached, ReadsMe
  <2> QED
    BY <2>1, <2>2
<1> HIDE DEF g
<1>4. Fitting(g)
  BY <1>2, <1>3 DEF Fitting, TellsRight
<1> QED
  BY <1>4 DEF g

\* What moves the queue or the stack leaves the memo.
LEMMA BusIsSet ==
  ASSUME NEW b, b = [queue |-> b.queue, stack |-> b.stack, memo |-> b.memo], NEW x
  PROVE  LET q == [b EXCEPT !.queue = x]  s == [b EXCEPT !.stack = x]
         IN  /\ q = [queue |-> q.queue, stack |-> q.stack, memo |-> q.memo] /\ q.memo = b.memo
             /\ s = [queue |-> s.queue, stack |-> s.stack, memo |-> s.memo] /\ s.memo = b.memo
OBVIOUS

\* The tools that move the queue or the stack.
LEMMA CoordinatesKeeps ==
  ASSUME ToolsInv, NEW c \in Calls, NEW silent, Coordinates(c, silent)
  PROVE  ToolsInv'
<1> DEFINE k == run[c]
           b == Found(silent)[k.u]
           kept == Keeping(k.u, silent)[c]
           moved == CASE k.tool = "cola_siguiente" /\ b.queue # <<>> -> [b EXCEPT !.queue = Tail(b.queue)]
                      [] k.tool = "cola_encolar" -> [b EXCEPT !.queue = Enqueued(b.queue, k.arg)]
                      [] k.tool = "foco_apilar" -> [b EXCEPT !.stack = Pushed(b.stack, <<"lab", k.arg>>)]
                      [] k.tool = "foco_volver" -> [b EXCEPT !.stack = Popped(b.stack)]
                      [] OTHER -> b
<1>1. BusesHold /\ RunsFit /\ DOMAIN finished = Students
  BY DEF ToolsInv
<1>2. /\ k.at = "fn" /\ finished' = finished /\ bus' = [Found(silent) EXCEPT ![k.u] = moved]
      /\ run' = [Keeping(k.u, silent) EXCEPT ![c] =
           IF k.tool = "cola_siguiente" /\ b.queue # <<>>
           THEN [kept EXCEPT !.item = Head(b.queue), !.at = "read"] ELSE Goes(kept, "done")]
  BY <1>1, KeepingFits DEF Coordinates
<1>3. Fitting(k) /\ k.u \in Students
  BY <1>1, <1>2 DEF RunsFit, Idle, Fitting
<1>4. Fitting(kept) /\ kept.at = "fn"
  BY <1>1, <1>2, KeepingFits DEF Idle
<1> HIDE DEF kept
<1>5. b = [queue |-> b.queue, stack |-> b.stack, memo |-> b.memo] /\ b.memo \in Seq(Entries)
  BY <1>1, <1>3, FoundHolds
<1> HIDE DEF b
<1>6. moved = [queue |-> moved.queue, stack |-> moved.stack, memo |-> moved.memo] /\ moved.memo \in Seq(Entries)
  <2>1. moved = b \/ \E x : moved = [b EXCEPT !.queue = x] \/ moved = [b EXCEPT !.stack = x]
    OBVIOUS
  <2> HIDE DEF moved
  <2> QED
    BY <1>5, <2>1, BusIsSet
<1> HIDE DEF moved
<1>7. BusesHold'
  BY <1>1, <1>2, <1>3, <1>6, OneBusGoes
<1>8. Fitting(Goes(kept, "done"))
  BY <1>4, DoneFits
<1>9. ASSUME NEW l PROVE Fitting([kept EXCEPT !.item = l, !.at = "read"])
  <2> DEFINE f == [kept EXCEPT !.item = l]
             g == [f EXCEPT !.at = "read"]
  <2>1. [kept EXCEPT !.item = l, !.at = "read"] = g
    OBVIOUS
  <2>2. IsRun(kept)
    BY <1>4 DEF Fitting
  <2>3. IsRun(f)
    BY <2>2, RunIsSet
  <2>4. f.u = kept.u /\ f.tool = kept.tool /\ f.arg = kept.arg /\ f.open = kept.open
        /\ f.began = kept.began /\ f.out = kept.out
    BY <2>2 DEF IsRun
  <2> HIDE DEF f
  <2>5. IsRun(g)
    BY <2>3, RunIsSet
  <2>6. g.at = "read" /\ g.u = f.u /\ g.tool = f.tool /\ g.arg = f.arg /\ g.open = f.open
        /\ g.began = f.began /\ g.out = f.out
    BY <2>3 DEF IsRun
  <2> HIDE DEF g
  <2>7. Fitting(g)
    BY <1>4, <2>4, <2>5, <2>6 DEF Fitting
  <2> QED
    BY <2>1, <2>7
<1>10. RunsFit'
  <2>0. finished' = finished
    BY <1>2
  <2>1. CASE k.tool = "cola_siguiente" /\ b.queue # <<>>
    <3> DEFINE g == [kept EXCEPT !.item = Head(b.queue), !.at = "read"]
    <3>1. run' = [Keeping(run[c].u, silent) EXCEPT ![c] = g]
      BY <1>2, <2>1
    <3>2. Fitting(g)
      BY <1>9
    <3> HIDE DEF g
    <3> QED
      BY <1>1, <2>0, <3>1, <3>2, OneRunGoes
  <2>2. CASE ~(k.tool = "cola_siguiente" /\ b.queue # <<>>)
    <3> DEFINE g == Goes(kept, "done")
    <3>1. run' = [Keeping(run[c].u, silent) EXCEPT ![c] = g]
      BY <1>2, <2>2
    <3>2. Fitting(g)
      BY <1>8
    <3> HIDE DEF g
    <3> QED
      BY <1>1, <2>0, <3>1, <3>2, OneRunGoes
  <2> QED
    BY <2>1, <2>2
<1> QED
  BY <1>1, <1>2, <1>7, <1>10 DEF ToolsInv

\* What an answer leaves on the bus; the memo of a panorama lives one turn, and there is none.
LEMMA EffectsKeep ==
  ASSUME ToolsInv, NEW c \in Calls, NEW silent, Effects(c, silent)
  PROVE  ToolsInv'
<1> DEFINE k == run[c]
           b == Found(silent)[k.u]
           kept == Keeping(k.u, silent)[c]
           e == Effect(b, k.u, k.tool, k.arg, k.out)
<1>1. BusesHold /\ RunsFit /\ DOMAIN finished = Students
  BY DEF ToolsInv
<1>2. k.at = "effect" /\ finished' = finished
  BY DEF Effects
<1>3. Fitting(k) /\ k.u \in Students
  BY <1>1, <1>2 DEF RunsFit, Idle, Fitting
<1>4. bus' = [Found(silent) EXCEPT ![k.u] = e] /\ run' = [Keeping(k.u, silent) EXCEPT ![c] = Goes(kept, "done")]
  BY <1>1, <1>3, FoundHolds, KeepingFits DEF Effects
<1>5. Fitting(kept) /\ kept.at = "effect"
  BY <1>1, <1>2, KeepingFits DEF Idle
<1>6. Fitting(Goes(kept, "done"))
  BY <1>5, DoneFits
<1>7. b = [queue |-> b.queue, stack |-> b.stack, memo |-> b.memo] /\ b.memo \in Seq(Entries)
  BY <1>1, <1>3, FoundHolds
<1> HIDE DEF b, kept
<1>8. e = [queue |-> e.queue, stack |-> e.stack, memo |-> e.memo] /\ e.memo \in Seq(Entries)
  <2>1. \A m \in Seq(Entries) : \A o_1, o_2 :
           Remember(Remember(m, "mi_progreso", "none", {}, o_1, NoTurn),
                    "mi_siguiente_paso", "none", {}, o_2, NoTurn) = m
    BY DEF Remember, Lives, Publico
  <2>2. \/ e = b \/ \E x : e = [b EXCEPT !.queue = x] \/ e = [b EXCEPT !.stack = x]
        \/ e = [b EXCEPT !.memo = b.memo]
    BY <1>7, <2>1 DEF Effect, BridgeTurn
  <2> HIDE DEF e
  <2>3. [b EXCEPT !.memo = b.memo] = b
    BY <1>7
  <2> QED
    BY <1>7, <2>2, <2>3, BusIsSet
<1> HIDE DEF e
<1>9. BusesHold'
  BY <1>1, <1>3, <1>4, <1>8, OneBusGoes
<1>10. RunsFit'
  BY <1>1, <1>2, <1>4, <1>6, OneRunGoes
<1> QED
  BY <1>1, <1>2, <1>9, <1>10 DEF ToolsInv

\* What the person does meanwhile only adds to what is solved.
LEMMA MeanwhileKeeps ==
  ASSUME ToolsInv, bus' = bus, run' = run, DOMAIN finished' = Students,
         \A u \in Students : finished[u] \subseteq finished'[u]
  PROVE  ToolsInv'
<1>1. \A k : Fitting(k) => Fitting(k)'
  BY DEF Fitting
<1>2. RunsFit'
  BY <1>1 DEF ToolsInv, RunsFit
<1> QED
  BY <1>2 DEF ToolsInv, BusesHold

\* Every step of the tools keeps the invariant.
LEMMA ToolsKept == ToolsInv /\ [ToolsNext]_toolVars => ToolsInv'
<1> SUFFICES ASSUME ToolsInv, [ToolsNext]_toolVars PROVE ToolsInv'
  OBVIOUS
<1>1. CASE UNCHANGED toolVars
  BY <1>1, MeanwhileKeeps DEF toolVars, ToolsInv
<1>2. ASSUME NEW c \in Calls, NEW silent \in 0..Cardinality(Students),
             \/ \E t \in Asked[c], old \in BOOLEAN : \E a \in Args(t) : Begin(c, For[c], t, a, silent, old)
             \/ Coordinates(c, silent) \/ Effects(c, silent)
      PROVE  ToolsInv'
  BY <1>2, BeginKeeps, CoordinatesKeeps, EffectsKeep
<1>3. ASSUME NEW c \in Calls, Me(c) \/ ReadsRows(c) \/ ToolFails(c) \/ \E old \in BOOLEAN : Gate(c, old)
      PROVE  ToolsInv'
  BY <1>3, MeKeeps, RowsReadKeep, ToolFailsKeeps, GateKeeps
<1>4. ASSUME NEW u \in Active, Pays(u)
      PROVE  ToolsInv'
  BY <1>4, MeanwhileKeeps DEF Pays, ToolsInv
<1>5. ASSUME NEW u \in Active, NEW l \in LabSet, NEW right \in BOOLEAN, Solves(u, l, right)
      PROVE  ToolsInv'
  <2>1. bus' = bus /\ run' = run /\ finished' = IF right THEN [finished EXCEPT ![u] = finished[u] \cup {l}] ELSE finished
    BY <1>5 DEF Solves
  <2>2. DOMAIN finished' = Students /\ \A v \in Students : finished[v] \subseteq finished'[v]
    BY <2>1 DEF ToolsInv
  <2> QED
    BY <2>1, <2>2, MeanwhileKeeps
<1> QED
  BY <1>1, <1>2, <1>3, <1>4, <1>5 DEF ToolsNext

\* Whatever the calls of the bridge interleave with, purchases, refunds, answers elsewhere,
\* reads that fail, and however the bus drops people: what a tool serves fits the gate its
\* own call found, remembered or not, and what it says of the person is as new as the
\* question (tools/index.ts, agent-bus.ts).
THEOREM ToolsAlwaysTell == ToolsSpec => []ToolsTell
<1>1. ToolsInv => ToolsTell
  <2> SUFFICES ASSUME ToolsInv, NEW c \in Calls, run[c].at = "done", ~run[c].out.error
               PROVE  TellsRight(run[c])
    BY DEF ToolsTell, ServedFitsTheGate, OwnAnswersAreCurrent, TellsRight
  <2> QED
    BY DEF ToolsInv, RunsFit, Idle, Fitting
<1> QED
  BY <1>1, ToolsStart, ToolsKept, PTL DEF ToolsSpec

-----------------------------------------------------------------------------
(* The weekly leagues and the public ranking.                               *)

\* A request that reads: what it was given so far, by what it is to be given.
Reader(r) ==
  /\ DOMAIN r = {"at", "kind", "u", "got", "crossed"}
  /\ r.kind \in Kinds /\ r.u \in Players /\ r.crossed \in BOOLEAN
  /\ DOMAIN r.got \subseteq DOMAIN Reading(r.kind)
Numbered(table) == \A row \in table : row.place \in Nat \ {0}
\* As long as nothing has crossed it, all it was given is as it is.
Uncrossed(r) ==
  /\ "table" \in DOMAIN r.got => Numbered(r.got.table)
  /\ ~r.crossed => \A what \in DOMAIN r.got \ {"previous"} : r.got[what] = Value(what, r.u)

\* A close holds what was solved of a week that has come.
Closer(r) ==
  /\ DOMAIN r.flow \subseteq Players /\ r.of \in Weeks
  /\ \A v \in DOMAIN r.flow : r.flow[v].caudal \in Nat /\ r.flow[v].caudal <= first[v][r.of]
  /\ r.at = "rows" => r.todo \subseteq DOMAIN r.flow /\ r.lunes \in Weeks

Good(r) ==
  /\ r.at \in {"none", "upsert", "reads", "said", "week", "rows"}
  /\ r.at = "upsert" => r.u \in Players /\ r.alias \in Aliases
  /\ r.at = "reads" => Reader(r) /\ Uncrossed(r)
  /\ r.at = "said" => Agrees(r)
  /\ r.at \in {"week", "rows"} => Closer(r)

\* What every call holds.
CallsAreGood == DOMAIN calls = Seats /\ \A c \in Seats : Good(calls[c])

\* A promotion was shown against a row of an earlier week, which is still there.
PromotionsAreKept ==
  \A p \in promoted :
    /\ p.u \in Players /\ p.week \in Weeks /\ rows[p.u][p.week] # NoPlace
    /\ p.week < p.on /\ MetalOrder[p.to] > MetalOrder[p.from]
    /\ rows[p.u][p.week].metal = p.from

LeaguesInv == LeaguesTypeOK /\ CallsAreGood /\ PromotionsAreKept /\ RowsAreOfTheirWeek

\* What the tables are made of.
TableVars == <<week, bought, alias, earlier, first>>

\* An idle slot holds nothing.
LEMMA WaitingIsGood == Good(Waiting) /\ Good(Waiting)'
BY DEF Good, Waiting

\* Nobody has asked yet.
LEMMA LeaguesStarts == LeaguesInit => LeaguesInv
<1> SUFFICES ASSUME LeaguesInit PROVE LeaguesInv
  OBVIOUS
<1>1. LeaguesTypeOK
  <2>1. NoPlace \in Places
    BY DEF NoPlace, Places
  <2>2. first \in [Players -> [Weeks -> Nat]] /\ rows \in [Players -> [Weeks -> Places]]
    BY <2>1 DEF LeaguesInit
  <2>3. week \in Weeks /\ bought \subseteq Players /\ togo \in 0..MaxCalls /\ overdue = {}
    BY LeaguesAssumption DEF LeaguesInit, Weeks
  <2>4. \A c \in Seats : calls[c].at = "none"
    BY DEF LeaguesInit, Waiting
  <2> QED  BY <2>2, <2>3, <2>4 DEF LeaguesInit, LeaguesTypeOK
<1>2. CallsAreGood
  BY WaitingIsGood DEF CallsAreGood, LeaguesInit
<1>3. PromotionsAreKept
  BY DEF PromotionsAreKept, LeaguesInit
<1>4. RowsAreOfTheirWeek
  BY DEF RowsAreOfTheirWeek, LeaguesInit
<1> QED  BY <1>1, <1>2, <1>3, <1>4 DEF LeaguesInv

-----------------------------------------------------------------------------
(* What does not change the table. *)

\* Tables made of the same are the same.
LEMMA TableStays ==
  ASSUME UNCHANGED TableVars
  PROVE  /\ Flow' = Flow /\ Joined' = Joined /\ Ranking' = Ranking
         /\ \A u : Total(u)' = Total(u)
         /\ \A u, what : what # "previous" => Value(what, u)' = Value(what, u)
<1>1. week' = week /\ bought' = bought /\ alias' = alias /\ earlier' = earlier /\ first' = first
  BY DEF TableVars
<1>2. \A u : Total(u)' = Total(u)
  BY <1>1 DEF Total
<1>3. Joined' = Joined
  BY <1>1 DEF Joined
<1>4. Flow' = Flow
  BY <1>1, <1>2 DEF Flow
<1>5. \A u : RankOf(u)' = RankOf(u)
  BY <1>1, <1>2, <1>3 DEF RankOf
<1>6. Ranking' = Ranking
  BY <1>1, <1>2, <1>3, <1>5 DEF Ranking
<1>7. \A u, what : what # "previous" => Value(what, u)' = Value(what, u)
  BY <1>1, <1>4, <1>6 DEF Value
<1> QED  BY <1>2, <1>3, <1>4, <1>6, <1>7

\* What a call holds stands as long as nothing of the tables changes.
LEMMA GoodStays ==
  ASSUME NEW r, Good(r), UNCHANGED TableVars
  PROVE  Good(r)'
<1>1. /\ Flow' = Flow /\ Joined' = Joined /\ \A u : Total(u)' = Total(u)
      /\ \A u, what : what # "previous" => Value(what, u)' = Value(what, u)
  BY TableStays
<1>2. week' = week /\ alias' = alias /\ first' = first
  BY DEF TableVars
<1>3. r.at = "reads" => Reader(r)' /\ Uncrossed(r)'
  <2> SUFFICES ASSUME r.at = "reads" PROVE Reader(r)' /\ Uncrossed(r)'
    OBVIOUS
  <2>1. Reader(r) /\ Uncrossed(r)
    BY DEF Good
  <2>2. Reader(r)'
    BY <2>1 DEF Reader
  <2>3. Uncrossed(r)'
    BY <2>1, <1>1 DEF Uncrossed
  <2> QED  BY <2>2, <2>3
<1>4. r.at = "said" => Agrees(r)'
  <2> SUFFICES ASSUME r.at = "said" PROVE Agrees(r)'
    OBVIOUS
  <2>1. Agrees(r)
    BY DEF Good
  <2> QED  BY <2>1, <1>1, <1>2 DEF Agrees
<1>5. r.at \in {"week", "rows"} => Closer(r)'
  BY <1>2 DEF Good, Closer
<1> QED  BY <1>3, <1>4, <1>5 DEF Good

\* One call moves, and nothing of the table.
LEMMA MoveIsGood ==
  ASSUME LeaguesInv, NEW c \in Seats, NEW r, calls' = [calls EXCEPT ![c] = r], Good(r),
         UNCHANGED TableVars
  PROVE  CallsAreGood'
<1>1. DOMAIN calls' = Seats /\ calls'[c] = r /\ \A d \in Seats \ {c} : calls'[d] = calls[d]
  BY DEF LeaguesInv, CallsAreGood
<1>2. ASSUME NEW d \in Seats PROVE Good(calls[d])'
  <2>1. CASE d = c
    BY <2>1, <1>1, GoodStays
  <2>2. CASE d # c
    <3>1. PICK q : q = calls[d]
      OBVIOUS
    <3>2. Good(q)
      BY <3>1 DEF LeaguesInv, CallsAreGood
    <3>3. Good(q)' /\ calls'[d] = q
      BY <2>2, <1>1, <3>1, <3>2, GoodStays
    <3> QED  BY <3>3
  <2> QED  BY <2>1, <2>2
<1> QED  BY <1>1, <1>2 DEF CallsAreGood

-----------------------------------------------------------------------------
(* What does: the answers that were given are over, and those to come are crossed. *)

\* An answer that was given is over, and a request that reads is crossed.
LEMMA TouchedIsGood ==
  ASSUME LeaguesInv, NEW c \in Seats, calls'[c] = Touched[c],
         \A v \in Players, w \in Weeks : first[v][w] <= first'[v][w],
         first \in [Players -> [Weeks -> Nat]], first' \in [Players -> [Weeks -> Nat]]
  PROVE  Good(calls[c])'
<1>0. Good(calls[c])
  BY DEF LeaguesInv, CallsAreGood
<1>1. CASE calls[c].at = "said"
  BY <1>1, WaitingIsGood DEF Touched
<1>2. CASE calls[c].at = "reads"
  <2>1. calls'[c] = [calls[c] EXCEPT !.crossed = TRUE]
    BY <1>2 DEF Touched
  <2>2. Reader(calls[c]) /\ Uncrossed(calls[c])
    BY <1>0, <1>2 DEF Good
  <2>3. /\ calls'[c].at = "reads" /\ calls'[c].kind = calls[c].kind /\ calls'[c].u = calls[c].u
        /\ calls'[c].got = calls[c].got /\ calls'[c].crossed
        /\ DOMAIN calls'[c] = DOMAIN calls[c]
    BY <2>1, <2>2, <1>2 DEF Reader
  <2>4. Reader(calls[c])'
    BY <2>2, <2>3 DEF Reader
  <2>5. Uncrossed(calls[c])'
    BY <2>2, <2>3 DEF Uncrossed
  <2> QED  BY <2>3, <2>4, <2>5 DEF Good
<1>3. CASE calls[c].at \notin {"said", "reads"}
  <2>1. calls'[c] = calls[c]
    BY <1>3 DEF Touched
  <2>2. calls[c].at \in {"week", "rows"} => Closer(calls[c])'
    <3> SUFFICES ASSUME calls[c].at \in {"week", "rows"} PROVE Closer(calls[c])'
      OBVIOUS
    <3>1. Closer(calls[c])
      BY <1>0 DEF Good
    <3>2. ASSUME NEW v \in DOMAIN calls[c].flow PROVE calls[c].flow[v].caudal <= first'[v][calls[c].of]
      <4>1. v \in Players /\ calls[c].of \in Weeks /\ calls[c].flow[v].caudal \in Nat
            /\ calls[c].flow[v].caudal <= first[v][calls[c].of]
        BY <3>1 DEF Closer
      <4>2. first[v][calls[c].of] <= first'[v][calls[c].of]
            /\ first[v][calls[c].of] \in Nat /\ first'[v][calls[c].of] \in Nat
        BY <4>1
      <4> QED  BY <4>1, <4>2
    <3> QED  BY <2>1, <3>1, <3>2 DEF Closer
  <2> QED  BY <1>0, <1>3, <2>1, <2>2 DEF Good
<1> QED  BY <1>1, <1>2, <1>3

\* A touched call is at some place.
LEMMA TouchedPlace ==
  ASSUME LeaguesInv, calls' = Touched, NEW c \in Seats
  PROVE  calls'[c].at \in {"none", "upsert", "reads", "said", "week", "rows"}
<1>1. Good(calls[c])
  BY DEF LeaguesInv, CallsAreGood
<1>2. CASE calls[c].at = "reads"
  <2>1. calls'[c] = [calls[c] EXCEPT !.crossed = TRUE]
    BY <1>2 DEF Touched
  <2> QED  BY <1>1, <1>2, <2>1 DEF Good, Reader
<1>3. CASE calls[c].at = "said"
  BY <1>3 DEF Touched, Waiting
<1>4. CASE calls[c].at \notin {"reads", "said"}
  BY <1>1, <1>4 DEF Touched, Good
<1> QED  BY <1>2, <1>3, <1>4

\* Whatever changes the tables keeps the invariant, as nothing solved is taken back.
LEMMA TouchKeeps ==
  ASSUME LeaguesInv, calls' = Touched, LeaguesTypeOK',
         \A v \in Players, w \in Weeks : first[v][w] <= first'[v][w],
         UNCHANGED <<rows, promoted, overdue>>
  PROVE  LeaguesInv'
<1>1. DOMAIN calls' = Seats
  BY DEF Touched
<1>2. ASSUME NEW c \in Seats PROVE Good(calls[c])'
  BY TouchedIsGood DEF LeaguesInv, LeaguesTypeOK
<1>3. CallsAreGood'
  BY <1>1, <1>2 DEF CallsAreGood
<1>4. PromotionsAreKept'
  BY DEF LeaguesInv, PromotionsAreKept
<1>5. RowsAreOfTheirWeek'
  <2> SUFFICES ASSUME NEW u \in Players, NEW w \in Weeks, rows[u][w] # NoPlace, <<u, w>> \notin overdue
               PROVE  rows[u][w].caudal <= first'[u][w]
    BY DEF RowsAreOfTheirWeek
  <2>1. rows[u][w].caudal <= first[u][w] /\ first[u][w] <= first'[u][w]
    BY DEF LeaguesInv, RowsAreOfTheirWeek
  <2>2. rows[u][w] \in Places /\ first[u][w] \in Nat /\ first'[u][w] \in Nat
    BY DEF LeaguesInv, LeaguesTypeOK
  <2> QED  BY <2>1, <2>2 DEF Places
<1> QED  BY <1>3, <1>4, <1>5 DEF LeaguesInv

-----------------------------------------------------------------------------
(* The table.                                                               *)

\* Those who opted in are some of the people.
LEMMA JoinedAreFinite == IsFiniteSet(Players) /\ IsFiniteSet(Joined) /\ Joined \subseteq Players
BY LeaguesAssumption, FS_Subset DEF Joined

\* The table of the leagues is of those who opted in and have paid.
LEMMA FlowIs ==
  ASSUME LeaguesTypeOK
  PROVE  /\ DOMAIN Flow = {u \in bought : alias[u] # None}
         /\ \A u \in DOMAIN Flow : u \in Players /\ Flow[u].caudal = first[u][week] /\ Flow[u].caudal \in Nat
<1>1. DOMAIN Flow = {u \in bought : alias[u] # None}
  BY DEF Flow
<1>2. ASSUME NEW u \in DOMAIN Flow
      PROVE  u \in Players /\ Flow[u].caudal = first[u][week] /\ Flow[u].caudal \in Nat
  <2>1. u \in Players /\ u \in {v \in bought : alias[v] # None}
    BY <1>1 DEF LeaguesTypeOK
  <2>2. Flow[u] = [alias |-> alias[u], caudal |-> first[u][week], total |-> Total(u)]
    BY <2>1 DEF Flow
  <2>3. first[u][week] \in Nat
    BY <2>1 DEF LeaguesTypeOK
  <2> QED  BY <2>1, <2>2, <2>3
<1> QED  BY <1>1, <1>2

\* Who is on the table has a place on it.
LEMMA StandingIs ==
  ASSUME NEW flow, NEW u \in DOMAIN flow, DOMAIN flow \subseteq Players, flow[u].caudal \in Nat
  PROVE  /\ Standing(flow, u) \in Places /\ Standing(flow, u) # NoPlace
         /\ Standing(flow, u).caudal = flow[u].caudal
<1>1. Place(flow, u) \in Nat
  <2> DEFINE S == {v \in DOMAIN flow : \/ flow[v].caudal > flow[u].caudal
                                       \/ flow[v].caudal = flow[u].caudal /\ flow[v].alias < flow[u].alias}
  <2>1. IsFiniteSet(S)
    BY LeaguesAssumption, FS_Subset
  <2>2. Cardinality(S) \in Nat
    BY <2>1, FS_CardinalityType
  <2>3. Place(flow, u) = 1 + Cardinality(S)
    BY DEF Place
  <2> QED  BY <2>2, <2>3
<1>2. /\ Standing(flow, u).metal \in {"oro", "plata", "bronce"}
      /\ Standing(flow, u).estado \in {"salon", "activo"}
      /\ Standing(flow, u).puesto = Place(flow, u)
      /\ Standing(flow, u).caudal = flow[u].caudal
      /\ Standing(flow, u) = [metal |-> Standing(flow, u).metal, estado |-> Standing(flow, u).estado,
                              puesto |-> Standing(flow, u).puesto, caudal |-> Standing(flow, u).caudal]
  BY DEF Standing
<1>3. DOMAIN MetalOrder = {"bronce", "plata", "oro"}
  BY DEF MetalOrder
<1> QED  BY <1>1, <1>2, <1>3 DEF Places, NoPlace

\* A row of the ranking is of one person, who has its alias and its labs.
Line(u) == [alias |-> alias[u], labs |-> Total(u), place |-> RankOf(u)]

\* The ranking has a line for those it shows, numbered from one.
LEMMA RankingIs ==
  /\ Numbered(Ranking)
  /\ \A row \in Ranking : \E u \in Joined : row = Line(u)
<1>1. ASSUME NEW u PROVE RankOf(u) \in Nat \ {0}
  <2> DEFINE S == {v \in Joined : \/ Total(v) > Total(u)
                                  \/ (Total(v) = Total(u) /\ <<v, u>> \in earlier)}
  <2>1. IsFiniteSet(S)
    BY JoinedAreFinite, FS_Subset
  <2>2. Cardinality(S) \in Nat
    BY <2>1, FS_CardinalityType
  <2> QED  BY <2>2 DEF RankOf
<1>2. \A row \in Ranking : \E u \in Joined : row = Line(u)
  BY DEF Ranking, Line
<1>3. Numbered(Ranking)
  BY <1>1, <1>2 DEF Numbered, Line
<1> QED  BY <1>2, <1>3

\* The place one is given is that of a row with one's alias.
LEMMA PositionIs ==
  ASSUME NEW table, NEW mine, Numbered(table)
  PROVE  /\ Position(table, mine) > 0 =>
              mine # None /\ \E row \in table : row.place = Position(table, mine) /\ row.alias = mine
         /\ Position(table, mine) = 0 /\ mine # None => \A row \in table : row.alias # mine
<1> DEFINE own == {row.place : row \in {x \in table : mine # None /\ x.alias = mine}}
<1>1. own \subseteq Nat \ {0}
  BY DEF Numbered
<1>2. own # {} => Min(own) \in own
  BY <1>1, LeastOne
<1>3. Position(table, mine) = IF own = {} THEN 0 ELSE Min(own)
  BY DEF Position
<1>4. CASE own = {}
  <2>1. Position(table, mine) = 0
    BY <1>3, <1>4
  <2>2. \A row \in table : mine # None => row.alias # mine
    BY <1>4
  <2> QED  BY <2>1, <2>2
<1>5. CASE own # {}
  <2>1. PICK row \in table : mine # None /\ row.alias = mine /\ row.place = Min(own)
    BY <1>2, <1>5
  <2>2. Position(table, mine) = row.place /\ row.place \in Nat \ {0}
    BY <1>3, <1>5, <2>1 DEF Numbered
  <2> QED  BY <2>1, <2>2
<1> QED  BY <1>4, <1>5

\* Who is not among the lines of a table is one more than those who are.
LEMMA LinesAreFewer ==
  ASSUME NEW S \in SUBSET Joined, NEW u \in Joined, u \notin S,
         NEW table \in SUBSET {Line(v) : v \in S}
  PROVE  Cardinality(table) < Cardinality(Joined)
<1>1. IsFiniteSet(S) /\ IsFiniteSet(Joined) /\ IsFiniteSet(Joined \ {u})
  BY JoinedAreFinite, FS_Subset
<1>2. IsFiniteSet({Line(v) : v \in S}) /\ Cardinality({Line(v) : v \in S}) <= Cardinality(S)
  <2> DEFINE T == {Line(v) : v \in S}
             f == [v \in S |-> Line(v)]
  <2>1. f \in Surjection(S, T)
    BY DEF Surjection
  <2> HIDE DEF f, T
  <2>2. IsFiniteSet(T) /\ Cardinality(T) <= Cardinality(S)
    BY <1>1, <2>1, FS_Surjection
  <2> QED  BY <2>2 DEF T
<1>3. IsFiniteSet(table) /\ Cardinality(table) <= Cardinality({Line(v) : v \in S})
  BY <1>2, FS_Subset
<1>4. Cardinality(S) <= Cardinality(Joined \ {u})
  BY <1>1, FS_Subset
<1>5. Cardinality(Joined \ {u}) = Cardinality(Joined) - 1
  BY <1>1, FS_RemoveElement
<1>6. /\ Cardinality(table) \in Nat /\ Cardinality(S) \in Nat /\ Cardinality(Joined) \in Nat
      /\ Cardinality({Line(v) : v \in S}) \in Nat
  BY <1>1, <1>2, <1>3, FS_CardinalityType
<1> HIDE DEF Line
<1> QED  BY <1>2, <1>3, <1>4, <1>5, <1>6

\* What is told of the ranking, by any part of it that is shown.
LEMMA RankingTells ==
  ASSUME LeaguesTypeOK, NEW u \in Players, NEW table \in SUBSET Ranking
  PROVE  LET p == Position(table, alias[u])
         IN  /\ p > 0 => \A row \in table : row.alias = alias[u] => row.labs = Total(u)
             /\ alias[u] # None /\ p = 0 => Cardinality(table) < Cardinality(Joined)
<1>1. \A row \in table : \E v \in Joined : row = Line(v)
  BY RankingIs
<1>2. Numbered(table)
  BY RankingIs DEF Numbered
<1>3. \A v \in Joined : alias[v] = alias[u] => v = u
  BY DEF Joined, LeaguesTypeOK
<1>4. ASSUME NEW row \in table, row.alias = alias[u] PROVE row.labs = Total(u)
  BY <1>1, <1>3, <1>4 DEF Line
<1>5. ASSUME alias[u] # None, Position(table, alias[u]) = 0 PROVE Cardinality(table) < Cardinality(Joined)
  <2> DEFINE S == Joined \ {u}
  <2>1. \A row \in table : row.alias # alias[u]
    BY <1>2, <1>5, PositionIs
  <2>2. u \in Joined
    BY <1>5 DEF Joined
  <2>3. table \subseteq {Line(v) : v \in S}
    BY <1>1, <2>1 DEF Line
  <2> QED  BY <2>2, <2>3, LinesAreFewer
<1> QED  BY <1>4, <1>5

-----------------------------------------------------------------------------
(* What is told.                                                            *)

\* What each kind reads.
LEMMA PlansAre ==
  /\ DOMAIN Reading("ligas") = {"flow", "week", "previous"}
  /\ DOMAIN Reading("mi_liga") = {"me", "flow", "week", "mine"}
  /\ DOMAIN Reading("ligas_tabla") = {"flow", "week", "mine"}
  /\ DOMAIN Reading("ranking") = {"table", "mine"} /\ DOMAIN Reading("ranking_publico") = {"table", "mine"}
BY DEF Reading

\* What a request that is over was given.
Given(r, got) ==
  /\ r.kind \in Kinds /\ r.u \in Players /\ r.crossed \in BOOLEAN /\ ReadAll(r, got)
  /\ DOMAIN got \subseteq DOMAIN Reading(r.kind)
  /\ "table" \in DOMAIN got => Numbered(got.table)
  /\ ~r.crossed => \A what \in DOMAIN got \ {"previous"} : got[what] = Value(what, r.u)

\* What each read is answered with.
LEMMA ValuesAre ==
  ASSUME NEW u
  PROVE  /\ Value("flow", u) = Flow /\ Value("week", u) = week /\ Value("mine", u) = alias[u]
         /\ Value("me", u) = (u \in bought) /\ Value("table", u) = Ranking
BY DEF Value

\* GET /api/ranking and ranking_publico.
LEMMA RankingAgrees ==
  ASSUME LeaguesTypeOK, NEW r, NEW got, Given(r, got), r.kind \in {"ranking", "ranking_publico"}
  PROVE  Agrees(Tells(r, got))
<1> DEFINE t == Tells(r, got)
           x == t.answer
<1>1. /\ DOMAIN got = {"table", "mine"} /\ Numbered(got.table)
      /\ ~r.crossed => got.table = Ranking /\ got.mine = alias[r.u]
  <2>1. DOMAIN Reading(r.kind) = {"table", "mine"}
    BY PlansAre
  <2>2. DOMAIN got = {"table", "mine"}
    BY <2>1 DEF Given, ReadAll
  <2>3. ~r.crossed => got["table"] = Ranking /\ got["mine"] = alias[r.u]
    BY <2>2, ValuesAre DEF Given
  <2> QED  BY <2>2, <2>3 DEF Given
<1>2. t.kind = r.kind /\ t.u = r.u /\ t.crossed = r.crossed
  BY DEF Tells
<1>3. x.me = got.mine /\ x.place = Position(x.table, got.mine) /\ x.table \subseteq got.table
  <2>1. CASE r.kind = "ranking"
    <3>1. x = RankingPage(got)
      BY <2>1 DEF Tells
    <3> QED  BY <3>1 DEF RankingPage
  <2>2. CASE r.kind = "ranking_publico"
    <3>1. x = RankingTool(got)
      BY <2>2 DEF Tells
    <3> QED  BY <3>1 DEF RankingTool
  <2> QED  BY <2>1, <2>2
<1>4. Numbered(x.table)
  BY <1>1, <1>3 DEF Numbered
<1> HIDE DEF t
<1>5. x.place > 0 => \E row \in x.table : row.place = x.place /\ row.alias = x.me
  BY <1>3, <1>4, PositionIs
<1>6. ASSUME ~r.crossed
      PROVE  /\ x.place > 0 => /\ alias[t.u] = x.me /\ x.me # None
                               /\ \A row \in x.table : row.alias = x.me => row.labs = Total(t.u)
             /\ alias[t.u] # None /\ x.place = 0 => Cardinality(x.table) < Cardinality(Joined)
  <2>1. r.u \in Players /\ x.table \subseteq Ranking /\ got.mine = alias[r.u]
    BY <1>1, <1>3, <1>6 DEF Given
  <2>2. x.place > 0 => x.me # None
    BY <1>3, <1>4, PositionIs
  <2> QED  BY <1>2, <1>3, <2>1, <2>2, RankingTells
<1>7. t.kind \in {"ranking", "ranking_publico"}
  BY <1>2
<1>9. Agrees(t)
  BY <1>2, <1>5, <1>6, <1>7 DEF Agrees
<1> QED  BY <1>9 DEF t

\* GET /api/ligas.
LEMMA LeagueAgrees ==
  ASSUME LeaguesTypeOK, NEW r, NEW got, Given(r, got), r.kind = "ligas"
  PROVE  Agrees(Tells(r, got))
<1> DEFINE t == Tells(r, got)
           x == t.answer
<1>1. /\ {"flow", "week"} \subseteq DOMAIN got
      /\ ~r.crossed => got.flow = Flow /\ got.week = week
  <2>1. {"flow", "week"} \subseteq DOMAIN got
    BY PlansAre DEF Given, ReadAll
  <2>2. ~r.crossed => got["flow"] = Flow /\ got["week"] = week
    BY <2>1, ValuesAre DEF Given
  <2> QED  BY <2>1, <2>2
<1>2. t.kind = "ligas" /\ t.u = r.u /\ t.crossed = r.crossed /\ x = LeaguePage(got, r.u)
  BY DEF Tells
<1> HIDE DEF t
<1>3. /\ x.active = Enough(got.flow) /\ x.lunes = got.week
      /\ x.me = IF Enough(got.flow) THEN Mine(got.flow, r.u) ELSE NoPlace
  BY <1>2 DEF LeaguePage
<1>9. Agrees(t)
  BY <1>1, <1>2, <1>3 DEF Agrees
<1> QED  BY <1>9 DEF t

\* mi_liga.
LEMMA ToolAgrees ==
  ASSUME LeaguesTypeOK, NEW r, NEW got, Given(r, got), r.kind = "mi_liga"
  PROVE  Agrees(Tells(r, got))
<1> DEFINE t == Tells(r, got)
           x == t.answer
<1>1. ~r.crossed => /\ got.flow = Flow /\ got.week = week /\ got.mine = alias[r.u]
                    /\ got.me = (r.u \in bought)
  <2>1. DOMAIN got = {"me", "flow", "week", "mine"}
    BY PlansAre DEF Given, ReadAll
  <2>2. ~r.crossed => /\ got["flow"] = Flow /\ got["week"] = week /\ got["mine"] = alias[r.u]
                      /\ got["me"] = (r.u \in bought)
    BY <2>1, ValuesAre DEF Given
  <2> QED  BY <2>2
<1>2. t.kind = "mi_liga" /\ t.u = r.u /\ t.crossed = r.crossed /\ x = LeagueTool(got, r.u)
  BY DEF Tells
<1> HIDE DEF t
<1>3. /\ x.active = (x.lacks = "nothing") /\ x.lunes = got.week
      /\ x.me = IF x.lacks = "nothing" THEN Mine(got.flow, r.u) ELSE NoPlace
      /\ x.lacks = "nothing" <=> got.me /\ got.mine # None /\ Enough(got.flow)
  BY <1>2 DEF LeagueTool
<1>4. x.me # NoPlace => x.active
  BY <1>3
<1>5. ASSUME ~r.crossed
      PROVE  /\ x.lunes = week
             /\ x.me = IF Enough(Flow) THEN Mine(Flow, r.u) ELSE NoPlace
             /\ x.lacks = "nothing" <=> x.me # NoPlace
  <2>1. r.u \in DOMAIN Flow <=> r.u \in bought /\ alias[r.u] # None
    BY FlowIs
  <2>2. r.u \in DOMAIN Flow => Mine(Flow, r.u) # NoPlace
    <3>1. DOMAIN Flow \subseteq Players
      BY FlowIs
    <3> QED  BY <3>1, FlowIs, StandingIs DEF Mine
  <2>3. r.u \notin DOMAIN Flow => Mine(Flow, r.u) = NoPlace
    BY DEF Mine
  <2> QED  BY <1>1, <1>3, <1>5, <2>1, <2>2, <2>3
<1>9. Agrees(t)
  BY <1>2, <1>4, <1>5 DEF Agrees
<1> QED  BY <1>9 DEF t

\* ligas_tabla.
LEMMA TableAgrees ==
  ASSUME LeaguesTypeOK, NEW r, NEW got, Given(r, got), r.kind = "ligas_tabla"
  PROVE  Agrees(Tells(r, got))
<1> DEFINE t == Tells(r, got)
           x == t.answer
<1>1. /\ {"flow", "week"} \subseteq DOMAIN got
      /\ Enough(got.flow) => "mine" \in DOMAIN got
  BY PlansAre DEF Given, ReadAll
<1>2. ~r.crossed => /\ got.flow = Flow /\ got.week = week /\ (Enough(got.flow) => got.mine = alias[r.u])
  <2>1. ~r.crossed => /\ got["flow"] = Flow /\ got["week"] = week
                      /\ (Enough(got.flow) => got["mine"] = alias[r.u])
    BY <1>1, ValuesAre DEF Given
  <2> QED  BY <2>1
<1>3. t.kind = "ligas_tabla" /\ t.u = r.u /\ t.crossed = r.crossed /\ x = LeagueTable(got)
  BY DEF Tells
<1> HIDE DEF t
<1>4. /\ x.lunes = got.week /\ x.table = IF Enough(got.flow) THEN Listed(got.flow) ELSE {}
      /\ x.active => Enough(got.flow) /\ x.mine = got.mine
  BY <1>3 DEF LeagueTable
<1>9. Agrees(t)
  BY <1>2, <1>3, <1>4 DEF Agrees
<1> QED  BY <1>9 DEF t

\* All of them.
LEMMA AnswerAgrees ==
  ASSUME LeaguesTypeOK, NEW r, NEW got, Given(r, got)
  PROVE  Agrees(Tells(r, got))
<1>1. r.kind \in {"ligas", "mi_liga", "ligas_tabla", "ranking", "ranking_publico"}
  BY DEF Given, Kinds
<1> QED  BY <1>1, RankingAgrees, LeagueAgrees, ToolAgrees, TableAgrees

-----------------------------------------------------------------------------
(* Every step.                                                              *)

\* A lab solved counts for its week, and for the closes that hold it.
LEMMA SolvesLabKeeps ==
  ASSUME LeaguesInv, NEW u \in Players, SolvesLab(u)
  PROVE  LeaguesInv'
<1>1. /\ first' = [first EXCEPT ![u] = [first[u] EXCEPT ![week] = first[u][week] + 1]] /\ calls' = Touched
      /\ UNCHANGED <<week, bought, alias, earlier, rows, promoted, overdue, togo>>
  BY DEF SolvesLab
<1>2. first \in [Players -> [Weeks -> Nat]] /\ week \in Weeks
  BY DEF LeaguesInv, LeaguesTypeOK
<1>3. first[u][week] + 1 \in Nat /\ first[u] \in [Weeks -> Nat]
  BY <1>2
<1>4. \A v \in Players : first'[v] = IF v = u THEN [first[u] EXCEPT ![week] = first[u][week] + 1] ELSE first[v]
  BY <1>1, <1>2
<1>5. first' \in [Players -> [Weeks -> Nat]]
  BY <1>1, <1>2, <1>3
<1>6. \A v \in Players, w \in Weeks : first[v][w] <= first'[v][w]
  <2> SUFFICES ASSUME NEW v \in Players, NEW w \in Weeks PROVE first[v][w] <= first'[v][w]
    OBVIOUS
  <2>1. first[v][w] \in Nat /\ first[v] \in [Weeks -> Nat]
    BY <1>2
  <2>2. first'[v][w] = IF v = u /\ w = week THEN first[v][w] + 1 ELSE first[v][w]
    BY <1>2, <1>4, <2>1
  <2> QED  BY <2>1, <2>2
<1>7. LeaguesTypeOK'
  <2>1. (\A c \in Seats : calls[c].at \in {"none", "upsert", "reads", "said", "week", "rows"})'
    BY <1>1, TouchedPlace
  <2>2. Joined' = Joined
    BY <1>1 DEF Joined
  <2> QED  BY <1>1, <1>5, <2>1, <2>2 DEF LeaguesInv, LeaguesTypeOK
<1> QED  BY <1>1, <1>6, <1>7, TouchKeeps

\* The same for what changes no first solution.
LEMMA TouchAlone ==
  ASSUME LeaguesInv, calls' = Touched, UNCHANGED <<first, rows, promoted, overdue>>,
         week' \in Weeks, bought' \subseteq Players, togo' \in 0..MaxCalls,
         alias' \in [Players -> Aliases \cup {None}],
         \A u, v \in Players : alias'[u] = alias'[v] => u = v \/ alias'[u] = None,
         earlier' \subseteq Joined' \X Joined'
  PROVE  LeaguesInv'
<1>1. LeaguesTypeOK'
  BY TouchedPlace DEF LeaguesInv, LeaguesTypeOK
<1>2. \A v \in Players, w \in Weeks : first[v][w] <= first'[v][w]
  BY DEF LeaguesInv, LeaguesTypeOK
<1> QED  BY <1>1, <1>2, TouchKeeps

\* The entitlement events of payments.
LEMMA BuysKeeps ==
  ASSUME LeaguesInv, NEW u \in Players, Buys(u)
  PROVE  LeaguesInv'
<1>1. /\ calls' = Touched /\ UNCHANGED <<first, rows, promoted, overdue>>
      /\ week' = week /\ alias' = alias /\ earlier' = earlier
  BY DEF Buys
<1>2. Joined' = Joined
  BY <1>1 DEF Joined
<1>3. bought' \subseteq Players /\ togo' \in 0..MaxCalls
  BY LeaguesAssumption DEF Buys, LeaguesInv, LeaguesTypeOK
<1> QED  BY <1>1, <1>2, <1>3, TouchAlone DEF LeaguesInv, LeaguesTypeOK

\* The week turns.
LEMMA MondayKeeps ==
  ASSUME LeaguesInv, Monday
  PROVE  LeaguesInv'
<1>1. /\ calls' = Touched /\ UNCHANGED <<first, rows, promoted, overdue>>
      /\ bought' = bought /\ alias' = alias /\ earlier' = earlier /\ togo' = togo
  BY DEF Monday
<1>2. Joined' = Joined
  BY <1>1 DEF Joined
<1>3. week' \in Weeks
  BY LeaguesAssumption DEF Monday, LeaguesInv, LeaguesTypeOK, Weeks
<1> QED  BY <1>1, <1>2, <1>3, TouchAlone DEF LeaguesInv, LeaguesTypeOK

\* Who leaves takes their alias and their place along.
LEMMA OptOutKeeps ==
  ASSUME LeaguesInv, NEW u \in Players, OptOut(u)
  PROVE  LeaguesInv'
<1>1. /\ calls' = Touched /\ UNCHANGED <<first, rows, promoted, overdue>>
      /\ week' = week /\ bought' = bought
      /\ alias' = [alias EXCEPT ![u] = None] /\ earlier' = {p \in earlier : u \notin {p[1], p[2]}}
  BY DEF OptOut
<1>2. togo' \in 0..MaxCalls
  BY LeaguesAssumption DEF OptOut, LeaguesInv, LeaguesTypeOK
<1>3. \A v \in Players : alias'[v] = IF v = u THEN None ELSE alias[v]
  BY <1>1 DEF LeaguesInv, LeaguesTypeOK
<1>4. alias' \in [Players -> Aliases \cup {None}]
  BY <1>1 DEF LeaguesInv, LeaguesTypeOK
<1>5. \A v, w \in Players : alias'[v] = alias'[w] => v = w \/ alias'[v] = None
  BY <1>3 DEF LeaguesInv, LeaguesTypeOK
<1>6. Joined' = Joined \ {u}
  BY <1>3 DEF Joined
<1>7. earlier' \subseteq Joined' \X Joined'
  BY <1>1, <1>6 DEF LeaguesInv, LeaguesTypeOK
<1> QED  BY <1>1, <1>2, <1>4, <1>5, <1>7, TouchAlone DEF LeaguesInv, LeaguesTypeOK

\* The index refuses an alias that was taken meanwhile.
LEMMA EntersKeeps ==
  ASSUME LeaguesInv, NEW c \in Seats, Enters(c)
  PROVE  LeaguesInv'
<1> DEFINE u == calls[c].u
           x == calls[c].alias
           taken == \E v \in Players \ {u} : alias[v] = x
<1>1. u \in Players /\ x \in Aliases /\ x # None /\ calls[c].at = "upsert"
  BY LeaguesAssumption DEF Enters, LeaguesInv, CallsAreGood, Good, None
<1>2. /\ alias' = IF taken THEN alias ELSE [alias EXCEPT ![u] = x]
      /\ earlier' = IF taken \/ alias[u] # None THEN earlier ELSE earlier \cup (Joined \X {u})
      /\ calls' = [Touched EXCEPT ![c] = Waiting]
      /\ UNCHANGED <<week, bought, first, rows, promoted, overdue, togo>>
  BY DEF Enters
<1> HIDE DEF u, x
<1>3. alias' \in [Players -> Aliases \cup {None}]
  BY <1>1, <1>2 DEF LeaguesInv, LeaguesTypeOK
<1>4. \A v \in Players : alias'[v] = IF v = u /\ ~taken THEN x ELSE alias[v]
  BY <1>1, <1>2 DEF LeaguesInv, LeaguesTypeOK
<1>5. \A v, w \in Players : alias'[v] = alias'[w] => v = w \/ alias'[v] = None
  BY <1>1, <1>4 DEF LeaguesInv, LeaguesTypeOK
<1>6. Joined' = IF taken THEN Joined ELSE Joined \cup {u}
  BY <1>1, <1>4 DEF Joined
<1>7. earlier' \subseteq Joined' \X Joined'
  BY <1>2, <1>6 DEF LeaguesInv, LeaguesTypeOK
<1>8. DOMAIN calls' = Seats /\ \A d \in Seats : calls'[d] = IF d = c THEN Waiting ELSE Touched[d]
  BY <1>2 DEF Touched
<1>9. ASSUME NEW d \in Seats PROVE Good(calls[d])'
  <2>1. CASE d = c
    BY <2>1, <1>8, WaitingIsGood
  <2>2. CASE d # c
    <3>1. calls'[d] = Touched[d]
      BY <1>8, <2>2
    <3>2. \A v \in Players, w \in Weeks : first[v][w] <= first'[v][w]
      BY <1>2 DEF LeaguesInv, LeaguesTypeOK
    <3>3. first \in [Players -> [Weeks -> Nat]] /\ first' \in [Players -> [Weeks -> Nat]]
      BY <1>2 DEF LeaguesInv, LeaguesTypeOK
    <3> QED  BY <3>1, <3>2, <3>3, TouchedIsGood
  <2> QED  BY <2>1, <2>2
<1>10. CallsAreGood'
  BY <1>8, <1>9 DEF CallsAreGood
<1>11. LeaguesTypeOK'
  <2>1. (\A d \in Seats : calls[d].at \in {"none", "upsert", "reads", "said", "week", "rows"})'
    BY <1>9 DEF Good
  <2> QED  BY <1>2, <1>3, <1>5, <1>7, <2>1 DEF LeaguesInv, LeaguesTypeOK
<1>12. PromotionsAreKept' /\ RowsAreOfTheirWeek'
  BY <1>2 DEF LeaguesInv, PromotionsAreKept, RowsAreOfTheirWeek
<1> QED  BY <1>10, <1>11, <1>12 DEF LeaguesInv

\* A call that moves on, and touches nothing else but the count of those to come.
LEMMA MoveKeeps ==
  ASSUME LeaguesInv, NEW c \in Seats, NEW r, calls' = [calls EXCEPT ![c] = r], Good(r),
         UNCHANGED <<week, bought, alias, earlier, first, rows, overdue>>, togo' \in 0..MaxCalls,
         PromotionsAreKept'
  PROVE  LeaguesInv'
<1>1. CallsAreGood'
  BY MoveIsGood DEF TableVars
<1>2. (\A d \in Seats : calls[d].at \in {"none", "upsert", "reads", "said", "week", "rows"})'
  BY <1>1 DEF CallsAreGood, Good
<1>3. Joined' = Joined
  BY DEF Joined
<1>4. LeaguesTypeOK'
  BY <1>2, <1>3 DEF LeaguesInv, LeaguesTypeOK
<1>5. RowsAreOfTheirWeek'
  BY DEF LeaguesInv, RowsAreOfTheirWeek
<1> QED  BY <1>1, <1>4, <1>5 DEF LeaguesInv

\* The same for one that shows no promotion.
LEMMA MovesAlone ==
  ASSUME LeaguesInv, NEW c \in Seats, NEW r, calls' = [calls EXCEPT ![c] = r], Good(r),
         UNCHANGED <<week, bought, alias, earlier, first, rows, overdue, promoted>>,
         togo' = togo \/ (togo > 0 /\ togo' = togo - 1)
  PROVE  LeaguesInv'
<1>1. PromotionsAreKept'
  BY DEF LeaguesInv, PromotionsAreKept
<1>2. togo' \in 0..MaxCalls
  BY LeaguesAssumption DEF LeaguesInv, LeaguesTypeOK
<1> QED  BY <1>1, <1>2, MoveKeeps

\* The alias asked for.
LEMMA OptInKeeps ==
  ASSUME LeaguesInv, NEW c \in Seats, NEW u \in Players, NEW x \in Aliases, OptIn(c, u, x)
  PROVE  LeaguesInv'
<1>1. PICK r : r = [at |-> "upsert", u |-> u, alias |-> x]
  OBVIOUS
<1>2. Good(r)
  BY <1>1 DEF Good
<1>3. /\ calls' = [calls EXCEPT ![c] = r] /\ togo > 0 /\ togo' = togo - 1
      /\ UNCHANGED <<week, bought, alias, earlier, first, rows, overdue, promoted>>
  BY <1>1 DEF OptIn, Starts
<1> QED  BY <1>2, <1>3, MovesAlone

\* Nothing has been read yet.
LEMMA AsksKeeps ==
  ASSUME LeaguesInv, NEW c \in Seats, NEW u \in Players, NEW kind \in Kinds, Asks(c, u, kind)
  PROVE  LeaguesInv'
<1>1. PICK r : r = [at |-> "reads", kind |-> kind, u |-> u, got |-> <<>>, crossed |-> FALSE]
  OBVIOUS
<1>2. DOMAIN r.got = {}
  BY <1>1
<1>3. Good(r)
  BY <1>1, <1>2 DEF Good, Reader, Uncrossed
<1>4. /\ calls' = [calls EXCEPT ![c] = r] /\ togo > 0 /\ togo' = togo - 1
      /\ UNCHANGED <<week, bought, alias, earlier, first, rows, overdue, promoted>>
  BY <1>1 DEF Asks, Starts
<1> QED  BY <1>3, <1>4, MovesAlone

\* A close starts with what the week has.
LEMMA ClosesKeeps ==
  ASSUME LeaguesInv, NEW c \in Seats, Closes(c)
  PROVE  LeaguesInv'
<1>1. PICK r : r = [at |-> "week", flow |-> Flow, of |-> week]
  OBVIOUS
<1>2. r.at = "week" /\ r.flow = Flow /\ r.of = week
  BY <1>1
<1>3. Closer(r)
  <2>1. LeaguesTypeOK /\ week \in Weeks
    BY DEF LeaguesInv, LeaguesTypeOK
  <2>2. \A v \in DOMAIN Flow : v \in Players /\ Flow[v].caudal \in Nat /\ Flow[v].caudal <= first[v][week]
    BY <2>1, FlowIs
  <2> HIDE DEF Flow
  <2> QED  BY <1>2, <2>1, <2>2 DEF Closer
<1>4. Good(r)
  BY <1>2, <1>3 DEF Good
<1>5. /\ calls' = [calls EXCEPT ![c] = r] /\ togo > 0 /\ togo' = togo - 1
      /\ UNCHANGED <<week, bought, alias, earlier, first, rows, overdue, promoted>>
  BY <1>1 DEF Closes, Starts
<1> QED  BY <1>4, <1>5, MovesAlone

\* It then learns which week its rows are of.
LEMMA ReadsWeekKeeps ==
  ASSUME LeaguesInv, NEW c \in Seats, ReadsWeek(c)
  PROVE  LeaguesInv'
<1> DEFINE q == calls[c]
<1>1. PICK r : r = [at |-> "rows", flow |-> q.flow, of |-> q.of, todo |-> DOMAIN q.flow, lunes |-> week]
  OBVIOUS
<1>2. Closer(q)
  BY DEF ReadsWeek, LeaguesInv, CallsAreGood, Good
<1>3. r.at = "rows" /\ r.flow = q.flow /\ r.of = q.of /\ r.todo = DOMAIN q.flow /\ r.lunes = week
  BY <1>1
<1>4. Closer(r)
  BY <1>2, <1>3 DEF Closer, LeaguesInv, LeaguesTypeOK
<1>5. Good(r)
  BY <1>3, <1>4 DEF Good
<1>6. /\ calls' = [calls EXCEPT ![c] = r] /\ togo' = togo
      /\ UNCHANGED <<week, bought, alias, earlier, first, rows, overdue, promoted>>
  BY <1>1 DEF ReadsWeek, LeaguesInv, CallsAreGood
<1> QED  BY <1>5, <1>6, MovesAlone

\* What it recorded stays.
LEMMA CloseDiesKeeps ==
  ASSUME LeaguesInv, NEW c \in Seats, CloseDies(c)
  PROVE  LeaguesInv'
<1>1. /\ calls' = [calls EXCEPT ![c] = Waiting] /\ togo' = togo
      /\ UNCHANGED <<week, bought, alias, earlier, first, rows, overdue, promoted>>
  BY DEF CloseDies
<1>2. Good(Waiting)
  BY WaitingIsGood
<1> HIDE DEF Waiting
<1> QED  BY <1>1, <1>2, MovesAlone

\* What was given so far, and one thing more.
LEMMA ReadsOneKeeps ==
  ASSUME LeaguesInv, NEW c \in Seats, NEW what, ReadsOne(c, what)
  PROVE  LeaguesInv'
<1> DEFINE q == calls[c]
           more == [x \in DOMAIN q.got \cup {what} |-> IF x = what THEN Value(what, q.u) ELSE q.got[x]]
<1>0. /\ UNCHANGED <<week, bought, alias, earlier, first, rows, overdue, togo>>
      /\ q.at = "reads" /\ what \in DOMAIN Reading(q.kind)
      /\ calls' = [calls EXCEPT ![c] = IF ReadAll(q, more) THEN Tells(q, more) ELSE [q EXCEPT !.got = more]]
      /\ promoted' = promoted \cup (IF what = "previous" THEN Promotions(more, q.u) ELSE {})
  BY DEF ReadsOne
<1>1. Reader(q) /\ Uncrossed(q)
  BY <1>0 DEF LeaguesInv, CallsAreGood, Good
<1>2. PICK got : got = more
  OBVIOUS
<1>3. /\ DOMAIN got = DOMAIN q.got \cup {what} /\ got[what] = Value(what, q.u)
      /\ \A x \in DOMAIN q.got \ {what} : got[x] = q.got[x]
  BY <1>2
<1>4. /\ calls' = [calls EXCEPT ![c] = IF ReadAll(q, got) THEN Tells(q, got) ELSE [q EXCEPT !.got = got]]
      /\ promoted' = promoted \cup (IF what = "previous" THEN Promotions(got, q.u) ELSE {})
  BY <1>0, <1>2
<1> HIDE DEF more
<1>5. DOMAIN got \subseteq DOMAIN Reading(q.kind) /\ q.kind \in Kinds /\ q.u \in Players /\ q.crossed \in BOOLEAN
  BY <1>0, <1>1, <1>3 DEF Reader
<1>6. "table" \in DOMAIN got => Numbered(got["table"])
  <2>1. CASE what = "table"
    BY <1>3, <2>1, ValuesAre, RankingIs
  <2>2. CASE what # "table"
    BY <1>1, <1>3, <2>2 DEF Uncrossed
  <2> QED  BY <2>1, <2>2
<1>7. ~q.crossed => \A x \in DOMAIN got \ {"previous"} : got[x] = Value(x, q.u)
  BY <1>1, <1>3 DEF Uncrossed
<1>8. PromotionsAreKept'
  <2>1. CASE what # "previous"
    <3>1. promoted' = promoted
      BY <1>4, <2>1
    <3> QED  BY <1>0, <3>1 DEF LeaguesInv, PromotionsAreKept
  <2>2. CASE what = "previous"
    <3>1. got.previous = Previous(q.u)
      BY <1>3, <2>2 DEF Value
    <3>2. ASSUME NEW p \in Promotions(got, q.u)
          PROVE  /\ p.u \in Players /\ p.week \in Weeks /\ rows[p.u][p.week] # NoPlace
                 /\ p.week < p.on /\ MetalOrder[p.to] > MetalOrder[p.from]
                 /\ rows[p.u][p.week].metal = p.from
      <4> DEFINE to == LeaguePage(got, q.u).me.metal
      <4>1. PICK w \in Previous(q.u) :
                /\ MetalOrder[to] > MetalOrder[rows[q.u][w].metal]
                /\ p = [u |-> q.u, from |-> rows[q.u][w].metal, to |-> to, week |-> w, on |-> week]
        BY <3>1 DEF Promotions
      <4> HIDE DEF to
      <4>2. w \in Weeks /\ w < week /\ rows[q.u][w] # NoPlace
        BY DEF Previous
      <4> QED  BY <1>5, <4>1, <4>2
    <3>3. promoted' = promoted \cup Promotions(got, q.u) /\ rows' = rows
      BY <1>0, <1>4, <2>2
    <3> QED  BY <3>2, <3>3 DEF LeaguesInv, PromotionsAreKept
  <2> QED  BY <2>1, <2>2
<1>9. togo' \in 0..MaxCalls
  BY <1>0 DEF LeaguesInv, LeaguesTypeOK
<1>10. CASE ReadAll(q, got)
  <2>1. Given(q, got)
    BY <1>5, <1>6, <1>7, <1>10 DEF Given
  <2>2. PICK qq : qq = q
    OBVIOUS
  <2>3. PICK r : r = Tells(qq, got)
    OBVIOUS
  <2>4. Agrees(r)
    BY <2>1, <2>2, <2>3, AnswerAgrees DEF LeaguesInv
  <2>5. r.at = "said"
    BY <2>3 DEF Tells
  <2>6. Good(r)
    BY <2>4, <2>5 DEF Good
  <2>7. calls' = [calls EXCEPT ![c] = r]
    BY <1>4, <1>10, <2>2, <2>3
  <2> QED  BY <1>0, <1>8, <1>9, <2>6, <2>7, MoveKeeps
<1>11. CASE ~ReadAll(q, got)
  <2>1. PICK r : r = [q EXCEPT !.got = got]
    OBVIOUS
  <2>2. /\ r.at = "reads" /\ r.kind = q.kind /\ r.u = q.u /\ r.crossed = q.crossed /\ r.got = got
        /\ DOMAIN r = {"at", "kind", "u", "got", "crossed"}
    BY <1>0, <1>1, <2>1 DEF Reader
  <2>3. Reader(r)
    BY <1>5, <2>2 DEF Reader
  <2>4. Uncrossed(r)
    BY <1>6, <1>7, <2>2 DEF Uncrossed
  <2>5. Good(r)
    BY <2>2, <2>3, <2>4 DEF Good
  <2>6. calls' = [calls EXCEPT ![c] = r]
    BY <1>4, <1>11, <2>1
  <2> QED  BY <1>0, <1>8, <1>9, <2>5, <2>6, MoveKeeps
<1> QED  BY <1>10, <1>11

\* A row that is there stays; one that is written is of the week, or of a close that is late.
LEMMA RecordsRowKeeps ==
  ASSUME LeaguesInv, NEW c \in Seats, RecordsRow(c)
  PROVE  LeaguesInv'
<1> DEFINE q == calls[c]
<1>1. PICK u \in q.todo :
        /\ rows' = [rows EXCEPT ![u] = [rows[u] EXCEPT ![q.lunes] =
                                          Recorded(rows[u][q.lunes], Standing(q.flow, u))]]
        /\ overdue' = IF q.of # q.lunes /\ rows[u][q.lunes] = NoPlace
                      THEN overdue \cup {<<u, q.lunes>>} ELSE overdue
        /\ calls' = [calls EXCEPT ![c] = IF q.todo = {u} THEN Waiting ELSE [q EXCEPT !.todo = q.todo \ {u}]]
  BY DEF RecordsRow, LeaguesInv, CallsAreGood
<1>2. q.at = "rows" /\ UNCHANGED <<week, bought, alias, earlier, first, promoted, togo>>
  BY DEF RecordsRow
<1>3. Closer(q)
  BY <1>2 DEF LeaguesInv, CallsAreGood, Good
<1>4. u \in DOMAIN q.flow /\ u \in Players /\ q.lunes \in Weeks /\ DOMAIN q.flow \subseteq Players
      /\ q.flow[u].caudal \in Nat /\ q.flow[u].caudal <= first[u][q.of]
  BY <1>2, <1>3 DEF Closer
<1>5. PICK new : new = Standing(q.flow, u)
  OBVIOUS
<1>6. new \in Places /\ new # NoPlace /\ new.caudal <= first[u][q.of]
  BY <1>4, <1>5, StandingIs
<1>7. rows \in [Players -> [Weeks -> Places]]
  BY DEF LeaguesInv, LeaguesTypeOK
<1>8. \A v \in Players, w \in Weeks :
        rows'[v][w] = IF v = u /\ w = q.lunes /\ rows[v][w] = NoPlace THEN new ELSE rows[v][w]
  BY <1>1, <1>4, <1>5, <1>7 DEF Recorded
<1>9. rows' \in [Players -> [Weeks -> Places]]
  <2>1. Recorded(rows[u][q.lunes], Standing(q.flow, u)) \in Places
    BY <1>4, <1>5, <1>6, <1>7 DEF Recorded
  <2> QED  BY <1>1, <1>4, <1>7, <2>1
<1>10. overdue' \subseteq Players \X Weeks /\ overdue \subseteq overdue'
  BY <1>1, <1>4 DEF LeaguesInv, LeaguesTypeOK
<1>11. PromotionsAreKept'
  BY <1>2, <1>8 DEF LeaguesInv, PromotionsAreKept
<1>12. RowsAreOfTheirWeek'
  <2> SUFFICES ASSUME NEW v \in Players, NEW w \in Weeks, rows'[v][w] # NoPlace, <<v, w>> \notin overdue'
               PROVE  rows'[v][w].caudal <= first[v][w]
    BY <1>2 DEF RowsAreOfTheirWeek
  <2>1. CASE rows[v][w] # NoPlace
    BY <1>8, <1>10, <2>1 DEF LeaguesInv, RowsAreOfTheirWeek
  <2>2. CASE rows[v][w] = NoPlace
    <3>1. v = u /\ w = q.lunes /\ rows'[v][w] = new
      BY <1>8, <2>2
    <3>2. q.of = q.lunes
      BY <1>1, <2>2, <3>1
    <3> QED  BY <1>6, <3>1, <3>2
  <2> QED  BY <2>1, <2>2
<1>13. PICK r : r = IF q.todo = {u} THEN Waiting ELSE [q EXCEPT !.todo = q.todo \ {u}]
  OBVIOUS
<1>14. Good(r)
  <2>1. CASE q.todo = {u}
    BY <1>13, <2>1, WaitingIsGood
  <2>2. CASE q.todo # {u}
    <3>1. r = [q EXCEPT !.todo = q.todo \ {u}]
      BY <1>13, <2>2
    <3>2. r.at = "rows" /\ r.flow = q.flow /\ r.of = q.of /\ r.lunes = q.lunes /\ r.todo \subseteq q.todo
      BY <1>2, <3>1
    <3>3. Closer(r)
      BY <1>2, <1>3, <3>2 DEF Closer
    <3> QED  BY <3>2, <3>3 DEF Good
  <2> QED  BY <2>1, <2>2
<1>15. CallsAreGood'
  <2>1. calls' = [calls EXCEPT ![c] = r]
    BY <1>1, <1>13
  <2> QED  BY <1>2, <1>14, <2>1, MoveIsGood DEF TableVars
<1>16. LeaguesTypeOK'
  <2>1. (\A d \in Seats : calls[d].at \in {"none", "upsert", "reads", "said", "week", "rows"})'
    BY <1>15 DEF CallsAreGood, Good
  <2>2. Joined' = Joined
    BY <1>2 DEF Joined
  <2> QED  BY <1>2, <1>9, <1>10, <2>1, <2>2 DEF LeaguesInv, LeaguesTypeOK
<1> QED  BY <1>11, <1>12, <1>15, <1>16 DEF LeaguesInv

\* Every step.
LEMMA LeaguesKeeps ==
  ASSUME LeaguesInv, [LeaguesNext]_leagueVars
  PROVE  LeaguesInv'
<1>1. CASE UNCHANGED leagueVars
  <2>1. UNCHANGED TableVars /\ calls' = calls /\ UNCHANGED <<rows, promoted, overdue, togo>>
    BY <1>1 DEF leagueVars, TableVars
  <2>2. Joined' = Joined
    BY <1>1 DEF leagueVars, Joined
  <2>3. LeaguesTypeOK'
    BY <1>1, <2>2 DEF leagueVars, LeaguesInv, LeaguesTypeOK
  <2>4. ASSUME NEW d \in Seats PROVE Good(calls[d])'
    <3>1. PICK q : q = calls[d]
      OBVIOUS
    <3>2. Good(q)
      BY <3>1 DEF LeaguesInv, CallsAreGood
    <3>3. Good(q)' /\ calls'[d] = q
      BY <2>1, <3>1, <3>2, GoodStays
    <3> QED  BY <3>3
  <2>5. CallsAreGood'
    BY <2>1, <2>4 DEF LeaguesInv, CallsAreGood
  <2>6. PromotionsAreKept' /\ RowsAreOfTheirWeek'
    BY <1>1 DEF leagueVars, LeaguesInv, PromotionsAreKept, RowsAreOfTheirWeek
  <2> QED  BY <2>3, <2>5, <2>6 DEF LeaguesInv
<1>2. CASE Monday
  BY <1>2, MondayKeeps
<1>3. ASSUME NEW u \in Players, SolvesLab(u) PROVE LeaguesInv'
  BY <1>3, SolvesLabKeeps
<1>4. ASSUME NEW u \in Players, Buys(u) PROVE LeaguesInv'
  BY <1>4, BuysKeeps
<1>5. ASSUME NEW u \in Players, OptOut(u) PROVE LeaguesInv'
  BY <1>5, OptOutKeeps
<1>6. ASSUME NEW c \in Seats, NEW u \in Players, NEW kind \in Kinds, Asks(c, u, kind) PROVE LeaguesInv'
  BY <1>6, AsksKeeps
<1>7. ASSUME NEW c \in Seats, NEW u \in Players, NEW x \in Aliases, OptIn(c, u, x) PROVE LeaguesInv'
  BY <1>7, OptInKeeps
<1>8. ASSUME NEW c \in Seats, NEW what, ReadsOne(c, what) PROVE LeaguesInv'
  BY <1>8, ReadsOneKeeps
<1>9. ASSUME NEW c \in Seats, Enters(c) PROVE LeaguesInv'
  BY <1>9, EntersKeeps
<1>10. ASSUME NEW c \in Seats, Closes(c) PROVE LeaguesInv'
  BY <1>10, ClosesKeeps
<1>11. ASSUME NEW c \in Seats, ReadsWeek(c) PROVE LeaguesInv'
  BY <1>11, ReadsWeekKeeps
<1>12. ASSUME NEW c \in Seats, RecordsRow(c) PROVE LeaguesInv'
  BY <1>12, RecordsRowKeeps
<1>13. ASSUME NEW c \in Seats, CloseDies(c) PROVE LeaguesInv'
  BY <1>13, CloseDiesKeeps
<1> QED
  BY <1>1, <1>2, <1>3, <1>4, <1>5, <1>6, <1>7, <1>8, <1>9, <1>10, <1>11, <1>12, <1>13 DEF LeaguesNext

\* Every call holds what the tables were, or knows that something crossed it.
THEOREM LeaguesHold == LeaguesSpec => []LeaguesInv
<1>1. LeaguesInit => LeaguesInv
  BY LeaguesStarts
<1>2. LeaguesInv /\ [LeaguesNext]_leagueVars => LeaguesInv'
  BY LeaguesKeeps
<1> QED  BY <1>1, <1>2, PTL DEF LeaguesSpec

\* What is shown of the leagues and of the ranking agrees, a promotion that was shown
\* stands, and a row is of its week (closeWeek, leaguesState and the tools of the agent).
THEOREM LeaguesAgree == LeaguesSpec => []LeaguesTell
<1>1. LeaguesInv => LeaguesTell
  BY DEF LeaguesInv, LeaguesTell, PromotionsStand, PromotionsAreKept, AnswersAgree, CallsAreGood, Good
<1> QED  BY <1>1, LeaguesHold, PTL
=============================================================================

---------------------------- MODULE GradingProofs ----------------------------
(***************************************************************************)
(* Theorems about Grading, in every scenario of MCGrading and for any      *)
(* number of students, calls, sub-items, scores and requests: the pages    *)
(* agree on who is graded, no edit loses a score unseen, and a decided     *)
(* request stays decided.                                                  *)
(***************************************************************************)
EXTENDS MCGrading, FiniteSetTheorems, SequenceTheorems, WellFoundedInduction, TLAPS

-----------------------------------------------------------------------------
(* The inductive invariant.  An id of the sub-items' sequence is never      *)
(* given twice: whatever names a sub-item, a live row, a score, a call in  *)
(* flight or a plan of repair, names one below nextItem.                   *)

\* A number the sub-items' sequence has given, or NULL.
Given(i, next) == i \in Nat /\ i < next

ItemsSound ==
    /\ items \in Seq(ItemIds) /\ IsInjective(items)
    /\ nextItem \in Nat \ {0}
    /\ \A n \in DOMAIN items : items[n] < nextItem

ScoreFields == {"student", "item", "mark", "at"}
RowSound(x, next) == DOMAIN x = ScoreFields /\ Given(x.item, next)

ScoresSound ==
    /\ DOMAIN scores = ScoreIds
    /\ \A k \in ScoreIds : scores[k] = NoRow \/ RowSound(scores[k], nextItem)

Cells == [student : Students, item : Nat]

\* A grade in flight, an edit, and a plan of repair: what it maps stays detached.
CellsSound(cells, next) ==
    cells \in Seq(Cells) /\ cells # << >> /\ \A n \in 1 .. Len(cells) : Given(cells[n].item, next)
GradeSound(x, next) == "cells" \in DOMAIN x /\ CellsSound(x.cells, next)
PlanSound(x, next, live) ==
    \A i \in DOMAIN x.remaps : Given(i, next) /\ i \notin live /\ Given(x.remaps[i], next)

CallSound(x, next, live) ==
    /\ "kind" \in DOMAIN x
    /\ x.kind \in {"submit", "group", "bulk"} => GradeSound(x, next)
    /\ x.kind = "update" /\ x.step # "sync" => x.payload \in Payloads \cup {Unset}
    /\ x.kind = "update" /\ x.step = "sync" => x.payload \in Payloads /\ (x.confirm \/ x.counted = {})
    /\ x.kind = "repair" => PlanSound(x, next, live)

CallsSound == DOMAIN call = Calls /\ \A c \in Calls : CallSound(call[c], nextItem, Live)

IdsSound == ItemsSound /\ ScoresSound /\ CallsSound

\* What two calls hold at once is in raced; and what one call alone holds to
\* decide or to cancel is still pending.
Deciding(x) == IF x.kind \in {"cancel", "review"} THEN Held(x) ELSE {}

RequestsSound ==
    /\ DOMAIN requests = RequestIds
    /\ \A c, d \in Calls : c # d => Held(call[c]) \cap Held(call[d]) \subseteq raced
    /\ \A c \in Calls, r \in RequestIds :
          << "request", r >> \in Deciding(call[c])
          => requests[r].status = "pending" \/ << "request", r >> \in raced

-----------------------------------------------------------------------------
(* Sequences, numbers and sets.                                             *)

\* SetToSeq lists a finite set without repetition.
LEMMA Listing ==
  ASSUME NEW S, IsFiniteSet(S)
  PROVE  /\ Cardinality(S) \in Nat
         /\ SetToSeq(S) \in [1 .. Cardinality(S) -> S] /\ IsInjective(SetToSeq(S))
         /\ SetToSeq(S) \in Seq(S) /\ Len(SetToSeq(S)) = Cardinality(S)
<1>1. Cardinality(S) \in Nat /\ ExistsBijection(1 .. Cardinality(S), S)
  BY FS_CardinalityType
<1>2. PICK f \in [1 .. Cardinality(S) -> S] : IsInjective(f)
  BY <1>1 DEF ExistsBijection, Bijection, Injection
<1>3. SetToSeq(S) \in [1 .. Cardinality(S) -> S] /\ IsInjective(SetToSeq(S))
  BY <1>2 DEF SetToSeq
<1>4. SetToSeq(S) \in Seq(S) /\ Len(SetToSeq(S)) = Cardinality(S)
  BY <1>1, <1>3
<1> QED BY <1>1, <1>3, <1>4

\* Numbers have a least one.
LEMMA LeastNumber ==
  ASSUME NEW T, T \subseteq Nat, T # {}
  PROVE  \E x \in T : \A y \in T : x <= y
<1>1. PICK R : R = OpToRel(<, Nat)
  OBVIOUS
<1>2. IsWellFoundedOn(R, Nat)
  BY <1>1, NatLessThanWellFounded
<1>3. \A x, y \in Nat : y < x => << y, x >> \in R
  BY <1>1 DEF OpToRel
<1>4. PICK x \in T : \A y \in T : ~ (<< y, x >> \in R)
  BY <1>2, WFMin
<1>5. ASSUME NEW y \in T PROVE x <= y
  <2>1. x \in Nat /\ y \in Nat /\ ~ (y < x)
    BY <1>3, <1>4
  <2> QED BY <2>1
<1> QED BY <1>5

LEMMA MinIsIn ==
  ASSUME NEW T, T \subseteq Nat, T # {}
  PROVE  Min(T) \in T /\ \A y \in T : Min(T) <= y
<1>1. \E x \in T : \A y \in T : x <= y
  BY LeastNumber
<1> QED BY <1>1 DEF Min

\* As many live sub-items as there are places in the list.
LEMMA LiveCount ==
  ASSUME ItemsSound
  PROVE  IsFiniteSet(Live) /\ Cardinality(Live) = Len(items)
<1>1. items \in [1 .. Len(items) -> Live] /\ Len(items) \in Nat
  BY DEF ItemsSound, Live, ToSet
<1>2. items \in Bijection(1 .. Len(items), Live)
  BY <1>1 DEF ItemsSound, Live, ToSet, Bijection, Injection, Surjection
<1>3. ExistsBijection(1 .. Len(items), Live)
  BY <1>2 DEF ExistsBijection
<1> QED BY <1>1, <1>3, FS_CountingElements, FS_NatBijection

LEMMA LiveIsGiven ==
  ASSUME ItemsSound
  PROVE  \A i \in Live : i \in ItemIds /\ Given(i, nextItem) /\ i # Main
BY GradingAssumption DEF ItemsSound, Live, ToSet, Given, ItemIds, Main

-----------------------------------------------------------------------------
(* The list of sub-items an edit leaves (SyncAssignmentSubItems).          *)

\* Each new sub-item takes an id of its own, after those before it.
LEMMA FreshIds ==
  ASSUME NEW payload \in Seq(Nat)
  PROVE  /\ \A n \in 1 .. Len(payload) + 1 : FreshBefore(payload, n) \in Nat
         /\ \A n \in 1 .. Len(payload), p \in 1 .. Len(payload) + 1 :
               n < p /\ ~ IsKept(payload, n) => FreshBefore(payload, n) < FreshBefore(payload, p)
<1> DEFINE New(n) == {m \in 1 .. n - 1 : ~ IsKept(payload, m)}
<1>0. Len(payload) \in Nat
  OBVIOUS
<1>1. ASSUME NEW n \in 1 .. Len(payload) + 1
      PROVE  IsFiniteSet(New(n)) /\ Cardinality(New(n)) \in Nat
  <2>1. n \in Nat \ {0} /\ New(n) \in SUBSET (1 .. n - 1)
    BY <1>0
  <2>2. IsFiniteSet(1 .. n - 1)
    BY <2>1, FS_Interval
  <2> HIDE DEF New
  <2> QED BY <2>1, <2>2, FS_Subset, FS_CardinalityType
<1>2. ASSUME NEW n \in 1 .. Len(payload), NEW p \in 1 .. Len(payload) + 1,
             n < p, ~ IsKept(payload, n)
      PROVE  Cardinality(New(n)) < Cardinality(New(p))
  <2>1. n \in 1 .. Len(payload) + 1 /\ New(n) \cup {n} \in SUBSET New(p) /\ n \notin New(n)
    BY <1>0, <1>2
  <2> HIDE DEF New
  <2>4. /\ IsFiniteSet(New(n)) /\ Cardinality(New(n)) \in Nat
        /\ IsFiniteSet(New(p)) /\ Cardinality(New(p)) \in Nat
    BY <1>1, <2>1
  <2>2. Cardinality(New(n) \cup {n}) = Cardinality(New(n)) + 1
    BY <2>4, <2>1, FS_AddElement
  <2>3. Cardinality(New(n) \cup {n}) <= Cardinality(New(p))
    BY <2>4, <2>1, FS_Subset
  <2> QED BY <2>2, <2>3, <2>4
<1> QED BY <1>1, <1>2 DEF FreshBefore

\* A kept id keeps a place: the first the payload gives it.
LEMMA KeptStays ==
  ASSUME NEW payload \in Seq(Nat), NEW i \in Kept(payload)
  PROVE  \E n \in 1 .. Len(payload) : IsKept(payload, n) /\ payload[n] = i
<1> DEFINE Places == {n \in 1 .. Len(payload) : payload[n] = i}
<1>1. Places \subseteq Nat /\ Places # {}
  BY DEF Kept, ToSet
<1>2. PICK n \in Places : \A m \in Places : n <= m
  BY <1>1, LeastNumber
<1>3. \A m \in 1 .. n - 1 : payload[m] # payload[n]
  BY <1>2
<1> QED BY <1>2, <1>3 DEF IsKept

\* After an edit the list is sound again, keeps what was kept, and everything
\* else in it is new.
LEMMA SyncIsSound ==
  ASSUME ItemsSound, NEW payload \in Payloads, NEW left, SyncAssignmentSubItems(payload, left)
  PROVE  /\ ItemsSound' /\ nextItem <= nextItem'
         /\ Kept(payload) \subseteq Live'
         /\ \A i \in Live' : i \in Kept(payload) \/ i >= nextItem
<1> DEFINE last == Len(payload) + 1
<1>1. payload \in Seq(Nat) /\ DOMAIN payload = 1 .. Len(payload) /\ Len(payload) \in Nat
  BY GradingAssumption
<1>2. /\ \A n \in 1 .. last : FreshBefore(payload, n) \in Nat
      /\ \A n \in 1 .. Len(payload), p \in 1 .. last :
            n < p /\ ~ IsKept(payload, n) => FreshBefore(payload, n) < FreshBefore(payload, p)
  BY <1>1, FreshIds
<1>3. items' = SyncedItems(payload) /\ nextItem' = nextItem + FreshBefore(payload, last)
      /\ nextItem' <= MaxItems + 1
  BY DEF SyncAssignmentSubItems, RoomFor
<1>4. nextItem \in Nat \ {0} /\ nextItem' \in Nat \ {0} /\ nextItem <= nextItem'
  BY <1>1, <1>2, <1>3 DEF ItemsSound
<1>5. ASSUME NEW n \in 1 .. Len(payload)
      PROVE  /\ IsKept(payload, n) => items'[n] = payload[n] /\ items'[n] \in Kept(payload)
             /\ ~ IsKept(payload, n) => /\ items'[n] = nextItem + FreshBefore(payload, n)
                                        /\ items'[n] < nextItem' /\ items'[n] >= nextItem
  <2>1. items'[n] = IF IsKept(payload, n) THEN payload[n] ELSE nextItem + FreshBefore(payload, n)
    BY <1>1, <1>3 DEF SyncedItems
  <2>2. n \in 1 .. last /\ last \in 1 .. last /\ n < last
    BY <1>1
  <2>3. IsKept(payload, n) => items'[n] = payload[n] /\ items'[n] \in Kept(payload)
    BY <2>1 DEF IsKept
  <2>4. ASSUME ~ IsKept(payload, n)
        PROVE  /\ items'[n] = nextItem + FreshBefore(payload, n)
               /\ items'[n] < nextItem' /\ items'[n] >= nextItem
    <3>1. /\ FreshBefore(payload, n) \in Nat /\ FreshBefore(payload, last) \in Nat
          /\ FreshBefore(payload, n) < FreshBefore(payload, last)
      BY <1>2, <2>2, <2>4
    <3> HIDE DEF last
    <3> QED BY <1>3, <1>4, <2>1, <2>4, <3>1
  <2> QED BY <2>3, <2>4
<1>6. \A i \in Kept(payload) : i \in ItemIds /\ i < nextItem
  BY LiveIsGiven DEF Kept, Given
<1>7. ASSUME NEW n \in 1 .. Len(payload) PROVE items'[n] \in ItemIds /\ items'[n] < nextItem'
  <2>1. CASE IsKept(payload, n)
    BY <1>4, <1>5, <1>6, <2>1 DEF ItemIds
  <2>2. CASE ~ IsKept(payload, n)
    <3>1. items'[n] \in Nat /\ items'[n] < nextItem' /\ items'[n] >= nextItem
      BY <1>2, <1>4, <1>5, <2>2
    <3> QED BY <1>3, <1>4, <3>1, GradingAssumption DEF ItemIds
  <2> QED BY <2>1, <2>2
<1>8. items' \in Seq(ItemIds) /\ DOMAIN items' = 1 .. Len(payload)
  <2>1. DOMAIN items' = 1 .. Len(payload)
    BY <1>1, <1>3 DEF SyncedItems
  <2>2. items' = [n \in 1 .. Len(payload) |-> items'[n]]
    BY <1>1, <1>3 DEF SyncedItems
  <2>3. items' \in [1 .. Len(payload) -> ItemIds]
    BY <1>7, <2>2
  <2> QED BY <1>1, <2>1, <2>3
<1>9. ASSUME NEW n \in 1 .. Len(payload), NEW p \in 1 .. Len(payload), n < p
      PROVE  items'[n] # items'[p]
  <2>1. CASE IsKept(payload, n) /\ IsKept(payload, p)
    <3>1. n \in 1 .. p - 1
      BY <1>9
    <3> QED BY <1>5, <2>1, <3>1 DEF IsKept
  <2>2. CASE ~ (IsKept(payload, n) <=> IsKept(payload, p))
    <3>1. \A q \in 1 .. Len(payload) :
             /\ IsKept(payload, q) => items'[q] < nextItem
             /\ ~ IsKept(payload, q) => items'[q] >= nextItem
      BY <1>5, <1>6
    <3>2. items'[n] \in Nat /\ items'[p] \in Nat
      BY <1>7 DEF ItemIds
    <3> QED BY <1>4, <2>2, <3>1, <3>2
  <2>3. CASE ~ IsKept(payload, n) /\ ~ IsKept(payload, p)
    <3>1. p \in 1 .. last /\ n \in 1 .. last
      BY <1>1
    <3>2. FreshBefore(payload, n) < FreshBefore(payload, p)
          /\ FreshBefore(payload, n) \in Nat /\ FreshBefore(payload, p) \in Nat
      BY <1>2, <1>9, <2>3, <3>1
    <3> QED BY <1>4, <1>5, <2>3, <3>2
  <2> QED BY <2>1, <2>2, <2>3
<1>10. IsInjective(items')
  <2>1. ASSUME NEW n \in DOMAIN items', NEW p \in DOMAIN items', n # p
        PROVE  items'[n] # items'[p]
    <3>1. n \in 1 .. Len(payload) /\ p \in 1 .. Len(payload) /\ (n < p \/ p < n)
      BY <1>1, <1>8, <2>1
    <3> QED BY <1>9, <3>1
  <2> QED BY <2>1 DEF IsInjective
<1>11. Kept(payload) \subseteq Live'
  BY <1>1, <1>5, <1>8, KeptStays DEF Live, ToSet
<1>12. \A i \in Live' : i \in Kept(payload) \/ i >= nextItem
  BY <1>5, <1>8 DEF Live, ToSet
<1> QED BY <1>4, <1>7, <1>8, <1>10, <1>11, <1>12 DEF ItemsSound

-----------------------------------------------------------------------------
(* What a step does to the rows and to the calls.                           *)

LEMMA RowIsNotNoRow ==
  ASSUME NEW x, NEW n, RowSound(x, n)
  PROVE  x # NoRow
<1>1. "item" \in DOMAIN x
  BY DEF RowSound, ScoreFields
<1>2. DOMAIN NoRow = {"student"}
  BY DEF NoRow
<1> QED BY <1>1, <1>2

LEMMA GivenLater ==
  ASSUME NEW n \in Nat, NEW p \in Nat, n <= p, NEW i, Given(i, n)
  PROVE  Given(i, p)
BY DEF Given

LEMMA CallStaysSound ==
  ASSUME NEW x, NEW n \in Nat, NEW p \in Nat, n <= p, NEW L, NEW M,
         \A i \in M : i \in L \/ i >= n, CallSound(x, n, L)
  PROVE  CallSound(x, p, M)
<1>1. GradeSound(x, n) => GradeSound(x, p)
  BY GivenLater DEF GradeSound, CellsSound
<1>2. PlanSound(x, n, L) => PlanSound(x, p, M)
  <2>1. ASSUME PlanSound(x, n, L), NEW i \in DOMAIN x.remaps
        PROVE  Given(i, p) /\ i \notin M /\ Given(x.remaps[i], p)
    <3>1. Given(i, n) /\ i \notin L /\ Given(x.remaps[i], n)
      BY <2>1 DEF PlanSound
    <3>2. i \notin M
      BY <3>1 DEF Given
    <3> QED BY <3>1, <3>2, GivenLater
  <2> QED BY <2>1 DEF PlanSound
<1> QED BY <1>1, <1>2 DEF CallSound

\* A call takes a step, and the ids that are given stay given.
LEMMA CallsStaySound ==
  ASSUME CallsSound, nextItem \in Nat, nextItem' \in Nat, nextItem <= nextItem',
         \A i \in Live' : i \in Live \/ i >= nextItem,
         NEW c \in Calls, NEW x, Set(c, x), CallSound(x, nextItem', Live')
  PROVE  CallsSound'
<1>1. DOMAIN call' = Calls /\ \A d \in Calls : call'[d] = IF d = c THEN x ELSE call[d]
  BY DEF Set, CallsSound
<1>2. \A d \in Calls : CallSound(call[d], nextItem', Live')
  BY CallStaysSound DEF CallsSound
<1>3. \A d \in Calls : CallSound(call'[d], nextItem', Live')
  BY <1>1, <1>2
<1> QED BY <1>1, <1>3 DEF CallsSound

\* Steps that leave the sub-items alone.
LEMMA SameItems ==
  ASSUME IdsSound, ScoresSound', NEW c \in Calls, NEW x, Set(c, x), UNCHANGED << items, nextItem >>,
         CallSound(x, nextItem, Live)
  PROVE  IdsSound'
<1>1. nextItem \in Nat /\ nextItem' \in Nat /\ nextItem <= nextItem' /\ Live' = Live
  BY DEF IdsSound, ItemsSound, Live, ToSet
<1>2. CallsSound'
  BY <1>1, CallsStaySound DEF IdsSound
<1>3. ItemsSound'
  BY DEF IdsSound, ItemsSound
<1> QED BY <1>2, <1>3 DEF IdsSound

NothingLost == items' = items /\ Rows(scores) \subseteq Rows(scores')

\* Steps that leave the scores alone as well.
LEMMA SameGrades ==
  ASSUME IdsSound, NEW c \in Calls, NEW x, Set(c, x), UNCHANGED << items, nextItem, scores >>,
         CallSound(x, nextItem, Live)
  PROVE  IdsSound' /\ NothingLost
<1>1. ScoresSound' /\ NothingLost
  BY DEF IdsSound, ScoresSound, NothingLost
<1> QED BY <1>1, SameItems

LEMMA IdleIsSound ==
  ASSUME NEW n, NEW L
  PROVE  CallSound(Idle, n, L)
BY DEF CallSound, Idle

-----------------------------------------------------------------------------
(* What a plan of repair maps.                                              *)

\* Numbers below a bound have a greatest one.
LEMMA MaxIsIn ==
  ASSUME NEW T, NEW n \in Nat, \A x \in T : x \in Nat /\ x < n, T # {}
  PROVE  Max(T) \in T /\ \A y \in T : Max(T) >= y
<1> DEFINE gaps == {n - x : x \in T}
<1>1. gaps \subseteq Nat /\ gaps # {}
  OBVIOUS
<1>2. PICK g \in gaps : \A h \in gaps : g <= h
  BY <1>1, LeastNumber
<1>3. PICK x \in T : g = n - x
  BY <1>2
<1>4. ASSUME NEW y \in T PROVE x >= y
  <2>1. n - x <= n - y
    BY <1>2, <1>3
  <2> QED BY <2>1
<1> QED BY <1>4 DEF Max

\* The items of detached scores are gone for good.
LEMMA OrphansAreGiven ==
  ASSUME ItemsSound, ScoresSound
  PROVE  \A i \in OrphanIds : Given(i, nextItem) /\ i \notin Live
<1>1. ASSUME NEW k \in Orphans(scores, Live)
      PROVE  Given(scores[k].item, nextItem) /\ scores[k].item \notin Live
  BY DEF ScoresSound, Orphans, Rows, RowSound
<1> QED BY <1>1 DEF OrphanIds

\* A run is an interval; what is just outside of it is no detached item.
LEMMA RunIsInterval ==
  ASSUME ItemsSound, ScoresSound, NEW g \in Generations
  PROVE  /\ g \subseteq OrphanIds /\ g = Min(g) .. Max(g)
         /\ Min(g) \in Nat /\ Max(g) \in Nat /\ Min(g) <= Max(g)
         /\ Min(g) - 1 \notin OrphanIds /\ Max(g) + 1 \notin OrphanIds
<1>1. /\ g \subseteq OrphanIds /\ g = Min(g) .. Max(g) /\ g # {}
      /\ Min(g) - 1 \notin OrphanIds /\ Max(g) + 1 \notin OrphanIds
  BY DEF Generations
<1>2. \A x \in g : x \in Nat /\ x < nextItem
  BY <1>1, OrphansAreGiven DEF Given
<1>3. Min(g) \in g /\ Min(g) \in Nat
  BY <1>1, <1>2, MinIsIn
<1>4. Max(g) \in g /\ \A y \in g : Max(g) >= y
  BY <1>1, <1>2, MaxIsIn DEF ItemsSound
<1> QED BY <1>1, <1>2, <1>3, <1>4

LEMMA RunsAreDisjoint ==
  ASSUME ItemsSound, ScoresSound, NEW g \in Generations, NEW h \in Generations,
         NEW k \in g, k \in h
  PROVE  Min(g) = Min(h)
<1>1. ASSUME NEW a \in Generations, NEW b \in Generations, k \in a, k \in b
      PROVE  ~ (Min(a) < Min(b))
  <2>1. /\ a \subseteq OrphanIds /\ a = Min(a) .. Max(a) /\ Min(a) \in Nat /\ Max(a) \in Nat
        /\ b = Min(b) .. Max(b) /\ Min(b) \in Nat /\ Max(b) \in Nat /\ Min(b) - 1 \notin OrphanIds
    BY RunIsInterval
  <2>2. SUFFICES ASSUME Min(a) < Min(b) PROVE Min(b) - 1 \in a
    BY <2>1
  <2>3. Min(b) - 1 \in Min(a) .. Max(a)
    BY <1>1, <2>1, <2>2
  <2> QED BY <2>1, <2>3
<1>2. Min(g) \in Nat /\ Min(h) \in Nat
  BY RunIsInterval
<1> QED BY <1>1, <1>2

LEMMA PlanIsSound ==
  ASSUME ItemsSound, ScoresSound, NEW x, x.remaps = Remaps
  PROVE  PlanSound(x, nextItem, Live)
<1> SUFFICES ASSUME NEW i \in DOMAIN Remaps
             PROVE  Given(i, nextItem) /\ i \notin Live /\ Given(Remaps[i], nextItem)
  BY DEF PlanSound
<1>1. PICK run \in Generations : Cardinality(run) = Len(items) /\ i \in run
  BY DEF Remaps
<1>2. /\ run \subseteq OrphanIds /\ run = Min(run) .. Max(run)
      /\ Min(run) \in Nat /\ Max(run) \in Nat /\ Min(run) <= Max(run)
  BY RunIsInterval
<1>3. Given(i, nextItem) /\ i \notin Live
  BY <1>1, <1>2, OrphansAreGiven
<1> DEFINE found == CHOOSE g \in Generations : i \in g
<1>4. found \in Generations /\ i \in found
  BY <1>1
<1>5. Remaps[i] = items[i - Min(found) + 1]
  BY DEF Remaps
<1> HIDE DEF found
<1>6. Min(found) = Min(run)
  BY <1>1, <1>4, RunsAreDisjoint
<1>7. Len(items) = Max(run) - Min(run) + 1
  <2>1. Cardinality(Min(run) .. Max(run)) = Max(run) - Min(run) + 1
    BY <1>2, FS_Interval
  <2> QED BY <1>1, <1>2, <2>1
<1>8. i - Min(run) + 1 \in 1 .. Len(items)
  BY <1>1, <1>2, <1>7
<1>9. items[i - Min(run) + 1] \in Nat /\ items[i - Min(run) + 1] < nextItem
  <2>1. i - Min(run) + 1 \in DOMAIN items
    BY <1>8 DEF ItemsSound
  <2> QED BY <2>1, GradingAssumption DEF ItemsSound, ItemIds
<1> QED BY <1>3, <1>5, <1>6, <1>9 DEF Given

-----------------------------------------------------------------------------
(* Calls that start.                                                        *)

LEMMA CellsOfIsSound ==
  ASSUME ItemsSound, NEW who \in SUBSET Students, who # {}, NEW item \in {Main} \cup Live
  PROVE  CellsSound(CellsOf(who, item), nextItem)
<1>1. IsFiniteSet(who)
  BY GradingAssumption, FS_Subset
<1>2. /\ Cardinality(who) \in Nat \ {0} /\ SetToSeq(who) \in [1 .. Cardinality(who) -> who]
  BY <1>1, Listing, FS_EmptySet
<1>3. item \in Nat /\ Given(item, nextItem)
  BY LiveIsGiven DEF ItemsSound, Given, Main
<1>4. CellsOf(who, item) = [n \in 1 .. Cardinality(who) |->
                               [student |-> SetToSeq(who)[n], item |-> item]]
  BY <1>2 DEF CellsOf
<1>5. CellsOf(who, item) \in [1 .. Cardinality(who) -> Cells]
  BY <1>2, <1>3, <1>4 DEF Cells
<1>6. /\ CellsOf(who, item) \in Seq(Cells) /\ Len(CellsOf(who, item)) = Cardinality(who)
      /\ CellsOf(who, item) # << >>
  BY <1>2, <1>5
<1>7. \A n \in 1 .. Cardinality(who) : CellsOf(who, item)[n].item = item
  BY <1>4
<1> QED BY <1>3, <1>6, <1>7 DEF CellsSound

LEMMA StartIsSound ==
  ASSUME IdsSound, NEW c \in Calls, Starting(c)
  PROVE  IdsSound' /\ NothingLost
<1>0. ItemsSound /\ ScoresSound
  BY DEF IdsSound
<1>1. CASE SubmitScoreHandler(c)
  <2>1. PICK cell \in CellsToGrade, mark \in Marks :
           Set(c, [kind |-> "submit", step |-> "look", cells |-> << cell >>, mark |-> mark])
    BY <1>1 DEF SubmitScoreHandler
  <2>2. cell \in Cells /\ Given(cell.item, nextItem)
    BY <1>0, LiveIsGiven DEF CellsToGrade, Cells, ItemsSound, Given, Main
  <2>3. CellsSound(<< cell >>, nextItem)
    BY <2>2 DEF CellsSound
  <2>4. CallSound([kind |-> "submit", step |-> "look", cells |-> << cell >>, mark |-> mark],
                  nextItem, Live)
    BY <2>3 DEF CallSound, GradeSound
  <2> QED BY <1>1, <2>1, <2>4, SameGrades DEF SubmitScoreHandler
<1>2. CASE SubmitGroupScoreHandler(c)
  <2>1. PICK targets \in SUBSET Students, item \in {Main} \cup Live, mark \in Marks :
           /\ {s \in targets : CanScore(s)} # {}
           /\ Set(c, [kind |-> "group", step |-> "look", mark |-> mark,
                      cells |-> CellsOf({s \in targets : CanScore(s)}, item)])
    BY <1>2 DEF SubmitGroupScoreHandler
  <2>2. CellsSound(CellsOf({s \in targets : CanScore(s)}, item), nextItem)
    BY <1>0, <2>1, CellsOfIsSound
  <2>3. CallSound([kind |-> "group", step |-> "look", mark |-> mark,
                   cells |-> CellsOf({s \in targets : CanScore(s)}, item)], nextItem, Live)
    BY <2>2 DEF CallSound, GradeSound
  <2> QED BY <1>2, <2>1, <2>3, SameGrades DEF SubmitGroupScoreHandler
<1>3. CASE BulkSubmitScoresHandler(c)
  <2>1. PICK who \in (SUBSET Students) \ {{}}, item \in {Main} \cup Live, mark \in Marks :
           Set(c, [kind |-> "bulk", mark |-> mark, cells |-> CellsOf(who, item)])
    BY <1>3 DEF BulkSubmitScoresHandler
  <2>2. CellsSound(CellsOf(who, item), nextItem)
    BY <1>0, <2>1, CellsOfIsSound
  <2>3. CallSound([kind |-> "bulk", mark |-> mark, cells |-> CellsOf(who, item)], nextItem, Live)
    BY <2>2 DEF CallSound, GradeSound
  <2> QED BY <1>3, <2>1, <2>3, SameGrades DEF BulkSubmitScoresHandler
<1>4. CASE UpdateAssignmentHandler(c)
  <2>1. PICK patch \in Patches, payload \in Payloads \cup {Unset}, confirm \in BOOLEAN,
             link \in (SUBSET Sessions) \cup {Unset} :
           Set(c, [kind |-> "update", step |-> "save", row |-> Patched(row, patch),
                   wasDraft |-> row.draft, payload |-> payload, confirm |-> confirm, links |-> link])
    BY <1>4 DEF UpdateAssignmentHandler
  <2>2. CallSound([kind |-> "update", step |-> "save", row |-> Patched(row, patch),
                   wasDraft |-> row.draft, payload |-> payload, confirm |-> confirm,
                   links |-> link], nextItem, Live)
    BY DEF CallSound
  <2> QED BY <1>4, <2>1, <2>2, SameGrades DEF UpdateAssignmentHandler
<1>5. CASE LinkAttendanceSessionsHandler(c)
  <2>1. PICK link \in SUBSET Sessions :
           Set(c, [kind |-> "link", step |-> "unlink", links |-> link, tell |-> FALSE])
    BY <1>5 DEF LinkAttendanceSessionsHandler
  <2>2. CallSound([kind |-> "link", step |-> "unlink", links |-> link, tell |-> FALSE], nextItem, Live)
    BY DEF CallSound
  <2> QED BY <1>5, <2>1, <2>2, SameGrades DEF LinkAttendanceSessionsHandler
<1>6. CASE CreateScoreEditRequest(c)
  <2>1. \E edits : AskForEdit(c, edits)
    BY <1>6 DEF CreateScoreEditRequest, CreateSingle, CreateBatch, CreateBatchDetailed
  <2>2. PICK asked : Set(c, [kind |-> "ask", edits |-> asked])
    BY <2>1 DEF AskForEdit
  <2>3. CallSound([kind |-> "ask", edits |-> asked], nextItem, Live)
    BY DEF CallSound
  <2> QED BY <1>6, <2>2, <2>3, SameGrades DEF CreateScoreEditRequest, GradesUnchanged, RowUnchanged
<1>7. CASE CancelScoreEditRequest(c)
  <2>1. PICK r \in RequestIds : Set(c, [kind |-> "cancel", ids |-> {r}])
    BY <1>7 DEF CancelScoreEditRequest
  <2>2. CallSound([kind |-> "cancel", ids |-> {r}], nextItem, Live)
    BY DEF CallSound
  <2> QED BY <1>7, <2>1, <2>2, SameGrades DEF CancelScoreEditRequest, GradesUnchanged, RowUnchanged
<1>8. CASE ReviewScoreEditRequests(c)
  <2>1. \E ids, verdict : StartReview(c, ids, verdict)
    BY <1>8 DEF ReviewScoreEditRequests, ApproveRequest, RejectRequest, BatchApprove, BatchReject
  <2>2. PICK verdict, read : Set(c, [kind |-> "review", verdict |-> verdict, read |-> read])
    BY <2>1 DEF StartReview
  <2>3. CallSound([kind |-> "review", verdict |-> verdict, read |-> read], nextItem, Live)
    BY DEF CallSound
  <2> QED BY <1>8, <2>2, <2>3, SameGrades DEF ReviewScoreEditRequests, GradesUnchanged, RowUnchanged
<1>9. CASE ReviewEditRequestHandler(c)
  <2>1. PICK r, verdict, read, step :
           Set(c, [kind |-> "rereview", id |-> r, verdict |-> verdict, read |-> read, step |-> step])
    BY <1>9 DEF ReviewEditRequestHandler
  <2>2. CallSound([kind |-> "rereview", id |-> r, verdict |-> verdict, read |-> read,
                   step |-> step], nextItem, Live)
    BY DEF CallSound
  <2> QED BY <1>9, <2>1, <2>2, SameGrades DEF ReviewEditRequestHandler, GradesUnchanged, RowUnchanged
<1>10. CASE PlanRepair(c)
  <2> DEFINE x == [kind |-> "repair", remaps |-> Remaps, live |-> Live]
  <2>1. Set(c, x)
    BY <1>10 DEF PlanRepair
  <2>2. x.kind = "repair" /\ "kind" \in DOMAIN x /\ x.remaps = Remaps
    OBVIOUS
  <2> HIDE DEF x
  <2>3. CallSound(x, nextItem, Live)
    BY <1>0, <2>2, PlanIsSound DEF CallSound
  <2> QED BY <1>10, <2>1, <2>3, SameGrades DEF PlanRepair, GradesUnchanged, RowUnchanged
<1> QED BY <1>1, <1>2, <1>3, <1>4, <1>5, <1>6, <1>7, <1>8, <1>9, <1>10 DEF Starting

-----------------------------------------------------------------------------
(* Calls that write.                                                        *)

LEMMA GradedIsSound ==
  ASSUME NEW cell, NEW mark, NEW n, Given(cell.item, n)
  PROVE  RowSound(Graded(cell, mark), n) /\ Graded(cell, mark) # NoRow
<1>1. RowSound(Graded(cell, mark), n)
  BY DEF RowSound, Graded, ScoreFields
<1> QED BY <1>1, RowIsNotNoRow

\* Writing some rows over, without touching the others.
LEMMA RowsWritten ==
  ASSUME ScoresSound, nextItem' = nextItem, items' = items, DOMAIN scores' = ScoreIds,
         \A k \in ScoreIds : \/ scores'[k] = scores[k]
                            \/ RowSound(scores'[k], nextItem)
  PROVE  ScoresSound' /\ NothingLost
<1>1. ScoresSound'
  BY DEF ScoresSound
<1>2. \A k \in ScoreIds : scores'[k] = NoRow => scores[k] = NoRow
  BY RowIsNotNoRow
<1> QED BY <1>1, <1>2 DEF NothingLost, Rows

LEMMA LookUpIsSound ==
  ASSUME IdsSound, NEW c \in Calls, LookUpScore(c)
  PROVE  IdsSound' /\ NothingLost
<1>1. PICK k, b : Set(c, [kind |-> call[c].kind, step |-> "write", mark |-> call[c].mark,
                          cells |-> call[c].cells, found |-> k, isNew |-> b])
  BY DEF LookUpScore
<1>2. call[c].kind \in {"submit", "group"} /\ GradeSound(call[c], nextItem)
  BY DEF LookUpScore, IdsSound, CallsSound, CallSound
<1>3. CallSound([kind |-> call[c].kind, step |-> "write", mark |-> call[c].mark,
                 cells |-> call[c].cells, found |-> k, isNew |-> b], nextItem, Live)
  BY <1>2 DEF CallSound, GradeSound
<1> QED BY <1>1, <1>3, SameGrades DEF LookUpScore

LEMMA WriteIsSound ==
  ASSUME IdsSound, NEW c \in Calls, WriteScore(c)
  PROVE  IdsSound' /\ NothingLost
<1> DEFINE cells == call[c].cells
           k == IF call[c].isNew THEN nextScore ELSE call[c].found
           x == [kind |-> "group", step |-> "look", cells |-> Tail(cells), mark |-> call[c].mark]
<1>1. CellsSound(cells, nextItem)
  BY DEF WriteScore, IdsSound, CallsSound, CallSound, GradeSound
<1>2. cells \in Seq(Cells) /\ Len(cells) \in Nat \ {0} /\ Head(cells) = cells[1]
      /\ Given(Head(cells).item, nextItem)
  BY <1>1 DEF CellsSound
<1>3. Tail(cells) # << >> => CellsSound(Tail(cells), nextItem)
  <2>1. /\ Tail(cells) \in Seq(Cells) /\ Len(Tail(cells)) = Len(cells) - 1
        /\ \A n \in 1 .. Len(Tail(cells)) : Tail(cells)[n] = cells[n + 1]
    BY <1>2
  <2>2. \A n \in 1 .. Len(Tail(cells)) : n + 1 \in 1 .. Len(cells)
    BY <1>2, <2>1
  <2>3. \A n \in 1 .. Len(cells) : Given(cells[n].item, nextItem)
    BY <1>1 DEF CellsSound
  <2> HIDE DEF cells
  <2> QED BY <2>1, <2>2, <2>3 DEF CellsSound
<1>4. /\ k \in ScoreIds /\ UNCHANGED << items, nextItem >>
      /\ \/ scores' = [scores EXCEPT ![k] = Graded(Head(cells), call[c].mark)]
         \/ scores' = scores
      /\ Set(c, Idle) \/ (Tail(cells) # << >> /\ Set(c, x))
  <2>1. /\ k \in ScoreIds /\ UNCHANGED << items, nextItem >>
        /\ IF Fits(scores, k, Head(cells))
           THEN /\ scores' = [scores EXCEPT ![k] = Graded(Head(cells), call[c].mark)]
                /\ IF Tail(cells) = << >> THEN Done(c) ELSE Set(c, x)
           ELSE Done(c) /\ GradesUnchanged
    BY DEF WriteScore
  <2> HIDE DEF k, x, cells
  <2> QED BY <2>1 DEF Done, GradesUnchanged
<1>5. RowSound(Graded(Head(cells), call[c].mark), nextItem)
  BY <1>2, GradedIsSound
<1> HIDE DEF k, cells
<1>6. ScoresSound' /\ NothingLost
  BY <1>4, <1>5, RowsWritten DEF IdsSound, ScoresSound
<1>7. CASE Set(c, Idle)
  BY <1>4, <1>6, <1>7, SameItems, IdleIsSound
<1>8. CASE Tail(cells) # << >> /\ Set(c, x)
  <2>1. CallSound(x, nextItem, Live)
    BY <1>3, <1>8 DEF CallSound, GradeSound
  <2> HIDE DEF x
  <2> QED BY <1>4, <1>6, <1>8, <2>1, SameItems
<1> QED BY <1>4, <1>7, <1>8

LEMMA BulkIsSound ==
  ASSUME IdsSound, NEW c \in Calls, BulkUpsertScores(c)
  PROVE  IdsSound' /\ NothingLost
<1> DEFINE cells == call[c].cells
           into(k) == {n \in DOMAIN cells : RowOfCell(cells, n) = k}
<1>1. CellsSound(cells, nextItem)
  BY DEF BulkUpsertScores, IdsSound, CallsSound, CallSound, GradeSound
<1>2. \A n \in DOMAIN cells : Given(cells[n].item, nextItem)
  BY <1>1 DEF CellsSound
<1>3. /\ scores' = [k \in ScoreIds |-> IF into(k) = {} THEN scores[k]
                      ELSE Graded(cells[CHOOSE n \in into(k) : TRUE], call[c].mark)]
      /\ UNCHANGED << items, nextItem >> /\ Set(c, Idle)
  BY DEF BulkUpsertScores, Done
<1>4. ASSUME NEW k \in ScoreIds
      PROVE  scores'[k] = scores[k] \/ RowSound(scores'[k], nextItem)
  <2>1. CASE into(k) = {}
    BY <1>3, <2>1
  <2>2. CASE into(k) # {}
    <3>1. (CHOOSE n \in into(k) : TRUE) \in DOMAIN cells
      BY <2>2
    <3>2. scores'[k] = Graded(cells[CHOOSE n \in into(k) : TRUE], call[c].mark)
      BY <1>3, <2>2
    <3> HIDE DEF into, cells
    <3> QED BY <1>2, <3>1, <3>2, GradedIsSound
  <2> QED BY <2>1, <2>2
<1>5. ScoresSound' /\ NothingLost
  BY <1>3, <1>4, RowsWritten DEF IdsSound
<1> QED BY <1>3, <1>5, SameItems, IdleIsSound

LEMMA LinkIsSound ==
  ASSUME IdsSound, NEW c \in Calls, Unlink(c) \/ Relink(c) \/ TellCourse(c)
  PROVE  IdsSound' /\ NothingLost
<1>1. /\ call[c].kind = "link" /\ "kind" \in DOMAIN call[c]
  BY DEF Unlink, Relink, TellCourse, IdsSound, CallsSound, CallSound
<1>2. /\ UNCHANGED << items, nextItem, scores >>
      /\ Set(c, Idle) \/ \E s : Set(c, [call[c] EXCEPT !.step = s])
  BY DEF Unlink, Relink, TellCourse, Done
<1>3. ASSUME NEW s PROVE CallSound([call[c] EXCEPT !.step = s], nextItem, Live)
  BY <1>1 DEF CallSound
<1> QED BY <1>2, <1>3, SameGrades, IdleIsSound

\* Deciding writes over marks; it takes no row away.
LEMMA ApplyKeepsRows ==
  ASSUME IdsSound, NEW read, scores' = Apply(scores, read), items' = items, nextItem' = nextItem
  PROVE  ScoresSound' /\ NothingLost
<1>1. ASSUME NEW k \in ScoreIds
      PROVE  scores'[k] = scores[k] \/ RowSound(scores'[k], nextItem)
  <2>1. \/ scores'[k] = scores[k]
        \/ scores[k] # NoRow /\ \E m, t : scores'[k] = [scores[k] EXCEPT !.mark = m, !.at = t]
    BY DEF Apply
  <2>2. CASE scores[k] # NoRow /\ \E m, t : scores'[k] = [scores[k] EXCEPT !.mark = m, !.at = t]
    <3>1. RowSound(scores[k], nextItem)
      BY <2>2 DEF IdsSound, ScoresSound
    <3> QED BY <2>2, <3>1 DEF RowSound, ScoreFields
  <2> QED BY <2>1, <2>2
<1>2. DOMAIN scores' = ScoreIds
  BY DEF Apply
<1> QED BY <1>1, <1>2, RowsWritten DEF IdsSound

LEMMA ReviewIsSound ==
  ASSUME IdsSound, NEW c \in Calls,
         InsertRequests(c) \/ DeleteRequest(c) \/ DecideRequests(c) \/ ApplyReviewed(c) \/ SaveReviewed(c)
  PROVE  IdsSound' /\ NothingLost
<1>1. CASE InsertRequests(c) \/ DeleteRequest(c) \/ SaveReviewed(c)
  BY <1>1, SameGrades, IdleIsSound
     DEF InsertRequests, DeleteRequest, SaveReviewed, Done, GradesUnchanged, RowUnchanged
<1>2. CASE DecideRequests(c)
  <2>1. /\ items' = items /\ nextItem' = nextItem /\ Set(c, Idle)
        /\ scores' = scores \/ scores' = Apply(scores, call[c].read)
    BY <1>2 DEF DecideRequests, Done, RowUnchanged
  <2>2. ScoresSound' /\ NothingLost
    BY <2>1, ApplyKeepsRows DEF IdsSound, ScoresSound, NothingLost
  <2> QED BY <2>1, <2>2, SameItems, IdleIsSound
<1>3. CASE ApplyReviewed(c)
  <2>1. /\ items' = items /\ nextItem' = nextItem /\ call[c].kind = "rereview"
        /\ scores' = Apply(scores, [r \in {call[c].id} |-> call[c].read])
        /\ Set(c, [call[c] EXCEPT !.step = "save"])
    BY <1>3 DEF ApplyReviewed, RowUnchanged
  <2>2. ScoresSound' /\ NothingLost
    BY <2>1, ApplyKeepsRows
  <2>3. CallSound([call[c] EXCEPT !.step = "save"], nextItem, Live)
    BY <2>1 DEF CallSound, IdsSound, CallsSound
  <2> QED BY <2>1, <2>2, <2>3, SameItems
<1> QED BY <1>1, <1>2, <1>3

\* What ScoresSurviveEdits says of one step.
ScoresSurvive ==
    /\ items' # items => \E c \in Calls :
          /\ call[c] # call'[c] /\ InTransaction(c)
          /\ Orphans(scores', ToSet(items')) \subseteq Orphans(scores, Live) \cup Late(c)
    /\ \A k \in Rows(scores) \ Rows(scores') : \E c \in Calls :
          /\ call[c] # call'[c]
          /\ \/ InTransaction(c) /\ (call[c].confirm \/ k \in Late(c))
             \/ call[c].kind = "repair" /\ scores[k].item \notin Live

LEMMA SavedIsSound ==
  ASSUME NEW c, NEW n, NEW live
  PROVE  CallSound(Saved(c), n, live)
BY DEF Saved, CallSound

LEMMA SaveIsSound ==
  ASSUME IdsSound, NEW c \in Calls, SaveAssignment(c)
  PROVE  IdsSound' /\ NothingLost
<1> DEFINE payload == call[c].payload
           x == [kind |-> "update", step |-> "sync", row |-> call[c].row,
                 wasDraft |-> call[c].wasDraft, payload |-> payload, confirm |-> call[c].confirm,
                 links |-> call[c].links, counted |-> ScoresOf(Removed(payload))]
<1>1. /\ call[c].kind = "update" /\ call[c].step = "save" /\ payload \in Payloads \cup {Unset}
      /\ UNCHANGED << items, nextItem, scores >>
  BY DEF SaveAssignment, IdsSound, CallsSound, CallSound
<1>2. CASE Set(c, Saved(c)) \/ Set(c, Idle)
  BY <1>1, <1>2, SameGrades, SavedIsSound, IdleIsSound
<1>3. CASE payload # Unset /\ ~ Refused(payload, call[c].confirm) /\ Set(c, x)
  <2>1. payload \in Payloads /\ (call[c].confirm \/ ScoresOf(Removed(payload)) = {})
    BY <1>1, <1>3 DEF Refused
  <2>2. CallSound(x, nextItem, Live)
    BY <2>1 DEF CallSound
  <2> HIDE DEF x
  <2> QED BY <1>1, <1>3, <2>2, SameGrades
<1> QED BY <1>2, <1>3 DEF SaveAssignment, Done

LEMMA CommitIsSound ==
  ASSUME IdsSound, NEW c \in Calls, CommitSubItems(c)
  PROVE  IdsSound' /\ ScoresSurvive
<1> DEFINE payload == call[c].payload
<1>1. /\ InTransaction(c) /\ payload \in Payloads /\ (call[c].confirm \/ call[c].counted = {})
      /\ Set(c, Saved(c))
  BY DEF CommitSubItems, InTransaction, IdsSound, CallsSound, CallSound
<1>2. PICK left \in SUBSET Late(c) : SyncAssignmentSubItems(payload, left)
  BY DEF CommitSubItems
<1>3. /\ ItemsSound' /\ nextItem <= nextItem' /\ Kept(payload) \subseteq Live'
      /\ \A i \in Live' : i \in Kept(payload) \/ i >= nextItem
  BY <1>1, <1>2, SyncIsSound DEF IdsSound
<1>4. nextItem \in Nat /\ nextItem' \in Nat /\ Kept(payload) \subseteq Live
  BY <1>3 DEF IdsSound, ItemsSound, Kept
<1>5. CallsSound'
  BY <1>1, <1>3, <1>4, CallsStaySound, SavedIsSound DEF IdsSound
<1>6. /\ DOMAIN scores' = ScoreIds
      /\ \A k \in ScoreIds : scores'[k] = IF k \notin left /\ scores[k] # NoRow
                                              /\ scores[k].item \in Removed(payload)
                                           THEN NoRow ELSE scores[k]
  BY <1>2 DEF SyncAssignmentSubItems, WithoutScoresOf
<1>7. ScoresSound'
  <2>1. \A k \in ScoreIds : scores[k] = NoRow \/ RowSound(scores[k], nextItem')
    BY <1>3, <1>4, GivenLater DEF IdsSound, ScoresSound, RowSound
  <2> QED BY <1>6, <2>1 DEF ScoresSound
<1>8. call[c] # call'[c]
  <2>1. call'[c].kind = "link" /\ call[c].kind = "update"
    BY <1>1 DEF Saved, Set, InTransaction, IdsSound, CallsSound
  <2> QED BY <2>1
<1>9. Orphans(scores', Live') \subseteq Orphans(scores, Live) \cup Late(c)
  <2>1. ASSUME NEW k \in Orphans(scores', Live'), k \notin left PROVE k \in Orphans(scores, Live)
    <3>1. /\ k \in ScoreIds /\ scores'[k] # NoRow /\ scores'[k].item # Main
          /\ scores'[k].item \notin Live'
      BY <2>1 DEF Orphans, Rows
    <3>2. scores'[k] = scores[k] /\ scores[k].item \notin Removed(payload)
      BY <1>6, <2>1, <3>1
    <3>3. scores[k].item \notin Live
      BY <1>3, <3>1, <3>2 DEF Removed
    <3> QED BY <3>1, <3>2, <3>3 DEF Orphans, Rows
  <2> QED BY <1>2, <2>1
<1>10. ASSUME NEW k \in Rows(scores) \ Rows(scores') PROVE call[c].confirm \/ k \in Late(c)
  <2>1. k \in ScoresOf(Removed(payload))
    BY <1>6, <1>10 DEF Rows, ScoresOf
  <2>2. k \in call[c].counted \/ k \in Late(c)
    BY <2>1 DEF Late
  <2> QED BY <1>1, <2>2
<1> QED BY <1>1, <1>3, <1>5, <1>7, <1>8, <1>9, <1>10 DEF IdsSound, ScoresSurvive, Live

LEMMA RepairIsSound ==
  ASSUME IdsSound, NEW c \in Calls, ApplyRepair(c)
  PROVE  IdsSound' /\ ScoresSurvive
<1> DEFINE plan == call[c]
<1>1. /\ plan.kind = "repair" /\ PlanSound(plan, nextItem, Live)
      /\ scores' = Repaired(plan) /\ Set(c, Idle) /\ UNCHANGED << items, nextItem >>
  BY DEF ApplyRepair, Done, RowUnchanged, IdsSound, CallsSound, CallSound
<1> HIDE DEF plan
<1>2. ASSUME NEW k \in ScoreIds
      PROVE  \/ scores'[k] = scores[k]
             \/ RowSound(scores'[k], nextItem)
             \/ scores'[k] = NoRow /\ scores[k].item \notin Live
  <2> DEFINE here == scores[k]
             cell == [student |-> here.student, item |-> plan.remaps[here.item]]
  <2>1. scores'[k] = IF here = NoRow \/ here.item \notin DOMAIN plan.remaps \/ Occupied(plan, cell)
                     THEN here
                     ELSE IF Winner(plan, k) THEN [here EXCEPT !.item = cell.item] ELSE NoRow
    BY <1>1 DEF Repaired
  <2>2. here = NoRow \/ RowSound(here, nextItem)
    BY DEF IdsSound, ScoresSound
  <2>3. here.item \in DOMAIN plan.remaps => here.item \notin Live /\ Given(cell.item, nextItem)
    BY <1>1 DEF PlanSound
  <2> HIDE DEF here, cell
  <2>4. CASE here = NoRow \/ here.item \notin DOMAIN plan.remaps \/ Occupied(plan, cell)
    BY <2>1, <2>4 DEF here
  <2>5. CASE /\ here # NoRow /\ here.item \in DOMAIN plan.remaps /\ ~ Occupied(plan, cell)
             /\ Winner(plan, k)
    <3>1. scores'[k] = [here EXCEPT !.item = cell.item]
      BY <2>1, <2>5
    <3>2. DOMAIN here = ScoreFields /\ "item" \in ScoreFields
      BY <2>2, <2>5 DEF RowSound, ScoreFields
    <3>3. DOMAIN scores'[k] = ScoreFields /\ scores'[k].item = cell.item
      BY <3>1, <3>2
    <3> QED BY <2>3, <2>5, <3>3 DEF RowSound
  <2>6. CASE /\ here # NoRow /\ here.item \in DOMAIN plan.remaps /\ ~ Occupied(plan, cell)
             /\ ~ Winner(plan, k)
    BY <2>1, <2>3, <2>6 DEF here
  <2> QED BY <2>4, <2>5, <2>6
<1>3. CallsSound' /\ ItemsSound'
  <2>1. nextItem \in Nat /\ nextItem' = nextItem /\ Live' = Live /\ ItemsSound'
    BY <1>1 DEF IdsSound, ItemsSound, Live, ToSet
  <2> QED BY <1>1, <2>1, CallsStaySound, IdleIsSound DEF IdsSound
<1>4. ScoresSound'
  <2>1. DOMAIN scores' = ScoreIds
    BY <1>1 DEF Repaired
  <2>2. nextItem' = nextItem
    BY <1>1
  <2> QED BY <1>2, <2>1, <2>2 DEF IdsSound, ScoresSound
<1>5. ASSUME NEW k \in Rows(scores) \ Rows(scores')
      PROVE  call[c] # call'[c] /\ call[c].kind = "repair" /\ scores[k].item \notin Live
  <2>1. k \in ScoreIds /\ scores[k] # NoRow /\ scores'[k] = NoRow
    BY <1>5 DEF Rows
  <2>2. scores[k].item \notin Live
    BY <1>2, <2>1, RowIsNotNoRow
  <2>3. call'[c] = Idle /\ call[c] # Idle /\ call[c].kind = "repair"
    BY <1>1 DEF Set, IdsSound, CallsSound, Idle, plan
  <2> QED BY <2>2, <2>3
<1>6. items' = items
  BY <1>1
<1> QED BY <1>3, <1>4, <1>5, <1>6 DEF IdsSound, ScoresSurvive

\* Every step of a call.
LEMMA CallIsSound ==
  ASSUME IdsSound, NEW c \in Calls, Starting(c) \/ Finishing(c)
  PROVE  IdsSound' /\ ScoresSurvive
<1>1. NothingLost => ScoresSurvive
  BY DEF NothingLost, ScoresSurvive
<1> QED BY <1>1, StartIsSound, LookUpIsSound, WriteIsSound, BulkIsSound, LinkIsSound, ReviewIsSound,
           SaveIsSound, CommitIsSound, RepairIsSound DEF Finishing

-----------------------------------------------------------------------------
(* The behaviours of MCSpec.                                                *)

LEMMA OtherIsSound ==
  ASSUME IdsSound, UNCHANGED << items, nextItem, scores, call >>
  PROVE  IdsSound' /\ ScoresSurvive
<1>1. ItemsSound' /\ ScoresSound' /\ Live' = Live
  BY DEF IdsSound, ItemsSound, ScoresSound, Live, ToSet
<1>2. CallsSound'
  BY <1>1 DEF IdsSound, CallsSound
<1>3. ScoresSurvive
  BY DEF ScoresSurvive, Rows
<1> QED BY <1>1, <1>2, <1>3 DEF IdsSound

LEMMA IdsStep ==
  ASSUME IdsSound, [MCNext]_gradingVars
  PROVE  IdsSound' /\ ScoresSurvive
<1>1. CASE \E c \in Calls : Begins(c) \/ Finishing(c)
  <2>1. PICK c \in Calls : Starting(c) \/ Finishing(c)
    BY <1>1 DEF Begins, Starting
  <2> QED BY <2>1, CallIsSound
<1>2. CASE Others
  <2>1. UNCHANGED << items, nextItem, scores, call >>
    BY <1>2 DEF Others, CreateScoreEditRequestHandler, JobCrash, PublishDueScheduledAssignments, ListDue,
                FlipDue, AnnouncePublished, TimePasses, SetCourseActive, DeleteAssignmentHandler,
                GradesUnchanged, RowUnchanged
  <2> QED BY <2>1, OtherIsSound
<1>3. CASE UNCHANGED gradingVars
  BY <1>3, OtherIsSound DEF gradingVars, vars
<1> QED BY <1>1, <1>2, <1>3 DEF MCNext

\* A new assignment's sub-items take the first ids; an old release's the second ones.
LEMMA FirstItems ==
  ASSUME NEW n \in Nat, NEW m \in Nat, m + n <= MaxItems, items = [k \in 1 .. n |-> m + k],
         nextItem = m + n + 1
  PROVE  ItemsSound
<1>1. items \in [1 .. n -> ItemIds]
  BY GradingAssumption DEF ItemIds
<1>2. items \in Seq(ItemIds) /\ DOMAIN items = 1 .. n
  <2>1. \E p \in Nat : items \in [1 .. p -> ItemIds]
    BY <1>1
  <2>2. DOMAIN items = 1 .. n
    BY <1>1
  <2> HIDE DEF ItemIds
  <2> QED BY <2>1, <2>2, SeqDef
<1>3. \A k \in 1 .. n : items[k] = m + k
  OBVIOUS
<1> QED BY <1>2, <1>3 DEF ItemsSound, IsInjective

LEMMA IdsInit ==
  ASSUME Init
  PROVE  IdsSound
<1>1. CASE \E c \in Calls, r \in {a \in Assignment : a.active}, n \in 0 .. MaxItems, link \in SUBSET Sessions :
             CreateAssignment(c, r, n, link)
  <2>1. PICK c \in Calls, r \in {a \in Assignment : a.active}, n \in 0 .. MaxItems,
             link \in SUBSET Sessions : CreateAssignment(c, r, n, link)
    BY <1>1
  <2>2. n \in Nat /\ n <= MaxItems
    BY <2>1, GradingAssumption
  <2>3. items = [k \in 1 .. n |-> 0 + k] /\ nextItem = 0 + n + 1
    BY <2>1, <2>2 DEF CreateAssignment, NewItems
  <2>4. ItemsSound
    BY <2>2, <2>3, FirstItems, GradingAssumption
  <2>5. ScoresSound
    BY <2>1 DEF CreateAssignment, ScoresSound
  <2>6. DOMAIN call = Calls /\ \A d \in Calls :
           \/ call[d] = Idle
           \/ \E s, t : call[d] = [kind |-> "link", step |-> s, links |-> link, tell |-> t]
    BY <2>1 DEF CreateAssignment
  <2>7. CallsSound
    BY <2>6, IdleIsSound DEF CallsSound, CallSound
  <2> QED BY <2>4, <2>5, <2>7 DEF IdsSound
<1>2. CASE \E r \in {a \in Assignment : a.active}, n \in {m \in ItemIds : 2 * m <= MaxItems},
             who \in SUBSET Students, mark \in Marks : DetachedByOldRelease(r, n, who, mark)
  <2>1. PICK r \in {a \in Assignment : a.active}, n \in {m \in ItemIds : 2 * m <= MaxItems}, who \in SUBSET Students, mark \in Marks :
           DetachedByOldRelease(r, n, who, mark)
    BY <1>2
  <2> DEFINE grid == [student : who, item : 1 .. n]
             cells == SetToSeq(grid)
  <2>2. n \in Nat \ {0} /\ n + n <= MaxItems
    BY <2>1, GradingAssumption DEF ItemIds
  <2>3. items = [k \in 1 .. n |-> n + k] /\ nextItem = n + n + 1
    BY <2>1, <2>2 DEF DetachedByOldRelease
  <2>4. ItemsSound
    BY <2>2, <2>3, FirstItems
  <2>5. IsFiniteSet(grid)
    <3>0. IsFiniteSet(who)
      BY GradingAssumption, FS_Subset
    <3>1. IsFiniteSet(who) /\ IsFiniteSet(1 .. n)
      BY <2>2, <3>0, FS_Interval
    <3>2. IsFiniteSet(who \X (1 .. n))
      BY <3>1, FS_Product
    <3> DEFINE f == [p \in who \X (1 .. n) |-> [student |-> p[1], item |-> p[2]]]
    <3>3. f \in [who \X (1 .. n) -> grid]
      OBVIOUS
    <3>4. \A x \in grid : \E p \in who \X (1 .. n) : f[p] = x
      <4>1. ASSUME NEW x \in grid PROVE \E p \in who \X (1 .. n) : f[p] = x
        <5>1. << x.student, x.item >> \in who \X (1 .. n)
              /\ x = [student |-> x.student, item |-> x.item]
          OBVIOUS
        <5>2. f[<< x.student, x.item >>] = x
          BY <5>1
        <5> QED BY <5>1, <5>2
      <4> QED BY <4>1
    <3>5. f \in Surjection(who \X (1 .. n), grid)
      BY <3>3, <3>4 DEF Surjection
    <3> QED BY <3>2, <3>5, FS_Surjection
  <2>6. \A k \in DOMAIN cells : cells[k].item \in 1 .. n
    BY <2>5, Listing
  <2>7. ScoresSound
    <3>1. /\ DOMAIN scores = ScoreIds
          /\ \A k \in ScoreIds : scores[k] = IF k \notin DOMAIN cells THEN NoRow
                ELSE [student |-> cells[k].student, item |-> cells[k].item, mark |-> mark, at |-> 0]
      BY <2>1 DEF DetachedByOldRelease
    <3> HIDE DEF cells
    <3>2. \A k \in DOMAIN cells : Given(cells[k].item, nextItem)
      BY <2>2, <2>3, <2>6 DEF Given
    <3> QED BY <3>1, <3>2 DEF ScoresSound, RowSound, ScoreFields
  <2>8. CallsSound
    BY <2>1, IdleIsSound DEF DetachedByOldRelease, CallsSound
  <2> QED BY <2>4, <2>7, <2>8 DEF IdsSound
<1> QED BY <1>1, <1>2 DEF Init

\* Every id that anything names was given, and a detached item stays detached.
THEOREM IdsAreSound == MCSpec => []IdsSound
<1>1. MCInit => IdsSound
  BY IdsInit DEF MCInit
<1>2. IdsSound /\ [MCNext]_gradingVars => IdsSound'
  BY IdsStep
<1> QED BY <1>1, <1>2, PTL DEF MCSpec

\* However grading and edits overlap, an edit detaches and loses no score but those
\* its client agreed to and those given after it had counted what is in the way; the
\* repair loses detached ones only (syncAssignmentSubItemsTx).
THEOREM EditsKeepScores == MCSpec => ScoresSurviveEdits
<1>1. IdsSound /\ [MCNext]_gradingVars => ScoresSurvive
  BY IdsStep
<1>2. MCSpec => [][ScoresSurvive]_gradingVars
  BY <1>1, IdsAreSound, PTL DEF MCSpec
<1> QED BY <1>2 DEF ScoresSurviveEdits, ScoresSurvive

\* The pages agree on who is graded (GetUngradedSummaryHandler and the two grids).
THEOREM PagesNeverDiffer == MCSpec => []PagesAgree
<1>1. ASSUME ItemsSound, NEW s \in Students
      PROVE  /\ CountedGraded(s) <=> GridShows(s) = GridCells
             /\ CountedGraded(s) <=> GridCells \subseteq SheetShows(s)
  <2> DEFINE graded(i) == \E k \in Rows(scores) : scores[k].student = s /\ scores[k].item = i
             counted == {i \in Live : graded(i)}
  <2>1. /\ GridShows(s) = {i \in GridCells : graded(i)}
        /\ SheetShows(s) = {i \in Live \cup {Main} : graded(i)}
    BY DEF GridShows, SheetShows, RowsAt
  <2>2. CASE items = << >>
    <3>1. GridCells = {Main} /\ ~ (Len(items) > 0)
      BY <2>2 DEF GridCells
    <3>2. CountedGraded(s) <=> graded(Main)
      BY <3>1 DEF CountedGraded, HasMainScore
    <3> HIDE DEF graded
    <3> QED BY <2>1, <3>1, <3>2
  <2>3. CASE items # << >>
    <3>1. GridCells = Live /\ Len(items) > 0 /\ Len(items) \in Nat
      BY <1>1, <2>3 DEF GridCells, ItemsSound
    <3>2. CountedGraded(s) <=> Cardinality(counted) >= Len(items)
      BY <3>1 DEF CountedGraded, LiveGraded
    <3>3. IsFiniteSet(Live) /\ Cardinality(Live) = Len(items) /\ counted \in SUBSET Live
      BY <1>1, LiveCount
    <3>4. /\ Cardinality(counted) \in Nat /\ Cardinality(counted) <= Cardinality(Live)
          /\ Cardinality(Live) = Cardinality(counted) => counted = Live
      BY <3>3, FS_Subset, FS_CardinalityType
    <3>5. CountedGraded(s) <=> counted = Live
      BY <3>1, <3>2, <3>3, <3>4
    <3> HIDE DEF graded
    <3> QED BY <2>1, <3>1, <3>5
  <2> QED BY <2>2, <2>3
<1>2. IdsSound => PagesAgree
  BY <1>1 DEF IdsSound, PagesAgree
<1> QED BY <1>2, IdsAreSound, PTL

-----------------------------------------------------------------------------
(* Requests to edit scores.                                                 *)

DecidedOnce ==
    \A r \in RequestIds :
       requests[r].status \in {"approved", "rejected"} /\ requests'[r] # requests[r]
       => \/ << "request", r >> \in raced
          \/ \E c \in Calls : call[c] # call'[c] /\ call[c].kind = "rereview"

\* A request changes only while it is pending, through a call that holds it, or
\* where there was none.
RequestsMove ==
    /\ DOMAIN requests' = RequestIds
    /\ \A r \in RequestIds : requests'[r] # requests[r] =>
          \/ requests[r] = NoRequest
          \/ \E c \in Calls : /\ call[c] # call'[c] /\ << "request", r >> \in Held(call[c])
                              /\ call[c].kind \in {"cancel", "review", "rereview"}

\* What a call holds to decide it, it found pending as it started.
CallsMove ==
    /\ DOMAIN call' = Calls
    /\ \A c \in Calls : call'[c] # call[c] =>
          \A r \in RequestIds : << "request", r >> \in Deciding(call'[c]) =>
             requests[r].status = "pending" /\ requests' = requests

LEMMA RequestsFollow ==
  ASSUME RequestsSound, DOMAIN call = Calls, RequestsMove, CallsMove,
         \A c, d \in Calls : c # d => Held(call'[c]) \cap Held(call'[d]) \subseteq raced',
         raced \subseteq raced'
  PROVE  RequestsSound' /\ DecidedOnce
<1>1. ASSUME NEW c \in Calls, NEW r \in RequestIds, << "request", r >> \in Deciding(call'[c])
      PROVE  requests'[r].status = "pending" \/ << "request", r >> \in raced'
  <2>1. CASE call'[c] # call[c]
    BY <1>1, <2>1 DEF CallsMove
  <2>2. CASE call'[c] = call[c]
    <3>1. /\ requests[r].status = "pending" \/ << "request", r >> \in raced
          /\ << "request", r >> \in Held(call[c])
      BY <1>1, <2>2 DEF RequestsSound, Deciding
    <3>2. CASE requests[r] = NoRequest
      BY <3>1, <3>2 DEF NoRequest
    <3>3. CASE requests'[r] # requests[r] /\ requests[r] # NoRequest
      <4>1. PICK d \in Calls : call[d] # call'[d] /\ << "request", r >> \in Held(call[d])
        BY <3>3 DEF RequestsMove
      <4>2. << "request", r >> \in raced
        BY <2>2, <3>1, <4>1 DEF RequestsSound
      <4> QED BY <4>2
    <3>4. CASE requests'[r] = requests[r]
      BY <3>1, <3>4
    <3> QED BY <3>2, <3>3, <3>4
  <2> QED BY <2>1, <2>2
<1>2. ASSUME NEW r \in RequestIds, requests[r].status \in {"approved", "rejected"},
             requests'[r] # requests[r]
      PROVE  \/ << "request", r >> \in raced
             \/ \E c \in Calls : call[c] # call'[c] /\ call[c].kind = "rereview"
  <2>1. requests[r] # NoRequest
    BY <1>2 DEF NoRequest
  <2>2. PICK c \in Calls : /\ call[c] # call'[c] /\ << "request", r >> \in Held(call[c])
                           /\ call[c].kind \in {"cancel", "review", "rereview"}
    BY <1>2, <2>1 DEF RequestsMove
  <2>3. CASE call[c].kind \in {"cancel", "review"}
    <3>1. << "request", r >> \in Deciding(call[c])
      BY <2>2, <2>3 DEF Deciding
    <3> QED BY <1>2, <3>1 DEF RequestsSound
  <2> QED BY <2>2, <2>3
<1>3. DOMAIN requests' = RequestIds
  BY DEF RequestsMove
<1> QED BY <1>1, <1>2, <1>3 DEF RequestsSound, DecidedOnce

\* A step of a call that holds no request to decide afterwards.
LEMMA CallMoves ==
  ASSUME DOMAIN call = Calls, NEW c \in Calls, NEW x, Set(c, x), x.kind \notin {"cancel", "review"}
  PROVE  CallsMove
<1>1. Deciding(x) = {}
  BY DEF Deciding
<1>2. DOMAIN call' = Calls /\ \A d \in Calls : call'[d] = IF d = c THEN x ELSE call[d]
  BY DEF Set
<1> QED BY <1>1, <1>2 DEF CallsMove

LEMMA QuietRequests ==
  ASSUME DOMAIN requests = RequestIds, requests' = requests
  PROVE  RequestsMove
BY DEF RequestsMove

LEMMA StartMoves ==
  ASSUME DOMAIN call = Calls, DOMAIN requests = RequestIds, NEW c \in Calls, Starting(c)
  PROVE  RequestsMove /\ CallsMove
<1>1. requests' = requests
  BY DEF Starting, SubmitScoreHandler, SubmitGroupScoreHandler, BulkSubmitScoresHandler,
         UpdateAssignmentHandler, LinkAttendanceSessionsHandler, CreateScoreEditRequest,
         CancelScoreEditRequest, ReviewScoreEditRequests, ReviewEditRequestHandler, PlanRepair
<1> SUFFICES CallsMove
  BY <1>1, QuietRequests
<1>2. CASE \E x : Set(c, x) /\ x.kind \notin {"cancel", "review"}
  BY <1>2, CallMoves
<1>3. CASE CancelScoreEditRequest(c)
  <2>1. PICK r \in RequestIds : /\ requests[r].status = "pending"
                               /\ Set(c, [kind |-> "cancel", ids |-> {r}])
    BY <1>3 DEF CancelScoreEditRequest
  <2>2. Deciding([kind |-> "cancel", ids |-> {r}]) = {<< "request", r >>}
    BY DEF Deciding, Held
  <2>3. /\ DOMAIN call' = Calls
        /\ \A d \in Calls : call'[d] = IF d = c THEN [kind |-> "cancel", ids |-> {r}] ELSE call[d]
    BY <2>1 DEF Set
  <2> QED BY <1>1, <2>1, <2>2, <2>3 DEF CallsMove
<1>4. CASE ReviewScoreEditRequests(c)
  <2>1. \E ids, verdict : StartReview(c, ids, verdict)
    BY <1>4 DEF ReviewScoreEditRequests, ApproveRequest, RejectRequest, BatchApprove, BatchReject
  <2>2. PICK ids, verdict : Set(c, [kind |-> "review", verdict |-> verdict,
                                   read |-> [r \in ReviewContexts(ids) |-> requests[r]]])
    BY <2>1 DEF StartReview
  <2> DEFINE x == [kind |-> "review", verdict |-> verdict,
                   read |-> [r \in ReviewContexts(ids) |-> requests[r]]]
  <2>3. Deciding(x) = {<< "request", r >> : r \in ReviewContexts(ids)}
    BY DEF Deciding, Held
  <2>4. /\ DOMAIN call' = Calls
        /\ \A d \in Calls : call'[d] = IF d = c THEN x ELSE call[d]
    BY <2>2 DEF Set
  <2>5. \A r \in RequestIds : << "request", r >> \in Deciding(x) => requests[r].status = "pending"
    BY <2>3 DEF ReviewContexts
  <2> HIDE DEF x
  <2> QED BY <1>1, <2>4, <2>5 DEF CallsMove
<1>5. CASE SubmitScoreHandler(c) \/ SubmitGroupScoreHandler(c) \/ BulkSubmitScoresHandler(c)
           \/ UpdateAssignmentHandler(c) \/ LinkAttendanceSessionsHandler(c)
           \/ CreateScoreEditRequest(c) \/ ReviewEditRequestHandler(c) \/ PlanRepair(c)
  <2>1. CASE SubmitScoreHandler(c)
    BY <1>2, <2>1 DEF SubmitScoreHandler
  <2>2. CASE SubmitGroupScoreHandler(c)
    BY <1>2, <2>2 DEF SubmitGroupScoreHandler
  <2>3. CASE BulkSubmitScoresHandler(c)
    BY <1>2, <2>3 DEF BulkSubmitScoresHandler
  <2>4. CASE UpdateAssignmentHandler(c)
    BY <1>2, <2>4 DEF UpdateAssignmentHandler
  <2>5. CASE LinkAttendanceSessionsHandler(c)
    BY <1>2, <2>5 DEF LinkAttendanceSessionsHandler
  <2>6. CASE CreateScoreEditRequest(c)
    <3>1. \E edits : AskForEdit(c, edits)
      BY <2>6 DEF CreateScoreEditRequest, CreateSingle, CreateBatch, CreateBatchDetailed
    <3>2. PICK asked : Set(c, [kind |-> "ask", edits |-> asked])
      BY <3>1 DEF AskForEdit
    <3> QED BY <1>2, <3>2
  <2>7. CASE ReviewEditRequestHandler(c)
    BY <1>2, <2>7 DEF ReviewEditRequestHandler
  <2>8. CASE PlanRepair(c)
    BY <1>2, <2>8 DEF PlanRepair
  <2> QED BY <1>5, <2>1, <2>2, <2>3, <2>4, <2>5, <2>6, <2>7, <2>8
<1> QED BY <1>3, <1>4, <1>5 DEF Starting

LEMMA FinishMoves ==
  ASSUME CallsSound, DOMAIN requests = RequestIds, NEW c \in Calls, Finishing(c)
  PROVE  RequestsMove /\ CallsMove
<1>1. DOMAIN call = Calls /\ "kind" \in DOMAIN call[c]
  BY DEF CallsSound, CallSound
<1>2. ASSUME Set(c, Idle) PROVE CallsMove /\ call'[c] = Idle
  BY <1>1, <1>2, CallMoves DEF Idle, Set
<1>3. CASE \/ LookUpScore(c) \/ WriteScore(c) \/ BulkUpsertScores(c) \/ SaveAssignment(c)
           \/ CommitSubItems(c) \/ Unlink(c) \/ Relink(c) \/ TellCourse(c) \/ ApplyReviewed(c) \/ ApplyRepair(c)
  <2>1. requests' = requests
    BY <1>3 DEF LookUpScore, WriteScore, BulkUpsertScores, SaveAssignment, CommitSubItems,
                Unlink, Relink, TellCourse, ApplyReviewed, ApplyRepair
  <2> SUFFICES CallsMove
    BY <2>1, QuietRequests
  <2>2. CASE LookUpScore(c)
    <3>1. PICK k, b : Set(c, [kind |-> call[c].kind, step |-> "write", mark |-> call[c].mark,
                              cells |-> call[c].cells, found |-> k, isNew |-> b])
      BY <2>2 DEF LookUpScore
    <3>2. call[c].kind \notin {"cancel", "review"}
      BY <2>2 DEF LookUpScore
    <3> QED BY <1>1, <3>1, <3>2, CallMoves
  <2>3. CASE WriteScore(c)
    <3>1. Set(c, Idle) \/ Set(c, [kind |-> "group", step |-> "look", cells |-> Tail(call[c].cells),
                                  mark |-> call[c].mark])
      BY <2>3 DEF WriteScore, Done
    <3> QED BY <1>1, <1>2, <3>1, CallMoves
  <2>4. CASE SaveAssignment(c) \/ CommitSubItems(c)
    <3>1. /\ call[c].kind = "update"
          /\ \/ Set(c, Idle)
             \/ \E s, l, t : Set(c, [kind |-> "link", step |-> s, links |-> l, tell |-> t])
             \/ \E x : Set(c, [kind |-> "update", step |-> "sync", row |-> call[c].row,
                    wasDraft |-> call[c].wasDraft, payload |-> call[c].payload,
                    confirm |-> call[c].confirm, links |-> call[c].links, counted |-> x])
      BY <2>4 DEF SaveAssignment, CommitSubItems, InTransaction, Saved, Done
    <3> QED BY <1>1, <1>2, <3>1, CallMoves
  <2>5. CASE Unlink(c) \/ Relink(c) \/ TellCourse(c) \/ ApplyReviewed(c)
    <3>1. /\ call[c].kind \in {"link", "rereview"}
          /\ Set(c, Idle) \/ \E s : Set(c, [call[c] EXCEPT !.step = s])
      BY <2>5 DEF Unlink, Relink, TellCourse, ApplyReviewed, Done
    <3>2. ASSUME NEW s PROVE [call[c] EXCEPT !.step = s].kind = call[c].kind
      BY <1>1
    <3> QED BY <1>1, <1>2, <3>1, <3>2, CallMoves
  <2>6. CASE BulkUpsertScores(c) \/ ApplyRepair(c)
    BY <1>2, <2>6 DEF BulkUpsertScores, ApplyRepair, Done
  <2> QED BY <1>3, <2>2, <2>3, <2>4, <2>5, <2>6
<1>4. CASE InsertRequests(c)
  <2>1. /\ Set(c, Idle) /\ DOMAIN requests' = RequestIds
        /\ \A r \in RequestIds : r \notin Unused => requests'[r] = requests[r]
    BY <1>4 DEF InsertRequests, Done
  <2> QED BY <1>2, <2>1 DEF RequestsMove, Unused
<1>5. CASE DeleteRequest(c)
  <2>1. /\ Set(c, Idle) /\ DOMAIN requests' = RequestIds /\ call[c].kind = "cancel"
        /\ \A r \in RequestIds : r \notin call[c].ids => requests'[r] = requests[r]
    BY <1>5 DEF DeleteRequest, Done
  <2>2. Held(call[c]) = {<< "request", r >> : r \in call[c].ids} /\ call[c] # Idle
    BY <2>1 DEF Held, Idle
  <2> QED BY <1>2, <2>1, <2>2 DEF RequestsMove
<1>6. CASE DecideRequests(c)
  <2>1. /\ Set(c, Idle) /\ DOMAIN requests' = RequestIds /\ call[c].kind = "review"
        /\ \A r \in RequestIds : r \notin DOMAIN call[c].read => requests'[r] = requests[r]
    BY <1>6 DEF DecideRequests, Decide, Done
  <2>2. Held(call[c]) = {<< "request", r >> : r \in DOMAIN call[c].read} /\ call[c] # Idle
    BY <2>1 DEF Held, Idle
  <2> QED BY <1>2, <2>1, <2>2 DEF RequestsMove
<1>7. CASE SaveReviewed(c)
  <2>1. /\ Set(c, Idle) /\ DOMAIN requests' = RequestIds /\ call[c].kind = "rereview"
        /\ \A r \in RequestIds : r # call[c].id => requests'[r] = requests[r]
    BY <1>7 DEF SaveReviewed, Done
  <2>2. Held(call[c]) = {<< "request", call[c].id >>} /\ call[c] # Idle
    BY <2>1 DEF Held, Idle
  <2> QED BY <1>2, <2>1, <2>2 DEF RequestsMove
<1> QED BY <1>3, <1>4, <1>5, <1>6, <1>7 DEF Finishing

LEMMA OtherMoves ==
  ASSUME DOMAIN call = Calls, DOMAIN requests = RequestIds, Others
  PROVE  RequestsMove /\ CallsMove
<1>1. call' = call
  BY DEF Others, CreateScoreEditRequestHandler, JobCrash, PublishDueScheduledAssignments, ListDue, FlipDue,
         AnnouncePublished, TimePasses, SetCourseActive, DeleteAssignmentHandler
<1>2. CallsMove
  BY <1>1 DEF CallsMove
<1>3. CASE CreateScoreEditRequestHandler
  <2>1. Unused # {} /\ \E x : requests' = [requests EXCEPT ![Min(Unused)] = x]
    BY <1>3 DEF CreateScoreEditRequestHandler
  <2>2. Unused \subseteq Nat
    BY GradingAssumption DEF Unused, RequestIds
  <2>3. Min(Unused) \in Unused
    BY <2>1, <2>2, MinIsIn
  <2>4. Min(Unused) \in RequestIds /\ requests[Min(Unused)] = NoRequest
    BY <2>3 DEF Unused
  <2> QED BY <1>2, <2>1, <2>4 DEF RequestsMove
<1>4. CASE ~ CreateScoreEditRequestHandler
  <2>1. requests' = requests
    BY <1>4 DEF Others, JobCrash, PublishDueScheduledAssignments, ListDue, FlipDue,
         AnnouncePublished, TimePasses, SetCourseActive, DeleteAssignmentHandler
  <2> QED BY <1>2, <2>1, QuietRequests
<1> QED BY <1>3, <1>4

LEMMA RequestsStep ==
  ASSUME IdsSound, RequestsSound, [MCNext]_gradingVars
  PROVE  RequestsSound' /\ DecidedOnce
<1>0. DOMAIN call = Calls /\ CallsSound /\ DOMAIN requests = RequestIds
  BY DEF IdsSound, CallsSound, RequestsSound
<1>1. CASE MCNext
  <2>1. RequestsMove /\ CallsMove
    <3>1. CASE \E c \in Calls : Begins(c) \/ Finishing(c)
      <4>1. PICK c \in Calls : Starting(c) \/ Finishing(c)
        BY <3>1 DEF Begins, Starting
      <4> QED BY <1>0, <4>1, StartMoves, FinishMoves
    <3>2. CASE Others
      BY <1>0, <3>2, OtherMoves
    <3> QED BY <1>1, <3>1, <3>2 DEF MCNext
  <2>2. raced' = raced \cup UNION {Held(call'[p[1]]) \cap Held(call'[p[2]]) :
                                     p \in {q \in Calls \X Calls : q[1] # q[2]}}
    BY <1>1 DEF MCNext
  <2>3. ASSUME NEW c \in Calls, NEW d \in Calls, c # d
        PROVE  Held(call'[c]) \cap Held(call'[d]) \subseteq raced'
    <3>1. << c, d >> \in {q \in Calls \X Calls : q[1] # q[2]}
      BY <2>3
    <3> QED BY <2>2, <3>1
  <2> QED BY <1>0, <2>1, <2>2, <2>3, RequestsFollow
<1>2. CASE UNCHANGED gradingVars
  BY <1>2 DEF gradingVars, vars, RequestsSound, DecidedOnce, Held, Deciding
<1> QED BY <1>1, <1>2

LEMMA RequestsInit ==
  ASSUME MCInit
  PROVE  RequestsSound
<1>1. requests = [r \in RequestIds |-> NoRequest] /\ raced = {}
  BY DEF MCInit, Init
<1>2. \A d \in Calls : call[d].kind \in {"idle", "link"}
  <2>1. \/ \E c, s, l, t : call = [d \in Calls |-> IF d # c THEN Idle
               ELSE [kind |-> "link", step |-> s, links |-> l, tell |-> t]]
        \/ call = [d \in Calls |-> Idle]
    <3>1. CASE \E c, r, n, link : CreateAssignment(c, r, n, link)
      <4>1. PICK c, r, n, link : CreateAssignment(c, r, n, link)
        BY <3>1
      <4>2. call = [d \in Calls |-> IF d # c THEN Idle
                     ELSE [kind |-> "link", step |-> IF link = {} THEN "tell" ELSE "relink",
                           links |-> link, tell |-> ~ r.draft]]
        BY <4>1 DEF CreateAssignment
      <4> QED BY <4>2
    <3>2. CASE \E r, n, who, mark : DetachedByOldRelease(r, n, who, mark)
      BY <3>2 DEF DetachedByOldRelease
    <3>3. \/ \E c, r, n, link : CreateAssignment(c, r, n, link)
          \/ \E r, n, who, mark : DetachedByOldRelease(r, n, who, mark)
      BY DEF MCInit, Init
    <3> QED BY <3>1, <3>2, <3>3
  <2> QED BY <2>1 DEF Idle
<1>3. \A d \in Calls : Held(call[d]) = {} /\ Deciding(call[d]) = {}
  BY <1>2 DEF Held, Deciding
<1> QED BY <1>1, <1>3 DEF RequestsSound

\* What calls hold together is remembered, and what one alone is about to decide
\* is still pending.
THEOREM RequestsAreSound == MCSpec => []RequestsSound
<1>1. MCInit => RequestsSound
  BY RequestsInit
<1>2. IdsSound /\ RequestsSound /\ [MCNext]_gradingVars => RequestsSound'
  BY RequestsStep
<1> QED BY <1>1, <1>2, IdsAreSound, PTL DEF MCSpec

\* A decided request is decided once (DecideRequests, DeleteRequest): it changes
\* again only when two calls held it at once, or on the old route.
THEOREM DecisionsStand == MCSpec => DecidedOnceSerially
<1>1. IdsSound /\ RequestsSound /\ [MCNext]_gradingVars => DecidedOnce
  BY RequestsStep
<1>2. MCSpec => [][DecidedOnce]_gradingVars
  BY <1>1, IdsAreSound, RequestsAreSound, PTL DEF MCSpec
<1> QED BY <1>2 DEF DecidedOnceSerially, DecidedOnce
=============================================================================

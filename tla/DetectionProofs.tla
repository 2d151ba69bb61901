-------------------------- MODULE DetectionProofs --------------------------
(* Theorems about Detection, for any match, any openings, any bounds and,    *)
(* where the theorem does not say otherwise, any pollers and disturbances.   *)
EXTENDS Detection, FiniteSetTheorems, SequenceTheorems, TLAPS

----------------------------------------------------------------------------
(* Sequences.                                                               *)

\* The elements of a sequence are finitely many and of its type.
LEMMA ElementFacts ==
    ASSUME NEW T, NEW s \in Seq(T)
    PROVE  /\ Len(s) \in Nat
           /\ DOMAIN s = 1..Len(s)
           /\ \A i \in DOMAIN s : s[i] \in T
           /\ Elements(s) \subseteq T
           /\ IsFiniteSet(Elements(s))
<1>1. Len(s) \in Nat /\ DOMAIN s = 1..Len(s) /\ s \in [1..Len(s) -> T]
  BY LenProperties
<1>2. s \in Surjection(1..Len(s), Elements(s))
  BY <1>1 DEF Elements, Surjection
<1>3. IsFiniteSet(1..Len(s))
  BY <1>1, FS_Interval
<1>4. IsFiniteSet(Elements(s))
  BY <1>2, <1>3, FS_Surjection
<1> QED
  BY <1>1, <1>4 DEF Elements

\* Appending adds one element at the end.
LEMMA AppendFacts ==
    ASSUME NEW T, NEW s \in Seq(T), NEW e \in T
    PROVE  /\ Append(s, e) \in Seq(T)
           /\ DOMAIN Append(s, e) = DOMAIN s \cup {Len(s) + 1}
           /\ \A i \in DOMAIN s : Append(s, e)[i] = s[i]
           /\ Append(s, e)[Len(s) + 1] = e
           /\ Elements(Append(s, e)) = Elements(s) \cup {e}
<1> DEFINE u == Append(s, e)
<1>1. /\ u \in Seq(T) /\ Len(u) = Len(s) + 1
      /\ \A i \in 1..Len(s) : u[i] = s[i]
      /\ u[Len(s) + 1] = e
  BY AppendProperties
<1>2. Len(s) \in Nat /\ DOMAIN s = 1..Len(s) /\ DOMAIN u = 1..Len(u)
  BY <1>1, ElementFacts
<1> HIDE DEF u
<1>3. DOMAIN u = DOMAIN s \cup {Len(s) + 1}
  BY <1>1, <1>2
<1>4. Elements(u) = Elements(s) \cup {e}
  BY <1>1, <1>2, <1>3 DEF Elements
<1> QED
  BY <1>1, <1>2, <1>3, <1>4 DEF u

\* The tail has what comes after the head.
LEMMA TailFacts ==
    ASSUME NEW T, NEW q \in Seq(T), q # <<>>
    PROVE  /\ 1 \in DOMAIN q /\ Head(q) = q[1]
           /\ Tail(q) \in Seq(T)
           /\ \A i \in DOMAIN Tail(q) :
                 i \in Nat /\ i + 1 \in DOMAIN q /\ Tail(q)[i] = q[i + 1]
           /\ \A i \in DOMAIN q :
                 i > 1 => i - 1 \in DOMAIN Tail(q) /\ Tail(q)[i - 1] = q[i]
<1>1. Len(q) \in Nat \ {0} /\ DOMAIN q = 1..Len(q)
  BY EmptySeq, ElementFacts
<1>2. /\ Tail(q) \in Seq(T) /\ Len(Tail(q)) = Len(q) - 1
      /\ \A i \in 1..Len(Tail(q)) : Tail(q)[i] = q[i + 1]
  BY HeadTailProperties
<1>3. DOMAIN Tail(q) = 1..(Len(q) - 1)
  BY <1>2, ElementFacts
<1>4. Head(q) = q[1] /\ 1 \in DOMAIN q
  BY <1>1
<1>5. ASSUME NEW i \in DOMAIN q, i > 1
      PROVE  i - 1 \in DOMAIN Tail(q) /\ Tail(q)[i - 1] = q[i]
  <2>1. i - 1 \in 1..Len(Tail(q)) /\ (i - 1) + 1 = i
    BY <1>1, <1>2, <1>5
  <2> QED
    BY <1>2, <1>3, <2>1
<1>6. \A i \in DOMAIN Tail(q) : i \in Nat /\ i + 1 \in DOMAIN q /\ Tail(q)[i] = q[i + 1]
  BY <1>1, <1>2, <1>3
<1> QED
  BY <1>2, <1>4, <1>5, <1>6

----------------------------------------------------------------------------
(* The order of the match.                                                  *)

\* The order of a timeline that is named: Place and Rank for a fixed t.
PlaceIn(t, x) == CHOOSE i \in DOMAIN t : t[i] = x

RankIn(t, S, x) == Cardinality({y \in S : PlaceIn(t, y) <= PlaceIn(t, x)})

\* What is on the timeline has its place there.
LEMMA PlaceFacts ==
    ASSUME NEW T, NEW t \in Seq(T), NEW x \in Elements(t)
    PROVE  PlaceIn(t, x) \in DOMAIN t /\ t[PlaceIn(t, x)] = x /\ PlaceIn(t, x) \in Nat
<1>1. PICK i \in DOMAIN t : t[i] = x
  BY DEF Elements
<1>2. PlaceIn(t, x) \in DOMAIN t /\ t[PlaceIn(t, x)] = x
  BY <1>1 DEF PlaceIn
<1> QED
  BY <1>2, ElementFacts

\* u goes on from where t ended, and has nothing twice.
Extends(t, u) ==
    /\ \A i, j \in DOMAIN u : u[i] = u[j] => i = j
    /\ \A i \in DOMAIN t : i \in DOMAIN u /\ u[i] = t[i]

\* So what t has keeps its place, and comes before the rest of u.
LEMMA PlaceStays ==
    ASSUME NEW T, NEW t \in Seq(T), NEW u \in Seq(T), Extends(t, u), NEW x \in Elements(t)
    PROVE  /\ x \in Elements(u)
           /\ PlaceIn(u, x) = PlaceIn(t, x)
           /\ \A y \in Elements(u) : PlaceIn(u, y) <= PlaceIn(u, x) => y \in Elements(t)
<1>1. PlaceIn(t, x) \in DOMAIN t /\ t[PlaceIn(t, x)] = x
  BY PlaceFacts
<1>2. x \in Elements(u)
  BY <1>1 DEF Extends, Elements
<1>3. PlaceIn(u, x) \in DOMAIN u /\ u[PlaceIn(u, x)] = x
  BY <1>2, PlaceFacts
<1>4. PlaceIn(u, x) = PlaceIn(t, x)
  BY <1>1, <1>3 DEF Extends
<1>5. ASSUME NEW y \in Elements(u), PlaceIn(u, y) <= PlaceIn(u, x) PROVE y \in Elements(t)
  <2>1. PlaceIn(u, y) \in DOMAIN u /\ u[PlaceIn(u, y)] = y
    BY PlaceFacts
  <2>2. DOMAIN t = 1..Len(t) /\ DOMAIN u = 1..Len(u) /\ Len(t) \in Nat /\ Len(u) \in Nat
    BY ElementFacts
  <2>3. PlaceIn(u, y) \in DOMAIN t
    BY <1>1, <1>4, <1>5, <2>1, <2>2
  <2> QED
    BY <2>1, <2>3 DEF Extends, Elements
<1> QED
  BY <1>2, <1>4, <1>5

\* A rank depends on the places of its set alone.
LEMMA RankStays ==
    ASSUME NEW T, NEW t \in Seq(T), NEW u \in Seq(T), Extends(t, u),
           NEW S \in SUBSET Elements(t), NEW x \in S
    PROVE  RankIn(u, S, x) = RankIn(t, S, x)
<1>1. \A y \in S : PlaceIn(u, y) = PlaceIn(t, y)
  BY PlaceStays
<1>2. {y \in S : PlaceIn(u, y) <= PlaceIn(u, x)} = {y \in S : PlaceIn(t, y) <= PlaceIn(t, x)}
  BY <1>1
<1> QED
  BY <1>2 DEF RankIn

\* Ranks are the numbers up to the size of the set.
LEMMA RankRange ==
    ASSUME NEW T, NEW t \in Seq(T), NEW S \in SUBSET Elements(t), NEW x \in S
    PROVE  RankIn(t, S, x) \in 1..Cardinality(S) /\ RankIn(t, S, x) \in Nat
<1> DEFINE Up == {y \in S : PlaceIn(t, y) <= PlaceIn(t, x)}
<1>1. IsFiniteSet(S)
  BY ElementFacts, FS_Subset
<1>2. IsFiniteSet(Up) /\ Cardinality(Up) <= Cardinality(S)
  BY <1>1, FS_Subset
<1>3. Cardinality(Up) \in Nat /\ Cardinality(S) \in Nat
  BY <1>1, <1>2, FS_CardinalityType
<1>4. x \in Up
  BY PlaceFacts
<1>5. Cardinality(Up) # 0
  BY <1>2, <1>4, FS_EmptySet
<1> QED
  BY <1>2, <1>3, <1>5 DEF RankIn

\* Ranks are ordered as the places are.
LEMMA RankOrder ==
    ASSUME NEW T, NEW t \in Seq(T), NEW S \in SUBSET Elements(t), NEW x \in S, NEW y \in S
    PROVE  /\ PlaceIn(t, x) < PlaceIn(t, y) => RankIn(t, S, x) < RankIn(t, S, y)
           /\ RankIn(t, S, x) = RankIn(t, S, y) => x = y
<1> DEFINE Up(z) == {v \in S : PlaceIn(t, v) <= PlaceIn(t, z)}
<1>1. \A z \in S : PlaceIn(t, z) \in Nat /\ t[PlaceIn(t, z)] = z
  BY PlaceFacts
<1>2. IsFiniteSet(S)
  BY ElementFacts, FS_Subset
<1>3. ASSUME NEW v \in S, NEW w \in S, PlaceIn(t, v) < PlaceIn(t, w)
      PROVE  RankIn(t, S, v) < RankIn(t, S, w)
  <2>1. Up(v) \in SUBSET Up(w) /\ w \in Up(w) /\ w \notin Up(v)
    BY <1>1, <1>3
  <2>2. IsFiniteSet(Up(w))
    BY <1>2, FS_Subset
  <2>3. IsFiniteSet(Up(v)) /\ Cardinality(Up(v)) <= Cardinality(Up(w))
        /\ Cardinality(Up(w)) # Cardinality(Up(v))
    BY <2>1, <2>2, FS_Subset
  <2>4. Cardinality(Up(v)) \in Nat /\ Cardinality(Up(w)) \in Nat
    BY <2>2, <2>3, FS_CardinalityType
  <2> QED
    BY <2>3, <2>4 DEF RankIn
<1>4. RankIn(t, S, x) \in Nat /\ RankIn(t, S, y) \in Nat
  BY RankRange
<1>5. ASSUME RankIn(t, S, x) = RankIn(t, S, y) PROVE x = y
  BY <1>1, <1>3, <1>4, <1>5
<1> QED
  BY <1>3, <1>5

\* The set that is counted shrinks: so do the ranks.
LEMMA RankShrinks ==
    ASSUME NEW T, NEW t \in Seq(T), NEW S \in SUBSET Elements(t), NEW R \in SUBSET S, NEW x \in R
    PROVE  RankIn(t, R, x) <= RankIn(t, S, x)
<1> DEFINE Up(Q) == {y \in Q : PlaceIn(t, y) <= PlaceIn(t, x)}
<1>1. IsFiniteSet(S)
  BY ElementFacts, FS_Subset
<1>2. IsFiniteSet(Up(S)) /\ Up(R) \in SUBSET Up(S)
  BY <1>1, FS_Subset
<1> QED
  BY <1>2, FS_Subset DEF RankIn

\* A part that has everything up to some point: its ranks are those of the
\* whole, and the rest comes after it.
LEMMA RankOfPart ==
    ASSUME NEW T, NEW t \in Seq(T), NEW S \in SUBSET Elements(t), NEW R \in SUBSET S,
           \A v \in R, y \in S : PlaceIn(t, y) <= PlaceIn(t, v) => y \in R,
           NEW x \in S
    PROVE  /\ x \in R => RankIn(t, S, x) = RankIn(t, R, x)
           /\ x \in R <=> RankIn(t, S, x) <= Cardinality(R)
<1> DEFINE Up(Q) == {y \in Q : PlaceIn(t, y) <= PlaceIn(t, x)}
<1>1. IsFiniteSet(S) /\ IsFiniteSet(R) /\ Cardinality(R) \in Nat
  BY ElementFacts, FS_Subset, FS_CardinalityType
<1>2. ASSUME x \in R PROVE RankIn(t, S, x) = RankIn(t, R, x)
  <2>1. Up(S) = Up(R)
    BY <1>2
  <2> QED
    BY <2>1 DEF RankIn
<1>3. ASSUME x \in R PROVE RankIn(t, S, x) <= Cardinality(R)
  <2>1. RankIn(t, R, x) \in 1..Cardinality(R)
    BY <1>3, RankRange
  <2> QED
    BY <1>1, <1>2, <1>3, <2>1
<1>4. ASSUME x \notin R PROVE ~ (RankIn(t, S, x) <= Cardinality(R))
  <2>1. \A z \in S : PlaceIn(t, z) \in Nat
    BY PlaceFacts
  <2>2. R \in SUBSET Up(S) /\ x \in Up(S)
    BY <1>4, <2>1
  <2>3. IsFiniteSet(Up(S)) /\ Cardinality(Up(S)) \in Nat
    BY <1>1, FS_Subset, FS_CardinalityType
  <2>4. Cardinality(R) <= Cardinality(Up(S)) /\ Cardinality(Up(S)) # Cardinality(R)
    BY <1>4, <2>2, <2>3, FS_Subset
  <2> QED
    BY <1>1, <2>3, <2>4 DEF RankIn
<1> QED
  BY <1>2, <1>3, <1>4

\* Every number up to the size of the set is the rank of one element.
LEMMA NthFacts ==
    ASSUME NEW T, timeline \in Seq(T), NEW S \in SUBSET Elements(timeline),
           NEW n \in 1..Cardinality(S)
    PROVE  Nth(S, n) \in S /\ RankIn(timeline, S, Nth(S, n)) = n
<1> DEFINE size == Cardinality(S)
           rank == [x \in S |-> RankIn(timeline, S, x)]
<1>1. IsFiniteSet(S) /\ size \in Nat
  BY ElementFacts, FS_Subset, FS_CardinalityType
<1>2. \A x \in S : RankIn(timeline, S, x) \in 1..size
  BY RankRange
<1>3. \A x, y \in S : RankIn(timeline, S, x) = RankIn(timeline, S, y) => x = y
  BY RankOrder
<1>4. rank \in Injection(S, 1..size)
  BY <1>2, <1>3 DEF Injection, IsInjective
<1>5. IsFiniteSet(1..size) /\ Cardinality(1..size) = size
  BY <1>1, FS_Interval
<1>6. rank \in Surjection(S, 1..size)
  BY <1>4, <1>5, FS_Injection
<1>7. PICK x \in S : RankIn(timeline, S, x) = n
  BY <1>6 DEF Surjection
<1>8. \A y : Rank(S, y) = RankIn(timeline, S, y)
  BY DEF Rank, RankIn, Place, PlaceIn
<1> QED
  BY <1>7, <1>8 DEF Nth

----------------------------------------------------------------------------
(* The inductive invariant.                                                 *)

\* What happens in the match is put in order, each thing once, and begins with
\* what discovery found; before the kick-off there is nothing.
MatchInv ==
    /\ status \in Statuses
    /\ status \in {"scheduled", "postponed"} => timeline = <<>>
    /\ timeline \in Seq(Goal \cup Card)
    /\ \A i, j \in DOMAIN timeline : timeline[i] = timeline[j] => i = j
    /\ opening \in Seq(Goal \cup Card)
    /\ \A i \in DOMAIN opening : i \in DOMAIN timeline /\ timeline[i] = opening[i]
    /\ published \subseteq Elements(timeline)
    /\ void \subseteq Goal

Fixtures ==
    [status : Statuses, home : Nat, away : Nat, events : SUBSET (Goal \cup Card),
     standing : [Sides -> SUBSET Goal]]

Scored(t, side) == {g \in Elements(t) : g \in Goal /\ Side[g] = side}

\* A fixture that the provider has given out by the time of timeline t.
Reported(f, t) ==
    /\ f \in Fixtures
    /\ f.events \subseteq Elements(t)
    /\ \A side \in Sides :
          /\ f.standing[side] \subseteq Scored(t, side)
          /\ f[side] = Cardinality(f.standing[side])
    /\ f.status = "postponed" => f.events = {} /\ \A side \in Sides : f.standing[side] = {}

Entries == [key : Keys, about : Goal \cup Card \cup {None}]

WithSnap == {"diff", "emit", "notify", "save"}

StoreInv ==
    /\ row \in Rows
    /\ redis \in States \cup {None}
    /\ dated # None => Reported(dated, timeline)
    /\ ledger \in Seq(Keys)
    /\ delivered \subseteq Elements(ledger)
    /\ jobs \subseteq Elements(ledger)
    /\ told \in [Goal -> Nat]
    /\ window \in Windows
    /\ mishaps \in 0..MaxMishaps

PollerInv ==
    /\ pc \in [Poller -> {"idle", "fetch", "diff", "emit", "notify", "save", "retry"}]
    /\ rowRead \in [Poller -> Rows \cup {None}]
    /\ snap \in [Poller -> Fixtures \cup {None}]
    /\ queue \in [Poller -> Seq(Entries)]
    /\ \A p \in Poller :
          /\ pc[p] \in {"fetch", "diff"} => rowRead[p] \in Rows
          /\ pc[p] \in WithSnap => Reported(snap[p], timeline)
          /\ pc[p] = "notify" =>
                queue[p] # <<>> /\ Head(queue[p]).key \in Elements(ledger)

CoreInv == MatchInv /\ StoreInv /\ PollerInv

----------------------------------------------------------------------------

\* The goals of a side from before discovery.
Before(side) == Scored(opening, side)

\* A score that counts them.
Counts(f) == \A side \in Sides : f[side] >= Cardinality(Before(side))

\* A fixture that has them first.
CountsFirst(f) == \A side \in Sides : Before(side) \subseteq f.standing[side]

\* No goal from before discovery is ever behind an entry: every score that may
\* become a baseline counts them.
PhantomInv ==
    void = {} =>
        /\ Counts(row)
        /\ redis # None => Counts(redis)
        /\ dated # None => CountsFirst(dated)
        /\ \A g \in Elements(opening) \cap Goal : told[g] = 0
        /\ \A p \in Poller :
              /\ pc[p] \in {"fetch", "diff"} => Counts(rowRead[p])
              /\ pc[p] \in WithSnap => CountsFirst(snap[p])
              /\ \A i \in DOMAIN queue[p] : queue[p][i].about \notin Elements(opening) \cap Goal

----------------------------------------------------------------------------

\* One poller whose notifications do not fail, on a feed that is not stored.
Undisturbed ==
    /\ \E p : Poller = {p}
    /\ Hazards \cap {"notify", "crash", "stale"} = {}

\* The row and the cached state agree but between their two writes.
BaseInv ==
    /\ dated = None
    /\ \A p \in Poller :
        /\ pc[p] \in {"fetch", "diff"} => rowRead[p] = row
        /\ pc[p] # "save" /\ redis # None => RowOf(redis) = row
        /\ pc[p] = "save" => queue[p] = <<>> /\ redis \in {None, Kept(snap[p])}

\* A fixture has every goal up to some point of the match that still stands.
ClosedInv ==
    \A p \in Poller, side \in Sides :
        pc[p] \in WithSnap =>
            \A x \in snap[p].standing[side], y \in Standing(side) :
                PlaceIn(timeline, y) <= PlaceIn(timeline, x) => y \in snap[p].standing[side]

\* An alert is told once, of a goal that was scored and that the poller has seen.
ToldInv ==
    \A g \in Goal :
        told[g] # 0 =>
            /\ told[g] = 1
            /\ g \in Elements(timeline)
            /\ \A p \in Poller :
                  pc[p] \in WithSnap /\ g \notin void => g \in snap[p].standing[Side[g]]

\* A goal beyond the score of the row has not been told.
UntoldInv ==
    \A p \in Poller, side \in Sides :
        /\ pc[p] \in {"idle", "fetch", "retry"} =>
              \A g \in Standing(side) :
                  RankIn(timeline, Standing(side), g) > row[side] => told[g] = 0
        /\ pc[p] = "diff" =>
              \A g \in snap[p].standing[side] :
                  RankIn(timeline, snap[p].standing[side], g) > row[side] => told[g] = 0

\* The entries of a poller that are not recorded yet.
Left(p) == {i \in DOMAIN queue[p] : pc[p] = "notify" => i > 1}

\* What is left in the queue is about goals that differ and have not been told.
QueueInv ==
    \A p \in Poller :
        pc[p] \in {"emit", "notify"} =>
            \A i \in DOMAIN queue[p] :
                queue[p][i].about \in Goal =>
                    /\ queue[p][i].about \in snap[p].standing[Side[queue[p][i].about]]
                    /\ i \in Left(p) => told[queue[p][i].about] = 0
                    /\ \A j \in DOMAIN queue[p] :
                          queue[p][j].about = queue[p][i].about => i = j

OneInv == BaseInv /\ ClosedInv /\ ToldInv /\ UntoldInv /\ QueueInv

----------------------------------------------------------------------------

Working == {"emit", "notify", "save"}

ScorerKeys == {<<"goal", g>> : g \in Goal}
ScoreKeys == {"goal"} \X Sides \X Nat \X Nat

\* A key that a fixture accounts for: its detail is there, its score is reached.
Explains(f, k) ==
    /\ k \in ScorerKeys => k[2] \in f.events
    /\ k \in ScoreKeys => k[3] <= f[k[2]]

\* What the provider reports only grows.
GrowInv ==
    /\ void = {}
    /\ status # "suspended"
    /\ Elements(timeline) \cap Card \subseteq published
    /\ \A side \in Sides : row[side] <= Cardinality(Standing(side))
    /\ redis # None => redis.events \subseteq published
    /\ \A p \in Poller :
        pc[p] \in WithSnap =>
            /\ snap[p].status # "suspended"
            /\ snap[p].events \subseteq published
            /\ \A side \in Sides :
                  /\ snap[p].standing[side] \subseteq Standing(side)
                  /\ row[side] <= snap[p][side]
            /\ redis # None => redis.events \subseteq snap[p].events
            /\ pc[p] = "save" => redis # None

\* No key of the ledger is one that a goal yet to come will have.
KeyInv ==
    \A p \in Poller :
        /\ pc[p] \in Working => \A k \in Elements(ledger) : Explains(snap[p], k)
        /\ pc[p] \notin Working =>
              \A k \in Elements(ledger) :
                  /\ k \in ScorerKeys => redis # None /\ k[2] \in redis.events
                  /\ k \in ScoreKeys => k[3] <= row[k[2]]
        /\ pc[p] \in {"emit", "notify"} =>
              \A i \in DOMAIN queue[p] :
                  /\ Explains(snap[p], queue[p][i].key)
                  /\ queue[p][i].about \in Goal =>
                        /\ i \in Left(p) => queue[p][i].key \notin Elements(ledger)
                        /\ \A j \in DOMAIN queue[p] :
                              queue[p][j].key = queue[p][i].key => i = j

\* A goal since discovery has been told once the row counts it, and is told or
\* left in the queue once the poller has it.
AlertInv ==
    \A side \in Sides : \A g \in Standing(side) \ Elements(opening) :
        /\ RankIn(timeline, Standing(side), g) <= row[side] => told[g] # 0
        /\ \A p \in Poller :
              pc[p] \in Working /\ g \in snap[p].standing[side] =>
                  told[g] # 0 \/ \E i \in Left(p) : queue[p][i].about = g

\* So is the row of a card.
CardInv ==
    /\ redis # None => \A c \in redis.events \cap Card : <<"card", c>> \in Elements(ledger)
    /\ \A p \in Poller :
          pc[p] \in Working =>
              \A c \in snap[p].events \cap Card :
                  \/ <<"card", c>> \in Elements(ledger)
                  \/ \E i \in Left(p) : queue[p][i].key = <<"card", c>>

CompleteInv == ~ blurred => GrowInv /\ KeyInv /\ AlertInv /\ CardInv

----------------------------------------------------------------------------
(* The entries of a diff.                                                   *)

\* A concatenation has the entries of both parts, in their order.
LEMMA ConcatFacts ==
    ASSUME NEW T, NEW q \in Seq(T), NEW r \in Seq(T)
    PROVE  /\ q \o r \in Seq(T)
           /\ Len(q) \in Nat
           /\ DOMAIN q \subseteq DOMAIN (q \o r)
           /\ \A i \in DOMAIN q : i \in Nat /\ i <= Len(q) /\ (q \o r)[i] = q[i]
           /\ \A j \in DOMAIN r :
                 j \in Nat /\ j + Len(q) \in DOMAIN (q \o r) /\ (q \o r)[j + Len(q)] = r[j]
           /\ \A i \in DOMAIN (q \o r) :
                 i \in DOMAIN q \/ \E j \in DOMAIN r : i = j + Len(q)
<1> DEFINE c == q \o r
<1>1. /\ Len(q) \in Nat /\ DOMAIN q = 1..Len(q)
      /\ Len(r) \in Nat /\ DOMAIN r = 1..Len(r)
  BY ElementFacts
<1>2. /\ c \in Seq(T) /\ Len(c) = Len(q) + Len(r)
      /\ \A i \in 1..Len(q) + Len(r) : c[i] = IF i <= Len(q) THEN q[i] ELSE r[i - Len(q)]
  BY ConcatProperties
<1>3. DOMAIN c = 1..Len(q) + Len(r)
  BY <1>2, ElementFacts
<1> HIDE DEF c
<1>4. \A i \in DOMAIN q : i \in Nat /\ i <= Len(q) /\ c[i] = q[i] /\ i \in DOMAIN c
  BY <1>1, <1>2, <1>3
<1>5. ASSUME NEW j \in DOMAIN r
      PROVE  j \in Nat /\ j + Len(q) \in DOMAIN c /\ c[j + Len(q)] = r[j]
  <2>1. j \in 1..Len(r) /\ ~ (j + Len(q) <= Len(q)) /\ (j + Len(q)) - Len(q) = j
    BY <1>1
  <2>2. j + Len(q) \in 1..Len(q) + Len(r)
    BY <1>1
  <2> QED
    BY <1>2, <1>3, <2>1, <2>2
<1>6. ASSUME NEW i \in DOMAIN c, i \notin DOMAIN q
      PROVE  \E j \in DOMAIN r : i = j + Len(q)
  <2>1. i - Len(q) \in DOMAIN r /\ i = (i - Len(q)) + Len(q)
    BY <1>1, <1>3, <1>6
  <2> QED
    BY <2>1
<1> QED
  BY <1>1, <1>2, <1>4, <1>5, <1>6 DEF c

\* A sequence of entries about the goals of G, one for each, under keys of K
\* that all differ; what is about a goal has the key of a goal.
Batch(q, G, K) ==
    /\ q \in Seq(Entries)
    /\ \A i \in DOMAIN q :
          /\ q[i].about \in Goal => q[i].about \in G /\ q[i].key[1] = "goal"
          /\ q[i].key \in K
    /\ \A g \in G : \E i \in DOMAIN q : q[i].about = g
    /\ \A i, j \in DOMAIN q :
          /\ q[i].about \in Goal /\ q[i].about = q[j].about => i = j
          /\ q[i].key = q[j].key => i = j

\* No entries are about no goal.
LEMMA EmptyBatch == Batch(<<>>, {}, {})
<1>1. <<>> \in Seq(Entries) /\ DOMAIN <<>> = {}
  BY EmptySeq, ElementFacts
<1> QED
  BY <1>1 DEF Batch

\* Parts about other goals, under other keys, go together.
LEMMA BatchConcat ==
    ASSUME NEW q, NEW r, NEW G, NEW H, NEW K, NEW L, Batch(q, G, K), Batch(r, H, L),
           G \cap H = {}, K \cap L = {}
    PROVE  Batch(q \o r, G \cup H, K \cup L)
<1> DEFINE c == q \o r
<1>1. q \in Seq(Entries) /\ r \in Seq(Entries)
  BY DEF Batch
<1>2. c \in Seq(Entries) /\ Len(q) \in Nat /\ DOMAIN q \subseteq DOMAIN c
  BY <1>1, ConcatFacts
<1>3. \A i \in DOMAIN q : i \in Nat /\ i <= Len(q) /\ c[i] = q[i]
  BY <1>1, ConcatFacts
<1>4. \A j \in DOMAIN r : j \in Nat /\ j + Len(q) \in DOMAIN c /\ c[j + Len(q)] = r[j]
  BY <1>1, ConcatFacts
<1>5. \A i \in DOMAIN c : i \in DOMAIN q \/ \E j \in DOMAIN r : i = j + Len(q)
  BY <1>1, ConcatFacts
<1> HIDE DEF c
<1>6. ASSUME NEW i \in DOMAIN c
      PROVE  /\ c[i].about \in Goal => c[i].about \in G \cup H /\ c[i].key[1] = "goal"
             /\ c[i].key \in K \cup L
  BY <1>3, <1>4, <1>5 DEF Batch
<1>7. ASSUME NEW g \in G \cup H PROVE \E i \in DOMAIN c : c[i].about = g
  <2>1. CASE g \in G
    BY <1>2, <1>3, <2>1 DEF Batch
  <2>2. CASE g \in H
    BY <1>4, <2>2 DEF Batch
  <2> QED
    BY <2>1, <2>2
<1>8. ASSUME NEW i \in DOMAIN c, NEW j \in DOMAIN c,
             \/ c[i].about \in Goal /\ c[i].about = c[j].about
             \/ c[i].key = c[j].key
      PROVE  i = j
  <2>1. CASE i \in DOMAIN q /\ j \in DOMAIN q
    BY <1>3, <1>8, <2>1 DEF Batch
  <2>2. ASSUME NEW a \in DOMAIN r, NEW b \in DOMAIN r, i = a + Len(q), j = b + Len(q)
        PROVE  i = j
    <3>1. c[i] = r[a] /\ c[j] = r[b]
      BY <1>4, <2>2
    <3>2. a = b
      BY <1>8, <3>1 DEF Batch
    <3> QED
      BY <2>2, <3>2
  <2>3. ASSUME NEW a \in DOMAIN q, NEW b \in DOMAIN r,
               \/ i = a /\ j = b + Len(q)
               \/ j = a /\ i = b + Len(q)
        PROVE  FALSE
    BY <1>3, <1>4, <1>8, <2>3 DEF Batch
  <2> QED
    BY <1>5, <2>1, <2>2, <2>3
<1> QED
  BY <1>2, <1>6, <1>7, <1>8 DEF Batch, c

\* More keys may be allowed.
LEMMA BatchWider ==
    ASSUME NEW q, NEW G, NEW K, NEW L, Batch(q, G, K), K \subseteq L
    PROVE  Batch(q, G, L)
  BY DEF Batch

\* What a goal's key is made of.
GoalKeys(base, f, side) ==
    {<<"goal", g>> : g \in NewGoals(base, f, side)}
        \cup ({"goal"} \X {side} \X {n \in Nat : base[side] < n /\ n <= f[side]} \X Nat)

\* The goals of a side that the baseline does not count.
Uncounted(base, f, side) ==
    {g \in f.standing[side] : RankIn(timeline, f.standing[side], g) > base[side]}

\* A key of two parts is none of four.
LEMMA KeyForms ==
    ASSUME NEW x, NEW a, NEW b, NEW c
    PROVE  <<"goal", x>> # <<"goal", a, b, c>>
  OBVIOUS

\* The goal entries of a side are about the goals the baseline does not count.
LEMMA GoalEntriesBatch ==
    ASSUME MatchInv, NEW base \in States, NEW f, Reported(f, timeline),
           NEW side \in Sides
    PROVE  Batch(GoalEntries(base, f, side), Uncounted(base, f, side), GoalKeys(base, f, side))
<1> DEFINE S == f.standing[side]
           delta == f[side] - base[side]
           new == NewGoals(base, f, side)
           known == Cardinality(new)
           skipped == IF known > delta THEN known - delta ELSE 0
           q == GoalEntries(base, f, side)
           named(i) == skipped + i <= known
<1>1. /\ base[side] \in Nat /\ f[side] \in Nat /\ f[Other(side)] \in Nat
      /\ f[side] = Cardinality(S)
      /\ S \in SUBSET Elements(timeline) /\ S \subseteq Goal
  BY DEF Sides, States, Reported, Fixtures, Scored, Other
<1>2. timeline \in Seq(Goal \cup Card)
  BY DEF MatchInv
<1>3. new \in SUBSET Elements(timeline) /\ new \subseteq Goal
  BY DEF NewGoals, NewEvents, Reported
<1>4. known \in Nat
  BY <1>2, <1>3, ElementFacts, FS_Subset, FS_CardinalityType
<1>5. delta \in Int /\ skipped \in Nat
  BY <1>1, <1>4
<1>6. /\ DOMAIN q = 1..delta
      /\ \A i \in 1..delta :
            /\ q[i].about = Nth(S, base[side] + i)
            /\ named(i) => q[i].key = <<"goal", Nth(new, skipped + i)>>
            /\ ~ named(i) => q[i].key = <<"goal", side, base[side] + i, f[Other(side)]>>
            /\ q[i] = [key |-> q[i].key, about |-> q[i].about]
  BY DEF GoalEntries, Entry
<1> HIDE DEF q
<1>7. ASSUME NEW i \in 1..delta
      PROVE  /\ q[i].about \in S
             /\ RankIn(timeline, S, q[i].about) = base[side] + i
  <2>1. base[side] + i \in 1..Cardinality(S)
    BY <1>1, <1>5
  <2> QED
    BY <1>1, <1>2, <1>6, <2>1, NthFacts
<1>8. ASSUME NEW i \in 1..delta, named(i)
      PROVE  /\ Nth(new, skipped + i) \in new
             /\ RankIn(timeline, new, Nth(new, skipped + i)) = skipped + i
  <2>1. skipped + i \in 1..Cardinality(new)
    BY <1>4, <1>5, <1>8
  <2> QED
    BY <1>2, <1>3, <2>1, NthFacts
<1> HIDE DEF S, new, known, skipped
<1>9. ASSUME NEW i \in 1..delta PROVE q[i].key \in GoalKeys(base, f, side)
  <2>1. CASE named(i)
    BY <1>6, <1>8, <2>1 DEF GoalKeys, new
  <2>2. CASE ~ named(i)
    <3>1. base[side] + i \in Nat /\ base[side] < base[side] + i /\ base[side] + i <= f[side]
      BY <1>1, <1>5
    <3> DEFINE N == {n \in Nat : base[side] < n /\ n <= f[side]}
               n == base[side] + i
               m == f[Other(side)]
    <3>2. n \in N /\ m \in Nat
      BY <1>1, <3>1
    <3>3. q[i].key = <<"goal", side, n, m>>
      BY <1>6, <2>2
    <3> HIDE DEF N, n, m
    <3>4. q[i].key \in {"goal"} \X {side} \X N \X Nat
      BY <3>2, <3>3
    <3> QED
      BY <3>4 DEF GoalKeys, N
  <2> QED
    BY <2>1, <2>2
<1>10. GoalKeys(base, f, side) \subseteq Keys
  BY <1>3 DEF GoalKeys, Keys, new
<1>11. \A i \in 1..delta : q[i] \in Entries
  <2> SUFFICES ASSUME NEW i \in 1..delta PROVE q[i] \in Entries
    OBVIOUS
  <2>1. q[i].key \in Keys
    BY <1>9, <1>10
  <2>2. q[i].about \in Goal \cup Card \cup {None}
    BY <1>1, <1>7
  <2>3. q[i] = [key |-> q[i].key, about |-> q[i].about]
    BY <1>6
  <2> QED
    BY <2>1, <2>2, <2>3 DEF Entries
<1>12. q \in Seq(Entries)
  <2> DEFINE n == IF delta > 0 THEN delta ELSE 0
  <2>1. n \in Nat /\ 1..delta = 1..n
    BY <1>5
  <2>2. q = [i \in 1..delta |-> q[i]]
    BY DEF q, GoalEntries
  <2> HIDE DEF n
  <2>3. q \in [1..n -> Entries]
    BY <1>11, <2>1, <2>2
  <2> QED
    BY <2>1, <2>3, SeqDef
<1>13. ASSUME NEW g \in Uncounted(base, f, side) PROVE \E i \in DOMAIN q : q[i].about = g
  <2>1. g \in S /\ RankIn(timeline, S, g) > base[side]
    BY DEF Uncounted, S
  <2>2. RankIn(timeline, S, g) \in 1..f[side]
    BY <1>1, <1>2, <2>1, RankRange
  <2> DEFINE i == RankIn(timeline, S, g) - base[side]
  <2>3. i \in 1..delta /\ base[side] + i = RankIn(timeline, S, g)
    BY <1>1, <2>1, <2>2
  <2>4. q[i].about \in S /\ RankIn(timeline, S, q[i].about) = RankIn(timeline, S, g)
    BY <1>7, <2>3
  <2>5. q[i].about = g
    BY <1>1, <1>2, <2>1, <2>4, RankOrder
  <2> QED
    BY <1>6, <2>3, <2>5
<1>14. ASSUME NEW i \in 1..delta, NEW j \in 1..delta, q[i].about = q[j].about PROVE i = j
  BY <1>1, <1>5, <1>7, <1>14
<1>15. ASSUME NEW i \in 1..delta, NEW j \in 1..delta, q[i].key = q[j].key PROVE i = j
  <2>1. CASE named(i) /\ named(j)
    <3>1. Nth(new, skipped + i) = Nth(new, skipped + j)
      BY <1>6, <1>15, <2>1
    <3>2. skipped + i = skipped + j
      BY <1>8, <2>1, <3>1
    <3> QED
      BY <1>5, <3>2
  <2>2. CASE ~ named(i) /\ ~ named(j)
    <3>1. base[side] + i = base[side] + j
      BY <1>6, <1>15, <2>2
    <3> QED
      BY <1>1, <1>5, <3>1
  <2>3. CASE named(i) /\ ~ named(j)
    BY <1>6, <1>15, <2>3, KeyForms
  <2>4. CASE ~ named(i) /\ named(j)
    <3>1. q[j].key = <<"goal", Nth(new, skipped + j)>>
      BY <1>6, <2>4
    <3>2. q[i].key = <<"goal", side, base[side] + i, f[Other(side)]>>
      BY <1>6, <2>4
    <3> QED
      BY <1>15, <3>1, <3>2, KeyForms
  <2> QED
    BY <2>1, <2>2, <2>3, <2>4
<1>16. ASSUME NEW i \in 1..delta PROVE q[i].about \in Uncounted(base, f, side)
  <2>1. base[side] + i > base[side]
    BY <1>1, <1>5
  <2> QED
    BY <1>7, <2>1 DEF Uncounted, S
<1>17. ASSUME NEW i \in 1..delta PROVE q[i].key[1] = "goal"
  BY <1>6
<1> QED
  BY <1>6, <1>9, <1>12, <1>13, <1>14, <1>15, <1>16, <1>17 DEF Batch, q

\* The keys of the cards that are new.
CardKeys(base, f) == {<<"card", c>> : c \in NewEvents(base, f, Card)}

\* The card entries are about no goal, and there is one for each new card.
LEMMA CardEntriesBatch ==
    ASSUME MatchInv, NEW base \in States, NEW f, Reported(f, timeline)
    PROVE  /\ Batch(CardEntries(base, f), {}, CardKeys(base, f))
           /\ \A k \in CardKeys(base, f) :
                 \E i \in DOMAIN CardEntries(base, f) : CardEntries(base, f)[i].key = k
<1> DEFINE new == NewEvents(base, f, Card)
           n == Cardinality(new)
           q == CardEntries(base, f)
<1>1. timeline \in Seq(Goal \cup Card)
  BY DEF MatchInv
<1>2. new \in SUBSET Elements(timeline) /\ new \subseteq Card /\ Goal \cap Card = {}
  BY DetectionAssumption DEF NewEvents, Reported
<1>3. n \in Nat
  BY <1>1, <1>2, ElementFacts, FS_Subset, FS_CardinalityType
<1>4. /\ DOMAIN q = 1..n
      /\ \A i \in 1..n :
            /\ q[i].key = <<"card", Nth(new, i)>>
            /\ q[i].about = Nth(new, i)
            /\ q[i] = [key |-> q[i].key, about |-> q[i].about]
  BY DEF CardEntries, Entry
<1> HIDE DEF q, new
<1>5. \A i \in 1..n : Nth(new, i) \in new /\ RankIn(timeline, new, Nth(new, i)) = i
  BY <1>1, <1>2, NthFacts
<1>6. \A i \in 1..n : q[i].key \in CardKeys(base, f) /\ q[i].about \in Card
  BY <1>2, <1>4, <1>5 DEF CardKeys, new
<1>7. CardKeys(base, f) \subseteq Keys
  BY <1>2 DEF CardKeys, Keys, new
<1>8. q \in Seq(Entries)
  <2>1. ASSUME NEW i \in 1..n PROVE q[i] \in Entries
    BY <1>4, <1>6, <1>7 DEF Entries
  <2>2. q = [i \in 1..n |-> q[i]]
    BY DEF q, CardEntries, new
  <2>3. q \in [1..n -> Entries]
    BY <2>1, <2>2
  <2> QED
    BY <1>3, <2>3, SeqDef
<1>9. ASSUME NEW i \in 1..n, NEW j \in 1..n, q[i].key = q[j].key PROVE i = j
  BY <1>4, <1>5, <1>9
<1>10. ASSUME NEW k \in CardKeys(base, f) PROVE \E i \in DOMAIN q : q[i].key = k
  <2>1. PICK c \in new : k = <<"card", c>>
    BY DEF CardKeys, new
  <2> DEFINE i == RankIn(timeline, new, c)
  <2>2. i \in 1..n
    BY <1>1, <1>2, RankRange
  <2>3. Nth(new, i) \in new /\ RankIn(timeline, new, Nth(new, i)) = RankIn(timeline, new, c)
    BY <1>5, <2>2
  <2>4. Nth(new, i) = c
    BY <1>1, <1>2, <2>3, RankOrder
  <2> QED
    BY <1>4, <2>1, <2>2, <2>4
<1> QED
  BY <1>2, <1>4, <1>6, <1>8, <1>9, <1>10 DEF Batch, q

\* A kick-off or a full-time is about no goal, and has a key per team.
LEMMA LifecycleBatch ==
    ASSUME NEW type \in {"kickoff", "full_time"}
    PROVE  Batch(LifecycleEntries(type), {}, {type} \X Sides)
<1> DEFINE a == Entry(<<type, "home">>, None)
           b == Entry(<<type, "away">>, None)
           q == LifecycleEntries(type)
<1>1. a.about \notin Goal /\ b.about \notin Goal
  BY DetectionAssumption DEF Entry
<1>2. a.key = <<type, "home">> /\ b.key = <<type, "away">>
  BY DEF Entry
<1>3. a \in Entries /\ b \in Entries
  BY DEF Entries, Entry, Keys, Sides
<1>4. q = <<a, b>>
  BY DEF LifecycleEntries
<1> HIDE DEF a, b, q
<1>5. q \in Seq(Entries) /\ DOMAIN q = {1, 2} /\ q[1] = a /\ q[2] = b
  BY <1>3, <1>4
<1>6. a.key # b.key /\ a.key \in {type} \X Sides /\ b.key \in {type} \X Sides
  BY <1>2 DEF Sides
<1> QED
  BY <1>1, <1>5, <1>6 DEF Batch, q

\* The keys a diff may use.
DiffKeys(base, f) ==
    ({"kickoff"} \X Sides) \cup ({"full_time"} \X Sides)
        \cup GoalKeys(base, f, "home") \cup GoalKeys(base, f, "away") \cup CardKeys(base, f)

\* The parts of a diff share no key, and its sides share no goal.
LEMMA DiffPartsDiffer ==
    ASSUME NEW base, NEW f, Reported(f, timeline)
    PROVE  /\ ({"kickoff"} \X Sides) \cap ({"full_time"} \X Sides) = {}
           /\ (({"kickoff"} \X Sides) \cup ({"full_time"} \X Sides))
                 \cap GoalKeys(base, f, "home") = {}
           /\ (({"kickoff"} \X Sides) \cup ({"full_time"} \X Sides)
                 \cup GoalKeys(base, f, "home")) \cap GoalKeys(base, f, "away") = {}
           /\ (({"kickoff"} \X Sides) \cup ({"full_time"} \X Sides)
                 \cup GoalKeys(base, f, "home") \cup GoalKeys(base, f, "away"))
                 \cap CardKeys(base, f) = {}
           /\ Uncounted(base, f, "home") \cap Uncounted(base, f, "away") = {}
<1>1. \A type, k : k \in {type} \X Sides => k[1] = type
  OBVIOUS
<1>2. ASSUME NEW side, NEW k \in GoalKeys(base, f, side) PROVE k[1] = "goal"
  BY DEF GoalKeys
<1>3. \A k \in CardKeys(base, f) : k[1] = "card"
  BY DEF CardKeys
<1>4. GoalKeys(base, f, "home") \cap GoalKeys(base, f, "away") = {}
  <2> SUFFICES ASSUME NEW k, k \in GoalKeys(base, f, "home"), k \in GoalKeys(base, f, "away")
               PROVE  FALSE
    OBVIOUS
  <2> DEFINE Named(side) == \E g \in NewGoals(base, f, side) : k = <<"goal", g>>
             Counted(side) == \E n, m \in Nat : k = <<"goal", side, n, m>>
  <2>1. \A side : k \in GoalKeys(base, f, side) => Named(side) \/ Counted(side)
    BY DEF GoalKeys
  <2>2. \A g : g \in NewGoals(base, f, "home") => g \notin NewGoals(base, f, "away")
    BY DEF NewGoals
  <2>3. ~ (Named("home") /\ Named("away"))
    BY <2>2
  <2>4. ~ (Counted("home") /\ Counted("away"))
    OBVIOUS
  <2>5. ~ (Named("home") /\ Counted("away")) /\ ~ (Counted("home") /\ Named("away"))
    BY KeyForms
  <2> QED
    BY <2>1, <2>3, <2>4, <2>5
<1>5. Uncounted(base, f, "home") \cap Uncounted(base, f, "away") = {}
  BY DEF Uncounted, Reported, Scored, Sides
<1> QED
  BY <1>1, <1>2, <1>3, <1>4, <1>5

\* A diff of a match in an ordinary state tells the goals of both sides that
\* the baseline does not count, and every new card.
LEMMA DiffOrdinary ==
    ASSUME MatchInv, NEW base \in States, NEW f, Reported(f, timeline),
           f.status \notin {"suspended", "postponed"}
    PROVE  /\ Batch(Diff(base, f), Uncounted(base, f, "home") \cup Uncounted(base, f, "away"),
                    DiffKeys(base, f))
           /\ \A k \in CardKeys(base, f) :
                 \E i \in DOMAIN Diff(base, f) : Diff(base, f)[i].key = k
<1> DEFINE K1 == {"kickoff"} \X Sides
           K2 == {"full_time"} \X Sides
           KH == GoalKeys(base, f, "home")
           KA == GoalKeys(base, f, "away")
           KC == CardKeys(base, f)
           H == Uncounted(base, f, "home")
           A == Uncounted(base, f, "away")
           kick == IF base.status \in {"scheduled", "postponed"} /\ f.status = "live"
                   THEN LifecycleEntries("kickoff") ELSE <<>>
           full == IF base.status # "finished" /\ f.status = "finished"
                   THEN LifecycleEntries("full_time") ELSE <<>>
           home == GoalEntries(base, f, "home")
           away == GoalEntries(base, f, "away")
           cards == CardEntries(base, f)
<1>1. Batch(kick, {}, K1) /\ Batch(full, {}, K2)
  BY LifecycleBatch, EmptyBatch, BatchWider
<1>2. Batch(home, H, KH) /\ Batch(away, A, KA)
  BY GoalEntriesBatch DEF Sides
<1>3. Batch(cards, {}, KC) /\ \A k \in KC : \E i \in DOMAIN cards : cards[i].key = k
  BY CardEntriesBatch
<1>4. /\ K1 \cap K2 = {}
      /\ (K1 \cup K2) \cap KH = {}
      /\ (K1 \cup K2 \cup KH) \cap KA = {}
      /\ (K1 \cup K2 \cup KH \cup KA) \cap KC = {}
      /\ H \cap A = {}
  BY DiffPartsDiffer
<1>5. Diff(base, f) = kick \o full \o home \o away \o cards
  BY DEF Diff, Reported, Fixtures, Statuses
<1>6. DiffKeys(base, f) = K1 \cup K2 \cup KH \cup KA \cup KC
  BY DEF DiffKeys
<1> HIDE DEF K1, K2, KH, KA, KC, H, A, kick, full, home, away, cards
<1>7. Batch(kick \o full, {}, K1 \cup K2)
  BY <1>1, <1>4, BatchConcat
<1>8. Batch(kick \o full \o home, H, K1 \cup K2 \cup KH)
  BY <1>2, <1>4, <1>7, BatchConcat
<1>9. Batch(kick \o full \o home \o away, H \cup A, K1 \cup K2 \cup KH \cup KA)
  BY <1>2, <1>4, <1>8, BatchConcat
<1>10. Batch(kick \o full \o home \o away \o cards, H \cup A,
             K1 \cup K2 \cup KH \cup KA \cup KC)
  BY <1>3, <1>4, <1>9, BatchConcat
<1>11. ASSUME NEW k \in KC PROVE \E i \in DOMAIN Diff(base, f) : Diff(base, f)[i].key = k
  <2> DEFINE s == kick \o full \o home \o away
  <2>1. s \in Seq(Entries) /\ cards \in Seq(Entries)
    BY <1>3, <1>9 DEF Batch
  <2> HIDE DEF s
  <2>2. PICK j \in DOMAIN cards : cards[j].key = k
    BY <1>3
  <2>3. j + Len(s) \in DOMAIN (s \o cards) /\ (s \o cards)[j + Len(s)] = cards[j]
    BY <2>1, ConcatFacts
  <2> QED
    BY <1>5, <2>2, <2>3 DEF s
<1> QED
  BY <1>5, <1>6, <1>10, <1>11 DEF H, A, KC

\* So it does while the match is postponed, when there is nothing to tell.
LEMMA DiffBatch ==
    ASSUME MatchInv, NEW base \in States, NEW f, Reported(f, timeline),
           f.status # "suspended"
    PROVE  /\ Batch(Diff(base, f), Uncounted(base, f, "home") \cup Uncounted(base, f, "away"),
                    DiffKeys(base, f))
           /\ \A k \in CardKeys(base, f) :
                 \E i \in DOMAIN Diff(base, f) : Diff(base, f)[i].key = k
<1>1. CASE f.status = "postponed"
  <2>1. f.events = {} /\ f.standing["home"] = {} /\ f.standing["away"] = {}
    BY <1>1 DEF Reported, Sides
  <2>2. Diff(base, f) = <<>>
    BY <1>1 DEF Diff
  <2>3. Uncounted(base, f, "home") = {} /\ Uncounted(base, f, "away") = {}
    BY <2>1 DEF Uncounted
  <2>4. CardKeys(base, f) = {}
    BY <2>1 DEF CardKeys, NewEvents
  <2>5. Batch(<<>>, {}, DiffKeys(base, f))
    BY EmptyBatch, BatchWider
  <2> QED
    BY <2>2, <2>3, <2>4, <2>5
<1>2. CASE f.status # "postponed"
  BY <1>2, DiffOrdinary
<1> QED
  BY <1>1, <1>2

\* While the match is suspended nothing is told.
LEMMA DiffSuspended ==
    ASSUME NEW base, NEW f, f.status = "suspended"
    PROVE  Diff(base, f) = <<>>
  BY DEF Diff

----------------------------------------------------------------------------
(* Types.                                                                   *)

\* What was reported stays something the provider has given out.
LEMMA ReportedLater ==
    ASSUME NEW f, NEW t, NEW u, Elements(t) \subseteq Elements(u), Reported(f, t)
    PROVE  Reported(f, u)
  BY DEF Reported, Scored

\* What the provider gives out now is a fixture.
LEMMA FixtureReported ==
    ASSUME MatchInv
    PROVE  Reported(Fixture, timeline) /\ RowOf(Fixture) \in Rows /\ Kept(Fixture) \in States
<1>1. timeline \in Seq(Goal \cup Card)
  BY DEF MatchInv
<1>2. /\ Standing("home") \in SUBSET Elements(timeline)
      /\ Standing("away") \in SUBSET Elements(timeline)
  BY DEF Standing
<1>3. Cardinality(Standing("home")) \in Nat /\ Cardinality(Standing("away")) \in Nat
  BY <1>1, <1>2, ElementFacts, FS_Subset, FS_CardinalityType
<1>4. \A side \in Sides : Standing(side) \subseteq Scored(timeline, side)
  BY DEF Standing, Scored
<1>5. [side \in Sides |-> Standing(side)] \in [Sides -> SUBSET Goal]
  BY DEF Standing
<1>6. published \ void \in SUBSET (Goal \cup Card) /\ published \ void \subseteq Elements(timeline)
  BY <1>1, ElementFacts DEF MatchInv
<1>7. Fixture \in Fixtures
  BY <1>3, <1>5, <1>6 DEF Fixture, Fixtures, MatchInv
<1>8. status = "postponed" => Elements(timeline) = {}
  BY ElementFacts DEF MatchInv, Elements
<1>9. status = "postponed" => published \ void = {} /\ \A side \in Sides : Standing(side) = {}
  BY <1>6, <1>8 DEF Standing
<1>10. Reported(Fixture, timeline)
  BY <1>4, <1>6, <1>7, <1>9 DEF Reported, Fixture, Sides
<1> QED
  BY <1>7, <1>10 DEF RowOf, Kept, Rows, States, Fixtures

\* A fixture is written as a row and as a state.
LEMMA WrittenTypes ==
    ASSUME NEW f \in Fixtures
    PROVE  RowOf(f) \in Rows /\ Kept(f) \in States
  BY DEF Fixtures, RowOf, Kept, Rows, States

\* The match goes on from what it was.
LEMMA ProviderMatch ==
    ASSUME MatchInv, ProviderStep
    PROVE  /\ MatchInv'
           /\ Extends(timeline, timeline')
           /\ Elements(timeline) \subseteq Elements(timeline')
           /\ UNCHANGED <<dated, store, poller, opening, told, mishaps, window>>
<1> USE DEF MatchInv
<1>0. DOMAIN timeline = 1..Len(timeline) /\ Len(timeline) \in Nat
  BY ElementFacts
<1>1. UNCHANGED <<dated, store, poller, opening, told, mishaps, window>>
  BY DEF ProviderStep, KickOff, Score, PublishScorer, Disallow, Book, Postpone, Suspend, FullTime, history
<1>2. ASSUME NEW x \in Goal \cup Card, x \notin Elements(timeline), timeline' = Append(timeline, x),
             published' \in {published, published \cup {x}}, UNCHANGED <<status, void>>,
             status = "live"
      PROVE  /\ MatchInv'
             /\ Extends(timeline, timeline')
             /\ Elements(timeline) \subseteq Elements(timeline')
  <2>1. /\ timeline' \in Seq(Goal \cup Card)
        /\ DOMAIN timeline' = DOMAIN timeline \cup {Len(timeline) + 1}
        /\ \A i \in DOMAIN timeline : timeline'[i] = timeline[i]
        /\ timeline'[Len(timeline) + 1] = x
        /\ Elements(timeline') = Elements(timeline) \cup {x}
    BY <1>2, AppendFacts
  <2>2. \A i \in DOMAIN timeline : timeline'[i] # x
    BY <1>2, <2>1 DEF Elements
  <2>3. \A i, j \in DOMAIN timeline' : timeline'[i] = timeline'[j] => i = j
    BY <2>1, <2>2
  <2>4. published' \subseteq Elements(timeline)'
    BY <1>2, <2>1 DEF Elements
  <2> QED
    BY <1>1, <1>2, <2>1, <2>3, <2>4 DEF Extends
<1>3. ASSUME timeline' = timeline, void' \subseteq Goal, status' \in Statuses,
             published' \subseteq Elements(timeline),
             status' \in {"scheduled", "postponed"} => timeline = <<>>
      PROVE  /\ MatchInv'
             /\ Extends(timeline, timeline')
             /\ Elements(timeline) \subseteq Elements(timeline')
  BY <1>1, <1>3 DEF Extends, Elements
<1>4. CASE \E g \in Goal : Score(g)
  BY <1>1, <1>2, <1>4 DEF Score
<1>5. CASE \E c \in Card : Book(c)
  BY <1>1, <1>2, <1>5 DEF Book
<1>6. CASE \E g \in Goal : PublishScorer(g)
  BY <1>1, <1>3, <1>6 DEF PublishScorer
<1>7. CASE \E g \in Goal : Disallow(g)
  BY <1>1, <1>3, <1>7 DEF Disallow
<1>8. CASE KickOff \/ Postpone \/ Suspend \/ FullTime
  BY <1>1, <1>3, <1>8 DEF KickOff, Postpone, Suspend, FullTime, Statuses
<1> QED
  BY <1>4, <1>5, <1>6, <1>7, <1>8 DEF ProviderStep

\* Every other step.
OtherStep ==
    \/ Time
    \/ LoseCache
    \/ StoreFeed
    \/ ExpireFeed
    \/ \E k \in jobs : RunJob(k)
    \/ \E p \in Poller : PollerStep(p) \/ Crash(p)

\* They leave the match alone.
LEMMA OtherMatch ==
    ASSUME OtherStep
    PROVE  UNCHANGED <<provider, opening>>
<1>1. ASSUME NEW p \in Poller, PollerStep(p) PROVE UNCHANGED <<provider, opening>>
  BY <1>1 DEF PollerStep, Begin, Fetch, Detect, Emit, Notify, NotifyRaises, SaveRedis, SaveRow,
              Retry, history
<1>2. ASSUME NEW p \in Poller, Crash(p) PROVE UNCHANGED <<provider, opening>>
  BY <1>2 DEF Crash, history
<1>3. CASE Time \/ LoseCache \/ StoreFeed \/ ExpireFeed \/ \E k \in jobs : RunJob(k)
  BY <1>3 DEF Time, LoseCache, StoreFeed, ExpireFeed, RunJob, history
<1> QED
  BY <1>1, <1>2, <1>3 DEF OtherStep

\* Whatever happens, the match goes on from what it was.
LEMMA MatchStep ==
    ASSUME MatchInv, [Next]_vars
    PROVE  /\ MatchInv'
           /\ Extends(timeline, timeline')
           /\ Elements(timeline) \subseteq Elements(timeline')
           /\ opening' = opening
           /\ ProviderStep \/ UNCHANGED provider
<1>1. CASE ProviderStep
  BY <1>1, ProviderMatch
<1>2. CASE OtherStep \/ UNCHANGED vars
  <2>1. UNCHANGED <<provider, opening>>
    BY <1>2, OtherMatch DEF vars, history
  <2> QED
    BY <2>1 DEF MatchInv, Extends, Elements, provider
<1> QED
  BY <1>1, <1>2 DEF Next, OtherStep

\* What PollerInv says of one poller.
PollerFits(p) ==
    /\ pc[p] \in {"fetch", "diff"} => rowRead[p] \in Rows
    /\ pc[p] \in WithSnap => Reported(snap[p], timeline)
    /\ pc[p] = "notify" => queue[p] # <<>> /\ Head(queue[p]).key \in Elements(ledger)

\* A step of one poller leaves what the others have alone.
LEMMA OthersStay ==
    ASSUME PollerInv, NEW p \in Poller, PollerStep(p) \/ Crash(p)
    PROVE  /\ \A q \in Poller \ {p} :
                 /\ pc'[q] = pc[q]
                 /\ rowRead'[q] = rowRead[q]
                 /\ snap'[q] = snap[q]
                 /\ queue'[q] = queue[q]
           /\ pc' = [q \in Poller |-> pc'[q]] /\ rowRead' = [q \in Poller |-> rowRead'[q]]
           /\ snap' = [q \in Poller |-> snap'[q]] /\ queue' = [q \in Poller |-> queue'[q]]
<1> DEFINE R == /\ \A q \in Poller \ {p} :
                      /\ pc'[q] = pc[q]
                      /\ rowRead'[q] = rowRead[q]
                      /\ snap'[q] = snap[q]
                      /\ queue'[q] = queue[q]
                /\ pc' = [q \in Poller |-> pc'[q]] /\ rowRead' = [q \in Poller |-> rowRead'[q]]
                /\ snap' = [q \in Poller |-> snap'[q]] /\ queue' = [q \in Poller |-> queue'[q]]
<1> USE DEF PollerInv
<1>1. CASE Begin(p)
  BY <1>1 DEF Begin
<1>2. CASE Fetch(p)
  BY <1>2 DEF Fetch, Obtain
<1>3. CASE Detect(p)
  BY <1>3 DEF Detect
<1>4. CASE Emit(p)
  BY <1>4 DEF Emit
<1>5. CASE Notify(p)
  BY <1>5 DEF Notify
<1>6. CASE NotifyRaises(p) \/ SaveRow(p) \/ Crash(p)
  BY <1>6 DEF NotifyRaises, SaveRow, Crash, CutShort
<1>7. CASE SaveRedis(p) \/ Retry(p)
  BY <1>7 DEF SaveRedis, Retry
<1> QED
  BY <1>1, <1>2, <1>3, <1>4, <1>5, <1>6, <1>7 DEF PollerStep

\* What Detect compares the fixture with.
Baseline(p) ==
    IF redis # None
    THEN redis
    ELSE [status |-> rowRead[p].status, home |-> rowRead[p].home,
          away |-> rowRead[p].away, events |-> {}]

\* A baseline is a state, and what is diffed against it becomes entries.
LEMMA DetectTypes ==
    ASSUME CoreInv, NEW p \in Poller, Detect(p)
    PROVE  /\ Baseline(p) \in States
           /\ queue'[p] = Diff(Baseline(p), snap[p])
           /\ queue'[p] \in Seq(Entries)
<1>1. rowRead[p] \in Rows /\ redis \in States \cup {None} /\ Reported(snap[p], timeline)
  BY DEF CoreInv, StoreInv, PollerInv, Detect, WithSnap
<1>2. Baseline(p) \in States
  <2>1. rowRead[p].status \in Statuses /\ rowRead[p].home \in Nat /\ rowRead[p].away \in Nat
    BY <1>1 DEF Rows
  <2> QED
    BY <1>1, <2>1 DEF Baseline, States
<1>3. queue'[p] = Diff(Baseline(p), snap[p])
  BY DEF Detect, Baseline, CoreInv, PollerInv
<1>4. MatchInv
  BY DEF CoreInv
<1>5. ASSUME NEW base \in States, NEW f, Reported(f, timeline)
      PROVE  Diff(base, f) \in Seq(Entries)
  <2>1. CASE f.status = "suspended"
    <3>1. Diff(base, f) = <<>>
      BY <2>1, DiffSuspended
    <3>2. <<>> \in Seq(Entries)
      BY EmptySeq
    <3> QED
      BY <3>1, <3>2
  <2>2. CASE f.status # "suspended"
    BY <1>4, <1>5, <2>2, DiffBatch DEF Batch
  <2> QED
    BY <2>1, <2>2
<1> QED
  BY <1>1, <1>2, <1>3, <1>5

\* The head of a queue is an entry, and the rest are too.
LEMMA QueueTypes ==
    ASSUME PollerInv, NEW p \in Poller, queue[p] # <<>>
    PROVE  /\ Head(queue[p]) \in Entries
           /\ Head(queue[p]).key \in Keys
           /\ Tail(queue[p]) \in Seq(Entries)
<1>1. queue[p] \in Seq(Entries)
  BY DEF PollerInv
<1>2. Head(queue[p]) \in Entries
  BY <1>1, HeadTailProperties
<1> QED
  BY <1>1, <1>2, HeadTailProperties DEF Entries

\* The types of its own state, and of the store, after a poller's step.
PollerTyped(p) ==
    /\ pc'[p] \in {"idle", "fetch", "diff", "emit", "notify", "save", "retry"}
    /\ rowRead'[p] \in Rows \cup {None}
    /\ snap'[p] \in Fixtures \cup {None}
    /\ queue'[p] \in Seq(Entries)
    /\ PollerFits(p)'
    /\ Elements(ledger) \subseteq Elements(ledger')
    /\ StoreInv'

\* Every step of a poller, and a crash, keeps them.
LEMMA PollerTypes ==
    ASSUME CoreInv, NEW p \in Poller, PollerStep(p) \/ Crash(p)
    PROVE  PollerTyped(p)
<1> USE DEF CoreInv, provider, store, poller, history
<1>0. /\ pc[p] \in {"idle", "fetch", "diff", "emit", "notify", "save", "retry"}
      /\ rowRead[p] \in Rows \cup {None}
      /\ snap[p] \in Fixtures \cup {None}
      /\ queue[p] \in Seq(Entries)
      /\ PollerFits(p)
      /\ DOMAIN pc = Poller /\ DOMAIN rowRead = Poller
      /\ DOMAIN snap = Poller /\ DOMAIN queue = Poller
  BY DEF PollerInv, PollerFits
<1>00. timeline' = timeline
  BY OtherMatch DEF OtherStep
<1>s. ASSUME UNCHANGED <<row, redis, dated, ledger, delivered, jobs, told, mishaps, window>>
      PROVE  StoreInv' /\ Elements(ledger) \subseteq Elements(ledger')
  BY <1>00, <1>s DEF StoreInv
<1>k. ASSUME NEW keys \in SUBSET Elements(ledger), HandOver(p, keys),
             UNCHANGED <<row, redis, dated, ledger, told, mishaps, window>>
      PROVE  StoreInv' /\ Elements(ledger) \subseteq Elements(ledger')
  BY <1>00, <1>k DEF StoreInv, HandOver
<1>c. ASSUME NEW next \in {"idle", "retry"}, CutShort(p, next)
      PROVE  /\ pc'[p] = next /\ rowRead'[p] = None /\ snap'[p] = None
             /\ queue'[p] \in Seq(Entries) /\ PollerFits(p)'
  BY <1>0, <1>c, EmptySeq DEF CutShort, PollerFits, WithSnap
<1>1. CASE Begin(p)
  <2>1. row \in Rows
    BY DEF StoreInv
  <2>2. StoreInv' /\ Elements(ledger) \subseteq Elements(ledger')
    BY <1>1, <1>s DEF Begin
  <2> QED
    BY <1>0, <1>1, <2>1, <2>2 DEF Begin, PollerTyped, PollerFits, WithSnap
<1>2. CASE Fetch(p)
  <2>1. Reported(Fixture, timeline) /\ (dated # None => Reported(dated, timeline))
    BY FixtureReported DEF StoreInv
  <2>2. dated' \in {dated, Fixture, None}
    BY <1>2 DEF Fetch
  <2>3. StoreInv' /\ Elements(ledger) \subseteq Elements(ledger')
    BY <1>00, <1>2, <2>1, <2>2 DEF Fetch, StoreInv
  <2>4. ASSUME NEW f, Reported(f, timeline), Obtain(p, f), UNCHANGED queue PROVE PollerTyped(p)
    <3>1. f \in Fixtures
      BY <2>4 DEF Reported
    <3>2. pc'[p] = "diff" /\ snap'[p] = f /\ rowRead'[p] = rowRead[p] /\ queue'[p] = queue[p]
      BY <1>0, <2>4 DEF Obtain
    <3>3. rowRead[p] \in Rows
      BY <1>0, <1>2 DEF PollerFits, Fetch
    <3>4. PollerFits(p)'
      BY <1>00, <2>4, <3>2, <3>3 DEF PollerFits
    <3> QED
      BY <1>0, <2>3, <3>1, <3>2, <3>4 DEF PollerTyped
  <2>5. CASE pc' = [pc EXCEPT ![p] = "retry"]
    BY <1>0, <1>2, <2>3, <2>5 DEF Fetch, Obtain, PollerTyped, PollerFits, WithSnap
  <2> QED
    BY <1>2, <2>1, <2>4, <2>5 DEF Fetch
<1>3. CASE Detect(p)
  <2>1. queue'[p] \in Seq(Entries)
    BY <1>3, DetectTypes
  <2>2. StoreInv' /\ Elements(ledger) \subseteq Elements(ledger')
    BY <1>3, <1>s DEF Detect
  <2>3. pc'[p] = "emit" /\ rowRead'[p] = None /\ snap'[p] = snap[p]
    BY <1>0, <1>3 DEF Detect
  <2>4. PollerFits(p)'
    BY <1>0, <1>00, <1>3, <2>3 DEF Detect, PollerFits, WithSnap
  <2> QED
    BY <1>0, <2>1, <2>2, <2>3, <2>4 DEF PollerTyped
<1>4. CASE Emit(p)
  <2> DEFINE e == Head(queue[p])
  <2>1. e.key \in Keys /\ Tail(queue[p]) \in Seq(Entries)
    BY <1>4, QueueTypes DEF Emit
  <2>2. rowRead'[p] = rowRead[p] /\ snap'[p] = snap[p] /\ pc[p] = "emit"
    BY <1>4 DEF Emit
  <2>3. CASE e.key \in Elements(ledger)
    <3>1. StoreInv' /\ Elements(ledger) \subseteq Elements(ledger')
      BY <1>4, <1>s, <2>3 DEF Emit
    <3>2. queue'[p] = Tail(queue[p]) /\ pc'[p] = "emit"
      BY <1>0, <1>4, <2>3 DEF Emit
    <3>3. PollerFits(p)'
      BY <1>0, <1>00, <2>2, <3>2 DEF PollerFits, WithSnap
    <3> QED
      BY <1>0, <2>1, <2>2, <3>1, <3>2, <3>3 DEF PollerTyped
  <2>4. CASE e.key \notin Elements(ledger)
    <3>1. ledger' = Append(ledger, e.key) /\ queue'[p] = queue[p] /\ pc'[p] = "notify"
      BY <1>0, <1>4, <2>4 DEF Emit
    <3>2. ledger' \in Seq(Keys) /\ Elements(ledger') = Elements(ledger) \cup {e.key}
      BY <2>1, <3>1, AppendFacts DEF StoreInv
    <3>3. told' \in [Goal -> Nat]
      BY <1>4, <2>4 DEF Emit, StoreInv
    <3>4. StoreInv'
      BY <1>00, <1>4, <3>2, <3>3 DEF Emit, StoreInv
    <3>5. PollerFits(p)'
      BY <1>0, <1>00, <1>4, <2>2, <3>1, <3>2 DEF Emit, PollerFits, WithSnap
    <3> QED
      BY <1>0, <2>2, <3>1, <3>2, <3>4, <3>5 DEF PollerTyped
  <2> QED
    BY <2>3, <2>4
<1>5. CASE Notify(p)
  <2>1. queue[p] # <<>> /\ Head(queue[p]).key \in Elements(ledger)
    BY <1>0, <1>5 DEF PollerFits, Notify
  <2>2. StoreInv' /\ Elements(ledger) \subseteq Elements(ledger')
    BY <1>5, <1>k, <2>1 DEF Notify
  <2>3. Tail(queue[p]) \in Seq(Entries)
    BY <2>1, QueueTypes
  <2>4. /\ pc'[p] = "emit" /\ queue'[p] = Tail(queue[p])
        /\ rowRead'[p] = rowRead[p] /\ snap'[p] = snap[p] /\ pc[p] = "notify"
    BY <1>0, <1>5 DEF Notify
  <2>5. PollerFits(p)'
    BY <1>0, <1>00, <2>4 DEF PollerFits, WithSnap
  <2> QED
    BY <1>0, <2>2, <2>3, <2>4, <2>5 DEF PollerTyped
<1>6. CASE NotifyRaises(p)
  <2>1. queue[p] # <<>> /\ Head(queue[p]).key \in Elements(ledger)
    BY <1>0, <1>6 DEF PollerFits, NotifyRaises
  <2>2. StoreInv' /\ Elements(ledger) \subseteq Elements(ledger')
    BY <1>6, <1>k, <1>s, <2>1 DEF NotifyRaises
  <2> QED
    BY <1>6, <1>c, <2>2 DEF NotifyRaises, PollerTyped
<1>7. CASE SaveRedis(p)
  <2>1. Reported(snap[p], timeline)
    BY <1>0, <1>7 DEF SaveRedis, PollerFits, WithSnap
  <2>2. redis' \in States
    BY <1>7, <2>1, WrittenTypes DEF SaveRedis, Reported
  <2>3. StoreInv' /\ Elements(ledger) \subseteq Elements(ledger')
    BY <1>00, <1>7, <2>2 DEF SaveRedis, StoreInv
  <2>4. pc'[p] = "save" /\ UNCHANGED <<queue, rowRead, snap>>
    BY <1>0, <1>7 DEF SaveRedis
  <2>5. PollerFits(p)'
    BY <1>00, <2>1, <2>4 DEF PollerFits
  <2> QED
    BY <1>0, <2>3, <2>4, <2>5 DEF PollerTyped
<1>8. CASE SaveRow(p)
  <2>1. Reported(snap[p], timeline)
    BY <1>0, <1>8 DEF SaveRow, PollerFits, WithSnap
  <2>2. row' \in Rows
    BY <1>8, <2>1, WrittenTypes DEF SaveRow, Reported
  <2>3. StoreInv' /\ Elements(ledger) \subseteq Elements(ledger')
    BY <1>00, <1>8, <2>2 DEF SaveRow, StoreInv
  <2> QED
    BY <1>8, <1>c, <2>3 DEF SaveRow, PollerTyped
<1>9. CASE Retry(p)
  <2>1. Pending \subseteq Elements(ledger)
    BY DEF Pending, Elements
  <2>2. PICK keys \in SUBSET Elements(ledger) : HandOver(p, keys)
    BY <1>9, <2>1 DEF Retry
  <2>3. StoreInv' /\ Elements(ledger) \subseteq Elements(ledger')
    BY <1>9, <1>k, <2>2 DEF Retry
  <2>4. pc'[p] = "idle" /\ UNCHANGED <<queue, rowRead, snap>>
    BY <1>0, <1>9 DEF Retry
  <2> QED
    BY <1>0, <2>3, <2>4 DEF PollerTyped, PollerFits, WithSnap
<1>10. CASE Crash(p)
  <2>1. StoreInv' /\ Elements(ledger) \subseteq Elements(ledger')
    BY <1>00, <1>10, DetectionAssumption DEF Crash, StoreInv
  <2> QED
    BY <1>10, <1>c, <2>1 DEF Crash, PollerTyped
<1> QED
  BY <1>1, <1>2, <1>3, <1>4, <1>5, <1>6, <1>7, <1>8, <1>9, <1>10 DEF PollerStep

\* The types of match, store and pollers are kept by every step.
LEMMA CoreStep == CoreInv /\ [Next]_vars => CoreInv'
<1> SUFFICES ASSUME CoreInv, [Next]_vars PROVE CoreInv'
  OBVIOUS
<1> USE DEF CoreInv
<1>1. MatchInv' /\ Elements(timeline) \subseteq Elements(timeline')
  BY MatchStep
<1>2. \A f : Reported(f, timeline) => Reported(f, timeline')
  BY <1>1, ReportedLater
<1>3. ASSUME UNCHANGED poller, Elements(ledger) \subseteq Elements(ledger') PROVE PollerInv'
  BY <1>2, <1>3 DEF PollerInv, poller
<1>4. CASE ProviderStep
  <2>1. UNCHANGED <<dated, store, poller, told, mishaps, window>>
    BY <1>4, ProviderMatch
  <2>2. StoreInv'
    BY <1>2, <2>1 DEF StoreInv, store
  <2> QED
    BY <1>1, <1>3, <2>1, <2>2 DEF store
<1>5. CASE UNCHANGED vars
  BY <1>1, <1>2, <1>3, <1>5 DEF vars, store, history, StoreInv
<1>6. CASE LoseCache \/ StoreFeed \/ ExpireFeed
  <2>1. Reported(Fixture, timeline)
    BY FixtureReported
  <2>2. UNCHANGED <<row, ledger, delivered, poller, told, mishaps, window>> /\ jobs' \in {jobs, {}}
        /\ redis' \in {redis, None} /\ dated' \in {dated, None, Fixture}
    BY <1>6 DEF LoseCache, StoreFeed, ExpireFeed, store, history
  <2>3. StoreInv'
    BY <1>2, <2>1, <2>2 DEF StoreInv
  <2> QED
    BY <1>1, <1>3, <2>2, <2>3
<1>7. ASSUME NEW k \in jobs, RunJob(k) PROVE CoreInv'
  <2>1. UNCHANGED <<row, redis, dated, ledger, poller, told, mishaps, window>>
        /\ jobs' \subseteq jobs /\ delivered' \subseteq delivered \cup {k}
    BY <1>7 DEF RunJob, history
  <2>2. StoreInv'
    BY <1>2, <2>1 DEF StoreInv
  <2> QED
    BY <1>1, <1>3, <2>1, <2>2
<1>8. ASSUME NEW p \in Poller, PollerStep(p) \/ Crash(p) PROVE CoreInv'
  <2>1. PollerTyped(p)
    BY <1>8, PollerTypes
  <2>2. /\ \A q \in Poller \ {p} :
              /\ pc'[q] = pc[q]
              /\ rowRead'[q] = rowRead[q]
              /\ snap'[q] = snap[q]
              /\ queue'[q] = queue[q]
        /\ pc' = [q \in Poller |-> pc'[q]] /\ rowRead' = [q \in Poller |-> rowRead'[q]]
        /\ snap' = [q \in Poller |-> snap'[q]] /\ queue' = [q \in Poller |-> queue'[q]]
    BY <1>8, OthersStay
  <2>3. ASSUME NEW q \in Poller
        PROVE  /\ pc'[q] \in {"idle", "fetch", "diff", "emit", "notify", "save", "retry"}
               /\ rowRead'[q] \in Rows \cup {None}
               /\ snap'[q] \in Fixtures \cup {None}
               /\ queue'[q] \in Seq(Entries)
               /\ PollerFits(q)'
    <3>1. CASE q = p
      BY <2>1, <3>1 DEF PollerTyped
    <3>2. CASE q # p
      BY <1>2, <2>1, <2>2, <3>2 DEF PollerTyped, PollerInv, PollerFits
    <3> QED
      BY <3>1, <3>2
  <2>4. /\ pc' \in [Poller -> {"idle", "fetch", "diff", "emit", "notify", "save", "retry"}]
        /\ rowRead' \in [Poller -> Rows \cup {None}]
        /\ snap' \in [Poller -> Fixtures \cup {None}]
        /\ queue' \in [Poller -> Seq(Entries)]
    BY <2>2, <2>3
  <2>5. PollerInv'
    BY <2>3, <2>4 DEF PollerInv, PollerFits
  <2> QED
    BY <1>1, <2>1, <2>5 DEF PollerTyped
<1>9. CASE Time
  <2>1. UNCHANGED <<store, dated, poller, told>> /\ window' \in Windows /\ mishaps' \in 0..MaxMishaps
    BY <1>9, DetectionAssumption
    DEF Time, Open, Close, Reschedule, Windows, StoreInv, history
  <2>2. StoreInv'
    BY <1>2, <2>1 DEF StoreInv, store
  <2> QED
    BY <1>1, <1>3, <2>1, <2>2 DEF store
<1> QED
  BY <1>4, <1>5, <1>6, <1>7, <1>8, <1>9 DEF Next

\* Discovery leaves everything with its type.
LEMMA CoreInit == Init => CoreInv
<1> SUFFICES ASSUME Init PROVE CoreInv
  OBVIOUS
<1> USE DEF Init
<1>1. opening \in Seq(Goal \cup Card) /\ \A i, j \in DOMAIN opening : opening[i] = opening[j] => i = j
  BY DetectionAssumption
<1>2. MatchInv
  BY <1>1 DEF MatchInv, Statuses
<1>3. row \in Rows
  BY <1>2, FixtureReported
<1>4. Elements(ledger) = {} /\ ledger \in Seq(Keys) /\ <<>> \in Seq(Entries)
  BY EmptySeq, ElementFacts DEF Elements
<1>5. mishaps \in 0..MaxMishaps /\ told \in [Goal -> Nat] /\ window \in Windows
  BY DetectionAssumption DEF Windows
<1>6. StoreInv
  BY <1>3, <1>4, <1>5 DEF StoreInv
<1>7. PollerInv
  BY <1>4 DEF PollerInv, WithSnap
<1> QED
  BY <1>2, <1>6, <1>7 DEF CoreInv

\* Every variable has its type, for any match, pollers and disturbances.
THEOREM DetectionTypes == Spec => []TypeOK
<1>1. Spec => []CoreInv
  BY CoreInit, CoreStep, PTL DEF Spec
<1>2. CoreInv => TypeOK
  <2> SUFFICES ASSUME CoreInv PROVE TypeOK
    OBVIOUS
  <2>1. published \subseteq Goal \cup Card
    BY ElementFacts DEF CoreInv, MatchInv
  <2>2. Elements(ledger) \subseteq Keys
    BY ElementFacts DEF CoreInv, StoreInv
  <2>3. ASSUME NEW p \in Poller, NEW e \in Elements(queue[p]) PROVE e.key \in Keys
    <3>1. queue[p] \in Seq(Entries)
      BY DEF CoreInv, PollerInv
    <3>2. e \in Entries
      BY <2>3, <3>1, ElementFacts
    <3> QED
      BY <3>2 DEF Entries
  <2> QED
    BY <2>1, <2>2, <2>3 DEF CoreInv, MatchInv, StoreInv, PollerInv, TypeOK
<1> QED
  BY <1>1, <1>2, PTL

----------------------------------------------------------------------------
(* No goal is made up for a score from before discovery.                    *)

\* The timeline goes on from the one at discovery.
LEMMA OpeningFirst ==
    ASSUME MatchInv
    PROVE  /\ Extends(opening, timeline)
           /\ Elements(opening) \subseteq Elements(timeline)
           /\ \A x \in Elements(opening), y \in Elements(timeline) :
                 PlaceIn(timeline, y) <= PlaceIn(timeline, x) => y \in Elements(opening)
<1>1. Extends(opening, timeline)
  BY DEF MatchInv, Extends
<1> QED
  BY <1>1, PlaceStays DEF MatchInv

\* The score of a fixture that has the goals from before discovery counts them.
LEMMA FirstCounts ==
    ASSUME MatchInv, NEW f, Reported(f, timeline), CountsFirst(f)
    PROVE  Counts(f) /\ Counts(RowOf(f)) /\ Counts(Kept(f))
<1>1. ASSUME NEW side \in Sides PROVE f[side] >= Cardinality(Before(side))
  <2>1. IsFiniteSet(Elements(timeline)) /\ f.standing[side] \in SUBSET Elements(timeline)
    BY ElementFacts DEF MatchInv, Reported, Scored
  <2>2. IsFiniteSet(f.standing[side]) /\ Before(side) \in SUBSET f.standing[side]
    BY <2>1, FS_Subset DEF CountsFirst
  <2>3. /\ Cardinality(Before(side)) <= Cardinality(f.standing[side])
        /\ Cardinality(Before(side)) \in Nat /\ Cardinality(f.standing[side]) \in Nat
    BY <2>2, FS_Subset, FS_CardinalityType
  <2> QED
    BY <2>3 DEF Reported
<1>2. Counts(f)
  BY <1>1 DEF Counts
<1> QED
  BY <1>2 DEF Counts, RowOf, Kept, Sides

\* While no goal has been taken back, the provider reports them.
LEMMA FixtureFirst ==
    ASSUME MatchInv, void = {}
    PROVE  CountsFirst(Fixture)
<1>1. Elements(opening) \subseteq Elements(timeline)
  BY OpeningFirst
<1>2. \A side \in Sides : Before(side) \subseteq Standing(side)
  BY <1>1 DEF Before, Scored, Standing
<1> QED
  BY <1>2 DEF CountsFirst, Fixture

\* They have the first ranks: a baseline that counts them leaves none of them.
LEMMA OpeningCounted ==
    ASSUME MatchInv, NEW base \in States, Counts(base),
           NEW f, Reported(f, timeline), CountsFirst(f),
           NEW g \in Elements(opening) \cap Goal, NEW side \in Sides
    PROVE  g \notin Uncounted(base, f, side)
<1> SUFFICES ASSUME g \in f.standing[side], RankIn(timeline, f.standing[side], g) > base[side]
             PROVE  FALSE
  BY DEF Uncounted
<1> DEFINE S == f.standing[side]
           R == Before(side)
<1>1. S \in SUBSET Elements(timeline) /\ S \subseteq Scored(timeline, side)
  BY DEF Reported, Scored
<1>2. R \in SUBSET S
  BY DEF CountsFirst
<1>3. \A x \in R, y \in S : PlaceIn(timeline, y) <= PlaceIn(timeline, x) => y \in R
  BY <1>1, OpeningFirst DEF Before, Scored
<1>4. g \in R
  BY <1>1 DEF Before, Scored
<1>5. timeline \in Seq(Goal \cup Card)
  BY DEF MatchInv
<1> HIDE DEF S, R
<1>6. RankIn(timeline, S, g) <= Cardinality(R)
  BY <1>1, <1>2, <1>3, <1>4, <1>5, RankOfPart
<1>7. IsFiniteSet(R) /\ Cardinality(R) \in Nat
  BY <1>1, <1>2, <1>5, ElementFacts, FS_Subset, FS_CardinalityType
<1>8. RankIn(timeline, S, g) \in Nat
  BY <1>1, <1>2, <1>4, <1>5, RankRange
<1>9. base[side] \in Nat /\ base[side] >= Cardinality(R)
  BY DEF Counts, States, Sides, R
<1> QED
  BY <1>6, <1>7, <1>8, <1>9 DEF S

\* No entry of a diff is about one of them.
LEMMA DiffNoPhantom ==
    ASSUME MatchInv, NEW base \in States, Counts(base),
           NEW f, Reported(f, timeline), CountsFirst(f), NEW i \in DOMAIN Diff(base, f)
    PROVE  Diff(base, f)[i].about \notin Elements(opening) \cap Goal
<1>1. CASE f.status = "suspended"
  <2>1. Diff(base, f) = <<>> /\ DOMAIN <<>> = {}
    BY <1>1, DiffSuspended
  <2> QED
    BY <2>1
<1>2. CASE f.status # "suspended"
  <2>1. Batch(Diff(base, f), Uncounted(base, f, "home") \cup Uncounted(base, f, "away"),
              DiffKeys(base, f))
    BY <1>2, DiffBatch
  <2>2. Diff(base, f)[i].about \in Goal =>
           Diff(base, f)[i].about \in Uncounted(base, f, "home") \cup Uncounted(base, f, "away")
    BY <2>1 DEF Batch
  <2>3. \A g \in Elements(opening) \cap Goal :
           g \notin Uncounted(base, f, "home") \cup Uncounted(base, f, "away")
    BY OpeningCounted DEF Sides
  <2> QED
    BY <2>2, <2>3
<1> QED
  BY <1>1, <1>2

\* A goal that is taken back stays so.
LEMMA VoidGrows ==
    ASSUME [Next]_vars
    PROVE  void \subseteq void'
<1>1. CASE ProviderStep
  BY <1>1 DEF ProviderStep, KickOff, Score, PublishScorer, Disallow, Book, Postpone, Suspend, FullTime
<1>2. CASE OtherStep \/ UNCHANGED vars
  BY <1>2, OtherMatch DEF vars, provider
<1> QED
  BY <1>1, <1>2 DEF Next, OtherStep

\* What PhantomInv says of one poller.
PhantomFits(p) ==
    /\ pc[p] \in {"fetch", "diff"} => Counts(rowRead[p])
    /\ pc[p] \in WithSnap => CountsFirst(snap[p])
    /\ \A i \in DOMAIN queue[p] : queue[p][i].about \notin Elements(opening) \cap Goal

\* And what it says of the store.
PhantomStore ==
    /\ Counts(row)
    /\ redis # None => Counts(redis)
    /\ dated # None => CountsFirst(dated)
    /\ \A g \in Elements(opening) \cap Goal : told[g] = 0

\* A step of a poller keeps both.
LEMMA PhantomPoller ==
    ASSUME CoreInv, PhantomStore, NEW p \in Poller, PhantomFits(p), PollerStep(p) \/ Crash(p),
           void = {}
    PROVE  PhantomStore' /\ PhantomFits(p)'
<1> USE DEF CoreInv
<1>0. DOMAIN pc = Poller /\ DOMAIN rowRead = Poller /\ DOMAIN snap = Poller /\ DOMAIN queue = Poller
  BY DEF PollerInv
<1>00. opening' = opening /\ timeline' = timeline
  BY OtherMatch DEF OtherStep, provider
<1>s. ASSUME UNCHANGED <<row, redis, dated, told>> PROVE PhantomStore'
  BY <1>00, <1>s DEF PhantomStore, Counts, CountsFirst, Before
<1>c. ASSUME NEW next \in {"idle", "retry"}, CutShort(p, next) PROVE PhantomFits(p)'
  BY <1>0, <1>c DEF CutShort, PhantomFits, WithSnap
<1>1. CASE Begin(p)
  <2>1. PhantomStore'
    BY <1>1, <1>s DEF Begin, store, history
  <2> QED
    BY <1>0, <1>00, <1>1, <2>1
    DEF Begin, PhantomFits, PhantomStore, WithSnap, Counts, CountsFirst, Before
<1>f. ASSUME UNCHANGED <<rowRead, snap>>, pc'[p] \in {pc[p], "emit", "notify", "save", "retry", "idle"},
             pc[p] \in WithSnap \/ pc'[p] \notin WithSnap,
             queue'[p] \in {queue[p], Tail(queue[p])}, queue[p] = <<>> => queue'[p] = <<>>
      PROVE  PhantomFits(p)'
  <2>1. queue[p] \in Seq(Entries)
    BY DEF PollerInv
  <2>2. \A i \in DOMAIN queue'[p] : queue'[p][i].about \notin Elements(opening) \cap Goal
    <3>1. CASE queue'[p] = queue[p]
      BY <3>1 DEF PhantomFits
    <3>2. CASE queue'[p] = Tail(queue[p]) /\ queue[p] # <<>>
      BY <2>1, <3>2, TailFacts DEF PhantomFits
    <3> QED
      BY <1>f, <3>1, <3>2
  <2>3. pc'[p] \in {"fetch", "diff"} => Counts(rowRead'[p])
    BY <1>f DEF PhantomFits
  <2>4. pc'[p] \in WithSnap => CountsFirst(snap'[p])
    BY <1>f DEF PhantomFits
  <2> QED
    BY <1>00, <2>2, <2>3, <2>4 DEF PhantomFits, Counts, CountsFirst, Before
<1>2. CASE Fetch(p)
  <2>1. CountsFirst(Fixture) /\ (dated # None => CountsFirst(dated))
    BY FixtureFirst DEF PhantomStore
  <2>2. dated' \in {dated, Fixture, None} /\ UNCHANGED <<row, redis, told, queue>>
    BY <1>2 DEF Fetch, store, history
  <2>3. PhantomStore'
    BY <1>00, <2>1, <2>2 DEF PhantomStore, Counts, CountsFirst, Before
  <2>4. ASSUME NEW f, CountsFirst(f), Obtain(p, f) PROVE PhantomFits(p)'
    <3>1. snap'[p] = f /\ rowRead'[p] = rowRead[p] /\ Counts(rowRead[p])
      BY <1>0, <1>2, <2>4 DEF Obtain, Fetch, PhantomFits
    <3> QED
      BY <1>00, <2>2, <2>4, <3>1 DEF PhantomFits, Counts, CountsFirst, Before
  <2>5. CASE pc' = [pc EXCEPT ![p] = "retry"]
    <3>1. pc'[p] = "retry" /\ queue' = queue
      BY <1>0, <2>2, <2>5
    <3>2. \A i \in DOMAIN queue'[p] : queue'[p][i].about \notin Elements(opening') \cap Goal
      BY <1>00, <3>1 DEF PhantomFits
    <3>3. PhantomFits(p)'
      BY <3>1, <3>2 DEF PhantomFits, WithSnap
    <3> QED
      BY <2>3, <3>3
  <2> QED
    BY <1>2, <2>1, <2>3, <2>4, <2>5 DEF Fetch
<1>3. CASE Detect(p)
  <2>1. PhantomStore'
    BY <1>3, <1>s DEF Detect, store, history
  <2>2. Baseline(p) \in States /\ queue'[p] = Diff(Baseline(p), snap[p])
    BY <1>3, DetectTypes
  <2>3. Counts(Baseline(p))
    BY <1>3 DEF Detect, Baseline, PhantomStore, PhantomFits, Counts, Sides
  <2>4. Reported(snap[p], timeline) /\ CountsFirst(snap[p])
    BY <1>3 DEF Detect, PollerInv, PhantomFits, WithSnap
  <2>5. \A i \in DOMAIN queue'[p] : queue'[p][i].about \notin Elements(opening) \cap Goal
    BY <2>2, <2>3, <2>4, DiffNoPhantom
  <2>6. pc'[p] = "emit" /\ snap' = snap
    BY <1>0, <1>3 DEF Detect
  <2> QED
    BY <1>00, <2>1, <2>4, <2>5, <2>6 DEF PhantomFits, Counts, CountsFirst, Before
<1>4. CASE Emit(p)
  <2>1. PhantomFits(p)'
    BY <1>0, <1>4, <1>f DEF Emit, WithSnap
  <2>2. Head(queue[p]).about \notin Elements(opening) \cap Goal
    <3>1. queue[p] \in Seq(Entries) /\ queue[p] # <<>>
      BY <1>4 DEF PollerInv, Emit
    <3> QED
      BY <3>1, TailFacts DEF PhantomFits
  <2>3. \A g \in Elements(opening) \cap Goal : told'[g] = 0
    BY <1>4, <2>2 DEF Emit, PhantomStore
  <2>4. UNCHANGED <<row, redis, dated>>
    BY <1>4 DEF Emit
  <2>5. PhantomStore'
    BY <1>00, <2>3, <2>4 DEF PhantomStore, Counts, CountsFirst, Before
  <2> QED
    BY <2>1, <2>5
<1>5. CASE Notify(p)
  <2>1. queue[p] # <<>>
    BY <1>5 DEF Notify, PollerInv
  <2>2. PhantomFits(p)'
    BY <1>0, <1>5, <1>f, <2>1 DEF Notify, WithSnap
  <2> QED
    BY <1>5, <1>s, <2>2 DEF Notify, history
<1>6. CASE NotifyRaises(p) \/ Crash(p)
  <2>1. PhantomFits(p)'
    BY <1>6, <1>c DEF NotifyRaises, Crash
  <2> QED
    BY <1>6, <1>s, <2>1 DEF NotifyRaises, Crash, store, history
<1>7. CASE SaveRedis(p)
  <2>1. Counts(Kept(snap[p]))
    BY <1>7, FirstCounts DEF SaveRedis, PollerInv, PhantomFits, WithSnap
  <2>2. redis' = Kept(snap[p]) /\ UNCHANGED <<row, dated, told>>
    BY <1>7 DEF SaveRedis, history
  <2>3. PhantomStore'
    BY <1>00, <2>1, <2>2 DEF PhantomStore, Counts, CountsFirst, Before
  <2>4. PhantomFits(p)'
    BY <1>0, <1>7, <1>f DEF SaveRedis, WithSnap
  <2> QED
    BY <2>3, <2>4
<1>8. CASE SaveRow(p)
  <2>1. Counts(RowOf(snap[p]))
    BY <1>8, FirstCounts DEF SaveRow, PollerInv, PhantomFits, WithSnap
  <2>2. row' = RowOf(snap[p]) /\ UNCHANGED <<redis, dated, told>>
    BY <1>8 DEF SaveRow, history
  <2>3. PhantomStore'
    BY <1>00, <2>1, <2>2 DEF PhantomStore, Counts, CountsFirst, Before
  <2> QED
    BY <1>8, <1>c, <2>3 DEF SaveRow
<1>9. CASE Retry(p)
  <2>1. PhantomFits(p)'
    BY <1>0, <1>9, <1>f DEF Retry, WithSnap
  <2> QED
    BY <1>9, <1>s, <2>1 DEF Retry, history
<1> QED
  BY <1>1, <1>2, <1>3, <1>4, <1>5, <1>6, <1>7, <1>8, <1>9 DEF PollerStep

\* Every step keeps PhantomInv.
LEMMA PhantomStep == CoreInv /\ PhantomInv /\ [Next]_vars => PhantomInv'
<1> SUFFICES ASSUME CoreInv, PhantomInv, [Next]_vars, void' = {} PROVE PhantomInv'
  BY DEF PhantomInv
<1>1. void = {}
  BY VoidGrows
<1>2. PhantomStore /\ \A q \in Poller : PhantomFits(q)
  BY <1>1 DEF PhantomInv, PhantomStore, PhantomFits
<1>3. opening' = opening
  BY MatchStep DEF CoreInv
<1>4. ASSUME PhantomStore', \A q \in Poller : PhantomFits(q)' PROVE PhantomInv'
  BY <1>4 DEF PhantomInv, PhantomStore, PhantomFits
<1>5. ASSUME UNCHANGED poller PROVE \A q \in Poller : PhantomFits(q)'
  BY <1>2, <1>3, <1>5 DEF PhantomFits, poller, Counts, CountsFirst, Before
<1>6. ASSUME UNCHANGED <<row, told>>, redis' \in {redis, None}, dated' \in {dated, None, Fixture}
      PROVE  PhantomStore'
  <2>1. CountsFirst(Fixture)
    BY <1>1, FixtureFirst DEF CoreInv
  <2> QED
    BY <1>2, <1>3, <1>6, <2>1 DEF PhantomStore, Counts, CountsFirst, Before
<1>7. CASE ProviderStep
  <2>1. UNCHANGED <<dated, store, poller, told>>
    BY <1>7, ProviderMatch DEF CoreInv
  <2> QED
    BY <1>4, <1>5, <1>6, <2>1 DEF store
<1>8. CASE \/ Time \/ LoseCache \/ StoreFeed \/ ExpireFeed \/ (\E k \in jobs : RunJob(k))
           \/ UNCHANGED vars
  <2>1. /\ UNCHANGED <<row, told, poller>>
        /\ redis' \in {redis, None} /\ dated' \in {dated, None, Fixture}
    BY <1>8 DEF Time, LoseCache, StoreFeed, ExpireFeed, RunJob, vars, store, history
  <2> QED
    BY <1>4, <1>5, <1>6, <2>1
<1>9. ASSUME NEW p \in Poller, PollerStep(p) \/ Crash(p) PROVE PhantomInv'
  <2>1. PhantomStore' /\ PhantomFits(p)'
    BY <1>1, <1>2, <1>9, PhantomPoller
  <2>2. ASSUME NEW q \in Poller, q # p PROVE PhantomFits(q)'
    <3>1. pc'[q] = pc[q] /\ rowRead'[q] = rowRead[q] /\ snap'[q] = snap[q] /\ queue'[q] = queue[q]
      BY <1>9, <2>2, OthersStay DEF CoreInv
    <3> QED
      BY <1>2, <1>3, <3>1 DEF PhantomFits, Counts, CountsFirst, Before
  <2> QED
    BY <1>4, <2>1, <2>2
<1> QED
  BY <1>7, <1>8, <1>9 DEF Next

\* Discovery writes the score that counts them.
LEMMA PhantomInit == Init => PhantomInv
<1> SUFFICES ASSUME Init PROVE PhantomInv
  OBVIOUS
<1>1. MatchInv
  BY CoreInit DEF CoreInv
<1>2. Counts(RowOf(Fixture))
  BY <1>1, FixtureFirst, FixtureReported, FirstCounts DEF Init
<1> QED
  BY <1>2 DEF Init, PhantomInv, WithSnap

\* Whatever the pollers, their failures and the feeds do, no goal is alerted
\* that was on the score at discovery.
THEOREM NoneMadeUp == Spec => []NoPhantomGoals
<1>1. Init => CoreInv /\ PhantomInv
  BY CoreInit, PhantomInit
<1>2. CoreInv /\ PhantomInv /\ [Next]_vars => CoreInv' /\ PhantomInv'
  BY CoreStep, PhantomStep
<1>3. PhantomInv => NoPhantomGoals
  BY DEF PhantomInv, NoPhantomGoals
<1> QED
  BY <1>1, <1>2, <1>3, PTL DEF Spec

----------------------------------------------------------------------------
(* One alert for a goal.                                                    *)

\* A goal of the match that stands after a step stood before, unless it is new;
\* and it has no higher rank than before, the same if none was taken back.
LEMMA StandingStep ==
    ASSUME MatchInv, [Next]_vars, NEW side \in Sides
    PROVE  /\ Standing(side) \subseteq Scored(timeline, side)
           /\ Standing(side)' \cap Elements(timeline) \subseteq Standing(side)
           /\ void' = {} => Standing(side) \subseteq Standing(side)'
           /\ \A g \in Standing(side)' \cap Elements(timeline) :
                 /\ RankIn(timeline', Standing(side)', g) <= RankIn(timeline, Standing(side), g)
                 /\ void' = {} =>
                       RankIn(timeline', Standing(side)', g) = RankIn(timeline, Standing(side), g)
<1>1. /\ timeline \in Seq(Goal \cup Card)
      /\ timeline' \in Seq(Goal \cup Card)
      /\ Extends(timeline, timeline')
      /\ Elements(timeline) \subseteq Elements(timeline')
      /\ void \subseteq void'
  BY MatchStep, VoidGrows DEF MatchInv
<1>2. PICK u : u = timeline'
  OBVIOUS
<1>3. PICK S, S1 : S = Standing(side) /\ S1 = Standing(side)'
  OBVIOUS
<1>4. S = {g \in Elements(timeline) : g \in Goal \ void /\ Side[g] = side}
  BY <1>3 DEF Standing
<1>5. S1 = {g \in Elements(u) : g \in Goal \ void' /\ Side[g] = side}
  BY <1>2, <1>3 DEF Standing, Elements
<1> DEFINE R == S1 \cap Elements(timeline)
<1>6. /\ S \subseteq Scored(timeline, side) /\ R \subseteq S
      /\ S1 \subseteq Elements(u) /\ S \subseteq Elements(timeline)
  BY <1>1, <1>4, <1>5 DEF Scored
<1>7. void' = {} => S \subseteq S1 /\ R = S
  BY <1>1, <1>2, <1>4, <1>5, <1>6
<1>8. \A x \in R, y \in S1 : PlaceIn(u, y) <= PlaceIn(u, x) => y \in R
  BY <1>1, <1>2, <1>6, PlaceStays
<1>9. ASSUME NEW g \in R
      PROVE  /\ RankIn(u, S1, g) <= RankIn(timeline, S, g)
             /\ void' = {} => RankIn(u, S1, g) = RankIn(timeline, S, g)
  <2>1. u \in Seq(Goal \cup Card) /\ Extends(timeline, u) /\ R \in SUBSET S1
        /\ S1 \in SUBSET Elements(u) /\ R \in SUBSET Elements(timeline) /\ R \in SUBSET S
        /\ S \in SUBSET Elements(timeline)
    BY <1>1, <1>2, <1>6
  <2> HIDE DEF R
  <2>2. RankIn(u, S1, g) = RankIn(u, R, g)
    BY <1>8, <2>1, RankOfPart
  <2>3. RankIn(u, R, g) = RankIn(timeline, R, g)
    BY <1>1, <2>1, RankStays
  <2>4. RankIn(timeline, R, g) <= RankIn(timeline, S, g)
    BY <1>1, <2>1, RankShrinks
  <2> QED
    BY <1>7, <2>2, <2>3, <2>4
<1> QED
  BY <1>2, <1>3, <1>6, <1>7, <1>9

\* What other steps leave of the match.
LEMMA SameMatch ==
    ASSUME UNCHANGED provider
    PROVE  timeline' = timeline /\ void' = void /\ \A side : Standing(side)' = Standing(side)
  BY DEF provider, Standing, Elements

\* The steps of the one poller: none fails, and no feed is stored.
LEMMA SoleStep ==
    ASSUME Undisturbed, CoreInv, BaseInv, [Next]_vars
    PROVE  /\ dated' = None
           /\ \/ ProviderStep
              \/ \E p : Poller = {p} /\ PollerStep(p) /\ ~ NotifyRaises(p)
              \/ UNCHANGED <<provider, poller, row, ledger, told, opening>> /\ redis' \in {redis, None}
<1>1. "stale" \notin Hazards /\ "notify" \notin Hazards /\ "crash" \notin Hazards /\ dated = None
  BY DEF Undisturbed, BaseInv
<1>2. CASE ProviderStep
  BY <1>1, <1>2, ProviderMatch DEF CoreInv
<1>3. CASE Time \/ LoseCache \/ (\E k \in jobs : RunJob(k)) \/ UNCHANGED vars
  BY <1>1, <1>3 DEF Time, LoseCache, RunJob, vars, store, history, provider
<1>4. CASE StoreFeed \/ ExpireFeed
  BY <1>1, <1>4 DEF StoreFeed, ExpireFeed
<1>5. ASSUME NEW p \in Poller, PollerStep(p) PROVE dated' = None /\ ~ NotifyRaises(p) /\ Poller = {p}
  <2>1. ~ NotifyRaises(p) /\ Poller = {p}
    BY <1>1 DEF NotifyRaises, Undisturbed
  <2> QED
    BY <1>1, <1>5, <2>1
    DEF PollerStep, Begin, Fetch, Detect, Emit, Notify, SaveRedis, SaveRow, Retry, store, history
<1>6. ASSUME NEW p \in Poller PROVE ~ Crash(p)
  BY <1>1 DEF Crash
<1> QED
  BY <1>2, <1>3, <1>4, <1>5, <1>6 DEF Next

\* The provider leaves what the poller has sound.
LEMMA OneProvider ==
    ASSUME CoreInv, OneInv, ProviderStep, [Next]_vars
    PROVE  OneInv'
<1>1. UNCHANGED <<dated, store, poller, opening, told>> /\ MatchInv
  BY ProviderMatch DEF CoreInv
<1>2. UNCHANGED <<row, redis, pc, rowRead, snap, queue>>
  BY <1>1 DEF store, poller
<1>3. /\ timeline \in Seq(Goal \cup Card) /\ timeline' \in Seq(Goal \cup Card)
      /\ Extends(timeline, timeline')
      /\ Elements(timeline) \subseteq Elements(timeline')
      /\ void \subseteq void'
  BY <1>1, MatchStep, VoidGrows DEF MatchInv
<1>4. BaseInv'
  BY <1>1, <1>2 DEF OneInv, BaseInv
<1>5. ASSUME NEW p \in Poller, pc[p] \in WithSnap, NEW side \in Sides
      PROVE  snap[p].standing[side] \subseteq Elements(timeline)
  BY <1>5 DEF CoreInv, PollerInv, Reported, Scored
<1>6. ClosedInv'
  <2> SUFFICES ASSUME NEW p \in Poller, NEW side \in Sides, pc[p] \in WithSnap,
                      NEW x \in snap[p].standing[side], NEW y \in Standing(side)',
                      PlaceIn(timeline', y) <= PlaceIn(timeline', x)
               PROVE  y \in snap[p].standing[side]
    BY <1>2 DEF ClosedInv
  <2>1. x \in Elements(timeline)
    BY <1>5
  <2>2. y \in Elements(timeline')
    BY DEF Standing, Elements
  <2>3. y \in Elements(timeline)
    BY <1>3, <2>1, <2>2, PlaceStays
  <2>4. y \in Standing(side)
    BY <1>1, <2>3, StandingStep
  <2>5. PlaceIn(timeline, y) <= PlaceIn(timeline, x)
    BY <1>3, <2>1, <2>3, PlaceStays
  <2> QED
    BY <2>4, <2>5 DEF OneInv, ClosedInv
<1>7. ToldInv'
  BY <1>1, <1>2, <1>3 DEF OneInv, ToldInv, Elements
<1>8. UntoldInv'
  <2>1. ASSUME NEW p \in Poller, NEW side \in Sides, pc[p] \in {"idle", "fetch", "retry"},
               NEW g \in Standing(side)', RankIn(timeline', Standing(side)', g) > row[side]
        PROVE  told[g] = 0
    <3>1. g \in Goal
      BY DEF Standing
    <3>2. CASE g \notin Elements(timeline)
      BY <3>1, <3>2 DEF OneInv, ToldInv
    <3>3. CASE g \in Elements(timeline)
      <4>1. g \in Standing(side)
            /\ RankIn(timeline', Standing(side)', g) <= RankIn(timeline, Standing(side), g)
        BY <1>1, <3>3, StandingStep
      <4>2. RankIn(timeline, Standing(side), g) \in Nat
        BY <1>1, <1>3, <4>1, StandingStep, RankRange DEF Scored
      <4>3. RankIn(timeline', Standing(side)', g) \in Nat
        <5>1. Standing(side)' \in SUBSET Elements(timeline')
          BY DEF Standing, Elements
        <5> QED
          BY <1>3, <5>1, RankRange
      <4>4. row[side] \in Nat
        BY DEF CoreInv, StoreInv, Rows, Sides
      <4>5. RankIn(timeline, Standing(side), g) > row[side]
        BY <2>1, <4>1, <4>2, <4>3, <4>4
      <4> QED
        BY <2>1, <4>1, <4>5 DEF OneInv, UntoldInv
    <3> QED
      BY <3>2, <3>3
  <2>2. ASSUME NEW p \in Poller, NEW side \in Sides, pc[p] = "diff",
               NEW g \in snap[p].standing[side],
               RankIn(timeline', snap[p].standing[side], g) > row[side]
        PROVE  told[g] = 0
    <3> DEFINE S == snap[p].standing[side]
    <3>1. S \in SUBSET Elements(timeline)
      BY <1>5, <2>2 DEF WithSnap
    <3> HIDE DEF S
    <3>2. g \in S /\ RankIn(timeline', S, g) = RankIn(timeline, S, g)
      BY <1>3, <3>1, RankStays DEF S
    <3> QED
      BY <2>2, <3>2 DEF OneInv, UntoldInv, S
  <2> QED
    BY <1>1, <1>2, <2>1, <2>2 DEF UntoldInv
<1>9. QueueInv'
  BY <1>1, <1>2 DEF OneInv, QueueInv, Left
<1> QED
  BY <1>4, <1>6, <1>7, <1>8, <1>9 DEF OneInv

\* A loss of the cache, a job that runs and an old feed that goes leave it sound.
LEMMA OneSame ==
    ASSUME OneInv, UNCHANGED <<provider, poller, row, ledger, told, opening>>,
           redis' \in {redis, None}, dated' = None
    PROVE  OneInv'
<1>1. timeline' = timeline /\ void' = void /\ \A side : Standing(side)' = Standing(side)
  BY SameMatch
<1>2. UNCHANGED <<row, told, pc, rowRead, snap, queue>>
  BY DEF poller
<1>3. BaseInv'
  BY <1>2 DEF OneInv, BaseInv
<1>4. ClosedInv'
  BY <1>1, <1>2 DEF OneInv, ClosedInv
<1>5. ToldInv'
  BY <1>1, <1>2 DEF OneInv, ToldInv
<1>6. UntoldInv'
  BY <1>1, <1>2 DEF OneInv, UntoldInv
<1>7. QueueInv'
  BY <1>1, <1>2 DEF OneInv, QueueInv, Left
<1> QED
  BY <1>3, <1>4, <1>5, <1>6, <1>7 DEF OneInv

\* A poller that begins, finds no fixture or ends its tick has nothing in hand.
LEMMA OneRest ==
    ASSUME OneInv, NEW p, Poller = {p}, UNCHANGED <<provider, row, redis, told, opening>>, dated' = None,
           pc[p] \in {"idle", "fetch", "retry"}, pc'[p] \in {"idle", "fetch", "retry"},
           pc'[p] = "fetch" => rowRead'[p] = row
    PROVE  OneInv'
<1>1. timeline' = timeline /\ void' = void /\ \A side : Standing(side)' = Standing(side)
  BY SameMatch
<1>2. BaseInv'
  BY DEF OneInv, BaseInv
<1>3. ClosedInv' /\ QueueInv'
  BY DEF ClosedInv, QueueInv, WithSnap
<1>4. ToldInv'
  BY <1>1 DEF OneInv, ToldInv, WithSnap
<1>5. UntoldInv'
  BY <1>1 DEF OneInv, UntoldInv
<1> QED
  BY <1>2, <1>3, <1>4, <1>5 DEF OneInv

\* The fixture that is fetched has every goal that stands.
LEMMA OneObtain ==
    ASSUME CoreInv, OneInv, NEW p, Poller = {p}, UNCHANGED <<provider, row, redis, told, opening>>,
           dated' = None, pc[p] = "fetch", pc'[p] = "diff", rowRead'[p] = rowRead[p],
           snap'[p] = Fixture
    PROVE  OneInv'
<1>1. timeline' = timeline /\ void' = void /\ \A side : Standing(side)' = Standing(side)
  BY SameMatch
<1>2. \A side \in Sides : snap'[p].standing[side] = Standing(side)
  BY DEF Fixture
<1>3. BaseInv'
  BY DEF OneInv, BaseInv
<1>4. ClosedInv'
  BY <1>1, <1>2 DEF ClosedInv
<1>5. \A g \in Elements(timeline) : g \in Goal /\ g \notin void =>
         Side[g] \in Sides /\ g \in Standing(Side[g])
  BY DetectionAssumption DEF Standing
<1>6. ToldInv'
  BY <1>1, <1>2, <1>5 DEF OneInv, ToldInv
<1>7. UntoldInv'
  BY <1>1, <1>2 DEF OneInv, UntoldInv
<1>8. QueueInv'
  BY DEF QueueInv
<1> QED
  BY <1>3, <1>4, <1>6, <1>7, <1>8 DEF OneInv

\* The entries of the diff are about goals that have not been told.
LEMMA OneDetect ==
    ASSUME CoreInv, OneInv, NEW p, Poller = {p}, Detect(p)
    PROVE  OneInv'
<1> DEFINE base == Baseline(p)
           f == snap[p]
           q == queue'[p]
<1>0. /\ UNCHANGED <<provider, dated, row, redis, told, snap>>
      /\ pc[p] = "diff" /\ pc'[p] = "emit" /\ p \in Poller
  BY DEF Detect, store, history, CoreInv, PollerInv
<1>1. timeline' = timeline /\ void' = void /\ \A side : Standing(side)' = Standing(side)
  BY <1>0, SameMatch
<1>2. MatchInv /\ base \in States /\ Reported(f, timeline) /\ q = Diff(base, f)
  BY <1>0, DetectTypes DEF CoreInv, PollerInv, WithSnap
<1>3. \A side \in Sides : base[side] = row[side]
  BY <1>0 DEF Baseline, OneInv, BaseInv, RowOf, Sides
<1>4. BaseInv'
  BY <1>0 DEF OneInv, BaseInv
<1>5. ClosedInv'
  BY <1>0, <1>1 DEF OneInv, ClosedInv, WithSnap
<1>6. ToldInv'
  BY <1>0, <1>1 DEF OneInv, ToldInv, WithSnap
<1>7. UntoldInv'
  BY <1>0 DEF UntoldInv
<1>8. ASSUME NEW side \in Sides, NEW g \in Uncounted(base, f, side)
      PROVE  g \in Goal /\ Side[g] = side /\ g \in f.standing[side] /\ told[g] = 0
  <2>1. g \in f.standing[side] /\ RankIn(timeline, f.standing[side], g) > row[side]
    BY <1>3 DEF Uncounted
  <2>2. told[g] = 0
    BY <1>0, <2>1 DEF OneInv, UntoldInv
  <2> QED
    BY <1>2, <2>1, <2>2 DEF Reported, Scored
<1> HIDE DEF base, f, q
<1>9. ASSUME f.status # "suspended", NEW i \in DOMAIN q, q[i].about \in Goal
      PROVE  /\ q[i].about \in f.standing[Side[q[i].about]]
             /\ told[q[i].about] = 0
             /\ \A j \in DOMAIN q : q[j].about = q[i].about => i = j
  <2>1. Batch(q, Uncounted(base, f, "home") \cup Uncounted(base, f, "away"), DiffKeys(base, f))
    BY <1>2, <1>9, DiffBatch
  <2>2. q[i].about \in Uncounted(base, f, "home") \cup Uncounted(base, f, "away")
    BY <1>9, <2>1 DEF Batch
  <2>3. \A j \in DOMAIN q : q[j].about = q[i].about => i = j
    BY <1>9, <2>1 DEF Batch
  <2> QED
    BY <1>8, <2>2, <2>3 DEF Sides
<1>10. f.status = "suspended" => DOMAIN q = {}
  <2>1. DOMAIN <<>> = {}
    OBVIOUS
  <2> QED
    BY <1>2, <2>1, DiffSuspended
<1>11. QueueInv'
  BY <1>0, <1>9, <1>10 DEF QueueInv, Left, f, q
<1> QED
  BY <1>4, <1>5, <1>6, <1>7, <1>11 DEF OneInv

\* What is left once an entry has been dealt with.
LEMMA OneNext ==
    ASSUME CoreInv, OneInv, NEW p, Poller = {p}, UNCHANGED <<provider, row, redis, told, opening, snap>>,
           dated' = None, pc[p] \in {"emit", "notify"}, pc'[p] = "emit",
           queue[p] # <<>>, queue'[p] = Tail(queue[p])
    PROVE  OneInv'
<1>1. timeline' = timeline /\ void' = void /\ \A side : Standing(side)' = Standing(side)
  BY SameMatch
<1>2. BaseInv'
  BY DEF OneInv, BaseInv
<1>3. ClosedInv'
  BY <1>1 DEF OneInv, ClosedInv, WithSnap
<1>4. ToldInv'
  BY <1>1 DEF OneInv, ToldInv, WithSnap
<1>5. UntoldInv'
  BY DEF UntoldInv
<1> DEFINE q == queue[p]
           r == Tail(queue[p])
<1>6. \A i \in DOMAIN r : i \in Nat /\ i + 1 \in DOMAIN q /\ r[i] = q[i + 1]
  BY TailFacts DEF CoreInv, PollerInv
<1>7. DOMAIN q \subseteq Nat /\ DOMAIN r \subseteq Nat /\ 0 \notin DOMAIN r
  <2>1. q \in Seq(Entries) /\ r \in Seq(Entries)
    BY TailFacts DEF CoreInv, PollerInv
  <2> QED
    BY <2>1, ElementFacts
<1> HIDE DEF q, r
<1>8. ASSUME NEW i \in DOMAIN r, r[i].about \in Goal
      PROVE  /\ r[i].about \in snap[p].standing[Side[r[i].about]]
             /\ told[r[i].about] = 0
             /\ \A j \in DOMAIN r : r[j].about = r[i].about => i = j
  <2>1. i + 1 \in DOMAIN q /\ i + 1 > 1 /\ q[i + 1].about = r[i].about /\ i \in Nat
    BY <1>6, <1>7
  <2>2. i + 1 \in Left(p)
    BY <2>1 DEF Left, q
  <2>3. /\ q[i + 1].about \in snap[p].standing[Side[q[i + 1].about]]
        /\ told[q[i + 1].about] = 0
        /\ \A j \in DOMAIN q : q[j].about = q[i + 1].about => i + 1 = j
    BY <1>8, <2>1, <2>2 DEF OneInv, QueueInv, q
  <2>4. ASSUME NEW j \in DOMAIN r, r[j].about = r[i].about PROVE i = j
    BY <1>6, <2>1, <2>3, <2>4
  <2> QED
    BY <2>1, <2>3, <2>4
<1>9. QueueInv'
  <2>1. queue'[p] = r /\ UNCHANGED <<told, snap>>
    BY DEF r
  <2> QED
    BY <1>8, <2>1 DEF QueueInv
<1> QED
  BY <1>2, <1>3, <1>4, <1>5, <1>9 DEF OneInv

\* An alert is recorded for a goal that had none.
LEMMA OneRecord ==
    ASSUME CoreInv, OneInv, NEW p, Poller = {p},
           UNCHANGED <<provider, row, redis, opening, snap, queue>>,
           dated' = None, pc[p] = "emit", pc'[p] = "notify", queue[p] # <<>>,
           told' = [g \in Goal |-> IF g = Head(queue[p]).about THEN told[g] + 1 ELSE told[g]]
    PROVE  OneInv'
<1>1. timeline' = timeline /\ void' = void /\ \A side : Standing(side)' = Standing(side)
  BY SameMatch
<1>2. BaseInv'
  BY DEF OneInv, BaseInv
<1>3. ClosedInv'
  BY <1>1 DEF OneInv, ClosedInv, WithSnap
<1>4. UntoldInv'
  BY DEF UntoldInv
<1> DEFINE q == queue[p]
           a == Head(queue[p]).about
<1>5. 1 \in DOMAIN q /\ q[1].about = a /\ DOMAIN q \subseteq Nat
  BY TailFacts, ElementFacts DEF CoreInv, PollerInv
<1>6. /\ \A i \in DOMAIN q :
            q[i].about \in Goal =>
                /\ q[i].about \in snap[p].standing[Side[q[i].about]]
                /\ told[q[i].about] = 0
                /\ \A j \in DOMAIN q : q[j].about = q[i].about => i = j
  BY DEF OneInv, QueueInv, Left
<1>7. \A g \in Goal : told'[g] = IF g = a THEN told[g] + 1 ELSE told[g]
  OBVIOUS
<1> HIDE DEF q, a
<1>8. ASSUME NEW g \in Goal, told'[g] # 0
      PROVE  /\ told'[g] = 1
             /\ g \in Elements(timeline)
             /\ g \notin void => g \in snap[p].standing[Side[g]]
  <2>1. CASE g = a
    <3>1. told[g] = 0 /\ g \in snap[p].standing[Side[g]]
      BY <1>5, <1>6, <2>1
    <3>2. Side[g] \in Sides /\ Reported(snap[p], timeline)
      BY DetectionAssumption DEF CoreInv, PollerInv, WithSnap
    <3>3. g \in Elements(timeline)
      BY <3>1, <3>2 DEF Reported, Scored
    <3> QED
      BY <1>7, <2>1, <3>1, <3>3
  <2>2. CASE g # a
    BY <1>7, <1>8, <2>2 DEF OneInv, ToldInv, WithSnap
  <2> QED
    BY <2>1, <2>2
<1>9. ToldInv'
  BY <1>1, <1>8 DEF ToldInv
<1>10. ASSUME NEW i \in DOMAIN q, q[i].about \in Goal, i > 1 PROVE told'[q[i].about] = 0
  BY <1>5, <1>6, <1>7, <1>10
<1>11. QueueInv'
  BY <1>6, <1>10 DEF QueueInv, Left, q
<1> QED
  BY <1>2, <1>3, <1>4, <1>9, <1>11 DEF OneInv

\* The state is written to the cache, before the row.
LEMMA OneSaveRedis ==
    ASSUME CoreInv, OneInv, NEW p, Poller = {p},
           UNCHANGED <<provider, row, told, opening, snap, queue>>,
           dated' = None, pc[p] = "emit", pc'[p] = "save", queue[p] = <<>>, redis' = Kept(snap[p])
    PROVE  OneInv'
<1>1. timeline' = timeline /\ void' = void /\ \A side : Standing(side)' = Standing(side)
  BY SameMatch
<1>2. BaseInv'
  BY DEF OneInv, BaseInv
<1>3. ClosedInv'
  BY <1>1 DEF OneInv, ClosedInv, WithSnap
<1>4. ToldInv'
  BY <1>1 DEF OneInv, ToldInv, WithSnap
<1>5. UntoldInv' /\ QueueInv'
  BY DEF UntoldInv, QueueInv
<1> QED
  BY <1>2, <1>3, <1>4, <1>5 DEF OneInv

\* Once the row is written it counts every goal that has been told.
LEMMA OneSaveRow ==
    ASSUME CoreInv, OneInv, NEW p, Poller = {p},
           UNCHANGED <<provider, redis, told, opening>>,
           dated' = None, pc[p] = "save", pc'[p] = "retry", row' = RowOf(snap[p])
    PROVE  OneInv'
<1>1. timeline' = timeline /\ void' = void /\ \A side : Standing(side)' = Standing(side)
  BY SameMatch
<1>2. BaseInv'
  BY DEF OneInv, BaseInv, RowOf, Kept
<1>3. ClosedInv' /\ QueueInv'
  BY DEF ClosedInv, QueueInv, WithSnap
<1>4. ToldInv'
  BY <1>1 DEF OneInv, ToldInv, WithSnap
<1>5. ASSUME NEW side \in Sides, NEW g \in Standing(side),
             RankIn(timeline, Standing(side), g) > row'[side]
      PROVE  told[g] = 0
  <2> SUFFICES ASSUME told[g] # 0 PROVE FALSE
    OBVIOUS
  <2> DEFINE S == Standing(side)
             R == snap[p].standing[side] \cap S
  <2>1. g \in Goal /\ Side[g] = side /\ g \notin void
    BY DEF Standing
  <2>2. g \in R
    BY <2>1 DEF OneInv, ToldInv, WithSnap
  <2>3. timeline \in Seq(Goal \cup Card) /\ S \in SUBSET Elements(timeline)
    BY DEF CoreInv, MatchInv, Standing
  <2>4. \A x \in R, y \in S : PlaceIn(timeline, y) <= PlaceIn(timeline, x) => y \in R
    BY DEF OneInv, ClosedInv, WithSnap
  <2>5. /\ Reported(snap[p], timeline)
        /\ row'[side] = Cardinality(snap[p].standing[side])
    BY DEF CoreInv, PollerInv, WithSnap, Reported, RowOf, Sides
  <2>6. /\ snap[p].standing[side] \in SUBSET Elements(timeline)
        /\ R \in SUBSET snap[p].standing[side]
    BY <2>5 DEF Reported, Scored
  <2>7. /\ IsFiniteSet(snap[p].standing[side])
        /\ Cardinality(snap[p].standing[side]) \in Nat
    BY <2>3, <2>6, ElementFacts, FS_Subset, FS_CardinalityType
  <2>8. Cardinality(R) <= Cardinality(snap[p].standing[side]) /\ Cardinality(R) \in Nat
    BY <2>6, <2>7, FS_Subset, FS_CardinalityType
  <2>9. R \in SUBSET S /\ g \in S
    OBVIOUS
  <2> HIDE DEF R, S
  <2>10. RankIn(timeline, S, g) <= Cardinality(R)
    BY <2>2, <2>3, <2>4, <2>9, RankOfPart
  <2>11. RankIn(timeline, S, g) \in Nat
    BY <2>3, <2>9, RankRange
  <2> QED
    BY <1>5, <2>5, <2>7, <2>8, <2>10, <2>11 DEF S
<1>6. UntoldInv'
  BY <1>1, <1>5 DEF UntoldInv
<1> QED
  BY <1>2, <1>3, <1>4, <1>6 DEF OneInv

\* Every step keeps OneInv.
LEMMA OneStep == Undisturbed /\ CoreInv /\ OneInv /\ [Next]_vars => OneInv'
<1> SUFFICES ASSUME Undisturbed, CoreInv, OneInv, [Next]_vars PROVE OneInv'
  OBVIOUS
<1>1. /\ dated' = None
      /\ \/ ProviderStep
         \/ \E p : Poller = {p} /\ PollerStep(p) /\ ~ NotifyRaises(p)
         \/ UNCHANGED <<provider, poller, row, ledger, told, opening>> /\ redis' \in {redis, None}
  BY SoleStep DEF OneInv
<1>2. CASE ProviderStep
  BY <1>2, OneProvider
<1>3. CASE UNCHANGED <<provider, poller, row, ledger, told, opening>> /\ redis' \in {redis, None}
  BY <1>1, <1>3, OneSame
<1>4. ASSUME NEW p, Poller = {p}, PollerStep(p), ~ NotifyRaises(p) PROVE OneInv'
  <2> USE <1>1, <1>4 DEF store, history
  <2>0. /\ p \in DOMAIN pc /\ p \in DOMAIN rowRead /\ p \in DOMAIN snap /\ p \in DOMAIN queue
    BY DEF CoreInv, PollerInv
  <2>1. CASE Begin(p)
    <3>1. UNCHANGED <<provider, row, redis, told, opening>> /\ pc[p] = "idle"
          /\ pc'[p] \in {"idle", "fetch", "retry"} /\ (pc'[p] = "fetch" => rowRead'[p] = row)
      BY <2>0, <2>1 DEF Begin
    <3> QED
      BY <3>1, OneRest
  <2>2. CASE Fetch(p)
    <3>1. UNCHANGED <<provider, row, redis, told, opening>> /\ pc[p] = "fetch"
      BY <2>2 DEF Fetch
    <3>2. dated = None
      BY DEF OneInv, BaseInv
    <3>3. \/ pc'[p] = "diff" /\ rowRead'[p] = rowRead[p] /\ snap'[p] = Fixture
          \/ pc'[p] = "retry"
      BY <2>0, <2>2, <3>2 DEF Fetch, Obtain
    <3>4. CASE pc'[p] = "retry"
      BY <3>1, <3>4, OneRest
    <3> QED
      BY <3>1, <3>3, <3>4, OneObtain
  <2>3. CASE Detect(p)
    BY <2>3, OneDetect
  <2>4. CASE Emit(p)
    <3>1. UNCHANGED <<provider, row, redis, opening, snap>> /\ pc[p] = "emit" /\ queue[p] # <<>>
      BY <2>4 DEF Emit
    <3>2. CASE Head(queue[p]).key \in Elements(ledger)
      <4>1. pc'[p] = "emit" /\ queue'[p] = Tail(queue[p]) /\ told' = told
        BY <2>0, <2>4, <3>2 DEF Emit
      <4> QED
        BY <3>1, <4>1, OneNext
    <3>3. CASE Head(queue[p]).key \notin Elements(ledger)
      <4>1. /\ pc'[p] = "notify" /\ queue' = queue
            /\ told' = [g \in Goal |-> IF g = Head(queue[p]).about THEN told[g] + 1 ELSE told[g]]
        BY <2>0, <2>4, <3>3 DEF Emit
      <4> QED
        BY <3>1, <4>1, OneRecord
    <3> QED
      BY <3>2, <3>3
  <2>5. CASE Notify(p)
    <3>1. /\ UNCHANGED <<provider, row, redis, told, opening, snap>>
          /\ pc[p] = "notify" /\ pc'[p] = "emit" /\ queue'[p] = Tail(queue[p])
      BY <2>0, <2>5 DEF Notify
    <3>2. queue[p] # <<>>
      BY <3>1 DEF CoreInv, PollerInv
    <3> QED
      BY <3>1, <3>2, OneNext
  <2>6. CASE SaveRedis(p)
    <3>1. /\ UNCHANGED <<provider, row, told, opening, snap, queue>> /\ redis' = Kept(snap[p])
          /\ pc[p] = "emit" /\ pc'[p] = "save" /\ queue[p] = <<>>
      BY <2>0, <2>6 DEF SaveRedis
    <3> QED
      BY <3>1, OneSaveRedis
  <2>7. CASE SaveRow(p)
    <3>1. /\ UNCHANGED <<provider, redis, told, opening>> /\ row' = RowOf(snap[p])
          /\ pc[p] = "save" /\ pc'[p] = "retry"
      BY <2>0, <2>7 DEF SaveRow, CutShort
    <3> QED
      BY <3>1, OneSaveRow
  <2>8. CASE Retry(p)
    <3>1. /\ UNCHANGED <<provider, row, redis, told, opening>>
          /\ pc[p] = "retry" /\ pc'[p] = "idle"
      BY <2>0, <2>8 DEF Retry
    <3> QED
      BY <3>1, OneRest
  <2> QED
    BY <2>1, <2>2, <2>3, <2>4, <2>5, <2>6, <2>7, <2>8 DEF PollerStep
<1> QED
  BY <1>1, <1>2, <1>3, <1>4

\* The row counts what stood at discovery, and nothing has been told.
LEMMA OneInit == Init => OneInv
<1> SUFFICES ASSUME Init PROVE OneInv
  OBVIOUS
<1> USE DEF Init
<1>1. BaseInv
  BY DEF BaseInv
<1>2. ClosedInv /\ QueueInv
  BY DEF ClosedInv, QueueInv, WithSnap
<1>3. ToldInv
  BY DEF ToldInv
<1>4. UntoldInv
  BY DEF UntoldInv, Standing
<1> QED
  BY <1>1, <1>2, <1>3, <1>4 DEF OneInv

\* One poller whose notifications do not fail, on a feed that is not stored,
\* never alerts a goal twice, however many goals and whatever the provider,
\* the referee and the cache do.
THEOREM OneAlertPerGoal ==
    ASSUME Undisturbed
    PROVE  Spec => []NeverTwoAlertsForAGoal
<1>1. Init => CoreInv /\ OneInv
  BY CoreInit, OneInit
<1>2. CoreInv /\ OneInv /\ [Next]_vars => CoreInv' /\ OneInv'
  BY CoreStep, OneStep
<1>3. CoreInv /\ OneInv => NeverTwoAlertsForAGoal
  BY DEF CoreInv, StoreInv, OneInv, ToldInv, NeverTwoAlertsForAGoal
<1> QED
  BY <1>1, <1>2, <1>3, PTL DEF Spec

----------------------------------------------------------------------------
(* Every goal and every card.                                               *)

\* A score, a scorer, a card, kick-off or full-time: nothing is taken back.
LEMMA ClearProvider ==
    ASSUME CoreInv, GrowInv, ProviderStep, ~ blurred'
    PROVE  /\ ~ blurred
           /\ void' = {}
           /\ status' # "suspended"
           /\ published \subseteq published'
           /\ Elements(timeline') \cap Card \subseteq published'
<1> USE DEF CoreInv, MatchInv, GrowInv, history
<1>1. ASSUME NEW g \in Goal, Score(g) PROVE Elements(timeline') = Elements(timeline) \cup {g}
  BY <1>1, AppendFacts DEF Score
<1>2. ASSUME NEW c \in Card, Book(c) PROVE Elements(timeline') = Elements(timeline) \cup {c}
  BY <1>2, AppendFacts DEF Book
<1>3. CASE \E g \in Goal : Score(g)
  <2>1. PICK g \in Goal : Score(g)
    BY <1>3
  <2>2. Elements(timeline') \cap Card \subseteq published
    BY <1>1, <2>1, DetectionAssumption
  <2> QED
    BY <2>1, <2>2 DEF Score
<1>4. CASE \E c \in Card : Book(c)
  BY <1>2, <1>4 DEF Book
<1>5. CASE \E g \in Goal : PublishScorer(g) \/ Disallow(g)
  BY <1>5 DEF PublishScorer, Disallow
<1>6. CASE KickOff \/ Postpone \/ Suspend \/ FullTime
  BY <1>6 DEF KickOff, Postpone, Suspend, FullTime
<1> QED
  BY <1>3, <1>4, <1>5, <1>6 DEF ProviderStep

\* The steps of the one poller while nothing is taken back or lost.
LEMMA ClearStep ==
    ASSUME Undisturbed, CoreInv, BaseInv, [Next]_vars, ~ blurred'
    PROVE  /\ ~ blurred
           /\ \/ ProviderStep
              \/ \E p : Poller = {p} /\ PollerStep(p) /\ ~ NotifyRaises(p)
              \/ UNCHANGED <<provider, poller, row, redis, ledger, told, opening>>
<1>1. CASE ProviderStep
  BY <1>1 DEF ProviderStep, KickOff, Score, PublishScorer, Disallow, Book, Postpone, Suspend, FullTime,
              history
<1>2. ASSUME NEW p \in Poller, PollerStep(p) PROVE ~ blurred
  BY <1>2 DEF PollerStep, Begin, Fetch, Detect, Emit, Notify, NotifyRaises, SaveRedis, SaveRow,
              Retry, history
<1>3. \A p \in Poller : Poller = {p} /\ ~ NotifyRaises(p) /\ ~ Crash(p)
  BY DEF Undisturbed, NotifyRaises, Crash
<1>4. CASE Time \/ (\E k \in jobs : RunJob(k)) \/ UNCHANGED vars
  BY <1>4 DEF Time, RunJob, vars, store, history, provider
<1>5. ~ LoseCache /\ ~ StoreFeed /\ ~ ExpireFeed
  BY DEF LoseCache, StoreFeed, ExpireFeed, Undisturbed, BaseInv
<1> QED
  BY <1>1, <1>2, <1>3, <1>4, <1>5 DEF Next

Clear == GrowInv /\ KeyInv /\ AlertInv /\ CardInv

\* The provider reports more: nothing more has to have been told yet.
LEMMA ClearGrows ==
    ASSUME CoreInv, Clear, ProviderStep, ~ blurred', [Next]_vars
    PROVE  Clear'
<1> USE DEF Clear
<1>1. UNCHANGED <<store, poller, opening, told>> /\ MatchInv
  BY ProviderMatch DEF CoreInv
<1>2. UNCHANGED <<row, redis, ledger, pc, snap, queue>>
  BY <1>1 DEF store, poller
<1>3. /\ void' = {} /\ status' # "suspended" /\ published \subseteq published'
      /\ Elements(timeline') \cap Card \subseteq published'
  BY ClearProvider
<1>4. \A side \in Sides : Standing(side) \subseteq Standing(side)'
  BY <1>1, <1>3, StandingStep
<1>5. /\ timeline \in Seq(Goal \cup Card) /\ timeline' \in Seq(Goal \cup Card)
      /\ Extends(timeline, timeline')
  BY <1>1, MatchStep DEF MatchInv
<1>6. ASSUME NEW side \in Sides
      PROVE  /\ Cardinality(Standing(side)) \in Nat /\ Cardinality(Standing(side)') \in Nat
             /\ Cardinality(Standing(side)) <= Cardinality(Standing(side)')
             /\ Standing(side)' \in SUBSET Elements(timeline')
  <2>1. Standing(side)' \in SUBSET Elements(timeline')
    BY DEF Standing, Elements
  <2>2. IsFiniteSet(Standing(side)')
    BY <1>5, <2>1, ElementFacts, FS_Subset
  <2>3. Standing(side) \in SUBSET Standing(side)'
    BY <1>4
  <2>4. IsFiniteSet(Standing(side)) /\ Cardinality(Standing(side)) <= Cardinality(Standing(side)')
    BY <2>2, <2>3, FS_Subset
  <2> QED
    BY <2>1, <2>2, <2>4, FS_CardinalityType
<1>7. \A side \in Sides : row[side] \in Nat /\ row[side] <= Cardinality(Standing(side))
  BY DEF GrowInv, CoreInv, StoreInv, Rows, Sides
<1>8. GrowInv'
  <2>1. \A side \in Sides : row'[side] <= Cardinality(Standing(side)')
    BY <1>2, <1>6, <1>7
  <2>2. ASSUME NEW p \in Poller, pc'[p] \in WithSnap
        PROVE  /\ snap'[p].status # "suspended"
               /\ snap'[p].events \subseteq published'
               /\ \A side \in Sides :
                     /\ snap'[p].standing[side] \subseteq Standing(side)'
                     /\ row'[side] <= snap'[p][side]
               /\ redis' # None => redis'.events \subseteq snap'[p].events
               /\ pc'[p] = "save" => redis' # None
    BY <1>2, <1>3, <1>4, <2>2 DEF GrowInv
  <2>3. redis' # None => redis'.events \subseteq published'
    BY <1>2, <1>3 DEF GrowInv
  <2>4. Elements(timeline)' \cap Card \subseteq published'
    BY <1>3 DEF Elements
  <2> QED
    BY <1>3, <2>1, <2>2, <2>3, <2>4 DEF GrowInv
<1>9. KeyInv' /\ CardInv'
  BY <1>2 DEF KeyInv, CardInv, Left, Elements, Explains
<1>10. ASSUME NEW side \in Sides, NEW g \in Standing(side)', g \notin Elements(opening)
       PROVE  /\ RankIn(timeline', Standing(side)', g) <= row[side] => told[g] # 0
              /\ \A p \in Poller :
                    pc[p] \in Working /\ g \in snap[p].standing[side] =>
                        told[g] # 0 \/ \E i \in Left(p) : queue[p][i].about = g
  <2>1. CASE g \in Elements(timeline)
    <3>1. /\ g \in Standing(side)
          /\ RankIn(timeline', Standing(side)', g) = RankIn(timeline, Standing(side), g)
      BY <1>1, <1>3, <2>1, StandingStep
    <3> QED
      BY <1>10, <3>1 DEF AlertInv
  <2>2. CASE g \notin Elements(timeline)
    <3> DEFINE R == Standing(side)
               S == Standing(side)'
    <3>1. R \in SUBSET Elements(timeline) /\ R \in SUBSET S /\ g \notin R /\ g \in S
          /\ S \in SUBSET Elements(timeline')
          /\ S \cap Elements(timeline) \subseteq R
      BY <1>1, <1>4, <1>6, <2>2, StandingStep DEF Scored
    <3>2. \A x \in R, y \in S : PlaceIn(timeline', y) <= PlaceIn(timeline', x) => y \in R
      BY <1>5, <3>1, PlaceStays
    <3> HIDE DEF R, S
    <3>3. ~ (RankIn(timeline', S, g) <= Cardinality(R))
      BY <1>5, <3>1, <3>2, RankOfPart
    <3>4. RankIn(timeline', S, g) \in Nat
      BY <1>5, <3>1, RankRange
    <3>5. ~ (RankIn(timeline', S, g) <= row[side])
      BY <1>6, <1>7, <3>3, <3>4 DEF R
    <3>6. \A p \in Poller : pc[p] \in Working => g \notin snap[p].standing[side]
      BY <2>2 DEF CoreInv, PollerInv, Reported, Scored, Working, WithSnap
    <3> QED
      BY <3>5, <3>6 DEF S
  <2> QED
    BY <2>1, <2>2
<1>11. AlertInv'
  BY <1>1, <1>2, <1>10 DEF AlertInv, Left, Elements
<1> QED
  BY <1>8, <1>9, <1>11

\* Steps that leave the match, the row, the cache and the poller leave it clear.
LEMMA ClearSame ==
    ASSUME Clear, UNCHANGED <<provider, poller, row, redis, ledger, told, opening>>
    PROVE  Clear'
<1>1. /\ timeline' = timeline /\ void' = void /\ \A side : Standing(side)' = Standing(side)
      /\ UNCHANGED <<status, published>>
  BY SameMatch DEF provider
<1>2. UNCHANGED <<pc, rowRead, snap, queue>>
  BY DEF poller
<1>3. GrowInv'
  BY <1>1, <1>2 DEF Clear, GrowInv
<1>4. KeyInv'
  BY <1>1, <1>2 DEF Clear, KeyInv, Left, Explains
<1>5. AlertInv'
  BY <1>1, <1>2 DEF Clear, AlertInv, Left
<1>6. CardInv'
  BY <1>1, <1>2 DEF Clear, CardInv, Left
<1> QED
  BY <1>3, <1>4, <1>5, <1>6 DEF Clear

\* So does a poller with nothing in hand.
LEMMA ClearRest ==
    ASSUME Clear, NEW p, Poller = {p}, UNCHANGED <<provider, row, redis, ledger, told, opening>>,
           pc[p] \in {"idle", "fetch", "retry"}, pc'[p] \in {"idle", "fetch", "retry"}
    PROVE  Clear'
<1>1. /\ timeline' = timeline /\ void' = void /\ \A side : Standing(side)' = Standing(side)
      /\ UNCHANGED <<status, published>>
  BY SameMatch DEF provider
<1>2. GrowInv'
  BY <1>1 DEF Clear, GrowInv, WithSnap
<1>3. KeyInv'
  BY DEF Clear, KeyInv, Working
<1>4. AlertInv'
  BY <1>1 DEF Clear, AlertInv, Working
<1>5. CardInv'
  BY DEF Clear, CardInv, Working
<1> QED
  BY <1>2, <1>3, <1>4, <1>5 DEF Clear

\* The fixture that is fetched has all that was published.
LEMMA ClearObtain ==
    ASSUME Clear, NEW p, Poller = {p}, UNCHANGED <<provider, row, redis, ledger, told, opening>>,
           pc[p] = "fetch", pc'[p] = "diff", snap'[p] = Fixture
    PROVE  Clear'
<1>1. /\ timeline' = timeline /\ void' = void /\ \A side : Standing(side)' = Standing(side)
      /\ UNCHANGED <<status, published>>
  BY SameMatch DEF provider
<1>2. /\ snap'[p].status = status /\ snap'[p].events = published \ void
      /\ \A side \in Sides : /\ snap'[p].standing[side] = Standing(side)
                             /\ snap'[p][side] = Cardinality(Standing(side))
  BY DEF Fixture, Sides
<1>3. GrowInv'
  BY <1>1, <1>2 DEF Clear, GrowInv
<1>4. KeyInv'
  BY DEF Clear, KeyInv, Working
<1>5. AlertInv'
  BY <1>1 DEF Clear, AlertInv, Working
<1>6. CardInv'
  BY DEF Clear, CardInv, Working
<1> QED
  BY <1>3, <1>4, <1>5, <1>6 DEF Clear

\* The keys a diff may use are explained by its fixture, and those of a goal
\* are not in the ledger.
LEMMA DiffKeysFresh ==
    ASSUME CoreInv, Clear, NEW p \in Poller, pc[p] = "diff",
           NEW base \in States, \A side \in Sides : base[side] = row[side],
           redis # None => base.events = redis.events,
           NEW k \in DiffKeys(base, snap[p])
    PROVE  /\ Explains(snap[p], k)
           /\ k[1] = "goal" => k \notin Elements(ledger)
<1> DEFINE f == snap[p]
<1>1. Reported(f, timeline)
  BY DEF CoreInv, PollerInv, WithSnap
<1>2. \A l \in Elements(ledger) :
         /\ l \in ScorerKeys => redis # None /\ l[2] \in redis.events
         /\ l \in ScoreKeys => l[3] <= row[l[2]]
  BY DEF Clear, KeyInv, Working
<1>3. ASSUME k[1] # "goal" PROVE Explains(f, k)
  BY <1>3 DEF Explains, ScorerKeys, ScoreKeys
<1>4. ASSUME k[1] = "goal" PROVE \E side \in Sides : k \in GoalKeys(base, f, side)
  BY <1>4 DEF DiffKeys, CardKeys, Sides
<1>5. ASSUME NEW side \in Sides, NEW g \in NewGoals(base, f, side), k = <<"goal", g>>
      PROVE  Explains(f, k) /\ k \notin Elements(ledger)
  <2>1. g \in f.events /\ g \notin base.events /\ g \in Goal
    BY DEF NewGoals, NewEvents
  <2>2. k \in ScorerKeys /\ k[2] = g
    BY <1>5, <2>1 DEF ScorerKeys
  <2>3. k \notin ScoreKeys
    BY <1>5, KeyForms DEF ScoreKeys
  <2> QED
    BY <1>2, <2>1, <2>2, <2>3 DEF Explains
<1>6. ASSUME NEW side \in Sides, NEW n \in Nat, NEW m \in Nat, base[side] < n, n <= f[side],
             k = <<"goal", side, n, m>>
      PROVE  Explains(f, k) /\ k \notin Elements(ledger)
  <2>1. k \in ScoreKeys /\ k[2] = side /\ k[3] = n
    BY <1>6 DEF ScoreKeys
  <2>2. k \notin ScorerKeys
    BY <1>6, KeyForms DEF ScorerKeys
  <2>3. row[side] \in Nat
    BY DEF CoreInv, StoreInv, Rows, Sides
  <2>4. ~ (k[3] <= row[k[2]])
    BY <1>6, <2>1, <2>3
  <2> QED
    BY <1>2, <1>6, <2>1, <2>2, <2>4 DEF Explains
<1>7. ASSUME k[1] = "goal" PROVE Explains(f, k) /\ k \notin Elements(ledger)
  <2>1. PICK side \in Sides : k \in GoalKeys(base, f, side)
    BY <1>4, <1>7
  <2>2. CASE \E g \in NewGoals(base, f, side) : k = <<"goal", g>>
    BY <1>5, <2>2
  <2>3. CASE k \in {"goal"} \X {side} \X {n \in Nat : base[side] < n /\ n <= f[side]} \X Nat
    <3>1. PICK n \in Nat, m \in Nat : base[side] < n /\ n <= f[side] /\ k = <<"goal", side, n, m>>
      BY <2>3
    <3> QED
      BY <1>6, <3>1
  <2> QED
    BY <2>1, <2>2, <2>3 DEF GoalKeys
<1> QED
  BY <1>3, <1>7

\* Every goal and card since the baseline is among the entries of the diff.
LEMMA ClearDetect ==
    ASSUME CoreInv, OneInv, Clear, NEW p, Poller = {p}, Detect(p)
    PROVE  Clear'
<1> DEFINE base == Baseline(p)
           f == snap[p]
           q == queue'[p]
<1>0. /\ UNCHANGED <<provider, dated, row, redis, ledger, told, opening, snap>>
      /\ pc[p] = "diff" /\ pc'[p] = "emit" /\ p \in Poller
  BY DEF Detect, store, history, CoreInv, PollerInv
<1>1. /\ timeline' = timeline /\ void' = void /\ \A side : Standing(side)' = Standing(side)
      /\ UNCHANGED <<status, published>>
  BY <1>0, SameMatch DEF provider
<1>2. MatchInv /\ base \in States /\ Reported(f, timeline) /\ q = Diff(base, f)
  BY <1>0, DetectTypes DEF CoreInv, PollerInv, WithSnap
<1>3. \A side \in Sides : base[side] = row[side]
  BY <1>0 DEF Baseline, OneInv, BaseInv, RowOf, Sides
<1>4. /\ redis # None => base.events = redis.events
      /\ base.events = {} \/ redis # None
  BY DEF Baseline
<1>5. /\ f.status # "suspended"
      /\ \A side \in Sides : f.standing[side] \subseteq Standing(side) /\ row[side] <= f[side]
      /\ redis # None => redis.events \subseteq f.events
  BY <1>0 DEF Clear, GrowInv, WithSnap
<1>6. GrowInv'
  BY <1>0, <1>1 DEF Clear, GrowInv, WithSnap
<1> HIDE DEF base, q
<1>7. /\ Batch(q, Uncounted(base, f, "home") \cup Uncounted(base, f, "away"), DiffKeys(base, f))
      /\ \A k \in CardKeys(base, f) : \E i \in DOMAIN q : q[i].key = k
  BY <1>2, <1>5, DiffBatch
<1>8. ASSUME NEW i \in DOMAIN q
      PROVE  /\ Explains(f, q[i].key)
             /\ q[i].about \in Goal =>
                   /\ q[i].key \notin Elements(ledger)
                   /\ \A j \in DOMAIN q : q[j].key = q[i].key => i = j
  <2>1. q[i].key \in DiffKeys(base, f) /\ (q[i].about \in Goal => q[i].key[1] = "goal")
    BY <1>7 DEF Batch
  <2>2. /\ Explains(f, q[i].key)
        /\ q[i].key[1] = "goal" => q[i].key \notin Elements(ledger)
    BY <1>0, <1>2, <1>3, <1>4, <2>1, DiffKeysFresh
  <2>3. \A j \in DOMAIN q : q[j].key = q[i].key => i = j
    BY <1>7 DEF Batch
  <2> QED
    BY <2>1, <2>2, <2>3
<1>9. ASSUME NEW k \in Elements(ledger) PROVE Explains(f, k)
  <2>1. /\ k \in ScorerKeys => redis # None /\ k[2] \in redis.events
        /\ k \in ScoreKeys => k[3] <= row[k[2]]
    BY <1>0 DEF Clear, KeyInv, Working
  <2>2. k \in ScorerKeys => k[2] \in f.events
    BY <1>5, <2>1
  <2>3. ASSUME k \in ScoreKeys PROVE k[3] <= f[k[2]]
    <3>1. k[2] \in Sides /\ k[3] \in Nat
      BY <2>3 DEF ScoreKeys
    <3>2. row[k[2]] \in Nat /\ f[k[2]] \in Nat
      BY <1>2, <3>1 DEF CoreInv, StoreInv, Rows, Sides, Reported, Fixtures
    <3> QED
      BY <1>5, <2>1, <2>3, <3>1, <3>2
  <2> QED
    BY <2>2, <2>3 DEF Explains
<1>10. KeyInv'
  <2>1. pc'[p] = "emit" /\ queue'[p] = q /\ snap'[p] = f /\ ledger' = ledger
    BY <1>0 DEF q
  <2> QED
    BY <1>8, <1>9, <2>1 DEF KeyInv, Working
<1>11. ASSUME NEW side \in Sides, NEW g \in Standing(side), g \notin Elements(opening),
              g \in f.standing[side]
       PROVE  told[g] # 0 \/ \E i \in DOMAIN q : q[i].about = g
  <2> DEFINE R == f.standing[side]
             S == Standing(side)
  <2>1. timeline \in Seq(Goal \cup Card) /\ S \in SUBSET Elements(timeline) /\ R \in SUBSET S
    BY <1>2, <1>5 DEF MatchInv, Standing
  <2>2. \A x \in R, y \in S : PlaceIn(timeline, y) <= PlaceIn(timeline, x) => y \in R
    BY <1>0 DEF OneInv, ClosedInv, WithSnap
  <2>3. g \in R /\ g \in S
    BY <1>11
  <2> HIDE DEF R, S
  <2>4. RankIn(timeline, S, g) = RankIn(timeline, R, g)
    BY <2>1, <2>2, <2>3, RankOfPart
  <2>5. RankIn(timeline, S, g) \in Nat
    BY <2>1, <2>3, RankRange
  <2>6. CASE RankIn(timeline, S, g) <= row[side]
    BY <1>11, <2>6 DEF Clear, AlertInv, S
  <2>7. CASE ~ (RankIn(timeline, S, g) <= row[side])
    <3>1. row[side] \in Nat /\ base[side] = row[side]
      BY <1>3 DEF CoreInv, StoreInv, Rows, Sides
    <3>2. RankIn(timeline, R, g) > base[side]
      BY <2>4, <2>5, <2>7, <3>1
    <3>3. g \in Uncounted(base, f, side)
      BY <2>3, <3>2 DEF Uncounted, R
    <3> QED
      BY <1>7, <3>3 DEF Batch, Sides
  <2> QED
    BY <2>6, <2>7
<1>12. AlertInv'
  <2>1. pc'[p] = "emit" /\ queue'[p] = q /\ snap'[p] = f /\ UNCHANGED <<row, told, opening>>
    BY <1>0 DEF q
  <2> QED
    BY <1>1, <1>11, <2>1 DEF Clear, AlertInv, Left
<1>13. ASSUME NEW c \in f.events \cap Card
       PROVE  <<"card", c>> \in Elements(ledger) \/ \E i \in DOMAIN q : q[i].key = <<"card", c>>
  <2>1. CASE c \in base.events
    BY <1>4, <2>1 DEF Clear, CardInv
  <2>2. CASE c \notin base.events
    <3>1. <<"card", c>> \in CardKeys(base, f)
      BY <2>2 DEF CardKeys, NewEvents
    <3> QED
      BY <1>7, <3>1
  <2> QED
    BY <2>1, <2>2
<1>14. CardInv'
  <2>1. /\ pc'[p] = "emit" /\ queue'[p] = q /\ snap'[p] = f
        /\ UNCHANGED <<ledger, redis>>
    BY <1>0 DEF q
  <2> QED
    BY <1>13, <2>1 DEF Clear, CardInv, Left
<1> QED
  BY <1>6, <1>10, <1>12, <1>14 DEF Clear

\* An entry that was recorded, or one whose row is there, makes way.
LEMMA ClearNext ==
    ASSUME CoreInv, Clear, NEW p, Poller = {p},
           UNCHANGED <<provider, row, redis, ledger, told, opening, snap>>,
           pc[p] \in {"emit", "notify"}, pc'[p] = "emit",
           queue[p] # <<>>, queue'[p] = Tail(queue[p]),
           Head(queue[p]).key \in Elements(ledger)
    PROVE  Clear'
<1>1. /\ timeline' = timeline /\ void' = void /\ \A side : Standing(side)' = Standing(side)
      /\ UNCHANGED <<status, published>>
  BY SameMatch DEF provider
<1>2. GrowInv'
  BY <1>1 DEF Clear, GrowInv, WithSnap
<1> DEFINE q == queue[p]
           r == Tail(queue[p])
<1>3. q \in Seq(Entries) /\ r \in Seq(Entries) /\ 1 \in DOMAIN q /\ Head(q) = q[1]
  BY TailFacts DEF CoreInv, PollerInv
<1>4. \A i \in DOMAIN r : i \in Nat /\ i + 1 \in DOMAIN q /\ r[i] = q[i + 1]
  BY TailFacts DEF CoreInv, PollerInv
<1>5. \A i \in DOMAIN q : i > 1 => i - 1 \in DOMAIN r /\ r[i - 1] = q[i]
  BY TailFacts DEF CoreInv, PollerInv
<1>6. DOMAIN q \subseteq Nat \ {0} /\ DOMAIN r \subseteq Nat \ {0}
  BY <1>3, ElementFacts
<1>7. queue'[p] = r /\ Left(p)' = DOMAIN r
  BY DEF Left
<1>8. ASSUME NEW i \in Left(p), i = 1 PROVE pc[p] = "emit" /\ q[i].key \in Elements(ledger)
  BY <1>3, <1>8 DEF Left
<1>9. \A i \in Left(p) : i \in DOMAIN q
  BY DEF Left
<1> HIDE DEF q, r
<1>10. ASSUME NEW i \in DOMAIN r
       PROVE  /\ Explains(snap[p], r[i].key)
              /\ r[i].about \in Goal =>
                    /\ r[i].key \notin Elements(ledger)
                    /\ \A j \in DOMAIN r : r[j].key = r[i].key => i = j
  <2>1. i + 1 \in DOMAIN q /\ r[i] = q[i + 1] /\ i \in Nat
    BY <1>4
  <2>2. i + 1 \in Left(p)
    BY <1>6, <2>1 DEF Left, q
  <2>3. /\ Explains(snap[p], q[i + 1].key)
        /\ q[i + 1].about \in Goal =>
              /\ q[i + 1].key \notin Elements(ledger)
              /\ \A j \in DOMAIN q : q[j].key = q[i + 1].key => i + 1 = j
    BY <2>1, <2>2 DEF Clear, KeyInv, q
  <2>4. ASSUME r[i].about \in Goal, NEW j \in DOMAIN r, r[j].key = r[i].key PROVE i = j
    BY <1>4, <2>1, <2>3, <2>4
  <2> QED
    BY <2>1, <2>3, <2>4
<1>11. KeyInv'
  <2>1. \A k \in Elements(ledger) : Explains(snap[p], k)
    BY DEF Clear, KeyInv, Working
  <2> QED
    BY <1>7, <1>10, <2>1 DEF KeyInv, Working
<1>12. ASSUME NEW i \in Left(p), q[i].about \in Goal
       PROVE  \E j \in DOMAIN r : r[j].about = q[i].about
  <2>1. i # 1
    <3> SUFFICES ASSUME i = 1 PROVE FALSE
      OBVIOUS
    <3>1. pc[p] = "emit" /\ q[i].key \in Elements(ledger)
      BY <1>8
    <3> QED
      BY <1>9, <1>12, <3>1 DEF Clear, KeyInv, q
  <2>2. i > 1
    BY <1>6, <1>9, <2>1
  <2> QED
    BY <1>5, <1>9, <2>2
<1>13. ASSUME NEW side \in Sides, NEW g \in Standing(side), g \notin Elements(opening),
              g \in snap[p].standing[side]
       PROVE  told[g] # 0 \/ \E i \in DOMAIN r : r[i].about = g
  <2>1. told[g] # 0 \/ \E i \in Left(p) : q[i].about = g
    BY <1>13 DEF Clear, AlertInv, Working, q
  <2>2. g \in Goal
    BY DEF Standing
  <2> QED
    BY <1>12, <2>1, <2>2
<1>14. AlertInv'
  BY <1>1, <1>7, <1>13 DEF Clear, AlertInv
<1>15. ASSUME NEW c \in snap[p].events \cap Card
       PROVE  <<"card", c>> \in Elements(ledger) \/ \E i \in DOMAIN r : r[i].key = <<"card", c>>
  <2>1. <<"card", c>> \in Elements(ledger) \/ \E i \in Left(p) : q[i].key = <<"card", c>>
    BY DEF Clear, CardInv, Working, q
  <2>2. ASSUME NEW i \in Left(p), q[i].key = <<"card", c>>, i # 1
        PROVE  \E j \in DOMAIN r : r[j].key = <<"card", c>>
    <3>1. i > 1
      BY <1>6, <1>9, <2>2
    <3> QED
      BY <1>5, <1>9, <2>2, <3>1
  <2> QED
    BY <1>8, <2>1, <2>2
<1>16. CardInv'
  <2>1. \A c \in snap'[p].events \cap Card :
           <<"card", c>> \in Elements(ledger') \/ \E i \in Left(p)' : queue'[p][i].key = <<"card", c>>
    BY <1>7, <1>15
  <2>2. redis' # None => \A c \in redis'.events \cap Card : <<"card", c>> \in Elements(ledger')
    BY DEF Clear, CardInv
  <2> QED
    BY <2>1, <2>2 DEF CardInv, Elements
<1> QED
  BY <1>2, <1>11, <1>14, <1>16 DEF Clear

\* An entry is recorded: its goal has been told, its key is explained.
LEMMA ClearRecord ==
    ASSUME CoreInv, OneInv, Clear, NEW p, Poller = {p},
           UNCHANGED <<provider, row, redis, opening, snap, queue>>,
           pc[p] = "emit", pc'[p] = "notify", queue[p] # <<>>,
           ledger' = Append(ledger, Head(queue[p]).key),
           told' = [g \in Goal |-> IF g = Head(queue[p]).about THEN told[g] + 1 ELSE told[g]]
    PROVE  Clear'
<1>1. /\ timeline' = timeline /\ void' = void /\ \A side : Standing(side)' = Standing(side)
      /\ UNCHANGED <<status, published>>
  BY SameMatch DEF provider
<1>2. GrowInv'
  BY <1>1 DEF Clear, GrowInv, WithSnap
<1> DEFINE q == queue[p]
           e == Head(queue[p])
<1>3. q \in Seq(Entries) /\ 1 \in DOMAIN q /\ e = q[1] /\ DOMAIN q \subseteq Nat \ {0}
  <2>1. q \in Seq(Entries) /\ 1 \in DOMAIN q /\ e = q[1]
    BY TailFacts DEF CoreInv, PollerInv
  <2> QED
    BY <2>1, ElementFacts
<1>4. Elements(ledger') = Elements(ledger) \cup {e.key}
  <2>1. e \in Entries /\ ledger \in Seq(Keys)
    BY <1>3, ElementFacts DEF CoreInv, StoreInv
  <2>2. e.key \in Keys
    BY <2>1 DEF Entries
  <2> QED
    BY <2>1, <2>2, AppendFacts
<1>5. \A g \in Goal : told'[g] = IF g = e.about THEN told[g] + 1 ELSE told[g]
  OBVIOUS
<1>6. told \in [Goal -> Nat]
  BY DEF CoreInv, StoreInv
<1>7. /\ Left(p) = DOMAIN q
      /\ \A i : i \in Left(p)' <=> i \in DOMAIN q /\ i > 1
  BY DEF Left
<1>8. pc'[p] = "notify" /\ queue'[p] = q /\ snap'[p] = snap[p]
  OBVIOUS
<1> HIDE DEF q, e
<1>9. \A k \in Elements(ledger) : Explains(snap[p], k)
  BY DEF Clear, KeyInv, Working
<1>10. ASSUME NEW i \in DOMAIN q
       PROVE  /\ Explains(snap[p], q[i].key)
              /\ q[i].about \in Goal =>
                    /\ q[i].key \notin Elements(ledger)
                    /\ \A j \in DOMAIN q : q[j].key = q[i].key => i = j
  BY <1>7 DEF Clear, KeyInv, q
<1>11. KeyInv'
  <2>1. \A k \in Elements(ledger') : Explains(snap[p], k)
    BY <1>3, <1>4, <1>9, <1>10
  <2>2. ASSUME NEW i \in DOMAIN q, q[i].about \in Goal, i > 1
        PROVE  q[i].key \notin Elements(ledger')
    <3>1. q[1].key # q[i].key
      BY <1>3, <1>10, <2>2
    <3> QED
      BY <1>3, <1>4, <1>10, <2>2, <3>1
  <2> QED
    BY <1>7, <1>8, <1>10, <2>1, <2>2 DEF KeyInv, Working, Elements, Explains
<1>12. ASSUME NEW i \in DOMAIN q, ~ (i > 1) PROVE i = 1
  BY <1>3, <1>12
<1>13. ASSUME NEW g \in Goal, told[g] # 0 PROVE told'[g] # 0
  BY <1>5, <1>6, <1>13
<1>14. ASSUME NEW g \in Goal, g = e.about PROVE told'[g] # 0
  BY <1>5, <1>6, <1>14
<1>15. AlertInv'
  <2> SUFFICES ASSUME NEW side \in Sides, NEW g \in Standing(side), g \notin Elements(opening)
               PROVE  /\ RankIn(timeline, Standing(side), g) <= row[side] => told'[g] # 0
                      /\ g \in snap[p].standing[side] =>
                            told'[g] # 0 \/ \E i \in Left(p)' : q[i].about = g
    BY <1>1, <1>8 DEF AlertInv, Elements
  <2>1. g \in Goal
    BY DEF Standing
  <2>2. RankIn(timeline, Standing(side), g) <= row[side] => told[g] # 0
    BY DEF Clear, AlertInv
  <2>3. ASSUME g \in snap[p].standing[side]
        PROVE  told[g] # 0 \/ \E i \in DOMAIN q : q[i].about = g
    BY <1>7, <2>3 DEF Clear, AlertInv, Working, q
  <2> QED
    BY <1>3, <1>7, <1>12, <1>13, <1>14, <2>1, <2>2, <2>3
<1>16. CardInv'
  <2>1. ASSUME NEW c \in snap[p].events \cap Card
        PROVE  <<"card", c>> \in Elements(ledger') \/ \E i \in Left(p)' : q[i].key = <<"card", c>>
    <3>1. <<"card", c>> \in Elements(ledger) \/ \E i \in DOMAIN q : q[i].key = <<"card", c>>
      BY <1>7 DEF Clear, CardInv, Working, q
    <3> QED
      BY <1>3, <1>4, <1>7, <1>12, <3>1
  <2>2. redis # None => \A c \in redis.events \cap Card : <<"card", c>> \in Elements(ledger')
    BY <1>4 DEF Clear, CardInv
  <2> QED
    BY <1>8, <2>1, <2>2 DEF CardInv, Elements
<1> QED
  BY <1>2, <1>11, <1>15, <1>16 DEF Clear

\* The state is written once every entry has been dealt with.
LEMMA ClearSaveRedis ==
    ASSUME CoreInv, Clear, NEW p, Poller = {p},
           UNCHANGED <<provider, row, ledger, told, opening, snap, queue>>,
           pc[p] = "emit", pc'[p] = "save", queue[p] = <<>>, redis' = Kept(snap[p])
    PROVE  Clear'
<1>1. /\ timeline' = timeline /\ void' = void /\ \A side : Standing(side)' = Standing(side)
      /\ UNCHANGED <<status, published>>
  BY SameMatch DEF provider
<1>2. snap[p] \in Fixtures
  BY DEF CoreInv, PollerInv, WithSnap, Reported
<1>3. redis' # None /\ redis'.events = snap[p].events
  <2>1. redis' \in States
    BY <1>2, WrittenTypes
  <2> QED
    BY <2>1, DetectionAssumption DEF Kept
<1>4. Left(p) = {} /\ Left(p)' = {}
  <2>1. DOMAIN <<>> = {}
    OBVIOUS
  <2> QED
    BY <2>1 DEF Left
<1>5. GrowInv'
  BY <1>1, <1>3 DEF Clear, GrowInv, WithSnap
<1>6. KeyInv'
  BY DEF Clear, KeyInv, Working, Explains
<1>7. AlertInv'
  BY <1>1, <1>4 DEF Clear, AlertInv, Working
<1>8. CardInv'
  BY <1>3, <1>4 DEF Clear, CardInv, Working
<1> QED
  BY <1>5, <1>6, <1>7, <1>8 DEF Clear

\* So is the row, and it counts the goals of the fixture.
LEMMA ClearSaveRow ==
    ASSUME CoreInv, OneInv, Clear, NEW p, Poller = {p},
           UNCHANGED <<provider, redis, ledger, told, opening>>,
           pc[p] = "save", pc'[p] = "retry", row' = RowOf(snap[p])
    PROVE  Clear'
<1>1. /\ timeline' = timeline /\ void' = void /\ \A side : Standing(side)' = Standing(side)
      /\ UNCHANGED <<status, published>>
  BY SameMatch DEF provider
<1>2. timeline \in Seq(Goal \cup Card) /\ Reported(snap[p], timeline)
  BY DEF CoreInv, MatchInv, PollerInv, WithSnap
<1>3. redis # None /\ redis = Kept(snap[p]) /\ queue[p] = <<>>
  BY DEF Clear, GrowInv, WithSnap, OneInv, BaseInv
<1>4. redis.events = snap[p].events
  BY <1>3 DEF Kept
<1>5. Left(p) = {}
  <2>1. DOMAIN <<>> = {}
    OBVIOUS
  <2> QED
    BY <1>3, <2>1 DEF Left
<1>6. \A side \in Sides : row'[side] = snap[p][side]
  BY DEF RowOf, Sides
<1>7. ASSUME NEW side \in Sides
      PROVE  /\ snap[p].standing[side] \in SUBSET Standing(side)
             /\ Standing(side) \in SUBSET Elements(timeline)
             /\ snap[p][side] = Cardinality(snap[p].standing[side])
             /\ Cardinality(snap[p].standing[side]) <= Cardinality(Standing(side))
  <2>1. snap[p].standing[side] \in SUBSET Standing(side) /\ Standing(side) \in SUBSET Elements(timeline)
    BY DEF Clear, GrowInv, WithSnap, Standing
  <2>2. IsFiniteSet(Standing(side))
    BY <1>2, <2>1, ElementFacts, FS_Subset
  <2> QED
    BY <1>2, <2>1, <2>2, FS_Subset DEF Reported
<1>8. GrowInv'
  <2>1. \A side \in Sides : row'[side] <= Cardinality(Standing(side))
    BY <1>6, <1>7
  <2> QED
    BY <1>1, <2>1 DEF Clear, GrowInv, WithSnap
<1>9. KeyInv'
  <2>1. ASSUME NEW k \in Elements(ledger)
        PROVE  /\ k \in ScorerKeys => k[2] \in redis.events
               /\ k \in ScoreKeys => k[3] <= row'[k[2]]
    <3>1. Explains(snap[p], k)
      BY DEF Clear, KeyInv, Working
    <3>2. k \in ScoreKeys => k[2] \in Sides
      BY DEF ScoreKeys
    <3> QED
      BY <1>4, <1>6, <3>1, <3>2 DEF Explains
  <2> QED
    BY <1>3, <2>1 DEF KeyInv, Working
<1>10. ASSUME NEW side \in Sides, NEW g \in Standing(side), g \notin Elements(opening),
              RankIn(timeline, Standing(side), g) <= row'[side]
       PROVE  told[g] # 0
  <2> DEFINE R == snap[p].standing[side]
             S == Standing(side)
  <2>1. \A x \in R, y \in S : PlaceIn(timeline, y) <= PlaceIn(timeline, x) => y \in R
    BY DEF OneInv, ClosedInv, WithSnap
  <2>2. /\ R \in SUBSET S /\ S \in SUBSET Elements(timeline) /\ g \in S
        /\ row'[side] = Cardinality(R)
    BY <1>6, <1>7
  <2> HIDE DEF R, S
  <2>3. RankIn(timeline, S, g) <= Cardinality(R)
    BY <1>10, <2>2 DEF S
  <2>4. g \in R
    BY <1>2, <2>1, <2>2, <2>3, RankOfPart
  <2> QED
    BY <1>5, <1>10, <2>4 DEF Clear, AlertInv, Working, R
<1>11. AlertInv'
  BY <1>1, <1>10 DEF AlertInv, Working
<1>12. CardInv'
  BY <1>3 DEF Clear, CardInv, Working
<1> QED
  BY <1>8, <1>9, <1>11, <1>12 DEF Clear

\* Every step keeps CompleteInv.
LEMMA CompleteStep ==
    Undisturbed /\ CoreInv /\ OneInv /\ CompleteInv /\ [Next]_vars => CompleteInv'
<1> SUFFICES ASSUME Undisturbed, CoreInv, OneInv, CompleteInv, [Next]_vars, ~ blurred'
             PROVE  Clear'
  BY DEF CompleteInv, Clear
<1>1. /\ ~ blurred
      /\ \/ ProviderStep
         \/ \E p : Poller = {p} /\ PollerStep(p) /\ ~ NotifyRaises(p)
         \/ UNCHANGED <<provider, poller, row, redis, ledger, told, opening>>
  BY ClearStep DEF OneInv
<1>2. Clear
  BY <1>1 DEF CompleteInv, Clear
<1>3. CASE ProviderStep
  BY <1>2, <1>3, ClearGrows
<1>4. CASE UNCHANGED <<provider, poller, row, redis, ledger, told, opening>>
  BY <1>2, <1>4, ClearSame
<1>5. ASSUME NEW p, Poller = {p}, PollerStep(p), ~ NotifyRaises(p) PROVE Clear'
  <2> USE <1>2, <1>5 DEF store, history
  <2>0. /\ p \in DOMAIN pc /\ p \in DOMAIN rowRead /\ p \in DOMAIN snap /\ p \in DOMAIN queue
    BY DEF CoreInv, PollerInv
  <2>1. CASE Begin(p)
    <3>1. /\ UNCHANGED <<provider, row, redis, ledger, told, opening>>
          /\ pc[p] = "idle" /\ pc'[p] \in {"idle", "fetch", "retry"}
      BY <2>0, <2>1 DEF Begin
    <3> QED
      BY <3>1, ClearRest
  <2>2. CASE Fetch(p)
    <3>1. UNCHANGED <<provider, row, redis, ledger, told, opening>> /\ pc[p] = "fetch"
      BY <2>2 DEF Fetch
    <3>2. dated = None
      BY DEF OneInv, BaseInv
    <3>3. (pc'[p] = "diff" /\ snap'[p] = Fixture) \/ pc'[p] = "retry"
      BY <2>0, <2>2, <3>2 DEF Fetch, Obtain
    <3>4. CASE pc'[p] = "retry"
      BY <3>1, <3>4, ClearRest
    <3> QED
      BY <3>1, <3>3, <3>4, ClearObtain
  <2>3. CASE Detect(p)
    BY <2>3, ClearDetect
  <2>4. CASE Emit(p)
    <3>1. UNCHANGED <<provider, row, redis, opening, snap>> /\ pc[p] = "emit" /\ queue[p] # <<>>
      BY <2>4 DEF Emit
    <3>2. CASE Head(queue[p]).key \in Elements(ledger)
      <4>1. /\ pc'[p] = "emit" /\ queue'[p] = Tail(queue[p])
            /\ told' = told /\ ledger' = ledger
        BY <2>0, <2>4, <3>2 DEF Emit
      <4> QED
        BY <3>1, <3>2, <4>1, ClearNext
    <3>3. CASE Head(queue[p]).key \notin Elements(ledger)
      <4>1. /\ pc'[p] = "notify" /\ queue' = queue
            /\ ledger' = Append(ledger, Head(queue[p]).key)
            /\ told' = [g \in Goal |-> IF g = Head(queue[p]).about THEN told[g] + 1 ELSE told[g]]
        BY <2>0, <2>4, <3>3 DEF Emit
      <4> QED
        BY <3>1, <4>1, ClearRecord
    <3> QED
      BY <3>2, <3>3
  <2>5. CASE Notify(p)
    <3>1. /\ UNCHANGED <<provider, row, redis, ledger, told, opening, snap>>
          /\ pc[p] = "notify" /\ pc'[p] = "emit" /\ queue'[p] = Tail(queue[p])
      BY <2>0, <2>5 DEF Notify
    <3>2. queue[p] # <<>> /\ Head(queue[p]).key \in Elements(ledger)
      BY <3>1 DEF CoreInv, PollerInv
    <3> QED
      BY <3>1, <3>2, ClearNext
  <2>6. CASE SaveRedis(p)
    <3>1. /\ UNCHANGED <<provider, row, ledger, told, opening, snap, queue>>
          /\ redis' = Kept(snap[p])
          /\ pc[p] = "emit" /\ pc'[p] = "save" /\ queue[p] = <<>>
      BY <2>0, <2>6 DEF SaveRedis
    <3> QED
      BY <3>1, ClearSaveRedis
  <2>7. CASE SaveRow(p)
    <3>1. /\ UNCHANGED <<provider, redis, ledger, told, opening>> /\ row' = RowOf(snap[p])
          /\ pc[p] = "save" /\ pc'[p] = "retry"
      BY <2>0, <2>7 DEF SaveRow, CutShort
    <3> QED
      BY <3>1, ClearSaveRow
  <2>8. CASE Retry(p)
    <3>1. /\ UNCHANGED <<provider, row, redis, ledger, told, opening>>
          /\ pc[p] = "retry" /\ pc'[p] = "idle"
      BY <2>0, <2>8 DEF Retry
    <3> QED
      BY <3>1, ClearRest
  <2> QED
    BY <2>1, <2>2, <2>3, <2>4, <2>5, <2>6, <2>7, <2>8 DEF PollerStep
<1> QED
  BY <1>1, <1>3, <1>4, <1>5

\* At discovery the row counts what stood, and nothing has been told or cached.
LEMMA CompleteInit == Init => CompleteInv
<1> SUFFICES ASSUME Init PROVE CompleteInv
  OBVIOUS
<1>1. CoreInv
  BY CoreInit
<1> USE DEF Init
<1>2. \A side \in Sides : row[side] = Cardinality(Standing(side)) /\ row[side] \in Nat
  <2>1. \A side \in Sides : row[side] \in Nat
    BY <1>1 DEF CoreInv, StoreInv, Rows, Sides
  <2>2. \A side \in Sides : row[side] = Cardinality(Standing(side))
    BY DEF RowOf, Fixture, Sides
  <2> QED
    BY <2>1, <2>2
<1>3. GrowInv
  BY <1>2 DEF GrowInv, WithSnap
<1>4. Elements(ledger) = {}
  <2>1. DOMAIN <<>> = {}
    OBVIOUS
  <2> QED
    BY <2>1 DEF Elements
<1>5. KeyInv
  BY <1>4 DEF KeyInv, Working
<1>6. AlertInv
  BY DEF AlertInv, Standing
<1>7. CardInv
  BY DEF CardInv, Working
<1> QED
  BY <1>3, <1>5, <1>6, <1>7 DEF CompleteInv

\* Undisturbed, by the time the poller has caught up every goal since discovery
\* has been alerted once, none from before, and every card has its row, however
\* many goals and cards there are and however many of them one poll finds.
THEOREM AllAlerted ==
    ASSUME Undisturbed
    PROVE  Spec => []AlertsComplete
<1>1. Init => CoreInv /\ PhantomInv /\ OneInv /\ CompleteInv
  BY CoreInit, PhantomInit, OneInit, CompleteInit
<1>2. CoreInv /\ PhantomInv /\ OneInv /\ CompleteInv /\ [Next]_vars
      => CoreInv' /\ PhantomInv' /\ OneInv' /\ CompleteInv'
  BY CoreStep, PhantomStep, OneStep, CompleteStep
<1>3. CoreInv /\ PhantomInv /\ OneInv /\ CompleteInv => AlertsComplete
  <2> SUFFICES ASSUME CoreInv, PhantomInv, OneInv, CompleteInv, ~ blurred, Processed
               PROVE  /\ \A g \in Elements(timeline) \cap Goal :
                            told[g] = IF g \in Elements(opening) THEN 0 ELSE 1
                      /\ \A c \in Elements(timeline) \cap Card :
                            <<"card", c>> \in Elements(ledger)
    BY DEF AlertsComplete
  <2>1. GrowInv /\ AlertInv /\ CardInv /\ void = {}
    BY DEF CompleteInv, GrowInv
  <2>2. ASSUME NEW g \in Elements(timeline) \cap Goal, g \notin Elements(opening)
        PROVE  told[g] = 1
    <3> DEFINE S == Standing(Side[g])
    <3>1. Side[g] \in Sides /\ g \in S /\ S \in SUBSET Elements(timeline)
      BY <2>1, DetectionAssumption DEF Standing
    <3>2. timeline \in Seq(Goal \cup Card)
      BY DEF CoreInv, MatchInv
    <3>3. row[Side[g]] = Cardinality(S)
      BY <3>1 DEF Processed, RowOf, Fixture, Sides
    <3> HIDE DEF S
    <3>4. RankIn(timeline, S, g) \in 1..Cardinality(S) /\ RankIn(timeline, S, g) \in Nat
      BY <3>1, <3>2, RankRange
    <3>5. RankIn(timeline, S, g) <= row[Side[g]]
      <4>1. IsFiniteSet(S) /\ Cardinality(S) \in Nat
        BY <3>1, <3>2, ElementFacts, FS_Subset, FS_CardinalityType
      <4> QED
        BY <3>3, <3>4, <4>1
    <3>6. told[g] # 0
      BY <2>1, <2>2, <3>1, <3>5 DEF AlertInv, S
    <3> QED
      BY <3>6 DEF OneInv, ToldInv
  <2>3. ASSUME NEW g \in Elements(opening) \cap Goal PROVE told[g] = 0
    BY <2>1 DEF PhantomInv
  <2>4. redis # None /\ redis.events = published
    <3>1. redis = Kept(Fixture) /\ Kept(Fixture) \in States
      BY FixtureReported DEF CoreInv, Processed
    <3>2. redis # None
      BY <3>1, DetectionAssumption
    <3>3. redis.events = published \ void
      BY <3>1 DEF Kept, Fixture
    <3> QED
      BY <2>1, <3>2, <3>3
  <2>5. \A c \in Elements(timeline) \cap Card : <<"card", c>> \in Elements(ledger)
    BY <2>1, <2>4 DEF GrowInv, CardInv
  <2> QED
    BY <2>2, <2>3, <2>5
<1> QED
  BY <1>1, <1>2, <1>3, PTL DEF Spec

=============================================================================

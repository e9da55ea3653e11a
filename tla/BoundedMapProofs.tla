---- MODULE BoundedMapProofs ----
(***************************************************************************)
(* What the bounded insertion-ordered map returns, for any bound, any set  *)
(* of entries and any key; first the least-number principle, which the     *)
(* oldest entry and the deepest output rest on.                            *)
(***************************************************************************)
EXTENDS BoundedMap, SequenceTheorems, FiniteSetTheorems, WellFoundedInduction, TLAPS

\* A set of naturals has a least one.
LEMMA LeastIndex ==
    ASSUME NEW S \in SUBSET Nat, S # {}
    PROVE  \E m \in S : \A i \in S : m <= i
<1>1. PICK n \in S : TRUE
  OBVIOUS
<1> DEFINE T == {1 .. i : i \in S \cap (0 .. n)}
           R == StrictSubsetOrdering(1 .. n)
<1>2. T \subseteq FiniteSubsetsOf(1 .. n) /\ T # {}
  <2>1. ASSUME NEW i \in S \cap (0 .. n)
        PROVE  1 .. i \in FiniteSubsetsOf(1 .. n)
    <3>1. i \in Int /\ 1 \in Int /\ 1 .. i \subseteq 1 .. n
      BY <1>1
    <3>2. IsFiniteSet(1 .. i)
      BY <3>1, FS_Interval
    <3> QED
      BY <3>1, <3>2 DEF FiniteSubsetsOf
  <2>2. n \in S \cap (0 .. n)
    BY <1>1
  <2> QED
    BY <2>1, <2>2
<1>3. PICK t \in T : \A u \in T : ~ (<<u, t>> \in R)
  <2>1. IsWellFoundedOn(R, FiniteSubsetsOf(1 .. n))
    BY FS_StrictSubsetOrderingWellFounded
  <2> HIDE DEF R, T
  <2> QED
    BY <1>2, <2>1, WFMin
<1>4. PICK m \in S \cap (0 .. n) : t = 1 .. m
  BY <1>3
<1>5. ASSUME NEW i \in S, i < m PROVE FALSE
  <2>1. 1 .. i \in T
    BY <1>4, <1>5
  <2>2. /\ 1 .. i \subseteq 1 .. m /\ 1 .. m \subseteq 1 .. n
        /\ m \in 1 .. m /\ m \notin 1 .. i
    BY <1>4, <1>5
  <2>3. <<1 .. i, t>> \in R
    BY <1>4, <2>2 DEF StrictSubsetOrdering
  <2> QED
    BY <1>3, <2>1, <2>3
<1> QED
  BY <1>4, <1>5

\* Every entry of one map is an entry of the other.
ComesFrom(small, big) ==
    \A j \in DOMAIN small : \E i \in DOMAIN big : small[j] = big[i]

\* No key has two entries, as in a JavaScript Map.
Distinct(map) ==
    \A i, j \in DOMAIN map : map[i].id = map[j].id => i = j

\* The stamps of a map whose entries carry one grow with the insertion order.
Ordered(map) ==
    \A i, j \in DOMAIN map : i < j => map[i].at < map[j].at

\* A key that is present has a position, and the entry there has that key.
LEMMA PositionProperty ==
    ASSUME NEW map, NEW id \in Keys(map)
    PROVE  /\ Position(map, id) \in DOMAIN map
           /\ map[Position(map, id)].id = id
BY DEF Keys, Position

\* The two pieces Delete joins, entry by entry.
LEMMA DeletePieces ==
    ASSUME NEW S, NEW map \in Seq(S), NEW id \in Keys(map)
    PROVE  /\ Delete(map, id) \in Seq(S)
           /\ Len(Delete(map, id)) = Len(map) - 1
           /\ \A j \in 1 .. Len(map) - 1 :
                 Delete(map, id)[j] =
                     IF j < Position(map, id) THEN map[j] ELSE map[j + 1]
<1> DEFINE p == Position(map, id)
           front == SubSeq(map, 1, p - 1)
           back == SubSeq(map, p + 1, Len(map))
<1>1. Len(map) \in Nat /\ DOMAIN map = 1 .. Len(map)
      /\ \A i \in 1 .. Len(map) : map[i] \in S
    BY LenProperties, ElementOfSeq
<1>2. p \in 1 .. Len(map)
    BY <1>1, PositionProperty
<1> HIDE DEF p
<1>3. /\ front \in Seq(S) /\ Len(front) = p - 1
      /\ \A i \in 1 .. p - 1 : front[i] = map[i]
    <2>1. 1 \in Int /\ p - 1 \in Int /\ \A i \in 1 .. p - 1 : map[i] \in S
        BY <1>1, <1>2
    <2>2. /\ front \in Seq(S)
          /\ Len(front) = IF 1 <= p - 1 THEN (p - 1) - 1 + 1 ELSE 0
          /\ \A i \in 1 .. (p - 1) - 1 + 1 : front[i] = map[1 + i - 1]
        BY <2>1, SubSeqProperties
    <2> QED BY <2>2, <1>1, <1>2
<1>4. /\ back \in Seq(S) /\ Len(back) = Len(map) - p
      /\ \A i \in 1 .. Len(map) - p : back[i] = map[p + i]
    <2>1. p + 1 \in Int /\ Len(map) \in Int
          /\ \A i \in p + 1 .. Len(map) : map[i] \in S
        BY <1>1, <1>2
    <2>2. /\ back \in Seq(S)
          /\ Len(back) = IF p + 1 <= Len(map) THEN Len(map) - (p + 1) + 1 ELSE 0
          /\ \A i \in 1 .. Len(map) - (p + 1) + 1 : back[i] = map[(p + 1) + i - 1]
        BY <2>1, SubSeqProperties
    <2> QED BY <2>2, <1>1, <1>2
<1> HIDE DEF front, back
<1>5. /\ front \o back \in Seq(S)
      /\ Len(front \o back) = Len(front) + Len(back)
      /\ \A j \in 1 .. Len(front) + Len(back) : (front \o back)[j] =
             IF j <= Len(front) THEN front[j] ELSE back[j - Len(front)]
    BY <1>3, <1>4, ConcatProperties
<1>6. Delete(map, id) = front \o back
    BY DEF Delete, front, back, p
<1>7. ASSUME NEW j \in 1 .. Len(map) - 1
      PROVE  (front \o back)[j] = IF j < p THEN map[j] ELSE map[j + 1]
    <2>1. CASE j < p
        BY <2>1, <1>1, <1>2, <1>3, <1>4, <1>5
    <2>2. CASE ~(j < p)
        <3>1. j - Len(front) \in 1 .. Len(map) - p
              /\ p + (j - Len(front)) = j + 1
            BY <2>2, <1>1, <1>2, <1>3
        <3>2. j \in 1 .. Len(front) + Len(back) /\ ~(j <= Len(front))
            BY <2>2, <1>1, <1>2, <1>3, <1>4
        <3>3. (front \o back)[j] = back[j - Len(front)]
            BY <3>2, <1>5
        <3>4. back[j - Len(front)] = map[j + 1]
            BY <3>1, <1>4
        <3> QED BY <2>2, <3>3, <3>4
    <2> QED BY <2>1, <2>2
<1>8. Len(front \o back) = Len(map) - 1
    BY <1>1, <1>2, <1>3, <1>4, <1>5
<1> QED BY <1>5, <1>6, <1>7, <1>8 DEF p

\* Delete adds nothing and takes away no more than its key.
LEMMA DeleteProperties ==
    ASSUME NEW S, NEW map \in Seq(S), NEW id
    PROVE  /\ Delete(map, id) \in Seq(S)
           /\ Len(Delete(map, id)) <= Len(map)
           /\ ComesFrom(Delete(map, id), map)
<1>1. Len(map) \in Nat /\ DOMAIN map = 1 .. Len(map)
    BY LenProperties
<1>2. CASE id \notin Keys(map)
    BY <1>1, <1>2 DEF Delete, ComesFrom
<1>3. CASE id \in Keys(map)
    <2>1. /\ Delete(map, id) \in Seq(S)
          /\ Len(Delete(map, id)) = Len(map) - 1
          /\ \A j \in 1 .. Len(map) - 1 :
                Delete(map, id)[j] =
                    IF j < Position(map, id) THEN map[j] ELSE map[j + 1]
        BY <1>3, DeletePieces
    <2>2. DOMAIN Delete(map, id) = 1 .. Len(map) - 1
        BY <2>1, LenProperties
    <2> QED BY <1>1, <2>1, <2>2 DEF ComesFrom
<1> QED BY <1>2, <1>3

\* In a map without duplicate keys Delete leaves no entry of its key, keeps
\* every other one, and makes no duplicate.
LEMMA DeleteKeys ==
    ASSUME NEW S, NEW map \in Seq(S), NEW id, Distinct(map)
    PROVE  /\ Keys(Delete(map, id)) = Keys(map) \ {id}
           /\ Distinct(Delete(map, id))
<1>1. Len(map) \in Nat /\ DOMAIN map = 1 .. Len(map)
    BY LenProperties
<1>2. CASE id \notin Keys(map)
    BY <1>2 DEF Delete
<1>3. CASE id \in Keys(map)
    <2> DEFINE p == Position(map, id)
               rest == Delete(map, id)
    <2>1. p \in 1 .. Len(map) /\ map[p].id = id
        BY <1>1, <1>3, PositionProperty
    <2>2. /\ rest \in Seq(S)
          /\ Len(rest) = Len(map) - 1
          /\ \A j \in 1 .. Len(map) - 1 :
                rest[j] = IF j < p THEN map[j] ELSE map[j + 1]
        BY <1>3, DeletePieces
    <2>3. DOMAIN rest = 1 .. Len(map) - 1
        BY <2>2, LenProperties
    <2> HIDE DEF p, rest
    <2>4. ASSUME NEW j \in DOMAIN rest
          PROVE  \E i \in DOMAIN map : i # p /\ rest[j] = map[i]
        BY <1>1, <2>1, <2>2, <2>3
    <2>5. ASSUME NEW i \in DOMAIN map, i # p
          PROVE  \E j \in DOMAIN rest : rest[j] = map[i]
        <3>1. CASE i < p
            <4>1. i \in 1 .. Len(map) - 1 /\ rest[i] = map[i]
                BY <3>1, <1>1, <2>1, <2>2
            <4> QED BY <4>1, <2>3
        <3>2. CASE i > p
            <4>1. i - 1 \in 1 .. Len(map) - 1 /\ rest[i - 1] = map[i]
                BY <3>2, <1>1, <2>1, <2>2
            <4> QED BY <4>1, <2>3
        <3> QED BY <3>1, <3>2, <2>5, <1>1, <2>1
    <2>6. \A i \in DOMAIN map : map[i].id = id <=> i = p
        BY <1>1, <2>1 DEF Distinct
    <2>7. Keys(rest) = Keys(map) \ {id}
        BY <2>4, <2>5, <2>6 DEF Keys
    <2>8. ASSUME NEW i \in DOMAIN rest, NEW j \in DOMAIN rest,
                 rest[i].id = rest[j].id
          PROVE  i = j
        <3> DEFINE back(k) == IF k < p THEN k ELSE k + 1
        <3>1. /\ back(i) \in DOMAIN map /\ rest[i] = map[back(i)]
              /\ back(j) \in DOMAIN map /\ rest[j] = map[back(j)]
            BY <1>1, <2>1, <2>2, <2>3
        <3>2. back(i) = back(j)
            <4> HIDE DEF back
            <4> QED BY <2>8, <3>1 DEF Distinct
        <3> QED BY <3>2, <2>1, <2>3, <1>1
    <2>9. Distinct(rest)
        BY <2>8 DEF Distinct
    <2> QED BY <2>7, <2>9 DEF rest
<1> QED BY <1>2, <1>3

\* Delete keeps the order of the stamps.
LEMMA DeleteOrdered ==
    ASSUME NEW S, NEW map \in Seq(S), NEW id, Ordered(map)
    PROVE  Ordered(Delete(map, id))
<1>1. Len(map) \in Nat /\ DOMAIN map = 1 .. Len(map)
    BY LenProperties
<1>2. CASE id \notin Keys(map)
    BY <1>2 DEF Delete
<1>3. CASE id \in Keys(map)
    <2> DEFINE p == Position(map, id)
               rest == Delete(map, id)
               back(k) == IF k < p THEN k ELSE k + 1
    <2>1. p \in 1 .. Len(map)
        BY <1>1, <1>3, PositionProperty
    <2>2. /\ rest \in Seq(S)
          /\ Len(rest) = Len(map) - 1
          /\ \A j \in 1 .. Len(map) - 1 :
                rest[j] = IF j < p THEN map[j] ELSE map[j + 1]
        BY <1>3, DeletePieces
    <2>3. DOMAIN rest = 1 .. Len(map) - 1
        BY <2>2, LenProperties
    <2> HIDE DEF p, rest
    <2>4. ASSUME NEW i \in DOMAIN rest, NEW j \in DOMAIN rest, i < j
          PROVE  rest[i].at < rest[j].at
        <3>1. /\ back(i) \in DOMAIN map /\ rest[i] = map[back(i)]
              /\ back(j) \in DOMAIN map /\ rest[j] = map[back(j)]
            BY <1>1, <2>1, <2>2, <2>3
        <3>2. back(i) < back(j)
            BY <2>1, <2>3, <2>4, <1>1
        <3> HIDE DEF back
        <3> QED BY <3>1, <3>2 DEF Ordered
    <2> QED BY <2>4 DEF Ordered, rest
<1> QED BY <1>2, <1>3

\* Remember keeps a map within its bound, and every entry of the result is the
\* new one or was there before.
LEMMA RememberProperties ==
    ASSUME NEW S, NEW map \in Seq(S), NEW entry \in S,
           NEW bound \in Nat, Len(map) <= bound
    PROVE  /\ Remember(map, entry, bound) \in Seq(S)
           /\ Len(Remember(map, entry, bound)) <= bound
           /\ \A j \in DOMAIN Remember(map, entry, bound) :
                 \/ Remember(map, entry, bound)[j] = entry
                 \/ \E i \in DOMAIN map :
                       Remember(map, entry, bound)[j] = map[i]
<1> DEFINE rest == Delete(map, entry.id)
           moved == Append(rest, entry)
<1>1. /\ rest \in Seq(S) /\ Len(rest) <= Len(map) /\ ComesFrom(rest, map)
    BY DeleteProperties
<1>2. /\ Len(map) \in Nat /\ Len(rest) \in Nat
      /\ DOMAIN rest = 1 .. Len(rest)
    BY <1>1, LenProperties
<1> HIDE DEF rest
<1>3. /\ moved \in Seq(S) /\ moved # <<>>
      /\ Len(moved) = Len(rest) + 1
      /\ \A i \in 1 .. Len(rest) : moved[i] = rest[i]
      /\ moved[Len(rest) + 1] = entry
    BY <1>1, AppendProperties
<1>4. DOMAIN moved = 1 .. Len(rest) + 1
    BY <1>3, LenProperties
<1>5. \A j \in DOMAIN moved :
          moved[j] = entry \/ \E i \in DOMAIN map : moved[j] = map[i]
    BY <1>1, <1>2, <1>3, <1>4 DEF ComesFrom
<1> HIDE DEF moved
<1>6. CASE Len(moved) > bound
    <2>1. /\ Tail(moved) \in Seq(S) /\ Len(Tail(moved)) = Len(moved) - 1
          /\ \A i \in 1 .. Len(Tail(moved)) : Tail(moved)[i] = moved[i + 1]
        BY <1>3, HeadTailProperties
    <2>2. DOMAIN Tail(moved) = 1 .. Len(rest)
        BY <1>2, <1>3, <2>1, LenProperties
    <2>3. \A j \in DOMAIN Tail(moved) :
              j + 1 \in DOMAIN moved /\ Tail(moved)[j] = moved[j + 1]
        BY <1>2, <1>3, <1>4, <2>1, <2>2
    <2>4. Remember(map, entry, bound) = Tail(moved)
        BY <1>6 DEF Remember, moved, rest
    <2>5. Len(Tail(moved)) <= bound
        BY <1>1, <1>2, <1>3, <2>1
    <2> QED BY <1>5, <2>1, <2>3, <2>4, <2>5
<1>7. CASE ~(Len(moved) > bound)
    <2>1. Remember(map, entry, bound) = moved
        BY <1>7 DEF Remember, moved, rest
    <2> QED BY <1>2, <1>3, <1>5, <1>7, <2>1
<1> QED BY <1>6, <1>7

\* A key the map does not hold is remembered last; an entry that is lost to
\* it was older than everything in a table that is now full.
LEMMA RememberNew ==
    ASSUME NEW S, NEW map \in Seq(S), NEW entry \in S,
           NEW bound \in Nat \ {0}, Len(map) <= bound,
           \A e \in S : e.at \in Nat,
           Ordered(map), entry.id \notin Keys(map),
           \A i \in DOMAIN map : map[i].at < entry.at
    PROVE  LET new == Remember(map, entry, bound)
           IN  /\ Ordered(new)
               /\ entry.id \in Keys(new)
               /\ \A i \in DOMAIN map : map[i].id \notin Keys(new) =>
                     /\ Len(new) = bound
                     /\ \A j \in DOMAIN new : map[i].at < new[j].at
<1> DEFINE moved == Append(map, entry)
           new == Remember(map, entry, bound)
<1>1. /\ Len(map) \in Nat /\ DOMAIN map = 1 .. Len(map)
      /\ \A i \in 1 .. Len(map) : map[i] \in S
    BY LenProperties, ElementOfSeq
<1>2. /\ moved \in Seq(S) /\ moved # <<>>
      /\ Len(moved) = Len(map) + 1
      /\ \A i \in 1 .. Len(map) : moved[i] = map[i]
      /\ moved[Len(map) + 1] = entry
    BY AppendProperties
<1>3. DOMAIN moved = 1 .. Len(map) + 1 /\ \A i \in 1 .. Len(map) + 1 : moved[i] \in S
    BY <1>1, <1>2, LenProperties
<1>4. new = IF Len(moved) > bound THEN Tail(moved) ELSE moved
    BY DEF Remember, Delete
<1> HIDE DEF moved, new
<1>5. ASSUME NEW i \in DOMAIN moved, NEW j \in DOMAIN moved, i < j
      PROVE  moved[i].at < moved[j].at
    <2>1. i \in 1 .. Len(map) /\ moved[i] = map[i]
        BY <1>1, <1>2, <1>3, <1>5
    <2>2. CASE j = Len(map) + 1
        BY <2>1, <2>2, <1>1, <1>2
    <2>3. CASE j # Len(map) + 1
        <3>1. j \in 1 .. Len(map) /\ moved[j] = map[j]
            BY <2>3, <1>1, <1>2, <1>3
        <3> QED BY <2>1, <3>1, <1>1, <1>5 DEF Ordered
    <2> QED BY <2>2, <2>3
<1>6. CASE Len(map) < bound
    <2>1. new = moved
        BY <1>1, <1>2, <1>4, <1>6
    <2>2. \A i \in DOMAIN map : i \in DOMAIN moved /\ moved[i] = map[i]
        BY <1>1, <1>2, <1>3
    <2>3. Len(map) + 1 \in DOMAIN moved
        BY <1>1, <1>3
    <2>4. /\ entry.id \in Keys(new)
          /\ \A i \in DOMAIN map : map[i].id \in Keys(new)
        BY <1>2, <2>1, <2>2, <2>3 DEF Keys
    <2>5. Ordered(new)
        BY <1>5, <2>1 DEF Ordered
    <2> QED BY <2>4, <2>5 DEF new
<1>7. CASE Len(map) = bound
    <2>1. new = Tail(moved)
        BY <1>1, <1>2, <1>4, <1>7
    <2>2. /\ new \in Seq(S) /\ Len(new) = bound
          /\ \A j \in 1 .. bound : new[j] = moved[j + 1]
        <3>1. /\ Tail(moved) \in Seq(S) /\ Len(Tail(moved)) = Len(moved) - 1
              /\ \A j \in 1 .. Len(Tail(moved)) : Tail(moved)[j] = moved[j + 1]
            BY <1>2, HeadTailProperties
        <3> QED BY <1>1, <1>2, <1>7, <2>1, <3>1
    <2>3. DOMAIN new = 1 .. bound
        BY <2>2, LenProperties
    <2>4. \A j \in 1 .. bound : j + 1 \in DOMAIN moved
        BY <1>3, <1>7
    <2>5. Ordered(new)
        <3>1. ASSUME NEW i \in 1 .. bound, NEW j \in 1 .. bound, i < j
              PROVE  new[i].at < new[j].at
            <4>1. i + 1 < j + 1
                BY <3>1
            <4> QED BY <4>1, <1>5, <2>2, <2>4
        <3> QED BY <3>1, <2>3 DEF Ordered
    <2>6. entry.id \in Keys(new)
        <3>1. bound \in DOMAIN new /\ new[bound] = entry
            BY <1>2, <1>7, <2>2, <2>3
        <3> QED BY <3>1 DEF Keys
    <2>7. ASSUME NEW i \in DOMAIN map, map[i].id \notin Keys(new)
          PROVE  \A j \in DOMAIN new : map[i].at < new[j].at
        <3>1. i = 1
            <4>1. SUFFICES ASSUME i # 1 PROVE FALSE
                OBVIOUS
            <4>2. i - 1 \in DOMAIN new /\ new[i - 1] = map[i]
                BY <1>1, <1>2, <1>7, <2>2, <2>3, <4>1
            <4> QED BY <2>7, <4>2 DEF Keys
        <3>2. 1 \in DOMAIN moved /\ moved[1] = map[i]
            BY <1>1, <1>2, <1>3, <3>1
        <3>3. ASSUME NEW j \in 1 .. bound
              PROVE  moved[1].at < new[j].at
            <4>1. 1 < j + 1
                OBVIOUS
            <4> QED BY <4>1, <3>2, <1>5, <2>2, <2>4
        <3> QED BY <3>2, <3>3, <2>3
    <2> QED BY <2>2, <2>5, <2>6, <2>7 DEF new
<1>8. Len(map) < bound \/ Len(map) = bound
    <2>1. Len(map) \in Int /\ bound \in Int /\ Len(map) <= bound
        BY <1>1
    <2> QED BY ONLY <2>1
<1> QED BY <1>6, <1>7, <1>8

\* moved is map with entry, renewed, at its end.
MovesToEnd(map, entry, moved) ==
    /\ moved # <<>> /\ Len(moved) \in Nat
    /\ Distinct(moved)
    /\ moved[Len(moved)] = entry
    /\ \A i \in DOMAIN map : map[i].id # entry.id =>
          \E j \in DOMAIN moved : moved[j] = map[i]
    /\ \A j \in DOMAIN moved : j # Len(moved) =>
          \E i \in DOMAIN map : moved[j] = map[i] /\ map[i].id # entry.id

\* new holds entry and those of map, but for the one entry renews and the one
\* that was evicted.
Renews(map, entry, evicted, new) ==
    /\ Distinct(new)
    /\ \E j \in DOMAIN new : new[j] = entry
    /\ \A j \in DOMAIN new : new[j] # entry =>
          \E i \in DOMAIN map : new[j] = map[i] /\ map[i].id # entry.id
    /\ \A i \in DOMAIN map :
          \/ map[i].id = entry.id
          \/ \E j \in DOMAIN new : new[j] = map[i]
          \/ map[i] \in evicted
    /\ \A e \in evicted :
          /\ \A j \in DOMAIN new : new[j].id # e.id
          /\ \E i \in DOMAIN map : e = map[i]

\* A map without duplicates, its new entry moved to the end: still none, and
\* every entry of another key is kept.
LEMMA MovedProperties ==
    ASSUME NEW S, NEW map \in Seq(S), NEW entry \in S, Distinct(map),
           NEW moved, moved = Append(Delete(map, entry.id), entry)
    PROVE  moved \in Seq(S) /\ MovesToEnd(map, entry, moved)
<1> DEFINE rest == Delete(map, entry.id)
<1>1. /\ rest \in Seq(S) /\ Len(rest) <= Len(map) /\ ComesFrom(rest, map)
      /\ Keys(rest) = Keys(map) \ {entry.id} /\ Distinct(rest)
    BY DeleteProperties, DeleteKeys
<1>2. /\ Len(map) \in Nat /\ Len(rest) \in Nat
      /\ DOMAIN rest = 1 .. Len(rest)
    BY <1>1, LenProperties
<1> HIDE DEF rest
<1>3. /\ moved \in Seq(S) /\ moved # <<>>
      /\ Len(moved) = Len(rest) + 1
      /\ \A i \in 1 .. Len(rest) : moved[i] = rest[i]
      /\ moved[Len(rest) + 1] = entry
    BY <1>1, AppendProperties DEF rest
<1>4. DOMAIN moved = 1 .. Len(rest) + 1
    BY <1>3, LenProperties
<1>5. \A j \in DOMAIN rest :
          /\ rest[j].id # entry.id
          /\ \E i \in DOMAIN map : rest[j] = map[i]
    BY <1>1 DEF Keys, ComesFrom
<1>6. Distinct(moved)
    <2> SUFFICES ASSUME NEW i \in DOMAIN moved, NEW j \in DOMAIN moved,
                        moved[i].id = moved[j].id
                 PROVE  i = j
        BY DEF Distinct
    <2>1. CASE i \in DOMAIN rest /\ j \in DOMAIN rest
        BY <2>1, <1>1, <1>2, <1>3 DEF Distinct
    <2>2. CASE i = Len(rest) + 1 /\ j = Len(rest) + 1
        BY <2>2
    <2>3. CASE i = Len(rest) + 1 /\ j \in DOMAIN rest
        BY <2>3, <1>2, <1>3, <1>5
    <2>4. CASE i \in DOMAIN rest /\ j = Len(rest) + 1
        BY <2>4, <1>2, <1>3, <1>5
    <2> QED BY <1>2, <1>4, <2>1, <2>2, <2>3, <2>4
<1>7. ASSUME NEW i \in DOMAIN map, map[i].id # entry.id
      PROVE  \E j \in DOMAIN moved : moved[j] = map[i]
    <2>1. PICK j \in DOMAIN rest : rest[j].id = map[i].id
        BY <1>1, <1>7 DEF Keys
    <2>2. PICK k \in DOMAIN map : rest[j] = map[k]
        BY <1>5
    <2>3. k = i
        BY <2>1, <2>2 DEF Distinct
    <2> QED BY <2>2, <2>3, <1>2, <1>3, <1>4
<1>8. ASSUME NEW j \in DOMAIN moved, j # Len(moved)
      PROVE  \E i \in DOMAIN map : moved[j] = map[i] /\ map[i].id # entry.id
    <2>1. j \in DOMAIN rest /\ moved[j] = rest[j]
        BY <1>8, <1>2, <1>3, <1>4
    <2> QED BY <2>1, <1>5
<1>9. Len(moved) \in Nat /\ moved[Len(moved)] = entry
    BY <1>2, <1>3
<1> QED BY <1>3, <1>6, <1>7, <1>8, <1>9 DEF MovesToEnd

\* What remembering does to a map without duplicates: the new entry is in it,
\* and an entry is gone exactly when its key was renewed or it was evicted.
LEMMA RememberDistinct ==
    ASSUME NEW S, NEW map \in Seq(S), NEW entry \in S, Distinct(map),
           NEW bound \in Nat \ {0},
           NEW moved, moved = Append(Delete(map, entry.id), entry),
           NEW new, new = Remember(map, entry, bound)
    PROVE  Renews(map, entry, IF Len(moved) > bound THEN {Head(moved)} ELSE {}, new)
<1>1. moved \in Seq(S) /\ MovesToEnd(map, entry, moved)
    BY MovedProperties
<1>2. /\ moved # <<>> /\ Len(moved) \in Nat
      /\ Distinct(moved)
      /\ moved[Len(moved)] = entry
    BY <1>1 DEF MovesToEnd
<1>3. \A i \in DOMAIN map : map[i].id # entry.id =>
          \E j \in DOMAIN moved : moved[j] = map[i]
    BY <1>1 DEF MovesToEnd
<1>4. \A j \in DOMAIN moved : j # Len(moved) =>
          \E i \in DOMAIN map : moved[j] = map[i] /\ map[i].id # entry.id
    BY <1>1 DEF MovesToEnd
<1>5. new = IF Len(moved) > bound THEN Tail(moved) ELSE moved
    BY DEF Remember
<1>6. DOMAIN moved = 1 .. Len(moved) /\ Len(moved) # 0
    BY <1>1, <1>2, LenProperties, EmptySeq
<1>7. CASE Len(moved) > bound
    <2>1. /\ Tail(moved) \in Seq(S) /\ Len(Tail(moved)) = Len(moved) - 1
          /\ \A i \in 1 .. Len(Tail(moved)) : Tail(moved)[i] = moved[i + 1]
          /\ Head(moved) = moved[1]
        BY <1>1, <1>2, HeadTailProperties
    <2>2. /\ DOMAIN new = 1 .. Len(moved) - 1
          /\ \A i \in 1 .. Len(moved) - 1 : new[i] = moved[i + 1]
        BY <1>5, <1>7, <2>1, LenProperties
    <2>3. \A j \in DOMAIN moved : j = 1 \/ (j - 1 \in DOMAIN new /\ new[j - 1] = moved[j])
        BY <1>2, <1>6, <2>2
    <2>4. \A j \in DOMAIN new : j + 1 \in DOMAIN moved /\ new[j] = moved[j + 1]
        BY <1>2, <1>6, <2>2
    <2>5. 1 \in DOMAIN moved /\ Len(moved) # 1 /\ Len(moved) \in DOMAIN moved
        BY <1>2, <1>6, <1>7
    <2>6. Distinct(new)
        <3> SUFFICES ASSUME NEW i \in DOMAIN new, NEW j \in DOMAIN new,
                            new[i].id = new[j].id
                     PROVE  i = j
            BY DEF Distinct
        <3>1. i + 1 = j + 1
            BY <1>2, <2>4 DEF Distinct
        <3> QED BY <3>1, <2>2, <1>2
    <2>7. \E j \in DOMAIN new : new[j] = entry
        BY <1>2, <2>3, <2>5
    <2>8. \A j \in DOMAIN new : new[j].id # Head(moved).id
        <3> SUFFICES ASSUME NEW j \in DOMAIN new, new[j].id = Head(moved).id
                     PROVE  FALSE
            OBVIOUS
        <3>1. moved[j + 1].id = moved[1].id
            BY <2>1, <2>4
        <3>2. j + 1 = 1
            BY <1>2, <2>4, <2>5, <3>1 DEF Distinct
        <3> QED BY <3>2, <2>2, <1>2
    <2>9. \E i \in DOMAIN map : Head(moved) = map[i]
        BY <1>4, <2>1, <2>5
    <2>10. \A i \in DOMAIN map :
              \/ map[i].id = entry.id
              \/ \E j \in DOMAIN new : new[j] = map[i]
              \/ map[i] = Head(moved)
        <3> SUFFICES ASSUME NEW i \in DOMAIN map, map[i].id # entry.id
                     PROVE  \/ \E j \in DOMAIN new : new[j] = map[i]
                            \/ map[i] = Head(moved)
            OBVIOUS
        <3>1. PICK j \in DOMAIN moved : moved[j] = map[i]
            BY <1>3
        <3> QED BY <3>1, <2>1, <2>3
    <2>11. \A j \in DOMAIN new : new[j] # entry =>
              \E i \in DOMAIN map : new[j] = map[i] /\ map[i].id # entry.id
        <3> SUFFICES ASSUME NEW j \in DOMAIN new, new[j] # entry
                     PROVE  \E i \in DOMAIN map :
                                new[j] = map[i] /\ map[i].id # entry.id
            OBVIOUS
        <3>1. j + 1 \in DOMAIN moved /\ j + 1 # Len(moved) /\ new[j] = moved[j + 1]
            BY <1>2, <2>4
        <3> QED BY <3>1, <1>4
    <2> QED BY <1>7, <2>6, <2>7, <2>8, <2>9, <2>10, <2>11 DEF Renews
<1>8. CASE ~(Len(moved) > bound)
    <2>1. new = moved /\ Len(moved) \in DOMAIN moved
        BY <1>2, <1>5, <1>6, <1>8
    <2>2. \A j \in DOMAIN new : new[j] # entry =>
              \E i \in DOMAIN map : new[j] = map[i] /\ map[i].id # entry.id
        BY <1>2, <1>4, <2>1
    <2> QED BY <1>2, <1>8, <1>3, <2>1, <2>2 DEF Renews
<1> QED BY <1>7, <1>8

\* An entry is lost only from a map that stays full.
LEMMA EvictedFromFull ==
    ASSUME NEW S, NEW map \in Seq(S), NEW entry \in S, Distinct(map),
           NEW bound \in Nat \ {0}, Len(map) <= bound,
           NEW new, new = Remember(map, entry, bound),
           NEW i \in DOMAIN map, map[i].id \notin Keys(new)
    PROVE  Len(new) = bound
<1> DEFINE rest == Delete(map, entry.id)
           moved == Append(rest, entry)
<1>1. /\ rest \in Seq(S) /\ Len(rest) <= Len(map)
      /\ Len(rest) \in Nat /\ Len(map) \in Nat
    BY DeleteProperties, LenProperties
<1>2. moved \in Seq(S) /\ Len(moved) = Len(rest) + 1 /\ moved # <<>>
    BY <1>1, AppendProperties
<1>3. Renews(map, entry, IF Len(moved) > bound THEN {Head(moved)} ELSE {}, new)
    BY RememberDistinct
<1>4. new = IF Len(moved) > bound THEN Tail(moved) ELSE moved
    BY DEF Remember
<1> HIDE DEF moved, rest
<1>5. CASE Len(moved) > bound
    <2>1. Len(new) = Len(moved) - 1
        BY <1>2, <1>4, <1>5, HeadTailProperties
    <2> QED BY <1>1, <1>2, <1>5, <2>1
<1>6. CASE ~(Len(moved) > bound)
    <2>1. map[i].id = entry.id \/ \E j \in DOMAIN new : new[j] = map[i]
        BY <1>3, <1>6 DEF Renews
    <2>2. \E j \in DOMAIN new : new[j] = entry
        BY <1>3 DEF Renews
    <2> QED BY <2>1, <2>2 DEF Keys
<1> QED BY <1>5, <1>6

\* A map has as many keys as entries.
LEMMA KeysCounted ==
    ASSUME NEW S, NEW map \in Seq(S), Distinct(map)
    PROVE  IsFiniteSet(Keys(map)) /\ Cardinality(Keys(map)) = Len(map)
<1> DEFINE id == [i \in 1 .. Len(map) |-> map[i].id]
<1>1. Len(map) \in Nat /\ DOMAIN map = 1 .. Len(map)
    BY LenProperties
<1>2. id \in Bijection(1 .. Len(map), Keys(map))
    <2>1. id \in [1 .. Len(map) -> Keys(map)]
        BY <1>1 DEF Keys
    <2>2. \A i, j \in 1 .. Len(map) : id[i] = id[j] => i = j
        BY <1>1 DEF Distinct
    <2>3. \A k \in Keys(map) : \E i \in 1 .. Len(map) : id[i] = k
        BY <1>1 DEF Keys
    <2> HIDE DEF id
    <2> QED BY <2>1, <2>2, <2>3 DEF Bijection, Injection, Surjection, IsInjective
<1>3. IsFiniteSet(1 .. Len(map)) /\ Cardinality(1 .. Len(map)) = Len(map)
    BY <1>1, FS_Interval
<1> HIDE DEF id
<1>4. ExistsBijection(1 .. Len(map), Keys(map))
    BY <1>2 DEF ExistsBijection
<1> QED BY <1>3, <1>4, FS_Bijection

\* What new says of a key, map said too.
StillSays(new, map, id) ==
    id \in Keys(new) => id \in Keys(map) /\ Lookup(new, id) = Lookup(map, id)

\* In a map without duplicates an entry is what its key looks up.
LEMMA LookupEntry ==
    ASSUME NEW map, Distinct(map), NEW i \in DOMAIN map
    PROVE  map[i].id \in Keys(map) /\ Lookup(map, map[i].id) = map[i]
<1>1. map[i].id \in Keys(map)
    BY DEF Keys
<1>2. /\ Position(map, map[i].id) \in DOMAIN map
      /\ map[Position(map, map[i].id)].id = map[i].id
    BY <1>1, PositionProperty
<1>3. Position(map, map[i].id) = i
    BY <1>2 DEF Distinct
<1> QED BY <1>1, <1>3 DEF Lookup

\* After a Remember the key looks up its new entry, and every other key that
\* is left looks up what it did.
LEMMA RememberLookup ==
    ASSUME NEW S, NEW map \in Seq(S), NEW entry \in S, Distinct(map),
           NEW bound \in Nat \ {0},
           NEW new, new = Remember(map, entry, bound)
    PROVE  /\ Distinct(new)
           /\ entry.id \in Keys(new) /\ Lookup(new, entry.id) = entry
           /\ \A id : id # entry.id => StillSays(new, map, id)
<1> DEFINE moved == Append(Delete(map, entry.id), entry)
<1>1. Renews(map, entry, IF Len(moved) > bound THEN {Head(moved)} ELSE {}, new)
    BY RememberDistinct
<1> HIDE DEF moved
<1>2. Distinct(new)
    BY <1>1 DEF Renews
<1>3. entry.id \in Keys(new) /\ Lookup(new, entry.id) = entry
    <2>1. PICK j \in DOMAIN new : new[j] = entry
        BY <1>1 DEF Renews
    <2> QED BY <1>2, <2>1, LookupEntry
<1>4. ASSUME NEW id, id # entry.id, id \in Keys(new)
      PROVE  id \in Keys(map) /\ Lookup(new, id) = Lookup(map, id)
    <2>1. PICK j \in DOMAIN new : new[j].id = id
        BY <1>4 DEF Keys
    <2>2. PICK i \in DOMAIN map : new[j] = map[i]
        BY <1>1, <1>4, <2>1 DEF Renews
    <2>3. Lookup(new, new[j].id) = new[j]
        BY <1>2, LookupEntry
    <2>4. map[i].id \in Keys(map) /\ Lookup(map, map[i].id) = map[i]
        BY LookupEntry
    <2> QED BY <2>1, <2>2, <2>3, <2>4
<1> QED BY <1>2, <1>3, <1>4 DEF StillSays

\* After a Delete every key that is left looks up what it did.
LEMMA DeleteLookup ==
    ASSUME NEW S, NEW map \in Seq(S), Distinct(map), NEW gone,
           NEW new, new = Delete(map, gone)
    PROVE  /\ Distinct(new) /\ gone \notin Keys(new)
           /\ \A id : StillSays(new, map, id)
<1>1. Distinct(new) /\ Keys(new) = Keys(map) \ {gone}
    BY DeleteKeys
<1>2. ComesFrom(new, map)
    BY DeleteProperties
<1>3. ASSUME NEW id \in Keys(new)
      PROVE  id \in Keys(map) /\ Lookup(new, id) = Lookup(map, id)
    <2>1. PICK j \in DOMAIN new : new[j].id = id
        BY DEF Keys
    <2>2. PICK i \in DOMAIN map : new[j] = map[i]
        BY <1>2 DEF ComesFrom
    <2>3. Lookup(new, new[j].id) = new[j]
        BY <1>1, LookupEntry
    <2>4. map[i].id \in Keys(map) /\ Lookup(map, map[i].id) = map[i]
        BY LookupEntry
    <2> QED BY <2>1, <2>2, <2>3, <2>4
<1> QED BY <1>1, <1>3 DEF StillSays
====

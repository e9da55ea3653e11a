---- MODULE ServiceWiringProofs ----
(***************************************************************************)
(* Proofs about ServiceWiring, for any number of cohorts and any bound on  *)
(* the side tables: the kill switch holds, the three legs of one cohort's  *)
(* beacon transaction agree, and the funding watch and the handle of a     *)
(* cohort are released when it ends, for good.                             *)
(***************************************************************************)
EXTENDS ServiceWiring, BoundedMapProofs, FiniteSetTheorems

StampedEntry == [id : Cohort, at : Nat]
Entry == [id : Cohort]

\* The stamps in the table are the true ones, in the order they were taken,
\* and belong to advertised cohorts.
StampInv ==
    /\ \A i \in DOMAIN advertisedAt :
          /\ advertisedAt[i].at = stamp[advertisedAt[i].id]
          /\ stage[advertisedAt[i].id] # "fresh"
    /\ Ordered(advertisedAt)

\* No stamp lies in the future, a cohort not yet advertised has no trace, and
\* whatever touched a cohort's money was decided on a stamp before the switch.
SwitchInv ==
    \A c \in Cohort :
        /\ stamp[c] <= clock
        /\ stage[c] = "fresh" =>
              /\ stamp[c] = 0
              /\ watch[c] = "none" /\ built[c] = "nothing" /\ broadcast[c] = "none"
        /\ watch[c] # "none" \/ built[c] = "live" \/ broadcast[c] = "published" =>
              ~AdvertisedAfterSwitch(c)

\* A cohort under way has its stamp, unless enough later adverts pushed it out.
EvictInv ==
    \A c \in Cohort :
        stage[c] \in Underway => c \in Keys(advertisedAt) \/ StampEvictable(c)

\* The builder that was chosen, the stage it leads to, and the verdict that
\* chose it.
BuilderInv ==
    \A c \in Cohort :
        /\ stage[c] \in {"open", "keyed"} => built[c] = "nothing"
        /\ stage[c] = "building" => built[c] = "live"
        /\ stage[c] = "signing" => built[c] # "nothing"
        /\ broadcast[c] # "none" => stage[c] = "completed"
        /\ built[c] = "fixture" => ~cohortKeepsLiveWiring(c)

Inv == TypeOK /\ StampInv /\ SwitchInv /\ EvictInv /\ BuilderInv /\ LegsAgree

-----------------------------------------------------------------------------
(* The table of stamps *)

\* Under StampInv no cohort has two stamps in the table.
LEMMA StampsDistinct ==
    ASSUME TypeOK, StampInv
    PROVE  Distinct(advertisedAt)
<1>1. Len(advertisedAt) \in Nat /\ DOMAIN advertisedAt = 1 .. Len(advertisedAt)
      /\ \A i \in 1 .. Len(advertisedAt) : advertisedAt[i] \in StampedEntry
    BY LenProperties, ElementOfSeq DEF TypeOK, StampedEntry
<1>2. SUFFICES ASSUME NEW i \in DOMAIN advertisedAt, NEW j \in DOMAIN advertisedAt,
                      advertisedAt[i].id = advertisedAt[j].id
               PROVE  i = j
    BY DEF Distinct
<1>3. advertisedAt[i].at = advertisedAt[j].at /\ advertisedAt[i].at \in Nat
    BY <1>1, <1>2 DEF StampInv, StampedEntry
<1> QED BY <1>1, <1>3 DEF StampInv, Ordered

\* A stamp is found where it was put.
LEMMA LookupStamp ==
    ASSUME NEW map, NEW times, NEW c \in Keys(map),
           \A i \in DOMAIN map : map[i].at = times[map[i].id]
    PROVE  Lookup(map, c).at = times[c]
BY PositionProperty DEF Lookup

\* What the switch answers, in terms of the true stamps.
LEMMA KeepsLive ==
    ASSUME StampInv, NEW c \in Cohort
    PROVE  cohortKeepsLiveWiring(c) <=>
               (disabledAt # None =>
                   c \in Keys(advertisedAt) /\ stamp[c] < disabledAt)
<1>1. c \in Keys(advertisedAt) => Lookup(advertisedAt, c).at = stamp[c]
    BY LookupStamp DEF StampInv
<1> QED BY <1>1 DEF cohortKeepsLiveWiring

\* A cohort the switch once refused is refused again: no later step gives it
\* a stamp.
LEMMA StaysOff ==
    ASSUME StampInv, StampInv', NEW c \in Cohort, ~cohortKeepsLiveWiring(c),
           disabledAt' = disabledAt, stamp'[c] = stamp[c],
           c \in Keys(advertisedAt') => c \in Keys(advertisedAt)
    PROVE  ~cohortKeepsLiveWiring(c)'
<1>1. disabledAt # None /\ ~(c \in Keys(advertisedAt) /\ stamp[c] < disabledAt)
    BY KeepsLive
<1>2. c \in Keys(advertisedAt') => Lookup(advertisedAt', c).at = stamp'[c]
    BY LookupStamp DEF StampInv
<1> QED BY <1>1, <1>2 DEF cohortKeepsLiveWiring

\* Releasing a cohort takes its entries out of every table and starts nothing.
LEMMA Release ==
    ASSUME TypeOK, StampInv, NEW c \in Cohort, ReleaseCohortTables(c)
    PROVE  /\ advertisedAt' \in Seq(StampedEntry)
           /\ Len(advertisedAt') <= MaxEntries
           /\ fundingWatches' \in Seq(Entry) /\ Len(fundingWatches') <= MaxEntries
           /\ lastFundingView' \in Seq(Entry) /\ Len(lastFundingView') <= MaxEntries
           /\ watch' \in [Cohort -> {"none", "aborted", "done"} \cup Polling]
           /\ \A d \in Cohort : watch'[d] # "none" => watch[d] # "none"
           /\ Keys(advertisedAt') = Keys(advertisedAt) \ {c}
           /\ ComesFrom(advertisedAt', advertisedAt)
           /\ Ordered(advertisedAt')
<1>1. /\ advertisedAt \in Seq(StampedEntry) /\ Len(advertisedAt) <= MaxEntries
      /\ fundingWatches \in Seq(Entry) /\ Len(fundingWatches) <= MaxEntries
      /\ lastFundingView \in Seq(Entry) /\ Len(lastFundingView) <= MaxEntries
      /\ MaxEntries \in Nat
    BY EntriesAssumption DEF TypeOK, StampedEntry, Entry
<1>2. /\ advertisedAt' = Delete(advertisedAt, c)
      /\ fundingWatches' = Delete(fundingWatches, c)
      /\ lastFundingView' = Delete(lastFundingView, c)
    BY DEF ReleaseCohortTables
<1>3. /\ advertisedAt' \in Seq(StampedEntry)
      /\ Len(advertisedAt') <= Len(advertisedAt)
      /\ ComesFrom(advertisedAt', advertisedAt)
    BY <1>1, <1>2, DeleteProperties
<1>4. /\ fundingWatches' \in Seq(Entry)
      /\ Len(fundingWatches') <= Len(fundingWatches)
    BY <1>1, <1>2, DeleteProperties
<1>5. /\ lastFundingView' \in Seq(Entry)
      /\ Len(lastFundingView') <= Len(lastFundingView)
    BY <1>1, <1>2, DeleteProperties
<1>6. /\ Len(advertisedAt) \in Nat /\ Len(advertisedAt') \in Nat
      /\ Len(fundingWatches) \in Nat /\ Len(fundingWatches') \in Nat
      /\ Len(lastFundingView) \in Nat /\ Len(lastFundingView') \in Nat
    BY <1>1, <1>3, <1>4, <1>5, LenProperties
<1>7. Keys(advertisedAt') = Keys(advertisedAt) \ {c}
    BY <1>1, <1>2, StampsDistinct, DeleteKeys
<1>8. Ordered(advertisedAt')
    BY <1>1, <1>2, DeleteOrdered DEF StampInv
<1>9. /\ watch' \in [Cohort -> {"none", "aborted", "done"} \cup Polling]
      /\ \A d \in Cohort : watch'[d] # "none" => watch[d] # "none"
    BY DEF ReleaseCohortTables, TypeOK, Aborted, Polling
<1> QED BY <1>1, <1>3, <1>4, <1>5, <1>6, <1>7, <1>8, <1>9

\* An advertise puts the cohort's stamp last in the table; an older stamp
\* that is no longer there was the oldest of a full table.
LEMMA Advertised ==
    ASSUME TypeOK, StampInv, SwitchInv, NEW c \in Cohort, Advertise(c)
    PROVE  /\ advertisedAt' \in Seq(StampedEntry) /\ Len(advertisedAt') <= MaxEntries
           /\ StampInv'
           /\ c \in Keys(advertisedAt')
           /\ Keys(advertisedAt') \subseteq Keys(advertisedAt) \cup {c}
           /\ \A d \in Keys(advertisedAt) :
                 d \in Keys(advertisedAt') \/ StampEvictable(d)'
<1> DEFINE entry == [id |-> c, at |-> clock + 1]
<1>1. /\ advertisedAt \in Seq(StampedEntry) /\ Len(advertisedAt) <= MaxEntries
      /\ \A i \in DOMAIN advertisedAt : advertisedAt[i] \in StampedEntry
      /\ entry \in StampedEntry /\ MaxEntries \in Nat \ {0} /\ MaxEntries \in Nat
      /\ \A e \in StampedEntry : e.at \in Nat
    <2>1. /\ advertisedAt \in Seq(StampedEntry) /\ Len(advertisedAt) <= MaxEntries
          /\ clock + 1 \in Nat
        BY DEF TypeOK, StampedEntry
    <2>2. \A i \in DOMAIN advertisedAt : advertisedAt[i] \in StampedEntry
        BY <2>1, LenProperties, ElementOfSeq
    <2>3. entry \in StampedEntry /\ \A e \in StampedEntry : e.at \in Nat
        BY <2>1 DEF StampedEntry
    <2> QED BY <2>1, <2>2, <2>3, EntriesAssumption
<1>2. /\ stamp' = [stamp EXCEPT ![c] = clock + 1]
      /\ stage' = [stage EXCEPT ![c] = "open"]
      /\ advertisedAt' = Remember(advertisedAt, entry, MaxEntries)
      /\ stage[c] = "fresh"
    BY DEF Advertise
<1>3. \A i \in DOMAIN advertisedAt :
          /\ advertisedAt[i].id # c /\ advertisedAt[i].id \in Cohort
          /\ advertisedAt[i].at = stamp'[advertisedAt[i].id]
          /\ advertisedAt[i].at < clock + 1
          /\ stage'[advertisedAt[i].id] # "fresh"
    BY <1>1, <1>2 DEF StampInv, SwitchInv, TypeOK, StampedEntry
<1>4. entry.id = c /\ entry.at = clock + 1
    OBVIOUS
<1> HIDE DEF entry
<1>5. /\ advertisedAt' \in Seq(StampedEntry) /\ Len(advertisedAt') <= MaxEntries
      /\ \A j \in DOMAIN advertisedAt' :
            \/ advertisedAt'[j] = entry
            \/ \E i \in DOMAIN advertisedAt : advertisedAt'[j] = advertisedAt[i]
    BY <1>1, <1>2, RememberProperties
<1>6. /\ Ordered(advertisedAt')
      /\ c \in Keys(advertisedAt')
      /\ \A i \in DOMAIN advertisedAt :
            advertisedAt[i].id \notin Keys(advertisedAt') =>
                /\ Len(advertisedAt') = MaxEntries
                /\ \A j \in DOMAIN advertisedAt' :
                      advertisedAt[i].at < advertisedAt'[j].at
    <2>1. c \notin Keys(advertisedAt)
        BY <1>3 DEF Keys
    <2> QED BY <1>1, <1>2, <1>3, <1>4, <2>1, RememberNew DEF StampInv
<1>7. /\ \A j \in DOMAIN advertisedAt' :
            /\ advertisedAt'[j].at = stamp'[advertisedAt'[j].id]
            /\ advertisedAt'[j].at \in Nat
            /\ advertisedAt'[j].id \in Cohort
            /\ stage'[advertisedAt'[j].id] # "fresh"
    <2>1. /\ stamp'[c] = clock + 1 /\ stage'[c] # "fresh" /\ clock + 1 \in Nat
        BY <1>2 DEF TypeOK
    <2>2. \A i \in DOMAIN advertisedAt : advertisedAt[i].at \in Nat
        BY <1>1
    <2> QED BY <2>1, <2>2, <1>3, <1>4, <1>5
<1>8. StampInv'
    BY <1>6, <1>7 DEF StampInv
<1>9. Keys(advertisedAt') \subseteq Keys(advertisedAt) \cup {c}
    BY <1>4, <1>5 DEF Keys
<1>10. ASSUME NEW d \in Keys(advertisedAt), d \notin Keys(advertisedAt')
       PROVE  StampEvictable(d)'
    <2> DEFINE Later == {x \in Cohort : stamp'[x] > stamp'[d]}
               f == [j \in 1 .. MaxEntries |-> advertisedAt'[j].id]
    <2>1. PICK i \in DOMAIN advertisedAt : advertisedAt[i].id = d
        BY DEF Keys
    <2>2. /\ Len(advertisedAt') = MaxEntries
          /\ \A j \in DOMAIN advertisedAt' : stamp'[d] < advertisedAt'[j].at
        BY <1>3, <1>6, <1>10, <2>1
    <2>3. DOMAIN advertisedAt' = 1 .. MaxEntries
        BY <1>5, <2>2, LenProperties
    <2>4. stamp'[d] \in Nat
        BY <1>1, <1>3, <2>1 DEF StampedEntry
    <2>5. \A j \in 1 .. MaxEntries : f[j] \in Later
        BY <1>7, <2>2, <2>3, <2>4
    <2>6. ASSUME NEW i1 \in 1 .. MaxEntries, NEW i2 \in 1 .. MaxEntries,
                 f[i1] = f[i2]
          PROVE  i1 = i2
        <3>1. advertisedAt'[i1].id = advertisedAt'[i2].id
            BY <2>6
        <3>2. advertisedAt'[i1].at = advertisedAt'[i2].at
            BY <3>1, <1>7, <2>3
        <3>3. i1 \in DOMAIN advertisedAt' /\ i2 \in DOMAIN advertisedAt'
              /\ advertisedAt'[i1].at \in Nat
            BY <2>3, <1>7
        <3> QED BY <3>2, <3>3, <1>6 DEF Ordered
    <2>7. f \in Injection(1 .. MaxEntries, Later)
        <3>1. f \in [1 .. MaxEntries -> Later]
            BY <2>5
        <3> HIDE DEF f, Later
        <3> QED BY <3>1, <2>6 DEF Injection, IsInjective
    <2>8. IsFiniteSet(Later)
        <3>1. Later \in SUBSET Cohort
            OBVIOUS
        <3> HIDE DEF Later
        <3> QED BY <3>1, CohortAssumption, FS_Subset
    <2> HIDE DEF f, Later
    <2>9. Cardinality(1 .. MaxEntries) <= Cardinality(Later)
        BY <2>7, <2>8, FS_Injection
    <2>10. Cardinality(1 .. MaxEntries) = MaxEntries
        BY <1>1, FS_Interval
    <2>11. Cardinality(Later) \in Nat
        BY <2>8, FS_CardinalityType
    <2>12. Cardinality(Later) >= MaxEntries
        BY <1>1, <2>9, <2>10, <2>11
    <2> QED BY <2>12 DEF StampEvictable, Later
<1> QED BY <1>5, <1>6, <1>8, <1>9, <1>10

\* Evidence of an eviction stays evidence.
LEMMA EvictionKept ==
    ASSUME TypeOK, SwitchInv, NEW c \in Cohort, Advertise(c),
           NEW d \in Cohort, stage[d] # "fresh", StampEvictable(d)
    PROVE  StampEvictable(d)'
<1> DEFINE before == {x \in Cohort : stamp[x] > stamp[d]}
           after == {x \in Cohort : stamp'[x] > stamp'[d]}
<1>1. before \in SUBSET after
    BY DEF Advertise, TypeOK, SwitchInv
<1>2. IsFiniteSet(after)
    <2>1. after \in SUBSET Cohort
        OBVIOUS
    <2> HIDE DEF after
    <2> QED BY <2>1, CohortAssumption, FS_Subset
<1> HIDE DEF before, after
<1>3. /\ IsFiniteSet(before) /\ Cardinality(before) <= Cardinality(after)
      /\ Cardinality(after) \in Nat
    BY <1>1, <1>2, FS_Subset, FS_CardinalityType
<1>4. Cardinality(before) \in Nat
    BY <1>3, FS_CardinalityType
<1>5. Cardinality(before) >= MaxEntries /\ MaxEntries \in Nat
    BY EntriesAssumption DEF StampEvictable, before
<1>6. Cardinality(after) >= MaxEntries
    BY <1>3, <1>4, <1>5
<1> QED BY <1>6 DEF StampEvictable, after

-----------------------------------------------------------------------------
(* The invariant *)

\* Initially every table is empty and nothing has happened.
LEMMA InitInv == Init => Inv
<1> SUFFICES ASSUME Init PROVE Inv
    OBVIOUS
<1>1. TypeOK
    <2>1. /\ advertisedAt \in Seq([id : Cohort, at : Nat]) /\ Len(advertisedAt) = 0
          /\ fundingWatches \in Seq([id : Cohort]) /\ Len(fundingWatches) = 0
          /\ lastFundingView \in Seq([id : Cohort]) /\ Len(lastFundingView) = 0
        BY EmptySeq DEF Init
    <2>2. \A table \in {advertisedAt, fundingWatches, lastFundingView} :
              Len(table) <= MaxEntries
        BY <2>1, EntriesAssumption
    <2>3. /\ stage \in [Cohort -> {"fresh"} \cup Underway \cup Ends]
          /\ clock \in Nat /\ disabledAt \in Nat \cup {None}
          /\ watch \in [Cohort -> {"none", "aborted", "done"} \cup Polling]
          /\ built \in [Cohort -> {"nothing", "live", "fixture"}]
          /\ broadcast \in [Cohort -> {"none", "withheld", "published"}]
          /\ stopped \in BOOLEAN /\ stamp \in [Cohort -> Nat]
        BY DEF Init
    <2> QED BY <2>1, <2>2, <2>3 DEF TypeOK
<1>2. DOMAIN advertisedAt = {}
    BY DEF Init
<1>3. StampInv
    BY <1>2 DEF StampInv, Ordered
<1>4. SwitchInv
    BY DEF Init, SwitchInv, AdvertisedAfterSwitch
<1>5. EvictInv
    BY DEF Init, EvictInv, Underway
<1>6. BuilderInv
    BY DEF Init, BuilderInv
<1>7. LegsAgree
    BY DEF Init, LegsAgree
<1> QED BY <1>1, <1>3, <1>4, <1>5, <1>6, <1>7 DEF Inv

\* cohort-advertised preserves the invariant.
LEMMA AdvertiseStep ==
    ASSUME Inv, NEW c \in Cohort, Advertise(c)
    PROVE  Inv'
<1>1. TypeOK /\ StampInv /\ SwitchInv /\ EvictInv /\ BuilderInv /\ LegsAgree
    BY DEF Inv
<1>2. /\ advertisedAt' \in Seq(StampedEntry) /\ Len(advertisedAt') <= MaxEntries
      /\ StampInv'
      /\ c \in Keys(advertisedAt')
      /\ Keys(advertisedAt') \subseteq Keys(advertisedAt) \cup {c}
      /\ \A d \in Keys(advertisedAt) :
            d \in Keys(advertisedAt') \/ StampEvictable(d)'
    BY <1>1, Advertised
<1>3. /\ stage[c] = "fresh" /\ stage' = [stage EXCEPT ![c] = "open"]
      /\ stamp' = [stamp EXCEPT ![c] = clock + 1] /\ clock' = clock + 1
      /\ UNCHANGED <<disabledAt, fundingWatches, lastFundingView, watch, built,
                     broadcast, stopped>>
    BY DEF Advertise
<1>4. TypeOK'
    BY <1>1, <1>2, <1>3 DEF TypeOK, StampedEntry, Underway
<1>5. SwitchInv'
    BY <1>1, <1>3 DEF SwitchInv, AdvertisedAfterSwitch, TypeOK
<1>6. EvictInv'
    BY <1>1, <1>2, <1>3, EvictionKept DEF EvictInv, Underway, TypeOK
<1>7. \A d \in Cohort : built[d] = "fixture" => ~cohortKeepsLiveWiring(d)'
    <2>1. SUFFICES ASSUME NEW d \in Cohort, built[d] = "fixture"
                   PROVE  ~cohortKeepsLiveWiring(d)'
        OBVIOUS
    <2>2. d # c /\ ~cohortKeepsLiveWiring(d) /\ stamp'[d] = stamp[d]
        BY <1>1, <1>3, <2>1 DEF SwitchInv, BuilderInv, TypeOK
    <2> QED BY <1>1, <1>2, <1>3, <2>2, StaysOff
<1>8. BuilderInv'
    BY <1>1, <1>3, <1>7 DEF BuilderInv, SwitchInv, TypeOK
<1>9. LegsAgree'
    BY <1>1, <1>3, EvictionKept DEF LegsAgree, SwitchInv
<1> QED BY <1>2, <1>4, <1>5, <1>6, <1>8, <1>9 DEF Inv

\* A step that ends a cohort and releases its tables preserves what does not
\* depend on the verdict of the broadcast.
LEMMA ReleaseStep ==
    ASSUME Inv, NEW c \in Cohort, NEW end \in Ends, ReleaseCohortTables(c),
           stage[c] \in Underway, stage' = [stage EXCEPT ![c] = end],
           UNCHANGED <<clock, disabledAt, built, stopped, stamp>>
    PROVE  /\ StampInv' /\ EvictInv'
           /\ \A d \in Cohort : built'[d] = "fixture" => ~cohortKeepsLiveWiring(d)'
           /\ \A d \in Cohort : StampEvictable(d)' <=> StampEvictable(d)
<1>1. TypeOK /\ StampInv /\ EvictInv /\ BuilderInv
    BY DEF Inv
<1>2. /\ Keys(advertisedAt') = Keys(advertisedAt) \ {c}
      /\ ComesFrom(advertisedAt', advertisedAt) /\ Ordered(advertisedAt')
    BY <1>1, Release
<1>3. StampInv'
    <2>1. ASSUME NEW j \in DOMAIN advertisedAt'
          PROVE  /\ advertisedAt'[j].at = stamp'[advertisedAt'[j].id]
                 /\ stage'[advertisedAt'[j].id] # "fresh"
        BY <1>1, <1>2 DEF StampInv, ComesFrom, TypeOK, Ends
    <2> QED BY <1>2, <2>1 DEF StampInv
<1>4. \A d \in Cohort : StampEvictable(d)' <=> StampEvictable(d)
    BY DEF StampEvictable
<1>5. EvictInv'
    BY <1>1, <1>2, <1>4 DEF EvictInv, TypeOK, Ends, Underway
<1>6. \A d \in Cohort : built'[d] = "fixture" => ~cohortKeepsLiveWiring(d)'
    BY <1>1, <1>2, <1>3, StaysOff DEF BuilderInv
<1> QED BY <1>3, <1>4, <1>5, <1>6

\* The three ends that release the tables preserve the invariant; only
\* signing-complete passes a verdict, on the stamp the release then deletes.
LEMMA SigningStep ==
    ASSUME Inv, NEW c \in Cohort, SigningComplete(c)
    PROVE  Inv'
<1>1. TypeOK /\ StampInv /\ SwitchInv /\ EvictInv /\ BuilderInv /\ LegsAgree
    BY DEF Inv
<1>2. /\ stage[c] = "signing" /\ stage' = [stage EXCEPT ![c] = "completed"]
      /\ ReleaseCohortTables(c)
      /\ broadcast' = [broadcast EXCEPT ![c] =
             IF cohortKeepsLiveWiring(c) THEN "published" ELSE "withheld"]
      /\ UNCHANGED <<clock, disabledAt, built, stopped, stamp>>
    BY DEF SigningComplete
<1>3. /\ advertisedAt' \in Seq(StampedEntry) /\ Len(advertisedAt') <= MaxEntries
      /\ fundingWatches' \in Seq(Entry) /\ Len(fundingWatches') <= MaxEntries
      /\ lastFundingView' \in Seq(Entry) /\ Len(lastFundingView') <= MaxEntries
      /\ watch' \in [Cohort -> {"none", "aborted", "done"} \cup Polling]
      /\ \A d \in Cohort : watch'[d] # "none" => watch[d] # "none"
    BY <1>1, <1>2, Release
<1>4. /\ StampInv' /\ EvictInv'
      /\ \A d \in Cohort : built'[d] = "fixture" => ~cohortKeepsLiveWiring(d)'
      /\ \A d \in Cohort : StampEvictable(d)' <=> StampEvictable(d)
    BY <1>2, ReleaseStep DEF Underway, Ends
<1>5. cohortKeepsLiveWiring(c) =>
          built[c] = "live" /\ ~AdvertisedAfterSwitch(c)
    BY <1>1, <1>2 DEF BuilderInv, SwitchInv, TypeOK
<1>6. ~cohortKeepsLiveWiring(c) /\ built[c] = "live" => StampEvictable(c)
    <2>1. SUFFICES ASSUME ~cohortKeepsLiveWiring(c), built[c] = "live"
                   PROVE  StampEvictable(c)
        OBVIOUS
    <2>2. disabledAt # None /\ ~(c \in Keys(advertisedAt) /\ stamp[c] < disabledAt)
        BY <1>1, <2>1, KeepsLive
    <2>3. stamp[c] < disabledAt
        BY <1>1, <2>1, <2>2 DEF SwitchInv, AdvertisedAfterSwitch, TypeOK
    <2> QED BY <1>1, <1>2, <2>2, <2>3 DEF EvictInv, Underway
<1>7. TypeOK'
    BY <1>1, <1>2, <1>3 DEF TypeOK, StampedEntry, Entry, Ends
<1>8. SwitchInv'
    BY <1>1, <1>2, <1>3, <1>5 DEF SwitchInv, AdvertisedAfterSwitch, TypeOK
<1>9. BuilderInv'
    BY <1>1, <1>2, <1>4 DEF BuilderInv, TypeOK
<1>10. LegsAgree'
    BY <1>1, <1>2, <1>4, <1>5, <1>6 DEF LegsAgree, TypeOK
<1> QED BY <1>4, <1>7, <1>8, <1>9, <1>10 DEF Inv

\* cohort-failed with a watch, and the operator's cancel.
LEMMA DropStep ==
    ASSUME Inv, NEW c \in Cohort, NEW end \in Ends \ {"completed"},
           ReleaseCohortTables(c), stage[c] \in Underway,
           stage' = [stage EXCEPT ![c] = end],
           UNCHANGED <<clock, disabledAt, built, broadcast, stopped, stamp>>
    PROVE  Inv'
<1>1. TypeOK /\ StampInv /\ SwitchInv /\ EvictInv /\ BuilderInv /\ LegsAgree
    BY DEF Inv
<1>2. /\ advertisedAt' \in Seq(StampedEntry) /\ Len(advertisedAt') <= MaxEntries
      /\ fundingWatches' \in Seq(Entry) /\ Len(fundingWatches') <= MaxEntries
      /\ lastFundingView' \in Seq(Entry) /\ Len(lastFundingView') <= MaxEntries
      /\ watch' \in [Cohort -> {"none", "aborted", "done"} \cup Polling]
      /\ \A d \in Cohort : watch'[d] # "none" => watch[d] # "none"
    BY <1>1, Release
<1>3. /\ StampInv' /\ EvictInv'
      /\ \A d \in Cohort : built'[d] = "fixture" => ~cohortKeepsLiveWiring(d)'
      /\ \A d \in Cohort : StampEvictable(d)' <=> StampEvictable(d)
    BY ReleaseStep
<1>4. TypeOK'
    BY <1>1, <1>2 DEF TypeOK, StampedEntry, Entry, Ends
<1>5. SwitchInv'
    BY <1>1, <1>2 DEF SwitchInv, AdvertisedAfterSwitch, TypeOK, Ends
<1>6. BuilderInv'
    BY <1>1, <1>3 DEF BuilderInv, TypeOK, Ends, Underway
<1>7. LegsAgree'
    BY <1>1, <1>3 DEF LegsAgree
<1> QED BY <1>3, <1>4, <1>5, <1>6, <1>7 DEF Inv

\* A step that leaves the stamps alone and moves no cohort back preserves what
\* depends on the table of stamps.
LEMMA KeepStep ==
    ASSUME Inv, UNCHANGED <<advertisedAt, stamp>>,
           \A c \in Cohort :
              /\ stage'[c] = "fresh" => stage[c] = "fresh"
              /\ stage'[c] \in Underway => stage[c] \in Underway
    PROVE  /\ StampInv' /\ EvictInv'
           /\ \A c \in Cohort : StampEvictable(c)' <=> StampEvictable(c)
<1>1. TypeOK /\ StampInv /\ EvictInv
    BY DEF Inv
<1>2. \A i \in DOMAIN advertisedAt : advertisedAt[i].id \in Cohort
    <2>1. advertisedAt \in Seq(StampedEntry)
        BY <1>1 DEF TypeOK, StampedEntry
    <2>2. \A i \in DOMAIN advertisedAt : advertisedAt[i] \in StampedEntry
        BY <2>1, LenProperties, ElementOfSeq
    <2> QED BY <2>2 DEF StampedEntry
<1>3. StampInv'
    BY <1>1, <1>2 DEF StampInv, Ordered
<1>4. \A c \in Cohort : StampEvictable(c)' <=> StampEvictable(c)
    BY DEF StampEvictable
<1> QED BY <1>1, <1>3, <1>4 DEF EvictInv

\* Remembering an entry keeps a table of bare entries what it is.
LEMMA RememberEntry ==
    ASSUME NEW table \in Seq(Entry), Len(table) <= MaxEntries, NEW c \in Cohort
    PROVE  /\ Remember(table, [id |-> c], MaxEntries) \in Seq(Entry)
           /\ Len(Remember(table, [id |-> c], MaxEntries)) <= MaxEntries
<1>1. [id |-> c] \in Entry /\ MaxEntries \in Nat
    BY EntriesAssumption DEF Entry
<1> QED BY <1>1, RememberProperties

\* keygen-complete preserves the invariant: the watch starts only on a cohort
\* whose stamp precedes the switch.
LEMMA KeygenStep ==
    ASSUME Inv, NEW c \in Cohort, KeygenComplete(c)
    PROVE  Inv'
<1>1. TypeOK /\ StampInv /\ SwitchInv /\ EvictInv /\ BuilderInv /\ LegsAgree
    BY DEF Inv
<1>2. /\ stage[c] = "open" /\ stage' = [stage EXCEPT ![c] = "keyed"]
      /\ UNCHANGED <<clock, advertisedAt, disabledAt, lastFundingView, built,
                     broadcast, stopped, stamp>>
      /\ watch' # watch => /\ cohortKeepsLiveWiring(c)
                           /\ watch' = [watch EXCEPT ![c] = "reading"]
    BY DEF KeygenComplete
<1>3. /\ StampInv' /\ EvictInv'
      /\ \A d \in Cohort : StampEvictable(d)' <=> StampEvictable(d)
    BY <1>1, <1>2, KeepStep DEF Underway, TypeOK
<1>4. fundingWatches' \in Seq(Entry) /\ Len(fundingWatches') <= MaxEntries
    BY <1>1, RememberEntry DEF KeygenComplete, TypeOK, Entry
<1>5. TypeOK'
    BY <1>1, <1>2, <1>4 DEF TypeOK, Entry, Underway, Polling
<1>6. cohortKeepsLiveWiring(c) => ~AdvertisedAfterSwitch(c)
    BY <1>1, KeepsLive DEF AdvertisedAfterSwitch, TypeOK
<1>7. SwitchInv'
    BY <1>1, <1>2, <1>6 DEF SwitchInv, AdvertisedAfterSwitch, TypeOK
<1>8. BuilderInv'
    BY <1>1, <1>2 DEF BuilderInv, TypeOK, cohortKeepsLiveWiring
<1>9. LegsAgree'
    BY <1>1, <1>2, <1>3 DEF LegsAgree
<1> QED BY <1>3, <1>5, <1>7, <1>8, <1>9 DEF Inv

\* onProvideTxData preserves the invariant: the live builder is chosen only
\* for a cohort whose stamp precedes the switch.
LEMMA ProvideStep ==
    ASSUME Inv, NEW c \in Cohort, ProvideTxData(c)
    PROVE  Inv'
<1>1. TypeOK /\ StampInv /\ SwitchInv /\ EvictInv /\ BuilderInv /\ LegsAgree
    BY DEF Inv
<1>2. /\ stage[c] = "keyed"
      /\ UNCHANGED <<clock, advertisedAt, fundingWatches, lastFundingView,
                     disabledAt, watch, broadcast, stopped, stamp>>
      /\ \/ /\ cohortKeepsLiveWiring(c)
            /\ built' = [built EXCEPT ![c] = "live"]
            /\ stage' = [stage EXCEPT ![c] = "building"]
         \/ /\ ~cohortKeepsLiveWiring(c)
            /\ built' = [built EXCEPT ![c] = "fixture"]
            /\ stage' = [stage EXCEPT ![c] = "signing"]
    BY DEF ProvideTxData, tables
<1>3. /\ StampInv' /\ EvictInv'
      /\ \A d \in Cohort : StampEvictable(d)' <=> StampEvictable(d)
    BY <1>1, <1>2, KeepStep DEF Underway, TypeOK
<1>4. TypeOK'
    BY <1>1, <1>2 DEF TypeOK, Underway
<1>5. cohortKeepsLiveWiring(c) => ~AdvertisedAfterSwitch(c)
    BY <1>1, KeepsLive DEF AdvertisedAfterSwitch, TypeOK
<1>6. SwitchInv'
    BY <1>1, <1>2, <1>5 DEF SwitchInv, AdvertisedAfterSwitch, TypeOK
<1>7. BuilderInv'
    BY <1>1, <1>2 DEF BuilderInv, TypeOK, cohortKeepsLiveWiring
<1>8. LegsAgree'
    BY <1>1, <1>2, <1>3 DEF LegsAgree, BuilderInv, TypeOK
<1> QED BY <1>3, <1>4, <1>6, <1>7, <1>8 DEF Inv

\* Steps that touch neither the stamps nor the verdicts preserve the invariant.
LEMMA QuietStep ==
    ASSUME Inv, TypeOK',
           UNCHANGED <<clock, advertisedAt, disabledAt, built, broadcast, stamp>>,
           \A c \in Cohort : watch'[c] # "none" => watch[c] # "none",
           \A c \in Cohort :
              \/ stage'[c] = stage[c]
              \/ stage[c] \in Underway /\ stage'[c] \in Ends \ {"completed"}
              \/ stage[c] = "building" /\ stage'[c] = "signing"
    PROVE  Inv'
<1>1. TypeOK /\ StampInv /\ SwitchInv /\ EvictInv /\ BuilderInv /\ LegsAgree
    BY DEF Inv
<1>2. /\ StampInv' /\ EvictInv'
      /\ \A c \in Cohort : StampEvictable(c)' <=> StampEvictable(c)
    BY KeepStep DEF Underway, Ends
<1>3. SwitchInv'
    BY <1>1 DEF SwitchInv, AdvertisedAfterSwitch, Underway, Ends
<1>4. BuilderInv'
    BY <1>1 DEF BuilderInv, cohortKeepsLiveWiring, Underway, Ends
<1>5. LegsAgree'
    BY <1>1, <1>2 DEF LegsAgree
<1> QED BY <1>2, <1>3, <1>4, <1>5 DEF Inv

\* disableBroadcast preserves the invariant: every stamp taken so far precedes
\* the moment, and no builder had been refused before it.
LEMMA DisableStep ==
    ASSUME Inv, DisableBroadcast
    PROVE  Inv'
<1>1. TypeOK /\ StampInv /\ SwitchInv /\ EvictInv /\ BuilderInv /\ LegsAgree
    BY DEF Inv
<1>2. /\ disabledAt = None /\ disabledAt' = clock + 1
      /\ UNCHANGED <<stage, clock, advertisedAt, fundingWatches,
                     lastFundingView, watch, built, broadcast, stopped, stamp>>
    BY DEF DisableBroadcast, tables
<1>3. /\ StampInv' /\ EvictInv'
      /\ \A c \in Cohort : StampEvictable(c)' <=> StampEvictable(c)
    BY <1>2, KeepStep
<1>4. TypeOK'
    BY <1>1, <1>2 DEF TypeOK
<1>5. SwitchInv'
    BY <1>1, <1>2 DEF SwitchInv, AdvertisedAfterSwitch, TypeOK
<1>6. BuilderInv'
    BY <1>1, <1>2 DEF BuilderInv, cohortKeepsLiveWiring
<1>7. LegsAgree'
    BY <1>1, <1>2, <1>3 DEF LegsAgree
<1> QED BY <1>3, <1>4, <1>5, <1>6, <1>7 DEF Inv

\* Every step preserves the invariant, one case per action.
LEMMA NextInv == Inv /\ [Next]_vars => Inv'
<1> SUFFICES ASSUME Inv, [Next]_vars PROVE Inv'
    OBVIOUS
<1>0. TypeOK
    BY DEF Inv
<1>1. ASSUME NEW c \in Cohort, Advertise(c) PROVE Inv'
    BY <1>1, AdvertiseStep
<1>2. ASSUME NEW c \in Cohort, KeygenComplete(c) PROVE Inv'
    BY <1>2, KeygenStep
<1>3. ASSUME NEW c \in Cohort, ProvideTxData(c) PROVE Inv'
    BY <1>3, ProvideStep
<1>4. ASSUME NEW c \in Cohort, TxDataReady(c) PROVE Inv'
    <2>1. TypeOK'
        BY <1>0, <1>4 DEF TxDataReady, TypeOK, tables, Underway
    <2> QED BY <1>0, <1>4, <2>1, QuietStep DEF TxDataReady, tables, TypeOK
<1>5. ASSUME NEW c \in Cohort, SigningComplete(c) PROVE Inv'
    BY <1>5, SigningStep
<1>6. ASSUME NEW c \in Cohort, CohortFailed(c) PROVE Inv'
    <2>1. CASE c \in Keys(fundingWatches)
        BY <1>6, <2>1, DropStep DEF CohortFailed, Ends
    <2>2. CASE c \notin Keys(fundingWatches)
        <3>1. /\ stage[c] \in Underway /\ stage' = [stage EXCEPT ![c] = "failed"]
              /\ UNCHANGED <<clock, tables, disabledAt, watch, built, broadcast,
                             stopped, stamp>>
            BY <1>6, <2>2 DEF CohortFailed
        <3>2. TypeOK'
            BY <1>0, <3>1 DEF TypeOK, tables, Ends
        <3> QED BY <1>0, <3>1, <3>2, QuietStep DEF tables, TypeOK, Ends
    <2> QED BY <2>1, <2>2
<1>7. ASSUME NEW c \in Cohort, CancelCohort(c) PROVE Inv'
    BY <1>7, DropStep DEF CancelCohort, Ends
<1>8. ASSUME NEW c \in Cohort, WindowExpires(c) PROVE Inv'
    <2>1. TypeOK'
        BY <1>0, <1>8 DEF WindowExpires, TypeOK, tables, Ends
    <2> QED BY <1>0, <1>8, <2>1, QuietStep DEF WindowExpires, tables, TypeOK, Ends
<1>9. ASSUME NEW c \in Cohort, WatchTick(c) PROVE Inv'
    <2>1. TypeOK'
        BY <1>0, <1>9 DEF WatchTick, TypeOK, tables, Polling
    <2> QED BY <1>0, <1>9, <2>1, QuietStep DEF WatchTick, tables, TypeOK
<1>10. ASSUME NEW c \in Cohort, NEW funded \in BOOLEAN, WatchAnswer(c, funded)
       PROVE  Inv'
    <2>1. lastFundingView' \in Seq(Entry) /\ Len(lastFundingView') <= MaxEntries
        BY <1>0, <1>10, RememberEntry DEF WatchAnswer, TypeOK, Entry
    <2>2. TypeOK'
        BY <1>0, <1>10, <2>1 DEF WatchAnswer, TypeOK, Entry, Polling
    <2> QED BY <1>0, <1>10, <2>2, QuietStep DEF WatchAnswer, TypeOK
<1>11. CASE DisableBroadcast
    BY <1>11, DisableStep
<1>12. CASE StopService
    <2>1. TypeOK'
        BY <1>0, <1>12 DEF StopService, TypeOK, tables, Ends, Aborted, Polling
    <2>2. \A c \in Cohort : watch'[c] # "none" => watch[c] # "none"
        BY <1>0, <1>12 DEF StopService, TypeOK, Aborted
    <2> QED BY <1>0, <1>12, <2>1, <2>2, QuietStep DEF StopService, tables, Ends
<1>13. CASE UNCHANGED vars
    <2>1. TypeOK'
        BY <1>0, <1>13 DEF TypeOK, vars, tables
    <2> QED BY <1>13, <2>1, QuietStep DEF vars, tables
<1> QED
    BY <1>1, <1>2, <1>3, <1>4, <1>5, <1>6, <1>7, <1>8, <1>9, <1>10, <1>11,
       <1>12, <1>13 DEF Next, RunnerStep, WatchStep

-----------------------------------------------------------------------------
(* The theorems *)

\* The invariant of the money path holds in every reachable state: whatever
\* is evicted, released or in flight when the switch moves.
THEOREM WiringInvariant == Spec => []Inv
BY InitInv, NextInv, PTL DEF Spec

\* Types, and the bound on every side table (rememberBounded).
THEOREM WiringTypes == Spec => []TypeOK
<1>1. Inv => TypeOK
    BY DEF Inv
<1> QED BY <1>1, WiringInvariant, PTL

\* No money moves for a cohort advertised after the switch: it is not watched,
\* not built live and not published (cohortKeepsLiveWiring at its three calls).
THEOREM SwitchIsFinal == Spec => []SwitchHolds
<1>1. Inv => SwitchHolds
    BY DEF Inv, SwitchInv, SwitchHolds
<1> QED BY <1>1, WiringInvariant, PTL

\* What is published was built live, and what was built live is withheld only
\* when a full table's worth of later adverts has pushed its stamp out
\* (onProvideTxData and the broadcast listener, with rememberBounded between).
THEOREM LegsAlwaysAgree == Spec => []LegsAgree
<1>1. Inv => LegsAgree
    BY DEF Inv
<1> QED BY <1>1, WiringInvariant, PTL

-----------------------------------------------------------------------------
(* The funding watches and their handles *)

\* The tables of handles and views hold no cohort twice; a handle belongs to a
\* watch that was started; and a watch that still polls can still be stopped,
\* unless its handle was pushed out by MaxEntries others.
HandleInv ==
    /\ Distinct(fundingWatches) /\ Distinct(lastFundingView)
    /\ \A c \in Cohort :
          /\ stage[c] \in {"fresh", "open"} => watch[c] = "none"
          /\ c \in Keys(fundingWatches) => watch[c] # "none"
          /\ watch[c] \in Polling =>
                \/ HandleEvictable(c)
                \/ /\ c \in Keys(fundingWatches)
                   /\ ~stopped /\ stage[c] \in Underway \cup {"window-expired"}

WatchInv == HandleInv /\ ReleasedStaysReleased

\* A watch that was started stays started, so the evidence of an eviction
\* stays evidence.
LEMMA HandleEvictionKept ==
    ASSUME NEW c \in Cohort, HandleEvictable(c),
           \A d \in Cohort : watch[d] # "none" => watch'[d] # "none"
    PROVE  HandleEvictable(c)'
<1> DEFINE before == {d \in Cohort \ {c} : watch[d] # "none"}
           after == {d \in Cohort \ {c} : watch'[d] # "none"}
<1>1. before \in SUBSET after /\ after \in SUBSET Cohort
    OBVIOUS
<1> HIDE DEF before, after
<1>2. /\ IsFiniteSet(after) /\ IsFiniteSet(before)
      /\ Cardinality(before) <= Cardinality(after)
    BY <1>1, CohortAssumption, FS_Subset
<1>3. Cardinality(after) \in Nat /\ Cardinality(before) \in Nat
    BY <1>2, FS_CardinalityType
<1>4. Cardinality(before) >= MaxEntries /\ MaxEntries \in Nat
    BY EntriesAssumption DEF HandleEvictable, before
<1>5. Cardinality(after) >= MaxEntries
    BY <1>2, <1>3, <1>4
<1> QED BY <1>5 DEF HandleEvictable, after

\* What Remember and Delete do to the two tables of bare entries.
LEMMA EntryTables ==
    ASSUME NEW table \in Seq(Entry), Len(table) <= MaxEntries, Distinct(table),
           NEW c \in Cohort
    PROVE  /\ LET new == Remember(table, [id |-> c], MaxEntries)
              IN  /\ Distinct(new)
                  /\ c \in Keys(new) /\ Keys(new) \subseteq Keys(table) \cup {c}
                  /\ Keys(new) # Keys(table) \cup {c} =>
                        Cardinality(Keys(new)) = MaxEntries
           /\ Keys(Delete(table, c)) = Keys(table) \ {c}
           /\ Distinct(Delete(table, c))
<1> DEFINE entry == [id |-> c]
           new == Remember(table, entry, MaxEntries)
           moved == Append(Delete(table, c), entry)
<1>1. entry \in Entry /\ entry.id = c /\ MaxEntries \in Nat \ {0}
    BY EntriesAssumption DEF Entry
<1>2. new \in Seq(Entry)
    BY RememberEntry
<1> HIDE DEF entry
<1>3. Renews(table, entry, IF Len(moved) > MaxEntries THEN {Head(moved)} ELSE {}, new)
    BY <1>1, RememberDistinct
<1> HIDE DEF new
<1>4. Distinct(new) /\ c \in Keys(new) /\ Keys(new) \subseteq Keys(table) \cup {c}
    BY <1>1, <1>3 DEF Renews, Keys
<1>5. ASSUME Keys(new) # Keys(table) \cup {c}
      PROVE  Cardinality(Keys(new)) = MaxEntries
    <2>1. PICK i \in DOMAIN table : table[i].id \notin Keys(new)
        BY <1>4, <1>5 DEF Keys
    <2>2. Len(new) = MaxEntries
        BY <1>1, <2>1, EvictedFromFull DEF new
    <2> QED BY <1>2, <1>4, <2>2, KeysCounted
<1>6. /\ Keys(Delete(table, c)) = Keys(table) \ {c}
      /\ Distinct(Delete(table, c))
    BY DeleteKeys
<1> QED BY <1>4, <1>5, <1>6 DEF new, entry

\* Initially no watch runs and no table holds anything.
LEMMA InitWatchInv == Init => WatchInv
<1> SUFFICES ASSUME Init PROVE WatchInv
    OBVIOUS
<1>1. /\ DOMAIN fundingWatches = {} /\ DOMAIN lastFundingView = {}
      /\ DOMAIN advertisedAt = {}
    BY DEF Init
<1>2. HandleInv
    BY <1>1 DEF Init, HandleInv, Distinct, Keys, Polling
<1>3. ReleasedStaysReleased
    BY <1>1 DEF Init, ReleasedStaysReleased, Keys
<1> QED BY <1>2, <1>3 DEF WatchInv

\* A step that starts no watch, keeps the handles and records no view of a
\* released cohort keeps the invariant, as long as the watches of the cohorts it
\* ends without a listener were stopped or had lost their handle.
LEMMA CalmStep ==
    ASSUME TypeOK, WatchInv, stopped' = stopped,
           \A d \in Cohort : d \in Keys(advertisedAt') =>
               d \in Keys(advertisedAt) \/ stage[d] = "fresh",
           fundingWatches' = fundingWatches,
           Distinct(lastFundingView'),
           \A d \in Cohort : watch[d] # "none" <=> watch'[d] # "none",
           \A d \in Cohort : watch'[d] \in Polling => watch[d] \in Polling,
           \A d \in Cohort : d \in Keys(lastFundingView') =>
               d \in Keys(lastFundingView) \/ watch[d] \in Polling,
           \A d \in Cohort :
               \/ stage'[d] = stage[d]
               \/ /\ stage[d] = "fresh" /\ stage'[d] = "open"
               \/ /\ stage[d] \in Underway \ {"open"}
                  /\ stage'[d] \in Underway \ {"open"}
               \/ /\ stage[d] \in Underway
                  /\ stage'[d] \in Ends \ {"completed", "canceled"}
                  /\ \/ stage'[d] = "window-expired"
                     \/ d \notin Keys(fundingWatches)
    PROVE  WatchInv'
<1>1. ASSUME NEW c \in Cohort, HandleEvictable(c) PROVE HandleEvictable(c)'
    BY <1>1, HandleEvictionKept
<1>2. HandleInv /\ ReleasedStaysReleased
    BY DEF WatchInv
<1>3. HandleInv'
    <2>1. Distinct(fundingWatches') /\ Distinct(lastFundingView')
        BY <1>2 DEF HandleInv
    <2>2. ASSUME NEW c \in Cohort
          PROVE  /\ stage'[c] \in {"fresh", "open"} => watch'[c] = "none"
                 /\ c \in Keys(fundingWatches') => watch'[c] # "none"
        BY <1>2 DEF HandleInv, Underway, Ends
    <2>3. ASSUME NEW c \in Cohort, watch'[c] \in Polling, ~HandleEvictable(c)'
          PROVE  /\ c \in Keys(fundingWatches') /\ ~stopped'
                 /\ stage'[c] \in Underway \cup {"window-expired"}
        <3>1. /\ c \in Keys(fundingWatches) /\ ~stopped
              /\ stage[c] \in Underway \cup {"window-expired"}
            BY <1>1, <1>2, <2>3 DEF HandleInv
        <3> QED BY <3>1 DEF Underway, Ends
    <2> QED BY <2>1, <2>2, <2>3 DEF HandleInv
<1>4. ReleasedStaysReleased'
    <2> SUFFICES ASSUME NEW c \in Cohort, stage'[c] \in {"completed", "canceled"}
                 PROVE  /\ c \notin Keys(advertisedAt') \cup Keys(fundingWatches')
                        /\ c \in Keys(lastFundingView') => HandleEvictable(c)'
        BY DEF ReleasedStaysReleased
    <2>1. stage[c] \in {"completed", "canceled"}
        BY DEF Underway, Ends
    <2>2. /\ c \notin Keys(advertisedAt) \cup Keys(fundingWatches)
          /\ c \in Keys(lastFundingView) => HandleEvictable(c)
        BY <1>2, <2>1 DEF ReleasedStaysReleased
    <2>3. watch[c] \in Polling => HandleEvictable(c)
        BY <1>2, <2>2 DEF HandleInv
    <2> QED BY <1>1, <2>1, <2>2, <2>3
<1> QED BY <1>3, <1>4 DEF WatchInv

\* A release stops the cohort's watch and takes it out of every table, whatever
\* else the step does to the stages.
LEMMA ReleaseCalm ==
    ASSUME TypeOK, StampInv, WatchInv, NEW c \in Cohort, ReleaseCohortTables(c),
           NEW end \in {"completed", "failed", "canceled"},
           stage[c] \in Underway, stage' = [stage EXCEPT ![c] = end],
           stopped' = stopped
    PROVE  WatchInv'
<1>1. /\ fundingWatches \in Seq(Entry) /\ Len(fundingWatches) <= MaxEntries
      /\ lastFundingView \in Seq(Entry) /\ Len(lastFundingView) <= MaxEntries
      /\ HandleInv /\ ReleasedStaysReleased
    BY DEF TypeOK, Entry, WatchInv
<1>2. /\ Keys(fundingWatches') = Keys(fundingWatches) \ {c}
      /\ Keys(lastFundingView') = Keys(lastFundingView) \ {c}
      /\ Distinct(fundingWatches') /\ Distinct(lastFundingView')
    BY <1>1, EntryTables DEF ReleaseCohortTables, HandleInv
<1>3. Keys(advertisedAt') = Keys(advertisedAt) \ {c}
    BY Release
<1>4. /\ \A d \in Cohort : watch[d] # "none" <=> watch'[d] # "none"
      /\ \A d \in Cohort : watch'[d] \in Polling => watch[d] \in Polling
      /\ watch'[c] \in Polling => c \notin Keys(fundingWatches)
    BY DEF ReleaseCohortTables, TypeOK, Aborted, Polling
<1>5. ASSUME NEW d \in Cohort, HandleEvictable(d) PROVE HandleEvictable(d)'
    BY <1>4, <1>5, HandleEvictionKept
<1>6. HandleInv'
    <2>1. ASSUME NEW d \in Cohort
          PROVE  /\ stage'[d] \in {"fresh", "open"} => watch'[d] = "none"
                 /\ d \in Keys(fundingWatches') => watch'[d] # "none"
        BY <1>1, <1>2, <1>4 DEF HandleInv, TypeOK
    <2>2. ASSUME NEW d \in Cohort, watch'[d] \in Polling, ~HandleEvictable(d)'
          PROVE  /\ d \in Keys(fundingWatches') /\ ~stopped'
                 /\ stage'[d] \in Underway \cup {"window-expired"}
        <3>1. /\ d \in Keys(fundingWatches) /\ ~stopped
              /\ stage[d] \in Underway \cup {"window-expired"}
            BY <1>1, <1>4, <1>5, <2>2 DEF HandleInv
        <3>2. d # c
            BY <1>4, <2>2, <3>1
        <3> QED BY <1>2, <3>1, <3>2 DEF TypeOK
    <2> QED BY <1>2, <2>1, <2>2 DEF HandleInv
<1>7. ReleasedStaysReleased'
    BY <1>1, <1>2, <1>3, <1>5 DEF ReleasedStaysReleased, TypeOK
<1> QED BY <1>6, <1>7 DEF WatchInv

\* keygen-complete starts a watch and files its handle; the handle that gives
\* way leaves MaxEntries others behind.
LEMMA KeygenWatch ==
    ASSUME TypeOK, WatchInv, NEW c \in Cohort, KeygenComplete(c)
    PROVE  WatchInv'
<1>1. HandleInv /\ ReleasedStaysReleased
    BY DEF WatchInv
<1>2. /\ stage[c] = "open" /\ ~stopped /\ stage' = [stage EXCEPT ![c] = "keyed"]
      /\ UNCHANGED <<advertisedAt, lastFundingView, stopped>>
    BY DEF KeygenComplete
<1>3. watch[c] = "none" /\ c \notin Keys(fundingWatches)
    BY <1>1, <1>2 DEF HandleInv
<1>4. CASE ~cohortKeepsLiveWiring(c)
    <2>1. UNCHANGED <<watch, fundingWatches>>
        BY <1>4 DEF KeygenComplete
    <2>2. \A d \in Cohort : HandleEvictable(d)' <=> HandleEvictable(d)
        BY <2>1 DEF HandleEvictable
    <2>3. HandleInv'
        BY <1>1, <1>2, <1>3, <2>1, <2>2
        DEF HandleInv, TypeOK, Underway, Polling, Distinct
    <2>4. ReleasedStaysReleased'
        BY <1>1, <1>2, <2>1, <2>2 DEF ReleasedStaysReleased, TypeOK
    <2> QED BY <2>3, <2>4 DEF WatchInv
<1>5. CASE cohortKeepsLiveWiring(c)
    <2>1. /\ watch' = [watch EXCEPT ![c] = "reading"]
          /\ fundingWatches' = Remember(fundingWatches, [id |-> c], MaxEntries)
        BY <1>5 DEF KeygenComplete
    <2>2. /\ fundingWatches \in Seq(Entry) /\ Len(fundingWatches) <= MaxEntries
          /\ Distinct(fundingWatches)
        BY <1>1 DEF TypeOK, Entry, HandleInv
    <2>3. /\ Distinct(fundingWatches') /\ c \in Keys(fundingWatches')
          /\ Keys(fundingWatches') \subseteq Keys(fundingWatches) \cup {c}
          /\ Keys(fundingWatches') # Keys(fundingWatches) \cup {c} =>
                Cardinality(Keys(fundingWatches')) = MaxEntries
        BY <2>1, <2>2, EntryTables
    <2>4. /\ watch'[c] = "reading"
          /\ \A d \in Cohort \ {c} : watch'[d] = watch[d]
          /\ \A d \in Cohort : watch[d] # "none" => watch'[d] # "none"
        BY <2>1 DEF TypeOK
    <2>5. ASSUME NEW d \in Cohort, HandleEvictable(d) PROVE HandleEvictable(d)'
        BY <2>4, <2>5, HandleEvictionKept
    <2>6. ASSUME NEW d \in Cohort
          PROVE  d \in Keys(fundingWatches') => watch'[d] # "none"
        BY <1>1, <2>3, <2>4 DEF HandleInv
    <2>7. ASSUME NEW d \in Keys(fundingWatches), d \notin Keys(fundingWatches')
          PROVE  HandleEvictable(d)'
        <3> DEFINE others == {e \in Cohort \ {d} : watch'[e] # "none"}
        <3>1. Cardinality(Keys(fundingWatches')) = MaxEntries
            BY <2>3, <2>7
        <3>2. Keys(fundingWatches') \in SUBSET Cohort
            <4>0. \A i \in DOMAIN fundingWatches : fundingWatches[i] \in Entry
                BY <2>2, LenProperties, ElementOfSeq
            <4>1. Keys(fundingWatches) \subseteq Cohort
                BY <4>0 DEF Keys, Entry
            <4> QED BY <2>3, <4>1
        <3>3. Keys(fundingWatches') \in SUBSET others
            BY <2>6, <2>7, <3>2
        <3>4. others \in SUBSET Cohort
            OBVIOUS
        <3> HIDE DEF others
        <3>5. /\ IsFiniteSet(others)
              /\ Cardinality(Keys(fundingWatches')) <= Cardinality(others)
              /\ Cardinality(others) \in Nat
            BY <3>3, <3>4, CohortAssumption, FS_Subset, FS_CardinalityType
        <3>6. Cardinality(others) >= MaxEntries
            BY <3>1, <3>5, EntriesAssumption
        <3> QED BY <3>6 DEF HandleEvictable, others
    <2>8. HandleInv'
        <3>1. ASSUME NEW d \in Cohort, watch'[d] \in Polling, ~HandleEvictable(d)'
              PROVE  /\ d \in Keys(fundingWatches') /\ ~stopped'
                     /\ stage'[d] \in Underway \cup {"window-expired"}
            <4>1. CASE d = c
                BY <1>2, <2>3, <4>1 DEF TypeOK, Underway
            <4>2. CASE d # c
                <5>1. /\ d \in Keys(fundingWatches) /\ ~stopped
                      /\ stage[d] \in Underway \cup {"window-expired"}
                    BY <1>1, <2>4, <2>5, <3>1, <4>2 DEF HandleInv
                <5> QED BY <1>2, <2>7, <3>1, <4>2, <5>1 DEF TypeOK
            <4> QED BY <4>1, <4>2
        <3>2. Distinct(lastFundingView')
            BY <1>1, <1>2 DEF HandleInv
        <3>3. ASSUME NEW d \in Cohort, stage'[d] \in {"fresh", "open"}
              PROVE  watch'[d] = "none"
            BY <1>1, <1>2, <2>4, <3>3 DEF HandleInv, TypeOK
        <3> QED BY <2>3, <2>6, <3>1, <3>2, <3>3 DEF HandleInv
    <2>9. ReleasedStaysReleased'
        <3> SUFFICES ASSUME NEW d \in Cohort, stage'[d] \in {"completed", "canceled"}
                     PROVE  /\ d \notin Keys(advertisedAt') \cup Keys(fundingWatches')
                            /\ d \in Keys(lastFundingView') => HandleEvictable(d)'
            BY DEF ReleasedStaysReleased
        <3>1. d # c /\ stage[d] \in {"completed", "canceled"}
            BY <1>2 DEF TypeOK
        <3> QED BY <1>1, <1>2, <2>3, <2>5, <3>1 DEF ReleasedStaysReleased
    <2> QED BY <2>8, <2>9 DEF WatchInv
<1> QED BY <1>4, <1>5

\* service.stop() stops every watch it has a handle of.
LEMMA StopWatch ==
    ASSUME TypeOK, WatchInv, StopService
    PROVE  WatchInv'
<1>1. HandleInv /\ ReleasedStaysReleased
    BY DEF WatchInv
<1>2. /\ UNCHANGED <<advertisedAt, fundingWatches, lastFundingView>>
      /\ \A d \in Cohort : watch[d] # "none" <=> watch'[d] # "none"
      /\ \A d \in Cohort : watch'[d] \in Polling =>
             watch[d] \in Polling /\ d \notin Keys(fundingWatches)
      /\ \A d \in Cohort : stage'[d] \in {"fresh", "completed", "canceled", "window-expired"} =>
             stage'[d] = stage[d]
      /\ \A d \in Cohort : stage'[d] # "open"
    BY DEF StopService, tables, TypeOK, Aborted, Polling, Underway, Ends
<1>3. ASSUME NEW d \in Cohort, HandleEvictable(d) PROVE HandleEvictable(d)'
    BY <1>2, <1>3, HandleEvictionKept
<1>4. HandleInv'
    <2>1. ASSUME NEW d \in Cohort
          PROVE  /\ stage'[d] \in {"fresh", "open"} => watch'[d] = "none"
                 /\ d \in Keys(fundingWatches') => watch'[d] # "none"
                 /\ watch'[d] \in Polling => HandleEvictable(d)'
        <3>1. stage'[d] \in {"fresh", "open"} => watch'[d] = "none"
            BY <1>1, <1>2 DEF HandleInv
        <3>2. d \in Keys(fundingWatches') => watch'[d] # "none"
            BY <1>1, <1>2 DEF HandleInv
        <3>3. watch'[d] \in Polling => HandleEvictable(d)
            BY <1>1, <1>2 DEF HandleInv
        <3> QED BY <1>3, <3>1, <3>2, <3>3
    <2> QED BY <1>1, <1>2, <2>1 DEF HandleInv
<1>5. ReleasedStaysReleased'
    BY <1>1, <1>2, <1>3 DEF ReleasedStaysReleased, Ends
<1> QED BY <1>4, <1>5 DEF WatchInv

\* Every step keeps the handles honest, one case per action.
LEMMA NextWatchInv == Inv /\ WatchInv /\ [Next]_vars => WatchInv'
<1> SUFFICES ASSUME Inv, WatchInv, [Next]_vars PROVE WatchInv'
    OBVIOUS
<1>0. TypeOK /\ StampInv /\ SwitchInv /\ HandleInv
    BY DEF Inv, WatchInv
<1>1. ASSUME NEW c \in Cohort, Advertise(c) PROVE WatchInv'
    <2>1. Keys(advertisedAt') \subseteq Keys(advertisedAt) \cup {c}
        BY <1>0, <1>1, Advertised
    <2> QED BY <1>0, <1>1, <2>1, CalmStep DEF Advertise, TypeOK, HandleInv
<1>2. ASSUME NEW c \in Cohort, KeygenComplete(c) PROVE WatchInv'
    BY <1>0, <1>2, KeygenWatch
<1>3. ASSUME NEW c \in Cohort, ProvideTxData(c) PROVE WatchInv'
    BY <1>0, <1>3, CalmStep DEF ProvideTxData, tables, TypeOK, HandleInv, Underway
<1>4. ASSUME NEW c \in Cohort, TxDataReady(c) PROVE WatchInv'
    BY <1>0, <1>4, CalmStep DEF TxDataReady, tables, TypeOK, HandleInv, Underway
<1>5. ASSUME NEW c \in Cohort, SigningComplete(c) PROVE WatchInv'
    BY <1>0, <1>5, ReleaseCalm DEF SigningComplete, Underway
<1>6. ASSUME NEW c \in Cohort, CohortFailed(c) PROVE WatchInv'
    <2>1. CASE c \in Keys(fundingWatches)
        BY <1>0, <1>6, <2>1, ReleaseCalm DEF CohortFailed
    <2>2. CASE c \notin Keys(fundingWatches)
        BY <1>0, <1>6, <2>2, CalmStep DEF CohortFailed, tables, TypeOK, HandleInv, Ends
    <2> QED BY <2>1, <2>2
<1>7. ASSUME NEW c \in Cohort, CancelCohort(c) PROVE WatchInv'
    BY <1>0, <1>7, ReleaseCalm DEF CancelCohort
<1>8. ASSUME NEW c \in Cohort, WindowExpires(c) PROVE WatchInv'
    BY <1>0, <1>8, CalmStep DEF WindowExpires, tables, TypeOK, HandleInv, Ends
<1>9. ASSUME NEW c \in Cohort, WatchTick(c) PROVE WatchInv'
    <2>1. /\ \A d \in Cohort : watch[d] # "none" <=> watch'[d] # "none"
          /\ \A d \in Cohort : watch'[d] \in Polling => watch[d] \in Polling
        BY <1>0, <1>9 DEF WatchTick, TypeOK, Polling
    <2> QED BY <1>0, <1>9, <2>1, CalmStep DEF WatchTick, tables, HandleInv
<1>10. ASSUME NEW c \in Cohort, NEW funded \in BOOLEAN, WatchAnswer(c, funded)
       PROVE  WatchInv'
    <2>1. /\ lastFundingView \in Seq(Entry) /\ Len(lastFundingView) <= MaxEntries
          /\ Distinct(lastFundingView)
        BY <1>0 DEF TypeOK, Entry, HandleInv
    <2>2. /\ Distinct(lastFundingView')
          /\ Keys(lastFundingView') \subseteq
                Keys(lastFundingView) \cup (IF watch[c] = "reading" THEN {c} ELSE {})
        BY <1>10, <2>1, EntryTables DEF WatchAnswer
    <2>3. /\ \A d \in Cohort : watch[d] # "none" <=> watch'[d] # "none"
          /\ \A d \in Cohort : watch'[d] \in Polling => watch[d] \in Polling
          /\ UNCHANGED <<stage, stopped, advertisedAt, fundingWatches>>
        BY <1>0, <1>10 DEF WatchAnswer, TypeOK, Polling
    <2>4. \A d \in Cohort : d \in Keys(lastFundingView') =>
              d \in Keys(lastFundingView) \/ watch[d] \in Polling
        BY <2>2 DEF Polling
    <2> QED BY <1>0, <2>2, <2>3, <2>4, CalmStep
<1>11. CASE DisableBroadcast
    BY <1>0, <1>11, CalmStep DEF DisableBroadcast, tables, HandleInv
<1>12. CASE StopService
    BY <1>0, <1>12, StopWatch
<1>13. CASE UNCHANGED vars
    BY <1>0, <1>13, CalmStep DEF vars, tables, HandleInv
<1> QED
    BY <1>1, <1>2, <1>3, <1>4, <1>5, <1>6, <1>7, <1>8, <1>9, <1>10, <1>11,
       <1>12, <1>13 DEF Next, RunnerStep, WatchStep

\* The handles and the watches tell one story in every reachable state.
THEOREM WatchInvariant == Spec => []WatchInv
BY InitWatchInv, NextWatchInv, WiringInvariant, PTL DEF Spec

\* No watch polls on after its cohort is over, except where no listener runs
\* for the end or its handle was pushed out of the table
\* (releaseCohortTables, stop(), the keygen-complete listener).
THEOREM WatchesAlwaysEnd == Spec => []WatchesEnd
<1>1. WatchInv => WatchesEnd
    BY DEF WatchInv, HandleInv, WatchesEnd
<1> QED BY <1>1, WatchInvariant, PTL

\* A cohort that was released leaves no entry behind, and the answer of a read
\* that was in flight brings none back (createFundingWatch after the await).
THEOREM ReleaseIsFinal == Spec => []ReleasedStaysReleased
<1>1. WatchInv => ReleasedStaysReleased
    BY DEF WatchInv
<1> QED BY <1>1, WatchInvariant, PTL
====

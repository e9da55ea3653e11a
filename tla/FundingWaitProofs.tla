---- MODULE FundingWaitProofs ----
(***************************************************************************)
(* Proofs about FundingWait, for any payments, windows, TTLs, timers and   *)
(* poll interval that fit into the slack: the wait is over before the      *)
(* cohort TTL can fire, the readers of the address judge one output by one *)
(* predicate, and "funding never arrived" is only said where it is so.     *)
(***************************************************************************)
EXTENDS FundingWait, BoundedMapProofs

\* The clock, the configuration and the wait keep their types.
TimeTypes ==
    /\ now \in Nat
    /\ boot \in LiveTxConfig
    /\ wait \in [step : {"off", "reading", "sleeping", "building", "over"}, start : Nat,
                 deadline : Nat \cup {None}, ok : BOOLEAN, due : Nat]

\* A wait never outlives the moment its read is answered or its sleep ends.
NeverOverdue == Waiting => now <= wait.due

\* Under a TTL the window is a number that ends the slack before it, the last
\* read begins inside the window, and the last sleep follows that read.
InsideTheClamp ==
    Waiting /\ boot.ttl # None =>
        /\ wait.deadline \in Nat
        /\ wait.start + wait.deadline + Slack <= boot.ttl
        /\ wait.step = "reading" => wait.due < wait.start + wait.deadline + ReadMax
        /\ wait.step = "sleeping" => wait.due < wait.start + wait.deadline + ReadMax + Poll

TimeInv == TimeTypes /\ NeverOverdue /\ InsideTheClamp

-----------------------------------------------------------------------------
\* The deadline is one of its legs, and no longer than any of them: what
\* computeFundingDeadline promises of the clamp.
LEMMA DeadlineIsClamped ==
    ASSUME TimeTypes
    PROVE  /\ computeFundingDeadline \in Nat \cup {None}
           /\ boot.ttl # None =>
                 /\ computeFundingDeadline \in Nat
                 /\ computeFundingDeadline > 0 =>
                       now + computeFundingDeadline + Slack <= boot.ttl
<1> USE MoneyAssumption, TimeAssumption
<1> DEFINE legs == windowLeg \cup ttlLeg
<1>1. fundingWindow \in Nat \cup {None}
  BY DEF TimeTypes, LiveTxConfig, fundingWindow
<1>2. windowLeg \subseteq Nat
  BY <1>1 DEF windowLeg
<1>3. boot.ttl \in Nat \cup {None}
  BY DEF TimeTypes, LiveTxConfig
<1>4. CASE boot.ttl = None
  <2>1. ttlLeg = {}
    BY <1>4 DEF ttlLeg, remainingTtl
  <2>2. CASE fundingWindow = None
    BY <1>4, <2>1, <2>2 DEF computeFundingDeadline, windowLeg
  <2>3. CASE fundingWindow # None
    <3>1. legs = {fundingWindow}
      BY <2>1, <2>3 DEF windowLeg
    <3>2. Shortest(legs) = fundingWindow
      BY <1>1, <2>3, <3>1 DEF Shortest
    <3> QED BY <1>1, <1>4, <3>1, <3>2 DEF computeFundingDeadline
  <2> QED BY <2>2, <2>3
<1>5. CASE boot.ttl # None
  <2> DEFINE left == boot.ttl - now
             leg == IF left > Slack THEN left - Slack ELSE 0
  <2>1. boot.ttl \in Nat /\ now \in Nat /\ left \in Int
    BY <1>3, <1>5 DEF TimeTypes
  <2>2. leg \in Nat
    BY <2>1
  <2>3. ttlLeg = {leg}
    BY <1>5, <2>1 DEF ttlLeg, remainingTtl
  <2>4. \E l \in legs : \A m \in legs : l <= m
    <3>1. CASE fundingWindow = None
      <4>1. legs = {leg}
        BY <2>3, <3>1 DEF windowLeg
      <4> QED BY <2>2, <4>1
    <3>2. CASE fundingWindow # None
      <4>1. legs = {fundingWindow, leg} /\ fundingWindow \in Nat
        BY <1>1, <2>3, <3>2 DEF windowLeg
      <4>2. fundingWindow <= leg \/ leg <= fundingWindow
        BY <2>2, <4>1
      <4> HIDE DEF legs, leg
      <4> QED BY <2>2, <4>1, <4>2
    <3> QED BY <3>1, <3>2
  <2> DEFINE d == Shortest(legs)
  <2>5. d \in legs /\ (\A m \in legs : d <= m)
    <3> HIDE DEF legs
    <3> QED BY <2>4 DEF Shortest
  <2>6. d \in Nat
    BY <1>2, <2>2, <2>3, <2>5
  <2>7. computeFundingDeadline = d
    BY <2>5 DEF computeFundingDeadline
  <2>8. d <= leg
    BY <2>3, <2>5
  <2>9. d > 0 => now + d + Slack <= boot.ttl
    <3> HIDE DEF d
    <3> QED BY <2>1, <2>6, <2>8
  <2> QED BY <1>5, <2>6, <2>7, <2>9
<1> QED BY <1>3, <1>4, <1>5

-----------------------------------------------------------------------------
\* Initially nobody waits.
LEMMA InitTime == Init => TimeInv
<1> SUFFICES ASSUME Init PROVE TimeInv
  OBVIOUS
<1>1. TimeTypes
  BY MoneyAssumption, TimeAssumption DEF Init, TimeTypes
<1>2. ~Waiting
  BY DEF Init, Waiting
<1> QED BY <1>1, <1>2 DEF TimeInv, NeverOverdue, InsideTheClamp

\* What every other step does to the wait: nothing, or end it.
Keeps ==
    /\ now' = now /\ boot' = boot
    /\ \/ wait' = wait
       \/ \E step \in {"building", "over"} : wait' = [wait EXCEPT !.step = step]

\* A step that leaves the wait alone or ends it keeps the invariant.
LEMMA KeepsTime ==
    ASSUME TimeInv, Keeps
    PROVE  TimeInv'
<1> USE DEF TimeInv, TimeTypes, NeverOverdue, InsideTheClamp, Waiting
<1>1. CASE wait' = wait
  BY <1>1 DEF Keeps
<1>2. CASE \E step \in {"building", "over"} : wait' = [wait EXCEPT !.step = step]
  <2>1. TimeTypes'
    BY <1>2 DEF Keeps
  <2>2. ~Waiting'
    BY <1>2
  <2> QED BY <2>1, <2>2
<1> QED BY <1>1, <1>2 DEF Keeps

\* Every step keeps the invariant.
LEMMA NextTime == TimeInv /\ [Next]_vars => TimeInv'
<1> SUFFICES ASSUME TimeInv, [Next]_vars PROVE TimeInv'
  OBVIOUS
<1> USE MoneyAssumption, TimeAssumption
<1>1. CASE Tick
  <2>1. TimeTypes'
    BY <1>1 DEF Tick, TimeInv, TimeTypes
  <2>2. NeverOverdue'
    BY <1>1 DEF Tick, TimeInv, TimeTypes, NeverOverdue, Waiting
  <2>3. InsideTheClamp'
    BY <1>1 DEF Tick, TimeInv, InsideTheClamp, Waiting
  <2> QED BY <2>1, <2>2, <2>3 DEF TimeInv
<1>2. CASE ProvideAfterWait
  <2> DEFINE w == [step |-> "reading", start |-> now, deadline |-> computeFundingDeadline,
                   ok |-> FALSE, due |-> now + ReadMax]
  <2>1. /\ now' = now /\ boot' = boot /\ now \in Nat /\ boot \in LiveTxConfig
        /\ boot.ttl \in Nat \cup {None}
    BY <1>2 DEF ProvideAfterWait, TimeInv, TimeTypes, LiveTxConfig
  <2>2. /\ computeFundingDeadline \in Nat \cup {None}
        /\ boot.ttl # None =>
              /\ computeFundingDeadline \in Nat
              /\ computeFundingDeadline > 0 =>
                    now + computeFundingDeadline + Slack <= boot.ttl
    BY DeadlineIsClamped DEF TimeInv
  <2>3. CASE ~WithinWindow(w)
    <3>1. wait' = [w EXCEPT !.step = "over", !.due = now]
      BY <1>2, <2>3 DEF ProvideAfterWait
    <3>2. TimeTypes'
      BY <2>1, <2>2, <3>1 DEF TimeTypes
    <3>3. ~Waiting'
      BY <3>1 DEF Waiting
    <3> QED BY <3>2, <3>3 DEF TimeInv, NeverOverdue, InsideTheClamp
  <2>4. CASE WithinWindow(w)
    <3>1. wait' = w
      BY <1>2, <2>4 DEF ProvideAfterWait
    <3> HIDE DEF w
    <3>2. /\ w.step = "reading" /\ w.start = now /\ w.deadline = computeFundingDeadline
          /\ w.due = now + ReadMax /\ w.ok = FALSE
      BY DEF w
    <3>3. TimeTypes'
      BY <2>1, <2>2, <3>1 DEF TimeTypes, w
    <3>4. NeverOverdue'
      BY <2>1, <3>1, <3>2 DEF NeverOverdue
    <3>5. boot.ttl # None => computeFundingDeadline > 0
      BY <2>1, <2>2, <2>4, <3>2 DEF WithinWindow
    <3>6. InsideTheClamp'
      BY <2>1, <2>2, <3>1, <3>2, <3>5 DEF InsideTheClamp
    <3> QED BY <3>3, <3>4, <3>6 DEF TimeInv
  <2> QED BY <2>3, <2>4
<1>3. ASSUME NEW ok \in BOOLEAN, WaitAnswer(ok) PROVE TimeInv'
  <2>1. CASE wait' = Sleeping(wait, ok)
    <3>1. wait.step = "reading" /\ now' = now /\ boot' = boot
      BY <1>3 DEF WaitAnswer
    <3>0. now + Poll \in Nat
      BY DEF TimeInv, TimeTypes
    <3>2. TimeTypes'
      <4> DEFINE due == now + Poll
      <4>1. due \in Nat /\ wait' = [wait EXCEPT !.step = "sleeping", !.ok = ok, !.due = due]
        BY <2>1, <3>0 DEF Sleeping
      <4> HIDE DEF due
      <4> QED BY <3>1, <4>1, <1>3 DEF TimeInv, TimeTypes
    <3>3. NeverOverdue'
      BY <2>1, <3>1 DEF TimeInv, TimeTypes, NeverOverdue, Sleeping
    <3>4. now <= wait.due /\ wait.due \in Nat /\ now \in Nat /\ wait.start \in Nat
      BY <3>1 DEF TimeInv, TimeTypes, NeverOverdue, Waiting
    <3>5. /\ wait'.start = wait.start /\ wait'.deadline = wait.deadline
          /\ wait'.step = "sleeping" /\ wait'.due = now + Poll
      BY <2>1 DEF TimeInv, TimeTypes, Sleeping
    <3>6. InsideTheClamp'
      BY <3>1, <3>4, <3>5 DEF TimeInv, InsideTheClamp, Waiting
    <3> QED BY <3>2, <3>3, <3>6 DEF TimeInv
  <2>2. CASE ~(wait' = Sleeping(wait, ok))
    <3>1. Keeps
      BY <1>3, <2>2 DEF WaitAnswer, Throws, Keeps
    <3> QED BY <3>1, KeepsTime
  <2> QED BY <2>1, <2>2
<1>4. CASE WaitWake
  <2>1. CASE WithinWindow(wait) /\ ~stopped
    <3>1. /\ wait.step = "sleeping" /\ now' = now /\ boot' = boot
          /\ wait' = Reading(wait) /\ now = wait.due
      BY <1>4, <2>1 DEF WaitWake
    <3>2. TimeTypes'
      <4> DEFINE due == now + ReadMax
      <4>1. due \in Nat /\ wait' = [wait EXCEPT !.step = "reading", !.due = due]
        BY <3>1 DEF Reading, TimeInv, TimeTypes
      <4> HIDE DEF due
      <4> QED BY <3>1, <4>1 DEF TimeInv, TimeTypes
    <3>3. /\ wait'.start = wait.start /\ wait'.deadline = wait.deadline
          /\ wait'.step = "reading" /\ wait'.due = now + ReadMax
      BY <3>1 DEF TimeInv, TimeTypes, Reading
    <3>4. NeverOverdue'
      BY <3>1, <3>3 DEF TimeInv, TimeTypes, NeverOverdue
    <3>5. InsideTheClamp'
      BY <2>1, <3>1, <3>3 DEF TimeInv, TimeTypes, InsideTheClamp, Waiting, WithinWindow
    <3> QED BY <3>2, <3>4, <3>5 DEF TimeInv
  <2>2. CASE ~(WithinWindow(wait) /\ ~stopped)
    <3>1. Keeps
      BY <1>4, <2>2 DEF WaitWake, Throws, Keeps
    <3> QED BY <3>1, KeepsTime
  <2> QED BY <2>1, <2>2
<1>5. CASE \/ \E d \in Deposit : Pay(d)
           \/ \E d \in Deposit \cup {Change} : Confirm(d)
           \/ KeygenComplete \/ WatchWake \/ ProvideFixture \/ SigningComplete \/ Publish
           \/ TtlFires \/ PhaseTimerFires \/ CancelCohort \/ Stop
           \/ \E ok \in BOOLEAN : WatchAnswer(ok)
           \/ UNCHANGED vars
  <2>1. Keeps
    BY <1>5 DEF Pay, Confirm, KeygenComplete, WatchWake, ProvideFixture, SigningComplete,
        Publish, TtlFires, PhaseTimerFires, CancelCohort, Stop, WatchAnswer, Entering, vars, Keeps
  <2> QED BY <2>1, KeepsTime
<1>6. ASSUME NEW ok \in BOOLEAN, ProvideSingleShot(ok) \/ Build(ok) PROVE TimeInv'
  <2>1. Keeps
    BY <1>6 DEF ProvideSingleShot, Build, Throws, Keeps
  <2> QED BY <2>1, KeepsTime
<1> QED BY <1>1, <1>2, <1>3, <1>4, <1>5, <1>6 DEF Next

-----------------------------------------------------------------------------
\* In every reachable state the wait is typed, within its read or sleep, and
\* inside the clamp.
THEOREM TimeInvariant == Spec => []TimeInv
BY InitTime, NextTime, PTL DEF Spec

\* The wait's own reason always beats the cohort TTL, for every window, TTL,
\* poll interval and read latency that fit into the slack (tx.ts,
\* waitForFunding and the clamp of computeFundingDeadline).
THEOREM TheWaitBeatsTheTtl == Spec => []WaitOutrunsTheTtl
<1>1. TimeInv => WaitOutrunsTheTtl
  <2> SUFFICES ASSUME TimeInv, Waiting, boot.ttl # None PROVE now < boot.ttl
    BY DEF WaitOutrunsTheTtl
  <2>a. boot.ttl \in Nat
    BY TimeAssumption DEF TimeInv, TimeTypes, LiveTxConfig
  <2>b. now \in Nat /\ wait.due \in Nat /\ wait.start \in Nat
    BY DEF TimeInv, TimeTypes
  <2>1. /\ now \in Nat /\ wait.due \in Nat /\ wait.start \in Nat /\ boot.ttl \in Nat
        /\ wait.deadline \in Nat
    BY <2>a, <2>b DEF TimeInv, InsideTheClamp
  <2>2. wait.due < wait.start + wait.deadline + ReadMax + Poll
    BY <2>1, TimeAssumption DEF TimeInv, InsideTheClamp, Waiting
  <2>3. now <= wait.due /\ wait.start + wait.deadline + Slack <= boot.ttl
    BY DEF TimeInv, NeverOverdue, InsideTheClamp
  <2> QED BY <2>1, <2>2, <2>3, SlackAssumption, TimeAssumption
<1> QED BY <1>1, TimeInvariant, PTL

-----------------------------------------------------------------------------
(* The deepest output *)

\* The one funding predicate, case by case.
LEMMA PredicateCases ==
    ASSUME NEW utxos, NEW unconfirmed,
           Spendable(utxos) # {} => Sats[Selected(utxos)] \in Nat
    PROVE  /\ classifyFunding(utxos, unconfirmed) = "funded" <=>
                 Spendable(utxos) # {} /\ Sats[Selected(utxos)] >= computeSuggestedMinSats
           /\ classifyFunding(utxos, unconfirmed) = "dead-end" <=>
                 Spendable(utxos) # {} /\ Sats[Selected(utxos)] < computeSuggestedMinSats
           /\ classifyFunding(utxos, unconfirmed) \in
                 {"waiting", "awaiting-confirmation", "funded", "dead-end"}
<1>1. computeSuggestedMinSats \in Nat
  BY MoneyAssumption DEF computeSuggestedMinSats
<1> DEFINE paid == Spendable(utxos) # {}
           sats == Sats[Selected(utxos)]
<1>2. CASE ~paid
  BY <1>2 DEF classifyFunding
<1>3. CASE paid
  <2>1. sats \in Nat
    BY <1>3
  <2>2. classifyFunding(utxos, unconfirmed) =
            IF sats < computeSuggestedMinSats THEN "dead-end" ELSE "funded"
    BY <1>3 DEF classifyFunding
  <2> HIDE DEF sats
  <2>3. sats >= computeSuggestedMinSats <=> ~(sats < computeSuggestedMinSats)
    BY <1>1, <2>1
  <2> QED BY <1>3, <2>2, <2>3 DEF sats
<1> QED BY <1>2, <1>3

Utxos == Seq(Deposit \cup {Change})

\* The selected output is one of the address's, and the deepest that counts.
LEMMA DeepestSelected ==
    ASSUME NEW utxos \in Utxos, Spendable(utxos) # {}
    PROVE  \E i \in Spendable(utxos) :
              /\ \A j \in Spendable(utxos) : i <= j
              /\ Selected(utxos) = utxos[i]
              /\ Selected(utxos) \in Deposit \cup {Change} /\ Sats[Selected(utxos)] \in Nat
<1> DEFINE Least(i) == \A j \in Spendable(utxos) : i <= j
           first == CHOOSE i \in Spendable(utxos) : Least(i)
<1>1. Spendable(utxos) \in SUBSET Nat /\ Spendable(utxos) \subseteq DOMAIN utxos
  BY DEF Spendable, Utxos
<1>2. \E i \in Spendable(utxos) : Least(i)
  BY <1>1, LeastIndex
<1>3. first \in Spendable(utxos) /\ Least(first)
  BY <1>2
<1>4. Selected(utxos) = utxos[first]
  BY DEF Selected
<1>5. utxos[first] \in Deposit \cup {Change}
  BY <1>1, <1>3 DEF Utxos
<1>6. Sats[utxos[first]] \in Nat
  BY <1>5, MoneyAssumption
<1> HIDE DEF first
<1> QED BY <1>3, <1>4, <1>5, <1>6

\* A payment that confirms is the shallowest: it never takes the place of the
\* selected output, however much it is worth.
LEMMA DeepestStays ==
    ASSUME NEW utxos \in Utxos, NEW d \in Deposit \cup {Change}, Spendable(utxos) # {}
    PROVE  /\ Spendable(Append(utxos, d)) # {}
           /\ Selected(Append(utxos, d)) = Selected(utxos)
<1> DEFINE more == Append(utxos, d)
<1>1. /\ more \in Utxos /\ DOMAIN utxos = 1 .. Len(utxos) /\ Len(utxos) \in Nat
      /\ DOMAIN more = 1 .. Len(utxos) + 1
      /\ \A i \in DOMAIN utxos : more[i] = utxos[i]
  BY DEF Utxos
<1>2. PICK i \in Spendable(utxos) : /\ \A j \in Spendable(utxos) : i <= j
                                    /\ Selected(utxos) = utxos[i]
  BY DeepestSelected
<1>3. i \in DOMAIN utxos /\ i \in 1 .. Len(utxos)
  BY <1>1 DEF Spendable
<1> HIDE DEF more
<1>4. i \in Spendable(more)
  BY <1>1, <1>2, <1>3 DEF Spendable
<1>5. PICK k \in Spendable(more) : /\ \A j \in Spendable(more) : k <= j
                                   /\ Selected(more) = more[k]
  BY <1>1, <1>4, DeepestSelected
<1>6. k \in 1 .. Len(utxos) + 1 /\ k <= i
  BY <1>1, <1>4, <1>5 DEF Spendable
<1>7. k \in DOMAIN utxos
  BY <1>1, <1>3, <1>6
<1>8. k \in Spendable(utxos)
  BY <1>1, <1>5, <1>7 DEF Spendable
<1>9. k = i
  BY <1>1, <1>2, <1>3, <1>6, <1>8
<1> QED BY <1>1, <1>3, <1>4, <1>2, <1>5, <1>9 DEF more

\* So a verdict on the confirmed money stands while the address only gains.
Settled == {"funded", "dead-end"}

LEMMA SettledStays ==
    ASSUME NEW utxos \in Utxos, NEW d \in Deposit \cup {Change}, NEW before, NEW after,
           classifyFunding(utxos, before) \in Settled
    PROVE  classifyFunding(Append(utxos, d), after) = classifyFunding(utxos, before)
<1>1. Append(utxos, d) \in Utxos
  BY DEF Utxos
<1>2. \A u \in Utxos : Spendable(u) # {} => Sats[Selected(u)] \in Nat
  BY DeepestSelected
<1>3. Spendable(utxos) # {}
  BY <1>2, PredicateCases DEF Settled
<1>4. /\ Spendable(Append(utxos, d)) # {}
      /\ Selected(Append(utxos, d)) = Selected(utxos)
  BY <1>3, DeepestStays
<1> QED BY <1>1, <1>2, <1>3, <1>4, PredicateCases DEF Settled

-----------------------------------------------------------------------------
(* What the loops say of the address *)

Waits == {"reading", "sleeping", "building"}

\* One cohort, one wait, one verdict: what it throws it throws at its end, what
\* is built is built by it, and nothing is spent before both are past.
WaitInv ==
    /\ verdict # "none" => wait.step = "over"
    /\ stage \in {"advertised", "keyed"} => wait.step = "off" /\ plan = None
    /\ wait.step \in Waits \/ verdict # "none" => plan = None
    /\ stage \in {"signed", "published"} =>
          plan # None /\ watch \notin {"reading", "sleeping"}

\* Until the beacon transaction spends from it the address only gains, and each
\* reader that settled on a verdict is still right.
ChainInv ==
    stage # "published" =>
        /\ chain \in Utxos
        /\ view.state \in Settled => Classified = view.state
        /\ wait.step = "building" => Classified = "funded"
        /\ verdict = "dead-end" => Classified = "dead-end"
        /\ plan \notin {None, "fixture"} => Classified = "funded"
        /\ fundedAt # None => Classified = "funded"

\* What is built spends an output that meets the ask.
PlanInv ==
    plan \notin {None, "fixture"} =>
        /\ Sats[plan] \in Nat /\ Sats[plan] >= computeSuggestedMinSats
        /\ view.state # "dead-end"

ViewTyped == view \in [state : {"none", "waiting", "awaiting-confirmation"} \cup Settled,
                       stale : BOOLEAN, terminal : {"none", "blind-lapse", "window-closed"}]

AddressInv == ViewTyped /\ WaitInv /\ ChainInv /\ PlanInv

\* What a step does to the loops and to the address before the money is spent.
Gains ==
    \/ chain' = chain
    \/ \E d \in Deposit \cup {Change} : chain' = Append(chain, d)

LEMMA GainsSettle ==
    ASSUME AddressInv, stage # "published", Gains, Classified \in Settled
    PROVE  Classified' = Classified
<1>1. chain \in Utxos
  BY DEF AddressInv, ChainInv
<1>2. \A u \in Utxos : Spendable(u) # {} => Sats[Selected(u)] \in Nat
  BY DeepestSelected
<1>3. CASE chain' = chain
  <2>1. Classified' = classifyFunding(chain, mempool')
    BY <1>3 DEF Classified
  <2>2. Classified = classifyFunding(chain, mempool)
    BY DEF Classified
  <2> QED BY <1>1, <1>2, <2>1, <2>2, PredicateCases DEF Settled
<1>4. ASSUME NEW d \in Deposit \cup {Change}, chain' = Append(chain, d)
      PROVE  Classified' = Classified
  BY <1>1, <1>4, SettledStays DEF Classified
<1> QED BY <1>3, <1>4 DEF Gains

\* The fold of a failure leaves what the view says of the money.
LEMMA FoldKeepsState ==
    ASSUME ViewTyped, FoldTerminal
    PROVE  ViewTyped' /\ view'.state = view.state
BY DEF FoldTerminal, ViewTyped

\* A step under which nobody learns anything: the readers keep what they said,
\* the address may gain.
Hush ==
    /\ Gains /\ ViewTyped' /\ view'.state = view.state
    /\ UNCHANGED <<plan, fundedAt>>
    /\ verdict' = "dead-end" => verdict = "dead-end"
    /\ wait'.step = "building" => wait.step = "building"
    /\ stage' = "published" => stage = "published"

LEMMA HushKeeps ==
    ASSUME AddressInv, Hush, stage = "published" => stage' = "published"
    PROVE  ViewTyped' /\ ChainInv' /\ PlanInv'
<1>1. ViewTyped' /\ PlanInv'
  BY DEF Hush, AddressInv, PlanInv, computeSuggestedMinSats
<1>2. ASSUME stage' # "published"
      PROVE  ChainInv'
  <2>1. stage # "published"
    BY <1>2
  <2>2. chain' \in Utxos
    BY <2>1 DEF AddressInv, ChainInv, Hush, Gains, Utxos
  <2>3. Classified \in Settled => Classified' = Classified
    BY <2>1, GainsSettle DEF Hush
  <2> QED BY <2>1, <2>2, <2>3 DEF ChainInv, Hush, AddressInv, Settled
<1> QED BY <1>1, <1>2 DEF ChainInv

\* The steps that leave wait, verdict, plan and the address alone.
LEMMA QuietSteps ==
    ASSUME AddressInv,
           \/ \E d \in Deposit : Pay(d)
           \/ Tick \/ KeygenComplete \/ WatchWake
           \/ TtlFires \/ PhaseTimerFires \/ CancelCohort \/ Stop \/ SigningComplete
           \/ UNCHANGED vars
    PROVE  AddressInv'
<1>1. ViewTyped /\ WaitInv
  BY DEF AddressInv
<1>2. UNCHANGED <<wait, verdict, plan, chain, fundedAt>>
  BY DEF Pay, Tick, KeygenComplete, WatchWake, TtlFires, PhaseTimerFires, CancelCohort,
     Stop, SigningComplete, Fail, vars, address, runner
<1>3. /\ stage' = "published" <=> stage = "published"
      /\ stage' = stage \/ (stage' = "keyed" /\ stage = "advertised") \/ stage' = "failed"
         \/ (stage' = "signed" /\ plan # None)
  BY DEF Pay, Tick, KeygenComplete, WatchWake, TtlFires, PhaseTimerFires, CancelCohort,
     Stop, SigningComplete, Fail, vars, runner, Unsigned
<1>4. ViewTyped' /\ view'.state = view.state
  BY <1>1, FoldKeepsState DEF Pay, Tick, KeygenComplete, WatchWake, TtlFires, PhaseTimerFires,
     CancelCohort, Stop, SigningComplete, Fail, vars, display, ViewTyped
<1>5. stage' \in {"signed", "published"} => watch' \notin {"reading", "sleeping"}
  BY <1>1 DEF WaitInv, Pay, Tick, KeygenComplete, WatchWake, TtlFires, PhaseTimerFires,
     CancelCohort, Stop, SigningComplete, Fail, ReleaseWatch, vars, display, runner, Unsigned
<1>6. WaitInv'
  BY <1>1, <1>2, <1>3, <1>5 DEF WaitInv
<1> QED BY <1>2, <1>3, <1>4, <1>6, HushKeeps DEF Hush, Gains, AddressInv

\* A payment confirms.
LEMMA ConfirmKeeps ==
    ASSUME AddressInv, NEW d \in Deposit \cup {Change}, Confirm(d)
    PROVE  AddressInv'
<1>1. /\ UNCHANGED <<stage, watch, view, plan, wait, verdict>> /\ chain' = Append(chain, d)
  BY DEF Confirm, runner, display
<1>2. ViewTyped' /\ WaitInv' /\ PlanInv'
  BY <1>1 DEF AddressInv, ViewTyped, WaitInv, PlanInv, computeSuggestedMinSats
<1>3. ASSUME stage # "published" PROVE ChainInv'
  <2>1. chain' \in Utxos
    BY <1>1, <1>3 DEF AddressInv, ChainInv, Utxos
  <2>2. Classified \in Settled => Classified' = Classified
    BY <1>1, <1>3, GainsSettle DEF Gains
  <2>3. fundedAt' # None => Classified' = "funded"
    <3>1. fundedAt # None => Classified' = "funded"
      BY <1>3, <2>2 DEF AddressInv, ChainInv, Settled
    <3>2. fundedAt = None /\ fundedAt' # None => Classified' = "funded"
      BY DEF Confirm, Classified
    <3> QED BY <3>1, <3>2
  <2> QED BY <1>1, <1>3, <2>1, <2>2, <2>3 DEF AddressInv, ChainInv, Settled
<1> QED BY <1>1, <1>2, <1>3 DEF AddressInv, ChainInv

\* The display watch reports what it reads, or what it last knew.
LEMMA WatchKeeps ==
    ASSUME AddressInv, NEW ok \in BOOLEAN, WatchAnswer(ok)
    PROVE  AddressInv'
<1>1. UNCHANGED <<stage, chain, mempool, fundedAt, plan, wait, verdict>>
  BY DEF WatchAnswer, address, runner
<1>2. CASE watch = "aborted" /\ watch' = "done" /\ UNCHANGED view
  <2>1. ViewTyped' /\ WaitInv' /\ Hush
    BY <1>1, <1>2 DEF AddressInv, ViewTyped, WaitInv, Hush, Gains
  <2> QED BY <1>1, <2>1, HushKeeps DEF AddressInv
<1>3. CASE watch = "reading" /\ WatchReports(ok)
  <2>1. stage \notin {"signed", "published"} /\ chain \in Utxos
    BY <1>3 DEF AddressInv, WaitInv, ChainInv
  <2>2. Classified \in {"waiting", "awaiting-confirmation"} \cup Settled
    BY <2>1, PredicateCases, DeepestSelected DEF Classified, Settled
  <2>3. \/ view'.state = Classified \/ view'.state = view.state
        \/ view'.state = "waiting"
    BY <1>3 DEF WatchReports
  <2>4. ViewTyped'
    <3>1. view.state \in {"none", "waiting", "awaiting-confirmation"} \cup Settled
      BY DEF AddressInv, ViewTyped
    <3> QED BY <1>3, <2>2, <3>1 DEF WatchReports, ViewTyped
  <2>5. Classified' = Classified
    BY <1>1 DEF Classified
  <2>6. WaitInv'
    BY <1>1, <2>1 DEF AddressInv, WaitInv
  <2>7. ChainInv'
    BY <1>1, <2>1, <2>3, <2>5 DEF AddressInv, ChainInv, Settled
  <2>8. PlanInv'
    BY <1>1, <2>1, <2>3 DEF AddressInv, ChainInv, PlanInv, computeSuggestedMinSats
  <2> QED BY <2>4, <2>6, <2>7, <2>8 DEF AddressInv
<1> QED BY <1>2, <1>3 DEF WatchAnswer

\* The wait ends with an error, or the cohort fails under it.
LEMMA ThrowKeeps ==
    ASSUME AddressInv, NEW why, wait.step \in Waits, Throws(why), why # "none",
           why = "dead-end" => Classified = "dead-end",
           wait \in [step : {"off", "reading", "sleeping", "building", "over"}, start : Nat,
                     deadline : Nat \cup {None}, ok : BOOLEAN, due : Nat],
           UNCHANGED <<chain, mempool, fundedAt, plan>>
    PROVE  AddressInv'
<1>1. /\ wait'.step = "over" /\ verdict' = why /\ plan = None /\ stage \notin {"signed", "published"}
  BY DEF Throws, AddressInv, WaitInv, Waits
<1>2. /\ stage' = stage \/ stage' = "failed"
      /\ ViewTyped' /\ view'.state = view.state
  BY FoldKeepsState DEF Throws, Fail, AddressInv, ViewTyped
<1>3. stage \notin {"advertised", "keyed"}
  BY DEF AddressInv, WaitInv, Waits
<1>4. WaitInv'
  BY <1>1, <1>2, <1>3 DEF WaitInv, Waits
<1>5. Classified' = Classified
  BY DEF Classified
<1>6. ChainInv' /\ PlanInv'
  BY <1>1, <1>2, <1>5 DEF AddressInv, ChainInv, PlanInv
<1> QED BY <1>2, <1>4, <1>6 DEF AddressInv

\* onProvideTxData starts: the fixture, the single look, or the wait.
LEMMA ProvideKeeps ==
    ASSUME AddressInv, TimeTypes,
           \/ ProvideFixture \/ ProvideAfterWait
           \/ \E ok \in BOOLEAN : ProvideSingleShot(ok)
    PROVE  AddressInv'
<1>1. /\ stage = "keyed" /\ wait.step = "off" /\ plan = None /\ verdict = "none"
      /\ stage' \in {"signing", "failed"}
      /\ UNCHANGED <<chain, mempool, fundedAt>>
  BY DEF ProvideFixture, ProvideAfterWait, ProvideSingleShot, Entering, Fail, address,
     AddressInv, WaitInv
<1>2. chain \in Utxos /\ Classified' = Classified
  BY <1>1 DEF AddressInv, ChainInv, Classified
<1>3. ViewTyped' /\ view'.state = view.state
  BY FoldKeepsState DEF ProvideFixture, ProvideAfterWait, ProvideSingleShot, Fail, display,
     AddressInv, ViewTyped
<1>4. CASE ProvideFixture
  <2>1. plan' = "fixture" /\ UNCHANGED <<wait, verdict>>
    BY <1>4 DEF ProvideFixture
  <2>2. stage' = "signing"
    BY <1>4 DEF ProvideFixture, Entering
  <2>3. WaitInv' /\ ChainInv' /\ PlanInv'
    BY <1>1, <1>2, <1>3, <2>1, <2>2
       DEF AddressInv, WaitInv, ChainInv, PlanInv, Waits
  <2> QED BY <1>3, <2>3 DEF AddressInv
<1>5. CASE ProvideAfterWait
  <2> DEFINE w == [step |-> "reading", start |-> now, deadline |-> computeFundingDeadline,
                   ok |-> FALSE, due |-> now + ReadMax]
  <2>1. plan' = plan
    BY <1>5 DEF ProvideAfterWait
  <2>2. CASE WithinWindow(w)
    <3>1. wait' = w /\ verdict' = verdict
      BY <1>5, <2>2 DEF ProvideAfterWait
    <3>2. wait'.step = "reading"
      BY <3>1
    <3> HIDE DEF w
    <3> QED BY <1>1, <1>2, <1>3, <2>1, <3>1, <3>2
            DEF AddressInv, WaitInv, ChainInv, PlanInv, Waits
  <2>3. CASE ~WithinWindow(w)
    <3>1. wait' = [w EXCEPT !.step = "over", !.due = now] /\ verdict' = Lapse(w)
      BY <1>5, <2>3 DEF ProvideAfterWait
    <3>2. wait'.step = "over"
      BY <3>1
    <3>3. Lapse(w) # "dead-end"
      BY DEF Lapse
    <3> HIDE DEF w
    <3> QED BY <1>1, <1>2, <1>3, <2>1, <3>1, <3>2, <3>3
            DEF AddressInv, WaitInv, ChainInv, PlanInv, Waits
  <2> QED BY <2>2, <2>3
<1>6. ASSUME NEW ok \in BOOLEAN, ProvideSingleShot(ok)
      PROVE  AddressInv'
  <2> DEFINE paid == ok /\ Classified = "funded"
             why == CASE ~ok -> "chain-error"
                      [] ok /\ Spendable(chain) = {} -> "unfunded"
                      [] OTHER -> "dead-end"
  <2>1. plan' = plan
    BY <1>6 DEF ProvideSingleShot
  <2>2. CASE paid
    <3>1. wait' = [wait EXCEPT !.step = "building"] /\ verdict' = verdict
      BY <1>6, <2>2 DEF ProvideSingleShot
    <3>2. wait'.step = "building"
      BY <3>1 DEF TimeTypes
    <3> QED BY <1>1, <1>2, <1>3, <2>1, <2>2, <3>1, <3>2
            DEF AddressInv, WaitInv, ChainInv, PlanInv, Waits
  <2>3. CASE ~paid
    <3>1. wait' = [wait EXCEPT !.step = "over"] /\ verdict' = why
      BY <1>6, <2>3 DEF ProvideSingleShot
    <3>2. wait'.step = "over"
      BY <3>1 DEF TimeTypes
    <3>3. why = "dead-end" => ok /\ Spendable(chain) # {}
      OBVIOUS
    <3>4. why = "dead-end" => Classified = "dead-end"
      <4>1. Spendable(chain) # {} /\ Classified # "funded" => Classified = "dead-end"
        BY <1>2, DeepestSelected DEF Classified, classifyFunding
      <4> HIDE DEF why
      <4> QED BY <2>3, <3>3, <4>1
    <3> HIDE DEF why
    <3> QED BY <1>1, <1>2, <1>3, <2>1, <3>1, <3>2, <3>4
            DEF AddressInv, WaitInv, ChainInv, PlanInv, Waits
  <2> QED BY <2>2, <2>3
<1> QED BY <1>4, <1>5, <1>6

\* The wait's loop.
LEMMA LoopKeeps ==
    ASSUME AddressInv, TimeTypes, WaitWake \/ \E ok \in BOOLEAN : WaitAnswer(ok)
    PROVE  AddressInv'
<1>1. /\ UNCHANGED <<chain, mempool, fundedAt, plan>>
      /\ wait.step \in {"reading", "sleeping"}
  BY DEF WaitWake, WaitAnswer, address
<1>2. Classified' = Classified
  BY <1>1 DEF Classified
<1>3. ASSUME NEW step \in Waits, wait'.step = step, UNCHANGED <<stage, watch, view, verdict>>,
             step = "building" => Classified = "funded"
      PROVE  AddressInv'
  BY <1>1, <1>2, <1>3
     DEF AddressInv, ViewTyped, WaitInv, ChainInv, PlanInv, Waits, computeSuggestedMinSats
<1>4. ASSUME NEW why, Throws(why), why # "none", why = "dead-end" => Classified = "dead-end"
      PROVE  AddressInv'
  BY <1>1, <1>4, ThrowKeeps DEF Waits, TimeTypes
<1>5. CASE WaitWake
  <2>1. \/ wait'.step = "reading" /\ UNCHANGED <<stage, watch, view, verdict>>
        \/ Throws(Lapse(wait))
    BY <1>5 DEF WaitWake, Reading, TimeTypes
  <2>2. Lapse(wait) \notin {"none", "dead-end"}
    BY DEF Lapse
  <2> QED BY <1>3, <1>4, <2>1, <2>2 DEF Waits
<1>6. ASSUME NEW ok \in BOOLEAN, WaitAnswer(ok)
      PROVE  AddressInv'
  <2>1. \/ /\ wait'.step = "building" /\ Classified = "funded"
           /\ UNCHANGED <<stage, watch, view, verdict>>
        \/ Throws("dead-end") /\ Classified = "dead-end"
        \/ wait'.step = "sleeping" /\ UNCHANGED <<stage, watch, view, verdict>>
    BY <1>6 DEF WaitAnswer, Sleeping, TimeTypes
  <2> QED BY <1>3, <1>4, <2>1 DEF Waits
<1> QED BY <1>5, <1>6

\* The builder picks for itself, and picks what the wait settled on.
LEMMA BuildKeeps ==
    ASSUME AddressInv, TimeTypes, NEW ok \in BOOLEAN, Build(ok)
    PROVE  AddressInv'
<1>1. /\ wait.step = "building" /\ plan = None /\ UNCHANGED <<chain, mempool, fundedAt>>
      /\ stage \notin {"advertised", "keyed", "signed", "published"} /\ verdict = "none"
  BY DEF Build, address, AddressInv, WaitInv, Waits
<1>2. /\ Classified' = Classified /\ Classified = "funded" /\ chain \in Utxos
  BY <1>1 DEF Classified, AddressInv, ChainInv
<1>3. /\ Sats[Selected(chain)] \in Nat
      /\ Sats[Selected(chain)] >= computeSuggestedMinSats
  BY <1>2, PredicateCases, DeepestSelected DEF Classified
<1>4. CASE ok
  <2>1. /\ UNCHANGED <<stage, view, watch, verdict>>
        /\ plan' = Selected(chain) \/ plan' = plan
    BY <1>4 DEF Build
  <2>2. wait' = [wait EXCEPT !.step = "over"]
    BY <1>4 DEF Build
  <2>3. wait'.step = "over"
    BY <2>2 DEF TimeTypes
  <2>4. WaitInv'
    BY <1>1, <2>1, <2>3 DEF AddressInv, WaitInv, Waits
  <2>5. ViewTyped' /\ ChainInv' /\ view.state # "dead-end"
    BY <1>1, <1>2, <2>1, <2>3 DEF AddressInv, ViewTyped, ChainInv, Settled
  <2>6. PlanInv'
    BY <1>1, <1>3, <2>1, <2>5 DEF PlanInv, computeSuggestedMinSats
  <2> QED BY <2>4, <2>5, <2>6 DEF AddressInv
<1>5. CASE ~ok
  <2>1. Throws("chain-error") /\ UNCHANGED plan
    BY <1>5 DEF Build
  <2> QED BY <1>1, <2>1, ThrowKeeps DEF Waits, TimeTypes
<1> QED BY <1>4, <1>5

LEMMA PublishKeeps ==
    ASSUME AddressInv, Publish
    PROVE  AddressInv'
BY DEF Publish, display, AddressInv, ViewTyped, WaitInv, ChainInv, PlanInv,
   computeSuggestedMinSats

\* In every reachable state the readers of the address are right about it.
THEOREM AddressInvariant == Spec => []AddressInv
<1>1. Init => AddressInv
  <2> SUFFICES ASSUME Init PROVE AddressInv
    OBVIOUS
  <2>1. <<>> \in Utxos
    BY DEF Utxos
  <2> QED BY <2>1 DEF Init, NoView, AddressInv, ViewTyped, WaitInv, ChainInv, PlanInv,
             Settled, Waits
<1>2. AddressInv /\ TimeTypes /\ [Next]_vars => AddressInv'
  BY QuietSteps, ConfirmKeeps, WatchKeeps, ProvideKeeps, LoopKeeps, BuildKeeps, PublishKeeps
     DEF Next
<1> QED BY <1>1, <1>2, TimeInvariant, PTL DEF Spec, TimeInv

\* The watch, the wait and the builder judge one output by one predicate, for
\* any payments, in any order, and even after the change has come back: no dead
\* end is shown of a cohort that is being paid for, no wait ends in one that
\* the watch calls funded, and what is spent meets the ask (classifyFunding and
\* selectSpendableUtxo, read by waitForFunding, watchFunding and the builder).
THEOREM OneConventionHolds == Spec => []OneConvention
<1>1. AddressInv => OneConvention
  <2> SUFFICES ASSUME AddressInv PROVE OneConvention
    OBVIOUS
  <2>1. verdict = "dead-end" => Classified = "dead-end" /\ view.state # "funded"
    BY DEF AddressInv, WaitInv, ChainInv, Settled
  <2>2. plan \in Deposit => plan \notin {None, "fixture"}
    BY MoneyAssumption
  <2> QED BY <2>1, <2>2 DEF OneConvention, AddressInv, PlanInv
<1> QED BY <1>1, AddressInvariant, PTL

-----------------------------------------------------------------------------
(* What a lapsed window says of the money *)

\* A sleep follows the read it slept on by one poll; if that read was answered,
\* the address was not funded then, and no verdict comes before the window's end.
SilenceInv ==
    /\ fundedAt \in Nat \cup {None}
    /\ wait.step = "sleeping" => wait.due <= now + Poll
    /\ wait.step = "sleeping" /\ wait.ok /\ fundedAt # None => fundedAt + Poll >= wait.due
    /\ verdict = "never-arrived" =>
          /\ wait.deadline \in Nat
          /\ now >= wait.start + wait.deadline
          /\ fundedAt # None => fundedAt + Poll >= wait.start + wait.deadline

\* The clock and the address move; the wait and its verdict do not.
Still ==
    /\ UNCHANGED <<wait, verdict>>
    /\ now' \in {now, now + 1}
    /\ fundedAt' = fundedAt \/ fundedAt' = now

LEMMA StillSilent ==
    ASSUME TimeTypes, SilenceInv, Still
    PROVE  SilenceInv'
<1>1. /\ now \in Nat /\ Poll \in Nat /\ wait.start \in Nat /\ wait.due \in Nat
      /\ now' \in Nat /\ now' >= now
  BY TimeAssumption DEF TimeTypes, Still
<1>2. fundedAt' \in Nat \cup {None}
  BY <1>1 DEF SilenceInv, Still
<1>3. wait.step = "sleeping" => wait.due <= now' + Poll
  BY <1>1 DEF SilenceInv
<1>4. wait.step = "sleeping" /\ wait.ok /\ fundedAt' # None => fundedAt' + Poll >= wait.due
  BY <1>1 DEF SilenceInv, Still
<1>5. ASSUME verdict = "never-arrived"
      PROVE  /\ wait.deadline \in Nat
             /\ now' >= wait.start + wait.deadline
             /\ fundedAt' # None => fundedAt' + Poll >= wait.start + wait.deadline
  <2>1. /\ wait.deadline \in Nat /\ now >= wait.start + wait.deadline
        /\ fundedAt # None => fundedAt + Poll >= wait.start + wait.deadline
    BY <1>5 DEF SilenceInv
  <2> QED BY <1>1, <2>1 DEF Still
<1> QED BY <1>2, <1>3, <1>4, <1>5 DEF SilenceInv, Still

\* The wait moves on, or ends without that verdict.
LEMMA MovesSilent ==
    ASSUME SilenceInv, fundedAt' = fundedAt, wait'.step # "sleeping",
           verdict' # "never-arrived"
    PROVE  SilenceInv'
BY DEF SilenceInv

LEMMA NextSilent ==
    ASSUME TimeTypes, AddressInv, SilenceInv, [Next]_vars
    PROVE  SilenceInv'
<1>0. /\ now \in Nat /\ Poll \in Nat /\ wait.start \in Nat /\ wait.due \in Nat
      /\ wait.deadline \in Nat \cup {None}
  BY TimeAssumption DEF TimeTypes
<1>1. CASE \/ \E d \in Deposit : Pay(d)
           \/ \E d \in Deposit \cup {Change} : Confirm(d)
           \/ Tick \/ KeygenComplete \/ ProvideFixture \/ WatchWake
           \/ TtlFires \/ PhaseTimerFires \/ CancelCohort \/ Stop \/ SigningComplete
           \/ Publish \/ \E ok \in BOOLEAN : WatchAnswer(ok)
           \/ UNCHANGED vars
  <2>1. Still
    BY <1>1 DEF Still, Pay, Confirm, Tick, KeygenComplete, ProvideFixture, Entering, WatchWake,
       TtlFires, PhaseTimerFires, CancelCohort, Stop, SigningComplete, Publish, WatchAnswer,
       vars, address
  <2> QED BY <2>1, StillSilent
<1>2. CASE ProvideAfterWait
  <2> DEFINE w == [step |-> "reading", start |-> now, deadline |-> computeFundingDeadline,
                   ok |-> FALSE, due |-> now + ReadMax]
  <2>1. fundedAt' = fundedAt /\ verdict = "none"
    BY <1>2 DEF ProvideAfterWait, address, AddressInv, WaitInv
  <2>2. wait'.step \in {"reading", "over"}
    <3>1. wait' = w \/ wait' = [w EXCEPT !.step = "over", !.due = now]
      BY <1>2 DEF ProvideAfterWait
    <3>2. w.step = "reading" /\ [w EXCEPT !.step = "over", !.due = now].step = "over"
      OBVIOUS
    <3> HIDE DEF w
    <3> QED BY <3>1, <3>2
  <2>3. Lapse(w) # "never-arrived"
    BY DEF Lapse
  <2>4. verdict' = verdict \/ verdict' = Lapse(w)
    BY <1>2 DEF ProvideAfterWait
  <2> HIDE DEF w
  <2> QED BY <2>1, <2>2, <2>3, <2>4, MovesSilent
<1>3. ASSUME NEW ok \in BOOLEAN, ProvideSingleShot(ok) \/ Build(ok)
      PROVE  SilenceInv'
  <2>1. fundedAt' = fundedAt /\ wait'.step \in {"building", "over"} /\ verdict = "none"
    BY <1>3 DEF ProvideSingleShot, Build, Throws, address, AddressInv, WaitInv, TimeTypes
  <2>2. verdict' # "never-arrived"
    BY <1>3, <2>1 DEF ProvideSingleShot, Build, Throws
  <2> QED BY <2>1, <2>2, MovesSilent
<1>4. ASSUME NEW ok \in BOOLEAN, WaitAnswer(ok)
      PROVE  SilenceInv'
  <2>1. /\ fundedAt' = fundedAt /\ now' = now /\ verdict = "none" /\ plan = None
        /\ stage # "published"
    BY <1>4 DEF WaitAnswer, address, AddressInv, WaitInv, Waits
  <2>2. CASE wait'.step # "sleeping"
    <3>1. verdict' # "never-arrived"
      BY <1>4, <2>1 DEF WaitAnswer, Throws
    <3> QED BY <2>1, <2>2, <3>1, MovesSilent
  <2>3. CASE wait'.step = "sleeping"
    <3>1. /\ wait' = Sleeping(wait, ok) /\ verdict' = verdict
          /\ ~ok \/ Classified \in {"waiting", "awaiting-confirmation"}
      BY <1>4, <2>3 DEF WaitAnswer, Throws, TimeTypes
    <3>2. wait'.due = now + Poll /\ wait'.ok = ok
      BY <3>1 DEF Sleeping, TimeTypes
    <3>3. ok => fundedAt = None
      BY <2>1, <3>1 DEF AddressInv, ChainInv
    <3> QED BY <1>0, <2>1, <3>1, <3>2, <3>3 DEF SilenceInv
  <2> QED BY <2>2, <2>3
<1>5. CASE WaitWake
  <2>1. /\ fundedAt' = fundedAt /\ now' = now /\ verdict = "none" /\ wait.step = "sleeping"
    BY <1>5 DEF WaitWake, address, AddressInv, WaitInv
  <2>2. CASE WithinWindow(wait) /\ ~stopped
    <3>1. wait'.step = "reading" /\ verdict' = verdict
      BY <1>5, <2>2 DEF WaitWake, Reading, TimeTypes
    <3> QED BY <2>1, <3>1, MovesSilent
  <2>3. CASE ~(WithinWindow(wait) /\ ~stopped)
    <3>1. wait' = [wait EXCEPT !.step = "over"] /\ verdict' = Lapse(wait)
      BY <1>5, <2>3 DEF WaitWake, Throws
    <3>2. /\ wait'.step = "over" /\ wait'.start = wait.start
          /\ wait'.deadline = wait.deadline
      BY <3>1 DEF TimeTypes
    <3>3. CASE Lapse(wait) # "never-arrived"
      BY <2>1, <3>1, <3>2, <3>3, MovesSilent
    <3>4. CASE Lapse(wait) = "never-arrived"
      <4>1. wait.ok /\ ~stopped
        BY <3>4 DEF Lapse
      <4>2. now = wait.due /\ ~WithinWindow(wait)
        BY <1>5, <2>3, <4>1 DEF WaitWake
      <4>3. wait.deadline \in Nat /\ now >= wait.start + wait.deadline
        BY <1>0, <4>2 DEF WithinWindow
      <4>4. fundedAt \in Nat \cup {None} /\ (fundedAt # None => fundedAt + Poll >= now)
        BY <2>1, <4>1, <4>2 DEF SilenceInv
      <4>5. fundedAt # None => fundedAt + Poll >= wait.start + wait.deadline
        BY <1>0, <4>3, <4>4
      <4> QED BY <2>1, <3>2, <4>3, <4>4, <4>5 DEF SilenceInv
    <3> QED BY <3>3, <3>4
  <2> QED BY <2>2, <2>3
<1> QED BY <1>1, <1>2, <1>3, <1>4, <1>5 DEF Next

\* "Funding never arrived" is only said of an address that was not funded one
\* poll before the window closed, for every window, poll interval and pattern
\* of failed reads (waitForFunding's lastObservationOk).
THEOREM NeverArrivedHolds == Spec => []NeverArrivedIsHonest
<1>1. Init => SilenceInv
  BY DEF Init, SilenceInv
<1>2. TimeTypes /\ AddressInv /\ SilenceInv /\ [Next]_vars => SilenceInv'
  BY NextSilent
<1>3. SilenceInv => NeverArrivedIsHonest
  BY DEF SilenceInv, NeverArrivedIsHonest
<1> QED BY <1>1, <1>2, <1>3, TimeInvariant, AddressInvariant, PTL DEF Spec, TimeInv
====

---- MODULE ParticipantRoundProofs ----
(***************************************************************************)
(* Proofs about ParticipantRound, for any identities and cohorts, terms or  *)
(* none, any thresholds and any number of reads in flight: no handle        *)
(* outlives its round, a late answer is never taken for the present round,  *)
(* and only a click settles the submit gate.  The last section is about the *)
(* participants a service starts itself (TestPeers), for any cohorts, seats *)
(* and requests: none is out of reach, and an end reaches all it should.    *)
(***************************************************************************)
EXTENDS ParticipantRound, TestPeers, TLAPS, FiniteSetTheorems

\* Every variable that a later step reads keeps its type.
Types ==
    /\ world \in [Cohort -> Listing]
    /\ tab \in TabType
    /\ round \in RoundType
    /\ outcome \in OutcomeType
    /\ mod \in ModType
    /\ reads \subseteq ReadType
    /\ joined \in Nat

\* A snapshot is no further along than the directory is now, and lists the
\* picked cohort as it was picked or later.
Behind(rows) ==
    /\ rows[round.picked] \in {"Advertised", "locked", "gone"}
    /\ rows[round.picked] # "Advertised" => world[round.picked] # "Advertised"
    /\ rows[round.picked] = "gone" => world[round.picked] = "gone"

\* What an answer may rely on when it lands: a fresh one was asked in this round.
Sound(r) ==
    /\ r.kind = "start" => r.did \in Nat \ {0}
    /\ r.kind = "terms" => r.cohort \in Cohort /\ world[r.cohort] # "unlisted"
    /\ r.kind = "anchor" /\ r.fresh => tab.status = "complete" /\ r.cohort = round.picked
    /\ r.kind = "funding" /\ r.fresh => tab.status = "live" /\ r.cohort = round.picked
    /\ r.kind = "ipfs" /\ r.fresh => r.did = tab.identity
    /\ r.kind \in {"directory", "postSeat"} /\ r.fresh /\ round.picked # None => Behind(r.rows)

ReadsSound == \A r \in reads : Sound(r)

\* What ties the picked cohort to the directory, the opt-in to the status, and the
\* grace window to a cohort that has left the Advertised set.
Picked ==
    /\ round.picked # None => round.picked \in Cohort /\ world[round.picked] # "unlisted"
    /\ round.picked = None => ~round.joinClosed /\ round.error # "dark"
    /\ Awaiting => round.picked # None
    /\ Awaiting /\ round.optedIn => tab.status = "live"
    /\ "grace" \in mod.polls => world[round.picked] # "Advertised"

RoundInv ==
    /\ Types /\ ReadsSound /\ Picked
    /\ HandlesFollowTheRound /\ VerdictsAreReal /\ PolledFactsAreOfThisRound

-----------------------------------------------------------------------------
(* What the helpers return *)

\* The teardown of a round: no runner, no gate, no poll, and the artifacts as they were.
LEMMA EndRoundClears ==
    ASSUME NEW m \in ModType
    PROVE  /\ EndRound(m) \in ModType
           /\ EndRound(m).live = 0 /\ EndRound(m).gate = 0 /\ EndRound(m).polls = {}
           /\ EndRound(m).node = m.node /\ EndRound(m).captured = m.captured
<1>1. ClearDirectoryPoll(m) \in ModType
      /\ ClearDirectoryPoll(m).polls = m.polls \ {"directory"}
      /\ ClearDirectoryPoll(m).node = m.node
      /\ ClearDirectoryPoll(m).captured = m.captured
  BY DEF ModType, ClearDirectoryPoll
<1> DEFINE a == ClearDirectoryPoll(m)
           b == [a EXCEPT !.live = 0, !.gate = 0, !.submitted = FALSE]
           c == ClearJoinGrace(b)
           d == ClearPostSeatPoll(c)
           e == ClearLagRetry(d)
           f == ClearAnchorPoll(e)
           g == ClearFundingPoll(f)
<1> HIDE DEF a
<1>2. b \in ModType /\ b.live = 0 /\ b.gate = 0 /\ b.polls = a.polls
      /\ b.node = a.node /\ b.captured = a.captured
  BY <1>1 DEF ModType, a
<1> HIDE DEF b
<1>3. c \in ModType /\ c.live = 0 /\ c.gate = 0 /\ c.polls = b.polls \ {"grace"}
      /\ c.node = b.node /\ c.captured = b.captured
  BY <1>2 DEF ModType, ClearJoinGrace
<1> HIDE DEF c
<1>4. d \in ModType /\ d.live = 0 /\ d.gate = 0 /\ d.polls = c.polls \ {"postSeat"}
      /\ d.node = c.node /\ d.captured = c.captured
  BY <1>3 DEF ModType, ClearPostSeatPoll
<1> HIDE DEF d
<1>5. e \in ModType /\ e.live = 0 /\ e.gate = 0 /\ e.polls = d.polls \ {"lag"}
      /\ e.node = d.node /\ e.captured = d.captured
  BY <1>4 DEF ModType, ClearLagRetry
<1> HIDE DEF e
<1>6. f \in ModType /\ f.live = 0 /\ f.gate = 0 /\ f.polls = e.polls \ {"anchor"}
      /\ f.node = e.node /\ f.captured = e.captured
  BY <1>5 DEF ModType, ClearAnchorPoll
<1> HIDE DEF f
<1>7. g \in ModType /\ g.live = 0 /\ g.gate = 0 /\ g.polls = f.polls \ {"funding"}
      /\ g.node = f.node /\ g.captured = f.captured
  BY <1>6 DEF ModType, ClearFundingPoll
<1>8. EndRound(m) = g
  BY DEF EndRound, TeardownLive, a, b, c, d, e, f
<1> HIDE DEF g
<1>9. m.polls \subseteq Polls
  BY DEF ModType
<1>10. g.polls = {}
  BY <1>1, <1>2, <1>3, <1>4, <1>5, <1>6, <1>7, <1>9 DEF Polls, a
<1> QED BY <1>1, <1>2, <1>3, <1>4, <1>5, <1>6, <1>7, <1>8, <1>10 DEF a

\* The teardown of the artifacts touches no handle.
LEMMA ArtifactsGo ==
    ASSUME NEW m \in ModType
    PROVE  /\ TeardownArtifacts(m) \in ModType
           /\ TeardownArtifacts(m).node = None
           /\ TeardownArtifacts(m).live = m.live /\ TeardownArtifacts(m).gate = m.gate
           /\ TeardownArtifacts(m).polls = m.polls
BY DEF TeardownArtifacts, ModType, Who

\* What a bumped epoch leaves: the same reads, none of those kinds fresh.
LEMMA OutdatedReads ==
    ASSUME NEW asked \in SUBSET ReadType, NEW kinds
    PROVE  /\ Outdated(asked, kinds) \subseteq ReadType
           /\ \A r \in Outdated(asked, kinds) :
                 \E q \in asked : /\ r.kind = q.kind /\ r.did = q.did /\ r.cohort = q.cohort
                                  /\ r.fresh => r = q /\ r.kind \notin kinds
<1>1. ASSUME NEW q \in asked
      PROVE  LET r == IF q.kind \in kinds THEN [q EXCEPT !.fresh = FALSE] ELSE q
             IN  /\ r \in ReadType
                 /\ r.kind = q.kind /\ r.did = q.did /\ r.cohort = q.cohort
                 /\ r.fresh => r = q /\ r.kind \notin kinds
  <2>1. q \in ReadType
    BY <1>1
  <2>2. CASE q.kind \in kinds
    BY <2>1, <2>2 DEF ReadType
  <2>3. CASE ~(q.kind \in kinds)
    BY <2>1, <2>3
  <2> QED BY <2>2, <2>3
<1> QED BY <1>1 DEF Outdated

\* The outcome slice a round starts with.
LEMMA InitialOutcomeTyped ==
    /\ InitialOutcome \in OutcomeType
    /\ InitialOutcome.awaitingFunding = None /\ InitialOutcome.canceled = None
    /\ InitialOutcome.anchor = None /\ InitialOutcome.ipfs.did = None
<1>1. [status |-> "idle", did |-> None, reflected |-> FALSE]
        \in [status : Statuses, did : Who, reflected : BOOLEAN]
  BY DEF Who, Statuses
<1>2. [status |-> "idle", did |-> None] \in [status : Statuses, did : Who]
  BY DEF Who, Statuses
<1> QED BY <1>1, <1>2 DEF InitialOutcome, OutcomeType, Where

-----------------------------------------------------------------------------
(* The steps, by how much of the round they touch *)

\* The tab starts without a round.
LEMMA InitRound == Init => RoundInv
<1> SUFFICES ASSUME Init PROVE RoundInv
  OBVIOUS
<1> USE RoundAssumption DEF Init
<1>1. round = NoRound /\ NoRound \in RoundType
  BY DEF NoRound, RoundType, Where
<1>2. mod \in ModType /\ mod.live = 0 /\ mod.gate = 0 /\ mod.polls = {} /\ mod.node = None
  BY DEF ModType, Who
<1>3. tab \in TabType /\ tab.status = "no-identity" /\ tab.identity = None
  BY DEF TabType, Where
<1>4. Types
  BY <1>1, <1>2, <1>3, InitialOutcomeTyped DEF Types, Listing
<1>5. ReadsSound
  BY DEF ReadsSound
<1>6. Picked
  BY <1>1, <1>2, <1>3 DEF Picked, NoRound, Awaiting
<1>7. HandlesFollowTheRound
  BY <1>1, <1>2, <1>3 DEF HandlesFollowTheRound, NoRound, Awaiting
<1>8. VerdictsAreReal
  BY <1>1 DEF VerdictsAreReal, NoRound
<1>9. PolledFactsAreOfThisRound
  BY <1>1, <1>2, <1>3, InitialOutcomeTyped DEF PolledFactsAreOfThisRound, NoRound
<1> QED BY <1>4, <1>5, <1>6, <1>7, <1>8, <1>9 DEF RoundInv

\* What the outcome shows of the polls stays, or is about the picked cohort.
Shown(o) ==
    /\ o.awaitingFunding \in {outcome.awaitingFunding, round.picked, None}
    /\ o.canceled \in {outcome.canceled, round.picked, None}
    /\ o.anchor # None => o.anchor = outcome.anchor \/ o.anchor.cohort = round.picked
    /\ o.ipfs.did \in {outcome.ipfs.did, tab.identity}

\* A poll belongs to where the round is.
Fits(poll) ==
    /\ poll = "directory" => Awaiting /\ ~round.seated
    /\ poll = "grace" => /\ Awaiting /\ round.optedIn /\ ~round.seated
                         /\ world[round.picked] # "Advertised"
    /\ poll \in {"postSeat", "funding"} => tab.status = "live" /\ round.seated
    /\ poll \in {"anchor", "lag"} => tab.status = "complete"

\* A step inside a round: the round, its runner and its gate stay, polls end or
\* begin where they belong, and what it asks is asked in this round.
Quiet ==
    /\ world' = world /\ joined' = joined
    /\ \E waits \in {round.awaitingSeats, round.picked, None} :
          round' = [round EXCEPT !.awaitingSeats = waits]
    /\ tab' \in TabType /\ tab'.status = tab.status /\ tab'.identity = tab.identity
    /\ outcome' \in OutcomeType /\ Shown(outcome')
    /\ mod' \in ModType /\ mod'.live = mod.live /\ mod'.gate = mod.gate
    /\ \A poll \in mod'.polls : poll \in mod.polls \/ Fits(poll)
    /\ mod'.node \in {mod.node, tab.identity}
    /\ reads' \subseteq ReadType
    /\ \A r \in reads' : r \in reads \/ Sound(r)

\* Such a step keeps the invariant.
LEMMA QuietKeeps ==
    ASSUME RoundInv, Quiet
    PROVE  RoundInv'
<1> USE DEF Quiet
<1>0. tab \in TabType /\ round \in RoundType /\ \A r \in reads : Sound(r)
  BY DEF RoundInv, Types, ReadsSound
<1>1. /\ round' \in RoundType /\ round'.picked = round.picked
      /\ round'.optedIn = round.optedIn /\ round'.seated = round.seated
      /\ round'.joinClosed = round.joinClosed /\ round'.error = round.error
      /\ round'.pendingSubmit = round.pendingSubmit
      /\ round'.awaitingSeats \in {round.awaitingSeats, round.picked, None}
  BY <1>0 DEF RoundType, Where
<1>2. Types'
  BY <1>1 DEF RoundInv, Types
<1>3. ReadsSound'
  <2> SUFFICES ASSUME NEW r \in reads' PROVE Sound(r)'
    BY DEF ReadsSound
  <2>1. Sound(r)
    BY <1>0
  <2> QED BY <1>1, <2>1 DEF Sound, Behind
<1>4. Awaiting' = Awaiting
  BY DEF Awaiting
<1>5. Picked'
  BY <1>1, <1>4 DEF RoundInv, Picked, Fits
<1>6. HandlesFollowTheRound'
  BY <1>1, <1>4 DEF RoundInv, HandlesFollowTheRound, Fits
<1>7. VerdictsAreReal'
  BY <1>1 DEF RoundInv, VerdictsAreReal
<1>8. PolledFactsAreOfThisRound'
  BY <1>1 DEF RoundInv, PolledFactsAreOfThisRound, Shown
<1> QED BY <1>2, <1>3, <1>5, <1>6, <1>7, <1>8 DEF RoundInv

\* A round left as it is is such a round.
LEMMA SameRound ==
    ASSUME RoundInv, round' = round
    PROVE  \E waits \in {round.awaitingSeats, round.picked, None} :
              round' = [round EXCEPT !.awaitingSeats = waits]
<1>1. round \in RoundType
  BY DEF RoundInv, Types
<1>2. round' = [round EXCEPT !.awaitingSeats = round.awaitingSeats]
  BY <1>1 DEF RoundType
<1> QED BY <1>2

\* The round is over: nothing runs, nothing asked in it is fresh, and the tab is
\* where no round is under way or where the round has failed.
Over ==
    /\ world' = world /\ joined' = joined
    /\ tab' \in TabType /\ tab'.status \in {"no-identity", "ready", "failed"}
    /\ outcome' \in OutcomeType
    /\ mod' \in ModType /\ mod'.live = 0 /\ mod'.gate = 0 /\ mod'.polls = {}
    /\ round' \in RoundType /\ ~round'.pendingSubmit
    /\ reads' \subseteq ReadType
    /\ \A r \in reads' :
          \/ r.kind = "fate"
          \/ \E q \in reads : /\ r.kind = q.kind /\ r.did = q.did /\ r.cohort = q.cohort
                              /\ r.fresh => r = q /\ r.kind \notin RoundReads

\* The round goes, and the tab may change hands: its facts and artifacts go with it.
Vacated ==
    /\ Over
    /\ round' = NoRound /\ outcome' = InitialOutcome /\ mod'.node = None
    /\ \A r \in reads' : r.fresh => r.kind # "ipfs"

\* The invariant holds of a tab whose round has gone.
LEMMA VacatedKeeps ==
    ASSUME RoundInv, Vacated
    PROVE  RoundInv'
<1> USE DEF Vacated, Over
<1>1. Types'
  BY DEF RoundInv, Types
<1>2. ReadsSound'
  <2> SUFFICES ASSUME NEW r \in reads' PROVE Sound(r)'
    BY DEF ReadsSound
  <2>1. CASE r.kind = "fate"
    BY <2>1 DEF Sound
  <2>2. ASSUME NEW q \in reads, r.kind = q.kind, r.did = q.did, r.cohort = q.cohort,
               r.fresh => r = q /\ r.kind \notin RoundReads
        PROVE  Sound(r)'
    <3>1. Sound(q)
      BY DEF RoundInv, ReadsSound
    <3> QED BY <2>2, <3>1 DEF Sound, RoundReads
  <2> QED BY <2>1, <2>2
<1>3. Picked'
  BY RoundAssumption DEF Picked, Awaiting, NoRound
<1>4. HandlesFollowTheRound'
  BY DEF HandlesFollowTheRound, Awaiting
<1>5. VerdictsAreReal'
  BY RoundAssumption DEF VerdictsAreReal, NoRound
<1>6. PolledFactsAreOfThisRound'
  BY InitialOutcomeTyped DEF PolledFactsAreOfThisRound, NoRound
<1> QED BY <1>1, <1>2, <1>3, <1>4, <1>5, <1>6 DEF RoundInv

\* A failed round keeps its cohort and its facts on screen; its verdict must be true.
Failed ==
    /\ Over
    /\ tab'.status = "failed" /\ tab'.identity = tab.identity
    /\ round'.picked = round.picked /\ round'.awaitingSeats = None
    /\ Shown(outcome') /\ mod'.node = mod.node
    /\ round'.joinClosed => round.joinClosed \/ (round.picked # None /\ world[round.picked] # "Advertised")
    /\ round'.error = "dark" => round.picked # None /\ world[round.picked] = "gone"

\* The invariant holds of a tab whose round has failed.
LEMMA FailedKeeps ==
    ASSUME RoundInv, Failed
    PROVE  RoundInv'
<1> USE DEF Failed, Over
<1>1. Types'
  BY DEF RoundInv, Types
<1>2. ReadsSound'
  <2> SUFFICES ASSUME NEW r \in reads' PROVE Sound(r)'
    BY DEF ReadsSound
  <2>1. CASE r.kind = "fate"
    BY <2>1 DEF Sound
  <2>2. ASSUME NEW q \in reads, r.kind = q.kind, r.did = q.did, r.cohort = q.cohort,
               r.fresh => r = q /\ r.kind \notin RoundReads
        PROVE  Sound(r)'
    <3>1. Sound(q)
      BY DEF RoundInv, ReadsSound
    <3> QED BY <2>2, <3>1 DEF Sound, RoundReads
  <2> QED BY <2>1, <2>2
<1>3. Picked'
  BY DEF RoundInv, Picked, Awaiting
<1>4. HandlesFollowTheRound'
  BY DEF HandlesFollowTheRound, Awaiting
<1>5. VerdictsAreReal'
  BY DEF RoundInv, VerdictsAreReal, Picked
<1>6. PolledFactsAreOfThisRound'
  BY DEF RoundInv, PolledFactsAreOfThisRound, Shown
<1> QED BY <1>1, <1>2, <1>3, <1>4, <1>5, <1>6 DEF RoundInv

\* fail makes such a step, of the reads in flight and perhaps a fate read.
LEMMA FailKeeps ==
    ASSUME RoundInv, NEW reason \in {"other", "closed", "dark"},
           NEW asked \in SUBSET ReadType,
           \A r \in asked : r \in reads \/ r.kind = "fate",
           Fail(reason, asked), world' = world, joined' = joined,
           reason = "closed" => round.picked # None /\ world[round.picked] # "Advertised",
           reason = "dark" => round.picked # None /\ world[round.picked] = "gone"
    PROVE  RoundInv'
<1>1. tab \in TabType /\ round \in RoundType /\ outcome \in OutcomeType /\ mod \in ModType
  BY DEF RoundInv, Types
<1>2. tab' \in TabType /\ tab'.status = "failed" /\ tab'.identity = tab.identity
  BY <1>1 DEF Fail, TabType
<1>3. /\ round' \in RoundType /\ ~round'.pendingSubmit
      /\ round'.picked = round.picked /\ round'.awaitingSeats = None
      /\ round'.joinClosed => round.joinClosed \/ reason = "closed"
      /\ round'.error = reason
  BY <1>1 DEF Fail, RoundType, Where
<1>4. outcome' \in OutcomeType /\ Shown(outcome')
  <2>1. outcome' = [outcome EXCEPT !.unreachable = FALSE]
    BY DEF Fail
  <2> QED BY <1>1, <2>1 DEF OutcomeType, Shown
<1>5. /\ mod' \in ModType /\ mod'.live = 0 /\ mod'.gate = 0 /\ mod'.polls = {}
      /\ mod'.node = mod.node
  BY <1>1, EndRoundClears DEF Fail
<1>6. reads' = Outdated(asked, RoundReads)
  BY DEF Fail
<1>7. /\ reads' \subseteq ReadType
      /\ \A r \in reads' :
            \E q \in asked : /\ r.kind = q.kind /\ r.did = q.did /\ r.cohort = q.cohort
                             /\ r.fresh => r = q /\ r.kind \notin RoundReads
  BY <1>6, OutdatedReads
<1>8. Over
  BY <1>2, <1>3, <1>4, <1>5, <1>7 DEF Over
<1>9. Failed
  BY <1>2, <1>3, <1>4, <1>5, <1>8 DEF Failed
<1> QED BY <1>9, FailedKeeps

-----------------------------------------------------------------------------
(* One step per action *)

\* What the invariant says of the state, unpacked once.
LEMMA Unpacked ==
    ASSUME RoundInv
    PROVE  /\ tab \in TabType /\ round \in RoundType /\ outcome \in OutcomeType
           /\ mod \in ModType /\ reads \subseteq ReadType /\ joined \in Nat
           /\ \A r \in reads : Sound(r)
BY DEF RoundInv, Types, ReadsSound

\* The directory moves on; what was read of it is only further behind.
LEMMA WorldMovesKeeps ==
    ASSUME RoundInv, WorldMoves
    PROVE  RoundInv'
<1> USE DEF WorldMoves, counts
<1>1. PICK c \in Cohort :
          \/ world[c] = "unlisted" /\ world' = [world EXCEPT ![c] = "Advertised"]
          \/ c = round.picked /\ world[c] = "Advertised" /\ world' = [world EXCEPT ![c] = "locked"]
          \/ c = round.picked /\ world[c] \in {"Advertised", "locked"}
             /\ world' = [world EXCEPT ![c] = "gone"]
  OBVIOUS
<1>2. world \in [Cohort -> Listing]
  BY DEF RoundInv, Types
<1>3. /\ world' \in [Cohort -> Listing]
      /\ \A d \in Cohort : /\ world[d] # "unlisted" => world'[d] # "unlisted"
                           /\ world[d] \notin {"unlisted", "Advertised"} => world'[d] # "Advertised"
                           /\ world[d] = "gone" => world'[d] = "gone"
  BY <1>1, <1>2 DEF Listing
<1>4. round.picked # None => round.picked \in Cohort /\ world[round.picked] # "unlisted"
  BY DEF RoundInv, Picked
<1>5. Types'
  BY <1>3 DEF RoundInv, Types
<1>6. ReadsSound'
  <2> SUFFICES ASSUME NEW r \in reads PROVE Sound(r)'
    BY DEF ReadsSound
  <2>1. Sound(r)
    BY DEF RoundInv, ReadsSound
  <2> QED BY <1>3, <1>4, <2>1 DEF Sound, Behind
<1>7. Picked'
  <2>1. Awaiting' = Awaiting
    BY DEF Awaiting
  <2>2. "grace" \in mod.polls => round.picked # None
    BY DEF RoundInv, Picked, HandlesFollowTheRound
  <2> QED BY <1>3, <1>4, <2>1, <2>2 DEF RoundInv, Picked
<1>8. HandlesFollowTheRound'
  BY DEF RoundInv, HandlesFollowTheRound, Awaiting
<1>9. VerdictsAreReal'
  BY <1>3, <1>4 DEF RoundInv, VerdictsAreReal, Picked
<1>10. PolledFactsAreOfThisRound'
  BY DEF RoundInv, PolledFactsAreOfThisRound
<1> QED BY <1>5, <1>6, <1>7, <1>8, <1>9, <1>10 DEF RoundInv

\* Another identity is adopted only where no round is under way.
LEMMA AdoptKeeps ==
    ASSUME RoundInv, NEW d \in Did, Adopt(d)
    PROVE  RoundInv'
<1> USE DEF Adopt, counts
<1>1. /\ tab' \in TabType /\ tab'.status = "ready"
      /\ mod' \in ModType /\ mod'.node = None
      /\ mod'.live = mod.live /\ mod'.gate = mod.gate /\ mod'.polls = mod.polls
  BY Unpacked, ArtifactsGo DEF TabType
<1>2. mod.live = 0 /\ mod.polls = {} /\ mod.gate = 0
  <2>1. mod.live = 0 /\ mod.gate = 0
    BY Unpacked DEF RoundInv, HandlesFollowTheRound, Awaiting
  <2>2. mod.polls \subseteq Polls
    BY Unpacked DEF ModType
  <2> QED BY <2>1, <2>2 DEF RoundInv, HandlesFollowTheRound, Awaiting, Polls
<1>3. /\ reads' \subseteq ReadType
      /\ \A r \in reads' :
            \E q \in reads : /\ r.kind = q.kind /\ r.did = q.did /\ r.cohort = q.cohort
                             /\ r.fresh => r = q /\ r.kind \notin {"ipfs"}
  BY Unpacked, OutdatedReads
<1>4. round' = NoRound /\ NoRound \in RoundType
  BY DEF NoRound, RoundType, Where
<1>5. Types'
  BY <1>1, <1>3, <1>4, InitialOutcomeTyped DEF RoundInv, Types
<1>6. ReadsSound'
  <2> SUFFICES ASSUME NEW r \in reads' PROVE Sound(r)'
    BY DEF ReadsSound
  <2>1. PICK q \in reads : /\ r.kind = q.kind /\ r.did = q.did /\ r.cohort = q.cohort
                           /\ r.fresh => r = q /\ r.kind \notin {"ipfs"}
    BY <1>3
  <2>2. Sound(q)
    BY Unpacked
  <2> QED BY <1>4, <2>1, <2>2 DEF Sound, NoRound
<1>7. Picked'
  BY <1>1, <1>2, <1>4, RoundAssumption DEF Picked, Awaiting, NoRound
<1>8. HandlesFollowTheRound'
  BY <1>1, <1>2, <1>4 DEF HandlesFollowTheRound, Awaiting, NoRound
<1>9. VerdictsAreReal'
  BY <1>4, RoundAssumption DEF VerdictsAreReal, NoRound
<1>10. PolledFactsAreOfThisRound'
  BY <1>1, <1>4, InitialOutcomeTyped DEF PolledFactsAreOfThisRound, NoRound
<1> QED BY <1>5, <1>6, <1>7, <1>8, <1>9, <1>10 DEF RoundInv

\* A join starts from nothing: the round before it has left no handle and no fresh read.
LEMMA JoinKeeps ==
    ASSUME RoundInv, NEW c \in Cohort, NEW asked \in SUBSET reads,
           Join(c, asked), world' = world, world[c] # "unlisted",
           tab' \in TabType, tab'.status = "connecting", tab'.identity = tab.identity
    PROVE  RoundInv'
<1> USE DEF Join
<1>1. joined' \in Nat \ {0}
  BY Unpacked
<1>2. /\ TeardownArtifacts(EndRound(mod)) \in ModType
      /\ TeardownArtifacts(EndRound(mod)).node = None
      /\ TeardownArtifacts(EndRound(mod)).gate = 0
      /\ TeardownArtifacts(EndRound(mod)).polls = {}
  <2>1. EndRound(mod) \in ModType /\ EndRound(mod).gate = 0 /\ EndRound(mod).polls = {}
    BY Unpacked, EndRoundClears
  <2> QED BY <2>1, ArtifactsGo
<1>3. /\ mod' \in ModType /\ mod'.live = joined' /\ mod'.gate = 0 /\ mod'.polls = {}
      /\ mod'.node = None
  <2> DEFINE m == TeardownArtifacts(EndRound(mod))
  <2>1. mod' = [m EXCEPT !.live = joined']
    OBVIOUS
  <2> HIDE DEF m
  <2> QED BY <1>1, <1>2, <2>1 DEF ModType, m
<1>4. /\ round' \in RoundType /\ round'.picked = c /\ ~round'.optedIn /\ ~round'.seated
      /\ ~round'.joinClosed /\ ~round'.pendingSubmit
      /\ round'.awaitingSeats = None /\ round'.error = None
  BY DEF NoRound, RoundType, Where
<1> DEFINE start == Read("start", joined', c, None)
           kept == Outdated(asked, RoundReads \cup {"ipfs"})
<1>5. start \in ReadType /\ start.kind = "start" /\ start.did = joined'
  <2>1. "start" \in Kinds /\ joined' \in Who /\ c \in Where
    BY <1>1 DEF Kinds, Who, Where
  <2> QED BY <2>1 DEF Read, ReadType
<1>6. /\ kept \subseteq ReadType
      /\ \A r \in kept :
            \E q \in reads : /\ r.kind = q.kind /\ r.did = q.did /\ r.cohort = q.cohort
                             /\ r.fresh => r = q /\ r.kind \notin (RoundReads \cup {"ipfs"})
  <2>1. asked \in SUBSET ReadType
    BY Unpacked
  <2>2. /\ kept \subseteq ReadType
        /\ \A r \in kept :
              \E q \in asked : /\ r.kind = q.kind /\ r.did = q.did /\ r.cohort = q.cohort
                               /\ r.fresh => r = q /\ r.kind \notin (RoundReads \cup {"ipfs"})
    BY <2>1, OutdatedReads
  <2> QED BY <2>2
<1>7. reads' = kept \cup {start}
  OBVIOUS
<1> HIDE DEF start, kept
<1>8. Types'
  BY <1>1, <1>3, <1>4, <1>5, <1>6, <1>7, InitialOutcomeTyped DEF RoundInv, Types
<1>9. ReadsSound'
  <2> SUFFICES ASSUME NEW r \in reads' PROVE Sound(r)'
    BY DEF ReadsSound
  <2>1. CASE r = start
    BY <1>1, <1>5, <2>1 DEF Sound
  <2>2. CASE r \in kept
    <3>1. PICK q \in reads : /\ r.kind = q.kind /\ r.did = q.did /\ r.cohort = q.cohort
                             /\ r.fresh => r = q /\ r.kind \notin (RoundReads \cup {"ipfs"})
      BY <1>6, <2>2
    <3>2. Sound(q)
      BY Unpacked
    <3> QED BY <3>1, <3>2 DEF Sound, RoundReads
  <2> QED BY <1>7, <2>1, <2>2
<1>10. Picked'
  BY <1>3, <1>4, RoundAssumption DEF Picked, Awaiting
<1>11. HandlesFollowTheRound'
  BY <1>1, <1>3, <1>4 DEF HandlesFollowTheRound, Awaiting
<1>12. VerdictsAreReal'
  BY <1>4, RoundAssumption DEF VerdictsAreReal
<1>13. PolledFactsAreOfThisRound'
  BY <1>3, <1>4, InitialOutcomeTyped DEF PolledFactsAreOfThisRound
<1> QED BY <1>8, <1>9, <1>10, <1>11, <1>12, <1>13 DEF RoundInv

\* Terms: asking, a refusal, and the join that an acceptance lets through.
LEMMA TermsKeep ==
    ASSUME RoundInv
    PROVE  /\ \A c \in Cohort : ConfirmJoin(c) \/ ConfirmTerms(c) => RoundInv'
           /\ \A r \in reads : TermsRecorded(r) \/ TermsRefused(r) => RoundInv'
<1>1. ASSUME NEW c \in Cohort, ConfirmJoin(c) PROVE RoundInv'
  <2>1. tab' \in TabType /\ tab'.status = "connecting" /\ tab'.identity = tab.identity
    BY <1>1, Unpacked DEF ConfirmJoin, TabType
  <2> QED BY <1>1, <2>1, JoinKeeps DEF ConfirmJoin, CanConfirm
<1>2. ASSUME NEW c \in Cohort, ConfirmTerms(c) PROVE RoundInv'
  <2> DEFINE asked == Read("terms", tab.identity, c, None)
  <2>1. tab' \in TabType /\ tab'.status = tab.status /\ tab'.identity = tab.identity
    BY <1>2, Unpacked DEF ConfirmTerms, TabType
  <2>2. asked \in ReadType /\ asked.kind = "terms" /\ asked.cohort = c
    <3>1. "terms" \in Kinds /\ tab.identity \in Who /\ c \in Where
      BY Unpacked DEF TabType, Kinds, Who, Where
    <3> QED BY <3>1 DEF Read, ReadType
  <2>3. world[c] = "Advertised"
    BY <1>2 DEF ConfirmTerms, CanConfirm
  <2>4. Sound(asked)
    <3> HIDE DEF asked
    <3> QED BY <2>2, <2>3 DEF Sound
  <2>5. reads' = reads \cup {asked}
    BY <1>2 DEF ConfirmTerms
  <2> HIDE DEF asked
  <2>6. Quiet
    BY <1>2, <2>1, <2>2, <2>4, <2>5, Unpacked, SameRound DEF Quiet, ConfirmTerms, Shown, counts
  <2> QED BY <2>6, QuietKeeps
<1>3. ASSUME NEW r \in reads, TermsRecorded(r) PROVE RoundInv'
  <2>1. r.cohort \in Cohort /\ world[r.cohort] # "unlisted"
    BY <1>3, Unpacked DEF TermsRecorded, Sound
  <2>2. tab' \in TabType /\ tab'.status = "connecting" /\ tab'.identity = tab.identity
    BY <1>3, <2>1, Unpacked DEF TermsRecorded, TabType, Where
  <2> QED BY <1>3, <2>1, <2>2, JoinKeeps DEF TermsRecorded
<1>4. ASSUME NEW r \in reads, TermsRefused(r) PROVE RoundInv'
  <2>1. tab' \in TabType /\ tab'.status = tab.status /\ tab'.identity = tab.identity
    BY <1>4, Unpacked DEF TermsRefused, TabType
  <2>2. reads' \subseteq reads
    BY <1>4 DEF TermsRefused, Landed
  <2>3. Quiet
    BY <1>4, <2>1, <2>2, Unpacked, SameRound DEF Quiet, TermsRefused, Shown, counts
  <2> QED BY <2>3, QuietKeeps
<1> QED BY <1>1, <1>2, <1>3, <1>4

\* The runner's own events up to the submit gate.
LEMMA RunnerKeeps ==
    ASSUME RoundInv,
           CohortJoined \/ GateOpens \/ SubmitUpdate \/ UpdateDeclined
    PROVE  RoundInv'
<1>1. CASE CohortJoined
  <2> USE <1>1 DEF CohortJoined
  <2>1. Awaiting
    BY DEF RoundInv, HandlesFollowTheRound
  <2>2. /\ tab' \in TabType /\ tab'.status = "live" /\ tab'.identity = tab.identity
        /\ round' \in RoundType /\ round' = [round EXCEPT !.optedIn = TRUE]
    BY Unpacked DEF TabType, RoundType
  <2>3. /\ round'.picked = round.picked /\ round'.seated = round.seated /\ round'.optedIn
        /\ round'.joinClosed = round.joinClosed /\ round'.error = round.error
        /\ round'.pendingSubmit = round.pendingSubmit
        /\ round'.awaitingSeats = round.awaitingSeats
    BY <2>2, Unpacked DEF RoundType
  <2>4. Types'
    BY <2>2 DEF RoundInv, Types, counts
  <2>5. ReadsSound'
    <3> SUFFICES ASSUME NEW r \in reads PROVE Sound(r)'
      BY DEF ReadsSound
    <3>1. Sound(r)
      BY Unpacked
    <3> QED BY <2>1, <2>2, <2>3, <3>1 DEF Sound, Behind, Awaiting
  <2>6. Picked'
    BY <2>1, <2>2, <2>3 DEF RoundInv, Picked, Awaiting
  <2>7. HandlesFollowTheRound'
    BY <2>1, <2>2, <2>3 DEF RoundInv, HandlesFollowTheRound, Awaiting
  <2>8. VerdictsAreReal'
    BY <2>3 DEF RoundInv, VerdictsAreReal
  <2>9. PolledFactsAreOfThisRound'
    BY <2>2, <2>3 DEF RoundInv, PolledFactsAreOfThisRound
  <2> QED BY <2>4, <2>5, <2>6, <2>7, <2>8, <2>9 DEF RoundInv
<1>2. ASSUME \/ /\ round' = [round EXCEPT !.pendingSubmit = TRUE] /\ mod.live # 0
                /\ mod' = [mod EXCEPT !.gate = mod.live]
             \/ /\ round' = [round EXCEPT !.pendingSubmit = FALSE]
                /\ mod' = [mod EXCEPT !.gate = 0, !.submitted = mod.gate # 0],
             UNCHANGED <<world, tab, outcome, reads, joined>>
      PROVE  RoundInv'
  <2>1. /\ mod' \in ModType /\ mod'.live = mod.live /\ mod'.polls = mod.polls
        /\ mod'.node = mod.node
    <3>1. CASE mod' = [mod EXCEPT !.gate = mod.live]
      BY <3>1, Unpacked DEF ModType
    <3>2. CASE mod' = [mod EXCEPT !.gate = 0, !.submitted = mod.gate # 0]
      <4> DEFINE gone == mod.gate # 0
      <4>1. gone \in BOOLEAN /\ mod' = [mod EXCEPT !.gate = 0, !.submitted = gone]
        BY <3>2
      <4> HIDE DEF gone
      <4> QED BY <4>1, Unpacked DEF ModType
    <3> QED BY <1>2, <3>1, <3>2
  <2>2. mod'.gate \in {0, mod.live} /\ (round'.pendingSubmit <=> mod'.gate # 0)
    BY <1>2, Unpacked DEF ModType, RoundType
  <2>3. /\ round' \in RoundType
        /\ round'.picked = round.picked /\ round'.seated = round.seated
        /\ round'.optedIn = round.optedIn
        /\ round'.joinClosed = round.joinClosed /\ round'.error = round.error
        /\ round'.awaitingSeats = round.awaitingSeats
    BY <1>2, Unpacked DEF RoundType
  <2>4. Types'
    BY <1>2, <2>1, <2>3 DEF RoundInv, Types
  <2>5. ReadsSound'
    <3> SUFFICES ASSUME NEW r \in reads PROVE Sound(r)'
      BY <1>2 DEF ReadsSound
    <3>1. Sound(r)
      BY Unpacked
    <3> QED BY <1>2, <2>3, <3>1 DEF Sound, Behind
  <2>6. Picked'
    BY <1>2, <2>1, <2>3 DEF RoundInv, Picked, Awaiting
  <2>7. HandlesFollowTheRound'
    BY <1>2, <2>1, <2>2, <2>3 DEF RoundInv, HandlesFollowTheRound, Awaiting
  <2>8. VerdictsAreReal'
    BY <1>2, <2>3 DEF RoundInv, VerdictsAreReal
  <2>9. PolledFactsAreOfThisRound'
    BY <1>2, <2>1, <2>3 DEF RoundInv, PolledFactsAreOfThisRound
  <2> QED BY <2>4, <2>5, <2>6, <2>7, <2>8, <2>9 DEF RoundInv
<1>3. CASE GateOpens
  BY <1>2, <1>3 DEF GateOpens, counts
<1>4. CASE SubmitUpdate
  BY <1>2, <1>4 DEF SubmitUpdate, counts
<1>5. CASE UpdateDeclined
  <2>1. /\ mod' \in ModType /\ mod'.live = mod.live /\ mod'.polls = mod.polls
        /\ mod'.node = mod.node /\ mod'.gate = mod.gate
    BY <1>5, Unpacked DEF UpdateDeclined, ModType
  <2>2. Quiet
    BY <1>5, <2>1, Unpacked, SameRound DEF UpdateDeclined, Quiet, Shown, counts
  <2> QED BY <2>2, QuietKeeps
<1> QED BY <1>1, <1>3, <1>4, <1>5

\* A teardown drops the round's reads.
LEMMA AsksGo ==
    ASSUME RoundInv, NEW kinds, reads' = Outdated(reads, kinds)
    PROVE  /\ reads' \subseteq ReadType
           /\ \A r \in reads' :
                 \E q \in reads : /\ r.kind = q.kind /\ r.did = q.did /\ r.cohort = q.cohort
                                  /\ r.fresh => r = q /\ r.kind \notin kinds
BY Unpacked, OutdatedReads

\* Starting over and leaving take the whole round.
LEMMA WayOutKeeps ==
    ASSUME RoundInv, StartOver \/ Leave
    PROVE  RoundInv'
<1>1. /\ tab' \in TabType /\ tab'.status \in {"no-identity", "ready"}
  BY Unpacked DEF StartOver, Leave, TabType
<1>2. /\ mod' \in ModType /\ mod'.live = 0 /\ mod'.gate = 0 /\ mod'.polls = {}
      /\ mod'.node = None
  <2>1. /\ EndRound(mod) \in ModType /\ EndRound(mod).live = 0 /\ EndRound(mod).gate = 0
        /\ EndRound(mod).polls = {}
    BY Unpacked, EndRoundClears
  <2>2. mod' = TeardownArtifacts(EndRound(mod))
    BY DEF StartOver, Leave
  <2> QED BY <2>1, <2>2, ArtifactsGo
<1>3. reads' = Outdated(reads, RoundReads \cup {"ipfs"})
  BY DEF StartOver, Leave
<1>4. /\ reads' \subseteq ReadType
      /\ \A r \in reads' :
            \E q \in reads : /\ r.kind = q.kind /\ r.did = q.did /\ r.cohort = q.cohort
                             /\ r.fresh => r = q /\ r.kind \notin (RoundReads \cup {"ipfs"})
  BY <1>3, AsksGo
<1>5. round' = NoRound /\ NoRound \in RoundType /\ ~NoRound.pendingSubmit
      /\ outcome' = InitialOutcome /\ world' = world /\ joined' = joined
  BY DEF StartOver, Leave, NoRound, RoundType, Where, counts
<1>6. Over
  BY <1>1, <1>2, <1>4, <1>5, InitialOutcomeTyped DEF Over
<1>7. Vacated
  BY <1>2, <1>4, <1>5, <1>6 DEF Vacated
<1> QED BY <1>7, VacatedKeeps

\* The failures: of start(), of the runner, of the grace window.
LEMMA FailuresKeep ==
    ASSUME RoundInv,
           CohortFailed \/ GraceExpires \/ \E r \in reads : StartFails(r)
    PROVE  RoundInv'
<1>1. CASE CohortFailed
  BY <1>1, FailKeeps, Unpacked DEF CohortFailed, counts
<1>2. CASE GraceExpires
  <2>1. round.picked # None /\ world[round.picked] # "Advertised"
    BY <1>2 DEF RoundInv, Picked, GraceExpires, AwaitingSeat
  <2> QED BY <1>2, <2>1, FailKeeps, Unpacked DEF GraceExpires, counts
<1>3. ASSUME NEW r \in reads, StartFails(r) PROVE RoundInv'
  <2>1. reads \ {r} \in SUBSET ReadType
    BY Unpacked
  <2> QED BY <1>3, <2>1, FailKeeps DEF StartFails, counts
<1> QED BY <1>1, <1>2, <1>3

\* A tick asks in this round.
LEMMA TicksKeep ==
    ASSUME RoundInv,
           DirectoryTick \/ PostSeatTick \/ FundingTick \/ AnchorTick \/ LagTick
    PROVE  RoundInv'
<1>1. ASSUME NEW r \in ReadType, Sound(r), reads' \subseteq reads \cup {r},
             UNCHANGED <<world, tab, round, outcome, mod, joined>>
      PROVE  RoundInv'
  <2>1. Quiet
    BY <1>1, Unpacked, SameRound DEF Quiet, Shown
  <2> QED BY <2>1, QuietKeeps
<1>2. ASSUME NEW kind \in {"directory", "postSeat"},
             Tick(kind, Read(kind, None, None, world))
      PROVE  RoundInv'
  <2> DEFINE r == Read(kind, None, None, world)
  <2>1. world \in [Cohort -> Listing]
    BY DEF RoundInv, Types
  <2>2. r \in ReadType /\ r.kind = kind /\ r.rows = world
    BY <2>1 DEF Read, ReadType, Kinds, Who, Where
  <2>3. Sound(r)
    <3>1. round.picked # None => Behind(world)
      BY <2>1 DEF Behind, RoundInv, Picked, Listing
    <3> HIDE DEF r
    <3> QED BY <2>2, <3>1 DEF Sound
  <2>4. reads' = reads \cup {r} /\ UNCHANGED <<world, tab, round, outcome, mod, joined>>
    BY <1>2 DEF Tick, counts
  <2> QED BY <1>1, <2>2, <2>3, <2>4
<1>3. CASE FundingTick
  <2> DEFINE r == Read("funding", None, round.picked, None)
  <2>1. r \in ReadType /\ r.kind = "funding" /\ r.cohort = round.picked
    BY Unpacked DEF Read, ReadType, RoundType, Kinds, Who, Where
  <2>2. tab.status = "live"
    BY <1>3 DEF FundingTick, Tick, RoundInv, HandlesFollowTheRound
  <2>3. Sound(r)
    <3> HIDE DEF r
    <3> QED BY <2>1, <2>2 DEF Sound
  <2>4. reads' = reads \cup {r} /\ UNCHANGED <<world, tab, round, outcome, mod, joined>>
    BY <1>3 DEF FundingTick, Tick, counts
  <2> QED BY <1>1, <2>1, <2>3, <2>4
<1>4. CASE AnchorTick
  <2> DEFINE r == Read("anchor", None, round.picked, None)
  <2>1. r \in ReadType /\ r.kind = "anchor" /\ r.cohort = round.picked
    BY Unpacked DEF Read, ReadType, RoundType, Kinds, Who, Where
  <2>2. tab.status = "complete"
    BY <1>4 DEF AnchorTick, Tick, RoundInv, HandlesFollowTheRound
  <2>3. Sound(r)
    <3> HIDE DEF r
    <3> QED BY <2>1, <2>2 DEF Sound
  <2>4. reads' = reads \cup {r} /\ UNCHANGED <<world, tab, round, outcome, mod, joined>>
    BY <1>4 DEF AnchorTick, Tick, counts
  <2> QED BY <1>1, <2>1, <2>3, <2>4
<1>5. CASE LagTick
  <2> DEFINE r == Read("resolve", tab.identity, None, None)
  <2>1. r \in ReadType /\ r.kind = "resolve"
    BY Unpacked DEF Read, ReadType, TabType, Kinds, Who, Where
  <2>2. Sound(r)
    <3> HIDE DEF r
    <3> QED BY <2>1 DEF Sound
  <2>3. reads' \subseteq reads \cup {r}
        /\ UNCHANGED <<world, tab, round, joined>>
    BY <1>5 DEF LagTick, counts
  <2> HIDE DEF r
  <2>4. /\ mod' \in ModType /\ mod'.live = mod.live /\ mod'.gate = mod.gate
        /\ mod'.polls \subseteq mod.polls /\ mod'.node = mod.node
    <3>1. mod' = ClearLagRetry(mod) \/ mod' = [mod EXCEPT !.lag = @ + 1]
      BY <1>5 DEF LagTick
    <3> QED BY <3>1, Unpacked DEF ModType, ClearLagRetry
  <2>5. outcome' \in OutcomeType /\ Shown(outcome')
    <3>1. outcome' = outcome \/ outcome' = [outcome EXCEPT !.resolved.status = "resolving"]
      BY <1>5 DEF LagTick, Resolving
    <3> QED BY <3>1, Unpacked DEF OutcomeType, Statuses, Shown
  <2>6. Quiet
    BY <2>1, <2>2, <2>3, <2>4, <2>5, Unpacked, SameRound DEF Quiet
  <2> QED BY <2>6, QuietKeeps
<1> QED BY <1>2, <1>3, <1>4, <1>5 DEF DirectoryTick, PostSeatTick

\* The answers that are lost, dropped or only counted.
LEMMA SilenceKeeps ==
    ASSUME RoundInv, NEW r \in reads, Lost(r) \/ Dropped(r) \/ PollFails(r)
    PROVE  RoundInv'
<1>1. CASE Lost(r) \/ Dropped(r)
  <2>1. Quiet
    BY <1>1, Unpacked, SameRound DEF Lost, Dropped, Landed, Quiet, Shown, counts
  <2> QED BY <2>1, QuietKeeps
<1>2. ASSUME NEW counter \in {"postSeatFailures", "anchorFailures"}, CountFailure(r, counter)
      PROVE  RoundInv'
  <2> DEFINE n == IF mod[counter] < Unreachable THEN mod[counter] + 1 ELSE Unreachable
  <2>1. n \in Nat
    BY <1>2, Unpacked, RoundAssumption DEF ModType
  <2>2. /\ mod' = [mod EXCEPT ![counter] = n]
        /\ outcome' = [outcome EXCEPT !.unreachable = @ \/ n = Unreachable]
        /\ reads' = reads \ {r} /\ UNCHANGED <<world, tab, round, joined>>
    BY <1>2 DEF CountFailure, Landed, counts
  <2> HIDE DEF n
  <2>3. /\ mod' \in ModType /\ mod'.live = mod.live /\ mod'.gate = mod.gate
        /\ mod'.polls = mod.polls /\ mod'.node = mod.node
    BY <1>2, <2>1, <2>2, Unpacked DEF ModType
  <2>4. outcome' \in OutcomeType /\ Shown(outcome')
    <3> DEFINE u == outcome.unreachable \/ n = Unreachable
    <3>1. u \in BOOLEAN /\ outcome' = [outcome EXCEPT !.unreachable = u]
      BY <2>2
    <3> HIDE DEF u
    <3> QED BY <3>1, Unpacked DEF OutcomeType, Shown
  <2>5. Quiet
    BY <2>2, <2>3, <2>4, Unpacked, SameRound DEF Quiet
  <2> QED BY <2>5, QuietKeeps
<1> QED BY <1>1, <1>2 DEF PollFails

\* A step that only rewrites the outcome, and asks something no round depends on.
LEMMA DeskKeeps ==
    ASSUME RoundInv, UNCHANGED <<world, tab, round, mod, joined>>,
           outcome' \in OutcomeType, Shown(outcome'),
           \A r \in reads' : r \in reads
               \/ /\ r \in ReadType
                  /\ \/ r.kind \in {"resolve", "utxos", "broadcast"}
                     \/ r.kind = "ipfs" /\ r.did = tab.identity
    PROVE  RoundInv'
<1>1. \A r \in reads' : r \in reads \/ Sound(r)
  BY DEF Sound
<1>2. reads' \subseteq ReadType
  BY Unpacked
<1>3. Quiet
  BY <1>1, <1>2, Unpacked, SameRound DEF Quiet
<1> QED BY <1>3, QuietKeeps

\* Resolving: asked on the completion page, written whenever it is answered.
LEMMA ResolveKeeps ==
    ASSUME RoundInv, Resolve \/ \E r \in reads : ResolveAnswered(r)
    PROVE  RoundInv'
<1>1. CASE Resolve
  <2> DEFINE r == Read("resolve", tab.identity, None, None)
  <2>1. r \in ReadType /\ r.kind = "resolve"
    BY Unpacked DEF Read, ReadType, TabType, Kinds, Who, Where
  <2>2. outcome' = [outcome EXCEPT !.resolved.status = "resolving"]
        /\ reads' = reads \cup {r} /\ UNCHANGED <<world, tab, round, mod, joined>>
    BY <1>1 DEF Resolve, Resolving, counts
  <2> HIDE DEF r
  <2>3. outcome' \in OutcomeType /\ Shown(outcome')
    BY <2>2, Unpacked DEF OutcomeType, Statuses, Shown
  <2> QED BY <2>1, <2>2, <2>3, DeskKeeps
<1>2. ASSUME NEW r \in reads, ResolveAnswered(r) PROVE RoundInv'
  <2>1. reads' \subseteq reads /\ UNCHANGED <<world, tab, round, mod, joined>>
    BY <1>2 DEF ResolveAnswered, Landed, counts
  <2>2. CASE outcome' = [outcome EXCEPT !.resolved.status = "failed"]
    <3>1. outcome' \in OutcomeType /\ Shown(outcome')
      BY <2>2, Unpacked DEF OutcomeType, Statuses, Shown
    <3> QED BY <2>1, <3>1, DeskKeeps
  <2>3. ASSUME NEW reflected \in BOOLEAN,
               outcome' = [outcome EXCEPT !.resolved =
                             [status |-> "resolved", did |-> r.did, reflected |-> reflected]]
        PROVE  RoundInv'
    <3> DEFINE told == [status |-> "resolved", did |-> r.did, reflected |-> reflected]
    <3>1. r.did \in Who
      BY Unpacked DEF ReadType
    <3>2. told \in [status : Statuses, did : Who, reflected : BOOLEAN]
      BY <2>3, <3>1 DEF Statuses
    <3>3. outcome' = [outcome EXCEPT !.resolved = told]
      BY <2>3
    <3> HIDE DEF told
    <3>4. outcome' \in OutcomeType /\ Shown(outcome')
      BY <3>2, <3>3, Unpacked DEF OutcomeType, Shown
    <3> QED BY <2>1, <3>4, DeskKeeps
  <2> QED BY <1>2, <2>2, <2>3 DEF ResolveAnswered
<1> QED BY <1>1, <1>2

\* The registration status is written from any answer, and asks the next read.
LEMMA RegisterKeeps ==
    ASSUME RoundInv,
           Register \/ \E r \in reads : UtxosAnswered(r) \/ BroadcastAnswered(r)
    PROVE  RoundInv'
<1>1. ASSUME NEW s \in Statuses, NEW who \in Who,
             outcome' = [outcome EXCEPT !.reg = [status |-> s, did |-> who]],
             \A r \in reads' : r \in reads
                 \/ (r \in ReadType /\ r.kind \in {"utxos", "broadcast"}),
             UNCHANGED <<world, tab, round, mod, joined>>
      PROVE  RoundInv'
  <2> DEFINE told == [status |-> s, did |-> who]
  <2>1. told \in [status : Statuses, did : Who] /\ outcome' = [outcome EXCEPT !.reg = told]
    BY <1>1
  <2> HIDE DEF told
  <2>2. outcome' \in OutcomeType /\ Shown(outcome')
    BY <2>1, Unpacked DEF OutcomeType, Shown
  <2> QED BY <1>1, <2>2, DeskKeeps
<1>2. \A who \in Who :
          /\ Read("utxos", who, None, None) \in ReadType
          /\ Read("utxos", who, None, None).kind = "utxos"
          /\ Read("broadcast", who, None, None) \in ReadType
          /\ Read("broadcast", who, None, None).kind = "broadcast"
  BY DEF Read, ReadType, Kinds, Where
<1>3. tab.identity \in Who /\ \A r \in reads : r.did \in Who
  BY Unpacked DEF TabType, ReadType, Who
<1>4. CASE Register
  <2>1. PICK s \in {"failed", "checking"} :
            outcome' = [outcome EXCEPT !.reg = [status |-> s, did |-> tab.identity]]
    BY <1>4 DEF Register
  <2>2. reads' \subseteq reads \cup {Read("utxos", tab.identity, None, None)}
        /\ UNCHANGED <<world, tab, round, mod, joined>>
    BY <1>4 DEF Register
  <2>3. s \in Statuses
    BY DEF Statuses
  <2>4. \A q \in reads' : q \in reads \/ (q \in ReadType /\ q.kind \in {"utxos", "broadcast"})
    BY <1>2, <1>3, <2>2
  <2> QED BY <1>1, <1>3, <2>1, <2>2, <2>3, <2>4
<1>5. ASSUME NEW r \in reads, UtxosAnswered(r) PROVE RoundInv'
  <2>1. PICK s \in {"failed", "awaiting-funds", "broadcasting"} :
            outcome' = [outcome EXCEPT !.reg = [status |-> s, did |-> r.did]]
    BY <1>5 DEF UtxosAnswered
  <2>2. reads' \subseteq reads \cup {Read("broadcast", r.did, None, None)}
        /\ UNCHANGED <<world, tab, round, mod, joined>>
    BY <1>5 DEF UtxosAnswered, counts
  <2>3. s \in Statuses
    BY DEF Statuses
  <2>4. \A q \in reads' : q \in reads \/ (q \in ReadType /\ q.kind \in {"utxos", "broadcast"})
    BY <1>2, <1>3, <2>2
  <2> QED BY <1>1, <1>3, <2>1, <2>2, <2>3, <2>4
<1>6. ASSUME NEW r \in reads, BroadcastAnswered(r) PROVE RoundInv'
  <2>1. PICK s \in {"registered", "failed"} :
            outcome' = [outcome EXCEPT !.reg = [status |-> s, did |-> r.did]]
    BY <1>6 DEF BroadcastAnswered
  <2>2. reads' \subseteq reads /\ UNCHANGED <<world, tab, round, mod, joined>>
    BY <1>6 DEF BroadcastAnswered, Landed, counts
  <2>3. s \in Statuses
    BY DEF Statuses
  <2>4. \A q \in reads' : q \in reads
    BY <2>2
  <2> QED BY <1>1, <1>3, <2>1, <2>2, <2>3, <2>4
<1> QED BY <1>4, <1>5, <1>6

\* Publishing is this identity's while its read is fresh.
LEMMA PublishKeeps ==
    ASSUME RoundInv,
           PublishIpfs \/ \E r \in reads : NodeBooted(r) \/ PublishEnds(r)
    PROVE  RoundInv'
<1>1. CASE PublishIpfs
  <2> DEFINE told == [status |-> "publishing", did |-> tab.identity]
             r == Read("ipfs", tab.identity, None, "boot")
  <2>1. r \in ReadType /\ r.kind = "ipfs" /\ r.did = tab.identity
    BY Unpacked DEF Read, ReadType, TabType, Kinds, Who, Where
  <2>2. told \in [status : Statuses, did : Who] /\ told.did = tab.identity
    BY Unpacked DEF TabType, Statuses, Who
  <2>3. outcome' = [outcome EXCEPT !.ipfs = told] /\ reads' = reads \cup {r}
        /\ UNCHANGED <<world, tab, round, mod, joined>>
    BY <1>1 DEF PublishIpfs
  <2> HIDE DEF told, r
  <2>4. outcome' \in OutcomeType /\ Shown(outcome')
    BY <2>2, <2>3, Unpacked DEF OutcomeType, Shown
  <2> QED BY <2>1, <2>3, <2>4, DeskKeeps
<1>2. ASSUME NEW r \in reads, NodeBooted(r) PROVE RoundInv'
  <2> DEFINE pin == [r EXCEPT !.rows = "pin"]
  <2>1. r \in ReadType /\ r.kind = "ipfs" /\ r.fresh /\ r.did = tab.identity
    BY <1>2, Unpacked DEF NodeBooted, Sound
  <2>2. pin \in ReadType /\ pin.kind = "ipfs" /\ pin.did = tab.identity
    BY <2>1 DEF ReadType
  <2>3. reads' = (reads \ {r}) \cup {pin} /\ UNCHANGED <<world, tab, round, outcome, joined>>
        /\ mod' = [mod EXCEPT !.node = IF @ = None THEN r.did ELSE @]
    BY <1>2 DEF NodeBooted, counts
  <2> HIDE DEF pin
  <2>4. /\ mod' \in ModType /\ mod'.live = mod.live /\ mod'.gate = mod.gate
        /\ mod'.polls = mod.polls /\ mod'.node \in {mod.node, tab.identity}
    <3> DEFINE n == IF mod.node = None THEN r.did ELSE mod.node
    <3>1. n \in Who /\ n \in {mod.node, tab.identity} /\ mod' = [mod EXCEPT !.node = n]
      BY <2>1, <2>3, Unpacked DEF ModType, ReadType
    <3> HIDE DEF n
    <3> QED BY <3>1, Unpacked DEF ModType
  <2>5. Sound(pin)
    BY <2>2 DEF Sound
  <2>6. Quiet
    BY <2>2, <2>3, <2>4, <2>5, Unpacked, SameRound DEF Quiet, Shown
  <2> QED BY <2>6, QuietKeeps
<1>3. ASSUME NEW r \in reads, PublishEnds(r) PROVE RoundInv'
  <2>1. PICK s \in {"published", "failed"} :
            outcome' = [outcome EXCEPT !.ipfs = [status |-> s, did |-> r.did]]
    BY <1>3 DEF PublishEnds
  <2>2. r.did = tab.identity /\ r.did \in Who
    BY <1>3, Unpacked DEF PublishEnds, Sound, ReadType
  <2> DEFINE told == [status |-> s, did |-> r.did]
  <2>3. told \in [status : Statuses, did : Who] /\ told.did = tab.identity
    BY <2>2 DEF Statuses
  <2>4. outcome' = [outcome EXCEPT !.ipfs = told] /\ reads' \subseteq reads
        /\ UNCHANGED <<world, tab, round, mod, joined>>
    BY <1>3, <2>1 DEF PublishEnds, Landed, counts
  <2> HIDE DEF told
  <2>5. outcome' \in OutcomeType /\ Shown(outcome')
    BY <2>3, <2>4, Unpacked DEF OutcomeType, Shown
  <2> QED BY <2>4, <2>5, DeskKeeps
<1> QED BY <1>1, <1>2, <1>3

\* The fate read is checked against the round on screen, the funding read by its epoch.
LEMMA FactsKeep ==
    ASSUME RoundInv, NEW r \in reads, FateAnswered(r) \/ FundingAnswered(r)
    PROVE  RoundInv'
<1>1. r.cohort \in Where
  BY Unpacked DEF ReadType
<1>2. CASE FateAnswered(r)
  <2>1. reads' \subseteq reads /\ UNCHANGED <<world, tab, round, mod, joined>>
    BY <1>2 DEF FateAnswered, Landed, counts
  <2>2. outcome' = outcome
        \/ (outcome' = [outcome EXCEPT !.canceled = r.cohort] /\ r.cohort = round.picked)
    BY <1>2 DEF FateAnswered
  <2>3. outcome' \in OutcomeType /\ Shown(outcome')
    BY <1>1, <2>2, Unpacked DEF OutcomeType, Shown
  <2> QED BY <2>1, <2>3, DeskKeeps
<1>3. CASE FundingAnswered(r)
  <2>1. reads' \subseteq reads /\ UNCHANGED <<world, tab, round, mod, joined>>
    BY <1>3 DEF FundingAnswered, Landed, counts
  <2>2. PICK awaiting \in {r.cohort, None} :
            outcome' = [outcome EXCEPT !.awaitingFunding = awaiting]
    BY <1>3 DEF FundingAnswered
  <2>3. r.cohort = round.picked
    BY <1>3, Unpacked DEF FundingAnswered, Sound
  <2>4. awaiting \in Where
    BY <1>1 DEF Where
  <2>5. outcome' \in OutcomeType /\ Shown(outcome')
    BY <2>2, <2>3, <2>4, Unpacked DEF OutcomeType, Shown
  <2> QED BY <2>1, <2>5, DeskKeeps
<1> QED BY <1>2, <1>3

\* start() answers: the directory poll begins only if its runner still waits for a seat.
LEMMA StartedKeeps ==
    ASSUME RoundInv, NEW r \in reads, Started(r)
    PROVE  RoundInv'
<1>1. reads' \subseteq reads /\ UNCHANGED <<world, tab, round, outcome, joined>>
  BY DEF Started, Landed, counts
<1>2. CASE mod' = mod
  <2>1. Quiet
    BY <1>1, <1>2, Unpacked, SameRound DEF Quiet, Shown
  <2> QED BY <2>1, QuietKeeps
<1>3. CASE /\ mod.live = r.did /\ ~round.seated
           /\ mod' = [mod EXCEPT !.polls = @ \cup {"directory"}]
  <2>1. mod.live # 0
    BY <1>3, Unpacked DEF Started, Sound
  <2>2. Awaiting
    BY <2>1 DEF RoundInv, HandlesFollowTheRound
  <2>3. Fits("directory")
    BY <1>3, <2>2 DEF Fits
  <2>4. /\ mod' \in ModType /\ mod'.live = mod.live /\ mod'.gate = mod.gate
        /\ mod'.polls = mod.polls \cup {"directory"} /\ mod'.node = mod.node
    BY <1>3, Unpacked DEF ModType, Polls
  <2>5. Quiet
    BY <1>1, <2>3, <2>4, Unpacked, SameRound DEF Quiet, Shown
  <2> QED BY <2>5, QuietKeeps
<1> QED BY <1>2, <1>3 DEF Started

\* A fresh snapshot ends the join only for a cohort that has left the Advertised set.
LEMMA DirectoryKeeps ==
    ASSUME RoundInv, NEW r \in reads, DirectoryAnswered(r)
    PROVE  RoundInv'
<1> USE DEF DirectoryAnswered, counts
<1>1. AwaitingSeat => Behind(r.rows)
  BY Unpacked DEF AwaitingSeat, Sound
<1>2. CASE SnapshotIgnored(r)
  <2>1. Quiet
    BY <1>2, Unpacked, SameRound DEF SnapshotIgnored, Landed, Quiet, Shown
  <2> QED BY <2>1, QuietKeeps
<1>3. ASSUME NEW waits \in {round.picked, None}, round' = [round EXCEPT !.awaitingSeats = waits],
             mod' = ClearJoinGrace(mod)
                \/ (mod' = [mod EXCEPT !.polls = @ \cup {"grace"}] /\ Fits("grace")),
             Landed(r), UNCHANGED <<tab, outcome>>
      PROVE  RoundInv'
  <2>1. /\ mod' \in ModType /\ mod'.live = mod.live /\ mod'.gate = mod.gate
        /\ mod'.polls \subseteq mod.polls \cup {"grace"} /\ mod'.node = mod.node
    BY <1>3, Unpacked DEF ModType, Polls, ClearJoinGrace
  <2>2. "grace" \in mod'.polls => Fits("grace")
    BY <1>3, Unpacked DEF ModType, ClearJoinGrace
  <2>3. Quiet
    BY <1>3, <2>1, <2>2, Unpacked DEF Quiet, Shown, Landed
  <2> QED BY <2>3, QuietKeeps
<1>4. Seats(r.rows) \in {round.picked, None}
  BY DEF Seats
<1>5. CASE StillOpen(r)
  BY <1>3, <1>4, <1>5 DEF StillOpen
<1>6. CASE ClosedBeforeOptIn(r)
  <2>1. round.picked # None /\ world[round.picked] # "Advertised"
    BY <1>1, <1>6 DEF ClosedBeforeOptIn, AwaitingSeat, PickedCohortClosed, Behind
  <2>2. reads \ {r} \in SUBSET ReadType
    BY Unpacked
  <2> QED BY <1>6, <2>1, <2>2, FailKeeps DEF ClosedBeforeOptIn
<1>7. CASE ClosedAfterOptIn(r)
  <2>1. Fits("grace")
    BY <1>1, <1>7 DEF ClosedAfterOptIn, AwaitingSeat, PickedCohortClosed, Behind, Fits
  <2> QED BY <1>3, <1>4, <1>7, <2>1 DEF ClosedAfterOptIn
<1> QED BY <1>2, <1>5, <1>6, <1>7 DEF HandleDirectorySnapshot

\* A streak of fresh snapshots without the seated cohort means that it has gone.
LEMMA PostSeatKeeps ==
    ASSUME RoundInv, NEW r \in reads, PostSeatAnswered(r)
    PROVE  RoundInv'
<1> USE DEF PostSeatAnswered, counts
<1>1. CASE SeatedCohortListed(r) \/ SeatedCohortMissing(r)
  <2>1. \E n \in Nat : mod' = [mod EXCEPT !.postSeatFailures = 0, !.goneStreak = n]
    <3>1. CASE SeatedCohortListed(r)
      <4> DEFINE n == IF Watching THEN 0 ELSE mod.goneStreak
      <4>1. n \in Nat /\ mod' = [mod EXCEPT !.postSeatFailures = 0, !.goneStreak = n]
        BY <3>1, Unpacked DEF SeatedCohortListed, ModType
      <4> QED BY <4>1
    <3>2. CASE SeatedCohortMissing(r)
      <4> DEFINE n == mod.goneStreak + 1
      <4>1. n \in Nat /\ mod' = [mod EXCEPT !.postSeatFailures = 0, !.goneStreak = n]
        BY <3>2, Unpacked DEF SeatedCohortMissing, ModType
      <4> QED BY <4>1
    <3> QED BY <1>1, <3>1, <3>2
  <2>2. /\ mod' \in ModType /\ mod'.live = mod.live /\ mod'.gate = mod.gate
        /\ mod'.polls = mod.polls /\ mod'.node = mod.node
    <3>1. PICK n \in Nat : mod' = [mod EXCEPT !.postSeatFailures = 0, !.goneStreak = n]
      BY <2>1
    <3> QED BY <3>1, Unpacked DEF ModType
  <2>3. outcome' = outcome \/ outcome' = [outcome EXCEPT !.unreachable = FALSE]
    BY <1>1 DEF SeatedCohortListed, SeatedCohortMissing
  <2>4. outcome' \in OutcomeType /\ Shown(outcome')
    BY <2>3, Unpacked DEF OutcomeType, Shown
  <2>5. reads' \subseteq reads /\ UNCHANGED <<world, tab, round, joined>>
    BY <1>1 DEF SeatedCohortListed, SeatedCohortMissing, Landed
  <2>6. Quiet
    BY <2>2, <2>4, <2>5, Unpacked, SameRound DEF Quiet
  <2> QED BY <2>6, QuietKeeps
<1>2. CASE SeatedCohortGone(r)
  <2>1. round.picked # None /\ Behind(r.rows)
    BY <1>2, Unpacked DEF SeatedCohortGone, Watching, Sound
  <2>2. world[round.picked] = "gone"
    BY <1>2, <2>1 DEF SeatedCohortGone, PostSeatCohortGone, Listed, Behind
  <2> DEFINE fate == Read("fate", None, round.picked, None)
  <2>3. fate \in ReadType /\ fate.kind = "fate"
    BY Unpacked DEF Read, ReadType, RoundType, Kinds, Who, Where
  <2>4. Fail("dark", (reads \ {r}) \cup {fate})
    BY <1>2 DEF SeatedCohortGone
  <2> HIDE DEF fate
  <2> DEFINE asked == (reads \ {r}) \cup {fate}
  <2>5. asked \in SUBSET ReadType /\ \A q \in asked : q \in reads \/ q.kind = "fate"
    BY <2>3, Unpacked
  <2>6. Fail("dark", asked)
    BY <2>4
  <2> HIDE DEF asked
  <2> QED BY <2>1, <2>2, <2>5, <2>6, FailKeeps
<1> QED BY <1>1, <1>2

\* A fresh anchor answer is about the completed cohort on screen.
LEMMA AnchorKeeps ==
    ASSUME RoundInv, NEW r \in reads, AnchorAnswered(r)
    PROVE  RoundInv'
<1>1. tab.status = "complete" /\ r.cohort = round.picked /\ r.cohort \in Where
  BY Unpacked DEF AnchorAnswered, Sound, ReadType
<1>2. PICK s \in AnchorStates :
          LET told == [outcome EXCEPT !.anchor = [cohort |-> r.cohort, state |-> s],
                                      !.unreachable = FALSE]
              resolves == Settles(s) /\ ~mod.autoResolved /\ tab.identity # None
              asked == (reads \ {r}) \cup
                         (IF resolves THEN {Read("resolve", tab.identity, None, None)} ELSE {})
              retried == [mod EXCEPT !.anchorFailures = 0,
                            !.autoResolved = @ \/ Settles(s),
                            !.polls = IF resolves /\ s # "off" THEN @ \cup {"lag"} ELSE @,
                            !.lag = IF resolves /\ s # "off" THEN 0 ELSE @]
          IN  /\ outcome' = IF resolves THEN Resolving(told) ELSE told
              /\ mod' = IF Settles(s) THEN ClearAnchorPoll(retried) ELSE retried
              /\ reads' = IF Settles(s) THEN Outdated(asked, {"anchor"}) ELSE asked
  BY DEF AnchorAnswered
<1> DEFINE seen == [cohort |-> r.cohort, state |-> s]
           told == [outcome EXCEPT !.anchor = seen, !.unreachable = FALSE]
           resolves == Settles(s) /\ ~mod.autoResolved /\ tab.identity # None
           more == Read("resolve", tab.identity, None, None)
           asked == (reads \ {r}) \cup (IF resolves THEN {more} ELSE {})
           auto == mod.autoResolved \/ Settles(s)
           polls == IF resolves /\ s # "off" THEN mod.polls \cup {"lag"} ELSE mod.polls
           lag == IF resolves /\ s # "off" THEN 0 ELSE mod.lag
           retried == [mod EXCEPT !.anchorFailures = 0, !.autoResolved = auto,
                                  !.polls = polls, !.lag = lag]
<1>3. UNCHANGED <<world, tab, round, joined>>
  BY DEF AnchorAnswered, counts
<1>4. outcome' \in OutcomeType /\ Shown(outcome')
  <2>1. seen \in [cohort : Where, state : AnchorStates] /\ seen.cohort = round.picked
    BY <1>1
  <2>2. outcome' = IF resolves THEN Resolving(told) ELSE told
    BY <1>2
  <2> HIDE DEF seen, resolves
  <2>3. told \in OutcomeType /\ Shown(told)
    BY <2>1, Unpacked DEF OutcomeType, Shown
  <2> HIDE DEF told
  <2>4. Resolving(told) \in OutcomeType /\ Shown(Resolving(told))
    BY <2>3 DEF OutcomeType, Statuses, Shown, Resolving
  <2> QED BY <2>2, <2>3, <2>4
<1>5. /\ mod' \in ModType /\ mod'.live = mod.live /\ mod'.gate = mod.gate
      /\ mod'.polls \subseteq mod.polls \cup {"lag"} /\ mod'.node = mod.node
  <2>1. mod' = IF Settles(s) THEN ClearAnchorPoll(retried) ELSE retried
    BY <1>2
  <2>2. auto \in BOOLEAN /\ polls \in SUBSET Polls /\ lag \in Nat
        /\ polls \subseteq mod.polls \cup {"lag"}
    BY Unpacked DEF ModType, Polls, Settles
  <2> HIDE DEF auto, polls, lag
  <2>3. /\ retried \in ModType /\ retried.live = mod.live /\ retried.gate = mod.gate
        /\ retried.polls = polls /\ retried.node = mod.node
    BY <2>2, Unpacked DEF ModType
  <2> HIDE DEF retried
  <2>4. /\ ClearAnchorPoll(retried) \in ModType
        /\ ClearAnchorPoll(retried).live = retried.live
        /\ ClearAnchorPoll(retried).gate = retried.gate
        /\ ClearAnchorPoll(retried).polls \subseteq polls
        /\ ClearAnchorPoll(retried).node = retried.node
    BY <2>3 DEF ModType, ClearAnchorPoll
  <2> QED BY <2>1, <2>2, <2>3, <2>4
<1>6. Fits("lag")
  BY <1>1 DEF Fits
<1>7. more \in ReadType /\ more.kind = "resolve"
  BY Unpacked DEF Read, ReadType, TabType, Kinds, Who, Where
<1>8. reads' \subseteq ReadType /\ \A q \in reads' : q \in reads \/ Sound(q)
  <2>1. reads' = asked \/ reads' = Outdated(asked, {"anchor"})
    BY <1>2
  <2>2. Sound(more)
    <3> HIDE DEF more
    <3> QED BY <1>7 DEF Sound
  <2> HIDE DEF more, resolves
  <2>3. asked \in SUBSET ReadType /\ \A q \in asked : Sound(q)
    BY <1>7, <2>2, Unpacked
  <2> HIDE DEF asked
  <2>4. CASE reads' = asked
    BY <2>3, <2>4
  <2>5. CASE reads' = Outdated(asked, {"anchor"})
    <3>1. /\ reads' \subseteq ReadType
          /\ \A q \in reads' :
                \E p \in asked : /\ q.kind = p.kind /\ q.did = p.did /\ q.cohort = p.cohort
                                 /\ q.fresh => q = p /\ q.kind \notin {"anchor"}
      BY <2>3, <2>5, OutdatedReads
    <3>2. ASSUME NEW q \in reads' PROVE Sound(q)
      BY <2>3, <3>1 DEF Sound
    <3> QED BY <3>1, <3>2
  <2> QED BY <2>1, <2>4, <2>5
<1>9. Quiet
  BY <1>3, <1>4, <1>5, <1>6, <1>8, Unpacked, SameRound DEF Quiet
<1> QED BY <1>9, QuietKeeps

\* The seat ends the join's polls and starts the seated ones.
LEMMA CohortReadyKeeps ==
    ASSUME RoundInv, CohortReady
    PROVE  RoundInv'
<1> USE DEF CohortReady, counts
<1> DEFINE a == ClearDirectoryPoll(mod)
           b == ClearJoinGrace(a)
           c == ClearPostSeatPoll(b)
           d == ClearFundingPoll(c)
<1>1. tab.status = "live" /\ Awaiting /\ round.picked # None
  BY DEF RoundInv, HandlesFollowTheRound, Picked
<1>2. mod' = [d EXCEPT !.polls = @ \cup {"postSeat", "funding"}]
  OBVIOUS
<1>3. a \in ModType /\ a.live = mod.live /\ a.gate = mod.gate /\ a.node = mod.node
      /\ a.polls = mod.polls \ {"directory"}
  BY Unpacked DEF ModType, ClearDirectoryPoll
<1> HIDE DEF a
<1>4. b \in ModType /\ b.live = a.live /\ b.gate = a.gate /\ b.node = a.node
      /\ b.polls = a.polls \ {"grace"}
  BY <1>3 DEF ModType, ClearJoinGrace
<1> HIDE DEF b
<1>5. c \in ModType /\ c.live = b.live /\ c.gate = b.gate /\ c.node = b.node
      /\ c.polls = b.polls \ {"postSeat"}
  BY <1>4 DEF ModType, ClearPostSeatPoll
<1> HIDE DEF c
<1>6. d \in ModType /\ d.live = c.live /\ d.gate = c.gate /\ d.node = c.node
      /\ d.polls = c.polls \ {"funding"}
  BY <1>5 DEF ModType, ClearFundingPoll
<1> HIDE DEF d
<1>7. /\ mod' \in ModType /\ mod'.live = mod.live /\ mod'.gate = mod.gate /\ mod'.node = mod.node
      /\ mod'.polls = (mod.polls \ {"directory", "grace"}) \cup {"postSeat", "funding"}
  <2> DEFINE p == d.polls \cup {"postSeat", "funding"}
  <2>1. mod' = [d EXCEPT !.polls = p]
    BY <1>2
  <2>2. d.polls \in SUBSET Polls
    BY <1>6 DEF ModType
  <2>3. p \in SUBSET Polls
    BY <2>2 DEF Polls
  <2>4. p = (mod.polls \ {"directory", "grace"}) \cup {"postSeat", "funding"}
    BY <1>3, <1>4, <1>5, <1>6
  <2> HIDE DEF p
  <2>5. /\ mod' \in ModType /\ mod'.live = d.live /\ mod'.gate = d.gate /\ mod'.node = d.node
        /\ mod'.polls = p
    BY <1>6, <2>1, <2>3 DEF ModType
  <2> QED BY <1>3, <1>4, <1>5, <1>6, <2>4, <2>5
<1>8. /\ round' \in RoundType /\ round'.picked = round.picked /\ round'.seated
      /\ round'.optedIn = round.optedIn /\ round'.joinClosed = round.joinClosed
      /\ round'.error = round.error /\ round'.pendingSubmit = round.pendingSubmit
      /\ round'.awaitingSeats = None
  BY Unpacked DEF RoundType, Where
<1> DEFINE kinds == {"directory", "postSeat", "funding"}
           kept == Outdated(reads, kinds)
           asked == Read("funding", None, round.picked, None)
<1>9. /\ kept \subseteq ReadType
      /\ \A r \in kept :
            \E q \in reads : /\ r.kind = q.kind /\ r.did = q.did /\ r.cohort = q.cohort
                             /\ r.fresh => r = q /\ r.kind \notin kinds
  BY Unpacked, OutdatedReads
<1>10. asked \in ReadType /\ asked.kind = "funding" /\ asked.cohort = round.picked
  BY Unpacked DEF Read, ReadType, RoundType, Kinds, Who, Where
<1>11. reads' = kept \cup {asked}
  OBVIOUS
<1> HIDE DEF kept, asked
<1>12. Types'
  BY <1>7, <1>8, <1>9, <1>10, <1>11 DEF RoundInv, Types
<1>13. ReadsSound'
  <2> SUFFICES ASSUME NEW r \in reads' PROVE Sound(r)'
    BY DEF ReadsSound
  <2>1. CASE r = asked
    BY <1>1, <1>8, <1>10, <2>1 DEF Sound
  <2>2. CASE r \in kept
    <3>1. PICK q \in reads : /\ r.kind = q.kind /\ r.did = q.did /\ r.cohort = q.cohort
                             /\ r.fresh => r = q /\ r.kind \notin kinds
      BY <1>9, <2>2
    <3>2. Sound(q)
      BY Unpacked
    <3> QED BY <1>8, <3>1, <3>2 DEF Sound
  <2> QED BY <1>11, <2>1, <2>2
<1>14. Picked'
  BY <1>7, <1>8 DEF RoundInv, Picked, Awaiting
<1>15. HandlesFollowTheRound'
  BY <1>1, <1>7, <1>8 DEF RoundInv, HandlesFollowTheRound, Awaiting
<1>16. VerdictsAreReal'
  BY <1>8 DEF RoundInv, VerdictsAreReal
<1>17. PolledFactsAreOfThisRound'
  BY <1>7, <1>8 DEF RoundInv, PolledFactsAreOfThisRound
<1> QED BY <1>12, <1>13, <1>14, <1>15, <1>16, <1>17 DEF RoundInv

\* A completed round keeps its cohort, and has one poll: the anchor's.
LEMMA CohortCompleteKeeps ==
    ASSUME RoundInv, CohortComplete
    PROVE  RoundInv'
<1> USE DEF counts
<1>1. PICK included \in BOOLEAN :
          /\ outcome' = [outcome EXCEPT !.included = included]
          /\ TrackAnchor([EndRound(mod) EXCEPT
                            !.captured = IF included THEN tab.identity ELSE @],
                         Outdated(reads, RoundReads))
  BY DEF CohortComplete
<1>2. round.picked # None
  BY DEF CohortComplete, RoundInv, HandlesFollowTheRound, Picked
<1> DEFINE held == IF included THEN tab.identity ELSE EndRound(mod).captured
           e == EndRound(mod)
           m == [e EXCEPT !.captured = held]
           f == ClearAnchorPoll(m)
           g == ClearLagRetry(f)
<1>3. mod' = [g EXCEPT !.autoResolved = FALSE, !.polls = @ \cup {"anchor"}]
  BY <1>1 DEF TrackAnchor
<1>4. /\ e \in ModType /\ e.live = 0 /\ e.gate = 0 /\ e.polls = {} /\ e.node = mod.node
      /\ held \in Did \cup {None}
  BY Unpacked, EndRoundClears DEF TabType, ModType
<1> HIDE DEF e, held
<1>5. m \in ModType /\ m.live = 0 /\ m.gate = 0 /\ m.polls = {} /\ m.node = mod.node
  BY <1>4 DEF ModType
<1> HIDE DEF m
<1>6. f \in ModType /\ f.live = 0 /\ f.gate = 0 /\ f.polls = {} /\ f.node = mod.node
  BY <1>5 DEF ModType, ClearAnchorPoll
<1> HIDE DEF f
<1>7. g \in ModType /\ g.live = 0 /\ g.gate = 0 /\ g.polls = {} /\ g.node = mod.node
  BY <1>6 DEF ModType, ClearLagRetry
<1> HIDE DEF g
<1>8. /\ mod' \in ModType /\ mod'.live = 0 /\ mod'.gate = 0 /\ mod'.polls = {"anchor"}
      /\ mod'.node = mod.node
  BY <1>3, <1>7 DEF ModType, Polls
<1>9. tab' \in TabType /\ tab'.status = "complete" /\ tab'.identity = tab.identity
  BY Unpacked DEF CohortComplete, TabType
<1>10. /\ round' \in RoundType /\ round'.picked = round.picked
       /\ round'.joinClosed = round.joinClosed /\ round'.error = round.error
       /\ ~round'.pendingSubmit /\ round'.awaitingSeats = None
  BY Unpacked DEF CohortComplete, RoundType, Where
<1>11. outcome' \in OutcomeType /\ Shown(outcome')
  BY <1>1, Unpacked DEF OutcomeType, Shown
<1> DEFINE kept == Outdated(reads, RoundReads)
           older == Outdated(kept, {"anchor"})
           asked == Read("anchor", None, round.picked, None)
<1>12. /\ kept \in SUBSET ReadType
       /\ \A r \in kept :
             \E q \in reads : /\ r.kind = q.kind /\ r.did = q.did /\ r.cohort = q.cohort
                              /\ r.fresh => r = q /\ r.kind \notin RoundReads
  BY Unpacked, OutdatedReads
<1>13. reads' = older \cup {asked}
  BY <1>1 DEF TrackAnchor
<1>14. asked \in ReadType /\ asked.kind = "anchor" /\ asked.cohort = round.picked
  BY Unpacked DEF Read, ReadType, RoundType, Kinds, Who, Where
<1> HIDE DEF kept, asked
<1>15. /\ older \subseteq ReadType
       /\ \A r \in older :
             \E q \in kept : /\ r.kind = q.kind /\ r.did = q.did /\ r.cohort = q.cohort
                             /\ r.fresh => r = q /\ r.kind \notin {"anchor"}
  BY <1>12, OutdatedReads
<1> HIDE DEF older
<1>16. Types'
  BY <1>8, <1>9, <1>10, <1>11, <1>13, <1>14, <1>15 DEF RoundInv, Types, CohortComplete
<1>17. ReadsSound'
  <2> SUFFICES ASSUME NEW r \in reads' PROVE Sound(r)'
    BY DEF ReadsSound
  <2>1. CASE r = asked
    BY <1>9, <1>10, <1>14, <2>1 DEF Sound
  <2>2. CASE r \in older
    <3>1. PICK p \in kept : /\ r.kind = p.kind /\ r.did = p.did /\ r.cohort = p.cohort
                            /\ r.fresh => r = p /\ r.kind \notin {"anchor"}
      BY <1>15, <2>2
    <3>2. PICK q \in reads : /\ p.kind = q.kind /\ p.did = q.did /\ p.cohort = q.cohort
                             /\ p.fresh => p = q /\ p.kind \notin RoundReads
      BY <1>12, <3>1
    <3>3. Sound(q)
      BY Unpacked
    <3>4. world' = world
      BY DEF CohortComplete
    <3> QED BY <1>9, <3>1, <3>2, <3>3, <3>4 DEF Sound, RoundReads
  <2> QED BY <1>13, <2>1, <2>2
<1>18. Picked'
  BY <1>8, <1>9, <1>10 DEF RoundInv, Picked, Awaiting, CohortComplete
<1>19. HandlesFollowTheRound'
  BY <1>8, <1>9, <1>10 DEF HandlesFollowTheRound, Awaiting
<1>20. VerdictsAreReal'
  BY <1>10 DEF RoundInv, VerdictsAreReal, CohortComplete
<1>21. PolledFactsAreOfThisRound'
  BY <1>8, <1>9, <1>10, <1>11 DEF RoundInv, PolledFactsAreOfThisRound, Shown
<1> QED BY <1>16, <1>17, <1>18, <1>19, <1>20, <1>21 DEF RoundInv

-----------------------------------------------------------------------------
\* Every step of the tab, of its runner and of what it asked keeps the invariant.
LEMMA NextKeeps == RoundInv /\ [Next]_vars => RoundInv'
<1> SUFFICES ASSUME RoundInv, [Next]_vars PROVE RoundInv'
  OBVIOUS
<1>1. CASE WorldMoves
  BY <1>1, WorldMovesKeeps
<1>2. CASE UserActs
  BY <1>2, AdoptKeeps, TermsKeep, RunnerKeeps, WayOutKeeps, ResolveKeeps, RegisterKeeps,
     PublishKeeps DEF UserActs
<1>3. CASE RunnerEvents
  BY <1>3, RunnerKeeps, CohortReadyKeeps, CohortCompleteKeeps, FailuresKeep DEF RunnerEvents
<1>4. CASE Ticks
  BY <1>4, TicksKeep, FailuresKeep DEF Ticks
<1>5. CASE Answers
  BY <1>5, TermsKeep, StartedKeeps, FailuresKeep, SilenceKeeps, DirectoryKeeps, PostSeatKeeps,
     FactsKeep, AnchorKeeps, ResolveKeeps, RegisterKeeps, PublishKeeps DEF Answers
<1>6. CASE UNCHANGED vars
  <2> USE <1>6 DEF vars, counts
  <2>1. Quiet
    BY Unpacked, SameRound DEF Quiet, Shown
  <2> QED BY <2>1, QuietKeeps
<1> QED BY <1>1, <1>2, <1>3, <1>4, <1>5, <1>6 DEF Next

\* The invariant behind the three below: every read that could still be believed
\* was asked in this round, and says no more than the directory has come to.
THEOREM RoundInvariant == Spec => []RoundInv
<1> QED BY InitRound, NextKeeps, PTL DEF Spec

\* No runner, poll, retry or gate outlives the round it belongs to, and none is
\* missing from it, whatever start() answers and whenever.
THEOREM HandlesAreOfTheRound == Spec => []HandlesFollowTheRound
<1>1. RoundInv => HandlesFollowTheRound
  BY DEF RoundInv
<1> QED BY <1>1, RoundInvariant, PTL

\* A join that ends as closed, and a seat that ends as gone, end a cohort that has
\* really closed or gone.
THEOREM VerdictsHold == Spec => []VerdictsAreReal
<1>1. RoundInv => VerdictsAreReal
  BY DEF RoundInv
<1> QED BY <1>1, RoundInvariant, PTL

\* What the tab shows of its polls is about the cohort and the identity on screen.
THEOREM FactsAreOfThisRound == Spec => []PolledFactsAreOfThisRound
<1>1. RoundInv => PolledFactsAreOfThisRound
  BY DEF RoundInv
<1> QED BY <1>1, RoundInvariant, PTL

\* Only the click settles the gate, and only the running round's.
THEOREM OnlyTheClickSettles == Spec => GateSettledOnlyByClick
<1> DEFINE Clicked == settled' # settled =>
                        /\ settled' = settled \cup {mod.live} /\ mod.live # 0
                        /\ round.pendingSubmit /\ ~round'.pendingSubmit
                        /\ mod'.live = mod.live
<1>1. RoundInv /\ [Next]_vars => [Clicked]_vars
  <2> SUFFICES ASSUME RoundInv, Next, settled' # settled PROVE Clicked
    BY DEF vars
  <2>1. SubmitUpdate
    <3> USE DEF counts
    <3>1. ~WorldMoves
      BY DEF WorldMoves
    <3>2. ~RunnerEvents
      BY DEF RunnerEvents, CohortJoined, CohortReady, GateOpens, UpdateDeclined,
             CohortComplete, CohortFailed
    <3>3. ~Ticks
      BY DEF Ticks, DirectoryTick, PostSeatTick, FundingTick, AnchorTick, Tick, LagTick,
             GraceExpires
    <3>4. ~Answers
      BY DEF Answers, TermsRecorded, TermsRefused, Started, StartFails, Lost, Dropped,
             PollFails, CountFailure, DirectoryAnswered, PostSeatAnswered, FateAnswered,
             FundingAnswered, AnchorAnswered, ResolveAnswered, UtxosAnswered,
             BroadcastAnswered, NodeBooted, PublishEnds
    <3>5. UserActs
      BY <3>1, <3>2, <3>3, <3>4 DEF Next
    <3> QED BY <3>5 DEF UserActs, Adopt, ConfirmJoin, ConfirmTerms, StartOver, Leave,
               Resolve, Register, PublishIpfs
  <2>2. mod.gate # 0 /\ settled' = settled \cup {mod.gate} /\ round.pendingSubmit
    BY <2>1 DEF SubmitUpdate
  <2>3. mod.gate = mod.live /\ mod.live # 0
    BY <2>2 DEF RoundInv, HandlesFollowTheRound
  <2>4. ~round'.pendingSubmit /\ mod'.live = mod.live
    BY <2>1, Unpacked DEF SubmitUpdate, RoundType, ModType
  <2> QED BY <2>2, <2>3, <2>4
<1>2. GateSettledOnlyByClick <=> [][Clicked]_vars
  BY DEF GateSettledOnlyByClick
<1> QED BY <1>1, <1>2, RoundInvariant, PTL DEF Spec

-----------------------------------------------------------------------------
(* The participants a service starts itself: the operator's test peers *)

\* The tables and the flag keep their types, and a spawn starts no more peers than
\* the seats it was asked for.
PeersTyped ==
    /\ TypeOK
    /\ \A r \in Request :
          /\ spawn[r].left + spawn[r].up <= Capacity
          /\ spawn[r].state = "starting" => spawn[r].cohort \in CohortId

\* After the stop nothing is registered and every spawn still in flight has run its
\* stopAll: no return subtracts what it no longer counts.
StopInv ==
    stopped => /\ \A c \in CohortId : handles[c] = 0
               /\ \A r \in InFlight : spawn[r].halted

PeersFinite == \A c \in CohortId : IsFiniteSet(Starting(c))

\* A cohort that no request can have reached, for it was not open before the stop,
\* has no peer and no spawn.
UntouchedInv ==
    \A c \in CohortId : stage[c] = "fresh" \/ (stopped /\ stage[c] = "open") =>
        running[c] = 0 /\ \A r \in InFlight : spawn[r].cohort # c

PeersInv == PeersTyped /\ StopInv /\ UntouchedInv /\ PeersFinite /\ EveryPeerIsHeld

-----------------------------------------------------------------------------

\* A request that has no spawn, or whose spawn has returned, holds no peer.
LEMMA NoSpawnIs ==
    /\ NoSpawn \in Spawn /\ [NoSpawn EXCEPT !.state = "returned"] \in Spawn
    /\ NoSpawn.state = "none" /\ NoSpawn.left = 0 /\ NoSpawn.up = 0
<1>1. 0 \in 0 .. Capacity
  BY CapacityAssumption
<1>2. NoSpawn \in Spawn /\ NoSpawn.state = "none" /\ NoSpawn.left = 0 /\ NoSpawn.up = 0
  BY <1>1 DEF NoSpawn, Spawn
<1>3. [NoSpawn EXCEPT !.state = "returned"] \in Spawn
  BY <1>1 DEF NoSpawn, Spawn
<1> QED
  BY <1>2, <1>3

\* A count of peers is a number.
LEMMA CountsAreNat ==
    ASSUME PeersFinite, NEW c \in CohortId
    PROVE  Unregistered(c) \in Nat
<1>1. IsFiniteSet(Starting(c))
  BY DEF PeersFinite
<1> QED
  BY <1>1, FS_CardinalityType DEF Unregistered

\* A step that moves no spawn's count moves no starting peer.
LEMMA SameStarting ==
    ASSUME \A r \in Request : /\ r \in InFlight' /\ spawn'[r].up > 0
                                 <=> r \in InFlight /\ spawn[r].up > 0
                              /\ r \in InFlight /\ spawn[r].up > 0 =>
                                    /\ spawn'[r].cohort = spawn[r].cohort
                                    /\ spawn'[r].up = spawn[r].up,
           PeersTyped, \A r \in Request : spawn'[r].up \in Nat
    PROVE  \A c : Starting(c)' = Starting(c) /\ Unregistered(c)' = Unregistered(c)
<1>1. ASSUME NEW c
      PROVE  Starting(c)' = Starting(c)
  <2>1. \A r \in Request : spawn[r].up \in Nat
    BY DEF PeersTyped, TypeOK, Spawn
  <2>2. ASSUME NEW p \in Request \X (1 .. Capacity)
        PROVE  (p[1] \in SpawnsOn(c) /\ p[2] <= spawn[p[1]].up)'
                 <=> p[1] \in SpawnsOn(c) /\ p[2] <= spawn[p[1]].up
    <3>1. PICK r \in Request, k \in 1 .. Capacity : p[1] = r /\ p[2] = k
      OBVIOUS
    <3>2. r \in SpawnsOn(c)' /\ k <= spawn'[r].up <=> r \in SpawnsOn(c) /\ k <= spawn[r].up
      BY <2>1, CapacityAssumption DEF SpawnsOn, InFlight
    <3> QED
      BY <3>1, <3>2
  <2> QED
    BY <2>2 DEF Starting
<1>2. ASSUME NEW c
      PROVE  Unregistered(c)' = Unregistered(c)
  <2>1. Starting(c)' = Starting(c)
    BY <1>1
  <2> QED
    BY <2>1 DEF Unregistered
<1> QED
  BY <1>1, <1>2

\* A peer that starts joins the peers its spawn holds.
LEMMA StartedJoins ==
    ASSUME PeersInv, NEW r \in Request, PeerStarts(r)
    PROVE  \A c \in CohortId :
              /\ IsFiniteSet(Starting(c)')
              /\ Unregistered(c)' = Unregistered(c) + (IF c = spawn[r].cohort THEN 1 ELSE 0)
<1> DEFINE new == spawn[r].up + 1
<1>1. /\ r \in InFlight /\ spawn[r].up \in Nat /\ spawn[r].left \in Nat /\ spawn[r].left > 0
      /\ spawn[r].left + spawn[r].up <= Capacity
      /\ \A o \in Request : spawn[o].up \in Nat
  BY DEF PeerStarts, PeersInv, PeersTyped, TypeOK, Spawn
<1>2. new \in 1 .. Capacity /\ new \notin 1 .. spawn[r].up
  BY <1>1, CapacityAssumption
<1>3. /\ spawn'[r].up = new /\ spawn'[r].state = spawn[r].state /\ spawn'[r].cohort = spawn[r].cohort
      /\ \A o \in Request \ {r} : spawn'[o] = spawn[o]
  BY DEF PeerStarts, PeersInv, PeersTyped, TypeOK, Spawn
<1> HIDE DEF new
<1>4. ASSUME NEW c \in CohortId, c = spawn[r].cohort
      PROVE  Starting(c)' = Starting(c) \cup {<<r, new>>} /\ <<r, new>> \notin Starting(c)
  <2>1. ASSUME NEW p \in Request \X (1 .. Capacity)
        PROVE  (p[1] \in SpawnsOn(c) /\ p[2] <= spawn[p[1]].up)'
                 <=> (p[1] \in SpawnsOn(c) /\ p[2] <= spawn[p[1]].up) \/ p = <<r, new>>
    <3>1. PICK o \in Request, k \in 1 .. Capacity : p = <<o, k>>
      OBVIOUS
    <3>2. CASE o = r
      <4>1. r \in SpawnsOn(c) /\ r \in SpawnsOn(c)'
        BY <1>1, <1>3, <1>4 DEF SpawnsOn, InFlight
      <4>2. k <= new <=> k <= spawn[r].up \/ k = new
        BY <1>1, <1>2 DEF new
      <4> QED
        BY <1>3, <3>1, <3>2, <4>1, <4>2
    <3>3. CASE o # r
      <4>1. (o \in SpawnsOn(c))' <=> o \in SpawnsOn(c)
        BY <1>3, <3>3 DEF SpawnsOn, InFlight
      <4>2. spawn'[o] = spawn[o]
        BY <1>3, <3>3
      <4> QED
        BY <3>1, <3>3, <4>1, <4>2
    <3> QED
      BY <3>2, <3>3
  <2>2. <<r, new>> \in Request \X (1 .. Capacity)
    BY <1>2
  <2>3. ~(new <= spawn[r].up)
    BY <1>1 DEF new
  <2> QED
    BY <2>1, <2>2, <2>3 DEF Starting
<1>5. ASSUME NEW c \in CohortId, c # spawn[r].cohort
      PROVE  Starting(c)' = Starting(c)
  <2>1. ASSUME NEW o \in Request
        PROVE  /\ o \in SpawnsOn(c)' <=> o \in SpawnsOn(c)
               /\ o \in SpawnsOn(c) => spawn'[o].up = spawn[o].up
    BY <1>3, <1>5 DEF SpawnsOn, InFlight
  <2>2. ASSUME NEW p \in Request \X (1 .. Capacity)
        PROVE  (p[1] \in SpawnsOn(c) /\ p[2] <= spawn[p[1]].up)'
                 <=> p[1] \in SpawnsOn(c) /\ p[2] <= spawn[p[1]].up
    <3>1. PICK o \in Request, k \in 1 .. Capacity : p[1] = o /\ p[2] = k
      OBVIOUS
    <3> QED
      BY <2>1, <3>1
  <2> QED
    BY <2>2 DEF Starting
<1>6. ASSUME NEW c \in CohortId
      PROVE  /\ IsFiniteSet(Starting(c)')
             /\ Unregistered(c)' = Unregistered(c) + (IF c = spawn[r].cohort THEN 1 ELSE 0)
  <2>1. IsFiniteSet(Starting(c)) /\ Unregistered(c) \in Nat
    BY CountsAreNat DEF PeersInv, PeersFinite
  <2>2. CASE c = spawn[r].cohort
    <3>1. PICK S : S = Starting(c)
      OBVIOUS
    <3>2. IsFiniteSet(S \cup {<<r, new>>}) /\ Cardinality(S \cup {<<r, new>>}) = Cardinality(S) + 1
      BY <1>4, <2>1, <2>2, <3>1, FS_AddElement
    <3>3. Starting(c)' = S \cup {<<r, new>>}
      BY <1>4, <2>2, <3>1
    <3>4. Cardinality(Starting(c)') = Cardinality(S) + 1 /\ IsFiniteSet(Starting(c)')
      BY <3>2, <3>3, Zenon
    <3> QED
      BY <2>2, <3>1, <3>4 DEF Unregistered
  <2>3. CASE c # spawn[r].cohort
    <3>1. Starting(c)' = Starting(c)
      BY <1>5, <2>3
    <3>2. Unregistered(c)' = Unregistered(c) /\ IsFiniteSet(Starting(c)')
      BY <2>1, <3>1 DEF Unregistered
    <3> QED
      BY <2>1, <2>3, <3>2
  <2> QED
    BY <2>2, <2>3
<1> QED
  BY <1>6

\* A spawn that returns leaves, with as many peers as it counted.
LEMMA ReturnedLeaves ==
    ASSUME PeersInv, NEW r \in Request, SpawnReturns(r)
    PROVE  \A c \in CohortId :
              /\ IsFiniteSet(Starting(c)')
              /\ Unregistered(c) = Unregistered(c)' + (IF c = spawn[r].cohort THEN spawn[r].up ELSE 0)
<1>1. PICK up \in Nat : up = spawn[r].up /\ up <= Capacity
  BY CapacityAssumption DEF PeersInv, PeersTyped, TypeOK, Spawn
<1>2. r \in InFlight /\ \A o \in Request : spawn[o].up \in Nat
  BY DEF SpawnReturns, PeersInv, PeersTyped, TypeOK, Spawn
<1>3. /\ spawn'[r].state = "returned" /\ \A o \in Request \ {r} : spawn'[o] = spawn[o]
  BY DEF SpawnReturns, NoSpawn, PeersInv, PeersTyped, TypeOK
<1>4. PICK mine : mine = {r} \X (1 .. up)
  OBVIOUS
<1>5. IsFiniteSet(mine) /\ Cardinality(mine) = up
  <2>1. IsFiniteSet({r}) /\ Cardinality({r}) = 1
    BY FS_Singleton
  <2>2. IsFiniteSet(1 .. up) /\ Cardinality(1 .. up) = up
    <3>1. IsFiniteSet(1 .. up) /\ Cardinality(1 .. up) = IF 1 > up THEN 0 ELSE up - 1 + 1
      BY FS_Interval
    <3> QED
      BY <3>1
  <2>3. /\ IsFiniteSet({r} \X (1 .. up))
        /\ Cardinality({r} \X (1 .. up)) = Cardinality({r}) * Cardinality(1 .. up)
    BY <2>1, <2>2, FS_Product
  <2>4. Cardinality({r}) * Cardinality(1 .. up) = up
    BY <2>1, <2>2
  <2> QED
    BY <1>4, <2>3, <2>4
<1>6. ASSUME NEW c \in CohortId, c = spawn[r].cohort
      PROVE  Starting(c)' = Starting(c) \ mine /\ mine \subseteq Starting(c)
  <2>1. mine \subseteq Starting(c)
    <3>1. r \in SpawnsOn(c)
      BY <1>2, <1>6 DEF SpawnsOn
    <3> QED
      BY <1>1, <1>4, <3>1, CapacityAssumption DEF Starting
  <2>2. ASSUME NEW p \in Request \X (1 .. Capacity)
        PROVE  (p[1] \in SpawnsOn(c) /\ p[2] <= spawn[p[1]].up)'
                 <=> (p[1] \in SpawnsOn(c) /\ p[2] <= spawn[p[1]].up) /\ p \notin mine
    <3>1. PICK o \in Request, k \in 1 .. Capacity : p = <<o, k>>
      OBVIOUS
    <3>2. CASE o = r
      <4>1. ~(r \in SpawnsOn(c))'
        BY <1>3 DEF SpawnsOn, InFlight
      <4>2. k <= spawn[r].up => p \in mine
        BY <1>1, <1>4, <3>1, <3>2
      <4> QED
        BY <3>1, <3>2, <4>1, <4>2
    <3>3. CASE o # r
      <4>1. (o \in SpawnsOn(c))' <=> o \in SpawnsOn(c)
        BY <1>3, <3>3 DEF SpawnsOn, InFlight
      <4>2. spawn'[o] = spawn[o] /\ p \notin mine
        BY <1>3, <1>4, <3>1, <3>3
      <4> QED
        BY <3>1, <3>3, <4>1, <4>2
    <3> QED
      BY <3>2, <3>3
  <2> QED
    BY <2>1, <2>2 DEF Starting
<1>7. ASSUME NEW c \in CohortId, c # spawn[r].cohort
      PROVE  Starting(c)' = Starting(c)
  <2>1. ASSUME NEW o \in Request
        PROVE  /\ o \in SpawnsOn(c)' <=> o \in SpawnsOn(c)
               /\ o \in SpawnsOn(c) => spawn'[o].up = spawn[o].up
    BY <1>3, <1>7 DEF SpawnsOn, InFlight
  <2>2. ASSUME NEW p \in Request \X (1 .. Capacity)
        PROVE  (p[1] \in SpawnsOn(c) /\ p[2] <= spawn[p[1]].up)'
                 <=> p[1] \in SpawnsOn(c) /\ p[2] <= spawn[p[1]].up
    <3>1. PICK o \in Request, k \in 1 .. Capacity : p[1] = o /\ p[2] = k
      OBVIOUS
    <3> QED
      BY <2>1, <3>1
  <2> QED
    BY <2>2 DEF Starting
<1>8. ASSUME NEW c \in CohortId
      PROVE  /\ IsFiniteSet(Starting(c)')
             /\ Unregistered(c) = Unregistered(c)' + (IF c = spawn[r].cohort THEN spawn[r].up ELSE 0)
  <2>1. IsFiniteSet(Starting(c)) /\ Unregistered(c) \in Nat
    BY CountsAreNat DEF PeersInv, PeersFinite
  <2>2. CASE c = spawn[r].cohort
    <3>1. PICK S : S = Starting(c)
      OBVIOUS
    <3>2. IsFiniteSet(S \ mine) /\ Cardinality(S \ mine) = Cardinality(S) - Cardinality(S \cap mine)
      BY <2>1, <3>1, FS_Difference
    <3>3. Starting(c)' = S \ mine /\ S \cap mine = mine
      BY <1>6, <2>2, <3>1
    <3>4. IsFiniteSet(Starting(c)') /\ Cardinality(Starting(c)') = Cardinality(S) - Cardinality(mine)
      BY <3>2, <3>3, Zenon
    <3>5. Cardinality(S) \in Nat
      BY <2>1, <3>1 DEF Unregistered
    <3> QED
      BY <1>1, <1>5, <2>2, <3>1, <3>4, <3>5 DEF Unregistered
  <2>3. CASE c # spawn[r].cohort
    <3>1. Starting(c)' = Starting(c)
      BY <1>7, <2>3
    <3>2. Unregistered(c)' = Unregistered(c) /\ IsFiniteSet(Starting(c)')
      BY <2>1, <3>1 DEF Unregistered
    <3> QED
      BY <2>1, <2>3, <3>2
  <2> QED
    BY <2>2, <2>3
<1> QED
  BY <1>8

\* What runs, what is registered and what is starting are numbers that agree.
LEMMA HeldAre ==
    ASSUME PeersInv, NEW c \in CohortId
    PROVE  /\ running[c] \in Nat /\ handles[c] \in Nat /\ Unregistered(c) \in Nat
           /\ ~stopped => running[c] = handles[c] + Unregistered(c)
           /\ stopped => handles[c] = 0
           /\ running[c] - handles[c] \in Nat
<1>1. running[c] \in Nat /\ handles[c] \in Nat /\ Unregistered(c) \in Nat
  BY CountsAreNat DEF PeersInv, PeersTyped, TypeOK
<1>2. (~stopped => running[c] = handles[c] + Unregistered(c)) /\ (stopped => handles[c] = 0)
  BY DEF PeersInv, EveryPeerIsHeld, StopInv
<1> QED
  BY <1>1, <1>2 DEF PeersInv, PeersTyped, TypeOK

\* A step that leaves the spawns alone leaves the starting peers.
LEMMA SpawnsStand ==
    ASSUME PeersInv, spawn' = spawn
    PROVE  /\ \A c : Starting(c)' = Starting(c) /\ Unregistered(c)' = Unregistered(c)
           /\ PeersFinite'
           /\ InFlight' = InFlight
<1>1. PeersTyped /\ \A r \in Request : spawn'[r].up \in Nat
  BY DEF PeersInv, PeersTyped, TypeOK, Spawn
<1>2. InFlight' = InFlight
  BY DEF InFlight
<1>3. \A c : Starting(c)' = Starting(c) /\ Unregistered(c)' = Unregistered(c)
  BY <1>1, <1>2, SameStarting
<1>4. PeersFinite'
  <2>1. ASSUME NEW c \in CohortId
        PROVE  IsFiniteSet(Starting(c)')
    <3>1. IsFiniteSet(Starting(c)) /\ Starting(c)' = Starting(c)
      BY <1>3 DEF PeersInv, PeersFinite
    <3> QED
      BY <3>1
  <2> QED
    BY <2>1 DEF PeersFinite
<1> QED
  BY <1>2, <1>3, <1>4

\* A cohort's step frees what its batches hold, or frees nothing.
LEMMA CohortStepKeeps ==
    ASSUME PeersInv, NEW c \in CohortId, CohortStep(c)
    PROVE  PeersInv'
<1>1. /\ spawn' = spawn /\ stopped' = stopped
      /\ stage' \in [CohortId -> {"fresh", "open"} \cup Ends]
      /\ seats' \in [CohortId -> 0 .. Capacity]
  <2>1. \A d \in CohortId : seats[d] < Capacity => seats[d] + 1 \in 0 .. Capacity
    BY CapacityAssumption DEF PeersInv, PeersTyped, TypeOK
  <2> QED
    BY <2>1 DEF CohortStep, Advertise, TakeSeat, EndCohort, Complete, Cancel, CohortFails,
       WindowExpires, Ends, PeersInv, PeersTyped, TypeOK
<1>2. Release(c) \/ UNCHANGED <<handles, running>>
  BY DEF CohortStep, Advertise, TakeSeat, EndCohort, Complete, Cancel, CohortFails, WindowExpires
<1>3. /\ \A d : Unregistered(d)' = Unregistered(d)
      /\ PeersFinite' /\ InFlight' = InFlight
  BY <1>1, SpawnsStand
<1>4. /\ handles' \in [CohortId -> Nat] /\ running' \in [CohortId -> Nat]
      /\ \A d \in CohortId : /\ running'[d] - handles'[d] = running[d] - handles[d]
                             /\ stopped => handles'[d] = 0
  <2>1. \A d \in CohortId : /\ running[d] \in Nat /\ handles[d] \in Nat
                            /\ running[d] - handles[d] \in Nat
                            /\ stopped => handles[d] = 0
    BY HeldAre
  <2>2. handles \in [CohortId -> Nat] /\ running \in [CohortId -> Nat]
    BY DEF PeersInv, PeersTyped, TypeOK
  <2> QED
    BY <1>2, <2>1, <2>2 DEF Release
<1>5. PeersTyped'
  BY <1>1, <1>4 DEF PeersInv, PeersTyped, TypeOK
<1>6. StopInv'
  BY <1>1, <1>3, <1>4 DEF PeersInv, StopInv
<1>7. EveryPeerIsHeld'
  <2>1. ASSUME ~stopped, NEW d \in CohortId
        PROVE  running'[d] = handles'[d] + Unregistered(d)'
    <3>1. /\ running[d] = handles[d] + Unregistered(d) /\ Unregistered(d) \in Nat
          /\ running[d] \in Nat /\ handles[d] \in Nat
          /\ running'[d] \in Nat /\ handles'[d] \in Nat
      BY <1>4, <2>1, HeldAre
    <3> QED
      BY <1>3, <1>4, <3>1
  <2> QED
    BY <1>1, <2>1 DEF EveryPeerIsHeld
<1>8. UntouchedInv'
  <2>1. ASSUME NEW d \in CohortId, stage'[d] = "fresh" \/ (stopped /\ stage'[d] = "open")
        PROVE  running'[d] = 0 /\ \A r \in InFlight : spawn[r].cohort # d
    <3>1. stage[d] = "fresh" \/ (stopped /\ stage[d] = "open")
      BY <2>1 DEF CohortStep, Advertise, TakeSeat, EndCohort, Complete, Cancel, CohortFails,
         WindowExpires, Ends, PeersInv, PeersTyped, TypeOK
    <3>2. running[d] = 0 /\ \A r \in InFlight : spawn[r].cohort # d
      BY <3>1 DEF PeersInv, UntouchedInv
    <3>3. handles[d] = 0
      BY <3>2, HeldAre
    <3>4. running'[d] = 0
      BY <1>2, <3>2, <3>3 DEF Release, PeersInv, PeersTyped, TypeOK
    <3> QED
      BY <3>2, <3>4
  <2> QED
    BY <1>1, <1>3, <2>1 DEF UntouchedInv
<1> QED
  BY <1>3, <1>5, <1>6, <1>7, <1>8 DEF PeersInv

\* A request starts a spawn that holds nobody yet.
LEMMA AddTestPeersKeeps ==
    ASSUME PeersInv, NEW c \in CohortId, NEW r \in Request, NEW n \in 1 .. Capacity,
           AddTestPeers(r, c, n)
    PROVE  PeersInv'
<1>1. PICK left \in 0 .. Capacity :
         /\ spawn' = [spawn EXCEPT ![r] =
              [state |-> "starting", cohort |-> c, up |-> 0, halted |-> FALSE, left |-> left]]
         /\ ~stopped /\ spawn[r].state = "none" /\ UNCHANGED <<stage, seats, handles, running, stopped>>
  <2>1. seats[c] \in 0 .. Capacity
    BY DEF PeersInv, PeersTyped, TypeOK
  <2>2. Capacity - seats[c] \in 0 .. Capacity /\ n \in 0 .. Capacity
    BY <2>1, CapacityAssumption
  <2>3. (IF n < Capacity - seats[c] THEN n ELSE Capacity - seats[c]) \in 0 .. Capacity
    BY <2>2
  <2> QED
    BY <2>3 DEF AddTestPeers
<1>2. /\ spawn'[r].state = "starting" /\ spawn'[r].cohort = c /\ spawn'[r].up = 0
      /\ spawn'[r].left = left /\ \A o \in Request \ {r} : spawn'[o] = spawn[o]
  BY <1>1 DEF PeersInv, PeersTyped, TypeOK
<1>3. PeersTyped'
  <2>1. spawn' \in [Request -> Spawn]
    BY <1>1, CapacityAssumption DEF PeersInv, PeersTyped, TypeOK, Spawn
  <2>2. left + 0 <= Capacity
    BY CapacityAssumption
  <2> QED
    BY <1>1, <1>2, <2>1, <2>2 DEF PeersInv, PeersTyped, TypeOK
<1>4. \A d : Starting(d)' = Starting(d) /\ Unregistered(d)' = Unregistered(d)
  <2>1. PeersTyped /\ \A o \in Request : spawn'[o].up \in Nat
    BY <1>3 DEF PeersInv, PeersTyped, TypeOK, Spawn
  <2>2. \A o \in Request : /\ o \in InFlight' /\ spawn'[o].up > 0
                                 <=> o \in InFlight /\ spawn[o].up > 0
                           /\ o \in InFlight /\ spawn[o].up > 0 =>
                                 /\ spawn'[o].cohort = spawn[o].cohort
                                 /\ spawn'[o].up = spawn[o].up
    BY <1>1, <1>2 DEF InFlight
  <2> QED
    BY <2>1, <2>2, SameStarting
<1>5. PeersFinite'
  <2>1. ASSUME NEW d \in CohortId
        PROVE  IsFiniteSet(Starting(d)')
    <3>1. IsFiniteSet(Starting(d)) /\ Starting(d)' = Starting(d)
      BY <1>4 DEF PeersInv, PeersFinite
    <3> QED
      BY <3>1
  <2> QED
    BY <2>1 DEF PeersFinite
<1>6. EveryPeerIsHeld'
  <2>1. \A d \in CohortId : running[d] = handles[d] + Unregistered(d)
    BY <1>1, HeldAre
  <2> QED
    BY <1>1, <1>4, <2>1 DEF EveryPeerIsHeld
<1>7. UntouchedInv'
  <2>1. stage[c] = "open"
    BY DEF AddTestPeers
  <2> QED
    BY <1>1, <1>2, <2>1 DEF PeersInv, UntouchedInv, InFlight
<1> QED
  BY <1>1, <1>3, <1>5, <1>6, <1>7 DEF PeersInv, StopInv

\* A peer of a spawn starts, or fails to.
LEMMA PeerStartsKeeps ==
    ASSUME PeersInv, NEW r \in Request, PeerStarts(r)
    PROVE  PeersInv'
<1>1. /\ r \in InFlight /\ spawn[r] \in Spawn /\ spawn[r].left > 0
      /\ spawn[r].left + spawn[r].up <= Capacity /\ spawn[r].cohort \in CohortId
      /\ spawn' = [spawn EXCEPT ![r].left = @ - 1, ![r].up = @ + 1]
      /\ running' = [running EXCEPT ![spawn[r].cohort] = @ + 1]
      /\ UNCHANGED <<stage, seats, handles, stopped>>
  BY DEF PeerStarts, PeersInv, PeersTyped, TypeOK, InFlight
<1>2. /\ spawn'[r].left = spawn[r].left - 1 /\ spawn'[r].up = spawn[r].up + 1
      /\ spawn'[r].state = spawn[r].state /\ spawn'[r].cohort = spawn[r].cohort
      /\ spawn'[r].halted = spawn[r].halted
      /\ \A o \in Request \ {r} : spawn'[o] = spawn[o]
  BY <1>1 DEF PeersInv, PeersTyped, TypeOK, Spawn
<1>3. /\ spawn[r].left \in Nat /\ spawn[r].up \in Nat
  BY <1>1 DEF Spawn
<1>4. PeersTyped'
  <2>1. spawn[r].left - 1 \in 0 .. Capacity /\ spawn[r].up + 1 \in 0 .. Capacity
    BY <1>1, <1>3, CapacityAssumption
  <2>2. spawn' \in [Request -> Spawn]
    BY <1>1, <2>1 DEF PeersInv, PeersTyped, TypeOK, Spawn
  <2>3. running' \in [CohortId -> Nat]
    BY <1>1 DEF PeersInv, PeersTyped, TypeOK
  <2>4. (spawn[r].left - 1) + (spawn[r].up + 1) <= Capacity
    BY <1>1, <1>3, CapacityAssumption
  <2> QED
    BY <1>1, <1>2, <2>2, <2>3, <2>4 DEF PeersInv, PeersTyped, TypeOK
<1>5. PeersFinite'
  BY StartedJoins DEF PeersFinite
<1>6. EveryPeerIsHeld'
  <2>1. ASSUME ~stopped, NEW c \in CohortId
        PROVE  running'[c] = handles[c] + Unregistered(c)'
    <3>1. /\ running[c] = handles[c] + Unregistered(c) /\ Unregistered(c) \in Nat
          /\ running[c] \in Nat /\ handles[c] \in Nat
      BY <2>1, HeldAre
    <3>2. running'[c] = running[c] + (IF c = spawn[r].cohort THEN 1 ELSE 0)
      BY <1>1, <3>1 DEF PeersInv, PeersTyped, TypeOK
    <3>3. Unregistered(c)' = Unregistered(c) + (IF c = spawn[r].cohort THEN 1 ELSE 0)
      BY StartedJoins
    <3> QED
      BY <3>1, <3>2, <3>3
  <2> QED
    BY <1>1, <2>1 DEF EveryPeerIsHeld
<1>7. StopInv'
  BY <1>1, <1>2 DEF PeersInv, StopInv, InFlight
<1>8. UntouchedInv'
  <2>1. ASSUME NEW d \in CohortId, stage[d] = "fresh" \/ (stopped /\ stage[d] = "open")
        PROVE  running'[d] = 0 /\ \A o \in InFlight : spawn[o].cohort # d
    <3>1. running[d] = 0 /\ \A o \in InFlight : spawn[o].cohort # d
      BY <2>1 DEF PeersInv, UntouchedInv
    <3> QED
      BY <1>1, <3>1 DEF PeersInv, PeersTyped, TypeOK
  <2>2. InFlight' = InFlight /\ \A o \in InFlight : spawn'[o].cohort = spawn[o].cohort
    BY <1>2 DEF InFlight
  <2> QED
    BY <1>1, <2>1, <2>2 DEF UntouchedInv
<1> QED
  BY <1>4, <1>5, <1>6, <1>7, <1>8 DEF PeersInv

\* A peer that fails to start is tried and left out of the count.
LEMMA PeerFailsKeeps ==
    ASSUME PeersInv, NEW r \in Request, PeerFails(r)
    PROVE  PeersInv'
<1>1. /\ r \in InFlight /\ spawn[r] \in Spawn /\ spawn[r].left > 0
      /\ spawn[r].left + spawn[r].up <= Capacity /\ spawn[r].cohort \in CohortId
      /\ spawn' = [spawn EXCEPT ![r].left = @ - 1]
      /\ UNCHANGED <<stage, seats, handles, running, stopped>>
  BY DEF PeerFails, PeersInv, PeersTyped, TypeOK, InFlight
<1>2. /\ spawn'[r].left = spawn[r].left - 1 /\ spawn'[r].up = spawn[r].up
      /\ spawn'[r].state = spawn[r].state /\ spawn'[r].cohort = spawn[r].cohort
      /\ spawn'[r].halted = spawn[r].halted
      /\ \A o \in Request \ {r} : spawn'[o] = spawn[o]
  BY <1>1 DEF PeersInv, PeersTyped, TypeOK, Spawn
<1>3. /\ spawn[r].left \in Nat /\ spawn[r].up \in Nat
  BY <1>1 DEF Spawn
<1>4. PeersTyped'
  <2>1. spawn[r].left - 1 \in 0 .. Capacity
    BY <1>1, <1>3, CapacityAssumption
  <2>2. spawn' \in [Request -> Spawn]
    BY <1>1, <2>1 DEF PeersInv, PeersTyped, TypeOK, Spawn
  <2>3. (spawn[r].left - 1) + spawn[r].up <= Capacity
    BY <1>1, <1>3, CapacityAssumption
  <2> QED
    BY <1>1, <1>2, <2>2, <2>3 DEF PeersInv, PeersTyped, TypeOK
<1>5. \A d : Starting(d)' = Starting(d) /\ Unregistered(d)' = Unregistered(d)
  <2>1. PeersTyped /\ \A o \in Request : spawn'[o].up \in Nat
    BY <1>4 DEF PeersInv, PeersTyped, TypeOK, Spawn
  <2>2. \A o \in Request : /\ o \in InFlight' /\ spawn'[o].up > 0
                                 <=> o \in InFlight /\ spawn[o].up > 0
                           /\ o \in InFlight /\ spawn[o].up > 0 =>
                                 /\ spawn'[o].cohort = spawn[o].cohort
                                 /\ spawn'[o].up = spawn[o].up
    BY <1>1, <1>2 DEF InFlight
  <2> QED
    BY <2>1, <2>2, SameStarting
<1>6. PeersFinite'
  <2>1. ASSUME NEW d \in CohortId
        PROVE  IsFiniteSet(Starting(d)')
    <3>1. IsFiniteSet(Starting(d)) /\ Starting(d)' = Starting(d)
      BY <1>5 DEF PeersInv, PeersFinite
    <3> QED
      BY <3>1
  <2> QED
    BY <2>1 DEF PeersFinite
<1>7. EveryPeerIsHeld'
  <2>1. ~stopped => \A d \in CohortId : running[d] = handles[d] + Unregistered(d)
    BY HeldAre
  <2> QED
    BY <1>1, <1>5, <2>1 DEF EveryPeerIsHeld
<1>8. StopInv'
  BY <1>1, <1>2 DEF PeersInv, StopInv, InFlight
<1>9. UntouchedInv'
  BY <1>1, <1>2 DEF PeersInv, UntouchedInv, InFlight
<1> QED
  BY <1>4, <1>6, <1>7, <1>8, <1>9 DEF PeersInv

\* The batch of a spawn that returns is registered, or it was stopped by the abort.
LEMMA SpawnReturnsKeeps ==
    ASSUME PeersInv, NEW r \in Request, SpawnReturns(r)
    PROVE  PeersInv'
<1>1. /\ r \in InFlight /\ spawn[r] \in Spawn /\ spawn[r].cohort \in CohortId
      /\ spawn' = [spawn EXCEPT ![r] = [NoSpawn EXCEPT !.state = "returned"]]
      /\ UNCHANGED <<stage, seats, stopped>>
  BY DEF SpawnReturns, PeersInv, PeersTyped, TypeOK, InFlight
<1>2. /\ spawn'[r].state = "returned" /\ spawn'[r].left = 0 /\ spawn'[r].up = 0
      /\ \A o \in Request \ {r} : spawn'[o] = spawn[o]
  BY <1>1 DEF NoSpawn, PeersInv, PeersTyped, TypeOK
<1>3. spawn' \in [Request -> Spawn]
  BY <1>1, NoSpawnIs DEF PeersInv, PeersTyped, TypeOK
<1>4. CASE stopped
  <2>1. spawn[r].halted
    BY <1>1, <1>4 DEF PeersInv, StopInv
  <2>2. running' = running /\ handles' = handles
    BY <1>4, <2>1 DEF SpawnReturns, PeersInv, PeersTyped, TypeOK
  <2>3. PeersTyped'
    BY <1>1, <1>2, <1>3, <2>2, CapacityAssumption DEF PeersInv, PeersTyped, TypeOK
  <2>4. PeersFinite'
    BY ReturnedLeaves DEF PeersFinite
  <2>5. StopInv'
    BY <1>1, <1>2, <1>4, <2>2 DEF PeersInv, StopInv, InFlight
  <2>6. EveryPeerIsHeld'
    BY <1>1, <1>4 DEF EveryPeerIsHeld
  <2>7. UntouchedInv'
    BY <1>1, <1>2, <2>2 DEF PeersInv, UntouchedInv, InFlight
  <2> QED
    BY <2>3, <2>4, <2>5, <2>6, <2>7 DEF PeersInv
<1>5. CASE ~stopped
  <2>1. PICK c \in CohortId, up \in Nat : c = spawn[r].cohort /\ up = spawn[r].up
    BY <1>1 DEF Spawn
  <2>2. running' = running /\ handles' = [handles EXCEPT ![c] = @ + up]
    BY <1>5, <2>1 DEF SpawnReturns
  <2>3. handles' \in [CohortId -> Nat]
    BY <2>2 DEF PeersInv, PeersTyped, TypeOK
  <2>4. PeersTyped'
    BY <1>1, <1>2, <1>3, <2>2, <2>3, CapacityAssumption DEF PeersInv, PeersTyped, TypeOK
  <2>5. PeersFinite'
    BY ReturnedLeaves DEF PeersFinite
  <2>6. EveryPeerIsHeld'
    <3>1. ASSUME NEW d \in CohortId
          PROVE  running[d] = handles'[d] + Unregistered(d)'
      <4>1. /\ running[d] = handles[d] + Unregistered(d) /\ Unregistered(d) \in Nat
            /\ running[d] \in Nat /\ handles[d] \in Nat
        BY <1>5, HeldAre
      <4>2. handles'[d] = handles[d] + (IF d = c THEN up ELSE 0)
        BY <2>2, <4>1 DEF PeersInv, PeersTyped, TypeOK
      <4>3. Unregistered(d) = Unregistered(d)' + (IF d = c THEN up ELSE 0)
        BY <2>1, ReturnedLeaves
      <4>4. PeersFinite' => Unregistered(d)' \in Nat
        <5>1. IsFiniteSet(Starting(d)') => Cardinality(Starting(d)') \in Nat
          BY FS_CardinalityType
        <5> QED
          BY <5>1 DEF PeersFinite, Unregistered
      <4> QED
        BY <2>1, <2>5, <4>1, <4>2, <4>3, <4>4
    <3> QED
      BY <2>2, <3>1 DEF EveryPeerIsHeld
  <2>7. UntouchedInv'
    BY <1>1, <1>2, <2>2 DEF PeersInv, UntouchedInv, InFlight
  <2> QED
    BY <1>1, <1>5, <2>4, <2>5, <2>6, <2>7 DEF PeersInv, StopInv
<1> QED
  BY <1>4, <1>5

\* The stop reaches the registered batches, and through the signal the starting ones.
LEMMA StopServiceKeeps ==
    ASSUME PeersInv, StopService
    PROVE  PeersInv' /\ \A c \in CohortId : running'[c] = 0
<1>1. /\ ~stopped /\ stopped' = TRUE /\ seats' = seats
      /\ stage' \in [CohortId -> {"fresh", "open"} \cup Ends]
      /\ handles' = [c \in CohortId |-> 0]
      /\ spawn' \in [Request -> Spawn]
      /\ \A r \in Request :
            /\ spawn'[r].state = spawn[r].state /\ spawn'[r].cohort = spawn[r].cohort
            /\ spawn'[r].left = spawn[r].left
            /\ r \in InFlight => spawn'[r].up = 0 /\ spawn'[r].halted
            /\ r \notin InFlight => spawn'[r] = spawn[r]
  <2>1. /\ ~stopped /\ stopped' = TRUE /\ seats' = seats
        /\ stage' \in [CohortId -> {"fresh", "open"} \cup Ends]
        /\ handles' = [c \in CohortId |-> 0]
    BY DEF StopService, Ends, PeersInv, PeersTyped, TypeOK
  <2>2. spawn' = [r \in Request |-> IF r \in InFlight
                     THEN [spawn[r] EXCEPT !.up = 0, !.halted = TRUE] ELSE spawn[r]]
    BY DEF StopService
  <2>3. ASSUME NEW r \in Request
        PROVE  /\ spawn'[r] \in Spawn
               /\ spawn'[r].state = spawn[r].state /\ spawn'[r].cohort = spawn[r].cohort
               /\ spawn'[r].left = spawn[r].left
               /\ r \in InFlight => spawn'[r].up = 0 /\ spawn'[r].halted
               /\ r \notin InFlight => spawn'[r] = spawn[r]
    <3>1. spawn[r] \in Spawn /\ 0 \in 0 .. Capacity
      BY CapacityAssumption DEF PeersInv, PeersTyped, TypeOK
    <3>2. CASE r \in InFlight
      <4>1. spawn'[r] = [spawn[r] EXCEPT !.up = 0, !.halted = TRUE]
        BY <2>2, <3>2
      <4> QED
        BY <3>1, <3>2, <4>1 DEF Spawn
    <3>3. CASE r \notin InFlight
      BY <2>2, <3>1, <3>3
    <3> QED
      BY <3>2, <3>3
  <2> QED
    BY <2>1, <2>2, <2>3
<1>2. \A c \in CohortId : running'[c] = 0
  <2>1. ASSUME NEW c \in CohortId
        PROVE  running'[c] = 0
    <3>1. /\ running[c] = handles[c] + Unregistered(c) /\ Unregistered(c) \in Nat
          /\ running[c] \in Nat /\ handles[c] \in Nat
      BY <1>1, HeldAre
    <3>2. running'[c] = running[c] - handles[c] - Unregistered(c)
      BY DEF StopService
    <3> QED
      BY <3>1, <3>2
  <2> QED
    BY <2>1
<1>3. running' \in [CohortId -> Nat]
  <2>1. running' = [c \in CohortId |-> running'[c]]
    BY DEF StopService
  <2> QED
    BY <1>2, <2>1
<1>4. PeersTyped'
  <2>1. ASSUME NEW r \in Request
        PROVE  spawn'[r].left + spawn'[r].up <= Capacity
    <3>1. /\ spawn[r].left \in 0 .. Capacity /\ spawn[r].up \in 0 .. Capacity
          /\ spawn[r].left + spawn[r].up <= Capacity
      BY DEF PeersInv, PeersTyped, TypeOK, Spawn
    <3> QED
      BY <1>1, <3>1, CapacityAssumption
  <2>2. handles' \in [CohortId -> Nat]
    BY <1>1
  <2>3. \A r \in Request : spawn'[r].state = "starting" => spawn'[r].cohort \in CohortId
    BY <1>1 DEF PeersInv, PeersTyped
  <2>4. TypeOK'
    BY <1>1, <1>3, <2>2 DEF PeersInv, PeersTyped, TypeOK
  <2> QED
    BY <2>1, <2>3, <2>4 DEF PeersTyped
<1>5. PeersFinite'
  <2>1. ASSUME NEW c \in CohortId
        PROVE  Starting(c)' = {}
    BY <1>1, CapacityAssumption DEF Starting, SpawnsOn, InFlight
  <2>2. IsFiniteSet({})
    BY FS_EmptySet
  <2> QED
    BY <2>1, <2>2 DEF PeersFinite
<1>6. StopInv'
  BY <1>1 DEF StopInv, InFlight
<1>7. EveryPeerIsHeld'
  BY <1>1 DEF EveryPeerIsHeld
<1>8. UntouchedInv'
  <2>1. \A c \in CohortId : stage'[c] \in {"fresh", "open"} => stage[c] = "fresh" /\ stage'[c] = "fresh"
    BY DEF StopService, Ends, PeersInv, PeersTyped, TypeOK
  <2> QED
    BY <1>1, <1>2, <2>1 DEF PeersInv, UntouchedInv, InFlight
<1> QED
  BY <1>2, <1>4, <1>5, <1>6, <1>7, <1>8 DEF PeersInv

\* No peer runs at first.
LEMMA PeersInitOk == PeersInit => PeersInv
<1> SUFFICES ASSUME PeersInit PROVE PeersInv
  OBVIOUS
<1>1. PeersTyped
  <2>1. 0 \in 0 .. Capacity /\ 0 + 0 <= Capacity
    BY CapacityAssumption
  <2>2. TypeOK
    BY <2>1, NoSpawnIs DEF PeersInit, TypeOK
  <2>3. \A r \in Request : spawn[r] = NoSpawn
    BY DEF PeersInit
  <2> QED
    BY <2>1, <2>2, <2>3, NoSpawnIs DEF PeersTyped
<1>2. \A c : Starting(c) = {}
  BY CapacityAssumption DEF PeersInit, Starting, SpawnsOn, InFlight, NoSpawn
<1>3. \A c : Unregistered(c) = 0
  <2>1. Cardinality({}) = 0
    BY FS_EmptySet
  <2> QED
    BY <1>2, <2>1 DEF Unregistered
<1>4. PeersFinite
  <2>1. IsFiniteSet({})
    BY FS_EmptySet
  <2> QED
    BY <1>2, <2>1 DEF PeersFinite
<1>5. EveryPeerIsHeld /\ StopInv /\ UntouchedInv
  BY <1>3, NoSpawnIs DEF PeersInit, EveryPeerIsHeld, StopInv, UntouchedInv, InFlight
<1> QED
  BY <1>1, <1>4, <1>5 DEF PeersInv

\* One step of a cohort, a spawn or the service.
LEMMA PeersNextOk == PeersInv /\ [PeersNext]_peersVars => PeersInv'
<1> SUFFICES ASSUME PeersInv, [PeersNext]_peersVars PROVE PeersInv'
  OBVIOUS
<1>1. CASE UNCHANGED peersVars
  <2>1. spawn' = spawn /\ UNCHANGED <<stage, seats, handles, running, stopped>>
    BY <1>1 DEF peersVars
  <2>2. /\ \A c : Unregistered(c)' = Unregistered(c)
        /\ PeersFinite' /\ InFlight' = InFlight
    BY <2>1, SpawnsStand
  <2>3. PeersTyped' /\ StopInv' /\ UntouchedInv'
    BY <2>1, <2>2 DEF PeersInv, PeersTyped, TypeOK, StopInv, UntouchedInv
  <2>4. EveryPeerIsHeld'
    BY <2>1, <2>2 DEF PeersInv, EveryPeerIsHeld
  <2> QED
    BY <2>2, <2>3, <2>4 DEF PeersInv
<1>2. ASSUME NEW c \in CohortId, CohortStep(c)
      PROVE  PeersInv'
  BY <1>2, CohortStepKeeps
<1>3. ASSUME NEW c \in CohortId, NEW r \in Request, NEW n \in 1 .. Capacity, AddTestPeers(r, c, n)
      PROVE  PeersInv'
  BY <1>3, AddTestPeersKeeps
<1>4. ASSUME NEW r \in Request, SpawnStep(r)
      PROVE  PeersInv'
  BY <1>4, PeerStartsKeeps, PeerFailsKeeps, SpawnReturnsKeeps DEF SpawnStep
<1>5. CASE StopService
  BY <1>5, StopServiceKeeps
<1> QED
  BY <1>1, <1>2, <1>3, <1>4, <1>5 DEF PeersNext

\* Peers, batches and spawns add up, and what the abort has stopped is not
\* subtracted again.
THEOREM PeersInvariant == PeersSpec => []PeersInv
<1>1. PeersInit => PeersInv
  BY PeersInitOk
<1>2. PeersInv /\ [PeersNext]_peersVars => PeersInv'
  BY PeersNextOk
<1> QED
  BY <1>1, <1>2, PTL DEF PeersSpec

\* The tables of the peers keep their types.
THEOREM PeersKeepTypes == PeersSpec => []TypeOK
<1>1. PeersInv => TypeOK
  BY DEF PeersInv, PeersTyped
<1> QED
  BY <1>1, PeersInvariant, PTL

\* Every running peer is held, by a batch or by the spawn that starts it, however
\* spawns overlap and cohorts end (registry.spawn, registry.release).
THEOREM PeersStayHeld == PeersSpec => []EveryPeerIsHeld
<1>1. PeersInv => EveryPeerIsHeld
  BY DEF PeersInv
<1> QED
  BY <1>1, PeersInvariant, PTL

\* stop() leaves no peer running, and the end of a cohort none of its batches'
\* (service.stop, registry.release).
THEOREM EndsReach == PeersSpec => EndsReachTheirPeers
<1>1. PeersInv /\ [PeersNext]_peersVars =>
        [\A c \in CohortId :
          /\ ~stopped /\ stopped' => running'[c] = 0
          /\ stage[c] = "open" /\ stage'[c] \in {"completed", "canceled"} =>
                running'[c] = Unregistered(c)']_peersVars
  <2> SUFFICES ASSUME PeersInv, PeersNext, NEW c \in CohortId
               PROVE  /\ ~stopped /\ stopped' => running'[c] = 0
                      /\ stage[c] = "open" /\ stage'[c] \in {"completed", "canceled"} =>
                            running'[c] = Unregistered(c)'
    OBVIOUS
  <2>1. CASE StopService
    <3>1. stage[c] = "open" => stage'[c] = "stopped"
      BY <2>1 DEF StopService
    <3> QED
      BY <2>1, <3>1, StopServiceKeeps
  <2>2. ASSUME NEW d \in CohortId, NEW r \in Request, NEW n \in 1 .. Capacity, AddTestPeers(r, d, n)
        PROVE  stopped' = stopped /\ stage' = stage
    BY <2>2 DEF AddTestPeers
  <2>3. ASSUME NEW r \in Request, SpawnStep(r)
        PROVE  stopped' = stopped /\ stage' = stage
    BY <2>3 DEF SpawnStep, PeerStarts, PeerFails, SpawnReturns
  <2>4. ASSUME NEW d \in CohortId, CohortStep(d)
        PROVE  /\ ~stopped /\ stopped' => running'[c] = 0
               /\ stage[c] = "open" /\ stage'[c] \in {"completed", "canceled"} =>
                     running'[c] = Unregistered(c)'
    <3>1. spawn' = spawn /\ stopped' = stopped
      BY <2>4 DEF CohortStep, Advertise, TakeSeat, EndCohort, Complete, Cancel, CohortFails, WindowExpires
    <3>2. ASSUME stage[c] = "open", stage'[c] \in {"completed", "canceled"}
          PROVE  running'[c] = Unregistered(c)'
      <4>1. c = d /\ Release(c)
        BY <2>4, <3>2 DEF CohortStep, Advertise, TakeSeat, EndCohort, Complete, Cancel, CohortFails,
           WindowExpires, PeersInv, PeersTyped, TypeOK
      <4>2. running'[c] = running[c] - handles[c]
        BY <4>1 DEF Release, PeersInv, PeersTyped, TypeOK
      <4>3. Unregistered(c)' = Unregistered(c)
        BY <3>1, SpawnsStand
      <4>4. CASE ~stopped
        <5>1. /\ running[c] = handles[c] + Unregistered(c) /\ Unregistered(c) \in Nat
              /\ handles[c] \in Nat
          BY <4>4, HeldAre
        <5> QED
          BY <4>2, <4>3, <5>1
      <4>5. CASE stopped
        <5>1. running[c] = 0 /\ \A r \in InFlight : spawn[r].cohort # c
          BY <3>2, <4>5 DEF PeersInv, UntouchedInv
        <5>2. Starting(c) = {}
          BY <5>1 DEF Starting, SpawnsOn
        <5>3. Unregistered(c) = 0
          <6>1. Cardinality({}) = 0
            BY FS_EmptySet
          <6> QED
            BY <5>2, <6>1 DEF Unregistered
        <5>4. handles[c] = 0
          BY <4>5, HeldAre
        <5> QED
          BY <4>2, <4>3, <5>1, <5>3, <5>4
      <4> QED
        BY <4>4, <4>5
    <3> QED
      BY <3>1, <3>2
  <2> QED
    BY <2>1, <2>2, <2>3, <2>4 DEF PeersNext
<1> QED
  BY <1>1, PeersInvariant, PTL DEF PeersSpec, EndsReachTheirPeers

================================================================================

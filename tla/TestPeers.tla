---- MODULE TestPeers ----
(***************************************************************************)
(* The operator's test peers (packages/service/src/test-peers.ts): an      *)
(* in-process participant per free seat of a cohort, started one after the *)
(* other by an asynchronous spawn, registered once the spawn returns, and  *)
(* stopped by the cohort's release (index.ts, releaseCohortTables) or by   *)
(* service.stop().  Each await of a peer's start() lets every other        *)
(* handler run.                                                            *)
(***************************************************************************)
EXTENDS Naturals, FiniteSets

CONSTANTS
    CohortId,     \* cohort ids
    Request,      \* operator requests to add test peers, each made once
    Capacity,     \* n, the seats of a cohort
    NoCohort      \* no cohort

ASSUME CapacityAssumption == Capacity \in Nat \ {0}
ASSUME NoCohortAssumption == NoCohort \notin CohortId

VARIABLES
    stage,    \* runner: "fresh", "open", or how the cohort ended
    seats,    \* runner: participants seated in each cohort
    spawn,    \* Request -> the spawn it started
    handles,  \* registry: running peers that a batch handle of the cohort holds
    running,  \* peers whose subscriptions are open, by cohort
    stopped   \* the service's stop signal is aborted

peersVars == <<stage, seats, spawn, handles, running, stopped>>

Ends == {"completed", "failed", "canceled", "window-expired", "stopped"}

\* A spawn: its state, its cohort, the peers it has yet to try, the started
\* peers its stopAll would reach, and whether that stopAll has run.
Spawn == [state : {"none", "starting", "returned"}, cohort : CohortId \cup {NoCohort},
          left : 0 .. Capacity, up : 0 .. Capacity, halted : BOOLEAN]
NoSpawn == [state |-> "none", cohort |-> NoCohort, left |-> 0, up |-> 0,
            halted |-> FALSE]

InFlight == {r \in Request : spawn[r].state = "starting"}
SpawnsOn(c) == {r \in InFlight : spawn[r].cohort = c}

\* The peers a cohort's spawns have started and not yet handed over: the k-th of
\* request r is <<r, k>>.
Starting(c) ==
    {p \in Request \X (1 .. Capacity) : p[1] \in SpawnsOn(c) /\ p[2] <= spawn[p[1]].up}
Unregistered(c) == Cardinality(Starting(c))

TypeOK ==
    /\ stage \in [CohortId -> {"fresh", "open"} \cup Ends]
    /\ seats \in [CohortId -> 0 .. Capacity]
    /\ spawn \in [Request -> Spawn]
    /\ handles \in [CohortId -> Nat]
    /\ running \in [CohortId -> Nat]
    /\ stopped \in BOOLEAN

-----------------------------------------------------------------------------
(* Releasing peers *)

\* registry.release: stop and drop every batch of the cohort.
Release(c) ==
    /\ running' = [running EXCEPT ![c] = @ - handles[c]]
    /\ handles' = [handles EXCEPT ![c] = 0]

-----------------------------------------------------------------------------
(* Cohorts, as far as their peers can tell *)

Advertise(c) ==
    /\ stage[c] = "fresh"
    /\ stage' = [stage EXCEPT ![c] = "open"]
    /\ UNCHANGED <<seats, spawn, handles, running, stopped>>

\* A participant, test peer or not, is seated.
TakeSeat(c) ==
    /\ stage[c] = "open"
    /\ seats[c] < Capacity
    /\ seats' = [seats EXCEPT ![c] = @ + 1]
    /\ UNCHANGED <<stage, spawn, handles, running, stopped>>

EndCohort(c, end) ==
    /\ stage[c] = "open"
    /\ stage' = [stage EXCEPT ![c] = end]
    /\ UNCHANGED <<seats, spawn, stopped>>

\* signing-complete and the operator's cancel release the cohort's tables.
Complete(c) == seats[c] = Capacity /\ EndCohort(c, "completed") /\ Release(c)

Cancel(c) == EndCohort(c, "canceled") /\ Release(c)

\* cohort-failed releases them only on a broadcasting service and only while
\* the cohort has a funding watch, which starts with a full roster.
CohortFails(c) ==
    /\ EndCohort(c, "failed")
    /\ \/ seats[c] = Capacity /\ Release(c)
       \/ UNCHANGED <<handles, running>>

\* A closed discovery window stops the cohort silently.
WindowExpires(c) ==
    /\ EndCohort(c, "window-expired")
    /\ UNCHANGED <<handles, running>>

-----------------------------------------------------------------------------
(* Spawning *)

\* addTestPeersFor: the remaining seats are read here, before the first await.
AddTestPeers(r, c, requested) ==
    LET remaining == Capacity - seats[c] IN
    /\ ~stopped
    /\ spawn[r].state = "none"
    /\ stage[c] = "open"
    /\ remaining > 0
    /\ spawn' = [spawn EXCEPT ![r] =
           [state |-> "starting", cohort |-> c, up |-> 0, halted |-> FALSE,
            left |-> IF requested < remaining THEN requested ELSE remaining]]
    /\ UNCHANGED <<stage, seats, handles, running, stopped>>

\* The awaited start() resolves: the peer is pushed, signal or no signal.
PeerStarts(r) ==
    /\ r \in InFlight
    /\ spawn[r].left > 0
    /\ spawn' = [spawn EXCEPT ![r].left = @ - 1, ![r].up = @ + 1]
    /\ running' = [running EXCEPT ![spawn[r].cohort] = @ + 1]
    /\ UNCHANGED <<stage, seats, handles, stopped>>

\* It rejects: the half-built peer is stopped and left out of the count.
PeerFails(r) ==
    /\ r \in InFlight
    /\ spawn[r].left > 0
    /\ spawn' = [spawn EXCEPT ![r].left = @ - 1]
    /\ UNCHANGED <<stage, seats, handles, running, stopped>>

SpawnReturns_Overwrites(r) ==   \* mutant: handles.set(id, [handle])
    /\ r \in InFlight
    /\ spawn[r].left = 0
    /\ spawn' = [spawn EXCEPT ![r] = [NoSpawn EXCEPT !.state = "returned"]]
    /\ IF stopped
       THEN /\ running' = [running EXCEPT ![spawn[r].cohort] =
                              IF spawn[r].halted THEN @ ELSE @ - spawn[r].up]
            /\ UNCHANGED handles
       ELSE /\ handles' = [handles EXCEPT ![spawn[r].cohort] = spawn[r].up]
            /\ UNCHANGED running
    /\ UNCHANGED <<stage, seats, stopped>>

\* The loop is over.  On a stopped service stopAll is called, which returns at
\* once if it has run before; otherwise the batch is registered.
SpawnReturns(r) ==
    /\ r \in InFlight
    /\ spawn[r].left = 0
    /\ spawn' = [spawn EXCEPT ![r] = [NoSpawn EXCEPT !.state = "returned"]]
    /\ IF stopped
       THEN /\ running' = [running EXCEPT ![spawn[r].cohort] =
                              IF spawn[r].halted THEN @ ELSE @ - spawn[r].up]
            /\ UNCHANGED handles
       ELSE /\ handles' = [handles EXCEPT ![spawn[r].cohort] = @ + spawn[r].up]
            /\ UNCHANGED running
    /\ UNCHANGED <<stage, seats, stopped>>

-----------------------------------------------------------------------------
StopService_RegisteredOnly ==   \* mutant: the abort reaches no spawn in flight
    /\ ~stopped
    /\ stopped' = TRUE
    /\ stage' = [c \in CohortId |-> IF stage[c] = "open" THEN "stopped" ELSE stage[c]]
    /\ running' = [c \in CohortId |-> running[c] - handles[c]]
    /\ handles' = [c \in CohortId |-> 0]
    /\ UNCHANGED <<seats, spawn>>

\* service.stop(): the registry stops every registered batch, then the abort
\* signal runs the stopAll of every spawn still in flight.
StopService ==
    /\ ~stopped
    /\ stopped' = TRUE
    /\ stage' = [c \in CohortId |-> IF stage[c] = "open" THEN "stopped" ELSE stage[c]]
    /\ running' = [c \in CohortId |-> running[c] - handles[c] - Unregistered(c)]
    /\ handles' = [c \in CohortId |-> 0]
    /\ spawn' = [r \in Request |->
           IF r \in InFlight
           THEN [spawn[r] EXCEPT !.up = 0, !.halted = TRUE]
           ELSE spawn[r]]
    /\ UNCHANGED seats

PeersInit ==
    /\ stage = [c \in CohortId |-> "fresh"]
    /\ seats = [c \in CohortId |-> 0]
    /\ spawn = [r \in Request |-> NoSpawn]
    /\ handles = [c \in CohortId |-> 0]
    /\ running = [c \in CohortId |-> 0]
    /\ stopped = FALSE

CohortStep(c) ==
    Advertise(c) \/ TakeSeat(c) \/ Complete(c) \/ Cancel(c) \/ CohortFails(c)
      \/ WindowExpires(c)

SpawnStep(r) == PeerStarts(r) \/ PeerFails(r) \/ SpawnReturns(r)

PeersNext ==
    \/ \E c \in CohortId :
          \/ CohortStep(c)
          \/ \E r \in Request, n \in 1 .. Capacity : AddTestPeers(r, c, n)
    \/ \E r \in Request : SpawnStep(r)
    \/ StopService

PeersSpec == PeersInit /\ [][PeersNext]_peersVars

-----------------------------------------------------------------------------
(* Properties *)

\* On a running service no peer is out of reach: each one is held either by a
\* registered batch or by the spawn that is still starting its batch, however
\* spawns for one cohort overlap and whenever the cohort ends (registry.spawn
\* and registry.release over the same map).
EveryPeerIsHeld ==
    ~stopped => \A c \in CohortId : running[c] = handles[c] + Unregistered(c)

\* stop() reaches every peer that runs at that moment, those of a spawn still
\* in flight included, and release every registered one of its cohort: what
\* runs afterwards was started later (service.stop, registry.release).
EndsReachTheirPeers ==
    [][\A c \in CohortId :
          /\ ~stopped /\ stopped' => running'[c] = 0
          /\ stage[c] = "open" /\ stage'[c] \in {"completed", "canceled"} =>
                running'[c] = Unregistered(c)']_peersVars

\* "Every peer is stopped when its cohort settles": once a cohort has ended
\* and no spawn for it is pending, none of its peers runs (test-peers.ts, the
\* module comment's Lifetime bound).
PeersEndWithCohort ==
    \A c \in CohortId :
        stage[c] \in Ends /\ SpawnsOn(c) = {} => running[c] = 0

\* A batch started across the abort is not leaked: "run it again rather than
\* leaking them" (spawnTestPeers, the comment on its last signal check).
PeersEndWithService ==
    stopped => \A c \in CohortId : SpawnsOn(c) = {} => running[c] = 0
====

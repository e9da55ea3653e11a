---- MODULE AcceptanceLedger ----
(***************************************************************************)
(* Participation-terms acceptances: POST /v1/terms/acceptance              *)
(* (hono-adapter.ts, recordTermsAcceptance), the bounded ledger it keeps   *)
(* in memory (acceptance-ledger.ts) and the file-backed store it writes    *)
(* (store.ts, FileSystemArtifactStore).                                    *)
(*                                                                         *)
(* A record is known by the hash of its bytes; its key is the participant  *)
(* and the cohort it names.  The route awaits the write, then asks the     *)
(* ledger - without a pause - which records to retire, then awaits each    *)
(* deletion: requests interleave at the awaits.  The ledger does not       *)
(* outlive the process, the files do.                                      *)
(***************************************************************************)
EXTENDS BoundedMap, FiniteSets

CONSTANTS
    Hash,             \* acceptance records, by hash
    Key,              \* participant-and-cohort keys
    KeyOf,            \* the key a record is deduplicated on
    Request,          \* posts, each made once
    MaxAcceptances,   \* MAX_ACCEPTANCES (200 in the code)
    MaxRestarts,      \* bound: how often the process dies and comes back
    None              \* no record

ASSUME KeyAssumption == KeyOf \in [Hash -> Key]
ASSUME BoundAssumption == MaxAcceptances \in Nat \ {0} /\ MaxRestarts \in Nat
ASSUME NoneAssumption == None \notin Hash

VARIABLES
    ledger,      \* byKey, in insertion order
    request,     \* Request -> how far it has come
    files,       \* records with a file in the acceptance directory
    readable,    \* those whose file parses
    damaged,     \* history: records whose write or deletion failed
    inherited,   \* history: records with a file when the process last started
    overlapped,  \* history: two requests were in flight at once
    restarts     \* history: process restarts so far

vars == <<ledger, request, files, readable, damaged, inherited, overlapped,
          restarts>>

Entry == [id : Key, hash : Hash]

\* linked: the file a writer has open is still the one in the directory;
\* drop: the records the ledger told the request to retire.
NoRequest == [state |-> "none", hash |-> None, linked |-> FALSE, drop |-> {}]

Posted == [state : {"writing", "stored", "retiring", "replied", "failed", "lost"},
           hash : Hash, linked : BOOLEAN, drop : SUBSET Hash]

Retained == {ledger[i].hash : i \in DOMAIN ledger}
Writing == {r \in Request : request[r].state = "writing"}
InFlight == {r \in Request : request[r].state \in {"writing", "stored", "retiring"}}

TypeOK ==
    /\ ledger \in Seq(Entry)
    /\ Len(ledger) <= MaxAcceptances
    /\ request \in [Request -> Posted \cup {NoRequest}]
    /\ files \subseteq Hash
    /\ readable \subseteq files
    /\ damaged \subseteq Hash
    /\ inherited \subseteq Hash
    /\ overlapped \in BOOLEAN
    /\ restarts \in 0 .. MaxRestarts

-----------------------------------------------------------------------------
(* The store *)

\* writeFile opens the file, which empties it if it is there.
Open(h) ==
    /\ files' = files \cup {h}
    /\ readable' = readable \ {h}

\* unlink; a writer that has the file open goes on writing to nothing.
Unlink(h) ==
    /\ files' = files \ {h}
    /\ readable' = readable \ {h}

-----------------------------------------------------------------------------
(* The ledger *)

Renewed(h) == [id |-> KeyOf[h], hash |-> h]

Remembered(h) == Remember(ledger, Renewed(h), MaxAcceptances)

Drop_Replayed(h) ==   \* mutant: the previous record, even when it is this one
    {ledger[i].hash : i \in {i \in DOMAIN ledger : ledger[i].id = KeyOf[h]}}

Drop_Replaced(h) ==   \* mutant: the evicted record is not handed back
    {ledger[i].hash : i \in {i \in DOMAIN ledger : ledger[i].id = KeyOf[h]}} \ {h}

\* What remember returns, less the record just stored: the record this one
\* replaces, and the oldest one if the ledger outgrew its bound.
Drop(h) ==
    LET previous == {i \in DOMAIN ledger : ledger[i].id = KeyOf[h]}
        grown == Append(Delete(ledger, KeyOf[h]), Renewed(h))
        oldest == IF Len(grown) > MaxAcceptances THEN {Head(grown).hash} ELSE {}
    IN  ({ledger[i].hash : i \in previous} \cup oldest) \ {h}

-----------------------------------------------------------------------------
(* One request *)

\* The body is valid and its signature verifies, so the record is written.
Post(r, h) ==
    /\ request[r] = NoRequest
    /\ request' = [request EXCEPT ![r] =
           [state |-> "writing", hash |-> h, linked |-> TRUE, drop |-> {}]]
    /\ Open(h)
    /\ overlapped' = (overlapped \/ InFlight # {})
    /\ UNCHANGED <<ledger, damaged, inherited, restarts>>

PutLands(r) ==
    /\ r \in Writing
    /\ request' = [request EXCEPT ![r].state = "stored"]
    /\ readable' = IF request[r].linked THEN readable \cup {request[r].hash}
                                        ELSE readable
    /\ UNCHANGED <<ledger, files, damaged, inherited, overlapped, restarts>>

\* The write rejects half-way: the route refuses, nothing is remembered.
PutFails(r) ==
    /\ r \in Writing
    /\ request' = [request EXCEPT ![r].state = "failed"]
    /\ damaged' = damaged \cup {request[r].hash}
    /\ UNCHANGED <<ledger, files, readable, inherited, overlapped, restarts>>

\* The write has resolved: the ledger takes the record in and hands back the
\* ones to retire; with none, the route answers 200.
Reconcile(r) ==
    LET h == request[r].hash IN
    /\ request[r].state = "stored"
    /\ ledger' = Remembered(h)
    /\ request' = [request EXCEPT
           ![r].state = IF Drop(h) = {} THEN "replied" ELSE "retiring",
           ![r].drop = Drop(h)]
    /\ UNCHANGED <<files, readable, damaged, inherited, overlapped, restarts>>

\* Request r is done with h; the last retirement lets it answer 200.
Retired(r, h) ==
    [request[r] EXCEPT
        !.drop = @ \ {h},
        !.state = IF request[r].drop = {h} THEN "replied" ELSE "retiring"]

DeleteLands(r, h) ==
    /\ request[r].state = "retiring"
    /\ h \in request[r].drop
    /\ Unlink(h)
    /\ request' = [q \in Request |->
           IF q = r THEN Retired(r, h)
           ELSE IF q \in Writing /\ request[q].hash = h
                THEN [request[q] EXCEPT !.linked = FALSE]
                ELSE request[q]]
    /\ UNCHANGED <<ledger, damaged, inherited, overlapped, restarts>>

\* A deletion that rejects is logged; the reply is 200 all the same.
DeleteFails(r, h) ==
    /\ request[r].state = "retiring"
    /\ h \in request[r].drop
    /\ request' = [request EXCEPT ![r] = Retired(r, h)]
    /\ damaged' = damaged \cup {h}
    /\ UNCHANGED <<ledger, files, readable, inherited, overlapped, restarts>>

-----------------------------------------------------------------------------
\* The process dies and starts again on the same directory, its ledger empty.
Restart ==
    /\ restarts < MaxRestarts
    /\ restarts' = restarts + 1
    /\ ledger' = <<>>
    /\ request' = [r \in Request |->
           IF r \in InFlight
           THEN [request[r] EXCEPT !.state = "lost", !.drop = {}]
           ELSE request[r]]
    /\ inherited' = files
    /\ UNCHANGED <<files, readable, damaged, overlapped>>

Init ==
    /\ ledger = <<>>
    /\ request = [r \in Request |-> NoRequest]
    /\ files = {}
    /\ readable = {}
    /\ damaged = {}
    /\ inherited = {}
    /\ overlapped = FALSE
    /\ restarts = 0

RequestStep(r) ==
    \/ \E h \in Hash : Post(r, h) \/ DeleteLands(r, h) \/ DeleteFails(r, h)
    \/ PutLands(r) \/ PutFails(r) \/ Reconcile(r)

Next == (\E r \in Request : RequestStep(r)) \/ Restart

Spec == Init /\ [][Next]_vars

-----------------------------------------------------------------------------
(* Properties *)

Undisturbed == damaged = {} /\ restarts = 0

\* Nothing is orphaned, so the ledger's bound bounds the directory: whatever
\* order requests interleave in, a file is one the ledger retains, one that a
\* request in flight will still remember or retire, or the trace of a fault -
\* a failed write or deletion, or a restart (recordTermsAcceptance: the
\* ledger's answer and its retirement loop).
FilesAccounted ==
    files \subseteq
        Retained \cup damaged \cup inherited
          \cup {request[r].hash : r \in {q \in InFlight : request[q].state # "retiring"}}
          \cup UNION {request[r].drop : r \in InFlight}

\* A file that does not parse is being written, or is the trace of a fault.
TornExplained ==
    files \ readable \subseteq
        damaged \cup inherited \cup {request[r].hash : r \in Writing}

\* Requests that never overlapped keep the ledger and the directory equal
\* after any sequence of replays, replacements and overflows.
SequentialAgreement ==
    Undisturbed /\ ~overlapped /\ InFlight = {} =>
        files = Retained /\ readable = Retained

\* Replays may overlap: as long as everyone who accepts for a key posts the
\* same record and the ledger has room for every key, a record that was once
\* answered for stays readable, but for the moment a replay rewrites it
\* (remember hands back the previous hash only when it differs).
ReplaysAreHarmless ==
    LET posted == {r \in Request : request[r] # NoRequest}
        records(k) == {request[r].hash : r \in {q \in posted : KeyOf[request[q].hash] = k}}
    IN  Undisturbed /\ Cardinality({KeyOf[request[r].hash] : r \in posted}) <= MaxAcceptances =>
            \A r \in posted :
                /\ request[r].state = "replied"
                /\ records(KeyOf[request[r].hash]) = {request[r].hash}
                /\ \A q \in Writing : request[q].hash # request[r].hash
                => request[r].hash \in readable

\* "THE LEDGER AND THE STORE AGREE after a mixed batch of replays,
\* replacements and overflow" (acceptance-ledger.ts, retained).
LedgerMatchesStore ==
    Undisturbed /\ InFlight = {} => readable = Retained
====

---- MODULE AcceptanceLedgerProofs ----
(***************************************************************************)
(* Proofs about AcceptanceLedger, for any records, keys, bound and number  *)
(* of requests: every file is accounted for however requests interleave    *)
(* and the process restarts, requests that do not overlap keep the ledger  *)
(* and the directory equal, and a replay within the bound harms nothing.   *)
(***************************************************************************)
EXTENDS AcceptanceLedger, BoundedMapProofs

Hashes(map) == {map[i].hash : i \in DOMAIN map}

\* Every entry is under the key of its record.
Matching(map) == \A i \in DOMAIN map : map[i].id = KeyOf[map[i].hash]

LedgerInv == Distinct(ledger) /\ Matching(ledger)

\* Only a request that is retiring has records to retire.
DropInv ==
    \A r \in Request : request[r].state = "retiring" <=> request[r].drop # {}

\* The file a linked writer has open is in the directory, and a file that does
\* not parse has such a writer, or is the trace of a fault.
LinkedInv == \A r \in Writing : request[r].linked => request[r].hash \in files

TornInv ==
    files \ readable \subseteq
        damaged \cup inherited
          \cup {request[r].hash : r \in {q \in Writing : request[q].linked}}

RequestInv == DropInv /\ LinkedInv /\ TornInv

\* What the stage of a lone request q says about the directory, given the
\* records the ledger retains.
StageAgrees(q, retained, present, whole) ==
    \/ /\ q.state = "writing" /\ q.linked
       /\ present = retained \cup {q.hash}
       /\ whole = retained \ {q.hash}
    \/ /\ q.state = "stored"
       /\ present = retained \cup {q.hash}
       /\ whole = present
    \/ /\ q.state = "retiring"
       /\ present = retained \cup q.drop
       /\ whole = present
       /\ retained \cap q.drop = {}

\* Without faults and overlaps the one request in flight explains the
\* difference between the ledger and the directory.
AloneInv ==
    Undisturbed /\ ~overlapped =>
        /\ \A p, q \in InFlight : p = q
        /\ InFlight = {} => files = Retained /\ readable = Retained
        /\ \A r \in InFlight : StageAgrees(request[r], Retained, files, readable)

Inv == TypeOK /\ LedgerInv /\ FilesAccounted /\ RequestInv

-----------------------------------------------------------------------------
(* The ledger *)

\* Taking a record in: the ledger stays well-formed, gains the record, and
\* hands back precisely the records it gives up.
LEMMA TakesIn ==
    ASSUME TypeOK, LedgerInv, NEW h \in Hash,
           NEW new, new = Remembered(h)
    PROVE  /\ new \in Seq(Entry) /\ Len(new) <= MaxAcceptances
           /\ Distinct(new) /\ Matching(new)
           /\ h \in Hashes(new)
           /\ Hashes(new) \cup Drop(h) = Retained \cup {h}
           /\ Hashes(new) \cap Drop(h) = {}
           /\ Drop(h) \subseteq Hash
<1> DEFINE entry == Renewed(h)
           grown == Append(Delete(ledger, entry.id), entry)
           evicted == IF Len(grown) > MaxAcceptances THEN {Head(grown)} ELSE {}
           replaced == {ledger[i].hash : i \in {i \in DOMAIN ledger : ledger[i].id = KeyOf[h]}}
<1>1. /\ entry \in Entry /\ entry.id = KeyOf[h] /\ entry.hash = h
      /\ ledger \in Seq(Entry) /\ Distinct(ledger) /\ Matching(ledger)
      /\ MaxAcceptances \in Nat \ {0} /\ Len(ledger) <= MaxAcceptances
    BY KeyAssumption, BoundAssumption DEF Renewed, Entry, TypeOK, LedgerInv
<1>2. new \in Seq(Entry) /\ Len(new) <= MaxAcceptances
    BY <1>1, RememberProperties DEF Remembered
<1>3. Renews(ledger, entry, evicted, new)
    BY <1>1, RememberDistinct DEF Remembered
<1>4. Drop(h) = (replaced \cup {e.hash : e \in evicted}) \ {h}
    BY <1>1 DEF Drop
<1>5. \A i \in DOMAIN ledger : ledger[i] \in Entry
    BY <1>1, ElementOfSeq, LenProperties
<1> HIDE DEF entry, evicted, grown
<1>6. Distinct(new) /\ Matching(new)
    BY <1>1, <1>3 DEF Renews, Matching
<1>7. h \in Hashes(new)
    BY <1>1, <1>3 DEF Renews, Hashes
<1>8. \A e \in evicted : \E i \in DOMAIN ledger : e = ledger[i]
    BY <1>3 DEF Renews
<1>9. Drop(h) \subseteq Retained \ {h}
    BY <1>4, <1>8 DEF Retained
<1>10. Hashes(new) \subseteq Retained \cup {h}
    BY <1>1, <1>3 DEF Renews, Hashes, Retained
<1>11. Retained \subseteq Hashes(new) \cup Drop(h) \cup {h}
    <2> SUFFICES ASSUME NEW i \in DOMAIN ledger, ledger[i].hash # h,
                        ledger[i].hash \notin Drop(h)
                 PROVE  ledger[i].hash \in Hashes(new)
        BY DEF Retained
    <2>1. ledger[i].id # KeyOf[h] /\ ledger[i] \notin evicted
        BY <1>4
    <2>2. \E j \in DOMAIN new : new[j] = ledger[i]
        BY <2>1, <1>1, <1>3 DEF Renews
    <2> QED BY <2>2 DEF Hashes
<1>12. Hashes(new) \cap Drop(h) = {}
    <2> SUFFICES ASSUME NEW j \in DOMAIN new, new[j].hash \in Drop(h)
                 PROVE  FALSE
        BY DEF Hashes
    <2>1. new[j].hash # h /\ new[j].id = KeyOf[new[j].hash]
        BY <1>4, <1>6 DEF Matching
    <2>2. new[j].id # KeyOf[h]
        BY <1>1, <1>3, <2>1 DEF Renews
    <2>3. \A e \in evicted : e.id = KeyOf[e.hash] /\ new[j].id # e.id
        BY <1>1, <1>3, <1>8 DEF Renews, Matching
    <2>4. new[j].hash \notin replaced
        BY <2>1, <2>2, <1>1 DEF Matching
    <2> QED BY <1>4, <2>1, <2>3, <2>4
<1>13. Retained \subseteq Hash
    BY <1>5 DEF Retained, Entry
<1> QED BY <1>2, <1>6, <1>7, <1>9, <1>10, <1>11, <1>12, <1>13

-----------------------------------------------------------------------------
(* The inductive invariant, action by action *)

LEMMA InitInv == Init => Inv /\ AloneInv
<1> SUFFICES ASSUME Init PROVE Inv /\ AloneInv
    OBVIOUS
<1>1. ledger \in Seq(Entry) /\ Len(ledger) = 0 /\ DOMAIN ledger = {}
    BY EmptySeq DEF Init
<1>2. TypeOK
    <2>1. 0 \in 0 .. MaxRestarts /\ 0 <= MaxAcceptances
        BY BoundAssumption
    <2>2. request \in [Request -> Posted \cup {NoRequest}]
        BY DEF Init
    <2> QED BY <1>1, <2>1, <2>2 DEF Init, TypeOK
<1>3. LedgerInv
    BY <1>1 DEF LedgerInv, Distinct, Matching
<1>4. FilesAccounted /\ RequestInv /\ InFlight = {} /\ Retained = {}
    BY <1>1 DEF Init, FilesAccounted, RequestInv, DropInv, LinkedInv, TornInv,
                NoRequest, InFlight, Writing, Retained
<1>5. AloneInv
    BY <1>4 DEF AloneInv, Init
<1> QED BY <1>2, <1>3, <1>4, <1>5 DEF Inv

LEMMA PostInv ==
    ASSUME Inv, NEW r \in Request, NEW h \in Hash, Post(r, h)
    PROVE  Inv'
<1> DEFINE begun == [state |-> "writing", hash |-> h, linked |-> TRUE, drop |-> {}]
<1>1. /\ TypeOK /\ LedgerInv /\ FilesAccounted /\ RequestInv
      /\ request \in [Request -> Posted \cup {NoRequest}]
      /\ begun \in Posted
    BY DEF Inv, TypeOK, Posted
<1>2. /\ request' = [request EXCEPT ![r] = begun]
      /\ files' = files \cup {h} /\ readable' = readable \ {h}
      /\ overlapped' \in BOOLEAN
      /\ UNCHANGED <<ledger, damaged, inherited, restarts>>
      /\ request[r] = NoRequest
    BY DEF Post, Open
<1> HIDE DEF begun
<1>3. /\ request' \in [Request -> Posted \cup {NoRequest}]
      /\ request'[r] = begun
      /\ \A q \in Request \ {r} : request'[q] = request[q]
    BY <1>1, <1>2
<1>4. TypeOK'
    BY <1>1, <1>2, <1>3 DEF TypeOK
<1>5. LedgerInv'
    BY <1>1, <1>2 DEF LedgerInv, Distinct, Matching
<1>6. /\ \A q \in InFlight : q \in InFlight' /\ request'[q] = request[q]
      /\ \A q \in Writing : q \in Writing' /\ request'[q] = request[q]
      /\ r \in Writing' /\ r \in InFlight' /\ request'[r].hash = h
      /\ request'[r].state = "writing" /\ request'[r].linked /\ request'[r].drop = {}
    BY <1>2, <1>3 DEF InFlight, Writing, NoRequest, begun
<1>7. FilesAccounted'
    BY <1>1, <1>2, <1>6 DEF FilesAccounted, Retained
<1>8. RequestInv'
    <2>1. DropInv'
        BY <1>1, <1>3, <1>6 DEF RequestInv, DropInv
    <2>2. LinkedInv'
        BY <1>1, <1>2, <1>3, <1>6 DEF RequestInv, LinkedInv, Writing
    <2>3. TornInv'
        BY <1>1, <1>2, <1>6 DEF RequestInv, TornInv
    <2> QED BY <2>1, <2>2, <2>3 DEF RequestInv
<1> QED BY <1>4, <1>5, <1>7, <1>8 DEF Inv

LEMMA PutLandsInv ==
    ASSUME Inv, NEW r \in Request, PutLands(r)
    PROVE  Inv'
<1>1. /\ TypeOK /\ LedgerInv /\ FilesAccounted /\ RequestInv
      /\ request \in [Request -> Posted \cup {NoRequest}]
    BY DEF Inv, TypeOK
<1>2. /\ r \in Writing /\ request' = [request EXCEPT ![r].state = "stored"]
      /\ UNCHANGED <<ledger, files, damaged, inherited, overlapped, restarts>>
      /\ readable' = IF request[r].linked THEN readable \cup {request[r].hash}
                                          ELSE readable
    BY DEF PutLands
<1>3. request[r] \in Posted /\ request[r].state = "writing" /\ request[r].drop = {}
    BY <1>1, <1>2 DEF Writing, NoRequest, RequestInv, DropInv
<1>4. [request[r] EXCEPT !.state = "stored"] \in Posted
    BY <1>3 DEF Posted
<1>5. /\ request' \in [Request -> Posted \cup {NoRequest}]
      /\ request'[r] = [request[r] EXCEPT !.state = "stored"]
      /\ \A q \in Request \ {r} : request'[q] = request[q]
    BY <1>1, <1>2, <1>4
<1>6. /\ request'[r].state = "stored" /\ request'[r].hash = request[r].hash
      /\ request'[r].drop = {}
    BY <1>3, <1>5 DEF Posted
<1>7. /\ \A q \in InFlight : q \in InFlight' /\ request'[q].hash = request[q].hash
                               /\ request'[q].drop = request[q].drop
                               /\ (request[q].state # "retiring" => request'[q].state # "retiring")
      /\ \A q \in Writing \ {r} : q \in Writing' /\ request'[q] = request[q]
    BY <1>2, <1>3, <1>5, <1>6 DEF InFlight, Writing
<1>8. \A x \in files \ readable' :
          x \in files \ readable /\ (request[r].linked => x # request[r].hash)
    BY <1>2
<1>9. TypeOK'
    <2>1. readable' \subseteq files
        BY <1>1, <1>2 DEF TypeOK, RequestInv, LinkedInv
    <2> QED BY <1>1, <1>2, <1>5, <2>1 DEF TypeOK
<1>10. LedgerInv'
    BY <1>1, <1>2 DEF LedgerInv, Distinct, Matching
<1>11. FilesAccounted'
    BY <1>1, <1>2, <1>7 DEF FilesAccounted, Retained
<1>12. RequestInv'
    <2>1. DropInv'
        BY <1>1, <1>5, <1>6 DEF RequestInv, DropInv
    <2>2. LinkedInv'
        BY <1>1, <1>2, <1>5, <1>6 DEF RequestInv, LinkedInv, Writing
    <2>3. TornInv'
        BY <1>1, <1>2, <1>7, <1>8 DEF RequestInv, TornInv
    <2> QED BY <2>1, <2>2, <2>3 DEF RequestInv
<1> QED BY <1>9, <1>10, <1>11, <1>12 DEF Inv

LEMMA PutFailsInv ==
    ASSUME Inv, NEW r \in Request, PutFails(r)
    PROVE  Inv'
<1>1. /\ TypeOK /\ LedgerInv /\ FilesAccounted /\ RequestInv
      /\ request \in [Request -> Posted \cup {NoRequest}]
    BY DEF Inv, TypeOK
<1>2. /\ r \in Writing /\ request' = [request EXCEPT ![r].state = "failed"]
      /\ damaged' = damaged \cup {request[r].hash}
      /\ UNCHANGED <<ledger, files, readable, inherited, overlapped, restarts>>
    BY DEF PutFails
<1>3. request[r] \in Posted /\ request[r].state = "writing" /\ request[r].drop = {}
    BY <1>1, <1>2 DEF Writing, NoRequest, RequestInv, DropInv
<1>4. [request[r] EXCEPT !.state = "failed"] \in Posted /\ request[r].hash \in Hash
    BY <1>3 DEF Posted
<1>5. /\ request' \in [Request -> Posted \cup {NoRequest}]
      /\ request'[r] = [request[r] EXCEPT !.state = "failed"]
      /\ \A q \in Request \ {r} : request'[q] = request[q]
    BY <1>1, <1>2, <1>4
<1>6. request'[r].state = "failed" /\ request'[r].drop = {}
    BY <1>3, <1>5 DEF Posted
<1>7. /\ \A q \in InFlight \ {r} : q \in InFlight' /\ request'[q] = request[q]
      /\ \A q \in Writing \ {r} : q \in Writing' /\ request'[q] = request[q]
      /\ r \notin Writing' /\ r \notin InFlight'
      /\ Writing' \subseteq Writing
    BY <1>2, <1>3, <1>5, <1>6 DEF InFlight, Writing
<1>8. TypeOK'
    BY <1>1, <1>2, <1>4, <1>5 DEF TypeOK
<1>9. LedgerInv'
    BY <1>1, <1>2 DEF LedgerInv, Distinct, Matching
<1>10. FilesAccounted'
    BY <1>1, <1>2, <1>3, <1>7 DEF FilesAccounted, Retained
<1>11. RequestInv'
    <2>1. DropInv'
        BY <1>1, <1>5, <1>6 DEF RequestInv, DropInv
    <2>2. LinkedInv'
        BY <1>1, <1>2, <1>5, <1>7 DEF RequestInv, LinkedInv, Writing
    <2>3. TornInv'
        BY <1>1, <1>2, <1>7 DEF RequestInv, TornInv
    <2> QED BY <2>1, <2>2, <2>3 DEF RequestInv
<1> QED BY <1>8, <1>9, <1>10, <1>11 DEF Inv

LEMMA ReconcileInv ==
    ASSUME Inv, NEW r \in Request, Reconcile(r)
    PROVE  Inv'
<1> DEFINE h == request[r].hash
           next == [request[r] EXCEPT
                       !.state = IF Drop(h) = {} THEN "replied" ELSE "retiring",
                       !.drop = Drop(h)]
<1>1. /\ TypeOK /\ LedgerInv /\ FilesAccounted /\ RequestInv
      /\ request \in [Request -> Posted \cup {NoRequest}]
    BY DEF Inv, TypeOK
<1>2. /\ request[r].state = "stored" /\ ledger' = Remembered(h)
      /\ request' = [request EXCEPT ![r] = next]
      /\ UNCHANGED <<files, readable, damaged, inherited, overlapped, restarts>>
    BY <1>1 DEF Reconcile
<1>3. request[r] \in Posted /\ h \in Hash /\ request[r].drop = {}
    BY <1>1, <1>2 DEF NoRequest, RequestInv, DropInv, Posted
<1>4. /\ ledger' \in Seq(Entry) /\ Len(ledger') <= MaxAcceptances
      /\ Distinct(ledger') /\ Matching(ledger')
      /\ h \in Hashes(ledger')
      /\ Hashes(ledger') \cup Drop(h) = Retained \cup {h}
      /\ Drop(h) \subseteq Hash
    BY <1>1, <1>2, <1>3, TakesIn
<1>5. /\ next \in Posted /\ next.drop = Drop(h) /\ next.hash = h
      /\ next.state = IF Drop(h) = {} THEN "replied" ELSE "retiring"
    BY <1>3, <1>4 DEF Posted
<1> HIDE DEF next, h
<1>6. /\ request' \in [Request -> Posted \cup {NoRequest}]
      /\ request'[r] = next
      /\ \A q \in Request \ {r} : request'[q] = request[q]
    BY <1>1, <1>2, <1>5
<1>7. TypeOK'
    BY <1>1, <1>2, <1>4, <1>6 DEF TypeOK
<1>8. LedgerInv'
    BY <1>4 DEF LedgerInv
<1>9. /\ Writing' = Writing /\ \A q \in Writing : request'[q] = request[q]
      /\ r \in InFlight
      /\ \A q \in InFlight \ {r} : q \in InFlight' /\ request'[q] = request[q]
      /\ Drop(h) # {} => r \in InFlight'
    BY <1>2, <1>5, <1>6 DEF Writing, InFlight
<1>10. FilesAccounted'
    <2>1. Retained' = Hashes(ledger')
        BY DEF Retained, Hashes
    <2>2. ASSUME NEW x \in files, x \notin Retained', x \notin damaged,
                 x \notin inherited
          PROVE  \E q \in InFlight' : \/ x \in request'[q].drop
                                      \/ request'[q].state # "retiring" /\ request'[q].hash = x
        <3>1. CASE x \in Drop(h)
            BY <3>1, <1>5, <1>6, <1>9
        <3>2. CASE x \notin Drop(h)
            <4>1. x \notin Retained /\ x # h
                BY <3>2, <1>4, <2>1, <2>2
            <4>2. PICK q \in InFlight : \/ x \in request[q].drop
                                        \/ request[q].state # "retiring" /\ request[q].hash = x
                BY <4>1, <2>2, <1>1 DEF FilesAccounted
            <4>3. q # r
                BY <4>1, <4>2, <1>3 DEF h
            <4> QED BY <4>2, <4>3, <1>9
        <3> QED BY <3>1, <3>2
    <2> QED BY <2>2, <1>2 DEF FilesAccounted
<1>11. RequestInv'
    <2>1. DropInv'
        BY <1>1, <1>5, <1>6 DEF RequestInv, DropInv
    <2> QED BY <1>1, <1>2, <1>9, <2>1 DEF RequestInv, LinkedInv, TornInv
<1> QED BY <1>7, <1>8, <1>10, <1>11 DEF Inv

\* A retirement step, whether the deletion lands or fails.
LEMMA RetiredInv ==
    ASSUME Inv, NEW r \in Request, NEW h \in Hash,
           request[r].state = "retiring", h \in request[r].drop
    PROVE  /\ Retired(r, h) \in Posted
           /\ Retired(r, h).hash = request[r].hash
           /\ Retired(r, h).drop = request[r].drop \ {h}
           /\ Retired(r, h).state \in {"retiring", "replied"}
           /\ Retired(r, h).state = "retiring" <=> Retired(r, h).drop # {}
<1>1. request[r] \in Posted
    BY DEF Inv, TypeOK, NoRequest
<1>2. Retired(r, h) =
          [request[r] EXCEPT
              !.drop = request[r].drop \ {h},
              !.state = IF request[r].drop = {h} THEN "replied" ELSE "retiring"]
    BY DEF Retired
<1>3. request[r].drop = {h} <=> request[r].drop \ {h} = {}
    OBVIOUS
<1>4. request[r].drop \ {h} \in SUBSET Hash
    BY <1>1 DEF Posted
<1> QED BY <1>1, <1>2, <1>3, <1>4 DEF Posted

LEMMA DeleteLandsInv ==
    ASSUME Inv, NEW r \in Request, NEW h \in Hash, DeleteLands(r, h)
    PROVE  Inv'
<1> DEFINE unlinked(q) == q \in Writing /\ request[q].hash = h
<1>1. /\ TypeOK /\ LedgerInv /\ FilesAccounted /\ RequestInv
      /\ request \in [Request -> Posted \cup {NoRequest}]
    BY DEF Inv, TypeOK
<1>2. /\ request[r].state = "retiring" /\ h \in request[r].drop
      /\ files' = files \ {h} /\ readable' = readable \ {h}
      /\ request' = [q \in Request |->
             IF q = r THEN Retired(r, h)
             ELSE IF q \in Writing /\ request[q].hash = h
                  THEN [request[q] EXCEPT !.linked = FALSE]
                  ELSE request[q]]
      /\ UNCHANGED <<ledger, damaged, inherited, overlapped, restarts>>
    BY DEF DeleteLands, Unlink
<1>3. /\ Retired(r, h) \in Posted
      /\ Retired(r, h).hash = request[r].hash
      /\ Retired(r, h).drop = request[r].drop \ {h}
      /\ Retired(r, h).state \in {"retiring", "replied"}
      /\ Retired(r, h).state = "retiring" <=> Retired(r, h).drop # {}
    BY <1>2, RetiredInv
<1>4. r \notin Writing
    BY <1>2 DEF Writing
<1>5. ASSUME NEW q \in Request, unlinked(q)
      PROVE  /\ [request[q] EXCEPT !.linked = FALSE] \in Posted
             /\ request[q] \in Posted
    <2>1. request[q] \in Posted
        BY <1>1, <1>5 DEF Writing, NoRequest
    <2> QED BY <2>1 DEF Posted
<1>6. /\ request'[r] = Retired(r, h)
      /\ \A q \in Request \ {r} : unlinked(q) =>
            /\ request'[q] = [request[q] EXCEPT !.linked = FALSE]
            /\ request'[q].state = "writing" /\ request'[q].hash = h
            /\ request'[q].drop = request[q].drop /\ ~request'[q].linked
      /\ \A q \in Request \ {r} : ~unlinked(q) => request'[q] = request[q]
    BY <1>2, <1>5 DEF Posted, Writing
<1>7. request' \in [Request -> Posted \cup {NoRequest}]
    BY <1>1, <1>2, <1>3, <1>5
<1>8. /\ Writing' = Writing
      /\ \A q \in InFlight \ {r} :
            /\ q \in InFlight'
            /\ request'[q].hash = request[q].hash
            /\ request'[q].drop = request[q].drop
            /\ request'[q].state = request[q].state
      /\ r \in InFlight' \/ Retired(r, h).drop = {}
    BY <1>2, <1>3, <1>4, <1>6 DEF Writing, InFlight
<1> HIDE DEF unlinked
<1>9. TypeOK'
    BY <1>1, <1>2, <1>7 DEF TypeOK
<1>10. LedgerInv'
    BY <1>1, <1>2 DEF LedgerInv, Distinct, Matching
<1>11. FilesAccounted'
    <2>1. Retained' = Retained /\ damaged' = damaged /\ inherited' = inherited
        BY <1>2 DEF Retained
    <2>2. ASSUME NEW x \in files', x \notin Retained', x \notin damaged,
                 x \notin inherited
          PROVE  \E q \in InFlight' : \/ x \in request'[q].drop
                                      \/ request'[q].state # "retiring" /\ request'[q].hash = x
        <3>1. PICK q \in InFlight : \/ x \in request[q].drop
                                    \/ request[q].state # "retiring" /\ request[q].hash = x
            BY <2>1, <2>2, <1>1, <1>2 DEF FilesAccounted
        <3>2. CASE q = r
            BY <3>1, <3>2, <2>2, <1>2, <1>3, <1>6, <1>8
        <3>3. CASE q # r
            BY <3>1, <3>3, <1>8
        <3> QED BY <3>2, <3>3
    <2> QED BY <2>1, <2>2 DEF FilesAccounted
<1>12. RequestInv'
    <2>1. DropInv'
        BY <1>1, <1>2, <1>3, <1>6 DEF RequestInv, DropInv, unlinked, Writing
    <2>2. LinkedInv'
        BY <1>1, <1>2, <1>4, <1>6, <1>8 DEF RequestInv, LinkedInv, unlinked, Writing
    <2>3. TornInv'
        <3> SUFFICES ASSUME NEW x \in files' \ readable', x \notin damaged \cup inherited
                     PROVE  \E q \in Writing' : request'[q].linked /\ request'[q].hash = x
            BY <1>2 DEF TornInv
        <3>1. x # h /\ x \in files \ readable
            BY <1>2
        <3>2. PICK q \in Writing : request[q].linked /\ request[q].hash = x
            BY <3>1, <1>1 DEF RequestInv, TornInv
        <3>3. q \in Request /\ ~unlinked(q) /\ q # r
            BY <3>1, <3>2, <1>4 DEF unlinked, Writing
        <3> QED BY <3>2, <3>3, <1>6, <1>8
    <2> QED BY <2>1, <2>2, <2>3 DEF RequestInv
<1> QED BY <1>9, <1>10, <1>11, <1>12 DEF Inv

LEMMA DeleteFailsInv ==
    ASSUME Inv, NEW r \in Request, NEW h \in Hash, DeleteFails(r, h)
    PROVE  Inv'
<1>1. /\ TypeOK /\ LedgerInv /\ FilesAccounted /\ RequestInv
      /\ request \in [Request -> Posted \cup {NoRequest}]
    BY DEF Inv, TypeOK
<1>2. /\ request[r].state = "retiring" /\ h \in request[r].drop
      /\ request' = [request EXCEPT ![r] = Retired(r, h)]
      /\ damaged' = damaged \cup {h}
      /\ UNCHANGED <<ledger, files, readable, inherited, overlapped, restarts>>
    BY DEF DeleteFails
<1>3. /\ Retired(r, h) \in Posted
      /\ Retired(r, h).hash = request[r].hash
      /\ Retired(r, h).drop = request[r].drop \ {h}
      /\ Retired(r, h).state \in {"retiring", "replied"}
      /\ Retired(r, h).state = "retiring" <=> Retired(r, h).drop # {}
    BY <1>2, RetiredInv
<1>4. /\ request' \in [Request -> Posted \cup {NoRequest}]
      /\ request'[r] = Retired(r, h)
      /\ \A q \in Request \ {r} : request'[q] = request[q]
    BY <1>1, <1>2, <1>3
<1>5. /\ Writing' = Writing /\ \A q \in Writing : request'[q] = request[q]
      /\ \A q \in InFlight \ {r} : q \in InFlight' /\ request'[q] = request[q]
      /\ r \in InFlight' \/ Retired(r, h).drop = {}
    BY <1>2, <1>3, <1>4 DEF Writing, InFlight
<1>6. TypeOK'
    BY <1>1, <1>2, <1>4 DEF TypeOK
<1>7. LedgerInv'
    BY <1>1, <1>2 DEF LedgerInv, Distinct, Matching
<1>8. FilesAccounted'
    <2>1. Retained' = Retained
        BY <1>2 DEF Retained
    <2>2. ASSUME NEW x \in files, x \notin Retained', x \notin damaged',
                 x \notin inherited
          PROVE  \E q \in InFlight' : \/ x \in request'[q].drop
                                      \/ request'[q].state # "retiring" /\ request'[q].hash = x
        <3>1. x # h /\ x \notin damaged
            BY <2>2, <1>2
        <3>2. PICK q \in InFlight : \/ x \in request[q].drop
                                    \/ request[q].state # "retiring" /\ request[q].hash = x
            BY <2>1, <2>2, <3>1, <1>1 DEF FilesAccounted
        <3>3. CASE q = r
            BY <3>1, <3>2, <3>3, <1>2, <1>3, <1>4, <1>5
        <3>4. CASE q # r
            BY <3>2, <3>4, <1>5
        <3> QED BY <3>3, <3>4
    <2> QED BY <2>2, <1>2 DEF FilesAccounted
<1>9. RequestInv'
    <2>1. DropInv'
        BY <1>1, <1>3, <1>4 DEF RequestInv, DropInv
    <2> QED BY <1>1, <1>2, <1>5, <2>1 DEF RequestInv, LinkedInv, TornInv
<1> QED BY <1>6, <1>7, <1>8, <1>9 DEF Inv

LEMMA RestartInv ==
    ASSUME Inv, Restart
    PROVE  Inv'
<1>1. /\ TypeOK /\ LedgerInv /\ FilesAccounted /\ RequestInv
      /\ request \in [Request -> Posted \cup {NoRequest}]
    BY DEF Inv, TypeOK
<1>2. /\ restarts < MaxRestarts /\ restarts' = restarts + 1
      /\ ledger' = <<>> /\ inherited' = files
      /\ UNCHANGED <<files, readable, damaged, overlapped>>
    BY DEF Restart
<1>3. request' = [r \in Request |->
          IF r \in InFlight
          THEN [request[r] EXCEPT !.state = "lost", !.drop = {}]
          ELSE request[r]]
    BY DEF Restart
<1>4. ASSUME NEW r \in InFlight
      PROVE  /\ request[r] \in Posted
             /\ [request[r] EXCEPT !.state = "lost", !.drop = {}] \in Posted
             /\ [request[r] EXCEPT !.state = "lost", !.drop = {}].state = "lost"
             /\ [request[r] EXCEPT !.state = "lost", !.drop = {}].drop = {}
    <2>1. request[r] \in Posted
        BY <1>1 DEF InFlight, NoRequest
    <2> QED BY <2>1 DEF Posted
<1>5. request' \in [Request -> Posted \cup {NoRequest}]
    BY <1>1, <1>3, <1>4
<1>6. Writing' = {}
    BY <1>3, <1>4 DEF Writing, InFlight
<1>7. TypeOK'
    <2>1. <<>> \in Seq(Entry) /\ Len(<<>>) = 0 /\ 0 <= MaxAcceptances
        BY EmptySeq, BoundAssumption
    <2>2. restarts \in Nat /\ MaxRestarts \in Nat
        BY <1>1, BoundAssumption DEF TypeOK
    <2>3. restarts + 1 \in 0 .. MaxRestarts
        BY <1>2, <2>2
    <2> QED BY <1>1, <1>2, <1>5, <2>1, <2>3 DEF TypeOK
<1>8. LedgerInv'
    <2>1. ledger' = <<>> /\ DOMAIN <<>> = {}
        BY <1>2, EmptySeq
    <2> QED BY <2>1 DEF LedgerInv, Distinct, Matching
<1>9. FilesAccounted'
    BY <1>2 DEF FilesAccounted
<1>10. RequestInv'
    <2>1. DropInv'
        <3> SUFFICES ASSUME NEW r \in Request
                     PROVE  request'[r].state = "retiring" <=> request'[r].drop # {}
            BY DEF DropInv
        <3>1. CASE r \in InFlight
            BY <3>1, <1>3, <1>4
        <3>2. CASE r \notin InFlight
            BY <3>2, <1>3, <1>1 DEF RequestInv, DropInv
        <3> QED BY <3>1, <3>2
    <2> QED BY <1>2, <1>6, <2>1 DEF RequestInv, LinkedInv, TornInv
<1> QED BY <1>7, <1>8, <1>9, <1>10 DEF Inv

LEMMA StepInv == Inv /\ [Next]_vars => Inv'
<1> SUFFICES ASSUME Inv, [Next]_vars PROVE Inv'
    OBVIOUS
<1>1. ASSUME NEW r \in Request, RequestStep(r) PROVE Inv'
    BY <1>1, PostInv, PutLandsInv, PutFailsInv, ReconcileInv, DeleteLandsInv,
       DeleteFailsInv DEF RequestStep
<1>2. CASE UNCHANGED vars
    <2>1. TypeOK'
        BY <1>2 DEF Inv, TypeOK, vars
    <2>2. LedgerInv'
        BY <1>2 DEF Inv, LedgerInv, Distinct, Matching, vars
    <2>3. FilesAccounted'
        BY <1>2 DEF Inv, FilesAccounted, Retained, InFlight, vars
    <2>4. RequestInv'
        BY <1>2 DEF Inv, RequestInv, DropInv, LinkedInv, TornInv, Writing, vars
    <2> QED BY <2>1, <2>2, <2>3, <2>4 DEF Inv
<1> QED BY <1>1, <1>2, RestartInv DEF Next

-----------------------------------------------------------------------------
(* Requests that do not overlap *)

\* The request in flight is alone, and its stage explains the directory.
LEMMA AloneFacts ==
    ASSUME Inv, AloneInv, Undisturbed, ~overlapped, NEW r \in InFlight
    PROVE  /\ InFlight = {r} /\ request[r] \in Posted
           /\ StageAgrees(request[r], Retained, files, readable)
<1>1. InFlight = {r}
    BY DEF AloneInv
<1>2. request[r] \in Posted
    BY DEF Inv, TypeOK, InFlight, NoRequest
<1> QED BY <1>1, <1>2 DEF AloneInv

LEMMA PostAlone ==
    ASSUME Inv, AloneInv, NEW r \in Request, NEW h \in Hash, Post(r, h)
    PROVE  AloneInv'
<1> SUFFICES ASSUME Undisturbed', ~overlapped'
             PROVE  /\ \A p, q \in InFlight' : p = q
                    /\ InFlight' # {}
                    /\ \A q \in InFlight' :
                          StageAgrees(request'[q], Retained', files', readable')
    BY DEF AloneInv
<1>1. /\ request \in [Request -> Posted \cup {NoRequest}]
      /\ request' = [request EXCEPT ![r] =
             [state |-> "writing", hash |-> h, linked |-> TRUE, drop |-> {}]]
      /\ files' = files \cup {h} /\ readable' = readable \ {h}
      /\ overlapped' = (overlapped \/ InFlight # {})
      /\ UNCHANGED <<ledger, damaged, inherited, restarts>>
    BY DEF Post, Open, Inv, TypeOK
<1>2. InFlight = {} /\ ~overlapped /\ Undisturbed
    BY <1>1 DEF Undisturbed
<1>3. files = Retained /\ readable = Retained /\ Retained' = Retained
    BY <1>1, <1>2 DEF AloneInv, Retained
<1>4. /\ request'[r] = [state |-> "writing", hash |-> h, linked |-> TRUE, drop |-> {}]
      /\ \A q \in Request \ {r} : request'[q] = request[q]
    BY <1>1
<1>5. InFlight' = {r}
    BY <1>2, <1>4 DEF InFlight
<1>6. StageAgrees(request'[r], Retained', files', readable')
    BY <1>1, <1>3, <1>4 DEF StageAgrees
<1> QED BY <1>5, <1>6

LEMMA PutLandsAlone ==
    ASSUME Inv, AloneInv, NEW r \in Request, PutLands(r)
    PROVE  AloneInv'
<1> SUFFICES ASSUME Undisturbed', ~overlapped'
             PROVE  /\ InFlight' = {r}
                    /\ StageAgrees(request'[r], Retained', files', readable')
    BY DEF AloneInv
<1>1. /\ r \in Writing /\ request' = [request EXCEPT ![r].state = "stored"]
      /\ UNCHANGED <<ledger, files, damaged, inherited, overlapped, restarts>>
      /\ readable' = IF request[r].linked THEN readable \cup {request[r].hash}
                                          ELSE readable
      /\ request \in [Request -> Posted \cup {NoRequest}]
    BY DEF PutLands, Inv, TypeOK
<1>2. /\ r \in InFlight /\ request[r].state = "writing"
      /\ Undisturbed /\ ~overlapped /\ Retained' = Retained
    BY <1>1 DEF Undisturbed, Writing, InFlight, Retained
<1>3. /\ InFlight = {r} /\ request[r] \in Posted
      /\ StageAgrees(request[r], Retained, files, readable)
    BY <1>2, AloneFacts
<1>4. /\ request'[r].state = "stored" /\ request'[r].hash = request[r].hash
      /\ \A q \in Request \ {r} : request'[q] = request[q]
    BY <1>1, <1>3 DEF Posted
<1>5. InFlight' = {r}
    BY <1>3, <1>4 DEF InFlight
<1>6. /\ request[r].linked /\ files = Retained \cup {request[r].hash}
      /\ readable = Retained \ {request[r].hash}
    BY <1>2, <1>3 DEF StageAgrees
<1>7. readable' = files
    BY <1>1, <1>6
<1> QED BY <1>1, <1>2, <1>4, <1>5, <1>6, <1>7 DEF StageAgrees

LEMMA ReconcileAlone ==
    ASSUME Inv, AloneInv, NEW r \in Request, Reconcile(r)
    PROVE  AloneInv'
<1> DEFINE h == request[r].hash
<1> SUFFICES ASSUME Undisturbed', ~overlapped'
             PROVE  /\ InFlight' \subseteq {r}
                    /\ InFlight' = {} => files' = Retained' /\ readable' = Retained'
                    /\ r \in InFlight' =>
                          StageAgrees(request'[r], Retained', files', readable')
    BY DEF AloneInv
<1>1. /\ request[r].state = "stored" /\ ledger' = Remembered(h)
      /\ request' = [request EXCEPT
             ![r].state = IF Drop(h) = {} THEN "replied" ELSE "retiring",
             ![r].drop = Drop(h)]
      /\ UNCHANGED <<files, readable, damaged, inherited, overlapped, restarts>>
      /\ request \in [Request -> Posted \cup {NoRequest}]
      /\ TypeOK /\ LedgerInv
    BY DEF Reconcile, Inv, TypeOK
<1>2. r \in InFlight /\ Undisturbed /\ ~overlapped
    BY <1>1 DEF Undisturbed, InFlight
<1>3. /\ InFlight = {r} /\ request[r] \in Posted
      /\ files = Retained \cup {h} /\ readable = files
    BY <1>1, <1>2, AloneFacts DEF StageAgrees
<1>4. h \in Hash
    BY <1>3 DEF Posted
<1>5. /\ Retained' \cup Drop(h) = Retained \cup {h}
      /\ Retained' \cap Drop(h) = {}
    <2>1. /\ Hashes(ledger') \cup Drop(h) = Retained \cup {h}
          /\ Hashes(ledger') \cap Drop(h) = {}
        BY <1>1, <1>4, TakesIn
    <2> QED BY <2>1 DEF Retained, Hashes
<1>6. /\ request'[r].state = IF Drop(h) = {} THEN "replied" ELSE "retiring"
      /\ request'[r].drop = Drop(h)
      /\ \A q \in Request \ {r} : request'[q] = request[q]
    BY <1>1, <1>3 DEF Posted
<1>7. InFlight' = IF Drop(h) = {} THEN {} ELSE {r}
    BY <1>3, <1>6 DEF InFlight
<1> HIDE DEF h
<1> QED BY <1>1, <1>3, <1>5, <1>6, <1>7 DEF StageAgrees

LEMMA DeleteLandsAlone ==
    ASSUME Inv, AloneInv, NEW r \in Request, NEW h \in Hash, DeleteLands(r, h)
    PROVE  AloneInv'
<1> SUFFICES ASSUME Undisturbed', ~overlapped'
             PROVE  /\ InFlight' \subseteq {r}
                    /\ InFlight' = {} => files' = Retained' /\ readable' = Retained'
                    /\ r \in InFlight' =>
                          StageAgrees(request'[r], Retained', files', readable')
    BY DEF AloneInv
<1>1. /\ request[r].state = "retiring" /\ h \in request[r].drop
      /\ files' = files \ {h} /\ readable' = readable \ {h}
      /\ request' = [q \in Request |->
             IF q = r THEN Retired(r, h)
             ELSE IF q \in Writing /\ request[q].hash = h
                  THEN [request[q] EXCEPT !.linked = FALSE]
                  ELSE request[q]]
      /\ UNCHANGED <<ledger, damaged, inherited, overlapped, restarts>>
    BY DEF DeleteLands, Unlink
<1>2. /\ r \in InFlight /\ Undisturbed /\ ~overlapped /\ Retained' = Retained
    BY <1>1 DEF Undisturbed, InFlight, Retained
<1>3. /\ InFlight = {r}
      /\ files = Retained \cup request[r].drop /\ readable = files
      /\ Retained \cap request[r].drop = {}
    BY <1>1, <1>2, AloneFacts DEF StageAgrees
<1>4. /\ Retired(r, h).drop = request[r].drop \ {h}
      /\ Retired(r, h).state \in {"retiring", "replied"}
      /\ Retired(r, h).state = "retiring" <=> Retired(r, h).drop # {}
    BY <1>1, RetiredInv
<1>5. Writing = {}
    BY <1>1, <1>3 DEF Writing, InFlight
<1>6. /\ request'[r] = Retired(r, h)
      /\ \A q \in Request \ {r} : request'[q] = request[q]
    BY <1>1, <1>5
<1>7. InFlight' = IF request[r].drop \ {h} = {} THEN {} ELSE {r}
    BY <1>3, <1>4, <1>6 DEF InFlight
<1>8. files' = Retained \cup (request[r].drop \ {h}) /\ readable' = files'
    BY <1>1, <1>3
<1> QED BY <1>2, <1>3, <1>4, <1>6, <1>7, <1>8 DEF StageAgrees

LEMMA StepAlone == Inv /\ AloneInv /\ [Next]_vars => AloneInv'
<1> SUFFICES ASSUME Inv, AloneInv, [Next]_vars PROVE AloneInv'
    OBVIOUS
<1>1. ASSUME NEW r \in Request, RequestStep(r) PROVE AloneInv'
    <2>1. CASE PutFails(r)
        BY <2>1 DEF PutFails, AloneInv, Undisturbed
    <2>2. ASSUME NEW h \in Hash, DeleteFails(r, h) PROVE AloneInv'
        BY <2>2 DEF DeleteFails, AloneInv, Undisturbed
    <2> QED BY <1>1, <2>1, <2>2, PostAlone, PutLandsAlone, ReconcileAlone,
               DeleteLandsAlone DEF RequestStep
<1>2. CASE Restart
    <2>1. restarts' = restarts + 1
        BY <1>2 DEF Restart
    <2>2. restarts \in 0 .. MaxRestarts /\ MaxRestarts \in Nat
        BY BoundAssumption DEF Inv, TypeOK
    <2>3. restarts' # 0
        BY <2>1, <2>2
    <2> QED BY <2>3 DEF AloneInv, Undisturbed
<1>3. CASE UNCHANGED vars
    BY <1>3 DEF vars, AloneInv, Undisturbed, InFlight, Retained
<1> QED BY <1>1, <1>2, <1>3 DEF Next

-----------------------------------------------------------------------------
(* Theorems *)

\* The invariant of the acceptance route holds in every reachable state.
THEOREM AcceptanceInvariant == Spec => []Inv
BY InitInv, StepInv, PTL DEF Spec

\* Types, and a ledger within its bound.
THEOREM AcceptanceTypes == Spec => []TypeOK
<1>1. Inv => TypeOK
    BY DEF Inv
<1> QED BY <1>1, AcceptanceInvariant, PTL

\* Nothing is orphaned: every file is one the ledger retains, one a request in
\* flight still answers for, or the trace of a fault, whatever the interleaving.
THEOREM NothingOrphaned == Spec => []FilesAccounted
<1>1. Inv => FilesAccounted
    BY DEF Inv
<1> QED BY <1>1, AcceptanceInvariant, PTL

\* A file that does not parse is being written or is the trace of a fault.
THEOREM TornFilesExplained == Spec => []TornExplained
<1>1. Inv => TornExplained
    BY DEF Inv, RequestInv, TornInv, TornExplained
<1> QED BY <1>1, AcceptanceInvariant, PTL

\* Without faults, requests that never overlapped leave the ledger and the
\* directory equal, after any sequence of replays, replacements and overflows.
THEOREM SequentialRequestsAgree == Spec => []SequentialAgreement
<1>1. AloneInv => SequentialAgreement
    BY DEF AloneInv, SequentialAgreement
<1>2. Init => Inv /\ AloneInv
    BY InitInv
<1>3. Inv /\ AloneInv /\ [Next]_vars => Inv' /\ AloneInv'
    BY StepInv, StepAlone
<1> QED BY <1>1, <1>2, <1>3, PTL DEF Spec

-----------------------------------------------------------------------------
(* Overlapping replays *)

Posts == {r \in Request : request[r] # NoRequest}
PostedKeys == {KeyOf[request[r].hash] : r \in Posts}

\* Nothing has failed, and the ledger has room for every key posted so far.
Roomy == Undisturbed /\ Cardinality(PostedKeys) <= MaxAcceptances

\* Everyone who posted for h's key posted h.
Sole(h) ==
    \A r \in Posts : KeyOf[request[r].hash] = KeyOf[h] => request[r].hash = h

\* The ledger retains what was posted.  While it has room for every key, a
\* record without a rival is nobody's to retire, so its writers keep their file,
\* and once stored it stays readable but for a write under way.
ReplayInv ==
    /\ IsFiniteSet(Posts)
    /\ Retained \subseteq {request[r].hash : r \in Posts}
    /\ Roomy => \A h \in Hash : Sole(h) =>
          /\ \A r \in Posts : h \notin request[r].drop
          /\ \A r \in Writing : request[r].hash = h => request[r].linked
          /\ \A r \in Posts :
                request[r].hash = h
                  /\ request[r].state \in {"stored", "retiring", "replied"} =>
                \/ h \in readable
                \/ \E q \in Writing : request[q].hash = h

\* A request that was posted is a record of that type.
LEMMA PostsArePosted ==
    ASSUME TypeOK, NEW r \in Posts
    PROVE  /\ r \in Request /\ request[r] \in Posted
           /\ request[r].hash \in Hash /\ KeyOf[request[r].hash] \in Key
BY KeyAssumption DEF TypeOK, Posts, Posted

\* Steps add posts and faults, so what is roomy now was roomy before, and a
\* record without a rival had none.
LEMMA RoomyBefore ==
    ASSUME TypeOK, TypeOK', IsFiniteSet(Posts'),
           \A r \in Posts : r \in Posts' /\ request'[r].hash = request[r].hash,
           Undisturbed' => Undisturbed
    PROVE  /\ IsFiniteSet(Posts) /\ IsFiniteSet(PostedKeys)
           /\ Roomy' => Roomy
           /\ \A h : Sole(h)' => Sole(h)
<1>1. Posts \in SUBSET Posts' /\ PostedKeys \in SUBSET PostedKeys'
    BY DEF PostedKeys
<1>2. IsFiniteSet(PostedKeys')
    <2> DEFINE key == [r \in Posts' |-> KeyOf[request'[r].hash]]
    <2>1. PostedKeys' = {key[r] : r \in Posts'} /\ key \in [Posts' -> PostedKeys']
        BY DEF PostedKeys
    <2>2. key \in Surjection(Posts', PostedKeys')
        <3>1. \A k \in PostedKeys' : \E r \in Posts' : key[r] = k
            BY <2>1
        <3> HIDE DEF key
        <3> QED BY <2>1, <3>1 DEF Surjection
    <2> HIDE DEF key
    <2> QED BY <2>2, FS_Surjection
<1>3. /\ IsFiniteSet(Posts) /\ IsFiniteSet(PostedKeys)
      /\ Cardinality(PostedKeys) <= Cardinality(PostedKeys')
    BY <1>1, <1>2, FS_Subset
<1>4. Cardinality(PostedKeys) \in Nat /\ Cardinality(PostedKeys') \in Nat
    BY <1>2, <1>3, FS_CardinalityType
<1>5. Roomy' => Roomy
    BY <1>3, <1>4, BoundAssumption DEF Roomy
<1>6. ASSUME NEW h, Sole(h)' PROVE Sole(h)
    BY <1>6 DEF Sole
<1> QED BY <1>3, <1>5, <1>6

\* A ledger with room for every key evicts none: taking in a posted record
\* gives up only records of its own key.
LEMMA RoomyDrops ==
    ASSUME Inv, ReplayInv, Roomy, IsFiniteSet(PostedKeys), NEW r \in Posts,
           NEW x \in Drop(request[r].hash)
    PROVE  /\ x # request[r].hash /\ KeyOf[x] = KeyOf[request[r].hash]
           /\ x \in {request[q].hash : q \in Posts}
<1> DEFINE h == request[r].hash
           entry == Renewed(h)
           grown == Append(Delete(ledger, KeyOf[h]), entry)
<1>1. TypeOK /\ Distinct(ledger) /\ Matching(ledger) /\ h \in Hash
    BY PostsArePosted DEF Inv, LedgerInv
<1>2. entry \in Entry /\ entry.id = KeyOf[h]
    BY <1>1, KeyAssumption DEF Renewed, Entry
<1>3. ledger \in Seq(Entry) /\ \A i \in DOMAIN ledger : ledger[i].hash \in Retained
    BY <1>1 DEF TypeOK, Retained
<1>4. Keys(ledger) \subseteq PostedKeys /\ KeyOf[h] \in PostedKeys
    BY <1>1, <1>3 DEF Matching, Keys, ReplayInv, PostedKeys
<1> HIDE DEF h, entry
<1>5. grown \in Seq(Entry) /\ MovesToEnd(ledger, entry, grown)
    BY <1>1, <1>2, <1>3, MovedProperties
<1>6. Keys(grown) \subseteq PostedKeys
    <2>1. ASSUME NEW j \in DOMAIN grown PROVE grown[j].id \in PostedKeys
        <3>1. CASE j = Len(grown)
            BY <1>2, <1>4, <1>5, <3>1 DEF MovesToEnd
        <3>2. CASE j # Len(grown)
            <4>1. PICK i \in DOMAIN ledger : grown[j] = ledger[i]
                BY <1>5, <3>2 DEF MovesToEnd
            <4> QED BY <1>4, <4>1 DEF Keys
        <3> QED BY <3>1, <3>2
    <2> QED BY <2>1 DEF Keys
<1>7. Len(grown) <= MaxAcceptances
    <2>1. /\ IsFiniteSet(Keys(grown)) /\ Cardinality(Keys(grown)) = Len(grown)
          /\ Len(grown) \in Nat
        BY <1>5, KeysCounted, LenProperties DEF MovesToEnd
    <2>2. Cardinality(Keys(grown)) <= Cardinality(PostedKeys)
        BY <1>6, FS_Subset
    <2>3. Cardinality(PostedKeys) \in Nat /\ Cardinality(PostedKeys) <= MaxAcceptances
        BY FS_CardinalityType DEF Roomy
    <2> QED BY <2>1, <2>2, <2>3, BoundAssumption
<1>8. ~(Len(grown) > MaxAcceptances)
    <2>1. Len(grown) \in Nat /\ MaxAcceptances \in Nat
        BY <1>5, BoundAssumption DEF MovesToEnd
    <2> HIDE DEF grown
    <2> QED BY <1>7, <2>1
<1>9. /\ x \in {ledger[i].hash : i \in {i \in DOMAIN ledger : ledger[i].id = KeyOf[h]}}
      /\ x # h
    BY <1>8 DEF Drop, h, entry
<1>10. PICK i \in DOMAIN ledger : ledger[i].id = KeyOf[h] /\ x = ledger[i].hash
    BY <1>9
<1> QED BY <1>1, <1>3, <1>9, <1>10 DEF Matching, ReplayInv, h

\* What the invariant says of one record h without a rival.
HarmlessTo(h) ==
    /\ \A r \in Posts : h \notin request[r].drop
    /\ \A r \in Writing : request[r].hash = h => request[r].linked
    /\ \A r \in Posts :
          request[r].hash = h
            /\ request[r].state \in {"stored", "retiring", "replied"} =>
          \/ h \in readable
          \/ \E q \in Writing : request[q].hash = h

\* To preserve the invariant a step must keep the posts and their records,
\* retain nothing new, and do no harm to a record without a rival.
LEMMA HarmlessStep ==
    ASSUME TypeOK, TypeOK', ReplayInv, IsFiniteSet(Posts'),
           \A r \in Posts : r \in Posts' /\ request'[r].hash = request[r].hash,
           Undisturbed' => Undisturbed,
           Retained' \subseteq {request'[r].hash : r \in Posts'},
           IsFiniteSet(PostedKeys) /\ Roomy /\ Roomy' =>
               \A h \in Hash : Sole(h) /\ Sole(h)' /\ HarmlessTo(h) => HarmlessTo(h)'
    PROVE  ReplayInv'
<1>1. /\ IsFiniteSet(PostedKeys)
      /\ Roomy' => Roomy
      /\ \A h : Sole(h)' => Sole(h)
    BY RoomyBefore
<1>2. ASSUME Roomy', NEW h \in Hash, Sole(h)' PROVE HarmlessTo(h)'
    <2>1. Sole(h) /\ Roomy
        BY <1>1, <1>2
    <2>2. HarmlessTo(h)
        BY <2>1 DEF ReplayInv, HarmlessTo
    <2> QED BY <1>1, <1>2, <2>1, <2>2
<1> QED BY <1>2 DEF ReplayInv, HarmlessTo

\* Posting: a record's first writer or one more, whose file is in the directory.
LEMMA PostHarmless ==
    ASSUME TypeOK, TypeOK', ReplayInv, NEW p \in Request, NEW x \in Hash, Post(p, x)
    PROVE  ReplayInv'
<1>1. /\ request[p] = NoRequest /\ request \in [Request -> Posted \cup {NoRequest}]
      /\ request' = [request EXCEPT ![p] =
             [state |-> "writing", hash |-> x, linked |-> TRUE, drop |-> {}]]
      /\ readable' = readable \ {x}
      /\ UNCHANGED <<ledger, damaged, inherited, restarts>>
    BY DEF Post, Open, TypeOK
<1>2. /\ request'[p] = [state |-> "writing", hash |-> x, linked |-> TRUE, drop |-> {}]
      /\ \A r \in Request \ {p} : request'[r] = request[r]
    BY <1>1
<1>3. request'[p].hash = x /\ request'[p].state = "writing" /\ request'[p].linked
      /\ request'[p].drop = {} /\ request'[p] # NoRequest
    BY <1>2 DEF NoRequest
<1>4. Posts' = Posts \cup {p} /\ p \notin Posts
    BY <1>1, <1>2, <1>3 DEF Posts
<1>5. IsFiniteSet(Posts')
    BY <1>4, FS_AddElement DEF ReplayInv
<1>6. \A r \in Posts : r \in Posts' /\ request'[r].hash = request[r].hash
    BY <1>2, <1>4 DEF Posts
<1>7. Undisturbed' => Undisturbed
    BY <1>1 DEF Undisturbed
<1>8. Retained' \subseteq {request'[r].hash : r \in Posts'}
    BY <1>1, <1>6 DEF Retained, ReplayInv
<1>9. ASSUME NEW h \in Hash, HarmlessTo(h) PROVE HarmlessTo(h)'
    <2>1. Writing' = Writing \cup {p} /\ p \notin Writing
        BY <1>1, <1>2, <1>3 DEF Writing, NoRequest
    <2>2. ASSUME NEW r \in Posts' PROVE h \notin request'[r].drop
        BY <1>2, <1>3, <1>4, <1>9 DEF HarmlessTo, Posts
    <2>3. ASSUME NEW r \in Writing', request'[r].hash = h PROVE request'[r].linked
        BY <1>2, <1>3, <1>9, <2>1, <2>3 DEF HarmlessTo, Writing
    <2>4. ASSUME NEW r \in Posts', request'[r].hash = h,
                 request'[r].state \in {"stored", "retiring", "replied"}
          PROVE  h \in readable' \/ \E q \in Writing' : request'[q].hash = h
        <3>1. CASE x = h
            BY <1>3, <2>1, <3>1
        <3>2. CASE x # h
            <4>1. r \in Posts /\ r # p /\ request'[r] = request[r]
                BY <1>2, <1>3, <1>4, <2>4 DEF Posts
            <4>2. h \in readable \/ \E q \in Writing : request[q].hash = h
                BY <1>9, <2>4, <4>1 DEF HarmlessTo
            <4> QED BY <1>1, <1>2, <2>1, <3>2, <4>2 DEF Writing
        <3> QED BY <3>1, <3>2
    <2> QED BY <2>2, <2>3, <2>4 DEF HarmlessTo
<1> QED BY <1>5, <1>6, <1>7, <1>8, <1>9, HarmlessStep

\* The write lands: a writer without a rival still has the file it opened.
LEMMA PutLandsHarmless ==
    ASSUME TypeOK, TypeOK', ReplayInv, NEW p \in Request, PutLands(p)
    PROVE  ReplayInv'
<1>1. /\ p \in Writing /\ request \in [Request -> Posted \cup {NoRequest}]
      /\ request' = [request EXCEPT ![p].state = "stored"]
      /\ readable' = IF request[p].linked THEN readable \cup {request[p].hash}
                                          ELSE readable
      /\ UNCHANGED <<ledger, damaged, restarts>>
    BY DEF PutLands, TypeOK
<1>2. request[p] \in Posted /\ request[p].state = "writing"
    BY <1>1 DEF Writing, NoRequest
<1>3. /\ request'[p] = [request[p] EXCEPT !.state = "stored"]
      /\ \A r \in Request \ {p} : request'[r] = request[r]
    BY <1>1
<1>4. /\ request'[p].hash = request[p].hash /\ request'[p].state = "stored"
      /\ request'[p].drop = request[p].drop
      /\ request'[p] # NoRequest /\ request[p] # NoRequest
    BY <1>2, <1>3 DEF Posted, NoRequest
<1>5. Posts' = Posts /\ \A r \in Posts : request'[r].hash = request[r].hash
    BY <1>3, <1>4 DEF Posts
<1>6. /\ IsFiniteSet(Posts') /\ (Undisturbed' => Undisturbed)
      /\ Retained' \subseteq {request'[r].hash : r \in Posts'}
    BY <1>1, <1>5 DEF ReplayInv, Undisturbed, Retained
<1>7. ASSUME NEW h \in Hash, HarmlessTo(h) PROVE HarmlessTo(h)'
    <2>1. Writing' = Writing \ {p}
        BY <1>3, <1>4 DEF Writing
    <2>2. ASSUME NEW r \in Posts' PROVE h \notin request'[r].drop
        BY <1>3, <1>4, <1>5, <1>7 DEF HarmlessTo, Posts
    <2>3. ASSUME NEW r \in Writing', request'[r].hash = h PROVE request'[r].linked
        BY <1>3, <1>7, <2>1, <2>3 DEF HarmlessTo, Writing
    <2>4. request[p].hash = h => h \in readable'
        BY <1>1, <1>7 DEF HarmlessTo
    <2>5. ASSUME NEW r \in Posts', request'[r].hash = h,
                 request'[r].state \in {"stored", "retiring", "replied"}
          PROVE  h \in readable' \/ \E q \in Writing' : request'[q].hash = h
        <3>1. CASE r = p
            BY <1>4, <2>4, <2>5, <3>1
        <3>2. CASE r # p
            <4>1. h \in readable \/ \E q \in Writing : request[q].hash = h
                BY <1>3, <1>5, <1>7, <2>5, <3>2 DEF HarmlessTo, Posts
            <4> QED BY <1>1, <1>3, <2>1, <2>4, <4>1 DEF Writing
        <3> QED BY <3>1, <3>2
    <2> QED BY <2>2, <2>3, <2>5 DEF HarmlessTo
<1> QED BY <1>5, <1>6, <1>7, HarmlessStep

\* The ledger takes the record in: a record without a rival is not given up.
LEMMA ReconcileHarmless ==
    ASSUME Inv, TypeOK', ReplayInv, NEW p \in Request, Reconcile(p)
    PROVE  ReplayInv'
<1> DEFINE x == request[p].hash
<1>1. /\ request[p].state = "stored" /\ request \in [Request -> Posted \cup {NoRequest}]
      /\ ledger' = Remembered(x)
      /\ request' = [request EXCEPT
             ![p].state = IF Drop(x) = {} THEN "replied" ELSE "retiring",
             ![p].drop = Drop(x)]
      /\ UNCHANGED <<readable, damaged, restarts>>
      /\ TypeOK /\ LedgerInv
    BY DEF Reconcile, Inv, TypeOK
<1>2. request[p] \in Posted /\ x \in Hash /\ request[p] # NoRequest
    BY <1>1 DEF NoRequest, Posted
<1> HIDE DEF x
<1>3. /\ request'[p].hash = request[p].hash
      /\ request'[p].state \in {"replied", "retiring"}
      /\ request'[p].drop = Drop(x)
      /\ \A r \in Request \ {p} : request'[r] = request[r]
    BY <1>1, <1>2 DEF Posted
<1>4. Posts' = Posts /\ \A r \in Posts : request'[r].hash = request[r].hash
    BY <1>2, <1>3 DEF Posts, NoRequest
<1>5. Retained' \subseteq Retained \cup {x}
    <2>1. Hashes(ledger') \cup Drop(x) = Retained \cup {x}
        BY <1>1, <1>2, TakesIn
    <2> QED BY <2>1 DEF Retained, Hashes
<1>6. /\ IsFiniteSet(Posts') /\ (Undisturbed' => Undisturbed)
      /\ Retained' \subseteq {request'[r].hash : r \in Posts'}
    <2>1. p \in Posts
        BY <1>2 DEF Posts
    <2>2. x \in {request'[r].hash : r \in Posts'}
        BY <1>4, <2>1 DEF x
    <2>3. Retained \subseteq {request'[r].hash : r \in Posts'}
        BY <1>4 DEF ReplayInv
    <2> QED BY <1>1, <1>4, <1>5, <2>2, <2>3 DEF ReplayInv, Undisturbed
<1>7. ASSUME IsFiniteSet(PostedKeys), Roomy, NEW h \in Hash, Sole(h), HarmlessTo(h)
      PROVE  HarmlessTo(h)'
    <2>1. Writing' = Writing /\ p \notin Writing
        BY <1>1, <1>3 DEF Writing
    <2>2. h \notin Drop(x)
        BY <1>2, <1>7, RoomyDrops DEF x, Sole, Posts
    <2>3. ASSUME NEW r \in Posts' PROVE h \notin request'[r].drop
        BY <1>3, <1>4, <1>7, <2>2 DEF HarmlessTo, Posts
    <2>4. ASSUME NEW r \in Writing', request'[r].hash = h PROVE request'[r].linked
        BY <1>3, <1>7, <2>1, <2>4 DEF HarmlessTo, Writing
    <2>5. ASSUME NEW r \in Posts', request'[r].hash = h,
                 request'[r].state \in {"stored", "retiring", "replied"}
          PROVE  h \in readable' \/ \E q \in Writing' : request'[q].hash = h
        <3>1. /\ r \in Posts /\ request[r].hash = h
              /\ request[r].state \in {"stored", "retiring", "replied"}
            BY <1>1, <1>3, <1>4, <2>5 DEF Posts
        <3>2. h \in readable \/ \E q \in Writing : request[q].hash = h
            BY <1>7, <3>1 DEF HarmlessTo
        <3> QED BY <1>1, <1>3, <2>1, <3>2 DEF Writing
    <2> QED BY <2>3, <2>4, <2>5 DEF HarmlessTo
<1> QED BY <1>1, <1>4, <1>6, <1>7, HarmlessStep

\* A retirement lands: it is never that of a record without a rival.
LEMMA DeleteLandsHarmless ==
    ASSUME Inv, TypeOK', ReplayInv, NEW p \in Request, NEW x \in Hash, DeleteLands(p, x)
    PROVE  ReplayInv'
<1>1. /\ request[p].state = "retiring" /\ x \in request[p].drop
      /\ request \in [Request -> Posted \cup {NoRequest}]
      /\ readable' = readable \ {x}
      /\ request' = [q \in Request |->
             IF q = p THEN Retired(p, x)
             ELSE IF q \in Writing /\ request[q].hash = x
                  THEN [request[q] EXCEPT !.linked = FALSE]
                  ELSE request[q]]
      /\ UNCHANGED <<ledger, damaged, restarts>>
      /\ TypeOK
    BY DEF DeleteLands, Unlink, Inv, TypeOK
<1>2. /\ request'[p].hash = request[p].hash
      /\ request'[p].drop = request[p].drop \ {x}
      /\ request'[p].state \in {"retiring", "replied"}
      /\ request[p] # NoRequest /\ request'[p] # NoRequest
    BY <1>1, RetiredInv DEF NoRequest
<1>3. ASSUME NEW q \in Request, q # p
      PROVE  /\ request'[q] = request[q] \/ (q \in Writing /\ request[q].hash = x)
             /\ request'[q].hash = request[q].hash
             /\ request'[q].state = request[q].state
             /\ request'[q].drop = request[q].drop
             /\ request'[q] = NoRequest <=> request[q] = NoRequest
    <2>1. CASE q \in Writing /\ request[q].hash = x
        <3>1. request[q] \in Posted /\ request'[q] = [request[q] EXCEPT !.linked = FALSE]
            BY <1>1, <1>3, <2>1 DEF Writing, NoRequest
        <3>2. request[q].state = "writing"
            BY <2>1 DEF Writing
        <3> QED BY <2>1, <3>1, <3>2 DEF Posted, NoRequest
    <2>2. CASE ~(q \in Writing /\ request[q].hash = x)
        BY <1>1, <1>3, <2>2
    <2> QED BY <2>1, <2>2
<1>4. Posts' = Posts /\ \A r \in Posts : request'[r].hash = request[r].hash
    BY <1>2, <1>3 DEF Posts
<1>5. /\ IsFiniteSet(Posts') /\ (Undisturbed' => Undisturbed)
      /\ Retained' \subseteq {request'[r].hash : r \in Posts'}
    <2>1. Retained' = Retained
        BY <1>1 DEF Retained
    <2>2. {request'[r].hash : r \in Posts'} = {request[r].hash : r \in Posts}
        BY <1>4
    <2> QED BY <1>1, <1>4, <2>1, <2>2 DEF ReplayInv, Undisturbed
<1>6. ASSUME NEW h \in Hash, HarmlessTo(h) PROVE HarmlessTo(h)'
    <2>1. Writing' = Writing /\ p \notin Writing
        BY <1>1, <1>2, <1>3 DEF Writing
    <2>2. x # h
        BY <1>1, <1>2, <1>6 DEF HarmlessTo, Posts
    <2>3. ASSUME NEW r \in Posts' PROVE h \notin request'[r].drop
        BY <1>2, <1>3, <1>4, <1>6 DEF HarmlessTo, Posts
    <2>4. ASSUME NEW r \in Writing', request'[r].hash = h PROVE request'[r].linked
        <3>1. r \in Writing /\ r # p /\ r \in Request
            BY <2>1 DEF Writing
        <3>2. request'[r] = request[r]
            BY <1>3, <2>2, <2>4, <3>1
        <3> QED BY <1>6, <2>4, <3>1, <3>2 DEF HarmlessTo
    <2>5. ASSUME NEW r \in Posts', request'[r].hash = h,
                 request'[r].state \in {"stored", "retiring", "replied"}
          PROVE  h \in readable' \/ \E q \in Writing' : request'[q].hash = h
        <3>1. /\ r \in Posts /\ request[r].hash = h
              /\ request[r].state \in {"stored", "retiring", "replied"}
            BY <1>1, <1>2, <1>3, <1>4, <2>5 DEF Posts
        <3>2. h \in readable \/ \E q \in Writing : request[q].hash = h
            BY <1>6, <3>1 DEF HarmlessTo
        <3> QED BY <1>1, <1>3, <2>1, <2>2, <3>2 DEF Writing
    <2> QED BY <2>3, <2>4, <2>5 DEF HarmlessTo
<1> QED BY <1>1, <1>4, <1>5, <1>6, HarmlessStep

\* A fault - a failed write or deletion, a restart - ends what is promised, and
\* takes no post back.
LEMMA FaultHarmless ==
    ASSUME Inv, TypeOK', ReplayInv,
           \/ \E p \in Request : PutFails(p) \/ \E x \in Hash : DeleteFails(p, x)
           \/ Restart
    PROVE  ReplayInv'
<1>0. TypeOK /\ request \in [Request -> Posted \cup {NoRequest}]
    BY DEF Inv, TypeOK
<1>1. /\ ~Undisturbed'
      /\ ledger' = ledger \/ ledger' = <<>>
    <2>1. ASSUME NEW p \in Request, PutFails(p) PROVE ~Undisturbed' /\ ledger' = ledger
        BY <2>1 DEF PutFails, Undisturbed
    <2>2. ASSUME NEW p \in Request, NEW x \in Hash, DeleteFails(p, x)
          PROVE  ~Undisturbed' /\ ledger' = ledger
        BY <2>2 DEF DeleteFails, Undisturbed
    <2>3. ASSUME Restart PROVE ~Undisturbed' /\ ledger' = <<>>
        <3>1. restarts \in Nat /\ restarts' = restarts + 1 /\ ledger' = <<>>
            <4>1. restarts \in 0 .. MaxRestarts /\ MaxRestarts \in Nat
                BY <1>0, BoundAssumption DEF TypeOK
            <4>2. restarts' = restarts + 1 /\ ledger' = <<>>
                BY <2>3 DEF Restart
            <4> QED BY <4>1, <4>2
        <3> QED BY <3>1 DEF Undisturbed
    <2> QED BY <2>1, <2>2, <2>3
<1>2. \A r \in Request : /\ request'[r].hash = request[r].hash
                         /\ request'[r] = NoRequest <=> request[r] = NoRequest
    <2>1. ASSUME NEW p \in Request, PutFails(p), NEW r \in Request
          PROVE  /\ request'[r].hash = request[r].hash
                 /\ request'[r] = NoRequest <=> request[r] = NoRequest
        <3>1. request[p] \in Posted /\ p \in Writing
              /\ request' = [request EXCEPT ![p].state = "failed"]
            BY <1>0, <2>1 DEF PutFails, Writing, NoRequest
        <3>2. /\ request'[p] = [request[p] EXCEPT !.state = "failed"]
              /\ r # p => request'[r] = request[r]
            BY <1>0, <3>1
        <3>3. request'[p].hash = request[p].hash /\ request'[p].state = "failed"
            BY <3>1, <3>2 DEF Posted
        <3>4. request[p].state = "writing"
            BY <3>1 DEF Writing
        <3>5. request'[p] # NoRequest /\ request[p] # NoRequest
            BY <3>3, <3>4 DEF NoRequest
        <3> QED BY <3>2, <3>3, <3>5
    <2>2. ASSUME NEW p \in Request, NEW x \in Hash, DeleteFails(p, x), NEW r \in Request
          PROVE  /\ request'[r].hash = request[r].hash
                 /\ request'[r] = NoRequest <=> request[r] = NoRequest
        <3>1. /\ request' = [request EXCEPT ![p] = Retired(p, x)]
              /\ Retired(p, x).hash = request[p].hash
              /\ Retired(p, x) # NoRequest /\ request[p] # NoRequest
            BY <2>2, RetiredInv DEF DeleteFails, NoRequest
        <3> QED BY <1>0, <3>1
    <2>3. ASSUME Restart, NEW r \in Request
          PROVE  /\ request'[r].hash = request[r].hash
                 /\ request'[r] = NoRequest <=> request[r] = NoRequest
        <3>1. request'[r] = IF r \in InFlight
                            THEN [request[r] EXCEPT !.state = "lost", !.drop = {}]
                            ELSE request[r]
            BY <2>3 DEF Restart
        <3>2. r \in InFlight => request[r] \in Posted
            BY <1>0 DEF InFlight, NoRequest
        <3>3. CASE r \in InFlight
            <4>1. request'[r].hash = request[r].hash /\ request'[r].state = "lost"
                BY <3>1, <3>2, <3>3 DEF Posted
            <4>2. request[r].state # "none"
                BY <3>3 DEF InFlight
            <4>3. request'[r] # NoRequest /\ request[r] # NoRequest
                BY <4>1, <4>2 DEF NoRequest
            <4> QED BY <4>1, <4>3
        <3> QED BY <3>1, <3>3
    <2> QED BY <2>1, <2>2, <2>3
<1>3. Posts' = Posts /\ \A r \in Posts : request'[r].hash = request[r].hash
    BY <1>2 DEF Posts
<1>4. Retained' \subseteq {request'[r].hash : r \in Posts'}
    BY <1>1, <1>3 DEF Retained, ReplayInv
<1> QED BY <1>1, <1>3, <1>4 DEF ReplayInv, Roomy

\* Every step preserves the invariant.
LEMMA StepReplay == Inv /\ Inv' /\ ReplayInv /\ [Next]_vars => ReplayInv'
<1> SUFFICES ASSUME Inv, Inv', ReplayInv, [Next]_vars PROVE ReplayInv'
    OBVIOUS
<1>0. TypeOK /\ TypeOK'
    BY DEF Inv
<1>1. CASE UNCHANGED vars
    BY <1>1 DEF vars, ReplayInv, Posts, Retained, Roomy, PostedKeys, Undisturbed,
                Sole, Writing
<1> QED
    BY <1>0, <1>1, PostHarmless, PutLandsHarmless, ReconcileHarmless,
       DeleteLandsHarmless, FaultHarmless DEF Next, RequestStep

\* Before the first post there is nothing to harm.
LEMMA InitReplay == Init => ReplayInv
<1> SUFFICES ASSUME Init PROVE ReplayInv
    OBVIOUS
<1>1. Posts = {} /\ Writing = {} /\ Retained = {}
    BY DEF Init, Posts, Writing, Retained, NoRequest
<1> QED BY <1>1, FS_EmptySet DEF ReplayInv

\* A record without a rival that was once answered for stays readable, however
\* its replays overlap, but for the moment one of them rewrites it
\* (recordTermsAcceptance, remember).
THEOREM ReplaysDoNoHarm == Spec => []ReplaysAreHarmless
<1>1. ReplayInv /\ TypeOK => ReplaysAreHarmless
    <2> SUFFICES ASSUME ReplayInv, TypeOK, Roomy, NEW r \in Posts,
                        request[r].state = "replied",
                        {request[s].hash : s \in {q \in Posts :
                            KeyOf[request[q].hash] = KeyOf[request[r].hash]}}
                          = {request[r].hash},
                        \A q \in Writing : request[q].hash # request[r].hash
                 PROVE  request[r].hash \in readable
        BY DEF ReplaysAreHarmless, Posts, Roomy, PostedKeys
    <2>1. Sole(request[r].hash)
        BY DEF Sole
    <2>2. request[r].hash \in Hash
        BY PostsArePosted
    <2> QED BY <2>1, <2>2 DEF ReplayInv
<1>2. Inv => TypeOK
    BY DEF Inv
<1>3. Spec => []ReplayInv
    BY InitInv, InitReplay, StepInv, StepReplay, AcceptanceInvariant, PTL DEF Spec
<1> QED BY <1>1, <1>2, <1>3, AcceptanceInvariant, PTL
====

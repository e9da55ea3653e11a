---- MODULE OperatorSurfaceProofs ----
(***************************************************************************)
(* Proofs about the operator surface, for any browsers, addresses, requests *)
(* in flight, options, patches and limits: how far concurrent logins can    *)
(* pass the throttle, and that a refused address stays out (OperatorAuth);  *)
(* that the settings the holder serves can be saved again, make a cohort    *)
(* and give no draft a window the TTL overrules, and that a save is taken   *)
(* whole and told (RuntimeSettings under OperatorSurface).  The last        *)
(* section is about the same sessions as the operator's browser holds them  *)
(* (OperatorConsole), for any cohorts and any number of requests in flight: *)
(* no late answer paints another session's console, or signs it out.        *)
(***************************************************************************)
EXTENDS OperatorSurface, OperatorConsole, TLAPS, FiniteSetTheorems

Window == [count : Nat, resetAt : Nat]

\* The clock, the windows, the refusals and the requests keep their types.
AuthTypes ==
    /\ now \in Nat
    /\ attempts \in [Address -> Window \cup {None}]
    /\ refused \in [Address -> Nat \cup {None}]
    /\ request = [r \in Slot |-> request[r]]
    /\ \A r \in Slot : request[r].kind = "login" => request[r].browser \in Browser

\* While a refusal lasts, the window it was refused for is the address's, and full.
RefusalsBacked ==
    \A a \in Address :
        \/ refused[a] = None
        \/ now > refused[a]
        \/ /\ attempts[a] # None
           /\ attempts[a].resetAt = refused[a] /\ attempts[a].count >= MaxAttempts

AuthInv == AuthTypes /\ AttemptsBounded /\ RefusalsBacked

-----------------------------------------------------------------------------
\* The logins an address has in flight are some of the slots.
LEMMA ReadingFits ==
    ASSUME NEW S \in SUBSET Slot
    PROVE  /\ IsFiniteSet(S) /\ Cardinality(S) \in Nat
           /\ Cardinality(S) <= Cardinality(Slot) /\ Cardinality(Slot) \in Nat
           /\ \A T \in SUBSET S : Cardinality(T) <= Cardinality(S)
<1>1. IsFiniteSet(Slot)
  BY AuthAssumption
<1>2. IsFiniteSet(S) /\ Cardinality(S) <= Cardinality(Slot)
  BY <1>1, FS_Subset
<1>3. Cardinality(S) \in Nat /\ Cardinality(Slot) \in Nat
  BY <1>1, <1>2, FS_CardinalityType
<1>4. \A T \in SUBSET S : Cardinality(T) <= Cardinality(S)
  BY <1>2, FS_Subset
<1> QED BY <1>2, <1>3, <1>4

\* At boot nothing is counted and nothing is refused.
LEMMA InitAuthInv == Init => AuthInv
<1> SUFFICES ASSUME Init PROVE AuthInv
  OBVIOUS
<1> USE AuthAssumption DEF Init, AuthInit
<1>1. AuthTypes
  BY DEF AuthTypes, Idle
<1>2. AttemptsBounded
  BY DEF AttemptsBounded
<1>3. RefusalsBacked
  BY DEF RefusalsBacked
<1> QED BY <1>1, <1>2, <1>3 DEF AuthInv

\* What a slot holds after one of them was written.
LEMMA SlotWritten ==
    ASSUME AuthTypes, NEW r \in Slot, NEW q, request' = [request EXCEPT ![r] = q]
    PROVE  /\ request' = [s \in Slot |-> request'[s]]
           /\ request'[r] = q
           /\ \A s \in Slot \ {r} : request'[s] = request[s]
BY DEF AuthTypes

\* What a step does to the throttle that is neither a login nor the clock nor a
\* restart: nothing, but a slot may be filled or freed.
Untouched ==
    /\ now' = now /\ attempts' = attempts /\ refused' = refused
    /\ \/ request' = request
       \/ \E r \in Slot : \E q : request' = [request EXCEPT ![r] = q] /\ q.kind # "login"

\* Such a step keeps the invariant, and lets no login in.
LEMMA UntouchedKeeps ==
    ASSUME AuthInv, Untouched
    PROVE  /\ AuthInv'
           /\ \A r \in Slot : request'[r].kind = "login" => request[r].kind = "login"
<1>1. /\ request' = [s \in Slot |-> request'[s]]
      /\ \A s \in Slot : request'[s].kind = "login" => request'[s] = request[s]
  <2>1. CASE request' = request
    BY <2>1 DEF AuthInv, AuthTypes
  <2>2. ASSUME NEW r \in Slot, NEW q, request' = [request EXCEPT ![r] = q], q.kind # "login"
        PROVE  /\ request' = [s \in Slot |-> request'[s]]
               /\ \A s \in Slot : request'[s].kind = "login" => request'[s] = request[s]
    BY <2>2, SlotWritten DEF AuthInv
  <2> QED BY <2>1, <2>2 DEF Untouched
<1>2. AuthTypes'
  BY <1>1 DEF Untouched, AuthInv, AuthTypes
<1>3. AttemptsBounded'
  <2> SUFFICES ASSUME NEW a \in Address, attempts[a] # None
               PROVE  attempts[a].count + Cardinality(Reading(a)')
                        <= MaxAttempts - 1 + Cardinality(Slot)
    BY DEF AttemptsBounded, Untouched
  <2>1. Reading(a) \in SUBSET Slot /\ Reading(a)' \subseteq Reading(a)
    BY <1>1 DEF Reading
  <2>2. /\ Cardinality(Reading(a)') <= Cardinality(Reading(a))
        /\ Cardinality(Reading(a)) \in Nat /\ Cardinality(Reading(a)') \in Nat
        /\ Cardinality(Slot) \in Nat
    BY <2>1, ReadingFits
  <2>3. attempts[a].count \in Nat
    BY DEF AuthInv, AuthTypes, Window
  <2> QED BY <2>2, <2>3, AuthAssumption DEF AuthInv, AttemptsBounded
<1>4. RefusalsBacked'
  BY DEF Untouched, AuthInv, RefusalsBacked
<1> QED BY <1>1, <1>2, <1>3, <1>4 DEF AuthInv

\* The check before the await: an unfinished window stays as it is, and lets a
\* login in only while it has room.
LEMMA LoginArrivesKeeps ==
    ASSUME AuthInv, NEW b \in Browser, NEW r \in Slot, LoginArrives(b, r)
    PROVE  AuthInv'
<1> DEFINE a == AddressOf[b]
<1>1. a \in Address
  BY AuthAssumption
<1>2. /\ now' = now /\ attempts' = Checked(a)
      /\ \/ /\ Allows(a) /\ refused' = refused
            /\ request' = [request EXCEPT ![r] =
                              [kind |-> "login", browser |-> b, payload |-> None]]
         \/ /\ ~Allows(a) /\ request' = request
            /\ refused' = [refused EXCEPT ![a] = attempts[a].resetAt]
  BY DEF LoginArrives
<1>3. /\ request' = [s \in Slot |-> request'[s]]
      /\ \A s \in Slot : request'[s].kind = "login" => request'[s].browser \in Browser
  <2>1. CASE request' = request
    BY <2>1 DEF AuthInv, AuthTypes
  <2>2. CASE request' = [request EXCEPT ![r] =
                            [kind |-> "login", browser |-> b, payload |-> None]]
    <3>1. /\ request' = [s \in Slot |-> request'[s]]
          /\ request'[r] = [kind |-> "login", browser |-> b, payload |-> None]
          /\ \A s \in Slot \ {r} : request'[s] = request[s]
      BY <2>2, SlotWritten DEF AuthInv
    <3> QED BY <3>1 DEF AuthInv, AuthTypes
  <2> QED BY <1>2, <2>1, <2>2
<1>4. /\ attempts' \in [Address -> Window \cup {None}]
      /\ attempts' = IF Lapsed(a) THEN [attempts EXCEPT ![a] = None] ELSE attempts
  BY <1>2 DEF AuthInv, AuthTypes, Checked
<1>5. ~Allows(a) => /\ attempts[a] \in Window /\ attempts[a] # None
                    /\ attempts[a].count >= MaxAttempts /\ ~Lapsed(a)
  BY <1>1, AuthAssumption DEF AuthInv, AuthTypes, Allows, Window
<1>6. refused' \in [Address -> Nat \cup {None}]
  <2>1. CASE refused' = refused
    BY <2>1 DEF AuthInv, AuthTypes
  <2>2. CASE ~Allows(a) /\ refused' = [refused EXCEPT ![a] = attempts[a].resetAt]
    <3>1. attempts[a].resetAt \in Nat
      BY <1>5, <2>2 DEF Window
    <3> QED BY <2>2, <3>1 DEF AuthInv, AuthTypes
  <2> QED BY <1>2, <2>1, <2>2
<1>7. AuthTypes'
  BY <1>2, <1>3, <1>4, <1>6 DEF AuthInv, AuthTypes
<1>8. AttemptsBounded'
  <2> SUFFICES ASSUME NEW e \in Address, attempts'[e] # None
               PROVE  attempts'[e].count + Cardinality(Reading(e)')
                        <= MaxAttempts - 1 + Cardinality(Slot)
    BY DEF AttemptsBounded
  <2>1. attempts'[e] = attempts[e] /\ attempts[e] \in Window
        /\ (e = a => ~Lapsed(a) /\ attempts[a] # None)
    BY <1>1, <1>4 DEF AuthInv, AuthTypes
  <2>2. attempts[e].count \in Nat
    BY <2>1 DEF Window
  <2>3. Reading(e)' \in SUBSET Slot /\ Reading(e) \in SUBSET Slot
    BY DEF Reading
  <2>4. /\ Cardinality(Reading(e)') \in Nat /\ Cardinality(Slot) \in Nat
        /\ Cardinality(Reading(e)') <= Cardinality(Slot)
    BY <2>3, ReadingFits
  <2>5. CASE e = a /\ Allows(a)
    <3>1. attempts[e].count <= MaxAttempts - 1
      BY <2>1, <2>2, <2>5, AuthAssumption DEF Allows
    <3> QED BY <2>1, <2>2, <2>4, <3>1, AuthAssumption
  <2>6. CASE ~(e = a /\ Allows(a))
    <3>1. Reading(e)' \subseteq Reading(e)
      <4>1. CASE ~Allows(a)
        BY <1>2, <4>1 DEF Reading
      <4>2. CASE Allows(a)
        <5>1. e # a
          BY <2>6, <4>2
        <5>2. /\ request'[r].browser = b /\ \A s \in Slot \ {r} : request'[s] = request[s]
          BY <1>2, <4>2, SlotWritten DEF AuthInv
        <5> QED BY <5>1, <5>2 DEF Reading
      <4> QED BY <4>1, <4>2
    <3>2. Cardinality(Reading(e)') <= Cardinality(Reading(e)) /\ Cardinality(Reading(e)) \in Nat
      BY <2>3, <3>1, ReadingFits
    <3>3. attempts[e].count + Cardinality(Reading(e)) <= MaxAttempts - 1 + Cardinality(Slot)
      BY <2>1 DEF AuthInv, AttemptsBounded
    <3> QED BY <2>1, <2>2, <2>4, <3>2, <3>3, AuthAssumption
  <2> QED BY <2>5, <2>6
<1>9. RefusalsBacked'
  <2> SUFFICES ASSUME NEW e \in Address, refused'[e] # None, ~(now > refused'[e])
               PROVE  /\ attempts'[e] # None
                      /\ attempts'[e].resetAt = refused'[e]
                      /\ attempts'[e].count >= MaxAttempts
    BY <1>2 DEF RefusalsBacked
  <2>1. CASE e = a /\ ~Allows(a)
    <3>1. refused'[a] = attempts[a].resetAt /\ attempts' = attempts
      BY <1>1, <1>2, <1>4, <1>5, <2>1 DEF AuthInv, AuthTypes
    <3> QED BY <1>5, <2>1, <3>1
  <2>2. CASE ~(e = a /\ ~Allows(a))
    <3>1. refused'[e] = refused[e]
      BY <1>1, <1>2, <2>2 DEF AuthInv, AuthTypes
    <3>2. /\ attempts[e] # None
          /\ attempts[e].resetAt = refused[e] /\ attempts[e].count >= MaxAttempts
      BY <3>1 DEF AuthInv, RefusalsBacked
    <3>3. attempts'[e] = attempts[e]
      <4>1. CASE e # a
        BY <1>1, <1>4, <4>1 DEF AuthInv, AuthTypes
      <4>2. CASE e = a
        BY <1>4, <3>1, <3>2, <4>2 DEF Lapsed
      <4> QED BY <4>1, <4>2
    <3> QED BY <3>1, <3>2, <3>3
  <2> QED BY <2>1, <2>2
<1> QED BY <1>7, <1>8, <1>9 DEF AuthInv

\* A refused address gets no login past the check before its window is over.
LEMMA LoginArrivesLate ==
    ASSUME AuthInv, NEW b \in Browser, NEW r \in Slot, LoginArrives(b, r), NEW s \in Slot,
           request[s].kind # "login", request'[s].kind = "login"
    PROVE  LET a == AddressOf[request'[s].browser]
           IN  refused[a] = None \/ now > refused[a]
<1> DEFINE a == AddressOf[b]
<1>1. a \in Address
  BY AuthAssumption
<1>2. /\ Allows(a)
      /\ request' = [request EXCEPT ![r] =
                        [kind |-> "login", browser |-> b, payload |-> None]]
  BY DEF LoginArrives
<1>3. request'[s].browser = b
  <2>1. s = r
    BY <1>2, SlotWritten DEF AuthInv
  <2> QED BY <1>2, <2>1, SlotWritten DEF AuthInv
<1>4. refused[a] = None \/ now > refused[a]
  <2> SUFFICES ASSUME ~(refused[a] = None \/ now > refused[a]) PROVE FALSE
    OBVIOUS
  <2>1. /\ attempts[a] # None
        /\ attempts[a].resetAt = refused[a] /\ attempts[a].count >= MaxAttempts
    BY <1>1 DEF AuthInv, RefusalsBacked
  <2>2. attempts[a].count \in Nat
    BY <1>1, <2>1 DEF AuthInv, AuthTypes, Window
  <2> QED BY <1>2, <2>1, <2>2, AuthAssumption DEF Allows, Lapsed
<1> QED BY <1>3, <1>4

\* A wrong password is counted in the window it falls into, and frees its slot.
LEMMA LoginFailsKeeps ==
    ASSUME AuthInv, NEW r \in Slot, LoginFails(r)
    PROVE  AuthInv'
<1> DEFINE a == AddressOf[request[r].browser]
           opened == [count |-> 1, resetAt |-> now + WindowMs]
           counted == Counted(attempts[a])
           fresh == attempts[a] = None \/ Lapsed(a)
           window == IF fresh THEN opened ELSE counted
<1>1. a \in Address
  BY AuthAssumption DEF LoginFails, AuthInv, AuthTypes
<1>2. /\ now' = now /\ refused' = refused
      /\ request' = [request EXCEPT ![r] = Idle]
      /\ attempts' = [attempts EXCEPT ![a] = window]
  <2>1. now' = now /\ refused' = refused /\ attempts' = Failed(a)
        /\ request' = [request EXCEPT ![r] = Idle]
    BY DEF LoginFails, Answered
  <2> HIDE DEF a
  <2>2. Failed(a) = [attempts EXCEPT ![a] = window]
    BY DEF Failed, Opened
  <2> QED BY <2>1, <2>2
<1>3. opened \in Window /\ opened.count = 1 /\ opened # None
  BY AuthAssumption DEF AuthInv, AuthTypes, Window
<1>4. ~fresh => /\ attempts[a] \in Window /\ counted \in Window /\ counted # None
                /\ counted.count = attempts[a].count + 1
                /\ counted.resetAt = attempts[a].resetAt
  <2> SUFFICES ASSUME ~fresh
               PROVE  /\ attempts[a] \in Window /\ counted \in Window /\ counted # None
                      /\ counted.count = attempts[a].count + 1
                      /\ counted.resetAt = attempts[a].resetAt
    OBVIOUS
  <2>1. attempts[a] \in Window
    BY <1>1 DEF AuthInv, AuthTypes
  <2>2. /\ counted \in Window /\ counted.count = attempts[a].count + 1
        /\ counted.resetAt = attempts[a].resetAt
    BY <2>1 DEF Window, Counted
  <2> HIDE DEF counted
  <2> QED BY <2>1, <2>2, AuthAssumption DEF Window
<1>5. window \in Window /\ window # None
  BY <1>3, <1>4
<1>6. attempts' \in [Address -> Window \cup {None}] /\ attempts'[a] = window
      /\ \A e \in Address \ {a} : attempts'[e] = attempts[e]
  <2> HIDE DEF window, a
  <2> QED BY <1>1, <1>2, <1>5 DEF AuthInv, AuthTypes
<1>7. /\ request' = [s \in Slot |-> request'[s]] /\ request'[r] = Idle
      /\ \A s \in Slot \ {r} : request'[s] = request[s]
  BY <1>2, SlotWritten DEF AuthInv
<1>8. Idle.kind # "login"
  BY DEF Idle
<1>9. AuthTypes'
  BY <1>2, <1>6, <1>7, <1>8 DEF AuthInv, AuthTypes
<1>10. AttemptsBounded'
  <2> SUFFICES ASSUME NEW e \in Address, attempts'[e] # None
               PROVE  attempts'[e].count + Cardinality(Reading(e)')
                        <= MaxAttempts - 1 + Cardinality(Slot)
    BY DEF AttemptsBounded
  <2>1. Reading(e) \in SUBSET Slot /\ Reading(e)' \subseteq Reading(e) \ {r}
    BY <1>7, <1>8 DEF Reading
  <2>2. /\ Cardinality(Reading(e)') <= Cardinality(Reading(e))
        /\ Cardinality(Reading(e)) <= Cardinality(Slot)
        /\ Cardinality(Reading(e)) \in Nat /\ Cardinality(Reading(e)') \in Nat
        /\ Cardinality(Slot) \in Nat
    BY <2>1, ReadingFits
  <2>3. CASE e # a
    <3>1. attempts'[e] = attempts[e] /\ attempts[e] \in Window
      BY <1>6, <2>3 DEF AuthInv, AuthTypes
    <3>2. attempts[e].count + Cardinality(Reading(e)) <= MaxAttempts - 1 + Cardinality(Slot)
      BY <3>1 DEF AuthInv, AttemptsBounded
    <3>3. attempts[e].count \in Nat
      BY <3>1 DEF Window
    <3> QED BY <2>2, <3>1, <3>2, <3>3, AuthAssumption
  <2>4. CASE e = a
    <3>1. r \in Reading(e)
      BY <2>4 DEF Reading, LoginFails
    <3>2. /\ IsFiniteSet(Reading(e))
          /\ Cardinality(Reading(e) \ {r}) = Cardinality(Reading(e)) - 1
      BY <2>1, <3>1, ReadingFits, FS_RemoveElement
    <3>3. Cardinality(Reading(e)') <= Cardinality(Reading(e)) - 1
      <4>1. Reading(e) \ {r} \in SUBSET Slot
        BY <2>1
      <4>2. Cardinality(Reading(e)') <= Cardinality(Reading(e) \ {r})
        BY <2>1, <4>1, ReadingFits
      <4> QED BY <3>2, <4>2
    <3>4. CASE fresh
      <4>1. attempts'[e].count = 1
        BY <1>3, <1>6, <2>4, <3>4
      <4> QED BY <2>2, <3>3, <4>1, AuthAssumption
    <3>5. CASE ~fresh
      <4>1. attempts'[e].count = attempts[e].count + 1 /\ attempts[e].count \in Nat
        BY <1>4, <1>6, <2>4, <3>5 DEF Window
      <4>2. attempts[e].count + Cardinality(Reading(e)) <= MaxAttempts - 1 + Cardinality(Slot)
        BY <2>4, <3>5 DEF AuthInv, AttemptsBounded
      <4> QED BY <2>2, <3>3, <4>1, <4>2, AuthAssumption
    <3> QED BY <3>4, <3>5
  <2> QED BY <2>3, <2>4
<1>11. RefusalsBacked'
  <2> SUFFICES ASSUME NEW e \in Address, refused[e] # None, ~(now > refused[e])
               PROVE  /\ attempts'[e] # None
                      /\ attempts'[e].resetAt = refused[e]
                      /\ attempts'[e].count >= MaxAttempts
    BY <1>2 DEF RefusalsBacked
  <2>1. /\ attempts[e] # None
        /\ attempts[e].resetAt = refused[e] /\ attempts[e].count >= MaxAttempts
    BY DEF AuthInv, RefusalsBacked
  <2>2. CASE e # a
    BY <1>6, <2>1, <2>2
  <2>3. CASE e = a
    <3>1. ~fresh
      BY <2>1, <2>3 DEF Lapsed
    <3>2. attempts[e].count \in Nat
      BY <1>4, <2>3, <3>1 DEF Window
    <3>3. attempts'[e] = counted
      BY <1>6, <2>3, <3>1
    <3> QED BY <1>4, <2>1, <2>3, <3>1, <3>2, <3>3, AuthAssumption
  <2> QED BY <2>2, <2>3
<1> QED BY <1>9, <1>10, <1>11 DEF AuthInv

\* The right password clears the count and the refusal of its address.
LEMMA LoginSucceedsKeeps ==
    ASSUME AuthInv, NEW r \in Slot, LoginSucceeds(r)
    PROVE  AuthInv'
<1> DEFINE a == AddressOf[request[r].browser]
<1>1. a \in Address
  BY AuthAssumption DEF LoginSucceeds, AuthInv, AuthTypes
<1>2. /\ now' = now /\ request' = [request EXCEPT ![r] = Idle]
      /\ attempts' = [attempts EXCEPT ![a] = None]
      /\ refused' = [refused EXCEPT ![a] = None]
  BY DEF LoginSucceeds, Answered
<1> HIDE DEF a
<1>3. /\ attempts' \in [Address -> Window \cup {None}] /\ attempts'[a] = None
      /\ refused' \in [Address -> Nat \cup {None}] /\ refused'[a] = None
      /\ \A e \in Address \ {a} : attempts'[e] = attempts[e] /\ refused'[e] = refused[e]
  BY <1>1, <1>2 DEF AuthInv, AuthTypes
<1>4. /\ request' = [s \in Slot |-> request'[s]] /\ request'[r] = Idle
      /\ \A s \in Slot \ {r} : request'[s] = request[s]
  BY <1>2, SlotWritten DEF AuthInv
<1>5. Idle.kind # "login"
  BY DEF Idle
<1>6. AuthTypes'
  BY <1>2, <1>3, <1>4, <1>5 DEF AuthInv, AuthTypes
<1>7. AttemptsBounded'
  <2> SUFFICES ASSUME NEW e \in Address \ {a}, attempts[e] # None
               PROVE  attempts[e].count + Cardinality(Reading(e)')
                        <= MaxAttempts - 1 + Cardinality(Slot)
    BY <1>3 DEF AttemptsBounded
  <2>1. Reading(e) \in SUBSET Slot /\ Reading(e)' \subseteq Reading(e)
    BY <1>4, <1>5 DEF Reading
  <2>2. /\ Cardinality(Reading(e)') <= Cardinality(Reading(e))
        /\ Cardinality(Reading(e)) \in Nat /\ Cardinality(Reading(e)') \in Nat
        /\ Cardinality(Slot) \in Nat
    BY <2>1, ReadingFits
  <2>3. attempts[e].count \in Nat
    BY DEF AuthInv, AuthTypes, Window
  <2> QED BY <2>2, <2>3, AuthAssumption DEF AuthInv, AttemptsBounded
<1>8. RefusalsBacked'
  BY <1>2, <1>3 DEF AuthInv, RefusalsBacked
<1> QED BY <1>6, <1>7, <1>8 DEF AuthInv

\* Time passes: a refusal may end, and no window changes.
LEMMA TickKeeps ==
    ASSUME AuthInv, Tick
    PROVE  AuthInv'
<1> USE DEF Tick
<1>1. now \in Nat /\ now' = now + 1 /\ UNCHANGED <<attempts, request, refused>>
  BY DEF AuthInv, AuthTypes
<1>2. AuthTypes'
  BY <1>1 DEF AuthInv, AuthTypes
<1>3. AttemptsBounded'
  BY <1>1 DEF AuthInv, AttemptsBounded, Reading
<1>4. RefusalsBacked'
  <2> SUFFICES ASSUME NEW e \in Address
               PROVE  \/ refused[e] = None
                      \/ now + 1 > refused[e]
                      \/ /\ attempts[e] # None
                         /\ attempts[e].resetAt = refused[e]
                         /\ attempts[e].count >= MaxAttempts
    BY <1>1 DEF RefusalsBacked
  <2>1. refused[e] \in Nat \cup {None}
    BY DEF AuthInv, AuthTypes
  <2>2. \/ refused[e] = None \/ now > refused[e]
        \/ /\ attempts[e] # None
           /\ attempts[e].resetAt = refused[e] /\ attempts[e].count >= MaxAttempts
    BY DEF AuthInv, RefusalsBacked
  <2> QED BY <1>1, <2>1, <2>2
<1> QED BY <1>2, <1>3, <1>4 DEF AuthInv

\* A restart forgets every count and every refusal.
LEMMA RestartKeeps ==
    ASSUME AuthInv, RestartAuth
    PROVE  /\ AuthInv'
           /\ \A r \in Slot : request'[r].kind # "login"
<1> USE DEF RestartAuth, Idle
<1>1. AuthTypes'
  BY DEF AuthInv, AuthTypes
<1>2. AttemptsBounded'
  BY DEF AttemptsBounded
<1>3. RefusalsBacked'
  BY DEF RefusalsBacked
<1> QED BY <1>1, <1>2, <1>3 DEF AuthInv

-----------------------------------------------------------------------------
\* A step of the surface is one of the gate's own that matter to the throttle, or
\* leaves the throttle alone.
LEMMA SurfaceSteps ==
    ASSUME AuthInv, [Next]_vars
    PROVE  \/ \E b \in Browser, r \in Slot : LoginArrives(b, r)
           \/ \E r \in Slot : LoginFails(r) \/ LoginSucceeds(r)
           \/ Tick \/ RestartAuth \/ Untouched
<1>1. Idle.kind # "login"
  BY DEF Idle
<1>2. ASSUME AuthNext
      PROVE  \/ \E b \in Browser, r \in Slot : LoginArrives(b, r)
             \/ \E r \in Slot : LoginFails(r) \/ LoginSucceeds(r)
             \/ Tick \/ Untouched
  <2>1. ASSUME NEW r \in Slot, LoginMalformed(r) PROVE Untouched
    BY <1>1, <2>1 DEF LoginMalformed, Answered, Untouched
  <2>2. ASSUME NEW b \in Browser, Logout(b) \/ GatedRead(b) PROVE Untouched
    BY <2>2 DEF Logout, GatedRead, Untouched
  <2> QED BY <1>2, <2>1, <2>2 DEF AuthNext
<1>3. ASSUME NEW b \in Browser, Controls(b) PROVE Untouched
  BY <1>3 DEF Controls, Denied, GatedRead, Pause, Resume, DisableBroadcast, DiscardDraft,
     Untouched, authVars
<1>4. ASSUME BodyRoutes PROVE Untouched
  <2>1. ASSUME NEW b \in Browser, NEW r \in Slot, NEW body \in Bodies, Arrives(b, r, body)
        PROVE  Untouched
    <3> DEFINE q == [kind |-> body.kind, browser |-> b, payload |-> body.payload]
    <3>1. request' = [request EXCEPT ![r] = q]
          /\ UNCHANGED <<now, attempts, refused>>
      BY <2>1 DEF Arrives
    <3>2. q.kind # "login"
      BY DEF Bodies
    <3> QED BY <3>1, <3>2 DEF Untouched
  <2>2. ASSUME NEW r \in Slot, PutSettings(r) \/ CreateDraft(r) \/ \E d \in 1 .. MaxDrafts : UpdateDraft(r, d)
        PROVE  Untouched
    <3>1. request' = [request EXCEPT ![r] = Idle] /\ UNCHANGED <<now, attempts, refused>>
      BY <2>2 DEF PutSettings, CreateDraft, UpdateDraft, AnswerTo, Answered
    <3> QED BY <1>1, <3>1 DEF Untouched
  <2> QED BY <1>4, <2>1, <2>2 DEF BodyRoutes
<1>5. ASSUME UNCHANGED vars PROVE Untouched
  BY <1>5 DEF vars, authVars, Untouched
<1> QED BY <1>2, <1>3, <1>4, <1>5 DEF Next, Restart

\* The invariant of the throttle, whatever the routes behind the gate do.
LEMMA NextAuthInv == AuthInv /\ [Next]_vars => AuthInv'
<1> SUFFICES ASSUME AuthInv, [Next]_vars PROVE AuthInv'
  OBVIOUS
<1> QED BY SurfaceSteps, LoginArrivesKeeps, LoginFailsKeeps, LoginSucceedsKeeps, TickKeeps,
        RestartKeeps, UntouchedKeeps

\* Along every behaviour of the surface the throttle keeps its books.
THEOREM AuthInvariant == Spec => []AuthInv
<1> QED BY InitAuthInv, NextAuthInv, PTL DEF Spec

\* However many logins are in flight together, no window counts more than the
\* limit and the slots beside the one that filled it.
THEOREM ThrottleBounds == Spec => []AttemptsBounded
<1>1. AuthInv => AttemptsBounded
  BY DEF AuthInv
<1> QED BY <1>1, AuthInvariant, PTL

\* A refused address gets no login read before the window it was refused for is over.
THEOREM RefusedStayOut == Spec => RefusalsHold
<1> DEFINE Late == \A r \in Slot :
                      (request[r].kind # "login" /\ request'[r].kind = "login") =>
                          LET a == AddressOf[request'[r].browser]
                          IN  refused[a] = None \/ now > refused[a]
<1>1. AuthInv /\ [Next]_vars => [Late]_authVars
  <2> SUFFICES ASSUME AuthInv, [Next]_vars PROVE Late
    OBVIOUS
  <2>1. ASSUME NEW b \in Browser, NEW r \in Slot, LoginArrives(b, r) PROVE Late
    BY <2>1, LoginArrivesLate
  <2>2. ASSUME NEW r \in Slot, LoginFails(r) \/ LoginSucceeds(r) PROVE Late
    <3>1. request' = [request EXCEPT ![r] = Idle]
      BY <2>2 DEF LoginFails, LoginSucceeds, Answered
    <3>2. \A s \in Slot : request'[s] = request[s] \/ request'[s] = Idle
      BY <3>1, SlotWritten DEF AuthInv
    <3> QED BY <3>2 DEF Idle
  <2>3. CASE Tick
    BY <2>3 DEF Tick
  <2>4. CASE RestartAuth
    BY <2>4, RestartKeeps
  <2>5. CASE Untouched
    BY <2>5, UntouchedKeeps
  <2> QED BY SurfaceSteps, <2>1, <2>2, <2>3, <2>4, <2>5
<1>2. RefusalsHold <=> [][Late]_authVars
  BY DEF RefusalsHold
<1> QED BY <1>1, <1>2, AuthInvariant, PTL DEF Spec

-----------------------------------------------------------------------------
(* The values: what the boot seeds, a patch makes, the form sends back *)

\* A window cut down to whole minutes is whole minutes, at least one, and no longer.
LEMMA WholeMinutes ==
    ASSUME NEW ms \in Int, ms >= Minute
    PROVE  LET w == WholeMinutesAtOrBelow(ms)
           IN  w \in Nat /\ w >= Minute /\ w <= ms /\ w % Minute = 0
<1>1. Minute \in Int /\ Minute > 0
  BY MinuteAssumption
<1> DEFINE q == ms \div Minute  r == ms % Minute
<1>2. q \in Int /\ r \in Int /\ 0 <= r /\ r < Minute /\ ms = Minute * q + r
  BY <1>1
<1>3. ms # Unset /\ WholeMinutesAtOrBelow(ms) = q * Minute
  BY NoValueAssumption DEF WholeMinutesAtOrBelow
<1> HIDE DEF q, r
<1>4. q >= 1
  BY <1>1, <1>2
<1>5. q * Minute \in Nat /\ q * Minute >= Minute /\ q * Minute <= ms
  BY <1>1, <1>2, <1>4
<1>6. (q * Minute) % Minute = 0
  BY <1>1, <1>2
<1> QED BY <1>3, <1>5, <1>6

\* A number that gives way below a minimum is the fallback, or a number from there up.
LEMMA KnobTurned ==
    ASSUME NEW raw \in Raw, NEW fallback, NEW minimum \in Int
    PROVE  \/ NumericKnob(raw, fallback, minimum) = fallback
           \/ /\ NumericKnob(raw, fallback, minimum) = raw
              /\ raw \in Int /\ raw >= minimum
<1>1. CASE raw \in {Unset, Malformed}
  BY <1>1 DEF NumericKnob
<1>2. CASE raw \notin {Unset, Malformed}
  <2>1. raw \in Int
    BY <1>2 DEF Raw
  <2> QED BY <1>2, <2>1 DEF NumericKnob
<1> QED BY <1>1, <1>2

\* What a seeded window is before the ceiling, and what the ceiling is.
LEMMA FlooredKnob ==
    ASSUME NEW raw \in Raw
    PROVE  LET w == WholeMinutesAtOrBelow(NumericKnob(raw, Unset, Minute))
           IN  /\ w \in Optional(Nat) /\ WindowOk(w)
               /\ w # Unset => raw \in Int /\ w <= raw
               /\ raw \in Int /\ raw >= Minute => w # Unset
<1> DEFINE k == NumericKnob(raw, Unset, Minute)  w == WholeMinutesAtOrBelow(k)
<1>1. Minute \in Nat \ {0}
  BY MinuteAssumption
<1>2. \/ k = Unset
      \/ k = raw /\ raw \in Int /\ raw >= Minute
  BY <1>1, KnobTurned
<1>3. raw \in Int /\ raw >= Minute => k = raw
  BY NoValueAssumption, <1>1 DEF NumericKnob
<1>4. Unset \notin Int /\ Malformed \notin Int
  BY NoValueAssumption
<1> HIDE DEF k
<1>5. CASE k = Unset
  <2>1. w = Unset
    BY <1>5 DEF WholeMinutesAtOrBelow
  <2> QED BY <1>3, <1>4, <1>5, <2>1 DEF Optional, WindowOk, k
<1>6. CASE k = raw /\ raw \in Int /\ raw >= Minute
  <2>1. w \in Nat /\ w >= Minute /\ w <= raw /\ w % Minute = 0
    BY <1>6, WholeMinutes
  <2> HIDE DEF w
  <2>2. WindowOk(w)
    BY <1>1, <1>4, <2>1 DEF WindowOk, Positive
  <2> QED BY <1>4, <1>6, <2>1, <2>2 DEF Optional, w, k
<1> QED BY <1>2, <1>5, <1>6

\* A text the holder seeds or takes is never empty: empty is unset.
LEMMA TextsTrimmed ==
    ASSUME NEW text \in Optional(Nat), NEW maximum \in Nat
    PROVE  /\ Trimmed(text) \in Optional(Nat) /\ Trimmed(text) # 0
           /\ TextKnob(text, maximum) \in Optional(Nat) /\ TextKnob(text, maximum) # 0
           /\ ~TooLong(TextKnob(text, maximum), maximum)
<1>1. Unset \notin Int
  BY NoValueAssumption
<1>2. Trimmed(text) \in Optional(Nat) /\ Trimmed(text) # 0
  BY <1>1 DEF Trimmed, Optional
<1>3. TextKnob(text, maximum) \in {Unset, Trimmed(text)}
      /\ ~TooLong(TextKnob(text, maximum), maximum)
  BY DEF TextKnob, TooLong
<1> QED BY <1>1, <1>2, <1>3 DEF Optional

\* A seed as the process reads it.
Seedlike(seed) ==
    /\ DOMAIN seed = SettingField \cup {"ttl", "autoFallback", "broadcasts"}
    /\ Shaped(seed) /\ seed.ttl \in Optional(Int)

\* What the holder may hold under a ceiling.
Held(held, ceiling) ==
    /\ held \in Settings
    /\ held.serviceName # 0 /\ held.termsText # 0
    /\ Acceptable(held, ceiling)

\* The ceiling is whole minutes at or below the TTL, wherever that is a minute or more.
LEMMA CeilingFloored ==
    ASSUME NEW seed, Seedlike(seed)
    PROVE  /\ Ceiling(seed) \in Optional(Nat) /\ WindowOk(Ceiling(seed))
           /\ Ceiling(seed) # Unset => seed.ttl \in Int /\ Ceiling(seed) <= seed.ttl
           /\ (seed.ttl # Unset /\ seed.ttl >= Minute) => Ceiling(seed) # Unset
<1>1. seed.ttl \in Raw
  BY DEF Seedlike, Optional, Raw
<1>2. seed.ttl # Unset => seed.ttl \in Int
  BY DEF Seedlike, Optional
<1> QED BY <1>1, <1>2, FlooredKnob DEF Ceiling

\* Whatever the environment says, the holder boots with settings it would accept.
LEMMA SeededHeld ==
    ASSUME NEW seed, Seedlike(seed)
    PROVE  Held(Seeded(seed), Ceiling(seed))
<1> DEFINE s == Seeded(seed)  c == Ceiling(seed)
           size == NumericKnob(seed.size, BuiltInSize, 1)
<1>1. /\ seed.serviceName \in Optional(Nat) /\ seed.termsText \in Optional(Nat)
      /\ seed.size \in Raw /\ seed.threshold \in Raw
      /\ seed.discovery \in Raw /\ seed.funding \in Raw
  BY DEF Seedlike, Shaped, SettingField, TextField, NumberField
<1>2. Unset \notin Int /\ Malformed \notin Int
  BY NoValueAssumption
<1>3. size \in Nat /\ size >= 1
  <2>1. BuiltInSize \in Int /\ BuiltInSize >= 1
    BY DEF BuiltInSize
  <2>2. size = BuiltInSize \/ (size = seed.size /\ seed.size \in Int /\ seed.size >= 1)
    BY <1>1 DEF NumericKnob, Raw
  <2> QED BY <2>1, <2>2
<1>4. /\ s.serviceName = TextKnob(seed.serviceName, MaxServiceNameChars)
      /\ s.termsText = TextKnob(seed.termsText, MaxTermsChars)
      /\ s.beaconType = (IF seed.beaconType \in KnownBeaconTypes
                           THEN seed.beaconType ELSE BuiltInBeaconType)
      /\ s.size = size /\ s.threshold = SeededThreshold(seed, size)
      /\ s.discovery = SeededDiscovery(seed)
      /\ s.funding = WholeMinutesAtOrBelow(NumericKnob(seed.funding, Unset, Minute))
      /\ s = [serviceName |-> s.serviceName, beaconType |-> s.beaconType, size |-> s.size,
              threshold |-> s.threshold, discovery |-> s.discovery, funding |-> s.funding,
              termsText |-> s.termsText]
  BY DEF Seeded
<1> HIDE DEF s, size
<1>5. /\ s.serviceName \in Optional(Nat) /\ s.serviceName # 0
      /\ ~TooLong(s.serviceName, MaxServiceNameChars)
      /\ s.termsText \in Optional(Nat) /\ s.termsText # 0
      /\ ~TooLong(s.termsText, MaxTermsChars)
  BY <1>1, <1>4, LengthAssumption, TextsTrimmed
<1>6. s.beaconType \in KnownBeaconTypes
  BY <1>4, BeaconAssumption
<1>7. s.threshold \in Nat /\ s.threshold >= 1 /\ s.threshold <= s.size
  <2> DEFINE k == NumericKnob(seed.threshold, size, 1)
  <2>1. k = size \/ (k = seed.threshold /\ seed.threshold \in Int /\ seed.threshold >= 1)
    BY <1>1 DEF NumericKnob, Raw
  <2>2. k \in Nat /\ k >= 1
    BY <1>3, <2>1
  <2>3. s.threshold = IF k > size THEN size ELSE k
    BY <1>4 DEF SeededThreshold
  <2> HIDE DEF k
  <2> QED BY <1>3, <1>4, <2>2, <2>3
<1>8. s.funding \in Optional(Nat) /\ WindowOk(s.funding)
  BY <1>1, <1>4, FlooredKnob
<1>9. s.discovery \in Optional(Nat) /\ WindowOk(s.discovery) /\ ~Above(s.discovery, c)
  <2> DEFINE w == WholeMinutesAtOrBelow(NumericKnob(seed.discovery, Unset, Minute))
  <2>1. w \in Optional(Nat) /\ WindowOk(w)
    BY <1>1, FlooredKnob
  <2>2. c \in Optional(Nat) /\ WindowOk(c)
    BY CeilingFloored
  <2>3. s.discovery = IF Above(w, c) THEN c ELSE w
    BY <1>4 DEF SeededDiscovery
  <2> HIDE DEF w, c
  <2>4. ~Above(c, c)
    BY <2>2 DEF Above, Optional
  <2> QED BY <2>1, <2>2, <2>3, <2>4
<1>10. s \in Settings
  BY <1>3, <1>4, <1>5, <1>6, <1>7, <1>8, <1>9 DEF Settings
<1>11. Positive(s.size) /\ Positive(s.threshold)
  BY <1>2, <1>3, <1>4, <1>7 DEF Positive
<1>12. Acceptable(s, c)
  BY <1>5, <1>6, <1>7, <1>8, <1>9, <1>11 DEF Acceptable
<1> QED BY <1>5, <1>10, <1>12 DEF Held, s, c

\* A patch the holder takes leaves settings it would take again.
LEMMA AppliedHeld ==
    ASSUME NEW held, NEW ceiling, Held(held, ceiling), NEW patch \in Patch
    PROVE  Held(Applied(held, patch, ceiling), ceiling)
<1> DEFINE s == Overlay(held, patch)
<1> SUFFICES ASSUME Acceptable(s, ceiling) PROVE Held(s, ceiling)
  BY DEF Applied
<1>1. Unset \notin Int /\ Malformed \notin Int
  BY NoValueAssumption
<1>2. /\ "serviceName" \in DOMAIN patch => patch.serviceName \in Optional(Nat)
      /\ "termsText" \in DOMAIN patch => patch.termsText \in Optional(Nat)
      /\ "size" \in DOMAIN patch => patch.size \in Raw
      /\ "threshold" \in DOMAIN patch => patch.threshold \in Raw
      /\ "discovery" \in DOMAIN patch => patch.discovery \in Raw
      /\ "funding" \in DOMAIN patch => patch.funding \in Raw
  BY ShapeAssumption DEF Shaped, TextField, NumberField
<1>3. /\ held.serviceName \in Optional(Nat) /\ held.termsText \in Optional(Nat)
      /\ held.size \in Nat /\ held.threshold \in Nat
      /\ held.discovery \in Optional(Nat) /\ held.funding \in Optional(Nat)
  BY DEF Held, Settings
<1>4. /\ s.serviceName = held.serviceName
           \/ ("serviceName" \in DOMAIN patch /\ s.serviceName = Trimmed(patch.serviceName))
      /\ s.termsText = held.termsText
           \/ ("termsText" \in DOMAIN patch /\ s.termsText = Trimmed(patch.termsText))
      /\ s.size = held.size
           \/ ("size" \in DOMAIN patch /\ s.size = patch.size /\ s.size # Unset)
      /\ s.threshold = held.threshold
           \/ ("threshold" \in DOMAIN patch /\ s.threshold = patch.threshold
              /\ s.threshold # Unset)
      /\ s.discovery = held.discovery
           \/ ("discovery" \in DOMAIN patch /\ s.discovery = patch.discovery)
      /\ s.funding = held.funding
           \/ ("funding" \in DOMAIN patch /\ s.funding = patch.funding)
  BY DEF Overlay
<1>4a. s = [serviceName |-> s.serviceName, beaconType |-> s.beaconType, size |-> s.size,
            threshold |-> s.threshold, discovery |-> s.discovery, funding |-> s.funding,
            termsText |-> s.termsText]
  BY DEF Overlay
<1> HIDE DEF s
<1>5. /\ s.serviceName \in Optional(Nat) /\ s.serviceName # 0
      /\ s.termsText \in Optional(Nat) /\ s.termsText # 0
  BY <1>2, <1>3, <1>4, LengthAssumption, TextsTrimmed DEF Held
<1>6. \A n \in Raw : Positive(n) /\ n # Unset => n \in Nat
  BY DEF Positive, Raw
<1>7. \A w \in Raw \cup Optional(Nat) : WindowOk(w) => w \in Optional(Nat)
  BY DEF WindowOk, Positive, Raw, Optional
<1>8. s.discovery \in Optional(Nat) /\ s.funding \in Optional(Nat)
  BY <1>2, <1>3, <1>4, <1>7 DEF Acceptable
<1>9. s.size \in Nat /\ s.threshold \in Nat
  BY <1>2, <1>3, <1>4, <1>6 DEF Acceptable
<1>10. s.beaconType \in KnownBeaconTypes
  BY DEF Acceptable
<1>11. s \in Settings
  BY <1>4a, <1>5, <1>8, <1>9, <1>10 DEF Settings
<1> QED BY <1>5, <1>11 DEF Held

\* Settings the holder would take come back from the console's form as they were.
LEMMA HeldSaves ==
    ASSUME NEW held, NEW ceiling, NEW broadcasts \in BOOLEAN, Held(held, ceiling)
    PROVE  LET form == UntouchedForm(held, broadcasts)
           IN  FormValid(form) /\ Overlay(held, form) = held
<1> DEFINE form == UntouchedForm(held, broadcasts)
           o == Overlay(held, form)
<1>1. Unset \notin Int /\ Malformed \notin Int /\ Unset \notin KnownBeaconTypes
  BY NoValueAssumption
<1>2. /\ held.serviceName \in Optional(Nat) /\ held.serviceName # 0
      /\ held.termsText \in Optional(Nat) /\ held.termsText # 0
      /\ held.beaconType \in KnownBeaconTypes
      /\ held.size \in Nat /\ held.threshold \in Nat
      /\ held.discovery \in Optional(Nat) /\ held.funding \in Optional(Nat)
      /\ held = [serviceName |-> held.serviceName, beaconType |-> held.beaconType,
                 size |-> held.size, threshold |-> held.threshold,
                 discovery |-> held.discovery, funding |-> held.funding,
                 termsText |-> held.termsText]
  BY DEF Held, Settings
<1>3. \A w \in Optional(Nat) : WindowOk(w) => ThroughTheForm(w) = w /\ w # Malformed
  <2> SUFFICES ASSUME NEW w \in Optional(Nat), WindowOk(w)
               PROVE  ThroughTheForm(w) = w /\ w # Malformed
    OBVIOUS
  <2> QED BY <1>1, NoValueAssumption DEF WindowOk, ThroughTheForm, Optional
<1>4. /\ WindowOk(held.discovery) /\ WindowOk(held.funding)
      /\ Positive(held.size) /\ Positive(held.threshold) /\ held.threshold <= held.size
  BY DEF Held, Acceptable
<1>5. /\ DOMAIN form = {"serviceName", "beaconType", "size", "threshold", "discovery",
                        "termsText"} \cup (IF broadcasts THEN {"funding"} ELSE {})
      /\ form.serviceName = IF held.serviceName = Unset THEN 0 ELSE held.serviceName
      /\ form.termsText = IF held.termsText = Unset THEN 0 ELSE held.termsText
      /\ form.beaconType = held.beaconType
      /\ form.size = held.size /\ form.threshold = held.threshold
      /\ form.discovery = ThroughTheForm(held.discovery)
      /\ broadcasts => form.funding = ThroughTheForm(held.funding)
  BY DEF UntouchedForm
<1> HIDE DEF form
<1>6. form.discovery = held.discovery /\ (broadcasts => form.funding = held.funding)
  BY <1>2, <1>3, <1>4, <1>5
<1>7. FormValid(form)
  BY <1>2, <1>3, <1>4, <1>5, <1>6 DEF FormValid
<1>8. /\ Trimmed(form.serviceName) = held.serviceName
      /\ Trimmed(form.termsText) = held.termsText
  BY <1>1, <1>2, <1>5 DEF Trimmed, Optional
<1>9. "funding" \in DOMAIN form => broadcasts
  BY <1>5
<1>10. /\ o.serviceName = held.serviceName /\ o.termsText = held.termsText
       /\ o.beaconType = held.beaconType
       /\ o.size = held.size /\ o.threshold = held.threshold
       /\ o.discovery = held.discovery /\ o.funding = held.funding
       /\ o = [serviceName |-> o.serviceName, beaconType |-> o.beaconType, size |-> o.size,
               threshold |-> o.threshold, discovery |-> o.discovery, funding |-> o.funding,
               termsText |-> o.termsText]
  BY <1>5, <1>6, <1>8, <1>9 DEF Overlay
<1> HIDE DEF o
<1>11. o = held
  BY <1>2, <1>10
<1> QED BY <1>7, <1>11 DEF o, form

\* They make a cohort, wherever a threshold below the size is allowed.
LEMMA HeldCreates ==
    ASSUME NEW held, NEW ceiling, NEW ttl, Held(held, ceiling)
    PROVE  DraftAcceptable(WithServiceDefaults(EmptyInput, held), TRUE, ttl)
<1> DEFINE i == WithServiceDefaults(EmptyInput, held)
<1>1. /\ i.beaconType = held.beaconType /\ i.size = held.size
      /\ i.threshold = held.threshold
      /\ i.discovery = Unset /\ i.funding = Unset
  BY DEF WithServiceDefaults, EmptyInput
<1> HIDE DEF i
<1>2. Unset \notin Int
  BY NoValueAssumption
<1>3. held.size \in Nat /\ held.threshold \in Nat /\ held.beaconType \in KnownBeaconTypes
  BY DEF Held, Settings
<1>4. Positive(held.size) /\ Positive(held.threshold) /\ held.threshold <= held.size
  BY DEF Held, Acceptable
<1>5. KOf(i) = held.threshold
  BY <1>1, <1>2, <1>3 DEF KOf
<1>6. DraftAcceptable(i, TRUE, ttl)
  BY <1>1, <1>2, <1>3, <1>4, <1>5 DEF DraftAcceptable, ExplicitWindowOk, Above
<1> QED BY <1>6 DEF i

-----------------------------------------------------------------------------
(* The settings along the behaviours of the surface *)

\* A body in flight is one of the bodies the routes take.
BodyTyped(q) ==
    /\ q.kind = "settings" => q.payload \in Patch
    /\ q.kind \in {"create", "update"} => q.payload \in Input
BodiesTyped == \A r \in Slot : BodyTyped(request[r])

\* What these routes write in the log.
Line == SettingField \cup {"paused", "resumed", "disabled"}

\* The boot keeps the shape it was read in, the holder what it would take again, the
\* drafts windows the TTL allows, and the log its lines.
SettingsInv ==
    /\ Seedlike(boot) /\ boot.broadcasts \in BOOLEAN
    /\ Held(settings, CeilingNow)
    /\ BodiesTyped
    /\ DraftWindowsEnforceable
    /\ log \in Seq(Line) /\ paused \in BOOLEAN /\ restarts \in Nat

\* The options the process boots with are a seed.
LEMMA SeedOfShaped ==
    ASSUME NEW o \in Option
    PROVE  Seedlike(SeedOf(o)) /\ SeedOf(o).broadcasts \in BOOLEAN
<1> DEFINE s == SeedOf(o)
<1>1. /\ DOMAIN o = SettingField \cup {"ttl", "autoFallback", "broadcasts"}
      /\ Shaped(o) /\ o.ttl \in Optional(Int) /\ o.broadcasts \in BOOLEAN
  BY ShapeAssumption
<1>2. DOMAIN s = DOMAIN o
      /\ \A f \in DOMAIN o : f # "discovery" => s[f] = o[f]
  BY DEF SeedOf
<1>3. "discovery" \in DOMAIN o /\ "ttl" \in DOMAIN o /\ "broadcasts" \in DOMAIN o
  BY <1>1 DEF SettingField, NumberField
<1>4. s.discovery \in {o.ttl, o.discovery}
  BY <1>3 DEF SeedOf
<1>5. s.discovery \in Raw
  BY <1>1, <1>3, <1>4 DEF Shaped, NumberField, Raw, Optional
<1> HIDE DEF s
<1>6. s.ttl = o.ttl /\ s.broadcasts = o.broadcasts
  BY <1>2, <1>3
<1>7. "discovery" \notin TextField
  BY DEF TextField
<1>8. Shaped(s)
  BY <1>1, <1>2, <1>5, <1>7 DEF Shaped
<1> QED BY <1>1, <1>2, <1>6, <1>8 DEF Seedlike, s

LEMMA InitSettingsInv == Init => SettingsInv
<1> SUFFICES ASSUME Init PROVE SettingsInv
  OBVIOUS
<1>1. PICK o \in Option : SurfaceBoot(o)
  BY DEF Init
<1>2. Seedlike(boot) /\ boot.broadcasts \in BOOLEAN
  BY <1>1, SeedOfShaped DEF SurfaceBoot
<1>3. Held(settings, CeilingNow)
  BY <1>1, SeededHeld, SeedOfShaped DEF SurfaceBoot, CeilingNow
<1>4. BodiesTyped
  BY DEF Init, AuthInit, BodiesTyped, BodyTyped, Idle
<1>5. DraftWindowsEnforceable
  BY <1>1 DEF SurfaceBoot, DraftWindowsEnforceable
<1>7. <<>> \in Seq(Line)
  OBVIOUS
<1>6. log \in Seq(Line) /\ paused \in BOOLEAN
  BY <1>1, <1>7 DEF SurfaceBoot
<1>8. restarts \in Nat
  BY DEF Init, AuthInit
<1> QED BY <1>2, <1>3, <1>4, <1>5, <1>6, <1>8 DEF SettingsInv

-----------------------------------------------------------------------------
(* The operator log *)

\* A line that is noted is the last one.
LEMMA NotedLine ==
    ASSUME NEW S, NEW l \in Seq(S), NEW text \in S
    PROVE  Note(l, text) \in Seq(S) /\ Last(Note(l, text)) = text
<1>1. CASE l # <<>> /\ l[Len(l)] = text
  BY <1>1 DEF Note, Last
<1>2. CASE ~(l # <<>> /\ l[Len(l)] = text)
  <2> DEFINE t == IF Len(l) >= RingSize THEN Tail(l) ELSE l
  <2>1. t \in Seq(S)
    <3>1. CASE Len(l) >= RingSize
      <4>1. l # <<>>
        BY <3>1, SurfaceAssumption
      <4>2. Tail(l) \in Seq(S)
        BY <4>1
      <4> QED BY <3>1, <4>2
    <3>2. CASE ~(Len(l) >= RingSize)
      BY <3>2
    <3> QED BY <3>1, <3>2
  <2>2. Note(l, text) = Append(t, text)
    BY <1>2 DEF Note
  <2> HIDE DEF t
  <2>3. Append(t, text) \in Seq(S) /\ Len(Append(t, text)) = Len(t) + 1
    BY <2>1
  <2>4. Append(t, text)[Len(t) + 1] = text
    BY <2>1
  <2> QED BY <2>2, <2>3, <2>4 DEF Last
<1> QED BY <1>1, <1>2

\* One step of the loop over the fields.
Told(l, f, before, after) == IF before[f] # after[f] THEN Note(l, f) ELSE l

\* The loop, unrolled over the seven fields.
LEMMA ChangesUnrolled ==
    ASSUME NEW l, NEW before, NEW after
    PROVE  \E n : /\ n[0] = l
                  /\ \A i \in 1 .. 7 : n[i] = Told(n[i - 1], Fields[i], before, after)
                  /\ NoteChanges(l, before, after) = n[7]
<1> DEFINE T(m, f) == Told(m, f, before, after)
           m1 == T(l, "serviceName")
           m2 == T(m1, "beaconType")
           m3 == T(m2, "size")
           m4 == T(m3, "threshold")
           m5 == T(m4, "discovery")
           m6 == T(m5, "funding")
           m7 == T(m6, "termsText")
           P(n) == n = [i \in 0 .. Len(Fields) |->
                          IF i = 0 THEN l
                          ELSE IF before[Fields[i]] # after[Fields[i]]
                                 THEN Note(n[i - 1], Fields[i])
                          ELSE n[i - 1]]
           n == [i \in 0 .. 7 |->
                   CASE i = 0 -> l [] i = 1 -> m1 [] i = 2 -> m2 [] i = 3 -> m3
                     [] i = 4 -> m4 [] i = 5 -> m5 [] i = 6 -> m6 [] i = 7 -> m7]
<1>1. /\ Len(Fields) = 7
      /\ Fields[1] = "serviceName" /\ Fields[2] = "beaconType" /\ Fields[3] = "size"
      /\ Fields[4] = "threshold" /\ Fields[5] = "discovery" /\ Fields[6] = "funding"
      /\ Fields[7] = "termsText"
  BY DEF Fields
<1>2. /\ n[0] = l /\ n[1] = m1 /\ n[2] = m2 /\ n[3] = m3
      /\ n[4] = m4 /\ n[5] = m5 /\ n[6] = m6 /\ n[7] = m7
      /\ n = [i \in 0 .. 7 |-> n[i]]
  <2> HIDE DEF m1, m2, m3, m4, m5, m6, m7
  <2> QED OBVIOUS
<1>3. /\ m1 = T(l, Fields[1]) /\ m2 = T(m1, Fields[2]) /\ m3 = T(m2, Fields[3])
      /\ m4 = T(m3, Fields[4]) /\ m5 = T(m4, Fields[5]) /\ m6 = T(m5, Fields[6])
      /\ m7 = T(m6, Fields[7])
  <2> HIDE DEF T
  <2> QED BY <1>1
<1> HIDE DEF n, m1, m2, m3, m4, m5, m6, m7
<1>4. \A i \in 0 .. 7 : i \in {0, 1, 2, 3, 4, 5, 6, 7}
  OBVIOUS
<1>5. \A i \in 1 .. 7 : n[i] = T(n[i - 1], Fields[i])
  <2> HIDE DEF T
  <2> SUFFICES ASSUME NEW i \in 1 .. 7 PROVE n[i] = T(n[i - 1], Fields[i])
    OBVIOUS
  <2> QED BY <1>2, <1>3
<1>6. P(n)
  <2>1. \A i \in 0 .. 7 :
           n[i] = IF i = 0 THEN l
                  ELSE IF before[Fields[i]] # after[Fields[i]] THEN Note(n[i - 1], Fields[i])
                  ELSE n[i - 1]
    BY <1>2, <1>5 DEF Told
  <2> QED BY <1>1, <1>2, <2>1
<1> DEFINE c == CHOOSE f : P(f)
<1>7. NoteChanges(l, before, after) = c[Len(Fields)]
  BY DEF NoteChanges
<1>8. P(c)
  <2> HIDE DEF P
  <2> QED BY <1>6
<1>9. /\ c[0] = l
      /\ \A i \in 1 .. 7 : c[i] = T(c[i - 1], Fields[i])
  <2> HIDE DEF c
  <2>1. \A i \in 0 .. 7 :
           c[i] = IF i = 0 THEN l
                  ELSE IF before[Fields[i]] # after[Fields[i]] THEN Note(c[i - 1], Fields[i])
                  ELSE c[i - 1]
    BY <1>1, <1>8
  <2> QED BY <2>1 DEF Told
<1> QED BY <1>1, <1>7, <1>9

\* One step of the loop: a field that did not move is not noted, one that did is the
\* last line.
LEMMA ToldLine ==
    ASSUME NEW S, NEW l \in Seq(S), NEW f \in S, NEW before, NEW after
    PROVE  /\ Told(l, f, before, after) \in Seq(S)
           /\ before[f] = after[f] => Told(l, f, before, after) = l
           /\ before[f] # after[f] => Last(Told(l, f, before, after)) = f
BY NotedLine DEF Told

\* The last line of a save that changed anything names a field it changed.
LEMMA ChangesNoted ==
    ASSUME NEW l \in Seq(Line), NEW before \in Settings, NEW after \in Settings
    PROVE  LET noted == NoteChanges(l, before, after)
           IN  /\ noted \in Seq(Line)
               /\ before # after => before[Last(noted)] # after[Last(noted)]
<1>1. PICK n : /\ n[0] = l
               /\ \A i \in 1 .. 7 : n[i] = Told(n[i - 1], Fields[i], before, after)
               /\ NoteChanges(l, before, after) = n[7]
  BY ChangesUnrolled
<1>2. /\ Fields[1] = "serviceName" /\ Fields[2] = "beaconType" /\ Fields[3] = "size"
      /\ Fields[4] = "threshold" /\ Fields[5] = "discovery" /\ Fields[6] = "funding"
      /\ Fields[7] = "termsText"
  BY DEF Fields
<1> DEFINE Step(m, p, f) == /\ before[f] = after[f] => m = p
                            /\ before[f] # after[f] => Last(m) = f
<1>3. /\ n[1] = Told(n[0], "serviceName", before, after)
      /\ n[2] = Told(n[1], "beaconType", before, after)
      /\ n[3] = Told(n[2], "size", before, after)
      /\ n[4] = Told(n[3], "threshold", before, after)
      /\ n[5] = Told(n[4], "discovery", before, after)
      /\ n[6] = Told(n[5], "funding", before, after)
      /\ n[7] = Told(n[6], "termsText", before, after)
  BY <1>1, <1>2
<1>3a. \A m \in Seq(Line) : \A f \in Line :
          /\ Told(m, f, before, after) \in Seq(Line)
          /\ Step(Told(m, f, before, after), m, f)
  BY ToldLine
<1> HIDE DEF Step
<1>3b. /\ "serviceName" \in Line /\ "beaconType" \in Line /\ "size" \in Line
      /\ "threshold" \in Line /\ "discovery" \in Line /\ "funding" \in Line
      /\ "termsText" \in Line
  BY DEF Line, SettingField, TextField, NumberField
<1>4. n[1] \in Seq(Line) /\ Step(n[1], n[0], "serviceName")
  BY <1>1, <1>3, <1>3a, <1>3b
<1>5. n[2] \in Seq(Line) /\ Step(n[2], n[1], "beaconType")
  BY <1>3, <1>4, <1>3a, <1>3b
<1>6. n[3] \in Seq(Line) /\ Step(n[3], n[2], "size")
  BY <1>3, <1>5, <1>3a, <1>3b
<1>7. n[4] \in Seq(Line) /\ Step(n[4], n[3], "threshold")
  BY <1>3, <1>6, <1>3a, <1>3b
<1>8. n[5] \in Seq(Line) /\ Step(n[5], n[4], "discovery")
  BY <1>3, <1>7, <1>3a, <1>3b
<1>9. n[6] \in Seq(Line) /\ Step(n[6], n[5], "funding")
  BY <1>3, <1>8, <1>3a, <1>3b
<1>10. n[7] \in Seq(Line) /\ Step(n[7], n[6], "termsText")
  BY <1>3, <1>9, <1>3a, <1>3b
<1>11. \A s \in Settings :
          s = [serviceName |-> s.serviceName, beaconType |-> s.beaconType, size |-> s.size,
               threshold |-> s.threshold, discovery |-> s.discovery, funding |-> s.funding,
               termsText |-> s.termsText]
  BY DEF Settings
<1>12. before # after =>
          \/ before.serviceName # after.serviceName \/ before.beaconType # after.beaconType
          \/ before.size # after.size \/ before.threshold # after.threshold
          \/ before.discovery # after.discovery \/ before.funding # after.funding
          \/ before.termsText # after.termsText
  BY <1>11
<1>13. before # after => before[Last(n[7])] # after[Last(n[7])]
  BY <1>4, <1>5, <1>6, <1>7, <1>8, <1>9, <1>10, <1>12 DEF Step
<1> QED BY <1>1, <1>10, <1>13

-----------------------------------------------------------------------------
(* The steps *)

\* A slot written with a typed body keeps the bodies typed.
LEMMA SlotTyped ==
    ASSUME AuthTypes, BodiesTyped, NEW r \in Slot, NEW q, BodyTyped(q),
           request' = [request EXCEPT ![r] = q]
    PROVE  BodiesTyped'
<1>1. request'[r] = q /\ \A s \in Slot \ {r} : request'[s] = request[s]
  BY SlotWritten
<1>2. \A s \in Slot : BodyTyped(request'[s])
  BY <1>1 DEF BodiesTyped
<1> QED BY <1>2 DEF BodiesTyped, BodyTyped

\* An answered request leaves its slot idle.
LEMMA AnsweredTyped ==
    ASSUME AuthTypes, BodiesTyped, NEW r \in Slot, Answered(r)
    PROVE  BodiesTyped'
<1>1. BodyTyped(Idle)
  BY DEF BodyTyped, Idle
<1> QED BY <1>1, SlotTyped DEF Answered

\* The bodies in flight stay bodies the routes take.
LEMMA BodiesKept ==
    ASSUME AuthTypes, BodiesTyped, [Next]_vars
    PROVE  BodiesTyped'
<1>1. ASSUME request' = request PROVE BodiesTyped'
  BY <1>1 DEF BodiesTyped, BodyTyped
<1>2. ASSUME AuthNext PROVE BodiesTyped'
  <2>1. ASSUME NEW b \in Browser, NEW r \in Slot, LoginArrives(b, r) PROVE BodiesTyped'
    <3> DEFINE q == [kind |-> "login", browser |-> b, payload |-> None]
    <3>1. request' = request \/ request' = [request EXCEPT ![r] = q]
      BY <2>1 DEF LoginArrives
    <3>2. BodyTyped(q)
      BY DEF BodyTyped
    <3> HIDE DEF q
    <3> QED BY <1>1, <3>1, <3>2, SlotTyped
  <2>2. ASSUME NEW r \in Slot, LoginMalformed(r) \/ LoginFails(r) \/ LoginSucceeds(r)
        PROVE  BodiesTyped'
    BY <2>2, AnsweredTyped DEF LoginMalformed, LoginFails, LoginSucceeds
  <2>3. ASSUME NEW b \in Browser, Logout(b) \/ GatedRead(b) PROVE BodiesTyped'
    BY <1>1, <2>3 DEF Logout, GatedRead
  <2>4. CASE Tick
    BY <1>1, <2>4 DEF Tick
  <2> QED BY <1>2, <2>1, <2>2, <2>3, <2>4 DEF AuthNext
<1>3. ASSUME NEW b \in Browser, Controls(b) PROVE BodiesTyped'
  BY <1>1, <1>3 DEF Controls, Denied, GatedRead, Pause, Resume, DisableBroadcast, DiscardDraft,
     authVars
<1>4. ASSUME BodyRoutes PROVE BodiesTyped'
  <2>1. ASSUME NEW b \in Browser, NEW r \in Slot, NEW body \in Bodies, Arrives(b, r, body)
        PROVE  BodiesTyped'
    <3> DEFINE q == [kind |-> body.kind, browser |-> b, payload |-> body.payload]
    <3>1. request' = [request EXCEPT ![r] = q]
      BY <2>1 DEF Arrives
    <3>2. BodyTyped(q)
      BY DEF Bodies, BodyTyped
    <3> HIDE DEF q
    <3> QED BY <3>1, <3>2, SlotTyped
  <2>2. ASSUME NEW r \in Slot,
               PutSettings(r) \/ CreateDraft(r) \/ \E d \in 1 .. MaxDrafts : UpdateDraft(r, d)
        PROVE  BodiesTyped'
    BY <2>2, AnsweredTyped DEF PutSettings, CreateDraft, UpdateDraft, AnswerTo
  <2> QED BY <1>4, <2>1, <2>2 DEF BodyRoutes
<1>5. CASE Restart
  BY <1>5 DEF Restart, RestartAuth, BodiesTyped, BodyTyped, Idle
<1>6. CASE UNCHANGED vars
  BY <1>1, <1>6 DEF vars, authVars
<1> QED BY <1>2, <1>3, <1>4, <1>5, <1>6 DEF Next

\* A draft that is taken has a window the TTL allows, its own or the one it took.
LEMMA DraftEnforceable ==
    ASSUME Seedlike(boot), Held(settings, CeilingNow), boot.ttl # Unset, boot.ttl >= Minute,
           NEW input, input.discovery \in Raw, NEW auto,
           DraftAcceptable(input, auto, boot.ttl)
    PROVE  Enforceable(EffectiveDiscovery(DraftOf(input, settings)))
<1> DEFINE e == EffectiveDiscovery(DraftOf(input, settings))
<1>1. e = IF input.discovery # Unset THEN input.discovery ELSE settings.discovery
  BY DEF EffectiveDiscovery, DraftOf
<1>2. boot.ttl \in Int
  BY DEF Seedlike, Optional
<1>3. CASE input.discovery # Unset
  <2>1. input.discovery \in Int
    BY <1>3 DEF Raw, DraftAcceptable, ExplicitWindowOk, Positive
  <2>2. ~(input.discovery > boot.ttl)
    BY <1>3 DEF DraftAcceptable, Above
  <2> QED BY <1>1, <1>2, <1>3, <2>1, <2>2 DEF Enforceable
<1>4. CASE input.discovery = Unset
  <2>1. settings.discovery \in Optional(Nat)
    BY DEF Held, Settings
  <2>2. /\ CeilingNow \in Optional(Nat) /\ CeilingNow # Unset /\ CeilingNow <= boot.ttl
    BY CeilingFloored DEF CeilingNow
  <2>3. settings.discovery = Unset \/ ~(settings.discovery > CeilingNow)
    BY <2>2 DEF Held, Acceptable, Above
  <2>4. settings.discovery = Unset \/ settings.discovery <= boot.ttl
    BY <1>2, <2>1, <2>2, <2>3 DEF Optional
  <2> QED BY <1>1, <1>4, <2>4 DEF Enforceable
<1> QED BY <1>3, <1>4

\* Whoever saves, creates, edits or restarts, the settings and the drafts stay servable.
LEMMA NextSettingsInv == AuthTypes /\ SettingsInv /\ [Next]_vars => SettingsInv'
<1> SUFFICES ASSUME AuthTypes, SettingsInv, [Next]_vars PROVE SettingsInv'
  OBVIOUS
<1>1. BodiesTyped' /\ restarts' \in Nat
  <2>1. BodiesTyped'
    BY BodiesKept DEF SettingsInv
  <2>2. restarts' = restarts \/ restarts' = restarts + 1
    BY DEF Next, AuthNext, LoginArrives, LoginMalformed, LoginFails, LoginSucceeds, Logout,
       GatedRead, Tick, RestartAuth, Controls, Denied, Pause, Resume, DisableBroadcast,
       DiscardDraft, BodyRoutes, Arrives, PutSettings, CreateDraft, UpdateDraft, AnswerTo,
       Restart, vars, authVars
  <2> QED BY <2>1, <2>2 DEF SettingsInv
<1>2. boot' = boot
  BY DEF Next, surfaceVars, Controls, Denied, Pause, Resume, DisableBroadcast, DiscardDraft,
     BodyRoutes, Arrives, PutSettings, CreateDraft, UpdateDraft, Restart, vars
<1>3. (Seedlike(boot) /\ boot.broadcasts \in BOOLEAN)' /\ CeilingNow' = CeilingNow
  BY <1>2 DEF SettingsInv, CeilingNow
<1>4. /\ Seedlike(boot) /\ Held(settings, CeilingNow) /\ DraftWindowsEnforceable
      /\ BodiesTyped /\ log \in Seq(Line) /\ paused \in BOOLEAN
  BY DEF SettingsInv
<1>5. ASSUME settings' = settings PROVE Held(settings, CeilingNow)'
  BY <1>3, <1>4, <1>5 DEF Held, Acceptable
<1>6. ASSUME NEW S \in SUBSET DOMAIN drafts, DOMAIN drafts' = S,
             \A d \in S : drafts'[d] = drafts[d]
      PROVE  DraftWindowsEnforceable'
  BY <1>2, <1>4, <1>6 DEF DraftWindowsEnforceable, Enforceable, EffectiveDiscovery
<1>7. ASSUME drafts' = drafts PROVE DraftWindowsEnforceable'
  BY <1>2, <1>4, <1>7 DEF DraftWindowsEnforceable, Enforceable, EffectiveDiscovery
<1>8. \A text \in Line : Note(log, text) \in Seq(Line)
  BY <1>4, NotedLine
<1>9. "paused" \in Line /\ "resumed" \in Line /\ "disabled" \in Line
  BY DEF Line
<1>10. ASSUME UNCHANGED surfaceVars PROVE SettingsInv'
  <2>1. settings' = settings /\ drafts' = drafts /\ log' = log /\ paused' = paused
    BY <1>10 DEF surfaceVars
  <2> QED BY <1>1, <1>3, <1>4, <1>5, <1>7, <2>1 DEF SettingsInv
<1>11. ASSUME NEW b \in Browser, Controls(b) PROVE SettingsInv'
  <2>1. CASE Denied(b)
    BY <1>10, <2>1 DEF Denied
  <2>2. CASE Pause(b) \/ Resume(b) \/ DisableBroadcast(b)
    <3>1. settings' = settings /\ drafts' = drafts /\ paused' \in BOOLEAN
      BY <1>4, <2>2 DEF Pause, Resume, DisableBroadcast
    <3>2. log' \in {log, Note(log, "paused"), Note(log, "resumed"), Note(log, "disabled")}
      BY <2>2 DEF Pause, Resume, DisableBroadcast
    <3>3. log' \in Seq(Line)
      BY <1>4, <1>8, <1>9, <3>2
    <3> QED BY <1>1, <1>3, <1>5, <1>7, <3>1, <3>3 DEF SettingsInv
  <2>3. ASSUME NEW d \in DOMAIN drafts, DiscardDraft(b, d) PROVE SettingsInv'
    <3>1. settings' = settings /\ log' = log /\ paused' = paused
      BY <2>3 DEF DiscardDraft
    <3>2. DOMAIN drafts' = DOMAIN drafts \ {d}
          /\ \A e \in DOMAIN drafts \ {d} : drafts'[e] = drafts[e]
      BY <2>3 DEF DiscardDraft
    <3>3. DraftWindowsEnforceable'
      BY <1>6, <3>2
    <3> QED BY <1>1, <1>3, <1>4, <1>5, <3>1, <3>3 DEF SettingsInv
  <2> QED BY <1>11, <2>1, <2>2, <2>3 DEF Controls
<1>12. ASSUME NEW b \in Browser, NEW r \in Slot, NEW body \in Bodies, Arrives(b, r, body)
       PROVE  SettingsInv'
  BY <1>10, <1>12 DEF Arrives
<1>13. ASSUME NEW r \in Slot, PutSettings(r) PROVE SettingsInv'
  <2>1. request[r].payload \in Patch
    BY <1>4, <1>13 DEF PutSettings, BodiesTyped, BodyTyped
  <2>2. /\ settings' = Applied(settings, request[r].payload, CeilingNow)
        /\ log' = NoteChanges(log, settings, settings')
        /\ drafts' = drafts /\ paused' = paused
    BY <1>13 DEF PutSettings
  <2>3. Held(settings', CeilingNow)
    BY <1>4, <2>1, <2>2, AppliedHeld
  <2>4. settings \in Settings /\ settings' \in Settings
    BY <1>4, <2>3 DEF Held
  <2>5. log' \in Seq(Line)
    BY <1>4, <2>2, <2>4, ChangesNoted
  <2> QED BY <1>1, <1>3, <1>4, <1>7, <2>2, <2>3, <2>5 DEF SettingsInv
<1>14. ASSUME NEW r \in Slot, CreateDraft(r) PROVE SettingsInv'
  <2> DEFINE input == WithServiceDefaults(request[r].payload, settings)
             d == CHOOSE e \in 1 .. MaxDrafts : e \notin DOMAIN drafts
  <2>1. settings' = settings /\ log' = log /\ paused' = paused
    BY <1>14 DEF CreateDraft
  <2>2. request[r].payload \in Input
    BY <1>4, <1>14 DEF CreateDraft, BodiesTyped, BodyTyped
  <2>3. input.discovery \in Raw
    <3> DEFINE p == request[r].payload
    <3>1. "discovery" \in DOMAIN p /\ p.discovery \in Raw
      BY <2>2, ShapeAssumption DEF Shaped, NumberField
    <3>2. input.discovery = p.discovery
      BY <3>1 DEF WithServiceDefaults
    <3> QED BY <3>1, <3>2
  <2>4. \/ drafts' = drafts
        \/ /\ DraftAcceptable(input, boot.autoFallback, boot.ttl)
           /\ drafts' = [e \in DOMAIN drafts \cup {d} |->
                           IF e = d THEN DraftOf(input, settings) ELSE drafts[e]]
    BY <1>14 DEF CreateDraft
  <2>5. ASSUME DraftAcceptable(input, boot.autoFallback, boot.ttl),
               drafts' = [e \in DOMAIN drafts \cup {d} |->
                            IF e = d THEN DraftOf(input, settings) ELSE drafts[e]]
        PROVE  DraftWindowsEnforceable'
    <3> HIDE DEF input, d
    <3> SUFFICES ASSUME boot.ttl # Unset, boot.ttl >= Minute, NEW e \in DOMAIN drafts'
                 PROVE  Enforceable(EffectiveDiscovery(drafts'[e]))
      BY <1>2 DEF DraftWindowsEnforceable, Enforceable, EffectiveDiscovery
    <3>1. drafts'[e] = DraftOf(input, settings) \/ (e \in DOMAIN drafts /\ drafts'[e] = drafts[e])
      BY <2>5
    <3> QED BY <1>4, <2>3, <2>5, <3>1, DraftEnforceable DEF DraftWindowsEnforceable
  <2>6. DraftWindowsEnforceable'
    BY <1>7, <2>4, <2>5
  <2> QED BY <1>1, <1>3, <1>4, <1>5, <2>1, <2>6 DEF SettingsInv
<1>15. ASSUME NEW r \in Slot, NEW d \in 1 .. MaxDrafts, UpdateDraft(r, d) PROVE SettingsInv'
  <2> DEFINE input == request[r].payload
  <2>1. settings' = settings /\ log' = log /\ paused' = paused
    BY <1>15 DEF UpdateDraft
  <2>2. input \in Input
    BY <1>4, <1>15 DEF UpdateDraft, BodiesTyped, BodyTyped
  <2>3. input.discovery \in Raw
    BY <2>2, ShapeAssumption DEF Shaped, NumberField
  <2>4. \/ drafts' = drafts
        \/ /\ DraftAcceptable(input, boot.autoFallback, boot.ttl)
           /\ drafts' = [drafts EXCEPT ![d] = DraftOf(input, settings)]
    BY <1>15 DEF UpdateDraft
  <2>5. ASSUME DraftAcceptable(input, boot.autoFallback, boot.ttl),
               drafts' = [drafts EXCEPT ![d] = DraftOf(input, settings)]
        PROVE  DraftWindowsEnforceable'
    <3> HIDE DEF input
    <3> SUFFICES ASSUME boot.ttl # Unset, boot.ttl >= Minute, NEW e \in DOMAIN drafts'
                 PROVE  Enforceable(EffectiveDiscovery(drafts'[e]))
      BY <1>2 DEF DraftWindowsEnforceable, Enforceable, EffectiveDiscovery
    <3>1. drafts'[e] = DraftOf(input, settings) \/ (e \in DOMAIN drafts /\ drafts'[e] = drafts[e])
      BY <2>5
    <3> QED BY <1>4, <2>3, <2>5, <3>1, DraftEnforceable DEF DraftWindowsEnforceable
  <2>6. DraftWindowsEnforceable'
    BY <1>7, <2>4, <2>5
  <2> QED BY <1>1, <1>3, <1>4, <1>5, <2>1, <2>6 DEF SettingsInv
<1>16. CASE Restart
  <2>1. settings' = Seeded(boot) /\ paused' = FALSE /\ log' = <<>> /\ DOMAIN drafts' = {}
    BY <1>16 DEF Restart
  <2>2. Held(settings', CeilingNow)
    BY <1>4, <2>1, SeededHeld DEF CeilingNow
  <2>3. DraftWindowsEnforceable'
    BY <2>1 DEF DraftWindowsEnforceable
  <2>4. <<>> \in Seq(Line)
    OBVIOUS
  <2> QED BY <1>1, <1>3, <2>1, <2>2, <2>3, <2>4 DEF SettingsInv
<1>17. CASE UNCHANGED vars
  BY <1>10, <1>17 DEF vars
<1> QED BY <1>10, <1>11, <1>12, <1>13, <1>14, <1>15, <1>16, <1>17 DEF Next, BodyRoutes

\* Along every behaviour the holder keeps settings it would take again.
THEOREM SettingsInvariant == Spec => [](AuthInv /\ SettingsInv)
<1>1. Init => AuthInv /\ SettingsInv
  BY InitAuthInv, InitSettingsInv
<1>2. AuthInv /\ SettingsInv /\ [Next]_vars => (AuthInv /\ SettingsInv)'
  BY NextAuthInv, NextSettingsInv DEF AuthInv
<1> QED BY <1>1, <1>2, PTL DEF Spec

\* Whatever seeds, saves and restarts they came through, the settings can be saved
\* again as they are, make a cohort, and give no draft a window the TTL overrules.
THEOREM SettingsAlwaysServable == Spec => []SettingsServable
<1>1. SettingsInv => SettingsServable
  <2> SUFFICES ASSUME SettingsInv PROVE SettingsServable
    OBVIOUS
  <2>1. Held(settings, CeilingNow) /\ boot.broadcasts \in BOOLEAN
    BY DEF SettingsInv
  <2> DEFINE form == UntouchedForm(settings, boot.broadcasts)
  <2>2. FormValid(form) /\ Overlay(settings, form) = settings
    BY <2>1, HeldSaves
  <2>3. UntouchedSave
    BY <2>1, <2>2 DEF UntouchedSave, Applied, Held
  <2>4. DefaultsCreate
    BY <2>1, HeldCreates DEF DefaultsCreate
  <2> QED BY <2>3, <2>4 DEF SettingsInv, SettingsServable
<1> QED BY <1>1, SettingsInvariant, PTL

\* A save is taken whole and told, a pause or a resume is told, and nothing else
\* touches the settings or the pause while the process lives.
THEOREM PatchesWholeAndLogged == Spec => WholePatchesLogged
<1> DEFINE Whole == restarts' = restarts =>
          /\ settings' # settings =>
                /\ \E r \in Slot : /\ request[r].kind = "settings"
                                  /\ settings' = Overlay(settings, request[r].payload)
                /\ settings'[Last(log')] # settings[Last(log')]
          /\ paused' # paused => Last(log') = IF paused' THEN "paused" ELSE "resumed"
<1>1. AuthInv /\ SettingsInv /\ [Next]_vars => [Whole]_vars
  <2> SUFFICES ASSUME AuthInv, SettingsInv, [Next]_vars, restarts' = restarts PROVE Whole
    OBVIOUS
  <2>1. /\ Held(settings, CeilingNow) /\ BodiesTyped
        /\ log \in Seq(Line) /\ paused \in BOOLEAN /\ AuthTypes /\ restarts \in Nat
    BY DEF SettingsInv, AuthInv
  <2>2. ASSUME settings' = settings, paused' = paused PROVE Whole
    BY <2>2
  <2>3. ASSUME UNCHANGED surfaceVars PROVE Whole
    BY <2>2, <2>3 DEF surfaceVars
  <2>4. ASSUME NEW b \in Browser, Controls(b) PROVE Whole
    <3>1. CASE Denied(b)
      BY <2>3, <3>1 DEF Denied
    <3>2. CASE Pause(b) \/ Resume(b)
      <4>1. "paused" \in Line /\ "resumed" \in Line
        BY DEF Line
      <4>2. Last(Note(log, "paused")) = "paused" /\ Last(Note(log, "resumed")) = "resumed"
        BY <2>1, <4>1, NotedLine
      <4>3. settings' = settings
        BY <3>2 DEF Pause, Resume
      <4>4. paused' # paused => Last(log') = IF paused' THEN "paused" ELSE "resumed"
        BY <2>1, <3>2, <4>2 DEF Pause, Resume, Last
      <4> QED BY <4>3, <4>4
    <3>3. CASE DisableBroadcast(b)
      BY <2>2, <3>3 DEF DisableBroadcast
    <3>4. ASSUME NEW d \in DOMAIN drafts, DiscardDraft(b, d) PROVE Whole
      BY <2>2, <3>4 DEF DiscardDraft
    <3> QED BY <2>4, <3>1, <3>2, <3>3, <3>4 DEF Controls
  <2>5. ASSUME BodyRoutes PROVE Whole
    <3>1. ASSUME NEW b \in Browser, NEW r \in Slot, NEW body \in Bodies, Arrives(b, r, body)
          PROVE  Whole
      BY <2>3, <3>1 DEF Arrives
    <3>2. ASSUME NEW r \in Slot, PutSettings(r) PROVE Whole
      <4>1. /\ request[r].kind = "settings" /\ paused' = paused
            /\ settings' = Applied(settings, request[r].payload, CeilingNow)
            /\ log' = NoteChanges(log, settings, settings')
        BY <3>2 DEF PutSettings
      <4>2. request[r].payload \in Patch
        BY <2>1, <4>1 DEF BodiesTyped, BodyTyped
      <4>3. settings \in Settings /\ settings' \in Settings
        BY <2>1, <4>1, <4>2, AppliedHeld DEF Held
      <4>4. settings' # settings => settings'[Last(log')] # settings[Last(log')]
        BY <2>1, <4>1, <4>3, ChangesNoted
      <4>5. settings' # settings => settings' = Overlay(settings, request[r].payload)
        BY <4>1 DEF Applied
      <4> QED BY <4>1, <4>4, <4>5
    <3>3. ASSUME NEW r \in Slot, CreateDraft(r) PROVE Whole
      BY <2>2, <3>3 DEF CreateDraft
    <3>4. ASSUME NEW r \in Slot, NEW d \in 1 .. MaxDrafts, UpdateDraft(r, d) PROVE Whole
      BY <2>2, <3>4 DEF UpdateDraft
    <3> QED BY <2>5, <3>1, <3>2, <3>3, <3>4 DEF BodyRoutes
  <2>6. CASE Restart
    <3>1. restarts' = restarts + 1
      BY <2>6 DEF Restart, RestartAuth
    <3> QED BY <2>1, <3>1
  <2>7. CASE UNCHANGED vars
    BY <2>3, <2>7 DEF vars
  <2> QED BY <2>3, <2>4, <2>5, <2>6, <2>7 DEF Next
<1>2. WholePatchesLogged <=> [][Whole]_vars
  BY DEF WholePatchesLogged
<1> QED BY <1>1, <1>2, SettingsInvariant, PTL DEF Spec

-----------------------------------------------------------------------------
(* The operator's sessions, seen from the browser *)

\* What the client can make of an answer.
AnswersOf(verb) ==
    IF verb = "probe" THEN {"unreachable", "logged-in", "logged-out", "disabled"}
    ELSE IF verb = "login" THEN {"ok", "disabled", "failed"}
    ELSE {"ok", "unauthorized", "failed"}
Verbs == GatedVerbs \cup {"probe", "login"}

\* Values the store, a request and the counters may have.
SliceFields(s) ==
    /\ s = [listed |-> s.listed, settings |-> s.settings, editing |-> s.editing, busy |-> s.busy,
            errors |-> s.errors, view |-> s.view, detail |-> s.detail]
    /\ s.busy = [m \in Markers |-> s.busy[m]]

IsRequest(r) ==
    /\ r = [verb |-> r.verb, cohort |-> r.cohort, asked |-> r.asked, cookie |-> r.cookie,
            answer |-> r.answer, opens |-> r.opens, since |-> r.since]
    /\ r.verb \in Verbs /\ r.answer \in AnswersOf(r.verb) \cup {Nil}
    /\ r.asked \in Nat \cup {Nil} /\ r.since \in Nat \cup {Nil}
    /\ r.cookie \in Nat \cup {Nil}

StoreTypes ==
    /\ auth \in {"checking", "logged-out", "logging-in", "logged-in", "disabled"}
    /\ sessionRound \in Nat /\ liveSessionRound \in {Nil, sessionRound}
    /\ SliceFields(slice)
    /\ flight = [q \in Flight |-> flight[q]]
    /\ \A q \in Flight : flight[q] = Landed \/ IsRequest(flight[q])
    /\ good \subseteq Nat /\ jar \in Nat \cup {Nil}
    /\ used = [acts |-> used.acts, logins |-> used.logins, probes |-> used.probes]
    /\ used.acts \in Nat /\ used.logins \in Nat /\ used.probes \in Nat
    /\ hasPassword \in BOOLEAN /\ crossed \in BOOLEAN

\* A signed-in console has a live session, whose id the browser sends; without one,
\* and without a crossed sign-in, the slice is as it was reset.
LiveInv ==
    /\ auth = "logged-in" => liveSessionRound # Nil
    /\ liveSessionRound # Nil => jar = holder
    /\ ~crossed /\ liveSessionRound = Nil => slice = Reset /\ writers = {}
    /\ ~crossed => writers \subseteq {holder}

\* A request of the current round was asked by the session that holds it, and a
\* probe of it was sent with the cookie the browser still has.
RoundOf(r) ==
    /\ r.asked # Nil => r.asked <= sessionRound
    /\ r.since # Nil => r.since <= sessionRound
    /\ r.verb \in GatedVerbs /\ r.asked = sessionRound =>
          /\ r.cookie = holder
          /\ ~crossed => liveSessionRound # Nil
    /\ r.verb \in GatedVerbs /\ r.since = sessionRound /\ ~crossed =>
          r.cookie = holder /\ liveSessionRound # Nil
    /\ r.verb = "probe" => r.asked # Nil /\ (r.asked = sessionRound => r.cookie = jar)

RoundInv == \A q \in Flight : flight[q] # Landed => RoundOf(flight[q])

\* Behind each spinner there is the request that will end it.
SpinnerInv ==
    /\ crossed \/ \A m \in Markers : slice.busy[m] # Nil =>
          \E q \in Flight : /\ flight[q].verb \in VerbOf(m)
                            /\ flight[q].cohort = slice.busy[m]
                            /\ flight[q].asked = sessionRound
    /\ auth = "checking" /\ used.probes > 0 =>
          \E q \in Flight : flight[q].verb = "probe" /\ flight[q].asked = sessionRound
    /\ auth = "logging-in" => \E q \in Flight : flight[q].verb = "login"

\* The id of a session that is being asked for is nobody's yet, and a request the
\* service refused was sent with an id it no longer honours.
IdInv ==
    /\ \A id \in good : id <= used.logins
    /\ jar # Nil => jar <= used.logins
    /\ \A q \in Flight : flight[q] # Landed /\ flight[q].cookie # Nil => flight[q].cookie <= used.logins
    /\ \A q \in Flight : flight[q].verb = "login" => flight[q].cookie # Nil
    /\ \A q \in Flight : flight[q].verb = "login" /\ flight[q].answer = Nil =>
          /\ flight[q].cookie \notin good /\ jar # flight[q].cookie
          /\ \A p \in Flight \ {q} : flight[p] # Landed => flight[p].cookie # flight[q].cookie
    /\ \A q \in Flight : flight[q].verb \in GatedVerbs /\ flight[q].answer = "unauthorized" =>
          flight[q].cookie \notin good

ConsoleInv ==
    StoreTypes /\ LiveInv /\ RoundInv /\ SpinnerInv /\ IdInv /\ DetailIsOfTheOpenCohort

-----------------------------------------------------------------------------

\* The service refuses with a 401 only a request whose session it does not honour.
LEMMA OutcomesAre ==
    ASSUME NEW r, r.verb \in GatedVerbs, hasPassword \in BOOLEAN
    PROVE  /\ Outcomes(r) \subseteq {"ok", "unauthorized", "failed"}
           /\ "unauthorized" \in Outcomes(r) => r.cookie \notin good
<1>1. Honoured(r) \in BOOLEAN
  BY DEF Honoured
<1>2. PICK admitted \in BOOLEAN : admitted = Honoured(r)
  BY <1>1
<1>3. Outcomes(r) = {"failed"} \cup {ClientReads(ResultOf(r.verb, s, whole)) :
                        s \in Statuses(r.verb, hasPassword, admitted), whole \in BOOLEAN}
  BY <1>2 DEF Outcomes, OutcomeTable
<1>4. \A x : ClientReads(x) \in {"ok", "unauthorized", "failed"}
             /\ (ClientReads(x) = "unauthorized" => x = "unauthorized")
  BY DEF ClientReads
<1>5. ASSUME NEW s, NEW whole \in BOOLEAN, ResultOf(r.verb, s, whole) = "unauthorized"
      PROVE  s = 401
  BY <1>5 DEF ResultOf, GatedVerbs, CreateDraftResult, UpdateDraftResult, SaveSettingsResult, Fetched,
     FetchSettings, FetchCohortDetail, FetchOperatorCohorts, DownloadExport, AdvertisingToggled,
     BroadcastDisabled, DiscardResult, CancelResult, DismissResult, FinalizeResult,
     AddTestPeersResult, Declined, AdvertiseResult, ReadvertiseResult
<1>6. 401 \notin RouteOf(r.verb)
  BY DEF RouteOf, GatedVerbs, CreateRoute, ListRoute, EditRoute, DiscardRoute, AdvertiseRoute,
     ReadvertiseRoute, CancelRoute, FinalizeRoute, DetailRoute, ExportRoute, DismissRoute,
     TestPeersRoute, ToggleRoute, BroadcastRoute, LoadRoute, SaveRoute, LogoutRoute
<1>7. admitted => 401 \notin Statuses(r.verb, hasPassword, admitted)
  BY <1>6 DEF Statuses, OriginRefused, Broken
<1>8. "unauthorized" \in Outcomes(r) => ~admitted
  BY <1>3, <1>4, <1>5, <1>7
<1>9. Outcomes(r) \subseteq {"ok", "unauthorized", "failed"}
  BY <1>3, <1>4
<1> QED
  BY <1>2, <1>8, <1>9 DEF Honoured

\* A slice that has its fields and shows no other cohort's document.
SliceOk(s) ==
    /\ SliceFields(s)
    /\ s.view.kind = "detail" /\ s.detail # Nil => s.detail = s.view.cohort

\* The reset slice shows nothing and no marker is up.
LEMMA ResetIsOk == SliceOk(Reset) /\ \A m \in Markers : Reset.busy[m] = Nil
<1>1. Reset.view.kind = "list"
  BY DEF Reset, ListView
<1>2. SliceFields(Reset)
  BY DEF Reset, SliceFields
<1> QED
  BY <1>1, <1>2 DEF SliceOk, Reset

\* The verbs that light a marker are gated verbs.
LEMMA VerbsOf ==
    ASSUME NEW m \in Markers
    PROVE  VerbOf(m) \subseteq GatedVerbs /\ Nil \notin VerbOf(m)
BY NilAssumption DEF VerbOf, Markers, GatedVerbs

\* A slot takes a new request, or is free again; the others are as they were.
LEMMA SlotPut ==
    ASSUME StoreTypes, NEW q \in Flight, NEW n, n = Landed \/ IsRequest(n),
           flight' = [flight EXCEPT ![q] = n]
    PROVE  /\ flight' = [p \in Flight |-> flight'[p]]
           /\ flight'[q] = n /\ \A p \in Flight \ {q} : flight'[p] = flight[p]
           /\ \A p \in Flight : flight'[p] = Landed \/ IsRequest(flight'[p])
  BY DEF StoreTypes

\* A free slot has no verb.
LEMMA LandedIs ==
    /\ Landed.verb = Nil /\ Nil \notin Verbs /\ Nil \notin GatedVerbs
    /\ \A r : IsRequest(r) => r # Landed
<1>1. Landed.verb = Nil /\ Nil \notin Verbs /\ Nil \notin GatedVerbs
  BY NilAssumption DEF Landed, Verbs
<1> QED
  BY <1>1 DEF IsRequest

\* A gated request leaves with its own marker up, and no other.
LEMMA AskKeeps ==
    ASSUME ConsoleInv, NEW q \in Flight, NEW verb \in GatedVerbs, NEW c, NEW marked,
           Ask(q, verb, c, marked), SliceOk(marked),
           \A m \in Markers : \/ marked.busy[m] \in {slice.busy[m], Nil}
                              \/ verb \in VerbOf(m) /\ marked.busy[m] = c
    PROVE  ConsoleInv'
<1> USE DEF ConsoleInv
<1> DEFINE n == Request(verb, c, AskingRound)
<1>1. /\ auth = "logged-in" /\ flight[q] = Landed /\ slice' = marked
      /\ flight' = [flight EXCEPT ![q] = n]
      /\ UNCHANGED <<auth, sessionRound, liveSessionRound, jar, good, hasPassword, holder, writers,
                     crossed>>
      /\ used' = [used EXCEPT !["acts"] = @ + 1]
  BY DEF Ask, Count, service, history
<1>2. liveSessionRound # Nil /\ jar = holder /\ sessionRound \in Nat /\ jar \in Nat \cup {Nil}
      /\ Nil \notin Nat
  BY <1>1, ConsoleAssumption DEF LiveInv, StoreTypes
<1>3. /\ n.verb = verb /\ n.cohort = c /\ n.asked = sessionRound /\ n.cookie = jar
      /\ n.answer = Nil /\ n.since = Nil /\ IsRequest(n)
  BY <1>1, <1>2 DEF Request, AskingRound, IsRequest, Verbs
<1> HIDE DEF n
<1>4. /\ flight' = [p \in Flight |-> flight'[p]]
      /\ flight'[q] = n /\ \A p \in Flight \ {q} : flight'[p] = flight[p]
      /\ \A p \in Flight : flight'[p] = Landed \/ IsRequest(flight'[p])
  BY <1>1, <1>3, SlotPut
<1>5. /\ used'.logins = used.logins /\ used'.probes = used.probes /\ used'.acts = used.acts + 1
      /\ used' = [acts |-> used'.acts, logins |-> used'.logins, probes |-> used'.probes]
  BY <1>1 DEF StoreTypes
<1>6. StoreTypes'
  BY <1>1, <1>4, <1>5 DEF StoreTypes, SliceOk, SliceFields
<1>7. LiveInv'
  BY <1>1, <1>2 DEF LiveInv
<1>8. RoundInv'
  <2>1. \A r : r = n => RoundOf(r)'
    BY <1>1, <1>2, <1>3, NilAssumption DEF RoundOf, GatedVerbs
  <2>2. ASSUME NEW p \in Flight, flight'[p] # Landed
        PROVE  RoundOf(flight[p])'
    <3>1. CASE p = q
      BY <1>4, <2>1, <3>1 DEF RoundOf
    <3>2. CASE p # q
      <4>1. flight'[p] = flight[p] /\ RoundOf(flight[p])
        BY <1>4, <2>2, <3>2 DEF RoundInv
      <4> QED
        BY <1>1, <4>1 DEF RoundOf
    <3> QED
      BY <3>1, <3>2
  <2> QED
    BY <2>2 DEF RoundInv
<1>9. SpinnerInv'
  <2>1. ASSUME NEW m \in Markers, ~crossed, slice'.busy[m] # Nil
        PROVE  \E p \in Flight : /\ flight'[p].verb \in VerbOf(m)
                                 /\ flight'[p].cohort = slice'.busy[m]
                                 /\ flight'[p].asked = sessionRound
    <3>1. CASE verb \in VerbOf(m) /\ marked.busy[m] = c
      BY <1>1, <1>3, <1>4, <3>1
    <3>2. CASE marked.busy[m] = slice.busy[m]
      <4>1. PICK p \in Flight : /\ flight[p].verb \in VerbOf(m)
                                /\ flight[p].cohort = slice.busy[m]
                                /\ flight[p].asked = sessionRound
        BY <1>1, <2>1, <3>2 DEF SpinnerInv
      <4>2. p # q
        BY <1>1, <4>1, VerbsOf, LandedIs
      <4> QED
        BY <1>1, <1>4, <3>2, <4>1, <4>2
    <3> QED
      BY <1>1, <2>1, <3>1, <3>2
  <2> QED
    BY <1>1, <2>1 DEF SpinnerInv
<1>10. IdInv'
  <2>1. n.verb # "login" /\ n.answer # "unauthorized" /\ n.cookie = jar /\ n # Landed
    BY <1>3, LandedIs, NilAssumption DEF GatedVerbs
  <2>2. \A p \in Flight : p = q \/ flight'[p] = flight[p]
    BY <1>4
  <2> QED
    BY <1>1, <1>4, <1>5, <2>1, <2>2 DEF IdInv
<1>11. DetailIsOfTheOpenCohort'
  BY <1>1 DEF SliceOk, DetailIsOfTheOpenCohort
<1> QED
  BY <1>6, <1>7, <1>8, <1>9, <1>10, <1>11

\* What an answered verb asks next: a gated read, sent with the browser's cookie.
FollowsOn(n) ==
    /\ IsRequest(n) /\ n.verb \in GatedVerbs /\ n.cookie = jar /\ n.answer = Nil
    /\ n.asked \in {Nil, sessionRound} /\ n.since \in {Nil, sessionRound}
    /\ n.asked = sessionRound => auth = "logged-in"

\* A gated answer that ends no session: it writes nothing, or it writes for its own.
LEMMA LandingKeeps ==
    ASSUME ConsoleInv, NEW q \in Flight, NEW n, flight[q].verb \in GatedVerbs,
           n = Landed \/ FollowsOn(n),
           flight' = [flight EXCEPT ![q] = n],
           UNCHANGED <<auth, sessionRound, liveSessionRound, holder, crossed, jar, good,
                       hasPassword, used>>,
           SliceOk(slice'),
           \A m \in Markers :
              /\ slice'.busy[m] \in {slice.busy[m], Nil}
              /\ flight[q].verb \in VerbOf(m) /\ flight[q].asked = sessionRound
                    => slice'.busy[m] = Nil,
           \/ slice' = slice /\ writers' = writers /\ n = Landed
           \/ /\ writers' = writers \cup {flight[q].cookie}
              /\ flight[q].asked = sessionRound \/ flight[q].since = sessionRound
    PROVE  ConsoleInv'
<1> USE DEF ConsoleInv
<1>1. /\ flight[q] # Landed /\ IsRequest(flight[q]) /\ RoundOf(flight[q])
      /\ sessionRound \in Nat /\ Nil \notin Nat
  BY LandedIs, ConsoleAssumption DEF StoreTypes, RoundInv
<1>2. n = Landed \/ IsRequest(n)
  BY DEF FollowsOn
<1>3. /\ flight' = [p \in Flight |-> flight'[p]]
      /\ flight'[q] = n /\ \A p \in Flight \ {q} : flight'[p] = flight[p]
      /\ \A p \in Flight : flight'[p] = Landed \/ IsRequest(flight'[p])
  BY <1>2, SlotPut
<1>4. /\ n # Landed /\ ~crossed => liveSessionRound # Nil /\ jar = holder
      /\ n # Landed => n.verb \in GatedVerbs
      /\ ~crossed => writers' \subseteq {holder}
      /\ ~crossed /\ liveSessionRound = Nil => slice' = slice /\ writers' = writers
      /\ n.verb # "login"
  BY <1>1, LandedIs, NilAssumption DEF LiveInv, RoundOf, FollowsOn, GatedVerbs
<1>5. StoreTypes'
  BY <1>3 DEF StoreTypes, SliceOk, SliceFields
<1>6. LiveInv'
  BY <1>1, <1>4 DEF LiveInv
<1>7. RoundInv'
  <2>1. \A r : r = n /\ n # Landed => RoundOf(r)'
    BY <1>1, <1>4, NilAssumption DEF RoundOf, FollowsOn, GatedVerbs, LiveInv
  <2>2. ASSUME NEW p \in Flight, flight'[p] # Landed
        PROVE  RoundOf(flight[p])'
    <3>1. CASE p = q
      BY <1>3, <2>1, <2>2, <3>1 DEF RoundOf
    <3>2. CASE p # q
      <4>1. flight'[p] = flight[p] /\ RoundOf(flight[p])
        BY <1>3, <2>2, <3>2 DEF RoundInv
      <4> QED
        BY <4>1 DEF RoundOf
    <3> QED
      BY <3>1, <3>2
  <2> QED
    BY <2>2 DEF RoundInv
<1>8. SpinnerInv'
  <2>1. ASSUME NEW m \in Markers, ~crossed, slice'.busy[m] # Nil
        PROVE  \E p \in Flight : /\ flight'[p].verb \in VerbOf(m)
                                 /\ flight'[p].cohort = slice'.busy[m]
                                 /\ flight'[p].asked = sessionRound
    <3>1. PICK p \in Flight : /\ flight[p].verb \in VerbOf(m)
                              /\ flight[p].cohort = slice.busy[m]
                              /\ flight[p].asked = sessionRound
      BY <2>1 DEF SpinnerInv
    <3>2. p # q /\ slice'.busy[m] = slice.busy[m]
      BY <2>1, <3>1
    <3> QED
      BY <1>3, <3>1, <3>2
  <2>2. flight[q].verb # "probe" /\ flight[q].verb # "login"
    BY DEF GatedVerbs
  <2>3. auth = "checking" /\ used.probes > 0 =>
          \E p \in Flight : flight'[p].verb = "probe" /\ flight'[p].asked = sessionRound
    BY <1>3, <2>2 DEF SpinnerInv
  <2>4. auth = "logging-in" => \E p \in Flight : flight'[p].verb = "login"
    BY <1>3, <2>2 DEF SpinnerInv
  <2> QED
    BY <2>1, <2>3, <2>4 DEF SpinnerInv
<1>9. IdInv'
  <2>1. n # Landed => n.answer # "unauthorized" /\ n.cookie = jar /\ n.verb # "login"
    BY <1>4, NilAssumption DEF FollowsOn
  <2>2. \A p \in Flight : p = q \/ flight'[p] = flight[p]
    BY <1>3
  <2>3. Landed.verb # "login" /\ Landed.verb \notin GatedVerbs
    BY LandedIs, NilAssumption
  <2> QED
    BY <1>1, <1>3, <2>1, <2>2, <2>3 DEF IdInv
<1>10. DetailIsOfTheOpenCohort'
  BY DEF SliceOk, DetailIsOfTheOpenCohort
<1> QED
  BY <1>5, <1>6, <1>7, <1>8, <1>9, <1>10

\* A session that ends takes its slice with it, and every request in flight is of
\* an earlier round.
LEMMA ExpireKeeps ==
    ASSUME ConsoleInv, NEW q \in Flight, NEW status \in {"logged-out", "disabled"},
           flight[q] # Landed, Expire(status), Done(q), jar' \in {jar, Nil},
           UNCHANGED <<good, hasPassword, used>>
    PROVE  ConsoleInv'
<1> USE DEF ConsoleInv
<1>1. /\ slice' = Reset /\ auth' = status /\ sessionRound' = sessionRound + 1
      /\ liveSessionRound' = Nil /\ holder' = Nil /\ writers' = {} /\ crossed' = crossed
      /\ sessionRound \in Nat /\ Nil \notin Nat /\ jar' \in Nat \cup {Nil}
  BY ConsoleAssumption DEF Expire, StoreTypes
<1>2. SliceOk(Reset) /\ \A m \in Markers : Reset.busy[m] = Nil
  BY ResetIsOk
<1>3. flight' = [flight EXCEPT ![q] = Landed]
  BY DEF Done
<1>4. /\ flight' = [p \in Flight |-> flight'[p]]
      /\ flight'[q] = Landed /\ \A p \in Flight \ {q} : flight'[p] = flight[p]
      /\ \A p \in Flight : flight'[p] = Landed \/ IsRequest(flight'[p])
  BY <1>3, SlotPut
<1>5. StoreTypes'
  BY <1>1, <1>2, <1>4 DEF StoreTypes, SliceOk, SliceFields
<1>6. LiveInv'
  BY <1>1 DEF LiveInv
<1>7. RoundInv'
  <2>1. ASSUME NEW p \in Flight, flight'[p] # Landed
        PROVE  RoundOf(flight[p])'
    <3>1. flight'[p] = flight[p] /\ RoundOf(flight[p]) /\ IsRequest(flight[p])
      BY <1>4, <2>1 DEF RoundInv
    <3>2. /\ flight[p].asked \in Nat \cup {Nil} /\ flight[p].since \in Nat \cup {Nil}
          /\ flight[p].asked # Nil => flight[p].asked <= sessionRound
          /\ flight[p].since # Nil => flight[p].since <= sessionRound
      BY <3>1 DEF RoundOf, IsRequest
    <3>3. flight[p].asked # sessionRound' /\ flight[p].since # sessionRound'
      BY <1>1, <3>2
    <3> QED
      BY <1>1, <3>1, <3>2, <3>3 DEF RoundOf
  <2> QED
    BY <2>1 DEF RoundInv
<1>8. SpinnerInv'
  BY <1>1, <1>2 DEF SpinnerInv
<1>9. IdInv'
  <2>1. \A p \in Flight : p = q \/ flight'[p] = flight[p]
    BY <1>4
  <2>2. Landed.verb # "login" /\ Landed.verb \notin GatedVerbs
    BY LandedIs, NilAssumption
  <2>3. \A p \in Flight : flight[p].verb = "login" => flight[p].cookie # Nil
    BY DEF IdInv
  <2> QED
    BY <1>1, <1>4, <2>1, <2>2, <2>3 DEF IdInv
<1>10. DetailIsOfTheOpenCohort'
  BY <1>1, <1>2 DEF SliceOk, DetailIsOfTheOpenCohort
<1> QED
  BY <1>5, <1>6, <1>7, <1>8, <1>9, <1>10

\* A click writes the slice and nothing else; a finer one may count.
LEMMA ClickKeeps ==
    ASSUME ConsoleInv, auth = "logged-in", SliceOk(slice'),
           \A m \in Markers : slice'.busy[m] \in {slice.busy[m], Nil},
           UNCHANGED <<auth, sessionRound, liveSessionRound, flight, jar, good, hasPassword, holder,
                       writers, crossed>>,
           used' = used \/ used' = [used EXCEPT !["acts"] = @ + 1]
    PROVE  ConsoleInv'
<1> USE DEF ConsoleInv
<1>1. /\ used'.logins = used.logins /\ used'.probes = used.probes /\ used'.acts \in Nat
      /\ used' = [acts |-> used'.acts, logins |-> used'.logins, probes |-> used'.probes]
  BY DEF StoreTypes
<1>2. StoreTypes'
  BY <1>1 DEF StoreTypes, SliceOk, SliceFields
<1>3. LiveInv'
  BY DEF LiveInv
<1>4. RoundInv'
  BY DEF RoundInv, RoundOf
<1>5. SpinnerInv'
  BY <1>1 DEF SpinnerInv
<1>6. IdInv'
  BY <1>1 DEF IdInv
<1>7. DetailIsOfTheOpenCohort'
  BY DEF SliceOk, DetailIsOfTheOpenCohort
<1> QED
  BY <1>2, <1>3, <1>4, <1>5, <1>6, <1>7

\* Sessions end at the service, one or all of them: the console learns of it later.
LEMMA ServiceForgets ==
    ASSUME ConsoleInv, good' \subseteq good, hasPassword' \in BOOLEAN,
           UNCHANGED <<store, flight, jar, history, used>>
    PROVE  ConsoleInv'
<1> USE DEF ConsoleInv, store, history
<1>1. StoreTypes'
  BY DEF StoreTypes, SliceFields
<1>2. LiveInv' /\ SpinnerInv' /\ DetailIsOfTheOpenCohort'
  BY DEF LiveInv, SpinnerInv, DetailIsOfTheOpenCohort
<1>3. RoundInv'
  BY DEF RoundInv, RoundOf
<1>4. IdInv'
  BY DEF IdInv
<1> QED
  BY <1>1, <1>2, <1>3, <1>4

\* What the service can answer is what the client can read; a 401 is for an id it
\* does not honour.
LEMMA AnswersAre ==
    ASSUME NEW r, IsRequest(r), hasPassword \in BOOLEAN
    PROVE  /\ OutcomesOf(r) \subseteq AnswersOf(r.verb)
           /\ r.verb \in GatedVerbs /\ "unauthorized" \in OutcomesOf(r) => r.cookie \notin good
<1>1. CASE r.verb = "login"
  <2>1. LoginOutcomes \subseteq AnswersOf(r.verb)
    BY <1>1 DEF LoginOutcomes, LoginResult, AnswersOf
  <2> QED
    BY <1>1, <2>1 DEF OutcomesOf, GatedVerbs
<1>2. CASE r.verb = "probe"
  <2>1. ProbeOutcomes(r) \subseteq AnswersOf(r.verb)
    BY <1>2 DEF ProbeOutcomes, SessionProbe, AnswersOf
  <2> QED
    BY <1>2, <2>1 DEF OutcomesOf, GatedVerbs
<1>3. CASE r.verb \in GatedVerbs
  <2>1. OutcomesOf(r) = Outcomes(r)
    BY <1>3 DEF OutcomesOf, GatedVerbs
  <2> QED
    BY <1>3, <2>1, OutcomesAre DEF AnswersOf, GatedVerbs
<1> QED
  BY <1>1, <1>2, <1>3 DEF IsRequest, Verbs

\* The service answers: a login's id is honoured from then on, a logout's is not.
LEMMA AnswerKeeps ==
    ASSUME ConsoleInv, NEW q \in Flight, Answer(q)
    PROVE  ConsoleInv'
<1> USE DEF ConsoleInv
<1>1. /\ flight[q] # Landed /\ IsRequest(flight[q]) /\ flight[q].answer = Nil
      /\ UNCHANGED <<auth, sessionRound, liveSessionRound, slice, jar, hasPassword, holder, writers,
                     crossed, used>>
  BY DEF Answer, StoreTypes, store, history
<1>2. PICK a \in OutcomesOf(flight[q]) : flight' = [flight EXCEPT ![q].answer = a]
  BY DEF Answer
<1>3. PICK r : r = flight[q]
  OBVIOUS
<1>4. a \in AnswersOf(r.verb) /\ (r.verb \in GatedVerbs /\ a = "unauthorized" => r.cookie \notin good)
  BY <1>1, <1>2, <1>3, AnswersAre DEF StoreTypes
<1>5. PICK n : n = [r EXCEPT !.answer = a]
  OBVIOUS
<1>6. /\ n.verb = r.verb /\ n.cohort = r.cohort /\ n.asked = r.asked /\ n.cookie = r.cookie
      /\ n.opens = r.opens /\ n.since = r.since /\ n.answer = a
      /\ n = [verb |-> n.verb, cohort |-> n.cohort, asked |-> n.asked, cookie |-> n.cookie,
              answer |-> n.answer, opens |-> n.opens, since |-> n.since]
  BY <1>1, <1>3, <1>5 DEF IsRequest
<1>7. IsRequest(n)
  BY <1>1, <1>3, <1>4, <1>6 DEF IsRequest
<1>8. flight' = [flight EXCEPT ![q] = n]
  BY <1>2, <1>3, <1>5 DEF StoreTypes
<1>9. /\ flight' = [p \in Flight |-> flight'[p]]
      /\ flight'[q] = n /\ \A p \in Flight \ {q} : flight'[p] = flight[p]
      /\ \A p \in Flight : flight'[p] = Landed \/ IsRequest(flight'[p])
  BY <1>7, <1>8, SlotPut
<1>10. /\ good' \subseteq good \cup {r.cookie}
       /\ good' \subseteq good \/ (r.verb = "login" /\ a = "ok")
  <2>1. flight'[q].answer = a
    BY <1>6, <1>9
  <2>2. good' \in CASE r.verb = "login" /\ a = "ok" -> {good \cup {r.cookie}}
                    [] r.verb = "logout" /\ a = "ok" -> {good \ {r.cookie}}
                    [] r.verb = "logout" /\ a = "failed" -> {good, good \ {r.cookie}}
                    [] OTHER -> {good}
    BY <1>3, <2>1 DEF Answer
  <2>3. CASE r.verb = "login" /\ a = "ok"
    BY <2>2, <2>3
  <2>4. CASE r.verb = "logout" /\ a = "ok"
    BY <2>2, <2>4
  <2>5. CASE r.verb = "logout" /\ a = "failed"
    BY <2>2, <2>5
  <2>6. CASE ~(r.verb = "login" /\ a = "ok") /\ ~(r.verb = "logout" /\ a = "ok")
             /\ ~(r.verb = "logout" /\ a = "failed")
    BY <2>2, <2>6
  <2> QED
    BY <2>3, <2>4, <2>5, <2>6
<1>11. a # Nil /\ n # Landed
  BY <1>4, <1>7, LandedIs, NilAssumption DEF AnswersOf
<1>12. r.verb = "login" => r.cookie \in Nat
  BY <1>1, <1>3 DEF IdInv, IsRequest
<1>13. StoreTypes'
  BY <1>1, <1>9, <1>10, <1>12 DEF StoreTypes, SliceFields
<1>14. LiveInv' /\ DetailIsOfTheOpenCohort'
  BY <1>1 DEF LiveInv, DetailIsOfTheOpenCohort
<1>15. RoundInv'
  <2>1. \A x : x = n => RoundOf(x)'
    BY <1>1, <1>3, <1>6 DEF RoundInv, RoundOf
  <2>2. ASSUME NEW p \in Flight, flight'[p] # Landed
        PROVE  RoundOf(flight[p])'
    <3>1. CASE p = q
      BY <1>9, <2>1, <3>1 DEF RoundOf
    <3>2. CASE p # q
      BY <1>1, <1>9, <2>2, <3>2 DEF RoundInv, RoundOf
    <3> QED
      BY <3>1, <3>2
  <2> QED
    BY <2>2 DEF RoundInv
<1>16. SpinnerInv'
  <2>1. \A p \in Flight : /\ flight'[p].verb = flight[p].verb
                          /\ flight'[p].cohort = flight[p].cohort
                          /\ flight'[p].asked = flight[p].asked
    BY <1>3, <1>6, <1>9
  <2> QED
    BY <1>1, <2>1 DEF SpinnerInv
<1>17. IdInv'
  <2>1. \A p \in Flight : /\ flight'[p].verb = flight[p].verb
                          /\ flight'[p] # Landed => flight[p] # Landed
                          /\ flight'[p] # Landed => flight'[p].cookie = flight[p].cookie
                          /\ flight'[p].answer # Nil => p = q \/ flight[p].answer # Nil
                          /\ flight'[p].answer = Nil => p # q /\ flight[p].answer = Nil
    BY <1>1, <1>3, <1>6, <1>9, <1>11
  <2>2. \A id \in good' : id <= used.logins
    BY <1>1, <1>3, <1>10, <1>12, ConsoleAssumption DEF IdInv
  <2>3. \A p \in Flight : flight'[p].verb = "login" => flight'[p].cookie # Nil
    BY <1>3, <1>6, <1>9, <2>1 DEF IdInv
  <2>4. ASSUME NEW p \in Flight, flight'[p].verb = "login", flight'[p].answer = Nil
        PROVE  /\ flight'[p].cookie \notin good' /\ jar # flight'[p].cookie
               /\ \A o \in Flight \ {p} : flight'[o] # Landed => flight'[o].cookie # flight'[p].cookie
    <3>1. p # q /\ flight[p].verb = "login" /\ flight[p].answer = Nil /\ flight'[p] = flight[p]
      BY <1>9, <2>1, <2>4
    <3>2. flight[p].cookie \notin good /\ jar # flight[p].cookie
      BY <3>1 DEF IdInv
    <3>3. \A o \in Flight \ {p} : flight[o] # Landed => flight[o].cookie # flight[p].cookie
      BY <3>1 DEF IdInv
    <3>4. flight[q].cookie # flight[p].cookie
      BY <1>1, <3>1, <3>3
    <3> QED
      BY <1>3, <1>10, <2>1, <3>1, <3>2, <3>3, <3>4
  <2>5. ASSUME NEW p \in Flight, flight'[p].verb \in GatedVerbs, flight'[p].answer = "unauthorized"
        PROVE  flight'[p].cookie \notin good'
    <3>1. CASE p = q
      <4>1. good' \subseteq good
        BY <1>3, <1>6, <1>9, <1>10, <2>5, <3>1 DEF GatedVerbs
      <4> QED
        BY <1>3, <1>4, <1>6, <1>9, <2>5, <3>1, <4>1
    <3>2. CASE p # q
      <4>1. flight'[p] = flight[p] /\ flight[p].cookie \notin good /\ flight[p] # Landed
        BY <1>9, <2>5, <3>2, LandedIs DEF IdInv
      <4>2. CASE r.verb = "login"
        BY <1>1, <1>3, <1>10, <3>2, <4>1, <4>2 DEF IdInv
      <4>3. CASE r.verb # "login"
        BY <1>10, <4>1, <4>3
      <4> QED
        BY <4>2, <4>3
    <3> QED
      BY <3>1, <3>2
  <2>6. \A p \in Flight : flight'[p] # Landed /\ flight'[p].cookie # Nil
                              => flight'[p].cookie <= used.logins
    BY <2>1 DEF IdInv
  <2>7. jar # Nil => jar <= used.logins
    BY DEF IdInv
  <2> QED
    BY <1>1, <2>2, <2>3, <2>4, <2>5, <2>6, <2>7 DEF IdInv
<1> QED
  BY <1>13, <1>14, <1>15, <1>16, <1>17

\* A probe leaves with the cookie and the round of the moment.
LEMMA ProbeKeeps ==
    ASSUME ConsoleInv, NEW q \in Flight, Probe(q)
    PROVE  ConsoleInv'
<1> USE DEF ConsoleInv
<1> DEFINE n == Request("probe", "service", sessionRound)
<1>1. /\ flight[q] = Landed /\ auth' = "checking"
      /\ flight' = [flight EXCEPT ![q] = n]
      /\ UNCHANGED <<sessionRound, liveSessionRound, slice, jar, good, hasPassword, holder, writers,
                     crossed>>
      /\ used' = [used EXCEPT !["probes"] = @ + 1]
      /\ sessionRound \in Nat /\ Nil \notin Nat
  BY ConsoleAssumption DEF Probe, Count, service, history, StoreTypes
<1>2. /\ n.verb = "probe" /\ n.asked = sessionRound /\ n.cookie = jar
      /\ n.answer = Nil /\ n.since = Nil /\ IsRequest(n)
  BY <1>1 DEF Request, IsRequest, Verbs, StoreTypes
<1> HIDE DEF n
<1>3. /\ flight' = [p \in Flight |-> flight'[p]]
      /\ flight'[q] = n /\ \A p \in Flight \ {q} : flight'[p] = flight[p]
      /\ \A p \in Flight : flight'[p] = Landed \/ IsRequest(flight'[p])
  BY <1>1, <1>2, SlotPut
<1>4. /\ used'.logins = used.logins /\ used'.acts = used.acts /\ used'.probes = used.probes + 1
      /\ used' = [acts |-> used'.acts, logins |-> used'.logins, probes |-> used'.probes]
  BY <1>1 DEF StoreTypes
<1>5. StoreTypes'
  BY <1>1, <1>3, <1>4 DEF StoreTypes, SliceFields
<1>6. LiveInv' /\ DetailIsOfTheOpenCohort'
  BY <1>1 DEF LiveInv, DetailIsOfTheOpenCohort
<1>7. RoundInv'
  <2>1. \A r : r = n => RoundOf(r)'
    BY <1>1, <1>2, NilAssumption DEF RoundOf, GatedVerbs
  <2>2. ASSUME NEW p \in Flight, flight'[p] # Landed
        PROVE  RoundOf(flight[p])'
    <3>1. CASE p = q
      BY <1>3, <2>1, <3>1 DEF RoundOf
    <3>2. CASE p # q
      <4>1. flight'[p] = flight[p] /\ RoundOf(flight[p])
        BY <1>3, <2>2, <3>2 DEF RoundInv
      <4> QED
        BY <1>1, <4>1 DEF RoundOf
    <3> QED
      BY <3>1, <3>2
  <2> QED
    BY <2>2 DEF RoundInv
<1>8. SpinnerInv'
  <2>1. ASSUME NEW m \in Markers, ~crossed, slice.busy[m] # Nil
        PROVE  \E p \in Flight : /\ flight'[p].verb \in VerbOf(m)
                                 /\ flight'[p].cohort = slice.busy[m]
                                 /\ flight'[p].asked = sessionRound
    <3>1. PICK p \in Flight : /\ flight[p].verb \in VerbOf(m)
                              /\ flight[p].cohort = slice.busy[m]
                              /\ flight[p].asked = sessionRound
      BY <2>1 DEF SpinnerInv
    <3>2. p # q
      BY <1>1, <3>1, VerbsOf, LandedIs
    <3> QED
      BY <1>3, <3>1, <3>2
  <2> QED
    BY <1>1, <1>2, <1>3, <2>1 DEF SpinnerInv
<1>9. IdInv'
  <2>1. n.verb # "login" /\ n.answer # "unauthorized" /\ n.cookie = jar /\ n # Landed
    BY <1>2, LandedIs, NilAssumption DEF GatedVerbs
  <2>2. \A p \in Flight : p = q \/ flight'[p] = flight[p]
    BY <1>3
  <2> QED
    BY <1>1, <1>3, <1>4, <2>1, <2>2 DEF IdInv
<1> QED
  BY <1>5, <1>6, <1>7, <1>8, <1>9

\* A sign-in leaves with an id no other request carries.
LEMMA SignInKeeps ==
    ASSUME ConsoleInv, NEW q \in Flight, SignIn(q)
    PROVE  ConsoleInv'
<1> USE DEF ConsoleInv
<1> DEFINE n == [Request("login", "service", Nil) EXCEPT !.cookie = used.logins + 1]
<1>1. /\ flight[q] = Landed /\ auth = "logged-out" /\ auth' = "logging-in"
      /\ flight' = [flight EXCEPT ![q] = n]
      /\ UNCHANGED <<sessionRound, liveSessionRound, slice, jar, good, hasPassword, holder, writers,
                     crossed>>
      /\ used' = [used EXCEPT !["logins"] = @ + 1]
      /\ sessionRound \in Nat /\ Nil \notin Nat /\ used.logins \in Nat
      /\ good \subseteq Nat /\ jar \in Nat \cup {Nil}
  BY ConsoleAssumption DEF SignIn, Count, service, history, StoreTypes
<1>2. /\ n.verb = "login" /\ n.asked = Nil /\ n.cookie = used.logins + 1
      /\ n.answer = Nil /\ n.since = Nil /\ IsRequest(n)
  BY <1>1 DEF Request, IsRequest, Verbs
<1> HIDE DEF n
<1>3. /\ flight' = [p \in Flight |-> flight'[p]]
      /\ flight'[q] = n /\ \A p \in Flight \ {q} : flight'[p] = flight[p]
      /\ \A p \in Flight : flight'[p] = Landed \/ IsRequest(flight'[p])
  BY <1>1, <1>2, SlotPut
<1>4. /\ used'.logins = used.logins + 1 /\ used'.acts = used.acts /\ used'.probes = used.probes
      /\ used' = [acts |-> used'.acts, logins |-> used'.logins, probes |-> used'.probes]
  BY <1>1 DEF StoreTypes
<1>5. StoreTypes'
  BY <1>1, <1>3, <1>4 DEF StoreTypes, SliceFields
<1>6. LiveInv' /\ DetailIsOfTheOpenCohort'
  BY <1>1 DEF LiveInv, DetailIsOfTheOpenCohort
<1>7. RoundInv'
  <2>1. \A r : r = n => RoundOf(r)'
    BY <1>1, <1>2 DEF RoundOf, GatedVerbs
  <2>2. ASSUME NEW p \in Flight, flight'[p] # Landed
        PROVE  RoundOf(flight[p])'
    <3>1. CASE p = q
      BY <1>3, <2>1, <3>1 DEF RoundOf
    <3>2. CASE p # q
      <4>1. flight'[p] = flight[p] /\ RoundOf(flight[p])
        BY <1>3, <2>2, <3>2 DEF RoundInv
      <4> QED
        BY <1>1, <4>1 DEF RoundOf
    <3> QED
      BY <3>1, <3>2
  <2> QED
    BY <2>2 DEF RoundInv
<1>8. SpinnerInv'
  <2>1. ASSUME NEW m \in Markers, ~crossed, slice.busy[m] # Nil
        PROVE  \E p \in Flight : /\ flight'[p].verb \in VerbOf(m)
                                 /\ flight'[p].cohort = slice.busy[m]
                                 /\ flight'[p].asked = sessionRound
    <3>1. PICK p \in Flight : /\ flight[p].verb \in VerbOf(m)
                              /\ flight[p].cohort = slice.busy[m]
                              /\ flight[p].asked = sessionRound
      BY <2>1 DEF SpinnerInv
    <3>2. p # q
      BY <1>1, <3>1, VerbsOf, LandedIs
    <3> QED
      BY <1>3, <3>1, <3>2
  <2> QED
    BY <1>1, <1>2, <1>3, <2>1 DEF SpinnerInv
<1>9. IdInv'
  <2>1. /\ \A id \in good : id <= used.logins /\ id # used.logins + 1
        /\ jar # Nil => jar <= used.logins /\ jar # used.logins + 1
        /\ \A p \in Flight : flight[p] # Landed /\ flight[p].cookie # Nil =>
              /\ flight[p].cookie \in Nat /\ flight[p].cookie <= used.logins
              /\ flight[p].cookie # used.logins + 1
    BY <1>1 DEF IdInv, StoreTypes, IsRequest
  <2>2. \A p \in Flight : p = q \/ flight'[p] = flight[p]
    BY <1>3
  <2>3. /\ \A id \in good' : id <= used'.logins
        /\ jar' # Nil => jar' <= used'.logins
    BY <1>1, <1>4, <2>1
  <2>4. \A p \in Flight : flight'[p] # Landed /\ flight'[p].cookie # Nil
                            => flight'[p].cookie <= used'.logins
    BY <1>1, <1>2, <1>3, <1>4, <2>1, <2>2
  <2>5. \A p \in Flight : flight'[p].verb = "login" => flight'[p].cookie # Nil
    BY <1>1, <1>2, <1>3, <2>2 DEF IdInv
  <2>6. ASSUME NEW p \in Flight, flight'[p].verb = "login", flight'[p].answer = Nil
        PROVE  /\ flight'[p].cookie \notin good /\ jar # flight'[p].cookie
               /\ \A o \in Flight \ {p} : flight'[o] # Landed => flight'[o].cookie # flight'[p].cookie
    <3>1. used.logins + 1 # Nil
      BY <1>1
    <3>2. CASE p = q
      <4>1. ASSUME NEW o \in Flight \ {p}, flight'[o] # Landed
            PROVE  flight'[o].cookie # flight'[p].cookie
        BY <1>2, <1>3, <2>1, <3>1, <3>2, <4>1
      <4> QED
        BY <1>2, <1>3, <2>1, <3>1, <3>2, <4>1
    <3>3. CASE p # q
      <4>1. /\ flight'[p] = flight[p] /\ flight[p].cookie # Nil
            /\ flight[p].cookie \notin good /\ jar # flight[p].cookie
            /\ \A o \in Flight \ {p} : flight[o] # Landed => flight[o].cookie # flight[p].cookie
        BY <1>3, <2>6, <3>3 DEF IdInv
      <4>2. flight[p] # Landed
        BY <2>6, <4>1, LandedIs, NilAssumption
      <4>3. n.cookie # flight[p].cookie
        BY <1>2, <2>1, <4>1, <4>2
      <4>4. ASSUME NEW o \in Flight \ {p}, flight'[o] # Landed
            PROVE  flight'[o].cookie # flight'[p].cookie
        BY <1>3, <2>2, <4>1, <4>3, <4>4
      <4> QED
        BY <4>1, <4>4
    <3> QED
      BY <3>2, <3>3
  <2>7. \A p \in Flight : flight'[p].verb \in GatedVerbs /\ flight'[p].answer = "unauthorized" =>
                            flight'[p].cookie \notin good
    <3>1. n.answer # "unauthorized"
      BY <1>2, NilAssumption
    <3> QED
      BY <1>3, <2>2, <3>1 DEF IdInv
  <2> QED
    BY <1>1, <2>3, <2>4, <2>5, <2>6, <2>7 DEF IdInv
<1> QED
  BY <1>5, <1>6, <1>7, <1>8, <1>9

\* The read of the list that follows is sent with the cookie and the round of the
\* state the landing leaves.
LEMMA ListFollows ==
    ASSUME NEW q \in Flight, NEW opens, ThenList(q, opens), sessionRound' \in Nat,
           jar' \in Nat \cup {Nil}
    PROVE  \E n : /\ flight' = [flight EXCEPT ![q] = n]
                  /\ IsRequest(n) /\ n.verb = "list" /\ n.cookie = jar' /\ n.answer = Nil
                  /\ n.asked = (IF auth' = "logged-in" THEN sessionRound' ELSE Nil)
                  /\ n.since = sessionRound'
<1>1. PICK asked, sent, since :
        /\ asked = (IF auth' = "logged-in" THEN sessionRound' ELSE Nil)
        /\ sent = jar' /\ since = sessionRound'
  OBVIOUS
<1>2. PICK n : n = [Request("list", "service", asked) EXCEPT
                      !.cookie = sent, !.opens = opens, !.since = since]
  OBVIOUS
<1>3. flight' = [flight EXCEPT ![q] = n]
  BY <1>1, <1>2 DEF ThenList
<1>4. n = [verb |-> "list", cohort |-> "service", asked |-> asked, cookie |-> sent,
           answer |-> Nil, opens |-> opens, since |-> since]
  BY <1>2 DEF Request
<1>5. /\ asked \in Nat \cup {Nil} /\ sent \in Nat \cup {Nil} /\ since \in Nat \cup {Nil}
  BY <1>1
<1>6. /\ n.verb = "list" /\ n.cohort = "service" /\ n.asked = asked /\ n.cookie = sent
      /\ n.answer = Nil /\ n.opens = opens /\ n.since = since
  BY <1>4
<1>7. IsRequest(n)
  BY <1>4, <1>5, <1>6 DEF IsRequest, Verbs, GatedVerbs
<1> QED
  BY <1>1, <1>3, <1>6, <1>7

\* A session starts: a sign-in, or a probe that finds one where none was held.
LEMMA StartKeeps ==
    ASSUME ConsoleInv, NEW q \in Flight, flight[q] # Landed, flight[q].answer # Nil,
           Started(flight[q].cookie), jar' = flight[q].cookie, ThenList(q, Nil),
           crossed' \in BOOLEAN, ~crossed' => ~crossed /\ liveSessionRound = Nil,
           UNCHANGED <<good, hasPassword, used>>
    PROVE  ConsoleInv'
<1> USE DEF ConsoleInv
<1>1. /\ IsRequest(flight[q]) /\ sessionRound \in Nat /\ Nil \notin Nat
      /\ auth' = "logged-in" /\ sessionRound' = sessionRound + 1
      /\ liveSessionRound' = sessionRound' /\ holder' = jar' /\ slice' = slice /\ writers' = writers
  BY ConsoleAssumption DEF StoreTypes, Started
<1>2. sessionRound' \in Nat /\ jar' \in Nat \cup {Nil}
  BY <1>1 DEF IsRequest
<1>3. PICK n : /\ flight' = [flight EXCEPT ![q] = n]
               /\ IsRequest(n) /\ n.verb = "list" /\ n.cookie = jar' /\ n.answer = Nil
               /\ n.asked = sessionRound' /\ n.since = sessionRound'
  BY <1>1, <1>2, ListFollows
<1>4. /\ flight' = [p \in Flight |-> flight'[p]]
      /\ flight'[q] = n /\ \A p \in Flight \ {q} : flight'[p] = flight[p]
      /\ \A p \in Flight : flight'[p] = Landed \/ IsRequest(flight'[p])
  BY <1>3, SlotPut
<1>5. StoreTypes'
  BY <1>1, <1>2, <1>4 DEF StoreTypes, SliceFields
<1>6. LiveInv'
  BY <1>1, <1>2 DEF LiveInv
<1>7. RoundInv'
  <2>1. \A r : r = n => RoundOf(r)'
    BY <1>1, <1>2, <1>3, NilAssumption DEF RoundOf, GatedVerbs
  <2>2. ASSUME NEW p \in Flight, flight'[p] # Landed
        PROVE  RoundOf(flight[p])'
    <3>1. CASE p = q
      BY <1>4, <2>1, <3>1 DEF RoundOf
    <3>2. CASE p # q
      <4>1. flight'[p] = flight[p] /\ RoundOf(flight[p]) /\ IsRequest(flight[p])
        BY <1>4, <2>2, <3>2 DEF RoundInv, StoreTypes
      <4>2. /\ flight[p].asked \in Nat \cup {Nil} /\ flight[p].since \in Nat \cup {Nil}
            /\ flight[p].asked # Nil => flight[p].asked <= sessionRound
            /\ flight[p].since # Nil => flight[p].since <= sessionRound
        BY <4>1 DEF RoundOf, IsRequest
      <4>3. flight[p].asked # sessionRound' /\ flight[p].since # sessionRound'
        BY <1>1, <4>2
      <4> QED
        BY <1>1, <4>1, <4>2, <4>3 DEF RoundOf
    <3> QED
      BY <3>1, <3>2
  <2> QED
    BY <2>2 DEF RoundInv
<1>8. SpinnerInv'
  <2>1. ~crossed' => \A m \in Markers : slice'.busy[m] = Nil
    BY <1>1, ResetIsOk DEF LiveInv
  <2> QED
    BY <1>1, <2>1 DEF SpinnerInv
<1>9. IdInv'
  <2>1. n.verb # "login" /\ n.answer # "unauthorized" /\ n.cookie = jar' /\ n # Landed
    BY <1>3, LandedIs, NilAssumption DEF GatedVerbs
  <2>2. \A p \in Flight : p = q \/ flight'[p] = flight[p]
    BY <1>4
  <2>3. jar' # Nil => jar' <= used.logins
    BY DEF IdInv
  <2>4. ASSUME NEW p \in Flight, flight'[p].verb = "login", flight'[p].answer = Nil
        PROVE  /\ flight'[p].cookie \notin good /\ jar' # flight'[p].cookie
               /\ \A o \in Flight \ {p} : flight'[o] # Landed => flight'[o].cookie # flight'[p].cookie
    <3>1. p # q /\ flight'[p] = flight[p]
      BY <1>4, <2>1, <2>4
    <3>2. /\ flight[p].cookie \notin good
          /\ \A o \in Flight \ {p} : flight[o] # Landed => flight[o].cookie # flight[p].cookie
      BY <2>4, <3>1 DEF IdInv
    <3>3. jar' # flight[p].cookie
      BY <3>1, <3>2
    <3> QED
      BY <1>4, <2>1, <3>1, <3>2, <3>3
  <2>5. \A p \in Flight : flight'[p].verb = "login" => flight'[p].cookie # Nil
    BY <1>4, <2>1, <2>2 DEF IdInv
  <2>6. \A p \in Flight : flight'[p].verb \in GatedVerbs /\ flight'[p].answer = "unauthorized" =>
                            flight'[p].cookie \notin good
    BY <1>4, <2>1, <2>2 DEF IdInv
  <2>7. \A p \in Flight : flight'[p] # Landed /\ flight'[p].cookie # Nil
                            => flight'[p].cookie <= used.logins
    BY <1>4, <2>1, <2>2, <2>3 DEF IdInv
  <2>8. \A id \in good : id <= used.logins
    BY DEF IdInv
  <2> QED
    BY <2>3, <2>4, <2>5, <2>6, <2>7, <2>8 DEF IdInv
<1>10. DetailIsOfTheOpenCohort'
  BY <1>1 DEF DetailIsOfTheOpenCohort
<1> QED
  BY <1>5, <1>6, <1>7, <1>8, <1>9, <1>10

\* A sign-in that fails, or a probe that finds nothing where no session was held.
LEMMA NoSessionKeeps ==
    ASSUME ConsoleInv, NEW q \in Flight, flight[q] # Landed, flight[q].verb \in {"login", "probe"},
           Done(q),
           \/ auth' \in {"logged-out", "disabled"}
           \/ /\ auth' = auth /\ liveSessionRound = Nil
              /\ flight[q].verb = "probe" /\ flight[q].asked # sessionRound,
           liveSessionRound' = Nil, crossed' \in BOOLEAN,
           ~crossed' => ~crossed /\ liveSessionRound = Nil,
           UNCHANGED <<sessionRound, slice, jar, good, hasPassword, holder, writers, used>>
    PROVE  ConsoleInv'
<1> USE DEF ConsoleInv
<1>1. sessionRound \in Nat /\ Nil \notin Nat
  BY ConsoleAssumption DEF StoreTypes
<1>2. flight' = [flight EXCEPT ![q] = Landed]
  BY DEF Done
<1>3. /\ flight' = [p \in Flight |-> flight'[p]]
      /\ flight'[q] = Landed /\ \A p \in Flight \ {q} : flight'[p] = flight[p]
      /\ \A p \in Flight : flight'[p] = Landed \/ IsRequest(flight'[p])
  BY <1>2, SlotPut
<1>4. StoreTypes'
  BY <1>3 DEF StoreTypes, SliceFields
<1>5. LiveInv' /\ DetailIsOfTheOpenCohort'
  BY DEF LiveInv, DetailIsOfTheOpenCohort
<1>6. RoundInv'
  <2>1. ASSUME NEW p \in Flight, flight'[p] # Landed
        PROVE  RoundOf(flight[p])'
    <3>1. flight'[p] = flight[p] /\ RoundOf(flight[p])
      BY <1>3, <2>1 DEF RoundInv
    <3> QED
      BY <3>1 DEF RoundOf
  <2> QED
    BY <2>1 DEF RoundInv
<1>7. SpinnerInv'
  <2>1. ~crossed' => \A m \in Markers : slice'.busy[m] = Nil
    BY ResetIsOk DEF LiveInv
  <2>2. CASE auth' \in {"logged-out", "disabled"}
    BY <2>1, <2>2 DEF SpinnerInv
  <2>3. CASE /\ auth' = auth
             /\ flight[q].verb = "probe" /\ flight[q].asked # sessionRound
    BY <1>3, <2>1, <2>3 DEF SpinnerInv
  <2> QED
    BY <2>2, <2>3
<1>8. IdInv'
  <2>1. \A p \in Flight : p = q \/ flight'[p] = flight[p]
    BY <1>3
  <2>2. Landed.verb # "login" /\ Landed.verb \notin GatedVerbs
    BY LandedIs, NilAssumption
  <2> QED
    BY <1>3, <2>1, <2>2 DEF IdInv
<1> QED
  BY <1>4, <1>5, <1>6, <1>7, <1>8

\* A probe that finds the session the console holds reads the list.
LEMMA StillThereKeeps ==
    ASSUME ConsoleInv, NEW q \in Flight, flight[q] # Landed, flight[q].verb = "probe",
           liveSessionRound # Nil, auth' = "logged-in", ThenList(q, Nil),
           UNCHANGED <<sessionRound, liveSessionRound, slice, jar, good, hasPassword, holder, writers,
                       crossed, used>>
    PROVE  ConsoleInv'
<1> USE DEF ConsoleInv
<1>1. sessionRound \in Nat /\ Nil \notin Nat /\ jar \in Nat \cup {Nil} /\ jar = holder
  BY ConsoleAssumption DEF StoreTypes, LiveInv
<1>2. PICK n : /\ flight' = [flight EXCEPT ![q] = n]
               /\ IsRequest(n) /\ n.verb = "list" /\ n.cookie = jar /\ n.answer = Nil
               /\ n.asked = sessionRound /\ n.since = sessionRound
  BY <1>1, ListFollows
<1>3. /\ flight' = [p \in Flight |-> flight'[p]]
      /\ flight'[q] = n /\ \A p \in Flight \ {q} : flight'[p] = flight[p]
      /\ \A p \in Flight : flight'[p] = Landed \/ IsRequest(flight'[p])
  BY <1>2, SlotPut
<1>4. StoreTypes'
  BY <1>3 DEF StoreTypes, SliceFields
<1>5. LiveInv' /\ DetailIsOfTheOpenCohort'
  BY DEF LiveInv, DetailIsOfTheOpenCohort
<1>6. RoundInv'
  <2>1. \A r : r = n => RoundOf(r)'
    BY <1>1, <1>2, NilAssumption DEF RoundOf, GatedVerbs
  <2>2. ASSUME NEW p \in Flight, flight'[p] # Landed
        PROVE  RoundOf(flight[p])'
    <3>1. CASE p = q
      BY <1>3, <2>1, <3>1 DEF RoundOf
    <3>2. CASE p # q
      <4>1. flight'[p] = flight[p] /\ RoundOf(flight[p])
        BY <1>3, <2>2, <3>2 DEF RoundInv
      <4> QED
        BY <4>1 DEF RoundOf
    <3> QED
      BY <3>1, <3>2
  <2> QED
    BY <2>2 DEF RoundInv
<1>7. SpinnerInv'
  <2>1. ASSUME NEW m \in Markers, ~crossed, slice.busy[m] # Nil
        PROVE  \E p \in Flight : /\ flight'[p].verb \in VerbOf(m)
                                 /\ flight'[p].cohort = slice.busy[m]
                                 /\ flight'[p].asked = sessionRound
    <3>1. PICK p \in Flight : /\ flight[p].verb \in VerbOf(m)
                              /\ flight[p].cohort = slice.busy[m]
                              /\ flight[p].asked = sessionRound
      BY <2>1 DEF SpinnerInv
    <3>2. "probe" \notin GatedVerbs
      BY DEF GatedVerbs
    <3>3. p # q
      BY <3>1, <3>2, VerbsOf
    <3> QED
      BY <1>3, <3>1, <3>3
  <2> QED
    BY <2>1 DEF SpinnerInv
<1>8. IdInv'
  <2>1. n.verb # "login" /\ n.answer # "unauthorized" /\ n.cookie = jar /\ n # Landed
    BY <1>2, LandedIs, NilAssumption DEF GatedVerbs
  <2>2. \A p \in Flight : p = q \/ flight'[p] = flight[p]
    BY <1>3
  <2> QED
    BY <1>3, <2>1, <2>2 DEF IdInv
<1> QED
  BY <1>4, <1>5, <1>6, <1>7, <1>8

\* A probe lands: the session it asked about is over, still there, new or unknown.
LEMMA ProbeLandsKeeps ==
    ASSUME ConsoleInv, NEW q \in Flight, ProbeLands(q)
    PROVE  ConsoleInv'
<1>1. /\ flight[q].verb = "probe" /\ flight[q].answer # Nil /\ flight[q] # Landed
      /\ UNCHANGED <<jar, good, hasPassword, used>>
      /\ crossed \in BOOLEAN /\ liveSessionRound \in {Nil, sessionRound}
  BY LandedIs, NilAssumption DEF ProbeLands, service, ConsoleInv, StoreTypes
<1>2. IsRequest(flight[q])
  BY <1>1 DEF ConsoleInv, StoreTypes
<1>3. flight[q].answer \in {"unreachable", "logged-in", "logged-out", "disabled"}
  BY <1>1, <1>2 DEF IsRequest, AnswersOf
<1>4. CASE flight[q].answer = "unreachable"
  <2>1. ProbeUnreachable /\ Done(q)
    BY <1>4 DEF ProbeLands
  <2>2. CASE liveSessionRound # Nil
    BY <1>1, <2>1, <2>2, ExpireKeeps DEF ProbeUnreachable
  <2>3. CASE liveSessionRound = Nil
    <3>1. auth' = "logged-out" /\ UNCHANGED <<sessionRound, liveSessionRound, slice, holder, writers, crossed>>
      BY <2>1, <2>3 DEF ProbeUnreachable, history
    <3> QED
      BY <1>1, <2>1, <2>3, <3>1, NoSessionKeeps
  <2> QED
    BY <2>2, <2>3
<1>5. CASE flight[q].answer = "logged-in"
  <2>1. ProbeFindsSession(q)
    BY <1>5 DEF ProbeLands
  <2>2. CASE liveSessionRound # Nil
    <3>1. /\ auth' = "logged-in" /\ ThenList(q, Nil)
          /\ UNCHANGED <<sessionRound, liveSessionRound, slice, holder, writers, crossed>>
      BY <2>1, <2>2 DEF ProbeFindsSession, history
    <3> QED
      BY <1>1, <2>2, <3>1, StillThereKeeps
  <2>3. CASE liveSessionRound = Nil /\ sessionRound # flight[q].asked
    <3>1. Done(q) /\ UNCHANGED <<auth, sessionRound, liveSessionRound, slice, holder, writers, crossed>>
      BY <2>1, <2>3 DEF ProbeFindsSession, history
    <3> QED
      BY <1>1, <2>3, <3>1, NoSessionKeeps
  <2>4. CASE liveSessionRound = Nil /\ sessionRound = flight[q].asked
    <3>1. Started(flight[q].cookie) /\ ThenList(q, Nil) /\ crossed' = crossed
      BY <2>1, <2>4 DEF ProbeFindsSession
    <3>2. flight[q].cookie = jar
      BY <1>1, <2>4 DEF ConsoleInv, RoundInv, RoundOf
    <3> QED
      BY <1>1, <2>4, <3>1, <3>2, StartKeeps
  <2> QED
    BY <2>2, <2>3, <2>4
<1>6. CASE flight[q].answer \in {"logged-out", "disabled"}
  <2>1. ProbeFindsNone(flight[q].answer) /\ Done(q)
    BY <1>6 DEF ProbeLands
  <2>2. PICK status : status = flight[q].answer
    OBVIOUS
  <2>3. CASE liveSessionRound # Nil
    <3>1. Expire(status)
      BY <2>1, <2>2, <2>3 DEF ProbeFindsNone
    <3> QED
      BY <1>1, <1>6, <2>1, <2>2, <3>1, ExpireKeeps
  <2>4. CASE liveSessionRound = Nil
    <3>1. auth' = status /\ UNCHANGED <<sessionRound, liveSessionRound, slice, holder, writers, crossed>>
      BY <2>1, <2>2, <2>4 DEF ProbeFindsNone, history
    <3> QED
      BY <1>1, <1>6, <2>1, <2>2, <2>4, <3>1, NoSessionKeeps
  <2> QED
    BY <2>3, <2>4
<1> QED
  BY <1>3, <1>4, <1>5, <1>6

\* A sign-in lands.
LEMMA SignInLandsKeeps ==
    ASSUME ConsoleInv, NEW q \in Flight, SignInLands(q)
    PROVE  ConsoleInv'
<1>1. /\ flight[q].verb = "login" /\ flight[q].answer # Nil /\ flight[q] # Landed
      /\ UNCHANGED <<good, hasPassword, used>>
      /\ crossed \in BOOLEAN /\ crossed' = (crossed \/ liveSessionRound # Nil)
  BY LandedIs, NilAssumption DEF SignInLands, Crossed, ConsoleInv, StoreTypes
<1>2. crossed' \in BOOLEAN /\ (~crossed' => ~crossed /\ liveSessionRound = Nil)
  BY <1>1
<1>3. CASE flight[q].answer = "ok"
  <2>1. jar' = flight[q].cookie /\ Started(flight[q].cookie) /\ ThenList(q, Nil)
    BY <1>3 DEF SignInLands
  <2> QED
    BY <1>1, <1>2, <2>1, StartKeeps
<1>4. CASE flight[q].answer # "ok"
  <2>1. /\ auth' \in {"logged-out", "disabled"} /\ liveSessionRound' = Nil /\ Done(q)
        /\ UNCHANGED <<sessionRound, slice, jar, holder, writers>>
    BY <1>4 DEF SignInLands
  <2> QED
    BY <1>1, <1>2, <2>1, NoSessionKeeps
<1> QED
  BY <1>3, <1>4

\* A sign-out lands, whatever its answer.
LEMMA SignOutLandsKeeps ==
    ASSUME ConsoleInv, NEW q \in Flight, SignOutLands(q)
    PROVE  ConsoleInv'
<1>1. /\ flight[q] # Landed /\ Expire("logged-out") /\ jar' \in {jar, Nil} /\ Done(q)
      /\ UNCHANGED <<good, hasPassword, used>>
  BY LandedIs, NilAssumption DEF SignOutLands, GatedVerbs
<1> QED
  BY <1>1, ExpireKeeps

-----------------------------------------------------------------------------

\* A control goes up with its request; a read, a sign-out and a discard have none.
LEMMA MarkedIsOk ==
    ASSUME SliceOk(slice), NEW m \in Markers, NEW c, NEW slot
    PROVE  /\ SliceOk(Marked(m, c, slot)) /\ SliceOk(Idled(m)) /\ SliceOk(Refused(m, slot))
           /\ SliceOk(NoError(slot)) /\ SliceOk(WithError(slot))
           /\ \A o \in Markers : /\ Marked(m, c, slot).busy[o] = (IF o = m THEN c ELSE slice.busy[o])
                                 /\ Idled(m).busy[o] = (IF o = m THEN Nil ELSE slice.busy[o])
                                 /\ Refused(m, slot).busy[o] = (IF o = m THEN Nil ELSE slice.busy[o])
           /\ NoError(slot).busy = slice.busy /\ WithError(slot).busy = slice.busy
<1>1. /\ SliceOk(Marked(m, c, slot))
      /\ \A o \in Markers : Marked(m, c, slot).busy[o] = (IF o = m THEN c ELSE slice.busy[o])
  <2>1. PICK s : s = Marked(m, c, slot)
    OBVIOUS
  <2>2. /\ s.busy = [slice.busy EXCEPT ![m] = c] /\ s.view = slice.view /\ s.detail = slice.detail
        /\ s = [listed |-> s.listed, settings |-> s.settings, editing |-> s.editing, busy |-> s.busy,
                errors |-> s.errors, view |-> s.view, detail |-> s.detail]
    BY <2>1 DEF SliceOk, SliceFields, Marked
  <2>3. s.busy = [o \in Markers |-> s.busy[o]]
        /\ \A o \in Markers : s.busy[o] = (IF o = m THEN c ELSE slice.busy[o])
    BY <2>2 DEF SliceOk, SliceFields
  <2> QED
    BY <2>1, <2>2, <2>3 DEF SliceOk, SliceFields
<1>2. SliceOk(Idled(m)) /\ \A o \in Markers :
         Idled(m).busy[o] = (IF o = m THEN Nil ELSE slice.busy[o])
  BY DEF SliceOk, SliceFields, Idled
<1>3. SliceOk(Refused(m, slot)) /\ Refused(m, slot).busy = Idled(m).busy
  <2>1. PICK s : s = Refused(m, slot)
    OBVIOUS
  <2>2. PICK i : i = Idled(m)
    OBVIOUS
  <2>3. s.busy = i.busy /\ SliceOk(s)
    BY <1>2, <2>1, <2>2 DEF SliceOk, SliceFields, Refused
  <2> QED
    BY <2>1, <2>2, <2>3
<1>4. SliceOk(NoError(slot)) /\ SliceOk(WithError(slot))
      /\ NoError(slot).busy = slice.busy /\ WithError(slot).busy = slice.busy
  BY DEF SliceOk, SliceFields, NoError, WithError
<1> QED
  BY <1>1, <1>2, <1>3, <1>4

\* Every gated request, verb by verb.
LEMMA AsksKeep ==
    ASSUME ConsoleInv, NEW q \in Flight, Asks(q)
    PROVE  ConsoleInv'
<1>1. SliceOk(slice)
  BY DEF ConsoleInv, StoreTypes, SliceOk, DetailIsOfTheOpenCohort
<1>2. ASSUME NEW verb \in GatedVerbs, NEW c, Ask(q, verb, c, slice)
      PROVE  ConsoleInv'
  BY <1>1, <1>2, AskKeeps
<1>3. ASSUME NEW verb \in GatedVerbs, NEW c, NEW slot, Ask(q, verb, c, NoError(slot))
      PROVE  ConsoleInv'
  <2>1. SliceOk(NoError(slot)) /\ NoError(slot).busy = slice.busy
    BY <1>1, MarkedIsOk DEF Markers
  <2> QED
    BY <1>3, <2>1, AskKeeps
<1>4. ASSUME NEW m \in Markers, NEW verb \in VerbOf(m), NEW c, NEW slot,
             Ask(q, verb, c, Marked(m, c, slot))
      PROVE  ConsoleInv'
  <2>1. verb \in GatedVerbs
    BY <1>4, VerbsOf
  <2>2. SliceOk(Marked(m, c, slot)) /\ \A o \in Markers :
           Marked(m, c, slot).busy[o] = (IF o = m THEN c ELSE slice.busy[o])
    BY <1>1, <1>4, MarkedIsOk
  <2> QED
    BY <1>4, <2>1, <2>2, AskKeeps
<1>5. /\ \A m \in Markers \ {"advertise", "settings"} : m \in VerbOf(m)
      /\ "advertise" \in VerbOf("advertise") /\ "readvertise" \in VerbOf("advertise")
      /\ "load" \in VerbOf("settings") /\ "save" \in VerbOf("settings")
  BY DEF VerbOf, Markers
<1>6. CASE SignOut(q)
  BY <1>2, <1>6 DEF SignOut, GatedVerbs
<1>7. CASE RefreshCohorts(q)
  BY <1>2, <1>7 DEF RefreshCohorts, GatedVerbs
<1>8. CASE SubmitDraft(q)
  BY <1>4, <1>5, <1>8 DEF SubmitDraft, Markers
<1>9. CASE SaveDraftEdit(q)
  BY <1>4, <1>5, <1>9 DEF SaveDraftEdit, Markers
<1>10. ASSUME NEW c \in Cohort, Advertise(q, c) \/ Readvertise(q, c)
       PROVE  ConsoleInv'
  BY <1>4, <1>5, <1>10 DEF Advertise, Readvertise, Markers
<1>11. ASSUME NEW c \in Cohort, Discard(q, c)
       PROVE  ConsoleInv'
  BY <1>3, <1>11 DEF Discard, GatedVerbs
<1>12. ASSUME NEW c \in Cohort, DismissEnded(q, c)
       PROVE  ConsoleInv'
  BY <1>4, <1>5, <1>12 DEF DismissEnded, Markers
<1>13. CASE PollDetail(q)
  BY <1>2, <1>13 DEF PollDetail, GatedVerbs
<1>14. CASE ExportCohort(q)
  BY <1>3, <1>14 DEF ExportCohort, GatedVerbs
<1>15. CASE CancelCohort(q)
  BY <1>4, <1>5, <1>15 DEF CancelCohort, Lifecycle, Markers
<1>16. CASE FinalizeCohort(q)
  BY <1>4, <1>5, <1>16 DEF FinalizeCohort, Lifecycle, Markers
<1>17. CASE AddTestPeers(q)
  BY <1>4, <1>5, <1>17 DEF AddTestPeers, Lifecycle, Markers
<1>18. CASE AdvertisingToggle(q)
  BY <1>4, <1>5, <1>18 DEF AdvertisingToggle, Markers
<1>19. CASE SwitchBroadcastOff(q)
  BY <1>4, <1>5, <1>19 DEF SwitchBroadcastOff, Markers
<1>20. CASE OpenSettings(q)
  <2>1. PICK s : s = [slice EXCEPT !.view = SettingsView, !.busy["settings"] = "service",
                                   !.errors = @ \ {"settings", "action"}]
    OBVIOUS
  <2>2. /\ SliceOk(s)
        /\ \A o \in Markers : s.busy[o] = (IF o = "settings" THEN "service" ELSE slice.busy[o])
    <3>1. s.view.kind = "settings" /\ SliceFields(s)
      BY <1>1, <2>1 DEF SliceOk, SliceFields, SettingsView
    <3> QED
      BY <1>1, <2>1, <3>1 DEF SliceOk, SliceFields
  <2>3. Ask(q, "load", "service", s)
    BY <1>20, <2>1 DEF OpenSettings
  <2> QED
    BY <1>5, <2>2, <2>3, AskKeeps DEF GatedVerbs
<1>21. CASE LoadSettings(q)
  BY <1>2, <1>21 DEF LoadSettings, GatedVerbs
<1>22. CASE SaveSettings(q)
  BY <1>4, <1>5, <1>22 DEF SaveSettings, Markers
<1> QED
  BY <1>6, <1>7, <1>8, <1>9, <1>10, <1>11, <1>12, <1>13, <1>14, <1>15, <1>16, <1>17, <1>18, <1>19,
     <1>20, <1>21, <1>22 DEF Asks

\* What a verb does after a success.
After(q) == Done(q) \/ (\E opens : ThenList(q, opens)) \/ ThenDetail(q)

\* The request that follows is a read of this session, or there is none.
LEMMA AfterFollows ==
    ASSUME ConsoleInv, NEW q \in Flight, After(q),
           UNCHANGED <<auth, sessionRound, jar>>
    PROVE  \E n : flight' = [flight EXCEPT ![q] = n] /\ (n = Landed \/ FollowsOn(n))
<1>1. sessionRound \in Nat /\ jar \in Nat \cup {Nil} /\ Nil \notin Nat
  BY ConsoleAssumption DEF ConsoleInv, StoreTypes
<1>2. CASE Done(q)
  BY <1>2 DEF Done
<1>3. ASSUME NEW opens, ThenList(q, opens)
      PROVE  \E n : flight' = [flight EXCEPT ![q] = n] /\ FollowsOn(n)
  <2>1. PICK n : /\ flight' = [flight EXCEPT ![q] = n]
                 /\ IsRequest(n) /\ n.verb = "list" /\ n.cookie = jar' /\ n.answer = Nil
                 /\ n.asked = (IF auth' = "logged-in" THEN sessionRound' ELSE Nil)
                 /\ n.since = sessionRound'
    BY <1>1, <1>3, ListFollows
  <2>2. FollowsOn(n)
    BY <1>1, <2>1 DEF FollowsOn, GatedVerbs
  <2> QED
    BY <2>1, <2>2
<1>4. CASE ThenDetail(q) /\ ~Done(q)
  <2>1. PICK c : c = slice'.view.cohort
    OBVIOUS
  <2>2. PICK n : n = Request("detail", c, AskingRound)
    OBVIOUS
  <2>3. flight' = [flight EXCEPT ![q] = n]
    BY <1>4, <2>1, <2>2 DEF ThenDetail
  <2>4. /\ n = [verb |-> n.verb, cohort |-> n.cohort, asked |-> n.asked, cookie |-> n.cookie,
                answer |-> n.answer, opens |-> n.opens, since |-> n.since]
        /\ n.verb = "detail" /\ n.asked = AskingRound /\ n.cookie = jar /\ n.answer = Nil /\ n.since = Nil
    BY <2>2 DEF Request
  <2>5. AskingRound \in {Nil, sessionRound} /\ (AskingRound = sessionRound => auth = "logged-in")
    BY <1>1 DEF AskingRound
  <2>6. IsRequest(n)
    BY <1>1, <2>4, <2>5 DEF IsRequest, Verbs, GatedVerbs
  <2> QED
    BY <2>3, <2>4, <2>5, <2>6 DEF FollowsOn, GatedVerbs
<1> QED
  BY <1>2, <1>3, <1>4 DEF After

\* A gated answer lands: it expires its own session, it writes for it, or nothing.
LEMMA LandsKeep ==
    ASSUME ConsoleInv, NEW q \in Flight, NEW verb \in GatedVerbs, NEW next,
           Lands(q, verb, next, After(q)), SliceOk(next),
           \A m \in Markers : /\ next.busy[m] \in {slice.busy[m], Nil}
                              /\ verb \in VerbOf(m) => next.busy[m] = Nil
    PROVE  ConsoleInv'
<1>1. /\ flight[q].verb = verb /\ flight[q].answer # Nil /\ flight[q] # Landed
      /\ UNCHANGED <<jar, good, hasPassword, used>>
  BY LandedIs DEF Lands, IsBack, service
<1>2. /\ IsRequest(flight[q]) /\ sessionRound \in Nat /\ Nil \notin Nat /\ SliceOk(slice)
  BY <1>1, ConsoleAssumption DEF ConsoleInv, StoreTypes, SliceOk, DetailIsOfTheOpenCohort
<1>3. CASE flight[q].answer = "unauthorized" /\ StillAsking(flight[q].asked)
  <2>1. Expire("logged-out") /\ Done(q)
    BY <1>3 DEF Lands, ExpireIfStillAsking
  <2> QED
    BY <1>1, <2>1, ExpireKeeps
<1>4. CASE ~StillAsking(flight[q].asked)
  <2>1. NoSessionChange /\ UNCHANGED <<slice, writers>> /\ Done(q)
    BY <1>4 DEF Lands, ExpireIfStillAsking
  <2>2. /\ UNCHANGED <<auth, sessionRound, liveSessionRound, holder, crossed>>
        /\ flight' = [flight EXCEPT ![q] = Landed]
    BY <2>1 DEF NoSessionChange, Done
  <2>3. flight[q].asked # sessionRound
    BY <1>2, <1>4 DEF StillAsking
  <2> QED
    BY <1>1, <1>2, <2>1, <2>2, <2>3, LandingKeeps
<1>5. CASE flight[q].answer # "unauthorized" /\ StillAsking(flight[q].asked)
  <2>1. Writes(q, next) /\ After(q)
    BY <1>5 DEF Lands, After
  <2>2. /\ UNCHANGED <<auth, sessionRound, liveSessionRound, holder, crossed>>
        /\ slice' = next /\ writers' = writers \cup {flight[q].cookie}
        /\ flight[q].asked = sessionRound
    BY <1>5, <2>1 DEF Writes, NoSessionChange, StillAsking
  <2>3. PICK n : flight' = [flight EXCEPT ![q] = n] /\ (n = Landed \/ FollowsOn(n))
    BY <1>1, <2>1, <2>2, AfterFollows
  <2> QED
    BY <1>1, <2>2, <2>3, LandingKeeps
<1> QED
  BY <1>3, <1>4, <1>5

\* The list lands, and may open the cohort it was read for.
LEMMA RefreshLandsKeeps ==
    ASSUME ConsoleInv, NEW q \in Flight, RefreshLands(q)
    PROVE  ConsoleInv'
<1>1. /\ flight[q].verb = "list" /\ flight[q].answer # Nil /\ flight[q] # Landed
      /\ UNCHANGED <<jar, good, hasPassword, used>> /\ Done(q)
      /\ flight' = [flight EXCEPT ![q] = Landed]
  BY LandedIs, NilAssumption DEF RefreshLands, IsBack, service, Done, GatedVerbs
<1>2. /\ IsRequest(flight[q]) /\ sessionRound \in Nat /\ Nil \notin Nat /\ SliceOk(slice)
  BY <1>1, ConsoleAssumption DEF ConsoleInv, StoreTypes, SliceOk, DetailIsOfTheOpenCohort
<1>3. flight[q].verb \in GatedVerbs /\ \A m \in Markers : flight[q].verb \notin VerbOf(m)
  BY <1>1 DEF GatedVerbs, VerbOf, Markers
<1>4. PICK read : read = IF flight[q].answer = "unauthorized" \/ ~StillAsking(flight[q].asked) THEN slice
                         ELSE [slice EXCEPT !.listed = @ \/ Ok(q)]
  OBVIOUS
<1>5. PICK opened : opened = IF flight[q].opens # Nil /\ StillAsking(flight[q].since)
                             THEN OnDetail(read, flight[q].opens) ELSE read
  OBVIOUS
<1>6. IF flight[q].answer = "unauthorized" /\ StillAsking(flight[q].asked)
        THEN ExpireIfStillAsking(flight[q].asked)
      ELSE IF opened # slice \/ (flight[q].answer # "unauthorized" /\ StillAsking(flight[q].asked))
        THEN Writes(q, opened)
      ELSE ExpireIfStillAsking(Nil)
  BY <1>4, <1>5 DEF RefreshLands
<1>7. SliceOk(read) /\ read.busy = slice.busy
  <2>1. CASE read = slice
    BY <1>2, <2>1
  <2>2. CASE read = [slice EXCEPT !.listed = @ \/ Ok(q)]
    BY <1>2, <2>2 DEF SliceOk, SliceFields
  <2> QED
    BY <1>4, <2>1, <2>2
<1>8. SliceOk(opened) /\ opened.busy = slice.busy
  <2>1. CASE opened = read
    BY <1>7, <2>1
  <2>2. CASE opened = OnDetail(read, flight[q].opens)
    BY <1>7, <2>2 DEF SliceOk, SliceFields, OnDetail
  <2> QED
    BY <1>5, <2>1, <2>2
<1>9. CASE flight[q].answer = "unauthorized" /\ StillAsking(flight[q].asked)
  <2>1. Expire("logged-out")
    BY <1>6, <1>9 DEF ExpireIfStillAsking
  <2> QED
    BY <1>1, <2>1, ExpireKeeps
<1>10. CASE /\ ~(flight[q].answer = "unauthorized" /\ StillAsking(flight[q].asked))
            /\ opened # slice \/ (flight[q].answer # "unauthorized" /\ StillAsking(flight[q].asked))
  <2>1. Writes(q, opened)
    BY <1>6, <1>10
  <2>2. flight[q].asked = sessionRound \/ flight[q].since = sessionRound
    BY <1>4, <1>5, <1>10 DEF StillAsking
  <2>3. /\ UNCHANGED <<auth, sessionRound, liveSessionRound, holder, crossed>>
        /\ slice' = opened /\ writers' = writers \cup {flight[q].cookie}
    BY <2>1 DEF Writes, NoSessionChange
  <2>4. SliceOk(slice') /\ slice'.busy = slice.busy
    BY <1>8, <2>3
  <2> QED
    BY <1>1, <1>3, <2>2, <2>3, <2>4, LandingKeeps
<1>11. CASE /\ ~(flight[q].answer = "unauthorized" /\ StillAsking(flight[q].asked))
            /\ ~(opened # slice \/ (flight[q].answer # "unauthorized" /\ StillAsking(flight[q].asked)))
  <2>1. ExpireIfStillAsking(Nil)
    BY <1>6, <1>11
  <2>2. UNCHANGED <<auth, sessionRound, liveSessionRound, holder, crossed, slice, writers>>
    BY <2>1 DEF ExpireIfStillAsking, StillAsking, NoSessionChange
  <2>3. SliceOk(slice')
    BY <1>2, <2>2
  <2> QED
    BY <1>1, <1>3, <2>2, <2>3, LandingKeeps
<1> QED
  BY <1>9, <1>10, <1>11

\* A verb lights one marker.
LEMMA OneMarker ==
    ASSUME NEW m \in Markers, NEW o \in Markers, NEW verb \in VerbOf(m), verb \in VerbOf(o)
    PROVE  o = m
BY DEF VerbOf, Markers

\* An answer that puts its own marker down.
LEMMA SettlingKeeps ==
    ASSUME ConsoleInv, NEW q \in Flight, NEW m \in Markers, NEW verb \in VerbOf(m), NEW next,
           Lands(q, verb, next, After(q)), SliceOk(next), next.busy = Idled(m).busy
    PROVE  ConsoleInv'
<1>1. SliceOk(slice)
  BY DEF ConsoleInv, StoreTypes, SliceOk, DetailIsOfTheOpenCohort
<1>2. \A o \in Markers : Idled(m).busy[o] = (IF o = m THEN Nil ELSE slice.busy[o])
  BY <1>1, MarkedIsOk
<1>3. \A o \in Markers : /\ next.busy[o] \in {slice.busy[o], Nil}
                         /\ verb \in VerbOf(o) => next.busy[o] = Nil
  BY <1>2, OneMarker
<1> QED
  BY <1>3, VerbsOf, LandsKeep

\* An answer of a verb that lights none.
LEMMA PlainKeeps ==
    ASSUME ConsoleInv, NEW q \in Flight, NEW verb \in GatedVerbs, NEW next,
           \A m \in Markers : verb \notin VerbOf(m),
           Lands(q, verb, next, After(q)), SliceOk(next), next.busy = slice.busy
    PROVE  ConsoleInv'
BY LandsKeep

\* Leaving the edit keeps the slice well formed.
LEMMA UneditedIsOk ==
    ASSUME SliceOk(slice)
    PROVE  SliceOk(Unedited) /\ Unedited.busy = Idled("edit").busy
<1>1. PICK i : i = Idled("edit")
  OBVIOUS
<1>2. SliceOk(i)
  BY <1>1, MarkedIsOk DEF Markers
<1>3. PICK u : u = Unedited
  OBVIOUS
<1>4. u = [i EXCEPT !.editing = Nil, !.errors = @ \ {"edit"}]
  BY <1>1, <1>3 DEF Unedited
<1>5. SliceOk(u) /\ u.busy = i.busy
  BY <1>2, <1>4 DEF SliceOk, SliceFields
<1> QED
  BY <1>1, <1>3, <1>5

\* So does leaving the open cohort.
LEMMA ClosedIsOk ==
    ASSUME NEW s, SliceOk(s)
    PROVE  SliceOk(Closed(s)) /\ Closed(s).busy = s.busy
<1>1. PICK d : d = Closed(s)
  OBVIOUS
<1>2. d = [s EXCEPT !.view = ListView, !.detail = Nil] /\ ListView.kind # "detail"
  BY <1>1 DEF Closed, ListView
<1>3. SliceOk(d) /\ d.busy = s.busy
  BY <1>2 DEF SliceOk, SliceFields
<1> QED
  BY <1>1, <1>3

\* Every gated answer, verb by verb.
LEMMA GatedAnswersKeep ==
    ASSUME ConsoleInv, NEW q \in Flight, GatedAnswers(q)
    PROVE  ConsoleInv'
<1>1. SliceOk(slice)
  BY DEF ConsoleInv, StoreTypes, SliceOk, DetailIsOfTheOpenCohort
<1>2. ASSUME NEW m \in Markers, NEW slot
      PROVE  /\ SliceOk(Idled(m)) /\ SliceOk(Refused(m, slot))
             /\ Refused(m, slot).busy = Idled(m).busy
  <2>1. SliceOk(Idled(m)) /\ SliceOk(Refused(m, slot))
    BY <1>1, MarkedIsOk
  <2>2. Refused(m, slot).busy = Idled(m).busy
    BY <2>1 DEF Refused, SliceOk, SliceFields
  <2> QED
    BY <2>1, <2>2
<1>3. ASSUME NEW m \in Markers, NEW slot, NEW verb \in VerbOf(m),
             Lands(q, verb, Settled(q, m, slot), After(q))
      PROVE  ConsoleInv'
  <2>1. SliceOk(Settled(q, m, slot)) /\ Settled(q, m, slot).busy = Idled(m).busy
    BY <1>2 DEF Settled
  <2> QED
    BY <1>3, <2>1, SettlingKeeps
<1>4. /\ \A m \in Markers \ {"advertise", "settings"} : m \in VerbOf(m)
      /\ "advertise" \in VerbOf("advertise") /\ "readvertise" \in VerbOf("advertise")
      /\ "load" \in VerbOf("settings") /\ "save" \in VerbOf("settings")
  BY DEF VerbOf, Markers
<1>5. \A verb \in {"discard", "detail", "export"} :
         verb \in GatedVerbs /\ \A m \in Markers : verb \notin VerbOf(m)
  BY DEF VerbOf, Markers, GatedVerbs
<1>6. CASE RefreshLands(q)
  BY <1>6, RefreshLandsKeeps
<1>7. CASE SubmitLands(q)
  <2>1. Lands(q, "create", Settled(q, "create", "form"), After(q))
    BY <1>7 DEF SubmitLands, Lands, After
  <2> QED
    BY <1>3, <1>4, <2>1 DEF Markers
<1>8. CASE SaveEditLands(q)
  <2>1. PICK next : next = IF Ok(q) THEN Unedited ELSE Refused("edit", "edit")
    OBVIOUS
  <2>2. Lands(q, "edit", next, After(q))
    BY <1>8, <2>1 DEF SaveEditLands, Lands, After
  <2>3. PICK i : i = Idled("edit")
    OBVIOUS
  <2>4. SliceOk(i) /\ SliceOk(Refused("edit", "edit")) /\ Refused("edit", "edit").busy = i.busy
    BY <1>2, <2>3 DEF Markers
  <2>5. SliceOk(Unedited) /\ Unedited.busy = i.busy
    BY <1>1, <2>3, UneditedIsOk
  <2>6. SliceOk(next) /\ next.busy = Idled("edit").busy
    BY <2>1, <2>3, <2>4, <2>5
  <2> QED
    BY <1>4, <2>2, <2>6, SettlingKeeps DEF Markers
<1>9. CASE AdvertiseLands(q)
  <2>1. Lands(q, "advertise", Settled(q, "advertise", "action"), After(q))
    BY <1>9 DEF AdvertiseLands, Lands, After
  <2> QED
    BY <1>3, <1>4, <2>1 DEF Markers
<1>10. CASE ReadvertiseLands(q)
  <2>1. Lands(q, "readvertise", Settled(q, "advertise", "action"), After(q))
    BY <1>10 DEF ReadvertiseLands, Lands, After
  <2> QED
    BY <1>3, <1>4, <2>1 DEF Markers
<1>11. CASE DiscardLands(q)
  <2>1. PICK next : next = IF Ok(q) THEN slice ELSE WithError("action")
    OBVIOUS
  <2>2. Lands(q, "discard", next, After(q))
    BY <1>11, <2>1 DEF DiscardLands, Lands, After
  <2>3. SliceOk(next) /\ next.busy = slice.busy
    BY <1>1, <2>1, MarkedIsOk DEF Markers
  <2> QED
    BY <1>5, <2>2, <2>3, PlainKeeps
<1>12. CASE DismissLands(q)
  <2>1. Lands(q, "dismiss", Settled(q, "dismiss", "action"), After(q))
    BY <1>12 DEF DismissLands, Lands, After
  <2> QED
    BY <1>3, <1>4, <2>1 DEF Markers
<1>13. CASE PollLands(q)
  <2>1. PICK next : next = Polled(q)
    OBVIOUS
  <2>2. Lands(q, "detail", next, After(q))
    BY <1>13, <2>1 DEF PollLands, Lands, After
  <2>3. SliceOk(next) /\ next.busy = slice.busy
    <3>1. CASE slice.view # DetailView(flight[q].cohort)
      BY <1>1, <2>1, <3>1 DEF Polled
    <3>2. CASE slice.view = DetailView(flight[q].cohort)
      <4>1. PICK d : d = IF Ok(q) THEN flight[q].cohort ELSE slice.detail
        OBVIOUS
      <4>2. next = [slice EXCEPT !.detail = d]
        BY <2>1, <3>2, <4>1 DEF Polled
      <4>3. slice.view.kind = "detail" /\ slice.view.cohort = flight[q].cohort
        BY <3>2 DEF DetailView
      <4> QED
        BY <1>1, <4>1, <4>2, <4>3 DEF SliceOk, SliceFields
    <3> QED
      BY <3>1, <3>2
  <2> QED
    BY <1>5, <2>2, <2>3, PlainKeeps
<1>14. CASE ExportLands(q)
  <2>1. PICK next : next = IF Ok(q) THEN slice ELSE WithError("action")
    OBVIOUS
  <2>2. Lands(q, "export", next, After(q))
    BY <1>14, <2>1 DEF ExportLands, Lands, After
  <2>3. SliceOk(next) /\ next.busy = slice.busy
    BY <1>1, <2>1, MarkedIsOk DEF Markers
  <2> QED
    BY <1>5, <2>2, <2>3, PlainKeeps
<1>15. CASE CancelLands(q)
  <2>1. PICK next : next = IF Ok(q) THEN Closed(Idled("cancel")) ELSE Refused("cancel", "action")
    OBVIOUS
  <2>2. Lands(q, "cancel", next, After(q))
    BY <1>15, <2>1 DEF CancelLands, Lands, After
  <2>3. PICK i : i = Idled("cancel")
    OBVIOUS
  <2>4. SliceOk(i) /\ SliceOk(Refused("cancel", "action")) /\ Refused("cancel", "action").busy = i.busy
    BY <1>2, <2>3 DEF Markers
  <2>5. SliceOk(Closed(i)) /\ Closed(i).busy = i.busy
    BY <2>4, ClosedIsOk
  <2>6. SliceOk(next) /\ next.busy = Idled("cancel").busy
    BY <2>1, <2>3, <2>4, <2>5
  <2> QED
    BY <1>4, <2>2, <2>6, SettlingKeeps DEF Markers
<1>16. CASE FinalizeLands(q)
  <2>1. Lands(q, "finalize", Settled(q, "finalize", "action"), After(q))
    BY <1>16 DEF FinalizeLands, Lands, After
  <2> QED
    BY <1>3, <1>4, <2>1 DEF Markers
<1>17. CASE AddTestPeersLands(q)
  <2>1. Lands(q, "testPeers", Settled(q, "testPeers", "testPeer"), After(q))
    BY <1>17 DEF AddTestPeersLands, Lands, After
  <2> QED
    BY <1>3, <1>4, <2>1 DEF Markers
<1>18. CASE ToggleLands(q)
  <2>1. Lands(q, "pause", Settled(q, "pause", "pause"), After(q))
    BY <1>18 DEF ToggleLands, Lands, After
  <2> QED
    BY <1>3, <1>4, <2>1 DEF Markers
<1>19. CASE BroadcastLands(q)
  <2>1. Lands(q, "broadcast", Settled(q, "broadcast", "broadcast"), After(q))
    BY <1>19 DEF BroadcastLands, Lands, After
  <2> QED
    BY <1>3, <1>4, <2>1 DEF Markers
<1>20. CASE LoadLands(q) \/ SaveLands(q)
  <2>1. PICK i : i = Idled("settings")
    OBVIOUS
  <2>2. /\ SliceOk(i) /\ SliceOk(Refused("settings", "settings"))
        /\ Refused("settings", "settings").busy = i.busy
    BY <1>2, <2>1 DEF Markers
  <2>3. PICK loaded : loaded = [i EXCEPT !.settings = TRUE, !.errors = @ \ {"settings"}]
    OBVIOUS
  <2>4. PICK saved : saved = [i EXCEPT !.settings = TRUE]
    OBVIOUS
  <2>5. SliceOk(loaded) /\ loaded.busy = i.busy
    BY <2>2, <2>3 DEF SliceOk, SliceFields
  <2>6. SliceOk(saved) /\ saved.busy = i.busy
    BY <2>2, <2>4 DEF SliceOk, SliceFields
  <2>7. PICK next : \/ /\ LoadLands(q)
                       /\ next = IF Ok(q) THEN loaded ELSE Refused("settings", "settings")
                    \/ /\ SaveLands(q)
                       /\ next = IF Ok(q) THEN saved ELSE Refused("settings", "settings")
    BY <1>20
  <2>8. Lands(q, "load", next, After(q)) \/ Lands(q, "save", next, After(q))
    BY <2>1, <2>3, <2>4, <2>7 DEF LoadLands, SaveLands, Lands, After
  <2>9. SliceOk(next) /\ next.busy = Idled("settings").busy
    BY <2>1, <2>2, <2>5, <2>6, <2>7
  <2> QED
    BY <1>4, <2>8, <2>9, SettlingKeeps DEF Markers
<1> QED
  BY <1>6, <1>7, <1>8, <1>9, <1>10, <1>11, <1>12, <1>13, <1>14, <1>15, <1>16, <1>17, <1>18, <1>19,
     <1>20 DEF GatedAnswers

\* Every click that asks nothing of the service.
LEMMA ClicksKeep ==
    ASSUME ConsoleInv, Clicks
    PROVE  ConsoleInv'
<1>1. SliceOk(slice)
  BY DEF ConsoleInv, StoreTypes, SliceOk, DetailIsOfTheOpenCohort
<1>2. PICK i : i = Idled("edit")
  OBVIOUS
<1>3. SliceOk(i) /\ \A o \in Markers : i.busy[o] \in {slice.busy[o], Nil}
  BY <1>1, <1>2, MarkedIsOk DEF Markers
<1>4. SliceOk(Unedited) /\ Unedited.busy = i.busy
  BY <1>1, <1>2, UneditedIsOk
<1>5. ASSUME NEW c \in Cohort, BeginEdit(c)
      PROVE  ConsoleInv'
  <2>1. SliceOk(slice') /\ slice'.busy = i.busy
    BY <1>4, <1>5 DEF BeginEdit, SliceOk, SliceFields
  <2>2. /\ auth = "logged-in" /\ used' = [used EXCEPT !["acts"] = @ + 1]
        /\ UNCHANGED <<auth, sessionRound, liveSessionRound, flight, jar, good, hasPassword, holder,
                       writers, crossed>>
    BY <1>5 DEF BeginEdit, Count, service, history
  <2> QED
    BY <1>3, <2>1, <2>2, ClickKeeps
<1>6. ASSUME NEW c \in Cohort, OpenCohort(c)
      PROVE  ConsoleInv'
  <2>1. SliceOk(slice') /\ slice'.busy = slice.busy
    BY <1>1, <1>6 DEF OpenCohort, OnDetail, SliceOk, SliceFields
  <2>2. /\ auth = "logged-in" /\ used' = used
        /\ UNCHANGED <<auth, sessionRound, liveSessionRound, flight, jar, good, hasPassword, holder,
                       writers, crossed>>
    BY <1>6 DEF OpenCohort, service, history
  <2> QED
    BY <2>1, <2>2, ClickKeeps
<1>7. CASE CancelEdit
  <2>1. /\ auth = "logged-in" /\ used' = [used EXCEPT !["acts"] = @ + 1] /\ slice' = Unedited
        /\ UNCHANGED <<auth, sessionRound, liveSessionRound, flight, jar, good, hasPassword, holder,
                       writers, crossed>>
    BY <1>7 DEF CancelEdit, Count, service, history
  <2>2. SliceOk(slice') /\ slice'.busy = i.busy
    BY <1>4, <2>1
  <2> QED
    BY <1>3, <2>1, <2>2, ClickKeeps
<1>8. CASE CloseCohort
  <2>1. SliceOk(slice') /\ slice'.busy = slice.busy
    BY <1>1, <1>8 DEF CloseCohort, Closed, SliceOk, SliceFields, ListView
  <2>2. /\ auth = "logged-in" /\ used' = used
        /\ UNCHANGED <<auth, sessionRound, liveSessionRound, flight, jar, good, hasPassword, holder,
                       writers, crossed>>
    BY <1>8 DEF CloseCohort, service, history
  <2> QED
    BY <2>1, <2>2, ClickKeeps
<1>9. CASE CloseSettings
  <2>1. PICK s : s = Idled("settings")
    OBVIOUS
  <2>2. SliceOk(s) /\ \A o \in Markers : s.busy[o] \in {slice.busy[o], Nil}
    BY <1>1, <2>1, MarkedIsOk DEF Markers
  <2>3. slice' = [s EXCEPT !.view = ListView, !.errors = @ \ {"settings"}]
    BY <1>9, <2>1 DEF CloseSettings
  <2>4. SliceOk(slice') /\ slice'.busy = s.busy
    BY <2>2, <2>3 DEF SliceOk, SliceFields, ListView
  <2>5. /\ auth = "logged-in" /\ used' = [used EXCEPT !["acts"] = @ + 1]
        /\ UNCHANGED <<auth, sessionRound, liveSessionRound, flight, jar, good, hasPassword, holder,
                       writers, crossed>>
    BY <1>9 DEF CloseSettings, Count, service, history
  <2> QED
    BY <2>2, <2>4, <2>5, ClickKeeps
<1> QED
  BY <1>5, <1>6, <1>7, <1>8, <1>9 DEF Clicks

\* The console as it is mounted.
LEMMA ConsoleInitOk == ConsoleInit => ConsoleInv
<1> SUFFICES ASSUME ConsoleInit PROVE ConsoleInv
  OBVIOUS
<1>1. SliceOk(Reset) /\ \A m \in Markers : Reset.busy[m] = Nil
  BY ResetIsOk
<1>2. \A q \in Flight : flight[q] = Landed
  BY DEF ConsoleInit
<1>3. StoreTypes
  BY <1>1, <1>2 DEF ConsoleInit, StoreTypes, SliceOk
<1>4. LiveInv
  BY DEF ConsoleInit, LiveInv
<1>5. RoundInv
  BY <1>2 DEF RoundInv
<1>6. SpinnerInv
  BY <1>1 DEF ConsoleInit, SpinnerInv
<1>7. IdInv
  BY <1>2, LandedIs, NilAssumption DEF ConsoleInit, IdInv
<1>8. DetailIsOfTheOpenCohort
  BY <1>1 DEF ConsoleInit, DetailIsOfTheOpenCohort, SliceOk
<1> QED
  BY <1>3, <1>4, <1>5, <1>6, <1>7, <1>8 DEF ConsoleInv

\* One step of the console, of its requests or of the service.
LEMMA ConsoleNextOk == ConsoleInv /\ [ConsoleNext]_consoleVars => ConsoleInv'
<1> SUFFICES ASSUME ConsoleInv, [ConsoleNext]_consoleVars PROVE ConsoleInv'
  OBVIOUS
<1>1. CASE UNCHANGED consoleVars
  <2>1. good' \subseteq good /\ hasPassword' \in BOOLEAN
        /\ UNCHANGED <<store, flight, jar, history, used>>
    BY <1>1 DEF consoleVars, service, ConsoleInv, StoreTypes
  <2> QED
    BY <2>1, ServiceForgets
<1>2. ASSUME NEW q \in Flight, Probe(q) \/ SignIn(q) \/ Asks(q)
      PROVE  ConsoleInv'
  BY <1>2, ProbeKeeps, SignInKeeps, AsksKeep
<1>3. ASSUME NEW q \in Flight, Answer(q)
      PROVE  ConsoleInv'
  BY <1>3, AnswerKeeps
<1>4. ASSUME NEW q \in Flight,
             ProbeLands(q) \/ SignInLands(q) \/ SignOutLands(q) \/ GatedAnswers(q)
      PROVE  ConsoleInv'
  BY <1>4, ProbeLandsKeeps, SignInLandsKeeps, SignOutLandsKeeps, GatedAnswersKeep
<1>5. CASE Clicks
  BY <1>5, ClicksKeep
<1>6. CASE SessionEnds \/ Reboot
  <2>1. good' \subseteq good /\ hasPassword' \in BOOLEAN
        /\ UNCHANGED <<store, flight, jar, history, used>>
    BY <1>6 DEF SessionEnds, Reboot, ConsoleInv, StoreTypes
  <2> QED
    BY <2>1, ServiceForgets
<1> QED
  BY <1>1, <1>2, <1>3, <1>4, <1>5, <1>6 DEF ConsoleNext

\* The console's invariant: a session, its round, its cookie and its requests in
\* flight tell one story, whatever order the answers land in.
THEOREM ConsoleInvariant == ConsoleSpec => []ConsoleInv
<1>1. ConsoleInit => ConsoleInv
  BY ConsoleInitOk
<1>2. ConsoleInv /\ [ConsoleNext]_consoleVars => ConsoleInv'
  BY ConsoleNextOk
<1> QED
  BY <1>1, <1>2, PTL DEF ConsoleSpec

\* No late answer of an earlier session paints the slice (operator.ts:852-916,
\* 1253-1275).
THEOREM SessionsOwnTheSlice == ConsoleSpec => []SliceOwned
<1>1. ConsoleInv => SliceOwned
  BY DEF ConsoleInv, LiveInv, SliceOwned
<1> QED
  BY <1>1, ConsoleInvariant, PTL

\* Behind every busy control, and behind "checking" and "logging in", there is the
\* request that will end it (operator.ts:796-843, 1061-1166).
THEOREM SpinnersHaveRequests == ConsoleSpec => []NoDeadSpinner
<1>1. ConsoleInv => NoDeadSpinner
  BY DEF ConsoleInv, SpinnerInv, NoDeadSpinner
<1> QED
  BY <1>1, ConsoleInvariant, PTL

\* The document under an open cohort is that cohort's (operator.ts:1851-1908).
THEOREM DetailsBelong == ConsoleSpec => []DetailIsOfTheOpenCohort
<1>1. ConsoleInv => DetailIsOfTheOpenCohort
  BY DEF ConsoleInv
<1> QED
  BY <1>1, ConsoleInvariant, PTL

-----------------------------------------------------------------------------

\* A step on one slot leaves the others.
OneSlot(q) == \A p \in Flight \ {q} : flight'[p] = flight[p]

\* What the property asks of a step.
RefusedRightly ==
    \A q \in Flight :
       (/\ flight[q].verb \notin {Nil, "probe", "login", "logout"}
        /\ flight'[q] # flight[q]
        /\ flight[q].answer # Nil
        /\ liveSessionRound # Nil /\ liveSessionRound' = Nil)
       => holder \notin good

\* A step that leaves the live session alone refuses nothing.
LEMMA StillLive ==
    ASSUME StoreTypes, liveSessionRound' = liveSessionRound
    PROVE  RefusedRightly
BY DEF RefusedRightly

\* Nor does a step on a slot that holds no gated request.
LEMMA OtherSlot ==
    ASSUME NEW q \in Flight, OneSlot(q), flight[q].verb \in {Nil, "probe", "login", "logout"}
    PROVE  RefusedRightly
BY DEF RefusedRightly, OneSlot

\* A gated answer that ends the session carried the session's own id, refused.
LEMMA GatedEnds ==
    ASSUME ConsoleInv, NEW q \in Flight, flight[q].verb \in GatedVerbs,
           flight[q].answer = "unauthorized", StillAsking(flight[q].asked), liveSessionRound # Nil
    PROVE  holder \notin good
<1>1. flight[q] # Landed
  BY LandedIs
<1>2. flight[q].cookie = holder
  BY <1>1 DEF ConsoleInv, RoundInv, RoundOf, StillAsking
<1>3. flight[q].cookie \notin good
  BY DEF ConsoleInv, IdInv
<1> QED
  BY <1>2, <1>3

\* A gated landing leaves the live session alone, or it is a refusal of its own round.
EndsOnlyItself(q) ==
    /\ flight[q].verb \in GatedVerbs
    /\ \/ liveSessionRound' = liveSessionRound
       \/ flight[q].answer = "unauthorized" /\ StillAsking(flight[q].asked)

\* Of the gated landings only a refusal of the running round ends the session.
LEMMA LandsEnd ==
    ASSUME NEW q \in Flight, GatedAnswers(q)
    PROVE  EndsOnlyItself(q)
<1> USE DEF EndsOnlyItself
<1> USE DEF Lands, IsBack, Writes, NoSessionChange, ExpireIfStillAsking, StillAsking, GatedVerbs
<1>1. CASE RefreshLands(q)
  BY <1>1 DEF RefreshLands
<1>2. CASE SubmitLands(q)
  BY <1>2 DEF SubmitLands
<1>3. CASE SaveEditLands(q)
  BY <1>3 DEF SaveEditLands
<1>4. CASE AdvertiseLands(q)
  BY <1>4 DEF AdvertiseLands
<1>5. CASE ReadvertiseLands(q)
  BY <1>5 DEF ReadvertiseLands
<1>6. CASE DiscardLands(q)
  BY <1>6 DEF DiscardLands
<1>7. CASE DismissLands(q)
  BY <1>7 DEF DismissLands
<1>8. CASE PollLands(q)
  BY <1>8 DEF PollLands
<1>9. CASE ExportLands(q)
  BY <1>9 DEF ExportLands
<1>10. CASE CancelLands(q)
  BY <1>10 DEF CancelLands
<1>11. CASE FinalizeLands(q)
  BY <1>11 DEF FinalizeLands
<1>12. CASE AddTestPeersLands(q)
  BY <1>12 DEF AddTestPeersLands
<1>13. CASE ToggleLands(q)
  BY <1>13 DEF ToggleLands
<1>14. CASE BroadcastLands(q)
  BY <1>14 DEF BroadcastLands
<1>15. CASE LoadLands(q)
  BY <1>15 DEF LoadLands
<1>16. CASE SaveLands(q)
  BY <1>16 DEF SaveLands
<1> QED
  BY <1>1, <1>2, <1>3, <1>4, <1>5, <1>6, <1>7, <1>8, <1>9, <1>10, <1>11, <1>12, <1>13, <1>14, <1>15, <1>16 DEF GatedAnswers

\* So a gated landing that ends it ends the session it was refused for.
LEMMA GatedAnswersEnd ==
    ASSUME ConsoleInv, NEW q \in Flight, GatedAnswers(q)
    PROVE  RefusedRightly
<1>1. EndsOnlyItself(q) /\ StoreTypes
  BY LandsEnd DEF ConsoleInv
<1>2. CASE flight[q].answer = "unauthorized" /\ StillAsking(flight[q].asked)
  BY <1>1, <1>2, GatedEnds DEF RefusedRightly, EndsOnlyItself
<1>3. CASE liveSessionRound' = liveSessionRound
  BY <1>1, <1>3, StillLive
<1> QED
  BY <1>1, <1>2, <1>3 DEF EndsOnlyItself

\* Asking ends no session.
LEMMA AsksEnd ==
    ASSUME NEW q \in Flight, Asks(q)
    PROVE  liveSessionRound' = liveSessionRound
<1>1. ASSUME NEW verb, NEW c, NEW marked, Ask(q, verb, c, marked)
      PROVE  liveSessionRound' = liveSessionRound
  BY <1>1 DEF Ask
<1> QED
  BY <1>1 DEF Asks, SignOut, RefreshCohorts, SubmitDraft, SaveDraftEdit, Advertise, Readvertise,
     Discard, DismissEnded, PollDetail, ExportCohort, CancelCohort, FinalizeCohort, AddTestPeers,
     Lifecycle, AdvertisingToggle, SwitchBroadcastOff, OpenSettings, LoadSettings, SaveSettings

\* A 401 signs out the session it was an answer to, which the service no longer
\* honours, and no other (operator.ts:926-935).
THEOREM RefusalsAreOwn == ConsoleSpec => RefusalEndsItsOwnSession
<1>1. ConsoleInv /\ [ConsoleNext]_consoleVars => [RefusedRightly]_consoleVars
  <2> SUFFICES ASSUME ConsoleInv, ConsoleNext PROVE RefusedRightly
    OBVIOUS
  <2>1. StoreTypes
    BY DEF ConsoleInv
  <2>2. ASSUME NEW q \in Flight, Probe(q) \/ SignIn(q) \/ Answer(q)
        PROVE  RefusedRightly
    BY <2>1, <2>2, StillLive DEF Probe, SignIn, Answer, store
  <2>3. ASSUME NEW q \in Flight, Asks(q)
        PROVE  RefusedRightly
    BY <2>1, <2>3, AsksEnd, StillLive
  <2>4. ASSUME NEW q \in Flight, ProbeLands(q) \/ SignInLands(q) \/ SignOutLands(q)
        PROVE  RefusedRightly
    <3>1. flight[q].verb \in {"probe", "login", "logout"} /\ \E n : flight' = [flight EXCEPT ![q] = n]
      BY <2>4 DEF ProbeLands, SignInLands, SignOutLands, Done, ThenList, ProbeFindsSession
    <3>2. OneSlot(q)
      BY <2>1, <3>1 DEF OneSlot, StoreTypes
    <3> QED
      BY <3>1, <3>2, OtherSlot
  <2>5. ASSUME NEW q \in Flight, GatedAnswers(q)
        PROVE  RefusedRightly
    BY <2>5, GatedAnswersEnd
  <2>6. CASE Clicks
    BY <2>1, <2>6, StillLive DEF Clicks, BeginEdit, OpenCohort, CancelEdit, CloseCohort, CloseSettings
  <2>7. CASE SessionEnds \/ Reboot
    BY <2>1, <2>7, StillLive DEF SessionEnds, Reboot, store
  <2> QED
    BY <2>2, <2>3, <2>4, <2>5, <2>6, <2>7 DEF ConsoleNext
<1>2. [RefusedRightly]_consoleVars =>
        [\A q \in Flight :
          (/\ flight[q].verb \notin {Nil, "probe", "login", "logout"}
           /\ flight'[q] # flight[q]
           /\ flight[q].answer # Nil
           /\ liveSessionRound # Nil /\ liveSessionRound' = Nil)
          => holder \notin good]_consoleVars
  BY DEF RefusedRightly
<1> QED
  BY <1>1, <1>2, ConsoleInvariant, PTL DEF ConsoleSpec, RefusalEndsItsOwnSession

================================================================================

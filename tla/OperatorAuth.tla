----------------------------- MODULE OperatorAuth -----------------------------
(***************************************************************************)
(* The gate in front of the operator routes (operator-auth.ts): sessions   *)
(* with a lifetime, the cookie a browser holds for one, and the fixed      *)
(* window that counts failed logins per client address.                    *)
(*                                                                         *)
(* A request that carries a body is answered in two steps, because the     *)
(* handler awaits the body after its first check: a login after the        *)
(* throttle's check, any other request after the session's.                *)
(***************************************************************************)
EXTENDS Integers, FiniteSets

CONSTANTS
    Browser,       \* operators' browsers, each with one cookie jar
    Address,       \* remote addresses
    AddressOf,     \* the address a browser's requests come from
    Slot,          \* requests whose body is awaited at one time
    MaxAttempts,   \* maxAttempts (10 in the code)
    WindowMs,      \* windowMs (5 minutes in the code)
    TtlMs,         \* sessionTtlMs (24 hours unless set)
    Second,        \* milliseconds to the second
    MaxNow,        \* bound: the clock stops here
    MaxSessions,   \* bound: logins that succeed
    MaxRestarts,   \* bound: process restarts
    None           \* no record, no session

ASSUME AuthAssumption ==
    /\ MaxAttempts \in Nat \ {0} /\ WindowMs \in Nat /\ TtlMs \in Nat
    /\ Second \in Nat \ {0} /\ MaxNow \in Nat /\ MaxSessions \in Nat
    /\ MaxRestarts \in Nat
    /\ AddressOf \in [Browser -> Address]
    /\ IsFiniteSet(Slot)
    /\ None \notin Nat \cup [count : Nat, resetAt : Nat]

VARIABLES
    now,          \* Date.now()
    sessions,     \* session id -> expiresAt, for the sessions in the Map
    minted,       \* ids handed out: newSessionId never repeats one
    attempts,     \* address -> its failures in the current window
    cookie,       \* browser -> the operator_session cookie it holds
    request,      \* slot -> the request whose body is awaited
    refused,      \* history: address -> end of the window it was refused for
    restarts      \* process restarts so far

authVars == <<now, sessions, minted, attempts, cookie, request, refused, restarts>>

Idle == [kind |-> "idle", browser |-> None, payload |-> None]
Free(r) == request[r] = Idle
Reading(a) ==
    {r \in Slot : request[r].kind = "login" /\ AddressOf[request[r].browser] = a}

AuthInit ==
    /\ now = 0
    /\ sessions = [id \in {} |-> 0]
    /\ minted = 0
    /\ attempts = [a \in Address |-> None]
    /\ cookie = [b \in Browser |-> None]
    /\ request = [r \in Slot |-> Idle]
    /\ refused = [a \in Address |-> None]
    /\ restarts = 0

-----------------------------------------------------------------------------
(* Sessions *)

\* isValid; an expired record is evicted when it is read.
Valid(id) == id \in DOMAIN sessions /\ now <= sessions[id]

Without(id) == [s \in DOMAIN sessions \ {id} |-> sessions[s]]

Evicted(id) == IF id \in DOMAIN sessions /\ ~Valid(id) THEN Without(id) ELSE sessions

\* setCookie with maxAge = floor(sessionTtlMs / 1000).
MaxAge == (TtlMs \div Second) * Second

\* The id the browser sends: a cookie past its age is not sent.
Sent(b) == IF cookie[b] # None /\ now < cookie[b].dropAt THEN cookie[b].id ELSE None

\* requireOperator
Admitted(b) == Valid(Sent(b))
Gate(b) == sessions' = Evicted(Sent(b))

-----------------------------------------------------------------------------
(* The throttle *)

Lapsed(a) == attempts[a] # None /\ now > attempts[a].resetAt

Allows_OneMore(a) ==   \* mutant
    attempts[a] = None \/ Lapsed(a) \/ attempts[a].count <= MaxAttempts

\* check
Allows(a) == attempts[a] = None \/ Lapsed(a) \/ attempts[a].count < MaxAttempts
Checked(a) == IF Lapsed(a) THEN [attempts EXCEPT ![a] = None] ELSE attempts

Opened == [count |-> 1, resetAt |-> now + WindowMs]
Counted(w) == [w EXCEPT !.count = @ + 1]

Failed_Early(a) ==   \* mutant: the window is over at the instant it ends
    [attempts EXCEPT ![a] =
        IF @ = None \/ now >= @.resetAt THEN Opened ELSE Counted(@)]

\* fail
Failed(a) ==
    [attempts EXCEPT ![a] =
        IF @ = None \/ Lapsed(a) THEN Opened ELSE Counted(@)]

-----------------------------------------------------------------------------
(* Login and logout *)

\* loginHandler up to its await: the check, and 429 when the window is full.
LoginArrives(b, r) ==
    LET a == AddressOf[b]
    IN  /\ Free(r)
        /\ attempts' = Checked(a)
        /\ IF Allows(a)
             THEN /\ request' = [request EXCEPT ![r] =
                        [kind |-> "login", browser |-> b, payload |-> None]]
                  /\ UNCHANGED refused
             ELSE /\ refused' = [refused EXCEPT ![a] = attempts[a].resetAt]
                  /\ UNCHANGED request
        /\ UNCHANGED <<now, sessions, minted, cookie, restarts>>

Answered(r) == request' = [request EXCEPT ![r] = Idle]

\* A body that does not parse is answered 400 and counted as nothing.
LoginMalformed(r) ==
    /\ request[r].kind = "login"
    /\ Answered(r)
    /\ UNCHANGED <<now, sessions, minted, attempts, cookie, refused, restarts>>

LoginFails(r) ==
    /\ request[r].kind = "login"
    /\ attempts' = Failed(AddressOf[request[r].browser])
    /\ Answered(r)
    /\ UNCHANGED <<now, sessions, minted, cookie, refused, restarts>>

\* The right password: a session, its cookie, and a clean count for the address.
LoginSucceeds(r) ==
    LET b == request[r].browser
        id == minted + 1
    IN  /\ request[r].kind = "login"
        /\ minted < MaxSessions
        /\ minted' = id
        /\ sessions' = [s \in DOMAIN sessions \cup {id} |->
                            IF s = id THEN now + TtlMs ELSE sessions[s]]
        /\ cookie' = [cookie EXCEPT ![b] = [id |-> id, dropAt |-> now + MaxAge]]
        /\ attempts' = [attempts EXCEPT ![AddressOf[b]] = None]
        /\ refused' = [refused EXCEPT ![AddressOf[b]] = None]
        /\ Answered(r)
        /\ UNCHANGED <<now, restarts>>

\* logoutHandler stands behind the gate: a request without a session keeps its
\* cookie.
Logout(b) ==
    /\ Sent(b) # None
    /\ IF Admitted(b)
         THEN sessions' = Without(Sent(b)) /\ cookie' = [cookie EXCEPT ![b] = None]
         ELSE Gate(b) /\ UNCHANGED cookie
    /\ UNCHANGED <<now, minted, attempts, request, refused, restarts>>

\* sessionProbeHandler, and every read behind the gate.
GatedRead(b) ==
    /\ Sent(b) # None
    /\ Gate(b)
    /\ UNCHANGED <<now, minted, attempts, cookie, request, refused, restarts>>

Tick ==
    /\ now < MaxNow
    /\ now' = now + 1
    /\ UNCHANGED <<sessions, minted, attempts, cookie, request, refused, restarts>>

\* The process dies: its Maps go, the browsers' cookies stay.
RestartAuth ==
    /\ restarts < MaxRestarts
    /\ restarts' = restarts + 1
    /\ sessions' = [id \in {} |-> 0]
    /\ attempts' = [a \in Address |-> None]
    /\ request' = [r \in Slot |-> Idle]
    /\ refused' = [a \in Address |-> None]
    /\ UNCHANGED <<now, minted, cookie>>

AuthNext ==
    \/ \E b \in Browser, r \in Slot : LoginArrives(b, r)
    \/ \E r \in Slot : LoginMalformed(r) \/ LoginFails(r) \/ LoginSucceeds(r)
    \/ \E b \in Browser : Logout(b) \/ GatedRead(b)
    \/ Tick

-----------------------------------------------------------------------------
(* Properties *)

\* Concurrent logins all pass the check before the first failure is counted, yet
\* a window never counts more than the limit and the requests that could be in
\* flight beside the one that filled it (operator-auth.ts:232-244).
AttemptsBounded ==
    \A a \in Address : attempts[a] # None =>
        attempts[a].count + Cardinality(Reading(a)) <= MaxAttempts - 1 + Cardinality(Slot)

\* An address that was refused is not let in again before that window is over,
\* whatever fails in the meantime, unless a login from it succeeded
\* (operator-auth.ts:126-148).
RefusalsHold ==
    [][\A r \in Slot :
          (request[r].kind # "login" /\ request'[r].kind = "login") =>
              LET a == AddressOf[request'[r].browser]
              IN  refused[a] = None \/ now > refused[a]]_authVars

================================================================================

----------------------------- MODULE Auth_proofs ------------------------------
(***************************************************************************)
(* Theorems about Auth for any number of handlers, addresses, emails and   *)
(* tokens, and any limit, window and session lifetime.                     *)
(***************************************************************************)
EXTENDS Auth, FiniteSetTheorems, TLAPS

(* Only logins reach the limiter, and they name an address and an email.   *)
LoginSteps == {"allow", "verify", "fail", "reset", "cleanup", "create"}
LoginsAreNamed ==
  \A h \in Handlers :
    /\ requests[h].step \in LoginSteps => requests[h].kind = "login"
    /\ requests[h].kind = "login" =>
         requests[h].ip \in Addresses /\ requests[h].email \in Emails

(* The session a stale request names is over for good, and a principal is  *)
(* a token that was drawn.                                                 *)
StaleAreOver ==
  \A h \in Handlers :
    /\ requests[h].stale =>
         /\ requests[h].token \in issued
         /\ ~Live(requests[h].token)
         /\ requests[h].principal = None
    /\ requests[h].token \in issued \cup {None}
    /\ requests[h].principal \in issued \cup {None}

(* Failures already counted for a key and logins let in that may still     *)
(* fail on it.                                                             *)
Count(key) == IF key \in DOMAIN attempts THEN attempts[key].count ELSE 0
InFlight(key) ==
  {h \in Handlers : requests[h].step \in {"verify", "fail"} /\ key \in KeysOf(h)}
Most == Limit - 1 + Cardinality(Handlers)
FailuresAndChecks == \A key \in Keys : Count(key) + Cardinality(InFlight(key)) <= Most

TablesOK ==
  /\ issued \subseteq Tokens
  /\ DOMAIN sessions \subseteq issued
  /\ sessions \in [DOMAIN sessions -> 0..Ttl]
  /\ DOMAIN attempts \subseteq Keys
  /\ attempts \in [DOMAIN attempts -> [count : Nat \ {0}, left : 0..Window]]
RequestsOK == requests \in [Handlers -> Request] /\ LoginsAreNamed /\ StaleAreOver

Typed == TypeOK /\ LoginsAreNamed /\ StaleAreOver
IInv == Typed /\ FailuresAndChecks

-------------------------------------------------------------------------------
(* The initial state.                                                      *)
LEMMA InitTyped == Init => Typed
BY NoneAssumption, LimitsAssumption
   DEF Init, Typed, TypeOK, LoginsAreNamed, LoginSteps, StaleAreOver, Idle, Request,
       Steps, Kinds, Live

(* The keys of a login with an address and an email are limiter keys.      *)
LEMMA LoginKeysAreKeys ==
  ASSUME NEW ip \in Addresses, NEW email \in Emails
  PROVE  LoginKeys(ip, email) \subseteq Keys
BY DEF Keys

(* Typed, by the tables and by the requests.                               *)
LEMMA TypedParts == Typed <=> TablesOK /\ RequestsOK
BY DEF Typed, TypeOK, TablesOK, RequestsOK

(* What requests are told of sessions stays true: none comes to life that  *)
(* was drawn before.                                                       *)
SessionsKept ==
  /\ issued \subseteq issued'
  /\ \A token \in issued : Live(token)' => Live(token)

(* A handler moves to a step that its request is for.                      *)
LEMMA Moves ==
  ASSUME Typed, SessionsKept, NEW h \in Handlers, NEW s \in Steps, Go(h, s),
         s \in LoginSteps => requests[h].kind = "login"
  PROVE  RequestsOK'
<1>1. /\ requests \in [Handlers -> Request]
      /\ requests' = [requests EXCEPT ![h].step = s]
  BY DEF Typed, TypeOK, Go
<1>2. requests[h] \in Request
  BY <1>1
<1>3. [requests[h] EXCEPT !.step = s] \in Request
  BY <1>2 DEF Request
<1>4. requests' \in [Handlers -> Request]
  BY <1>1, <1>3
<1>5. ASSUME NEW g \in Handlers
      PROVE  /\ requests'[g].kind = requests[g].kind
             /\ requests'[g].ip = requests[g].ip
             /\ requests'[g].email = requests[g].email
             /\ requests'[g].token = requests[g].token
             /\ requests'[g].stale = requests[g].stale
             /\ requests'[g].principal = requests[g].principal
             /\ requests'[g].step = IF g = h THEN s ELSE requests[g].step
  BY <1>1, <1>2 DEF Request
<1>6. LoginsAreNamed'
  BY <1>5 DEF Typed, LoginsAreNamed
<1>7. StaleAreOver'
  BY <1>5 DEF Typed, StaleAreOver, SessionsKept
<1> QED
  BY <1>4, <1>6, <1>7 DEF RequestsOK

(* A handler is given a new request record, or done with its request.      *)
LEMMA Replaces ==
  ASSUME Typed, SessionsKept, NEW h \in Handlers, NEW r \in Request,
         requests' = [requests EXCEPT ![h] = r],
         r.step \in LoginSteps => r.kind = "login",
         r.kind = "login" => r.ip \in Addresses /\ r.email \in Emails,
         r.stale => r.token \in issued' /\ ~Live(r.token)' /\ r.principal = None,
         r.token \in issued' \cup {None},
         r.principal \in issued' \cup {None}
  PROVE  RequestsOK'
<1>1. requests \in [Handlers -> Request]
  BY DEF Typed, TypeOK
<1>2. requests' \in [Handlers -> Request]
  BY <1>1
<1>3. \A g \in Handlers : requests'[g] = IF g = h THEN r ELSE requests[g]
  BY <1>1
<1>4. LoginsAreNamed'
  BY <1>3 DEF Typed, LoginsAreNamed
<1>5. StaleAreOver'
  BY <1>3 DEF Typed, StaleAreOver, SessionsKept
<1> QED
  BY <1>2, <1>4, <1>5 DEF RequestsOK

(* The record of a handler that waits is a request, and no login.          *)
LEMMA IdleRequest ==
  /\ Idle \in Request
  /\ Idle.step = "idle" /\ Idle.kind = "page" /\ Idle.stale = FALSE
  /\ Idle.token = None /\ Idle.principal = None
BY DEF Idle, Request, Steps, Kinds

(* A handler that has answered waits.                                      *)
LEMMA Answers ==
  ASSUME Typed, SessionsKept, NEW h \in Handlers, Answer(h)
  PROVE  RequestsOK'
BY Replaces, IdleRequest, Zenon DEF Answer, LoginSteps

(* What every step keeps of the types, of logins and of stale requests.    *)
LEMMA StepTyped == Typed /\ [Next]_vars => Typed'
<1> SUFFICES ASSUME Typed, [Next]_vars PROVE TablesOK' /\ RequestsOK'
  BY TypedParts, PTL
<1>0. TablesOK /\ RequestsOK
  BY TypedParts
<1>1. CASE UNCHANGED vars
  BY <1>0, <1>1 DEF vars, TablesOK, RequestsOK, LoginsAreNamed, StaleAreOver, Live
<1>2. CASE Tick
  <2>1. TablesOK'
    <3>1. ASSUME NEW n \in Nat, NEW left \in 0..n PROVE Less(left) \in 0..n
      BY DEF Less
    <3>2. /\ DOMAIN sessions' = DOMAIN sessions
          /\ \A t \in DOMAIN sessions : sessions'[t] \in 0..Ttl
      BY <1>0, <1>2, <3>1, LimitsAssumption DEF TablesOK, Tick
    <3>3. sessions' \in [DOMAIN sessions' -> 0..Ttl]
      BY <1>2, <3>2 DEF Tick
    <3>4. ASSUME NEW key \in DOMAIN attempts
          PROVE  [attempts[key] EXCEPT !.left = Less(@)] \in [count : Nat \ {0}, left : 0..Window]
      BY <1>0, <3>1, LimitsAssumption DEF TablesOK
    <3>5. /\ DOMAIN attempts' = DOMAIN attempts
          /\ attempts' \in [DOMAIN attempts -> [count : Nat \ {0}, left : 0..Window]]
      BY <1>2, <3>4 DEF Tick
    <3> QED BY <1>0, <1>2, <3>2, <3>3, <3>5 DEF TablesOK, Tick
  <2>2. SessionsKept
    BY <1>0, <1>2 DEF TablesOK, SessionsKept, Tick, Less, Live
  <2>3. RequestsOK'
    BY <1>0, <1>2, <2>2
       DEF RequestsOK, LoginsAreNamed, StaleAreOver, SessionsKept, Tick
  <2> QED BY <2>1, <2>3
<1>3. CASE Restart
  <2>1. TablesOK'
    BY <1>0, <1>3 DEF TablesOK, Restart, Unexpired, Restrict
  <2>2. RequestsOK'
    BY <1>3, IdleRequest
       DEF RequestsOK, LoginsAreNamed, LoginSteps, StaleAreOver, Restart
  <2> QED BY <2>1, <2>2
<1>4. ASSUME NEW h \in Handlers, Handle(h) PROVE TablesOK' /\ RequestsOK'
  <2>1. requests[h] \in Request /\ requests[h].principal \in Tokens \cup {None}
    BY <1>0 DEF RequestsOK, Request
  <2>2. /\ requests[h].step \in LoginSteps => requests[h].kind = "login"
        /\ requests[h].kind = "login" =>
             requests[h].ip \in Addresses /\ requests[h].email \in Emails
    BY <1>0 DEF RequestsOK, LoginsAreNamed
  <2>3. requests[h].token \in issued \cup {None}
    BY <1>0 DEF RequestsOK, StaleAreOver
  <2>4. CASE \/ Receive(h) \/ AttachNoSession(h) \/ SessionByToken(h) \/ TouchSession(h)
             \/ Route(h) \/ VerifyAdminPassword(h) \/ Serve(h)
    <3>0. UNCHANGED <<attempts, sessions, issued>>
      BY <2>4 DEF Receive, AttachNoSession, SessionByToken, TouchSession, Route,
                  VerifyAdminPassword, Serve
    <3>1. TablesOK' /\ SessionsKept
      BY <1>0, <3>0 DEF TablesOK, SessionsKept, Live
    <3>2. CASE Receive(h)
      <4>1. PICK kind \in Kinds, token \in issued \cup {None} :
              \E ip \in IF kind = "login" THEN Addresses ELSE {None},
                 email \in IF kind = "login" THEN Emails ELSE {None} :
                requests' = [requests EXCEPT ![h] =
                  [step |-> "attach", kind |-> kind, token |-> token, ip |-> ip,
                   email |-> email, principal |-> None,
                   stale |-> token # None /\ ~Live(token)]]
        BY <3>2, Zenon DEF Receive
      <4>2. PICK ip \in IF kind = "login" THEN Addresses ELSE {None},
                 email \in IF kind = "login" THEN Emails ELSE {None} :
                requests' = [requests EXCEPT ![h] =
                  [step |-> "attach", kind |-> kind, token |-> token, ip |-> ip,
                   email |-> email, principal |-> None,
                   stale |-> token # None /\ ~Live(token)]]
        BY <4>1, Zenon
      <4> DEFINE r == [step |-> "attach", kind |-> kind, token |-> token, ip |-> ip,
                       email |-> email, principal |-> None,
                       stale |-> token # None /\ ~Live(token)]
      <4>3. /\ r.step = "attach" /\ r.kind = kind /\ r.token = token
            /\ r.ip = ip /\ r.email = email /\ r.principal = None
            /\ r.stale = (token # None /\ ~Live(token))
        OBVIOUS
      <4>4. r \in Request
        BY <1>0 DEF Request, Steps, Kinds, TablesOK
      <4>5. requests' = [requests EXCEPT ![h] = r]
        BY <4>2
      <4>6. Live(token)' <=> Live(token)
        BY <3>0 DEF Live
      <4>7. issued' = issued
        BY <3>0
      <4> HIDE DEF r
      <4> QED BY <3>1, <4>3, <4>4, <4>5, <4>6, <4>7, Replaces DEF LoginSteps
    <3>3. CASE AttachNoSession(h)
      BY <3>1, <3>3, Moves DEF AttachNoSession, Steps, LoginSteps
    <3>4. CASE SessionByToken(h)
      <4> DEFINE token == requests[h].token
                 live == [requests[h] EXCEPT !.step = "touch", !.principal = token]
                 over == [requests[h] EXCEPT !.step = "expire"]
      <4>1. token \in DOMAIN sessions /\ token \in issued
        BY <1>0, <3>4 DEF SessionByToken, TablesOK
      <4>2. CASE Live(token)
        <5>1. requests' = [requests EXCEPT ![h] = live]
          BY <3>4, <4>2 DEF SessionByToken
        <5>2. live \in Request /\ live.step = "touch" /\ live.principal = token
              /\ live.kind = requests[h].kind /\ live.ip = requests[h].ip
              /\ live.email = requests[h].email /\ live.token = token
              /\ live.stale = requests[h].stale
          BY <2>1, <4>1, <1>0 DEF Request, Steps, TablesOK
        <5>3. ~live.stale
          BY <1>0, <4>2, <5>2 DEF RequestsOK, StaleAreOver
        <5>4. live.token \in issued' \cup {None} /\ live.principal \in issued'
          BY <3>0, <4>1, <5>2
        <5> HIDE DEF live
        <5> QED BY <2>2, <3>1, <5>1, <5>2, <5>3, <5>4, Replaces DEF LoginSteps
      <4>3. CASE ~Live(token)
        <5>1. Go(h, "expire")
          BY <2>1, <3>4, <4>3, <1>0 DEF SessionByToken, Go, RequestsOK
        <5> QED BY <3>1, <5>1, Moves DEF Steps, LoginSteps
      <4> QED BY <3>1, <4>2, <4>3
    <3>5. CASE TouchSession(h)
      BY <3>1, <3>5, Moves DEF TouchSession, Steps, LoginSteps
    <3>6. CASE Route(h)
      BY <3>1, <3>6, Moves, Answers DEF Route, Steps, LoginSteps
    <3>7. CASE VerifyAdminPassword(h)
      BY <2>2, <3>1, <3>7, Moves, Answers DEF VerifyAdminPassword, At, Steps, LoginSteps
    <3>8. CASE Serve(h)
      BY <3>1, <3>8, Answers DEF Serve
    <3> QED
      BY <2>4, <3>2, <3>3, <3>4, <3>5, <3>6, <3>7, <3>8
  <2>5. CASE DeleteExpiredSession(h) \/ DeleteExpired(h) \/ Logout(h)
    <3>1. TablesOK' /\ SessionsKept
      BY <1>0, <2>5 DEF TablesOK, SessionsKept, Live, DeleteExpiredSession, DeleteExpired,
                        Logout, Without, Unexpired, Restrict
    <3> QED BY <2>2, <2>5, <3>1, Moves, Answers
            DEF DeleteExpiredSession, DeleteExpired, Logout, At, Steps, LoginSteps
  <2>6. CASE Allow(h) \/ Reset(h)
    <3>1. TablesOK' /\ SessionsKept
      BY <1>0, <2>6 DEF TablesOK, SessionsKept, Live, Allow, Reset, Pruned, Restrict
    <3> QED BY <2>2, <2>6, <3>1, Moves, Answers DEF Allow, Reset, At, Steps, LoginSteps
  <2>7. CASE RecordFailure(h)
    <3>1. KeysOf(h) \subseteq Keys
      BY <2>2, <2>7, LoginKeysAreKeys DEF LoginSteps, RecordFailure, At, KeysOf
    <3>2. TablesOK' /\ SessionsKept
      BY <1>0, <2>7, <3>1, LimitsAssumption
         DEF TablesOK, SessionsKept, Live, RecordFailure, Counted, Current
    <3> QED BY <2>7, <3>2, Answers DEF RecordFailure
  <2>8. CASE CreateSession(h)
    <3>0. CASE UNCHANGED <<sessions, issued>>
      BY <1>0, <2>8, <3>0, Answers
         DEF TablesOK, SessionsKept, Live, CreateSession
    <3>1. CASE \E token \in Tokens \ issued :
                 sessions' = NewSession(token) /\ issued' = issued \cup {token}
      <4>1. PICK token \in Tokens \ issued :
              sessions' = NewSession(token) /\ issued' = issued \cup {token}
        BY <3>1
      <4>2. /\ DOMAIN sessions' = DOMAIN sessions \cup {token}
            /\ \A t \in DOMAIN sessions' :
                 sessions'[t] = IF t = token THEN Ttl ELSE sessions[t]
            /\ sessions' \in [DOMAIN sessions' -> 0..Ttl]
        BY <1>0, <4>1, LimitsAssumption DEF TablesOK, NewSession
      <4>3. TablesOK'
        BY <1>0, <2>8, <4>1, <4>2 DEF TablesOK, CreateSession
      <4>4. SessionsKept
        BY <1>0, <4>1, <4>2 DEF TablesOK, SessionsKept, Live
      <4> QED BY <2>8, <4>3, <4>4, Answers DEF CreateSession
    <3> QED BY <2>8, <3>0, <3>1 DEF CreateSession
  <2> QED
    BY <1>4, <2>4, <2>5, <2>6, <2>7, <2>8 DEF Handle
<1> QED
  BY <1>1, <1>2, <1>3, <1>4, Zenon DEF Next

-------------------------------------------------------------------------------
(* How many failures a key may have.                                       *)

(* Sizes: a key has a count, and no more logins in flight than handlers.   *)
LEMMA Sizes ==
  ASSUME TypeOK, NEW key
  PROVE  /\ Count(key) \in Nat
         /\ Cardinality(InFlight(key)) \in Nat /\ IsFiniteSet(InFlight(key))
         /\ Cardinality(Handlers) \in Nat
         /\ InFlight(key) \subseteq Handlers
<1>1. InFlight(key) \subseteq Handlers
  BY DEF InFlight
<1>2. IsFiniteSet(InFlight(key))
  BY <1>1, FS_Subset, HandlersAssumption
<1> QED
  BY <1>1, <1>2, FS_CardinalityType, HandlersAssumption DEF Count, TypeOK

(* The bound is kept for a key that gains neither failures nor logins.     *)
LEMMA NoMore ==
  ASSUME TypeOK, TypeOK', NEW key \in Keys, Count(key) + Cardinality(InFlight(key)) <= Most,
         Count(key)' <= Count(key), InFlight(key)' \subseteq InFlight(key)
  PROVE  Count(key)' + Cardinality(InFlight(key)') <= Most
<1>1. Count(key) \in Nat /\ Cardinality(InFlight(key)) \in Nat /\ IsFiniteSet(InFlight(key))
  BY Sizes
<1>2. Cardinality(InFlight(key)') <= Cardinality(InFlight(key))
  BY <1>1, FS_Subset
<1>3. IsFiniteSet(InFlight(key)')
  BY <1>1, FS_Subset
<1>4. Cardinality(InFlight(key)') \in Nat
  BY <1>3, FS_CardinalityType
<1>5. Count(key)' \in Nat
  BY DEF Count, TypeOK
<1>6. Most \in Int
  BY LimitsAssumption, FS_CardinalityType, HandlersAssumption DEF Most
<1> QED
  BY <1>1, <1>2, <1>4, <1>5, <1>6

(* The bound is kept by every step.                                        *)
LEMMA StepFailures == IInv /\ Typed' /\ [Next]_vars => FailuresAndChecks'
<1> SUFFICES ASSUME IInv, Typed', [Next]_vars, NEW key \in Keys
             PROVE  Count(key)' + Cardinality(InFlight(key)') <= Most
  BY DEF FailuresAndChecks
<1>0. /\ TypeOK /\ TypeOK'
      /\ Count(key) + Cardinality(InFlight(key)) <= Most
      /\ requests \in [Handlers -> Request]
      /\ \A k \in DOMAIN attempts : attempts[k].count \in Nat \ {0}
  BY DEF IInv, Typed, FailuresAndChecks, TypeOK
<1>1. /\ Count(key) \in Nat /\ Cardinality(Handlers) \in Nat
      /\ Cardinality(InFlight(key)) \in Nat /\ IsFiniteSet(InFlight(key))
      /\ Limit \in Nat \ {0} /\ Most = Limit - 1 + Cardinality(Handlers)
  BY <1>0, Sizes, LimitsAssumption DEF Most
<1>2. CASE UNCHANGED vars
  <2>1. Count(key)' = Count(key) /\ InFlight(key)' = InFlight(key)
    BY <1>2 DEF vars, Count, InFlight, KeysOf
  <2> QED BY <1>0, <2>1
<1>3. CASE Tick
  <2>1. Count(key)' = Count(key)
    BY <1>0, <1>3 DEF Tick, Count, TypeOK
  <2>2. InFlight(key)' = InFlight(key)
    BY <1>3 DEF Tick, InFlight, KeysOf
  <2> QED BY <1>0, <2>1, <2>2
<1>4. CASE Restart
  <2>1. Count(key)' <= Count(key)
    BY <1>1, <1>4 DEF Restart, Count
  <2>2. InFlight(key)' \subseteq InFlight(key)
    BY <1>4, IdleRequest DEF Restart, InFlight
  <2> QED BY <1>0, <2>1, <2>2, NoMore
<1>5. ASSUME NEW h \in Handlers, Handle(h)
      PROVE  Count(key)' + Cardinality(InFlight(key)') <= Most
  <2>1. ASSUME NEW s \in Steps, Go(h, s)
        PROVE  \A g \in Handlers :
                 /\ KeysOf(g)' = KeysOf(g)
                 /\ requests'[g].step = IF g = h THEN s ELSE requests[g].step
    BY <1>0, <2>1 DEF Go, KeysOf, Request
  <2>2. ASSUME Answer(h)
        PROVE  InFlight(key)' \subseteq InFlight(key) \ {h}
    BY <1>0, <2>2, IdleRequest DEF Answer, InFlight, KeysOf
  <2>3. ASSUME NEW s \in Steps, Go(h, s),
               s \in {"verify", "fail"} => requests[h].step \in {"verify", "fail"}
        PROVE  InFlight(key)' \subseteq InFlight(key)
    BY <2>1, <2>3 DEF InFlight
  <2>4. CASE RecordFailure(h)
    <3>1. InFlight(key)' \subseteq InFlight(key) \ {h}
      BY <2>2, <2>4 DEF RecordFailure
    <3>2. CASE key \notin KeysOf(h)
      <4>1. Count(key)' = Count(key)
        <5>1. attempts' = Counted(KeysOf(h))
          BY <2>4 DEF RecordFailure
        <5>2. /\ DOMAIN attempts' = DOMAIN attempts \cup KeysOf(h)
              /\ key \in DOMAIN attempts => attempts'[key] = attempts[key]
          BY <3>2, <5>1 DEF Counted
        <5> QED BY <3>2, <5>2 DEF Count
      <4> QED BY <1>0, <1>1, <3>1, <4>1, NoMore
    <3>3. CASE key \in KeysOf(h)
      <4>1. h \in InFlight(key)
        BY <2>4, <3>3 DEF RecordFailure, At, InFlight
      <4>2. /\ IsFiniteSet(InFlight(key) \ {h})
            /\ Cardinality(InFlight(key) \ {h}) = Cardinality(InFlight(key)) - 1
        BY <1>1, <4>1, FS_RemoveElement
      <4>3. /\ Cardinality(InFlight(key)') <= Cardinality(InFlight(key)) - 1
            /\ IsFiniteSet(InFlight(key)')
        BY <3>1, <4>2, FS_Subset
      <4>4. Cardinality(InFlight(key)') \in Nat
        BY <4>3, FS_CardinalityType
      <4>5. CASE Current(key)
        <5>1. Count(key)' = Count(key) + 1
          BY <1>0, <2>4, <3>3, <4>5
             DEF RecordFailure, Counted, Count, Current, TypeOK
        <5> QED BY <1>0, <1>1, <4>3, <4>4, <5>1
      <4>6. CASE ~Current(key)
        <5>1. Count(key)' = 1
          BY <2>4, <3>3, <4>6 DEF RecordFailure, Counted, Count
        <5>2. Cardinality(InFlight(key)) <= Cardinality(Handlers)
          BY FS_Subset, HandlersAssumption DEF InFlight
        <5> QED BY <1>1, <4>3, <4>4, <5>1, <5>2
      <4> QED BY <4>5, <4>6
    <3> QED BY <3>2, <3>3
  <2>5. CASE Allow(h)
    <3>1. Count(key)' <= Count(key)
      BY <1>0, <1>1, <2>5 DEF Allow, Pruned, Restrict, Count
    <3>2. CASE Answer(h)
      BY <1>0, <2>2, <3>1, <3>2, NoMore
    <3>3. CASE key \notin KeysOf(h) /\ Go(h, "verify")
      <4>1. InFlight(key)' \subseteq InFlight(key)
        BY <2>1, <3>3 DEF InFlight, Steps
      <4> QED BY <1>0, <3>1, <4>1, NoMore
    <3>4. CASE key \in KeysOf(h) /\ ~Blocked(key)
      <4>1. Count(key)' <= Limit - 1
        <5>1. attempts' = Restrict(attempts, {k \in DOMAIN attempts : attempts[k].left > 0})
          BY <2>5 DEF Allow, Pruned
        <5>2. /\ DOMAIN attempts' = {k \in DOMAIN attempts : attempts[k].left > 0}
              /\ key \in DOMAIN attempts' => attempts'[key] = attempts[key]
          BY <5>1 DEF Restrict
        <5>3. CASE key \in DOMAIN attempts'
          <6>1. ~(attempts[key].count >= Limit)
            BY <3>4, <5>2, <5>3 DEF Blocked, Current
          <6>2. attempts[key].count \in Nat \ {0}
            BY <1>0, <5>2, <5>3
          <6> QED BY <1>1, <5>2, <5>3, <6>1, <6>2 DEF Count
        <5>4. CASE key \notin DOMAIN attempts'
          BY <1>1, <5>4 DEF Count
        <5> QED BY <5>3, <5>4
      <4>2. /\ Cardinality(InFlight(key)') <= Cardinality(Handlers)
            /\ IsFiniteSet(InFlight(key)')
        BY FS_Subset, HandlersAssumption DEF InFlight
      <4>3. Cardinality(InFlight(key)') \in Nat
        BY <4>2, FS_CardinalityType
      <4>4. Count(key)' \in Nat
        BY <1>0 DEF Count, TypeOK
      <4> QED BY <1>1, <4>1, <4>2, <4>3, <4>4
    <3> QED BY <2>5, <3>2, <3>3, <3>4 DEF Allow
  <2>6. CASE Reset(h)
    <3>1. Count(key)' <= Count(key)
      BY <1>0, <1>1, <2>6 DEF Reset, Restrict, Count
    <3>2. InFlight(key)' \subseteq InFlight(key)
      BY <2>3, <2>6 DEF Reset, Steps
    <3> QED BY <1>0, <3>1, <3>2, NoMore
  <2>7. CASE Receive(h)
    <3>1. Count(key)' = Count(key)
      BY <2>7 DEF Receive, Count
    <3>2. requests'[h].step = "attach" /\ \A g \in Handlers \ {h} : requests'[g] = requests[g]
      BY <1>0, <2>7 DEF Receive
    <3>3. InFlight(key)' \subseteq InFlight(key)
      BY <3>2 DEF InFlight, KeysOf
    <3> QED BY <1>0, <1>1, <3>1, <3>3, NoMore
  <2>8. CASE SessionByToken(h)
    <3>1. Count(key)' = Count(key)
      BY <2>8 DEF SessionByToken, Count
    <3>2. /\ requests'[h].step \in {"touch", "expire"}
          /\ \A g \in Handlers \ {h} : requests'[g] = requests[g]
      BY <1>0, <2>8 DEF SessionByToken, Request
    <3>3. InFlight(key)' \subseteq InFlight(key)
      BY <3>2 DEF InFlight, KeysOf
    <3> QED BY <1>0, <1>1, <3>1, <3>3, NoMore
  <2>9. CASE \/ AttachNoSession(h) \/ DeleteExpiredSession(h) \/ TouchSession(h) \/ Route(h)
             \/ VerifyAdminPassword(h) \/ DeleteExpired(h) \/ CreateSession(h)
             \/ Logout(h) \/ Serve(h)
    <3>1. Count(key)' = Count(key)
      BY <2>9 DEF AttachNoSession, DeleteExpiredSession, TouchSession, Route,
                  VerifyAdminPassword, DeleteExpired, CreateSession, Logout, Serve, Count
    <3>2. InFlight(key)' \subseteq InFlight(key)
      BY <2>2, <2>3, <2>9
         DEF AttachNoSession, DeleteExpiredSession, TouchSession, Route,
             VerifyAdminPassword, DeleteExpired, CreateSession, Logout, Serve, At, Steps
    <3> QED BY <1>0, <1>1, <3>1, <3>2, NoMore
  <2> QED
    BY <1>5, <2>4, <2>5, <2>6, <2>7, <2>8, <2>9 DEF Handle
<1> QED
  BY <1>2, <1>3, <1>4, <1>5, Zenon DEF Next

-------------------------------------------------------------------------------
(* The inductive invariant holds of every behaviour.                       *)
THEOREM Invariance == Spec => []IInv
<1>1. Init => IInv
  <2> SUFFICES ASSUME Init, NEW key \in Keys PROVE Count(key) + Cardinality(InFlight(key)) <= Most
    BY InitTyped DEF IInv, FailuresAndChecks
  <2>1. Count(key) = 0 /\ InFlight(key) = {}
    BY IdleRequest DEF Init, Count, InFlight
  <2> QED
    BY <2>1, FS_EmptySet, FS_CardinalityType, HandlersAssumption, LimitsAssumption DEF Most
<1>2. IInv /\ [Next]_vars => IInv'
  BY StepTyped, StepFailures DEF IInv
<1> QED
  BY <1>1, <1>2, PTL DEF Spec

(* Counts, windows, rows and requests have their types.                    *)
THEOREM TypeCorrect == Spec => []TypeOK
<1>1. IInv => TypeOK
  BY DEF IInv, Typed
<1> QED
  BY <1>1, Invariance, PTL

(* However the steps of handlers fall among windows, resets and restarts,  *)
(* logins overrun the limit by one for each other handler and no more.     *)
THEOREM Bounded == Spec => []FailuresBounded
<1>1. ASSUME IInv, NEW key \in DOMAIN attempts
      PROVE  attempts[key].count <= Limit - 1 + Cardinality(Handlers)
  <2>1. TypeOK /\ key \in Keys /\ Count(key) = attempts[key].count
    BY <1>1 DEF IInv, Typed, TypeOK, Count
  <2>2. Count(key) + Cardinality(InFlight(key)) <= Most
    BY <1>1, <2>1 DEF IInv, FailuresAndChecks
  <2> QED
    BY <2>1, <2>2, Sizes, LimitsAssumption DEF Most
<1>2. IInv => FailuresBounded
  BY <1>1 DEF FailuresBounded
<1> QED
  BY <1>2, Invariance, PTL

(* A request whose session was over when it arrived is never given a       *)
(* principal.                                                              *)
THEOREM StaleAnonymous == Spec => []StaleRequestsAreAnonymous
<1>1. IInv => StaleRequestsAreAnonymous
  BY DEF IInv, Typed, StaleAreOver, StaleRequestsAreAnonymous
<1> QED
  BY <1>1, Invariance, PTL

(* No step brings an ended session back or prolongs one.                   *)
THEOREM SessionsEnd == Spec => EndedSessionsStayEnded
<1>1. ASSUME IInv, [Next]_vars, NEW token \in issued, token \in DOMAIN sessions'
      PROVE  token \in DOMAIN sessions /\ sessions'[token] <= sessions[token]
  <2>1. /\ \A t \in DOMAIN sessions : sessions[t] \in Nat
        /\ Ttl \in Nat
    BY <1>1, LimitsAssumption DEF IInv, Typed, TypeOK
  <2>2. CASE UNCHANGED sessions
    BY <1>1, <2>1, <2>2
  <2>3. CASE Tick
    BY <1>1, <2>1, <2>3 DEF Tick, Less
  <2>4. CASE Restart
    BY <1>1, <2>1, <2>4 DEF Restart, Unexpired, Restrict
  <2>5. ASSUME NEW h \in Handlers,
               DeleteExpiredSession(h) \/ DeleteExpired(h) \/ Logout(h)
        PROVE  token \in DOMAIN sessions /\ sessions'[token] <= sessions[token]
    BY <1>1, <2>1, <2>5
       DEF DeleteExpiredSession, DeleteExpired, Logout, Without, Unexpired, Restrict
  <2>6. ASSUME NEW h \in Handlers, CreateSession(h)
        PROVE  token \in DOMAIN sessions /\ sessions'[token] <= sessions[token]
    <3>1. CASE UNCHANGED sessions
      BY <2>2, <3>1
    <3>2. CASE \E t \in Tokens \ issued : sessions' = NewSession(t)
      <4>1. PICK t \in Tokens \ issued : sessions' = NewSession(t)
        BY <3>2
      <4>2. token # t
        BY <1>1, <4>1
      <4> QED BY <1>1, <2>1, <4>1, <4>2 DEF NewSession
    <3> QED BY <2>6, <3>1, <3>2 DEF CreateSession
  <2> QED
    BY <1>1, <2>2, <2>3, <2>4, <2>5, <2>6
       DEF Next, Handle, vars, Receive, AttachNoSession, SessionByToken, TouchSession, Route,
           Allow, VerifyAdminPassword, RecordFailure, Reset, Serve
<1>2. IInv /\ [Next]_vars =>
        [\A token \in issued : token \in DOMAIN sessions' =>
           token \in DOMAIN sessions /\ sessions'[token] <= sessions[token]]_vars
  BY <1>1
<1> QED
  BY <1>2, Invariance, PTL DEF Spec, EndedSessionsStayEnded
===============================================================================

--------------------------------- MODULE Auth ---------------------------------
(***************************************************************************)
(* Signing in and out: internal/auth over the sessions table, the login    *)
(* limiter of internal/security, and the gate in front of the API in       *)
(* internal/server.                                                        *)
(*                                                                         *)
(* The server runs one goroutine per request.  An SQL statement is atomic, *)
(* and so is each of the limiter's methods, which hold its mutex; a        *)
(* request is several of them, and other requests run in between.          *)
(*                                                                         *)
(* Time is what is left of it: a session and a window of failed logins     *)
(* each count down to 0, the instant from which the code takes them as     *)
(* expired, and Tick lets some of it pass.                                 *)
(***************************************************************************)
EXTENDS Integers, FiniteSets, Functions

CONSTANTS
  Handlers,   \* goroutines that serve requests
  Addresses,  \* addresses requests come from
  Emails,     \* emails a login may name
  Admin,      \* the email of the admin user
  Tokens,     \* session tokens that may be drawn
  Limit,      \* failed logins before a key is blocked
  Window,     \* ticks for which failures are counted together
  Ttl,        \* ticks a session lives
  None        \* no token, no address, no email

ASSUME HandlersAssumption == IsFiniteSet(Handlers)
ASSUME LimitsAssumption ==
  Limit \in Nat \ {0} /\ Window \in Nat \ {0} /\ Ttl \in Nat \ {0}
ASSUME NoneAssumption == None \notin Tokens

VARIABLES
  attempts,  \* LoginLimiter.attempts: key -> count and what is left of its window
  sessions,  \* the sessions table: token -> what is left of it
  issued,    \* every token drawn so far
  requests   \* what each handler is doing

vars == <<attempts, sessions, issued, requests>>

-------------------------------------------------------------------------------
(* Requests.  A page stands for every route behind the gate but logout;    *)
(* "stale" remembers, for the properties, that the session named by the      *)
(* cookie was over when the request arrived.                               *)

Kinds == {"login", "logout", "page"}

Steps == {"idle", "attach", "expire", "touch", "route", "allow", "verify", "fail",
          "reset", "cleanup", "create", "logout", "serve"}

Request == [step : Steps, kind : Kinds, token : Tokens \cup {None},
            ip : Addresses \cup {None}, email : Emails \cup {None},
            principal : Tokens \cup {None}, stale : BOOLEAN]

Idle == [step |-> "idle", kind |-> "page", token |-> None, ip |-> None,
         email |-> None, principal |-> None, stale |-> FALSE]

At(h, step) == requests[h].step = step
Go(h, step) == requests' = [requests EXCEPT ![h].step = step]
Answer(h) == requests' = [requests EXCEPT ![h] = Idle]

(* The sessions table.                                                     *)
Live(token) == token \in DOMAIN sessions /\ sessions[token] > 0
Without(token) == Restrict(sessions, DOMAIN sessions \ {token})
Unexpired == Restrict(sessions, {t \in DOMAIN sessions : sessions[t] > 0})
NewSession(token) ==
  [t \in DOMAIN sessions \cup {token} |-> IF t = token THEN Ttl ELSE sessions[t]]

(* The limiter counts a failure of a login under three keys.               *)
LoginKeys(ip, email) == {<<"ip", ip>>, <<"email", email>>, <<"ip-email", ip, email>>}
KeysOf(h) == LoginKeys(requests[h].ip, requests[h].email)
Keys == UNION {LoginKeys(ip, email) : ip \in Addresses, email \in Emails}

Current(key) == key \in DOMAIN attempts /\ attempts[key].left > 0

(* Mutant: blocks one failure late. *)
BlockedPastLimit(key) == Current(key) /\ attempts[key].count > Limit

Blocked(key) == Current(key) /\ attempts[key].count >= Limit
Pruned == Restrict(attempts, {key \in DOMAIN attempts : attempts[key].left > 0})

(* Mutant: the failure that opens a window is not counted. *)
CountedFromSecond(keys) ==
  [key \in DOMAIN attempts \cup keys |->
    IF key \notin keys THEN attempts[key]
    ELSE IF Current(key) THEN [attempts[key] EXCEPT !.count = @ + 1]
    ELSE [count |-> 0, left |-> Window]]

Counted(keys) ==
  [key \in DOMAIN attempts \cup keys |->
    IF key \notin keys THEN attempts[key]
    ELSE IF Current(key) THEN [attempts[key] EXCEPT !.count = @ + 1]
    ELSE [count |-> 1, left |-> Window]]

-------------------------------------------------------------------------------
(* AttachSession: every request first has its cookie looked up.            *)

Receive(h) ==
  /\ At(h, "idle")
  /\ \E kind \in Kinds, token \in issued \cup {None} :
     \E ip \in IF kind = "login" THEN Addresses ELSE {None},
        email \in IF kind = "login" THEN Emails ELSE {None} :
       requests' = [requests EXCEPT ![h] =
         [step |-> "attach", kind |-> kind, token |-> token, ip |-> ip, email |-> email,
          principal |-> None, stale |-> token # None /\ ~Live(token)]]
  /\ UNCHANGED <<attempts, sessions, issued>>

(* No cookie, no such row, or a failed query: the request goes on without  *)
(* a principal.                                                            *)
AttachNoSession(h) ==
  /\ At(h, "attach")
  /\ Go(h, "route")
  /\ UNCHANGED <<attempts, sessions, issued>>

(* Mutant: the expiry of the row is not looked at. *)
SessionByTokenOfAnyAge(h) ==
  /\ At(h, "attach")
  /\ requests[h].token \in DOMAIN sessions
  /\ requests' = [requests EXCEPT ![h] =
       [@ EXCEPT !.step = "touch", !.principal = requests[h].token]]
  /\ UNCHANGED <<attempts, sessions, issued>>

(* SessionByToken reads the row and looks at its expiry.                   *)
SessionByToken(h) ==
  LET token == requests[h].token IN
  /\ At(h, "attach")
  /\ token \in DOMAIN sessions
  /\ requests' = [requests EXCEPT ![h] =
       IF Live(token) THEN [@ EXCEPT !.step = "touch", !.principal = token]
                      ELSE [@ EXCEPT !.step = "expire"]]
  /\ UNCHANGED <<attempts, sessions, issued>>

(* The expired row is deleted; whether the DELETE worked is ignored.       *)
DeleteExpiredSession(h) ==
  /\ At(h, "expire")
  /\ sessions' \in {sessions, Without(requests[h].token)}
  /\ Go(h, "route")
  /\ UNCHANGED <<attempts, issued>>

(* Mutant: a touch writes the row it read, with a new lifetime. *)
TouchSessionRenews(h) ==
  /\ At(h, "touch")
  /\ sessions' = NewSession(requests[h].principal)
  /\ Go(h, "route")
  /\ UNCHANGED <<attempts, issued>>

(* TouchSession sets last_seen_at of a row that may be gone by now: the    *)
(* expiry stays as it is, and an UPDATE brings no row back.                *)
TouchSession(h) ==
  /\ At(h, "touch")
  /\ Go(h, "route")
  /\ UNCHANGED <<attempts, sessions, issued>>

(* protectRoutes and CSRFMiddleware: a login is let through, anything else *)
(* needs a principal.  Any of them may be refused: no principal, a wrong   *)
(* CSRF token, a body that is no login.                                    *)
Route(h) ==
  LET r == requests[h] IN
  /\ At(h, "route")
  /\ \/ r.kind = "login" /\ Go(h, "allow")
     \/ r.kind = "logout" /\ r.principal # None /\ Go(h, "logout")
     \/ r.kind = "page" /\ r.principal # None /\ Go(h, "serve")
     \/ Answer(h)
  /\ UNCHANGED <<attempts, sessions, issued>>

-------------------------------------------------------------------------------
(* Login.                                                                  *)

(* Mutant: a refused attempt starts the windows of its keys again. *)
AllowProlongs(h) ==
  LET refused == \E key \in KeysOf(h) : Blocked(key) IN
  /\ At(h, "allow")
  /\ attempts' = [key \in DOMAIN Pruned |->
       IF refused /\ key \in KeysOf(h) THEN [Pruned[key] EXCEPT !.left = Window]
                                       ELSE Pruned[key]]
  /\ IF refused THEN Answer(h) ELSE Go(h, "verify")
  /\ UNCHANGED <<sessions, issued>>

(* LoginLimiter.Allow drops the windows that are over, then refuses if any *)
(* of the keys is at the limit.                                            *)
Allow(h) ==
  /\ At(h, "allow")
  /\ attempts' = Pruned
  /\ IF \E key \in KeysOf(h) : Blocked(key) THEN Answer(h) ELSE Go(h, "verify")
  /\ UNCHANGED <<sessions, issued>>

(* VerifyAdminPassword takes a query and an argon2id hash: the right       *)
(* password of the admin, a failure, or an error.                          *)
VerifyAdminPassword(h) ==
  /\ At(h, "verify")
  /\ \/ requests[h].email = Admin /\ Go(h, "reset")
     \/ Go(h, "fail")
     \/ Answer(h)
  /\ UNCHANGED <<attempts, sessions, issued>>

RecordFailure(h) ==
  /\ At(h, "fail")
  /\ attempts' = Counted(KeysOf(h))
  /\ Answer(h)
  /\ UNCHANGED <<sessions, issued>>

Reset(h) ==
  /\ At(h, "reset")
  /\ attempts' = Restrict(attempts, DOMAIN attempts \ KeysOf(h))
  /\ Go(h, "cleanup")
  /\ UNCHANGED <<sessions, issued>>

(* Whether the cleanup worked is ignored.                                  *)
DeleteExpired(h) ==
  /\ At(h, "cleanup")
  /\ sessions' \in {sessions, Unexpired}
  /\ Go(h, "create")
  /\ UNCHANGED <<attempts, issued>>

(* A token is drawn that was never drawn before (32 random bytes).  The    *)
(* INSERT may fail; once it worked the row is there, even if the answer    *)
(* with the cookie is lost.                                                *)
CreateSession(h) ==
  /\ At(h, "create")
  /\ \/ \E token \in Tokens \ issued :
          /\ sessions' = NewSession(token)
          /\ issued' = issued \cup {token}
     \/ UNCHANGED <<sessions, issued>>
  /\ Answer(h)
  /\ UNCHANGED attempts

-------------------------------------------------------------------------------
(* Logout answers that all is well even if its DELETE failed.              *)
Logout(h) ==
  /\ At(h, "logout")
  /\ sessions' \in {sessions, Without(requests[h].principal)}
  /\ Answer(h)
  /\ UNCHANGED <<attempts, issued>>

Serve(h) ==
  /\ At(h, "serve")
  /\ Answer(h)
  /\ UNCHANGED <<attempts, sessions, issued>>

(* Time passes for every session and every window.                         *)
Less(left) == IF left = 0 THEN 0 ELSE left - 1

Tick ==
  /\ sessions' = [t \in DOMAIN sessions |-> Less(sessions[t])]
  /\ attempts' = [key \in DOMAIN attempts |-> [attempts[key] EXCEPT !.left = Less(@)]]
  /\ UNCHANGED <<issued, requests>>

(* The process stops, at any point, and starts again: the limiter is in    *)
(* memory and the sessions are not.  main deletes expired sessions, and    *)
(* goes on if that fails.                                                  *)
Restart ==
  /\ attempts' = <<>>
  /\ sessions' \in {sessions, Unexpired}
  /\ requests' = [h \in Handlers |-> Idle]
  /\ UNCHANGED issued

Handle(h) ==
  \/ Receive(h) \/ AttachNoSession(h) \/ SessionByToken(h) \/ DeleteExpiredSession(h)
  \/ TouchSession(h) \/ Route(h) \/ Allow(h) \/ VerifyAdminPassword(h)
  \/ RecordFailure(h) \/ Reset(h) \/ DeleteExpired(h) \/ CreateSession(h)
  \/ Logout(h) \/ Serve(h)

Init ==
  /\ attempts = <<>>
  /\ sessions = <<>>
  /\ issued = {}
  /\ requests = [h \in Handlers |-> Idle]

Next == Tick \/ Restart \/ \E h \in Handlers : Handle(h)

Spec == Init /\ [][Next]_vars

(* Time goes on.  Nothing is assumed of clients.                           *)
FairSpec == Spec /\ WF_vars(Tick)

-------------------------------------------------------------------------------
(* Properties.                                                             *)

(* Counts are positive and windows and sessions no longer than they were   *)
(* given; no row but of a drawn token.                                     *)
TypeOK ==
  /\ issued \subseteq Tokens
  /\ DOMAIN sessions \subseteq issued
  /\ sessions \in [DOMAIN sessions -> 0..Ttl]
  /\ DOMAIN attempts \subseteq Keys
  /\ attempts \in [DOMAIN attempts -> [count : Nat \ {0}, left : 0..Window]]
  /\ requests \in [Handlers -> Request]

(* Allow and RecordFailure are separate critical sections with a slow      *)
(* password check in between, so logins that were let in together may      *)
(* overrun the limit: by one for each other handler, and by no more,       *)
(* however their steps fall among windows, resets and restarts.            *)
FailuresBounded ==
  \A key \in DOMAIN attempts : attempts[key].count <= Limit - 1 + Cardinality(Handlers)

(* What the limiter's test says of it: past the limit no attempt fails any *)
(* more, it is blocked.                                                    *)
FailuresWithinLimit == \A key \in DOMAIN attempts : attempts[key].count <= Limit

(* A request whose session was already over when it arrived - logged out,  *)
(* cleaned up or expired - never gets a principal, whatever touches,       *)
(* cleanups, logins and restarts run while its cookie is looked up.        *)
StaleRequestsAreAnonymous ==
  \A h \in Handlers : requests[h].stale => requests[h].principal = None

(* Nothing brings an ended session back or makes a session live longer:    *)
(* not the touch of a request that read it before it was deleted, and not  *)
(* a restart.                                                              *)
EndedSessionsStayEnded ==
  [][\A token \in issued :
       token \in DOMAIN sessions' =>
         token \in DOMAIN sessions /\ sessions'[token] <= sessions[token]]_vars

(* A blocked key is let go, however long clients keep trying: a refused    *)
(* attempt does not prolong the window it was refused in.                  *)
BlocksEnd == \A key \in Keys : Blocked(key) ~> ~Blocked(key)
===============================================================================

-------------------------------- MODULE Shell --------------------------------
(***************************************************************************)
(* Signing in and out as the browser lives it: the session and the token   *)
(* of web/src/lib/api.js, the gate of App.jsx, Login.jsx, LogoutButton.jsx *)
(* and the interval of Sidebar.jsx.  Auth.tla models the server; here it   *)
(* only knows which session the browser's cookie names, if it lives.       *)
(*                                                                         *)
(* The gate is a router: it renders a redirect and follows it at once, so  *)
(* a step ends at the path the redirects end at, and mounts its page anew  *)
(* when it went through another one.                                       *)
(***************************************************************************)
EXTENDS Integers, FiniteSets

CONSTANTS
    MaxShellCalls,  \* (bound) calls on their way at once
    ShellActs,      \* (bound) what the user, another tab and the clock do
    ShellFaults     \* (bound) calls without an answer

None  == 0          \* no session, no token
Paths == {"login", "page", "share"}
Kinds == {"session", "login", "logout", "read", "write"}

VARIABLES
    cookie,     \* the live session the browser's cookie names
    issued,     \* sessions issued so far
    path,       \* the route shown
    authenticated, loading,   \* state of Shell
    csrf,       \* csrfToken: the session it is of
    calls,      \* on their way
    doubt,      \* history: the page may no longer know who is signed in
    acts, faults

vars == <<cookie, issued, path, authenticated, loading, csrf, calls, doubt, acts, faults>>

-----------------------------------------------------------------------------
FreeSlots(cs) == {n \in 1..MaxShellCalls : \A c \in cs : c.slot # n}
\* Only a call that changes something carries the token.
Call(kind, cs) ==
    [slot |-> CHOOSE n \in FreeSlots(cs) : TRUE, kind |-> kind,
     token |-> IF kind \in {"session", "read"} THEN None ELSE csrf,
     status |-> "sent", session |-> None]
Sent(kind, cs) == cs \cup {Call(kind, cs)}

\* Where the redirects of the gate end.
Landed(p, signedIn) ==
    CASE p = "page" /\ ~signedIn -> "login"
      [] p = "login" /\ signedIn -> "page"
      [] OTHER -> p

Mounted == path = "page" /\ authenticated /\ ~loading

\* The gate shows p, through a redirect or not. A page that is mounted reads.
Show(p, signedIn, again, cs) ==
    /\ path' = Landed(p, signedIn)
    /\ IF path' = "page" /\ signedIn /\ (again \/ ~Mounted)
       THEN FreeSlots(cs) # {} /\ calls' = Sent("read", cs)
       ELSE calls' = cs

Stay(c) == calls' = calls \ {c} /\ UNCHANGED path

\* Any API answer of 401, unless the path is /login: the path becomes /login,
\* which the gate leaves again at once while it takes the user for signed in.
Unauthenticated(c) ==
    IF path = "login" THEN Stay(c)
    ELSE Show("login", authenticated, TRUE, calls \ {c})

-----------------------------------------------------------------------------
(* The user, other tabs and the clock. One call of a kind at a time.       *)

Ready(kind) == ~loading /\ FreeSlots(calls) # {} /\ ~\E c \in calls : c.kind = kind

Send(kind) ==
    /\ Ready(kind)
    /\ calls' = Sent(kind, calls)
    /\ UNCHANGED <<cookie, issued, path, authenticated, loading, csrf, doubt, faults>>

SignIn == path = "login" /\ Send("login")
Logout == Mounted /\ Send("logout")
Change == Mounted /\ Send("write")

\* The server redirects a request for a page without a session, and one for the
\* login page with one. What the page left behind had on its way is cancelled.
Reload(p) ==
    /\ path' = Landed(p, cookie # None)
    /\ loading' = TRUE /\ authenticated' = FALSE /\ csrf' = None
    /\ calls' = Sent("session", {}) /\ doubt' = FALSE
    /\ UNCHANGED <<cookie, issued, faults>>

EndElsewhere ==
    /\ cookie # None
    /\ cookie' = None /\ doubt' = TRUE
    /\ UNCHANGED <<issued, path, authenticated, loading, csrf, calls, faults>>

SignInElsewhere ==
    /\ issued' = issued + 1 /\ cookie' = issued' /\ doubt' = TRUE
    /\ UNCHANGED <<path, authenticated, loading, csrf, calls, faults>>

UserActs == acts > 0 /\ acts' = acts - 1 /\
    (SignIn \/ Logout \/ Change \/ EndElsewhere \/ SignInElsewhere \/ \E p \in Paths : Reload(p))

\* The interval the sidebar sets, on every path: it is mounted with the gate.
NavTimer == Send("read") /\ UNCHANGED acts

-----------------------------------------------------------------------------
(* The server: the gate and the CSRF check of internal/server and          *)
(* internal/auth.                                                          *)

Answered(c, status, s) == calls' = (calls \ {c}) \cup {[c EXCEPT !.status = status, !.session = s]}

Serve(c) ==
    /\ c.status = "sent"
    /\ \/ /\ c.kind = "session" /\ Answered(c, "ok", cookie)
          /\ UNCHANGED <<cookie, issued>>
       \/ /\ c.kind = "login"
          /\ \/ issued' = issued + 1 /\ cookie' = issued' /\ Answered(c, "ok", issued')
             \/ Answered(c, "401", None) /\ UNCHANGED <<cookie, issued>>
       \/ /\ c.kind \in {"logout", "read", "write"}
          /\ \/ cookie = None /\ Answered(c, "401", None) /\ UNCHANGED cookie
             \/ /\ cookie # None /\ c.kind # "read" /\ c.token # cookie
                /\ Answered(c, "403", None) /\ UNCHANGED cookie
             \/ /\ cookie # None /\ (c.kind = "read" \/ c.token = cookie)
                /\ Answered(c, "ok", None)
                /\ cookie' = IF c.kind = "logout" THEN None ELSE cookie
          /\ UNCHANGED issued
    /\ UNCHANGED <<path, authenticated, loading, csrf, doubt, acts, faults>>

-----------------------------------------------------------------------------
(* Answers.                                                                *)

\* refreshSession, on load and on every authChanged.
SessionKnown(c, s) ==
    /\ authenticated' = (s # None) /\ loading' = FALSE
    /\ Show(path, s # None, FALSE, calls \ {c})

(* Mutant: the token of the session is not kept.                           *)
SessionAnsweredWithoutToken(c) ==
    /\ c.kind = "session" /\ c.status = "ok"
    /\ SessionKnown(c, c.session)
    /\ UNCHANGED <<cookie, issued, csrf, doubt, acts, faults>>

SessionAnswered(c) ==
    /\ c.kind = "session" /\ c.status = "ok"
    /\ SessionKnown(c, c.session) /\ csrf' = c.session
    /\ UNCHANGED <<cookie, issued, doubt, acts, faults>>

\* Both send authChanged, then show their path: the gate still goes by what it
\* knew before.
AuthChanged(c, p) ==
    LET left == calls \ {c} IN
    /\ Show(p, authenticated, p # path, Sent("session", left))
    /\ doubt' = (doubt \/ \E o \in left : o.kind = "session")
    /\ UNCHANGED <<cookie, issued, authenticated, loading, acts, faults>>

LoginAnswered(c) ==
    /\ c.kind = "login" /\ c.status = "ok"
    /\ csrf' = c.session
    /\ AuthChanged(c, "page")

LogoutAnswered(c) ==
    /\ c.kind = "logout" /\ c.status = "ok"
    /\ csrf' = None
    /\ AuthChanged(c, "login")

\* The page has its answer, or shows why not.
OtherAnswered(c) ==
    /\ \/ c.status = "401" /\ Unauthenticated(c)
       \/ c.status = "403" /\ Stay(c)
       \/ c.status = "ok" /\ c.kind \in {"read", "write"} /\ Stay(c)
    /\ UNCHANGED <<cookie, issued, authenticated, loading, csrf, doubt, acts, faults>>

\* No answer: only the gate reacts, and takes the user for signed out.
Lost(c) ==
    /\ faults > 0 /\ faults' = faults - 1
    /\ IF c.kind = "session" THEN SessionKnown(c, None)
       ELSE Stay(c) /\ UNCHANGED <<authenticated, loading>>
    /\ doubt' = (doubt \/ c.kind \in {"session", "login", "logout"})
    /\ UNCHANGED <<cookie, issued, csrf, acts>>

Answer(c) == SessionAnswered(c) \/ LoginAnswered(c) \/ LogoutAnswered(c) \/ OtherAnswered(c)
Moves == \E c \in calls : Serve(c) \/ Answer(c) \/ Lost(c)

-----------------------------------------------------------------------------
TypeOK ==
    /\ {cookie, issued, csrf, acts, faults} \subseteq Nat
    /\ path \in Paths
    /\ {authenticated, loading, doubt} \subseteq BOOLEAN
    /\ calls \subseteq [slot : 1..MaxShellCalls, kind : Kinds, token : Nat,
                        status : {"sent", "ok", "401", "403"}, session : Nat]

\* The browser opens a URL.
Init ==
    /\ issued = 1 /\ cookie \in {None, 1}
    /\ \E p \in Paths : path = Landed(p, cookie # None)
    /\ loading = TRUE /\ authenticated = FALSE /\ csrf = None
    /\ calls = Sent("session", {})
    /\ doubt = FALSE
    /\ acts = ShellActs /\ faults = ShellFaults

Next == UserActs \/ NavTimer \/ Moves

\* Every call is answered or lost.
Fairness == WF_vars(Moves)

Spec == Init /\ [][Next]_vars /\ Fairness

-----------------------------------------------------------------------------
\* Once no session, login or logout call is on its way, the gate is where the
\* session puts it and the token is the session's: however the reads that a
\* sign-in, a sign-out and their redirects start overtake each other. Unless a
\* call was lost, two session reads crossed, or another tab changed the session.
AuthSettles ==
    (~doubt /\ \A c \in calls : c.kind \in {"read", "write"}) =>
        /\ authenticated = (cookie # None)
        /\ csrf = cookie
        /\ path = Landed(path, cookie # None)

\* Who reads a shared page.
Reading == path = "share"
==============================================================================

------------------------------- MODULE Accounts -------------------------------
(***************************************************************************)
(* The accounts of the dashboard (dashboard/auth.py, routes/admin.py), the *)
(* login and the check of every request (dashboard/app.py), and the GUI's  *)
(* client, whose threads share one cookie (gui/app.py, tabs/admin_tab.py). *)
(* A browser uses the dashboard at the same time.                          *)
(*                                                                         *)
(* A handler of the server runs alone, from the first file it reads to the *)
(* last it writes; a thread of the GUI may be interrupted where `at` says. *)
(***************************************************************************)
EXTENDS FiniteSets

CONSTANTS
  Thread,
  Name, Secret,            \* user names and passwords
  Configured,              \* the GUI's account: [name, password]
  DefaultName, DefaultSecret,
  Operation,   \* the requests: of the agents and of the users, as in MCExchanges; the fields
               \* of an update are sets that are empty where the request has none
  Asked        \* those that the GUI makes

Permission == {"admin", "dashboard"}     \* ALL_PERMISSIONS, two of them
NoUser == [role |-> "none"]
Broken == [n \in Name |-> [role |-> "broken"]]
NoToken == [user |-> "none"]

VARIABLES
  users,       \* users.json: name -> user, or broken
  up,          \* the server runs
  cookie,      \* _jwt_cookie
  failed,      \* _auth_failed
  browser,     \* the browser's cookie
  request      \* thread -> its request

vars == <<users, up, cookie, failed, browser, request>>

Idle == [at |-> "idle"]

\* _create_default_store.
Default ==
  [n \in Name |->
     IF n = DefaultName
     THEN [password |-> DefaultSecret, role |-> "admin", permissions |-> Permission] ELSE NoUser]

Init ==
  /\ users = Default
  /\ up = TRUE
  /\ cookie = NoToken /\ failed = FALSE
  /\ browser = NoToken
  /\ request = [t \in Thread |-> Idle]

-----------------------------------------------------------------------------
(* The accounts.                                                           *)

\* _load_users: a file that cannot be read is replaced by the default one.
Loaded == IF users = Broken THEN Default ELSE users

\* create_user and update_user: an administrator has all permissions.
Granted(u) == IF u.role = "admin" THEN [u EXCEPT !.permissions = Permission] ELSE u

\* authenticate_user and create_access_token.
Known(name, password) == Loaded[name] # NoUser /\ Loaded[name].password = password
Token(name) == [user |-> name, permissions |-> Loaded[name].permissions, fresh |-> TRUE]

\* get_required_permission.
Required(op) == IF op.kind = "agents" THEN "dashboard" ELSE "admin"

Field(given, old) == IF given = {} THEN old ELSE CHOOSE x \in given : TRUE

\* api_create_user, api_update_user and api_delete_user.
Stored(op, user) ==
  CASE op.kind = "create" /\ Loaded[op.name] = NoUser ->
         [Loaded EXCEPT ![op.name] = Granted(op.user)]
    [] op.kind = "update" /\ Loaded[op.name] # NoUser ->
         [Loaded EXCEPT ![op.name] =
            Granted([password |-> Field(op.password, @.password), role |-> Field(op.role, @.role),
                     permissions |-> Field(op.permissions, @.permissions)])]
    [] op.kind = "delete" /\ op.name # user -> [Loaded EXCEPT ![op.name] = NoUser]
    [] op.kind = "agents" -> users
    [] OTHER -> Loaded

\* auth_middleware: what becomes of a request with this token.
Admitted(token, op) ==
  CASE token = NoToken -> "401"
    [] token # NoToken /\ ~token.fresh -> "401"
    [] token # NoToken /\ token.fresh ->
         IF Required(op) \in token.permissions THEN "200" ELSE "403"

\* The server handles a request; killed while it saves, it leaves a broken file.
Handle(token, op) ==
  LET new == IF Admitted(token, op) = "200" THEN Stored(op, token.user) ELSE users
  IN \/ users' = new /\ UNCHANGED up
     \/ new # users /\ users' = Broken /\ up' = FALSE

Kill == up /\ up' = FALSE /\ UNCHANGED <<users, cookie, failed, browser, request>>
Start == ~up /\ up' = TRUE /\ UNCHANGED <<users, cookie, failed, browser, request>>

\* 24 hours after they were issued, tokens are not valid any more: none expires between
\* the login and the end of a second attempt.
Aged(token) == IF token = NoToken THEN token ELSE [token EXCEPT !.fresh = FALSE]
Expire ==
  /\ ~\E t \in Thread : request[t].at \notin {"idle", "done"} /\ request[t].attempt = 1
  /\ cookie' = Aged(cookie) /\ browser' = Aged(browser)
  /\ request' = [t \in Thread |->
                   IF request[t].at = "sent" THEN [request[t] EXCEPT !.header = Aged(@)] ELSE request[t]]
  /\ UNCHANGED <<users, up, failed>>

-----------------------------------------------------------------------------
(* The browser.                                                            *)

Login(name, password) ==
  /\ up
  /\ browser' = IF Known(name, password) THEN Token(name) ELSE browser
  /\ users' = Loaded
  /\ UNCHANGED <<up, cookie, failed, request>>

Logout == browser' = NoToken /\ UNCHANGED <<users, up, cookie, failed, request>>

Browse(op) ==
  /\ up
  /\ Handle(browser, op)
  /\ UNCHANGED <<cookie, failed, browser, request>>

-----------------------------------------------------------------------------
(* The GUI's client.  wrong: the last login was refused or not answered;   *)
(* meddled: another thread changed the cookie or the flag meanwhile,       *)
(* history.                                                                *)

\* api_get, api_post, api_put, api_delete.
Call(t, op) ==
  /\ request[t].at \in {"idle", "done"}
  /\ request' = [request EXCEPT ![t] =
       [at |-> "auth", op |-> op, attempt |-> 0, header |-> NoToken, wrong |-> FALSE,
        meddled |-> FALSE]]
  /\ UNCHANGED <<users, up, cookie, failed, browser>>

\* The step of a thread that changes the cookie and the flag as well.
Shared(t, c, f, r) ==
  /\ cookie' = c /\ failed' = f
  /\ request' = [u \in Thread |->
       IF u = t THEN r
       ELSE IF <<c, f>> = <<cookie, failed>> \/ request[u].at \in {"idle", "done"} THEN request[u]
       ELSE [request[u] EXCEPT !.meddled = TRUE]]

Step(t, r) == request' = [request EXCEPT ![t] = r] /\ UNCHANGED <<cookie, failed>>

Done(r, status) == [at |-> "done", status |-> status, wrong |-> r.wrong, meddled |-> r.meddled]

\* _ensure_auth: nobody logs in with a cookie, or after a login that was refused.
EnsureAuth(t) ==
  LET r == request[t]
  IN /\ r.at = "auth"
     /\ IF cookie # NoToken \/ failed
        THEN Step(t, [r EXCEPT !.at = "build"]) /\ UNCHANGED <<users, up>>
        ELSE \/ /\ up /\ users' = Loaded /\ UNCHANGED up
                /\ LET known == Known(Configured.name, Configured.password)
                   IN Shared(t, IF known THEN Token(Configured.name) ELSE cookie, failed \/ ~known,
                             [r EXCEPT !.at = "build", !.wrong = ~known])
             \/ ~up /\ Step(t, [r EXCEPT !.at = "build", !.wrong = TRUE]) /\ UNCHANGED <<users, up>>
     /\ UNCHANGED browser

\* The cookie, if there is one, becomes the request's header; a second attempt is not
\* made without.
Build(t) ==
  LET r == request[t]
  IN /\ r.at = "build"
     /\ Step(t, IF cookie = NoToken /\ r.attempt = 1 THEN Done(r, "401")
                ELSE [r EXCEPT !.at = "sent", !.header = cookie])
     /\ UNCHANGED <<users, up, browser>>

\* Variant: the flag stays.
ClearedCookie == <<NoToken, failed>>

\* _do_request after a 401.
Cleared == <<NoToken, FALSE>>

\* _do_request: the answer, or none.
Answered(t) ==
  LET r == request[t]
      status == Admitted(r.header, r.op)
  IN /\ r.at = "sent"
     /\ \/ /\ up
           /\ Handle(r.header, r.op)
           /\ IF up' /\ status = "401" /\ r.attempt = 0
              THEN Shared(t, Cleared[1], Cleared[2], [r EXCEPT !.at = "auth", !.attempt = 1])
              ELSE Step(t, Done(r, IF up' THEN status ELSE "none"))
        \/ ~up /\ Step(t, Done(r, "none")) /\ UNCHANGED <<users, up>>
     /\ UNCHANGED browser

Next ==
  \/ Kill \/ Start \/ Expire \/ Logout
  \/ \E n \in Name, s \in Secret : Login(n, s)
  \/ \E op \in Operation : Browse(op)
  \/ \E op \in Asked, t \in Thread : Call(t, op)
  \/ \E t \in Thread : EnsureAuth(t) \/ Build(t) \/ Answered(t)

Spec == Init /\ [][Next]_vars

-----------------------------------------------------------------------------

\* A request of the GUI that is refused for want of a login has tried to log in with
\* the account it is configured with, and the server has refused that, unless another
\* of its threads changed the cookie meanwhile, or the server was not reached
\* (app.py:336-417, dashboard/app.py:134-199).
RefusedIsUnknown ==
  \A t \in Thread :
    LET r == request[t]
    IN r.at = "done" /\ r.status = "401" => r.wrong \/ r.meddled
=============================================================================

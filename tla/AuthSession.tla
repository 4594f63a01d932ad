---------------------------- MODULE AuthSession ----------------------------
(***************************************************************************)
(* Accounts and login: backend/internal/auth with the middleware that      *)
(* authenticates a request, and the way front-web/src/api/client.ts renews *)
(* an expired access token.                                                *)
(*                                                                         *)
(* One account, the sessions opened for it and the requests that are under *)
(* way.  A request is one slot from the moment the browser sends it, with  *)
(* the cookies it holds then, until the answer has arrived or is lost.     *)
(* A statement of store.go that commits by itself is one action; the       *)
(* transactions that wait for a row keep the row locked from one action to *)
(* the next.  A session row always rotates its access and its refresh      *)
(* token together, so a token is the row and the number of its rotation.   *)
(* A password is a number: whoever sets a password sets a new one.         *)
(***************************************************************************)
EXTENDS Naturals, FiniteSets

CONSTANTS
  Sessions,    \* ids of auth_sessions rows, in the order they are inserted
  ResetTokens, \* password reset tokens that may be asked for
  Browsers,    \* browsers, each with one tab open
  Calls,       \* requests that may be under way at once
  BrowserOf,   \* the browser a request belongs to
  May,         \* what a request may be, a bound on the instance
  LoginLimit,  \* loginRateLimit: logins counted in one window
  MaxSends     \* bound: requests sent in a behaviour

None == 0
NoAccount == 0

ASSUME SessionsAssumption == Sessions \subseteq Nat \ {None}
ASSUME BrowsersAssumption == BrowserOf \in [Calls -> Browsers]
ASSUME LimitsAssumption == LoginLimit \in Nat /\ MaxSends \in Nat
ASSUME ResetTokensAssumption == None \notin ResetTokens

Kinds == {"register", "login", "logout", "change", "forgot", "confirm", "request"}

ASSUME MayAssumption == May \in [Calls -> SUBSET Kinds]

VARIABLES
  password, \* users.password_hash; NoAccount before the registration (cmd/seed makes accounts too)
  rows,     \* auth_sessions
  ending,   \* rows a reset has revoked in a transaction that is not committed
  resets,   \* password_reset_tokens
  hits,     \* rate_limit_counters of the login
  jar,      \* the cookies of each browser
  calls,    \* the requests under way
  sends,    \* requests sent so far
  lost      \* history: the browser missed an answer that set its cookies

vars == <<password, rows, ending, resets, hits, jar, calls, sends, lost>>

NoToken == [s |-> None, n |-> 0]
Token == [s : Sessions, n : Nat] \cup {NoToken}

\* age: 0 while both tokens are valid, 1 once the access token has expired, 2 once
\* the refresh token has.  since: history, the password whose change was the last to
\* look for sessions to end, when this one was opened or last spared.
Row == [state : {"absent", "live", "revoked"}, n : Nat, age : 0..2, since : Nat]
NoRow == [state |-> "absent", n |-> 0, age |-> 0, since |-> NoAccount]

Jar == [access : Token, refresh : Token]
NoCookies == [access |-> NoToken, refresh |-> NoToken]

\* Cookies of an answer: left alone, cleared, or set to the token.
Reply == [ok : BOOLEAN, cookies : {"keep", "clear", "set"}, token : Token]
Refused == [ok |-> FALSE, cookies |-> "keep", token |-> NoToken]
Done == [ok |-> TRUE, cookies |-> "keep", token |-> NoToken]
Cleared(ok) == [ok |-> ok, cookies |-> "clear", token |-> NoToken]
Given(token) == [ok |-> TRUE, cookies |-> "set", token |-> token]

\* sent: the server has not begun; admitted: RequireAuth has accepted a password
\* change; within: between two statements of the handler; updated, revoking: the
\* transaction of a reset has updated the account, and revoked its sessions; answered:
\* the answer is on its way.  A request that met an expired token is refreshing (its tab
\* sent the refresh for it), refreshed (the answer of the refresh is on its way) or
\* waiting for the refresh of another request.
Phase == {"idle", "sent", "admitted", "within", "updated", "revoking", "answered",
          "refreshing", "refreshed", "waiting"}

Call == [phase : Phase, kind : Kinds, cookies : Jar, arg : Nat \cup ResetTokens,
         retry : BOOLEAN, reply : Reply]
Idle == [phase |-> "idle", kind |-> "request", cookies |-> NoCookies, arg |-> 0,
         retry |-> FALSE, reply |-> Refused]

Init ==
  /\ password \in {NoAccount, 1}
  /\ rows = [s \in Sessions |-> NoRow]
  /\ ending = {}
  /\ resets = [t \in ResetTokens |-> "unissued"]
  /\ hits = 0
  /\ jar = [b \in Browsers |-> NoCookies]
  /\ calls = [c \in Calls |-> Idle]
  /\ sends = 0
  /\ lost = [b \in Browsers |-> FALSE]

-----------------------------------------------------------------------------
(* What the statements of store.go find                                    *)

\* Until its transaction commits, nobody else sees that a reset has revoked a row.
Live(s) == rows[s].state = "live"

\* A row whose current token this is: token_hash = $1 AND revoked_at IS NULL.
Holds(token) == token.s # None /\ Live(token.s) /\ rows[token.s].n = token.n

SessionUser(token) == Holds(token) /\ rows[token.s].age = 0

Rotatable(token) == Holds(token) /\ rows[token.s].age < 2

\* Mutants: rows that are read without a lock.
NeverLocked == FALSE
ResetNotLocked(t) == FALSE

\* A password change holds its users row FOR UPDATE until it commits: no other
\* change, no reset and no insert that refers to the row passes it.
UserLocked == \E c \in Calls : calls[c].phase = "within" /\ calls[c].kind = "change"

\* The transaction of a reset, from the first of its three statements to its COMMIT.
Resets(c) == calls[c].phase \in {"within", "updated", "revoking"} /\ calls[c].kind = "confirm"

ResetLocked(t) == \E c \in Calls : Resets(c) /\ calls[c].arg = t

\* From its second statement on a reset holds the users row FOR NO KEY UPDATE: a change
\* and another reset wait, an insert that refers to the row does not.
UserUpdated == \E c \in Calls : Resets(c) /\ calls[c].phase # "within"

Revoking == \E c \in Calls : Resets(c) /\ calls[c].phase = "revoking"

\* A statement that would change a row waits for the reset that has revoked it.
Free(token) == ~(Holds(token) /\ token.s \in ending)

NextRow(s) ==
  rows[s].state = "absent" /\ \A r \in Sessions : r < s => rows[r].state # "absent"

Issued(s) ==
  rows' = [rows EXCEPT ![s] = [NoRow EXCEPT !.state = "live",
                                            !.since = IF Revoking THEN password + 1 ELSE password]]

Revoked(sessions) ==
  rows' = [s \in Sessions |->
             IF s \in sessions /\ Live(s) THEN [rows[s] EXCEPT !.state = "revoked"] ELSE rows[s]]

-----------------------------------------------------------------------------
(* The browser                                                             *)

\* Bound: enough rows are left for the requests under way.
RoomFor(kind) ==
  /\ kind \in {"register", "login"} =>
       Cardinality({c \in Calls : calls[c].phase # "idle" /\ calls[c].kind \in {"register", "login"}})
         < Cardinality({s \in Sessions : rows[s].state = "absent"})
  /\ kind = "forgot" =>
       Cardinality({c \in Calls : calls[c].phase # "idle" /\ calls[c].kind = "forgot"})
         < Cardinality({t \in ResetTokens : resets[t] = "unissued"})

\* What the user enters: a password that was once set, or an address of a reset.
Entered(kind) ==
  IF kind \in {"login", "change"} THEN 1..password
  ELSE IF kind = "confirm" THEN {t \in ResetTokens : resets[t] # "unissued"}
  ELSE {0}

Send(c, kind, arg) ==
  /\ calls[c].phase = "idle" /\ kind \in May[c] /\ sends < MaxSends /\ RoomFor(kind)
  /\ arg \in Entered(kind)
  /\ calls' = [calls EXCEPT ![c] = [Idle EXCEPT !.phase = "sent", !.kind = kind, !.arg = arg,
                                      !.cookies = jar[BrowserOf[c]],
                                      !.retry = (kind = "request")]]
  /\ sends' = sends + 1
  /\ UNCHANGED <<password, rows, ending, resets, hits, jar, lost>>

Answer(c, reply) ==
  calls' = [calls EXCEPT ![c] = [calls[c] EXCEPT !.phase = "answered", !.reply = reply]]

Applied(b, reply) ==
  IF reply.cookies = "keep" THEN jar[b]
  ELSE IF reply.cookies = "clear" THEN NoCookies
  ELSE [access |-> reply.token, refresh |-> reply.token]

\* Mutant: every request refreshes for itself.
NoRefreshPromise(b) == FALSE

\* refreshPromise: the refresh the tab of b has under way.
Refreshing(b) ==
  \E c \in Calls : BrowserOf[c] = b /\ calls[c].phase \in {"refreshing", "refreshed"}

NeedsRefresh(c) == calls[c].kind = "request" /\ ~calls[c].reply.ok /\ calls[c].retry

\* The answer of anything but a request that is to be renewed: request() returns.
Deliver(c) ==
  /\ calls[c].phase = "answered" /\ ~NeedsRefresh(c)
  /\ jar' = [jar EXCEPT ![BrowserOf[c]] = Applied(BrowserOf[c], calls[c].reply)]
  /\ calls' = [calls EXCEPT ![c] = Idle]
  /\ UNCHANGED <<password, rows, ending, resets, hits, sends, lost>>

StartRefresh(c) ==
  /\ calls[c].phase = "answered" /\ NeedsRefresh(c) /\ ~Refreshing(BrowserOf[c])
  /\ calls' = [calls EXCEPT ![c] = [calls[c] EXCEPT !.phase = "refreshing",
                                      !.cookies = jar[BrowserOf[c]], !.reply = Refused]]
  /\ UNCHANGED <<password, rows, ending, resets, hits, jar, sends, lost>>

AwaitRefresh(c) ==
  /\ calls[c].phase = "answered" /\ NeedsRefresh(c) /\ Refreshing(BrowserOf[c])
  /\ calls' = [calls EXCEPT ![c] = [calls[c] EXCEPT !.phase = "waiting", !.reply = Refused]]
  /\ UNCHANGED <<password, rows, ending, resets, hits, jar, sends, lost>>

\* Mutant: the others are not told.
ServedAlone(c) == {c}

\* The request whose refresh this is and those that wait for it go on together.
Served(c) == {d \in Calls : d = c \/ (calls[d].phase = "waiting" /\ BrowserOf[d] = BrowserOf[c])}

\* Sent a second time with the cookies of now, and never a third time.
Resent(d, cookies) ==
  [calls[d] EXCEPT !.phase = "sent", !.cookies = cookies, !.retry = FALSE, !.reply = Refused]

RefreshArrives(c) ==
  /\ calls[c].phase = "refreshed"
  /\ jar' = [jar EXCEPT ![BrowserOf[c]] = Applied(BrowserOf[c], calls[c].reply)]
  /\ calls' = [d \in Calls |->
                 IF d \notin Served(c) THEN calls[d]
                 ELSE IF calls[c].reply.ok THEN Resent(d, jar'[BrowserOf[c]])
                 ELSE Idle]
  /\ UNCHANGED <<password, rows, ending, resets, hits, sends, lost>>

\* The network loses a request or its answer: fetch fails, a refresh counts as
\* refused, and what the server did stands.
Lose(c) ==
  /\ calls[c].phase \in {"answered", "refreshing", "refreshed"}
  /\ calls' = [d \in Calls |->
                 IF d = c \/ (calls[c].phase \in {"refreshing", "refreshed"} /\ d \in Served(c))
                 THEN Idle ELSE calls[d]]
  /\ lost' = [lost EXCEPT ![BrowserOf[c]] = lost[BrowserOf[c]] \/ calls[c].reply.cookies = "set"]
  /\ UNCHANGED <<password, rows, ending, resets, hits, jar, sends>>

\* MaxAge of the access cookie is the lifetime of the token and begins later.
AccessCookieEnds(b) ==
  /\ jar[b].access # NoToken /\ ~SessionUser(jar[b].access)
  /\ jar' = [jar EXCEPT ![b] = [jar[b] EXCEPT !.access = NoToken]]
  /\ UNCHANGED <<password, rows, ending, resets, hits, calls, sends, lost>>

-----------------------------------------------------------------------------
(* Time                                                                    *)

\* expires_at passes, then refresh_expires_at.
Expires(s) ==
  /\ Live(s) /\ rows[s].age < 2
  /\ rows' = [rows EXCEPT ![s] = [rows[s] EXCEPT !.age = rows[s].age + 1]]
  /\ UNCHANGED <<password, ending, resets, hits, jar, calls, sends, lost>>

WindowEnds ==
  /\ hits > 0
  /\ hits' = 0
  /\ UNCHANGED <<password, rows, ending, resets, jar, calls, sends, lost>>

ResetExpires(t) ==
  /\ resets[t] = "open" /\ ~ResetLocked(t)
  /\ resets' = [resets EXCEPT ![t] = "expired"]
  /\ UNCHANGED <<password, rows, ending, hits, jar, calls, sends, lost>>

-----------------------------------------------------------------------------
(* The server: service.go                                                  *)

Begins(c, kind) == calls[c].phase = "sent" /\ calls[c].kind = kind
Continues(c, kind) == calls[c].phase = "within" /\ calls[c].kind = kind
Within(c) == calls' = [calls EXCEPT ![c] = [calls[c] EXCEPT !.phase = "within"]]

\* The unique index on the address admits one of two registrations.
Register(c) ==
  /\ Begins(c, "register")
  /\ IF password = NoAccount THEN password' = 1 /\ Within(c)
                             ELSE password' = password /\ Answer(c, Refused)
  /\ UNCHANGED <<rows, ending, resets, hits, jar, sends, lost>>

\* Counts the attempt whether it is admitted or not; further than one past the limit
\* the number makes no difference.
HitRateLimit == hits' = IF hits <= LoginLimit THEN hits + 1 ELSE hits

Login(c) ==
  /\ Begins(c, "login")
  /\ HitRateLimit
  /\ IF hits' <= LoginLimit /\ password # NoAccount /\ calls[c].arg = password
     THEN Within(c) ELSE Answer(c, Refused)
  /\ UNCHANGED <<password, rows, ending, resets, jar, sends, lost>>

\* The last step of Register and of Login, in a statement of its own.
issueSession(c) ==
  /\ Continues(c, "register") \/ Continues(c, "login")
  /\ ~UserLocked
  /\ \E s \in Sessions :
       NextRow(s) /\ Issued(s) /\ Answer(c, Given([s |-> s, n |-> 0]))
  /\ UNCHANGED <<password, ending, resets, hits, jar, sends, lost>>

Rotated(token) ==
  rows' = [rows EXCEPT ![token.s] = [rows[token.s] EXCEPT !.n = token.n + 1, !.age = 0]]

\* Mutant: the answer has new cookies although no row was found.
RefreshUnchecked(c) ==
  /\ calls[c].phase = "refreshing"
  /\ LET token == calls[c].cookies.refresh
     IN /\ IF Rotatable(token) THEN Rotated(token) ELSE rows' = rows
        /\ calls' = [calls EXCEPT ![c] = [calls[c] EXCEPT !.phase = "refreshed",
                       !.reply = Given([token EXCEPT !.n = token.n + 1])]]
  /\ UNCHANGED <<password, ending, resets, hits, jar, sends, lost>>

Refresh(c) ==
  /\ calls[c].phase = "refreshing" /\ Free(calls[c].cookies.refresh)
  /\ LET token == calls[c].cookies.refresh
         next == [token EXCEPT !.n = token.n + 1]
         reply == IF Rotatable(token) THEN Given(next) ELSE Cleared(FALSE)
     IN /\ IF Rotatable(token) THEN Rotated(token) ELSE rows' = rows
        /\ calls' = [calls EXCEPT ![c] = [calls[c] EXCEPT !.phase = "refreshed", !.reply = reply]]
  /\ UNCHANGED <<password, ending, resets, hits, jar, sends, lost>>

\* RequireAuth, for everything that asks for a session.
Request(c) ==
  /\ Begins(c, "request")
  /\ Answer(c, IF SessionUser(calls[c].cookies.access) THEN Done ELSE Refused)
  /\ UNCHANGED <<password, rows, ending, resets, hits, jar, sends, lost>>

\* LogoutTokens: the row of the access token, then the row of the refresh token;
\* neither statement asks whether the token has expired.
Logout(c) ==
  /\ Begins(c, "logout") /\ Free(calls[c].cookies.access)
  /\ Revoked({s \in Sessions : Holds(calls[c].cookies.access) /\ s = calls[c].cookies.access.s})
  /\ Within(c)
  /\ UNCHANGED <<password, ending, resets, hits, jar, sends, lost>>

\* Mutant: the session is found by its access token only.
RevokeRefreshSkipped(c) ==
  /\ Continues(c, "logout")
  /\ Answer(c, Cleared(TRUE))
  /\ UNCHANGED <<password, rows, ending, resets, hits, jar, sends, lost>>

RevokeRefreshSession(c) ==
  /\ Continues(c, "logout") /\ Free(calls[c].cookies.refresh)
  /\ Revoked({s \in Sessions : Holds(calls[c].cookies.refresh) /\ s = calls[c].cookies.refresh.s})
  /\ Answer(c, Cleared(TRUE))
  /\ UNCHANGED <<password, ending, resets, hits, jar, sends, lost>>

\* The middleware of the route, before the transaction.
Authenticate(c) ==
  /\ Begins(c, "change")
  /\ IF SessionUser(calls[c].cookies.access)
     THEN calls' = [calls EXCEPT ![c] = [calls[c] EXCEPT !.phase = "admitted"]] ELSE Answer(c, Refused)
  /\ UNCHANGED <<password, rows, ending, resets, hits, jar, sends, lost>>

\* SELECT password_hash ... FOR UPDATE and the comparison.
ChangePassword(c) ==
  /\ calls[c].phase = "admitted" /\ calls[c].kind = "change" /\ ~UserLocked /\ ~UserUpdated
  /\ IF calls[c].arg = password THEN Within(c) ELSE Answer(c, Refused)
  /\ UNCHANGED <<password, rows, ending, resets, hits, jar, sends, lost>>

\* RevokeOtherUserSessionsTx spares the row that still has the token of the call.
Spared(c) == {s \in Sessions : calls[c].cookies.access.s = s /\ Holds(calls[c].cookies.access)}

ChangeCommits(c) ==
  /\ Continues(c, "change")
  /\ password' = password + 1
  /\ rows' = [s \in Sessions |->
                IF ~Live(s) THEN rows[s]
                ELSE IF s \in Spared(c) THEN [rows[s] EXCEPT !.since = password']
                ELSE [rows[s] EXCEPT !.state = "revoked"]]
  /\ Answer(c, Done)
  /\ UNCHANGED <<ending, resets, hits, jar, sends, lost>>

RequestPasswordReset(c) ==
  /\ Begins(c, "forgot") /\ ~UserLocked
  /\ IF password = NoAccount THEN UNCHANGED resets
     ELSE \E t \in ResetTokens :
            resets[t] = "unissued" /\ resets' = [resets EXCEPT ![t] = "open"]
  /\ Answer(c, Done)
  /\ UNCHANGED <<password, rows, ending, hits, jar, sends, lost>>

\* UPDATE ... WHERE used_at IS NULL: a second request waits for the first one's
\* transaction and then finds the token used.
ConsumePasswordResetToken(c) ==
  /\ Begins(c, "confirm") /\ ~ResetLocked(calls[c].arg)
  /\ IF resets[calls[c].arg] = "open" THEN Within(c) ELSE Answer(c, Refused)
  /\ UNCHANGED <<password, rows, ending, resets, hits, jar, sends, lost>>

\* The first statement on the account; the commit is what makes the password known.
UpdatePasswordTx(c) ==
  /\ Continues(c, "confirm") /\ ~UserLocked /\ ~UserUpdated
  /\ calls' = [calls EXCEPT ![c] = [calls[c] EXCEPT !.phase = "updated"]]
  /\ UNCHANGED <<password, rows, ending, resets, hits, jar, sends, lost>>

\* Mutant: only sessions whose access token is still good are looked for.
FreshSessions == {s \in Sessions : Live(s) /\ rows[s].age = 0}

\* revoked_at IS NULL
OpenSessions == {s \in Sessions : Live(s)}

RevokeUserSessions(c) ==
  /\ Resets(c) /\ calls[c].phase = "updated"
  /\ ending' = OpenSessions
  /\ calls' = [calls EXCEPT ![c] = [calls[c] EXCEPT !.phase = "revoking"]]
  /\ UNCHANGED <<password, rows, resets, hits, jar, sends, lost>>

ResetCommits(c) ==
  /\ Resets(c) /\ calls[c].phase = "revoking"
  /\ resets' = [resets EXCEPT ![calls[c].arg] = "used"]
  /\ password' = password + 1
  /\ Revoked(ending)
  /\ ending' = {}
  /\ Answer(c, Done)
  /\ UNCHANGED <<hits, jar, sends, lost>>

\* A statement or the COMMIT fails: the transaction is rolled back, what committed
\* before stays.
ServerFails(c) ==
  /\ calls[c].phase \in {"within", "updated"}
  /\ Answer(c, Refused)
  /\ UNCHANGED <<password, rows, ending, resets, hits, jar, sends, lost>>

ResetRollsBack(c) ==
  /\ Resets(c) /\ calls[c].phase = "revoking"
  /\ ending' = {}
  /\ rows' = [s \in Sessions |-> IF rows[s].since > password THEN [rows[s] EXCEPT !.since = password]
                                 ELSE rows[s]]
  /\ Answer(c, Refused)
  /\ UNCHANGED <<password, resets, hits, jar, sends, lost>>

\* The refresh handler clears the cookies whatever the error was.
RefreshFails(c) ==
  /\ calls[c].phase = "refreshing"
  /\ calls' = [calls EXCEPT ![c] = [calls[c] EXCEPT !.phase = "refreshed",
                                      !.reply = Cleared(FALSE)]]
  /\ UNCHANGED <<password, rows, ending, resets, hits, jar, sends, lost>>

-----------------------------------------------------------------------------

Serve(c) ==
  \/ Register(c) \/ Login(c) \/ issueSession(c) \/ Request(c) \/ Refresh(c)
  \/ Logout(c) \/ RevokeRefreshSession(c)
  \/ Authenticate(c) \/ ChangePassword(c) \/ ChangeCommits(c)
  \/ RequestPasswordReset(c) \/ ConsumePasswordResetToken(c)
  \/ UpdatePasswordTx(c) \/ RevokeUserSessions(c) \/ ResetCommits(c) \/ ResetRollsBack(c)
  \/ ServerFails(c) \/ RefreshFails(c)

Arrive(c) == Deliver(c) \/ StartRefresh(c) \/ AwaitRefresh(c) \/ RefreshArrives(c)

Next ==
  \/ \E c \in Calls : \/ \E kind \in Kinds : \E arg \in Entered(kind) : Send(c, kind, arg)
                      \/ Serve(c) \/ Arrive(c) \/ Lose(c)
  \/ \E b \in Browsers : AccessCookieEnds(b)
  \/ \E s \in Sessions : Expires(s)
  \/ \E t \in ResetTokens : ResetExpires(t)
  \/ WindowEnds

Spec == Init /\ [][Next]_vars

-----------------------------------------------------------------------------
(* Properties                                                              *)

\* Type invariant.
TypeOK ==
  /\ password \in Nat
  /\ rows \in [Sessions -> Row]
  /\ ending \subseteq Sessions
  /\ resets \in [ResetTokens -> {"unissued", "open", "used", "expired"}]
  /\ hits \in 0..(LoginLimit + 1)
  /\ jar \in [Browsers -> Jar]
  /\ calls \in [Calls -> Call]
  /\ sends \in 0..MaxSends
  /\ lost \in [Browsers -> BOOLEAN]

\* No session outlives a change of the password that was open when the statement ran
\* that ends the sessions, however the logins, refreshes and logouts around it are
\* ordered: each that is still accepted was opened or spared after that statement of the
\* last change or reset.  (It says nothing of a login that compared the old password
\* and opens its session later, or between that statement of a reset and its COMMIT.)
SessionsFollowThePassword == \A s \in Sessions : Live(s) => rows[s].since >= password

\* A password change replaces the very password it has compared, whatever other
\* change or reset was under way (service.go:217 locks the account).
ComparedIsReplaced ==
  \A c \in Calls : Continues(c, "change") /\ calls'[c].phase = "answered" /\ calls'[c].reply.ok
     => calls[c].arg = password

\* One reset token sets one password, however many requests carry it at once
\* (the row lock behind store.go:147).
ResetTokenWorksOnce ==
  \A c \in Calls : Resets(c) /\ calls'[c].phase = "answered" /\ calls'[c].reply.ok
     => resets[calls[c].arg] # "used"

\* Both, so no password is overwritten by a request that knew an older one.
PasswordChangesOnce == [][ComparedIsReplaced /\ ResetTokenWorksOnce]_vars

\* Once a logout has answered, the session of either cookie it carried has ended,
\* unless a refresh had replaced the tokens before the server read them.
LogoutEndsTheSession ==
  \A c \in Calls :
    calls[c].phase = "answered" /\ calls[c].kind = "logout" /\ calls[c].reply.ok =>
      \A token \in {calls[c].cookies.access, calls[c].cookies.refresh} : ~Holds(token)

\* One refresh at a time (refreshPromise): as long as no answer with new cookies was
\* lost, a refresh under way carries the current token of its session, so it is
\* refused only if the session has ended or the database has failed.
RefreshCarriesTheCurrentToken ==
  \A c \in Calls :
    LET token == calls[c].cookies.refresh
    IN calls[c].phase = "refreshing" /\ ~lost[BrowserOf[c]] /\ token # NoToken /\ Live(token.s)
         => rows[token.s].n = token.n

\* A request that waits for the refresh of another one is never left behind: that
\* refresh is still under way, whatever was answered or lost in between.
WaitersAreServed ==
  \A c \in Calls : calls[c].phase = "waiting" => Refreshing(BrowserOf[c])

\* One refresh serves all the requests of a browser that need one.
RefreshIsShared == RefreshCarriesTheCurrentToken /\ WaitersAreServed

=============================================================================

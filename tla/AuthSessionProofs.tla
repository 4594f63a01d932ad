------------------------- MODULE AuthSessionProofs -------------------------
(***************************************************************************)
(* What holds of accounts and login for any number of browsers, requests,  *)
(* sessions and reset tokens.                                              *)
(***************************************************************************)
EXTENDS AuthSession, TLAPS

-----------------------------------------------------------------------------
(* Types                                                                   *)

\* The values the code writes have their types.
LEMMA Constants ==
  /\ NoToken \in Token /\ NoCookies \in Jar /\ NoRow \in Row
  /\ Refused \in Reply /\ Done \in Reply /\ Cleared(TRUE) \in Reply /\ Cleared(FALSE) \in Reply
  /\ Idle \in Call
<1>1. NoToken \in Token /\ NoRow \in Row
  BY DEF Token, NoRow, Row, NoAccount
<1>2. NoCookies \in Jar
  BY <1>1 DEF NoCookies, Jar
<1>3. Refused \in Reply /\ Done \in Reply /\ Cleared(TRUE) \in Reply /\ Cleared(FALSE) \in Reply
  BY <1>1 DEF Refused, Done, Cleared, Reply
<1> QED
  BY <1>1, <1>2, <1>3 DEF Idle, Call, Phase, Kinds

\* An answer to a request under way, and its next phase.
LEMMA AnswerTyped ==
  ASSUME NEW call \in Call, NEW reply \in Reply, NEW phase \in Phase, NEW cookies \in Jar
  PROVE  /\ [call EXCEPT !.phase = phase] \in Call
         /\ [call EXCEPT !.phase = phase, !.reply = reply] \in Call
         /\ [call EXCEPT !.phase = phase, !.cookies = cookies, !.reply = reply] \in Call
         /\ [call EXCEPT !.phase = phase, !.cookies = cookies, !.retry = FALSE, !.reply = reply] \in Call
BY DEF Call

\* Changes of a row; a rotation sets the number of the token.
LEMMA RowTyped ==
  ASSUME NEW row \in Row, NEW since \in Nat
  PROVE  /\ [NoRow EXCEPT !.state = "live", !.since = since] \in Row
         /\ [row EXCEPT !.state = "revoked"] \in Row
         /\ [row EXCEPT !.since = since] \in Row
         /\ [row EXCEPT !.n = since, !.age = 0] \in Row
         /\ row.age < 2 => [row EXCEPT !.age = row.age + 1] \in Row
<1>0. 0 \in 0..2
  OBVIOUS
<1>1. [NoRow EXCEPT !.state = "live", !.since = since] \in Row
  <2>1. NoRow \in Row
    BY Constants
  <2> QED
    BY <2>1 DEF Row
<1>2. [row EXCEPT !.state = "revoked"] \in Row /\ [row EXCEPT !.since = since] \in Row
  BY DEF Row
<1>3. [row EXCEPT !.n = since, !.age = 0] \in Row
  BY <1>0 DEF Row
<1>4. row.age < 2 => [row EXCEPT !.age = row.age + 1] \in Row
  BY DEF Row
<1> QED
  BY <1>1, <1>2, <1>3, <1>4

\* An answer, and the way into the transaction of a handler.
LEMMA Answers ==
  ASSUME TypeOK, NEW c \in Calls, NEW reply \in Reply, Answer(c, reply)
  PROVE  calls' \in [Calls -> Call]
<1>1. [calls[c] EXCEPT !.phase = "answered", !.reply = reply] \in Call
  BY AnswerTyped, Constants DEF TypeOK, Phase
<1> QED
  BY <1>1 DEF TypeOK, Answer

\* A request whose code only moves on keeps the types of everything else.
LEMMA GoesOn ==
  ASSUME TypeOK, NEW c \in Calls, NEW phase \in Phase,
         calls' = [calls EXCEPT ![c] = [calls[c] EXCEPT !.phase = phase]]
  PROVE  calls' \in [Calls -> Call]
<1>1. [calls[c] EXCEPT !.phase = phase] \in Call
  BY AnswerTyped, Constants DEF TypeOK
<1> QED
  BY <1>1 DEF TypeOK

\* A statement that revokes sessions.
LEMMA Revokes ==
  ASSUME TypeOK, NEW S, Revoked(S)
  PROVE  rows' \in [Sessions -> Row]
<1>1. \A s \in Sessions : [rows[s] EXCEPT !.state = "revoked"] \in Row
  BY RowTyped DEF TypeOK
<1> QED
  BY <1>1 DEF TypeOK, Revoked

\* The cookies after an answer.
LEMMA AppliedTyped ==
  ASSUME TypeOK, NEW b \in Browsers, NEW reply \in Reply
  PROVE  Applied(b, reply) \in Jar
BY Constants DEF TypeOK, Applied, Jar, Reply

\* Sending a request keeps the types.
LEMMA SendTyped ==
  ASSUME TypeOK, NEW c \in Calls, NEW kind \in Kinds, NEW arg \in Entered(kind),
         Send(c, kind, arg)
  PROVE  TypeOK'
<1>1. arg \in Nat \cup ResetTokens
  BY DEF Entered, TypeOK
<1>2. jar[BrowserOf[c]] \in Jar
  BY BrowsersAssumption DEF TypeOK
<1>3. [Idle EXCEPT !.phase = "sent", !.kind = kind, !.arg = arg,
                   !.cookies = jar[BrowserOf[c]], !.retry = (kind = "request")] \in Call
  BY <1>1, <1>2, Constants DEF Idle, Call, Phase
<1>4. calls' \in [Calls -> Call]
  BY <1>3 DEF TypeOK, Send
<1>5. sends' \in 0..MaxSends
  BY LimitsAssumption DEF TypeOK, Send
<1> QED
  BY <1>4, <1>5 DEF TypeOK, Send

\* The arrival of an answer keeps the types.
LEMMA ArriveTyped ==
  ASSUME TypeOK, NEW c \in Calls, Arrive(c) \/ Lose(c)
  PROVE  TypeOK'
<1> USE BrowsersAssumption
<1>r. calls[c].reply \in Reply /\ calls[c] \in Call /\ jar[BrowserOf[c]] \in Jar
  BY DEF TypeOK, Call
<1>1. CASE Deliver(c)
  <2>1. jar' \in [Browsers -> Jar]
    BY <1>1, <1>r, AppliedTyped DEF Deliver, TypeOK
  <2>2. calls' \in [Calls -> Call]
    BY <1>1, Constants DEF Deliver, TypeOK
  <2> QED
    BY <1>1, <2>1, <2>2 DEF Deliver, TypeOK
<1>2. CASE StartRefresh(c)
  <2>1. [calls[c] EXCEPT !.phase = "refreshing", !.cookies = jar[BrowserOf[c]],
                         !.reply = Refused] \in Call
    BY <1>r, Constants, AnswerTyped DEF Phase
  <2> QED
    BY <1>2, <2>1 DEF StartRefresh, TypeOK
<1>3. CASE AwaitRefresh(c)
  <2>1. [calls[c] EXCEPT !.phase = "waiting", !.reply = Refused] \in Call
    BY <1>r, Constants, AnswerTyped DEF Phase
  <2> QED
    BY <1>3, <2>1 DEF AwaitRefresh, TypeOK
<1>4. CASE RefreshArrives(c)
  <2>1. Applied(BrowserOf[c], calls[c].reply) \in Jar
    BY <1>r, AppliedTyped
  <2>2. jar' \in [Browsers -> Jar] /\ jar'[BrowserOf[c]] \in Jar
    BY <1>4, <2>1 DEF RefreshArrives, TypeOK
  <2>3. \A d \in Calls : Resent(d, jar'[BrowserOf[c]]) \in Call
    BY <2>2, Constants, AnswerTyped DEF Resent, TypeOK, Phase
  <2>4. calls' \in [Calls -> Call]
    BY <1>4, <2>3, Constants DEF RefreshArrives, TypeOK
  <2> QED
    BY <1>4, <2>2, <2>4 DEF RefreshArrives, TypeOK
<1>5. CASE Lose(c)
  <2>1. calls' \in [Calls -> Call]
    BY <1>5, Constants DEF Lose, TypeOK
  <2>2. lost' \in [Browsers -> BOOLEAN]
    BY <1>5 DEF Lose, TypeOK
  <2> QED
    BY <1>5, <2>1, <2>2 DEF Lose, TypeOK
<1> QED
  BY <1>1, <1>2, <1>3, <1>4, <1>5 DEF Arrive

\* The token of a session just opened or rotated.
LEMMA GivenTyped ==
  ASSUME NEW s \in Sessions, NEW n \in Nat
  PROVE  Given([s |-> s, n |-> n]) \in Reply
BY DEF Given, Reply, Token

\* The steps of a login keep the types.
LEMMA LoginTyped ==
  ASSUME TypeOK, NEW c \in Calls, Register(c) \/ Login(c) \/ issueSession(c)
  PROVE  TypeOK'
<1>1. CASE Register(c)
  <2>1. calls' \in [Calls -> Call]
    BY <1>1, Answers, GoesOn, Constants DEF Register, Within, Phase
  <2> QED
    BY <1>1, <2>1 DEF Register, TypeOK
<1>2. CASE Login(c)
  <2>1. calls' \in [Calls -> Call]
    BY <1>2, Answers, GoesOn, Constants DEF Login, Within, Phase
  <2>2. hits' \in 0..(LoginLimit + 1)
    BY <1>2, LimitsAssumption DEF Login, HitRateLimit, TypeOK
  <2> QED
    BY <1>2, <2>1, <2>2 DEF Login, TypeOK
<1>3. CASE issueSession(c)
  <2>1. PICK s \in Sessions : Issued(s) /\ Answer(c, Given([s |-> s, n |-> 0]))
    BY <1>3 DEF issueSession
  <2>2. calls' \in [Calls -> Call]
    BY <2>1, GivenTyped, Answers
  <2>3. rows' \in [Sessions -> Row]
    <3>1. (IF Revoking THEN password + 1 ELSE password) \in Nat
      BY DEF TypeOK
    <3> QED
      BY <2>1, <3>1, RowTyped DEF Issued, TypeOK
  <2> QED
    BY <1>3, <2>2, <2>3 DEF issueSession, TypeOK
<1> QED
  BY <1>1, <1>2, <1>3

\* The steps of a refresh keep the types.
LEMMA RefreshTyped ==
  ASSUME TypeOK, NEW c \in Calls, Refresh(c) \/ RefreshFails(c)
  PROVE  TypeOK'
<1>r. calls[c] \in Call /\ calls[c].cookies \in Jar
  BY DEF TypeOK, Call
<1>1. CASE Refresh(c)
  <2> DEFINE token == calls[c].cookies.refresh
             next == [token EXCEPT !.n = token.n + 1]
             reply == IF Rotatable(token) THEN Given(next) ELSE Cleared(FALSE)
  <2>1. token \in Token
    BY <1>r DEF Jar
  <2>a. Rotatable(token) => next \in Token
    BY <2>1 DEF Token, NoToken, Rotatable, Holds
  <2>2. reply \in Reply
    BY <2>a, Constants DEF Given, Reply
  <2>3. [calls[c] EXCEPT !.phase = "refreshed", !.reply = reply] \in Call
    BY <1>r, <2>2, Constants, AnswerTyped DEF Phase
  <2>4. calls' \in [Calls -> Call]
    BY <1>1, <2>3 DEF Refresh, TypeOK
  <2>5. ASSUME Rotatable(token) PROVE [rows[token.s] EXCEPT !.n = token.n + 1, !.age = 0] \in Row
    <3>1. token.s \in Sessions /\ token.n + 1 \in Nat
      BY <2>1, <2>5 DEF Token, NoToken, Rotatable, Holds
    <3> QED
      BY <3>1, RowTyped DEF TypeOK
  <2>6. rows' \in [Sessions -> Row]
    BY <1>1, <2>5 DEF Refresh, Rotated, TypeOK
  <2> QED
    BY <1>1, <2>4, <2>6 DEF Refresh, TypeOK
<1>2. CASE RefreshFails(c)
  <2>1. [calls[c] EXCEPT !.phase = "refreshed", !.reply = Cleared(FALSE)] \in Call
    BY <1>r, Constants, AnswerTyped DEF Phase
  <2> QED
    BY <1>2, <2>1 DEF RefreshFails, TypeOK
<1> QED
  BY <1>1, <1>2

\* The steps of a logout keep the types.
LEMMA LogoutTyped ==
  ASSUME TypeOK, NEW c \in Calls, Request(c) \/ Logout(c) \/ RevokeRefreshSession(c) \/ ServerFails(c)
  PROVE  TypeOK'
<1>1. CASE Request(c)
  <2>1. calls' \in [Calls -> Call]
    BY <1>1, Answers, Constants DEF Request
  <2> QED
    BY <1>1, <2>1 DEF Request, TypeOK
<1>2. CASE Logout(c)
  <2>1. calls' \in [Calls -> Call] /\ rows' \in [Sessions -> Row]
    BY <1>2, GoesOn, Revokes DEF Logout, Within, Phase
  <2> QED
    BY <1>2, <2>1 DEF Logout, TypeOK
<1>3. CASE RevokeRefreshSession(c)
  <2>1. calls' \in [Calls -> Call] /\ rows' \in [Sessions -> Row]
    BY <1>3, Answers, Constants, Revokes DEF RevokeRefreshSession
  <2> QED
    BY <1>3, <2>1 DEF RevokeRefreshSession, TypeOK
<1>4. CASE ServerFails(c)
  <2>1. calls' \in [Calls -> Call]
    BY <1>4, Answers, Constants DEF ServerFails
  <2> QED
    BY <1>4, <2>1 DEF ServerFails, TypeOK
<1> QED
  BY <1>1, <1>2, <1>3, <1>4

\* The steps of a change and of a reset of the password keep the types.
LEMMA PasswordTyped ==
  ASSUME TypeOK, NEW c \in Calls,
         \/ Authenticate(c) \/ ChangePassword(c) \/ ChangeCommits(c)
         \/ RequestPasswordReset(c) \/ ConsumePasswordResetToken(c) \/ UpdatePasswordTx(c)
         \/ RevokeUserSessions(c) \/ ResetCommits(c) \/ ResetRollsBack(c)
  PROVE  TypeOK'
<1>1. CASE Authenticate(c)
  <2>1. calls' \in [Calls -> Call]
    BY <1>1, Answers, GoesOn, Constants DEF Authenticate, Phase
  <2> QED
    BY <1>1, <2>1 DEF Authenticate, TypeOK
<1>2. CASE ChangePassword(c)
  <2>1. calls' \in [Calls -> Call]
    BY <1>2, Answers, GoesOn, Constants DEF ChangePassword, Within, Phase
  <2> QED
    BY <1>2, <2>1 DEF ChangePassword, TypeOK
<1>3. CASE ChangeCommits(c)
  <2>1. calls' \in [Calls -> Call]
    BY <1>3, Answers, Constants DEF ChangeCommits
  <2>2. password' \in Nat
    BY <1>3 DEF ChangeCommits, TypeOK
  <2>3. \A s \in Sessions : /\ [rows[s] EXCEPT !.since = password'] \in Row
                            /\ [rows[s] EXCEPT !.state = "revoked"] \in Row
    BY <2>2, RowTyped DEF TypeOK
  <2>4. rows' \in [Sessions -> Row]
    BY <1>3, <2>3 DEF ChangeCommits, TypeOK
  <2> QED
    BY <1>3, <2>1, <2>2, <2>4 DEF ChangeCommits, TypeOK
<1>4. CASE RequestPasswordReset(c)
  <2>1. calls' \in [Calls -> Call]
    BY <1>4, Answers, Constants DEF RequestPasswordReset
  <2>2. resets' \in [ResetTokens -> {"unissued", "open", "used", "expired"}]
    BY <1>4 DEF RequestPasswordReset, TypeOK
  <2> QED
    BY <1>4, <2>1, <2>2 DEF RequestPasswordReset, TypeOK
<1>5. CASE ConsumePasswordResetToken(c)
  <2>1. calls' \in [Calls -> Call]
    BY <1>5, Answers, GoesOn, Constants DEF ConsumePasswordResetToken, Within, Phase
  <2> QED
    BY <1>5, <2>1 DEF ConsumePasswordResetToken, TypeOK
<1>6. CASE ResetCommits(c)
  <2>1. calls' \in [Calls -> Call] /\ rows' \in [Sessions -> Row]
    BY <1>6, Answers, Constants, Revokes DEF ResetCommits
  <2>2. resets' \in [ResetTokens -> {"unissued", "open", "used", "expired"}]
    BY <1>6 DEF ResetCommits, TypeOK
  <2>3. password' \in Nat
    BY <1>6 DEF ResetCommits, TypeOK
  <2> QED
    BY <1>6, <2>1, <2>2, <2>3 DEF ResetCommits, TypeOK
<1>7. CASE UpdatePasswordTx(c)
  <2>1. calls' \in [Calls -> Call]
    BY <1>7, GoesOn DEF UpdatePasswordTx, Phase
  <2> QED
    BY <1>7, <2>1 DEF UpdatePasswordTx, TypeOK
<1>8. CASE RevokeUserSessions(c)
  <2>1. calls' \in [Calls -> Call]
    BY <1>8, GoesOn DEF RevokeUserSessions, Phase
  <2> QED
    BY <1>8, <2>1 DEF RevokeUserSessions, OpenSessions, TypeOK
<1>9. CASE ResetRollsBack(c)
  <2>1. calls' \in [Calls -> Call]
    BY <1>9, Answers, Constants DEF ResetRollsBack
  <2>2. \A s \in Sessions : [rows[s] EXCEPT !.since = password] \in Row
    BY RowTyped DEF TypeOK
  <2>3. rows' \in [Sessions -> Row]
    BY <1>9, <2>2 DEF ResetRollsBack, TypeOK
  <2> QED
    BY <1>9, <2>1, <2>3 DEF ResetRollsBack, TypeOK
<1> QED
  BY <1>1, <1>2, <1>3, <1>4, <1>5, <1>6, <1>7, <1>8, <1>9

\* The steps of the mailbox and of time keep the types.
LEMMA TimeTyped ==
  ASSUME TypeOK,
         \/ \E b \in Browsers : AccessCookieEnds(b)
         \/ \E s \in Sessions : Expires(s)
         \/ \E t \in ResetTokens : ResetExpires(t)
         \/ WindowEnds
  PROVE  TypeOK'
<1>1. ASSUME NEW b \in Browsers, AccessCookieEnds(b) PROVE TypeOK'
  <2>1. [jar[b] EXCEPT !.access = NoToken] \in Jar
    BY Constants DEF TypeOK, Jar
  <2> QED
    BY <1>1, <2>1 DEF AccessCookieEnds, TypeOK
<1>2. ASSUME NEW s \in Sessions, Expires(s) PROVE TypeOK'
  <2>1. [rows[s] EXCEPT !.age = rows[s].age + 1] \in Row
    BY <1>2, RowTyped DEF Expires, TypeOK
  <2> QED
    BY <1>2, <2>1 DEF Expires, TypeOK
<1>3. ASSUME NEW t \in ResetTokens, ResetExpires(t) PROVE TypeOK'
  BY <1>3 DEF ResetExpires, TypeOK
<1>4. ASSUME WindowEnds PROVE TypeOK'
  BY <1>4, LimitsAssumption DEF WindowEnds, TypeOK
<1> QED
  BY <1>1, <1>2, <1>3, <1>4

\* Every step keeps the types.
LEMMA TypeStep == ASSUME TypeOK, Next PROVE TypeOK'
BY SendTyped, ArriveTyped, LoginTyped, RefreshTyped, LogoutTyped, PasswordTyped, TimeTyped
   DEF Next, Serve

\* The initial state has its types.
LEMMA TypeInit == Init => TypeOK
BY Constants, LimitsAssumption DEF Init, TypeOK, NoAccount

\* Every variable keeps its type.
THEOREM TypeCorrect == Spec => []TypeOK
<1>1. TypeOK /\ [Next]_vars => TypeOK'
  BY TypeStep DEF TypeOK, vars
<1> QED
  BY <1>1, TypeInit, PTL DEF Spec

-----------------------------------------------------------------------------
(* What a step may change                                                  *)

\* Who writes the accounts, the reset tokens and the sessions.
LEMMA Writers ==
  ASSUME Next
  PROVE  /\ password' # password =>
              \E c \in Calls : Register(c) \/ ChangeCommits(c) \/ ResetCommits(c)
         /\ resets' # resets =>
              \/ \E c \in Calls : RequestPasswordReset(c) \/ ResetCommits(c)
              \/ \E t \in ResetTokens : ResetExpires(t)
         /\ rows' # rows =>
              \/ \E c \in Calls : \/ issueSession(c) \/ Refresh(c) \/ Logout(c)
                                  \/ RevokeRefreshSession(c)
                                  \/ ChangeCommits(c) \/ ResetCommits(c) \/ ResetRollsBack(c)
              \/ \E s \in Sessions : Expires(s)
         /\ ending' # ending =>
              \E c \in Calls : RevokeUserSessions(c) \/ ResetCommits(c) \/ ResetRollsBack(c)
<1>1. ASSUME NEW c \in Calls, NEW kind \in Kinds, NEW arg, Send(c, kind, arg)
      PROVE  UNCHANGED <<password, resets, rows, ending>>
  BY <1>1 DEF Send
<1>2. ASSUME NEW c \in Calls, Arrive(c) \/ Lose(c)
      PROVE  UNCHANGED <<password, resets, rows, ending>>
  BY <1>2 DEF Arrive, Lose, Deliver, StartRefresh, AwaitRefresh, RefreshArrives
<1>3. ASSUME NEW c \in Calls,
             \/ Login(c) \/ Request(c) \/ Authenticate(c) \/ ChangePassword(c)
             \/ ConsumePasswordResetToken(c) \/ UpdatePasswordTx(c) \/ ServerFails(c)
             \/ RefreshFails(c)
      PROVE  UNCHANGED <<password, resets, rows, ending>>
  BY <1>3 DEF Login, Request, Authenticate, ChangePassword, ConsumePasswordResetToken,
              UpdatePasswordTx, ServerFails, RefreshFails
<1>4. ASSUME NEW c \in Calls, Register(c) PROVE UNCHANGED <<resets, rows, ending>>
  BY <1>4 DEF Register
<1>5. ASSUME NEW c \in Calls,
             issueSession(c) \/ Refresh(c) \/ Logout(c) \/ RevokeRefreshSession(c)
      PROVE  UNCHANGED <<password, resets, ending>>
  BY <1>5 DEF issueSession, Refresh, Logout, RevokeRefreshSession
<1>6. ASSUME NEW c \in Calls, RequestPasswordReset(c) PROVE UNCHANGED <<password, rows, ending>>
  BY <1>6 DEF RequestPasswordReset
<1>7. ASSUME NEW c \in Calls, ChangeCommits(c) PROVE UNCHANGED <<resets, ending>>
  BY <1>7 DEF ChangeCommits
<1>8. ASSUME \/ \E b \in Browsers : AccessCookieEnds(b)
             \/ WindowEnds
      PROVE  UNCHANGED <<password, resets, rows, ending>>
  BY <1>8 DEF AccessCookieEnds, WindowEnds
<1>9. ASSUME NEW t \in ResetTokens, ResetExpires(t) PROVE UNCHANGED <<password, rows, ending>>
  BY <1>9 DEF ResetExpires
<1>10. ASSUME NEW s \in Sessions, Expires(s) PROVE UNCHANGED <<password, resets, ending>>
  BY <1>10 DEF Expires
<1>11. ASSUME NEW c \in Calls, RevokeUserSessions(c) PROVE UNCHANGED <<password, resets, rows>>
  BY <1>11 DEF RevokeUserSessions
<1>12. ASSUME NEW c \in Calls, ResetRollsBack(c) PROVE UNCHANGED <<password, resets>>
  BY <1>12 DEF ResetRollsBack
<1> QED
  BY <1>1, <1>2, <1>3, <1>4, <1>5, <1>6, <1>7, <1>8, <1>9, <1>10, <1>11, <1>12 DEF Next, Serve

\* How a request gets between two statements of its handler.
Entering(c) ==
  Register(c) \/ Login(c) \/ Logout(c) \/ ChangePassword(c) \/ ConsumePasswordResetToken(c)

\* What the request is does not change while it is under way.
SameRequest(c) ==
  /\ calls'[c].kind = calls[c].kind /\ calls'[c].arg = calls[c].arg
  /\ calls'[c].cookies = calls[c].cookies

\* An answer ends the handler of its request and of no other.
LEMMA AnswerEnds ==
  ASSUME TypeOK, NEW c \in Calls, NEW reply, Answer(c, reply), NEW d \in Calls
  PROVE  /\ d # c => calls'[d] = calls[d]
         /\ d = c => calls'[d].phase = "answered" /\ calls'[d].reply = reply /\ SameRequest(d)
BY DEF TypeOK, Answer, Call, SameRequest

\* A step within a transaction of one request leaves the other requests alone.
LEMMA WithinBegins ==
  ASSUME TypeOK, NEW c \in Calls, Within(c), NEW d \in Calls
  PROVE  /\ d # c => calls'[d] = calls[d]
         /\ d = c => SameRequest(d)
BY DEF TypeOK, Within, Call, SameRequest

\* Neither does a step from one statement of a handler to the next.
LEMMA GoesOnAlone ==
  ASSUME TypeOK, NEW c \in Calls, NEW phase, NEW d \in Calls,
         calls' = [calls EXCEPT ![c] = [calls[c] EXCEPT !.phase = phase]]
  PROVE  /\ d # c => calls'[d] = calls[d]
         /\ d = c => calls'[d].phase = phase /\ calls'[d].reply = calls[d].reply /\ SameRequest(d)
BY DEF TypeOK, Call, SameRequest

\* The phases in which a handler is between two of its statements.
Transaction == {"within", "updated", "revoking"}

\* A reset goes on to its next statement.
Advances(c) ==
  /\ UpdatePasswordTx(c) \/ RevokeUserSessions(c)
  /\ SameRequest(c)
  /\ \A e \in Calls \ {c} : calls'[e] = calls[e]

\* A request within a transaction was there before, has just begun it, or is a reset
\* that goes on.
LEMMA TransactionStep ==
  ASSUME TypeOK, Next, NEW d \in Calls, calls'[d].phase \in Transaction
  PROVE  \/ calls'[d] = calls[d]
         \/ Entering(d) /\ SameRequest(d) /\ calls'[d].phase = "within"
         \/ Advances(d) /\ calls'[d].phase # "within"
<1> USE DEF Transaction
<1>1. ASSUME NEW c \in Calls, NEW kind \in Kinds, NEW arg, Send(c, kind, arg)
      PROVE  calls'[d] = calls[d]
  BY <1>1 DEF Send, TypeOK, Idle
<1>2. ASSUME NEW c \in Calls, Arrive(c) \/ Lose(c) PROVE calls'[d] = calls[d]
  <2>1. CASE Deliver(c)
    BY <2>1 DEF Deliver, TypeOK, Idle
  <2>2. CASE StartRefresh(c)
    BY <2>2 DEF StartRefresh, TypeOK, Call
  <2>3. CASE AwaitRefresh(c)
    BY <2>3 DEF AwaitRefresh, TypeOK, Call
  <2>4. CASE RefreshArrives(c)
    <3>1. Resent(d, jar'[BrowserOf[c]]).phase = "sent" /\ Idle.phase = "idle"
      BY DEF Resent, Idle, TypeOK, Call
    <3> QED
      BY <2>4, <3>1 DEF RefreshArrives
  <2>5. CASE Lose(c)
    BY <2>5 DEF Lose, Idle
  <2> QED
    BY <1>2, <2>1, <2>2, <2>3, <2>4, <2>5 DEF Arrive
<1>3. ASSUME NEW c \in Calls, Entering(c)
      PROVE  calls'[d] = calls[d] \/ (Entering(d) /\ SameRequest(d) /\ calls'[d].phase = "within")
  <2>1. CASE Within(c)
    BY <1>3, <2>1, GoesOnAlone DEF Within
  <2>2. CASE \E reply : Answer(c, reply)
    BY <2>2, AnswerEnds
  <2> QED
    BY <1>3, <2>1, <2>2
       DEF Entering, Register, Login, Logout, ChangePassword, ConsumePasswordResetToken
<1>4. ASSUME NEW c \in Calls,
             \/ issueSession(c) \/ Request(c) \/ RevokeRefreshSession(c) \/ ChangeCommits(c)
             \/ RequestPasswordReset(c) \/ ResetCommits(c) \/ ResetRollsBack(c) \/ ServerFails(c)
      PROVE  calls'[d] = calls[d]
  <2>1. \E reply : Answer(c, reply)
    BY <1>4 DEF issueSession, Request, RevokeRefreshSession, ChangeCommits,
                RequestPasswordReset, ResetCommits, ResetRollsBack, ServerFails
  <2> QED
    BY <2>1, AnswerEnds
<1>5. ASSUME NEW c \in Calls, Authenticate(c) PROVE calls'[d] = calls[d]
  <2>1. CASE \E reply : Answer(c, reply)
    BY <2>1, AnswerEnds
  <2>2. CASE calls' = [calls EXCEPT ![c] = [calls[c] EXCEPT !.phase = "admitted"]]
    BY <2>2 DEF TypeOK, Call
  <2> QED
    BY <1>5, <2>1, <2>2 DEF Authenticate
<1>6. ASSUME NEW c \in Calls, Refresh(c) PROVE calls'[d] = calls[d]
  BY <1>6 DEF Refresh, TypeOK, Call
<1>7. ASSUME NEW c \in Calls, RefreshFails(c) PROVE calls'[d] = calls[d]
  BY <1>7 DEF RefreshFails, TypeOK, Call
<1>8. ASSUME \/ \E b \in Browsers : AccessCookieEnds(b)
             \/ \E s \in Sessions : Expires(s)
             \/ \E t \in ResetTokens : ResetExpires(t)
             \/ WindowEnds
      PROVE  calls'[d] = calls[d]
  BY <1>8 DEF AccessCookieEnds, Expires, ResetExpires, WindowEnds
<1>9. ASSUME NEW c \in Calls, UpdatePasswordTx(c) \/ RevokeUserSessions(c)
      PROVE  calls'[d] = calls[d] \/ (Advances(d) /\ calls'[d].phase # "within")
  <2>1. PICK phase \in {"updated", "revoking"} :
          calls' = [calls EXCEPT ![c] = [calls[c] EXCEPT !.phase = phase]]
    BY <1>9 DEF UpdatePasswordTx, RevokeUserSessions
  <2>2. \A e \in Calls \ {c} : calls'[e] = calls[e]
    BY <2>1, GoesOnAlone
  <2>3. SameRequest(c) /\ calls'[c].phase = phase
    BY <2>1 DEF TypeOK, Call, SameRequest
  <2> QED
    BY <1>9, <2>2, <2>3 DEF Advances
<1> QED
  BY <1>1, <1>2, <1>3, <1>4, <1>5, <1>6, <1>7, <1>8, <1>9 DEF Next, Serve, Entering

\* Between the first two statements nobody comes but by the first.
LEMMA WithinStep ==
  ASSUME TypeOK, Next, NEW d \in Calls, calls'[d].phase = "within"
  PROVE  calls'[d] = calls[d] \/ (Entering(d) /\ SameRequest(d))
BY TransactionStep DEF Transaction

-----------------------------------------------------------------------------
(* One transaction at a time changes the account                           *)

\* A request that holds the users row: a change, or a reset from its second statement on.
Holder(c) == Continues(c, "change") \/ (Resets(c) /\ calls[c].phase # "within")

HoldInv == \A c, d \in Calls : Holder(c) /\ Holder(d) => c = d

\* Who holds the row did so before, or took it when nobody held it.
LEMMA HolderStep ==
  ASSUME TypeOK, Next, NEW d \in Calls, Holder(d)'
  PROVE  \/ calls'[d] = calls[d]
         \/ /\ \A e \in Calls \ {d} : calls'[e] = calls[e]
            /\ Holder(d) \/ \A e \in Calls : ~Holder(e)
<1>1. calls'[d].phase \in Transaction
  BY DEF Holder, Continues, Resets, Transaction
<1>2. CASE Entering(d) /\ SameRequest(d) /\ calls'[d].phase = "within"
  <2>1. ChangePassword(d)
    BY <1>2 DEF Holder, Entering, SameRequest, Continues, Resets, Register, Login, Logout,
                ConsumePasswordResetToken, Begins
  <2>2. \A e \in Calls : ~Holder(e)
    BY <2>1 DEF ChangePassword, Holder, UserLocked, UserUpdated, Continues
  <2>3. \A e \in Calls \ {d} : calls'[e] = calls[e]
    BY <2>1, AnswerEnds, WithinBegins DEF ChangePassword
  <2> QED
    BY <2>2, <2>3
<1>3. CASE Advances(d)
  <2>1. CASE UpdatePasswordTx(d)
    BY <1>3, <2>1 DEF Advances, UpdatePasswordTx, Holder, UserLocked, UserUpdated, Continues
  <2>2. CASE RevokeUserSessions(d)
    BY <1>3, <2>2 DEF Advances, RevokeUserSessions, Holder
  <2> QED
    BY <1>3, <2>1, <2>2 DEF Advances
<1> QED
  BY <1>1, <1>2, <1>3, TransactionStep

\* Every step keeps the holder of the row alone.
LEMMA HoldStep == ASSUME TypeOK, HoldInv, Next PROVE HoldInv'
<1> SUFFICES ASSUME NEW c \in Calls, NEW d \in Calls, Holder(c)', Holder(d)', c # d
             PROVE  FALSE
  BY DEF HoldInv
<1>1. ASSUME NEW e \in Calls, calls'[e] = calls[e], Holder(e)' PROVE Holder(e)
  BY <1>1 DEF Holder, Continues, Resets
<1>2. CASE calls'[c] = calls[c] /\ calls'[d] = calls[d]
  BY <1>1, <1>2 DEF HoldInv
<1>3. ASSUME NEW e \in Calls, NEW f \in Calls, e # f, Holder(f)', calls'[e] # calls[e], Holder(e)'
      PROVE  FALSE
  <2>1. /\ calls'[f] = calls[f]
        /\ Holder(e) \/ \A g \in Calls : ~Holder(g)
    BY <1>3, HolderStep
  <2> QED
    BY <1>1, <1>3, <2>1 DEF HoldInv
<1> QED
  BY <1>2, <1>3

\* While a reset is about to commit, nobody else changes the account, and the set of
\* rows it ends is the one its statement has found.
LEMMA RevokingStep ==
  ASSUME TypeOK, HoldInv, Next, Revoking'
  PROVE  \/ \E c \in Calls : RevokeUserSessions(c)
         \/ /\ Revoking /\ ending' = ending /\ (password' = password \/ password = NoAccount)
            /\ ~\E c \in Calls : ChangeCommits(c) \/ ResetCommits(c) \/ ResetRollsBack(c)
<1>1. PICK d \in Calls : calls'[d].phase = "revoking" /\ calls'[d].kind = "confirm"
  BY DEF Revoking, Resets
<1>2. CASE Advances(d)
  BY <1>1, <1>2, GoesOnAlone DEF Advances, UpdatePasswordTx
<1>3. CASE calls'[d] = calls[d]
  <2>1. Holder(d) /\ Revoking
    BY <1>1, <1>3 DEF Holder, Resets, Revoking
  <2>2. ASSUME NEW c \in Calls, ChangeCommits(c) \/ ResetCommits(c) \/ ResetRollsBack(c)
        PROVE  FALSE
    <3>1. Holder(c)
      BY <2>2 DEF ChangeCommits, ResetCommits, ResetRollsBack, Holder
    <3>2. c = d
      BY <2>1, <3>1 DEF HoldInv
    <3>3. \E reply : Answer(c, reply)
      BY <2>2 DEF ChangeCommits, ResetCommits, ResetRollsBack
    <3> QED
      BY <1>1, <3>2, <3>3, AnswerEnds
  <2>3. password' = password \/ password = NoAccount
    BY <2>2, Writers DEF Register
  <2> QED
    BY <2>1, <2>2, <2>3, Writers
<1> QED
  BY <1>1, <1>2, <1>3, TransactionStep DEF Transaction

-----------------------------------------------------------------------------
(* Sessions follow the password                                            *)

\* Nobody is logged in to an account that is not there, nor about to be.
AccountInv ==
  /\ password = NoAccount => \A s \in Sessions : ~Live(s)
  /\ \A c \in Calls :
       calls[c].phase = "within" /\ calls[c].kind \in {"register", "login"} => password # NoAccount

\* What a reset that is about to commit does not end was opened after it looked.
EndingInv == Revoking => \A s \in Sessions : Live(s) /\ s \notin ending => rows[s].since > password

FollowInv == TypeOK /\ AccountInv /\ HoldInv /\ EndingInv /\ SessionsFollowThePassword

\* A password is only ever set.
LEMMA PasswordStays ==
  ASSUME TypeOK, Next, password # NoAccount
  PROVE  password' # NoAccount
<1>1. ASSUME NEW c \in Calls, Register(c) \/ ChangeCommits(c) \/ ResetCommits(c)
      PROVE  password' # NoAccount
  BY <1>1 DEF Register, ChangeCommits, ResetCommits, TypeOK, NoAccount
<1> QED
  BY <1>1, Writers

\* A session that is opened belongs to the password in force, or to the one a reset
\* that has looked for sessions is about to commit.
Opened(s) ==
  /\ \E c \in Calls : issueSession(c)
  /\ rows'[s].since = (IF Revoking THEN password + 1 ELSE password) /\ password' = password

\* What a step makes of a session: it is opened, spared by a change, missed by a reset,
\* found again when a reset fails, or goes on under the password it had.
LEMMA SessionStep ==
  ASSUME TypeOK, Next, NEW s \in Sessions, Live(s)'
  PROVE  \/ Opened(s)
         \/ rows'[s].since = password' /\ Live(s) /\ \E c \in Calls : ChangeCommits(c)
         \/ /\ rows'[s].since = rows[s].since /\ Live(s) /\ s \notin ending
            /\ password' = password + 1 /\ Revoking
         \/ /\ Live(s) /\ password' = password /\ \E c \in Calls : ResetRollsBack(c)
            /\ rows'[s].since = (IF rows[s].since > password THEN password ELSE rows[s].since)
         \/ rows'[s].since = rows[s].since /\ Live(s) /\ (password' = password \/ password = NoAccount)
<1>1. ASSUME NEW c \in Calls, issueSession(c)
      PROVE  \/ Opened(s)
             \/ rows'[s].since = rows[s].since /\ Live(s) /\ password' = password
  <2>1. PICK r \in Sessions : Issued(r)
    BY <1>1 DEF issueSession
  <2>2. r # s => rows'[s] = rows[s]
    BY <2>1 DEF Issued, TypeOK
  <2>3. r = s => rows'[s].since = (IF Revoking THEN password + 1 ELSE password)
    BY <2>1 DEF Issued, TypeOK, NoRow
  <2>4. password' = password
    BY <1>1 DEF issueSession
  <2> QED
    BY <1>1, <2>2, <2>3, <2>4 DEF Opened, Live
<1>2. ASSUME NEW c \in Calls, Refresh(c)
      PROVE  rows'[s].since = rows[s].since /\ Live(s) /\ password' = password
  <2> DEFINE token == calls[c].cookies.refresh
  <2>1. CASE Rotatable(token)
    <3>1. rows' = [rows EXCEPT ![token.s] = [rows[token.s] EXCEPT !.n = token.n + 1, !.age = 0]]
      BY <1>2, <2>1 DEF Refresh, Rotated
    <3>2. Live(token.s)
      BY <2>1 DEF Rotatable, Holds
    <3> HIDE DEF token
    <3> QED
      BY <1>2, <3>1, <3>2 DEF Refresh, TypeOK, Live, Row
  <2>2. CASE ~Rotatable(token)
    BY <1>2, <2>2 DEF Refresh, Live
  <2> QED
    BY <2>1, <2>2
<1>3. ASSUME NEW S, Revoked(S) PROVE rows'[s] = rows[s] /\ s \notin S
  BY <1>3 DEF Revoked, TypeOK, Live, Row
<1>4. ASSUME NEW c \in Calls, Logout(c) \/ RevokeRefreshSession(c)
      PROVE  rows'[s] = rows[s] /\ password' = password
  BY <1>4, <1>3 DEF Logout, RevokeRefreshSession
<1>5. ASSUME NEW c \in Calls, ChangeCommits(c) PROVE rows'[s].since = password' /\ Live(s)
  BY <1>5 DEF ChangeCommits, TypeOK, Live, Row
<1>6. ASSUME NEW c \in Calls, ResetCommits(c)
      PROVE  /\ rows'[s] = rows[s] /\ s \notin ending
             /\ password' = password + 1 /\ Revoking
  BY <1>6, <1>3 DEF ResetCommits, Revoking
<1>7. ASSUME NEW r \in Sessions, Expires(r)
      PROVE  rows'[s].since = rows[s].since /\ Live(s) /\ password' = password
  BY <1>7 DEF Expires, TypeOK, Live, Row
<1>8. ASSUME NEW c \in Calls, ResetRollsBack(c)
      PROVE  /\ Live(s) /\ password' = password
             /\ rows'[s].since = (IF rows[s].since > password THEN password ELSE rows[s].since)
  BY <1>8 DEF ResetRollsBack, TypeOK, Live, Row
<1>9. ASSUME NEW c \in Calls, Register(c) PROVE password' = password \/ password = NoAccount
  BY <1>9 DEF Register
<1>10. CASE rows' = rows
  BY <1>5, <1>6, <1>9, <1>10, Writers DEF Live
<1>11. CASE rows' # rows
  BY <1>1, <1>2, <1>4, <1>5, <1>6, <1>7, <1>8, <1>11, Writers DEF Live
<1> QED
  BY <1>10, <1>11

\* Who comes between two statements of a registration or a login found the account.
LEMMA AccountFound ==
  ASSUME TypeOK, NEW c \in Calls, Entering(c), calls[c].kind \in {"register", "login"},
         calls'[c].phase = "within"
  PROVE  password' # NoAccount
<1>1. CASE Register(c)
  BY <1>1, AnswerEnds DEF Register, NoAccount
<1>2. CASE Login(c)
  BY <1>2, AnswerEnds DEF Login
<1> QED
  BY <1>1, <1>2 DEF Entering, Logout, ChangePassword, ConsumePasswordResetToken, Begins,
                    TypeOK

\* Every step keeps the sessions in line with the password.
LEMMA FollowStep == ASSUME FollowInv, [Next]_vars PROVE FollowInv'
<1>u. CASE UNCHANGED vars
  BY <1>u DEF FollowInv, TypeOK, AccountInv, HoldInv, Holder, EndingInv, Revoking, Resets,
              Continues, SessionsFollowThePassword, Live, vars
<1>n. CASE Next
  <2>1. TypeOK'
    BY <1>n, TypeStep DEF FollowInv
  <2>2. ASSUME NEW c \in Calls, calls'[c].phase = "within",
               calls'[c].kind \in {"register", "login"}
        PROVE  password' # NoAccount
    <3>1. CASE calls'[c] = calls[c]
      BY <1>n, <2>2, <3>1, PasswordStays DEF FollowInv, AccountInv
    <3>2. CASE Entering(c) /\ SameRequest(c)
      BY <2>2, <3>2, AccountFound DEF FollowInv, SameRequest
    <3> QED
      BY <1>n, <2>2, <3>1, <3>2, WithinStep DEF FollowInv
  <2>n. /\ password \in Nat /\ password' \in Nat
        /\ \A s \in Sessions : rows[s].since \in Nat /\ rows'[s].since \in Nat
    BY <2>1 DEF FollowInv, TypeOK, Row
  <2>3. ASSUME NEW s \in Sessions, Live(s)'
        PROVE  rows'[s].since >= password' /\ password' # NoAccount
    <3>1. Opened(s) => password # NoAccount
      BY DEF Opened, FollowInv, AccountInv, issueSession, Continues
    <3>2. Live(s) => password # NoAccount /\ rows[s].since >= password
      BY DEF FollowInv, AccountInv, SessionsFollowThePassword
    <3>3. password' # NoAccount
      BY <1>n, <2>3, <3>1, <3>2, SessionStep, PasswordStays DEF FollowInv
    <3>4. Live(s) /\ s \notin ending /\ Revoking => rows[s].since > password
      BY DEF FollowInv, EndingInv
    <3>5. Opened(s) => rows'[s].since >= password'
      BY <2>n DEF Opened
    <3> QED
      BY <1>n, <2>3, <2>n, <3>2, <3>3, <3>4, <3>5, SessionStep DEF FollowInv
  <2>4. HoldInv'
    BY <1>n, HoldStep DEF FollowInv
  <2>5. ASSUME Revoking', NEW s \in Sessions, Live(s)', s \notin ending'
        PROVE  rows'[s].since > password'
    <3>1. CASE \E c \in Calls : RevokeUserSessions(c)
      BY <2>5, <3>1 DEF RevokeUserSessions, OpenSessions, Live
    <3>2. CASE /\ Revoking /\ ending' = ending /\ (password' = password \/ password = NoAccount)
               /\ ~\E c \in Calls : ChangeCommits(c) \/ ResetCommits(c) \/ ResetRollsBack(c)
      <4>1. CASE Opened(s)
        BY <2>n, <3>2, <4>1 DEF Opened
      <4>2. CASE Live(s) /\ rows'[s].since = rows[s].since /\ password' = password
        BY <2>5, <3>2, <4>2 DEF FollowInv, EndingInv
      <4>3. Live(s) => password # NoAccount
        BY DEF FollowInv, AccountInv
      <4>4. \/ Opened(s)
            \/ /\ Live(s) /\ rows'[s].since = rows[s].since
               /\ password' = password \/ password = NoAccount
            \/ password' = password + 1
        BY <1>n, <2>5, <3>2, SessionStep DEF FollowInv
      <4>5. password' # password + 1 \/ password = NoAccount
        BY <2>n, <3>2
      <4>6. password' = password + 1 => Opened(s) \/ Live(s)
        BY <1>n, <2>5, SessionStep DEF FollowInv
      <4> QED
        BY <2>n, <4>1, <4>2, <4>3, <4>4, <4>5, <4>6
    <3> QED
      BY <1>n, <2>5, <3>1, <3>2, RevokingStep DEF FollowInv
  <2> QED
    BY <2>1, <2>2, <2>3, <2>4, <2>5
       DEF FollowInv, AccountInv, EndingInv, SessionsFollowThePassword, Live
<1> QED
  BY <1>u, <1>n

\* Initially there is no session.
LEMMA FollowInit == Init => FollowInv
<1> SUFFICES ASSUME Init PROVE FollowInv
  OBVIOUS
<1>1. TypeOK
  BY TypeInit
<1>2. \A s \in Sessions : ~Live(s)
  BY DEF Init, Live, NoRow
<1>3. \A c \in Calls : calls[c].phase = "idle"
  BY DEF Init, Idle
<1> QED
  BY <1>1, <1>2, <1>3 DEF FollowInv, AccountInv, HoldInv, Holder, Continues, Resets, EndingInv,
                          Revoking, SessionsFollowThePassword

\* No session outlives a change or a reset that was open when the statement ran that
\* ends the sessions.
THEOREM SessionsFollowThePasswordHolds == Spec => []SessionsFollowThePassword
BY FollowInit, FollowStep, PTL DEF Spec, FollowInv

-----------------------------------------------------------------------------
(* Passwords change once                                                   *)

\* What was entered goes with the request.
RequestInv ==
  \A c \in Calls : /\ calls[c].kind = "change" => calls[c].arg # NoAccount
                   /\ calls[c].kind = "confirm" => calls[c].arg \in ResetTokens

\* A change that holds the account knows the password it replaces.
ChangeInv == \A c \in Calls : Continues(c, "change") => calls[c].arg = password

\* One request at a time holds a reset token, which nobody has used.
ResetInv ==
  /\ \A c \in Calls : Resets(c) => resets[calls[c].arg] = "open"
  /\ \A c, d \in Calls :
       Resets(c) /\ Resets(d) /\ calls[c].arg = calls[d].arg => c = d

OnceInv == TypeOK /\ RequestInv /\ HoldInv /\ ChangeInv /\ ResetInv

\* A change of the password names its account, and a reset its token.
LEMMA RequestStep ==
  ASSUME TypeOK, RequestInv, Next
  PROVE  RequestInv'
<1> DEFINE Kept(d) == calls'[d].kind = calls[d].kind /\ calls'[d].arg = calls[d].arg
<1> SUFFICES ASSUME NEW d \in Calls
             PROVE  \/ Kept(d)
                    \/ calls'[d].kind \notin {"change", "confirm"}
                    \/ calls'[d].kind = "change" /\ calls'[d].arg # NoAccount
                    \/ calls'[d].kind = "confirm" /\ calls'[d].arg \in ResetTokens
  BY DEF RequestInv
<1>i. Idle.kind = "request"
  BY DEF Idle
<1>1. ASSUME NEW c \in Calls, NEW kind \in Kinds, NEW arg \in Entered(kind), Send(c, kind, arg)
      PROVE  \/ Kept(d)
             \/ calls'[d].kind \notin {"change", "confirm"}
             \/ calls'[d].kind = "change" /\ calls'[d].arg # NoAccount
             \/ calls'[d].kind = "confirm" /\ calls'[d].arg \in ResetTokens
  <2>1. kind = "change" => arg # NoAccount
    BY DEF Entered, NoAccount, TypeOK
  <2>2. kind = "confirm" => arg \in ResetTokens
    BY DEF Entered
  <2>3. d = c => calls'[d].kind = kind /\ calls'[d].arg = arg
    BY <1>1 DEF Send, TypeOK, Idle
  <2>4. d # c => calls'[d] = calls[d]
    BY <1>1 DEF Send, TypeOK
  <2> QED
    BY <2>1, <2>2, <2>3, <2>4
<1>2. ASSUME NEW c \in Calls, Arrive(c) \/ Lose(c)
      PROVE  Kept(d) \/ calls'[d] = Idle
  <2>1. CASE Deliver(c)
    BY <2>1 DEF Deliver, TypeOK
  <2>2. CASE StartRefresh(c)
    BY <2>2 DEF StartRefresh, TypeOK, Call
  <2>3. CASE AwaitRefresh(c)
    BY <2>3 DEF AwaitRefresh, TypeOK, Call
  <2>4. CASE RefreshArrives(c)
    <3>1. /\ Resent(d, jar'[BrowserOf[c]]).kind = calls[d].kind
          /\ Resent(d, jar'[BrowserOf[c]]).arg = calls[d].arg
      BY DEF Resent, TypeOK, Call
    <3> QED
      BY <2>4, <3>1 DEF RefreshArrives
  <2>5. CASE Lose(c)
    BY <2>5 DEF Lose
  <2> QED
    BY <1>2, <2>1, <2>2, <2>3, <2>4, <2>5 DEF Arrive
<1>3. ASSUME NEW c \in Calls, Serve(c)
      PROVE  Kept(d)
  <2>1. CASE Within(c) \/ \E reply : Answer(c, reply)
    BY <2>1, AnswerEnds, WithinBegins DEF SameRequest
  <2>2. CASE Refresh(c)
    BY <2>2 DEF Refresh, TypeOK, Call
  <2>3. CASE RefreshFails(c)
    BY <2>3 DEF RefreshFails, TypeOK, Call
  <2>4. CASE \E phase : calls' = [calls EXCEPT ![c] = [calls[c] EXCEPT !.phase = phase]]
    BY <2>4 DEF TypeOK, Call
  <2>5. \/ Within(c) \/ \E reply : Answer(c, reply)
        \/ Refresh(c) \/ RefreshFails(c)
        \/ \E phase : calls' = [calls EXCEPT ![c] = [calls[c] EXCEPT !.phase = phase]]
    BY <1>3 DEF Serve, Register, Login, issueSession, Request, Logout, RevokeRefreshSession,
                Authenticate, ChangePassword, ChangeCommits, RequestPasswordReset,
                ConsumePasswordResetToken, UpdatePasswordTx, RevokeUserSessions, ResetCommits,
                ResetRollsBack, ServerFails
  <2> QED
    BY <2>1, <2>2, <2>3, <2>4, <2>5
<1>4. ASSUME \/ \E b \in Browsers : AccessCookieEnds(b)
             \/ \E s \in Sessions : Expires(s)
             \/ \E t \in ResetTokens : ResetExpires(t)
             \/ WindowEnds
      PROVE  Kept(d)
  BY <1>4 DEF AccessCookieEnds, Expires, ResetExpires, WindowEnds
<1> QED
  BY <1>i, <1>1, <1>2, <1>3, <1>4 DEF Next

\* Who comes into the transaction of a change has compared the password.
LEMMA ChangeBegins ==
  ASSUME TypeOK, NEW c \in Calls, Entering(c), SameRequest(c), Continues(c, "change")'
  PROVE  /\ ~UserLocked /\ calls[c].arg = password /\ password' = password
         /\ \A d \in Calls \ {c} : calls'[d] = calls[d]
<1>1. ChangePassword(c)
  BY DEF Entering, SameRequest, Continues, Register, Login, Logout, ConsumePasswordResetToken, Begins
<1> QED
  BY <1>1, AnswerEnds, WithinBegins DEF ChangePassword, Continues

\* A reset that begins has found its token open, and nobody holds it; one that goes on
\* was there before.
LEMMA ResetGoesOn ==
  ASSUME TypeOK, Next, NEW c \in Calls, Resets(c)'
  PROVE  \/ calls'[c] = calls[c]
         \/ /\ resets' = resets /\ calls'[c].arg = calls[c].arg
            /\ \A d \in Calls \ {c} : calls'[d] = calls[d]
            /\ \/ ~ResetLocked(calls[c].arg) /\ resets[calls[c].arg] = "open"
               \/ Resets(c)
<1>1. CASE Entering(c) /\ SameRequest(c) /\ calls'[c].phase = "within"
  <2>1. ConsumePasswordResetToken(c)
    BY <1>1 DEF Entering, SameRequest, Resets, Register, Login, Logout, ChangePassword, Begins
  <2>2. \A d \in Calls \ {c} : calls'[d] = calls[d]
    BY <2>1, AnswerEnds, WithinBegins DEF ConsumePasswordResetToken
  <2>3. ~Answer(c, Refused)
    BY <1>1, AnswerEnds
  <2> QED
    BY <1>1, <2>1, <2>2, <2>3 DEF ConsumePasswordResetToken, SameRequest
<1>2. CASE Advances(c)
  BY <1>2 DEF Advances, SameRequest, UpdatePasswordTx, RevokeUserSessions, Resets, Continues
<1> QED
  BY <1>1, <1>2, TransactionStep DEF Resets, Transaction

\* Every step keeps what is known of password changes.
LEMMA ChangeStep == ASSUME OnceInv, Next PROVE ChangeInv'
<1>t. TypeOK
  BY DEF OnceInv
<1>1. ASSUME NEW c \in Calls, calls'[c] = calls[c], Continues(c, "change")
      PROVE  password' = password
  <2>1. ASSUME NEW d \in Calls, Register(d) PROVE password' = password
    BY <1>1, <2>1 DEF Register, OnceInv, RequestInv, ChangeInv, Continues
  <2>2. ASSUME NEW d \in Calls, ChangeCommits(d) PROVE FALSE
    <3>1. d = c
      BY <1>1, <2>2 DEF ChangeCommits, OnceInv, HoldInv, Holder
    <3>2. calls'[c].phase = "answered"
      BY <1>t, <2>2, <3>1, AnswerEnds DEF ChangeCommits
    <3> QED
      BY <1>1, <3>2 DEF Continues
  <2>3. ASSUME NEW d \in Calls, ResetCommits(d) PROVE FALSE
    <3>1. d = c
      BY <1>1, <2>3 DEF ResetCommits, OnceInv, HoldInv, Holder
    <3> QED
      BY <1>1, <2>3, <3>1 DEF ResetCommits, Resets, Continues
  <2> QED
    BY <2>1, <2>2, <2>3, Writers
<1>2. ASSUME NEW c \in Calls, Continues(c, "change")'
      PROVE  calls'[c].arg = password'
  <2>1. CASE calls'[c] = calls[c]
    BY <1>1, <1>2, <2>1 DEF OnceInv, ChangeInv, Continues
  <2>2. CASE Entering(c) /\ SameRequest(c)
    BY <1>t, <1>2, <2>2, ChangeBegins DEF SameRequest
  <2> QED
    BY <1>t, <1>2, <2>1, <2>2, WithinStep DEF Continues
<1> QED
  BY <1>2 DEF ChangeInv

\* Every step keeps what is known of password resets.
LEMMA ResetStep == ASSUME OnceInv, Next PROVE ResetInv'
<1>t. TypeOK
  BY DEF OnceInv
<1>1. ASSUME NEW c \in Calls, calls'[c] = calls[c], Resets(c)
      PROVE  resets'[calls[c].arg] = "open"
  <2>o. calls[c].arg \in ResetTokens /\ resets[calls[c].arg] = "open"
    BY <1>1 DEF OnceInv, RequestInv, ResetInv, Resets
  <2>1. ASSUME NEW d \in Calls, RequestPasswordReset(d) PROVE resets'[calls[c].arg] = "open"
    BY <2>o, <2>1, <1>t DEF RequestPasswordReset, TypeOK
  <2>2. ASSUME NEW d \in Calls, ResetCommits(d) PROVE resets'[calls[c].arg] = "open"
    <3>1. d # c
      BY <1>t, <1>1, <2>2, AnswerEnds DEF ResetCommits, Resets
    <3>2. calls[d].arg # calls[c].arg
      BY <1>1, <2>2, <3>1 DEF ResetCommits, OnceInv, ResetInv
    <3> QED
      BY <1>t, <2>o, <2>2, <3>2 DEF ResetCommits, TypeOK
  <2>3. ASSUME NEW t \in ResetTokens, ResetExpires(t) PROVE resets'[calls[c].arg] = "open"
    BY <1>t, <1>1, <2>o, <2>3 DEF ResetExpires, ResetLocked, TypeOK
  <2> QED
    BY <2>o, <2>1, <2>2, <2>3, Writers
<1>2. ASSUME NEW c \in Calls, Resets(c)'
      PROVE  resets'[calls'[c].arg] = "open"
  <2>1. CASE calls'[c] = calls[c]
    BY <1>1, <1>2, <2>1 DEF Resets
  <2>2. CASE /\ resets' = resets /\ calls'[c].arg = calls[c].arg
             /\ resets[calls[c].arg] = "open" \/ Resets(c)
    BY <2>2 DEF OnceInv, ResetInv
  <2> QED
    BY <1>t, <1>2, <2>1, <2>2, ResetGoesOn
<1>3. ASSUME NEW c \in Calls, NEW d \in Calls, c # d, calls'[c].arg = calls'[d].arg,
             Resets(c)', Resets(d)'
      PROVE  FALSE
  <2>1. ASSUME NEW e \in Calls, NEW f \in Calls, e # f, calls'[e] # calls[e],
               calls'[e].arg = calls'[f].arg, Resets(e)', Resets(f)'
        PROVE  FALSE
    <3>1. /\ calls'[f] = calls[f] /\ calls'[e].arg = calls[e].arg
          /\ ~ResetLocked(calls[e].arg) \/ Resets(e)
      BY <1>t, <2>1, ResetGoesOn
    <3>2. Resets(f) /\ calls[f].arg = calls[e].arg
      BY <2>1, <3>1 DEF Resets
    <3> QED
      BY <2>1, <3>1, <3>2 DEF ResetLocked, OnceInv, ResetInv
  <2>2. CASE calls'[c] = calls[c] /\ calls'[d] = calls[d]
    BY <1>3, <2>2 DEF OnceInv, ResetInv, Resets
  <2> QED
    BY <1>3, <2>1, <2>2
<1> QED
  BY <1>2, <1>3 DEF ResetInv

\* Initially no password is being changed.
LEMMA OnceInit == Init => OnceInv
<1> SUFFICES ASSUME Init PROVE OnceInv
  OBVIOUS
<1>1. TypeOK
  BY TypeInit
<1>2. \A c \in Calls : calls[c].phase = "idle" /\ calls[c].kind = "request"
  BY DEF Init, Idle
<1> QED
  BY <1>1, <1>2 DEF OnceInv, RequestInv, HoldInv, Holder, ChangeInv, ResetInv, Continues, Resets

\* Every step keeps each change of a password single.
LEMMA OnceStep == ASSUME OnceInv, [Next]_vars PROVE OnceInv'
<1>1. CASE UNCHANGED vars
  BY <1>1 DEF OnceInv, TypeOK, RequestInv, HoldInv, Holder, ChangeInv, ResetInv, Continues,
              Resets, vars
<1>2. CASE Next
  BY <1>2, TypeStep, RequestStep, HoldStep, ChangeStep, ResetStep DEF OnceInv
<1> QED
  BY <1>1, <1>2

\* A change replaces the password it compared, and a reset token sets one password.
THEOREM PasswordChangesOnceHolds == Spec => PasswordChangesOnce
<1>1. OnceInv => ComparedIsReplaced /\ ResetTokenWorksOnce
  BY DEF OnceInv, ChangeInv, ResetInv, ComparedIsReplaced, ResetTokenWorksOnce
<1> QED
  BY <1>1, OnceInit, OnceStep, PTL DEF Spec, PasswordChangesOnce

-----------------------------------------------------------------------------
(* A logout ends the session                                               *)

\* A token somebody holds was issued for a row, which may have been rotated since.
Known(token) ==
  token.s # None => /\ token.s \in Sessions /\ rows[token.s].state # "absent"
                    /\ token.n <= rows[token.s].n

JarKnown == \A b \in Browsers : Known(jar[b].access) /\ Known(jar[b].refresh)

CallsKnown ==
  \A c \in Calls : /\ Known(calls[c].cookies.access) /\ Known(calls[c].cookies.refresh)
                   /\ Known(calls[c].reply.token)

\* The first statement of a logout has ended the session of the access token.
WithinLogout == \A c \in Calls : Continues(c, "logout") => ~Holds(calls[c].cookies.access)

LogoutInv == TypeOK /\ JarKnown /\ CallsKnown /\ WithinLogout /\ LogoutEndsTheSession

\* A row is opened once, rotated upwards and revoked for good.
LEMMA RowsGrow ==
  ASSUME TypeOK, Next, NEW s \in Sessions
  PROVE  /\ rows[s].state # "absent" => rows'[s].state # "absent" /\ rows[s].n <= rows'[s].n
         /\ rows[s].state = "revoked" => rows'[s].state = "revoked"
<1> DEFINE Grows == /\ rows[s].state # "absent" => rows'[s].state # "absent" /\ rows[s].n <= rows'[s].n
                    /\ rows[s].state = "revoked" => rows'[s].state = "revoked"
<1>0. rows[s] \in Row /\ rows[s].n \in Nat /\ rows[s].n <= rows[s].n
  BY DEF TypeOK, Row
<1>1. ASSUME NEW c \in Calls, issueSession(c) PROVE Grows
  <2>1. PICK r \in Sessions : NextRow(r) /\ Issued(r)
    BY <1>1 DEF issueSession
  <2> QED
    BY <1>0, <2>1 DEF Issued, NextRow, TypeOK
<1>2. ASSUME NEW c \in Calls, Refresh(c) PROVE Grows
  <2> DEFINE token == calls[c].cookies.refresh
  <2>1. CASE Rotatable(token)
    <3>1. rows' = [rows EXCEPT ![token.s] = [rows[token.s] EXCEPT !.n = token.n + 1, !.age = 0]]
      BY <1>2, <2>1 DEF Refresh, Rotated
    <3>2. rows[token.s].n = token.n
      BY <2>1 DEF Rotatable, Holds
    <3> HIDE DEF token
    <3>3. s = token.s => rows'[s].n = rows[s].n + 1 /\ rows'[s].state = rows[s].state
      BY <1>0, <3>1, <3>2 DEF TypeOK, Row
    <3>4. s # token.s => rows'[s] = rows[s]
      BY <3>1 DEF TypeOK
    <3> QED
      BY <1>0, <3>3, <3>4
  <2>2. CASE ~Rotatable(token)
    BY <1>0, <1>2, <2>2 DEF Refresh
  <2> QED
    BY <2>1, <2>2
<1>3. ASSUME NEW S, Revoked(S) PROVE Grows
  BY <1>0, <1>3 DEF Revoked, Live, Row
<1>4. ASSUME NEW c \in Calls, ChangeCommits(c) PROVE Grows
  BY <1>0, <1>4 DEF ChangeCommits, Live, Row
<1>5. ASSUME NEW r \in Sessions, Expires(r) PROVE Grows
  BY <1>0, <1>5 DEF Expires, TypeOK, Row
<1>6. CASE rows' = rows
  BY <1>0, <1>6
<1>7. ASSUME NEW c \in Calls, Logout(c) \/ RevokeRefreshSession(c) \/ ResetCommits(c) PROVE Grows
  BY <1>3, <1>7 DEF Logout, RevokeRefreshSession, ResetCommits
<1>8. ASSUME NEW c \in Calls, ResetRollsBack(c) PROVE Grows
  BY <1>0, <1>8 DEF ResetRollsBack, Row
<1> QED
  BY <1>1, <1>2, <1>4, <1>5, <1>6, <1>7, <1>8, Writers

\* So a known token stays known, and one that has ended does not come back.
LEMMA KnownStays ==
  ASSUME TypeOK, TypeOK', Next, NEW token \in Token, Known(token)
  PROVE  Known(token)' /\ (~Holds(token) => ~Holds(token)')
<1>1. CASE token.s = None
  BY <1>1 DEF Known, Holds
<1>2. CASE token.s # None
  <2>1. /\ token.s \in Sessions /\ rows[token.s].state # "absent" /\ token.n <= rows[token.s].n
        /\ token.n \in Nat
    BY <1>2 DEF Known, Token, NoToken
  <2>2. rows[token.s] \in Row /\ rows'[token.s] \in Row
    BY <2>1 DEF TypeOK
  <2>3. /\ rows[token.s].n \in Nat /\ rows'[token.s].n \in Nat
        /\ rows[token.s].state \in {"absent", "live", "revoked"}
    BY <2>2 DEF Row
  <2>4. rows'[token.s].state # "absent" /\ rows[token.s].n <= rows'[token.s].n
    BY <2>1, RowsGrow
  <2>5. Known(token)'
    BY <2>1, <2>3, <2>4 DEF Known
  <2>6. CASE rows[token.s].state = "revoked"
    BY <2>1, <2>5, <2>6, RowsGrow DEF Holds, Live
  <2>7. CASE token.n < rows[token.s].n
    BY <2>1, <2>3, <2>4, <2>5, <2>7 DEF Holds
  <2>8. ~Holds(token) => rows[token.s].state = "revoked" \/ token.n < rows[token.s].n
    BY <1>2, <2>1, <2>3 DEF Holds, Live
  <2> QED
    BY <2>5, <2>6, <2>7, <2>8
<1> QED
  BY <1>1, <1>2

\* Cookies come from answers.
LEMMA JarStep ==
  ASSUME TypeOK, Next, NEW b \in Browsers
  PROVE  \/ jar'[b].access = jar[b].access /\ jar'[b].refresh = jar[b].refresh
         \/ jar'[b].access = NoToken /\ jar'[b].refresh \in {jar[b].refresh, NoToken}
         \/ \E c \in Calls : /\ jar'[b].access = calls[c].reply.token
                             /\ jar'[b].refresh = calls[c].reply.token
<1>1. ASSUME NEW c \in Calls, jar' = [jar EXCEPT ![BrowserOf[c]] = Applied(BrowserOf[c], calls[c].reply)]
      PROVE  \/ jar'[b] = jar[b] \/ jar'[b] = NoCookies
             \/ jar'[b].access = calls[c].reply.token /\ jar'[b].refresh = calls[c].reply.token
  BY <1>1 DEF Applied, TypeOK
<1>2. ASSUME NEW a \in Browsers, AccessCookieEnds(a)
      PROVE  \/ jar'[b] = jar[b]
             \/ jar'[b].access = NoToken /\ jar'[b].refresh = jar[b].refresh
  BY <1>2 DEF AccessCookieEnds, TypeOK, Jar
<1>3. \/ jar' = jar
      \/ \E c \in Calls : jar' = [jar EXCEPT ![BrowserOf[c]] = Applied(BrowserOf[c], calls[c].reply)]
      \/ \E a \in Browsers : AccessCookieEnds(a)
  <2>1. ASSUME NEW c \in Calls, Serve(c) PROVE jar' = jar
    BY <2>1 DEF Serve, Register, Login, issueSession, Request, Refresh, Logout,
                RevokeRefreshSession, Authenticate, ChangePassword, ChangeCommits,
                RequestPasswordReset, ConsumePasswordResetToken, UpdatePasswordTx,
                RevokeUserSessions, ResetCommits, ResetRollsBack, ServerFails, RefreshFails
  <2> QED
    BY <2>1 DEF Next, Send, Arrive, Deliver, StartRefresh, AwaitRefresh, RefreshArrives, Lose,
                Expires, ResetExpires, WindowEnds
<1>4. NoCookies.access = NoToken /\ NoCookies.refresh = NoToken
  BY DEF NoCookies
<1> QED
  BY <1>1, <1>2, <1>3, <1>4

\* A request carries the cookies of its browser.
LEMMA CookiesStep ==
  ASSUME TypeOK, Next, NEW d \in Calls
  PROVE  \/ calls'[d].cookies = calls[d].cookies
         \/ calls'[d].cookies = NoCookies
         \/ calls'[d].cookies = jar[BrowserOf[d]]
         \/ \E c \in Calls : calls'[d].cookies = jar'[BrowserOf[c]]
<1> DEFINE Carries == \/ calls'[d].cookies = calls[d].cookies
                      \/ calls'[d].cookies = NoCookies
                      \/ calls'[d].cookies = jar[BrowserOf[d]]
                      \/ \E c \in Calls : calls'[d].cookies = jar'[BrowserOf[c]]
<1>i. Idle.cookies = NoCookies
  BY DEF Idle
<1>1. ASSUME NEW c \in Calls, NEW kind \in Kinds, NEW arg, Send(c, kind, arg)
      PROVE  Carries
  <2>1. [Idle EXCEPT !.phase = "sent", !.kind = kind, !.arg = arg, !.cookies = jar[BrowserOf[c]],
                     !.retry = (kind = "request")].cookies = jar[BrowserOf[c]]
    BY DEF Idle
  <2> QED
    BY <1>1, <2>1 DEF Send, TypeOK
<1>2. ASSUME NEW c \in Calls, Arrive(c) \/ Lose(c)
      PROVE  Carries
  <2>1. CASE Deliver(c)
    BY <1>i, <2>1 DEF Deliver, TypeOK
  <2>2. CASE StartRefresh(c)
    BY <2>2 DEF StartRefresh, TypeOK, Call
  <2>3. CASE AwaitRefresh(c)
    BY <2>3 DEF AwaitRefresh, TypeOK, Call
  <2>4. CASE RefreshArrives(c)
    <3>1. Resent(d, jar'[BrowserOf[c]]).cookies = jar'[BrowserOf[c]]
      BY DEF Resent, TypeOK, Call
    <3> QED
      BY <1>i, <2>4, <3>1 DEF RefreshArrives
  <2>5. CASE Lose(c)
    BY <1>i, <2>5 DEF Lose
  <2> QED
    BY <1>2, <2>1, <2>2, <2>3, <2>4, <2>5 DEF Arrive
<1>3. ASSUME NEW c \in Calls, Serve(c)
      PROVE  calls'[d].cookies = calls[d].cookies
  <2>1. CASE Within(c) \/ \E reply : Answer(c, reply)
    BY <2>1, AnswerEnds, WithinBegins DEF SameRequest
  <2>2. CASE Refresh(c)
    BY <2>2 DEF Refresh, TypeOK, Call
  <2>3. CASE RefreshFails(c)
    BY <2>3 DEF RefreshFails, TypeOK, Call
  <2>4. CASE \E phase : calls' = [calls EXCEPT ![c] = [calls[c] EXCEPT !.phase = phase]]
    BY <2>4 DEF TypeOK, Call
  <2> QED
    BY <1>3, <2>1, <2>2, <2>3, <2>4
       DEF Serve, Register, Login, issueSession, Request, Logout, RevokeRefreshSession,
           Authenticate, ChangePassword, ChangeCommits, RequestPasswordReset,
           ConsumePasswordResetToken, UpdatePasswordTx, RevokeUserSessions, ResetCommits,
           ResetRollsBack, ServerFails
<1>4. ASSUME \/ \E b \in Browsers : AccessCookieEnds(b)
             \/ \E s \in Sessions : Expires(s)
             \/ \E t \in ResetTokens : ResetExpires(t)
             \/ WindowEnds
      PROVE  calls' = calls
  BY <1>4 DEF AccessCookieEnds, Expires, ResetExpires, WindowEnds
<1> QED
  BY <1>1, <1>2, <1>3, <1>4 DEF Next

\* A token whose row is there after the step.
Backed(token) ==
  /\ token.s \in Sessions /\ rows'[token.s].state # "absent"
  /\ token.n <= rows'[token.s].n

\* An answer gives a token of a row that is there.
LEMMA ReplyStep ==
  ASSUME TypeOK, Next, NEW d \in Calls
  PROVE  \/ calls'[d].reply.token = calls[d].reply.token
         \/ calls'[d].reply.token = NoToken
         \/ Backed(calls'[d].reply.token)
<1> DEFINE Told == \/ calls'[d].reply.token = calls[d].reply.token
                   \/ calls'[d].reply.token = NoToken
                   \/ Backed(calls'[d].reply.token)
<1>i. /\ Idle.reply.token = NoToken /\ Refused.token = NoToken /\ Done.token = NoToken
      /\ Cleared(TRUE).token = NoToken /\ Cleared(FALSE).token = NoToken
  BY DEF Idle, Refused, Done, Cleared
<1>a. ASSUME NEW c \in Calls, NEW reply \in {Refused, Done, Cleared(TRUE), Cleared(FALSE)}, Answer(c, reply)
      PROVE  Told
  <2>1. reply.token = NoToken
    BY <1>i
  <2>2. /\ d # c => calls'[d] = calls[d]
        /\ d = c => calls'[d].reply = reply
    BY <1>a, AnswerEnds
  <2> QED
    BY <2>1, <2>2
<1>1. ASSUME NEW c \in Calls, NEW kind \in Kinds, NEW arg, Send(c, kind, arg)
      PROVE  Told
  <2>1. [Idle EXCEPT !.phase = "sent", !.kind = kind, !.arg = arg, !.cookies = jar[BrowserOf[c]],
                     !.retry = (kind = "request")].reply.token = NoToken
    BY <1>i DEF Idle
  <2> QED
    BY <1>1, <2>1 DEF Send, TypeOK
<1>2. ASSUME NEW c \in Calls, Arrive(c) \/ Lose(c)
      PROVE  Told
  <2>1. CASE Deliver(c)
    BY <1>i, <2>1 DEF Deliver, TypeOK
  <2>2. CASE StartRefresh(c)
    BY <1>i, <2>2 DEF StartRefresh, TypeOK, Call
  <2>3. CASE AwaitRefresh(c)
    BY <1>i, <2>3 DEF AwaitRefresh, TypeOK, Call
  <2>4. CASE RefreshArrives(c)
    <3>1. Resent(d, jar'[BrowserOf[c]]).reply.token = NoToken
      BY <1>i DEF Resent, TypeOK, Call
    <3> QED
      BY <1>i, <2>4, <3>1 DEF RefreshArrives
  <2>5. CASE Lose(c)
    BY <1>i, <2>5 DEF Lose
  <2> QED
    BY <1>2, <2>1, <2>2, <2>3, <2>4, <2>5 DEF Arrive
<1>3. ASSUME NEW c \in Calls, Entering(c)
      PROVE  Told
  <2>1. CASE Within(c)
    BY <2>1 DEF Within, TypeOK, Call
  <2> QED
    BY <1>3, <1>a, <2>1 DEF Entering, Register, Login, Logout, ChangePassword,
                            ConsumePasswordResetToken
<1>4. ASSUME NEW c \in Calls,
             \/ Request(c) \/ RevokeRefreshSession(c) \/ ChangeCommits(c)
             \/ RequestPasswordReset(c) \/ ResetCommits(c) \/ ResetRollsBack(c) \/ ServerFails(c)
      PROVE  Told
  BY <1>4, <1>a DEF Request, RevokeRefreshSession, ChangeCommits, RequestPasswordReset,
                    ResetCommits, ResetRollsBack, ServerFails
<1>5. ASSUME NEW c \in Calls, Authenticate(c) \/ UpdatePasswordTx(c) \/ RevokeUserSessions(c)
      PROVE  Told
  <2>1. CASE \E phase : calls' = [calls EXCEPT ![c] = [calls[c] EXCEPT !.phase = phase]]
    BY <2>1 DEF TypeOK, Call
  <2> QED
    BY <1>5, <1>a, <2>1 DEF Authenticate, UpdatePasswordTx, RevokeUserSessions
<1>6. ASSUME NEW c \in Calls, issueSession(c) PROVE Told
  <2>1. PICK s \in Sessions : Issued(s) /\ Answer(c, Given([s |-> s, n |-> 0]))
    BY <1>6 DEF issueSession
  <2>2. rows'[s].state = "live" /\ rows'[s].n = 0
    BY <2>1 DEF Issued, NoRow, TypeOK
  <2>3. d = c => calls'[d].reply.token = [s |-> s, n |-> 0]
    BY <2>1, AnswerEnds DEF Given
  <2>4. d # c => calls'[d] = calls[d]
    BY <2>1, AnswerEnds
  <2>5. Backed([s |-> s, n |-> 0])
    BY <2>2 DEF Backed
  <2> QED
    BY <2>3, <2>4, <2>5
<1>7. ASSUME NEW c \in Calls, Refresh(c) PROVE Told
  <2> DEFINE token == calls[c].cookies.refresh
             next == [token EXCEPT !.n = token.n + 1]
  <2>t. token \in Token
    BY DEF TypeOK, Call, Jar
  <2>1. CASE Rotatable(token)
    <3>1. calls' = [calls EXCEPT ![c] = [calls[c] EXCEPT !.phase = "refreshed", !.reply = Given(next)]]
      BY <1>7, <2>1 DEF Refresh
    <3>2. rows' = [rows EXCEPT ![token.s] = [rows[token.s] EXCEPT !.n = token.n + 1, !.age = 0]]
      BY <1>7, <2>1 DEF Refresh, Rotated
    <3>3. token.s \in Sessions /\ rows[token.s].state = "live" /\ token.n + 1 \in Nat
      BY <2>t, <2>1 DEF Rotatable, Holds, Live, Token, NoToken
    <3>4. next.s = token.s /\ next.n = token.n + 1
      BY <2>t DEF Token, NoToken
    <3> HIDE DEF token, next
    <3>5. rows'[token.s].state = "live" /\ rows'[token.s].n = token.n + 1
      BY <3>2, <3>3 DEF TypeOK, Row
    <3>6. Backed(next)
      BY <3>3, <3>4, <3>5 DEF Backed
    <3>7. Given(next).token = next
      BY DEF Given
    <3>8. d = c => calls'[d].reply.token = next
      BY <3>1, <3>7 DEF TypeOK, Call
    <3>9. d # c => calls'[d] = calls[d]
      BY <3>1 DEF TypeOK
    <3> QED
      BY <3>6, <3>8, <3>9
  <2>2. CASE ~Rotatable(token)
    BY <1>i, <1>7, <2>2 DEF Refresh, TypeOK, Call
  <2> QED
    BY <2>1, <2>2
<1>8. ASSUME NEW c \in Calls, RefreshFails(c) PROVE Told
  BY <1>i, <1>8 DEF RefreshFails, TypeOK, Call
<1>9. ASSUME \/ \E b \in Browsers : AccessCookieEnds(b)
             \/ \E s \in Sessions : Expires(s)
             \/ \E t \in ResetTokens : ResetExpires(t)
             \/ WindowEnds
      PROVE  calls' = calls
  BY <1>9 DEF AccessCookieEnds, Expires, ResetExpires, WindowEnds
<1> QED
  BY <1>1, <1>2, <1>3, <1>4, <1>5, <1>6, <1>7, <1>8, <1>9 DEF Next, Serve, Entering

\* The tokens in browsers and requests are those the server has issued.
LEMMA KnownStep ==
  ASSUME TypeOK, TypeOK', JarKnown, CallsKnown, Next
  PROVE  JarKnown' /\ CallsKnown'
<1> DEFINE Stays(token) == token.s # None => Backed(token)
<1>n. Stays(NoToken)
  BY DEF NoToken
<1>k. ASSUME NEW token \in Token, Known(token) PROVE Stays(token)
  BY <1>k, KnownStays DEF Known, Backed
<1>1. ASSUME NEW b \in Browsers PROVE Stays(jar[b].access) /\ Stays(jar[b].refresh)
  <2>1. jar[b].access \in Token /\ jar[b].refresh \in Token
    BY DEF TypeOK, Jar
  <2> QED
    BY <1>k, <2>1 DEF JarKnown
<1>2. ASSUME NEW c \in Calls
      PROVE  /\ Stays(calls[c].cookies.access) /\ Stays(calls[c].cookies.refresh)
             /\ Stays(calls[c].reply.token)
  <2>1. calls[c].cookies \in Jar /\ calls[c].reply \in Reply
    BY DEF TypeOK, Call
  <2>2. /\ calls[c].cookies.access \in Token /\ calls[c].cookies.refresh \in Token
        /\ calls[c].reply.token \in Token
    BY <2>1 DEF Jar, Reply
  <2> QED
    BY <1>k, <2>2 DEF CallsKnown
<1>3. ASSUME NEW b \in Browsers PROVE Stays(jar'[b].access) /\ Stays(jar'[b].refresh)
  BY <1>n, <1>1, <1>2, JarStep
<1>4. ASSUME NEW d \in Calls
      PROVE  /\ Stays(calls'[d].cookies.access) /\ Stays(calls'[d].cookies.refresh)
             /\ Stays(calls'[d].reply.token)
  <2>1. Stays(calls'[d].cookies.access) /\ Stays(calls'[d].cookies.refresh)
    <3>1. NoCookies.access = NoToken /\ NoCookies.refresh = NoToken
      BY DEF NoCookies
    <3>2. \A c \in Calls : BrowserOf[c] \in Browsers
      BY BrowsersAssumption
    <3> QED
      BY <1>n, <1>1, <1>2, <1>3, <3>1, <3>2, CookiesStep
  <2>2. Stays(calls'[d].reply.token)
    BY <1>n, <1>2, ReplyStep
  <2> QED
    BY <2>1, <2>2
<1> QED
  BY <1>3, <1>4 DEF JarKnown, CallsKnown, Known, Backed

\* An answered logout has done its second statement.
LEMMA AnsweredStep ==
  ASSUME TypeOK, Next, NEW d \in Calls,
         calls'[d].phase = "answered", calls'[d].kind = "logout", calls'[d].reply.ok
  PROVE  calls'[d] = calls[d] \/ (RevokeRefreshSession(d) /\ SameRequest(d))
<1>r. ~Refused.ok /\ ~Cleared(FALSE).ok
  BY DEF Refused, Cleared
<1>1. ASSUME NEW c \in Calls, NEW kind \in Kinds, NEW arg, Send(c, kind, arg)
      PROVE  calls'[d] = calls[d]
  <2>1. [Idle EXCEPT !.phase = "sent", !.kind = kind, !.arg = arg, !.cookies = jar[BrowserOf[c]],
                     !.retry = (kind = "request")].phase = "sent"
    BY DEF Idle
  <2> QED
    BY <1>1, <2>1 DEF Send, TypeOK
<1>2. ASSUME NEW c \in Calls, Arrive(c) \/ Lose(c)
      PROVE  calls'[d] = calls[d]
  <2>i. Idle.phase = "idle"
    BY DEF Idle
  <2>1. CASE Deliver(c)
    BY <2>i, <2>1 DEF Deliver, TypeOK
  <2>2. CASE StartRefresh(c)
    BY <2>2 DEF StartRefresh, TypeOK, Call
  <2>3. CASE AwaitRefresh(c)
    BY <2>3 DEF AwaitRefresh, TypeOK, Call
  <2>4. CASE RefreshArrives(c)
    <3>1. Resent(d, jar'[BrowserOf[c]]).phase = "sent"
      BY DEF Resent, TypeOK, Call
    <3> QED
      BY <2>i, <2>4, <3>1 DEF RefreshArrives
  <2>5. CASE Lose(c)
    BY <2>i, <2>5 DEF Lose
  <2> QED
    BY <1>2, <2>1, <2>2, <2>3, <2>4, <2>5 DEF Arrive
<1>3. ASSUME NEW c \in Calls, \/ Entering(c) \/ ServerFails(c) \/ Authenticate(c)
                               \/ UpdatePasswordTx(c) \/ RevokeUserSessions(c) \/ ResetRollsBack(c)
      PROVE  calls'[d] = calls[d]
  <2>1. CASE Answer(c, Refused)
    BY <1>r, <2>1, AnswerEnds
  <2>2. CASE Within(c)
    BY <2>2 DEF Within, TypeOK, Call
  <2>3. CASE \E phase \in {"admitted", "updated", "revoking"} :
               calls' = [calls EXCEPT ![c] = [calls[c] EXCEPT !.phase = phase]]
    BY <2>3 DEF TypeOK, Call
  <2> QED
    BY <1>3, <2>1, <2>2, <2>3
       DEF Entering, Register, Login, Logout, ChangePassword, ConsumePasswordResetToken,
           ServerFails, Authenticate, UpdatePasswordTx, RevokeUserSessions, ResetRollsBack
<1>4. ASSUME NEW c \in Calls,
             \/ issueSession(c) \/ Request(c) \/ ChangeCommits(c)
             \/ RequestPasswordReset(c) \/ ResetCommits(c)
      PROVE  calls'[d] = calls[d]
  <2>1. calls[c].kind # "logout"
    BY <1>4 DEF issueSession, Request, ChangeCommits, RequestPasswordReset, ResetCommits,
                Begins, Continues, Resets
  <2>2. \E reply : Answer(c, reply)
    BY <1>4 DEF issueSession, Request, ChangeCommits, RequestPasswordReset, ResetCommits
  <2> QED
    BY <2>1, <2>2, AnswerEnds DEF SameRequest
<1>5. ASSUME NEW c \in Calls, RevokeRefreshSession(c)
      PROVE  calls'[d] = calls[d] \/ (RevokeRefreshSession(d) /\ SameRequest(d))
  <2>1. Answer(c, Cleared(TRUE))
    BY <1>5 DEF RevokeRefreshSession
  <2> QED
    BY <1>5, <2>1, AnswerEnds
<1>6. ASSUME NEW c \in Calls, Refresh(c) PROVE calls'[d] = calls[d]
  BY <1>6 DEF Refresh, TypeOK, Call
<1>7. ASSUME NEW c \in Calls, RefreshFails(c) PROVE calls'[d] = calls[d]
  BY <1>7 DEF RefreshFails, TypeOK, Call
<1>8. ASSUME \/ \E b \in Browsers : AccessCookieEnds(b)
             \/ \E s \in Sessions : Expires(s)
             \/ \E t \in ResetTokens : ResetExpires(t)
             \/ WindowEnds
      PROVE  calls'[d] = calls[d]
  BY <1>8 DEF AccessCookieEnds, Expires, ResetExpires, WindowEnds
<1> QED
  BY <1>1, <1>2, <1>3, <1>4, <1>5, <1>6, <1>7, <1>8 DEF Next, Serve, Entering

\* A statement of a logout leaves no session that holds its token.
LEMMA RevokedHoldsNot ==
  ASSUME TypeOK, NEW token \in Token, Revoked({s \in Sessions : Holds(token) /\ s = token.s})
  PROVE  ~Holds(token)'
<1>1. CASE Holds(token)
  <2>1. token.s \in Sessions /\ Live(token.s)
    BY <1>1 DEF Holds, Token, NoToken
  <2>2. rows'[token.s] = [rows[token.s] EXCEPT !.state = "revoked"]
    BY <1>1, <2>1 DEF Revoked
  <2>3. rows'[token.s].state = "revoked"
    BY <2>1, <2>2 DEF TypeOK, Row
  <2> QED
    BY <2>3 DEF Holds, Live
<1>2. CASE ~Holds(token)
  <2>1. \A s \in Sessions : rows'[s] = rows[s]
    BY <1>2 DEF Revoked
  <2>2. token.s # None => token.s \in Sessions
    BY DEF Token, NoToken
  <2> QED
    BY <1>2, <2>1, <2>2 DEF Holds, Live
<1> QED
  BY <1>1, <1>2

\* Every step keeps logged-out sessions out of use.
LEMMA LogoutStep == ASSUME LogoutInv, Next PROVE LogoutInv'
<1>t. TypeOK /\ TypeOK'
  BY TypeStep DEF LogoutInv
<1>1. JarKnown' /\ CallsKnown'
  BY <1>t, KnownStep DEF LogoutInv
<1>2. ASSUME NEW c \in Calls
      PROVE  /\ calls[c].cookies.access \in Token /\ calls[c].cookies.refresh \in Token
             /\ Known(calls[c].cookies.access) /\ Known(calls[c].cookies.refresh)
  BY <1>t DEF TypeOK, Call, Jar, LogoutInv, CallsKnown
<1> DEFINE Gone(token) == ~(token.s # None /\ rows'[token.s].state = "live" /\ rows'[token.s].n = token.n)
<1>3. ASSUME NEW token \in Token, Known(token), ~Holds(token)
      PROVE  Gone(token)
  BY <1>t, <1>3, KnownStays DEF Holds, Live, LogoutInv
<1>4. ASSUME NEW token \in Token, Revoked({s \in Sessions : Holds(token) /\ s = token.s})
      PROVE  Gone(token)
  BY <1>t, <1>4, RevokedHoldsNot DEF Holds, Live
<1>5. ASSUME NEW c \in Calls, Continues(c, "logout")'
      PROVE  Gone(calls'[c].cookies.access)
  <2>1. CASE calls'[c] = calls[c]
    <3>1. ~Holds(calls[c].cookies.access)
      BY <1>5, <2>1 DEF LogoutInv, WithinLogout, Continues
    <3> QED
      BY <1>2, <1>3, <2>1, <3>1
  <2>2. CASE Entering(c) /\ SameRequest(c)
    <3>1. Logout(c)
      BY <1>5, <2>2 DEF Entering, SameRequest, Continues, Register, Login, ChangePassword,
                        ConsumePasswordResetToken, Begins
    <3>2. Revoked({s \in Sessions : Holds(calls[c].cookies.access) /\ s = calls[c].cookies.access.s})
      BY <3>1 DEF Logout
    <3>3. Gone(calls[c].cookies.access)
      BY <1>2, <1>4, <3>2
    <3> QED
      BY <2>2, <3>3 DEF SameRequest
  <2> QED
    BY <1>t, <1>5, <2>1, <2>2, WithinStep DEF Continues
<1>6. ASSUME NEW c \in Calls, calls'[c].phase = "answered", calls'[c].kind = "logout",
             calls'[c].reply.ok
      PROVE  Gone(calls'[c].cookies.access) /\ Gone(calls'[c].cookies.refresh)
  <2>1. CASE calls'[c] = calls[c]
    <3>1. ~Holds(calls[c].cookies.access) /\ ~Holds(calls[c].cookies.refresh)
      BY <1>6, <2>1 DEF LogoutInv, LogoutEndsTheSession
    <3> QED
      BY <1>2, <1>3, <2>1, <3>1
  <2>2. CASE RevokeRefreshSession(c) /\ SameRequest(c)
    <3>1. ~Holds(calls[c].cookies.access)
      BY <2>2 DEF RevokeRefreshSession, LogoutInv, WithinLogout
    <3>2. Gone(calls[c].cookies.access)
      BY <1>2, <1>3, <3>1
    <3>3. Revoked({s \in Sessions : Holds(calls[c].cookies.refresh) /\ s = calls[c].cookies.refresh.s})
      BY <2>2 DEF RevokeRefreshSession
    <3>4. Gone(calls[c].cookies.refresh)
      BY <1>2, <1>4, <3>3
    <3> QED
      BY <2>2, <3>2, <3>4 DEF SameRequest
  <2> QED
    BY <1>t, <1>6, <2>1, <2>2, AnsweredStep
<1>7. WithinLogout'
  BY <1>5 DEF WithinLogout, Holds, Live
<1>8. LogoutEndsTheSession'
  BY <1>6 DEF LogoutEndsTheSession, Holds, Live
<1> QED
  BY <1>t, <1>1, <1>7, <1>8 DEF LogoutInv

\* Initially nobody has logged out.
LEMMA LogoutInit == Init => LogoutInv
<1> SUFFICES ASSUME Init PROVE LogoutInv
  OBVIOUS
<1>1. TypeOK
  BY TypeInit
<1>2. Known(NoToken)
  BY DEF Known, NoToken
<1>3. JarKnown
  BY <1>2 DEF Init, JarKnown, NoCookies
<1>4. Idle.phase = "idle" /\ Idle.cookies = NoCookies /\ Idle.reply.token = NoToken
  BY DEF Idle, Refused
<1>5. CallsKnown
  BY <1>2, <1>4 DEF Init, CallsKnown, NoCookies
<1>6. WithinLogout /\ LogoutEndsTheSession
  BY <1>4 DEF Init, WithinLogout, LogoutEndsTheSession, Continues
<1> QED
  BY <1>1, <1>3, <1>5, <1>6 DEF LogoutInv

\* Once a logout has answered, the session of either cookie it carried has ended.
THEOREM LogoutEndsTheSessionHolds == Spec => []LogoutEndsTheSession
<1>1. LogoutInv /\ [Next]_vars => LogoutInv'
  <2>1. ASSUME LogoutInv, UNCHANGED vars PROVE LogoutInv'
    BY <2>1 DEF LogoutInv, TypeOK, JarKnown, CallsKnown, WithinLogout, LogoutEndsTheSession,
                Known, Holds, Live, Continues, vars
  <2> QED
    BY <2>1, LogoutStep
<1> QED
  BY <1>1, LogoutInit, PTL DEF Spec, LogoutInv

-----------------------------------------------------------------------------
(* One refresh serves a browser                                            *)

\* The refresh token a request stands for: the one it refreshes with, or the one its
\* answer brings.
HeldBy(call) ==
  IF call.phase = "refreshing" THEN call.cookies.refresh
  ELSE IF call.phase \in {"answered", "refreshed"} /\ call.reply.cookies = "set" THEN call.reply.token
  ELSE NoToken

Held(c) == HeldBy(calls[c])

Busy(call) == call.phase \in {"refreshing", "refreshed"}

Whole(token) == token.s = None => token = NoToken

\* A session is in one browser, and in one request at a time; while the answer of a
\* login is on its way, it is nowhere else.
HeldInv ==
  /\ \A b \in Browsers : Whole(jar[b].refresh)
  /\ \A c \in Calls : Whole(Held(c))
  /\ \A c, d \in Calls : Held(c).s # None /\ Held(c).s = Held(d).s => c = d
  /\ \A a, b \in Browsers : jar[a].refresh.s # None /\ jar[a].refresh.s = jar[b].refresh.s => a = b
  /\ \A b \in Browsers, c \in Calls :
       Held(c).s # None /\ Held(c).s = jar[b].refresh.s => BrowserOf[c] = b /\ Busy(calls[c])
  /\ \A c, d \in Calls : Busy(calls[c]) /\ Busy(calls[d]) /\ BrowserOf[c] = BrowserOf[d] => c = d

Current(token) == token.s # None /\ Live(token.s) => rows[token.s].n = token.n

\* Unless an answer was lost, what a request stands for is current, and what the
\* browser keeps is current or about to be replaced.
CurrentInv ==
  /\ \A c \in Calls : ~lost[BrowserOf[c]] => Current(Held(c))
  /\ \A b \in Browsers : ~lost[b] =>
       \/ Current(jar[b].refresh)
       \/ \E c \in Calls : /\ BrowserOf[c] = b /\ calls[c].phase = "refreshed"
                           /\ Held(c).s = jar[b].refresh.s

SharedInv == HeldInv /\ CurrentInv

LEMMA TokensHeld ==
  ASSUME TypeOK
  PROVE  /\ \A c \in Calls : Held(c) \in Token /\ HeldBy(calls[c]) = Held(c) /\ calls[c] \in Call
                             /\ BrowserOf[c] \in Browsers
         /\ \A b \in Browsers : jar[b].refresh \in Token
<1>1. NoToken \in Token
  BY Constants
<1>2. \A c \in Calls : calls[c] \in Call /\ calls[c].cookies \in Jar /\ calls[c].reply \in Reply
  BY DEF TypeOK, Call
<1>3. \A c \in Calls : calls[c].cookies.refresh \in Token /\ calls[c].reply.token \in Token
  BY <1>2 DEF Jar, Reply
<1>4. \A b \in Browsers : jar[b].refresh \in Token
  BY DEF TypeOK, Jar
<1> QED
  BY <1>1, <1>2, <1>3, <1>4, BrowsersAssumption DEF Held, HeldBy

\* A step that hands no token on: a request keeps what it stands for or ends it, a
\* browser keeps its cookies or clears them, no row is opened or rotated, and the
\* answer of a refresh is only dropped when that is noticed.
Quiet ==
  /\ \A d \in Calls :
       \/ calls'[d] = calls[d]
       \/ /\ HeldBy(calls'[d]) = NoToken /\ (Busy(calls'[d]) => Busy(calls[d]))
          /\ calls[d].phase = "refreshed" => HeldBy(calls[d]) = NoToken \/ lost'[BrowserOf[d]]
  /\ \A b \in Browsers : jar'[b].refresh \in {jar[b].refresh, NoToken} /\ (lost[b] => lost'[b])
  /\ \A s \in Sessions : rows'[s].state = "live" => rows[s].state = "live" /\ rows'[s].n = rows[s].n

LEMMA QuietKeeps ==
  ASSUME TypeOK, SharedInv, Quiet
  PROVE  SharedInv'
<1>1. NoToken.s = None /\ Whole(NoToken)
  BY DEF NoToken, Whole
<1>2. \A d \in Calls : Held(d)' = HeldBy(calls'[d]) /\ Held(d) = HeldBy(calls[d])
  BY DEF Held
<1>3. \A d \in Calls : Held(d)' = Held(d) \/ Held(d)' = NoToken
  BY <1>2 DEF Quiet
<1>4. \A d \in Calls : Held(d)'.s # None => calls'[d] = calls[d] /\ Held(d)' = Held(d)
  BY <1>1, <1>2 DEF Quiet
<1>5. \A d \in Calls : Busy(calls'[d]) => Busy(calls[d])
  BY DEF Quiet
<1>6. \A b \in Browsers : jar'[b].refresh = jar[b].refresh \/ jar'[b].refresh = NoToken
  BY DEF Quiet
<1>7. \A token \in Token : Current(token) => Current(token)'
  BY DEF Quiet, Current, Live, Token, NoToken
<1>8. Current(NoToken)'
  BY <1>1 DEF Current
<1>9. HeldInv'
  <2>1. /\ \A b \in Browsers : Whole(jar'[b].refresh)
        /\ \A c \in Calls : Whole(Held(c)')
    BY <1>1, <1>3, <1>6 DEF SharedInv, HeldInv
  <2>2. \A c, d \in Calls : Held(c)'.s # None /\ Held(c)'.s = Held(d)'.s => c = d
    BY <1>4 DEF SharedInv, HeldInv
  <2>3. \A a, b \in Browsers : jar'[a].refresh.s # None /\ jar'[a].refresh.s = jar'[b].refresh.s => a = b
    BY <1>1, <1>6 DEF SharedInv, HeldInv
  <2>4. \A b \in Browsers, c \in Calls :
          Held(c)'.s # None /\ Held(c)'.s = jar'[b].refresh.s => BrowserOf[c] = b /\ Busy(calls'[c])
    BY <1>1, <1>4, <1>6 DEF SharedInv, HeldInv
  <2>5. \A c, d \in Calls : Busy(calls'[c]) /\ Busy(calls'[d]) /\ BrowserOf[c] = BrowserOf[d] => c = d
    BY <1>5 DEF SharedInv, HeldInv
  <2> QED
    BY <2>1, <2>2, <2>3, <2>4, <2>5 DEF HeldInv, Whole, Busy
<1>10. CurrentInv'
  <2>1. ASSUME NEW c \in Calls, ~lost'[BrowserOf[c]] PROVE Current(Held(c))'
    <3>1. ~lost[BrowserOf[c]] /\ Held(c) \in Token
      BY <2>1, TokensHeld DEF Quiet
    <3>2. Current(Held(c))
      BY <3>1 DEF SharedInv, CurrentInv
    <3>3. CASE Held(c)' = NoToken
      BY <1>1, <3>3 DEF Current
    <3>4. CASE Held(c)' = Held(c)
      <4>1. PICK token \in Token : token = Held(c)
        BY <3>1
      <4>2. Current(token)'
        BY <1>7, <3>2, <4>1
      <4> QED
        BY <3>4, <4>1, <4>2 DEF Current
    <3> QED
      BY <1>3, <3>3, <3>4
  <2>2. ASSUME NEW b \in Browsers, ~lost'[b]
        PROVE  \/ Current(jar[b].refresh)'
               \/ \E c \in Calls : /\ BrowserOf[c] = b /\ calls'[c].phase = "refreshed"
                                   /\ Held(c)'.s = jar'[b].refresh.s
    <3>1. ~lost[b] /\ jar[b].refresh \in Token
      BY <2>2, TokensHeld DEF Quiet
    <3>2. CASE jar'[b].refresh = NoToken
      BY <1>1, <3>2 DEF Current
    <3>3. CASE jar'[b].refresh = jar[b].refresh
      <4>1. PICK token \in Token : token = jar[b].refresh
        BY <3>1
      <4>2. CASE Current(token)
        BY <1>7, <3>3, <4>1, <4>2 DEF Current
      <4>3. CASE ~Current(token)
        <5>1. PICK c \in Calls : /\ BrowserOf[c] = b /\ calls[c].phase = "refreshed"
                                 /\ Held(c).s = token.s
          BY <3>1, <4>1, <4>3 DEF SharedInv, CurrentInv
        <5>2. token.s # None
          BY <4>3 DEF Current
        <5>3. calls'[c] = calls[c]
          BY <1>1, <1>2, <2>2, <5>1, <5>2 DEF Quiet
        <5> QED
          BY <1>2, <3>3, <4>1, <5>1, <5>3
      <4> QED
        BY <4>2, <4>3
    <3> QED
      BY <1>6, <3>2, <3>3
  <2> QED
    BY <2>1, <2>2 DEF CurrentInv
<1> QED
  BY <1>9, <1>10 DEF SharedInv


\* The request stands for nothing before its statement and nothing after it.
LEMMA ServesQuietly ==
  ASSUME TypeOK, NEW c \in Calls, NEW next,
         calls[c].phase \notin {"refreshing", "refreshed"},
         calls' = [calls EXCEPT ![c] = next], HeldBy(next) = NoToken, ~Busy(next),
         NEW d \in Calls
  PROVE  \/ calls'[d] = calls[d]
         \/ /\ HeldBy(calls'[d]) = NoToken /\ (Busy(calls'[d]) => Busy(calls[d]))
            /\ calls[d].phase = "refreshed" => HeldBy(calls[d]) = NoToken \/ lost'[BrowserOf[d]]
<1>1. d # c => calls'[d] = calls[d]
  BY DEF TypeOK
<1>2. calls'[c] = next
  BY DEF TypeOK
<1> QED
  BY <1>1, <1>2

\* What a request is once it is answered without cookies, or within its transaction.
LEMMA StandsForNothing ==
  ASSUME NEW call \in Call
  PROVE  /\ \A reply \in {Refused, Done, Cleared(TRUE), Cleared(FALSE)}, phase \in {"answered", "refreshed"} :
              HeldBy([call EXCEPT !.phase = phase, !.reply = reply]) = NoToken
         /\ \A reply : [call EXCEPT !.phase = "answered", !.reply = reply].phase = "answered"
         /\ \A phase \in {"admitted", "within", "updated", "revoking"} :
              /\ HeldBy([call EXCEPT !.phase = phase]) = NoToken
              /\ ~Busy([call EXCEPT !.phase = phase])
         /\ HeldBy([call EXCEPT !.phase = "waiting", !.reply = Refused]) = NoToken
         /\ ~Busy([call EXCEPT !.phase = "waiting", !.reply = Refused])
         /\ HeldBy(Idle) = NoToken /\ ~Busy(Idle) /\ Idle.phase = "idle"
<1>1. \A reply \in {Refused, Done, Cleared(TRUE), Cleared(FALSE)} : reply.cookies # "set"
  BY DEF Refused, Done, Cleared
<1>2. ASSUME NEW reply, NEW phase
      PROVE  /\ [call EXCEPT !.phase = phase, !.reply = reply].phase = phase
             /\ [call EXCEPT !.phase = phase, !.reply = reply].reply = reply
             /\ [call EXCEPT !.phase = phase].phase = phase
  BY DEF Call
<1>3. Idle.phase = "idle"
  BY DEF Idle
<1> QED
  BY <1>1, <1>2, <1>3 DEF HeldBy, Busy

LEMMA AnswersQuietly ==
  ASSUME TypeOK, NEW c \in Calls, calls[c].phase \notin {"refreshing", "refreshed"},
         \/ Within(c)
         \/ \E reply \in {Refused, Done, Cleared(TRUE), Cleared(FALSE)} : Answer(c, reply)
         \/ \E phase \in {"admitted", "updated", "revoking"} :
              calls' = [calls EXCEPT ![c] = [calls[c] EXCEPT !.phase = phase]],
         jar' = jar, lost' = lost,
         \A s \in Sessions : rows'[s].state = "live" => rows[s].state = "live" /\ rows'[s].n = rows[s].n
  PROVE  Quiet
<1>0. calls[c] \in Call
  BY DEF TypeOK
<1>1. PICK next : calls' = [calls EXCEPT ![c] = next] /\ HeldBy(next) = NoToken /\ ~Busy(next)
  <2>1. CASE Within(c)
    BY <1>0, <2>1, StandsForNothing DEF Within
  <2>2. CASE \E reply \in {Refused, Done, Cleared(TRUE), Cleared(FALSE)} : Answer(c, reply)
    <3>1. PICK reply \in {Refused, Done, Cleared(TRUE), Cleared(FALSE)} : Answer(c, reply)
      BY <2>2
    <3> DEFINE next == [calls[c] EXCEPT !.phase = "answered", !.reply = reply]
    <3>2. HeldBy(next) = NoToken /\ next.phase = "answered"
      BY <1>0, StandsForNothing
    <3> QED
      BY <3>1, <3>2 DEF Answer, Busy
  <2>3. CASE \E phase \in {"admitted", "updated", "revoking"} :
               calls' = [calls EXCEPT ![c] = [calls[c] EXCEPT !.phase = phase]]
    BY <1>0, <2>3, StandsForNothing
  <2> QED
    BY <2>1, <2>2, <2>3
<1>2. \A d \in Calls :
       \/ calls'[d] = calls[d]
       \/ /\ HeldBy(calls'[d]) = NoToken /\ (Busy(calls'[d]) => Busy(calls[d]))
          /\ calls[d].phase = "refreshed" => HeldBy(calls[d]) = NoToken \/ lost'[BrowserOf[d]]
  BY <1>1, ServesQuietly
<1> QED
  BY <1>2 DEF Quiet

\* A statement that revokes opens no row and rotates none.
LEMMA RevokesQuietly ==
  ASSUME TypeOK, NEW S, Revoked(S), NEW s \in Sessions, rows'[s].state = "live"
  PROVE  rows[s].state = "live" /\ rows'[s].n = rows[s].n
BY DEF Revoked, Live, TypeOK, Row

\* The steps of the server other than opening and rotating a session.
LEMMA ServerQuiet ==
  ASSUME TypeOK, NEW c \in Calls, Serve(c), ~issueSession(c), ~Refresh(c)
  PROVE  Quiet
<1>1. CASE RefreshFails(c)
  <2> DEFINE next == [calls[c] EXCEPT !.phase = "refreshed", !.reply = Cleared(FALSE)]
  <2>1. HeldBy(next) = NoToken
    BY StandsForNothing DEF TypeOK
  <2>2. \A d \in Calls : calls'[d] = calls[d] \/ (d = c /\ calls'[d] = next)
    BY <1>1 DEF RefreshFails, TypeOK
  <2>3. calls[c].phase = "refreshing" /\ UNCHANGED <<jar, rows, lost>>
    BY <1>1 DEF RefreshFails
  <2> HIDE DEF next
  <2> QED
    BY <2>1, <2>2, <2>3 DEF Quiet, Busy
<1>2. CASE Register(c) \/ Login(c) \/ Request(c) \/ Authenticate(c) \/ ChangePassword(c)
           \/ RequestPasswordReset(c) \/ ConsumePasswordResetToken(c) \/ UpdatePasswordTx(c)
           \/ RevokeUserSessions(c) \/ ServerFails(c)
  <2>1. UNCHANGED <<jar, rows, lost>> /\ calls[c].phase \notin {"refreshing", "refreshed"}
    BY <1>2 DEF Register, Login, Request, Authenticate, ChangePassword, RequestPasswordReset,
                ConsumePasswordResetToken, UpdatePasswordTx, RevokeUserSessions, ServerFails,
                Begins, Continues
  <2>2. \/ Within(c)
        \/ \E reply \in {Refused, Done, Cleared(TRUE), Cleared(FALSE)} : Answer(c, reply)
        \/ \E phase \in {"admitted", "updated", "revoking"} :
             calls' = [calls EXCEPT ![c] = [calls[c] EXCEPT !.phase = phase]]
    BY <1>2 DEF Register, Login, Request, Authenticate, ChangePassword, RequestPasswordReset,
                ConsumePasswordResetToken, UpdatePasswordTx, RevokeUserSessions, ServerFails
  <2> QED
    BY <2>1, <2>2, AnswersQuietly
<1>3. CASE Logout(c) \/ RevokeRefreshSession(c) \/ ResetCommits(c)
  <2>1. UNCHANGED <<jar, lost>> /\ calls[c].phase \notin {"refreshing", "refreshed"}
    BY <1>3 DEF Logout, RevokeRefreshSession, ResetCommits, Begins, Continues
  <2>2. Within(c) \/ \E reply \in {Refused, Done, Cleared(TRUE), Cleared(FALSE)} : Answer(c, reply)
    BY <1>3 DEF Logout, RevokeRefreshSession, ResetCommits
  <2>3. \E S : Revoked(S)
    BY <1>3 DEF Logout, RevokeRefreshSession, ResetCommits
  <2> QED
    BY <2>1, <2>2, <2>3, RevokesQuietly, AnswersQuietly
<1>4. CASE ChangeCommits(c)
  <2>1. UNCHANGED <<jar, lost>> /\ calls[c].phase = "within" /\ Answer(c, Done)
    BY <1>4 DEF ChangeCommits, Continues
  <2>2. \A s \in Sessions : rows'[s].state = "live" => rows[s].state = "live" /\ rows'[s].n = rows[s].n
    BY <1>4 DEF ChangeCommits, Live, TypeOK, Row
  <2> QED
    BY <2>1, <2>2, AnswersQuietly
<1>5. CASE ResetRollsBack(c)
  <2>1. UNCHANGED <<jar, lost>> /\ calls[c].phase = "revoking" /\ Answer(c, Refused)
    BY <1>5 DEF ResetRollsBack
  <2>2. \A s \in Sessions : rows'[s].state = "live" => rows[s].state = "live" /\ rows'[s].n = rows[s].n
    BY <1>5 DEF ResetRollsBack, TypeOK, Row
  <2> QED
    BY <2>1, <2>2, AnswersQuietly
<1> QED
  BY <1>1, <1>2, <1>3, <1>4, <1>5 DEF Serve

\* The cookies a browser keeps when an answer sets none.
LEMMA AppliedQuietly ==
  ASSUME TypeOK, NEW c \in Calls, calls[c].reply.cookies # "set",
         jar' = [jar EXCEPT ![BrowserOf[c]] = Applied(BrowserOf[c], calls[c].reply)], NEW b \in Browsers
  PROVE  jar'[b].refresh \in {jar[b].refresh, NoToken}
<1>1. calls[c].reply \in Reply
  BY DEF TypeOK, Call
<1>2. Applied(BrowserOf[c], calls[c].reply) \in {jar[BrowserOf[c]], NoCookies}
  BY <1>1 DEF Applied, Reply
<1>3. NoCookies.refresh = NoToken
  BY DEF NoCookies
<1>4. jar'[b] = jar[b] \/ (b = BrowserOf[c] /\ jar'[b] = Applied(BrowserOf[c], calls[c].reply))
  BY DEF TypeOK
<1> QED
  BY <1>2, <1>3, <1>4

\* Requests that are sent, wait, or end without cookies, and the time that passes.
LEMMA BrowserQuiet ==
  ASSUME TypeOK, Next, \A c \in Calls : ~Serve(c) /\ ~StartRefresh(c),
         \A c \in Calls : Deliver(c) \/ RefreshArrives(c) => calls[c].reply.cookies # "set"
  PROVE  Quiet
<1>i. HeldBy(Idle) = NoToken /\ ~Busy(Idle)
  BY Constants, StandsForNothing
<1>1. ASSUME NEW c \in Calls, NEW kind \in Kinds, NEW arg, Send(c, kind, arg)
      PROVE  Quiet
  <2> DEFINE next == [Idle EXCEPT !.phase = "sent", !.kind = kind, !.arg = arg, !.cookies = jar[BrowserOf[c]],
                                  !.retry = (kind = "request")]
  <2>1. next.phase = "sent" /\ calls[c].phase = "idle" /\ UNCHANGED <<jar, rows, lost>>
    BY <1>1 DEF Idle, Send
  <2>2. \A d \in Calls : calls'[d] = calls[d] \/ (d = c /\ calls'[d] = next)
    BY <1>1 DEF Send, TypeOK
  <2> HIDE DEF next
  <2> QED
    BY <2>1, <2>2 DEF Quiet, Busy, HeldBy
<1>2. ASSUME NEW c \in Calls, Deliver(c)
      PROVE  Quiet
  <2>1. \A d \in Calls : calls'[d] = calls[d] \/ (d = c /\ calls'[d] = Idle)
    BY <1>2 DEF Deliver, TypeOK
  <2>2. calls[c].phase = "answered" /\ UNCHANGED <<rows, lost>>
    BY <1>2 DEF Deliver
  <2>3. \A b \in Browsers : jar'[b].refresh \in {jar[b].refresh, NoToken}
    BY <1>2, AppliedQuietly DEF Deliver
  <2> QED
    BY <1>i, <2>1, <2>2, <2>3 DEF Quiet
<1>3. ASSUME NEW c \in Calls, AwaitRefresh(c)
      PROVE  Quiet
  <2> DEFINE next == [calls[c] EXCEPT !.phase = "waiting", !.reply = Refused]
  <2>1. \A d \in Calls : calls'[d] = calls[d] \/ (d = c /\ calls'[d] = next)
    BY <1>3 DEF AwaitRefresh, TypeOK
  <2>2. calls[c].phase = "answered" /\ UNCHANGED <<rows, lost, jar>> /\ HeldBy(next) = NoToken /\ ~Busy(next)
    BY <1>3, StandsForNothing DEF AwaitRefresh, TypeOK
  <2> HIDE DEF next
  <2> QED
    BY <2>1, <2>2 DEF Quiet
<1>4. ASSUME NEW c \in Calls, RefreshArrives(c)
      PROVE  Quiet
  <2>1. ASSUME NEW d \in Calls PROVE HeldBy(Resent(d, jar'[BrowserOf[c]])) = NoToken /\ ~Busy(Resent(d, jar'[BrowserOf[c]]))
    <3>1. Resent(d, jar'[BrowserOf[c]]).phase = "sent"
      BY DEF Resent, TypeOK, Call
    <3> QED
      BY <3>1 DEF HeldBy, Busy
  <2>2. \A d \in Calls : calls'[d] = calls[d] \/ (d \in Served(c) /\ calls'[d] \in {Idle, Resent(d, jar'[BrowserOf[c]])})
    BY <1>4 DEF RefreshArrives
  <2>3. \A d \in Served(c) : d = c \/ calls[d].phase = "waiting"
    BY DEF Served
  <2>4. calls[c].phase = "refreshed" /\ HeldBy(calls[c]) = NoToken /\ UNCHANGED <<rows, lost>>
    BY <1>4 DEF RefreshArrives, HeldBy
  <2>5. \A b \in Browsers : jar'[b].refresh \in {jar[b].refresh, NoToken}
    BY <1>4, AppliedQuietly DEF RefreshArrives
  <2>6. ASSUME NEW d \in Calls
        PROVE  \/ calls'[d] = calls[d]
               \/ /\ HeldBy(calls'[d]) = NoToken /\ (Busy(calls'[d]) => Busy(calls[d]))
                  /\ calls[d].phase = "refreshed" => HeldBy(calls[d]) = NoToken \/ lost'[BrowserOf[d]]
    BY <1>i, <2>1, <2>2, <2>3, <2>4
  <2> QED
    BY <2>4, <2>5, <2>6 DEF Quiet
<1>5. ASSUME NEW c \in Calls, Lose(c)
      PROVE  Quiet
  <2>1. \A d \in Calls : calls'[d] = calls[d] \/ (d \in Served(c) /\ calls'[d] = Idle)
    BY <1>5 DEF Lose, Served
  <2>2. \A d \in Served(c) : d = c \/ calls[d].phase = "waiting"
    BY DEF Served
  <2>3. /\ UNCHANGED <<rows, jar>> /\ \A b \in Browsers : lost[b] => lost'[b]
        /\ calls[c].reply.cookies = "set" => lost'[BrowserOf[c]]
    BY <1>5, BrowsersAssumption DEF Lose, TypeOK
  <2>4. calls[c].phase = "refreshed" => HeldBy(calls[c]) = NoToken \/ lost'[BrowserOf[c]]
    BY <2>3 DEF HeldBy
  <2> QED
    BY <1>i, <2>1, <2>2, <2>3, <2>4 DEF Quiet
<1>6. ASSUME \/ \E b \in Browsers : AccessCookieEnds(b)
             \/ \E s \in Sessions : Expires(s)
             \/ \E t \in ResetTokens : ResetExpires(t)
             \/ WindowEnds
      PROVE  Quiet
  <2>1. calls' = calls /\ lost' = lost
    BY <1>6 DEF AccessCookieEnds, Expires, ResetExpires, WindowEnds
  <2>2. \A b \in Browsers : jar'[b].refresh = jar[b].refresh
    BY <1>6 DEF AccessCookieEnds, Expires, ResetExpires, WindowEnds, TypeOK, Jar
  <2>3. \A s \in Sessions : rows'[s].state = rows[s].state /\ rows'[s].n = rows[s].n
    BY <1>6 DEF AccessCookieEnds, Expires, ResetExpires, WindowEnds, TypeOK, Row
  <2> QED
    BY <2>1, <2>2, <2>3 DEF Quiet
<1> QED
  BY <1>1, <1>2, <1>3, <1>4, <1>5, <1>6 DEF Next, Arrive


\* An answer that sets cookies arrives: its token goes to the browser, where no other
\* request stands for the same session.
LEMMA ArrivesShared ==
  ASSUME TypeOK, TypeOK', SharedInv, NEW c \in Calls, Deliver(c) \/ RefreshArrives(c),
         calls[c].reply.cookies = "set"
  PROVE  SharedInv'
<1> DEFINE b     == BrowserOf[c]
           token == calls[c].reply.token
<1>1. /\ b \in Browsers /\ Held(c) = token /\ token \in Token /\ calls[c].phase \in {"answered", "refreshed"}
      /\ UNCHANGED <<rows, lost>>
  BY TokensHeld DEF Deliver, RefreshArrives, Held, HeldBy
<1>2. jar'[b].refresh = token /\ \A a \in Browsers : a # b => jar'[a] = jar[a]
  BY <1>1 DEF Deliver, RefreshArrives, Applied, TypeOK
<1>3. HeldBy(Idle) = NoToken /\ ~Busy(Idle) /\ NoToken.s = None
  BY Constants, StandsForNothing DEF NoToken
<1>4. ASSUME NEW d \in Calls
      PROVE  \/ calls'[d] = calls[d] /\ d # c
             \/ /\ Held(d)' = NoToken /\ ~Busy(calls'[d])
                /\ calls[d].phase # "refreshed" \/ d = c
  <2>1. CASE Deliver(c)
    <3>1. (d # c /\ calls'[d] = calls[d]) \/ (d = c /\ calls'[d] = Idle)
      BY <2>1 DEF Deliver, TypeOK
    <3> QED
      BY <1>3, <3>1 DEF Held
  <2>2. CASE RefreshArrives(c)
    <3>1. Resent(d, jar'[b]).phase = "sent"
      BY DEF Resent, TypeOK, Call
    <3>2. HeldBy(Resent(d, jar'[b])) = NoToken /\ ~Busy(Resent(d, jar'[b]))
      BY <3>1 DEF HeldBy, Busy
    <3>3. /\ d \notin Served(c) => calls'[d] = calls[d]
          /\ d \in Served(c) => calls'[d] \in {Idle, Resent(d, jar'[b])}
      BY <2>2 DEF RefreshArrives
    <3>4. (d \in Served(c) => d = c \/ calls[d].phase = "waiting") /\ c \in Served(c)
      BY DEF Served
    <3> QED
      BY <1>3, <3>2, <3>3, <3>4 DEF Held
  <2> QED
    BY <2>1, <2>2
<1>5. \A d \in Calls : Held(d)'.s # None => d # c /\ calls'[d] = calls[d] /\ Held(d)' = Held(d)
  BY <1>3, <1>4 DEF Held
<1>6. \A d \in Calls : Held(d)' = Held(d) \/ Held(d)' = NoToken
  BY <1>4 DEF Held
<1>7. \A d \in Calls : Busy(calls'[d]) => Busy(calls[d]) /\ calls'[d] = calls[d]
  BY <1>4
<1>8. \A a \in Browsers : jar'[a].refresh = jar[a].refresh \/ (a = b /\ jar'[a].refresh = Held(c))
  BY <1>1, <1>2
<1> HIDE DEF b, token
<1>9. HeldInv'
  <2>1. /\ \A a \in Browsers : Whole(jar'[a].refresh)
        /\ \A d \in Calls : Whole(Held(d)')
    BY <1>3, <1>6, <1>8 DEF SharedInv, HeldInv, Whole
  <2>2. \A d, e \in Calls : Held(d)'.s # None /\ Held(d)'.s = Held(e)'.s => d = e
    BY <1>5 DEF SharedInv, HeldInv
  <2>3. \A a, e \in Browsers : jar'[a].refresh.s # None /\ jar'[a].refresh.s = jar'[e].refresh.s => a = e
    BY <1>8 DEF SharedInv, HeldInv, b
  <2>4. \A a \in Browsers, d \in Calls :
          Held(d)'.s # None /\ Held(d)'.s = jar'[a].refresh.s => BrowserOf[d] = a /\ Busy(calls'[d])
    BY <1>5, <1>8 DEF SharedInv, HeldInv
  <2>5. \A d, e \in Calls : Busy(calls'[d]) /\ Busy(calls'[e]) /\ BrowserOf[d] = BrowserOf[e] => d = e
    BY <1>7 DEF SharedInv, HeldInv
  <2> QED
    BY <2>1, <2>2, <2>3, <2>4, <2>5 DEF HeldInv, Whole, Busy
<1>10. CurrentInv'
  <2>1. ASSUME NEW d \in Calls, ~lost'[BrowserOf[d]] PROVE Current(Held(d))'
    BY <1>1, <1>3, <1>6, <2>1 DEF SharedInv, CurrentInv, Current, Live
  <2>2. ASSUME NEW a \in Browsers, ~lost'[a]
        PROVE  \/ Current(jar[a].refresh)'
               \/ \E d \in Calls : /\ BrowserOf[d] = a /\ calls'[d].phase = "refreshed"
                                   /\ Held(d)'.s = jar'[a].refresh.s
    <3>1. CASE a = b
      <4>1. ~lost[BrowserOf[c]] /\ jar'[a].refresh = Held(c)
        BY <1>1, <1>2, <2>2, <3>1 DEF b
      <4>2. Current(Held(c))
        BY <4>1 DEF SharedInv, CurrentInv
      <4> QED
        BY <1>1, <4>1, <4>2 DEF Current, Live
    <3>2. CASE a # b
      <4>1. jar'[a].refresh = jar[a].refresh /\ ~lost[a]
        BY <1>1, <1>2, <2>2, <3>2
      <4>2. CASE Current(jar[a].refresh)
        BY <1>1, <4>1, <4>2 DEF Current, Live
      <4>3. ASSUME NEW d \in Calls, BrowserOf[d] = a, calls[d].phase = "refreshed", Held(d).s = jar[a].refresh.s
            PROVE  calls'[d].phase = "refreshed" /\ Held(d)'.s = jar'[a].refresh.s
        <5>1. d # c
          BY <3>2, <4>3 DEF b
        <5>2. calls'[d] = calls[d]
          BY <1>4, <4>3, <5>1
        <5> QED
          BY <4>1, <4>3, <5>2 DEF Held
      <4> QED
        BY <4>1, <4>2, <4>3 DEF SharedInv, CurrentInv
    <3> QED
      BY <3>1, <3>2
  <2> QED
    BY <2>1, <2>2 DEF CurrentInv
<1> QED
  BY <1>9, <1>10 DEF SharedInv

\* A refresh begins with what the browser keeps, when no other is under way there.
LEMMA StartRefreshShared ==
  ASSUME TypeOK, SharedInv, NEW c \in Calls, StartRefresh(c)
  PROVE  SharedInv'
<1> DEFINE b == BrowserOf[c]
           next == [calls[c] EXCEPT !.phase = "refreshing", !.cookies = jar[b], !.reply = Refused]
<1>1. /\ calls' = [calls EXCEPT ![c] = next] /\ UNCHANGED <<rows, lost, jar>> /\ b \in Browsers
      /\ \A d \in Calls : BrowserOf[d] = b => ~Busy(calls[d])
  BY TokensHeld DEF StartRefresh, Refreshing, Busy
<1>2. next.phase = "refreshing" /\ next.cookies = jar[b]
  BY DEF TypeOK, Call
<1>3. /\ calls'[c].phase = "refreshing" /\ Held(c)' = jar[b].refresh
      /\ \A d \in Calls : d # c => calls'[d] = calls[d] /\ Held(d)' = Held(d)
  BY <1>1, <1>2 DEF TypeOK, Held, HeldBy
<1> HIDE DEF b, next
<1>4. \A d \in Calls : Held(d).s # None => Held(d).s # jar[b].refresh.s
  BY <1>1 DEF SharedInv, HeldInv
<1>5. HeldInv'
  <2>1. /\ \A a \in Browsers : Whole(jar'[a].refresh)
        /\ \A d \in Calls : Whole(Held(d)')
    BY <1>1, <1>3 DEF SharedInv, HeldInv
  <2>2. \A d, e \in Calls : Held(d)'.s # None /\ Held(d)'.s = Held(e)'.s => d = e
    BY <1>3, <1>4 DEF SharedInv, HeldInv
  <2>3. \A a, e \in Browsers : jar'[a].refresh.s # None /\ jar'[a].refresh.s = jar'[e].refresh.s => a = e
    BY <1>1 DEF SharedInv, HeldInv
  <2>4. \A a \in Browsers, d \in Calls :
          Held(d)'.s # None /\ Held(d)'.s = jar'[a].refresh.s => BrowserOf[d] = a /\ Busy(calls'[d])
    <3>1. Busy(calls'[c]) /\ BrowserOf[c] = b
      BY <1>3 DEF Busy, b
    <3> QED
      BY <1>1, <1>3, <3>1 DEF SharedInv, HeldInv
  <2>5. \A d, e \in Calls : Busy(calls'[d]) /\ Busy(calls'[e]) /\ BrowserOf[d] = BrowserOf[e] => d = e
    BY <1>1, <1>3 DEF SharedInv, HeldInv, b
  <2> QED
    BY <2>1, <2>2, <2>3, <2>4, <2>5 DEF HeldInv, Whole, Busy
<1>6. CurrentInv'
  <2>1. ASSUME NEW d \in Calls, ~lost'[BrowserOf[d]] PROVE Current(Held(d))'
    <3>1. CASE d = c
      <4>1. ~(\E e \in Calls : BrowserOf[e] = b /\ calls[e].phase = "refreshed" /\ Held(e).s = jar[b].refresh.s)
        BY <1>1 DEF Busy
      <4>2. Current(jar[b].refresh)
        BY <1>1, <2>1, <3>1, <4>1 DEF SharedInv, CurrentInv, b
      <4> QED
        BY <1>1, <1>3, <3>1, <4>2 DEF Current, Live
    <3>2. CASE d # c
      BY <1>1, <1>3, <2>1, <3>2 DEF SharedInv, CurrentInv, Current, Live
    <3> QED
      BY <3>1, <3>2
  <2>2. ASSUME NEW a \in Browsers, ~lost'[a]
        PROVE  \/ Current(jar[a].refresh)'
               \/ \E d \in Calls : /\ BrowserOf[d] = a /\ calls'[d].phase = "refreshed"
                                   /\ Held(d)'.s = jar'[a].refresh.s
    <3>1. CASE Current(jar[a].refresh)
      BY <1>1, <3>1 DEF Current, Live
    <3>2. ASSUME NEW d \in Calls, BrowserOf[d] = a, calls[d].phase = "refreshed", Held(d).s = jar[a].refresh.s
          PROVE  calls'[d].phase = "refreshed" /\ Held(d)'.s = jar'[a].refresh.s
      <4>1. d # c
        BY <1>1, <3>2 DEF Busy, b
      <4> QED
        BY <1>1, <1>3, <3>2, <4>1
    <3> QED
      BY <1>1, <2>2, <3>1, <3>2 DEF SharedInv, CurrentInv
  <2> QED
    BY <2>1, <2>2 DEF CurrentInv
<1> QED
  BY <1>5, <1>6 DEF SharedInv


\* A session just opened is nowhere but in the answer.
LEMMA IssueShared ==
  ASSUME TypeOK, JarKnown, CallsKnown, SharedInv, NEW c \in Calls, issueSession(c)
  PROVE  SharedInv'
<1>1. PICK s \in Sessions : NextRow(s) /\ Issued(s) /\ Answer(c, Given([s |-> s, n |-> 0]))
  BY DEF issueSession
<1> DEFINE token == [s |-> s, n |-> 0]
<1>2. /\ token.s = s /\ token.n = 0 /\ s # None /\ Given(token).cookies = "set" /\ Given(token).token = token
      /\ Whole(token)
  BY SessionsAssumption DEF Given, Whole
<1>3. /\ calls'[c].phase = "answered" /\ calls'[c].reply = Given(token)
      /\ \A d \in Calls : d # c => calls'[d] = calls[d]
  BY <1>1, AnswerEnds
<1>4. UNCHANGED <<jar, lost>> /\ calls[c].phase = "within" /\ rows[s].state = "absent"
  BY <1>1 DEF issueSession, Continues, NextRow
<1>5. Held(c)' = token /\ Held(c) = NoToken /\ \A d \in Calls : d # c => Held(d)' = Held(d)
  BY <1>2, <1>3, <1>4 DEF Held, HeldBy
<1>6. /\ \A b \in Browsers : jar[b].refresh.s # s
      /\ \A d \in Calls : Held(d).s # s
  <2>1. Known(NoToken)
    BY DEF Known, NoToken
  <2>2. \A d \in Calls : Known(Held(d))
    BY <2>1 DEF CallsKnown, Held, HeldBy
  <2> QED
    BY <1>2, <1>4, <2>2 DEF Known, JarKnown
<1>7. rows'[s].n = 0 /\ \A r \in Sessions : r # s => rows'[r] = rows[r]
  BY <1>1 DEF Issued, TypeOK, NoRow
<1>8. ~Busy(calls'[c]) /\ ~Busy(calls[c])
  BY <1>3, <1>4 DEF Busy
<1> HIDE DEF token
<1>9. HeldInv'
  <2>1. /\ \A a \in Browsers : Whole(jar'[a].refresh)
        /\ \A d \in Calls : Whole(Held(d)')
    BY <1>2, <1>4, <1>5 DEF SharedInv, HeldInv
  <2>2. \A d, e \in Calls : Held(d)'.s # None /\ Held(d)'.s = Held(e)'.s => d = e
    BY <1>2, <1>5, <1>6 DEF SharedInv, HeldInv
  <2>3. \A a, e \in Browsers : jar'[a].refresh.s # None /\ jar'[a].refresh.s = jar'[e].refresh.s => a = e
    BY <1>4 DEF SharedInv, HeldInv
  <2>4. \A a \in Browsers, d \in Calls :
          Held(d)'.s # None /\ Held(d)'.s = jar'[a].refresh.s => BrowserOf[d] = a /\ Busy(calls'[d])
    BY <1>2, <1>3, <1>4, <1>5, <1>6 DEF SharedInv, HeldInv
  <2>5. \A d, e \in Calls : Busy(calls'[d]) /\ Busy(calls'[e]) /\ BrowserOf[d] = BrowserOf[e] => d = e
    BY <1>3, <1>8 DEF SharedInv, HeldInv
  <2> QED
    BY <2>1, <2>2, <2>3, <2>4, <2>5 DEF HeldInv, Whole, Busy
<1>10. CurrentInv'
  <2>0. ASSUME NEW other \in Token, other.s # s, Current(other) PROVE Current(other)'
    BY <1>7, <2>0 DEF Current, Live, Token, NoToken
  <2>1. ASSUME NEW d \in Calls, ~lost'[BrowserOf[d]] PROVE Current(Held(d))'
    <3>1. CASE d = c
      BY <1>2, <1>5, <1>7, <3>1 DEF Current
    <3>2. CASE d # c
      <4>1. PICK other \in Token : other = Held(d)
        BY TokensHeld
      <4>2. Current(other)
        BY <1>4, <2>1, <4>1 DEF SharedInv, CurrentInv
      <4>3. Current(other)'
        BY <1>6, <2>0, <4>1, <4>2
      <4> QED
        BY <1>5, <3>2, <4>1, <4>3 DEF Current
    <3> QED
      BY <3>1, <3>2
  <2>2. ASSUME NEW a \in Browsers, ~lost'[a]
        PROVE  \/ Current(jar[a].refresh)'
               \/ \E d \in Calls : /\ BrowserOf[d] = a /\ calls'[d].phase = "refreshed"
                                   /\ Held(d)'.s = jar'[a].refresh.s
    <3>1. PICK other \in Token : other = jar[a].refresh
      BY TokensHeld
    <3>2. CASE Current(other)
      <4>1. Current(other)'
        BY <1>6, <2>0, <3>1, <3>2
      <4> QED
        BY <1>4, <3>1, <4>1 DEF Current
    <3>3. ASSUME NEW d \in Calls, BrowserOf[d] = a, calls[d].phase = "refreshed", Held(d).s = jar[a].refresh.s
          PROVE  calls'[d].phase = "refreshed" /\ Held(d)'.s = jar'[a].refresh.s
      <4>1. d # c
        BY <1>4, <3>3
      <4> QED
        BY <1>3, <1>4, <1>5, <3>3, <4>1
    <3> QED
      BY <1>4, <2>2, <3>1, <3>2, <3>3 DEF SharedInv, CurrentInv
  <2> QED
    BY <2>1, <2>2 DEF CurrentInv
<1> QED
  BY <1>9, <1>10 DEF SharedInv

\* A rotation happens on behalf of the only request that stands for the session; what
\* the browser keeps is old until the answer arrives.
LEMMA RefreshShared ==
  ASSUME TypeOK, SharedInv, NEW c \in Calls, Refresh(c)
  PROVE  SharedInv'
<1> DEFINE b     == BrowserOf[c]
           token == calls[c].cookies.refresh
           next  == [token EXCEPT !.n = token.n + 1]
<1>1. /\ Held(c) = token /\ token \in Token /\ calls[c].phase = "refreshing" /\ UNCHANGED <<jar, lost>>
      /\ b \in Browsers
  BY TokensHeld DEF Refresh, Held, HeldBy
<1>2. CASE ~Rotatable(token)
  <2> DEFINE after == [calls[c] EXCEPT !.phase = "refreshed", !.reply = Cleared(FALSE)]
  <2>1. HeldBy(after) = NoToken
    BY StandsForNothing DEF TypeOK
  <2>2. \A d \in Calls : calls'[d] = calls[d] \/ (d = c /\ calls'[d] = after)
    BY <1>2 DEF Refresh, TypeOK
  <2>3. rows' = rows
    BY <1>2 DEF Refresh
  <2> HIDE DEF after
  <2>4. Quiet
    BY <1>1, <2>1, <2>2, <2>3 DEF Quiet, Busy
  <2> QED
    BY <2>4, QuietKeeps
<1>3. CASE Rotatable(token)
  <2>1. /\ token.s # None /\ token.s \in Sessions /\ rows[token.s].n = token.n /\ token.n \in Nat
        /\ rows' = [rows EXCEPT ![token.s] = [rows[token.s] EXCEPT !.n = token.n + 1, !.age = 0]]
    BY <1>1, <1>3 DEF Refresh, Rotatable, Rotated, Holds, Token, NoToken
  <2>2. next.s = token.s /\ next.n = token.n + 1 /\ Given(next).cookies = "set" /\ Given(next).token = next
    BY <1>1 DEF Token, NoToken, Given
  <2>3. calls' = [calls EXCEPT ![c] = [calls[c] EXCEPT !.phase = "refreshed", !.reply = Given(next)]]
    BY <1>3 DEF Refresh
  <2>4. /\ calls'[c].phase = "refreshed" /\ calls'[c].reply = Given(next)
        /\ \A d \in Calls : d # c => calls'[d] = calls[d]
    BY <2>3 DEF TypeOK, Call
  <2> HIDE DEF next, token
  <2>5. /\ rows'[token.s].n = token.n + 1
        /\ \A r \in Sessions : r # token.s => rows'[r] = rows[r]
    BY <2>1 DEF TypeOK, Row
  <2>6. Held(c)' = next /\ \A d \in Calls : d # c => Held(d)' = Held(d)
    BY <2>2, <2>4 DEF Held, HeldBy
  <2>7. /\ \A d \in Calls : d # c => Held(d).s # token.s
        /\ \A a \in Browsers : jar[a].refresh.s = token.s => a = b
    BY <1>1, <2>1 DEF SharedInv, HeldInv
  <2>8. Busy(calls'[c]) /\ Busy(calls[c])
    BY <1>1, <2>4 DEF Busy
  <2>9. HeldInv'
    <3>1. /\ \A a \in Browsers : Whole(jar'[a].refresh)
          /\ \A d \in Calls : Whole(Held(d)')
      BY <1>1, <2>1, <2>2, <2>6 DEF SharedInv, HeldInv, Whole
    <3>2. \A d, e \in Calls : Held(d)'.s # None /\ Held(d)'.s = Held(e)'.s => d = e
      BY <2>2, <2>6, <2>7 DEF SharedInv, HeldInv
    <3>3. \A a, e \in Browsers : jar'[a].refresh.s # None /\ jar'[a].refresh.s = jar'[e].refresh.s => a = e
      BY <1>1 DEF SharedInv, HeldInv
    <3>4. \A a \in Browsers, d \in Calls :
            Held(d)'.s # None /\ Held(d)'.s = jar'[a].refresh.s => BrowserOf[d] = a /\ Busy(calls'[d])
      BY <1>1, <2>2, <2>4, <2>6, <2>7, <2>8 DEF SharedInv, HeldInv
    <3>5. \A d, e \in Calls : Busy(calls'[d]) /\ Busy(calls'[e]) /\ BrowserOf[d] = BrowserOf[e] => d = e
      BY <2>4, <2>8 DEF SharedInv, HeldInv
    <3> QED
      BY <3>1, <3>2, <3>3, <3>4, <3>5 DEF HeldInv, Whole, Busy
  <2>10. CurrentInv'
    <3>0. ASSUME NEW other \in Token, other.s # token.s, Current(other) PROVE Current(other)'
      BY <2>5, <3>0 DEF Current, Live, Token, NoToken
    <3>1. ASSUME NEW d \in Calls, ~lost'[BrowserOf[d]] PROVE Current(Held(d))'
      <4>1. CASE d = c
        BY <2>2, <2>5, <2>6, <4>1 DEF Current
      <4>2. CASE d # c
        <5>1. PICK other \in Token : other = Held(d)
          BY TokensHeld
        <5>2. Current(other)
          BY <1>1, <3>1, <5>1 DEF SharedInv, CurrentInv
        <5>3. Current(other)'
          BY <2>7, <3>0, <4>2, <5>1, <5>2
        <5> QED
          BY <2>6, <4>2, <5>1, <5>3 DEF Current
      <4> QED
        BY <4>1, <4>2
    <3>2. ASSUME NEW a \in Browsers, ~lost'[a]
          PROVE  \/ Current(jar[a].refresh)'
                 \/ \E d \in Calls : /\ BrowserOf[d] = a /\ calls'[d].phase = "refreshed"
                                     /\ Held(d)'.s = jar'[a].refresh.s
      <4>1. PICK other \in Token : other = jar[a].refresh
        BY TokensHeld
      <4>2. CASE other.s = token.s
        <5>1. BrowserOf[c] = a
          BY <2>7, <4>1, <4>2
        <5> QED
          BY <1>1, <2>2, <2>4, <2>6, <4>1, <4>2, <5>1
      <4>3. CASE other.s # token.s /\ Current(other)
        <5>1. Current(other)'
          BY <3>0, <4>3
        <5> QED
          BY <1>1, <4>1, <5>1 DEF Current
      <4>4. ASSUME NEW d \in Calls, BrowserOf[d] = a, calls[d].phase = "refreshed", Held(d).s = jar[a].refresh.s
            PROVE  calls'[d].phase = "refreshed" /\ Held(d)'.s = jar'[a].refresh.s
        <5>1. d # c
          BY <1>1, <4>4
        <5> QED
          BY <1>1, <2>4, <2>6, <4>4, <5>1
      <4> QED
        BY <1>1, <3>2, <4>1, <4>2, <4>3, <4>4 DEF SharedInv, CurrentInv
    <3> QED
      BY <3>1, <3>2 DEF CurrentInv
  <2> QED
    BY <2>9, <2>10 DEF SharedInv
<1> QED
  BY <1>2, <1>3

\* Every step keeps a session in one place, and what is used current.
LEMMA SharedStep ==
  ASSUME TypeOK, TypeOK', JarKnown, CallsKnown, SharedInv, Next
  PROVE  SharedInv'
<1>1. CASE \E c \in Calls : Serve(c)
  <2>1. PICK c \in Calls : Serve(c)
    BY <1>1
  <2> QED
    BY <2>1, ServerQuiet, QuietKeeps, IssueShared, RefreshShared
<1>2. CASE \E c \in Calls : StartRefresh(c)
  BY <1>2, StartRefreshShared
<1>3. CASE \E c \in Calls : (Deliver(c) \/ RefreshArrives(c)) /\ calls[c].reply.cookies = "set"
  BY <1>3, ArrivesShared
<1>4. CASE /\ \A c \in Calls : ~Serve(c) /\ ~StartRefresh(c)
           /\ \A c \in Calls : Deliver(c) \/ RefreshArrives(c) => calls[c].reply.cookies # "set"
  BY <1>4, BrowserQuiet, QuietKeeps
<1> QED
  BY <1>1, <1>2, <1>3, <1>4, Zenon

\* A request that waits does so for a refresh that is under way.
LEMMA WaitersStep ==
  ASSUME TypeOK, WaitersAreServed, Next
  PROVE  WaitersAreServed'
<1> SUFFICES ASSUME NEW w \in Calls, calls'[w].phase = "waiting"
             PROVE  \E d \in Calls : BrowserOf[d] = BrowserOf[w] /\ calls'[d].phase \in {"refreshing", "refreshed"}
  BY DEF WaitersAreServed, Refreshing
<1>1. ASSUME NEW c \in Calls, NEW next, calls' = [calls EXCEPT ![c] = next],
             next.phase = "waiting" => Refreshing(BrowserOf[c]),
             calls[c].phase \in {"refreshing", "refreshed"} => next.phase \in {"refreshing", "refreshed"}
      PROVE  \E d \in Calls : BrowserOf[d] = BrowserOf[w] /\ calls'[d].phase \in {"refreshing", "refreshed"}
  <2>1. calls'[c] = next /\ \A d \in Calls : d # c => calls'[d] = calls[d]
    BY <1>1 DEF TypeOK
  <2>2. Refreshing(BrowserOf[w])
    BY <1>1, <2>1 DEF WaitersAreServed
  <2>3. PICK d \in Calls : BrowserOf[d] = BrowserOf[w] /\ calls[d].phase \in {"refreshing", "refreshed"}
    BY <2>2 DEF Refreshing
  <2> QED
    BY <1>1, <2>1, <2>3
<1>2. ASSUME NEW c \in Calls, RefreshArrives(c) \/ Lose(c)
      PROVE  \E d \in Calls : BrowserOf[d] = BrowserOf[w] /\ calls'[d].phase \in {"refreshing", "refreshed"}
  <2>1. Idle.phase = "idle" /\ \A d \in Calls : Resent(d, jar'[BrowserOf[c]]).phase = "sent"
    BY DEF Idle, Resent, TypeOK, Call
  <2>2. /\ calls'[w] = calls[w] /\ calls[w].phase = "waiting"
        /\ \A d \in Calls : calls'[d] = calls[d] \/ d \in Served(c)
        /\ calls[c].phase \in {"refreshing", "refreshed"} => w \notin Served(c)
        /\ calls[c].phase \in {"refreshing", "refreshed", "answered"}
    BY <1>2, <2>1 DEF RefreshArrives, Lose, Served
  <2>3. Refreshing(BrowserOf[w])
    BY <2>2 DEF WaitersAreServed
  <2>4. PICK d \in Calls : BrowserOf[d] = BrowserOf[w] /\ calls[d].phase \in {"refreshing", "refreshed"}
    BY <2>3 DEF Refreshing
  <2>5. d # c
    BY <2>2, <2>4 DEF Served
  <2>6. calls'[d] = calls[d]
    BY <2>2, <2>4, <2>5 DEF Served
  <2> QED
    BY <2>4, <2>6
<1>3. ASSUME NEW c \in Calls, NEW kind \in Kinds, NEW arg, Send(c, kind, arg)
      PROVE  \E d \in Calls : BrowserOf[d] = BrowserOf[w] /\ calls'[d].phase \in {"refreshing", "refreshed"}
  <2> DEFINE next == [Idle EXCEPT !.phase = "sent", !.kind = kind, !.arg = arg, !.cookies = jar[BrowserOf[c]],
                                  !.retry = (kind = "request")]
  <2>1. next.phase = "sent" /\ calls[c].phase = "idle" /\ calls' = [calls EXCEPT ![c] = next]
    BY <1>3 DEF Idle, Send
  <2> HIDE DEF next
  <2> QED
    BY <1>1, <2>1
<1>4. ASSUME NEW c \in Calls, Deliver(c) \/ StartRefresh(c) \/ AwaitRefresh(c) \/ Serve(c)
      PROVE  \E d \in Calls : BrowserOf[d] = BrowserOf[w] /\ calls'[d].phase \in {"refreshing", "refreshed"}
  <2>0. calls[c] \in Call
    BY DEF TypeOK
  <2> DEFINE IsServed == \E d \in Calls : BrowserOf[d] = BrowserOf[w] /\ calls'[d].phase \in {"refreshing", "refreshed"}
  <2>1. ASSUME NEW next, calls' = [calls EXCEPT ![c] = next],
               next.phase = "waiting" => Refreshing(BrowserOf[c]),
               calls[c].phase \in {"refreshing", "refreshed"} => next.phase \in {"refreshing", "refreshed"}
        PROVE  IsServed
    BY <1>1, <2>1
  <2> SUFFICES IsServed
    OBVIOUS
  <2> HIDE DEF IsServed
  <2>2. CASE Deliver(c)
    <3>1. Idle.phase = "idle" /\ calls[c].phase = "answered" /\ calls' = [calls EXCEPT ![c] = Idle]
      BY <2>2 DEF Idle, Deliver
    <3> QED
      BY <2>1, <3>1
  <2>3. CASE StartRefresh(c)
    <3> DEFINE next == [calls[c] EXCEPT !.phase = "refreshing", !.cookies = jar[BrowserOf[c]], !.reply = Refused]
    <3>1. next.phase = "refreshing" /\ calls' = [calls EXCEPT ![c] = next]
      BY <2>0, <2>3 DEF Call, StartRefresh
    <3> HIDE DEF next
    <3> QED
      BY <2>1, <3>1
  <2>4. CASE AwaitRefresh(c)
    <3> DEFINE next == [calls[c] EXCEPT !.phase = "waiting", !.reply = Refused]
    <3>1. /\ calls[c].phase = "answered" /\ Refreshing(BrowserOf[c])
          /\ calls' = [calls EXCEPT ![c] = next]
      BY <2>4 DEF AwaitRefresh
    <3> HIDE DEF next
    <3> QED
      BY <2>1, <3>1
  <2>5. CASE Refresh(c) \/ RefreshFails(c)
    <3>1. PICK reply : calls' = [calls EXCEPT ![c] = [calls[c] EXCEPT !.phase = "refreshed", !.reply = reply]]
      BY <2>5 DEF Refresh, RefreshFails
    <3> DEFINE next == [calls[c] EXCEPT !.phase = "refreshed", !.reply = reply]
    <3>2. next.phase = "refreshed" /\ calls' = [calls EXCEPT ![c] = next]
      BY <2>0, <3>1 DEF Call
    <3> HIDE DEF next
    <3> QED
      BY <2>1, <3>2
  <2>6. CASE Serve(c) /\ ~Refresh(c) /\ ~RefreshFails(c)
    <3>1. calls[c].phase \in {"sent", "admitted", "within", "updated", "revoking"}
      BY <2>6 DEF Serve, Register, Login, issueSession, Request, Logout, RevokeRefreshSession, Authenticate,
                  ChangePassword, ChangeCommits, RequestPasswordReset, ConsumePasswordResetToken,
                  UpdatePasswordTx, RevokeUserSessions, ResetCommits, ResetRollsBack, ServerFails, Begins, Continues
    <3>2. \/ Within(c) \/ \E reply : Answer(c, reply)
          \/ \E phase \in {"admitted", "updated", "revoking"} :
               calls' = [calls EXCEPT ![c] = [calls[c] EXCEPT !.phase = phase]]
      BY <2>6 DEF Serve, Register, Login, issueSession, Request, Logout, RevokeRefreshSession, Authenticate,
                  ChangePassword, ChangeCommits, RequestPasswordReset, ConsumePasswordResetToken,
                  UpdatePasswordTx, RevokeUserSessions, ResetCommits, ResetRollsBack, ServerFails
    <3>3. ASSUME NEW phase \in {"admitted", "within", "updated", "revoking"},
                 calls' = [calls EXCEPT ![c] = [calls[c] EXCEPT !.phase = phase]]
          PROVE  IsServed
      <4> DEFINE next == [calls[c] EXCEPT !.phase = phase]
      <4>1. next.phase = phase /\ calls' = [calls EXCEPT ![c] = next]
        BY <2>0, <3>3 DEF Call
      <4> HIDE DEF next
      <4> QED
        BY <2>1, <3>1, <4>1
    <3>4. ASSUME NEW reply, Answer(c, reply)
          PROVE  IsServed
      <4> DEFINE next == [calls[c] EXCEPT !.phase = "answered", !.reply = reply]
      <4>1. next.phase = "answered" /\ calls' = [calls EXCEPT ![c] = next]
        BY <2>0, <3>4 DEF Call, Answer
      <4> HIDE DEF next
      <4> QED
        BY <2>1, <3>1, <4>1
    <3> QED
      BY <3>2, <3>3, <3>4 DEF Within
  <2> QED
    BY <1>4, <2>2, <2>3, <2>4, <2>5, <2>6
<1>5. ASSUME \/ \E b \in Browsers : AccessCookieEnds(b)
             \/ \E s \in Sessions : Expires(s)
             \/ \E t \in ResetTokens : ResetExpires(t)
             \/ WindowEnds
      PROVE  \E d \in Calls : BrowserOf[d] = BrowserOf[w] /\ calls'[d].phase \in {"refreshing", "refreshed"}
  <2>1. calls' = calls
    BY <1>5 DEF AccessCookieEnds, Expires, ResetExpires, WindowEnds
  <2> QED
    BY <2>1 DEF WaitersAreServed, Refreshing
<1> QED
  BY <1>2, <1>3, <1>4, <1>5 DEF Next, Arrive

\* One refresh serves all the requests of a browser that need one, with the current
\* token as long as no answer was lost, and leaves none behind.
THEOREM RefreshIsSharedHolds == Spec => []RefreshIsShared
<1> DEFINE Inv == LogoutInv /\ SharedInv /\ WaitersAreServed
<1>1. Init => Inv
  <2> SUFFICES ASSUME Init PROVE SharedInv /\ WaitersAreServed
    BY LogoutInit
  <2>1. /\ \A c \in Calls : calls[c] = Idle
        /\ \A b \in Browsers : jar[b].refresh = NoToken
    BY DEF Init, NoCookies
  <2>2. HeldBy(Idle) = NoToken /\ ~Busy(Idle) /\ Idle.phase = "idle" /\ NoToken.s = None
    BY Constants, StandsForNothing DEF NoToken
  <2> QED
    BY <2>1, <2>2 DEF SharedInv, HeldInv, CurrentInv, Whole, Current, Held, WaitersAreServed
<1>2. Inv /\ [Next]_vars => Inv'
  <2>1. ASSUME Inv, Next PROVE Inv'
    <3>1. TypeOK /\ TypeOK' /\ JarKnown /\ CallsKnown /\ LogoutInv'
      BY <2>1, LogoutStep, TypeStep DEF LogoutInv
    <3> QED
      BY <2>1, <3>1, SharedStep, WaitersStep
  <2>2. ASSUME Inv, UNCHANGED vars PROVE Inv'
    <3>1. LogoutInv'
      BY <2>2 DEF LogoutInv, TypeOK, JarKnown, CallsKnown, WithinLogout, LogoutEndsTheSession,
                  Known, Holds, Live, Continues, vars
    <3>2. HeldInv'
      BY <2>2 DEF SharedInv, HeldInv, Whole, Held, HeldBy, Busy, vars
    <3>3. CurrentInv'
      BY <2>2 DEF SharedInv, CurrentInv, Current, Live, Held, HeldBy, vars
    <3>4. WaitersAreServed'
      BY <2>2 DEF WaitersAreServed, Refreshing, vars
    <3> QED
      BY <3>1, <3>2, <3>3, <3>4 DEF SharedInv
  <2> QED
    BY <2>1, <2>2
<1>3. Inv => RefreshIsShared
  <2> SUFFICES ASSUME SharedInv, NEW c \in Calls, calls[c].phase = "refreshing", ~lost[BrowserOf[c]],
                      calls[c].cookies.refresh # NoToken, Live(calls[c].cookies.refresh.s)
               PROVE  rows[calls[c].cookies.refresh.s].n = calls[c].cookies.refresh.n
    BY DEF RefreshIsShared, RefreshCarriesTheCurrentToken
  <2>1. Held(c) = calls[c].cookies.refresh
    BY DEF Held, HeldBy
  <2>2. Whole(Held(c)) /\ Current(Held(c))
    BY DEF SharedInv, HeldInv, CurrentInv
  <2> QED
    BY <2>1, <2>2 DEF Whole, Current
<1> HIDE DEF Inv
<1> QED
  BY <1>1, <1>2, <1>3, PTL DEF Spec

=============================================================================

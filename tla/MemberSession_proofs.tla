------------------------ MODULE MemberSession_proofs ------------------------
(***************************************************************************)
(* Proofs about MemberSession, for any members, browsers and bound.        *)
(***************************************************************************)
EXTENDS MemberSession, TLAPS

-----------------------------------------------------------------------------
(***************************************************************************)
(* What the methods of SessionsHelper do to a request: its type, and what  *)
(* becomes of the ids and the token.                                       *)
(***************************************************************************)
Requests(n) == [session : Sessions, cookies : Cookies, digest : [Members -> 0..n],
                error : BOOLEAN]

\* From the request q to r no digest of a user changed.
SameUsers(q, r) == \A u \in Users : r.digest[u] = q.digest[u]

\* From the request q to r no digest of a user changed but u's.
SameButOf(q, r, u) == \A v \in Users \ {u} : r.digest[v] = q.digest[v]

\* The request of a browser is well typed.
LEMMA RequestType ==
    ASSUME TypeOK, NEW b \in Browsers
    PROVE  /\ Request(b) \in Requests(issued)
           /\ Request(b).session = session[b]
           /\ Request(b).cookies = cookies[b]
           /\ ~Request(b).error
BY DEF TypeOK, Request, Requests

\* Looking for the broker changes nothing, and may raise.
LEMMA CurrentBroker ==
    ASSUME NEW n \in Nat, NEW q \in Requests(n)
    PROVE  /\ current_broker(q) \in Requests(n)
           /\ current_broker(q).session = q.session
           /\ current_broker(q).cookies = q.cookies
           /\ current_broker(q).digest = q.digest
           /\ q.error => current_broker(q).error
BY DEF current_broker, Raise, Requests

\* Logging the broker out takes away his id and the token, and leaves the user.
LEMMA LogOutBroker ==
    ASSUME NEW n \in Nat, NEW q \in Requests(n)
    PROVE  /\ log_out_broker(q) \in Requests(n)
           /\ log_out_broker(q).session.user = q.session.user
           /\ log_out_broker(q).session.broker = Nil
           /\ log_out_broker(q).cookies.user = q.cookies.user
           /\ log_out_broker(q).cookies.token = 0
           /\ log_out_broker(q).error = q.error
           /\ SameUsers(q, log_out_broker(q))
<1>1. 0 \in 0..n /\ 0 \in Tokens
  BY SessionAssumption DEF Tokens
<1>2. /\ q.session \in Sessions /\ q.cookies \in Cookies
      /\ q.digest \in [Members -> 0..n] /\ q.error \in BOOLEAN
  BY DEF Requests
<1>3. [q.digest EXCEPT ![q.session.broker] = 0] \in [Members -> 0..n]
  BY <1>1, <1>2
<1>4. log_out_broker(q) =
        [session |-> [user |-> q.session.user, broker |-> Nil],
         cookies |-> [user |-> q.cookies.user, broker |-> Nil, token |-> 0],
         digest |-> [q.digest EXCEPT ![q.session.broker] = 0], error |-> q.error]
  <2> DEFINE D == [q.digest EXCEPT ![q.session.broker] = 0]
             C == [user |-> q.cookies.user, broker |-> Nil, token |-> 0]
             S == [q.session EXCEPT !.broker = Nil]
  <2>2. S = [user |-> q.session.user, broker |-> Nil]
    BY <1>2 DEF Sessions
  <2>3. log_out_broker(q) = [[[q EXCEPT !.digest = D] EXCEPT !.session = S] EXCEPT !.cookies = C]
    BY DEF log_out_broker, Requests
  <2> HIDE DEF D, C, S
  <2>4. log_out_broker(q) = [session |-> S, cookies |-> C, digest |-> D, error |-> q.error]
    BY <2>3 DEF Requests
  <2> QED BY <2>2, <2>4 DEF D, C
<1>5. SameUsers(q, log_out_broker(q))
  <2>1. q.session.broker \notin Users
    BY <1>2, SessionAssumption DEF Sessions, Members
  <2> QED BY <1>2, <1>4, <2>1 DEF SameUsers, Members
<1> QED BY <1>1, <1>2, <1>3, <1>4, <1>5 DEF Requests, Sessions, Cookies

\* Logging a user in leaves no broker logged in, and the user's cookie alone.
LEMMA LogInUser ==
    ASSUME NEW n \in Nat, NEW q \in Requests(n), NEW u \in Users, accounts \subseteq Members
    PROVE  LET r == log_in_user(q, u) IN
           /\ r \in Requests(n)
           /\ r.cookies.user = q.cookies.user
           /\ r.cookies.token \in {q.cookies.token, 0}
           /\ r.session.broker \in {q.session.broker, Nil}
           /\ r.error \/ (r.session.user = u /\ r.session.broker \notin accounts)
           /\ SameUsers(q, r)
           /\ q.session.broker \notin accounts => r.cookies = q.cookies
<1> DEFINE c == current_broker(q)
           d == IF broker_logged_in(c) THEN log_out_broker(c) ELSE c
<1>1. /\ c \in Requests(n) /\ c.session = q.session /\ c.cookies = q.cookies
      /\ c.digest = q.digest
  BY CurrentBroker
<1>2. /\ d \in Requests(n) /\ d.cookies.user = q.cookies.user
      /\ d.cookies.token \in {q.cookies.token, 0}
      /\ d.session.broker \in {q.session.broker, Nil}
      /\ d.session.broker \notin accounts
  BY <1>1, LogOutBroker, SessionAssumption DEF broker_logged_in
<1>2a. SameUsers(q, c) /\ SameUsers(q, d)
  <2>1. SameUsers(q, c)
    BY <1>1 DEF SameUsers
  <2>2. SameUsers(c, log_out_broker(c))
    BY <1>1, LogOutBroker
  <2>3. SameUsers(q, log_out_broker(c))
    BY <2>1, <2>2 DEF SameUsers
  <2> QED BY <2>1, <2>3
<1>2b. q.session.broker \notin accounts => d = c
  BY <1>1 DEF broker_logged_in
<1>3. log_in_user(q, u) = IF c.error THEN c ELSE [d EXCEPT !.session.user = u]
  BY DEF log_in_user
<1> HIDE DEF c, d
<1>4. [d EXCEPT !.session.user = u] =
        [session |-> [user |-> u, broker |-> d.session.broker],
         cookies |-> d.cookies, digest |-> d.digest, error |-> d.error]
  BY <1>2 DEF Requests, Sessions
<1>5. [d EXCEPT !.session.user = u] \in Requests(n)
  BY <1>2, <1>4 DEF Requests, Sessions
<1>6. CASE c.error
  BY <1>1, <1>2a, <1>3, <1>6
<1>7. CASE ~c.error
  <2>1. SameUsers(q, [d EXCEPT !.session.user = u])
    BY <1>2a, <1>4 DEF SameUsers
  <2> QED BY <1>1, <1>2, <1>2b, <1>3, <1>4, <1>5, <1>7, <2>1
<1> QED BY <1>6, <1>7

\* Looking for the user may log in the user of the cookie.
LEMMA CurrentUser ==
    ASSUME NEW n \in Nat, NEW q \in Requests(n), accounts \subseteq Members
    PROVE  LET r == current_user(q) IN
           /\ r \in Requests(n)
           /\ r.cookies.user = q.cookies.user
           /\ r.cookies.token \in {q.cookies.token, 0}
           /\ r.session.broker \in {q.session.broker, Nil}
           /\ \/ r.error
              \/ r.session.user = q.session.user
              \/ r.session.user = q.cookies.user
           /\ SameUsers(q, r)
<1>1. CASE current_user(q) = q
  <2>1. SameUsers(q, q)
    BY DEF SameUsers
  <2> QED BY <1>1, <2>1
<1>2. CASE /\ q.cookies.user \in accounts
           /\ current_user(q) = log_in_user(q, q.cookies.user)
  <2>1. q.cookies.user \in Users
    BY <1>2, SessionAssumption DEF Requests, Cookies, Members
  <2> QED BY <1>2, <2>1, LogInUser
<1> QED BY <1>1, <1>2 DEF current_user

\* Logging a broker in adds him to a request without a user.
LEMMA LogInBroker ==
    ASSUME NEW n \in Nat, NEW q \in Requests(n), NEW k \in Brokers, accounts \subseteq Members
    PROVE  LET r == log_in_broker(q, k) IN
           /\ r \in Requests(n)
           /\ r.cookies.user = q.cookies.user
           /\ r.cookies.token \in {q.cookies.token, 0}
           /\ \/ r.error
              \/ /\ r.session.broker = k
                 /\ r.session.user \in {q.session.user, q.cookies.user}
           /\ SameUsers(q, r)
<1> DEFINE c == current_user(q)
<1>1. /\ c \in Requests(n) /\ c.cookies.user = q.cookies.user
      /\ c.cookies.token \in {q.cookies.token, 0}
      /\ c.error \/ c.session.user \in {q.session.user, q.cookies.user}
      /\ SameUsers(q, c)
  BY CurrentUser
<1>2. \/ log_in_broker(q, k) = Raise(c)
      \/ ~c.error /\ log_in_broker(q, k) = [c EXCEPT !.session.broker = k]
  BY DEF log_in_broker
<1> HIDE DEF c
<1>3. /\ Raise(c) \in Requests(n) /\ Raise(c).cookies = c.cookies /\ Raise(c).error
      /\ Raise(c).digest = c.digest
  BY <1>1 DEF Raise, Requests
<1>4. [c EXCEPT !.session.broker = k] =
        [session |-> [user |-> c.session.user, broker |-> k],
         cookies |-> c.cookies, digest |-> c.digest, error |-> c.error]
  BY <1>1 DEF Requests, Sessions
<1>5. [c EXCEPT !.session.broker = k] \in Requests(n)
  BY <1>1, <1>4 DEF Requests, Sessions
<1>6. SameUsers(q, Raise(c)) /\ SameUsers(q, [c EXCEPT !.session.broker = k])
  BY <1>1, <1>3, <1>4 DEF SameUsers
<1> QED BY <1>1, <1>2, <1>3, <1>4, <1>5, <1>6

\* Logging a user in with a password.
LEMMA UserLogIn ==
    ASSUME NEW n \in Nat, NEW q \in Requests(n), NEW u \in Users
    PROVE  LET r == user_log_in(q, u) IN
           /\ r \in Requests(n)
           /\ r.cookies = q.cookies
           /\ \/ r.error
              \/ /\ r.session.user = u
                 /\ r.session.broker = q.session.broker
                 /\ r.session.broker \notin accounts
           /\ r.digest = q.digest
<1> DEFINE c == current_broker(q)
<1>1. /\ c \in Requests(n) /\ c.session = q.session /\ c.cookies = q.cookies
      /\ c.digest = q.digest
  BY CurrentBroker
<1>2. \/ user_log_in(q, u) = Raise(c)
      \/ /\ ~c.error /\ c.session.broker \notin accounts
         /\ user_log_in(q, u) = [c EXCEPT !.session.user = u]
  BY DEF user_log_in, broker_logged_in
<1> HIDE DEF c
<1>3. /\ Raise(c) \in Requests(n) /\ Raise(c).cookies = c.cookies /\ Raise(c).error
      /\ Raise(c).digest = c.digest
  BY <1>1 DEF Raise, Requests
<1>4. [c EXCEPT !.session.user = u] =
        [session |-> [user |-> u, broker |-> c.session.broker],
         cookies |-> c.cookies, digest |-> c.digest, error |-> c.error]
  BY <1>1 DEF Requests, Sessions
<1>5. [c EXCEPT !.session.user = u] \in Requests(n)
  BY <1>1, <1>4 DEF Requests, Sessions
<1> QED BY <1>1, <1>2, <1>3, <1>4, <1>5

\* Forgetting and remembering write the two cookies and the digest.
LEMMA Cookie ==
    ASSUME NEW n \in Nat, n <= MaxTokens, NEW q \in Requests(n), NEW m \in Members,
           NEW t \in 0..n
    PROVE  /\ m \in Users =>
                LET r == user_remember(q, m, t) IN
                /\ r \in Requests(n) /\ r.session = q.session /\ r.error = q.error
                /\ r.cookies.user = m /\ r.cookies.token = t
                /\ r.digest[m] = t /\ SameButOf(q, r, m)
           /\ m \in Brokers =>
                LET r == remember_broker(q, m, t) IN
                /\ r \in Requests(n) /\ r.session = q.session /\ r.error = q.error
                /\ r.cookies.user = q.cookies.user /\ r.cookies.token = t
                /\ SameUsers(q, r)
<1>1. /\ q.session \in Sessions /\ q.cookies \in Cookies
      /\ q.digest \in [Members -> 0..n] /\ q.error \in BOOLEAN /\ t \in Tokens
  BY SessionAssumption DEF Requests, Tokens
<1>2. [q.digest EXCEPT ![m] = t] \in [Members -> 0..n]
  BY <1>1
<1> DEFINE D == [q.digest EXCEPT ![m] = t]
<1>3. user_remember(q, m, t) =
        [session |-> q.session,
         cookies |-> [user |-> m, broker |-> q.cookies.broker, token |-> t],
         digest |-> D, error |-> q.error]
  <2> DEFINE C == [user |-> m, broker |-> q.cookies.broker, token |-> t]
  <2>1. user_remember(q, m, t) = [[q EXCEPT !.digest = D] EXCEPT !.cookies = C]
    BY DEF user_remember, Requests
  <2> HIDE DEF C, D
  <2>2. user_remember(q, m, t) = [session |-> q.session, cookies |-> C, digest |-> D, error |-> q.error]
    BY <2>1 DEF Requests
  <2> QED BY <2>2 DEF C
<1>4. remember_broker(q, m, t) =
        [session |-> q.session,
         cookies |-> [user |-> q.cookies.user, broker |-> m, token |-> t],
         digest |-> D, error |-> q.error]
  <2> DEFINE C == [user |-> q.cookies.user, broker |-> m, token |-> t]
  <2>1. remember_broker(q, m, t) = [[q EXCEPT !.digest = D] EXCEPT !.cookies = C]
    BY DEF remember_broker, Requests
  <2> HIDE DEF C, D
  <2>2. remember_broker(q, m, t) = [session |-> q.session, cookies |-> C, digest |-> D, error |-> q.error]
    BY <2>1 DEF Requests
  <2> QED BY <2>2 DEF C
<1>5. m \in Brokers => SameUsers(q, remember_broker(q, m, t))
  BY <1>1, <1>4, SessionAssumption DEF SameUsers, Members
<1>6. user_remember(q, m, t).digest[m] = t /\ SameButOf(q, user_remember(q, m, t), m)
  BY <1>1, <1>3 DEF SameButOf, Members
<1> QED BY <1>1, <1>2, <1>3, <1>4, <1>5, <1>6 DEF Requests, Cookies

\* Forgetting a user deletes his cookie and the token.
LEMMA UserForget ==
    ASSUME NEW n \in Nat, NEW q \in Requests(n), NEW u
    PROVE  LET r == user_forget(q, u) IN
           /\ r \in Requests(n) /\ r.session = q.session /\ r.error = q.error
           /\ r.cookies.user = Nil /\ r.cookies.token = 0
           /\ SameButOf(q, r, u)
<1>1. /\ q.session \in Sessions /\ q.cookies \in Cookies
      /\ q.digest \in [Members -> 0..n] /\ q.error \in BOOLEAN /\ 0 \in Tokens /\ 0 \in 0..n
  BY SessionAssumption DEF Requests, Tokens
<1>2. [q.digest EXCEPT ![u] = 0] \in [Members -> 0..n]
  BY <1>1
<1>3. user_forget(q, u) =
        [session |-> q.session,
         cookies |-> [user |-> Nil, broker |-> q.cookies.broker, token |-> 0],
         digest |-> [q.digest EXCEPT ![u] = 0], error |-> q.error]
  <2> DEFINE D == [q.digest EXCEPT ![u] = 0]
             C == [user |-> Nil, broker |-> q.cookies.broker, token |-> 0]
  <2>1. user_forget(q, u) = [[q EXCEPT !.digest = D] EXCEPT !.cookies = C]
    BY DEF user_forget, Requests
  <2> HIDE DEF C, D
  <2>2. user_forget(q, u) =
          [session |-> q.session, cookies |-> C, digest |-> D, error |-> q.error]
    BY <2>1 DEF Requests
  <2> QED BY <2>2 DEF C, D
<1>4. SameButOf(q, user_forget(q, u), u)
  BY <1>1, <1>3 DEF SameButOf, Members
<1> QED BY <1>1, <1>2, <1>3, <1>4 DEF Requests, Cookies

\* Logging the user out leaves neither his session nor his cookie.
LEMMA UserLogOut ==
    ASSUME NEW n \in Nat, NEW q \in Requests(n)
    PROVE  LET r == user_log_out(q) IN
           /\ r \in Requests(n) /\ r.error = q.error
           /\ r.session.user = Nil /\ r.session.broker = q.session.broker
           /\ r.cookies.user = Nil /\ r.cookies.token = 0
           /\ SameButOf(q, r, q.session.user)
<1> DEFINE f == user_forget(q, q.session.user)
<1>1. /\ f \in Requests(n) /\ f.session = q.session /\ f.error = q.error
      /\ f.cookies.user = Nil /\ f.cookies.token = 0
      /\ SameButOf(q, f, q.session.user)
  BY UserForget
<1>2. user_log_out(q) = [f EXCEPT !.session.user = Nil]
  BY DEF user_log_out
<1> HIDE DEF f
<1>3. [f EXCEPT !.session.user = Nil] =
        [session |-> [user |-> Nil, broker |-> f.session.broker],
         cookies |-> f.cookies, digest |-> f.digest, error |-> f.error]
  BY <1>1 DEF Requests, Sessions
<1>4. SameButOf(q, user_log_out(q), q.session.user)
  BY <1>1, <1>2, <1>3 DEF SameButOf
<1> QED BY <1>1, <1>2, <1>3, <1>4 DEF Requests, Sessions

\* The log out that a broker's signing in begins with.
LEMMA LogOutCurrentBroker ==
    ASSUME NEW n \in Nat, NEW q \in Requests(n)
    PROVE  LET r == log_out_current_broker(q) IN
           /\ r \in Requests(n)
           /\ r.session.user = q.session.user
           /\ r.cookies.user = q.cookies.user
           /\ r.cookies.token \in {q.cookies.token, 0}
           /\ SameUsers(q, r)
<1>1. CASE log_out_current_broker(q) = [q EXCEPT !.cookies.token = 0]
  <2>1. [q EXCEPT !.cookies.token = 0] =
          [session |-> q.session,
           cookies |-> [user |-> q.cookies.user, broker |-> q.cookies.broker, token |-> 0],
           digest |-> q.digest, error |-> q.error]
    BY DEF Requests, Cookies
  <2>2. 0 \in Tokens
    BY SessionAssumption DEF Tokens
  <2>3. SameUsers(q, [q EXCEPT !.cookies.token = 0])
    BY <2>1 DEF SameUsers
  <2> QED BY <1>1, <2>1, <2>2, <2>3 DEF Requests, Cookies
<1>2. CASE log_out_current_broker(q) \in {q, log_out_broker(q)}
  <2>1. SameUsers(q, q)
    BY DEF SameUsers
  <2> QED BY <1>2, <2>1, LogOutBroker
<1> QED BY <1>1, <1>2 DEF log_out_current_broker

-----------------------------------------------------------------------------
(***************************************************************************)
(* The invariant.  Who signed in at a browser includes whoever its session *)
(* or its cookie names; an id of the session was given to someone, so a    *)
(* new account is nobody's yet.  No two browsers have the same token.      *)
(***************************************************************************)
SignedInv ==
    \A b \in Browsers :
       /\ session[b].user # Nil => session[b].user \in signed[b]
       /\ session[b].broker \in accounts => session[b].broker \in signed[b]
       /\ session[b].broker \in used \union {Nil}
       /\ cookies[b].user # Nil => cookies[b].user \in signed[b]
       /\ answer[b] \in Members => answer[b] \in signed[b]

TokenInv ==
    /\ \A b \in Browsers : cookies[b].token \in 0..issued
    /\ \A b, c \in Browsers :
         b # c /\ cookies[b].token = cookies[c].token => cookies[b].token = 0

SessionInv == TypeOK /\ SignedInv /\ TokenInv

\* A response to a well-typed request, with the token it came with, none or a new one.
LEMMA RespondStep ==
    ASSUME TypeOK, TokenInv, NEW b \in Browsers,
           issued' \in Tokens, issued' \in {issued, issued + 1},
           NEW q \in Requests(issued'),
           NEW whom \in Members \union {"none", "guest", "error"}, Respond(b, q, whom),
           \/ q.cookies.token \in {cookies[b].token, 0}
           \/ q.cookies.token = issued' /\ issued' = issued + 1
    PROVE  /\ session' \in [Browsers -> Sessions]
           /\ cookies' \in [Browsers -> Cookies]
           /\ digest' \in [Members -> 0..issued']
           /\ answer' \in [Browsers -> Members \union {"none", "guest", "error"}]
           /\ TokenInv'
<1>1. /\ q.session \in Sessions /\ q.cookies \in Cookies /\ q.digest \in [Members -> 0..issued']
  BY DEF Requests
<1>2. /\ session' \in [Browsers -> Sessions]
      /\ cookies' \in [Browsers -> Cookies]
      /\ digest' \in [Members -> 0..issued']
      /\ answer' \in [Browsers -> Members \union {"none", "guest", "error"}]
  BY <1>1 DEF Respond, TypeOK
<1>3. \A c \in Browsers : cookies'[c] = cookies[c] \/ (c = b /\ cookies'[c] = q.cookies)
  BY DEF Respond, TypeOK
<1>4. issued \in Nat
  BY DEF TypeOK, Tokens
<1>5. \A c \in Browsers : cookies[c].token \in 0..issued
  BY DEF TokenInv
<1>6. \A c \in Browsers : cookies'[c].token \in 0..issued'
  BY <1>3, <1>4, <1>5
<1>7. ASSUME NEW c \in Browsers, NEW d \in Browsers, c # d,
             cookies'[c].token = cookies'[d].token
      PROVE  cookies'[c].token = 0
  <2>1. ASSUME NEW e \in Browsers, NEW f \in Browsers, e # f
        PROVE  cookies[e].token = cookies[f].token => cookies[e].token = 0
    BY <2>1 DEF TokenInv
  <2>2. CASE c # b /\ d # b
    BY <1>3, <1>7, <2>1, <2>2
  <2>3. CASE c = b
    BY <1>3, <1>4, <1>5, <1>7, <2>1, <2>3
  <2>4. CASE d = b
    BY <1>3, <1>4, <1>5, <1>7, <2>1, <2>4
  <2> QED BY <2>2, <2>3, <2>4
<1> QED BY <1>2, <1>6, <1>7 DEF TokenInv

\* A response whose ids are all of members who signed in.
LEMMA SignedStep ==
    ASSUME TypeOK, SignedInv, NEW b \in Browsers, NEW q, NEW whom, NEW S,
           Respond(b, q, whom), Signs(b, q, S),
           used \subseteq used', \A m \in used : m \in accounts' => m \in accounts,
           Nil \notin accounts', whom \notin Members \/ whom \in S,
           \/ q.error
           \/ /\ q.session.user # Nil => q.session.user \in S
              /\ q.session.broker \in accounts' => q.session.broker \in S
              /\ q.session.broker \in used' \union {Nil}
              /\ q.cookies.user # Nil => q.cookies.user \in S
    PROVE  SignedInv'
<1> SUFFICES ASSUME NEW c \in Browsers
             PROVE  /\ session'[c].user # Nil => session'[c].user \in signed'[c]
                    /\ session'[c].broker \in accounts' => session'[c].broker \in signed'[c]
                    /\ session'[c].broker \in used' \union {Nil}
                    /\ cookies'[c].user # Nil => cookies'[c].user \in signed'[c]
                    /\ answer'[c] \in Members => answer'[c] \in signed'[c]
  BY DEF SignedInv
<1>0. /\ session[c].user # Nil => session[c].user \in signed[c]
      /\ session[c].broker \in accounts => session[c].broker \in signed[c]
      /\ session[c].broker \in used \union {Nil}
      /\ cookies[c].user # Nil => cookies[c].user \in signed[c]
      /\ answer[c] \in Members => answer[c] \in signed[c]
  BY DEF SignedInv
<1>1. CASE c # b \/ q.error
  <2>1. session'[c] = session[c] /\ cookies'[c] = cookies[c] /\ signed'[c] = signed[c]
    BY <1>1 DEF Respond, Signs, TypeOK
  <2>2. answer'[c] \in {answer[c], "error"}
    BY <1>1 DEF Respond, TypeOK
  <2>3. "error" \notin Members
    BY SessionAssumption
  <2> QED BY <1>0, <2>1, <2>2, <2>3
<1>2. CASE c = b /\ ~q.error
  <2>1. /\ session'[c] = q.session /\ cookies'[c] = q.cookies /\ signed'[c] = S
        /\ answer'[c] = whom
    BY <1>2 DEF Respond, Signs, TypeOK
  <2> QED BY <1>2, <2>1
<1> QED BY <1>1, <1>2

\* The history variables keep their type.
LEMMA HistoryType ==
    ASSUME TypeOK, NEW b \in Browsers
    PROVE  /\ \A q, S : S \subseteq Members /\ Signs(b, q, S) => signed' \in [Browsers -> SUBSET Members]
           /\ \A who \in Members \union {Nil} : \A gone :
                Keeps(b, who, gone) => kept' \in [Browsers -> Members \union {Nil}]
<1>1. ASSUME NEW q, NEW S \in SUBSET Members, Signs(b, q, S)
      PROVE  signed' \in [Browsers -> SUBSET Members]
  BY <1>1 DEF Signs, TypeOK
<1>2. ASSUME NEW who \in Members \union {Nil}, NEW gone, Keeps(b, who, gone)
      PROVE  kept' \in [Browsers -> Members \union {Nil}]
  BY <1>2 DEF Keeps, TypeOK
<1> QED BY <1>1, <1>2

\* What all requests of a state have in common.
LEMMA Common ==
    ASSUME SessionInv, NEW b \in Browsers
    PROVE  /\ issued \in Nat /\ issued \in Tokens /\ issued <= MaxTokens
           /\ accounts \subseteq Members /\ accounts \subseteq used /\ used \subseteq Members
           /\ Nil \notin Members /\ "none" \notin Members /\ "guest" \notin Members
           /\ Request(b) \in Requests(issued)
           /\ Request(b).session = session[b] /\ Request(b).cookies = cookies[b]
           /\ ~Request(b).error
           /\ session[b].user # Nil => session[b].user \in signed[b]
           /\ session[b].broker \in accounts => session[b].broker \in signed[b]
           /\ session[b].broker \in used \union {Nil}
           /\ cookies[b].user # Nil => cookies[b].user \in signed[b]
           /\ session[b].user \in Users \union {Nil} /\ session[b].broker \in Brokers \union {Nil}
           /\ cookies[b].user \in Users \union {Nil}
           /\ signed[b] \subseteq Members
           /\ Users \cap Brokers = {}
<1>1. TypeOK /\ SignedInv /\ TokenInv
  BY DEF SessionInv
<1>2. issued \in Nat /\ issued \in Tokens /\ issued <= MaxTokens
  BY <1>1, SessionAssumption DEF TypeOK, Tokens
<1>3. /\ Nil \notin Members /\ "none" \notin Members /\ "guest" \notin Members
      /\ Users \cap Brokers = {}
  BY SessionAssumption
<1>4. session[b] \in Sessions /\ cookies[b] \in Cookies /\ signed[b] \subseteq Members
  BY <1>1 DEF TypeOK
<1>5. /\ session[b].user \in Users \union {Nil} /\ session[b].broker \in Brokers \union {Nil}
      /\ cookies[b].user \in Users \union {Nil}
  BY <1>4 DEF Sessions, Cookies
<1>6. accounts \subseteq Members /\ accounts \subseteq used /\ used \subseteq Members
  BY <1>1 DEF TypeOK
<1> QED BY <1>1, <1>2, <1>3, <1>4, <1>5, <1>6, RequestType DEF SignedInv

\* Looking at a page.
LEMMA VisitStep ==
    ASSUME SessionInv, NEW b \in Browsers, NEW brokerPage \in BOOLEAN, Visit(b, brokerPage)
    PROVE  SessionInv'
<1> DEFINE asked == IF brokerPage THEN current_broker(Request(b)) ELSE Request(b)
           c == current_user(asked)
           q == IF asked.error THEN asked ELSE Layout(asked)
<1>0. TypeOK /\ SignedInv /\ TokenInv
  BY DEF SessionInv
<1>1. /\ asked \in Requests(issued) /\ asked.session = session[b] /\ asked.cookies = cookies[b]
  BY Common, CurrentBroker
<1>2. /\ c \in Requests(issued) /\ c.cookies.user = cookies[b].user
      /\ c.cookies.token \in {cookies[b].token, 0}
      /\ c.session.broker \in {session[b].broker, Nil}
      /\ c.error \/ c.session.user \in {session[b].user, cookies[b].user}
  BY <1>1, Common, CurrentUser
<1>3. q \in {asked, c, current_broker(c)}
  BY DEF Layout
<1>4. /\ q \in Requests(issued) /\ q.cookies.user = cookies[b].user
      /\ q.cookies.token \in {cookies[b].token, 0}
      /\ q.session.broker \in {session[b].broker, Nil}
      /\ q.error \/ q.session.user \in {session[b].user, cookies[b].user}
  BY <1>1, <1>2, <1>3, Common, CurrentBroker
<1>5. PICK r \in {asked, q}, whom \in {"none", Greeted(asked), Greeted(q)} :
        /\ whom \in {"none", Greeted(r)}
        /\ Respond(b, r, whom)
        /\ open' \in {open, open \union {b}}
        /\ UNCHANGED <<accounts, used, issued, signed, kept>>
  BY DEF Visit
<1> HIDE DEF asked, c, q
<1>6. /\ r \in Requests(issued) /\ r.cookies.user = cookies[b].user
      /\ r.cookies.token \in {cookies[b].token, 0}
      /\ r.session.broker \in {session[b].broker, Nil}
      /\ r.error \/ r.session.user \in {session[b].user, cookies[b].user}
  BY <1>1, <1>4
<1>7. whom \in Members \union {"none", "guest", "error"}
  BY <1>5, Common DEF Greeted, user_logged_in, broker_logged_in
<1>8. r.error \/ whom \notin Members \/ whom \in signed[b]
  BY <1>5, <1>6, Common DEF Greeted, user_logged_in, broker_logged_in
<1>9. /\ session' \in [Browsers -> Sessions]
      /\ cookies' \in [Browsers -> Cookies]
      /\ digest' \in [Members -> 0..issued']
      /\ answer' \in [Browsers -> Members \union {"none", "guest", "error"}]
      /\ TokenInv'
  <2>1. issued' = issued /\ issued \in Tokens
    BY <1>5, Common
  <2> QED BY <1>0, <1>5, <1>6, <1>7, <2>1, RespondStep
<1>10. TypeOK'
  BY <1>0, <1>5, <1>9 DEF TypeOK
<1>11. Signs(b, r, signed[b])
  BY <1>0, <1>5 DEF Signs, TypeOK
<1>12. SignedInv'
  <2>1. CASE r.error
    <3>1. Respond(b, r, "none")
      BY <1>5, <2>1 DEF Respond
    <3> QED BY <1>0, <1>5, <1>11, <2>1, <3>1, Common, SignedStep
  <2>2. CASE ~r.error
    BY <1>0, <1>5, <1>6, <1>8, <1>11, <2>2, Common, SignedStep
  <2> QED BY <2>1, <2>2
<1> QED BY <1>9, <1>10, <1>12 DEF SessionInv

\* A handler that redirects: what its request must satisfy.
LEMMA HandlerStep ==
    ASSUME SessionInv, NEW b \in Browsers, NEW q \in Requests(issued'),
           NEW S \in SUBSET Members, NEW who \in Members \union {Nil}, NEW gone,
           Respond(b, q, "none"), Signs(b, q, S), Keeps(b, who, gone), open' = open,
           issued' \in Tokens, issued' \in {issued, issued + 1},
           \/ q.cookies.token \in {cookies[b].token, 0}
           \/ q.cookies.token = issued' /\ issued' = issued + 1,
           used \subseteq used', used' \subseteq Members, accounts' \subseteq used',
           \A m \in used : m \in accounts' => m \in accounts,
           \/ q.error
           \/ /\ q.session.user # Nil => q.session.user \in S
              /\ q.session.broker \in accounts' => q.session.broker \in S
              /\ q.session.broker \in used' \union {Nil}
              /\ q.cookies.user # Nil => q.cookies.user \in S
    PROVE  SessionInv'
<1>1. TypeOK /\ SignedInv /\ TokenInv
  BY DEF SessionInv
<1>2. /\ session' \in [Browsers -> Sessions]
      /\ cookies' \in [Browsers -> Cookies]
      /\ digest' \in [Members -> 0..issued']
      /\ answer' \in [Browsers -> Members \union {"none", "guest", "error"}]
      /\ TokenInv'
  BY <1>1, RespondStep
<1>3. /\ signed' \in [Browsers -> SUBSET Members]
      /\ kept' \in [Browsers -> Members \union {Nil}]
  BY <1>1, HistoryType
<1>4. TypeOK'
  BY <1>1, <1>2, <1>3 DEF TypeOK
<1>5. Nil \notin accounts' /\ "none" \notin Members
  BY Common
<1>6. SignedInv'
  BY <1>1, <1>5, SignedStep
<1> QED BY <1>2, <1>4, <1>6 DEF SessionInv

\* A user signs in.
LEMMA UserLoginStep ==
    ASSUME SessionInv, NEW b \in Browsers, NEW u \in Users, NEW remember \in BOOLEAN,
           UserLogin(b, u, remember)
    PROVE  SessionInv'
<1> DEFINE t == issued + 1
           c == user_log_in(Request(b), u)
           q == IF c.error THEN c
                ELSE IF remember THEN user_remember(c, u, t) ELSE user_forget(c, u)
<1>1. /\ u \in accounts /\ (remember => issued < MaxTokens)
      /\ issued' = IF remember /\ ~q.error THEN t ELSE issued
      /\ Respond(b, q, "none") /\ Signs(b, q, {u})
      /\ Keeps(b, IF remember /\ ~q.error THEN u ELSE Nil, {u})
      /\ UNCHANGED <<accounts, used, open>>
  BY DEF UserLogin
<1>2. u \in Members
  BY DEF Members
<1>3. /\ c \in Requests(issued) /\ c.cookies = cookies[b]
      /\ \/ c.error
         \/ /\ c.session.user = u /\ c.session.broker = session[b].broker
            /\ c.session.broker \notin accounts
  BY Common, UserLogIn
<1>4. CASE c.error
  <2>1. q = c /\ issued' = issued
    BY <1>1, <1>4
  <2> HIDE DEF q, c
  <2> QED BY <1>1, <1>2, <1>3, <1>4, <2>1, Common, HandlerStep
<1>5. CASE ~c.error /\ ~remember
  <2>1. q = user_forget(c, u) /\ issued' = issued
    BY <1>1, <1>5
  <2> HIDE DEF q, c
  <2>2. /\ q \in Requests(issued) /\ q.session = c.session /\ q.cookies.user = Nil
        /\ q.cookies.token = 0
    BY <1>3, <2>1, Common, UserForget
  <2> QED BY <1>1, <1>2, <1>3, <1>5, <2>1, <2>2, Common, HandlerStep
<1>6. CASE ~c.error /\ remember
  <2>0. /\ t \in Nat /\ t <= MaxTokens /\ t \in 0..t /\ t \in Tokens /\ t \in {issued, issued + 1}
        /\ 0..issued \subseteq 0..t
    BY <1>1, <1>6, Common, SessionAssumption DEF Tokens
  <2>1. c \in Requests(t)
    <3>1. c.digest \in [Members -> 0..issued]
      BY <1>3 DEF Requests
    <3>2. c.digest \in [Members -> 0..t]
      BY <2>0, <3>1
    <3> QED BY <1>3, <3>2 DEF Requests
  <2>2. q = user_remember(c, u, t)
    BY <1>6
  <2> HIDE DEF q, c
  <2>3. /\ q \in Requests(t) /\ q.session = c.session /\ q.error = c.error
        /\ q.cookies.user = u /\ q.cookies.token = t
    BY <1>2, <2>0, <2>1, <2>2, Cookie
  <2>4. issued' = t /\ Keeps(b, u, {u})
    BY <1>1, <1>6, <2>3
  <2> QED BY <1>1, <1>2, <1>3, <1>6, <2>0, <2>3, <2>4, Common, HandlerStep
<1> QED BY <1>4, <1>5, <1>6

\* A broker signs in.
LEMMA BrokerLoginStep ==
    ASSUME SessionInv, NEW b \in Browsers, NEW k \in Brokers, NEW remember \in BOOLEAN,
           BrokerLogin(b, k, remember)
    PROVE  SessionInv'
<1> DEFINE t == issued + 1
           d == log_out_current_broker(current_broker(Request(b)))
           c == IF d.error THEN d ELSE log_in_broker(d, k)
           f == [log_out_broker(c) EXCEPT !.session = c.session]
           q == IF c.error \/ k \notin Registered THEN c
                ELSE IF remember THEN remember_broker(c, k, t) ELSE f
           keeps == remember /\ ~q.error /\ k \in Registered
           S == (signed[b] \ Brokers) \union {k}
<1>1. /\ k \in accounts /\ (remember => issued < MaxTokens)
      /\ issued' = IF keeps THEN t ELSE issued
      /\ Respond(b, q, "none") /\ Signs(b, q, S)
      /\ Keeps(b, IF keeps THEN k ELSE Nil, {k} \union Involved(b))
      /\ UNCHANGED <<accounts, used, open>>
  BY DEF BrokerLogin
<1>2. k \in Members
  BY DEF Members
<1>3. /\ current_broker(Request(b)) \in Requests(issued)
      /\ current_broker(Request(b)).session = session[b]
      /\ current_broker(Request(b)).cookies = cookies[b]
  BY Common, CurrentBroker
<1>4. /\ d \in Requests(issued) /\ d.session.user = session[b].user
      /\ d.cookies.user = cookies[b].user /\ d.cookies.token \in {cookies[b].token, 0}
  BY <1>3, Common, LogOutCurrentBroker
<1> HIDE DEF d
<1>5. /\ c \in Requests(issued) /\ c.cookies.user = cookies[b].user
      /\ c.cookies.token \in {cookies[b].token, 0}
      /\ \/ c.error
         \/ /\ c.session.broker = k /\ c.session.user \in {session[b].user, cookies[b].user}
  BY <1>4, Common, LogInBroker
<1>6. /\ S \subseteq Members /\ k \in S
      /\ \A v \in {session[b].user, cookies[b].user} : v # Nil => v \in S
  <2>1. \A v \in {session[b].user, cookies[b].user} : v # Nil => v \in signed[b] /\ v \notin Brokers
    BY Common
  <2> QED BY <1>2, <2>1, Common
<1>7. k \in used
  BY <1>1, Common
<1>8. CASE c.error \/ k \notin Registered
  <2>1. q = c /\ ~keeps
    BY <1>8
  <2> HIDE DEF q, c, S, keeps
  <2> QED BY <1>1, <1>5, <1>6, <1>7, <2>1, Common, HandlerStep
<1>9. CASE ~c.error /\ k \in Registered /\ ~remember
  <2>1. q = f /\ ~keeps
    BY <1>9
  <2>2. /\ log_out_broker(c) \in Requests(issued)
        /\ log_out_broker(c).cookies.user = c.cookies.user
        /\ log_out_broker(c).cookies.token = 0
    BY <1>5, Common, LogOutBroker
  <2> HIDE DEF c
  <2>3. f \in Requests(issued) /\ f.cookies = log_out_broker(c).cookies /\ f.session = c.session
    BY <1>5, <2>2 DEF Requests
  <2> HIDE DEF q, S, keeps, f
  <2> QED BY <1>1, <1>5, <1>6, <1>7, <1>9, <2>1, <2>2, <2>3, Common, HandlerStep
<1>10. CASE ~c.error /\ k \in Registered /\ remember
  <2>0. /\ t \in Nat /\ t <= MaxTokens /\ t \in 0..t /\ t \in Tokens /\ t \in {issued, issued + 1}
        /\ 0..issued \subseteq 0..t
    BY <1>1, <1>10, Common, SessionAssumption DEF Tokens
  <2>1. c \in Requests(t)
    <3>1. c.digest \in [Members -> 0..issued]
      BY <1>5 DEF Requests
    <3>2. c.digest \in [Members -> 0..t]
      BY <2>0, <3>1
    <3> QED BY <1>5, <3>2 DEF Requests
  <2>2. q = remember_broker(c, k, t)
    BY <1>10
  <2> HIDE DEF c, q
  <2>3. /\ q \in Requests(t) /\ q.session = c.session /\ q.error = c.error
        /\ q.cookies.user = c.cookies.user /\ q.cookies.token = t
    BY <1>2, <2>0, <2>1, <2>2, Cookie
  <2>4. issued' = t /\ Keeps(b, k, {k} \union Involved(b))
    BY <1>1, <1>10, <2>3
  <2> HIDE DEF S
  <2> QED BY <1>1, <1>2, <1>5, <1>6, <1>7, <1>10, <2>0, <2>3, <2>4, Common, HandlerStep
<1> QED BY <1>8, <1>9, <1>10

\* A member comes back from a provider.
LEMMA ProviderSignInStep ==
    ASSUME SessionInv, NEW b \in Browsers, NEW m \in Members, ProviderSignIn(b, m)
    PROVE  SessionInv'
<1> DEFINE c == IF m \in Users THEN log_in_user(Request(b), m) ELSE log_in_broker(Request(b), m)
           q == IF m \in Users \ (Registered \cap accounts) THEN Raise(c) ELSE c
           S == (signed[b] \ Brokers) \union {m}
<1>1. /\ m \in accounts \union (Members \ used)
      /\ accounts' = accounts \union {m} /\ used' = used \union {m}
      /\ Respond(b, q, "none") /\ Signs(b, q, S) /\ Keeps(b, Nil, Involved(b))
      /\ issued' = issued /\ open' = open
  BY DEF ProviderSignIn
<1>2. /\ S \subseteq Members /\ m \in S
      /\ \A v \in {session[b].user, cookies[b].user} : v # Nil => v \in S
  <2>1. \A v \in {session[b].user, cookies[b].user} : v # Nil => v \in signed[b] /\ v \notin Brokers
    BY Common
  <2> QED BY <2>1, Common
<1>6. /\ c \in Requests(issued) /\ c.cookies.user = cookies[b].user
      /\ c.cookies.token \in {cookies[b].token, 0}
      /\ \/ c.error
         \/ /\ c.session.user \in {m, session[b].user, cookies[b].user}
            /\ \/ c.session.broker = m
               \/ c.session.broker \in {session[b].broker, Nil} /\ c.session.broker \notin accounts
  <2>1. CASE m \in Users
    BY <2>1, Common, LogInUser
  <2>2. CASE m \notin Users
    <3>1. m \in Brokers
      BY <2>2 DEF Members
    <3> QED BY <2>2, <3>1, Common, LogInBroker
  <2> QED BY <2>1, <2>2
<1> HIDE DEF c
<1>3. /\ q \in Requests(issued) /\ q.cookies.user = cookies[b].user
      /\ q.cookies.token \in {cookies[b].token, 0}
      /\ \/ q.error
         \/ /\ q.session.user \in {m, session[b].user, cookies[b].user}
            /\ \/ q.session.broker = m
               \/ q.session.broker \in {session[b].broker, Nil} /\ q.session.broker \notin accounts
  <2>1. /\ Raise(c) \in Requests(issued) /\ Raise(c).error
        /\ Raise(c).cookies = c.cookies
    BY <1>6 DEF Raise, Requests
  <2> QED BY <1>6, <2>1
<1>4. /\ used \subseteq used' /\ used' \subseteq Members /\ accounts' \subseteq used'
      /\ \A n \in used : n \in accounts' => n \in accounts
  BY <1>1, Common
<1> HIDE DEF q, S
<1>5. \/ q.error
      \/ /\ q.session.user # Nil => q.session.user \in S
         /\ q.session.broker \in accounts' => q.session.broker \in S
         /\ q.session.broker \in used' \union {Nil}
         /\ q.cookies.user # Nil => q.cookies.user \in S
  BY <1>1, <1>2, <1>3, Common
<1> QED BY <1>1, <1>2, <1>3, <1>4, <1>5, Common, HandlerStep

\* A user signs up.
LEMMA UserSignupStep ==
    ASSUME SessionInv, NEW b \in Browsers, NEW u \in Users, UserSignup(b, u)
    PROVE  SessionInv'
<1> DEFINE q == user_log_in(Request(b), u)
           S == (signed[b] \ Brokers) \union {u}
<1>1. /\ u \in Users \ used
      /\ accounts' = accounts \union {u} /\ used' = used \union {u}
      /\ Respond(b, q, "none") /\ Signs(b, q, S) /\ Keeps(b, Nil, {})
      /\ issued' = issued /\ open' = open
  BY DEF UserSignup
<1>2. /\ S \subseteq Members /\ u \in S /\ (cookies[b].user # Nil => cookies[b].user \in S)
  <2>1. cookies[b].user # Nil => cookies[b].user \in signed[b] /\ cookies[b].user \notin Brokers
    BY Common
  <2> QED BY <2>1, Common DEF Members
<1>3. /\ q \in Requests(issued) /\ q.cookies = cookies[b]
      /\ \/ q.error
         \/ /\ q.session.user = u /\ q.session.broker = session[b].broker
            /\ q.session.broker \notin accounts
  BY Common, UserLogIn
<1>4. /\ used \subseteq used' /\ used' \subseteq Members /\ accounts' \subseteq used'
      /\ \A n \in used : n \in accounts' => n \in accounts
  BY <1>1, Common DEF Members
<1> HIDE DEF q, S
<1>5. \/ q.error
      \/ /\ q.session.user # Nil => q.session.user \in S
         /\ q.session.broker \in accounts' => q.session.broker \in S
         /\ q.session.broker \in used' \union {Nil}
         /\ q.cookies.user # Nil => q.cookies.user \in S
  BY <1>1, <1>2, <1>3, Common
<1> QED BY <1>1, <1>2, <1>3, <1>4, <1>5, Common, HandlerStep

\* A broker signs up.
LEMMA BrokerSignupStep ==
    ASSUME SessionInv, NEW b \in Browsers, NEW k \in Brokers, BrokerSignup(b, k)
    PROVE  SessionInv'
<1> DEFINE c == current_broker(Request(b))
           q == [c EXCEPT !.session.broker = k]
           S == (signed[b] \ Brokers) \union {k}
<1>1. /\ k \in Brokers \ used
      /\ \/ c.error /\ UNCHANGED <<accounts, used>>
         \/ ~c.error /\ accounts' = accounts \union {k} /\ used' = used \union {k}
      /\ Respond(b, q, "none") /\ Signs(b, c, S) /\ Keeps(b, Nil, {})
      /\ issued' = issued /\ open' = open
  BY DEF BrokerSignup
<1>2. /\ S \subseteq Members /\ k \in S
      /\ \A v \in {session[b].user, cookies[b].user} : v # Nil => v \in S
  <2>1. \A v \in {session[b].user, cookies[b].user} : v # Nil => v \in signed[b] /\ v \notin Brokers
    BY Common
  <2> QED BY <2>1, Common DEF Members
<1>3. c \in Requests(issued) /\ c.session = session[b] /\ c.cookies = cookies[b]
  BY Common, CurrentBroker
<1> HIDE DEF c
<1>4. q = [session |-> [user |-> c.session.user, broker |-> k],
           cookies |-> c.cookies, digest |-> c.digest, error |-> c.error]
  BY <1>3 DEF Requests, Sessions
<1>5. q \in Requests(issued)
  BY <1>3, <1>4 DEF Requests, Sessions
<1>6. /\ used \subseteq used' /\ used' \subseteq Members /\ accounts' \subseteq used'
      /\ \A n \in used : n \in accounts' => n \in accounts
  BY <1>1, Common DEF Members
<1>7. /\ q.cookies = cookies[b] /\ q.session.user = session[b].user /\ q.session.broker = k
      /\ q.error = c.error
  BY <1>3, <1>4
<1> HIDE DEF q, S
<1>8. Signs(b, q, S)
  BY <1>1, <1>7 DEF Signs
<1>9. q.error \/ k \in used'
  BY <1>1, <1>7
<1> QED BY <1>1, <1>2, <1>5, <1>6, <1>7, <1>8, <1>9, Common, HandlerStep

\* A user signs out.
LEMMA UserLogoutStep ==
    ASSUME SessionInv, NEW b \in Browsers, UserLogout(b)
    PROVE  SessionInv'
<1> DEFINE c == current_user(Request(b))
           q == IF c.error \/ ~user_logged_in(c) THEN c ELSE user_log_out(c)
           S == IF user_logged_in(c) THEN signed[b] \ Users ELSE signed[b]
<1>1. /\ Respond(b, q, "none") /\ Signs(b, q, S)
      /\ Keeps(b, Nil, {c.session.user} \union Involved(b))
      /\ UNCHANGED <<accounts, used, issued, open>>
  BY DEF UserLogout
<1>2. /\ c \in Requests(issued) /\ c.cookies.user = cookies[b].user
      /\ c.cookies.token \in {cookies[b].token, 0}
      /\ c.session.broker \in {session[b].broker, Nil}
      /\ c.error \/ c.session.user \in {session[b].user, cookies[b].user}
  BY Common, CurrentUser
<1>3. S \subseteq Members
  BY Common
<1>4. session[b].broker \in accounts => session[b].broker \in S
  <2>1. session[b].broker \notin Users
    BY Common, SessionAssumption DEF Members
  <2> QED BY <2>1, Common
<1>5. CASE c.error
  <2>1. q = c
    BY <1>5
  <2> HIDE DEF q, S, c
  <2> QED BY <1>1, <1>2, <1>3, <1>5, <2>1, Common, HandlerStep
<1>6. CASE ~c.error /\ ~user_logged_in(c)
  <2>1. q = c /\ S = signed[b]
    BY <1>6
  <2> HIDE DEF q, S, c
  <2> QED BY <1>1, <1>2, <1>3, <1>6, <2>1, Common, HandlerStep
<1>7. CASE ~c.error /\ user_logged_in(c)
  <2>1. q = user_log_out(c)
    BY <1>7
  <2>2. /\ q \in Requests(issued) /\ q.session.user = Nil
        /\ q.session.broker \in {session[b].broker, Nil}
        /\ q.cookies.user = Nil /\ q.cookies.token = 0
    <3> HIDE DEF c, q
    <3> QED BY <1>2, <2>1, Common, UserLogOut
  <2> HIDE DEF q, S, c
  <2> QED BY <1>1, <1>3, <1>4, <2>2, Common, HandlerStep
<1> QED BY <1>5, <1>6, <1>7

\* A broker signs out.
LEMMA BrokerLogoutStep ==
    ASSUME SessionInv, NEW b \in Browsers, BrokerLogout(b)
    PROVE  SessionInv'
<1> DEFINE c == current_broker(Request(b))
           q == IF c.error \/ ~broker_logged_in(c) THEN c ELSE log_out_broker(c)
           S == IF broker_logged_in(c) THEN signed[b] \ Brokers ELSE signed[b]
<1>1. /\ Respond(b, q, "none") /\ Signs(b, q, S) /\ Keeps(b, Nil, Involved(b))
      /\ UNCHANGED <<accounts, used, issued, open>>
  BY DEF BrokerLogout
<1>2. c \in Requests(issued) /\ c.session = session[b] /\ c.cookies = cookies[b]
  BY Common, CurrentBroker
<1>3. S \subseteq Members
  BY Common
<1>4. \A v \in {session[b].user, cookies[b].user} : v # Nil => v \in S
  <2>1. \A v \in {session[b].user, cookies[b].user} : v # Nil => v \in signed[b] /\ v \notin Brokers
    BY Common
  <2> QED BY <2>1
<1>5. CASE c.error \/ ~broker_logged_in(c)
  <2>1. q = c /\ (c.error \/ session[b].broker \notin accounts)
    BY <1>2, <1>5 DEF broker_logged_in
  <2> HIDE DEF q, S, c
  <2> QED BY <1>1, <1>2, <1>3, <1>4, <2>1, Common, HandlerStep
<1>6. CASE ~c.error /\ broker_logged_in(c)
  <2>1. q = log_out_broker(c)
    BY <1>6
  <2>2. /\ q \in Requests(issued) /\ q.session.user = session[b].user
        /\ q.session.broker = Nil
        /\ q.cookies.user = cookies[b].user /\ q.cookies.token = 0
    <3> HIDE DEF c, q
    <3> QED BY <1>2, <2>1, Common, LogOutBroker
  <2> HIDE DEF q, S, c
  <2> QED BY <1>1, <1>3, <1>4, <2>2, Common, HandlerStep
<1> QED BY <1>5, <1>6

\* Closing the browser and removing a profile.
LEMMA OtherStep ==
    ASSUME SessionInv, NEW b \in Browsers,
           \/ CloseBrowser(b)
           \/ \E k \in Brokers : RemoveBroker(b, k)
           \/ \E u \in Users : RemoveUser(b, u)
    PROVE  SessionInv'
<1>1. TypeOK /\ SignedInv /\ TokenInv
  BY DEF SessionInv
<1> DEFINE Effect ==
             /\ cookies' = cookies /\ signed' = signed /\ issued' = issued /\ used' = used
             /\ digest' = digest /\ accounts' \subseteq accounts
             /\ \A c \in Browsers : answer'[c] \in {answer[c], "none", "error"}
             /\ \A c \in Browsers : session'[c] \in {session[c], [user |-> Nil, broker |-> Nil]}
             /\ session' \in [Browsers -> Sessions]
             /\ answer' \in [Browsers -> Members \union {"none", "guest", "error"}]
             /\ open' \in SUBSET Browsers
             /\ kept' \in [Browsers -> Members \union {Nil}]
<1>2. Effect
  <2>1. CASE CloseBrowser(b)
    <3>1. [user |-> Nil, broker |-> Nil] \in Sessions
      BY DEF Sessions
    <3> QED BY <1>1, <2>1, <3>1 DEF CloseBrowser, TypeOK
  <2>2. ASSUME NEW k \in Brokers, RemoveBroker(b, k)
        PROVE  Effect
    <3>1. PICK who \in Members \union {Nil} : Keeps(b, who, {k})
      BY <1>1, <2>2 DEF RemoveBroker, TypeOK
    <3>2. kept' \in [Browsers -> Members \union {Nil}]
      BY <1>1, <3>1, HistoryType
    <3> QED BY <1>1, <2>2, <3>2 DEF RemoveBroker, TypeOK
  <2>3. ASSUME NEW u \in Users, RemoveUser(b, u)
        PROVE  Effect
    BY <1>1, <2>3 DEF RemoveUser, TypeOK
  <2> QED BY <2>1, <2>2, <2>3
<1>3. TypeOK'
  BY <1>1, <1>2 DEF TypeOK
<1>4. TokenInv'
  BY <1>1, <1>2 DEF TokenInv
<1>5. Nil \notin accounts /\ "none" \notin Members /\ "error" \notin Members
  BY Common, SessionAssumption
<1>6. SignedInv'
  BY <1>1, <1>2, <1>5 DEF SignedInv
<1> QED BY <1>3, <1>4, <1>6 DEF SessionInv

-----------------------------------------------------------------------------
\* Every handler keeps the invariant.
LEMMA SessionStep == SessionInv /\ [Next]_vars => SessionInv'
<1> SUFFICES ASSUME SessionInv, [Next]_vars
             PROVE  SessionInv'
  OBVIOUS
<1>1. CASE Next
  BY <1>1, VisitStep, UserLoginStep, BrokerLoginStep, ProviderSignInStep, UserSignupStep,
     BrokerSignupStep, UserLogoutStep, BrokerLogoutStep, OtherStep DEF Next
<1>2. CASE UNCHANGED vars
  BY <1>2 DEF vars, SessionInv, TypeOK, SignedInv, TokenInv
<1> QED BY <1>1, <1>2

\* The invariant holds in the empty browsers of the beginning.
LEMMA SessionInit == Init => SessionInv
<1> SUFFICES ASSUME Init
             PROVE  SessionInv
  OBVIOUS
<1>1. 0 \in Tokens /\ 0 \in 0..0 /\ "none" \notin Members /\ Founders \subseteq Members
  BY SessionAssumption DEF Tokens
<1>2. /\ [user |-> Nil, broker |-> Nil] \in Sessions
      /\ [user |-> Nil, broker |-> Nil, token |-> 0] \in Cookies
  BY <1>1 DEF Sessions, Cookies
<1>3. TypeOK
  BY <1>1, <1>2 DEF Init, TypeOK
<1>4. Nil \notin Members
  BY SessionAssumption
<1>5. SignedInv
  BY <1>1, <1>4 DEF Init, SignedInv
<1>6. TokenInv
  BY DEF Init, TokenInv
<1> QED BY <1>3, <1>5, <1>6 DEF SessionInv

LEMMA SessionInvariant == Spec => []SessionInv
BY SessionInit, SessionStep, PTL DEF Spec

\* The session, the cookies and the digests of SessionsHelper are well typed, and no
\* digest is of a token that was not drawn.
THEOREM SessionTypeCorrect == Spec => []TypeOK
<1>1. SessionInv => TypeOK
  BY DEF SessionInv
<1> QED BY <1>1, SessionInvariant, PTL

\* No page greets a member who did not sign in at that browser or signed out since
\* (SessionsHelper#current_user, #user_log_out, #log_out).
THEOREM GreetsSignedIn == Spec => []GreetsOnlySignedIn
<1>1. SessionInv => GreetsOnlySignedIn
  BY DEF SessionInv, SignedInv, GreetsOnlySignedIn
<1> QED BY <1>1, SessionInvariant, PTL

\* Two browsers never have a valid remember token of the same user
\* (User#remember, User#authenticated?).
THEOREM OneBrowserRemembered == Spec => []OneRememberedBrowser
<1>1. SessionInv => OneRememberedBrowser
  <2> SUFFICES ASSUME SessionInv, NEW b \in Browsers, NEW c \in Browsers, NEW u \in Users,
                      authenticated(Request(b), u), authenticated(Request(c), u)
               PROVE  b = c
    BY DEF OneRememberedBrowser
  <2>1. cookies[b].token # 0 /\ cookies[b].token = cookies[c].token
    BY DEF authenticated, Request
  <2> QED BY <2>1 DEF SessionInv, TokenInv
<1> QED BY <1>1, SessionInvariant, PTL
-----------------------------------------------------------------------------
(***************************************************************************)
(* "Keep me logged in" of a user.  The browser that keeps him has his      *)
(* cookie, its token is the one the database has the digest of, and nobody *)
(* else is logged in there: any page either finds him in the session or    *)
(* brings him back.  The digest of a user changes only where he signs in   *)
(* or out, and there he is not kept by another browser any more.           *)
(***************************************************************************)
KeptAt(b) ==
    kept[b] \in Users =>
       /\ kept[b] \in accounts
       /\ session[b].user \in {kept[b], Nil}
       /\ session[b].broker \notin accounts
       /\ cookies[b].user = kept[b]
       /\ cookies[b].token = digest[kept[b]]
       /\ cookies[b].token # 0
       /\ answer[b] \in {kept[b], "none", "error"}

KeptInv == \A b \in Browsers : KeptAt(b)

\* A browser that a step does not concern, when it leaves the digest of its user.
LEMMA KeptElsewhere ==
    ASSUME SessionInv, NEW c \in Browsers, KeptAt(c),
           session'[c] = session[c], cookies'[c] = cookies[c], answer'[c] = answer[c],
           kept'[c] \in {kept[c], Nil},
           kept'[c] \in Users => digest'[kept[c]] = digest[kept[c]],
           \A n \in Users : n \in accounts => n \in accounts',
           \A n \in used : n \in accounts' => n \in accounts,
           accounts' \subseteq Members
    PROVE  KeptAt(c)'
<1> SUFFICES ASSUME kept'[c] \in Users
             PROVE  KeptAt(c)'
  BY DEF KeptAt
<1>1. Nil \notin Members /\ session[c].broker \in used \union {Nil}
  BY Common
<1>2. kept'[c] = kept[c]
  BY <1>1 DEF Members
<1>3. session[c].broker \notin accounts'
  BY <1>1, <1>2 DEF KeptAt
<1> QED BY <1>2, <1>3 DEF KeptAt

\* A handler: it ends the keeping at its browser, or begins it with the cookie it sends.
LEMMA KeptHandler ==
    ASSUME SessionInv, KeptInv, NEW b \in Browsers, NEW q, NEW who, NEW gone,
           Respond(b, q, "none"), Keeps(b, who, gone),
           \A v \in Users \ gone : q.digest[v] = digest[v],
           accounts \subseteq accounts', accounts' \subseteq Members,
           \A n \in used : n \in accounts' => n \in accounts,
           who \in Users =>
             /\ ~q.error /\ who \in accounts
             /\ q.session.user = who /\ q.session.broker \notin accounts'
             /\ q.cookies.user = who /\ q.cookies.token = q.digest[who]
             /\ q.cookies.token # 0
    PROVE  KeptInv'
<1>1. TypeOK
  BY DEF SessionInv
<1>2. ASSUME NEW c \in Browsers, c # b
      PROVE  KeptAt(c)'
  <2>1. KeptAt(c)
    BY DEF KeptInv
  <2>2. session'[c] = session[c] /\ cookies'[c] = cookies[c] /\ answer'[c] = answer[c]
    BY <1>1, <1>2 DEF Respond, TypeOK
  <2>3. kept'[c] = IF kept[c] \in gone THEN Nil ELSE kept[c]
    BY <1>2 DEF Keeps
  <2>4. Nil \notin Users
    BY SessionAssumption DEF Members
  <2>5. kept'[c] \in Users => digest'[kept[c]] = digest[kept[c]]
    BY <2>3, <2>4 DEF Respond
  <2> QED BY <2>1, <2>2, <2>3, <2>5, KeptElsewhere
<1>3. KeptAt(b)'
  <2> SUFFICES ASSUME kept'[b] \in Users
               PROVE  KeptAt(b)'
    BY DEF KeptAt
  <2>1. kept'[b] = who
    BY DEF Keeps
  <2>2. /\ session'[b] = q.session /\ cookies'[b] = q.cookies /\ digest' = q.digest
        /\ answer'[b] = "none"
    BY <1>1, <2>1 DEF Respond, TypeOK
  <2> QED BY <2>1, <2>2 DEF KeptAt
<1> QED BY <1>2, <1>3 DEF KeptInv

\* Looking at a page: the user is in the session, or his cookie brings him back.
LEMMA KeptVisit ==
    ASSUME SessionInv, KeptInv, NEW b \in Browsers, NEW brokerPage \in BOOLEAN,
           Visit(b, brokerPage)
    PROVE  KeptInv'
<1> DEFINE first == Request(b)
           asked == IF brokerPage THEN current_broker(first) ELSE first
           c == current_user(asked)
           q == IF asked.error THEN asked ELSE Layout(asked)
<1>0. TypeOK
  BY DEF SessionInv
<1>1. /\ asked \in Requests(issued) /\ asked.session = session[b] /\ asked.cookies = cookies[b]
      /\ asked.digest = digest
  BY Common, CurrentBroker DEF Request
<1>2. c \in Requests(issued) /\ SameUsers(asked, c)
  BY <1>1, Common, CurrentUser
<1>3. q \in {asked, c, current_broker(c)}
  BY DEF Layout
<1>4. \/ brokerPage /\ Respond(b, asked, "none") /\ ~asked.error
      \/ /\ Respond(b, q, Greeted(q))
         /\ asked.error \/ ~brokerPage \/ session[b].broker \in accounts
  BY <1>1 DEF Visit, broker_logged_in
<1>5. accounts' = accounts /\ used' = used /\ kept' = kept
  BY DEF Visit
<1>6. \A v \in Users : asked.digest[v] = digest[v] /\ q.digest[v] = digest[v]
  <2>1. current_broker(c).digest = c.digest
    BY <1>2, Common, CurrentBroker
  <2> HIDE DEF asked, c, q
  <2> QED BY <1>1, <1>2, <1>3, <2>1 DEF SameUsers
<1>7. PICK r, whom : Respond(b, r, whom) /\ \A v \in Users : r.digest[v] = digest[v]
  <2> HIDE DEF asked, c, q
  <2> QED BY <1>4, <1>6
<1>8. \A v \in Users : digest'[v] = digest[v]
  BY <1>7 DEF Respond
<1>9. ASSUME NEW d \in Browsers, d # b
      PROVE  KeptAt(d)'
  <2>1. KeptAt(d)
    BY DEF KeptInv
  <2>2. session'[d] = session[d] /\ cookies'[d] = cookies[d] /\ answer'[d] = answer[d]
    BY <1>0, <1>7, <1>9 DEF Respond, TypeOK
  <2>3. accounts' \subseteq Members
    BY <1>5, Common
  <2> QED BY <1>5, <1>8, <2>1, <2>2, <2>3, KeptElsewhere
<1>10. KeptAt(b)'
  <2> SUFFICES ASSUME kept[b] \in Users
               PROVE  KeptAt(b)'
    BY <1>5 DEF KeptAt
  <2>1. /\ kept[b] \in accounts /\ session[b].user \in {kept[b], Nil}
        /\ session[b].broker \notin accounts /\ cookies[b].user = kept[b]
        /\ cookies[b].token = digest[kept[b]] /\ cookies[b].token # 0
    BY DEF KeptInv, KeptAt
  <2>2. CASE asked.error
    <3>1. Respond(b, asked, "none") \/ Respond(b, asked, Greeted(asked))
      BY <1>4, <2>2
    <3> HIDE DEF asked, c, q
    <3>2. session' = session /\ cookies' = cookies /\ answer'[b] = "error"
      BY <1>0, <2>2, <3>1 DEF Respond, TypeOK
    <3> QED BY <1>5, <1>8, <2>1, <3>2 DEF KeptAt
  <2>3. CASE ~asked.error /\ brokerPage
    <3>1. Respond(b, asked, "none")
      BY <1>4, <2>1, <2>3
    <3> HIDE DEF asked, c, q
    <3>2. /\ session'[b] = session[b] /\ cookies'[b] = cookies[b] /\ answer'[b] = "none"
      BY <1>0, <1>1, <2>3, <3>1 DEF Respond, TypeOK
    <3> QED BY <1>5, <1>8, <2>1, <3>2 DEF KeptAt
  <2>4. CASE ~asked.error /\ ~brokerPage
    <3>1. Respond(b, q, Greeted(q))
      BY <1>4, <2>4
    <3>2. \/ c.error
          \/ /\ c.session.user = kept[b] /\ c.session.broker \notin accounts
             /\ c.cookies = cookies[b]
      <4>1. CASE session[b].user = kept[b]
        <5>1. asked.session.user # Nil
          BY <1>1, <2>1, <4>1, Common
        <5>2. c = asked
          BY <5>1 DEF current_user
        <5> HIDE DEF asked, c, q
        <5> QED BY <1>1, <2>1, <4>1, <5>2
      <4>2. CASE session[b].user = Nil
        <5>1. /\ asked.session.user = Nil /\ asked.cookies.user \in accounts
              /\ authenticated(asked, asked.cookies.user)
          BY <1>1, <2>1, <4>2 DEF authenticated
        <5>2. c = log_in_user(asked, kept[b])
          BY <1>1, <2>1, <5>1 DEF current_user
        <5> HIDE DEF asked, c, q
        <5> QED BY <1>1, <2>1, <5>2, Common, LogInUser
      <4> QED BY <2>1, <4>1, <4>2
    <3>3. c.error \/ user_logged_in(c)
      BY <2>1, <3>2 DEF user_logged_in
    <3>4. q = c
      BY <2>4, <3>3 DEF Layout
    <3> HIDE DEF asked, c, q
    <3>5. CASE c.error
      <4>1. session' = session /\ cookies' = cookies /\ answer'[b] = "error"
        BY <1>0, <3>1, <3>4, <3>5 DEF Respond, TypeOK
      <4> QED BY <1>5, <1>8, <2>1, <4>1 DEF KeptAt
    <3>6. CASE ~c.error
      <4>1. Greeted(c) = kept[b]
        BY <2>1, <3>2, <3>3, <3>6 DEF Greeted
      <4>2. /\ session'[b] = c.session /\ cookies'[b] = c.cookies /\ answer'[b] = kept[b]
        BY <1>0, <3>1, <3>4, <3>6, <4>1 DEF Respond, TypeOK
      <4> QED BY <1>5, <1>8, <2>1, <3>2, <3>6, <4>2 DEF KeptAt
    <3> QED BY <3>5, <3>6
  <2> QED BY <2>2, <2>3, <2>4
<1> QED BY <1>9, <1>10 DEF KeptInv
\* A user signs in: his digest is new, and no other browser keeps him.
LEMMA KeptUserLogin ==
    ASSUME SessionInv, KeptInv, NEW b \in Browsers, NEW u \in Users, NEW remember \in BOOLEAN,
           UserLogin(b, u, remember)
    PROVE  KeptInv'
<1> DEFINE t == issued + 1
           c == user_log_in(Request(b), u)
           q == IF c.error THEN c
                ELSE IF remember THEN user_remember(c, u, t) ELSE user_forget(c, u)
<1>1. /\ u \in accounts /\ (remember => issued < MaxTokens)
      /\ Respond(b, q, "none")
      /\ Keeps(b, IF remember /\ ~q.error THEN u ELSE Nil, {u})
      /\ UNCHANGED <<accounts, used, open>>
  BY DEF UserLogin
<1>2. u \in Members /\ Nil \notin Users /\ accounts' \subseteq Members
  BY <1>1, Common DEF Members
<1>3. /\ c \in Requests(issued) /\ c.digest = digest
      /\ \/ c.error
         \/ c.session.user = u /\ c.session.broker \notin accounts
  BY Common, UserLogIn DEF Request
<1>4. CASE c.error
  <2>1. q = c /\ Keeps(b, Nil, {u})
    BY <1>1, <1>4
  <2> HIDE DEF q, c
  <2> QED BY <1>1, <1>2, <1>3, <2>1, KeptHandler
<1>5. CASE ~c.error /\ ~remember
  <2>1. q = user_forget(c, u) /\ Keeps(b, Nil, {u})
    BY <1>1, <1>5
  <2> HIDE DEF q, c
  <2>2. SameButOf(c, q, u)
    BY <1>3, <2>1, Common, UserForget
  <2>3. \A v \in Users \ {u} : q.digest[v] = digest[v]
    BY <1>3, <2>2 DEF SameButOf
  <2> QED BY <1>1, <1>2, <2>1, <2>3, KeptHandler
<1>6. CASE ~c.error /\ remember
  <2>0. t \in Nat /\ t <= MaxTokens /\ t \in 0..t /\ t # 0 /\ 0..issued \subseteq 0..t
    BY <1>1, <1>6, Common, SessionAssumption
  <2>1. c \in Requests(t)
    <3>1. c.digest \in [Members -> 0..issued]
      BY <1>3 DEF Requests
    <3>2. c.digest \in [Members -> 0..t]
      BY <2>0, <3>1
    <3> QED BY <1>3, <3>2 DEF Requests
  <2>2. q = user_remember(c, u, t)
    BY <1>6
  <2> HIDE DEF q, c
  <2>3. /\ q.session = c.session /\ q.error = c.error
        /\ q.cookies.user = u /\ q.cookies.token = t
        /\ q.digest[u] = t /\ SameButOf(c, q, u)
    BY <1>2, <2>0, <2>1, <2>2, Cookie
  <2>4. Keeps(b, u, {u})
    BY <1>1, <1>6, <2>3
  <2>5. \A v \in Users \ {u} : q.digest[v] = digest[v]
    BY <1>3, <2>3 DEF SameButOf
  <2> HIDE DEF t
  <2> QED BY <1>1, <1>2, <1>3, <1>6, <2>0, <2>3, <2>4, <2>5, KeptHandler
<1> QED BY <1>4, <1>5, <1>6

\* A broker signs in: he, or nobody, is kept at his browser.
LEMMA KeptBrokerLogin ==
    ASSUME SessionInv, KeptInv, NEW b \in Browsers, NEW k \in Brokers, NEW remember \in BOOLEAN,
           BrokerLogin(b, k, remember)
    PROVE  KeptInv'
<1> DEFINE t == issued + 1
           a == current_broker(Request(b))
           d == log_out_current_broker(a)
           c == IF d.error THEN d ELSE log_in_broker(d, k)
           f == [log_out_broker(c) EXCEPT !.session = c.session]
           q == IF c.error \/ k \notin Registered THEN c
                ELSE IF remember THEN remember_broker(c, k, t) ELSE f
           keeps == remember /\ ~q.error /\ k \in Registered
<1>1. /\ k \in accounts /\ (remember => issued < MaxTokens)
      /\ Respond(b, q, "none")
      /\ Keeps(b, IF keeps THEN k ELSE Nil, {k} \union Involved(b))
      /\ UNCHANGED <<accounts, used, open>>
  BY DEF BrokerLogin
<1>2. k \in Members /\ k \notin Users /\ Nil \notin Users /\ accounts' \subseteq Members
  BY <1>1, Common, SessionAssumption DEF Members
<1>3. a \in Requests(issued) /\ a.digest = digest
  BY Common, CurrentBroker DEF Request
<1> HIDE DEF a
<1>4. d \in Requests(issued) /\ SameUsers(a, d)
  BY <1>3, Common, LogOutCurrentBroker
<1> HIDE DEF d
<1>5. c \in Requests(issued) /\ (c = d \/ SameUsers(d, c))
  BY <1>4, Common, LogInBroker
<1> HIDE DEF c
<1>6. SameUsers(c, q) \/ q = c
  <2>1. CASE q = f
    <3>1. log_out_broker(c) \in Requests(issued) /\ SameUsers(c, log_out_broker(c))
      BY <1>5, Common, LogOutBroker
    <3>2. f.digest = log_out_broker(c).digest
      BY <3>1 DEF Requests
    <3> HIDE DEF f, q
    <3> QED BY <2>1, <3>1, <3>2 DEF SameUsers
  <2>2. CASE remember /\ q = remember_broker(c, k, t)
    <3>0. t \in Nat /\ t <= MaxTokens /\ t \in 0..t /\ 0..issued \subseteq 0..t
      BY <1>1, <2>2, Common, SessionAssumption
    <3>1. c \in Requests(t)
      <4>1. c.digest \in [Members -> 0..issued]
        BY <1>5 DEF Requests
      <4>2. c.digest \in [Members -> 0..t]
        BY <3>0, <4>1
      <4> QED BY <1>5, <4>2 DEF Requests
    <3> HIDE DEF q, t
    <3> QED BY <1>2, <2>2, <3>0, <3>1, Cookie
  <2> QED BY <2>1, <2>2
<1> HIDE DEF q, keeps
<1>7. \A v \in Users : q.digest[v] = digest[v]
  BY <1>3, <1>4, <1>5, <1>6 DEF SameUsers
<1>8. PICK who \in {k, Nil} : Keeps(b, who, {k} \union Involved(b))
  BY <1>1
<1> QED BY <1>1, <1>2, <1>7, <1>8, KeptHandler

\* Coming back from a provider, signing up and signing out of a broker: nobody is kept.
LEMMA KeptOtherHandlers ==
    ASSUME SessionInv, KeptInv, NEW b \in Browsers,
           \/ \E m \in Members : ProviderSignIn(b, m)
           \/ \E u \in Users : UserSignup(b, u)
           \/ \E k \in Brokers : BrokerSignup(b, k)
           \/ BrokerLogout(b)
    PROVE  KeptInv'
<1>0. Nil \notin Users /\ accounts \subseteq Members /\ Request(b).digest = digest
  BY Common DEF Members, Request
<1>1. ASSUME NEW m \in Members, ProviderSignIn(b, m)
      PROVE  KeptInv'
  <2> DEFINE c == IF m \in Users THEN log_in_user(Request(b), m) ELSE log_in_broker(Request(b), m)
             q == IF m \in Users \ (Registered \cap accounts) THEN Raise(c) ELSE c
  <2>1. /\ m \in accounts \union (Members \ used) /\ accounts' = accounts \union {m}
        /\ Respond(b, q, "none") /\ Keeps(b, Nil, Involved(b))
    BY <1>1 DEF ProviderSignIn
  <2>2. SameUsers(Request(b), c) /\ c \in Requests(issued)
    <3>1. CASE m \in Users
      BY <3>1, Common, LogInUser
    <3>2. CASE m \notin Users
      <4>1. m \in Brokers
        BY <3>2 DEF Members
      <4> QED BY <3>2, <4>1, Common, LogInBroker
    <3> QED BY <3>1, <3>2
  <2> HIDE DEF c
  <2>4. q.digest = c.digest
    BY <2>2 DEF Raise, Requests
  <2> HIDE DEF q
  <2>3. \A v \in Users : q.digest[v] = digest[v]
    BY <1>0, <2>2, <2>4 DEF SameUsers
  <2> QED BY <1>0, <2>1, <2>3, KeptHandler
<1>2. ASSUME NEW u \in Users, UserSignup(b, u)
      PROVE  KeptInv'
  <2> DEFINE q == user_log_in(Request(b), u)
  <2>1. /\ u \in Users \ used /\ accounts' = accounts \union {u}
        /\ Respond(b, q, "none") /\ Keeps(b, Nil, {})
    BY <1>2 DEF UserSignup
  <2>2. q.digest = digest
    BY <1>0, Common, UserLogIn
  <2>3. accounts' \subseteq Members
    BY <1>0, <2>1 DEF Members
  <2> HIDE DEF q
  <2> QED BY <1>0, <2>1, <2>2, <2>3, KeptHandler
<1>3. ASSUME NEW k \in Brokers, BrokerSignup(b, k)
      PROVE  KeptInv'
  <2> DEFINE c == current_broker(Request(b))
             q == [c EXCEPT !.session.broker = k]
  <2>1. /\ k \in Brokers \ used /\ accounts' \in {accounts, accounts \union {k}}
        /\ Respond(b, q, "none") /\ Keeps(b, Nil, {})
    BY <1>3 DEF BrokerSignup
  <2>2. c \in Requests(issued) /\ c.digest = digest
    BY <1>0, Common, CurrentBroker
  <2> HIDE DEF c
  <2>3. q.digest = digest
    BY <2>2 DEF Requests
  <2>4. accounts' \subseteq Members
    BY <1>0, <2>1 DEF Members
  <2> HIDE DEF q
  <2> QED BY <1>0, <2>1, <2>3, <2>4, KeptHandler
<1>4. ASSUME BrokerLogout(b)
      PROVE  KeptInv'
  <2> DEFINE c == current_broker(Request(b))
             q == IF c.error \/ ~broker_logged_in(c) THEN c ELSE log_out_broker(c)
  <2>1. /\ accounts' = accounts
        /\ Respond(b, q, "none") /\ Keeps(b, Nil, Involved(b))
    BY <1>4 DEF BrokerLogout
  <2>2. c \in Requests(issued) /\ c.digest = digest
    BY <1>0, Common, CurrentBroker
  <2> HIDE DEF c
  <2>3. SameUsers(c, log_out_broker(c))
    BY <2>2, Common, LogOutBroker
  <2>4. \A v \in Users : q.digest[v] = digest[v]
    BY <2>2, <2>3 DEF SameUsers
  <2> HIDE DEF q
  <2> QED BY <1>0, <2>1, <2>4, KeptHandler
<1> QED BY <1>1, <1>2, <1>3, <1>4

\* A user signs out: his digest goes, and no browser keeps him.
LEMMA KeptUserLogout ==
    ASSUME SessionInv, KeptInv, NEW b \in Browsers, UserLogout(b)
    PROVE  KeptInv'
<1> DEFINE c == current_user(Request(b))
           q == IF c.error \/ ~user_logged_in(c) THEN c ELSE user_log_out(c)
<1>0. Nil \notin Users /\ accounts \subseteq Members /\ Request(b).digest = digest
  BY Common DEF Members, Request
<1>1. /\ Respond(b, q, "none") /\ accounts' = accounts
      /\ Keeps(b, Nil, {c.session.user} \union Involved(b))
  BY DEF UserLogout
<1>2. c \in Requests(issued) /\ SameUsers(Request(b), c)
  BY Common, CurrentUser
<1> HIDE DEF c
<1>3. SameButOf(c, user_log_out(c), c.session.user)
  BY <1>2, Common, UserLogOut
<1>4. \A v \in Users \ {c.session.user} : q.digest[v] = digest[v]
  BY <1>0, <1>2, <1>3 DEF SameUsers, SameButOf
<1> HIDE DEF q
<1> QED BY <1>0, <1>1, <1>4, KeptHandler

\* Closing the browser, and removing a profile.
LEMMA KeptOther ==
    ASSUME SessionInv, KeptInv, NEW b \in Browsers,
           \/ CloseBrowser(b)
           \/ \E k \in Brokers : RemoveBroker(b, k)
           \/ \E u \in Users : RemoveUser(b, u)
    PROVE  KeptInv'
<1>0. TypeOK /\ Nil \notin Members /\ Users \cap Brokers = {}
  BY SessionAssumption DEF SessionInv
<1> SUFFICES ASSUME NEW c \in Browsers
             PROVE  KeptAt(c)'
  BY DEF KeptInv
<1>1. KeptAt(c) /\ accounts \subseteq Members
  BY Common DEF KeptInv
<1>2. CASE CloseBrowser(b)
  <2>1. /\ session'[c] \in {session[c], [user |-> Nil, broker |-> Nil]}
        /\ answer'[c] \in {answer[c], "none"}
        /\ UNCHANGED <<accounts, cookies, digest, kept>>
    BY <1>0, <1>2 DEF CloseBrowser, TypeOK
  <2> QED BY <1>0, <1>1, <2>1 DEF KeptAt
<1>3. ASSUME NEW k \in Brokers, RemoveBroker(b, k)
      PROVE  KeptAt(c)'
  <2>1. /\ accounts' = accounts \ {k} /\ k \notin Users
        /\ answer'[c] \in {answer[c], "none"}
        /\ UNCHANGED <<session, cookies, digest>>
    BY <1>0, <1>3 DEF RemoveBroker, TypeOK
  <2>2. kept'[c] \in {kept[c], Nil}
    BY <1>3 DEF RemoveBroker, Keeps
  <2>3. Nil \notin Users
    BY <1>0 DEF Members
  <2> QED BY <1>1, <2>1, <2>2, <2>3 DEF KeptAt
<1>4. ASSUME NEW u \in Users, RemoveUser(b, u)
      PROVE  KeptAt(c)'
  <2>1. /\ answer'[c] \in {answer[c], "error"}
        /\ UNCHANGED <<accounts, session, cookies, digest, kept>>
    BY <1>0, <1>4 DEF RemoveUser, TypeOK
  <2> QED BY <1>1, <2>1 DEF KeptAt
<1> QED BY <1>2, <1>3, <1>4

LEMMA KeptStep == SessionInv /\ KeptInv /\ [Next]_vars => KeptInv'
<1> SUFFICES ASSUME SessionInv, KeptInv, [Next]_vars
             PROVE  KeptInv'
  OBVIOUS
<1>1. CASE Next
  BY <1>1, KeptVisit, KeptUserLogin, KeptBrokerLogin, KeptOtherHandlers, KeptUserLogout,
     KeptOther DEF Next
<1>2. CASE UNCHANGED vars
  BY <1>2 DEF vars, KeptInv, KeptAt
<1> QED BY <1>1, <1>2

\* A user who asked to be remembered is never taken for a guest or for another member at
\* that browser until he signs in or out again, however the browsers' requests
\* interleave (SessionsHelper#current_user, #user_remember, User#authenticated?).
THEOREM UsersStayKept == Spec => []UsersKept
<1>1. Init => KeptInv
  BY SessionAssumption DEF Init, KeptInv, KeptAt, Members
<1>2. KeptInv => UsersKept
  BY DEF KeptInv, KeptAt, UsersKept
<1> QED BY <1>1, <1>2, KeptStep, SessionInvariant, PTL DEF Spec
=============================================================================

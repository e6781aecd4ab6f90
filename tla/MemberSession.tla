--------------------------- MODULE MemberSession ----------------------------
(***************************************************************************)
(* Who is logged in: SessionsHelper with the handlers that use it, that    *)
(* is signing in and out with a password, signing up, coming back from a   *)
(* provider, and removing the profile.  A browser keeps two things: the    *)
(* encrypted session, gone when it is closed, and the permanent cookies    *)
(* of "Keep me logged in".  The database keeps one digest for each member, *)
(* whatever the number of browsers.                                        *)
(*                                                                         *)
(* A handler is a composition of the helper's methods on a request: they   *)
(* change its session and cookies, which the response brings to the        *)
(* browser, and the digests, committed at once.  A handler that raises     *)
(* answers with the error page, without session and cookies; what it       *)
(* committed stays.  A browser sends one request at a time.                *)
(***************************************************************************)
EXTENDS Naturals

CONSTANTS
    Users, Brokers,     \* the rows there may ever be
    Administrators,     \* users.admin
    Registered,         \* setup_completed?, since the sign-up was answered
    Founders,           \* the members there are at first
    Browsers,
    Nil,                \* no id in a session or cookie
    MaxTokens           \* bound: remember tokens ever drawn

Members == Users \union Brokers

ASSUME SessionAssumption ==
    /\ Users \cap Brokers = {} /\ Nil \notin Members
    /\ Administrators \subseteq Users /\ Registered \subseteq Members
    /\ Founders \subseteq Members
    /\ MaxTokens \in Nat
    /\ Members \cap {"none", "guest", "error"} = {}

VARIABLES
    accounts,   \* the rows of users and brokers
    used,       \* the ids given so far
    session,    \* for each browser, session[:user_id] and session[:broker_id]
    cookies,    \* for each browser, the signed cookies user_id, broker_id and auth_token
    digest,     \* for each member the token of auth_token_digest, 0 for nil
    issued,     \* the tokens drawn so far
    open,       \* the browsers that hold a page of their session, with its form token
    answer,     \* for each browser whom the header of the last page greets
    signed,     \* history: for each browser, who signed in at it and did not sign out
    kept        \* history: for each browser, who asked last to be kept logged in

vars == <<accounts, used, session, cookies, digest, issued, open, answer, signed, kept>>

Tokens   == 0..MaxTokens
Sessions == [user : Users \union {Nil}, broker : Brokers \union {Nil}]
Cookies  == [user : Users \union {Nil}, broker : Brokers \union {Nil}, token : Tokens]

TypeOK ==
    /\ accounts \in SUBSET used
    /\ used \in SUBSET Members
    /\ session \in [Browsers -> Sessions]
    /\ cookies \in [Browsers -> Cookies]
    /\ issued \in Tokens
    /\ digest \in [Members -> 0..issued]
    /\ open \in SUBSET Browsers
    /\ answer \in [Browsers -> Members \union {"none", "guest", "error"}]
    /\ signed \in [Browsers -> SUBSET Members]
    /\ kept \in [Browsers -> Members \union {Nil}]

Init ==
    /\ accounts = Founders /\ used = Founders
    /\ session = [b \in Browsers |-> [user |-> Nil, broker |-> Nil]]
    /\ cookies = [b \in Browsers |-> [user |-> Nil, broker |-> Nil, token |-> 0]]
    /\ digest = [m \in Members |-> 0]
    /\ issued = 0
    /\ open = {}
    /\ answer = [b \in Browsers |-> "none"]
    /\ signed = [b \in Browsers |-> {}]
    /\ kept = [b \in Browsers |-> Nil]

-----------------------------------------------------------------------------
(***************************************************************************)
(* SessionsHelper: methods as operators on the request q.  Those of a      *)
(* broker and those of a user are written twice in the helper and differ.  *)
(***************************************************************************)
Request(b) == [session |-> session[b], cookies |-> cookies[b], digest |-> digest,
               error |-> FALSE]

Raise(q) == [q EXCEPT !.error = TRUE]

\* The id of a removed profile finds no row.
user_logged_in(q)   == q.session.user \in accounts
broker_logged_in(q) == q.session.broker \in accounts

\* The digest of a broker's token is made by `encrypt', and BCrypt refuses to read it.
current_broker(q) ==
    IF /\ q.session.broker = Nil
       /\ q.cookies.broker \in accounts
       /\ q.digest[q.cookies.broker] # 0
    THEN Raise(q) ELSE q

log_out_broker(q) ==
    [q EXCEPT !.digest = [@ EXCEPT ![q.session.broker] = 0],
              !.session.broker = Nil,
              !.cookies = [user |-> @.user, broker |-> Nil, token |-> 0]]

log_in_user(q, u) ==
    LET c == current_broker(q) IN
    IF c.error THEN c
    ELSE [(IF broker_logged_in(c) THEN log_out_broker(c) ELSE c) EXCEPT !.session.user = u]

authenticated(q, u) == q.digest[u] # 0 /\ q.digest[u] = q.cookies.token

current_user(q) ==
    IF /\ q.session.user = Nil
       /\ q.cookies.user \in accounts
       /\ authenticated(q, q.cookies.user)
    THEN log_in_user(q, q.cookies.user) ELSE q

\* `forget' of a user calls User#forget_token, which there is not.
log_in_broker(q, k) ==
    LET c == current_user(q) IN
    IF c.error \/ user_logged_in(c) THEN Raise(c) ELSE [c EXCEPT !.session.broker = k]

\* `user_log_in' of a broker's browser calls broker_log_out, which there is not.
user_log_in(q, u) ==
    LET c == current_broker(q) IN
    IF c.error \/ broker_logged_in(c) THEN Raise(c) ELSE [c EXCEPT !.session.user = u]

user_forget(q, u) ==
    [q EXCEPT !.digest = [@ EXCEPT ![u] = 0],
              !.cookies = [user |-> Nil, broker |-> @.broker, token |-> 0]]

user_log_out_session_first(q) ==    \* mutant
    LET c == current_user([q EXCEPT !.session.user = Nil]) IN
    IF c.error THEN c ELSE user_forget(c, q.session.user)

user_log_out_no_row(q) ==           \* mutant
    [user_forget(q, q.session.user) EXCEPT !.session.user = 0]

user_log_out(q) == [user_forget(q, q.session.user) EXCEPT !.session.user = Nil]

user_remember_cookie_only(q, u, t) ==   \* mutant
    [q EXCEPT !.cookies = [user |-> u, broker |-> @.broker, token |-> t]]

user_remember_again(q, u, t) ==     \* mutant
    LET s == IF q.digest[u] = 0 THEN t ELSE q.digest[u] IN
    [q EXCEPT !.digest = [@ EXCEPT ![u] = s],
              !.cookies = [user |-> u, broker |-> @.broker, token |-> s]]

user_remember(q, u, t) ==
    [q EXCEPT !.digest = [@ EXCEPT ![u] = t],
              !.cookies = [user |-> u, broker |-> @.broker, token |-> t]]

remember_broker(q, k, t) ==
    [q EXCEPT !.digest = [@ EXCEPT ![k] = t],
              !.cookies = [user |-> @.user, broker |-> k, token |-> t]]

\* Without a broker `log_out' still deletes the token, the user's as well.
log_out_current_broker(q) ==
    IF q.error THEN q
    ELSE IF broker_logged_in(q) THEN log_out_broker(q)
    ELSE [q EXCEPT !.cookies.token = 0]

-----------------------------------------------------------------------------
(***************************************************************************)
(* The response to the request q of the browser b: a page for `whom', or a *)
(* redirection (whom = "none"), or the error page.                         *)
(***************************************************************************)
Respond(b, q, whom) ==
    /\ digest' = q.digest
    /\ IF q.error
       THEN /\ answer' = [answer EXCEPT ![b] = "error"]
            /\ UNCHANGED <<session, cookies>>
       ELSE /\ answer' = [answer EXCEPT ![b] = whom]
            /\ session' = [session EXCEPT ![b] = q.session]
            /\ cookies' = [cookies EXCEPT ![b] = q.cookies]

\* History: after the request q the browser b is signed in by `who'.
Signs(b, q, who) == signed' = IF q.error THEN signed ELSE [signed EXCEPT ![b] = who]

\* History: b keeps `who'; members of `gone' are not kept anywhere any more.
Keeps(b, who, gone) ==
    kept' = [c \in Browsers |-> IF c = b THEN who ELSE IF kept[c] \in gone THEN Nil ELSE kept[c]]

Involved(b) == {session[b].user, session[b].broker}

\* Any page: its layout asks for the user, then for the broker.  The pages of brokers
\* ask for the broker before that, and are not shown without one.
Layout(q) ==
    LET c == current_user(q) IN IF c.error \/ user_logged_in(c) THEN c ELSE current_broker(c)

Greeted(q) ==
    IF user_logged_in(q) THEN q.session.user
    ELSE IF broker_logged_in(q) THEN q.session.broker ELSE "guest"

Visit(b, brokerPage) ==
    LET asked == IF brokerPage THEN current_broker(Request(b)) ELSE Request(b)
        q     == IF asked.error THEN asked ELSE Layout(asked)
    IN  /\ IF brokerPage /\ ~asked.error /\ ~broker_logged_in(asked)
           THEN Respond(b, asked, "none") /\ UNCHANGED open
           ELSE Respond(b, q, Greeted(q)) /\ open' = IF q.error THEN open ELSE open \union {b}
        /\ UNCHANGED <<accounts, used, issued, signed, kept>>

CloseBrowser(b) ==
    /\ session' = [session EXCEPT ![b] = [user |-> Nil, broker |-> Nil]]
    /\ answer' = [answer EXCEPT ![b] = "none"]
    /\ open' = open \ {b}
    /\ UNCHANGED <<accounts, used, cookies, digest, issued, signed, kept>>

-----------------------------------------------------------------------------
(***************************************************************************)
(* The handlers.  Only a page of the present session carries the form      *)
(* token they demand.                                                      *)
(***************************************************************************)

\* POST user/signin with the right password.
UserLogin(b, u, remember) ==
    LET t == issued + 1
        c == user_log_in(Request(b), u)
        q == IF c.error THEN c
             ELSE IF remember THEN user_remember(c, u, t) ELSE user_forget(c, u)
    IN  /\ b \in open /\ u \in accounts
        /\ remember => issued < MaxTokens
        /\ issued' = IF remember /\ ~q.error THEN t ELSE issued
        /\ Respond(b, q, "none")
        /\ Signs(b, q, {u})
        /\ Keeps(b, IF remember /\ ~q.error THEN u ELSE Nil, {u})
        /\ UNCHANGED <<accounts, used, open>>

\* POST broker/signin with the right password.
BrokerLogin(b, k, remember) ==
    LET t == issued + 1
        d == log_out_current_broker(current_broker(Request(b)))
        c == IF d.error THEN d ELSE log_in_broker(d, k)
        q == IF c.error \/ k \notin Registered THEN c
             ELSE IF remember THEN remember_broker(c, k, t)
             ELSE [log_out_broker(c) EXCEPT !.session = c.session]
        keeps == remember /\ ~q.error /\ k \in Registered
    IN  /\ b \in open /\ k \in accounts
        /\ remember => issued < MaxTokens
        /\ issued' = IF keeps THEN t ELSE issued
        /\ Respond(b, q, "none")
        /\ Signs(b, q, (signed[b] \ Brokers) \union {k})
        /\ Keeps(b, IF keeps THEN k ELSE Nil, {k} \union Involved(b))
        /\ UNCHANGED <<accounts, used, open>>

\* The callback of a provider; the first one creates the member.  A user whose setup is
\* not completed, as one just created, would go to redirect_to_setup, which there is not.
ProviderSignIn(b, m) ==
    LET c == IF m \in Users THEN log_in_user(Request(b), m) ELSE log_in_broker(Request(b), m)
        q == IF m \in Users \ (Registered \cap accounts) THEN Raise(c) ELSE c
    IN  /\ b \in open /\ m \in accounts \union (Members \ used)
        /\ accounts' = accounts \union {m} /\ used' = used \union {m}
        /\ Respond(b, q, "none")
        /\ Signs(b, q, (signed[b] \ Brokers) \union {m})
        /\ Keeps(b, Nil, Involved(b))
        /\ UNCHANGED <<issued, open>>

\* POST users: the row is there even if signing in raises.
UserSignup(b, u) ==
    LET q == user_log_in(Request(b), u) IN
    /\ b \in open /\ u \in Users \ used
    /\ accounts' = accounts \union {u} /\ used' = used \union {u}
    /\ Respond(b, q, "none")
    /\ Signs(b, q, (signed[b] \ Brokers) \union {u})
    /\ Keeps(b, Nil, {})
    /\ UNCHANGED <<issued, open>>

\* POST brokers: writes session[:broker_id] itself.  A broker who is still registering
\* is sent back to that.
BrokerSignup(b, k) ==
    LET c == current_broker(Request(b)) IN
    /\ b \in open /\ k \in Brokers \ used
    /\ broker_logged_in(c) => c.session.broker \in Registered
    /\ IF c.error THEN UNCHANGED <<accounts, used>>
       ELSE accounts' = accounts \union {k} /\ used' = used \union {k}
    /\ Respond(b, [c EXCEPT !.session.broker = k], "none")
    /\ Signs(b, c, (signed[b] \ Brokers) \union {k})
    /\ Keeps(b, Nil, {})
    /\ UNCHANGED <<issued, open>>

\* DELETE user/logout.
UserLogout(b) ==
    LET c == current_user(Request(b))
        q == IF c.error \/ ~user_logged_in(c) THEN c ELSE user_log_out(c)
    IN  /\ b \in open
        /\ Respond(b, q, "none")
        /\ Signs(b, q, IF user_logged_in(c) THEN signed[b] \ Users ELSE signed[b])
        /\ Keeps(b, Nil, {c.session.user} \union Involved(b))
        /\ UNCHANGED <<accounts, used, issued, open>>

\* DELETE broker/logout.
BrokerLogout(b) ==
    LET c == current_broker(Request(b))
        q == IF c.error \/ ~broker_logged_in(c) THEN c ELSE log_out_broker(c)
    IN  /\ b \in open
        /\ Respond(b, q, "none")
        /\ Signs(b, q, IF broker_logged_in(c) THEN signed[b] \ Brokers ELSE signed[b])
        /\ Keeps(b, Nil, Involved(b))
        /\ UNCHANGED <<accounts, used, issued, open>>

\* DELETE brokers with the right password.  The session keeps the id.
RemoveBroker(b, k) ==
    /\ b \in open /\ k = session[b].broker
    /\ k \in accounts \cap Registered
    /\ accounts' = accounts \ {k}
    /\ answer' = [answer EXCEPT ![b] = "none"]
    /\ Keeps(b, IF kept[b] = k THEN Nil ELSE kept[b], {k})
    /\ UNCHANGED <<used, session, cookies, digest, issued, open, signed>>

\* DELETE users with the right password, one's own profile or, by an administrator,
\* another's.  destroy looks for the financial stories of the user, a table without a
\* user_id: it raises and the transaction is rolled back.  An administrator's profile
\* is not tried.
RemoveUser(b, u) ==
    /\ b \in open
    /\ session[b].user \in accounts
    /\ u = session[b].user \/ session[b].user \in Administrators
    /\ u \in accounts \ Administrators
    /\ answer' = [answer EXCEPT ![b] = "error"]
    /\ UNCHANGED <<accounts, used, session, cookies, digest, issued, open, signed, kept>>

-----------------------------------------------------------------------------
Next ==
    \E b \in Browsers :
       \/ \E brokerPage \in BOOLEAN : Visit(b, brokerPage)
       \/ CloseBrowser(b)
       \/ \E remember \in BOOLEAN :
            \/ \E u \in Users : UserLogin(b, u, remember)
            \/ \E k \in Brokers : BrokerLogin(b, k, remember)
       \/ \E m \in Members : ProviderSignIn(b, m)
       \/ \E u \in Users : UserSignup(b, u) \/ RemoveUser(b, u)
       \/ \E k \in Brokers : BrokerSignup(b, k) \/ RemoveBroker(b, k)
       \/ UserLogout(b)
       \/ BrokerLogout(b)

Spec == Init /\ [][Next]_vars

-----------------------------------------------------------------------------
(***************************************************************************)
(* Properties                                                              *)
(***************************************************************************)

\* A page greets only a member who signed in at this browser and did not sign out
\* since, whatever cookies the browser still has (SessionsHelper#user_log_out:
\* "otherwise current_user would be called and session[:user_id] would be restored").
GreetsOnlySignedIn ==
    \A b \in Browsers : answer[b] \in Members => answer[b] \in signed[b]

\* One browser at a time can bring a user back without a password: signing in at a
\* second one takes the first one's token out of use (User#remember).
OneRememberedBrowser ==
    \A b, c \in Browsers : \A u \in Users :
       /\ cookies[b].user = u /\ authenticated(Request(b), u)
       /\ cookies[c].user = u /\ authenticated(Request(c), u)
       => b = c

\* A user who asked to be remembered at this browser is never taken for a guest or for
\* another member there, until he signs in or out again ("Remember login on this
\* computer?").
UsersKept ==
    \A b \in Browsers : kept[b] \in Users => answer[b] \in {kept[b], "none", "error"}

-----------------------------------------------------------------------------
(***************************************************************************)
(* A statement about signing in that the code does not keep (see README).  *)
(***************************************************************************)

\* "Keep me logged in": a broker who asked for it is served when he comes back.
BrokersKept ==
    \A b \in Browsers : kept[b] \in Brokers => answer[b] \in {kept[b], "none"}
=============================================================================

----------------------------- MODULE UserSetup ------------------------------
(***************************************************************************)
(* A user's setup in two pages (SetupsController) and the validation of    *)
(* his email on the account page (UsersController#update), for users who   *)
(* share the table and its unique emails.                                  *)
(*                                                                         *)
(* The validations of User depend on which button was pressed; every       *)
(* button sends all the fields of its form.  Codes that were mailed are    *)
(* never out of use.                                                       *)
(***************************************************************************)
EXTENDS Naturals

CONSTANTS
    Users,
    Emails,
    StaleForms,     \* does a user press buttons of pages left open?
    Faults,         \* may the mail server refuse, or the worker be killed?
    MaxTokens       \* bound: codes ever drawn

ASSUME UserAssumption ==
    /\ StaleForms \in BOOLEAN /\ Faults \in BOOLEAN
    /\ MaxTokens \in Nat
    /\ {"nil", "blank"} \cap Emails = {}

VARIABLES
    rows,       \* the rows of users
    forms,      \* for each user the forms on the pages he may use
    drawn,      \* the codes drawn so far
    mailed,     \* the codes mailed, for whom and to which address
    proven      \* history: the addresses whose code the user has entered

vars == <<rows, forms, drawn, mailed, proven>>

-----------------------------------------------------------------------------
\* `named': first and last name are present; `info': the other fields of basic_info.
\* interests is nil at first, "empty" when a form without a box ticked was stored.
Rows == [step : {"nil", "basic_info", "interests"}, completed : BOOLEAN, named : BOOLEAN,
         info : BOOLEAN, interests : {"nil", "empty", "chosen"},
         email : Emails \union {"nil", "blank"}, email_authen : BOOLEAN, token : 0..MaxTokens]

Forms == {"basic_info", "interests", "account", "code", "goals"}

TypeOK ==
    /\ rows \in [Users -> Rows]
    /\ forms \in [Users -> SUBSET Forms]
    /\ drawn \in 0..MaxTokens
    /\ mailed \in SUBSET [user : Users, email : Emails, token : 1..drawn]
    /\ proven \in [Users -> SUBSET Emails]

\* At the first page of the setup, signed up with a user name and a password (no name, no
\* email) or created from a provider (User.from_omniauth), which may give both.
Init ==
    /\ \E named \in [Users -> BOOLEAN], email \in [Users -> Emails \union {"nil"}] :
          /\ \A u, v \in Users : u # v /\ email[u] # "nil" => email[u] # email[v]
          /\ rows = [u \in Users |->
                 [step |-> "nil", completed |-> FALSE, named |-> named[u], info |-> FALSE,
                  interests |-> "nil", email |-> email[u], email_authen |-> FALSE,
                  token |-> 0]]
    /\ forms = [u \in Users |-> {"basic_info"}]
    /\ drawn = 0 /\ mailed = {}
    /\ proven = [u \in Users |-> {}]

-----------------------------------------------------------------------------
\* The page of the setup a user is at, the first when there is no step yet.  Mutant of
\* current_field: without that default.
current_field_unset(r) == r.step

current_field(r) == IF r.step = "nil" THEN "basic_info" ELSE r.step
next_step(r)     == [r EXCEPT !.step = "interests"]
prev_step(r)     == [r EXCEPT !.step = IF r.step = "interests" THEN "basic_info" ELSE "interests"]

\* Mutant of valid: the interests may be empty.
valid_without_interests(u, r, setup_bool, validate_email_bool, interest_bool) ==
    /\ setup_bool \/ ~validate_email_bool => r.named
    /\ setup_bool \/ validate_email_bool => r.email \in Emails
    /\ setup_bool => r.info
    /\ r.email # "nil" => \A v \in Users \ {u} : rows[v].email # r.email

\* The validations on update, by the flags the handlers set on the user.
valid(u, r, setup_bool, validate_email_bool, interest_bool) ==
    /\ setup_bool \/ ~validate_email_bool => r.named
    /\ setup_bool \/ validate_email_bool => r.email \in Emails
    /\ setup_bool => r.info
    /\ interest_bool => r.interests = "chosen"
    /\ r.email # "nil" => \A v \in Users \ {u} : rows[v].email # r.email

\* The account page of the user as r, and the page users#show redirects to or shows.
account(r) ==
    {"account"} \union (IF r.email # "nil" /\ ~r.email_authen THEN {"code"} ELSE {})
profile(r) ==
    IF ~r.completed THEN {current_field(r)}
    ELSE IF r.email = "nil" \/ ~r.email_authen THEN account(r)
    ELSE {"goals"}

\* The response brings a page; the forms of the ones before may still be open.
Renders(u, page) ==
    forms' = [forms EXCEPT ![u] = page \union IF StaleForms THEN @ ELSE {}]

saved(u, r) == rows' = [rows EXCEPT ![u] = r]

\* The worker is killed, or an error is raised, with the row stored so far: a page of
\* no use comes back.
Cut(u, r) == Faults /\ saved(u, r) /\ Renders(u, {})

\* The links of the header lead to the profile and to the account page.
Visit(u) ==
    /\ Renders(u, account(rows[u])) \/ Renders(u, profile(rows[u]))
    /\ UNCHANGED <<rows, drawn, mailed, proven>>

-----------------------------------------------------------------------------
(***************************************************************************)
(* SetupsController#update                                                 *)
(***************************************************************************)

\* Next and Submit: the fields, the step and setup_completed? are stored one after the
\* other.  With step "interests" the interests are validated too; none at all (nil) makes
\* the validation raise, which stores nothing either.
Forward(u, r, submit) ==
    LET ok   == valid(u, r, TRUE, FALSE, rows[u].step = "interests")
        done == [next_step(r) EXCEPT !.completed = r.completed \/ submit]
    IN  /\ \/ /\ ok
              /\ saved(u, done)
              /\ Renders(u, IF done.completed THEN account(done) ELSE {current_field(done)})
           \/ ok /\ \E stored \in {r, next_step(r), done} : Cut(u, stored)
           \/ ~ok /\ Renders(u, {current_field(rows[u])}) /\ UNCHANGED rows
        /\ UNCHANGED <<drawn, mailed, proven>>

SetupNext(u, named, info, email) ==
    /\ "basic_info" \in forms[u]
    /\ Forward(u, [rows[u] EXCEPT !.named = named, !.info = info, !.email = email], FALSE)

SetupSubmit(u, interests) ==
    /\ "interests" \in forms[u]
    /\ Forward(u, [rows[u] EXCEPT !.interests = interests], TRUE)

\* "Previous" stores the boxes ticked, none included, and then the step; on the first step
\* it goes to the last.
SetupPrevious(u, interests) ==
    LET r == [rows[u] EXCEPT !.interests = interests]
        ok == valid(u, r, FALSE, FALSE, FALSE)
    IN  /\ "interests" \in forms[u]
        /\ \/ ok /\ saved(u, prev_step(r)) /\ Renders(u, {current_field(prev_step(r))})
           \/ ok /\ \E stored \in {r, prev_step(r)} : Cut(u, stored)
           \/ ~ok /\ Renders(u, {current_field(r)}) /\ UNCHANGED rows
        /\ UNCHANGED <<drawn, mailed, proven>>

-----------------------------------------------------------------------------
(***************************************************************************)
(* UsersController#update                                                  *)
(***************************************************************************)

\* update(user_params) of a form of the account page, without an email to send.
Update(u, r) ==
    /\ IF valid(u, r, FALSE, FALSE, FALSE)
       THEN saved(u, r) /\ Renders(u, profile(r))
       ELSE Renders(u, account(r)) /\ saved(u, [rows[u] EXCEPT !.email_authen = r.email_authen])
    /\ UNCHANGED <<drawn, mailed>>

\* "Update Account".
UpdateAccount(u, named, email) ==
    /\ "account" \in forms[u]
    /\ Update(u, [rows[u] EXCEPT !.named = named, !.email = email])
    /\ UNCHANGED proven

\* "Edit" of the financial interests on the profile.
EditGoals(u, interests) ==
    LET r == [rows[u] EXCEPT !.interests = interests]
    IN  /\ "goals" \in forms[u]
        /\ IF valid(u, r, FALSE, FALSE, TRUE) THEN saved(u, r) ELSE UNCHANGED rows
        /\ UNCHANGED <<forms, drawn, mailed, proven>>

\* evaluate_and_reset_email_authen.
reset_email_authen(r, email) ==
    [r EXCEPT !.email_authen = r.email_authen /\ r.email = email]

\* "send validation code": the new email is stored together with the reset, then
\* send_email_confirmation draws a code, mails it and stores it, each of which may be
\* the last thing done.
SendCode(u, named, email) ==
    LET r == [reset_email_authen(rows[u], email) EXCEPT !.named = named, !.email = email]
        code == drawn + 1
    IN  /\ "account" \in forms[u]
        /\ UNCHANGED proven
        /\ \/ /\ ~valid(u, r, FALSE, TRUE, FALSE)
              /\ Renders(u, account(r))
              /\ UNCHANGED <<rows, drawn, mailed>>
           \/ /\ valid(u, r, FALSE, TRUE, FALSE) /\ r.email_authen
              /\ saved(u, r)
              /\ Renders(u, profile(r))
              /\ UNCHANGED <<drawn, mailed>>
           \/ /\ valid(u, r, FALSE, TRUE, FALSE) /\ ~r.email_authen
              /\ drawn < MaxTokens /\ drawn' = code
              /\ \/ /\ mailed' = mailed \union {[user |-> u, email |-> email, token |-> code]}
                    /\ saved(u, [r EXCEPT !.token = code])
                    /\ Renders(u, profile(r))
                 \/ /\ mailed' \in {mailed,
                                    mailed \union {[user |-> u, email |-> email, token |-> code]}}
                    /\ Cut(u, r)

\* Mutant of ValidateEmail: any user with the code will do.
ValidateEmail_of_anyone(u, named, email, code) ==
    LET r == [rows[u] EXCEPT !.email_authen = @ \/ \E v \in Users : rows[v].token = code,
                             !.named = named, !.email = email]
    IN  /\ "code" \in forms[u]
        /\ Update(u, r)
        /\ proven' = [proven EXCEPT ![u] = @ \union
                        {m.email : m \in {n \in mailed : n.token = code /\ n.user = u}}]

\* "validate email": a user with the code entered is looked for; the flag is stored before
\* the other fields of the form.
ValidateEmail(u, named, email, code) ==
    LET found == {v \in Users : rows[v].token = code}
        r == [rows[u] EXCEPT !.email_authen = @ \/ u \in found,
                             !.named = named, !.email = email]
    IN  /\ "code" \in forms[u]
        /\ Update(u, r)
        /\ proven' = [proven EXCEPT ![u] = @ \union
                        {m.email : m \in {n \in mailed : n.token = code /\ n.user = u}}]

Next ==
    \E u \in Users :
       \/ Visit(u)
       \/ \E interests \in {"empty", "chosen"} :
             SetupSubmit(u, interests) \/ SetupPrevious(u, interests) \/ EditGoals(u, interests)
       \/ \E named \in BOOLEAN, email \in Emails \union {"blank"} :
             \/ \E info \in BOOLEAN : SetupNext(u, named, info, email)
             \/ UpdateAccount(u, named, email)
             \/ SendCode(u, named, email)
             \/ \E m \in mailed : ValidateEmail(u, named, email, m.token)

Spec == Init /\ [][Next]_vars

-----------------------------------------------------------------------------
(***************************************************************************)
(* Properties                                                              *)
(***************************************************************************)

\* A user is validated only by a code mailed for himself, whosever codes are entered
\* (UsersController#update, `user == @user').
ValidatedByOwnCode == \A u \in Users : rows[u].email_authen => proven[u] # {}

\* The setup is completed only with both its pages filled in (user_signup_spec.rb: "should
\* display validation error for no goal selected").
SetupAsksAll ==
    [][\A u \in Users : ~rows[u].completed /\ rows'[u].completed =>
          /\ rows'[u].named /\ rows'[u].info
          /\ rows'[u].email \in Emails /\ rows'[u].interests = "chosen"]_vars

\* The email called validated is one whose code was entered (User: "reset email authen if
\* a new email is set").  The code does not keep it.
EmailValidated ==
    \A u \in Users : rows[u].email_authen => rows[u].email \in proven[u]

=============================================================================

-------------------------- MODULE UserSetup_proofs --------------------------
(***************************************************************************)
(* Proofs about UserSetup, for any users, emails and number of codes.      *)
(***************************************************************************)
EXTENDS UserSetup, TLAPS

\* The code in a user's row was mailed for that user.
CodesMailed ==
    \A u \in Users : rows[u].token # 0 =>
        \E m \in mailed : m.user = u /\ m.token = rows[u].token

\* The inductive invariant: with it a code found in the user's row has an address that
\* entering the code proves.
UserInv == TypeOK /\ CodesMailed /\ ValidatedByOwnCode

-----------------------------------------------------------------------------
\* What a handler does to one user's row and nothing else of the table keeps the
\* invariant, if the row keeps its code, and the flag unless an address was proven.
LEMMA RowStep ==
    ASSUME UserInv, NEW u \in Users, NEW r \in Rows,
           rows' = [rows EXCEPT ![u] = r],
           r.token = rows[u].token,
           r.email_authen => proven'[u] # {},
           forms' \in [Users -> SUBSET Forms],
           proven' \in [Users -> SUBSET Emails],
           \A v \in Users : proven[v] \subseteq proven'[v],
           UNCHANGED <<drawn, mailed>>
    PROVE  UserInv'
<1>1. rows \in [Users -> Rows] /\ CodesMailed /\ ValidatedByOwnCode /\ TypeOK
  BY DEF UserInv, TypeOK
<1>2. \A v \in Users : rows'[v] = IF v = u THEN r ELSE rows[v]
  BY <1>1
<1>3. TypeOK'
  BY <1>1 DEF TypeOK
<1>4. CodesMailed'
  BY <1>1, <1>2 DEF CodesMailed
<1>5. ValidatedByOwnCode'
  BY <1>1, <1>2 DEF ValidatedByOwnCode
<1> QED BY <1>3, <1>4, <1>5 DEF UserInv

\* The pages are made of the forms there are.
LEMMA PagesType ==
    ASSUME NEW r \in Rows
    PROVE  /\ account(r) \in SUBSET Forms /\ profile(r) \in SUBSET Forms
           /\ {current_field(r)} \in SUBSET Forms
  BY DEF Rows, Forms, account, profile, current_field

LEMMA RendersType ==
    ASSUME forms \in [Users -> SUBSET Forms], NEW u \in Users, NEW page \in SUBSET Forms,
           Renders(u, page)
    PROVE  forms' \in [Users -> SUBSET Forms]
  BY DEF Renders

-----------------------------------------------------------------------------
\* The links of the header change pages only.
LEMMA VisitStep ==
    ASSUME UserInv, NEW u \in Users, Visit(u)
    PROVE  UserInv'
<1>1. TypeOK /\ rows[u] \in Rows
  BY DEF UserInv, TypeOK
<1>2. forms' \in [Users -> SUBSET Forms]
  BY <1>1, PagesType, RendersType DEF Visit, TypeOK
<1> QED BY <1>1, <1>2 DEF Visit, UserInv, TypeOK, CodesMailed, ValidatedByOwnCode

\* Next and Submit of the setup, for a row that keeps code and flag.
LEMMA ForwardStep ==
    ASSUME UserInv, NEW u \in Users, NEW r \in Rows, NEW submit \in BOOLEAN,
           r.token = rows[u].token, r.email_authen = rows[u].email_authen,
           Forward(u, r, submit)
    PROVE  UserInv'
<1>1. TypeOK /\ rows[u] \in Rows /\ ValidatedByOwnCode
  BY DEF UserInv, TypeOK
<1> DEFINE done == [next_step(r) EXCEPT !.completed = r.completed \/ submit]
<1>2. done \in Rows /\ done.token = r.token /\ done.email_authen = r.email_authen
  <2>1. next_step(r) \in Rows /\ next_step(r).token = r.token
           /\ next_step(r).email_authen = r.email_authen
    BY DEF next_step, Rows
  <2>2. (r.completed \/ submit) \in BOOLEAN
    OBVIOUS
  <2> QED BY <2>1, <2>2 DEF Rows
<1>6. next_step(r) \in Rows /\ next_step(r).token = r.token
         /\ next_step(r).email_authen = r.email_authen
  BY DEF next_step, Rows
<1>3. proven' = proven /\ drawn' = drawn /\ mailed' = mailed
  BY DEF Forward
<1>7. \/ \E s \in {r, next_step(r), done} :
            /\ rows' = [rows EXCEPT ![u] = s]
            /\ Renders(u, {}) \/ Renders(u, account(done)) \/ Renders(u, {current_field(done)})
      \/ rows' = rows /\ Renders(u, {current_field(rows[u])})
  BY DEF Forward, Cut, saved
<1> HIDE DEF done
<1>4. ASSUME NEW s \in {r, next_step(r), done}, rows' = [rows EXCEPT ![u] = s],
             Renders(u, {}) \/ Renders(u, account(done)) \/ Renders(u, {current_field(done)})
      PROVE  UserInv'
  <2>1. s \in Rows /\ s.token = rows[u].token /\ s.email_authen = rows[u].email_authen
    BY <1>2, <1>4, <1>6
  <2>2. forms' \in [Users -> SUBSET Forms]
    BY <1>1, <1>2, <1>4, PagesType, RendersType DEF TypeOK
  <2>3. s.email_authen => proven'[u] # {}
    BY <1>1, <1>3, <2>1 DEF ValidatedByOwnCode
  <2> QED BY <1>1, <1>3, <1>4, <2>1, <2>2, <2>3, RowStep DEF TypeOK
<1>5. CASE rows' = rows /\ Renders(u, {current_field(rows[u])})
  <2>1. forms' \in [Users -> SUBSET Forms]
    BY <1>1, <1>5, PagesType, RendersType DEF TypeOK
  <2> QED BY <1>3, <1>5, <2>1 DEF UserInv, TypeOK, CodesMailed, ValidatedByOwnCode
<1> QED BY <1>4, <1>5, <1>7

\* "Previous" of the setup.
LEMMA PreviousStep ==
    ASSUME UserInv, NEW u \in Users, NEW interests \in {"empty", "chosen"},
           SetupPrevious(u, interests)
    PROVE  UserInv'
<1>1. TypeOK /\ rows[u] \in Rows /\ ValidatedByOwnCode
  BY DEF UserInv, TypeOK
<1> DEFINE r == [rows[u] EXCEPT !.interests = interests]
<1>2. r \in Rows /\ r.token = rows[u].token /\ r.email_authen = rows[u].email_authen
  BY <1>1 DEF Rows
<1>3. proven' = proven /\ drawn' = drawn /\ mailed' = mailed
  BY DEF SetupPrevious
<1>4. \/ \E s \in {r, prev_step(r)} :
            /\ rows' = [rows EXCEPT ![u] = s]
            /\ Renders(u, {}) \/ Renders(u, {current_field(prev_step(r))})
      \/ rows' = rows /\ Renders(u, {current_field(r)})
  BY DEF SetupPrevious, Cut, saved
<1> HIDE DEF r
<1>5. prev_step(r) \in Rows /\ prev_step(r).token = r.token
         /\ prev_step(r).email_authen = r.email_authen
  BY <1>2 DEF prev_step, Rows
<1>6. forms' \in [Users -> SUBSET Forms]
  BY <1>1, <1>2, <1>4, <1>5, PagesType, RendersType DEF TypeOK
<1>7. ASSUME NEW s \in {r, prev_step(r)}, rows' = [rows EXCEPT ![u] = s]
      PROVE  UserInv'
  <2>1. s \in Rows /\ s.token = rows[u].token /\ s.email_authen = rows[u].email_authen
    BY <1>2, <1>5, <1>7
  <2>2. s.email_authen => proven'[u] # {}
    BY <1>1, <1>3, <2>1 DEF ValidatedByOwnCode
  <2> QED BY <1>1, <1>3, <1>6, <1>7, <2>1, <2>2, RowStep DEF TypeOK
<1>8. CASE rows' = rows
  BY <1>3, <1>6, <1>8 DEF UserInv, TypeOK, CodesMailed, ValidatedByOwnCode
<1> QED BY <1>4, <1>7, <1>8

\* "Edit" of the interests.
LEMMA GoalsStep ==
    ASSUME UserInv, NEW u \in Users, NEW interests \in {"empty", "chosen"},
           EditGoals(u, interests)
    PROVE  UserInv'
<1>1. TypeOK /\ rows[u] \in Rows /\ ValidatedByOwnCode
  BY DEF UserInv, TypeOK
<1> DEFINE r == [rows[u] EXCEPT !.interests = interests]
<1>2. r \in Rows /\ r.token = rows[u].token /\ r.email_authen = rows[u].email_authen
  BY <1>1 DEF Rows
<1>3. forms' = forms /\ proven' = proven /\ drawn' = drawn /\ mailed' = mailed
  BY DEF EditGoals
<1>4. rows' = [rows EXCEPT ![u] = r] \/ rows' = rows
  BY DEF EditGoals, saved
<1> HIDE DEF r
<1>5. CASE rows' = [rows EXCEPT ![u] = r]
  <2>1. r.email_authen => proven'[u] # {}
    BY <1>1, <1>2, <1>3 DEF ValidatedByOwnCode
  <2> QED BY <1>1, <1>2, <1>3, <1>5, <2>1, RowStep DEF TypeOK
<1>6. CASE rows' = rows
  BY <1>3, <1>6 DEF UserInv, TypeOK, CodesMailed, ValidatedByOwnCode
<1> QED BY <1>4, <1>5, <1>6

\* update(user_params) from the account page, for a row that keeps the code and has the
\* flag only if an address was proven.
LEMMA UpdateStep ==
    ASSUME UserInv, NEW u \in Users, NEW r \in Rows,
           r.token = rows[u].token, r.email_authen => proven'[u] # {},
           proven' \in [Users -> SUBSET Emails],
           \A v \in Users : proven[v] \subseteq proven'[v],
           Update(u, r)
    PROVE  UserInv'
<1>1. TypeOK /\ rows[u] \in Rows
  BY DEF UserInv, TypeOK
<1> DEFINE s == [rows[u] EXCEPT !.email_authen = r.email_authen]
<1>2. s \in Rows /\ s.token = rows[u].token /\ s.email_authen = r.email_authen
  BY <1>1 DEF Rows
<1>3. drawn' = drawn /\ mailed' = mailed
  BY DEF Update
<1>4. \/ rows' = [rows EXCEPT ![u] = r] /\ Renders(u, profile(r))
      \/ rows' = [rows EXCEPT ![u] = s] /\ Renders(u, account(r))
  BY DEF Update, saved
<1> HIDE DEF s
<1>5. forms' \in [Users -> SUBSET Forms]
  BY <1>1, <1>4, PagesType, RendersType DEF TypeOK
<1>6. CASE rows' = [rows EXCEPT ![u] = r]
  BY <1>3, <1>5, <1>6, RowStep
<1>7. CASE rows' = [rows EXCEPT ![u] = s]
  BY <1>2, <1>3, <1>5, <1>7, RowStep
<1> QED BY <1>4, <1>6, <1>7

\* "Update Account": the fields of the form, and the row keeps code and flag.
LEMMA AccountStep ==
    ASSUME UserInv, NEW u \in Users, NEW named \in BOOLEAN,
           NEW email \in Emails \union {"blank"}, UpdateAccount(u, named, email)
    PROVE  UserInv'
<1>1. TypeOK /\ rows[u] \in Rows /\ ValidatedByOwnCode
  BY DEF UserInv, TypeOK
<1> DEFINE r == [rows[u] EXCEPT !.named = named, !.email = email]
<1>2. r \in Rows /\ r.token = rows[u].token /\ r.email_authen = rows[u].email_authen
  BY <1>1 DEF Rows
<1>3. Update(u, r) /\ proven' = proven
  BY DEF UpdateAccount
<1> HIDE DEF r
<1>4. r.email_authen => proven'[u] # {}
  BY <1>1, <1>2, <1>3 DEF ValidatedByOwnCode
<1> QED BY <1>1, <1>2, <1>3, <1>4, UpdateStep DEF TypeOK

\* "validate email": the flag set means that the code is the user's, and was mailed to an
\* address for him.
LEMMA ValidateStep ==
    ASSUME UserInv, NEW u \in Users, NEW named \in BOOLEAN,
           NEW email \in Emails \union {"blank"}, NEW m \in mailed,
           ValidateEmail(u, named, email, m.token)
    PROVE  UserInv'
<1>1. TypeOK /\ rows[u] \in Rows /\ ValidatedByOwnCode /\ CodesMailed
  BY DEF UserInv, TypeOK
<1>2. mailed \in SUBSET [user : Users, email : Emails, token : 1..drawn] /\ drawn \in Nat
  BY <1>1, UserAssumption DEF TypeOK
<1> DEFINE found == {v \in Users : rows[v].token = m.token}
           flag  == rows[u].email_authen \/ u \in found
           addresses == {k.email : k \in {n \in mailed : n.token = m.token /\ n.user = u}}
           r == [rows[u] EXCEPT !.email_authen = flag, !.named = named, !.email = email]
<1>3. Update(u, r) /\ proven' = [proven EXCEPT ![u] = @ \union addresses]
  BY DEF ValidateEmail
<1>4. r \in Rows /\ r.token = rows[u].token /\ r.email_authen = flag
  BY <1>1 DEF Rows
<1>5. addresses \subseteq Emails
  BY <1>2
<1>6. u \in found => addresses # {}
  BY <1>1, <1>2 DEF CodesMailed
<1>7. proven' \in [Users -> SUBSET Emails] /\ \A v \in Users : proven[v] \subseteq proven'[v]
  BY <1>1, <1>3, <1>5 DEF TypeOK
<1>8. flag => proven'[u] # {}
  BY <1>1, <1>3, <1>6, <1>7 DEF ValidatedByOwnCode, TypeOK
<1> HIDE DEF r
<1> QED BY <1>3, <1>4, <1>7, <1>8, UpdateStep

\* "send validation code": a code in the row was mailed, with the address, in the same
\* step; the flag is only reset.
LEMMA SendStep ==
    ASSUME UserInv, NEW u \in Users, NEW named \in BOOLEAN,
           NEW email \in Emails \union {"blank"}, SendCode(u, named, email)
    PROVE  UserInv'
<1>1. TypeOK /\ rows[u] \in Rows /\ ValidatedByOwnCode /\ CodesMailed
  BY DEF UserInv, TypeOK
<1> DEFINE r == [reset_email_authen(rows[u], email) EXCEPT !.named = named, !.email = email]
           mail == [user |-> u, email |-> email, token |-> drawn + 1]
<1>2. /\ r \in Rows /\ r.token = rows[u].token /\ r.email = email
      /\ r.email_authen => rows[u].email_authen
  <2>1. /\ reset_email_authen(rows[u], email) \in Rows
        /\ reset_email_authen(rows[u], email).token = rows[u].token
        /\ reset_email_authen(rows[u], email).email_authen => rows[u].email_authen
    BY <1>1 DEF reset_email_authen, Rows
  <2> QED BY <2>1 DEF Rows
<1>3. proven' = proven
  BY DEF SendCode
<1>4. r.email_authen => proven'[u] # {}
  BY <1>1, <1>2, <1>3 DEF ValidatedByOwnCode
<1>5. \/ rows' = rows /\ drawn' = drawn /\ mailed' = mailed /\ Renders(u, account(r))
      \/ /\ rows' = [rows EXCEPT ![u] = r] /\ drawn' = drawn /\ mailed' = mailed
         /\ Renders(u, profile(r))
      \/ /\ email \in Emails /\ drawn < MaxTokens /\ drawn' = drawn + 1
         /\ mailed' = mailed \union {mail}
         /\ rows' = [rows EXCEPT ![u] = [r EXCEPT !.token = drawn + 1]]
         /\ Renders(u, profile(r))
      \/ /\ email \in Emails /\ drawn < MaxTokens /\ drawn' = drawn + 1
         /\ mailed' \in {mailed, mailed \union {mail}}
         /\ rows' = [rows EXCEPT ![u] = r] /\ Renders(u, {})
  <2>1. valid(u, r, FALSE, TRUE, FALSE) => email \in Emails
    BY <1>2 DEF valid
  <2> QED BY <2>1 DEF SendCode, Cut, saved
<1> HIDE DEF r
<1>6. forms' \in [Users -> SUBSET Forms]
  BY <1>1, <1>2, <1>5, PagesType, RendersType DEF TypeOK
<1>7. CASE rows' = rows /\ drawn' = drawn /\ mailed' = mailed
  BY <1>1, <1>3, <1>6, <1>7 DEF UserInv, TypeOK, CodesMailed, ValidatedByOwnCode
<1>8. CASE rows' = [rows EXCEPT ![u] = r] /\ drawn' = drawn /\ mailed' = mailed
  BY <1>1, <1>2, <1>3, <1>4, <1>6, <1>8, RowStep DEF TypeOK
<1>9. CASE email \in Emails /\ drawn < MaxTokens /\ drawn' = drawn + 1
  <2>1. drawn \in Nat /\ drawn + 1 \in 0..MaxTokens /\ drawn + 1 \in 1..drawn'
           /\ drawn + 1 # 0 /\ \A k \in 1..drawn : k \in 1..drawn'
    BY <1>1, <1>9, UserAssumption DEF TypeOK
  <2>2. mail \in [user : Users, email : Emails, token : 1..drawn']
    BY <1>9, <2>1
  <2>3. mailed' \in SUBSET [user : Users, email : Emails, token : 1..drawn']
    BY <1>1, <1>5, <1>9, <2>1, <2>2 DEF TypeOK
  <2>4. mailed \subseteq mailed'
    BY <1>5, <1>9, <2>1
  <2>5. PICK s \in Rows : /\ rows' = [rows EXCEPT ![u] = s]
                          /\ s.email_authen = r.email_authen
                          /\ s.token = r.token \/ (s.token = mail.token /\ mail \in mailed')
    <3>1. [r EXCEPT !.token = drawn + 1] \in Rows
             /\ [r EXCEPT !.token = drawn + 1].token = drawn + 1
             /\ [r EXCEPT !.token = drawn + 1].email_authen = r.email_authen
      BY <1>2, <2>1 DEF Rows
    <3>2. mail.token = drawn + 1
      OBVIOUS
    <3>3. \/ rows' = [rows EXCEPT ![u] = r]
          \/ rows' = [rows EXCEPT ![u] = [r EXCEPT !.token = drawn + 1]] /\ mail \in mailed'
      BY <1>5, <1>9, <2>1
    <3>4. CASE rows' = [rows EXCEPT ![u] = r]
      BY <1>2, <3>4
    <3>5. CASE /\ rows' = [rows EXCEPT ![u] = [r EXCEPT !.token = drawn + 1]]
               /\ mail \in mailed'
      <4> DEFINE s == [r EXCEPT !.token = drawn + 1]
      <4>1. s \in Rows /\ s.email_authen = r.email_authen /\ s.token = mail.token
        BY <3>1, <3>2
      <4>2. rows' = [rows EXCEPT ![u] = s] /\ mail \in mailed'
        BY <3>5
      <4> HIDE DEF s
      <4> QED BY <4>1, <4>2
    <3> QED BY <3>3, <3>4, <3>5
  <2>6. \A v \in Users : rows'[v] = IF v = u THEN s ELSE rows[v]
    BY <1>1, <2>5 DEF TypeOK
  <2>7. TypeOK'
    BY <1>1, <1>3, <1>6, <1>9, <2>1, <2>3, <2>5 DEF TypeOK
  <2>8. CodesMailed'
    BY <1>1, <1>2, <2>4, <2>5, <2>6 DEF CodesMailed
  <2>9. ValidatedByOwnCode'
    BY <1>1, <1>3, <1>4, <2>5, <2>6 DEF ValidatedByOwnCode
  <2> QED BY <2>7, <2>8, <2>9 DEF UserInv
<1> QED BY <1>5, <1>7, <1>8, <1>9

-----------------------------------------------------------------------------
\* Every button keeps the invariant.
LEMMA UserStep == UserInv /\ [Next]_vars => UserInv'
<1> SUFFICES ASSUME UserInv, [Next]_vars
             PROVE  UserInv'
  OBVIOUS
<1>1. \A u \in Users : rows[u] \in Rows
  BY DEF UserInv, TypeOK
<1>2. ASSUME NEW u \in Users, NEW named \in BOOLEAN, NEW info \in BOOLEAN,
             NEW email \in Emails \union {"blank"}, SetupNext(u, named, info, email)
      PROVE  UserInv'
  <2> DEFINE r == [rows[u] EXCEPT !.named = named, !.info = info, !.email = email]
  <2>1. r \in Rows /\ r.token = rows[u].token /\ r.email_authen = rows[u].email_authen
    BY <1>1 DEF Rows
  <2>2. Forward(u, r, FALSE)
    BY <1>2 DEF SetupNext
  <2> HIDE DEF r
  <2> QED BY <2>1, <2>2, ForwardStep
<1>3. ASSUME NEW u \in Users, NEW interests \in {"empty", "chosen"}, SetupSubmit(u, interests)
      PROVE  UserInv'
  <2> DEFINE r == [rows[u] EXCEPT !.interests = interests]
  <2>1. r \in Rows /\ r.token = rows[u].token /\ r.email_authen = rows[u].email_authen
    BY <1>1 DEF Rows
  <2>2. Forward(u, r, TRUE)
    BY <1>3 DEF SetupSubmit
  <2> HIDE DEF r
  <2> QED BY <2>1, <2>2, ForwardStep
<1>4. CASE Next
  BY <1>2, <1>3, <1>4, VisitStep, PreviousStep, GoalsStep, AccountStep, SendStep, ValidateStep
     DEF Next
<1>5. CASE UNCHANGED vars
  BY <1>5 DEF vars, UserInv, TypeOK, CodesMailed, ValidatedByOwnCode
<1> QED BY <1>4, <1>5

\* The invariant holds when the users were just created.
LEMMA UserInit == Init => UserInv
<1> SUFFICES ASSUME Init
             PROVE  UserInv
  OBVIOUS
<1>1. 0 \in 0..MaxTokens
  BY UserAssumption
<1>2. TypeOK
  <2>1. PICK named \in [Users -> BOOLEAN], email \in [Users -> Emails \union {"nil"}] :
           rows = [u \in Users |->
                 [step |-> "nil", completed |-> FALSE, named |-> named[u], info |-> FALSE,
                  interests |-> "nil", email |-> email[u], email_authen |-> FALSE,
                  token |-> 0]]
    BY DEF Init
  <2>2. rows \in [Users -> Rows]
    BY <1>1, <2>1 DEF Rows
  <2> QED BY <1>1, <2>2 DEF Init, TypeOK, Forms
<1>3. CodesMailed /\ ValidatedByOwnCode
  BY DEF Init, CodesMailed, ValidatedByOwnCode
<1> QED BY <1>2, <1>3 DEF UserInv

\* The rows, pages and mails of UsersController and SetupsController are well typed.
THEOREM UserTypeCorrect == Spec => []TypeOK
<1>1. UserInv => TypeOK
  BY DEF UserInv
<1> QED BY UserInit, UserStep, <1>1, PTL DEF Spec

\* Nobody's email is called validated on the strength of a code mailed for another user
\* (UsersController#update).
THEOREM OwnCodeValidates == Spec => []ValidatedByOwnCode
<1>1. UserInv => ValidatedByOwnCode
  BY DEF UserInv
<1> QED BY UserInit, UserStep, <1>1, PTL DEF Spec

-----------------------------------------------------------------------------
(***************************************************************************)
(* A user who uses the page he is shown completes the setup only with both *)
(* pages filled in.                                                        *)
(***************************************************************************)

\* The form of the second page is shown only while the row is at that step, so that the
\* step in the row selects the validation of the interests.
AtStep == \A u \in Users : "interests" \in forms[u] => rows[u].step = "interests"

Filled(r) == r.named /\ r.info /\ r.email \in Emails /\ r.interests = "chosen"

Asked == \A u \in Users : ~rows[u].completed /\ rows'[u].completed => Filled(rows'[u])

\* What an action has to do to u's row and pages.
LEMMA AskedStep ==
    ASSUME ~StaleForms, TypeOK, AtStep, NEW u \in Users, NEW s,
           rows' = [rows EXCEPT ![u] = s],
           s.completed => rows[u].completed \/ Filled(s),
           \/ forms' = forms /\ s.step = rows[u].step
           \/ \E page : Renders(u, page) /\ ("interests" \in page => s.step = "interests")
    PROVE  AtStep' /\ Asked
<1>1. \A v \in Users : rows'[v] = IF v = u THEN s ELSE rows[v]
  BY DEF TypeOK
<1>2. Asked
  BY <1>1 DEF Asked
<1>3. CASE forms' = forms /\ s.step = rows[u].step
  BY <1>1, <1>2, <1>3 DEF AtStep
<1>4. ASSUME NEW page, Renders(u, page), "interests" \in page => s.step = "interests"
      PROVE  AtStep'
  <2>1. \A v \in Users : forms'[v] = IF v = u THEN page ELSE forms[v]
    BY <1>4 DEF Renders, TypeOK
  <2> QED BY <1>1, <1>4, <2>1 DEF AtStep
<1> QED BY <1>2, <1>3, <1>4

\* The same for a request that was cut short.
LEMMA CutAsks ==
    ASSUME ~StaleForms, TypeOK, AtStep, NEW u \in Users, NEW s,
           rows' = [rows EXCEPT ![u] = s],
           s.completed => rows[u].completed,
           Renders(u, {})
    PROVE  AtStep' /\ Asked
<1>1. \E page : Renders(u, page) /\ ("interests" \in page => s.step = "interests")
  <2> WITNESS {}
  <2> QED OBVIOUS
<1> QED BY <1>1, AskedStep

\* Where the pages lead: to the second page only from its step.
LEMMA PagesAtStep ==
    ASSUME NEW r \in Rows
    PROVE  /\ "interests" \notin account(r)
           /\ "interests" \in profile(r) => r.step = "interests"
           /\ "interests" \in {current_field(r)} => r.step = "interests"
  BY DEF Rows, account, profile, current_field

\* An action that leaves the rows alone is one that stores what is there.
LEMMA SameRow ==
    ASSUME TypeOK, NEW u \in Users, rows' = rows
    PROVE  rows' = [rows EXCEPT ![u] = rows[u]]
  BY DEF TypeOK

LEMMA ForwardAsks ==
    ASSUME ~StaleForms, TypeOK, AtStep, NEW u \in Users, NEW r \in Rows, NEW submit \in BOOLEAN,
           r.step = rows[u].step, r.completed = rows[u].completed,
           submit => rows[u].step = "interests",
           Forward(u, r, submit)
    PROVE  AtStep' /\ Asked
<1> DEFINE done == [next_step(r) EXCEPT !.completed = r.completed \/ submit]
           ok == valid(u, r, TRUE, FALSE, rows[u].step = "interests")
<1>1. /\ done.step = "interests" /\ done.named = r.named /\ done.info = r.info
      /\ done.email = r.email /\ done.interests = r.interests
  BY DEF next_step, Rows
<1>2. done.completed => rows[u].completed \/ submit
  BY DEF next_step, Rows
<1>3. next_step(r).completed = rows[u].completed
  BY DEF next_step, Rows
<1>4. \/ ok /\ rows' = [rows EXCEPT ![u] = done] /\ \E page : Renders(u, page)
      \/ \E s \in {r, next_step(r)} : rows' = [rows EXCEPT ![u] = s] /\ Renders(u, {})
      \/ rows' = rows /\ Renders(u, {current_field(rows[u])})
  BY DEF Forward, Cut, saved
<1>5. ok /\ submit => Filled(r)
  BY DEF valid, Filled
<1>6. Filled(r) => Filled(done)
  BY <1>1 DEF Filled
<1> HIDE DEF done, ok
<1>7. ASSUME ok, rows' = [rows EXCEPT ![u] = done], NEW page, Renders(u, page)
      PROVE  AtStep' /\ Asked
  BY <1>1, <1>2, <1>5, <1>6, <1>7, AskedStep
<1>8. ASSUME NEW s \in {r, next_step(r)}, rows' = [rows EXCEPT ![u] = s], Renders(u, {})
      PROVE  AtStep' /\ Asked
  BY <1>3, <1>8, CutAsks
<1>9. CASE rows' = rows /\ Renders(u, {current_field(rows[u])})
  <2>1. rows[u] \in Rows
    BY DEF TypeOK
  <2> QED BY <1>9, <2>1, SameRow, AskedStep, PagesAtStep
<1> QED BY <1>4, <1>7, <1>8, <1>9

\* The account page: what it stores keeps step and completion.
LEMMA UpdateAsks ==
    ASSUME ~StaleForms, TypeOK, AtStep, NEW u \in Users, NEW r \in Rows,
           r.step = rows[u].step, r.completed = rows[u].completed, Update(u, r)
    PROVE  AtStep' /\ Asked
<1>1. CASE valid(u, r, FALSE, FALSE, FALSE)
  <2>1. rows' = [rows EXCEPT ![u] = r] /\ Renders(u, profile(r))
    BY <1>1 DEF Update, saved
  <2> QED BY <2>1, PagesAtStep, AskedStep
<1>2. CASE ~valid(u, r, FALSE, FALSE, FALSE)
  <2> DEFINE s == [rows[u] EXCEPT !.email_authen = r.email_authen]
  <2>1. rows' = [rows EXCEPT ![u] = s] /\ Renders(u, account(r))
    BY <1>2 DEF Update, saved
  <2>2. s.completed = rows[u].completed
    BY DEF TypeOK, Rows
  <2> HIDE DEF s
  <2> QED BY <2>1, <2>2, PagesAtStep, AskedStep
<1> QED BY <1>1, <1>2

LEMMA SendAsks ==
    ASSUME ~StaleForms, TypeOK, AtStep, NEW u \in Users, NEW named \in BOOLEAN,
           NEW email \in Emails \union {"blank"}, SendCode(u, named, email)
    PROVE  AtStep' /\ Asked
<1> DEFINE r == [reset_email_authen(rows[u], email) EXCEPT !.named = named, !.email = email]
           t == [r EXCEPT !.token = drawn + 1]
<1>1. rows[u] \in Rows
  BY DEF TypeOK
<1>2. /\ r.step = rows[u].step /\ r.completed = rows[u].completed
      /\ t.step = rows[u].step /\ t.completed = rows[u].completed
  BY <1>1 DEF Rows, reset_email_authen
<1>3. /\ "interests" \notin account(r)
      /\ "interests" \in profile(r) => r.step = "interests"
  <2>1. reset_email_authen(rows[u], email) \in Rows
    BY <1>1 DEF Rows, reset_email_authen
  <2>2. r \in Rows
    BY <2>1 DEF Rows
  <2> QED BY <2>2, PagesAtStep
<1>4. \/ rows' = rows /\ Renders(u, account(r))
      \/ rows' = [rows EXCEPT ![u] = r] /\ Renders(u, profile(r))
      \/ rows' = [rows EXCEPT ![u] = t] /\ Renders(u, profile(r))
      \/ rows' = [rows EXCEPT ![u] = r] /\ Renders(u, {})
  BY DEF SendCode, Cut, saved
<1> HIDE DEF r, t
<1>5. CASE rows' = rows /\ Renders(u, account(r))
  BY <1>3, <1>5, SameRow, AskedStep
<1>6. CASE rows' = [rows EXCEPT ![u] = r] /\ Renders(u, profile(r))
  BY <1>2, <1>3, <1>6, AskedStep
<1>7. CASE rows' = [rows EXCEPT ![u] = t] /\ Renders(u, profile(r))
  BY <1>2, <1>3, <1>7, AskedStep
<1>8. CASE rows' = [rows EXCEPT ![u] = r] /\ Renders(u, {})
  BY <1>2, <1>8, CutAsks
<1> QED BY <1>4, <1>5, <1>6, <1>7, <1>8

LEMMA AtStepStep ==
    ASSUME ~StaleForms, TypeOK, AtStep, Next
    PROVE  AtStep' /\ Asked
<1>0. \A u \in Users : rows[u] \in Rows
  BY DEF TypeOK
<1>1. ASSUME NEW u \in Users, Visit(u) PROVE AtStep' /\ Asked
  BY <1>0, <1>1, SameRow, PagesAtStep, AskedStep DEF Visit
<1>2. ASSUME NEW u \in Users, NEW named \in BOOLEAN, NEW info \in BOOLEAN,
             NEW email \in Emails \union {"blank"}, SetupNext(u, named, info, email)
      PROVE  AtStep' /\ Asked
  <2> DEFINE r == [rows[u] EXCEPT !.named = named, !.info = info, !.email = email]
  <2>1. r \in Rows /\ r.step = rows[u].step /\ r.completed = rows[u].completed
    BY <1>0 DEF Rows
  <2>2. Forward(u, r, FALSE)
    BY <1>2 DEF SetupNext
  <2> HIDE DEF r
  <2> QED BY <2>1, <2>2, ForwardAsks
<1>3. ASSUME NEW u \in Users, NEW interests \in {"empty", "chosen"}, SetupSubmit(u, interests)
      PROVE  AtStep' /\ Asked
  <2> DEFINE r == [rows[u] EXCEPT !.interests = interests]
  <2>1. r \in Rows /\ r.step = rows[u].step /\ r.completed = rows[u].completed
    BY <1>0 DEF Rows
  <2>2. Forward(u, r, TRUE) /\ rows[u].step = "interests"
    BY <1>3 DEF SetupSubmit, AtStep
  <2> HIDE DEF r
  <2> QED BY <2>1, <2>2, ForwardAsks
<1>4. ASSUME NEW u \in Users, NEW interests \in {"empty", "chosen"}, SetupPrevious(u, interests)
      PROVE  AtStep' /\ Asked
  <2> DEFINE r == [rows[u] EXCEPT !.interests = interests]
  <2>1. r \in Rows /\ r.step = rows[u].step /\ r.completed = rows[u].completed
    BY <1>0 DEF Rows
  <2>2. \/ rows' = [rows EXCEPT ![u] = prev_step(r)] /\ Renders(u, {current_field(prev_step(r))})
        \/ \E s \in {r, prev_step(r)} : rows' = [rows EXCEPT ![u] = s] /\ Renders(u, {})
        \/ rows' = rows /\ Renders(u, {current_field(r)})
    BY <1>4 DEF SetupPrevious, Cut, saved
  <2> HIDE DEF r
  <2>3. prev_step(r) \in Rows /\ prev_step(r).completed = r.completed
    BY <2>1 DEF prev_step, Rows
  <2>4. CASE rows' = [rows EXCEPT ![u] = prev_step(r)] /\ Renders(u, {current_field(prev_step(r))})
    BY <2>1, <2>3, <2>4, PagesAtStep, AskedStep
  <2>5. CASE rows' = rows /\ Renders(u, {current_field(r)})
    BY <2>1, <2>5, SameRow, PagesAtStep, AskedStep
  <2>6. ASSUME NEW s \in {r, prev_step(r)}, rows' = [rows EXCEPT ![u] = s], Renders(u, {})
        PROVE  AtStep' /\ Asked
    BY <2>1, <2>3, <2>6, CutAsks
  <2> QED BY <2>2, <2>4, <2>5, <2>6
<1>5. ASSUME NEW u \in Users, NEW interests \in {"empty", "chosen"}, EditGoals(u, interests)
      PROVE  AtStep' /\ Asked
  <2> DEFINE r == [rows[u] EXCEPT !.interests = interests]
  <2>1. r.step = rows[u].step /\ r.completed = rows[u].completed
    BY <1>0 DEF Rows
  <2>2. (rows' = [rows EXCEPT ![u] = r] \/ rows' = rows) /\ forms' = forms
    BY <1>5 DEF EditGoals, saved
  <2> HIDE DEF r
  <2> QED BY <2>1, <2>2, SameRow, AskedStep
<1>6. ASSUME NEW u \in Users, NEW named \in BOOLEAN, NEW email \in Emails \union {"blank"},
             UpdateAccount(u, named, email)
      PROVE  AtStep' /\ Asked
  <2> DEFINE r == [rows[u] EXCEPT !.named = named, !.email = email]
  <2>1. r \in Rows /\ r.step = rows[u].step /\ r.completed = rows[u].completed
    BY <1>0 DEF Rows
  <2>2. Update(u, r)
    BY <1>6 DEF UpdateAccount
  <2> HIDE DEF r
  <2> QED BY <2>1, <2>2, UpdateAsks
<1>7. ASSUME NEW u \in Users, NEW named \in BOOLEAN, NEW email \in Emails \union {"blank"},
             NEW m \in mailed, ValidateEmail(u, named, email, m.token)
      PROVE  AtStep' /\ Asked
  <2> DEFINE found == u \in {v \in Users : rows[v].token = m.token}
             r == [rows[u] EXCEPT !.email_authen = @ \/ found, !.named = named, !.email = email]
  <2>1. (rows[u].email_authen \/ found) \in BOOLEAN
    BY <1>0 DEF Rows
  <2>2. r \in Rows /\ r.step = rows[u].step /\ r.completed = rows[u].completed
    <3> DEFINE flag == rows[u].email_authen \/ found
    <3>1. r = [rows[u] EXCEPT !.email_authen = flag, !.named = named, !.email = email]
      OBVIOUS
    <3> HIDE DEF flag, r
    <3>2. flag \in BOOLEAN
      BY <2>1 DEF flag
    <3> QED BY <1>0, <3>1, <3>2 DEF Rows
  <2>3. Update(u, r)
    BY <1>7 DEF ValidateEmail
  <2> HIDE DEF r
  <2> QED BY <2>2, <2>3, UpdateAsks
<1> QED BY <1>1, <1>2, <1>3, <1>4, <1>5, <1>6, <1>7, SendAsks DEF Next

\* For any users and addresses, and with refused mail and killed workers, the setup of a
\* user who uses the page shown is completed only with both its pages filled in
\* (SetupsController#update).
THEOREM SetupComplete ==
    ASSUME ~StaleForms
    PROVE  Spec => SetupAsksAll
<1>1. Init => AtStep
  BY DEF Init, AtStep
<1>2. TypeOK /\ AtStep /\ [Next]_vars => AtStep' /\ [Asked]_vars
  <2>1. CASE Next
    BY <2>1, AtStepStep
  <2>2. CASE UNCHANGED vars
    BY <2>2 DEF vars, AtStep
  <2> QED BY <2>1, <2>2
<1>3. [Asked]_vars <=> [\A u \in Users : ~rows[u].completed /\ rows'[u].completed =>
          /\ rows'[u].named /\ rows'[u].info
          /\ rows'[u].email \in Emails /\ rows'[u].interests = "chosen"]_vars
  BY DEF Asked, Filled
<1> QED BY <1>1, <1>2, <1>3, UserTypeCorrect, PTL DEF Spec, SetupAsksAll

=============================================================================

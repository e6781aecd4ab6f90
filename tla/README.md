# RichRly: a formal model

RichRly (this repository) is a Rails 4.1 application.  Financial representatives
("brokers") register in a wizard of eight pages, are reviewed by an
administrator, and publish a profile, licences and financial stories.  Users set
up an account, publish testimonies, and vote and comment.  The application runs
as three unicorn workers (`config/unicorn.rb`, each killed when a request takes
longer than 15 s) and a sidekiq process, beside one PostgreSQL database.  The
workers share nothing but the database; most handlers are several transactions.

What makes it hard to test: a handler chooses its validations by the row and its
data by the form that arrives, and the two need not be of the same page; a
handler commits several times and can be killed, or its mail refused, in
between; uniqueness is a query before an insert and a counter is read, changed
and written, while another worker does the same; sessions, cookies and digests
have to agree across browsers.

## Inventory

| Component | State | Operations | Module |
|---|---|---|---|
| Broker registration | `brokers` row (step, flags), `licenses`, `broker_requests` | eight pages with Next, Back, Submit; ID and licence upload and removal; email code | `BrokerRegistration` |
| Application review | `broker_requests.admin_reply`, `licenses.approved`, `brokers.approved` | pending page, verdicts, mails; licence upload and removal from the settings | `BrokerReview` |
| Member sessions | `session`, signed cookies, `auth_token_digest` | sign in, up, out; providers; remember; remove a profile | `MemberSession` |
| Testimonies | `financial_testimonies`, `financial_stories`, `votes`, `micro_comments`, `activities` | publish, vote, cancel, comment, remove; news page | `Testimonies` |
| User setup and account | `users` row (step, interests, email, code) | two pages, account page, email code, interests | `UserSetup` |
| Broker profile | `brokers` row (title, company, location, current experience), `experiences` | submission, the forms of the profile, create, edit and delete experiences | `BrokerProfile` |
| Passwords | `password_digest`, token and time of the reset link | account forms, reset link, the form behind it | `Passwords` |
| Pictures | `image`, `image_cropped`, files in S3, sidekiq jobs | post, process, crop, delete, the job | `Pictures` |
| Private messages, goals, catalogue, budget wizard, spendings, searches, Yodlee, static pages | | | not modelled, see the end |

How they interact: a submitted registration creates the requests that
`BrokerReview` is about.  With `Filing` it begins where `BrokerRegistration!Complete`
stores the flag and the requests follow one by one, beside the administrators;
without, when they are all there.  Licences are changed by the wizard before the submission and by the
settings after it; each module has the calls of `LicensesController` that are
offered at its time.  `MemberSession` decides who a request is from; the other
modules take members that are signed in.  Removing a broker ends sessions
(`MemberSession`) and takes votes, stories and activities along
(`Testimonies`).  The last page of the registration creates the experience that
`BrokerProfile` starts with.  Whether an address is validated, which
`BrokerRegistration` and `UserSetup` are about, decides whether the forms of the
profile are accepted, and so reappears as one flag in `BrokerProfile` and
`Pictures`.  `Application` says what registration and review promise together,
and both implement it.

Each module has a module `MC...` for TLC (symmetry sets only; the `.cfg` files
give the constants) and a module `..._proofs`; the proofs about the two
implementations of `Application` are with those.

## BrokerRegistration

Source: `SetupBrokersController`, `Broker`, two actions of `LicensesController`.
`broker` is the row, `licenses` the uploaded types, `requests` the requests filed,
counted by kind.  `page` is the page the browser shows, `held` and `offered` the
forms it got before.  `confirmed` is history: addresses whose owner answered a code.

A handler that writes the row is one action per commit, served by one of `Workers`.
The first action is a button or link: the row is loaded, the form assigned and
validated by the row's step (`StepValid`), and `job[w]` becomes what is still to be
written: `NextFrom...` (which share `UpdateNext`), `Back`, `SendValidation`,
`ValidateEmail`, `UploadId`, `RemoveId`, `Submit`.  The commits follow: `SaveForm`,
then `SaveStep` after "Next" (the step the worker loaded plus one,
`setup_brokers_controller.rb:82`), `SendCode` after "send validation code",
`PlaceExperience`, `Complete`, `FileAccount` and a `FileLicense` for each licence
after "Submit" (lines 74-79).  `Written` is what ActiveRecord writes: the columns
that differ from what this worker has in memory, and the serialized `license_type`
always; everything else stays as another worker may have left it.  `Killed` ends a
request between two commits, `SendCode` may be refused by the mail server, both with
`Faults`.

The broker waits for his answers, except `MaxStale` times: a stale request is a form
of a page no longer shown (double click, second tab, Back key) or a page asked for
while a form is still being processed.  With `MaxStale = 0` one request is under
way at a time.

Abstractions: `Edit` (the page, which re-synchronises the licences), a form that is
rejected and `UploadLicense` and `RemoveLicense` of page 4 are one action each; a
password digest counts by its class, so a second digest of the same class counts as
unchanged.  `MaxSubmit` stops a submission at the commit that would file one
application too many.

Runs:

* `registration_fresh` (two licence types, two addresses, one worker, four undos,
  `MaxStale = 0`, no faults).  `PagesBeforeStepDone`: no page before the current
  step is unfinished, although one can go back, deselect licence types or remove
  the ID.  `SubmittedIsComplete`, `EmailConfirmed` (the address called confirmed is
  one whose code was answered), `OneApplication` (account first, then each licence,
  all of them once the submission is answered), `SelectedLicensesKept` (going back
  and forth loses only the licences deselected), `ImplementsApplication` (see
  Application).  `FreshInv` is the inductive invariant of the proof.  `Completes`:
  under `FairSpec` the registration is completed.  Two types are needed for a
  licence to be counted for another one; four undos let a selection be changed,
  changed back, an upload be removed and the address be changed.  With
  `MaxStale = 0` a second worker is never busy, so one is enough.
* `registration_repeats` (one licence type, two workers, two stale requests, kills and
  refused mail, no undo, two submissions).  What survives double clicks served by two
  workers at once: `IdSurvivesRepeats` (a submitted registration has an ID; a slow
  worker may write an earlier step over a later one, but none that was reached
  without it) and `FiledInOrder` (requests are seen only behind the flag, those of
  licences only beside one of the account).  Two stale requests are a double click and
  a page asked for while it is served, or a form sent three times.

Fairness: `Fairness` says that a worker that is not killed finishes its request (weak
fairness of `Serve`), and that a broker who does not give up follows redirects and in
the end presses a forward button that is offered again and again, with valid data
(strong fairness, because going back takes the button away for a while).  Undos are
bounded, which is what keeps the broker from going in circles.

Statements of the module that the code does not keep, each with the
configuration that shows it:

* `NoStepBackwards`, two workers, `MaxStale = 2`, no undo: "Next" of one page sent
  three times.  The first worker stores step 7, the third request moves the row to 8,
  and the second, which loaded step 6, stores 7 over it
  (`setup_brokers_controller.rb:82`).
* `TermsSurviveRepeats`, the same with `MaxStale = 3`: page 8 was asked for before the
  slow worker stored 7, so "Submit" arrives at a row of step 7, no validation belongs
  to that step, and the registration is submitted with the terms not agreed to.
* `CriteriaSubmitted`, `MaxStale = 1`: "Next" of page 6 sent twice, one after the other,
  moves the row from step 6 to 8, and a registration is submitted without a financial
  story, which `legal/privacy_policy.html.erb:18` names as a criterion.
* `EditRenders`, `MaxStale = 1`: "Next" of page 2 sent again is validated at step 3,
  where a selection that is nil is accepted; at step 4 `add_or_remove_license`
  (`broker.rb:276`) iterates over nil, on every visit
  (`broker_signup_spec.rb:507-515`).
* `OneAccountRequest`, two workers, `MaxStale = 1`, `MaxSubmit = 2`: Submit sent twice
  files all requests twice (`setup_brokers_controller.rb:76`, spec lines 478-480).
* `EmailConfirmed`, faults: the address is stored, the mail refused, and
  `email_authen` cleared in memory only (`broker.rb:222`).
* `PasswordChosen`, `MaxStale = 0`: page 1 saved again with empty password fields
  replaces the password by the digest of an empty one (`broker.rb:357`).
* `SubmittedIsFiled`: between the flag and the first request, and for good when the
  worker is killed there, there is a submission that nobody reviews
  (`setup_brokers_controller.rb:75`).

## BrokerReview

Source: `Admin::BrokerRequestsController`, `BrokerRequest`, `LicensesController`.
`reply` is `admin_reply` of each request, `unfiled` the requests a worker is about to
create, `page` the buttons on the page an administrator has open, `job` the rest of
the request a worker serves for him.  Everything is one action per commit: a
submission (with `Filing`) creates the account's request and then those of its
licences (`FileRequest`); an upload from the settings is checked, stored, and then
gets its request (`CheckUpload`, `StoreUpload`, `FileRequest`); `FilingCut` is a
worker killed in between.  Verdicts: `UpdateLicenseRequest`, `FlagLicense`;
`UpdateAccountRequest` (validates), `CommitReply`, `NotifyBroker` (flag and mail).
`RemoveLicense` is the removal, `Killed` the timeout.

The pending page as the code stands: it links `l.picture` for every licence it lists
(`_broker_application.html.erb:60`, `_license_application.html.erb:19`), and licences
have no such attribute since `license_image` took its place; the page raises as soon
as a licence is listed.  `PictureLinks = FALSE` is that page.  With it an
administrator gets buttons only for an account listed alone, and most of the
controller behind the page cannot be reached; `PictureLinks = TRUE` is the page with
the link repaired, which is what `admin_pages_spec.rb` (it still attaches a
`picture`, line 229) describes, and what the two passing runs are about.

Runs:

* `review_one_admin` (two licences, filed; uploads in parallel, faults):
  `AccountNeedsLicenses` (the account is not approved while a licence of the
  registration is not), `NoDanglingRequest` (no request for a licence that is gone),
  `VerdictFinal`, `ImplementsApplication` (see Application).
* `review_two_admins` (two administrators who begin while the requests are being
  filed, no faults, `FairSpec`): `ApprovalTakesEffect` (a verdict served has its
  flags and its mail), `ApprovalReachesBroker`.
* `review_race` (violation; the code as it is, one administrator, no faults): he loads
  the page between the commits of the account's request and of the licence's, sees the
  account alone and approves it; the validation finds no complementary request, and
  the licence's request is created behind the approval.  `admin_pages_spec.rb:305`
  says "should not allow user account to be accepted without first approving
  licenses".  The time between the commits is short, unless the worker is killed
  there and "Submit" is sent again later.  With the page repaired a second
  administrator gets there too, by disapproving a licence between the validation and
  the commit of the account's approval (`Admins = {ann, bob}`, `Filing = FALSE`).

Fairness: weak fairness of `Serve`: a worker that took a request and is not
killed finishes it.  Administrators are not obliged to anything.

Not kept: `LicensesReviewable`, faults (a worker killed between storing a licence and
creating its request, `licenses_controller.rb:7` and `:12`, leaves a licence that is
never reviewed and has no button to remove it); `ApprovedWithLicense` (a broker who
removes all licences is approved without any, `broker_request.rb:8`);
`NoDanglingRequest` with `Submissions = 2` (`has_one` destroys one of two requests,
`license.rb:6`); `ApprovalTakesEffect` with faults (the reply is committed first and
takes the request off the page, `broker_requests_controller.rb:44`);
`OneLicensePerType` with `MaxPending = 2`, `MaxUploads = 3` (`license.rb:12`);
`FlagAgreesWithReply` (the flag is never cleared,
`broker_requests_controller.rb:32`).

## Application

The abstract specification: one application is filed once (`File`) and given its
licences one by one, each once (`Attach`); they are assessed and reassessed
(`Assess`) until the application is decided once (`Decide`), approved only when all
licences in it are accepted; the broker may withdraw licences at any time
(`Withdraw`).  No pages, rows or commits.

`BrokerRegistration` implements it up to the filing (`ImplementsApplication ==
Under!Spec`: open until the account request exists, with the licences that have a
request), checked in `registration_fresh` and proved, killed workers included, for a
broker who waits for his answers; Submit sent twice files a second application.
`BrokerReview` implements it once the licences are attached (`Under!ReviewSpec`: the
stage is the reply to the account request, the licences are those with a
complementary request, the accepted ones those approved), checked in
`review_one_admin` and proved.  Only one administrator, one submission and a review
that begins when everything is filed keep it: the abstract specification lets an
application be decided before a licence is attached, but attaches none to a decided
one, which is what `review_race` does.  That an application whose licences were all
withdrawn is approved is part of the abstract specification because the code allows
it.

## BrokerProfile

Source: `BrokersController#update`, the submission of `SetupBrokersController`,
`Broker#set_assoc_experience`, `ExperiencesController`, `Experience`.  The post of
a broker is in the row and in the experience `current_experience_id` names; each
is copied to the other by a different handler.  `Posts` stands for title and
company, which are always written together, `Places` for the location, which
`Experience` does not copy back.  `job` is the rest of a tab's request with the
values it loaded, since only columns that differ from them are written; `Next`
has the forms of the profile (title, company and location; other fields; send and
validate a code), the three operations on experiences, and one action per
commit.  `settled` is history: what the last write to a current experience made
agree, if it was that of a request that ran alone.

Run `profile_two_tabs` (two posts, two locations, two tabs, two experiences,
faults): `ProfileRenders` (the experience the row names exists and has the flag
that hides its Delete button; the view reads it with `find`), `PostAgrees` (after
a request served alone the profile names one post).  Two tabs are what it takes
to complete a registration twice, to overlap an edit of the row with one of the
experience, and to send a form of a page left open; the second experience is the
one created beside the current one or by a second submission.

Not kept: `OtherFormsKeepExperiences` (a form without title, company and location
compares nil with the row, so every other form rewrites the experience, although
`brokers_controller.rb:65` says it is there "to check if there is a change");
`AlwaysAgrees` (two tabs at once; a worker killed between row and experience);
`ExperiencesShown` (two submissions at once, or one killed between creating and
entering the experience, leave a current one that no page lists and no button
deletes).

## Passwords

Source: `Broker::SessionsController#update`, `encrypt_password` and the
validations of `Broker` and `User`, the account forms.  `row` has the digest (as
the password it is of) and the hours since the last link was sent; `inbox` tells
whether a mailed link carries the token of the row, and `job[w].mine` whether the
token of a request under way still is that of the row: which of several tokens it
is does not matter.  `SendResetPassword`, `StoreSentAt` and `Deliver` are the three
steps of `send_reset_password_msg`, `ResetPassword` and `CommitReset` look-up and
commit of the form behind a link.  Hours pass only between requests, which unicorn
kills after 15 s.  `mailed` and `meant` are history.

Run `passwords_two_workers` (two passwords, two workers, faults, one link asked
for while another is under way): `LinkExpires` (no password is stored through a
link that arrived more than two hours ago, although the time compared is that of
the last link sent), `LinkHasTime` (a link that is found has a time: the
comparison does not raise), `Recovers`.  Run `password_kept` (violation): an empty
field arrives as "" and is encrypted like a password (`broker.rb:357`,
`user.rb:319`), so every other change on the account form replaces the password,
below the words "You can access your account with your password now"
(`users/_form_edit.html.erb:48`).

Fairness, for `Recovers`: a broker who does not know his password asks for a link
and fills in the form of one that works (strong fairness, because a link may be
superseded or expire before it is used); requests are not cut short for ever
(strong fairness of the worker's steps); and he does not for ever overwrite what he
just stored.  `MaxImpatient` keeps him from superseding his own links for ever.

Modelled as the code has it: a link can be used again until it expires; a
provider's broker without user name cannot reset (`valid`), and `Recovers` leaves
him out; on an update a user's confirmation is not compared with the password.  A
user's "Send New Password" raises before anything is stored, because
`EmailConfirmationMailer` has no `send_password`.

## Pictures

Source: `BrokersController#show` and `#update` (`delete_picture`, crop),
`Broker::ImageWorker`, `ImageUploader`, the dialogs of the profile and
`personal_profile.js`.  `files` is what S3 holds under a key, `page` the dialog a
tab offers and the key in its address (such a page can be loaded again), `jobs` the
sidekiq jobs.  Requests and jobs load the row, work, and write the columns that
changed.  What carrierwave does when a record is saved (look up the picture it
replaces, write the row, store the files, remove the replaced ones) is external,
as is sidekiq's retrying.  `halfway` is history: pictures of requests cut short or
refused after their first effect; `late`: a job saved a picture the row no longer
named.

Run `pictures_one_tab` (two pictures, two crops, one worker or job stopped):
`PictureStored` (the picture the row names is in the store, which the broker's own
profile needs to be rendered) and `ProcessingEnds` ("Processing Image..." does not
stay).  Two pictures let one be replaced while a job of the other runs, two crops
let jobs overtake each other.  Fairness: weak fairness of a request's steps and of
a job whose file is found; jobs without a file may be retried or given up.

Not kept: `DeletedStaysDeleted` (a job that downloaded the picture before it was
deleted saves it again, over the next one if there is one); `LastCropShown` (two
jobs end in either order; loading a page with a key again makes thumbnails of the
whole picture); `OnlyPictureStored` (the look-up of the replaced picture comes
before the row is locked).  The exceptions in the properties are needed:
"Delete Picture" while a new address is not validated removes the files and is
then refused (`brokers_controller.rb:52`), and the broker's profile cannot be
rendered any more; after a late job the crop of the next picture can wait for
ever.  With two tabs `PictureStored` holds too (`MaxFaults = 0`, `MaxCrops = 1`,
10 million states, too long for a regular run), but `ProcessingEnds` does not: a
picture deleted in one tab while the other crops it stays in processing.

## MemberSession

Source: `SessionsHelper`, the two sessions controllers, `AuthenticationInHelper`,
`create` and `destroy` of users and brokers, the layout.  The methods of the
helper are operators on a request record (session, cookies, digests, error), so
that a handler is their composition in the code's order; `Respond` writes session
and cookies only when nothing was raised, rows at once.  `signed` and `kept` are
history.

Run `session_two_browsers` (two users, one broker, two browsers, two
remember tokens; two tokens are what it takes to replace one; all three are yet to
sign up.  `Registered` are the members who complete their setup then, here all three.
Browsers and users are symmetric.  No user is an administrator: the one difference
that would make is whose profile `RemoveUser` may try to remove, and that step changes
no row.  A user who never completes the setup, and a broker who is still registering,
whom `BrokerLogin` does not remember, are left to the proofs, which hold for any
`Registered`):
`GreetsOnlySignedIn` (no page greets somebody who did not sign in at this
browser, or signed out), `OneRememberedBrowser`, `UsersKept` (a remembered user
is recognised when the browser is opened again).

Not kept: `BrokersKept`.  A remembered broker is not recognised: his digest is
SHA2, `authenticated?` reads it with BCrypt and raises (`broker.rb:200`), in the
header of every page, the login page included, until the cookies are deleted;
`broker/sessions/new.html.erb:30` offers "Keep me logged in".

Modelled as the code has it: changing from a broker's account to a user's raises
(`broker_log_out`, `forget_token` are not defined), so does a provider's callback
for a user whose setup is not completed, as one just created
(`authentication_in_helper.rb:17` calls `redirect_to_setup`, which the controllers do
not have: the account is there, the session is not), and so does removing a user
(`user.rb:9` names a table without `user_id`; `user_pages_spec.rb:69` expects the
removal); `BrokerSignup` leaves a user signed in beside the broker; users and
brokers share the cookie `auth_token`.  Abstractions: one request per browser at a
time, so that a slow response overtaken by a log out, which would bring the old
session back, is not modelled; members have no notifications (see Testimonies);
passwords are right.

## Testimonies

Source: the controllers of testimonies, stories and comments, `Vote`,
`track_activity`, `ActivityPresenter`.  A handler is one action per commit; `job`
is what a worker still has to do, with the counter it read.  `links` are the
voting links on pages a member opened at any time before.  A member waits for the
answer to his request unless he is `Impatient`.  Two histories: `disturbed` are the
posts on which two votes were under way at once, whose voter was removed or whose vote
was cut short by a kill; `overtaken` the posts of which something was removed while a
request was writing on them.

Run `testimonies_two_workers` (a user, an impatient broker, one post, three votes, one
comment, two workers, kills): `CounterCountsVotes` (the number shown is the number of
votes, posts in `disturbed` aside), `OneVoteEach` (a member who waits has one vote at
most), `VotesPerWorker` (an impatient one never more than there are workers),
`FeedRenders` (the news page finds author, post and comment of every activity, posts
in `overtaken` aside).  Three votes let a vote be given, taken back and given again
while another one is given.  Two workers are what each race takes; the theorems are
for any number of workers, members and posts.  Deadlock is not checked: when the ids
are used up, nothing is left to do.

The exceptions are the races of this code, and all of them happen in the run: two
upvotes of a double click both find no vote and both insert (`vote.rb:6`); two votes
on one post read the same counter (`financial_testimonies_controller.rb:41`), a kill
between vote and counter leaves it wrong, and it is never counted again; a post
removed between its commit and its activity leaves an activity of nothing, and the
news page raises for everybody (`application_controller.rb:12`).  Without its
exception each property is violated in the run; what the properties show is that
nothing else the workers do at the same time leads there.

Not kept: `ToldOnlyVoters`, two posts.  The uniqueness of a vote is scoped to
`financial_story_id` (`vote.rb:6`), nil for every testimony, so who voted on one
testimony is told "You have already voted!" on the next.

Modelled as the code has it: the page of a story cannot be rendered (`show` sets
`@fin_story`, the view reads `@story`), so votes and comments are on testimonies;
the header's link to remove a notification has no route outside the namespaces
`broker`, `user` and `admin`, so a member whose post was commented on cannot open
a testimony (`header_renders`).

## UserSetup

Source: `SetupsController`, `UsersController#update`, `User`.  `rows` are the rows
of users, `forms` the forms on the pages they may use, `mailed` the codes sent,
`proven` history.  `valid` is the validations by the three flags the handlers
set.  Users begin signed up with a user name, or created from a provider, with or
without a name and an email (`user.rb:120-145`).  Faults are refused mail and workers
killed between any two commits of a handler (`Cut`): the handlers store the row two
or three times, always with what they wrote before.

Run `user_setup_two_users` (two users, two addresses, two codes, faults):
`ValidatedByOwnCode` (a code of another user validates nobody), `SetupAsksAll` (a
setup is completed only with both pages filled in).  Two users are needed for
another's code and for an address that is taken.

Not kept: `EmailValidated`.  "Update Account" stores a new address without a reset of
`email_authen` (`users_controller.rb:110`), which `user.rb:93` promises.  With
`StaleForms` `SetupAsksAll` is violated: Previous in one tab, then Submit of the
other with nothing ticked, is validated as the first page
(`setups_controller.rb:20`).

## Proofs

TLAPS checks the theorems for every value of the constants that satisfies the
`ASSUME` of the module (any sets of licence types, addresses, members, browsers,
posts; any bounds).  Every invariant and every action property a passing run
checks is a theorem.  Where a theorem needs more than the `ASSUME` of its module,
the hypothesis is in its statement and holds in the configuration of the run.  Each
hypothesis is needed, but for that of `SelectedStay`: with it dropped, TLC finds a
counterexample (the important ones are under "Not kept" above).

| Hypothesis | What it says of the program | Theorems |
|---|---|---|
| `MaxStale = 0` | the broker uses the page he is shown and waits for its answer | `PagesDone`, `SubmissionComplete`, `FreshPages`, `AddressConfirmed`, `OneApplicationFiled`, `RegistrationImplementsApplication`, `SelectedStay` |
| `~StaleForms` | the user sends only the page he is shown | `SetupComplete` |
| `~Faults` | no refused mail, no killed worker | `AddressConfirmed`, `OneApplicationFiled`, `VerdictsTakeEffect` |
| `MaxUndo = 0` | nobody goes back or removes anything | `IdSurvives` |
| `Submissions = 1` | the registration was submitted once | `NothingDangles`, `LicensesComeFirst`, `ReviewImplementsApplication`, `VerdictsTakeEffect` |
| `OneAdmin` | one administrator at most | `VerdictStays`, `LicensesComeFirst`, `ReviewImplementsApplication` |
| `~Filing` | he begins when all requests of the submission are there | `LicensesComeFirst`, `ReviewImplementsApplication` |

No theorem assumes anything of the number of workers.

The arguments, each with its inductive invariant:

* `BrokerRegistration_proofs`: `TypeCorrect` for all configurations.  `PagesDone`
  and `SubmissionComplete`, faults included.  `PagesBeforeStepDone` is not
  inductive: page 4 compares only the numbers of licences and types, and a commit
  relies on what was validated some commits earlier.  The inductive invariant
  `FreshInv` (in the proof as `Fresh`, page by page; the theorem `FreshPages`) adds
  that the page shown is the page of the row's step, that page 4 has licences and
  upload forms of selected types only, so that equal numbers mean equal sets, that
  only a provider's broker is without a password, that a completed row is at the
  last step, and of the one request under way (`FreshRequest`) that the worker's row
  is still the table's and that what it will write has its pages done.
  * `AddressConfirmed` adds `CodeIsForAddress`: a code that can be answered was
    sent to the address now stored, or the next one is just being mailed
    (`AddressRequest`).  A refused mail breaks exactly that.
  * `RegistrationImplementsApplication`, kills included, rests on `FilingInv`: what a
    submission has filed when it is at a given commit, and that a completed row
    accepts no second one.  Every step leaves the requests alone (`SameRequests`, a
    stutter), files the account (`FilesAccount`, the abstract `File`) or one licence
    not filed before (`FilesLicense`, an `Attach`).  `OneApplicationFiled` adds
    `AllFiled`: whatever is not filed yet is still in the request under way; a kill
    breaks it.
  * `SelectedStay`: the action that could break it is `Edit`, which deletes licences.  It
    is stated for `MaxStale = 0` because `Edit` is one action, which it is only for a
    broker who waits for the page: a selection stored between its loading the row and
    its deleting a licence is not in the model.
  * `FiledAlwaysInOrder`, for all constants: `OrderInv` says that no worker writes the
    flag back, because none has it in memory and changes it, and that a request about
    to file is behind the flag, or behind an account request (`OrderRequest`).
  * `IdSurvives`, for any workers that overtake each other: no page after the second was
    ever shown, and no step after it is stored or about to be stored, without an ID in
    the table (`IdInv`, `IdRequest`); the stale step a slow worker writes is one of
    those.
* `BrokerReview_proofs`: `ReviewTypeCorrect`.  `FilingInv` says that a request about
  to be created is not there and is answered by nobody, ids being used once, and that
  only account requests are validated before they are committed (`AccountJobs`); a
  commit could otherwise revive a request.  With it `NothingDangles`, whose
  `UnfiledStored` is the same for requests still to come.  `VerdictStays`, with
  `PagesFresh` (the administrator's page is up to date on the account, and gone
  while a worker serves him), and `LicensesComeFirst`, with `UploadsOnly` (nothing
  complementary is filed any more) and `LicensesFirst` (the licences stay approved
  from the validation on, and the page loses their buttons with the approval).
  * `ReviewImplementsApplication`: `PagesBare` (once there is a verdict, the page
    has no button for a licence of the registration) makes every reply to such a
    licence an `Assess` before the decision (`AssessStep`), `LicensesFirst` makes
    the commit of an approval a `Decide` (`DecideStep`), a removal is a `Withdraw`
    or, of a later upload, a stutter (`WithdrawStep`), and uploads, flags, mails and
    kills change nothing of the application.
  * `VerdictsTakeEffect`, for any administrators: a verdict without its effect is
    one that a worker still serves, with the same reply (`AccountTold`,
    `LicenseFlagged`).  A second administrator who changes the reply meanwhile has
    his own request under way; that is why the worker is named by `Serving` and
    not by the administrator who gave the first verdict.
* `MemberSession_proofs`: `SessionTypeCorrect`, `GreetsSignedIn`,
  `OneBrowserRemembered`.  Invariant `SessionInv`: `TypeOK`; `SignedInv`, that
  whoever the session, the cookie or the last page of a browser names has signed
  in there and not out; `TokenInv`, that no token is at two browsers.
  `UsersStayKept` adds `KeptInv`: the browser that keeps a user has his cookie with
  the token the database has the digest of, and no broker logged in.  A page that
  found a broker there would delete the token the two kinds of members share; and
  the digest of a user is changed by nothing but his own signing in and out, since
  every other handler changes the digests of brokers only (`SameUsers`).
* `BrokerProfile_proofs`: `ProfileTypeCorrect`, `ProfileAlwaysRenders`, `PostsAgree`,
  for any tabs and faults.  `CurrentThere` and `RequestsSound` say that the
  experience the row names, or a request is about to enter in it, exists and is
  current, which no button deletes.  For `PostsAgree` a request that ran alone so far
  has loaded what is still there (`AloneIsAlone`), and the copies agree or a request
  that changed the row has not got to the experience yet (`Settled`).
* `Passwords_proofs`: `PasswordsTypeCorrect`, `LinksHaveTimes`, `LinksExpire`, for any
  workers and faults.  The row has one time for all links, so the proof needs that
  a link that is found is not older than that time (`NotOlder`); the exception, a
  request that stores its time after another one's link arrived, writes a time at
  which no hour has passed since the mail (`Overtaken`).
* `Pictures_proofs`: `PicturesTypeCorrect` and `PicturesStored`.  `PictureStored` is
  inductive with the type: files are removed only in the steps it names.  The
  theorem covers any number of tabs, which is out of a regular run's reach.
* `Testimonies_proofs`, all for any workers, impatient members and kills:
  `TestimoniesTypeCorrect`.  `OneVotePerMember`: a member who waits has one request
  under way (`Alone`), so that his vote about to be inserted is still his first
  (`NoVoteYet`).  `VotesBounded`: the votes a member has on a post and those of his that
  passed the validation are together no more than the workers (`PerWorkerInv`); each
  validation finds none stored.  `FeedAlwaysRenders`: an activity, and one about to be
  created, finds its member, post and comment unless the post was overtaken
  (`FeedInv`).  `CountersCountVotes`: on a post that is not disturbed one vote is under
  way, what it read is still the counter, and its step says how far the counter is from
  the votes (`Balanced`, `CountInv`).
* `UserSetup_proofs`: `UserTypeCorrect`, `OwnCodeValidates`.  Invariant `UserInv`
  adds `CodesMailed`: the code in a user's row was mailed for that user.
  `SetupComplete` (`SetupAsksAll`) rests on `AtStep`: the form of the second page is
  shown only while the row is at that step.

Left to TLC: liveness under fairness (`Completes`, `ApprovalReachesBroker`,
`Recovers`, `ProcessingEnds`) is outside the prover's reach, and so are the
refutations (`review_race`, `password_kept`).  No module uses recursion.

## Plan

1. Extend: responses in flight in `MemberSession`, the comment list of a testimony
   in `Testimonies`.
2. Prove what the extensions add.

## Not modelled

Private messages (senders and receivers are created by a rake task only, and the
pages raise for a receiver), goals, educations, financial products, the catalogue
of products and companies and the searches (single rows, no rule between them), a
user's picture (posted, but not processed), spendings, the budget wizard and
Yodlee (an earlier product; the last has no route), static pages and mails
(output), Redis (third-party).  The JavaScript under `public/assets` is the output
of the asset pipeline, one copy per deployment: jQuery, jQuery UI, Bootstrap, Jcrop
and the few scripts of `app/assets/javascripts`, which open dialogs and copy
values into forms; the program's logic is the Ruby code.  `PROJECT.json` lists the
parts with their files.

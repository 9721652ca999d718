----------------------------- MODULE AuthClient -----------------------------
(***************************************************************************)
(* Signing in, registering and signing out in the frontend: the reducer of  *)
(* AuthContext and the requests that feed it, the dialog of the sidebar with *)
(* its two forms and the verification screen, and the two pages the server   *)
(* redirects to, /auth/success after OAuth and /auth/verification-success    *)
(* after the link of the verification mail.                                 *)
(*                                                                         *)
(* The server is the environment: it serves a request, changing the login    *)
(* cookie of the browser, and the answer comes back later, or never.         *)
(***************************************************************************)
EXTENDS Integers, FiniteSets

CONSTANTS
  MaxAttempts,    \* how often /auth/success asks before it gives up: 3
  MaxCalls        \* bound: the requests in flight when the user makes another

ASSUME AttemptsAssumption == MaxAttempts \in Nat \ {0} /\ MaxCalls \in Nat \ {0}

VARIABLES
  where,      \* the page of the tab: a page with the sidebar, or a landing page
  cookie,     \* the browser holds a login cookie the server accepts
  auth,       \* the state of AuthContext
  calls,      \* the requests to /auth, and their answers on the way back
  form,       \* the sign-in dialog of the sidebar
  runs,       \* the runs of the effect of /auth/success, dead ones included
  arrival,    \* the status /auth/success shows
  late,       \* the second /auth/me, 1 s after a load of /auth/success, is due
  homing,     \* the 2 s timer of the verification page that goes home
  calm,       \* a user who waits for the answer to what he asked for last
  reliable    \* no request and no answer is lost

authVars ==
  <<where, cookie, auth, calls, form, runs, arrival, late, homing, calm, reliable>>

\* A timer that is set again is another one: two names in turn.
HomingTimers == {"first", "second"}
SetAgain(timer) == IF timer = "first" THEN "second" ELSE "first"

AuthType == [user : BOOLEAN, loading : BOOLEAN, error : BOOLEAN, verify : BOOLEAN]

Ops == {"me", "login", "register", "logout", "resend", "profile"}

CallType ==
  [ op  : Ops,
    by  : {"app", "form", "run", "stale"},   \* who waits for the answer
    res : {"sent", "ok", "refused", "unverified", "lost"} ]

FormType ==
  [ open    : BOOLEAN,
    mode    : {"login", "register"},
    busy    : BOOLEAN,      \* isSubmitting
    sending : BOOLEAN ]     \* isResending

RunType ==
  [ phase     : {"asking", "nap", "pause", "redirect"},
    attempt   : 1..MaxAttempts,
    cancelled : BOOLEAN ]

AuthTypeOK ==
  /\ where \in {"home", "success", "verified"}
  /\ cookie \in BOOLEAN
  /\ auth \in AuthType
  /\ calls \subseteq CallType
  /\ form \in FormType
  /\ runs \subseteq RunType
  /\ arrival \in {"checking", "retrying", "success", "failed"}
  /\ homing \in HomingTimers \cup {"none"}
  /\ {late, calm, reliable} \subseteq BOOLEAN

(***************************************************************************)
(* The reducer.                                                             *)
(***************************************************************************)
InitialAuth == [user |-> FALSE, loading |-> TRUE, error |-> FALSE, verify |-> FALSE]

SetUser(u) == [auth EXCEPT !.user = u, !.loading = FALSE, !.error = FALSE]

\* A bug: the flag is left set on an error.
SetError_StillLoading == [auth EXCEPT !.error = TRUE]

SetError == [auth EXCEPT !.error = TRUE, !.loading = FALSE]
ClearError == [auth EXCEPT !.error = FALSE]
NeedVerification == [auth EXCEPT !.verify = TRUE, !.loading = FALSE]
\* The two dispatches each request of a form begins with.
StartLoading == [auth EXCEPT !.loading = TRUE, !.error = FALSE]

(***************************************************************************)
(* A dispatch renders the whole tree below AuthProvider again. The sidebar   *)
(* takes the dialog down once there is a user. The effect of /auth/success   *)
(* depends on checkAuthStatus, a new function in each render, so it cancels  *)
(* its run and starts another one, which asks again. The effect of the       *)
(* verification page depends on the user, and sets its timer again.          *)
(***************************************************************************)
NoForm == [open |-> FALSE, mode |-> "login", busy |-> FALSE, sending |-> FALSE]

Me(who) == [op |-> "me", by |-> who, res |-> "sent"]

NewRun == [phase |-> "asking", attempt |-> 1, cancelled |-> FALSE]

Cancelled(rs) == {[r EXCEPT !.cancelled = TRUE] : r \in rs}

Relabelled(cs, old, new) ==
  {IF c.by = old THEN [c EXCEPT !.by = new] ELSE c : c \in cs}

\* A bug: the verification page, like /auth/success, asks again in each render.
Dispatch_AsksAgain(a, cs, f, rs) ==
  /\ auth' = a
  /\ form' = IF a.user THEN NoForm ELSE f
  /\ IF where = "success"
     THEN /\ calls' = Relabelled(cs, "run", "stale") \cup {Me("run")}
          /\ runs' = Cancelled(rs) \cup {NewRun}
          /\ arrival' = "checking"
     ELSE /\ calls' = IF where = "verified" THEN cs \cup {Me("app")}
                       ELSE IF a.user THEN Relabelled(cs, "form", "app") ELSE cs
          /\ runs' = rs
          /\ UNCHANGED arrival
  /\ homing' = IF where = "verified" THEN SetAgain(homing) ELSE "none"

\* The new state a, with requests cs, dialog f and runs rs left by what led to it.
Dispatch(a, cs, f, rs) ==
  /\ auth' = a
  /\ form' = IF a.user THEN NoForm ELSE f
  /\ IF where = "success"
     THEN /\ calls' = Relabelled(cs, "run", "stale") \cup {Me("run")}
          /\ runs' = Cancelled(rs) \cup {NewRun}
          /\ arrival' = "checking"
     ELSE /\ calls' = IF a.user THEN Relabelled(cs, "form", "app") ELSE cs
          /\ runs' = rs
          /\ UNCHANGED arrival
  /\ homing' = IF where = "verified" THEN SetAgain(homing) ELSE "none"

\* A load of the document at w: the provider asks who is logged in, and so does
\* the first run of /auth/success; nothing of the old document is left.
LoadAt(w) ==
  /\ where' = w
  /\ auth' = InitialAuth
  /\ calls' = {Me("app")} \cup (IF w = "success" THEN {Me("run")} ELSE {})
  /\ form' = NoForm
  /\ runs' = IF w = "success" THEN {NewRun} ELSE {}
  /\ arrival' = "checking"
  /\ late' = (w = "success")
  /\ homing' = IF w = "verified" THEN "first" ELSE "none"
  /\ UNCHANGED <<calm, reliable>>

AuthStarts(a, cs) ==
  /\ where = "home"
  /\ cookie \in BOOLEAN
  /\ auth = a
  /\ calls = cs
  /\ form = NoForm
  /\ runs = {}
  /\ arrival = "checking"
  /\ late = FALSE
  /\ homing = "none"
  /\ calm \in BOOLEAN
  /\ reliable \in BOOLEAN

AuthInit == AuthStarts(InitialAuth, {Me("app")})

\* Nobody is logged in, and nothing is asked.
AuthRests ==
  /\ AuthStarts([InitialAuth EXCEPT !.loading = FALSE], {})
  /\ calm /\ reliable /\ ~cookie

Calm ==
  /\ calm => calls = {}
  /\ Cardinality(calls) < MaxCalls

(***************************************************************************)
(* The dialog. The sidebar offers it while nobody is logged in and nothing  *)
(* is loading; its forms are unmounted when it closes or switches.          *)
(***************************************************************************)
LoginOffered == where = "home" /\ ~auth.user /\ ~auth.loading

\* The dialog shows a form, whose buttons are enabled, or the verification
\* screen, whose button is.
FormShown == form.open /\ ~auth.verify
FormUsable == FormShown /\ ~form.busy
VerificationShown == form.open /\ auth.verify
ResendUsable == VerificationShown /\ ~form.sending /\ ~auth.loading

OpenDialog ==
  /\ LoginOffered /\ ~form.open
  /\ form' = [form EXCEPT !.open = TRUE]
  /\ UNCHANGED <<where, cookie, auth, calls, runs, arrival, late, homing, calm, reliable>>

CloseDialog ==
  /\ Calm
  /\ form.open
  /\ form' = [form EXCEPT !.open = FALSE, !.busy = FALSE, !.sending = FALSE]
  /\ calls' = Relabelled(calls, "form", "app")
  /\ UNCHANGED <<where, cookie, auth, runs, arrival, late, homing, calm, reliable>>

SwitchForm ==
  /\ Calm
  /\ FormShown
  /\ form' = [ form EXCEPT !.mode = IF @ = "login" THEN "register" ELSE "login",
                           !.busy = FALSE ]
  /\ calls' = Relabelled(calls, "form", "app")
  /\ UNCHANGED <<where, cookie, auth, runs, arrival, late, homing, calm, reliable>>

\* Typing clears the error; so does the Back button of the verification screen,
\* which leaves the screen up: nothing resets emailVerificationNeeded.
EditOrBack ==
  /\ form.open
  /\ auth.error \/ VerificationShown
  /\ Dispatch(ClearError, calls,
              [form EXCEPT !.busy = @ /\ ~(auth.verify /\ form.mode = "register")],
              runs)
  /\ UNCHANGED <<where, cookie, late, calm, reliable>>

FormCall(op) == [op |-> op, by |-> "form", res |-> "sent"]

\* handleSubmit of the form that is shown, with an input that passes its checks.
Submit ==
  /\ Calm
  /\ FormUsable
  /\ Dispatch(StartLoading, calls \cup {FormCall(form.mode)},
              [form EXCEPT !.busy = TRUE], runs)
  /\ UNCHANGED <<where, cookie, late, calm, reliable>>

Resend ==
  /\ Calm
  /\ ResendUsable
  /\ Dispatch(StartLoading, calls \cup {FormCall("resend")},
              [form EXCEPT !.sending = TRUE], runs)
  /\ UNCHANGED <<where, cookie, late, calm, reliable>>

\* The GitHub button leaves the document; the server's callback logs the user
\* in and redirects to /auth/success.
LoginWithGitHub ==
  /\ Calm
  /\ FormUsable
  /\ cookie' = TRUE
  /\ LoadAt("success")

\* The link of the mail: it logs the user in and redirects.
OpenVerificationLink ==
  /\ Calm
  /\ auth.verify
  /\ cookie' = TRUE
  /\ LoadAt("verified")

\* A reload, of a page that waits for nothing (one that is reloaded for ever
\* waits for ever), or the address of the front page, typed on a landing page.
ReloadTab ==
  /\ \/ calls = {} /\ LoadAt(where)
     \/ where # "home" /\ LoadAt("home")
  /\ UNCHANGED cookie

(***************************************************************************)
(* The user menu and the profile page.                                      *)
(***************************************************************************)
AppCall(op) ==
  /\ Calm
  /\ where = "home" /\ auth.user
  /\ calls' = calls \cup {[op |-> op, by |-> "app", res |-> "sent"]}
  /\ UNCHANGED <<where, cookie, auth, form, runs, arrival, late, homing, calm, reliable>>

HandleLogout == ~auth.loading /\ AppCall("logout")

SaveProfile == AppCall("profile")

(***************************************************************************)
(* The server.                                                              *)
(***************************************************************************)
Results(op) ==
  CASE op = "me" -> IF cookie THEN {"ok"} ELSE {"refused"}
    [] op = "profile" -> IF cookie THEN {"ok", "refused"} ELSE {"refused"}
    [] op = "login" -> {"ok", "refused", "unverified"}
    [] op = "logout" -> {"ok"}
    [] OTHER -> {"ok", "refused"}

Serve(op) ==
  \E c \in calls : \E r \in Results(op) :
    /\ c.op = op /\ c.res = "sent"
    /\ calls' = (calls \ {c}) \cup {[c EXCEPT !.res = r]}
    /\ cookie' = CASE op = "login" /\ r = "ok" -> TRUE
                   [] op = "logout" -> FALSE
                   [] OTHER -> cookie
    /\ UNCHANGED <<where, auth, form, runs, arrival, late, homing, calm, reliable>>

\* The request is lost before the server sees it, or its answer after.
Lose ==
  /\ ~reliable
  /\ \E c \in calls :
       /\ c.res # "lost"
       /\ calls' = (calls \ {c}) \cup {[c EXCEPT !.res = "lost"]}
  /\ UNCHANGED <<where, cookie, auth, form, runs, arrival, late, homing, calm, reliable>>

(***************************************************************************)
(* The answers.                                                             *)
(***************************************************************************)
\* The run that awaited checkAuthStatus goes to sleep for a second.
Napping(c) ==
  {IF r.phase = "asking" /\ r.cancelled = (c.by = "stale")
   THEN [r EXCEPT !.phase = "nap"] ELSE r : r \in runs}

MeAnswered(c) ==
  Dispatch(SetUser(c.res = "ok"), calls \ {c}, form,
           IF c.by \in {"run", "stale"} THEN Napping(c) ELSE runs)

\* A bug: the login form resets nothing.
FormAnswered_StaysBusy(c) ==
  LET registered == c.op = "register" /\ c.res = "ok"
      a == IF c.op = "login" /\ c.res = "ok" THEN SetUser(TRUE)
           ELSE IF registered \/ c.res = "unverified" THEN NeedVerification
           ELSE SetError
      idle == c.by = "form" /\ c.op = "register"
  IN  Dispatch(a, calls \ {c}, [form EXCEPT !.busy = @ /\ ~idle], runs)

\* login and register, and what their forms make of the result. A successful
\* login leaves its button disabled: the form goes with the dialog.
FormAnswered(c) ==
  LET registered == c.op = "register" /\ c.res = "ok"
      a == IF c.op = "login" /\ c.res = "ok" THEN SetUser(TRUE)
           ELSE IF registered \/ c.res = "unverified" THEN NeedVerification
           ELSE SetError
      idle == c.by = "form" /\ (c.op = "register" \/ c.res # "ok")
  IN  Dispatch(a, calls \ {c}, [form EXCEPT !.busy = @ /\ ~idle], runs)

ResendAnswered(c) ==
  Dispatch(IF c.res = "ok" THEN [auth EXCEPT !.loading = FALSE] ELSE SetError,
           calls \ {c}, [form EXCEPT !.sending = @ /\ c.by # "form"], runs)

\* A bug: the user stays.
LogoutAnswered_KeepsUser(c) == Dispatch(ClearError, calls \ {c}, form, runs)

\* logout dispatches LOGOUT whatever became of its request.
LogoutAnswered(c) == Dispatch(SetUser(FALSE), calls \ {c}, form, runs)

\* A saved profile is read again.
ProfileAnswered(c) ==
  /\ calls' = (calls \ {c}) \cup (IF c.res = "ok" THEN {Me("app")} ELSE {})
  /\ UNCHANGED <<auth, form, runs, arrival, homing>>

AnswerCall(op) ==
  \E c \in calls :
    /\ c.op = op /\ c.res # "sent"
    /\ CASE op = "me" -> MeAnswered(c)
         [] op \in {"login", "register"} -> FormAnswered(c)
         [] op = "resend" -> ResendAnswered(c)
         [] op = "logout" -> LogoutAnswered(c)
         [] OTHER -> ProfileAnswered(c)
    /\ UNCHANGED <<where, cookie, late, calm, reliable>>

(***************************************************************************)
(* The timers of the landing pages.                                         *)
(***************************************************************************)
LateCheck ==
  /\ late
  /\ late' = FALSE
  /\ calls' = calls \cup {Me("app")}
  /\ UNCHANGED <<where, cookie, auth, form, runs, arrival, homing, calm, reliable>>

\* A run of /auth/success wakes up. A cancelled one returns; a live one that
\* finds a user shows it and goes home, and else asks again, so many times.
Wake ==
  \E r \in runs :
    LET rest == runs \ {r}
        found == ~r.cancelled /\ r.phase = "nap" /\ auth.user
        missed == ~r.cancelled /\ r.phase = "nap" /\ ~auth.user
        again == ~r.cancelled /\ r.phase = "pause" /\ r.attempt < MaxAttempts
        over == ~r.cancelled /\ r.phase = "pause" /\ r.attempt = MaxAttempts
        home == ~r.cancelled /\ r.phase = "redirect"
    IN
    /\ r.phase # "asking"
    /\ runs' = IF found THEN rest \cup {[r EXCEPT !.phase = "redirect"]}
               ELSE IF missed THEN rest \cup {[r EXCEPT !.phase = "pause"]}
               ELSE IF again
                 THEN rest \cup {[r EXCEPT !.phase = "asking", !.attempt = @ + 1]}
               ELSE rest
    /\ arrival' = IF found THEN "success" ELSE IF missed THEN "retrying"
                  ELSE IF again THEN "checking" ELSE IF over THEN "failed"
                  ELSE arrival
    /\ calls' = IF again THEN calls \cup {Me("run")} ELSE calls
    /\ where' = IF home THEN "home" ELSE where
    /\ UNCHANGED <<cookie, auth, form, late, homing, calm, reliable>>

GoHome(timer) ==
  /\ homing = timer
  /\ where' = "home"
  /\ homing' = "none"
  /\ UNCHANGED <<cookie, auth, calls, form, runs, arrival, late, calm, reliable>>

AuthNext ==
  \/ OpenDialog \/ CloseDialog \/ SwitchForm \/ EditOrBack
  \/ Submit \/ Resend \/ LoginWithGitHub
  \/ OpenVerificationLink \/ ReloadTab
  \/ HandleLogout \/ SaveProfile
  \/ \E op \in Ops : Serve(op) \/ AnswerCall(op)
  \/ Lose
  \/ LateCheck \/ Wake
  \/ \E timer \in HomingTimers : GoHome(timer)

\* Requests are served and answered, if only with an error, and timers fire that
\* are not set again before.
AuthFairness ==
  /\ \A op \in Ops : WF_authVars(Serve(op)) /\ WF_authVars(AnswerCall(op))
  /\ WF_authVars(LateCheck)
  /\ WF_authVars(Wake)
  /\ \A timer \in HomingTimers : WF_authVars(GoHome(timer))

AuthSpec == AuthInit /\ [][AuthNext]_authVars /\ AuthFairness

(***************************************************************************)
(* Properties.                                                              *)
(***************************************************************************)
\* Once everything is answered, the frontend shows a user exactly when the
\* browser is logged in: by whatever sequence of forms, loads, redirects and
\* answers a user who waits for his answers came there. (One who does not can
\* sign out while a saved profile is read again, and stay on the screen.)
SettledAgrees == calm /\ reliable /\ calls = {} => auth.user = cookie

\* The sidebar, which offers nothing while the context is loading, comes back:
\* each of the five requests that set the flag clears it on every outcome.
LoadingEnds == auth.loading ~> ~auth.loading

\* No button stays disabled: a form that submits becomes usable again or goes
\* away, although a successful login does not reset it itself.
FormsFinish == form.busy \/ form.sending ~> ~form.busy /\ ~form.sending

\* The verification page goes home, although its effect sets its timer again
\* with each answer that changes the user, and only a timer that is left alone
\* fires: its renders come to an end. Only a user who loads the page again and
\* again, each time setting the loading flag, stays there.
VerifiedGoesHome == <>[](where = "verified") => []<>auth.loading

\* What /auth/success is for and says it does (AuthSuccessRoute.jsx:213-214): a
\* user who comes back from OAuth with a login is greeted and taken home.
SignInCompletes ==
  where = "success" /\ cookie /\ reliable ~> arrival = "success" \/ where # "success"

=============================================================================

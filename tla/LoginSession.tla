---------------------------- MODULE LoginSession ----------------------------
(***************************************************************************)
(* The login of a head unit: its registration screen shows a QR code and   *)
(* polls for the login session, a user scans the code and signs in at      *)
(* Hyundai, whose redirect brings the user's vehicles (GET                 *)
(* /auth/redirect), and the app confirms one of them for its tokens (POST  *)
(* /auth/confirm-car, POST /auth/refresh).                                 *)
(*                                                                         *)
(* Sessions are numbered in the order the app draws them, and the hash of  *)
(* the VIN and a session is that session's number.  The rows of users are  *)
(* left out: they are written before anything that refers to them.         *)
(***************************************************************************)
EXTENDS Naturals

CONSTANTS
  MaxSessions,  \* bound on the sessions the app draws
  Users,
  Cars,
  CarsOf,       \* per user: the vehicles Hyundai lists
  Visits,       \* scans of a QR code, each with a browser and an OAuth state
  Confirms,     \* requests to confirm a vehicle
  Scenarios     \* the sets of faults a behaviour may be exposed to

\* A request dies, or Redis or the database refuses it; a record's lifetime ends (5 or
\* 15 min), or the temporary token's; a call to Hyundai fails; an answer to the app is
\* lost, or comes after it stopped waiting; the browser loads the redirect twice; a
\* code is scanned twice; the user draws another code while one is shown, or gives up
\* (as the screen does after 5 min); an hour or a month passes; a call to the back end
\* is refused for its own reasons (as a vehicle is whose plate another one has).
FaultKinds == {"crash", "expiry", "provider", "lost", "timeout", "repeat", "second",
               "refresh", "patience", "hour", "month", "refused"}

ASSUME LoginAssumption ==
  /\ MaxSessions \in Nat
  /\ Scenarios \subseteq SUBSET FaultKinds
  /\ CarsOf \in [Users -> SUBSET Cars]

VARIABLES
  faults,     \* what may go wrong in this behaviour, fixed from the start
  app,        \* registration screen and tokens: [step, session, confirm, access, refresh]
  render,     \* per session: the thread that asks for its code, [pc, session]
  shown,      \* the session of the code on the screen
  poll,       \* per session: the polls it started, [pc, session, user]
  qr,         \* qr_session: [status, hash]
  visit,      \* per scan: [session, user, state], state the status of its oauth_state
  exchanged,  \* the scans whose code Hyundai has exchanged
  callback,   \* per scan and load of the redirect: the handler's step
  held,       \* per scan and load: the hash of the QR session its mark_failed has read
  oauth,      \* hyundai_oauth: the user of a session
  login,      \* app_login_result: the user of a session
  confirm,    \* per request: [pc, session, user, car, hash]
  vehicle,    \* vehicles: the user of a car
  rows        \* app_refresh_tokens: the status of a request's token

appVars      == <<app, render, shown, poll>>
recordVars   == <<oauth, login>>
callbackVars == <<visit, exchanged, callback, held>>
dbVars       == <<vehicle, rows>>
loginVars    == <<appVars, qr, callbackVars, recordVars, confirm, dbVars>>
vars         == <<faults, loginVars>>

Sessions  == 1..MaxSessions
NoSession == 0
NoUser    == "no user"
NoCar     == "no car"
NoToken   == "no token"
NullText  == "null"      \* the text the app makes of a JSON null
Loads     == 1..2        \* loads of the redirect

AppNew      == [step |-> "out", session |-> NoSession, confirm |-> NoToken,
                access |-> "none", refresh |-> NoToken]
RenderOff   == [pc |-> "off", session |-> NoSession]
PollOff     == [pc |-> "off", session |-> NoSession, user |-> NoUser]
VisitNew    == [session |-> NoSession, user |-> NoUser, state |-> "none"]
ConfirmIdle == [pc |-> "idle", session |-> NoSession, user |-> NoUser, car |-> NoCar,
                hash |-> NoSession]

CallbackPcs == {"exchange", "oauth", "login", "used", "fail", "write"}
BindPcs     == {"insert", "update", "keep"}
ConfirmPcs  == {"check", "bind", "row", "delete"} \cup BindPcs

TypeOK ==
  /\ faults \in Scenarios
  /\ app \in [step : {"out", "poll", "stuck", "confirm", "in"}, session : 0..MaxSessions,
              confirm : Confirms \cup {NoToken}, access : {"none", "valid", "late", "old"},
              refresh : Confirms \cup {NullText, NoToken}]
  /\ render \in [Sessions -> [pc : {"off", "start", "sent", "saved"}, session : 0..MaxSessions]]
  /\ shown \in 0..MaxSessions
  /\ poll \in [Sessions -> [pc : {"off", "due", "asked", "got"}, session : 0..MaxSessions,
                            user : Users \cup {NoUser}]]
  /\ qr \in [Sessions -> [status : {"none", "pending", "failed", "gone"}, hash : 0..MaxSessions]]
  /\ visit \in [Visits -> {VisitNew} \cup
                  [session : Sessions, user : Users, state : {"pending", "used", "gone"}]]
  /\ exchanged \subseteq Visits
  /\ callback \in [Visits -> [Loads -> CallbackPcs \cup {"idle", "over"}]]
  /\ held \in [Visits -> [Loads -> 0..MaxSessions]]
  /\ oauth \in [Sessions -> Users \cup {NoUser}]
  /\ login \in [Sessions -> Users \cup {NoUser}]
  /\ confirm \in [Confirms -> {ConfirmIdle} \cup
                    [pc : ConfirmPcs \cup {"done", "refused", "over"}, session : 0..MaxSessions,
                     user : Users, car : Cars, hash : 0..MaxSessions]]
  /\ vehicle \in [Cars -> Users \cup {NoUser}]
  /\ rows \in [Confirms -> {"none", "active", "due", "expired"}]

Init ==
  /\ faults \in Scenarios
  /\ app = AppNew
  /\ render = [s \in Sessions |-> RenderOff]
  /\ shown = NoSession
  /\ poll = [s \in Sessions |-> PollOff]
  /\ qr = [s \in Sessions |-> [status |-> "none", hash |-> NoSession]]
  /\ visit = [v \in Visits |-> VisitNew]
  /\ exchanged = {}
  /\ callback = [v \in Visits |-> [i \in Loads |-> "idle"]]
  /\ held = [v \in Visits |-> [i \in Loads |-> NoSession]]
  /\ oauth = [s \in Sessions |-> NoUser]
  /\ login = [s \in Sessions |-> NoUser]
  /\ confirm = [k \in Confirms |-> ConfirmIdle]
  /\ vehicle = [c \in Cars |-> NoUser]
  /\ rows = [k \in Confirms |-> "none"]

-----------------------------------------------------------------------------
(* RegistrationActivity: the code and the polls.                           *)

Quiet == /\ \A s \in Sessions : poll[s].pc = "off" /\ render[s].pc = "off"
         /\ \A k \in Confirms : confirm[k].pc \notin ConfirmPcs

\* The next unused name of a request or a scan.
Unused(f, new) ==
  {k \in DOMAIN f : f[k] = new /\ k = CHOOSE j \in DOMAIN f : f[j] = new}

\* What the screen's handler has queued is taken off: polls that are due, and answers
\* that were posted; an answer its thread has not posted yet stays.
Unqueued(p) ==
  {[s \in Sessions |-> IF p[s].pc = "due" \/ s \in posted THEN PollOff ELSE p[s]] :
     posted \in SUBSET {s \in Sessions : p[s].pc = "got"}}

\* The screen opens, or its button draws another code.  A screen that is opened again
\* is opened an hour after the threads of the last have ended.
DrawSession ==
  LET s == app.session + 1 IN
  /\ s \in Sessions
  /\ \/ app.step = "out" /\ Quiet
     \/ app.step = "stuck"
     \/ app.step = "poll" /\ "refresh" \in faults
  /\ app' = [app EXCEPT !.step = "poll", !.session = s]
  /\ render' = [render EXCEPT ![s].pc = "start"]
  /\ poll' \in {[p EXCEPT ![s].pc = "due"] : p \in Unqueued(poll)}
  /\ shown' = NoSession
  /\ UNCHANGED <<faults, qr, callbackVars, recordVars, confirm, dbVars>>

\* The thread has the hash of the session it was started for; the session it reads
\* when it runs.
SendQr(h) ==
  /\ render[h].pc = "start"
  /\ render' = [render EXCEPT ![h] = [pc |-> "sent", session |-> app.session]]
  /\ UNCHANGED <<faults, app, shown, poll, qr, callbackVars, recordVars, confirm, dbVars>>

\* CreateQrSessionService.
SaveQr(h) ==
  /\ render[h].pc = "sent"
  /\ \/ /\ qr' = [qr EXCEPT ![render[h].session] = [status |-> "pending", hash |-> h]]
        /\ render' = [render EXCEPT ![h].pc = "saved"]
     \/ "crash" \in faults /\ render' = [render EXCEPT ![h] = RenderOff] /\ UNCHANGED qr
  /\ UNCHANGED <<faults, app, shown, poll, callbackVars, recordVars, confirm, dbVars>>

ShowQr(h) ==
  /\ render[h].pc = "saved"
  /\ shown' = render[h].session
  /\ render' = [render EXCEPT ![h] = RenderOff]
  /\ UNCHANGED <<faults, app, poll, qr, callbackVars, recordVars, confirm, dbVars>>

\* doPoll: nothing once the screen stopped polling.
AskStatus(s) ==
  /\ poll[s].pc = "due"
  /\ poll' = [poll EXCEPT ![s] = IF app.step = "poll"
                                 THEN [PollOff EXCEPT !.pc = "asked", !.session = app.session]
                                 ELSE PollOff]
  /\ UNCHANGED <<faults, app, render, shown, qr, callbackVars, recordVars, confirm, dbVars>>

\* Mutant: the QR session is looked up before the login result.
LoginResultNot(s) == IF qr[s].status = "pending" THEN login[s] ELSE NoUser

\* GetLoginSessionStatusService: the login result comes before the QR session, whose
\* errors the app takes for "pending".
LoginResult(s) == login[s]

TellStatus(s) ==
  /\ poll[s].pc = "asked"
  /\ \E u \in {LoginResult(poll[s].session)} \cup {n \in {NoUser} : {"lost", "crash"} \cap faults # {}} :
       poll' = [poll EXCEPT ![s].pc = "got", ![s].user = u]
  /\ UNCHANGED <<faults, app, render, shown, qr, callbackVars, recordVars, confirm, dbVars>>

HearPending(s) ==
  /\ poll[s].pc = "got"
  /\ poll[s].user = NoUser \/ app.step \notin {"poll", "stuck"}
  /\ poll' = [poll EXCEPT ![s] = IF app.step = "poll" THEN [PollOff EXCEPT !.pc = "due"] ELSE PollOff]
  /\ UNCHANGED <<faults, app, render, shown, qr, callbackVars, recordVars, confirm, dbVars>>

\* onLoginComplete: a vehicle of the list is confirmed, with the hash of the session
\* the screen has now; without a vehicle, or if the picker is left, nothing polls.
HearComplete(s) ==
  LET u == poll[s].user IN
  /\ poll[s].pc = "got" /\ u # NoUser
  /\ app.step \in {"poll", "stuck"}
  /\ \/ \E k \in Unused(confirm, ConfirmIdle), c \in CarsOf[u] :
          /\ confirm' = [confirm EXCEPT ![k] = [pc |-> "check", session |-> poll[s].session,
                                                user |-> u, car |-> c, hash |-> app.session]]
          /\ app' = [app EXCEPT !.step = "confirm", !.confirm = k]
     \/ /\ CarsOf[u] = {} \/ "patience" \in faults
        /\ app' = [app EXCEPT !.step = "stuck"]
        /\ UNCHANGED confirm
  /\ poll' \in Unqueued([poll EXCEPT ![s] = PollOff])
  /\ UNCHANGED <<faults, render, shown, qr, callbackVars, recordVars, dbVars>>

StopPolling ==
  /\ "patience" \in faults
  /\ app.step = "poll"
  /\ app' = [app EXCEPT !.step = "stuck"]
  /\ UNCHANGED <<faults, render, shown, poll, qr, callbackVars, recordVars, confirm, dbVars>>

-----------------------------------------------------------------------------
(* The browser: StartHyundaiOAuthService, HandleHyundaiOAuthCallbackService. *)

StartOAuth(v, u) ==
  /\ v \in Unused(visit, VisitNew)
  /\ shown # NoSession /\ qr[shown].status = "pending"
  /\ "second" \in faults \/ \A w \in Visits : visit[w].session # shown
  /\ visit' = [visit EXCEPT ![v] = [session |-> shown, user |-> u, state |-> "pending"]]
  /\ UNCHANGED <<faults, appVars, qr, exchanged, callback, held, recordVars, confirm, dbVars>>

ToStep(v, i, pc) == callback' = [callback EXCEPT ![v][i] = pc]

\* A QR session that failed is accepted.
TakeCallback(v, i) ==
  /\ callback[v][i] = "idle" /\ visit[v] # VisitNew
  /\ i = 2 => "repeat" \in faults /\ callback[v][1] # "idle"
  /\ ToStep(v, i, IF visit[v].state = "pending" /\ qr[visit[v].session].status \in {"pending", "failed"}
                  THEN "exchange" ELSE "over")
  /\ UNCHANGED <<faults, appVars, qr, visit, exchanged, held, recordVars, confirm, dbVars>>

\* Hyundai exchanges a code once, then gives the profile and the vehicles.
Exchange(v, i) ==
  /\ callback[v][i] = "exchange"
  /\ \/ v \notin exchanged /\ exchanged' = exchanged \cup {v} /\ ToStep(v, i, "oauth")
     \/ v \in exchanged /\ ToStep(v, i, "fail") /\ UNCHANGED exchanged
     \/ /\ "provider" \in faults
        /\ ToStep(v, i, "fail")
        /\ exchanged' \in {exchanged, exchanged \cup {v}}
  /\ UNCHANGED <<faults, appVars, qr, visit, held, recordVars, confirm, dbVars>>

\* mark_failed reads the QR session, and writes back what it read with the new status,
\* even if the record is gone or another one by then.
ReadQr(v, i) ==
  LET read == qr[visit[v].session] IN
  /\ callback[v][i] = "fail"
  /\ IF read.status = "gone"
     THEN ToStep(v, i, "over") /\ UNCHANGED held
     ELSE ToStep(v, i, "write") /\ held' = [held EXCEPT ![v][i] = read.hash]
  /\ UNCHANGED <<faults, appVars, qr, visit, exchanged, recordVars, confirm, dbVars>>

FailQr(v, i) ==
  /\ callback[v][i] = "write"
  /\ qr' = [qr EXCEPT ![visit[v].session] = [status |-> "failed", hash |-> held[v][i]]]
  /\ held' = [held EXCEPT ![v][i] = NoSession]
  /\ ToStep(v, i, "over")
  /\ UNCHANGED <<faults, appVars, visit, exchanged, recordVars, confirm, dbVars>>

SaveOAuth(v, i) ==
  /\ callback[v][i] = "oauth"
  /\ oauth' = [oauth EXCEPT ![visit[v].session] = visit[v].user]
  /\ ToStep(v, i, "login")
  /\ UNCHANGED <<faults, appVars, qr, visit, exchanged, held, login, confirm, dbVars>>

SaveLogin(v, i) ==
  /\ callback[v][i] = "login"
  /\ login' = [login EXCEPT ![visit[v].session] = visit[v].user]
  /\ ToStep(v, i, "used")
  /\ UNCHANGED <<faults, appVars, qr, visit, exchanged, held, oauth, confirm, dbVars>>

\* Mutant: the state is spelled as a parking session's.
UsedAs == "completed"

Used == "used"

\* A state that is gone is as good as used.
MarkUsed(v, i) ==
  /\ callback[v][i] = "used"
  /\ visit' = [visit EXCEPT ![v].state = IF @ = "gone" THEN @ ELSE Used]
  /\ ToStep(v, i, "over")
  /\ UNCHANGED <<faults, appVars, qr, exchanged, held, recordVars, confirm, dbVars>>

-----------------------------------------------------------------------------
(* POST /auth/confirm-car: ConfirmVehicleService.                          *)

To(k, pc) == confirm' = [confirm EXCEPT ![k].pc = pc]

ResultUser(s) == IF oauth[s] # NoUser THEN oauth[s] ELSE login[s]

Listed(k) ==
  LET u == ResultUser(confirm[k].session) IN u # NoUser /\ confirm[k].car \in CarsOf[u]

\* Mutant: the hash of the VIN is only checked to be there.
HashMatchesNot(k) == confirm[k].hash # NoSession

HashMatches(k) == qr[confirm[k].session].hash = confirm[k].hash

CheckConfirm(k) ==
  /\ confirm[k].pc = "check"
  /\ \/ To(k, IF /\ Listed(k)
                 /\ qr[confirm[k].session].status \in {"pending", "failed"}
                 /\ HashMatches(k) THEN "bind" ELSE "refused")
     \/ "expiry" \in faults /\ To(k, "refused")
  /\ UNCHANGED <<faults, appVars, qr, callbackVars, recordVars, dbVars>>

\* Mutant: the user is taken from the stored result.
OwnerOfNot(k) == ResultUser(confirm[k].session)

\* The user of the temporary token.
OwnerOf(k) == confirm[k].user

\* upsert_vehicle looks for the vehicle, and writes what has to be written; an insert
\* that comes second, or a plate another vehicle has, is an IntegrityError.
FindVehicle(k) ==
  LET user == vehicle[confirm[k].car] IN
  /\ confirm[k].pc = "bind"
  /\ To(k, IF user = NoUser THEN "insert" ELSE IF user = OwnerOf(k) THEN "keep" ELSE "update")
  /\ UNCHANGED <<faults, appVars, qr, callbackVars, recordVars, dbVars>>

UpsertVehicle(k) ==
  /\ confirm[k].pc \in BindPcs
  /\ \/ /\ confirm[k].pc = "insert" => vehicle[confirm[k].car] = NoUser
        /\ vehicle' = [vehicle EXCEPT ![confirm[k].car] = IF confirm[k].pc = "keep" THEN @ ELSE OwnerOf(k)]
        /\ To(k, "row")
     \/ /\ \/ "refused" \in faults
           \/ confirm[k].pc = "insert" /\ vehicle[confirm[k].car] # NoUser
        /\ To(k, "refused")
        /\ UNCHANGED vehicle
  /\ UNCHANGED <<faults, appVars, qr, callbackVars, recordVars, rows>>

SaveTokenHash(k) ==
  /\ confirm[k].pc = "row"
  /\ rows' = [rows EXCEPT ![k] = "active"]
  /\ To(k, "delete")
  /\ UNCHANGED <<faults, appVars, qr, callbackVars, recordVars, vehicle>>

DeleteLogin(k) ==
  /\ confirm[k].pc = "delete"
  /\ login' = [login EXCEPT ![confirm[k].session] = NoUser]
  /\ To(k, "done")
  /\ UNCHANGED <<faults, appVars, qr, callbackVars, oauth, dbVars>>

\* completeRegistration has its answer, or none.
HearConfirm(k) ==
  /\ confirm[k].pc \in {"done", "refused"}
  /\ app' = IF app.step # "confirm" \/ app.confirm # k THEN app
            ELSE IF confirm[k].pc = "done"
            THEN [app EXCEPT !.step = "in", !.access = "valid", !.refresh = k]
            ELSE [app EXCEPT !.step = "stuck"]
  /\ To(k, "over")
  /\ UNCHANGED <<faults, render, shown, poll, qr, callbackVars, recordVars, dbVars>>

StopWaiting ==
  /\ "timeout" \in faults
  /\ app.step = "confirm"
  /\ app' = [app EXCEPT !.step = "stuck"]
  /\ UNCHANGED <<faults, render, shown, poll, qr, callbackVars, recordVars, confirm, dbVars>>

-----------------------------------------------------------------------------
(* The tokens: POST /auth/refresh, RefreshAccessTokenService.              *)

Known == app.refresh \in Confirms

\* The status of a token whose time has come is written when it is used.
Checked == IF Known /\ rows[app.refresh] = "due" THEN [rows EXCEPT ![app.refresh] = "expired"] ELSE rows
Active  == Known /\ rows[app.refresh] = "active"

\* The answer has a null for the refresh token, and the app saves the text it reads.
Refreshed == [app EXCEPT !.access = "valid", !.refresh = NullText]
Cleared   == [AppNew EXCEPT !.session = app.session]

\* withAutoRefresh: after a 401 the token is refreshed and the call made again; when
\* either is refused, the session is cleared.
AutoRefresh ==
  /\ app.step = "in" /\ app.access = "old"
  /\ app' \in {IF Active THEN Refreshed ELSE Cleared} \cup {a \in {Cleared} : "refused" \in faults}
  /\ rows' = Checked
  /\ UNCHANGED <<faults, render, shown, poll, qr, callbackVars, recordVars, confirm, vehicle>>

\* getValidToken, of the service: from five minutes before its time, and the token is
\* kept on a failure.
ServiceRefresh ==
  /\ app.step = "in" /\ app.access \in {"late", "old"}
  /\ app' \in {IF Active THEN Refreshed ELSE app} \cup {a \in {app} : "crash" \in faults}
  /\ rows' = Checked
  /\ UNCHANGED <<faults, render, shown, poll, qr, callbackVars, recordVars, confirm, vehicle>>

-----------------------------------------------------------------------------
(* What else may happen.                                                   *)

\* Five minutes are left of the hour, then none.
HourPasses ==
  /\ "hour" \in faults
  /\ app.step = "in"
  /\ app' = [app EXCEPT !.access = IF @ = "valid" THEN "late" ELSE "old"]
  /\ UNCHANGED <<faults, render, shown, poll, qr, callbackVars, recordVars, confirm, dbVars>>

MonthPasses(k) ==
  /\ "month" \in faults
  /\ rows[k] = "active"
  /\ rows' = [rows EXCEPT ![k] = "due"]
  /\ UNCHANGED <<faults, appVars, qr, callbackVars, recordVars, confirm, vehicle>>

Expire(s) ==
  /\ "expiry" \in faults
  /\ \/ /\ qr[s].status \in {"pending", "failed"}
        /\ qr' = [qr EXCEPT ![s].status = "gone"]
        /\ UNCHANGED <<visit, recordVars>>
     \/ /\ \E v \in Visits : /\ visit[v].session = s /\ visit[v].state = "pending"
                             /\ visit' = [visit EXCEPT ![v].state = "gone"]
        /\ UNCHANGED <<qr, recordVars>>
     \/ oauth' = [oauth EXCEPT ![s] = NoUser] /\ UNCHANGED <<qr, visit, login>>
     \/ login' = [login EXCEPT ![s] = NoUser] /\ UNCHANGED <<qr, visit, oauth>>
  /\ UNCHANGED <<faults, appVars, exchanged, callback, held, confirm, dbVars>>

\* A handler stops where it is.
Crash ==
  /\ "crash" \in faults
  /\ \/ /\ \E v \in Visits, i \in Loads : callback[v][i] \in CallbackPcs /\ ToStep(v, i, "over")
        /\ UNCHANGED confirm
     \/ /\ \E k \in Confirms : confirm[k].pc \in ConfirmPcs /\ To(k, "refused")
        /\ UNCHANGED callback
  /\ UNCHANGED <<faults, appVars, qr, visit, exchanged, held, recordVars, dbVars>>

Polling(s)  == AskStatus(s) \/ TellStatus(s) \/ HearPending(s) \/ HearComplete(s)
Redirect(v, i) ==
  \/ Exchange(v, i) \/ ReadQr(v, i) \/ FailQr(v, i)
  \/ SaveOAuth(v, i) \/ SaveLogin(v, i) \/ MarkUsed(v, i)
Confirming(k) ==
  \/ CheckConfirm(k) \/ FindVehicle(k) \/ UpsertVehicle(k)
  \/ SaveTokenHash(k) \/ DeleteLogin(k) \/ HearConfirm(k)

Next ==
  \/ DrawSession
  \/ \E s \in Sessions : SendQr(s) \/ SaveQr(s) \/ ShowQr(s) \/ Polling(s) \/ Expire(s)
  \/ \E v \in Visits, u \in Users : StartOAuth(v, u)
  \/ \E v \in Visits, i \in Loads : TakeCallback(v, i) \/ Redirect(v, i)
  \/ \E k \in Confirms : Confirming(k) \/ MonthPasses(k)
  \/ StopPolling \/ StopWaiting \/ AutoRefresh \/ ServiceRefresh \/ HourPasses
  \/ Crash

Spec == Init /\ [][Next]_vars

\* Handlers and polls go on; what users and browsers do is up to them.
FairSpec ==
  /\ Spec
  /\ \A s \in Sessions : WF_loginVars(Polling(s))
  /\ \A v \in Visits, i \in Loads : WF_loginVars(Redirect(v, i))
  /\ \A k \in Confirms : WF_loginVars(Confirming(k))

-----------------------------------------------------------------------------
(* Properties.                                                             *)

\* A vehicle is confirmed only by the login of the session its screen showed when the
\* vehicle was picked: an answer for an earlier code, heard after another was drawn,
\* does not log its user in (the hash of CheckConfirm), nor does a code whose thread
\* read the wrong session.
OnlyTheShown ==
  \A k \in Confirms :
    confirm[k].pc \in {"bind", "row", "delete", "done"} \cup BindPcs \/ rows[k] # "none"
      => confirm[k].session = confirm[k].hash

\* The vehicle an app is logged in with is its user's, and the refresh token it keeps
\* is the one of that login, which the back end knows, or the null text a refresh put
\* in its place: even if two users scanned one code, if no request outlasts the wait of
\* the app (a late one binds the vehicle to the user of its own login).
AppOwnsCar ==
  "timeout" \notin faults /\ app.step = "in" =>
    LET k == app.confirm IN
    /\ vehicle[confirm[k].car] = confirm[k].user
    /\ app.refresh \in {k, NullText}
    /\ rows[k] # "none"

\* The app polls or confirms for the session of a scan whose user has a vehicle.
SigningIn(v) ==
  /\ app.step \in {"poll", "confirm"}
  /\ visit[v].session = app.session
  /\ CarsOf[visit[v].user] # {}

\* While the app polls or confirms, a user who signed in with a vehicle at hand gets it
\* in, or another code was drawn, even if the browser loads the redirect again while it
\* is handled: the second load fails the QR session, whose result the app still gets.
\* The claim ends there: a login that is over later (an hour passes, and the refresh
\* after it) is begun again by its user.
LoginCompletes ==
  faults \subseteq {"repeat", "hour", "month"} =>
    \A v \in Visits :
      v \in exchanged /\ SigningIn(v) ~> app.step = "in" \/ app.session # visit[v].session

\* An app whose refresh token was saved and is active there keeps its session
\* (withAutoRefresh clears it only "리프레시 토큰 만료 시").
RefreshKeepsSession ==
  [][ app.step = "in" /\ rows[app.confirm] = "active" /\ "refused" \notin faults
      => app'.step = "in" ]_vars
=============================================================================

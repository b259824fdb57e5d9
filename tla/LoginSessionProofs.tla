------------------------- MODULE LoginSessionProofs -------------------------
(***************************************************************************)
(* For any users, vehicles, sessions, scans, requests and faults.  After   *)
(* the types, two invariants: the order of the sessions, that a code never *)
(* stands for a session older than its hash and an answer never for one    *)
(* newer than the screen's, gives OnlyTheShown; and that the app waits for *)
(* the one request that is at work gives AppOwnsCar.                       *)
(***************************************************************************)
EXTENDS LoginSession, TLAPS

-----------------------------------------------------------------------------
(* Types.                                                                  *)

AppType     == [step : {"out", "poll", "stuck", "confirm", "in"}, session : 0..MaxSessions,
                confirm : Confirms \cup {NoToken}, access : {"none", "valid", "late", "old"},
                refresh : Confirms \cup {NullText, NoToken}]
RenderType  == [pc : {"off", "start", "sent", "saved"}, session : 0..MaxSessions]
PollType    == [pc : {"off", "due", "asked", "got"}, session : 0..MaxSessions,
                user : Users \cup {NoUser}]
QrType      == [status : {"none", "pending", "failed", "gone"}, hash : 0..MaxSessions]
VisitType   == {VisitNew} \cup [session : Sessions, user : Users, state : {"pending", "used", "gone"}]
ConfirmType == {ConfirmIdle} \cup
                 [pc : ConfirmPcs \cup {"done", "refused", "over"}, session : 0..MaxSessions,
                  user : Users, car : Cars, hash : 0..MaxSessions]
RowType     == {"none", "active", "due", "expired"}

AppTypes ==
  /\ app \in AppType
  /\ render \in [Sessions -> RenderType]
  /\ shown \in 0..MaxSessions
  /\ poll \in [Sessions -> PollType]
  /\ qr \in [Sessions -> QrType]

BackTypes ==
  /\ visit \in [Visits -> VisitType]
  /\ exchanged \subseteq Visits
  /\ callback \in [Visits -> [Loads -> CallbackPcs \cup {"idle", "over"}]]
  /\ held \in [Visits -> [Loads -> 0..MaxSessions]]
  /\ oauth \in [Sessions -> Users \cup {NoUser}]
  /\ login \in [Sessions -> Users \cup {NoUser}]
  /\ confirm \in [Confirms -> ConfirmType]
  /\ vehicle \in [Cars -> Users \cup {NoUser}]
  /\ rows \in [Confirms -> RowType]

LEMMA TypesAre ==
  /\ TypeOK <=> faults \in Scenarios /\ AppTypes /\ BackTypes
  /\ TypeOK' <=> faults' \in Scenarios /\ AppTypes' /\ BackTypes'
BY DEF TypeOK, AppTypes, BackTypes, AppType, RenderType, PollType, QrType, VisitType,
   ConfirmType, RowType

\* A redirect is handled for a scan, and what is asked is about a session.
Visited == \A v \in Visits, i \in Loads : callback[v][i] # "idle" => visit[v] # VisitNew
Asked ==
  /\ app.step # "out" => app.session \in Sessions
  /\ \A s \in Sessions : poll[s].pc \in {"asked", "got"} => poll[s].session \in Sessions

Typed == faults \in Scenarios /\ AppTypes /\ BackTypes /\ Visited /\ Asked

LEMMA InitType == Init => Typed
<1> SUFFICES ASSUME Init PROVE Typed
  OBVIOUS
<1> USE LoginAssumption DEF Init
<1>1. AppTypes
  BY DEF AppTypes, AppType, RenderType, PollType, QrType, AppNew, RenderOff, PollOff, NoSession
<1>2. BackTypes
  BY DEF BackTypes, VisitType, ConfirmType, RowType, NoSession
<1> QED
  BY <1>1, <1>2 DEF Typed, Visited, Asked, AppNew, PollOff

\* A queue that is emptied keeps what stays in it.
LEMMA UnqueuedKeeps ==
  ASSUME NEW p \in [Sessions -> PollType], NEW q \in Unqueued(p)
  PROVE  q \in [Sessions -> PollType] /\ \A s \in Sessions : q[s] \in {p[s], PollOff}
<1>1. PollOff \in PollType
  BY LoginAssumption DEF PollOff, PollType, NoSession
<1> QED
  BY <1>1 DEF Unqueued

\* The registration screen and its codes keep the types.
LEMMA ScreenType ==
  ASSUME Typed,
         \/ DrawSession \/ StopPolling \/ StopWaiting \/ HourPasses
         \/ \E s \in Sessions : SendQr(s) \/ SaveQr(s) \/ ShowQr(s)
  PROVE  Typed'
<1> USE DEF appVars, recordVars, callbackVars, dbVars
<1>1. BackTypes' /\ Visited' /\ faults' = faults
  BY DEF Typed, BackTypes, Visited, DrawSession, StopPolling, StopWaiting, HourPasses, SendQr, SaveQr, ShowQr
<1>2. CASE DrawSession
  <2> DEFINE s == app.session + 1
  <2>1. PICK q \in Unqueued(poll) : poll' = [q EXCEPT ![s].pc = "due"]
    BY <1>2 DEF DrawSession
  <2>2. q \in [Sessions -> PollType] /\ \A r \in Sessions : q[r] \in {poll[r], PollOff}
    BY <2>1, UnqueuedKeeps DEF Typed, AppTypes
  <2>3. poll' \in [Sessions -> PollType]
    BY <2>1, <2>2 DEF PollType
  <2>4. s \in Sessions /\ s \in 0..MaxSessions
    BY <1>2, LoginAssumption DEF DrawSession, Sessions, Typed, AppTypes, AppType
  <2>5. app' = [app EXCEPT !.step = "poll", !.session = s] /\ app' \in AppType
    BY <1>2, <2>4 DEF DrawSession, Typed, AppTypes, AppType
  <2>6. render' \in [Sessions -> RenderType]
    BY <1>2 DEF DrawSession, Typed, AppTypes, RenderType
  <2>7. AppTypes'
    BY <1>2, <2>3, <2>5, <2>6, LoginAssumption DEF DrawSession, Typed, AppTypes, NoSession
  <2>8. Asked'
    BY <2>1, <2>2, <2>4, <2>5 DEF Typed, Asked, AppTypes, AppType, PollType, PollOff
  <2> QED
    BY <1>1, <2>7, <2>8 DEF Typed
<1>3. CASE StopPolling \/ StopWaiting \/ HourPasses
  <2>1. UNCHANGED <<render, shown, poll, qr>> /\ app' \in AppType /\ app'.session = app.session
        /\ app.step # "out"
    BY <1>3 DEF StopPolling, StopWaiting, HourPasses, Typed, AppTypes, AppType
  <2> QED
    BY <1>1, <2>1 DEF Typed, AppTypes, Asked
<1>4. ASSUME NEW s \in Sessions, SendQr(s) \/ SaveQr(s) \/ ShowQr(s)
      PROVE  Typed'
  <2>1. UNCHANGED <<app, poll>> /\ shown' \in 0..MaxSessions
    BY <1>4 DEF SendQr, SaveQr, ShowQr, Typed, AppTypes, RenderType
  <2>2. render' \in [Sessions -> RenderType]
    BY <1>4, LoginAssumption DEF SendQr, SaveQr, ShowQr, Typed, AppTypes, AppType, RenderType,
         RenderOff, NoSession
  <2>3. qr' \in [Sessions -> QrType]
    BY <1>4, LoginAssumption DEF SendQr, SaveQr, ShowQr, Typed, AppTypes, QrType, Sessions
  <2> QED
    BY <1>1, <2>1, <2>2, <2>3 DEF Typed, AppTypes, Asked
<1> QED
  BY <1>2, <1>3, <1>4

\* The polls keep the types.
LEMMA PollingType ==
  ASSUME Typed, NEW s \in Sessions, Polling(s)
  PROVE  Typed'
<1> USE DEF appVars, recordVars, callbackVars, dbVars
<1>1. CASE AskStatus(s) \/ TellStatus(s) \/ HearPending(s)
  <2>1. UNCHANGED <<faults, app, render, shown, qr, visit, exchanged, callback, held, oauth, login, confirm,
                    vehicle, rows>>
    BY <1>1 DEF AskStatus, TellStatus, HearPending
  <2>2. CASE AskStatus(s) \/ HearPending(s)
    <3>1. PICK m \in {PollOff, [PollOff EXCEPT !.pc = "due"],
                       [PollOff EXCEPT !.pc = "asked", !.session = app.session]} :
            /\ poll' = [poll EXCEPT ![s] = m]
            /\ m.pc = "asked" => app.step = "poll"
      <4>1. PollOff.pc = "off" /\ [PollOff EXCEPT !.pc = "due"].pc = "due"
        BY DEF PollOff
      <4>2. CASE AskStatus(s) /\ app.step = "poll"
        BY <4>2 DEF AskStatus
      <4>3. CASE AskStatus(s) /\ app.step # "poll"
        BY <4>1, <4>3 DEF AskStatus
      <4>4. CASE HearPending(s)
        BY <4>1, <4>4 DEF HearPending
      <4> QED
        BY <2>2, <4>2, <4>3, <4>4
    <3>2. m \in PollType /\ (m.pc \in {"asked", "got"} => m.session \in Sessions)
      <4>1. app.session \in 0..MaxSessions /\ (app.step = "poll" => app.session \in Sessions)
        BY DEF Typed, AppTypes, AppType, Asked
      <4>2. 0 \in 0..MaxSessions
        BY LoginAssumption
      <4>3. PollOff = [pc |-> "off", session |-> 0, user |-> NoUser]
        BY DEF PollOff, NoSession
      <4>4. CASE m = PollOff
        BY <4>2, <4>3, <4>4 DEF PollType
      <4>5. CASE m = [PollOff EXCEPT !.pc = "due"]
        BY <4>2, <4>3, <4>5 DEF PollType
      <4>6. CASE m = [PollOff EXCEPT !.pc = "asked", !.session = app.session]
        <5>1. m = [pc |-> "asked", session |-> app.session, user |-> NoUser]
          BY <4>3, <4>6
        <5> QED
          BY <3>1, <4>1, <5>1 DEF PollType
      <4> QED
        BY <3>1, <4>4, <4>5, <4>6
    <3>3. /\ poll' \in [Sessions -> PollType]
          /\ \A r \in Sessions : r # s => poll'[r] = poll[r]
          /\ poll'[s] = m
      BY <3>1, <3>2 DEF Typed, AppTypes
    <3> QED
      BY <2>1, <3>2, <3>3 DEF Typed, AppTypes, BackTypes, Visited, Asked
  <2>3. CASE TellStatus(s)
    <3>1. poll[s].pc = "asked" /\ poll[s].session \in Sessions
      BY <2>3 DEF TellStatus, Typed, Asked
    <3>2. PICK u \in Users \cup {NoUser} : poll' = [poll EXCEPT ![s].pc = "got", ![s].user = u]
      BY <2>3, <3>1 DEF TellStatus, LoginResult, Typed, BackTypes
    <3>3. /\ poll' \in [Sessions -> PollType]
          /\ \A r \in Sessions : r # s => poll'[r] = poll[r]
          /\ poll'[s].session = poll[s].session
      <4>1. poll \in [Sessions -> PollType] /\ poll[s] \in PollType
        BY DEF Typed, AppTypes
      <4>2. [poll[s] EXCEPT !.pc = "got", !.user = u] \in PollType
        BY <4>1 DEF PollType
      <4>3. poll' = [poll EXCEPT ![s] = [poll[s] EXCEPT !.pc = "got", !.user = u]]
        BY <3>2, <4>1
      <4> QED
        BY <4>1, <4>2, <4>3 DEF PollType
    <3> QED
      BY <2>1, <3>1, <3>3 DEF Typed, AppTypes, BackTypes, Visited, Asked
  <2> QED
    BY <1>1, <2>2, <2>3
<1>2. CASE HearComplete(s)
  <2> DEFINE u == poll[s].user
  <2>1. poll[s].session \in Sessions /\ app.session \in Sessions /\ u \in Users
    BY <1>2 DEF HearComplete, Typed, Asked, AppTypes, PollType
  <2>2. [poll EXCEPT ![s] = PollOff] \in [Sessions -> PollType]
    BY LoginAssumption DEF Typed, AppTypes, PollType, PollOff, NoSession
  <2>3. /\ poll' \in [Sessions -> PollType]
        /\ \A r \in Sessions : poll'[r] \in {poll[r], PollOff}
    BY <1>2, <2>2, UnqueuedKeeps DEF HearComplete, Typed, AppTypes
  <2>4. app' \in AppType /\ app'.session = app.session
    BY <1>2 DEF HearComplete, Typed, AppTypes, AppType, Unused, BackTypes
  <2>5. confirm' \in [Confirms -> ConfirmType]
    <3>1. CASE UNCHANGED confirm
      BY <3>1 DEF Typed, BackTypes
    <3>2. CASE ~UNCHANGED confirm
      <4>1. PICK k \in Confirms, c \in CarsOf[u] :
              confirm' = [confirm EXCEPT ![k] = [pc |-> "check", session |-> poll[s].session,
                                                 user |-> u, car |-> c, hash |-> app.session]]
        BY <1>2, <3>2 DEF HearComplete, Unused, Typed, BackTypes
      <4>2. c \in Cars
        BY <2>1, <4>1, LoginAssumption
      <4> QED
        BY <2>1, <4>1, <4>2 DEF Typed, BackTypes, ConfirmType, ConfirmPcs, BindPcs, AppTypes, AppType, PollType
    <3> QED
      BY <3>1, <3>2
  <2>6. UNCHANGED <<faults, render, shown, qr, visit, exchanged, callback, held, oauth, login, vehicle, rows>>
    BY <1>2 DEF HearComplete
  <2> QED
    BY <2>1, <2>3, <2>4, <2>5, <2>6 DEF Typed, AppTypes, BackTypes, Visited, Asked, PollOff
<1> QED
  BY <1>1, <1>2 DEF Polling

\* The browser and the handler of the redirect keep the types.
LEMMA RedirectType ==
  ASSUME Typed,
         \/ \E v \in Visits, u \in Users : StartOAuth(v, u)
         \/ \E v \in Visits, i \in Loads : TakeCallback(v, i) \/ Redirect(v, i)
  PROVE  Typed'
<1> USE DEF appVars, recordVars, callbackVars, dbVars
<1>1. ASSUME NEW v \in Visits, NEW u \in Users, StartOAuth(v, u)
      PROVE  Typed'
  <2>1. shown \in Sessions
    BY <1>1, LoginAssumption DEF StartOAuth, Typed, AppTypes, Sessions, NoSession
  <2>2. visit' = [visit EXCEPT ![v] = [session |-> shown, user |-> u, state |-> "pending"]]
    BY <1>1 DEF StartOAuth
  <2>3. [session |-> shown, user |-> u, state |-> "pending"] # VisitNew
    BY DEF VisitNew
  <2> QED
    BY <1>1, <2>1, <2>2, <2>3 DEF StartOAuth, Typed, AppTypes, BackTypes, VisitType, Visited, Asked
<1>2. ASSUME NEW v \in Visits, NEW i \in Loads, TakeCallback(v, i) \/ Redirect(v, i)
      PROVE  Typed'
  <2>1. /\ visit[v] # VisitNew
        /\ \E pc \in CallbackPcs \cup {"over"} : ToStep(v, i, pc)
    BY <1>2 DEF TakeCallback, Redirect, Exchange, ReadQr, FailQr, SaveOAuth, SaveLogin, MarkUsed,
         CallbackPcs, Typed, Visited
  <2>2. /\ callback' \in [Visits -> [Loads -> CallbackPcs \cup {"idle", "over"}]]
        /\ \A w \in Visits, j \in Loads : w # v => callback'[w][j] = callback[w][j]
    BY <2>1 DEF ToStep, Typed, BackTypes
  <2>3. visit[v].session \in Sessions /\ visit[v].user \in Users
    BY <2>1 DEF Typed, BackTypes, VisitType
  <2>9. held' \in [Visits -> [Loads -> 0..MaxSessions]]
    <3>1. held \in [Visits -> [Loads -> 0..MaxSessions]]
      BY DEF Typed, BackTypes
    <3>2. qr[visit[v].session].hash \in 0..MaxSessions /\ NoSession \in 0..MaxSessions
      BY <2>3, LoginAssumption DEF Typed, AppTypes, QrType, NoSession
    <3>3. \/ UNCHANGED held
          \/ held' = [held EXCEPT ![v][i] = qr[visit[v].session].hash]
          \/ held' = [held EXCEPT ![v][i] = NoSession]
      BY <1>2 DEF TakeCallback, Redirect, Exchange, ReadQr, FailQr, SaveOAuth, SaveLogin, MarkUsed
    <3> QED
      BY <3>1, <3>2, <3>3
  <2>4. /\ visit' \in [Visits -> VisitType]
        /\ \A w \in Visits : visit[w] # VisitNew => visit'[w] # VisitNew
    <3>1. CASE MarkUsed(v, i)
      <4>1. PICK x \in {visit[v].state, "used"} : visit' = [visit EXCEPT ![v].state = x]
        BY <3>1 DEF MarkUsed, Used, Typed, BackTypes
      <4>2. visit \in [Visits -> VisitType]
            /\ visit[v] \in [session : Sessions, user : Users, state : {"pending", "used", "gone"}]
        BY <2>1 DEF Typed, BackTypes, VisitType
      <4> QED
        BY <4>1, <4>2 DEF VisitType, VisitNew
    <3>2. CASE ~MarkUsed(v, i)
      BY <1>2, <3>2 DEF TakeCallback, Redirect, Exchange, ReadQr, FailQr, SaveOAuth, SaveLogin,
           Typed, BackTypes
    <3> QED
      BY <3>1, <3>2
  <2>5. qr' \in [Sessions -> QrType]
    <3>1. qr \in [Sessions -> QrType]
      BY DEF Typed, AppTypes
    <3>2. CASE FailQr(v, i)
      <4>1. held[v][i] \in 0..MaxSessions
        BY DEF Typed, BackTypes
      <4> QED
        BY <3>1, <3>2, <4>1 DEF FailQr, QrType
    <3>3. CASE ~FailQr(v, i)
      <4>1. UNCHANGED qr
        BY <1>2, <3>3 DEF TakeCallback, Redirect, Exchange, ReadQr, SaveOAuth, SaveLogin, MarkUsed
      <4> QED
        BY <3>1, <4>1
    <3> QED
      BY <3>2, <3>3
  <2>6. /\ oauth' \in [Sessions -> Users \cup {NoUser}] /\ login' \in [Sessions -> Users \cup {NoUser}]
        /\ exchanged' \subseteq Visits
    BY <1>2, <2>3 DEF TakeCallback, Redirect, Exchange, ReadQr, FailQr, SaveOAuth, SaveLogin,
         MarkUsed, Typed, BackTypes
  <2>7. UNCHANGED <<faults, app, render, shown, poll, confirm, vehicle, rows>>
    BY <1>2 DEF TakeCallback, Redirect, Exchange, ReadQr, FailQr, SaveOAuth, SaveLogin, MarkUsed
  <2>8. Visited'
    BY <2>1, <2>2, <2>4 DEF Typed, Visited
  <2> QED
    BY <2>2, <2>9, <2>4, <2>5, <2>6, <2>7, <2>8 DEF Typed, AppTypes, BackTypes, Asked
<1> QED
  BY <1>1, <1>2

\* The confirmation, the tokens and what else may happen keep the types.
LEMMA ConfirmingType ==
  ASSUME Typed, NEW k \in Confirms, Confirming(k) \/ MonthPasses(k)
  PROVE  Typed'
<1> USE DEF appVars, recordVars, callbackVars, dbVars
<1>1. confirm' \in [Confirms -> ConfirmType]
  <2>1. CASE UNCHANGED confirm
    BY <2>1 DEF Typed, BackTypes
  <2>2. CASE ~UNCHANGED confirm
    <3>1. /\ confirm[k].pc # "idle"
          /\ \E pc \in ConfirmPcs \cup {"done", "refused", "over"} : To(k, pc)
      BY <2>2 DEF Confirming, CheckConfirm, FindVehicle, UpsertVehicle, SaveTokenHash, DeleteLogin, HearConfirm,
           MonthPasses, ConfirmPcs, BindPcs
    <3>2. confirm[k] # ConfirmIdle
      BY <3>1 DEF ConfirmIdle
    <3> QED
      BY <3>1, <3>2 DEF To, Typed, BackTypes, ConfirmType
  <2> QED
    BY <2>1, <2>2
<1>2. /\ app' \in AppType /\ app'.session = app.session
      /\ app'.step # "out" => app.step # "out"
  BY ZenonT(60) DEF Confirming, CheckConfirm, FindVehicle, UpsertVehicle, SaveTokenHash, DeleteLogin, HearConfirm,
       MonthPasses, Typed, AppTypes, AppType
<1>3. vehicle' \in [Cars -> Users \cup {NoUser}]
  <2>1. CASE UpsertVehicle(k)
    <3>1. confirm[k].user \in Users
      BY <2>1 DEF UpsertVehicle, BindPcs, Typed, BackTypes, ConfirmType, ConfirmIdle
    <3> QED
      BY <2>1, <3>1 DEF UpsertVehicle, OwnerOf, Typed, BackTypes
  <2>2. CASE ~UpsertVehicle(k)
    BY <2>2 DEF Confirming, CheckConfirm, FindVehicle, SaveTokenHash, DeleteLogin, HearConfirm,
         MonthPasses, Typed, BackTypes
  <2> QED
    BY <2>1, <2>2
<1>4. rows' \in [Confirms -> RowType] /\ login' \in [Sessions -> Users \cup {NoUser}]
  BY DEF Confirming, CheckConfirm, FindVehicle, UpsertVehicle, SaveTokenHash, DeleteLogin, HearConfirm,
       MonthPasses, Typed, BackTypes, RowType
<1>5. UNCHANGED <<faults, render, shown, poll, qr, visit, exchanged, callback, held, oauth>>
  BY DEF Confirming, CheckConfirm, FindVehicle, UpsertVehicle, SaveTokenHash, DeleteLogin, HearConfirm, MonthPasses
<1> QED
  BY <1>1, <1>2, <1>3, <1>4, <1>5 DEF Typed, AppTypes, BackTypes, Visited, Asked

LEMMA OtherType ==
  ASSUME Typed,
         AutoRefresh \/ ServiceRefresh \/ Crash \/ \E s \in Sessions : Expire(s)
  PROVE  Typed'
<1> USE DEF appVars, recordVars, callbackVars, dbVars
<1>1. CASE AutoRefresh \/ ServiceRefresh
  <2>1. rows' \in [Confirms -> RowType]
    BY <1>1 DEF AutoRefresh, ServiceRefresh, Checked, Typed, BackTypes, RowType
  <2>2. app' \in {app, Refreshed, Cleared}
    BY <1>1 DEF AutoRefresh, ServiceRefresh
  <2>3. Refreshed \in AppType /\ Refreshed.session = app.session /\ Refreshed.step = app.step
    BY DEF Refreshed, Typed, AppTypes, AppType
  <2>4. Cleared \in AppType /\ Cleared.step = "out"
    BY DEF Cleared, AppNew, Typed, AppTypes, AppType
  <2>5. UNCHANGED <<faults, render, shown, poll, qr, visit, exchanged, callback, held, oauth, login,
                    confirm, vehicle>>
    BY <1>1 DEF AutoRefresh, ServiceRefresh
  <2> QED
    BY <2>1, <2>2, <2>3, <2>4, <2>5 DEF Typed, AppTypes, BackTypes, Visited, Asked
<1>2. ASSUME NEW s \in Sessions, Expire(s)
      PROVE  Typed'
  <2>1. qr' \in [Sessions -> QrType]
    BY <1>2 DEF Expire, Typed, AppTypes, QrType
  <2>2. /\ visit' \in [Visits -> VisitType]
        /\ \A w \in Visits : visit[w] # VisitNew => visit'[w] # VisitNew
    <3>1. CASE UNCHANGED visit
      BY <3>1 DEF Typed, BackTypes
    <3>2. CASE ~UNCHANGED visit
      <4>1. PICK v \in Visits : visit[v].state = "pending" /\ visit' = [visit EXCEPT ![v].state = "gone"]
        BY <1>2, <3>2 DEF Expire
      <4>2. visit \in [Visits -> VisitType]
            /\ visit[v] \in [session : Sessions, user : Users, state : {"pending", "used", "gone"}]
        BY <4>1 DEF Typed, BackTypes, VisitType, VisitNew
      <4> QED
        BY <4>1, <4>2 DEF VisitType, VisitNew
    <3> QED
      BY <3>1, <3>2
  <2>3. oauth' \in [Sessions -> Users \cup {NoUser}] /\ login' \in [Sessions -> Users \cup {NoUser}]
    BY <1>2 DEF Expire, Typed, BackTypes
  <2> QED
    BY <1>2, <2>1, <2>2, <2>3 DEF Expire, Typed, AppTypes, BackTypes, Visited, Asked
<1>3. CASE Crash
  <2>1. /\ callback' \in [Visits -> [Loads -> CallbackPcs \cup {"idle", "over"}]]
        /\ \A v \in Visits, i \in Loads : callback'[v][i] # "idle" => callback[v][i] # "idle"
    <3>1. CASE UNCHANGED callback
      BY <3>1 DEF Typed, BackTypes
    <3>2. CASE ~UNCHANGED callback
      <4>1. PICK v \in Visits, i \in Loads :
              callback[v][i] \in CallbackPcs /\ callback' = [callback EXCEPT ![v][i] = "over"]
        BY <1>3, <3>2 DEF Crash, ToStep
      <4> QED
        BY <4>1 DEF CallbackPcs, Typed, BackTypes
    <3> QED
      BY <3>1, <3>2
  <2>2. confirm' \in [Confirms -> ConfirmType]
    <3>1. CASE UNCHANGED confirm
      BY <3>1 DEF Typed, BackTypes
    <3>2. CASE ~UNCHANGED confirm
      <4>1. PICK k \in Confirms :
              confirm[k].pc \in ConfirmPcs /\ confirm' = [confirm EXCEPT ![k].pc = "refused"]
        BY <1>3, <3>2 DEF Crash, To
      <4>2. confirm[k] # ConfirmIdle
        BY <4>1 DEF ConfirmPcs, BindPcs, ConfirmIdle
      <4> QED
        BY <4>1, <4>2 DEF Typed, BackTypes, ConfirmType
    <3> QED
      BY <3>1, <3>2
  <2> QED
    BY <1>3, <2>1, <2>2 DEF Crash, Typed, AppTypes, BackTypes, Visited, Asked
<1> QED
  BY <1>1, <1>2, <1>3

LEMMA NextType == Typed /\ [Next]_vars => Typed'
<1> SUFFICES ASSUME Typed, [Next]_vars PROVE Typed'
  OBVIOUS
<1>1. CASE UNCHANGED vars
  BY <1>1 DEF vars, loginVars, appVars, callbackVars, recordVars, dbVars, Typed, AppTypes,
       BackTypes, Visited, Asked
<1>2. CASE Next
  BY <1>2, ScreenType, PollingType, RedirectType, ConfirmingType, OtherType DEF Next
<1> QED
  BY <1>1, <1>2

LEMMA TypedHolds == Spec => []Typed
BY InitType, NextType, PTL DEF Spec

\* The variables of LoginSession keep their types.
THEOREM TypeCorrect == Spec => []TypeOK
<1>1. Typed => TypeOK
  BY TypesAre DEF Typed
<1> QED
  BY <1>1, TypedHolds, PTL

-----------------------------------------------------------------------------
(* The order of the sessions.                                              *)

\* A code is asked for with the hash of its session or of an earlier one, which is
\* the hash it is stored with, and put back with when it fails; an answer is about the
\* screen's session or an earlier one.
CodesLag ==
  /\ \A h \in Sessions :
       /\ render[h].pc # "off" => h <= app.session
       /\ render[h].pc \in {"sent", "saved"} => h <= render[h].session
  /\ \A s \in Sessions : qr[s].hash <= s
HeldLags == \A v \in Visits, i \in Loads : held[v][i] <= visit[v].session
PollsLag == \A s \in Sessions : poll[s].pc \in {"asked", "got"} => poll[s].session <= app.session

\* So a request has the session of its answer, and the hash of that one or a later one.
ConfirmsLag ==
  \A k \in Confirms :
    /\ confirm[k] # ConfirmIdle =>
         confirm[k].session \in Sessions /\ confirm[k].session <= confirm[k].hash
    /\ rows[k] # "none" => confirm[k] # ConfirmIdle

Lagging == CodesLag /\ HeldLags /\ PollsLag /\ ConfirmsLag /\ OnlyTheShown

LEMMA InitLagging == Init => Lagging
<1> SUFFICES ASSUME Init PROVE Lagging
  OBVIOUS
<1>1. CodesLag /\ HeldLags
  BY DEF Init, CodesLag, HeldLags, RenderOff, VisitNew, NoSession, Sessions
<1>2. PollsLag /\ ConfirmsLag /\ OnlyTheShown
  BY DEF Init, PollsLag, ConfirmsLag, OnlyTheShown, PollOff, ConfirmIdle
<1> QED
  BY <1>1, <1>2 DEF Lagging

\* The session of the screen is never an earlier one.
LEMMA SessionGrows ==
  ASSUME Typed, [Next]_vars
  PROVE  app.session \in Nat /\ app'.session \in Nat /\ app.session <= app'.session
<1> USE DEF appVars, recordVars, callbackVars, dbVars
<1>1. app.session \in Nat
  BY DEF Typed, AppTypes, AppType
<1>2. CASE DrawSession
  BY <1>1, <1>2 DEF DrawSession, Typed, AppTypes, AppType
<1>3. CASE ~DrawSession
  <2>1. app'.session = app.session
    <3>1. CASE UNCHANGED vars
      BY <3>1 DEF vars, loginVars
    <3>2. CASE AutoRefresh \/ ServiceRefresh
      <4>1. Refreshed.session = app.session /\ Cleared.session = app.session
        BY DEF Refreshed, Cleared, AppNew, Typed, AppTypes, AppType
      <4> QED
        BY <3>2, <4>1 DEF AutoRefresh, ServiceRefresh
    <3>3. CASE \E s \in Sessions : SendQr(s) \/ SaveQr(s) \/ ShowQr(s) \/ Polling(s) \/ Expire(s)
      BY ZenonT(60), <3>3 DEF SendQr, SaveQr, ShowQr, Polling, AskStatus, TellStatus, HearPending,
           HearComplete, Expire, Typed, AppTypes, AppType
    <3>4. CASE \/ \E v \in Visits, u \in Users : StartOAuth(v, u)
               \/ \E v \in Visits, i \in Loads : TakeCallback(v, i) \/ Redirect(v, i)
      BY ZenonT(60), <3>4 DEF StartOAuth, TakeCallback, Redirect, Exchange, ReadQr, FailQr, SaveOAuth,
           SaveLogin, MarkUsed
    <3>5. CASE \E k \in Confirms : Confirming(k) \/ MonthPasses(k)
      BY ZenonT(60), <3>5 DEF Confirming, CheckConfirm, FindVehicle, UpsertVehicle, SaveTokenHash, DeleteLogin,
           HearConfirm, MonthPasses, Typed, AppTypes, AppType
    <3>6. CASE StopPolling \/ StopWaiting \/ HourPasses \/ Crash
      BY <3>6 DEF StopPolling, StopWaiting, HourPasses, Crash, Typed, AppTypes, AppType
    <3> QED
      BY <1>3, <3>1, <3>2, <3>3, <3>4, <3>5, <3>6 DEF Next
  <2> QED
    BY <1>1, <2>1
<1> QED
  BY <1>2, <1>3

LEMMA NextCodes ==
  ASSUME Typed, CodesLag, HeldLags, [Next]_vars
  PROVE  CodesLag'
<1> USE DEF appVars, recordVars, callbackVars, dbVars
<1>0. /\ app.session \in Nat /\ app'.session \in Nat /\ app.session <= app'.session
      /\ render \in [Sessions -> RenderType] /\ qr \in [Sessions -> QrType]
      /\ \A h \in Sessions : h \in Nat
      /\ \A h \in Sessions : h <= app.session => h <= app'.session
  BY SessionGrows, LoginAssumption DEF Typed, AppTypes, Sessions
<1>1. CASE DrawSession
  <2>1. /\ render' = [render EXCEPT ![app.session + 1].pc = "start"] /\ UNCHANGED qr
        /\ app.session + 1 \in Sessions /\ app'.session = app.session + 1
    BY <1>1 DEF DrawSession, Typed, AppTypes, AppType
  <2>2. \A h \in Sessions : h # app.session + 1 => render'[h] = render[h]
    BY <1>0, <2>1
  <2>3. render'[app.session + 1].pc = "start"
    BY <1>0, <2>1 DEF RenderType
  <2> QED
    BY <1>0, <2>1, <2>2, <2>3 DEF CodesLag
<1>2. ASSUME NEW h \in Sessions, SendQr(h)
      PROVE  CodesLag'
  <2>1. /\ render' = [render EXCEPT ![h] = [pc |-> "sent", session |-> app.session]]
        /\ UNCHANGED <<app, qr>> /\ render[h].pc # "off"
    BY <1>2 DEF SendQr
  <2> QED
    BY <1>0, <2>1 DEF CodesLag
<1>3. ASSUME NEW h \in Sessions, SaveQr(h)
      PROVE  CodesLag'
  <2>1. /\ UNCHANGED app /\ render[h].pc = "sent"
        /\ \/ /\ qr' = [qr EXCEPT ![render[h].session] = [status |-> "pending", hash |-> h]]
              /\ render' = [render EXCEPT ![h].pc = "saved"]
           \/ render' = [render EXCEPT ![h] = RenderOff] /\ UNCHANGED qr
    BY <1>3 DEF SaveQr
  <2>2. h <= render[h].session
    BY <2>1 DEF CodesLag
  <2>3. \A g \in Sessions : g # h => render'[g] = render[g]
    BY <1>0, <2>1
  <2>4. render'[h].pc = "off" \/ (render'[h].session = render[h].session)
    BY <1>0, <2>1 DEF RenderOff, RenderType
  <2>5. \A s \in Sessions : qr'[s].hash <= s
    BY <1>0, <2>1, <2>2 DEF CodesLag
  <2> QED
    BY <1>0, <2>1, <2>2, <2>3, <2>4, <2>5 DEF CodesLag
<1>4. ASSUME NEW h \in Sessions, ShowQr(h)
      PROVE  CodesLag'
  <2>1. render' = [render EXCEPT ![h] = RenderOff] /\ UNCHANGED <<app, qr>>
    BY <1>4 DEF ShowQr
  <2> QED
    BY <1>0, <2>1 DEF CodesLag, RenderOff
<1>5. CASE UNCHANGED render /\ \A s \in Sessions : qr'[s].hash = qr[s].hash
  BY <1>0, <1>5 DEF CodesLag
<1>6. \/ UNCHANGED <<render, qr>>
      \/ DrawSession
      \/ \E h \in Sessions : SendQr(h) \/ SaveQr(h) \/ ShowQr(h) \/ Expire(h)
      \/ \E v \in Visits, i \in Loads : FailQr(v, i)
  BY ZenonT(60) DEF Next, vars, loginVars, Polling, AskStatus, TellStatus, HearPending, HearComplete,
       StartOAuth, TakeCallback, Redirect, Exchange, ReadQr, SaveOAuth, SaveLogin, MarkUsed,
       Confirming, CheckConfirm, FindVehicle, UpsertVehicle, SaveTokenHash, DeleteLogin, HearConfirm,
       MonthPasses, StopPolling, StopWaiting, HourPasses, Crash, AutoRefresh, ServiceRefresh
<1>7. ASSUME NEW h \in Sessions, Expire(h)
      PROVE  CodesLag'
  <2>1. UNCHANGED render /\ (UNCHANGED qr \/ qr' = [qr EXCEPT ![h].status = "gone"])
    BY <1>7 DEF Expire
  <2> QED
    BY <1>0, <1>5, <2>1 DEF QrType
<1>8. ASSUME NEW v \in Visits, NEW i \in Loads, FailQr(v, i)
      PROVE  CodesLag'
  <2>1. /\ qr' = [qr EXCEPT ![visit[v].session] = [status |-> "failed", hash |-> held[v][i]]]
        /\ UNCHANGED <<app, render>>
    BY <1>8 DEF FailQr
  <2>2. held[v][i] <= visit[v].session
    BY DEF HeldLags
  <2>3. \A s \in Sessions : qr'[s].hash <= s
    BY <1>0, <2>1, <2>2 DEF CodesLag
  <2> QED
    BY <2>1, <2>3 DEF CodesLag
<1>9. CASE UNCHANGED <<render, qr>>
  BY <1>5, <1>9
<1> QED
  BY <1>1, <1>2, <1>3, <1>4, <1>6, <1>7, <1>8, <1>9

LEMMA NextHeld ==
  ASSUME Typed, CodesLag, HeldLags, [Next]_vars
  PROVE  HeldLags'
<1> USE DEF appVars, recordVars, callbackVars, dbVars
<1>0. /\ visit \in [Visits -> VisitType] /\ held \in [Visits -> [Loads -> 0..MaxSessions]]
      /\ \A v \in Visits : visit[v].session \in Nat
      /\ \A v \in Visits, i \in Loads : held[v][i] \in Nat
      /\ shown \in Nat
  BY LoginAssumption DEF Typed, AppTypes, BackTypes, VisitType, VisitNew, NoSession, Sessions
<1>1. ASSUME NEW v \in Visits, NEW u \in Users, StartOAuth(v, u)
      PROVE  HeldLags'
  <2>1. /\ visit[v] = VisitNew /\ UNCHANGED held
        /\ visit' = [visit EXCEPT ![v] = [session |-> shown, user |-> u, state |-> "pending"]]
    BY <1>1 DEF StartOAuth, Unused
  <2>2. \A i \in Loads : held[v][i] <= shown
    BY <1>0, <2>1 DEF HeldLags, VisitNew, NoSession
  <2>3. visit'[v].session = shown /\ \A w \in Visits : w # v => visit'[w] = visit[w]
    BY <1>0, <2>1
  <2> QED
    BY <2>1, <2>2, <2>3 DEF HeldLags
<1>2. ASSUME NEW v \in Visits, NEW i \in Loads, ReadQr(v, i) \/ FailQr(v, i)
      PROVE  HeldLags'
  <2>1. visit[v].session \in Sessions
    BY <1>2 DEF ReadQr, FailQr, Typed, Visited, BackTypes, VisitType
  <2>2. PICK h \in {held[v][i], qr[visit[v].session].hash, NoSession} :
          held' = [held EXCEPT ![v][i] = h]
    BY <1>0, <1>2 DEF ReadQr, FailQr
  <2>3. h <= visit[v].session
    BY <1>0, <2>1, <2>2 DEF CodesLag, HeldLags, NoSession
  <2>4. UNCHANGED visit
    BY <1>2 DEF ReadQr, FailQr
  <2>5. \A w \in Visits, j \in Loads : held'[w][j] = held[w][j] \/ (w = v /\ held'[w][j] = h)
    BY <1>0, <2>2
  <2> QED
    BY <2>3, <2>4, <2>5 DEF HeldLags
<1>3. CASE UNCHANGED held /\ \A v \in Visits : visit'[v].session = visit[v].session
  BY <1>3 DEF HeldLags
<1>4. ASSUME NEW v \in Visits, NEW i \in Loads, MarkUsed(v, i)
      PROVE  HeldLags'
  <2>1. visit[v] # VisitNew
    BY <1>4 DEF MarkUsed, Typed, Visited
  <2>2. UNCHANGED held /\ \E x : visit' = [visit EXCEPT ![v].state = x]
    BY <1>4 DEF MarkUsed
  <2> QED
    BY <1>0, <1>3, <2>1, <2>2 DEF VisitType
<1>5. ASSUME NEW s \in Sessions, Expire(s)
      PROVE  HeldLags'
  <2>1. \/ UNCHANGED visit
        \/ \E v \in Visits : visit[v].state = "pending" /\ visit' = [visit EXCEPT ![v].state = "gone"]
    BY <1>5 DEF Expire
  <2>2. UNCHANGED held
    BY <1>5 DEF Expire
  <2> QED
    BY <1>0, <1>3, <2>1, <2>2 DEF VisitType, VisitNew
<1>6. \/ UNCHANGED <<visit, held>>
      \/ \E v \in Visits, u \in Users : StartOAuth(v, u)
      \/ \E v \in Visits, i \in Loads : ReadQr(v, i) \/ FailQr(v, i) \/ MarkUsed(v, i)
      \/ \E s \in Sessions : Expire(s)
  BY ZenonT(60) DEF Next, vars, loginVars, DrawSession, SendQr, SaveQr, ShowQr, Polling, AskStatus,
       TellStatus, HearPending, HearComplete, TakeCallback, Redirect, Exchange, SaveOAuth,
       SaveLogin, Confirming, CheckConfirm, FindVehicle, UpsertVehicle, SaveTokenHash, DeleteLogin,
       HearConfirm, MonthPasses, StopPolling, StopWaiting, HourPasses, Crash, AutoRefresh,
       ServiceRefresh
<1> QED
  BY <1>1, <1>2, <1>3, <1>4, <1>5, <1>6

LEMMA NextPolls ==
  ASSUME Typed, PollsLag, [Next]_vars
  PROVE  PollsLag'
<1> USE DEF appVars, recordVars, callbackVars, dbVars
<1>0. /\ app.session \in Nat /\ app'.session \in Nat /\ app.session <= app'.session
      /\ poll \in [Sessions -> PollType]
      /\ \A s \in Sessions : poll[s].session \in Nat
      /\ PollOff \in PollType
  BY SessionGrows, LoginAssumption DEF Typed, AppTypes, PollType, PollOff, NoSession
<1>1. \A s \in Sessions :
        \/ poll'[s].pc \notin {"asked", "got"}
        \/ poll'[s].session = app.session
        \/ poll'[s].session = poll[s].session /\ poll[s].pc \in {"asked", "got"}
  <2>1. CASE DrawSession
    <3>1. PICK q \in Unqueued(poll) : poll' = [q EXCEPT ![app.session + 1].pc = "due"]
      BY <2>1 DEF DrawSession
    <3>2. q \in [Sessions -> PollType] /\ \A s \in Sessions : q[s] \in {poll[s], PollOff}
      BY <1>0, <3>1, UnqueuedKeeps
    <3>3. \A s \in Sessions : poll'[s] = q[s] \/ poll'[s].pc = "due"
      BY <3>1, <3>2 DEF PollType
    <3> QED
      BY <3>2, <3>3 DEF PollOff
  <2>2. ASSUME NEW s \in Sessions, AskStatus(s)
        PROVE  \A r \in Sessions : \/ poll'[r].pc \notin {"asked", "got"}
                                   \/ poll'[r].session = app.session
                                   \/ poll'[r].session = poll[r].session /\ poll[r].pc \in {"asked", "got"}
    BY <1>0, <2>2 DEF AskStatus, PollOff
  <2>3. ASSUME NEW s \in Sessions, TellStatus(s)
        PROVE  \A r \in Sessions : \/ poll'[r].pc \notin {"asked", "got"}
                                   \/ poll'[r].session = poll[r].session /\ poll[r].pc \in {"asked", "got"}
    <3>1. PICK u : poll' = [poll EXCEPT ![s].pc = "got", ![s].user = u] /\ poll[s].pc = "asked"
      BY <2>3 DEF TellStatus
    <3>2. \A r \in Sessions : poll'[r].session = poll[r].session /\ (r # s => poll'[r] = poll[r])
      BY <1>0, <3>1 DEF PollType
    <3> QED
      BY <3>1, <3>2
  <2>4. ASSUME NEW s \in Sessions, HearPending(s)
        PROVE  \A r \in Sessions : \/ poll'[r].pc \notin {"asked", "got"}
                                   \/ poll'[r].session = poll[r].session /\ poll[r].pc \in {"asked", "got"}
    BY <1>0, <2>4 DEF HearPending, PollOff
  <2>5. ASSUME NEW s \in Sessions, HearComplete(s)
        PROVE  \A r \in Sessions : \/ poll'[r].pc \notin {"asked", "got"}
                                   \/ poll'[r].session = poll[r].session /\ poll[r].pc \in {"asked", "got"}
    <3>1. [poll EXCEPT ![s] = PollOff] \in [Sessions -> PollType]
      BY <1>0
    <3>2. \A r \in Sessions : poll'[r] \in {poll[r], PollOff}
      BY ZenonT(60), <1>0, <2>5, <3>1, UnqueuedKeeps DEF HearComplete
    <3> QED
      BY <3>2 DEF PollOff
  <2>6. CASE UNCHANGED poll
    BY <2>6
  <2>7. \/ UNCHANGED poll
        \/ DrawSession
        \/ \E s \in Sessions : Polling(s)
    BY ZenonT(60) DEF Next, vars, loginVars, SendQr, SaveQr, ShowQr, Expire,
         StartOAuth, TakeCallback, Redirect, Exchange, ReadQr, FailQr, SaveOAuth, SaveLogin,
         MarkUsed, Confirming, CheckConfirm, FindVehicle, UpsertVehicle, SaveTokenHash, DeleteLogin,
         HearConfirm, MonthPasses, StopPolling, StopWaiting, HourPasses, Crash, AutoRefresh,
         ServiceRefresh
  <2> QED
    BY <2>1, <2>2, <2>3, <2>4, <2>5, <2>6, <2>7 DEF Polling
<1> QED
  BY <1>0, <1>1 DEF PollsLag

\* A row is there for a request only once it was bound.
LEMMA NextConfirms ==
  ASSUME Typed, Lagging, [Next]_vars
  PROVE  ConfirmsLag' /\ OnlyTheShown'
<1> USE DEF appVars, recordVars, callbackVars, dbVars
<1>0. /\ confirm \in [Confirms -> ConfirmType] /\ rows \in [Confirms -> RowType]
      /\ app.session \in Nat
  BY SessionGrows DEF Typed, BackTypes
<1>1. ASSUME NEW s \in Sessions, HearComplete(s)
      PROVE  ConfirmsLag' /\ OnlyTheShown'
  <2>1. poll[s].session \in Sessions /\ poll[s].session <= app.session
    BY <1>1 DEF HearComplete, Typed, Asked, Lagging, PollsLag
  <2>2. \/ UNCHANGED confirm
        \/ \E k \in Confirms : \E u, c :
             /\ confirm[k] = ConfirmIdle
             /\ confirm' = [confirm EXCEPT ![k] = [pc |-> "check", session |-> poll[s].session,
                                                   user |-> u, car |-> c, hash |-> app.session]]
    <3>1. CASE ~UNCHANGED confirm
      <4>1. PICK k \in Unused(confirm, ConfirmIdle), c \in CarsOf[poll[s].user] :
              confirm' = [confirm EXCEPT ![k] = [pc |-> "check", session |-> poll[s].session,
                                                 user |-> poll[s].user, car |-> c, hash |-> app.session]]
        BY <1>1, <3>1 DEF HearComplete
      <4>2. k \in Confirms /\ confirm[k] = ConfirmIdle
        BY <1>0 DEF Unused
      <4> QED
        BY <4>1, <4>2
    <3> QED
      BY <3>1
  <2>3. UNCHANGED rows
    BY <1>1 DEF HearComplete
  <2> QED
    BY <1>0, <2>1, <2>2, <2>3 DEF Lagging, ConfirmsLag, OnlyTheShown, ConfirmIdle, BindPcs
<1>2. ASSUME NEW k \in Confirms, CheckConfirm(k)
      PROVE  ConfirmsLag' /\ OnlyTheShown'
  <2>1. /\ confirm[k].pc = "check" /\ UNCHANGED rows
        /\ \/ confirm' = [confirm EXCEPT ![k].pc = "refused"]
           \/ HashMatches(k) /\ confirm' = [confirm EXCEPT ![k].pc = "bind"]
    BY <1>2 DEF CheckConfirm, To
  <2>2. confirm[k] # ConfirmIdle
    BY <2>1 DEF ConfirmIdle
  <2>3. confirm[k].session \in Sessions /\ confirm[k].session <= confirm[k].hash
        /\ confirm[k].session \in Nat /\ confirm[k].hash \in Nat
    BY <1>0, <2>2, LoginAssumption DEF Lagging, ConfirmsLag, ConfirmType, Sessions
  <2>4. HashMatches(k) => confirm[k].session = confirm[k].hash
    BY <2>3 DEF HashMatches, Lagging, CodesLag
  <2>5. \A j \in Confirms : /\ j # k => confirm'[j] = confirm[j]
                            /\ confirm'[j].session = confirm[j].session
                            /\ confirm'[j].hash = confirm[j].hash
    BY <1>0, <2>1, <2>2 DEF ConfirmType
  <2>6. confirm'[k].pc = "refused" \/ (HashMatches(k) /\ confirm'[k].pc = "bind")
    BY <1>0, <2>1, <2>2 DEF ConfirmType
  <2>7. confirm'[k] # ConfirmIdle
    BY <2>6 DEF ConfirmIdle
  <2> QED
    BY <2>1, <2>2, <2>3, <2>4, <2>5, <2>6, <2>7 DEF Lagging, ConfirmsLag, OnlyTheShown, BindPcs
<1>3. ASSUME NEW k \in Confirms,
             FindVehicle(k) \/ UpsertVehicle(k) \/ SaveTokenHash(k) \/ DeleteLogin(k) \/ HearConfirm(k)
      PROVE  ConfirmsLag' /\ OnlyTheShown'
  <2>1. PICK pc \in {"row", "delete", "done", "refused", "over"} \cup BindPcs :
          /\ confirm' = [confirm EXCEPT ![k].pc = pc]
          /\ confirm[k].pc # "idle"
          /\ pc \in {"refused", "over"} \/ confirm[k].pc \in {"bind", "row", "delete"} \cup BindPcs
          /\ rows' = rows \/ (rows' = [rows EXCEPT ![k] = "active"] /\ confirm[k].pc = "row")
    BY <1>3 DEF FindVehicle, UpsertVehicle, SaveTokenHash, DeleteLogin, HearConfirm, To, BindPcs
  <2>2. confirm[k] # ConfirmIdle
    BY <2>1 DEF ConfirmIdle
  <2>3. \A j \in Confirms : /\ j # k => confirm'[j] = confirm[j]
                            /\ confirm'[j].session = confirm[j].session
                            /\ confirm'[j].hash = confirm[j].hash
    BY <1>0, <2>1, <2>2 DEF ConfirmType
  <2>4. confirm'[k].pc = pc
    BY <1>0, <2>1, <2>2 DEF ConfirmType
  <2>5. confirm'[k] # ConfirmIdle
    BY <2>1, <2>4 DEF ConfirmIdle, BindPcs
  <2>6. \A j \in Confirms : rows'[j] = rows[j] \/ (j = k /\ confirm[k].pc = "row")
    BY <1>0, <2>1
  <2> QED
    BY <2>1, <2>2, <2>3, <2>4, <2>5, <2>6 DEF Lagging, ConfirmsLag, OnlyTheShown, BindPcs
<1>4. CASE Crash
  <2>1. \/ UNCHANGED confirm
        \/ \E k \in Confirms : /\ confirm[k].pc \in ConfirmPcs
                               /\ confirm' = [confirm EXCEPT ![k].pc = "refused"]
    BY <1>4 DEF Crash, To
  <2>2. CASE ~UNCHANGED confirm
    <3>1. PICK k \in Confirms : /\ confirm[k].pc \in ConfirmPcs
                                /\ confirm' = [confirm EXCEPT ![k].pc = "refused"]
      BY <2>1, <2>2
    <3>2. confirm[k] # ConfirmIdle
      BY <3>1 DEF ConfirmPcs, BindPcs, ConfirmIdle
    <3>3. \A j \in Confirms : /\ j # k => confirm'[j] = confirm[j]
                              /\ confirm'[j].session = confirm[j].session
                              /\ confirm'[j].hash = confirm[j].hash
      BY <1>0, <3>1, <3>2 DEF ConfirmType
    <3>4. confirm'[k].pc = "refused" /\ confirm'[k] # ConfirmIdle
      BY <1>0, <3>1, <3>2 DEF ConfirmType, ConfirmIdle
    <3> QED
      BY <1>4, <3>2, <3>3, <3>4 DEF Crash, Lagging, ConfirmsLag, OnlyTheShown, BindPcs
  <2> QED
    BY <1>4, <2>2 DEF Crash, Lagging, ConfirmsLag, OnlyTheShown
<1>5. CASE UNCHANGED confirm /\ \A k \in Confirms : rows'[k] # "none" => rows[k] # "none"
  BY <1>5 DEF Lagging, ConfirmsLag, OnlyTheShown
<1>6. \/ UNCHANGED confirm /\ \A k \in Confirms : rows'[k] # "none" => rows[k] # "none"
      \/ \E s \in Sessions : HearComplete(s)
      \/ \E k \in Confirms : Confirming(k)
      \/ Crash
  <2>1. CASE AutoRefresh \/ ServiceRefresh \/ \E k \in Confirms : MonthPasses(k)
    BY <1>0, <2>1 DEF AutoRefresh, ServiceRefresh, Checked, MonthPasses
  <2>2. CASE ~(AutoRefresh \/ ServiceRefresh \/ \E k \in Confirms : MonthPasses(k))
    <3>1. CASE \E v \in Visits, i \in Loads : TakeCallback(v, i) \/ Redirect(v, i)
      BY <3>1 DEF TakeCallback, Redirect, Exchange, ReadQr, FailQr, SaveOAuth, SaveLogin, MarkUsed
    <3>2. CASE \E s \in Sessions : SendQr(s) \/ SaveQr(s) \/ ShowQr(s) \/ Polling(s) \/ Expire(s)
      BY <3>2 DEF SendQr, SaveQr, ShowQr, Polling, AskStatus, TellStatus, HearPending, Expire
    <3>3. CASE \/ \E v \in Visits, u \in Users : StartOAuth(v, u)
               \/ DrawSession \/ StopPolling \/ StopWaiting \/ HourPasses
               \/ UNCHANGED vars
      BY <3>3 DEF StartOAuth, DrawSession, StopPolling, StopWaiting, HourPasses, vars, loginVars
    <3> QED
      BY <2>2, <3>1, <3>2, <3>3 DEF Next
  <2> QED
    BY <2>1, <2>2
<1> QED
  BY <1>1, <1>2, <1>3, <1>4, <1>5, <1>6 DEF Confirming

\* A vehicle is confirmed only by the login of the session that was on the screen when
\* it was picked, whichever threads, polls and codes are still about (the VIN hash in
\* ConfirmVehicleService, the threads of RegistrationActivity).
THEOREM ConfirmsTheShown == Spec => []OnlyTheShown
<1>1. Typed /\ Lagging /\ [Next]_vars => Lagging'
  BY NextCodes, NextHeld, NextPolls, NextConfirms DEF Lagging
<1>2. Spec => []Lagging
  BY <1>1, InitLagging, TypedHolds, PTL DEF Spec
<1> QED
  BY <1>2, PTL DEF Lagging

-----------------------------------------------------------------------------
(* The request the app waits for.                                          *)

AtWork(k) == confirm[k].pc \in ConfirmPcs \cup {"done", "refused"}

\* The app waits for whichever request is at work, what a request has done so far
\* stands, and an app that is in got there by a request, whose token it keeps until it
\* is refreshed.
Waiting ==
  "timeout" \notin faults =>
    /\ \A k \in Confirms : AtWork(k) => app.step = "confirm" /\ app.confirm = k
    /\ \A k \in Confirms :
         /\ confirm[k].pc \in {"keep", "row", "delete", "done"} =>
              vehicle[confirm[k].car] = confirm[k].user
         /\ confirm[k].pc \in {"delete", "done"} => rows[k] # "none"
    /\ app.step = "in" =>
         /\ app.confirm \in Confirms
         /\ vehicle[confirm[app.confirm].car] = confirm[app.confirm].user
         /\ app.refresh \in {app.confirm, NullText}
         /\ rows[app.confirm] # "none"

LEMMA InitWaiting == Init => Waiting
BY DEF Init, Waiting, AtWork, AppNew, ConfirmIdle, ConfirmPcs, BindPcs

\* An app that is not waiting has no request at work: its step may change.
LEMMA NotWaiting ==
  ASSUME Typed, Waiting, UNCHANGED <<faults, confirm, vehicle>>,
         \A k \in Confirms : rows[k] # "none" => rows'[k] # "none",
         \/ UNCHANGED app
         \/ app.step # "confirm" /\ app'.step # "in"
         \/ /\ app.step = "in" /\ app'.confirm = app.confirm
            /\ app'.refresh \in {app.refresh, NullText}
  PROVE  Waiting'
BY DEF Waiting, AtWork

LEMMA HearCompleteWaiting ==
  ASSUME Typed, Waiting, NEW s \in Sessions, HearComplete(s)
  PROVE  Waiting'
<1>1. app.step \in {"poll", "stuck"} /\ UNCHANGED <<faults, vehicle, rows>>
  BY DEF HearComplete, dbVars
<1>2. app'.step \in {"confirm", "stuck"}
  BY DEF HearComplete, Typed, AppTypes, AppType
<1>3. CASE UNCHANGED confirm
  BY <1>1, <1>2, <1>3 DEF Waiting, AtWork
<1>4. CASE ~UNCHANGED confirm
  <2>1. PICK k \in Unused(confirm, ConfirmIdle), c \in CarsOf[poll[s].user] :
          /\ confirm' = [confirm EXCEPT ![k] = [pc |-> "check", session |-> poll[s].session,
                                                user |-> poll[s].user, car |-> c, hash |-> app.session]]
          /\ app' = [app EXCEPT !.step = "confirm", !.confirm = k]
    BY <1>4 DEF HearComplete
  <2>2. k \in Confirms /\ app'.step = "confirm" /\ app'.confirm = k
    BY <2>1 DEF Unused, Typed, BackTypes, AppTypes, AppType
  <2>3. confirm'[k].pc = "check" /\ \A j \in Confirms : j # k => confirm'[j] = confirm[j]
    BY <2>1, <2>2 DEF Typed, BackTypes
  <2> QED
    BY <1>1, <2>2, <2>3 DEF Waiting, AtWork
<1> QED
  BY <1>3, <1>4

LEMMA ConfirmingWaiting ==
  ASSUME Typed, Waiting, NEW k \in Confirms, Confirming(k)
  PROVE  Waiting'
<1> USE DEF appVars, recordVars, callbackVars, dbVars
<1> SUFFICES ASSUME "timeout" \notin faults PROVE Waiting'
  BY DEF Waiting, Confirming, CheckConfirm, FindVehicle, UpsertVehicle, SaveTokenHash, DeleteLogin, HearConfirm
<1>1. AtWork(k) /\ app.step = "confirm" /\ app.confirm = k
  <2>1. AtWork(k)
    BY DEF Confirming, CheckConfirm, FindVehicle, UpsertVehicle, SaveTokenHash, DeleteLogin, HearConfirm,
         AtWork, ConfirmPcs, BindPcs
  <2> QED
    BY <2>1 DEF Waiting
<1>2. \A j \in Confirms \ {k} : ~AtWork(j)
  BY <1>1 DEF Waiting
<1>3. PICK pc \in ConfirmPcs \cup {"done", "refused", "over"} : confirm' = [confirm EXCEPT ![k].pc = pc]
  BY DEF Confirming, CheckConfirm, FindVehicle, UpsertVehicle, SaveTokenHash, DeleteLogin, HearConfirm, To,
       ConfirmPcs, BindPcs
<1>4. /\ \A j \in Confirms \ {k} : confirm'[j] = confirm[j]
      /\ confirm'[k].pc = pc /\ confirm'[k].car = confirm[k].car /\ confirm'[k].user = confirm[k].user
  <2>1. confirm[k] # ConfirmIdle
    BY <1>1 DEF AtWork, ConfirmPcs, BindPcs, ConfirmIdle
  <2> QED
    BY <1>3, <2>1 DEF Typed, BackTypes, ConfirmType
<1>5. ASSUME NEW to \in ConfirmPcs \cup {"done", "refused", "over"}, To(k, to)
       PROVE  to = pc
  <2>1. confirm[k] # ConfirmIdle
    BY <1>1 DEF AtWork, ConfirmPcs, BindPcs, ConfirmIdle
  <2>2. confirm'[k].pc = to
    BY <1>5, <2>1 DEF To, Typed, BackTypes, ConfirmType
  <2> QED
    BY <1>4, <2>2
<1>6. confirm[k].car \in Cars
  BY <1>1 DEF AtWork, ConfirmPcs, BindPcs, ConfirmIdle, Typed, BackTypes, ConfirmType
<1>7. CASE CheckConfirm(k)
  <2>1. pc \in {"bind", "refused"} /\ UNCHANGED app
    BY <1>7, <1>5 DEF CheckConfirm, ConfirmPcs, BindPcs
  <2> QED
    BY <1>1, <1>2, <1>4, <2>1 DEF Waiting, AtWork, ConfirmPcs, BindPcs
<1>8. CASE FindVehicle(k)
  <2>1. /\ pc \in BindPcs /\ UNCHANGED <<app, vehicle>>
        /\ pc = "keep" => vehicle[confirm[k].car] = confirm[k].user
    BY <1>8, <1>5 DEF FindVehicle, OwnerOf, ConfirmPcs, BindPcs
  <2> QED
    BY <1>1, <1>2, <1>4, <2>1 DEF Waiting, AtWork, ConfirmPcs, BindPcs
<1>9. CASE UpsertVehicle(k)
  <2>1. CASE To(k, "refused")
    <3>1. pc = "refused" /\ UNCHANGED app
      BY <1>9, <1>5, <2>1 DEF UpsertVehicle
    <3> QED
      BY <1>1, <1>2, <1>4, <3>1 DEF Waiting, AtWork, ConfirmPcs, BindPcs
  <2>2. CASE ~To(k, "refused")
    <3>1. To(k, "row") /\ UNCHANGED app /\ confirm[k].pc \in BindPcs
          /\ vehicle' = [vehicle EXCEPT ![confirm[k].car] =
                           IF confirm[k].pc = "keep" THEN @ ELSE OwnerOf(k)]
      BY <1>9, <2>2 DEF UpsertVehicle
    <3>2. pc = "row"
      BY <1>5, <3>1 DEF ConfirmPcs
    <3>3. vehicle'[confirm[k].car] = confirm[k].user
      BY <1>6, <3>1 DEF Waiting, OwnerOf, Typed, BackTypes
    <3> QED
      BY <1>1, <1>2, <1>4, <3>1, <3>2, <3>3 DEF Waiting, AtWork, ConfirmPcs, BindPcs
  <2> QED
    BY <2>1, <2>2
<1>10. CASE SaveTokenHash(k)
  <2>1. pc = "delete" /\ UNCHANGED <<app, vehicle>> /\ confirm[k].pc = "row"
    BY <1>10, <1>5 DEF SaveTokenHash, ConfirmPcs, BindPcs
  <2>2. rows'[k] # "none"
    BY <1>10 DEF SaveTokenHash, Typed, BackTypes
  <2> QED
    BY <1>1, <1>2, <1>4, <2>1, <2>2 DEF Waiting, AtWork, ConfirmPcs, BindPcs
<1>11. CASE DeleteLogin(k)
  <2>1. pc = "done" /\ UNCHANGED <<app, vehicle, rows>> /\ confirm[k].pc = "delete"
    BY <1>11, <1>5 DEF DeleteLogin
  <2> QED
    BY <1>1, <1>2, <1>4, <2>1 DEF Waiting, AtWork, ConfirmPcs, BindPcs
<1>12. CASE HearConfirm(k)
  <2>1. pc = "over" /\ UNCHANGED <<vehicle, rows>>
    BY <1>12, <1>5 DEF HearConfirm
  <2>2. \/ confirm[k].pc = "done" /\ app'.step = "in" /\ app'.confirm = k /\ app'.refresh = k
        \/ app'.step = "stuck"
    BY <1>1, <1>12 DEF HearConfirm, Typed, AppTypes, AppType
  <2> QED
    BY <1>1, <1>2, <1>4, <2>1, <2>2 DEF Waiting, AtWork, ConfirmPcs, BindPcs
<1> QED
  BY <1>7, <1>8, <1>9, <1>10, <1>11, <1>12 DEF Confirming

LEMMA NextWaiting == Typed /\ Waiting /\ [Next]_vars => Waiting'
<1> SUFFICES ASSUME Typed, Waiting, [Next]_vars PROVE Waiting'
  OBVIOUS
<1> USE DEF appVars, recordVars, callbackVars, dbVars
<1>1. CASE AutoRefresh \/ ServiceRefresh
  <2>1. app' \in {app, Refreshed, Cleared} /\ app.step = "in" /\ UNCHANGED <<faults, confirm, vehicle>>
    BY <1>1 DEF AutoRefresh, ServiceRefresh
  <2>2. Refreshed.confirm = app.confirm /\ Refreshed.refresh = NullText /\ Cleared.step = "out"
    BY DEF Refreshed, Cleared, AppNew, Typed, AppTypes, AppType
  <2>3. \A k \in Confirms : rows[k] # "none" => rows'[k] # "none"
    BY <1>1 DEF AutoRefresh, ServiceRefresh, Checked, Typed, BackTypes
  <2> QED
    BY <2>1, <2>2, <2>3, NotWaiting
<1>2. ASSUME NEW k \in Confirms, MonthPasses(k)
      PROVE  Waiting'
  BY <1>2, NotWaiting DEF MonthPasses, Typed, BackTypes
<1>3. CASE DrawSession \/ StopPolling
  <2>1. app.step \in {"out", "stuck", "poll"} /\ app'.step \in {"poll", "stuck"}
        /\ UNCHANGED <<faults, confirm, vehicle, rows>>
    BY <1>3 DEF DrawSession, StopPolling, Typed, AppTypes, AppType
  <2> QED
    BY <2>1, NotWaiting
<1>4. CASE HourPasses
  <2>1. app.step = "in" /\ app'.confirm = app.confirm /\ app'.refresh = app.refresh
        /\ UNCHANGED <<faults, confirm, vehicle, rows>>
    BY <1>4 DEF HourPasses, Typed, AppTypes, AppType
  <2> QED
    BY <2>1, NotWaiting
<1>5. CASE StopWaiting
  BY <1>5 DEF StopWaiting, Waiting
<1>6. CASE Crash
  <2>1. CASE UNCHANGED confirm
    BY <1>6, <2>1, NotWaiting DEF Crash
  <2>2. CASE ~UNCHANGED confirm
    <3>1. PICK k \in Confirms : /\ confirm[k].pc \in ConfirmPcs
                                /\ confirm' = [confirm EXCEPT ![k].pc = "refused"]
      BY <1>6, <2>2 DEF Crash, To
    <3>2. confirm[k] # ConfirmIdle
      BY <3>1 DEF ConfirmPcs, BindPcs, ConfirmIdle
    <3>3. confirm'[k].pc = "refused" /\ \A j \in Confirms \ {k} : confirm'[j] = confirm[j]
      BY <3>1, <3>2 DEF Typed, BackTypes, ConfirmType
    <3>4. UNCHANGED <<faults, app, vehicle, rows>>
      BY <1>6 DEF Crash
    <3> QED
      BY <3>1, <3>3, <3>4 DEF Waiting, AtWork
  <2> QED
    BY <2>1, <2>2
<1>7. CASE UNCHANGED <<faults, app, confirm, vehicle, rows>>
  BY <1>7, NotWaiting
<1>8. \/ UNCHANGED <<faults, app, confirm, vehicle, rows>>
      \/ AutoRefresh \/ ServiceRefresh \/ DrawSession \/ StopPolling \/ HourPasses \/ StopWaiting \/ Crash
      \/ \E s \in Sessions : HearComplete(s)
      \/ \E k \in Confirms : Confirming(k) \/ MonthPasses(k)
  <2>1. CASE \E v \in Visits, i \in Loads : TakeCallback(v, i) \/ Redirect(v, i)
    BY <2>1 DEF TakeCallback, Redirect, Exchange, ReadQr, FailQr, SaveOAuth, SaveLogin, MarkUsed
  <2>2. CASE \E s \in Sessions : SendQr(s) \/ SaveQr(s) \/ ShowQr(s) \/ Polling(s) \/ Expire(s)
    BY <2>2 DEF SendQr, SaveQr, ShowQr, Polling, AskStatus, TellStatus, HearPending, Expire
  <2>3. CASE (\E v \in Visits, u \in Users : StartOAuth(v, u)) \/ UNCHANGED vars
    BY <2>3 DEF StartOAuth, vars, loginVars
  <2> QED
    BY <2>1, <2>2, <2>3 DEF Next
<1> QED
  BY <1>1, <1>2, <1>3, <1>4, <1>5, <1>6, <1>7, <1>8, HearCompleteWaiting, ConfirmingWaiting

\* An app that is in is logged in with its user's vehicle, and keeps the refresh token of
\* that login, which the back end knows, or the null text of a refresh, though two users
\* scanned one code, if the app waits for its request (ConfirmVehicleService,
\* completeRegistration, withAutoRefresh).
THEOREM AppInOwnsCar == Spec => []AppOwnsCar
<1>1. Spec => []Waiting
  BY InitWaiting, NextWaiting, TypedHolds, PTL DEF Spec
<1>2. Waiting => AppOwnsCar
  BY DEF Waiting, AppOwnsCar
<1> QED
  BY <1>1, <1>2, PTL
=============================================================================

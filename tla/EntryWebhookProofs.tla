------------------------- MODULE EntryWebhookProofs -------------------------
(***************************************************************************)
(* For any lots, cars, visits, event loops and faults.  The invariants are *)
(* proved in stages, each from the ones before: the types; the course of a *)
(* visit (a session only for a visit whose webhook came, an announcement   *)
(* only for a session), from which EntryWebhook is shown to implement      *)
(* SessionOpening; the registrations; the sessions of a car; the           *)
(* announcements; and, from all of these, what the app shows.              *)
(***************************************************************************)
EXTENDS EntryWebhook, TLAPS

-----------------------------------------------------------------------------
(* Types.                                                                  *)

LEMMA InitType == Init => TypeOK
BY EntryAssumption DEF Init, TypeOK, NavIdle, LoopIdle, VisitPcs

\* The requests of the app keep the types.
LEMMA NavigationType ==
  ASSUME TypeOK, NEW c \in Cars,
         SavePreNotify(c) \/ PreRegisterPlate(c) \/ \E l \in Lots : Navigate(c, l)
  PROVE  TypeOK'
<1> USE DEF TypeOK, NavIdle, redisVars, pmsVars, appVars, histVars
<1>1. CASE SavePreNotify(c)
  BY <1>1 DEF SavePreNotify, SaveIncoming, Spots
<1>2. CASE PreRegisterPlate(c)
  BY <1>2 DEF PreRegisterPlate, Spots
<1>3. CASE \E l \in Lots : Navigate(c, l)
  BY <1>3 DEF Navigate
<1> QED
  BY <1>1, <1>2, <1>3

\* The PMS keeps the types.
LEMMA PmsType ==
  ASSUME TypeOK, NEW v \in Visits,
         \/ \E s \in Spots : LprEntry(v, s)
         \/ FindRegistration(v) \/ ConsumeRegistration(v) \/ LoseWebhook(v) \/ LprExit(v)
  PROVE  TypeOK'
<1> USE DEF TypeOK, VisitPcs, redisVars, pmsVars, appVars, histVars
<1>1. CASE \E s \in Spots : LprEntry(v, s)
  BY <1>1 DEF LprEntry
<1>2. CASE FindRegistration(v)
  BY <1>2 DEF FindRegistration
<1>3. CASE ConsumeRegistration(v)
  BY <1>3 DEF ConsumeRegistration
<1>4. CASE LoseWebhook(v)
  BY <1>4 DEF LoseWebhook
<1>5. CASE LprExit(v)
  BY <1>5 DEF LprExit
<1> QED
  BY <1>1, <1>2, <1>3, <1>4, <1>5

\* A loop that is at work has a visit.
LEMMA LoopVisit ==
  ASSUME TypeOK, NEW h \in Loops, loop[h].pc # "idle"
  PROVE  loop[h].pc \in LoopPcs /\ loop[h].visit \in Visits /\ DOMAIN loop[h] = {"pc", "visit"}
BY DEF TypeOK, LoopIdle

LEMMA WorkerVisit ==
  ASSUME TypeOK, worker.pc # "idle"
  PROVE  worker.pc \in {"publish", "delete"} /\ worker.visit \in Visits
BY DEF TypeOK, LoopIdle

LEMMA ToLoopType ==
  ASSUME TypeOK, NEW h \in Loops, loop[h].pc # "idle", NEW to \in LoopPcs, ToLoop(h, to)
  PROVE  loop' \in [Loops -> {LoopIdle} \cup [pc : LoopPcs, visit : Visits]]
BY DEF TypeOK, ToLoop, LoopIdle

\* A step of a handler is about the visit it was about.
LEMMA ToLoopGoes ==
  ASSUME TypeOK, NEW h \in Loops, loop[h].pc # "idle"
  PROVE  /\ \A to \in LoopPcs : ToLoop(h, to) => loop'[h] = [pc |-> to, visit |-> loop[h].visit]
         /\ EndLoop(h) => loop'[h] = LoopIdle
BY DEF TypeOK, ToLoop, EndLoop, LoopIdle

LEMMA EndLoopType ==
  ASSUME TypeOK, NEW h \in Loops, EndLoop(h)
  PROVE  loop' \in [Loops -> {LoopIdle} \cup [pc : LoopPcs, visit : Visits]]
BY DEF TypeOK, EndLoop

LEMMA ShownType ==
  ASSUME TypeOK, NEW v \in Visits, Shown(v)
  PROVE  app' \in [Cars -> Visits \cup {NoVisit}]
BY DEF TypeOK, Shown

\* The webhook's handler keeps the types.
LEMMA HandleType ==
  ASSUME TypeOK, NEW h \in Loops, Handle(h)
  PROVE  TypeOK'
<1> USE DEF redisVars, pmsVars, appVars, histVars
<1>1. loop[h].pc # "idle"
  BY DEF Handle, LookUpVisit, GetPreNotify, LookUpActive, CreateSession, DeletePreNotify,
       PublishEntry, ClearRetryEvent, RecordRetryEvent, At
<1>2. loop[h].visit \in Visits
  BY <1>1, LoopVisit
<1>3. loop' \in [Loops -> {LoopIdle} \cup [pc : LoopPcs, visit : Visits]]
  <2>1. \/ EndLoop(h)
        \/ \E to \in LoopPcs : ToLoop(h, to)
    BY DEF Handle, LookUpVisit, GetPreNotify, LookUpActive, CreateSession, DeletePreNotify,
         PublishEntry, ClearRetryEvent, RecordRetryEvent, Confirm, AfterFailure, LoopPcs
  <2> QED
    BY <1>1, <2>1, ToLoopType, EndLoopType
<1>4. app' \in [Cars -> Visits \cup {NoVisit}]
  <2>1. Shown(loop[h].visit) \/ UNCHANGED app
    BY DEF Handle, LookUpVisit, GetPreNotify, LookUpActive, CreateSession, DeletePreNotify,
         PublishEntry, ClearRetryEvent, RecordRetryEvent
  <2> QED
    BY <1>2, <2>1, ShownType DEF TypeOK
<1>5. session' \in [Visits -> {"none", "active", "completed"}]
  BY <1>2 DEF Handle, LookUpVisit, GetPreNotify, LookUpActive, CreateSession, DeletePreNotify,
       PublishEntry, ClearRetryEvent, RecordRetryEvent, TypeOK
<1>6. preNotify' \subseteq Spots /\ preReg' \subseteq Spots /\ retry' \subseteq Visits
  BY <1>2 DEF Handle, LookUpVisit, GetPreNotify, LookUpActive, CreateSession, DeletePreNotify,
       PublishEntry, ClearRetryEvent, RecordRetryEvent, Forgotten, TypeOK
<1>7. announced' \subseteq Visits /\ confirmed' \subseteq Visits
  BY <1>2 DEF Handle, LookUpVisit, GetPreNotify, LookUpActive, CreateSession, DeletePreNotify,
       PublishEntry, ClearRetryEvent, RecordRetryEvent, Confirm, TypeOK
<1>8. UNCHANGED <<faults, nav, visit, spotOf, worker, notice>>
  BY DEF Handle, LookUpVisit, GetPreNotify, LookUpActive, CreateSession, DeletePreNotify,
       PublishEntry, ClearRetryEvent, RecordRetryEvent
<1> QED
  BY <1>3, <1>4, <1>5, <1>6, <1>7, <1>8 DEF TypeOK

\* The worker, the app and what else may happen keep the types.
LEMMA OtherType ==
  ASSUME TypeOK,
         \/ \E h \in Loops, v \in Visits : WebhookArrives(h, v)
         \/ \E v \in Visits : RetryEntry(v) \/ Pay(v) \/ PaymentNotice(v)
         \/ RetryPublish \/ RetryDelete \/ Expire \/ Crash
  PROVE  TypeOK'
<1> USE DEF TypeOK, redisVars, pmsVars, appVars, histVars
<1>1. ASSUME NEW h \in Loops, NEW v \in Visits, WebhookArrives(h, v)
      PROVE  TypeOK'
  BY <1>1 DEF WebhookArrives, VisitPcs, LoopPcs
<1>2. ASSUME NEW v \in Visits, RetryEntry(v)
      PROVE  TypeOK'
  BY <1>2 DEF RetryEntry, LoopIdle
<1>3. ASSUME NEW v \in Visits, Pay(v)
      PROVE  TypeOK'
  BY <1>3 DEF Pay
<1>4. ASSUME NEW v \in Visits, PaymentNotice(v)
      PROVE  TypeOK'
  BY <1>4 DEF PaymentNotice
<1>5. CASE RetryPublish
  <2>1. worker.visit \in Visits
    BY <1>5, WorkerVisit DEF RetryPublish
  <2>2. app' \in [Cars -> Visits \cup {NoVisit}] /\ announced' \subseteq Visits
    BY <1>5, <2>1, ShownType DEF RetryPublish
  <2>3. worker' \in {LoopIdle} \cup [pc : {"publish", "delete"}, visit : Visits]
    BY <1>5, <2>1 DEF RetryPublish, LetGo, LoopIdle
  <2> QED
    BY <1>5, <2>2, <2>3 DEF RetryPublish
<1>6. CASE RetryDelete
  BY <1>6 DEF RetryDelete, Forgotten, LetGo
<1>7. CASE Expire
  BY <1>7 DEF Expire
<1>8. CASE Crash
  BY <1>8, EndLoopType DEF Crash
<1> QED
  BY <1>1, <1>2, <1>3, <1>4, <1>5, <1>6, <1>7, <1>8

LEMMA NextType == TypeOK /\ [Next]_vars => TypeOK'
<1> SUFFICES ASSUME TypeOK, [Next]_vars PROVE TypeOK'
  OBVIOUS
<1>1. CASE UNCHANGED vars
  BY <1>1 DEF TypeOK, vars, entryVars, redisVars, pmsVars, appVars, histVars
<1>2. CASE Next
  BY <1>2, NavigationType, PmsType, HandleType, OtherType DEF Next
<1> QED
  BY <1>1, <1>2

\* The variables of EntryWebhook keep their types.
THEOREM TypeCorrect == Spec => []TypeOK
BY InitType, NextType, PTL DEF Spec

-----------------------------------------------------------------------------
(* The course of a visit.                                                  *)

Late == {"delete", "publish", "clear", "record"}   \* of a handler: its session exists

\* A visit that was read has a spot, a handled one was told of, and one with a
\* session stays told of.
Placed  == \A v \in Visits : visit[v] # "none" => spotOf[v] \in Spots
Handled == \A h \in Loops : loop[h].pc # "idle" => visit[loop[h].visit] \in {"told", "exited"}
Opened  == \A v \in Visits : session[v] # "none" => visit[v] \in {"told", "exited"}

\* What is announced, remembered or on its way has a session.
HandlingOpened == \A h \in Loops : loop[h].pc \in Late => session[loop[h].visit] # "none"
RetryOpened ==
  /\ \A v \in retry \cup announced : session[v] # "none"
  /\ worker.pc # "idle" => session[worker.visit] # "none"

\* What an app shows was announced, and so was what a clear is about.
ShownAnnounced == \A c \in Cars : app[c] \in Visits => app[c] \in announced
ClearAnnounced ==
  /\ \A h \in Loops : loop[h].pc = "clear" => loop[h].visit \in announced
  /\ worker.pc = "delete" => worker.visit \in announced

Course ==
  /\ Placed /\ Handled /\ Opened
  /\ HandlingOpened /\ RetryOpened
  /\ ShownAnnounced /\ ClearAnnounced

LEMMA InitCourse == Init => Course
BY EntryAssumption DEF Init, Course, Placed, Handled, Opened, HandlingOpened, RetryOpened,
   ShownAnnounced, ClearAnnounced, LoopIdle, Late

\* The requests of the app do not touch what Course is about.
LEMMA NavigationCourse ==
  ASSUME TypeOK, Course, NEW c \in Cars,
         SavePreNotify(c) \/ PreRegisterPlate(c) \/ \E l \in Lots : Navigate(c, l)
  PROVE  Course'
<1>1. UNCHANGED <<visit, spotOf, session, loop, retry, worker, app, announced>>
  BY DEF SavePreNotify, PreRegisterPlate, Navigate, redisVars, pmsVars, appVars, histVars
<1> QED
  BY <1>1 DEF Course, Placed, Handled, Opened, HandlingOpened, RetryOpened,
       ShownAnnounced, ClearAnnounced

LEMMA PmsCourse ==
  ASSUME TypeOK, Course, NEW v \in Visits,
         \/ \E s \in Spots : LprEntry(v, s)
         \/ FindRegistration(v) \/ ConsumeRegistration(v) \/ LoseWebhook(v) \/ LprExit(v)
  PROVE  Course'
<1> USE DEF redisVars, pmsVars, appVars, histVars
<1>1. /\ UNCHANGED <<session, loop, retry, worker, app, announced>>
      /\ \A u \in Visits : visit[u] \in {"told", "exited"} => visit'[u] \in {"told", "exited"}
  BY DEF LprEntry, FindRegistration, ConsumeRegistration, LoseWebhook, LprExit, TypeOK
<1>2. Placed'
  BY DEF LprEntry, FindRegistration, ConsumeRegistration, LoseWebhook, LprExit, TypeOK,
       Course, Placed
<1>3. Handled'
  BY <1>1, LoopVisit DEF Course, Handled
<1> QED
  BY <1>1, <1>2, <1>3 DEF Course, Opened, HandlingOpened, RetryOpened, ShownAnnounced,
       ClearAnnounced

LEMMA HandleCourse ==
  ASSUME TypeOK, Course, NEW h \in Loops, Handle(h)
  PROVE  Course'
<1> USE DEF redisVars, pmsVars, appVars, histVars
<1> DEFINE v == loop[h].visit
<1>1. loop[h].pc # "idle"
  BY DEF Handle, LookUpVisit, GetPreNotify, LookUpActive, CreateSession, DeletePreNotify,
       PublishEntry, ClearRetryEvent, RecordRetryEvent, At
<1>2. v \in Visits
  BY <1>1, LoopVisit
<1>3. /\ UNCHANGED <<visit, spotOf, worker>>
      /\ \A u \in Visits : session[u] # "none" => session'[u] # "none"
      /\ \A u \in Visits : session[u] = "none" => session'[u] = "none" \/ u = v
      /\ announced \subseteq announced' /\ announced' \subseteq announced \cup {v}
      /\ retry' \subseteq retry \cup {v}
  BY <1>2 DEF Handle, LookUpVisit, GetPreNotify, LookUpActive, CreateSession, DeletePreNotify,
       PublishEntry, ClearRetryEvent, RecordRetryEvent, Forgotten, TypeOK
<1>4. \A g \in Loops : g # h => loop'[g] = loop[g]
  BY DEF Handle, LookUpVisit, GetPreNotify, LookUpActive, CreateSession, DeletePreNotify,
       PublishEntry, ClearRetryEvent, RecordRetryEvent, Confirm, ToLoop, EndLoop, TypeOK
<1>5. \/ loop'[h] = LoopIdle
      \/ /\ loop'[h].visit = v
         /\ loop'[h].pc \in Late => session'[v] # "none"
         /\ loop'[h].pc = "clear" => v \in announced'
  <2>0. /\ \A to \in LoopPcs : ToLoop(h, to) => loop'[h] = [pc |-> to, visit |-> v]
        /\ EndLoop(h) => loop'[h] = LoopIdle
    BY <1>1, ToLoopGoes
  <2> USE <1>2, <2>0 DEF LoopPcs, Course, HandlingOpened, ClearAnnounced, At, Late
  <2>1. CASE LookUpVisit(h)
    BY <2>1 DEF LookUpVisit, Confirm
  <2>2. CASE GetPreNotify(h)
    BY <2>2 DEF GetPreNotify
  <2>3. CASE LookUpActive(h)
    BY <2>3 DEF LookUpActive, Confirm
  <2>4. CASE CreateSession(h)
    BY <2>4 DEF CreateSession, TypeOK
  <2>5. CASE DeletePreNotify(h)
    BY <2>5 DEF DeletePreNotify
  <2>6. CASE PublishEntry(h)
    BY <2>6 DEF PublishEntry, AfterFailure
  <2>7. CASE ClearRetryEvent(h)
    BY <2>7 DEF ClearRetryEvent, Confirm
  <2>8. CASE RecordRetryEvent(h)
    BY <2>8 DEF RecordRetryEvent, Confirm
  <2> QED
    BY <2>1, <2>2, <2>3, <2>4, <2>5, <2>6, <2>7, <2>8 DEF Handle
<1>6. v \in announced' \/ v \in retry' => v \in announced \/ v \in retry \/ session[v] # "none"
  BY DEF Handle, LookUpVisit, GetPreNotify, LookUpActive, CreateSession, DeletePreNotify,
       PublishEntry, ClearRetryEvent, RecordRetryEvent, Forgotten, At, Course, HandlingOpened, Late
<1>7. Placed' /\ Opened'
  BY <1>1, <1>2, <1>3 DEF Course, Placed, Opened, Handled
<1>8. Handled'
  BY <1>1, <1>3, <1>4, <1>5 DEF Course, Handled, LoopIdle
<1>9. HandlingOpened' /\ ClearAnnounced'
  <2>1. \A g \in Loops : g # h /\ loop[g].pc \in Late => loop[g].visit \in Visits
    BY LoopVisit DEF Late
  <2> QED
    BY <1>3, <1>4, <1>5, <2>1 DEF Course, HandlingOpened, ClearAnnounced, LoopIdle, Late
<1>10. RetryOpened'
  BY <1>2, <1>3, <1>6, WorkerVisit DEF Course, RetryOpened, TypeOK
<1>11. ShownAnnounced'
  <2>1. \/ UNCHANGED app
        \/ Shown(v) /\ v \in announced'
    BY DEF Handle, LookUpVisit, GetPreNotify, LookUpActive, CreateSession, DeletePreNotify,
         PublishEntry, ClearRetryEvent, RecordRetryEvent
  <2> QED
    BY <1>3, <2>1 DEF Course, ShownAnnounced, Shown, TypeOK
<1> QED
  BY <1>7, <1>8, <1>9, <1>10, <1>11 DEF Course

LEMMA OtherCourse ==
  ASSUME TypeOK, Course,
         \/ \E h \in Loops, v \in Visits : WebhookArrives(h, v)
         \/ \E v \in Visits : RetryEntry(v) \/ Pay(v) \/ PaymentNotice(v)
         \/ RetryPublish \/ RetryDelete \/ Expire \/ Crash
  PROVE  Course'
<1> USE DEF TypeOK, Course, redisVars, pmsVars, appVars, histVars
<1>1. ASSUME NEW h \in Loops, NEW v \in Visits, WebhookArrives(h, v)
      PROVE  Course'
  <2>1. /\ UNCHANGED <<spotOf, session, retry, worker, app, announced>>
        /\ visit' = [visit EXCEPT ![v] = "told"] /\ visit[v] # "none"
        /\ loop' = [loop EXCEPT ![h] = [pc |-> "look", visit |-> v]]
    BY <1>1 DEF WebhookArrives
  <2>2. Placed' /\ Opened'
    BY <2>1 DEF Placed, Opened
  <2>3. Handled'
    BY <2>1, LoopVisit DEF Handled
  <2> QED
    BY <2>1, <2>2, <2>3 DEF HandlingOpened, RetryOpened, ShownAnnounced, ClearAnnounced, Late
<1>2. ASSUME NEW v \in Visits, RetryEntry(v)
      PROVE  Course'
  BY <1>2 DEF RetryEntry, Placed, Handled, Opened, HandlingOpened, RetryOpened, ShownAnnounced,
       ClearAnnounced
<1>3. ASSUME NEW v \in Visits, Pay(v)
      PROVE  Course'
  <2>1. /\ UNCHANGED <<visit, spotOf, loop, retry, worker, announced>>
        /\ \A u \in Visits : session'[u] # "none" <=> session[u] # "none"
        /\ \A c \in Cars : app'[c] \in {app[c], NoVisit}
    BY <1>3 DEF Pay
  <2>2. \A h \in Loops : loop[h].pc \in Late => loop[h].visit \in Visits
    BY LoopVisit DEF Late
  <2> QED
    BY <2>1, <2>2, WorkerVisit, EntryAssumption DEF Placed, Handled, Opened, HandlingOpened,
         RetryOpened, ShownAnnounced, ClearAnnounced
<1>4. ASSUME NEW v \in Visits, PaymentNotice(v)
      PROVE  Course'
  BY <1>4, EntryAssumption DEF PaymentNotice, Placed, Handled, Opened, HandlingOpened,
       RetryOpened, ShownAnnounced, ClearAnnounced
<1>5. CASE RetryPublish
  <2>1. worker.visit \in Visits /\ session[worker.visit] # "none"
    BY <1>5, WorkerVisit DEF RetryPublish, RetryOpened
  <2>2. /\ UNCHANGED <<visit, spotOf, session, loop, retry>>
        /\ worker' = LoopIdle \/ worker' = [worker EXCEPT !.pc = "delete"]
        /\ announced \subseteq announced' /\ announced' \subseteq announced \cup {worker.visit}
        /\ worker'.pc = "delete" => worker.visit \in announced'
        /\ UNCHANGED app \/ (Shown(worker.visit) /\ worker.visit \in announced')
    BY <1>5 DEF RetryPublish, LetGo, LoopIdle
  <2>3. worker'.pc # "idle" => worker'.visit = worker.visit
    BY <1>5, <2>2 DEF RetryPublish, LoopIdle
  <2>4. ShownAnnounced'
    BY <2>1, <2>2 DEF ShownAnnounced, Shown
  <2> QED
    BY <2>1, <2>2, <2>3, <2>4 DEF Placed, Handled, Opened, HandlingOpened, RetryOpened,
         ClearAnnounced
<1>6. CASE RetryDelete
  BY <1>6 DEF RetryDelete, Forgotten, LetGo, LoopIdle, Placed, Handled, Opened, HandlingOpened,
       RetryOpened, ShownAnnounced, ClearAnnounced
<1>7. CASE Expire
  BY <1>7 DEF Expire, Placed, Handled, Opened, HandlingOpened, RetryOpened, ShownAnnounced,
       ClearAnnounced
<1>8. CASE Crash
  <2>1. /\ UNCHANGED <<visit, spotOf, session, retry, app, announced>>
        /\ worker' = worker \/ worker' = LoopIdle
        /\ \A h \in Loops : loop'[h] = loop[h] \/ loop'[h] = LoopIdle
    BY <1>8 DEF Crash, EndLoop
  <2> QED
    BY <2>1 DEF LoopIdle, Late, Placed, Handled, Opened, HandlingOpened, RetryOpened,
         ShownAnnounced, ClearAnnounced
<1> QED
  BY <1>1, <1>2, <1>3, <1>4, <1>5, <1>6, <1>7, <1>8

LEMMA NextCourse == TypeOK /\ Course /\ [Next]_vars => Course'
<1> SUFFICES ASSUME TypeOK, Course, [Next]_vars PROVE Course'
  OBVIOUS
<1>1. CASE UNCHANGED vars
  BY <1>1 DEF vars, entryVars, redisVars, pmsVars, appVars, histVars, Course, Placed, Handled,
       Opened, HandlingOpened, RetryOpened, ShownAnnounced, ClearAnnounced
<1>2. CASE Next
  BY <1>2, NavigationCourse, PmsCourse, HandleCourse, OtherCourse DEF Next
<1> QED
  BY <1>1, <1>2

LEMMA CourseHolds == Spec => []Course
BY InitCourse, NextCourse, TypeCorrect, PTL DEF Spec

-----------------------------------------------------------------------------
(* EntryWebhook implements SessionOpening.                                 *)

LEMMA InitOpening == Init => Opening!Init
BY DEF Init, Opening!Init, OpenedFor

\* The car of a session that is there does not change, nor does any when no
\* session appears.
LEMMA SameOpened ==
  ASSUME TypeOK, Course, [Next]_vars,
         \A v \in Visits : session[v] = "none" <=> session'[v] = "none"
  PROVE  UNCHANGED OpenedFor
<1>1. ASSUME NEW v \in Visits, session[v] # "none"
      PROVE  spotOf'[v] = spotOf[v]
  <2>1. visit[v] # "none"
    BY <1>1 DEF Course, Opened
  <2>2. spotOf' = spotOf \/ \E u \in Visits, s \in Spots : LprEntry(u, s)
    BY DEF Next, vars, entryVars, redisVars, pmsVars, appVars, histVars, SavePreNotify,
         PreRegisterPlate, Navigate, FindRegistration, ConsumeRegistration, LoseWebhook, LprExit,
         WebhookArrives, Handle, LookUpVisit, GetPreNotify, LookUpActive, CreateSession,
         DeletePreNotify, PublishEntry, ClearRetryEvent, RecordRetryEvent, RetryEntry, Pay,
         PaymentNotice, RetryPublish, RetryDelete, Expire, Crash
  <2> QED
    BY <2>1, <2>2 DEF LprEntry, TypeOK
<1> QED
  BY <1>1 DEF OpenedFor, CarOf

\* A session is opened for the car of its visit, which has no other active one.
LEMMA CreateOpens ==
  ASSUME TypeOK, Course, NEW h \in Loops, CreateSession(h)
  PROVE  [Opening!Next]_<<session, OpenedFor, announced>>
<1> DEFINE v == loop[h].visit
<1>1. loop[h].pc # "idle"
  BY DEF CreateSession, At
<1>2. v \in Visits /\ visit[v] # "none"
  BY <1>1, LoopVisit DEF Course, Handled
<1>3. spotOf[v] \in Spots /\ CarOf(v) \in Cars
  BY <1>2 DEF Course, Placed, CarOf, Spots
<1>4. UNCHANGED <<spotOf, announced>>
  BY DEF CreateSession, pmsVars, histVars
<1>5. CASE Insertable(v)
  <2>1. session' = [session EXCEPT ![v] = "active"] /\ session[v] = "none"
    BY <1>5 DEF CreateSession, Insertable
  <2>2. \A u \in Visits : session[u] = "active" => CarOf(u) # CarOf(v) /\ spotOf[u] \in Spots
    BY <1>5 DEF Insertable, ActiveOf, VisitsOf, Course, Opened, Placed
  <2>3. OpenedFor' = [OpenedFor EXCEPT ![v] = CarOf(v)]
    BY <1>2, <1>4, <2>1 DEF OpenedFor, CarOf, TypeOK
  <2>4. \A u \in Visits : OpenedFor[u] = CarOf(v) => session[u] # "active"
    BY <2>2 DEF OpenedFor
  <2>5. Opening!Open(v, CarOf(v))
    BY <1>4, <2>1, <2>3, <2>4 DEF Opening!Open
  <2> QED
    BY <1>2, <1>3, <2>5 DEF Opening!Next
<1>6. CASE ~Insertable(v)
  BY <1>4, <1>6 DEF CreateSession, OpenedFor, CarOf
<1> QED
  BY <1>5, <1>6

\* What is announced has a session.
LEMMA AnnounceOpens ==
  ASSUME TypeOK, Course, [Next]_vars, UNCHANGED session, NEW v \in Visits, session[v] # "none",
         announced' = announced \/ announced' = announced \cup {v}
  PROVE  [Opening!Next]_<<session, OpenedFor, announced>>
<1>1. UNCHANGED OpenedFor
  BY SameOpened
<1> QED
  BY <1>1 DEF Opening!Next, Opening!Announce

LEMMA PayOpens ==
  ASSUME TypeOK, Course, [Next]_vars, NEW v \in Visits, Pay(v)
  PROVE  [Opening!Next]_<<session, OpenedFor, announced>>
<1>1. session[v] = "active" /\ session' = [session EXCEPT ![v] = "completed"] /\ UNCHANGED announced
  BY DEF Pay, histVars
<1>2. UNCHANGED OpenedFor
  BY <1>1, SameOpened DEF TypeOK
<1>3. v \in announced
  <2>1. spotOf[v] \in Spots
    BY <1>1 DEF Course, Opened, Placed
  <2>2. CarOf(v) \in Cars
    BY <2>1 DEF CarOf, Spots
  <2> QED
    BY <2>2 DEF Pay, Course, ShownAnnounced
<1>4. Opening!Pay(v)
  BY <1>1, <1>2, <1>3 DEF Opening!Pay
<1> QED
  BY <1>4 DEF Opening!Next

LEMMA StepOpening ==
  ASSUME TypeOK, Course, [Next]_vars
  PROVE  [Opening!Next]_<<session, OpenedFor, announced>>
<1>1. CASE UNCHANGED <<session, announced>>
  BY <1>1, SameOpened
<1>2. ASSUME NEW h \in Loops, CreateSession(h)
      PROVE  [Opening!Next]_<<session, OpenedFor, announced>>
  BY <1>2, CreateOpens
<1>3. ASSUME NEW h \in Loops, PublishEntry(h)
      PROVE  [Opening!Next]_<<session, OpenedFor, announced>>
  <2>1. loop[h].pc = "publish"
    BY <1>3 DEF PublishEntry, At
  <2>2. loop[h].visit \in Visits /\ session[loop[h].visit] # "none"
    BY <2>1, LoopVisit DEF Course, HandlingOpened, Late
  <2> QED
    BY <1>3, <2>2, AnnounceOpens DEF PublishEntry
<1>4. CASE RetryPublish
  <2>1. worker.visit \in Visits /\ session[worker.visit] # "none"
    BY <1>4, WorkerVisit DEF RetryPublish, Course, RetryOpened
  <2> QED
    BY <1>4, <2>1, AnnounceOpens DEF RetryPublish
<1>5. ASSUME NEW v \in Visits, Pay(v)
      PROVE  [Opening!Next]_<<session, OpenedFor, announced>>
  BY <1>5, PayOpens
<1>6. \/ UNCHANGED <<session, announced>>
      \/ \E h \in Loops : CreateSession(h) \/ PublishEntry(h)
      \/ RetryPublish
      \/ \E v \in Visits : Pay(v)
  BY DEF Next, vars, entryVars, redisVars, pmsVars, appVars, histVars, SavePreNotify,
       PreRegisterPlate, Navigate, LprEntry, FindRegistration, ConsumeRegistration, LoseWebhook,
       LprExit, WebhookArrives, Handle, LookUpVisit, GetPreNotify, LookUpActive,
       DeletePreNotify, ClearRetryEvent, RecordRetryEvent, RetryEntry,
       PaymentNotice, RetryDelete, Expire, Crash
<1> QED
  BY <1>1, <1>2, <1>3, <1>4, <1>5, <1>6

\* Whatever dies, fails or comes twice, sessions are opened, announced and paid
\* as SessionOpening says (HandleEntryWebhookService, NotifyRetryWorker).
THEOREM EntryKeepsOpening == Spec => KeepsOpening
<1>1. Spec => Opening!Init
  BY InitOpening DEF Spec
<1>2. TypeOK /\ Course /\ [Next]_vars => [Opening!Next]_<<session, OpenedFor, announced>>
  BY StepOpening
<1> QED
  BY <1>1, <1>2, TypeCorrect, CourseHolds, PTL DEF Spec, KeepsOpening
-----------------------------------------------------------------------------
(* The registrations.                                                      *)

Read(v, c) == visit[v] # "none" /\ CarOf(v) = c

\* Until its pre-notify is deleted, a session is active and nobody else knows of it.
Fresh ==
  \A h \in Loops : loop[h].pc = "delete" =>
    /\ session[loop[h].visit] = "active"
    /\ loop[h].visit \notin announced \cup retry
    /\ worker.pc = "idle" \/ worker.visit # loop[h].visit
    /\ \A g \in Loops \ {h} : loop[g].pc \in Late => loop[g].visit # loop[h].visit

ExitedPaid == \A v \in Visits : visit[v] = "exited" => session[v] = "completed"

Away(c) == \A v \in Visits : Read(v, c) => visit[v] = "exited"

\* If the app asks only while its car is away: a request finds it away, and a
\* registration that was consumed does not come back during the visit.
AskedAway == "again" \notin faults => \A c \in Cars : nav[c] # NavIdle => Away(c)
Consumed  == "again" \notin faults =>
  \A v \in Visits : visit[v] \in {"sent", "told"} => spotOf[v] \notin preReg

CalledSaved ==
  faults \cap {"again", "expiry"} = {} =>
    \A c \in Cars : nav[c].pc = "call" => <<nav[c].lot, c>> \in preNotify

Registered ==
  /\ Fresh /\ ExitedPaid /\ AskedAway /\ Consumed
  /\ CalledSaved /\ RegistrationsAgree

LEMMA InitRegistered == Init => Registered
BY DEF Init, Registered, Fresh, ExitedPaid, AskedAway, Away, Read, Consumed, CalledSaved,
   RegistrationsAgree, LoopIdle, NavIdle

\* The request of an app is about a lot.
LEMMA NavLot ==
  ASSUME TypeOK, NEW c \in Cars, nav[c] # NavIdle
  PROVE  nav[c].pc \in {"save", "call"} /\ nav[c].lot \in Lots
BY DEF TypeOK, NavIdle

\* The car of a spot.
LEMMA SpotCar ==
  ASSUME TypeOK, Course, NEW v \in Visits, visit[v] # "none", NEW l \in Lots, NEW c \in Cars,
         spotOf[v] = <<l, c>>
  PROVE  Read(v, c)
BY DEF Read, CarOf, Spots

LEMMA CarIsACar ==
  ASSUME TypeOK, Course, NEW v \in Visits, visit[v] # "none"
  PROVE  /\ CarOf(v) \in Cars /\ Read(v, CarOf(v))
         /\ \E l \in Lots : spotOf[v] = <<l, CarOf(v)>>
BY DEF Course, Placed, CarOf, Read, Spots

LEMMA NavigationRegistered ==
  ASSUME TypeOK, Course, Registered, NEW c \in Cars,
         SavePreNotify(c) \/ PreRegisterPlate(c) \/ \E l \in Lots : Navigate(c, l)
  PROVE  Registered'
<1> USE DEF Registered, redisVars, pmsVars, appVars, histVars
<1>1. UNCHANGED <<faults, visit, spotOf, session, loop, retry, worker, announced>>
  BY DEF SavePreNotify, PreRegisterPlate, Navigate
<1>2. Fresh' /\ ExitedPaid'
  BY <1>1 DEF Fresh, ExitedPaid
<1>3. AskedAway'
  <2>1. \A d \in Cars : Away(d)' = Away(d)
    BY <1>1 DEF Away, Read, CarOf
  <2>2. CASE \E l \in Lots : Navigate(c, l)
    <3>1. "again" \notin faults => Away(c)
      BY <2>2 DEF Navigate, VisitsOf, Away, Read, Course, Placed
    <3> QED
      BY <1>1, <2>1, <2>2, <3>1 DEF Navigate, AskedAway, TypeOK
  <2>3. CASE SavePreNotify(c) \/ PreRegisterPlate(c)
    <3>1. nav[c] # NavIdle
      BY <2>3 DEF SavePreNotify, PreRegisterPlate, NavIdle
    <3>2. \A d \in Cars : nav'[d] # NavIdle => nav[d] # NavIdle
      BY <2>3, <3>1 DEF SavePreNotify, PreRegisterPlate, TypeOK
    <3> QED
      BY <1>1, <2>1, <3>2 DEF AskedAway
  <2> QED
    BY <2>2, <2>3
<1>4. Consumed' /\ CalledSaved' /\ RegistrationsAgree'
  <2>1. CASE SavePreNotify(c)
    BY <1>1, <2>1, NavLot DEF SavePreNotify, SaveIncoming, Consumed, CalledSaved,
         RegistrationsAgree, NavIdle, TypeOK
  <2>2. CASE PreRegisterPlate(c)
    <3> DEFINE s == <<nav[c].lot, c>>
    <3>1. nav[c] # NavIdle /\ nav[c].lot \in Lots
      BY <2>2, NavLot DEF PreRegisterPlate, NavIdle
    <3>2. /\ preNotify' = preNotify /\ nav' = [nav EXCEPT ![c] = NavIdle]
          /\ preReg' \subseteq preReg \cup {s}
      BY <2>2 DEF PreRegisterPlate
    <3>3. ASSUME NEW v \in Visits, visit[v] \in {"sent", "told"}, "again" \notin faults
          PROVE  spotOf[v] # s
      BY <3>1, <3>3, SpotCar DEF AskedAway, Away
    <3>4. faults \cap {"again", "expiry"} = {} => s \in preNotify
      BY <2>2 DEF PreRegisterPlate, CalledSaved
    <3> QED
      BY <1>1, <3>2, <3>3, <3>4 DEF Consumed, CalledSaved, RegistrationsAgree, NavIdle, TypeOK
  <2>3. CASE \E l \in Lots : Navigate(c, l)
    BY <1>1, <2>3 DEF Navigate, Consumed, CalledSaved, RegistrationsAgree, NavIdle, TypeOK
  <2> QED
    BY <2>1, <2>2, <2>3
<1> QED
  BY <1>2, <1>3, <1>4

LEMMA PmsRegistered ==
  ASSUME TypeOK, Course, Registered, NEW v \in Visits,
         \/ \E s \in Spots : LprEntry(v, s)
         \/ FindRegistration(v) \/ ConsumeRegistration(v) \/ LoseWebhook(v) \/ LprExit(v)
  PROVE  Registered'
<1> USE DEF Registered, redisVars, pmsVars, appVars, histVars
<1>1. /\ UNCHANGED <<faults, nav, session, loop, retry, worker, announced, preNotify>>
      /\ preReg' \subseteq preReg
      /\ \A u \in Visits : u # v => visit'[u] = visit[u] /\ spotOf'[u] = spotOf[u]
  BY DEF LprEntry, FindRegistration, ConsumeRegistration, LoseWebhook, LprExit, TypeOK
<1>2. Fresh' /\ CalledSaved' /\ RegistrationsAgree'
  BY <1>1 DEF Fresh, CalledSaved, RegistrationsAgree
<1>3. ExitedPaid'
  BY DEF LprEntry, FindRegistration, ConsumeRegistration, LoseWebhook, LprExit, TypeOK, ExitedPaid
<1>4. Consumed'
  BY <1>1 DEF LprEntry, FindRegistration, ConsumeRegistration, LoseWebhook, LprExit, TypeOK,
       Consumed
<1>5. AskedAway'
  <2>1. CASE \E s \in Spots : LprEntry(v, s)
    <3>1. PICK s \in Spots : LprEntry(v, s)
      BY <2>1
    <3>2. s[2] \in Cars /\ ("again" \notin faults => nav[s[2]] = NavIdle)
      BY <3>1 DEF LprEntry, Spots
    <3>3. \A c \in Cars : c # s[2] /\ Away(c) => Away(c)'
      BY <1>1, <3>1 DEF LprEntry, Away, Read, CarOf, TypeOK
    <3> QED
      BY <1>1, <3>2, <3>3 DEF AskedAway
  <2>2. CASE ~\E s \in Spots : LprEntry(v, s)
    <3>1. /\ UNCHANGED spotOf /\ visit[v] # "none"
          /\ visit[v] = "exited" => visit'[v] = "exited"
      BY <2>2 DEF FindRegistration, ConsumeRegistration, LoseWebhook, LprExit, TypeOK
    <3>2. \A c \in Cars : Away(c) => Away(c)'
      BY <1>1, <3>1 DEF Away, Read, CarOf
    <3> QED
      BY <1>1, <3>2 DEF AskedAway
  <2> QED
    BY <2>1, <2>2
<1> QED
  BY <1>2, <1>3, <1>4, <1>5

\* A handler is at work for a visit it was told of; one that is deleting the
\* pre-notify is at a visit the PMS has consumed the registration of, and no app
\* is asking for that car.
LEMMA DeletingAlone ==
  ASSUME TypeOK, Course, Registered, NEW h \in Loops, loop[h].pc = "delete"
  PROVE  /\ visit[loop[h].visit] = "told"
         /\ "again" \notin faults => spotOf[loop[h].visit] \notin preReg
         /\ \A c \in Cars : "again" \notin faults /\ nav[c].pc = "call"
                               => <<nav[c].lot, c>> # spotOf[loop[h].visit]
<1> DEFINE v == loop[h].visit
<1>1. v \in Visits
  BY LoopVisit
<1>2. visit[v] \in {"told", "exited"} /\ session[v] = "active"
  BY DEF Course, Handled, Registered, Fresh
<1>3. visit[v] = "told"
  BY <1>1, <1>2 DEF Registered, ExitedPaid
<1>4. "again" \notin faults => spotOf[v] \notin preReg
  BY <1>1, <1>3 DEF Registered, Consumed
<1>5. ASSUME NEW c \in Cars, "again" \notin faults, nav[c].pc = "call"
      PROVE  <<nav[c].lot, c>> # spotOf[v]
  <2>1. nav[c] # NavIdle
    BY <1>5 DEF NavIdle
  <2>2. nav[c].lot \in Lots /\ Away(c)
    BY <1>5, <2>1, NavLot DEF Registered, AskedAway
  <2> QED
    BY <1>1, <1>3, <2>2, SpotCar DEF Away
<1> QED
  BY <1>3, <1>4, <1>5

\* A session that was just created is nobody else's.
LEMMA CreatedFresh ==
  ASSUME TypeOK, Course, NEW v \in Visits, session[v] = "none"
  PROVE  /\ v \notin announced \cup retry
         /\ worker.pc = "idle" \/ worker.visit # v
         /\ \A g \in Loops : loop[g].pc \in Late => loop[g].visit # v
BY DEF Course, RetryOpened, HandlingOpened

LEMMA HandleFresh ==
  ASSUME TypeOK, Course, Registered, NEW h \in Loops, Handle(h)
  PROVE  Fresh'
<1> USE DEF redisVars, pmsVars, appVars, histVars
<1> DEFINE v == loop[h].visit
<1>1. loop[h].pc # "idle"
  BY DEF Handle, LookUpVisit, GetPreNotify, LookUpActive, CreateSession, DeletePreNotify,
       PublishEntry, ClearRetryEvent, RecordRetryEvent, At
<1>2. v \in Visits
  BY <1>1, LoopVisit
<1>3. \A g \in Loops : g # h => loop'[g] = loop[g]
  BY DEF Handle, LookUpVisit, GetPreNotify, LookUpActive, CreateSession, DeletePreNotify,
       PublishEntry, ClearRetryEvent, RecordRetryEvent, Confirm, ToLoop, EndLoop, TypeOK
<1>4. UNCHANGED worker
  BY DEF Handle, LookUpVisit, GetPreNotify, LookUpActive, CreateSession, DeletePreNotify,
       PublishEntry, ClearRetryEvent, RecordRetryEvent
<1>5. /\ \A to \in LoopPcs : ToLoop(h, to) => loop'[h] = [pc |-> to, visit |-> v]
      /\ EndLoop(h) => loop'[h] = LoopIdle
  BY <1>1, ToLoopGoes
<1>6. CASE CreateSession(h) /\ Insertable(v)
  <2>1. session[v] = "none" /\ session' = [session EXCEPT ![v] = "active"]
    BY <1>6 DEF CreateSession, Insertable
  <2>2. loop'[h] = [pc |-> "delete", visit |-> v]
    BY <1>5, <1>6 DEF CreateSession, LoopPcs
  <2>3. UNCHANGED <<announced, retry>>
    BY <1>6 DEF CreateSession
  <2>4. \A g \in Loops : g # h /\ loop[g].pc = "delete" =>
          loop[g].visit # v /\ session'[loop[g].visit] = "active"
    BY <1>2, <2>1, LoopVisit DEF Registered, Fresh, TypeOK
  <2>5. session'[v] = "active"
    BY <1>2, <2>1 DEF TypeOK
  <2> QED
    BY <1>2, <1>3, <1>4, <2>1, <2>2, <2>3, <2>4, <2>5, CreatedFresh DEF Registered, Fresh, Late
<1>7. CASE ~(CreateSession(h) /\ Insertable(v))
  <2>1. UNCHANGED session
    BY <1>7 DEF Handle, LookUpVisit, GetPreNotify, LookUpActive, CreateSession, DeletePreNotify,
         PublishEntry, ClearRetryEvent, RecordRetryEvent
  <2>2. \/ loop[h].pc \in Late
        \/ UNCHANGED <<announced, retry>>
    BY <1>7 DEF Handle, LookUpVisit, GetPreNotify, LookUpActive, CreateSession, DeletePreNotify,
         PublishEntry, ClearRetryEvent, RecordRetryEvent, Late, At
  <2>3. announced' \subseteq announced \cup {v} /\ retry' \subseteq retry \cup {v}
    BY DEF Handle, LookUpVisit, GetPreNotify, LookUpActive, CreateSession, DeletePreNotify,
         PublishEntry, ClearRetryEvent, RecordRetryEvent, Forgotten
  <2>4. /\ loop'[h].pc # "delete"
        /\ loop'[h].pc \in Late => loop'[h].visit = v /\ loop[h].pc \in Late
    <3>1. CASE LookUpVisit(h) \/ GetPreNotify(h) \/ LookUpActive(h)
      BY <1>5, <3>1 DEF LookUpVisit, GetPreNotify, LookUpActive, Confirm, LoopPcs, LoopIdle, Late
    <3>2. CASE CreateSession(h)
      BY <1>5, <1>7, <3>2 DEF CreateSession, LoopIdle, Late
    <3>3. CASE DeletePreNotify(h)
      BY <1>5, <3>3 DEF DeletePreNotify, LoopPcs, LoopIdle, Late, At
    <3>4. CASE PublishEntry(h)
      BY <1>5, <3>4 DEF PublishEntry, AfterFailure, LoopPcs, LoopIdle, Late, At
    <3>5. CASE ClearRetryEvent(h) \/ RecordRetryEvent(h)
      BY <1>5, <3>5 DEF ClearRetryEvent, RecordRetryEvent, Confirm, LoopPcs, LoopIdle, Late, At
    <3> QED
      BY <3>1, <3>2, <3>3, <3>4, <3>5 DEF Handle
  <2>5. ASSUME NEW g \in Loops, loop'[g].pc = "delete"
        PROVE  /\ session'[loop'[g].visit] = "active"
               /\ loop'[g].visit \notin announced' \cup retry'
               /\ worker'.pc = "idle" \/ worker'.visit # loop'[g].visit
               /\ \A k \in Loops \ {g} : loop'[k].pc \in Late => loop'[k].visit # loop'[g].visit
    <3>1. g # h /\ loop'[g] = loop[g] /\ loop[g].pc = "delete"
      BY <1>3, <2>4, <2>5
    <3>2. loop[h].pc \in Late => loop[g].visit # v
      BY <3>1 DEF Registered, Fresh
    <3> QED
      BY <1>3, <1>4, <2>1, <2>2, <2>3, <2>4, <3>1, <3>2 DEF Registered, Fresh
  <2> QED
    BY <2>5 DEF Fresh
<1> QED
  BY <1>6, <1>7

LEMMA HandleRegistered ==
  ASSUME TypeOK, Course, Registered, NEW h \in Loops, Handle(h)
  PROVE  Registered'
<1> USE DEF redisVars, pmsVars, appVars, histVars
<1> DEFINE v == loop[h].visit
<1>1. UNCHANGED <<faults, nav, visit, spotOf, preReg>>
  BY DEF Handle, LookUpVisit, GetPreNotify, LookUpActive, CreateSession, DeletePreNotify,
       PublishEntry, ClearRetryEvent, RecordRetryEvent
<1>2. ExitedPaid'
  <2>1. UNCHANGED session \/ (session[v] = "none" /\ session' = [session EXCEPT ![v] = "active"])
    BY DEF Handle, LookUpVisit, GetPreNotify, LookUpActive, CreateSession, DeletePreNotify,
         PublishEntry, ClearRetryEvent, RecordRetryEvent, Insertable
  <2> QED
    BY <1>1, <2>1 DEF Registered, ExitedPaid, TypeOK
<1>3. AskedAway' /\ Consumed'
  BY <1>1 DEF Registered, AskedAway, Away, Read, CarOf, Consumed
<1>4. CalledSaved' /\ RegistrationsAgree'
  <2>1. CASE loop[h].pc = "delete"
    <3>1. preNotify \ {spotOf[v]} \subseteq preNotify'
      BY <2>1 DEF Handle, LookUpVisit, GetPreNotify, LookUpActive, CreateSession, DeletePreNotify,
           PublishEntry, ClearRetryEvent, RecordRetryEvent, At
    <3> QED
      BY <1>1, <2>1, <3>1, DeletingAlone DEF Registered, CalledSaved, RegistrationsAgree
  <2>2. CASE loop[h].pc # "delete"
    <3>1. UNCHANGED preNotify
      BY <2>2 DEF Handle, LookUpVisit, GetPreNotify, LookUpActive, CreateSession, DeletePreNotify,
           PublishEntry, ClearRetryEvent, RecordRetryEvent, At
    <3> QED
      BY <1>1, <3>1 DEF Registered, CalledSaved, RegistrationsAgree
  <2> QED
    BY <2>1, <2>2
<1> QED
  BY <1>2, <1>3, <1>4, HandleFresh DEF Registered

LEMMA OtherRegistered ==
  ASSUME TypeOK, Course, Registered,
         \/ \E h \in Loops, v \in Visits : WebhookArrives(h, v)
         \/ \E v \in Visits : RetryEntry(v) \/ Pay(v) \/ PaymentNotice(v)
         \/ RetryPublish \/ RetryDelete \/ Expire \/ Crash
  PROVE  Registered'
<1> USE DEF Registered, redisVars, pmsVars, appVars, histVars
<1> DEFINE SameRoad == UNCHANGED <<faults, spotOf, session, preNotify, preReg>>
<1>1. ASSUME NEW h \in Loops, NEW v \in Visits, WebhookArrives(h, v)
      PROVE  Registered'
  <2>1. /\ SameRoad /\ UNCHANGED <<nav, retry, worker, announced>>
        /\ loop' = [loop EXCEPT ![h] = [pc |-> "look", visit |-> v]]
        /\ visit' = [visit EXCEPT ![v] = "told"] /\ visit[v] \in {"sent", "told"}
    BY <1>1 DEF WebhookArrives
  <2>2. Fresh'
    BY <2>1 DEF Fresh, Late, TypeOK
  <2>3. ExitedPaid' /\ Consumed' /\ CalledSaved' /\ RegistrationsAgree'
    BY <2>1 DEF ExitedPaid, Consumed, CalledSaved, RegistrationsAgree, TypeOK
  <2>4. \A c \in Cars : Away(c) => Away(c)'
    BY <2>1 DEF Away, Read, CarOf, TypeOK
  <2> QED
    BY <2>1, <2>2, <2>3, <2>4 DEF AskedAway
<1>2. ASSUME NEW v \in Visits, Pay(v)
      PROVE  Registered'
  <2>1. /\ UNCHANGED <<faults, nav, preNotify, preReg, visit, spotOf, loop, retry, worker, announced>>
        /\ session[v] = "active" /\ session' = [session EXCEPT ![v] = "completed"]
    BY <1>2 DEF Pay
  <2>2. v \in announced
    BY <1>2, <2>1, CarIsACar DEF Pay, Course, Opened, ShownAnnounced
  <2>3. Fresh'
    BY <2>1, <2>2, LoopVisit DEF Fresh, TypeOK
  <2> QED
    BY <2>1, <2>3 DEF ExitedPaid, AskedAway, Away, Read, CarOf, Consumed, CalledSaved,
         RegistrationsAgree, TypeOK
<1>3. ASSUME NEW v \in Visits, RetryEntry(v) \/ PaymentNotice(v)
      PROVE  Registered'
  <2>1. SameRoad /\ UNCHANGED <<nav, visit, loop, retry, announced>>
    BY <1>3 DEF RetryEntry, PaymentNotice
  <2>2. UNCHANGED worker \/ (worker'.visit = v /\ v \in retry)
    BY <1>3 DEF RetryEntry, PaymentNotice
  <2>3. Fresh'
    BY <2>1, <2>2 DEF Fresh
  <2> QED
    BY <2>1, <2>3 DEF ExitedPaid, AskedAway, Away, Read, CarOf, Consumed, CalledSaved,
         RegistrationsAgree
<1>4. CASE RetryPublish \/ RetryDelete
  <2>1. SameRoad /\ UNCHANGED <<nav, visit, loop>>
    BY <1>4 DEF RetryPublish, RetryDelete
  <2>2. /\ retry' \subseteq retry /\ announced' \subseteq announced \cup {worker.visit}
        /\ worker.pc # "idle"
        /\ worker'.pc = "idle" \/ worker'.visit = worker.visit
    BY <1>4, WorkerVisit DEF RetryPublish, RetryDelete, Forgotten, LetGo, LoopIdle, TypeOK
  <2>3. Fresh'
    BY <2>1, <2>2 DEF Fresh
  <2> QED
    BY <2>1, <2>3 DEF ExitedPaid, AskedAway, Away, Read, CarOf, Consumed, CalledSaved,
         RegistrationsAgree
<1>5. CASE Expire
  <2>1. /\ UNCHANGED <<faults, nav, spotOf, visit, session, loop, worker, announced>>
        /\ preReg' \subseteq preReg /\ retry' \subseteq retry /\ "expiry" \in faults
    BY <1>5 DEF Expire
  <2> QED
    BY <2>1 DEF Fresh, ExitedPaid, AskedAway, Away, Read, CarOf, Consumed, CalledSaved,
         RegistrationsAgree
<1>6. CASE Crash
  <2>1. SameRoad /\ UNCHANGED <<visit, retry, announced>>
    BY <1>6 DEF Crash
  <2>2. /\ \A g \in Loops : loop'[g] \in {loop[g], LoopIdle}
        /\ worker' \in {worker, LoopIdle}
        /\ \A c \in Cars : nav'[c] \in {nav[c], NavIdle}
    BY <1>6 DEF Crash, EndLoop, TypeOK
  <2>3. Fresh'
    BY <2>1, <2>2 DEF Fresh, LoopIdle, Late
  <2> QED
    BY <2>1, <2>2, <2>3 DEF ExitedPaid, AskedAway, Away, Read, CarOf, Consumed, CalledSaved,
         RegistrationsAgree, NavIdle
<1> QED
  BY <1>1, <1>2, <1>3, <1>4, <1>5, <1>6

LEMMA NextRegistered == TypeOK /\ Course /\ Registered /\ [Next]_vars => Registered'
<1> SUFFICES ASSUME TypeOK, Course, Registered, [Next]_vars PROVE Registered'
  OBVIOUS
<1>1. CASE UNCHANGED vars
  BY <1>1 DEF vars, entryVars, redisVars, pmsVars, appVars, histVars, Registered, Fresh,
       ExitedPaid, AskedAway, Away, Read, CarOf, Consumed, CalledSaved, RegistrationsAgree
<1>2. CASE Next
  BY <1>2, NavigationRegistered, PmsRegistered, HandleRegistered, OtherRegistered DEF Next
<1> QED
  BY <1>1, <1>2

LEMMA RegisteredHolds == Spec => []Registered
BY InitRegistered, NextRegistered, TypeCorrect, CourseHolds, PTL DEF Spec

\* A plate registered at the PMS is registered at the back end, unless the app asks
\* while its car is read or parked or a record's lifetime ends: the pre-notify is
\* deleted only for a visit whose registration the PMS has consumed, and no request
\* is then under way (RegisterPreNotifyService, HandleEntryWebhookService).
THEOREM PlatesAgree == Spec => []RegistrationsAgree
BY RegisteredHolds, PTL DEF Registered

-----------------------------------------------------------------------------
(* The sessions of a car.                                                  *)

\* Of two visits of a car, one is paid.
OneUnsettled ==
  \A u, v \in Visits, c \in Cars :
    u # v /\ Read(u, c) /\ Read(v, c) => session[u] = "completed" \/ session[v] = "completed"

Sessions == OneUnsettled /\ ConfirmedHasSession

LEMMA InitSessions == Init => Sessions
BY DEF Init, Sessions, OneUnsettled, ConfirmedHasSession, Read

\* A session that is paid stays paid, and one that is there stays.
LEMMA SessionStays ==
  ASSUME TypeOK, [Next]_vars
  PROVE  /\ \A v \in Visits : session[v] = "completed" => session'[v] = "completed"
         /\ \A v \in Visits : session[v] # "none" => session'[v] # "none"
<1>1. \/ UNCHANGED session
      \/ \E v \in Visits : session[v] = "active" /\ session' = [session EXCEPT ![v] = "completed"]
      \/ \E h \in Loops : /\ session[loop[h].visit] = "none"
                          /\ session' = [session EXCEPT ![loop[h].visit] = "active"]
  BY DEF Next, vars, entryVars, redisVars, pmsVars, appVars, histVars, SavePreNotify,
       PreRegisterPlate, Navigate, LprEntry, FindRegistration, ConsumeRegistration, LoseWebhook,
       LprExit, WebhookArrives, Handle, LookUpVisit, GetPreNotify, LookUpActive, CreateSession,
       Insertable, DeletePreNotify, PublishEntry, ClearRetryEvent, RecordRetryEvent, RetryEntry,
       Pay, PaymentNotice, RetryPublish, RetryDelete, Expire, Crash
<1> QED
  BY <1>1 DEF TypeOK

\* The cars that were read are the same, but for a reading at an entry.
LEMMA SameRead ==
  ASSUME TypeOK, [Next]_vars, ~\E v \in Visits, s \in Spots : LprEntry(v, s)
  PROVE  /\ UNCHANGED spotOf
         /\ \A v \in Visits : visit'[v] # "none" => visit[v] # "none"
<1> USE DEF redisVars, pmsVars, appVars, histVars
<1>1. \/ UNCHANGED <<visit, spotOf>>
      \/ \E v \in Visits : FindRegistration(v) \/ ConsumeRegistration(v) \/ LoseWebhook(v) \/ LprExit(v)
      \/ \E h \in Loops, v \in Visits : WebhookArrives(h, v)
  BY DEF Next, vars, entryVars, SavePreNotify, PreRegisterPlate, Navigate, Handle, LookUpVisit,
       GetPreNotify, LookUpActive, CreateSession, DeletePreNotify, PublishEntry,
       ClearRetryEvent, RecordRetryEvent, RetryEntry, Pay, PaymentNotice, RetryPublish,
       RetryDelete, Expire, Crash
<1> QED
  BY <1>1 DEF FindRegistration, ConsumeRegistration, LoseWebhook, LprExit, WebhookArrives, TypeOK

\* The PMS opens a visit of a car only after the car's last one was paid.
LEMMA NextOneUnsettled ==
  ASSUME TypeOK, Course, OneUnsettled, [Next]_vars
  PROVE  OneUnsettled'
<1>1. ASSUME NEW v \in Visits, NEW s \in Spots, LprEntry(v, s)
      PROVE  OneUnsettled'
  <2>1. /\ visit' = [visit EXCEPT ![v] = "created"] /\ spotOf' = [spotOf EXCEPT ![v] = s]
        /\ UNCHANGED session
    BY <1>1 DEF LprEntry, pmsVars
  <2>2. \A u \in Visits \ {v} : Read(u, s[2]) => session[u] = "completed"
    BY <1>1, CarIsACar DEF LprEntry, SettledAtPms, VisitsOf, Read, Course, Placed
  <2>3. \A u \in Visits \ {v}, c \in Cars : Read(u, c)' <=> Read(u, c)
    BY <2>1 DEF Read, CarOf, TypeOK
  <2>4. \A c \in Cars : Read(v, c)' <=> c = s[2]
    BY <2>1 DEF Read, CarOf, TypeOK
  <2> QED
    BY <2>1, <2>2, <2>3, <2>4 DEF OneUnsettled
<1>2. CASE ~\E v \in Visits, s \in Spots : LprEntry(v, s)
  <2>1. \A v \in Visits, c \in Cars : Read(v, c)' => Read(v, c)
    BY <1>2, SameRead DEF Read, CarOf
  <2> QED
    BY <2>1, SessionStays DEF OneUnsettled
<1> QED
  BY <1>1, <1>2

\* What a handler answers is about a session of its own visit.
LEMMA NextConfirmed ==
  ASSUME TypeOK, Course, Sessions, [Next]_vars
  PROVE  ConfirmedHasSession'
<1> USE DEF redisVars, pmsVars, appVars, histVars
<1>1. ASSUME NEW h \in Loops, Confirm(h), loop[h].pc # "idle", session[loop[h].visit] # "none"
      PROVE  ConfirmedHasSession'
  BY <1>1, LoopVisit, SessionStays DEF Confirm, Sessions, ConfirmedHasSession, TypeOK
<1>2. CASE UNCHANGED confirmed
  BY <1>2, SessionStays DEF Sessions, ConfirmedHasSession, TypeOK
<1>3. ASSUME NEW h \in Loops, LookUpVisit(h)
      PROVE  ConfirmedHasSession'
  BY <1>1, <1>2, <1>3 DEF LookUpVisit, At
<1>4. ASSUME NEW h \in Loops, LookUpActive(h)
      PROVE  ConfirmedHasSession'
  <2> DEFINE v == loop[h].visit
  <2>1. v \in Visits /\ visit[v] # "none"
    BY <1>4, LoopVisit DEF LookUpActive, At, Course, Handled
  <2>2. CASE ActiveOf(CarOf(v)) # {}
    <3>1. PICK u \in Visits : session[u] = "active" /\ CarOf(u) = CarOf(v)
      BY <2>2 DEF ActiveOf, VisitsOf
    <3>2. Read(u, CarOf(v)) /\ Read(v, CarOf(v)) /\ CarOf(v) \in Cars
      BY <2>1, <3>1, CarIsACar DEF Read, Course, Opened
    <3>3. session[v] # "none"
      BY <2>1, <3>1, <3>2 DEF Sessions, OneUnsettled
    <3> QED
      BY <1>1, <1>4, <2>2, <3>3 DEF LookUpActive, At
  <2>3. CASE ActiveOf(CarOf(v)) = {}
    BY <1>2, <1>4, <2>3 DEF LookUpActive
  <2> QED
    BY <2>2, <2>3
<1>5. ASSUME NEW h \in Loops, ClearRetryEvent(h) \/ RecordRetryEvent(h)
      PROVE  ConfirmedHasSession'
  <2>1. loop[h].pc # "idle" /\ session[loop[h].visit] # "none"
    BY <1>5 DEF ClearRetryEvent, RecordRetryEvent, At, Course, HandlingOpened, Late
  <2> QED
    BY <1>1, <1>2, <1>5, <2>1 DEF ClearRetryEvent, RecordRetryEvent
<1>6. \/ UNCHANGED confirmed
      \/ \E h \in Loops :
           LookUpVisit(h) \/ LookUpActive(h) \/ ClearRetryEvent(h) \/ RecordRetryEvent(h)
  BY DEF Next, vars, entryVars, SavePreNotify, PreRegisterPlate, Navigate, LprEntry,
       FindRegistration, ConsumeRegistration, LoseWebhook, LprExit, WebhookArrives, Handle,
       GetPreNotify, CreateSession, DeletePreNotify, PublishEntry,
       RetryEntry, Pay, PaymentNotice, RetryPublish, RetryDelete, Expire, Crash
<1> QED
  BY <1>2, <1>3, <1>4, <1>5, <1>6

LEMMA SessionsHold == Spec => []Sessions
<1>1. TypeOK /\ Course /\ Sessions /\ [Next]_vars => Sessions'
  BY NextOneUnsettled, NextConfirmed DEF Sessions
<1> QED
  BY <1>1, InitSessions, TypeCorrect, CourseHolds, PTL DEF Spec

\* A visit whose webhook was answered "confirmed" has a session of its own: the
\* look-up by car can answer with the session of an earlier visit only if that one
\* is not paid, and then the PMS has not let the car in again (lpr_entry,
\* HandleEntryWebhookService).
THEOREM ConfirmedIsOpened == Spec => []ConfirmedHasSession
BY SessionsHold, PTL DEF Sessions

-----------------------------------------------------------------------------
(* The announcements.                                                      *)

LEMMA InitAnnounced == Init => AnnouncedOrRemembered
BY DEF Init, AnnouncedOrRemembered

\* A handler that lets its visit go has announced or recorded it.
LEMMA HandleAnnounced ==
  ASSUME TypeOK, Course, AnnouncedOrRemembered, NEW h \in Loops, Handle(h)
  PROVE  AnnouncedOrRemembered'
<1> USE DEF redisVars, pmsVars, appVars, histVars
<1> SUFFICES ASSUME faults' \cap {"crash", "redis", "expiry"} = {}, NEW v \in Visits,
                    session'[v] # "none"
             PROVE  v \in announced' \/ Announcing(v)' \/ v \in retry'
  BY DEF AnnouncedOrRemembered
<1>0. UNCHANGED faults
  BY DEF Handle, LookUpVisit, GetPreNotify, LookUpActive, CreateSession, DeletePreNotify,
       PublishEntry, ClearRetryEvent, RecordRetryEvent
<1>1. loop[h].pc # "idle"
  BY DEF Handle, LookUpVisit, GetPreNotify, LookUpActive, CreateSession, DeletePreNotify,
       PublishEntry, ClearRetryEvent, RecordRetryEvent, At
<1>2. loop[h].visit \in Visits
  BY <1>1, LoopVisit
<1>3. /\ \A to \in LoopPcs : ToLoop(h, to) => loop'[h] = [pc |-> to, visit |-> loop[h].visit]
      /\ EndLoop(h) => loop'[h] = LoopIdle
  BY <1>1, ToLoopGoes
<1>4. \A g \in Loops : g # h => loop'[g] = loop[g]
  BY DEF Handle, LookUpVisit, GetPreNotify, LookUpActive, CreateSession, DeletePreNotify,
       PublishEntry, ClearRetryEvent, RecordRetryEvent, Confirm, ToLoop, EndLoop, TypeOK
<1>5. /\ announced \subseteq announced'
      /\ \A u \in retry : u \in retry' \/ u \in announced
  BY DEF Handle, LookUpVisit, GetPreNotify, LookUpActive, CreateSession, DeletePreNotify,
       PublishEntry, ClearRetryEvent, RecordRetryEvent, Forgotten, At, Course, ClearAnnounced
<1>6. session[v] # "none" \/ (CreateSession(h) /\ Insertable(loop[h].visit) /\ v = loop[h].visit)
  BY <1>2 DEF Handle, LookUpVisit, GetPreNotify, LookUpActive, CreateSession, DeletePreNotify,
       PublishEntry, ClearRetryEvent, RecordRetryEvent, TypeOK
<1>7. CASE CreateSession(h) /\ Insertable(loop[h].visit) /\ v = loop[h].visit
  BY <1>3, <1>7 DEF CreateSession, LoopPcs, Announcing
<1>8. CASE session[v] # "none"
  <2>1. v \in announced \/ v \in retry \/ Announcing(v)
    BY <1>0, <1>8 DEF AnnouncedOrRemembered
  <2>2. ASSUME NEW g \in Loops, loop[g].visit = v, loop[g].pc \in {"delete", "publish", "record"}
        PROVE  v \in announced' \/ Announcing(v)' \/ v \in retry'
    <3>1. CASE g # h
      BY <1>4, <2>2, <3>1 DEF Announcing
    <3>2. CASE g = h
      <4>1. CASE loop[h].pc = "delete"
        BY <1>0, <1>3, <2>2, <3>2, <4>1 DEF Handle, LookUpVisit, GetPreNotify, LookUpActive,
             CreateSession, DeletePreNotify, PublishEntry, ClearRetryEvent, RecordRetryEvent, At,
             LoopPcs, Announcing
      <4>2. CASE loop[h].pc = "publish"
        BY <1>3, <2>2, <3>2, <4>2 DEF Handle, LookUpVisit, GetPreNotify, LookUpActive,
             CreateSession, DeletePreNotify, PublishEntry, ClearRetryEvent, RecordRetryEvent, At,
             AfterFailure, LoopPcs, Announcing
      <4>3. CASE loop[h].pc = "record"
        BY <1>0, <2>2, <3>2, <4>3 DEF Handle, LookUpVisit, GetPreNotify, LookUpActive,
             CreateSession, DeletePreNotify, PublishEntry, ClearRetryEvent, RecordRetryEvent, At
      <4> QED
        BY <2>2, <3>2, <4>1, <4>2, <4>3
    <3> QED
      BY <3>1, <3>2
  <2> QED
    BY <1>5, <2>1, <2>2 DEF Announcing
<1> QED
  BY <1>6, <1>7, <1>8

LEMMA NextAnnounced ==
  ASSUME TypeOK, Course, AnnouncedOrRemembered, [Next]_vars
  PROVE  AnnouncedOrRemembered'
<1> USE DEF redisVars, pmsVars, appVars, histVars
<1>1. ASSUME NEW h \in Loops, Handle(h)
      PROVE  AnnouncedOrRemembered'
  BY <1>1, HandleAnnounced
<1>2. ASSUME NEW h \in Loops, NEW v \in Visits, WebhookArrives(h, v)
      PROVE  AnnouncedOrRemembered'
  <2>1. /\ UNCHANGED <<faults, session, announced, retry>>
        /\ loop[h] = LoopIdle /\ \A g \in Loops : g # h => loop'[g] = loop[g]
    BY <1>2 DEF WebhookArrives, TypeOK
  <2>2. \A u \in Visits : Announcing(u) => Announcing(u)'
    BY <2>1 DEF Announcing, LoopIdle
  <2> QED
    BY <2>1, <2>2 DEF AnnouncedOrRemembered
<1>3. ASSUME NEW v \in Visits, Pay(v)
      PROVE  AnnouncedOrRemembered'
  BY <1>3 DEF Pay, AnnouncedOrRemembered, Announcing, TypeOK
<1>4. CASE Expire \/ Crash
  BY <1>4 DEF Expire, Crash, AnnouncedOrRemembered
<1>5. CASE RetryPublish \/ RetryDelete
  <2>1. UNCHANGED <<faults, session, loop>> /\ announced \subseteq announced'
    BY <1>5 DEF RetryPublish, RetryDelete
  <2>2. \A u \in retry : u \in retry' \/ u \in announced
    BY <1>5 DEF RetryPublish, RetryDelete, Forgotten, Course, ClearAnnounced
  <2> QED
    BY <2>1, <2>2 DEF AnnouncedOrRemembered, Announcing
<1>6. CASE UNCHANGED <<faults, session, announced, retry, loop>>
  BY <1>6 DEF AnnouncedOrRemembered, Announcing
<1>7. \/ UNCHANGED <<faults, session, announced, retry, loop>>
      \/ \E h \in Loops : Handle(h) \/ \E v \in Visits : WebhookArrives(h, v)
      \/ \E v \in Visits : Pay(v)
      \/ RetryPublish \/ RetryDelete \/ Expire \/ Crash
  BY DEF Next, vars, entryVars, SavePreNotify, PreRegisterPlate, Navigate, LprEntry,
       FindRegistration, ConsumeRegistration, LoseWebhook, LprExit, RetryEntry, PaymentNotice
<1> QED
  BY <1>1, <1>2, <1>3, <1>4, <1>5, <1>6, <1>7

\* If nothing dies, Redis works and no record's lifetime ends, every session is
\* announced, being announced or kept as a retry event: a record is cleared only
\* once its announcement reached the broker, by the handler or by the worker.
THEOREM NoneForgotten == Spec => []AnnouncedOrRemembered
BY InitAnnounced, NextAnnounced, TypeCorrect, CourseHolds, PTL DEF Spec

-----------------------------------------------------------------------------
(* What the app shows.                                                     *)

\* A session is paid by an app that was told of it, and a notice is about a payment.
PaidAnnounced == \A v \in Visits : session[v] = "completed" => v \in announced
NoticePaid    == \A v \in notice : session[v] = "completed"

\* An app shows a visit of its own car.
ShownOfCar == \A c \in Cars : app[c] \in Visits => CarOf(app[c]) = c

\* Unless notices may be late, they come during the visit; unless readings may overlap,
\* a car's earlier visits are over.
NoticeInside == "late" \notin faults => \A v \in notice : visit[v] # "exited"
OneInside ==
  "overlap" \notin faults =>
    \A u, v \in Visits, c \in Cars :
      u # v /\ Read(u, c) /\ Read(v, c) => visit[u] = "exited" \/ visit[v] = "exited"

\* Every message that gets through is known to have: nothing is announced twice.
Steady == faults \cap {"crash", "redis", "ack"} = {}

\* A session that a handler announces is nobody else's to announce, and an event is kept
\* for one that was announced only until the worker deletes it.
HandlerAlone ==
  \A h \in Loops : loop[h].pc \in Late =>
    /\ loop[h].visit \notin retry
    /\ worker.pc = "idle" \/ worker.visit # loop[h].visit
    /\ \A g \in Loops \ {h} : loop[g].pc \in Late => loop[g].visit # loop[h].visit
StillToTell ==
  /\ \A h \in Loops : loop[h].pc \in {"delete", "publish", "record"} => loop[h].visit \notin announced
  /\ worker.pc = "publish" => worker.visit \notin announced
EventLeft == \A v \in retry \cap announced : worker.pc = "delete" /\ worker.visit = v

NoEcho == Steady => HandlerAlone /\ StillToTell /\ EventLeft

Shows ==
  /\ PaidAnnounced /\ NoticePaid /\ ShownOfCar
  /\ NoticeInside /\ OneInside /\ NoEcho

LEMMA InitShows == Init => Shows /\ AppFollows
<1> SUFFICES ASSUME Init PROVE Shows /\ AppFollows
  OBVIOUS
<1>1. PaidAnnounced /\ NoticePaid /\ NoticeInside /\ OneInside
  BY DEF Init, PaidAnnounced, NoticePaid, NoticeInside, OneInside, Read
<1>2. ShownOfCar /\ AppFollows
  BY EntryAssumption DEF Init, ShownOfCar, AppFollows, AppShowsSession, AppNotMisled
<1>3. NoEcho
  BY DEF Init, NoEcho, HandlerAlone, StillToTell, EventLeft, LoopIdle, Late
<1> QED
  BY <1>1, <1>2, <1>3 DEF Shows

\* Somebody is about to publish an announcement.
Telling(v) ==
  \/ \E h \in Loops : loop[h].pc = "publish" /\ loop[h].visit = v
  \/ worker.pc = "publish" /\ worker.visit = v

\* What can happen to the sessions and to what the apps show and hear.
LEMMA FollowSteps ==
  ASSUME TypeOK, [Next]_vars
  PROVE  \/ UNCHANGED <<session, app, announced, notice>>
         \/ /\ \E v \in Visits : session[v] = "none" /\ session' = [session EXCEPT ![v] = "active"]
            /\ UNCHANGED <<app, announced, notice, spotOf>>
         \/ \E v \in Visits :
              /\ Telling(v) /\ Shown(v) /\ announced' = announced \cup {v}
              /\ UNCHANGED <<session, notice, spotOf>>
         \/ \E v \in Visits : Pay(v) \/ PaymentNotice(v)
<1> USE DEF redisVars, pmsVars, appVars, histVars
<1>1. ASSUME NEW h \in Loops, CreateSession(h)
      PROVE  \/ UNCHANGED <<session, app, announced, notice>>
             \/ /\ \E v \in Visits : session[v] = "none" /\ session' = [session EXCEPT ![v] = "active"]
                /\ UNCHANGED <<app, announced, notice, spotOf>>
  BY <1>1, LoopVisit DEF CreateSession, At, Insertable
<1>2. ASSUME NEW h \in Loops, PublishEntry(h)
      PROVE  \/ UNCHANGED <<session, app, announced, notice>>
             \/ \E v \in Visits :
                  /\ Telling(v) /\ Shown(v) /\ announced' = announced \cup {v}
                  /\ UNCHANGED <<session, notice, spotOf>>
  BY <1>2, LoopVisit DEF PublishEntry, At, Telling
<1>3. CASE RetryPublish
  BY <1>3, WorkerVisit DEF RetryPublish, Telling
<1>4. ASSUME NEW h \in Loops, Handle(h), ~CreateSession(h), ~PublishEntry(h)
      PROVE  UNCHANGED <<session, app, announced, notice>>
  BY <1>4 DEF Handle, LookUpVisit, GetPreNotify, LookUpActive, DeletePreNotify,
       ClearRetryEvent, RecordRetryEvent
<1>5. \/ UNCHANGED <<session, app, announced, notice>>
      \/ \E h \in Loops : Handle(h)
      \/ RetryPublish
      \/ \E v \in Visits : Pay(v) \/ PaymentNotice(v)
  BY DEF Next, vars, entryVars, SavePreNotify, PreRegisterPlate, Navigate, LprEntry,
       FindRegistration, ConsumeRegistration, LoseWebhook, LprExit, WebhookArrives, RetryEntry,
       RetryDelete, Expire, Crash
<1> QED
  BY <1>1, <1>2, <1>3, <1>4, <1>5

\* The car of a visit stays its car.
LEMMA CarStays ==
  ASSUME TypeOK, [Next]_vars, NEW v \in Visits, visit[v] # "none"
  PROVE  CarOf(v)' = CarOf(v)
<1>1. ASSUME NEW u \in Visits, NEW s \in Spots, LprEntry(u, s)
      PROVE  spotOf'[v] = spotOf[v]
  BY <1>1 DEF LprEntry, TypeOK
<1>2. spotOf'[v] = spotOf[v]
  BY <1>1, SameRead
<1> QED
  BY <1>2 DEF CarOf

\* The visit of a session is one that was read, and no other of its car is unpaid.
LEMMA ActiveIsRead ==
  ASSUME TypeOK, Course, NEW v \in Visits, session[v] # "none"
  PROVE  visit[v] # "none" /\ CarOf(v) \in Cars /\ Read(v, CarOf(v))
<1>1. visit[v] # "none"
  BY DEF Course, Opened
<1> QED
  BY <1>1, CarIsACar

LEMMA PayIs ==
  ASSUME TypeOK, Course, NEW v \in Visits, Pay(v)
  PROVE  /\ session[v] = "active" /\ CarOf(v) \in Cars /\ v \in announced
         /\ session' = [session EXCEPT ![v] = "completed"]
         /\ notice' = notice \cup {v} /\ app' \in {app, [app EXCEPT ![CarOf(v)] = NoVisit]}
         /\ UNCHANGED <<announced, spotOf, visit>>
<1>1. /\ session[v] = "active" /\ app[CarOf(v)] = v
      /\ session' = [session EXCEPT ![v] = "completed"]
      /\ notice' = notice \cup {v} /\ app' \in {app, [app EXCEPT ![CarOf(v)] = NoVisit]}
      /\ UNCHANGED <<announced, spotOf, visit>>
  BY DEF Pay, histVars, pmsVars
<1>2. CarOf(v) \in Cars
  BY <1>1, ActiveIsRead
<1> QED
  BY <1>1, <1>2 DEF Course, ShownAnnounced

\* A session is paid after its announcement.
LEMMA NextPaid ==
  ASSUME TypeOK, Course, PaidAnnounced, NoticePaid, [Next]_vars
  PROVE  PaidAnnounced' /\ NoticePaid'
<1>1. ASSUME NEW v \in Visits, Pay(v)
      PROVE  PaidAnnounced' /\ NoticePaid'
  BY <1>1, PayIs DEF PaidAnnounced, NoticePaid, TypeOK
<1>2. ASSUME NEW v \in Visits, PaymentNotice(v)
      PROVE  PaidAnnounced' /\ NoticePaid'
  BY <1>2 DEF PaymentNotice, histVars, PaidAnnounced, NoticePaid
<1>3. ASSUME NEW v \in Visits, session' = [session EXCEPT ![v] = "active"], session[v] = "none",
             UNCHANGED <<announced, notice>>
      PROVE  PaidAnnounced' /\ NoticePaid'
  BY <1>3 DEF PaidAnnounced, NoticePaid, TypeOK
<1>4. CASE UNCHANGED <<session, notice>> /\ announced \subseteq announced'
  BY <1>4 DEF PaidAnnounced, NoticePaid
<1> QED
  BY <1>1, <1>2, <1>3, <1>4, FollowSteps

\* An app is told only of visits of its car.
LEMMA NextShownOfCar ==
  ASSUME TypeOK, Course, ShownOfCar, [Next]_vars
  PROVE  ShownOfCar'
<1> SUFFICES ASSUME NEW c \in Cars, app'[c] \in Visits PROVE CarOf(app[c])' = c
  BY DEF ShownOfCar
<1>1. CASE app'[c] = app[c]
  <2>1. session[app[c]] # "none" /\ CarOf(app[c]) = c
    BY <1>1 DEF Course, ShownAnnounced, RetryOpened, ShownOfCar
  <2> QED
    BY <1>1, <2>1, ActiveIsRead, CarStays
<1>2. CASE app'[c] # app[c]
  <2>1. PICK v \in Visits : Telling(v) /\ Shown(v) /\ UNCHANGED spotOf
    <3>1. \A u \in Visits : Pay(u) \/ PaymentNotice(u) => app'[c] \in {app[c], NoVisit}
      BY DEF Pay, PaymentNotice, TypeOK
    <3> QED
      BY <1>2, <3>1, FollowSteps, EntryAssumption
  <2>2. app'[c] = v /\ c = CarOf(v)
    BY <1>2, <2>1 DEF Shown, TypeOK
  <2> QED
    BY <2>1, <2>2 DEF CarOf
<1> QED
  BY <1>1, <1>2

\* How visits end.
LEMMA ExitSteps ==
  ASSUME TypeOK, [Next]_vars, NEW v \in Visits
  PROVE  /\ visit[v] = "exited" => visit'[v] = "exited"
         /\ visit'[v] = "exited" => visit[v] = "exited" \/ LprExit(v)
<1> USE DEF redisVars, pmsVars, appVars, histVars
<1>1. \/ UNCHANGED visit
      \/ \E u \in Visits, s \in Spots : LprEntry(u, s)
      \/ \E u \in Visits : FindRegistration(u) \/ ConsumeRegistration(u) \/ LoseWebhook(u) \/ LprExit(u)
      \/ \E h \in Loops, u \in Visits : WebhookArrives(h, u)
  BY DEF Next, vars, entryVars, SavePreNotify, PreRegisterPlate, Navigate, Handle, LookUpVisit,
       GetPreNotify, LookUpActive, CreateSession, DeletePreNotify, PublishEntry,
       ClearRetryEvent, RecordRetryEvent, RetryEntry, Pay, PaymentNotice, RetryPublish,
       RetryDelete, Expire, Crash
<1> QED
  BY <1>1 DEF LprEntry, FindRegistration, ConsumeRegistration, LoseWebhook, LprExit,
       WebhookArrives, TypeOK

LEMMA SameFaults == [Next]_vars => UNCHANGED faults
BY DEF Next, vars, entryVars, SavePreNotify, PreRegisterPlate, Navigate, LprEntry,
     FindRegistration, ConsumeRegistration, LoseWebhook, LprExit, WebhookArrives, Handle,
     LookUpVisit, GetPreNotify, LookUpActive, CreateSession, DeletePreNotify, PublishEntry,
     ClearRetryEvent, RecordRetryEvent, RetryEntry, Pay, PaymentNotice, RetryPublish,
     RetryDelete, Expire, Crash

\* A notice that is not late comes before the exit.
LEMMA NextNoticeInside ==
  ASSUME TypeOK, Course, Registered, NoticeInside, [Next]_vars
  PROVE  NoticeInside'
<1> SUFFICES ASSUME "late" \notin faults, NEW v \in Visits, v \in notice', visit'[v] = "exited"
             PROVE  FALSE
  BY SameFaults, NextType DEF NoticeInside, TypeOK
<1>1. CASE v \in notice
  <2>1. LprExit(v)
    BY <1>1, ExitSteps DEF NoticeInside
  <2> QED
    BY <1>1, <2>1 DEF LprExit
<1>2. CASE v \notin notice
  <2>1. Pay(v)
    BY <1>2, FollowSteps, PayIs DEF PaymentNotice
  <2>2. session[v] = "active" /\ visit[v] = "exited"
    BY <2>1, PayIs
  <2> QED
    BY <2>2 DEF Registered, ExitedPaid
<1> QED
  BY <1>1, <1>2

\* Unless readings overlap, a car is read at an entry after its exits.
LEMMA NextOneInside ==
  ASSUME TypeOK, Course, OneInside, [Next]_vars
  PROVE  OneInside'
<1> SUFFICES ASSUME "overlap" \notin faults, OneInside
             PROVE  \A u, v \in Visits, c \in Cars :
                      u # v /\ Read(u, c)' /\ Read(v, c)' => visit'[u] = "exited" \/ visit'[v] = "exited"
  BY SameFaults DEF OneInside
<1>1. ASSUME NEW v \in Visits, NEW s \in Spots, LprEntry(v, s)
      PROVE  OneInside'
  <2>1. visit' = [visit EXCEPT ![v] = "created"] /\ spotOf' = [spotOf EXCEPT ![v] = s]
    BY <1>1 DEF LprEntry
  <2>2. \A u \in Visits \ {v} : Read(u, s[2]) => visit[u] = "exited"
    BY <1>1, CarIsACar DEF LprEntry, VisitsOf, Read, Course, Placed
  <2>3. \A u \in Visits \ {v}, c \in Cars : Read(u, c)' <=> Read(u, c)
    BY <2>1 DEF Read, CarOf, TypeOK
  <2>4. \A c \in Cars : Read(v, c)' <=> c = s[2]
    BY <2>1 DEF Read, CarOf, TypeOK
  <2>5. \A u \in Visits \ {v} : visit'[u] = visit[u]
    BY <2>1 DEF TypeOK
  <2> QED
    BY <2>2, <2>3, <2>4, <2>5 DEF OneInside
<1>2. CASE ~\E v \in Visits, s \in Spots : LprEntry(v, s)
  <2>1. \A v \in Visits, c \in Cars : Read(v, c)' => Read(v, c)
    BY <1>2, SameRead DEF Read, CarOf
  <2> QED
    BY <2>1, ExitSteps DEF OneInside
<1> QED
  BY <1>1, <1>2, SameFaults DEF OneInside

\* The steps of a webhook's handler, as an announcement sees them.
LEMMA HandleSteps ==
  ASSUME TypeOK, NEW h \in Loops, Handle(h), NEW v \in Visits, v = loop[h].visit
  PROVE  /\ UNCHANGED worker /\ \A g \in Loops : g # h => loop'[g] = loop[g]
         /\ \/ loop'[h].pc \notin Late /\ UNCHANGED <<announced, retry>>
            \/ /\ session[v] = "none" /\ loop'[h] = [pc |-> "delete", visit |-> v]
               /\ UNCHANGED <<announced, retry>>
            \/ /\ loop[h].pc = "delete" /\ loop'[h] = [pc |-> "publish", visit |-> v]
               /\ UNCHANGED <<announced, retry>>
            \/ /\ loop[h].pc = "publish" /\ UNCHANGED retry
               /\ \/ loop'[h] = [pc |-> "clear", visit |-> v] /\ announced' = announced \cup {v}
                  \/ loop'[h] = [pc |-> "record", visit |-> v] /\ UNCHANGED announced
                  \/ "ack" \in faults
            \/ /\ loop[h].pc = "clear" /\ UNCHANGED announced
               /\ (loop'[h] = LoopIdle /\ retry' = retry \ {v}) \/ "redis" \in faults
            \/ /\ loop[h].pc = "record" /\ UNCHANGED announced
               /\ loop'[h] = LoopIdle /\ retry' = retry \cup {v}
<1> USE DEF redisVars, pmsVars, appVars, histVars, At
<1>1. loop[h].pc # "idle"
  BY DEF Handle, LookUpVisit, GetPreNotify, LookUpActive, CreateSession, DeletePreNotify,
       PublishEntry, ClearRetryEvent, RecordRetryEvent
<1>2. /\ \A to \in LoopPcs : ToLoop(h, to) => loop'[h] = [pc |-> to, visit |-> v]
      /\ EndLoop(h) => loop'[h] = LoopIdle
  BY <1>1, ToLoopGoes
<1>3. UNCHANGED worker /\ \A g \in Loops : g # h => loop'[g] = loop[g]
  BY DEF Handle, LookUpVisit, GetPreNotify, LookUpActive, CreateSession, DeletePreNotify,
       PublishEntry, ClearRetryEvent, RecordRetryEvent, Confirm, ToLoop, EndLoop, TypeOK
<1>4. LoopIdle.pc \notin Late
  BY DEF LoopIdle, Late
<1>5. CASE LookUpVisit(h) \/ GetPreNotify(h) \/ LookUpActive(h)
  BY <1>2, <1>3, <1>4, <1>5 DEF LookUpVisit, GetPreNotify, LookUpActive, Confirm, LoopPcs, Late
<1>6. CASE CreateSession(h)
  BY <1>2, <1>3, <1>4, <1>6 DEF CreateSession, Insertable, LoopPcs
<1>7. CASE DeletePreNotify(h)
  BY <1>2, <1>3, <1>4, <1>7 DEF DeletePreNotify, LoopPcs
<1>8. CASE PublishEntry(h)
  BY <1>2, <1>3, <1>8 DEF PublishEntry, AfterFailure, LoopPcs
<1>9. CASE ClearRetryEvent(h)
  BY <1>2, <1>3, <1>9 DEF ClearRetryEvent, Confirm, Forgotten, LoopPcs
<1>10. CASE RecordRetryEvent(h)
  BY <1>2, <1>3, <1>4, <1>10 DEF RecordRetryEvent, Confirm
<1> QED
  BY <1>5, <1>6, <1>7, <1>8, <1>9, <1>10 DEF Handle

\* A session is announced by the one handler that opened it or, when the broker refused,
\* from the one event it left.
LEMMA HandleNoEcho ==
  ASSUME TypeOK, Course, HandlerAlone, StillToTell, EventLeft, Steady, NEW h \in Loops, Handle(h)
  PROVE  HandlerAlone' /\ StillToTell' /\ EventLeft'
<1>1. PICK v \in Visits : v = loop[h].visit
  <2>1. loop[h].pc # "idle"
    BY DEF Handle, LookUpVisit, GetPreNotify, LookUpActive, CreateSession, DeletePreNotify,
         PublishEntry, ClearRetryEvent, RecordRetryEvent, At
  <2> QED
    BY <2>1, LoopVisit
<1>2. UNCHANGED worker /\ \A g \in Loops : g # h => loop'[g] = loop[g]
  BY <1>1, HandleSteps
<1>3. CASE loop'[h].pc \notin Late /\ announced' = announced /\ retry' \subseteq retry
  BY <1>2, <1>3 DEF HandlerAlone, StillToTell, EventLeft, Late
<1>4. CASE session[v] = "none" /\ loop'[h] = [pc |-> "delete", visit |-> v] /\ UNCHANGED <<announced, retry>>
  <2>1. /\ v \notin announced \cup retry
        /\ worker.pc = "idle" \/ worker.visit # v
        /\ \A g \in Loops : loop[g].pc \in Late => loop[g].visit # v
    BY <1>4, CreatedFresh
  <2> QED
    BY <1>2, <1>4, <2>1 DEF HandlerAlone, StillToTell, EventLeft
<1>5. CASE loop[h].pc = "delete" /\ loop'[h] = [pc |-> "publish", visit |-> v] /\ UNCHANGED <<announced, retry>>
  BY <1>1, <1>2, <1>5 DEF HandlerAlone, StillToTell, EventLeft, Late
<1>6. CASE /\ loop[h].pc = "publish" /\ loop'[h] = [pc |-> "record", visit |-> v]
           /\ UNCHANGED <<announced, retry>>
  BY <1>1, <1>2, <1>6 DEF HandlerAlone, StillToTell, EventLeft, Late
<1>7. CASE /\ loop[h].pc = "publish" /\ loop'[h] = [pc |-> "clear", visit |-> v]
           /\ announced' = announced \cup {v} /\ UNCHANGED retry
  <2>1. /\ v \notin retry /\ (worker.pc = "idle" \/ worker.visit # v)
        /\ \A g \in Loops \ {h} : loop[g].pc \in Late => loop[g].visit # v
    BY <1>1, <1>7 DEF HandlerAlone, Late
  <2>2. HandlerAlone'
    BY <1>2, <1>7, <2>1 DEF HandlerAlone
  <2>3. StillToTell'
    BY <1>2, <1>7, <2>1 DEF StillToTell, Late
  <2>4. EventLeft'
    BY <1>2, <1>7, <2>1 DEF EventLeft
  <2> QED
    BY <2>2, <2>3, <2>4
<1>8. CASE /\ loop[h].pc = "record" /\ UNCHANGED announced
           /\ loop'[h] = LoopIdle /\ retry' = retry \cup {v}
  <2>1. /\ v \notin announced
        /\ \A g \in Loops \ {h} : loop[g].pc \in Late => loop[g].visit # v
    BY <1>1, <1>8 DEF HandlerAlone, StillToTell, Late
  <2>2. loop'[h].pc \notin Late
    BY <1>8 DEF LoopIdle, Late
  <2>3. HandlerAlone'
    BY <1>2, <1>8, <2>1, <2>2 DEF HandlerAlone
  <2>4. StillToTell'
    BY <1>2, <1>8, <2>2 DEF StillToTell, Late
  <2>5. EventLeft'
    BY <1>2, <1>8, <2>1 DEF EventLeft
  <2> QED
    BY <2>3, <2>4, <2>5
<1>9. LoopIdle.pc \notin Late
  BY DEF LoopIdle, Late
<1> QED
  BY <1>1, <1>3, <1>4, <1>5, <1>6, <1>7, <1>8, <1>9, HandleSteps DEF Steady

LEMMA WorkerNoEcho ==
  ASSUME TypeOK, HandlerAlone, StillToTell, EventLeft, Steady,
         (\E v \in Visits : RetryEntry(v)) \/ RetryPublish \/ RetryDelete
  PROVE  HandlerAlone' /\ StillToTell' /\ EventLeft'
<1> USE DEF redisVars, histVars
<1>1. ASSUME NEW v \in Visits, RetryEntry(v)
      PROVE  HandlerAlone' /\ StillToTell' /\ EventLeft'
  <2>1. /\ worker = LoopIdle /\ v \in retry /\ worker' = [pc |-> "publish", visit |-> v]
        /\ UNCHANGED <<loop, retry, announced>>
    BY <1>1 DEF RetryEntry
  <2>2. \A u \in retry : u \notin announced
    BY <2>1 DEF EventLeft, LoopIdle
  <2> QED
    BY <2>1, <2>2 DEF HandlerAlone, StillToTell, EventLeft
<1>2. CASE RetryPublish
  <2> DEFINE v == worker.visit
  <2>1. /\ worker.pc = "publish" /\ v \notin announced
        /\ \A h \in Loops : loop[h].pc \in Late => loop[h].visit # v
        /\ \A u \in retry : u \notin announced
    BY <1>2 DEF RetryPublish, HandlerAlone, StillToTell, EventLeft
  <2>2. \/ /\ announced' = announced \cup {v} /\ worker' = [worker EXCEPT !.pc = "delete"]
           /\ UNCHANGED <<loop, retry>>
        \/ worker' = LoopIdle /\ UNCHANGED <<loop, retry, announced>>
    BY <1>2 DEF RetryPublish, LetGo, Steady
  <2>3. worker \in [pc : {"publish", "delete"}, visit : Visits]
    BY <2>1 DEF TypeOK, LoopIdle
  <2>4. CASE worker' = LoopIdle /\ UNCHANGED <<loop, retry, announced>>
    BY <2>1, <2>4 DEF HandlerAlone, StillToTell, EventLeft, LoopIdle
  <2>5. CASE /\ announced' = announced \cup {v} /\ worker' = [worker EXCEPT !.pc = "delete"]
             /\ UNCHANGED <<loop, retry>>
    <3>1. worker'.pc = "delete" /\ worker'.visit = v
      BY <2>3, <2>5
    <3> QED
      BY <2>1, <2>5, <3>1 DEF HandlerAlone, StillToTell, EventLeft, Late
  <2> QED
    BY <2>2, <2>4, <2>5
<1>3. CASE RetryDelete
  <2>1. /\ worker.pc = "delete" /\ worker' = LoopIdle /\ retry' = retry \ {worker.visit}
        /\ UNCHANGED <<loop, announced>>
    BY <1>3 DEF RetryDelete, LetGo, Forgotten, Steady
  <2> QED
    BY <2>1 DEF HandlerAlone, StillToTell, EventLeft, LoopIdle
<1> QED
  BY <1>1, <1>2, <1>3

LEMMA NextNoEcho ==
  ASSUME TypeOK, Course, NoEcho, [Next]_vars
  PROVE  NoEcho'
<1> USE DEF redisVars, pmsVars, appVars, histVars
<1> SUFFICES ASSUME Steady PROVE HandlerAlone' /\ StillToTell' /\ EventLeft'
  BY SameFaults DEF NoEcho, Steady
<1>1. HandlerAlone /\ StillToTell /\ EventLeft
  BY DEF NoEcho
<1>2. ASSUME NEW h \in Loops, NEW v \in Visits, WebhookArrives(h, v)
      PROVE  HandlerAlone' /\ StillToTell' /\ EventLeft'
  <2>1. /\ UNCHANGED <<retry, worker, announced>> /\ loop'[h].pc = "look"
        /\ \A g \in Loops : g # h => loop'[g] = loop[g]
    BY <1>2 DEF WebhookArrives, TypeOK
  <2> QED
    BY <1>1, <2>1 DEF HandlerAlone, StillToTell, EventLeft, Late
<1>3. CASE UNCHANGED <<loop, worker, announced>> /\ retry' \subseteq retry
  BY <1>1, <1>3 DEF HandlerAlone, StillToTell, EventLeft
<1>4. ~Crash
  BY DEF Crash, Steady
<1>5. \/ UNCHANGED <<loop, worker, announced>> /\ retry' \subseteq retry
      \/ \E h \in Loops : Handle(h) \/ \E v \in Visits : WebhookArrives(h, v)
      \/ \E v \in Visits : RetryEntry(v)
      \/ RetryPublish \/ RetryDelete
  BY <1>4 DEF Next, vars, entryVars, SavePreNotify, PreRegisterPlate, Navigate, LprEntry,
       FindRegistration, ConsumeRegistration, LoseWebhook, LprExit, Pay, PaymentNotice, Expire
<1> QED
  BY <1>1, <1>2, <1>3, <1>5, HandleNoEcho, WorkerNoEcho

\* A message that is about to be published is the first about an active session.
LEMMA TellingActive ==
  ASSUME TypeOK, Course, PaidAnnounced, NoEcho, Steady, NEW v \in Visits, Telling(v)
  PROVE  session[v] = "active"
<1>1. v \notin announced
  BY DEF NoEcho, StillToTell, Telling
<1>2. session[v] # "none"
  BY DEF Telling, Course, HandlingOpened, RetryOpened, Late
<1> QED
  BY <1>1, <1>2 DEF PaidAnnounced, TypeOK

\* Of two visits of a car only one has an active session.
LEMMA OneActive ==
  ASSUME TypeOK, Course, OneUnsettled, NEW u \in Visits, NEW v \in Visits,
         session[u] = "active", session[v] = "active", CarOf(u) = CarOf(v)
  PROVE  u = v
<1>1. Read(u, CarOf(u)) /\ Read(v, CarOf(u)) /\ CarOf(u) \in Cars
  BY ActiveIsRead
<1> QED
  BY <1>1 DEF OneUnsettled

\* An app that was told of an active session goes on showing it.
LEMMA NextAppShows ==
  ASSUME TypeOK, Course, Registered, OneUnsettled, Shows, AppShowsSession, [Next]_vars
  PROVE  AppShowsSession'
<1> SUFFICES ASSUME faults \cap {"offline", "late", "overlap", "crash", "redis", "ack"} = {},
                    NEW v \in Visits, v \in announced', session'[v] = "active"
             PROVE  app'[CarOf(v)'] = v
  BY SameFaults, NextType DEF AppShowsSession, TypeOK
<1>0. Steady
  BY DEF Steady
<1>1. ASSUME v \in announced, session[v] = "active"
      PROVE  app[CarOf(v)] = v /\ CarOf(v)' = CarOf(v) /\ CarOf(v) \in Cars
  BY <1>1, ActiveIsRead, CarStays DEF AppShowsSession
<1>2. CASE UNCHANGED <<session, app, announced>>
  BY <1>1, <1>2
<1>3. ASSUME NEW u \in Visits, session[u] = "none", session' = [session EXCEPT ![u] = "active"],
             UNCHANGED <<app, announced>>
      PROVE  app'[CarOf(v)'] = v
  <2>1. v # u
    BY <1>3 DEF Course, RetryOpened
  <2> QED
    BY <1>1, <1>3, <2>1 DEF TypeOK
<1>4. ASSUME NEW u \in Visits, Telling(u), Shown(u), announced' = announced \cup {u},
             UNCHANGED <<session, spotOf>>
      PROVE  app'[CarOf(v)'] = v
  <2>1. session[u] = "active" /\ app' = [app EXCEPT ![CarOf(u)] = u] /\ CarOf(u) \in Cars
    BY <1>0, <1>4, TellingActive, ActiveIsRead DEF Shows, Shown
  <2>2. CarOf(v)' = CarOf(v)
    BY <1>4 DEF CarOf
  <2>3. CASE CarOf(v) = CarOf(u)
    <3>1. v = u
      BY <1>4, <2>1, <2>3, OneActive
    <3> QED
      BY <2>1, <2>2, <3>1 DEF TypeOK
  <2>4. CASE CarOf(v) # CarOf(u)
    BY <1>1, <1>4, <2>1, <2>2, <2>4 DEF TypeOK
  <2> QED
    BY <2>3, <2>4
<1>5. ASSUME NEW u \in Visits, Pay(u)
      PROVE  app'[CarOf(v)'] = v
  <2>1. v # u /\ v \in announced /\ session[v] = "active"
    BY <1>5, PayIs DEF TypeOK
  <2>2. CarOf(u) # CarOf(v)
    BY <1>5, <2>1, PayIs, OneActive
  <2> QED
    BY <1>1, <1>5, <2>1, <2>2, PayIs DEF TypeOK
<1>6. ASSUME NEW u \in Visits, PaymentNotice(u)
      PROVE  app'[CarOf(v)'] = v
  <2>1. /\ u \in notice /\ session[u] = "completed" /\ visit[u] # "exited"
        /\ app' = [app EXCEPT ![CarOf(u)] = NoVisit]
        /\ v \in announced /\ session[v] = "active"
    BY <1>6 DEF PaymentNotice, histVars, Shows, NoticePaid, NoticeInside
  <2>2. CarOf(u) # CarOf(v)
    <3>1. SUFFICES ASSUME CarOf(u) = CarOf(v) PROVE FALSE
      OBVIOUS
    <3>2. Read(u, CarOf(v)) /\ Read(v, CarOf(v)) /\ CarOf(v) \in Cars
      BY <2>1, <3>1, ActiveIsRead
    <3>3. visit[v] = "exited"
      BY <2>1, <3>2 DEF Shows, OneInside
    <3> QED
      BY <2>1, <3>3 DEF Registered, ExitedPaid
  <2> QED
    BY <1>1, <2>1, <2>2 DEF TypeOK
<1> QED
  BY <1>2, <1>3, <1>4, <1>5, <1>6, FollowSteps

\* An app shows an active session, or will hear of the payment.
LEMMA NextNotMisled ==
  ASSUME TypeOK, TypeOK', Course, Shows, ShownOfCar', AppNotMisled, [Next]_vars
  PROVE  AppNotMisled'
<1> SUFFICES ASSUME faults \cap {"crash", "redis", "ack", "offline"} = {},
                    NEW c \in Cars, app'[c] # NoVisit
             PROVE  session'[app'[c]] = "active" \/ app'[c] \in notice'
  BY SameFaults DEF AppNotMisled
<1>0. Steady
  BY DEF Steady
<1>1. PICK v \in Visits : v = app'[c]
  BY DEF TypeOK
<1>2. ASSUME app[c] = v
      PROVE  session[v] = "active" \/ v \in notice
  BY <1>2, EntryAssumption DEF AppNotMisled
<1>3. CASE UNCHANGED <<session, app, notice>>
  BY <1>1, <1>2, <1>3
<1>4. ASSUME NEW u \in Visits, session' = [session EXCEPT ![u] = "active"], UNCHANGED <<app, notice>>
      PROVE  session'[v] = "active" \/ v \in notice'
  BY <1>1, <1>2, <1>4 DEF TypeOK
<1>5. ASSUME NEW u \in Visits, Telling(u), Shown(u), UNCHANGED <<session, notice>>
      PROVE  session'[v] = "active" \/ v \in notice'
  <2>1. session[u] = "active"
    BY <1>0, <1>5, TellingActive DEF Shows
  <2>2. v = u \/ app[c] = v
    BY <1>1, <1>5 DEF Shown, TypeOK
  <2> QED
    BY <1>2, <1>5, <2>1, <2>2
<1>6. ASSUME NEW u \in Visits, Pay(u)
      PROVE  session'[v] = "active" \/ v \in notice'
  <2>1. app[c] = v
    BY <1>1, <1>6, PayIs, EntryAssumption DEF TypeOK
  <2> QED
    BY <1>2, <1>6, <2>1, PayIs DEF TypeOK
<1>7. ASSUME NEW u \in Visits, PaymentNotice(u)
      PROVE  session'[v] = "active" \/ v \in notice'
  <2>1. /\ app' = [app EXCEPT ![CarOf(u)] = NoVisit] /\ notice' = notice \ {u}
        /\ UNCHANGED <<session, spotOf>>
    BY <1>7 DEF PaymentNotice, pmsVars
  <2>2. app[c] = v /\ c # CarOf(u)
    BY <1>1, <2>1, EntryAssumption DEF TypeOK
  <2>3. v # u
    BY <2>2 DEF Shows, ShownOfCar
  <2> QED
    BY <1>2, <2>1, <2>2, <2>3
<1> QED
  BY <1>1, <1>3, <1>4, <1>5, <1>6, <1>7, FollowSteps

LEMMA NextShows ==
  TypeOK /\ TypeOK' /\ Course /\ Registered /\ OneUnsettled /\ Shows /\ AppFollows /\ [Next]_vars
    => (Shows /\ AppFollows)'
<1> SUFFICES ASSUME TypeOK, TypeOK', Course, Registered, OneUnsettled, Shows, AppFollows, [Next]_vars
             PROVE  Shows' /\ AppFollows'
  OBVIOUS
<1>1. PaidAnnounced' /\ NoticePaid' /\ ShownOfCar'
  BY NextPaid, NextShownOfCar DEF Shows
<1>2. NoticeInside' /\ OneInside' /\ NoEcho'
  BY NextNoticeInside, NextOneInside, NextNoEcho DEF Shows
<1>3. AppShowsSession' /\ AppNotMisled'
  BY <1>1, NextAppShows, NextNotMisled DEF AppFollows
<1> QED
  BY <1>1, <1>2, <1>3 DEF Shows, AppFollows

\* The app shows the session that is to be paid, and no other for long: each session
\* is announced once, by its handler or from the event it left, and a car's sessions
\* follow one another (onEntryConfirm, onPaymentComplete, _retry_entry).
THEOREM AppIsRight == Spec => []AppFollows
<1>1. Spec => [](Shows /\ AppFollows)
  BY InitShows, NextShows, TypeCorrect, CourseHolds, RegisteredHolds, SessionsHold, PTL DEF Spec, Sessions
<1> QED
  BY <1>1, PTL
=============================================================================

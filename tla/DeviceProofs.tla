----------------------------- MODULE DeviceProofs -----------------------------
(***************************************************************************)
(* Proofs about the parts of the app that work on one job of one device    *)
(* and are asked for another meanwhile: full syncs (SyncScheduling), the   *)
(* automatic download of the Mushaf (AutoDownload), the registration of    *)
(* reminders (ReminderScheduler) and the audio playback (PlaybackEngine).  *)
(* Of the first three, no request made during a job is lost; of the last,  *)
(* what is left of an older one changes nothing.                           *)
(***************************************************************************)
EXTENDS SyncScheduling, AutoDownload, ReminderScheduler, PlaybackEngine, TLAPS

(***************************************************************************)
(* Full syncs run one at a time, and a change made during one brings       *)
(* another. The invariant adds to both that the sync in flight is the one  *)
(* that runs.                                                              *)
(***************************************************************************)
(* The sync in flight is the one that runs; only a signed-in session syncs.*)
OneRuns ==
    /\ \A s \in Sessions : running[s] = IF s = inFlight THEN 1 ELSE 0
    /\ authorized => session \in Sessions
    /\ session = NoSession => ~unsent

(* The type invariant, in parts. *)
Flags == /\ authorized \in BOOLEAN /\ onScreen \in BOOLEAN /\ recent \in BOOLEAN
         /\ retryDue \in BOOLEAN /\ unsent \in BOOLEAN
Numbers == /\ session \in 0..MaxSessions
           /\ inFlight \in 0..MaxSessions /\ again \in 0..MaxSessions
           /\ running \in [Sessions -> Nat] /\ waiting \in [Sessions -> Nat]
           /\ retries \in 0..MaxRetries /\ happened \in 0..SyncEvents

SyncInv == SyncTypeOK /\ OneRuns /\ ChangeIsPickedUp

LEMMA SyncInitially == SyncInit => SyncInv
<1> SUFFICES ASSUME SyncInit PROVE SyncInv OBVIOUS
<1> USE SchedulingAssumption DEF SyncInit, NoSession, Sessions
<1>1. /\ session \in 0..MaxSessions /\ inFlight \in 0..MaxSessions /\ again \in 0..MaxSessions
      /\ retries \in 0..MaxRetries /\ happened \in 0..SyncEvents
      /\ running \in [Sessions -> Nat] /\ waiting \in [Sessions -> Nat]
  OBVIOUS
<1>2. /\ authorized \in BOOLEAN /\ onScreen \in BOOLEAN /\ recent \in BOOLEAN
      /\ retryDue \in BOOLEAN /\ unsent \in BOOLEAN
  BY Zenon
<1>3. OneRuns BY DEF OneRuns
<1>4. ChangeIsPickedUp BY DEF ChangeIsPickedUp
<1> QED BY <1>1, <1>2, <1>3, <1>4 DEF SyncInv, SyncTypeOK

(* A request of the signed-in session. *)
LEMMA RequestKeeps ==
    ASSUME NEW trigger, SyncInv, authorized, Request(trigger), session' = session
    PROVE  /\ inFlight' \in 0..MaxSessions /\ again' \in 0..MaxSessions
           /\ running' \in [Sessions -> Nat] /\ waiting' \in [Sessions -> Nat]
           /\ recent' \in BOOLEAN /\ unsent' \in BOOLEAN
           /\ \A s \in Sessions : running'[s] = IF s = inFlight' THEN 1 ELSE 0
           /\ ChangeIsPickedUp'
<1> USE SchedulingAssumption DEF SyncInv, SyncTypeOK, OneRuns, NoSession, Sessions
<1>1. session \in Sessions /\ session # 0 OBVIOUS
<1>2. CASE inFlight = 0
  <2>1. /\ inFlight' = session /\ running' = [running EXCEPT ![session] = @ + 1]
        /\ recent' = TRUE /\ waiting' = waiting /\ again' = again /\ unsent' = FALSE
    BY <1>1, <1>2 DEF Request, Start
  <2>2. running' \in [Sessions -> Nat] BY <1>1, <2>1
  <2>3. inFlight' \in 0..MaxSessions /\ again' \in 0..MaxSessions /\ waiting' \in [Sessions -> Nat]
    BY <1>1, <2>1
  <2>4. \A s \in Sessions : running'[s] = IF s = inFlight' THEN 1 ELSE 0
    BY <1>1, <1>2, <2>1
  <2>5. recent' \in BOOLEAN /\ unsent' \in BOOLEAN /\ ChangeIsPickedUp'
    BY <2>1 DEF ChangeIsPickedUp
  <2> QED BY <2>2, <2>3, <2>4, <2>5
<1>3. CASE inFlight = session
  <2>1. /\ again' = AgainFor(trigger) /\ UNCHANGED <<inFlight, running, recent, waiting>>
        /\ unsent' = (unsent \/ trigger = "local-change")
    BY <1>1, <1>3 DEF Request
  <2>2. ChangeIsPickedUp' BY <1>1, <1>3, <2>1 DEF AgainFor, ChangeIsPickedUp
  <2> QED BY <1>1, <1>3, <2>1, <2>2 DEF AgainFor
<1>4. CASE inFlight # 0 /\ inFlight # session
  <2>1. waiting' = [waiting EXCEPT ![session] = @ + 1] /\ UNCHANGED <<inFlight, running, recent, again>>
        /\ unsent' \in BOOLEAN
    BY <1>1, <1>4 DEF Request
  <2>2. waiting' \in [Sessions -> Nat] /\ waiting'[session] > 0 BY <1>1, <2>1
  <2>3. ChangeIsPickedUp' BY <1>1, <1>4, <2>1, <2>2 DEF ChangeIsPickedUp
  <2> QED BY <1>1, <1>4, <2>1, <2>2, <2>3
<1> QED BY <1>2, <1>3, <1>4

(* A retry is scheduled at most MaxRetries times. *)
LEMMA RetryKeeps ==
    ASSUME SyncInv, ScheduleSyncRetry
    PROVE  retryDue' \in BOOLEAN /\ retries' \in 0..MaxRetries
<1> USE SchedulingAssumption DEF SyncInv, SyncTypeOK
<1>1. CASE retryDue \/ ~onScreen \/ retries >= MaxRetries
  BY <1>1 DEF ScheduleSyncRetry
<1>2. CASE ~(retryDue \/ ~onScreen \/ retries >= MaxRetries)
  <2>1. retryDue' = TRUE /\ retries' = retries + 1 BY <1>2 DEF ScheduleSyncRetry
  <2> QED BY <1>2, <2>1
<1> QED BY <1>1, <1>2

(* A sync stops: one of the calls that waited for it starts. *)
LEMMA StopsKeeps ==
    ASSUME NEW s \in Sessions, SyncInv, running[s] > 0, Stops(s), session' = session
    PROVE  /\ inFlight' \in 0..MaxSessions /\ again' \in 0..MaxSessions
           /\ running' \in [Sessions -> Nat] /\ waiting' \in [Sessions -> Nat]
           /\ recent' \in BOOLEAN /\ unsent' \in BOOLEAN
           /\ \A t \in Sessions : running'[t] = IF t = inFlight' THEN 1 ELSE 0
           /\ ChangeIsPickedUp' /\ (session = NoSession => ~unsent')
<1> USE SchedulingAssumption DEF SyncInv, SyncTypeOK, OneRuns, NoSession, Sessions
<1>1. s = inFlight OBVIOUS
<1> DEFINE next == IF session \in Sessions THEN Woken(session) ELSE 0
           left == [running EXCEPT ![s] = @ - 1]
<1>2. /\ inFlight' = IF next > 0 THEN session ELSE NoSession
      /\ running' = IF next > 0 THEN [left EXCEPT ![session] = @ + next] ELSE left
      /\ recent' = (recent \/ next > 0) /\ unsent' = (unsent /\ next = 0)
      /\ again' = again
      /\ (again # s \/ s # session)
  BY DEF Stops
<1>3. waiting' \in [Sessions -> Nat] BY DEF Stops
<1>4. next \in {0, 1} /\ (next = 1 => session \in Sessions /\ waiting[session] > 0)
      /\ (session \in Sessions /\ waiting[session] > 0 => next = 1)
  BY DEF Woken
<1>5. left \in [Sessions -> Nat] /\ \A t \in Sessions : left[t] = 0
  <2>1. running[s] = 1 BY <1>1
  <2>2. \A t \in Sessions : left[t] = 0 BY <1>1, <2>1
  <2> QED BY <2>2
<1> HIDE DEF next, left
<1>6. unsent' \in BOOLEAN /\ recent' \in BOOLEAN BY <1>2
<1>7. CASE next = 0
  <2>1. ~unsent
    <3>1. SUFFICES ASSUME unsent PROVE FALSE OBVIOUS
    <3>2. session \in Sessions BY <3>1
    <3>3. ~(waiting[session] > 0) BY <1>4, <1>7, <3>2
    <3> QED BY <1>1, <1>2, <3>1, <3>3 DEF ChangeIsPickedUp
  <2> QED BY <1>2, <1>3, <1>5, <1>6, <1>7, <2>1 DEF ChangeIsPickedUp
<1>8. CASE next = 1
  <2>1. inFlight' = session /\ running' = [left EXCEPT ![session] = @ + 1]
    BY <1>2, <1>8
  <2>4. next # 0 BY <1>8
  <2>5. ~unsent' BY <1>2, <2>4, Zenon
  <2>2. session \in Sessions BY <1>4, <1>8
  <2>3. running' \in [Sessions -> Nat] /\ \A t \in Sessions : running'[t] = IF t = session THEN 1 ELSE 0
    BY <1>5, <2>1, <2>2
  <2> QED BY <1>2, <1>3, <1>6, <2>1, <2>2, <2>3, <2>5 DEF ChangeIsPickedUp
<1> QED BY <1>4, <1>7, <1>8

(* Each step, for the conjuncts of the invariant it can disturb. *)
LEMMA SyncInductive == SyncInv /\ [SyncNext]_syncVars => SyncInv'
<1> SUFFICES ASSUME SyncInv, [SyncNext]_syncVars PROVE SyncInv' OBVIOUS
<1> USE SchedulingAssumption DEF NoSession, Sessions
<1>1. CASE SignIn
  <2> USE <1>1 DEF SyncInv, SyncTypeOK, OneRuns, SignIn, NewSession
  <2>1. /\ session' = session + 1 /\ session' \in Sessions /\ authorized' = TRUE
        /\ retryDue' = FALSE /\ retries' = 0 /\ unsent' = FALSE
        /\ UNCHANGED <<onScreen, again, happened>>
    OBVIOUS
  <2>2. CASE inFlight = 0
    <3>1. /\ inFlight' = session' /\ running' = [running EXCEPT ![session'] = @ + 1]
          /\ recent' = TRUE /\ waiting' = waiting
      BY <2>1, <2>2 DEF Start
    <3>2. running' \in [Sessions -> Nat] BY <2>1, <3>1
    <3>3. \A s \in Sessions : running'[s] = IF s = inFlight' THEN 1 ELSE 0
      BY <2>1, <2>2, <3>1
    <3>4. OneRuns' BY <2>1, <3>3
    <3>5. SyncTypeOK'
      <4> USE <2>1, <3>1, <3>2 DEF SyncInv, SyncTypeOK
      <4>1. Flags' BY Zenon DEF Flags
      <4>2. Numbers' BY DEF Numbers
      <4> QED BY <4>1, <4>2, Zenon DEF Flags, Numbers
    <3> QED BY <2>1, <3>4, <3>5 DEF ChangeIsPickedUp
  <2>3. CASE inFlight # 0
    <3>1. waiting' = [waiting EXCEPT ![session'] = @ + 1] /\ UNCHANGED <<inFlight, running, recent>>
      BY <2>1, <2>3
    <3>2. waiting' \in [Sessions -> Nat] BY <2>1, <3>1
    <3>3. OneRuns' BY <2>1, <3>1
    <3>4. SyncTypeOK'
      <4> USE <2>1, <3>1, <3>2 DEF SyncInv, SyncTypeOK
      <4>1. Flags' BY Zenon DEF Flags
      <4>2. Numbers' BY DEF Numbers
      <4> QED BY <4>1, <4>2, Zenon DEF Flags, Numbers
    <3> QED BY <2>1, <3>3, <3>4 DEF ChangeIsPickedUp
  <2> QED BY <2>2, <2>3
<1>2. CASE SignOut
  <2>1. /\ session' = session + 1 /\ session' \in Sessions /\ authorized' = FALSE
        /\ retryDue' = FALSE /\ retries' = 0 /\ unsent' = FALSE
        /\ UNCHANGED <<onScreen, again, happened, inFlight, running, recent, waiting>>
    BY <1>2 DEF SignOut, NewSession, SyncInv, SyncTypeOK
  <2>2. SyncTypeOK'
    <3> USE <2>1 DEF SyncInv, SyncTypeOK
    <3>1. Flags' BY Zenon DEF Flags
    <3>2. Numbers' BY DEF Numbers
    <3> QED BY <3>1, <3>2, Zenon DEF Flags, Numbers
  <2> QED BY <2>1, <2>2 DEF SyncInv, OneRuns, ChangeIsPickedUp
<1>3. ASSUME NEW trigger \in {"local-change", "pull", "focus"}, CallSync(trigger)
      PROVE  SyncInv'
  <2>1. /\ authorized /\ Request(trigger) /\ happened < SyncEvents /\ happened' = happened + 1
        /\ UNCHANGED <<session, authorized, onScreen, retryDue>> /\ (retries' = 0 \/ retries' = retries)
    BY <1>3 DEF CallSync, Event
  <2> HIDE DEF Sessions, NoSession
  <2>2. /\ inFlight' \in 0..MaxSessions /\ again' \in 0..MaxSessions
        /\ running' \in [Sessions -> Nat] /\ waiting' \in [Sessions -> Nat]
        /\ recent' \in BOOLEAN /\ unsent' \in BOOLEAN
        /\ \A s \in Sessions : running'[s] = IF s = inFlight' THEN 1 ELSE 0
        /\ ChangeIsPickedUp'
    BY <2>1, RequestKeeps
  <2> USE DEF Sessions, NoSession
  <2>3. SyncTypeOK'
    <3> USE <2>1, <2>2 DEF SyncInv, SyncTypeOK
    <3>1. Flags' BY Zenon DEF Flags
    <3>2. retries' \in 0..MaxRetries OBVIOUS
    <3>3. Numbers' BY <3>2 DEF Numbers
    <3> QED BY <3>1, <3>3, Zenon DEF Flags, Numbers
  <2>4. OneRuns' BY <2>1, <2>2 DEF SyncInv, SyncTypeOK, OneRuns
  <2> QED BY <2>2, <2>3, <2>4 DEF SyncInv
<1>4. CASE RetryTimerFires
  <2>1. /\ retryDue' = FALSE /\ retries' = retries
        /\ UNCHANGED <<session, authorized, onScreen, happened>>
        /\ IF authorized THEN Request("retry") ELSE NoRequest
    BY <1>4 DEF RetryTimerFires, RetriesGoOn
  <2>2. CASE authorized
    <3> HIDE DEF Sessions, NoSession
    <3>1. /\ inFlight' \in 0..MaxSessions /\ again' \in 0..MaxSessions
          /\ running' \in [Sessions -> Nat] /\ waiting' \in [Sessions -> Nat]
          /\ recent' \in BOOLEAN /\ unsent' \in BOOLEAN
          /\ \A s \in Sessions : running'[s] = IF s = inFlight' THEN 1 ELSE 0
          /\ ChangeIsPickedUp'
      BY <2>1, <2>2, RequestKeeps
    <3> USE DEF Sessions, NoSession
    <3>2. SyncTypeOK'
      <4> USE <2>1, <3>1 DEF SyncInv, SyncTypeOK
      <4>1. Flags' BY Zenon DEF Flags
      <4>2. Numbers' BY DEF Numbers
      <4> QED BY <4>1, <4>2, Zenon DEF Flags, Numbers
    <3>3. OneRuns' BY <2>1, <2>2, <3>1 DEF SyncInv, SyncTypeOK, OneRuns
    <3> QED BY <3>1, <3>2, <3>3 DEF SyncInv
  <2>3. CASE ~authorized
    <3>1. UNCHANGED <<inFlight, running, recent, waiting, again, unsent>> BY <2>1, <2>3 DEF NoRequest
    <3> QED BY <2>1, <3>1 DEF SyncInv, SyncTypeOK, OneRuns, ChangeIsPickedUp
  <2> QED BY <2>2, <2>3
<1>5. CASE ReadingSyncFails
  <2>1. /\ happened < SyncEvents /\ happened' = happened + 1
        /\ UNCHANGED <<session, authorized, onScreen, recent, inFlight, running, waiting, again, unsent>>
    BY <1>5 DEF ReadingSyncFails, Event
  <2>2. retryDue' \in BOOLEAN /\ retries' \in 0..MaxRetries
    BY <1>5, RetryKeeps DEF ReadingSyncFails
  <2>3. SyncTypeOK'
    <3> USE <2>1, <2>2 DEF SyncInv, SyncTypeOK
    <3>1. Flags' BY Zenon DEF Flags
    <3>2. Numbers' BY DEF Numbers
    <3> QED BY <3>1, <3>2, Zenon DEF Flags, Numbers
  <2> QED BY <2>1, <2>3 DEF SyncInv, OneRuns, ChangeIsPickedUp
<1>6. ASSUME NEW s \in Sessions, SyncEnds(s) PROVE SyncInv'
  <2>1. running[s] > 0 /\ UNCHANGED <<session, authorized, onScreen, happened>>
    BY <1>6 DEF SyncEnds
  <2>2. retryDue' \in BOOLEAN /\ retries' \in 0..MaxRetries
    <3>1. PICK outcome \in Outcomes : AfterSync(s, outcome) BY <1>6 DEF SyncEnds
    <3>2. \/ UNCHANGED <<retryDue, retries>>
          \/ retries' = 0 /\ UNCHANGED retryDue
          \/ ScheduleSyncRetry
      BY <3>1 DEF AfterSync
    <3>3. CASE ScheduleSyncRetry BY <3>3, RetryKeeps
    <3> QED BY <3>2, <3>3 DEF SyncInv, SyncTypeOK
  <2>3. CASE Continues(s)
    <3>1. /\ s = session /\ inFlight' = s /\ again' = 0 /\ recent' = TRUE /\ unsent' = FALSE
          /\ UNCHANGED <<running, waiting>>
      BY <2>3 DEF Continues
    <3>2. inFlight = s BY <2>1 DEF SyncInv, SyncTypeOK, OneRuns
    <3>3. SyncTypeOK'
      <4> USE <2>1, <2>2, <3>1 DEF SyncInv, SyncTypeOK
      <4>1. Flags' BY Zenon DEF Flags
      <4>2. Numbers' BY DEF Numbers
      <4> QED BY <4>1, <4>2, Zenon DEF Flags, Numbers
    <3>4. OneRuns' BY <2>1, <3>1, <3>2 DEF SyncInv, SyncTypeOK, OneRuns
    <3> QED BY <3>1, <3>3, <3>4 DEF SyncInv, ChangeIsPickedUp
  <2>4. CASE Stops(s)
    <3> HIDE DEF Sessions, NoSession
    <3>1. /\ inFlight' \in 0..MaxSessions /\ again' \in 0..MaxSessions
          /\ running' \in [Sessions -> Nat] /\ waiting' \in [Sessions -> Nat]
          /\ recent' \in BOOLEAN /\ unsent' \in BOOLEAN
          /\ \A t \in Sessions : running'[t] = IF t = inFlight' THEN 1 ELSE 0
          /\ ChangeIsPickedUp' /\ (session = NoSession => ~unsent')
      BY <2>1, <2>4, StopsKeeps
    <3>2. SyncTypeOK'
      <4> USE <2>1, <2>2, <3>1 DEF SyncInv, SyncTypeOK
      <4>1. Flags' BY Zenon DEF Flags
      <4>2. Numbers' BY DEF Numbers
      <4> QED BY <4>1, <4>2, Zenon DEF Flags, Numbers
    <3>3. OneRuns' BY <2>1, <3>1 DEF SyncInv, OneRuns, NoSession
    <3> QED BY <3>1, <3>2, <3>3 DEF SyncInv
  <2> QED BY <1>6, <2>3, <2>4 DEF SyncEnds
<1>7. CASE LeavesScreen
  <2>1. /\ onScreen' = FALSE /\ retryDue' = FALSE
        /\ UNCHANGED <<session, authorized, recent, inFlight, running, waiting, again, retries,
                       unsent, happened>>
    BY <1>7 DEF LeavesScreen
  <2> QED BY <2>1 DEF SyncInv, SyncTypeOK, OneRuns, ChangeIsPickedUp
<1>8. CASE ReturnsToScreen
  <2>1. /\ onScreen' = TRUE /\ happened < SyncEvents /\ happened' = happened + 1
        /\ UNCHANGED <<session, authorized, retryDue>>
    BY <1>8 DEF ReturnsToScreen, Event
  <2>2. CASE authorized /\ ~recent
    <3> HIDE DEF Sessions, NoSession
    <3>1. retries' = 0 /\ Request("foreground") BY <1>8, <2>2 DEF ReturnsToScreen
    <3>2. /\ inFlight' \in 0..MaxSessions /\ again' \in 0..MaxSessions
          /\ running' \in [Sessions -> Nat] /\ waiting' \in [Sessions -> Nat]
          /\ recent' \in BOOLEAN /\ unsent' \in BOOLEAN
          /\ \A s \in Sessions : running'[s] = IF s = inFlight' THEN 1 ELSE 0
          /\ ChangeIsPickedUp'
      BY <2>1, <2>2, <3>1, RequestKeeps
    <3> USE DEF Sessions, NoSession
    <3>3. SyncTypeOK'
      <4> USE <2>1, <3>1, <3>2 DEF SyncInv, SyncTypeOK
      <4>1. Flags' BY Zenon DEF Flags
      <4>2. Numbers' BY SMTT(30) DEF Numbers
      <4> QED BY <4>1, <4>2, Zenon DEF Flags, Numbers
    <3>4. OneRuns' BY <2>1, <2>2, <3>2 DEF SyncInv, SyncTypeOK, OneRuns
    <3> QED BY <3>2, <3>3, <3>4 DEF SyncInv
  <2>3. CASE ~(authorized /\ ~recent)
    <3>1. UNCHANGED <<inFlight, running, recent, waiting, again, unsent, retries>>
      BY <1>8, <2>3 DEF ReturnsToScreen, NoRequest
    <3> QED BY <2>1, <3>1 DEF SyncInv, SyncTypeOK, OneRuns, ChangeIsPickedUp
  <2> QED BY <2>2, <2>3
<1>9. CASE ThrottlePasses
  <2>1. /\ recent' = FALSE
        /\ UNCHANGED <<session, authorized, onScreen, inFlight, running, waiting, again,
                       retryDue, retries, unsent, happened>>
    BY <1>9 DEF ThrottlePasses
  <2> QED BY <2>1 DEF SyncInv, SyncTypeOK, OneRuns, ChangeIsPickedUp
<1>10. CASE UNCHANGED syncVars
  BY <1>10 DEF syncVars, SyncInv, SyncTypeOK, OneRuns, ChangeIsPickedUp
<1> QED
  BY <1>1, <1>2, <1>3, <1>4, <1>5, <1>6, <1>7, <1>8, <1>9, <1>10 DEF SyncNext

(* However sign-ins, changes, retries and foreground calls interleave with *)
(* syncs still in progress, at most one full sync of the app runs, of      *)
(* whichever session, for any number of sessions, retries and events.      *)
THEOREM OneSyncAtATime == SchedulingSpec => []SyncsOneAtATime
<1>1. SyncInv => SyncsOneAtATime
  BY DEF SyncInv, SyncTypeOK, OneRuns, SyncsOneAtATime, Sessions
<1> QED BY <1>1, SyncInitially, SyncInductive, PTL DEF SchedulingSpec

(* A change made while a sync runs is followed by one more sync of its     *)
(* session, also when the sync in progress is an earlier session's.        *)
THEOREM ChangesPickedUp == SchedulingSpec => []ChangeIsPickedUp
<1>1. SyncInv => ChangeIsPickedUp BY DEF SyncInv
<1> QED BY <1>1, SyncInitially, SyncInductive, PTL DEF SchedulingSpec

-----------------------------------------------------------------------------
(* The retries run out. What is asked for is of the present session or an  *)
(* earlier one; only the sync in flight goes on once more; and who waits,  *)
(* waits for a sync of an earlier session.                                 *)
CallsBehind ==
    /\ inFlight <= session /\ again <= session
    /\ again = session /\ session # NoSession => inFlight = session
    /\ \A s \in Sessions : waiting[s] > 0 => s <= session /\ inFlight \in 1..s - 1

(* How a request in a signed-in session changes what is under way. *)
LEMMA RequestShape ==
    ASSUME NEW trigger, SyncInv, authorized, Request(trigger), session' = session
    PROVE  /\ session \in 1..MaxSessions
           /\ \/ /\ inFlight = 0 /\ inFlight' = session
                 /\ waiting' = waiting /\ again' = again
              \/ /\ inFlight = session /\ inFlight' = inFlight
                 /\ waiting' = waiting /\ again' = AgainFor(trigger)
              \/ /\ inFlight \notin {0, session} /\ inFlight' = inFlight
                 /\ waiting' = [waiting EXCEPT ![session] = @ + 1] /\ again' = again
<1>1. session \in 1..MaxSessions
    BY SchedulingAssumption DEF SyncInv, OneRuns, Sessions
<1> QED
    BY <1>1 DEF Request, Start, NoSession

(* How the end of a sync of s does. *)
EndsAs(s) ==
    /\ s = inFlight /\ s \in 1..MaxSessions /\ session' = session
    /\ \/ again = s /\ s = session /\ again' = 0 /\ inFlight' = s /\ waiting' = waiting
       \/ /\ again # s \/ s # session
          /\ again' = again /\ waiting' = [w \in Sessions |-> 0]
          /\ inFlight' = IF session \in Sessions /\ waiting[session] > 0 THEN session ELSE 0
    /\ \/ s # session /\ retryDue' = retryDue /\ retries' = retries
       \/ s = session /\ retryDue' = retryDue /\ retries' = 0
       \/ s = session /\ retryDue' = retryDue /\ retries' = retries
       \/ /\ s = session /\ ~retryDue /\ retries < MaxRetries
          /\ retryDue' = TRUE /\ retries' = retries + 1

LEMMA EndShape ==
    ASSUME NEW s \in Sessions, SyncInv, SyncEnds(s)
    PROVE  EndsAs(s)
<1> USE SchedulingAssumption DEF SyncInv, SyncTypeOK, OneRuns, Sessions, NoSession
<1>1. running[s] > 0 /\ session' = session
    BY DEF SyncEnds
<1>2. s = inFlight /\ s \in 1..MaxSessions
    BY <1>1
<1>3. \/ s # session /\ retryDue' = retryDue /\ retries' = retries
      \/ s = session /\ retryDue' = retryDue /\ retries' = 0
      \/ s = session /\ retryDue' = retryDue /\ retries' = retries
      \/ /\ s = session /\ ~retryDue /\ retries < MaxRetries
         /\ retryDue' = TRUE /\ retries' = retries + 1
  <2>1. PICK outcome \in Outcomes : AfterSync(s, outcome)
      BY DEF SyncEnds
  <2>2. \/ UNCHANGED <<retryDue, retries>>
        \/ s = session /\ retries' = 0 /\ UNCHANGED retryDue
        \/ s = session /\ ScheduleSyncRetry
      BY <2>1 DEF AfterSync
  <2>3. retries < MaxRetries <=> ~(retries >= MaxRetries)
      OBVIOUS
  <2> QED
      BY <2>2, <2>3 DEF ScheduleSyncRetry
<1>4. CASE Continues(s)
    BY <1>1, <1>2, <1>3, <1>4 DEF Continues, EndsAs
<1>5. CASE Stops(s)
  <2>1. /\ again # s \/ s # session
        /\ again' = again /\ waiting' = [w \in Sessions |-> 0]
      BY <1>5 DEF Stops
  <2>2. inFlight' = IF session \in Sessions /\ waiting[session] > 0 THEN session ELSE 0
      BY <1>5 DEF Stops, Woken
  <2> QED
      BY <1>1, <1>2, <1>3, <2>1, <2>2 DEF EndsAs
<1> QED
    BY <1>4, <1>5 DEF SyncEnds

LEMMA CallsBehindKept == SyncInv /\ CallsBehind /\ [SyncNext]_syncVars => CallsBehind'
<1> SUFFICES ASSUME SyncInv, CallsBehind, [SyncNext]_syncVars PROVE CallsBehind'
    OBVIOUS
<1> USE DEF CallsBehind, NoSession
<1>0. /\ session \in 0..MaxSessions /\ inFlight \in 0..MaxSessions /\ again \in 0..MaxSessions
      /\ waiting \in [Sessions -> Nat] /\ MaxSessions \in Nat
      /\ Sessions = 1..MaxSessions
    BY SchedulingAssumption DEF SyncInv, SyncTypeOK, Sessions
<1>1. ASSUME NEW trigger, authorized, Request(trigger), session' = session
      PROVE  CallsBehind'
    BY <1>0, <1>1, RequestShape, SMTT(30) DEF AgainFor
<1>2. CASE UNCHANGED <<session, inFlight, again, waiting>>
    BY <1>2, Zenon
<1>3. CASE SignIn
  <2>1. /\ session' = session + 1 /\ again' = again /\ session < MaxSessions
        /\ \/ inFlight = 0 /\ inFlight' = session + 1 /\ waiting' = waiting
           \/ /\ inFlight # 0 /\ inFlight' = inFlight
              /\ waiting' = [waiting EXCEPT ![session + 1] = @ + 1]
      BY <1>3 DEF SignIn, NewSession, Start
  <2> QED
      BY <1>0, <2>1
<1>4. CASE SignOut
    BY <1>0, <1>4 DEF SignOut, NewSession
<1>5. ASSUME NEW s \in Sessions, SyncEnds(s) PROVE CallsBehind'
  <2>1. EndsAs(s)
      BY <1>5, EndShape
  <2>2. CASE waiting' = waiting
      BY <1>0, <2>1, <2>2 DEF EndsAs
  <2>3. CASE again' = again /\ waiting' = [w \in Sessions |-> 0]
      BY <1>0, <2>1, <2>3 DEF EndsAs
  <2> QED
      BY <2>1, <2>2, <2>3 DEF EndsAs
<1>6. ASSUME NEW trigger, CallSync(trigger) PROVE CallsBehind'
    BY <1>1, <1>6 DEF CallSync
<1>7. CASE RetryTimerFires
    BY <1>1, <1>2, <1>7 DEF RetryTimerFires, NoRequest
<1>8. CASE ReturnsToScreen
    BY <1>1, <1>2, <1>8 DEF ReturnsToScreen, NoRequest
<1>9. CASE ReadingSyncFails \/ LeavesScreen \/ ThrottlePasses \/ UNCHANGED syncVars
    BY <1>2, <1>9 DEF ReadingSyncFails, LeavesScreen, ThrottlePasses, syncVars
<1> QED
    BY <1>3, <1>4, <1>5, <1>6, <1>7, <1>8, <1>9 DEF SyncNext

(* The end of a sync leaves fewer steps. *)
LEMMA EndLeavesFewer ==
    ASSUME NEW s \in Sessions, SyncInv, CallsBehind, SyncEnds(s)
    PROVE  StepsLeft' < StepsLeft
<1> USE DEF StepsLeft, Series, NoSession
<1>0. /\ session \in 0..MaxSessions /\ inFlight \in 1..MaxSessions /\ again \in 0..MaxSessions
      /\ waiting \in [Sessions -> Nat] /\ MaxSessions \in Nat /\ MaxRetries \in Nat
      /\ Sessions = 1..MaxSessions /\ retries \in 0..MaxRetries
    BY EndShape, SchedulingAssumption DEF SyncInv, SyncTypeOK, Sessions, EndsAs
<1>e. EndsAs(s)
    BY EndShape
<1>1. CASE s # session
  <2>1. retryDue' = retryDue /\ retries' = retries /\ session' = session /\ inFlight = s
      BY <1>1, <1>e DEF EndsAs
  <2>2. inFlight' = IF session \in Sessions /\ waiting[session] > 0 THEN session ELSE 0
      BY <1>1, <1>e DEF EndsAs
  <2>3. again' = again /\ again # session
      BY <1>0, <1>1, <1>e, <2>1 DEF CallsBehind, EndsAs
  <2>4. session \in Sessions
      BY <1>0, <2>1 DEF CallsBehind
  <2> QED
      BY <1>0, <1>1, <2>1, <2>2, <2>3, <2>4
<1>2. CASE s = session
  <2>0. session' = session /\ inFlight = session /\ session \in 1..MaxSessions
      BY <1>2, <1>e DEF EndsAs
  <2>1. ~(waiting[session] > 0)
      BY <1>0, <2>0 DEF CallsBehind
  <2>2. CASE again = session
    <3>1. again' = 0 /\ inFlight' = session
        BY <1>2, <1>e, <2>2 DEF EndsAs
    <3>2. PICK n \in 0..MaxRetries : retries' = n
        BY <1>0, <1>e DEF EndsAs
    <3>3. session # 0 /\ again' # session' /\ inFlight' = session'
        BY <2>0, <3>1
    <3> QED
        BY <1>0, <2>0, <2>2, <3>2, <3>3
  <2>3. CASE again # session
    <3>1. inFlight' = 0
        BY <1>2, <1>e, <2>1, <2>3 DEF EndsAs
    <3>2. \/ retryDue' = retryDue /\ retries' \in {0, retries}
          \/ ~retryDue /\ retries < MaxRetries /\ retryDue' = TRUE /\ retries' = retries + 1
        BY <1>e DEF EndsAs
    <3> QED
        BY SMTT(30), <1>0, <2>0, <2>3, <3>1, <3>2
  <2> QED
      BY <2>2, <2>3
<1> QED
    BY <1>1, <1>2

(* So does a retry, which nobody asked for. *)
LEMMA RetryLeavesFewer ==
    ASSUME SyncInv, CallsBehind, RetryTimerFires
    PROVE  StepsLeft' < StepsLeft
<1> USE DEF StepsLeft, Series, NoSession
<1>0. /\ session \in 0..MaxSessions /\ inFlight \in 0..MaxSessions /\ again \in 0..MaxSessions
      /\ waiting \in [Sessions -> Nat] /\ MaxSessions \in Nat /\ MaxRetries \in Nat
      /\ Sessions = 1..MaxSessions /\ retries \in 0..MaxRetries
    BY SchedulingAssumption DEF SyncInv, SyncTypeOK, Sessions
<1>1. retryDue /\ ~retryDue' /\ retries' = retries /\ session' = session
    BY DEF RetryTimerFires, RetriesGoOn
<1>2. CASE ~authorized
    BY <1>0, <1>1, <1>2 DEF RetryTimerFires, NoRequest
<1>3. CASE authorized
  <2>1. Request("retry")
      BY <1>3 DEF RetryTimerFires
  <2>2. /\ session \in 1..MaxSessions /\ again' = again
        /\ \/ inFlight = 0 /\ inFlight' = session /\ waiting' = waiting
           \/ inFlight = session /\ inFlight' = inFlight /\ waiting' = waiting
           \/ inFlight \notin {0, session} /\ inFlight' = inFlight /\ waiting'[session] > 0
      BY <1>0, <1>1, <1>3, <2>1, RequestShape DEF AgainFor
  <2>3. inFlight # session => again # session
      BY <2>2 DEF CallsBehind
  <2> QED
      BY <1>0, <1>1, <2>2, <2>3
<1> QED
    BY <1>2, <1>3

(* A sync that fails asks for at most MaxRetries retries (SYNC_RETRY_DELAYS_MS), *)
(* a complete one forgets those made but not the one due: however ends of  *)
(* syncs and timers interleave, without a new event at most 2 * MaxRetries *)
(* + 5 of them follow, and once none is left no sync runs or is due. What  *)
(* RetriesEnd needs besides is that they do happen.                        *)
THEOREM RetriesAreBounded ==
    SchedulingSpec =>
        /\ [](/\ StepsLeft \in 0..2 * MaxRetries + 5
              /\ StepsLeft = 0 <=> ~retryDue /\ inFlight = NoSession)
        /\ RetriesRunOut
<1>1. SyncInit => CallsBehind
    BY SchedulingAssumption DEF SyncInit, CallsBehind, NoSession, Sessions
<1>2. SyncInv /\ CallsBehind => /\ StepsLeft \in 0..2 * MaxRetries + 5
                                /\ StepsLeft = 0 <=> ~retryDue /\ inFlight = NoSession
    BY SchedulingAssumption
    DEF SyncInv, SyncTypeOK, StepsLeft, Series, NoSession
<1>3. ASSUME SyncInv, CallsBehind, [SyncNext]_syncVars, happened' = happened, session' = session
      PROVE  /\ StepsLeft' <= StepsLeft
             /\ RetryTimerFires \/ (\E s \in Sessions : SyncEnds(s)) => StepsLeft' < StepsLeft
  <2>1. StepsLeft \in Nat /\ happened \in Nat /\ session \in Nat
      BY <1>2, <1>3, SchedulingAssumption DEF SyncInv, SyncTypeOK
  <2>2. StepsLeft' \in Nat
    <3>1. PICK n \in 0..MaxRetries : retries' = n
        BY <1>3, SyncInductive DEF SyncInv, SyncTypeOK
    <3> QED
        BY <3>1, SchedulingAssumption DEF StepsLeft, Series
  <2>3. CASE RetryTimerFires \/ \E s \in Sessions : SyncEnds(s)
    <3>1. StepsLeft' < StepsLeft
        BY <1>3, <2>3, EndLeavesFewer, RetryLeavesFewer
    <3> QED
        BY <2>1, <2>2, <3>1
  <2>4. CASE ~(RetryTimerFires \/ \E s \in Sessions : SyncEnds(s))
    <3>1. LeavesScreen \/ ThrottlePasses \/ UNCHANGED syncVars
        BY <1>3, <2>1, <2>4
        DEF SyncNext, SignIn, SignOut, NewSession, CallSync, ReadingSyncFails, ReturnsToScreen, Event
    <3>2. /\ UNCHANGED <<session, inFlight, again, waiting, retries>>
          /\ retryDue' = retryDue \/ ~retryDue'
        BY <3>1 DEF LeavesScreen, ThrottlePasses, syncVars
    <3>3. StepsLeft' <= StepsLeft
        BY <1>3, <3>2, SchedulingAssumption
        DEF SyncInv, SyncTypeOK, CallsBehind, StepsLeft, Series, NoSession
    <3> QED
        BY <2>4, <3>3
  <2> QED
      BY <2>3, <2>4
<1>4. SchedulingSpec => [](SyncInv /\ CallsBehind)
    BY <1>1, SyncInitially, SyncInductive, CallsBehindKept, PTL DEF SchedulingSpec
<1> QED
    BY <1>2, <1>3, <1>4, PTL DEF SchedulingSpec, RetriesRunOut

-----------------------------------------------------------------------------
(***************************************************************************)
(* The download is never stranded. The invariant adds that a decision runs *)
(* alone and one that found no network will hear of the network's return,  *)
(* and that a stop or a choice of the reader stands until the job it stops *)
(* has ended.                                                              *)
(***************************************************************************)
(* A decision runs alone, and one that found no network hears of a change. *)
DecidesAlone ==
    /\ deciding # "no" => ~Occupied
    /\ deciding = "offline" => ~connected \/ decideAgain

(* What a stop or an action of the reader rests on until it has ended. *)
ChoiceStands ==
    /\ call = "pausing" => hold = "paused" /\ (run # "none" => phase = "downloading")
    /\ run = "pause" => /\ phase = "downloading" /\ hold = "paused"
                        /\ call \in {"none", "pausing"}
    /\ run = "remove" => call = "stopping"
    /\ call \in {"holding", "removing"} => hold = "removed"

AutoInv == DecidesAlone /\ ChoiceStands /\ AutoNotStranded

LEMMA AutoInitially == AutoInit => AutoInv
    BY DEF AutoInit, AutoInv, DecidesAlone, ChoiceStands, AutoNotStranded, Undecided, Occupied

(* evaluate decides now, or once more after the decision under way. *)
LEMMA EvaluateDecides ==
    ASSUME Evaluate
    PROVE  /\ deciding # "no" => deciding' = deciding /\ decideAgain'
           /\ deciding = "no" /\ ~Occupied' => deciding' = "status"
           /\ deciding = "no" /\ Occupied' => deciding' = "no"
<1>1. deciding # "no" => deciding' = deciding /\ decideAgain'
    BY Zenon DEF Evaluate
<1> QED
    BY <1>1 DEF Evaluate, Entered, Occupied

LEMMA DecidedShape ==
    ASSUME Decided
    PROVE  deciding' \in {"no", "status"} /\ (deciding' # "no" => ~Occupied')
    BY DEF Decided, Entered, Occupied

(* A request that leaves what is under way, and the reader's choice, alone. *)
LEMMA RequestSafe ==
    ASSUME AutoInv, Evaluate, UNCHANGED <<hold, run, call, phase>>,
           updating' => updating, connected' = connected \/ run = "none"
    PROVE  AutoInv'
<1>1. DecidesAlone' /\ (deciding' # "no" \/ Occupied')
    BY EvaluateDecides DEF AutoInv, DecidesAlone, Occupied
<1>2. ChoiceStands'
    BY DEF AutoInv, ChoiceStands
<1> QED
    BY <1>1, <1>2 DEF AutoInv, AutoNotStranded, Undecided, Occupied

LEMMA DecisionSafe ==
    ASSUME AutoInv, EvaluateStatus \/ AnswerNetwork \/ EvaluateNetwork
    PROVE  AutoInv'
<1> USE DEF AutoInv
<1>1. CASE EvaluateStatus
  <2>1. ~Occupied /\ run' = "none" /\ run = "none"
        /\ UNCHANGED <<hold, foreground, connected, complete, run, call>>
      BY <1>1 DEF EvaluateStatus, DecidesAlone, Occupied
  <2>2. CASE complete
    <3>1. KnowsReady /\ complete'
        BY <1>1, <2>1, <2>2 DEF EvaluateStatus
    <3>2. Decided
        BY <3>1 DEF KnowsReady
    <3>3. DecidesAlone' /\ AutoNotStranded'
        BY <3>1, <3>2, DecidedShape DEF DecidesAlone, AutoNotStranded
    <3>4. ChoiceStands'
        BY <2>1 DEF ChoiceStands
    <3> QED
        BY <3>3, <3>4
  <2>3. CASE ~complete
    <3>1. KnowsIncomplete /\ UNCHANGED <<updating, stalled, retryTimer>>
        BY <1>1, <2>1, <2>3 DEF EvaluateStatus, KnowsIncomplete, FailuresKept
    <3>2. DecidesAlone'
      <4>1. Decided \/ deciding' = "network"
          BY <3>1 DEF KnowsIncomplete
      <4> QED
          BY <2>1, <3>1, <4>1, DecidedShape DEF DecidesAlone, Occupied
    <3>3. AutoNotStranded'
        BY <2>1, <3>1 DEF KnowsIncomplete, AutoNotStranded, Undecided
    <3>4. ChoiceStands'
        BY <2>1 DEF ChoiceStands
    <3> QED
        BY <3>2, <3>3, <3>4
  <2> QED
      BY <2>2, <2>3
<1>2. CASE AnswerNetwork
    BY <1>2
    DEF AnswerNetwork, DecidesAlone, Occupied, ChoiceStands, AutoNotStranded, Undecided
<1>3. CASE EvaluateNetwork
  <2>1. ~Occupied /\ UNCHANGED <<hold, foreground, connected, complete, updating, stalled, call>>
        /\ Decided
      BY <1>3 DEF EvaluateNetwork, DecidesAlone
  <2>2. CASE deciding = "offline"
    <3>1. UNCHANGED <<run, retryTimer>>
        BY <1>3, <2>1, <2>2 DEF EvaluateNetwork
    <3>2. ~connected \/ deciding' # "no"
        BY <2>1, <2>2, <3>1 DEF DecidesAlone, Decided, Entered, Occupied
    <3> QED
        BY <2>1, <3>1, <3>2, DecidedShape
        DEF DecidesAlone, ChoiceStands, AutoNotStranded, Undecided, Occupied
  <2>3. CASE deciding # "offline"
    <3>1. phase' = "downloading" /\ run' = "going"
        BY <1>3, <2>1, <2>3 DEF EvaluateNetwork
    <3> QED
        BY <2>1, <3>1, DecidedShape
        DEF DecidesAlone, ChoiceStands, AutoNotStranded, Undecided, Occupied
  <2> QED
      BY <2>2, <2>3
<1> QED
    BY <1>1, <1>2, <1>3

LEMMA RunEndSafe ==
    ASSUME AutoInv, RunEnds
    PROVE  AutoInv'
<1> USE DEF AutoInv
<1>1. /\ run' = "none" /\ UNCHANGED <<foreground, connected, updating>>
      /\ call = "stopping" => call' = "holding" /\ hold' = "removed"
      /\ call # "stopping" => UNCHANGED <<call, hold>>
      /\ run # "none"
    BY DEF RunEnds, RemoveHolds, RunCompletes, RunStopped, RunFails
<1>2. ChoiceStands'
    BY <1>1 DEF ChoiceStands
<1>3. deciding = "no"
    BY <1>1 DEF DecidesAlone, Occupied
<1>4. CASE RunCompletes
    BY <1>1, <1>2, <1>3, <1>4
    DEF RunCompletes, NoDecision, DecidesAlone, AutoNotStranded
<1>5. CASE RunStopped
  <2>1. CASE run = "background"
    <3>1. Evaluate
        BY <1>5, <2>1 DEF RunStopped, AfterStop
    <3> QED
        BY <1>1, <1>2, <1>3, <3>1, EvaluateDecides
        DEF DecidesAlone, AutoNotStranded, Undecided, Occupied
  <2>2. CASE run # "background"
    <3>1. deciding' = deciding /\ (hold' # "none" \/ call' # "none")
        BY <1>1, <1>5, <2>2 DEF RunStopped, AfterStop, NoDecision, ChoiceStands
    <3> QED
        BY <1>1, <1>2, <1>3, <3>1 DEF DecidesAlone, AutoNotStranded, Undecided, Occupied
  <2> QED
      BY <2>1, <2>2
<1>6. CASE RunFails
    BY <1>1, <1>2, <1>3, <1>6
    DEF RunFails, NoDecision, DecidesAlone, AutoNotStranded, Undecided, Occupied
<1> QED
    BY <1>4, <1>5, <1>6 DEF RunEnds

LEMMA EventSafe ==
    ASSUME AutoInv, RetryFires \/ UpdateEnds \/ NetworkChanges \/ GoesToBackground
                    \/ BecomesActive
    PROVE  AutoInv'
<1> USE DEF AutoInv
<1>1. CASE RetryFires \/ BecomesActive
    BY <1>1, RequestSafe DEF RetryFires, BecomesActive
<1>2. CASE UpdateEnds
    BY <1>2, RequestSafe DEF UpdateEnds
<1>3. CASE NetworkChanges /\ run = "none"
    BY <1>3, RequestSafe DEF NetworkChanges
<1>4. CASE NetworkChanges /\ run # "none"
    BY <1>4
    DEF NetworkChanges, NoDecision, DecidesAlone, ChoiceStands, AutoNotStranded, Undecided,
        Occupied
<1>5. CASE GoesToBackground
    BY <1>5
    DEF GoesToBackground, StopRun, NoDecision, DecidesAlone, ChoiceStands, AutoNotStranded,
        Undecided, Occupied
<1> QED
    BY <1>1, <1>2, <1>3, <1>4, <1>5

LEMMA ReaderSafe ==
    ASSUME AutoInv, \/ PressPause \/ PauseGoesOn \/ PressResume \/ ResumeGoesOn
                    \/ PressRemove \/ RemoveGoesOn \/ RemoveEnds
    PROVE  AutoInv'
<1> USE DEF AutoInv
<1>1. CASE PressPause \/ PressResume
    BY <1>1
    DEF PressPause, PressResume, Press, NoDecision, DecidesAlone, ChoiceStands,
        AutoNotStranded, Undecided, Occupied
<1>2. CASE PauseGoesOn
    BY <1>2
    DEF PauseGoesOn, StopRun, NoDecision, DecidesAlone, ChoiceStands, AutoNotStranded,
        Undecided, Occupied
<1>3. CASE ResumeGoesOn
  <2>1. Evaluate /\ UNCHANGED <<hold, run, connected, updating, phase>> /\ call' = "none"
        /\ call = "resuming"
      BY <1>3 DEF ResumeGoesOn
  <2> QED
      BY <2>1, EvaluateDecides
      DEF DecidesAlone, ChoiceStands, AutoNotStranded, Undecided, Occupied
<1>4. CASE PressRemove
    BY <1>4
    DEF PressRemove, RemoveHolds, Press, StopRun, NoDecision, DecidesAlone, ChoiceStands,
        AutoNotStranded, Undecided, Occupied
<1>5. CASE RemoveGoesOn
  <2>1. UNCHANGED <<hold, run, connected, updating, phase>> /\ call = "holding"
        /\ call' \in {"removing", "none"}
      BY <1>5 DEF RemoveGoesOn
  <2>2. CASE NoDecision /\ call' = "removing"
      BY <2>1, <2>2
      DEF NoDecision, DecidesAlone, ChoiceStands, AutoNotStranded, Undecided, Occupied
  <2>3. CASE Evaluate /\ call' = "none"
      BY <2>1, <2>3, EvaluateDecides
      DEF DecidesAlone, ChoiceStands, AutoNotStranded, Undecided, Occupied
  <2> QED
      BY <1>5, <2>2, <2>3 DEF RemoveGoesOn
<1>6. CASE RemoveEnds
  <2>1. UNCHANGED <<hold, run, connected, updating>> /\ call = "removing" /\ call' = "none"
        /\ hold = "removed"
      BY <1>6 DEF RemoveEnds, ChoiceStands
  <2>2. NoDecision \/ Evaluate
      BY <1>6 DEF RemoveEnds
  <2>3. DecidesAlone'
      BY <2>1, <2>2, EvaluateDecides DEF NoDecision, DecidesAlone, Occupied
  <2>4. ChoiceStands' /\ AutoNotStranded'
      BY <2>1 DEF ChoiceStands, AutoNotStranded
  <2> QED
      BY <2>3, <2>4
<1> QED
    BY <1>1, <1>2, <1>3, <1>4, <1>5, <1>6

LEMMA AutoInductive == AutoInv /\ [AutoNext]_autoVars => AutoInv'
<1> SUFFICES ASSUME AutoInv, [AutoNext]_autoVars PROVE AutoInv'
    OBVIOUS
<1>1. CASE UNCHANGED autoVars
    BY <1>1
    DEF autoVars, AutoInv, DecidesAlone, ChoiceStands, AutoNotStranded, Undecided, Occupied
<1> QED
    BY <1>1, DecisionSafe, RunEndSafe, EventSafe, ReaderSafe DEF AutoNext, AutoProgress

(* Where nothing is under way and nothing stands in the way of a download   *)
(* (no hold of the reader, no stop after failures, the app open and         *)
(* connected), the Mushaf is complete: an event that comes while another is *)
(* decided, or while a call is out, is not lost (evaluate in                *)
(* autoDownload.ts).                                                        *)
THEOREM NotStranded == AutoSpec => []AutoNotStranded
<1>1. AutoInv => AutoNotStranded
    BY DEF AutoInv
<1> QED
    BY <1>1, AutoInitially, AutoInductive, PTL DEF AutoSpec

-----------------------------------------------------------------------------
(* The parts of AutoTypeOK.                                                *)
AutoWords ==
    /\ phase \in {"starting", "ready", "paused", "removed", "suspended", "failed",
                  "waiting-network", "downloading", "retrying"}
    /\ hold \in {"none", "paused", "removed"}
    /\ known \in {"unknown", "none", "some"}
    /\ engine \in {"free", "download", "update", "removal"}
    /\ run \in {"none", "going", "pause", "background", "remove"}
    /\ deciding \in {"no", "status", "network", "online", "offline"}
    /\ attempts \in 0..Retries
    /\ call \in {"none", "pausing", "resuming", "stopping", "holding", "removing"}

AutoFlags ==
    /\ byReader \in BOOLEAN /\ foreground \in BOOLEAN /\ connected \in BOOLEAN
    /\ complete \in BOOLEAN /\ decideAgain \in BOOLEAN /\ retryTimer \in BOOLEAN
    /\ stalled \in BOOLEAN /\ updateChecked \in BOOLEAN /\ updating \in BOOLEAN

LEMMA AutoTypeParts == AutoTypeOK <=> AutoWords /\ AutoFlags
    BY Zenon DEF AutoTypeOK, AutoWords, AutoFlags

LEMMA AutoWordsKept == AutoWords /\ [AutoNext]_autoVars => AutoWords'
<1> SUFFICES ASSUME AutoWords, [AutoNext]_autoVars PROVE AutoWords'
    OBVIOUS
<1> USE AutoAssumption DEF AutoWords
<1>1. CASE AutoProgress
    BY <1>1 DEF AutoProgress, EvaluateStatus, AnswerNetwork, EvaluateNetwork, RetryFires, UpdateEnds,
        PauseGoesOn, ResumeGoesOn, RemoveGoesOn, RemoveEnds, KnowsReady, KnowsIncomplete, Decided,
        Entered, Evaluate, NoDecision, ResetFailures, FailuresKept, StopRun, Heard
<1>2. CASE RunEnds
    BY <1>2 DEF RunEnds, EngineLeft, RemoveHolds, RunCompletes, RunStopped, RunFails, AfterStop,
        Stalls, Evaluate, Entered, NoDecision, ResetFailures, FailuresKept
<1>3. CASE NetworkChanges \/ GoesToBackground \/ BecomesActive
    BY <1>3 DEF NetworkChanges, GoesToBackground, BecomesActive, StopRun, Evaluate, Entered,
        NoDecision, ResetFailures, FailuresKept, Heard
<1>4. CASE PressPause \/ PressResume \/ PressRemove
    BY <1>4 DEF PressPause, PressResume, PressRemove, Press, RemoveHolds, StopRun, NoDecision
<1>5. CASE UNCHANGED autoVars
    BY <1>5 DEF autoVars
<1> QED
    BY <1>1, <1>2, <1>3, <1>4, <1>5 DEF AutoNext

LEMMA AutoFlagsKept == AutoFlags /\ [AutoNext]_autoVars => AutoFlags'
<1> SUFFICES ASSUME AutoFlags, [AutoNext]_autoVars PROVE AutoFlags'
    OBVIOUS
<1> USE DEF AutoFlags
<1>1. CASE AutoProgress
    BY <1>1, ZenonT(60) DEF AutoProgress, EvaluateStatus, AnswerNetwork, EvaluateNetwork, RetryFires, UpdateEnds,
        PauseGoesOn, ResumeGoesOn, RemoveGoesOn, RemoveEnds, KnowsReady, KnowsIncomplete, Decided,
        Evaluate, NoDecision, ResetFailures, FailuresKept
<1>2. CASE RunEnds
    BY <1>2, ZenonT(60) DEF RunEnds, RunCompletes, RunStopped, RunFails, AfterStop,
        Evaluate, NoDecision, ResetFailures, FailuresKept
<1>3. CASE NetworkChanges \/ GoesToBackground \/ BecomesActive
    BY <1>3, ZenonT(60) DEF NetworkChanges, GoesToBackground, BecomesActive, Evaluate,
        NoDecision, ResetFailures, FailuresKept
<1>4. CASE PressPause \/ PressResume \/ PressRemove
    BY <1>4, ZenonT(60) DEF PressPause, PressResume, PressRemove, Press, NoDecision
<1>5. CASE UNCHANGED autoVars
    BY <1>5 DEF autoVars
<1> QED
    BY <1>1, <1>2, <1>3, <1>4, <1>5 DEF AutoNext

(* Every variable of the automatic download keeps its type. *)
LEMMA AutoTyped == AutoSpec => []AutoTypeOK
<1>1. AutoInit => AutoWords
    BY AutoAssumption DEF AutoInit, AutoWords
<1>2. AutoInit => AutoFlags
    BY Zenon DEF AutoInit, AutoFlags
<1> QED
    BY <1>1, <1>2, AutoWordsKept, AutoFlagsKept, AutoTypeParts, PTL DEF AutoSpec

-----------------------------------------------------------------------------
(***************************************************************************)
(* The reminders follow the settings. The invariant adds what a run was    *)
(* told of them and of the permission, and that the cancellations and      *)
(* additions still to be made leave each kind as it should be.             *)
(***************************************************************************)
(* One reminder per slot. *)
OnePerSlot(reminders) == \A p, r \in reminders : p.slot = r.slot => p = r

(* Who asks, and what the run under way was told. *)
AskedLast ==
    /\ asked = times
    /\ queued => turn.step # "none"
    /\ turn.step # "none" /\ ~queued => turn.times = times
    /\ turn.step \notin {"none", "permission"} /\ ~queued /\ ~unnoticed
          => turn.allowed = allowed

(* The reminders of a kind as a run should leave them. *)
Right(k, reminders) ==
    LET slots == IF turn.allowed THEN turn.times[k] ELSE {} IN
    IF k = "wird" /\ shownWird = "unknown" THEN (reminders = {}) = (slots = {})
    ELSE reminders = Saying(shownWird, k, slots)

(* What the cancellations and additions still to be made will leave of the kind. *)
Uncancelled == {p \in pendings[turn.kind] : \A r \in turn.cancel : r.slot # p.slot}
Leaves == {p \in Uncancelled : \A r \in turn.add : r.slot # p.slot} \cup turn.add

SeenIsPending ==
    /\ turn.step = "wird" => turn.seen = pendings
    /\ turn.step = "kind" /\ turn.kind = "wird" => turn.seen["checkin"] = pendings["checkin"]

GoesRight ==
    turn.step = "kind" /\ ~faulty /\ ~queued =>
        Right(turn.kind, Leaves) /\ (turn.kind = "checkin" => Right("wird", pendings["wird"]))

ReminderInv ==
    /\ ReminderTypeOK
    /\ AskedLast
    /\ \A k \in Kinds : OnePerSlot(pendings[k])
    /\ turn.step = "kind" => OnePerSlot(turn.add)
    /\ SeenIsPending
    /\ GoesRight
    /\ RemindersFollow

LEMMA SayingFacts ==
    ASSUME NEW wird \in Wirds, NEW k \in Kinds, NEW slots \in SUBSET Slots
    PROVE  /\ Saying(wird, k, slots) \in SUBSET Reminder
           /\ OnePerSlot(Saying(wird, k, slots))
           /\ (Saying(wird, k, slots) = {}) <=> (slots = {})
           /\ \A other : k # "wird" => Saying(wird, k, slots) = Saying(other, k, slots)
<1>1. Saying(wird, k, slots) \in SUBSET Reminder
    BY DEF Saying, Reminder
<1>2. OnePerSlot(Saying(wird, k, slots))
    BY DEF Saying, OnePerSlot
<1>3. (Saying(wird, k, slots) = {}) <=> (slots = {})
    BY DEF Saying
<1>4. \A other : k # "wird" => Saying(wird, k, slots) = Saying(other, k, slots)
    BY DEF Saying
<1> QED
    BY <1>1, <1>2, <1>3, <1>4

LEMMA BegunFacts ==
    ASSUME NEW inputs \in Settings
    PROVE  /\ Begun(inputs) \in Turn /\ Begun(inputs).step = "permission"
           /\ Begun(inputs).times = inputs
    BY DEF Begun, NoTurn, Turn, NoReminders, Kinds, Reminder, Settings

LEMMA NoTurnFacts == NoTurn \in Turn /\ NoTurn.step = "none"
    BY DEF NoTurn, Turn, NoReminders, Kinds, Settings

LEMMA ReminderInitially == ReminderInit => ReminderInv
<1> SUFFICES ASSUME ReminderInit PROVE ReminderInv
    OBVIOUS
<1>1. times \in Settings /\ turn \in Turn /\ turn.step = "permission" /\ turn.times = times
    BY BegunFacts DEF ReminderInit
<1>2. \A k \in Kinds : pendings[k] \in SUBSET Reminder /\ OnePerSlot(pendings[k])
    BY SayingFacts DEF ReminderInit, Wirds
<1>3. ReminderTypeOK
  <2>1. pendings \in [Kinds -> SUBSET Reminder] /\ asked \in Settings
      BY <1>1, <1>2 DEF ReminderInit
  <2>2. {allowed, queued, unnoticed, faulty} \subseteq BOOLEAN
      BY Zenon DEF ReminderInit
  <2>3. eventsLeft \in 0..ReminderEvents /\ shownWird = "unknown"
    <3>1. eventsLeft = ReminderEvents /\ shownWird = "unknown"
        BY Zenon DEF ReminderInit
    <3> QED
        BY <3>1, ReminderAssumption
  <2> QED
      BY <1>1, <2>1, <2>2, <2>3 DEF ReminderTypeOK
<1> QED
    BY <1>1, <1>2, <1>3
    DEF ReminderInit, ReminderInv, AskedLast, SeenIsPending, GoesRight, RemindersFollow

(* A request. *)
LEMMA RequestKept ==
    ASSUME ReminderInv, Reconcile(times'), times' \in Settings,
           shownWird' \in Wirds \cup {"unknown"}, allowed' = allowed, pendings' = pendings,
           unnoticed' \in BOOLEAN, eventsLeft' \in 0..ReminderEvents
    PROVE  ReminderInv'
<1>1. asked' = times' /\ pendings' = pendings
    BY DEF Reconcile, QueuedForLatest
<1>2. CASE turn.step = "none"
  <2>1. turn' = Begun(times') /\ turn' \in Turn /\ turn'.step = "permission"
        /\ turn'.times = times' /\ faulty' = FALSE /\ queued' = queued
      BY <1>2, BegunFacts DEF Reconcile
  <2>2. ReminderTypeOK'
      BY <1>1, <2>1 DEF ReminderInv, ReminderTypeOK
  <2> QED
      BY <1>1, <2>1, <2>2
      DEF ReminderInv, AskedLast, SeenIsPending, GoesRight, RemindersFollow
<1>3. CASE turn.step # "none"
  <2>1. queued' = TRUE /\ turn' = turn /\ faulty' = faulty
      BY <1>3 DEF Reconcile, QueuedForLatest
  <2>2. ReminderTypeOK'
      BY <1>1, <2>1 DEF ReminderInv, ReminderTypeOK
  <2> QED
      BY <1>1, <1>3, <2>1, <2>2
      DEF ReminderInv, AskedLast, SeenIsPending, GoesRight, RemindersFollow
<1> QED
    BY <1>2, <1>3

LEMMA RequestsKept ==
    ASSUME ReminderInv,
           \/ \E k \in Kinds, slots \in SUBSET Slots : ReminderChanges(k, slots)
           \/ \E wird \in Wirds : WirdChanges(wird)
           \/ ReturnsToApp
    PROVE  ReminderInv'
<1>0. times \in Settings /\ shownWird \in Wirds \cup {"unknown"} /\ unnoticed \in BOOLEAN
      /\ eventsLeft \in 0..ReminderEvents
    BY DEF ReminderInv, ReminderTypeOK
<1>e. SomethingHappens => eventsLeft' \in 0..ReminderEvents
    BY <1>0, ReminderAssumption DEF SomethingHappens
<1>1. ASSUME NEW k \in Kinds, NEW slots \in SUBSET Slots, ReminderChanges(k, slots)
      PROVE  ReminderInv'
  <2>1. times' \in Settings
      BY <1>0, <1>1 DEF ReminderChanges, Settings
  <2> QED
      BY <1>0, <1>e, <1>1, <2>1, RequestKept DEF ReminderChanges
<1>2. ASSUME NEW wird \in Wirds, WirdChanges(wird)
      PROVE  ReminderInv'
  <2>1. times' = times /\ Reconcile(times')
      BY <1>2 DEF WirdChanges
  <2> QED
      BY <1>0, <1>e, <1>2, <2>1, RequestKept DEF WirdChanges
<1>3. CASE ReturnsToApp
  <2>1. times' = times /\ Reconcile(times')
      BY <1>3 DEF ReturnsToApp
  <2> QED
      BY <1>0, <1>3, <2>1, RequestKept DEF ReturnsToApp
<1> QED
    BY <1>1, <1>2, <1>3

LEMMA PermissionKept ==
    ASSUME ReminderInv, PermissionChanges
    PROVE  ReminderInv'
<1>1. ReminderTypeOK'
    BY ReminderAssumption DEF ReminderInv, ReminderTypeOK, PermissionChanges, SomethingHappens
<1>2. GoesRight'
    BY DEF ReminderInv, PermissionChanges, GoesRight, Right, Leaves, Uncancelled
<1> QED
    BY <1>1, <1>2
    DEF ReminderInv, PermissionChanges, AskedLast, SeenIsPending, RemindersFollow

(* What a run does with a kind, from what it saw. *)
LEMMA KindTurnFacts ==
    ASSUME ReminderTypeOK, NEW k \in Kinds, NEW wird \in Wirds \cup {"unknown"},
           turn' = KindTurn(k, wird), turn.step # "none"
    PROVE  /\ turn' \in Turn /\ turn'.step = "kind" /\ turn'.kind = k
           /\ turn'.times = turn.times /\ turn'.allowed = turn.allowed
           /\ turn'.seen = turn.seen
           /\ OnePerSlot(turn'.add)
<1> DEFINE copy == IF wird = "unknown" THEN "none" ELSE wird
           want == IF turn.allowed THEN Saying(copy, k, turn.times[k]) ELSE {}
<1>1. turn \in Turn /\ turn.times[k] \in SUBSET Slots /\ turn.seen[k] \in SUBSET Reminder
    BY DEF ReminderTypeOK, Turn, Settings
<1>2. copy \in Wirds
    BY DEF Wirds
<1>3. want \in SUBSET Reminder /\ OnePerSlot(want)
    BY <1>1, <1>2, SayingFacts DEF OnePerSlot
<1> HIDE DEF want
<1>4. \E c \in SUBSET Reminder, a \in SUBSET want :
          turn' = [turn EXCEPT !.step = "kind", !.kind = k, !.cancel = c, !.add = a]
  <2>1. turn.seen[k] \ want \in SUBSET Reminder /\ want \ turn.seen[k] \in SUBSET want
        /\ {} \in SUBSET Reminder /\ {} \in SUBSET want
      BY <1>1
  <2> QED
      BY <2>1 DEF KindTurn, want
<1>5. PICK c \in SUBSET Reminder, a \in SUBSET want :
          turn' = [turn EXCEPT !.step = "kind", !.kind = k, !.cancel = c, !.add = a]
    BY <1>4
<1>6. a \in SUBSET Reminder
    BY <1>3
<1> QED
    BY <1>1, <1>3, <1>5, <1>6 DEF Turn, OnePerSlot

LEMMA KindTurnRight ==
    ASSUME ReminderInv, NEW k \in Kinds, NEW wird \in Wirds \cup {"unknown"},
           turn' = KindTurn(k, wird), turn.step # "none", pendings' = pendings,
           shownWird' = shownWird, turn.seen[k] = pendings[k],
           k = "wird" => wird = shownWird, k # "wird" => wird = "none"
    PROVE  Right(k, Leaves)'
<1> DEFINE copy == IF wird = "unknown" THEN "none" ELSE wird
           slots == IF turn.allowed THEN turn.times[k] ELSE {}
           want == IF turn.allowed THEN Saying(copy, k, turn.times[k]) ELSE {}
           seen == pendings[k]
           stays == k = "wird" /\ wird = "unknown" /\ want # {} /\ seen # {}
<1>0. turn.times[k] \in SUBSET Slots /\ slots \in SUBSET Slots /\ turn \in Turn
      /\ copy \in Wirds /\ seen \in SUBSET Reminder /\ OnePerSlot(seen) /\ ReminderTypeOK
    BY DEF ReminderInv, ReminderTypeOK, Turn, Settings, Wirds
<1>1. want = Saying(copy, k, slots)
    BY DEF Saying
<1>2. want \in SUBSET Reminder /\ OnePerSlot(want) /\ ((want = {}) <=> (slots = {}))
      /\ (k # "wird" => want = Saying(shownWird, k, slots))
    BY <1>0, <1>1, SayingFacts DEF OnePerSlot
<1>3. /\ turn'.kind = k /\ turn'.times = turn.times /\ turn'.allowed = turn.allowed
      /\ turn'.cancel = IF stays THEN {} ELSE seen \ want
      /\ turn'.add = IF stays THEN {} ELSE want \ seen
  <2>1. /\ turn'.kind = k /\ turn'.times = turn.times /\ turn'.allowed = turn.allowed
      BY <1>0, KindTurnFacts
  <2>2. turn' = [turn EXCEPT !.step = "kind", !.kind = k,
                             !.cancel = IF stays THEN {} ELSE seen \ want,
                             !.add = IF stays THEN {} ELSE want \ seen]
      BY Zenon DEF KindTurn
  <2> HIDE DEF stays, want, seen
  <2> QED
      BY <1>0, <2>1, <2>2 DEF Turn
<1>4. Leaves' = IF stays THEN seen ELSE want
  <2> HIDE DEF want, slots, copy
  <2>1. CASE stays
      BY <1>3, <2>1 DEF Leaves, Uncancelled
  <2>2. CASE ~stays
    <3>1. turn'.cancel = seen \ want /\ turn'.add = want \ seen
        BY <1>3, <2>2
    <3>2. Uncancelled' = seen \cap want
        BY <1>0, <1>3, <3>1 DEF Uncancelled, OnePerSlot
    <3>3. Leaves' = {p \in seen \cap want : \A r \in want \ seen : r.slot # p.slot}
                    \cup (want \ seen)
        BY <3>1, <3>2 DEF Leaves
    <3>4. Leaves' = want
        BY <1>2, <3>3 DEF OnePerSlot
    <3> QED
        BY <2>2, <3>4
  <2> QED
      BY <2>1, <2>2
<1> DEFINE left == Leaves'
<1>5. left = IF stays THEN seen ELSE want
    BY <1>4
<1> HIDE DEF left
<1>6. IF k = "wird" /\ shownWird = "unknown" THEN (left = {}) <=> (slots = {})
      ELSE left = Saying(shownWird, k, slots)
  <2>1. CASE k = "wird" /\ shownWird = "unknown"
      BY <1>2, <1>5, <2>1
  <2>2. CASE ~(k = "wird" /\ shownWird = "unknown")
      BY <1>1, <1>2, <1>5, <2>2
  <2> QED
      BY <2>1, <2>2
<1> QED
    BY <1>3, <1>6 DEF Right, left

LEMMA TurnEndKept ==
    ASSUME ReminderInv, NEW failed \in BOOLEAN, TurnEnds(failed), RunGoesOn, pendings' = pendings,
           eventsLeft' \in 0..ReminderEvents, turn.step # "none",
           ~failed /\ ~queued /\ ~unnoticed =>
               \A k \in Kinds : Right(k, pendings[k]) /\ turn.times = times /\ turn.allowed = allowed
    PROVE  ReminderInv'
<1>1. asked \in Settings /\ asked = times /\ asked' = asked /\ times' = times
      /\ faulty' \in BOOLEAN /\ queued' = FALSE
    BY DEF ReminderInv, ReminderTypeOK, AskedLast, RunGoesOn, TurnEnds
<1>2. CASE queued
  <2>1. turn' = Begun(asked) /\ turn' \in Turn /\ turn'.step = "permission"
        /\ turn'.times = asked
      BY <1>1, <1>2, BegunFacts DEF TurnEnds
  <2>2. ReminderTypeOK'
      BY <1>1, <2>1 DEF ReminderInv, ReminderTypeOK, RunGoesOn
  <2> QED
      BY <1>1, <2>1, <2>2
      DEF ReminderInv, RunGoesOn, AskedLast, SeenIsPending, GoesRight, RemindersFollow
<1>3. CASE ~queued
  <2>1. turn' = NoTurn /\ turn' \in Turn /\ turn'.step = "none" /\ (faulty' <=> failed)
      BY <1>3, NoTurnFacts DEF TurnEnds
  <2>2. ReminderTypeOK'
      BY <1>1, <2>1 DEF ReminderInv, ReminderTypeOK, RunGoesOn
  <2>3. RemindersFollow'
    <3>1. SUFFICES ASSUME ~failed, ~unnoticed, NEW k \in Kinds
                   PROVE  LET slots == IF allowed THEN times[k] ELSE {} IN
                          IF k = "wird" /\ shownWird = "unknown"
                          THEN (pendings[k] = {}) = (slots = {})
                          ELSE pendings[k] = Saying(shownWird, k, slots)
        BY <1>1, <2>1 DEF RemindersFollow, RunGoesOn
    <3>2. Right(k, pendings[k]) /\ turn.times = times /\ turn.allowed = allowed
        BY <1>3, <3>1
    <3> QED
        BY <3>2 DEF Right
  <2> QED
      BY <1>1, <2>1, <2>2, <2>3
      DEF ReminderInv, RunGoesOn, AskedLast, SeenIsPending, GoesRight
<1> QED
    BY <1>2, <1>3

LEMMA ReadsKept ==
    ASSUME ReminderInv, ReadsPermission \/ ReadsPending
    PROVE  ReminderInv'
<1>1. turn' \in Turn /\ turn'.times = turn.times /\ turn'.step \in {"list", "wird"}
      /\ turn.step # "none"
      /\ (turn'.step = "list" => turn'.allowed = allowed)
      /\ (turn'.step = "wird" => turn'.allowed = turn.allowed /\ turn'.seen = pendings
                                 /\ turn.step = "list")
    BY DEF ReminderInv, ReminderTypeOK, Turn, ReadsPermission, ReadsPending
<1>2. RunGoesOn /\ UNCHANGED <<pendings, queued, faulty, eventsLeft>>
    BY DEF ReadsPermission, ReadsPending
<1>3. ReminderTypeOK'
    BY <1>1, <1>2 DEF ReminderInv, ReminderTypeOK, RunGoesOn
<1> QED
    BY <1>1, <1>2, <1>3
    DEF ReminderInv, RunGoesOn, AskedLast, SeenIsPending, GoesRight, RemindersFollow

(* The Wird reminder's turn. *)
LEMMA WirdKept ==
    ASSUME ReminderInv, ReadsWird
    PROVE  ReminderInv'
<1>1. turn.step = "wird" /\ turn.seen = pendings /\ "wird" \in Kinds
      /\ RunGoesOn /\ pendings' = pendings /\ queued' = queued
    BY DEF ReminderInv, SeenIsPending, ReadsWird, Kinds
<1>2. /\ faulty \in BOOLEAN /\ faulty' \in BOOLEAN
      /\ shownWird \in Wirds \cup {"unknown"} /\ "none" \in Wirds \cup {"unknown"}
      /\ eventsLeft \in 0..ReminderEvents /\ eventsLeft' \in 0..ReminderEvents
  <2>1. /\ faulty \in BOOLEAN /\ shownWird \in Wirds \cup {"unknown"} /\ "none" \in Wirds
        /\ eventsLeft \in 0..ReminderEvents
      BY DEF ReminderInv, ReminderTypeOK, Wirds
  <2>2. eventsLeft' = eventsLeft \/ (eventsLeft > 0 /\ eventsLeft' = eventsLeft - 1)
      BY DEF ReadsWird, SomethingHappens
  <2>3. faulty' = faulty \/ faulty' = TRUE
      BY DEF ReadsWird
  <2>4. faulty' \in BOOLEAN
      BY <2>1, <2>3
  <2> QED
      BY <2>1, <2>2, <2>4, ReminderAssumption
<1>a. \/ turn' = KindTurn("wird", shownWird)
      \/ turn' = KindTurn("wird", "none") /\ faulty' = TRUE
    BY DEF ReadsWird
<1>3. turn' \in Turn /\ turn'.step = "kind" /\ turn'.kind = "wird"
      /\ turn'.times = turn.times /\ turn'.allowed = turn.allowed
      /\ turn'.seen = turn.seen /\ OnePerSlot(turn'.add)
    BY <1>1, <1>2, <1>a, KindTurnFacts DEF ReminderInv
<1>4. GoesRight'
    BY <1>1, <1>2, <1>a, <1>3, KindTurnRight DEF GoesRight, RunGoesOn
<1>5. ReminderTypeOK'
    BY <1>1, <1>2, <1>3 DEF ReminderInv, ReminderTypeOK, RunGoesOn
<1> QED
    BY <1>1, <1>3, <1>4, <1>5
    DEF ReminderInv, RunGoesOn, AskedLast, SeenIsPending, RemindersFollow

LEMMA FailureKept ==
    ASSUME ReminderInv, CallFails
    PROVE  ReminderInv'
<1>1. RunGoesOn /\ pendings' = pendings /\ eventsLeft' \in 0..ReminderEvents
    BY ReminderAssumption DEF CallFails, SomethingHappens, ReminderInv, ReminderTypeOK
<1>2. CASE turn.step # "kind"
    BY <1>1, <1>2, TurnEndKept DEF CallFails
<1>3. CASE turn.step = "kind"
  <2>1. faulty' = TRUE /\ queued' = queued
      BY <1>3 DEF CallFails
  <2>2. \E c \in SUBSET turn.cancel, a \in SUBSET turn.add :
            turn' = [turn EXCEPT !.cancel = c, !.add = a]
    <3>1. CASE turn' = [turn EXCEPT !.cancel = {}, !.add = {}]
        BY <3>1
    <3>2. CASE \E r \in turn.add : turn' = [turn EXCEPT !.add = @ \ {r}]
      <4>1. PICK r \in turn.add : turn' = [turn EXCEPT !.add = @ \ {r}]
          BY <3>2
      <4>2. turn' = [turn EXCEPT !.cancel = turn.cancel, !.add = turn.add \ {r}]
          BY <4>1 DEF ReminderInv, ReminderTypeOK, Turn
      <4> QED
          BY <4>2
    <3> QED
        BY <1>3, <3>1, <3>2 DEF CallFails
  <2>3. PICK c \in SUBSET turn.cancel, a \in SUBSET turn.add :
            turn' = [turn EXCEPT !.cancel = c, !.add = a]
      BY <2>2
  <2>4. turn' \in Turn /\ turn'.step = "kind" /\ turn'.times = turn.times
        /\ turn'.allowed = turn.allowed /\ turn'.seen = turn.seen /\ turn'.kind = turn.kind
        /\ OnePerSlot(turn'.add)
      BY <1>3, <2>3 DEF ReminderInv, ReminderTypeOK, Turn, OnePerSlot
  <2>5. ReminderTypeOK'
      BY <1>1, <2>1, <2>4 DEF ReminderInv, ReminderTypeOK, RunGoesOn
  <2> QED
      BY <1>1, <1>3, <2>1, <2>4, <2>5
      DEF ReminderInv, RunGoesOn, AskedLast, SeenIsPending, GoesRight, RemindersFollow
<1> QED
    BY <1>2, <1>3

(* A cancellation, then an addition: what the turn will leave is as before. *)
LEMMA CancelKept ==
    ASSUME ReminderInv, CancelsOne
    PROVE  ReminderInv'
<1>1. PICK r \in turn.cancel :
          /\ pendings' = [pendings EXCEPT ![turn.kind] = {p \in @ : p.slot # r.slot}]
          /\ turn' = [turn EXCEPT !.cancel = @ \ {r}]
    BY DEF CancelsOne
<1>2. /\ turn.step = "kind" /\ RunGoesOn /\ UNCHANGED <<queued, faulty, eventsLeft>>
      /\ turn.kind \in Kinds /\ pendings \in [Kinds -> SUBSET Reminder] /\ turn \in Turn
    BY DEF CancelsOne, ReminderInv, ReminderTypeOK, Turn
<1>3. /\ turn' \in Turn /\ turn'.cancel = turn.cancel \ {r}
      /\ turn'.step = "kind" /\ turn'.times = turn.times /\ turn'.allowed = turn.allowed
      /\ turn'.seen = turn.seen /\ turn'.kind = turn.kind /\ turn'.add = turn.add
    BY <1>1, <1>2 DEF Turn
<1>4. /\ pendings' \in [Kinds -> SUBSET Reminder]
      /\ pendings'[turn.kind] = {p \in pendings[turn.kind] : p.slot # r.slot}
      /\ \A k \in Kinds \ {turn.kind} : pendings'[k] = pendings[k]
    BY <1>1, <1>2
<1>5. \A k \in Kinds : OnePerSlot(pendings'[k])
    BY <1>4 DEF ReminderInv, OnePerSlot
<1>6. Uncancelled' = Uncancelled
    BY <1>3, <1>4 DEF Uncancelled
<1>7. Leaves' = Leaves
    BY <1>3, <1>6 DEF Leaves
<1>8. GoesRight'
  <2>1. turn.kind = "checkin" => pendings'["wird"] = pendings["wird"]
      BY <1>4 DEF Kinds
  <2> QED
      BY <1>2, <1>3, <1>7, <2>1 DEF ReminderInv, GoesRight, Right, RunGoesOn
<1>9. SeenIsPending'
    BY <1>2, <1>3, <1>4 DEF ReminderInv, SeenIsPending, Kinds
<1>10. ReminderTypeOK'
    BY <1>2, <1>3, <1>4 DEF ReminderInv, ReminderTypeOK, RunGoesOn
<1> QED
    BY <1>2, <1>3, <1>5, <1>8, <1>9, <1>10
    DEF ReminderInv, RunGoesOn, AskedLast, RemindersFollow

LEMMA AddKept ==
    ASSUME ReminderInv, AddsOne
    PROVE  ReminderInv'
<1>1. PICK r \in turn.add :
          /\ pendings' = [pendings EXCEPT ![turn.kind] = {p \in @ : p.slot # r.slot} \cup {r}]
          /\ turn' = [turn EXCEPT !.add = @ \ {r}]
    BY DEF AddsOne
<1>2. /\ turn.step = "kind" /\ RunGoesOn /\ UNCHANGED <<queued, faulty, eventsLeft>>
      /\ turn.kind \in Kinds /\ pendings \in [Kinds -> SUBSET Reminder] /\ turn \in Turn
      /\ turn.cancel = {} /\ r \in Reminder
    BY DEF AddsOne, ReminderInv, ReminderTypeOK, Turn
<1>3. /\ turn' \in Turn /\ turn'.cancel = {} /\ turn'.add = turn.add \ {r}
      /\ turn'.step = "kind" /\ turn'.times = turn.times /\ turn'.allowed = turn.allowed
      /\ turn'.seen = turn.seen /\ turn'.kind = turn.kind
    BY <1>1, <1>2 DEF Turn
<1>4. /\ pendings' \in [Kinds -> SUBSET Reminder]
      /\ pendings'[turn.kind] = {p \in pendings[turn.kind] : p.slot # r.slot} \cup {r}
      /\ \A k \in Kinds \ {turn.kind} : pendings'[k] = pendings[k]
    BY <1>1, <1>2
<1>5. \A k \in Kinds : OnePerSlot(pendings'[k])
    BY <1>4 DEF ReminderInv, OnePerSlot
<1>6. OnePerSlot(turn.add) /\ OnePerSlot(turn'.add)
    BY <1>2, <1>3 DEF ReminderInv, OnePerSlot
<1>7. Leaves' = Leaves
  <2>1. Uncancelled = pendings[turn.kind] /\ Uncancelled' = pendings'[turn.kind]
      BY <1>2, <1>3 DEF Uncancelled
  <2> QED
      BY <1>3, <1>4, <1>6, <2>1 DEF Leaves, OnePerSlot
<1>8. GoesRight'
  <2>1. turn.kind = "checkin" => pendings'["wird"] = pendings["wird"]
      BY <1>4 DEF Kinds
  <2> QED
      BY <1>2, <1>3, <1>7, <2>1 DEF ReminderInv, GoesRight, Right, RunGoesOn
<1>9. SeenIsPending'
    BY <1>2, <1>3, <1>4 DEF ReminderInv, SeenIsPending, Kinds
<1>10. ReminderTypeOK'
    BY <1>2, <1>3, <1>4 DEF ReminderInv, ReminderTypeOK, RunGoesOn
<1> QED
    BY <1>2, <1>3, <1>5, <1>6, <1>8, <1>9, <1>10
    DEF ReminderInv, RunGoesOn, AskedLast, RemindersFollow

LEMMA KindDoneKept ==
    ASSUME ReminderInv, KindDone
    PROVE  ReminderInv'
<1>1. /\ turn.step = "kind" /\ turn.cancel = {} /\ turn.add = {} /\ RunGoesOn
      /\ pendings' = pendings /\ eventsLeft' = eventsLeft /\ turn.kind \in Kinds
      /\ eventsLeft \in 0..ReminderEvents /\ faulty \in BOOLEAN
    BY DEF KindDone, ReminderInv, ReminderTypeOK, Turn
<1>2. Leaves = pendings[turn.kind]
    BY <1>1 DEF Leaves, Uncancelled
<1>3. CASE turn.kind = "wird"
  <2>1. turn' = KindTurn("checkin", "none") /\ UNCHANGED <<queued, faulty>>
        /\ turn.seen["checkin"] = pendings["checkin"] /\ "checkin" \in Kinds /\ "none" \in Wirds
      BY <1>1, <1>3 DEF KindDone, ReminderInv, SeenIsPending, Kinds, Wirds
  <2>2. turn' \in Turn /\ turn'.step = "kind" /\ turn'.kind = "checkin"
        /\ turn'.times = turn.times /\ turn'.allowed = turn.allowed
        /\ turn'.seen = turn.seen /\ OnePerSlot(turn'.add)
      BY <1>1, <2>1, KindTurnFacts DEF ReminderInv
  <2>3. Right("checkin", Leaves)'
      BY <1>1, <2>1, KindTurnRight DEF RunGoesOn
  <2>4. ~faulty /\ ~queued => Right("wird", pendings["wird"])
      BY <1>1, <1>2, <1>3 DEF ReminderInv, GoesRight
  <2>5. GoesRight'
      BY <1>1, <2>1, <2>2, <2>3, <2>4 DEF GoesRight, Right, RunGoesOn
  <2>6. ReminderTypeOK'
      BY <1>1, <2>1, <2>2 DEF ReminderInv, ReminderTypeOK, RunGoesOn
  <2> QED
      BY <1>1, <2>1, <2>2, <2>5, <2>6
      DEF ReminderInv, RunGoesOn, AskedLast, SeenIsPending, RemindersFollow
<1>4. CASE turn.kind # "wird"
  <2>1. TurnEnds(faulty) /\ turn.kind = "checkin"
      BY <1>1, <1>4 DEF KindDone, Kinds
  <2>2. ~faulty /\ ~queued => \A k \in Kinds : Right(k, pendings[k])
      BY <1>1, <1>2, <2>1 DEF ReminderInv, GoesRight, Kinds
  <2>3. ~queued /\ ~unnoticed => turn.times = times /\ turn.allowed = allowed
      BY <1>1 DEF ReminderInv, AskedLast
  <2> QED
      BY <1>1, <2>1, <2>2, <2>3, TurnEndKept
<1> QED
    BY <1>3, <1>4

LEMMA ReminderInductive == ReminderInv /\ [ReminderNext]_reminderVars => ReminderInv'
<1> SUFFICES ASSUME ReminderInv, [ReminderNext]_reminderVars PROVE ReminderInv'
    OBVIOUS
<1>1. CASE UNCHANGED reminderVars
    BY <1>1
    DEF reminderVars, ReminderInv, ReminderTypeOK, AskedLast, SeenIsPending, GoesRight,
        RemindersFollow, Right, Leaves, Uncancelled
<1> QED
    BY <1>1, RequestsKept, PermissionKept, ReadsKept, WirdKept, FailureKept, CancelKept,
       AddKept, KindDoneKept DEF ReminderNext

(* Once nothing is to be done, every reminder registered with the system is *)
(* of the settings, permission and wird of now, and none is missing, unless *)
(* a call failed: whatever changes during a run (reconcile, queued in       *)
(* scheduler.ts).                                                           *)
THEOREM RemindersFollowed == ReminderSpec => []RemindersFollow
<1>1. ReminderInv => RemindersFollow
    BY DEF ReminderInv
<1> QED
    BY <1>1, ReminderInitially, ReminderInductive, PTL DEF ReminderSpec

-----------------------------------------------------------------------------
(***************************************************************************)
(* Playback: the ayah shown is the ayah heard.                             *)
(*                                                                         *)
(* A transition keeps what it is for in step with what is shown, and the   *)
(* engine's idea of the loaded file with the player's (TransitionInv,      *)
(* FileInv). The place is harder: a report is of a moment ago. Once an     *)
(* ayah's end counts (armed), a report on its way was made where the       *)
(* player still is; before, an older report arms the end of an ayah only   *)
(* if the player is in it, as a repeat whose seek failed may have left the *)
(* player ahead of the ayah shown (PlaceInv).                              *)
(***************************************************************************)

\* The app shows a recitation, playing or paused, with no transition under way.
Sounding == playback.phase \in {"playing", "paused"} /\ ~Transitioning

TransitionInv ==
    /\ playback.phase = "loading" => Transitioning
    /\ Transitioning =>
         /\ playback.phase \in {"loading", "paused"} /\ ~control.armed /\ ~control.repeating
         /\ control.transition.file = <<playback.reciter, playback.position.surah>>
         /\ control.transition.ayah = playback.position.ayah
         /\ playback.position \in Positions
         /\ control.transition.at = "load" => player.file = control.transition.file
         /\ control.transition.at = "seek" => control.loaded = control.transition.file

FileInv ==
    /\ control.loaded # NoFile => player.file = control.loaded
    /\ Sounding => /\ control.loaded = <<playback.reciter, playback.position.surah>>
                   /\ playback.position \in Positions

RepeatInv ==
    control.repeating => ~control.armed /\ playback.phase \in {"playing", "paused", "idle"}

PlaceInv ==
    Sounding =>
        LET ahead == player.at - playback.position.ayah IN
        /\ told.kind = "status" /\ (control.armed \/ control.repeating) => told.at = player.at
        /\ control.armed => ahead \in {0, 1}
        /\ control.repeating => ahead > 0
        /\ ~control.armed /\ ~control.repeating /\ ahead # 0 =>
              ahead > 0 /\ (told.kind = "status" => told.at > playback.position.ayah)

PlaybackInv == PlaybackTypeOK /\ TransitionInv /\ FileInv /\ RepeatInv /\ PlaceInv

LEMMA NoReportType == NoReport \in PlayerReport
    BY PlaybackAssumption DEF NoReport, PlayerReport

LEMMA PlaybackInitInv == PlaybackInit => PlaybackInv
<1> SUFFICES ASSUME PlaybackInit PROVE PlaybackInv
    OBVIOUS
<1> USE PlaybackAssumption DEF PlaybackInit
<1>1. NoTransition \in [at : {"none", "fetch", "load", "seek"}, file : Files \cup {NoFile}, ayah : 0..Ayahs]
    BY DEF NoTransition
<1>2. playback \in PlaybackState
    BY DEF IdleState, PlaybackState, Voices
<1>3. control \in EngineState
    BY <1>1 DEF EngineState, MaxPlaybackRetries, Voices
<1>4. PlaybackTypeOK
    BY <1>2, <1>3 DEF PlaybackTypeOK, PlayerState, PlayerReport, NoReport
<1>5. ~Transitioning /\ playback.phase = "idle" /\ control.repeating = FALSE /\ control.loaded = NoFile
    BY DEF Transitioning, IdleState
<1> QED
    BY <1>4, <1>5 DEF PlaybackInv, TransitionInv, FileInv, RepeatInv, PlaceInv, Sounding

(* A new transition, or the refusal of one. *)
LEMMA TransitionInvKept ==
    ASSUME PlaybackInv, NEW reciter \in Voices, NEW p \in Positions \cup {NoPosition},
           NEW autoplay \in BOOLEAN, NEW tries \in 0..MaxPlaybackRetries,
           NEW shown \in PlaybackState, Transition(reciter, p, autoplay, tries, shown),
           told' \in PlayerReport, playbackEvents' \in 0..MaxPlaybackEvents
    PROVE  PlaybackInv'
<1> USE PlaybackAssumption
<1> DEFINE recorded == <<reciter, p.surah>> \in Recorded
<1>0. PlaybackTypeOK /\ playback \in PlaybackState /\ control \in EngineState /\ player \in PlayerState
    BY DEF PlaybackInv, PlaybackTypeOK
<1>1. recorded => p \in Positions /\ reciter \in Reciters /\ <<reciter, p.surah>> \in Files
    BY DEF Positions, NoPosition, Files
<1>2. playback' \in PlaybackState
    BY ZenonT(60) DEF Transition, PlaybackState, Voices
<1> DEFINE begun == [at |-> "fetch", file |-> <<reciter, p.surah>>, ayah |-> p.ayah]
           begins == IF recorded THEN begun ELSE NoTransition
<1>3. control' = [control EXCEPT
                      !.armed = FALSE, !.recited = 0, !.repeating = FALSE,
                      !.wantPlaying = autoplay, !.retryFor = NoReciter, !.retries = tries,
                      !.transition = begins, !.commanded = control.commanded \/ ~recorded]
    BY DEF Transition
<1>4. begins \in [at : {"none", "fetch", "load", "seek"}, file : Files \cup {NoFile}, ayah : 0..Ayahs]
    BY <1>1 DEF NoTransition, Positions
<1> HIDE DEF begins
<1>5. control' \in EngineState
  <2>1. PICK none \in 0..2, voice \in Voices : none = 0 /\ voice = NoReciter
      BY DEF Voices
  <2>2. control' = [control EXCEPT
                      !.armed = FALSE, !.recited = none, !.repeating = FALSE,
                      !.wantPlaying = autoplay, !.retryFor = voice, !.retries = tries,
                      !.transition = begins, !.commanded = control.commanded \/ ~recorded]
      BY <1>3, <2>1
  <2>3. PICK commanded \in BOOLEAN : commanded = (control.commanded \/ ~recorded)
      OBVIOUS
  <2>4. control' = [control EXCEPT
                      !.armed = FALSE, !.recited = none, !.repeating = FALSE,
                      !.wantPlaying = autoplay, !.retryFor = voice, !.retries = tries,
                      !.transition = begins, !.commanded = commanded]
      BY <2>2, <2>3
  <2> QED
      BY <1>0, <1>4, <2>4, ZenonT(60) DEF EngineState
<1>6. player' \in PlayerState /\ player'.file = player.file
    BY <1>0 DEF Transition, Silent, PlayerState
<1>7. /\ control'.armed = FALSE /\ control'.repeating = FALSE /\ control'.transition = begins
      /\ control'.loaded = control.loaded
    BY <1>0, <1>3 DEF EngineState
<1>8. /\ playback'.phase = (IF recorded THEN "loading" ELSE "error")
      /\ playback'.position = p /\ playback'.reciter = reciter
    BY DEF Transition, PlaybackState
<1>9. PlaybackTypeOK'
    BY <1>2, <1>5, <1>6 DEF PlaybackTypeOK
<1>10. TransitionInv'
    BY <1>1, <1>7, <1>8 DEF TransitionInv, Transitioning, NoTransition, begins
<1>11. FileInv' /\ RepeatInv' /\ PlaceInv'
    BY <1>0, <1>6, <1>7, <1>8 DEF PlaybackInv, FileInv, RepeatInv, PlaceInv, Sounding
<1> QED
    BY <1>9, <1>10, <1>11 DEF PlaybackInv

(* Nothing that the app shows sounds any more. *)
LEMMA SilentInv ==
    ASSUME PlaybackTypeOK', FileInv, ~Transitioning', playback'.phase \in {"idle", "error", "ended"},
           control'.repeating => control'.armed = FALSE /\ playback'.phase = "idle",
           control'.loaded # NoFile => control'.loaded = control.loaded /\ player'.file = player.file
    PROVE  PlaybackInv'
    BY DEF PlaybackInv, TransitionInv, FileInv, RepeatInv, PlaceInv, Sounding

LEMMA FailInv ==
    ASSUME PlaybackInv, NEW kind \in {"network", "other"}, NEW reciter \in Voices,
           NEW file \in {NoFile, control.loaded}, Fail(kind, reciter, file), ~control.repeating,
           told' \in PlayerReport, playbackEvents' \in 0..MaxPlaybackEvents
    PROVE  PlaybackInv'
<1>0. PlaybackTypeOK /\ playback \in PlaybackState /\ control \in EngineState /\ player \in PlayerState
    BY DEF PlaybackInv, PlaybackTypeOK
<1>1. playback' \in PlaybackState /\ playback'.phase = "error"
    BY <1>0 DEF Fail, PlaybackState
<1>2. player' \in PlayerState /\ player'.file = player.file
    BY <1>0 DEF Fail, Silent, PlayerState
<1>3. NoTransition \in [at : {"none", "fetch", "load", "seek"}, file : Files \cup {NoFile}, ayah : 0..Ayahs]
    BY PlaybackAssumption DEF NoTransition
<1> DEFINE more == IF RetriesAfter(kind) THEN control.retries + 1 ELSE control.retries
           for == IF RetriesAfter(kind) THEN reciter ELSE control.retryFor
<1>4. more \in 0..MaxPlaybackRetries
    BY <1>0 DEF EngineState, RetriesAfter, MaxPlaybackRetries
<1>5. for \in Voices
    BY <1>0 DEF EngineState
<1>6. file \in Files \cup {NoFile}
    BY <1>0 DEF EngineState
<1>7. control' = [control EXCEPT !.transition = NoTransition, !.commanded = TRUE, !.loaded = file,
                                !.retries = more, !.retryFor = for]
    BY DEF Fail
<1> HIDE DEF more, for
<1>8. control' \in EngineState
    BY <1>0, <1>3, <1>4, <1>5, <1>6, <1>7 DEF EngineState
<1>9. control'.transition = NoTransition /\ control'.loaded = file /\ control'.repeating = control.repeating
    BY <1>0, <1>7 DEF EngineState
<1> QED
    BY <1>1, <1>2, <1>8, <1>9, SilentInv DEF PlaybackInv, PlaybackTypeOK, Transitioning

(* What keeps the place: the files, the position and what is under way stay. *)
LEMMA GoInv ==
    ASSUME PlaybackInv, NEW wanted \in Voices, NEW p \in Positions \cup {NoPosition},
           NEW autoplay \in BOOLEAN, NEW tries \in 0..MaxPlaybackRetries,
           NEW shown \in PlaybackState, GoWith(wanted, p, autoplay, tries, shown),
           told' \in PlayerReport, playbackEvents' \in 0..MaxPlaybackEvents
    PROVE  PlaybackInv'
<1>1. VoiceFor(wanted, p.surah) \in Voices
    BY PlaybackAssumption DEF VoiceFor, Voices
<1>2. [shown EXCEPT !.preferred = wanted] \in PlaybackState
    BY DEF PlaybackState
<1> QED
    BY <1>1, <1>2, TransitionInvKept DEF GoWith

LEMMA FollowingIsPosition ==
    ASSUME NEW p \in Positions \cup {NoPosition}
    PROVE  /\ p \in Positions => FollowingAyah(p) \in Positions \cup {NoPosition}
           /\ p \in Positions => PrecedingAyah(p) \in Positions \cup {NoPosition}
    BY PlaybackAssumption DEF FollowingAyah, PrecedingAyah, Positions, NoPosition

LEMMA AdvanceInv ==
    ASSUME PlaybackInv, Advance, Sounding, player.at > playback.position.ayah,
           \/ control.armed /\ told' = NoReport
           \/ control.repeating /\ told' = told,
           playbackEvents' \in 0..MaxPlaybackEvents
    PROVE  PlaybackInv'
<1> USE PlaybackAssumption
<1> DEFINE upcoming == FollowingAyah(playback.position)
<1>0. /\ PlaybackTypeOK /\ playback \in PlaybackState /\ control \in EngineState
      /\ player \in PlayerState /\ told \in PlayerReport
    BY DEF PlaybackInv, PlaybackTypeOK
<1>1. /\ playback.position \in Positions /\ playback.phase \in {"playing", "paused"}
      /\ control.loaded = <<playback.reciter, playback.position.surah>> /\ ~Transitioning
    BY DEF PlaybackInv, FileInv, Sounding
<1>2. upcoming \in Positions \cup {NoPosition}
    BY <1>1, FollowingIsPosition
<1>3. told' \in PlayerReport
    BY <1>0, NoReportType
<1>4. CASE playback.mode = "single"
  <2>1. /\ playback' = [playback EXCEPT !.phase = "ended"] /\ player' = Silent(player)
        /\ control' = [control EXCEPT !.wantPlaying = FALSE, !.recited = 0, !.repeating = FALSE,
                                      !.commanded = TRUE]
      BY <1>4 DEF Advance
  <2>2. playback' \in PlaybackState /\ playback'.phase = "ended"
      BY <1>0, <2>1 DEF PlaybackState
  <2>3. /\ control' \in EngineState /\ control'.transition = control.transition
        /\ control'.loaded = control.loaded /\ control'.repeating = FALSE
    <3>1. PICK none \in 0..2 : none = 0
        OBVIOUS
    <3>2. control' = [control EXCEPT !.wantPlaying = FALSE, !.recited = none, !.repeating = FALSE,
                                        !.commanded = TRUE]
        BY <2>1, <3>1
    <3> QED
        BY <1>0, <3>1, <3>2 DEF EngineState
  <2>4. player' \in PlayerState /\ player'.file = player.file
      BY <1>0, <2>1 DEF PlayerState, Silent
  <2> QED
      BY <1>1, <1>3, <2>2, <2>3, <2>4, SilentInv DEF PlaybackInv, PlaybackTypeOK, Transitioning
<1>5. CASE playback.mode # "single" /\ upcoming = NoPosition
  <2>1. StopsAtEnd
      BY <1>5 DEF Advance
  <2>2. playback' \in PlaybackState /\ playback'.phase = "ended"
      BY <1>0, <2>1 DEF StopsAtEnd, PlaybackState, Voices
  <2>3. /\ control' \in EngineState /\ control'.transition = control.transition
        /\ control'.loaded = NoFile /\ control'.repeating = FALSE
    <3>1. PICK none \in 0..2, file \in Files \cup {NoFile} : none = 0 /\ file = NoFile
        OBVIOUS
    <3>2. control' = [control EXCEPT !.wantPlaying = FALSE, !.loaded = file, !.recited = none,
                                        !.repeating = FALSE]
        BY <2>1, <3>1 DEF StopsAtEnd
    <3> QED
        BY <1>0, <3>1, <3>2 DEF EngineState
  <2>4. player' \in PlayerState
      BY <2>1 DEF StopsAtEnd, PlayerState
  <2> QED
      BY <1>1, <1>3, <2>2, <2>3, <2>4, SilentInv DEF PlaybackInv, PlaybackTypeOK, Transitioning
<1>6. CASE /\ playback.mode # "single" /\ upcoming # NoPosition
           /\ playback.pending = NoReciter /\ upcoming.surah = control.loaded[2]
  <2>1. /\ playback' = [playback EXCEPT !.position = upcoming] /\ player' = player
        /\ control' = [control EXCEPT !.recited = 0, !.repeating = FALSE]
      BY <1>6 DEF Advance
  <2>2. upcoming.surah = playback.position.surah /\ upcoming.ayah = playback.position.ayah + 1
      BY <1>1, <1>6 DEF FollowingAyah, Positions
  <2>3. /\ playback' \in PlaybackState /\ playback'.phase = playback.phase
        /\ playback'.reciter = playback.reciter /\ playback'.position = upcoming
      BY <1>0, <1>2, <2>1 DEF PlaybackState
  <2>4. /\ control' \in EngineState /\ control'.transition = control.transition
        /\ control'.loaded = control.loaded /\ control'.repeating = FALSE
        /\ control'.armed = control.armed
    <3>1. PICK none \in 0..2 : none = 0
        OBVIOUS
    <3>2. control' = [control EXCEPT !.recited = none, !.repeating = FALSE]
        BY <2>1, <3>1
    <3> QED
        BY <1>0, <3>1, <3>2 DEF EngineState
  <2>5. player.at \in Nat /\ playback.position.ayah \in Nat
      BY <1>0, <1>1 DEF PlayerState, Positions
  <2>6. PlaybackTypeOK' /\ ~Transitioning' /\ upcoming \in Positions
      BY <1>0, <1>1, <1>2, <1>3, <1>6, <2>1, <2>3, <2>4 DEF PlaybackTypeOK, Transitioning
  <2>7. TransitionInv' /\ FileInv' /\ RepeatInv'
      BY <1>1, <2>1, <2>2, <2>3, <2>4, <2>6
      DEF PlaybackInv, TransitionInv, FileInv, RepeatInv, Sounding
  <2>8. PlaceInv'
    <3>1. CASE control.armed /\ told' = NoReport
      <4>1. player.at - playback.position.ayah \in {0, 1}
          BY <3>1 DEF PlaybackInv, PlaceInv
      <4> QED
          BY <2>1, <2>2, <2>3, <2>4, <2>5, <3>1, <4>1 DEF PlaceInv, NoReport
    <3>2. CASE control.repeating /\ told' = told
      <4>1. ~control.armed /\ (told.kind = "status" => told.at = player.at)
          BY <3>2 DEF PlaybackInv, RepeatInv, PlaceInv
      <4> QED
          BY <2>1, <2>2, <2>3, <2>4, <2>5, <3>2, <4>1 DEF PlaceInv
    <3> QED
        BY <3>1, <3>2
  <2> QED
      BY <2>6, <2>7, <2>8 DEF PlaybackInv
<1>7. CASE /\ playback.mode # "single" /\ upcoming # NoPosition
           /\ ~(playback.pending = NoReciter /\ upcoming.surah = control.loaded[2])
  <2>1. GoWith(AskedReciter, upcoming, TRUE, control.retries, playback)
      BY <1>7 DEF Advance, Go
  <2>2. AskedReciter \in Voices /\ control.retries \in 0..MaxPlaybackRetries
      BY <1>0 DEF AskedReciter, PlaybackState, EngineState
  <2> QED
      BY <1>0, <1>2, <1>3, <2>1, <2>2, GoInv
<1> QED
    BY <1>4, <1>5, <1>6, <1>7

(* A step that leaves the files, the place and what is under way as they are. *)
SamePlace ==
    /\ control'.transition = control.transition /\ control'.loaded = control.loaded
    /\ (control'.repeating <=> control.repeating) /\ (control'.armed <=> control.armed)
    /\ playback'.position = playback.position /\ playback'.reciter = playback.reciter
    /\ player'.file = player.file /\ player'.at = player.at

LEMMA SamePlaceInv ==
    ASSUME PlaybackInv, PlaybackTypeOK', SamePlace,
           \/ playback'.phase = playback.phase
           \/ ~Transitioning /\ {playback.phase, playback'.phase} \subseteq {"playing", "paused"}
           \/ Transitioning /\ playback'.phase \in {"loading", "paused"},
           told' = told \/ (told'.kind = "status" => told'.at = player.at)
    PROVE  PlaybackInv'
<1> USE DEF SamePlace
<1>1. (Transitioning' <=> Transitioning) /\ (Sounding' <=> Sounding)
    BY DEF Transitioning, Sounding, PlaybackInv, TransitionInv
<1>2. TransitionInv' /\ FileInv'
  <2>1. /\ Transitioning => playback'.phase \in {"loading", "paused"}
        /\ playback'.phase = "loading" => Transitioning
      BY DEF PlaybackInv, TransitionInv
  <2>2. TransitionInv'
      BY <1>1, <2>1 DEF PlaybackInv, TransitionInv
  <2>3. FileInv'
      BY <1>1 DEF PlaybackInv, FileInv
  <2> QED
      BY <2>2, <2>3
<1>3. RepeatInv'
    BY DEF PlaybackInv, TransitionInv, RepeatInv
<1>4. PlaceInv'
  <2>1. SUFFICES ASSUME Sounding
                 PROVE  PlaceInv'
      BY <1>1 DEF PlaceInv
  <2>2. player.at \in Nat /\ playback.position.ayah \in Nat
      BY <2>1, PlaybackAssumption
      DEF PlaybackInv, PlaybackTypeOK, FileInv, PlayerState, Positions
  <2> QED
      BY <1>1, <2>1, <2>2 DEF PlaybackInv, PlaceInv
<1> QED
    BY <1>2, <1>3, <1>4 DEF PlaybackInv

LEMMA PauseInv ==
    ASSUME PlaybackInv, Pause, told' = told \/ told' = NoReport,
           playbackEvents' \in 0..MaxPlaybackEvents
    PROVE  PlaybackInv'
<1>0. /\ PlaybackTypeOK /\ playback \in PlaybackState /\ control \in EngineState
      /\ player \in PlayerState /\ told \in PlayerReport
    BY DEF PlaybackInv, PlaybackTypeOK
<1>1. /\ playback' \in PlaybackState /\ playback'.position = playback.position
      /\ playback'.reciter = playback.reciter
      /\ playback'.phase = IF PauseShown THEN "paused" ELSE playback.phase
    BY <1>0 DEF Pause, PlaybackState
<1>2. PICK commanded \in BOOLEAN : commanded = (control.commanded \/ playback.phase = "playing")
    OBVIOUS
<1>3. control' = [control EXCEPT !.wantPlaying = FALSE, !.commanded = commanded]
    BY <1>2 DEF Pause
<1>4. /\ control' \in EngineState /\ control'.transition = control.transition
      /\ control'.loaded = control.loaded /\ control'.repeating = control.repeating
      /\ control'.armed = control.armed
    BY <1>0, <1>3 DEF EngineState
<1>5. player' \in PlayerState /\ player'.file = player.file /\ player'.at = player.at
    BY <1>0 DEF Pause, Silent, PlayerState
<1>6. PlaybackTypeOK'
    BY <1>0, <1>1, <1>4, <1>5, NoReportType DEF PlaybackTypeOK
<1>7. (playback.phase = "loading" => Transitioning) /\ (playback.phase = "playing" => ~Transitioning)
    BY DEF PlaybackInv, TransitionInv
<1> QED
    BY <1>1, <1>4, <1>5, <1>6, <1>7, SamePlaceInv DEF SamePlace, PauseShown, NoReport

LEMMA StopInv ==
    ASSUME PlaybackInv, Stop, told' \in PlayerReport, playbackEvents' \in 0..MaxPlaybackEvents
    PROVE  PlaybackInv'
<1>0. PlaybackTypeOK /\ control \in EngineState
    BY DEF PlaybackInv, PlaybackTypeOK
<1>1. playback' \in PlaybackState /\ playback'.phase = "idle"
    BY DEF Stop, IdleState, PlaybackState, Voices
<1>2. player' \in PlayerState
    BY PlaybackAssumption DEF Stop, PlayerState
<1>3. PICK idle, file, voice :
        idle = NoTransition /\ file = NoFile /\ voice = NoReciter
    OBVIOUS
<1>4. /\ idle \in [at : {"none", "fetch", "load", "seek"}, file : Files \cup {NoFile}, ayah : 0..Ayahs]
      /\ file \in Files \cup {NoFile} /\ voice \in Voices
    BY <1>3, PlaybackAssumption DEF NoTransition, Voices
<1>5. control' = [control EXCEPT !.transition = idle, !.wantPlaying = FALSE,
                                !.retryFor = voice, !.loaded = file]
    BY <1>3 DEF Stop
<1>6. /\ control' \in EngineState /\ control'.transition = idle /\ control'.loaded = file
      /\ control'.repeating = control.repeating /\ control'.armed = control.armed
    BY <1>0, <1>4, <1>5 DEF EngineState
<1>7. control.repeating => control.armed = FALSE
    BY <1>0 DEF PlaybackInv, RepeatInv, EngineState
<1> QED
    BY <1>1, <1>2, <1>3, <1>6, <1>7, SilentInv DEF PlaybackInv, PlaybackTypeOK, Transitioning

(* The report of a player in the ayah shown makes its end count. *)
LEMMA FollowsInv ==
    ASSUME PlaybackInv, NEW near \in BOOLEAN, Arms(near), ~Ignores, told.kind = "status",
           FollowsDevice, player' = player, told' = NoReport, playbackEvents' = playbackEvents
    PROVE  PlaybackInv'
<1>0. /\ PlaybackTypeOK /\ playback \in PlaybackState /\ control \in EngineState
      /\ player \in PlayerState /\ told \in PlayerReport
    BY DEF PlaybackInv, PlaybackTypeOK
<1>1. Sounding /\ ~control.repeating
    BY DEF Ignores, Sounding
<1>2. /\ playback' \in PlaybackState /\ playback'.position = playback.position
      /\ playback'.reciter = playback.reciter /\ playback'.phase \in {"playing", "paused"}
    BY <1>0, <1>1 DEF FollowsDevice, PlaybackState, Sounding
<1>3. /\ control' \in EngineState /\ control'.transition = control.transition
      /\ control'.loaded = control.loaded /\ (control'.repeating <=> control.repeating)
      /\ control'.armed
    BY <1>0, ZenonT(60) DEF FollowsDevice, EngineState
<1>4. PlaybackTypeOK'
    BY <1>0, <1>2, <1>3, NoReportType DEF PlaybackTypeOK
<1>5. player.at - playback.position.ayah \in {0, 1}
  <2>1. CASE control.armed
      BY <1>1, <2>1 DEF PlaybackInv, PlaceInv
  <2>2. CASE ~control.armed
    <3>1. told.at = playback.position.ayah \/ told.at = playback.position.ayah - 1
        BY <2>2 DEF Arms
    <3>2. /\ player.at \in Nat /\ told.at \in Nat /\ playback.position.ayah \in Nat
        BY <1>0, <1>1, PlaybackAssumption
        DEF PlaybackInv, FileInv, PlayerState, PlayerReport, Positions
    <3>3. ~(told.at > playback.position.ayah)
        BY <3>1, <3>2
    <3> QED
        BY <1>1, <2>2, <3>2, <3>3 DEF PlaybackInv, PlaceInv
  <2> QED
      BY <2>1, <2>2
<1> QED
    BY <1>1, <1>2, <1>3, <1>4, <1>5
    DEF PlaybackInv, TransitionInv, FileInv, RepeatInv, PlaceInv, Sounding, Transitioning, NoReport

LEMMA AyahEndInv ==
    ASSUME PlaybackInv, NEW near \in BOOLEAN, Arms(near), ~Ignores, told.kind = "status",
           told.at > playback.position.ayah,
           OnAyahEnd, told' = NoReport, playbackEvents' = playbackEvents
    PROVE  PlaybackInv'
<1>0. /\ PlaybackTypeOK /\ playback \in PlaybackState /\ control \in EngineState
      /\ player \in PlayerState /\ told \in PlayerReport
      /\ playbackEvents \in 0..MaxPlaybackEvents
    BY DEF PlaybackInv, PlaybackTypeOK
<1>1. Sounding /\ ~control.repeating
    BY DEF Ignores, Sounding
<1>2. player.at \in Nat /\ told.at \in Nat /\ playback.position.ayah \in Nat
    BY <1>0, <1>1, PlaybackAssumption
    DEF PlaybackInv, FileInv, PlayerState, PlayerReport, Positions
<1>3. control.armed
    BY <1>2 DEF Arms
<1>4. player.at > playback.position.ayah
    BY <1>1, <1>2, <1>3 DEF PlaybackInv, PlaceInv
<1>5. CASE playback.pending # NoReciter /\ Go(playback.pending, playback.position, TRUE)
  <2>1. playback.pending \in Voices /\ playback.position \in Positions \cup {NoPosition}
      BY <1>0 DEF PlaybackState
  <2>2. control.retries \in 0..MaxPlaybackRetries
      BY <1>0 DEF EngineState
  <2> QED
      BY <1>0, <1>5, <2>1, <2>2, GoInv, NoReportType DEF Go
<1>6. CASE /\ control' = [control EXCEPT !.recited = 1, !.repeating = TRUE, !.armed = FALSE,
                                        !.commanded = TRUE]
           /\ UNCHANGED <<playback, player>>
  <2>1. PICK once \in 0..2 : once = 1
      OBVIOUS
  <2>2. control' = [control EXCEPT !.recited = once, !.repeating = TRUE, !.armed = FALSE,
                                  !.commanded = TRUE]
      BY <1>6, <2>1
  <2>3. /\ control' \in EngineState /\ control'.transition = control.transition
        /\ control'.loaded = control.loaded /\ control'.repeating /\ ~control'.armed
      BY <1>0, <2>2 DEF EngineState
  <2>4. PlaybackTypeOK'
      BY <1>0, <1>6, <2>3, NoReportType DEF PlaybackTypeOK
  <2>5. PlaceInv'
      BY <1>2, <1>4, <1>6, <2>3 DEF PlaceInv, NoReport
  <2> QED
      BY <1>1, <1>6, <2>3, <2>4, <2>5
      DEF PlaybackInv, TransitionInv, FileInv, RepeatInv, Sounding, Transitioning
<1>7. CASE Advance
    BY <1>0, <1>1, <1>3, <1>4, <1>7, AdvanceInv
<1> QED
    BY <1>5, <1>6, <1>7 DEF OnAyahEnd

LEMMA HandleReportInv ==
    ASSUME PlaybackInv, HandleReport
    PROVE  PlaybackInv'
<1>0. /\ PlaybackTypeOK /\ playback \in PlaybackState /\ control \in EngineState
      /\ player \in PlayerState /\ told \in PlayerReport
      /\ playbackEvents \in 0..MaxPlaybackEvents
    BY DEF PlaybackInv, PlaybackTypeOK
<1>1. PICK near \in BOOLEAN : OnStatus(near)
    BY DEF HandleReport
<1>2. told' = NoReport /\ playbackEvents' = playbackEvents /\ told' \in PlayerReport
    BY NoReportType DEF HandleReport
<1>3. CASE UNCHANGED <<playback, control, player>>
    BY <1>0, <1>2, <1>3, SamePlaceInv DEF SamePlace, PlaybackTypeOK, NoReport
<1>4. CASE Stop
    BY <1>0, <1>2, <1>4, StopInv
<1>5. CASE Pause
    BY <1>0, <1>2, <1>5, PauseInv
<1>6. CASE /\ player' = Silent(player) /\ UNCHANGED playback
           /\ control' = [control EXCEPT !.commanded = TRUE]
  <2>1. player' \in PlayerState /\ player'.file = player.file /\ player'.at = player.at
      BY <1>0, <1>6 DEF Silent, PlayerState
  <2>2. /\ control' \in EngineState /\ control'.transition = control.transition
        /\ control'.loaded = control.loaded /\ control'.repeating = control.repeating
        /\ control'.armed = control.armed
      BY <1>0, <1>6 DEF EngineState
  <2> QED
      BY <1>0, <1>2, <1>6, <2>1, <2>2, SamePlaceInv DEF SamePlace, PlaybackTypeOK, NoReport
<1>7. ASSUME NEW kind \in {"network", "other"}, Fail(kind, control.loaded[1], NoFile), ~Ignores
      PROVE  PlaybackInv'
  <2>1. control.loaded[1] \in Voices
      BY <1>0 DEF EngineState, Files, NoFile, Voices
  <2> QED
      BY <1>0, <1>2, <1>7, <2>1, FailInv DEF Ignores
<1>8. CASE /\ told.kind = "status" /\ ~Ignores /\ Arms(near)
           /\ IF playback.phase = "playing" /\ told.at > playback.position.ayah
              THEN OnAyahEnd ELSE FollowsDevice /\ UNCHANGED player
    BY <1>2, <1>8, AyahEndInv, FollowsInv
<1> QED
    BY <1>1, <1>3, <1>4, <1>5, <1>6, <1>7, <1>8 DEF OnStatus

LEMMA FetchedInv ==
    ASSUME PlaybackInv, Fetched
    PROVE  PlaybackInv'
<1>0. /\ PlaybackTypeOK /\ playback \in PlaybackState /\ control \in EngineState
      /\ player \in PlayerState /\ told \in PlayerReport
    BY DEF PlaybackInv, PlaybackTypeOK
<1>1. PICK t : t = control.transition
    OBVIOUS
<1>2. /\ t.at = "fetch" /\ Transitioning /\ playback' = playback /\ told' = told
      /\ playbackEvents' = playbackEvents
      /\ t \in [at : {"none", "fetch", "load", "seek"}, file : Files \cup {NoFile}, ayah : 0..Ayahs]
    BY <1>0, <1>1 DEF Fetched, Transitioning, NoTransition, EngineState
<1>3. TransitionInv
    BY DEF PlaybackInv
<1>4. t.file \in Files /\ t.file # NoFile
  <2>1. t.file = <<playback.reciter, playback.position.surah>> /\ playback.position \in Positions
      BY <1>1, <1>2, <1>3 DEF TransitionInv
  <2>2. playback.position.surah # 0
      BY <2>1, PlaybackAssumption DEF Positions
  <2> QED
      BY <1>2, <2>1, <2>2 DEF NoFile
<1>5. CASE control.loaded = t.file
  <2>1. control' = [control EXCEPT !.transition = [t EXCEPT !.at = "seek"]] /\ player' = player
      BY <1>1, <1>5 DEF Fetched
  <2>2. [t EXCEPT !.at = "seek"] \in
           [at : {"none", "fetch", "load", "seek"}, file : Files \cup {NoFile}, ayah : 0..Ayahs]
      BY <1>2
  <2>3. PICK s : s = [t EXCEPT !.at = "seek"]
      OBVIOUS
  <2>4. s.at = "seek" /\ s.file = t.file /\ s.ayah = t.ayah
      BY <1>2, <2>3
  <2>5. /\ control' \in EngineState /\ control'.transition = s
        /\ control'.loaded = control.loaded /\ (control'.repeating <=> control.repeating)
        /\ (control'.armed <=> control.armed)
      BY <1>0, <2>1, <2>2, <2>3 DEF EngineState
  <2>6. PlaybackTypeOK' /\ Transitioning'
      BY <1>0, <1>2, <2>1, <2>4, <2>5 DEF PlaybackTypeOK, Transitioning, NoTransition
  <2>7. TransitionInv'
      BY <1>1, <1>2, <1>3, <1>5, <2>1, <2>4, <2>5, <2>6 DEF TransitionInv
  <2> QED
      BY <1>2, <2>1, <2>5, <2>6, <2>7
      DEF PlaybackInv, TransitionInv, FileInv, RepeatInv, PlaceInv, Sounding
<1>6. CASE control.loaded # t.file
  <2>1. /\ player' = [file |-> t.file, at |-> 0, playing |-> FALSE]
        /\ control' = [control EXCEPT !.transition = [t EXCEPT !.at = "load"], !.loaded = NoFile]
      BY <1>1, <1>6 DEF Fetched
  <2>2. PICK s, file : s = [t EXCEPT !.at = "load"] /\ file = NoFile
      OBVIOUS
  <2>3. /\ s.at = "load" /\ s.file = t.file /\ s.ayah = t.ayah /\ file \in Files \cup {NoFile}
        /\ s \in [at : {"none", "fetch", "load", "seek"}, file : Files \cup {NoFile}, ayah : 0..Ayahs]
      BY <1>2, <2>2
  <2>4. control' = [control EXCEPT !.transition = s, !.loaded = file]
      BY <2>1, <2>2
  <2>5. /\ control' \in EngineState /\ control'.transition = s /\ control'.loaded = NoFile
        /\ (control'.repeating <=> control.repeating) /\ (control'.armed <=> control.armed)
      BY <1>0, <2>2, <2>3, <2>4 DEF EngineState
  <2>6. player' \in PlayerState /\ player'.file = t.file
      BY <1>4, <2>1, PlaybackAssumption DEF PlayerState
  <2>7. PlaybackTypeOK' /\ Transitioning'
      BY <1>0, <1>2, <2>3, <2>5, <2>6 DEF PlaybackTypeOK, Transitioning, NoTransition
  <2>8. TransitionInv'
      BY <1>1, <1>2, <1>3, <2>3, <2>5, <2>6, <2>7 DEF TransitionInv
  <2> QED
      BY <1>2, <2>5, <2>7, <2>8
      DEF PlaybackInv, TransitionInv, FileInv, RepeatInv, PlaceInv, Sounding
<1> QED
    BY <1>5, <1>6

LEMMA LoadsInv ==
    ASSUME PlaybackInv, Loads
    PROVE  PlaybackInv'
<1>0. /\ PlaybackTypeOK /\ playback \in PlaybackState /\ control \in EngineState
      /\ player \in PlayerState /\ told \in PlayerReport
    BY DEF PlaybackInv, PlaybackTypeOK
<1>1. PICK t : t = control.transition
    OBVIOUS
<1>2. /\ t.at \in {"load", "seek"} /\ Transitioning /\ told' = told
      /\ playbackEvents' = playbackEvents /\ LoadedAt(t)
      /\ t.file \in Files \cup {NoFile} /\ t.ayah \in 0..Ayahs
    BY <1>0, <1>1 DEF Loads, Transitioning, NoTransition, EngineState
<1>3. /\ t.file = <<playback.reciter, playback.position.surah>> /\ t.ayah = playback.position.ayah
      /\ playback.position \in Positions /\ ~control.armed /\ ~control.repeating
      /\ (t.at = "load" => player.file = t.file) /\ (t.at = "seek" => control.loaded = t.file)
    BY <1>1, <1>2 DEF PlaybackInv, TransitionInv
<1>4. t.file # NoFile
    BY <1>3, PlaybackAssumption DEF NoFile, Positions
<1>5. player.file = t.file
    BY <1>2, <1>3, <1>4 DEF PlaybackInv, FileInv
<1>6. player' \in PlayerState /\ player'.file = t.file /\ player'.at = t.ayah
  <2>1. [player EXCEPT !.at = t.ayah] \in PlayerState
      BY <1>0, <1>2, PlaybackAssumption DEF PlayerState
  <2>2. PICK there : there = [player EXCEPT !.at = t.ayah]
      OBVIOUS
  <2>3. player' = IF control.wantPlaying THEN Playing(there) ELSE Silent(there)
      BY <1>2, <2>2 DEF LoadedAt
  <2>4. there.file = t.file /\ there.at = t.ayah
      BY <1>0, <1>5, <2>2 DEF PlayerState
  <2> QED
      BY <2>1, <2>2, <2>3, <2>4 DEF Playing, Silent, PlayerState
<1>7. /\ playback' \in PlaybackState /\ playback'.phase \in {"playing", "paused"}
      /\ playback'.position = playback.position /\ playback'.reciter = playback.reciter
    BY <1>0, <1>2 DEF LoadedAt, PlaybackState
<1>8. /\ control' \in EngineState /\ control'.transition = NoTransition
      /\ control'.loaded = t.file /\ ~control'.repeating /\ ~control'.armed
  <2>1. PICK idle, none, file : idle = NoTransition /\ none = 0 /\ file = t.file
      OBVIOUS
  <2>2. /\ idle \in [at : {"none", "fetch", "load", "seek"}, file : Files \cup {NoFile}, ayah : 0..Ayahs]
        /\ none \in 0..MaxPlaybackRetries /\ file \in Files \cup {NoFile}
      BY <1>2, <2>1, PlaybackAssumption DEF NoTransition, MaxPlaybackRetries
  <2>3. control' = [control EXCEPT !.transition = idle, !.loaded = file,
                                  !.retries = none, !.commanded = TRUE]
      BY <1>2, <2>1 DEF LoadedAt
  <2> QED
      BY <1>0, <1>3, <2>1, <2>2, <2>3 DEF EngineState
<1>9. PlaybackTypeOK' /\ ~Transitioning'
    BY <1>0, <1>2, <1>6, <1>7, <1>8 DEF PlaybackTypeOK, Transitioning
<1>10. player'.at - playback'.position.ayah = 0
    BY <1>3, <1>6, <1>7, PlaybackAssumption DEF Positions
<1> QED
    BY <1>3, <1>6, <1>7, <1>8, <1>9, <1>10
    DEF PlaybackInv, TransitionInv, FileInv, RepeatInv, PlaceInv, Sounding

LEMMA LoadFailsInv ==
    ASSUME PlaybackInv, LoadFails
    PROVE  PlaybackInv'
<1>0. PlaybackTypeOK /\ control \in EngineState /\ told \in PlayerReport
    BY DEF PlaybackInv, PlaybackTypeOK
<1>1. PICK kind \in {"network", "other"}, file \in {NoFile, control.loaded} :
        Fail(kind, control.transition.file[1], file)
    BY DEF LoadFails
<1>2. ~control.repeating
    BY DEF LoadFails, PlaybackInv, TransitionInv
<1>3. control.transition.file[1] \in Voices
    BY <1>0 DEF EngineState, Files, NoFile, Voices
<1>4. told' \in PlayerReport /\ playbackEvents' \in 0..MaxPlaybackEvents
    BY <1>0, PlaybackAssumption DEF LoadFails, PlaybackTypeOK
<1> QED
    BY <1>1, <1>2, <1>3, <1>4, FailInv

LEMMA RetryPlaysInv ==
    ASSUME PlaybackInv, RetryPlays
    PROVE  PlaybackInv'
<1>0. /\ PlaybackTypeOK /\ playback \in PlaybackState /\ control \in EngineState
      /\ player \in PlayerState /\ told \in PlayerReport
      /\ playbackEvents \in 0..MaxPlaybackEvents
    BY DEF PlaybackInv, PlaybackTypeOK
<1>1. told' = told /\ playbackEvents' = playbackEvents
    BY DEF RetryPlays
<1>2. CASE Transition(control.retryFor, playback.position, TRUE, control.retries, playback)
  <2>1. /\ control.retryFor \in Voices /\ playback.position \in Positions \cup {NoPosition}
        /\ control.retries \in 0..MaxPlaybackRetries
      BY <1>0 DEF EngineState, PlaybackState
  <2> QED
      BY <1>0, <1>1, <1>2, <2>1, TransitionInvKept
<1>3. CASE control' = [control EXCEPT !.retryFor = NoReciter] /\ UNCHANGED <<playback, player>>
  <2>1. /\ control' \in EngineState /\ control'.transition = control.transition
        /\ control'.loaded = control.loaded /\ (control'.repeating <=> control.repeating)
        /\ (control'.armed <=> control.armed)
      BY <1>0, <1>3 DEF EngineState, Voices
  <2> QED
      BY <1>0, <1>1, <1>3, <2>1, SamePlaceInv DEF SamePlace, PlaybackTypeOK
<1> QED
    BY <1>2, <1>3 DEF RetryPlays

LEMMA RepeatEndsInv ==
    ASSUME PlaybackInv, RepeatLands \/ RepeatFails
    PROVE  PlaybackInv'
<1>0. /\ PlaybackTypeOK /\ playback \in PlaybackState /\ control \in EngineState
      /\ player \in PlayerState /\ told \in PlayerReport
      /\ playbackEvents \in 0..MaxPlaybackEvents
    BY DEF PlaybackInv, PlaybackTypeOK
<1>1. Sounding /\ control.repeating /\ ~control.armed
    BY DEF RepeatLands, RepeatFails, PlaybackInv, RepeatInv, Sounding
<1>2. player.at \in Nat /\ playback.position \in Positions /\ playback.position.ayah \in Nat
    BY <1>0, <1>1, PlaybackAssumption DEF PlaybackInv, FileInv, PlayerState, Positions
<1>3. CASE RepeatFails
  <2>1. player.at > playback.position.ayah
      BY <1>1, <1>2 DEF PlaybackInv, PlaceInv
  <2>2. Advance /\ told' = told /\ playbackEvents' \in 0..MaxPlaybackEvents
      BY <1>0, <1>3, PlaybackAssumption DEF RepeatFails
  <2> QED
      BY <1>1, <2>1, <2>2, AdvanceInv
<1>4. CASE RepeatLands
  <2>1. PICK there : there = [player EXCEPT !.at = playback.position.ayah]
      OBVIOUS
  <2>2. there \in PlayerState /\ there.file = player.file /\ there.at = playback.position.ayah
      BY <1>0, <1>2, <2>1, PlaybackAssumption DEF PlayerState, Positions
  <2>3. player' = IF control.wantPlaying THEN Playing(there) ELSE there
      BY <1>4, <2>1 DEF RepeatLands
  <2>4. player' \in PlayerState /\ player'.file = player.file /\ player'.at = playback.position.ayah
      BY <2>2, <2>3 DEF Playing, PlayerState
  <2>5. PICK commanded \in BOOLEAN : commanded = (control.commanded \/ control.wantPlaying)
      OBVIOUS
  <2>6. control' = [control EXCEPT !.repeating = FALSE, !.commanded = commanded]
      BY <1>4, <2>5 DEF RepeatLands
  <2>7. /\ control' \in EngineState /\ control'.transition = control.transition
        /\ control'.loaded = control.loaded /\ ~control'.repeating /\ ~control'.armed
      BY <1>0, <1>1, <2>6 DEF EngineState
  <2>8. playback' = playback /\ told' = told /\ PlaybackTypeOK'
      BY <1>0, <1>4, <2>4, <2>7 DEF RepeatLands, PlaybackTypeOK
  <2>9. player'.at - playback'.position.ayah = 0
      BY <1>2, <2>4, <2>8
  <2> QED
      BY <1>1, <2>4, <2>7, <2>8, <2>9
      DEF PlaybackInv, TransitionInv, FileInv, RepeatInv, PlaceInv, Sounding, Transitioning
<1> QED
    BY <1>3, <1>4

LEMMA RecitesInv ==
    ASSUME PlaybackInv, Recites
    PROVE  PlaybackInv'
<1>0. /\ PlaybackTypeOK /\ playback \in PlaybackState /\ control \in EngineState
      /\ player \in PlayerState /\ told \in PlayerReport
    BY DEF PlaybackInv, PlaybackTypeOK
<1>1. /\ playback' = playback /\ control' = control /\ told' = told /\ told = NoReport
      /\ playbackEvents' = playbackEvents /\ player.at \in 1..Ayahs /\ ReportTaken
    BY DEF Recites
<1>2. player' \in PlayerState /\ player'.file = player.file /\ player'.at = player.at + 1
  <2>1. PICK next \in 0..(Ayahs + 1) : next = player.at + 1
      BY <1>1, PlaybackAssumption
  <2>2. PICK more \in BOOLEAN : more = (player.at < Ayahs)
    <3>1. (player.at < Ayahs) \in BOOLEAN
        OBVIOUS
    <3> QED
        BY <3>1, Zenon
  <2>3. player' = [player EXCEPT !.at = next, !.playing = more]
      BY <2>1, <2>2 DEF Recites
  <2> QED
      BY <1>0, <2>1, <2>3 DEF PlayerState
<1>3. PlaybackTypeOK' /\ (Transitioning' <=> Transitioning) /\ (Sounding' <=> Sounding)
    BY <1>0, <1>1, <1>2 DEF PlaybackTypeOK, Transitioning, Sounding
<1>4. ASSUME Sounding
      PROVE  PlaceInv'
  <2>1. /\ playback.position \in Positions /\ player.at \in Nat /\ playback.position.ayah \in Nat
        /\ control.loaded = <<playback.reciter, playback.position.surah>>
      BY <1>1, <1>4, PlaybackAssumption DEF PlaybackInv, FileInv, Positions
  <2>2. control.loaded # NoFile
      BY <2>1, PlaybackAssumption DEF NoFile, Positions
  <2>3. \/ control.repeating
        \/ control.armed /\ player.at <= playback.position.ayah
        \/ ~control.armed /\ player.at # playback.position.ayah
      BY <1>1, <1>4, <2>2 DEF ReportTaken, Ignores, Sounding
  <2>4. PlaceInv /\ (control.repeating => ~control.armed)
      BY DEF PlaybackInv, RepeatInv
  <2>5. CASE control.repeating
      BY <1>1, <1>2, <1>4, <2>1, <2>4, <2>5 DEF PlaceInv, NoReport
  <2>6. CASE control.armed /\ player.at <= playback.position.ayah
      BY <1>1, <1>2, <1>4, <2>1, <2>4, <2>6 DEF PlaceInv, NoReport
  <2>7. CASE ~control.armed /\ ~control.repeating /\ player.at # playback.position.ayah
      BY <1>1, <1>2, <1>4, <2>1, <2>4, <2>7 DEF PlaceInv, NoReport
  <2> QED
      BY <2>3, <2>5, <2>6, <2>7
<1>5. PlaceInv'
    BY <1>3, <1>4 DEF PlaceInv
<1>6. TransitionInv' /\ FileInv' /\ RepeatInv'
    BY <1>1, <1>2, <1>3 DEF PlaybackInv, TransitionInv, FileInv, RepeatInv
<1> QED
    BY <1>3, <1>5, <1>6 DEF PlaybackInv

(* The player's reports, and what happens to it from outside. *)
LEMMA OutsideInv ==
    ASSUME PlaybackInv, PlayerReports \/ GracePasses \/ PlaysOutside \/ PausesOutside \/ Breaks
    PROVE  PlaybackInv'
<1>0. /\ PlaybackTypeOK /\ playback \in PlaybackState /\ control \in EngineState
      /\ player \in PlayerState /\ told \in PlayerReport
      /\ playbackEvents \in 0..MaxPlaybackEvents
    BY DEF PlaybackInv, PlaybackTypeOK
<1>1. playback' = playback
    BY DEF PlayerReports, GracePasses, PlaysOutside, PausesOutside, Breaks
<1>2. player' \in PlayerState /\ player'.file = player.file /\ player'.at = player.at
    BY <1>0
    DEF PlayerReports, GracePasses, PlaysOutside, PausesOutside, Breaks, Playing, Silent, PlayerState
<1>3. /\ control' \in EngineState /\ control'.transition = control.transition
      /\ control'.loaded = control.loaded /\ (control'.repeating <=> control.repeating)
      /\ (control'.armed <=> control.armed)
  <2>1. CASE control' = control
      BY <1>0, <2>1
  <2>2. CASE control' = [control EXCEPT !.commanded = FALSE]
      BY <1>0, <2>2 DEF EngineState
  <2> QED
      BY <2>1, <2>2 DEF PlayerReports, GracePasses, PlaysOutside, PausesOutside, Breaks
<1>4. told' \in PlayerReport /\ (told' = told \/ (told'.kind = "status" => told'.at = player.at))
  <2>1. CASE told' = told
      BY <1>0, <2>1
  <2>2. ASSUME NEW kind \in {"status", "interrupted", "closed", "error"}, NEW sounds \in BOOLEAN,
               told' = [kind |-> kind, at |-> player.at, playing |-> sounds]
        PROVE  told' \in PlayerReport /\ told'.at = player.at
      BY <1>0, <2>2 DEF PlayerReport, PlayerState
  <2>3. CASE PlayerReports
    <3>1. PICK kind, sounds : kind = "status" /\ sounds = player.playing
        OBVIOUS
    <3>2. sounds \in BOOLEAN /\ told' = [kind |-> kind, at |-> player.at, playing |-> sounds]
        BY <1>0, <2>3, <3>1 DEF PlayerReports, PlayerState
    <3> QED
        BY <2>2, <3>1, <3>2
  <2>4. CASE Breaks
    <3>1. PICK sounds \in BOOLEAN : sounds = FALSE
        OBVIOUS
    <3>2. PICK kind \in {"interrupted", "closed", "error"} :
            told' = [kind |-> kind, at |-> player.at, playing |-> sounds]
        BY <2>4, <3>1 DEF Breaks
    <3> QED
        BY <2>2, <3>2
  <2> QED
      BY <2>1, <2>3, <2>4 DEF GracePasses, PlaysOutside, PausesOutside
<1>5. playbackEvents' \in 0..MaxPlaybackEvents
    BY <1>0, PlaybackAssumption
    DEF PlayerReports, GracePasses, PlaysOutside, PausesOutside, Breaks, Happens
<1> QED
    BY <1>0, <1>1, <1>2, <1>3, <1>4, <1>5, SamePlaceInv DEF SamePlace, PlaybackTypeOK

(* The reader's buttons. *)
LEMMA TapsInv ==
    ASSUME PlaybackInv, ReaderAsksToPlay \/ TapPause \/ TapStop \/ TapRepeat
    PROVE  PlaybackInv'
<1>0. /\ PlaybackTypeOK /\ playback \in PlaybackState /\ control \in EngineState
      /\ player \in PlayerState /\ told \in PlayerReport
      /\ playbackEvents \in 0..MaxPlaybackEvents
    BY DEF PlaybackInv, PlaybackTypeOK
<1>1. told' = told /\ told' \in PlayerReport /\ playbackEvents' \in 0..MaxPlaybackEvents
  <2>1. Taps
      BY DEF ReaderAsksToPlay, TapStart, TapResume, TapSkip, TapReciter, TapPause, TapStop, TapRepeat
  <2> QED
      BY <1>0, <2>1, PlaybackAssumption DEF Taps, Happens
<1>2. /\ AskedReciter \in Voices /\ playback.position \in Positions \cup {NoPosition}
      /\ 0 \in 0..MaxPlaybackRetries
    BY <1>0 DEF AskedReciter, PlaybackState, MaxPlaybackRetries
<1>3. CASE TapStart
  <2>1. PICK r \in Reciters, p \in Starts, m \in {"continuous", "single"} :
          GoWith(r, [surah |-> p[1], ayah |-> p[2]], TRUE, 0, [playback EXCEPT !.mode = m])
      BY <1>3 DEF TapStart
  <2>2. [surah |-> p[1], ayah |-> p[2]] \in Positions /\ r \in Voices
      BY PlaybackAssumption DEF Positions, Voices
  <2>3. [playback EXCEPT !.mode = m] \in PlaybackState
      BY <1>0 DEF PlaybackState
  <2> QED
      BY <1>1, <1>2, <2>1, <2>2, <2>3, GoInv
<1>4. CASE TapPause
    BY <1>1, <1>4, PauseInv DEF TapPause
<1>5. CASE TapStop
    BY <1>1, <1>5, StopInv DEF TapStop
<1>6. CASE TapRepeat
  <2>1. /\ playback' \in PlaybackState /\ playback'.phase = playback.phase
        /\ playback'.position = playback.position /\ playback'.reciter = playback.reciter
      BY <1>0, <1>6 DEF TapRepeat, PlaybackState
  <2> QED
      BY <1>0, <1>1, <1>6, <2>1, SamePlaceInv DEF TapRepeat, SamePlace, PlaybackTypeOK
<1>7. CASE TapSkip
  <2>1. PICK target \in {FollowingAyah(playback.position), PrecedingAyah(playback.position)} :
          target # NoPosition /\ GoWith(AskedReciter, target, TRUE, 0, playback)
      BY <1>7 DEF TapSkip
  <2>2. target \in Positions \cup {NoPosition}
      BY <1>2, <1>7, FollowingIsPosition DEF TapSkip
  <2> QED
      BY <1>0, <1>1, <1>2, <2>1, <2>2, GoInv
<1>8. CASE TapResume
  <2>1. CASE GoWith(AskedReciter, playback.position, TRUE, 0, playback)
      BY <1>0, <1>1, <1>2, <2>1, GoInv
  <2>2. CASE /\ playback.phase = "paused" /\ Transitioning
             /\ playback' = [playback EXCEPT !.phase = "loading"]
             /\ control' = [control EXCEPT !.wantPlaying = TRUE]
             /\ UNCHANGED player
    <3>1. /\ playback' \in PlaybackState /\ playback'.phase = "loading"
          /\ playback'.position = playback.position /\ playback'.reciter = playback.reciter
        BY <1>0, <2>2 DEF PlaybackState
    <3>2. /\ control' \in EngineState /\ control'.transition = control.transition
          /\ control'.loaded = control.loaded /\ (control'.repeating <=> control.repeating)
          /\ (control'.armed <=> control.armed)
        BY <1>0, <2>2 DEF EngineState
    <3> QED
        BY <1>0, <1>1, <2>2, <3>1, <3>2, SamePlaceInv DEF SamePlace, PlaybackTypeOK
  <2>3. CASE /\ playback.phase = "paused" /\ ~Transitioning
             /\ playback' = [playback EXCEPT !.phase = "playing"]
             /\ control' = [control EXCEPT !.wantPlaying = TRUE, !.commanded = TRUE]
             /\ player' = Playing(player)
    <3>1. /\ playback' \in PlaybackState /\ playback'.phase = "playing"
          /\ playback'.position = playback.position /\ playback'.reciter = playback.reciter
        BY <1>0, <2>3 DEF PlaybackState
    <3>2. /\ control' \in EngineState /\ control'.transition = control.transition
          /\ control'.loaded = control.loaded /\ (control'.repeating <=> control.repeating)
          /\ (control'.armed <=> control.armed)
        BY <1>0, <2>3 DEF EngineState
    <3>3. player' \in PlayerState /\ player'.file = player.file /\ player'.at = player.at
        BY <1>0, <2>3 DEF Playing, PlayerState
    <3> QED
        BY <1>0, <1>1, <2>3, <3>1, <3>2, <3>3, SamePlaceInv DEF SamePlace, PlaybackTypeOK
  <2> QED
      BY <1>8, <2>1, <2>2, <2>3 DEF TapResume
<1>9. CASE TapReciter
  <2>1. PICK r \in Reciters :
          \/ GoWith(r, playback.position, TRUE, 0, [playback EXCEPT !.pending = NoReciter])
          \/ /\ playback.phase = "ended" /\ UNCHANGED <<control, player>>
             /\ playback' = [playback EXCEPT !.reciter = r, !.preferred = r, !.pending = NoReciter]
          \/ /\ UNCHANGED <<control, player>>
             /\ \/ playback' = [playback EXCEPT !.preferred = r, !.pending = NoReciter]
                \/ playback' = [playback EXCEPT !.pending = r]
      BY <1>9 DEF TapReciter
  <2>2. r \in Voices /\ NoReciter \in Voices
      BY DEF Voices
  <2>3. CASE GoWith(r, playback.position, TRUE, 0, [playback EXCEPT !.pending = NoReciter])
    <3>1. [playback EXCEPT !.pending = NoReciter] \in PlaybackState
        BY <1>0, <2>2 DEF PlaybackState
    <3> QED
        BY <1>1, <1>2, <2>2, <2>3, <3>1, GoInv
  <2>4. CASE /\ playback.phase = "ended" /\ UNCHANGED <<control, player>>
             /\ playback' = [playback EXCEPT !.reciter = r, !.preferred = r, !.pending = NoReciter]
    <3>1. playback' \in PlaybackState /\ playback'.phase = "ended"
        BY <1>0, <2>2, <2>4 DEF PlaybackState
    <3>2. ~Transitioning' /\ ~control'.repeating
        BY <2>4 DEF PlaybackInv, TransitionInv, RepeatInv, Transitioning
    <3> QED
        BY <1>0, <1>1, <2>4, <3>1, <3>2, SilentInv DEF PlaybackInv, PlaybackTypeOK
  <2>5. CASE /\ UNCHANGED <<control, player>>
             /\ \/ playback' = [playback EXCEPT !.preferred = r, !.pending = NoReciter]
                \/ playback' = [playback EXCEPT !.pending = r]
    <3>1. /\ playback' \in PlaybackState /\ playback'.phase = playback.phase
          /\ playback'.position = playback.position /\ playback'.reciter = playback.reciter
        BY <1>0, <2>2, <2>5 DEF PlaybackState
    <3> QED
        BY <1>0, <1>1, <2>5, <3>1, SamePlaceInv DEF SamePlace, PlaybackTypeOK
  <2> QED
      BY <2>1, <2>3, <2>4, <2>5
<1> QED
    BY <1>3, <1>4, <1>5, <1>6, <1>7, <1>8, <1>9 DEF ReaderAsksToPlay

LEMMA PlaybackNextInv ==
    ASSUME PlaybackInv, [PlaybackNext]_playbackVars
    PROVE  PlaybackInv'
<1>1. CASE UNCHANGED playbackVars
  <2>1. PlaybackTypeOK'
      BY <1>1 DEF playbackVars, PlaybackInv, PlaybackTypeOK
  <2> QED
      BY <1>1, <2>1, SamePlaceInv DEF playbackVars, SamePlace
<1> QED
    BY <1>1, TapsInv, FetchedInv, LoadsInv, LoadFailsInv, RetryPlaysInv, RepeatEndsInv,
       HandleReportInv, RecitesInv, OutsideInv
    DEF PlaybackNext

(* However loads, seeks, repeats, tries, taps and late reports of the    *)
(* player interleave (engine.ts), what is heard while the app shows an     *)
(* ayah playing is the file of its reciter and surah, and once the player  *)
(* was seen in that ayah it is there or at its end: for any number of      *)
(* surahs, ayahs and reciters.                                             *)
THEOREM ShownIsHeard == PlaybackSpec => []AyahShownIsHeard
<1>1. PlaybackInv => AyahShownIsHeard
  <2>1. SUFFICES ASSUME PlaybackInv, Sounding, ~control.repeating
                 PROVE  /\ player.file = <<playback.reciter, playback.position.surah>>
                        /\ control.armed => player.at - playback.position.ayah \in {0, 1}
      BY DEF AyahShownIsHeard, Sounding
  <2>2. <<playback.reciter, playback.position.surah>> # NoFile
      BY <2>1, PlaybackAssumption DEF PlaybackInv, FileInv, Positions, NoFile
  <2> QED
      BY <2>1, <2>2 DEF PlaybackInv, FileInv, PlaceInv
<1>2. PlaybackInv /\ [PlaybackNext]_playbackVars => PlaybackInv'
    BY PlaybackNextInv
<1> QED
    BY <1>1, <1>2, PlaybackInitInv, PTL DEF PlaybackSpec

-----------------------------------------------------------------------------
(* A pause that is shown holds. What is shown says whether the engine wants *)
(* to play, except after an end or an error.                               *)
PauseIsMeant ==
    /\ playback.phase = "paused" => ~control.wantPlaying
    /\ playback.phase \in {"playing", "loading"} => control.wantPlaying

LEMMA PhaseTypes ==
    ASSUME PlaybackInv
    PROVE  /\ playback \in PlaybackState /\ control \in EngineState
           /\ told \in PlayerReport /\ control.wantPlaying \in BOOLEAN
    BY DEF PlaybackInv, PlaybackTypeOK, EngineState

(* Whoever goes to an ayah wants to play it. *)
LEMMA GoMeans ==
    ASSUME PlaybackInv, NEW wanted, NEW p, NEW tries, NEW shown \in PlaybackState,
           GoWith(wanted, p, TRUE, tries, shown)
    PROVE  playback'.phase \in {"loading", "error"} /\ control'.wantPlaying = TRUE
    BY PhaseTypes DEF GoWith, Transition, PlaybackState, EngineState

LEMMA StopMeans ==
    ASSUME PlaybackInv, Stop
    PROVE  playback'.phase = "idle" /\ control'.wantPlaying = FALSE
    BY PhaseTypes DEF Stop, IdleState, EngineState

LEMMA PauseMeans ==
    ASSUME PlaybackInv, Pause
    PROVE  /\ control'.wantPlaying = FALSE
           /\ playback'.phase = IF PauseShown THEN "paused" ELSE playback.phase
    BY PhaseTypes DEF Pause, PauseShown, PlaybackState, EngineState

LEMMA FailMeans ==
    ASSUME PlaybackInv, NEW k, NEW reciter, NEW file, Fail(k, reciter, file)
    PROVE  playback'.phase = "error" /\ control'.wantPlaying = control.wantPlaying
    BY PhaseTypes DEF Fail, PlaybackState, EngineState

LEMMA AdvanceMeans ==
    ASSUME PlaybackInv, Advance
    PROVE  \/ playback'.phase = "ended" /\ control'.wantPlaying = FALSE
           \/ playback'.phase = playback.phase /\ control'.wantPlaying = control.wantPlaying
           \/ playback'.phase \in {"loading", "error"} /\ control'.wantPlaying = TRUE
<1> DEFINE upcoming == FollowingAyah(playback.position)
<1>1. CASE playback.mode = "single"
    BY <1>1, PhaseTypes DEF Advance, PlaybackState, EngineState
<1>2. CASE playback.mode # "single" /\ upcoming = NoPosition
    BY <1>2, PhaseTypes DEF Advance, StopsAtEnd, PlaybackState, EngineState
<1>3. CASE /\ playback.mode # "single" /\ upcoming # NoPosition
           /\ playback.pending = NoReciter /\ upcoming.surah = control.loaded[2]
  <2>1. /\ playback' = [playback EXCEPT !.position = upcoming]
        /\ control' = [control EXCEPT !.recited = 0, !.repeating = FALSE]
      BY <1>3 DEF Advance
  <2> QED
      BY <2>1, PhaseTypes DEF PlaybackState, EngineState
<1>4. CASE /\ playback.mode # "single" /\ upcoming # NoPosition
           /\ ~(playback.pending = NoReciter /\ upcoming.surah = control.loaded[2])
  <2>1. GoWith(AskedReciter, upcoming, TRUE, control.retries, playback)
      BY <1>4 DEF Advance, Go
  <2> QED
      BY <2>1, PhaseTypes, GoMeans
<1> QED
    BY <1>1, <1>2, <1>3, <1>4

(* How a report changes what is shown and wanted. *)
LEMMA ReportMeans ==
    ASSUME PlaybackInv, PauseIsMeant, HandleReport
    PROVE  /\ PauseIsMeant'
           /\ control'.wantPlaying /\ ~control.wantPlaying =>
                 told.playing /\ playback.phase = "paused"
<1> USE PhaseTypes
<1>1. PICK near \in BOOLEAN : OnStatus(near)
    BY DEF HandleReport
<1>2. CASE UNCHANGED <<playback, control, player>>
    BY <1>2 DEF PauseIsMeant
<1>3. CASE Stop
    BY <1>3, StopMeans DEF PauseIsMeant
<1>4. CASE Pause
    BY <1>4, PauseMeans DEF PauseIsMeant, PauseShown
<1>5. CASE UNCHANGED playback /\ control' = [control EXCEPT !.commanded = TRUE]
  <2>1. control'.wantPlaying = control.wantPlaying
      BY <1>5 DEF EngineState
  <2> QED
      BY <1>5, <2>1 DEF PauseIsMeant
<1>6. ASSUME NEW k, Fail(k, control.loaded[1], NoFile)
      PROVE  PauseIsMeant' /\ (control'.wantPlaying => control.wantPlaying)
    BY <1>6, FailMeans DEF PauseIsMeant
<1>7. CASE playback.phase = "playing" /\ OnAyahEnd
  <2>1. control.wantPlaying
      BY <1>7 DEF PauseIsMeant
  <2>2. CASE Advance
      BY <1>7, <2>1, <2>2, AdvanceMeans DEF PauseIsMeant
  <2>3. CASE Go(playback.pending, playback.position, TRUE)
      BY <2>1, <2>3, GoMeans DEF Go, PauseIsMeant
  <2>4. CASE /\ UNCHANGED playback
             /\ control' = [control EXCEPT !.recited = 1, !.repeating = TRUE, !.armed = FALSE,
                                           !.commanded = TRUE]
    <3>1. control'.wantPlaying = control.wantPlaying
        BY <2>4 DEF EngineState
    <3> QED
        BY <2>1, <2>4, <3>1 DEF PauseIsMeant
  <2> QED
      BY <1>7, <2>2, <2>3, <2>4 DEF OnAyahEnd
<1>8. CASE FollowsDevice
  <2>1. \/ playback'.phase = "paused" /\ control'.wantPlaying = FALSE
        \/ /\ playback.phase = "paused" /\ told.playing
           /\ playback'.phase = "playing" /\ control'.wantPlaying = TRUE
        \/ playback' = playback /\ control'.wantPlaying = control.wantPlaying
      BY <1>8 DEF FollowsDevice, PlaybackState, EngineState
  <2> QED
      BY <2>1 DEF PauseIsMeant
<1> QED
    BY <1>1, <1>2, <1>3, <1>4, <1>5, <1>6, <1>7, <1>8 DEF OnStatus

(* The reader's buttons. *)
LEMMA TapsMean ==
    ASSUME PlaybackInv, PauseIsMeant,
           ReaderAsksToPlay \/ TapPause \/ TapStop \/ TapRepeat
    PROVE  PauseIsMeant' /\ (~ReaderAsksToPlay /\ control'.wantPlaying => control.wantPlaying)
<1> USE PhaseTypes
<1>1. ASSUME NEW wanted, NEW p, NEW tries, NEW shown \in PlaybackState,
             GoWith(wanted, p, TRUE, tries, shown)
      PROVE  PauseIsMeant'
    BY <1>1, GoMeans DEF PauseIsMeant
<1>2. CASE TapStart
  <2>1. PICK r \in Reciters, p \in Starts, m \in {"continuous", "single"} :
           GoWith(r, [surah |-> p[1], ayah |-> p[2]], TRUE, 0, [playback EXCEPT !.mode = m])
      BY <1>2 DEF TapStart
  <2>2. [playback EXCEPT !.mode = m] \in PlaybackState
      BY DEF PlaybackState
  <2> QED
      BY <1>1, <1>2, <2>1, <2>2 DEF ReaderAsksToPlay
<1>3. CASE TapResume
  <2>1. CASE GoWith(AskedReciter, playback.position, TRUE, 0, playback)
      BY <1>1, <1>3, <2>1 DEF ReaderAsksToPlay
  <2>2. CASE playback'.phase \in {"loading", "playing"} /\ control'.wantPlaying = TRUE
      BY <1>3, <2>2 DEF PauseIsMeant, ReaderAsksToPlay
  <2> QED
      BY <1>3, <2>1, <2>2 DEF TapResume, PlaybackState, EngineState
<1>4. CASE TapSkip
    BY <1>1, <1>4 DEF TapSkip, ReaderAsksToPlay
<1>5. CASE TapReciter
  <2>1. PICK r \in Reciters :
           \/ GoWith(r, playback.position, TRUE, 0, [playback EXCEPT !.pending = NoReciter])
           \/ control' = control /\ playback' = [playback EXCEPT !.reciter = r, !.preferred = r,
                                                                 !.pending = NoReciter]
           \/ control' = control /\ playback' = [playback EXCEPT !.preferred = r, !.pending = NoReciter]
           \/ control' = control /\ playback' = [playback EXCEPT !.pending = r]
      BY <1>5, Zenon DEF TapReciter
  <2>2. [playback EXCEPT !.pending = NoReciter] \in PlaybackState
      BY DEF PlaybackState, Voices
  <2>3. CASE control' = control /\ playback'.phase = playback.phase
      BY <1>5, <2>3 DEF PauseIsMeant, ReaderAsksToPlay
  <2> QED
      BY <1>1, <1>5, <2>1, <2>2, <2>3 DEF PlaybackState, ReaderAsksToPlay
<1>6. CASE TapPause
    BY <1>6, PauseMeans DEF TapPause, PauseIsMeant, PauseShown
<1>7. CASE TapStop
    BY <1>7, StopMeans DEF TapStop, PauseIsMeant
<1>8. CASE TapRepeat
    BY <1>8 DEF TapRepeat, PauseIsMeant, PlaybackState
<1> QED
    BY <1>2, <1>3, <1>4, <1>5, <1>6, <1>7, <1>8 DEF ReaderAsksToPlay

(* How each other step changes what is shown and wanted. *)
LEMMA PhaseSteps ==
    ASSUME PlaybackInv, PauseIsMeant, [PlaybackNext]_playbackVars
    PROVE  /\ PauseIsMeant'
           /\ control'.wantPlaying /\ ~control.wantPlaying =>
                 \/ ReaderAsksToPlay
                 \/ HandleReport /\ told.playing /\ playback.phase = "paused"
                 \/ RepeatFails /\ playback.phase = "paused"
                 \/ RetryPlays /\ playback.phase = "error" /\ playback.error = "network"
<1> USE PhaseTypes
<1>1. CASE ReaderAsksToPlay \/ TapPause \/ TapStop \/ TapRepeat
    BY <1>1, TapsMean
<1>2. CASE HandleReport
    BY <1>2, ReportMeans
<1>3. CASE playback' = playback /\ control'.wantPlaying = control.wantPlaying
    BY <1>3 DEF PauseIsMeant
<1>4. CASE Fetched \/ RepeatLands \/ GracePasses
    BY <1>3, <1>4 DEF Fetched, RepeatLands, GracePasses, EngineState
<1>5. CASE Loads
  <2>1. /\ control'.wantPlaying = control.wantPlaying
        /\ playback'.phase = IF control.wantPlaying THEN "playing" ELSE "paused"
      BY <1>5 DEF Loads, LoadedAt, PlaybackState, EngineState
  <2> QED
      BY <2>1 DEF PauseIsMeant
<1>6. CASE LoadFails
    BY <1>6, FailMeans DEF LoadFails, PauseIsMeant
<1>7. CASE RetryPlays
  <2>1. CASE playback.phase = "error" /\ playback.error = "network"
    <3>1. playback'.phase \in {"loading", "error"} /\ control'.wantPlaying = TRUE
      <4>1. Transition(control.retryFor, playback.position, TRUE, control.retries, playback)
          BY <1>7, <2>1 DEF RetryPlays
      <4>2. playback'.phase \in {"loading", "error"}
          BY <4>1 DEF Transition, PlaybackState
      <4>3. control'.wantPlaying = TRUE
          BY <4>1 DEF Transition, EngineState
      <4> QED
          BY <4>2, <4>3
    <3> QED
        BY <1>7, <2>1, <3>1 DEF PauseIsMeant
  <2>2. CASE ~(playback.phase = "error" /\ playback.error = "network")
      BY <1>3, <1>7, <2>2 DEF RetryPlays, EngineState
  <2> QED
      BY <2>1, <2>2
<1>8. CASE RepeatFails
  <2>1. Advance /\ control.repeating
      BY <1>8 DEF RepeatFails
  <2>2. playback.phase \in {"playing", "paused", "idle"} /\ playback.phase # "idle"
      BY <1>8, <2>1 DEF PlaybackInv, RepeatInv, RepeatFails
  <2> QED
      BY <1>8, <2>1, <2>2, AdvanceMeans DEF PauseIsMeant
<1>9. CASE \/ PlayerReports \/ Recites \/ PlaysOutside \/ PausesOutside \/ Breaks
           \/ UNCHANGED playbackVars
    BY <1>3, <1>9 DEF PlayerReports, Recites, PlaysOutside, PausesOutside, Breaks, playbackVars
<1> QED
    BY <1>1, <1>2, <1>4, <1>5, <1>6, <1>7, <1>8, <1>9 DEF PlaybackNext

(* What is shown as paused plays again only by the reader, the device's own *)
(* play button or a repeat whose seek fails (advance, engine.ts); a pause   *)
(* while an ayah loads is forgotten only after the error of that load was   *)
(* shown (fail and its timer).                                              *)
THEOREM ShownPauseHolds == PlaybackSpec => PausedUntilShown
<1>1. PlaybackInit => PauseIsMeant
    BY DEF PlaybackInit, IdleState, PauseIsMeant
<1>2. PlaybackInv /\ [PlaybackNext]_playbackVars => PlaybackInv'
    BY PlaybackNextInv
<1>3. PlaybackInv /\ PauseIsMeant /\ [PlaybackNext]_playbackVars => PauseIsMeant'
    BY PhaseSteps
<1>4. ASSUME PlaybackInv, PauseIsMeant, [PlaybackNext]_playbackVars
      PROVE  control'.wantPlaying /\ ~control.wantPlaying =>
                 \/ ReaderAsksToPlay
                 \/ HandleReport /\ told.playing /\ playback.phase = "paused"
                 \/ RepeatFails /\ playback.phase = "paused"
                 \/ RetryPlays /\ playback.phase = "error" /\ playback.error = "network"
    BY <1>4, PhaseSteps
<1> QED
    BY <1>1, <1>2, <1>3, <1>4, PlaybackInitInv, PTL DEF PlaybackSpec, PausedUntilShown
=============================================================================

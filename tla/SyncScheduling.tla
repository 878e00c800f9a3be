---------------------------- MODULE SyncScheduling ----------------------------
(***************************************************************************)
(* When the app runs a full sync (mobile/src/auth/useAuth.tsx,             *)
(* runSyncAfterSignIn and its callers): one at a time, one more after it   *)
(* for a change made meanwhile, a bounded series of retries after a sync   *)
(* that failed or was incomplete, and never for a session that has ended.  *)
(***************************************************************************)
EXTENDS Integers

CONSTANTS
    MaxRetries,   \* SYNC_RETRY_DELAYS_MS.length
    MaxSessions,  \* bound on sign-ins and sign-outs
    SyncEvents    \* bound on what the user, the app and its data do

ASSUME SchedulingAssumption ==
    MaxRetries \in Nat /\ MaxSessions \in Nat /\ SyncEvents \in Nat

VARIABLES
    session,    \* the auth epoch
    authorized,
    onScreen,   \* AppState active
    recent,     \* a sync started within FOREGROUND_RESYNC_THROTTLE_MS
    inFlight,   \* syncInFlightRef: the epoch of the sync in progress
    running,    \* how many syncs of each epoch are in progress
    waiting,    \* how many calls of each epoch await an earlier epoch's sync
    again,      \* syncAgainForEpochRef
    retryDue,   \* retryTimerRef
    retries,    \* retryAttemptRef
    unsent,     \* a change made since the last sync of this session started
    happened    \* events so far

syncVars == <<session, authorized, onScreen, recent, inFlight, running, waiting, again,
              retryDue, retries, unsent, happened>>

Sessions == 1..MaxSessions
NoSession == 0

SyncTypeOK ==
    /\ session \in 0..MaxSessions
    /\ inFlight \in 0..MaxSessions /\ again \in 0..MaxSessions
    /\ running \in [Sessions -> Nat] /\ waiting \in [Sessions -> Nat]
    /\ retries \in 0..MaxRetries /\ happened \in 0..SyncEvents
    /\ authorized \in BOOLEAN /\ onScreen \in BOOLEAN /\ recent \in BOOLEAN
    /\ retryDue \in BOOLEAN /\ unsent \in BOOLEAN

SyncInit ==
    /\ session = NoSession /\ authorized = FALSE /\ onScreen = TRUE /\ recent = FALSE
    /\ inFlight = NoSession /\ again = NoSession
    /\ running = [s \in Sessions |-> 0] /\ waiting = [s \in Sessions |-> 0]
    /\ retryDue = FALSE /\ retries = 0 /\ unsent = FALSE /\ happened = 0

Event == happened < SyncEvents /\ happened' = happened + 1

-----------------------------------------------------------------------------
Start(s) ==
    /\ inFlight' = s /\ running' = [running EXCEPT ![s] = @ + 1]
    /\ recent' = TRUE

(* Mutant: a change during a sync is left to that sync. *)
AgainForNone(trigger) == again

(* During a sync of the session only a local change has an effect: one     *)
(* more sync after it.                                                     *)
AgainFor(trigger) == IF trigger = "local-change" THEN session ELSE again

(* runSyncAfterSignIn up to its first await, for the current session.      *)
Request(trigger) ==
    /\ \/ /\ inFlight = NoSession
          /\ Start(session) /\ UNCHANGED <<waiting, again>>
       \/ /\ inFlight = session
          /\ again' = AgainFor(trigger)
          /\ UNCHANGED <<inFlight, running, recent, waiting>>
       \/ /\ inFlight \notin {NoSession, session}
          /\ waiting' = [waiting EXCEPT ![session] = @ + 1]
          /\ UNCHANGED <<inFlight, running, recent, again>>
    /\ unsent' = (inFlight # NoSession /\ (unsent \/ trigger = "local-change"))

NoRequest == UNCHANGED <<inFlight, running, recent, waiting, again, unsent>>

(* A reflection saved or deleted here, a pull, a screen's focus.  A pull   *)
(* starts the retries again.                                               *)
CallSync(trigger) ==
    /\ authorized /\ Event
    /\ Request(trigger)
    /\ retries' = IF trigger = "pull" THEN 0 ELSE retries
    /\ UNCHANGED <<session, authorized, onScreen, retryDue>>

(* Mutant: a retry counts as a return. *)
RetriesStartAgain == 0

RetriesGoOn == retries

RetryTimerFires ==
    /\ retryDue /\ retryDue' = FALSE
    /\ retries' = RetriesGoOn
    /\ IF authorized THEN Request("retry") ELSE NoRequest
    /\ UNCHANGED <<session, authorized, onScreen, happened>>

ScheduleSyncRetry ==
    IF retryDue \/ ~onScreen \/ retries >= MaxRetries
    THEN UNCHANGED <<retryDue, retries>>
    ELSE retryDue' = TRUE /\ retries' = retries + 1

-----------------------------------------------------------------------------
(* Mutant: a call that waited does not look again whether one is running.  *)
WokenAll(s) == waiting[s]

(* The calls that waited: the first of the current session starts, the     *)
(* next ones find its sync in flight.                                      *)
Woken(s) == IF waiting[s] > 0 THEN 1 ELSE 0

(* A sync of session s ends.  Only the current session's outcome counts,   *)
(* and not that of a sync that knew no owner and did nothing; it goes on   *)
(* at once if a change was made meanwhile.                                 *)
Outcomes == {"complete", "incomplete", "nothing"}

AfterSync(s, outcome) ==
    IF s # session \/ outcome = "nothing" THEN UNCHANGED <<retryDue, retries>>
    ELSE IF outcome = "complete" THEN retries' = 0 /\ UNCHANGED retryDue
    ELSE ScheduleSyncRetry

Continues(s) ==
    /\ again = s /\ s = session /\ again' = NoSession
    /\ inFlight' = s /\ recent' = TRUE /\ unsent' = FALSE
    /\ UNCHANGED <<running, waiting>>

Stops(s) ==
    /\ again # s \/ s # session
    /\ LET next == IF session \in Sessions THEN Woken(session) ELSE 0
           left == [running EXCEPT ![s] = @ - 1]
       IN /\ inFlight' = IF next > 0 THEN session ELSE NoSession
          /\ running' = IF next > 0 THEN [left EXCEPT ![session] = @ + next] ELSE left
          /\ recent' = (recent \/ next > 0)
          /\ unsent' = (unsent /\ next = 0)
    /\ waiting' = [w \in Sessions |-> 0]
    /\ UNCHANGED again

SyncEnds(s) ==
    /\ running[s] > 0
    /\ \E outcome \in Outcomes : AfterSync(s, outcome)
    /\ Continues(s) \/ Stops(s)
    /\ UNCHANGED <<session, authorized, onScreen, happened>>

(* A reading-only sync that fails asks for a retry of the whole sync.      *)
ReadingSyncFails ==
    /\ authorized /\ Event /\ ScheduleSyncRetry
    /\ UNCHANGED <<session, authorized, onScreen, recent, inFlight, running, waiting,
                   again, unsent>>

-----------------------------------------------------------------------------
NewSession ==
    /\ session < MaxSessions /\ session' = session + 1
    /\ retryDue' = FALSE /\ retries' = 0
    /\ UNCHANGED <<onScreen, again, happened>>

SignIn ==
    /\ ~authorized /\ authorized' = TRUE /\ NewSession
    /\ IF inFlight = NoSession
       THEN Start(session + 1) /\ unsent' = FALSE /\ UNCHANGED waiting
       ELSE /\ waiting' = [waiting EXCEPT ![session + 1] = @ + 1]
            /\ unsent' = FALSE /\ UNCHANGED <<inFlight, running, recent>>

SignOut ==
    /\ authorized /\ authorized' = FALSE /\ NewSession
    /\ unsent' = FALSE
    /\ UNCHANGED <<inFlight, running, recent, waiting>>

(* No retry in the background; coming back, the listener calls for a       *)
(* "foreground" sync unless one started a moment ago.                      *)
LeavesScreen ==
    /\ onScreen /\ onScreen' = FALSE /\ retryDue' = FALSE
    /\ UNCHANGED <<session, authorized, recent, inFlight, running, waiting, again, retries,
                   unsent, happened>>

ReturnsToScreen ==
    /\ ~onScreen /\ onScreen' = TRUE /\ Event
    /\ IF authorized /\ ~recent
       THEN Request("foreground") /\ retries' = 0
       ELSE NoRequest /\ UNCHANGED retries
    /\ UNCHANGED <<session, authorized, retryDue>>

ThrottlePasses ==
    /\ recent /\ recent' = FALSE
    /\ UNCHANGED <<session, authorized, onScreen, inFlight, running, waiting, again,
                   retryDue, retries, unsent, happened>>

SyncNext ==
    \/ SignIn \/ SignOut
    \/ \E trigger \in {"local-change", "pull", "focus"} : CallSync(trigger)
    \/ RetryTimerFires \/ ReadingSyncFails
    \/ \E s \in Sessions : SyncEnds(s)
    \/ LeavesScreen \/ ReturnsToScreen \/ ThrottlePasses

SchedulingSpec == SyncInit /\ [][SyncNext]_syncVars

-----------------------------------------------------------------------------
(* Never two full syncs at once, whichever sessions they are for.          *)
SyncsOneAtATime ==
    \A s, t \in Sessions : running[s] > 0 /\ running[t] > 0 => s = t /\ running[s] = 1

(* A change made while a sync runs is not left behind: that sync is        *)
(* followed by another one of the session.                                 *)
ChangeIsPickedUp ==
    unsent => \/ inFlight = session /\ again = session
              \/ inFlight # NoSession /\ waiting[session] > 0

(* The retries come to an end by themselves. *)
RetriesEnd == <>[](~retryDue /\ inFlight = NoSession)

(* How many ends of syncs and retry timers can follow at most if nobody    *)
(* asks for a sync any more: those of a sync whose retries are x...        *)
Series(x) == 1 + 2 * (MaxRetries - x)

(* ...or, as a complete sync forgets the retries made and not the one due, *)
(* those of a series from the start.                                       *)
StepsLeft ==
    LET due(n, m) == IF retryDue THEN n ELSE m IN
    IF inFlight = NoSession THEN due(1 + Series(retries), 0)
    ELSE IF inFlight # session
    THEN IF waiting[session] > 0 THEN due(3 + Series(0), 1 + Series(retries))
                                 ELSE due(2 + Series(retries), 1)
    ELSE IF again = session THEN due(4, 3) + Series(0)
                            ELSE due(2 + Series(0), Series(retries))

(* The retries run out by number: without a new event or sign-in every end *)
(* of a sync and every retry leaves fewer to come, and no step makes them  *)
(* more (retryAttemptRef is forgotten by every complete sync).             *)
RetriesRunOut ==
    [][happened' = happened /\ session' = session =>
         /\ StepsLeft' <= StepsLeft
         /\ RetryTimerFires \/ (\E s \in Sessions : SyncEnds(s)) => StepsLeft' < StepsLeft]_syncVars
===============================================================================

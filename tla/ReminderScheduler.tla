--------------------------- MODULE ReminderScheduler ---------------------------
(***************************************************************************)
(* The reminders registered with the system (mobile/src/notifications/     *)
(* scheduler.ts, called by useNotifications.tsx): a run compares what      *)
(* should be pending with what is and changes the difference, kind after   *)
(* kind, each call an await.  Runs come one at a time; requests during a   *)
(* run make one more run, for what was asked last.                         *)
(*                                                                         *)
(* A reminder is its slot (identifier and time) and what it says; the Wird *)
(* reminder says the wird of whoever's data is shown.  Dated runs, the     *)
(* random ayah and the language are alike for these rules.                 *)
(***************************************************************************)
EXTENDS Naturals

CONSTANTS
    Slots,         \* the identifiers a kind of reminder may use
    ReminderEvents \* bound on changes, permission changes and failures

ASSUME ReminderAssumption == ReminderEvents \in Nat

VARIABLES
    times,      \* the saved settings: the slots of each kind, none when it is off
    shownWird,  \* the wird the reminder should name: unknown at launch
    allowed,    \* the system's permission
    pendings,   \* what is registered with the system
    asked,      \* latest: the settings last passed to reconcile
    turn,       \* the run in progress
    queued,     \* one more run is wanted after it
    unnoticed,  \* the permission changed outside the app since it was last opened
    faulty,     \* history: a call of the last run failed
    eventsLeft

reminderVars == <<times, shownWird, allowed, pendings, asked, turn, queued, unnoticed,
                  faulty, eventsLeft>>

Kinds == {"wird", "checkin"}
Wirds == {"none", "p", "q"}
Settings == [Kinds -> SUBSET Slots]
Reminder == [slot : Slots, says : Wirds \cup {"fixed"}]
Turn == [step : {"none", "permission", "list", "wird", "kind"}, times : Settings,
         allowed : BOOLEAN, seen : [Kinds -> SUBSET Reminder],
         kind : Kinds, cancel : SUBSET Reminder, add : SUBSET Reminder]

ReminderTypeOK ==
    /\ times \in Settings /\ asked \in Settings
    /\ shownWird \in Wirds \cup {"unknown"}
    /\ {allowed, queued, unnoticed, faulty} \subseteq BOOLEAN
    /\ pendings \in [Kinds -> SUBSET Reminder]
    /\ turn \in Turn /\ eventsLeft \in 0..ReminderEvents

NoReminders == [k \in Kinds |-> {}]
NoTurn == [step |-> "none", times |-> NoReminders, allowed |-> FALSE, seen |-> NoReminders,
           kind |-> "wird", cancel |-> {}, add |-> {}]

\* run() up to its first await.
Begun(inputs) == [NoTurn EXCEPT !.step = "permission", !.times = inputs]

Saying(wird, k, slots) ==
    {[slot |-> s, says |-> IF k = "wird" THEN wird ELSE "fixed"] : s \in slots}

\* A launch: what an earlier one registered, perhaps for other settings, is still there.
ReminderInit ==
    /\ times \in Settings /\ asked = times
    /\ shownWird = "unknown" /\ allowed = TRUE
    /\ pendings = [k \in Kinds |-> Saying("p", k, {s \in Slots : s = 1})]
    /\ turn = Begun(times) /\ queued = FALSE
    /\ unnoticed = FALSE /\ faulty = FALSE /\ eventsLeft = ReminderEvents

SomethingHappens == eventsLeft > 0 /\ eventsLeft' = eventsLeft - 1

-----------------------------------------------------------------------------
(* Requests.                                                               *)

\* A request during a run; in a first form it waits with the settings it came with.
QueuedAsGiven(inputs) == asked' = (IF queued THEN asked ELSE inputs) /\ queued' = TRUE
QueuedForLatest(inputs) == asked' = inputs /\ queued' = TRUE

Reconcile(inputs) ==
    IF turn.step = "none"
    THEN asked' = inputs /\ turn' = Begun(inputs) /\ faulty' = FALSE /\ UNCHANGED queued
    ELSE QueuedForLatest(inputs) /\ UNCHANGED <<turn, faulty>>

\* update, applySynced.
ReminderChanges(k, slots) ==
    /\ SomethingHappens /\ slots # times[k]
    /\ times' = [times EXCEPT ![k] = slots]
    /\ Reconcile(times')
    /\ UNCHANGED <<shownWird, allowed, pendings, unnoticed>>

\* The reading data or its owner changed.
WirdChanges(wird) ==
    /\ SomethingHappens /\ wird # shownWird
    /\ shownWird' = wird
    /\ Reconcile(times)
    /\ UNCHANGED <<times, allowed, pendings, unnoticed>>

\* In the system's settings; the app learns of it when it is opened again.
PermissionChanges ==
    /\ SomethingHappens
    /\ allowed' = ~allowed /\ unnoticed' = TRUE
    /\ UNCHANGED <<times, shownWird, pendings, asked, turn, queued, faulty>>

\* A return for which a run would find something to do.
ReturnsToApp ==
    /\ unnoticed \/ faulty
    /\ unnoticed' = FALSE
    /\ Reconcile(times)
    /\ UNCHANGED <<times, shownWird, allowed, pendings, eventsLeft>>

-----------------------------------------------------------------------------
(* A run.                                                                  *)

\* It ends, and the queued one begins with what was asked last.
TurnEnds(failed) ==
    /\ turn' = IF queued THEN Begun(asked) ELSE NoTurn
    /\ faulty' = (failed /\ ~queued)
    /\ queued' = FALSE

\* reconcileKind: what to cancel and to add.  While it is not known whose wird it is, a
\* Wird reminder already there stays as it is.
KindTurn(k, wird) ==
    LET copy == IF wird = "unknown" THEN "none" ELSE wird
        want == IF turn.allowed THEN Saying(copy, k, turn.times[k]) ELSE {}
        stays == k = "wird" /\ wird = "unknown" /\ want # {} /\ turn.seen[k] # {}
    IN  [turn EXCEPT !.step = "kind", !.kind = k,
                     !.cancel = IF stays THEN {} ELSE turn.seen[k] \ want,
                     !.add = IF stays THEN {} ELSE want \ turn.seen[k]]

RunGoesOn == UNCHANGED <<times, shownWird, allowed, asked, unnoticed>>

ReadsPermission ==
    /\ turn.step = "permission"
    /\ turn' = [turn EXCEPT !.step = "list", !.allowed = allowed]
    /\ RunGoesOn /\ UNCHANGED <<pendings, queued, faulty, eventsLeft>>

ReadsPending ==
    /\ turn.step = "list"
    /\ turn' = [turn EXCEPT !.step = "wird", !.seen = pendings]
    /\ RunGoesOn /\ UNCHANGED <<pendings, queued, faulty, eventsLeft>>

\* wirdTarget(), for a reminder that is wanted; a failed read gives the generic copy.
ReadsWird ==
    /\ turn.step = "wird"
    /\ \/ turn' = KindTurn("wird", shownWird) /\ UNCHANGED <<faulty, eventsLeft>>
       \/ /\ turn.allowed /\ turn.times["wird"] # {}
          /\ SomethingHappens /\ faulty' = TRUE /\ turn' = KindTurn("wird", "none")
    /\ RunGoesOn /\ UNCHANGED <<pendings, queued>>

\* A failed call ends the run (the permission, the list), or this kind's part of it (a
\* cancellation), or is passed over (a reminder that cannot be added).
CallFails ==
    /\ SomethingHappens /\ turn.step \in {"permission", "list", "kind"}
    /\ IF turn.step # "kind" THEN TurnEnds(TRUE)
       ELSE /\ faulty' = TRUE /\ UNCHANGED queued
            /\ \/ turn.cancel # {} /\ turn' = [turn EXCEPT !.cancel = {}, !.add = {}]
               \/ /\ turn.cancel = {}
                  /\ \E r \in turn.add : turn' = [turn EXCEPT !.add = @ \ {r}]
    /\ RunGoesOn /\ UNCHANGED pendings

\* Cancellations come first; a reminder added replaces one of the same slot.
CancelsOne ==
    /\ turn.step = "kind"
    /\ \E r \in turn.cancel :
          /\ pendings' = [pendings EXCEPT ![turn.kind] = {p \in @ : p.slot # r.slot}]
          /\ turn' = [turn EXCEPT !.cancel = @ \ {r}]
    /\ RunGoesOn /\ UNCHANGED <<queued, faulty, eventsLeft>>

AddsOne ==
    /\ turn.step = "kind" /\ turn.cancel = {}
    /\ \E r \in turn.add :
          /\ pendings' = [pendings EXCEPT ![turn.kind] = {p \in @ : p.slot # r.slot} \cup {r}]
          /\ turn' = [turn EXCEPT !.add = @ \ {r}]
    /\ RunGoesOn /\ UNCHANGED <<queued, faulty, eventsLeft>>

KindDone ==
    /\ turn.step = "kind" /\ turn.cancel = {} /\ turn.add = {}
    /\ IF turn.kind = "wird" THEN turn' = KindTurn("checkin", "none") /\ UNCHANGED <<queued, faulty>>
       ELSE TurnEnds(faulty)
    /\ RunGoesOn /\ UNCHANGED <<pendings, eventsLeft>>

ReminderNext ==
    \/ \E k \in Kinds, slots \in SUBSET Slots : ReminderChanges(k, slots)
    \/ \E wird \in Wirds : WirdChanges(wird)
    \/ PermissionChanges \/ ReturnsToApp
    \/ ReadsPermission \/ ReadsPending \/ ReadsWird \/ CallFails
    \/ CancelsOne \/ AddsOne \/ KindDone

ReminderSpec == ReminderInit /\ [][ReminderNext]_reminderVars

-----------------------------------------------------------------------------
(* Property.                                                               *)

\* "Calls are serialized ... requests arriving meanwhile are merged into one more run"
\* (scheduler.ts): once runs have ended without a failure, what is registered is what the
\* settings, the permission last noticed and the wird shown ask for.
RemindersFollow ==
    turn.step = "none" /\ ~faulty /\ ~unnoticed =>
        \A k \in Kinds :
            LET slots == IF allowed THEN times[k] ELSE {} IN
            IF k = "wird" /\ shownWird = "unknown" THEN (pendings[k] = {}) = (slots = {})
            ELSE pendings[k] = Saying(shownWird, k, slots)
=============================================================================

----------------------------- MODULE AutoDownload -----------------------------
(***************************************************************************)
(* When the offline Mushaf is downloaded (mobile/src/mushaf/offline/       *)
(* autoDownload.ts), on the engine that runs one download, update or       *)
(* removal at a time (offlineMushaf.ts, exclusive).                        *)
(*                                                                         *)
(* evaluate() re-decides what to do after every event: one decision at a   *)
(* time, with two awaits in it (the engine's status, the network), and     *)
(* once more if it was asked for meanwhile.  The connection, the app's     *)
(* activity, the reader's buttons and the end of a run come in between.    *)
(***************************************************************************)
EXTENDS Integers

CONSTANT Retries  \* RETRY_DELAYS_MS.length

ASSUME AutoAssumption == Retries \in Nat

VARIABLES
    phase,        \* what the screens show
    hold,         \* the reader's remembered Pause or Remove
    byReader,     \* manualRequested
    foreground,   \* active
    connected,    \* whether there is a network
    known,        \* what the controller last heard of it: state.network
    complete,     \* the engine's status: installed, with every font
    engine,       \* what the engine is busy with
    run,          \* the controller's run: none, going, or being stopped
    updating,     \* the controller waits for the update check it asked for
    deciding,     \* evaluating: which await evaluateOnce is at
    decideAgain,  \* evaluateAgain
    attempts, retryTimer, stalled,
    updateChecked,
    call          \* the reader's action under way

autoVars == <<phase, hold, byReader, foreground, connected, known, complete, engine, run,
              updating, deciding, decideAgain, attempts, retryTimer, stalled, updateChecked,
              call>>

AutoTypeOK ==
    /\ phase \in {"starting", "ready", "paused", "removed", "suspended", "failed",
                  "waiting-network", "downloading", "retrying"}
    /\ hold \in {"none", "paused", "removed"}
    /\ known \in {"unknown", "none", "some"}
    /\ engine \in {"free", "download", "update", "removal"}
    /\ run \in {"none", "going", "pause", "background", "remove"}
    /\ deciding \in {"no", "status", "network", "online", "offline"}
    /\ attempts \in 0..Retries
    /\ call \in {"none", "pausing", "resuming", "stopping", "holding", "removing"}
    /\ {byReader, foreground, connected, complete, decideAgain, retryTimer, stalled,
        updateChecked, updating} \subseteq BOOLEAN

AutoInit ==
    /\ phase = "starting" /\ hold \in {"none", "paused", "removed"}
    /\ byReader = FALSE /\ foreground = TRUE
    /\ connected \in BOOLEAN /\ known = "unknown"
    /\ complete \in BOOLEAN /\ engine = "free" /\ run = "none"
    /\ deciding = "status" /\ decideAgain = FALSE
    /\ attempts = 0 /\ retryTimer = FALSE /\ stalled = FALSE
    /\ updateChecked = FALSE /\ updating = FALSE /\ call = "none"

-----------------------------------------------------------------------------
(* evaluateOnce gives up at once while a run or an update is under way; a  *)
(* request during a decision repeats the decision when it has ended.       *)
Entered == IF run' = "none" /\ ~updating' THEN "status" ELSE "no"

(* Mutant: a request during a decision is dropped. *)
EvaluateOnce ==
    /\ deciding' = IF deciding = "no" THEN Entered ELSE deciding
    /\ UNCHANGED decideAgain

Evaluate ==
    /\ deciding' = IF deciding = "no" THEN Entered ELSE deciding
    /\ decideAgain' = (deciding # "no")

Decided ==
    /\ deciding' = IF decideAgain THEN Entered ELSE "no"
    /\ decideAgain' = FALSE

NoDecision == UNCHANGED <<deciding, decideAgain>>
ResetFailures == attempts' = 0 /\ stalled' = FALSE /\ retryTimer' = FALSE
FailuresKept == UNCHANGED <<attempts, stalled, retryTimer>>

Occupied == run # "none" \/ updating

(* The re-checks of a run or update under way never find one: only decisions *)
(* start them.                                                             *)

(* After engine.status(): the update check once a session (it fails at     *)
(* once when the engine is busy), or the reasons not to download by itself.*)
KnowsReady ==
    /\ phase' = "ready" /\ byReader' = FALSE /\ ResetFailures
    /\ updating' = (~updateChecked /\ foreground /\ known # "none")
    /\ updateChecked' = (updateChecked \/ updating')
    /\ engine' = IF updating' /\ engine = "free" THEN "update" ELSE engine
    /\ Decided

KnowsIncomplete ==
    /\ IF hold # "none" /\ ~byReader THEN phase' = hold /\ Decided
       ELSE IF ~foreground THEN phase' = "suspended" /\ Decided
       ELSE UNCHANGED phase /\ IF ~byReader /\ (stalled \/ retryTimer)
                               THEN Decided
                               ELSE deciding' = "network" /\ UNCHANGED decideAgain
    /\ UNCHANGED <<byReader, engine, updateChecked>> /\ FailuresKept

EvaluateStatus ==
    /\ deciding = "status"
    /\ UNCHANGED <<hold, foreground, connected, known, complete, run, call>>
    /\ \/ /\ Occupied
          /\ UNCHANGED <<phase, byReader, engine, updateChecked, updating>>
          /\ Decided /\ FailuresKept
       \/ ~Occupied /\ complete /\ KnowsReady
       \/ ~Occupied /\ ~complete /\ UNCHANGED updating /\ KnowsIncomplete

(* network.current(): its answer may be old when it is used. *)
AnswerNetwork ==
    /\ deciding = "network"
    /\ deciding' = IF connected THEN "online" ELSE "offline"
    /\ UNCHANGED <<phase, hold, byReader, foreground, connected, known, complete, engine, run,
                   updating, decideAgain, attempts, retryTimer, stalled, updateChecked,
                   call>>

Heard(network) == IF network THEN "some" ELSE "none"

(* After it: startRun, unless there is no connection. *)
EvaluateNetwork ==
    /\ deciding \in {"online", "offline"}
    /\ UNCHANGED <<hold, foreground, connected, complete, updating, attempts, stalled,
                   updateChecked, call>>
    /\ known' = IF Occupied THEN known ELSE Heard(deciding = "online")
    /\ IF Occupied THEN UNCHANGED <<phase, run, byReader, engine, retryTimer>>
       ELSE IF deciding = "offline"
       THEN phase' = "waiting-network" /\ UNCHANGED <<run, byReader, engine, retryTimer>>
       ELSE /\ phase' = "downloading" /\ run' = "going"
            /\ byReader' = FALSE /\ retryTimer' = FALSE
            /\ engine' = IF engine = "free" THEN "download" ELSE engine
    /\ Decided

-----------------------------------------------------------------------------
(* The run ends: finish.  A download is complete, was stopped, lacks       *)
(* storage, or fails otherwise (also when the engine was busy).            *)
EngineLeft == engine' = IF engine = "download" THEN "free" ELSE engine

RunCompletes ==
    /\ run # "none" /\ engine = "download"
    /\ complete' = TRUE /\ phase' = "ready" /\ updateChecked' = TRUE
    /\ ResetFailures
    /\ NoDecision

AfterStop == IF run = "background" THEN Evaluate ELSE NoDecision

RunStopped ==
    /\ run \in {"pause", "background", "remove"}
    /\ phase' = IF run = "pause" THEN "paused" ELSE phase
    /\ AfterStop
    /\ UNCHANGED <<complete, updateChecked>> /\ FailuresKept

(* Mutant: the attempts are not counted. *)
StallsOnStorage(storage) == storage

(* Low storage, or the retries used up: no automatic attempt any more. *)
Stalls(storage) == storage \/ attempts = Retries

RunFails ==
    /\ run = "going"
    /\ \E storage \in {FALSE} \cup {engine = "download"} :
         IF Stalls(storage)
         THEN phase' = "failed" /\ stalled' = TRUE /\ retryTimer' = FALSE
              /\ UNCHANGED attempts
         ELSE /\ phase' = "retrying" /\ retryTimer' = TRUE
              /\ attempts' = IF attempts < Retries THEN attempts + 1 ELSE attempts
              /\ UNCHANGED stalled
    /\ NoDecision
    /\ UNCHANGED <<complete, updateChecked>>

(* remove() goes on once the run it stopped has ended. *)
RemoveHolds == call' = "holding" /\ hold' = "removed"

RunEnds ==
    /\ run' = "none" /\ EngineLeft
    /\ IF call = "stopping" THEN RemoveHolds ELSE UNCHANGED <<call, hold>>
    /\ UNCHANGED <<byReader, foreground, connected, known, updating>>
    /\ RunCompletes \/ RunStopped \/ RunFails

RetryFires ==
    /\ retryTimer /\ retryTimer' = FALSE
    /\ UNCHANGED <<phase, hold, byReader, foreground, connected, known, complete, engine, run,
                   updating, attempts, stalled, updateChecked, call>>
    /\ Evaluate

UpdateEnds ==
    /\ updating /\ updating' = FALSE
    /\ engine' = IF engine = "update" THEN "free" ELSE engine
    /\ UNCHANGED <<phase, hold, byReader, foreground, connected, known, complete, run,
                   attempts, retryTimer, stalled, updateChecked, call>>
    /\ Evaluate

(* onNetwork: back online, or onto Wi-Fi, the failures are forgotten.      *)
NetworkChanges ==
    /\ connected' = ~connected /\ known' = Heard(connected')
    /\ \/ connected' /\ run = "none" /\ ResetFailures
       \/ (connected' /\ run = "none" => known # "none") /\ FailuresKept
    /\ UNCHANGED <<phase, hold, byReader, foreground, complete, engine, run, updating,
                   updateChecked, call>>
    /\ IF run = "none" THEN Evaluate ELSE NoDecision

StopRun(reason) == run' = IF run = "going" THEN reason ELSE run

(* onAppActivity: a reopening after a while forgets the failures. *)
GoesToBackground ==
    /\ foreground /\ foreground' = FALSE
    /\ StopRun("background")
    /\ UNCHANGED <<phase, hold, byReader, connected, known, complete, engine, updating,
                   updateChecked, call>>
    /\ FailuresKept /\ NoDecision

BecomesActive ==
    /\ ~foreground /\ foreground' = TRUE
    /\ ResetFailures \/ FailuresKept
    /\ UNCHANGED <<phase, hold, byReader, connected, known, complete, engine, run, updating,
                   updateChecked, call>>
    /\ Evaluate

-----------------------------------------------------------------------------
(* The reader, from the panel's buttons (OfflineMushafPanel.tsx): Pause    *)
(* while a download is shown, else Download / Continue / Try again and     *)
(* Remove.  The choice counts at once; the action goes on once it is saved.*)
Press(c) ==
    /\ call = "none" /\ call' = c
    /\ UNCHANGED <<byReader, foreground, connected, known, complete, engine, updating,
                   attempts, retryTimer, stalled, updateChecked, phase>> /\ NoDecision

PressPause ==
    /\ phase = "downloading" /\ Press("pausing")
    /\ hold' = "paused" /\ UNCHANGED run

PauseGoesOn ==
    /\ call = "pausing" /\ call' = "none"
    /\ StopRun("pause")
    /\ phase' = IF run = "none" /\ phase # "ready" THEN "paused" ELSE phase
    /\ UNCHANGED <<hold, byReader, foreground, connected, known, complete, engine,
                   updating, updateChecked>> /\ FailuresKept /\ NoDecision

PressResume ==
    /\ phase # "downloading" /\ ~complete
    /\ Press("resuming") /\ hold' = "none" /\ UNCHANGED run

ResumeGoesOn ==
    /\ call = "resuming" /\ call' = "none"
    /\ byReader' = TRUE /\ ResetFailures
    /\ UNCHANGED <<phase, hold, foreground, connected, known, complete, engine, run, updating,
                   updateChecked>>
    /\ Evaluate

PressRemove ==
    /\ phase # "downloading"
    /\ StopRun("remove")
    /\ \/ run = "none" /\ RemoveHolds /\ Press("holding")
       \/ run # "none" /\ UNCHANGED hold /\ Press("stopping")

(* engine.remove() is refused while the engine is busy. *)
RemoveGoesOn ==
    /\ call = "holding"
    /\ ResetFailures
    /\ UNCHANGED <<phase, hold, byReader, foreground, connected, known, complete, run,
                   updating, updateChecked>>
    /\ \/ /\ engine = "free" /\ engine' = "removal" /\ call' = "removing"
          /\ NoDecision
       \/ /\ engine # "free" /\ call' = "none" /\ UNCHANGED engine
          /\ Evaluate

RemoveEnds ==
    /\ call = "removing" /\ call' = "none" /\ engine' = "free"
    /\ UNCHANGED <<hold, byReader, foreground, connected, known, run, updating,
                   updateChecked>>
    /\ FailuresKept
    /\ \/ /\ complete' = FALSE /\ phase' = "removed" /\ NoDecision
       \/ UNCHANGED <<complete, phase>> /\ Evaluate

AutoProgress ==
    \/ EvaluateStatus \/ AnswerNetwork \/ EvaluateNetwork \/ RetryFires \/ UpdateEnds
    \/ PauseGoesOn \/ ResumeGoesOn \/ RemoveGoesOn \/ RemoveEnds

AutoNext ==
    \/ AutoProgress \/ RunEnds
    \/ NetworkChanges \/ GoesToBackground \/ BecomesActive
    \/ PressPause \/ PressResume \/ PressRemove

AutoSpec == AutoInit /\ [][AutoNext]_autoVars

-----------------------------------------------------------------------------
Undecided == deciding # "no" \/ Occupied \/ retryTimer \/ call # "none"

(* No event is lost: where nothing is under way and nothing stands in the  *)
(* way of a download (no hold, no stop after failures, the app open and    *)
(* connected), the Mushaf is complete.                                     *)
AutoNotStranded ==
    Undecided \/ hold # "none" \/ stalled \/ ~foreground \/ ~connected \/ complete

(* If the app stays open and connected and the reader leaves it alone, the *)
(* Mushaf is complete or the attempts have come to an end.                 *)
PreparedOrStalled ==
    <>[](foreground /\ connected /\ hold = "none" /\ call = "none")
        => <>(complete \/ stalled)
===============================================================================

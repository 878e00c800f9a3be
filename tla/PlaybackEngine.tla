---------------------------- MODULE PlaybackEngine ----------------------------
(***************************************************************************)
(* The app's one audio engine (mobile/src/audio/engine.ts) over its one    *)
(* native player (expoOutput.ts), for recitations that play one file per   *)
(* surah, ayah by ayah.                                                    *)
(*                                                                         *)
(* A transition fetches the timing and the source, loads the file (or      *)
(* seeks in the one loaded) and plays; a newer one replaces it.  The       *)
(* reader's buttons, the player's reports (of a moment ago), the automatic *)
(* retries and the system come in at every await.                          *)
(***************************************************************************)
EXTENDS Integers

CONSTANTS
    Reciters,
    Surahs, Ayahs,      \* how many surahs, and ayahs in each
    Recorded,           \* <<reciter, surah>> with verified timing
    Fallback,           \* FALLBACK_RECITER_ID
    NoReciter,
    Starts,             \* the ayahs playback is started at
    MaxPlaybackEvents   \* bound on what the reader, the system and failures do

ASSUME PlaybackAssumption ==
    /\ Surahs \in Nat \ {0} /\ Ayahs \in Nat \ {0} /\ MaxPlaybackEvents \in Nat
    /\ Recorded \subseteq Reciters \X (1..Surahs)
    /\ Starts \subseteq (1..Surahs) \X (1..Ayahs)
    /\ Fallback \in Reciters /\ NoReciter \notin Reciters

VARIABLES
    playback,       \* PlaybackState, what the screens show
    control,        \* the engine's own variables
    player,         \* the native player: its file, the ayah it is at, whether it plays
    told,           \* the player's report on its way to the engine
    playbackEvents

playbackVars == <<playback, control, player, told, playbackEvents>>

Positions == [surah : 1..Surahs, ayah : 1..Ayahs]
NoPosition == [surah |-> 0, ayah |-> 0]
NoFile == <<NoReciter, 0>>
Files == Reciters \X (1..Surahs)
NoTransition == [at |-> "none", file |-> NoFile, ayah |-> 0]
NoReport == [kind |-> "none", at |-> 0, playing |-> FALSE]
Voices == Reciters \cup {NoReciter}

(* RETRY_DELAYS_MS.length *)
MaxPlaybackRetries == 2

PlaybackState ==
    [phase : {"idle", "loading", "playing", "paused", "error", "ended"},
     mode : {"continuous", "single"}, position : Positions \cup {NoPosition},
     reciter : Voices, preferred : Voices, pending : Voices,
     error : {"none", "network", "other"}, repeat : BOOLEAN]

EngineState ==
    [loaded : Files \cup {NoFile},
     transition : [at : {"none", "fetch", "load", "seek"}, file : Files \cup {NoFile},
                   ayah : 0..Ayahs],
     wantPlaying : BOOLEAN, armed : BOOLEAN, repeating : BOOLEAN, recited : 0..2,
     retries : 0..MaxPlaybackRetries, retryFor : Voices, commanded : BOOLEAN]

PlayerState == [file : Files \cup {NoFile}, at : 0..(Ayahs + 1), playing : BOOLEAN]

PlayerReport ==
    [kind : {"none", "status", "interrupted", "closed", "error"},
     at : 0..(Ayahs + 1), playing : BOOLEAN]

PlaybackTypeOK ==
    /\ playback \in PlaybackState /\ control \in EngineState
    /\ player \in PlayerState /\ told \in PlayerReport
    /\ playbackEvents \in 0..MaxPlaybackEvents

(* IDLE_STATE *)
IdleState ==
    [phase |-> "idle", mode |-> "continuous", position |-> NoPosition,
     reciter |-> NoReciter, preferred |-> NoReciter, pending |-> NoReciter,
     error |-> "none", repeat |-> FALSE]

PlaybackInit ==
    /\ playback = IdleState
    /\ control = [loaded |-> NoFile, transition |-> NoTransition,
                 wantPlaying |-> FALSE, armed |-> FALSE,
                 repeating |-> FALSE, recited |-> 0, retries |-> 0,
                 retryFor |-> NoReciter, commanded |-> FALSE]
    /\ player = [file |-> NoFile, at |-> 0, playing |-> FALSE]
    /\ told = NoReport /\ playbackEvents = 0

-----------------------------------------------------------------------------
Transitioning == control.transition # NoTransition

(* The player's play and pause, in what follows the change of its file.    *)
Playing(p) == [p EXCEPT !.playing = p.file # NoFile /\ p.at <= Ayahs]
Silent(p) == [p EXCEPT !.playing = FALSE]

FollowingAyah(p) ==
    IF p.ayah < Ayahs THEN [p EXCEPT !.ayah = @ + 1]
    ELSE IF p.surah < Surahs THEN [surah |-> p.surah + 1, ayah |-> 1] ELSE NoPosition

PrecedingAyah(p) ==
    IF p.ayah > 1 THEN [p EXCEPT !.ayah = @ - 1]
    ELSE IF p.surah > 1 THEN [surah |-> p.surah - 1, ayah |-> Ayahs] ELSE NoPosition

VoiceFor(asked, surah) ==
    IF <<asked, surah>> \notin Recorded /\ <<Fallback, surah>> \in Recorded
    THEN Fallback ELSE asked

AskedReciter ==
    IF playback.pending # NoReciter THEN playback.pending
    ELSE IF playback.preferred # NoReciter THEN playback.preferred ELSE playback.reciter

(* fail: silent, and after a network failure another attempt by itself. *)
RetriesAfter(kind) == kind = "network" /\ control.retries < MaxPlaybackRetries

Fail(kind, reciter, file) ==
    /\ playback' = [playback EXCEPT !.phase = "error", !.error = kind]
    /\ player' = Silent(player)
    /\ control' = [control EXCEPT !.transition = NoTransition, !.commanded = TRUE, !.loaded = file,
                      !.retries = IF RetriesAfter(kind) THEN @ + 1 ELSE @,
                      !.retryFor = IF RetriesAfter(kind) THEN reciter ELSE @]

(* transition: replaces the one under way, which ends at its next await.  *)
Transition(reciter, p, autoplay, retries, shown) ==
    LET recorded == <<reciter, p.surah>> \in Recorded IN
    /\ playback' = [shown EXCEPT !.position = p, !.reciter = reciter, !.pending = NoReciter,
                      !.phase = IF recorded THEN "loading" ELSE "error",
                      !.error = IF recorded THEN "none" ELSE "other"]
    /\ control' = [control EXCEPT
                      !.armed = FALSE, !.recited = 0, !.repeating = FALSE,
                      !.wantPlaying = autoplay, !.retryFor = NoReciter, !.retries = retries,
                      !.transition = IF recorded
                                     THEN [at |-> "fetch", file |-> <<reciter, p.surah>>,
                                           ayah |-> p.ayah]
                                     ELSE NoTransition,
                      !.commanded = @ \/ ~recorded]
    /\ player' = IF recorded THEN player ELSE Silent(player)

(* go: in the voice asked for, or the fallback's. *)
GoWith(asked, p, autoplay, retries, shown) ==
    Transition(VoiceFor(asked, p.surah), p, autoplay, retries,
               [shown EXCEPT !.preferred = asked])

Go(asked, p, autoplay) == GoWith(asked, p, autoplay, control.retries, playback)

-----------------------------------------------------------------------------
(* The awaits of a transition.                                             *)

(* The timing and the source are there: a seek in the file loaded, or the  *)
(* player's file is replaced.                                              *)
Fetched ==
    LET t == control.transition IN
    /\ t.at = "fetch"
    /\ IF control.loaded = t.file
       THEN control' = [control EXCEPT !.transition.at = "seek"] /\ UNCHANGED player
       ELSE /\ control' = [control EXCEPT !.transition.at = "load", !.loaded = NoFile]
            /\ player' = [file |-> t.file, at |-> 0, playing |-> FALSE]
    /\ UNCHANGED <<playback, told, playbackEvents>>

LoadedAt(t) ==
    LET there == [player EXCEPT !.at = t.ayah] IN
    /\ player' = IF control.wantPlaying THEN Playing(there) ELSE Silent(there)
    /\ playback' = [playback EXCEPT !.phase = IF control.wantPlaying THEN "playing" ELSE "paused"]
    /\ control' = [control EXCEPT !.transition = NoTransition, !.loaded = t.file,
                                  !.retries = 0, !.commanded = TRUE]

Loads ==
    /\ control.transition.at \in {"load", "seek"}
    /\ LoadedAt(control.transition)
    /\ UNCHANGED <<told, playbackEvents>>

LoadFails ==
    /\ Transitioning /\ playbackEvents < MaxPlaybackEvents
    /\ \E kind \in {"network", "other"} :
         Fail(kind, control.transition.file[1],
              IF control.transition.at = "fetch" THEN control.loaded ELSE NoFile)
    /\ playbackEvents' = playbackEvents + 1 /\ UNCHANGED told

(* The timer of fail: it plays, whatever the reader did meanwhile. *)
RetryPlays ==
    /\ control.retryFor # NoReciter
    /\ IF playback.phase = "error" /\ playback.error = "network"
       THEN Transition(control.retryFor, playback.position, TRUE, control.retries, playback)
       ELSE control' = [control EXCEPT !.retryFor = NoReciter] /\ UNCHANGED <<playback, player>>
    /\ UNCHANGED <<told, playbackEvents>>

-----------------------------------------------------------------------------
(* The end of an ayah.                                                     *)

StopsAtEnd ==
    /\ playback' = [playback EXCEPT !.phase = "ended", !.pending = NoReciter]
    /\ control' = [control EXCEPT !.wantPlaying = FALSE, !.loaded = NoFile, !.recited = 0,
                                  !.repeating = FALSE]
    /\ player' = [file |-> NoFile, at |-> 0, playing |-> FALSE]

(* advance: the ayah is finished, and repeated as asked. *)
Advance ==
    LET upcoming == FollowingAyah(playback.position) IN
    IF playback.mode = "single"
    THEN /\ playback' = [playback EXCEPT !.phase = "ended"] /\ player' = Silent(player)
         /\ control' = [control EXCEPT !.wantPlaying = FALSE, !.recited = 0, !.repeating = FALSE,
                                       !.commanded = TRUE]
    ELSE IF upcoming = NoPosition THEN StopsAtEnd
    ELSE IF playback.pending = NoReciter /\ upcoming.surah = control.loaded[2]
    THEN /\ playback' = [playback EXCEPT !.position = upcoming] /\ UNCHANGED player
         /\ control' = [control EXCEPT !.recited = 0, !.repeating = FALSE]
    ELSE Go(AskedReciter, upcoming, TRUE)

(* repeatAyah: a seek back in the file already loaded. *)
OnAyahEnd ==
    IF playback.mode = "continuous" /\ playback.repeat /\ control.recited = 0
    THEN IF playback.pending # NoReciter
         THEN Go(playback.pending, playback.position, TRUE)
         ELSE /\ control' = [control EXCEPT !.recited = 1, !.repeating = TRUE, !.armed = FALSE,
                                            !.commanded = TRUE]
              /\ UNCHANGED <<playback, player>>
    ELSE Advance

(* The seek lands, unless a transition or a stop has replaced it. *)
RepeatLands ==
    /\ control.repeating /\ playback.phase # "idle" /\ ~Transitioning
    /\ control' = [control EXCEPT !.repeating = FALSE, !.commanded = @ \/ control.wantPlaying]
    /\ LET there == [player EXCEPT !.at = playback.position.ayah] IN
         player' = IF control.wantPlaying THEN Playing(there) ELSE there
    /\ UNCHANGED <<playback, told, playbackEvents>>

RepeatFails ==
    /\ control.repeating /\ playback.phase # "idle" /\ ~Transitioning
    /\ playbackEvents < MaxPlaybackEvents /\ playbackEvents' = playbackEvents + 1
    /\ Advance
    /\ UNCHANGED told

-----------------------------------------------------------------------------
(* The player's reports.                                                   *)

PlayerReports ==
    /\ told = NoReport /\ player.file # NoFile
    /\ told' = [kind |-> "status", at |-> player.at, playing |-> player.playing]
    /\ UNCHANGED <<playback, control, player, playbackEvents>>

(* COMMAND_GRACE_MS: no report of before the engine's last command is on its way. *)
GracePasses ==
    /\ control.commanded /\ told = NoReport
    /\ control' = [control EXCEPT !.commanded = FALSE]
    /\ UNCHANGED <<playback, player, told, playbackEvents>>

PauseShown == playback.phase \in {"playing", "loading"}

(* pause: while it loads, only what is shown changes. *)
Pause ==
    /\ playback' = IF PauseShown THEN [playback EXCEPT !.phase = "paused"] ELSE playback
    /\ player' = IF playback.phase = "playing" THEN Silent(player) ELSE player
    /\ control' = [control EXCEPT !.wantPlaying = FALSE,
                                  !.commanded = @ \/ playback.phase = "playing"]

Stop ==
    /\ playback' = IdleState
    /\ control' = [control EXCEPT !.transition = NoTransition, !.wantPlaying = FALSE,
                                  !.retryFor = NoReciter, !.loaded = NoFile]
    /\ player' = [file |-> NoFile, at |-> 0, playing |-> FALSE]

(* Mutant: an ayah's end counts at once. *)
ArmsAnyway(near) == TRUE

(* An ayah's end counts only once the player has reported a place in it, or *)
(* in the second before it (near).                                         *)
Arms(near) ==
    \/ control.armed \/ told.at = playback.position.ayah
    \/ near /\ told.at = playback.position.ayah - 1

(* A pause or a resume from outside is followed, except right after a command. *)
FollowsDevice ==
    IF ~control.commanded /\ playback.phase = "playing" /\ ~told.playing
    THEN /\ playback' = [playback EXCEPT !.phase = "paused"]
         /\ control' = [control EXCEPT !.armed = TRUE, !.wantPlaying = FALSE]
    ELSE IF ~control.commanded /\ playback.phase = "paused" /\ told.playing
    THEN /\ playback' = [playback EXCEPT !.phase = "playing"]
         /\ control' = [control EXCEPT !.armed = TRUE, !.wantPlaying = TRUE]
    ELSE UNCHANGED playback /\ control' = [control EXCEPT !.armed = TRUE]

Ignores ==
    \/ Transitioning \/ control.repeating \/ control.loaded = NoFile
    \/ playback.phase \notin {"playing", "paused"}

(* Playing although the app is not: paused again. *)
PlaysUnasked ==
    /\ told.playing /\ ~control.commanded
    /\ \/ Transitioning /\ ~control.wantPlaying
       \/ playback.phase \in {"ended", "error", "idle"}

OnStatus(near) ==
    CASE told.kind = "closed" ->
             IF playback.phase = "idle" THEN UNCHANGED <<playback, control, player>> ELSE Stop
      [] told.kind = "interrupted" -> Pause
      [] PlaysUnasked ->
             /\ player' = Silent(player) /\ UNCHANGED playback
             /\ control' = [control EXCEPT !.commanded = TRUE]
      [] told.kind = "error" /\ ~Ignores ->
             \E kind \in {"network", "other"} : Fail(kind, control.loaded[1], NoFile)
      [] told.kind = "status" /\ ~Ignores /\ Arms(near) /\ ~PlaysUnasked ->
             IF playback.phase = "playing" /\ told.at > playback.position.ayah
             THEN OnAyahEnd
             ELSE FollowsDevice /\ UNCHANGED player
      [] OTHER -> UNCHANGED <<playback, control, player>>

HandleReport ==
    /\ told # NoReport /\ told' = NoReport
    /\ \E near \in BOOLEAN : OnStatus(near)
    /\ UNCHANGED playbackEvents

-----------------------------------------------------------------------------
(* A report in each ayah: the player leaves the ayah shown once it was seen there, *)
(* and the ayah after it once the end of that one was.                            *)
ReportTaken ==
    Ignores \/ IF control.armed THEN player.at <= playback.position.ayah
               ELSE player.at # playback.position.ayah

(* The recitation goes on. *)
Recites ==
    /\ player.playing /\ player.at \in 1..Ayahs /\ told = NoReport /\ ReportTaken
    /\ player' = [player EXCEPT !.at = @ + 1, !.playing = player.at < Ayahs]
    /\ UNCHANGED <<playback, control, told, playbackEvents>>

Happens == playbackEvents < MaxPlaybackEvents /\ playbackEvents' = playbackEvents + 1

(* The lock screen, a headset, a call. *)
PlaysOutside ==
    /\ Happens /\ ~player.playing /\ player' = Playing(player) /\ player' # player
    /\ UNCHANGED <<playback, control, told>>

PausesOutside ==
    /\ Happens /\ player.playing /\ player' = Silent(player)
    /\ UNCHANGED <<playback, control, told>>

(* Another app takes the audio focus; the app is closed; the stream breaks. *)
Breaks ==
    /\ Happens /\ player.file # NoFile /\ player' = Silent(player)
    /\ \E kind \in {"interrupted", "closed", "error"} :
         told' = [kind |-> kind, at |-> player.at, playing |-> FALSE]
    /\ UNCHANGED <<playback, control>>

-----------------------------------------------------------------------------
(* The reader's buttons.                                                   *)
Taps == Happens /\ UNCHANGED told

TapStart ==
    /\ Taps
    /\ \E r \in Reciters, p \in Starts, m \in {"continuous", "single"} :
         GoWith(r, [surah |-> p[1], ayah |-> p[2]], TRUE, 0, [playback EXCEPT !.mode = m])

TapPause == Taps /\ PauseShown /\ Pause

TapStop == Taps /\ playback.phase # "idle" /\ Stop

TapResume ==
    /\ Taps
    /\ \/ /\ playback.phase = "paused" /\ Transitioning
          /\ playback' = [playback EXCEPT !.phase = "loading"]
          /\ control' = [control EXCEPT !.wantPlaying = TRUE]
          /\ UNCHANGED player
       \/ /\ playback.phase = "paused" /\ ~Transitioning
          /\ playback' = [playback EXCEPT !.phase = "playing"]
          /\ control' = [control EXCEPT !.wantPlaying = TRUE, !.commanded = TRUE]
          /\ player' = Playing(player)
       \/ /\ playback.phase \in {"ended", "error"}
          /\ GoWith(AskedReciter, playback.position, TRUE, 0, playback)

TapSkip ==
    /\ Taps /\ playback.position # NoPosition
    /\ \E target \in {FollowingAyah(playback.position), PrecedingAyah(playback.position)} :
         /\ target # NoPosition
         /\ GoWith(AskedReciter, target, TRUE, 0, playback)

TapRepeat ==
    /\ Taps /\ playback.phase # "idle"
    /\ playback' = [playback EXCEPT !.repeat = ~@] /\ UNCHANGED <<control, player>>

(* selectReciter: at the next ayah, if its surah is recorded; at once after an error. *)
Refused(r) ==
    LET upcoming == IF playback.mode = "single" THEN playback.position
                    ELSE FollowingAyah(playback.position)
    IN upcoming # NoPosition /\ <<r, upcoming.surah>> \notin Recorded

TapReciter ==
    /\ Taps
    /\ \E r \in Reciters :
         CASE playback.phase = "error" ->
                  GoWith(r, playback.position, TRUE, 0, [playback EXCEPT !.pending = NoReciter])
           [] playback.phase = "ended" ->
                  /\ playback' = [playback EXCEPT !.reciter = r, !.preferred = r,
                                                  !.pending = NoReciter]
                  /\ UNCHANGED <<control, player>>
           [] playback.phase \in {"loading", "playing", "paused"} ->
                  /\ r = playback.reciter \/ ~Refused(r)
                  /\ playback' = IF r = playback.reciter
                                 THEN [playback EXCEPT !.preferred = r, !.pending = NoReciter]
                                 ELSE [playback EXCEPT !.pending = r]
                  /\ UNCHANGED <<control, player>>
           [] OTHER -> FALSE

ReaderAsksToPlay == TapStart \/ TapResume \/ TapSkip \/ TapReciter

PlaybackNext ==
    \/ ReaderAsksToPlay \/ TapPause \/ TapStop \/ TapRepeat
    \/ Fetched \/ Loads \/ LoadFails \/ RetryPlays
    \/ RepeatLands \/ RepeatFails
    \/ PlayerReports \/ HandleReport \/ GracePasses
    \/ Recites \/ PlaysOutside \/ PausesOutside \/ Breaks

PlaybackSpec == PlaybackInit /\ [][PlaybackNext]_playbackVars

-----------------------------------------------------------------------------
(* "A single source of truth for what is playing": once the engine has     *)
(* seen the player in the ayah it shows, the file heard is that reciter's  *)
(* and surah's, and the player is in that ayah or at its end.  An older    *)
(* transition or a report of the place before never moves it ahead.  (A    *)
(* repeat whose seek fails late leaves the player further on than the next *)
(* ayah, which is then shown and in which the player is never seen.)       *)
AyahShownIsHeard ==
    (playback.phase = "playing" /\ ~Transitioning /\ ~control.repeating)
      => /\ player.file = <<playback.reciter, playback.position.surah>>
         /\ control.armed => player.at - playback.position.ayah \in {0, 1}

(* "Whether playback should be running (false after a pause, even while a  *)
(* transition loads)": a pause ends only with a request of the reader, or  *)
(* the device's own play button.                                           *)
PausedStaysPaused ==
    [][control'.wantPlaying /\ ~control.wantPlaying
         => ReaderAsksToPlay \/ (HandleReport /\ told.playing)]_playbackVars

(* That much can be said of what the code does: what is shown as paused     *)
(* plays again only so, or when the seek of a repeat fails; what was paused *)
(* while it loaded, also when an attempt after a network failure, shown,    *)
(* plays by itself.                                                         *)
PausedUntilShown ==
    [][control'.wantPlaying /\ ~control.wantPlaying =>
         \/ ReaderAsksToPlay
         \/ HandleReport /\ told.playing /\ playback.phase = "paused"
         \/ RepeatFails /\ playback.phase = "paused"
         \/ RetryPlays /\ playback.phase = "error" /\ playback.error = "network"]_playbackVars
=============================================================================

----------------------------- MODULE MCBackground -----------------------------
(***************************************************************************)
(* Instances for TLC of the parts that run beside one another and share no *)
(* state: favorites, reading, reflections and settings sync, the           *)
(* reflection key, the scheduling of syncs, the Mushaf download, the       *)
(* reminders, the audio playback, the issue-report outbox and account      *)
(* deletion.  A behavior is one of one part, chosen at the start.          *)
(***************************************************************************)
EXTENDS FavoritesSync, ReadingSync, ReflectionsSync, SettingsSync, ReflectionKey,
        SyncScheduling, AutoDownload, ReminderScheduler, IssueOutbox,
        AccountDeletion, PlaybackEngine, TLC

CONSTANTS a, b, c1, c2, r1, ra, rb, t1, w1

VARIABLE part

Drifting == [d \in Devices |-> IF d = a THEN 1 ELSE 0]
FewInstants == {1}
FirstCycles == 0..1

\* rb has no recording of the second surah.
OneGap == {<<ra, 1>>, <<ra, 2>>, <<rb, 1>>}
\* From the first ayah the recitation gets to every other; a skip goes back in its file.
FirstAyah == {<<1, 1>>}

Parts == {"favorites", "reading", "reflections", "settings", "key", "scheduling",
          "download", "reminders", "outbox", "deletion", "playback"}

\* Only the chosen part has more than one initial state.  Of the settings' devices, one
\* starts without a value, the other without or with the higher.  Apple's authorization comes with a sign-in.
BackgroundInit ==
    /\ part \in Parts
    /\ Init
    /\ ReadingInit /\ (part # "reading" => account.seq = 1)
    /\ ReflectionInit /\ KeyInit /\ SyncInit /\ OutboxInit
    /\ AutoInit /\ (part # "download" => complete /\ connected /\ hold = "none")
    /\ SettingsInit /\ shown[a] = 0 /\ shown[b] # 1
    /\ part # "settings" => kind = "guide" /\ shown[b] = 0
    /\ ReminderInit /\ times = [k \in Kinds |-> IF k = "wird" THEN {1} ELSE Slots]
    /\ DeletionInit /\ ~granted
    /\ PlaybackInit

backgroundVars ==
    <<part, vars, readingVars, reflectionVars, settingsVars, keyVars, syncVars, autoVars,
      reminderVars, outboxVars, accountVars, playbackVars>>

\* The other parts rest.
Only(p) ==
    /\ part = p /\ UNCHANGED part
    /\ IF p = "favorites" THEN TRUE ELSE UNCHANGED vars
    /\ IF p = "reading" THEN TRUE ELSE UNCHANGED readingVars
    /\ IF p = "reflections" THEN TRUE ELSE UNCHANGED reflectionVars
    /\ IF p = "settings" THEN TRUE ELSE UNCHANGED settingsVars
    /\ IF p = "key" THEN TRUE ELSE UNCHANGED keyVars
    /\ IF p = "scheduling" THEN TRUE ELSE UNCHANGED syncVars
    /\ IF p = "download" THEN TRUE ELSE UNCHANGED autoVars
    /\ IF p = "reminders" THEN TRUE ELSE UNCHANGED reminderVars
    /\ IF p = "outbox" THEN TRUE ELSE UNCHANGED outboxVars
    /\ IF p = "deletion" THEN TRUE ELSE UNCHANGED accountVars
    /\ IF p = "playback" THEN TRUE ELSE UNCHANGED playbackVars

\* Bound: the sign-in and the second case are each met by the deletions, not both.
SignInOrSecondCase == signIn' = "none" \/ case'[c2].status = "none"

BackgroundNext ==
    \/ Only("favorites") /\ Next
    \/ Only("reading") /\ ReadingNext
    \/ Only("reflections") /\ ReflectionNext
    \/ Only("settings") /\ SettingsNext
    \/ Only("key") /\ KeyNext
    \/ Only("scheduling") /\ SyncNext
    \/ Only("download") /\ AutoNext
    \/ Only("reminders") /\ ReminderNext
    \/ Only("outbox") /\ OutboxNext
    \/ Only("deletion") /\ DeletionNext /\ SignInOrSecondCase
    \/ Only("playback") /\ PlaybackNext

\* The variables of the part that moves.
moving ==
    CASE part = "favorites" -> vars            [] part = "reading" -> readingVars
      [] part = "reflections" -> reflectionVars [] part = "settings" -> settingsVars
      [] part = "key" -> keyVars
      [] part = "scheduling" -> syncVars       [] part = "download" -> autoVars
      [] part = "reminders" -> reminderVars  [] part = "playback" -> playbackVars
      [] part = "outbox" -> outboxVars         [] part = "deletion" -> accountVars

On(p, step) == part = p /\ UNCHANGED part /\ step

\* The fairness of each part.  As a behavior moves one part only, steps of different
\* parts that are each fair by themselves stand together in one condition.
BackgroundFairness ==
    /\ \A d \in Devices :
         /\ WF_moving(\/ On("reading", SyncStep(d)) \/ On("reflections", MergeStep(d))
                              \/ On("settings", SettingsStep(d)) \/ On("outbox", WorkerStep(d)))
         /\ SF_moving(On("favorites", \E t \in Tasks : StartSync(d, t)))
    /\ WF_moving(\/ On("favorites", Tick)
                         \/ On("scheduling", RetryTimerFires)
                         \/ On("download", EvaluateStatus \/ AnswerNetwork \/ EvaluateNetwork)
                         \/ On("outbox", DelayPasses(r1)))
    /\ WF_moving(\/ On("favorites", \/ Get(t1) \/ Put(t1) \/ Compare(t1)
                                            \/ AdoptStored(t1) \/ ApplyCloud(t1)
                                            \/ FinishPush(t1))
                         \/ On("scheduling", \E s \in Sessions : SyncEnds(s))
                         \/ On("download", RetryFires))
    /\ WF_moving(\/ On("favorites", \E e \in stray : PutLate(e))
                         \/ On("download", UpdateEnds))
    /\ WF_moving(On("download", RunEnds))

BackgroundSpec ==
    BackgroundInit /\ [][BackgroundNext]_backgroundVars /\ BackgroundFairness

\* Every variable of every part keeps its type.
BackgroundTypeOK ==
    /\ TypeOK /\ ReadingTypeOK /\ ReflectionTypeOK /\ SettingsTypeOK /\ KeyTypeOK
    /\ SyncTypeOK /\ AutoTypeOK /\ ReminderTypeOK /\ OutboxTypeOK /\ DeletionTypeOK
    /\ PlaybackTypeOK
===============================================================================

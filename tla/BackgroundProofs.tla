-------------------------- MODULE BackgroundProofs --------------------------
(***************************************************************************)
(* The parts that run beside one another, together: a behavior of          *)
(* MCBackground is, seen from each part, a behavior of that part, so that  *)
(* what the other modules prove of a part holds when they are put side by  *)
(* side. The type invariant of all of them follows.                        *)
(***************************************************************************)
EXTENDS MCBackground, FavoritesProofs, ReadingProofs, AccountDataProofs, DeviceProofs,
        ServerProofs

-----------------------------------------------------------------------------
(* A step of the whole is a step of each part, or leaves that part as it is. *)

PartSteps ==
    /\ [Next]_vars
    /\ [ReadingNext]_readingVars
    /\ [ReflectionNext]_reflectionVars
    /\ [SettingsNext]_settingsVars
    /\ [KeyNext]_keyVars
    /\ [SyncNext]_syncVars
    /\ [AutoNext]_autoVars
    /\ [ReminderNext]_reminderVars
    /\ [OutboxNext]_outboxVars
    /\ [DeletionNext]_accountVars
    /\ [PlaybackNext]_playbackVars

(* What rests while p moves. *)
LEMMA OthersRest ==
    ASSUME NEW p, Only(p)
    PROVE  /\ p # "favorites" => UNCHANGED vars
           /\ p # "reading" => UNCHANGED readingVars
           /\ p # "reflections" => UNCHANGED reflectionVars
           /\ p # "settings" => UNCHANGED settingsVars
           /\ p # "key" => UNCHANGED keyVars
           /\ p # "scheduling" => UNCHANGED syncVars
           /\ p # "download" => UNCHANGED autoVars
           /\ p # "reminders" => UNCHANGED reminderVars
           /\ p # "outbox" => UNCHANGED outboxVars
           /\ p # "deletion" => UNCHANGED accountVars
           /\ p # "playback" => UNCHANGED playbackVars
    BY DEF Only

LEMMA EachPartSteps == [BackgroundNext]_backgroundVars => PartSteps
<1> SUFFICES ASSUME [BackgroundNext]_backgroundVars PROVE PartSteps
    OBVIOUS
<1> USE OthersRest DEF PartSteps
<1>1. CASE UNCHANGED backgroundVars
    BY <1>1 DEF backgroundVars
<1>2. CASE Only("favorites") /\ Next
    BY <1>2
<1>3. CASE Only("reading") /\ ReadingNext
    BY <1>3
<1>4. CASE Only("reflections") /\ ReflectionNext
    BY <1>4
<1>5. CASE Only("settings") /\ SettingsNext
    BY <1>5
<1>6. CASE Only("key") /\ KeyNext
    BY <1>6
<1>7. CASE Only("scheduling") /\ SyncNext
    BY <1>7
<1>8. CASE Only("download") /\ AutoNext
    BY <1>8
<1>9. CASE Only("reminders") /\ ReminderNext
    BY <1>9
<1>10. CASE Only("outbox") /\ OutboxNext
    BY <1>10
<1>11. CASE Only("deletion") /\ DeletionNext
    BY <1>11
<1>12. CASE Only("playback") /\ PlaybackNext
    BY <1>12
<1> QED
    BY <1>1, <1>2, <1>3, <1>4, <1>5, <1>6, <1>7, <1>8, <1>9, <1>10, <1>11, <1>12
    DEF BackgroundNext

(* Seen from a part, a behavior of the whole is one of that part: the       *)
(* stores, timers and queues of one sync or player are out of the others'   *)
(* reach.                                                                   *)
THEOREM PartsKeepTheirSpecifications ==
    BackgroundSpec =>
        /\ Spec /\ ReadingSpec /\ ReflectionSpec /\ SettingsSpec /\ KeySpec /\ SchedulingSpec
        /\ AutoSpec /\ ReminderSpec /\ OutboxSpec /\ DeletionSpec /\ PlaybackSpec
<1>1. BackgroundInit =>
        /\ Init /\ ReadingInit /\ ReflectionInit /\ SettingsInit /\ KeyInit /\ SyncInit
        /\ AutoInit /\ ReminderInit /\ OutboxInit /\ DeletionInit /\ PlaybackInit
    BY DEF BackgroundInit
<1>2. [BackgroundNext]_backgroundVars => PartSteps
    BY EachPartSteps
<1> QED
    BY <1>1, <1>2, PTL
    DEF BackgroundSpec, PartSteps, Spec, ReadingSpec, ReflectionSpec, SettingsSpec, KeySpec,
        SchedulingSpec, AutoSpec, ReminderSpec, OutboxSpec, DeletionSpec, PlaybackSpec

-----------------------------------------------------------------------------
(* Every variable of every part keeps its type.                             *)
THEOREM BackgroundTyped == BackgroundSpec => []BackgroundTypeOK
<1>1. SettingsSpec => []SettingsTypeOK
  <2>1. SettingsInv => SettingsTypeOK
      BY DEF SettingsInv
  <2> QED
      BY <2>1, SettingsInitially, SettingsInvStep, PTL DEF SettingsSpec
<1>2. KeySpec => []KeyTypeOK
  <2>1. KeyInv => KeyTypeOK
      BY DEF KeyInv
  <2> QED
      BY <2>1, KeyInitially, KeyInductive, PTL DEF KeySpec
<1>3. ReflectionSpec => []ReflectionTypeOK
    BY ReflectionInitType, ReflectionNextType, PTL DEF ReflectionSpec
<1>4. SchedulingSpec => []SyncTypeOK
  <2>1. SyncInv => SyncTypeOK
      BY DEF SyncInv
  <2> QED
      BY <2>1, SyncInitially, SyncInductive, PTL DEF SchedulingSpec
<1>5. ReminderSpec => []ReminderTypeOK
  <2>1. ReminderInv => ReminderTypeOK
      BY DEF ReminderInv
  <2> QED
      BY <2>1, ReminderInitially, ReminderInductive, PTL DEF ReminderSpec
<1>6. OutboxSpec => []OutboxTypeOK
  <2>1. OutboxInv => OutboxTypeOK
      BY DEF OutboxInv
  <2> QED
      BY <2>1, OutboxInitially, OutboxStep, PTL DEF OutboxSpec
<1>7. DeletionSpec => []DeletionTypeOK
  <2>1. DeletionInv => DeletionTypeOK
      BY DEF DeletionInv
  <2> QED
      BY <2>1, DeletionInitially, DeletionStep, PTL DEF DeletionSpec
<1>8. PlaybackSpec => []PlaybackTypeOK
  <2>1. PlaybackInv => PlaybackTypeOK
      BY DEF PlaybackInv
  <2> QED
      BY <2>1, PlaybackInitInv, PlaybackNextInv, PTL DEF PlaybackSpec
<1> QED
    BY <1>1, <1>2, <1>3, <1>4, <1>5, <1>6, <1>7, <1>8, FavoritesTyped, ReadingTyped, AutoTyped,
       PartsKeepTheirSpecifications, PTL
    DEF BackgroundTypeOK
=============================================================================

----------------------------- MODULE SettingsSync -----------------------------
(***************************************************************************)
(* One setting that follows the account (mobile sync/preferencesSync.ts,   *)
(* sync/preferencesSyncState.ts, sync/devicePreferencesClaim.ts; backend   *)
(* services/preferencesMerge.ts): an ordinary choice, of which the newest  *)
(* wins, or the Mushaf guide, which only moves from closed (1) to finished *)
(* (2).  Fields are merged one by one, so one stands for all.              *)
(*                                                                         *)
(* Clocks agree.  Value 0 is a setting not yet chosen, instant 0 an entry  *)
(* that is not there.                                                      *)
(***************************************************************************)
EXTENDS Naturals

CONSTANTS
    SettingsDevices,  \* the devices signed in to the account
    SettingKinds,     \* the rules the setting may follow: "choice", "guide"
    LastInstant,      \* bound: instants
    LostCalls         \* bound: requests and answers lost, apps stopped

ASSUME SettingsAssumption ==
    /\ SettingKinds \subseteq {"choice", "guide"}
    /\ LastInstant \in Nat \ {0, 1} /\ LostCalls \in Nat

VARIABLES
    kind,          \* the rule of the setting
    wall,          \* the instant now
    setting,       \* the account's value of it
    choice,        \* what the account is known to hold, or is to get, on the device
    shown,         \* the value in use on the device
    settingsCall,  \* the sync or upload under way on the device
    lost,          \* calls lost
    newest         \* history: when the last ordinary choice was made

settingsVars == <<kind, wall, setting, choice, shown, settingsCall, lost, newest>>

Value == 0..2
Setting == [value : Value, at : 0..LastInstant]
NoSetting == [value |-> 0, at |-> 0]
Choice == [value : Value, at : 0..LastInstant, synced : BOOLEAN]
NoChoice == [value |-> 0, at |-> 0, synced |-> TRUE]

\* A sync: the account's field as downloaded or answered, what was sent, and the value
\* about to be shown (0: none) before the sync goes on or ends.
Call == [step : {"none", "got", "show", "send", "sent", "answered", "end"},
         cloud : Setting, sent : Choice, shows : Value]
NoCall == [step |-> "none", cloud |-> NoSetting, sent |-> NoChoice, shows |-> 0]

SettingsTypeOK ==
    /\ kind \in SettingKinds /\ wall \in 2..LastInstant
    /\ setting \in Setting
    /\ choice \in [SettingsDevices -> Choice]
    /\ shown \in [SettingsDevices -> Value]
    /\ settingsCall \in [SettingsDevices -> Call]
    /\ lost \in 0..LostCalls /\ newest \in 0..LastInstant

\* SEED_AT: below any change ever made.
Seed == 1

\* A device may have a value from before the setting followed the account, which the
\* account signed in across the update claims (claimDevicePreferences).
SettingsInit ==
    /\ kind \in SettingKinds /\ wall = Seed + 1
    /\ setting = NoSetting
    /\ shown \in [SettingsDevices -> Value]
    /\ \E claims \in SUBSET {d \in SettingsDevices : shown[d] # 0} :
          /\ choice = [d \in SettingsDevices |->
                IF d \in claims THEN [value |-> shown[d], at |-> Seed, synced |-> FALSE]
                ELSE NoChoice]
          /\ newest = (IF kind = "guide" \/ claims = {} THEN 0 ELSE Seed)
    /\ settingsCall = [d \in SettingsDevices |-> NoCall]
    /\ lost = 0

-----------------------------------------------------------------------------
(* The user's own changes.                                                 *)

Passes ==
    /\ wall < LastInstant
    /\ wall' = wall + 1
    /\ UNCHANGED <<kind, setting, choice, shown, settingsCall, lost, newest>>

\* recordLocalPreferenceChange, whose instants do not repeat.  A guide finished on the
\* device stays finished.
Chooses(d, value) ==
    /\ choice[d].at < wall
    /\ kind = "guide" => value >= shown[d]
    /\ shown' = [shown EXCEPT ![d] = value]
    /\ choice' = [choice EXCEPT ![d] = [value |-> value, at |-> wall, synced |-> FALSE]]
    /\ newest' = IF kind = "choice" THEN wall ELSE 0
    /\ UNCHANGED <<kind, wall, setting, settingsCall, lost>>

-----------------------------------------------------------------------------
(* The sync of one device; oneAtATime lets one run at a time.              *)

CallGoes(d, to) == settingsCall' = [settingsCall EXCEPT ![d] = to]

\* syncPreferences downloads first; pushPreferences only uploads.
Begins(d) ==
    /\ settingsCall[d].step = "none"
    /\ CallGoes(d, [NoCall EXCEPT !.step = "got", !.cloud = setting])
    /\ UNCHANGED <<kind, wall, setting, choice, shown, lost, newest>>

Pushes(d) ==
    /\ settingsCall[d].step = "none" /\ ~choice[d].synced
    /\ CallGoes(d, [NoCall EXCEPT !.step = "send"])
    /\ UNCHANGED <<kind, wall, setting, choice, shown, lost, newest>>

\* The download replaces what is known here; in the first form, only if it is newer.
FollowsNewerOnly(e, cloud) == cloud.at # 0 /\ cloud.at > e.at
Follows(e, cloud) == cloud.at # 0 /\ (e.synced \/ e.at <= cloud.at)

AdoptsAccount(d) ==
    LET cloud == settingsCall[d].cloud
        follows == Follows(choice[d], cloud)
    IN
    /\ settingsCall[d].step = "got"
    /\ choice' = [choice EXCEPT ![d] =
          IF follows THEN [value |-> cloud.value, at |-> cloud.at, synced |-> TRUE] ELSE @]
    /\ CallGoes(d, IF follows THEN [NoCall EXCEPT !.step = "show", !.shows = cloud.value]
                   ELSE [NoCall EXCEPT !.step = "send"])
    /\ UNCHANGED <<kind, wall, setting, shown, lost, newest>>

\* The value is applied once the state was saved, over a choice made meanwhile; the
\* guide only forward (applySyncedGuideCompletion).
Shows(d) ==
    LET v == settingsCall[d].shows IN
    /\ settingsCall[d].step \in {"show", "end"}
    /\ shown' = [shown EXCEPT ![d] = IF kind = "guide" /\ @ > v THEN @ ELSE v]
    /\ CallGoes(d, IF settingsCall[d].step = "end" THEN NoCall ELSE [NoCall EXCEPT !.step = "send"])
    /\ UNCHANGED <<kind, wall, setting, choice, lost, newest>>

\* upload: what is pending now.
SendsPending(d) ==
    /\ settingsCall[d].step = "send"
    /\ CallGoes(d, IF choice[d].synced THEN NoCall
                   ELSE [NoCall EXCEPT !.step = "sent", !.sent = choice[d]])
    /\ UNCHANGED <<kind, wall, setting, choice, shown, lost, newest>>

\* mergeField.
MergeField(sent, held) ==
    LET newer == sent.at > held.at
        forward == kind = "guide" /\ held.at # 0 /\ sent.value # held.value
    IN
    IF IF forward THEN sent.value > held.value ELSE newer
    THEN [value |-> sent.value, at |-> IF newer THEN sent.at ELSE held.at]
    ELSE held

\* putPreferences: the answer is the account's record after it.
Merges(d) ==
    /\ settingsCall[d].step = "sent"
    /\ setting' = MergeField(settingsCall[d].sent, setting)
    /\ settingsCall' = [settingsCall EXCEPT ![d].step = "answered", ![d].cloud = setting']
    /\ UNCHANGED <<kind, wall, choice, shown, lost, newest>>

\* The choice is still the one sent; in the first form, whatever it now is.
StillSentAnyway(e, sent) == ~e.synced
StillSent(e, sent) == e.at = sent.at /\ ~e.synced

\* The account holds it at another instant, or holds something else that stays.
GivesWay(sent, saved) ==
    \/ saved.at >= sent.at \/ saved.value = sent.value
    \/ kind = "guide" /\ saved.value > sent.value

TakesStored(d) ==
    LET sent == settingsCall[d].sent
        saved == settingsCall[d].cloud
        takes == StillSent(choice[d], sent) /\ GivesWay(sent, saved)
    IN
    /\ settingsCall[d].step = "answered"
    /\ choice' = [choice EXCEPT ![d] =
          IF takes THEN [value |-> saved.value, at |-> saved.at, synced |-> TRUE] ELSE @]
    /\ CallGoes(d, IF takes /\ saved.value # sent.value
                   THEN [NoCall EXCEPT !.step = "end", !.shows = saved.value] ELSE NoCall)
    /\ UNCHANGED <<kind, wall, setting, shown, lost, newest>>

\* A request or an answer is lost, or the app stops.
Loses(d) ==
    /\ settingsCall[d].step # "none" /\ lost < LostCalls
    /\ lost' = lost + 1
    /\ CallGoes(d, NoCall)
    /\ UNCHANGED <<kind, wall, setting, choice, shown, newest>>

SettingsStep(d) ==
    \/ Begins(d) \/ AdoptsAccount(d) \/ Shows(d) \/ SendsPending(d) \/ Merges(d)
    \/ TakesStored(d)

SettingsNext ==
    \/ Passes
    \/ \E d \in SettingsDevices :
          (\E v \in Value \ {0} : Chooses(d, v)) \/ Pushes(d) \/ SettingsStep(d) \/ Loses(d)

SettingsSpec == SettingsInit /\ [][SettingsNext]_settingsVars

-----------------------------------------------------------------------------
(* Properties.                                                             *)

\* "A change made offline stays pending until the account confirms it"
\* (preferencesSyncState.ts): the last choice is the account's, or pending on a device, or
\* gave way to one of the same instant.
NewestChoiceKept ==
    setting.at >= newest \/ \E d \in SettingsDevices : ~choice[d].synced /\ choice[d].at >= newest

\* Once choices end and syncs run, every device uses the account's value (a device that
\* finished the guide keeps it finished), although a value from the account may be
\* applied over a choice made in the meantime.
SettingsConverge ==
    <>[](\A d \in SettingsDevices :
            setting.at # 0 =>
                IF kind = "guide" THEN shown[d] >= setting.value ELSE shown[d] = setting.value)
===============================================================================

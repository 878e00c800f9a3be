------------------------- MODULE AccountDataProofs -------------------------
(***************************************************************************)
(* Proofs about three parts of the account's data that all its devices     *)
(* write: settings (SettingsSync), the key of the reflections              *)
(* (ReflectionKey) and the reflections themselves (ReflectionsSync).       *)
(***************************************************************************)
EXTENDS SettingsSync, ReflectionKey, ReflectionsSync, TLAPS

(***************************************************************************)
(* Every variable of SettingsSync keeps its type, and the last choice of a *)
(* setting is never lost. The invariant adds that no call knows of a later *)
(* value than the account's, and that the answer to an upload is of no     *)
(* earlier instant than what was sent.                                     *)
(***************************************************************************)
Latest == 0..LastInstant

CallsNotAhead ==
    \A d \in SettingsDevices :
        /\ settingsCall[d].cloud.at <= setting.at
        /\ (kind = "choice" /\ settingsCall[d].step = "answered" =>
               settingsCall[d].sent.at <= settingsCall[d].cloud.at)

SettingsInv ==
    /\ SettingsTypeOK /\ CallsNotAhead /\ NewestChoiceKept
    /\ (kind = "guide" => newest = 0)

LEMMA NoCallType == NoCall \in Call /\ NoCall.step = "none" /\ NoCall.cloud = NoSetting
BY SettingsAssumption DEF NoCall, Call, NoSetting, NoChoice, Setting, Choice, Value

(* A call that goes on from none. *)
LEMMA FreshCallType ==
    /\ \A step \in {"none", "send"} : [NoCall EXCEPT !.step = step] \in Call
    /\ \A c \in Setting : [NoCall EXCEPT !.step = "got", !.cloud = c] \in Call
    /\ \A v \in Value, step \in {"show", "end"} :
          [NoCall EXCEPT !.step = step, !.shows = v] \in Call
    /\ \A e \in Choice : [NoCall EXCEPT !.step = "sent", !.sent = e] \in Call
BY NoCallType DEF Call

LEMMA MergeType ==
    ASSUME NEW sent \in Choice, NEW stored \in Setting
    PROVE  /\ MergeField(sent, stored) \in Setting
           /\ MergeField(sent, stored).at >= stored.at
           /\ (kind # "guide" => MergeField(sent, stored).at >= sent.at)
<1> USE SettingsAssumption DEF Choice, Setting, Value
<1> DEFINE newer == sent.at > stored.at
           forward == kind = "guide" /\ stored.at # 0 /\ sent.value # stored.value
           taken == IF forward THEN sent.value > stored.value ELSE newer
           merged == [value |-> sent.value, at |-> IF newer THEN sent.at ELSE stored.at]
<1>1. MergeField(sent, stored) = IF taken THEN merged ELSE stored BY DEF MergeField
<1>2. merged \in Setting /\ merged.at >= stored.at /\ merged.at >= sent.at OBVIOUS
<1>3. CASE taken BY <1>1, <1>2, <1>3
<1>4. CASE ~taken
  <2>1. kind # "guide" => ~newer BY <1>4
  <2> QED BY <1>1, <1>4, <2>1
<1> QED BY <1>3, <1>4

LEMMA SettingsInitially == SettingsInit => SettingsInv
<1> SUFFICES ASSUME SettingsInit PROVE SettingsInv OBVIOUS
<1> USE SettingsAssumption DEF SettingsInit
<1>1. PICK claims \in SUBSET {d \in SettingsDevices : shown[d] # 0} :
        /\ choice = [d \in SettingsDevices |->
              IF d \in claims THEN [value |-> shown[d], at |-> Seed, synced |-> FALSE]
              ELSE NoChoice]
        /\ newest = (IF kind = "guide" \/ claims = {} THEN 0 ELSE Seed)
  OBVIOUS
<1>2. SettingsTypeOK
  <2>1. choice \in [SettingsDevices -> Choice]
    <3>1. NoChoice \in Choice BY DEF NoChoice, Choice, Value
    <3>2. ASSUME NEW d \in SettingsDevices
          PROVE  [value |-> shown[d], at |-> Seed, synced |-> FALSE] \in Choice
      BY DEF Choice, Seed
    <3> QED BY <1>1, <3>1, <3>2
  <2>2. settingsCall \in [SettingsDevices -> Call] BY NoCallType
  <2>4. newest \in 0..LastInstant BY <1>1 DEF Seed
  <2>5. setting \in Setting /\ wall \in 2..LastInstant /\ lost \in 0..LostCalls
    BY DEF NoSetting, Setting, Value, Seed
  <2> QED BY <2>1, <2>2, <2>4, <2>5 DEF SettingsTypeOK
<1>3. CallsNotAhead
  <2>1. setting.at = 0 /\ NoCall.cloud.at = 0 BY NoCallType DEF NoSetting
  <2>2. \A d \in SettingsDevices : settingsCall[d] = NoCall OBVIOUS
  <2>3. NoCall.step # "answered" BY NoCallType
  <2> HIDE DEF SettingsInit
  <2>4. ASSUME NEW d \in SettingsDevices
        PROVE  settingsCall[d].cloud.at = 0 /\ settingsCall[d].step # "answered"
    BY <2>1, <2>2, <2>3, Zenon
  <2>5. \A d \in SettingsDevices :
          settingsCall[d].cloud.at <= setting.at /\ settingsCall[d].step # "answered"
    <3>1. 0 <= setting.at BY <2>1
    <3> QED BY <2>4, <3>1
  <2> QED BY <2>5 DEF CallsNotAhead
<1>4. NewestChoiceKept
  <2>1. CASE newest = 0 BY <1>2, <2>1 DEF NewestChoiceKept, SettingsTypeOK, Setting
  <2>2. CASE newest # 0
    <3>1. PICK d \in claims : newest = Seed BY <1>1, <2>2
    <3>2. choice[d] = [value |-> shown[d], at |-> Seed, synced |-> FALSE] BY <1>1, <3>1
    <3> QED BY <3>1, <3>2 DEF NewestChoiceKept, Seed
  <2> QED BY <2>1, <2>2
<1>5. kind = "guide" => newest = 0 BY <1>1
<1> QED BY <1>2, <1>3, <1>4, <1>5 DEF SettingsInv

(* A step of one device's call that leaves the account and the choices     *)
(* alone.                                                                  *)
LEMMA CallMoves ==
    ASSUME SettingsInv, NEW d \in SettingsDevices, NEW to \in Call, CallGoes(d, to),
           to.cloud.at <= setting.at, to.step # "answered",
           shown' \in [SettingsDevices -> Value], lost' \in 0..LostCalls,
           UNCHANGED <<kind, wall, setting, choice, newest>>
    PROVE  SettingsInv'
<1> USE DEF SettingsInv, SettingsTypeOK
<1>1. settingsCall' = [settingsCall EXCEPT ![d] = to] BY DEF CallGoes
<1>2. settingsCall' \in [SettingsDevices -> Call] BY <1>1
<1>3. SettingsTypeOK' BY <1>2
<1>4. CallsNotAhead' BY <1>1 DEF CallsNotAhead
<1>5. NewestChoiceKept' BY DEF NewestChoiceKept
<1> QED BY <1>3, <1>4, <1>5

(* A choice that gives way to the account's value was not the last one, or *)
(* is what the account holds.                                              *)
LEMMA ChoiceGivesWay ==
    ASSUME SettingsInv, NEW d \in SettingsDevices, NEW e \in Choice, NEW to \in Call,
           choice' = [choice EXCEPT ![d] = e], CallGoes(d, to),
           to.cloud.at <= setting.at, to.step # "answered",
           (kind = "choice" /\ ~choice[d].synced => choice[d].at <= setting.at),
           UNCHANGED <<kind, wall, setting, shown, lost, newest>>
    PROVE  SettingsInv'
<1> USE DEF SettingsInv, SettingsTypeOK
<1>1. settingsCall' = [settingsCall EXCEPT ![d] = to] BY DEF CallGoes
<1>2. settingsCall' \in [SettingsDevices -> Call] /\ choice' \in [SettingsDevices -> Choice] BY <1>1
<1>3. SettingsTypeOK' BY <1>2
<1>4. CallsNotAhead' BY <1>1 DEF CallsNotAhead
<1>5. NewestChoiceKept'
  <2>1. CASE kind = "guide" BY <2>1 DEF NewestChoiceKept, Setting
  <2>2. CASE kind # "guide"
    <3>1. kind = "choice" BY <2>2, SettingsAssumption
    <3>2. CASE setting.at >= newest BY <3>2 DEF NewestChoiceKept
    <3>3. CASE ~(setting.at >= newest)
      <4>1. PICK o \in SettingsDevices : ~choice[o].synced /\ choice[o].at >= newest
        BY <3>3 DEF NewestChoiceKept
      <4>2. o # d
        <5>1. SUFFICES ASSUME o = d PROVE FALSE OBVIOUS
        <5>2. choice[d].at <= setting.at BY <3>1, <4>1, <5>1
        <5>3. choice[d].at \in Nat /\ setting.at \in Nat /\ newest \in Nat
          BY SettingsAssumption DEF Choice, Setting
        <5> QED BY <3>3, <4>1, <5>1, <5>2, <5>3
      <4>3. choice'[o] = choice[o] BY <4>2
      <4> QED BY <4>1, <4>3 DEF NewestChoiceKept
    <3> QED BY <3>2, <3>3
  <2> QED BY <2>1, <2>2
<1> QED BY <1>3, <1>4, <1>5

LEMMA ChoosesStep ==
    ASSUME SettingsInv, NEW d \in SettingsDevices, NEW v \in Value \ {0}, Chooses(d, v)
    PROVE  SettingsInv'
<1> USE SettingsAssumption DEF SettingsInv, SettingsTypeOK
<1> DEFINE new == [value |-> v, at |-> wall, synced |-> FALSE]
<1>1. /\ shown' = [shown EXCEPT ![d] = v] /\ choice' = [choice EXCEPT ![d] = new]
      /\ newest' = IF kind = "choice" THEN wall ELSE 0
      /\ UNCHANGED <<kind, wall, setting, settingsCall, lost>>
  BY DEF Chooses
<1>2. new \in Choice /\ new.at = wall /\ ~new.synced BY DEF Choice
<1> HIDE DEF new
<1>4. /\ choice' \in [SettingsDevices -> Choice] /\ choice'[d] = new
      /\ shown' \in [SettingsDevices -> Value] /\ newest' \in 0..LastInstant
  BY <1>1, <1>2
<1>5. SettingsTypeOK' BY <1>1, <1>4
<1>6. CallsNotAhead' BY <1>1 DEF CallsNotAhead
<1>7. NewestChoiceKept'
  <2>1. CASE kind = "choice" BY <1>1, <1>2, <1>4, <2>1 DEF NewestChoiceKept
  <2>2. CASE kind # "choice" BY <1>1, <2>2 DEF NewestChoiceKept, Setting
  <2> QED BY <2>1, <2>2
<1>8. kind' = "guide" => newest' = 0 BY <1>1
<1> QED BY <1>5, <1>6, <1>7, <1>8

LEMMA AdoptsStep ==
    ASSUME SettingsInv, NEW d \in SettingsDevices, AdoptsAccount(d)
    PROVE  SettingsInv'
<1> USE SettingsAssumption DEF SettingsInv, SettingsTypeOK
<1> DEFINE cloud == settingsCall[d].cloud
           follows == Follows(choice[d], cloud)
           e == [value |-> cloud.value, at |-> cloud.at, synced |-> TRUE]
<1>1. cloud \in Setting /\ cloud.at <= setting.at BY DEF Call, CallsNotAhead
<1>2. e \in Choice BY <1>1 DEF Setting, Choice
<1>3. CASE follows
  <2> DEFINE to == [NoCall EXCEPT !.step = "show", !.shows = cloud.value]
  <2>1. choice' = [choice EXCEPT ![d] = e] /\ CallGoes(d, to)
        /\ UNCHANGED <<kind, wall, setting, shown, lost, newest>>
    BY <1>3 DEF AdoptsAccount
  <2>2. to \in Call BY <1>1, FreshCallType DEF Setting
  <2>3. to.step = "show" /\ to.cloud.at = 0 BY NoCallType DEF Call, NoSetting
  <2>4. ~choice[d].synced => choice[d].at <= cloud.at BY <1>3 DEF Follows
  <2>5. choice[d].at \in Nat /\ cloud.at \in Nat /\ setting.at \in Nat BY <1>1 DEF Choice, Setting
  <2> HIDE DEF to, e, cloud
  <2>6. ~choice[d].synced => choice[d].at <= setting.at BY <1>1, <2>4, <2>5
  <2>7. to.cloud.at <= setting.at /\ to.step # "answered" BY <2>3, <2>5
  <2> HIDE DEF SettingsInv, SettingsTypeOK
  <2> QED BY <1>2, <2>1, <2>2, <2>6, <2>7, ChoiceGivesWay
<1>4. CASE ~follows
  <2> DEFINE to == [NoCall EXCEPT !.step = "send"]
  <2>1. choice' = choice /\ CallGoes(d, to)
        /\ UNCHANGED <<kind, wall, setting, shown, lost, newest>>
    BY <1>4 DEF AdoptsAccount
  <2>2. to \in Call BY FreshCallType
  <2>3. to.step = "send" /\ to.cloud.at = 0 BY NoCallType DEF Call, NoSetting
  <2>4. setting.at \in Nat BY DEF Setting
  <2> HIDE DEF to
  <2> QED BY <2>1, <2>2, <2>3, <2>4, CallMoves
<1> QED BY <1>3, <1>4

LEMMA MergesStep ==
    ASSUME SettingsInv, NEW d \in SettingsDevices, Merges(d)
    PROVE  SettingsInv'
<1> USE SettingsAssumption DEF SettingsInv, SettingsTypeOK
<1> DEFINE sent == settingsCall[d].sent
           to == [settingsCall[d] EXCEPT !.step = "answered", !.cloud = setting']
<1>1. /\ setting' = MergeField(sent, setting)
      /\ settingsCall' = [settingsCall EXCEPT ![d] = to]
      /\ UNCHANGED <<kind, wall, choice, shown, lost, newest>>
  BY DEF Merges
<1>2. sent \in Choice BY DEF Call
<1>3. setting' \in Setting /\ setting'.at >= setting.at /\ (kind # "guide" => setting'.at >= sent.at)
  BY <1>1, <1>2, MergeType
<1>4. to \in Call /\ to.cloud = setting' /\ to.sent = sent BY <1>3 DEF Call
<1>5. setting.at \in Nat /\ setting'.at \in Nat /\ sent.at \in Nat /\ newest \in Nat
  BY <1>2, <1>3 DEF Setting, Choice
<1> HIDE DEF to
<1>6. SettingsTypeOK'
  <2>1. settingsCall' \in [SettingsDevices -> Call] BY <1>1, <1>4
  <2> QED BY <1>1, <1>3, <2>1
<1>7. CallsNotAhead'
  <2> SUFFICES ASSUME NEW o \in SettingsDevices
               PROVE  /\ settingsCall'[o].cloud.at <= setting'.at
                      /\ (kind' = "choice" /\ settingsCall'[o].step = "answered" =>
                            settingsCall'[o].sent.at <= settingsCall'[o].cloud.at)
    BY DEF CallsNotAhead
  <2>1. CASE o = d BY <1>1, <1>3, <1>4, <1>5, <2>1
  <2>2. CASE o # d
    <3>1. settingsCall'[o] = settingsCall[o] BY <1>1, <2>2
    <3>2. settingsCall[o].cloud.at <= setting.at /\ settingsCall[o].cloud.at \in Nat
      BY DEF CallsNotAhead, Call, Setting
    <3> QED BY <1>1, <1>3, <1>5, <3>1, <3>2 DEF CallsNotAhead
  <2> QED BY <2>1, <2>2
<1>8. NewestChoiceKept' BY <1>1, <1>3, <1>5 DEF NewestChoiceKept
<1> QED BY <1>1, <1>6, <1>7, <1>8

LEMMA TakesStep ==
    ASSUME SettingsInv, NEW d \in SettingsDevices, TakesStored(d)
    PROVE  SettingsInv'
<1> USE SettingsAssumption DEF SettingsInv, SettingsTypeOK
<1> DEFINE sent == settingsCall[d].sent
           saved == settingsCall[d].cloud
           takes == StillSent(choice[d], sent) /\ GivesWay(sent, saved)
           e == [value |-> saved.value, at |-> saved.at, synced |-> TRUE]
           to == IF takes /\ saved.value # sent.value
                 THEN [NoCall EXCEPT !.step = "end", !.shows = saved.value] ELSE NoCall
<1>1. /\ settingsCall[d].step = "answered" /\ CallGoes(d, to)
      /\ choice' = [choice EXCEPT ![d] = IF takes THEN e ELSE @]
      /\ UNCHANGED <<kind, wall, setting, shown, lost, newest>>
  BY DEF TakesStored
<1>2. saved \in Setting /\ saved.at <= setting.at /\ sent \in Choice BY DEF Call, CallsNotAhead
<1>3. kind = "choice" => sent.at <= saved.at BY <1>1 DEF CallsNotAhead
<1>4. e \in Choice BY <1>2 DEF Setting, Choice
<1>5. to \in Call BY <1>2, FreshCallType, NoCallType DEF Setting
<1>6. to.step # "answered" /\ to.cloud.at = 0 BY NoCallType DEF Call, NoSetting
<1>7. setting.at \in Nat /\ saved.at \in Nat /\ sent.at \in Nat BY <1>2 DEF Setting, Choice
<1>8. CASE takes
  <2>1. choice[d].at = sent.at BY <1>8 DEF StillSent
  <2>2. choice' = [choice EXCEPT ![d] = e] BY <1>1, <1>8
  <2> HIDE DEF to, e, saved, sent, takes
  <2>3. kind = "choice" => choice[d].at <= setting.at BY <1>2, <1>3, <1>7, <2>1
  <2>4. to.cloud.at <= setting.at BY <1>6, <1>7
  <2> HIDE DEF SettingsInv, SettingsTypeOK
  <2> QED BY <1>1, <1>4, <1>5, <1>6, <2>2, <2>3, <2>4, ChoiceGivesWay
<1>9. CASE ~takes
  <2>1. choice' = choice BY <1>1, <1>9
  <2> HIDE DEF to, takes
  <2>2. to.cloud.at <= setting.at /\ lost' \in 0..LostCalls /\ shown' \in [SettingsDevices -> Value]
    BY <1>1, <1>6, <1>7
  <2> HIDE DEF SettingsInv, SettingsTypeOK
  <2> QED BY <1>1, <1>5, <1>6, <2>1, <2>2, CallMoves
<1> QED BY <1>8, <1>9

LEMMA SettingsInvStep == SettingsInv /\ [SettingsNext]_settingsVars => SettingsInv'
<1> SUFFICES ASSUME SettingsInv, [SettingsNext]_settingsVars PROVE SettingsInv' OBVIOUS
<1> USE SettingsAssumption
<1>0. SettingsTypeOK /\ setting \in Setting /\ setting.at \in Nat
  BY DEF SettingsInv, SettingsTypeOK, Setting
<1>1. CASE Passes
  <2>1. wall' = wall + 1 /\ wall < LastInstant
        /\ UNCHANGED <<kind, setting, choice, shown, settingsCall, lost, newest>>
    BY <1>1 DEF Passes
  <2> QED BY <2>1 DEF SettingsInv, SettingsTypeOK, CallsNotAhead, NewestChoiceKept
<1>2. ASSUME NEW d \in SettingsDevices, Begins(d) PROVE SettingsInv'
  <2> DEFINE to == [NoCall EXCEPT !.step = "got", !.cloud = setting]
  <2>1. to \in Call BY <1>0, FreshCallType
  <2>2. to.step = "got" /\ to.cloud = setting BY NoCallType DEF Call
  <2>3. CallGoes(d, to) /\ UNCHANGED <<kind, wall, setting, choice, shown, lost, newest>>
    BY <1>2 DEF Begins
  <2> HIDE DEF to
  <2> QED BY <1>0, <2>1, <2>2, <2>3, CallMoves DEF SettingsTypeOK
<1>3. ASSUME NEW d \in SettingsDevices, Pushes(d) PROVE SettingsInv'
  <2> DEFINE to == [NoCall EXCEPT !.step = "send"]
  <2>1. to \in Call BY FreshCallType
  <2>2. to.step = "send" /\ to.cloud.at = 0 BY NoCallType DEF Call, NoSetting
  <2>3. CallGoes(d, to) /\ UNCHANGED <<kind, wall, setting, choice, shown, lost, newest>>
    BY <1>3 DEF Pushes
  <2> HIDE DEF to
  <2> QED BY <1>0, <2>1, <2>2, <2>3, CallMoves DEF SettingsTypeOK
<1>4. ASSUME NEW d \in SettingsDevices, Shows(d) PROVE SettingsInv'
  <2> DEFINE to == IF settingsCall[d].step = "end" THEN NoCall ELSE [NoCall EXCEPT !.step = "send"]
  <2>1. to \in Call BY FreshCallType, NoCallType
  <2>2. to.step # "answered" /\ to.cloud.at = 0 BY NoCallType DEF Call, NoSetting
  <2>3. CallGoes(d, to) /\ UNCHANGED <<kind, wall, setting, choice, lost, newest>>
    BY <1>4 DEF Shows
  <2>4. shown' \in [SettingsDevices -> Value] BY <1>0, <1>4 DEF Shows, SettingsTypeOK, Call
  <2> HIDE DEF to
  <2> QED BY <1>0, <2>1, <2>2, <2>3, <2>4, CallMoves DEF SettingsTypeOK
<1>5. ASSUME NEW d \in SettingsDevices, SendsPending(d) PROVE SettingsInv'
  <2> DEFINE to == IF choice[d].synced THEN NoCall ELSE [NoCall EXCEPT !.step = "sent", !.sent = choice[d]]
  <2>1. to \in Call BY <1>0, FreshCallType, NoCallType DEF SettingsTypeOK
  <2>2. to.step # "answered" /\ to.cloud.at = 0 BY NoCallType DEF Call, NoSetting
  <2>3. CallGoes(d, to) /\ UNCHANGED <<kind, wall, setting, choice, shown, lost, newest>>
    BY <1>5 DEF SendsPending
  <2> HIDE DEF to
  <2> QED BY <1>0, <2>1, <2>2, <2>3, CallMoves DEF SettingsTypeOK
<1>6. ASSUME NEW d \in SettingsDevices, Loses(d) PROVE SettingsInv'
  <2>1. lost' \in 0..LostCalls BY <1>0, <1>6 DEF Loses, SettingsTypeOK
  <2>2. NoCall.step # "answered" /\ NoCall.cloud.at = 0 BY NoCallType DEF NoSetting
  <2>3. CallGoes(d, NoCall) /\ UNCHANGED <<kind, wall, setting, choice, shown, newest>>
    BY <1>6 DEF Loses
  <2> QED BY <1>0, <2>1, <2>2, <2>3, NoCallType, CallMoves DEF SettingsTypeOK
<1>7. ASSUME NEW d \in SettingsDevices, AdoptsAccount(d) \/ Merges(d) \/ TakesStored(d) PROVE SettingsInv'
  BY <1>7, AdoptsStep, MergesStep, TakesStep
<1>8. ASSUME NEW d \in SettingsDevices, NEW v \in Value \ {0}, Chooses(d, v) PROVE SettingsInv'
  BY <1>8, ChoosesStep
<1>9. CASE UNCHANGED settingsVars
  BY <1>9 DEF settingsVars, SettingsInv, SettingsTypeOK, CallsNotAhead, NewestChoiceKept
<1> QED
  BY <1>1, <1>2, <1>3, <1>4, <1>5, <1>6, <1>7, <1>8, <1>9 DEF SettingsNext, SettingsStep

(* However syncs, immediate uploads, lost calls and further choices of any *)
(* number of devices interleave, the last choice of a setting is the       *)
(* account's, or still pending, or gave way to one of the same instant.    *)
THEOREM ChoicesKept == SettingsSpec => []NewestChoiceKept
<1>1. SettingsInv => NewestChoiceKept BY DEF SettingsInv
<1> QED BY <1>1, SettingsInitially, SettingsInvStep, PTL DEF SettingsSpec

-----------------------------------------------------------------------------
(***************************************************************************)
(* The session that made the account's key has it, and ciphertext of an    *)
(* old key is removed. The invariant adds that every key belongs to one    *)
(* session, and what each step of a run has learnt of the account's key    *)
(* and the device's.                                                       *)
(***************************************************************************)
Storing == {"store", "stored", "reread"}

(* Keys are numbered as they are made, and each is of one device's session. *)
KeysAreNew ==
    /\ accountKey <= made
    /\ \A d \in Holders : own[d] \subseteq 1..made
    /\ \A d \in Holders : keySetup[d] # 0 => keySetup[d] \in own[d]
    /\ \A d, e \in Holders : d # e => own[d] \cap own[e] = {}

(* What the steps of a run know of the account's key and of the device's.  *)
RunKnows(d) ==
    /\ keyRun[d].at = "asked" /\ accountKey \in own[d] => keyRun[d].key = accountKey
    /\ keyRun[d].at \in {"unlock", "create"} => accountKey \notin own[d]
    /\ keyRun[d].at \in {"unlock", "create"} \cup Storing => cached[d] = 0
    /\ keyRun[d].at \in Storing => keyRun[d].key = keySetup[d] /\ keySetup[d] # 0
    /\ accountKey \in own[d] => accountKey \in {cached[d], keySetup[d]}

KeyInv == /\ KeyTypeOK /\ KeysAreNew /\ OldCiphertextIsRemoved
          /\ \A d \in Holders : RunKnows(d)

LEMMA KeyInitially == KeyInit => KeyInv
<1> SUFFICES ASSUME KeyInit PROVE KeyInv
    OBVIOUS
<1> USE KeyAssumption
<1>1. KeyTypeOK
  <2>1. straddled \in BOOLEAN /\ uncleaned \in BOOLEAN
      BY Zenon DEF KeyInit
  <2>2. NoRun \in Run /\ 0 \in Keys0
      BY DEF NoRun, Run, Keys0
  <2> QED
      BY <2>1, <2>2 DEF KeyInit, KeyTypeOK
<1>2. KeysAreNew /\ \A d \in Holders : RunKnows(d)
    BY DEF KeyInit, KeysAreNew, RunKnows, NoRun, Storing
<1>3. OldCiphertextIsRemoved
    BY DEF KeyInit, OldCiphertextIsRemoved
<1> QED
    BY <1>1, <1>2, <1>3 DEF KeyInv

KeyStep(d) ==
    \/ Asks(d) \/ Decides(d) \/ Unlocks(d) \/ Cancels(d) \/ Resets(d) \/ Creates(d)
    \/ Stores(d) \/ CleansUp(d) \/ StoreFails(d) \/ Rereads(d)
    \/ ChecksUpload(d) \/ WritesUpload(d) \/ SignsOutAndIn(d)

(* The functions over devices, and their values. *)
LEMMA KeyRanges ==
    ASSUME KeyTypeOK
    PROVE  /\ keyRun \in [Holders -> Run]
           /\ cached \in [Holders -> Keys0] /\ keySetup \in [Holders -> Keys0]
           /\ own \in [Holders -> SUBSET Keys0]
           /\ \A d \in Holders : keyRun[d].key \in Keys0 /\ keyRun[d].key \in Nat
           /\ accountKey \in Nat /\ made \in Nat
    BY KeyAssumption DEF KeyTypeOK, Keys0, Run

LEMMA KeyTypeKept ==
    ASSUME KeyTypeOK, NEW d \in Holders, KeyStep(d)
    PROVE  KeyTypeOK'
<1> USE KeyAssumption, KeyRanges DEF KeyTypeOK
<1>1. \A at, key : at \in {"none", "asked", "unlock", "create", "store", "stored",
                           "reread", "ready", "checked"} /\ key \in Keys0
          => [keyRun EXCEPT ![d] = [at |-> at, key |-> key]] \in [Holders -> Run]
    BY DEF Run
<1>2. 0 \in Keys0 /\ NoRun \in Run /\ [keyRun EXCEPT ![d] = NoRun] \in [Holders -> Run]
    BY DEF Keys0, Run, NoRun
<1>3. \A key \in Keys0 : /\ [cached EXCEPT ![d] = key] \in [Holders -> Keys0]
                         /\ [keySetup EXCEPT ![d] = key] \in [Holders -> Keys0]
    OBVIOUS
<1>4. Fault => keyFaults' \in 0..KeyFaults
    BY DEF Fault
<1>5. CASE Asks(d)
    BY <1>1, <1>5 DEF Asks, Goes
<1>6. CASE Decides(d)
  <2>1. cached' \in [Holders -> Keys0] /\ keySetup' \in [Holders -> Keys0]
      BY <1>2, <1>3, <1>6 DEF Decides
  <2>2. keyRun' \in [Holders -> Run]
      BY <1>1, <1>2, <1>6 DEF Decides, Goes
  <2> QED
      BY <1>6, <2>1, <2>2 DEF Decides
<1>7. CASE Unlocks(d)
    BY <1>1, <1>3, <1>7 DEF Unlocks, Goes
<1>8. CASE Cancels(d) \/ ChecksUpload(d)
    BY <1>1, <1>2, <1>8 DEF Cancels, ChecksUpload, Goes, Ends
<1>9. CASE Resets(d)
    BY <1>1, <1>2, <1>3, <1>4, <1>9 DEF Resets, Goes
<1>10. CASE Creates(d)
  <2>1. made + 1 \in Keys0
      BY <1>10 DEF Creates, Keys0
  <2> QED
      BY <1>1, <1>3, <1>10, <2>1 DEF Creates, Goes, Remembered
<1>11. CASE Stores(d)
    BY <1>1, <1>11 DEF Stores, Goes
<1>12. CASE CleansUp(d)
    BY <1>1, <1>2, <1>3, <1>4, <1>12 DEF CleansUp, Goes, Cleaned
<1>13. CASE StoreFails(d)
  <2>1. uncleaned' \in BOOLEAN
      BY <1>13 DEF StoreFails
  <2> QED
      BY <1>1, <1>4, <1>13, <2>1 DEF StoreFails, Goes
<1>14. CASE Rereads(d)
    BY <1>1, <1>2, <1>3, <1>4, <1>14 DEF Rereads, Goes, Ends
<1>15. CASE WritesUpload(d)
  <2>1. straddled' \in BOOLEAN
      BY <1>15 DEF WritesUpload
  <2> QED
      BY <1>2, <1>15, <2>1 DEF WritesUpload, Ends
<1>16. CASE SignsOutAndIn(d)
    BY <1>2, <1>3, <1>16 DEF SignsOutAndIn, Ends
<1> QED
    BY <1>5, <1>6, <1>7, <1>8, <1>9, <1>10, <1>11, <1>12, <1>13, <1>14, <1>15, <1>16
    DEF KeyStep

(* A step of one device leaves the others alone; the account's key goes, or *)
(* is the one this device remembers.                                       *)
LEMMA KeyStepShape ==
    ASSUME KeyTypeOK, NEW d \in Holders, KeyStep(d),
           keyRun[d].at \in Storing => keyRun[d].key = keySetup[d] /\ keySetup[d] # 0
    PROVE  /\ \A e \in Holders \ {d} :
                 /\ keyRun'[e] = keyRun[e] /\ cached'[e] = cached[e]
                 /\ keySetup'[e] = keySetup[e] /\ own'[e] = own[e]
           /\ \/ accountKey' = accountKey
              \/ accountKey' = 0
              \/ accountKey = 0 /\ accountKey' = keySetup[d] /\ keySetup[d] # 0
<1> USE KeyRanges
<1>1. CASE Stores(d)
    BY <1>1 DEF Stores, Goes, Storing
<1>2. CASE ~Stores(d)
  <2>1. accountKey' = accountKey \/ accountKey' = 0
      BY <1>2
      DEF KeyStep, Asks, Decides, Unlocks, Cancels, Resets, Creates, CleansUp,
          StoreFails, Rereads, ChecksUpload, WritesUpload, SignsOutAndIn
  <2>2. \A e \in Holders \ {d} : keyRun'[e] = keyRun[e]
      BY <1>2
      DEF KeyStep, Asks, Decides, Unlocks, Cancels, Resets, Creates, CleansUp,
          StoreFails, Rereads, ChecksUpload, WritesUpload, SignsOutAndIn, Goes, Ends
  <2>3. \A e \in Holders \ {d} : /\ cached'[e] = cached[e] /\ keySetup'[e] = keySetup[e]
                                /\ own'[e] = own[e]
      BY <1>2
      DEF KeyStep, Asks, Decides, Unlocks, Cancels, Resets, Creates, CleansUp,
          StoreFails, Rereads, ChecksUpload, WritesUpload, SignsOutAndIn, Remembered
  <2> QED
      BY <2>1, <2>2, <2>3
<1> QED
    BY <1>1, <1>2

LEMMA KeysStayNew ==
    ASSUME KeyInv, NEW d \in Holders, KeyStep(d)
    PROVE  KeysAreNew'
<1> USE KeyRanges DEF KeyInv
<1>1. /\ \A e \in Holders \ {d} : keySetup'[e] = keySetup[e] /\ own'[e] = own[e]
      /\ accountKey' \in {accountKey, 0, keySetup[d]}
      /\ accountKey' = keySetup[d] => keySetup[d] = 0 \/ keySetup[d] \in own[d]
    BY KeyStepShape DEF RunKnows, KeysAreNew
<1>2. accountKey' \in Nat /\ accountKey' <= made
    BY <1>1, KeyAssumption DEF KeysAreNew
<1>3. CASE Creates(d)
  <2>1. /\ made' = made + 1 /\ keySetup'[d] = made + 1 /\ own'[d] = own[d] \cup {made + 1}
      BY <1>3 DEF Creates, Remembered
  <2>2. \A e \in Holders : made + 1 \notin own[e] /\ own[e] \subseteq 1..made + 1
      BY DEF KeysAreNew
  <2> QED
      BY <1>1, <1>2, <2>1, <2>2 DEF KeysAreNew
<1>4. CASE SignsOutAndIn(d)
  <2>1. made' = made /\ keySetup'[d] = 0 /\ own'[d] = {}
      BY <1>4 DEF SignsOutAndIn
  <2> QED
      BY <1>1, <1>2, <2>1 DEF KeysAreNew
<1>5. CASE ~Creates(d) /\ ~SignsOutAndIn(d)
  <2>1. made' = made /\ own'[d] = own[d] /\ keySetup'[d] \in {keySetup[d], 0}
      BY <1>5
      DEF KeyStep, Asks, Decides, Unlocks, Cancels, Resets, Stores, CleansUp,
          StoreFails, Rereads, ChecksUpload, WritesUpload
  <2> QED
      BY <1>1, <1>2, <2>1 DEF KeysAreNew
<1> QED
    BY <1>3, <1>4, <1>5

(* The other devices' keys are not this one's. *)
LEMMA OthersKnow ==
    ASSUME KeyInv, NEW d \in Holders, KeyStep(d), NEW e \in Holders, e # d
    PROVE  RunKnows(e)'
<1>1. /\ keyRun'[e] = keyRun[e] /\ cached'[e] = cached[e]
      /\ keySetup'[e] = keySetup[e] /\ own'[e] = own[e]
      /\ accountKey' = accountKey \/ accountKey' = 0 \/ accountKey' \in own[d]
    BY KeyStepShape DEF KeyInv, RunKnows, KeysAreNew
<1>2. accountKey' = accountKey \/ accountKey' \notin own[e]
    BY <1>1 DEF KeyInv, KeysAreNew
<1> QED
    BY <1>1, <1>2 DEF KeyInv, RunKnows

LEMMA ThisOneKnows ==
    ASSUME KeyInv, NEW d \in Holders, KeyStep(d)
    PROVE  RunKnows(d)'
<1> USE KeyRanges DEF KeyInv, Storing
<1>1. RunKnows(d) /\ KeysAreNew
    OBVIOUS
<1>2. CASE Asks(d)
    BY <1>1, <1>2 DEF Asks, Goes, RunKnows
<1>3. CASE Decides(d)
    BY <1>1, <1>3 DEF Decides, Goes, RunKnows, KeysAreNew
<1>4. CASE Unlocks(d) \/ Cancels(d) \/ ChecksUpload(d) \/ WritesUpload(d)
    BY <1>1, <1>4
    DEF Unlocks, Cancels, ChecksUpload, WritesUpload, Goes, Ends, NoRun, RunKnows
<1>5. CASE Resets(d)
    BY <1>1, <1>5 DEF Resets, Goes, RunKnows, KeysAreNew
<1>6. CASE Creates(d)
    BY <1>1, <1>6 DEF Creates, Remembered, Goes, RunKnows, KeysAreNew
<1>7. CASE Stores(d)
    BY <1>1, <1>7 DEF Stores, Goes, RunKnows
<1>8. CASE CleansUp(d) \/ StoreFails(d)
    BY <1>1, <1>8 DEF CleansUp, StoreFails, Goes, RunKnows
<1>9. CASE Rereads(d)
    BY <1>1, <1>9 DEF Rereads, Goes, Ends, NoRun, RunKnows
<1>10. CASE SignsOutAndIn(d)
    BY <1>1, <1>10 DEF SignsOutAndIn, Ends, NoRun, RunKnows
<1> QED
    BY <1>2, <1>3, <1>4, <1>5, <1>6, <1>7, <1>8, <1>9, <1>10 DEF KeyStep

LEMMA OldCiphertextGoes ==
    ASSUME KeyInv, NEW d \in Holders, KeyStep(d)
    PROVE  OldCiphertextIsRemoved'
<1> USE KeyRanges DEF KeyInv
<1>1. \A e \in Holders \ {d} : keyRun'[e] = keyRun[e]
    BY KeyStepShape DEF RunKnows
<1>2. CASE Stores(d)
    BY <1>2 DEF Stores, Goes, OldCiphertextIsRemoved, Cleaning
<1>3. CASE CleansUp(d)
  <2>1. /\ ciphertext' = Cleaned(ciphertext, keyRun[d].key)
        /\ UNCHANGED <<accountKey, straddled, uncleaned>>
      BY <1>3 DEF CleansUp
  <2>2. CASE keyRun[d].key = accountKey
      BY <2>1, <2>2 DEF Cleaned, OldCiphertextIsRemoved
  <2>3. CASE keyRun[d].key # accountKey
    <3>1. Cleaning => Cleaning'
        BY <1>1, <2>1, <2>3 DEF Cleaning
    <3> QED
        BY <2>1, <3>1 DEF Cleaned, OldCiphertextIsRemoved
  <2> QED
      BY <2>2, <2>3
<1>4. CASE StoreFails(d)
  <2>1. /\ UNCHANGED <<accountKey, ciphertext, straddled>>
        /\ uncleaned' <=> (uncleaned \/ keyRun[d].at = "stored")
      BY <1>4, Zenon DEF StoreFails
  <2>2. Cleaning => Cleaning' \/ keyRun[d].at = "stored"
      BY <1>1, <2>1 DEF Cleaning
  <2> QED
      BY <2>1, <2>2 DEF OldCiphertextIsRemoved
<1>5. CASE WritesUpload(d)
  <2>1. /\ UNCHANGED <<accountKey, uncleaned>> /\ ciphertext' = keyRun[d].key
        /\ keyRun[d].at = "checked"
      BY <1>5 DEF WritesUpload
  <2>2. straddled \/ (accountKey \notin {0, keyRun[d].key} /\ ~Cleaning) => straddled'
      BY <1>5, Zenon DEF WritesUpload
  <2>3. Cleaning => Cleaning'
      BY <1>1, <2>1 DEF Cleaning
  <2> QED
      BY <2>1, <2>2, <2>3 DEF OldCiphertextIsRemoved
<1>6. CASE Resets(d)
    BY <1>6 DEF Resets, OldCiphertextIsRemoved
<1>7. CASE ~(Stores(d) \/ CleansUp(d) \/ StoreFails(d) \/ WritesUpload(d) \/ Resets(d))
  <2>1. /\ UNCHANGED <<accountKey, ciphertext, straddled, uncleaned>>
        /\ keyRun[d].at # "stored"
      BY <1>7
      DEF KeyStep, Asks, Decides, Unlocks, Cancels, Creates, Rereads, ChecksUpload,
          SignsOutAndIn
  <2>2. Cleaning => Cleaning'
      BY <1>1, <2>1 DEF Cleaning
  <2> QED
      BY <2>1, <2>2 DEF OldCiphertextIsRemoved
<1> QED
    BY <1>2, <1>3, <1>4, <1>5, <1>6, <1>7

LEMMA KeyInductive == KeyInv /\ [KeyNext]_keyVars => KeyInv'
<1> SUFFICES ASSUME KeyInv, [KeyNext]_keyVars PROVE KeyInv'
    OBVIOUS
<1>1. ASSUME NEW d \in Holders, KeyStep(d)
      PROVE  KeyInv'
  <2>1. KeyTypeOK' /\ KeysAreNew' /\ OldCiphertextIsRemoved'
      BY <1>1, KeyTypeKept, KeysStayNew, OldCiphertextGoes DEF KeyInv
  <2>2. \A e \in Holders : RunKnows(e)'
      BY <1>1, OthersKnow, ThisOneKnows
  <2> QED
      BY <2>1, <2>2 DEF KeyInv
<1>2. CASE UNCHANGED keyVars
    BY <1>2
    DEF keyVars, KeyInv, KeyTypeOK, KeysAreNew, RunKnows, OldCiphertextIsRemoved, Cleaning
<1> QED
    BY <1>1, <1>2 DEF KeyNext, KeyStep

(* Whatever requests and answers are lost and whoever resets the key, the  *)
(* session that made the account's key has it (keySetup, storeKeySetup in  *)
(* syncKeyManager.ts), for any number of devices and keys.                 *)
THEOREM OwnKeyFinished == KeySpec => []OwnKeyIsFinished
<1>1. KeyInv => OwnKeyIsFinished
    BY DEF KeyInv, RunKnows, OwnKeyIsFinished
<1> QED
    BY <1>1, KeyInitially, KeyInductive, PTL DEF KeySpec

(* Ciphertext of another key stays on the account only by the ways named:  *)
(* an upload that straddles a reset and the next clean-up (putReflections) *)
(* or a clean-up that never ran (putSyncKey).                              *)
THEOREM OldCiphertextRemoved == KeySpec => []OldCiphertextIsRemoved
<1>1. KeyInv => OldCiphertextIsRemoved
    BY DEF KeyInv
<1> QED
    BY <1>1, KeyInitially, KeyInductive, PTL DEF KeySpec

-----------------------------------------------------------------------------
(***************************************************************************)
(* No text of a reflection is lost but the one nobody else had read.       *)
(*                                                                         *)
(* A base is only an instant, so what it stands for is said by the         *)
(* invariant: a synced entry was on the account (GotTo) with a text that   *)
(* is safe, and a text of the account at the instant of a base is the      *)
(* entry's own or one its reader has replaced (EntryInv). A sync's copies  *)
(* stay true while it runs (SnapshotInv), and each of its steps has kept   *)
(* what the next one overwrites: the upload the text it read, the download *)
(* the text of the entry (UploadInv).                                      *)
(***************************************************************************)

LEMMA NoMergeType == NoMerge \in Merge /\ NoNote \in Note /\ NoVersion \in Version
<1>1. NoNote \in Note /\ NoVersion \in Version
    BY ReflectionAssumption DEF NoNote, NoVersion, Note, Version
<1> QED
    BY <1>1 DEF NoMerge, Merge

LEMMA ReflectionInitType == ReflectionInit => ReflectionTypeOK
    BY NoMergeType, ReflectionAssumption DEF ReflectionInit, ReflectionTypeOK

LEMMA PutType ==
    ASSUME ReflectionTypeOK, NEW sent \in Version, NEW cloud, PutReflection(sent, cloud)
    PROVE  held' \in Version /\ preserved' \subseteq Texts /\ unread' \subseteq Texts
<1>1. held \in Version /\ preserved \subseteq Texts /\ unread \subseteq Texts
    BY DEF ReflectionTypeOK
<1>2. \A v \in Version : Active(v) => v.text \in Texts
    BY ReflectionAssumption DEF Active, Version, Texts
<1> QED
    BY <1>1, <1>2 DEF PutReflection

LEMMA ReflectionNextType ==
    ASSUME ReflectionTypeOK, [ReflectionNext]_reflectionVars
    PROVE  ReflectionTypeOK'
<1> USE ReflectionAssumption DEF ReflectionTypeOK
<1>0. \A d \in Writers : merge[d] \in Merge /\ entry[d] \in Note
    OBVIOUS
<1>1. CASE Ticks
    BY <1>1 DEF Ticks
<1>2. ASSUME NEW d \in Writers, Save(d) \/ Delete(d)
      PROVE  ReflectionTypeOK'
  <2>1. PICK text \in 0..MaxTexts :
          /\ clock > entry[d].at
          /\ entry' = [entry EXCEPT ![d] = [text |-> text, at |-> clock, base |-> entry[d].base]]
          /\ seen' = IF Active(entry[d]) THEN seen \union {entry[d].text} ELSE seen
          /\ UNCHANGED <<clock, kept, held, preserved, merge, stops, late, unread>>
    <3>1. written \in Nat /\ 0 \in 0..MaxTexts
        OBVIOUS
    <3>2. CASE Save(d)
      <4>1. written + 1 \in 0..MaxTexts
          BY <3>1, <3>2 DEF Save
      <4>2. Rewrites(d, written + 1)
          BY <3>2 DEF Save
      <4> QED
          BY <4>1, <4>2 DEF Rewrites
    <3>3. CASE Delete(d)
        BY <1>2, <3>1, <3>3 DEF Delete, Rewrites
    <3> QED
        BY <1>2, <3>2, <3>3
  <2>2. [text |-> text, at |-> clock, base |-> entry[d].base] \in Note
      BY <1>0 DEF Note
  <2>3. entry' \in [Writers -> Note]
      BY <2>1, <2>2
  <2>4. seen' \subseteq Texts
    <3>1. Active(entry[d]) => entry[d].text \in Texts
        BY <1>0 DEF Note, Active, Texts
    <3> QED
        BY <2>1, <3>1
  <2>5. written' \in 0..MaxTexts
      BY <1>2 DEF Save, Delete
  <2> QED
      BY <2>1, <2>3, <2>4, <2>5
<1>3. ASSUME NEW d \in Writers, ReadBoth(d)
      PROVE  ReflectionTypeOK'
    BY <1>3 DEF ReadBoth, TextsToKeep, Yields, Active, Note, Version, Texts, Merge, NoVersion,
                Concurrent, NeedsUpload
<1>4. ASSUME NEW d \in Writers, Uploads(d)
      PROVE  ReflectionTypeOK'
  <2>1. VersionOf(merge[d].local) \in Version
      BY <1>0 DEF VersionOf, Merge, Note, Version
  <2>2. held' \in Version /\ preserved' \subseteq Texts /\ unread' \subseteq Texts
      BY <1>4, <2>1, PutType DEF Uploads
  <2>3. merge' \in [Writers -> Merge]
    <3>1. PICK saved \in {"sent", "own"} :
            merge' = [merge EXCEPT ![d] = [merge[d] EXCEPT !.step = "answered", !.saved = saved]]
        BY <1>4 DEF Uploads
    <3>2. [merge[d] EXCEPT !.step = "answered", !.saved = saved] \in Merge
        BY <1>0 DEF Merge
    <3> QED
        BY <3>1, <3>2
  <2> QED
      BY <1>4, <2>2, <2>3 DEF Uploads
<1>5. ASSUME NEW d \in Writers, TakesAnswer(d)
      PROVE  ReflectionTypeOK'
  <2>1. Marked(entry[d], merge[d]) \in Note
      BY <1>0 DEF Marked, Note, Merge
  <2>2. Raced(merge[d]) \in BOOLEAN /\ (Raced(merge[d]) => merge[d].local.text \in Texts)
      BY <1>0 DEF Raced, Active, Merge, Note, Texts
  <2>3. merge[d].adopt \in BOOLEAN
      BY <1>0 DEF Merge
  <2>4. (merge[d].adopt \/ Raced(merge[d])) \in BOOLEAN
      BY <2>2, <2>3
  <2>5. merge' \in [Writers -> Merge]
      BY <1>0, <1>5, <2>4, ZenonT(60) DEF TakesAnswer, Merge
  <2> QED
      BY <1>5, <2>1, <2>2, <2>5 DEF TakesAnswer
<1>6. ASSUME NEW d \in Writers, Applies(d)
      PROVE  ReflectionTypeOK'
  <2> DEFINE cloud == IF merge[d].saved = "none" THEN merge[d].cloud ELSE held
  <2>1. cloud \in Version
      BY <1>0 DEF Merge
  <2>2. [text |-> cloud.text, at |-> cloud.at, base |-> cloud.at] \in Note
      BY <2>1 DEF Version, Note
  <2>3. entry' \in [Writers -> Note]
      BY <1>6, <2>2 DEF Applies
  <2>4. kept' \in [Writers -> SUBSET Texts]
      BY <1>6 DEF Applies
  <2> QED
      BY <1>6, <2>3, <2>4, NoMergeType DEF Applies
<1>7. ASSUME NEW d \in Writers, CutShort(d)
      PROVE  ReflectionTypeOK'
  <2>1. [sent |-> VersionOf(merge[d].local), cloud |-> merge[d].cloud] \in Upload
      BY <1>0 DEF VersionOf, Merge, Note, Version, Upload
  <2>2. late' \subseteq Upload
      BY <1>7, <2>1 DEF CutShort
  <2> QED
      BY <1>7, <2>2, NoMergeType DEF CutShort
<1>8. ASSUME NEW u \in late, ArrivesLate(u)
      PROVE  ReflectionTypeOK'
  <2>1. u.sent \in Version
      BY DEF Upload
  <2>2. held' \in Version /\ preserved' \subseteq Texts /\ unread' \subseteq Texts
      BY <1>8, <2>1, PutType DEF ArrivesLate
  <2> QED
      BY <1>8, <2>2 DEF ArrivesLate
<1>9. CASE UNCHANGED reflectionVars
    BY <1>9 DEF reflectionVars
<1> QED
    BY <1>1, <1>2, <1>3, <1>4, <1>5, <1>6, <1>7, <1>8, <1>9 DEF ReflectionNext, MergeStep

(* A text that cannot be missed: replaced where it was shown or before it  *)
(* was read, kept beside the current one, or one of the case of two texts  *)
(* of one instant, which the property leaves out.                          *)
Accounted(t) ==
    preserved # {} \/ t \in seen \/ t \in unread \/ \E d \in Writers : t \in kept[d]
Safe(t) == Accounted(t) \/ held.text = t

(* The account has got as far as v, and past v's text if v is a deletion.  *)
GotTo(v) == v.at <= held.at /\ (v.text = 0 /\ v.at = held.at => held.text = 0)
(* A text of v's instant on the account is v's.                            *)
IsThat(v) == held.at = v.at /\ Active(held) => held.text = v.text

(* A synced entry and what an entry is based on were on the account; the   *)
(* text an entry is based on was shown on its device.                      *)
EntryInv(d) ==
    LET e == entry[d] IN
    /\ e.base <= e.at /\ e.at <= clock /\ e.base <= held.at
    /\ e.at # 0 /\ Synced(e) => GotTo(e)
    /\ Active(e) => e.at # 0 /\ (Synced(e) => Safe(e.text))
    /\ e.base = held.at /\ Active(held) => held.text = e.text \/ Accounted(held.text)

(* What a sync has read and been told.                                     *)
SnapshotInv(d) ==
    LET m == merge[d] IN
    /\ m.local.at <= entry[d].at
    /\ m.local.at = entry[d].at => m.local.text = entry[d].text
    /\ Active(m.local) /\ m.local.at # entry[d].at => m.local.text \in seen
    /\ GotTo(m.cloud) /\ IsThat(m.cloud)
    /\ Active(m.cloud) => Safe(m.cloud.text)
UploadInv(m) ==
    /\ m.step = "upload" =>
         /\ m.local.at # 0
         /\ Active(m.cloud) => Accounted(m.cloud.text) \/ m.cloud.text = m.local.text
    /\ m.step = "answered" =>
         /\ GotTo(m.local)
         /\ preserved = {} => IsThat(m.local)
         /\ Active(m.local) => Raced(m) \/ Safe(m.local.text)
    /\ m.step = "apply" /\ Active(m.local) =>
         \/ Safe(m.local.text)
         \/ /\ m.saved = "none"
            /\ Downloads(m.local, m.cloud, m.adopt) => m.cloud.text = m.local.text
MergeInv(d) == merge[d].step # "idle" => SnapshotInv(d) /\ UploadInv(merge[d])

(* An upload that arrives late replaces no text its sync has not kept.     *)
LateInv(u) ==
    /\ u.sent.at <= clock
    /\ Active(u.cloud) => Accounted(u.cloud.text) \/ u.cloud.text = u.sent.text

TextInv == \A t \in 1..written : Safe(t) \/ \E d \in Writers : entry[d].text = t

ReflectionInv ==
    /\ ReflectionTypeOK
    /\ held.at <= clock
    /\ \A d \in Writers : EntryInv(d) /\ MergeInv(d)
    /\ \A u \in late : LateInv(u)
    /\ TextInv

LEMMA ReflectionInitInv == ReflectionInit => ReflectionInv
    BY ReflectionInitType, ReflectionAssumption
    DEF ReflectionInit, ReflectionInv, EntryInv, MergeInv, TextInv, NoNote, NoVersion, NoMerge,
        Active, Synced, GotTo

(* The account only moves on to a later version, or to a deletion at the   *)
(* instant of a text; what was preserved or seen stays so.                 *)
LEMMA HeldMoves ==
    ASSUME ReflectionTypeOK, [ReflectionNext]_reflectionVars
    PROVE  /\ \/ held' = held
              \/ held.at < held'.at
              \/ held.at = held'.at /\ held'.text = 0
           /\ preserved' = {} => preserved = {}
           /\ seen \subseteq seen' /\ unread \subseteq unread'
           /\ \A d \in Writers : kept[d] \subseteq kept'[d]
<1> USE DEF ReflectionTypeOK
<1>1. ASSUME NEW sent \in Version, NEW cloud, PutReflection(sent, cloud)
      PROVE  /\ \/ held' = held
                \/ held.at < held'.at
                \/ held.at = held'.at /\ held'.text = 0
             /\ preserved \subseteq preserved' /\ unread \subseteq unread'
  <2>1. held' = held \/ (Wins(sent, held) /\ held' = sent)
      BY <1>1 DEF PutReflection
  <2>2. preserved \subseteq preserved' /\ unread \subseteq unread'
      BY <1>1 DEF PutReflection
  <2> QED
      BY <2>1, <2>2 DEF Wins, Tombstone, Version
<1>4. ASSUME NEW d \in Writers, Uploads(d)
      PROVE  /\ PutReflection(VersionOf(merge[d].local), merge[d].cloud)
             /\ VersionOf(merge[d].local) \in Version /\ UNCHANGED <<seen, kept>>
  <2>1. merge[d].local \in Note
      BY DEF Merge
  <2> QED
      BY <1>4, <2>1 DEF Uploads, VersionOf, Note, Version
<1>5. ASSUME NEW u \in late, ArrivesLate(u)
      PROVE  PutReflection(u.sent, u.cloud) /\ u.sent \in Version /\ UNCHANGED <<seen, kept>>
    BY <1>5 DEF ArrivesLate, Upload
<1>2. ASSUME NEW d \in Writers, Save(d) \/ Delete(d)
      PROVE  UNCHANGED <<held, preserved, unread, kept>> /\ seen \subseteq seen'
    BY <1>2 DEF Save, Delete, Rewrites
<1>3. ASSUME NEW d \in Writers, ReadBoth(d) \/ TakesAnswer(d) \/ Applies(d) \/ CutShort(d)
      PROVE  /\ UNCHANGED <<held, preserved, unread, seen>>
             /\ \A c \in Writers : kept[c] \subseteq kept'[c]
  <2>1. UNCHANGED <<held, preserved, unread, seen>>
      BY <1>3 DEF ReadBoth, TakesAnswer, Applies, CutShort
  <2>2. CASE ReadBoth(d)
      BY <2>2 DEF ReadBoth
  <2>3. CASE TakesAnswer(d)
      BY <2>3 DEF TakesAnswer
  <2>4. CASE Applies(d)
      BY <2>4 DEF Applies
  <2>5. CASE CutShort(d)
      BY <2>5 DEF CutShort
  <2> QED
      BY <1>3, <2>1, <2>2, <2>3, <2>4, <2>5
<1> QED
    BY <1>1, <1>2, <1>3, <1>4, <1>5 DEF ReflectionNext, MergeStep, Ticks, reflectionVars

LEMMA AccountedStays ==
    ASSUME ReflectionTypeOK, [ReflectionNext]_reflectionVars, NEW t, Accounted(t)
    PROVE  Accounted(t)'
    BY HeldMoves DEF Accounted

(* Nothing safe is lost: an upload that replaces the text it read has it   *)
(* accounted for.                                                          *)
LEMMA SafeStays ==
    ASSUME ReflectionInv, [ReflectionNext]_reflectionVars, NEW t \in Texts, Safe(t)
    PROVE  Safe(t)'
<1>1. ReflectionTypeOK
    BY DEF ReflectionInv
<1>2. CASE Accounted(t)
    BY <1>1, <1>2, AccountedStays DEF Safe
<1>3. CASE held' = held
    BY <1>1, <1>3, AccountedStays DEF Safe
<1>4. CASE held.text = t /\ held' # held
  <2>1. PICK sent, cloud :
          /\ PutReflection(sent, cloud)
          /\ Active(cloud) => Accounted(cloud.text) \/ cloud.text = sent.text
    <3>1. \/ \E d \in Writers : Uploads(d)
          \/ \E u \in late : ArrivesLate(u)
        BY <1>4 DEF ReflectionNext, MergeStep, Ticks, reflectionVars, Save, Delete, Rewrites,
                    ReadBoth, TakesAnswer, Applies, CutShort
    <3>2. ASSUME NEW d \in Writers, Uploads(d)
          PROVE  LET sent == VersionOf(merge[d].local)
                     cloud == merge[d].cloud IN
                 /\ PutReflection(sent, cloud)
                 /\ Active(cloud) => Accounted(cloud.text) \/ cloud.text = sent.text
        BY <3>2 DEF Uploads, ReflectionInv, MergeInv, UploadInv, VersionOf
    <3>3. ASSUME NEW u \in late, ArrivesLate(u)
          PROVE  /\ PutReflection(u.sent, u.cloud)
                 /\ Active(u.cloud) => Accounted(u.cloud.text) \/ u.cloud.text = u.sent.text
        BY <3>3 DEF ArrivesLate, ReflectionInv, LateInv
    <3> QED
        BY <3>1, <3>2, <3>3
  <2>2. Wins(sent, held) /\ held' = sent
      BY <1>4, <2>1 DEF PutReflection
  <2>3. Active(held)
      BY <1>4 DEF Active, Texts
  <2>4. CASE held # cloud
      BY <1>4, <2>1, <2>2, <2>3, <2>4 DEF PutReflection, Safe, Accounted
  <2>5. CASE held = cloud
    <3>1. Accounted(t) \/ t = sent.text
        BY <1>4, <2>1, <2>3, <2>5
    <3> QED
        BY <1>2, <2>2, <3>1 DEF Safe
  <2> QED
      BY <2>4, <2>5
<1> QED
    BY <1>2, <1>3, <1>4 DEF Safe

LEMMA GotToStays ==
    ASSUME ReflectionTypeOK, ReflectionTypeOK', [ReflectionNext]_reflectionVars,
           NEW v, v.at \in Nat, GotTo(v)
    PROVE  GotTo(v)' /\ (IsThat(v) => IsThat(v)')
<1>1. held.at \in Nat /\ held'.at \in Nat
    BY DEF ReflectionTypeOK, Version
<1> QED
    BY <1>1, HeldMoves DEF GotTo, IsThat, Active

LEMMA ClockMoves ==
    ASSUME ReflectionTypeOK, [ReflectionNext]_reflectionVars
    PROVE  clock \in Nat /\ clock' \in Nat /\ clock <= clock'
<1>1. clock \in Nat
    BY DEF ReflectionTypeOK
<1>2. clock' = clock \/ clock' = clock + 1
    BY DEF ReflectionNext, MergeStep, Ticks, reflectionVars, Save, Delete, Rewrites, ReadBoth,
           Uploads, TakesAnswer, Applies, CutShort, ArrivesLate
<1> QED
    BY <1>1, <1>2

(* The types the steps need, of one device. *)
LEMMA NoteTypes ==
    ASSUME ReflectionTypeOK, NEW d \in Writers
    PROVE  /\ entry[d] \in Note /\ entry[d].at \in Nat /\ entry[d].base \in Nat
           /\ entry[d].text \in Nat /\ (Active(entry[d]) => entry[d].text \in Texts)
           /\ merge[d].local \in Note /\ merge[d].local.at \in Nat
           /\ merge[d].local.text \in Nat
           /\ Active(merge[d].local) => merge[d].local.text \in Texts
           /\ merge[d].cloud \in Version /\ merge[d].cloud.at \in Nat
           /\ Active(merge[d].cloud) => merge[d].cloud.text \in Texts
           /\ held.at \in Nat /\ held.text \in Nat /\ (Active(held) => held.text \in Texts)
<1>1. entry[d] \in Note /\ merge[d].local \in Note /\ merge[d].cloud \in Version /\ held \in Version
    BY DEF ReflectionTypeOK, Merge
<1>2. \A e \in Note : e.at \in Nat /\ e.base \in Nat /\ e.text \in 0..MaxTexts
    BY ReflectionAssumption DEF Note
<1>3. \A v \in Version : v.at \in Nat /\ v.text \in 0..MaxTexts
    BY ReflectionAssumption DEF Version
<1> QED
    BY <1>1, <1>2, <1>3, ReflectionAssumption DEF Active, Texts

(* An entry that the step leaves alone. *)
LEMMA EntryKept ==
    ASSUME ReflectionInv, ReflectionTypeOK', [ReflectionNext]_reflectionVars,
           NEW d \in Writers, entry'[d] = entry[d]
    PROVE  EntryInv(d)'
<1>1. ReflectionTypeOK /\ EntryInv(d)
    BY DEF ReflectionInv
<1>2. PICK v : v = entry[d]
    OBVIOUS
<1>3. /\ v.at \in Nat /\ v.base \in Nat /\ (Active(v) => v.text \in Texts)
      /\ held.at \in Nat /\ clock \in Nat /\ clock' \in Nat /\ clock <= clock'
    BY <1>1, <1>2, NoteTypes, ClockMoves
<1>4. held'.at \in Nat
    BY DEF ReflectionTypeOK, Version
<1>5. v.at # 0 /\ Synced(v) => GotTo(v)'
    BY <1>1, <1>2, <1>3, GotToStays DEF EntryInv
<1>6. Active(v) => v.at # 0 /\ (Synced(v) => Safe(v.text)')
    BY <1>1, <1>2, <1>3, SafeStays DEF EntryInv
<1>7. v.base <= v.at /\ v.at <= clock' /\ v.base <= held'.at
    BY <1>1, <1>2, <1>3, <1>4, HeldMoves DEF EntryInv
<1>8. ASSUME NEW t, t = held'.text, v.base = held'.at, t # 0
      PROVE  t = v.text \/ Accounted(t)'
  <2>1. held' = held
      BY <1>1, <1>2, <1>3, <1>8, HeldMoves DEF EntryInv
  <2>2. t = v.text \/ Accounted(t)
      BY <1>1, <1>2, <1>8, <2>1 DEF EntryInv, Active
  <2> QED
      BY <1>1, <2>2, AccountedStays
<1> QED
    BY <1>2, <1>5, <1>6, <1>7, <1>8 DEF EntryInv, GotTo, Safe, Accounted, Active

(* An entry that the step leaves as it was read, or that the reader or the *)
(* sync moved on from.                                                     *)
MovedOn(d) ==
    \/ entry'[d].at = entry[d].at /\ entry'[d].text = entry[d].text
    \/ entry[d].at < entry'[d].at /\ (Active(entry[d]) => entry[d].text \in seen')

(* What a sync has read stays true while it runs. *)
LEMMA SnapshotKept ==
    ASSUME ReflectionInv, ReflectionTypeOK', [ReflectionNext]_reflectionVars,
           NEW d \in Writers, MovedOn(d), merge[d].step # "idle",
           merge'[d].local = merge[d].local, merge'[d].cloud = merge[d].cloud
    PROVE  SnapshotInv(d)'
<1>1. ReflectionTypeOK /\ SnapshotInv(d)
    BY DEF ReflectionInv, MergeInv
<1>2. PICK l, c : l = merge[d].local /\ c = merge[d].cloud
    OBVIOUS
<1>3. /\ l.at \in Nat /\ c.at \in Nat /\ entry[d].at \in Nat
      /\ Active(c) => c.text \in Texts
    BY <1>1, <1>2, NoteTypes
<1>4. entry'[d].at \in Nat
  <2>1. entry'[d] \in Note
      BY DEF ReflectionTypeOK
  <2> QED
      BY <2>1, ReflectionAssumption DEF Note
<1>5. GotTo(c)' /\ IsThat(c)' /\ (Active(c) => Safe(c.text)')
    BY <1>1, <1>2, <1>3, GotToStays, SafeStays DEF SnapshotInv
<1>6. /\ l.at <= entry'[d].at
      /\ l.at = entry'[d].at => l.text = entry'[d].text
      /\ Active(l) /\ l.at # entry'[d].at => l.text \in seen'
    BY <1>1, <1>2, <1>3, <1>4, HeldMoves DEF SnapshotInv, MovedOn, Active
<1> QED
    BY <1>2, <1>5, <1>6 DEF SnapshotInv, GotTo, IsThat, Safe, Accounted, Active

(* A sync that the step leaves alone. *)
LEMMA MergeKept ==
    ASSUME ReflectionInv, ReflectionTypeOK', [ReflectionNext]_reflectionVars,
           NEW d \in Writers, MovedOn(d), merge'[d] = merge[d]
    PROVE  MergeInv(d)'
<1> SUFFICES ASSUME merge[d].step # "idle"
             PROVE  SnapshotInv(d)' /\ UploadInv(merge[d])'
    BY DEF MergeInv
<1>1. ReflectionTypeOK /\ UploadInv(merge[d])
    BY DEF ReflectionInv, MergeInv
<1>2. SnapshotInv(d)'
    BY SnapshotKept
<1>3. PICK m : m = merge[d]
    OBVIOUS
<1>4. /\ m.local.at \in Nat
      /\ Active(m.local) => m.local.text \in Texts
    BY <1>1, <1>3, NoteTypes
<1>5. m.step = "upload" =>
        /\ m.local.at # 0
        /\ Active(m.cloud) => Accounted(m.cloud.text)' \/ m.cloud.text = m.local.text
    BY <1>1, <1>3, AccountedStays DEF UploadInv
<1>6. m.step = "answered" =>
        /\ GotTo(m.local)' /\ (preserved' = {} => IsThat(m.local)')
        /\ Active(m.local) => Raced(m) \/ Safe(m.local.text)'
    BY <1>1, <1>3, <1>4, GotToStays, SafeStays, HeldMoves DEF UploadInv
<1>7. m.step = "apply" /\ Active(m.local) =>
        \/ Safe(m.local.text)'
        \/ /\ m.saved = "none"
           /\ Downloads(m.local, m.cloud, m.adopt) => m.cloud.text = m.local.text
    BY <1>1, <1>3, <1>4, SafeStays DEF UploadInv
<1>8. UploadInv(m)'
    BY <1>5, <1>6, <1>7 DEF UploadInv, GotTo, IsThat, Safe, Accounted
<1> QED
    BY <1>2, <1>3, <1>8 DEF UploadInv, GotTo, IsThat, Safe, Accounted

(* The texts, when the entries that a step overwrites hold no text that    *)
(* could be missed.                                                        *)
LEMMA TextsKept ==
    ASSUME ReflectionInv, ReflectionTypeOK', [ReflectionNext]_reflectionVars, written' = written,
           \A d \in Writers : \A t \in Texts :
              entry[d].text = t /\ entry'[d].text # t => Safe(t) \/ Safe(t)'
    PROVE  TextInv'
<1>1. SUFFICES ASSUME NEW t \in 1..written
               PROVE  Safe(t)' \/ \E d \in Writers : entry'[d].text = t
    BY DEF TextInv
<1>2. t \in Texts
    BY <1>1, ReflectionAssumption DEF ReflectionInv, ReflectionTypeOK, Texts
<1>3. CASE Safe(t)
    BY <1>2, <1>3, SafeStays
<1>4. ASSUME NEW d \in Writers, entry[d].text = t
      PROVE  Safe(t)' \/ \E c \in Writers : entry'[c].text = t
    BY <1>2, <1>3, <1>4
<1> QED
    BY <1>3, <1>4 DEF ReflectionInv, TextInv

(* The devices that a step of another one leaves alone. *)
LEMMA DeviceKept ==
    ASSUME ReflectionInv, ReflectionTypeOK', [ReflectionNext]_reflectionVars,
           NEW d \in Writers, entry'[d] = entry[d], merge'[d] = merge[d]
    PROVE  EntryInv(d)' /\ MergeInv(d)'
    BY EntryKept, MergeKept DEF MovedOn

(* An idle sync has nothing to keep. *)
LEMMA IdleMerge ==
    ASSUME NEW d \in Writers, merge'[d] = NoMerge
    PROVE  MergeInv(d)'
    BY DEF MergeInv, NoMerge

LEMMA RewritesInv ==
    ASSUME ReflectionInv, ReflectionTypeOK', [ReflectionNext]_reflectionVars,
           NEW d \in Writers, NEW text \in 0..MaxTexts, Rewrites(d, text),
           \/ written' = written
           \/ written' = written + 1 /\ text = written + 1
    PROVE  (\A c \in Writers : EntryInv(c)' /\ MergeInv(c)') /\ TextInv'
<1>1. ReflectionTypeOK /\ EntryInv(d) /\ TextInv
    BY DEF ReflectionInv
<1>2. PICK e : e = entry[d]
    OBVIOUS
<1>3. /\ e.at \in Nat /\ e.base \in Nat /\ clock \in Nat /\ held.at \in Nat
      /\ (Active(e) => e.text \in Texts) /\ e.text \in Nat
    BY <1>1, <1>2, NoteTypes, ClockMoves
<1>4. /\ clock > e.at /\ clock' = clock /\ held' = held /\ preserved' = preserved
      /\ kept' = kept /\ merge' = merge
      /\ entry' = [entry EXCEPT ![d] = [text |-> text, at |-> clock, base |-> e.base]]
      /\ seen' = IF Active(e) THEN seen \union {e.text} ELSE seen
    BY <1>2 DEF Rewrites
<1>5. /\ entry'[d] = [text |-> text, at |-> clock, base |-> e.base]
      /\ \A c \in Writers : c # d => entry'[c] = entry[c]
    BY <1>1, <1>4 DEF ReflectionTypeOK
<1>6. PICK n : n = entry'[d]
    OBVIOUS
<1>7. n.text = text /\ n.at = clock /\ n.base = e.base
    BY <1>5, <1>6
<1>8. EntryInv(d)'
  <2>1. n.base < n.at /\ n.at <= clock' /\ n.base <= held'.at /\ ~Synced(n) /\ n.at # 0
      BY <1>1, <1>2, <1>3, <1>4, <1>7 DEF EntryInv, Synced
  <2>2. ASSUME NEW t, t = held'.text, n.base = held'.at, t # 0
        PROVE  Accounted(t)'
    <3>1. t = e.text \/ Accounted(t)
        BY <1>1, <1>2, <1>4, <1>7, <2>2 DEF EntryInv, Active
    <3>2. CASE t = e.text
      <4>1. t \in seen'
          BY <1>4, <2>2, <3>2 DEF Active
      <4> QED
          BY <4>1 DEF Accounted
    <3> QED
        BY <1>1, <3>1, <3>2, AccountedStays
  <2>3. n.base <= n.at
      BY <1>3, <1>4, <1>7, <2>1
  <2> QED
      BY <1>6, <2>1, <2>2, <2>3 DEF EntryInv, GotTo, Safe, Accounted, Active, Synced
<1>9. MovedOn(d)
    BY <1>2, <1>4, <1>6, <1>7 DEF MovedOn, Active
<1>10. ASSUME NEW c \in Writers
       PROVE  EntryInv(c)' /\ MergeInv(c)'
  <2>1. CASE c = d
      BY <1>4, <1>8, <1>9, <2>1, MergeKept
  <2>2. CASE c # d
      BY <1>4, <1>5, <2>2, DeviceKept
  <2> QED
      BY <2>1, <2>2
<1>11. TextInv'
  <2>1. SUFFICES ASSUME NEW t \in 1..written'
                 PROVE  Safe(t)' \/ \E c \in Writers : entry'[c].text = t
      BY DEF TextInv
  <2>2. CASE t = written + 1 /\ t = text
      BY <1>6, <1>7, <2>2
  <2>3. CASE t \in 1..written
    <3>1. t \in Texts
        BY <1>1, <2>3, ReflectionAssumption DEF ReflectionTypeOK, Texts
    <3>2. CASE Safe(t)
        BY <3>1, <3>2, SafeStays
    <3>3. ASSUME NEW c \in Writers, c # d, entry[c].text = t
          PROVE  entry'[c].text = t
        BY <1>5, <3>3
    <3>4. CASE e.text = t
      <4>1. t \in seen'
          BY <1>4, <2>3, <3>4 DEF Active
      <4> QED
          BY <4>1 DEF Safe, Accounted
    <3> QED
        BY <1>1, <1>2, <2>3, <3>2, <3>3, <3>4 DEF TextInv
  <2>4. written \in Nat
      BY <1>1 DEF ReflectionTypeOK
  <2> QED
      BY <2>1, <2>2, <2>3, <2>4
<1> QED
    BY <1>10, <1>11

(* The sync takes both versions and keeps the losing text: what is to be   *)
(* uploaded replaces no text that it has not kept, and what is to be       *)
(* written over is kept or on the account.                                 *)
LEMMA ReadBothInv ==
    ASSUME ReflectionInv, ReflectionTypeOK', [ReflectionNext]_reflectionVars,
           NEW d \in Writers, ReadBoth(d)
    PROVE  (\A c \in Writers : EntryInv(c)' /\ MergeInv(c)') /\ TextInv'
<1>1. ReflectionTypeOK /\ EntryInv(d)
    BY DEF ReflectionInv
<1>2. PICK e, h : e = entry[d] /\ h = held
    OBVIOUS
<1>3. /\ e.at \in Nat /\ e.base \in Nat /\ h.at \in Nat
      /\ (Active(e) => e.text \in Texts) /\ (Active(h) => h.text \in Texts)
    BY <1>1, <1>2, NoteTypes
<1>4. /\ entry' = entry /\ held' = held /\ preserved' = preserved /\ seen' = seen
      /\ written' = written /\ clock' = clock
    BY DEF ReadBoth
<1>5. PICK m : m = merge'[d]
    OBVIOUS
<1>6. /\ m.step = (IF NeedsUpload(e, h) THEN "upload" ELSE "apply")
      /\ m.local = e /\ m.cloud = h /\ m.adopt = Yields(e, h) /\ m.saved = "none"
      /\ \A c \in Writers : c # d => merge'[c] = merge[c]
    BY <1>1, <1>2, <1>5 DEF ReadBoth, ReflectionTypeOK
<1>7. \A t \in TextsToKeep(e, h) : Accounted(t)'
  <2>1. kept'[d] = kept[d] \union TextsToKeep(e, h)
      BY <1>1, <1>2 DEF ReadBoth, ReflectionTypeOK
  <2> QED
      BY <2>1 DEF Accounted
<1>8. SnapshotInv(d)'
    BY <1>1, <1>2, <1>3, <1>4, <1>5, <1>6 DEF SnapshotInv, GotTo, IsThat, Safe, Active
<1>9. NeedsUpload(e, h) /\ Active(h) => Accounted(h.text)' \/ h.text = e.text
  <2>1. SUFFICES ASSUME NeedsUpload(e, h), Active(h), h.text # e.text
                 PROVE  Accounted(h.text)'
      OBVIOUS
  <2>2. CASE e.base = h.at
    <3>1. Accounted(h.text)
        BY <1>1, <1>2, <2>1, <2>2 DEF EntryInv
    <3> QED
        BY <1>1, <3>1, AccountedStays
  <2>3. CASE e.base # h.at
    <3>1. e.base <= e.at /\ e.base <= h.at /\ (e.at # 0 /\ Synced(e) => GotTo(e))
        BY <1>1, <1>2 DEF EntryInv
    <3>2. h.at # 0 /\ e.at # 0
        BY <1>3, <2>1, <2>3, <3>1 DEF NeedsUpload
    <3>3. ~Synced(e)
        BY <1>2, <1>3, <2>1, <3>1, <3>2 DEF NeedsUpload, TombstoneNeedsUpload, GotTo, Active
    <3>4. Concurrent(e, h) /\ ~Yields(e, h)
        BY <1>3, <2>1, <2>3, <3>2, <3>3 DEF Concurrent, Yields, NeedsUpload
    <3>5. h.text \in TextsToKeep(e, h)
        BY <2>1, <3>4 DEF TextsToKeep, Active
    <3> QED
        BY <1>7, <3>5
  <2> QED
      BY <2>2, <2>3
<1>10. NeedsUpload(e, h) => e.at # 0
    BY <1>3 DEF NeedsUpload
<1>11. Active(e) =>
         Safe(e.text)' \/ (Downloads(e, h, m.adopt) => h.text = e.text)
  <2>1. SUFFICES ASSUME Active(e), Downloads(e, h, m.adopt), h.text # e.text
                 PROVE  Safe(e.text)'
      OBVIOUS
  <2>2. e.at # 0 /\ e.base <= e.at /\ (Synced(e) => Safe(e.text))
      BY <1>1, <1>2, <2>1 DEF EntryInv
  <2>3. h.at # 0 /\ h.at >= e.at
      BY <1>3, <2>1, <2>2 DEF Downloads
  <2>4. CASE Yields(e, h)
    <3>1. Accounted(e.text)'
        BY <1>7, <2>4 DEF TextsToKeep
    <3> QED
        BY <3>1 DEF Safe, Accounted
  <2>5. CASE ~Yields(e, h)
    <3>1. Synced(e)
        BY <1>3, <2>1, <2>2, <2>3, <2>5 DEF Yields, Concurrent, Synced
    <3> QED
        BY <1>3, <2>1, <2>2, <3>1, SafeStays
  <2> QED
      BY <2>4, <2>5
<1>12. UploadInv(m)'
    BY <1>6, <1>9, <1>10, <1>11 DEF UploadInv, Safe, Accounted
<1>13. MergeInv(d)'
    BY <1>5, <1>8, <1>12 DEF MergeInv, UploadInv, GotTo, IsThat, Safe, Accounted
<1>14. ASSUME NEW c \in Writers
       PROVE  EntryInv(c)' /\ MergeInv(c)'
  <2>1. CASE c = d
      BY <1>4, <1>13, <2>1, EntryKept
  <2>2. CASE c # d
      BY <1>4, <1>6, <2>2, DeviceKept
  <2> QED
      BY <2>1, <2>2
<1> QED
    BY <1>4, <1>14, TextsKept

(* The account takes the newer version, and keeps a text it turns down at  *)
(* the very instant of its own.                                            *)
LEMMA UploadsInv ==
    ASSUME ReflectionInv, ReflectionTypeOK', [ReflectionNext]_reflectionVars,
           NEW d \in Writers, Uploads(d)
    PROVE  (\A c \in Writers : EntryInv(c)' /\ MergeInv(c)') /\ TextInv'
<1>1. ReflectionTypeOK /\ MergeInv(d)
    BY DEF ReflectionInv
<1>2. PICK m, h, k : m = merge[d] /\ h = held /\ k = merge'[d]
    OBVIOUS
<1>3. PICK sent : sent = VersionOf(m.local)
    OBVIOUS
<1>4. /\ m.step = "upload" /\ entry' = entry /\ written' = written
      /\ held' = (IF Wins(sent, h) THEN sent ELSE h)
      /\ sent.at = h.at /\ Active(sent) /\ Active(h) /\ sent # h => preserved' # {}
    BY <1>2, <1>3 DEF Uploads, PutReflection
<1>5. /\ k.step = "answered" /\ k.local = m.local /\ k.cloud = m.cloud
      /\ k.saved = (IF Wins(sent, h) THEN "sent" ELSE "own")
      /\ \A c \in Writers : c # d => merge'[c] = merge[c]
  <2>1. merge[d] \in Merge
      BY <1>1 DEF ReflectionTypeOK
  <2> QED
      BY <1>1, <1>2, <1>3, <2>1 DEF Uploads, ReflectionTypeOK, Merge
<1>6. /\ sent.at = m.local.at /\ sent.text = m.local.text /\ sent.at \in Nat /\ h.at \in Nat
      /\ h = [text |-> h.text, at |-> h.at] /\ sent = [text |-> sent.text, at |-> sent.at]
      /\ m.local.at # 0
  <2>1. h \in Version
      BY <1>1, <1>2 DEF ReflectionTypeOK
  <2>2. h = [text |-> h.text, at |-> h.at]
      BY <2>1 DEF Version
  <2> QED
      BY <1>1, <1>2, <1>3, <1>4, <2>2, NoteTypes DEF VersionOf, MergeInv, UploadInv
<1>7. GotTo(k.local)'
    BY <1>4, <1>5, <1>6 DEF GotTo, Wins, Tombstone
<1>8. preserved' = {} => IsThat(k.local)'
  <2>1. SUFFICES ASSUME preserved' = {}, held'.at = sent.at, held'.text # 0
                 PROVE  held'.text = sent.text
      BY <1>5, <1>6 DEF IsThat, Active
  <2>2. CASE Wins(sent, h)
      BY <1>4, <2>2
  <2>3. CASE ~Wins(sent, h)
      BY <1>4, <1>6, <2>1, <2>3 DEF Wins, Tombstone, Active
  <2> QED
      BY <2>2, <2>3
<1>9. Raced(k) \/ Safe(k.local.text)' \/ ~Active(k.local)
    BY <1>4, <1>5, <1>6 DEF Raced, Safe, Accounted
<1>10. UploadInv(k)'
    BY <1>5, <1>7, <1>8, <1>9 DEF UploadInv, GotTo, IsThat, Safe, Accounted
<1>11. SnapshotInv(d)'
    BY <1>2, <1>4, <1>5, SnapshotKept DEF MovedOn
<1>12. MergeInv(d)'
    BY <1>2, <1>10, <1>11 DEF MergeInv, UploadInv, GotTo, IsThat, Safe, Accounted
<1>13. ASSUME NEW c \in Writers
       PROVE  EntryInv(c)' /\ MergeInv(c)'
  <2>1. CASE c = d
      BY <1>4, <1>12, <2>1, EntryKept
  <2>2. CASE c # d
      BY <1>4, <1>5, <2>2, DeviceKept
  <2> QED
      BY <2>1, <2>2
<1> QED
    BY <1>4, <1>13, TextsKept

(* The entry that was uploaded is marked; a newer one is based on what was *)
(* stored, unless the account turned it down.                              *)
LEMMA TakesAnswerInv ==
    ASSUME ReflectionInv, ReflectionTypeOK', [ReflectionNext]_reflectionVars,
           NEW d \in Writers, TakesAnswer(d)
    PROVE  (\A c \in Writers : EntryInv(c)' /\ MergeInv(c)') /\ TextInv'
<1>1. ReflectionTypeOK /\ EntryInv(d) /\ MergeInv(d)
    BY DEF ReflectionInv
<1>2. PICK m, k, e, n : m = merge[d] /\ k = merge'[d] /\ e = entry[d] /\ n = entry'[d]
    OBVIOUS
<1>3. /\ m.step = "answered" /\ written' = written /\ held' = held /\ preserved' = preserved
      /\ seen' = seen /\ clock' = clock
      /\ n = Marked(e, m)
      /\ \A c \in Writers : c # d => entry'[c] = entry[c]
    BY <1>1, <1>2 DEF TakesAnswer, ReflectionTypeOK
<1>4. /\ k.step = "apply" /\ k.local = m.local /\ k.cloud = m.cloud
      /\ \A c \in Writers : c # d => merge'[c] = merge[c]
  <2>1. merge[d] \in Merge
      BY <1>1 DEF ReflectionTypeOK
  <2> QED
      BY <1>1, <1>2, <2>1 DEF TakesAnswer, ReflectionTypeOK, Merge
<1>5. /\ e \in Note /\ e.at \in Nat /\ e.base \in Nat /\ m.local.at \in Nat /\ held.at \in Nat
      /\ (Active(e) => e.text \in Texts) /\ (Active(m.local) => m.local.text \in Texts)
    BY <1>1, <1>2, NoteTypes
<1>6. n.at = e.at /\ n.text = e.text
    BY <1>3, <1>5 DEF Marked, Note
<1>7. UploadInv(m) /\ SnapshotInv(d)
    BY <1>1, <1>2, <1>3 DEF MergeInv
<1>8. Active(m.local) => Safe(m.local.text)'
  <2>1. SUFFICES ASSUME Active(m.local)
                 PROVE  Safe(m.local.text)'
      OBVIOUS
  <2>2. CASE Raced(m)
    <3>1. m.local.text \in kept'[d]
        BY <1>1, <1>2, <2>2 DEF TakesAnswer, ReflectionTypeOK
    <3> QED
        BY <3>1 DEF Safe, Accounted
  <2>3. CASE ~Raced(m)
    <3>1. Safe(m.local.text)
        BY <1>3, <1>7, <2>1, <2>3 DEF UploadInv
    <3> QED
        BY <1>5, <2>1, <3>1, SafeStays
  <2> QED
      BY <2>2, <2>3
<1>9. EntryInv(d)'
  <2>1. CASE n = e
      BY <1>2, <2>1, EntryKept
  <2>2. CASE n # e
    <3>1. n = [e EXCEPT !.base = m.local.at]
        BY <1>3, <2>2 DEF Marked
    <3>2. n.base = m.local.at /\ GotTo(m.local) /\ (preserved = {} => IsThat(m.local))
        BY <1>3, <1>5, <1>7, <3>1 DEF UploadInv, Note
    <3>3. /\ m.local.at <= e.at /\ e.at <= clock
          /\ m.local.at = e.at => m.local.text = e.text
          /\ Active(m.local) /\ m.local.at # e.at => m.local.text \in seen
          /\ Active(e) => e.at # 0
        BY <1>1, <1>2, <1>7 DEF SnapshotInv, EntryInv
    <3>4. n.base <= n.at /\ n.at <= clock' /\ n.base <= held'.at /\ (Active(n) => n.at # 0)
        BY <1>3, <1>6, <3>2, <3>3 DEF GotTo, Active
    <3>5. Synced(n) => GotTo(n)' /\ (Active(n) => Safe(n.text)')
        BY <1>3, <1>6, <1>8, <3>2, <3>3 DEF Synced, GotTo, Active
    <3>6. ASSUME NEW t, t = held'.text, n.base = held'.at, t # 0
          PROVE  t = n.text \/ Accounted(t)'
      <4>1. CASE preserved # {}
          BY <1>3, <4>1 DEF Accounted
      <4>2. CASE preserved = {}
        <5>1. m.local.text = t
            BY <1>3, <3>2, <3>6, <4>2 DEF IsThat, Active
        <5> QED
            BY <1>3, <1>6, <3>3, <3>6, <5>1 DEF Accounted, Active
      <4> QED
          BY <4>1, <4>2
    <3> QED
        BY <1>2, <3>4, <3>5, <3>6 DEF EntryInv, GotTo, Safe, Accounted, Active
  <2> QED
      BY <2>1, <2>2
<1>10. MergeInv(d)'
  <2>1. SnapshotInv(d)'
      BY <1>2, <1>3, <1>4, <1>6, SnapshotKept DEF MovedOn
  <2>2. UploadInv(k)'
      BY <1>4, <1>8 DEF UploadInv, Safe, Accounted
  <2> QED
      BY <1>2, <2>1, <2>2 DEF MergeInv, UploadInv, GotTo, IsThat, Safe, Accounted
<1>11. ASSUME NEW c \in Writers
       PROVE  EntryInv(c)' /\ MergeInv(c)'
  <2>1. CASE c = d
      BY <1>9, <1>10, <2>1
  <2>2. CASE c # d
      BY <1>3, <1>4, <2>2, DeviceKept
  <2> QED
      BY <2>1, <2>2
<1>12. \A c \in Writers : entry'[c].text = entry[c].text
    BY <1>2, <1>3, <1>6
<1> QED
    BY <1>3, <1>11, <1>12, TextsKept

(* What is written over the entry was on the account, and the text it      *)
(* replaces is safe or the same.                                           *)
LEMMA AppliesInv ==
    ASSUME ReflectionInv, ReflectionTypeOK', [ReflectionNext]_reflectionVars,
           NEW d \in Writers, Applies(d)
    PROVE  (\A c \in Writers : EntryInv(c)' /\ MergeInv(c)') /\ TextInv'
<1>1. ReflectionTypeOK /\ EntryInv(d) /\ MergeInv(d) /\ held.at <= clock
    BY DEF ReflectionInv
<1>2. PICK m, e, n : m = merge[d] /\ e = entry[d] /\ n = entry'[d]
    OBVIOUS
<1>3. PICK v : v = IF m.saved = "none" THEN m.cloud ELSE held
    OBVIOUS
<1>4. /\ m.step = "apply" /\ held' = held /\ written' = written /\ clock' = clock
      /\ n = (IF Downloads(m.local, v, m.adopt) /\ e.at = m.local.at
              THEN [text |-> v.text, at |-> v.at, base |-> v.at] ELSE e)
      /\ \A c \in Writers : c # d => entry'[c] = entry[c] /\ merge'[c] = merge[c]
      /\ merge'[d] = NoMerge
    BY <1>1, <1>2, <1>3 DEF Applies, ReflectionTypeOK
<1>5. UploadInv(m) /\ SnapshotInv(d)
    BY <1>1, <1>2, <1>4 DEF MergeInv
<1>6. held.at \in Nat /\ v.at \in Nat /\ (Active(v) => v.text \in Texts) /\ clock \in Nat
    BY <1>1, <1>2, <1>3, NoteTypes, ClockMoves
<1>7. GotTo(v) /\ IsThat(v) /\ (Active(v) => Safe(v.text))
    BY <1>2, <1>3, <1>5, <1>6 DEF SnapshotInv, GotTo, IsThat, Safe
<1>8. EntryInv(d)'
  <2>1. CASE n = e
      BY <1>2, <2>1, EntryKept
  <2>2. CASE n # e
    <3>1. n.text = v.text /\ n.at = v.at /\ n.base = v.at /\ v.at # 0
        BY <1>4, <2>2 DEF Downloads
    <3>2. n.base <= n.at /\ n.at <= clock' /\ n.base <= held'.at
        BY <1>1, <1>4, <1>6, <1>7, <3>1 DEF GotTo
    <3>3. GotTo(n)' /\ (Active(n) => Safe(n.text)') /\ n.at # 0
        BY <1>1, <1>4, <1>6, <1>7, <3>1, SafeStays DEF GotTo, Active
    <3>4. n.base = held'.at /\ Active(held') => held'.text = n.text
        BY <1>4, <1>7, <3>1 DEF IsThat
    <3> QED
        BY <1>2, <3>2, <3>3, <3>4 DEF EntryInv, GotTo, Safe, Accounted, Active
  <2> QED
      BY <2>1, <2>2
<1>9. ASSUME NEW c \in Writers
      PROVE  EntryInv(c)' /\ MergeInv(c)'
  <2>1. CASE c = d
      BY <1>4, <1>8, <2>1, IdleMerge
  <2>2. CASE c # d
      BY <1>4, <2>2, DeviceKept
  <2> QED
      BY <2>1, <2>2
<1>10. ASSUME NEW c \in Writers, NEW t \in Texts, entry[c].text = t, entry'[c].text # t
       PROVE  Safe(t)
  <2>1. c = d /\ Downloads(m.local, v, m.adopt) /\ e.at = m.local.at /\ e.text = t /\ v.text # t
    <3>1. c = d
        BY <1>4, <1>10
    <3>2. n # e /\ e.text = t /\ n.text # t
        BY <1>2, <1>10, <3>1
    <3>3. n = [text |-> v.text, at |-> v.at, base |-> v.at]
        BY <1>4, <3>2
    <3> QED
        BY <1>4, <3>1, <3>2, <3>3
  <2>2. m.local.text = t /\ Active(m.local)
      BY <1>2, <1>5, <1>10, <2>1 DEF SnapshotInv, Active, Texts
  <2> QED
      BY <1>3, <1>4, <1>5, <2>1, <2>2 DEF UploadInv
<1> QED
    BY <1>4, <1>9, <1>10, TextsKept

(* No version is of an instant still to come. *)
LEMMA InTime ==
    ASSUME ReflectionInv, NEW d \in Writers, merge[d].step # "idle"
    PROVE  merge[d].local.at <= clock /\ merge[d].local.at \in Nat
<1>1. merge[d].local.at <= entry[d].at /\ entry[d].at <= clock
    BY DEF ReflectionInv, MergeInv, SnapshotInv, EntryInv
<1>2. merge[d].local.at \in Nat /\ entry[d].at \in Nat /\ clock \in Nat
    BY NoteTypes DEF ReflectionInv, ReflectionTypeOK
<1> QED
    BY <1>1, <1>2

LEMMA HeldInTime ==
    ASSUME ReflectionInv, [ReflectionNext]_reflectionVars
    PROVE  held'.at <= clock'
<1>1. /\ held.at <= clock /\ clock <= clock' /\ clock \in Nat /\ clock' \in Nat
      /\ held.at \in Nat
    BY ClockMoves DEF ReflectionInv, ReflectionTypeOK, Version
<1>2. ASSUME NEW d \in Writers, Uploads(d), held' # held
      PROVE  held'.at <= clock'
  <2>1. held'.at = merge[d].local.at /\ merge[d].step = "upload"
      BY <1>2 DEF Uploads, PutReflection, VersionOf
  <2> QED
      BY <1>1, <2>1, InTime
<1>3. ASSUME NEW u \in late, ArrivesLate(u), held' # held
      PROVE  held'.at <= clock'
  <2>1. held' = u.sent /\ u.sent.at <= clock
      BY <1>3 DEF ArrivesLate, PutReflection, ReflectionInv, LateInv
  <2>2. u.sent.at \in Nat
      BY DEF ReflectionInv, ReflectionTypeOK, Upload, Version
  <2> QED
      BY <1>1, <2>1, <2>2
<1>4. CASE held' = held
    BY <1>1, <1>4
<1>5. CASE held' # held
  <2>1. (\E d \in Writers : Uploads(d)) \/ (\E u \in late : ArrivesLate(u))
      BY <1>5 DEF ReflectionNext, MergeStep, Ticks, reflectionVars, Save, Delete, Rewrites,
                  ReadBoth, TakesAnswer, Applies, CutShort
  <2> QED
      BY <1>2, <1>3, <1>5, <2>1
<1> QED
    BY <1>4, <1>5

LEMMA LateKept ==
    ASSUME ReflectionInv, [ReflectionNext]_reflectionVars
    PROVE  \A u \in late' : LateInv(u)'
<1>1. ReflectionTypeOK /\ clock <= clock' /\ clock \in Nat /\ clock' \in Nat
    BY ClockMoves DEF ReflectionInv
<1>2. SUFFICES ASSUME NEW u \in late'
               PROVE  /\ u.sent.at <= clock /\ u.sent.at \in Nat
                      /\ Active(u.cloud) => Accounted(u.cloud.text) \/ u.cloud.text = u.sent.text
    BY <1>1, AccountedStays DEF LateInv, Active, Accounted
<1>3. CASE u \in late
    BY <1>3 DEF ReflectionInv, LateInv, ReflectionTypeOK, Upload, Version
<1>4. CASE u \notin late
  <2>1. PICK d \in Writers : /\ merge[d].step = "upload"
                            /\ u = [sent |-> VersionOf(merge[d].local), cloud |-> merge[d].cloud]
      BY <1>4 DEF ReflectionNext, MergeStep, Ticks, reflectionVars, Save, Delete, Rewrites,
                  ReadBoth, Uploads, TakesAnswer, Applies, CutShort, ArrivesLate
  <2>2. u.sent.at = merge[d].local.at /\ u.sent.text = merge[d].local.text
        /\ u.cloud = merge[d].cloud
      BY <2>1 DEF VersionOf
  <2> QED
      BY <2>1, <2>2, InTime DEF ReflectionInv, MergeInv, UploadInv
<1> QED
    BY <1>3, <1>4

LEMMA ReflectionNextInv ==
    ASSUME ReflectionInv, [ReflectionNext]_reflectionVars
    PROVE  ReflectionInv'
<1>1. ReflectionTypeOK /\ ReflectionTypeOK'
    BY ReflectionNextType DEF ReflectionInv
<1>2. SUFFICES (\A c \in Writers : EntryInv(c)' /\ MergeInv(c)') /\ TextInv'
    BY <1>1, HeldInTime, LateKept DEF ReflectionInv
<1>4. CASE Ticks \/ (\E u \in late : ArrivesLate(u)) \/ UNCHANGED reflectionVars
  <2>1. entry' = entry /\ merge' = merge /\ written' = written
      BY <1>4 DEF Ticks, ArrivesLate, reflectionVars
  <2> QED
      BY <1>1, <2>1, DeviceKept, TextsKept
<1>5. ASSUME NEW d \in Writers, Save(d) \/ Delete(d)
      PROVE  (\A c \in Writers : EntryInv(c)' /\ MergeInv(c)') /\ TextInv'
  <2>1. written \in 0..MaxTexts /\ MaxTexts \in Nat
      BY <1>1, ReflectionAssumption DEF ReflectionTypeOK
  <2>2. CASE Save(d)
    <3>1. Rewrites(d, written + 1) /\ written' = written + 1 /\ written + 1 \in 0..MaxTexts
        BY <2>1, <2>2 DEF Save
    <3> QED
        BY <1>1, <3>1, RewritesInv
  <2>3. CASE Delete(d)
    <3>1. Rewrites(d, 0) /\ written' = written /\ 0 \in 0..MaxTexts
        BY <2>1, <2>3 DEF Delete
    <3> QED
        BY <1>1, <3>1, RewritesInv
  <2> QED
      BY <1>5, <2>2, <2>3
<1>6. ASSUME NEW d \in Writers, CutShort(d)
      PROVE  (\A c \in Writers : EntryInv(c)' /\ MergeInv(c)') /\ TextInv'
  <2>1. /\ entry' = entry /\ written' = written /\ merge'[d] = NoMerge
        /\ \A c \in Writers : c # d => merge'[c] = merge[c]
      BY <1>1, <1>6 DEF CutShort, ReflectionTypeOK
  <2>2. ASSUME NEW c \in Writers
        PROVE  EntryInv(c)' /\ MergeInv(c)'
    <3>1. CASE c = d
        BY <1>1, <2>1, <3>1, EntryKept, IdleMerge
    <3>2. CASE c # d
        BY <1>1, <2>1, <3>2, DeviceKept
    <3> QED
        BY <3>1, <3>2
  <2> QED
      BY <1>1, <2>1, <2>2, TextsKept
<1> QED
    BY <1>1, <1>4, <1>5, <1>6, ReadBothInv, UploadsInv, TakesAnswerInv, AppliesInv
    DEF ReflectionNext, MergeStep

(* With the devices' clocks in agreement, and but for two texts of the     *)
(* very same instant, a saved text is readable somewhere until a reader    *)
(* replaces or deletes it where it is shown, or it reached the account     *)
(* between another device's read and its newer upload: for any number of   *)
(* devices and texts, with syncs cut short anywhere.                       *)
THEOREM OnlyTheUnreadIsLost == ReflectionSpec => []LosesOnlyTheUnread
<1>1. ReflectionInv /\ [ReflectionNext]_reflectionVars => ReflectionInv'
    BY ReflectionNextInv
<1>2. ReflectionInv => LosesOnlyTheUnread
    BY DEF ReflectionInv, TextInv, LosesOnlyTheUnread, Safe, Accounted, Readable
<1> QED
    BY <1>1, <1>2, ReflectionInitInv, PTL DEF ReflectionSpec
=============================================================================

---------------------------- MODULE FavoritesSync ----------------------------
(***************************************************************************)
(* One saved ayah of one account, on the server and on the account's       *)
(* devices (mobile/src/sync/favoritesSync.ts, storage/favorites.ts,        *)
(* hooks/useFavorites.ts; backend/src/services/MongooseSyncRepository.ts,  *)
(* clientInstants.ts).  Every rule works verse by verse, so one verse      *)
(* stands for all.                                                         *)
(*                                                                         *)
(* Each place holds an entry: saved, or a deletion marker, with the        *)
(* instant its author's clock declared.  The newer instant wins and a      *)
(* deletion wins a tie, in every place.  Full syncs and single pushes run  *)
(* as tasks: between any two of their steps the user changes the verse,    *)
(* another task of the same device works on it, another device uploads, or *)
(* the app is killed.  An upload the device gave up on may still arrive.   *)
(***************************************************************************)
EXTENDS Integers

CONSTANTS
    Devices,       \* the account's devices
    Tasks,         \* identities of syncs and pushes in progress at one time
    Skew,          \* how far each device's clock is ahead of the server's
    Tolerance,     \* CLIENT_CLOCK_TOLERANCE_MS, in ticks
    GuestDevices,  \* the devices also used without the account
    OldVersions,   \* whether a device without deletion markers takes part
    MaxTime        \* bound on the clock (model checking only)

ASSUME FavoritesAssumption ==
    /\ Devices # {}
    /\ Skew \in [Devices -> Nat]
    /\ Tolerance \in Nat
    /\ GuestDevices \subseteq Devices
    /\ OldVersions \in BOOLEAN
    /\ MaxTime \in Nat

VARIABLES
    now,       \* the server's clock
    server,    \* the account's entry
    local,     \* each device's entry in the account's partition
    guest,     \* each device's entry in the guest partition
    signedIn,  \* whether the device shows the account or the guest partition
    unpushed,  \* the device has a change whose push has not started
    task,      \* the syncs and pushes in progress
    stray      \* uploads given up on that may still reach the server

vars == <<now, server, local, guest, signedIn, unpushed, task, stray>>

(* An entry: its kind and declared instant.  made, which no code sees, is  *)
(* when the user really made the change.                                   *)
NoEntry == [kind |-> "none", ts |-> -1, made |-> -1]
Entry == [kind : {"active", "tombstone"}, ts : Nat, made : Nat] \cup {NoEntry}

(* A task: a full sync reads the local entry (mine) and asks for the       *)
(* account's (asking), has it (asked), uploads (putting), has the stored   *)
(* answer (stored), and asks again (asking2, asked2).  A push only uploads.*)
Task == [st    : {"idle", "asking", "asked", "putting", "stored", "asking2",
                  "asked2"},
         op    : {"sync", "push"},
         dev   : Devices,
         mine  : Entry,
         cloud : Entry]

TypeOK ==
    /\ now \in Nat
    /\ server \in Entry
    /\ local \in [Devices -> Entry]
    /\ guest \in [Devices -> Entry]
    /\ signedIn \in [Devices -> BOOLEAN]
    /\ unpushed \in [Devices -> BOOLEAN]
    /\ task \in [Tasks -> Task]
    /\ stray \subseteq Entry

Idle == [st |-> "idle", op |-> "sync", dev |-> CHOOSE d \in Devices : TRUE,
         mine |-> NoEntry, cloud |-> NoEntry]

Init ==
    /\ now = 0
    /\ server = NoEntry
    /\ local = [d \in Devices |-> NoEntry]
    /\ guest = [d \in Devices |-> NoEntry]
    /\ signedIn = [d \in Devices |-> d \notin GuestDevices]
    /\ unpushed = [d \in Devices |-> FALSE]
    /\ task = [t \in Tasks |-> Idle]
    /\ stray = {}

-----------------------------------------------------------------------------
(* The one rule of the server's merge, of what a sync uploads and of what  *)
(* it applies: the newer instant, and the deletion on a tie.               *)
Beats(e, f) ==
    \/ e.ts > f.ts
    \/ e.ts = f.ts /\ e.kind = "tombstone" /\ f.kind = "active"

(* acceptFavoriteRecord: an instant too far ahead becomes the server's. *)
Accept(e) == IF e.ts - now > Tolerance THEN [e EXCEPT !.ts = now] ELSE e

(* Mutant: the upload replaces the account's record. *)
MergedAlways(e) == Accept(e)

(* Mutant: a record at the same instant replaces the account's. *)
MergedOnTie(e) == IF Accept(e).ts >= server.ts THEN Accept(e) ELSE server

(* putFavorites of one record. *)
Merged(e) == IF Beats(Accept(e), server) THEN Accept(e) ELSE server

(* The same kind of record came back, at an earlier instant. *)
StoredEarlier(sent, stored) == sent.kind = stored.kind /\ stored.ts < sent.ts

(* Mutant: what sync writes replaces whatever is there. *)
ReplaceAny(d, expected, e) == [local EXCEPT ![d] = e]

(* putFavoriteFromSync / putFavoriteTombstoneFromSync: nothing is written  *)
(* unless the entry still has the instant the task read.                   *)
Replace(d, expected, e) ==
    IF local[d].ts = expected.ts THEN [local EXCEPT ![d] = e] ELSE local

Clock(d) == now + Skew[d]
Change(d, kind) == [kind |-> kind, ts |-> Clock(d), made |-> now]

(* Saving what is not saved, removing what is. *)
Opposite(e) == IF e.kind = "active" THEN "tombstone" ELSE "active"

(* The last tick is left for syncing: no change and no failure happens.    *)
BeforeLastTick == now < MaxTime

(* runSyncAfterSignIn: a device runs one full sync at a time. *)
Syncing(d) ==
    \E t \in Tasks : task[t].st # "idle" /\ task[t].op = "sync" /\ task[t].dev = d

-----------------------------------------------------------------------------
(* The user saves the verse or removes it.  Two changes of one verse on a  *)
(* device never fall into one millisecond.                                 *)
ToggleFavorite(d) ==
    /\ BeforeLastTick
    /\ signedIn[d]
    /\ Clock(d) # local[d].ts
    /\ local' = [local EXCEPT ![d] = Change(d, Opposite(local[d]))]
    /\ unpushed' = [unpushed EXCEPT ![d] = TRUE]
    /\ UNCHANGED <<now, server, guest, signedIn, task, stray>>

(* The same as a guest: the change is the guest partition's, never pushed. *)
ToggleGuestFavorite(d) ==
    /\ BeforeLastTick
    /\ ~signedIn[d]
    /\ Clock(d) # guest[d].ts
    /\ guest' = [guest EXCEPT ![d] = Change(d, Opposite(guest[d]))]
    /\ UNCHANGED <<now, server, local, signedIn, unpushed, task, stray>>

(* Sign-in and sign-out switch partitions; tasks in progress go on.        *)
SwitchOwner(d) ==
    /\ d \in GuestDevices
    /\ BeforeLastTick
    /\ signedIn' = [signedIn EXCEPT ![d] = ~@]
    /\ unpushed' = [unpushed EXCEPT ![d] = FALSE]
    /\ UNCHANGED <<now, server, local, guest, task, stray>>

(* Mutant: the guest's entry always replaces the account's. *)
AdoptGuestAlways(d) ==
    /\ signedIn[d] /\ ~Syncing(d) /\ guest[d].kind # "none"
    /\ local' = [local EXCEPT ![d] = guest[d]]
    /\ guest' = [guest EXCEPT ![d] = NoEntry]
    /\ UNCHANGED <<now, server, signedIn, unpushed, task, stray>>

(* adoptGuestFavorites: the newer entry wins, a tie keeps the account's.   *)
(* A deletion moves along with other guest data.  The user is asked when a *)
(* sync is about to start.  Killed between its two writes, the app keeps   *)
(* the guest's copy and offers it again.                                   *)
AdoptGuest(d) ==
    /\ signedIn[d] /\ ~Syncing(d) /\ guest[d].kind # "none"
    /\ local' = [local EXCEPT ![d] = IF guest[d].ts > @.ts THEN guest[d] ELSE @]
    /\ \/ guest' = [guest EXCEPT ![d] = NoEntry]
       \/ BeforeLastTick /\ guest' = guest
    /\ UNCHANGED <<now, server, signedIn, unpushed, task, stray>>

-----------------------------------------------------------------------------
(* Tasks                                                                   *)

Become(t, st) == task' = [task EXCEPT ![t].st = st]
End(t) == task' = [task EXCEPT ![t] = Idle]

(* syncFavorites begins. *)
StartSync(d, t) ==
    /\ task[t].st = "idle"
    /\ signedIn[d]
    /\ ~Syncing(d)
    /\ task' = [task EXCEPT ![t] = [st |-> "asking", op |-> "sync", dev |-> d,
                                    mine |-> local[d], cloud |-> NoEntry]]
    /\ UNCHANGED <<now, server, local, guest, signedIn, unpushed, stray>>

(* pushFavoriteChange begins, some time after the change. *)
StartPush(d, t) ==
    /\ task[t].st = "idle"
    /\ signedIn[d] /\ unpushed[d]
    /\ unpushed' = [unpushed EXCEPT ![d] = FALSE]
    /\ task' = [task EXCEPT ![t] = [st |-> "putting", op |-> "push", dev |-> d,
                                    mine |-> local[d], cloud |-> NoEntry]]
    /\ UNCHANGED <<now, server, local, guest, signedIn, stray>>

(* The server answers getFavoritesSync. *)
Get(t) ==
    /\ \/ task[t].st = "asking" /\ task' = [task EXCEPT ![t].st = "asked", ![t].cloud = server]
       \/ task[t].st = "asking2" /\ task' = [task EXCEPT ![t].st = "asked2", ![t].cloud = server]
    /\ UNCHANGED <<now, server, local, guest, signedIn, unpushed, stray>>

(* The server handles putFavorites and answers with what it holds. *)
Put(t) ==
    /\ task[t].st = "putting"
    /\ server' = Merged(task[t].mine)
    /\ task' = [task EXCEPT ![t].st = "stored", ![t].cloud = server']
    /\ UNCHANGED <<now, local, guest, signedIn, unpushed, stray>>

(* The sync compares: upload, or go on to applying what it has. *)
Compare(t) ==
    /\ task[t].st = "asked"
    /\ Become(t, IF Beats(task[t].mine, task[t].cloud) THEN "putting" ELSE "asked2")
    /\ UNCHANGED <<now, server, local, guest, signedIn, unpushed, stray>>

(* The sync takes over the instant the account stored, then asks again.    *)
(* It goes on with that instant even if the entry had changed meanwhile.   *)
AdoptStored(t) ==
    LET sent == task[t].mine
        stored == task[t].cloud
    IN /\ task[t].st = "stored" /\ task[t].op = "sync"
       /\ IF StoredEarlier(sent, stored)
            THEN /\ local' = Replace(task[t].dev, sent, stored)
                 /\ task' = [task EXCEPT ![t].st = "asking2", ![t].mine = stored]
            ELSE /\ Become(t, "asking2")
                 /\ UNCHANGED local
       /\ UNCHANGED <<now, server, guest, signedIn, unpushed, stray>>

(* Mutant: an exact tie is not applied, not even a deletion. *)
ApplyCloudNewerOnly(t) ==
    /\ task[t].st = "asked2"
    /\ local' = IF task[t].cloud.ts > task[t].mine.ts
                  THEN Replace(task[t].dev, task[t].mine, task[t].cloud) ELSE local
    /\ End(t)
    /\ UNCHANGED <<now, server, guest, signedIn, unpushed, stray>>

(* The sync applies the account's entry; a saved verse that is new here    *)
(* may have no text to show yet, and waits for a later sync.               *)
ApplyCloud(t) ==
    LET mine == task[t].mine
        cloud == task[t].cloud
    IN /\ task[t].st = "asked2"
       /\ \/ /\ Beats(cloud, mine)
             /\ local' = Replace(task[t].dev, mine, cloud)
          \/ /\ ~Beats(cloud, mine)
             /\ UNCHANGED local
          \/ /\ cloud.kind = "active" /\ mine.kind # "active"
             /\ BeforeLastTick
             /\ UNCHANGED local
       /\ End(t)
       /\ UNCHANGED <<now, server, guest, signedIn, unpushed, stray>>

(* Mutant: the push applies the answer whatever the user did meanwhile. *)
FinishPushAlways(t) ==
    LET sent == task[t].mine
        stored == task[t].cloud
    IN /\ task[t].st = "stored" /\ task[t].op = "push"
       /\ IF StoredEarlier(sent, stored) \/ stored.ts > sent.ts
            THEN local' = [local EXCEPT ![task[t].dev] = stored]
            ELSE UNCHANGED local
       /\ End(t)
       /\ UNCHANGED <<now, server, guest, signedIn, unpushed, stray>>

(* The push takes over what the account stored instead, if this device     *)
(* still holds what was sent.                                              *)
FinishPush(t) ==
    LET sent == task[t].mine
        stored == task[t].cloud
        d == task[t].dev
    IN /\ task[t].st = "stored" /\ task[t].op = "push"
       /\ \/ /\ StoredEarlier(sent, stored) \/ stored.ts > sent.ts
             /\ local[d].kind = sent.kind
             /\ local' = Replace(d, sent, stored)
          \/ /\ \/ ~StoredEarlier(sent, stored) /\ stored.ts <= sent.ts
                \/ local[d].kind # sent.kind
                \/ stored.kind = "active" /\ sent.kind # "active"
             /\ UNCHANGED local
       /\ End(t)
       /\ UNCHANGED <<now, server, guest, signedIn, unpushed, stray>>

(* A timeout, a failed call or an app kill ends the task; an upload not    *)
(* handled yet may still arrive.                                           *)
GiveUp(t) ==
    /\ BeforeLastTick
    /\ task[t].st # "idle"
    /\ \/ stray' = stray
       \/ task[t].st = "putting" /\ stray' = stray \cup {task[t].mine}
    /\ End(t)
    /\ UNCHANGED <<now, server, local, guest, signedIn, unpushed>>

PutLate(e) ==
    /\ e \in stray
    /\ stray' = stray \ {e}
    /\ server' = Merged(e)
    /\ UNCHANGED <<now, local, guest, signedIn, unpushed, task>>

(* addFavorites: an app version without deletion markers saves the verse;  *)
(* an existing record, deleted or not, is left alone.                      *)
OldAdd ==
    /\ OldVersions /\ BeforeLastTick
    /\ server.kind = "none"
    /\ server' = [kind |-> "active", ts |-> now, made |-> now]
    /\ UNCHANGED <<now, local, guest, signedIn, unpushed, task, stray>>

(* removeFavorite: it removes the verse, at the server's time. *)
OldRemove ==
    /\ OldVersions /\ BeforeLastTick
    /\ server' = [kind |-> "tombstone", ts |-> now, made |-> now]
    /\ UNCHANGED <<now, local, guest, signedIn, unpushed, task, stray>>

Tick ==
    /\ BeforeLastTick
    /\ now' = now + 1
    /\ UNCHANGED <<server, local, guest, signedIn, unpushed, task, stray>>

-----------------------------------------------------------------------------
UserStep ==
    \E d \in Devices :
        \/ ToggleFavorite(d)
        \/ ToggleGuestFavorite(d)
        \/ SwitchOwner(d)
        \/ AdoptGuest(d)

TaskStep(t) ==
    \/ \E d \in Devices : StartSync(d, t) \/ StartPush(d, t)
    \/ Get(t)
    \/ Put(t)
    \/ Compare(t)
    \/ AdoptStored(t)
    \/ ApplyCloud(t)
    \/ FinishPush(t)
    \/ GiveUp(t)

ServerStep ==
    \/ \E e \in stray : PutLate(e)
    \/ OldAdd
    \/ OldRemove
    \/ Tick

Next == UserStep \/ (\E t \in Tasks : TaskStep(t)) \/ ServerStep

Spec == Init /\ [][Next]_vars

(* Connectivity is back for good at the last tick: from then on every call *)
(* is answered, and each device is synced again and again (foreground,     *)
(* retries, screen focus).                                                 *)
Fairness ==
    /\ WF_vars(Tick)
    /\ \A t \in Tasks :
         WF_vars(Get(t) \/ Put(t) \/ Compare(t) \/ AdoptStored(t)
                 \/ ApplyCloud(t) \/ FinishPush(t))
    /\ \A d \in Devices : SF_vars(\E t \in Tasks : StartSync(d, t))
    /\ WF_vars(\E e \in stray : PutLate(e))

FairSpec == Spec /\ Fairness

-----------------------------------------------------------------------------
Held == {server} \cup {local[d] : d \in Devices}

(* No change is lost: whatever a place holds, afterwards the account or a  *)
(* device still holds that entry, or one that beats it.  A sync never      *)
(* replaces what the user changed meanwhile by something older.            *)
NothingIsLost ==
    [][\A e \in Held : \E f \in Held' : ~Beats(e, f)]_vars

(* The account's entry only ever gives way to one that beats it, whatever  *)
(* order uploads, retries and late uploads arrive in.                      *)
AccountMovesForward == [][server' # server => Beats(server', server)]_vars

(* A deletion is undone only by saving the verse again after it: no stale  *)
(* copy, retry, other device or guest partition brings the verse back.     *)
NoResurrection ==
    [][ /\ server.kind = "tombstone" /\ server'.kind = "active"
            => server'.made >= server.made
        /\ \A d \in Devices :
             local[d].kind = "tombstone" /\ local'[d].kind = "active"
                => local'[d].made >= local[d].made ]_vars

(* Once changes stop and calls are answered, every device that shows the   *)
(* account holds what the account holds, for good: the same kind of record *)
(* at the same instant (syncFavorites' upload, refetch and apply).         *)
InAgreement ==
    \A d \in Devices : signedIn[d] =>
        local[d].kind = server.kind /\ local[d].ts = server.ts

Converges == <>[]InAgreement

(* Agreement of all devices, once reached, ends only by what a user, or an *)
(* app version without deletion markers, does: no upload, retry, late      *)
(* answer or sync still in progress undoes it.                             *)
AllAgree ==
    \A d \in Devices : local[d].kind = server.kind /\ local[d].ts = server.ts

AgreementStays ==
    [][ AllAgree /\ ~AllAgree' =>
          \/ \E d \in Devices : ToggleFavorite(d) \/ AdoptGuest(d)
          \/ OldAdd \/ OldRemove ]_vars
=============================================================================

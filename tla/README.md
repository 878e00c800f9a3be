# Quran Heals: TLA+ models, checks and proofs

Quran Heals is an Expo / React Native app (`mobile/`) with an Express + MongoDB backend
(`backend/`). Most of either is content and presentation. The part that is hard to get right and
hard to test is what happens between them: an account's sign-in session, whose refresh token
rotates on every use over an unreliable network, and the synchronisation of an account's data
between several devices, each of which may be offline, killed, behind, or signed in as someone
else when its calls are answered. That part is modelled here, checked with TLC and, where the
prover reaches, proved with TLAPS.

## 1. The system

| component | state | operations | talks to |
|---|---|---|---|
| Server sessions (`backend/src/auth/refreshRotation.ts`, `services/MongooseSessionRepository.ts`) | session documents: current and previous token hash, time of rotation, expiry, revocation | create, rotate (compare-and-set, then find, then revoke), logout, removal, TTL | the app, by HTTP |
| App session (`mobile/src/auth/`) | auth epoch, status, stored tokens, in-flight refresh per epoch, queue of token writes | refresh with one retry, sign-in, sign-out, expiry, restore at launch | server sessions; everything that needs an access token |
| Favorites sync (`mobile/src/sync/favoritesSync.ts`, `storage/favorites.ts`, `hooks/useFavorites.ts`; `backend/.../MongooseSyncRepository.ts`, `clientInstants.ts`) | entries and deletion markers in each partition and in the account | toggle, full sync, single push, guest merge, the server's merge | sync endpoints |
| Active partition and guest data (`storage/localDataOwner.ts`, `auth/localOwnership.ts`) | which owner's partition is shown; guest data waiting to be merged | switch, merge, discard | every synced store |
| Reading sync (`backend/.../readingSync.ts`, `MongooseReadingSync.ts`; `mobile/src/sync/readingSync*.ts`, `mushaf/khatmas.ts`) | versioned records, revisions, Khatmas per cycle | push with compare-and-set, pull, three-way merge | sync endpoints |
| Reflections sync (`mobile/src/sync/reflectionsSync.ts`) | encrypted texts, conflicts kept for the user | encrypt and push, pull and decrypt, keep the losing text | reflection key |
| Reflection key (`mobile/src/sync/syncKeyManager.ts`, `backend/.../syncController.ts`) | wrapped master key, fingerprint | set up, recover, change password, reset | reflections |
| Settings sync (`mobile/src/sync/preferencesSync.ts`, `backend/.../preferencesMerge.ts`) | settings with instants per field, account token | merge per field | sync endpoints |
| Sync scheduling (`useAuth.tsx`, `syncOrchestrator.ts`, `syncApi.ts`) | running sync, retry timer, dirty flag | run after sign-in, retry, coalesce | all of the above |
| Account deletion (`backend/.../MongooseAccountDeletionService.ts`, `withExistingUser.ts`, `revokeAppleThenDelete.ts`) | the user and everything it owns | delete, refuse writes of a deleted user | all stores; Apple |
| Administrative deletion, audit (`backend/src/admin/`) | deletion cases | open, verify, execute | account deletion |
| Issue-report outbox (`backend/.../issueReportNotifier.ts`) | reports with lease, attempt count, token | claim, send, record, retry | e-mail service |
| Reminder scheduler (`mobile/src/notifications/scheduler.ts`) | pending OS notifications | reconcile | the OS |
| Audio playback (`mobile/src/audio/engine.ts`, `expoOutput.ts`) | what is shown as playing, the transition under way, retries, repeats | start, pause, resume, skip, stop, choose a reciter, follow the player | the native player, network |
| Audio downloads, offline Mushaf (`mobile/src/audio/downloads.ts`, `mushaf/offline/`) | files, run tokens, decisions | start, pause, resume, cancel, remove | network, file system |
| Content, search, importers, screens, Qibla, memorization | read-only content; view state | – | – |

Interactions that matter: every sync endpoint sits behind the access token, so a sync may start a
refresh; a sync run carries the auth epoch it began in and stops when it is no longer current; a
full sync runs settings, reading, reflection key, favorites, reflections, in this order; a local
change starts a push at once and marks the device for another full sync; deleting the account
removes its sessions under whatever the app is doing.

What makes each correct, and what makes it hard:

* **sessions** – a session's tokens form one chain, a live session is not revoked for a retry, an
  ended one stays ended; hard because a rotation's answer may be lost, its call may come late, and
  the handler's three database operations interleave with those of other calls;
* **app session** – a device keeps in touch with a live session and never mixes two sign-ins; hard
  because refreshes, writes, clears and a restore of earlier sign-ins are in progress when the
  next one begins, and the app may be killed between the writes of two tokens;
* **favorites** – no change lost, no deletion undone, and agreement in the end; hard because every
  read is stale when it is used, uploads arrive in any order, and clocks differ;
* **reading sync** – no accepted change overwritten by one made without knowledge of it, one
  Khatma per cycle, deletions permanent;
* **reflections and key** – one key per account, no text lost, nothing encrypted with a discarded key kept;
* **settings** – the newest value of each field survives on every device;
* **scheduling** – a change during a sync brings one more sync; **outbox** – each report is mailed,
  with one idempotency key; **scheduler, downloads** – the newest request wins;
* **playback** – the ayah shown is the one heard, and a pause holds.

`PROJECT.json` lists the hazards one by one with the source line where each bites and the property
that covers it.

## 2. The plan

Every step of the plan has its module and, where the prover reaches, its proofs.

1. `RefreshRotation` (server sessions), `AuthSession` (one device against it), `SessionLineage`
   (what rotation promises, implemented by the two together).
2. `FavoritesSync` (several devices and the account).
3. Their proofs: `AuthSessionProofs`, `SessionUserProofs`, `FavoritesProofs`.
4. `ReadingSync`: the server's compare-and-set and the device's merge, one Khatma per cycle.
5. `ReflectionsSync`, `ReflectionKey`, `SettingsSync`.
6. `SyncScheduling`, `AutoDownload`, `ReminderScheduler`, `PlaybackEngine`: controllers that decide
   again and again, with awaits in the decision, on state that changes meanwhile.
7. `AccountDeletion` (with the operator's cases) and `IssueOutbox`.
8. Proofs of 4 to 7: `ReadingProofs`, `AccountDataProofs` (settings, key, reflections),
   `DeviceProofs` (scheduling, download, reminders, playback), `ServerProofs` (outbox, deletion), and
   `BackgroundProofs` (the parts put side by side).

What could follow: the composition of `SyncScheduling` with `AuthSession`; audio recordings of one
file per ayah; the sync modules on devices whose clocks disagree (`FavoritesSync` alone has this).

## 3. The modules and the code

### RefreshRotation, AuthSession, SessionLineage

A refresh token's successor is derived from it with a server key (`refreshRotation.ts`), so a
session's tokens form a chain and a token is `[sid, gen]`. `sessions` are the documents, `req` the
calls in flight, `now` the server's clock. `rotateRefreshToken` is three database operations and
is three actions, because other calls run between them: `CompareAndRotate`, `FindSession` (the
judgement retry / reuse / dead, with the instant `at` taken when the first operation ran) and
`RevokeForReuse`. `Logout`, `Throttle` (429), `LoseCall`, `RemoveSession` (account deletion, TTL
index) complete the server.

On the device a step is what JavaScript does between two awaits. `StartRefresh`,
`ReceiveGranted/Rejected/Throttled`, `GiveUp` and `Retry` are `performRefresh`; `refresh[e]` is the
single-flight slot of epoch `e`. `SignIn`, `HandleSignInSuccess`, `SignOut` and
`ClearPersistedSession` are `useAuth.tsx`. `writes` is the `sessionWrites` promise chain:
`BeginWrite` makes the first of a write's two storage calls if its epoch is still current,
`DropWrite` discards it, the `Finish...` actions make the second and what the caller does after
it. `RestoreSignedIn`, `RestoreGuest` and the two steps after a rejected restore are
`initializeSession.ts`. `Restart` kills the app: only `stored` and `access` survive.

Abstractions: the access token is named by the refresh token it came with, and may be refused at
any time (its 15 minutes are not counted); storage calls do not fail; `signOut`'s read of the
token belongs to the step that ends the session; reading both tokens for a request is one step;
provider screens are left out. `StartRefresh` has the read of the stored token and the call in one step
(`tokenManager.ts:101`): storage calls are done in the order they are issued, so the token read is the one
of that step, and a call sent later is a call that takes longer, which is modelled. `HandleSignInSuccess` has
three awaits that touch no token (`useAuth.tsx:658`): a sign-in overtaken during them has its write
dropped when the write's turn comes, as here. With `LateDelivery = FALSE` a call ends before the client gives up
on it, which is when the retry grace is meant to suffice.

`SessionLineage` is the promise: a session opens once, advances one generation at a time while
alive, and ends for good. `AuthSession!ImplementsLineage` is the refinement: `alive` is "stored,
not revoked, not expired".

### FavoritesSync

Every rule works per verse, so the state is one verse: an entry (saved, deletion marker, none, with
the instant its author's clock gave) in the account (`server`), in each device's account partition
(`local`) and guest partition (`guest`). `made` is a ghost: when the user really made the change.
A task is a `syncFavorites` or a `pushFavoriteChange` in progress, with what it has read (`mine`)
and what it was told (`cloud`); `stray` are uploads whose client gave up but which may still arrive.

* `ToggleFavorite`, `ToggleGuestFavorite`: `toggleFavorite`, with the marker written on removal.
* `StartSync`, `Get`, `Compare`, `Put`, `AdoptStored`, `Get`, `ApplyCloud`: one full sync, split at
  its awaits. `Replace` is the check the storage functions make inside their own lock: nothing is
  written unless the entry still has the instant the task read.
* `StartPush`, `Put`, `FinishPush`: the push of one change.
* `Put`, `PutLate`: the server's transaction, `Accept` (`clientInstants.ts`) and `Merged`.
* `AdoptGuest`: the guest merge, including a kill between its two writes. `SwitchOwner`: sign-out and
  sign-in as seen by the stores.
* `OldAdd`, `OldRemove`: the endpoints kept for app versions that know no deletion markers.
* `GiveUp`: timeout, failure or kill.

`StartSync`'s two reads (`favoritesSync.ts:88`) are of one storage key, wait for the same earlier
mutation and are asked of the storage one right after the other, so no write comes between them. `FinishPush`'s comparison and its write are one step, because an
entry that changed in between has another instant and `Replace` then writes nothing.

Abstractions: the server's clamp and its commit happen at one instant; skew is constant per device;
two changes of one verse on one device do not share a millisecond; the UI shows the stored entry
before the user acts on it; a verse whose text cannot be resolved is the third disjunct of
`ApplyCloud`. Deleting all favorites and completing pending translations are left out.

### ReadingSync

One wird and its Khatmas: records with a revision and a change number on the account, and on each
device the wird, its Khatmas and the markers of what was deleted. A change of the wird carries the
revision it was made from (`Refuses`, `Status`, `Writes` are `decideReadingChange`), a deletion is
for good, and of two Khatmas of one cycle the second is answered `duplicate` (`Holder`). A sync
(`SyncStep`) is `syncOnce` at its awaits: `PullPage` downloads and applies one page (`Applied`, with
`MergeWird` and `Position` the three-way merge), `SaveMeta` remembers what the device has,
`PushChange` uploads one change and `ReceiveResult` applies its answer (`Taken`, `ResultApplied`).
Between any two the reader (`Reader`) saves a page, confirms or takes back a Khatma or deletes the
wird; the app is killed (`Abandon`), an upload given up on arrives later (`DeliverStray`), the sync
metadata or the stop file is lost (`LoseMeta`, `LoseStops`), or the account is restored from a
backup under a new sync id (`ReplaceRecords`: the records of its first changes return, without those
changed since). An upload given up on leaves all the changes it had still to make, which arrive one at a time in
any order, or in part. `Holding` is the repair of cycles on load.

Abstractions: pages of a download and batches of an upload are of one record, so every
interleaving of larger ones occurs; the older version of a record that was changed after the backup is
not restored, the record is then absent; the two reads of a download (`MongooseReadingSync.ts:41`, the sync
id and the records) are one, since all that could differ between them is the account's first upload,
whose id is then taken at the next page, or an operator's replacement; `LastPage` stands for page 604 (where a Khatma may be
confirmed). Left out: the name's merge, the selected wird, limits, unreadable and legacy records,
the bound on rounds of one sync, and the repair of a page saved for a deleted cycle.

### ReflectionsSync

One ayah's reflection: entries with an instant and the version they are based on, the texts kept
beside them, the account's version and the texts preserved with it. `ReadBoth` reads the device and
the account, decides (`Concurrent`, `NeedsUpload`, `Yields`) and keeps the text that loses
(`TextsToKeep`); `Uploads` is `putReflections` (`PutReflection`), `TakesAnswer`, `Downloads` and `Applies` the rest of
the sync, `CutShort` a sync that ends at any of its awaits, and `ArrivesLate` the upload it had under way
when that reaches the account after all. `ReadBoth` reads entries and deletion markers together: they are one
stored map of the owner, asked of the storage twice in one turn (`reflectionsSync.ts:115`), with no write between. Left out: guest merge (`adoptGuest` drops
the older text), the review sheet, texts that cannot be decrypted, the key's reset, clock skew.

### ReflectionKey

`ensureReflectionMasterKey` as one run per device, its prompts and requests its steps (`Asks`,
`Decides`, `Unlocks`, `Cancels`, `Resets`, `Creates`, `Stores`, `StoreFails`, `Rereads`), the server's
second write that removes what is under the old key (`CleansUp`), and an upload whose fingerprint
is checked before its write (`ChecksUpload`, `WritesUpload`). Left out: changing the password, keys
without a fingerprint, two sessions of one device side by side, the cryptography.

### SettingsSync

One setting, an ordinary choice (the newest wins) or the Mushaf guide (only moves forward), on the
account and on each device: the saved state (`choice`), what is in use (`shown`) and the call under
way. `Begins`, `AdoptsAccount`, `SendsPending`, `TakesStored` and `Shows` are a full sync at its awaits,
`Pushes` an upload right after a choice; both go one at a time (`CallGoes`). `MergeField` and `Merges`
are the server. `SettingsInit` has values from before settings followed the account
(`claimDevicePreferences`). `Chooses` is the value in use and its record in one step: the code records it
through the chain (`preferencesSyncState.ts:140`) that every reader and writer of the state goes through
too, so that what is asked for later sees it; a kill between the two is left out. Left out: recent emotions, clocks ahead, older servers, a sign-out during
a sync, a reader that had loaded the guide before the account's finish was applied.

### SyncScheduling

`runSyncAfterSignIn` and its callers in `useAuth.tsx`: the slot of the sync in flight, the calls that
wait for an earlier session's, the one more sync after it (`again`), the retry timer and its count.
`SyncEnds` is what follows a sync: complete, incomplete (or failed), nothing done because no owner was
known, or not current any more. Sign-in,
sign-out, foreground and local changes come at any time. What a sync does is left to the other
modules.

### AutoDownload

`evaluate` decides after every event what the offline Mushaf does: one decision at a time with two
awaits in it (`EvaluateStatus`, `AnswerNetwork`, `EvaluateNetwork`), and once more if it was asked for
meanwhile. `RunEnds` is `finish`: completed, stopped, failed with a retry, or stalled. `Press...` are the
reader's buttons, each two or three steps with awaits between. The engine is reduced to its
exclusive slot and a run's outcome. `connected` is the connection and `known` what the controller last heard of
it, which is nothing at first. A decision's last test and the end of it are one step (the
code has one microtask between them, `autoDownload.ts:174`, in which only a promise settling at that
very moment could ask again). Left out: the rollout flag, a change between Wi-Fi
and mobile data as an event of its own, dispose, the forced update check, files and verification.

### ReminderScheduler

A run reads the permission, the pending notifications and the wird to name, then cancels and adds
kind by kind; each is an await and a step. `Reconcile` is the request: a run starts at once, or one is
queued for what is asked last. The requests are those of `useNotifications.tsx`: changed settings,
changed reading data or owner, return to the app. Left out: dated runs and the budget they share,
the random ayah's queue, the language, changes before the settings are loaded.

### PlaybackEngine

Recitations of one file per surah, played ayah by ayah. `playback` is the `PlaybackState` the screens
show, `control` the engine's own variables, `player` the native player and `told` its report on the way.
A transition is split at its awaits: `Transition` begins it (and replaces an older one, whose token is
then stale), `Fetched` has the timing and the source and seeks or replaces the file, `Loads` and `LoadFails`
end it. `Fail` arms the automatic retry, `RetryPlays` is its timer. `HandleReport` is `onStatus`: the end of an
ayah (`OnAyahEnd`, `Advance`), a pause or a resume from outside (`FollowsDevice`), playing that was not asked
for (`PlaysUnasked`). The `Tap...` actions are the reader's, `PlaysOutside`, `PausesOutside` and `Breaks` the
system's. `control.commanded` is the grace of 1.5 s after a command, which ends once the reports of
before it have arrived.

Abstractions: the player's place is an ayah (0 before the first, one more than the last at the end);
reports are read one at a time and at least one is read in each ayah (`ReportTaken`: they come several
times a second); repeat is off or once. Left out:
recordings of one file per ayah or of whole surahs without timing, Full Surah mode, moving by page,
alternates and stream checks, preloading, buffering, notices, the session reciter and numbers.

### IssueOutbox

`job` is a report's notification entry, `worker` a server process's claim. `Claim` counts the attempt
and takes a lease, `ProviderAnswers`, `Record` and `Crash` follow; `LeaseRunsOut` lets recording (not
sending: the provider's timeout is shorter) outlast the lease.

### AccountDeletion

Sync writes and the deletion as transactions on the user's document: `TouchUser` and `BeginDeletion`
read, `TouchConflicts` is the write conflict that runs one of the two again, `RemoveUser` and
`CommitDeletion` finish. Before it come the steps that talk to Apple, each an await: the account is found
(`AppDeletes`, `AdminDeletes`), `ReadToken` reads the stored token, `ExchangeCode` and `SaveToken` obtain one for the app's owner who
had none, also when the account is deleted in between, and `Revoke` revokes it. `DeletionStops` is a refusal, a
failure or a crash after any of them, after the commit too: its answer may be lost, or the
recount find records. `SignInFinds`, `SignInCaptures`, `SignInOpensSession` are a sign-in meanwhile.
`StartChallenge` (which looks the account up before it has the lock), `CreateCase`, `Verify`, `CodeExpires`,
`AdminDeletes` and `AdminCompletes` are the operator's case, under
the case file's lock; a lock left by a crash is removed by hand (`localFiles.ts:50`), which
`DeletionStops` does at once.

`NoDataOfTheDeleted` is about synced data: a session or an Apple token written by a sign-in or a `SaveToken`
that races the deletion may stay, which no request can use. `CompletedMeansDeleted` says that the account is gone
and registered: a run that finds it gone completes the case without a recount
(`adminAccountDeletion.ts:306`). `NewestCodeVerifies` is about verifying: an older case that was verified before the
newer one was issued still authorizes a deletion (`deletionCases.ts:165`). Left out: pruning, the issue reports' own
deletion, changes of e-mail address.

## 4. The runs

| run | question | size |
|---|---|---|
| `auth_late` | one session, two rotations, late calls, expiry, reuse, restarts: recoverable, implements `SessionLineage` | 1 session, 2 calls in flight |
| `auth_switch` | two sign-ins in a row with everything of the first still in progress | 2 sessions, 1 rotation each |
| `auth_live` | the refresh slot is freed, a waiting sign-in completes | fair, 2 epochs |
| `auth_restore` | violation: a restore's clear removes a newer sign-in's tokens | finding 1 |
| `fav_exact` | agreeing clocks and an old app version: nothing lost, account forward, no resurrection | 2 devices, 2 tasks |
| `fav_guest` | the same with guest data, sign-out and sign-in on one device | 2 devices, 2 tasks |
| `fav_ahead` | violation: a clock far ahead undoes a deletion | finding 2 |
| `reading_merge` | one Khatma per cycle, deletions for good, bases that are the account's, no undo in the place of saved progress, "up to date" means the same | 2 devices, 3 cycles, 2 instants, 3 edits or failures |
| `reading_again` | violation: a Khatma taken back and confirmed again before a sync is lost | finding 3 |
| `reflections_race` | violation: an upload discards a text that reached the account since it was read | finding 4 |
| `playback_pause` | violation: a load that was paused and fails plays by itself | finding 5 |
| `background` | the parts that share no state, one per behavior, with every part's liveness | fair, 2 devices |

`background` puts ten modules and `FavoritesSync` under one specification: `part` is chosen at the start and only
that part moves, so that each behavior is one of its module and nothing is composed that the code
does not compose. Its fairness conditions name each part's steps; as one part moves, steps of
different parts stand together in one condition, and each is the weak (for `StartSync`, strong)
fairness of its own part. In it favorites have one clock ahead within the tolerance.

### Bounds

*Auth*: two calls are needed for a retry racing its first attempt, or a refresh racing a logout;
generation 2 for a token that is neither current nor previous; two sessions and three epochs for
an earlier sign-in's work during a later one; `Grace = 0` ticks with a lifetime of at least one tick
puts retries, reuse and expiry all within reach. *Favorites*: two devices and the account give
every three-way disagreement about one entry; two tasks give a sync racing a push on one device and
two devices' uploads racing; three instants (0 to 2) give earlier, equal and later. The last tick
is left for syncing: no user change and no failure happens in it. *Reading*: two cycles are needed
for a Khatma, the cycle it starts and the return to the one before; three events for a change on
each device with a failure, or for read, confirm, take back. One clock instant makes every edit a
tie, the case the merge's tie-breaks are for; earlier and later come from revisions. `background` has these
(and two events, as its devices' syncs also have to converge); the two `reading` runs, which check no liveness,
have a third cycle and a second instant, so that an edit of a later cycle may bear an earlier time. *Reflections*: two texts and two
instants, one on each device at the same or different instants, one sync cut short, its upload perhaps late. *Settings*: the
seed instant and two more. *Key*: two keys and two faults, one of each device's runs lost. *Scheduling*: two
retries, three sessions and three events: a change during a sync that fails across a sign-out.
*Reminders*: two slots, and three changes, so that two requests come during one run. *Download*: two
retries; its other variables are finite as they are. *Outbox*: one report (reports share nothing), two processes,
two attempts, two faults. *Deletion*: one write, two cases, one wrong code, and
either a sign-in or a second case during the deletions (`SignInOrSecondCase`). *Playback*: two surahs and a reciter
without the second, so that going on to it changes the file and the voice; in `background` they have three
ayahs, started at the first, so that skips stay in the file and a repeat may end more than an ayah late; in
`playback_pause` two, started at the last of the first surah; three taps, failures or outside events. `MaxEpoch`, `MaxGen`, `MaxTime`, `MaxEvents`, `MaxTexts`, `MaxInstant`,
`SyncStops`, `LastInstant`, `LostCalls`, `MaxKeys`, `KeyFaults`, `MaxSessions`, `SyncEvents`,
`ReminderEvents`, `MaxPlaybackEvents` and `OutboxFaults` bound nothing else.

### Fairness

The app puts an 8-second timeout around each call, storage calls return, and handlers finish: so
every refresh, queued write, pending clear and call in flight takes its next step (`auth_live`). In
`background` connectivity returns for good: calls are answered, and syncs start again and again
(foreground, retry timer, screen focus); `StartSync` of favorites has strong fairness because a
device's sync shares its slot of tasks with others. A server process that runs takes up due jobs
(its poll timer), timers fire, a decision of the download and a run of the engine end. Nothing is
assumed about the reader, the network's state, the app's activity or crashes, which are bounded
(`MaxEvents`, `OutboxFaults`, ...) or conditions of the property (`PreparedOrStalled`). Convergence
of favorites keeps clocks within the tolerance: beyond it, a clamped instant depends on when the
clock is frozen by the bound, which says nothing of the code.

Deadlock is checked in the auth and favorites runs: the app can always be restarted, and a device
can always sync. In the others the reader's changes are bounded and the system comes to rest.

### What the liveness properties except

`ReflectionsConverge` excepts two different texts of the same instant: a sync that stops after its
text was marked as synced (`reflectionsSync.ts:231`) and before the account's replaced it never
replaces it. `LosesOnlyTheUnread` excepts the texts of finding 4, and histories
in which two texts of one instant met on the account: a base is an instant, so an edit of one then passes
for an edit of the other. `OldCiphertextIsRemoved` excepts an
upload checked before a reset and written after the next key's clean-up
(`syncController.ts:116`), and a server that stopped between storing a key and its clean-up, which
nothing runs again.

### Findings

1. `auth_restore`. `initializeSession.ts:59` clears the stored tokens directly after awaits. If a
   sign-in completes in between, its tokens are removed although its session is live; the comment
   at `tokenManager.ts:13` says every write of the persisted session runs one at a time and only
   for the current sign-in. The other auth runs exclude that one interleaving
   (`SignInDuringRestore = FALSE`).
2. `fav_ahead`. An instant too far in the future is replaced by the time of its upload, so an old
   save handled late beats a newer deletion; `favoritesSync.ts:72` says a deleted verse can never be
   silently re-added by the sync.
3. `reading_again`. `changesToUpload` puts Khatmas before Khatma deletions. A Khatma taken back and
   confirmed again before a sync is uploaded while the account still holds the old one, is answered
   `duplicate` and dropped, and then the old one is deleted: `reading-sync.md` says every confirmed
   Khatma syncs. `DroppedBeforeADeletion` is what remains true, and is proved: a Khatma is dropped with nothing in
   its place only while such a deletion waits on the device.
4. `reflections_race`. An upload replaces a text that reached the account after the uploader read
   it, and nobody keeps it; `reflectionsSync.ts:98` says the text that loses is never discarded.
5. `playback_pause`. A pause while an ayah loads is forgotten when that load fails by the network: the
   automatic retry plays. `engine.ts:886` says of such a pause that it stays paused. (The next ayah after
   a repeat whose seek fails starts in the same way.) `PausedUntilShown` is what remains true, and is proved: what
   is shown as paused plays again only by the reader, the device or that repeat, and a pause while an ayah
   loads is forgotten only once the error of the load has been shown.

Smaller things that reading and modelling showed and no run states, because no document promises
otherwise: a return to the app within the throttle starts no sync although going to the background
cleared the retry timer (`useAuth.tsx:629`); pausing or removing the offline Mushaf while a decision
awaits the network still starts the run it decided on, and "downloading" may stay shown after a
manual run was stopped in the background while stalled; a sign-in may store a session after its
account was deleted (`authController.ts`), which no request can then use; `downloads.ts` applies the
result of a finished transfer without looking at its token again, so that a pause racing the
transfer's end shows "paused" while the next surah is downloaded; a repeat whose seek fails late leaves
the player further on than the ayah after the one shown (`engine.ts:604`), which the reports then do not
catch up with in that file; a push names its base by revision and not by the account's sync id, so that after
an account's records are replaced an older upload may match a new revision by chance
(`MongooseReadingSync.ts`), which is why `UndoKeepsProgress` and `DeletedForGood` stop there; and of two
branches begun from one cycle the one of the higher generation wins, with what it undid. Three more are by
reading only.
The settings download has no rule for the Mushaf guide (`preferencesSync.ts:68`), so an unsent
"finished" gives way to an account's later "closed", which `preferencesMerge.ts:14` promises not to
happen on the server. A reciter chosen while an ayah loads is dropped when that load is retried
automatically. And with a file per ayah, a pause and a resume while the next file loads leave the
phase at "loading" (`loadFile` never sets it), so that no later report is read.

## 5. The proofs

All of them hold for every value of the constants, including the model-checking bounds, under the
named assumptions of the modules.

* `AuthSessionProofs!TypeCorrect`: `Spec => []TypeOK`. The invariant is `TypeInv`: `TypeOK` needs
  to know which calls refreshes hold, and that queued tokens are tokens.
* `AuthSessionProofs!SessionsImplementLineage`: `Spec => ImplementsLineage`. Each server action
  maps to `Open`, `Advance`, `End` of one session, or a stutter; `Tick` maps to `End` of all the
  sessions whose expiry it reaches; device actions stutter.
* `FavoritesProofs!FavoritesTyped`, `AccountForward` (no old versions, any clocks), `ChangesKept`
  (clocks within the tolerance), `DeletionsStay` (agreeing clocks, old versions allowed). The
  last two rest on the inductive invariant `Sound`:
  * `Near` – no instant anywhere is beyond the tolerance, so the server stores what is sent;
  * `Stamped` – with agreeing clocks an instant is the time of the change and not in the future;
  * `Answered` – the answer to an upload is not beaten by what was sent, so adopting a "stored
    earlier" instant, the one write that could move a device backwards, does not occur;
  * `CloudOld` – what a task was told of the account is at most what the account holds;
  * `OwnOrKnown` – a device holds what its own clock could give, or what the account has too: this
    is why a change the user makes on a slow clock loses nothing, though it may be beaten;
  * `GuestOwn` – the guest partition holds only the device's own changes.

  `Sources` says where each entry of a next state comes from; the frame lemmas say what a step may
  do to each variable; `Sound` is then kept part by part. `Sound` was also model-checked on small
  instances of each kind of clock.
* `FavoritesProofs!AgreementLasts` (assumptions as for `ChangesKept`), the stability half of `Converges`: once
  every device and the account agree on a verse, only a user's change, a merge of guest data or an old app
  version ends it (`AgreementStays`). With `Sound` it rests on `NoNews`: whatever a task remembers and whatever
  is still on its way to the server, a place holds it, or something it cannot beat. So under agreement an
  upload stores nothing new, and an answer puts at most a marker in the place of one of the same instant.
* `AuthSessionProofs!DeviceRecovers`: `~SignInDuringRestore` gives `Spec => []StoredRecoverable`. The
  assumption excludes the interleaving of finding 1, on which `PhaseInv` rests. `StoredRecoverable` says where the server is relative to the
  stored token, so it depends on everything that can move either. `Inv` is `TypeInv` with
  `RecoverableInv`, whose parts are in `AuthSession`:
  * `TokensKnown` – no token anywhere is ahead of the server: storing one cannot overshoot;
  * `CallsBehindStored` – no call or refresh is ahead of the stored token: a rotation by a late
    call starts at most from the stored token, so the server gets at most one step ahead;
  * `RefreshesStored` – the current epoch's refresh is for the stored token, and the write it
    queues is that token's successor: storing it closes the gap;
  * `NewSessionUnused` – nothing uses a new session before its first token is stored;
  * `CallsOfRefreshes` – a waiting refresh has its own call in flight, so a granted answer is for
    its token;
  * `PhaseInv`, `OneOutcome`, `OneSignIn`, `OnlyTheFirstRuns`, `NothingFromTheFuture` – which of the
    chains in progress exclude each other: no refresh of the current epoch during a sign-in or a
    sign-out, one outcome to write at a time, and an empty start for each new epoch.

  Shape lemmas say what each kind of step does to the queue, the refreshes and the sessions
  (`Joins`, `Leaves`, `StartsToRun`, `RefreshShape`, `SessionSteps`); source lemmas say where each
  token of the next state comes from (`CallSource`, `RefreshSource`, `WriteSource`,
  `StoresFirst`); each part of the invariant then follows in a lemma of its own. `RecoverableInv`
  was also model-checked on the instances of `auth_late` and `auth_switch`.

* `SessionUserProofs!TokensMatchUser` and `GuestIsClean`, under the same assumption. `UserInv`, on top of `Inv`:
  sign-ins in the queue are of the current epoch; when the first write of the queue runs, what it
  writes is what is stored (`RunsFirst`); an expiry's write runs with no access token; and while
  signed out or signing in, either no token is stored or the latest clear is still to come
  (`AwaitsClear`) - which is why a write of an earlier session, running when the sign-out came, does no
  harm. Model-checked on the instance of `auth_switch`.
* `SessionUserProofs!ForgetsOnlyTheDead`, under the same assumption. `CallsJudged`: a call that waits as
  rejected belongs to a session that has ended, since `find` read it dead, or the reuse branch revoked
  it; a session that has ended stays so. `ExpiresTheDead`: an expiry of the current epoch, queued or
  running, is of the stored token, and that token's session has ended - it follows from
  `CallsOfRefreshes` and `RefreshesStored`, which tie the answer to the call and the call to what is
  stored.
* `SessionUserProofs!ReuseIsOld`: `~LateDelivery` and `~SignInDuringRestore` give
  `Spec => []ReuseOnlyAfterGrace`. The first assumption is what the grace is for (`refreshRotation.ts`): a
  call ends before the client gives up on it. `GraceInv`: every call is awaited by the refresh that sent
  it, no two refreshes are of one session (`OneRefreshOfSession`), so that only a refresh itself can have
  rotated its token (`RefreshesNearby`), and a call that missed came after that rotation.
* `ReadingProofs!CompleteIsSame`, `OneKhatmaOfACycle`, `BaseIsWhatItWas`, `DeletedStaysSo` rest on
  `ReadingInv`, which says of each sync state what it promises, of the saved one and of the one a sync
  carries:
  * `Knows` – what it says of the account (the base, the known and the acknowledged records) is so, in the
    account's generation of records;
  * `Has` – what the account changed up to its change number is on the device, or marked deleted there, or
    in the pages not applied yet;
  * `AnswerOK` – an answer not applied yet is what the account still has, or the account has changed since
    and will tell again.

  The account numbers every change higher than all before (`Grows`), so the changes of others leave all
  three alone. What the account has of a cycle is kept by `AccountOK`.
* `ReadingProofs!UndoneKeeps`: `ReadingSpec => UndoKeepsProgress`. `ProgressInv`, on top of `ReadingInv`:
  * `Lawful` – a cycle begins at one generation, its undo is the next one, and a wird of the cycle is of its
    first generation or, given back by an undo, two or more past it. So an undo never ties with a wird of
    the cycle it undoes: it is newer than the first one and older than every other. Which generation each
    cycle began at is bound by an existential, a choice that only grows;
  * `KeepsUp` – the account is not behind what a sync state tells of it, and the device's wird has taken
    that in unless the account is ahead and will tell a newer one;
  * `Queue`, `Carries` – an upload made from the account's present revision has taken its wird in.
* `ReadingProofs!KhatmaDropped`: `ReadingSpec => DroppedBeforeADeletion`, how far finding 3 goes. What an
  answer still to be applied tells is kept in `AnswersTell`: the Khatma a `duplicate` was refused for is
  another one of the cycle, live, whose deletion the account has not had from this device. The device puts it
  in the refused one's place, unless that deletion waits there.
* `AccountDataProofs!ChoicesKept`: no call knows of a later value than the account's, and the answer to an
  upload is of no earlier instant than what was sent, so that what a device marks as synced is there.
* `AccountDataProofs!OwnKeyFinished`, `OldCiphertextRemoved` rest on `KeyInv`: a key belongs to one session
  (`KeysAreNew`), and each step of a run has learnt something of the account's key and the device's
  (`RunKnows`): a run that creates or unlocks has not made the account's key, one that stores holds the key it set up.
* `AccountDataProofs!OnlyTheUnreadIsLost` rests on `ReflectionInv`: what an entry says of its base
  (`EntryInv`), what a sync's copies of the entry and the account are worth when they are used
  (`SnapshotInv`), that each step has kept what the next overwrites (`UploadInv`), that an upload that may come
  late has done so too (`LateInv`), and that a text is safe or still its author's entry (`TextInv`).
* `DeviceProofs!OneSyncAtATime`, `ChangesPickedUp`: the sync in flight is the one that runs
  (`OneRuns`), so that a call of a later session waits and a change is either unsent with a sync to
  come or before the sync in flight.
* `DeviceProofs!RetriesAreBounded`: the variant behind `RetriesEnd`. `StepsLeft` counts the ends of syncs and
  timers that may follow: a sync that fails asks for at most `MaxRetries` retries, but a complete one forgets
  those made and not the one due, so two series may follow each other. Without a new event or sign-in each of
  these steps leaves fewer. It rests on `CallsBehind`: what is asked for is of the present session or an
  earlier one, only the sync in flight goes on once more, and who waits, waits for an earlier session's sync.
* `DeviceProofs!NotStranded` rests on `AutoInv`: a decision runs alone, one that found no network hears of
  its return (`DecidesAlone`), and a stop or a choice of the reader stands until the job it stops has ended
  (`ChoiceStands`).
* `DeviceProofs!RemindersFollowed` rests on `ReminderInv`: what a run was told is what holds now, unless
  another is queued or it will be noticed (`AskedLast`); what it read is still what is registered
  (`SeenIsPending`); and the cancellations and additions still to be made leave each kind right
  (`GoesRight`).
* `DeviceProofs!ShownIsHeard` rests on `PlaybackInv`: a transition is for what is shown, and the engine's
  idea of the loaded file is the player's (`TransitionInv`, `FileInv`); once an ayah's end counts, a report
  on its way was made where the player still is (`PlaceInv`).
* `DeviceProofs!ShownPauseHolds`: `PlaybackSpec => PausedUntilShown`, how far finding 5 goes. `PauseIsMeant`: what
  is shown as paused is not wanted to play, and what is shown as playing or loading is.
* `ServerProofs!OneLiveSend`, `SendsBounded`, `OutcomeStands`: claims of one report differ in their
  number, none is ahead of the job's, and the one being sent is the newest and under its lease;
  sends are counted by attempts.
* `ServerProofs!JobsAreBounded`: the variant behind `OutboxSettles`. `AttemptsCounted`: beyond the last attempt
  that is sent there are only as many claims as something failed, and the one at work. Each wait, claim,
  answer and record of a job that is not settled leaves fewer of them (`JobStepsLeft`), and only a fault makes
  them more.
* `ServerProofs!NothingLeftOfDeleted`, `CompletedIsDeleted`, `OnlyNewestVerifies`: `DataInv` says that a
  removal that got as far as the user has seen all that is stored, because the touch of the user's
  document keeps a write and a removal apart; `CaseInv` that one administrative deletion of one case
  runs at a time and that cases older than the last issued are superseded or done.

* `BackgroundProofs!PartsKeepTheirSpecifications`: seen from each of the eleven parts of `background`, a behavior of
  all of them is one of that part's own specification, so that every theorem above about a part holds of the
  whole; `BackgroundTyped`, its type invariant, follows from the parts'.

Every inductive invariant was model-checked on a small instance before it was proved, with larger bounds
than the runs' where they are cheap: `KeyInv` with three devices, `AutoInv` with three retries,
`PlaybackInv` with four ayahs and four events, `ReflectionInv` with three devices; `ReadingInv` and
`ProgressInv` (for a table of starts) on the instance of `reading_merge`, `GraceInv` on that of `auth_switch`.

What the proofs found: three properties held only within the bounds they were first checked in, and say now
what the code keeps. The clean-up that still removes an upload of an old key is the one of the account's present key, not one
under way on a third device (`Cleaning`); the player is in the ayah shown or just past it only once a report has armed it
(`AyahShownIsHeard`, see "smaller things"); and an undo could stand where progress had been in a state no
undo had caused, with three devices (`UndoKeepsProgress` is a property of steps).

Only model-checked: liveness, since the prover has no support for fairness and `ENABLED`. Of three liveness
properties the part that needs neither is proved: the variants of `RetriesEnd` and `OutboxSettles`
(`RetriesAreBounded`, `JobsAreBounded`), so that what TLC adds is that their steps do happen, and that agreement of
favorites stays once reached (`AgreementLasts`). The properties the code violates (section 4) have a counterexample
instead. Every other property of a run is a theorem.

## 6. Not modelled

* Audio downloads (`downloads.ts`): closures over one native transfer module, read and not modelled
  (see the end of section 4). Recordings of one file per ayah and of whole surahs.
* Content, search, emotions, importers, tafsir: read-only while the program runs, or scripts.
* Screens, localization, theme, Qibla, memorization: presentation and sensors. They and the
  generated data of the Mushaf are most of the repository's lines.
* Cryptography is taken as given, and so are MongoDB's transactions and the operating systems.
* What each module leaves out of its own sources is named with it in section 3.

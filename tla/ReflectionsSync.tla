--------------------------- MODULE ReflectionsSync ---------------------------
(***************************************************************************)
(* The reflection of one ayah, written and synced by several devices       *)
(* (mobile sync/reflectionsSync.ts, storage/ayahReflections.ts, storage/   *)
(* reflectionConflicts.ts; backend services/MongooseSyncRepository.ts).    *)
(*                                                                         *)
(* The newer version is current everywhere, and a deletion wins a tie; the *)
(* text that loses to a change made without seeing it is kept beside the   *)
(* current one.  A version is a text and an instant: text 0 is a deletion, *)
(* instant 0 no version at all.  All devices hold the same key, and the    *)
(* encryption is left out.  Device clocks agree (FavoritesSync models      *)
(* those that do not).                                                     *)
(***************************************************************************)
EXTENDS Naturals, FiniteSets

CONSTANTS
    Writers,     \* the devices signed in to the account
    MaxTexts,    \* bound: texts written
    MaxInstant,  \* bound: the clock
    SyncStops    \* bound: syncs cut short (app stopped, request or answer lost)

ASSUME ReflectionAssumption ==
    {MaxTexts, MaxInstant, SyncStops} \subseteq Nat /\ MaxInstant # 0

VARIABLES
    clock,      \* the instant now
    written,    \* how many texts were saved; they are numbered
    entry,      \* the local entry: a version and the cloud version it is based on
    kept,       \* the conflict versions kept on the device (texts)
    held,       \* the account's version
    preserved,  \* the account's conflictVersions (texts)
    merge,      \* the sync under way on the device
    stops,      \* syncs cut short
    late,       \* uploads given up on that the account may still be sent
    seen,       \* history: texts a reader replaced or deleted where they were shown
    unread      \* history: texts an upload replaced on the account although its
                \* sync had read the account before they were there

reflectionVars ==
    <<clock, written, entry, kept, held, preserved, merge, stops, late, seen, unread>>

Texts == 1..MaxTexts
Version == [text : 0..MaxTexts, at : 0..MaxInstant]
Note == [text : 0..MaxTexts, at : 0..MaxInstant, base : 0..MaxInstant]
NoVersion == [text |-> 0, at |-> 0]
NoNote == [text |-> 0, at |-> 0, base |-> 0]

\* A sync: what it read of the device and of the account, whether the account's
\* version is to replace the local one even at a tie, and the version the account
\* answers the upload with: the one sent, or its own.
Merge == [step : {"idle", "upload", "answered", "apply"}, local : Note,
          cloud : Version, adopt : BOOLEAN, saved : {"none", "sent", "own"}]
NoMerge == [step |-> "idle", local |-> NoNote, cloud |-> NoVersion,
            adopt |-> FALSE, saved |-> "none"]
Upload == [sent : Version, cloud : Version]

ReflectionTypeOK ==
    /\ clock \in 1..MaxInstant /\ written \in 0..MaxTexts /\ stops \in 0..SyncStops
    /\ entry \in [Writers -> Note] /\ kept \in [Writers -> SUBSET Texts]
    /\ held \in Version /\ preserved \subseteq Texts
    /\ merge \in [Writers -> Merge] /\ late \subseteq Upload
    /\ seen \subseteq Texts /\ unread \subseteq Texts

ReflectionInit ==
    /\ clock = 1 /\ written = 0 /\ stops = 0
    /\ entry = [d \in Writers |-> NoNote] /\ kept = [d \in Writers |-> {}]
    /\ held = NoVersion /\ preserved = {}
    /\ merge = [d \in Writers |-> NoMerge] /\ late = {}
    /\ seen = {} /\ unread = {}

Active(v) == v.text # 0
Tombstone(v) == v.text = 0 /\ v.at # 0
VersionOf(e) == [text |-> e.text, at |-> e.at]

\* syncBaseOf: a synced entry is based on itself.
Synced(e) == e.base = e.at

-----------------------------------------------------------------------------
(* The reader's own changes.                                               *)

Ticks ==
    /\ clock < MaxInstant
    /\ clock' = clock + 1
    /\ UNCHANGED <<written, entry, kept, held, preserved, merge, stops, late, seen, unread>>

\* saveReflection: the entry keeps the cloud version it was based on.  A reader
\* does not save twice in an instant.
Rewrites(d, text) ==
    /\ clock > entry[d].at
    /\ entry' = [entry EXCEPT ![d] = [text |-> text, at |-> clock, base |-> @.base]]
    /\ seen' = IF Active(entry[d]) THEN seen \union {entry[d].text} ELSE seen
    /\ UNCHANGED <<clock, kept, held, preserved, merge, stops, late, unread>>

Save(d) ==
    /\ written < MaxTexts
    /\ written' = written + 1
    /\ Rewrites(d, written + 1)

Delete(d) ==
    /\ Active(entry[d])
    /\ UNCHANGED written
    /\ Rewrites(d, 0)

-----------------------------------------------------------------------------
(* The sync of one device.                                                 *)

\* isConcurrent: a local unsynced change made without seeing this version.
Concurrent(e, cloud) ==
    cloud.at # 0 /\ e.at # 0 /\ ~Synced(e) /\ e.base # cloud.at

\* As TombstoneNeedsUpload, but the tie of a deletion is left to the account.
TombstoneNeedsUploadNewer(e, cloud) == cloud.at < e.at

\* A deletion wins a tie against a text.
TombstoneNeedsUpload(e, cloud) ==
    IF Active(cloud) THEN cloud.at <= e.at ELSE cloud.at < e.at

\* The other device's change is current: newer, or the deterministic tie.
Yields(e, cloud) ==
    Active(e) /\ Concurrent(e, cloud) /\ cloud.text # e.text /\ cloud.at >= e.at

NeedsUpload(e, cloud) ==
    IF Active(e) THEN cloud.at < e.at ELSE e.at # 0 /\ TombstoneNeedsUpload(e, cloud)

\* As TextsToKeep, without the other device's text this one's change replaces.
TextsToKeepOwn(e, cloud) == IF Yields(e, cloud) THEN {e.text} ELSE {}

\* The losing text, kept before anything is uploaded or overwritten.
TextsToKeep(e, cloud) ==
    IF Yields(e, cloud) THEN {e.text}
    ELSE IF Concurrent(e, cloud) /\ NeedsUpload(e, cloud) /\ cloud.text # e.text
    THEN {cloud.text} \ {0}
    ELSE {}

\* Reads the device and the account, and keeps the losing text.  (An edit between
\* the two reads is one made after both: it changes neither.)
ReadBoth(d) ==
    /\ merge[d].step = "idle"
    /\ kept' = [kept EXCEPT ![d] = @ \union TextsToKeep(entry[d], held)]
    /\ merge' = [merge EXCEPT ![d] =
          [step |-> IF NeedsUpload(entry[d], held) THEN "upload" ELSE "apply",
           local |-> entry[d], cloud |-> held, adopt |-> Yields(entry[d], held),
           saved |-> "none"]]
    /\ UNCHANGED <<clock, written, entry, held, preserved, stops, late, seen, unread>>

\* putReflections: the newer version stays; at a tie a deletion, and of two texts
\* the one already there, the other being preserved.  (So is the same text sent
\* again, which is newly encrypted: left out, as it preserves no other text.)
Wins(sent, current) ==
    sent.at > current.at \/ (sent.at = current.at /\ Tombstone(sent))

PutReflection(sent, cloud) ==
    /\ held' = IF Wins(sent, held) THEN sent ELSE held
    /\ preserved' = IF sent.at = held.at /\ Active(sent) /\ Active(held) /\ sent # held
                    THEN preserved \union {sent.text} ELSE preserved
    /\ unread' = IF Wins(sent, held) /\ Active(held) /\ held # cloud
                 THEN unread \union {held.text} ELSE unread

Uploads(d) ==
    LET sent == VersionOf(merge[d].local) IN
    /\ merge[d].step = "upload"
    /\ PutReflection(sent, merge[d].cloud)
    /\ merge' = [merge EXCEPT ![d].step = "answered",
                              ![d].saved = IF Wins(sent, held) THEN "sent" ELSE "own"]
    /\ UNCHANGED <<clock, written, entry, kept, stops, late, seen>>

\* serverKeptDifferentVersion: a text was sent and the account kept its own version,
\* which is another one, or another encryption of this one.
Raced(m) == Active(m.local) /\ m.saved = "own"

\* markReflectionSyncState and markReflectionUploaded: the entry that was uploaded is
\* synced; an edit made meanwhile is based on the version just stored.
Marked(e, m) ==
    IF e.at = m.local.at THEN [e EXCEPT !.base = e.at]
    ELSE IF Raced(m) \/ Synced(e) THEN e
    ELSE [e EXCEPT !.base = m.local.at]

TakesAnswer(d) ==
    LET m == merge[d] IN
    /\ m.step = "answered"
    /\ kept' = [kept EXCEPT ![d] = IF Raced(m) THEN @ \union {m.local.text} ELSE @]
    /\ entry' = [entry EXCEPT ![d] = Marked(@, m)]
    /\ merge' = [merge EXCEPT ![d].step = "apply", ![d].adopt = @ \/ Raced(m)]
    /\ UNCHANGED <<clock, written, held, preserved, stops, late, seen, unread>>

\* The account's version to write over the snapshot `e`: never an older one, and at a
\* tie only a deletion over a text, unless the local text was kept for it.
Downloads(e, cloud, adopt) ==
    /\ cloud.at # 0
    /\ e.at # 0 =>
          \/ cloud.at > e.at
          \/ cloud.at = e.at /\ (adopt \/ (Active(e) /\ Tombstone(cloud)))

\* The account is read again if anything was uploaded; its version is written if the
\* entry is still the one of the snapshot; the versions it preserved are imported.
\* (A change of the account after that read is one for the next sync.)
Applies(d) ==
    LET m == merge[d]
        cloud == IF m.saved = "none" THEN m.cloud ELSE held
        write == Downloads(m.local, cloud, m.adopt) /\ entry[d].at = m.local.at
    IN
    /\ m.step = "apply"
    /\ entry' = IF write
                THEN [entry EXCEPT ![d] = [text |-> cloud.text, at |-> cloud.at, base |-> cloud.at]]
                ELSE entry
    /\ kept' = [kept EXCEPT ![d] =
                  IF Active(held) THEN @ \union (preserved \ {entry'[d].text}) ELSE @]
    /\ merge' = [merge EXCEPT ![d] = NoMerge]
    /\ UNCHANGED <<clock, written, held, preserved, stops, late, seen, unread>>

\* The app stops, or a request or its answer is lost; an upload under way may still
\* reach the account later.
CutShort(d) ==
    LET m == merge[d] IN
    /\ m.step # "idle" /\ stops < SyncStops
    /\ stops' = stops + 1
    /\ merge' = [merge EXCEPT ![d] = NoMerge]
    /\ \/ UNCHANGED late
       \/ /\ m.step = "upload"
          /\ late' = late \union {[sent |-> VersionOf(m.local), cloud |-> m.cloud]}
    /\ UNCHANGED <<clock, written, entry, kept, held, preserved, seen, unread>>

ArrivesLate(u) ==
    /\ u \in late /\ late' = late \ {u}
    /\ PutReflection(u.sent, u.cloud)
    /\ UNCHANGED <<clock, written, entry, kept, merge, stops, seen>>

MergeStep(d) == ReadBoth(d) \/ Uploads(d) \/ TakesAnswer(d) \/ Applies(d)

ReflectionNext ==
    \/ Ticks
    \/ \E u \in late : ArrivesLate(u)
    \/ \E d \in Writers : Save(d) \/ Delete(d) \/ MergeStep(d) \/ CutShort(d)

ReflectionSpec == ReflectionInit /\ [][ReflectionNext]_reflectionVars

-----------------------------------------------------------------------------
(* Properties.                                                             *)

\* Where a text can still be read: as a reflection, as one of the account, or as a
\* version kept or preserved beside it.
Readable(t) ==
    \/ held.text = t \/ (t \in preserved /\ Active(held))
    \/ \E d \in Writers : entry[d].text = t \/ t \in kept[d]

\* "Last-write-wins decides which text is current on every device ... the text that
\* loses is no longer discarded" (docs/auth-and-sync/reflection-privacy.md): a saved
\* text is readable somewhere until a reader replaces or deletes it where it is shown.
LosingTextKept == \A t \in 1..written : t \in seen \/ Readable(t)

\* The same, but for a text that reached the account between another device's read of
\* it and that device's newer upload: nobody but the writer had it, whose device takes
\* its text for synced, and so as nothing to keep.  (A base is an instant: once two
\* texts of one instant met on the account, an edit of one passes for one of the other.)
LosesOnlyTheUnread ==
    preserved = {} => \A t \in 1..written : t \in seen \/ t \in unread \/ Readable(t)

\* Once the reader stops and syncs run, every device shows the account's version.
\* Excepted are two texts of the very same instant: a sync that stops after its text
\* was marked as synced, and before the account's replaced it, never replaces it.
ReflectionsConverge ==
    <>[](\A d \in Writers :
            \/ VersionOf(entry[d]) = held
            \/ entry[d].at = held.at /\ Active(held) /\ Active(entry[d]))
=============================================================================

----------------------------- MODULE ReadingSync -----------------------------
(***************************************************************************)
(* One wird of one account and its Khatmas, on the account and on the       *)
(* account's devices (mobile/src/sync/readingSync.ts, readingSyncModel.ts, *)
(* readingSyncState.ts, mushaf/khatmas.ts; backend/src/services/           *)
(* readingSync.ts, MongooseReadingSync.ts).                                *)
(*                                                                         *)
(* The account keeps a revision of each record and numbers its changes; a  *)
(* change of the wird is refused unless it was made from the current       *)
(* revision, and the device then merges.  A sync downloads the changes     *)
(* page by page, applies them, remembers what it has (meta), then uploads  *)
(* what differs from it.  Between any two of these steps the reader edits, *)
(* the other device syncs, the app is killed or an answer is lost, and an  *)
(* upload given up on may still arrive.                                    *)
(*                                                                         *)
(* PULL_LIMIT and PUSH_BATCH are 1 here: every page and every change is a  *)
(* request of its own, so that all interleavings of larger ones occur.     *)
(***************************************************************************)
EXTENDS Integers, FiniteSets

CONSTANTS
    ReadingDevices,       \* the account's devices
    Cycles,        \* reading cycle ids; their order is that of the ids
    Instants,      \* what a device's clock may show when the reader saves
    LastPage,      \* MUSHAF_PAGE_COUNT
    Faults,        \* the failures that happen: see ReadingAssumption
    MaxEvents      \* bound on edits and failures (model checking only)

ASSUME ReadingAssumption ==
    /\ ReadingDevices # {} /\ IsFiniteSet(ReadingDevices)
    /\ Cycles \subseteq Nat /\ 0 \in Cycles
    /\ Instants \subseteq Nat \ {0} /\ Instants # {}
    /\ LastPage \in Nat \ {0, 1}
    /\ Faults \subseteq {"abandon", "meta", "stops", "records"}
    /\ MaxEvents \in Nat

VARIABLES
    account,   \* [gen, seq, recs]: syncId, last change number, the records
    data,     \* each device's wird, Khatmas and deletion markers
    meta,     \* each device's saved sync state
    sync,     \* the sync in progress on each device
    strayPush,    \* uploads given up on that may still arrive
    opened,   \* startedByKhatmaId of every cycle begun
    events     \* edits and failures so far

readingVars == <<account, data, meta, sync, strayPush, opened, events>>

(* A record is the wird, or a Khatma: the n-th record of its cycle. *)
WirdKey == <<0, 0>>
KhatmaKeys == Cycles \X (1..(MaxEvents + 1) \div 2)
Keys == {WirdKey} \cup KhatmaKeys

NoCycle == -1
NoKhatma == <<-1, 0>>
NotBegun == <<-1, -1>>
Page == 1..LastPage
Wird == [cyc : Cycles \cup {NoCycle}, seq : Nat, page : Page, at : Nat,
         saved : BOOLEAN, undone : Cycles \cup {NoCycle}]
NoWird == [cyc |-> NoCycle, seq |-> 0, page |-> 1, at |-> 0, saved |-> FALSE,
           undone |-> NoCycle]

(* A record's content; a Khatma's is the instant of its completion. *)
Body == Wird

(* Mutant: a Khatma's content carries page 0. *)
KhatmaContentNoPage(t) == [NoWird EXCEPT !.at = t, !.page = 0]

KhatmaContent(t) == [NoWird EXCEPT !.at = t]
AccountRecord == [rev : Nat, chg : Nat, live : BOOLEAN, body : Body]
Absent == [rev |-> 0, chg |-> 0, live |-> FALSE, body |-> NoWird]
Deleted(r) == r.rev > 0 /\ ~r.live

Data == [wird : Wird,
         khatmas : [KhatmaKeys -> Nat],      \* 0: no such record here
         deleted : SUBSET Keys]              \* deletedStops, deletedRecords
Meta == [gen : Nat, since : Nat, base : [rev : Nat, wird : Wird],
         known : SUBSET KhatmaKeys, acked : SUBSET Keys]
NoBase == [rev |-> 0, wird |-> NoWird]
EmptyMeta == [gen |-> 0, since |-> 0, base |-> NoBase, known |-> {}, acked |-> {}]

ReadingChange == [key : Keys, del : BOOLEAN, base : Nat, body : Body]
NoChange == [key |-> WirdKey, del |-> FALSE, base |-> 0, body |-> NoWird]
Answer == [gen : Nat, status : {"none", "applied", "conflict", "deleted", "duplicate"},
           key : Keys, rec : AccountRecord, sent : ReadingChange]
NoAnswer == [gen |-> 0, status |-> "none", key |-> WirdKey, rec |-> Absent,
             sent |-> NoChange]

NoRecords == [k \in Keys |-> Absent]
Pulled == [key : Keys, rec : AccountRecord]
Sync == [st : {"idle", "pulling", "saving", "ready", "answered"},
         meta : Meta, got : SUBSET Pulled,
         todo : SUBSET ReadingChange, answer : Answer]
NotSyncing == [st |-> "idle", meta |-> EmptyMeta, got |-> {}, todo |-> {},
         answer |-> NoAnswer]

ReadingTypeOK ==
    /\ account \in [gen : Nat, seq : Nat, recs : [Keys -> AccountRecord]]
    /\ data \in [ReadingDevices -> Data]
    /\ meta \in [ReadingDevices -> Meta]
    /\ sync \in [ReadingDevices -> Sync]
    /\ strayPush \subseteq ReadingChange
    /\ opened \in [Cycles -> KhatmaKeys \cup {NoKhatma, NotBegun}]
    /\ events \in Nat

First == [NoWird EXCEPT !.cyc = 0, !.page = LastPage]
Holding(w, k) == [wird |-> w, deleted |-> {},
                  khatmas |-> [j \in KhatmaKeys |-> IF j = k THEN 1 ELSE 0]]

(* A wird just created on one device. *)
InitCreated ==
    /\ account = [gen |-> 0, seq |-> 0, recs |-> NoRecords]
    /\ \E creator \in ReadingDevices :
         data = [d \in ReadingDevices |-> Holding(IF d = creator THEN First ELSE NoWird,
                                          NoKhatma)]
    /\ meta = [d \in ReadingDevices |-> EmptyMeta]
    /\ opened = [c \in Cycles |-> IF c = 0 THEN NoKhatma ELSE NotBegun]
    /\ events = 1

(* The account and every device have the same wird, with the Khatma of its *)
(* first cycle (which began the second), or in its first cycle.            *)
InitSynced ==
    \E k \in {NoKhatma} \cup {j \in KhatmaKeys : j = <<0, 1>> /\ 1 \in Cycles} :
        LET first == k = NoKhatma
            w == IF first THEN First
                 ELSE [NoWird EXCEPT !.cyc = 1, !.seq = 1, !.at = 1]
            of(body, n) == [rev |-> 1, chg |-> n, live |-> TRUE, body |-> body] IN
        /\ account = [gen |-> 1, seq |-> IF first THEN 1 ELSE 2,
                     recs |-> [j \in Keys |->
                                 IF j = WirdKey THEN of(w, 1)
                                 ELSE IF j = k THEN of(KhatmaContent(1), 2)
                                 ELSE Absent]]
        /\ data = [d \in ReadingDevices |-> Holding(w, k)]
        /\ meta = [d \in ReadingDevices |->
                     [gen |-> 1, since |-> account.seq, base |-> [rev |-> 1, wird |-> w],
                      known |-> {k} \ {NoKhatma}, acked |-> {}]]
        /\ opened = [c \in Cycles |-> IF c = 0 THEN NoKhatma
                                      ELSE IF c = 1 /\ ~first THEN k ELSE NotBegun]
        /\ events = IF first THEN 0 ELSE 1

ReadingInit ==
    /\ InitCreated \/ InitSynced
    /\ sync = [d \in ReadingDevices |-> NotSyncing]
    /\ strayPush = {}

-----------------------------------------------------------------------------
(* The reader: mushaf/khatmas.ts.                                          *)
Edit(d, dt) ==
    /\ events < MaxEvents
    /\ data' = [data EXCEPT ![d] = dt]
    /\ events' = events + 1
    /\ UNCHANGED <<account, meta, sync, strayPush>>

SaveWirdPage(d, p, t) ==
    LET w == data[d].wird IN
    /\ w # NoWird /\ t # w.at
    /\ Edit(d, [data[d] EXCEPT !.wird =
                  [w EXCEPT !.page = p, !.at = t, !.saved = @ \/ p # w.page]])
    /\ UNCHANGED opened

(* khatmaRecordId: the first n neither recorded nor removed here (two events a   *)
(* record: it never runs out of KhatmaKeys).                                     *)
FreeKhatma(dt, k) ==
    /\ k \notin dt.deleted /\ dt.khatmas[k] = 0
    /\ \A j \in 1..k[2] - 1 : <<k[1], j>> \in dt.deleted \/ dt.khatmas[<<k[1], j>>] # 0

(* The record and the next cycle; a cycle already recorded stays as it is. *)
ConfirmKhatma(d, c, t) ==
    LET w == data[d].wird IN
    /\ w # NoWird /\ w.page = LastPage
    /\ \A j \in KhatmaKeys : j[1] = w.cyc => data[d].khatmas[j] = 0
    /\ opened[c] = NotBegun
    /\ \E k \in KhatmaKeys :
         /\ k[1] = w.cyc /\ FreeKhatma(data[d], k)
         /\ Edit(d, [data[d] EXCEPT
                       !.khatmas[k] = t,
                       !.wird = [cyc |-> c, seq |-> w.seq + 1, page |-> 1, at |-> t,
                                 saved |-> FALSE, undone |-> NoCycle]])
         /\ opened' = [opened EXCEPT ![c] = k]

(* Only the cycle this Khatma began, with nothing saved in it, is undone. *)
RemoveKhatma(d, k) ==
    LET w == data[d].wird
        undo == w # NoWird /\ opened[w.cyc] = k /\ ~w.saved /\ w.page = 1 IN
    /\ data[d].khatmas[k] # 0
    /\ Edit(d, [data[d] EXCEPT
                  !.khatmas[k] = 0,
                  !.deleted = @ \cup {k},
                  !.wird = IF undo
                           THEN [cyc |-> k[1], seq |-> w.seq + 1,
                                 page |-> LastPage, at |-> w.at,
                                 saved |-> TRUE, undone |-> w.cyc]
                           ELSE w])
    /\ UNCHANGED opened

DeleteWird(d) ==
    /\ data[d].wird # NoWird
    /\ Edit(d, [data[d] EXCEPT !.wird = NoWird, !.deleted = @ \cup {WirdKey}])
    /\ UNCHANGED opened

-----------------------------------------------------------------------------
(* Combining the device's wird with the account's: readingSyncModel.ts.    *)

(* Mutant: the newer generation always wins. *)
PositionNewer(l, r) == IF l.seq > r.seq THEN l ELSE r

Position(l, r) ==
    LET newer == IF l.seq > r.seq THEN l ELSE r
        older == IF l.seq > r.seq THEN r ELSE l
        later == IF l.at > r.at THEN l ELSE r IN
    IF l.seq = r.seq /\ l.cyc = r.cyc
    THEN [later EXCEPT !.saved = l.saved \/ r.saved]
    ELSE IF l.seq = r.seq
    THEN IF l.saved # r.saved THEN (IF l.saved THEN l ELSE r)
         ELSE IF l.saved /\ l.at # r.at THEN later
         ELSE IF l.cyc < r.cyc THEN l ELSE r
    ELSE IF newer.undone = older.cyc /\ older.seq = newer.seq - 1 /\ older.saved
         THEN [older EXCEPT !.seq = newer.seq + 1, !.undone = NoCycle]
         ELSE newer

MergeWird(l, r, base) ==
    IF l = base THEN r
    ELSE IF r = base THEN l
    ELSE Position(l, r)

(* applyRecord of every record of got (latest versions): applyDeletion and *)
(* applyContent, on the device's data dt and its sync state m.             *)
Applied(m, dt, got) ==
    LET gone == {g.key : g \in {x \in got : Deleted(x.rec)}}
        of(k) == IF \E g \in got : g.key = k
                 THEN (CHOOSE g \in got : g.key = k).rec ELSE Absent
        live == {k \in KhatmaKeys : of(k).live}
        kept == live \ dt.deleted
        w == of(WirdKey) IN
    [data |->
       [wird |-> IF WirdKey \in gone THEN NoWird
                 ELSE IF ~w.live \/ WirdKey \in dt.deleted THEN dt.wird
                 ELSE IF dt.wird = NoWird THEN w.body
                 ELSE MergeWird(dt.wird, w.body, m.base.wird),
        khatmas |-> [k \in KhatmaKeys |->
                       IF k \in gone THEN 0
                       ELSE IF k \in kept THEN of(k).body.at
                       ELSE IF k \notin m.known /\ \E j \in kept : j[1] = k[1]
                       THEN 0
                       ELSE dt.khatmas[k]],
        deleted |-> dt.deleted \cup gone],
     meta |->
       [m EXCEPT !.base = IF WirdKey \in gone THEN NoBase
                          ELSE IF w.live THEN [rev |-> w.rev, wird |-> w.body]
                          ELSE @,
                 !.known = (@ \cup live) \ gone,
                 !.acked = @ \cup gone]]

(* applyDownloaded also brings back a wird lost here without a deletion. *)
AppliedDownload(m, dt, got) ==
    LET next == Applied(m, dt, got) IN
    IF next.data.wird = NoWird /\ WirdKey \notin next.data.deleted
    THEN [next EXCEPT !.data.wird = next.meta.base.wird]
    ELSE next

(* Mutant: deletion markers stay on the device. *)
NoDeletesToUpload(m, dt) == {}

DeletesToUpload(m, dt) ==
    {[key |-> k, del |-> TRUE, base |-> 0, body |-> NoWird] : k \in dt.deleted \ m.acked}

(* changesToUpload *)
ToUpload(m, dt) ==
    {c \in {[key |-> WirdKey, del |-> FALSE, base |-> m.base.rev, body |-> dt.wird]} :
        dt.wird # NoWird /\ dt.wird # m.base.wird}
    \cup {[key |-> k, del |-> FALSE, base |-> 0, body |-> KhatmaContent(dt.khatmas[k])] :
             k \in {j \in KhatmaKeys : dt.khatmas[j] # 0 /\ j \notin m.known}}
    \cup DeletesToUpload(m, dt)

(* Their order: the wird, its deletion, Khatmas, their deletions. *)
Rank(c) == (IF c.key = WirdKey THEN 0 ELSE 2) + (IF c.del THEN 1 ELSE 0)
FirstOf(todo) == {c \in todo : \A x \in todo : Rank(c) <= Rank(x)}

-----------------------------------------------------------------------------
(* The account: one change in one transaction (pushReadingChanges).         *)

(* Mutant: only this record is looked up, not its cycle. *)
HolderNone(k) == {}

(* The live Khatma of the same cycle under another id. *)
Holder(k) == {j \in KhatmaKeys : j # k /\ j[1] = k[1] /\ account.recs[j].live}

(* Mutant: a deletion marker is taken for no record. *)
NeverRefuses(c) == FALSE

Refuses(c) == Deleted(account.recs[c.key])

(* decideReadingChange *)
Status(c) ==
    LET r == account.recs[c.key] IN
    IF c.del THEN "applied"
    ELSE IF Refuses(c) THEN "deleted"
    ELSE IF c.key # WirdKey
    THEN IF ~r.live /\ Holder(c.key) # {} THEN "duplicate" ELSE "applied"
    ELSE IF r.live /\ c.base # r.rev THEN "conflict" ELSE "applied"

(* NoRecords is written for what is already so: a deletion, a Khatma. *)
Writes(c) ==
    /\ Status(c) = "applied"
    /\ IF c.del THEN ~Deleted(account.recs[c.key])
       ELSE c.key = WirdKey \/ ~account.recs[c.key].live

Stored(c) ==
    IF Writes(c)
    THEN [rev |-> account.recs[c.key].rev + 1, chg |-> account.seq + 1,
          live |-> ~c.del, body |-> c.body]
    ELSE account.recs[c.key]

Pushed(c) ==
    [gen |-> IF account.gen = 0 THEN 1 ELSE account.gen,
     seq |-> IF Writes(c) THEN account.seq + 1 ELSE account.seq,
     recs |-> [account.recs EXCEPT ![c.key] = Stored(c)]]

AnswerTo(c) ==
    LET k == IF Status(c) = "duplicate" THEN CHOOSE j \in Holder(c.key) : TRUE
             ELSE c.key IN
    [gen |-> Pushed(c).gen, status |-> Status(c), key |-> k,
     rec |-> IF k = c.key THEN Stored(c) ELSE account.recs[k], sent |-> c]

-----------------------------------------------------------------------------
(* One device's sync: syncReadingNow, syncOnce, download.                  *)
ReaderUntouched == UNCHANGED <<strayPush, opened, events>>

Newer(since) == {k \in Keys : account.recs[k].chg > since}

(* The wird was lost here, not deleted. *)
Lost(d) == data[d].wird = NoWird /\ meta[d].base # NoBase /\ WirdKey \notin data[d].deleted

(* A sync that would find nothing to do changes nothing. *)
Due(d) ==
    \/ account.gen \notin {0, meta[d].gen}
    \/ Newer(meta[d].since) # {}
    \/ ToUpload(meta[d], data[d]) # {}
    \/ Lost(d)

(* Mutant: a page is followed by what is changed after it was answered. *)
NextSinceNow(k) == account.seq

NextSince(k) == account.recs[k].chg

(* A sync begins with its saved state.  One page of the feed; another      *)
(* generation starts it over.  The last page is applied, by one write of   *)
(* the device's data under the lock (updateReadingSnapshot); what happens  *)
(* between its answer and that write might as well have come before or     *)
(* after both.                                                             *)
PullPage(d) ==
    LET s == IF sync[d].st = "idle"
             THEN [NotSyncing EXCEPT !.st = "pulling", !.meta = meta[d]] ELSE sync[d]
        new == Newer(s.meta.since)
        first == CHOOSE k \in new : \A j \in new :
                     account.recs[k].chg <= account.recs[j].chg
        last == \A k \in new : k = first
        page == IF new = {} THEN {} ELSE {[key |-> first, rec |-> account.recs[first]]}
        got == {g \in s.got : new = {} \/ g.key # first} \cup page
        m == [s.meta EXCEPT !.gen = IF account.gen = 0 THEN @ ELSE account.gen,
                            !.since = IF new = {} THEN @ ELSE NextSince(first)]
        next == AppliedDownload(m, data[d], got) IN
    /\ s.st = "pulling"
    /\ sync[d].st = "idle" => Due(d)
    /\ \/ /\ account.gen # 0 /\ s.meta.gen \notin {0, account.gen}
          /\ sync' = [sync EXCEPT ![d] =
               [s EXCEPT !.meta = [EmptyMeta EXCEPT !.gen = account.gen], !.got = {}]]
          /\ UNCHANGED data
       \/ /\ account.gen = 0 \/ s.meta.gen \in {0, account.gen}
          /\ ~last
          /\ sync' = [sync EXCEPT ![d] = [s EXCEPT !.meta = m, !.got = got]]
          /\ UNCHANGED data
       \/ /\ account.gen = 0 \/ s.meta.gen \in {0, account.gen}
          /\ last
          /\ sync' = [sync EXCEPT ![d] =
               [s EXCEPT !.st = "saving", !.meta = next.meta, !.got = {}]]
          /\ data' = [data EXCEPT ![d] = next.data]
    /\ UNCHANGED <<account, meta>> /\ ReaderUntouched

(* Its sync state is saved after it.  A round begins when the last one is  *)
(* through: what differs now is uploaded, or the sync is complete.         *)
SaveMeta(d) ==
    LET s == sync[d]
        todo == IF s.todo # {} THEN s.todo ELSE ToUpload(s.meta, data[d]) IN
    /\ s.st = "saving"
    /\ meta' = [meta EXCEPT ![d] = s.meta]
    /\ sync' = [sync EXCEPT ![d] = IF todo = {} THEN NotSyncing
                                   ELSE [s EXCEPT !.st = "ready", !.todo = todo]]
    /\ UNCHANGED <<account, data>> /\ ReaderUntouched

(* The account takes the next change; the device waits for the answer. *)
PushChange(d) ==
    \E c \in FirstOf(sync[d].todo) :
        /\ sync[d].st = "ready"
        /\ account' = Pushed(c)
        /\ sync' = [sync EXCEPT ![d] = [sync[d] EXCEPT !.st = "answered",
                                  !.todo = @ \ {c}, !.answer = AnswerTo(c)]]
        /\ UNCHANGED <<data, meta>> /\ ReaderUntouched

(* Mutant: what the device has now counts as acknowledged. *)
AcknowledgedNow(dt, a) == [rev |-> a.rec.rev, wird |-> dt.wird]

(* What was sent is what the account has, whatever the reader did since. *)
Acknowledged(dt, a) == [rev |-> a.rec.rev, wird |-> a.sent.body]

(* The account has what was sent; another device's Khatma may differ. *)
Taken(a) ==
    /\ a.status = "applied" /\ ~a.sent.del
    /\ a.key = WirdKey \/ a.rec.body = a.sent.body

(* applyResults of one answer. *)
ResultApplied(m, dt, a) ==
    LET fresh == [m EXCEPT !.gen = a.gen]
        dropped == IF a.status = "duplicate" THEN [dt EXCEPT !.khatmas[a.sent.key] = 0]
                   ELSE dt IN
    IF ~Taken(a) THEN Applied(fresh, dropped, {[key |-> a.key, rec |-> a.rec]})
    ELSE [data |-> dt,
          meta |-> IF a.key = WirdKey
                   THEN [fresh EXCEPT !.base = Acknowledged(dt, a)]
                   ELSE [fresh EXCEPT !.known = @ \cup {a.key}]]

ReceiveResult(d) ==
    LET s == sync[d]
        restart == s.meta.gen # 0 /\ s.answer.gen # s.meta.gen
        next == ResultApplied(s.meta, data[d], s.answer) IN
    /\ s.st = "answered"
    /\ data' = IF restart THEN data ELSE [data EXCEPT ![d] = next.data]
    /\ sync' = [sync EXCEPT ![d] =
                  IF restart THEN [NotSyncing EXCEPT !.st = "pulling"]
                  ELSE [s EXCEPT !.st = "saving", !.meta = next.meta, !.answer = NoAnswer]]
    /\ UNCHANGED <<account, meta>> /\ ReaderUntouched

-----------------------------------------------------------------------------
(* Failures: a request fails, the session changes or the app is killed, at *)
(* any point; the upload under way may arrive later.                       *)
ReadingFault(kind) ==
    LET cost == IF kind = "abandon" THEN 1 ELSE 2 IN
    /\ kind \in Faults
    /\ events + cost <= MaxEvents
    /\ events' = events + cost
    /\ UNCHANGED opened

Abandon(d) ==
    /\ ReadingFault("abandon")
    /\ sync[d].st # "idle"
    /\ sync' = [sync EXCEPT ![d] = NotSyncing]
    /\ strayPush' \in {strayPush} \cup
         (IF sync[d].st = "ready" THEN {strayPush \cup sync[d].todo} ELSE {})
    /\ UNCHANGED <<account, data, meta>>

DeliverStray ==
    \E c \in strayPush :
        /\ account' = Pushed(c)
        /\ strayPush' = strayPush \ {c}
        /\ UNCHANGED <<data, meta, sync, opened, events>>

(* Unreadable sync state reads as empty; damaged stops read as none. *)
LoseMeta(d) ==
    /\ ReadingFault("meta")
    /\ sync[d].st = "idle"
    /\ meta' = [meta EXCEPT ![d] = EmptyMeta]
    /\ UNCHANGED <<account, data, sync, strayPush>>

LoseStops(d) ==
    /\ ReadingFault("stops")
    /\ data[d].wird # NoWird
    /\ data' = [data EXCEPT ![d].wird = NoWird]
    /\ UNCHANGED <<account, meta, sync, strayPush>>

(* The account's stored records are replaced (a backup): those of its      *)
(* first n changes return, without the records changed since.  A new       *)
(* generation.                                                             *)
ReplaceRecords ==
    /\ ReadingFault("records")
    /\ account.gen # 0
    /\ \E n \in 0..account.seq :
         account' = [gen |-> account.gen + 1, seq |-> n,
                     recs |-> [k \in Keys |-> IF account.recs[k].chg <= n THEN account.recs[k]
                                              ELSE Absent]]
    /\ UNCHANGED <<data, meta, sync, strayPush>>

SyncStep(d) ==
    \/ PullPage(d) \/ SaveMeta(d) \/ PushChange(d) \/ ReceiveResult(d)

Reader(d) ==
    \/ \E p \in Page, t \in Instants : SaveWirdPage(d, p, t)
    \/ \E c \in Cycles, t \in Instants : ConfirmKhatma(d, c, t)
    \/ \E k \in KhatmaKeys : RemoveKhatma(d, k)
    \/ DeleteWird(d)

ReadingNext ==
    \/ \E d \in ReadingDevices :
         \/ Reader(d)
         \/ SyncStep(d)
         \/ Abandon(d)
         \/ LoseMeta(d)
         \/ LoseStops(d)
    \/ DeliverStray
    \/ ReplaceRecords

ReadingSpec == ReadingInit /\ [][ReadingNext]_readingVars

(* Syncs begin again on foregrounding and retry, and run on. *)
ReadingFairSpec == ReadingSpec /\ \A d \in ReadingDevices : WF_readingVars(SyncStep(d))

-----------------------------------------------------------------------------
(* Nothing waits on this device and it has all of the account's changes.     *)
Complete(d) ==
    /\ sync[d].st = "idle"
    /\ meta[d].gen = account.gen
    /\ meta[d].since = account.seq
    /\ ToUpload(meta[d], data[d]) = {}
    /\ ~Lost(d)

Same(d) ==
    /\ data[d].wird = account.recs[WirdKey].body
    /\ \A k \in KhatmaKeys :
         data[d].khatmas[k] = IF account.recs[k].live THEN account.recs[k].body.at ELSE 0
    /\ data[d].deleted = {k \in Keys : Deleted(account.recs[k])}

(* A device whose sync state says that it is up to date shows exactly what *)
(* the account holds: the sync state never runs ahead of the data.         *)
CompleteMeansSame == \A d \in ReadingDevices : Complete(d) => Same(d)

(* At most one Khatma of a cycle is live on the account. *)
OneKhatmaPerCycle ==
    \A j, k \in KhatmaKeys :
        account.recs[j].live /\ account.recs[k].live /\ j[1] = k[1] => j = k

(* The version a device says the account had at a revision is that one: a  *)
(* wird is never overwritten by a device that had not merged it.           *)
BaseIsTheAccounts ==
    \A d \in ReadingDevices :
        LET r == account.recs[WirdKey] IN
        \A m \in {meta[d], sync[d].meta} :
            m.gen = account.gen /\ r.live /\ m.base.rev = r.rev => m.base.wird = r.body

(* "The progress is kept" (docs/auth-and-sync/reading-sync.md): no merge   *)
(* and no upload, stale or late, puts the undo of a cycle in the place of a *)
(* page saved in that cycle: not on the account (until its records are     *)
(* replaced, whose revisions an upload from before may match by chance),   *)
(* and not on a device that has not sent that page.                        *)
KeepsProgress(w, next) == w.saved => next.undone # w.cyc

UndoKeepsProgress ==
    [][/\ account'.gen <= 1 => KeepsProgress(account.recs[WirdKey].body, account'.recs[WirdKey].body)
       /\ \A d \in ReadingDevices :
            data[d].wird \notin {meta[d].base.wird, sync[d].meta.base.wird}
              => KeepsProgress(data[d].wird, data'[d].wird)]_readingVars

(* What a device or the account deleted is never there again, whoever      *)
(* edits or uploads it (the account's, until its records are replaced).    *)
DeletedForGood ==
    [][/\ \A k \in Keys : Deleted(account.recs[k]) /\ account'.gen = account.gen
                              => Deleted(account'.recs[k])
       /\ \A d \in ReadingDevices :
            /\ data[d].deleted \subseteq data'[d].deleted
            /\ WirdKey \in data[d].deleted => data'[d].wird = NoWird
            /\ \A k \in data[d].deleted \ {WirdKey} : data'[d].khatmas[k] = 0]_readingVars

(* A confirmed Khatma leaves a device only because it was removed there or *)
(* on the account, or for another Khatma of its cycle.                     *)
DroppedOnlyForAnother ==
    [][\A d \in ReadingDevices, k \in KhatmaKeys :
          data[d].khatmas[k] # 0 /\ data'[d].khatmas[k] = 0 =>
             \/ k \in data'[d].deleted
             \/ \E j \in KhatmaKeys : j[1] = k[1] /\ data'[d].khatmas[j] # 0]_readingVars

(* That much can be said of what the code does: it leaves, too, while the  *)
(* deletion of another Khatma of its cycle still waits on the device.      *)
DroppedBeforeADeletion ==
    [][\A d \in ReadingDevices, k \in KhatmaKeys :
          data[d].khatmas[k] # 0 /\ data'[d].khatmas[k] = 0 =>
             \/ k \in data'[d].deleted
             \/ \E j \in KhatmaKeys : j[1] = k[1] /\ data'[d].khatmas[j] # 0
             \/ \E j \in data[d].deleted \ meta[d].acked : j # k /\ j[1] = k[1]]_readingVars

(* Once the reader stops, every device comes to show what the account has. *)
DevicesConverge == <>[](\A d \in ReadingDevices : Same(d))
=============================================================================
